--------------------------- MODULE MCHttpHandler ---------------------------
(* Instances of HttpHandler for TLC.                                       *)
EXTENDS HttpHandler

Get == [kind |-> "GET", length |-> 0]
Post(n) == [kind |-> "POST", length |-> n]
Malformed == [kind |-> "bad", length |-> 0]

\* GETs, then POSTs of the same length.
MCRegular == {<<Get, Get, Get>>, <<Get, Get, Post(2)>>, <<Get, Post(2), Post(2)>>,
              <<Post(2), Post(2), Post(2)>>}

\* Three requests of any kind, and a body that is longer than the headers of two.
MCAny == [1 .. 3 -> {Get, Post(1), Post(2), Malformed}] \cup {<<Post(32)>>}

\* A POST, and the GET of the client after it.
MCPosts == {<<Post(2), Get>>}
=============================================================================
