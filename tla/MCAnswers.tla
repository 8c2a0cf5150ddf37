----------------------------- MODULE MCAnswers -----------------------------
(* An instance of Answers for TLC.                                         *)
EXTENDS Answers

CONSTANTS c1, c2
MCReqs == c1 :> 2 @@ c2 :> 1

Req(method, version, url) == [method |-> method, version |-> version, url |-> url]

\* Files of one line, of two, and of none.
MCFiles == [page |-> <<<<"x">>>>, long |-> <<<<"x">>, <<"x">>>>, empty |-> <<>>]
MCChars == {"x"}
MCScripts == {"query"}
MCRequests ==
  c2 :> {Req("GET", "HTTP/1.1", "long")} @@ c1 :>
  {Req("GET", "HTTP/1.1", "page"), Req("HEAD", "HTTP/1.1", "page"), Req("POST", "HTTP/1.1", "none"),
   Req("GET", "HTTP/1.1", "empty"), Req("GET", "HTTP/1.1", "none"), Req("GET", "HTTP/1.0", "page"),
   Req("GET", "HTTP/1.1", "query")}
=============================================================================
