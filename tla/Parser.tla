------------------------------- MODULE Parser -------------------------------
(***************************************************************************)
(* What yyparse() makes of a request header (src/src/parser).              *)
(*                                                                         *)
(* A unit is a piece of the stream that the scanner of HttpHandler and the *)
(* grammar treat as one:                                                   *)
(*   line   a request line with its CRLF                                   *)
(*   field  a Content-Length field with its CRLF, the only field that      *)
(*          changes what the handler does                                  *)
(*   crlf   a line end of its own                                          *)
(*   byte   one byte that starts neither a line nor a field, such as `{'   *)
(*   rest   what is left of a line or field after an error in it           *)
(*                                                                         *)
(* flex copies all of its input into a buffer of its own, and that buffer  *)
(* outlives a call of yyparse(): what one call does not consume is read by *)
(* the next, ahead of the input set_parsing_options() has set.             *)
(***************************************************************************)
EXTENDS Integers, Sequences, FiniteSetsExt

Unit(kind, req, n) == [kind |-> kind, req |-> req, n |-> n]

\* The first unit at which the parser has decided, whichever way.
Decisive(s) ==
  {k \in 1 .. Len(s) : s[k].kind # IF k = 1 THEN "line" ELSE "field"}

From(s, k) == SubSeq(s, k, Len(s))

\* An error inside a line or a field leaves the rest of it unread.
Rests(u) ==
  CASE u.kind \in {"line", "field"} -> {<<Unit("rest", u.req, 0)>>}
    [] u.kind = "rest" -> {<<>>, <<Unit("rest", u.req, 0)>>}
    [] OTHER -> {<<>>}

\* Mutant: flex goes back to the start of its buffer.
Rewound(s, k) == s

\* What flex holds when the parser has decided at the k-th unit.
Unconsumed(s, k) == From(s, k + 1)

\* The outcomes of yyparse() on the input in, with lex left from the call before:
\* whether it accepts, what it read, and what it leaves.  It reads the input only
\* if lex does not decide, and what is not read of it then is lost: the next
\* set_parsing_options() sets another buffer.
Parse(lex, in) ==
  LET s == IF Decisive(lex) # {} THEN lex ELSE lex \o in IN
  IF Decisive(s) = {}
  THEN {[accepts |-> FALSE, reads |-> s, lex |-> <<>>]}    \* the end of the input
  ELSE LET k == Min(Decisive(s)) IN
       IF k > 1 /\ s[k].kind = "crlf"
       THEN {[accepts |-> TRUE, reads |-> SubSeq(s, 1, k), lex |-> Unconsumed(s, k)]}
       ELSE {[accepts |-> FALSE, reads |-> SubSeq(s, 1, k), lex |-> r \o Unconsumed(s, k)] :
               r \in Rests(s[k])}

\* parse_read() over a unit.  Between units the automaton is in one of three states;
\* in FOUND it does not look at the unit's first byte.
ScanUnit(s, u) ==
  CASE u.kind = "byte" -> "START"
    [] u.kind = "crlf" -> [START |-> "CRLF", CRLF |-> "FOUND", FOUND |-> "START"][s]
    [] OTHER -> "CRLF"

\* The automaton's state after each unit of a read.
Scan(s, seg) ==
  LET after[k \in 0 .. Len(seg)] == IF k = 0 THEN s ELSE ScanUnit(after[k - 1], seg[k])
  IN  after

Ends(s, seg) == {k \in 1 .. Len(seg) : Scan(s, seg)[k] = "FOUND"}
=============================================================================
