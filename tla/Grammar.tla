------------------------------- MODULE Grammar -------------------------------
(***************************************************************************)
(* The parser bison has made of parser.y (src/src/parser/y.tab.c).         *)
(*                                                                         *)
(* A token has its internal number (yytranslate).  A semantic value, a     *)
(* character or a string, is a sequence of characters; a string is cut to  *)
(* MaxText of them.  A step is a shift or a reduction with all the parser  *)
(* does for it, or the reading of a token.                                 *)
(*                                                                         *)
(* strcpy() looks at no size.  A string that is too long for its array but *)
(* stays in the request, or in the array of fields, is stored, and read as *)
(* what has become of it; one that goes further ends the model: the        *)
(* process dies of it, or goes on with the memory of others overwritten.   *)
(***************************************************************************)
EXTENDS Integers, Sequences, SequencesExt, FiniteSetsExt

CONSTANTS
  MaxText,     \* what snprintf() into a string of yylval keeps, 8191
  InitDepth,   \* YYINITDEPTH
  MaxDepth,    \* YYMAXDEPTH
  MethodSize, VersionSize,   \* the sizes of http_method and http_version
  UriSize,                   \* that of http_uri behind them, with the padding it ends with
  NameSize, ValueSize        \* those of header_name and header_value

\* The depths are 200 and 10000 (y.tab.c:779-791).
ASSUME DepthAssumption ==
  InitDepth \in Nat \ {0, 1} /\ MaxDepth \in Nat /\ MaxDepth > 10 /\ MaxText \in Nat

\* The sizes are 50, 50, 4100, 4096 and 4096 (parse.h:8-23): a string fits into a field.
ASSUME SizeAssumption ==
  /\ {MethodSize, VersionSize, UriSize, NameSize, ValueSize} \subseteq Nat \ {0}
  /\ MaxText < NameSize + ValueSize

VARIABLES
  yyss, yyvs, yystacksize,   \* the stacks of states and of values, and their capacity
  yychar, yylval,            \* the lookahead token and its value
  yyresult,                  \* "none", "runs", the label yyparse() returned from, or "overrun"
  parsing_request            \* the strings copied to the Request_C that is filled in

stack == <<yyss, yyvs, yystacksize>>
lookahead == <<yychar, yylval>>
gramvars == <<stack, lookahead, yyresult, parsing_request>>

YYEMPTY == -2
YYEOF == 0
t_crlf == 3
t_backslash == 4
t_digit == 5
t_dot == 7
t_token_char == 8
t_lws == 9
t_colon == 10
t_separators == 11
t_sp == 12
t_ws == 13
t_ctl == 14

\* The tables of that name.
lalr ==
  [yypact |->
     <<39, -24, -24, -24, -24, 33, 39, 9, 26, -24, 16, -24, 39, -1, -24, -24, -24, -24, -24, -24,
        4, -24, -24, -6, -24, -24, 26, 26, 13, 2, -24, 26, -24, 7, -24>>,
   yydefact |->
     <<0, 3, 4, 2, 5, 0, 20, 0, 0, 6, 11, 18, 21, 0, 1, 10, 9, 8, 7, 14, 11, 12, 13, 0, 19, 22,
        0, 0, 11, 11, 15, 0, 16, 11, 17>>,
   yypgoto |-> <<-24, 1, 12, -5, -10, -23, -24, 15, -24, -24, -24>>,
   yydefgoto |-> <<-1, 18, 10, 19, 27, 20, 6, 11, 12, 13, 7>>,
   yytable |->
     <<23, 4, 25, 29, 28, 32, 9, 4, 33, 14, 34, 9, 5, 4, 21, 22, 26, 22, 31, 21, 22, 1, 30, 2, 3,
        21, 22, 24, 21, 22, 15, 1, 0, 2, 3, 0, 16, 17, 1, 0, 2, 3, 0, 0, 1, 8, 2, 3>>,
   yycheck |->
     <<10, 0, 3, 26, 10, 3, 5, 6, 31, 0, 3, 10, 0, 12, 12, 13, 12, 13, 28, 12, 13, 5, 27, 7, 8,
        12, 13, 12, 12, 13, 4, 5, -1, 7, 8, -1, 10, 11, 5, -1, 7, 8, -1, -1, 5, 12, 7, 8>>,
   yyr1 |->
     <<0, 15, 16, 16, 16, 17, 17, 18, 18, 18, 18, 19, 19, 19, 20, 20, 21, 22, 23, 23, 24, 24, 25>>,
   yyr2 |->
     <<0, 2, 1, 1, 1, 1, 2, 1, 1, 1, 1, 0, 1, 1, 1, 3, 6, 6, 1, 2, 0, 1, 3>>]

YYPACT_NINF == -24
YYLAST == 47
YYNTOKENS == 15
YYTERROR == 1

\* The entry of state s for symbol x in a row that starts at base, or 0.
Entry(base, x, check) ==
  LET n == base + x IN
  IF n \in 0 .. YYLAST /\ lalr.yycheck[n + 1] = check THEN lalr.yytable[n + 1] ELSE 0

TopState == Last(yyss)
IsDefault(s) == lalr.yypact[s + 1] = YYPACT_NINF

\* Where to shift the lookahead token, or 0.
ShiftTo(s) == IF IsDefault(s) THEN 0 ELSE Entry(lalr.yypact[s + 1], yychar, yychar)

\* Where to go in state s with nonterminal x: the row is the nonterminal's.
GotoState(s, x) ==
  LET n == Entry(lalr.yypgoto[x - YYNTOKENS + 1], s, s) IN
  IF n # 0 THEN n ELSE lalr.yydefgoto[x - YYNTOKENS + 1]

-----------------------------------------------------------------------------
(* The request.                                                            *)

\* parse_request_header() makes one for each call: all zero, with room for a field.
NoRequest == [method |-> <<>>, uri |-> <<>>, version |-> <<>>, headers |-> <<>>, capacity |-> 1]

GramInit ==
  /\ yyss = <<0>> /\ yyvs = <<<<>>>> /\ yystacksize = InitDepth
  /\ yychar = YYEMPTY /\ yylval = <<>>
  /\ yyresult = "none"
  /\ parsing_request = NoRequest

\* yyparse() up to yysetstate, with the request of set_parsing_options().
Yyparse ==
  /\ yyss' = <<0>> /\ yyvs' = <<<<>>>> /\ yystacksize' = InitDepth
  /\ yychar' = YYEMPTY /\ yylval' = yylval
  /\ yyresult' = "runs"
  /\ parsing_request' = NoRequest

\* Mutant: the array grows when it is over full.
RoomLate(r) == IF Len(r.headers) > r.capacity THEN 2 * r.capacity ELSE r.capacity

\* expand_request_header(), if the array is full.
Room(r) == IF Len(r.headers) = r.capacity THEN 2 * r.capacity ELSE r.capacity

\* $n of a rule whose right hand side ends at the top of the stack.
Value(rule, n) == yyvs[Len(yyvs) - lalr.yyr2[rule + 1] + n]

\* Mutant: the blanks between two characters of a text become one.
JoinedTight(rule) == Value(rule, 1) \o Value(rule, 3)

\* "%s%s%c"
Joined(rule) == Value(rule, 1) \o Value(rule, 2) \o Value(rule, 3)

\* The value of a rule's left hand side; $1 by default.
SemanticValue(rule) ==
  LET string == CASE rule = 6 -> Value(rule, 1) \o Value(rule, 2)
                  [] rule = 15 -> Joined(rule)
                  [] rule \in {11, 20} -> <<>>
                  [] OTHER -> Value(rule, 1)
  IN  SubSeq(string, 1, Min({MaxText, Len(string)}))

\* A string goes over the end of the request or of the array of its fields.
Overruns(rule, r) ==
  \/ /\ rule = 16
     /\ \/ Len(Value(16, 1)) >= MethodSize + VersionSize + UriSize
        \/ Len(Value(16, 3)) >= UriSize
        \/ Len(Value(16, 5)) >= VersionSize + UriSize
  \/ /\ rule = 17
     /\ Len(Value(17, 5)) >= ValueSize /\ Len(r.headers) + 1 >= Room(r)

\* What a rule's action stores.
Store(rule, r) ==
  CASE rule = 16 -> [r EXCEPT !.method = Value(16, 1), !.uri = Value(16, 3), !.version = Value(16, 5)]
    [] rule = 17 -> [r EXCEPT !.capacity = Room(r),
                              !.headers = Append(@, <<Value(17, 1), Value(17, 5)>>)]
    [] OTHER -> r

\* What is read of arrays of those sizes that lie one behind the other: a string that is
\* too long goes on in the next array, where the next string is written over it.
ReadBack(strings, sizes) ==
  LET at[k \in DOMAIN strings] ==
        IF Len(strings[k]) < sizes[k] \/ k = Len(strings) THEN strings[k]
        ELSE SubSeq(strings[k], 1, sizes[k]) \o at[k + 1]
  IN  at

\* The request as parse_request_header() reads it. The URI is written before the version,
\* whose end may lie over it.
Stored(r) ==
  LET line == ReadBack(<<r.method, r.version>>, <<MethodSize, VersionSize>>)
      fields == ReadBack(FlattenSeq(r.headers),
                         [k \in 1 .. 2 * Len(r.headers) |-> IF k % 2 = 1 THEN NameSize ELSE ValueSize])
  IN
  [method |-> line[1], version |-> line[2],
   uri |-> IF Len(r.version) < VersionSize THEN r.uri
           ELSE SubSeq(r.version, VersionSize + 1, Len(r.version)),
   headers |-> [j \in DOMAIN r.headers |-> <<fields[2 * j - 1], fields[2 * j]>>]]

-----------------------------------------------------------------------------
(* yyparse().                                                              *)

\* yynewstate: a full stack is doubled, up to MaxDepth; if that is full, the call ends.
Push(states, values) ==
  LET full == yystacksize <= Len(states)
      size == IF full /\ yystacksize < MaxDepth THEN Min({2 * yystacksize, MaxDepth})
              ELSE yystacksize
  IN
  /\ yyss' = states /\ yyvs' = values /\ yystacksize' = size
  /\ yyresult' = IF ~full THEN "runs"
                 ELSE IF yystacksize >= MaxDepth THEN "exhausted"
                 ELSE IF size <= Len(states) THEN "abort" ELSE "runs"

\* The state decides without a token, or there is one.
NeedsToken == yyresult = "runs" /\ yychar = YYEMPTY /\ ~IsDefault(TopState)
Decides == yyresult = "runs" /\ ~NeedsToken

\* yylex() returns a token; yylval is its value unless it has none. Blanks are copied into
\* it whatever their length.
ReadToken(token, value) ==
  /\ NeedsToken
  /\ yychar' = token /\ yylval' = value
  /\ yyresult' = IF Len(value) > MaxText THEN "overrun" ELSE "runs"
  /\ UNCHANGED <<stack, parsing_request>>

Shift ==
  /\ Decides
  /\ ShiftTo(TopState) > 0
  /\ Push(Append(yyss, ShiftTo(TopState)), Append(yyvs, yylval))
  /\ yychar' = YYEMPTY
  /\ UNCHANGED <<yylval, parsing_request>>

Reduce(rule) ==
  LET kept == Len(yyss) - lalr.yyr2[rule + 1]
      below == SubSeq(yyss, 1, kept)
  IN
  /\ Decides
  /\ ShiftTo(TopState) = 0
  /\ rule = lalr.yydefact[TopState + 1] /\ rule \in 1 .. 21
  /\ ~Overruns(rule, parsing_request)
  /\ parsing_request' = Store(rule, parsing_request)
  /\ Push(Append(below, GotoState(Last(below), lalr.yyr1[rule + 1])),
          Append(SubSeq(yyvs, 1, kept), SemanticValue(rule)))
  /\ UNCHANGED lookahead

Overrun ==
  /\ Decides
  /\ ShiftTo(TopState) = 0
  /\ Overruns(lalr.yydefact[TopState + 1], parsing_request)
  /\ yyresult' = "overrun"
  /\ UNCHANGED <<stack, lookahead, parsing_request>>

\* The action of rule 22 returns SUCCESS: the lookahead is not asked for, and the
\* termination state never reached.
Accept ==
  /\ Decides
  /\ ShiftTo(TopState) = 0 /\ lalr.yydefact[TopState + 1] = 22
  /\ yyresult' = "accept"
  /\ UNCHANGED <<stack, lookahead, parsing_request>>

\* A syntax error.  No state of the grammar takes the error token, so the whole stack is
\* popped and the call ends; the lookahead is lost.
SyntaxError ==
  /\ Decides
  /\ ShiftTo(TopState) = 0 /\ lalr.yydefact[TopState + 1] = 0
  /\ \A k \in DOMAIN yyss : Entry(lalr.yypact[yyss[k] + 1], YYTERROR, YYTERROR) = 0
  /\ yyresult' = "abort"
  /\ UNCHANGED <<stack, lookahead, parsing_request>>

GramStep == Shift \/ (\E rule \in 1 .. 21 : Reduce(rule)) \/ Overrun \/ Accept \/ SyntaxError

-----------------------------------------------------------------------------
(* Properties.                                                             *)

\* The stacks stay small however long the input, and below their capacity, so that no call
\* ends for want of memory; a reduction takes no more off them than they hold above the
\* first state; and the fields have room in their array (y.tab.c:1112-1186, 1257-1282,
\* parser.y:134-151, 162-171).
StacksBounded ==
  /\ Len(yyvs) = Len(yyss) /\ Len(yyss) <= 10 /\ Len(yyss) < yystacksize
  /\ yyresult # "exhausted"
  /\ Decides /\ ShiftTo(TopState) = 0 =>
       lalr.yyr2[lalr.yydefact[TopState + 1] + 1] < Len(yyss)
  /\ Len(parsing_request.headers) <= parsing_request.capacity
=============================================================================
