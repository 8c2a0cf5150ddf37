-------------------------------- MODULE Lexer --------------------------------
(***************************************************************************)
(* The scanner flex has made of parser.l (src/src/parser/lex.yy.c).        *)
(*                                                                         *)
(* A character is its equivalence class (yy_ec): the tables and the rules  *)
(* tell no more of it.  yy_ch_buf holds the characters read and the two    *)
(* end-of-buffer characters behind them; what flex has left behind those   *)
(* is never read.  Positions count from 0, as in the code.                 *)
(*                                                                         *)
(* yylex() is taken apart at its labels: loop is the head of its loop,     *)
(* match and find are yy_match and yy_find_action, act is the switch over  *)
(* the actions, and out means that it has returned.                        *)
(***************************************************************************)
EXTENDS Integers, Sequences, SequencesExt, FiniteSetsExt

CONSTANTS
  BufSizes,   \* YY_BUF_SIZE: a set, to have several at once
  ReadSize    \* YY_READ_BUF_SIZE

ASSUME SizesAssumption == BufSizes \subseteq Nat \ {0, 1} /\ ReadSize \in Nat \ {0}

VARIABLES
  parsing_buf, parsing_offset,   \* the input, and how much of it has been copied
  yy_ch_buf, yy_buf_size, yy_buffer_status, yy_n_chars,
  yytext_ptr, yy_c_buf_p, yy_hold_char,
  yy_last_accepting,             \* yy_last_accepting_state and _cpos
  yylex                          \* where yylex() is, and its local variables

input == <<parsing_buf, parsing_offset>>
buffer == <<yy_ch_buf, yy_buf_size, yy_buffer_status, yy_n_chars>>
pointers == <<yytext_ptr, yy_c_buf_p, yy_hold_char>>
lexvars == <<input, buffer, pointers, yy_last_accepting, yylex>>

\* yy_ec: NUL and end of buffer, other control characters, tab, LF, CR, space, other
\* characters of a token, other separators, dot, slash, digits but 1, 1, colon, and
\* what is not ASCII.
NUL == 0
CTL == 1
TAB == 2
LF == 3
CR == 4
SP == 5
CHAR == 6
SEP == 7
DOT == 8
SLASH == 9
DIGIT == 10
ONE == 11
COLON == 12
HIGH == 13
Chars == NUL .. HIGH

-----------------------------------------------------------------------------
(* The automaton.                                                          *)

\* The tables of that name.
dfa ==
  [yy_accept |-> <<0, 4, 4, 13, 11, 4, 11, 3, 9, 8, 6, 1, 5, 7, 12, 4, 0, 2, 4, 10, 0>>,
   yy_meta |-> <<0, 1, 2, 1, 1, 2, 1, 1, 1, 1, 1, 1, 1, 1>>,
   yy_base |->
     <<0, 0, 0, 18, 34, 12, 13, 0, 34, 34, 34, 34, 34, 34, 34, 0, 22, 34, 0, 34, 34, 13>>,
   yy_def |->
     <<0, 20, 1, 20, 20, 20, 20, 5, 20, 20, 20, 20, 20, 20, 20, 21, 20, 20, 21, 20, 0, 20>>,
   yy_nxt |->
     <<0, 4, 5, 4, 6, 7, 8, 9, 10, 11, 12, 12, 13, 14, 15, 18, 17, 15, 20, 20, 20, 20, 20, 16,
        19, 20, 20, 19, 20, 20, 20, 20, 20, 16, 3, 20, 20, 20, 20, 20, 20, 20, 20, 20, 20, 20,
        20, 20>>,
   yy_chk |->
     <<0, 1, 1, 1, 1, 1, 1, 1, 1, 1, 1, 1, 1, 1, 5, 21, 6, 5, 3, 0, 0, 0, 0, 5,
        16, 0, 0, 16, 0, 0, 0, 0, 0, 16, 20, 20, 20, 20, 20, 20, 20, 20, 20, 20, 20, 20,
        20, 20>>]

Start == 1
Jam == 20
JamBase == 34
EndOfBuffer == 13    \* YY_END_OF_BUFFER

\* The transition from state s on c: along the defaults to a state with an entry of
\* its own, with the class of classes in the templates, from state 21 on.
Goto[s \in 1 .. 21] ==
  [c \in Chars |->
     LET entry == dfa.yy_base[s + 1] + c + 1
         d == dfa.yy_def[s + 1]
     IN  IF dfa.yy_chk[entry] = s THEN dfa.yy_nxt[entry]
         ELSE Goto[d][IF d >= 21 THEN dfa.yy_meta[c + 1] ELSE c]]

Accepts(s) == dfa.yy_accept[s + 1]

\* The states the automaton goes through from s over the characters cs.
Path(s, cs) ==
  LET after[k \in 0 .. Len(cs)] == IF k = 0 THEN s ELSE Goto[after[k - 1]][cs[k]]
  IN  after

\* Mutant: the first accepting state is kept.
FirstAccepting(path, n, p) ==
  LET ks == {k \in 0 .. n - 1 : Accepts(path[k]) # 0} IN
  IF ks = {} THEN yy_last_accepting
  ELSE [state |-> path[Min(ks)], cpos |-> p + Min(ks)]

\* What the code keeps of a path of n steps that begins at position p.
LastAccepting(path, n, p) ==
  LET ks == {k \in 0 .. n - 1 : Accepts(path[k]) # 0} IN
  IF ks = {} THEN yy_last_accepting
  ELSE [state |-> path[Max(ks)], cpos |-> p + Max(ks)]

-----------------------------------------------------------------------------
(* The buffer.                                                             *)

EOB == <<NUL, NUL>>
At(p) == yy_ch_buf[p + 1]
Put(p, c) == [yy_ch_buf EXCEPT ![p + 1] = c]
Text(from, to) == SubSeq(yy_ch_buf, from + 1, to)

Local(pc, state, bp, cp, act) ==
  [pc |-> pc, state |-> state, bp |-> bp, cp |-> cp, act |-> act]

\* Before the first call.  That call makes the buffer, with what yyrestart() leaves.
LexInit ==
  /\ parsing_buf = <<>> /\ parsing_offset = 0
  /\ yy_ch_buf = EOB /\ yy_buf_size \in BufSizes
  /\ yy_buffer_status = "NEW" /\ yy_n_chars = 0
  /\ yytext_ptr = 0 /\ yy_c_buf_p = 0 /\ yy_hold_char = NUL
  /\ yy_last_accepting = [state |-> 0, cpos |-> 0]
  /\ yylex = Local("out", 0, 0, 0, 0)

\* yyrestart(): the buffer is flushed.
YyRestart ==
  /\ yy_ch_buf' = EOB
  /\ yy_buffer_status' = "NEW" /\ yy_n_chars' = 0
  /\ yytext_ptr' = 0 /\ yy_c_buf_p' = 0 /\ yy_hold_char' = NUL

\* Mutant: the offset stays where the last input has left it.
OffsetKept(in) == parsing_buf' = in /\ parsing_offset' = parsing_offset

\* The rest of what set_parsing_options() changes is the grammar's.
SetInput(in) == parsing_buf' = in /\ parsing_offset' = 0

-----------------------------------------------------------------------------
(* yylex().                                                                *)

Yylex ==
  /\ yylex.pc = "out"
  /\ yylex' = [yylex EXCEPT !.pc = "loop"]
  /\ UNCHANGED <<input, buffer, pointers, yy_last_accepting>>

HoldBack == Put(yy_c_buf_p, yy_hold_char)

LoopHead ==
  /\ yylex.pc = "loop"
  /\ yy_ch_buf' = HoldBack
  /\ yylex' = Local("match", Start, yy_c_buf_p, yy_c_buf_p, 0)
  /\ UNCHANGED <<input, yy_buf_size, yy_buffer_status, yy_n_chars, pointers, yy_last_accepting>>

\* yy_match: at least one step, until the automaton is in a state with no other way on.
Match ==
  LET path == Path(yylex.state, Text(yylex.cp, Len(yy_ch_buf)))
      n == Min({k \in DOMAIN path \ {0} : dfa.yy_base[path[k] + 1] = JamBase})
  IN
  /\ yylex.pc = "match"
  /\ yy_last_accepting' = LastAccepting(path, n, yylex.cp)
  /\ yylex' = Local("find", path[n], yylex.bp, yylex.cp + n, 0)
  /\ UNCHANGED <<input, buffer, pointers>>

\* yy_find_action: back to the last accepting state if this one is none, and
\* YY_DO_BEFORE_ACTION.
FindAction ==
  LET backs == Accepts(yylex.state) = 0
      cp == IF backs THEN yy_last_accepting.cpos ELSE yylex.cp
      state == IF backs THEN yy_last_accepting.state ELSE yylex.state
  IN
  /\ yylex.pc = "find"
  /\ yylex' = Local("act", state, yylex.bp, cp, Accepts(state))
  /\ yytext_ptr' = yylex.bp /\ yy_c_buf_p' = cp
  /\ yy_hold_char' = At(cp) /\ yy_ch_buf' = Put(cp, NUL)
  /\ UNCHANGED <<input, yy_buf_size, yy_buffer_status, yy_n_chars, yy_last_accepting>>

\* The actions of rules 1 to 11 return; act then is the rule.
ReturnToken ==
  /\ yylex.pc = "act" /\ yylex.act < 12
  /\ yylex' = [yylex EXCEPT !.pc = "out"]
  /\ UNCHANGED <<input, buffer, pointers, yy_last_accepting>>

\* Rule 12 is the default one.
Echo ==
  /\ yylex.pc = "act" /\ yylex.act = 12
  /\ yylex' = [yylex EXCEPT !.pc = "loop"]
  /\ UNCHANGED <<input, buffer, pointers, yy_last_accepting>>

\* yy_get_previous_state(), at the end of the text: a NUL is one of the text.
Replay(text) == Path(Start, [k \in DOMAIN text |-> IF text[k] = NUL THEN CTL ELSE text[k]])

\* The text that was matched before the NUL or the end of the buffer.
Matched == Text(yytext_ptr, yylex.cp - 1)
AtEndOfBuffer == yylex.pc = "act" /\ yylex.act = EndOfBuffer

\* A NUL inside the input, and yy_try_NUL_trans().
RealNul ==
  LET n == Len(Matched)
      path == Replay(Matched \o <<NUL>>)
      jams == path[n + 1] = Jam
      p == yytext_ptr + n
  IN
  /\ AtEndOfBuffer
  /\ yy_c_buf_p <= yy_n_chars
  /\ yy_ch_buf' = HoldBack
  /\ yy_last_accepting' = LastAccepting(path, n + 1, yytext_ptr)
  /\ yy_c_buf_p' = IF jams THEN p ELSE p + 1
  /\ yylex' = IF jams THEN Local("find", path[n], yytext_ptr, p, 0)
                      ELSE Local("match", path[n + 1], yytext_ptr, p + 1, 0)
  /\ UNCHANGED <<input, yy_buf_size, yy_buffer_status, yy_n_chars, yytext_ptr, yy_hold_char>>

\* The size of the buffer that has room for a character behind those moved: doubled
\* as often as it takes.
Grown(size, moved) ==
  LET grown[s \in Nat] == IF s - moved - 1 > 0 THEN s ELSE grown[2 * s]
  IN  grown[size]

\* Mutant: the refill takes what was read before once more.
InputAgain(n) == SubSeq(parsing_buf, 1, Min({Len(parsing_buf) - parsing_offset, n}))

\* YY_INPUT for n characters.
YyInput(n) == SubSeq(parsing_buf, parsing_offset + 1, Min({Len(parsing_buf), parsing_offset + n}))

\* Mutant: the text is not moved to the start of the buffer.
MovedNot == <<>>

\* The text goes to the start of the buffer, and what is read behind it.
Moved == Matched

\* yy_get_next_buffer() on the real end of the buffer: read is what it reads, none
\* once an end of file is pending.
NextBuffer(read) ==
  LET pending == yy_buffer_status = "EOF_PENDING"
      size == IF pending THEN yy_buf_size ELSE Grown(yy_buf_size, Len(Matched))
  IN
  /\ AtEndOfBuffer
  /\ yy_c_buf_p > yy_n_chars
  /\ read = IF pending THEN <<>> ELSE YyInput(Min({size - Len(Matched) - 1, ReadSize}))
  /\ yy_buf_size' = size
  /\ parsing_offset' = parsing_offset + Len(read)
  /\ UNCHANGED parsing_buf

Refilled(read) ==
  /\ yy_ch_buf' = Moved \o read \o EOB
  /\ yy_n_chars' = Len(Moved) + Len(read)
  /\ yytext_ptr' = 0
  /\ yy_c_buf_p' = Len(Matched)
  /\ yy_last_accepting' = LastAccepting(Replay(Matched), Len(Matched), 0)
  /\ UNCHANGED yy_hold_char

\* EOB_ACT_CONTINUE_SCAN
ContinueScan(read) ==
  /\ read # <<>> /\ NextBuffer(read) /\ Refilled(read)
  /\ yy_buffer_status' = "NORMAL"
  /\ yylex' = Local("match", Replay(Matched)[Len(Matched)], 0, Len(Matched), 0)

\* EOB_ACT_LAST_MATCH
LastMatch ==
  /\ NextBuffer(<<>>) /\ Matched # <<>> /\ Refilled(<<>>)
  /\ yy_buffer_status' = "EOF_PENDING"
  /\ yylex' = Local("find", Replay(Matched)[Len(Matched)], 0, Len(Matched), 0)

\* EOB_ACT_END_OF_FILE: yywrap() says that there is no more, and yylex() returns 0.
EndOfFile ==
  /\ NextBuffer(<<>>) /\ Matched = <<>>
  /\ YyRestart
  /\ yylex' = Local("out", 0, 0, 0, 0)
  /\ UNCHANGED yy_last_accepting

\* A step inside yylex(); ReturnToken and EndOfFile leave it.
LexStep ==
  \/ LoopHead \/ Match \/ FindAction \/ Echo
  \/ RealNul
  \/ \E n \in 1 .. Len(parsing_buf) : ContinueScan(YyInput(n))
  \/ LastMatch
-----------------------------------------------------------------------------
(* Properties.                                                             *)

\* The buffer with the character that is held back, and where in it begins what no
\* action has had.
Held == IF yylex.pc \in {"loop", "act", "out"} THEN HoldBack ELSE yy_ch_buf
From ==
  CASE yylex.pc = "act" -> yytext_ptr
    [] yylex.pc \in {"loop", "out"} -> yy_c_buf_p
    [] OTHER -> yylex.bp

InBuffer == SubSeq(Held, From + 1, yy_n_chars)

\* The characters that no action has had yet.
Unread == InBuffer \o SubSeq(parsing_buf, parsing_offset + 1, Len(parsing_buf))

\* Whether s is a lexeme of a rule of parser.l.
Blank == {SP, TAB}
IsLexeme(rule, s) ==
  CASE rule = 1 -> s = <<SLASH>>
    [] rule = 2 -> s = <<CR, LF>>
    [] rule = 3 -> s = <<SP>>
    [] rule = 4 -> Range(s) \subseteq Blank
    [] rule = 5 -> s \in {<<DIGIT>>, <<ONE>>}
    [] rule = 6 -> s = <<DOT>>
    [] rule = 7 -> s = <<COLON>>
    [] rule = 8 -> s \in {<<SEP>>, <<SLASH>>, <<COLON>>}
    [] rule = 9 -> s \in {<<CHAR>>, <<DOT>>, <<DIGIT>>, <<ONE>>}
    [] rule = 10 -> Len(s) > 1 /\ {Head(s), Last(s)} \subseteq Blank
                    /\ Range(SubSeq(s, 2, Len(s) - 1)) \subseteq {ONE}
    [] rule = 11 -> Len(s) = 1 /\ s[1] \in {NUL, CTL, TAB, LF, CR}
    [] rule = 12 -> Len(s) = 1

Lexemes(s) == {l \in (1 .. Len(s)) \X (1 .. 12) : IsLexeme(l[2], SubSeq(s, 1, l[1]))}

\* What an action gets is the longest lexeme at the head of all that is unread, and
\* the action is that of the first rule that has it: wherever the buffer's end cuts
\* the lexeme, and however often the buffer is refilled or grown for it
\* (lex.yy.c:723-750, 893-979, 998-1132).
Lexed ==
  yylex.pc = "act" /\ yylex.act # EndOfBuffer =>
    LET n == yylex.cp - yytext_ptr
        found == Lexemes(Unread)
    IN  /\ <<n, yylex.act>> \in found
        /\ \A l \in found : l[1] < n \/ (l[1] = n /\ l[2] >= yylex.act)

\* No character is lost, repeated or reordered: a step takes the lexeme of an action
\* off the head of what is unread, or nothing, and an end of file is reported at the
\* end, or if one is pending.  A new input follows what is left in the buffer; what
\* has not been copied of the old one is lost (lex.yy.c:466-470, 998-1132).
Conserved ==
  [][CASE yylex.pc = "act" /\ yylex.act # EndOfBuffer ->
            Unread' = SubSeq(Unread, 1 + yylex.cp - yytext_ptr, Len(Unread))
       [] yylex.pc = "out" /\ yylex'.pc = "out" -> Unread' = InBuffer \o parsing_buf'
       [] OTHER -> /\ Unread' = Unread
                   /\ EndOfFile => Unread = <<>> \/ yy_buffer_status = "EOF_PENDING"]_lexvars

\* The buffer ends in two end-of-buffer characters, its content fits, and the pointers
\* are in it, in order: no access is outside it (lex.yy.c:1005, 1114, 1125-1129).
BufferOK ==
  /\ Len(yy_ch_buf) = yy_n_chars + 2 /\ Range(yy_ch_buf) \subseteq Chars
  /\ yy_n_chars <= yy_buf_size
  /\ yy_buffer_status \in {"NEW", "NORMAL", "EOF_PENDING"}
  /\ parsing_offset \in 0 .. Len(parsing_buf)
  /\ 0 <= yytext_ptr /\ yytext_ptr <= yy_c_buf_p /\ yy_c_buf_p <= yy_n_chars + 1
  /\ SubSeq(HoldBack, yy_n_chars + 1, yy_n_chars + 2) = EOB \/ yylex.pc \in {"match", "find"}
=============================================================================
