------------------------- MODULE RequestParserProofs -------------------------
(***************************************************************************)
(* RequestParser, proved for every input, every size of flex's buffer and  *)
(* of what is read into it.  The tables of lex.yy.c are the automaton of   *)
(* the rules of parser.l, and whatever end of a buffer, NUL or end of file *)
(* is in the way, yylex() takes the longest lexeme off the head of what is *)
(* unread.  A call reads its own input, yyparse()'s stacks are never full, *)
(* and no string goes too far that is no longer than the arrays there.     *)
(***************************************************************************)
EXTENDS RequestParser, FiniteSetTheorems, SequenceTheorems, WellFoundedInduction, TLAPS

-----------------------------------------------------------------------------
(* Numbers and sequences.                                                  *)

Less == {p \in Nat \X Nat : p[1] < p[2]}

\* A set of natural numbers that is not empty has a least one.
LEMMA MinOfNats ==
  ASSUME NEW S \in SUBSET Nat, S # {}
  PROVE  Min(S) \in S /\ \A n \in S : Min(S) <= n
<1>1. OpToRel(<, Nat) = Less
  BY Zenon DEF OpToRel, Less
<1>2. PICK m \in S : \A n \in S : <<n, m>> \notin Less
  BY <1>1, NatLessThanWellFounded, WFMin, Zenon
<1>3. ASSUME NEW n \in S
      PROVE  m <= n
  <2>1. ~(n < m)
    <3>1. n < m => <<n, m>> \in Less
      BY DEF Less
    <3>. QED
      BY <1>2, <3>1
  <2>. QED
    BY <2>1
<1>. QED
  BY <1>3 DEF Min

\* Induction, on a set: one that has 0, and with a number the next, has all up to n.
LEMMA UpTo ==
  ASSUME NEW n \in Nat, NEW T, 0 \in T, \A k \in 0 .. n : k \in T /\ k < n => k + 1 \in T
  PROVE  \A k \in 0 .. n : k \in T
<1>. DEFINE Missing == (0 .. n) \ T
<1>1. ASSUME Missing # {}
      PROVE  FALSE
  <2>1. Missing \in SUBSET Nat
    OBVIOUS
  <2>2. Min(Missing) \in Missing /\ \A k \in Missing : Min(Missing) <= k
    BY <1>1, <2>1, MinOfNats
  <2>. DEFINE m == Min(Missing)
  <2>3. m \in 0 .. n /\ m \notin T /\ m # 0
    BY <2>2
  <2>. HIDE DEF m
  <2>4. m - 1 \in 0 .. n /\ m - 1 \notin Missing
    BY <2>2, <2>3 DEF m
  <2>5. m - 1 \in T /\ (m - 1) + 1 = m
    BY <2>3, <2>4
  <2>. QED
    BY <2>3, <2>4, <2>5
<1>. QED
  BY <1>1

\* A set of numbers that is not empty and has a bound has a greatest one.
LEMMA MaxOfNats ==
  ASSUME NEW n \in Nat, NEW S \in SUBSET (0 .. n), S # {}
  PROVE  Max(S) \in S /\ \A k \in S : k <= Max(S)
<1>. DEFINE T == {n - k : k \in S}
<1>1. T \in SUBSET Nat /\ T # {}
  <2>1. \A k \in S : n - k \in Nat
    OBVIOUS
  <2>. QED
    BY <2>1, Zenon
<1>2. Min(T) \in T /\ \A k \in T : Min(T) <= k
  BY <1>1, MinOfNats
<1>3. PICK m \in S : Min(T) = n - m
  BY <1>2
<1>4. \A k \in S : n - k \in T
  OBVIOUS
<1>. HIDE DEF T
<1>5. \A k \in S : k <= m
  <2>1. \A k \in S : n - m <= n - k
    BY <1>2, <1>3, <1>4
  <2>. QED
    BY <2>1
<1>. QED
  BY <1>5 DEF Max

-----------------------------------------------------------------------------
(* The automaton.                                                          *)

\* The states that a single character leads to.
Single == <<3, 4, 5, 4, 6, 7, 8, 9, 10, 11, 12, 12, 13, 14>>

\* The transitions that the compressed tables stand for.
Transition(s, c) ==
  CASE s \in {1, 2} -> Single[c + 1]
    [] s \notin {1, 2, 3} /\ c = NUL -> 3
    [] s \in {5, 7} /\ c \in Blank -> 15
    [] s \in {5, 7} /\ c = ONE -> 16
    [] s = 6 /\ c = LF -> 17
    [] s \in {15, 18} /\ c \in Blank -> 18
    [] s = 16 /\ c \in Blank -> 19
    [] s = 16 /\ c = ONE -> 16
    [] OTHER -> Jam

\* State 21 is the template of those that go on with a blank: its classes are classes
\* of classes.
Template(m) == CASE m = 0 -> 3 [] m = 2 -> 18 [] OTHER -> Jam

\* What the tables themselves say: 0 is to look at the state yy_def says.
Row(s, c) ==
  LET entry == dfa.yy_base[s + 1] + c + 1 IN
  IF dfa.yy_chk[entry] = s THEN dfa.yy_nxt[entry] ELSE 0

\* The rows of the tables.
LEMMA Rows ==
  ASSUME NEW c \in Chars
  PROVE  /\ Row(1, c) = IF c = 0 THEN 0 ELSE Single[c + 1]
         /\ Row(20, c) = IF c = 0 THEN 3 ELSE 20
         /\ \A s \in {2, 4, 7, 8, 9, 10, 11, 12, 13, 14, 15, 17, 18, 19} : Row(s, c) = 0
         /\ Row(3, c) = IF c = 0 THEN 20 ELSE 0
         /\ Row(5, c) = CASE c \in {2, 5} -> 15 [] c = 11 -> 16 [] OTHER -> 0
         /\ Row(6, c) = IF c = 3 THEN 17 ELSE 0
         /\ Row(16, c) = CASE c \in {2, 5} -> 19 [] c = 11 -> 16 [] OTHER -> 0
         /\ Row(21, c) = IF c = 2 THEN 18 ELSE 0
<1>1. c \in 0 .. 13
  BY DEF Chars, NUL, HIGH
<1>2. Row(1, c) = IF c = 0 THEN 0 ELSE Single[c + 1]
  BY <1>1 DEF Row, dfa, Single
<1>3. Row(20, c) = IF c = 0 THEN 3 ELSE 20
  BY <1>1 DEF Row, dfa
<1>4. \A s \in {2, 4, 7, 8, 9, 10, 11, 12, 13, 14, 15, 17, 18, 19} : Row(s, c) = 0
  BY <1>1 DEF Row, dfa
<1>5. /\ Row(3, c) = IF c = 0 THEN 20 ELSE 0
      /\ Row(5, c) = CASE c \in {2, 5} -> 15 [] c = 11 -> 16 [] OTHER -> 0
      /\ Row(6, c) = IF c = 3 THEN 17 ELSE 0
  BY <1>1 DEF Row, dfa
<1>6. /\ Row(16, c) = CASE c \in {2, 5} -> 19 [] c = 11 -> 16 [] OTHER -> 0
      /\ Row(21, c) = IF c = 2 THEN 18 ELSE 0
  BY <1>1 DEF Row, dfa
<1>. QED
  BY <1>2, <1>3, <1>4, <1>5, <1>6

Default(s) == dfa.yy_def[s + 1]
Meta(c) == dfa.yy_meta[c + 1]

\* The default states, and the classes of the classes.
LEMMA Defaults ==
  /\ \A s \in 1 .. 21 :
       Default(s) =
         CASE s = 2 -> 1 [] s = 7 -> 5 [] s \in {15, 18} -> 21 [] s = 20 -> 0 [] OTHER -> 20
  /\ \A c \in 0 .. 13 : Meta(c) = CASE c = 0 -> 0 [] c \in {2, 5} -> 2 [] OTHER -> 1
BY DEF dfa, Default, Meta

\* What the tables make of a function that stands for the transitions.
Looked(g, s, c) ==
  IF Row(s, c) # 0 THEN Row(s, c)
  ELSE g[Default(s)][IF Default(s) >= 21 THEN Meta(c) ELSE c]

\* Goto is well defined: it goes along the default states.
LEMMA GotoLooks ==
  \A s \in 1 .. 21, c \in Chars : Goto[s][c] = Looked(Goto, s, c)
<1>. DEFINE Step(g) == [s \in 1 .. 21 |->
                          [c \in Chars |->
                             LET entry == dfa.yy_base[s + 1] + c + 1
                                 d == dfa.yy_def[s + 1]
                             IN  IF dfa.yy_chk[entry] = s THEN dfa.yy_nxt[entry]
                                 ELSE g[d][IF d >= 21 THEN dfa.yy_meta[c + 1] ELSE c]]]
            Looks(g) == [s \in 1 .. 21 |-> [c \in Chars |-> Looked(g, s, c)]]
            Is(g) == g = Step(g)
            go == CHOOSE g : Is(g)
            table == [s \in 1 .. 21 |->
                        [c \in Chars |-> IF s = 21 THEN Template(c) ELSE Transition(s, c)]]
<1>1. Goto = go
  BY DEF Goto
<1>c. Chars = 0 .. 13
  BY DEF Chars, NUL, HIGH
<1>2. ASSUME NEW g
      PROVE  Step(g) = Looks(g)
  <2>1. \A s \in 1 .. 21, c \in Chars :
          dfa.yy_chk[dfa.yy_base[s + 1] + c + 1] = s
            => dfa.yy_nxt[dfa.yy_base[s + 1] + c + 1] # 0
    BY <1>c DEF dfa
  <2>2. ASSUME NEW s \in 1 .. 21, NEW c \in Chars
        PROVE  Step(g)[s][c] = Looked(g, s, c)
    BY <2>1 DEF Looked, Row, Default, Meta
  <2>3. ASSUME NEW s \in 1 .. 21
        PROVE  Step(g)[s] = Looks(g)[s]
    BY <2>2
  <2>. QED
    BY <2>3
<1>3. ASSUME NEW s \in 1 .. 21, NEW c \in Chars
      PROVE  table[s][c] = Looked(table, s, c)
  <2>. USE DEF NUL, TAB, SP, LF, ONE, Blank, Jam
  <2>1. \A t \in 1 .. 21, m \in Chars :
          table[t][m] = IF t = 21 THEN Template(m) ELSE Transition(t, m)
    OBVIOUS
  <2>. HIDE DEF table
  <2>2. CASE s \in {1, 2}
    BY <1>c, <2>1, <2>2, Rows, Defaults DEF Looked, Transition, Single
  <2>3. CASE s \in {5, 7, 15, 16, 18, 6}
    BY <1>c, <2>1, <2>3, Rows, Defaults DEF Looked, Transition, Template
  <2>4. CASE s \in {3, 20, 21}
    BY <1>c, <2>1, <2>4, Rows, Defaults DEF Looked, Transition, Template
  <2>5. CASE s \in {4, 8, 9, 10, 11, 12, 13, 14, 17, 19}
    BY <1>c, <2>1, <2>5, Rows, Defaults DEF Looked, Transition
  <2>. QED
    BY <2>2, <2>3, <2>4, <2>5
<1>4. table = Looks(table)
  <2>1. \A s \in 1 .. 21 : table[s] = Looks(table)[s]
    BY <1>3
  <2>. QED
    BY <2>1
<1>5. Is(table)
  BY <1>2, <1>4
<1>6. Is(go)
  <2>. HIDE DEF Is, table
  <2>. QED
    BY <1>5
<1>7. go = Looks(go)
  BY <1>2, <1>6
<1>. HIDE DEF go
<1>8. \A s \in 1 .. 21, c \in Chars : go[s][c] = Looked(go, s, c)
  <2>1. ASSUME NEW s \in 1 .. 21, NEW c \in Chars
        PROVE  Looks(go)[s][c] = Looked(go, s, c)
    OBVIOUS
  <2>. HIDE DEF Looks
  <2>. QED
    BY <1>7, <2>1
<1>. QED
  BY <1>1, <1>8

\* The tables are the transitions.
LEMMA GotoIs == \A s \in 1 .. 20, c \in Chars : Goto[s][c] = Transition(s, c)
<1>. DEFINE g == Goto
<1>1. \A s \in 1 .. 21, c \in Chars : g[s][c] = Looked(g, s, c)
  BY GotoLooks
<1>. HIDE DEF g
<1>. SUFFICES \A s \in 1 .. 20, c \in Chars : g[s][c] = Transition(s, c)
  BY DEF g
<1>c. Chars = 0 .. 13
  BY DEF Chars, NUL, HIGH
<1>. USE DEF NUL, TAB, SP, LF, ONE, Blank, Jam
<1>d. ASSUME NEW s \in 1 .. 21, NEW c \in Chars
      PROVE  /\ Row(s, c) # 0 => g[s][c] = Row(s, c)
             /\ Row(s, c) = 0 /\ Default(s) < 21 => g[s][c] = g[Default(s)][c]
             /\ Row(s, c) = 0 /\ Default(s) = 21 => g[s][c] = g[21][Meta(c)]
  <2>1. g[s][c] = Looked(g, s, c)
    BY <1>1
  <2>2. Default(s) \in Int
    BY Defaults
  <2>. QED
    BY <2>1, <2>2 DEF Looked
<1>2. \A c \in Chars : g[20][c] = Transition(20, c) /\ g[20][c] = IF c = 0 THEN 3 ELSE 20
  <2>1. \A c \in Chars : Row(20, c) = IF c = 0 THEN 3 ELSE 20
    BY Rows
  <2>2. \A c \in Chars : Row(20, c) # 0
    BY <1>c, <2>1
  <2>3. \A c \in Chars : g[20][c] = Row(20, c)
    BY <1>d, <2>2
  <2>. QED
    BY <1>c, <2>1, <2>3 DEF Transition
<1>3. \A c \in Chars : g[1][c] = Transition(1, c)
  <2>1. \A c \in Chars : Row(1, c) = IF c = 0 THEN 0 ELSE Single[c + 1]
    BY Rows
  <2>2. Default(1) = 20
    BY Defaults
  <2>3. g[1][0] = g[20][0]
    BY <1>c, <1>d, <2>1, <2>2
  <2>4. \A c \in 1 .. 13 : Single[c + 1] # 0
    BY DEF Single
  <2>5. ASSUME NEW c \in 1 .. 13
        PROVE  g[1][c] = Single[c + 1]
    <3>1. Row(1, c) = Single[c + 1]
      BY <1>c, <2>1
    <3>. QED
      BY <1>c, <1>d, <2>4, <3>1
  <2>6. g[20][0] = 3 /\ Single[1] = 3
    BY <1>c, <1>2 DEF Single
  <2>. QED
    BY <1>c, <2>3, <2>5, <2>6 DEF Transition
<1>4. \A c \in Chars : g[2][c] = Transition(2, c)
  <2>1. \A c \in Chars : Row(2, c) = 0
    BY Rows
  <2>2. Default(2) = 1
    BY Defaults
  <2>3. \A c \in Chars : g[2][c] = g[1][c]
    BY <1>c, <1>d, <2>1, <2>2
  <2>. QED
    BY <1>c, <2>3, <1>3 DEF Transition
<1>j. ASSUME NEW s \in {3, 4, 5, 6, 8, 9, 10, 11, 12, 13, 14, 16, 17, 19, 21}, NEW c \in Chars
      PROVE  g[s][c] = IF Row(s, c) # 0 THEN Row(s, c) ELSE IF c = 0 THEN 3 ELSE 20
  <2>1. Default(s) = 20
    BY Defaults
  <2>2. Row(s, c) = 0 => g[s][c] = g[20][c]
    BY <1>d, <2>1
  <2>. QED
    BY <1>c, <1>d, <1>2, <2>2
<1>5. \A c \in Chars : g[5][c] = Transition(5, c)
  BY <1>c, <1>j, Rows DEF Transition
<1>6. \A c \in Chars : g[7][c] = Transition(7, c)
  <2>1. \A c \in Chars : Row(7, c) = 0
    BY Rows
  <2>2. Default(7) = 5
    BY Defaults
  <2>3. \A c \in Chars : g[7][c] = g[5][c]
    BY <1>c, <1>d, <2>1, <2>2
  <2>. QED
    BY <1>c, <2>3, <1>5 DEF Transition
<1>7. \A s \in {4, 8, 9, 10, 11, 12, 13, 14, 17, 19}, c \in Chars : g[s][c] = Transition(s, c)
  <2>0. \A s \in {4, 8, 9, 10, 11, 12, 13, 14, 17, 19}, c \in Chars : Row(s, c) = 0
    BY <1>c, Rows
  <2>. QED
    BY <1>c, <2>0, <1>j DEF Transition
<1>8. \A s \in {3, 6, 16}, c \in Chars : g[s][c] = Transition(s, c)
  <2>1. \A c \in Chars : g[3][c] = Transition(3, c)
    BY <1>c, <1>j, Rows DEF Transition
  <2>2. \A c \in Chars : g[6][c] = Transition(6, c)
    BY <1>c, <1>j, Rows DEF Transition
  <2>3. \A c \in Chars : g[16][c] = Transition(16, c)
    BY <1>c, <1>j, Rows DEF Transition
  <2>. QED
    BY <2>1, <2>2, <2>3
<1>9. \A s \in {15, 18}, c \in Chars : g[s][c] = Transition(s, c)
  <2>1. \A c \in Chars : g[21][c] = Template(c)
    BY <1>c, <1>j, Rows DEF Template
  <2>2. \A s \in {15, 18} : Default(s) = 21 /\ \A c \in Chars : Row(s, c) = 0
    BY Rows, Defaults
  <2>3. \A c \in Chars :
           Meta(c) = (CASE c = 0 -> 0 [] c \in {2, 5} -> 2 [] OTHER -> 1)
    BY <1>c, Defaults
  <2>4. \A c \in Chars : Meta(c) \in Chars
    BY <1>c, <2>3
  <2>5. ASSUME NEW s \in {15, 18}, NEW c \in Chars
        PROVE  g[s][c] = Template(Meta(c))
    BY <1>d, <2>1, <2>2, <2>4
  <2>. QED
    BY <1>c, <2>3, <2>5 DEF Transition, Template
<1>. QED
  BY <1>2, <1>3, <1>4, <1>5, <1>6, <1>7, <1>8, <1>9

-----------------------------------------------------------------------------
(* The scanner's inductive invariant.                                      *)

\* As yy_get_previous_state() sees a character.
Shown(c) == IF c = NUL THEN CTL ELSE c

\* The state that the automaton is in behind the text t, from its start.
Blanks2(t) == Len(t) > 1 /\ \A i \in 1 .. Len(t) : t[i] \in Blank
Gap(t) == Len(t) > 1 /\ t[1] \in Blank /\ \A i \in 2 .. Len(t) : t[i] = ONE
StateOf(t) ==
  IF Len(t) = 0 THEN Start
  ELSE IF Len(t) = 1 THEN Single[Shown(t[1]) + 1]
  ELSE IF t = <<CR, LF>> THEN 17
  ELSE IF Blanks2(t) THEN IF Len(t) = 2 THEN 15 ELSE 18
  ELSE IF Gap(t) THEN 16
  ELSE IF Len(t) > 2 /\ Gap(SubSeq(t, 1, Len(t) - 1)) /\ t[Len(t)] \in Blank THEN 19
  ELSE Jam

\* The state behind the first k characters of u, and whether it is an accepting one.
StateIn(u, k) == StateOf(SubSeq(u, 1, k))
Accepting(u, k) == Accepts(StateIn(u, k)) # 0

\* The last accepting state in front of the d-th over u, which begins at b, is last.
LastIn(u, d, b, last) ==
  \E k \in 0 .. d - 1 :
    /\ Accepting(u, k) /\ \A j \in k + 1 .. d - 1 : ~Accepting(u, j)
    /\ last = [state |-> StateIn(u, k), cpos |-> b + k]
Longest(u, d) == \A j \in d + 1 .. Len(u) : ~Accepting(u, j)

\* The states that no text is scanned on from: the one behind a line end, and none.
Ended == {17, Jam}

\* The automaton goes on to the NUL, or the end of a buffer of n characters, at p.
NulIn(u, held, b, n, p) == p \in b .. n /\ held[p + 1] = NUL /\ StateIn(u, p - b) \notin Ended

Ones(held, p, n) == \A i \in p + 1 .. n : held[i] = ONE

LexTypeOK ==
  /\ yy_ch_buf \in Seq(Chars) /\ yy_n_chars \in Nat /\ Len(yy_ch_buf) = yy_n_chars + 2
  /\ yy_buf_size \in Nat /\ yy_n_chars <= yy_buf_size /\ yy_buf_size > 0
  /\ yy_buffer_status \in {"NEW", "NORMAL", "EOF_PENDING"}
  /\ parsing_buf \in Seq(Chars) /\ parsing_offset \in 0 .. Len(parsing_buf)
  /\ yytext_ptr \in Nat /\ yy_c_buf_p \in yytext_ptr .. yy_n_chars + 1
  /\ yy_hold_char \in Chars
  /\ yylex \in [pc : {"loop", "match", "find", "act", "out"}, state : 0 .. 20, bp : Nat,
                cp : Nat, act : 0 .. EndOfBuffer]
  /\ yy_last_accepting \in [state : 0 .. 20, cpos : Nat]
  /\ Held[yy_n_chars + 1] = NUL /\ Held[yy_n_chars + 2] = NUL

Pending == yy_buffer_status = "EOF_PENDING"

\* What is true at each label.  While an end of file is pending, there are only ones
\* left, each of them a lexeme: rule 10 has had its blank alone.
AtHead ==
  yylex.pc \in {"loop", "out"} =>
    yy_c_buf_p <= yy_n_chars /\ (Pending => Ones(Held, yy_c_buf_p, yy_n_chars))

AtMatch ==
  yylex.pc = "match" =>
    LET d == yylex.cp - yylex.bp IN
    /\ yylex.bp <= yylex.cp /\ yylex.cp <= yy_n_chars
    /\ yylex.state = StateIn(Unread, d) /\ yylex.state \notin Ended
    /\ d > 0 => LastIn(Unread, d, yylex.bp, yy_last_accepting)
    /\ Pending => d = 0 /\ Ones(Held, yylex.bp, yy_n_chars)

Found ==
  LET d == yylex.cp - yylex.bp IN
  /\ yylex.bp < yylex.cp /\ yylex.cp <= yy_n_chars
  /\ yylex.state = StateIn(Unread, d) /\ Longest(Unread, d)
  /\ Accepts(yylex.state) = 0 => LastIn(Unread, d, yylex.bp, yy_last_accepting)
  /\ Pending =>
       IF Accepts(yylex.state) = 0 THEN Ones(Held, yy_last_accepting.cpos, yy_n_chars)
       ELSE Ones(Held, yylex.cp, yy_n_chars)
HitNul ==
  /\ yylex.state = Jam
  /\ yy_last_accepting.state = 3
  /\ NulIn(Unread, Held, yylex.bp, yy_n_chars, yy_last_accepting.cpos - 1)
  /\ Pending => yylex.bp = yy_n_chars
AtFind == yylex.pc = "find" => Found \/ HitNul

AtLexeme ==
  yylex.pc = "act" /\ yylex.act # EndOfBuffer =>
    LET d == yylex.cp - yytext_ptr IN
    /\ yylex.cp = yy_c_buf_p /\ yytext_ptr < yylex.cp /\ yylex.cp <= yy_n_chars
    /\ yylex.act = Accepts(StateIn(Unread, d)) /\ yylex.act # 0 /\ Longest(Unread, d)
    /\ Pending => Ones(Held, yylex.cp, yy_n_chars)
AtNul ==
  AtEndOfBuffer =>
    /\ yylex.cp = yy_c_buf_p /\ yytext_ptr < yylex.cp
    /\ NulIn(Unread, Held, yytext_ptr, yy_n_chars, yylex.cp - 1)
    /\ Pending => yytext_ptr = yy_n_chars

LexIInv == LexTypeOK /\ AtHead /\ AtMatch /\ AtFind /\ AtLexeme /\ AtNul

InCall == yylex.pc # "out" => NeedsToken
IInv == LexIInv /\ InCall /\ script \in Seq(Seq(Chars))

\* One character more of a text.
LEMMA OneMore ==
  ASSUME NEW S, NEW t \in Seq(S), NEW k \in 0 .. Len(t) - 1
  PROVE  SubSeq(t, 1, k + 1) = Append(SubSeq(t, 1, k), t[k + 1])
<1>1. SubSeq(t, 1, k) \in Seq(S) /\ Len(SubSeq(t, 1, k)) = k
  BY SubSeqProperties
<1>2. SubSeq(t, 1, k + 1) = SubSeq(t, 1, k) \o <<t[k + 1]>>
  BY SubSeqRecursiveSecond
<1>. QED
  BY <1>1, <1>2, AppendIsConcat

\* The states that a text leads to: from the second character on none of the
\* states before the first, and none of the one behind a NUL.
LEMMA StateType ==
  ASSUME NEW t \in Seq(Chars)
  PROVE  /\ StateOf(t) \in {1} \cup 4 .. 20
         /\ Len(t) > 0 => StateOf(t) \in 4 .. 20
         /\ Len(t) = 1 => Accepts(StateOf(t)) # 0
<1>c. Chars = 0 .. 13
  BY DEF Chars, NUL, HIGH
<1>1. CASE Len(t) = 1
  <2>0. t[1] \in Chars
    <3>1. 1 \in 1 .. Len(t)
      BY <1>1
    <3>. QED
      BY <3>1, ElementOfSeq
  <2>1. t[1] \in 0 .. 13
    BY <1>c, <2>0
  <2>2. StateOf(t) = Single[Shown(t[1]) + 1] /\ Shown(t[1]) \in 1 .. 13
    BY <1>1, <2>1 DEF StateOf, Shown, NUL, CTL
  <2>3. \A c \in 1 .. 13 : Single[c + 1] \in 4 .. 14
    BY DEF Single
  <2>4. \A s \in 4 .. 14 : Accepts(s) # 0
    BY DEF Accepts, dfa
  <2>5. StateOf(t) \in 4 .. 14
    BY <2>2, <2>3
  <2>6. StateOf(t) \in 4 .. 20 /\ Accepts(StateOf(t)) # 0
    BY <2>4, <2>5
  <2>. QED
    BY <2>6
<1>2. CASE Len(t) # 1
  BY <1>2 DEF StateOf, Start, Jam
<1>. QED
  BY <1>1, <1>2

\* The next character takes the automaton to the state behind it.
LEMMA StateStep ==
  ASSUME NEW t \in Seq(Chars), NEW c \in Chars
  PROVE  StateOf(Append(t, c)) = Transition(StateOf(t), Shown(c))
<1>. DEFINE u == Append(t, c)
            n == Len(t)
<1>c. Chars = 0 .. 13 /\ c \in 0 .. 13 /\ n \in Nat
  BY DEF Chars, NUL, HIGH
<1>1. /\ u \in Seq(Chars) /\ Len(u) = n + 1 /\ u[n + 1] = c
      /\ \A i \in 1 .. n : u[i] = t[i] /\ t[i] \in 0 .. 13
  BY <1>c
<1>2. SubSeq(u, 1, n) = t
  <2>1. SubSeq(u, 1, n) \in Seq(Chars) /\ Len(SubSeq(u, 1, n)) = n
        /\ \A i \in 1 .. n : SubSeq(u, 1, n)[i] = u[i]
    BY <1>1, SubSeqProperties
  <2>. QED
    BY <1>1, <2>1, SeqEqual
<1>. HIDE DEF u
<1>3. Shown(c) \in 1 .. 13 /\ (Shown(c) \in Blank <=> c \in Blank)
      /\ (Shown(c) = ONE <=> c = ONE) /\ (Shown(c) = LF <=> c = LF)
  BY <1>c DEF Shown, NUL, CTL, Blank, SP, TAB, ONE, LF
<1>4. CASE n = 0
  <2>1. StateOf(u) = Single[Shown(c) + 1]
    BY <1>1, <1>4 DEF StateOf
  <2>2. StateOf(t) = 1
    BY <1>4 DEF StateOf, Start
  <2>. QED
    BY <2>1, <2>2 DEF Transition, u
<1>5. CASE n = 1
  <2>1. u = <<CR, LF>> <=> t[1] = CR /\ c = LF
    <3>1. ASSUME t[1] = CR, c = LF
          PROVE  u = <<CR, LF>>
      <4>1. <<CR, LF>> \in Seq(Chars) /\ Len(<<CR, LF>>) = 2
        BY <1>c DEF CR, LF
      <4>2. \A i \in 1 .. 2 : u[i] = <<CR, LF>>[i]
        BY <1>1, <1>5, <3>1
      <4>. QED
        BY <1>1, <1>5, <4>1, <4>2, SeqEqual
    <3>2. ASSUME u = <<CR, LF>>
          PROVE  t[1] = CR /\ c = LF
      BY <1>1, <1>5, <3>2
    <3>. QED
      BY <3>1, <3>2
  <2>2. Blanks2(u) <=> t[1] \in Blank /\ c \in Blank
    BY <1>1, <1>5 DEF Blanks2
  <2>3. Gap(u) <=> t[1] \in Blank /\ c = ONE
    BY <1>1, <1>5 DEF Gap
  <2>4. StateOf(u) = (CASE t[1] = CR /\ c = LF -> 17
                        [] t[1] \in Blank /\ c \in Blank -> 15
                        [] t[1] \in Blank /\ c = ONE -> 16
                        [] OTHER -> 20)
    BY <1>1, <1>5, <2>1, <2>2, <2>3 DEF StateOf, Jam, Blank, CR, LF, SP, TAB, ONE
  <2>5. StateOf(t) = Single[Shown(t[1]) + 1] /\ t[1] \in 0 .. 13
    BY <1>1, <1>5 DEF StateOf
  <2>6. /\ StateOf(t) \in 4 .. 14
        /\ StateOf(t) \in {5, 7} <=> t[1] \in Blank
        /\ StateOf(t) = 6 <=> t[1] = CR
    <3>1. \A x \in 0 .. 13 :
            /\ Single[Shown(x) + 1] \in 4 .. 14
            /\ Single[Shown(x) + 1] \in {5, 7} <=> x \in {2, 5}
            /\ Single[Shown(x) + 1] = 6 <=> x = 4
      BY DEF Single, Shown, NUL, CTL
    <3>. QED
      BY <2>5, <3>1 DEF Blank, SP, TAB, CR
  <2>7. Transition(StateOf(t), Shown(c)) = (CASE t[1] = CR /\ c = LF -> 17
                        [] t[1] \in Blank /\ c \in Blank -> 15
                        [] t[1] \in Blank /\ c = ONE -> 16
                        [] OTHER -> 20)
    BY <1>3, <2>6 DEF Transition, Jam, Blank, CR, LF, SP, TAB, ONE, NUL
  <2>. QED
    BY <2>4, <2>7 DEF u
<1>6. CASE n > 1
  <2>1. u # <<CR, LF>>
    BY <1>1, <1>6
  <2>2. Blanks2(u) <=> Blanks2(t) /\ c \in Blank
    BY <1>1, <1>6 DEF Blanks2
  <2>3. Gap(u) <=> Gap(t) /\ c = ONE
    BY <1>1, <1>6 DEF Gap
  <2>b. /\ Blanks2(t) \in BOOLEAN /\ Gap(t) \in BOOLEAN /\ ~(Blanks2(t) /\ Gap(t))
        /\ Blanks2(u) \in BOOLEAN /\ Gap(u) \in BOOLEAN
    BY <1>6 DEF Blanks2, Gap, Blank, SP, TAB, ONE
  <2>4. StateOf(u) = (CASE Blanks2(t) /\ c \in Blank -> 18
                        [] Gap(t) /\ c = ONE -> 16
                        [] Gap(t) /\ c \in Blank -> 19
                        [] OTHER -> 20)
    <3>1. /\ Len(u) # 1 /\ Len(u) # 0 /\ Len(u) # 2 /\ Len(u) > 2
          /\ u # <<>> /\ SubSeq(u, 1, Len(u) - 1) = t /\ u[Len(u)] = c
      BY <1>1, <1>2, <1>6
    <3>2. StateOf(u) = IF Blanks2(u) THEN 18
                       ELSE IF Gap(u) THEN 16
                       ELSE IF Gap(t) /\ c \in Blank THEN 19 ELSE 20
      BY <2>1, <2>b, <3>1 DEF StateOf, Jam
    <3>. QED
      BY <2>2, <2>3, <2>b, <3>2 DEF Blank, SP, TAB, ONE
  <2>5. /\ StateOf(t) \in 15 .. 20
        /\ StateOf(t) \in {15, 18} <=> Blanks2(t)
        /\ StateOf(t) = 16 <=> Gap(t)
    <3>1. Blanks2(t) => t # <<CR, LF>> /\ ~Gap(t)
      BY <1>6 DEF Blanks2, Gap, Blank, CR, LF, SP, TAB, ONE
    <3>2. Gap(t) => t # <<CR, LF>>
      BY <1>6 DEF Gap, Blank, CR, LF, SP, TAB, ONE
    <3>3. t # <<>>
      <4>1. ASSUME t = <<>>
            PROVE  FALSE
        <5>1. n = 0
          BY <4>1
        <5>. HIDE DEF n
        <5>. QED
          BY <1>6, <5>1
      <4>. QED
        BY <4>1
    <3>4. Len(t) # 1
      <4>1. n # 1
        <5>. HIDE DEF n
        <5>. QED
          BY <1>c, <1>6
      <4>. QED
        BY <4>1
    <3>. QED
      BY <2>b, <3>1, <3>2, <3>3, <3>4 DEF StateOf, Jam
  <2>6. Transition(StateOf(t), Shown(c)) = (CASE Blanks2(t) /\ c \in Blank -> 18
                        [] Gap(t) /\ c = ONE -> 16
                        [] Gap(t) /\ c \in Blank -> 19
                        [] OTHER -> 20)
    BY <1>3, <2>5, <2>b DEF Transition, Jam, Blank, SP, TAB, ONE, NUL
  <2>. QED
    BY <2>4, <2>6 DEF u
<1>7. n = 0 \/ n = 1 \/ n > 1
  <2>1. n \in Nat
    OBVIOUS
  <2>. HIDE DEF n
  <2>. QED
    BY <2>1
<1>. QED
  BY <1>4, <1>5, <1>6, <1>7

\* The states that Match stops at have no way on, but over a NUL.
Stops(s) == dfa.yy_base[s + 1] = JamBase

\* Which those are, and where a character that is no NUL leads from them.
LEMMA StopStates ==
  /\ \A s \in 1 .. 20 : Stops(s) <=> s \in {4, 8, 9, 10, 11, 12, 13, 14, 17, 19, 20}
  /\ \A s \in 1 .. 20, c \in 1 .. 13 : Stops(s) => Transition(s, c) = Jam
<1>1. \A s \in 1 .. 20 : Stops(s) <=> s \in {4, 8, 9, 10, 11, 12, 13, 14, 17, 19, 20}
  BY DEF Stops, dfa, JamBase
<1>. QED
  BY <1>1 DEF Transition, NUL, Jam

\* Behind a text with no way on there is none.
LEMMA JamStays ==
  ASSUME NEW t \in Seq(Chars), NEW k \in 1 .. Len(t), StateOf(SubSeq(t, 1, k)) = Jam
  PROVE  \A j \in k .. Len(t) : StateOf(SubSeq(t, 1, j)) = Jam
<1>. DEFINE n == Len(t) - k
            T == {i \in 0 .. n : StateOf(SubSeq(t, 1, k + i)) = Jam}
<1>1. n \in Nat /\ 0 \in T
  OBVIOUS
<1>2. ASSUME NEW i \in 0 .. n, i \in T, i < n
      PROVE  i + 1 \in T
  <2>1. k + i \in 0 .. Len(t) - 1 /\ k + (i + 1) = (k + i) + 1
    BY <1>1, <1>2
  <2>2. SubSeq(t, 1, (k + i) + 1) = Append(SubSeq(t, 1, k + i), t[(k + i) + 1])
    BY <2>1, OneMore
  <2>3. SubSeq(t, 1, k + i) \in Seq(Chars) /\ t[(k + i) + 1] \in Chars
    BY <2>1, SubSeqProperties
  <2>4. StateOf(SubSeq(t, 1, (k + i) + 1)) = Transition(Jam, Shown(t[(k + i) + 1]))
    BY <1>2, <2>2, <2>3, StateStep
  <2>5. Transition(Jam, Shown(t[(k + i) + 1])) = Jam
    BY <2>3 DEF Transition, Jam, Shown, NUL, CTL
  <2>. QED
    BY <1>2, <2>1, <2>4, <2>5
<1>. HIDE DEF T
<1>3. \A i \in 0 .. n : i \in T
  BY <1>1, <1>2, UpTo
<1>4. ASSUME NEW j \in k .. Len(t)
      PROVE  StateOf(SubSeq(t, 1, j)) = Jam
  <2>1. j - k \in T /\ k + (j - k) = j
    BY <1>3
  <2>. QED
    BY <2>1 DEF T
<1>. QED
  BY <1>4

\* A transition leads to a state of the automaton.
LEMMA TransitionType == \A s \in 1 .. 20, c \in Chars : Transition(s, c) \in 1 .. 20
<1>1. Chars = 0 .. 13
  BY DEF Chars, NUL, HIGH
<1>2. \A c \in 0 .. 13 : Single[c + 1] \in 1 .. 20
  BY DEF Single
<1>3. ASSUME NEW s \in 1 .. 20, NEW c \in 0 .. 13
      PROVE  Transition(s, c) \in 1 .. 20
  <2>1. CASE s \in {1, 2}
    BY <1>2, <2>1 DEF Transition
  <2>2. CASE s \notin {1, 2}
    BY <2>2 DEF Transition, NUL, Jam
  <2>. QED
    BY <2>1, <2>2
<1>. QED
  BY <1>1, <1>3

\* What Path() goes through.
LEMMA PathIs ==
  ASSUME NEW s \in 1 .. 20, NEW cs \in Seq(Chars)
  PROVE  /\ Path(s, cs) \in [0 .. Len(cs) -> 1 .. 20] /\ Path(s, cs)[0] = s
         /\ \A k \in 0 .. Len(cs) - 1 : Path(s, cs)[k + 1] = Transition(Path(s, cs)[k], cs[k + 1])
<1>. DEFINE n == Len(cs)
            Is(f) == f = [k \in 0 .. n |-> IF k = 0 THEN s ELSE Goto[f[k - 1]][cs[k]]]
            after == CHOOSE f : Is(f)
            Up(m) == \E g \in [0 .. m -> 1 .. 20] :
                       g[0] = s /\ \A j \in 0 .. m - 1 : g[j + 1] = Transition(g[j], cs[j + 1])
            T == {m \in 0 .. n : Up(m)}
<1>0. n \in Nat /\ \A k \in 1 .. n : cs[k] \in Chars
  OBVIOUS
<1>1. Path(s, cs) = after
  BY DEF Path
<1>. HIDE DEF n
<1>2. 0 \in T
  <2>. DEFINE g == [j \in 0 .. 0 |-> s]
  <2>1. g \in [0 .. 0 -> 1 .. 20] /\ g[0] = s
    OBVIOUS
  <2>. HIDE DEF g
  <2>2. Up(0)
    BY <2>1
  <2>. QED
    BY <1>0, <2>2
<1>3. ASSUME NEW m \in 0 .. n, m \in T, m < n
      PROVE  m + 1 \in T
  <2>1. PICK g \in [0 .. m -> 1 .. 20] :
          g[0] = s /\ \A j \in 0 .. m - 1 : g[j + 1] = Transition(g[j], cs[j + 1])
    BY <1>3
  <2>. DEFINE h == [j \in 0 .. m + 1 |-> IF j = m + 1 THEN Transition(g[m], cs[m + 1]) ELSE g[j]]
  <2>m. m \in 0 .. n /\ m + 1 \in 1 .. n /\ m + 1 \in 0 .. n
    BY <1>0, <1>3
  <2>2. Transition(g[m], cs[m + 1]) \in 1 .. 20
    <3>1. cs[m + 1] \in Chars /\ g[m] \in 1 .. 20
      BY <1>0, <2>1, <2>m
    <3>. QED
      BY <3>1, TransitionType
  <2>3. h \in [0 .. m + 1 -> 1 .. 20]
    BY <2>1, <2>2
  <2>4. h[m + 1] = Transition(g[m], cs[m + 1]) /\ \A j \in 0 .. m : h[j] = g[j]
    BY <1>0
  <2>. HIDE DEF h
  <2>5. h[0] = s
    BY <1>0, <2>1, <2>4
  <2>6. ASSUME NEW j \in 0 .. (m + 1) - 1
        PROVE  h[j + 1] = Transition(h[j], cs[j + 1])
    <3>1. CASE j = m
      BY <2>4, <3>1
    <3>2. CASE j # m
      <4>1. j \in 0 .. m - 1 /\ j + 1 \in 0 .. m
        BY <1>0, <3>2
      <4>. QED
        BY <2>1, <2>4, <4>1
    <3>. QED
      BY <3>1, <3>2
  <2>7. Up(m + 1)
    BY <2>3, <2>5, <2>6
  <2>. HIDE DEF Up
  <2>. QED
    BY <2>7, <2>m
<1>4. Up(n)
  <2>1. \A m \in 0 .. n : m \in T
    <3>. HIDE DEF T
    <3>. QED
      BY <1>0, <1>2, <1>3, UpTo
  <2>2. n \in 0 .. n
    BY <1>0
  <2>. QED
    BY <2>1, <2>2
<1>5. PICK g \in [0 .. n -> 1 .. 20] :
        g[0] = s /\ \A j \in 0 .. n - 1 : g[j + 1] = Transition(g[j], cs[j + 1])
  BY <1>4
<1>6. Is(g)
  <2>1. ASSUME NEW k \in 0 .. n
        PROVE  g[k] = IF k = 0 THEN s ELSE Goto[g[k - 1]][cs[k]]
    <3>1. CASE k # 0
      <4>1. k - 1 \in 0 .. n - 1 /\ (k - 1) + 1 = k
        BY <1>0, <3>1
      <4>2. g[k] = Transition(g[k - 1], cs[k])
        BY <1>5, <4>1
      <4>3. Goto[g[k - 1]][cs[k]] = Transition(g[k - 1], cs[k])
        <5>1. cs[k] \in Chars /\ g[k - 1] \in 1 .. 20
          BY <1>0, <1>5, <3>1, <4>1
        <5>. QED
          BY <5>1, GotoIs
      <4>. QED
        BY <3>1, <4>2, <4>3
    <3>. QED
      BY <1>5, <3>1
  <2>. QED
    BY <1>5, <2>1
<1>7. Is(after)
  <2>. HIDE DEF Is
  <2>. QED
    BY <1>6
<1>. DEFINE Step(f) == [k \in 0 .. n |-> IF k = 0 THEN s ELSE Goto[f[k - 1]][cs[k]]]
<1>8. after = Step(after)
  BY <1>7
<1>. HIDE DEF after
<1>9. DOMAIN after = 0 .. n /\ \A k \in 0 .. n : after[k] = IF k = 0 THEN s ELSE Goto[after[k - 1]][cs[k]]
  <2>1. \A k \in 0 .. n : Step(after)[k] = IF k = 0 THEN s ELSE Goto[after[k - 1]][cs[k]]
    OBVIOUS
  <2>2. DOMAIN Step(after) = 0 .. n
    OBVIOUS
  <2>. HIDE DEF Step
  <2>. QED
    BY <1>8, <2>1, <2>2
<1>. DEFINE S == {k \in 0 .. n : after[k] \in 1 .. 20}
<1>10. \A k \in 0 .. n : k \in S
  <2>1. 0 \in S
    BY <1>0, <1>9
  <2>2. ASSUME NEW k \in 0 .. n, k \in S, k < n
        PROVE  k + 1 \in S
    <3>1. k + 1 \in 0 .. n /\ (k + 1) - 1 = k /\ k + 1 # 0
      BY <1>0, <2>2
    <3>2. after[k + 1] = Goto[after[k]][cs[k + 1]]
      BY <1>9, <3>1
    <3>3. Goto[after[k]][cs[k + 1]] \in 1 .. 20
      <4>1. cs[k + 1] \in Chars /\ after[k] \in 1 .. 20
        BY <1>0, <2>2, <3>1
      <4>. QED
        BY <4>1, GotoIs, TransitionType
    <3>. QED
      BY <3>1, <3>2, <3>3
  <2>. HIDE DEF S
  <2>. QED
    BY <1>0, <2>1, <2>2, UpTo
<1>11. \A k \in 0 .. n - 1 : after[k + 1] = Transition(after[k], cs[k + 1])
  <2>1. ASSUME NEW k \in 0 .. n - 1
        PROVE  after[k + 1] = Transition(after[k], cs[k + 1])
    <3>1. k + 1 \in 0 .. n /\ (k + 1) - 1 = k /\ k + 1 # 0
      BY <1>0
    <3>2. after[k + 1] = Goto[after[k]][cs[k + 1]]
      BY <1>9, <3>1
    <3>3. cs[k + 1] \in Chars /\ after[k] \in 1 .. 20
      BY <1>0, <1>10, <3>1
    <3>. QED
      BY <3>2, <3>3, GotoIs
  <2>. QED
    BY <2>1
<1>12. after \in [0 .. n -> 1 .. 20]
  <2>1. after = [k \in 0 .. n |-> after[k]]
    BY <1>8, <1>9
  <2>2. \A k \in 0 .. n : after[k] \in 1 .. 20
    BY <1>10
  <2>. QED
    BY <2>1, <2>2
<1>13. after[0] = s
  BY <1>0, <1>9
<1>. QED
  BY <1>1, <1>11, <1>12, <1>13 DEF n

\* What yy_get_previous_state() goes through.
LEMMA ReplayIs ==
  ASSUME NEW t \in Seq(Chars)
  PROVE  /\ Replay(t) \in [0 .. Len(t) -> 1 .. 20]
         /\ \A k \in 0 .. Len(t) : Replay(t)[k] = StateOf(SubSeq(t, 1, k))
<1>. DEFINE n == Len(t)
            cs == [k \in DOMAIN t |-> IF t[k] = NUL THEN CTL ELSE t[k]]
            path == Path(Start, cs)
<1>1. n \in Nat /\ DOMAIN t = 1 .. n /\ \A k \in 1 .. n : t[k] \in Chars
  OBVIOUS
<1>2. CTL \in Chars
  BY DEF CTL, Chars, NUL, HIGH
<1>3. cs \in Seq(Chars) /\ Len(cs) = n /\ \A k \in 1 .. n : cs[k] = Shown(t[k])
  <2>1. cs \in [1 .. n -> Chars]
    BY <1>1, <1>2
  <2>2. cs \in Seq(Chars)
    BY <1>1, <2>1, SeqDef
  <2>. QED
    BY <1>1, <2>1, <2>2 DEF Shown
<1>4. Replay(t) = path
  BY DEF Replay
<1>5. Start \in 1 .. 20 /\ Start = 1
  BY DEF Start
<1>. HIDE DEF cs, n
<1>6. /\ path \in [0 .. n -> 1 .. 20] /\ path[0] = Start
      /\ \A k \in 0 .. n - 1 : path[k + 1] = Transition(path[k], cs[k + 1])
  BY <1>3, <1>5, PathIs
<1>. HIDE DEF path
<1>. DEFINE T == {k \in 0 .. n : path[k] = StateOf(SubSeq(t, 1, k))}
<1>7. 0 \in T
  <2>1. SubSeq(t, 1, 0) = <<>>
    BY SubSeqEmpty
  <2>2. StateOf(<<>>) = Start
    BY DEF StateOf
  <2>. QED
    BY <1>1, <1>6, <2>1, <2>2
<1>8. ASSUME NEW k \in 0 .. n, k \in T, k < n
      PROVE  k + 1 \in T
  <2>1. k \in 0 .. Len(t) - 1 /\ k + 1 \in 1 .. n
    BY <1>1, <1>8 DEF n
  <2>2. SubSeq(t, 1, k + 1) = Append(SubSeq(t, 1, k), t[k + 1])
    BY <2>1, OneMore
  <2>3. SubSeq(t, 1, k) \in Seq(Chars) /\ t[k + 1] \in Chars
    BY <1>1, <2>1, SubSeqProperties
  <2>4. StateOf(SubSeq(t, 1, k + 1)) = Transition(StateOf(SubSeq(t, 1, k)), Shown(t[k + 1]))
    BY <2>2, <2>3, StateStep
  <2>5. path[k + 1] = Transition(path[k], Shown(t[k + 1]))
    BY <1>1, <1>3, <1>6, <2>1
  <2>. QED
    BY <1>1, <1>8, <2>1, <2>4, <2>5
<1>9. \A k \in 0 .. n : k \in T
  <2>. HIDE DEF T
  <2>. QED
    BY <1>1, <1>7, <1>8, UpTo
<1>. QED
  BY <1>4, <1>6, <1>9 DEF n

\* The lexemes of a single character.
LEMMA LexemesOfOne ==
  ASSUME NEW w \in Seq(Chars), Len(w) = 1, NEW rule \in 1 .. 12
  PROVE  IsLexeme(rule, w) <=>
           CASE rule = 1 -> w[1] = SLASH
             [] rule = 2 -> FALSE
             [] rule = 3 -> w[1] = SP
             [] rule = 4 -> w[1] \in Blank
             [] rule = 5 -> w[1] \in {DIGIT, ONE}
             [] rule = 6 -> w[1] = DOT
             [] rule = 7 -> w[1] = COLON
             [] rule = 8 -> w[1] \in {SEP, SLASH, COLON}
             [] rule = 9 -> w[1] \in {CHAR, DOT, DIGIT, ONE}
             [] rule = 10 -> FALSE
             [] rule = 11 -> w[1] \in {NUL, CTL, TAB, LF, CR}
             [] rule = 12 -> TRUE
<1>0. 1 \in 1 .. Len(w) /\ DOMAIN w = {1}
  OBVIOUS
<1>1. w[1] \in Chars
  BY <1>0, ElementOfSeq
<1>2. ASSUME NEW c \in Chars
      PROVE  w = <<c>> <=> w[1] = c
  <2>1. <<c>> \in Seq(Chars) /\ Len(<<c>>) = 1 /\ <<c>>[1] = c
    OBVIOUS
  <2>2. ASSUME w[1] = c
        PROVE  w = <<c>>
    <3>1. \A i \in 1 .. Len(w) : w[i] = <<c>>[i]
      BY <2>2
    <3>. QED
      BY <2>1, <3>1, SeqEqual
  <2>3. ASSUME w = <<c>>
        PROVE  w[1] = c
    BY <2>3
  <2>. QED
    BY <2>2, <2>3
<1>3. w # <<CR, LF>>
  OBVIOUS
<1>4. Range(w) = {w[1]}
  BY <1>0 DEF Range
<1>5. {SLASH, SP, DIGIT, ONE, DOT, COLON, SEP, CHAR} \subseteq Chars
  BY DEF SLASH, SP, DIGIT, ONE, DOT, COLON, SEP, CHAR, Chars, NUL, HIGH
<1>6. rule = 4 => (Range(w) \subseteq Blank <=> w[1] \in Blank)
  BY <1>4
<1>7. /\ (w = <<SLASH>> <=> w[1] = SLASH)  /\ (w = <<SP>> <=> w[1] = SP)
      /\ (w = <<DIGIT>> <=> w[1] = DIGIT)  /\ (w = <<ONE>> <=> w[1] = ONE)
      /\ (w = <<DOT>> <=> w[1] = DOT)      /\ (w = <<COLON>> <=> w[1] = COLON)
      /\ (w = <<SEP>> <=> w[1] = SEP)      /\ (w = <<CHAR>> <=> w[1] = CHAR)
  BY <1>2, <1>5, Zenon
<1>8. rule \in {1, 2, 3, 4, 5, 6, 7, 8, 9, 10, 11, 12}
  OBVIOUS
<1>9. CASE rule \in {1, 2, 3, 4, 5, 6}
  BY <1>9, <1>3, <1>6, <1>7 DEF IsLexeme
<1>10. CASE rule \in {7, 8, 9, 10, 11, 12}
  BY <1>10, <1>7 DEF IsLexeme
<1>. QED
  BY <1>8, <1>9, <1>10

\* The rules that have a lexeme of more than one character.
LEMMA LexemesOfMore ==
  ASSUME NEW w \in Seq(Chars), Len(w) > 1, NEW rule \in 1 .. 12
  PROVE  IsLexeme(rule, w) <=>
           \/ rule = 2 /\ w = <<CR, LF>>
           \/ rule = 4 /\ Blanks2(w)
           \/ rule = 10 /\ w[1] \in Blank /\ w[Len(w)] \in Blank
                        /\ \A i \in 2 .. Len(w) - 1 : w[i] = ONE
<1>1. Head(w) = w[1] /\ Last(w) = w[Len(w)]
  BY DEF Last
<1>2. Range(w) \subseteq Blank <=> \A i \in 1 .. Len(w) : w[i] \in Blank
  BY DEF Range
<1>3. Range(SubSeq(w, 2, Len(w) - 1)) \subseteq {ONE} <=> \A i \in 2 .. Len(w) - 1 : w[i] = ONE
  <2>. DEFINE v == SubSeq(w, 2, Len(w) - 1)
              n == Len(w)
  <2>0. n \in Nat /\ n > 1
    OBVIOUS
  <2>1. /\ v \in Seq(Chars) /\ Len(v) = n - 2
        /\ \A i \in 1 .. n - 2 : v[i] = w[i + 1]
    <3>1. \A i \in 2 .. n - 1 : w[i] \in Chars
      OBVIOUS
    <3>. HIDE DEF n
    <3>2. /\ SubSeq(w, 2, n - 1) \in Seq(Chars)
          /\ Len(SubSeq(w, 2, n - 1)) = IF 2 <= n - 1 THEN (n - 1) - 2 + 1 ELSE 0
          /\ \A i \in 1 .. (n - 1) - 2 + 1 : SubSeq(w, 2, n - 1)[i] = w[2 + i - 1]
      BY <2>0, <3>1, SubSeqProperties
    <3>3. (IF 2 <= n - 1 THEN (n - 1) - 2 + 1 ELSE 0) = n - 2 /\ (n - 1) - 2 + 1 = n - 2
      BY <2>0
    <3>4. \A i \in 1 .. n - 2 : 2 + i - 1 = i + 1
      BY <2>0
    <3>. QED
      BY <3>2, <3>3, <3>4 DEF n
  <2>2. Range(v) = {v[i] : i \in 1 .. n - 2}
    <3>. HIDE DEF v, n
    <3>1. DOMAIN v = 1 .. n - 2
      BY <2>1
    <3>. QED
      BY <3>1 DEF Range
  <2>. HIDE DEF v, n
  <2>3. ASSUME Range(v) \subseteq {ONE}, NEW i \in 2 .. n - 1
        PROVE  w[i] = ONE
    <3>1. i - 1 \in 1 .. n - 2 /\ (i - 1) + 1 = i
      BY <2>0
    <3>. QED
      BY <2>1, <2>2, <2>3, <3>1
  <2>4. ASSUME \A i \in 2 .. n - 1 : w[i] = ONE
        PROVE  Range(v) \subseteq {ONE}
    <3>1. \A i \in 1 .. n - 2 : i + 1 \in 2 .. n - 1
      BY <2>0
    <3>. QED
      BY <2>1, <2>2, <2>4, <3>1
  <2>. QED
    BY <2>3, <2>4 DEF v, n
<1>l. Len(w) # 1
  <2>1. \A n \in Nat : n > 1 => n # 1
    OBVIOUS
  <2>2. Len(w) \in Nat
    OBVIOUS
  <2>. QED
    BY <2>1, <2>2, Zenon
<1>4. \A c : w # <<c>>
  <2>1. \A c : Len(<<c>>) = 1
    OBVIOUS
  <2>. QED
    BY <1>l, <2>1, Zenon
<1>5. CASE rule \in {1, 3, 5, 6, 7, 8, 9, 11, 12}
  <2>1. ~IsLexeme(rule, w)
    <3>1. /\ w # <<SLASH>> /\ w # <<SP>> /\ w # <<DIGIT>> /\ w # <<ONE>> /\ w # <<DOT>>
          /\ w # <<COLON>> /\ w # <<SEP>> /\ w # <<CHAR>>
      BY <1>4
    <3>2. /\ IsLexeme(1, w) <=> w = <<SLASH>>
          /\ IsLexeme(3, w) <=> w = <<SP>>
          /\ IsLexeme(5, w) <=> w \in {<<DIGIT>>, <<ONE>>}
          /\ IsLexeme(6, w) <=> w = <<DOT>>
      BY DEF IsLexeme
    <3>3. /\ IsLexeme(7, w) <=> w = <<COLON>>
          /\ IsLexeme(8, w) <=> w \in {<<SEP>>, <<SLASH>>, <<COLON>>}
          /\ IsLexeme(9, w) <=> w \in {<<CHAR>>, <<DOT>>, <<DIGIT>>, <<ONE>>}
      BY DEF IsLexeme
    <3>4. /\ IsLexeme(11, w) => Len(w) = 1
          /\ IsLexeme(12, w) => Len(w) = 1
      BY DEF IsLexeme
    <3>5. ~IsLexeme(1, w) /\ ~IsLexeme(3, w) /\ ~IsLexeme(5, w) /\ ~IsLexeme(6, w)
      BY <3>1, <3>2, Zenon
    <3>6. ~IsLexeme(7, w) /\ ~IsLexeme(8, w) /\ ~IsLexeme(9, w)
      BY <3>1, <3>3, Zenon
    <3>7. ~IsLexeme(11, w) /\ ~IsLexeme(12, w)
      BY <1>l, <3>4, Zenon
    <3>. QED
      BY <1>5, <3>5, <3>6, <3>7
  <2>. QED
    BY <1>5, <2>1
<1>6. CASE rule = 2
  BY <1>6 DEF IsLexeme
<1>7. CASE rule = 4
  BY <1>2, <1>7 DEF IsLexeme, Blanks2
<1>8. CASE rule = 10
  <2>1. IsLexeme(rule, w) <=> {Head(w), Last(w)} \subseteq Blank
                              /\ Range(SubSeq(w, 2, Len(w) - 1)) \subseteq {ONE}
    BY <1>8 DEF IsLexeme
  <2>2. {Head(w), Last(w)} \subseteq Blank <=> w[1] \in Blank /\ w[Len(w)] \in Blank
    BY <1>1
  <2>. QED
    BY <1>3, <1>8, <2>1, <2>2
<1>. QED
  BY <1>5, <1>6, <1>7, <1>8

\* The action of the state behind a text is that of the first rule that the text is a
\* lexeme of, and none if there is none.
LEMMA AcceptsIs ==
  ASSUME NEW w \in Seq(Chars), w # <<>>
  PROVE  /\ Accepts(StateOf(w)) \in 0 .. 12
         /\ Accepts(StateOf(w)) # 0 => IsLexeme(Accepts(StateOf(w)), w)
         /\ \A rule \in 1 .. 12 :
              IsLexeme(rule, w) => Accepts(StateOf(w)) # 0 /\ Accepts(StateOf(w)) <= rule
<1>. DEFINE n == Len(w)
<1>0. n \in Nat /\ (n = 1 \/ n > 1)
  <2>1. n \in Nat /\ n # 0
    OBVIOUS
  <2>. HIDE DEF n
  <2>. QED
    BY <2>1
<1>c. Chars = 0 .. 13
  BY DEF Chars, NUL, HIGH
<1>1. CASE n = 1
  <2>. DEFINE c == w[1]
  <2>1. c \in 0 .. 13
    <3>1. 1 \in 1 .. Len(w)
      BY <1>1
    <3>. QED
      BY <1>c, <3>1, ElementOfSeq
  <2>2. StateOf(w) = Single[Shown(c) + 1]
    BY <1>1 DEF StateOf
  <2>3. \A x \in 0 .. 13 : Accepts(Single[Shown(x) + 1]) =
          (CASE x \in {0, 1, 3, 4} -> 11 [] x = 2 -> 4 [] x = 5 -> 3 [] x = 6 -> 9 [] x = 7 -> 8
            [] x = 8 -> 6 [] x = 9 -> 1 [] x \in {10, 11} -> 5 [] x = 12 -> 7 [] x = 13 -> 12)
    <3>1. \A x \in 0 .. 13 : Single[Shown(x) + 1] =
            (CASE x \in {0, 1, 3} -> 4 [] x = 4 -> 6 [] x = 2 -> 5 [] x = 5 -> 7 [] x = 6 -> 8
              [] x = 7 -> 9 [] x = 8 -> 10 [] x = 9 -> 11 [] x \in {10, 11} -> 12 [] x = 12 -> 13
              [] x = 13 -> 14)
      BY DEF Single, Shown, NUL, CTL
    <3>2. /\ Accepts(4) = 11 /\ Accepts(5) = 4 /\ Accepts(6) = 11 /\ Accepts(7) = 3
          /\ Accepts(8) = 9 /\ Accepts(9) = 8 /\ Accepts(10) = 6 /\ Accepts(11) = 1
          /\ Accepts(12) = 5 /\ Accepts(13) = 7 /\ Accepts(14) = 12
      BY DEF Accepts, dfa
    <3>. QED
      BY <3>1, <3>2
  <2>4. Accepts(StateOf(w)) =
          (CASE c \in {0, 1, 3, 4} -> 11 [] c = 2 -> 4 [] c = 5 -> 3 [] c = 6 -> 9 [] c = 7 -> 8
            [] c = 8 -> 6 [] c = 9 -> 1 [] c \in {10, 11} -> 5 [] c = 12 -> 7 [] c = 13 -> 12)
    BY <2>1, <2>2, <2>3
  <2>. DEFINE a == Accepts(StateOf(w))
  <2>5. a \in 1 .. 12
    BY <2>1, <2>4
  <2>6. \A rule \in 1 .. 12 : IsLexeme(rule, w) <=>
           CASE rule = 1 -> c = 9
             [] rule = 2 -> FALSE
             [] rule = 3 -> c = 5
             [] rule = 4 -> c \in {2, 5}
             [] rule = 5 -> c \in {10, 11}
             [] rule = 6 -> c = 8
             [] rule = 7 -> c = 12
             [] rule = 8 -> c \in {7, 9, 12}
             [] rule = 9 -> c \in {6, 8, 10, 11}
             [] rule = 10 -> FALSE
             [] rule = 11 -> c \in {0, 1, 2, 3, 4}
             [] rule = 12 -> TRUE
    <3>1. ASSUME NEW rule \in 1 .. 12
          PROVE  IsLexeme(rule, w) <=>
                   CASE rule = 1 -> c = SLASH
                     [] rule = 2 -> FALSE
                     [] rule = 3 -> c = SP
                     [] rule = 4 -> c \in Blank
                     [] rule = 5 -> c \in {DIGIT, ONE}
                     [] rule = 6 -> c = DOT
                     [] rule = 7 -> c = COLON
                     [] rule = 8 -> c \in {SEP, SLASH, COLON}
                     [] rule = 9 -> c \in {CHAR, DOT, DIGIT, ONE}
                     [] rule = 10 -> FALSE
                     [] rule = 11 -> c \in {NUL, CTL, TAB, LF, CR}
                     [] rule = 12 -> TRUE
      BY <1>1, LexemesOfOne
    <3>. HIDE DEF c
    <3>. QED
      BY <3>1 DEF SLASH, SP, Blank, DIGIT, ONE, DOT, COLON, SEP, CHAR, NUL, CTL, TAB, LF, CR
  <2>. HIDE DEF c
  <2>7. IsLexeme(a, w)
    BY <2>1, <2>4, <2>5, <2>6
  <2>8. ASSUME NEW rule \in 1 .. 12, IsLexeme(rule, w)
        PROVE  a <= rule
    BY <2>1, <2>4, <2>6, <2>8
  <2>. QED
    BY <2>5, <2>7, <2>8
<1>2. CASE n > 1
  <2>. DEFINE b == Blanks2(w)
              g == Gap(w)
              h == n > 2 /\ Gap(SubSeq(w, 1, n - 1)) /\ w[n] \in Blank
              r == w[1] \in Blank /\ w[n] \in Blank /\ \A i \in 2 .. n - 1 : w[i] = ONE
  <2>1. \A rule \in 1 .. 12 : IsLexeme(rule, w) <=> \/ rule = 2 /\ w = <<CR, LF>>
                                                    \/ rule = 4 /\ b
                                                    \/ rule = 10 /\ r
    BY <1>2, LexemesOfMore
  <2>2. b => w # <<CR, LF>> /\ ~g
    BY <1>2 DEF Blanks2, Gap, Blank, CR, LF, SP, TAB, ONE
  <2>3. g => w # <<CR, LF>> /\ ~r
    BY <1>2 DEF Gap, Blank, CR, LF, SP, TAB, ONE
  <2>4. r => b \/ h
    <3>1. ASSUME r, n = 2
          PROVE  b
      BY <1>0, <3>1 DEF Blanks2
    <3>2. ASSUME r, n > 2
          PROVE  h
      <4>1. SubSeq(w, 1, n - 1) \in Seq(Chars) /\ Len(SubSeq(w, 1, n - 1)) = n - 1
            /\ \A i \in 1 .. n - 1 : SubSeq(w, 1, n - 1)[i] = w[i]
        BY <1>0, <3>2, SubSeqProperties
      <4>. QED
        BY <1>0, <3>2, <4>1 DEF Gap
    <3>. HIDE DEF b, h, r, n
    <3>. QED
      BY <1>0, <1>2, <3>1, <3>2
  <2>5. h => r /\ w # <<CR, LF>>
    <3>1. ASSUME h
          PROVE  r
      <4>1. SubSeq(w, 1, n - 1) \in Seq(Chars) /\ Len(SubSeq(w, 1, n - 1)) = n - 1
            /\ \A i \in 1 .. n - 1 : SubSeq(w, 1, n - 1)[i] = w[i]
        BY <1>0, <3>1, SubSeqProperties
      <4>. QED
        BY <1>0, <3>1, <4>1 DEF Gap
    <3>2. h => w # <<CR, LF>>
      OBVIOUS
    <3>. QED
      BY <3>1, <3>2
  <2>6. StateOf(w) = IF w = <<CR, LF>> THEN 17
                     ELSE IF b THEN IF n = 2 THEN 15 ELSE 18
                     ELSE IF g THEN 16 ELSE IF h THEN 19 ELSE 20
    <3>1. n # 1
      <4>. HIDE DEF n
      <4>. QED
        BY <1>0, <1>2
    <3>2. w # <<>>
      OBVIOUS
    <3>. QED
      BY <3>1, <3>2 DEF StateOf, Jam
  <2>7. Accepts(17) = 2 /\ Accepts(15) = 4 /\ Accepts(18) = 4 /\ Accepts(16) = 0
        /\ Accepts(19) = 10 /\ Accepts(20) = 0
    BY DEF Accepts, dfa
  <2>. DEFINE lf == w = <<CR, LF>>
              a == Accepts(StateOf(w))
  <2>8. a = IF lf THEN 2 ELSE IF b THEN 4 ELSE IF g THEN 0 ELSE IF h THEN 10 ELSE 0
    <3>. HIDE DEF b, g, h, n, lf
    <3>. QED
      BY <2>6, <2>7 DEF lf
  <2>b. b \in BOOLEAN /\ g \in BOOLEAN /\ h \in BOOLEAN /\ r \in BOOLEAN /\ lf \in BOOLEAN
    BY DEF Blanks2, Gap
  <2>9. \A rule \in 1 .. 12 : IsLexeme(rule, w) <=> \/ rule = 2 /\ lf
                                                    \/ rule = 4 /\ b
                                                    \/ rule = 10 /\ r
    BY <2>1
  <2>10. (b => ~lf /\ ~g) /\ (g => ~lf /\ ~r) /\ (r => b \/ h) /\ (h => r /\ ~lf)
    BY <2>2, <2>3, <2>4, <2>5
  <2>. HIDE DEF b, g, h, n, lf, a, r
  <2>11. a \in 0 .. 12 /\ (a # 0 => IsLexeme(a, w))
    BY <2>8, <2>9, <2>10, <2>b
  <2>12. ASSUME NEW rule \in 1 .. 12, IsLexeme(rule, w)
         PROVE  a # 0 /\ a <= rule
    BY <2>8, <2>9, <2>10, <2>12, <2>b
  <2>. QED
    BY <2>11, <2>12 DEF a
<1>. QED
  BY <1>0, <1>1, <1>2

\* The characters are numbers, and the two end-of-buffer characters are among them.
LEMMA CharsType ==
  Chars = 0 .. 13 /\ NUL \in Chars /\ CTL \in Chars /\ EOB \in Seq(Chars) /\ Len(EOB) = 2
  /\ EOB[1] = NUL /\ EOB[2] = NUL
BY DEF Chars, NUL, CTL, HIGH, EOB

\* The part of a sequence behind its a-th element, up to the b-th.
LEMMA SubSeqType ==
  ASSUME NEW S, NEW s \in Seq(S), NEW a \in Nat, NEW b \in a .. Len(s)
  PROVE  /\ SubSeq(s, a + 1, b) \in Seq(S) /\ Len(SubSeq(s, a + 1, b)) = b - a
         /\ \A i \in 1 .. b - a : SubSeq(s, a + 1, b)[i] = s[a + i]
<1>1. b \in Nat /\ b <= Len(s) /\ Len(s) \in Nat
  OBVIOUS
<1>2. \A i \in a + 1 .. b : s[i] \in S
  BY <1>1
<1>3. /\ SubSeq(s, a + 1, b) \in Seq(S)
      /\ Len(SubSeq(s, a + 1, b)) = IF a + 1 <= b THEN b - (a + 1) + 1 ELSE 0
      /\ \A i \in 1 .. b - (a + 1) + 1 : SubSeq(s, a + 1, b)[i] = s[(a + 1) + i - 1]
  BY <1>1, <1>2, SubSeqProperties
<1>4. (IF a + 1 <= b THEN b - (a + 1) + 1 ELSE 0) = b - a /\ b - (a + 1) + 1 = b - a
      /\ \A i \in 1 .. b - a : (a + 1) + i - 1 = a + i
  BY <1>1
<1>. QED
  BY <1>3, <1>4

\* The texts that begin a concatenation or a part of a buffer.
LEMMA UnreadIs ==
  ASSUME NEW held \in Seq(Chars), NEW n \in 0 .. Len(held), NEW b \in 0 .. n,
         NEW rest \in Seq(Chars)
  PROVE  LET u == SubSeq(held, b + 1, n) \o rest IN
         /\ u \in Seq(Chars) /\ Len(u) = (n - b) + Len(rest)
         /\ \A i \in 1 .. n - b : u[i] = held[b + i]
         /\ \A i \in 1 .. Len(rest) : u[(n - b) + i] = rest[i]
         /\ \A k \in 0 .. n - b : SubSeq(u, 1, k) = SubSeq(held, b + 1, b + k)
<1>. DEFINE v == SubSeq(held, b + 1, n)
            u == SubSeq(held, b + 1, n) \o rest
<1>0. n \in Nat /\ b \in Nat /\ n - b \in Nat /\ n \in b .. Len(held) /\ Len(rest) \in Nat
  OBVIOUS
<1>1. v \in Seq(Chars) /\ Len(v) = n - b /\ \A i \in 1 .. n - b : v[i] = held[b + i]
  BY <1>0, SubSeqType
<1>u. u = v \o rest
  OBVIOUS
<1>. HIDE DEF v, u
<1>2. /\ u \in Seq(Chars) /\ Len(u) = (n - b) + Len(rest)
      /\ \A i \in 1 .. (n - b) + Len(rest) : u[i] = IF i <= n - b THEN v[i] ELSE rest[i - (n - b)]
  <2>1. /\ v \o rest \in Seq(Chars) /\ Len(v \o rest) = Len(v) + Len(rest)
        /\ \A i \in 1 .. Len(v) + Len(rest) :
             (v \o rest)[i] = IF i <= Len(v) THEN v[i] ELSE rest[i - Len(v)]
    BY <1>1, ConcatProperties
  <2>. QED
    BY <1>1, <1>u, <2>1
<1>3. \A i \in 1 .. n - b : u[i] = held[b + i]
  BY <1>0, <1>1, <1>2
<1>4. ASSUME NEW i \in 1 .. Len(rest)
      PROVE  u[(n - b) + i] = rest[i]
  <2>1. (n - b) + i \in 1 .. (n - b) + Len(rest) /\ ~((n - b) + i <= n - b)
        /\ ((n - b) + i) - (n - b) = i
    BY <1>0
  <2>. QED
    BY <1>2, <2>1
<1>5. ASSUME NEW k \in 0 .. n - b
      PROVE  SubSeq(u, 1, k) = SubSeq(held, b + 1, b + k)
  <2>1. k \in 0 .. Len(u) /\ b + k \in b .. Len(held) /\ (b + k) - b = k /\ k - 0 = k /\ 0 + 1 = 1
    BY <1>0, <1>2
  <2>2. /\ SubSeq(u, 0 + 1, k) \in Seq(Chars) /\ Len(SubSeq(u, 0 + 1, k)) = k - 0
        /\ \A i \in 1 .. k - 0 : SubSeq(u, 0 + 1, k)[i] = u[0 + i]
    BY <1>2, <2>1, SubSeqType
  <2>3. /\ SubSeq(held, b + 1, b + k) \in Seq(Chars) /\ Len(SubSeq(held, b + 1, b + k)) = (b + k) - b
        /\ \A i \in 1 .. (b + k) - b : SubSeq(held, b + 1, b + k)[i] = held[b + i]
    BY <1>0, <2>1, SubSeqType
  <2>4. \A i \in 1 .. k : 0 + i = i /\ i \in 1 .. n - b
    BY <1>0
  <2>5. \A i \in 1 .. k : SubSeq(u, 1, k)[i] = SubSeq(held, b + 1, b + k)[i]
    BY <1>3, <2>1, <2>2, <2>3, <2>4
  <2>. QED
    BY <2>1, <2>2, <2>3, <2>5, SeqEqual
<1>. QED
  BY <1>2, <1>3, <1>4, <1>5 DEF u

\* The states over u are those of the automaton.
LEMMA StateInType ==
  ASSUME NEW u \in Seq(Chars), NEW k \in 0 .. Len(u)
  PROVE  /\ SubSeq(u, 1, k) \in Seq(Chars) /\ Len(SubSeq(u, 1, k)) = k
         /\ StateIn(u, k) \in {1} \cup 4 .. 20
         /\ k > 0 => StateIn(u, k) \in 4 .. 20
         /\ k = 0 => StateIn(u, k) = 1 /\ Accepting(u, k)
         /\ k = 1 => Accepting(u, k)
         /\ k < Len(u) => StateIn(u, k + 1) = Transition(StateIn(u, k), Shown(u[k + 1]))
         /\ k > 0 /\ StateIn(u, k) = Jam => \A j \in k .. Len(u) : StateIn(u, j) = Jam
<1>0. k \in Nat /\ Len(u) \in Nat
  OBVIOUS
<1>1. SubSeq(u, 1, k) \in Seq(Chars) /\ Len(SubSeq(u, 1, k)) = k
  <2>1. k \in 0 .. Len(u) /\ 0 + 1 = 1 /\ k - 0 = k
    BY <1>0
  <2>. QED
    BY <2>1, SubSeqType
<1>2. /\ StateIn(u, k) \in {1} \cup 4 .. 20
      /\ k > 0 => StateIn(u, k) \in 4 .. 20
      /\ k = 1 => Accepting(u, k)
  BY <1>1, StateType DEF StateIn, Accepting
<1>3. k = 0 => StateIn(u, k) = 1 /\ Accepting(u, k)
  <2>1. StateOf(<<>>) = 1
    BY DEF StateOf, Start
  <2>2. SubSeq(u, 1, 0) = <<>>
    BY SubSeqEmpty
  <2>3. Accepts(1) # 0
    BY DEF Accepts, dfa
  <2>. QED
    BY <2>1, <2>2, <2>3 DEF StateIn, Accepting
<1>4. ASSUME k < Len(u)
      PROVE  StateIn(u, k + 1) = Transition(StateIn(u, k), Shown(u[k + 1]))
  <2>1. k \in 0 .. Len(u) - 1 /\ k + 1 \in 1 .. Len(u)
    BY <1>0, <1>4
  <2>2. SubSeq(u, 1, k + 1) = Append(SubSeq(u, 1, k), u[k + 1])
    BY <2>1, OneMore
  <2>3. u[k + 1] \in Chars
    BY <2>1
  <2>. QED
    BY <1>1, <2>2, <2>3, StateStep DEF StateIn
<1>5. ASSUME k > 0, StateIn(u, k) = Jam
      PROVE  \A j \in k .. Len(u) : StateIn(u, j) = Jam
  <2>1. k \in 1 .. Len(u)
    BY <1>0, <1>5
  <2>. QED
    BY <1>5, <2>1, JamStays DEF StateIn
<1>. QED
  BY <1>1, <1>2, <1>3, <1>4, <1>5

\* What LastAccepting() keeps.
LEMMA LastAcceptingIs ==
  ASSUME NEW path, NEW m \in Nat, NEW p \in Nat
  PROVE  \/ /\ \A k \in 0 .. m - 1 : Accepts(path[k]) = 0
            /\ LastAccepting(path, m, p) = yy_last_accepting
         \/ \E k \in 0 .. m - 1 :
              /\ Accepts(path[k]) # 0 /\ \A j \in k + 1 .. m - 1 : Accepts(path[j]) = 0
              /\ LastAccepting(path, m, p) = [state |-> path[k], cpos |-> p + k]
<1>. DEFINE ks == {k \in 0 .. m - 1 : Accepts(path[k]) # 0}
<1>1. LastAccepting(path, m, p) = IF ks = {} THEN yy_last_accepting
                                  ELSE [state |-> path[Max(ks)], cpos |-> p + Max(ks)]
  BY DEF LastAccepting
<1>2. CASE ks = {}
  BY <1>1, <1>2
<1>3. CASE ks # {}
  <2>1. ks \in SUBSET (0 .. m)
    OBVIOUS
  <2>. HIDE DEF ks
  <2>2. Max(ks) \in ks /\ \A k \in ks : k <= Max(ks)
    BY <1>3, <2>1, MaxOfNats
  <2>. DEFINE k == Max(ks)
  <2>3. k \in 0 .. m - 1 /\ Accepts(path[k]) # 0
    BY <2>2 DEF ks
  <2>4. LastAccepting(path, m, p) = [state |-> path[k], cpos |-> p + k]
    BY <1>1, <1>3
  <2>. HIDE DEF k
  <2>5. ASSUME NEW j \in k + 1 .. m - 1
        PROVE  Accepts(path[j]) = 0
    <3>1. j \notin ks
      BY <2>2, <2>3 DEF k
    <3>2. j \in 0 .. m - 1
      BY <2>3
    <3>. QED
      BY <3>1, <3>2 DEF ks
  <2>. QED
    BY <2>3, <2>4, <2>5
<1>. QED
  BY <1>2, <1>3

\* Where Match() stops: in the text, at a state with no way on, or behind a NUL that no
\* lexeme can take in.
MatchEnds(held, n, cp, d, u, path, m) ==
  \/ /\ m \in 1 .. n - cp
     /\ \A k \in 0 .. m : path[k] = StateIn(u, d + k)
     /\ \A k \in 1 .. m - 1 : ~Stops(StateIn(u, d + k))
     /\ \A j \in d + m + 1 .. Len(u) : StateIn(u, j) = Jam
  \/ \E q \in 0 .. n - cp :
       /\ m = q + 2 /\ held[(cp + q) + 1] = NUL /\ StateIn(u, d + q) \notin Ended
       /\ path[q + 1] = 3 /\ path[q + 2] = Jam
       /\ \A k \in 1 .. q : ~Stops(StateIn(u, d + k))

\* A path over what follows in the buffer, to the first state with no way on.
Walk(held, b, cp, rest, u, state, path, m) ==
  /\ u = SubSeq(held, b + 1, Len(held) - 2) \o rest
  /\ path = Path(state, SubSeq(held, cp + 1, Len(held)))
  /\ m = Min({k \in DOMAIN path \ {0} : dfa.yy_base[path[k] + 1] = JamBase})

\* Match() ends at one of the two.
LEMMA MatchIs ==
  ASSUME NEW held \in Seq(Chars), NEW n \in Nat, Len(held) = n + 2, held[n + 1] = NUL,
         NEW b \in 0 .. n, NEW cp \in b .. n, NEW d \in Nat, b + d = cp,
         NEW rest \in Seq(Chars), NEW u, NEW state, NEW path, NEW m,
         Walk(held, b, cp, rest, u, state, path, m), state = StateIn(u, d), state \notin Ended
  PROVE  MatchEnds(held, n, cp, d, u, path, m)
<1>. DEFINE cs == SubSeq(held, cp + 1, Len(held))
            stops == {k \in DOMAIN path \ {0} : dfa.yy_base[path[k] + 1] = JamBase}
            nuls == {i \in 0 .. n - cp : held[(cp + i) + 1] = NUL}
            q == Min(nuls)
<1>w. /\ u = SubSeq(held, b + 1, n) \o rest
      /\ path = Path(state, cs) /\ m = Min(stops)
  BY DEF Walk
<1>0. /\ n \in Nat /\ b \in Nat /\ cp \in Nat /\ d \in Nat /\ b <= cp /\ cp <= n /\ d + b = cp
      /\ cp \in cp .. Len(held) /\ Len(held) \in cp .. Len(held)
      /\ d \in 0 .. n - b /\ b \in 0 .. n /\ n \in 0 .. Len(held)
  OBVIOUS
<1>1. /\ cs \in Seq(Chars) /\ Len(cs) = (n + 2) - cp
      /\ \A i \in 1 .. (n + 2) - cp : cs[i] = held[cp + i]
  BY <1>0, SubSeqType
<1>2. /\ u \in Seq(Chars) /\ Len(u) = (n - b) + Len(rest) /\ Len(rest) \in Nat
      /\ \A i \in 1 .. n - b : u[i] = held[b + i]
  <2>1. n \in 0 .. Len(held) /\ b \in 0 .. n
    BY <1>0
  <2>2. LET v == SubSeq(held, b + 1, n) \o rest IN
        v \in Seq(Chars) /\ Len(v) = (n - b) + Len(rest) /\ \A i \in 1 .. n - b : v[i] = held[b + i]
    BY <2>1, UnreadIs
  <2>3. Len(rest) \in Nat
    OBVIOUS
  <2>. QED
    BY <1>w, <2>2, <2>3
<1>3. n - cp \in nuls /\ nuls \in SUBSET Nat /\ nuls # {}
  <2>1. n - cp \in 0 .. n - cp /\ (cp + (n - cp)) + 1 = n + 1
    BY <1>0
  <2>2. n - cp \in nuls
    BY <2>1, Zenon
  <2>3. \A i \in nuls : i \in Nat
    BY <1>0
  <2>. HIDE DEF nuls
  <2>. QED
    BY <2>2, <2>3
<1>4. q \in nuls /\ \A i \in nuls : q <= i
  BY <1>3, MinOfNats
<1>5. q \in 0 .. n - cp /\ held[(cp + q) + 1] = NUL /\ \A i \in 0 .. q - 1 : held[(cp + i) + 1] # NUL
  <2>1. q \in 0 .. n - cp /\ held[(cp + q) + 1] = NUL
    BY <1>4
  <2>2. ASSUME NEW i \in 0 .. q - 1, held[(cp + i) + 1] = NUL
        PROVE  FALSE
    <3>. HIDE DEF q
    <3>0. i \in 0 .. n - cp /\ ~(q <= i)
      BY <1>0, <2>1, <2>2
    <3>1. i \in nuls
      BY <2>2, <3>0
    <3>. QED
      BY <1>4, <3>0, <3>1
  <2>. QED
    BY <2>1, <2>2
<1>. HIDE DEF cs, nuls, q
<1>s. state = StateIn(u, d)
  OBVIOUS
<1>6. d \in 0 .. Len(u)
  BY <1>0, <1>2
<1>7. state \in 1 .. 20
  <2>1. StateIn(u, d) \in {1} \cup 4 .. 20
    BY <1>2, <1>6, StateInType
  <2>. QED
    BY <1>s, <2>1
<1>8. /\ path \in [0 .. (n + 2) - cp -> 1 .. 20] /\ path[0] = state
      /\ \A k \in 0 .. ((n + 2) - cp) - 1 : path[k + 1] = Transition(path[k], cs[k + 1])
  <2>1. /\ path \in [0 .. Len(cs) -> 1 .. 20] /\ path[0] = state
        /\ \A k \in 0 .. Len(cs) - 1 : path[k + 1] = Transition(path[k], cs[k + 1])
    <3>1. path = Path(state, cs)
      BY <1>w
    <3>2. cs \in Seq(Chars)
      BY <1>1
    <3>3. /\ Path(state, cs) \in [0 .. Len(cs) -> 1 .. 20] /\ Path(state, cs)[0] = state
          /\ \A k \in 0 .. Len(cs) - 1 :
               Path(state, cs)[k + 1] = Transition(Path(state, cs)[k], cs[k + 1])
      BY <1>7, <3>2, PathIs, Zenon
    <3>. QED
      BY <3>1, <3>3, Zenon
  <2>. QED
    BY <1>1, <2>1
<1>. DEFINE T == {k \in 0 .. q : path[k] = StateIn(u, d + k)}
<1>9. \A k \in 0 .. q : path[k] = StateIn(u, d + k)
  <2>0. q \in Nat
    BY <1>0, <1>5
  <2>1. 0 \in T
    BY <1>0, <1>8, <1>s, <2>0
  <2>2. ASSUME NEW k \in 0 .. q, k \in T, k < q
        PROVE  k + 1 \in T
    <3>1. /\ d + k \in 0 .. Len(u) /\ d + k < Len(u) /\ (d + k) + 1 = d + (k + 1)
          /\ k \in 0 .. ((n + 2) - cp) - 1 /\ k + 1 \in 1 .. (n + 2) - cp
          /\ (d + k) + 1 \in 1 .. n - b /\ b + ((d + k) + 1) = cp + (k + 1)
          /\ cp + (k + 1) = (cp + k) + 1 /\ k \in 0 .. q - 1 /\ k + 1 \in 0 .. q
      BY <1>0, <1>2, <1>5, <2>2
    <3>2. StateIn(u, (d + k) + 1) = Transition(StateIn(u, d + k), Shown(u[(d + k) + 1]))
      BY <1>2, <3>1, StateInType
    <3>3. u[(d + k) + 1] = held[(cp + k) + 1] /\ cs[k + 1] = held[(cp + k) + 1]
      <4>1. u[(d + k) + 1] = held[b + ((d + k) + 1)]
        BY <1>2, <3>1
      <4>2. cs[k + 1] = held[cp + (k + 1)]
        BY <1>1, <3>1
      <4>. QED
        BY <3>1, <4>1, <4>2
    <3>4. Shown(u[(d + k) + 1]) = cs[k + 1]
      BY <1>5, <3>1, <3>3 DEF Shown
    <3>5. path[k + 1] = Transition(path[k], cs[k + 1])
      BY <1>8, <3>1
    <3>. QED
      BY <2>2, <3>1, <3>2, <3>4, <3>5
  <2>3. \A k \in 0 .. q : k \in T
    <3>. HIDE DEF T
    <3>. QED
      BY <2>0, <2>1, <2>2, UpTo
  <2>. QED
    BY <2>3
<1>10. path[q + 1] = 3
  <2>1. q \in 0 .. ((n + 2) - cp) - 1 /\ q + 1 \in 1 .. (n + 2) - cp /\ cp + (q + 1) = (cp + q) + 1
        /\ q \in 0 .. q /\ d + q \in 0 .. Len(u)
    BY <1>0, <1>2, <1>5
  <2>2. cs[q + 1] = NUL
    BY <1>1, <1>5, <2>1
  <2>3. path[q] \in {1} \cup 4 .. 20
    <3>1. StateIn(u, d + q) \in {1} \cup 4 .. 20
      BY <1>2, <2>1, StateInType
    <3>. QED
      BY <1>9, <2>1, <3>1
  <2>4. path[q + 1] = Transition(path[q], NUL)
    BY <1>8, <2>1, <2>2
  <2>5. Single[NUL + 1] = 3
    BY DEF Single, NUL
  <2>6. Transition(1, NUL) = 3
    BY <2>5 DEF Transition
  <2>7. ASSUME NEW s \in 4 .. 20
        PROVE  Transition(s, NUL) = 3
    <3>1. NUL \notin Blank /\ NUL # ONE /\ NUL # LF /\ s \notin {1, 2, 3}
      BY DEF NUL, Blank, ONE, LF, SP, TAB
    <3>. QED
      BY <3>1 DEF Transition
  <2>. QED
    BY <2>3, <2>4, <2>6, <2>7
<1>11. path[q + 2] = Jam
  <2>1. q + 1 \in 0 .. ((n + 2) - cp) - 1 /\ (q + 1) + 1 = q + 2 /\ q + 2 \in 1 .. (n + 2) - cp
    BY <1>0, <1>5
  <2>2. path[q + 2] = Transition(3, cs[q + 2])
    BY <1>8, <1>10, <2>1
  <2>3. \A c \in 0 .. 13 : Transition(3, c) = Jam
    BY DEF Transition, Jam
  <2>4. cs[q + 2] \in 0 .. 13
    <3>1. cs[q + 2] \in Chars
      BY <1>1, <2>1, ElementOfSeq
    <3>. QED
      BY <3>1, CharsType
  <2>. QED
    BY <2>2, <2>3, <2>4
<1>12. \A k \in stops : k \in 1 .. (n + 2) - cp /\ path[k] \in {4, 8, 9, 10, 11, 12, 13, 14, 17, 19, 20}
  <2>1. ASSUME NEW k \in stops
        PROVE  k \in 1 .. (n + 2) - cp /\ path[k] \in {4, 8, 9, 10, 11, 12, 13, 14, 17, 19, 20}
    <3>1. k \in 0 .. (n + 2) - cp /\ k # 0 /\ Stops(path[k])
      BY <1>8 DEF Stops
    <3>2. path[k] \in 1 .. 20
      BY <1>8, <3>1
    <3>3. k \in 1 .. (n + 2) - cp
      BY <1>0, <3>1
    <3>. QED
      BY <3>1, <3>2, <3>3, StopStates
  <2>. QED
    BY <2>1
<1>13. q + 2 \in stops /\ q + 1 \notin stops
  <2>1. q + 2 \in 0 .. (n + 2) - cp /\ q + 2 # 0 /\ Stops(Jam)
    BY <1>0, <1>5, StopStates DEF Jam
  <2>2. q + 2 \in stops
    <3>1. DOMAIN path = 0 .. (n + 2) - cp
      BY <1>8
    <3>. QED
      BY <1>11, <2>1, <3>1 DEF Stops
  <2>3. q + 1 \in stops => path[q + 1] \in {4, 8, 9, 10, 11, 12, 13, 14, 17, 19, 20}
    <3>. HIDE DEF stops
    <3>. QED
      BY <1>12
  <2>. HIDE DEF stops
  <2>. QED
    BY <1>10, <2>2, <2>3
<1>14. m \in stops /\ \A k \in stops : m <= k
  <2>1. stops \in SUBSET Nat /\ stops # {}
    BY <1>0, <1>12, <1>13
  <2>. HIDE DEF stops
  <2>. QED
    BY <1>w, <2>1, MinOfNats
<1>n. ASSUME NEW k \in 1 .. m - 1, k <= q
      PROVE  ~Stops(StateIn(u, d + k))
  <2>1. k \notin stops /\ k \in 0 .. (n + 2) - cp /\ k # 0 /\ k \in 0 .. q
    <3>1. m \in 1 .. (n + 2) - cp
      BY <1>12, <1>14
    <3>2. k \in 0 .. (n + 2) - cp /\ k # 0 /\ k \in 0 .. q /\ ~(m <= k)
      BY <1>0, <1>5, <1>n, <3>1
    <3>. QED
      BY <1>14, <3>2
  <2>2. ~Stops(path[k])
    <3>1. k \in DOMAIN path \ {0}
      BY <1>8, <2>1
    <3>. QED
      BY <2>1, <3>1 DEF Stops
  <2>. QED
    BY <1>9, <2>1, <2>2
<1>. HIDE DEF stops
<1>15. m \in Nat /\ m > 0 /\ (m <= q \/ m = q + 2)
  <2>1. m \in 1 .. (n + 2) - cp /\ m <= q + 2 /\ m # q + 1
    BY <1>12, <1>13, <1>14
  <2>. QED
    BY <1>0, <1>5, <2>1
<1>16. CASE m <= q
  <2>1. m \in 1 .. n - cp /\ m \in 0 .. q /\ d + m \in 0 .. Len(u) /\ d + m > 0
    <3>1. q \in Nat /\ q <= n - cp /\ Len(u) = (n - b) + Len(rest) /\ Len(rest) \in Nat
      BY <1>2, <1>5
    <3>2. m \in 1 .. n - cp /\ m \in 0 .. q
      BY <1>0, <1>15, <1>16, <3>1
    <3>3. d + m <= n - b
      BY <1>0, <3>2
    <3>. QED
      BY <1>0, <3>1, <3>2, <3>3
  <2>2. \A k \in 0 .. m : path[k] = StateIn(u, d + k)
    BY <1>5, <1>9, <1>15, <1>16
  <2>3. StateIn(u, d + m) \in {4, 8, 9, 10, 11, 12, 13, 14, 17, 19, 20}
    <3>1. path[m] \in {4, 8, 9, 10, 11, 12, 13, 14, 17, 19, 20}
      BY <1>12, <1>14
    <3>2. path[m] = StateIn(u, d + m)
      BY <2>1, <2>2
    <3>. QED
      BY <3>1, <3>2
  <2>4. ASSUME NEW j \in d + m + 1 .. Len(u)
        PROVE  StateIn(u, j) = Jam
    <3>1. /\ d + m < Len(u) /\ (d + m) + 1 \in 0 .. Len(u) /\ (d + m) + 1 > 0 /\ (d + m) + 1 \in 1 .. Len(u)
          /\ j \in (d + m) + 1 .. Len(u)
      BY <1>0, <1>2, <2>1, <2>4
    <3>2. StateIn(u, (d + m) + 1) = Transition(StateIn(u, d + m), Shown(u[(d + m) + 1]))
      BY <1>2, <2>1, <3>1, StateInType
    <3>3. Shown(u[(d + m) + 1]) \in 1 .. 13
      <4>1. u[(d + m) + 1] \in 0 .. 13
        <5>1. u[(d + m) + 1] \in Chars
          BY <1>2, <3>1, ElementOfSeq
        <5>. QED
          BY <5>1, CharsType
      <4>2. \A c \in 0 .. 13 : Shown(c) \in 1 .. 13
        BY DEF Shown, NUL, CTL
      <4>. QED
        BY <4>1, <4>2
    <3>4. StateIn(u, (d + m) + 1) = Jam
      <4>1. StateIn(u, d + m) \in 1 .. 20 /\ Stops(StateIn(u, d + m))
        <5>1. StateIn(u, d + m) \in 1 .. 20
          BY <2>3
        <5>. QED
          BY <2>3, <5>1, StopStates
      <4>. QED
        BY <3>2, <3>3, <4>1, StopStates
    <3>5. \A i \in (d + m) + 1 .. Len(u) : StateIn(u, i) = Jam
      <4>1. u \in Seq(Chars)
        BY <1>2
      <4>. HIDE DEF q
      <4>. QED
        BY <3>1, <3>4, <4>1, StateInType
    <3>. QED
      BY <3>1, <3>5
  <2>5. \A k \in 1 .. m - 1 : ~Stops(StateIn(u, d + k))
    <3>1. \A k \in 1 .. m - 1 : k <= q
      BY <1>5, <1>15, <1>16
    <3>. QED
      BY <1>n, <3>1
  <2>. QED
    BY <2>1, <2>2, <2>4, <2>5 DEF MatchEnds
<1>17. CASE m = q + 2
  <2>0. \A k \in 1 .. q : ~Stops(StateIn(u, d + k))
    <3>1. \A k \in 1 .. q : k \in 1 .. m - 1 /\ k <= q
      BY <1>5, <1>15, <1>17
    <3>. QED
      BY <1>n, <3>1
  <2>1. StateIn(u, d + q) \notin Ended
    <3>1. CASE q = 0
      BY <1>0, <1>s, <3>1
    <3>2. CASE q # 0
      <4>1. q \in 1 .. q
        BY <1>5, <3>2
      <4>2. Stops(Jam) /\ Stops(17)
        BY StopStates DEF Jam
      <4>. QED
        BY <2>0, <4>1, <4>2 DEF Ended
    <3>. QED
      BY <3>1, <3>2
  <2>2. m = q + 2 /\ held[(cp + q) + 1] = NUL /\ path[q + 1] = 3 /\ path[q + 2] = Jam
    BY <1>5, <1>10, <1>11, <1>17
  <2>3. \E i \in 0 .. n - cp :
          /\ m = i + 2 /\ held[(cp + i) + 1] = NUL /\ StateIn(u, d + i) \notin Ended
          /\ path[i + 1] = 3 /\ path[i + 2] = Jam
          /\ \A k \in 1 .. i : ~Stops(StateIn(u, d + k))
    BY <1>5, <2>0, <2>1, <2>2
  <2>. QED
    BY <2>3 DEF MatchEnds
<1>. QED
  BY <1>15, <1>16, <1>17

Rest == SubSeq(parsing_buf, parsing_offset + 1, Len(parsing_buf))

\* The buffer with the character that is held back is like the buffer, and what is
\* unread begins in it.
LEMMA HeldType ==
  ASSUME LexTypeOK
  PROVE  /\ Held \in Seq(Chars) /\ Len(Held) = yy_n_chars + 2
         /\ HoldBack \in Seq(Chars) /\ Len(HoldBack) = yy_n_chars + 2
         /\ \A i \in 1 .. yy_n_chars + 2 : i # yy_c_buf_p + 1 => HoldBack[i] = yy_ch_buf[i]
         /\ HoldBack[yy_c_buf_p + 1] = yy_hold_char
         /\ Rest \in Seq(Chars) /\ Len(Rest) = Len(parsing_buf) - parsing_offset
<1>1. yy_c_buf_p + 1 \in 1 .. Len(yy_ch_buf)
  BY DEF LexTypeOK
<1>2. /\ HoldBack \in Seq(Chars) /\ Len(HoldBack) = Len(yy_ch_buf)
      /\ \A i \in 1 .. Len(yy_ch_buf) :
           HoldBack[i] = IF i = yy_c_buf_p + 1 THEN yy_hold_char ELSE yy_ch_buf[i]
  BY <1>1, ExceptSeq DEF LexTypeOK, HoldBack, Put
<1>3. Rest \in Seq(Chars) /\ Len(Rest) = Len(parsing_buf) - parsing_offset
  <2>1. parsing_offset \in Nat /\ Len(parsing_buf) \in parsing_offset .. Len(parsing_buf)
    BY DEF LexTypeOK
  <2>2. parsing_buf \in Seq(Chars)
    BY DEF LexTypeOK
  <2>. QED
    BY <2>1, <2>2, SubSeqType DEF Rest
<1>4. yy_ch_buf \in Seq(Chars) /\ Len(yy_ch_buf) = yy_n_chars + 2 /\ yy_n_chars \in Nat
      /\ yy_c_buf_p \in Nat
  BY DEF LexTypeOK
<1>5. Held = HoldBack \/ Held = yy_ch_buf
  BY DEF Held
<1>6. /\ HoldBack \in Seq(Chars) /\ Len(HoldBack) = yy_n_chars + 2
      /\ \A i \in 1 .. yy_n_chars + 2 : i # yy_c_buf_p + 1 => HoldBack[i] = yy_ch_buf[i]
      /\ HoldBack[yy_c_buf_p + 1] = yy_hold_char
  BY <1>1, <1>2, <1>4
<1>7. Held \in Seq(Chars) /\ Len(Held) = yy_n_chars + 2
  BY <1>4, <1>5, <1>6
<1>. QED
  BY <1>3, <1>6, <1>7

\* What is unread begins in the buffer.
LEMMA FromType ==
  ASSUME LexIInv
  PROVE  From \in 0 .. yy_n_chars
<1>1. yy_n_chars \in Nat /\ yytext_ptr \in Nat /\ yy_c_buf_p \in yytext_ptr .. yy_n_chars + 1
      /\ yylex.pc \in {"loop", "match", "find", "act", "out"} /\ yylex.bp \in Nat
  BY DEF LexIInv, LexTypeOK
<1>2. CASE yylex.pc \in {"loop", "out"}
  BY <1>1, <1>2 DEF LexIInv, AtHead, From
<1>3. CASE yylex.pc = "match"
  BY <1>1, <1>3 DEF LexIInv, AtMatch, From, LexTypeOK
<1>4. CASE yylex.pc = "find"
  <2>1. CASE Found
    BY <1>1, <1>4, <2>1 DEF LexIInv, Found, From, LexTypeOK
  <2>2. CASE HitNul
    BY <1>1, <1>4, <2>2 DEF LexIInv, HitNul, NulIn, From, LexTypeOK
  <2>. QED
    BY <1>4, <2>1, <2>2 DEF LexIInv, AtFind
<1>5. CASE yylex.pc = "act"
  <2>1. CASE yylex.act # EndOfBuffer
    BY <1>1, <1>5, <2>1 DEF LexIInv, AtLexeme, From, LexTypeOK
  <2>2. CASE yylex.act = EndOfBuffer
    BY <1>1, <1>5, <2>2 DEF LexIInv, AtNul, AtEndOfBuffer, From, LexTypeOK
  <2>. QED
    BY <2>1, <2>2
<1>. QED
  BY <1>1, <1>2, <1>3, <1>4, <1>5

\* What is unread is the buffer's content from there and the rest of the input.
LEMMA UnreadType ==
  ASSUME LexIInv
  PROVE  /\ Unread = SubSeq(Held, From + 1, yy_n_chars) \o Rest
         /\ Unread \in Seq(Chars) /\ Len(Unread) = (yy_n_chars - From) + Len(Rest)
         /\ \A i \in 1 .. yy_n_chars - From : Unread[i] = Held[From + i]
         /\ \A k \in 0 .. yy_n_chars - From : SubSeq(Unread, 1, k) = SubSeq(Held, From + 1, From + k)
<1>1. LexTypeOK
  BY DEF LexIInv
<1>2. Unread = SubSeq(Held, From + 1, yy_n_chars) \o Rest
  BY DEF Unread, InBuffer, Rest
<1>3. /\ Held \in Seq(Chars) /\ Rest \in Seq(Chars)
      /\ yy_n_chars \in 0 .. Len(Held) /\ From \in 0 .. yy_n_chars
  <2>1. Len(Held) = yy_n_chars + 2 /\ yy_n_chars \in Nat
    BY <1>1, HeldType DEF LexTypeOK
  <2>. QED
    BY <1>1, <2>1, HeldType, FromType
<1>4. LET u == SubSeq(Held, From + 1, yy_n_chars) \o Rest IN
         /\ u \in Seq(Chars) /\ Len(u) = (yy_n_chars - From) + Len(Rest)
         /\ \A i \in 1 .. yy_n_chars - From : u[i] = Held[From + i]
         /\ \A k \in 0 .. yy_n_chars - From : SubSeq(u, 1, k) = SubSeq(Held, From + 1, From + k)
  BY <1>3, UnreadIs
<1>. QED
  BY <1>2, <1>4

\* The head of the loop begins a lexeme where the one before ended.
LEMMA LoopHeadStep ==
  ASSUME LexIInv, LoopHead
  PROVE  LexIInv' /\ Unread' = Unread
<1>t. LexTypeOK /\ yylex.pc = "loop" /\ AtHead /\ yy_c_buf_p <= yy_n_chars
  BY DEF LexIInv, LoopHead, AtHead
<1>1. /\ yy_ch_buf' = HoldBack /\ yylex' = Local("match", Start, yy_c_buf_p, yy_c_buf_p, 0)
      /\ UNCHANGED <<input, yy_buf_size, yy_buffer_status, yy_n_chars, pointers, yy_last_accepting>>
  BY DEF LoopHead
<1>2. yylex' = [pc |-> "match", state |-> 1, bp |-> yy_c_buf_p, cp |-> yy_c_buf_p, act |-> 0]
  BY <1>1 DEF Local, Start
<1>3. Held' = Held /\ From' = From
  BY <1>t, <1>1, <1>2 DEF Held, From
<1>4. Unread' = Unread
  BY <1>1, <1>3 DEF Unread, InBuffer, input
<1>5. Held \in Seq(Chars) /\ Len(Held) = yy_n_chars + 2 /\ Held = HoldBack
  BY <1>t, HeldType DEF Held
<1>6. LexTypeOK'
  <2>1. /\ yy_ch_buf' \in Seq(Chars) /\ Len(yy_ch_buf') = yy_n_chars' + 2
    BY <1>1, <1>5
  <2>2. yylex' \in [pc : {"loop", "match", "find", "act", "out"}, state : 0 .. 20, bp : Nat,
                    cp : Nat, act : 0 .. EndOfBuffer]
    BY <1>t, <1>2 DEF LexTypeOK, EndOfBuffer
  <2>. QED
    BY <1>t, <1>1, <1>3, <2>1, <2>2 DEF LexTypeOK, input, pointers
<1>7. AtMatch'
  <2>1. yylex'.cp - yylex'.bp = 0
    BY <1>t, <1>2 DEF LexTypeOK
  <2>2. StateIn(Unread, 0) = 1
    <3>1. Unread \in Seq(Chars) /\ 0 \in 0 .. Len(Unread)
      BY UnreadType
    <3>. QED
      BY <3>1, StateInType
  <2>3. Pending' => Ones(Held', yylex'.bp, yy_n_chars')
    BY <1>t, <1>1, <1>2, <1>3 DEF AtHead, Pending
  <2>. QED
    BY <1>t, <1>1, <1>2, <1>4, <2>1, <2>2, <2>3 DEF AtMatch, LexTypeOK, Ended, Jam
<1>8. yylex'.pc = "match"
  BY <1>2
<1>9. LexIInv'
  BY <1>6, <1>7, <1>8 DEF LexIInv, AtHead, AtMatch, AtFind, AtLexeme, AtNul, AtEndOfBuffer
<1>. QED
  BY <1>4, <1>9

\* The accepting states of the automaton.
LEMMA AcceptFacts ==
  /\ Accepts(Jam) = 0 /\ Accepts(3) = 13 /\ Accepts(1) # 0
  /\ \A s \in 0 .. 20 : Accepts(s) \in 0 .. 13
  /\ \A s \in {1} \cup 4 .. 20 : Accepts(s) = 0 => s \in {16, 20}
BY DEF Accepts, dfa, Jam

\* The automaton stops behind a one.
LEMMA OneStops ==
  ASSUME NEW u \in Seq(Chars), Len(u) > 0, u[1] = ONE
  PROVE  Stops(StateIn(u, 1)) /\ Accepting(u, 1)
<1>1. 0 \in 0 .. Len(u) /\ 0 < Len(u) /\ 0 + 1 = 1 /\ 1 \in 0 .. Len(u)
  OBVIOUS
<1>2. StateIn(u, 0) = 1 /\ StateIn(u, 0 + 1) = Transition(StateIn(u, 0), Shown(u[0 + 1]))
  BY <1>1, StateInType
<1>3. Accepting(u, 1)
  BY <1>1, StateInType
<1>4. StateIn(u, 1) = Transition(1, Shown(ONE))
  BY <1>1, <1>2
<1>5. Transition(1, Shown(ONE)) = 12
  BY DEF Transition, Shown, ONE, NUL, CTL, Single
<1>6. Stops(12)
  BY DEF Stops, dfa, JamBase
<1>. QED
  BY <1>3, <1>4, <1>5, <1>6

\* The last accepting state in front of the d + m-th, from that in front of the d-th.
LEMMA LastOn ==
  ASSUME NEW u \in Seq(Chars), NEW b \in Nat, NEW d \in Nat, NEW m \in Nat, m > 0,
         d > 0 => LastIn(u, d, b, yy_last_accepting),
         NEW path, \A k \in 0 .. m - 1 : path[k] = StateIn(u, d + k)
  PROVE  LastIn(u, d + m, b, LastAccepting(path, m, b + d))
<1>. DEFINE last == LastAccepting(path, m, b + d)
<1>0. b + d \in Nat
  OBVIOUS
<1>1. CASE /\ \A k \in 0 .. m - 1 : Accepts(path[k]) = 0
           /\ LastAccepting(path, m, b + d) = yy_last_accepting
  <2>1. d > 0
    <3>1. ASSUME d = 0
          PROVE  FALSE
      <4>1. 0 \in 0 .. Len(u) /\ 0 \in 0 .. m - 1 /\ d + 0 = 0
        BY <3>1
      <4>2. Accepting(u, 0)
        BY <4>1, StateInType
      <4>3. path[0] = StateIn(u, 0)
        BY <4>1
      <4>. QED
        BY <1>1, <4>1, <4>2, <4>3 DEF Accepting
    <3>. QED
      BY <3>1
  <2>2. PICK k \in 0 .. d - 1 :
          /\ Accepting(u, k) /\ \A j \in k + 1 .. d - 1 : ~Accepting(u, j)
          /\ yy_last_accepting = [state |-> StateIn(u, k), cpos |-> b + k]
    BY <2>1 DEF LastIn
  <2>3. ASSUME NEW j \in k + 1 .. (d + m) - 1
        PROVE  ~Accepting(u, j)
    <3>1. CASE j < d
      <4>1. j \in k + 1 .. d - 1
        BY <3>1
      <4>. QED
        BY <2>2, <4>1
    <3>2. CASE j >= d
      <4>1. j - d \in 0 .. m - 1 /\ d + (j - d) = j
        BY <3>2
      <4>2. path[j - d] = StateIn(u, j)
        BY <4>1
      <4>. QED
        BY <1>1, <4>1, <4>2 DEF Accepting
    <3>. QED
      BY <3>1, <3>2
  <2>4. k \in 0 .. (d + m) - 1
    OBVIOUS
  <2>. QED
    BY <1>1, <2>2, <2>3, <2>4 DEF LastIn
<1>2. ASSUME NEW k \in 0 .. m - 1,
             Accepts(path[k]) # 0, \A j \in k + 1 .. m - 1 : Accepts(path[j]) = 0,
             LastAccepting(path, m, b + d) = [state |-> path[k], cpos |-> (b + d) + k]
      PROVE  LastIn(u, d + m, b, last)
  <2>1. path[k] = StateIn(u, d + k) /\ d + k \in 0 .. (d + m) - 1 /\ b + (d + k) = (b + d) + k
    OBVIOUS
  <2>2. ASSUME NEW j \in (d + k) + 1 .. (d + m) - 1
        PROVE  ~Accepting(u, j)
    <3>1. j - d \in k + 1 .. m - 1 /\ d + (j - d) = j /\ j - d \in 0 .. m - 1
      OBVIOUS
    <3>2. path[j - d] = StateIn(u, j)
      BY <3>1
    <3>. QED
      BY <1>2, <3>1, <3>2 DEF Accepting
  <2>3. Accepting(u, d + k)
    BY <1>2, <2>1 DEF Accepting
  <2>4. last = [state |-> StateIn(u, d + k), cpos |-> b + (d + k)]
    BY <1>2, <2>1
  <2>. HIDE DEF last
  <2>. QED
    BY <2>1, <2>2, <2>3, <2>4 DEF LastIn
<1>. QED
  BY <1>0, <1>1, <1>2, LastAcceptingIs

\* A last accepting state is a state, at a position.
LEMMA LastInType ==
  ASSUME NEW u \in Seq(Chars), NEW b \in Nat, NEW d \in 0 .. Len(u) + 1, NEW last, LastIn(u, d, b, last)
  PROVE  last \in [state : 0 .. 20, cpos : Nat]
<1>1. PICK k \in 0 .. d - 1 : last = [state |-> StateIn(u, k), cpos |-> b + k]
  BY DEF LastIn
<1>2. k \in 0 .. Len(u) /\ b + k \in Nat
  OBVIOUS
<1>3. StateIn(u, k) \in {1} \cup 4 .. 20
  BY <1>2, StateInType
<1>. QED
  BY <1>1, <1>2, <1>3

\* yy_match goes on over what is unread, and reads none of it away.
LEMMA MatchStep ==
  ASSUME LexIInv, Match
  PROVE  LexIInv' /\ Unread' = Unread
<1>. DEFINE path == Path(yylex.state, Text(yylex.cp, Len(yy_ch_buf)))
            m == Min({k \in DOMAIN path \ {0} : dfa.yy_base[path[k] + 1] = JamBase})
            n == yy_n_chars
            b == yylex.bp
            cp == yylex.cp
            d == cp - b
            u == Unread
<1>t. LexTypeOK /\ yylex.pc = "match" /\ AtMatch
  BY DEF LexIInv, Match
<1>1. /\ yy_last_accepting' = LastAccepting(path, m, cp)
      /\ yylex' = Local("find", path[m], b, cp + m, 0)
      /\ UNCHANGED <<input, buffer, pointers>>
  BY DEF Match
<1>p. path = Path(yylex.state, SubSeq(yy_ch_buf, cp + 1, Len(yy_ch_buf)))
      /\ m = Min({k \in DOMAIN path \ {0} : dfa.yy_base[path[k] + 1] = JamBase})
  BY DEF Text
<1>. HIDE DEF path, m
<1>2. yylex' = [pc |-> "find", state |-> path[m], bp |-> b, cp |-> cp + m, act |-> 0]
  BY <1>1 DEF Local
<1>3. Held = yy_ch_buf /\ From = b /\ Held' = Held /\ From' = From /\ yy_n_chars' = n
  BY <1>t, <1>1, <1>2 DEF Held, From, buffer
<1>4. Unread' = u
  BY <1>1, <1>3 DEF Unread, InBuffer, input
<1>5. /\ Held \in Seq(Chars) /\ n \in Nat /\ Len(Held) = n + 2 /\ Held[n + 1] = NUL
      /\ b \in 0 .. n /\ cp \in b .. n /\ d \in Nat /\ b + d = cp /\ cp - b = d
      /\ yylex.state = StateIn(u, d) /\ yylex.state \notin Ended
      /\ d > 0 => LastIn(u, d, b, yy_last_accepting)
      /\ Pending => d = 0 /\ Ones(Held, b, n)
  <2>1. Held \in Seq(Chars) /\ Len(Held) = n + 2
    BY <1>t, HeldType
  <2>2. n \in Nat /\ Held[n + 1] = NUL /\ b \in Nat /\ cp \in Nat
    BY <1>t DEF LexTypeOK
  <2>3. b <= cp /\ cp <= n
    BY <1>t DEF AtMatch
  <2>4. /\ yylex.state = StateIn(u, d) /\ yylex.state \notin Ended
        /\ d > 0 => LastIn(u, d, b, yy_last_accepting)
        /\ Pending => d = 0 /\ Ones(Held, b, n)
    BY <1>t DEF AtMatch
  <2>5. b \in 0 .. n /\ cp \in b .. n /\ d \in Nat /\ b + d = cp
    BY <2>2, <2>3
  <2>. QED
    BY <2>1, <2>2, <2>4, <2>5
<1>6. /\ u = SubSeq(Held, b + 1, n) \o Rest /\ u \in Seq(Chars) /\ Rest \in Seq(Chars)
      /\ Len(u) = (n - b) + Len(Rest) /\ Len(Rest) \in Nat
      /\ \A i \in 1 .. n - b : u[i] = Held[b + i]
  <2>0. /\ Unread = SubSeq(Held, From + 1, yy_n_chars) \o Rest
        /\ Unread \in Seq(Chars) /\ Len(Unread) = (yy_n_chars - From) + Len(Rest)
        /\ \A i \in 1 .. yy_n_chars - From : Unread[i] = Held[From + i]
    BY UnreadType
  <2>f. From = b
    BY <1>3
  <2>. HIDE DEF b
  <2>1. /\ u = SubSeq(Held, b + 1, n) \o Rest /\ u \in Seq(Chars)
        /\ Len(u) = (n - b) + Len(Rest) /\ \A i \in 1 .. n - b : u[i] = Held[b + i]
    <3>. DEFINE P(x) == /\ Unread = SubSeq(Held, x + 1, yy_n_chars) \o Rest
                        /\ Unread \in Seq(Chars) /\ Len(Unread) = (yy_n_chars - x) + Len(Rest)
                        /\ \A i \in 1 .. yy_n_chars - x : Unread[i] = Held[x + i]
    <3>1. P(From)
      BY <2>0
    <3>2. P(b)
      <4>. HIDE DEF P
      <4>. QED
        BY <2>f, <3>1
    <3>. QED
      BY <3>2
  <2>2. Rest \in Seq(Chars) /\ Len(Rest) \in Nat
    <3>1. Rest \in Seq(Chars)
      BY <1>t, HeldType
    <3>. QED
      BY <3>1
  <2>. HIDE DEF u, n
  <2>. QED
    BY <2>1, <2>2
<1>. HIDE DEF n, b, cp, d, u
<1>7. MatchEnds(Held, n, cp, d, u, path, m)
  <2>1. path = Path(yylex.state, SubSeq(Held, cp + 1, Len(Held)))
    BY <1>3, <1>p
  <2>2. n = Len(Held) - 2
    BY <1>5
  <2>3. Walk(Held, b, cp, Rest, u, yylex.state, path, m)
    BY <1>6, <1>p, <2>1, <2>2 DEF Walk
  <2>. QED
    BY <1>5, <1>6, <2>3, MatchIs
<1>8. Pending' = Pending
  BY <1>1 DEF Pending, buffer
<1>9. ASSUME /\ m \in 1 .. n - cp
             /\ \A k \in 0 .. m : path[k] = StateIn(u, d + k)
             /\ \A k \in 1 .. m - 1 : ~Stops(StateIn(u, d + k))
             /\ \A j \in d + m + 1 .. Len(u) : StateIn(u, j) = Jam
      PROVE  Found' /\ path[m] \in 0 .. 20 /\ yy_last_accepting' \in [state : 0 .. 20, cpos : Nat]
  <2>0. m \in Nat /\ m > 0 /\ cp \in Nat /\ b \in Nat /\ d + m \in 0 .. Len(u) /\ b < cp + m
        /\ cp + m <= n /\ (cp + m) - b = d + m /\ m \in 0 .. m
    <3>1. n \in Nat /\ b \in Nat /\ cp \in Nat /\ b <= cp /\ cp <= n /\ d = cp - b
      BY <1>5
    <3>2. m \in Nat /\ m > 0 /\ cp + m <= n
      BY <1>9, <3>1
    <3>3. Len(u) = (n - b) + Len(Rest) /\ Len(Rest) \in Nat
      BY <1>6
    <3>. QED
      BY <3>1, <3>2, <3>3
  <2>1. path[m] = StateIn(u, d + m) /\ path[m] \in 0 .. 20
    <3>1. path[m] = StateIn(u, d + m)
      BY <1>9, <2>0
    <3>2. StateIn(u, d + m) \in {1} \cup 4 .. 20
      BY <1>6, <2>0, StateInType
    <3>. QED
      BY <3>1, <3>2
  <2>2. Longest(u, d + m)
    BY <1>9, AcceptFacts DEF Longest, Accepting
  <2>3. LastIn(u, d + m, b, yy_last_accepting')
    <3>1. \A k \in 0 .. m - 1 : path[k] = StateIn(u, d + k)
      BY <1>9, <2>0
    <3>. QED
      BY <1>1, <1>5, <1>6, <2>0, <3>1, LastOn
  <2>4. ASSUME Pending
        PROVE  Accepts(path[m]) # 0 /\ Ones(Held, cp + m, n)
    <3>1. d = 0 /\ Ones(Held, b, n) /\ cp = b
      BY <1>5, <2>4
    <3>2. 1 \in 1 .. n - b /\ b + 1 \in b + 1 .. n /\ Len(u) > 0
      <4>1. b < n /\ n \in Nat /\ b \in Nat
        BY <1>5, <2>0, <3>1
      <4>2. Len(u) = (n - b) + Len(Rest) /\ Len(Rest) \in Nat
        BY <1>6
      <4>. QED
        BY <4>1, <4>2
    <3>3. u[1] = ONE
      BY <1>6, <3>1, <3>2 DEF Ones
    <3>4. Stops(StateIn(u, 1)) /\ Accepting(u, 1)
      BY <1>6, <3>2, <3>3, OneStops
    <3>5. m = 1
      <4>1. ASSUME m # 1
            PROVE  FALSE
        <5>1. 1 \in 1 .. m - 1 /\ d + 1 = 1
          BY <2>0, <3>1, <4>1
        <5>. QED
          BY <1>9, <3>4, <5>1
      <4>. QED
        BY <4>1
    <3>6. Accepts(path[m]) # 0
      BY <2>1, <3>1, <3>4, <3>5 DEF Accepting
    <3>7. Ones(Held, cp + m, n)
      BY <1>5, <2>0, <3>1 DEF Ones
    <3>. QED
      BY <3>6, <3>7
  <2>5. Found'
    <3>1. yylex'.cp - yylex'.bp = d + m /\ yylex'.bp < yylex'.cp /\ yylex'.cp <= yy_n_chars'
          /\ yylex'.state = path[m] /\ yylex'.bp = b /\ yylex'.cp = cp + m
      BY <1>2, <1>3, <2>0
    <3>. QED
      BY <1>3, <1>4, <1>8, <2>1, <2>2, <2>3, <2>4, <3>1 DEF Found
  <2>6. yy_last_accepting' \in [state : 0 .. 20, cpos : Nat]
    <3>1. d + m \in 0 .. Len(u) + 1
      BY <1>6, <2>0
    <3>. QED
      BY <1>6, <2>0, <2>3, <3>1, LastInType
  <2>. QED
    BY <2>1, <2>5, <2>6
<1>10. ASSUME NEW q \in 0 .. n - cp,
              m = q + 2, Held[(cp + q) + 1] = NUL, StateIn(u, d + q) \notin Ended,
              path[q + 1] = 3, path[q + 2] = Jam,
              \A k \in 1 .. q : ~Stops(StateIn(u, d + k))
       PROVE  HitNul' /\ path[m] \in 0 .. 20 /\ yy_last_accepting' \in [state : 0 .. 20, cpos : Nat]
  <2>0. /\ q \in Nat /\ m - 1 = q + 1 /\ q + 1 \in 0 .. m - 1 /\ m \in Nat /\ q <= n - cp /\ cp \in Nat
        /\ cp + q \in b .. n /\ (cp + q) - b = d + q /\ (cp + (q + 1)) - 1 = cp + q
    <3>1. n \in Nat /\ b \in Nat /\ cp \in Nat /\ b <= cp /\ cp <= n /\ d = cp - b
      BY <1>5
    <3>2. q \in Nat /\ q <= n - cp
      BY <3>1
    <3>3. m = q + 2
      BY <1>10
    <3>. QED
      BY <3>1, <3>2, <3>3
  <2>1. yy_last_accepting' = [state |-> 3, cpos |-> cp + (q + 1)]
    <3>1. Accepts(path[q + 1]) # 0
      BY <1>10, AcceptFacts
    <3>2. PICK k \in 0 .. m - 1 :
            /\ Accepts(path[k]) # 0 /\ \A j \in k + 1 .. m - 1 : Accepts(path[j]) = 0
            /\ LastAccepting(path, m, cp) = [state |-> path[k], cpos |-> cp + k]
      <4>1. \/ /\ \A k \in 0 .. m - 1 : Accepts(path[k]) = 0
               /\ LastAccepting(path, m, cp) = yy_last_accepting
            \/ \E k \in 0 .. m - 1 :
                 /\ Accepts(path[k]) # 0 /\ \A j \in k + 1 .. m - 1 : Accepts(path[j]) = 0
                 /\ LastAccepting(path, m, cp) = [state |-> path[k], cpos |-> cp + k]
        <5>1. m \in Nat /\ cp \in Nat
          BY <2>0
        <5>. QED
          BY <5>1, LastAcceptingIs, Zenon
      <4>. QED
        BY <2>0, <3>1, <4>1
    <3>3. k = q + 1
      <4>1. ASSUME k # q + 1
            PROVE  FALSE
        <5>1. q + 1 \in k + 1 .. m - 1
          BY <2>0, <4>1
        <5>. QED
          BY <3>1, <3>2, <5>1
      <4>. QED
        BY <4>1
    <3>. QED
      BY <1>1, <1>10, <3>2, <3>3
  <2>2. ASSUME Pending
        PROVE  b = n
    <3>1. d = 0 /\ Ones(Held, b, n) /\ cp = b
      BY <1>5, <2>2
    <3>2. CASE b < n
      <4>1. 1 \in 1 .. n - b /\ b + 1 \in b + 1 .. n /\ Len(u) > 0
        BY <1>5, <1>6, <3>2
      <4>2. u[1] = ONE
        BY <1>6, <3>1, <4>1 DEF Ones
      <4>3. Stops(StateIn(u, 1))
        BY <1>6, <4>1, <4>2, OneStops
      <4>4. q = 0
        <5>1. ASSUME q # 0
              PROVE  FALSE
          <6>1. 1 \in 1 .. q /\ d + 1 = 1
            BY <2>0, <3>1, <5>1
          <6>. QED
            BY <1>10, <4>3, <6>1
        <5>. QED
          BY <5>1
      <4>5. Held[b + 1] = NUL
        <5>1. (cp + q) + 1 = b + 1
          BY <1>5, <3>1, <4>4
        <5>. QED
          BY <1>10, <5>1
      <4>. QED
        BY <3>1, <4>1, <4>5 DEF Ones, ONE, NUL
    <3>. QED
      BY <1>5, <3>2
  <2>3. HitNul'
    <3>1. NulIn(u, Held, b, n, cp + q)
      BY <1>10, <2>0 DEF NulIn
    <3>2. yy_last_accepting'.cpos - 1 = cp + q /\ yy_last_accepting'.state = 3
      BY <2>0, <2>1
    <3>3. yylex'.state = Jam /\ yylex'.bp = b
      BY <1>2, <1>10
    <3>. QED
      BY <1>3, <1>4, <1>8, <2>2, <3>1, <3>2, <3>3 DEF HitNul
  <2>. QED
    BY <1>10, <2>0, <2>1, <2>3 DEF Jam
<1>11. (Found' \/ HitNul') /\ path[m] \in 0 .. 20 /\ m \in Nat
       /\ yy_last_accepting' \in [state : 0 .. 20, cpos : Nat]
  <2>1. CASE /\ m \in 1 .. n - cp
             /\ \A k \in 0 .. m : path[k] = StateIn(u, d + k)
             /\ \A k \in 1 .. m - 1 : ~Stops(StateIn(u, d + k))
             /\ \A j \in d + m + 1 .. Len(u) : StateIn(u, j) = Jam
    BY <1>9, <2>1
  <2>2. ASSUME NEW q \in 0 .. n - cp,
               m = q + 2, Held[(cp + q) + 1] = NUL, StateIn(u, d + q) \notin Ended,
               path[q + 1] = 3, path[q + 2] = Jam,
               \A k \in 1 .. q : ~Stops(StateIn(u, d + k))
        PROVE  (Found' \/ HitNul') /\ path[m] \in 0 .. 20 /\ m \in Nat
               /\ yy_last_accepting' \in [state : 0 .. 20, cpos : Nat]
    BY <1>10, <2>2
  <2>. QED
    BY <1>7, <2>1, <2>2 DEF MatchEnds
<1>12. LexTypeOK'
  <2>1. yylex' \in [pc : {"loop", "match", "find", "act", "out"}, state : 0 .. 20, bp : Nat,
                    cp : Nat, act : 0 .. EndOfBuffer]
    BY <1>2, <1>5, <1>11 DEF EndOfBuffer
  <2>. QED
    BY <1>t, <1>1, <1>3, <1>11, <2>1 DEF LexTypeOK, input, buffer, pointers
<1>13. yylex'.pc = "find"
  BY <1>2
<1>14. LexIInv'
  BY <1>11, <1>12, <1>13 DEF LexIInv, AtHead, AtMatch, AtFind, AtLexeme, AtNul, AtEndOfBuffer
<1>. QED
  BY <1>4, <1>14 DEF u

\* A state in front of which the last accepting one is the k-th: with more than no
\* character, and nothing longer.
LEMMA BackTo ==
  ASSUME NEW u \in Seq(Chars), NEW b \in Nat, NEW d \in 1 .. Len(u), NEW last,
         LastIn(u, d, b, last), ~Accepting(u, d), Longest(u, d)
  PROVE  \E k \in 1 .. d - 1 : /\ Accepting(u, k) /\ Longest(u, k)
                               /\ last = [state |-> StateIn(u, k), cpos |-> b + k]
<1>1. PICK k \in 0 .. d - 1 :
        /\ Accepting(u, k) /\ \A j \in k + 1 .. d - 1 : ~Accepting(u, j)
        /\ last = [state |-> StateIn(u, k), cpos |-> b + k]
  BY DEF LastIn
<1>2. Accepting(u, 1)
  <2>1. 1 \in 0 .. Len(u)
    OBVIOUS
  <2>. QED
    BY <2>1, StateInType
<1>3. k # 0
  <2>1. ASSUME k = 0
        PROVE  FALSE
    <3>1. CASE d = 1
      BY <1>2, <3>1
    <3>2. CASE d # 1
      <4>1. 1 \in k + 1 .. d - 1
        BY <2>1, <3>2
      <4>. QED
        BY <1>1, <1>2, <4>1
    <3>. QED
      BY <3>1, <3>2
  <2>. QED
    BY <2>1
<1>4. ASSUME NEW j \in k + 1 .. Len(u)
      PROVE  ~Accepting(u, j)
  <2>1. CASE j < d
    <3>1. j \in k + 1 .. d - 1
      BY <2>1
    <3>. QED
      BY <1>1, <3>1
  <2>2. CASE j = d
    BY <2>2
  <2>3. CASE j > d
    <3>1. j \in d + 1 .. Len(u)
      BY <2>3
    <3>. QED
      BY <3>1 DEF Longest
  <2>. QED
    BY <2>1, <2>2, <2>3
<1>5. k \in 1 .. d - 1
  BY <1>3
<1>. QED
  BY <1>1, <1>4, <1>5 DEF Longest

\* The action of a text of one character or more is a rule's or none.
LEMMA AcceptsRule ==
  ASSUME NEW u \in Seq(Chars), NEW d \in 1 .. Len(u)
  PROVE  Accepts(StateIn(u, d)) \in 0 .. 12 /\ StateIn(u, d) \in 4 .. 20
<1>1. d \in 0 .. Len(u) /\ d > 0 /\ d # 0
  OBVIOUS
<1>2. SubSeq(u, 1, d) \in Seq(Chars) /\ Len(SubSeq(u, 1, d)) = d /\ StateIn(u, d) \in 4 .. 20
  BY <1>1, StateInType
<1>3. SubSeq(u, 1, d) # <<>>
  BY <1>1, <1>2
<1>. QED
  BY <1>2, <1>3, AcceptsIs DEF StateIn

\* What is true of a state at yy_find_action, of its position and state after it went
\* back.
LEMMA FindsAt ==
  ASSUME LexIInv, yylex.pc = "find"
  PROVE  LET backs == Accepts(yylex.state) = 0
             cp == IF backs THEN yy_last_accepting.cpos ELSE yylex.cp
             state == IF backs THEN yy_last_accepting.state ELSE yylex.state
             b == yylex.bp
             d == cp - b
         IN  \/ /\ cp \in b + 1 .. yy_n_chars /\ state \in 0 .. 20
                /\ state = StateIn(Unread, d) /\ Accepts(state) \in 1 .. 12 /\ Longest(Unread, d)
                /\ Pending => Ones(Held, cp, yy_n_chars)
             \/ /\ cp \in b + 1 .. yy_n_chars + 1 /\ state = 3
                /\ NulIn(Unread, Held, b, yy_n_chars, cp - 1)
                /\ Pending => b = yy_n_chars
<1>. DEFINE backs == Accepts(yylex.state) = 0
            n == yy_n_chars
            b == yylex.bp
            d == yylex.cp - b
            u == Unread
            last == yy_last_accepting
<1>1. Found \/ HitNul
  BY DEF LexIInv, AtFind
<1>2. n \in Nat /\ b \in Nat /\ yylex.cp \in Nat /\ last.cpos \in Nat
  BY DEF LexIInv, LexTypeOK
<1>3. u \in Seq(Chars) /\ Len(u) = (n - b) + Len(Rest) /\ Len(Rest) \in Nat
  <2>1. From = b
    BY DEF From
  <2>2. u \in Seq(Chars) /\ Len(u) = (n - From) + Len(Rest)
    BY UnreadType
  <2>3. Len(Rest) \in Nat
    <3>1. Rest \in Seq(Chars)
      BY HeldType DEF LexIInv
    <3>. QED
      BY <3>1
  <2>. QED
    BY <2>1, <2>2, <2>3
<1>4. CASE HitNul
  <2>1. yylex.state = Jam /\ last.state = 3 /\ NulIn(u, Held, b, n, last.cpos - 1)
        /\ (Pending => b = n)
    BY <1>4 DEF HitNul
  <2>2. backs
    BY <2>1, AcceptFacts
  <2>3. last.cpos - 1 \in b .. n
    BY <2>1 DEF NulIn
  <2>4. last.cpos \in b + 1 .. n + 1
    BY <1>2, <2>3
  <2>. QED
    BY <2>1, <2>2, <2>4
<1>5. CASE Found
  <2>1. /\ b < yylex.cp /\ yylex.cp <= n /\ yylex.state = StateIn(u, d) /\ Longest(u, d)
        /\ Accepts(yylex.state) = 0 => LastIn(u, d, b, last)
        /\ Pending => IF Accepts(yylex.state) = 0 THEN Ones(Held, last.cpos, n)
                      ELSE Ones(Held, yylex.cp, n)
    BY <1>5 DEF Found
  <2>2. d \in 1 .. Len(u)
    <3>. HIDE DEF n, b, u
    <3>. QED
      BY <1>2, <1>3, <2>1
  <2>3. CASE ~backs
    <3>1. Accepts(yylex.state) \in 1 .. 12 /\ yylex.state \in 0 .. 20
      <4>1. Accepts(StateIn(u, d)) \in 0 .. 12 /\ StateIn(u, d) \in 4 .. 20
        BY <1>3, <2>2, AcceptsRule
      <4>. QED
        BY <2>1, <2>3, <4>1
    <3>2. yylex.cp \in b + 1 .. n
      BY <1>2, <2>1
    <3>. QED
      BY <2>1, <2>3, <3>1, <3>2
  <2>4. CASE backs
    <3>1. PICK k \in 1 .. d - 1 : /\ Accepting(u, k) /\ Longest(u, k)
                                  /\ last = [state |-> StateIn(u, k), cpos |-> b + k]
      <4>1. ~Accepting(u, d)
        BY <2>1, <2>4 DEF Accepting
      <4>2. LastIn(u, d, b, last) /\ Longest(u, d) /\ u \in Seq(Chars) /\ b \in Nat
        BY <1>2, <1>3, <2>1, <2>4
      <4>. HIDE DEF n, b, u, d, last
      <4>. QED
        BY <2>2, <4>1, <4>2, BackTo
    <3>2. last.state = StateIn(u, k) /\ last.cpos = b + k
      BY <3>1
    <3>. HIDE DEF n, b, u, d, last
    <3>3. k \in 1 .. Len(u) /\ b + k \in b + 1 .. n /\ (b + k) - b = k
      <4>1. d = yylex.cp - b
        BY DEF d
      <4>. QED
        BY <1>2, <2>1, <2>2, <4>1
    <3>4. Accepts(last.state) \in 1 .. 12 /\ last.state \in 0 .. 20
      <4>1. Accepts(StateIn(u, k)) \in 0 .. 12 /\ StateIn(u, k) \in 4 .. 20
        BY <1>3, <3>3, AcceptsRule
      <4>. QED
        BY <3>1, <3>2, <4>1 DEF Accepting
    <3>5. /\ last.cpos \in b + 1 .. n /\ last.state \in 0 .. 20
          /\ last.state = StateIn(u, last.cpos - b) /\ Accepts(last.state) \in 1 .. 12
          /\ Longest(u, last.cpos - b)
          /\ Pending => Ones(Held, last.cpos, n)
      BY <2>1, <2>4, <3>1, <3>2, <3>3, <3>4
    <3>. QED
      BY <2>4, <3>5 DEF n, b, u, last
  <2>. QED
    BY <2>3, <2>4
<1>. QED
  BY <1>1, <1>4, <1>5

\* YY_DO_BEFORE_ACTION puts a NUL behind the text, and holds back what was there.
LEMMA FindActionStep ==
  ASSUME LexIInv, FindAction
  PROVE  LexIInv' /\ Unread' = Unread
<1>. DEFINE backs == Accepts(yylex.state) = 0
            cp == IF backs THEN yy_last_accepting.cpos ELSE yylex.cp
            state == IF backs THEN yy_last_accepting.state ELSE yylex.state
            n == yy_n_chars
            b == yylex.bp
<1>t. LexTypeOK /\ yylex.pc = "find"
  BY DEF LexIInv, FindAction
<1>1. /\ yylex' = [pc |-> "act", state |-> state, bp |-> b, cp |-> cp, act |-> Accepts(state)]
      /\ yytext_ptr' = b /\ yy_c_buf_p' = cp
      /\ yy_hold_char' = yy_ch_buf[cp + 1] /\ yy_ch_buf' = [yy_ch_buf EXCEPT ![cp + 1] = NUL]
      /\ UNCHANGED <<input, yy_buf_size, yy_buffer_status, yy_n_chars, yy_last_accepting>>
  BY DEF FindAction, Local, At, Put
<1>2. \/ /\ cp \in b + 1 .. n /\ state \in 0 .. 20
         /\ state = StateIn(Unread, cp - b) /\ Accepts(state) \in 1 .. 12 /\ Longest(Unread, cp - b)
         /\ Pending => Ones(Held, cp, n)
      \/ /\ cp \in b + 1 .. n + 1 /\ state = 3
         /\ NulIn(Unread, Held, b, n, cp - 1)
         /\ Pending => b = n
  BY <1>t, FindsAt
<1>. HIDE DEF cp, state
<1>3. /\ n \in Nat /\ b \in Nat /\ yy_ch_buf \in Seq(Chars) /\ Len(yy_ch_buf) = n + 2
      /\ Held = yy_ch_buf
  BY <1>t DEF LexTypeOK, Held
<1>4. cp \in b + 1 .. n + 1 /\ cp \in Nat /\ cp + 1 \in 1 .. n + 2
  BY <1>2, <1>3
<1>5. /\ yy_ch_buf' \in Seq(Chars) /\ Len(yy_ch_buf') = n + 2
      /\ \A i \in 1 .. n + 2 : yy_ch_buf'[i] = IF i = cp + 1 THEN NUL ELSE yy_ch_buf[i]
  BY <1>1, <1>3, <1>4, CharsType, ExceptSeq
<1>6. yy_hold_char' \in Chars
  BY <1>1, <1>3, <1>4, ElementOfSeq
<1>7. Held' = Held
  <2>1. Held' = [yy_ch_buf' EXCEPT ![cp + 1] = yy_hold_char']
    BY <1>1 DEF Held, HoldBack, Put
  <2>2. /\ Held' \in Seq(Chars) /\ Len(Held') = n + 2
        /\ \A i \in 1 .. n + 2 : Held'[i] = IF i = cp + 1 THEN yy_hold_char' ELSE yy_ch_buf'[i]
    BY <1>4, <1>5, <1>6, <2>1, ExceptSeq
  <2>3. \A i \in 1 .. n + 2 : Held'[i] = yy_ch_buf[i]
    BY <1>1, <1>5, <2>2
  <2>. QED
    BY <1>3, <2>2, <2>3, SeqEqual
<1>8. From' = From
  BY <1>t, <1>1 DEF From
<1>9. Unread' = Unread /\ yy_n_chars' = n /\ Pending' = Pending
  BY <1>1, <1>7, <1>8 DEF Unread, InBuffer, input, Pending
<1>10. state \in 0 .. 20 /\ Accepts(state) \in 0 .. EndOfBuffer
       /\ (state = 3 => Accepts(state) = EndOfBuffer)
  BY <1>2, AcceptFacts DEF EndOfBuffer
<1>11. LexTypeOK'
  <2>1. yylex' \in [pc : {"loop", "match", "find", "act", "out"}, state : 0 .. 20, bp : Nat,
                    cp : Nat, act : 0 .. EndOfBuffer]
    BY <1>1, <1>3, <1>4, <1>10
  <2>2. yytext_ptr' \in Nat /\ yy_c_buf_p' \in yytext_ptr' .. yy_n_chars' + 1
    BY <1>1, <1>3, <1>4, <1>9
  <2>. QED
    BY <1>t, <1>1, <1>5, <1>6, <1>7, <1>9, <2>1, <2>2 DEF LexTypeOK, input
<1>12. yylex'.pc = "act" /\ yylex'.cp = cp /\ yy_c_buf_p' = cp /\ yytext_ptr' = b
       /\ yylex'.act = Accepts(state)
  BY <1>1
<1>13. CASE /\ cp \in b + 1 .. n /\ state \in 0 .. 20
            /\ state = StateIn(Unread, cp - b) /\ Accepts(state) \in 1 .. 12
            /\ Longest(Unread, cp - b)
            /\ Pending => Ones(Held, cp, n)
  <2>1. yylex'.act # EndOfBuffer /\ yylex'.act # 0 /\ b < cp /\ cp <= n
    BY <1>3, <1>12, <1>13 DEF EndOfBuffer
  <2>. HIDE DEF b, n
  <2>2. AtLexeme'
    BY <1>7, <1>9, <1>12, <1>13, <2>1 DEF AtLexeme
  <2>. QED
    BY <1>9, <1>11, <1>12, <2>1, <2>2 DEF LexIInv, AtHead, AtMatch, AtFind, AtNul, AtEndOfBuffer
<1>14. CASE /\ cp \in b + 1 .. n + 1 /\ state = 3
            /\ NulIn(Unread, Held, b, n, cp - 1)
            /\ Pending => b = n
  <2>1. yylex'.act = EndOfBuffer /\ b < cp
    BY <1>3, <1>10, <1>12, <1>14
  <2>. HIDE DEF b, n
  <2>2. AtNul'
    BY <1>7, <1>9, <1>12, <1>14, <2>1 DEF AtNul
  <2>. QED
    BY <1>9, <1>11, <1>12, <2>1, <2>2 DEF LexIInv, AtHead, AtMatch, AtFind, AtLexeme
<1>. QED
  BY <1>2, <1>13, <1>14

\* What follows the first d characters of what is unread.
LEMMA TakenOff ==
  ASSUME NEW held \in Seq(Chars), NEW n \in 0 .. Len(held), NEW b \in 0 .. n,
         NEW rest \in Seq(Chars), NEW c \in b .. n
  PROVE  LET u == SubSeq(held, b + 1, n) \o rest IN
         SubSeq(held, c + 1, n) \o rest = SubSeq(u, 1 + c - b, Len(u))
<1>. DEFINE u == SubSeq(held, b + 1, n) \o rest
            v == SubSeq(held, c + 1, n) \o rest
            w == SubSeq(u, (c - b) + 1, Len(u))
<1>0. /\ n \in Nat /\ b \in Nat /\ c \in Nat /\ b <= c /\ c <= n /\ c \in 0 .. n /\ c - b \in Nat
      /\ 1 + c - b = (c - b) + 1
  OBVIOUS
<1>r. Len(rest) \in Nat
  OBVIOUS
<1>1. /\ u \in Seq(Chars) /\ Len(u) = (n - b) + Len(rest)
      /\ \A i \in 1 .. n - b : u[i] = held[b + i]
      /\ \A i \in 1 .. Len(rest) : u[(n - b) + i] = rest[i]
  BY UnreadIs
<1>2. /\ v \in Seq(Chars) /\ Len(v) = (n - c) + Len(rest)
      /\ \A i \in 1 .. n - c : v[i] = held[c + i]
      /\ \A i \in 1 .. Len(rest) : v[(n - c) + i] = rest[i]
  BY <1>0, UnreadIs
<1>. HIDE DEF u, v
<1>3. /\ w \in Seq(Chars) /\ Len(w) = Len(u) - (c - b)
      /\ \A i \in 1 .. Len(u) - (c - b) : w[i] = u[(c - b) + i]
  <2>1. c - b \in Nat /\ Len(u) \in c - b .. Len(u)
    BY <1>0, <1>1, <1>r
  <2>2. u \in Seq(Chars)
    BY <1>1
  <2>. DEFINE e == c - b
              l == Len(u)
  <2>. HIDE DEF e, l
  <2>3. /\ SubSeq(u, e + 1, l) \in Seq(Chars) /\ Len(SubSeq(u, e + 1, l)) = l - e
        /\ \A i \in 1 .. l - e : SubSeq(u, e + 1, l)[i] = u[e + i]
    <3>1. e \in Nat /\ l \in e .. Len(u)
      BY <2>1 DEF e, l
    <3>. QED
      BY <2>2, <3>1, SubSeqType
  <2>. QED
    BY <2>3 DEF e, l
<1>. HIDE DEF w
<1>4. Len(v) = Len(w) /\ Len(u) - (c - b) = (n - c) + Len(rest)
  BY <1>0, <1>1, <1>2, <1>3, <1>r
<1>5. ASSUME NEW i \in 1 .. Len(v)
      PROVE  v[i] = w[i]
  <2>0. i \in Nat /\ i > 0 /\ i <= (n - c) + Len(rest)
    BY <1>0, <1>2, <1>5, <1>r
  <2>1. w[i] = u[(c - b) + i]
    <3>1. i \in 1 .. Len(u) - (c - b)
      BY <1>4, <2>0, <1>0, <1>r
    <3>. QED
      BY <1>3, <3>1
  <2>2. CASE i <= n - c
    <3>1. (c - b) + i \in 1 .. n - b /\ b + ((c - b) + i) = c + i /\ i \in 1 .. n - c
      BY <1>0, <2>0, <2>2
    <3>2. u[(c - b) + i] = held[b + ((c - b) + i)]
      BY <1>1, <3>1
    <3>3. v[i] = held[c + i]
      BY <1>2, <3>1
    <3>. QED
      BY <2>1, <3>1, <3>2, <3>3
  <2>3. CASE i > n - c
    <3>. DEFINE j == i - (n - c)
    <3>1. j \in 1 .. Len(rest) /\ (c - b) + i = (n - b) + j /\ i = (n - c) + j
      BY <1>0, <1>r, <2>0, <2>3
    <3>. HIDE DEF j
    <3>2. u[(n - b) + j] = rest[j] /\ v[(n - c) + j] = rest[j]
      BY <1>1, <1>2, <3>1
    <3>. QED
      BY <2>1, <3>1, <3>2
  <2>. QED
    BY <1>0, <2>0, <2>2, <2>3
<1>6. v = w
  BY <1>2, <1>3, <1>4, <1>5, SeqEqual
<1>. QED
  BY <1>0, <1>6 DEF u, v, w

\* An action of a rule takes its text off what is unread.
LEMMA TokenStep ==
  ASSUME LexIInv, ReturnToken \/ Echo
  PROVE  /\ LexIInv'
         /\ Unread' = SubSeq(Unread, 1 + yylex.cp - yytext_ptr, Len(Unread))
<1>. DEFINE n == yy_n_chars
            b == yytext_ptr
            c == yylex.cp
<1>t. LexTypeOK /\ yylex.pc = "act" /\ yylex.act # EndOfBuffer
  BY DEF LexIInv, ReturnToken, Echo, EndOfBuffer, LexTypeOK
<1>1. /\ yylex'.pc \in {"loop", "out"} /\ yylex' = [yylex EXCEPT !.pc = yylex'.pc]
      /\ UNCHANGED <<input, buffer, pointers, yy_last_accepting>>
  <2>1. yylex \in [pc : {"loop", "match", "find", "act", "out"}, state : 0 .. 20, bp : Nat,
                   cp : Nat, act : 0 .. EndOfBuffer]
    BY <1>t DEF LexTypeOK
  <2>. QED
    BY <2>1 DEF ReturnToken, Echo
<1>2. /\ c = yy_c_buf_p /\ b < c /\ c <= n /\ (Pending => Ones(Held, c, n))
  BY <1>t DEF LexIInv, AtLexeme
<1>3. yylex' \in [pc : {"loop", "match", "find", "act", "out"}, state : 0 .. 20, bp : Nat,
                  cp : Nat, act : 0 .. EndOfBuffer]
  BY <1>t, <1>1 DEF LexTypeOK
<1>4. Held' = Held /\ From = b /\ From' = c /\ yy_n_chars' = n /\ yy_c_buf_p' = c /\ Rest' = Rest
      /\ Pending' = Pending
  BY <1>t, <1>1, <1>2 DEF Held, HoldBack, Put, From, input, buffer, pointers, Rest, Pending
<1>5. LexTypeOK'
  BY <1>t, <1>1, <1>3, <1>4 DEF LexTypeOK, input, buffer, pointers
<1>6. AtHead'
  BY <1>2, <1>4 DEF AtHead
<1>7. LexIInv'
  BY <1>1, <1>5, <1>6 DEF LexIInv, AtMatch, AtFind, AtLexeme, AtNul, AtEndOfBuffer
<1>8. Unread' = SubSeq(Unread, 1 + c - b, Len(Unread))
  <2>1. /\ Held \in Seq(Chars) /\ Rest \in Seq(Chars) /\ n \in 0 .. Len(Held)
        /\ b \in 0 .. n /\ c \in b .. n
    <3>1. Held \in Seq(Chars) /\ Rest \in Seq(Chars) /\ Len(Held) = n + 2
      BY <1>t, HeldType
    <3>2. n \in Nat /\ b \in Nat /\ c \in Nat
      BY <1>t DEF LexTypeOK
    <3>. QED
      BY <1>2, <3>1, <3>2
  <2>2. LET u == SubSeq(Held, b + 1, n) \o Rest IN
        SubSeq(Held, c + 1, n) \o Rest = SubSeq(u, 1 + c - b, Len(u))
    <3>. HIDE DEF b, c, n
    <3>. QED
      BY <2>1, TakenOff
  <2>3. Unread = SubSeq(Held, b + 1, n) \o Rest
    BY <1>4 DEF Unread, InBuffer, Rest
  <2>4. Unread' = SubSeq(Held, c + 1, n) \o Rest
    <3>1. Unread' = SubSeq(Held', From' + 1, yy_n_chars') \o Rest'
      BY DEF Unread, InBuffer, Rest
    <3>. QED
      BY <1>4, <3>1
  <2>. QED
    BY <2>2, <2>3, <2>4
<1>. QED
  BY <1>7, <1>8

\* A call of yylex() goes on where the one before has returned.
LEMMA YylexStep ==
  ASSUME LexIInv, Yylex
  PROVE  LexIInv' /\ Unread' = Unread
<1>t. LexTypeOK /\ yylex.pc = "out" /\ AtHead
  BY DEF LexIInv, Yylex
<1>1. /\ yylex' = [yylex EXCEPT !.pc = "loop"] /\ yylex'.pc = "loop"
      /\ yylex' \in [pc : {"loop", "match", "find", "act", "out"}, state : 0 .. 20, bp : Nat,
                     cp : Nat, act : 0 .. EndOfBuffer]
      /\ UNCHANGED <<input, buffer, pointers, yy_last_accepting>>
  BY <1>t DEF Yylex, LexTypeOK
<1>2. Held' = Held /\ From' = From
  BY <1>t, <1>1 DEF Held, HoldBack, Put, From, pointers, buffer
<1>3. Unread' = Unread
  BY <1>1, <1>2 DEF Unread, InBuffer, input, buffer
<1>4. LexTypeOK'
  BY <1>t, <1>1, <1>2 DEF LexTypeOK, input, buffer, pointers
<1>5. AtHead'
  BY <1>t, <1>1, <1>2 DEF AtHead, Pending, buffer, pointers
<1>. QED
  BY <1>1, <1>3, <1>4, <1>5 DEF LexIInv, AtMatch, AtFind, AtLexeme, AtNul, AtEndOfBuffer

\* The first characters of the first characters.
LEMMA TextOfText ==
  ASSUME NEW S, NEW s \in Seq(S), NEW q \in 0 .. Len(s), NEW k \in 0 .. q
  PROVE  SubSeq(SubSeq(s, 1, q), 1, k) = SubSeq(s, 1, k)
<1>. DEFINE t == SubSeq(s, 1, q)
<1>0. 0 \in Nat /\ q \in 0 .. Len(s) /\ k \in 0 .. Len(s) /\ q - 0 = q /\ k - 0 = k /\ 0 + 1 = 1
      /\ \A i \in 1 .. q : 0 + i = i
  OBVIOUS
<1>1. t \in Seq(S) /\ Len(t) = q /\ \A i \in 1 .. q : t[i] = s[i]
  <2>1. /\ SubSeq(s, 0 + 1, q) \in Seq(S) /\ Len(SubSeq(s, 0 + 1, q)) = q - 0
        /\ \A i \in 1 .. q - 0 : SubSeq(s, 0 + 1, q)[i] = s[0 + i]
    BY <1>0, SubSeqType
  <2>. QED
    BY <1>0, <2>1
<1>2. SubSeq(s, 1, k) \in Seq(S) /\ Len(SubSeq(s, 1, k)) = k
      /\ \A i \in 1 .. k : SubSeq(s, 1, k)[i] = s[i]
  <2>1. /\ SubSeq(s, 0 + 1, k) \in Seq(S) /\ Len(SubSeq(s, 0 + 1, k)) = k - 0
        /\ \A i \in 1 .. k - 0 : SubSeq(s, 0 + 1, k)[i] = s[0 + i]
    BY <1>0, SubSeqType
  <2>2. \A i \in 1 .. k : 0 + i = i
    OBVIOUS
  <2>. QED
    BY <1>0, <2>1, <2>2
<1>. HIDE DEF t
<1>3. SubSeq(t, 1, k) \in Seq(S) /\ Len(SubSeq(t, 1, k)) = k
      /\ \A i \in 1 .. k : SubSeq(t, 1, k)[i] = t[i]
  <2>0. k \in 0 .. Len(t)
    BY <1>1
  <2>1. /\ SubSeq(t, 0 + 1, k) \in Seq(S) /\ Len(SubSeq(t, 0 + 1, k)) = k - 0
        /\ \A i \in 1 .. k - 0 : SubSeq(t, 0 + 1, k)[i] = t[0 + i]
    BY <1>0, <1>1, <2>0, SubSeqType
  <2>2. \A i \in 1 .. k : 0 + i = i
    OBVIOUS
  <2>. QED
    BY <1>0, <2>1, <2>2
<1>4. \A i \in 1 .. k : i \in 1 .. q
  OBVIOUS
<1>5. \A i \in 1 .. k : SubSeq(t, 1, k)[i] = SubSeq(s, 1, k)[i]
  BY <1>1, <1>2, <1>3, <1>4
<1>6. SubSeq(t, 1, k) = SubSeq(s, 1, k)
  BY <1>2, <1>3, <1>5, SeqEqual
<1>. QED
  BY <1>6 DEF t

\* yy_get_previous_state() goes through the states of what is unread.
LEMMA ReplayIn ==
  ASSUME NEW u \in Seq(Chars), NEW q \in 0 .. Len(u)
  PROVE  \A k \in 0 .. q : Replay(SubSeq(u, 1, q))[k] = StateIn(u, k)
<1>. DEFINE t == SubSeq(u, 1, q)
<1>1. t \in Seq(Chars) /\ Len(t) = q
  BY StateInType
<1>2. ASSUME NEW k \in 0 .. q
      PROVE  SubSeq(t, 1, k) = SubSeq(u, 1, k)
  BY TextOfText
<1>. HIDE DEF t
<1>3. \A k \in 0 .. q : Replay(t)[k] = StateOf(SubSeq(t, 1, k))
  BY <1>1, ReplayIs
<1>4. \A k \in 0 .. q : Replay(t)[k] = StateIn(u, k)
  BY <1>2, <1>3 DEF StateIn
<1>. QED
  BY <1>4 DEF t

\* At the NUL or the end of the buffer: what has been matched is the head of what is
\* unread.
LEMMA MatchedIs ==
  ASSUME LexIInv, AtEndOfBuffer
  PROVE  LET q == yylex.cp - 1 - yytext_ptr IN
         /\ q \in Nat /\ yytext_ptr + q = yylex.cp - 1 /\ q <= yy_n_chars - yytext_ptr
         /\ yy_n_chars \in Nat /\ yytext_ptr \in Nat
         /\ yylex.cp = yy_c_buf_p /\ From = yytext_ptr
         /\ Unread \in Seq(Chars) /\ Len(Unread) = (yy_n_chars - yytext_ptr) + Len(Rest)
         /\ Len(Rest) \in Nat /\ Rest \in Seq(Chars)
         /\ Matched = SubSeq(Unread, 1, q) /\ Len(Matched) = q /\ Matched \in Seq(Chars)
         /\ Matched = SubSeq(Held, yytext_ptr + 1, yytext_ptr + q)
         /\ Held[(yytext_ptr + q) + 1] = NUL /\ StateIn(Unread, q) \notin Ended
         /\ Pending => yytext_ptr = yy_n_chars
<1>. DEFINE n == yy_n_chars
            b == yytext_ptr
            q == yylex.cp - 1 - b
            u == Unread
<1>t. LexTypeOK /\ yylex.pc = "act"
  BY DEF LexIInv, AtEndOfBuffer
<1>1. /\ yylex.cp = yy_c_buf_p /\ b < yylex.cp
      /\ NulIn(u, Held, b, n, yylex.cp - 1) /\ (Pending => b = n)
  BY DEF LexIInv, AtNul
<1>2. n \in Nat /\ b \in Nat /\ yylex.cp \in Nat
  BY <1>t DEF LexTypeOK
<1>3. yylex.cp - 1 \in b .. n /\ Held[(yylex.cp - 1) + 1] = NUL /\ StateIn(u, (yylex.cp - 1) - b) \notin Ended
  BY <1>1 DEF NulIn
<1>4. From = b
  BY <1>t DEF From
<1>5. /\ u \in Seq(Chars) /\ Len(u) = (n - b) + Len(Rest)
      /\ \A k \in 0 .. n - b : SubSeq(u, 1, k) = SubSeq(Held, b + 1, b + k)
  <2>. DEFINE P(x) == /\ u \in Seq(Chars) /\ Len(u) = (n - x) + Len(Rest)
                      /\ \A k \in 0 .. n - x : SubSeq(u, 1, k) = SubSeq(Held, x + 1, x + k)
  <2>1. P(From)
    BY UnreadType
  <2>2. P(b)
    <3>. HIDE DEF P, b
    <3>. QED
      BY <1>4, <2>1
  <2>. QED
    BY <2>2
<1>6. Rest \in Seq(Chars) /\ Held \in Seq(Chars) /\ Len(Held) = n + 2
  BY <1>t, HeldType
<1>7. Len(Rest) \in Nat
  BY <1>6
<1>c. q = (yylex.cp - 1) - b
  OBVIOUS
<1>. HIDE DEF n, b, u, q
<1>8. /\ q \in Nat /\ b + q = yylex.cp - 1 /\ q <= n - b /\ q \in 0 .. n - b
      /\ b + q \in b .. n + 2 /\ (b + q) + 1 = (yylex.cp - 1) + 1 /\ (b + q) - b = q
  BY <1>c, <1>2, <1>3
<1>9. SubSeq(u, 1, q) = SubSeq(Held, b + 1, b + q)
  BY <1>5, <1>8
<1>10. Matched = SubSeq(yy_ch_buf, b + 1, b + q)
  BY <1>8 DEF Matched, Text, b
<1>11. SubSeq(yy_ch_buf, b + 1, b + q) = SubSeq(Held, b + 1, b + q)
  <2>1. yy_ch_buf \in Seq(Chars) /\ Len(yy_ch_buf) = n + 2
    BY <1>t DEF LexTypeOK, n
  <2>2. \A i \in 1 .. n + 2 : i # yy_c_buf_p + 1 => Held[i] = yy_ch_buf[i]
    BY <1>t, HeldType DEF Held, n
  <2>3. /\ SubSeq(yy_ch_buf, b + 1, b + q) \in Seq(Chars)
        /\ Len(SubSeq(yy_ch_buf, b + 1, b + q)) = (b + q) - b
        /\ \A i \in 1 .. (b + q) - b : SubSeq(yy_ch_buf, b + 1, b + q)[i] = yy_ch_buf[b + i]
    BY <1>2, <1>8, <2>1, SubSeqType DEF b
  <2>4. /\ SubSeq(Held, b + 1, b + q) \in Seq(Chars)
        /\ Len(SubSeq(Held, b + 1, b + q)) = (b + q) - b
        /\ \A i \in 1 .. (b + q) - b : SubSeq(Held, b + 1, b + q)[i] = Held[b + i]
    BY <1>2, <1>6, <1>8, SubSeqType DEF b
  <2>5. ASSUME NEW i \in 1 .. q
        PROVE  yy_ch_buf[b + i] = Held[b + i]
    <3>1. b + i \in 1 .. n + 2 /\ b + i # yylex.cp + 1
      BY <1>2, <1>8, <2>5 DEF b, n
    <3>. QED
      BY <1>1, <2>2, <3>1
  <2>. QED
    BY <1>8, <2>3, <2>4, <2>5, SeqEqual
<1>12. SubSeq(u, 1, q) \in Seq(Chars) /\ Len(SubSeq(u, 1, q)) = q
  <2>1. q \in 0 .. Len(u)
    BY <1>2, <1>5, <1>7, <1>8 DEF n, b
  <2>. QED
    BY <1>5, <2>1, StateInType
<1>13. Held[(b + q) + 1] = NUL /\ StateIn(u, q) \notin Ended
  BY <1>3, <1>8, <1>c
<1>. QED
  BY <1>1, <1>2, <1>4, <1>5, <1>6, <1>7, <1>8, <1>9, <1>10, <1>11, <1>12, <1>13 DEF n, b, u, q

\* A NUL in the input: the automaton takes it as one more character, or stops in
\* front of it.
LEMMA RealNulStep ==
  ASSUME LexIInv, RealNul
  PROVE  LexIInv' /\ Unread' = Unread
<1>. DEFINE n == yy_n_chars
            b == yytext_ptr
            q == yylex.cp - 1 - b
            u == Unread
            path == Replay(Matched \o <<NUL>>)
            jams == path[q + 1] = Jam
<1>t. LexTypeOK /\ yylex.pc = "act" /\ AtEndOfBuffer /\ yy_c_buf_p <= n
  BY DEF LexIInv, RealNul, AtEndOfBuffer
<1>0. /\ q \in Nat /\ b + q = yylex.cp - 1 /\ q <= n - b /\ n \in Nat /\ b \in Nat
      /\ yylex.cp = yy_c_buf_p /\ From = b
      /\ u \in Seq(Chars) /\ Len(u) = (n - b) + Len(Rest) /\ Len(Rest) \in Nat
      /\ Matched = SubSeq(u, 1, q) /\ Len(Matched) = q /\ Matched \in Seq(Chars)
      /\ Held[(b + q) + 1] = NUL /\ StateIn(u, q) \notin Ended
      /\ Pending => b = n
  <2>1. LET r == yylex.cp - 1 - yytext_ptr IN
         /\ r \in Nat /\ yytext_ptr + r = yylex.cp - 1 /\ r <= yy_n_chars - yytext_ptr
         /\ yy_n_chars \in Nat /\ yytext_ptr \in Nat
         /\ yylex.cp = yy_c_buf_p /\ From = yytext_ptr
         /\ Unread \in Seq(Chars) /\ Len(Unread) = (yy_n_chars - yytext_ptr) + Len(Rest)
         /\ Len(Rest) \in Nat
         /\ Matched = SubSeq(Unread, 1, r) /\ Len(Matched) = r /\ Matched \in Seq(Chars)
         /\ Held[(yytext_ptr + r) + 1] = NUL /\ StateIn(Unread, r) \notin Ended
         /\ Pending => yytext_ptr = yy_n_chars
    BY <1>t, MatchedIs
  <2>. QED
    BY <2>1
<1>1. /\ yy_ch_buf' = HoldBack
      /\ yy_last_accepting' = LastAccepting(path, q + 1, b)
      /\ yy_c_buf_p' = IF jams THEN b + q ELSE (b + q) + 1
      /\ yylex' = IF jams THEN Local("find", path[q], b, b + q, 0)
                          ELSE Local("match", path[q + 1], b, (b + q) + 1, 0)
      /\ UNCHANGED <<input, yy_buf_size, yy_buffer_status, yy_n_chars, yytext_ptr, yy_hold_char>>
  <2>1. Len(Matched) = q
    BY <1>0
  <2>. HIDE DEF q
  <2>. QED
    BY <2>1 DEF RealNul
<1>2. Held = HoldBack /\ Held \in Seq(Chars) /\ Len(Held) = n + 2
  BY <1>t, HeldType DEF Held
<1>3. yylex'.pc \in {"find", "match"} /\ yylex'.bp = b
  BY <1>1 DEF Local
<1>4. Held' = Held /\ From' = b /\ yy_n_chars' = n /\ Pending' = Pending /\ yytext_ptr' = b
  BY <1>1, <1>2, <1>3 DEF Held, From, Pending
<1>5. Unread' = u
  BY <1>0, <1>1, <1>4 DEF Unread, InBuffer, input
<1>. HIDE DEF jams, path, q, b, n, u
<1>6. /\ q + 1 \in 1 .. Len(u) /\ q \in 0 .. Len(u) /\ q + 1 \in 0 .. Len(u) /\ q < Len(u)
      /\ (b + q) + 1 <= n /\ q + 1 \in 1 .. n - b /\ ~Pending
  <2>1. yylex.cp \in Nat
    BY <1>t DEF LexTypeOK
  <2>2. yylex.cp = (b + q) + 1
    BY <1>0, <2>1
  <2>3. (b + q) + 1 <= n
    BY <1>0, <1>t, <2>2 DEF n
  <2>4. ~Pending
    <3>1. b # n
      BY <1>0, <2>3
    <3>. QED
      BY <1>0, <3>1
  <2>5. /\ q \in Nat /\ n \in Nat /\ b \in Nat /\ Len(u) = (n - b) + Len(Rest) /\ Len(Rest) \in Nat
    BY <1>0
  <2>. QED
    BY <2>3, <2>4, <2>5
<1>7. Matched \o <<NUL>> = SubSeq(u, 1, q + 1) /\ u[q + 1] = NUL
  <2>1. u[q + 1] = NUL
    <3>1. /\ Unread[q + 1] = Held[From + (q + 1)]
      <4>1. q + 1 \in 1 .. yy_n_chars - From
        BY <1>0, <1>6 DEF n
      <4>. QED
        BY <4>1, UnreadType
    <3>2. b + (q + 1) = (b + q) + 1
      BY <1>0
    <3>. QED
      BY <1>0, <3>1, <3>2 DEF u
  <2>2. q \in 0 .. Len(u) - 1
    BY <1>0, <1>6
  <2>3. SubSeq(u, 1, q + 1) = Append(SubSeq(u, 1, q), u[q + 1])
    BY <1>0, <2>2, OneMore
  <2>4. Matched \o <<NUL>> = Append(Matched, NUL)
    BY <1>0, CharsType, AppendIsConcat
  <2>. QED
    BY <1>0, <2>1, <2>3, <2>4
<1>8. \A k \in 0 .. q + 1 : path[k] = StateIn(u, k)
  BY <1>0, <1>6, <1>7, ReplayIn DEF path
<1>9. path[q] = StateIn(u, q) /\ path[q + 1] = StateIn(u, q + 1)
  <2>1. q \in 0 .. q + 1 /\ q + 1 \in 0 .. q + 1
    BY <1>0
  <2>. QED
    BY <1>8, <2>1
<1>10. LastIn(u, q + 1, b, yy_last_accepting')
  <2>1. \A k \in 0 .. (q + 1) - 1 : path[k] = StateIn(u, 0 + k)
    <3>1. \A k \in 0 .. (q + 1) - 1 : k \in 0 .. q + 1 /\ 0 + k = k
      BY <1>0
    <3>. QED
      BY <1>8, <3>1
  <2>2. 0 \in Nat /\ q + 1 \in Nat /\ q + 1 > 0 /\ ~(0 > 0)
    BY <1>0
  <2>3. LastIn(u, 0 + (q + 1), b, LastAccepting(path, q + 1, b + 0))
    BY <1>0, <2>1, <2>2, LastOn
  <2>4. 0 + (q + 1) = q + 1 /\ b + 0 = b
    BY <1>0
  <2>. QED
    BY <1>1, <2>3, <2>4
<1>11. yy_last_accepting' \in [state : 0 .. 20, cpos : Nat]
  <2>1. q + 1 \in 0 .. Len(u) + 1
    BY <1>0, <1>6
  <2>. QED
    BY <1>0, <1>10, <2>1, LastInType
<1>12. path[q] \in 0 .. 20 /\ path[q + 1] \in 0 .. 20
  <2>1. StateIn(u, q) \in {1} \cup 4 .. 20 /\ StateIn(u, q + 1) \in {1} \cup 4 .. 20
    BY <1>0, <1>6, StateInType
  <2>. QED
    BY <1>9, <2>1
<1>13. LexTypeOK'
  <2>1. yylex' \in [pc : {"loop", "match", "find", "act", "out"}, state : 0 .. 20, bp : Nat,
                    cp : Nat, act : 0 .. EndOfBuffer]
    <3>1. b \in Nat /\ b + q \in Nat /\ (b + q) + 1 \in Nat
      BY <1>0
    <3>. QED
      BY <1>1, <1>12, <3>1 DEF Local, EndOfBuffer
  <2>2. yy_c_buf_p' \in b .. n + 1
    BY <1>0, <1>1, <1>6
  <2>3. b = yytext_ptr /\ n = yy_n_chars
    BY DEF b, n
  <2>. QED
    BY <1>t, <1>1, <1>2, <1>4, <1>11, <2>1, <2>2, <2>3 DEF LexTypeOK, input
<1>14. CASE jams
  <2>1. /\ yylex'.pc = "find" /\ yylex'.state = StateIn(u, q) /\ yylex'.bp = b /\ yylex'.cp = b + q
        /\ (b + q) - b = q
    BY <1>0, <1>1, <1>9, <1>14 DEF Local
  <2>2. StateIn(u, q + 1) = Jam
    BY <1>9, <1>14 DEF jams
  <2>3. q # 0
    <3>1. ASSUME q = 0
          PROVE  FALSE
      <4>1. q + 1 = 1
        BY <3>1
      <4>2. Accepting(u, q + 1)
        BY <1>0, <1>6, <4>1, StateInType
      <4>. QED
        BY <2>2, <4>2, AcceptFacts DEF Accepting
    <3>. QED
      BY <3>1
  <2>4. Longest(u, q)
    <3>1. q + 1 > 0
      BY <1>0
    <3>2. \A j \in q + 1 .. Len(u) : StateIn(u, j) = Jam
      BY <1>0, <1>6, <2>2, <3>1, StateInType
    <3>. QED
      BY <3>2, AcceptFacts DEF Longest, Accepting
  <2>5. ASSUME Accepts(StateIn(u, q)) = 0
        PROVE  LastIn(u, q, b, yy_last_accepting')
    <3>1. PICK k \in 0 .. (q + 1) - 1 :
            /\ Accepting(u, k) /\ \A j \in k + 1 .. (q + 1) - 1 : ~Accepting(u, j)
            /\ yy_last_accepting' = [state |-> StateIn(u, k), cpos |-> b + k]
      BY <1>10 DEF LastIn
    <3>2. k # q
      BY <2>5, <3>1 DEF Accepting
    <3>3. k \in 0 .. q - 1 /\ \A j \in k + 1 .. q - 1 : j \in k + 1 .. (q + 1) - 1
      BY <1>0, <3>2
    <3>. QED
      BY <3>1, <3>3 DEF LastIn
  <2>6. b < b + q /\ b + q <= n
    BY <1>0, <1>6, <2>3
  <2>7. Found'
    BY <1>4, <1>5, <1>6, <2>1, <2>4, <2>5, <2>6 DEF Found
  <2>8. LexIInv'
    BY <1>13, <2>1, <2>7 DEF LexIInv, AtHead, AtMatch, AtFind, AtLexeme, AtNul, AtEndOfBuffer
  <2>. QED
    BY <1>5, <2>8 DEF u
<1>15. CASE ~jams
  <2>1. /\ yylex'.pc = "match" /\ yylex'.state = StateIn(u, q + 1) /\ yylex'.bp = b
        /\ yylex'.cp = (b + q) + 1 /\ ((b + q) + 1) - b = q + 1 /\ b <= (b + q) + 1
        /\ StateIn(u, q + 1) \notin Ended
    <3>1. StateIn(u, q + 1) # Jam
      BY <1>9, <1>15 DEF jams
    <3>2. StateIn(u, q + 1) # 17
      <4>1. \A s \in {1} \cup 4 .. 20 : Transition(s, CTL) # 17
        BY DEF Transition, Single, CTL, NUL, TAB, LF, SP, Blank, ONE, Jam
      <4>2. StateIn(u, q + 1) = Transition(StateIn(u, q), Shown(u[q + 1]))
        BY <1>0, <1>6, StateInType
      <4>3. StateIn(u, q) \in {1} \cup 4 .. 20
        BY <1>0, <1>6, StateInType
      <4>4. Shown(u[q + 1]) = CTL
        BY <1>7 DEF Shown
      <4>. QED
        BY <4>1, <4>2, <4>3, <4>4
    <3>. QED
      BY <1>0, <1>1, <1>9, <1>15, <3>1, <3>2 DEF Local, Ended
  <2>2. AtMatch'
    BY <1>4, <1>5, <1>6, <1>10, <2>1 DEF AtMatch
  <2>3. LexIInv'
    BY <1>13, <2>1, <2>2 DEF LexIInv, AtHead, AtFind, AtLexeme, AtNul, AtEndOfBuffer
  <2>. QED
    BY <1>5, <2>3 DEF u
<1>. QED
  BY <1>14, <1>15

\* The buffer grows to a size with room for a character behind those moved.
LEMMA GrownIs ==
  ASSUME NEW size \in Nat, size > 0, NEW moved \in Nat
  PROVE  Grown(size, moved) \in Nat /\ Grown(size, moved) >= size /\ Grown(size, moved) > moved + 1
<1>. DEFINE top == moved + 2
            Eq(f, s) == f[s] = IF s - moved - 1 > 0 THEN s ELSE f[2 * s]
            Is(f) == f = [s \in Nat |-> IF s - moved - 1 > 0 THEN s ELSE f[2 * s]]
            grown == CHOOSE f : Is(f)
            Down(m) == \E g \in [Nat -> Nat] : \A s \in Nat : s >= top - m => Eq(g, s)
            T == {m \in 0 .. moved + 1 : Down(m)}
<1>1. Grown(size, moved) = grown[size]
  BY DEF Grown
<1>2. 0 \in T
  <2>. DEFINE g == [s \in Nat |-> s]
  <2>1. g \in [Nat -> Nat]
    OBVIOUS
  <2>2. \A s \in Nat : s >= top - 0 => Eq(g, s)
    OBVIOUS
  <2>. HIDE DEF g, Eq
  <2>. QED
    BY <2>1, <2>2
<1>3. ASSUME NEW m \in 0 .. moved + 1, m \in T, m < moved + 1
      PROVE  m + 1 \in T
  <2>1. PICK g \in [Nat -> Nat] : \A s \in Nat : s >= top - m => Eq(g, s)
    BY <1>3
  <2>. DEFINE k == top - (m + 1)
              h == [g EXCEPT ![k] = g[2 * k]]
  <2>2. k \in Nat /\ k > 0 /\ 2 * k \in Nat /\ 2 * k > k /\ ~(k - moved - 1 > 0)
    BY <1>3
  <2>3. h \in [Nat -> Nat] /\ h[k] = g[2 * k] /\ \A s \in Nat : s # k => h[s] = g[s]
    <3>. HIDE DEF k
    <3>. QED
      BY <2>2
  <2>. HIDE DEF h
  <2>4. ASSUME NEW s \in Nat, s >= top - (m + 1)
        PROVE  Eq(h, s)
    <3>1. CASE s = k
      <4>1. 2 * s \in Nat /\ 2 * s # k
        BY <2>2, <3>1
      <4>2. h[2 * s] = g[2 * s]
        BY <2>3, <4>1
      <4>. HIDE DEF k
      <4>. QED
        BY <2>2, <2>3, <3>1, <4>2
    <3>2. CASE s # k
      <4>1. s >= top - m /\ s > k
        BY <1>3, <2>4, <3>2
      <4>2. 2 * s \in Nat /\ 2 * s # k
        BY <2>2, <4>1
      <4>3. h[2 * s] = g[2 * s] /\ h[s] = g[s]
        BY <2>3, <3>2, <4>2
      <4>4. Eq(g, s)
        BY <2>1, <4>1
      <4>. QED
        BY <4>3, <4>4
    <3>. QED
      BY <3>1, <3>2
  <2>5. m + 1 \in 0 .. moved + 1
    BY <1>3
  <2>. HIDE DEF Eq
  <2>. QED
    BY <2>3, <2>4, <2>5
<1>4. Down(moved + 1)
  <2>1. \A m \in 0 .. moved + 1 : m \in T
    <3>1. moved + 1 \in Nat
      OBVIOUS
    <3>. HIDE DEF T
    <3>. QED
      BY <1>2, <1>3, <3>1, UpTo
  <2>2. moved + 1 \in 0 .. moved + 1
    OBVIOUS
  <2>. HIDE DEF Down
  <2>. QED
    BY <2>1, <2>2
<1>5. PICK g \in [Nat -> Nat] : \A s \in Nat : s >= top - (moved + 1) => Eq(g, s)
  BY <1>4
<1>6. Is(g)
  <2>1. ASSUME NEW s \in Nat
        PROVE  Eq(g, s)
    <3>1. CASE s = 0
      <4>1. ~(s - moved - 1 > 0) /\ 2 * s = s
        BY <3>1
      <4>. QED
        BY <4>1
    <3>2. CASE s # 0
      <4>1. s >= top - (moved + 1)
        BY <3>2
      <4>. HIDE DEF Eq
      <4>. QED
        BY <1>5, <4>1
    <3>. QED
      BY <3>1, <3>2
  <2>. QED
    BY <2>1
<1>7. Is(grown)
  <2>. HIDE DEF Is
  <2>. QED
    BY <1>6
<1>8. \A s \in Nat : Eq(grown, s)
  <2>. HIDE DEF grown
  <2>. QED
    BY <1>7
<1>. HIDE DEF grown
<1>. DEFINE Good(s) == grown[s] \in Nat /\ grown[s] >= s /\ grown[s] > moved + 1
            S == {m \in 0 .. moved + 1 : \A s \in Nat : s >= top - m => Good(s)}
<1>9. 0 \in S
  <2>1. ASSUME NEW s \in Nat, s >= top - 0
        PROVE  Good(s)
    <3>1. grown[s] = s
      BY <1>8, <2>1
    <3>. QED
      BY <2>1, <3>1
  <2>. HIDE DEF Good
  <2>. QED
    BY <2>1
<1>10. ASSUME NEW m \in 0 .. moved + 1, m \in S, m < moved + 1
       PROVE  m + 1 \in S
  <2>1. ASSUME NEW s \in Nat, s >= top - (m + 1)
        PROVE  Good(s)
    <3>1. CASE s >= top - m
      <4>. HIDE DEF Good
      <4>. QED
        BY <1>10, <3>1
    <3>2. CASE ~(s >= top - m)
      <4>1. 2 * s \in Nat /\ 2 * s >= top - m /\ 2 * s >= s /\ ~(s - moved - 1 > 0)
        BY <1>10, <2>1, <3>2
      <4>2. Good(2 * s)
        <5>. HIDE DEF Good
        <5>. QED
          BY <1>10, <4>1
      <4>3. grown[s] = grown[2 * s]
        BY <1>8, <4>1
      <4>. QED
        BY <4>1, <4>2, <4>3
    <3>. QED
      BY <3>1, <3>2
  <2>2. m + 1 \in 0 .. moved + 1
    BY <1>10
  <2>. HIDE DEF Good
  <2>. QED
    BY <2>1, <2>2
<1>11. Good(size)
  <2>1. \A m \in 0 .. moved + 1 : m \in S
    <3>1. moved + 1 \in Nat
      OBVIOUS
    <3>. HIDE DEF S
    <3>. QED
      BY <1>9, <1>10, <3>1, UpTo
  <2>2. moved + 1 \in 0 .. moved + 1 /\ size >= top - (moved + 1)
    OBVIOUS
  <2>. HIDE DEF Good
  <2>. QED
    BY <2>1, <2>2
<1>. QED
  BY <1>1, <1>11

\* What a part of the input and the part behind it add up to.
LEMMA SplitIs ==
  ASSUME NEW S, NEW s \in Seq(S), NEW a \in 0 .. Len(s), NEW b \in a .. Len(s)
  PROVE  SubSeq(s, a + 1, Len(s)) = SubSeq(s, a + 1, b) \o SubSeq(s, b + 1, Len(s))
<1>. DEFINE l == Len(s)
            x == SubSeq(s, a + 1, l)
            y == SubSeq(s, a + 1, b)
            z == SubSeq(s, b + 1, l)
<1>0. a \in Nat /\ b \in Nat /\ l \in Nat /\ a <= b /\ b <= l /\ l \in a .. Len(s) /\ b \in a .. Len(s)
      /\ l \in b .. Len(s)
  OBVIOUS
<1>1. x \in Seq(S) /\ Len(x) = l - a /\ \A i \in 1 .. l - a : x[i] = s[a + i]
  BY <1>0, SubSeqType
<1>2. y \in Seq(S) /\ Len(y) = b - a /\ \A i \in 1 .. b - a : y[i] = s[a + i]
  BY <1>0, SubSeqType
<1>3. z \in Seq(S) /\ Len(z) = l - b /\ \A i \in 1 .. l - b : z[i] = s[b + i]
  BY <1>0, SubSeqType
<1>. HIDE DEF x, y, z, l
<1>4. /\ y \o z \in Seq(S) /\ Len(y \o z) = Len(y) + Len(z)
      /\ \A i \in 1 .. Len(y) + Len(z) : (y \o z)[i] = IF i <= Len(y) THEN y[i] ELSE z[i - Len(y)]
  BY <1>2, <1>3, ConcatProperties
<1>5. Len(y) + Len(z) = l - a
  BY <1>0, <1>2, <1>3
<1>6. ASSUME NEW i \in 1 .. l - a
      PROVE  (y \o z)[i] = x[i]
  <2>1. (y \o z)[i] = IF i <= b - a THEN y[i] ELSE z[i - (b - a)]
    BY <1>2, <1>4, <1>5
  <2>2. CASE i <= b - a
    <3>1. i \in 1 .. b - a
      BY <1>0, <2>2
    <3>. QED
      BY <1>1, <1>2, <2>1, <2>2, <3>1
  <2>3. CASE ~(i <= b - a)
    <3>1. i - (b - a) \in 1 .. l - b /\ b + (i - (b - a)) = a + i /\ ~(i <= b - a)
      BY <1>0, <2>3
    <3>2. z[i - (b - a)] = s[b + (i - (b - a))]
      BY <1>3, <3>1
    <3>. QED
      BY <1>1, <2>1, <3>1, <3>2
  <2>. QED
    BY <2>2, <2>3
<1>7. y \o z = x
  BY <1>1, <1>4, <1>5, <1>6, SeqEqual
<1>. QED
  BY <1>7 DEF x, y, z, l

\* The smaller of two numbers.
LEMMA MinOfTwo ==
  ASSUME NEW a \in Nat, NEW b \in Nat
  PROVE  Min({a, b}) = IF a <= b THEN a ELSE b
<1>1. {a, b} \in SUBSET Nat /\ {a, b} # {}
  OBVIOUS
<1>2. Min({a, b}) \in {a, b} /\ \A n \in {a, b} : Min({a, b}) <= n
  BY <1>1, MinOfNats
<1>3. Min({a, b}) <= a /\ Min({a, b}) <= b /\ (Min({a, b}) = a \/ Min({a, b}) = b)
  BY <1>2
<1>. QED
  BY <1>3

\* What is left of the input is what YY_INPUT takes and what is left then.
LEMMA InputIs ==
  ASSUME LexTypeOK, NEW k \in Nat
  PROVE  LET read == YyInput(k)
             off == parsing_offset + Len(read)
         IN  /\ read \in Seq(Chars) /\ Len(read) \in 0 .. k
             /\ off \in 0 .. Len(parsing_buf)
             /\ Rest = read \o SubSeq(parsing_buf, off + 1, Len(parsing_buf))
             /\ k > 0 /\ read = <<>> => Rest = <<>>
<1>. DEFINE s == parsing_buf
            a == parsing_offset
            l == Len(s)
            b == Min({l, a + k})
            read == YyInput(k)
<1>1. s \in Seq(Chars) /\ a \in Nat /\ a <= l /\ l \in Nat
  BY DEF LexTypeOK
<1>2. b = IF l <= a + k THEN l ELSE a + k
  <2>1. a + k \in Nat
    BY <1>1
  <2>. HIDE DEF l, a
  <2>. QED
    BY <1>1, <2>1, MinOfTwo
<1>. HIDE DEF b
<1>3. b \in a .. l /\ b \in a .. Len(s) /\ a \in 0 .. Len(s) /\ b - a \in 0 .. k /\ b \in Nat
      /\ (k > 0 /\ b - a = 0 => a = l) /\ a + (b - a) = b
  BY <1>1, <1>2
<1>4. read = SubSeq(s, a + 1, b)
  BY DEF YyInput, b
<1>5. read \in Seq(Chars) /\ Len(read) = b - a
  BY <1>1, <1>3, <1>4, SubSeqType
<1>6. Rest = read \o SubSeq(s, b + 1, l)
  BY <1>1, <1>3, <1>4, SplitIs DEF Rest
<1>7. ASSUME k > 0, read = <<>>
      PROVE  Rest = <<>>
  <2>1. Len(read) = 0
    BY <1>7
  <2>2. a = l
    BY <1>3, <1>5, <1>7, <2>1
  <2>3. Rest \in Seq(Chars) /\ Len(Rest) = l - a
    BY HeldType
  <2>4. Len(Rest) = 0
    BY <1>1, <2>2, <2>3
  <2>. QED
    BY <2>3, <2>4, EmptySeq
<1>. HIDE DEF read, a, s, l
<1>8. a + Len(read) = b /\ b \in 0 .. l /\ Len(read) \in 0 .. k
  BY <1>1, <1>3, <1>5
<1>. QED
  BY <1>5, <1>6, <1>7, <1>8 DEF read, a, s, l

\* yy_get_next_buffer(): what has been matched is all that is left in the buffer, what
\* is read is the head of the rest, and both fit in the buffer.
LEMMA NextBufferIs ==
  ASSUME LexIInv, NEW read, NextBuffer(read)
  PROVE  LET q == Len(Matched) IN
         /\ Matched \in Seq(Chars) /\ q \in Nat /\ Matched = SubSeq(Unread, 1, q)
         /\ Unread \in Seq(Chars) /\ Rest \in Seq(Chars)
         /\ Unread = Matched \o Rest /\ StateIn(Unread, q) \notin Ended
         /\ q \in 0 .. Len(Unread)
         /\ read \in Seq(Chars) /\ Rest = read \o Rest' /\ Rest' \in Seq(Chars)
         /\ parsing_offset' \in 0 .. Len(parsing_buf') /\ parsing_buf' = parsing_buf
         /\ yy_buf_size' \in Nat /\ yy_buf_size' > 0 /\ q + Len(read) <= yy_buf_size'
         /\ read = <<>> => Pending \/ Rest = <<>>
         /\ Pending => q = 0 /\ read = <<>>
<1>. DEFINE n == yy_n_chars
            b == yytext_ptr
            q == Len(Matched)
            u == Unread
            size == IF Pending THEN yy_buf_size ELSE Grown(yy_buf_size, q)
            k == Min({size - q - 1, ReadSize})
<1>t. LexTypeOK /\ AtEndOfBuffer /\ yy_c_buf_p > n
  BY DEF LexIInv, NextBuffer
<1>1. /\ read = IF Pending THEN <<>> ELSE YyInput(k)
      /\ yy_buf_size' = size
      /\ parsing_offset' = parsing_offset + Len(read)
      /\ parsing_buf' = parsing_buf
  BY DEF NextBuffer, Pending
<1>2. /\ yylex.cp - 1 - b \in Nat /\ b + (yylex.cp - 1 - b) = yylex.cp - 1
      /\ yylex.cp - 1 - b <= n - b
      /\ n \in Nat /\ b \in Nat /\ yylex.cp = yy_c_buf_p /\ From = b
      /\ u \in Seq(Chars) /\ Len(u) = (n - b) + Len(Rest) /\ Len(Rest) \in Nat /\ Rest \in Seq(Chars)
      /\ Matched = SubSeq(u, 1, yylex.cp - 1 - b) /\ q = yylex.cp - 1 - b
      /\ Matched \in Seq(Chars) /\ Matched = SubSeq(Held, b + 1, b + (yylex.cp - 1 - b))
      /\ StateIn(u, yylex.cp - 1 - b) \notin Ended
      /\ Pending => b = n
  BY <1>t, MatchedIs
<1>c. yylex.cp \in Nat
  BY <1>t DEF LexTypeOK
<1>3. yylex.cp - 1 - b = q /\ q \in Nat /\ b + q = n /\ q = n - b
  <2>1. /\ yylex.cp > n /\ yylex.cp - 1 - b <= n - b /\ n \in Nat /\ b \in Nat /\ q = yylex.cp - 1 - b
        /\ yylex.cp - 1 - b \in Nat
    BY <1>t, <1>2
  <2>. HIDE DEF q, b, n
  <2>2. yylex.cp - 1 = n
    BY <1>c, <2>1
  <2>. QED
    BY <1>c, <2>1, <2>2
<1>4. Unread = Matched \o Rest
  <2>1. Matched = SubSeq(Held, b + 1, n)
    <3>1. b + (yylex.cp - 1 - b) = n
      BY <1>2, <1>3
    <3>. QED
      BY <1>2, <3>1
  <2>2. InBuffer = SubSeq(Held, b + 1, n)
    BY <1>2 DEF InBuffer
  <2>. QED
    BY <2>1, <2>2 DEF Unread, Rest
<1>5. Matched = SubSeq(u, 1, q) /\ StateIn(u, q) \notin Ended
  BY <1>2, <1>3
<1>. HIDE DEF n, b, u, q
<1>6. q \in 0 .. Len(u)
  BY <1>2, <1>3
<1>7. Pending => q = 0 /\ read = <<>>
  BY <1>1, <1>2, <1>3
<1>s. yy_buf_size \in Nat /\ yy_buf_size > 0 /\ n <= yy_buf_size
  BY <1>t DEF LexTypeOK, n
<1>8. CASE Pending
  <2>1. read = <<>> /\ size = yy_buf_size /\ q = 0 /\ Len(read) = 0
    BY <1>1, <1>7, <1>8
  <2>2. parsing_offset' = parsing_offset /\ parsing_offset \in 0 .. Len(parsing_buf)
    BY <1>1, <1>t, <2>1 DEF LexTypeOK
  <2>3. Rest' = Rest
    BY <1>1, <2>2 DEF Rest
  <2>4. Rest = read \o Rest' /\ read \in Seq(Chars)
    BY <1>2, <2>1, <2>3, ConcatEmptySeq
  <2>. HIDE DEF size, k
  <2>5. q + Len(read) <= yy_buf_size' /\ yy_buf_size' \in Nat /\ yy_buf_size' > 0
    BY <1>1, <1>s, <2>1
  <2>. QED
    BY <1>1, <1>2, <1>3, <1>4, <1>5, <1>6, <1>7, <1>8, <2>2, <2>3, <2>4, <2>5 DEF q, u
<1>9. CASE ~Pending
  <2>1. size \in Nat /\ size >= yy_buf_size /\ size > q + 1
    <3>1. size = Grown(yy_buf_size, q)
      BY <1>9
    <3>. QED
      BY <1>3, <1>s, <3>1, GrownIs
  <2>2. read = YyInput(k)
    BY <1>1, <1>9
  <2>. HIDE DEF size
  <2>3. k \in Nat /\ k > 0 /\ k <= size - q - 1
    <3>1. size - q - 1 \in Nat /\ size - q - 1 > 0
      BY <1>3, <2>1
    <3>2. ReadSize \in Nat /\ ReadSize > 0
      BY SizesAssumption
    <3>3. k = IF size - q - 1 <= ReadSize THEN size - q - 1 ELSE ReadSize
      BY <3>1, <3>2, MinOfTwo
    <3>. HIDE DEF k
    <3>. QED
      BY <3>1, <3>2, <3>3
  <2>. HIDE DEF k
  <2>4. /\ read \in Seq(Chars) /\ Len(read) \in 0 .. k
        /\ parsing_offset + Len(read) \in 0 .. Len(parsing_buf)
        /\ Rest = read \o SubSeq(parsing_buf, (parsing_offset + Len(read)) + 1, Len(parsing_buf))
        /\ (read = <<>> => Rest = <<>>)
    <3>1. LET r == YyInput(k)
              off == parsing_offset + Len(r)
          IN  /\ r \in Seq(Chars) /\ Len(r) \in 0 .. k
              /\ off \in 0 .. Len(parsing_buf)
              /\ Rest = r \o SubSeq(parsing_buf, off + 1, Len(parsing_buf))
              /\ k > 0 /\ r = <<>> => Rest = <<>>
      BY <1>t, <2>3, InputIs
    <3>. QED
      BY <2>2, <2>3, <3>1
  <2>5. Rest' = SubSeq(parsing_buf, (parsing_offset + Len(read)) + 1, Len(parsing_buf))
    BY <1>1 DEF Rest
  <2>6. Rest' \in Seq(Chars)
    <3>1. /\ parsing_offset + Len(read) \in Nat
          /\ Len(parsing_buf) \in parsing_offset + Len(read) .. Len(parsing_buf)
          /\ parsing_buf \in Seq(Chars)
      BY <1>t, <2>4 DEF LexTypeOK
    <3>. QED
      BY <2>5, <3>1, SubSeqType
  <2>7. q + Len(read) <= yy_buf_size' /\ yy_buf_size' \in Nat /\ yy_buf_size' > 0
    <3>1. Len(read) \in Nat /\ Len(read) <= k
      BY <2>3, <2>4
    <3>2. yy_buf_size' = size
      BY <1>1
    <3>. QED
      BY <1>3, <1>s, <2>1, <2>3, <3>1, <3>2
  <2>8. parsing_offset' \in 0 .. Len(parsing_buf') /\ parsing_buf' = parsing_buf /\ Rest = read \o Rest'
    BY <1>1, <2>4, <2>5
  <2>. QED
    BY <1>2, <1>3, <1>4, <1>5, <1>6, <1>9, <2>4, <2>6, <2>7, <2>8 DEF q, u
<1>. QED
  BY <1>8, <1>9

\* The buffer after a refill: what has been matched, what has been read and the two
\* end-of-buffer characters.
LEMMA FilledIs ==
  ASSUME NEW x \in Seq(Chars), NEW y \in Seq(Chars)
  PROVE  LET f == x \o y \o EOB
             n == Len(x) + Len(y)
         IN  /\ f \in Seq(Chars) /\ n \in Nat /\ Len(f) = n + 2 /\ f[n + 1] = NUL /\ f[n + 2] = NUL
             /\ SubSeq(f, 1, n) = x \o y
<1>. DEFINE z == x \o y
            f == z \o EOB
            n == Len(x) + Len(y)
<1>1. z \in Seq(Chars) /\ Len(z) = n /\ n \in Nat
  BY ConcatProperties
<1>. HIDE DEF z, n
<1>2. /\ f \in Seq(Chars) /\ Len(f) = n + 2
      /\ \A i \in 1 .. n + 2 : f[i] = IF i <= n THEN z[i] ELSE EOB[i - n]
  <2>1. EOB \in Seq(Chars) /\ Len(EOB) = 2
    BY CharsType
  <2>. HIDE DEF f
  <2>2. /\ z \o EOB \in Seq(Chars) /\ Len(z \o EOB) = Len(z) + Len(EOB)
        /\ \A i \in 1 .. Len(z) + Len(EOB) :
             (z \o EOB)[i] = IF i <= Len(z) THEN z[i] ELSE EOB[i - Len(z)]
    BY <1>1, <2>1, ConcatProperties
  <2>. QED
    BY <1>1, <2>1, <2>2 DEF f
<1>. HIDE DEF f
<1>3. f[n + 1] = NUL /\ f[n + 2] = NUL
  <2>1. n + 1 \in 1 .. n + 2 /\ n + 2 \in 1 .. n + 2 /\ (n + 1) - n = 1 /\ (n + 2) - n = 2
        /\ ~(n + 1 <= n) /\ ~(n + 2 <= n)
    BY <1>1
  <2>2. EOB[1] = NUL /\ EOB[2] = NUL
    BY CharsType
  <2>. QED
    BY <1>2, <2>1, <2>2
<1>4. SubSeq(f, 1, n) = z
  <2>1. n \in 0 .. Len(f) /\ n - 0 = n /\ 0 + 1 = 1 /\ 0 \in Nat
    BY <1>1, <1>2
  <2>2. /\ SubSeq(f, 0 + 1, n) \in Seq(Chars) /\ Len(SubSeq(f, 0 + 1, n)) = n - 0
        /\ \A i \in 1 .. n - 0 : SubSeq(f, 0 + 1, n)[i] = f[0 + i]
    BY <1>2, <2>1, SubSeqType
  <2>3. \A i \in 1 .. n : f[0 + i] = z[i]
    <3>1. \A i \in 1 .. n : 0 + i = i /\ i \in 1 .. n + 2 /\ i <= n
      BY <1>1
    <3>. QED
      BY <1>2, <3>1
  <2>4. \A i \in 1 .. n : SubSeq(f, 1, n)[i] = z[i]
    BY <2>1, <2>2, <2>3
  <2>. QED
    BY <1>1, <2>1, <2>2, <2>4, SeqEqual
<1>. QED
  BY <1>1, <1>2, <1>3, <1>4 DEF f, n, z

\* Concatenation is associative.
LEMMA CharsConcat ==
  ASSUME NEW x \in Seq(Chars), NEW y \in Seq(Chars), NEW z \in Seq(Chars)
  PROVE  (x \o y) \o z = x \o (y \o z)
BY ConcatAssociative

\* With no step there is no last accepting state but that before.
LEMMA NoneLast ==
  ASSUME NEW path
  PROVE  LastAccepting(path, 0, 0) = yy_last_accepting
<1>1. 0 \in Nat /\ \A k \in 0 .. 0 - 1 : FALSE
  OBVIOUS
<1>. QED
  BY <1>1, LastAcceptingIs

\* What is true after a refill, wherever yylex() goes on.
LEMMA RefilledIs ==
  ASSUME LexIInv, NEW read, NextBuffer(read), Refilled(read),
         yylex'.pc \in {"match", "find"}, yylex'.bp = 0
  PROVE  LET q == Len(Matched) IN
         /\ Held' = yy_ch_buf' /\ Unread' = Unread /\ yy_c_buf_p' = q
         /\ yy_n_chars' = q + Len(read)
         /\ yy_ch_buf' \in Seq(Chars) /\ yy_n_chars' \in Nat /\ Len(yy_ch_buf') = yy_n_chars' + 2
         /\ yy_buf_size' \in Nat /\ yy_n_chars' <= yy_buf_size' /\ yy_buf_size' > 0
         /\ parsing_buf' \in Seq(Chars) /\ parsing_offset' \in 0 .. Len(parsing_buf')
         /\ yytext_ptr' \in Nat /\ yy_c_buf_p' \in yytext_ptr' .. yy_n_chars' + 1
         /\ yy_hold_char' \in Chars
         /\ Held'[yy_n_chars' + 1] = NUL /\ Held'[yy_n_chars' + 2] = NUL
         /\ Replay(Matched)[q] = StateIn(Unread, q) /\ StateIn(Unread, q) \in 0 .. 20
         /\ q > 0 => LastIn(Unread, q, 0, yy_last_accepting')
         /\ yy_last_accepting' \in [state : 0 .. 20, cpos : Nat]
<1>. DEFINE q == Len(Matched)
            u == Unread
            f == Matched \o read \o EOB
<1>t. LexTypeOK
  BY DEF LexIInv
<1>1. /\ Matched \in Seq(Chars) /\ q \in Nat /\ Matched = SubSeq(u, 1, q)
      /\ u \in Seq(Chars) /\ Rest \in Seq(Chars)
      /\ u = Matched \o Rest /\ q \in 0 .. Len(u)
      /\ read \in Seq(Chars) /\ Rest = read \o Rest' /\ Rest' \in Seq(Chars)
      /\ parsing_offset' \in 0 .. Len(parsing_buf') /\ parsing_buf' = parsing_buf
      /\ yy_buf_size' \in Nat /\ yy_buf_size' > 0 /\ q + Len(read) <= yy_buf_size'
  BY NextBufferIs
<1>2. /\ yy_ch_buf' = f /\ yy_n_chars' = q + Len(read) /\ yytext_ptr' = 0 /\ yy_c_buf_p' = q
      /\ yy_last_accepting' = LastAccepting(Replay(Matched), q, 0)
      /\ yy_hold_char' = yy_hold_char
  BY DEF Refilled, Moved
<1>3. /\ f \in Seq(Chars) /\ q + Len(read) \in Nat /\ Len(f) = (q + Len(read)) + 2
      /\ f[(q + Len(read)) + 1] = NUL /\ f[(q + Len(read)) + 2] = NUL
      /\ SubSeq(f, 1, q + Len(read)) = Matched \o read
  BY <1>1, FilledIs
<1>4. Held' = yy_ch_buf' /\ From' = 0
  BY DEF Held, From
<1>5. Unread' = u
  <2>1. InBuffer' = SubSeq(Held', From' + 1, yy_n_chars')
    BY DEF InBuffer
  <2>2. InBuffer' = SubSeq(f, 0 + 1, q + Len(read))
    BY <1>2, <1>4, <2>1
  <2>3. InBuffer' = Matched \o read
    <3>1. 0 + 1 = 1
      OBVIOUS
    <3>2. SubSeq(f, 1, q + Len(read)) = Matched \o read
      BY <1>3
    <3>. HIDE DEF f, q
    <3>. QED
      BY <2>2, <3>1, <3>2, Zenon
  <2>4. Unread' = InBuffer' \o Rest'
    BY DEF Unread, Rest
  <2>5. (Matched \o read) \o Rest' = Matched \o (read \o Rest')
    <3>1. Matched \in Seq(Chars) /\ read \in Seq(Chars) /\ Rest' \in Seq(Chars)
      BY <1>1
    <3>. QED
      BY <3>1, CharsConcat
  <2>. QED
    BY <1>1, <2>3, <2>4, <2>5
<1>. HIDE DEF u, q, f
<1>6. \A k \in 0 .. q : Replay(Matched)[k] = StateIn(u, k)
  BY <1>1, ReplayIn
<1>7. StateIn(u, q) \in 0 .. 20 /\ Replay(Matched)[q] = StateIn(u, q)
  <2>1. StateIn(u, q) \in {1} \cup 4 .. 20
    BY <1>1, StateInType
  <2>2. q \in 0 .. q
    BY <1>1
  <2>. QED
    BY <1>6, <2>1, <2>2
<1>8. ASSUME q > 0
      PROVE  LastIn(u, q, 0, yy_last_accepting')
  <2>1. \A k \in 0 .. q - 1 : Replay(Matched)[k] = StateIn(u, 0 + k)
    <3>1. \A k \in 0 .. q - 1 : k \in 0 .. q /\ 0 + k = k
      BY <1>1
    <3>. QED
      BY <1>6, <3>1
  <2>2. 0 \in Nat /\ ~(0 > 0) /\ 0 + q = q /\ 0 + 0 = 0
    BY <1>1
  <2>3. LastIn(u, 0 + q, 0, LastAccepting(Replay(Matched), q, 0 + 0))
    BY <1>1, <1>8, <2>1, <2>2, LastOn
  <2>. QED
    BY <1>2, <2>2, <2>3
<1>9. yy_last_accepting' \in [state : 0 .. 20, cpos : Nat]
  <2>1. CASE q > 0
    <3>1. q \in 0 .. Len(u) + 1 /\ 0 \in Nat
      BY <1>1
    <3>. QED
      BY <1>1, <1>8, <2>1, <3>1, LastInType
  <2>2. CASE q = 0
    <3>3. LastAccepting(Replay(Matched), q, 0) = yy_last_accepting
      BY <2>2, NoneLast
    <3>. QED
      BY <1>2, <1>t, <3>3 DEF LexTypeOK
  <2>. QED
    BY <1>1, <2>1, <2>2
<1>10. q \in 0 .. (q + Len(read)) + 1
  <2>1. Len(read) \in Nat
    BY <1>1
  <2>. QED
    BY <1>1, <2>1
<1>11. parsing_buf \in Seq(Chars) /\ yy_hold_char \in Chars
  BY <1>t DEF LexTypeOK
<1>. QED
  BY <1>1, <1>2, <1>3, <1>4, <1>5, <1>7, <1>8, <1>9, <1>10, <1>11 DEF q, u

\* More of the input has been read.
LEMMA ContinueScanStep ==
  ASSUME LexIInv, NEW read, ContinueScan(read)
  PROVE  LexIInv' /\ Unread' = Unread
<1>. DEFINE q == Len(Matched)
            u == Unread
<1>1. /\ NextBuffer(read) /\ Refilled(read) /\ yy_buffer_status' = "NORMAL"
      /\ yylex' = [pc |-> "match", state |-> Replay(Matched)[q], bp |-> 0, cp |-> q, act |-> 0]
  BY DEF ContinueScan, Local
<1>2. yylex'.pc = "match" /\ yylex'.bp = 0
  BY <1>1
<1>3. /\ q \in Nat /\ StateIn(u, q) \notin Ended /\ read \in Seq(Chars)
  BY <1>1, NextBufferIs
<1>4. /\ Held' = yy_ch_buf' /\ Unread' = u
      /\ yy_n_chars' = q + Len(read)
      /\ yy_ch_buf' \in Seq(Chars) /\ yy_n_chars' \in Nat /\ Len(yy_ch_buf') = yy_n_chars' + 2
      /\ yy_buf_size' \in Nat /\ yy_n_chars' <= yy_buf_size' /\ yy_buf_size' > 0
      /\ parsing_buf' \in Seq(Chars) /\ parsing_offset' \in 0 .. Len(parsing_buf')
      /\ yytext_ptr' \in Nat /\ yy_c_buf_p' \in yytext_ptr' .. yy_n_chars' + 1
      /\ yy_hold_char' \in Chars
      /\ Held'[yy_n_chars' + 1] = NUL /\ Held'[yy_n_chars' + 2] = NUL
      /\ Replay(Matched)[q] = StateIn(u, q) /\ StateIn(u, q) \in 0 .. 20
      /\ q > 0 => LastIn(u, q, 0, yy_last_accepting')
      /\ yy_last_accepting' \in [state : 0 .. 20, cpos : Nat]
  BY <1>1, <1>2, RefilledIs
<1>. HIDE DEF q, u
<1>5. LexTypeOK'
  <2>1. yylex' \in [pc : {"loop", "match", "find", "act", "out"}, state : 0 .. 20, bp : Nat,
                    cp : Nat, act : 0 .. EndOfBuffer]
    BY <1>1, <1>3, <1>4 DEF EndOfBuffer
  <2>. QED
    BY <1>1, <1>4, <2>1 DEF LexTypeOK
<1>6. AtMatch'
  <2>1. /\ yylex'.bp = 0 /\ yylex'.cp = q /\ q - 0 = q /\ 0 <= q /\ q <= yy_n_chars'
        /\ yylex'.state = StateIn(u, q)
    <3>1. Len(read) \in Nat
      BY <1>3
    <3>2. q <= q + Len(read)
      BY <1>3, <3>1
    <3>. QED
      BY <1>1, <1>3, <1>4, <3>2
  <2>2. ~Pending'
    BY <1>1 DEF Pending
  <2>. QED
    BY <1>3, <1>4, <2>1, <2>2 DEF AtMatch
<1>7. LexIInv'
  BY <1>2, <1>5, <1>6 DEF LexIInv, AtHead, AtFind, AtLexeme, AtNul, AtEndOfBuffer
<1>. QED
  BY <1>4, <1>7 DEF u

\* A text that the automaton does not accept has had its last lexeme in front of ones.
LEMMA GapState ==
  ASSUME NEW u \in Seq(Chars), NEW k \in 1 .. Len(u), StateIn(u, k) = 16
  PROVE  \A i \in 2 .. k : u[i] = ONE
<1>. DEFINE t == SubSeq(u, 1, k)
<1>0. k \in Nat /\ k > 0 /\ k \in 0 .. Len(u) /\ 0 \in Nat /\ 0 + 1 = 1 /\ k - 0 = k
  OBVIOUS
<1>1. t \in Seq(Chars) /\ Len(t) = k /\ \A i \in 1 .. k : t[i] = u[i]
  <2>1. /\ SubSeq(u, 0 + 1, k) \in Seq(Chars) /\ Len(SubSeq(u, 0 + 1, k)) = k - 0
        /\ \A i \in 1 .. k - 0 : SubSeq(u, 0 + 1, k)[i] = u[0 + i]
    BY <1>0, SubSeqType
  <2>2. \A i \in 1 .. k : 0 + i = i
    OBVIOUS
  <2>. QED
    BY <1>0, <2>1, <2>2
<1>2. StateOf(t) = 16
  BY DEF StateIn
<1>. HIDE DEF t
<1>3. k # 1
  <2>1. ASSUME k = 1
        PROVE  FALSE
    <3>1. Accepting(u, k)
      BY <1>0, <2>1, StateInType
    <3>2. Accepts(16) = 0
      BY DEF Accepts, dfa
    <3>. QED
      BY <3>1, <3>2 DEF Accepting
  <2>. QED
    BY <2>1
<1>4. Gap(t)
  <2>1. ~(k = 0) /\ ~(k = 1)
    BY <1>0, <1>3
  <2>2. StateOf(t) = IF t = <<CR, LF>> THEN 17
                     ELSE IF Blanks2(t) THEN IF k = 2 THEN 15 ELSE 18
                     ELSE IF Gap(t) THEN 16
                     ELSE IF k > 2 /\ Gap(SubSeq(t, 1, k - 1)) /\ t[k] \in Blank THEN 19
                     ELSE 20
    BY <1>1, <2>1, Zenon DEF StateOf, Jam
  <2>. HIDE DEF StateOf
  <2>. QED
    BY <1>2, <2>2
<1>5. \A i \in 2 .. Len(t) : t[i] = ONE
  BY <1>4 DEF Gap
<1>6. \A i \in 2 .. k : i \in 1 .. k
  OBVIOUS
<1>. QED
  BY <1>1, <1>5, <1>6

\* The end of the file, behind what has been matched.
LEMMA LastMatchStep ==
  ASSUME LexIInv, LastMatch
  PROVE  LexIInv' /\ Unread' = Unread
<1>. DEFINE q == Len(Matched)
            u == Unread
            none == <<>>
<1>1. /\ NextBuffer(none) /\ Refilled(none) /\ yy_buffer_status' = "EOF_PENDING" /\ Matched # <<>>
      /\ yylex' = [pc |-> "find", state |-> Replay(Matched)[q], bp |-> 0, cp |-> q, act |-> 0]
  BY DEF LastMatch, Local
<1>2. yylex'.pc = "find" /\ yylex'.bp = 0 /\ yylex'.cp = q
  BY <1>1
<1>3. /\ Matched \in Seq(Chars) /\ q \in Nat /\ u \in Seq(Chars) /\ q \in 0 .. Len(u)
      /\ u = Matched \o Rest /\ Rest \in Seq(Chars) /\ StateIn(u, q) \notin Ended
      /\ Pending \/ Rest = <<>>
      /\ Pending => q = 0
  BY <1>1, NextBufferIs
<1>4. /\ Held' = yy_ch_buf' /\ Unread' = u /\ yy_n_chars' = q + Len(none)
      /\ yy_ch_buf' \in Seq(Chars) /\ yy_n_chars' \in Nat /\ Len(yy_ch_buf') = yy_n_chars' + 2
      /\ yy_buf_size' \in Nat /\ yy_n_chars' <= yy_buf_size' /\ yy_buf_size' > 0
      /\ parsing_buf' \in Seq(Chars) /\ parsing_offset' \in 0 .. Len(parsing_buf')
      /\ yytext_ptr' \in Nat /\ yy_c_buf_p' \in yytext_ptr' .. yy_n_chars' + 1
      /\ yy_hold_char' \in Chars
      /\ Held'[yy_n_chars' + 1] = NUL /\ Held'[yy_n_chars' + 2] = NUL
      /\ Replay(Matched)[q] = StateIn(u, q) /\ StateIn(u, q) \in 0 .. 20
      /\ q > 0 => LastIn(u, q, 0, yy_last_accepting')
      /\ yy_last_accepting' \in [state : 0 .. 20, cpos : Nat]
  BY <1>1, <1>2, RefilledIs
<1>5. q > 0
  <2>1. q # 0
    BY <1>1, <1>3, EmptySeq
  <2>. QED
    BY <1>3, <2>1
<1>6. Rest = <<>> /\ Len(u) = q
  <2>1. Rest = <<>>
    BY <1>3, <1>5
  <2>. QED
    BY <1>3, <2>1, ConcatEmptySeq
<1>7. Len(none) = 0 /\ yy_n_chars' = q
  BY <1>3, <1>4
<1>. HIDE DEF q, u, none
<1>8. LexTypeOK'
  <2>1. yylex' \in [pc : {"loop", "match", "find", "act", "out"}, state : 0 .. 20, bp : Nat,
                    cp : Nat, act : 0 .. EndOfBuffer]
    BY <1>1, <1>3, <1>4 DEF EndOfBuffer
  <2>. QED
    BY <1>1, <1>4, <2>1 DEF LexTypeOK
<1>9. Longest(u, q)
  BY <1>3, <1>6 DEF Longest
<1>10. ASSUME Accepts(StateIn(u, q)) = 0
       PROVE  Ones(Held', yy_last_accepting'.cpos, q)
  <2>1. StateIn(u, q) = 16
    <3>1. StateIn(u, q) \in {1} \cup 4 .. 20
      BY <1>3, StateInType
    <3>. QED
      BY <1>3, <1>10, <3>1, AcceptFacts DEF Ended, Jam
  <2>2. q \in 1 .. Len(u)
    BY <1>3, <1>5
  <2>3. \A i \in 2 .. q : u[i] = ONE
    BY <1>3, <2>1, <2>2, GapState
  <2>4. PICK k \in 1 .. q - 1 : yy_last_accepting' = [state |-> StateIn(u, k), cpos |-> 0 + k]
    <3>1. ~Accepting(u, q) /\ 0 \in Nat
      BY <1>10 DEF Accepting
    <3>2. LastIn(u, q, 0, yy_last_accepting')
      BY <1>4, <1>5
    <3>3. \E k \in 1 .. q - 1 : /\ Accepting(u, k) /\ Longest(u, k)
                                /\ yy_last_accepting' = [state |-> StateIn(u, k), cpos |-> 0 + k]
      <4>. DEFINE b == 0
                  last == yy_last_accepting'
      <4>1. u \in Seq(Chars) /\ q \in 1 .. Len(u) /\ b \in Nat /\ LastIn(u, q, b, last)
            /\ ~Accepting(u, q) /\ Longest(u, q)
        BY <1>3, <1>9, <2>2, <3>1, <3>2
      <4>. HIDE DEF b, last
      <4>2. \E k \in 1 .. q - 1 : /\ Accepting(u, k) /\ Longest(u, k)
                                  /\ last = [state |-> StateIn(u, k), cpos |-> b + k]
        BY <4>1, BackTo
      <4>. QED
        BY <4>2 DEF b, last
    <3>. QED
      BY <3>3
  <2>5. yy_last_accepting'.cpos = k
    BY <2>4
  <2>6. ASSUME NEW i \in k + 1 .. q
        PROVE  Held'[i] = ONE
    <3>1. i \in 2 .. q /\ i \in 1 .. q - 0 /\ 0 + i = i
      BY <1>3, <1>5, <2>4
    <3>2. u[i] = ONE
      BY <2>3, <3>1
    <3>3. u[i] = Held'[i]
      <4>1. InBuffer' = SubSeq(Held', 1, q)
        <5>1. InBuffer' = SubSeq(Held', From' + 1, yy_n_chars')
          BY DEF InBuffer
        <5>2. From' = 0
          BY <1>2 DEF From
        <5>3. 0 + 1 = 1
          OBVIOUS
        <5>. QED
          BY <1>7, <5>1, <5>2, <5>3
      <4>2. u = InBuffer' \o Rest' /\ Rest' \in Seq(Chars)
        <5>1. Rest' \in Seq(Chars)
          BY <1>1, NextBufferIs
        <5>2. Unread' = InBuffer' \o Rest'
          BY DEF Unread, Rest
        <5>. QED
          BY <1>4, <5>1, <5>2
      <4>3. /\ SubSeq(Held', 0 + 1, q) \in Seq(Chars) /\ Len(SubSeq(Held', 0 + 1, q)) = q - 0
            /\ \A j \in 1 .. q - 0 : SubSeq(Held', 0 + 1, q)[j] = Held'[0 + j]
        <5>1. Held' \in Seq(Chars) /\ q \in 0 .. Len(Held') /\ 0 \in Nat
          BY <1>3, <1>4, <1>7
        <5>. QED
          BY <5>1, SubSeqType
      <4>4. 0 + 1 = 1 /\ q - 0 = q
        BY <1>3
      <4>5. InBuffer' \in Seq(Chars) /\ Len(InBuffer') = q /\ InBuffer'[i] = Held'[i]
        BY <3>1, <4>1, <4>3, <4>4
      <4>6. (InBuffer' \o Rest')[i] = InBuffer'[i]
        <5>1. i \in 1 .. Len(InBuffer') + Len(Rest') /\ i <= Len(InBuffer')
          <6>1. Len(Rest') \in Nat
            BY <4>2
          <6>. QED
            BY <1>3, <3>1, <4>5, <6>1
        <5>. QED
          BY <4>2, <4>5, <5>1, ConcatProperties
      <4>. QED
        BY <4>2, <4>5, <4>6
    <3>. QED
      BY <3>2, <3>3
  <2>. QED
    BY <2>5, <2>6 DEF Ones
<1>11. Ones(Held', q, q)
  <2>1. \A i \in q + 1 .. q : FALSE
    BY <1>3
  <2>. QED
    BY <2>1 DEF Ones
<1>12. Found'
  <2>1. /\ yylex'.bp = 0 /\ yylex'.cp = q /\ q - 0 = q /\ 0 < q /\ q <= yy_n_chars'
        /\ yylex'.state = StateIn(u, q)
    BY <1>1, <1>3, <1>4, <1>5, <1>7
  <2>. QED
    BY <1>4, <1>5, <1>7, <1>9, <1>10, <1>11, <2>1 DEF Found
<1>13. LexIInv'
  BY <1>2, <1>8, <1>12 DEF LexIInv, AtHead, AtMatch, AtFind, AtLexeme, AtNul, AtEndOfBuffer
<1>. QED
  BY <1>4, <1>13 DEF u

\* The end of the file with nothing in front of it: the buffer is flushed.
LEMMA EndOfFileStep ==
  ASSUME LexIInv, EndOfFile
  PROVE  /\ LexIInv' /\ Unread' = Unread
         /\ Unread = <<>> \/ Pending
<1>. DEFINE none == <<>>
<1>t. LexTypeOK
  BY DEF LexIInv
<1>1. /\ NextBuffer(none) /\ Matched = <<>> /\ yy_ch_buf' = EOB /\ yy_buffer_status' = "NEW"
      /\ yy_n_chars' = 0 /\ yytext_ptr' = 0 /\ yy_c_buf_p' = 0 /\ yy_hold_char' = NUL
      /\ yylex' = [pc |-> "out", state |-> 0, bp |-> 0, cp |-> 0, act |-> 0]
      /\ yy_last_accepting' = yy_last_accepting
  BY DEF EndOfFile, YyRestart, Local
<1>2. /\ Unread = Matched \o Rest /\ Rest \in Seq(Chars) /\ Rest = none \o Rest' /\ Rest' \in Seq(Chars)
      /\ parsing_offset' \in 0 .. Len(parsing_buf') /\ parsing_buf' = parsing_buf
      /\ yy_buf_size' \in Nat /\ yy_buf_size' > 0
      /\ Pending \/ Rest = <<>>
  BY <1>1, NextBufferIs
<1>3. Unread = Rest /\ Rest = Rest'
  BY <1>1, <1>2, ConcatEmptySeq
<1>4. Held' = EOB
  <2>1. Held' = [EOB EXCEPT ![0 + 1] = NUL]
    BY <1>1 DEF Held, HoldBack, Put
  <2>. QED
    BY <2>1 DEF EOB
<1>5. Unread' = Rest'
  <2>1. InBuffer' = SubSeq(EOB, From' + 1, yy_n_chars')
    BY <1>4 DEF InBuffer
  <2>2. From' = 0 /\ yy_n_chars' = 0 /\ 0 + 1 = 1
    BY <1>1 DEF From
  <2>3. InBuffer' = <<>>
    BY <2>1, <2>2, SubSeqEmpty
  <2>4. Unread' = InBuffer' \o Rest'
    BY DEF Unread, Rest
  <2>. QED
    BY <1>2, <2>3, <2>4, ConcatEmptySeq
<1>6. LexTypeOK'
  <2>1. yylex' \in [pc : {"loop", "match", "find", "act", "out"}, state : 0 .. 20, bp : Nat,
                    cp : Nat, act : 0 .. EndOfBuffer]
    BY <1>1 DEF EndOfBuffer
  <2>2. /\ yy_ch_buf' \in Seq(Chars) /\ yy_n_chars' \in Nat /\ Len(yy_ch_buf') = yy_n_chars' + 2
        /\ yy_n_chars' <= yy_buf_size' /\ yytext_ptr' \in Nat /\ yy_c_buf_p' \in yytext_ptr' .. yy_n_chars' + 1
        /\ yy_hold_char' \in Chars /\ Held'[yy_n_chars' + 1] = NUL /\ Held'[yy_n_chars' + 2] = NUL
    BY <1>1, <1>2, <1>4, CharsType
  <2>. QED
    BY <1>1, <1>2, <1>t, <2>1, <2>2 DEF LexTypeOK
<1>7. AtHead'
  BY <1>1 DEF AtHead, Pending
<1>8. LexIInv'
  BY <1>1, <1>6, <1>7 DEF LexIInv, AtMatch, AtFind, AtLexeme, AtNul, AtEndOfBuffer
<1>. QED
  BY <1>2, <1>3, <1>5, <1>8

\* The invariant says nothing of the grammar's variables.
LEMMA LexUnchanged ==
  ASSUME LexIInv, UNCHANGED lexvars
  PROVE  LexIInv' /\ Unread' = Unread
<1>1. UNCHANGED <<input, buffer, pointers, yy_last_accepting, yylex>>
  BY DEF lexvars
<1>2. Held' = Held /\ From' = From
  BY <1>1 DEF Held, HoldBack, Put, From, buffer, pointers
<1>3. Unread' = Unread
  BY <1>1, <1>2 DEF Unread, InBuffer, input, buffer
<1>4. LexTypeOK'
  BY <1>1, <1>2 DEF LexIInv, LexTypeOK, input, buffer, pointers
<1>5. Pending' = Pending
  BY <1>1 DEF Pending, buffer
<1>6. AtHead'
  BY <1>1, <1>2, <1>5 DEF LexIInv, AtHead, pointers, buffer
<1>7. AtMatch'
  BY <1>1, <1>2, <1>3, <1>5 DEF LexIInv, AtMatch, buffer
<1>8. AtFind'
  BY <1>1, <1>2, <1>3, <1>5 DEF LexIInv, AtFind, Found, HitNul, buffer
<1>9. AtLexeme'
  BY <1>1, <1>2, <1>3, <1>5 DEF LexIInv, AtLexeme, buffer, pointers
<1>10. AtNul'
  BY <1>1, <1>2, <1>3, <1>5 DEF LexIInv, AtNul, AtEndOfBuffer, buffer, pointers
<1>. QED
  BY <1>3, <1>4, <1>6, <1>7, <1>8, <1>9, <1>10 DEF LexIInv

\* A new input follows what is left in the buffer.
LEMMA InputStep ==
  ASSUME LexIInv, yylex.pc = "out", NEW in \in Seq(Chars), SetInput(in),
         UNCHANGED <<buffer, pointers, yy_last_accepting, yylex>>
  PROVE  LexIInv' /\ Unread' = InBuffer \o in
<1>1. parsing_buf' = in /\ parsing_offset' = 0
  BY DEF SetInput
<1>2. Held' = Held /\ From' = From /\ InBuffer' = InBuffer
  BY DEF Held, HoldBack, Put, From, buffer, pointers, InBuffer
<1>3. Unread' = InBuffer \o in
  <2>1. SubSeq(in, 0 + 1, Len(in)) = in
    <3>1. 0 + 1 = 1
      OBVIOUS
    <3>. QED
      BY <3>1, SubSeqFull
  <2>. QED
    BY <1>1, <1>2, <2>1 DEF Unread
<1>4. LexTypeOK'
  <2>1. parsing_offset' \in 0 .. Len(parsing_buf') /\ parsing_buf' \in Seq(Chars)
    BY <1>1
  <2>. QED
    BY <1>2, <2>1 DEF LexIInv, LexTypeOK, buffer, pointers
<1>5. AtHead'
  BY <1>2 DEF LexIInv, AtHead, Pending, pointers, buffer
<1>6. yylex'.pc = "out"
  OBVIOUS
<1>7. LexIInv'
  BY <1>4, <1>5, <1>6 DEF LexIInv, AtMatch, AtFind, AtLexeme, AtNul, AtEndOfBuffer
<1>. QED
  BY <1>3, <1>7

\* The invariant before the first call, when nothing is unread.
LEMMA LexInitIs ==
  ASSUME LexInit
  PROVE  LexIInv /\ Unread = <<>>
<1>1. /\ parsing_buf = <<>> /\ parsing_offset = 0
      /\ yy_ch_buf = EOB /\ yy_buf_size \in BufSizes
      /\ yy_buffer_status = "NEW" /\ yy_n_chars = 0
      /\ yytext_ptr = 0 /\ yy_c_buf_p = 0 /\ yy_hold_char = NUL
      /\ yy_last_accepting = [state |-> 0, cpos |-> 0]
      /\ yylex = [pc |-> "out", state |-> 0, bp |-> 0, cp |-> 0, act |-> 0]
  BY DEF LexInit, Local
<1>2. Held = EOB /\ From = 0
  <2>1. Held = [EOB EXCEPT ![0 + 1] = NUL] /\ From = 0
    BY <1>1 DEF Held, HoldBack, Put, From
  <2>. QED
    BY <2>1 DEF EOB
<1>3. LexTypeOK
  <2>1. yylex \in [pc : {"loop", "match", "find", "act", "out"}, state : 0 .. 20, bp : Nat,
                   cp : Nat, act : 0 .. EndOfBuffer]
    BY <1>1 DEF EndOfBuffer
  <2>2. yy_buf_size \in Nat /\ yy_buf_size > 0
    BY <1>1, SizesAssumption
  <2>3. parsing_buf \in Seq(Chars) /\ parsing_offset \in 0 .. Len(parsing_buf)
    BY <1>1
  <2>. QED
    BY <1>1, <1>2, <2>1, <2>2, <2>3, CharsType DEF LexTypeOK
<1>4. AtHead
  BY <1>1 DEF AtHead, Pending
<1>5. LexIInv
  BY <1>1, <1>3, <1>4 DEF LexIInv, AtMatch, AtFind, AtLexeme, AtNul, AtEndOfBuffer
<1>6. Unread = <<>>
  <2>1. InBuffer = <<>>
    <3>1. InBuffer = SubSeq(Held, 1, 0)
      BY <1>1, <1>2 DEF InBuffer
    <3>. QED
      BY <3>1, SubSeqEmpty
  <2>2. SubSeq(parsing_buf, parsing_offset + 1, Len(parsing_buf)) = <<>>
    <3>1. parsing_offset + 1 = 1 /\ Len(parsing_buf) = 0
      BY <1>1
    <3>. QED
      BY <3>1, SubSeqEmpty
  <2>. QED
    BY <2>1, <2>2 DEF Unread
<1>. QED
  BY <1>5, <1>6

-----------------------------------------------------------------------------
(* The scanner inside the calls.                                           *)

\* The invariant before the first call.
LEMMA InitInv ==
  ASSUME Init
  PROVE  IInv
<1>1. LexIInv
  BY LexInitIs DEF Init
<1>2. yylex.pc = "out"
  BY DEF Init, LexInit, Local
<1>3. script \in Seq(Seq(Chars))
  BY ScriptsAssumption DEF Init
<1>. QED
  BY <1>1, <1>2, <1>3 DEF IInv, InCall

\* A step inside yylex() before it returns.
LEMMA LexStepStep ==
  ASSUME LexIInv, LexStep
  PROVE  /\ LexIInv'
         /\ yylex.pc # "out"
         /\ IF yylex.pc = "act" /\ yylex.act # EndOfBuffer
            THEN Unread' = SubSeq(Unread, 1 + yylex.cp - yytext_ptr, Len(Unread))
            ELSE Unread' = Unread
<1>1. CASE LoopHead
  BY <1>1, LoopHeadStep DEF LoopHead
<1>2. CASE Match
  BY <1>2, MatchStep DEF Match
<1>3. CASE FindAction
  BY <1>3, FindActionStep DEF FindAction
<1>4. CASE Echo
  BY <1>4, TokenStep DEF Echo, EndOfBuffer
<1>5. CASE RealNul
  <2>1. AtEndOfBuffer
    BY <1>5 DEF RealNul
  <2>. QED
    BY <1>5, <2>1, RealNulStep DEF AtEndOfBuffer
<1>6. ASSUME NEW n \in 1 .. Len(parsing_buf), ContinueScan(YyInput(n))
      PROVE  LexIInv' /\ AtEndOfBuffer /\ Unread' = Unread
  <2>1. AtEndOfBuffer
    BY <1>6 DEF ContinueScan, NextBuffer
  <2>. QED
    BY <1>6, <2>1, ContinueScanStep
<1>7. CASE LastMatch
  <2>1. AtEndOfBuffer
    BY <1>7 DEF LastMatch, NextBuffer
  <2>. QED
    BY <1>7, <2>1, LastMatchStep DEF AtEndOfBuffer
<1>8. CASE \E n \in 1 .. Len(parsing_buf) : ContinueScan(YyInput(n))
  BY <1>6, <1>8 DEF AtEndOfBuffer
<1>. QED
  BY <1>1, <1>2, <1>3, <1>4, <1>5, <1>7, <1>8 DEF LexStep

\* Every step keeps the invariant.
LEMMA StepInv ==
  ASSUME IInv, [Next]_vars
  PROVE  IInv'
<1>0. LexIInv /\ InCall /\ script \in Seq(Seq(Chars))
  BY DEF IInv
<1>1. CASE Call
  <2>1. /\ yyresult # "runs" /\ script # <<>> /\ SetInput(Head(script)) /\ script' = Tail(script)
        /\ UNCHANGED <<buffer, pointers, yy_last_accepting, yylex>>
    BY <1>1 DEF Call
  <2>2. yylex.pc = "out"
    BY <1>0, <2>1 DEF InCall, NeedsToken
  <2>3. Head(script) \in Seq(Chars) /\ Tail(script) \in Seq(Seq(Chars))
    BY <1>0, <2>1, HeadTailProperties
  <2>4. LexIInv'
    BY <1>0, <2>1, <2>2, <2>3, InputStep
  <2>. QED
    BY <2>1, <2>2, <2>3, <2>4 DEF IInv, InCall
<1>2. CASE Ask
  <2>1. NeedsToken /\ Yylex /\ UNCHANGED <<gramvars, history>>
    BY <1>2 DEF Ask
  <2>2. LexIInv'
    BY <1>0, <2>1, YylexStep
  <2>3. NeedsToken' /\ script' = script
    BY <2>1 DEF NeedsToken, gramvars, stack, lookahead, history, IsDefault, TopState
  <2>. QED
    BY <1>0, <2>2, <2>3 DEF IInv, InCall
<1>3. CASE Scan
  <2>1. LexStep /\ UNCHANGED <<gramvars, history>>
    BY <1>3 DEF Scan
  <2>2. LexIInv' /\ yylex.pc # "out"
    BY <1>0, <2>1, LexStepStep
  <2>3. NeedsToken
    BY <1>0, <2>2 DEF InCall
  <2>4. NeedsToken' /\ script' = script
    BY <2>1, <2>3 DEF NeedsToken, gramvars, stack, lookahead, history, IsDefault, TopState
  <2>. QED
    BY <1>0, <2>2, <2>4 DEF IInv, InCall
<1>4. CASE GetToken
  <2>1. ReturnToken /\ script' = script
    BY <1>4 DEF GetToken, Reads
  <2>2. LexIInv'
    BY <1>0, <2>1, TokenStep
  <2>3. yylex'.pc = "out"
    BY <1>0, <2>1 DEF ReturnToken, LexIInv, LexTypeOK
  <2>. QED
    BY <1>0, <2>1, <2>2, <2>3 DEF IInv, InCall
<1>5. CASE GetEnd
  <2>1. EndOfFile /\ script' = script
    BY <1>5 DEF GetEnd, Reads
  <2>2. LexIInv'
    BY <1>0, <2>1, EndOfFileStep
  <2>3. yylex'.pc = "out"
    BY <2>1 DEF EndOfFile, Local
  <2>. QED
    BY <1>0, <2>1, <2>2, <2>3 DEF IInv, InCall
<1>6. CASE Parse
  <2>1. yylex.pc = "out" /\ UNCHANGED lexvars /\ script' = script
    BY <1>6 DEF Parse
  <2>2. LexIInv'
    BY <1>0, <2>1, LexUnchanged
  <2>3. yylex'.pc = "out"
    BY <2>1 DEF lexvars
  <2>. QED
    BY <1>0, <2>1, <2>2, <2>3 DEF IInv, InCall
<1>7. CASE UNCHANGED vars
  <2>1. UNCHANGED lexvars /\ UNCHANGED gramvars /\ script' = script
    BY <1>7 DEF vars, history
  <2>2. LexIInv'
    BY <1>0, <2>1, LexUnchanged
  <2>3. yylex' = yylex /\ (NeedsToken => NeedsToken')
    BY <2>1 DEF lexvars, NeedsToken, gramvars, stack, lookahead, IsDefault, TopState
  <2>. QED
    BY <1>0, <2>1, <2>2, <2>3 DEF IInv, InCall
<1>. QED
  BY <1>1, <1>2, <1>3, <1>4, <1>5, <1>6, <1>7 DEF Next

\* The inductive invariant: what flex's buffer, pointers and state are at each label of
\* yylex(), in every call.
THEOREM ScannerInvariant == Spec => []IInv
<1>1. Init => IInv
  BY InitInv
<1>2. IInv /\ [Next]_vars => IInv'
  BY StepInv
<1>. QED
  BY <1>1, <1>2, PTL DEF Spec

\* No access of yylex() is outside its buffer: the end-of-buffer characters are where it
\* looks for them, the content fits and the pointers are in order, whatever the inputs
\* and however often the buffer is refilled, moved or grown.
THEOREM BufferStaysOK == Spec => []BufferOK
<1>1. IInv => BufferOK
  <2>. SUFFICES ASSUME IInv
                PROVE  BufferOK
    OBVIOUS
  <2>1. LexIInv /\ LexTypeOK
    BY DEF IInv, LexIInv
  <2>. DEFINE n == yy_n_chars
  <2>2. n \in Nat /\ yy_ch_buf \in Seq(Chars) /\ Len(yy_ch_buf) = n + 2
    BY <2>1 DEF LexTypeOK
  <2>3. Range(yy_ch_buf) \subseteq Chars
    <3>1. \A i \in DOMAIN yy_ch_buf : yy_ch_buf[i] \in Chars
      BY <2>2
    <3>. QED
      BY <3>1 DEF Range
  <2>4. CASE yylex.pc \in {"match", "find"}
    BY <2>1, <2>2, <2>3, <2>4 DEF BufferOK, LexTypeOK
  <2>5. CASE yylex.pc \notin {"match", "find"}
    <3>1. Held = HoldBack
      BY <2>1, <2>5 DEF Held, LexTypeOK
    <3>2. HoldBack \in Seq(Chars) /\ Len(HoldBack) = n + 2
      BY <2>1, HeldType
    <3>3. HoldBack[n + 1] = NUL /\ HoldBack[n + 2] = NUL
      BY <2>1, <3>1 DEF LexTypeOK
    <3>. DEFINE e == SubSeq(HoldBack, n + 1, n + 2)
    <3>. HIDE DEF n
    <3>4. n + 2 \in n .. Len(HoldBack) /\ (n + 2) - n = 2
      BY <2>2, <3>2
    <3>5. e \in Seq(Chars) /\ Len(e) = (n + 2) - n
          /\ \A i \in 1 .. (n + 2) - n : e[i] = HoldBack[n + i]
      BY <2>2, <3>2, <3>4, SubSeqType
    <3>6. e[1] = NUL /\ e[2] = NUL /\ Len(e) = 2
      <4>. HIDE DEF e
      <4>1. 1 \in 1 .. (n + 2) - n /\ 2 \in 1 .. (n + 2) - n
        BY <3>4
      <4>. QED
        BY <3>3, <3>4, <3>5, <4>1
    <3>. HIDE DEF e
    <3>7. e = EOB
      <4>1. \A i \in 1 .. 2 : i = 1 \/ i = 2
        OBVIOUS
      <4>2. \A i \in 1 .. Len(e) : e[i] = EOB[i]
        BY <3>6, <4>1, CharsType
      <4>. QED
        BY <3>5, <3>6, <4>2, CharsType, SeqEqual
    <3>8. SubSeq(HoldBack, yy_n_chars + 1, yy_n_chars + 2) = EOB
      BY <3>7 DEF e, n
    <3>. QED
      BY <2>1, <2>2, <2>3, <3>8 DEF BufferOK, LexTypeOK, n
  <2>. QED
    BY <2>4, <2>5
<1>. QED
  BY <1>1, ScannerInvariant, PTL

\* Every action gets the longest lexeme at the head of all that is unread, and is that of
\* the first rule of parser.l that has it, for every input, size of the buffer and size of
\* what is read into it.
THEOREM LongestMatch == Spec => []Lexed
<1>1. IInv => Lexed
  <2>. SUFFICES ASSUME IInv, yylex.pc = "act", yylex.act # EndOfBuffer
                PROVE  LET n == yylex.cp - yytext_ptr
                           found == Lexemes(Unread)
                       IN  /\ <<n, yylex.act>> \in found
                           /\ \A l \in found : l[1] < n \/ (l[1] = n /\ l[2] >= yylex.act)
    BY DEF Lexed
  <2>. DEFINE u == Unread
              d == yylex.cp - yytext_ptr
              a == yylex.act
  <2>1. LexIInv /\ LexTypeOK
    BY DEF IInv, LexIInv
  <2>2. /\ yytext_ptr < yylex.cp /\ yylex.cp <= yy_n_chars
        /\ a = Accepts(StateIn(u, d)) /\ a # 0 /\ Longest(u, d)
    BY <2>1 DEF LexIInv, AtLexeme
  <2>3. From = yytext_ptr
    BY DEF From
  <2>4. u \in Seq(Chars) /\ Len(u) = (yy_n_chars - yytext_ptr) + Len(Rest) /\ Len(Rest) \in Nat
    <3>1. u \in Seq(Chars) /\ Len(u) = (yy_n_chars - From) + Len(Rest)
      BY <2>1, UnreadType
    <3>2. Rest \in Seq(Chars)
      BY <2>1, HeldType
    <3>3. Len(Rest) \in Nat
      BY <3>2
    <3>. QED
      BY <2>3, <3>1, <3>3
  <2>5. yy_n_chars \in Nat /\ yytext_ptr \in Nat /\ yylex.cp \in Nat
    BY <2>1 DEF LexTypeOK
  <2>. HIDE DEF u
  <2>6. d \in 1 .. Len(u)
    BY <2>2, <2>4, <2>5
  <2>. HIDE DEF d, a
  <2>7. ASSUME NEW k \in 1 .. Len(u)
        PROVE  /\ Accepts(StateIn(u, k)) \in 0 .. 12
               /\ Accepts(StateIn(u, k)) # 0 => IsLexeme(Accepts(StateIn(u, k)), SubSeq(u, 1, k))
               /\ \A rule \in 1 .. 12 : IsLexeme(rule, SubSeq(u, 1, k)) =>
                    Accepts(StateIn(u, k)) # 0 /\ Accepts(StateIn(u, k)) <= rule
    <3>1. k \in 0 .. Len(u) /\ k # 0
      OBVIOUS
    <3>2. SubSeq(u, 1, k) \in Seq(Chars) /\ Len(SubSeq(u, 1, k)) = k
      BY <2>4, <3>1, StateInType
    <3>3. SubSeq(u, 1, k) # <<>>
      BY <3>1, <3>2
    <3>. QED
      BY <3>2, <3>3, AcceptsIs DEF StateIn
  <2>8. <<d, a>> \in Lexemes(u)
    <3>1. a \in 1 .. 12 /\ IsLexeme(a, SubSeq(u, 1, d))
      BY <2>2, <2>6, <2>7
    <3>. QED
      BY <2>6, <3>1 DEF Lexemes
  <2>9. ASSUME NEW l \in Lexemes(u)
        PROVE  l[1] < d \/ (l[1] = d /\ l[2] >= a)
    <3>1. l[1] \in 1 .. Len(u) /\ l[2] \in 1 .. 12 /\ IsLexeme(l[2], SubSeq(u, 1, l[1]))
      BY DEF Lexemes
    <3>2. Accepts(StateIn(u, l[1])) # 0 /\ Accepts(StateIn(u, l[1])) <= l[2]
      BY <2>7, <3>1
    <3>3. l[1] \notin d + 1 .. Len(u)
      BY <2>2, <3>2 DEF Longest, Accepting
    <3>4. l[1] <= d
      BY <2>6, <3>1, <3>3
    <3>5. l[1] = d => l[2] >= a
      BY <2>2, <2>6, <2>7, <3>1, <3>2
    <3>. QED
      BY <2>6, <3>1, <3>4, <3>5
  <2>. QED
    BY <2>8, <2>9 DEF u, d, a
<1>. QED
  BY <1>1, ScannerInvariant, PTL

\* No step loses, repeats or reorders a character of the inputs, but for what a refused
\* call has not copied, and an end of file is reported only at the end.
THEOREM NothingLost == Spec => Conserved
<1>. DEFINE Step == CASE yylex.pc = "act" /\ yylex.act # EndOfBuffer ->
                           Unread' = SubSeq(Unread, 1 + yylex.cp - yytext_ptr, Len(Unread))
                      [] yylex.pc = "out" /\ yylex'.pc = "out" -> Unread' = InBuffer \o parsing_buf'
                      [] OTHER -> /\ Unread' = Unread
                                  /\ EndOfFile => Unread = <<>> \/ yy_buffer_status = "EOF_PENDING"
<1>1. IInv /\ [Next]_vars => [Step]_lexvars
  <2>. SUFFICES ASSUME IInv, [Next]_vars
                PROVE  Step \/ UNCHANGED lexvars
    OBVIOUS
  <2>0. LexIInv /\ InCall /\ script \in Seq(Seq(Chars))
    BY DEF IInv
  <2>e. EndOfFile => Unread = <<>> \/ yy_buffer_status = "EOF_PENDING"
    BY <2>0, EndOfFileStep DEF Pending
  <2>1. CASE Call
    <3>1. /\ yyresult # "runs" /\ script # <<>> /\ SetInput(Head(script))
          /\ UNCHANGED <<buffer, pointers, yy_last_accepting, yylex>>
      BY <2>1 DEF Call
    <3>2. yylex.pc = "out"
      BY <2>0, <3>1 DEF InCall, NeedsToken
    <3>3. Head(script) \in Seq(Chars)
      BY <2>0, <3>1, HeadTailProperties
    <3>4. Unread' = InBuffer \o parsing_buf'
      BY <2>0, <3>1, <3>2, <3>3, InputStep DEF SetInput
    <3>. QED
      BY <3>1, <3>2, <3>4
  <2>2. CASE Ask
    <3>1. Yylex
      BY <2>2 DEF Ask
    <3>2. yylex.pc = "out" /\ yylex'.pc = "loop"
      BY <2>0, <3>1 DEF Yylex, LexIInv, LexTypeOK
    <3>3. Unread' = Unread
      BY <2>0, <3>1, YylexStep
    <3>. QED
      BY <2>e, <3>2, <3>3
  <2>3. CASE Scan
    <3>1. LexStep
      BY <2>3 DEF Scan
    <3>. QED
      BY <2>0, <2>e, <3>1, LexStepStep
  <2>4. CASE GetToken
    <3>1. ReturnToken
      BY <2>4 DEF GetToken
    <3>2. yylex.pc = "act" /\ yylex.act # EndOfBuffer
      BY <2>0, <3>1 DEF ReturnToken, EndOfBuffer, LexIInv, LexTypeOK
    <3>. QED
      BY <2>0, <3>1, <3>2, TokenStep
  <2>5. CASE GetEnd
    <3>1. EndOfFile
      BY <2>5 DEF GetEnd
    <3>2. AtEndOfBuffer
      BY <3>1 DEF EndOfFile, NextBuffer
    <3>3. Unread' = Unread
      BY <2>0, <3>1, EndOfFileStep
    <3>. QED
      BY <2>e, <3>2, <3>3 DEF AtEndOfBuffer
  <2>6. CASE Parse
    BY <2>6 DEF Parse
  <2>7. CASE UNCHANGED vars
    BY <2>7 DEF vars
  <2>. QED
    BY <2>1, <2>2, <2>3, <2>4, <2>5, <2>6, <2>7 DEF Next
<1>2. Spec => [][Step]_lexvars
  BY <1>1, ScannerInvariant, PTL DEF Spec
<1>. QED
  BY <1>2 DEF Conserved

-----------------------------------------------------------------------------
(* Calls and their inputs.                                                 *)

\* The states of bison's automaton but the two of $accept, which follow rule 22.
LalrStates == 0 .. 34 \ {7, 14}
AfterHeader == 25    \* rule 22 is its default

\* A text that begins with a line end.
BeginsLineEnd(u) == Len(u) > 1 /\ u[1] = CR /\ u[2] = LF

\* While an end of file is pending, the last lexeme was not the line end that ends a
\* header, nor is the next: behind a line end the scanner looks at no character.
AllCopied == Pending => parsing_offset = Len(parsing_buf) /\ ~BeginsLineEnd(Unread)
AtPending == Pending => yychar # t_crlf /\ TopState # AfterHeader

StatesOK == yyss \in Seq(LalrStates) /\ yyss # <<>>
OwnIInv ==
  own => IF yyresult = "runs" THEN AllCopied /\ AtPending /\ OwnInput
         ELSE Unread = <<>> /\ ~Pending

\* A suffix is what the sequence is at its end.
LEMMA SuffixIs ==
  ASSUME NEW t \in Seq(Chars), NEW s \in Seq(Chars)
  PROVE  IsSuffix(s, t) <=> /\ Len(s) <= Len(t)
                            /\ \A i \in 1 .. Len(s) : s[(Len(s) - i) + 1] = t[(Len(t) - i) + 1]
<1>. DEFINE rs == Reverse(s)
            rt == Reverse(t)
<1>0. Len(s) \in Nat /\ Len(t) \in Nat
  OBVIOUS
<1>1. /\ rs \in Seq(Chars) /\ Len(rs) = Len(s) /\ \A i \in 1 .. Len(s) : rs[i] = s[(Len(s) - i) + 1]
  <2>1. \A i \in 1 .. Len(s) : s[(Len(s) - i) + 1] \in Chars
    OBVIOUS
  <2>. QED
    BY <1>0, <2>1 DEF Reverse
<1>2. /\ rt \in Seq(Chars) /\ Len(rt) = Len(t) /\ \A i \in 1 .. Len(t) : rt[i] = t[(Len(t) - i) + 1]
  <2>1. \A i \in 1 .. Len(t) : t[(Len(t) - i) + 1] \in Chars
    OBVIOUS
  <2>. QED
    BY <1>0, <2>1 DEF Reverse
<1>3. IsSuffix(s, t) <=> Len(rs) <= Len(rt) /\ SubSeq(rs, 1, Len(rs)) = SubSeq(rt, 1, Len(rs))
  BY DEF IsSuffix, IsPrefix
<1>. HIDE DEF rs, rt
<1>4. ASSUME Len(s) <= Len(t)
      PROVE  SubSeq(rs, 1, Len(rs)) = SubSeq(rt, 1, Len(rs)) <=> \A i \in 1 .. Len(s) : rs[i] = rt[i]
  <2>1. SubSeq(rs, 1, Len(rs)) = rs
    BY <1>1, SubSeqFull
  <2>2. /\ SubSeq(rt, 1, Len(s)) \in Seq(Chars) /\ Len(SubSeq(rt, 1, Len(s))) = Len(s)
        /\ \A i \in 1 .. Len(s) : SubSeq(rt, 1, Len(s))[i] = rt[i]
    <3>1. 0 \in Nat /\ Len(s) \in 0 .. Len(rt) /\ Len(s) - 0 = Len(s) /\ 0 + 1 = 1
      BY <1>0, <1>2, <1>4
    <3>2. /\ SubSeq(rt, 0 + 1, Len(s)) \in Seq(Chars) /\ Len(SubSeq(rt, 0 + 1, Len(s))) = Len(s) - 0
          /\ \A i \in 1 .. Len(s) - 0 : SubSeq(rt, 0 + 1, Len(s))[i] = rt[0 + i]
      BY <1>2, <3>1, SubSeqType
    <3>3. \A i \in 1 .. Len(s) : 0 + i = i
      BY <1>0
    <3>. QED
      BY <3>1, <3>2, <3>3
  <2>. DEFINE w == SubSeq(rt, 1, Len(s))
  <2>. HIDE DEF w
  <2>3. rs = w <=> \A i \in 1 .. Len(s) : rs[i] = w[i]
    BY <1>0, <1>1, <2>2, SeqEqual DEF w
  <2>. QED
    BY <1>1, <2>1, <2>2, <2>3 DEF w
<1>5. CASE Len(s) <= Len(t)
  <2>1. \A i \in 1 .. Len(s) : i \in 1 .. Len(t)
    BY <1>0, <1>5
  <2>2. \A i \in 1 .. Len(s) : rs[i] = s[(Len(s) - i) + 1] /\ rt[i] = t[(Len(t) - i) + 1]
    BY <1>1, <1>2, <2>1
  <2>3. IsSuffix(s, t) <=> SubSeq(rs, 1, Len(rs)) = SubSeq(rt, 1, Len(rs))
    BY <1>1, <1>2, <1>3, <1>5
  <2>4. IsSuffix(s, t) <=> \A i \in 1 .. Len(s) : rs[i] = rt[i]
    BY <1>4, <1>5, <2>3
  <2>5. (\A i \in 1 .. Len(s) : rs[i] = rt[i])
          <=> \A i \in 1 .. Len(s) : s[(Len(s) - i) + 1] = t[(Len(t) - i) + 1]
    <3>1. \A i \in 1 .. Len(s) : rs[i] = rt[i] <=> s[(Len(s) - i) + 1] = t[(Len(t) - i) + 1]
      BY <2>2
    <3>. QED
      BY <3>1, Zenon
  <2>. QED
    BY <1>5, <2>4, <2>5, Zenon
<1>6. CASE ~(Len(s) <= Len(t))
  <2>1. ~IsSuffix(s, t)
    BY <1>1, <1>2, <1>3, <1>6
  <2>. QED
    BY <1>6, <2>1
<1>. QED
  BY <1>5, <1>6

\* What is behind the first characters of a suffix is one.
LEMMA SuffixOfSuffix ==
  ASSUME NEW t \in Seq(Chars), NEW s \in Seq(Chars), NEW k \in 0 .. Len(s), IsSuffix(s, t)
  PROVE  SubSeq(s, k + 1, Len(s)) \in Seq(Chars) /\ IsSuffix(SubSeq(s, k + 1, Len(s)), t)
<1>. DEFINE w == SubSeq(s, k + 1, Len(s))
<1>0. Len(s) \in Nat /\ Len(t) \in Nat /\ k \in Nat /\ k <= Len(s) /\ Len(s) \in k .. Len(s)
  OBVIOUS
<1>1. /\ w \in Seq(Chars) /\ Len(w) = Len(s) - k /\ \A i \in 1 .. Len(s) - k : w[i] = s[k + i]
  BY <1>0, SubSeqType
<1>. HIDE DEF w
<1>2. Len(s) <= Len(t) /\ \A i \in 1 .. Len(s) : s[(Len(s) - i) + 1] = t[(Len(t) - i) + 1]
  BY SuffixIs
<1>3. ASSUME NEW i \in 1 .. Len(w)
      PROVE  w[(Len(w) - i) + 1] = t[(Len(t) - i) + 1]
  <2>1. i \in 1 .. Len(s) /\ (Len(w) - i) + 1 \in 1 .. Len(s) - k
        /\ k + ((Len(w) - i) + 1) = (Len(s) - i) + 1
    BY <1>0, <1>1
  <2>2. w[(Len(w) - i) + 1] = s[k + ((Len(w) - i) + 1)]
    BY <1>1, <2>1
  <2>3. s[(Len(s) - i) + 1] = t[(Len(t) - i) + 1]
    BY <1>2, <2>1
  <2>. QED
    BY <2>1, <2>2, <2>3
<1>4. Len(w) <= Len(t)
  BY <1>0, <1>1, <1>2
<1>5. IsSuffix(w, t)
  BY <1>1, <1>3, <1>4, SuffixIs
<1>. QED
  BY <1>1, <1>5 DEF w

\* A step takes characters off the front of what is unread, or none.
TakesOff == \E k \in 0 .. Len(Unread) : Unread' = SubSeq(Unread, k + 1, Len(Unread))

\* A step that leaves what is unread takes none off.
LEMMA TakesNone ==
  ASSUME LexIInv, Unread' = Unread
  PROVE  TakesOff
<1>1. Unread \in Seq(Chars)
  BY UnreadType
<1>2. SubSeq(Unread, 1, Len(Unread)) = Unread
  BY <1>1, SubSeqFull
<1>3. 0 \in 0 .. Len(Unread) /\ 0 + 1 = 1
  BY <1>1
<1>. QED
  BY <1>2, <1>3 DEF TakesOff

\* The lexeme of an action is in the buffer.
LEMMA LexemeIn ==
  ASSUME LexIInv, yylex.pc = "act", yylex.act # EndOfBuffer
  PROVE  LET d == yylex.cp - yytext_ptr IN
         /\ d \in Nat /\ d > 0 /\ From = yytext_ptr /\ d <= yy_n_chars - From
         /\ Unread \in Seq(Chars) /\ d \in 0 .. Len(Unread) /\ 1 + yylex.cp - yytext_ptr = d + 1
         /\ yy_n_chars \in Nat /\ From \in Nat /\ yylex.cp = From + d
<1>. DEFINE d == yylex.cp - yytext_ptr
            u == Unread
<1>1. LexTypeOK /\ yytext_ptr < yylex.cp /\ yylex.cp <= yy_n_chars
  BY DEF LexIInv, AtLexeme
<1>2. /\ d \in Nat /\ d > 0 /\ From = yytext_ptr /\ d <= yy_n_chars - From
      /\ 1 + yylex.cp - yytext_ptr = d + 1
      /\ yy_n_chars \in Nat /\ From \in Nat /\ yylex.cp = From + d
  <2>1. yytext_ptr \in Nat /\ yylex.cp \in Nat /\ yy_n_chars \in Nat
    BY <1>1 DEF LexTypeOK
  <2>2. From = yytext_ptr
    BY DEF From
  <2>. QED
    BY <1>1, <2>1, <2>2
<1>3. u \in Seq(Chars) /\ d \in 0 .. Len(u)
  <2>1. u \in Seq(Chars) /\ Len(u) = (yy_n_chars - From) + Len(Rest)
    BY UnreadType
  <2>2. Rest \in Seq(Chars)
    BY <1>1, HeldType
  <2>3. Len(Rest) \in Nat /\ yy_n_chars \in Nat /\ From \in Nat
    BY <1>2, <2>2
  <2>. HIDE DEF d, u
  <2>. QED
    BY <1>2, <2>1, <2>3
<1>. QED
  BY <1>2, <1>3

\* What an action leaves while an end of file is pending does not begin with a line end:
\* it is ones.
LEMMA OnesLeft ==
  ASSUME LexIInv, yylex.pc = "act", yylex.act # EndOfBuffer, Pending,
         parsing_offset = Len(parsing_buf)
  PROVE  ~BeginsLineEnd(SubSeq(Unread, (yylex.cp - yytext_ptr) + 1, Len(Unread)))
<1>. DEFINE d == yylex.cp - yytext_ptr
            u == Unread
            w == SubSeq(u, d + 1, Len(u))
<1>1. /\ d \in Nat /\ From = yytext_ptr /\ d <= yy_n_chars - From
      /\ u \in Seq(Chars) /\ d \in 0 .. Len(u)
      /\ yy_n_chars \in Nat /\ From \in Nat /\ yylex.cp = From + d
  BY LexemeIn
<1>2. Ones(Held, From + d, yy_n_chars)
  BY <1>1 DEF LexIInv, AtLexeme
<1>3. Len(u) = yy_n_chars - From /\ \A i \in 1 .. yy_n_chars - From : u[i] = Held[From + i]
  <2>1. Len(u) = (yy_n_chars - From) + Len(Rest)
        /\ \A i \in 1 .. yy_n_chars - From : u[i] = Held[From + i]
    BY UnreadType
  <2>2. Len(Rest) = 0
    BY DEF Rest
  <2>3. (yy_n_chars - From) + 0 = yy_n_chars - From
    BY <1>1
  <2>. QED
    BY <2>1, <2>2, <2>3
<1>. HIDE DEF u, d
<1>4. /\ Len(w) = Len(u) - d /\ \A i \in 1 .. Len(u) - d : w[i] = u[d + i]
  <2>1. Len(u) \in d .. Len(u)
    BY <1>1
  <2>. QED
    BY <1>1, <2>1, SubSeqType
<1>. HIDE DEF w
<1>5. ASSUME Len(w) > 1, w[1] = CR
      PROVE  FALSE
  <2>1. 1 \in 1 .. Len(u) - d /\ d + 1 \in 1 .. Len(u)
    BY <1>1, <1>4, <1>5
  <2>2. w[1] = u[d + 1] /\ u[d + 1] = Held[From + (d + 1)]
    BY <1>3, <1>4, <2>1
  <2>3. From + (d + 1) \in (From + d) + 1 .. yy_n_chars
    BY <1>1, <1>3, <2>1
  <2>4. Held[From + (d + 1)] = ONE
    BY <1>2, <2>3 DEF Ones
  <2>. QED
    BY <1>5, <2>2, <2>4 DEF CR, ONE
<1>. QED
  BY <1>5 DEF BeginsLineEnd, w, u, d

\* The automaton has nowhere to go on to behind a line end.
LEMMA BehindLineEnd ==
  ASSUME NEW u \in Seq(Chars), BeginsLineEnd(u), NEW q \in 2 .. Len(u)
  PROVE  StateIn(u, q) \in Ended
<1>0. q \in Nat /\ Len(u) \in Nat /\ Len(u) > 1 /\ u[1] = CR /\ u[2] = LF /\ 2 \in 0 .. Len(u) /\ 2 \in Nat
  BY DEF BeginsLineEnd
<1>1. StateIn(u, 2) = 17
  <2>1. SubSeq(u, 1, 2) = <<CR, LF>>
    <3>1. /\ SubSeq(u, 0 + 1, 2) \in Seq(Chars) /\ Len(SubSeq(u, 0 + 1, 2)) = 2 - 0
          /\ \A i \in 1 .. 2 - 0 : SubSeq(u, 0 + 1, 2)[i] = u[0 + i]
      BY <1>0, SubSeqType
    <3>. DEFINE w == SubSeq(u, 1, 2)
    <3>2. w \in Seq(Chars) /\ Len(w) = 2 /\ w[1] = CR /\ w[2] = LF
      <4>1. 0 + 1 = 1 /\ 2 - 0 = 2 /\ 0 + 2 = 2 /\ 1 \in 1 .. 2 - 0 /\ 2 \in 1 .. 2 - 0
        OBVIOUS
      <4>. QED
        BY <1>0, <3>1, <4>1
    <3>. HIDE DEF w
    <3>3. w = <<CR, LF>>
      BY <3>2
    <3>. QED
      BY <3>3 DEF w
  <2>2. Len(<<CR, LF>>) = 2
    OBVIOUS
  <2>. QED
    BY <2>1, <2>2 DEF StateIn, StateOf
<1>2. CASE q = 2
  BY <1>1, <1>2 DEF Ended
<1>3. CASE q # 2
  <2>1. 2 < Len(u) /\ 3 \in 0 .. Len(u) /\ 3 > 0 /\ 2 + 1 = 3 /\ q \in 3 .. Len(u) /\ 3 \in 1 .. Len(u)
    BY <1>0, <1>3
  <2>2. StateIn(u, 3) = Transition(17, Shown(u[3]))
    BY <1>0, <1>1, <2>1, StateInType
  <2>3. Shown(u[3]) \in 1 .. 13
    <3>1. u[3] \in 0 .. 13
      BY <2>1, CharsType
    <3>. QED
      BY <3>1 DEF Shown, NUL, CTL
  <2>4. StateIn(u, 3) = Jam
    BY <2>2, <2>3 DEF Transition, NUL
  <2>5. StateIn(u, q) = Jam
    BY <2>1, <2>4, StateInType
  <2>. QED
    BY <2>5 DEF Ended
<1>. QED
  BY <1>2, <1>3

\* Rule 2 is that of a line end.
LEMMA LineEndRule ==
  ASSUME LexIInv, yylex.pc = "act", yylex.act = 2
  PROVE  BeginsLineEnd(Unread)
<1>. DEFINE d == yylex.cp - yytext_ptr
            u == Unread
            t == SubSeq(u, 1, d)
<1>1. Accepts(StateIn(u, d)) = 2
  BY DEF LexIInv, AtLexeme, EndOfBuffer
<1>2. d \in Nat /\ d > 0 /\ u \in Seq(Chars) /\ d \in 0 .. Len(u)
  BY LexemeIn DEF EndOfBuffer
<1>3. u \in Seq(Chars) /\ d \in 0 .. Len(u)
  BY <1>2
<1>. HIDE DEF d, u
<1>4. t \in Seq(Chars) /\ Len(t) = d /\ StateOf(t) \in 4 .. 20 /\ \A i \in 1 .. d : t[i] = u[i]
  <2>1. t \in Seq(Chars) /\ Len(t) = d /\ StateIn(u, d) \in 4 .. 20
    BY <1>2, <1>3, StateInType
  <2>2. \A i \in 1 .. d : t[i] = u[i]
    BY <1>2, <1>3, SubSeqProperties
  <2>. QED
    BY <2>1, <2>2 DEF StateIn
<1>5. StateOf(t) = 17
  <2>1. \A s \in 4 .. 20 : Accepts(s) = 2 => s = 17
    BY DEF Accepts, dfa
  <2>. QED
    BY <1>1, <1>4, <2>1 DEF StateIn
<1>. HIDE DEF t
<1>6. t = <<CR, LF>>
  <2>1. ASSUME Len(t) = 1
        PROVE  FALSE
    <3>1. Shown(t[1]) \in 1 .. 13
      <4>1. t[1] \in 0 .. 13
        <5>1. 1 \in 1 .. Len(t)
          BY <2>1
        <5>2. t[1] \in Chars
          BY <1>4, <5>1, ElementOfSeq
        <5>. QED
          BY <5>2, CharsType
      <4>. QED
        BY <4>1 DEF Shown, NUL, CTL
    <3>2. StateOf(t) = Single[Shown(t[1]) + 1]
      BY <2>1 DEF StateOf
    <3>. QED
      BY <1>5, <3>1, <3>2 DEF Single
  <2>. QED
    BY <1>2, <1>4, <1>5, <2>1 DEF StateOf, Jam, Start
<1>7. d = 2 /\ u[1] = CR /\ u[2] = LF
  BY <1>4, <1>6
<1>8. Len(u) > 1
  BY <1>3, <1>7
<1>. QED
  BY <1>7, <1>8 DEF BeginsLineEnd, u

\* An action of a rule keeps what is known of an end of file that is pending.
LEMMA TokenOwn ==
  ASSUME LexIInv, ReturnToken \/ Echo, AllCopied
  PROVE  AllCopied' /\ TakesOff /\ parsing_buf' = parsing_buf
         /\ yy_buffer_status' = yy_buffer_status
<1>1. yylex.pc = "act" /\ yylex.act # EndOfBuffer /\ UNCHANGED <<input, buffer>>
  BY DEF LexIInv, ReturnToken, Echo, EndOfBuffer
<1>2. /\ yylex.cp - yytext_ptr \in 0 .. Len(Unread)
      /\ 1 + yylex.cp - yytext_ptr = (yylex.cp - yytext_ptr) + 1
  BY <1>1, LexemeIn
<1>3. Unread' = SubSeq(Unread, (yylex.cp - yytext_ptr) + 1, Len(Unread))
  BY <1>2, TokenStep
<1>4. TakesOff
  BY <1>2, <1>3 DEF TakesOff
<1>5. AllCopied'
  <2>1. parsing_offset' = parsing_offset /\ parsing_buf' = parsing_buf /\ Pending' = Pending
    BY <1>1 DEF input, buffer, Pending
  <2>2. ASSUME Pending
        PROVE  ~BeginsLineEnd(Unread')
    BY <1>1, <1>3, <2>2, OnesLeft DEF AllCopied
  <2>3. (Len(Unread) > 1)' <=> Len(Unread') > 1
    OBVIOUS
  <2>4. Pending => ~BeginsLineEnd(Unread)'
    BY <2>2 DEF BeginsLineEnd
  <2>. QED
    BY <2>1, <2>4 DEF AllCopied
<1>. QED
  BY <1>1, <1>4, <1>5 DEF input, buffer

\* So does each step inside yylex(); the one that makes it pending has copied all.
LEMMA LexStepOwn ==
  ASSUME LexIInv, LexStep, AllCopied
  PROVE  AllCopied' /\ TakesOff /\ parsing_buf' = parsing_buf
<1>1. CASE Echo
  BY <1>1, TokenOwn
<1>2. ASSUME UNCHANGED <<input, yy_buffer_status>>, Unread' = Unread
      PROVE  AllCopied' /\ TakesOff /\ parsing_buf' = parsing_buf
  BY <1>2, TakesNone DEF AllCopied, Pending, BeginsLineEnd, input
<1>3. CASE LoopHead
  BY <1>2, <1>3, LoopHeadStep DEF LoopHead
<1>4. CASE Match
  BY <1>2, <1>4, MatchStep DEF Match, buffer
<1>5. CASE FindAction
  BY <1>2, <1>5, FindActionStep DEF FindAction
<1>6. CASE RealNul
  BY <1>2, <1>6, RealNulStep DEF RealNul
<1>7. ASSUME NEW n \in 1 .. Len(parsing_buf), ContinueScan(YyInput(n))
      PROVE  AllCopied' /\ TakesOff /\ parsing_buf' = parsing_buf
  <2>1. yy_buffer_status' = "NORMAL" /\ parsing_buf' = parsing_buf
    BY <1>7 DEF ContinueScan, NextBuffer
  <2>2. Unread' = Unread
    BY <1>7, ContinueScanStep
  <2>. QED
    BY <2>1, <2>2, TakesNone DEF AllCopied, Pending
<1>8. CASE LastMatch
  <2>. DEFINE none == <<>>
              q == Len(Matched)
  <2>1. NextBuffer(none) /\ Matched # <<>> /\ Unread' = Unread
    BY <1>8, LastMatchStep DEF LastMatch
  <2>2. /\ Matched \in Seq(Chars) /\ Unread \in Seq(Chars) /\ Rest \in Seq(Chars)
        /\ Unread = Matched \o Rest /\ StateIn(Unread, q) \notin Ended
        /\ q \in 0 .. Len(Unread)
        /\ Pending \/ Rest = <<>>
        /\ Pending => q = 0
    BY <2>1, NextBufferIs
  <2>3. q # 0
    BY <2>1, <2>2, EmptySeq
  <2>4. Rest = <<>> /\ Unread = Matched
    BY <2>2, <2>3, ConcatEmptySeq
  <2>5. parsing_offset = Len(parsing_buf)
    <3>1. LexTypeOK
      BY DEF LexIInv
    <3>2. /\ parsing_offset \in Nat /\ parsing_buf \in Seq(Chars)
          /\ Len(parsing_buf) \in parsing_offset .. Len(parsing_buf)
      BY <3>1 DEF LexTypeOK
    <3>3. Len(Rest) = Len(parsing_buf) - parsing_offset
      BY <3>2, SubSeqType DEF Rest
    <3>4. Len(Rest) = 0
      BY <2>4
    <3>. QED
      BY <3>2, <3>3, <3>4
  <2>6. parsing_offset' = parsing_offset /\ parsing_buf' = parsing_buf
    <3>1. parsing_offset' = parsing_offset + Len(none) /\ parsing_buf' = parsing_buf
      BY <2>1 DEF NextBuffer
    <3>2. parsing_offset \in Nat
      BY DEF LexIInv, LexTypeOK
    <3>. QED
      BY <3>1, <3>2
  <2>7. ~BeginsLineEnd(Unread)
    <3>1. ASSUME BeginsLineEnd(Unread)
          PROVE  FALSE
      <4>1. q \in 2 .. Len(Unread)
        BY <2>2, <2>4, <3>1 DEF BeginsLineEnd
      <4>. QED
        BY <2>2, <3>1, <4>1, BehindLineEnd
    <3>. QED
      BY <3>1
  <2>8. ~BeginsLineEnd(Unread)'
    BY <2>1, <2>7 DEF BeginsLineEnd
  <2>. QED
    BY <2>1, <2>5, <2>6, <2>8, TakesNone DEF AllCopied
<1>. QED
  BY <1>1, <1>3, <1>4, <1>5, <1>6, <1>7, <1>8 DEF LexStep

\* While a call has its own input only, an end of file is reported at its end.
LEMMA EndOfFileOwn ==
  ASSUME LexIInv, EndOfFile, AllCopied
  PROVE  Unread' = Unread /\ Unread = <<>> /\ ~Pending'
<1>. DEFINE none == <<>>
<1>1. Unread' = Unread /\ (Unread = <<>> \/ Pending)
  BY EndOfFileStep
<1>2. ~Pending'
  BY DEF EndOfFile, YyRestart, Pending
<1>3. ASSUME Pending
      PROVE  Unread = <<>>
  <2>1. NextBuffer(none) /\ Matched = <<>>
    BY DEF EndOfFile
  <2>2. Unread = Matched \o Rest
    BY <2>1, NextBufferIs
  <2>3. Rest = <<>>
    BY <1>3 DEF AllCopied, Rest
  <2>. QED
    BY <2>1, <2>2, <2>3
<1>. QED
  BY <1>1, <1>2, <1>3

\* What the entries of bison's tables are.
LEMMA LalrTables ==
  /\ \A n \in 0 .. 47 : lalr.yytable[n + 1] \in 0 .. 34 \ {7}
  /\ \A n \in 0 .. 47 : lalr.yytable[n + 1] = 14 => n = 9
  /\ \A n \in 0 .. 47 : lalr.yytable[n + 1] = 25 => n = 2
  /\ lalr.yycheck[10] = 0 /\ lalr.yycheck[3] = 3
  /\ \A s \in 0 .. 34 : lalr.yypact[s + 1] \in Int
  /\ \A s \in LalrStates : lalr.yypact[s + 1] # 9
  /\ \A x \in 16 .. 24 : lalr.yypgoto[x - 15 + 1] \in Int \ {9, -1}
  /\ \A x \in 16 .. 24 : lalr.yydefgoto[x - 15 + 1] \in LalrStates \ {25}
  /\ \A s \in LalrStates : lalr.yydefact[s + 1] \in {0} \cup 2 .. 22
  /\ \A s \in LalrStates : lalr.yydefact[s + 1] = 22 => s = 25
  /\ \A rule \in 2 .. 21 : lalr.yyr1[rule + 1] \in 16 .. 24
  /\ \A rule \in 2 .. 21 : lalr.yyr2[rule + 1] \in 0 .. 6
<1>1. \A n \in 0 .. 47 : lalr.yytable[n + 1] \in 0 .. 34 \ {7}
  BY DEF lalr
<1>2. \A n \in 0 .. 47 : lalr.yytable[n + 1] = 14 => n = 9
  BY DEF lalr
<1>3. \A n \in 0 .. 47 : lalr.yytable[n + 1] = 25 => n = 2
  BY DEF lalr
<1>4. lalr.yycheck[10] = 0 /\ lalr.yycheck[3] = 3
  BY DEF lalr
<1>5. \A s \in 0 .. 34 : lalr.yypact[s + 1] \in Int
  BY DEF lalr
<1>6. \A s \in LalrStates : lalr.yypact[s + 1] # 9
  BY DEF lalr, LalrStates
<1>7. \A x \in 16 .. 24 : lalr.yypgoto[x - 15 + 1] \in Int \ {9, -1}
  BY DEF lalr
<1>8. \A x \in 16 .. 24 : lalr.yydefgoto[x - 15 + 1] \in LalrStates \ {25}
  BY DEF lalr, LalrStates
<1>9. \A s \in LalrStates : lalr.yydefact[s + 1] \in {0} \cup 2 .. 22
  BY DEF lalr, LalrStates
<1>10. \A s \in LalrStates : lalr.yydefact[s + 1] = 22 => s = 25
  BY DEF lalr, LalrStates
<1>11. \A rule \in 2 .. 21 : lalr.yyr1[rule + 1] \in 16 .. 24
  BY DEF lalr
<1>12. \A rule \in 2 .. 21 : lalr.yyr2[rule + 1] \in 0 .. 6
  BY DEF lalr
<1>. QED
  BY <1>1, <1>2, <1>3, <1>4, <1>5, <1>6, <1>7, <1>8, <1>9, <1>10, <1>11, <1>12

\* An entry for a symbol is one of the table.
LEMMA EntryIs ==
  ASSUME NEW base, NEW x, NEW check, Entry(base, x, check) # 0
  PROVE  \E n \in 0 .. 47 : n = base + x /\ lalr.yycheck[n + 1] = check
                            /\ Entry(base, x, check) = lalr.yytable[n + 1]
BY DEF Entry, YYLAST

\* What a shift leads to: the state behind a header only over a line end.
LEMMA ShiftIs ==
  ASSUME TopState \in LalrStates, ShiftTo(TopState) > 0
  PROVE  ShiftTo(TopState) \in LalrStates /\ (ShiftTo(TopState) = AfterHeader => yychar = t_crlf)
<1>. DEFINE s == TopState
            base == lalr.yypact[s + 1]
            e == Entry(base, yychar, yychar)
<1>0. lalr.yycheck[10] = 0 /\ lalr.yycheck[3] = 3
  BY LalrTables
<1>1. ShiftTo(s) = e /\ e # 0
  <2>1. ShiftTo(s) = 0 \/ ShiftTo(s) = e
    BY DEF ShiftTo
  <2>. QED
    BY <2>1
<1>2. PICK n \in 0 .. 47 : n = base + yychar /\ lalr.yycheck[n + 1] = yychar
                           /\ e = lalr.yytable[n + 1]
  BY <1>1, EntryIs
<1>3. base \in Int /\ base # 9
  BY LalrTables DEF LalrStates
<1>. HIDE DEF base, e
<1>4. e \in 0 .. 34 \ {7}
  BY <1>2, LalrTables
<1>5. e # 14
  <2>1. ASSUME e = 14
        PROVE  FALSE
    <3>1. n = 9
      BY <1>2, <2>1, LalrTables
    <3>2. yychar = 0
      BY <1>0, <1>2, <3>1
    <3>. QED
      BY <1>2, <1>3, <3>1, <3>2
  <2>. QED
    BY <2>1
<1>6. e = 25 => yychar = 3
  <2>1. ASSUME e = 25
        PROVE  yychar = 3
    <3>1. n = 2
      BY <1>2, <2>1, LalrTables
    <3>. QED
      BY <1>0, <1>2, <3>1
  <2>. QED
    BY <2>1
<1>. QED
  BY <1>1, <1>4, <1>5, <1>6 DEF LalrStates, AfterHeader, t_crlf

\* What a reduction leads to is not the state behind a header.
LEMMA GotoStateIs ==
  ASSUME NEW s, NEW x \in 16 .. 24
  PROVE  GotoState(s, x) \in LalrStates \ {AfterHeader}
<1>. DEFINE base == lalr.yypgoto[x - 15 + 1]
            e == Entry(base, s, s)
<1>0. lalr.yycheck[10] = 0 /\ lalr.yycheck[3] = 3
  BY LalrTables
<1>1. GotoState(s, x) = IF e # 0 THEN e ELSE lalr.yydefgoto[x - 15 + 1]
  BY DEF GotoState, YYNTOKENS
<1>2. lalr.yydefgoto[x - 15 + 1] \in LalrStates \ {25}
  BY LalrTables
<1>3. base \in Int \ {9, -1}
  BY LalrTables
<1>4. ASSUME e # 0
      PROVE  e \in LalrStates \ {25}
  <2>1. PICK n \in 0 .. 47 : n = base + s /\ lalr.yycheck[n + 1] = s /\ e = lalr.yytable[n + 1]
    BY <1>4, EntryIs
  <2>. HIDE DEF base, e
  <2>2. e \in 0 .. 34 \ {7}
    BY <2>1, LalrTables
  <2>3. e # 14
    <3>1. ASSUME e = 14
          PROVE  FALSE
      <4>1. n = 9
        BY <2>1, <3>1, LalrTables
      <4>2. s = 0
        BY <1>0, <2>1, <4>1
      <4>. QED
        BY <1>3, <2>1, <4>1, <4>2
    <3>. QED
      BY <3>1
  <2>4. e # 25
    <3>1. ASSUME e = 25
          PROVE  FALSE
      <4>1. n = 2
        BY <2>1, <3>1, LalrTables
      <4>2. s = 3
        BY <1>0, <2>1, <4>1
      <4>. QED
        BY <1>3, <2>1, <4>1, <4>2
    <3>. QED
      BY <3>1
  <2>. QED
    BY <2>2, <2>3, <2>4 DEF LalrStates
<1>. QED
  BY <1>1, <1>2, <1>4 DEF AfterHeader

\* What yyparse() has read.
TokensOK ==
  yylval \in Seq(Chars) /\ tokens \in Seq([token : 0 .. 14, value : Seq(Chars)])

\* The top of a stack that is pushed on.
LEMMA TopOf ==
  ASSUME NEW S, NEW s \in Seq(S), NEW e \in S
  PROVE  /\ Append(s, e) \in Seq(S) /\ Append(s, e) # <<>>
         /\ Append(s, e)[Len(Append(s, e))] = e
<1>1. Append(s, e) \in Seq(S) /\ Len(Append(s, e)) = Len(s) + 1 /\ Append(s, e)[Len(s) + 1] = e
  BY AppendProperties
<1>. QED
  BY <1>1

\* A shift.
LEMMA ShiftStep ==
  ASSUME StatesOK, Shift
  PROVE  StatesOK' /\ yychar' = YYEMPTY /\ (TopState' = AfterHeader => yychar = t_crlf)
         /\ yyresult' # "accept" /\ yyresult = "runs" /\ yylval' = yylval
<1>. DEFINE to == ShiftTo(TopState)
<1>1. TopState \in LalrStates
  BY DEF StatesOK, TopState, Last
<1>2. to \in LalrStates /\ (to = AfterHeader => yychar = t_crlf)
  BY <1>1, ShiftIs DEF Shift
<1>3. yyss' = Append(yyss, to) /\ yychar' = YYEMPTY /\ yyresult' # "accept" /\ yyresult = "runs"
      /\ yylval' = yylval
  BY DEF Shift, Push, Decides
<1>. HIDE DEF to
<1>4. yyss' \in Seq(LalrStates) /\ yyss' # <<>> /\ yyss'[Len(yyss')] = to
  BY <1>2, <1>3, TopOf DEF StatesOK
<1>. QED
  BY <1>2, <1>3, <1>4 DEF StatesOK, TopState, Last

\* A reduction.
LEMMA ReduceStep ==
  ASSUME StatesOK, NEW rule \in 1 .. 21, Reduce(rule)
  PROVE  StatesOK' /\ UNCHANGED lookahead /\ TopState' # AfterHeader
         /\ yyresult' # "accept" /\ yyresult = "runs"
<1>. DEFINE kept == Len(yyss) - lalr.yyr2[rule + 1]
            below == SubSeq(yyss, 1, kept)
            to == GotoState(Last(below), lalr.yyr1[rule + 1])
<1>1. TopState \in LalrStates
  BY DEF StatesOK, TopState, Last
<1>2. /\ yyss' = Append(below, to) /\ UNCHANGED lookahead /\ yyresult' # "accept" /\ yyresult = "runs"
      /\ rule = lalr.yydefact[TopState + 1]
  BY DEF Reduce, Push, Decides
<1>3. rule \in 2 .. 21
  <2>1. lalr.yydefact[TopState + 1] \in {0} \cup 2 .. 22
    BY <1>1, LalrTables
  <2>2. rule \in {0} \cup 2 .. 22
    BY <1>2, <2>1
  <2>. QED
    BY <2>2
<1>4. to \in LalrStates \ {AfterHeader}
  <2>1. lalr.yyr1[rule + 1] \in 16 .. 24
    BY <1>3, LalrTables
  <2>. QED
    BY <2>1, GotoStateIs
<1>5. below \in Seq(LalrStates)
  <2>1. kept \in Int /\ kept <= Len(yyss)
    <3>1. lalr.yyr2[rule + 1] \in 0 .. 6
      BY <1>3, LalrTables
    <3>2. Len(yyss) \in Nat
      BY DEF StatesOK
    <3>. QED
      BY <3>1, <3>2
  <2>2. \A i \in 1 .. kept : yyss[i] \in LalrStates
    <3>. HIDE DEF kept
    <3>. QED
      BY <2>1 DEF StatesOK
  <2>. HIDE DEF kept
  <2>. QED
    BY <2>1, <2>2, SubSeqProperties DEF StatesOK
<1>. HIDE DEF to, below
<1>6. yyss' \in Seq(LalrStates) /\ yyss' # <<>> /\ yyss'[Len(yyss')] = to
  BY <1>2, <1>4, <1>5, TopOf
<1>. QED
  BY <1>2, <1>4, <1>6 DEF StatesOK, TopState, Last

\* A step of yyparse() between tokens.
LEMMA GramStepIs ==
  ASSUME StatesOK, GramStep
  PROVE  /\ StatesOK' /\ yyresult = "runs" /\ yylval' = yylval
         /\ yychar' \in {yychar, YYEMPTY}
         /\ TopState' = AfterHeader =>
              yychar = t_crlf \/ (TopState = AfterHeader /\ yyresult' # "runs")
         /\ yyresult' = "accept" => TopState = AfterHeader
<1>1. CASE Shift
  BY <1>1, ShiftStep
<1>2. ASSUME NEW rule \in 1 .. 21, Reduce(rule)
      PROVE  StatesOK' /\ UNCHANGED lookahead /\ TopState' # AfterHeader
             /\ yyresult' # "accept" /\ yyresult = "runs"
  BY <1>2, ReduceStep
<1>3. CASE Accept
  <2>1. UNCHANGED <<stack, lookahead>> /\ yyresult = "runs" /\ yyresult' = "accept"
        /\ lalr.yydefact[TopState + 1] = 22
    BY <1>3 DEF Accept, Decides
  <2>2. TopState \in LalrStates
    BY DEF StatesOK, TopState, Last
  <2>3. TopState = AfterHeader
    BY <2>1, <2>2, LalrTables DEF AfterHeader
  <2>. QED
    BY <2>1, <2>3 DEF stack, lookahead, StatesOK, TopState
<1>4. CASE SyntaxError
  <2>1. UNCHANGED <<stack, lookahead>> /\ yyresult = "runs" /\ yyresult' = "abort"
    BY <1>4 DEF SyntaxError, Decides
  <2>. QED
    BY <2>1 DEF stack, lookahead, StatesOK, TopState
<1>5. CASE Overrun
  <2>1. UNCHANGED <<stack, lookahead>> /\ yyresult = "runs" /\ yyresult' = "overrun"
    BY <1>5 DEF Overrun, Decides
  <2>. QED
    BY <2>1 DEF stack, lookahead, StatesOK, TopState
<1>. QED
  BY <1>1, <1>2, <1>3, <1>4, <1>5 DEF GramStep, lookahead

CallInv == IInv /\ StatesOK /\ TokensOK /\ OwnIInv

\* The first call has nothing but its input, and there is none before it.
LEMMA CallInit ==
  ASSUME Init
  PROVE  CallInv
<1>1. IInv
  BY InitInv
<1>2. StatesOK
  <2>1. yyss = <<0>> /\ 0 \in LalrStates
    BY DEF Init, GramInit, LalrStates
  <2>. QED
    BY <2>1 DEF StatesOK
<1>3. TokensOK
  BY DEF Init, GramInit, TokensOK
<1>4. Unread = <<>> /\ ~Pending /\ yyresult # "runs"
  <2>1. /\ parsing_buf = <<>> /\ parsing_offset = 0 /\ yy_n_chars = 0 /\ yy_c_buf_p = 0
        /\ yylex.pc = "out" /\ yy_buffer_status = "NEW" /\ yyresult = "none"
    BY DEF Init, LexInit, Local, GramInit
  <2>2. From = 0 /\ Rest = <<>>
    BY <2>1 DEF From, Rest
  <2>3. Unread \in Seq(Chars) /\ Len(Unread) = (yy_n_chars - From) + Len(Rest)
    BY <1>1, UnreadType DEF IInv
  <2>4. Len(Unread) = 0
    BY <2>1, <2>2, <2>3
  <2>. QED
    BY <2>1, <2>3, <2>4, EmptySeq DEF Pending
<1>. QED
  BY <1>1, <1>2, <1>3, <1>4 DEF CallInv, OwnIInv

\* A call that has only its own input is at its first character.
LEMMA CallOwn ==
  ASSUME CallInv, Call
  PROVE  StatesOK' /\ TokensOK' /\ OwnIInv'
<1>. DEFINE in == Head(script)
<1>0. LexIInv /\ InCall /\ script \in Seq(Seq(Chars)) /\ TokensOK
  BY DEF CallInv, IInv
<1>1. /\ yyresult # "runs" /\ script # <<>> /\ SetInput(in)
      /\ UNCHANGED <<buffer, pointers, yy_last_accepting, yylex, own>>
      /\ yyss' = <<0>> /\ yychar' = YYEMPTY /\ yylval' = yylval /\ yyresult' = "runs" /\ tokens' = <<>>
  BY DEF Call, Yyparse
<1>2. yylex.pc = "out"
  BY <1>0, <1>1 DEF InCall, NeedsToken
<1>3. in \in Seq(Chars)
  BY <1>0, <1>1, HeadTailProperties
<1>. HIDE DEF in
<1>4. Unread' = InBuffer \o in /\ parsing_buf' = in
  BY <1>0, <1>1, <1>2, <1>3, InputStep DEF SetInput
<1>5. StatesOK'
  <2>1. 0 \in LalrStates
    BY DEF LalrStates
  <2>. QED
    BY <1>1, <2>1 DEF StatesOK
<1>6. TokensOK'
  BY <1>0, <1>1 DEF TokensOK
<1>7. ASSUME own
      PROVE  AllCopied' /\ AtPending' /\ OwnInput'
  <2>1. Unread = <<>> /\ ~Pending
    BY <1>1, <1>7 DEF CallInv, OwnIInv
  <2>2. InBuffer = <<>>
    <3>1. /\ Unread = SubSeq(Held, From + 1, yy_n_chars) \o Rest
          /\ Len(Unread) = (yy_n_chars - From) + Len(Rest)
      BY <1>0, UnreadType
    <3>2. yy_n_chars \in Nat /\ From \in 0 .. yy_n_chars /\ Rest \in Seq(Chars)
      <4>1. LexTypeOK
        BY <1>0 DEF LexIInv
      <4>. QED
        BY <1>0, <4>1, FromType, HeldType DEF LexTypeOK
    <3>3. Len(Unread) = 0
      BY <2>1
    <3>4. Len(Rest) \in Nat
      BY <3>2
    <3>5. From = yy_n_chars
      <4>. HIDE DEF From
      <4>. QED
        BY <3>1, <3>2, <3>3, <3>4
    <3>. QED
      BY <3>2, <3>5 DEF InBuffer
  <2>3. Unread' = in
    BY <1>3, <1>4, <2>2, ConcatEmptySeq
  <2>4. ~Pending'
    BY <1>1, <2>1 DEF Pending, buffer
  <2>5. IsSuffix(in, in)
    BY <1>3, SuffixIs
  <2>6. yychar' # YYEOF
    BY <1>1 DEF YYEMPTY, YYEOF
  <2>7. OwnInput'
    BY <1>4, <2>3, <2>5, <2>6 DEF OwnInput
  <2>. QED
    BY <2>4, <2>7 DEF AllCopied, AtPending
<1>. QED
  BY <1>1, <1>5, <1>6, <1>7 DEF OwnIInv

\* The scanner gives yyparse() a token of the call's input.
LEMMA TokenOfOwn ==
  ASSUME CallInv, GetToken
  PROVE  StatesOK' /\ TokensOK' /\ OwnIInv'
<1>0. LexIInv /\ StatesOK /\ TokensOK /\ OwnIInv /\ LexTypeOK
  BY DEF CallInv, IInv, LexIInv
<1>. DEFINE token == Token[yylex.act]
            value == TokenValue(yylex.act)
<1>1. /\ ReturnToken /\ NeedsToken /\ yychar' = token /\ yylval' = value
      /\ UNCHANGED stack /\ yyresult = "runs" /\ (own' => own /\ yyresult' = "runs")
      /\ tokens' = Append(tokens, [token |-> token, value |-> value])
  BY DEF GetToken, Reads, ReadToken, NeedsToken
<1>2. yylex.pc = "act" /\ yylex.act \in 1 .. 11
  <2>1. yylex.pc = "act" /\ yylex.act < 12 /\ yylex.act \in 0 .. EndOfBuffer
    BY <1>0, <1>1 DEF ReturnToken, LexTypeOK
  <2>2. yylex.act # 0
    BY <1>0, <2>1 DEF LexIInv, AtLexeme, EndOfBuffer
  <2>. QED
    BY <2>1, <2>2 DEF EndOfBuffer
<1>3. token \in 3 .. 14 /\ (token = t_crlf => yylex.act = 2)
  BY <1>2 DEF Token, t_backslash, t_crlf, t_sp, t_ws, t_digit, t_dot, t_colon, t_separators,
              t_token_char, t_lws, t_ctl
<1>4. value \in Seq(Chars)
  <2>1. Text(yytext_ptr, yylex.cp) \in Seq(Chars)
    <3>1. yytext_ptr \in Nat /\ yylex.cp \in yytext_ptr .. Len(yy_ch_buf) /\ yy_ch_buf \in Seq(Chars)
      <4>1. yytext_ptr < yylex.cp /\ yylex.cp <= yy_n_chars
        BY <1>0, <1>2 DEF LexIInv, AtLexeme, EndOfBuffer
      <4>. QED
        BY <1>0, <4>1 DEF LexTypeOK
    <3>. QED
      BY <3>1, SubSeqType DEF Text
  <2>. QED
    BY <1>0, <2>1 DEF TokenValue, TokensOK
<1>. HIDE DEF token, value
<1>5. tokens' # <<>> /\ TokensOK'
  <2>1. [token |-> token, value |-> value] \in [token : 0 .. 14, value : Seq(Chars)]
    BY <1>3, <1>4
  <2>2. tokens' \in Seq([token : 0 .. 14, value : Seq(Chars)]) /\ tokens' # <<>>
    BY <1>0, <1>1, <2>1, TopOf DEF TokensOK
  <2>. QED
    BY <1>1, <1>4, <2>2 DEF TokensOK
<1>6. StatesOK'
  BY <1>0, <1>1 DEF StatesOK, stack
<1>7. ASSUME own
      PROVE  AllCopied' /\ AtPending' /\ OwnInput'
  <2>1. AllCopied /\ AtPending /\ OwnInput
    BY <1>0, <1>1, <1>7 DEF OwnIInv
  <2>2. AllCopied' /\ TakesOff /\ parsing_buf' = parsing_buf /\ Pending' = Pending
    BY <1>0, <1>1, <2>1, TokenOwn DEF Pending
  <2>3. AtPending'
    <3>1. ASSUME Pending
          PROVE  yychar' # t_crlf
      <4>1. ~BeginsLineEnd(Unread)
        BY <2>1, <3>1 DEF AllCopied
      <4>2. yylex.act # 2
        BY <1>0, <1>2, <4>1, LineEndRule
      <4>. QED
        BY <1>1, <1>3, <4>2
    <3>2. TopState' = TopState
      BY <1>1 DEF stack, TopState
    <3>. QED
      BY <2>1, <2>2, <3>1, <3>2 DEF AtPending
  <2>4. IsSuffix(Unread', parsing_buf')
    <3>1. Unread \in Seq(Chars) /\ parsing_buf \in Seq(Chars) /\ IsSuffix(Unread, parsing_buf)
      BY <1>0, <1>1, <1>7, <2>1, UnreadType DEF OwnInput, LexTypeOK
    <3>. QED
      BY <2>2, <3>1, SuffixOfSuffix DEF TakesOff
  <2>5. yychar' # YYEOF
    BY <1>1, <1>3 DEF YYEOF
  <2>. QED
    BY <1>5, <2>2, <2>3, <2>4, <2>5 DEF OwnInput
<1>. QED
  BY <1>1, <1>5, <1>6, <1>7 DEF OwnIInv

\* A step that leaves the parser and the input alone, inside yylex().
LEMMA InsideOwn ==
  ASSUME CallInv, NeedsToken, UNCHANGED <<gramvars, history>>, parsing_buf' = parsing_buf,
         yylex'.pc # "out", AllCopied => AllCopied' /\ TakesOff
  PROVE  StatesOK' /\ TokensOK' /\ OwnIInv'
<1>1. StatesOK /\ TokensOK /\ OwnIInv /\ LexIInv /\ LexTypeOK
  BY DEF CallInv, IInv, LexIInv
<1>2. yyss' = yyss /\ yylval' = yylval /\ yychar' = yychar /\ yyresult' = yyresult
      /\ tokens' = tokens /\ own' = own
  BY DEF gramvars, stack, lookahead, history
<1>3. ASSUME own
      PROVE  AllCopied' /\ AtPending' /\ OwnInput'
  <2>1. AllCopied /\ AtPending /\ OwnInput /\ yychar = YYEMPTY /\ yyresult = "runs" /\ ~IsDefault(TopState)
    BY <1>1, <1>3 DEF OwnIInv, NeedsToken
  <2>2. AtPending'
    <3>1. TopState # AfterHeader
      BY <2>1 DEF IsDefault, AfterHeader, lalr, YYPACT_NINF
    <3>. QED
      BY <1>2, <2>1, <3>1 DEF AtPending, TopState, YYEMPTY, t_crlf
  <2>3. IsSuffix(Unread', parsing_buf')
    <3>1. Unread \in Seq(Chars) /\ parsing_buf \in Seq(Chars) /\ IsSuffix(Unread, parsing_buf)
      BY <1>1, <1>3, <2>1, UnreadType DEF OwnInput, LexTypeOK
    <3>. QED
      BY <2>1, <3>1, SuffixOfSuffix DEF TakesOff
  <2>4. yychar' # YYEOF
    BY <1>2, <2>1 DEF YYEMPTY, YYEOF
  <2>. QED
    BY <2>1, <2>2, <2>3, <2>4 DEF OwnInput
<1>4. yyresult' = "runs"
  BY <1>2 DEF NeedsToken
<1>. QED
  BY <1>1, <1>2, <1>3, <1>4 DEF StatesOK, TokensOK, OwnIInv

\* The scanner gives yyparse() the end of its input.
LEMMA EndOfOwn ==
  ASSUME CallInv, GetEnd
  PROVE  StatesOK' /\ TokensOK' /\ OwnIInv'
<1>0. LexIInv /\ StatesOK /\ TokensOK /\ OwnIInv /\ LexTypeOK
  BY DEF CallInv, IInv, LexIInv
<1>1. /\ EndOfFile /\ NeedsToken /\ yychar' = YYEOF /\ yylval' = yylval
      /\ UNCHANGED stack /\ yyresult = "runs" /\ (own' => own /\ yyresult' = "runs")
      /\ tokens' = Append(tokens, [token |-> YYEOF, value |-> yylval])
  BY DEF GetEnd, Reads, ReadToken, NeedsToken
<1>2. tokens' # <<>> /\ TokensOK'
  <2>. DEFINE e == [token |-> YYEOF, value |-> yylval]
              S == [token : 0 .. 14, value : Seq(Chars)]
  <2>1. e \in S
    BY <1>0 DEF TokensOK, YYEOF
  <2>2. tokens \in Seq(S) /\ tokens' = Append(tokens, e)
    BY <1>0, <1>1 DEF TokensOK
  <2>3. tokens' \in Seq(S) /\ tokens' # <<>>
    <3>. HIDE DEF e, S
    <3>. QED
      BY <2>1, <2>2, TopOf
  <2>. QED
    BY <1>0, <1>1, <2>3 DEF TokensOK
<1>3. StatesOK'
  BY <1>0, <1>1 DEF StatesOK, stack
<1>4. ASSUME own
      PROVE  AllCopied' /\ AtPending' /\ OwnInput'
  <2>1. AllCopied
    BY <1>0, <1>1, <1>4 DEF OwnIInv
  <2>2. Unread' = <<>> /\ ~Pending'
    BY <1>0, <1>1, <2>1, EndOfFileOwn
  <2>3. IsSuffix(Unread', parsing_buf')
    <3>1. parsing_buf' \in Seq(Chars) /\ Unread' \in Seq(Chars) /\ Len(Unread') = 0
      <4>1. parsing_buf' = parsing_buf
        BY <1>1 DEF EndOfFile, NextBuffer
      <4>. QED
        BY <1>0, <2>2, <4>1 DEF LexTypeOK
    <3>2. Len(parsing_buf') \in Nat
      BY <3>1
    <3>3. Len(Unread') <= Len(parsing_buf') /\ \A i \in 1 .. Len(Unread') : FALSE
      BY <3>1, <3>2
    <3>. QED
      BY <3>1, <3>3, SuffixIs
  <2>. QED
    BY <1>2, <2>2, <2>3 DEF AllCopied, AtPending, OwnInput
<1>. QED
  BY <1>1, <1>2, <1>3, <1>4 DEF OwnIInv

\* yyparse() accepts behind a line end, at which no end of file is pending; all of the
\* input read, it leaves nothing to the next call.
LEMMA ParseOwn ==
  ASSUME CallInv, Parse
  PROVE  StatesOK' /\ TokensOK' /\ OwnIInv'
<1>0. LexIInv /\ StatesOK /\ TokensOK /\ OwnIInv
  BY DEF CallInv, IInv
<1>1. /\ GramStep /\ UNCHANGED <<lexvars, script, tokens>> /\ yylex.pc = "out"
      /\ own' = (own /\ (yyresult' # "runs" => yyresult' = "accept" /\ Unread = <<>>))
  BY DEF Parse
<1>2. /\ StatesOK' /\ yyresult = "runs" /\ yylval' = yylval
      /\ yychar' \in {yychar, YYEMPTY}
      /\ TopState' = AfterHeader =>
           yychar = t_crlf \/ (TopState = AfterHeader /\ yyresult' # "runs")
      /\ yyresult' = "accept" => TopState = AfterHeader
  BY <1>0, <1>1, GramStepIs
<1>3. Unread' = Unread /\ Pending' = Pending /\ parsing_buf' = parsing_buf
      /\ parsing_offset' = parsing_offset /\ yylex' = yylex /\ tokens' = tokens
  BY <1>0, <1>1, LexUnchanged DEF lexvars, input, buffer, Pending
<1>4. ASSUME own'
      PROVE  IF yyresult' = "runs" THEN AllCopied' /\ AtPending' /\ OwnInput'
             ELSE Unread' = <<>> /\ ~Pending'
  <2>0. own
    BY <1>1, <1>4
  <2>1. AllCopied /\ AtPending /\ OwnInput
    BY <1>0, <1>2, <2>0 DEF OwnIInv
  <2>2. CASE yyresult' = "runs"
    <3>1. AllCopied'
      BY <1>3, <2>1 DEF AllCopied, BeginsLineEnd
    <3>2. AtPending'
      BY <1>2, <1>3, <2>1, <2>2 DEF AtPending, YYEMPTY, t_crlf
    <3>3. OwnInput'
      BY <1>2, <1>3, <2>0, <2>1 DEF OwnInput, YYEMPTY, YYEOF
    <3>. QED
      BY <2>2, <3>1, <3>2, <3>3
  <2>3. CASE yyresult' # "runs"
    <3>1. yyresult' = "accept" /\ Unread = <<>>
      BY <1>1, <1>4, <2>3
    <3>2. ~Pending
      BY <1>2, <2>1, <3>1 DEF AtPending
    <3>. QED
      BY <1>3, <2>3, <3>1, <3>2
  <2>. QED
    BY <2>2, <2>3
<1>5. TokensOK'
  BY <1>0, <1>2, <1>3 DEF TokensOK
<1>. QED
  BY <1>2, <1>4, <1>5 DEF OwnIInv

\* No step inside yylex() leaves it.
LEMMA StaysInside ==
  ASSUME LexTypeOK, LexStep
  PROVE  yylex'.pc # "out"
<1>1. CASE Echo
  BY <1>1 DEF Echo, LexTypeOK
<1>2. CASE LoopHead \/ Match \/ FindAction \/ RealNul
  BY <1>2 DEF LoopHead, Match, FindAction, RealNul, Local
<1>3. ASSUME NEW n \in 1 .. Len(parsing_buf), ContinueScan(YyInput(n))
      PROVE  yylex'.pc # "out"
  BY <1>3 DEF ContinueScan, Local
<1>4. CASE LastMatch
  BY <1>4 DEF LastMatch, Local
<1>. QED
  BY <1>1, <1>2, <1>3, <1>4 DEF LexStep

\* Every step keeps the invariant.
LEMMA CallStep ==
  ASSUME CallInv, [Next]_vars
  PROVE  CallInv'
<1>0. IInv /\ LexIInv /\ InCall /\ StatesOK /\ TokensOK /\ OwnIInv /\ LexTypeOK
  BY DEF CallInv, IInv, LexIInv
<1>1. IInv'
  BY <1>0, StepInv
<1>2. CASE Call
  BY <1>1, <1>2, CallOwn DEF CallInv
<1>3. CASE Ask
  <2>1. NeedsToken /\ Yylex /\ UNCHANGED <<gramvars, history>>
    BY <1>3 DEF Ask
  <2>2. Unread' = Unread /\ UNCHANGED <<input, buffer>> /\ yylex'.pc # "out"
    BY <1>0, <2>1, YylexStep DEF Yylex, LexTypeOK
  <2>3. AllCopied => AllCopied' /\ TakesOff
    BY <1>0, <2>2, TakesNone DEF AllCopied, Pending, BeginsLineEnd, input, buffer
  <2>4. parsing_buf' = parsing_buf
    BY <2>2 DEF input
  <2>. QED
    BY <1>1, <2>1, <2>2, <2>3, <2>4, InsideOwn DEF CallInv
<1>4. CASE Scan
  <2>1. LexStep /\ UNCHANGED <<gramvars, history>>
    BY <1>4 DEF Scan
  <2>2. yylex.pc # "out" /\ yylex'.pc # "out"
    BY <1>0, <2>1, LexStepStep, StaysInside
  <2>3. NeedsToken
    BY <1>0, <2>2 DEF InCall
  <2>4. AllCopied => AllCopied' /\ TakesOff
    BY <1>0, <2>1, LexStepOwn
  <2>5. parsing_buf' = parsing_buf
    BY <2>1 DEF LexStep, LoopHead, Match, FindAction, Echo, RealNul, ContinueScan, LastMatch,
                NextBuffer, input
  <2>. QED
    BY <1>1, <2>1, <2>2, <2>3, <2>4, <2>5, InsideOwn DEF CallInv
<1>5. CASE GetToken
  BY <1>1, <1>5, TokenOfOwn DEF CallInv
<1>6. CASE GetEnd
  BY <1>1, <1>6, EndOfOwn DEF CallInv
<1>7. CASE Parse
  BY <1>1, <1>7, ParseOwn DEF CallInv
<1>8. CASE UNCHANGED vars
  <2>1. UNCHANGED lexvars /\ yyss' = yyss /\ yylval' = yylval /\ yychar' = yychar
        /\ yyresult' = yyresult /\ tokens' = tokens /\ own' = own
    BY <1>8 DEF vars, gramvars, stack, lookahead, history
  <2>2. Unread' = Unread /\ Pending' = Pending /\ parsing_buf' = parsing_buf
        /\ parsing_offset' = parsing_offset /\ yylex' = yylex
    BY <1>0, <2>1, LexUnchanged DEF lexvars, input, buffer, Pending
  <2>3. StatesOK' /\ TokensOK'
    BY <1>0, <2>1 DEF StatesOK, TokensOK
  <2>4. OwnIInv'
    BY <1>0, <2>1, <2>2 DEF OwnIInv, AllCopied, BeginsLineEnd, AtPending, OwnInput, TopState
  <2>. QED
    BY <1>1, <2>3, <2>4 DEF CallInv
<1>. QED
  BY <1>2, <1>3, <1>4, <1>5, <1>6, <1>7, <1>8 DEF Next

\* A call reads its own input from its first character, all of it before the end of file,
\* and leaves nothing of the scanner's or the parser's to the next.
THEOREM ReadsOwnInput == Spec => []OwnInput
<1>1. Init => CallInv
  BY CallInit
<1>2. CallInv /\ [Next]_vars => CallInv'
  BY CallStep
<1>3. CallInv => OwnInput
  BY DEF CallInv, OwnIInv, OwnInput
<1>. QED
  BY <1>1, <1>2, <1>3, PTL DEF Spec

-----------------------------------------------------------------------------
(* The parser's stacks.                                                    *)

\* The states that may be below state t: those with a transition to it that the grammar
\* comes to.
Under(t) ==
  CASE t \in {1, 2, 3} -> {0, 5, 6, 8, 10, 12, 26, 27, 31}
    [] t = 4 -> {0, 6, 12}
    [] t \in {5, 6} -> {0}
    [] t = 8 -> {5}
    [] t = 9 -> {5, 10}
    [] t = 10 -> {6, 12}
    [] t \in {11, 12, 13} -> {6}
    [] t \in {15, 16, 17, 18} -> {8, 26, 27, 31}
    [] t = 19 -> {8, 26, 31}
    [] t = 20 -> {8}
    [] t = 21 -> {10, 28, 29, 33}
    [] t = 22 -> {10, 20, 28, 29, 33}
    [] t = 23 -> {10}
    [] t = 24 -> {12}
    [] t = 25 -> {13}
    [] t = 26 -> {20}
    [] t = 27 -> {20, 29, 33}
    [] t = 28 -> {23}
    [] t = 29 -> {26}
    [] t = 30 -> {27}
    [] t = 31 -> {28}
    [] t = 32 -> {29}
    [] t = 33 -> {31}
    [] t = 34 -> {33}
    [] OTHER -> {}

\* How high on the stack each state may be: the grammar is not recursive but to the left.
Depth ==
  <<1, 10, 10, 10, 4, 2, 2, 1, 3, 5, 4, 3, 3, 3, 1, 10, 10, 10, 10, 8, 4, 9, 9, 5, 4, 4, 5, 9, 6,
    6, 10, 7, 7, 8, 9>>

\* The states that the right hand side of a rule for x begins above.
Base(x) ==
  CASE x = 16 -> {0, 5, 6, 8, 10, 12, 26, 27, 31}
    [] x = 17 -> {0, 6, 12}
    [] x = 18 -> {8, 26, 27, 31}
    [] x = 19 -> {10, 20, 28, 29, 33}
    [] x = 20 -> {8, 26, 31}
    [] x = 21 -> {0}
    [] x = 22 -> {6, 12}
    [] x \in {23, 24} -> {6}

Stacked(ss) ==
  /\ ss \in Seq(LalrStates) /\ ss # <<>> /\ ss[1] = 0
  /\ \A i \in 2 .. Len(ss) : ss[i - 1] \in Under(ss[i])
StackIs == Stacked(yyss)
ValuesIs == yyvs \in Seq(Seq(Chars)) /\ Len(yyvs) = Len(yyss)
HasRoom ==
  /\ yystacksize \in Nat /\ Len(yyss) < yystacksize
  /\ yyresult # "exhausted"
FieldsFit ==
  /\ parsing_request \in [method : Seq(Chars), uri : Seq(Chars), version : Seq(Chars),
                          headers : Seq(Seq(Chars) \X Seq(Chars)), capacity : Nat \ {0}]
  /\ Len(parsing_request.headers) <= parsing_request.capacity

GramInv == StackIs /\ ValuesIs /\ HasRoom /\ FieldsFit

\* The first state is at the bottom, and each of the others above one that it may be above.
LEMMA Below ==
  ASSUME StackIs, NEW i \in 1 .. Len(yyss), yyss[i] # 0
  PROVE  i - 1 \in 1 .. Len(yyss) /\ yyss[i - 1] \in Under(yyss[i])
<1>1. i # 1
  BY DEF StackIs, Stacked
<1>2. i \in 2 .. Len(yyss) /\ i - 1 \in 1 .. Len(yyss)
  BY <1>1 DEF StackIs, Stacked
<1>. QED
  BY <1>2 DEF StackIs, Stacked

\* A state is above those below it.
LEMMA DepthRises ==
  /\ \A t \in LalrStates : Depth[t + 1] \in 1 .. 10
  /\ \A t \in LalrStates : \A s \in LalrStates : s \in Under(t) => Depth[s + 1] < Depth[t + 1]
<1>1. \A t \in LalrStates : Depth[t + 1] \in 1 .. 10
  BY DEF Depth, LalrStates
<1>2. \A t \in LalrStates : \A s \in LalrStates : s \in Under(t) => Depth[s + 1] < Depth[t + 1]
  BY DEF Depth, LalrStates, Under
<1>. QED
  BY <1>1, <1>2

\* The stack is as high as the depths allow.
LEMMA StackHeight ==
  ASSUME NEW ss, Stacked(ss)
  PROVE  Len(ss) \in 1 .. 10
<1>. DEFINE n == Len(ss)
            T == {i \in 0 .. n : i # 0 => i <= Depth[ss[i] + 1]}
<1>0. n \in Nat /\ n # 0 /\ \A i \in 1 .. n : ss[i] \in LalrStates
  BY EmptySeq DEF Stacked
<1>1. \A i \in 0 .. n : i \in T
  <2>. SUFFICES ASSUME NEW i \in 0 .. n, i \in T, i < n
                PROVE  i + 1 \in T
    <3>1. n \in Nat /\ 0 \in T
      BY <1>0
    <3>. HIDE DEF n, T
    <3>. QED
      BY <3>1, UpTo
  <2>1. i + 1 \in 1 .. n /\ (i + 1) - 1 = i
    BY <1>0
  <2>2. Depth[ss[i + 1] + 1] \in 1 .. 10
    BY <1>0, <2>1, DepthRises
  <2>3. i + 1 <= Depth[ss[i + 1] + 1]
    <3>1. CASE i = 0
      BY <2>2, <3>1
    <3>2. CASE i # 0
      <4>1. i \in 1 .. n /\ i + 1 \in 2 .. n /\ i <= Depth[ss[i] + 1]
        BY <1>0, <2>1, <3>2
      <4>2. ss[i] \in Under(ss[i + 1])
        BY <2>1, <4>1 DEF Stacked
      <4>3. Depth[ss[i] + 1] < Depth[ss[i + 1] + 1] /\ Depth[ss[i] + 1] \in 1 .. 10
        BY <1>0, <2>1, <4>1, <4>2, DepthRises
      <4>. DEFINE e == Depth[ss[i + 1] + 1]
                  f == Depth[ss[i] + 1]
      <4>4. e \in 1 .. 10 /\ f \in 1 .. 10 /\ f < e /\ i <= f
        BY <2>2, <4>1, <4>3
      <4>. HIDE DEF e, f
      <4>5. i + 1 <= e
        BY <4>4
      <4>. QED
        BY <4>5 DEF e
    <3>. QED
      BY <3>1, <3>2
  <2>. QED
    BY <1>0, <2>1, <2>3
<1>. DEFINE d == Depth[ss[n] + 1]
<1>2. d \in 1 .. 10 /\ n <= d
  <2>1. n \in 1 .. n /\ n \in T /\ ss[n] \in LalrStates
    BY <1>0, <1>1
  <2>. QED
    BY <1>0, <2>1, DepthRises
<1>. HIDE DEF d, T
<1>3. n \in 1 .. 10
  <2>. HIDE DEF n
  <2>. QED
    BY <1>0, <1>2
<1>. QED
  BY <1>3

\* A shift puts a state above one that it may be above.
LEMMA ShiftAbove ==
  ASSUME NEW s \in LalrStates, NEW t \in LalrStates, ShiftTo(s) = t, t > 0
  PROVE  s \in Under(t)
<1>. DEFINE base == lalr.yypact[s + 1]
            c == t \in LalrStates /\ s \in LalrStates
<1>1. ~IsDefault(s) /\ Entry(base, yychar, yychar) = t
  BY DEF ShiftTo
<1>2. PICK n \in 0 .. 47 : n = base + yychar /\ lalr.yycheck[n + 1] = yychar
                           /\ t = lalr.yytable[n + 1]
  BY <1>1, EntryIs
<1>3. base + lalr.yycheck[n + 1] = n /\ base # -24
  BY <1>1, <1>2 DEF IsDefault, YYPACT_NINF
<1>. HIDE DEF base
<1>4. \A m \in 0 .. 47, r \in LalrStates, u \in LalrStates \ {0} :
        lalr.yypact[r + 1] # -24 /\ lalr.yypact[r + 1] + lalr.yycheck[m + 1] = m
        /\ lalr.yytable[m + 1] = u
          => r \in Under(u)
  BY SMTT(60) DEF lalr, LalrStates, Under
<1>5. lalr.yypact[s + 1] # -24 /\ lalr.yypact[s + 1] + lalr.yycheck[n + 1] = n
      /\ lalr.yytable[n + 1] \in LalrStates \ {0}
  BY <1>2, <1>3 DEF base
<1>6. s \in Under(lalr.yytable[n + 1])
  BY <1>4, <1>5
<1>. QED
  BY <1>2, <1>6

\* So does a reduction.
LEMMA GotoAbove ==
  ASSUME NEW x \in 16 .. 24, NEW b \in Base(x)
  PROVE  b \in Under(GotoState(b, x)) /\ GotoState(b, x) # 0
<1>. DEFINE base == lalr.yypgoto[x - 15 + 1]
            e == Entry(base, b, b)
            default == lalr.yydefgoto[x - 15 + 1]
<1>1. GotoState(b, x) = IF e # 0 THEN e ELSE default
  BY DEF GotoState, YYNTOKENS
<1>2. ASSUME e # 0
      PROVE  b \in Under(e)
  <2>1. PICK n \in 0 .. 47 : n = base + b /\ lalr.yycheck[n + 1] = b /\ e = lalr.yytable[n + 1]
    BY <1>2, EntryIs
  <2>. HIDE DEF base, e
  <2>2. \A m \in 0 .. 47, c \in Base(x), u \in 0 .. 34 :
          lalr.yypgoto[x - 15 + 1] + c = m /\ lalr.yycheck[m + 1] = c /\ lalr.yytable[m + 1] = u
            => c \in Under(u)
    BY SMTT(60) DEF lalr, Base, Under
  <2>3. e \in 0 .. 34
    BY <2>1, LalrTables
  <2>. QED
    BY <2>1, <2>2, <2>3 DEF base
<1>3. ASSUME e = 0
      PROVE  b \in Under(default) /\ default # 0
  <2>0. /\ lalr.yycheck[1] = 10 /\ lalr.yycheck[2] = 0 /\ lalr.yycheck[4] = 26
        /\ lalr.yycheck[7] = 5 /\ lalr.yycheck[8] = 6 /\ lalr.yycheck[9] = 31
        /\ lalr.yycheck[12] = 10 /\ lalr.yycheck[13] = 0 /\ lalr.yycheck[14] = 12
        /\ lalr.yycheck[19] = 28 /\ lalr.yycheck[23] = 27 /\ lalr.yycheck[28] = 12
        /\ \A n \in {1, 2, 4, 7, 8, 9, 12, 13, 14, 19, 23, 28} : lalr.yytable[n] # 0
    BY DEF lalr
  <2>. DEFINE InRow == base + b \in 0 .. 47 /\ lalr.yycheck[base + b + 1] = b
                       /\ lalr.yytable[base + b + 1] # 0
  <2>1. (b \in Under(default) /\ default # 0) \/ InRow
    <3>1. CASE x = 16
      <4>1. base = 1 /\ default = 18
        BY <3>1 DEF lalr
      <4>2. b \in {8, 26, 27, 31} \/ b \in {0, 5, 6, 10, 12}
        BY <3>1 DEF Base
      <4>. QED
        BY <2>0, <4>1, <4>2 DEF Under
    <3>2. CASE x = 17
      <4>1. base = 12 /\ default = 10
        BY <3>2 DEF lalr
      <4>2. b \in {0, 6, 12}
        BY <3>2 DEF Base
      <4>. QED
        BY <2>0, <4>1, <4>2 DEF Under
    <3>3. CASE x = 18
      <4>1. base = -5 /\ default = 19
        BY <3>3 DEF lalr
      <4>2. b \in {8, 26, 27, 31}
        BY <3>3 DEF Base
      <4>. QED
        BY <2>0, <4>1, <4>2 DEF Under
    <3>4. CASE x = 19
      <4>1. base = -10 /\ default = 27
        BY <3>4 DEF lalr
      <4>2. b \in {10, 20, 28, 29, 33}
        BY <3>4 DEF Base
      <4>. QED
        BY <2>0, <4>1, <4>2 DEF Under
    <3>5. CASE x = 20
      <4>1. base = -23 /\ default = 20
        BY <3>5 DEF lalr
      <4>2. b \in {8, 26, 31}
        BY <3>5 DEF Base
      <4>. QED
        BY <2>0, <4>1, <4>2 DEF Under
    <3>6. CASE x = 22
      <4>1. base = 15 /\ default = 11
        BY <3>6 DEF lalr
      <4>2. b \in {6, 12}
        BY <3>6 DEF Base
      <4>. QED
        BY <2>0, <4>1, <4>2 DEF Under
    <3>7. CASE x \in {21, 23, 24}
      <4>1. default = IF x = 21 THEN 6 ELSE IF x = 23 THEN 12 ELSE 13
        BY <3>7 DEF lalr
      <4>2. b = IF x = 21 THEN 0 ELSE 6
        BY <3>7 DEF Base
      <4>. QED
        BY <3>7, <4>1, <4>2 DEF Under
    <3>. QED
      BY <3>1, <3>2, <3>3, <3>4, <3>5, <3>6, <3>7
  <2>2. base + b \in 0 .. 47 /\ lalr.yycheck[base + b + 1] = b
          => e = lalr.yytable[base + b + 1]
    BY DEF Entry, YYLAST
  <2>. QED
    BY <1>3, <2>1, <2>2
<1>. QED
  BY <1>1, <1>2, <1>3

\* The right hand side of a rule that is reduced, 1 .. 21, is on the stack, above a state
\* that it may be above; that of the last rule too.
LEMMA Handle ==
  ASSUME StackIs
  PROVE  LET rule == lalr.yydefact[TopState + 1]
             kept == Len(yyss) - lalr.yyr2[rule + 1]
         IN  /\ rule \in {0} \cup 2 .. 22
             /\ kept \in 1 .. Len(yyss)
             /\ rule \in 2 .. 21 => yyss[kept] \in Base(lalr.yyr1[rule + 1])
<1>. DEFINE n == Len(yyss)
            s == TopState
            rule == lalr.yydefact[s + 1]
            k == lalr.yyr2[rule + 1]
            x == lalr.yyr1[rule + 1]
<1>0. n \in Nat /\ n # 0 /\ n \in 1 .. n /\ s = yyss[n] /\ s \in LalrStates
  BY EmptySeq DEF StackIs, Stacked, TopState, Last
<1>1. \A i \in 1 .. n : yyss[i] # 0 => i - 1 \in 1 .. n /\ yyss[i - 1] \in Under(yyss[i])
  BY Below
<1>2. rule \in {0} \cup 2 .. 22
  BY <1>0, LalrTables
<1>3. /\ s \in {0, 5, 8, 13, 23, 26, 27, 31} => rule = 0 /\ k = 0
      /\ s \in {1, 2, 3} => rule \in 2 .. 4 /\ k = 1 /\ x = 16
      /\ s = 4 => rule = 5 /\ k = 1 /\ x = 17
      /\ s = 9 => rule = 6 /\ k = 2 /\ x = 17
      /\ s \in {15, 16, 17, 18} => rule \in 7 .. 10 /\ k = 1 /\ x = 18
      /\ s \in {10, 20, 28, 29, 33} => rule = 11 /\ k = 0 /\ x = 19
      /\ s \in {21, 22} => rule \in {12, 13} /\ k = 1 /\ x = 19
      /\ s = 19 => rule = 14 /\ k = 1 /\ x = 20
      /\ s = 30 => rule = 15 /\ k = 3 /\ x = 20
      /\ s = 32 => rule = 16 /\ k = 6 /\ x = 21
      /\ s = 34 => rule = 17 /\ k = 6 /\ x = 22
      /\ s = 11 => rule = 18 /\ k = 1 /\ x = 23
      /\ s = 24 => rule = 19 /\ k = 2 /\ x = 23
      /\ s = 6 => rule = 20 /\ k = 0 /\ x = 24
      /\ s = 12 => rule = 21 /\ k = 1 /\ x = 24
      /\ s = 25 => rule = 22 /\ k = 3
  <2>1. s \in {0, 5, 8, 13, 23, 26, 27, 31} => rule = 0 /\ k = 0
    BY DEF lalr
  <2>2. s \in {1, 2, 3} => rule \in 2 .. 4 /\ k = 1 /\ x = 16
    BY DEF lalr
  <2>3. s = 4 => rule = 5 /\ k = 1 /\ x = 17
    BY DEF lalr
  <2>4. s = 9 => rule = 6 /\ k = 2 /\ x = 17
    BY DEF lalr
  <2>5. s \in {15, 16, 17, 18} => rule \in 7 .. 10 /\ k = 1 /\ x = 18
    BY DEF lalr
  <2>6. s \in {10, 20, 28, 29, 33} => rule = 11 /\ k = 0 /\ x = 19
    BY DEF lalr
  <2>7. s \in {21, 22} => rule \in {12, 13} /\ k = 1 /\ x = 19
    BY DEF lalr
  <2>8. s = 19 => rule = 14 /\ k = 1 /\ x = 20
    BY DEF lalr
  <2>9. s = 30 => rule = 15 /\ k = 3 /\ x = 20
    BY DEF lalr
  <2>10. s = 32 => rule = 16 /\ k = 6 /\ x = 21
    BY DEF lalr
  <2>11. s = 34 => rule = 17 /\ k = 6 /\ x = 22
    BY DEF lalr
  <2>12. s = 11 => rule = 18 /\ k = 1 /\ x = 23
    BY DEF lalr
  <2>13. s = 24 => rule = 19 /\ k = 2 /\ x = 23
    BY DEF lalr
  <2>14. s = 6 => rule = 20 /\ k = 0 /\ x = 24
    BY DEF lalr
  <2>15. s = 12 => rule = 21 /\ k = 1 /\ x = 24
    BY DEF lalr
  <2>16. s = 25 => rule = 22 /\ k = 3
    BY DEF lalr
  <2>. HIDE DEF s, rule, k, x
  <2>. QED
    BY <2>1, <2>2, <2>3, <2>4, <2>5, <2>6, <2>7, <2>8, <2>9, <2>10, <2>11, <2>12, <2>13, <2>14, <2>15, <2>16
<1>4. /\ Under(9) = {5, 10} /\ Under(24) = {12} /\ Under(25) = {13} /\ Under(13) = {6}
      /\ Under(30) = {27} /\ Under(27) = {20, 29, 33} /\ Under(32) = {29} /\ Under(29) = {26}
      /\ Under(26) = {20} /\ Under(20) = {8} /\ Under(8) = {5} /\ Under(5) = {0}
      /\ Under(34) = {33} /\ Under(33) = {31} /\ Under(31) = {28} /\ Under(28) = {23}
      /\ Under(23) = {10} /\ Under(10) = {6, 12} /\ Under(12) = {6} /\ Under(6) = {0}
  BY DEF Under
<1>. HIDE DEF n, s, rule, k, x
<1>5. ASSUME k = 0
      PROVE  n - k \in 1 .. n /\ (rule \in 2 .. 21 => yyss[n - k] \in Base(x))
  <2>1. n - k = n /\ n \in 1 .. n
    BY <1>0, <1>5
  <2>2. rule \in 2 .. 21 => s \in Base(x)
    BY <1>0, <1>3, <1>5 DEF Base, LalrStates
  <2>. QED
    BY <1>0, <2>1, <2>2
<1>6. ASSUME k = 1
      PROVE  n - k \in 1 .. n /\ (rule \in 2 .. 21 => yyss[n - k] \in Base(x))
  <2>1. n - 1 \in 1 .. n /\ yyss[n - 1] \in Under(s)
    BY <1>0, <1>1, <1>3, <1>6 DEF LalrStates
  <2>2. rule \in 2 .. 21 => Under(s) \subseteq Base(x)
    BY <1>0, <1>3, <1>6 DEF Base, LalrStates, Under
  <2>. QED
    BY <1>6, <2>1, <2>2
<1>7. ASSUME s \in {9, 24}
      PROVE  n - k \in 1 .. n /\ yyss[n - k] \in Base(x)
  <2>1. n - 1 \in 1 .. n /\ yyss[n - 1] \in {5, 10, 12} /\ (s = 24 => yyss[n - 1] = 12)
        /\ (s = 9 => yyss[n - 1] # 12)
    BY <1>0, <1>1, <1>7, <1>4
  <2>2. n - 2 \in 1 .. n /\ yyss[n - 2] \in Under(yyss[n - 1])
    BY <1>0, <1>1, <2>1
  <2>3. k = 2 /\ yyss[n - 2] \in Base(x)
    BY <1>3, <1>7, <2>1, <2>2, <1>4 DEF Base
  <2>. QED
    BY <2>2, <2>3
<1>8. CASE s = 25
  <2>1. n - 1 \in 1 .. n /\ yyss[n - 1] = 13
    <3>1. yyss[n] = 25
      BY <1>0, <1>8
    <3>. QED
      BY <1>0, <1>1, <1>4, <3>1
  <2>2. n - 2 \in 1 .. n /\ yyss[n - 2] = 6
    BY <1>0, <1>1, <2>1, <1>4
  <2>3. n - 3 \in 1 .. n
    BY <1>0, <1>1, <2>2
  <2>4. k = 3 /\ rule = 22
    BY <1>3, <1>8
  <2>. QED
    BY <1>2, <2>3, <2>4 DEF n, s, rule, k, x
<1>9. CASE s = 30
  <2>1. n - 1 \in 1 .. n /\ yyss[n - 1] = 27
    <3>1. yyss[n] = 30
      BY <1>0, <1>9
    <3>. QED
      BY <1>0, <1>1, <1>4, <3>1
  <2>2. n - 2 \in 1 .. n /\ yyss[n - 2] \in {20, 29, 33}
    BY <1>0, <1>1, <2>1, <1>4
  <2>3. n - 3 \in 1 .. n /\ yyss[n - 3] \in {8, 26, 31}
    BY <1>0, <1>1, <2>2, <1>4
  <2>4. k = 3 /\ rule = 15 /\ x = 20
    BY <1>3, <1>9
  <2>5. yyss[n - 3] \in Base(20)
    BY <2>3 DEF Base
  <2>. QED
    BY <1>2, <2>3, <2>4, <2>5 DEF n, s, rule, k, x
<1>10. CASE s = 32
  <2>1. n - 1 \in 1 .. n /\ yyss[n - 1] = 29
    <3>1. yyss[n] = 32
      BY <1>0, <1>10
    <3>. QED
      BY <1>0, <1>1, <1>4, <3>1
  <2>2. n - 2 \in 1 .. n /\ yyss[n - 2] = 26
    BY <1>0, <1>1, <2>1, <1>4
  <2>3. n - 3 \in 1 .. n /\ yyss[n - 3] = 20
    BY <1>0, <1>1, <2>2, <1>4
  <2>4. n - 4 \in 1 .. n /\ yyss[n - 4] = 8
    BY <1>0, <1>1, <2>3, <1>4
  <2>5. n - 5 \in 1 .. n /\ yyss[n - 5] = 5
    BY <1>0, <1>1, <2>4, <1>4
  <2>6. n - 6 \in 1 .. n /\ yyss[n - 6] = 0
    BY <1>0, <1>1, <2>5, <1>4
  <2>7. k = 6 /\ rule = 16 /\ x = 21 /\ 0 \in Base(21)
    BY <1>3, <1>10 DEF Base
  <2>. QED
    BY <1>2, <2>6, <2>7 DEF n, s, rule, k, x
<1>11. CASE s = 34
  <2>1. n - 1 \in 1 .. n /\ yyss[n - 1] = 33
    <3>1. yyss[n] = 34
      BY <1>0, <1>11
    <3>. QED
      BY <1>0, <1>1, <1>4, <3>1
  <2>2. n - 2 \in 1 .. n /\ yyss[n - 2] = 31
    BY <1>0, <1>1, <2>1, <1>4
  <2>3. n - 3 \in 1 .. n /\ yyss[n - 3] = 28
    BY <1>0, <1>1, <2>2, <1>4
  <2>4. n - 4 \in 1 .. n /\ yyss[n - 4] = 23
    BY <1>0, <1>1, <2>3, <1>4
  <2>5. n - 5 \in 1 .. n /\ yyss[n - 5] = 10
    BY <1>0, <1>1, <2>4, <1>4
  <2>6. n - 6 \in 1 .. n /\ yyss[n - 6] \in {6, 12}
    BY <1>0, <1>1, <2>5, <1>4
  <2>7. k = 6 /\ rule = 17 /\ x = 22 /\ Base(22) = {6, 12}
    BY <1>3, <1>11 DEF Base
  <2>. QED
    BY <1>2, <2>6, <2>7 DEF n, s, rule, k, x
<1>12. k \in {0, 1} \/ s \in {9, 24} \/ s \in {25, 30, 32, 34}
  BY <1>0, <1>3 DEF LalrStates
<1>. QED
  BY <1>2, <1>5, <1>6, <1>7, <1>8, <1>9, <1>10, <1>11, <1>12 DEF n, s, rule, k, x

\* A state that is put above one that it may be above.
LEMMA StackPush ==
  ASSUME StackIs, NEW kept \in 1 .. Len(yyss), NEW t \in LalrStates, yyss[kept] \in Under(t),
         yyss' = Append(SubSeq(yyss, 1, kept), t)
  PROVE  StackIs' /\ Len(yyss') = kept + 1
<1>. DEFINE below == SubSeq(yyss, 1, kept)
<1>0. kept \in Nat /\ kept # 0 /\ yyss \in Seq(LalrStates) /\ Len(yyss) \in Nat
  BY DEF StackIs, Stacked
<1>1. below \in Seq(LalrStates) /\ Len(below) = kept /\ \A i \in 1 .. kept : below[i] = yyss[i]
  <2>1. \A i \in 1 .. kept : yyss[i] \in LalrStates
    BY <1>0
  <2>. QED
    BY <1>0, <2>1, SubSeqProperties
<1>. HIDE DEF below
<1>2. /\ yyss' \in Seq(LalrStates) /\ Len(yyss') = kept + 1 /\ yyss'[kept + 1] = t
      /\ \A i \in 1 .. kept : yyss'[i] = yyss[i]
  <2>1. yyss' = Append(below, t)
    BY DEF below
  <2>2. /\ yyss' \in Seq(LalrStates) /\ Len(yyss') = Len(below) + 1 /\ yyss'[Len(below) + 1] = t
        /\ \A i \in 1 .. Len(below) : yyss'[i] = below[i]
    BY <1>1, <2>1, AppendProperties
  <2>. QED
    BY <1>1, <2>2
<1>3. yyss'[1] = 0 /\ yyss' # <<>>
  <2>1. 1 \in 1 .. kept /\ yyss[1] = 0
    BY <1>0 DEF StackIs, Stacked
  <2>2. Len(yyss') # 0
    BY <1>0, <1>2
  <2>. QED
    BY <1>2, <2>1, <2>2
<1>4. ASSUME NEW i \in 2 .. kept + 1
      PROVE  yyss'[i - 1] \in Under(yyss'[i])
  <2>1. CASE i = kept + 1
    BY <1>0, <1>2, <2>1
  <2>2. CASE i # kept + 1
    <3>1. i \in 2 .. Len(yyss) /\ i \in 1 .. kept /\ i - 1 \in 1 .. kept
      BY <1>0, <2>2
    <3>2. yyss[i - 1] \in Under(yyss[i])
      BY <3>1 DEF StackIs, Stacked
    <3>. QED
      BY <1>2, <3>1, <3>2
  <2>. QED
    BY <2>1, <2>2
<1>. QED
  BY <1>2, <1>3, <1>4 DEF StackIs, Stacked

\* The value stack beside it.
LEMMA ValuesPush ==
  ASSUME ValuesIs, NEW kept \in 0 .. Len(yyvs), NEW value \in Seq(Chars),
         yyvs' = Append(SubSeq(yyvs, 1, kept), value)
  PROVE  yyvs' \in Seq(Seq(Chars)) /\ Len(yyvs') = kept + 1
<1>. DEFINE below == SubSeq(yyvs, 1, kept)
<1>0. kept \in Nat /\ yyvs \in Seq(Seq(Chars)) /\ Len(yyvs) \in Nat
  BY DEF ValuesIs
<1>1. below \in Seq(Seq(Chars)) /\ Len(below) = kept
  <2>1. \A i \in 1 .. kept : yyvs[i] \in Seq(Chars)
    BY <1>0
  <2>. QED
    BY <1>0, <2>1, SubSeqProperties
<1>. HIDE DEF below
<1>2. yyvs' = Append(below, value)
  BY DEF below
<1>3. yyvs' \in Seq(Seq(Chars)) /\ Len(yyvs') = Len(below) + 1
  <2>. DEFINE T == Seq(Chars)
  <2>1. below \in Seq(T) /\ value \in T
    BY <1>1
  <2>. HIDE DEF T
  <2>2. Append(below, value) \in Seq(T) /\ Len(Append(below, value)) = Len(below) + 1
    BY <2>1, AppendProperties
  <2>. QED
    BY <1>2, <2>2 DEF T
<1>. QED
  BY <1>1, <1>3

\* The stacks' capacity is doubled in time.
LEMMA PushRoom ==
  ASSUME HasRoom, NEW states, NEW values, Push(states, values),
         NEW n \in 1 .. 10, Len(states) = n, Len(yyss) \in Nat, n <= Len(yyss) + 1
  PROVE  HasRoom'
<1>. DEFINE full == yystacksize <= Len(states)
            size == IF full /\ yystacksize < MaxDepth THEN Min({2 * yystacksize, MaxDepth})
                    ELSE yystacksize
<1>1. yyss' = states /\ yystacksize' = size
      /\ yyresult' = IF ~full THEN "runs"
                     ELSE IF yystacksize >= MaxDepth THEN "exhausted"
                     ELSE IF size <= Len(states) THEN "abort" ELSE "runs"
  BY DEF Push
<1>2. yystacksize \in Nat /\ MaxDepth \in Nat /\ MaxDepth > 10 /\ n <= yystacksize
      /\ yystacksize # 0
  BY DepthAssumption DEF HasRoom
<1>3. Min({2 * yystacksize, MaxDepth}) = IF 2 * yystacksize <= MaxDepth THEN 2 * yystacksize ELSE MaxDepth
  BY <1>2, MinOfTwo
<1>4. CASE full
  <2>1. yystacksize < MaxDepth
    BY <1>2, <1>4
  <2>2. size = Min({2 * yystacksize, MaxDepth})
    BY <1>4, <2>1
  <2>3. size \in Nat /\ n < size
    BY <1>2, <1>3, <2>1, <2>2
  <2>4. yyresult' # "exhausted"
    BY <1>1, <1>2, <2>1
  <2>. QED
    BY <1>1, <2>3, <2>4 DEF HasRoom
<1>5. CASE ~full
  BY <1>1, <1>2, <1>5 DEF HasRoom
<1>. QED
  BY <1>4, <1>5

\* A value of the right hand side of a rule that is on the stack.
LEMMA ValueType ==
  ASSUME ValuesIs, NEW rule \in 2 .. 21, lalr.yyr2[rule + 1] < Len(yyss),
         NEW i \in 1 .. lalr.yyr2[rule + 1]
  PROVE  Value(rule, i) \in Seq(Chars)
<1>. DEFINE k == lalr.yyr2[rule + 1]
<1>1. k \in 0 .. 6
  BY LalrTables
<1>2. yyvs \in Seq(Seq(Chars)) /\ Len(yyvs) \in Nat /\ k < Len(yyvs) /\ i \in 1 .. k
  BY DEF ValuesIs
<1>. HIDE DEF k
<1>3. Len(yyvs) - k + i \in 1 .. Len(yyvs)
  <2>. DEFINE n == Len(yyvs)
  <2>1. n \in Nat /\ k \in 0 .. 6 /\ k < n /\ i \in 1 .. k
    BY <1>1, <1>2
  <2>. HIDE DEF n
  <2>2. n - k + i \in 1 .. n
    BY <2>1
  <2>. QED
    BY <2>2 DEF n
<1>. QED
  BY <1>2, <1>3 DEF Value, k

\* The value of a left hand side.
LEMMA SemanticType ==
  ASSUME ValuesIs, NEW rule \in 2 .. 21, lalr.yyr2[rule + 1] < Len(yyss)
  PROVE  SemanticValue(rule) \in Seq(Chars)
<1>. DEFINE string == CASE rule = 6 -> Value(rule, 1) \o Value(rule, 2)
                        [] rule = 15 -> Joined(rule)
                        [] rule \in {11, 20} -> <<>>
                        [] OTHER -> Value(rule, 1)
<1>1. \A i \in 1 .. lalr.yyr2[rule + 1] : Value(rule, i) \in Seq(Chars)
  BY ValueType
<1>2. string \in Seq(Chars)
  <2>1. CASE rule = 6
    <3>1. Value(rule, 1) \in Seq(Chars) /\ Value(rule, 2) \in Seq(Chars)
      BY <1>1, <2>1 DEF lalr
    <3>2. string = Value(rule, 1) \o Value(rule, 2)
      BY <2>1
    <3>. QED
      BY <3>1, <3>2, ConcatProperties
  <2>2. CASE rule = 15
    <3>1. Value(rule, 1) \in Seq(Chars) /\ Value(rule, 2) \in Seq(Chars) /\ Value(rule, 3) \in Seq(Chars)
      BY <1>1, <2>2 DEF lalr
    <3>2. string = (Value(rule, 1) \o Value(rule, 2)) \o Value(rule, 3)
      BY <2>2 DEF Joined
    <3>3. Value(rule, 1) \o Value(rule, 2) \in Seq(Chars)
      BY <3>1, ConcatProperties
    <3>. QED
      BY <3>1, <3>2, <3>3, ConcatProperties
  <2>3. CASE rule \in {11, 20}
    BY <2>3
  <2>4. CASE rule \notin {6, 15, 11, 20}
    <3>1. 1 \in 1 .. lalr.yyr2[rule + 1]
      <4>1. \A r \in 2 .. 21 : r \notin {11, 20} => 1 \in 1 .. lalr.yyr2[r + 1]
        BY SMTT(60) DEF lalr
      <4>. QED
        BY <2>4, <4>1
    <3>2. string = Value(rule, 1)
      BY <2>4
    <3>. QED
      BY <1>1, <3>1, <3>2
  <2>. QED
    BY <2>1, <2>2, <2>3, <2>4
<1>3. SemanticValue(rule) = SubSeq(string, 1, Min({MaxText, Len(string)}))
  BY DEF SemanticValue
<1>. HIDE DEF string
<1>4. Len(string) \in Nat /\ MaxText \in Nat
  BY <1>2, DepthAssumption
<1>5. Min({MaxText, Len(string)}) \in 0 .. Len(string)
  BY <1>4, MinOfTwo
<1>6. \A i \in 1 .. Min({MaxText, Len(string)}) : string[i] \in Chars
  BY <1>2, <1>4, <1>5
<1>. QED
  <2>. DEFINE m == Min({MaxText, Len(string)})
  <2>1. SemanticValue(rule) = SubSeq(string, 1, m) /\ m \in 0 .. Len(string)
        /\ \A i \in 1 .. m : string[i] \in Chars
    BY <1>3, <1>5, <1>6
  <2>. HIDE DEF m
  <2>. QED
    BY <1>2, <1>4, <2>1, SubSeqProperties

\* A shift.
LEMMA ShiftStacks ==
  ASSUME GramInv, yylval \in Seq(Chars), Shift
  PROVE  GramInv'
<1>. DEFINE n == Len(yyss)
            t == ShiftTo(TopState)
<1>0. /\ yyss \in Seq(LalrStates) /\ n \in Nat /\ n # 0 /\ n \in 1 .. n /\ TopState = yyss[n]
      /\ TopState \in LalrStates /\ Len(yyvs) = n /\ yyvs \in Seq(Seq(Chars))
  BY EmptySeq DEF GramInv, StackIs, Stacked, ValuesIs, TopState, Last
<1>1. t \in LalrStates /\ t > 0
  BY <1>0, ShiftIs DEF Shift
<1>2. TopState \in Under(t)
  BY <1>0, <1>1, ShiftAbove
<1>3. Push(Append(yyss, t), Append(yyvs, yylval)) /\ UNCHANGED parsing_request
      /\ yyss' = Append(yyss, t) /\ yyvs' = Append(yyvs, yylval)
  BY DEF Shift, Push
<1>. HIDE DEF t
<1>4. StackIs' /\ Len(yyss') = n + 1
  <2>1. SubSeq(yyss, 1, n) = yyss
    BY <1>0, SubSeqFull
  <2>. QED
    BY <1>0, <1>1, <1>2, <1>3, <2>1, StackPush DEF GramInv
<1>5. ValuesIs'
  <2>1. SubSeq(yyvs, 1, n) = yyvs
    <3>. DEFINE T == Seq(Chars)
    <3>1. yyvs \in Seq(T)
      BY <1>0
    <3>. HIDE DEF T
    <3>. QED
      BY <1>0, <3>1, SubSeqFull
  <2>2. n \in 0 .. Len(yyvs)
    BY <1>0
  <2>. QED
    BY <1>3, <1>4, <2>1, <2>2, ValuesPush DEF GramInv, ValuesIs
<1>6. HasRoom'
  <2>1. Len(yyss') \in 1 .. 10
    BY <1>4, StackHeight DEF StackIs
  <2>2. n + 1 \in 1 .. 10 /\ Len(Append(yyss, t)) = n + 1
    BY <1>3, <1>4, <2>1
  <2>3. HasRoom /\ Push(Append(yyss, t), Append(yyvs, yylval)) /\ Len(yyss) \in Nat
        /\ n + 1 <= Len(yyss) + 1
    BY <1>0, <1>3 DEF GramInv
  <2>. QED
    BY <2>2, <2>3, PushRoom
<1>7. FieldsFit'
  BY <1>3 DEF GramInv, FieldsFit
<1>. QED
  BY <1>4, <1>5, <1>6, <1>7 DEF GramInv

\* A field is stored where the array has room for it.
LEMMA StoreFits ==
  ASSUME ValuesIs, FieldsFit, NEW rule \in 2 .. 21, lalr.yyr2[rule + 1] < Len(yyss),
         parsing_request' = Store(rule, parsing_request)
  PROVE  FieldsFit'
<1>. DEFINE r == parsing_request
            C == Seq(Chars)
            T == C \X C
            R == [method : C, uri : C, version : C, headers : Seq(T), capacity : Nat \ {0}]
<1>0. r \in R /\ Len(r.headers) \in Nat /\ Len(r.headers) <= r.capacity
  BY DEF FieldsFit
<1>1. CASE rule = 17
  <2>. DEFINE field == <<Value(17, 1), Value(17, 5)>>
  <2>1. field \in T
    <3>1. 1 \in 1 .. lalr.yyr2[rule + 1] /\ 5 \in 1 .. lalr.yyr2[rule + 1]
      BY <1>1 DEF lalr
    <3>2. Value(17, 1) \in Seq(Chars) /\ Value(17, 5) \in Seq(Chars)
      BY <1>1, <3>1, ValueType
    <3>. QED
      BY <3>2
  <2>2. r' = [r EXCEPT !.capacity = Room(r), !.headers = Append(@, field)]
    BY <1>1 DEF Store
  <2>3. r.headers \in Seq(T) /\ r.capacity \in Nat \ {0}
    BY <1>0
  <2>. HIDE DEF field, T
  <2>4. Append(r.headers, field) \in Seq(T)
        /\ Len(Append(r.headers, field)) = Len(r.headers) + 1
    BY <2>1, <2>3, AppendProperties
  <2>5. Room(r) \in Nat \ {0} /\ Len(r.headers) + 1 <= Room(r)
    BY <1>0, <2>3 DEF Room
  <2>. HIDE DEF C
  <2>6. r' \in R /\ r'.headers = Append(r.headers, field) /\ r'.capacity = Room(r)
    BY <1>0, <2>2, <2>4, <2>5
  <2>7. Len(r'.headers) <= r'.capacity
    BY <2>4, <2>5, <2>6
  <2>. QED
    BY <2>6, <2>7 DEF FieldsFit, T, C
<1>2. CASE rule = 16
  <2>1. {1, 3, 5} \subseteq 1 .. lalr.yyr2[rule + 1]
    BY <1>2 DEF lalr
  <2>2. Value(16, 1) \in C /\ Value(16, 3) \in C /\ Value(16, 5) \in C
    BY <1>2, <2>1, ValueType
  <2>3. r' = [r EXCEPT !.method = Value(16, 1), !.uri = Value(16, 3), !.version = Value(16, 5)]
    BY <1>2 DEF Store
  <2>. HIDE DEF C
  <2>4. r' \in R /\ r'.headers = r.headers /\ r'.capacity = r.capacity
    BY <1>0, <2>2, <2>3
  <2>. QED
    BY <1>0, <2>4 DEF FieldsFit, C
<1>3. CASE rule \notin {16, 17}
  <2>1. r' = r
    BY <1>3 DEF Store
  <2>. QED
    BY <2>1 DEF FieldsFit
<1>. QED
  BY <1>1, <1>2, <1>3

\* A reduction.
LEMMA ReduceStacks ==
  ASSUME GramInv, NEW rule \in 1 .. 21, Reduce(rule)
  PROVE  GramInv'
<1>. DEFINE n == Len(yyss)
            kept == n - lalr.yyr2[rule + 1]
            below == SubSeq(yyss, 1, kept)
            x == lalr.yyr1[rule + 1]
            t == GotoState(Last(below), x)
            value == SemanticValue(rule)
<1>0. /\ yyss \in Seq(LalrStates) /\ n \in Nat /\ Len(yyvs) = n
      /\ StackIs /\ ValuesIs /\ HasRoom /\ FieldsFit
  BY DEF GramInv, StackIs, Stacked, ValuesIs
<1>1. /\ rule = lalr.yydefact[TopState + 1]
      /\ parsing_request' = Store(rule, parsing_request)
      /\ Push(Append(below, t), Append(SubSeq(yyvs, 1, kept), value))
  BY DEF Reduce
<1>2. rule \in 2 .. 21 /\ kept \in 1 .. n /\ yyss[kept] \in Base(x)
  <2>1. rule \in {0} \cup 2 .. 22 /\ kept \in 1 .. n /\ (rule \in 2 .. 21 => yyss[kept] \in Base(x))
    BY <1>0, <1>1, Handle
  <2>2. rule \in 2 .. 21
    BY <2>1
  <2>. QED
    BY <2>1, <2>2
<1>3. x \in 16 .. 24 /\ lalr.yyr2[rule + 1] \in 0 .. 6
  BY <1>2, LalrTables
<1>4. lalr.yyr2[rule + 1] < n
  <2>. DEFINE k == lalr.yyr2[rule + 1]
  <2>1. n \in Nat /\ k \in 0 .. 6 /\ n - k \in 1 .. n
    BY <1>0, <1>2, <1>3
  <2>. HIDE DEF n, k
  <2>2. k < n
    BY <2>1
  <2>. QED
    BY <2>2 DEF k
<1>5. Last(below) = yyss[kept]
  <2>1. Len(below) = kept /\ below[kept] = yyss[kept]
    <3>1. \A i \in 1 .. kept : yyss[i] \in LalrStates
      BY <1>0, <1>2
    <3>. HIDE DEF kept, n
    <3>. QED
      BY <1>0, <1>2, <3>1, SubSeqProperties DEF n
  <2>. QED
    BY <2>1 DEF Last
<1>6. t \in LalrStates /\ yyss[kept] \in Under(t)
  BY <1>2, <1>3, <1>5, GotoStateIs, GotoAbove
<1>7. value \in Seq(Chars)
  BY <1>0, <1>2, <1>4, SemanticType
<1>8. yyss' = Append(below, t) /\ yyvs' = Append(SubSeq(yyvs, 1, kept), value)
  BY <1>1 DEF Push
<1>. HIDE DEF kept, t, value, x
<1>9. StackIs' /\ Len(yyss') = kept + 1
  BY <1>0, <1>2, <1>6, <1>8, StackPush
<1>10. ValuesIs'
  <2>1. kept \in 0 .. Len(yyvs)
    BY <1>0, <1>2
  <2>. QED
    BY <1>0, <1>7, <1>8, <1>9, <2>1, ValuesPush DEF ValuesIs
<1>11. HasRoom'
  <2>1. Len(yyss') \in 1 .. 10
    BY <1>9, StackHeight DEF StackIs
  <2>2. kept + 1 <= n + 1
    BY <1>0, <1>2
  <2>. QED
    BY <1>0, <1>1, <1>8, <1>9, <2>1, <2>2, PushRoom
<1>12. FieldsFit'
  BY <1>0, <1>1, <1>2, <1>4, StoreFits
<1>. QED
  BY <1>9, <1>10, <1>11, <1>12 DEF GramInv

\* A step of yyparse() between tokens.
LEMMA GramStepStacks ==
  ASSUME GramInv, yylval \in Seq(Chars), GramStep
  PROVE  GramInv'
<1>1. CASE Shift
  BY <1>1, ShiftStacks
<1>2. ASSUME NEW rule \in 1 .. 21, Reduce(rule)
      PROVE  GramInv'
  BY <1>2, ReduceStacks
<1>3. CASE Accept \/ SyntaxError \/ Overrun
  <2>1. UNCHANGED <<stack, parsing_request>> /\ yyresult' \in {"accept", "abort", "overrun"}
    BY <1>3 DEF Accept, SyntaxError, Overrun
  <2>. QED
    BY <2>1 DEF GramInv, StackIs, ValuesIs, HasRoom, FieldsFit, stack
<1>. QED
  BY <1>1, <1>2, <1>3 DEF GramStep

\* The stacks of a new call, and its request.
LEMMA NewStacks ==
  ASSUME Yyparse
  PROVE  GramInv'
<1>1. StackIs'
  <2>1. 0 \in LalrStates
    BY DEF LalrStates
  <2>. QED
    BY <2>1 DEF Yyparse, StackIs, Stacked
<1>2. ValuesIs' /\ HasRoom'
  BY DepthAssumption DEF Yyparse, ValuesIs, HasRoom
<1>3. FieldsFit'
  BY DEF Yyparse, FieldsFit, NoRequest
<1>. QED
  BY <1>1, <1>2, <1>3 DEF GramInv

\* Every step keeps them so.
LEMMA StacksStep ==
  ASSUME GramInv, yylval \in Seq(Chars), [Next]_vars
  PROVE  GramInv'
<1>1. CASE Call
  BY <1>1, NewStacks DEF Call
<1>2. CASE Parse
  BY <1>2, GramStepStacks DEF Parse
<1>3. CASE Ask \/ Scan \/ GetToken \/ GetEnd \/ UNCHANGED vars
  <2>1. UNCHANGED <<stack, parsing_request>> /\ yyresult' \in {yyresult, "runs", "overrun"}
    BY <1>3 DEF Ask, Scan, GetToken, GetEnd, Reads, ReadToken, vars, gramvars
  <2>. QED
    BY <2>1 DEF GramInv, StackIs, ValuesIs, HasRoom, FieldsFit, stack
<1>. QED
  BY <1>1, <1>2, <1>3 DEF Next

\* The stacks and the request before the first call.
LEMMA InitStacks ==
  ASSUME Init
  PROVE  GramInv
<1>1. StackIs
  <2>1. 0 \in LalrStates /\ yyss = <<0>>
    BY DEF LalrStates, Init, GramInit
  <2>. QED
    BY <2>1 DEF StackIs, Stacked
<1>2. ValuesIs /\ HasRoom
  BY DepthAssumption DEF ValuesIs, HasRoom, Init, GramInit
<1>3. FieldsFit
  BY DEF FieldsFit, NoRequest, Init, GramInit
<1>. QED
  BY <1>1, <1>2, <1>3 DEF GramInv

\* The stacks are never full, nor popped below the first state, however long the input: the
\* states on them rise with their depth, as the grammar nests no deeper.
THEOREM StacksStayBounded == Spec => []StacksBounded
<1>. DEFINE Inv == CallInv /\ GramInv
<1>1. Init => Inv
  BY CallInit, InitStacks
<1>2. Inv /\ [Next]_vars => Inv'
  <2>1. CallInv => yylval \in Seq(Chars)
    BY DEF CallInv, TokensOK
  <2>. QED
    BY <2>1, CallStep, StacksStep
<1>3. Inv => StacksBounded
  <2>. SUFFICES ASSUME GramInv
                PROVE  StacksBounded
    OBVIOUS
  <2>1. Len(yyvs) = Len(yyss) /\ Len(yyss) < yystacksize /\ yyresult # "exhausted"
        /\ Len(parsing_request.headers) <= parsing_request.capacity
    BY DEF GramInv, ValuesIs, HasRoom, FieldsFit
  <2>2. Len(yyss) \in 1 .. 10
    BY StackHeight DEF GramInv, StackIs
  <2>3. lalr.yyr2[lalr.yydefact[TopState + 1] + 1] < Len(yyss)
    <3>. DEFINE rule == lalr.yydefact[TopState + 1]
                k == lalr.yyr2[rule + 1]
    <3>1. rule \in {0} \cup 2 .. 22 /\ Len(yyss) - k \in 1 .. Len(yyss)
      BY Handle DEF GramInv
    <3>2. k \in 0 .. 6
      <4>1. \A r \in {0} \cup 2 .. 22 : lalr.yyr2[r + 1] \in 0 .. 6
        BY DEF lalr
      <4>. QED
        BY <3>1, <4>1
    <3>. HIDE DEF rule, k
    <3>3. k < Len(yyss)
      BY <2>2, <3>1, <3>2
    <3>. QED
      BY <3>3 DEF rule, k
  <2>4. Len(yyss) <= 10
    <3>. DEFINE n == Len(yyss)
    <3>1. n \in 1 .. 10
      BY <2>2
    <3>. HIDE DEF n
    <3>2. n <= 10
      BY <3>1
    <3>. QED
      BY <3>2 DEF n
  <2>. QED
    BY <2>1, <2>3, <2>4 DEF StacksBounded
<1>. HIDE DEF Inv
<1>. QED
  BY <1>1, <1>2, <1>3, PTL DEF Spec

-----------------------------------------------------------------------------
(* The lengths of strings.                                                 *)

\* The states behind a t_crlf, whose value is that of a token before it.
AfterCrlf == {25, 32, 34}

\* How many characters the lookahead has.
Ahead == IF yychar \in {YYEMPTY, t_crlf} THEN 0 ELSE Len(yylval)

\* The values on the stack are parts of what the tokens were, one behind the other: value i
\* is no longer than what lies between the i-th mark and the next.
Marked(marks) ==
  /\ marks \in [1 .. Len(yyvs) + 1 -> Nat]
  /\ \A i, j \in 1 .. Len(yyvs) + 1 : i <= j => marks[i] <= marks[j]
  /\ \A i \in 1 .. Len(yyvs) : yyss[i] \notin AfterCrlf => Len(yyvs[i]) <= marks[i + 1] - marks[i]
  /\ marks[Len(yyvs) + 1] + Ahead <= texts

TextInv ==
  /\ texts \in Nat
  /\ yyresult = "runs" => \E marks : Marked(marks)
  /\ yyresult # "overrun" => Len(yylval) <= MaxText
  /\ StringsBounded

\* The states behind a t_crlf are at the top of the stack only.
LEMMA InnerPlain ==
  ASSUME StackIs, NEW i \in 1 .. Len(yyss), i # Len(yyss)
  PROVE  yyss[i] \notin AfterCrlf
<1>1. Len(yyss) \in Nat /\ i + 1 \in 2 .. Len(yyss) /\ (i + 1) - 1 = i
  BY DEF StackIs, Stacked
<1>2. yyss[i] \in Under(yyss[i + 1]) /\ yyss[i + 1] \in LalrStates
  BY <1>1 DEF StackIs, Stacked
<1>3. \A t \in LalrStates : 25 \notin Under(t) /\ 32 \notin Under(t) /\ 34 \notin Under(t)
  BY SMTT(60) DEF LalrStates, Under
<1>. QED
  BY <1>2, <1>3 DEF AfterCrlf

\* A t_crlf is shifted to one of them.
LEMMA CrlfShift ==
  ASSUME NEW s \in LalrStates, ShiftTo(s) > 0, yychar = t_crlf
  PROVE  ShiftTo(s) \in AfterCrlf
<1>. DEFINE base == lalr.yypact[s + 1]
            t == ShiftTo(s)
<1>1. ~IsDefault(s) /\ Entry(base, yychar, yychar) = t /\ t # 0
  BY DEF ShiftTo
<1>2. PICK n \in 0 .. 47 : lalr.yycheck[n + 1] = yychar /\ t = lalr.yytable[n + 1]
  BY <1>1, EntryIs
<1>3. \A m \in 0 .. 47 : lalr.yycheck[m + 1] = 3 => m \in {2, 5, 10}
  BY SMTT(60) DEF lalr
<1>4. lalr.yytable[3] = 25 /\ lalr.yytable[6] = 32 /\ lalr.yytable[11] = 34
  BY DEF lalr
<1>. HIDE DEF t
<1>5. n \in {2, 5, 10}
  BY <1>2, <1>3 DEF t_crlf
<1>6. lalr.yytable[n + 1] \in {25, 32, 34}
  BY <1>4, <1>5
<1>. QED
  BY <1>2, <1>6 DEF AfterCrlf, t

\* The least of three numbers.
LEMMA MinOfThree ==
  ASSUME NEW a \in Nat, NEW b \in Nat, NEW c \in Nat
  PROVE  Min({a, b, c}) \in Nat /\ Min({a, b, c}) <= a /\ Min({a, b, c}) <= b /\ Min({a, b, c}) <= c
<1>1. {a, b, c} \in SUBSET Nat /\ {a, b, c} # {}
  OBVIOUS
<1>. QED
  BY <1>1, MinOfNats

\* A value on the stack is no longer than what the tokens were.
LEMMA ValueBounded ==
  ASSUME ValuesIs, texts \in Nat, Ahead \in Nat, NEW marks, Marked(marks), NEW i \in 1 .. Len(yyvs),
         yyss[i] \notin AfterCrlf
  PROVE  Len(yyvs[i]) <= texts
<1>. DEFINE n == Len(yyvs)
            len == Len(yyvs[i])
<1>0. n \in Nat /\ yyvs[i] \in Seq(Chars)
  BY DEF ValuesIs
<1>1. len \in Nat
  BY <1>0
<1>2. i \in 1 .. n + 1 /\ i + 1 \in 1 .. n + 1 /\ n + 1 \in 1 .. n + 1 /\ i + 1 <= n + 1
  BY <1>0
<1>3. marks[i] \in Nat /\ marks[i + 1] \in Nat /\ marks[n + 1] \in Nat /\ marks[i + 1] <= marks[n + 1]
      /\ len <= marks[i + 1] - marks[i] /\ marks[n + 1] + Ahead <= texts
  BY <1>2 DEF Marked
<1>. HIDE DEF n, len
<1>4. len <= texts
  BY <1>1, <1>3
<1>. QED
  BY <1>4 DEF len

\* What an element above the first k of a sequence makes of it.
LEMMA PutAbove ==
  ASSUME NEW T, NEW s \in Seq(T), NEW k \in 0 .. Len(s), NEW v \in T
  PROVE  /\ Append(SubSeq(s, 1, k), v) \in Seq(T)
         /\ Len(Append(SubSeq(s, 1, k), v)) = k + 1
         /\ Append(SubSeq(s, 1, k), v)[k + 1] = v
         /\ \A i \in 1 .. k : Append(SubSeq(s, 1, k), v)[i] = s[i]
<1>. DEFINE below == SubSeq(s, 1, k)
<1>0. k \in Nat /\ Len(s) \in Nat /\ \A i \in 1 .. k : s[i] \in T
  OBVIOUS
<1>1. below \in Seq(T) /\ Len(below) = k /\ \A i \in 1 .. k : below[i] = s[i]
  BY <1>0, SubSeqProperties
<1>. HIDE DEF below
<1>2. /\ Append(below, v) \in Seq(T) /\ Len(Append(below, v)) = k + 1
      /\ Append(below, v)[k + 1] = v /\ \A i \in 1 .. k : Append(below, v)[i] = below[i]
  BY <1>0, <1>1, AppendProperties
<1>. QED
  BY <1>1, <1>2 DEF below

\* A value that is no longer than what it stands for keeps the marks.
LEMMA PushMarks ==
  ASSUME StackIs, ValuesIs, NEW marks, Marked(marks),
         NEW kept \in 1 .. Len(yyss), NEW t \in LalrStates, NEW value \in Seq(Chars), NEW e \in Nat,
         yyss' = Append(SubSeq(yyss, 1, kept), t), yyvs' = Append(SubSeq(yyvs, 1, kept), value),
         marks[kept + 1] <= e, t \notin AfterCrlf => Len(value) <= e - marks[kept + 1],
         e + Ahead' <= texts'
  PROVE  (\E m : Marked(m))'
<1>. DEFINE m == [i \in 1 .. kept + 2 |-> IF i <= kept + 1 THEN marks[i] ELSE e]
            C == Seq(Chars)
<1>0. /\ kept \in Nat /\ kept # 0 /\ Len(yyvs) \in Nat /\ Len(yyvs) = Len(yyss)
      /\ kept \in 0 .. Len(yyvs) /\ yyss \in Seq(LalrStates) /\ yyvs \in Seq(C)
  BY DEF StackIs, Stacked, ValuesIs
<1>1. /\ Len(yyss') = kept + 1 /\ yyss'[kept + 1] = t /\ \A i \in 1 .. kept : yyss'[i] = yyss[i]
  BY <1>0, PutAbove
<1>2. /\ Len(yyvs') = kept + 1 /\ yyvs'[kept + 1] = value /\ \A i \in 1 .. kept : yyvs'[i] = yyvs[i]
  <2>1. value \in C
    OBVIOUS
  <2>. HIDE DEF C
  <2>. QED
    BY <1>0, <2>1, PutAbove
<1>3. \A i \in 1 .. kept + 1 : i \in 1 .. Len(yyvs) + 1 /\ marks[i] \in Nat
  <2>. DEFINE n == Len(yyvs)
  <2>1. n \in Nat /\ kept \in 0 .. n /\ marks \in [1 .. n + 1 -> Nat]
    BY <1>0 DEF Marked
  <2>. HIDE DEF n
  <2>2. \A i \in 1 .. kept + 1 : i \in 1 .. n + 1
    BY <2>1
  <2>. QED
    BY <2>1, <2>2 DEF n
<1>4. m \in [1 .. kept + 2 -> Nat] /\ m[kept + 2] = e /\ \A i \in 1 .. kept + 1 : m[i] = marks[i]
  BY <1>0, <1>3
<1>. HIDE DEF m
<1>5. \A i, j \in 1 .. kept + 1 : i <= j => marks[i] <= marks[j]
  BY <1>3 DEF Marked
<1>6. ASSUME NEW i \in 1 .. kept + 2, NEW j \in 1 .. kept + 2, i <= j
      PROVE  m[i] <= m[j]
  <2>1. CASE j \in 1 .. kept + 1
    <3>1. i \in 1 .. kept + 1
      BY <1>0, <1>6, <2>1
    <3>. QED
      BY <1>4, <1>5, <1>6, <2>1, <3>1
  <2>2. CASE j = kept + 2 /\ i \in 1 .. kept + 1
    <3>1. kept + 1 \in 1 .. kept + 1 /\ i <= kept + 1
      BY <1>0, <2>2
    <3>2. marks[i] <= marks[kept + 1] /\ marks[i] \in Nat /\ marks[kept + 1] \in Nat
      BY <1>3, <1>5, <2>2, <3>1
    <3>3. marks[i] <= e
      BY <3>2
    <3>. QED
      BY <1>4, <2>2, <3>3
  <2>3. CASE j = kept + 2 /\ i = kept + 2
    BY <1>4, <2>3
  <2>. QED
    BY <1>0, <1>6, <2>1, <2>2, <2>3
<1>7. ASSUME NEW i \in 1 .. kept + 1, yyss'[i] \notin AfterCrlf
      PROVE  Len(yyvs'[i]) <= m[i + 1] - m[i]
  <2>1. CASE i = kept + 1
    <3>1. i + 1 = kept + 2 /\ i \in 1 .. kept + 1
      BY <1>0, <2>1
    <3>2. m[i + 1] = e /\ m[i] = marks[kept + 1] /\ yyvs'[i] = value /\ t \notin AfterCrlf
      BY <1>1, <1>2, <1>4, <1>7, <2>1, <3>1
    <3>. QED
      BY <3>2
  <2>2. CASE i \in 1 .. kept
    <3>1. i \in 1 .. Len(yyvs) /\ i + 1 \in 1 .. kept + 1 /\ i \in 1 .. kept + 1
      BY <1>0, <2>2
    <3>2. m[i + 1] = marks[i + 1] /\ m[i] = marks[i] /\ yyvs'[i] = yyvs[i] /\ yyss'[i] = yyss[i]
      BY <1>1, <1>2, <1>4, <2>2, <3>1
    <3>3. Len(yyvs[i]) <= marks[i + 1] - marks[i]
      BY <1>7, <3>1, <3>2 DEF Marked
    <3>. QED
      BY <3>2, <3>3
  <2>. QED
    BY <1>0, <2>1, <2>2
<1>8. (kept + 1) + 1 = kept + 2
  BY <1>0
<1>9. m[kept + 2] + Ahead' <= texts'
  BY <1>4
<1>10. Marked(m)'
  BY <1>2, <1>4, <1>6, <1>7, <1>8, <1>9 DEF Marked
<1>. QED
  BY <1>10

\* The values of a rule's right hand side that are the handle's on the stack.
LEMMA HandleValue ==
  ASSUME StackIs, ValuesIs, NEW rule \in 2 .. 21, rule = lalr.yydefact[TopState + 1],
         NEW marks, Marked(marks), NEW j \in 1 .. lalr.yyr2[rule + 1], rule \in {16, 17} => j < 6
  PROVE  LET i == Len(yyss) - lalr.yyr2[rule + 1] + j
         IN  /\ i \in 1 .. Len(yyvs) /\ yyss[i] \notin AfterCrlf
             /\ Value(rule, j) \in Seq(Chars)
             /\ Len(Value(rule, j)) <= marks[i + 1] - marks[i]
<1>. DEFINE n == Len(yyss)
            k == lalr.yyr2[rule + 1]
            i == n - k + j
<1>0. /\ n \in Nat /\ n # 0 /\ Len(yyvs) = n /\ yyss \in Seq(LalrStates)
      /\ yyvs \in Seq(Seq(Chars)) /\ TopState = yyss[n]
  BY EmptySeq DEF StackIs, Stacked, ValuesIs, TopState, Last
<1>1. k \in 0 .. 6 /\ n - k \in 1 .. n /\ j \in 1 .. k
  BY Handle, LalrTables
<1>2. rule \in {16, 17} => k = 6
  BY DEF lalr
<1>3. TopState \in AfterCrlf => rule \in {22, 16, 17}
  BY DEF lalr, AfterCrlf
<1>. HIDE DEF n, k
<1>4. i \in 1 .. n /\ (i = n => j = k)
  BY <1>0, <1>1
<1>. HIDE DEF i
<1>5. yyss[i] \notin AfterCrlf
  <2>1. CASE i = n
    <3>1. yyss[i] = TopState
      BY <1>0, <2>1
    <3>2. rule \notin {16, 17, 22}
      BY <1>1, <1>2, <1>4, <2>1
    <3>. QED
      BY <1>3, <3>1, <3>2
  <2>2. CASE i # n
    BY <1>4, <2>2, InnerPlain DEF n
  <2>. QED
    BY <2>1, <2>2
<1>6. Value(rule, j) = yyvs[i]
  BY <1>0 DEF Value, i, k
<1>7. Len(yyvs[i]) <= marks[i + 1] - marks[i]
  BY <1>0, <1>4, <1>5 DEF Marked
<1>. QED
  BY <1>0, <1>4, <1>5, <1>6, <1>7 DEF i, n, k

\* The value of a left hand side is no longer than what the right hand side stands for.
LEMMA SemanticLength ==
  ASSUME StackIs, ValuesIs, NEW rule \in 2 .. 21, rule = lalr.yydefact[TopState + 1],
         NEW marks, Marked(marks)
  PROVE  LET n == Len(yyss)
             kept == n - lalr.yyr2[rule + 1]
         IN  /\ marks[kept + 1] \in Nat /\ marks[n + 1] \in Nat /\ marks[kept + 1] <= marks[n + 1]
             /\ Len(SemanticValue(rule)) <= marks[n + 1] - marks[kept + 1]
<1>. DEFINE n == Len(yyss)
            k == lalr.yyr2[rule + 1]
            kept == n - k
            string == CASE rule = 6 -> Value(rule, 1) \o Value(rule, 2)
                        [] rule = 15 -> Joined(rule)
                        [] rule \in {11, 20} -> <<>>
                        [] OTHER -> Value(rule, 1)
            M(i) == marks[kept + i]
<1>0. n \in Nat /\ n # 0 /\ Len(yyvs) = n
  BY EmptySeq DEF StackIs, Stacked, ValuesIs
<1>1. k \in 0 .. 6 /\ kept \in 1 .. n
  BY Handle, LalrTables
<1>2. ASSUME NEW j \in 1 .. k, rule \in {16, 17} => j < 6
      PROVE  Value(rule, j) \in Seq(Chars) /\ Len(Value(rule, j)) <= M(j + 1) - M(j)
  <2>. DEFINE i == n - k + j
  <2>1. Value(rule, j) \in Seq(Chars) /\ Len(Value(rule, j)) <= marks[i + 1] - marks[i]
    BY <1>2, HandleValue
  <2>2. i = kept + j /\ i + 1 = kept + (j + 1)
    <3>1. j \in Nat
      BY <1>1
    <3>. HIDE DEF n, k
    <3>. QED
      BY <1>0, <1>1, <3>1
  <2>. QED
    BY <2>1, <2>2
<1>3. marks \in [1 .. n + 1 -> Nat] /\ \A i, j \in 1 .. n + 1 : i <= j => marks[i] <= marks[j]
  BY <1>0 DEF Marked
<1>4. \A j \in 1 .. k + 1 : kept + j \in 1 .. n + 1 /\ M(j) \in Nat /\ M(j) <= M(k + 1)
                            /\ M(1) <= M(j)
  <2>1. \A j \in 1 .. k + 1 : kept + j \in 1 .. n + 1 /\ kept + j <= kept + (k + 1)
                              /\ kept + 1 <= kept + j /\ kept + 1 \in 1 .. n + 1
                              /\ kept + (k + 1) \in 1 .. n + 1
    <3>. HIDE DEF n, k
    <3>. QED
      BY <1>0, <1>1
  <2>. HIDE DEF n, k, kept
  <2>. QED
    BY <1>3, <2>1
<1>5. kept + (k + 1) = n + 1
  <2>. HIDE DEF n, k
  <2>. QED
    BY <1>0, <1>1
<1>6. string \in Seq(Chars) /\ Len(string) <= M(k + 1) - M(1)
  <2>1. CASE rule = 6
    <3>1. k = 2 /\ string = Value(rule, 1) \o Value(rule, 2)
      <4>1. \A r \in 2 .. 21 : r = 6 => lalr.yyr2[r + 1] = 2
        BY DEF lalr
      <4>2. k = 2
        BY <2>1, <4>1
      <4>3. string = Value(rule, 1) \o Value(rule, 2)
        BY <2>1
      <4>. QED
        BY <4>2, <4>3
    <3>2. /\ Value(rule, 1) \in Seq(Chars) /\ Len(Value(rule, 1)) <= M(2) - M(1)
          /\ Value(rule, 2) \in Seq(Chars) /\ Len(Value(rule, 2)) <= M(3) - M(2)
      <4>1. 1 \in 1 .. k /\ 2 \in 1 .. k /\ 1 + 1 = 2 /\ 2 + 1 = 3
        BY <3>1
      <4>. HIDE DEF k, kept, string, M
      <4>2. Value(rule, 1) \in Seq(Chars) /\ Len(Value(rule, 1)) <= M(1 + 1) - M(1)
        BY <1>2, <2>1, <4>1
      <4>3. Value(rule, 2) \in Seq(Chars) /\ Len(Value(rule, 2)) <= M(2 + 1) - M(2)
        BY <1>2, <2>1, <4>1
      <4>. QED
        BY <4>1, <4>2, <4>3
    <3>3. M(1) \in Nat /\ M(2) \in Nat /\ M(3) \in Nat
      <4>. HIDE DEF M
      <4>. QED
        BY <1>4, <3>1
    <3>. QED
      <4>. HIDE DEF M, string, k
      <4>1. /\ string \in Seq(Chars)
            /\ Len(string) = Len(Value(rule, 1)) + Len(Value(rule, 2))
        BY <3>1, <3>2, ConcatProperties
      <4>2. k + 1 = 3 /\ Len(string) <= M(3) - M(1)
        BY <3>1, <3>2, <3>3, <4>1
      <4>. QED
        BY <4>1, <4>2
  <2>2. CASE rule = 15
    <3>1. k = 3 /\ string = (Value(rule, 1) \o Value(rule, 2)) \o Value(rule, 3)
      <4>1. \A r \in 2 .. 21 : r = 15 => lalr.yyr2[r + 1] = 3
        BY DEF lalr
      <4>2. k = 3
        BY <2>2, <4>1
      <4>3. string = (Value(rule, 1) \o Value(rule, 2)) \o Value(rule, 3)
        BY <2>2 DEF Joined
      <4>. QED
        BY <4>2, <4>3
    <3>2. /\ Value(rule, 1) \in Seq(Chars) /\ Len(Value(rule, 1)) <= M(2) - M(1)
          /\ Value(rule, 2) \in Seq(Chars) /\ Len(Value(rule, 2)) <= M(3) - M(2)
          /\ Value(rule, 3) \in Seq(Chars) /\ Len(Value(rule, 3)) <= M(4) - M(3)
      <4>1. /\ 1 \in 1 .. k /\ 2 \in 1 .. k /\ 3 \in 1 .. k
            /\ 1 + 1 = 2 /\ 2 + 1 = 3 /\ 3 + 1 = 4
        BY <3>1
      <4>. HIDE DEF k, kept, string, M
      <4>2. Value(rule, 1) \in Seq(Chars) /\ Len(Value(rule, 1)) <= M(1 + 1) - M(1)
        BY <1>2, <2>2, <4>1
      <4>3. Value(rule, 2) \in Seq(Chars) /\ Len(Value(rule, 2)) <= M(2 + 1) - M(2)
        BY <1>2, <2>2, <4>1
      <4>4. Value(rule, 3) \in Seq(Chars) /\ Len(Value(rule, 3)) <= M(3 + 1) - M(3)
        BY <1>2, <2>2, <4>1
      <4>. QED
        BY <4>1, <4>2, <4>3, <4>4
    <3>3. M(1) \in Nat /\ M(2) \in Nat /\ M(3) \in Nat /\ M(4) \in Nat
      <4>. HIDE DEF M
      <4>. QED
        BY <1>4, <3>1
    <3>. QED
      <4>. HIDE DEF M, string, k
      <4>1. /\ Value(rule, 1) \o Value(rule, 2) \in Seq(Chars)
            /\ Len(Value(rule, 1) \o Value(rule, 2)) = Len(Value(rule, 1)) + Len(Value(rule, 2))
        BY <3>2, ConcatProperties
      <4>2. /\ string \in Seq(Chars)
            /\ Len(string) = Len(Value(rule, 1) \o Value(rule, 2)) + Len(Value(rule, 3))
        BY <3>1, <3>2, <4>1, ConcatProperties
      <4>3. k + 1 = 4 /\ Len(string) <= M(4) - M(1)
        BY <3>1, <3>2, <3>3, <4>1, <4>2
      <4>. QED
        BY <4>2, <4>3
  <2>3. CASE rule \in {11, 20}
    <3>1. string = <<>> /\ k + 1 \in 1 .. k + 1 /\ 1 \in 1 .. k + 1
      BY <1>1, <2>3
    <3>. HIDE DEF M, k, string
    <3>2. M(1) \in Nat /\ M(k + 1) \in Nat /\ M(1) <= M(k + 1)
      BY <1>4, <3>1
    <3>3. string \in Seq(Chars) /\ Len(string) = 0
      BY <3>1
    <3>. QED
      BY <3>2, <3>3
  <2>4. CASE rule \notin {6, 15, 11, 20}
    <3>1. 1 \in 1 .. k /\ string = Value(rule, 1)
      <4>1. \A r \in 2 .. 21 : r \notin {11, 20} => 1 \in 1 .. lalr.yyr2[r + 1]
        BY SMTT(60) DEF lalr
      <4>. QED
        BY <2>4, <4>1
    <3>. HIDE DEF M, k, string
    <3>2. Value(rule, 1) \in Seq(Chars) /\ Len(Value(rule, 1)) <= M(1 + 1) - M(1)
      BY <1>2, <3>1
    <3>3. 1 \in 1 .. k + 1 /\ 1 + 1 \in 1 .. k + 1
      BY <1>1, <3>1
    <3>4. M(1) \in Nat /\ M(1 + 1) \in Nat /\ M(k + 1) \in Nat /\ M(1 + 1) <= M(k + 1)
      BY <1>4, <3>3, <1>1
    <3>. QED
      BY <3>1, <3>2, <3>4
  <2>. QED
    BY <2>1, <2>2, <2>3, <2>4
<1>7. Len(SemanticValue(rule)) \in Nat /\ Len(SemanticValue(rule)) <= Len(string)
  <2>1. SemanticValue(rule) = SubSeq(string, 1, Min({MaxText, Len(string)}))
    BY DEF SemanticValue
  <2>. HIDE DEF string, M, k
  <2>2. Len(string) \in Nat /\ MaxText \in Nat
    BY <1>6, DepthAssumption
  <2>3. Min({MaxText, Len(string)}) \in 0 .. Len(string)
    BY <2>2, MinOfTwo
  <2>. DEFINE m == Min({MaxText, Len(string)})
  <2>4. SemanticValue(rule) = SubSeq(string, 1, m) /\ m \in 0 .. Len(string)
    BY <2>1, <2>3
  <2>6. \A i \in 1 .. m : string[i] \in Chars
    <3>. HIDE DEF m
    <3>. QED
      BY <1>6, <2>2, <2>4
  <2>. HIDE DEF m
  <2>5. Len(SubSeq(string, 1, m)) = m
    BY <1>6, <2>2, <2>4, <2>6, SubSeqProperties
  <2>. QED
    BY <2>2, <2>4, <2>5
<1>8. 1 \in 1 .. k + 1 /\ k + 1 \in 1 .. k + 1
  <2>1. k \in 0 .. 6
    BY <1>1
  <2>. HIDE DEF k
  <2>. QED
    BY <2>1
<1>. HIDE DEF string, M, k
<1>9. /\ M(1) \in Nat /\ M(k + 1) \in Nat /\ M(1) <= M(k + 1)
      /\ Len(SemanticValue(rule)) <= M(k + 1) - M(1)
  <2>1. Len(string) \in Nat
    BY <1>6
  <2>2. M(1) \in Nat /\ M(k + 1) \in Nat /\ M(1) <= M(k + 1)
    BY <1>4, <1>8
  <2>. QED
    BY <1>6, <1>7, <2>1, <2>2
<1>10. M(k + 1) = marks[n + 1]
  BY <1>5 DEF M
<1>11. /\ marks[kept + 1] \in Nat /\ marks[n + 1] \in Nat /\ marks[kept + 1] <= marks[n + 1]
       /\ Len(SemanticValue(rule)) <= marks[n + 1] - marks[kept + 1]
  BY <1>9, <1>10 DEF M
<1>. QED
  BY <1>11 DEF k

\* A shift.
LEMMA ShiftText ==
  ASSUME GramInv, yylval \in Seq(Chars), TextInv, Shift, texts' = texts
  PROVE  TextInv'
<1>. DEFINE n == Len(yyss)
            t == ShiftTo(TopState)
<1>0. /\ yyss \in Seq(LalrStates) /\ n \in Nat /\ n # 0 /\ n \in 1 .. n /\ TopState = yyss[n]
      /\ TopState \in LalrStates /\ Len(yyvs) = n /\ yyvs \in Seq(Seq(Chars))
  BY EmptySeq DEF GramInv, StackIs, Stacked, ValuesIs, TopState, Last
<1>1. t \in LalrStates /\ t > 0
  BY <1>0, ShiftIs DEF Shift
<1>2. yychar # YYEMPTY
  BY <1>1 DEF Shift, Decides, NeedsToken, ShiftTo
<1>3. t \notin AfterCrlf => yychar # t_crlf
  BY <1>0, <1>1, CrlfShift
<1>4. PICK marks : Marked(marks)
  BY DEF TextInv, Shift, Decides
<1>5. /\ yyss' = Append(yyss, t) /\ yyvs' = Append(yyvs, yylval) /\ yychar' = YYEMPTY
      /\ yylval' = yylval /\ yyresult' \in {"runs", "exhausted", "abort"} /\ yyresult = "runs"
  BY DEF Shift, Push, Decides
<1>. HIDE DEF t
<1>6. Ahead' = 0 /\ Ahead \in Nat /\ Len(yylval) \in Nat
  BY <1>5 DEF Ahead
<1>. DEFINE e == marks[n + 1] + Ahead
<1>7. marks[n + 1] \in Nat /\ e \in Nat /\ marks[n + 1] <= e /\ e <= texts
      /\ (t \notin AfterCrlf => Len(yylval) <= e - marks[n + 1])
  <2>1. marks[n + 1] \in Nat /\ marks[n + 1] + Ahead <= texts
    BY <1>0, <1>4 DEF Marked
  <2>2. t \notin AfterCrlf => Ahead = Len(yylval)
    BY <1>2, <1>3 DEF Ahead
  <2>. QED
    BY <1>6, <2>1, <2>2
<1>8. SubSeq(yyss, 1, n) = yyss /\ SubSeq(yyvs, 1, n) = yyvs
  <2>1. SubSeq(yyss, 1, n) = yyss
    BY <1>0, SubSeqFull
  <2>2. SubSeq(yyvs, 1, n) = yyvs
    <3>. DEFINE T == Seq(Chars)
    <3>1. yyvs \in Seq(T)
      BY <1>0
    <3>. HIDE DEF T
    <3>. QED
      BY <1>0, <3>1, SubSeqFull
  <2>. QED
    BY <2>1, <2>2
<1>. HIDE DEF e
<1>9. e + Ahead' <= texts'
  BY <1>6, <1>7
<1>10. (\E m : Marked(m))'
  BY <1>0, <1>1, <1>4, <1>5, <1>7, <1>8, <1>9, PushMarks DEF GramInv
<1>. QED
  BY <1>5, <1>10 DEF TextInv, StringsBounded

\* A reduction.
LEMMA ReduceText ==
  ASSUME GramInv, TextInv, NEW rule \in 1 .. 21, Reduce(rule), texts' = texts
  PROVE  TextInv'
<1>. DEFINE n == Len(yyss)
            kept == n - lalr.yyr2[rule + 1]
            below == SubSeq(yyss, 1, kept)
            x == lalr.yyr1[rule + 1]
            t == GotoState(Last(below), x)
            value == SemanticValue(rule)
<1>0. /\ yyss \in Seq(LalrStates) /\ n \in Nat /\ Len(yyvs) = n
      /\ StackIs /\ ValuesIs
  BY DEF GramInv, StackIs, Stacked, ValuesIs
<1>1. /\ rule = lalr.yydefact[TopState + 1]
      /\ yyss' = Append(below, t) /\ yyvs' = Append(SubSeq(yyvs, 1, kept), value)
      /\ yychar' = yychar /\ yylval' = yylval
      /\ yyresult' \in {"runs", "exhausted", "abort"} /\ yyresult = "runs"
  BY DEF Reduce, Push, Decides, lookahead
<1>2. rule \in 2 .. 21 /\ kept \in 1 .. n
  <2>1. rule \in {0} \cup 2 .. 22 /\ kept \in 1 .. n
    BY <1>0, <1>1, Handle
  <2>2. rule \in 2 .. 21
    BY <2>1
  <2>. QED
    BY <2>1, <2>2
<1>3. x \in 16 .. 24 /\ lalr.yyr2[rule + 1] \in 0 .. 6
  BY <1>2, LalrTables
<1>4. lalr.yyr2[rule + 1] < n
  <2>. DEFINE k == lalr.yyr2[rule + 1]
  <2>1. n \in Nat /\ k \in 0 .. 6 /\ n - k \in 1 .. n
    BY <1>0, <1>2, <1>3
  <2>. HIDE DEF n, k
  <2>2. k < n
    BY <2>1
  <2>. QED
    BY <2>2 DEF k
<1>5. yyss[kept] \in LalrStates /\ Last(below) = yyss[kept]
  <2>1. Len(below) = kept /\ below[kept] = yyss[kept] /\ yyss[kept] \in LalrStates
    <3>1. \A i \in 1 .. kept : yyss[i] \in LalrStates
      BY <1>0, <1>2
    <3>. HIDE DEF kept, n
    <3>. QED
      BY <1>0, <1>2, <3>1, SubSeqProperties DEF n
  <2>. QED
    BY <2>1 DEF Last
<1>6. t \in LalrStates
  BY <1>2, <1>3, <1>5, GotoStateIs
<1>7. value \in Seq(Chars)
  BY <1>0, <1>2, <1>4, SemanticType
<1>8. PICK marks : Marked(marks)
  BY <1>1 DEF TextInv
<1>. DEFINE e == marks[n + 1]
<1>9. marks[kept + 1] \in Nat /\ e \in Nat /\ marks[kept + 1] <= e /\ Len(value) <= e - marks[kept + 1]
  BY <1>0, <1>1, <1>2, <1>8, SemanticLength
<1>. HIDE DEF kept, t, value, x
<1>10. Ahead' = Ahead /\ e + Ahead <= texts
  BY <1>0, <1>1, <1>8 DEF Ahead, Marked
<1>. HIDE DEF e
<1>11. (\E m : Marked(m))'
  BY <1>0, <1>1, <1>2, <1>6, <1>7, <1>8, <1>9, <1>10, PushMarks
<1>. QED
  BY <1>1, <1>11 DEF TextInv, StringsBounded

\* A string that goes too far has been read.
LEMMA OverrunText ==
  ASSUME GramInv, yylval \in Seq(Chars), TextInv, Overrun, texts' = texts
  PROVE  TextInv'
<1>. DEFINE rule == lalr.yydefact[TopState + 1]
<1>0. StackIs /\ ValuesIs /\ Len(yyvs) = Len(yyss) /\ texts \in Nat /\ Ahead \in Nat
      /\ yyresult = "runs"
  BY DEF GramInv, ValuesIs, TextInv, Ahead, Overrun, Decides
<1>1. PICK marks : Marked(marks)
  BY <1>0 DEF TextInv
<1>2. Overruns(rule, parsing_request) /\ rule \in {16, 17}
  BY DEF Overrun, Overruns
<1>3. ASSUME NEW j \in {1, 3, 5}
      PROVE  Len(Value(rule, j)) \in Nat /\ Len(Value(rule, j)) <= texts
  <2>1. rule \in 2 .. 21 /\ j \in 1 .. lalr.yyr2[rule + 1] /\ j < 6
    <3>1. \A r \in {16, 17} : lalr.yyr2[r + 1] = 6
      BY DEF lalr
    <3>. HIDE DEF rule
    <3>. QED
      BY <1>2, <3>1
  <2>. DEFINE i == Len(yyss) - lalr.yyr2[rule + 1] + j
  <2>2. /\ i \in 1 .. Len(yyvs) /\ yyss[i] \notin AfterCrlf /\ Value(rule, j) \in Seq(Chars)
    BY <1>0, <1>1, <2>1, HandleValue
  <2>3. Value(rule, j) = yyvs[i]
    BY <1>0 DEF Value
  <2>. HIDE DEF i, rule
  <2>4. Len(yyvs[i]) <= texts
    BY <1>0, <1>1, <2>2, ValueBounded
  <2>. QED
    BY <2>2, <2>3, <2>4
<1>4. {MethodSize, VersionSize, UriSize, ValueSize} \subseteq Nat /\ MaxText \in Nat
  BY SizeAssumption, DepthAssumption
<1>. HIDE DEF rule
<1>5. texts >= UriSize \/ texts >= ValueSize
  <2>1. CASE rule = 16
    <3>1. \/ Len(Value(16, 1)) >= MethodSize + VersionSize + UriSize
          \/ Len(Value(16, 3)) >= UriSize
          \/ Len(Value(16, 5)) >= VersionSize + UriSize
      BY <1>2, <2>1 DEF Overruns
    <3>2. \A j \in {1, 3, 5} : Len(Value(16, j)) \in Nat /\ Len(Value(16, j)) <= texts
      BY <1>3, <2>1
    <3>. DEFINE a == Len(Value(16, 1))
                b == Len(Value(16, 3))
                c == Len(Value(16, 5))
    <3>3. a \in Nat /\ b \in Nat /\ c \in Nat /\ a <= texts /\ b <= texts /\ c <= texts
      BY <3>2
    <3>. HIDE DEF a, b, c
    <3>4. texts >= UriSize
      <4>1. a >= MethodSize + VersionSize + UriSize \/ b >= UriSize \/ c >= VersionSize + UriSize
        BY <3>1 DEF a, b, c
      <4>. QED
        BY <1>0, <1>4, <3>3, <4>1
    <3>. QED
      BY <3>4
  <2>2. CASE rule = 17
    <3>1. Len(Value(17, 5)) >= ValueSize
      BY <1>2, <2>2 DEF Overruns
    <3>2. Len(Value(17, 5)) \in Nat /\ Len(Value(17, 5)) <= texts
      BY <1>3, <2>2
    <3>. QED
      BY <1>0, <1>4, <3>1, <3>2
  <2>. QED
    BY <1>2, <2>1, <2>2
<1>6. StringsBounded'
  <2>1. MaxText + 1 \in Nat
    BY <1>4
  <2>. DEFINE m == Min({UriSize, ValueSize, MaxText + 1})
  <2>2. m \in Nat /\ m <= UriSize /\ m <= ValueSize
    BY <1>4, <2>1, MinOfThree
  <2>. HIDE DEF m
  <2>3. texts >= m
    BY <1>0, <1>4, <1>5, <2>2
  <2>. QED
    BY <2>3 DEF StringsBounded, m
<1>7. texts' \in Nat /\ yyresult' = "overrun"
  BY <1>0 DEF Overrun
<1>. QED
  BY <1>6, <1>7 DEF TextInv

\* The marks stay where no value is pushed or popped.
LEMMA KeepMarks ==
  ASSUME ValuesIs, TextInv, yyresult = "runs", UNCHANGED stack, texts \in Nat, texts' \in Nat,
         yychar = YYEMPTY, texts + Ahead' <= texts', Ahead' \in Nat
  PROVE  (\E m : Marked(m))'
<1>1. PICK marks : Marked(marks)
  BY DEF TextInv
<1>2. Ahead = 0 /\ yyvs' = yyvs /\ yyss' = yyss
  BY DEF Ahead, stack
<1>. DEFINE n == Len(yyvs) + 1
<1>3. /\ marks \in [1 .. n -> Nat] /\ \A i, j \in 1 .. n : i <= j => marks[i] <= marks[j]
      /\ \A i \in 1 .. Len(yyvs) : yyss[i] \notin AfterCrlf => Len(yyvs[i]) <= marks[i + 1] - marks[i]
      /\ marks[n] + Ahead <= texts
  BY <1>1 DEF Marked
<1>4. marks[n] + Ahead' <= texts'
  <2>1. n \in Nat /\ n # 0
    BY DEF ValuesIs
  <2>. HIDE DEF n
  <2>2. marks[n] \in Nat
    BY <1>3, <2>1
  <2>3. marks[n] <= texts
    <3>1. marks[n] + Ahead <= texts /\ Ahead = 0
      BY <1>2, <1>3
    <3>. QED
      BY <2>2, <3>1
  <2>. DEFINE a == Ahead'
  <2>4. a \in Nat /\ texts + a <= texts'
    OBVIOUS
  <2>. HIDE DEF a
  <2>5. marks[n] + a <= texts'
    BY <2>2, <2>3, <2>4
  <2>. QED
    BY <2>5 DEF a
<1>5. Marked(marks)'
  BY <1>2, <1>3, <1>4 DEF Marked
<1>. QED
  BY <1>5

\* A token.
LEMMA ReadText ==
  ASSUME CallInv, CallInv', GramInv, TextInv, NEW token, NEW value, Reads(token, value),
         token = t_crlf => value = yylval
  PROVE  TextInv'
<1>1. /\ NeedsToken /\ yychar = YYEMPTY /\ yyresult = "runs" /\ UNCHANGED stack
      /\ yychar' = token /\ yylval' = value
      /\ yyresult' = IF Len(value) > MaxText THEN "overrun" ELSE "runs"
      /\ texts' = IF token = t_crlf THEN texts ELSE texts + Len(value)
  BY DEF Reads, ReadToken, NeedsToken
<1>2. yylval' \in Seq(Chars) /\ Len(value) \in Nat /\ MaxText \in Nat /\ texts \in Nat
      /\ Len(yylval) <= MaxText
  <2>1. yylval' \in Seq(Chars)
    BY DEF CallInv, TokensOK
  <2>2. Len(value) \in Nat
    BY <1>1, <2>1
  <2>. QED
    BY <1>1, <2>1, <2>2, DepthAssumption DEF TextInv
<1>3. texts' \in Nat /\ Ahead' \in Nat /\ texts + Ahead' <= texts'
  <2>1. Ahead' = IF token \in {YYEMPTY, t_crlf} THEN 0 ELSE Len(value)
    BY <1>1 DEF Ahead
  <2>. QED
    BY <1>1, <1>2, <2>1
<1>4. (\E m : Marked(m))'
  BY <1>1, <1>2, <1>3, KeepMarks DEF GramInv
<1>5. yyresult' # "overrun" => Len(yylval') <= MaxText
  BY <1>1, <1>2
<1>6. StringsBounded'
  <2>. SUFFICES ASSUME yyresult' = "overrun"
                PROVE  texts' >= Min({UriSize, ValueSize, MaxText + 1})
    BY DEF StringsBounded
  <2>1. Len(value) >= MaxText + 1 /\ token # t_crlf
    BY <1>1, <1>2
  <2>2. texts' >= MaxText + 1
    BY <1>1, <1>2, <2>1
  <2>. DEFINE m == Min({UriSize, ValueSize, MaxText + 1})
  <2>3. m \in Nat /\ m <= MaxText + 1
    BY <1>2, SizeAssumption, MinOfThree
  <2>. HIDE DEF m
  <2>4. texts' >= m
    BY <1>2, <1>3, <2>2, <2>3
  <2>. QED
    BY <2>4 DEF m
<1>. QED
  BY <1>3, <1>4, <1>5, <1>6 DEF TextInv

\* A token of the scanner's is a t_crlf if it is that of rule 2.
LEMMA CrlfRule ==
  ASSUME CallInv, ReturnToken, Token[yylex.act] = t_crlf
  PROVE  yylex.act = 2
<1>0. LexIInv /\ LexTypeOK
  BY DEF CallInv, IInv, LexIInv
<1>1. yylex.act \in 1 .. 11
  <2>1. yylex.pc = "act" /\ yylex.act < 12 /\ yylex.act \in 0 .. EndOfBuffer
    BY <1>0 DEF ReturnToken, LexTypeOK
  <2>2. yylex.act # 0
    BY <1>0, <2>1 DEF LexIInv, AtLexeme, EndOfBuffer
  <2>. QED
    BY <2>1, <2>2 DEF EndOfBuffer
<1>. QED
  BY <1>1 DEF Token, t_backslash, t_crlf, t_sp, t_ws, t_digit, t_dot, t_colon, t_separators,
              t_token_char, t_lws, t_ctl

\* A new call has read nothing.
LEMMA CallText ==
  ASSUME TextInv, Call
  PROVE  TextInv'
<1>1. /\ yyresult # "overrun" /\ yyss' = <<0>> /\ yyvs' = <<<<>>>> /\ yychar' = YYEMPTY
      /\ yylval' = yylval /\ yyresult' = "runs" /\ texts' = 0
  BY DEF Call, Yyparse
<1>. DEFINE m == [i \in 1 .. 2 |-> 0]
<1>2. Marked(m)'
  <2>1. Len(yyvs') = 1 /\ Ahead' = 0 /\ Len(yyvs'[1]) = 0
    BY <1>1 DEF Ahead
  <2>2. m \in [1 .. Len(yyvs') + 1 -> Nat] /\ \A i, j \in 1 .. Len(yyvs') + 1 : i <= j => m[i] <= m[j]
    BY <2>1
  <2>3. \A i \in 1 .. Len(yyvs') : Len(yyvs'[i]) <= m[i + 1] - m[i]
    BY <2>1
  <2>4. m[Len(yyvs') + 1] + Ahead' <= texts'
    BY <1>1, <2>1
  <2>. QED
    BY <2>2, <2>3, <2>4 DEF Marked
<1>3. (\E marks : Marked(marks))'
  BY <1>2
<1>. QED
  BY <1>1, <1>3 DEF TextInv, StringsBounded

\* Every step keeps the lengths.
LEMMA TextStep ==
  ASSUME CallInv, GramInv, TextInv, [Next]_vars
  PROVE  TextInv'
<1>0. CallInv' /\ yylval \in Seq(Chars)
  BY CallStep DEF CallInv, TokensOK
<1>1. CASE Call
  BY <1>1, CallText
<1>2. CASE Parse
  <2>1. GramStep /\ texts' = texts
    BY <1>2 DEF Parse
  <2>2. CASE Shift
    BY <1>0, <2>1, <2>2, ShiftText
  <2>3. ASSUME NEW rule \in 1 .. 21, Reduce(rule)
        PROVE  TextInv'
    BY <2>1, <2>3, ReduceText
  <2>4. CASE Overrun
    BY <1>0, <2>1, <2>4, OverrunText
  <2>5. CASE Accept \/ SyntaxError
    <3>1. UNCHANGED <<stack, lookahead>> /\ yyresult' \in {"accept", "abort"} /\ yyresult = "runs"
      BY <2>5 DEF Accept, SyntaxError, Decides
    <3>. QED
      BY <2>1, <3>1 DEF TextInv, StringsBounded, lookahead
  <2>. QED
    BY <2>1, <2>2, <2>3, <2>4, <2>5 DEF GramStep
<1>3. CASE GetToken
  BY <1>0, <1>3, CrlfRule, ReadText DEF GetToken, TokenValue
<1>4. CASE GetEnd
  BY <1>0, <1>4, ReadText DEF GetEnd
<1>5. CASE Ask \/ Scan \/ UNCHANGED vars
  <2>1. UNCHANGED <<stack, lookahead, yyresult, texts>>
    BY <1>5 DEF Ask, Scan, vars, gramvars, history
  <2>. QED
    BY <2>1 DEF TextInv, StringsBounded, Marked, Ahead, stack, lookahead
<1>. QED
  BY <1>1, <1>2, <1>3, <1>4, <1>5 DEF Next

\* No access of a call leaves flex's buffer, the stacks or the array of fields for want of
\* room there; a string that is too long for its array goes over the end of the request or
\* of the fields only where as much has been read as the smallest of the last arrays holds
\* (parser.l:87, parser.y:124-151).
THEOREM StaysWithinBounds == Spec => []WithinBounds
<1>. DEFINE Inv == CallInv /\ GramInv /\ TextInv
<1>1. Init => Inv
  <2>1. Init => CallInv
    BY CallInit
  <2>2. Init => GramInv
    BY InitStacks
  <2>3. ASSUME Init
        PROVE  TextInv
    <3>1. texts = 0 /\ yyresult = "none" /\ yylval = <<>>
      BY <2>3 DEF Init, GramInit
    <3>. QED
      BY <3>1, DepthAssumption DEF TextInv, StringsBounded
  <2>. QED
    BY <2>1, <2>2, <2>3
<1>2. Inv /\ [Next]_vars => Inv'
  <2>1. CallInv => yylval \in Seq(Chars)
    BY DEF CallInv, TokensOK
  <2>. QED
    BY <2>1, CallStep, StacksStep, TextStep
<1>3. Inv => StringsBounded
  BY DEF TextInv
<1>4. BufferOK /\ StacksBounded /\ StringsBounded => WithinBounds
  BY DEF WithinBounds
<1>. HIDE DEF Inv
<1>. QED
  BY <1>1, <1>2, <1>3, <1>4, BufferStaysOK, StacksStayBounded, PTL DEF Spec
=============================================================================
