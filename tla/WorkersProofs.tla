----------------------------- MODULE WorkersProofs -----------------------------
(***************************************************************************)
(* Which interleavings of workers can give a client a wrong answer, for    *)
(* any workers, handlers and numbers of requests.                          *)
(***************************************************************************)
EXTENDS Workers, FiniteSetTheorems, NaturalsInduction, TLAPS

-----------------------------------------------------------------------------
(* The invariants.                                                         *)

Units == [kind : {"line", "crlf", "rest"}, req : Handlers \X Nat, n : {0}]
Lines == (Handlers \X Nat) \cup {None}
States == {"START", "CRLF", "FOUND"}
Pcs == {"idle", "recv", "scan", "append", "set", "parse", "answer", "clear"}

TypeOK ==
  /\ sent \in [Handlers -> Nat]
  /\ sock \in [Handlers -> Seq(Units)] /\ buffer_list \in [Handlers -> Seq(Units)]
  /\ edge \in SUBSET Handlers /\ queue \in Seq(Handlers)
  /\ work \in [Threads -> [pc : Pcs, h : Handlers \cup {None}, got : Seq(Units)]]
  /\ state \in [Handlers -> States]
  /\ request \in [Handlers -> Lines] /\ answers \in [Handlers -> Seq(Lines)]
  /\ parsing \in [buf : Seq(Units), to : Threads \cup {None}] /\ lex \in Seq(Units)
  /\ overlapped \in BOOLEAN /\ torn \in BOOLEAN /\ crowded \in SUBSET Handlers
  /\ \A w \in Threads : work[w].pc = "idle" <=> work[w].h = None

\* While nothing is torn, one worker is in the parser, with the input it has set.
OneParses ==
  ~torn =>
    \A w \in Threads : work[w].pc = "parse" =>
      parsing.to = w /\ \A v \in Threads : work[v].pc = "parse" => v = w

\* Units of requests of the client h; the end of a request among units, only behind them.
Own(s, h) == \A j \in DOMAIN s : s[j].req[1] = h /\ s[j].kind \in {"line", "crlf"}
Ended(s) == \E j \in DOMAIN s : s[j].kind = "crlf"
EndsLast(s) == \A j \in DOMAIN s : s[j].kind = "crlf" => j = Len(s)

\* The workers that may answer the request h waits for: they have its end.
MayAnswer(w) == work[w].pc \in {"set", "parse", "answer"} \/ Ended(work[w].got)
Ending(h) == {w \in Threads : work[w].h = h /\ MayAnswer(w)}

\* While no request has been refused.
Clean == \A h \in Handlers : None \notin Range(answers[h])

\* What there is of a client's is its own.
OwnOf(h) ==
  /\ Own(sock[h], h) /\ Own(buffer_list[h], h)
  /\ request[h] = None \/ request[h][1] = h
  /\ \A a \in Range(answers[h]) : a[1] = h

\* The end of a request is at one place, in the socket, with a worker or in the list, and
\* once it is in the list nobody answers the request.
OneEnd(h) ==
  /\ 2 * Len(answers[h]) <= sent[h] /\ sent[h] <= 2 * Len(answers[h]) + 2
  /\ EndsLast(sock[h])
  /\ Ended(buffer_list[h]) \/ Ended(sock[h]) \/ Ending(h) # {} => sent[h] = 2 * Len(answers[h]) + 2
  /\ Ended(sock[h]) \/ Ending(h) # {} => ~Ended(buffer_list[h])
  /\ Ended(sock[h]) => Ending(h) = {}
  /\ \A w, v \in Ending(h) : w = v

\* What a worker holds is of its client.
Holds(w) ==
  LET pc == work[w].pc
      h == work[w].h
      got == work[w].got
  IN
  /\ Own(got, h) /\ EndsLast(got)
  /\ pc \in {"idle", "recv", "answer", "clear"} => got = <<>>
  /\ pc = "set" => Ended(got)
  /\ pc = "parse" /\ parsing.to = w => Own(parsing.buf, h)

AllOwn ==
  /\ lex = <<>> /\ EndsLast(parsing.buf)
  /\ \A h \in Handlers : OwnOf(h) /\ OneEnd(h)
  /\ \A w \in Threads : Holds(w)

OwnInv == Clean => AllOwn

\* While no two workers are in one handler or in the parser.
Orderly == ~torn /\ crowded = {}

\* The request h waits for, or sends; its units from the i-th to the j-th; how many have
\* been sent.
Current(h) == <<h, Len(answers[h]) + 1>>
Part(h, i, j) == SubSeq(Header(Current(h)), i, j)
Come(h) == sent[h] - 2 * Len(answers[h])

\* The list has m units of the request, and the socket those behind the k-th.
Has(h, m, k) ==
  /\ m \in 0 .. 1 /\ k \in m .. Come(h)
  /\ buffer_list[h] = Part(h, 1, m) /\ sock[h] = Part(h, k + 1, Come(h))
Scanned(h, m) == IF m = 1 THEN state[h] = "CRLF" ELSE state[h] \in {"START", "FOUND"}

Waits(h) == \E m \in 0 .. 1 : Has(h, m, m) /\ Scanned(h, m)

\* The units a worker holds are those that come next.
Doing(w, h) ==
  LET pc == work[w].pc
      got == work[w].got
  IN
  /\ pc = "recv" => Waits(h)
  /\ pc = "scan" => \E m \in 0 .. 1, k \in 1 .. 2 :
                      Has(h, m, k) /\ Scanned(h, m) /\ m < k /\ got = Part(h, m + 1, k)
  /\ pc = "append" => Has(h, 0, 1) /\ Scanned(h, 1) /\ got = Part(h, 1, 1)
  /\ pc = "set" => \E m \in 0 .. 1 : Has(h, m, 2) /\ state[h] = "FOUND" /\ got = Part(h, m + 1, 2)
  /\ pc = "parse" => parsing.buf = Part(h, 1, 2)
  /\ pc = "answer" => request[h] = Current(h)
  /\ pc \in {"parse", "answer"} => Come(h) = 2 /\ sock[h] = <<>> /\ state[h] = "FOUND"
  /\ pc = "clear" => sock[h] = Part(h, 1, Come(h)) /\ state[h] = "FOUND"

\* The worker of a handler is alone in it.
In(h) == {w \in Threads : work[w].h = h}
Answered(h) == answers[h] = [k \in DOMAIN answers[h] |-> <<h, k>>]
OrderOf(h) ==
  /\ Answered(h) /\ Come(h) \in 0 .. 2
  /\ In(h) = {} => Waits(h)
  /\ \A w \in In(h) : Doing(w, h) /\ In(h) = {w}

AllOrder == lex = <<>> /\ \A h \in Handlers : OrderOf(h)
OrderInv == Orderly => AllOrder

-----------------------------------------------------------------------------
(* The operators of the model.                                             *)

Less == {p \in Nat \X Nat : p[1] < p[2]}

\* A set of natural numbers that is not empty has a least one.
LEMMA MinOfNats ==
  ASSUME NEW S \in SUBSET Nat, S # {}
  PROVE  Min(S) \in S /\ \A n \in S : Min(S) <= n
<1>1. OpToRel(<, Nat) = Less
  BY Zenon DEF OpToRel, Less
<1>2. PICK m \in S : \A n \in S : <<n, m>> \notin Less
  BY <1>1, NatLessThanWellFounded, WFMin, Zenon
<1>3. ASSUME NEW n \in S
      PROVE  m <= n
  <2>1. ~(n < m)
    <3>1. n < m => <<n, m>> \in Less
      BY DEF Less
    <3>. QED
      BY <1>2, <3>1
  <2>. QED
    BY <2>1
<1>. QED
  BY <1>3 DEF Min

\* A set of numbers from 0 to n that has 0, and with a number the next, has all.
LEMMA UpFrom0 ==
  ASSUME NEW n \in Nat, NEW T \in SUBSET (0 .. n), 0 \in T, \A j \in T : j < n => j + 1 \in T
  PROVE  T = 0 .. n
<1>. DEFINE Missing == (0 .. n) \ T
<1>1. ASSUME Missing # {}
      PROVE  FALSE
  <2>1. Missing \in SUBSET Nat
    OBVIOUS
  <2>2. PICK m \in Missing : \A j \in Missing : m <= j
    <3>. HIDE DEF Missing
    <3>. QED
      BY <1>1, <2>1, MinOfNats
  <2>3. m \in 1 .. n /\ m - 1 \in 0 .. n
    OBVIOUS
  <2>4. m - 1 \in T
    BY <2>2, <2>3
  <2>5. (m - 1) + 1 \in T
    BY <2>3, <2>4
  <2>. QED
    BY <2>3, <2>5
<1>. QED
  BY <1>1

\* The automaton stays among its states; only an end of a line takes it to FOUND.
LEMMA ScanUnitIs ==
  ASSUME NEW s \in States, NEW u \in Units
  PROVE  /\ ScanUnit(s, u) \in States
         /\ u.kind # "crlf" => ScanUnit(s, u) = "CRLF"
         /\ u.kind = "crlf" /\ s = "CRLF" => ScanUnit(s, u) = "FOUND"
<1>1. u.kind \in {"line", "crlf", "rest"}
  BY DEF Units
<1>2. CASE u.kind # "crlf"
  BY <1>1, <1>2 DEF ScanUnit, States
<1>3. CASE u.kind = "crlf"
  <2>1. ScanUnit(s, u) = [START |-> "CRLF", CRLF |-> "FOUND", FOUND |-> "START"][s]
    BY <1>3 DEF ScanUnit
  <2>2. CASE s = "START"
    BY <1>3, <2>1, <2>2 DEF States
  <2>3. CASE s = "CRLF"
    BY <1>3, <2>1, <2>3 DEF States
  <2>4. CASE s = "FOUND"
    BY <1>3, <2>1, <2>4 DEF States
  <2>. QED
    BY <2>2, <2>3, <2>4 DEF States
<1>. QED
  BY <1>2, <1>3

\* The states the automaton goes through.
LEMMA ScanIs ==
  ASSUME NEW s \in States, NEW seg \in Seq(Units)
  PROVE  /\ Scan(s, seg)[0] = s
         /\ \A k \in 1 .. Len(seg) : Scan(s, seg)[k] = ScanUnit(Scan(s, seg)[k - 1], seg[k])
         /\ \A k \in 0 .. Len(seg) : Scan(s, seg)[k] \in States
<1>. DEFINE n == Len(seg)
            Goes(g, m) == g[0] = s /\ \A k \in 1 .. m : g[k] = ScanUnit(g[k - 1], seg[k])
            Up(m) == \E g \in [0 .. m -> States] : Goes(g, m)
            Is(g) == g = [k \in 0 .. Len(seg) |-> IF k = 0 THEN s ELSE ScanUnit(g[k - 1], seg[k])]
            after == CHOOSE g : Is(g)
            T == {m \in 0 .. n : Up(m)}
<1>1. n \in Nat /\ \A k \in 1 .. n : seg[k] \in Units
  OBVIOUS
<1>2. Scan(s, seg) = after
  BY DEF Scan
<1>3. 0 \in T
  <2>. DEFINE g == [k \in 0 .. 0 |-> s]
  <2>1. g \in [0 .. 0 -> States] /\ g[0] = s
    OBVIOUS
  <2>. HIDE DEF g
  <2>2. Goes(g, 0)
    BY <2>1
  <2>. QED
    BY <1>1, <2>1, <2>2
<1>4. ASSUME NEW m \in T, m < n
      PROVE  m + 1 \in T
  <2>1. m \in 0 .. n /\ Up(m)
    OBVIOUS
  <2>2. PICK g \in [0 .. m -> States] : Goes(g, m)
    BY <2>1
  <2>3. m \in Nat /\ m + 1 \in 1 .. n
    BY <1>1, <1>4, <2>1
  <2>. DEFINE next == ScanUnit(g[m], seg[m + 1])
              h == [k \in 0 .. m + 1 |-> IF k = m + 1 THEN next ELSE g[k]]
  <2>4. next \in States
    BY <1>1, <2>2, <2>3, ScanUnitIs
  <2>5. h \in [0 .. m + 1 -> States]
    BY <2>2, <2>3, <2>4
  <2>6. h[m + 1] = next /\ \A k \in 0 .. m : h[k] = g[k]
    BY <2>3
  <2>. HIDE DEF h
  <2>7. h[0] = s
    BY <2>2, <2>3, <2>6
  <2>8. ASSUME NEW k \in 1 .. m + 1
        PROVE  h[k] = ScanUnit(h[k - 1], seg[k])
    <3>1. CASE k = m + 1
      <4>1. k - 1 = m
        BY <2>3, <3>1
      <4>. QED
        BY <2>3, <2>6, <3>1, <4>1
    <3>2. CASE k \in 1 .. m
      <4>1. k \in 0 .. m /\ k - 1 \in 0 .. m
        BY <2>3, <3>2
      <4>2. h[k] = g[k] /\ h[k - 1] = g[k - 1]
        BY <2>6, <4>1
      <4>. QED
        BY <2>2, <3>2, <4>2
    <3>. QED
      BY <2>3, <3>1, <3>2
  <2>9. Up(m + 1)
    BY <2>5, <2>7, <2>8
  <2>. QED
    BY <2>3, <2>9
<1>. HIDE DEF Up
<1>5. T = 0 .. n
  <2>1. T \in SUBSET (0 .. n)
    OBVIOUS
  <2>. HIDE DEF T
  <2>. QED
    BY <1>1, <1>3, <1>4, <2>1, UpFrom0
<1>6. Up(n)
  <2>1. n \in T
    BY <1>1, <1>5
  <2>. QED
    BY <2>1
<1>7. PICK g \in [0 .. n -> States] : Goes(g, n)
  BY <1>6 DEF Up
<1>8. Is(g)
  <2>1. ASSUME NEW k \in 0 .. n
        PROVE  g[k] = IF k = 0 THEN s ELSE ScanUnit(g[k - 1], seg[k])
    <3>1. CASE k = 0
      BY <1>7, <3>1
    <3>2. CASE k # 0
      <4>1. k \in 1 .. n
        BY <1>1, <3>2
      <4>. QED
        BY <1>7, <3>2, <4>1
    <3>. QED
      BY <3>1, <3>2
  <2>. QED
    BY <1>7, <2>1
<1>9. Is(after)
  BY <1>8
<1>. HIDE DEF after
<1>10. after[0] = s /\ \A k \in 1 .. n : after[k] = ScanUnit(after[k - 1], seg[k])
  <2>1. after[0] = s
    BY <1>1, <1>9
  <2>2. ASSUME NEW k \in 1 .. n
        PROVE  after[k] = ScanUnit(after[k - 1], seg[k])
    <3>1. k \in 0 .. n /\ k # 0
      BY <1>1
    <3>. QED
      BY <1>9, <3>1
  <2>. QED
    BY <2>1, <2>2
<1>. HIDE DEF Is, n
<1>11. \A k \in 0 .. n : after[k] \in States
  <2>. DEFINE V == {k \in 0 .. n : after[k] \in States}
  <2>1. 0 \in V
    BY <1>1, <1>10
  <2>2. ASSUME NEW k \in V, k < n
        PROVE  k + 1 \in V
    <3>1. k + 1 \in 1 .. n /\ (k + 1) - 1 = k /\ k + 1 \in 0 .. n
      BY <1>1, <2>2
    <3>2. after[k + 1] = ScanUnit(after[k], seg[k + 1])
      BY <1>10, <3>1
    <3>3. after[k + 1] \in States
      BY <1>1, <3>1, <3>2, ScanUnitIs
    <3>. QED
      BY <3>1, <3>3
  <2>3. V = 0 .. n
    <3>1. V \in SUBSET (0 .. n)
      OBVIOUS
    <3>. HIDE DEF V
    <3>. QED
      BY <1>1, <2>1, <2>2, <3>1, UpFrom0
  <2>. QED
    BY <2>3
<1>. QED
  BY <1>2, <1>10, <1>11 DEF n

\* A header ends in a read only where a line ends.
LEMMA EndsIs ==
  ASSUME NEW s \in States, NEW seg \in Seq(Units)
  PROVE  Ends(s, seg) # {} => Ended(seg)
<1>. SUFFICES ASSUME NEW k \in Ends(s, seg)
              PROVE  Ended(seg)
  OBVIOUS
<1>1. k \in 1 .. Len(seg) /\ k - 1 \in 0 .. Len(seg) /\ seg[k] \in Units /\ Scan(s, seg)[k] = "FOUND"
  BY DEF Ends
<1>2. Scan(s, seg)[k] = ScanUnit(Scan(s, seg)[k - 1], seg[k]) /\ Scan(s, seg)[k - 1] \in States
  BY <1>1, ScanIs
<1>3. seg[k].kind = "crlf"
  BY <1>1, <1>2, ScanUnitIs
<1>. QED
  BY <1>1, <1>3 DEF Ended

\* What a call does not read are units.
LEMMA UnreadType ==
  ASSUME NEW s \in Seq(Units), NEW k \in 1 .. Len(s)
  PROVE  /\ Unconsumed(s, k) \in Seq(Units) /\ SubSeq(s, 1, k) \in Seq(Units)
         /\ Len(SubSeq(s, 1, k)) = k /\ SubSeq(s, 1, k)[1] = s[1]
         /\ k = Len(s) => Unconsumed(s, k) = <<>>
         /\ \A r \in Rests(s[k]) : r \in Seq(Units)
<1>1. SubSeq(s, 1, k) \in Seq(Units) /\ Len(SubSeq(s, 1, k)) = k /\ SubSeq(s, 1, k)[1] = s[1]
  OBVIOUS
<1>2. Unconsumed(s, k) = SubSeq(s, k + 1, Len(s))
  BY DEF Unconsumed, From
<1>3. SubSeq(s, k + 1, Len(s)) \in Seq(Units)
  OBVIOUS
<1>4. k = Len(s) => SubSeq(s, k + 1, Len(s)) = <<>>
  OBVIOUS
<1>5. s[k] \in Units
  OBVIOUS
<1>6. \A r \in Rests(s[k]) : r \in Seq(Units)
  <2>. DEFINE u == Unit("rest", s[k].req, 0)
  <2>1. u \in Units
    BY <1>5 DEF Unit, Units
  <2>2. \A r \in Rests(s[k]) : r = <<>> \/ r = <<u>>
    BY <1>5 DEF Rests, Units
  <2>. HIDE DEF u
  <2>3. <<>> \in Seq(Units) /\ <<u>> \in Seq(Units)
    BY <2>1
  <2>. QED
    BY ONLY <2>2, <2>3
<1>. QED
  BY <1>1, <1>2, <1>3, <1>4, <1>6

\* What yyparse() reads of an input, and what it leaves; with nothing in flex's buffer it
\* accepts units of the input, and leaves nothing if the input ends with the first line end.
LEMMA ParseIs ==
  ASSUME NEW l \in Seq(Units), NEW in \in Seq(Units), NEW o \in Parse(l, in)
  PROVE  /\ o.lex \in Seq(Units) /\ o.accepts \in BOOLEAN
         /\ o.accepts => o.reads[1].req \in Handlers \X Nat
         /\ l = <<>> /\ EndsLast(in) /\ o.accepts => o.lex = <<>> /\ in # <<>> /\ o.reads[1] = in[1]
<1>. DEFINE s == IF Decisive(l) # {} THEN l ELSE l \o in
            k == Min(Decisive(s))
<1>1. s \in Seq(Units)
  OBVIOUS
<1>2. l = <<>> => s = in
  <2>1. ASSUME l = <<>>
        PROVE  Decisive(l) = {} /\ l \o in = in
    BY <2>1 DEF Decisive
  <2>. QED
    BY <2>1
<1>3. CASE Decisive(s) = {}
  <2>1. o = [accepts |-> FALSE, reads |-> s, lex |-> <<>>]
    BY <1>3 DEF Parse
  <2>. QED
    BY <1>1, <2>1
<1>4. CASE Decisive(s) # {}
  <2>1. Decisive(s) \in SUBSET Nat
    BY DEF Decisive
  <2>2. k \in 1 .. Len(s)
    BY <1>4, <2>1, MinOfNats DEF Decisive
  <2>3. \/ /\ o = [accepts |-> TRUE, reads |-> SubSeq(s, 1, k), lex |-> Unconsumed(s, k)]
           /\ s[k].kind = "crlf"
        \/ \E r \in Rests(s[k]) :
             o = [accepts |-> FALSE, reads |-> SubSeq(s, 1, k), lex |-> r \o Unconsumed(s, k)]
    BY <1>4 DEF Parse
  <2>. HIDE DEF s, k
  <2>4. /\ Unconsumed(s, k) \in Seq(Units)
        /\ SubSeq(s, 1, k)[1] = s[1]
        /\ k = Len(s) => Unconsumed(s, k) = <<>>
        /\ \A r \in Rests(s[k]) : r \in Seq(Units)
    BY <1>1, <2>2, UnreadType
  <2>5. \A r \in Rests(s[k]) : r \o Unconsumed(s, k) \in Seq(Units)
    BY <2>4
  <2>6. s # <<>> /\ s[1].req \in Handlers \X Nat
    <3>1. s # <<>> /\ s[1] \in Units
      BY <1>1, <2>2
    <3>. QED
      BY <3>1 DEF Units
  <2>7. ASSUME o = [accepts |-> TRUE, reads |-> SubSeq(s, 1, k), lex |-> Unconsumed(s, k)],
               s[k].kind = "crlf"
        PROVE  /\ o.lex \in Seq(Units) /\ o.accepts = TRUE
               /\ o.reads[1].req \in Handlers \X Nat
               /\ l = <<>> /\ EndsLast(in) => o.lex = <<>> /\ in # <<>> /\ o.reads[1] = in[1]
    <3>1. o.lex = Unconsumed(s, k) /\ o.reads[1] = s[1] /\ o.accepts = TRUE
      BY <2>4, <2>7
    <3>2. EndsLast(s) => k = Len(s)
      BY <2>2, <2>7 DEF EndsLast
    <3>. QED
      BY <1>2, <2>4, <2>6, <3>1, <3>2
  <2>8. ASSUME NEW r \in Rests(s[k]),
               o = [accepts |-> FALSE, reads |-> SubSeq(s, 1, k), lex |-> r \o Unconsumed(s, k)]
        PROVE  o.lex \in Seq(Units) /\ o.accepts = FALSE
    BY <2>5, <2>8
  <2>. QED
    BY <2>3, <2>7, <2>8
<1>. QED
  BY <1>3, <1>4

\* The units of a request.
LEMMA HeaderIs ==
  ASSUME NEW r \in Handlers \X Nat
  PROVE  /\ Header(r) \in Seq(Units) /\ Len(Header(r)) = 2
         /\ Header(r)[1] \in Units /\ Header(r)[2] \in Units
         /\ Header(r)[1].kind = "line" /\ Header(r)[2].kind = "crlf"
         /\ Header(r)[1].req = r /\ Header(r)[2].req = r
<1>1. Unit("line", r, 0) \in Units /\ Unit("crlf", r, 0) \in Units
  BY DEF Unit, Units
<1>2. /\ Unit("line", r, 0).kind = "line" /\ Unit("crlf", r, 0).kind = "crlf"
      /\ Unit("line", r, 0).req = r /\ Unit("crlf", r, 0).req = r
  BY DEF Unit
<1>3. Header(r) = <<Unit("line", r, 0), Unit("crlf", r, 0)>>
  BY DEF Header
<1>. QED
  BY <1>1, <1>2, <1>3

\* The request a unit is of, and its place in it.
LEMMA Halves ==
  ASSUME NEW k \in Nat
  PROVE  (2 * k) \div 2 = k /\ (2 * k + 1) \div 2 = k /\ (2 * k) % 2 = 0 /\ (2 * k + 1) % 2 = 1
  OBVIOUS

\* A natural number is even or odd.
LEMMA EvenOrOdd ==
  ASSUME NEW n \in Nat
  PROVE  n \div 2 \in Nat /\ n % 2 \in 0 .. 1 /\ (n % 2 = 0 => n = 2 * (n \div 2)) /\ (n % 2 = 1 => n = 2 * (n \div 2) + 1)
  OBVIOUS

-----------------------------------------------------------------------------
(* The types, and the parser's owner.                                      *)

\* At first the variables have their types, and nobody is in the parser.
LEMMA InitHolds ==
  ASSUME Init
  PROVE  TypeOK /\ OneParses
<1>1. <<>> \in Seq(Units) /\ <<>> \in Seq(Lines) /\ <<>> \in Seq(Handlers)
  OBVIOUS
<1>2. Idle \in [pc : Pcs, h : Handlers \cup {None}, got : Seq(Units)] /\ Idle.pc = "idle" /\ Idle.h = None
  BY <1>1 DEF Idle, Pcs
<1>3. \A w \in Threads : work[w].pc = "idle" /\ work[w].h = None
  BY <1>2 DEF Init
<1>4. TypeOK
  BY <1>1, <1>2, <1>3 DEF Init, TypeOK, States, Lines
<1>5. OneParses
  BY <1>3 DEF OneParses
<1>. QED
  BY <1>4, <1>5

\* A worker that is not idle has a handler.
LEMMA Serves ==
  ASSUME TypeOK, NEW w \in Threads, work[w].pc # "idle"
  PROVE  /\ work[w].h \in Handlers /\ work[w].h # None /\ work[w].got \in Seq(Units)
         /\ sock[work[w].h] \in Seq(Units) /\ buffer_list[work[w].h] \in Seq(Units)
         /\ state[work[w].h] \in States
<1>1. work[w].h \in Handlers /\ work[w].got \in Seq(Units)
  BY DEF TypeOK
<1>. QED
  BY <1>1, NoneAssumption DEF TypeOK

Works == [pc : Pcs, h : Handlers \cup {None}, got : Seq(Units)]

\* A worker comes to another place, with other bytes or of another handler.
Moves(w, pc, h, got) ==
  /\ work' \in [Threads -> Works]
  /\ \A v \in Threads : work'[v].pc = "idle" <=> work'[v].h = None
  /\ work'[w].pc = pc /\ work'[w].h = h /\ work'[w].got = got
  /\ \A v \in Threads \ {w} : work'[v] = work[v]

\* In any way a step is written.
LEMMA Moved ==
  ASSUME TypeOK, NEW w \in Threads, NEW x \in Works, x.pc = "idle" <=> x.h = None,
         work' = [work EXCEPT ![w] = x]
  PROVE  Moves(w, x.pc, x.h, x.got)
<1>1. work \in [Threads -> Works] /\ \A v \in Threads : work[v].pc = "idle" <=> work[v].h = None
  BY DEF TypeOK, Works
<1>2. \A v \in Threads : work'[v] = IF v = w THEN x ELSE work[v]
  BY <1>1
<1>3. work' \in [Threads -> Works]
  BY <1>1
<1>. QED
  BY <1>1, <1>2, <1>3 DEF Moves

\* A worker has nothing more to do.
LEMMA MovedIdle ==
  ASSUME TypeOK, NEW w \in Threads, work' = [work EXCEPT ![w] = Idle]
  PROVE  Moves(w, "idle", None, <<>>)
<1>1. Idle \in Works /\ Idle.pc = "idle" /\ Idle.h = None /\ Idle.got = <<>>
  <2>1. <<>> \in Seq(Units)
    OBVIOUS
  <2>. QED
    BY <2>1 DEF Idle, Works, Pcs
<1>2. Moves(w, Idle.pc, Idle.h, Idle.got)
  BY <1>1, Moved
<1>. QED
  BY <1>1, <1>2

\* A worker goes on, with the same bytes.
LEMMA MovedOn ==
  ASSUME TypeOK, NEW w \in Threads, work[w].pc # "idle", NEW pc \in Pcs \ {"idle"},
         work' = [work EXCEPT ![w].pc = pc]
  PROVE  Moves(w, pc, work[w].h, work[w].got)
<1>. DEFINE x == [pc |-> pc, h |-> work[w].h, got |-> work[w].got]
<1>1. x \in Works /\ x.pc = pc /\ x.h = work[w].h /\ x.got = work[w].got /\ x.h # None
  BY Serves DEF Works
<1>2. work' = [work EXCEPT ![w] = x]
  <2>1. work \in [Threads -> Works] /\ work[w] \in Works
    BY DEF TypeOK, Works
  <2>2. [work[w] EXCEPT !.pc = pc] = x
    BY <2>1 DEF Works
  <2>. QED
    BY <2>2
<1>. HIDE DEF x
<1>3. Moves(w, x.pc, x.h, x.got)
  BY <1>1, <1>2, Moved
<1>. QED
  BY <1>1, <1>3

\* A worker goes on with other bytes.
LEMMA MovedWith ==
  ASSUME TypeOK, NEW w \in Threads, work[w].pc # "idle", NEW pc \in Pcs \ {"idle"}, NEW got \in Seq(Units),
         work' = [work EXCEPT ![w].pc = pc, ![w].got = got]
  PROVE  Moves(w, pc, work[w].h, got)
<1>. DEFINE x == [pc |-> pc, h |-> work[w].h, got |-> got]
<1>1. x \in Works /\ x.pc = pc /\ x.h = work[w].h /\ x.got = got /\ x.h # None
  BY Serves DEF Works
<1>2. work' = [work EXCEPT ![w] = x]
  <2>1. work \in [Threads -> Works] /\ work[w] \in Works
    BY DEF TypeOK, Works
  <2>. DEFINE y == [work EXCEPT ![w].pc = pc]
              z == [pc |-> pc, h |-> work[w].h, got |-> work[w].got]
  <2>2. y = [work EXCEPT ![w] = z]
    <3>1. [work[w] EXCEPT !.pc = pc] = z
      BY <2>1 DEF Works
    <3>. QED
      BY <3>1
  <2>3. work' = [y EXCEPT ![w].got = got]
    OBVIOUS
  <2>. HIDE DEF y
  <2>4. y[w] = z
    BY <2>1, <2>2
  <2>5. [z EXCEPT !.got = got] = x
    OBVIOUS
  <2>. HIDE DEF x, z
  <2>6. work' = [y EXCEPT ![w] = x]
    BY <2>3, <2>4, <2>5
  <2>. QED
    BY <2>1, <2>2, <2>6
<1>. HIDE DEF x
<1>3. Moves(w, x.pc, x.h, x.got)
  BY <1>1, <1>2, Moved
<1>. QED
  BY <1>1, <1>3

\* The types of clients' and loop's steps.
LEMMA LoopType ==
  ASSUME TypeOK, NEW h \in Handlers, Arrive(h) \/ Submit(h)
  PROVE  TypeOK'
<1>1. CASE Arrive(h)
  <2>. DEFINE n == sent[h]
              r == <<h, n \div 2 + 1>>
              u == Header(r)[(n % 2) + 1]
  <2>1. n \in Nat /\ sock[h] \in Seq(Units)
    BY DEF TypeOK
  <2>2. r \in Handlers \X Nat /\ (n % 2) + 1 \in 1 .. 2
    BY <2>1, EvenOrOdd
  <2>3. u \in Units
    BY <2>2, HeaderIs
  <2>4. /\ sent' = [sent EXCEPT ![h] = n + 1] /\ sock' = [sock EXCEPT ![h] = Append(sock[h], u)]
        /\ edge' = edge \cup {h}
        /\ UNCHANGED <<queue, work, handler, answers, parser, overlapped, crowded, torn>>
    BY <1>1 DEF Arrive
  <2>. HIDE DEF u
  <2>5. Append(sock[h], u) \in Seq(Units)
    BY <2>1, <2>3
  <2>. QED
    BY <2>1, <2>4, <2>5 DEF TypeOK, handler, parser
<1>2. CASE Submit(h)
  BY <1>2 DEF Submit, TypeOK, handler, parser
<1>. QED
  BY <1>1, <1>2

\* What the steps of a worker do to it and to what it shares: Take(),
LEMMA TakeDoes ==
  ASSUME TypeOK, NEW w \in Threads, Take(w)
  PROVE  /\ work[w].pc = "idle" /\ Head(queue) \in Handlers
         /\ Moves(w, "recv", Head(queue), <<>>)
         /\ queue' \in Seq(Handlers)
         /\ crowded' = crowded \cup {h \in {Head(queue)} : \E v \in Threads : work[v].h = h}
         /\ UNCHANGED <<inputs, handler, answers, parser, overlapped, torn>>
<1>1. Head(queue) \in Handlers /\ Tail(queue) \in Seq(Handlers)
  BY DEF Take, TypeOK
<1>. DEFINE x == [pc |-> "recv", h |-> Head(queue), got |-> <<>>]
<1>2. x \in Works /\ ~(x.pc = "idle") /\ ~(x.h = None)
  <2>1. <<>> \in Seq(Units)
    OBVIOUS
  <2>. QED
    BY <1>1, <2>1, NoneAssumption DEF Works, Pcs
<1>3. work' = [work EXCEPT ![w] = x]
  <2>. DEFINE y == [Idle EXCEPT !.pc = "recv"]
              z == [pc |-> "recv", h |-> None, got |-> <<>>]
  <2>1. y = z
    BY DEF Idle
  <2>2. [z EXCEPT !.h = Head(queue)] = x
    OBVIOUS
  <2>. HIDE DEF z, x
  <2>3. work' = [work EXCEPT ![w] = [y EXCEPT !.h = Head(queue)]]
    BY DEF Take
  <2>. HIDE DEF y
  <2>. QED
    BY <2>1, <2>2, <2>3
<1>4. x.pc = "recv" /\ x.h = Head(queue) /\ x.got = <<>>
  OBVIOUS
<1>. HIDE DEF x
<1>5. Moves(w, x.pc, x.h, x.got)
  BY <1>2, <1>3, Moved
<1>6. Moves(w, "recv", Head(queue), <<>>)
  BY <1>4, <1>5
<1>. QED
  BY <1>1, <1>6 DEF Take, At

\* recv(),
LEMMA RecvDoes ==
  ASSUME TypeOK, NEW w \in Threads, Recv(w)
  PROVE  /\ work[w].pc = "recv" /\ work[w].h \in Handlers
         /\ \/ sock[work[w].h] = <<>> /\ Moves(w, "idle", None, <<>>)
            \/ sock[work[w].h] # <<>> /\ Moves(w, "scan", work[w].h, sock[work[w].h])
         /\ sock' = [sock EXCEPT ![work[w].h] = <<>>]
         /\ UNCHANGED <<sent, edge, queue, handler, answers, parser, overlapped, crowded, torn>>
<1>1. work[w].pc = "recv"
  BY DEF Recv, At
<1>2. work[w].h \in Handlers /\ sock[work[w].h] \in Seq(Units)
  BY <1>1, Serves
<1>3. CASE sock[work[w].h] = <<>>
  <2>1. Moves(w, "idle", None, <<>>)
    BY <1>3, MovedIdle DEF Recv
  <2>. QED
    BY <1>2, <1>3, <2>1 DEF Recv, At
<1>4. CASE sock[work[w].h] # <<>>
  <2>1. work' = [work EXCEPT ![w].pc = "scan", ![w].got = sock[work[w].h]]
    BY <1>4 DEF Recv
  <2>2. "scan" \in Pcs \ {"idle"}
    BY DEF Pcs
  <2>3. Moves(w, "scan", work[w].h, sock[work[w].h])
    BY <1>1, <1>2, <2>1, <2>2, MovedWith
  <2>. QED
    BY <1>2, <1>4, <2>3 DEF Recv, At
<1>. QED
  BY <1>3, <1>4

\* parse_read(),
LEMMA ScanDoes ==
  ASSUME TypeOK, NEW w \in Threads, ScanRead(w)
  PROVE  LET h == work[w].h
             got == work[w].got
             ends == Ends(state[h], got)
         IN
         /\ work[w].pc = "scan" /\ h \in Handlers /\ got \in Seq(Units)
         /\ state' \in [Handlers -> States]
         /\ state' = [state EXCEPT ![h] = IF ends = {} THEN Scan(@, got)[Len(got)] ELSE "FOUND"]
         /\ Moves(w, IF ends = {} THEN "append" ELSE "set", h, got)
         /\ UNCHANGED <<inputs, queue, buffer_list, request, answers, parser, overlapped, crowded, torn>>
<1>. DEFINE h == work[w].h
            got == work[w].got
            ends == Ends(state[h], got)
            s == IF ends = {} THEN Scan(state[h], got)[Len(got)] ELSE "FOUND"
<1>1. work[w].pc = "scan" /\ h \in Handlers /\ got \in Seq(Units) /\ state[h] \in States
  BY Serves DEF ScanRead, At
<1>2. s \in States
  <2>1. Len(got) \in 0 .. Len(got)
    BY <1>1
  <2>. QED
    BY <1>1, <2>1, ScanIs DEF States
<1>3. \A pc \in {"append", "set"} : work' = [work EXCEPT ![w].pc = pc] => Moves(w, pc, h, got)
  <2>1. {"append", "set"} \subseteq Pcs \ {"idle"}
    BY DEF Pcs
  <2>. QED
    BY <1>1, <2>1, MovedOn
<1>4. state \in [Handlers -> States]
  BY DEF TypeOK
<1>5. /\ state' = [state EXCEPT ![h] = s]
      /\ work' = [work EXCEPT ![w].pc = IF ends = {} THEN "append" ELSE "set"]
      /\ UNCHANGED <<inputs, queue, buffer_list, request, answers, parser, overlapped, crowded, torn>>
  BY DEF ScanRead
<1>. HIDE DEF s, ends, h, got
<1>6. state' \in [Handlers -> States]
  BY <1>2, <1>4, <1>5
<1>7. Moves(w, IF ends = {} THEN "append" ELSE "set", h, got)
  <2>1. (IF ends = {} THEN "append" ELSE "set") \in {"append", "set"}
    OBVIOUS
  <2>. QED
    BY ONLY <1>3, <1>5, <2>1
<1>. QED
  BY <1>1, <1>5, <1>6, <1>7 DEF s, ends, h, got

\* append_data() and clear(),
LEMMA ListDoes ==
  ASSUME TypeOK, NEW w \in Threads, NEW pc \in {"append", "clear"}, NEW list \in Seq(Units),
         ChangeList(w, pc, list)
  PROVE  /\ work[w].pc = pc /\ work[w].h \in Handlers
         /\ Moves(w, "recv", work[w].h, <<>>)
         /\ buffer_list' = [buffer_list EXCEPT ![work[w].h] = list]
         /\ buffer_list' \in [Handlers -> Seq(Units)]
         /\ UNCHANGED <<inputs, queue, state, request, answers, parser, overlapped, crowded, torn>>
<1>1. work[w].pc = pc /\ work[w].h \in Handlers
  BY Serves DEF ChangeList, At
<1>2. Moves(w, "recv", work[w].h, <<>>)
  <2>1. "recv" \in Pcs \ {"idle"} /\ <<>> \in Seq(Units)
    BY DEF Pcs
  <2>. QED
    BY <1>1, <2>1, MovedWith DEF ChangeList
<1>3. /\ buffer_list' = [buffer_list EXCEPT ![work[w].h] = list]
      /\ UNCHANGED <<inputs, queue, state, request, answers, parser, overlapped, crowded, torn>>
  BY DEF ChangeList
<1>4. buffer_list' \in [Handlers -> Seq(Units)]
  BY <1>1, <1>3 DEF TypeOK
<1>. QED
  BY ONLY <1>1, <1>2, <1>3, <1>4

\* set_parsing_options(),
LEMMA SetDoes ==
  ASSUME TypeOK, NEW w \in Threads, SetOptions(w)
  PROVE  /\ work[w].pc = "set" /\ work[w].h \in Handlers
         /\ Moves(w, "parse", work[w].h, work[w].got)
         /\ parsing'.buf = buffer_list[work[w].h] \o work[w].got /\ parsing'.to = w
         /\ parsing' \in [buf : Seq(Units), to : Threads \cup {None}]
         /\ torn' \in BOOLEAN /\ (~torn' => ~torn /\ Others(w, {"parse"}) = {})
         /\ UNCHANGED <<inputs, queue, handler, answers, lex, overlapped, crowded>>
<1>1. work[w].pc = "set" /\ work[w].h \in Handlers
  BY Serves DEF SetOptions, At
<1>2. buffer_list[work[w].h] \o work[w].got \in Seq(Units)
  BY <1>1, Serves
<1>3. Moves(w, "parse", work[w].h, work[w].got)
  <2>1. "parse" \in Pcs \ {"idle"}
    BY DEF Pcs
  <2>. QED
    BY <1>1, <2>1, MovedOn DEF SetOptions
<1>4. parsing' = [buf |-> buffer_list[work[w].h] \o work[w].got, to |-> w]
  BY DEF SetOptions, Input
<1>5. parsing' \in [buf : Seq(Units), to : Threads \cup {None}]
      /\ parsing'.buf = buffer_list[work[w].h] \o work[w].got /\ parsing'.to = w
  BY <1>2, <1>4
<1>6. torn' \in BOOLEAN /\ (~torn' => ~torn /\ Others(w, {"parse"}) = {})
  <2>1. torn' = (torn \/ Others(w, {"parse"}) # {}) /\ torn \in BOOLEAN
    BY DEF SetOptions, TypeOK
  <2>. QED
    BY ONLY <2>1
<1>7. UNCHANGED <<inputs, queue, handler, answers, lex, overlapped, crowded>>
  BY DEF SetOptions
<1>. QED
  BY ONLY <1>1, <1>3, <1>5, <1>6, <1>7

\* do_request().
LEMMA AnswerDoes ==
  ASSUME TypeOK, NEW w \in Threads, Answer(w)
  PROVE  /\ work[w].pc = "answer" /\ work[w].h \in Handlers
         /\ Moves(w, "clear", work[w].h, work[w].got)
         /\ answers' = [answers EXCEPT ![work[w].h] = Append(answers[work[w].h], request[work[w].h])]
         /\ answers' \in [Handlers -> Seq(Lines)]
         /\ UNCHANGED <<inputs, queue, handler, parser, overlapped, crowded, torn>>
<1>1. work[w].pc = "answer" /\ work[w].h \in Handlers
  BY Serves DEF Answer, At
<1>2. Moves(w, "clear", work[w].h, work[w].got)
  <2>1. "clear" \in Pcs \ {"idle"}
    BY DEF Pcs
  <2>. QED
    BY <1>1, <2>1, MovedOn DEF Answer
<1>3. answers' = [answers EXCEPT ![work[w].h] = Append(answers[work[w].h], request[work[w].h])]
  BY DEF Answer, Gets
<1>4. answers' \in [Handlers -> Seq(Lines)]
  <2>1. Append(answers[work[w].h], request[work[w].h]) \in Seq(Lines)
    BY <1>1 DEF TypeOK
  <2>. QED
    BY <1>3, <2>1 DEF TypeOK
<1>. QED
  BY <1>1, <1>2, <1>3, <1>4 DEF Answer

\* The types of the steps but yyparse().
LEMMA ServeType ==
  ASSUME TypeOK, NEW w \in Threads,
         \/ Take(w) \/ Recv(w) \/ ScanRead(w) \/ AppendData(w) \/ Clear(w)
         \/ SetOptions(w) \/ Answer(w)
  PROVE  TypeOK'
<1>1. CASE Take(w)
  <2>1. crowded' \in SUBSET Handlers
    BY <1>1, TakeDoes DEF TypeOK
  <2>. QED
    BY <1>1, <2>1, TakeDoes DEF TypeOK, Moves, Works, inputs, handler, parser
<1>2. CASE Recv(w)
  <2>1. sock' \in [Handlers -> Seq(Units)]
    <3>1. <<>> \in Seq(Units)
      OBVIOUS
    <3>. QED
      BY <1>2, <3>1, RecvDoes DEF TypeOK
  <2>. QED
    BY <1>2, <2>1, RecvDoes DEF TypeOK, Moves, Works, handler, parser
<1>3. CASE ScanRead(w)
  <2>1. \E pc, h, got : Moves(w, pc, h, got)
    BY <1>3, ScanDoes
  <2>. QED
    BY <1>3, <2>1, ScanDoes DEF TypeOK, Moves, Works, inputs, parser
<1>4. ASSUME NEW pc \in {"append", "clear"}, NEW list \in Seq(Units), ChangeList(w, pc, list)
      PROVE  TypeOK'
  <2>1. Moves(w, "recv", work[w].h, <<>>)
        /\ buffer_list' \in [Handlers -> Seq(Units)]
        /\ UNCHANGED <<inputs, queue, state, request, answers, parser, overlapped, crowded, torn>>
    BY <1>4, ListDoes
  <2>. QED
    BY <2>1 DEF TypeOK, Moves, Works, inputs, parser
<1>5. CASE AppendData(w)
  <2>1. work[w].pc = "append"
    BY <1>5 DEF AppendData, ChangeList, At
  <2>2. buffer_list[work[w].h] \o work[w].got \in Seq(Units)
    BY <2>1, Serves
  <2>. QED
    BY <1>4, <1>5, <2>2 DEF AppendData
<1>6. CASE Clear(w)
  <2>1. <<>> \in Seq(Units)
    OBVIOUS
  <2>. QED
    BY <1>4, <1>6, <2>1 DEF Clear
<1>7. CASE SetOptions(w)
  <2>1. /\ Moves(w, "parse", work[w].h, work[w].got) /\ torn' \in BOOLEAN
        /\ parsing' \in [buf : Seq(Units), to : Threads \cup {None}]
        /\ UNCHANGED <<inputs, queue, handler, answers, lex, overlapped, crowded>>
    BY <1>7, SetDoes
  <2>. QED
    BY <2>1 DEF TypeOK, Moves, Works, inputs, handler
<1>8. CASE Answer(w)
  BY <1>8, AnswerDoes DEF TypeOK, Moves, Works, inputs, handler, parser
<1>. QED
  BY <1>1, <1>2, <1>3, <1>5, <1>6, <1>7, <1>8

\* A worker goes on behind a call of yyparse(), or has answered an error.
LEMMA ParsedIs ==
  ASSUME TypeOK, NEW w \in Threads, work[w].pc # "idle", NEW accepts \in BOOLEAN, NEW line \in Lines,
         Parsed(w, accepts, line)
  PROVE  /\ request' \in [Handlers -> Lines] /\ answers' \in [Handlers -> Seq(Lines)]
         /\ accepts = TRUE => Moves(w, "answer", work[w].h, <<>>)
         /\ accepts = FALSE => Moves(w, "idle", None, <<>>)
<1>1. work[w].h \in Handlers
  BY Serves
<1>2. CASE accepts = TRUE
  <2>1. request' = [request EXCEPT ![work[w].h] = line] /\ answers' = answers
        /\ work' = [work EXCEPT ![w].pc = "answer", ![w].got = <<>>]
    BY <1>2 DEF Parsed
  <2>2. "answer" \in Pcs \ {"idle"} /\ <<>> \in Seq(Units)
    BY DEF Pcs
  <2>3. Moves(w, "answer", work[w].h, <<>>)
    BY <2>1, <2>2, MovedWith
  <2>. QED
    BY <1>2, <2>1, <2>3 DEF TypeOK
<1>3. CASE accepts = FALSE
  <2>1. request' = request /\ answers' = [answers EXCEPT ![work[w].h] = Append(answers[work[w].h], None)]
        /\ work' = [work EXCEPT ![w] = Idle]
    BY <1>3 DEF Parsed, Gets
  <2>2. Moves(w, "idle", None, <<>>)
    BY <2>1, MovedIdle
  <2>3. answers' \in [Handlers -> Seq(Lines)]
    <3>1. Append(answers[work[w].h], None) \in Seq(Lines)
      BY <1>1 DEF TypeOK, Lines
    <3>. QED
      BY <2>1, <3>1 DEF TypeOK
  <2>. QED
    BY <1>3, <2>1, <2>2, <2>3 DEF TypeOK
<1>. QED
  BY <1>2, <1>3

\* The line a call gives its worker: of its own Request_C, if that was set last.
Line(w, o) == IF parsing.to = w THEN o.reads[1].req ELSE None

\* A call of yyparse(): a line for the request, or an error that is answered.
Reads(w, o) ==
  /\ o.accepts = TRUE
  /\ request' = [request EXCEPT ![work[w].h] = Line(w, o)] /\ answers' = answers
  /\ Moves(w, "answer", work[w].h, <<>>)
Refuses(w, o) ==
  /\ o.accepts = FALSE
  /\ request' = request /\ answers' = [answers EXCEPT ![work[w].h] = Append(answers[work[w].h], None)]
  /\ Moves(w, "idle", None, <<>>)

\* No other outcome is possible.
LEMMA ParseDoes ==
  ASSUME TypeOK, NEW w \in Threads, ParseHeader(w)
  PROVE  /\ work[w].pc = "parse" /\ work[w].h \in Handlers
         /\ parsing.buf \in Seq(Units) /\ lex \in Seq(Units)
         /\ parsing'.to = parsing.to /\ parsing'.buf \in {parsing.buf, <<>>}
         /\ \E o \in Parse(lex, parsing.buf) : lex' = o.lex /\ (Reads(w, o) \/ Refuses(w, o))
         /\ request' \in [Handlers -> Lines] /\ answers' \in [Handlers -> Seq(Lines)]
         /\ UNCHANGED <<inputs, queue, state, buffer_list, overlapped, crowded, torn>>
<1>1. work[w].pc = "parse"
  BY DEF ParseHeader, At
<1>2. work[w].h \in Handlers /\ parsing.buf \in Seq(Units) /\ lex \in Seq(Units)
  BY <1>1, Serves DEF TypeOK
<1>3. PICK o \in Parse(lex, parsing.buf) :
        /\ lex' = o.lex
        /\ Parsed(w, o.accepts, IF o.accepts /\ parsing.to = w THEN o.reads[1].req ELSE None)
  BY DEF ParseHeader
<1>4. o.accepts \in BOOLEAN /\ (o.accepts => o.reads[1].req \in Handlers \X Nat)
  BY <1>2, ParseIs
<1>5. ASSUME o.accepts = TRUE
      PROVE  Reads(w, o) /\ request' \in [Handlers -> Lines] /\ answers' \in [Handlers -> Seq(Lines)]
  <2>1. Parsed(w, TRUE, Line(w, o)) /\ Line(w, o) \in Lines
    BY <1>3, <1>4, <1>5 DEF Lines, Line
  <2>2. request' = [request EXCEPT ![work[w].h] = Line(w, o)] /\ answers' = answers
    BY <2>1 DEF Parsed
  <2>3. /\ request' \in [Handlers -> Lines] /\ answers' \in [Handlers -> Seq(Lines)]
        /\ Moves(w, "answer", work[w].h, <<>>)
    BY <1>1, <2>1, ParsedIs
  <2>. QED
    BY <1>5, <2>2, <2>3 DEF Reads
<1>6. ASSUME o.accepts = FALSE
      PROVE  Refuses(w, o) /\ request' \in [Handlers -> Lines] /\ answers' \in [Handlers -> Seq(Lines)]
  <2>1. Parsed(w, FALSE, None) /\ None \in Lines
    BY <1>3, <1>6 DEF Lines
  <2>2. request' = request /\ answers' = [answers EXCEPT ![work[w].h] = Append(answers[work[w].h], None)]
    BY <2>1 DEF Parsed, Gets
  <2>3. /\ request' \in [Handlers -> Lines] /\ answers' \in [Handlers -> Seq(Lines)]
        /\ Moves(w, "idle", None, <<>>)
    BY <1>1, <2>1, ParsedIs
  <2>. QED
    BY <1>6, <2>2, <2>3 DEF Refuses
<1>7. /\ parsing'.to = parsing.to /\ parsing'.buf \in {parsing.buf, <<>>}
      /\ UNCHANGED <<inputs, queue, state, buffer_list, overlapped, crowded, torn>>
  BY DEF ParseHeader, TypeOK
<1>8. o.accepts = TRUE \/ o.accepts = FALSE
  BY <1>4
<1>9. /\ Reads(w, o) \/ Refuses(w, o)
      /\ request' \in [Handlers -> Lines] /\ answers' \in [Handlers -> Seq(Lines)]
  BY <1>5, <1>6, <1>8
<1>. QED
  BY <1>1, <1>2, <1>3, <1>7, <1>9

\* The types of the calls of yyparse().
LEMMA ParseType ==
  ASSUME TypeOK, NEW w \in Threads, ParseHeader(w)
  PROVE  TypeOK'
<1>1. /\ request' \in [Handlers -> Lines] /\ answers' \in [Handlers -> Seq(Lines)]
      /\ UNCHANGED <<inputs, queue, state, buffer_list, overlapped, crowded, torn>>
  BY ParseDoes
<1>2. parsing' \in [buf : Seq(Units), to : Threads \cup {None}]
  <2>1. \E buf \in {parsing.buf, <<>>} : parsing' = [parsing EXCEPT !.buf = buf]
    BY DEF ParseHeader
  <2>2. <<>> \in Seq(Units)
    OBVIOUS
  <2>. QED
    BY <2>1, <2>2 DEF TypeOK
<1>3. PICK o \in Parse(lex, parsing.buf) : lex' = o.lex /\ (Reads(w, o) \/ Refuses(w, o))
  BY ParseDoes
<1>4. lex' \in Seq(Units)
  BY <1>3, ParseDoes, ParseIs
<1>5. \E pc, h : Moves(w, pc, h, <<>>)
  BY <1>3 DEF Reads, Refuses
<1>. QED
  BY <1>1, <1>2, <1>4, <1>5 DEF TypeOK, Moves, Works, inputs

\* Every step keeps the types.
LEMMA NextType ==
  ASSUME TypeOK, [Next]_vars
  PROVE  TypeOK'
<1>1. CASE UNCHANGED vars
  BY <1>1 DEF TypeOK, vars, inputs, handler, parser
<1>2. ASSUME NEW h \in Handlers, Arrive(h) \/ Submit(h)
      PROVE  TypeOK'
  BY <1>2, LoopType
<1>3. ASSUME NEW w \in Threads, Worker(w)
      PROVE  TypeOK'
  <2>1. CASE Overlap(w)
    BY <2>1 DEF Overlap, TypeOK, inputs, handler, parser
  <2>. QED
    BY <1>3, <2>1, ServeType, ParseType DEF Worker
<1>. QED
  BY <1>1, <1>2, <1>3 DEF Next

\* What is torn stays so.
LEMMA TornStays ==
  ASSUME TypeOK, [Next]_vars, ~torn'
  PROVE  ~torn
<1>1. CASE UNCHANGED vars
  BY <1>1 DEF vars
<1>2. ASSUME NEW h \in Handlers, Arrive(h) \/ Submit(h)
      PROVE  torn' = torn
  BY <1>2 DEF Arrive, Submit
<1>3. ASSUME NEW w \in Threads, Worker(w)
      PROVE  ~torn
  <2>1. CASE SetOptions(w)
    BY <2>1, SetDoes
  <2>2. CASE ~SetOptions(w)
    BY <1>3, <2>2 DEF Worker, Take, Recv, ScanRead, AppendData, Clear, ChangeList, ParseHeader, Answer, Overlap
  <2>. QED
    BY <2>1, <2>2
<1>. QED
  BY <1>1, <1>2, <1>3 DEF Next

\* Only set_parsing_options() gives the parser another owner.
LEMMA NextParses ==
  ASSUME TypeOK, OneParses, [Next]_vars
  PROVE  OneParses'
<1>. SUFFICES ASSUME ~torn'
              PROVE  \A w \in Threads : work'[w].pc = "parse" =>
                       parsing'.to = w /\ \A v \in Threads : work'[v].pc = "parse" => v = w
  BY DEF OneParses
<1>1. /\ ~torn
      /\ \A w \in Threads : work[w].pc = "parse" =>
           parsing.to = w /\ \A v \in Threads : work[v].pc = "parse" => v = w
  BY TornStays DEF OneParses
<1>2. ASSUME work' = work, parsing' = parsing
      PROVE  \A w \in Threads : work'[w].pc = "parse" =>
               parsing'.to = w /\ \A v \in Threads : work'[v].pc = "parse" => v = w
  BY <1>1, <1>2
<1>3. CASE UNCHANGED vars
  BY <1>2, <1>3 DEF vars, parser
<1>4. ASSUME NEW h \in Handlers, Arrive(h) \/ Submit(h)
      PROVE  work' = work /\ parsing' = parsing
  BY <1>4 DEF Arrive, Submit, parser
<1>5. ASSUME NEW w \in Threads, NEW pc, pc # "parse", NEW h, NEW got, Moves(w, pc, h, got),
             parsing'.to = parsing.to
      PROVE  \A u \in Threads : work'[u].pc = "parse" =>
               parsing'.to = u /\ \A v \in Threads : work'[v].pc = "parse" => v = u
  BY <1>1, <1>5 DEF Moves
<1>6. ASSUME NEW w \in Threads, Worker(w)
      PROVE  \A u \in Threads : work'[u].pc = "parse" =>
               parsing'.to = u /\ \A v \in Threads : work'[v].pc = "parse" => v = u
  <2>1. CASE SetOptions(w)
    <3>1. Moves(w, "parse", work[w].h, work[w].got) /\ parsing'.to = w /\ Others(w, {"parse"}) = {}
      BY <2>1, SetDoes
    <3>. QED
      BY <3>1 DEF Moves, Others
  <2>2. CASE Overlap(w)
    <3>1. work' = work /\ parsing' = parsing
      BY <2>2 DEF Overlap, parser
    <3>. QED
      BY <1>2, <3>1
  <2>3. CASE ~SetOptions(w) /\ ~Overlap(w)
    <3>1. \E pc, h, got : pc # "parse" /\ Moves(w, pc, h, got) /\ parsing'.to = parsing.to
      <4>1. CASE Take(w)
        BY <4>1, TakeDoes DEF parser
      <4>2. CASE Recv(w)
        BY <4>2, RecvDoes DEF parser
      <4>3. CASE ScanRead(w)
        <5>1. \E pc \in {"append", "set"} : Moves(w, pc, work[w].h, work[w].got)
          <6>1. (IF Ends(state[work[w].h], work[w].got) = {} THEN "append" ELSE "set") \in {"append", "set"}
            OBVIOUS
          <6>. QED
            BY <4>3, <6>1, ScanDoes
        <5>2. parsing' = parsing
          BY <4>3, ScanDoes DEF parser
        <5>. QED
          BY <5>1, <5>2
      <4>4. CASE AppendData(w) \/ Clear(w)
        <5>1. \E pc \in {"append", "clear"}, list \in Seq(Units) : ChangeList(w, pc, list)
          <6>1. <<>> \in Seq(Units) /\ (AppendData(w) => buffer_list[work[w].h] \o work[w].got \in Seq(Units))
            <7>1. AppendData(w) => work[w].pc = "append"
              BY DEF AppendData, ChangeList, At
            <7>. QED
              BY <7>1, Serves
          <6>. QED
            BY <4>4, <6>1 DEF AppendData, Clear
        <5>2. Moves(w, "recv", work[w].h, <<>>) /\ parsing' = parsing
          BY <5>1, ListDoes DEF parser
        <5>. QED
          BY <5>2
      <4>5. CASE ParseHeader(w)
        <5>1. parsing'.to = parsing.to /\ \E o \in Parse(lex, parsing.buf) : Reads(w, o) \/ Refuses(w, o)
          BY <4>5, ParseDoes
        <5>. QED
          BY <5>1 DEF Reads, Refuses
      <4>6. CASE Answer(w)
        BY <4>6, AnswerDoes DEF parser
      <4>. QED
        BY <1>6, <2>3, <4>1, <4>2, <4>3, <4>4, <4>5, <4>6 DEF Worker
    <3>. QED
      BY <1>5, <3>1
  <2>. QED
    BY <2>1, <2>2, <2>3
<1>. QED
  BY <1>2, <1>3, <1>4, <1>6 DEF Next

-----------------------------------------------------------------------------
(* Whose a client's answers are.                                           *)

\* What is appended to units.
LEMMA Joined ==
  ASSUME NEW s \in Seq(Units), NEW t \in Seq(Units), NEW h
  PROVE  /\ s \o t \in Seq(Units)
         /\ Own(s, h) /\ Own(t, h) => Own(s \o t, h)
         /\ Ended(s \o t) <=> Ended(s) \/ Ended(t)
         /\ ~Ended(s) /\ EndsLast(t) => EndsLast(s \o t)
<1>1. s \o t \in Seq(Units) /\ Len(s \o t) = Len(s) + Len(t) /\ Len(s) \in Nat /\ Len(t) \in Nat
  OBVIOUS
<1>2. \A j \in 1 .. Len(s) : (s \o t)[j] = s[j]
  OBVIOUS
<1>3. \A j \in 1 .. Len(t) : (s \o t)[Len(s) + j] = t[j]
  OBVIOUS
<1>4. /\ DOMAIN s = 1 .. Len(s) /\ DOMAIN t = 1 .. Len(t) /\ DOMAIN (s \o t) = 1 .. Len(s \o t)
  OBVIOUS
<1>. DEFINE c == s \o t
<1>. HIDE DEF c
<1>5. ASSUME NEW j \in DOMAIN c
      PROVE  \/ j \in DOMAIN s /\ c[j] = s[j]
             \/ j - Len(s) \in DOMAIN t /\ c[j] = t[j - Len(s)]
  <2>1. j \in 1 .. Len(s) + Len(t)
    BY <1>1, <1>4 DEF c
  <2>2. CASE j <= Len(s)
    BY <1>2, <1>4, <2>1, <2>2 DEF c
  <2>3. CASE j > Len(s)
    <3>1. j - Len(s) \in 1 .. Len(t) /\ Len(s) + (j - Len(s)) = j
      BY <1>1, <2>1, <2>3
    <3>. QED
      BY <1>3, <1>4, <3>1 DEF c
  <2>. QED
    BY <1>1, <2>1, <2>2, <2>3
<1>6. /\ \A j \in DOMAIN s : j \in DOMAIN c /\ c[j] = s[j]
      /\ \A j \in DOMAIN t : Len(s) + j \in DOMAIN c /\ c[Len(s) + j] = t[j]
  BY <1>1, <1>2, <1>3, <1>4 DEF c
<1>7. Own(s, h) /\ Own(t, h) => Own(c, h)
  <2>1. ASSUME Own(s, h), Own(t, h), NEW j \in DOMAIN c
        PROVE  c[j].req[1] = h /\ c[j].kind \in {"line", "crlf"}
    BY <1>5, <2>1 DEF Own
  <2>. QED
    BY <2>1 DEF Own
<1>8. Ended(c) <=> Ended(s) \/ Ended(t)
  <2>1. Ended(c) => Ended(s) \/ Ended(t)
    BY <1>5, Zenon DEF Ended
  <2>2. Ended(s) \/ Ended(t) => Ended(c)
    BY <1>6 DEF Ended
  <2>. QED
    BY <2>1, <2>2
<1>9. ~Ended(s) /\ EndsLast(t) => EndsLast(c)
  <2>1. ASSUME ~Ended(s), EndsLast(t), NEW j \in DOMAIN c, c[j].kind = "crlf"
        PROVE  j = Len(c)
    <3>1. j - Len(s) \in DOMAIN t /\ c[j] = t[j - Len(s)]
      BY <1>5, <2>1 DEF Ended
    <3>2. j - Len(s) = Len(t)
      BY <2>1, <3>1 DEF EndsLast
    <3>. QED
      BY <1>1, <1>4, <3>2 DEF c
  <2>. QED
    BY <2>1 DEF EndsLast
<1>. QED
  BY <1>1, <1>7, <1>8, <1>9 DEF c

\* No units, and one.
LEMMA FewUnits ==
  ASSUME NEW h
  PROVE  /\ <<>> \in Seq(Units) /\ Own(<<>>, h) /\ ~Ended(<<>>) /\ EndsLast(<<>>)
         /\ \A u \in Units :
              /\ <<u>> \in Seq(Units) /\ EndsLast(<<u>>) /\ (Ended(<<u>>) <=> u.kind = "crlf")
              /\ u.req[1] = h /\ u.kind \in {"line", "crlf"} => Own(<<u>>, h)
<1>1. /\ <<>> \in Seq(Units) /\ Own(<<>>, h) /\ ~Ended(<<>>) /\ EndsLast(<<>>)
  BY DEF Own, Ended, EndsLast
<1>2. ASSUME NEW u \in Units
      PROVE  /\ <<u>> \in Seq(Units) /\ EndsLast(<<u>>) /\ (Ended(<<u>>) <=> u.kind = "crlf")
             /\ u.req[1] = h /\ u.kind \in {"line", "crlf"} => Own(<<u>>, h)
  <2>. DEFINE s == <<u>>
  <2>1. s \in Seq(Units) /\ DOMAIN s = {1} /\ Len(s) = 1 /\ s[1] = u
    OBVIOUS
  <2>. HIDE DEF s
  <2>2. EndsLast(s) /\ (Ended(s) <=> u.kind = "crlf")
    BY <2>1 DEF EndsLast, Ended
  <2>3. u.req[1] = h /\ u.kind \in {"line", "crlf"} => Own(s, h)
    BY <2>1 DEF Own
  <2>. QED
    BY <2>1, <2>2, <2>3 DEF s
<1>. QED
  BY <1>1, <1>2

\* One more answer.
LEMMA OneMore ==
  ASSUME NEW s \in Seq(Lines), NEW a \in Lines
  PROVE  Range(Append(s, a)) = Range(s) \cup {a} /\ Len(Append(s, a)) = Len(s) + 1
<1>1. /\ Append(s, a) \in Seq(Lines) /\ Len(Append(s, a)) = Len(s) + 1 /\ Len(s) \in Nat
      /\ Append(s, a)[Len(s) + 1] = a /\ \A j \in 1 .. Len(s) : Append(s, a)[j] = s[j]
  OBVIOUS
<1>2. DOMAIN s = 1 .. Len(s) /\ DOMAIN Append(s, a) = 1 .. Len(s) + 1
  BY <1>1
<1>. DEFINE c == Append(s, a)
<1>. HIDE DEF c
<1>3. \A j \in 1 .. Len(s) + 1 : j \in 1 .. Len(s) \/ j = Len(s) + 1
  BY <1>1
<1>4. \A x \in Range(c) : x \in Range(s) \cup {a}
  BY <1>1, <1>2, <1>3 DEF Range, c
<1>5. \A x \in Range(s) : x \in Range(c)
  <2>1. \A j \in DOMAIN s : j \in DOMAIN c /\ c[j] = s[j]
    BY <1>1, <1>2 DEF c
  <2>. QED
    BY <2>1 DEF Range
<1>6. a \in Range(c)
  <2>1. Len(s) + 1 \in DOMAIN c /\ c[Len(s) + 1] = a
    BY <1>1, <1>2 DEF c
  <2>. QED
    BY <2>1, Zenon DEF Range
<1>. QED
  BY <1>1, <1>4, <1>5, <1>6 DEF c

\* Which workers may answer after a step of w.
LEMMA EndingAfter ==
  ASSUME TypeOK, NEW w \in Threads, NEW pc, NEW h, NEW got, Moves(w, pc, h, got),
         NEW g \in Handlers, NEW v \in Threads
  PROVE  /\ v # w => (v \in Ending(g)' <=> v \in Ending(g))
         /\ v = w => (v \in Ending(g)' <=> h = g /\ (pc \in {"set", "parse", "answer"} \/ Ended(got)))
BY DEF Ending, MayAnswer, Moves

\* A step of w that does not change whether it may answer.
LEMMA SameEnding ==
  ASSUME TypeOK, NEW w \in Threads, NEW pc, NEW h, NEW got, Moves(w, pc, h, got),
         NEW g \in Handlers,
         work[w].h = g /\ MayAnswer(w) <=> h = g /\ (pc \in {"set", "parse", "answer"} \/ Ended(got))
  PROVE  Ending(g)' = Ending(g)
<1>1. \A v \in Threads : v \in Ending(g)' <=> v \in Ending(g)
  BY EndingAfter DEF Ending
<1>. QED
  BY <1>1 DEF Ending

\* What a step has to leave alone for what is said of a handler to stay.
LEMMA SameOwn ==
  ASSUME NEW g \in Handlers, OwnOf(g), OneEnd(g), Ending(g)' = Ending(g),
         sent'[g] = sent[g], sock'[g] = sock[g], buffer_list'[g] = buffer_list[g],
         request'[g] = request[g], answers'[g] = answers[g]
  PROVE  OwnOf(g)' /\ OneEnd(g)'
BY DEF OwnOf, OneEnd

\* What is said of the other workers stays, unless the parser gets another input under them.
LEMMA SameHolds ==
  ASSUME NEW w \in Threads, NEW pc, NEW h, NEW got, Moves(w, pc, h, got), NEW v \in Threads \ {w}, Holds(v),
         parsing'.to = v => parsing.to = v /\ parsing'.buf \in {parsing.buf, <<>>}
  PROVE  Holds(v)'
<1>1. work'[v] = work[v] /\ \A g : Own(<<>>, g)
  BY FewUnits DEF Moves
<1>. QED
  BY <1>1 DEF Holds

\* The client and the loop.
LEMMA LoopOwn ==
  ASSUME TypeOK, AllOwn, NEW h \in Handlers, Arrive(h) \/ Submit(h)
  PROVE  AllOwn'
<1>1. /\ UNCHANGED <<work, handler, answers, parser>>
      /\ lex' = lex /\ parsing' = parsing
      /\ \A g \in Handlers : Ending(g)' = Ending(g)
  BY DEF Arrive, Submit, parser, Ending, MayAnswer
<1>2. \A w \in Threads : Holds(w)'
  BY <1>1 DEF AllOwn, Holds
<1>3. ASSUME NEW g \in Handlers, sent'[g] = sent[g], sock'[g] = sock[g]
      PROVE  OwnOf(g)' /\ OneEnd(g)'
  BY <1>1, <1>3, SameOwn DEF AllOwn, handler
<1>4. CASE Submit(h)
  <2>1. sent' = sent /\ sock' = sock
    BY <1>4 DEF Submit
  <2>. QED
    BY <1>1, <1>2, <1>3, <2>1 DEF AllOwn
<1>5. CASE Arrive(h)
  <2>. DEFINE n == sent[h]
              r == <<h, n \div 2 + 1>>
              u == Header(r)[(n % 2) + 1]
              A == Len(answers[h])
  <2>1. n \in Nat /\ A \in Nat /\ sock[h] \in Seq(Units)
    BY DEF TypeOK
  <2>2. sent' = [sent EXCEPT ![h] = n + 1] /\ sock' = [sock EXCEPT ![h] = Append(sock[h], u)]
    BY <1>5 DEF Arrive
  <2>3. n % 2 = 1 \/ A = n \div 2
    BY <1>5 DEF Arrive
  <2>4. sent'[h] = n + 1 /\ sock'[h] = Append(sock[h], u)
        /\ \A g \in Handlers \ {h} : sent'[g] = sent[g] /\ sock'[g] = sock[g]
    BY <2>2 DEF TypeOK
  <2>5. r \in Handlers \X Nat /\ r[1] = h
    BY <2>1, EvenOrOdd
  <2>6. \/ n = 2 * A /\ u = Header(r)[1]
        \/ n = 2 * A + 1 /\ u = Header(r)[2]
    <3>1. 2 * A <= n /\ n <= 2 * A + 2
      BY DEF AllOwn, OneEnd
    <3>2. CASE n % 2 = 0
      <4>1. n = 2 * (n \div 2) /\ A = n \div 2
        BY <2>1, <2>3, <3>2, EvenOrOdd
      <4>. QED
        BY <3>2, <4>1
    <3>3. CASE n % 2 = 1
      <4>1. n = 2 * (n \div 2) + 1 /\ n \div 2 \in Nat
        BY <2>1, <3>3, EvenOrOdd
      <4>. DEFINE m == n \div 2
      <4>. HIDE DEF m, A, n
      <4>2. n = 2 * A + 1
        BY <2>1, <3>1, <4>1 DEF m
      <4>. QED
        BY <3>3, <4>2
    <3>. QED
      BY <2>1, <3>2, <3>3, EvenOrOdd
  <2>. HIDE DEF r
  <2>7. /\ u \in Units /\ u.req[1] = h /\ u.kind \in {"line", "crlf"}
        /\ n = 2 * A => u.kind = "line"
    <3>1. /\ Header(r)[1] \in Units /\ Header(r)[2] \in Units
          /\ Header(r)[1].kind = "line" /\ Header(r)[2].kind = "crlf"
          /\ Header(r)[1].req = r /\ Header(r)[2].req = r
      BY <2>5, HeaderIs
    <3>. HIDE DEF u
    <3>2. CASE n = 2 * A
      <4>1. u = Header(r)[1]
        BY <2>1, <2>6, <3>2
      <4>. QED
        BY <2>5, <3>1, <4>1
    <3>3. CASE n # 2 * A
      BY <2>5, <2>6, <3>1, <3>3
    <3>. QED
      BY <3>2, <3>3
  <2>. HIDE DEF u
  <2>8. /\ Own(<<u>>, h) /\ <<u>> \in Seq(Units) /\ EndsLast(<<u>>) /\ (Ended(<<u>>) <=> u.kind = "crlf")
    BY <2>7, FewUnits
  <2>9. sock'[h] = sock[h] \o <<u>>
    BY <2>1, <2>4, <2>7
  <2>10. ~Ended(sock[h]) /\ Ending(h) = {} /\ ~Ended(buffer_list[h])
    <3>1. n # 2 * A + 2
      BY <2>1, <2>6
    <3>. QED
      BY <3>1 DEF AllOwn, OneEnd
  <2>11. Own(sock'[h], h) /\ EndsLast(sock'[h]) /\ (Ended(sock'[h]) => n = 2 * A + 1)
    <3>1. Own(sock[h], h)
      BY DEF AllOwn, OwnOf
    <3>2. Own(sock'[h], h) /\ EndsLast(sock'[h]) /\ (Ended(sock'[h]) <=> u.kind = "crlf")
      <4>. DEFINE t == <<u>>
      <4>. HIDE DEF t
      <4>1. /\ Own(sock[h] \o t, h) /\ EndsLast(sock[h] \o t)
            /\ Ended(sock[h] \o t) <=> Ended(t)
        BY <2>1, <2>8, <2>10, <3>1, Joined DEF t
      <4>2. sock'[h] = sock[h] \o t /\ (Ended(t) <=> u.kind = "crlf")
        BY <2>8, <2>9 DEF t
      <4>. QED
        BY ONLY <4>1, <4>2
    <3>. QED
      BY <2>6, <2>7, <3>2
  <2>12. answers'[h] = answers[h] /\ buffer_list'[h] = buffer_list[h] /\ request'[h] = request[h]
    BY <1>1 DEF handler
  <2>13. OwnOf(h)'
    BY <2>11, <2>12 DEF AllOwn, OwnOf
  <2>14. OneEnd(h)'
    <3>1. Ending(h)' = {} /\ ~Ended(buffer_list'[h])
      BY <1>1, <2>10, <2>12
    <3>2. 2 * A <= n + 1 /\ n + 1 <= 2 * A + 2 /\ (Ended(sock'[h]) => n + 1 = 2 * A + 2)
      BY <2>1, <2>6, <2>11
    <3>. HIDE DEF A, n
    <3>3. sent'[h] = n + 1 /\ Len(answers'[h]) = A
      BY <2>4, <2>12 DEF A
    <3>. QED
      BY <2>11, <3>1, <3>2, <3>3 DEF OneEnd
  <2>15. \A g \in Handlers : OwnOf(g)' /\ OneEnd(g)'
    BY <1>3, <2>4, <2>13, <2>14
  <2>. QED
    BY <1>1, <1>2, <2>15 DEF AllOwn
<1>. QED
  BY <1>4, <1>5

\* A worker takes a handler, or reads its socket.
LEMMA ReadOwn ==
  ASSUME TypeOK, AllOwn, NEW w \in Threads, Take(w) \/ Recv(w)
  PROVE  AllOwn'
<1>1. CASE Take(w)
  <2>1. /\ Moves(w, "recv", Head(queue), <<>>) /\ work[w].pc = "idle"
        /\ UNCHANGED <<inputs, handler, answers, parser>>
    BY <1>1, TakeDoes
  <2>2. /\ sent' = sent /\ sock' = sock /\ buffer_list' = buffer_list /\ request' = request
        /\ answers' = answers /\ lex' = lex /\ parsing' = parsing
    BY <2>1 DEF inputs, handler, parser
  <2>3. \A g \in Handlers : Ending(g)' = Ending(g)
    <3>1. ~Ended(<<>>)
      BY FewUnits
    <3>2. \A g \in Handlers : work[w].h # g
      BY <2>1, NoneAssumption DEF TypeOK
    <3>. QED
      BY <2>1, <3>1, <3>2, SameEnding
  <2>4. \A g \in Handlers : OwnOf(g)' /\ OneEnd(g)'
    BY <2>2, <2>3, SameOwn DEF AllOwn
  <2>5. Holds(w)'
    <3>1. work'[w].pc = "recv" /\ work'[w].h = Head(queue) /\ work'[w].got = <<>>
      BY <2>1 DEF Moves
    <3>2. Own(<<>>, Head(queue)) /\ EndsLast(<<>>)
      BY FewUnits
    <3>. QED
      BY <3>1, <3>2 DEF Holds
  <2>6. \A v \in Threads : Holds(v)'
    BY <2>1, <2>2, <2>5, SameHolds DEF AllOwn
  <2>. QED
    BY <2>2, <2>4, <2>6 DEF AllOwn
<1>2. CASE Recv(w)
  <2>0. PICK h \in Handlers : h = work[w].h
    BY <1>2, RecvDoes
  <2>1. /\ work[w].pc = "recv" /\ h \in Handlers /\ work[w].got = <<>> /\ sock[h] \in Seq(Units)
        /\ sock' = [sock EXCEPT ![h] = <<>>]
    BY <1>2, <2>0, RecvDoes, Serves DEF AllOwn, Holds
  <2>2. /\ sent' = sent /\ buffer_list' = buffer_list /\ request' = request
        /\ answers' = answers /\ lex' = lex /\ parsing' = parsing
    BY <1>2, RecvDoes DEF handler, parser
  <2>3. sock'[h] = <<>> /\ \A g \in Handlers \ {h} : sock'[g] = sock[g]
    BY <2>1 DEF TypeOK
  <2>4. ~MayAnswer(w)
    <3>1. ~Ended(<<>>)
      BY FewUnits
    <3>. QED
      BY <2>1, <3>1 DEF MayAnswer
  <2>5. CASE sock[h] = <<>>
    <3>1. Moves(w, "idle", None, <<>>)
      BY <1>2, <2>0, <2>5, RecvDoes
    <3>2. \A g \in Handlers : Ending(g)' = Ending(g)
      <4>1. \A g \in Handlers : None # g
        BY NoneAssumption
      <4>. QED
        BY <2>4, <3>1, <4>1, SameEnding
    <3>3. \A g \in Handlers : OwnOf(g)' /\ OneEnd(g)'
      BY <2>2, <2>3, <2>5, <3>2, SameOwn DEF AllOwn
    <3>4. Holds(w)'
      <4>1. work'[w].pc = "idle" /\ work'[w].h = None /\ work'[w].got = <<>>
        BY <3>1 DEF Moves
      <4>2. Own(<<>>, None) /\ EndsLast(<<>>)
        BY FewUnits
      <4>. QED
        BY <4>1, <4>2 DEF Holds
    <3>5. \A v \in Threads : Holds(v)'
      BY <2>2, <3>1, <3>4, SameHolds DEF AllOwn
    <3>. QED
      BY <2>2, <3>3, <3>5 DEF AllOwn
  <2>6. CASE sock[h] # <<>>
    <3>1. Moves(w, "scan", h, sock[h])
      BY <1>2, <2>0, <2>6, RecvDoes
    <3>2. Own(sock[h], h) /\ EndsLast(sock[h]) /\ OwnOf(h) /\ OneEnd(h)
      BY <2>1 DEF AllOwn, OwnOf, OneEnd
    <3>3. ASSUME NEW g \in Handlers \ {h}
          PROVE  OwnOf(g)' /\ OneEnd(g)'
      <4>1. Ending(g)' = Ending(g)
        BY <2>4, <3>1, <3>3, SameEnding
      <4>. QED
        BY <2>2, <2>3, <4>1, SameOwn DEF AllOwn
    <3>4. OwnOf(h)'
      BY <2>2, <2>3, <3>2, FewUnits DEF OwnOf
    <3>5. OneEnd(h)'
      <4>1. ~Ended(sock'[h]) /\ EndsLast(sock'[h])
        BY <2>3, FewUnits
      <4>2. CASE Ended(sock[h])
        <5>1. Ending(h) = {} /\ ~Ended(buffer_list[h]) /\ sent[h] = 2 * Len(answers[h]) + 2
          BY <3>2, <4>2 DEF OneEnd
        <5>2. \A v \in Ending(h)' : v = w
          <6>1. \A v \in Threads : v # w => v \notin Ending(h)'
            BY <2>1, <3>1, <5>1, EndingAfter
          <6>2. \A v \in Ending(h)' : v \in Threads
            BY DEF Ending
          <6>. QED
            BY <6>1, <6>2
        <5>. QED
          BY <2>2, <3>2, <4>1, <5>1, <5>2 DEF OneEnd
      <4>3. CASE ~Ended(sock[h])
        <5>1. Ending(h)' = Ending(h)
          BY <2>1, <2>4, <3>1, <4>3, SameEnding
        <5>. QED
          BY <2>2, <3>2, <4>1, <5>1 DEF OneEnd
      <4>. QED
        BY <4>2, <4>3
    <3>6. Holds(w)'
      <4>1. work'[w].pc = "scan" /\ work'[w].h = h /\ work'[w].got = sock[h]
        BY <3>1 DEF Moves
      <4>. QED
        BY <3>2, <4>1 DEF Holds
    <3>7. \A v \in Threads : Holds(v)'
      BY <2>2, <3>1, <3>6, SameHolds DEF AllOwn
    <3>. QED
      BY <2>2, <3>3, <3>4, <3>5, <3>7 DEF AllOwn
  <2>. QED
    BY <2>5, <2>6
<1>. QED
  BY <1>1, <1>2

\* A worker scans what it has read.
LEMMA ScanOwn ==
  ASSUME TypeOK, AllOwn, NEW w \in Threads, ScanRead(w)
  PROVE  AllOwn'
<1>1. PICK h \in Handlers : h = work[w].h
  BY ScanDoes
<1>2. PICK got \in Seq(Units) : got = work[w].got
  BY ScanDoes
<1>3. PICK pc \in {"append", "set"} :
        Moves(w, pc, h, got) /\ (pc = "set" => Ended(got)) /\ work[w].pc = "scan"
  <2>1. /\ work[w].pc = "scan"
        /\ Moves(w, IF Ends(state[h], got) = {} THEN "append" ELSE "set", h, got)
    BY <1>1, <1>2, ScanDoes
  <2>2. state[h] \in States
    BY DEF TypeOK
  <2>3. Ends(state[h], got) # {} => Ended(got)
    BY <2>2, EndsIs
  <2>. QED
    BY <2>1, <2>3
<1>4. /\ sent' = sent /\ sock' = sock /\ buffer_list' = buffer_list /\ request' = request
      /\ answers' = answers /\ lex' = lex /\ parsing' = parsing
  BY ScanDoes DEF inputs, parser
<1>5. \A g \in Handlers : Ending(g)' = Ending(g)
  <2>1. MayAnswer(w) <=> Ended(got)
    BY <1>2, <1>3 DEF MayAnswer
  <2>2. pc \in {"set", "parse", "answer"} \/ Ended(got) <=> Ended(got)
    BY <1>3
  <2>. QED
    BY <1>1, <1>3, <2>1, <2>2, SameEnding
<1>6. \A g \in Handlers : OwnOf(g)' /\ OneEnd(g)'
  BY <1>4, <1>5, SameOwn DEF AllOwn
<1>7. Holds(w)'
  <2>1. work'[w].pc = pc /\ work'[w].h = h /\ work'[w].got = got
    BY <1>3 DEF Moves
  <2>2. Own(got, h) /\ EndsLast(got)
    BY <1>1, <1>2 DEF AllOwn, Holds
  <2>. QED
    BY <1>3, <2>1, <2>2 DEF Holds
<1>8. \A v \in Threads : Holds(v)'
  BY <1>3, <1>4, <1>7, SameHolds DEF AllOwn
<1>. QED
  BY <1>4, <1>6, <1>8 DEF AllOwn

\* A worker appends what it has read, or clears the list.
LEMMA ListOwn ==
  ASSUME TypeOK, AllOwn, NEW w \in Threads, AppendData(w) \/ Clear(w)
  PROVE  AllOwn'
<1>1. work[w].pc \in {"append", "clear"}
  BY DEF AppendData, Clear, ChangeList, At
<1>2. PICK h \in Handlers : h = work[w].h
  BY <1>1, Serves
<1>3. PICK got \in Seq(Units) : got = work[w].got
  BY <1>1, Serves
<1>4. Own(got, h) /\ EndsLast(got) /\ (work[w].pc = "clear" => got = <<>>)
  BY <1>2, <1>3 DEF AllOwn, Holds
<1>5. buffer_list[h] \in Seq(Units) /\ OwnOf(h) /\ OneEnd(h)
  BY DEF TypeOK, AllOwn
<1>6. MayAnswer(w) <=> Ended(got)
  BY <1>1, <1>3 DEF MayAnswer
\* What the list is made.
<1>7. PICK list \in Seq(Units), pc \in {"append", "clear"} :
        /\ ChangeList(w, pc, list)
        /\ Own(list, h) /\ (Ended(list) => Ended(buffer_list[h]) \/ Ended(got))
  <2>1. CASE AppendData(w)
    <3>1. ChangeList(w, "append", buffer_list[h] \o got)
      BY <1>2, <1>3, <2>1 DEF AppendData
    <3>2. /\ buffer_list[h] \o got \in Seq(Units) /\ Own(buffer_list[h] \o got, h)
          /\ Ended(buffer_list[h] \o got) <=> Ended(buffer_list[h]) \/ Ended(got)
      BY <1>4, <1>5, Joined DEF OwnOf
    <3>. QED
      BY <3>1, <3>2
  <2>2. CASE Clear(w)
    BY <2>2, FewUnits DEF Clear
  <2>. QED
    BY <2>1, <2>2
<1>8. /\ Moves(w, "recv", h, <<>>)
      /\ buffer_list' = [buffer_list EXCEPT ![h] = list]
      /\ UNCHANGED <<inputs, queue, state, request, answers, parser, overlapped, crowded, torn>>
  BY <1>2, <1>7, ListDoes
<1>9. /\ sent' = sent /\ sock' = sock /\ request' = request
      /\ answers' = answers /\ lex' = lex /\ parsing' = parsing
  BY <1>8 DEF inputs, parser
<1>10. /\ \A g \in Handlers \ {h} : buffer_list'[g] = buffer_list[g]
       /\ Own(buffer_list'[h], h)
       /\ Ended(buffer_list'[h]) => Ended(buffer_list[h]) \/ Ended(got)
  BY <1>5, <1>7, <1>8 DEF TypeOK, OwnOf
<1>11. ~Ended(<<>>) /\ Own(<<>>, h) /\ EndsLast(<<>>)
  BY FewUnits
<1>12. ASSUME NEW g \in Handlers \ {h}
       PROVE  OwnOf(g)' /\ OneEnd(g)'
  <2>1. Ending(g)' = Ending(g)
    BY <1>2, <1>8, SameEnding
  <2>. QED
    BY <1>9, <1>10, <2>1, SameOwn DEF AllOwn
<1>13. OwnOf(h)'
  BY <1>5, <1>9, <1>10 DEF OwnOf
<1>14. OneEnd(h)'
  <2>1. CASE Ended(got)
    <3>1. w \in Ending(h)
      BY <1>2, <1>6, <2>1 DEF Ending
    <3>2. ~Ended(sock[h]) /\ sent[h] = 2 * Len(answers[h]) + 2 /\ \A v \in Ending(h) : v = w
      BY <1>5, <3>1 DEF OneEnd
    <3>3. Ending(h)' = {}
      <4>1. \A v \in Threads : v \notin Ending(h)'
        BY <1>8, <1>11, <3>2, EndingAfter
      <4>2. \A v \in Ending(h)' : v \in Threads
        BY DEF Ending
      <4>. QED
        BY <4>1, <4>2
    <3>. QED
      BY <1>5, <1>9, <3>2, <3>3 DEF OneEnd
  <2>2. CASE ~Ended(got)
    <3>1. Ending(h)' = Ending(h)
      BY <1>6, <1>8, <1>11, <2>2, SameEnding
    <3>2. Ended(buffer_list'[h]) => Ended(buffer_list[h])
      BY <1>10, <2>2
    <3>. QED
      BY <1>5, <1>9, <3>1, <3>2 DEF OneEnd
  <2>. QED
    BY <2>1, <2>2
<1>15. Holds(w)'
  <2>1. work'[w].pc = "recv" /\ work'[w].h = h /\ work'[w].got = <<>>
    BY <1>8 DEF Moves
  <2>. QED
    BY <1>11, <2>1 DEF Holds
<1>16. \A v \in Threads : Holds(v)'
  BY <1>8, <1>9, <1>15, SameHolds DEF AllOwn
<1>. QED
  BY <1>9, <1>12, <1>13, <1>14, <1>16 DEF AllOwn

\* A worker gives the parser its request.
LEMMA SetOwn ==
  ASSUME TypeOK, AllOwn, NEW w \in Threads, SetOptions(w)
  PROVE  AllOwn'
<1>1. PICK h \in Handlers : h = work[w].h
  BY SetDoes
<1>2. work[w].pc = "set"
  BY SetDoes
<1>3. PICK got \in Seq(Units) : got = work[w].got
  BY <1>2, Serves
<1>4. Own(got, h) /\ EndsLast(got) /\ OwnOf(h) /\ OneEnd(h) /\ buffer_list[h] \in Seq(Units)
  BY <1>1, <1>3 DEF AllOwn, Holds, TypeOK
<1>5. Moves(w, "parse", h, got) /\ parsing'.buf = buffer_list[h] \o got /\ parsing'.to = w
  BY <1>1, <1>3, SetDoes
<1>6. /\ sent' = sent /\ sock' = sock /\ buffer_list' = buffer_list /\ request' = request
      /\ answers' = answers /\ lex' = lex
  BY SetDoes DEF inputs, handler
<1>7. \A g \in Handlers : Ending(g)' = Ending(g)
  <2>1. MayAnswer(w)
    BY <1>2 DEF MayAnswer
  <2>. QED
    BY <1>1, <1>5, <2>1, SameEnding
<1>8. \A g \in Handlers : OwnOf(g)' /\ OneEnd(g)'
  BY <1>6, <1>7, SameOwn DEF AllOwn
<1>9. Own(parsing'.buf, h) /\ EndsLast(parsing'.buf)
  <2>1. w \in Ending(h)
    BY <1>1, <1>2 DEF Ending, MayAnswer
  <2>2. ~Ended(buffer_list[h]) /\ Own(buffer_list[h], h)
    BY <1>4, <2>1 DEF OneEnd, OwnOf
  <2>3. Own(buffer_list[h] \o got, h) /\ EndsLast(buffer_list[h] \o got)
    BY <1>4, <2>2, Joined
  <2>. QED
    BY <1>5, <2>3
<1>10. Holds(w)'
  <2>1. work'[w].pc = "parse" /\ work'[w].h = h /\ work'[w].got = got
    BY <1>5 DEF Moves
  <2>. QED
    BY <1>4, <1>9, <2>1 DEF Holds
<1>11. \A v \in Threads : Holds(v)'
  BY <1>5, <1>10, SameHolds DEF AllOwn
<1>. QED
  BY <1>6, <1>8, <1>9, <1>11 DEF AllOwn

\* A worker parses its request.
LEMMA ParseOwn ==
  ASSUME TypeOK, AllOwn, NEW w \in Threads, ParseHeader(w), Clean'
  PROVE  AllOwn'
<1>1. PICK h \in Handlers : h = work[w].h
  BY ParseDoes
<1>2. work[w].pc = "parse" /\ parsing.buf \in Seq(Units) /\ lex = <<>> /\ lex \in Seq(Units)
  BY ParseDoes DEF AllOwn
<1>3. (parsing.to = w => Own(parsing.buf, h)) /\ EndsLast(parsing.buf) /\ OwnOf(h) /\ OneEnd(h)
  BY <1>1, <1>2 DEF AllOwn, Holds
<1>4. PICK o \in Parse(lex, parsing.buf) : lex' = o.lex /\ (Reads(w, o) \/ Refuses(w, o))
  BY ParseDoes
<1>5. Reads(w, o)
  <2>1. CASE Refuses(w, o)
    <3>1. answers' = [answers EXCEPT ![h] = Append(answers[h], None)] /\ answers[h] \in Seq(Lines) /\ None \in Lines
      BY <1>1, <2>1 DEF Refuses, TypeOK, Lines
    <3>2. answers'[h] = Append(answers[h], None)
      BY <3>1 DEF TypeOK
    <3>3. None \in Range(answers'[h])
      BY <3>1, <3>2, OneMore
    <3>. QED
      BY <3>3 DEF Clean
  <2>. QED
    BY <1>4, <2>1
<1>6. Moves(w, "answer", h, <<>>) /\ request' = [request EXCEPT ![h] = Line(w, o)] /\ o.accepts
  BY <1>1, <1>5 DEF Reads
<1>7. /\ sent' = sent /\ sock' = sock /\ buffer_list' = buffer_list /\ answers' = answers
  <2>1. UNCHANGED <<inputs, buffer_list>>
    BY ParseDoes
  <2>. QED
    BY <1>5, <2>1 DEF inputs, Reads
<1>8. o.lex = <<>> /\ parsing.buf # <<>> /\ o.reads[1] = parsing.buf[1]
  BY <1>2, <1>3, <1>6, ParseIs
<1>9. /\ request'[h] = None \/ request'[h][1] = h
      /\ \A g \in Handlers \ {h} : request'[g] = request[g]
  <2>1. ASSUME parsing.to = w
        PROVE  Line(w, o)[1] = h
    <3>1. 1 \in DOMAIN parsing.buf
      BY <1>2, <1>8
    <3>. QED
      BY <1>3, <1>8, <2>1, <3>1 DEF Own, Line
  <2>2. parsing.to # w => Line(w, o) = None
    BY DEF Line
  <2>. QED
    BY <1>6, <2>1, <2>2 DEF TypeOK
<1>10. \A g \in Handlers : Ending(g)' = Ending(g)
  <2>1. MayAnswer(w)
    BY <1>2 DEF MayAnswer
  <2>. QED
    BY <1>1, <1>6, <2>1, SameEnding
<1>11. \A g \in Handlers \ {h} : OwnOf(g)' /\ OneEnd(g)'
  BY <1>7, <1>9, <1>10, SameOwn DEF AllOwn
<1>12. OwnOf(h)' /\ OneEnd(h)'
  BY <1>3, <1>7, <1>9, <1>10 DEF OwnOf, OneEnd
<1>13. Holds(w)'
  <2>1. work'[w].pc = "answer" /\ work'[w].h = h /\ work'[w].got = <<>>
    BY <1>6 DEF Moves
  <2>2. Own(<<>>, h) /\ EndsLast(<<>>)
    BY FewUnits
  <2>. QED
    BY <2>1, <2>2 DEF Holds
<1>14. parsing'.to = parsing.to /\ parsing'.buf \in {parsing.buf, <<>>} /\ EndsLast(parsing'.buf)
  BY <1>3, ParseDoes, FewUnits
<1>15. \A v \in Threads : Holds(v)'
  BY <1>6, <1>13, <1>14, SameHolds DEF AllOwn
<1>. QED
  BY <1>4, <1>8, <1>11, <1>12, <1>14, <1>15 DEF AllOwn

\* A worker answers its request.
LEMMA AnswerOwn ==
  ASSUME TypeOK, AllOwn, NEW w \in Threads, Answer(w), Clean'
  PROVE  AllOwn'
<1>1. PICK h \in Handlers : h = work[w].h
  BY AnswerDoes
<1>2. work[w].pc = "answer" /\ work[w].got = <<>> /\ OwnOf(h) /\ OneEnd(h)
  BY AnswerDoes DEF AllOwn, Holds
<1>3. /\ Moves(w, "clear", h, <<>>)
      /\ answers' = [answers EXCEPT ![h] = Append(answers[h], request[h])]
      /\ UNCHANGED <<inputs, queue, handler, parser, overlapped, crowded, torn>>
  BY <1>1, <1>2, AnswerDoes
<1>4. /\ sent' = sent /\ sock' = sock /\ buffer_list' = buffer_list /\ request' = request
      /\ lex' = lex /\ parsing' = parsing
  BY <1>3 DEF inputs, handler, parser
<1>5. /\ answers'[h] = Append(answers[h], request[h]) /\ \A g \in Handlers \ {h} : answers'[g] = answers[g]
      /\ answers[h] \in Seq(Lines) /\ request[h] \in Lines
  BY <1>3 DEF TypeOK
<1>6. Range(answers'[h]) = Range(answers[h]) \cup {request[h]} /\ Len(answers'[h]) = Len(answers[h]) + 1
  BY <1>5, OneMore
<1>7. request[h][1] = h
  <2>1. None \notin Range(answers'[h])
    BY DEF Clean
  <2>. QED
    BY <1>2, <1>6, <2>1 DEF OwnOf
<1>8. ~Ended(<<>>) /\ Own(<<>>, h) /\ EndsLast(<<>>)
  BY FewUnits
<1>9. ASSUME NEW g \in Handlers \ {h}
      PROVE  OwnOf(g)' /\ OneEnd(g)'
  <2>1. Ending(g)' = Ending(g)
    BY <1>1, <1>3, SameEnding
  <2>. QED
    BY <1>4, <1>5, <2>1, SameOwn DEF AllOwn
<1>10. OwnOf(h)'
  BY <1>2, <1>4, <1>6, <1>7 DEF OwnOf
<1>11. OneEnd(h)'
  <2>1. w \in Ending(h)
    BY <1>1, <1>2 DEF Ending, MayAnswer
  <2>2. /\ ~Ended(sock[h]) /\ ~Ended(buffer_list[h])
        /\ sent[h] = 2 * Len(answers[h]) + 2 /\ \A v \in Ending(h) : v = w
    BY <1>2, <2>1 DEF OneEnd
  <2>3. Ending(h)' = {}
    <3>1. \A v \in Threads : v \notin Ending(h)'
      BY <1>3, <1>8, <2>2, EndingAfter
    <3>2. \A v \in Ending(h)' : v \in Threads
      BY DEF Ending
    <3>. QED
      BY <3>1, <3>2
  <2>4. 2 * Len(answers'[h]) <= sent[h] /\ sent[h] <= 2 * Len(answers'[h]) + 2
    <3>1. Len(answers[h]) \in Nat
      BY <1>5
    <3>. QED
      BY <1>6, <2>2, <3>1
  <2>. QED
    BY <1>2, <1>4, <2>2, <2>3, <2>4 DEF OneEnd
<1>12. Holds(w)'
  <2>1. work'[w].pc = "clear" /\ work'[w].h = h /\ work'[w].got = <<>>
    BY <1>3 DEF Moves
  <2>. QED
    BY <1>8, <2>1 DEF Holds
<1>13. \A v \in Threads : Holds(v)'
  BY <1>3, <1>4, <1>12, SameHolds DEF AllOwn
<1>. QED
  BY <1>4, <1>9, <1>10, <1>11, <1>13 DEF AllOwn

\* A refused request stays so.
LEMMA CleanStays ==
  ASSUME TypeOK, [Next]_vars, Clean'
  PROVE  Clean
<1>. SUFFICES ASSUME NEW g \in Handlers
              PROVE  None \notin Range(answers[g])
  BY DEF Clean
<1>2. None \notin Range(answers'[g])
  BY DEF Clean
<1>3. CASE answers' = answers
  BY <1>2, <1>3
<1>4. ASSUME NEW h \in Handlers, NEW a \in Lines, answers' = [answers EXCEPT ![h] = Append(answers[h], a)]
      PROVE  None \notin Range(answers[g])
  <2>1. CASE g = h
    <3>1. answers'[g] = Append(answers[g], a) /\ answers[g] \in Seq(Lines)
      BY <1>4, <2>1 DEF TypeOK
    <3>2. Range(answers'[g]) = Range(answers[g]) \cup {a}
      BY <3>1, OneMore
    <3>. QED
      BY <1>2, <3>2
  <2>2. CASE g # h
    <3>1. answers'[g] = answers[g]
      BY <1>4, <2>2 DEF TypeOK
    <3>. QED
      BY <1>2, <3>1
  <2>. QED
    BY <2>1, <2>2
<1>5. CASE UNCHANGED vars
  BY <1>3, <1>5 DEF vars
<1>6. ASSUME NEW h \in Handlers, Arrive(h) \/ Submit(h)
      PROVE  answers' = answers
  BY <1>6 DEF Arrive, Submit
<1>7. ASSUME NEW w \in Threads, Worker(w)
      PROVE  \/ answers' = answers
             \/ \E h \in Handlers, a \in Lines : answers' = [answers EXCEPT ![h] = Append(answers[h], a)]
  <2>1. CASE ParseHeader(w)
    <3>1. work[w].h \in Handlers /\ \E o \in Parse(lex, parsing.buf) : Reads(w, o) \/ Refuses(w, o)
      BY <2>1, ParseDoes
    <3>2. None \in Lines
      BY DEF Lines
    <3>. QED
      BY <3>1, <3>2 DEF Reads, Refuses
  <2>2. CASE Answer(w)
    <3>1. work[w].h \in Handlers
          /\ answers' = [answers EXCEPT ![work[w].h] = Append(answers[work[w].h], request[work[w].h])]
      BY <2>2, AnswerDoes
    <3>2. request[work[w].h] \in Lines
      BY <3>1 DEF TypeOK
    <3>. QED
      BY <3>1, <3>2
  <2>3. CASE Take(w) \/ Recv(w) \/ ScanRead(w) \/ AppendData(w) \/ Clear(w) \/ SetOptions(w) \/ Overlap(w)
    BY <2>3 DEF Take, Recv, ScanRead, AppendData, Clear, ChangeList, SetOptions, Overlap
  <2>. QED
    BY <1>7, <2>1, <2>2, <2>3 DEF Worker
<1>. QED
  BY <1>3, <1>4, <1>5, <1>6, <1>7 DEF Next

\* At first nothing is anyone's.
LEMMA InitOwn ==
  ASSUME Init
  PROVE  OwnInv
<1>1. \A h \in Handlers : ~Ended(<<>>) /\ Own(<<>>, h) /\ EndsLast(<<>>)
  BY FewUnits
<1>2. \A w \in Threads : work[w].pc = "idle" /\ work[w].h = None /\ work[w].got = <<>>
  BY DEF Init, Idle
<1>3. \A h \in Handlers : OwnOf(h)
  <2>1. Range(<<>>) = {}
    BY DEF Range
  <2>. QED
    BY <1>1, <2>1 DEF Init, OwnOf
<1>4. \A h \in Handlers : OneEnd(h)
  <2>1. \A h \in Handlers : Ending(h) = {}
    BY <1>2, NoneAssumption DEF Ending
  <2>2. Len(<<>>) = 0
    OBVIOUS
  <2>. QED
    BY <1>1, <2>1, <2>2 DEF Init, OneEnd
<1>5. \A w \in Threads : Holds(w)
  <2>1. Own(<<>>, None) /\ EndsLast(<<>>)
    BY FewUnits
  <2>. QED
    BY <1>2, <2>1 DEF Holds
<1>6. EndsLast(parsing.buf)
  <2>1. parsing.buf = <<>>
    BY DEF Init
  <2>. QED
    BY <2>1, FewUnits
<1>. QED
  BY <1>3, <1>4, <1>5, <1>6 DEF OwnInv, AllOwn, Init

\* Every step leaves a client its own.
LEMMA NextOwn ==
  ASSUME TypeOK, OwnInv, [Next]_vars
  PROVE  OwnInv'
<1>. SUFFICES ASSUME Clean'
              PROVE  AllOwn'
  BY DEF OwnInv
<1>1. AllOwn
  BY CleanStays DEF OwnInv
<1>2. CASE UNCHANGED <<inputs, work, handler, answers, parser>>
  <2>1. /\ sent' = sent /\ sock' = sock /\ buffer_list' = buffer_list /\ request' = request
        /\ answers' = answers /\ lex' = lex /\ parsing' = parsing /\ work' = work
    BY <1>2 DEF inputs, handler, parser
  <2>2. \A g \in Handlers : Ending(g)' = Ending(g)
    BY <2>1 DEF Ending, MayAnswer
  <2>3. \A g \in Handlers : OwnOf(g)' /\ OneEnd(g)'
    BY <1>1, <2>1, <2>2, SameOwn DEF AllOwn
  <2>4. \A w \in Threads : Holds(w)'
    BY <1>1, <2>1 DEF AllOwn, Holds
  <2>. QED
    BY <1>1, <2>1, <2>3, <2>4 DEF AllOwn
<1>3. ASSUME NEW h \in Handlers, Arrive(h) \/ Submit(h)
      PROVE  AllOwn'
  BY <1>1, <1>3, LoopOwn
<1>4. ASSUME NEW w \in Threads, Worker(w)
      PROVE  AllOwn'
  <2>1. CASE Overlap(w)
    BY <1>2, <2>1 DEF Overlap
  <2>. QED
    BY <1>1, <1>4, <2>1, ReadOwn, ScanOwn, ListOwn, SetOwn, ParseOwn, AnswerOwn DEF Worker
<1>5. UNCHANGED vars => UNCHANGED <<inputs, work, handler, answers, parser>>
  BY DEF vars
<1>. QED
  BY <1>2, <1>3, <1>4, <1>5 DEF Next

\* The variables have their types, and while nothing is torn one worker is in the parser.
THEOREM TypeCorrect == Spec => [](TypeOK /\ OneParses)
<1>1. Init => TypeOK /\ OneParses
  BY InitHolds
<1>2. TypeOK /\ OneParses /\ [Next]_vars => (TypeOK /\ OneParses)'
  BY NextType, NextParses
<1>. QED
  BY <1>1, <1>2, PTL DEF Spec

\* A client is given no other's answer, however many workers meet in a handler or set the
\* parser's options over one another, unless two accesses to the same memory have
\* overlapped, or a request was refused.
THEOREM AnswersOwn == Spec => []OwnAnswers
<1>1. Init => OwnInv
  BY InitOwn
<1>2. TypeOK /\ OwnInv /\ [Next]_vars => OwnInv'
  BY NextOwn
<1>3. OwnInv => OwnAnswers
  BY DEF OwnInv, OwnAnswers, Clean, AllOwn, OwnOf
<1>. QED
  BY <1>1, <1>2, <1>3, TypeCorrect, PTL DEF Spec

-----------------------------------------------------------------------------
(* The order of the answers.                                               *)

\* The units of a request, in parts.
LEMMA PartIs ==
  ASSUME NEW h \in Handlers, NEW A \in Nat, Len(answers[h]) = A
  PROVE  \E l \in Units, c \in Units :
           /\ l.kind = "line" /\ c.kind = "crlf" /\ l.req = Current(h)
           /\ Header(Current(h)) = <<l, c>> /\ Header(Current(h))[1] = l /\ Header(Current(h))[2] = c
           /\ Part(h, 1, 0) = <<>> /\ Part(h, 2, 1) = <<>> /\ Part(h, 3, 2) = <<>>
           /\ Part(h, 1, 1) = <<l>> /\ Part(h, 2, 2) = <<c>> /\ Part(h, 1, 2) = <<l, c>>
<1>1. Current(h) \in Handlers \X Nat
  BY DEF Current
<1>. DEFINE l == Header(Current(h))[1]
            c == Header(Current(h))[2]
            d == Header(Current(h))
<1>2. /\ d \in Seq(Units) /\ Len(d) = 2 /\ l \in Units /\ c \in Units
      /\ l.kind = "line" /\ c.kind = "crlf" /\ l.req = Current(h)
  BY <1>1, HeaderIs
<1>3. d[1] = l /\ d[2] = c /\ Part(h, 1, 0) = SubSeq(d, 1, 0) /\ Part(h, 2, 1) = SubSeq(d, 2, 1)
      /\ Part(h, 3, 2) = SubSeq(d, 3, 2) /\ Part(h, 1, 1) = SubSeq(d, 1, 1)
      /\ Part(h, 2, 2) = SubSeq(d, 2, 2) /\ Part(h, 1, 2) = SubSeq(d, 1, 2)
  BY DEF Part
<1>. HIDE DEF l, c, d
<1>4. d = <<l, c>>
  BY <1>2, <1>3
<1>5. SubSeq(d, 1, 0) = <<>> /\ SubSeq(d, 2, 1) = <<>> /\ SubSeq(d, 3, 2) = <<>>
  BY <1>2
<1>6. SubSeq(d, 1, 1) = <<l>>
  <2>. DEFINE e == SubSeq(d, 1, 1)
  <2>1. e \in Seq(Units) /\ Len(e) = 1 /\ e[1] = l
    BY <1>2, <1>3
  <2>. HIDE DEF e
  <2>2. e = <<l>>
    BY ONLY <2>1
  <2>. QED
    BY <2>2 DEF e
<1>7. SubSeq(d, 2, 2) = <<c>>
  <2>. DEFINE e == SubSeq(d, 2, 2)
  <2>1. e \in Seq(Units) /\ Len(e) = 1 /\ e[1] = c
    BY <1>2, <1>3
  <2>. HIDE DEF e
  <2>2. e = <<c>>
    BY ONLY <2>1
  <2>. QED
    BY <2>2 DEF e
<1>8. SubSeq(d, 1, 2) = <<l, c>>
  <2>. DEFINE e == SubSeq(d, 1, 2)
  <2>1. e \in Seq(Units) /\ Len(e) = 2 /\ e[1] = l /\ e[2] = c
    BY <1>2, <1>3
  <2>. HIDE DEF e
  <2>2. e = <<l, c>>
    BY ONLY <2>1
  <2>. QED
    BY <2>2 DEF e
<1>. QED
  BY <1>2, <1>3, <1>4, <1>5, <1>6, <1>7, <1>8 DEF d, l, c

\* One unit behind none, and behind another.
LEMMA AppendIs ==
  ASSUME NEW a \in Units, NEW b \in Units
  PROVE  /\ Append(<<>>, a) = <<a>> /\ Append(<<a>>, b) = <<a, b>>
         /\ <<>> \o <<a, b>> = <<a, b>> /\ <<a>> \o <<b>> = <<a, b>>
<1>1. Append(<<>>, a) = <<a>>
  OBVIOUS
<1>2. \A e \in Seq(Units) : Len(e) = 2 => e = <<e[1], e[2]>>
  OBVIOUS
<1>3. \A s \in Seq(Units) : Len(s) = 1 => Append(s, b) = <<s[1], b>>
  <2>1. ASSUME NEW s \in Seq(Units), Len(s) = 1
        PROVE  /\ Append(s, b) \in Seq(Units) /\ Len(Append(s, b)) = 2
               /\ Append(s, b)[1] = s[1] /\ Append(s, b)[2] = b
    <3>1. /\ Append(s, b) \in Seq(Units) /\ Len(Append(s, b)) = Len(s) + 1
          /\ Append(s, b)[Len(s) + 1] = b /\ \A j \in 1 .. Len(s) : Append(s, b)[j] = s[j]
      OBVIOUS
    <3>. QED
      BY <2>1, <3>1
  <2>. QED
    BY <1>2, <2>1
<1>4. \A s, t \in Seq(Units) : Len(s) = 1 /\ Len(t) = 1 => s \o t = <<s[1], t[1]>>
  <2>1. ASSUME NEW s \in Seq(Units), NEW t \in Seq(Units), Len(s) = 1, Len(t) = 1
        PROVE  s \o t = <<s[1], t[1]>>
    <3>. DEFINE e == s \o t
    <3>1. /\ e \in Seq(Units) /\ Len(e) = Len(s) + Len(t)
          /\ \A j \in 1 .. Len(s) : e[j] = s[j]
          /\ \A j \in 1 .. Len(t) : e[Len(s) + j] = t[j]
      OBVIOUS
    <3>. HIDE DEF e
    <3>2. e \in Seq(Units) /\ Len(e) = 2 /\ e[1] = s[1] /\ e[2] = t[1]
      BY <2>1, <3>1
    <3>3. e = <<e[1], e[2]>>
      BY <1>2, <3>2
    <3>. QED
      BY <3>2, <3>3 DEF e
  <2>. QED
    BY <2>1
<1>5. /\ <<a>> \in Seq(Units) /\ Len(<<a>>) = 1 /\ <<a>>[1] = a
      /\ <<b>> \in Seq(Units) /\ Len(<<b>>) = 1 /\ <<b>>[1] = b
  OBVIOUS
<1>6. <<>> \o <<a, b>> = <<a, b>>
  <2>1. <<a, b>> \in Seq(Units) /\ \A s \in Seq(Units) : <<>> \o s = s
    OBVIOUS
  <2>. QED
    BY <2>1
<1>. QED
  BY <1>1, <1>3, <1>4, <1>5, <1>6

\* The scanner finds the end of a request, and nothing else.
LEMMA ScanRequest ==
  ASSUME NEW l \in Units, NEW c \in Units, l.kind = "line", c.kind = "crlf", NEW s \in States
  PROVE  /\ Ends(s, <<l>>) = {} /\ Scan(s, <<l>>)[Len(<<l>>)] = "CRLF"
         /\ Ends(s, <<l, c>>) # {}
         /\ s = "CRLF" => Ends(s, <<c>>) # {}
<1>. DEFINE one == <<l>>
            end == <<c>>
            two == <<l, c>>
<1>1. /\ one \in Seq(Units) /\ end \in Seq(Units) /\ two \in Seq(Units)
      /\ Len(one) = 1 /\ Len(end) = 1 /\ Len(two) = 2
      /\ one[1] = l /\ end[1] = c /\ two[1] = l /\ two[2] = c
  OBVIOUS
<1>. HIDE DEF one, end, two
<1>2. 1 - 1 = 0 /\ 2 - 1 = 1 /\ 1 \in 1 .. 1 /\ 1 \in 1 .. 2 /\ 2 \in 1 .. 2 /\ \A k \in 1 .. 1 : k = 1
  OBVIOUS
<1>3. "CRLF" \in States
  BY DEF States
<1>4. Scan(s, one)[1] = "CRLF"
  <2>1. Scan(s, one)[0] = s /\ Scan(s, one)[1] = ScanUnit(Scan(s, one)[1 - 1], one[1])
    BY <1>1, <1>2, ScanIs
  <2>. QED
    BY <1>1, <1>2, <2>1, ScanUnitIs
<1>5. Ends(s, one) = {}
  BY <1>1, <1>2, <1>4 DEF Ends
<1>6. Ends(s, two) # {}
  <2>1. /\ Scan(s, two)[0] = s /\ Scan(s, two)[1] = ScanUnit(Scan(s, two)[1 - 1], two[1])
        /\ Scan(s, two)[2] = ScanUnit(Scan(s, two)[2 - 1], two[2])
    BY <1>1, <1>2, ScanIs
  <2>2. Scan(s, two)[1] = "CRLF"
    BY <1>1, <1>2, <2>1, ScanUnitIs
  <2>3. Scan(s, two)[2] = "FOUND"
    BY <1>1, <1>2, <1>3, <2>1, <2>2, ScanUnitIs
  <2>. QED
    BY <1>1, <1>2, <2>3 DEF Ends
<1>7. ASSUME s = "CRLF"
      PROVE  Ends(s, end) # {}
  <2>1. Scan(s, end)[0] = s /\ Scan(s, end)[1] = ScanUnit(Scan(s, end)[1 - 1], end[1])
    BY <1>1, <1>2, ScanIs
  <2>2. Scan(s, end)[1] = "FOUND"
    BY <1>1, <1>2, <1>7, <2>1, ScanUnitIs
  <2>. QED
    BY <1>1, <1>2, <2>2 DEF Ends
<1>. QED
  BY <1>1, <1>4, <1>5, <1>6, <1>7 DEF one, end, two

\* The parser accepts a request, and reads all of it.
LEMMA ParseRequest ==
  ASSUME NEW l \in Units, NEW c \in Units, l.kind = "line", c.kind = "crlf",
         NEW o \in Parse(<<>>, <<l, c>>)
  PROVE  o.accepts = TRUE /\ o.lex = <<>> /\ o.reads[1] = l
<1>. DEFINE in == <<l, c>>
<1>1. in \in Seq(Units) /\ Len(in) = 2 /\ in[1] = l /\ in[2] = c /\ <<>> \o in = in
  OBVIOUS
<1>2. Decisive(<<>>) = {}
  BY DEF Decisive
<1>. HIDE DEF in
<1>3. Decisive(in) = {2}
  <2>1. \A k \in 1 .. 2 : k = 1 \/ k = 2
    OBVIOUS
  <2>. QED
    BY <1>1, <2>1 DEF Decisive
<1>4. Min({2}) = 2
  <2>1. {2} \in SUBSET Nat /\ {2} # {}
    OBVIOUS
  <2>2. Min({2}) \in {2}
    BY <2>1, MinOfNats
  <2>. QED
    BY <2>2
<1>5. o = [accepts |-> TRUE, reads |-> SubSeq(in, 1, 2), lex |-> Unconsumed(in, 2)]
  <2>. DEFINE s == IF Decisive(<<>>) # {} THEN <<>> ELSE <<>> \o in
              k == Min(Decisive(s))
  <2>1. o \in Parse(<<>>, in)
    BY DEF in
  <2>2. s = in
    BY <1>1, <1>2
  <2>3. k = 2 /\ Decisive(s) # {} /\ s[2].kind = "crlf"
    BY <1>1, <1>3, <1>4, <2>2
  <2>4. o \in IF Decisive(s) = {}
              THEN {[accepts |-> FALSE, reads |-> s, lex |-> <<>>]}
              ELSE IF k > 1 /\ s[k].kind = "crlf"
                   THEN {[accepts |-> TRUE, reads |-> SubSeq(s, 1, k), lex |-> Unconsumed(s, k)]}
                   ELSE {[accepts |-> FALSE, reads |-> SubSeq(s, 1, k), lex |-> r \o Unconsumed(s, k)] :
                           r \in Rests(s[k])}
    BY <2>1 DEF Parse
  <2>. HIDE DEF s, k
  <2>5. o \in {[accepts |-> TRUE, reads |-> SubSeq(s, 1, k), lex |-> Unconsumed(s, k)]}
    BY <2>3, <2>4
  <2>. QED
    BY <2>2, <2>3, <2>5
<1>6. 2 \in 1 .. Len(in) /\ 2 = Len(in)
  BY <1>1
<1>7. SubSeq(in, 1, 2)[1] = in[1] /\ Unconsumed(in, 2) = <<>>
  BY <1>1, <1>6, UnreadType
<1>. QED
  BY <1>1, <1>5, <1>7

\* Which workers are in a handler after a step of w.
LEMMA InAfter ==
  ASSUME TypeOK, NEW w \in Threads, NEW pc, NEW h, NEW got, Moves(w, pc, h, got), NEW g \in Handlers
  PROVE  /\ work[w].h = g /\ h = g => In(g)' = In(g)
         /\ work[w].h # g /\ h # g => In(g)' = In(g)
         /\ work[w].h # g /\ h = g /\ In(g) = {} => In(g)' = {w}
         /\ h # g /\ In(g) = {w} => In(g)' = {}
<1>1. In(g)' = {v \in Threads : work'[v].h = g}
  BY DEF In
<1>2. work'[w].h = h /\ \A v \in Threads \ {w} : work'[v] = work[v]
  BY DEF Moves
<1>. QED
  BY <1>1, <1>2 DEF In

\* What a step has to leave alone for the order in a handler to stay.
LEMMA SameOrder ==
  ASSUME TypeOK, NEW w \in Threads, NEW pc, NEW h, NEW got, Moves(w, pc, h, got), NEW g \in Handlers,
         work[w].h # g, h # g, OrderOf(g),
         sent'[g] = sent[g], sock'[g] = sock[g], buffer_list'[g] = buffer_list[g], state'[g] = state[g],
         request'[g] = request[g], answers'[g] = answers[g],
         parsing'.buf = parsing.buf \/ \A v \in Threads \ {w} : work[v].pc # "parse"
  PROVE  OrderOf(g)'
<1>1. In(g)' = In(g)
  BY InAfter
<1>2. Current(g)' = Current(g) /\ Come(g)' = Come(g)
  BY DEF Current, Come
<1>3. \A i, j : Part(g, i, j)' = Part(g, i, j)
  BY <1>2 DEF Part
<1>4. \A m, k : Has(g, m, k)' <=> Has(g, m, k)
  BY <1>2, <1>3 DEF Has
<1>5. \A m : Scanned(g, m)' <=> Scanned(g, m)
  BY DEF Scanned
<1>6. Waits(g)' <=> Waits(g)
  BY <1>4, <1>5 DEF Waits
<1>7. ASSUME NEW v \in In(g)
      PROVE  Doing(v, g)'
  <2>1. v \in Threads \ {w} /\ work'[v] = work[v] /\ Doing(v, g)
    BY <1>7 DEF In, Moves, OrderOf
  <2>2. work[v].pc = "parse" => parsing'.buf = parsing.buf
    BY <2>1
  <2>. QED
    BY <1>2, <1>3, <1>4, <1>5, <1>6, <2>1, <2>2 DEF Doing
<1>. QED
  BY <1>1, <1>2, <1>6, <1>7 DEF OrderOf, Answered

\* The request h waits for stays the same until it is answered.
LEMMA SameParts ==
  ASSUME NEW h \in Handlers, answers'[h] = answers[h]
  PROVE  /\ Current(h)' = Current(h) /\ \A i, j : Part(h, i, j)' = Part(h, i, j)
         /\ sent'[h] = sent[h] => Come(h)' = Come(h)
         /\ Answered(h) => Answered(h)'
<1>1. Current(h)' = Current(h)
  BY DEF Current
<1>. QED
  BY <1>1 DEF Part, Come, Answered

\* What is to be shown of the worker of a handler.
LEMMA AloneOrder ==
  ASSUME NEW h \in Handlers, NEW w \in Threads, In(h)' = {w}, Answered(h)', Come(h)' \in 0 .. 2, Doing(w, h)'
  PROVE  OrderOf(h)'
BY DEF OrderOf

\* The client and the loop.
LEMMA LoopOrder ==
  ASSUME TypeOK, AllOrder, NEW h \in Handlers, Arrive(h) \/ Submit(h)
  PROVE  AllOrder'
<1>1. /\ work' = work /\ state' = state /\ buffer_list' = buffer_list /\ request' = request
      /\ answers' = answers /\ lex' = lex /\ parsing' = parsing
  BY DEF Arrive, Submit, handler, parser
<1>2. \A g \in Handlers : /\ In(g)' = In(g) /\ Current(g)' = Current(g) /\ (Answered(g) => Answered(g)')
                          /\ \A i, j : Part(g, i, j)' = Part(g, i, j)
                          /\ \A m : Scanned(g, m)' <=> Scanned(g, m)
                          /\ sent'[g] = sent[g] => Come(g)' = Come(g)
  BY <1>1, SameParts DEF In, Scanned
\* More may come to the socket, behind what is there.
<1>3. ASSUME NEW g \in Handlers, Come(g)' \in 0 .. 2,
             \A m, k : Has(g, m, k) => Has(g, m, k)',
             \/ Come(g)' = Come(g) /\ sock'[g] = sock[g]
             \/ Come(g) # 2 /\ (sock[g] = Part(g, 1, Come(g)) => sock'[g] = Part(g, 1, Come(g)'))
      PROVE  OrderOf(g)'
  <2>1. Waits(g) => Waits(g)'
    BY <1>2, <1>3 DEF Waits
  <2>2. ASSUME NEW v \in In(g), Doing(v, g)
        PROVE  Doing(v, g)'
    <3>1. work'[v] = work[v] /\ parsing' = parsing /\ state' = state /\ request' = request
      BY <1>1
    <3>. QED
      BY <1>2, <1>3, <2>1, <2>2, <3>1 DEF Doing
  <2>3. Answered(g) /\ (In(g) = {} => Waits(g)) /\ \A v \in In(g) : Doing(v, g) /\ In(g) = {v}
    BY DEF AllOrder, OrderOf
  <2>. QED
    BY <1>2, <1>3, <2>1, <2>2, <2>3 DEF OrderOf
<1>4. ASSUME NEW g \in Handlers, sent'[g] = sent[g], sock'[g] = sock[g]
      PROVE  OrderOf(g)'
  <2>1. Come(g)' = Come(g) /\ Come(g) \in 0 .. 2
    BY <1>2, <1>4 DEF AllOrder, OrderOf
  <2>2. \A m, k : Has(g, m, k) => Has(g, m, k)'
    BY <1>1, <1>2, <1>4, <2>1 DEF Has
  <2>. QED
    BY <1>3, <1>4, <2>1, <2>2
<1>5. \A g \in Handlers \ {h} : sent'[g] = sent[g] /\ sock'[g] = sock[g]
  <2>1. CASE Submit(h)
    BY <2>1 DEF Submit
  <2>2. CASE Arrive(h)
    BY <2>2 DEF Arrive, TypeOK
  <2>. QED
    BY <2>1, <2>2
<1>6. OrderOf(h)'
  <2>1. CASE Submit(h)
    BY <1>4, <2>1 DEF Submit
  <2>2. CASE Arrive(h)
    <3>. DEFINE n == sent[h]
                A == Len(answers[h])
    <3>1. n \in Nat /\ A \in Nat /\ sock[h] \in Seq(Units)
      BY DEF TypeOK
    <3>2. n - 2 * A \in 0 .. 2 /\ Come(h) = n - 2 * A
      BY DEF AllOrder, OrderOf, Come
    <3>3. /\ sent'[h] = n + 1
          /\ sock'[h] = Append(sock[h], Header(<<h, n \div 2 + 1>>)[(n % 2) + 1])
          /\ n % 2 = 1 \/ A = n \div 2
      BY <2>2 DEF Arrive, TypeOK
    <3>4. n \div 2 = A /\ n % 2 = n - 2 * A /\ n - 2 * A \in 0 .. 1
      <4>1. CASE n % 2 = 0
        <5>1. n = 2 * (n \div 2) /\ A = n \div 2
          BY <3>1, <3>3, <4>1, EvenOrOdd, SMTT(20)
        <5>2. n - 2 * A = 0
          <6>. HIDE DEF A, n
          <6>. QED
            BY <3>1, <5>1
        <5>. QED
          BY <4>1, <5>1, <5>2
      <4>2. CASE n % 2 = 1
        <5>1. n = 2 * (n \div 2) + 1 /\ n \div 2 \in Nat
          BY <3>1, <4>2, EvenOrOdd
        <5>. DEFINE m == n \div 2
        <5>. HIDE DEF m, A, n
        <5>2. m = A
          BY <3>1, <3>2, <5>1 DEF m
        <5>3. n - 2 * A = 1
          BY <3>1, <5>1, <5>2 DEF m
        <5>. QED
          BY <4>2, <5>2, <5>3 DEF m
      <4>. QED
        BY <3>1, <4>1, <4>2, EvenOrOdd
    <3>5. Current(h) = <<h, n \div 2 + 1>>
      BY <3>4 DEF Current
    <3>6. PICK C \in 0 .. 1 : C = Come(h)
      BY <3>2, <3>4
    <3>. HIDE DEF n, A
    <3>7. Come(h)' = C + 1 /\ n % 2 = C
      <4>1. Come(h)' = (n + 1) - 2 * A
        BY <1>1, <3>3 DEF Come, A
      <4>. QED
        BY <3>1, <3>2, <3>4, <3>6, <4>1
    <3>8. sock'[h] = Append(sock[h], Header(Current(h))[C + 1])
      BY <3>3, <3>5, <3>7
    <3>9. \A k \in 0 .. C : Append(Part(h, k + 1, C), Header(Current(h))[C + 1]) = Part(h, k + 1, C + 1)
      <4>1. PICK l \in Units, c \in Units :
               /\ Header(Current(h))[1] = l /\ Header(Current(h))[2] = c
               /\ Part(h, 1, 0) = <<>> /\ Part(h, 2, 1) = <<>>
               /\ Part(h, 1, 1) = <<l>> /\ Part(h, 2, 2) = <<c>> /\ Part(h, 1, 2) = <<l, c>>
        BY <3>1, PartIs DEF A
      <4>2. Append(<<>>, l) = <<l>> /\ Append(<<>>, c) = <<c>> /\ Append(<<l>>, c) = <<l, c>>
        BY AppendIs
      <4>3. CASE C = 0
        <5>1. \A k \in 0 .. C : k = 0
          BY <4>3
        <5>. QED
          BY <4>1, <4>2, <4>3, <5>1
      <4>4. CASE C = 1
        <5>1. \A k \in 0 .. C : k = 0 \/ k = 1
          BY <4>4
        <5>2. Append(Part(h, 1, 1), c) = Part(h, 1, 2) /\ Append(Part(h, 2, 1), c) = Part(h, 2, 2)
          BY <4>1, <4>2
        <5>. QED
          BY <4>1, <4>4, <5>1, <5>2
      <4>. QED
        BY <3>6, <4>3, <4>4
    <3>10. ASSUME NEW m, NEW k, Has(h, m, k)
           PROVE  Has(h, m, k)'
      <4>1. m \in 0 .. 1 /\ k \in m .. C /\ buffer_list[h] = Part(h, 1, m) /\ sock[h] = Part(h, k + 1, C)
        BY <3>6, <3>10 DEF Has
      <4>2. k \in 0 .. C /\ k \in m .. (C + 1)
        BY <3>6, <4>1
      <4>3. sock'[h] = Part(h, k + 1, C + 1)
        BY <3>8, <3>9, <4>1, <4>2
      <4>. QED
        BY <1>1, <1>2, <3>7, <4>1, <4>2, <4>3 DEF Has
    <3>11. sock[h] = Part(h, 1, C) => sock'[h] = Part(h, 1, C + 1)
      <4>1. 0 \in 0 .. C /\ 0 + 1 = 1
        BY <3>6
      <4>. QED
        BY <3>8, <3>9, <4>1
    <3>. QED
      BY <1>3, <3>6, <3>7, <3>10, <3>11
  <2>. QED
    BY <2>1, <2>2
<1>. QED
  BY <1>1, <1>4, <1>5, <1>6 DEF AllOrder

\* A worker takes a handler nobody is in.
LEMMA TakeOrder ==
  ASSUME TypeOK, AllOrder, NEW w \in Threads, Take(w), crowded' = {}
  PROVE  AllOrder'
<1>1. PICK h \in Handlers : h = Head(queue)
  BY TakeDoes
<1>2. /\ Moves(w, "recv", h, <<>>) /\ work[w].pc = "idle"
      /\ UNCHANGED <<inputs, handler, answers, parser, overlapped, torn>>
      /\ crowded' = crowded \cup {g \in {Head(queue)} : \E v \in Threads : work[v].h = g}
  BY <1>1, TakeDoes
<1>3. /\ sent' = sent /\ sock' = sock /\ buffer_list' = buffer_list /\ state' = state
      /\ request' = request /\ answers' = answers /\ lex' = lex /\ parsing' = parsing
  BY <1>2 DEF inputs, handler, parser
<1>4. work[w].h = None /\ \A g \in Handlers : work[w].h # g
  BY <1>2, NoneAssumption DEF TypeOK
<1>5. In(h) = {}
  BY <1>1, <1>2 DEF In
<1>6. OrderOf(h)'
  <2>1. In(h)' = {w}
    BY <1>2, <1>4, <1>5, InAfter
  <2>2. Waits(h) /\ Answered(h) /\ Come(h) \in 0 .. 2
    BY <1>5 DEF AllOrder, OrderOf
  <2>3. Waits(h)' /\ Answered(h)' /\ Come(h)' \in 0 .. 2
    <3>1. Current(h)' = Current(h) /\ Come(h)' = Come(h) /\ Answered(h)' /\ \A i, j : Part(h, i, j)' = Part(h, i, j)
      BY <1>3, <2>2, SameParts
    <3>2. \A m, k : Has(h, m, k) => Has(h, m, k)'
      BY <1>3, <3>1 DEF Has
    <3>3. \A m : Scanned(h, m) => Scanned(h, m)'
      BY <1>3 DEF Scanned
    <3>. QED
      BY <2>2, <3>1, <3>2, <3>3 DEF Waits
  <2>4. Doing(w, h)'
    <3>1. work'[w].pc = "recv"
      BY <1>2 DEF Moves
    <3>. QED
      BY <2>3, <3>1 DEF Doing
  <2>. QED
    BY <2>1, <2>3, <2>4, AloneOrder
<1>7. \A g \in Handlers \ {h} : OrderOf(g)'
  BY <1>2, <1>3, <1>4, SameOrder DEF AllOrder
<1>. QED
  BY <1>3, <1>6, <1>7 DEF AllOrder

\* A worker reads its socket: it gets all that has come, or waits for more.
LEMMA RecvOrder ==
  ASSUME TypeOK, AllOrder, NEW w \in Threads, Recv(w)
  PROVE  AllOrder'
<1>1. PICK h \in Handlers : h = work[w].h
  BY RecvDoes
<1>2. work[w].pc = "recv" /\ sock' = [sock EXCEPT ![h] = <<>>]
      /\ UNCHANGED <<sent, edge, queue, handler, answers, parser, overlapped, crowded, torn>>
  BY <1>1, RecvDoes
<1>3. /\ sent' = sent /\ buffer_list' = buffer_list /\ state' = state
      /\ request' = request /\ answers' = answers /\ lex' = lex /\ parsing' = parsing
  BY <1>2 DEF handler, parser
<1>4. sock'[h] = <<>> /\ \A g \in Handlers \ {h} : sock'[g] = sock[g]
  BY <1>2 DEF TypeOK
<1>5. In(h) = {w} /\ Doing(w, h) /\ Answered(h) /\ Come(h) \in 0 .. 2
  BY <1>1 DEF AllOrder, OrderOf, In
<1>6. PICK m \in 0 .. 1 : Has(h, m, m) /\ Scanned(h, m)
  BY <1>2, <1>5 DEF Doing, Waits
<1>7. PICK C \in 0 .. 2 : C = Come(h)
  BY <1>5
<1>8. Come(h)' = C /\ Answered(h)' /\ \A i, j : Part(h, i, j)' = Part(h, i, j)
  BY <1>3, <1>5, <1>7, SameParts
<1>9. Scanned(h, m)'
  BY <1>3, <1>6 DEF Scanned
<1>10. m <= C /\ buffer_list[h] = Part(h, 1, m) /\ sock[h] = Part(h, m + 1, C)
  BY <1>6, <1>7 DEF Has
<1>11. OrderOf(h)' /\ \A g \in Handlers \ {h} : OrderOf(g)'
  <2>1. CASE sock[h] = <<>>
    <3>1. Moves(w, "idle", None, <<>>)
      BY <1>1, <2>1, RecvDoes
    <3>2. Has(h, m, m)'
      BY <1>3, <1>4, <1>7, <1>8, <1>10, <2>1 DEF Has
    <3>3. Waits(h)'
      BY <1>9, <3>2 DEF Waits
    <3>4. In(h)' = {}
      BY <1>5, <3>1, NoneAssumption, InAfter
    <3>5. OrderOf(h)'
      BY <1>8, <3>3, <3>4 DEF OrderOf
    <3>6. \A g \in Handlers \ {h} : OrderOf(g)'
      BY <1>1, <1>3, <1>4, <3>1, NoneAssumption, SameOrder DEF AllOrder
    <3>. QED
      BY <3>5, <3>6
  <2>2. CASE sock[h] # <<>>
    <3>1. Moves(w, "scan", h, sock[h])
      BY <1>1, <2>2, RecvDoes
    <3>2. /\ Part(h, 1, 0) = <<>> /\ Part(h, 2, 1) = <<>> /\ Part(h, 3, 2) = <<>>
      <4>1. Len(answers[h]) \in Nat
        BY DEF TypeOK
      <4>. QED
        BY <4>1, PartIs
    <3>3. m < C
      <4>1. m = C => C \in 0 .. 1 /\ Part(h, m + 1, C) = Part(h, C + 1, C)
        BY <1>10
      <4>2. \A k \in 0 .. 1 : Part(h, k + 1, k) = <<>>
        BY <3>2
      <4>. QED
        BY <1>10, <2>2, <4>1, <4>2
    <3>4. C \in 1 .. 2 /\ Part(h, C + 1, C) = <<>>
      <4>1. C \in 1 .. 2
        BY <3>3
      <4>2. \A k \in 1 .. 2 : Part(h, k + 1, k) = <<>>
        BY <3>2
      <4>. QED
        BY <4>1, <4>2
    <3>5. Has(h, m, C)'
      BY <1>3, <1>4, <1>8, <1>10, <3>4 DEF Has
    <3>6. Doing(w, h)'
      <4>1. work'[w].pc = "scan" /\ work'[w].got = Part(h, m + 1, C)'
        BY <1>8, <1>10, <3>1 DEF Moves
      <4>. QED
        BY <1>9, <3>3, <3>4, <3>5, <4>1 DEF Doing
    <3>7. In(h)' = {w}
      BY <1>1, <1>5, <3>1, InAfter
    <3>8. OrderOf(h)'
      BY <1>8, <3>6, <3>7, AloneOrder
    <3>9. \A g \in Handlers \ {h} : OrderOf(g)'
      BY <1>1, <1>3, <1>4, <3>1, SameOrder DEF AllOrder
    <3>. QED
      BY <3>8, <3>9
  <2>. QED
    BY <2>1, <2>2
<1>. QED
  BY <1>3, <1>11 DEF AllOrder

\* A worker scans: behind the end of the request it serves it, before it appends.
LEMMA ScanOrder ==
  ASSUME TypeOK, AllOrder, NEW w \in Threads, ScanRead(w)
  PROVE  AllOrder'
<1>1. PICK h \in Handlers : h = work[w].h
  BY ScanDoes
<1>2. PICK got \in Seq(Units) : got = work[w].got
  BY ScanDoes
<1>. DEFINE ends == Ends(state[h], got)
<1>3. /\ work[w].pc = "scan"
      /\ state' = [state EXCEPT ![h] = IF ends = {} THEN Scan(state[h], got)[Len(got)] ELSE "FOUND"]
      /\ Moves(w, IF ends = {} THEN "append" ELSE "set", h, got)
      /\ UNCHANGED <<inputs, queue, buffer_list, request, answers, parser, overlapped, crowded>>
  BY <1>1, <1>2, ScanDoes
<1>4. /\ sent' = sent /\ sock' = sock /\ buffer_list' = buffer_list
      /\ request' = request /\ answers' = answers /\ lex' = lex /\ parsing' = parsing
  BY <1>3 DEF inputs, parser
<1>5. In(h) = {w} /\ Doing(w, h) /\ Answered(h) /\ Come(h) \in 0 .. 2
  BY <1>1 DEF AllOrder, OrderOf, In
<1>6. PICK m \in 0 .. 1, k \in 1 .. 2 : Has(h, m, k) /\ Scanned(h, m) /\ m < k /\ got = Part(h, m + 1, k)
  BY <1>2, <1>3, <1>5 DEF Doing
<1>7. Come(h)' = Come(h) /\ Answered(h)' /\ \A i, j : Part(h, i, j)' = Part(h, i, j)
  BY <1>4, <1>5, SameParts
<1>8. Has(h, m, k)'
  BY <1>4, <1>6, <1>7 DEF Has
<1>9. PICK l \in Units, c \in Units :
        /\ l.kind = "line" /\ c.kind = "crlf"
        /\ Part(h, 1, 1) = <<l>> /\ Part(h, 2, 2) = <<c>> /\ Part(h, 1, 2) = <<l, c>>
  <2>1. Len(answers[h]) \in Nat
    BY DEF TypeOK
  <2>. QED
    BY <2>1, PartIs
<1>10. state[h] \in States
  BY DEF TypeOK
<1>11. /\ Ends(state[h], <<l>>) = {} /\ Scan(state[h], <<l>>)[Len(<<l>>)] = "CRLF"
       /\ Ends(state[h], <<l, c>>) # {}
       /\ state[h] = "CRLF" => Ends(state[h], <<c>>) # {}
  BY <1>9, <1>10, ScanRequest
<1>12. In(h)' = {w}
  BY <1>1, <1>3, <1>5, InAfter
<1>13. Doing(w, h)'
  <2>1. CASE k = 1
    <3>1. m = 0 /\ got = <<l>> /\ got = Part(h, 1, 1)
      BY <1>6, <1>9, <2>1
    <3>2. ends = {} /\ Scan(state[h], got)[Len(got)] = "CRLF"
      BY <1>11, <3>1
    <3>3. work'[w].pc = "append" /\ work'[w].got = Part(h, 1, 1)'
      BY <1>3, <1>7, <3>1, <3>2 DEF Moves
    <3>4. Scanned(h, 1)'
      <4>1. state'[h] = "CRLF"
        BY <1>3, <3>2 DEF TypeOK
      <4>. QED
        BY <4>1 DEF Scanned
    <3>5. Has(h, 0, 1)'
      BY <1>8, <2>1, <3>1
    <3>. QED
      BY <3>3, <3>4, <3>5 DEF Doing
  <2>2. CASE k = 2
    <3>1. ends # {}
      <4>1. CASE m = 0
        <5>1. got = <<l, c>>
          BY <1>6, <1>9, <2>2, <4>1
        <5>. QED
          BY <1>11, <5>1
      <4>2. CASE m = 1
        <5>1. got = <<c>> /\ state[h] = "CRLF"
          BY <1>6, <1>9, <2>2, <4>2 DEF Scanned
        <5>. QED
          BY <1>11, <5>1
      <4>. QED
        BY <4>1, <4>2
    <3>2. work'[w].pc = "set" /\ work'[w].got = Part(h, m + 1, 2)'
      BY <1>3, <1>6, <1>7, <2>2, <3>1 DEF Moves
    <3>3. state'[h] = "FOUND"
      BY <1>3, <3>1 DEF TypeOK
    <3>4. Has(h, m, 2)'
      BY <1>8, <2>2
    <3>. QED
      BY <3>2, <3>3, <3>4 DEF Doing
  <2>. QED
    BY <2>1, <2>2
<1>14. OrderOf(h)'
  BY <1>5, <1>7, <1>12, <1>13, AloneOrder
<1>15. \A g \in Handlers \ {h} : OrderOf(g)'
  <2>1. \A g \in Handlers \ {h} : state'[g] = state[g]
    BY <1>3 DEF TypeOK
  <2>. HIDE DEF ends
  <2>. QED
    BY <1>1, <1>3, <1>4, <2>1, SameOrder DEF AllOrder
<1>. QED
  BY <1>4, <1>14, <1>15 DEF AllOrder

\* A worker appends the first part of a request, or clears the list behind it.
LEMMA ListOrder ==
  ASSUME TypeOK, AllOrder, NEW w \in Threads, AppendData(w) \/ Clear(w)
  PROVE  AllOrder'
<1>1. work[w].pc \in {"append", "clear"}
  BY DEF AppendData, Clear, ChangeList, At
<1>2. PICK h \in Handlers : h = work[w].h
  BY <1>1, Serves
<1>3. PICK got \in Seq(Units) : got = work[w].got
  BY <1>1, Serves
<1>4. In(h) = {w} /\ Doing(w, h) /\ Answered(h) /\ Come(h) \in 0 .. 2 /\ buffer_list[h] \in Seq(Units)
  BY <1>2 DEF AllOrder, OrderOf, In, TypeOK
<1>5. Part(h, 1, 0) = <<>> /\ Part(h, 1, 1) \in Seq(Units) /\ <<>> \o Part(h, 1, 1) = Part(h, 1, 1)
  <2>1. Len(answers[h]) \in Nat
    BY DEF TypeOK
  <2>2. PICK l \in Units : Part(h, 1, 0) = <<>> /\ Part(h, 1, 1) = <<l>>
    BY <2>1, PartIs
  <2>3. <<l>> \in Seq(Units) /\ \A s \in Seq(Units) : <<>> \o s = s
    OBVIOUS
  <2>. QED
    BY <2>2, <2>3
<1>6. PICK m \in 0 .. 1, pc \in {"append", "clear"} :
        /\ ChangeList(w, pc, Part(h, 1, m))
        /\ m <= Come(h) /\ sock[h] = Part(h, m + 1, Come(h)) /\ Scanned(h, m)
  <2>1. CASE AppendData(w)
    <3>1. work[w].pc = "append"
      BY <2>1 DEF AppendData, ChangeList, At
    <3>2. Has(h, 0, 1) /\ Scanned(h, 1) /\ got = Part(h, 1, 1)
      BY <1>3, <1>4, <3>1 DEF Doing
    <3>3. buffer_list[h] = <<>> /\ sock[h] = Part(h, 2, Come(h)) /\ 1 <= Come(h)
      BY <1>4, <1>5, <3>2 DEF Has
    <3>4. ChangeList(w, "append", Part(h, 1, 1))
      BY <1>2, <1>3, <1>5, <2>1, <3>2, <3>3 DEF AppendData
    <3>. QED
      BY <3>2, <3>3, <3>4
  <2>2. CASE Clear(w)
    <3>1. work[w].pc = "clear"
      BY <2>2 DEF Clear, ChangeList, At
    <3>2. sock[h] = Part(h, 1, Come(h)) /\ Scanned(h, 0) /\ 0 <= Come(h)
      BY <1>4, <3>1 DEF Doing, Scanned
    <3>3. ChangeList(w, "clear", Part(h, 1, 0))
      BY <1>5, <2>2 DEF Clear
    <3>. QED
      BY <3>2, <3>3
  <2>. QED
    BY <2>1, <2>2
<1>8. /\ Moves(w, "recv", h, <<>>)
      /\ buffer_list' = [buffer_list EXCEPT ![h] = Part(h, 1, m)]
      /\ UNCHANGED <<inputs, queue, state, request, answers, parser, overlapped, crowded, torn>>
  <2>1. Part(h, 1, m) \in Seq(Units)
    <3>1. m = 0 \/ m = 1
      BY <1>6
    <3>2. <<>> \in Seq(Units)
      OBVIOUS
    <3>. QED
      BY <1>5, <3>1, <3>2
  <2>2. ChangeList(w, pc, Part(h, 1, m))
    BY <1>6
  <2>. QED
    BY <1>2, <1>6, <2>1, <2>2, ListDoes
<1>9. /\ sent' = sent /\ sock' = sock /\ state' = state
      /\ request' = request /\ answers' = answers /\ lex' = lex /\ parsing' = parsing
  BY <1>8 DEF inputs, parser
<1>10. /\ buffer_list'[h] = Part(h, 1, m)
       /\ \A g \in Handlers \ {h} : buffer_list'[g] = buffer_list[g]
  BY <1>8 DEF TypeOK
<1>11. Come(h)' = Come(h) /\ Answered(h)' /\ \A i, j : Part(h, i, j)' = Part(h, i, j)
  BY <1>4, <1>9, SameParts
<1>12. Has(h, m, m)' /\ Scanned(h, m)'
  BY <1>4, <1>6, <1>9, <1>10, <1>11 DEF Has, Scanned
<1>13. OrderOf(h)'
  <2>1. Waits(h)'
    BY <1>12 DEF Waits
  <2>2. Doing(w, h)'
    <3>1. work'[w].pc = "recv"
      BY <1>8 DEF Moves
    <3>. QED
      BY <2>1, <3>1 DEF Doing
  <2>3. In(h)' = {w}
    BY <1>2, <1>4, <1>8, InAfter
  <2>. QED
    BY <1>4, <1>11, <2>2, <2>3, AloneOrder
<1>14. \A g \in Handlers \ {h} : OrderOf(g)'
  BY <1>2, <1>8, <1>9, <1>10, SameOrder DEF AllOrder
<1>. QED
  BY <1>8, <1>9, <1>13, <1>14 DEF AllOrder

\* A worker gives the parser the whole request.
LEMMA SetOrder ==
  ASSUME TypeOK, AllOrder, NEW w \in Threads, SetOptions(w), ~torn'
  PROVE  AllOrder'
<1>1. PICK h \in Handlers : h = work[w].h
  BY SetDoes
<1>2. work[w].pc = "set" /\ Others(w, {"parse"}) = {}
  BY SetDoes
<1>3. PICK got \in Seq(Units) : got = work[w].got
  BY <1>2, Serves
<1>4. Moves(w, "parse", h, got) /\ parsing'.buf = buffer_list[h] \o got
  BY <1>1, <1>3, SetDoes
<1>5. /\ sent' = sent /\ sock' = sock /\ buffer_list' = buffer_list /\ state' = state
      /\ request' = request /\ answers' = answers /\ lex' = lex
  BY SetDoes DEF inputs, handler
<1>6. In(h) = {w} /\ Doing(w, h) /\ Answered(h) /\ Come(h) \in 0 .. 2
  BY <1>1 DEF AllOrder, OrderOf, In
<1>7. PICK m \in 0 .. 1 : Has(h, m, 2) /\ state[h] = "FOUND" /\ got = Part(h, m + 1, 2)
  BY <1>2, <1>3, <1>6 DEF Doing
<1>8. Come(h) = 2 /\ buffer_list[h] = Part(h, 1, m) /\ sock[h] = Part(h, 3, 2)
  <2>1. 2 \in m .. Come(h) /\ buffer_list[h] = Part(h, 1, m) /\ sock[h] = Part(h, 3, Come(h))
    BY <1>7 DEF Has
  <2>2. Come(h) = 2
    BY <1>6, <2>1
  <2>. QED
    BY <2>1, <2>2
<1>9. sock[h] = <<>> /\ parsing'.buf = Part(h, 1, 2)
  <2>1. Len(answers[h]) \in Nat
    BY DEF TypeOK
  <2>2. PICK l \in Units, c \in Units :
          /\ Part(h, 1, 0) = <<>> /\ Part(h, 3, 2) = <<>>
          /\ Part(h, 1, 1) = <<l>> /\ Part(h, 2, 2) = <<c>> /\ Part(h, 1, 2) = <<l, c>>
    BY <2>1, PartIs
  <2>3. <<>> \o <<l, c>> = <<l, c>> /\ <<l>> \o <<c>> = <<l, c>>
    BY AppendIs
  <2>4. Part(h, 1, m) \o Part(h, m + 1, 2) = Part(h, 1, 2)
    <3>1. CASE m = 0
      BY <2>2, <2>3, <3>1
    <3>2. CASE m = 1
      <4>1. m + 1 = 2
        BY <3>2
      <4>. QED
        BY <2>2, <2>3, <3>2, <4>1
    <3>. QED
      BY <3>1, <3>2
  <2>. QED
    BY <1>4, <1>7, <1>8, <2>2, <2>4
<1>10. Come(h)' = Come(h) /\ Answered(h)' /\ \A i, j : Part(h, i, j)' = Part(h, i, j)
  BY <1>5, <1>6, SameParts
<1>11. OrderOf(h)'
  <2>1. work'[w].pc = "parse"
    BY <1>4 DEF Moves
  <2>2. Doing(w, h)'
    BY <1>5, <1>7, <1>8, <1>9, <1>10, <2>1 DEF Doing
  <2>3. In(h)' = {w}
    BY <1>1, <1>4, <1>6, InAfter
  <2>. QED
    BY <1>6, <1>10, <2>2, <2>3, AloneOrder
<1>12. \A v \in Threads \ {w} : work[v].pc # "parse"
  BY <1>2 DEF Others
<1>13. \A g \in Handlers \ {h} : OrderOf(g)'
  BY <1>1, <1>4, <1>5, <1>12, SameOrder DEF AllOrder
<1>. QED
  BY <1>5, <1>11, <1>13 DEF AllOrder

\* The parser accepts the request.
LEMMA ParseOrder ==
  ASSUME TypeOK, OneParses, AllOrder, ~torn, NEW w \in Threads, ParseHeader(w)
  PROVE  AllOrder'
<1>1. PICK h \in Handlers : h = work[w].h
  BY ParseDoes
<1>2. work[w].pc = "parse" /\ lex = <<>>
  BY ParseDoes DEF AllOrder
<1>3. In(h) = {w} /\ Doing(w, h) /\ Answered(h) /\ Come(h) \in 0 .. 2
  BY <1>1 DEF AllOrder, OrderOf, In
<1>4. parsing.buf = Part(h, 1, 2) /\ Come(h) = 2 /\ sock[h] = <<>> /\ state[h] = "FOUND"
  BY <1>2, <1>3 DEF Doing
<1>5. PICK l \in Units, c \in Units :
        l.kind = "line" /\ c.kind = "crlf" /\ l.req = Current(h) /\ Part(h, 1, 2) = <<l, c>>
  <2>1. Len(answers[h]) \in Nat
    BY DEF TypeOK
  <2>. QED
    BY <2>1, PartIs
<1>6. PICK o \in Parse(lex, parsing.buf) : lex' = o.lex /\ (Reads(w, o) \/ Refuses(w, o))
  BY ParseDoes
<1>7. o.accepts = TRUE /\ o.lex = <<>> /\ o.reads[1] = l
  <2>1. o \in Parse(<<>>, <<l, c>>)
    BY <1>2, <1>4, <1>5, <1>6
  <2>. QED
    BY <1>5, <2>1, ParseRequest
<1>8. /\ Moves(w, "answer", h, <<>>) /\ request' = [request EXCEPT ![h] = Current(h)]
      /\ answers' = answers
  <2>1. Line(w, o) = Current(h)
    BY <1>2, <1>5, <1>7 DEF OneParses, Line
  <2>. QED
    BY <1>1, <1>6, <1>7, <2>1 DEF Reads, Refuses
<1>9. /\ sent' = sent /\ sock' = sock /\ buffer_list' = buffer_list /\ state' = state
  <2>1. UNCHANGED <<inputs, queue, state, buffer_list, overlapped, crowded, torn>>
    BY ParseDoes
  <2>. QED
    BY <2>1 DEF inputs
<1>10. request'[h] = Current(h) /\ \A g \in Handlers \ {h} : request'[g] = request[g]
  BY <1>8 DEF TypeOK
<1>11. Come(h)' = Come(h) /\ Answered(h)' /\ Current(h)' = Current(h)
  BY <1>3, <1>8, <1>9, SameParts
<1>12. OrderOf(h)'
  <2>1. work'[w].pc = "answer"
    BY <1>8 DEF Moves
  <2>2. Doing(w, h)'
    BY <1>4, <1>9, <1>10, <1>11, <2>1 DEF Doing
  <2>3. In(h)' = {w}
    BY <1>1, <1>3, <1>8, InAfter
  <2>. QED
    BY <1>3, <1>11, <2>2, <2>3, AloneOrder
<1>13. \A v \in Threads \ {w} : work[v].pc # "parse"
  BY <1>2 DEF OneParses
<1>14. \A g \in Handlers \ {h} : OrderOf(g)'
  BY <1>1, <1>8, <1>9, <1>10, <1>13, SameOrder DEF AllOrder
<1>. QED
  BY <1>6, <1>7, <1>9, <1>12, <1>14 DEF AllOrder

\* The request is answered, and the next may come.
LEMMA AnswerOrder ==
  ASSUME TypeOK, AllOrder, NEW w \in Threads, Answer(w)
  PROVE  AllOrder'
<1>1. PICK h \in Handlers : h = work[w].h
  BY AnswerDoes
<1>2. work[w].pc = "answer" /\ UNCHANGED <<inputs, queue, handler, parser, overlapped, crowded, torn>>
  BY AnswerDoes
<1>3. In(h) = {w} /\ Doing(w, h) /\ Answered(h) /\ Come(h) \in 0 .. 2
  BY <1>1 DEF AllOrder, OrderOf, In
<1>4. request[h] = Current(h) /\ Come(h) = 2 /\ sock[h] = <<>> /\ state[h] = "FOUND"
  BY <1>2, <1>3 DEF Doing
<1>5. /\ Moves(w, "clear", h, work[w].got)
      /\ answers' = [answers EXCEPT ![h] = Append(answers[h], Current(h))]
  BY <1>1, <1>4, AnswerDoes
<1>6. /\ sent' = sent /\ sock' = sock /\ buffer_list' = buffer_list /\ state' = state
      /\ request' = request /\ lex' = lex /\ parsing' = parsing
  BY <1>2 DEF inputs, handler, parser
<1>7. /\ answers'[h] = Append(answers[h], Current(h)) /\ \A g \in Handlers \ {h} : answers'[g] = answers[g]
      /\ answers[h] \in Seq(Lines) /\ sent[h] \in Nat
  BY <1>5 DEF TypeOK
<1>. DEFINE A == Len(answers[h])
            c == answers'[h]
<1>8. A \in Nat /\ Current(h) = <<h, A + 1>> /\ Current(h) \in Lines /\ DOMAIN answers[h] = 1 .. A
  BY <1>7 DEF Current, Lines
<1>9. /\ c \in Seq(Lines) /\ Len(c) = A + 1 /\ c[A + 1] = <<h, A + 1>>
      /\ \A j \in 1 .. A : c[j] = answers[h][j]
  BY <1>7, <1>8
<1>10. \A j \in 1 .. A : answers[h][j] = <<h, j>>
  <2>1. answers[h] = [k \in DOMAIN answers[h] |-> <<h, k>>]
    BY <1>3 DEF Answered
  <2>. QED
    BY <1>8, <2>1
<1>11. Answered(h)'
  <2>. HIDE DEF c, A
  <2>1. \A j \in 1 .. (A + 1) : c[j] = <<h, j>>
    <3>1. \A j \in 1 .. (A + 1) : j \in 1 .. A \/ j = A + 1
      BY <1>8
    <3>. QED
      BY <1>9, <1>10, <3>1
  <2>2. c = [k \in DOMAIN c |-> <<h, k>>]
    <3>1. DOMAIN c = 1 .. (A + 1) /\ c = [k \in DOMAIN c |-> c[k]]
      BY <1>9
    <3>. QED
      BY <2>1, <3>1
  <2>. QED
    BY <2>2 DEF Answered, c
<1>12. Come(h)' = 0
  <2>1. sent[h] - 2 * A = 2
    BY <1>4 DEF Come
  <2>2. sent[h] - 2 * (A + 1) = 0
    BY <1>7, <1>8, <2>1
  <2>. QED
    BY <1>6, <1>9, <2>2 DEF Come
<1>13. Part(h, 1, 0)' = <<>>
  <2>1. SubSeq(Header(Current(h)'), 1, 0) = <<>>
    <3>1. Current(h)' \in Handlers \X Nat
      BY <1>9 DEF Current
    <3>2. Header(Current(h)') \in Seq(Units)
      BY <3>1, HeaderIs
    <3>. QED
      BY <3>2
  <2>. QED
    BY <2>1 DEF Part
<1>14. OrderOf(h)'
  <2>1. work'[w].pc = "clear"
    BY <1>5 DEF Moves
  <2>2. sock'[h] = Part(h, 1, Come(h))'
    BY <1>4, <1>6, <1>12, <1>13 DEF Part
  <2>3. Doing(w, h)'
    BY <1>4, <1>6, <2>1, <2>2 DEF Doing
  <2>4. In(h)' = {w}
    BY <1>1, <1>3, <1>5, InAfter
  <2>. QED
    BY <1>11, <1>12, <2>3, <2>4, AloneOrder
<1>15. \A g \in Handlers \ {h} : OrderOf(g)'
  BY <1>1, <1>5, <1>6, <1>7, SameOrder DEF AllOrder
<1>. QED
  BY <1>6, <1>14, <1>15 DEF AllOrder

\* Workers that have met in a handler have met.
LEMMA CrowdedStays ==
  ASSUME TypeOK, [Next]_vars, crowded' = {}
  PROVE  crowded = {}
<1>1. CASE UNCHANGED vars
  BY <1>1 DEF vars
<1>2. ASSUME NEW h \in Handlers, Arrive(h) \/ Submit(h)
      PROVE  crowded' = crowded
  BY <1>2 DEF Arrive, Submit
<1>3. ASSUME NEW w \in Threads, Worker(w)
      PROVE  crowded \subseteq crowded'
  <2>1. CASE Take(w)
    BY <2>1 DEF Take
  <2>2. CASE ~Take(w)
    BY <1>3, <2>2 DEF Worker, Recv, ScanRead, AppendData, Clear, ChangeList, SetOptions, ParseHeader,
                      Answer, Overlap
  <2>. QED
    BY <2>1, <2>2
<1>. QED
  BY <1>1, <1>2, <1>3 DEF Next

\* At first every handler waits.
LEMMA InitOrder ==
  ASSUME Init
  PROVE  OrderInv
<1>1. \A w \in Threads : work[w].h = None
  BY DEF Init, Idle
<1>2. ASSUME NEW h \in Handlers
      PROVE  OrderOf(h)
  <2>1. In(h) = {}
    BY <1>1, NoneAssumption DEF In
  <2>2. answers[h] = <<>> /\ Len(answers[h]) = 0
    BY DEF Init
  <2>3. Answered(h)
    BY <2>2 DEF Answered
  <2>4. Come(h) = 0
    BY <2>2 DEF Init, Come
  <2>5. Part(h, 1, 0) = <<>>
    BY <2>2, PartIs
  <2>6. Has(h, 0, 0) /\ Scanned(h, 0)
    BY <2>4, <2>5 DEF Init, Has, Scanned
  <2>7. Waits(h)
    BY <2>6 DEF Waits
  <2>. QED
    BY <2>1, <2>3, <2>4, <2>7 DEF OrderOf
<1>. QED
  BY <1>2 DEF Init, OrderInv, AllOrder

\* Every step keeps the order, while no two workers are in one handler or in the parser.
LEMMA NextOrder ==
  ASSUME TypeOK, OneParses, OrderInv, [Next]_vars
  PROVE  OrderInv'
<1>. SUFFICES ASSUME ~torn', crowded' = {}
              PROVE  AllOrder'
  BY DEF OrderInv, Orderly
<1>1. AllOrder /\ ~torn
  BY TornStays, CrowdedStays DEF OrderInv, Orderly
<1>2. CASE UNCHANGED <<inputs, work, handler, answers, parser>>
  <2>1. /\ sent' = sent /\ sock' = sock /\ buffer_list' = buffer_list /\ state' = state
        /\ request' = request /\ answers' = answers /\ lex' = lex /\ parsing' = parsing
        /\ work' = work
    BY <1>2 DEF inputs, handler, parser
  <2>2. ASSUME NEW g \in Handlers
        PROVE  OrderOf(g)'
    <3>1. /\ Current(g)' = Current(g) /\ Come(g)' = Come(g) /\ (Answered(g) => Answered(g)')
          /\ \A i, j : Part(g, i, j)' = Part(g, i, j)
      BY <2>1, SameParts
    <3>2. \A m, k : Has(g, m, k)' <=> Has(g, m, k)
      BY <2>1, <3>1 DEF Has
    <3>3. \A m : Scanned(g, m)' <=> Scanned(g, m)
      BY <2>1 DEF Scanned
    <3>4. Waits(g)' <=> Waits(g)
      BY <3>2, <3>3 DEF Waits
    <3>5. \A v \in Threads : Doing(v, g) => Doing(v, g)'
      BY <2>1, <3>1, <3>2, <3>3, <3>4 DEF Doing
    <3>6. In(g)' = In(g) /\ \A v \in In(g) : v \in Threads
      BY <2>1 DEF In
    <3>. QED
      BY <1>1, <3>1, <3>4, <3>5, <3>6 DEF AllOrder, OrderOf
  <2>. QED
    BY <1>1, <2>1, <2>2 DEF AllOrder
<1>3. ASSUME NEW h \in Handlers, Arrive(h) \/ Submit(h)
      PROVE  AllOrder'
  BY <1>1, <1>3, LoopOrder
<1>4. ASSUME NEW w \in Threads, Worker(w)
      PROVE  AllOrder'
  <2>1. CASE Overlap(w)
    BY <1>2, <2>1 DEF Overlap
  <2>. QED
    BY <1>1, <1>4, <2>1, TakeOrder, RecvOrder, ScanOrder, ListOrder, SetOrder, ParseOrder, AnswerOrder DEF Worker
<1>5. UNCHANGED vars => UNCHANGED <<inputs, work, handler, answers, parser>>
  BY DEF vars
<1>. QED
  BY <1>2, <1>3, <1>4, <1>5 DEF Next

\* While no two workers are in one handler or in the parser, every request gets its answer
\* once and in order.
THEOREM AnswersInOrder == Spec => []InOrder
<1>1. Init => OrderInv
  BY InitOrder
<1>2. TypeOK /\ OneParses /\ OrderInv /\ [Next]_vars => OrderInv'
  BY NextOrder
<1>3. OrderInv => InOrder
  BY DEF OrderInv, Orderly, InOrder, AllOrder, OrderOf, Answered
<1>. QED
  BY <1>1, <1>2, <1>3, TypeCorrect, PTL DEF Spec
=============================================================================
