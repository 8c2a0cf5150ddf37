--------------------------- MODULE HttpHandlerProofs ---------------------------
(***************************************************************************)
(* For any requests, connections and cuts of the stream: the list and      *)
(* cur_body_len agree but for one cause, and a client the handler can cope *)
(* with is served as HttpExchange promises.                                *)
(***************************************************************************)
EXTENDS HttpHandler, FiniteSetTheorems, WellFoundedInduction, SequenceTheorems, TLAPS

-----------------------------------------------------------------------------
(* The inductive invariant.                                                *)

Units == [kind : {"line", "field", "crlf", "byte", "rest"}, req : Nat, n : Nat]

TypeOK ==
  /\ asked \in Seq([kind : {"GET", "POST", "bad"}, length : Nat, conn : Int])
  /\ conn \in Int
  /\ wire \in Seq(Units) /\ sock \in Seq(Units)
  /\ buffer_list \in Seq(Units) /\ lex \in Seq(Units)
  /\ count \in Nat /\ cur_body_len \in Nat /\ body_length \in Nat
  /\ request.length \in {-1} \cup Nat

IInv == TypeOK /\ BodyAccounted

-----------------------------------------------------------------------------
(* The operators of the model.                                             *)

Less == {p \in Nat \X Nat : p[1] < p[2]}

\* A set of natural numbers that is not empty has a least one.
LEMMA MinOfNats ==
  ASSUME NEW S \in SUBSET Nat, S # {}
  PROVE  Min(S) \in S /\ \A n \in S : Min(S) <= n
<1>1. OpToRel(<, Nat) = Less
  BY Zenon DEF OpToRel, Less
<1>2. PICK m \in S : \A n \in S : <<n, m>> \notin Less
  BY <1>1, NatLessThanWellFounded, WFMin, Zenon
<1>3. ASSUME NEW n \in S
      PROVE  m <= n
  <2>1. ~(n < m)
    <3>1. n < m => <<n, m>> \in Less
      BY DEF Less
    <3>. QED
      BY <1>2, <3>1
  <2>. QED
    BY <2>1
<1>. QED
  BY <1>3 DEF Min

\* A sequence of units has a number of bytes, and the empty one none.
LEMMA BytesType ==
  ASSUME NEW s \in Seq(Units)
  PROVE  Bytes(s) \in Nat
<1>1. IsFiniteSet(DOMAIN s) /\ Len(s) \in Nat
  BY FS_Interval
<1>2. ASSUME NEW T \in SUBSET DOMAIN s
      PROVE  Cardinality(T) \in Nat
  BY <1>1, FS_Subset, FS_CardinalityType
<1>3. /\ Cardinality({k \in DOMAIN s : s[k].kind = "crlf"}) \in Nat
      /\ Cardinality({k \in DOMAIN s : s[k].kind \notin {"byte", "crlf"}}) \in Nat
  BY <1>2
<1>. QED
  BY <1>1, <1>3 DEF Bytes

\* No units have no bytes.
LEMMA BytesOfNone == Bytes(<<>>) = 0
<1>1. /\ {k \in DOMAIN <<>> : <<>>[k].kind = "crlf"} = {}
      /\ {k \in DOMAIN <<>> : <<>>[k].kind \notin {"byte", "crlf"}} = {}
  OBVIOUS
<1>. QED
  BY <1>1, FS_EmptySet DEF Bytes

\* Pieces of sequences of units.
LEMMA SubSeqType ==
  ASSUME NEW s \in Seq(Units), NEW m \in Nat \ {0}, NEW n \in Nat, n <= Len(s)
  PROVE  SubSeq(s, m, n) \in Seq(Units)
OBVIOUS

\* What follows a place of a sequence of units is one too.
LEMMA FromType ==
  ASSUME NEW s \in Seq(Units), NEW m \in Nat \ {0}
  PROVE  From(s, m) \in Seq(Units)
BY SubSeqType DEF From

\* A read is a piece of the socket's buffer.
LEMMA RecvType ==
  ASSUME TypeOK
  PROVE  Recv \in Seq(Units) /\ Len(Recv) \in Nat
<1>. DEFINE S == {MaxRead, Len(sock)}
<1>1. S \in SUBSET Nat /\ S # {} /\ Len(sock) \in S /\ sock \in Seq(Units)
  BY MaxReadAssumption DEF TypeOK
<1>2. Min(S) \in S /\ Min(S) <= Len(sock)
  BY <1>1, MinOfNats
<1>3. Min(S) \in Nat
  BY <1>1, <1>2
<1>4. SubSeq(sock, 1, Min(S)) \in Seq(Units)
  <2>. HIDE DEF S
  <2>. QED
    BY <1>1, <1>2, <1>3, SubSeqType
<1>5. Recv \in Seq(Units)
  BY <1>4, Zenon DEF Recv
<1>. QED
  BY <1>5

\* A read that finds something.
LEMMA RecvIs ==
  ASSUME TypeOK, sock # <<>>
  PROVE  /\ Recv \in Seq(Units) /\ Len(Recv) \in 1 .. Len(sock) /\ Recv = SubSeq(sock, 1, Len(Recv))
         /\ \A i \in 1 .. Len(Recv) : Recv[i] = sock[i]
<1>. DEFINE S == {MaxRead, Len(sock)}
            n == Min(S)
<1>1. sock \in Seq(Units) /\ Len(sock) \in Nat /\ Len(sock) > 0 /\ MaxRead \in Nat /\ MaxRead > 0
  BY MaxReadAssumption DEF TypeOK
<1>2. S \in SUBSET Nat /\ S # {} /\ Len(sock) \in S /\ \A x \in S : x > 0
  BY <1>1
<1>. HIDE DEF S
<1>3. n \in S /\ n <= Len(sock)
  BY ONLY <1>2, MinOfNats
<1>4. Recv = SubSeq(sock, 1, n)
  BY DEF Recv, S
<1>. HIDE DEF n
<1>5. n \in Nat /\ n > 0
  BY ONLY <1>2, <1>3
<1>6. n \in 1 .. Len(sock)
  BY ONLY <1>1, <1>3, <1>5
<1>7. Len(SubSeq(sock, 1, n)) = n /\ SubSeq(sock, 1, n) \in Seq(Units)
      /\ \A i \in 1 .. n : SubSeq(sock, 1, n)[i] = sock[i]
  BY ONLY <1>1, <1>6
<1>. QED
  BY ONLY <1>6, <1>4, <1>7

\* What is not read of a sequence of units, and the rest of a line.
LEMMA UnreadType ==
  ASSUME NEW s \in Seq(Units), NEW k \in 1 .. Len(s)
  PROVE  /\ SubSeq(s, 1, k) \in Seq(Units) /\ SubSeq(s, 1, k) # <<>>
         /\ Unconsumed(s, k) \in Seq(Units)
         /\ \A r \in Rests(s[k]) : r \in Seq(Units)
<1>1. SubSeq(s, 1, k) \in Seq(Units) /\ Len(SubSeq(s, 1, k)) = k
  OBVIOUS
<1>2. Unconsumed(s, k) \in Seq(Units)
  <2>1. k + 1 \in Nat \ {0}
    OBVIOUS
  <2>. QED
    BY <2>1, FromType DEF Unconsumed
<1>3. Unit("rest", s[k].req, 0) \in Units
  <2>1. s[k] \in Units
    OBVIOUS
  <2>. QED
    BY <2>1 DEF Unit, Units
<1>4. ASSUME NEW r \in Rests(s[k])
      PROVE  r \in Seq(Units)
  <2>1. r = <<>> \/ r = <<Unit("rest", s[k].req, 0)>>
    BY DEF Rests
  <2>2. <<>> \in Seq(Units)
    OBVIOUS
  <2>3. <<Unit("rest", s[k].req, 0)>> \in Seq(Units)
    <3>. DEFINE u == Unit("rest", s[k].req, 0)
    <3>1. u \in Units
      BY <1>3
    <3>. HIDE DEF u
    <3>2. <<u>> \in Seq(Units)
      BY <3>1
    <3>. QED
      BY <3>2 DEF u
  <2>. QED
    BY <2>1, <2>2, <2>3
<1>. QED
  BY <1>1, <1>2, <1>4

\* The parser reads units, and leaves some.
LEMMA ParseType ==
  ASSUME NEW l \in Seq(Units), NEW in \in Seq(Units), NEW o \in Parse(l, in)
  PROVE  o.lex \in Seq(Units) /\ o.reads \in Seq(Units) /\ (o.accepts => o.reads # <<>>)
<1>. DEFINE s == IF Decisive(l) # {} THEN l ELSE l \o in
            k == Min(Decisive(s))
<1>1. s \in Seq(Units)
  OBVIOUS
<1>2. CASE Decisive(s) = {}
  <2>1. o = [accepts |-> FALSE, reads |-> s, lex |-> <<>>]
    BY <1>2 DEF Parse
  <2>. QED
    BY <1>1, <2>1
<1>3. CASE Decisive(s) # {}
  <2>1. Decisive(s) \in SUBSET Nat
    BY DEF Decisive
  <2>2. k \in 1 .. Len(s)
    BY <1>3, <2>1, MinOfNats DEF Decisive
  <2>3. \/ o = [accepts |-> TRUE, reads |-> SubSeq(s, 1, k), lex |-> Unconsumed(s, k)]
        \/ \E r \in Rests(s[k]) :
             o = [accepts |-> FALSE, reads |-> SubSeq(s, 1, k), lex |-> r \o Unconsumed(s, k)]
    BY <1>3 DEF Parse
  <2>. HIDE DEF s, k
  <2>4. /\ SubSeq(s, 1, k) \in Seq(Units) /\ SubSeq(s, 1, k) # <<>>
        /\ Unconsumed(s, k) \in Seq(Units)
        /\ \A r \in Rests(s[k]) : r \in Seq(Units)
    BY <1>1, <2>2, UnreadType
  <2>5. \A r \in Rests(s[k]) : r \o Unconsumed(s, k) \in Seq(Units)
    BY <2>4
  <2>6. CASE o = [accepts |-> TRUE, reads |-> SubSeq(s, 1, k), lex |-> Unconsumed(s, k)]
    BY <2>4, <2>6
  <2>7. ASSUME NEW r \in Rests(s[k]),
               o = [accepts |-> FALSE, reads |-> SubSeq(s, 1, k), lex |-> r \o Unconsumed(s, k)]
        PROVE  o.lex \in Seq(Units) /\ o.reads \in Seq(Units) /\ ~o.accepts
    BY <2>4, <2>5, <2>7
  <2>. QED
    BY <2>3, <2>6, <2>7
<1>. QED
  BY <1>2, <1>3

\* The length of a request is that of a field, or was known before.
LEMMA SetRequestType ==
  ASSUME TypeOK, NEW reads \in Seq(Units)
  PROVE  SetRequest(reads).length \in {-1} \cup Nat
<1>. DEFINE fields == {k \in DOMAIN reads : reads[k].kind = "field"}
<1>1. CASE request.length >= 0 \/ fields = {}
  <2>1. SetRequest(reads).length = request.length
    BY <1>1 DEF SetRequest
  <2>. QED
    BY <2>1 DEF TypeOK
<1>2. CASE ~(request.length >= 0 \/ fields = {})
  <2>1. Min(fields) \in DOMAIN reads
    <3>1. fields \in SUBSET Nat /\ fields # {} /\ fields \subseteq DOMAIN reads
      BY <1>2
    <3>. HIDE DEF fields
    <3>. QED
      BY <3>1, MinOfNats
  <2>2. reads[Min(fields)] \in Units
    <3>. HIDE DEF fields
    <3>. QED
      BY <2>1
  <2>3. SetRequest(reads).length = reads[Min(fields)].n
    BY <1>2 DEF SetRequest
  <2>. QED
    BY <2>2, <2>3 DEF Units
<1>. QED
  BY <1>1, <1>2

\* A set of numbers up to m that is not empty has a greatest one.
LEMMA MaxOfNats ==
  ASSUME NEW m \in Nat, NEW S \in SUBSET (1 .. m), S # {}
  PROVE  Max(S) \in S
<1>. DEFINE T == {m - x : x \in S}
<1>1. T \in SUBSET Nat /\ T # {}
  <2>1. \A x \in S : m - x \in Nat
    OBVIOUS
  <2>2. PICK x : x \in S
    OBVIOUS
  <2>3. m - x \in T
    BY <2>2
  <2>. QED
    BY <2>1, <2>3
<1>2. PICK d : d = Min(T)
  OBVIOUS
<1>3. d \in T /\ \A n \in T : d <= n
  <2>. HIDE DEF T
  <2>. QED
    BY <1>1, <1>2, MinOfNats
<1>4. PICK x \in S : d = m - x
  BY <1>3
<1>5. ASSUME NEW y \in S
      PROVE  x >= y
  <2>1. m - x <= m - y
    BY <1>3, <1>4
  <2>. QED
    BY <2>1
<1>. QED
  BY <1>5 DEF Max

\* Bytes that neither start a line nor a field are units.
LEMMA JunkType ==
  ASSUME NEW n \in Int
  PROVE  Junk(n) \in Seq(Units)
<1>. DEFINE u == Unit("byte", 0, 0)
<1>1. u \in Units
  BY DEF Unit, Units
<1>. HIDE DEF u
<1>2. [j \in 1 .. n |-> u] \in Seq(Units)
  <2>1. CASE n \in Nat
    BY <1>1, <2>1
  <2>2. CASE n \notin Nat
    <3>1. 1 .. n = 1 .. 0
      BY <2>2
    <3>2. [j \in 1 .. 0 |-> u] \in Seq(Units)
      BY <1>1
    <3>. QED
      BY <3>1, <3>2
  <2>. QED
    BY <2>1, <2>2
<1>. QED
  BY <1>2 DEF Junk, u

\* What is kept of an array is units.
LEMMA WindowType ==
  ASSUME NEW s \in Seq(Units), NEW size \in Nat, NEW first \in Int, NEW n \in Int
  PROVE  Window(s, size, first, n) \in Seq(Units)
<1>. DEFINE end(k) == Bytes(SubSeq(s, 1, k))
            own == {k \in DOMAIN s : first <= end(k - 1) /\ end(k) <= Min({first + n, size})}
<1>1. ASSUME NEW k \in 0 .. Len(s)
      PROVE  end(k) \in Nat
  <2>1. SubSeq(s, 1, k) \in Seq(Units)
    BY SubSeqType
  <2>. QED
    BY <2>1, BytesType
<1>2. own \in SUBSET (1 .. Len(s))
  OBVIOUS
<1>3. CASE n = 0 \/ own = {}
  BY <1>3, JunkType DEF Window
<1>4. CASE ~(n = 0 \/ own = {})
  <2>1. PICK lo, hi : lo = Min(own) /\ hi = Max(own)
    OBVIOUS
  <2>2. lo \in 1 .. Len(s) /\ hi \in 1 .. Len(s)
    <3>1. own # {}
      BY ONLY <1>4
    <3>2. Len(s) \in Nat /\ own \in SUBSET Nat
      BY <1>2
    <3>. HIDE DEF own
    <3>3. Min(own) \in own
      BY ONLY <3>1, <3>2, MinOfNats
    <3>4. Max(own) \in own
      BY ONLY <1>2, <3>1, <3>2, MaxOfNats
    <3>. QED
      BY ONLY <1>2, <2>1, <3>3, <3>4
  <2>3. SubSeq(s, lo, hi) \in Seq(Units)
    BY <2>2, SubSeqType
  <2>4. end(lo - 1) - first \in Int /\ first + n - end(hi) \in Int
    <3>1. end(lo - 1) \in Nat /\ end(hi) \in Nat
      BY <1>1, <2>2
    <3>. HIDE DEF end
    <3>. QED
      BY <3>1
  <2>5. Window(s, size, first, n)
          = Junk(end(lo - 1) - first) \o SubSeq(s, lo, hi) \o Junk(first + n - end(hi))
    BY <1>4, <2>1 DEF Window
  <2>. HIDE DEF end
  <2>6. /\ Junk(end(lo - 1) - first) \in Seq(Units)
        /\ Junk(first + n - end(hi)) \in Seq(Units)
    BY <2>4, JunkType
  <2>. QED
    BY <2>3, <2>5, <2>6
<1>. QED
  BY <1>3, <1>4

\* The units that hold the first bytes of a read are some.
LEMMA CoveringType ==
  ASSUME NEW s \in Seq(Units), s # <<>>, NEW n \in Int, Bytes(s) >= n
  PROVE  Covering(s, n) \in Seq(Units)
<1>. DEFINE S == {k \in DOMAIN s : Bytes(SubSeq(s, 1, k)) >= n}
<1>1. Len(s) \in S
  <2>1. SubSeq(s, 1, Len(s)) = s /\ Len(s) \in DOMAIN s
    OBVIOUS
  <2>. QED
    BY <2>1
<1>2. S \in SUBSET Nat /\ S \subseteq 1 .. Len(s)
  OBVIOUS
<1>3. Covering(s, n) = SubSeq(s, 1, Min(S))
  BY DEF Covering
<1>. HIDE DEF S
<1>4. Min(S) \in 1 .. Len(s)
  BY ONLY <1>1, <1>2, MinOfNats
<1>5. SubSeq(s, 1, Min(S)) \in Seq(Units)
  BY <1>4, SubSeqType
<1>. QED
  BY ONLY <1>3, <1>5

-----------------------------------------------------------------------------
(* Each step preserves the invariant.                                      *)

\* A request is units.
LEMMA AskType ==
  ASSUME TypeOK, Ask
  PROVE  TypeOK'
<1>1. PICK s \in Scripts :
        /\ Len(asked) < Len(s)
        /\ asked' = Append(asked, [kind |-> s[Len(asked) + 1].kind,
                                   length |-> s[Len(asked) + 1].length, conn |-> conn])
        /\ wire' = wire \o HeaderOf(s[Len(asked) + 1], Len(asked) + 1)
                        \o BodyOf(s[Len(asked) + 1], Len(asked) + 1)
  BY DEF Ask, history
<1>. DEFINE id == Len(asked) + 1
            r == s[id]
<1>2. id \in Nat /\ r \in [kind : {"GET", "POST", "bad"}, length : Nat]
  <2>. DEFINE Request == [kind : {"GET", "POST", "bad"}, length : Nat]
  <2>1. s \in Seq(Request)
    BY <1>1, ScriptsAssumption
  <2>2. Len(asked) \in Nat
    BY DEF TypeOK
  <2>3. Len(s) \in Nat
    BY <2>1
  <2>4. id \in 1 .. Len(s)
    BY <1>1, <2>2, <2>3
  <2>. HIDE DEF Request
  <2>5. r \in Request
    BY <2>1, <2>4
  <2>. QED
    BY <2>2, <2>5 DEF Request
<1>. HIDE DEF id, r
<1>3. \A kind \in {"line", "field", "crlf", "byte"}, n \in Nat : Unit(kind, id, n) \in Units
  BY <1>2 DEF Unit, Units
<1>4. HeaderOf(r, id) \in Seq(Units)
  <2>. DEFINE line == Unit("line", id, 0)
              field == Unit("field", id, r.length)
              crlf == Unit("crlf", id, 0)
              byte == Unit("byte", id, 0)
  <2>1. line \in Units /\ field \in Units /\ crlf \in Units /\ byte \in Units
    BY <1>2, <1>3
  <2>2. HeaderOf(r, id) \in {<<line, crlf>>, <<line, field, crlf>>, <<byte, crlf, crlf>>}
    BY <1>2 DEF HeaderOf
  <2>. HIDE DEF line, field, crlf, byte
  <2>3. /\ <<line, crlf>> \in Seq(Units)
        /\ <<line, field, crlf>> \in Seq(Units)
        /\ <<byte, crlf, crlf>> \in Seq(Units)
    BY <2>1
  <2>. QED
    BY <2>2, <2>3
<1>5. BodyOf(r, id) \in Seq(Units)
  <2>1. BodyOf(r, id) \in [1 .. r.length -> Units]
    BY <1>2, <1>3 DEF BodyOf
  <2>. QED
    BY <1>2, <2>1
<1>6. wire' \in Seq(Units)
  <2>1. wire' = wire \o HeaderOf(r, id) \o BodyOf(r, id)
    BY <1>1 DEF r, id
  <2>. QED
    BY <1>4, <1>5, <2>1 DEF TypeOK
<1>7. asked' \in Seq([kind : {"GET", "POST", "bad"}, length : Nat, conn : Int])
  <2>1. asked' = Append(asked, [kind |-> r.kind, length |-> r.length, conn |-> conn])
    BY <1>1 DEF r, id
  <2>. QED
    BY <1>2, <2>1 DEF TypeOK
<1>. QED
  BY <1>6, <1>7 DEF Ask, TypeOK, handler, history

\* The parser's outcome, and what is done about it.
LEMMA EndOfHeader ==
  ASSUME TypeOK, BodyAccounted, RecvEndOfHeader
  PROVE  TypeOK' /\ BodyAccounted'
<1>. DEFINE k == Min(Ends(state, Recv))
            more == From(Recv, k + 1)
<1>1. Recv \in Seq(Units)
  BY RecvType
<1>2. k \in 1 .. Len(Recv)
  <2>1. Ends(state, Recv) \in SUBSET Nat /\ Ends(state, Recv) # {}
    BY DEF Ends, RecvEndOfHeader
  <2>2. k \in Ends(state, Recv)
    BY <2>1, MinOfNats
  <2>. QED
    BY <2>2 DEF Ends
<1>3. overread' = (overread \/ more # <<>>)
  BY DEF RecvEndOfHeader
<1>4. PICK o \in Parse(lex, buffer_list \o SubSeq(Recv, 1, k)) :
        /\ lex' = o.lex
        /\ IF o.accepts THEN Serve(SetRequest(o.reads), more) ELSE Refuse(Recv[k].req)
  BY DEF RecvEndOfHeader
<1>5. /\ sock' = From(sock, Len(Recv) + 1)
      /\ UNCHANGED <<asked, conn, wire, dead>>
      /\ stage = "STAGE_HEADER"
  BY DEF RecvEndOfHeader, CanRead, Receives, client
<1>. HIDE DEF k
<1>6. more \in Seq(Units)
  <2>1. k + 1 \in Nat \ {0}
    BY <1>2
  <2>. QED
    BY <1>1, <2>1, FromType
<1>. HIDE DEF more
<1>7. o.lex \in Seq(Units) /\ o.reads \in Seq(Units)
  <2>1. SubSeq(Recv, 1, k) \in Seq(Units)
    BY <1>1, <1>2, SubSeqType
  <2>2. buffer_list \o SubSeq(Recv, 1, k) \in Seq(Units)
    BY <2>1 DEF TypeOK
  <2>. QED
    BY <2>2, ParseType DEF TypeOK
<1>8. sock' \in Seq(Units) /\ lex' \in Seq(Units)
  <2>1. Len(Recv) + 1 \in Nat \ {0}
    BY <1>1
  <2>. QED
    BY <1>4, <1>5, <1>7, <2>1, FromType DEF TypeOK
<1>9. CASE o.accepts
  <2>. DEFINE r == SetRequest(o.reads)
  <2>1. r.length \in {-1} \cup Nat
    BY <1>7, SetRequestType
  <2>. HIDE DEF r
  <2>2. Serve(r, more)
    BY <1>4, <1>9 DEF r
  <2>3. request' = r /\ buffer_list' = more /\ count' = Bytes(more)
    BY <2>2 DEF Serve, ClearAndAppend, AfterHeader
  <2>4. Bytes(more) \in Nat
    BY <1>6, BytesType
  <2>5. CASE HasBody(r)
    <3>1. stage' = "STAGE_BODY" /\ cur_body_len' = 0 /\ body_length' = r.length
      BY <2>2, <2>5 DEF Serve
    <3>2. TypeOK'
      BY <1>5, <1>6, <1>8, <2>1, <2>3, <2>4, <2>5, <3>1 DEF TypeOK, HasBody
    <3>3. count' # 0 => overread'
      BY <1>3, <2>3, BytesOfNone
    <3>. QED
      BY <1>3, <1>5, <2>1, <2>5, <3>1, <3>2, <3>3 DEF BodyAccounted, HasBody
  <2>6. CASE ~HasBody(r)
    <3>1. UNCHANGED <<stage, body_length, cur_body_len>>
      BY <2>2, <2>6 DEF Serve
    <3>2. TypeOK'
      BY <1>5, <1>6, <1>8, <2>1, <2>3, <2>4, <2>6, <3>1 DEF TypeOK, HasBody
    <3>. QED
      BY <1>3, <1>5, <3>1, <3>2 DEF BodyAccounted
  <2>. QED
    BY <2>5, <2>6
<1>10. CASE ~o.accepts
  <2>1. UNCHANGED <<stage, buffer_list, count, body_length, cur_body_len, request>>
    BY <1>4, <1>10 DEF Refuse
  <2>2. TypeOK'
    BY <1>5, <1>8, <2>1 DEF TypeOK
  <2>. QED
    BY <1>3, <1>5, <2>1, <2>2 DEF BodyAccounted
<1>. QED
  BY <1>9, <1>10

\* A read takes its units from the socket, and its bytes are a number.
LEMMA ReadType ==
  ASSUME TypeOK, NEW s, Receives(s)
  PROVE  Recv \in Seq(Units) /\ Bytes(Recv) \in Nat /\ sock' \in Seq(Units)
<1>1. Recv \in Seq(Units)
  BY RecvType
<1>2. Len(Recv) + 1 \in Nat \ {0}
  BY <1>1
<1>. QED
  BY <1>1, <1>2, BytesType, FromType DEF CanRead, Receives, TypeOK

\* One case for each action.
LEMMA Step == IInv /\ [Next]_vars => IInv'
<1>. SUFFICES ASSUME TypeOK, BodyAccounted, [Next]_vars
              PROVE  TypeOK' /\ BodyAccounted'
  BY DEF IInv
<1>. USE DEF alive
<1>1. CASE Ask
  BY <1>1, AskType DEF Ask, handler, BodyAccounted, history
<1>2. ASSUME NEW n \in 1 .. Len(wire), Arrive(n)
      PROVE  TypeOK' /\ BodyAccounted'
  <2>1. sock' \in Seq(Units)
    <3>1. SubSeq(wire, 1, n) \in Seq(Units)
      BY <1>2, SubSeqType DEF TypeOK
    <3>. QED
      BY <1>2, <3>1 DEF Arrive, TypeOK
  <2>2. wire' \in Seq(Units)
    <3>1. n + 1 \in Nat \ {0}
      OBVIOUS
    <3>. QED
      BY <1>2, <3>1, FromType DEF Arrive, TypeOK
  <2>. QED
    BY <1>2, <2>1, <2>2 DEF Arrive, handler, TypeOK, BodyAccounted
<1>3. CASE Reconnect
  BY <1>3 DEF Reconnect, handler, TypeOK, BodyAccounted
<1>4. CASE Process
  BY <1>4 DEF Process, client, handler, TypeOK, BodyAccounted, history
<1>5. CASE RecvNothing
  BY <1>5 DEF RecvNothing, client, handler, TypeOK, BodyAccounted, history
<1>6. CASE RecvPartOfBody
  <2>1. Recv \in Seq(Units) /\ Bytes(Recv) \in Nat /\ sock' \in Seq(Units)
    BY <1>6, ReadType DEF RecvPartOfBody, history
  <2>2. buffer_list' = buffer_list \o Recv /\ count' = count + Bytes(Recv)
    BY <1>6 DEF RecvPartOfBody, AppendData, history
  <2>3. stage = "STAGE_BODY" /\ cur_body_len' = cur_body_len + Bytes(Recv)
        /\ Bytes(Recv) < body_length - cur_body_len
    BY <1>6 DEF RecvPartOfBody, Counted, Missing, CanRead, Receives, history
  <2>4. UNCHANGED <<asked, conn, wire, lex, body_length, request, stage, dead, overread>>
    BY <1>6 DEF RecvPartOfBody, client, history
  <2>5. buffer_list' \in Seq(Units)
    BY <2>1, <2>2 DEF TypeOK
  <2>6. count' \in Nat /\ cur_body_len' \in Nat /\ cur_body_len' < body_length
    <3>1. count \in Nat /\ cur_body_len \in Nat /\ body_length \in Nat
      BY DEF TypeOK
    <3>. QED
      BY <2>1, <2>2, <2>3, <3>1
  <2>7. TypeOK'
    BY <2>1, <2>4, <2>5, <2>6 DEF TypeOK
  <2>8. count' # cur_body_len' => count # cur_body_len
    BY <2>2, <2>3
  <2>9. BodyAccounted'
    BY <2>3, <2>4, <2>6, <2>8 DEF BodyAccounted
  <2>. QED
    BY <2>4, <2>7, <2>9
<1>7. CASE RecvEndOfBody
  <2>1. sock' \in Seq(Units)
    BY <1>7, ReadType DEF RecvEndOfBody
  <2>. DEFINE body == buffer_list \o Covering(Recv, Missing)
              left == AfterBody(body, Bytes(Recv) - Missing)
  <2>2. left \in Seq(Units)
    <3>1. Recv \in Seq(Units) /\ Bytes(Recv) \in Nat
      BY <1>7, ReadType DEF RecvEndOfBody
    <3>2. cur_body_len \in Nat /\ body_length \in Nat /\ buffer_list \in Seq(Units)
      BY DEF TypeOK
    <3>3. Missing \in Int /\ Bytes(Recv) >= Missing /\ Bytes(Recv) - Missing \in Nat
      BY <1>7, <3>1, <3>2 DEF RecvEndOfBody, Missing
    <3>4. Covering(Recv, Missing) \in Seq(Units)
      <4>1. Recv # <<>>
        <5>1. sock # <<>>
          BY <1>7 DEF RecvEndOfBody, CanRead, Receives
        <5>2. Len(Recv) > 0
          BY <5>1, RecvIs DEF TypeOK
        <5>. QED
          BY <5>2
      <4>. QED
        BY <3>1, <3>3, <4>1, CoveringType
    <3>5. body \in Seq(Units)
      BY <3>2, <3>4
    <3>6. left = Window(body, body_length, Missing, Bytes(Recv) - Missing)
      BY DEF AfterBody
    <3>. HIDE DEF body, left
    <3>. QED
      BY ONLY <3>2, <3>3, <3>5, <3>6, WindowType
  <2>3. buffer_list' = left /\ count' = Bytes(left) /\ stage' = "STAGE_HEADER"
        /\ UNCHANGED <<asked, conn, wire, lex, body_length, cur_body_len, request, dead>>
        /\ (overread => overread')
    BY <1>7 DEF RecvEndOfBody, ClearAndAppend, client
  <2>. HIDE DEF left
  <2>4. Bytes(left) \in Nat
    BY <2>2, BytesType
  <2>5. TypeOK'
    BY <2>1, <2>2, <2>3, <2>4 DEF TypeOK
  <2>. QED
    BY <2>3, <2>5 DEF BodyAccounted
<1>8. CASE AssertFails
  <2>1. sock' \in Seq(Units)
    BY <1>8, ReadType DEF AssertFails, history
  <2>2. /\ UNCHANGED <<asked, conn, wire, lex, handler, overread>>
        /\ stage = "STAGE_BODY" /\ count # cur_body_len
    BY <1>8 DEF AssertFails, client, CanRead, Receives, history
  <2>3. overread
    BY <2>2 DEF BodyAccounted
  <2>. QED
    BY <2>1, <2>2, <2>3 DEF handler, TypeOK, BodyAccounted
<1>9. CASE RecvPartOfHeader
  <2>1. Recv \in Seq(Units) /\ Bytes(Recv) \in Nat /\ sock' \in Seq(Units)
    BY <1>9, ReadType DEF RecvPartOfHeader, history
  <2>2. buffer_list' = buffer_list \o Recv /\ count' = count + Bytes(Recv)
    BY <1>9 DEF RecvPartOfHeader, AppendData, history
  <2>3. UNCHANGED <<asked, conn, wire, lex, body_length, cur_body_len, request, stage, dead,
                    overread>>
        /\ stage = "STAGE_HEADER"
    BY <1>9 DEF RecvPartOfHeader, client, CanRead, Receives, history
  <2>4. TypeOK'
    BY <2>1, <2>2, <2>3 DEF TypeOK
  <2>. QED
    BY <2>3, <2>4 DEF BodyAccounted
<1>10. CASE RecvEndOfHeader
  BY <1>10, EndOfHeader
<1>11. CASE CopySmashes
  <2>1. sock' \in Seq(Units)
    BY <1>11, ReadType DEF CopySmashes, history
  <2>. QED
    BY <1>11, <2>1 DEF CopySmashes, client, handler, TypeOK, BodyAccounted, history
<1>12. CASE UNCHANGED vars
  BY <1>12 DEF vars, client, handler, TypeOK, BodyAccounted, history
<1>13. CASE StackOverrun
  BY <1>13 DEF StackOverrun, client, handler, history, TypeOK, BodyAccounted
<1>. QED
  BY <1>1, <1>2, <1>3, <1>4, <1>5, <1>6, <1>7, <1>8, <1>9, <1>10, <1>11, <1>12, <1>13 DEF Next, ReadData

-----------------------------------------------------------------------------
(* What follows.                                                           *)

\* The invariant holds in every state (http_handler.cc:34-95).
THEOREM HandlerInvariant == Spec => []IInv
<1>1. Init => IInv
  BY DEF Init, IInv, TypeOK, BodyAccounted, alive
<1>. QED
  BY <1>1, Step, PTL DEF Spec

\* While a body is collected its bytes so far are in the list, all of them and no other,
\* wherever the stream is cut and whatever was refused or given up before, unless a read
\* went beyond the end of a message (http_handler.cc:44-52, 84-88).
THEOREM BodyAlwaysAccounted == Spec => []BodyAccounted
BY HandlerInvariant, PTL DEF IInv

-----------------------------------------------------------------------------
(* The stream of requests.                                                 *)

\* A request as it is sent.
Whole(r, id) == HeaderOf(r, id) \o BodyOf(r, id)

\* q is the requests behind the first m, one behind the other.
Laid(q, reqs, m) ==
  \E at \in [Nat -> Nat] :
    /\ \A i, j \in m + 1 .. Len(reqs) + 1 : i <= j => at[i] <= at[j]
    /\ Len(q) = at[Len(reqs) + 1] - at[m + 1]
    /\ \A j \in m + 1 .. Len(reqs) :
         /\ at[j + 1] = at[j] + Len(Whole(reqs[j], j))
         /\ \A i \in 1 .. Len(Whole(reqs[j], j)) :
              q[(at[j] - at[m + 1]) + i] = Whole(reqs[j], j)[i]

\* What a sequence of another and a third has in its places.
LEMMA Joined ==
  ASSUME NEW s \in Seq(Units), NEW t \in Seq(Units)
  PROVE  /\ s \o t \in Seq(Units) /\ Len(s \o t) = Len(s) + Len(t)
         /\ \A i \in 1 .. Len(s) : (s \o t)[i] = s[i]
         /\ \A i \in 1 .. Len(t) : (s \o t)[Len(s) + i] = t[i]
OBVIOUS

\* What is behind the first n units.
LEMMA Behind ==
  ASSUME NEW s \in Seq(Units), NEW n \in Nat, n <= Len(s)
  PROVE  /\ From(s, n + 1) \in Seq(Units) /\ Len(From(s, n + 1)) = Len(s) - n
         /\ \A i \in 1 .. Len(s) - n : From(s, n + 1)[i] = s[n + i]
BY DEF From

\* The parts of a request.
LEMMA WholeType ==
  ASSUME NEW r, r.kind \in {"GET", "POST", "bad"}, r.length \in Nat, NEW id \in Nat
  PROVE  /\ HeaderOf(r, id) \in Seq(Units) /\ BodyOf(r, id) \in Seq(Units)
         /\ Len(HeaderOf(r, id)) = IF r.kind = "GET" THEN 2 ELSE 3
         /\ Len(BodyOf(r, id)) = r.length
         /\ \A j \in 1 .. r.length : BodyOf(r, id)[j] = Unit("byte", id, j)
         /\ Whole(r, id) \in Seq(Units)
         /\ Len(Whole(r, id)) = Len(HeaderOf(r, id)) + r.length
         /\ \A i \in 1 .. Len(HeaderOf(r, id)) : Whole(r, id)[i] = HeaderOf(r, id)[i]
         /\ \A i \in 1 .. r.length : Whole(r, id)[Len(HeaderOf(r, id)) + i] = BodyOf(r, id)[i]
<1>1. \A kind \in {"line", "field", "crlf", "byte"}, n \in Nat : Unit(kind, id, n) \in Units
  BY DEF Unit, Units
<1>2. /\ HeaderOf(r, id) \in Seq(Units)
      /\ Len(HeaderOf(r, id)) = IF r.kind = "GET" THEN 2 ELSE 3
  <2>. DEFINE line == Unit("line", id, 0)
              field == Unit("field", id, r.length)
              crlf == Unit("crlf", id, 0)
              byte == Unit("byte", id, 0)
  <2>1. line \in Units /\ field \in Units /\ crlf \in Units /\ byte \in Units
    BY <1>1
  <2>2. /\ r.kind = "GET" => HeaderOf(r, id) = <<line, crlf>>
        /\ r.kind = "POST" => HeaderOf(r, id) = <<line, field, crlf>>
        /\ r.kind = "bad" => HeaderOf(r, id) = <<byte, crlf, crlf>>
    BY DEF HeaderOf
  <2>. HIDE DEF line, field, crlf, byte
  <2>3. /\ <<line, crlf>> \in Seq(Units) /\ Len(<<line, crlf>>) = 2
        /\ <<line, field, crlf>> \in Seq(Units) /\ Len(<<line, field, crlf>>) = 3
        /\ <<byte, crlf, crlf>> \in Seq(Units) /\ Len(<<byte, crlf, crlf>>) = 3
    BY ONLY <2>1
  <2>. QED
    BY ONLY <2>2, <2>3, r.kind \in {"GET", "POST", "bad"}
<1>3. /\ BodyOf(r, id) \in Seq(Units) /\ Len(BodyOf(r, id)) = r.length
      /\ \A j \in 1 .. r.length : BodyOf(r, id)[j] = Unit("byte", id, j)
  <2>1. BodyOf(r, id) \in [1 .. r.length -> Units]
    BY <1>1 DEF BodyOf
  <2>2. \A j \in 1 .. r.length : BodyOf(r, id)[j] = Unit("byte", id, j)
    BY DEF BodyOf
  <2>3. BodyOf(r, id) \in Seq(Units)
    BY ONLY <2>1, r.length \in Nat
  <2>4. Len(BodyOf(r, id)) = r.length
    BY ONLY <2>1, r.length \in Nat
  <2>. QED
    BY ONLY <2>2, <2>3, <2>4
<1>4. Whole(r, id) \in Seq(Units) /\ Len(Whole(r, id)) = Len(HeaderOf(r, id)) + r.length
      /\ (\A i \in 1 .. Len(HeaderOf(r, id)) : Whole(r, id)[i] = HeaderOf(r, id)[i])
      /\ \A i \in 1 .. r.length : Whole(r, id)[Len(HeaderOf(r, id)) + i] = BodyOf(r, id)[i]
  <2>. DEFINE h == HeaderOf(r, id)
              b == BodyOf(r, id)
  <2>1. /\ h \o b \in Seq(Units) /\ Len(h \o b) = Len(h) + Len(b)
        /\ \A i \in 1 .. Len(h) : (h \o b)[i] = h[i]
        /\ \A i \in 1 .. Len(b) : (h \o b)[Len(h) + i] = b[i]
    BY ONLY <1>2, <1>3, Joined
  <2>2. Whole(r, id) = h \o b /\ Len(b) = r.length
    BY <1>3 DEF Whole
  <2>. HIDE DEF h, b
  <2>. QED
    BY ONLY <2>1, <2>2 DEF h, b
<1>. QED
  BY <1>2, <1>3, <1>4

\* The header of a request that is not malformed.
LEMMA HeaderIs ==
  ASSUME NEW r, r.kind \in {"GET", "POST"}, r.length \in Nat, NEW id \in Nat
  PROVE  LET h == HeaderOf(r, id)
         IN  /\ h \in Seq(Units) /\ Len(h) = IF r.kind = "GET" THEN 2 ELSE 3
             /\ h[1].kind = "line" /\ h[1].req = id
             /\ h[Len(h)].kind = "crlf"
             /\ r.kind = "POST" => h[2].kind = "field" /\ h[2].n = r.length
<1>. DEFINE h == HeaderOf(r, id)
            line == Unit("line", id, 0)
            field == Unit("field", id, r.length)
            crlf == Unit("crlf", id, 0)
<1>1. line.kind = "line" /\ line.req = id /\ crlf.kind = "crlf" /\ field.kind = "field" /\ field.n = r.length
  BY DEF Unit
<1>2. h \in Seq(Units) /\ Len(h) = IF r.kind = "GET" THEN 2 ELSE 3
  BY WholeType
<1>3. (r.kind = "GET" => h = <<line, crlf>>) /\ (r.kind = "POST" => h = <<line, field, crlf>>)
  BY DEF HeaderOf
<1>. HIDE DEF h, line, field, crlf
<1>4. CASE r.kind = "GET"
  <2>1. h[1] = line /\ h[2] = crlf /\ Len(h) = 2
    BY ONLY <1>2, <1>3, <1>4
  <2>. QED
    BY ONLY <1>1, <1>2, <1>4, <2>1 DEF h
<1>5. CASE r.kind = "POST"
  <2>1. h[1] = line /\ h[2] = field /\ h[3] = crlf /\ Len(h) = 3
    BY ONLY <1>2, <1>3, <1>5
  <2>. QED
    BY ONLY <1>1, <1>2, <1>5, <2>1 DEF h
<1>. QED
  BY ONLY <1>4, <1>5, r.kind \in {"GET", "POST"}

\* A request more is laid behind the others.
LEMMA LaidMore ==
  ASSUME NEW q \in Seq(Units), NEW R, NEW reqs \in Seq(R), NEW a \in R, NEW m \in Nat,
         m <= Len(reqs), Laid(q, reqs, m), Whole(a, Len(reqs) + 1) \in Seq(Units),
         \A j \in 1 .. Len(reqs) : Whole(reqs[j], j) \in Seq(Units)
  PROVE  Laid(q \o Whole(a, Len(reqs) + 1), Append(reqs, a), m)
<1>. DEFINE n == Len(reqs)
            w == Whole(a, n + 1)
            longer == Append(reqs, a)
            all == q \o w
<1>1. n \in Nat /\ m \in Nat /\ m <= n
  OBVIOUS
<1>2. /\ n \in Nat /\ Len(longer) = n + 1 /\ longer[n + 1] = a /\ \A j \in 1 .. n : longer[j] = reqs[j]
      /\ m \in Nat /\ m <= n
  OBVIOUS
<1>3. /\ Len(all) = Len(q) + Len(w)
      /\ \A i \in 1 .. Len(q) : all[i] = q[i]
      /\ \A i \in 1 .. Len(w) : all[Len(q) + i] = w[i]
  BY Joined
<1>4. Len(w) \in Nat /\ Len(q) \in Nat
  OBVIOUS
<1>5. \A j \in 1 .. n : Len(Whole(reqs[j], j)) \in Nat
  OBVIOUS
<1>6. Laid(q, reqs, m)
  OBVIOUS
<1>. HIDE DEF w, longer, all, n
<1>7. PICK at \in [Nat -> Nat] :
        /\ \A i, j \in m + 1 .. n + 1 : i <= j => at[i] <= at[j]
        /\ Len(q) = at[n + 1] - at[m + 1]
        /\ \A j \in m + 1 .. n :
             /\ at[j + 1] = at[j] + Len(Whole(reqs[j], j))
             /\ \A i \in 1 .. Len(Whole(reqs[j], j)) :
                  q[(at[j] - at[m + 1]) + i] = Whole(reqs[j], j)[i]
  BY ONLY <1>6 DEF Laid, n
<1>8. /\ \A j \in 1 .. n : Len(Whole(reqs[j], j)) \in Nat
      /\ \A j \in Nat : at[j] \in Nat
      /\ \A j \in 1 .. n + 2 : j \in Nat
  BY ONLY <1>1, <1>5, SMTT(20), at \in [Nat -> Nat]
<1>9. PICK lw \in Nat, lq \in Nat : lw = Len(w) /\ lq = Len(q)
  BY ONLY <1>4
<1>10. PICK first \in Nat, end \in Nat : first = at[m + 1] /\ end = at[n + 1]
  <2>1. m + 1 \in Nat /\ n + 1 \in Nat
    BY ONLY <1>1
  <2>. QED
    BY ONLY <1>8, <2>1
<1>11. lq = end - first
  BY ONLY <1>7, <1>9, <1>10
<1>. DEFINE to == [j \in Nat |-> IF j = n + 2 THEN end + lw ELSE at[j]]
<1>12. to \in [Nat -> Nat] /\ to[n + 2] = end + lw
      /\ \A j \in 1 .. n + 1 : to[j] = at[j] /\ at[j] \in Nat
  <2>1. \A j \in Nat : to[j] = IF j = n + 2 THEN end + lw ELSE at[j]
    BY DEF to
  <2>2. end + lw \in Nat
    BY ONLY lw \in Nat, end \in Nat
  <2>3. to \in [Nat -> Nat]
    BY <2>2
  <2>4. n + 2 \in Nat /\ \A j \in 1 .. n + 1 : j \in Nat /\ j # n + 2
    BY ONLY <1>1
  <2>. HIDE DEF to
  <2>. QED
    BY ONLY <1>8, <2>1, <2>3, <2>4
<1>. HIDE DEF to
<1>13. m + 1 \in 1 .. n + 1 /\ n + 1 \in 1 .. n + 1 /\ (n + 1) + 1 = n + 2
      /\ n + 1 \in m + 1 .. n + 1 /\ m + 1 \in m + 1 .. n + 1
  BY ONLY <1>1
<1>14. to[m + 1] = first /\ to[n + 1] = end
  BY ONLY <1>12, <1>13, <1>10
<1>15. \A i, j \in m + 1 .. n + 2 : i <= j => to[i] <= to[j]
  <2>. SUFFICES ASSUME NEW i \in m + 1 .. n + 2, NEW j \in m + 1 .. n + 2, i <= j
                PROVE  to[i] <= to[j]
    OBVIOUS
  <2>1. ASSUME NEW k \in m + 1 .. n + 1
        PROVE  k \in 1 .. n + 1 /\ k <= n + 1
    BY ONLY <1>1
  <2>2. CASE i \in m + 1 .. n + 1 /\ j \in m + 1 .. n + 1
    <3>1. to[i] = at[i] /\ to[j] = at[j]
      BY ONLY <1>12, <2>1, <2>2
    <3>. QED
      BY ONLY <1>7, <2>2, <3>1, i <= j
  <2>3. CASE i \in m + 1 .. n + 1 /\ j = n + 2
    <3>1. to[i] = at[i] /\ at[i] \in Nat
      BY ONLY <1>12, <2>1, <2>3
    <3>2. at[i] <= end
      BY ONLY <1>7, <1>13, <1>10, <2>1, <2>3
    <3>3. to[j] = end + lw
      BY ONLY <1>12, <2>3
    <3>4. \A x, y, z \in Nat : x <= y => x <= y + z
      OBVIOUS
    <3>5. at[i] <= end + lw
      BY ONLY <3>1, <3>2, <3>4, end \in Nat, lw \in Nat
    <3>. QED
      BY ONLY <3>1, <3>3, <3>5
  <2>4. CASE i = n + 2 /\ j = n + 2
    <3>1. to[n + 2] \in Nat
      BY ONLY <1>12, end \in Nat, lw \in Nat
    <3>2. \A x \in Nat : x <= x
      OBVIOUS
    <3>. QED
      BY ONLY <2>4, <3>1, <3>2
  <2>5. \/ i \in m + 1 .. n + 1 /\ j \in m + 1 .. n + 1
        \/ i \in m + 1 .. n + 1 /\ j = n + 2
        \/ i = n + 2 /\ j = n + 2
    BY ONLY <1>1, i \in m + 1 .. n + 2, j \in m + 1 .. n + 2, i <= j
  <2>. QED
    BY ONLY <2>2, <2>3, <2>4, <2>5
<1>16. Len(all) = to[n + 2] - to[m + 1]
  <2>1. \A x, y, z \in Nat : (y - x) + z = (y + z) - x
    OBVIOUS
  <2>2. (end - first) + lw = (end + lw) - first
    BY ONLY <2>1, end \in Nat, lw \in Nat, first \in Nat
  <2>. QED
    BY ONLY <1>3, <1>12, <1>9, <1>11, <1>14, <2>2
<1>17. ASSUME NEW j \in m + 1 .. n + 1
       PROVE  /\ to[j + 1] = to[j] + Len(Whole(longer[j], j))
              /\ \A i \in 1 .. Len(Whole(longer[j], j)) :
                   all[(to[j] - to[m + 1]) + i] = Whole(longer[j], j)[i]
  <2>1. CASE j = n + 1
    <3>1. to[j] = end /\ to[j + 1] = end + lw
      BY ONLY <1>12, <1>13, <1>14, <2>1
    <3>2. Whole(longer[j], j) = w
      BY ONLY <1>2, <2>1 DEF w
    <3>3. to[j] - to[m + 1] = lq
      BY ONLY <1>11, <1>14, <3>1
    <3>. QED
      BY ONLY <1>3, <1>9, <3>1, <3>2, <3>3
  <2>2. CASE j # n + 1
    <3>1. j \in m + 1 .. n /\ j \in 1 .. n /\ j + 1 \in m + 1 .. n + 1 /\ j \in 1 .. n + 1
          /\ j + 1 \in 1 .. n + 1 /\ m + 1 <= j /\ j + 1 <= n + 1
      BY ONLY <1>1, <2>2, j \in m + 1 .. n + 1
    <3>2. to[j] = at[j] /\ to[j + 1] = at[j + 1] /\ longer[j] = reqs[j]
      BY ONLY <1>2, <1>12, <3>1
    <3>3. to[j + 1] = to[j] + Len(Whole(longer[j], j))
      BY ONLY <1>7, <3>1, <3>2
    <3>4. ASSUME NEW i \in 1 .. Len(Whole(longer[j], j))
          PROVE  all[(to[j] - to[m + 1]) + i] = Whole(longer[j], j)[i]
      <4>. DEFINE p == (at[j] - at[m + 1]) + i
      <4>1. q[p] = Whole(longer[j], j)[i]
        BY ONLY <1>7, <3>1, <3>2, i \in 1 .. Len(Whole(longer[j], j))
      <4>2. at[j + 1] <= end /\ first <= at[j]
        BY ONLY <1>7, <1>13, <1>10, <3>1, j \in m + 1 .. n + 1
      <4>3. at[j] \in Nat /\ at[j + 1] \in Nat /\ Len(Whole(longer[j], j)) \in Nat
        BY ONLY <1>8, <1>12, <3>1, <3>2
      <4>4. p \in 1 .. lq
        <5>1. \A x, y, z, e, l \in Nat : \A k \in 1 .. l :
                z <= x /\ y = x + l /\ y <= e => (x - z) + k \in 1 .. e - z
          OBVIOUS
        <5>2. at[j + 1] = at[j] + Len(Whole(longer[j], j))
          BY ONLY <3>2, <3>3
        <5>3. (at[j] - first) + i \in 1 .. end - first
          BY ONLY <4>2, <4>3, <5>1, <5>2, i \in 1 .. Len(Whole(longer[j], j)), first \in Nat, end \in Nat
        <5>. QED
          BY ONLY <1>10, <1>11, <5>3
      <4>5. (to[j] - to[m + 1]) + i = p
        BY ONLY <1>10, <1>14, <3>2
      <4>. HIDE DEF p
      <4>. QED
        BY ONLY <1>3, <1>9, <4>1, <4>4, <4>5
    <3>. QED
      BY <3>3, <3>4
  <2>. QED
    BY <2>1, <2>2
<1>18. Laid(all, longer, m)
  <2>1. Len(longer) + 1 = n + 2 /\ Len(longer) = n + 1
    BY ONLY <1>2, <1>13
  <2>. QED
    BY ONLY <1>12, <1>15, <1>16, <1>17, <2>1, ZenonT(40) DEF Laid
<1>. QED
  BY ONLY <1>18 DEF all, longer, w, n

\* The first of the requests, and the others behind it.
LEMMA LaidFirst ==
  ASSUME NEW q \in Seq(Units), NEW R, NEW reqs \in Seq(R), NEW m \in Nat,
         m < Len(reqs), Laid(q, reqs, m),
         \A j \in 1 .. Len(reqs) : Whole(reqs[j], j) \in Seq(Units)
  PROVE  /\ Len(Whole(reqs[m + 1], m + 1)) <= Len(q)
         /\ \A i \in 1 .. Len(Whole(reqs[m + 1], m + 1)) : q[i] = Whole(reqs[m + 1], m + 1)[i]
         /\ Laid(From(q, Len(Whole(reqs[m + 1], m + 1)) + 1), reqs, m + 1)
<1>. DEFINE n == Len(reqs)
            w == Whole(reqs[m + 1], m + 1)
            rest == From(q, Len(w) + 1)
<1>1. n \in Nat /\ m \in Nat /\ m < n
  OBVIOUS
<1>2. /\ \A j \in 1 .. n : Len(Whole(reqs[j], j)) \in Nat
      /\ m + 1 \in 1 .. n
  OBVIOUS
<1>3. Laid(q, reqs, m)
  OBVIOUS
<1>4. PICK at \in [Nat -> Nat] :
        /\ \A i, j \in m + 1 .. n + 1 : i <= j => at[i] <= at[j]
        /\ Len(q) = at[n + 1] - at[m + 1]
        /\ \A j \in m + 1 .. n :
             /\ at[j + 1] = at[j] + Len(Whole(reqs[j], j))
             /\ \A i \in 1 .. Len(Whole(reqs[j], j)) :
                  q[(at[j] - at[m + 1]) + i] = Whole(reqs[j], j)[i]
  BY <1>3 DEF Laid
<1>5. \A j \in Nat : at[j] \in Nat
  OBVIOUS
<1>6. PICK lw \in Nat, lq \in Nat : lw = Len(w) /\ lq = Len(q)
  BY <1>2
<1>. HIDE DEF n, w, rest
<1>7. /\ m + 1 \in Nat /\ n + 1 \in Nat /\ (m + 1) + 1 \in Nat /\ m + 1 \in m + 1 .. n
      /\ (m + 1) + 1 \in m + 1 .. n + 1 /\ n + 1 \in m + 1 .. n + 1 /\ (m + 1) + 1 <= n + 1
      /\ \A j \in (m + 1) + 1 .. n + 1 : j \in m + 1 .. n + 1 /\ (m + 1) + 1 <= j
      /\ \A j \in (m + 1) + 1 .. n : /\ j \in m + 1 .. n /\ j \in 1 .. n /\ j \in m + 1 .. n + 1
                                     /\ j \in Nat /\ j + 1 \in Nat
                                     /\ j + 1 \in m + 1 .. n + 1 /\ j + 1 <= n + 1
                                     /\ j \in (m + 1) + 1 .. n + 1
  BY ONLY <1>1
<1>8. PICK first \in Nat, second \in Nat, end \in Nat :
        first = at[m + 1] /\ second = at[(m + 1) + 1] /\ end = at[n + 1]
  BY ONLY <1>5, <1>7
<1>9. lq = end - first /\ second = first + lw /\ second <= end
  BY ONLY <1>4, <1>6, <1>7, <1>8 DEF w
<1>10. lw <= lq /\ lq - lw = end - second
  BY ONLY <1>9, lw \in Nat, lq \in Nat, first \in Nat, second \in Nat, end \in Nat
<1>11. \A i \in 1 .. lw : q[i] = w[i]
  <2>. SUFFICES ASSUME NEW i \in 1 .. lw
                PROVE  q[i] = w[i]
    OBVIOUS
  <2>1. q[(first - first) + i] = w[i]
    BY ONLY <1>4, <1>6, <1>7, <1>8, i \in 1 .. lw DEF w
  <2>2. (first - first) + i = i
    BY ONLY first \in Nat, lw \in Nat, i \in 1 .. lw
  <2>. QED
    BY ONLY <2>1, <2>2
<1>12. /\ Len(rest) = lq - lw
       /\ \A i \in 1 .. lq - lw : rest[i] = q[lw + i]
  BY <1>6, <1>10, Behind DEF rest
<1>13. ASSUME NEW j \in (m + 1) + 1 .. n
       PROVE  /\ at[j + 1] = at[j] + Len(Whole(reqs[j], j))
              /\ \A i \in 1 .. Len(Whole(reqs[j], j)) :
                   rest[(at[j] - at[(m + 1) + 1]) + i] = Whole(reqs[j], j)[i]
  <2>1. at[j + 1] = at[j] + Len(Whole(reqs[j], j))
    BY ONLY <1>4, <1>7, j \in (m + 1) + 1 .. n
  <2>2. /\ at[j] \in Nat /\ at[j + 1] \in Nat /\ Len(Whole(reqs[j], j)) \in Nat
    BY ONLY <1>2, <1>5, <1>7, j \in (m + 1) + 1 .. n
  <2>3. second <= at[j] /\ at[j + 1] <= end
    BY ONLY <1>4, <1>7, <1>8, j \in (m + 1) + 1 .. n
  <2>4. ASSUME NEW i \in 1 .. Len(Whole(reqs[j], j))
        PROVE  rest[(at[j] - at[(m + 1) + 1]) + i] = Whole(reqs[j], j)[i]
    <3>. DEFINE p == (at[j] - second) + i
    <3>1. p \in 1 .. lq - lw
      <4>1. \A x, y, z, e, l \in Nat : \A k \in 1 .. l :
              z <= x /\ y = x + l /\ y <= e => (x - z) + k \in 1 .. e - z
        OBVIOUS
      <4>2. (at[j] - second) + i \in 1 .. end - second
        BY ONLY <2>1, <2>2, <2>3, <4>1, i \in 1 .. Len(Whole(reqs[j], j)), second \in Nat, end \in Nat
      <4>. QED
        BY ONLY <1>10, <4>2
    <3>2. lw + p = (at[j] - first) + i
      <4>1. PICK x \in Nat, k \in Int : x = at[j] /\ k = i
        BY ONLY <2>2, i \in 1 .. Len(Whole(reqs[j], j))
      <4>2. second = first + lw
        BY ONLY <1>9
      <4>3. lw + ((x - second) + k) = (x - first) + k
        BY ONLY <4>2, x \in Nat, k \in Int, first \in Nat, second \in Nat, lw \in Nat
      <4>. QED
        BY ONLY <4>1, <4>3
    <3>3. q[(at[j] - first) + i] = Whole(reqs[j], j)[i]
      BY ONLY <1>4, <1>7, <1>8, j \in (m + 1) + 1 .. n, i \in 1 .. Len(Whole(reqs[j], j))
    <3>4. (at[j] - at[(m + 1) + 1]) + i = p
      BY ONLY <1>8
    <3>. HIDE DEF p
    <3>. QED
      BY ONLY <1>12, <3>1, <3>2, <3>3, <3>4
  <2>. QED
    BY ONLY <2>1, <2>4
<1>14. Laid(rest, reqs, m + 1)
  <2>1. Len(rest) = at[n + 1] - at[(m + 1) + 1]
    BY ONLY <1>8, <1>10, <1>12
  <2>2. \A i, j \in (m + 1) + 1 .. n + 1 : i <= j => at[i] <= at[j]
    BY ONLY <1>4, <1>7
  <2>. QED
    BY ONLY <1>13, <2>1, <2>2, at \in [Nat -> Nat] DEF Laid, n
<1>. QED
  BY ONLY <1>6, <1>10, <1>11, <1>14 DEF w, rest

\* Behind the last request there is nothing, and only there.
LEMMA LaidNone ==
  ASSUME NEW R, NEW reqs \in Seq(R), NEW q \in Seq(Units)
  PROVE  /\ Laid(q, reqs, Len(reqs)) => q = <<>>
         /\ \A m \in Nat : /\ m < Len(reqs) /\ Laid(q, reqs, m)
                           /\ \A j \in 1 .. Len(reqs) : /\ Whole(reqs[j], j) \in Seq(Units)
                                                        /\ Len(Whole(reqs[j], j)) > 0
                           => q # <<>>
<1>1. ASSUME Laid(q, reqs, Len(reqs))
      PROVE  q = <<>>
  <2>1. PICK at \in [Nat -> Nat] : Len(q) = at[Len(reqs) + 1] - at[Len(reqs) + 1]
    BY <1>1 DEF Laid
  <2>2. at[Len(reqs) + 1] \in Nat
    OBVIOUS
  <2>3. Len(q) = 0
    BY ONLY <2>1, <2>2
  <2>. QED
    BY <2>3
<1>2. ASSUME NEW m \in Nat, m < Len(reqs), Laid(q, reqs, m),
             \A j \in 1 .. Len(reqs) : Whole(reqs[j], j) \in Seq(Units) /\ Len(Whole(reqs[j], j)) > 0
      PROVE  q # <<>>
  <2>1. Len(Whole(reqs[m + 1], m + 1)) <= Len(q)
    BY <1>2, LaidFirst
  <2>2. m + 1 \in 1 .. Len(reqs)
    BY <1>2
  <2>3. Len(Whole(reqs[m + 1], m + 1)) > 0 /\ Len(Whole(reqs[m + 1], m + 1)) \in Nat
    BY <1>2, <2>2
  <2>4. Len(q) \in Nat /\ Len(q) # 0
    <3>1. Len(q) \in Nat
      OBVIOUS
    <3>. QED
      BY ONLY <2>1, <2>3, <3>1
  <2>. QED
    BY <2>4
<1>. QED
  BY <1>1, <1>2

-----------------------------------------------------------------------------
(* The scanner and the parser over a header.                               *)

\* The automaton goes from unit to unit.
LEMMA ScanIs ==
  ASSUME NEW s, NEW seg \in Seq(Units)
  PROVE  /\ Scan(s, seg)[0] = s
         /\ \A k \in 1 .. Len(seg) : Scan(s, seg)[k] = ScanUnit(Scan(s, seg)[k - 1], seg[k])
<1>. DEFINE n == Len(seg)
            Is(g, m) == g = [k \in 0 .. m |-> IF k = 0 THEN s ELSE ScanUnit(g[k - 1], seg[k])]
            T == {m \in Nat : ~\E g : Is(g, m)}
<1>1. ASSUME T # {}
      PROVE  FALSE
  <2>1. PICK m \in T : \A k \in T : m <= k
    <3>1. T \in SUBSET Nat
      OBVIOUS
    <3>. HIDE DEF T
    <3>. QED
      BY ONLY <1>1, <3>1, MinOfNats
  <2>2. m # 0
    <3>1. Is([k \in 0 .. 0 |-> s], 0)
      OBVIOUS
    <3>. HIDE DEF Is
    <3>. QED
      BY <3>1
  <2>3. m \in Nat /\ m - 1 \in Nat /\ m - 1 \notin T
    <3>1. m \in Nat
      OBVIOUS
    <3>2. m - 1 \in Nat /\ ~(m <= m - 1)
      BY ONLY <2>2, <3>1
    <3>. HIDE DEF T
    <3>. QED
      BY ONLY <2>1, <3>1, <3>2
  <2>4. PICK g : Is(g, m - 1)
    BY <2>3
  <2>. DEFINE h == [k \in 0 .. m |-> IF k = m THEN ScanUnit(g[m - 1], seg[m]) ELSE g[k]]
  <2>5. ASSUME NEW k \in 0 .. m
        PROVE  h[k] = IF k = 0 THEN s ELSE ScanUnit(h[k - 1], seg[k])
    <3>1. CASE k = 0
      BY <2>2, <2>3, <2>4, <3>1
    <3>2. CASE k = m
      BY <2>2, <2>3, <3>2
    <3>3. CASE k # 0 /\ k # m
      <4>1. k \in 0 .. m - 1 /\ k - 1 \in 0 .. m - 1 /\ k - 1 \in 0 .. m /\ k - 1 # m
        BY ONLY <2>3, <3>3, k \in 0 .. m
      <4>2. g[k] = ScanUnit(g[k - 1], seg[k])
        BY <2>4, <3>3, <4>1
      <4>. QED
        BY <3>3, <4>1, <4>2
    <3>. QED
      BY <3>1, <3>2, <3>3
  <2>6. h = [k \in 0 .. m |-> h[k]]
    OBVIOUS
  <2>7. Is(h, m)
    <3>. HIDE DEF h
    <3>. QED
      BY <2>5, <2>6
  <2>. HIDE DEF Is, h
  <2>. QED
    BY <2>1, <2>7
<1>2. \E g : Is(g, n)
  <2>1. n \in Nat
    OBVIOUS
  <2>. QED
    BY <1>1, <2>1
<1>3. Is(Scan(s, seg), n)
  <2>1. Scan(s, seg) = CHOOSE g : Is(g, n)
    BY DEF Scan
  <2>. HIDE DEF Is
  <2>. QED
    BY ONLY <1>2, <2>1
<1>4. 0 \in 0 .. n /\ \A k \in 1 .. n : k \in 0 .. n /\ k # 0
  OBVIOUS
<1>. HIDE DEF n
<1>. QED
  BY <1>3, <1>4 DEF n

\* What the automaton says of the units of a header it has seen b units of.
LEMMA ScanHeader ==
  ASSUME NEW r, r.kind \in {"GET", "POST"}, r.length \in Nat, NEW id \in Nat,
         NEW b \in Nat, b < Len(HeaderOf(r, id)),
         NEW s, s \in IF b = 0 THEN {"START", "FOUND"} ELSE {"CRLF"},
         NEW seg \in Seq(Units),
         \A i \in 1 .. Len(seg) : b + i <= Len(HeaderOf(r, id)) => seg[i] = HeaderOf(r, id)[b + i]
  PROVE  \A k \in 1 .. Len(seg) :
           /\ b + k < Len(HeaderOf(r, id)) => Scan(s, seg)[k] = "CRLF"
           /\ b + k = Len(HeaderOf(r, id)) => Scan(s, seg)[k] = "FOUND"
<1>. DEFINE h == HeaderOf(r, id)
            n == Len(h)
            at(k) == Scan(s, seg)[k]
<1>1. n \in {2, 3} /\ n \in Nat
  BY WholeType
<1>2. /\ h[1].kind = "line" /\ h[n].kind = "crlf" /\ (n = 3 => h[2].kind = "field")
  <2>1. /\ n = IF r.kind = "GET" THEN 2 ELSE 3
        /\ h[1].kind = "line" /\ h[n].kind = "crlf" /\ (r.kind = "POST" => h[2].kind = "field")
    BY HeaderIs
  <2>. HIDE DEF h, n
  <2>. QED
    BY ONLY <2>1, r.kind \in {"GET", "POST"}
<1>3. /\ \A x : ScanUnit(x, h[1]) = "CRLF" /\ (n = 3 => ScanUnit(x, h[2]) = "CRLF")
      /\ ScanUnit("CRLF", h[n]) = "FOUND"
  BY ONLY <1>2 DEF ScanUnit
<1>4. at(0) = s /\ \A k \in 1 .. Len(seg) : at(k) = ScanUnit(at(k - 1), seg[k])
  BY ScanIs
<1>5. \A i \in 1 .. Len(seg) : b + i <= n => seg[i] = h[b + i]
  OBVIOUS
<1>6. Len(seg) \in Nat /\ b \in Nat /\ b < n
  OBVIOUS
<1>7. s \in IF b = 0 THEN {"START", "FOUND"} ELSE {"CRLF"}
  OBVIOUS
<1>. HIDE DEF h, n, at
<1>8. ASSUME NEW k \in 1 .. Len(seg), b + k <= n,
             b + k > 1 => at(k - 1) = "CRLF"
      PROVE  at(k) = IF b + k < n THEN "CRLF" ELSE "FOUND"
  <2>1. at(k) = ScanUnit(at(k - 1), h[b + k])
    BY ONLY <1>4, <1>5, <1>8
  <2>2. b + k \in 1 .. n
    BY ONLY <1>6, <1>8
  <2>3. CASE b + k = n
    <3>1. b + k > 1
      BY ONLY <1>1, <2>3
    <3>. QED
      BY ONLY <1>1, <1>3, <1>8, <2>1, <2>3, <3>1
  <2>4. CASE b + k # n
    <3>1. b + k < n /\ (b + k = 1 \/ (b + k = 2 /\ n = 3))
      BY ONLY <1>1, <2>2, <2>4
    <3>. QED
      BY ONLY <1>3, <2>1, <3>1
  <2>. QED
    BY <2>3, <2>4
<1>9. b # 0 => at(0) = "CRLF"
  BY ONLY <1>4, <1>7
<1>10. 1 \in 1 .. Len(seg) /\ b + 1 <= n => at(1) = IF b + 1 < n THEN "CRLF" ELSE "FOUND"
  BY ONLY <1>6, <1>8, <1>9
<1>11. 2 \in 1 .. Len(seg) /\ b + 2 <= n => at(2) = IF b + 2 < n THEN "CRLF" ELSE "FOUND"
  <2>. SUFFICES ASSUME 2 \in 1 .. Len(seg), b + 2 <= n
                PROVE  at(2) = IF b + 2 < n THEN "CRLF" ELSE "FOUND"
    OBVIOUS
  <2>1. 1 \in 1 .. Len(seg) /\ b + 1 < n /\ b + 1 <= n /\ 2 - 1 = 1
    BY ONLY <1>1, <1>6, 2 \in 1 .. Len(seg), b + 2 <= n
  <2>2. at(2 - 1) = "CRLF"
    BY ONLY <1>10, <2>1
  <2>. QED
    BY ONLY <1>8, <2>2, 2 \in 1 .. Len(seg), b + 2 <= n
<1>12. 3 \in 1 .. Len(seg) /\ b + 3 <= n => at(3) = IF b + 3 < n THEN "CRLF" ELSE "FOUND"
  <2>. SUFFICES ASSUME 3 \in 1 .. Len(seg), b + 3 <= n
                PROVE  at(3) = IF b + 3 < n THEN "CRLF" ELSE "FOUND"
    OBVIOUS
  <2>1. 2 \in 1 .. Len(seg) /\ b + 2 < n /\ b + 2 <= n /\ 3 - 1 = 2
    BY ONLY <1>1, <1>6, 3 \in 1 .. Len(seg), b + 3 <= n
  <2>2. at(3 - 1) = "CRLF"
    BY ONLY <1>11, <2>1
  <2>. QED
    BY ONLY <1>8, <2>2, 3 \in 1 .. Len(seg), b + 3 <= n
<1>13. ASSUME NEW k \in 1 .. Len(seg), b + k <= n
       PROVE  at(k) = IF b + k < n THEN "CRLF" ELSE "FOUND"
  <2>1. k \in {1, 2, 3}
    BY ONLY <1>1, <1>6, <1>13
  <2>. QED
    BY ONLY <1>10, <1>11, <1>12, <1>13, <2>1
<1>14. ASSUME NEW k \in 1 .. Len(seg)
       PROVE  (b + k < n => at(k) = "CRLF") /\ (b + k = n => at(k) = "FOUND")
  <2>1. (b + k < n => b + k <= n) /\ (b + k = n => b + k <= n /\ ~(b + k < n))
    BY ONLY <1>1, <1>6, k \in 1 .. Len(seg)
  <2>. QED
    BY ONLY <1>13, <2>1, k \in 1 .. Len(seg)
<1>. QED
  BY ONLY <1>14 DEF h, n, at

\* Where the automaton finds the end of such a header.
LEMMA EndsAt ==
  ASSUME NEW r, r.kind \in {"GET", "POST"}, r.length \in Nat, NEW id \in Nat,
         NEW b \in Nat, b < Len(HeaderOf(r, id)),
         NEW s, s \in IF b = 0 THEN {"START", "FOUND"} ELSE {"CRLF"},
         NEW seg \in Seq(Units), Len(seg) > 0,
         \A i \in 1 .. Len(seg) : b + i <= Len(HeaderOf(r, id)) => seg[i] = HeaderOf(r, id)[b + i]
  PROVE  /\ Ends(s, seg) = {} => b + Len(seg) < Len(HeaderOf(r, id))
                                 /\ Scan(s, seg)[Len(seg)] = "CRLF"
         /\ Ends(s, seg) # {} => /\ Min(Ends(s, seg)) \in 1 .. Len(seg)
                                 /\ b + Min(Ends(s, seg)) = Len(HeaderOf(r, id))
<1>. DEFINE n == Len(HeaderOf(r, id))
            E == Ends(s, seg)
            m == Len(seg)
<1>1. \A k \in 1 .. m : (b + k < n => Scan(s, seg)[k] = "CRLF") /\ (b + k = n => Scan(s, seg)[k] = "FOUND")
  BY ScanHeader
<1>2. n \in Nat /\ m \in Nat /\ m > 0 /\ b \in Nat /\ b < n
  BY WholeType
<1>3. E \in SUBSET Nat /\ \A k : k \in E <=> k \in 1 .. m /\ Scan(s, seg)[k] = "FOUND"
  BY DEF Ends
<1>. HIDE DEF n, E, m
<1>4. ASSUME b + m < n
      PROVE  E = {} /\ Scan(s, seg)[m] = "CRLF"
  <2>1. \A k \in 1 .. m : b + k < n
    BY ONLY <1>2, <1>4
  <2>2. m \in 1 .. m
    BY ONLY <1>2
  <2>3. \A k \in 1 .. m : Scan(s, seg)[k] = "CRLF"
    BY ONLY <1>1, <2>1
  <2>. QED
    BY ONLY <1>3, <2>2, <2>3
<1>5. ASSUME ~(b + m < n)
      PROVE  E # {} /\ Min(E) \in 1 .. m /\ b + Min(E) = n
  <2>1. n - b \in 1 .. m /\ b + (n - b) = n
    BY ONLY <1>2, <1>5
  <2>2. n - b \in E
    BY ONLY <1>1, <1>3, <2>1
  <2>3. Min(E) \in E /\ \A k \in E : Min(E) <= k
    <3>1. E # {}
      BY ONLY <2>2
    <3>. QED
      BY ONLY <1>3, <3>1, MinOfNats
  <2>4. Min(E) \in 1 .. m /\ Min(E) <= n - b
    BY ONLY <1>3, <2>2, <2>3
  <2>5. ~(b + Min(E) < n)
    BY ONLY <1>1, <1>3, <2>3
  <2>6. b + Min(E) = n
    BY ONLY <1>2, <2>4, <2>5
  <2>. QED
    BY ONLY <2>2, <2>4, <2>6
<1>. QED
  BY ONLY <1>4, <1>5 DEF n, E, m

\* The parser accepts such a header, and leaves nothing of it.
LEMMA ParsesHeader ==
  ASSUME NEW r, r.kind \in {"GET", "POST"}, r.length \in Nat, NEW id \in Nat,
         NEW o \in Parse(<<>>, HeaderOf(r, id))
  PROVE  o.accepts /\ o.reads = HeaderOf(r, id) /\ o.lex = <<>>
<1>. DEFINE h == HeaderOf(r, id)
            n == Len(h)
<1>1. n \in {2, 3} /\ h \in Seq(Units) /\ n = Len(h)
  BY WholeType
<1>2. h[1].kind = "line" /\ h[n].kind = "crlf" /\ (n = 3 => h[2].kind = "field")
  <2>1. /\ n = IF r.kind = "GET" THEN 2 ELSE 3
        /\ h[1].kind = "line" /\ h[n].kind = "crlf" /\ (r.kind = "POST" => h[2].kind = "field")
    BY HeaderIs
  <2>. HIDE DEF h, n
  <2>. QED
    BY ONLY <2>1, r.kind \in {"GET", "POST"}
<1>3. o \in Parse(<<>>, h)
  OBVIOUS
<1>. HIDE DEF h, n
<1>4. Decisive(<<>>) = {} /\ <<>> \o h = h
  BY ONLY <1>1 DEF Decisive
<1>5. Decisive(h) = {n}
  <2>1. \A k \in 1 .. n : h[k].kind # (IF k = 1 THEN "line" ELSE "field") <=> k = n
    BY ONLY <1>1, <1>2
  <2>2. n \in 1 .. n
    BY ONLY <1>1
  <2>3. Decisive(h) = {k \in 1 .. n : h[k].kind # IF k = 1 THEN "line" ELSE "field"}
    BY ONLY <1>1 DEF Decisive
  <2>. QED
    BY ONLY <2>1, <2>2, <2>3
<1>6. Min({n}) = n
  <2>1. {n} \in SUBSET Nat /\ {n} # {}
    BY ONLY <1>1
  <2>. QED
    BY ONLY <2>1, MinOfNats
<1>7. n > 1 /\ h[n].kind = "crlf" /\ {n} # {}
  BY ONLY <1>1, <1>2
<1>8. o = [accepts |-> TRUE, reads |-> SubSeq(h, 1, n), lex |-> Unconsumed(h, n)]
  BY ONLY <1>3, <1>4, <1>5, <1>6, <1>7 DEF Parse
<1>9. SubSeq(h, 1, n) = h
  BY ONLY <1>1
<1>10. Unconsumed(h, n) = <<>>
  BY ONLY <1>1 DEF Unconsumed, From
<1>. QED
  BY ONLY <1>8, <1>9, <1>10 DEF h

\* What the request line and the fields of such a header come to.
LEMMA SetsRequest ==
  ASSUME NEW r, r.kind \in {"GET", "POST"}, r.length \in Nat, NEW id \in Nat
  PROVE  /\ SetRequest(HeaderOf(r, id)).line = id
         /\ SetRequest(HeaderOf(r, id)).length =
              IF request.length >= 0 \/ r.kind = "GET" THEN request.length ELSE r.length
<1>. DEFINE h == HeaderOf(r, id)
            fields == {k \in DOMAIN h : h[k].kind = "field"}
<1>1. /\ h[1].req = id
      /\ r.kind = "GET" => fields = {}
      /\ r.kind = "POST" => fields = {2} /\ h[2].n = r.length
  <2>1. h \in Seq(Units) /\ DOMAIN h = 1 .. Len(h)
    BY HeaderIs
  <2>2. CASE r.kind = "GET"
    <3>1. Len(h) = 2 /\ h[1].kind = "line" /\ h[2].kind = "crlf" /\ h[1].req = id
      BY <2>2, HeaderIs
    <3>2. DOMAIN h = {1, 2}
      BY <2>1, <3>1
    <3>. HIDE DEF h
    <3>. QED
      BY ONLY <2>2, <3>1, <3>2
  <2>3. CASE r.kind = "POST"
    <3>1. Len(h) = 3 /\ h[1].kind = "line" /\ h[2].kind = "field" /\ h[3].kind = "crlf"
          /\ h[1].req = id /\ h[2].n = r.length
      BY <2>3, HeaderIs
    <3>2. DOMAIN h = {1, 2, 3}
      BY <2>1, <3>1
    <3>. HIDE DEF h
    <3>. QED
      BY ONLY <2>3, <3>1, <3>2
  <2>. QED
    BY ONLY <2>2, <2>3, r.kind \in {"GET", "POST"}
<1>2. Min({2}) = 2
  BY ONLY MinOfNats
<1>3. SetRequest(h) = [line |-> h[1].req,
                       length |-> IF request.length >= 0 \/ fields = {} THEN request.length
                                  ELSE h[Min(fields)].n]
  BY DEF SetRequest
<1>. HIDE DEF h, fields
<1>. QED
  BY ONLY <1>1, <1>2, <1>3, r.kind \in {"GET", "POST"} DEF h

\* A unit has a byte or more.
LEMMA BytesAtLeast ==
  ASSUME NEW s \in Seq(Units)
  PROVE  Bytes(s) >= Len(s)
<1>1. IsFiniteSet(DOMAIN s) /\ Len(s) \in Nat
  BY FS_Interval
<1>2. ASSUME NEW T \in SUBSET DOMAIN s
      PROVE  Cardinality(T) \in Nat
  BY <1>1, FS_Subset, FS_CardinalityType
<1>3. /\ Cardinality({k \in DOMAIN s : s[k].kind = "crlf"}) \in Nat
      /\ Cardinality({k \in DOMAIN s : s[k].kind \notin {"byte", "crlf"}}) \in Nat
  BY <1>2
<1>. QED
  BY <1>1, <1>3 DEF Bytes

\* The bytes of a body are as many as its units.
LEMMA BytesOfBytes ==
  ASSUME NEW s \in Seq(Units), \A k \in 1 .. Len(s) : s[k].kind = "byte"
  PROVE  Bytes(s) = Len(s)
<1>. DEFINE A == {k \in DOMAIN s : s[k].kind = "crlf"}
            B == {k \in DOMAIN s : s[k].kind \notin {"byte", "crlf"}}
<1>1. A = {} /\ B = {}
  OBVIOUS
<1>2. Bytes(s) = Len(s) + Cardinality(A) + 8 * Cardinality(B)
  BY DEF Bytes
<1>. HIDE DEF A, B
<1>3. Cardinality(A) = 0 /\ Cardinality(B) = 0 /\ Len(s) \in Nat
  BY <1>1, FS_EmptySet
<1>. QED
  BY ONLY <1>2, <1>3

\* All of them are needed to cover that many bytes.
LEMMA CoversAll ==
  ASSUME NEW s \in Seq(Units), Len(s) > 0, \A k \in 1 .. Len(s) : s[k].kind = "byte"
  PROVE  Covering(s, Len(s)) = s
<1>. DEFINE n == Len(s)
            C == {k \in DOMAIN s : Bytes(SubSeq(s, 1, k)) >= n}
<1>1. \A k \in 1 .. n : Bytes(SubSeq(s, 1, k)) = k
  <2>. SUFFICES ASSUME NEW k \in 1 .. n
                PROVE  Bytes(SubSeq(s, 1, k)) = k
    OBVIOUS
  <2>. DEFINE t == SubSeq(s, 1, k)
  <2>1. t \in Seq(Units) /\ Len(t) = k /\ \A i \in 1 .. k : t[i] = s[i]
    OBVIOUS
  <2>2. \A i \in 1 .. Len(t) : t[i].kind = "byte"
    BY <2>1
  <2>. HIDE DEF t
  <2>3. Bytes(t) = Len(t)
    BY ONLY <2>1, <2>2, BytesOfBytes
  <2>. QED
    BY ONLY <2>1, <2>3 DEF t
<1>2. n \in Nat /\ n > 0 /\ DOMAIN s = 1 .. n
  OBVIOUS
<1>. HIDE DEF n
<1>3. C = {n}
  BY ONLY <1>1, <1>2
<1>4. Min({n}) = n
  BY ONLY <1>2, MinOfNats
<1>5. Covering(s, n) = SubSeq(s, 1, n)
  BY <1>3, <1>4 DEF Covering
<1>6. SubSeq(s, 1, n) = s
  BY <1>2 DEF n
<1>. QED
  BY <1>5, <1>6 DEF n

-----------------------------------------------------------------------------
(* The handler keeps its place in the stream.                              *)

\* The request whose answer is the next.
Turn == Len(resp) + 1

\* What has been read of it.
Got == IF stage = "STAGE_HEADER" THEN buffer_list ELSE HeaderOf(asked[Turn], Turn) \o buffer_list

\* What is sent and not yet answered.
InFlight == Got \o (sock \o wire)

\* In a header: what is read of it is in the list, and the length known is that of
\* the request before.
InHeader ==
  /\ IF buffer_list = <<>> THEN state \in {"START", "FOUND"}
     ELSE /\ state = "CRLF" /\ Turn <= Len(asked)
          /\ Len(buffer_list) < Len(HeaderOf(asked[Turn], Turn))
  /\ request.length >= 0 =>
       /\ Len(resp) > 0 /\ asked[Len(resp)].kind = "POST" /\ asked[Len(resp)].length = request.length

\* In a body: what is read of it is in the list, and its length is known.
InBody ==
  /\ Turn <= Len(asked) /\ asked[Turn].kind = "POST"
  /\ request.line = Turn /\ request.length = asked[Turn].length /\ body_length = asked[Turn].length
  /\ cur_body_len = Len(buffer_list) /\ cur_body_len < body_length
  /\ state = "FOUND"

InPlace ==
  /\ Len(resp) \in 0 .. Len(asked) /\ resp = [id \in 1 .. Len(resp) |-> Due(asked, id)]
  /\ \A id \in Turn .. Len(asked) : asked[id].conn = conn
  /\ lex = <<>>
  /\ stage = "STAGE_HEADER" => InHeader
  /\ stage = "STAGE_BODY" => InBody
  /\ Laid(InFlight, asked, Len(resp))

Orderly ==
  /\ stage \in {"STAGE_HEADER", "STAGE_BODY"} /\ conn \in 1 .. MaxConns
  /\ \A id \in 1 .. Len(asked) : asked[id].kind # "POST" => asked[id].length = 0
  /\ Regular => InPlace

\* The requests that have been sent.
LEMMA AskedType ==
  ASSUME TypeOK
  PROVE  /\ Len(asked) \in Nat /\ DOMAIN asked = 1 .. Len(asked)
         /\ \A id \in 1 .. Len(asked) :
              /\ asked[id].kind \in {"GET", "POST", "bad"} /\ asked[id].length \in Nat
              /\ HeaderOf(asked[id], id) \in Seq(Units) /\ Whole(asked[id], id) \in Seq(Units)
              /\ Len(HeaderOf(asked[id], id)) \in Nat
              /\ Len(Whole(asked[id], id)) = Len(HeaderOf(asked[id], id)) + asked[id].length
              /\ Len(Whole(asked[id], id)) > 0
<1>. DEFINE A == [kind : {"GET", "POST", "bad"}, length : Nat, conn : Int]
<1>1. asked \in Seq(A)
  BY DEF TypeOK
<1>2. Len(asked) \in Nat /\ DOMAIN asked = 1 .. Len(asked)
  BY <1>1
<1>3. ASSUME NEW id \in 1 .. Len(asked)
      PROVE  /\ asked[id].kind \in {"GET", "POST", "bad"} /\ asked[id].length \in Nat
             /\ HeaderOf(asked[id], id) \in Seq(Units) /\ Whole(asked[id], id) \in Seq(Units)
             /\ Len(HeaderOf(asked[id], id)) \in Nat
             /\ Len(Whole(asked[id], id)) = Len(HeaderOf(asked[id], id)) + asked[id].length
             /\ Len(Whole(asked[id], id)) > 0
  <2>1. asked[id] \in A
    <3>. HIDE DEF A
    <3>. QED
      BY <1>1
  <2>2. asked[id].kind \in {"GET", "POST", "bad"} /\ asked[id].length \in Nat /\ id \in Nat
    BY <1>2, <2>1
  <2>3. PICK a : a = asked[id]
    OBVIOUS
  <2>4. a.kind \in {"GET", "POST", "bad"} /\ a.length \in Nat /\ id \in Nat
    BY <2>2, <2>3
  <2>5. /\ HeaderOf(a, id) \in Seq(Units) /\ Whole(a, id) \in Seq(Units)
        /\ Len(HeaderOf(a, id)) = IF a.kind = "GET" THEN 2 ELSE 3
        /\ Len(Whole(a, id)) = Len(HeaderOf(a, id)) + a.length
    BY ONLY <2>4, WholeType
  <2>6. Len(HeaderOf(a, id)) \in Nat /\ Len(HeaderOf(a, id)) > 0
    BY ONLY <2>5
  <2>7. Len(Whole(a, id)) > 0
    BY ONLY <2>4, <2>5, <2>6
  <2>. QED
    BY ONLY <2>3, <2>4, <2>5, <2>6, <2>7
<1>. QED
  BY <1>2, <1>3

\* A sequence that is cut is what it was.
LEMMA Cut ==
  ASSUME NEW s \in Seq(Units), NEW n \in 0 .. Len(s)
  PROVE  SubSeq(s, 1, n) \o From(s, n + 1) = s
<1>1. /\ Len(s) \in Nat /\ 1 \in 1 .. Len(s) + 1 /\ n \in 1 - 1 .. Len(s) /\ Len(s) \in n .. Len(s)
  OBVIOUS
<1>2. SubSeq(s, 1, n) \o SubSeq(s, n + 1, Len(s)) = SubSeq(s, 1, Len(s))
  BY ONLY <1>1, ConcatAdjacentSubSeq, s \in Seq(Units)
<1>3. SubSeq(s, 1, Len(s)) = s
  BY SubSeqFull
<1>. QED
  BY ONLY <1>2, <1>3 DEF From

\* It does not matter what is put together first.
LEMMA Assoc ==
  ASSUME NEW s \in Seq(Units), NEW t \in Seq(Units), NEW u \in Seq(Units)
  PROVE  (s \o t) \o u = s \o (t \o u)
OBVIOUS

\* What is read is still in flight until it is answered.
LEMMA ReadOn ==
  ASSUME TypeOK, sock # <<>>, NEW got \in Seq(Units)
  PROVE  (got \o Recv) \o (From(sock, Len(Recv) + 1) \o wire) = got \o (sock \o wire)
<1>. DEFINE rest == From(sock, Len(Recv) + 1)
<1>1. sock \in Seq(Units) /\ wire \in Seq(Units) /\ Recv \in Seq(Units)
      /\ Len(Recv) \in 0 .. Len(sock) /\ Recv = SubSeq(sock, 1, Len(Recv))
  <2>1. Len(Recv) \in 1 .. Len(sock) /\ Recv \in Seq(Units) /\ Recv = SubSeq(sock, 1, Len(Recv))
    BY RecvIs
  <2>2. sock \in Seq(Units) /\ wire \in Seq(Units)
    BY DEF TypeOK
  <2>3. Len(Recv) \in 0 .. Len(sock)
    BY <2>1
  <2>. QED
    BY ONLY <2>1, <2>2, <2>3
<1>2. Recv \o rest = sock
  BY ONLY <1>1, Cut
<1>3. rest \in Seq(Units)
  BY <1>1, FromType
<1>. HIDE DEF rest
<1>4. (got \o Recv) \o (rest \o wire) = got \o (Recv \o (rest \o wire))
  <2>1. rest \o wire \in Seq(Units)
    BY ONLY <1>1, <1>3
  <2>2. got \in Seq(Units) /\ Recv \in Seq(Units) /\ rest \o wire \in Seq(Units)
    BY ONLY <1>1, <2>1, got \in Seq(Units)
  <2>. QED
    BY ONLY <2>2, Assoc, ZenonT(40)
<1>5. (Recv \o rest) \o wire = Recv \o (rest \o wire)
  <2>1. Recv \in Seq(Units) /\ rest \in Seq(Units) /\ wire \in Seq(Units)
    BY ONLY <1>1, <1>3
  <2>. QED
    BY ONLY <2>1, Assoc, ZenonT(40)
<1>. QED
  BY ONLY <1>2, <1>4, <1>5 DEF rest

\* What arrives is still in flight.
LEMMA ArriveOn ==
  ASSUME TypeOK, NEW n \in 1 .. Len(wire)
  PROVE  (sock \o SubSeq(wire, 1, n)) \o From(wire, n + 1) = sock \o wire
<1>1. sock \in Seq(Units) /\ wire \in Seq(Units) /\ SubSeq(wire, 1, n) \in Seq(Units)
      /\ From(wire, n + 1) \in Seq(Units) /\ n \in 0 .. Len(wire)
  <2>1. sock \in Seq(Units) /\ wire \in Seq(Units)
    BY DEF TypeOK
  <2>2. n \in Nat /\ n <= Len(wire) /\ n + 1 \in Nat \ {0} /\ n \in 0 .. Len(wire)
    BY <2>1
  <2>3. SubSeq(wire, 1, n) \in Seq(Units)
    BY ONLY <2>1, <2>2, SubSeqType, 1 \in Nat \ {0}
  <2>. QED
    BY ONLY <2>1, <2>2, <2>3, FromType
<1>2. SubSeq(wire, 1, n) \o From(wire, n + 1) = wire
  BY ONLY <1>1, Cut
<1>3. (sock \o SubSeq(wire, 1, n)) \o From(wire, n + 1) = sock \o (SubSeq(wire, 1, n) \o From(wire, n + 1))
  <2>. DEFINE first == SubSeq(wire, 1, n)
              behind == From(wire, n + 1)
  <2>1. sock \in Seq(Units) /\ first \in Seq(Units) /\ behind \in Seq(Units)
    BY ONLY <1>1
  <2>. HIDE DEF first, behind
  <2>2. (sock \o first) \o behind = sock \o (first \o behind)
    BY ONLY <2>1, Assoc, ZenonT(40)
  <2>. QED
    BY ONLY <2>2 DEF first, behind
<1>. QED
  BY ONLY <1>2, <1>3

\* One more answer that is due.
LEMMA AnswerMore ==
  ASSUME NEW reqs, NEW m \in Nat, NEW s, s = [id \in 1 .. m |-> Due(reqs, id)]
  PROVE  /\ Len(s) = m
         /\ Append(s, Due(reqs, m + 1)) = [id \in 1 .. m + 1 |-> Due(reqs, id)]
         /\ Len(Append(s, Due(reqs, m + 1))) = m + 1
<1>. DEFINE S == {Due(reqs, id) : id \in 1 .. m + 1}
            a == Due(reqs, m + 1)
            t == [id \in 1 .. m + 1 |-> Due(reqs, id)]
<1>1. s \in Seq(S) /\ a \in S /\ Len(s) = m /\ \A id \in 1 .. m : s[id] = Due(reqs, id)
  OBVIOUS
<1>2. t \in Seq(S) /\ Len(t) = m + 1 /\ \A id \in 1 .. m + 1 : t[id] = Due(reqs, id)
  <2>1. m + 1 \in Nat /\ \A id \in 1 .. m + 1 : Due(reqs, id) \in S
    OBVIOUS
  <2>. HIDE DEF S
  <2>. QED
    BY ONLY <2>1
<1>. HIDE DEF S, t
<1>3. /\ Append(s, a) \in Seq(S) /\ Len(Append(s, a)) = m + 1
      /\ \A id \in 1 .. m : Append(s, a)[id] = s[id]
      /\ Append(s, a)[m + 1] = a
  BY ONLY <1>1, AppendProperties
<1>4. \A id \in 1 .. m + 1 : Append(s, a)[id] = t[id]
  <2>1. \A id \in 1 .. m + 1 : id \in 1 .. m \/ id = m + 1
    OBVIOUS
  <2>2. m + 1 \in 1 .. m + 1 /\ \A id \in 1 .. m : id \in 1 .. m + 1
    OBVIOUS
  <2>. QED
    BY ONLY <1>1, <1>2, <1>3, <2>1, <2>2
<1>5. Append(s, a) = t
  BY ONLY <1>2, <1>3, <1>4, SeqEqual
<1>. QED
  BY ONLY <1>1, <1>3, <1>5 DEF t

\* What is in flight are units.
LEMMA InFlightType ==
  ASSUME TypeOK, Orderly, Regular
  PROVE  Got \in Seq(Units) /\ InFlight \in Seq(Units) /\ sock \o wire \in Seq(Units)
<1>1. sock \in Seq(Units) /\ wire \in Seq(Units) /\ buffer_list \in Seq(Units)
  BY DEF TypeOK
<1>2. stage # "STAGE_HEADER" => Turn \in 1 .. Len(asked)
  <2>. SUFFICES ASSUME stage # "STAGE_HEADER"
                PROVE  Turn \in 1 .. Len(asked)
    OBVIOUS
  <2>1. InPlace /\ stage = "STAGE_BODY"
    BY DEF Orderly
  <2>2. Turn <= Len(asked) /\ Len(resp) \in 0 .. Len(asked) /\ Turn = Len(resp) + 1
    BY <2>1 DEF InPlace, InBody, Turn
  <2>3. Len(asked) \in Nat
    BY AskedType
  <2>. QED
    BY ONLY <2>2, <2>3
<1>3. Got \in Seq(Units)
  <2>1. CASE stage = "STAGE_HEADER"
    BY <1>1, <2>1 DEF Got
  <2>2. CASE stage # "STAGE_HEADER"
    <3>1. HeaderOf(asked[Turn], Turn) \in Seq(Units)
      BY <1>2, <2>2, AskedType
    <3>. QED
      BY <1>1, <2>2, <3>1, Joined DEF Got
  <2>. QED
    BY <2>1, <2>2
<1>4. sock \o wire \in Seq(Units)
  BY ONLY <1>1, Joined
<1>. QED
  BY ONLY <1>3, <1>4, Joined DEF InFlight

\* A step that asks nothing leaves what was irregular so.
LEMMA RegularBefore ==
  ASSUME asked' = asked, overread => overread', abandoned => abandoned', Regular'
  PROVE  Regular /\ ~overread' /\ ~abandoned'
BY DEF Regular, Suited, Shape

-----------------------------------------------------------------------------
(* Each step keeps the place.                                              *)

\* The answers due stay the same when more is asked.
LEMMA AskKeeps ==
  ASSUME TypeOK, Orderly, Ask
  PROVE  Orderly'
<1>. DEFINE n == Len(asked)
            id == n + 1
<1>1. PICK s \in Scripts :
        /\ Len(asked) < Len(s)
        /\ asked' = Append(asked, [kind |-> s[Len(asked) + 1].kind,
                                   length |-> s[Len(asked) + 1].length, conn |-> conn])
        /\ wire' = wire \o HeaderOf(s[Len(asked) + 1], Len(asked) + 1)
                        \o BodyOf(s[Len(asked) + 1], Len(asked) + 1)
  BY DEF Ask, history
<1>2. UNCHANGED <<conn, sock, stage, state, buffer_list, body_length, cur_body_len, request, lex, resp,
                  overread, abandoned>>
  BY DEF Ask, handler, history
<1>3. PICK r : r = s[id]
  OBVIOUS
<1>. DEFINE a == [kind |-> r.kind, length |-> r.length, conn |-> conn]
            w == Whole(a, id)
<1>4. n \in Nat /\ id \in Nat /\ DOMAIN asked = 1 .. n
  BY AskedType
<1>5. r \in [kind : {"GET", "POST", "bad"}, length : Nat] /\ (r.kind # "POST" => r.length = 0)
  <2>. DEFINE Request == [kind : {"GET", "POST", "bad"}, length : Nat]
  <2>1. s \in Seq(Request)
    BY <1>1, ScriptsAssumption
  <2>2. id \in 1 .. Len(s) /\ DOMAIN s = 1 .. Len(s)
    BY <1>1, <1>4, <2>1
  <2>. HIDE DEF Request, id
  <2>3. r \in Request
    BY <1>3, <2>1, <2>2
  <2>4. r.kind # "POST" => r.length = 0
    BY <1>1, <1>3, <2>2, BodiesAssumption
  <2>. QED
    BY <2>3, <2>4 DEF Request
<1>6. /\ a.kind = r.kind /\ a.length = r.length /\ a.conn = conn
      /\ a.kind \in {"GET", "POST", "bad"} /\ a.length \in Nat
      /\ a \in [kind : {"GET", "POST", "bad"}, length : Nat, conn : Int]
  BY <1>5 DEF TypeOK
<1>7. w = HeaderOf(r, id) \o BodyOf(r, id) /\ HeaderOf(r, id) \in Seq(Units) /\ BodyOf(r, id) \in Seq(Units)
      /\ w \in Seq(Units)
  <2>1. HeaderOf(a, id) = HeaderOf(r, id) /\ BodyOf(a, id) = BodyOf(r, id)
    BY ONLY <1>6 DEF HeaderOf, BodyOf
  <2>2. r.kind \in {"GET", "POST", "bad"} /\ r.length \in Nat
    BY ONLY <1>6
  <2>3. HeaderOf(r, id) \in Seq(Units) /\ BodyOf(r, id) \in Seq(Units)
    BY ONLY <1>4, <2>2, WholeType
  <2>4. HeaderOf(r, id) \o BodyOf(r, id) \in Seq(Units)
    BY ONLY <2>3, Joined
  <2>. QED
    BY ONLY <2>1, <2>3, <2>4 DEF Whole
<1>8. asked' = Append(asked, a) /\ wire' = wire \o w
  <2>1. asked' = Append(asked, a)
    BY <1>1, <1>3
  <2>2. wire' = (wire \o HeaderOf(r, id)) \o BodyOf(r, id)
    BY <1>1, <1>3
  <2>3. wire \in Seq(Units) /\ HeaderOf(r, id) \in Seq(Units) /\ BodyOf(r, id) \in Seq(Units)
    BY <1>7 DEF TypeOK
  <2>4. wire' = wire \o (HeaderOf(r, id) \o BodyOf(r, id))
    <3>. DEFINE h == HeaderOf(r, id)
                b == BodyOf(r, id)
    <3>1. wire \in Seq(Units) /\ h \in Seq(Units) /\ b \in Seq(Units)
      BY ONLY <2>3
    <3>. HIDE DEF h, b
    <3>2. (wire \o h) \o b = wire \o (h \o b)
      BY ONLY <3>1, Assoc, ZenonT(40)
    <3>. QED
      BY ONLY <2>2, <3>2 DEF h, b
  <2>. QED
    BY ONLY <1>7, <2>1, <2>4
<1>. DEFINE A == [kind : {"GET", "POST", "bad"}, length : Nat, conn : Int]
<1>9. asked \in Seq(A) /\ a \in A
  BY <1>6 DEF TypeOK
<1>. HIDE DEF a, w, A
<1>10. Len(asked') = n + 1 /\ asked'[n + 1] = a /\ \A j \in 1 .. n : asked'[j] = asked[j]
  BY ONLY <1>8, <1>9
<1>. HIDE DEF n
<1>11. \A j \in 1 .. n + 1 : j \in 1 .. n \/ j = n + 1
  BY ONLY <1>4
<1>12. \A j \in 1 .. n : asked[j].kind # "POST" => asked[j].length = 0
  BY DEF Orderly, n
<1>13. \A j \in 1 .. Len(asked') : asked'[j].kind # "POST" => asked'[j].length = 0
  BY ONLY <1>5, <1>6, <1>10, <1>11, <1>12
<1>14. Regular' => Regular
  <2>1. DOMAIN asked' = 1 .. n + 1
    BY <1>8, <1>9 DEF n
  <2>2. \A j \in 1 .. n : j \in 1 .. n + 1
    BY ONLY <1>4
  <2>. QED
    BY <1>2, <1>4, <1>10, <2>1, <2>2 DEF Regular, Suited, Shape
<1>15. ASSUME Regular'
       PROVE  InPlace'
  <2>1. InPlace /\ Regular
    BY <1>14, <1>15 DEF Orderly
  <2>2. Len(resp) \in 0 .. n /\ Len(resp) \in Nat /\ Turn = Len(resp) + 1
    BY <1>4, <2>1 DEF InPlace, n, Turn
  <2>3. Turn' = Turn /\ resp' = resp
    BY <1>2 DEF Turn
  <2>4. Len(resp') \in 0 .. Len(asked')
    BY ONLY <1>4, <1>10, <2>2, <2>3
  <2>5. resp' = [j \in 1 .. Len(resp') |-> Due(asked', j)]
    <3>1. \A j \in 1 .. Len(resp) : j \in 1 .. n
      BY ONLY <1>4, <2>2
    <3>2. \A j \in 1 .. Len(resp) : Due(asked', j) = Due(asked, j)
      BY ONLY <1>10, <3>1 DEF Due
    <3>3. resp = [j \in 1 .. Len(resp) |-> Due(asked, j)]
      BY <2>1 DEF InPlace
    <3>. QED
      BY ONLY <2>3, <3>2, <3>3
  <2>6. \A j \in Turn' .. Len(asked') : asked'[j].conn = conn'
    <3>1. \A j \in Turn .. n : asked[j].conn = conn
      BY <2>1 DEF InPlace, n
    <3>2. \A j \in Turn .. n + 1 : (j \in Turn .. n /\ j \in 1 .. n) \/ j = n + 1
      BY ONLY <1>4, <2>2
    <3>3. conn' = conn
      BY <1>2
    <3>. QED
      BY ONLY <1>6, <1>10, <2>3, <3>1, <3>2, <3>3
  <2>7. Turn <= n => Turn \in 1 .. n /\ asked'[Turn] = asked[Turn]
    BY ONLY <1>4, <1>10, <2>2
  <2>8. stage' = "STAGE_HEADER" => InHeader'
    <3>. SUFFICES ASSUME stage = "STAGE_HEADER"
                  PROVE  InHeader'
      BY <1>2
    <3>1. InHeader
      BY <2>1 DEF InPlace
    <3>2. IF buffer_list' = <<>> THEN state' \in {"START", "FOUND"}
          ELSE /\ state' = "CRLF" /\ Turn' <= Len(asked')
               /\ Len(buffer_list') < Len(HeaderOf(asked'[Turn'], Turn'))
      <4>1. CASE buffer_list = <<>>
        BY <1>2, <3>1, <4>1 DEF InHeader
      <4>2. CASE buffer_list # <<>>
        <5>1. state = "CRLF" /\ Turn <= n /\ Len(buffer_list) < Len(HeaderOf(asked[Turn], Turn))
          BY <3>1, <4>2 DEF InHeader, n
        <5>2. Turn <= n + 1
          BY ONLY <1>4, <2>2, <5>1
        <5>. QED
          BY <1>2, <1>10, <2>3, <2>7, <4>2, <5>1, <5>2
      <4>. QED
        BY <4>1, <4>2
    <3>3. request'.length >= 0 =>
            /\ Len(resp') > 0 /\ asked'[Len(resp')].kind = "POST"
            /\ asked'[Len(resp')].length = request'.length
      <4>1. request.length >= 0 =>
              /\ Len(resp) > 0 /\ asked[Len(resp)].kind = "POST" /\ asked[Len(resp)].length = request.length
        BY <3>1 DEF InHeader
      <4>2. Len(resp) > 0 => asked'[Len(resp)] = asked[Len(resp)]
        BY ONLY <1>4, <1>10, <2>2
      <4>. QED
        BY <1>2, <4>1, <4>2
    <3>. QED
      BY <3>2, <3>3 DEF InHeader
  <2>9. stage' = "STAGE_BODY" => InBody' /\ Turn <= n
    <3>. SUFFICES ASSUME stage = "STAGE_BODY"
                  PROVE  InBody' /\ Turn <= n
      BY <1>2
    <3>1. InBody
      BY <2>1 DEF InPlace
    <3>2. Turn <= n /\ Turn <= n + 1
      BY <1>4, <2>2, <3>1 DEF InBody, n
    <3>. QED
      BY <1>2, <1>10, <2>3, <2>7, <3>1, <3>2 DEF InBody
  <2>10. Got' = Got
    <3>1. CASE stage = "STAGE_HEADER"
      BY <1>2, <3>1 DEF Got
    <3>2. CASE stage # "STAGE_HEADER"
      <4>1. stage' = "STAGE_BODY"
        BY <1>2, <3>2 DEF Orderly
      <4>. QED
        BY <1>2, <2>3, <2>7, <2>9, <3>2, <4>1 DEF Got
    <3>. QED
      BY <3>1, <3>2
  <2>11. InFlight' = InFlight \o w
    <3>1. InFlight' = Got \o (sock \o (wire \o w))
      BY <1>2, <1>8, <2>10 DEF InFlight
    <3>2. Got \in Seq(Units) /\ sock \in Seq(Units) /\ wire \in Seq(Units) /\ sock \o wire \in Seq(Units)
          /\ w \in Seq(Units)
      BY <1>7, <2>1, InFlightType DEF TypeOK
    <3>3. sock \o (wire \o w) = (sock \o wire) \o w
      <4>1. sock \in Seq(Units) /\ wire \in Seq(Units) /\ w \in Seq(Units)
        BY ONLY <3>2
      <4>. QED
        BY ONLY <4>1, Assoc, ZenonT(40)
    <3>4. Got \o ((sock \o wire) \o w) = (Got \o (sock \o wire)) \o w
      <4>1. Got \in Seq(Units) /\ sock \o wire \in Seq(Units) /\ w \in Seq(Units)
        BY ONLY <3>2
      <4>. QED
        BY ONLY <4>1, Assoc, ZenonT(40)
    <3>. QED
      BY ONLY <3>1, <3>3, <3>4 DEF InFlight
  <2>12. Laid(InFlight', asked', Len(resp'))
    <3>1. InFlight \in Seq(Units) /\ Laid(InFlight, asked, Len(resp))
      BY <2>1, InFlightType DEF InPlace
    <3>2. \A j \in 1 .. Len(asked) : Whole(asked[j], j) \in Seq(Units)
      BY AskedType
    <3>3. Len(resp) <= Len(asked) /\ Len(resp) \in Nat
      BY <1>4, <2>2 DEF n
    <3>4. Whole(a, Len(asked) + 1) \in Seq(Units) /\ w = Whole(a, Len(asked) + 1)
      BY <1>7 DEF w, n
    <3>5. Laid(InFlight \o Whole(a, Len(asked) + 1), Append(asked, a), Len(resp))
      BY ONLY <1>9, <3>1, <3>2, <3>3, <3>4, LaidMore
    <3>. QED
      BY ONLY <1>8, <2>3, <2>11, <3>4, <3>5
  <2>13. lex' = <<>>
    BY <1>2, <2>1 DEF InPlace
  <2>. QED
    BY <2>4, <2>5, <2>6, <2>8, <2>9, <2>12, <2>13 DEF InPlace
<1>16. stage' \in {"STAGE_HEADER", "STAGE_BODY"} /\ conn' \in 1 .. MaxConns
  BY <1>2 DEF Orderly
<1>. QED
  BY <1>13, <1>15, <1>16 DEF Orderly

\* A step that only moves what is sent towards the handler keeps the order.
LEMMA MoveKeeps ==
  ASSUME Orderly, UNCHANGED <<asked, conn, handler, lex, resp>>,
         overread => overread', abandoned => abandoned', sock' \o wire' = sock \o wire
  PROVE  Orderly'
<1>1. UNCHANGED <<asked, conn, stage, state, buffer_list, body_length, cur_body_len, request, lex, resp>>
  BY DEF handler
<1>2. Turn' = Turn
  BY <1>1 DEF Turn
<1>3. Got' = Got
  BY <1>1, <1>2 DEF Got
<1>4. InFlight' = InFlight
  BY <1>3 DEF InFlight
<1>5. (InHeader => InHeader') /\ (InBody => InBody')
  BY <1>1, <1>2 DEF InHeader, InBody
<1>6. ASSUME Regular'
      PROVE  InPlace'
  <2>1. InPlace
    BY <1>1, <1>6, RegularBefore DEF Orderly
  <2>. QED
    BY <1>1, <1>2, <1>4, <1>5, <2>1 DEF InPlace
<1>. QED
  BY <1>1, <1>6 DEF Orderly

\* The client leaves when it has all its answers, or has given up.
LEMMA ReconnectKeeps ==
  ASSUME TypeOK, Orderly, Reconnect
  PROVE  Orderly'
<1>1. UNCHANGED <<asked, stage, state, buffer_list, body_length, cur_body_len, request, lex, resp, overread>>
      /\ conn < MaxConns /\ conn' = conn + 1 /\ wire' = <<>> /\ sock' = <<>>
      /\ abandoned' = (abandoned \/ Outstanding)
  BY DEF Reconnect, handler
<1>2. stage' \in {"STAGE_HEADER", "STAGE_BODY"} /\ conn' \in 1 .. MaxConns
      /\ \A id \in 1 .. Len(asked') : asked'[id].kind # "POST" => asked'[id].length = 0
  <2>1. conn \in 1 .. MaxConns /\ stage \in {"STAGE_HEADER", "STAGE_BODY"}
    BY DEF Orderly
  <2>2. conn + 1 \in 1 .. MaxConns
    BY ONLY <1>1, <2>1, MaxConnsAssumption
  <2>. QED
    BY <1>1, <2>1, <2>2 DEF Orderly
<1>3. ASSUME Regular'
      PROVE  InPlace'
  <2>1. Regular /\ ~Outstanding
    <3>1. abandoned => abandoned'
      BY <1>1
    <3>. QED
      BY <1>1, <1>3, <3>1, RegularBefore
  <2>2. InPlace
    BY <2>1 DEF Orderly
  <2>. DEFINE m == Len(resp)
              n == Len(asked)
  <2>3. m \in 0 .. n /\ n \in Nat /\ m \in Nat /\ DOMAIN asked = 1 .. n /\ Turn = m + 1
    BY <2>2, AskedType DEF InPlace, Turn
  <2>4. DOMAIN resp = 1 .. m /\ \A j \in 1 .. m : resp[j].conn = asked[j].conn
    <3>1. resp = [id \in 1 .. m |-> Due(asked, id)]
      BY <2>2 DEF InPlace
    <3>. HIDE DEF m
    <3>2. DOMAIN resp = 1 .. m /\ \A j \in 1 .. m : resp[j] = Due(asked, j)
      BY ONLY <3>1
    <3>. QED
      BY ONLY <3>2 DEF Due, Answer
  <2>5. m = n
    <3>1. ASSUME m # n
          PROVE  FALSE
      <4>. DEFINE A == {j \in 1 .. m : asked[j].conn = conn}
                  B == {j \in 1 .. n : asked[j].conn = conn}
      <4>1. n \in 1 .. n /\ n \in Turn .. n /\ n \notin 1 .. m
        BY ONLY <2>3, <3>1
      <4>2. asked[n].conn = conn
        BY <2>2, <4>1 DEF InPlace
      <4>3. A \subseteq B /\ A # B
        <5>1. 1 .. m \subseteq 1 .. n
          BY ONLY <2>3
        <5>. HIDE DEF m, n
        <5>. QED
          BY <4>1, <4>2, <5>1
      <4>4. IsFiniteSet(B)
        <5>1. IsFiniteSet(1 .. n)
          BY <2>3, FS_Interval
        <5>. HIDE DEF n
        <5>2. B \subseteq 1 .. n
          OBVIOUS
        <5>. QED
          BY ONLY <5>1, <5>2, FS_Subset
      <4>. DEFINE C == {j \in DOMAIN resp : resp[j].conn = conn}
      <4>5. C = A
        BY ONLY <2>4
      <4>. HIDE DEF A, B, C
      <4>6. Cardinality(A) < Cardinality(B)
        <5>1. /\ IsFiniteSet(A) /\ Cardinality(A) <= Cardinality(B)
              /\ Cardinality(A) = Cardinality(B) => A = B
          BY ONLY <4>3, <4>4, FS_Subset
        <5>2. Cardinality(A) \in Nat /\ Cardinality(B) \in Nat
          BY ONLY <4>4, <5>1, FS_CardinalityType
        <5>. QED
          BY ONLY <4>3, <5>1, <5>2
      <4>7. Outstanding
        BY <2>3, <4>1, <4>2, <4>5, <4>6 DEF Outstanding, B, C
      <4>. QED
        BY <2>1, <4>7
    <3>. QED
      BY <3>1
  <2>6. InFlight = <<>>
    <3>1. asked \in Seq([kind : {"GET", "POST", "bad"}, length : Nat, conn : Int])
      BY DEF TypeOK
    <3>2. InFlight \in Seq(Units) /\ Laid(InFlight, asked, Len(asked))
      BY <2>1, <2>2, <2>5, InFlightType DEF InPlace
    <3>. QED
      BY ONLY <3>1, <3>2, LaidNone
  <2>7. stage = "STAGE_HEADER"
    <3>1. ~(Turn <= n)
      BY ONLY <2>3, <2>5
    <3>. QED
      BY <2>2, <3>1 DEF Orderly, InPlace, InBody
  <2>8. Got = <<>>
    <3>1. Got \in Seq(Units) /\ sock \o wire \in Seq(Units)
      BY <2>1, InFlightType
    <3>2. Len(InFlight) = Len(Got) + Len(sock \o wire) /\ Len(InFlight) = 0
      BY ONLY <2>6, <3>1, Joined DEF InFlight
    <3>4. Got \in Seq(Units)
      BY ONLY <3>1
    <3>3. Len(Got) = 0
      <4>1. Len(Got) \in Nat
        BY ONLY <3>4
      <4>2. Len(sock \o wire) \in Nat
        BY ONLY <3>1
      <4>3. \A x, y \in Nat : x + y = 0 => x = 0
        OBVIOUS
      <4>4. Len(Got) + Len(sock \o wire) = 0
        BY ONLY <3>2
      <4>. QED
        BY ONLY <4>1, <4>2, <4>3, <4>4
    <3>. QED
      BY ONLY <3>3, <3>4
  <2>9. Turn' = Turn /\ Got' = Got
    BY <1>1, <2>7 DEF Turn, Got
  <2>10. InFlight' = InFlight
    <3>1. InFlight' = <<>> \o (<<>> \o <<>>)
      BY <1>1, <2>8, <2>9 DEF InFlight
    <3>. QED
      BY ONLY <2>6, <3>1
  <2>11. InHeader => InHeader'
    BY <1>1, <2>9 DEF InHeader
  <2>12. \A id \in Turn' .. Len(asked') : asked'[id].conn = conn'
    <3>1. \A id \in Turn .. n : FALSE
      BY ONLY <2>3, <2>5
    <3>. QED
      BY <1>1, <2>9, <3>1
  <2>. QED
    BY <1>1, <2>2, <2>7, <2>9, <2>10, <2>11, <2>12 DEF InPlace
<1>. QED
  BY <1>2, <1>3 DEF Orderly

\* What a read in a header is: units of the header of the request that is next, and perhaps
\* of what comes behind it.
LEMMA HeaderView ==
  ASSUME TypeOK, InPlace, Orderly, Regular, stage = "STAGE_HEADER", sock # <<>>
  PROVE  /\ Turn \in 1 .. Len(asked)
         /\ asked[Turn].kind \in {"GET", "POST"} /\ asked[Turn].length \in Nat
         /\ Len(buffer_list) < Len(HeaderOf(asked[Turn], Turn))
         /\ state \in IF Len(buffer_list) = 0 THEN {"START", "FOUND"} ELSE {"CRLF"}
         /\ \A i \in 1 .. Len(buffer_list) : buffer_list[i] = HeaderOf(asked[Turn], Turn)[i]
         /\ \A i \in 1 .. Len(Recv) :
              Len(buffer_list) + i <= Len(HeaderOf(asked[Turn], Turn)) =>
                Recv[i] = HeaderOf(asked[Turn], Turn)[Len(buffer_list) + i]
<1>. DEFINE t == Turn
            n == Len(asked)
            b == Len(buffer_list)
            h == HeaderOf(asked[t], t)
            w == Whole(asked[t], t)
            q == InFlight
<1>1. /\ buffer_list \in Seq(Units) /\ b \in Nat /\ sock \in Seq(Units) /\ wire \in Seq(Units)
      /\ Len(sock) \in Nat /\ Len(sock) > 0
      /\ asked \in Seq([kind : {"GET", "POST", "bad"}, length : Nat, conn : Int])
  BY DEF TypeOK
<1>2. q = buffer_list \o (sock \o wire) /\ q \in Seq(Units) /\ sock \o wire \in Seq(Units)
  BY InFlightType DEF InFlight, Got
<1>3. n \in Nat /\ Len(resp) \in 0 .. n /\ Len(resp) \in Nat /\ t = Len(resp) + 1
  BY AskedType DEF InPlace, Turn
<1>4. Laid(q, asked, Len(resp))
  BY DEF InPlace
<1>5. /\ \A i \in 1 .. b : q[i] = buffer_list[i]
      /\ \A i \in 1 .. Len(sock) : q[b + i] = sock[i]
      /\ Len(q) > 0
  <2>1. /\ Len(sock \o wire) = Len(sock) + Len(wire) /\ Len(wire) \in Nat
        /\ \A i \in 1 .. Len(sock) : (sock \o wire)[i] = sock[i]
    BY <1>1, Joined
  <2>2. /\ Len(q) = b + Len(sock \o wire)
        /\ \A i \in 1 .. b : q[i] = buffer_list[i]
        /\ \A i \in 1 .. Len(sock \o wire) : q[b + i] = (sock \o wire)[i]
    BY ONLY <1>1, <1>2, Joined
  <2>. HIDE DEF b, q
  <2>3. \A i \in 1 .. Len(sock) : i \in 1 .. Len(sock \o wire)
    BY ONLY <1>1, <2>1
  <2>4. Len(q) > 0
    BY ONLY <1>1, <2>1, <2>2
  <2>. QED
    BY ONLY <2>1, <2>2, <2>3, <2>4
<1>. HIDE DEF q
<1>6. Len(resp) # n
  <2>1. ASSUME Len(resp) = n
        PROVE  FALSE
    <3>1. q = <<>>
      BY ONLY <1>1, <1>2, <1>4, <2>1, LaidNone
    <3>. QED
      BY <1>5, <3>1
  <2>. QED
    BY <2>1
<1>7. t \in 1 .. n /\ Len(resp) < Len(asked)
  BY ONLY <1>3, <1>6
<1>8. asked[t].kind \in {"GET", "POST"} /\ asked[t].length \in Nat
  <2>1. asked[t].kind \in {"GET", "POST", "bad"} /\ asked[t].length \in Nat
    BY <1>7, AskedType
  <2>2. asked[t].kind # "bad"
    BY <1>7, AskedType DEF Regular, Suited
  <2>. QED
    BY ONLY <2>1, <2>2
<1>9. Len(h) \in {2, 3} /\ Len(h) <= Len(w) /\ Len(w) \in Nat
      /\ \A i \in 1 .. Len(h) : w[i] = h[i]
  <2>1. t \in Nat
    BY ONLY <1>3
  <2>2. PICK a : a = asked[t]
    OBVIOUS
  <2>3. a.kind \in {"GET", "POST"} /\ a.kind \in {"GET", "POST", "bad"} /\ a.length \in Nat
    BY <1>8, <2>2
  <2>4. /\ Len(HeaderOf(a, t)) = IF a.kind = "GET" THEN 2 ELSE 3
        /\ Len(Whole(a, t)) = Len(HeaderOf(a, t)) + a.length
        /\ \A i \in 1 .. Len(HeaderOf(a, t)) : Whole(a, t)[i] = HeaderOf(a, t)[i]
    BY ONLY <2>1, <2>3, WholeType
  <2>5. Len(HeaderOf(a, t)) \in {2, 3} /\ Len(HeaderOf(a, t)) <= Len(Whole(a, t)) /\ Len(Whole(a, t)) \in Nat
    BY ONLY <2>3, <2>4
  <2>. QED
    BY ONLY <2>2, <2>4, <2>5
<1>10. \A i \in 1 .. Len(w) : q[i] = w[i]
  <2>1. \A j \in 1 .. Len(asked) : Whole(asked[j], j) \in Seq(Units)
    BY AskedType
  <2>2. \A i \in 1 .. Len(Whole(asked[Len(resp) + 1], Len(resp) + 1)) :
          q[i] = Whole(asked[Len(resp) + 1], Len(resp) + 1)[i]
    <3>1. q \in Seq(Units) /\ Len(resp) \in Nat /\ Len(resp) < Len(asked)
      BY ONLY <1>2, <1>3, <1>7
    <3>2. asked \in Seq([kind : {"GET", "POST", "bad"}, length : Nat, conn : Int])
      BY ONLY <1>1
    <3>. QED
      BY ONLY <1>4, <2>1, <3>1, <3>2, LaidFirst, ZenonT(40)
  <2>. QED
    BY ONLY <1>3, <2>2
<1>. HIDE DEF t, n, b, h, w
<1>11. b < Len(h) /\ state \in IF b = 0 THEN {"START", "FOUND"} ELSE {"CRLF"}
  <2>1. InHeader
    BY DEF InPlace
  <2>2. CASE buffer_list = <<>>
    <3>1. b = 0 /\ b < Len(h)
      BY <1>9, <2>2 DEF b
    <3>. QED
      BY <2>1, <2>2, <3>1 DEF InHeader
  <2>3. CASE buffer_list # <<>>
    <3>1. b # 0
      BY <1>1, <2>3 DEF b
    <3>2. state = "CRLF" /\ b < Len(h)
      BY <2>1, <2>3 DEF InHeader, b, h, t
    <3>. QED
      BY ONLY <3>1, <3>2
  <2>. QED
    BY <2>2, <2>3
<1>12. \A i \in 1 .. b : buffer_list[i] = h[i]
  <2>1. \A i \in 1 .. b : i \in 1 .. Len(h) /\ i \in 1 .. Len(w)
    BY ONLY <1>1, <1>9, <1>11
  <2>. QED
    BY ONLY <1>5, <1>9, <1>10, <2>1
<1>13. ASSUME NEW i \in 1 .. Len(Recv), b + i <= Len(h)
       PROVE  Recv[i] = h[b + i]
  <2>1. Recv[i] = sock[i] /\ Len(Recv) \in 1 .. Len(sock)
    BY RecvIs
  <2>2. i \in 1 .. Len(sock) /\ b + i \in 1 .. Len(h) /\ b + i \in 1 .. Len(w)
    BY ONLY <1>1, <1>9, <1>13, <2>1
  <2>. QED
    BY ONLY <1>5, <1>9, <1>10, <2>1, <2>2
<1>. QED
  BY ONLY <1>7, <1>8, <1>11, <1>12, <1>13 DEF t, n, b, h

\* What is behind the first of the requests.
LEMMA Consumed ==
  ASSUME TypeOK, NEW rest \in Seq(Units), Len(resp) \in Nat, Turn \in 1 .. Len(asked),
         Laid(Whole(asked[Turn], Turn) \o rest, asked, Len(resp))
  PROVE  Laid(rest, asked, Turn)
<1>. DEFINE m == Len(resp)
            w == Whole(asked[Turn], Turn)
            q == w \o rest
<1>1. Turn = m + 1 /\ m \in Nat /\ m < Len(asked)
  BY AskedType DEF Turn
<1>2. w \in Seq(Units) /\ \A j \in 1 .. Len(asked) : Whole(asked[j], j) \in Seq(Units)
  BY AskedType
<1>3. asked \in Seq([kind : {"GET", "POST", "bad"}, length : Nat, conn : Int])
  BY DEF TypeOK
<1>4. Laid(q, asked, m)
  OBVIOUS
<1>. HIDE DEF w
<1>5. q \in Seq(Units) /\ Len(q) = Len(w) + Len(rest) /\ \A i \in 1 .. Len(rest) : q[Len(w) + i] = rest[i]
  BY ONLY <1>2, Joined, rest \in Seq(Units)
<1>6. Len(w) \in Nat /\ Len(rest) \in Nat
  BY ONLY <1>2, rest \in Seq(Units)
<1>. HIDE DEF q
<1>7. From(q, Len(w) + 1) = rest
  <2>1. Len(w) <= Len(q) /\ Len(q) - Len(w) = Len(rest)
    BY ONLY <1>5, <1>6
  <2>2. /\ From(q, Len(w) + 1) \in Seq(Units) /\ Len(From(q, Len(w) + 1)) = Len(rest)
        /\ \A i \in 1 .. Len(rest) : From(q, Len(w) + 1)[i] = q[Len(w) + i]
    <3>1. Len(w) \in Nat /\ Len(w) <= Len(q) /\ q \in Seq(Units)
      BY ONLY <1>5, <1>6, <2>1
    <3>2. /\ From(q, Len(w) + 1) \in Seq(Units) /\ Len(From(q, Len(w) + 1)) = Len(q) - Len(w)
          /\ \A i \in 1 .. Len(q) - Len(w) : From(q, Len(w) + 1)[i] = q[Len(w) + i]
      BY ONLY <3>1, Behind
    <3>. QED
      BY ONLY <2>1, <3>2
  <2>3. \A i \in 1 .. Len(From(q, Len(w) + 1)) : From(q, Len(w) + 1)[i] = rest[i]
    BY ONLY <1>5, <2>2
  <2>. QED
    BY ONLY <2>2, <2>3, SeqEqual, rest \in Seq(Units)
<1>8. Laid(From(q, Len(Whole(asked[m + 1], m + 1)) + 1), asked, m + 1)
  <2>1. q \in Seq(Units)
    BY ONLY <1>5
  <2>2. m \in Nat /\ m < Len(asked)
    BY ONLY <1>1
  <2>. HIDE DEF m
  <2>. QED
    BY ONLY <1>2, <1>3, <1>4, <2>1, <2>2, LaidFirst, ZenonT(40)
<1>. QED
  BY ONLY <1>1, <1>7, <1>8 DEF w

\* The header goes on.
LEMMA PartOfHeaderKeeps ==
  ASSUME TypeOK, Orderly, RecvPartOfHeader
  PROVE  Orderly'
<1>1. /\ UNCHANGED <<asked, conn, wire, stage, body_length, cur_body_len, request, lex, resp,
                     overread, abandoned>>
      /\ stage = "STAGE_HEADER" /\ sock # <<>> /\ sock' = From(sock, Len(Recv) + 1)
      /\ Ends(state, Recv) = {} /\ state' = Scan(state, Recv)[Len(Recv)]
      /\ buffer_list' = buffer_list \o Recv
  BY DEF RecvPartOfHeader, CanRead, Receives, AppendData, client, history
<1>2. ASSUME Regular'
      PROVE  InPlace'
  <2>1. Regular /\ InPlace
    BY <1>1, <1>2, RegularBefore DEF Orderly
  <2>. DEFINE t == Turn
              a == asked[t]
              h == HeaderOf(a, t)
              b == Len(buffer_list)
  <2>2. /\ t \in 1 .. Len(asked) /\ a.kind \in {"GET", "POST"} /\ a.length \in Nat
        /\ b < Len(h) /\ state \in IF b = 0 THEN {"START", "FOUND"} ELSE {"CRLF"}
        /\ \A i \in 1 .. Len(Recv) : b + i <= Len(h) => Recv[i] = h[b + i]
    BY <1>1, <2>1, HeaderView
  <2>3. /\ Recv \in Seq(Units) /\ Len(Recv) \in Nat /\ Len(Recv) > 0
    <3>1. Recv \in Seq(Units) /\ Len(Recv) \in 1 .. Len(sock) /\ sock \in Seq(Units)
      BY <1>1, RecvIs DEF TypeOK
    <3>. QED
      BY ONLY <3>1
  <2>4. buffer_list \in Seq(Units) /\ b \in Nat /\ t \in Nat /\ Len(asked) \in Nat /\ Len(h) \in Nat
    <3>1. buffer_list \in Seq(Units) /\ Len(asked) \in Nat
      BY AskedType DEF TypeOK
    <3>2. PICK x, y, k : x = h /\ y = Turn /\ k = a.kind
      OBVIOUS
    <3>3. k \in {"GET", "POST"} /\ y \in 1 .. Len(asked)
      BY ONLY <2>2, <3>2
    <3>4. Len(x) \in Nat
      <4>1. h = <<Unit("line", t, 0), Unit("crlf", t, 0)>>
              \/ h = <<Unit("line", t, 0), Unit("field", t, a.length), Unit("crlf", t, 0)>>
        BY ONLY <2>2 DEF HeaderOf
      <4>. HIDE DEF h
      <4>. QED
        BY ONLY <3>2, <4>1
    <3>. HIDE DEF h, t, a
    <3>5. b \in Nat
      BY <3>1
    <3>. HIDE DEF b
    <3>6. t = y /\ h = x
      BY <3>2 DEF t
    <3>. QED
      BY ONLY <3>1, <3>3, <3>4, <3>5, <3>6
  <2>5. b + Len(Recv) < Len(h) /\ state' = "CRLF"
    <3>1. PICK r : r = a
      OBVIOUS
    <3>2. /\ r.kind \in {"GET", "POST"} /\ r.length \in Nat /\ h = HeaderOf(r, t)
      BY ONLY <2>2, <3>1
    <3>. HIDE DEF h, a, b, t
    <3>3. /\ r.kind \in {"GET", "POST"} /\ r.length \in Nat /\ t \in Nat /\ b \in Nat
          /\ b < Len(HeaderOf(r, t)) /\ state \in IF b = 0 THEN {"START", "FOUND"} ELSE {"CRLF"}
          /\ Recv \in Seq(Units) /\ Len(Recv) > 0
          /\ \A i \in 1 .. Len(Recv) : b + i <= Len(HeaderOf(r, t)) => Recv[i] = HeaderOf(r, t)[b + i]
      BY ONLY <2>2, <2>3, <2>4, <3>2
    <3>4. Ends(state, Recv) = {} => b + Len(Recv) < Len(HeaderOf(r, t)) /\ Scan(state, Recv)[Len(Recv)] = "CRLF"
      BY ONLY <3>3, EndsAt, SMTT(20)
    <3>. QED
      BY ONLY <1>1, <3>2, <3>4
  <2>6. Len(buffer_list') = b + Len(Recv) /\ buffer_list' # <<>>
    <3>1. Len(buffer_list \o Recv) = b + Len(Recv) /\ buffer_list \o Recv \in Seq(Units)
      BY ONLY <2>3, <2>4, Joined
    <3>2. b + Len(Recv) # 0
      BY ONLY <2>3, <2>4
    <3>. QED
      BY ONLY <1>1, <3>1, <3>2
  <2>7. Turn' = Turn
    BY <1>1 DEF Turn
  <2>8. InHeader'
    <3>1. Turn <= Len(asked)
      BY ONLY <2>2, <2>4
    <3>2. InHeader
      BY <1>1, <2>1 DEF InPlace
    <3>. QED
      BY <1>1, <2>5, <2>6, <2>7, <3>1, <3>2 DEF InHeader
  <2>9. InFlight' = InFlight
    <3>1. InFlight' = (buffer_list \o Recv) \o (From(sock, Len(Recv) + 1) \o wire)
      BY <1>1 DEF InFlight, Got
    <3>2. InFlight = buffer_list \o (sock \o wire)
      BY <1>1 DEF InFlight, Got
    <3>. QED
      BY <1>1, <2>4, <3>1, <3>2, ReadOn
  <2>. QED
    BY <1>1, <2>1, <2>7, <2>8, <2>9 DEF InPlace
<1>. QED
  BY <1>1, <1>2 DEF Orderly

\* The header is complete: it is the whole of it, and its length is that of its body.
LEMMA HeaderRead ==
  ASSUME TypeOK, Orderly, InPlace, Regular, Regular', RecvEndOfHeader
  PROVE  /\ buffer_list \o Recv = HeaderOf(asked[Turn], Turn)
         /\ Turn \in 1 .. Len(asked)
         /\ lex' = <<>> /\ request'.line = Turn
         /\ request'.length = IF asked[Turn].kind = "POST" THEN asked[Turn].length ELSE -1
         /\ Serve(request', <<>>)
<1>. DEFINE t == Turn
            h == HeaderOf(asked[t], t)
            b == Len(buffer_list)
            k == Min(Ends(state, Recv))
            more == From(Recv, k + 1)
<1>1. /\ stage = "STAGE_HEADER" /\ sock # <<>> /\ sock' = From(sock, Len(Recv) + 1)
      /\ Ends(state, Recv) # {} /\ overread' = (overread \/ more # <<>>)
  BY DEF RecvEndOfHeader, CanRead, Receives
<1>2. PICK o \in Parse(lex, buffer_list \o SubSeq(Recv, 1, k)) :
        /\ lex' = o.lex
        /\ IF o.accepts THEN Serve(SetRequest(o.reads), more) ELSE Refuse(Recv[k].req)
  BY DEF RecvEndOfHeader
<1>3. PICK a : a = asked[t]
  OBVIOUS
<1>4. /\ t \in 1 .. Len(asked) /\ a.kind \in {"GET", "POST"} /\ a.length \in Nat /\ h = HeaderOf(a, t)
      /\ b < Len(h) /\ state \in IF b = 0 THEN {"START", "FOUND"} ELSE {"CRLF"}
      /\ \A i \in 1 .. b : buffer_list[i] = h[i]
      /\ \A i \in 1 .. Len(Recv) : b + i <= Len(h) => Recv[i] = h[b + i]
  BY <1>1, <1>3, HeaderView
<1>5. Recv \in Seq(Units) /\ Len(Recv) \in Nat /\ Len(Recv) > 0
  <2>1. Recv \in Seq(Units) /\ Len(Recv) \in 1 .. Len(sock) /\ sock \in Seq(Units)
    BY <1>1, RecvIs DEF TypeOK
  <2>. QED
    BY ONLY <2>1
<1>6. buffer_list \in Seq(Units) /\ b \in Nat /\ t \in Nat /\ Len(asked) \in Nat /\ Len(h) \in Nat /\ h \in Seq(Units)
  BY <1>4, AskedType DEF TypeOK
<1>. HIDE DEF h, b, t
<1>7. k \in 1 .. Len(Recv) /\ b + k = Len(h)
  <2>1. /\ a.kind \in {"GET", "POST"} /\ a.length \in Nat /\ t \in Nat /\ b \in Nat
        /\ b < Len(HeaderOf(a, t)) /\ state \in IF b = 0 THEN {"START", "FOUND"} ELSE {"CRLF"}
        /\ Recv \in Seq(Units) /\ Len(Recv) > 0
        /\ \A i \in 1 .. Len(Recv) : b + i <= Len(HeaderOf(a, t)) => Recv[i] = HeaderOf(a, t)[b + i]
    BY ONLY <1>4, <1>5, <1>6
  <2>2. Ends(state, Recv) # {} => /\ Min(Ends(state, Recv)) \in 1 .. Len(Recv)
                                  /\ b + Min(Ends(state, Recv)) = Len(HeaderOf(a, t))
    BY ONLY <2>1, EndsAt, SMTT(20)
  <2>. QED
    BY ONLY <1>1, <1>4, <2>2
<1>. HIDE DEF k
<1>8. more = <<>> /\ k = Len(Recv)
  <2>1. ~overread'
    BY DEF Regular
  <2>2. more = <<>>
    BY ONLY <1>1, <2>1
  <2>3. k \in Nat /\ k <= Len(Recv)
    BY ONLY <1>5, <1>7
  <2>4. Len(more) = Len(Recv) - k
    BY ONLY <1>5, <2>3, Behind
  <2>5. Len(<<>>) = 0
    OBVIOUS
  <2>6. Len(Recv) - k = 0
    BY ONLY <2>2, <2>4, <2>5
  <2>. QED
    BY ONLY <1>5, <2>2, <2>3, <2>6
<1>9. SubSeq(Recv, 1, k) = Recv
  <2>1. SubSeq(Recv, 1, Len(Recv)) = Recv
    BY ONLY <1>5, SubSeqFull
  <2>. QED
    BY ONLY <1>8, <2>1
<1>10. buffer_list \o Recv = h
  <2>. DEFINE s == buffer_list \o Recv
  <2>1. /\ s \in Seq(Units) /\ Len(s) = b + Len(Recv)
        /\ \A i \in 1 .. b : s[i] = buffer_list[i]
        /\ \A i \in 1 .. Len(Recv) : s[b + i] = Recv[i]
    BY ONLY <1>5, <1>6, Joined DEF b
  <2>. HIDE DEF s
  <2>2. Len(s) = Len(h)
    BY ONLY <1>7, <1>8, <2>1
  <2>3. ASSUME NEW i \in 1 .. Len(s)
        PROVE  s[i] = h[i]
    <3>1. CASE i \in 1 .. b
      BY ONLY <1>4, <2>1, <3>1
    <3>2. CASE i \notin 1 .. b
      <4>1. i - b \in 1 .. Len(Recv) /\ b + (i - b) = i /\ b + (i - b) <= Len(h)
        BY ONLY <1>5, <1>6, <2>1, <2>2, <3>2, i \in 1 .. Len(s)
      <4>. QED
        BY ONLY <1>4, <2>1, <4>1
    <3>. QED
      BY <3>1, <3>2
  <2>4. s = h
    BY ONLY <1>6, <2>1, <2>2, <2>3, SeqEqual
  <2>. QED
    BY ONLY <2>4 DEF s
<1>11. o \in Parse(<<>>, HeaderOf(a, t))
  BY <1>2, <1>4, <1>9, <1>10 DEF InPlace
<1>12. o.accepts /\ o.reads = HeaderOf(a, t) /\ o.lex = <<>>
  BY ONLY <1>4, <1>6, <1>11, ParsesHeader
<1>. DEFINE r == SetRequest(HeaderOf(a, t))
<1>13. lex' = <<>> /\ Serve(r, <<>>)
  BY ONLY <1>2, <1>8, <1>12
<1>14. /\ r.line = t
       /\ r.length = IF request.length >= 0 \/ a.kind = "GET" THEN request.length ELSE a.length
  BY ONLY <1>4, <1>6, SetsRequest
<1>. HIDE DEF r
<1>15. r.length = IF a.kind = "POST" THEN a.length ELSE -1
  <2>1. request.length \in {-1} \cup Nat
    BY DEF TypeOK
  <2>2. CASE request.length >= 0
    <3>1. InHeader
      BY <1>1 DEF InPlace
    <3>2. /\ Len(resp) > 0 /\ asked[Len(resp)].kind = "POST"
          /\ asked[Len(resp)].length = request.length
      BY <2>1, <2>2, <3>1 DEF InHeader
    <3>3. Len(resp) \in 1 .. Len(asked) /\ Len(resp) < t
      <4>1. Len(resp) \in 0 .. Len(asked) /\ t = Len(resp) + 1
        BY DEF InPlace, Turn, t
      <4>. QED
        BY ONLY <1>6, <3>2, <4>1
    <3>4. Shape(asked[t]) = Shape(asked[Len(resp)])
      BY <1>4, <3>2, <3>3, AskedType DEF Regular, Suited
    <3>5. asked[t].length = asked[Len(resp)].length /\ asked[t].kind = "POST"
      BY ONLY <3>2, <3>4 DEF Shape
    <3>. QED
      BY ONLY <1>3, <1>14, <2>2, <3>2, <3>5
  <2>3. CASE ~(request.length >= 0)
    <3>1. request.length = -1
      BY ONLY <2>1, <2>3
    <3>. QED
      BY ONLY <1>4, <1>14, <2>3, <3>1
  <2>. QED
    BY <2>2, <2>3
<1>16. request' = r
  BY ONLY <1>13 DEF Serve
<1>17. Serve(request', <<>>)
  BY ONLY <1>13, <1>16
<1>. QED
  BY ONLY <1>3, <1>4, <1>10, <1>13, <1>14, <1>15, <1>16, <1>17 DEF h, t

\* The header is complete: its request is answered, or its body awaited.
LEMMA EndOfHeaderKeeps ==
  ASSUME TypeOK, Orderly, RecvEndOfHeader
  PROVE  Orderly'
<1>1. /\ UNCHANGED <<asked, conn, wire, abandoned>> /\ stage = "STAGE_HEADER" /\ sock # <<>>
      /\ sock' = From(sock, Len(Recv) + 1) /\ state' = "FOUND" /\ (overread => overread')
  BY DEF RecvEndOfHeader, CanRead, Receives, client
<1>2. stage' \in {"STAGE_HEADER", "STAGE_BODY"}
  <2>1. \E r, more : Serve(r, more) \/ Refuse(r)
    BY DEF RecvEndOfHeader
  <2>. QED
    BY <1>1, <2>1 DEF Serve, Refuse
<1>3. ASSUME Regular'
      PROVE  InPlace'
  <2>1. Regular /\ InPlace
    BY <1>1, <1>3, RegularBefore DEF Orderly
  <2>2. PICK t : t = Turn
    OBVIOUS
  <2>3. PICK a : a = asked[t]
    OBVIOUS
  <2>. DEFINE h == HeaderOf(a, t)
              rest == sock' \o wire
  <2>4. /\ buffer_list \o Recv = h /\ t \in 1 .. Len(asked)
        /\ lex' = <<>> /\ request'.line = t
        /\ request'.length = IF a.kind = "POST" THEN a.length ELSE -1
        /\ Serve(request', <<>>)
    BY <1>3, <2>1, <2>2, <2>3, HeaderRead
  <2>5. /\ buffer_list' = <<>>
        /\ resp' = IF request'.length > 0 THEN resp ELSE Append(resp, Answer(conn, request'.line, 200, <<>>))
        /\ IF request'.length > 0
           THEN stage' = "STAGE_BODY" /\ cur_body_len' = 0 /\ body_length' = request'.length
           ELSE stage' = stage
    BY <2>4 DEF Serve, ClearAndAppend, AfterHeader, HasBody
  <2>6. /\ a.kind \in {"GET", "POST", "bad"} /\ a.length \in Nat /\ h \in Seq(Units) /\ Len(h) \in Nat
        /\ Whole(a, t) \in Seq(Units) /\ Len(asked) \in Nat /\ a.conn = conn
        /\ (a.kind # "POST" => a.length = 0)
    <3>1. t \in Turn .. Len(asked) /\ Len(asked) \in Nat
      <4>1. Len(asked) \in Nat
        BY AskedType
      <4>. QED
        BY ONLY <2>2, <2>4, <4>1
    <3>2. asked[t].conn = conn
      BY <2>1, <3>1 DEF InPlace
    <3>3. asked[t].kind # "POST" => asked[t].length = 0
      BY <2>4 DEF Orderly
    <3>. QED
      BY <2>3, <2>4, <3>1, <3>2, <3>3, AskedType
  <2>7. /\ Len(resp) \in Nat /\ t = Len(resp) + 1 /\ t \in Nat
        /\ resp = [id \in 1 .. Len(resp) |-> Due(asked, id)]
        /\ \A id \in t .. Len(asked) : asked[id].conn = conn
        /\ Laid(InFlight, asked, Len(resp))
    <3>1. Len(resp) \in 0 .. Len(asked) /\ Len(asked) \in Nat
      BY <2>1, <2>6 DEF InPlace
    <3>2. Len(resp) \in Nat /\ Len(resp) + 1 \in Nat
      BY ONLY <3>1
    <3>. QED
      BY <2>1, <2>2, <3>2 DEF InPlace, Turn
  <2>8. InFlight = h \o rest /\ rest \in Seq(Units)
    <3>1. buffer_list \in Seq(Units) /\ sock' \in Seq(Units) /\ wire \in Seq(Units)
      <4>1. sock' \in Seq(Units)
        <5>1. Len(Recv) + 1 \in Nat \ {0} /\ sock \in Seq(Units)
          BY RecvType DEF TypeOK
        <5>. QED
          BY ONLY <1>1, <5>1, FromType
      <4>. QED
        BY <4>1 DEF TypeOK
    <3>2. InFlight = buffer_list \o (sock \o wire)
      BY <1>1 DEF InFlight, Got
    <3>3. InFlight = (buffer_list \o Recv) \o rest
      BY <1>1, <3>1, <3>2, ReadOn
    <3>4. rest \in Seq(Units)
      BY ONLY <3>1, Joined
    <3>. QED
      BY ONLY <2>4, <3>3, <3>4
  <2>9. CASE a.length = 0
    <3>1. stage' = "STAGE_HEADER" /\ resp' = Append(resp, Answer(conn, t, 200, <<>>))
      <4>1. ~(request'.length > 0)
        BY ONLY <2>4, <2>9
      <4>. QED
        BY ONLY <1>1, <2>4, <2>5, <4>1
    <3>2. BodyOf(a, t) = <<>>
      <4>1. BodyOf(a, t) \in Seq(Units) /\ Len(BodyOf(a, t)) = 0
        BY ONLY <2>6, <2>7, <2>9, WholeType
      <4>. QED
        BY ONLY <4>1
    <3>3. Answer(conn, t, 200, <<>>) = Due(asked, Len(resp) + 1)
      BY ONLY <2>3, <2>6, <2>7, <3>2 DEF Due
    <3>4. resp' = [id \in 1 .. t |-> Due(asked, id)] /\ Len(resp') = t
      <4>1. resp' = Append(resp, Due(asked, Len(resp) + 1))
        BY ONLY <3>1, <3>3
      <4>2. PICK s, m : s = resp /\ m = Len(resp)
        OBVIOUS
      <4>3. m \in Nat /\ s = [id \in 1 .. m |-> Due(asked, id)]
        BY ONLY <2>7, <4>2
      <4>4. /\ Append(s, Due(asked, m + 1)) = [id \in 1 .. m + 1 |-> Due(asked, id)]
            /\ Len(Append(s, Due(asked, m + 1))) = m + 1
        BY ONLY <4>3, AnswerMore
      <4>. QED
        BY ONLY <2>7, <4>1, <4>2, <4>4
    <3>5. Whole(a, t) = h
      <4>1. h \o <<>> = h
        BY ONLY <2>6
      <4>. QED
        BY ONLY <3>2, <4>1 DEF Whole
    <3>6. Laid(rest, asked, t)
      <4>1. Len(resp) \in Nat /\ Turn \in 1 .. Len(asked)
        BY ONLY <2>2, <2>4, <2>7
      <4>2. Laid(Whole(asked[Turn], Turn) \o rest, asked, Len(resp))
        BY ONLY <2>2, <2>3, <2>7, <2>8, <3>5
      <4>3. Laid(rest, asked, Turn)
        BY <2>8, <4>1, <4>2, Consumed
      <4>. QED
        BY ONLY <2>2, <4>3
    <3>7. InFlight' = rest
      <4>1. InFlight' = <<>> \o rest
        BY <1>1, <2>5, <3>1 DEF InFlight, Got
      <4>. QED
        BY ONLY <2>8, <4>1
    <3>8. InHeader'
      <4>1. buffer_list' = <<>> /\ state' = "FOUND"
        BY ONLY <1>1, <2>5
      <4>2. request'.length >= 0 => a.kind = "POST" /\ request'.length = a.length
        BY ONLY <2>4
      <4>3. asked'[Len(resp')] = a /\ Len(resp') > 0
        BY ONLY <1>1, <2>3, <2>4, <3>4
      <4>. QED
        BY ONLY <4>1, <4>2, <4>3 DEF InHeader
    <3>9. \A id \in Turn' .. Len(asked') : asked'[id].conn = conn'
      <4>1. Turn' = t + 1
        BY <3>4 DEF Turn
      <4>2. \A id \in t + 1 .. Len(asked) : id \in t .. Len(asked)
        BY ONLY <2>6, <2>7
      <4>. QED
        BY ONLY <1>1, <2>7, <4>1, <4>2
    <3>10. Len(resp') \in 0 .. Len(asked') /\ resp' = [id \in 1 .. Len(resp') |-> Due(asked', id)]
      <4>1. t \in 0 .. Len(asked)
        BY ONLY <2>4, <2>6
      <4>. QED
        BY ONLY <1>1, <3>4, <4>1
    <3>11. Laid(InFlight', asked', Len(resp'))
      BY ONLY <1>1, <3>4, <3>6, <3>7
    <3>. QED
      BY <2>4, <3>1, <3>8, <3>9, <3>10, <3>11 DEF InPlace
  <2>10. CASE a.length # 0
    <3>1. request'.length > 0 /\ request'.length = a.length
      BY ONLY <2>4, <2>6, <2>10
    <3>2. stage' = "STAGE_BODY" /\ resp' = resp /\ cur_body_len' = 0 /\ body_length' = a.length
      BY ONLY <2>4, <2>5, <3>1
    <3>3. Turn' = t
      BY <2>2, <3>2 DEF Turn
    <3>4. InFlight' = h \o rest
      <4>1. InFlight' = (h \o <<>>) \o rest
        BY <1>1, <2>3, <2>5, <3>2, <3>3 DEF InFlight, Got
      <4>2. h \o <<>> = h
        BY ONLY <2>6
      <4>. QED
        BY ONLY <4>1, <4>2
    <3>5. InBody'
      <4>1. Len(<<>>) = 0 /\ t <= Len(asked) /\ 0 < a.length /\ a.kind = "POST"
        BY ONLY <2>4, <2>6, <2>10
      <4>. QED
        BY ONLY <1>1, <2>3, <2>4, <2>5, <3>2, <3>3, <4>1 DEF InBody
    <3>6. /\ Len(resp') \in 0 .. Len(asked') /\ resp' = [id \in 1 .. Len(resp') |-> Due(asked', id)]
          /\ \A id \in Turn' .. Len(asked') : asked'[id].conn = conn'
          /\ Laid(InFlight', asked', Len(resp'))
      <4>1. Len(resp) \in 0 .. Len(asked)
        BY <2>1 DEF InPlace
      <4>. QED
        BY ONLY <1>1, <2>7, <2>8, <3>2, <3>3, <3>4, <4>1
    <3>. QED
      BY <2>4, <3>2, <3>5, <3>6 DEF InPlace
  <2>. QED
    BY <2>9, <2>10
<1>. QED
  BY <1>1, <1>2, <1>3 DEF Orderly

\* What a read in a body is: bytes of the body of the request that is next, and perhaps
\* units of what comes behind it.
LEMMA BodyView ==
  ASSUME TypeOK, InPlace, Orderly, Regular, stage = "STAGE_BODY", sock # <<>>
  PROVE  /\ Turn \in 1 .. Len(asked) /\ asked[Turn].kind = "POST" /\ asked[Turn].length \in Nat
         /\ request.line = Turn /\ body_length = asked[Turn].length
         /\ cur_body_len = Len(buffer_list) /\ cur_body_len < body_length
         /\ \A i \in 1 .. cur_body_len : buffer_list[i] = Unit("byte", Turn, i)
         /\ \A i \in 1 .. Len(Recv) :
              cur_body_len + i <= body_length => Recv[i] = Unit("byte", Turn, cur_body_len + i)
<1>1. PICK t, a : t = Turn /\ a = asked[t]
  OBVIOUS
<1>. DEFINE n == Len(asked)
            b == Len(buffer_list)
            h == HeaderOf(a, t)
            w == Whole(a, t)
            got == h \o buffer_list
            sent == sock \o wire
            q == InFlight
<1>2. InBody
  BY DEF InPlace
<1>3. /\ buffer_list \in Seq(Units) /\ b \in Nat /\ sock \in Seq(Units) /\ wire \in Seq(Units)
      /\ Len(sock) \in Nat /\ Len(sock) > 0
      /\ asked \in Seq([kind : {"GET", "POST", "bad"}, length : Nat, conn : Int])
  BY DEF TypeOK
<1>4. n \in Nat /\ Len(resp) \in Nat /\ t = Len(resp) + 1 /\ t \in 1 .. n /\ Len(resp) < n
  <2>1. n \in Nat /\ Len(resp) \in 0 .. n /\ Turn = Len(resp) + 1 /\ Turn <= n
    BY <1>2, AskedType DEF InPlace, InBody, Turn
  <2>. QED
    BY ONLY <1>1, <2>1
<1>5. /\ a.kind = "POST" /\ a.length \in Nat /\ request.line = t /\ body_length = a.length
      /\ cur_body_len = b /\ b < a.length
  <2>1. a.length \in Nat
    BY <1>1, <1>4, AskedType
  <2>2. /\ a.kind = "POST" /\ request.line = t /\ body_length = a.length
        /\ cur_body_len = b /\ cur_body_len < body_length
    BY <1>1, <1>2 DEF InBody
  <2>. QED
    BY ONLY <2>1, <2>2
<1>6. /\ h \in Seq(Units) /\ Len(h) = 3 /\ Len(w) = 3 + a.length
      /\ \A i \in 1 .. a.length : w[3 + i] = Unit("byte", t, i)
  <2>1. a.kind \in {"GET", "POST", "bad"} /\ a.length \in Nat /\ t \in Nat
    BY ONLY <1>4, <1>5
  <2>2. /\ HeaderOf(a, t) \in Seq(Units)
        /\ Len(HeaderOf(a, t)) = IF a.kind = "GET" THEN 2 ELSE 3
        /\ \A j \in 1 .. a.length : BodyOf(a, t)[j] = Unit("byte", t, j)
        /\ Len(Whole(a, t)) = Len(HeaderOf(a, t)) + a.length
        /\ \A i \in 1 .. a.length : Whole(a, t)[Len(HeaderOf(a, t)) + i] = BodyOf(a, t)[i]
    BY ONLY <2>1, WholeType, SMTT(20)
  <2>3. Len(h) = 3
    BY ONLY <1>5, <2>2
  <2>. QED
    BY ONLY <2>2, <2>3
<1>7. q = got \o sent /\ q \in Seq(Units) /\ sent \in Seq(Units) /\ got \in Seq(Units)
  BY <1>1, InFlightType DEF InFlight, Got
<1>8. \A i \in 1 .. Len(w) : q[i] = w[i]
  <2>1. \A j \in 1 .. Len(asked) : Whole(asked[j], j) \in Seq(Units)
    BY AskedType
  <2>2. Laid(q, asked, Len(resp))
    BY DEF InPlace
  <2>. HIDE DEF q
  <2>3. \A i \in 1 .. Len(Whole(asked[Len(resp) + 1], Len(resp) + 1)) :
          q[i] = Whole(asked[Len(resp) + 1], Len(resp) + 1)[i]
    <3>1. q \in Seq(Units) /\ Len(resp) \in Nat /\ Len(resp) < Len(asked)
      BY ONLY <1>4, <1>7
    <3>2. asked \in Seq([kind : {"GET", "POST", "bad"}, length : Nat, conn : Int])
      BY ONLY <1>3
    <3>. QED
      BY ONLY <2>1, <2>2, <3>1, <3>2, LaidFirst, ZenonT(40)
  <2>. QED
    BY ONLY <1>1, <1>4, <2>3
<1>. HIDE DEF q, got, sent, w, h
<1>9. Len(got) = 3 + b /\ \A i \in 1 .. b : got[3 + i] = buffer_list[i]
  <2>1. /\ Len(h \o buffer_list) = Len(h) + Len(buffer_list)
        /\ \A i \in 1 .. Len(buffer_list) : (h \o buffer_list)[Len(h) + i] = buffer_list[i]
    BY ONLY <1>3, <1>6, Joined
  <2>. QED
    BY ONLY <1>6, <2>1 DEF got
<1>10. /\ \A i \in 1 .. Len(sock) : sent[i] = sock[i]
       /\ Len(sent) = Len(sock) + Len(wire) /\ Len(wire) \in Nat
  BY ONLY <1>3, Joined DEF sent
<1>11. /\ \A i \in 1 .. Len(got) : q[i] = got[i]
       /\ \A i \in 1 .. Len(sent) : q[Len(got) + i] = sent[i]
  BY ONLY <1>7, Joined
<1>. HIDE DEF b, n
<1>12. ASSUME NEW i \in 1 .. b
       PROVE  buffer_list[i] = Unit("byte", t, i)
  <2>1. i \in 1 .. a.length /\ 3 + i \in 1 .. Len(got) /\ 3 + i \in 1 .. Len(w)
    <3>1. b \in Nat /\ a.length \in Nat /\ b < a.length /\ Len(got) = 3 + b /\ Len(w) = 3 + a.length
      BY ONLY <1>3, <1>5, <1>6, <1>9
    <3>. QED
      BY ONLY <3>1, i \in 1 .. b
  <2>2. buffer_list[i] = q[3 + i]
    BY ONLY <1>9, <1>11, <2>1, i \in 1 .. b
  <2>. QED
    BY ONLY <1>6, <1>8, <2>1, <2>2
<1>13. ASSUME NEW i \in 1 .. Len(Recv), b + i <= a.length
       PROVE  Recv[i] = Unit("byte", t, b + i)
  <2>1. Recv[i] = sock[i] /\ Len(Recv) \in 1 .. Len(sock)
    BY RecvIs
  <2>2. i \in Nat /\ i \in 1 .. Len(sock) /\ i \in 1 .. Len(sent)
    <3>1. i \in Nat /\ 1 <= i /\ i <= Len(sock)
      BY ONLY <1>3, <2>1, i \in 1 .. Len(Recv)
    <3>. QED
      BY ONLY <1>3, <1>10, <3>1
  <2>3. b + i \in 1 .. a.length /\ 3 + (b + i) \in 1 .. Len(w) /\ Len(got) + i = 3 + (b + i)
    <3>1. b \in Nat /\ a.length \in Nat /\ Len(got) = 3 + b /\ Len(w) = 3 + a.length /\ 1 <= i
      BY ONLY <1>3, <1>5, <1>6, <1>9, <2>2
    <3>. QED
      BY ONLY <1>13, <2>2, <3>1
  <2>4. q[3 + (b + i)] = Unit("byte", t, b + i)
    BY ONLY <1>6, <1>8, <2>3
  <2>5. q[Len(got) + i] = sock[i]
    BY ONLY <1>10, <1>11, <2>2
  <2>. QED
    BY ONLY <2>1, <2>3, <2>4, <2>5
<1>. QED
  BY ONLY <1>1, <1>4, <1>5, <1>12, <1>13 DEF b, n

\* The body goes on.
LEMMA PartOfBodyKeeps ==
  ASSUME TypeOK, Orderly, RecvPartOfBody
  PROVE  Orderly'
<1>1. /\ UNCHANGED <<asked, conn, wire, stage, state, body_length, request, lex, resp, overread, abandoned>>
      /\ stage = "STAGE_BODY" /\ sock # <<>> /\ sock' = From(sock, Len(Recv) + 1)
      /\ Bytes(Recv) < body_length - cur_body_len
      /\ buffer_list' = buffer_list \o Recv /\ cur_body_len' = cur_body_len + Bytes(Recv)
  BY DEF RecvPartOfBody, CanRead, Receives, AppendData, client, Missing, Counted, history
<1>2. ASSUME Regular'
      PROVE  InPlace'
  <2>1. Regular /\ InPlace
    BY <1>1, <1>2, RegularBefore DEF Orderly
  <2>2. PICK t, a : t = Turn /\ a = asked[t]
    OBVIOUS
  <2>3. /\ t \in 1 .. Len(asked) /\ a.kind = "POST" /\ a.length \in Nat
        /\ body_length = a.length
        /\ cur_body_len = Len(buffer_list) /\ cur_body_len < body_length
        /\ \A i \in 1 .. Len(Recv) :
             cur_body_len + i <= body_length => Recv[i] = Unit("byte", t, cur_body_len + i)
    BY <1>1, <2>1, <2>2, BodyView
  <2>4. /\ Recv \in Seq(Units) /\ Len(Recv) \in Nat /\ Bytes(Recv) \in Nat /\ Bytes(Recv) >= Len(Recv)
        /\ buffer_list \in Seq(Units) /\ cur_body_len \in Nat /\ body_length \in Nat
    BY RecvType, BytesType, BytesAtLeast DEF TypeOK
  <2>5. Bytes(Recv) = Len(Recv)
    <3>1. cur_body_len + Len(Recv) < body_length
      BY ONLY <1>1, <2>4
    <3>2. \A i \in 1 .. Len(Recv) : cur_body_len + i <= body_length
      BY ONLY <2>4, <3>1
    <3>3. \A i \in 1 .. Len(Recv) : Recv[i].kind = "byte"
      <4>1. \A id, n : Unit("byte", id, n).kind = "byte"
        BY DEF Unit
      <4>2. \A i \in 1 .. Len(Recv) : Recv[i] = Unit("byte", t, cur_body_len + i)
        BY ONLY <2>3, <3>2
      <4>. QED
        BY ONLY <4>1, <4>2
    <3>. QED
      BY ONLY <2>4, <3>3, BytesOfBytes
  <2>6. cur_body_len' = Len(buffer_list') /\ cur_body_len' < body_length'
    <3>1. Len(buffer_list \o Recv) = Len(buffer_list) + Len(Recv)
      BY ONLY <2>4, Joined
    <3>2. cur_body_len + Bytes(Recv) < body_length
      BY ONLY <1>1, <2>4
    <3>. QED
      BY ONLY <1>1, <2>3, <2>5, <3>1, <3>2
  <2>7. Turn' = Turn
    BY <1>1 DEF Turn
  <2>8. InBody'
    BY <1>1, <2>1, <2>6, <2>7 DEF InPlace, InBody
  <2>9. InFlight' = InFlight
    <3>. DEFINE h == HeaderOf(a, t)
                rest == From(sock, Len(Recv) + 1) \o wire
    <3>1. h \in Seq(Units) /\ h \o buffer_list \in Seq(Units)
      <4>1. h \in Seq(Units)
        BY <2>2, <2>3, AskedType
      <4>. QED
        BY ONLY <2>4, <4>1, Joined
    <3>2. InFlight' = (h \o (buffer_list \o Recv)) \o rest
      BY <1>1, <2>2, <2>7 DEF InFlight, Got
    <3>3. InFlight = (h \o buffer_list) \o (sock \o wire)
      BY <1>1, <2>2 DEF InFlight, Got
    <3>. HIDE DEF h, rest
    <3>4. h \o (buffer_list \o Recv) = (h \o buffer_list) \o Recv
      <4>1. h \in Seq(Units) /\ buffer_list \in Seq(Units) /\ Recv \in Seq(Units)
        BY ONLY <2>4, <3>1
      <4>. QED
        BY ONLY <4>1, Assoc, ZenonT(40)
    <3>. DEFINE got == h \o buffer_list
    <3>. HIDE DEF got
    <3>5. (got \o Recv) \o rest = got \o (sock \o wire)
      <4>1. got \in Seq(Units)
        BY ONLY <3>1 DEF got
      <4>. QED
        BY <1>1, <4>1, ReadOn DEF rest
    <3>. QED
      BY ONLY <3>2, <3>3, <3>4, <3>5 DEF got
  <2>. QED
    BY <1>1, <2>1, <2>7, <2>8, <2>9 DEF InPlace
<1>. QED
  BY <1>1, <1>2 DEF Orderly

\* The body is complete: it is the whole of it, and its request is answered.
LEMMA EndOfBodyKeeps ==
  ASSUME TypeOK, Orderly, RecvEndOfBody
  PROVE  Orderly'
<1>. DEFINE more == Bytes(Recv) - Missing > 0
            kept == AfterBody(buffer_list \o Covering(Recv, Missing), Bytes(Recv) - Missing)
<1>1. /\ UNCHANGED <<asked, conn, wire, state, body_length, cur_body_len, request, lex, abandoned>>
      /\ stage = "STAGE_BODY" /\ stage' = "STAGE_HEADER" /\ sock # <<>>
      /\ sock' = From(sock, Len(Recv) + 1)
      /\ Bytes(Recv) >= Missing
      /\ resp' = Append(resp, Answer(conn, request.line, 200, buffer_list \o Covering(Recv, Missing)))
      /\ buffer_list' = kept /\ overread' = (overread \/ more)
  BY DEF RecvEndOfBody, CanRead, Receives, ClearAndAppend, client
<1>2. ASSUME Regular'
      PROVE  InPlace'
  <2>1. Regular /\ InPlace /\ ~more
    <3>1. Regular /\ ~overread'
      BY <1>1, <1>2, RegularBefore
    <3>. QED
      BY <1>1, <3>1 DEF Orderly
  <2>2. PICK t, a : t = Turn /\ a = asked[t]
    OBVIOUS
  <2>. DEFINE n == Len(Recv)
              b == Len(buffer_list)
              h == HeaderOf(a, t)
              body == BodyOf(a, t)
              rest == sock' \o wire
  <2>3. /\ t \in 1 .. Len(asked) /\ a.kind = "POST" /\ a.length \in Nat
        /\ request.line = t /\ body_length = a.length
        /\ cur_body_len = b /\ cur_body_len < body_length
        /\ \A i \in 1 .. cur_body_len : buffer_list[i] = Unit("byte", t, i)
        /\ \A i \in 1 .. Len(Recv) :
             cur_body_len + i <= body_length => Recv[i] = Unit("byte", t, cur_body_len + i)
    BY <1>1, <2>1, <2>2, BodyView
  <2>4. /\ Recv \in Seq(Units) /\ n \in Nat /\ Bytes(Recv) \in Nat /\ Bytes(Recv) >= n
        /\ buffer_list \in Seq(Units) /\ b \in Nat /\ cur_body_len \in Nat /\ body_length \in Nat
    BY RecvType, BytesType, BytesAtLeast DEF TypeOK
  <2>5. Bytes(Recv) = a.length - b /\ Missing = a.length - b
    <3>1. Missing = a.length - b
      BY ONLY <2>3 DEF Missing
    <3>2. Bytes(Recv) >= Missing /\ ~(Bytes(Recv) - Missing > 0)
      BY ONLY <1>1, <2>1
    <3>3. a.length - b \in Int
      BY ONLY <2>3, <2>4
    <3>. QED
      BY ONLY <2>4, <3>1, <3>2, <3>3
  <2>. HIDE DEF n, b, h, body, rest
  <2>6. \A i \in 1 .. n : b + i <= a.length
    <3>1. b \in Nat /\ a.length \in Nat /\ n \in Nat /\ n <= a.length - b
      BY ONLY <2>3, <2>4, <2>5
    <3>. QED
      BY ONLY <3>1
  <2>7. \A i \in 1 .. n : Recv[i] = Unit("byte", t, b + i)
    BY ONLY <2>3, <2>6 DEF n
  <2>8. n = a.length - b /\ n > 0 /\ Covering(Recv, Missing) = Recv
    <3>1. \A i \in 1 .. n : Recv[i].kind = "byte"
      <4>1. \A id, m : Unit("byte", id, m).kind = "byte"
        BY DEF Unit
      <4>. QED
        BY ONLY <2>7, <4>1
    <3>2. Bytes(Recv) = Len(Recv)
      BY ONLY <2>4, <3>1, BytesOfBytes DEF n
    <3>3. n = a.length - b /\ Missing = Len(Recv)
      BY ONLY <2>5, <3>2 DEF n
    <3>4. Len(Recv) > 0
      BY ONLY <2>3, <2>4, <3>3 DEF n
    <3>5. Covering(Recv, Len(Recv)) = Recv
      BY ONLY <2>4, <3>1, <3>4, CoversAll DEF n
    <3>. QED
      BY ONLY <3>3, <3>4, <3>5 DEF n
  <2>9. /\ body \in Seq(Units) /\ Len(body) = a.length /\ h \in Seq(Units)
        /\ \A i \in 1 .. a.length : body[i] = Unit("byte", t, i)
    <3>1. a.kind \in {"GET", "POST", "bad"} /\ a.length \in Nat /\ t \in Nat
      BY <2>3
    <3>. QED
      BY ONLY <3>1, WholeType DEF body, h
  <2>10. buffer_list \o Recv = body
    <3>. DEFINE s == buffer_list \o Recv
    <3>1. /\ s \in Seq(Units) /\ Len(s) = b + n
          /\ \A i \in 1 .. b : s[i] = buffer_list[i]
          /\ \A i \in 1 .. n : s[b + i] = Recv[i]
      BY ONLY <2>4, Joined DEF b, n
    <3>. HIDE DEF s
    <3>2. b \in Nat /\ n \in Nat /\ a.length \in Nat /\ b + n = a.length
      BY ONLY <2>3, <2>4, <2>8
    <3>3. Len(s) = b + n /\ Len(s) = a.length
      BY ONLY <3>1, <3>2
    <3>4. ASSUME NEW i \in 1 .. Len(s)
          PROVE  s[i] = body[i]
      <4>1. i \in 1 .. a.length
        BY ONLY <3>3, i \in 1 .. Len(s)
      <4>2. CASE i \in 1 .. b
        BY ONLY <2>3, <2>9, <3>1, <4>1, <4>2
      <4>3. CASE i \notin 1 .. b
        <5>1. i - b \in 1 .. n /\ b + (i - b) = i
          BY ONLY <3>2, <4>1, <4>3
        <5>2. s[b + (i - b)] = Unit("byte", t, b + (i - b))
          BY ONLY <2>7, <3>1, <5>1
        <5>. QED
          BY ONLY <2>9, <4>1, <5>1, <5>2
      <4>. QED
        BY <4>2, <4>3
    <3>5. s = body
      BY ONLY <2>9, <3>1, <3>3, <3>4, SeqEqual
    <3>. QED
      BY ONLY <3>5 DEF s
  <2>11. /\ Len(resp) \in Nat /\ t = Len(resp) + 1 /\ t \in Nat /\ Len(asked) \in Nat
         /\ resp = [id \in 1 .. Len(resp) |-> Due(asked, id)]
         /\ \A id \in t .. Len(asked) : asked[id].conn = conn
         /\ Laid(InFlight, asked, Len(resp))
    <3>1. Len(resp) \in 0 .. Len(asked) /\ Len(asked) \in Nat
      BY <2>1, AskedType DEF InPlace
    <3>2. Len(resp) \in Nat /\ Len(resp) + 1 \in Nat
      BY ONLY <3>1
    <3>. QED
      BY <2>1, <2>2, <3>1, <3>2 DEF InPlace, Turn
  <2>12. a.conn = conn
    <3>1. t \in t .. Len(asked)
      BY ONLY <2>3, <2>11
    <3>. QED
      BY ONLY <2>2, <2>11, <3>1
  <2>13. Answer(conn, request.line, 200, buffer_list \o Covering(Recv, Missing)) = Due(asked, Len(resp) + 1)
    <3>1. Due(asked, t) = Answer(a.conn, t, 200, BodyOf(a, t))
      BY ONLY <2>2 DEF Due
    <3>. QED
      BY ONLY <2>3, <2>8, <2>10, <2>11, <2>12, <3>1 DEF body
  <2>14. resp' = [id \in 1 .. t |-> Due(asked, id)] /\ Len(resp') = t
    <3>1. resp' = Append(resp, Due(asked, Len(resp) + 1))
      BY ONLY <1>1, <2>13
    <3>2. PICK s, m : s = resp /\ m = Len(resp)
      OBVIOUS
    <3>3. m \in Nat /\ s = [id \in 1 .. m |-> Due(asked, id)]
      BY ONLY <2>11, <3>2
    <3>4. /\ Append(s, Due(asked, m + 1)) = [id \in 1 .. m + 1 |-> Due(asked, id)]
          /\ Len(Append(s, Due(asked, m + 1))) = m + 1
      BY ONLY <3>3, AnswerMore
    <3>. QED
      BY ONLY <2>11, <3>1, <3>2, <3>4
  <2>15. rest \in Seq(Units) /\ InFlight = Whole(a, t) \o rest
    <3>1. sock' \in Seq(Units) /\ wire \in Seq(Units)
      <4>1. Len(Recv) + 1 \in Nat \ {0} /\ sock \in Seq(Units)
        BY RecvType DEF TypeOK
      <4>2. sock' \in Seq(Units)
        BY ONLY <1>1, <4>1, FromType
      <4>. QED
        BY <4>2 DEF TypeOK
    <3>2. rest \in Seq(Units)
      BY ONLY <3>1, Joined DEF rest
    <3>. DEFINE got == h \o buffer_list
    <3>3. got \in Seq(Units)
      BY ONLY <2>4, <2>9, Joined
    <3>4. InFlight = got \o (sock \o wire)
      BY <1>1, <2>2 DEF InFlight, Got, h
    <3>5. got \o Recv = Whole(a, t)
      <4>1. (h \o buffer_list) \o Recv = h \o (buffer_list \o Recv)
        <5>1. h \in Seq(Units) /\ buffer_list \in Seq(Units) /\ Recv \in Seq(Units)
          BY ONLY <2>4, <2>9
        <5>. QED
          BY ONLY <5>1, Assoc, ZenonT(40)
      <4>. QED
        BY ONLY <2>10, <4>1 DEF Whole, h, body
    <3>. HIDE DEF got
    <3>6. (got \o Recv) \o (From(sock, Len(Recv) + 1) \o wire) = got \o (sock \o wire)
      BY <1>1, <3>3, ReadOn
    <3>. QED
      BY ONLY <1>1, <3>2, <3>4, <3>5, <3>6 DEF rest
  <2>16. Laid(rest, asked, t)
    <3>1. Len(resp) \in Nat /\ Turn \in 1 .. Len(asked)
      BY ONLY <2>2, <2>3, <2>11
    <3>2. Laid(Whole(asked[Turn], Turn) \o rest, asked, Len(resp))
      BY ONLY <2>2, <2>11, <2>15
    <3>3. Laid(rest, asked, Turn)
      BY <2>15, <3>1, <3>2, Consumed
    <3>. QED
      BY ONLY <2>2, <3>3
  <2>17. buffer_list' = <<>>
    <3>1. Bytes(Recv) - Missing = 0
      BY ONLY <2>3, <2>4, <2>5
    <3>2. \A s : AfterBody(s, 0) = <<>>
      BY DEF AfterBody, Window, Junk
    <3>. QED
      BY ONLY <1>1, <3>1, <3>2
  <2>18. InFlight' = rest
    <3>1. InFlight' = <<>> \o rest
      BY <1>1, <2>17 DEF InFlight, Got, rest
    <3>. QED
      BY ONLY <2>15, <3>1
  <2>19. InHeader'
    <3>1. InBody
      BY <1>1, <2>1 DEF InPlace
    <3>2. state' = "FOUND" /\ request'.length = a.length
      BY <1>1, <2>2, <3>1 DEF InBody
    <3>3. Len(resp') > 0 /\ asked'[Len(resp')] = a
      <4>1. t > 0
        BY ONLY <2>3
      <4>. QED
        BY ONLY <1>1, <2>2, <2>14, <4>1
    <3>. QED
      BY ONLY <2>3, <2>17, <3>2, <3>3 DEF InHeader
  <2>20. \A id \in Turn' .. Len(asked') : asked'[id].conn = conn'
    <3>1. Turn' = t + 1
      BY <2>14 DEF Turn
    <3>2. \A id \in t + 1 .. Len(asked) : id \in t .. Len(asked)
      BY ONLY <2>11
    <3>. QED
      BY ONLY <1>1, <2>11, <3>1, <3>2
  <2>21. /\ Len(resp') \in 0 .. Len(asked') /\ resp' = [id \in 1 .. Len(resp') |-> Due(asked', id)]
         /\ Laid(InFlight', asked', Len(resp'))
    <3>1. t \in 0 .. Len(asked)
      BY ONLY <2>3, <2>11
    <3>. QED
      BY ONLY <1>1, <2>14, <2>16, <2>18, <3>1
  <2>22. lex' = <<>>
    BY <1>1, <2>1 DEF InPlace
  <2>. QED
    BY <1>1, <2>19, <2>20, <2>21, <2>22 DEF InPlace
<1>. QED
  BY <1>1, <1>2 DEF Orderly

\* A step that leaves the handler's past irregular keeps what only a regular one needs.
LEMMA IrregularKeeps ==
  ASSUME Orderly, UNCHANGED <<asked, conn, stage>>, overread'
  PROVE  Orderly'
BY DEF Orderly, Regular

\* Nothing is sent, read or answered at the start.
LEMMA OrderlyAtFirst == Init => Orderly
<1>. SUFFICES ASSUME Init
              PROVE  Orderly
  OBVIOUS
<1>1. /\ asked = <<>> /\ resp = <<>> /\ wire = <<>> /\ sock = <<>> /\ buffer_list = <<>> /\ lex = <<>>
      /\ conn = 1 /\ stage = "STAGE_HEADER" /\ state = "START" /\ request.length = -1
  BY DEF Init
<1>2. InFlight = <<>>
  BY <1>1 DEF InFlight, Got
<1>3. Laid(<<>>, <<>>, 0)
  <2>. DEFINE at == [j \in Nat |-> 0]
  <2>1. at \in [Nat -> Nat] /\ Len(<<>>) = 0 /\ \A j \in Nat : at[j] = 0
    OBVIOUS
  <2>2. \A i, j \in 0 + 1 .. Len(<<>>) + 1 : i <= j => at[i] <= at[j]
    OBVIOUS
  <2>3. Len(<<>>) = at[Len(<<>>) + 1] - at[0 + 1]
    OBVIOUS
  <2>4. \A j \in 0 + 1 .. Len(<<>>) : FALSE
    OBVIOUS
  <2>. HIDE DEF at
  <2>. QED
    BY <2>1, <2>2, <2>3, <2>4 DEF Laid
<1>4. resp = [id \in 1 .. Len(resp) |-> Due(asked, id)] /\ Len(resp) = 0 /\ Len(asked) = 0
  BY ONLY <1>1
<1>5. InHeader
  BY <1>1 DEF InHeader
<1>6. InPlace
  <2>1. \A id \in Turn .. Len(asked) : asked[id].conn = conn
    BY <1>4 DEF Turn
  <2>2. Laid(InFlight, asked, Len(resp))
    BY ONLY <1>1, <1>2, <1>3, <1>4
  <2>. QED
    BY <1>1, <1>4, <1>5, <2>1, <2>2 DEF InPlace
<1>7. conn \in 1 .. MaxConns
  BY <1>1, MaxConnsAssumption
<1>8. \A id \in 1 .. Len(asked) : FALSE
  BY ONLY <1>4
<1>. QED
  BY <1>1, <1>6, <1>7, <1>8 DEF Orderly

\* One case for each action.
LEMMA OrderlyStep == IInv /\ Orderly /\ [Next]_vars => Orderly'
<1>. SUFFICES ASSUME TypeOK, BodyAccounted, Orderly, [Next]_vars
              PROVE  Orderly'
  BY DEF IInv
<1>1. CASE Ask
  BY <1>1, AskKeeps
<1>2. ASSUME NEW n \in 1 .. Len(wire), Arrive(n)
      PROVE  Orderly'
  <2>1. /\ UNCHANGED <<asked, conn, handler, lex, resp>> /\ (overread => overread')
        /\ (abandoned => abandoned')
        /\ sock' = sock \o SubSeq(wire, 1, n) /\ wire' = From(wire, n + 1)
    BY <1>2 DEF Arrive
  <2>2. sock' \o wire' = sock \o wire
    BY <2>1, ArriveOn
  <2>. QED
    BY <2>1, <2>2, MoveKeeps
<1>3. CASE Reconnect
  BY <1>3, ReconnectKeeps
<1>4. CASE Process
  BY <1>4, MoveKeeps DEF Process, client, history
<1>5. CASE RecvNothing
  BY <1>5, MoveKeeps DEF RecvNothing, client, history
<1>6. CASE RecvPartOfBody
  BY <1>6, PartOfBodyKeeps
<1>7. CASE RecvEndOfBody
  BY <1>7, EndOfBodyKeeps
<1>8. CASE AssertFails
  <2>1. /\ UNCHANGED <<asked, conn, handler, overread>>
        /\ stage = "STAGE_BODY" /\ count # cur_body_len
    BY <1>8 DEF AssertFails, client, CanRead, Receives, history
  <2>2. overread
    BY <2>1 DEF BodyAccounted
  <2>. QED
    BY <2>1, <2>2, IrregularKeeps DEF handler
<1>9. CASE RecvPartOfHeader
  BY <1>9, PartOfHeaderKeeps
<1>10. CASE RecvEndOfHeader
  BY <1>10, EndOfHeaderKeeps
<1>11. CASE CopySmashes
  BY <1>11, IrregularKeeps DEF CopySmashes, client, handler, history
<1>12. CASE UNCHANGED vars
  BY <1>12, MoveKeeps DEF vars, client, history
<1>13. CASE StackOverrun
  BY <1>13, MoveKeeps DEF StackOverrun, client, history
<1>. QED
  BY <1>1, <1>2, <1>3, <1>4, <1>5, <1>6, <1>7, <1>8, <1>9, <1>10, <1>11, <1>12, <1>13 DEF Next, ReadData

-----------------------------------------------------------------------------
(* What the clients get.                                                   *)

\* The handler keeps its place in the stream as long as its past is regular
\* (http_handler.cc:34-95).
THEOREM PlaceIsKept == Spec => []Orderly
BY HandlerInvariant, OrderlyAtFirst, OrderlyStep, PTL DEF Spec

\* However the stream is cut, a client of well-formed requests that waits for its answers
\* gets the answers that are due, in order, each with the body of its own request
\* (http_handler.cc:34-95, buffer_list.cc:75-95).
THEOREM AnswersServed == Spec => []Served
<1>1. Orderly => Served
  <2>. SUFFICES ASSUME Orderly, Regular
                PROVE  \A id \in DOMAIN resp : id <= Len(asked) /\ resp[id] = Due(asked, id)
    BY DEF Served
  <2>1. Len(resp) \in 0 .. Len(asked) /\ resp = [id \in 1 .. Len(resp) |-> Due(asked, id)]
    BY DEF Orderly, InPlace
  <2>. QED
    BY ONLY <2>1
<1>. QED
  BY <1>1, PlaceIsKept, PTL

\* A step that answers makes the answer that is due, if its past stays regular.
LEMMA AnswerIsDue ==
  ASSUME TypeOK, Orderly, Orderly', Regular, Regular', asked' = asked, NEW x, resp' = Append(resp, x)
  PROVE  Exchange!Reply
<1>1. PICK s, m : s = resp /\ m = Len(resp)
  OBVIOUS
<1>2. m \in Nat /\ s = [id \in 1 .. m |-> Due(asked, id)] /\ Len(asked) \in Nat
  <2>1. Len(resp) \in 0 .. Len(asked) /\ Len(asked) \in Nat /\ resp = [id \in 1 .. Len(resp) |-> Due(asked, id)]
    BY AskedType DEF Orderly, InPlace
  <2>. QED
    BY ONLY <1>1, <2>1
<1>3. Len(Append(s, x)) = m + 1 /\ Append(s, x)[m + 1] = x
  BY ONLY <1>2
<1>4. /\ Len(resp') \in 0 .. Len(asked)
      /\ resp' = [id \in 1 .. Len(resp') |-> Due(asked, id)]
  BY DEF Orderly, InPlace
<1>5. resp' = Append(s, x) /\ Len(resp') = m + 1
  BY <1>1, <1>3
<1>6. Len(resp) < Len(asked)
  BY ONLY <1>1, <1>2, <1>4, <1>5
<1>7. x = Due(asked, m + 1)
  <2>1. m + 1 \in 1 .. m + 1
    BY ONLY <1>2
  <2>2. resp'[m + 1] = Due(asked, m + 1)
    BY ONLY <1>4, <1>5, <2>1
  <2>. QED
    BY ONLY <1>3, <1>5, <2>2
<1>. QED
  BY <1>1, <1>6, <1>7 DEF Exchange!Reply

\* What is asked is a request that there is.
LEMMA AskIsRequest ==
  ASSUME TypeOK, Orderly, Ask
  PROVE  Exchange!Ask
<1>1. PICK s \in Scripts :
        /\ Len(asked) < Len(s)
        /\ asked' = Append(asked, [kind |-> s[Len(asked) + 1].kind,
                                   length |-> s[Len(asked) + 1].length, conn |-> conn])
  BY DEF Ask, history
<1>. DEFINE id == Len(asked) + 1
            r == [kind |-> s[id].kind, length |-> s[id].length, conn |-> conn]
<1>2. id \in DOMAIN s
  <2>1. Len(asked) \in Nat /\ s \in Seq([kind : {"GET", "POST", "bad"}, length : Nat])
    BY ScriptsAssumption, AskedType
  <2>. QED
    BY <1>1, <2>1
<1>3. conn \in 1 .. MaxConns
  BY DEF Orderly
<1>4. r \in Requests
  <2>1. r \in {[kind |-> s[i].kind, length |-> s[i].length, conn |-> c] :
                 i \in DOMAIN s, c \in 1 .. MaxConns}
    BY ONLY <1>2, <1>3
  <2>. HIDE DEF r
  <2>. QED
    BY <2>1 DEF Requests
<1>5. resp' = resp
  BY DEF Ask, history
<1>. QED
  BY <1>1, <1>4, <1>5 DEF Exchange!Ask, history

\* As long as the past is regular a step is one of the exchange, or none of it.
LEMMA ExchangeStep ==
  ASSUME IInv, Orderly, Orderly', Regular, Regular', [Next]_vars
  PROVE  [Exchange!Next]_(Exchange!vars)
<1>. USE DEF IInv
<1>1. CASE Ask
  BY <1>1, AskIsRequest DEF Exchange!Next
<1>2. CASE UNCHANGED <<asked, resp>>
  BY <1>2 DEF Exchange!vars, history
<1>3. CASE asked' = asked /\ \E x : resp' = Append(resp, x)
  BY <1>3, AnswerIsDue DEF Exchange!Next
<1>4. CASE RecvEndOfHeader
  <2>1. asked' = asked /\ \E r, more : Serve(r, more) \/ Refuse(r)
    BY <1>4 DEF RecvEndOfHeader, client
  <2>2. resp' = resp \/ \E x : resp' = Append(resp, x)
    BY <2>1 DEF Serve, Refuse
  <2>. QED
    BY <1>2, <1>3, <2>1, <2>2
<1>5. CASE RecvEndOfBody
  BY <1>3, <1>5 DEF RecvEndOfBody, client
<1>6. CASE (\E n \in 1 .. Len(wire) : Arrive(n)) \/ Reconnect
  BY <1>2, <1>6 DEF Arrive, Reconnect
<1>7. CASE Process \/ RecvNothing \/ RecvPartOfBody \/ AssertFails \/ RecvPartOfHeader \/ CopySmashes
           \/ StackOverrun
  BY <1>2, <1>7 DEF Process, RecvNothing, RecvPartOfBody, AssertFails, RecvPartOfHeader, CopySmashes,
                    StackOverrun, client, history
<1>8. CASE UNCHANGED vars
  BY <1>2, <1>8 DEF vars, client, history
<1>. QED
  BY <1>1, <1>4, <1>5, <1>6, <1>7, <1>8 DEF Next, ReadData

\* A handler whose past stays regular does nothing that the exchange its clients are
\* promised does not allow: the safety half of ExchangeSpec (http_handler.cc:34-95).
THEOREM HandlerIsExchange == Spec /\ []Regular => Exchange!Init /\ [][Exchange!Next]_(Exchange!vars)
<1>1. Init => Exchange!Init
  BY DEF Init, Exchange!Init
<1>. QED
  BY <1>1, HandlerInvariant, PlaceIsKept, ExchangeStep, PTL DEF Spec
=============================================================================
