----------------------------- MODULE AnswersProofs -----------------------------
(***************************************************************************)
(* That the bytes of the answers come in place and in turn, for any        *)
(* clients, requests and files, and send buffers of any size.              *)
(***************************************************************************)
EXTENDS Answers, FiniteSetTheorems, NaturalsInduction, TLAPS

-----------------------------------------------------------------------------
(* Definitions along a sequence.                                           *)

\* A set of numbers from 1 to n that has 1, and with a number the next, has all.
LEMMA UpTo ==
  ASSUME NEW n \in Nat, NEW T \in SUBSET (1 .. n), n > 0 => 1 \in T,
         \A j \in T : j < n => j + 1 \in T
  PROVE  T = 1 .. n
<1>. DEFINE Missing == (1 .. n) \ T
<1>1. ASSUME Missing # {}
      PROVE  FALSE
  <2>1. Missing \in SUBSET Nat
    OBVIOUS
  <2>2. PICK m \in Missing : \A j \in Missing : <<j, m>> \notin OpToRel(<, Nat)
    BY <1>1, <2>1, NatLessThanWellFounded, WFMin, Zenon
  <2>3. \A j \in Missing : ~(j < m)
    <3>1. \A i, j \in Nat : i < j => <<i, j>> \in OpToRel(<, Nat)
      BY DEF OpToRel
    <3>. QED
      BY <2>1, <2>2, <3>1
  <2>4. m \in 1 .. n /\ m \notin T
    OBVIOUS
  <2>5. m # 1
    BY <2>4
  <2>6. m - 1 \in 1 .. n /\ m - 1 \notin Missing
    BY <2>3, <2>4, <2>5
  <2>7. m - 1 \in T /\ m - 1 < n
    BY <2>4, <2>6
  <2>8. (m - 1) + 1 \in T
    BY <2>7
  <2>. QED
    BY <2>4, <2>8
<1>. QED
  BY <1>1

\* A value for each place, each from the one before.
Iterated(S, first, n, step) ==
  \E g \in [1 .. n + 1 -> S] : g[1] = first /\ \A j \in 1 .. n : g[j + 1] = step[j][g[j]]

\* What is defined from one place to the next exists.
LEMMA Iterates ==
  ASSUME NEW S, NEW first \in S, NEW n \in Nat, NEW step \in [1 .. n -> [S -> S]]
  PROVE  Iterated(S, first, n, step)
<1>. DEFINE Up(m) == \E g \in [1 .. m -> S] :
                       g[1] = first /\ \A j \in 1 .. m - 1 : g[j + 1] = step[j][g[j]]
            T == {m \in 1 .. n + 1 : Up(m)}
<1>1. 1 \in T
  <2>. DEFINE g == [j \in 1 .. 1 |-> first]
  <2>1. g \in [1 .. 1 -> S] /\ g[1] = first
    OBVIOUS
  <2>. HIDE DEF g
  <2>2. Up(1)
    BY <2>1
  <2>. QED
    BY <2>2
<1>2. ASSUME NEW m \in T, m < n + 1
      PROVE  m + 1 \in T
  <2>1. PICK g \in [1 .. m -> S] : g[1] = first /\ \A j \in 1 .. m - 1 : g[j + 1] = step[j][g[j]]
    OBVIOUS
  <2>2. m \in 1 .. n
    BY <1>2
  <2>. DEFINE h == [j \in 1 .. m + 1 |-> IF j = m + 1 THEN step[m][g[m]] ELSE g[j]]
  <2>3. step[m][g[m]] \in S
    BY <2>1, <2>2
  <2>4. h \in [1 .. m + 1 -> S]
    BY <2>1, <2>2, <2>3
  <2>5. h[m + 1] = step[m][g[m]] /\ \A j \in 1 .. m : h[j] = g[j]
    BY <2>2
  <2>. HIDE DEF h
  <2>6. h[1] = first
    BY <2>1, <2>2, <2>5
  <2>7. \A j \in 1 .. (m + 1) - 1 : h[j + 1] = step[j][h[j]]
    <3>. SUFFICES ASSUME NEW j \in 1 .. m
                  PROVE  h[j + 1] = step[j][h[j]]
      BY <2>2
    <3>1. CASE j = m
      BY <2>5, <3>1
    <3>2. CASE j # m
      <4>1. j \in 1 .. m - 1 /\ j + 1 \in 1 .. m
        BY <2>2, <3>2
      <4>. QED
        BY <2>1, <2>5, <4>1
    <3>. QED
      BY <3>1, <3>2
  <2>8. Up(m + 1)
    BY <2>4, <2>6, <2>7
  <2>. QED
    BY <2>2, <2>8
<1>. HIDE DEF Up
<1>3. T = 1 .. n + 1
  <2>1. T \in SUBSET (1 .. n + 1) /\ n + 1 \in Nat
    OBVIOUS
  <2>. HIDE DEF T
  <2>. QED
    BY <1>1, <1>2, <2>1, UpTo
<1>4. Up(n + 1)
  <2>1. n + 1 \in T
    BY <1>3
  <2>. QED
    BY <2>1
<1>. QED
  BY <1>4 DEF Up, Iterated

\* What FlattenSeq() goes through.
LEMMA FlattenIs ==
  ASSUME NEW S, NEW seqs \in Seq(Seq(S)), seqs # <<>>
  PROVE  \E f \in [1 .. Len(seqs) -> Seq(S)] :
           /\ f[1] = seqs[1] /\ \A i \in 1 .. Len(seqs) - 1 : f[i + 1] = f[i] \o seqs[i + 1]
           /\ FlattenSeq(seqs) = f[Len(seqs)]
<1>. DEFINE n == Len(seqs)
            Is(f) == f = [i \in 1 .. n |-> IF i = 1 THEN seqs[i] ELSE f[i - 1] \o seqs[i]]
            flatten == CHOOSE f : Is(f)
            step == [j \in 1 .. n - 1 |-> [x \in Seq(S) |-> x \o seqs[j + 1]]]
<1>1. n \in Nat /\ n > 0 /\ n - 1 \in Nat /\ \A i \in 1 .. n : seqs[i] \in Seq(S)
  OBVIOUS
<1>2. step \in [1 .. n - 1 -> [Seq(S) -> Seq(S)]]
  <2>1. \A j \in 1 .. n - 1 : seqs[j + 1] \in Seq(S)
    BY <1>1
  <2>. QED
    BY <2>1
<1>3. \A j \in 1 .. n - 1 : \A x \in Seq(S) : step[j][x] = x \o seqs[j + 1]
  OBVIOUS
<1>4. FlattenSeq(seqs) = flatten[n]
  BY <1>1 DEF FlattenSeq
<1>. HIDE DEF step, n
<1>5. PICK g \in [1 .. (n - 1) + 1 -> Seq(S)] :
        g[1] = seqs[1] /\ \A j \in 1 .. n - 1 : g[j + 1] = step[j][g[j]]
  <2>1. seqs[1] \in Seq(S)
    BY <1>1
  <2>2. n - 1 \in Nat
    BY <1>1
  <2>3. Iterated(Seq(S), seqs[1], n - 1, step)
    BY ONLY <1>2, <2>1, <2>2, Iterates
  <2>. QED
    BY ONLY <2>3 DEF Iterated
<1>6. g \in [1 .. n -> Seq(S)]
  BY <1>1, <1>5
<1>7. \A j \in 1 .. n - 1 : g[j + 1] = g[j] \o seqs[j + 1]
  <2>1. \A j \in 1 .. n - 1 : g[j] \in Seq(S)
    BY <1>1, <1>6
  <2>. QED
    BY <1>3, <1>5, <2>1
<1>8. Is(g)
  <2>1. ASSUME NEW i \in 1 .. n
        PROVE  g[i] = IF i = 1 THEN seqs[i] ELSE g[i - 1] \o seqs[i]
    <3>1. CASE i = 1
      BY <1>5, <3>1
    <3>2. CASE i # 1
      <4>1. i - 1 \in 1 .. n - 1 /\ (i - 1) + 1 = i
        BY <1>1, <3>2
      <4>. QED
        BY <1>7, <3>2, <4>1
    <3>. QED
      BY <3>1, <3>2
  <2>. QED
    BY <1>6, <2>1
<1>9. Is(flatten)
  BY <1>8
<1>. HIDE DEF flatten
<1>10. flatten[1] = seqs[1] /\ \A i \in 1 .. n - 1 : flatten[i + 1] = flatten[i] \o seqs[i + 1]
  <2>1. flatten[1] = seqs[1]
    BY <1>1, <1>9
  <2>2. ASSUME NEW i \in 1 .. n - 1
        PROVE  flatten[i + 1] = flatten[i] \o seqs[i + 1]
    <3>1. i + 1 \in 1 .. n /\ i + 1 # 1 /\ (i + 1) - 1 = i
      BY <1>1
    <3>. QED
      BY <1>9, <3>1
  <2>. QED
    BY <2>1, <2>2
<1>. HIDE DEF Is
<1>11. \A i \in 1 .. n : flatten[i] = g[i]
  <2>. DEFINE T == {i \in 1 .. n : flatten[i] = g[i]}
  <2>1. 1 \in T
    BY <1>1, <1>5, <1>10
  <2>2. ASSUME NEW j \in T, j < n
        PROVE  j + 1 \in T
    <3>1. j \in 1 .. n - 1 /\ j + 1 \in 1 .. n
      BY <1>1, <2>2
    <3>. QED
      BY <1>7, <1>10, <3>1
  <2>3. T = 1 .. n
    <3>1. T \in SUBSET (1 .. n)
      OBVIOUS
    <3>. HIDE DEF T
    <3>. QED
      BY <1>1, <2>1, <2>2, <3>1, UpTo
  <2>. QED
    BY <2>3
<1>12. FlattenSeq(seqs) = g[n]
  BY <1>1, <1>4, <1>11
<1>. QED
  BY <1>5, <1>6, <1>7, <1>12 DEF n

\* Sequences put together are a sequence.
LEMMA FlattenType ==
  ASSUME NEW S, NEW seqs \in Seq(Seq(S))
  PROVE  FlattenSeq(seqs) \in Seq(S)
<1>1. CASE seqs = <<>>
  BY <1>1 DEF FlattenSeq
<1>2. CASE seqs # <<>>
  <2>1. PICK f \in [1 .. Len(seqs) -> Seq(S)] : FlattenSeq(seqs) = f[Len(seqs)]
    BY <1>2, FlattenIs
  <2>2. Len(seqs) \in 1 .. Len(seqs)
    BY <1>2
  <2>. QED
    BY <2>1, <2>2
<1>. QED
  BY <1>1, <1>2

-----------------------------------------------------------------------------
(* The answers.                                                            *)

\* The length an answer tells is that of its body, and an answer has that many bytes
\* behind its head.
LEMMA LengthTold ==
  ASSUME NEW r
  PROVE  /\ AnswerTo(r).length \in Nat /\ AnswerTo(r).length = Len(AnswerTo(r).body)
         /\ AnswerTo(r).status \in {200, 400, 404}
<1>1. \A code \in {400, 404} :
        Error(code).length \in Nat /\ Error(code).length = Len(Error(code).body)
        /\ Error(code).status \in {200, 400, 404}
  BY DEF Error
<1>2. ASSUME NEW url, NEW body \in Seq(Chars)
      PROVE  Ok(url, body).length \in Nat /\ Ok(url, body).length = Len(Ok(url, body).body)
             /\ Ok(url, body).status \in {200, 400, 404}
  BY DEF Ok, ContentLength
<1>3. r.url \in DOMAIN Files => FileData(r.url) \in Seq(Chars)
  BY FilesAssumption, FlattenType DEF FileData
<1>4. CASE AnswerTo(r) = Error(400) \/ AnswerTo(r) = Error(404)
  BY <1>1, <1>4
<1>5. CASE \E body \in Seq(Chars) : AnswerTo(r) = Ok(r.url, body)
  BY <1>2, <1>5
<1>6. AnswerTo(r) = Error(400) \/ AnswerTo(r) = Error(404)
      \/ \E body \in Seq(Chars) : AnswerTo(r) = Ok(r.url, body)
  <2>1. CASE ~Valid(r)
    BY <2>1 DEF AnswerTo
  <2>2. CASE Valid(r) /\ r.url \in Scripts
    BY <2>2 DEF AnswerTo
  <2>3. CASE Valid(r) /\ r.url \notin Scripts /\ r.method = "POST"
    <3>1. AnswerTo(r) = Ok(r.url, <<>>)
      BY <2>3 DEF AnswerTo
    <3>2. <<>> \in Seq(Chars)
      OBVIOUS
    <3>. QED
      BY <3>1, <3>2
  <2>4. CASE Valid(r) /\ r.url \notin Scripts /\ r.method # "POST"
    <3>1. AnswerTo(r) = IF r.url \notin DOMAIN Files THEN Error(404)
                        ELSE Ok(r.url, IF r.method = "GET" THEN FileData(r.url) ELSE <<>>)
      BY <2>4 DEF AnswerTo
    <3>2. <<>> \in Seq(Chars)
      OBVIOUS
    <3>3. CASE r.url \notin DOMAIN Files
      BY <3>1, <3>3
    <3>4. CASE r.url \in DOMAIN Files /\ r.method = "GET"
      BY <1>3, <3>1, <3>4
    <3>5. CASE r.url \in DOMAIN Files /\ r.method # "GET"
      BY <3>1, <3>2, <3>5
    <3>. QED
      BY <3>3, <3>4, <3>5
  <2>. QED
    BY <2>1, <2>2, <2>3, <2>4
<1>. QED
  BY <1>4, <1>5, <1>6

\* How long an answer is.
LEMMA EncodedLength ==
  ASSUME NEW k, NEW r
  PROVE  /\ Len(Encode(k, AnswerTo(r))) = Told(r)
         /\ DOMAIN Encode(k, AnswerTo(r)) = 1 .. Told(r)
         /\ Told(r) \in Nat \ {0}
<1>1. HeadLen + Len(AnswerTo(r).body) \in Nat \ {0}
  BY LengthTold DEF HeadLen
<1>. QED
  BY <1>1, LengthTold DEF Encode, Told

\* An answer begins where the one before it ends.
LEMMA StartsIs ==
  ASSUME NEW R, NEW reqs \in Seq(R)
  PROVE  /\ \A k \in 1 .. Len(reqs) + 1 : Starts(reqs)[k] \in Nat
         /\ Starts(reqs)[1] = 0
         /\ \A k \in 1 .. Len(reqs) : Starts(reqs)[k + 1] = Starts(reqs)[k] + Told(reqs[k])
<1>. DEFINE n == Len(reqs)
            Is(at) == at = [k \in 1 .. Len(reqs) + 1 |->
                              IF k = 1 THEN 0 ELSE at[k - 1] + Told(reqs[k - 1])]
            starts == CHOOSE at : Is(at)
            step == [j \in 1 .. n |-> [x \in Nat |-> x + Told(reqs[j])]]
<1>1. n \in Nat /\ 0 \in Nat
  OBVIOUS
<1>2. step \in [1 .. n -> [Nat -> Nat]]
  BY EncodedLength
<1>3. \A j \in 1 .. n : \A x \in Nat : step[j][x] = x + Told(reqs[j])
  OBVIOUS
<1>4. Starts(reqs) = starts
  BY DEF Starts
<1>. HIDE DEF step
<1>5. PICK g \in [1 .. n + 1 -> Nat] : g[1] = 0 /\ \A j \in 1 .. n : g[j + 1] = step[j][g[j]]
  <2>1. Iterated(Nat, 0, n, step)
    BY <1>1, <1>2, Iterates
  <2>. QED
    BY <2>1 DEF Iterated
<1>6. \A j \in 1 .. n : g[j + 1] = g[j] + Told(reqs[j])
  <2>1. \A j \in 1 .. n : j \in 1 .. n + 1
    BY ONLY <1>1
  <2>2. \A j \in 1 .. n : g[j] \in Nat
    BY ONLY <1>5, <2>1
  <2>. QED
    BY ONLY <1>3, <1>5, <2>2
<1>7. Is(g)
  <2>1. ASSUME NEW k \in 1 .. n + 1
        PROVE  g[k] = IF k = 1 THEN 0 ELSE g[k - 1] + Told(reqs[k - 1])
    <3>1. CASE k = 1
      BY <1>5, <3>1
    <3>2. CASE k # 1
      <4>1. k - 1 \in 1 .. n /\ (k - 1) + 1 = k
        BY <1>1, <3>2
      <4>. QED
        BY <1>6, <3>2, <4>1
    <3>. QED
      BY <3>1, <3>2
  <2>. QED
    BY <1>5, <2>1
<1>8. Is(starts)
  BY <1>7
<1>. HIDE DEF starts
<1>9. starts[1] = 0 /\ \A k \in 1 .. n : starts[k + 1] = starts[k] + Told(reqs[k])
  <2>1. starts[1] = 0
    BY <1>1, <1>8
  <2>2. ASSUME NEW k \in 1 .. n
        PROVE  starts[k + 1] = starts[k] + Told(reqs[k])
    <3>1. k + 1 \in 1 .. n + 1 /\ k + 1 # 1 /\ (k + 1) - 1 = k
      BY <1>1
    <3>. QED
      BY <1>8, <3>1
  <2>. QED
    BY <2>1, <2>2
<1>. HIDE DEF Is, n
<1>10. \A k \in 1 .. n + 1 : starts[k] \in Nat
  <2>. DEFINE T == {k \in 1 .. n + 1 : starts[k] \in Nat}
  <2>1. 1 \in T
    BY <1>1, <1>9
  <2>2. ASSUME NEW j \in T, j < n + 1
        PROVE  j + 1 \in T
    <3>1. j \in 1 .. n /\ j + 1 \in 1 .. n + 1
      BY <1>1, <2>2
    <3>2. Told(reqs[j]) \in Nat
      BY EncodedLength
    <3>. QED
      BY <1>9, <3>1, <3>2
  <2>3. T = 1 .. n + 1
    <3>1. T \in SUBSET (1 .. n + 1) /\ n + 1 \in Nat
      BY <1>1
    <3>. HIDE DEF T
    <3>. QED
      BY <2>1, <2>2, <3>1, UpTo
  <2>. QED
    BY <2>3
<1>. QED
  BY <1>4, <1>9, <1>10 DEF n

\* A request that follows does not move the answers.
LEMMA StartsStay ==
  ASSUME NEW R, NEW reqs \in Seq(R), NEW r \in R
  PROVE  \A k \in 1 .. Len(reqs) + 1 : Starts(Append(reqs, r))[k] = Starts(reqs)[k]
<1>. DEFINE n == Len(reqs)
            more == Append(reqs, r)
            T == {k \in 1 .. n + 1 : Starts(more)[k] = Starts(reqs)[k]}
<1>1. n \in Nat /\ Len(more) = n + 1 /\ more \in Seq(R) /\ \A k \in 1 .. n : more[k] = reqs[k]
  OBVIOUS
<1>. HIDE DEF more
<1>2. 1 \in T
  BY <1>1, StartsIs
<1>3. ASSUME NEW j \in T, j < n + 1
      PROVE  j + 1 \in T
  <2>1. j \in 1 .. n /\ j + 1 \in 1 .. n + 1 /\ j \in 1 .. Len(more)
    BY <1>1, <1>3
  <2>2. Starts(reqs)[j + 1] = Starts(reqs)[j] + Told(reqs[j])
    BY <2>1, StartsIs
  <2>3. Starts(more)[j + 1] = Starts(more)[j] + Told(more[j])
    BY <1>1, <2>1, StartsIs
  <2>. QED
    BY <1>1, <2>1, <2>2, <2>3
<1>4. T = 1 .. n + 1
  <2>1. T \in SUBSET (1 .. n + 1) /\ n + 1 \in Nat
    BY <1>1
  <2>. HIDE DEF T
  <2>. QED
    BY <1>2, <1>3, <2>1, UpTo
<1>. QED
  BY <1>4 DEF more

\* Answers do not begin before those they follow.
LEMMA StartsGrow ==
  ASSUME NEW R, NEW reqs \in Seq(R)
  PROVE  \A k \in 1 .. Len(reqs) + 1 : \A j \in 1 .. k : Starts(reqs)[j] <= Starts(reqs)[k]
<1>. DEFINE n == Len(reqs)
            T == {k \in 1 .. n + 1 : \A j \in 1 .. k : Starts(reqs)[j] <= Starts(reqs)[k]}
<1>1. n \in Nat /\ \A k \in 1 .. n + 1 : Starts(reqs)[k] \in Nat
  BY StartsIs
<1>2. 1 \in T
  BY <1>1
<1>3. ASSUME NEW k \in T, k < n + 1
      PROVE  k + 1 \in T
  <2>1. k \in 1 .. n /\ k + 1 \in 1 .. n + 1
    BY <1>1, <1>3
  <2>2. Starts(reqs)[k + 1] = Starts(reqs)[k] + Told(reqs[k])
    BY <2>1, StartsIs
  <2>3. Told(reqs[k]) \in Nat
    BY EncodedLength
  <2>4. ASSUME NEW j \in 1 .. k + 1
        PROVE  Starts(reqs)[j] <= Starts(reqs)[k + 1]
    <3>1. CASE j = k + 1
      BY <1>1, <2>1, <3>1
    <3>2. CASE j \in 1 .. k
      BY <1>1, <2>1, <2>2, <2>3, <3>2
    <3>. QED
      BY <2>1, <3>1, <3>2
  <2>. QED
    BY <2>1, <2>4
<1>4. T = 1 .. n + 1
  <2>1. T \in SUBSET (1 .. n + 1) /\ n + 1 \in Nat
    BY <1>1
  <2>. HIDE DEF T
  <2>. QED
    BY <1>2, <1>3, <2>1, UpTo
<1>. QED
  BY <1>4

\* A byte of the answers is a byte of one of them.
LEMMA Places ==
  ASSUME NEW R, NEW reqs \in Seq(R)
  PROVE  \A p \in 1 .. Starts(reqs)[Len(reqs) + 1] :
           \E k \in 1 .. Len(reqs) : \E i \in 1 .. Told(reqs[k]) : p = Starts(reqs)[k] + i
<1>. DEFINE n == Len(reqs)
            Found(p) == \E k \in 1 .. n : \E i \in 1 .. Told(reqs[k]) : p = Starts(reqs)[k] + i
            T == {m \in 1 .. n + 1 : \A p \in 1 .. Starts(reqs)[m] : Found(p)}
<1>1. n \in Nat /\ (\A k \in 1 .. n + 1 : Starts(reqs)[k] \in Nat) /\ Starts(reqs)[1] = 0
  BY StartsIs
<1>2. 1 \in T
  BY <1>1
<1>3. ASSUME NEW m \in T, m < n + 1
      PROVE  m + 1 \in T
  <2>1. m \in 1 .. n /\ m + 1 \in 1 .. n + 1
    BY <1>1, <1>3
  <2>2. Starts(reqs)[m + 1] = Starts(reqs)[m] + Told(reqs[m])
    BY <2>1, StartsIs
  <2>3. Told(reqs[m]) \in Nat
    BY EncodedLength
  <2>4. ASSUME NEW p \in 1 .. Starts(reqs)[m + 1]
        PROVE  Found(p)
    <3>1. CASE p <= Starts(reqs)[m]
      <4>1. p \in 1 .. Starts(reqs)[m]
        BY <1>1, <2>1, <3>1
      <4>. QED
        BY <4>1
    <3>2. CASE p > Starts(reqs)[m]
      <4>. DEFINE i == p - Starts(reqs)[m]
      <4>1. i \in 1 .. Told(reqs[m]) /\ p = Starts(reqs)[m] + i
        BY <1>1, <2>1, <2>2, <2>3, <3>2
      <4>. QED
        BY <2>1, <4>1
    <3>. QED
      BY <1>1, <2>1, <3>1, <3>2
  <2>. QED
    BY <2>1, <2>4
<1>. HIDE DEF Found
<1>4. T = 1 .. n + 1
  <2>1. T \in SUBSET (1 .. n + 1) /\ n + 1 \in Nat
    BY <1>1
  <2>. HIDE DEF T
  <2>. QED
    BY <1>2, <1>3, <2>1, UpTo
<1>5. n + 1 \in T
  BY <1>1, <1>4
<1>6. \A p \in 1 .. Starts(reqs)[n + 1] : Found(p)
  BY <1>5
<1>. QED
  BY <1>6 DEF Found

Bytes == [answer : Nat, status : {200, 400, 404}, length : Nat, at : Nat]

\* An answer is bytes.
LEMMA EncodedType ==
  ASSUME NEW k \in Nat, NEW r
  PROVE  Encode(k, AnswerTo(r)) \in Seq(Bytes)
<1>. DEFINE a == AnswerTo(r)
            m == HeadLen + Len(a.body)
<1>1. m \in Nat /\ a.status \in {200, 400, 404} /\ a.length \in Nat
  BY LengthTold DEF HeadLen
<1>. HIDE DEF a
<1>2. Encode(k, a) = [at \in 1 .. m |-> [answer |-> k, status |-> a.status, length |-> a.length, at |-> at]]
  BY DEF Encode
<1>. HIDE DEF m
<1>3. \A at \in 1 .. m : [answer |-> k, status |-> a.status, length |-> a.length, at |-> at] \in Bytes
  BY <1>1 DEF Bytes
<1>4. Encode(k, a) \in Seq(Bytes)
  BY <1>1, <1>2, <1>3
<1>. QED
  BY <1>4 DEF a

\* In the bytes that are due each answer has the place the lengths give it.
LEMMA DueIs ==
  ASSUME NEW R, NEW reqs \in Seq(R)
  PROVE  /\ Due(reqs) \in Seq(Bytes)
         /\ Len(Due(reqs)) = Starts(reqs)[Len(reqs) + 1]
         /\ \A k \in 1 .. Len(reqs) : \A i \in 1 .. Told(reqs[k]) :
              Due(reqs)[Starts(reqs)[k] + i] = Encode(k, AnswerTo(reqs[k]))[i]
<1>. DEFINE n == Len(reqs)
            seqs == [k \in DOMAIN reqs |-> Encode(k, AnswerTo(reqs[k]))]
<1>1. n \in Nat /\ DOMAIN reqs = 1 .. n
  OBVIOUS
<1>2. seqs \in Seq(Seq(Bytes)) /\ Len(seqs) = n
  <2>1. \A k \in 1 .. n : Encode(k, AnswerTo(reqs[k])) \in Seq(Bytes)
    BY EncodedType
  <2>. QED
    BY <1>1, <2>1
<1>3. \A k \in 1 .. n : seqs[k] = Encode(k, AnswerTo(reqs[k])) /\ Len(seqs[k]) = Told(reqs[k])
  BY <1>1, EncodedLength
<1>4. Due(reqs) = FlattenSeq(seqs)
  BY DEF Due
<1>. HIDE DEF seqs, n
<1>5. Due(reqs) \in Seq(Bytes)
  BY <1>2, <1>4, FlattenType
<1>6. /\ \A k \in 1 .. n + 1 : Starts(reqs)[k] \in Nat
      /\ Starts(reqs)[1] = 0
      /\ \A k \in 1 .. n : Starts(reqs)[k + 1] = Starts(reqs)[k] + Told(reqs[k])
  BY StartsIs DEF n
<1>7. CASE n = 0
  <2>1. Len(Due(reqs)) = 0
    BY <1>2, <1>4, <1>7 DEF FlattenSeq
  <2>. QED
    BY <1>1, <1>5, <1>6, <1>7, <2>1 DEF n
<1>8. CASE n # 0
  <2>1. seqs # <<>>
    BY <1>2, <1>8
  <2>2. PICK f \in [1 .. n -> Seq(Bytes)] :
          /\ f[1] = seqs[1] /\ \A i \in 1 .. n - 1 : f[i + 1] = f[i] \o seqs[i + 1]
          /\ FlattenSeq(seqs) = f[n]
    BY <1>2, <2>1, FlattenIs
  <2>. DEFINE T == {m \in 1 .. n : /\ Len(f[m]) = Starts(reqs)[m + 1]
                                  /\ \A k \in 1 .. m : \A i \in 1 .. Told(reqs[k]) :
                                       f[m][Starts(reqs)[k] + i] = seqs[k][i]}
  <2>3. 1 \in T
    <3>1. Starts(reqs)[1 + 1] = Starts(reqs)[1] + Told(reqs[1]) /\ Told(reqs[1]) \in Nat
      <4>1. 1 \in 1 .. n
        BY <1>1, <1>8
      <4>. QED
        BY <1>6, <4>1, EncodedLength
    <3>2. \A i \in 1 .. Told(reqs[1]) : f[1][Starts(reqs)[1] + i] = seqs[1][i]
      BY <1>6, <2>2, <3>1
    <3>. QED
      BY <1>1, <1>3, <1>6, <1>8, <2>2, <3>1, <3>2
  <2>4. ASSUME NEW m \in T, m < n
        PROVE  m + 1 \in T
    <3>1. m \in 1 .. n - 1 /\ m + 1 \in 1 .. n /\ m + 1 \in 1 .. n + 1
      <4>1. m \in 1 .. n
        OBVIOUS
      <4>. QED
        BY ONLY <1>1, <2>4, <4>1
    <3>2. f[m + 1] = f[m] \o seqs[m + 1] /\ f[m] \in Seq(Bytes) /\ seqs[m + 1] \in Seq(Bytes)
      <4>1. m \in 1 .. n
        OBVIOUS
      <4>2. \A k \in 1 .. n : seqs[k] \in Seq(Bytes)
        BY <1>2
      <4>. QED
        BY ONLY <1>1, <2>2, <3>1, <4>1, <4>2
    <3>3. Len(f[m]) = Starts(reqs)[m + 1] /\ Len(seqs[m + 1]) = Told(reqs[m + 1])
      BY <1>3, <3>1
    <3>4. Starts(reqs)[(m + 1) + 1] = Starts(reqs)[m + 1] + Told(reqs[m + 1])
      BY <1>6, <3>1
    <3>5. Len(f[m + 1]) = Starts(reqs)[(m + 1) + 1]
      <4>1. Len(f[m] \o seqs[m + 1]) = Len(f[m]) + Len(seqs[m + 1])
        BY ONLY <3>2
      <4>2. Len(f[m + 1]) = Starts(reqs)[m + 1] + Told(reqs[m + 1])
        BY ONLY <3>2, <3>3, <4>1
      <4>. QED
        BY ONLY <3>4, <4>2
    <3>6. ASSUME NEW k \in 1 .. m + 1, NEW i \in 1 .. Told(reqs[k])
          PROVE  f[m + 1][Starts(reqs)[k] + i] = seqs[k][i]
      <4>1. Starts(reqs)[k] \in Nat /\ Told(reqs[k]) \in Nat
        <5>1. k \in 1 .. n + 1
          BY ONLY <1>1, <3>1
        <5>2. Told(reqs[k]) \in Nat
          BY ONLY EncodedLength
        <5>. QED
          BY ONLY <1>6, <5>1, <5>2
      <4>2. CASE k = m + 1
        <5>1. i \in 1 .. Len(seqs[m + 1]) /\ Starts(reqs)[k] = Len(f[m])
          BY ONLY <3>3, <4>1, <4>2
        <5>. QED
          BY ONLY <3>2, <4>2, <5>1
      <4>3. CASE k # m + 1
        <5>1. k \in 1 .. m /\ k + 1 \in 1 .. m + 1 /\ k \in 1 .. n
          BY ONLY <1>1, <3>1, <4>3
        <5>2. Starts(reqs)[k + 1] <= Starts(reqs)[m + 1]
          <6>1. m + 1 \in 1 .. Len(reqs) + 1
            BY <3>1 DEF n
          <6>. QED
            BY <5>1, <6>1, StartsGrow
        <5>3. Starts(reqs)[k + 1] = Starts(reqs)[k] + Told(reqs[k])
          BY <1>6, <5>1
        <5>4. Starts(reqs)[k] + i \in 1 .. Len(f[m])
          <6>1. Len(f[m]) \in Nat
            BY ONLY <3>2
          <6>2. i \in Nat /\ i >= 1 /\ i <= Told(reqs[k])
            BY ONLY <4>1, i \in 1 .. Told(reqs[k])
          <6>3. \A x, y, z, l \in Nat : z >= 1 /\ z <= y /\ x + y <= l => x + z \in 1 .. l
            OBVIOUS
          <6>4. Starts(reqs)[k] + Told(reqs[k]) <= Len(f[m])
            BY ONLY <3>3, <5>2, <5>3
          <6>. QED
            BY ONLY <4>1, <6>1, <6>2, <6>3, <6>4
        <5>5. f[m + 1][Starts(reqs)[k] + i] = f[m][Starts(reqs)[k] + i]
          BY <3>2, <5>4
        <5>. QED
          BY <5>1, <5>5
      <4>. QED
        BY <4>2, <4>3
    <3>. QED
      BY <3>1, <3>5, <3>6
  <2>5. T = 1 .. n
    <3>1. T \in SUBSET (1 .. n)
      OBVIOUS
    <3>. HIDE DEF T
    <3>. QED
      BY <1>1, <2>3, <2>4, <3>1, UpTo
  <2>. HIDE DEF T
  <2>6. n \in T
    BY <1>1, <1>8, <2>5
  <2>7. Due(reqs) = f[n]
    BY <1>4, <2>2
  <2>8. Len(Due(reqs)) = Starts(reqs)[n + 1]
    BY <2>6, <2>7 DEF T
  <2>9. \A k \in 1 .. n : \A i \in 1 .. Told(reqs[k]) : Due(reqs)[Starts(reqs)[k] + i] = seqs[k][i]
    BY <2>6, <2>7 DEF T
  <2>. QED
    BY <1>3, <1>5, <2>8, <2>9 DEF n
<1>. QED
  BY <1>7, <1>8

-----------------------------------------------------------------------------
(* The invariant.                                                          *)

AllRequests == UNION {Requests[c] : c \in Clients}

TypeOK ==
  /\ peer \in [Clients -> {"reads", "stalls", "left"}]
  /\ asked \in [Clients -> Seq(AllRequests)]
  /\ taken \in [Clients -> Nat]
  /\ work \in [Workers -> [c : Clients \cup {None}, data : Seq(Bytes), len : Nat, last : BOOLEAN]]
  /\ sndbuf \in [Clients -> Seq(Bytes)]
  /\ received \in [Clients -> Seq(Bytes)]
  /\ closed \in SUBSET Clients /\ dead \in BOOLEAN
  /\ short \in SUBSET (Clients \X Nat)

\* The answer to the k-th request of a client.
Answer(c, k) == Encode(k, AnswerTo(asked[c][k]))

\* One worker serves a client, with the answer to the request taken last, on a connection
\* that is open.
OneServes ==
  /\ \A c \in Clients : taken[c] <= Len(asked[c])
  /\ \A w \in Workers : work[w].c = None => work[w].len = 0
  /\ \A c \in Clients : \A w \in Serving(c) :
       /\ Serving(c) = {w} /\ c \notin closed
       /\ taken[c] > 0 /\ work[w].data = Answer(c, taken[c])
       /\ work[w].len <= Len(work[w].data)

\* The server has sent no more than the answers to the requests taken; to a client that
\* has not left, all but what is left of the last.
Reached ==
  \A c \in Clients :
    /\ Len(Stream(c)) <= Start(c, taken[c] + 1)
    /\ c \notin closed /\ peer[c] # "left" =>
         /\ Serving(c) = {} => Len(Stream(c)) = Start(c, taken[c] + 1)
         /\ \A w \in Serving(c) :
              /\ Len(Stream(c)) = Start(c, taken[c] + 1) - work[w].len
              /\ <<c, taken[c]>> \notin short => work[w].len \in {0, Len(work[w].data)}

\* In the place of an answer are bytes of that answer, its first in front, and all as they
\* should be if no send() took a part of it.
InPlace ==
  \A c \in Clients : \A k \in 1 .. taken[c] : \A i \in 1 .. Told(asked[c][k]) :
    Start(c, k) + i <= Len(Stream(c)) =>
      LET b == Stream(c)[Start(c, k) + i] IN
      /\ b.answer = k /\ (i = 1 => b.at = 1)
      /\ <<c, k>> \notin short => b = Answer(c, k)[i]

IndInv == TypeOK /\ OneServes /\ Reached /\ InPlace

-----------------------------------------------------------------------------
(* Facts about the states.                                                 *)

\* The lengths of a client's streams.
LEMMA StreamIs ==
  ASSUME TypeOK, NEW c \in Clients
  PROVE  /\ Stream(c) \in Seq(Bytes) /\ Len(Stream(c)) = Len(received[c]) + Len(sndbuf[c])
         /\ Len(received[c]) \in Nat /\ Len(sndbuf[c]) \in Nat
<1>1. received[c] \in Seq(Bytes) /\ sndbuf[c] \in Seq(Bytes)
  BY DEF TypeOK
<1>. QED
  BY <1>1 DEF Stream

\* StartsIs and StartsGrow, for the requests of a client.
LEMMA StartIs ==
  ASSUME TypeOK, NEW c \in Clients
  PROVE  /\ asked[c] \in Seq(AllRequests) /\ Len(asked[c]) \in Nat
         /\ \A k \in 1 .. Len(asked[c]) + 1 : Start(c, k) \in Nat
         /\ Start(c, 1) = 0
         /\ \A k \in 1 .. Len(asked[c]) :
              /\ Start(c, k + 1) = Start(c, k) + Told(asked[c][k])
              /\ Told(asked[c][k]) \in Nat \ {0} /\ Len(Answer(c, k)) = Told(asked[c][k])
         /\ \A k \in 1 .. Len(asked[c]) + 1 : \A j \in 1 .. k : Start(c, j) <= Start(c, k)
<1>1. asked[c] \in Seq(AllRequests)
  BY DEF TypeOK
<1>2. Len(asked[c]) \in Nat
  BY <1>1
<1>3. \A k \in 1 .. Len(asked[c]) :
        Told(asked[c][k]) \in Nat \ {0} /\ Len(Answer(c, k)) = Told(asked[c][k])
  BY EncodedLength DEF Answer
<1>4. /\ \A k \in 1 .. Len(asked[c]) + 1 : Starts(asked[c])[k] \in Nat
      /\ Starts(asked[c])[1] = 0
      /\ \A k \in 1 .. Len(asked[c]) : Starts(asked[c])[k + 1] = Starts(asked[c])[k] + Told(asked[c][k])
  BY <1>1, StartsIs
<1>5. \A k \in 1 .. Len(asked[c]) + 1 : \A j \in 1 .. k : Starts(asked[c])[j] <= Starts(asked[c])[k]
  BY <1>1, StartsGrow
<1>. QED
  BY <1>1, <1>2, <1>3, <1>4, <1>5 DEF Start

\* The smaller of two.
LEMMA MinOfTwo ==
  ASSUME NEW a \in Int, NEW b \in Int
  PROVE  Min({a, b}) \in {a, b} /\ Min({a, b}) <= a /\ Min({a, b}) <= b
<1>1. \E x \in {a, b} : \A y \in {a, b} : x <= y
  OBVIOUS
<1>. QED
  BY <1>1 DEF Min

\* In the beginning nothing is asked and nothing sent.
LEMMA InitHolds ==
  ASSUME Init
  PROVE  IndInv
<1>1. TypeOK
  <2>1. <<>> \in Seq(AllRequests) /\ <<>> \in Seq(Bytes)
    OBVIOUS
  <2>2. Idle \in [c : Clients \cup {None}, data : Seq(Bytes), len : Nat, last : BOOLEAN]
    BY <2>1 DEF Idle
  <2>. QED
    BY <2>1, <2>2 DEF Init, TypeOK
<1>2. \A w \in Workers : work[w].c = None /\ work[w].len = 0
  BY DEF Init, Idle
<1>3. \A c \in Clients : Serving(c) = {}
  BY <1>2, NoneAssumption DEF Serving
<1>4. \A c \in Clients : taken[c] = 0 /\ asked[c] = <<>> /\ Stream(c) = <<>>
  BY DEF Init, Stream
<1>5. OneServes
  BY <1>2, <1>3, <1>4 DEF OneServes
<1>6. \A c \in Clients : Start(c, 1) = 0
  BY <1>1, StartIs
<1>7. Reached
  BY <1>3, <1>4, <1>6 DEF Reached
<1>8. InPlace
  BY <1>4 DEF InPlace
<1>. QED
  BY <1>1, <1>5, <1>7, <1>8 DEF IndInv

\* What leaves the workers and the streams alone keeps the invariant; requests may be
\* added, and clients may leave.
LEMMA Kept ==
  ASSUME IndInv, TypeOK', UNCHANGED <<taken, work, closed, short>>,
         \A c \in Clients :
           /\ Stream(c)' = Stream(c) /\ (peer'[c] # "left" => peer[c] # "left")
           /\ asked'[c] = asked[c] \/ \E r \in AllRequests : asked'[c] = Append(asked[c], r)
  PROVE  IndInv'
<1>1. \A c \in Clients :
        /\ Len(asked[c]) <= Len(asked'[c]) /\ Len(asked[c]) \in Nat /\ Len(asked'[c]) \in Nat
        /\ \A k \in 1 .. Len(asked[c]) : asked'[c][k] = asked[c][k] /\ Answer(c, k)' = Answer(c, k)
        /\ \A k \in 1 .. Len(asked[c]) + 1 : Start(c, k)' = Start(c, k)
  <2>. SUFFICES ASSUME NEW c \in Clients
                PROVE  /\ Len(asked[c]) <= Len(asked'[c]) /\ Len(asked[c]) \in Nat /\ Len(asked'[c]) \in Nat
                       /\ \A k \in 1 .. Len(asked[c]) : asked'[c][k] = asked[c][k]
                       /\ \A k \in 1 .. Len(asked[c]) + 1 : Starts(asked'[c])[k] = Starts(asked[c])[k]
    BY DEF Answer, Start
  <2>1. asked[c] \in Seq(AllRequests)
    BY DEF IndInv, TypeOK
  <2>2. CASE asked'[c] = asked[c]
    BY <2>1, <2>2
  <2>3. CASE \E r \in AllRequests : asked'[c] = Append(asked[c], r)
    <3>1. PICK r \in AllRequests : asked'[c] = Append(asked[c], r)
      BY <2>3
    <3>2. \A k \in 1 .. Len(asked[c]) + 1 : Starts(Append(asked[c], r))[k] = Starts(asked[c])[k]
      BY <2>1, StartsStay
    <3>. QED
      BY <2>1, <3>1, <3>2
  <2>. QED
    BY <2>2, <2>3
<1>2. \A c \in Clients : Serving(c)' = Serving(c) /\ taken[c] \in Nat /\ taken'[c] = taken[c]
                           /\ taken[c] <= Len(asked[c])
  BY DEF Serving, IndInv, TypeOK, OneServes
<1>3. OneServes'
  <2>1. \A c \in Clients : taken'[c] <= Len(asked'[c])
    BY <1>1, <1>2
  <2>2. \A w \in Workers : work'[w].c = None => work'[w].len = 0
    BY DEF IndInv, OneServes
  <2>3. ASSUME NEW c \in Clients, NEW w \in Serving(c)'
        PROVE  /\ Serving(c)' = {w} /\ c \notin closed'
               /\ taken'[c] > 0 /\ work'[w].data = Answer(c, taken[c])'
               /\ work'[w].len <= Len(work'[w].data)
    <3>1. w \in Serving(c)
      BY <1>2
    <3>2. /\ Serving(c) = {w} /\ c \notin closed
          /\ taken[c] > 0 /\ work[w].data = Answer(c, taken[c])
          /\ work[w].len <= Len(work[w].data)
      BY <3>1 DEF IndInv, OneServes
    <3>3. taken[c] \in 1 .. Len(asked[c])
      BY <1>1, <1>2, <3>2
    <3>4. Answer(c, taken[c])' = Answer(c, taken[c])
      BY <1>1, <1>2, <3>3 DEF Answer
    <3>. QED
      BY <1>2, <3>2, <3>4
  <2>. QED
    BY <2>1, <2>2, <2>3 DEF OneServes, Answer
<1>4. Reached'
  <2>. SUFFICES ASSUME NEW c \in Clients
                PROVE  (/\ Len(Stream(c)) <= Start(c, taken[c] + 1)
                        /\ c \notin closed /\ peer[c] # "left" =>
                             /\ Serving(c) = {} => Len(Stream(c)) = Start(c, taken[c] + 1)
                             /\ \A w \in Serving(c) :
                                  /\ Len(Stream(c)) = Start(c, taken[c] + 1) - work[w].len
                                  /\ <<c, taken[c]>> \notin short => work[w].len \in {0, Len(work[w].data)})'
    BY DEF Reached
  <2>1. Start(c, taken[c] + 1)' = Start(c, taken[c] + 1)
    <3>1. taken[c] + 1 \in 1 .. Len(asked[c]) + 1
      BY <1>1, <1>2
    <3>. QED
      BY <1>1, <1>2, <3>1 DEF Start
  <2>. QED
    BY <1>2, <2>1 DEF IndInv, Reached
<1>5. InPlace'
  <2>. SUFFICES ASSUME NEW c \in Clients, NEW k \in 1 .. taken[c], NEW i \in 1 .. Told(asked'[c][k]),
                       Starts(asked'[c])[k] + i <= Len(Stream(c)')
                PROVE  /\ Stream(c)'[Starts(asked'[c])[k] + i].answer = k
                       /\ i = 1 => Stream(c)'[Starts(asked'[c])[k] + i].at = 1
                       /\ <<c, k>> \notin short' =>
                            Stream(c)'[Starts(asked'[c])[k] + i] = Encode(k, AnswerTo(asked'[c][k]))[i]
    BY <1>2 DEF InPlace, Start, Answer
  <2>1. k \in 1 .. Len(asked[c]) /\ k \in 1 .. Len(asked[c]) + 1
    BY <1>1, <1>2
  <2>2. asked'[c][k] = asked[c][k] /\ Starts(asked'[c])[k] = Start(c, k)
    BY <1>1, <2>1 DEF Start
  <2>3. i \in 1 .. Told(asked[c][k]) /\ Start(c, k) + i <= Len(Stream(c)) /\ Stream(c)' = Stream(c)
    BY <2>2
  <2>4. /\ Stream(c)[Start(c, k) + i].answer = k /\ (i = 1 => Stream(c)[Start(c, k) + i].at = 1)
        /\ <<c, k>> \notin short => Stream(c)[Start(c, k) + i] = Answer(c, k)[i]
    BY <2>3 DEF IndInv, InPlace
  <2>5. Encode(k, AnswerTo(asked'[c][k])) = Answer(c, k) /\ short' = short
    BY <2>2 DEF Answer
  <2>. QED
    BY <2>2, <2>3, <2>4, <2>5
<1>. QED
  BY <1>3, <1>4, <1>5 DEF IndInv

-----------------------------------------------------------------------------
(* The steps.                                                              *)

\* The clients' steps.
LEMMA ClientKeeps ==
  ASSUME IndInv, NEW c \in Clients, Client(c)
  PROVE  IndInv'
<1>. USE DEF IndInv
<1>1. CASE \E r \in Requests[c] : Ask(c, r)
  <2>1. PICK r \in Requests[c] : Ask(c, r)
    BY <1>1
  <2>2. r \in AllRequests
    BY DEF AllRequests
  <2>3. asked[c] \in Seq(AllRequests) /\ asked' = [asked EXCEPT ![c] = Append(asked[c], r)]
    BY <2>1 DEF Ask, TypeOK
  <2>4. TypeOK'
    BY <2>1, <2>2, <2>3 DEF Ask, TypeOK
  <2>5. UNCHANGED <<peer, taken, work, sndbuf, received, closed, short>>
    BY <2>1 DEF Ask
  <2>6. \A d \in Clients : Stream(d)' = Stream(d)
    BY <2>5 DEF Stream
  <2>7. \A d \in Clients : asked'[d] = asked[d] \/ \E q \in AllRequests : asked'[d] = Append(asked[d], q)
    BY <2>2, <2>3 DEF TypeOK
  <2>. QED
    BY <2>4, <2>5, <2>6, <2>7, Kept
<1>2. CASE Receive(c)
  <2>1. /\ UNCHANGED <<peer, asked, taken, work, closed, dead, short>>
        /\ received' = [received EXCEPT ![c] = received[c] \o sndbuf[c]]
        /\ sndbuf' = [sndbuf EXCEPT ![c] = <<>>]
    BY <1>2 DEF Receive
  <2>2. received[c] \in Seq(Bytes) /\ sndbuf[c] \in Seq(Bytes) /\ <<>> \in Seq(Bytes)
    BY DEF TypeOK
  <2>3. TypeOK'
    BY <2>1, <2>2 DEF TypeOK
  <2>4. \A d \in Clients : Stream(d)' = Stream(d)
    <3>. SUFFICES ASSUME NEW d \in Clients
                  PROVE  received'[d] \o sndbuf'[d] = received[d] \o sndbuf[d]
      BY DEF Stream
    <3>1. CASE d = c
      <4>1. received'[d] = received[c] \o sndbuf[c] /\ sndbuf'[d] = <<>>
        BY <2>1, <3>1 DEF TypeOK
      <4>2. (received[c] \o sndbuf[c]) \o <<>> = received[c] \o sndbuf[c]
        BY <2>2
      <4>. QED
        BY <3>1, <4>1, <4>2
    <3>2. CASE d # c
      BY <2>1, <3>2 DEF TypeOK
    <3>. QED
      BY <3>1, <3>2
  <2>. QED
    BY <2>1, <2>3, <2>4, Kept
<1>3. ASSUME NEW how \in {"stalls", "left"}, StopReading(c, how)
      PROVE  IndInv'
  <2>1. /\ UNCHANGED <<asked, taken, work, sndbuf, received, closed, dead, short>>
        /\ peer' = [peer EXCEPT ![c] = how] /\ peer[c] # "left"
    BY <1>3 DEF StopReading
  <2>2. TypeOK'
    BY <2>1 DEF TypeOK
  <2>3. \A d \in Clients : Stream(d)' = Stream(d) /\ (peer'[d] # "left" => peer[d] # "left")
    BY <2>1 DEF Stream, TypeOK
  <2>. QED
    BY <2>1, <2>2, <2>3, Kept
<1>. QED
  BY <1>1, <1>2, <1>3 DEF Client

\* A worker takes a request: nothing of its answer has been sent.
LEMMA DoRequestKeeps ==
  ASSUME IndInv, NEW w \in Workers, NEW c \in Clients, DoRequest(w, c)
  PROVE  IndInv'
<1>. USE DEF IndInv
<1>. DEFINE k == taken[c] + 1
            data == Encode(k, AnswerTo(asked[c][k]))
<1>1. /\ work[w] = Idle /\ Serving(c) = {} /\ c \notin closed /\ k <= Len(asked[c])
      /\ taken' = [taken EXCEPT ![c] = k]
      /\ work' = [work EXCEPT ![w] = [c |-> c, data |-> data, len |-> Len(data), last |-> Closes(asked[c][k])]]
      /\ UNCHANGED <<peer, asked, sndbuf, received, closed, dead, short>>
  BY DEF DoRequest
<1>2. taken[c] \in Nat /\ k \in Nat /\ Len(asked[c]) \in Nat /\ k \in 1 .. Len(asked[c])
      /\ asked[c] \in Seq(AllRequests)
  BY <1>1 DEF TypeOK
<1>3. data \in Seq(Bytes) /\ Len(data) = Told(asked[c][k]) /\ Len(data) \in Nat /\ data = Answer(c, k)
  BY <1>2, EncodedType, EncodedLength DEF Answer
<1>4. Closes(asked[c][k]) \in BOOLEAN
  BY DEF Closes
<1>. HIDE DEF data
<1>5. TypeOK'
  BY <1>1, <1>2, <1>3, <1>4 DEF TypeOK
<1>6. \A d \in Clients : /\ Stream(d)' = Stream(d)
                         /\ taken'[d] = IF d = c THEN k ELSE taken[d]
  BY <1>1 DEF Stream, TypeOK
<1>7. \A v \in Workers : IF v = w
        THEN work'[v].c = c /\ work'[v].data = data /\ work'[v].len = Len(data)
        ELSE work'[v] = work[v]
  BY <1>1 DEF TypeOK
<1>8. \A d \in Clients : Serving(d)' = IF d = c THEN {w} ELSE Serving(d)
  <2>1. work[w].c = None
    BY <1>1 DEF Idle
  <2>2. \A v \in Workers : work[v].c # c
    BY <1>1 DEF Serving
  <2>. QED
    BY <1>7, <2>1, <2>2, NoneAssumption DEF Serving
<1>9. OneServes'
  <2>1. \A d \in Clients : taken'[d] <= Len(asked'[d])
    BY <1>1, <1>2, <1>6 DEF OneServes
  <2>2. \A v \in Workers : work'[v].c = None => work'[v].len = 0
    BY <1>7, NoneAssumption DEF OneServes
  <2>3. ASSUME NEW d \in Clients, NEW v \in Serving(d)'
        PROVE  /\ Serving(d)' = {v} /\ d \notin closed'
               /\ taken'[d] > 0 /\ work'[v].data = Encode(taken'[d], AnswerTo(asked'[d][taken'[d]]))
               /\ work'[v].len <= Len(work'[v].data)
    <3>1. CASE d = c
      <4>1. v = w /\ taken'[d] = k
        BY <1>6, <1>8, <3>1
      <4>. QED
        BY <1>1, <1>2, <1>3, <1>7, <1>8, <3>1, <4>1 DEF Answer
    <3>2. CASE d # c
      <4>1. v \in Serving(d) /\ Serving(d)' = Serving(d) /\ taken'[d] = taken[d] /\ v \in Workers
        BY <1>6, <1>8, <3>2 DEF Serving
      <4>2. v # w
        BY <1>1, <4>1, NoneAssumption DEF Serving, Idle
      <4>3. work'[v] = work[v]
        BY <1>7, <4>1, <4>2
      <4>4. /\ Serving(d) = {v} /\ d \notin closed
            /\ taken[d] > 0 /\ work[v].data = Encode(taken[d], AnswerTo(asked[d][taken[d]]))
            /\ work[v].len <= Len(work[v].data)
        BY <4>1 DEF OneServes, Answer
      <4>. QED
        BY <1>1, <4>1, <4>3, <4>4
    <3>. QED
      BY <3>1, <3>2
  <2>. QED
    BY <2>1, <2>2, <2>3 DEF OneServes, Answer
<1>10. \A d \in Clients : \A j : Start(d, j)' = Start(d, j)
  BY <1>1 DEF Start
<1>11. Start(c, k + 1) = Start(c, k) + Len(data) /\ Start(c, k) \in Nat /\ Len(Stream(c)) <= Start(c, k)
       /\ Len(Stream(c)) \in Nat
  <2>1. Start(c, k + 1) = Start(c, k) + Told(asked[c][k]) /\ Start(c, k) \in Nat
    BY <1>2, StartIs
  <2>2. Len(Stream(c)) <= Start(c, k)
    BY DEF Reached
  <2>3. Len(Stream(c)) \in Nat
    BY StreamIs
  <2>. QED
    BY <1>3, <2>1, <2>2, <2>3
<1>12. Reached'
  <2>. SUFFICES ASSUME NEW d \in Clients
                PROVE  /\ Len(Stream(d)') <= Starts(asked'[d])[taken'[d] + 1]
                       /\ d \notin closed' /\ peer'[d] # "left" =>
                            /\ Serving(d)' = {} => Len(Stream(d)') = Starts(asked'[d])[taken'[d] + 1]
                            /\ \A v \in Serving(d)' :
                                 /\ Len(Stream(d)') = Starts(asked'[d])[taken'[d] + 1] - work'[v].len
                                 /\ <<d, taken'[d]>> \notin short' => work'[v].len \in {0, Len(work'[v].data)}
    BY DEF Reached, Start
  <2>1. CASE d = c
    <3>1. taken'[d] = k /\ Serving(d)' = {w} /\ Stream(d)' = Stream(c) /\ asked'[d] = asked[c]
      BY <1>1, <1>6, <1>8, <2>1
    <3>2. Starts(asked[c])[k + 1] = Start(c, k) + Len(data)
      BY <1>11 DEF Start
    <3>3. work'[w].len = Len(data) /\ work'[w].data = data
      BY <1>7
    <3>4. peer[c] # "left" => Len(Stream(c)) = Start(c, k)
      BY <1>1 DEF Reached
    <3>. QED
      BY <1>1, <1>3, <1>11, <2>1, <3>1, <3>2, <3>3, <3>4
  <2>2. CASE d # c
    <3>1. taken'[d] = taken[d] /\ Serving(d)' = Serving(d) /\ Stream(d)' = Stream(d) /\ asked'[d] = asked[d]
      BY <1>1, <1>6, <1>8, <2>2
    <3>2. \A v \in Serving(d) : v \in Workers /\ v # w
      BY <1>1, NoneAssumption DEF Serving, Idle
    <3>3. \A v \in Serving(d) : work'[v] = work[v]
      BY <1>7, <3>2
    <3>. QED
      BY <1>1, <3>1, <3>3 DEF Reached, Start
  <2>. QED
    BY <2>1, <2>2
<1>13. InPlace'
  <2>. SUFFICES ASSUME NEW d \in Clients, NEW j \in 1 .. taken'[d], NEW i \in 1 .. Told(asked[d][j]),
                       Start(d, j) + i <= Len(Stream(d))
                PROVE  /\ Stream(d)[Start(d, j) + i].answer = j
                       /\ i = 1 => Stream(d)[Start(d, j) + i].at = 1
                       /\ <<d, j>> \notin short => Stream(d)[Start(d, j) + i] = Answer(d, j)[i]
    BY <1>1, <1>6, <1>10 DEF InPlace, Answer
  <2>1. j \in 1 .. taken[d]
    <3>1. CASE d = c /\ j = k
      <4>1. Start(d, j) + i <= Start(d, j)
        BY <1>11, <3>1
      <4>2. Start(d, j) \in Nat /\ Told(asked[d][j]) \in Nat
        BY <1>11, <3>1, EncodedLength
      <4>. QED
        BY <4>1, <4>2
    <3>2. CASE ~(d = c /\ j = k)
      BY <1>2, <1>6, <3>2
    <3>. QED
      BY <3>1, <3>2
  <2>. QED
    BY <2>1 DEF InPlace
<1>. QED
  BY <1>5, <1>9, <1>12, <1>13

\* What a send() takes, of whom, and where it comes in the stream.
LEMMA SendTakes ==
  ASSUME IndInv, NEW w \in Workers, Send(w)
  PROVE  LET c == work[w].c
             taking(n) ==
               /\ sndbuf' = [sndbuf EXCEPT ![c] = sndbuf[c] \o SubSeq(work[w].data, 1, n)]
               /\ work' = [work EXCEPT ![w].len = work[w].len - n]
               /\ short' = IF n < work[w].len THEN short \cup {<<c, taken[c]>>} ELSE short
         IN  /\ c \in Clients /\ w \in Serving(c) /\ peer[c] # "left"
             /\ UNCHANGED <<peer, asked, taken, received, closed, dead>>
             /\ \E n \in 1 .. work[w].len : taking(n)
<1>. USE DEF IndInv
<1>. DEFINE c == work[w].c
            n == Min({work[w].len, SndBuf - Len(sndbuf[c])})
<1>1. work[w].len \in Nat /\ work[w].len > 0 /\ c \in Clients
  BY DEF Send, Sending, TypeOK, OneServes
<1>2. Len(sndbuf[c]) \in Nat /\ SndBuf \in Nat
  BY <1>1, StreamIs, SndBufAssumption
<1>3. n \in Int /\ n <= work[w].len
  <2>1. work[w].len \in Int /\ SndBuf - Len(sndbuf[c]) \in Int
    <3>1. work[w].len \in Int
      BY ONLY <1>1
    <3>2. SndBuf - Len(sndbuf[c]) \in Int
      BY ONLY <1>2
    <3>. QED
      BY ONLY <3>1, <3>2
  <2>. QED
    BY <2>1, MinOfTwo
<1>4. /\ n > 0 /\ peer[c] # "left"
      /\ sndbuf' = [sndbuf EXCEPT ![c] = sndbuf[c] \o SubSeq(work[w].data, 1, n)]
      /\ work' = [work EXCEPT ![w].len = work[w].len - n]
      /\ short' = IF n < work[w].len THEN short \cup {<<c, taken[c]>>} ELSE short
      /\ UNCHANGED <<peer, asked, taken, received, closed, dead>>
  BY DEF Send, Left
<1>. HIDE DEF n
<1>5. n \in 1 .. work[w].len
  BY <1>1, <1>3, <1>4
<1>6. w \in Serving(c)
  BY DEF Serving
<1>. QED
  BY <1>1, <1>4, <1>5, <1>6

\* One sequence is another with a third behind it.
Extends(whole, before, e) ==
  /\ Len(whole) = Len(before) + Len(e)
  /\ \A p \in 1 .. Len(before) : whole[p] = before[p]
  /\ \A i \in 1 .. Len(e) : whole[Len(before) + i] = e[i]

\* Two sequences joined.
LEMMA Joined ==
  ASSUME NEW S, NEW a \in Seq(S), NEW b \in Seq(S)
  PROVE  Extends(a \o b, a, b)
<1>1. ASSUME NEW p \in 1 .. Len(a)
      PROVE  (a \o b)[p] = a[p]
  OBVIOUS
<1>2. ASSUME NEW i \in 1 .. Len(b)
      PROVE  (a \o b)[Len(a) + i] = b[i]
  OBVIOUS
<1>. QED
  BY <1>1, <1>2 DEF Extends

\* What is put behind the second part of a stream is behind the stream.
LEMMA Behind ==
  ASSUME NEW S, NEW a \in Seq(S), NEW b \in Seq(S), NEW e \in Seq(S)
  PROVE  Extends(a \o (b \o e), a \o b, e)
<1>1. Len(a \o b) = Len(a) + Len(b) /\ Len(b \o e) = Len(b) + Len(e)
      /\ Len(a) \in Nat /\ Len(b) \in Nat /\ Len(e) \in Nat
  OBVIOUS
<1>2. Len(a \o (b \o e)) = Len(a) + Len(b \o e)
  OBVIOUS
<1>3. ASSUME NEW p \in 1 .. Len(a \o b)
      PROVE  (a \o (b \o e))[p] = (a \o b)[p]
  <2>1. CASE p <= Len(a)
    <3>1. p \in 1 .. Len(a)
      BY <1>1, <2>1
    <3>. QED
      BY <3>1
  <2>2. CASE p > Len(a)
    <3>1. p - Len(a) \in 1 .. Len(b)
      BY <1>1, <2>2
    <3>2. (a \o b)[p] = b[p - Len(a)] /\ (a \o (b \o e))[p] = (b \o e)[p - Len(a)]
      BY <1>1, <1>2, <2>2
    <3>. QED
      BY <3>1, <3>2
  <2>. QED
    BY <1>1, <2>1, <2>2
<1>4. ASSUME NEW i \in 1 .. Len(e)
      PROVE  (a \o (b \o e))[Len(a \o b) + i] = e[i]
  <2>1. (a \o (b \o e))[Len(a) + (Len(b) + i)] = (b \o e)[Len(b) + i]
    BY <1>1
  <2>2. (b \o e)[Len(b) + i] = e[i]
    BY <1>1
  <2>3. Len(a \o b) + i = Len(a) + (Len(b) + i)
    BY <1>1
  <2>. QED
    BY <2>1, <2>2, <2>3
<1>5. Len(a \o (b \o e)) = Len(a \o b) + Len(e)
  BY <1>1, <1>2
<1>. QED
  BY <1>3, <1>4, <1>5 DEF Extends

\* A worker sends a part of its answer, or the whole: the bytes come behind what has been
\* sent, in the place of the answer.
LEMMA SendKeeps ==
  ASSUME IndInv, NEW w \in Workers, Send(w)
  PROVE  IndInv'
<1>. USE DEF IndInv
<1>. DEFINE data == work[w].data
            len == work[w].len
<1>0. PICK c \in Clients : c = work[w].c
  BY SendTakes
<1>1. /\ c \in Clients /\ w \in Serving(c) /\ peer[c] # "left"
      /\ UNCHANGED <<peer, asked, taken, received, closed, dead>>
  BY <1>0, SendTakes
<1>2. PICK n \in 1 .. len :
        /\ sndbuf' = [sndbuf EXCEPT ![c] = sndbuf[c] \o SubSeq(data, 1, n)]
        /\ work' = [work EXCEPT ![w].len = len - n]
        /\ short' = IF n < len THEN short \cup {<<c, taken[c]>>} ELSE short
  BY <1>0, SendTakes
<1>. DEFINE k == taken[c]
            from == Len(Stream(c))
<1>3. /\ Serving(c) = {w} /\ c \notin closed /\ k \in 1 .. Len(asked[c]) /\ k + 1 \in 1 .. Len(asked[c]) + 1
      /\ k \in 1 .. Len(asked[c]) + 1
      /\ data = Answer(c, k) /\ data \in Seq(Bytes) /\ len \in Nat /\ len <= Len(data) /\ Len(data) \in Nat
      /\ k \in Nat
  <2>1. /\ Serving(c) = {w} /\ c \notin closed /\ k > 0 /\ k <= Len(asked[c])
        /\ data = Answer(c, k) /\ len <= Len(data)
    BY <1>1 DEF OneServes
  <2>2. k \in Nat /\ data \in Seq(Bytes) /\ len \in Nat
    BY <1>1 DEF TypeOK
  <2>3. Len(asked[c]) \in Nat
    BY <1>1, StartIs
  <2>4. k \in 1 .. Len(asked[c]) /\ k + 1 \in 1 .. Len(asked[c]) + 1 /\ k \in 1 .. Len(asked[c]) + 1
    BY ONLY <2>1, <2>2, <2>3
  <2>. QED
    BY <2>1, <2>2, <2>4
<1>4. /\ Start(c, k) \in Nat /\ Start(c, k + 1) = Start(c, k) + Len(data)
      /\ Told(asked[c][k]) = Len(data) /\ Len(data) \in Nat
      /\ from \in Nat /\ from = Start(c, k + 1) - len
      /\ <<c, k>> \notin short => len \in {0, Len(data)}
  <2>1. /\ Start(c, k) \in Nat /\ Start(c, k + 1) = Start(c, k) + Told(asked[c][k])
        /\ Told(asked[c][k]) = Len(Answer(c, k))
    BY <1>1, <1>3, StartIs
  <2>2. from \in Nat
    BY <1>1, StreamIs
  <2>3. from = Start(c, k + 1) - len /\ (<<c, k>> \notin short => len \in {0, Len(data)})
    BY <1>1, <1>3 DEF Reached
  <2>. QED
    BY <1>3, <2>1, <2>2, <2>3
<1>5. /\ \A d \in Clients : Serving(d)' = Serving(d)
      /\ \A v \in Workers : /\ work'[v].c = work[v].c /\ work'[v].data = work[v].data
                            /\ work'[v].len = IF v = w THEN len - n ELSE work[v].len
  BY <1>2 DEF Serving, TypeOK
<1>6. /\ received[c] \in Seq(Bytes) /\ sndbuf[c] \in Seq(Bytes) /\ SubSeq(data, 1, n) \in Seq(Bytes)
      /\ Len(SubSeq(data, 1, n)) = n /\ \A i \in 1 .. n : SubSeq(data, 1, n)[i] = data[i]
      /\ n \in Nat
  <2>1. n \in 1 .. Len(data)
    BY <1>2, <1>3
  <2>. QED
    BY <1>1, <1>3, <2>1 DEF TypeOK
<1>7. TypeOK'
  <2>1. len - n \in Nat
    BY <1>2, <1>3
  <2>2. work' \in [Workers -> [c : Clients \cup {None}, data : Seq(Bytes), len : Nat, last : BOOLEAN]]
    BY <1>2, <2>1 DEF TypeOK
  <2>3. sndbuf' \in [Clients -> Seq(Bytes)]
    <3>1. sndbuf[c] \o SubSeq(data, 1, n) \in Seq(Bytes)
      BY <1>6
    <3>. QED
      BY <1>2, <3>1 DEF TypeOK
  <2>4. short' \in SUBSET (Clients \X Nat)
    BY <1>1, <1>2, <1>3 DEF TypeOK
  <2>. QED
    BY <1>1, <2>2, <2>3, <2>4 DEF TypeOK
<1>8. \A d \in Clients \ {c} : Stream(d)' = Stream(d)
  BY <1>1, <1>2 DEF Stream, TypeOK
<1>9. /\ Len(Stream(c)') = from + n
      /\ \A p \in 1 .. from : Stream(c)'[p] = Stream(c)[p]
      /\ \A i \in 1 .. n : Stream(c)'[from + i] = data[i]
  <2>1. sndbuf'[c] = sndbuf[c] \o SubSeq(data, 1, n)
    BY <1>1, <1>2 DEF TypeOK
  <2>2. Stream(c)' = received[c] \o (sndbuf[c] \o SubSeq(data, 1, n)) /\ Stream(c) = received[c] \o sndbuf[c]
    BY <1>1, <2>1 DEF Stream
  <2>. DEFINE e == SubSeq(data, 1, n)
              before == received[c] \o sndbuf[c]
              behind == received[c] \o (sndbuf[c] \o e)
  <2>3. e \in Seq(Bytes) /\ Len(e) = n /\ \A i \in 1 .. n : e[i] = data[i]
    BY <1>6
  <2>. HIDE DEF e
  <2>4. Extends(behind, before, e)
    BY <1>6, <2>3, Behind
  <2>5. Stream(c)' = behind /\ Stream(c) = before
    BY <2>2 DEF e
  <2>. HIDE DEF before, behind
  <2>. QED
    BY ONLY <2>3, <2>4, <2>5 DEF Extends
<1>. HIDE DEF from, len, data, k
<1>10. OneServes'
  <2>1. \A d \in Clients : taken'[d] <= Len(asked'[d])
    BY <1>1 DEF OneServes
  <2>2. \A v \in Workers : work'[v].c = None => work'[v].len = 0
    BY <1>0, <1>5, NoneAssumption DEF OneServes
  <2>3. ASSUME NEW d \in Clients, NEW v \in Serving(d)'
        PROVE  /\ Serving(d)' = {v} /\ d \notin closed'
               /\ taken'[d] > 0 /\ work'[v].data = Encode(taken'[d], AnswerTo(asked'[d][taken'[d]]))
               /\ work'[v].len <= Len(work'[v].data)
    <3>1. v \in Serving(d) /\ v \in Workers
      BY <1>5 DEF Serving
    <3>2. /\ Serving(d) = {v} /\ d \notin closed
          /\ taken[d] > 0 /\ work[v].data = Encode(taken[d], AnswerTo(asked[d][taken[d]]))
          /\ work[v].len <= Len(work[v].data)
      BY <3>1 DEF OneServes, Answer
    <3>3. work'[v].len <= Len(work[v].data)
      <4>1. CASE v = w
        <5>1. work'[v].len = len - n /\ Len(work[v].data) = Len(data)
          BY <1>5, <3>1, <4>1 DEF data
        <5>2. len - n <= Len(data)
          BY ONLY <1>3, <1>6
        <5>. QED
          BY ONLY <5>1, <5>2
      <4>2. CASE v # w
        BY <1>5, <3>1, <3>2, <4>2
      <4>. QED
        BY <4>1, <4>2
    <3>. QED
      BY <1>1, <1>5, <3>1, <3>2, <3>3
  <2>. QED
    BY <2>1, <2>2, <2>3 DEF OneServes, Answer
<1>11. \A d \in Clients : \A j : Start(d, j)' = Start(d, j)
  BY <1>1 DEF Start
<1>12. Reached'
  <2>. SUFFICES ASSUME NEW d \in Clients
                PROVE  /\ Len(Stream(d)') <= Start(d, taken[d] + 1)
                       /\ d \notin closed /\ peer[d] # "left" =>
                            /\ Serving(d) = {} => Len(Stream(d)') = Start(d, taken[d] + 1)
                            /\ \A v \in Serving(d) :
                                 /\ Len(Stream(d)') = Start(d, taken[d] + 1) - work'[v].len
                                 /\ <<d, taken[d]>> \notin short' => work'[v].len \in {0, Len(work'[v].data)}
    <3>1. taken' = taken /\ closed' = closed /\ peer' = peer /\ asked' = asked
      BY <1>1
    <3>. QED
      BY <1>5, <3>1 DEF Reached, Start
  <2>1. CASE d = c
    <3>1. work'[w].len = len - n
      BY <1>5
    <3>2. Start(c, k + 1) \in Nat
      BY <1>4
    <3>3. Len(Stream(c)') = Start(c, k + 1) - (len - n)
      <4>1. \A x, y, z \in Nat : (x - y) + z = x - (y - z)
        OBVIOUS
      <4>2. len \in Nat /\ n \in Nat
        BY ONLY <1>3, <1>6
      <4>3. Len(Stream(c)') = from + n /\ from = Start(c, k + 1) - len
        BY ONLY <1>4, <1>9
      <4>. QED
        BY ONLY <3>2, <4>1, <4>2, <4>3
    <3>4. <<c, k>> \notin short' => len - n = 0
      <4>1. CASE n < len
        BY <1>2, <4>1 DEF k
      <4>2. CASE n = len
        BY <1>3, <4>2
      <4>. QED
        BY <1>2, <1>3, <4>1, <4>2
    <3>5. len - n >= 0
      BY <1>2, <1>3
    <3>6. Len(Stream(c)') <= Start(c, k + 1)
      BY <1>3, <1>6, <3>2, <3>3, <3>5
    <3>. QED
      BY <1>3, <2>1, <3>1, <3>3, <3>4, <3>6 DEF k
  <2>2. CASE d # c
    <3>1. \A v \in Serving(d) : v \in Workers /\ v # w
      BY <1>0, <2>2 DEF Serving
    <3>2. \A v \in Serving(d) : work'[v].len = work[v].len /\ work'[v].data = work[v].data
      BY <1>5, <3>1
    <3>3. <<d, taken[d]>> \notin short' => <<d, taken[d]>> \notin short
      BY <1>2
    <3>. QED
      BY <1>8, <2>2, <3>2, <3>3 DEF Reached
  <2>. QED
    BY <2>1, <2>2
<1>13. InPlace'
  <2>. SUFFICES ASSUME NEW d \in Clients, NEW j \in 1 .. taken[d], NEW i \in 1 .. Told(asked[d][j]),
                       Start(d, j) + i <= Len(Stream(d)')
                PROVE  /\ Stream(d)'[Start(d, j) + i].answer = j
                       /\ i = 1 => Stream(d)'[Start(d, j) + i].at = 1
                       /\ <<d, j>> \notin short' => Stream(d)'[Start(d, j) + i] = Answer(d, j)[i]
    <3>1. taken' = taken /\ asked' = asked
      BY <1>1
    <3>. QED
      BY <1>11, <3>1 DEF InPlace, Answer
  <2>. DEFINE p == Start(d, j) + i
  <2>1. <<d, j>> \notin short' => <<d, j>> \notin short
    BY <1>2
  <2>2. CASE p <= Len(Stream(d)) /\ Stream(d)'[p] = Stream(d)[p]
    BY <2>1, <2>2 DEF InPlace
  <2>3. CASE d = c /\ p > from
    <3>1. j = k
      <4>1. ASSUME j # k
            PROVE  FALSE
        <5>1. taken[d] \in Nat /\ taken[d] = k
          BY <1>3, <2>3 DEF k
        <5>2. j \in 1 .. Len(asked[c]) /\ j + 1 \in 1 .. k
          BY <1>3, <4>1, <5>1
        <5>3. Start(c, j + 1) = Start(c, j) + Told(asked[c][j]) /\ Start(c, j) \in Nat
              /\ Told(asked[c][j]) \in Nat
          <6>1. /\ Len(asked[c]) \in Nat
                /\ \A g \in 1 .. Len(asked[c]) + 1 : Start(c, g) \in Nat
                /\ \A g \in 1 .. Len(asked[c]) :
                     Start(c, g + 1) = Start(c, g) + Told(asked[c][g]) /\ Told(asked[c][g]) \in Nat
            BY <1>1, StartIs
          <6>2. j \in 1 .. Len(asked[c]) + 1
            BY ONLY <5>2, <6>1
          <6>. QED
            BY ONLY <5>2, <6>1, <6>2
        <5>4. Start(c, j + 1) <= Start(c, k)
          <6>1. \A h \in 1 .. Len(asked[c]) + 1 : \A g \in 1 .. h : Start(c, g) <= Start(c, h)
            BY <1>1, StartIs
          <6>. QED
            BY ONLY <1>3, <5>2, <6>1
        <5>5. p <= Start(c, k)
          <6>1. i \in Nat /\ i <= Told(asked[c][j]) /\ p = Start(c, j) + i
            BY <2>3, <5>3
          <6>2. \A x, y, z, t \in Nat : z <= y /\ x + y <= t => x + z <= t
            OBVIOUS
          <6>3. Start(c, j) + Told(asked[c][j]) <= Start(c, k) /\ Start(c, k) \in Nat
            BY ONLY <1>4, <5>3, <5>4
          <6>. HIDE DEF p
          <6>. QED
            BY ONLY <5>3, <6>1, <6>2, <6>3
        <5>6. Start(c, k) <= from
          BY <1>3, <1>4
        <5>7. p \in Nat
          BY <2>3, <5>3
        <5>. QED
          BY <1>4, <2>3, <5>5, <5>6, <5>7
      <4>. QED
        BY <4>1
    <3>. DEFINE m == p - from
    <3>2. p \in Nat /\ i \in 1 .. Len(data) /\ p = Start(c, k) + i
      <4>1. i \in 1 .. Len(data) /\ p = Start(c, k) + i
        BY <1>4, <2>3, <3>1
      <4>2. Start(c, k) \in Nat /\ Len(data) \in Nat
        BY ONLY <1>4
      <4>3. \A x, l \in Nat : \A y \in 1 .. l : x + y \in Nat
        OBVIOUS
      <4>4. Start(c, k) + i \in Nat
        BY ONLY <4>1, <4>2, <4>3
      <4>. HIDE DEF p
      <4>. QED
        BY ONLY <4>1, <4>4
    <3>3. m \in 1 .. n /\ p = from + m /\ m \in 1 .. Len(data)
      <4>1. p <= from + n /\ p > from
        BY <1>9, <2>3
      <4>2. n \in Nat /\ n <= Len(data) /\ from \in Nat /\ Len(data) \in Nat
        BY <1>2, <1>3, <1>4, <1>6
      <4>. HIDE DEF p
      <4>. QED
        BY ONLY <3>2, <4>1, <4>2
    <3>. HIDE DEF p, m
    <3>4. Stream(c)'[p] = data[m]
      BY <1>9, <3>3
    <3>5. data[m].answer = k /\ data[m].at = m
      <4>1. DOMAIN Answer(c, k) = 1 .. HeadLen + Len(AnswerTo(asked[c][k]).body)
        BY DEF Answer, Encode
      <4>2. m \in DOMAIN Answer(c, k)
        BY <1>3, <3>3
      <4>. QED
        BY <1>3, <4>1, <4>2 DEF Answer, Encode
    <3>6. i = 1 => m = 1
      <4>1. i = 1 => p = Start(c, k) + 1
        BY ONLY <3>2
      <4>2. Start(c, k) <= from
        BY ONLY <1>3, <1>4
      <4>. QED
        BY ONLY <1>4, <3>3, <4>1, <4>2
    <3>7. <<c, k>> \notin short' => m = i
      <4>1. CASE n < len
        BY <1>2, <4>1 DEF k
      <4>2. CASE n = len
        <5>1. <<c, k>> \notin short => len = Len(data)
          BY <1>2, <1>3, <1>4, <4>2
        <5>2. <<c, k>> \notin short => from = Start(c, k)
          BY ONLY <1>4, <5>1
        <5>3. <<c, k>> \notin short => m = i
          BY ONLY <1>4, <3>2, <3>3, <5>2
        <5>4. short' = short
          BY <1>2, <1>3, <4>2
        <5>. QED
          BY ONLY <5>3, <5>4
      <4>. QED
        BY <1>2, <1>3, <4>1, <4>2
    <3>. QED
      BY <1>3, <2>3, <3>1, <3>4, <3>5, <3>6, <3>7 DEF p
  <2>4. p \in Nat /\ p >= 1
    <3>1. Start(d, j) \in Nat
      <4>1. taken[d] \in Nat /\ taken[d] <= Len(asked[d]) /\ Len(asked[d]) \in Nat
        BY StartIs DEF TypeOK, OneServes
      <4>2. j \in 1 .. Len(asked[d]) + 1
        BY <4>1
      <4>. QED
        BY <4>2, StartIs
    <3>2. Told(asked[d][j]) \in Nat
      BY EncodedLength
    <3>. QED
      BY <3>1, <3>2
  <2>5. CASE d = c /\ p <= from
    <3>1. p \in 1 .. from
      BY <1>4, <2>4, <2>5
    <3>2. Stream(d)'[p] = Stream(d)[p]
      BY <1>9, <2>5, <3>1
    <3>. QED
      BY <2>2, <2>5, <3>2 DEF from
  <2>6. CASE d # c
    BY <1>8, <2>2, <2>6
  <2>. QED
    BY <1>4, <2>3, <2>4, <2>5, <2>6
<1>. QED
  BY <1>7, <1>10, <1>12, <1>13

\* To a client that has left the worker sends no more.
LEMMA SendToNobodyKeeps ==
  ASSUME IndInv, NEW w \in Workers, SendToNobody(w)
  PROVE  IndInv'
<1>. USE DEF IndInv
<1>1. /\ peer[work[w].c] = "left" /\ work' = [work EXCEPT ![w].len = 0] /\ dead' \in BOOLEAN
      /\ UNCHANGED <<peer, asked, taken, sndbuf, received, closed, short>>
  BY DEF SendToNobody
<1>2. TypeOK'
  BY <1>1 DEF TypeOK
<1>3. /\ \A d \in Clients : Serving(d)' = Serving(d) /\ Stream(d)' = Stream(d)
      /\ \A v \in Workers : /\ work'[v].c = work[v].c /\ work'[v].data = work[v].data
                            /\ work'[v].len = IF v = w THEN 0 ELSE work[v].len
      /\ \A d \in Clients : \A j : Start(d, j)' = Start(d, j) /\ Answer(d, j)' = Answer(d, j)
  BY <1>1 DEF Serving, Stream, Start, Answer, TypeOK
<1>4. OneServes'
  <2>1. \A d \in Clients : taken'[d] <= Len(asked'[d])
    BY <1>1 DEF OneServes
  <2>2. \A v \in Workers : work'[v].c = None => work'[v].len = 0
    BY <1>3 DEF OneServes
  <2>3. ASSUME NEW d \in Clients, NEW v \in Serving(d)'
        PROVE  /\ Serving(d)' = {v} /\ d \notin closed'
               /\ taken'[d] > 0 /\ work'[v].data = Encode(taken'[d], AnswerTo(asked'[d][taken'[d]]))
               /\ work'[v].len <= Len(work'[v].data)
    <3>1. v \in Serving(d) /\ v \in Workers
      BY <1>3 DEF Serving
    <3>2. /\ Serving(d) = {v} /\ d \notin closed
          /\ taken[d] > 0 /\ work[v].data = Encode(taken[d], AnswerTo(asked[d][taken[d]]))
          /\ work[v].len <= Len(work[v].data)
      BY <3>1 DEF OneServes, Answer
    <3>3. Len(work[v].data) \in Nat
      BY <3>1 DEF TypeOK
    <3>. QED
      BY <1>1, <1>3, <3>1, <3>2, <3>3
  <2>. QED
    BY <2>1, <2>2, <2>3 DEF OneServes, Answer
<1>5. Reached'
  <2>. SUFFICES ASSUME NEW d \in Clients
                PROVE  /\ Len(Stream(d)) <= Start(d, taken[d] + 1)
                       /\ d \notin closed /\ peer[d] # "left" =>
                            /\ Serving(d) = {} => Len(Stream(d)) = Start(d, taken[d] + 1)
                            /\ \A v \in Serving(d) :
                                 /\ Len(Stream(d)) = Start(d, taken[d] + 1) - work'[v].len
                                 /\ <<d, taken[d]>> \notin short => work'[v].len \in {0, Len(work'[v].data)}
    <3>1. taken' = taken /\ closed' = closed /\ peer' = peer /\ asked' = asked /\ short' = short
      BY <1>1
    <3>. QED
      BY <1>3, <3>1 DEF Reached, Start
  <2>1. peer[d] # "left" => \A v \in Serving(d) : v \in Workers /\ v # w
    BY <1>1 DEF Serving
  <2>. QED
    BY <1>3, <2>1 DEF Reached
<1>6. InPlace'
  BY <1>1, <1>3 DEF InPlace
<1>. QED
  BY <1>2, <1>4, <1>5, <1>6

\* A worker that has sent its answer goes back to the pool, and may close the connection.
LEMMA ReturnKeeps ==
  ASSUME IndInv, NEW w \in Workers, Return(w)
  PROVE  IndInv'
<1>. USE DEF IndInv
<1>0. PICK c \in Clients : c = work[w].c
  BY DEF Return, TypeOK
<1>1. /\ work[w].len = 0 /\ work' = [work EXCEPT ![w] = Idle]
      /\ closed' = IF work[w].last THEN closed \cup {c} ELSE closed
      /\ sndbuf' = sndbuf \/ (work[w].last /\ sndbuf' = [sndbuf EXCEPT ![c] = <<>>])
      /\ UNCHANGED <<peer, asked, taken, received, dead, short>>
  BY <1>0 DEF Return
<1>2. TypeOK'
  <2>1. <<>> \in Seq(Bytes) /\ Idle \in [c : Clients \cup {None}, data : Seq(Bytes), len : Nat, last : BOOLEAN]
    BY DEF Idle
  <2>2. sndbuf' \in [Clients -> Seq(Bytes)]
    BY <1>1, <2>1 DEF TypeOK
  <2>. QED
    BY <1>1, <2>1, <2>2 DEF TypeOK
<1>3. /\ Serving(c) = {w} /\ c \notin closed
      /\ taken[c] > 0 /\ work[w].data = Answer(c, taken[c])
  <2>1. w \in Serving(c)
    BY <1>0 DEF Serving
  <2>. QED
    BY <2>1 DEF OneServes
<1>4. /\ \A v \in Workers : IF v = w THEN work'[v].c = None /\ work'[v].len = 0 ELSE work'[v] = work[v]
      /\ \A d \in Clients : Serving(d)' = IF d = c THEN {} ELSE Serving(d)
      /\ \A d \in Clients : \A j : Start(d, j)' = Start(d, j) /\ Answer(d, j)' = Answer(d, j)
  <2>1. \A v \in Workers : IF v = w THEN work'[v].c = None /\ work'[v].len = 0 ELSE work'[v] = work[v]
    BY <1>1 DEF TypeOK, Idle
  <2>2. \A v \in Workers : work[v].c = c <=> v = w
    BY <1>0, <1>3 DEF Serving
  <2>3. \A d \in Clients : Serving(d)' = IF d = c THEN {} ELSE Serving(d)
    BY <1>0, <2>1, <2>2, NoneAssumption DEF Serving
  <2>4. \A d \in Clients : \A j : Start(d, j)' = Start(d, j) /\ Answer(d, j)' = Answer(d, j)
    BY <1>1 DEF Start, Answer
  <2>. QED
    BY <2>1, <2>3, <2>4
<1>5. /\ \A d \in Clients : d \notin closed' => d \notin closed /\ Stream(d)' = Stream(d)
      /\ \A d \in Clients : d # c => (d \in closed' <=> d \in closed)
  <2>1. \A d \in Clients : d \notin closed' => d \notin closed /\ sndbuf'[d] = sndbuf[d]
    BY <1>1 DEF TypeOK
  <2>. QED
    BY <1>1, <2>1 DEF Stream
<1>6. \A d \in Clients : /\ Len(Stream(d)') <= Len(Stream(d)) /\ Len(Stream(d)') \in Nat /\ Len(Stream(d)) \in Nat
                         /\ \A p \in 1 .. Len(Stream(d)') : Stream(d)'[p] = Stream(d)[p]
  <2>. SUFFICES ASSUME NEW d \in Clients
                PROVE  /\ Len(Stream(d)') <= Len(Stream(d)) /\ Len(Stream(d)') \in Nat /\ Len(Stream(d)) \in Nat
                       /\ \A p \in 1 .. Len(Stream(d)') : Stream(d)'[p] = Stream(d)[p]
    OBVIOUS
  <2>1. received[d] \in Seq(Bytes) /\ sndbuf[d] \in Seq(Bytes)
    BY DEF TypeOK
  <2>2. CASE sndbuf'[d] = sndbuf[d]
    <3>1. Stream(d)' = Stream(d)
      BY <1>1, <2>2 DEF Stream
    <3>. QED
      BY <3>1, StreamIs
  <2>3. CASE sndbuf'[d] = <<>>
    <3>1. Stream(d)' = received[d]
      BY <1>1, <2>1, <2>3 DEF Stream
    <3>2. Extends(Stream(d), received[d], sndbuf[d])
      BY <2>1, Joined DEF Stream
    <3>3. Len(received[d]) \in Nat /\ Len(sndbuf[d]) \in Nat
      BY StreamIs
    <3>. QED
      <4>1. Len(Stream(d)) = Len(received[d]) + Len(sndbuf[d])
            /\ \A p \in 1 .. Len(received[d]) : Stream(d)[p] = received[d][p]
        BY ONLY <3>2 DEF Extends
      <4>2. \A x, y \in Nat : x <= x + y /\ x + y \in Nat
        OBVIOUS
      <4>3. Len(received[d]) <= Len(Stream(d)) /\ Len(Stream(d)) \in Nat
        BY ONLY <3>3, <4>1, <4>2, Zenon
      <4>. QED
        BY ONLY <3>1, <3>3, <4>1, <4>3
  <2>4. sndbuf'[d] = sndbuf[d] \/ sndbuf'[d] = <<>>
    BY <1>1 DEF TypeOK
  <2>. QED
    BY <2>2, <2>3, <2>4
<1>7. OneServes'
  <2>1. \A d \in Clients : taken'[d] <= Len(asked'[d])
    BY <1>1 DEF OneServes
  <2>2. \A v \in Workers : work'[v].c = None => work'[v].len = 0
    BY <1>4 DEF OneServes
  <2>3. ASSUME NEW d \in Clients, NEW v \in Serving(d)'
        PROVE  /\ Serving(d)' = {v} /\ d \notin closed'
               /\ taken'[d] > 0 /\ work'[v].data = Encode(taken'[d], AnswerTo(asked'[d][taken'[d]]))
               /\ work'[v].len <= Len(work'[v].data)
    <3>1. d # c /\ v \in Serving(d) /\ v \in Workers
      BY <1>4 DEF Serving
    <3>2. v # w
      BY <1>0, <3>1 DEF Serving
    <3>3. /\ Serving(d) = {v} /\ d \notin closed
          /\ taken[d] > 0 /\ work[v].data = Encode(taken[d], AnswerTo(asked[d][taken[d]]))
          /\ work[v].len <= Len(work[v].data)
      BY <3>1 DEF OneServes, Answer
    <3>. QED
      BY <1>1, <1>4, <1>5, <3>1, <3>2, <3>3
  <2>. QED
    BY <2>1, <2>2, <2>3 DEF OneServes, Answer
<1>8. Reached'
  <2>. SUFFICES ASSUME NEW d \in Clients
                PROVE  /\ Len(Stream(d)') <= Start(d, taken[d] + 1)
                       /\ d \notin closed' /\ peer[d] # "left" =>
                            /\ Serving(d)' = {} => Len(Stream(d)') = Start(d, taken[d] + 1)
                            /\ \A v \in Serving(d)' :
                                 /\ Len(Stream(d)') = Start(d, taken[d] + 1) - work'[v].len
                                 /\ <<d, taken[d]>> \notin short => work'[v].len \in {0, Len(work'[v].data)}
    <3>1. taken' = taken /\ peer' = peer /\ asked' = asked /\ short' = short
      BY <1>1
    <3>. QED
      BY <1>4, <3>1 DEF Reached, Start
  <2>1. Start(d, taken[d] + 1) \in Nat
    <3>1. taken[d] \in Nat /\ taken[d] <= Len(asked[d]) /\ Len(asked[d]) \in Nat
      BY StartIs DEF TypeOK, OneServes
    <3>2. taken[d] + 1 \in 1 .. Len(asked[d]) + 1
      BY <3>1
    <3>. QED
      BY <3>2, StartIs
  <2>2. Len(Stream(d)') <= Start(d, taken[d] + 1)
    <3>1. Len(Stream(d)) <= Start(d, taken[d] + 1)
      BY DEF Reached
    <3>. QED
      BY <1>6, <2>1, <3>1
  <2>3. ASSUME d \notin closed', peer[d] # "left"
        PROVE  /\ Serving(d)' = {} => Len(Stream(d)') = Start(d, taken[d] + 1)
               /\ \A v \in Serving(d)' :
                    /\ Len(Stream(d)') = Start(d, taken[d] + 1) - work'[v].len
                    /\ <<d, taken[d]>> \notin short => work'[v].len \in {0, Len(work'[v].data)}
    <3>1. d \notin closed /\ Stream(d)' = Stream(d)
      BY <1>5, <2>3
    <3>2. CASE d = c
      <4>1. Len(Stream(d)) = Start(d, taken[d] + 1) - work[w].len
        BY <1>3, <2>3, <3>1, <3>2 DEF Reached
      <4>. QED
        BY <1>1, <1>4, <2>1, <3>1, <3>2, <4>1
    <3>3. CASE d # c
      <4>1. Serving(d)' = Serving(d) /\ \A v \in Serving(d) : v \in Workers /\ v # w
        BY <1>0, <1>4, <3>3 DEF Serving
      <4>2. \A v \in Serving(d) : work'[v] = work[v]
        BY <1>4, <4>1
      <4>. QED
        BY <2>3, <3>1, <4>1, <4>2 DEF Reached
    <3>. QED
      BY <3>2, <3>3
  <2>. QED
    BY <2>2, <2>3
<1>9. InPlace'
  <2>. SUFFICES ASSUME NEW d \in Clients, NEW j \in 1 .. taken[d], NEW i \in 1 .. Told(asked[d][j]),
                       Start(d, j) + i <= Len(Stream(d)')
                PROVE  /\ Stream(d)'[Start(d, j) + i].answer = j
                       /\ i = 1 => Stream(d)'[Start(d, j) + i].at = 1
                       /\ <<d, j>> \notin short => Stream(d)'[Start(d, j) + i] = Answer(d, j)[i]
    BY <1>1, <1>4 DEF InPlace
  <2>1. Start(d, j) \in Nat /\ i \in Nat /\ i >= 1
    <3>1. taken[d] \in Nat /\ taken[d] <= Len(asked[d]) /\ Len(asked[d]) \in Nat
      BY StartIs DEF TypeOK, OneServes
    <3>2. j \in 1 .. Len(asked[d]) + 1
      BY <3>1
    <3>3. Told(asked[d][j]) \in Nat
      BY EncodedLength
    <3>. QED
      BY <3>2, <3>3, StartIs
  <2>2. Start(d, j) + i \in 1 .. Len(Stream(d)') /\ Start(d, j) + i <= Len(Stream(d))
    BY <1>6, <2>1
  <2>3. Stream(d)'[Start(d, j) + i] = Stream(d)[Start(d, j) + i]
    BY <1>6, <2>2
  <2>. QED
    BY <2>2, <2>3 DEF InPlace
<1>. QED
  BY <1>2, <1>7, <1>8, <1>9

\* Every step keeps the invariant.
LEMMA NextKeeps ==
  ASSUME IndInv, [Next]_vars
  PROVE  IndInv'
<1>1. CASE \E c \in Clients : Client(c)
  BY <1>1, ClientKeeps
<1>2. CASE \E w \in Workers : Worker(w)
  BY <1>2, DoRequestKeeps, SendKeeps, SendToNobodyKeeps, ReturnKeeps DEF Worker
<1>3. CASE UNCHANGED vars
  <2>1. UNCHANGED <<peer, asked, taken, work, sndbuf, received, closed, dead, short>>
    BY <1>3 DEF vars
  <2>2. TypeOK'
    BY <2>1 DEF IndInv, TypeOK
  <2>3. \A c \in Clients : Stream(c)' = Stream(c)
    BY <2>1 DEF Stream
  <2>. QED
    BY <2>1, <2>2, <2>3, Kept
<1>. QED
  BY <1>1, <1>2, <1>3 DEF Next

\* The invariant holds in every state.
LEMMA Inductive == Spec => []IndInv
<1>1. Init => IndInv
  BY InitHolds
<1>2. IndInv /\ [Next]_vars => IndInv'
  BY NextKeeps
<1>. QED
  BY <1>1, <1>2, PTL DEF Spec

-----------------------------------------------------------------------------
(* The theorems.                                                           *)

\* The requests, the answers and the streams of bytes are what they are used as.
THEOREM TypeCorrect == Spec => []TypeOK
<1>1. IndInv => TypeOK
  BY DEF IndInv
<1>. QED
  BY <1>1, Inductive, PTL

\* One worker at a time serves a client, with the answer to the request taken last, and
\* on a connection that is not closed (processor.cc:75-150).
THEOREM ServesOne == Spec => []OneServes
<1>1. IndInv => OneServes
  BY DEF IndInv
<1>. QED
  BY <1>1, Inductive, PTL

\* An answer reaches its client byte for byte and in its turn, unless a send() took a
\* part of it (error_code.h:13-27).
THEOREM AnswersIntact == Spec => []Intact
<1>1. ASSUME IndInv
      PROVE  Intact
  <2>. USE <1>1 DEF IndInv
  <2>. SUFFICES ASSUME NEW c \in Clients, NEW j \in DOMAIN Stream(c)
                PROVE  /\ j <= Len(Due(asked[c]))
                       /\ <<c, Due(asked[c])[j].answer>> \notin short => Stream(c)[j] = Due(asked[c])[j]
    BY DEF Intact
  <2>. DEFINE due == Due(asked[c])
              n == Len(asked[c])
  <2>1. asked[c] \in Seq(AllRequests) /\ n \in Nat /\ taken[c] \in Nat /\ taken[c] <= n
    BY StartIs DEF TypeOK, OneServes
  <2>2. /\ Len(due) = Start(c, n + 1)
        /\ \A k \in 1 .. n : \A i \in 1 .. Told(asked[c][k]) : due[Start(c, k) + i] = Answer(c, k)[i]
    BY <2>1, DueIs DEF Start, Answer
  <2>. HIDE DEF due
  <2>3. j \in 1 .. Len(Stream(c)) /\ Len(Stream(c)) \in Nat
    BY StreamIs
  <2>4. taken[c] + 1 \in 1 .. n + 1
    BY ONLY <2>1
  <2>5. /\ Start(c, taken[c] + 1) \in Nat /\ Start(c, n + 1) \in Nat
        /\ Start(c, taken[c] + 1) <= Start(c, n + 1)
    BY <2>1, <2>4, StartIs
  <2>6. Len(Stream(c)) <= Start(c, taken[c] + 1)
    BY DEF Reached
  <2>7. j \in 1 .. Start(c, n + 1) /\ j <= Start(c, taken[c] + 1)
    BY ONLY <2>3, <2>5, <2>6
  <2>8. PICK k \in 1 .. n : \E i \in 1 .. Told(asked[c][k]) : j = Start(c, k) + i
    BY <2>1, <2>7, Places DEF Start
  <2>9. PICK i \in 1 .. Told(asked[c][k]) : j = Start(c, k) + i
    BY <2>8
  <2>10. k \in 1 .. taken[c]
    <3>1. ASSUME k > taken[c]
          PROVE  FALSE
      <4>1. taken[c] + 1 \in 1 .. k /\ k \in 1 .. n + 1
        BY <2>1, <3>1
      <4>2. Start(c, taken[c] + 1) <= Start(c, k) /\ Start(c, k) \in Nat
        BY <4>1, StartIs
      <4>3. i \in Nat /\ i >= 1
        BY EncodedLength
      <4>. QED
        BY ONLY <2>5, <2>7, <2>9, <4>2, <4>3
    <3>. QED
      BY <2>1, <3>1
  <2>11. due[j] = Answer(c, k)[i]
    BY <2>2, <2>9
  <2>12. due[j].answer = k
    <3>1. i \in 1 .. HeadLen + Len(AnswerTo(asked[c][k]).body)
      BY LengthTold DEF Told
    <3>. QED
      BY <2>11, <3>1 DEF Answer, Encode
  <2>13. <<c, k>> \notin short => Stream(c)[j] = Answer(c, k)[i]
    BY <2>3, <2>9, <2>10 DEF InPlace
  <2>. QED
    BY <2>2, <2>7, <2>11, <2>12, <2>13 DEF due
<1>. QED
  BY <1>1, Inductive, PTL

\* A client that goes by the lengths finds each answer where it begins
\* (error_code.h:15-25, 92-116).
THEOREM AnswersFramed == Spec => []Framed
<1>1. ASSUME IndInv
      PROVE  Framed
  <2>. USE <1>1 DEF IndInv
  <2>. SUFFICES ASSUME NEW c \in Clients, NEW k \in DOMAIN asked[c], Start(c, k) < Len(Stream(c))
                PROVE  Stream(c)[Start(c, k) + 1].answer = k /\ Stream(c)[Start(c, k) + 1].at = 1
    BY DEF Framed
  <2>. DEFINE n == Len(asked[c])
  <2>1. n \in Nat /\ k \in 1 .. n /\ taken[c] \in Nat /\ taken[c] <= n
    <3>1. n \in Nat /\ asked[c] \in Seq(AllRequests)
      BY StartIs
    <3>2. k \in 1 .. n
      BY ONLY <3>1, k \in DOMAIN asked[c]
    <3>3. taken[c] \in Nat /\ taken[c] <= n
      BY DEF TypeOK, OneServes
    <3>. QED
      BY ONLY <3>1, <3>2, <3>3
  <2>2. Start(c, k) \in Nat /\ Start(c, taken[c] + 1) \in Nat /\ Len(Stream(c)) \in Nat
    <3>1. k \in 1 .. n + 1 /\ taken[c] + 1 \in 1 .. n + 1
      BY ONLY <2>1
    <3>. QED
      BY <3>1, StartIs, StreamIs
  <2>3. k \in 1 .. taken[c]
    <3>1. ASSUME k > taken[c]
          PROVE  FALSE
      <4>1. taken[c] + 1 \in 1 .. k /\ k \in 1 .. n + 1
        BY ONLY <2>1, <3>1
      <4>2. Start(c, taken[c] + 1) <= Start(c, k)
        BY <4>1, StartIs
      <4>3. Len(Stream(c)) <= Start(c, taken[c] + 1)
        BY DEF Reached
      <4>. QED
        BY <2>2, <4>2, <4>3
    <3>. QED
      BY ONLY <2>1, <3>1
  <2>4. 1 \in 1 .. Told(asked[c][k])
    BY EncodedLength
  <2>5. Start(c, k) + 1 <= Len(Stream(c))
    BY <2>2
  <2>. QED
    BY <2>3, <2>4, <2>5 DEF InPlace
<1>. QED
  BY <1>1, Inductive, PTL
=============================================================================
