---------------------------- MODULE StreamProofs ----------------------------
(***************************************************************************)
(* Proofs about the two parts the bytes of a connection go through:        *)
(* BufferList, for every set of bytes, every set of chunks and every       *)
(* length of them, and HeaderScanner, for every set of reads and so every  *)
(* way to cut a stream into reads.                                         *)
(***************************************************************************)
EXTENDS BufferList, HeaderScanner, SequenceTheorems, TLAPS

-----------------------------------------------------------------------------
(* Arithmetic of the item size.                                            *)

(* Where position k is, once it is known to be in buffer n.                *)
LEMMA Position ==
  ASSUME NEW k \in Nat, NEW n \in Nat, k >= 8 * n, k < 8 * n + 8
  PROVE  k \div 8 = n /\ k % 8 = k - 8 * n
BY SMT

(* The buffers a length needs: enough of them, and the last one is used.   *)
LEMMA ItemsForBounds ==
  ASSUME NEW len \in Nat
  PROVE  /\ ItemsFor(len) \in Nat
         /\ len <= 8 * ItemsFor(len)
         /\ ItemsFor(len) > 0 => len > 8 * (ItemsFor(len) - 1)
         /\ len = 0 => ItemsFor(len) = 0
BY SMT DEF ItemsFor, ItemSize

\* An iteration that copies n bytes, of len bytes of which p are copied and
\* with t iterations to go, stays in bounds and leaves t - 1 iterations' worth.
IterationOK(len, p, t, n) ==
  /\ n \in Nat /\ n <= 8 /\ p + n <= len
  /\ t - 1 > 0 => n = 8
  /\ t - 1 = 0 => len - (p + n) = 0
  /\ t - 1 # 0 => len - (p + n) > 8 * (t - 1 - 1)
  /\ t - 1 # 0 => len - (p + n) <= 8 * (t - 1)

(* The size of an iteration's copy is right.                               *)
LEMMA IterationBounds ==
  ASSUME NEW len \in Nat, NEW p \in Nat, NEW t \in Nat, t > 0,
         len - p > 8 * (t - 1), len - p <= 8 * t,
         NEW n, n = IF t > 1 THEN 8 ELSE len - p
  PROVE  IterationOK(len, p, t, n)
<1>1. CASE t = 1
  BY <1>1 DEF IterationOK
<1>2. CASE t > 1
  BY <1>2 DEF IterationOK
<1> QED
  BY <1>1, <1>2

-----------------------------------------------------------------------------
(* The memory of a sequence of buffers.                                    *)

(* A copy yields a buffer, if the data has the bytes.                      *)
LEMMA CopiedType ==
  ASSUME NEW b \in Buffers, NEW d \in Seq(Bytes), NEW at \in Nat,
         NEW from \in Nat, NEW n \in Nat, from + n <= Len(d)
  PROVE  Copied(b, at, d, from, n) \in Buffers
<1>1. ASSUME NEW j \in 0 .. 7
      PROVE  (IF j >= at /\ j < at + n THEN d[from + j - at + 1] ELSE b[j]) \in Bytes
  BY <1>1 DEF Buffers, ItemSize
<1> QED
  BY <1>1 DEF Copied, Buffers, ItemSize

(* Positions of a buffer other than the last.                              *)
LEMMA AtBefore ==
  ASSUME NEW B, NEW k \in Nat, NEW m \in Nat, k < 8 * m
  PROVE  /\ k \div 8 \in Nat /\ k \div 8 + 1 <= m /\ k % 8 \in 0 .. 7
         /\ At(B, k) = B[(k \div 8) + 1][k % 8]
BY SMT DEF At, ItemSize

(* Positions of buffer m + 1.                                              *)
LEMMA AtLast ==
  ASSUME NEW B, NEW k \in Nat, NEW m \in Nat, k >= 8 * m, k < 8 * m + 8
  PROVE  At(B, k) = B[m + 1][k - 8 * m]
<1>1. k \div 8 = m /\ k % 8 = k - 8 * m
  BY Position
<1> QED
  BY <1>1 DEF At, ItemSize

\* The first m buffers of B and C are the same.
Agree(B, C, m) == \A j \in 1 .. m : C[j] = B[j]

(* Sequences of buffers that agree on their first m buffers agree on the   *)
(* positions of these.                                                     *)
LEMMA AtAgrees ==
  ASSUME NEW B, NEW C, NEW m \in Nat, Agree(B, C, m),
         NEW k \in Nat, k < 8 * m
  PROVE  At(C, k) = At(B, k)
<1>1. /\ k \div 8 \in Nat /\ k \div 8 + 1 <= m
      /\ At(B, k) = B[(k \div 8) + 1][k % 8]
      /\ At(C, k) = C[(k \div 8) + 1][k % 8]
  BY AtBefore
<1>2. k \div 8 + 1 \in 1 .. m
  BY <1>1
<1> QED
  BY <1>1, <1>2 DEF Agree

\* C is B with n bytes of the data d, from position p on, stored behind the
\* first used bytes, which stay what and where they are.
Extended(B, C, used, d, p, n) ==
  /\ C \in Seq(Buffers)
  /\ \A k \in Nat : k < used => At(C, k) = At(B, k)
  /\ \A k \in Nat : k < n => At(C, used + k) = d[p + k + 1]

\* B with another last buffer.
WithTail(B, b) == [B EXCEPT ![Len(B)] = b]

(* The first copy of an append(), of n bytes into the tail.                *)
LEMMA FirstCopy ==
  ASSUME NEW B \in Seq(Buffers), B # <<>>, NEW d \in Seq(Bytes),
         NEW m \in Nat, Len(B) = m + 1,
         NEW off \in Nat, off < 8, NEW n \in Nat, n <= Len(d), n <= 8 - off,
         NEW C, C = WithTail(B, Copied(B[Len(B)], off, d, 0, n))
  PROVE  Extended(B, C, 8 * m + off, d, 0, n)
<1> DEFINE b == Copied(B[Len(B)], off, d, 0, n)
           base == 8 * m
<1>1. B[Len(B)] \in Buffers
  OBVIOUS
<1>2. b \in Buffers
  BY <1>1, CopiedType
<1>3. \A j \in Nat : j < 8 => b[j] = IF j >= off /\ j < off + n
                                THEN d[0 + j - off + 1] ELSE B[Len(B)][j]
  BY DEF Copied, ItemSize
<1>4. C = [B EXCEPT ![Len(B)] = b]
  BY DEF WithTail
<1>0. base \in Nat /\ base = 8 * m
  OBVIOUS
<1> HIDE DEF b, base
<1>5. C \in Seq(Buffers) /\ Len(C) = Len(B)
  BY <1>2, <1>4
<1>6. Agree(B, C, m) /\ C[m + 1] = b
  BY <1>4 DEF Agree
<1>7. \A k \in Nat : /\ k < base => At(C, k) = At(B, k)
                     /\ k >= base /\ k < base + 8 => At(C, k) = b[k - base]
  <2>1. ASSUME NEW k \in Nat, k < base PROVE At(C, k) = At(B, k)
    <3>1. k < 8 * m
      BY <1>0, <2>1
    <3> QED
      BY <1>6, <3>1, AtAgrees
  <2>2. ASSUME NEW k \in Nat, k >= base, k < base + 8 PROVE At(C, k) = b[k - base]
    <3>1. k >= 8 * m /\ k < 8 * m + 8
      BY <1>0, <2>2
    <3>2. At(C, k) = C[m + 1][k - 8 * m]
      BY <3>1, AtLast
    <3> QED
      BY <1>0, <1>6, <3>2
  <2> QED
    BY <2>1, <2>2
<1>8. \A k \in Nat : k >= base /\ k < base + 8 => At(B, k) = B[Len(B)][k - base]
  BY <1>0, AtLast
<1>9. ASSUME NEW k \in Nat, k < base + off PROVE At(C, k) = At(B, k)
  <2>1. CASE k < base
    BY <1>7, <2>1
  <2>2. CASE k >= base
    <3>1. k < base + 8 /\ k - base \in Nat /\ k - base < 8 /\ k - base < off
      BY <1>0, <1>9, <2>2
    <3>2. b[k - base] = B[Len(B)][k - base]
      BY <1>3, <3>1
    <3> QED
      BY <1>7, <1>8, <2>2, <3>1, <3>2
  <2> QED
    BY <1>0, <2>1, <2>2
<1>10. ASSUME NEW k \in Nat, k < n PROVE At(C, base + off + k) = d[0 + k + 1]
  <2>1. /\ base + off + k \in Nat
        /\ base + off + k >= base /\ base + off + k < base + 8
        /\ (base + off + k) - base = off + k /\ off + k \in Nat /\ off + k < 8
        /\ off + k >= off /\ off + k < off + n
        /\ 0 + (off + k) - off + 1 = 0 + k + 1
    BY <1>0, <1>10
  <2>2. At(C, base + off + k) = b[off + k]
    BY <1>7, <2>1
  <2>3. b[off + k] = d[0 + k + 1]
    BY <1>3, <2>1
  <2> QED
    BY <2>2, <2>3
<1> QED
  BY <1>0, <1>5, <1>9, <1>10 DEF Extended

(* An iteration of its loop, which copies n bytes from position p of the   *)
(* data into a new buffer.                                                 *)
LEMMA NextCopy ==
  ASSUME NEW B \in Seq(Buffers), NEW d \in Seq(Bytes),
         NEW m \in Nat, Len(B) = m,
         NEW p \in Nat, NEW n \in Nat, n <= 8, p + n <= Len(d),
         NEW C, C = Append(B, Copied(Fresh, 0, d, p, n))
  PROVE  Extended(B, C, 8 * m, d, p, n)
<1> DEFINE b == Copied(Fresh, 0, d, p, n)
           base == 8 * m
<1>1. b \in Buffers
  <2>1. Fresh \in Buffers
    BY ZeroAssumption DEF Fresh, Buffers
  <2> QED
    BY <2>1, CopiedType
<1>2. \A j \in Nat : j < n => b[j] = d[p + j - 0 + 1]
  BY DEF Copied, ItemSize
<1>3. C = Append(B, b)
  OBVIOUS
<1>0. base \in Nat /\ base = 8 * m
  OBVIOUS
<1> HIDE DEF b, base
<1>4. C \in Seq(Buffers) /\ Len(C) = Len(B) + 1
  BY <1>1, <1>3
<1>5. Agree(B, C, m) /\ C[m + 1] = b
  BY <1>1, <1>3 DEF Agree
<1>6. \A k \in Nat : /\ k < base => At(C, k) = At(B, k)
                     /\ k >= base /\ k < base + 8 => At(C, k) = b[k - base]
  <2>1. ASSUME NEW k \in Nat, k < base PROVE At(C, k) = At(B, k)
    <3>1. k < 8 * m
      BY <1>0, <2>1
    <3> QED
      BY <1>5, <3>1, AtAgrees
  <2>2. ASSUME NEW k \in Nat, k >= base, k < base + 8 PROVE At(C, k) = b[k - base]
    <3>1. k >= 8 * m /\ k < 8 * m + 8
      BY <1>0, <2>2
    <3>2. At(C, k) = C[m + 1][k - 8 * m]
      BY <3>1, AtLast
    <3> QED
      BY <1>0, <1>5, <3>2
  <2> QED
    BY <2>1, <2>2
<1>7. ASSUME NEW k \in Nat, k < n PROVE At(C, base + k) = d[p + k + 1]
  <2>1. /\ base + k \in Nat /\ base + k >= base /\ base + k < base + 8
        /\ (base + k) - base = k
        /\ p + k - 0 + 1 = p + k + 1
    BY <1>0, <1>7
  <2> QED
    BY <1>2, <1>6, <1>7, <2>1
<1> QED
  BY <1>0, <1>4, <1>6, <1>7 DEF Extended

(* Every position of the memory holds a byte.                              *)
LEMMA AtType ==
  ASSUME NEW B \in Seq(Buffers), NEW k \in Nat, k < 8 * Len(B)
  PROVE  At(B, k) \in Bytes
<1>1. /\ k \div 8 \in Nat /\ k \div 8 + 1 <= Len(B) /\ k % 8 \in 0 .. 7
      /\ At(B, k) = B[(k \div 8) + 1][k % 8]
  BY AtBefore
<1> QED
  BY <1>1 DEF Buffers, ItemSize

(* What get_all_data() stores is a byte sequence.                          *)
LEMMA StoredType == TypeOK => Stored \in Seq(Bytes)
<1> SUFFICES ASSUME TypeOK PROVE Stored \in Seq(Bytes)
  OBVIOUS
<1>1. Used \in Nat /\ Used <= 8 * Len(bufs)
  BY DEF TypeOK, Used, ItemSize
<1>2. ASSUME NEW k \in 1 .. Used PROVE At(bufs, k - 1) \in Bytes
  <2>1. k - 1 \in Nat /\ k - 1 < 8 * Len(bufs)
    BY <1>1
  <2> QED
    BY <2>1, AtType DEF TypeOK
<1> QED
  BY <1>1, <1>2 DEF Stored

-----------------------------------------------------------------------------
(* The inductive invariant.                                                *)

\* The bytes held stay what and where they are.
HeldUnchanged ==
  /\ count' = count
  /\ \A k \in Nat : k < count => At(bufs', k) = At(bufs, k)

(* Initially the invariant holds.                                          *)
LEMMA InitIInv == Init => IInv
<1> SUFFICES ASSUME Init PROVE IInv
  OBVIOUS
<1>1. Fresh \in Buffers
  BY ZeroAssumption DEF Fresh, Buffers
<1>2. TypeOK
  BY <1>1 DEF Init, TypeOK, ItemSize
<1>3. Layout
  BY DEF Init, Layout, Used, ItemSize
<1>4. ExpandAsserted /\ InBounds /\ InPlace
  BY DEF Init, ExpandAsserted, InBounds, InPlace
<1> QED
  BY <1>2, <1>3, <1>4 DEF IInv

(* Both ways to start an append() copy n bytes into the tail.              *)
LEMMA AppendStarts ==
  ASSUME IInv, pc = "idle", NEW d \in Seq(Bytes),
         NEW n \in Nat, n <= Len(d), n <= 8 - offset,
         bufs' = [bufs EXCEPT ![Len(bufs)] = Copied(tail, offset, d, 0, n)],
         offset' = offset + n, count' = count, arg' = d, pos' = n,
         pc' = "append"
  PROVE  /\ bufs' \in Seq(Buffers) /\ bufs' # <<>> /\ offset' \in 0 .. 8
         /\ InPlace'
         /\ HeldUnchanged
<1> DEFINE m == Len(bufs) - 1
           base == 8 * m
<1>1. /\ bufs \in Seq(Buffers) /\ bufs # <<>> /\ m \in Nat /\ Len(bufs) = m + 1
      /\ base \in Nat
      /\ count \in Nat /\ offset \in Nat /\ offset < 8 /\ count = base + offset
  BY DEF IInv, TypeOK, Layout, Used, ItemSize
<1>2. bufs' = WithTail(bufs, Copied(bufs[Len(bufs)], offset, d, 0, n))
  BY DEF tail, WithTail
<1>3. base = 8 * m
  OBVIOUS
<1> HIDE DEF m, base
<1>4. Extended(bufs, bufs', base + offset, d, 0, n)
  <2>1. Extended(bufs, bufs', 8 * m + offset, d, 0, n)
    BY <1>1, <1>2, FirstCopy
  <2> QED
    BY <1>3, <2>1
<1>5. Len(bufs') = Len(bufs)
  BY <1>1, <1>2 DEF WithTail
<1>6. Used' = count + n
  BY <1>1, <1>3, <1>5 DEF Used, ItemSize
<1>7. ASSUME NEW k \in 0 .. n - 1 PROVE At(bufs', count + k) = d[k + 1]
  <2>1. k \in Nat /\ k < n /\ 0 + k + 1 = k + 1
    OBVIOUS
  <2> QED
    BY <1>1, <1>4, <2>1 DEF Extended
<1>8. InPlace'
  BY <1>6, <1>7 DEF InPlace
<1>9. HeldUnchanged
  BY <1>1, <1>4 DEF HeldUnchanged, Extended
<1>10. bufs' \in Seq(Buffers) /\ bufs' # <<>> /\ offset' \in 0 .. 8
  BY <1>1, <1>4, <1>5 DEF Extended
<1> QED
  BY <1>8, <1>9, <1>10

(* An append() that fits into the tail.                                    *)
LEMMA ShortStep ==
  ASSUME IInv, NEW d \in Chunks, AppendShort(d)
  PROVE  IInv' /\ HeldUnchanged
<1> d \in Seq(Bytes)
  BY ChunksAssumption
<1> DEFINE n == Len(d)
<1>1. /\ pc = "idle" /\ n \in Nat /\ n <= Len(d) /\ n <= 8 - offset /\ offset + n < 8
      /\ bufs' = [bufs EXCEPT ![Len(bufs)] = Copied(tail, offset, d, 0, n)]
      /\ offset' = offset + n /\ count' = count /\ arg' = d /\ pos' = n
      /\ todo' = 0 /\ pc' = "append" /\ out' = out
  BY DEF AppendShort, Left, ItemSize, IInv, TypeOK
<1>2. /\ bufs' \in Seq(Buffers) /\ bufs' # <<>> /\ offset' \in 0 .. 8
      /\ InPlace'
      /\ HeldUnchanged
  BY <1>1, AppendStarts
<1>3. TypeOK'
  BY <1>1, <1>2 DEF IInv, TypeOK, ItemSize
<1>4. Layout' /\ ExpandAsserted' /\ InBounds'
  BY <1>1 DEF Layout, ExpandAsserted, InBounds
<1> QED
  BY <1>2, <1>3, <1>4 DEF IInv

(* One that fills the tail.                                                *)
LEMMA FillStep ==
  ASSUME IInv, NEW d \in Chunks, AppendFill(d)
  PROVE  IInv' /\ HeldUnchanged
<1> d \in Seq(Bytes)
  BY ChunksAssumption
<1> DEFINE n == 8 - offset
           rest == Len(d) - n
<1>1. offset \in Nat /\ offset < 8 /\ pc = "idle"
  BY DEF AppendFill, Left, IInv, TypeOK, Layout, ItemSize
<1>2. /\ n \in Nat /\ n <= Len(d) /\ rest \in Nat
      /\ bufs' = [bufs EXCEPT ![Len(bufs)] = Copied(tail, offset, d, 0, n)]
      /\ offset' = offset + n /\ count' = count /\ arg' = d /\ pos' = n
      /\ todo' = ItemsFor(rest) /\ pc' = "append" /\ out' = out
  BY <1>1 DEF AppendFill, Left, ItemSize
<1>3. offset' = 8
  BY <1>1, <1>2
<1>4. /\ todo' \in Nat
      /\ rest <= 8 * todo'
      /\ todo' > 0 => rest > 8 * (todo' - 1)
      /\ rest = 0 => todo' = 0
  BY <1>2, ItemsForBounds
<1>5. Len(arg') - pos' = rest
  BY <1>2
<1> HIDE DEF rest
<1>6. InBounds'
  BY <1>2, <1>4, <1>5 DEF InBounds, ItemSize
<1> HIDE DEF n
<1>7. /\ bufs' \in Seq(Buffers) /\ bufs' # <<>> /\ offset' \in 0 .. 8
      /\ InPlace'
      /\ HeldUnchanged
  <2>1. n <= 8 - offset
    BY <1>1 DEF n
  <2> QED
    BY <1>1, <1>2, <2>1, AppendStarts
<1>8. TypeOK'
  BY <1>2, <1>4, <1>7 DEF IInv, TypeOK, ItemSize
<1>9. Layout' /\ ExpandAsserted'
  BY <1>2, <1>3 DEF Layout, ExpandAsserted, ItemSize
<1> QED
  BY <1>6, <1>7, <1>8, <1>9 DEF IInv

(* An iteration of the loop.                                               *)
LEMMA LoopStep ==
  ASSUME IInv, AppendLoop PROVE IInv' /\ HeldUnchanged
<1> DEFINE m == Len(bufs)
           rest == Len(arg) - pos
           n == IF todo > 1 THEN 8 ELSE rest
<1>1. /\ bufs \in Seq(Buffers) /\ m \in Nat /\ m > 0
      /\ arg \in Seq(Bytes) /\ Len(arg) \in Nat /\ pos \in Nat /\ todo \in Nat
      /\ count \in Nat /\ todo > 0 /\ pc = "append" /\ offset = 8
      /\ rest > 8 * (todo - 1) /\ rest <= 8 * todo
  BY DEF IInv, TypeOK, InBounds, ExpandAsserted, AppendLoop, ItemSize
<1>2. /\ n \in Nat /\ n <= 8 /\ pos + n <= Len(arg)
      /\ IterationOK(Len(arg), pos, todo, n)
  <2>1. n = IF todo > 1 THEN 8 ELSE Len(arg) - pos
    OBVIOUS
  <2>2. Len(arg) - pos > 8 * (todo - 1) /\ Len(arg) - pos <= 8 * todo
    BY <1>1
  <2> HIDE DEF n, m, rest
  <2>3. IterationOK(Len(arg), pos, todo, n)
    BY <1>1, <2>1, <2>2, IterationBounds
  <2> QED
    BY <2>3 DEF IterationOK
<1>3. /\ bufs' = Append(bufs, Copied(Fresh, 0, arg, pos, n))
      /\ offset' = n /\ pos' = pos + n /\ todo' = todo - 1
      /\ count' = count /\ arg' = arg /\ pc' = "append" /\ out' = out
  BY <1>1 DEF AppendLoop, ItemSize
<1>4. 8 * m = count + pos
  BY <1>1 DEF IInv, InPlace, Used, ItemSize
<1>5. \A k \in 0 .. pos - 1 : At(bufs, count + k) = arg[k + 1]
  BY <1>1 DEF IInv, InPlace
<1> HIDE DEF n
<1>6. ExpandAsserted' /\ InBounds'
  BY <1>1, <1>2, <1>3 DEF ExpandAsserted, InBounds, IterationOK, ItemSize
<1>7. Extended(bufs, bufs', 8 * m, arg, pos, n)
  <2>1. m \in Nat /\ Len(bufs) = m
    BY <1>1
  <2> HIDE DEF m
  <2> QED
    BY <1>1, <1>2, <1>3, <2>1, NextCopy
<1>8. bufs' \in Seq(Buffers) /\ Len(bufs') = m + 1
  BY <1>1, <1>3, <1>7 DEF Extended
<1> HIDE DEF m, rest
<1>9. Used' = count + pos'
  <2>1. offset' = n /\ Len(bufs') - 1 = m
    BY <1>1, <1>3, <1>8
  <2>2. Used' = 8 * m + n
    BY <2>1 DEF Used, ItemSize
  <2> QED
    BY <1>1, <1>2, <1>3, <1>4, <2>2
<1>10. HeldUnchanged
  <2>1. ASSUME NEW k \in Nat, k < count PROVE At(bufs', k) = At(bufs, k)
    <3>1. k < 8 * m
      BY <1>1, <1>4, <2>1
    <3> QED
      BY <1>7, <3>1 DEF Extended
  <2> QED
    BY <1>3, <2>1 DEF HeldUnchanged
<1>11. ASSUME NEW k \in 0 .. pos' - 1 PROVE At(bufs', count + k) = arg[k + 1]
  <2>1. k \in Nat /\ k < pos + n /\ count + k \in Nat
    BY <1>1, <1>2, <1>3
  <2>2. CASE k < pos
    <3>1. count + k < 8 * m /\ k \in 0 .. pos - 1
      BY <1>1, <1>4, <2>1, <2>2
    <3> QED
      BY <1>5, <1>7, <2>1, <3>1 DEF Extended
  <2>3. CASE k >= pos
    <3>1. k - pos \in Nat /\ k - pos < n
      BY <1>1, <1>2, <2>1, <2>3
    <3>2. At(bufs', 8 * m + (k - pos)) = arg[pos + (k - pos) + 1]
      BY <1>7, <3>1 DEF Extended
    <3>3. 8 * m + (k - pos) = count + k /\ pos + (k - pos) + 1 = k + 1
      BY <1>1, <1>4, <2>1
    <3> QED
      BY <3>2, <3>3
  <2> QED
    BY <1>1, <2>1, <2>2, <2>3
<1>12. InPlace'
  BY <1>3, <1>9, <1>11 DEF InPlace
<1>13. TypeOK'
  <2>1. /\ bufs' # <<>> /\ offset' \in 0 .. 8 /\ pos' \in Nat /\ todo' \in Nat
        /\ pc' = "append" /\ UNCHANGED <<count, arg, out>>
    BY <1>1, <1>2, <1>3, <1>8
  <2>2. arg \in Chunks
    BY <1>1 DEF IInv, TypeOK
  <2> QED
    BY <1>8, <2>1, <2>2 DEF IInv, TypeOK, ItemSize
<1>14. Layout'
  BY <1>3 DEF Layout
<1> QED
  BY <1>6, <1>10, <1>12, <1>13, <1>14 DEF IInv

(* The end of an append().  The argument is in place behind what was held. *)
LEMMA EndStep ==
  ASSUME IInv, AppendEnd
  PROVE  /\ IInv'
         /\ count' = count + Len(arg)
         /\ \A k \in Nat : k < count => At(bufs', k) = At(bufs, k)
         /\ \A k \in Nat : k < Len(arg) => At(bufs', count + k) = arg[k + 1]
<1> DEFINE m == Len(bufs)
<1>1. /\ bufs \in Seq(Buffers) /\ m \in Nat /\ m > 0
      /\ arg \in Seq(Bytes) /\ Len(arg) \in Nat /\ pos = Len(arg) /\ todo = 0
      /\ count \in Nat /\ offset \in Nat /\ offset <= 8 /\ pc = "append"
      /\ 8 * (m - 1) + offset = count + pos
  BY DEF IInv, TypeOK, InBounds, InPlace, Used, AppendEnd, TailFull, ItemSize
<1>2. /\ count' = count + Len(arg) /\ arg' = <<>> /\ pos' = 0 /\ todo' = todo
      /\ pc' = "idle" /\ out' = out
  BY DEF AppendEnd, TailFull
<1>3. \A k \in 0 .. pos - 1 : At(bufs, count + k) = arg[k + 1]
  BY <1>1 DEF IInv, InPlace
<1>4. Fresh \in Buffers
  BY ZeroAssumption DEF Fresh, Buffers
<1>5. /\ bufs' \in Seq(Buffers) /\ bufs' # <<>>
      /\ offset' \in Nat /\ offset' < 8
      /\ Used' = count + Len(arg)
      /\ Agree(bufs, bufs', m)
  <2>1. CASE offset = 8
    <3>1. bufs' = Append(bufs, Fresh) /\ offset' = 0
      BY <2>1 DEF AppendEnd, TailFull, ItemSize
    <3>2. bufs' \in Seq(Buffers) /\ Len(bufs') = m + 1 /\ Agree(bufs, bufs', m)
      BY <1>1, <1>4, <3>1 DEF Agree
    <3>3. Used' = 8 * m
      <4> HIDE DEF m
      <4> QED
        BY <1>1, <3>1, <3>2 DEF Used, ItemSize
    <3> QED
      BY <1>1, <2>1, <3>1, <3>2, <3>3
  <2>2. CASE offset # 8
    BY <1>1, <2>2 DEF AppendEnd, TailFull, ItemSize, Agree, Used
  <2> QED
    BY <2>1, <2>2
<1> HIDE DEF m
<1>6. ASSUME NEW k \in Nat, k < count + pos PROVE At(bufs', k) = At(bufs, k)
  <2>1. k < 8 * m
    BY <1>1, <1>6
  <2> QED
    BY <1>1, <1>5, <2>1, AtAgrees
<1>7. ASSUME NEW k \in Nat, k < count PROVE At(bufs', k) = At(bufs, k)
  BY <1>1, <1>6, <1>7
<1>8. ASSUME NEW k \in Nat, k < Len(arg) PROVE At(bufs', count + k) = arg[k + 1]
  <2>1. count + k \in Nat /\ count + k < count + pos /\ k \in 0 .. pos - 1
    BY <1>1, <1>8
  <2> QED
    BY <1>3, <1>6, <2>1
<1>9. TypeOK'
  BY <1>1, <1>2, <1>5 DEF IInv, TypeOK, ItemSize
<1>10. Layout' /\ ExpandAsserted' /\ InBounds' /\ InPlace'
  BY <1>2, <1>5 DEF Layout, ExpandAsserted, InBounds, InPlace, ItemSize
<1> QED
  BY <1>2, <1>7, <1>8, <1>9, <1>10 DEF IInv

(* get_all_data() changes the caller's array only.                         *)
LEMMA GetStep ==
  ASSUME IInv, GetAllData PROVE IInv' /\ UNCHANGED <<bufs, count>>
<1>1. UNCHANGED <<bufs, offset, count, arg, pos, todo, pc>>
  BY DEF GetAllData
<1>2. out' \in Seq(Bytes)
  BY StoredType DEF GetAllData, IInv
<1>3. TypeOK'
  BY <1>1, <1>2 DEF IInv, TypeOK
<1>4. Layout' /\ ExpandAsserted' /\ InBounds' /\ InPlace'
  BY <1>1 DEF IInv, Layout, Used, ExpandAsserted, InBounds, InPlace
<1> QED
  BY <1>1, <1>3, <1>4 DEF IInv

(* clear() leaves a list of one buffer that holds nothing.                 *)
LEMMA ClearStep == ASSUME IInv, Clear PROVE IInv'
<1>1. /\ bufs \in Seq(Buffers) /\ bufs # <<>> /\ tail \in Buffers
      /\ bufs' = <<tail>> /\ offset' = 0 /\ count' = 0 /\ pc' = "idle"
      /\ UNCHANGED <<arg, pos, todo, out>>
  BY DEF Clear, IInv, TypeOK, tail
<1>2. bufs' \in Seq(Buffers) /\ bufs' # <<>> /\ Len(bufs') = 1
  BY <1>1
<1>3. TypeOK'
  BY <1>1, <1>2 DEF IInv, TypeOK, ItemSize
<1>4. Layout' /\ ExpandAsserted' /\ InBounds' /\ InPlace'
  BY <1>1, <1>2 DEF Layout, Used, ExpandAsserted, InBounds, InPlace, ItemSize
<1> QED
  BY <1>3, <1>4 DEF IInv

(* Every step preserves the invariant.                                     *)
LEMMA NextIInv == IInv /\ [Next]_vars => IInv'
<1> SUFFICES ASSUME IInv, [Next]_vars PROVE IInv'
  OBVIOUS
<1>1. ASSUME NEW d \in Chunks, AppendShort(d) \/ AppendFill(d) PROVE IInv'
  BY <1>1, ShortStep, FillStep
<1>2. CASE AppendLoop
  BY <1>2, LoopStep
<1>3. CASE AppendEnd
  BY <1>3, EndStep
<1>4. CASE GetAllData
  BY <1>4, GetStep
<1>5. CASE Clear
  BY <1>5, ClearStep
<1>6. CASE UNCHANGED vars
  BY <1>6 DEF vars, IInv, TypeOK, Layout, Used, ExpandAsserted, InBounds, InPlace
<1> QED
  BY <1>1, <1>2, <1>3, <1>4, <1>5, <1>6 DEF Next

-----------------------------------------------------------------------------
(* The theorems.                                                           *)

(* The inductive invariant holds in every reachable state: among its parts *)
(* are type correctness and that append() never copies past its argument   *)
(* or past a buffer, and that no call of expand() fails its assertion.     *)
THEOREM BufferInvariant == Spec => []IInv
BY InitIInv, NextIInv, PTL DEF Spec

(* Between calls the buffers hold count bytes and the tail has room, so    *)
(* get_all_data() stores exactly the count bytes its caller made room for. *)
THEOREM BufferLayout == Spec => []Layout
BY BufferInvariant, PTL DEF IInv

(* The assertion of expand() (buffer_list.cc:72) never fails.              *)
THEOREM AssertHolds == Spec => []ExpandAsserted
BY BufferInvariant, PTL DEF IInv

(* append() copies within its argument and within the buffers.             *)
THEOREM CopiesInBounds == Spec => []InBounds
BY BufferInvariant, PTL DEF IInv

-----------------------------------------------------------------------------
(* Refinement.                                                             *)

\* The byte stream that a buffer list stands for.
Content == [k \in 1 .. count |-> At(bufs, k - 1)]

(* The content is a sequence of count bytes.                               *)
LEMMA ContentType == IInv => Content \in Seq(Bytes) /\ Len(Content) = count
<1> SUFFICES ASSUME IInv PROVE Content \in Seq(Bytes) /\ Len(Content) = count
  OBVIOUS
<1>1. count \in Nat /\ count <= 8 * Len(bufs)
  BY DEF IInv, TypeOK, Layout, InPlace, Used, ItemSize
<1>2. ASSUME NEW k \in 1 .. count PROVE At(bufs, k - 1) \in Bytes
  <2>1. k - 1 \in Nat /\ k - 1 < 8 * Len(bufs)
    BY <1>1
  <2> QED
    BY <2>1, AtType DEF IInv, TypeOK
<1> QED
  BY <1>1, <1>2 DEF Content

(* Bytes that stay in place keep the content.                              *)
LEMMA HeldContent == IInv /\ HeldUnchanged => Content' = Content
<1> SUFFICES ASSUME IInv, HeldUnchanged PROVE Content' = Content
  OBVIOUS
<1>1. count' = count /\ count \in Nat
  BY DEF HeldUnchanged, IInv, TypeOK
<1>2. ASSUME NEW k \in 1 .. count PROVE At(bufs', k - 1) = At(bufs, k - 1)
  <2>1. k - 1 \in Nat /\ k - 1 < count
    BY <1>1
  <2> QED
    BY <2>1 DEF HeldUnchanged
<1> QED
  BY <1>1, <1>2 DEF Content

(* The end of an append() is where the argument joins the content.         *)
LEMMA EndContent == IInv /\ AppendEnd => Content' = Content \o arg
<1> SUFFICES ASSUME IInv, AppendEnd PROVE Content' = Content \o arg
  OBVIOUS
<1>1. /\ count \in Nat /\ arg \in Seq(Bytes) /\ Len(arg) \in Nat
      /\ count' = count + Len(arg)
      /\ Content \in Seq(Bytes) /\ Len(Content) = count
  BY EndStep, ContentType DEF IInv, TypeOK
<1>2. ASSUME NEW k \in 1 .. count PROVE At(bufs', k - 1) = Content[k]
  <2>1. k - 1 \in Nat /\ k - 1 < count
    BY <1>1
  <2> QED
    BY <2>1, EndStep DEF Content
<1>3. ASSUME NEW k \in count + 1 .. count + Len(arg)
      PROVE  At(bufs', k - 1) = arg[k - count]
  <2>1. /\ k - 1 - count \in Nat /\ k - 1 - count < Len(arg)
        /\ count + (k - 1 - count) = k - 1 /\ (k - 1 - count) + 1 = k - count
    BY <1>1
  <2>2. At(bufs', count + (k - 1 - count)) = arg[(k - 1 - count) + 1]
    BY <2>1, EndStep
  <2> QED
    BY <2>1, <2>2
<1>4. Content' = [k \in 1 .. count + Len(arg) |-> At(bufs', k - 1)]
  BY <1>1 DEF Content
<1>5. IInv'
  BY EndStep
<1>6. Content' \in Seq(Bytes) /\ Len(Content') = count + Len(arg)
  <2>1. (Content \in Seq(Bytes) /\ Len(Content) = count)'
    BY <1>5, ContentType, PTL
  <2> QED
    BY <1>1, <2>1
<1>7. ASSUME NEW k \in 1 .. count + Len(arg)
      PROVE  Content'[k] = IF k <= count THEN Content[k] ELSE arg[k - count]
  BY <1>1, <1>2, <1>3, <1>4, <1>7
<1>8. /\ Content \o arg \in Seq(Bytes)
      /\ Len(Content \o arg) = count + Len(arg)
      /\ \A k \in 1 .. count + Len(arg) :
           (Content \o arg)[k] = IF k <= count THEN Content[k] ELSE arg[k - count]
  BY <1>1, ConcatProperties
<1> QED
  BY <1>1, <1>6, <1>7, <1>8, SeqEqual

(* Every step is a step of the byte stream or leaves it alone.             *)
LEMMA NextByteStream == IInv /\ [Next]_vars => [BS!Next]_(BS!vars)
<1> SUFFICES ASSUME IInv, [Next]_vars PROVE [BS!Next]_(BS!vars)
  OBVIOUS
<1>1. ASSUME Content' = Content, out' = out PROVE UNCHANGED BS!vars
  BY <1>1 DEF Content, BS!vars
<1>2. ASSUME NEW d \in Chunks, AppendShort(d) \/ AppendFill(d)
      PROVE  UNCHANGED BS!vars
  <2>1. HeldUnchanged
    BY <1>2, ShortStep, FillStep
  <2>2. out' = out
    BY <1>2 DEF AppendShort, AppendFill, Left
  <2> QED
    BY <1>1, <2>1, <2>2, HeldContent
<1>3. CASE AppendLoop
  <2>1. HeldUnchanged /\ out' = out
    BY <1>3, LoopStep DEF AppendLoop
  <2> QED
    BY <1>1, <2>1, HeldContent
<1>4. CASE AppendEnd
  <2>1. Content' = Content \o arg
    BY <1>4, EndContent
  <2>2. arg \in Chunks /\ out' = out
    BY <1>4 DEF AppendEnd, TailFull, IInv, TypeOK
  <2> QED
    BY <2>1, <2>2 DEF Content, BS!Next, BS!Append_
<1>5. CASE GetAllData
  <2>1. Used = count /\ count \in Nat /\ UNCHANGED <<bufs, count>>
    BY <1>5, GetStep DEF GetAllData, IInv, Layout, TypeOK
  <2>2. out' = Content
    BY <1>5, <2>1 DEF GetAllData, Stored, Content
  <2>3. Content' = Content
    BY <2>1 DEF Content
  <2> QED
    BY <2>2, <2>3 DEF Content, BS!Next, BS!Read
<1>6. CASE Clear
  <2>1. count' = 0 /\ out' = out
    BY <1>6 DEF Clear
  <2>2. Content' = <<>>
    BY <2>1 DEF Content
  <2> QED
    BY <2>1, <2>2 DEF Content, BS!Next, BS!Clear
<1>7. CASE UNCHANGED vars
  <2>1. Content' = Content /\ out' = out
    BY <1>7 DEF vars, Content
  <2> QED
    BY <1>1, <2>1
<1> QED
  BY <1>2, <1>3, <1>4, <1>5, <1>6, <1>7 DEF Next

(* A buffer list is a byte stream: what is read is what was appended since *)
(* the last clear(), whatever the sizes of the pieces.                     *)
THEOREM BufferListIsByteStream == Spec => ByteStreamSpec
<1>1. Init => BS!Init
  BY DEF Init, BS!Init
<1> QED
  BY <1>1, NextByteStream, BufferInvariant, PTL DEF Spec, ByteStreamSpec, BS!Spec

-----------------------------------------------------------------------------
(* The scanner of header ends.                                             *)

(* A byte makes a longer prefix of the terminator of a shorter one.        *)
LEMMA EndsAppend ==
  ASSUME NEW s \in Seq(Chars), NEW c \in Chars, NEW k \in 0 .. 3
  PROVE  Ends(Append(s, c), k + 1) <=> Ends(s, k) /\ c = Terminator[k + 1]
<1> DEFINE t == Append(s, c)
<1>1. /\ Len(t) = Len(s) + 1
      /\ t[Len(s) + 1] = c
      /\ \A j \in 1 .. Len(s) : t[j] = s[j]
  OBVIOUS
<1>2. ASSUME Ends(t, k + 1)
      PROVE  Ends(s, k) /\ c = Terminator[k + 1]
  <2>1. k <= Len(s)
    BY <1>1, <1>2 DEF Ends
  <2>2. c = Terminator[k + 1]
    BY <1>1, <1>2 DEF Ends
  <2>3. ASSUME NEW j \in 1 .. k
        PROVE  s[Len(s) - k + j] = Terminator[j]
    <3>1. t[Len(t) - (k + 1) + j] = Terminator[j]
      BY <1>2 DEF Ends
    <3>2. Len(t) - (k + 1) + j = Len(s) - k + j /\ Len(s) - k + j \in 1 .. Len(s)
      BY <1>1, <2>1
    <3> HIDE DEF t
    <3> QED
      BY <1>1, <3>1, <3>2
  <2> QED
    BY <2>1, <2>2, <2>3 DEF Ends
<1>3. ASSUME Ends(s, k), c = Terminator[k + 1]
      PROVE  Ends(t, k + 1)
  <2>1. ASSUME NEW j \in 1 .. k + 1
        PROVE  t[Len(t) - (k + 1) + j] = Terminator[j]
    <3>1. CASE j = k + 1
      BY <1>1, <1>3, <3>1
    <3>2. CASE j # k + 1
      <4>1. s[Len(s) - k + j] = Terminator[j]
        BY <1>3, <3>2 DEF Ends
      <4>2. Len(t) - (k + 1) + j = Len(s) - k + j /\ Len(s) - k + j \in 1 .. Len(s)
        BY <1>1, <1>3, <3>2 DEF Ends
      <4> HIDE DEF t
      <4> QED
        BY <1>1, <4>1, <4>2
    <3> QED
      BY <3>1, <3>2
  <2> QED
    BY <1>1, <1>3, <2>1 DEF Ends
<1> QED
  BY <1>2, <1>3

(* The empty prefix is at every end.                                       *)
LEMMA EndsZero ==
  ASSUME NEW s \in Seq(Chars)
  PROVE  Ends(s, 0)
BY DEF Ends

(* A byte that is looked at leaves what was clear of a CR clear of it.     *)
LEMMA ClearAppend ==
  ASSUME NEW s \in Seq(Chars), NEW c \in Chars, NEW n \in 0 .. Len(s), NEW k \in 0 .. 3
  PROVE  ClearOfCR(Append(s, c), n, k + 1) <=> ClearOfCR(s, n, k)
<1> DEFINE t == Append(s, c)
<1>1. Len(t) = Len(s) + 1 /\ \A j \in 1 .. Len(s) : t[j] = s[j]
  OBVIOUS
<1>2. Len(t) - n > k + 1 => t[Len(t) - (k + 1)] = s[Len(s) - k]
  BY <1>1
<1> HIDE DEF t
<1>3. ClearOfCR(t, n, k + 1) <=> ClearOfCR(s, n, k)
  BY <1>1, <1>2 DEF ClearOfCR
<1> QED
  BY <1>3 DEF t

(* What a call has scanned, after one more byte.                           *)
LEMMA ScannedAppend ==
  ASSUME NEW s \in Seq(Chars), NEW d \in Seq(Chars), NEW n \in 0 .. Len(d) - 1,
         LastAre(s, d, n)
  PROVE  LastAre(Append(s, d[n + 1]), d, n + 1)
<1> DEFINE t == Append(s, d[n + 1])
<1>1. /\ Len(t) = Len(s) + 1
      /\ t[Len(s) + 1] = d[n + 1]
      /\ \A j \in 1 .. Len(s) : t[j] = s[j]
  OBVIOUS
<1>2. ASSUME NEW j \in 1 .. n + 1
      PROVE  t[Len(t) - (n + 1) + j] = d[j]
  <2>1. CASE j = n + 1
    BY <1>1, <2>1
  <2>2. CASE j # n + 1
    <3>1. s[Len(s) - n + j] = d[j]
      BY <2>2 DEF LastAre
    <3>2. Len(t) - (n + 1) + j = Len(s) - n + j /\ Len(s) - n + j \in 1 .. Len(s)
      BY <1>1, <2>2 DEF LastAre
    <3> HIDE DEF t
    <3> QED
      BY <1>1, <3>1, <3>2
  <2> QED
    BY <2>1, <2>2
<1>3. n + 1 <= Len(t)
  BY <1>1 DEF LastAre
<1> HIDE DEF t
<1>4. LastAre(t, d, n + 1)
  BY <1>2, <1>3 DEF LastAre
<1> QED
  BY <1>4 DEF t

-----------------------------------------------------------------------------
\* The states and what ties them to the bytes, of one byte more.
Tracks(s, n, st) ==
  /\ Ends(s, st)
  /\ Len(s) = n => st = STATE_START
  /\ Len(s) > n /\ s[Len(s)] # CR => st \in {STATE_START, STATE_CRLF, STATE_CRLFCRLF}
  /\ Ends(s, 1) /\ ClearOfCR(s, n, 1) => st \in {STATE_CR, STATE_CRLFCR}
  /\ Ends(s, 2) /\ ClearOfCR(s, n, 2) => st \in {STATE_CRLF, STATE_CRLFCRLF}
  /\ Ends(s, 3) /\ ClearOfCR(s, n, 3) => st = STATE_CRLFCR
  /\ Ends(s, 4) /\ ClearOfCR(s, n, 4) => st = STATE_CRLFCRLF

(* The automaton keeps track of the bytes it looks at: this is why a       *)
(* blank line is never reported where there is none, and never missed when *)
(* no CR precedes it.                                                      *)
LEMMA AdvanceTracks ==
  ASSUME NEW s \in Seq(Chars), NEW c \in Chars, NEW n \in 0 .. Len(s),
         NEW st \in 0 .. 3, Tracks(s, n, st)
  PROVE  Tracks(Append(s, c), n, Advance(st, c))
<1> DEFINE t == Append(s, c)
<1>t. t \in Seq(Chars) /\ Len(t) = Len(s) + 1 /\ t[Len(t)] = c /\ Len(t) > n
  OBVIOUS
<1>e. \A k \in 0 .. 3 : Ends(t, k + 1) <=> Ends(s, k) /\ c = Terminator[k + 1]
  BY EndsAppend
<1>e1. Ends(t, 1) <=> c = CR
  BY <1>e, EndsZero DEF Terminator
<1>e2. Ends(t, 2) <=> Ends(s, 1) /\ c = LF
  BY <1>e DEF Terminator
<1>e3. Ends(t, 3) <=> Ends(s, 2) /\ c = CR
  BY <1>e DEF Terminator
<1>e4. Ends(t, 4) <=> Ends(s, 3) /\ c = LF
  BY <1>e DEF Terminator
<1>c. \A k \in 0 .. 3 : ClearOfCR(t, n, k + 1) <=> ClearOfCR(s, n, k)
  BY ClearAppend
<1>z. Ends(t, 0)
  BY <1>t, EndsZero
<1>l. Ends(s, 1) => Len(s) >= 1 /\ s[Len(s)] = CR
  BY DEF Ends, Terminator
<1>0. ClearOfCR(s, n, 0) => st \in {STATE_START, STATE_CRLF}
  BY DEF ClearOfCR, Tracks, STATE_START, STATE_CRLF, STATE_CRLFCRLF
<1> HIDE DEF t
<1>1. Ends(t, Advance(st, c))
  <2>1. CASE st = 0
    BY <2>1, <1>e1, <1>z DEF Advance, Expected, STATE_START, STATE_CRLF
  <2>2. CASE st = 1
    BY <2>2, <1>e2, <1>z DEF Tracks, Advance, Expected, STATE_START, STATE_CRLF
  <2>3. CASE st = 2
    BY <2>3, <1>e3, <1>z DEF Tracks, Advance, Expected, STATE_START, STATE_CRLF
  <2>4. CASE st = 3
    BY <2>4, <1>e4, <1>z DEF Tracks, Advance, Expected, STATE_START, STATE_CRLF
  <2> QED
    BY <2>1, <2>2, <2>3, <2>4
<1>2. c # CR => Advance(st, c) \in {STATE_START, STATE_CRLF, STATE_CRLFCRLF}
  BY DEF Advance, Expected, STATE_START, STATE_CRLF, STATE_CRLFCRLF
<1>3. Ends(t, 1) /\ ClearOfCR(t, n, 1) => Advance(st, c) \in {STATE_CR, STATE_CRLFCR}
  BY <1>e1, <1>c, <1>0
     DEF Advance, Expected, STATE_START, STATE_CR, STATE_CRLF, STATE_CRLFCR
<1>4. Ends(t, 2) /\ ClearOfCR(t, n, 2) => Advance(st, c) \in {STATE_CRLF, STATE_CRLFCRLF}
  BY <1>e2, <1>c DEF Tracks, Advance, Expected, STATE_START, STATE_CR, STATE_CRLF,
     STATE_CRLFCR, STATE_CRLFCRLF
<1>5. Ends(t, 3) /\ ClearOfCR(t, n, 3) => Advance(st, c) = STATE_CRLFCR
  BY <1>e3, <1>c DEF Tracks, Advance, Expected, STATE_START, STATE_CRLF,
     STATE_CRLFCR, STATE_CRLFCRLF
<1>6. Ends(t, 4) /\ ClearOfCR(t, n, 4) => Advance(st, c) = STATE_CRLFCRLF
  BY <1>e4, <1>c, ByteAssumption DEF Tracks, Advance, Expected, STATE_START, STATE_CRLF,
     STATE_CRLFCR, STATE_CRLFCRLF
<1>7. Tracks(t, n, Advance(st, c))
  BY <1>t, <1>1, <1>2, <1>3, <1>4, <1>5, <1>6 DEF Tracks
<1> QED
  BY <1>7 DEF t

(* The byte after a terminator is not looked at: the automaton starts      *)
(* again behind it.                                                        *)
LEMMA DefaultTracks ==
  ASSUME NEW s \in Seq(Chars), NEW c \in Chars
  PROVE  Tracks(Append(s, c), Len(s) + 1, STATE_START)
<1> DEFINE t == Append(s, c)
<1>1. t \in Seq(Chars) /\ Len(t) = Len(s) + 1
  OBVIOUS
<1> HIDE DEF t
<1>2. \A k \in 1 .. 4 : ~ClearOfCR(t, Len(s) + 1, k)
  BY <1>1 DEF ClearOfCR
<1>3. Ends(t, 0)
  BY <1>1, EndsZero
<1>4. Tracks(t, Len(s) + 1, STATE_START)
  BY <1>1, <1>2, <1>3 DEF Tracks, STATE_START
<1> QED
  BY <1>4 DEF t

-----------------------------------------------------------------------------
(* A call that scans the byte at i, for the conjuncts that relate states to *)
(* bytes.                                                                  *)

TracksSeen == Tracks(seen, skipped, state)

LEMMA ScanIInvTracks == ScanIInv <=> ScanTypeOK /\ TracksSeen /\ StopIsHeaderEnd /\ Scanned /\ FoundReturns
BY DEF ScanIInv, TracksSeen, Tracks, Sound, Complete, WaitsForCR, Matching

LEMMA InitScanIInv == ScanInit => ScanIInv
<1> SUFFICES ASSUME ScanInit PROVE ScanIInv
  OBVIOUS
<1>1. ScanTypeOK
  BY MaxBytesAssumption DEF ScanInit, ScanTypeOK, STATE_START, STATE_CRLFCRLF
<1>2. TracksSeen
  BY EndsZero DEF ScanInit, TracksSeen, Tracks, ClearOfCR, Ends, STATE_START
<1>3. StopIsHeaderEnd /\ Scanned /\ FoundReturns
  BY DEF ScanInit, StopIsHeaderEnd, Scanned, FoundReturns
<1> QED
  BY <1>1, <1>2, <1>3, ScanIInvTracks

LEMMA NextScanIInv == ScanIInv /\ [ScanNext]_scanvars => ScanIInv'
<1> SUFFICES ASSUME ScanIInv, [ScanNext]_scanvars PROVE ScanIInv'
  OBVIOUS
<1>s. USE DEF STATE_START, STATE_CR, STATE_CRLF, STATE_CRLFCR, STATE_CRLFCRLF
<1>i. ScanTypeOK /\ TracksSeen /\ StopIsHeaderEnd /\ Scanned /\ FoundReturns
  BY ScanIInvTracks
<1>q. ScanTypeOK' /\ TracksSeen' /\ StopIsHeaderEnd' /\ Scanned' /\ FoundReturns' => ScanIInv'
  BY DEF ScanIInv, TracksSeen, Tracks, Sound, Complete, WaitsForCR, Matching
<1>b. ASSUME call = "scan", i < Len(data)
      PROVE  /\ data[i + 1] \in Chars
             /\ LastAre(Append(seen, data[i + 1]), data, i + 1)
  <2>1. i \in 0 .. Len(data) - 1 /\ data \in Seq(Chars) /\ seen \in Seq(Chars)
    BY <1>b, <1>i DEF ScanTypeOK
  <2>2. LastAre(seen, data, i)
    BY <1>b, <1>i DEF Scanned
  <2> QED
    BY <2>1, <2>2, ScannedAppend
<1>1. ASSUME NEW d \in Reads, ParseRead(d)
      PROVE  ScanIInv'
  <2>1. d \in Seq(Chars)
    BY ReadsAssumption
  <2>2. ScanTypeOK'
    BY <1>1, <1>i, <2>1 DEF ParseRead, ScanTypeOK
  <2>3. TracksSeen'
    BY <1>1, <1>i DEF ParseRead, TracksSeen
  <2>4. StopIsHeaderEnd' /\ FoundReturns'
    BY <1>1 DEF ParseRead, StopIsHeaderEnd, FoundReturns
  <2>5. LastAre(seen, d, 0)
    BY <1>i DEF LastAre, ScanTypeOK
  <2>6. Scanned'
    BY <1>1, <2>5 DEF ParseRead, Scanned
  <2> QED
    BY <2>2, <2>3, <2>4, <2>6, <1>q
<1>2. CASE ScanDefault
  <2>b. data[i + 1] \in Chars /\ LastAre(Append(seen, data[i + 1]), data, i + 1)
    BY <1>2, <1>b DEF ScanDefault
  <2>1. Len(seen') = Len(seen) + 1 /\ seen' \in Seq(Chars)
    BY <1>2, <1>i, <2>b DEF ScanDefault, ScanTypeOK
  <2>2. ScanTypeOK'
    BY <1>2, <1>i, <2>1 DEF ScanDefault, ScanTypeOK
  <2>3. TracksSeen'
    BY <1>2, <1>i, <2>b, DefaultTracks DEF ScanDefault, TracksSeen, ScanTypeOK
  <2>4. StopIsHeaderEnd' /\ FoundReturns'
    BY <1>2 DEF ScanDefault, StopIsHeaderEnd, FoundReturns
  <2>5. Scanned'
    BY <1>2, <2>b DEF ScanDefault, Scanned
  <2> QED
    BY <2>2, <2>3, <2>4, <2>5, <1>q
<1>3. CASE ScanFound
  <2>b. data[i + 1] \in Chars /\ LastAre(Append(seen, data[i + 1]), data, i + 1)
    BY <1>3, <1>b DEF ScanFound, Returns
  <2>1. Len(seen') = Len(seen) + 1 /\ seen' \in Seq(Chars)
    BY <1>3, <1>i, <2>b DEF ScanFound, Returns, ScanTypeOK
  <2>2. ScanTypeOK'
    BY <1>3, <1>i, <2>1 DEF ScanFound, Returns, ScanTypeOK
  <2>3. state' = Advance(state, data[i + 1])
    BY <1>3, ByteAssumption DEF ScanFound, Returns, Advance, Expected
  <2>4. TracksSeen'
    BY <1>3, <1>i, <2>b, <2>3, AdvanceTracks DEF ScanFound, Returns, TracksSeen, ScanTypeOK
  <2>5. StopIsHeaderEnd'
    BY <1>3, <1>i, <2>b DEF ScanFound, Returns, StopIsHeaderEnd, ScanTypeOK
  <2>6. Scanned' /\ FoundReturns'
    BY <1>3 DEF ScanFound, Returns, Scanned, FoundReturns
  <2> QED
    BY <2>2, <2>4, <2>5, <2>6, <1>q
<1>4. CASE ScanByte
  <2>b. data[i + 1] \in Chars /\ LastAre(Append(seen, data[i + 1]), data, i + 1)
    BY <1>4, <1>b DEF ScanByte
  <2>1. Len(seen') = Len(seen) + 1 /\ seen' \in Seq(Chars)
    BY <1>4, <1>i, <2>b DEF ScanByte, ScanTypeOK
  <2>2. state \in 0 .. 3 /\ state' \in 0 .. 3
    BY <1>4, <1>i DEF ScanByte, ScanTypeOK, Advance, Expected
  <2>3. ScanTypeOK'
    BY <1>4, <1>i, <2>1, <2>2 DEF ScanByte, ScanTypeOK
  <2>4. TracksSeen'
    BY <1>4, <1>i, <2>b, <2>2, AdvanceTracks DEF ScanByte, TracksSeen, ScanTypeOK
  <2>5. StopIsHeaderEnd'
    BY <1>4 DEF ScanByte, StopIsHeaderEnd
  <2>6. Scanned'
    BY <1>4, <2>b DEF ScanByte, Scanned
  <2>7. FoundReturns'
    BY <2>2 DEF FoundReturns
  <2> QED
    BY <2>3, <2>4, <2>5, <2>6, <2>7, <1>q
<1>5. CASE ScanEnd
  <2>1. ScanTypeOK'
    BY <1>5, <1>i DEF ScanEnd, Returns, ScanTypeOK
  <2>2. TracksSeen'
    BY <1>5, <1>i DEF ScanEnd, Returns, TracksSeen
  <2>3. StopIsHeaderEnd'
    <3>1. ASSUME data # <<>> PROVE i > 0
      BY <3>1, <1>5, <1>i DEF ScanEnd, Returns, ScanTypeOK
    <3>2. data # <<>> => state # 4 /\ LastAre(seen, data, Len(data))
      BY <3>1, <1>5, <1>i DEF ScanEnd, Returns, FoundReturns, Scanned
    <3> QED
      BY <3>2, <1>5, <1>i DEF ScanEnd, Returns, StopIsHeaderEnd, ScanTypeOK
  <2>4. Scanned' /\ FoundReturns'
    BY <1>5 DEF ScanEnd, Returns, Scanned, FoundReturns
  <2> QED
    BY <2>1, <2>2, <2>3, <2>4, <1>q
<1>6. CASE UNCHANGED scanvars
  BY <1>6, <1>i, <1>q DEF scanvars, ScanTypeOK, TracksSeen, StopIsHeaderEnd, Scanned, FoundReturns
<1> QED
  BY <1>1, <1>2, <1>3, <1>4, <1>5, <1>6 DEF ScanNext

(* The inductive invariant holds, for every cut of every stream.           *)
THEOREM ScannerInvariant == ScanSpec => []ScanIInv
BY InitScanIInv, NextScanIInv, PTL DEF ScanSpec

(* parse_read() reports no header's end but at a blank line, however the   *)
(* stream is cut into reads.                                               *)
THEOREM ScannerSound == ScanSpec => []Sound
<1>1. ScanIInv => Sound
  BY DEF ScanIInv
<1> QED
  BY <1>1, ScannerInvariant, PTL

(* parse_read() misses no blank line but one that follows a CR or shares a *)
(* byte with the one it did not look at.                                   *)
THEOREM ScannerComplete == ScanSpec => []Complete
<1>1. ScanIInv => Complete
  BY DEF ScanIInv
<1> QED
  BY <1>1, ScannerInvariant, PTL

(* What *stop tells read_data(): where to cut the read, or that it holds   *)
(* no end of a header.                                                     *)
THEOREM StopCorrect == ScanSpec => []StopIsHeaderEnd
<1>1. ScanIInv => StopIsHeaderEnd
  BY DEF ScanIInv
<1> QED
  BY <1>1, ScannerInvariant, PTL

=============================================================================
