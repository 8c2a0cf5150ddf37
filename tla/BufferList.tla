----------------------------- MODULE BufferList -----------------------------
(***************************************************************************)
(* The list of fixed-size buffers in which a connection collects a request *)
(* (src/src/common/buffer_list.cc).                                        *)
(*                                                                         *)
(* append() is taken apart into its copies: the one that fills the tail,   *)
(* one step per iteration of its loop, and its last lines.  The linked     *)
(* list and buffer_index name the same buffers in the same order, so one   *)
(* sequence stands for both: its first element is the header, its last one *)
(* the tail.                                                               *)
(***************************************************************************)
EXTENDS Integers, Sequences

CONSTANTS Bytes,     \* the values of a char
          Zero,      \* what new Buffer() fills a buffer with
          Chunks,    \* the byte sequences passed to append()
          MaxCount   \* bound on the bytes held, for model checking

ASSUME ZeroAssumption == Zero \in Bytes
ASSUME ChunksAssumption == Chunks \subseteq Seq(Bytes)
ASSUME MaxCountAssumption == MaxCount \in Nat

\* BUFFER_ITEM_SIZE
ItemSize == 8

Buffers == [0 .. ItemSize - 1 -> Bytes]
Fresh == [j \in 0 .. ItemSize - 1 |-> Zero]

VARIABLES
  bufs,     \* buffer_index: the buffers from header to tail
  offset,   \* offset: the bytes used in the tail
  count,    \* count: the bytes held
  arg,      \* data, the argument of the append() that is running
  pos,      \* data_offset: how much of it is copied
  todo,     \* the iterations the loop of append() has left
  pc,       \* whether append() is running
  out       \* what the last get_all_data() stored

vars == <<bufs, offset, count, arg, pos, todo, pc, out>>

tail == bufs[Len(bufs)]

TypeOK ==
  /\ bufs \in Seq(Buffers) /\ bufs # <<>>
  /\ offset \in 0 .. ItemSize
  /\ count \in Nat
  /\ arg \in Seq(Bytes)
  /\ pos \in Nat
  /\ todo \in Nat
  /\ pc \in {"idle", "append"}
  /\ pc = "append" => arg \in Chunks
  /\ out \in Seq(Bytes)

Init ==
  /\ bufs = <<Fresh>>
  /\ offset = 0 /\ count = 0
  /\ arg = <<>> /\ pos = 0 /\ todo = 0
  /\ pc = "idle" /\ out = <<>>

\* memcpy(&buffer[at], data + from, n)
Copied(buffer, at, data, from, n) ==
  [j \in 0 .. ItemSize - 1 |->
     IF j >= at /\ j < at + n THEN data[from + j - at + 1] ELSE buffer[j]]

\* Mutant: a buffer too many for a multiple of their size.
ItemsForOneMore(len) == len \div ItemSize + 1

\* (len + BUFFER_ITEM_SIZE - 1) / BUFFER_ITEM_SIZE
ItemsFor(len) == (len + ItemSize - 1) \div ItemSize

\* size_t left = BUFFER_ITEM_SIZE - offset
Left == ItemSize - offset

\* The data fits into the tail and leaves room: one copy.
AppendShort(d) ==
  /\ pc = "idle"
  /\ Len(d) < Left
  /\ bufs' = [bufs EXCEPT ![Len(bufs)] = Copied(tail, offset, d, 0, Len(d))]
  /\ offset' = offset + Len(d)
  /\ arg' = d /\ pos' = Len(d) /\ todo' = 0
  /\ pc' = "append"
  /\ UNCHANGED <<count, out>>

\* Otherwise the tail is filled up first, and the rest needs new buffers.
AppendFill(d) ==
  /\ pc = "idle"
  /\ Len(d) >= Left
  /\ bufs' = [bufs EXCEPT ![Len(bufs)] = Copied(tail, offset, d, 0, Left)]
  /\ offset' = offset + Left
  /\ arg' = d /\ pos' = Left /\ todo' = ItemsFor(Len(d) - Left)
  /\ pc' = "append"
  /\ UNCHANGED <<count, out>>

\* One iteration: expand(), then a whole buffer or, in the last iteration,
\* what is left of the data.
AppendLoop ==
  LET n == IF todo > 1 THEN ItemSize ELSE Len(arg) - pos IN
  /\ pc = "append"
  /\ todo > 0
  /\ bufs' = Append(bufs, Copied(Fresh, 0, arg, pos, n))
  /\ offset' = n
  /\ pos' = pos + n
  /\ todo' = todo - 1
  /\ UNCHANGED <<count, arg, pc, out>>

TailFull == offset = ItemSize

\* The last lines of append(): a full tail gets a successor.
AppendEnd ==
  /\ pc = "append"
  /\ todo = 0
  /\ IF TailFull
       THEN bufs' = Append(bufs, Fresh) /\ offset' = 0
       ELSE UNCHANGED <<bufs, offset>>
  /\ count' = count + Len(arg)
  /\ pc' = "idle"
  /\ arg' = <<>> /\ pos' = 0
  /\ UNCHANGED <<todo, out>>

\* The byte at position k of the memory of the buffers b.
At(b, k) == b[(k \div ItemSize) + 1][k % ItemSize]

\* Positions in use: the buffers before the tail, and offset bytes of it.
Used == ItemSize * (Len(bufs) - 1) + offset

\* get_all_data(): whole buffers, then offset bytes of the tail
Stored == [k \in 1 .. Used |-> At(bufs, k - 1)]

GetAllData ==
  /\ pc = "idle"
  /\ out' = IF count = 0 THEN <<>> ELSE Stored
  /\ UNCHANGED <<bufs, offset, count, arg, pos, todo, pc>>

\* Mutant: the offset into the tail is not reset.
ClearKeepsOffset ==
  /\ pc = "idle"
  /\ bufs' = <<tail>>
  /\ count' = 0
  /\ UNCHANGED <<offset, arg, pos, todo, pc, out>>

\* clear(): only the tail survives, with the bytes it holds
Clear ==
  /\ pc = "idle"
  /\ bufs' = <<tail>>
  /\ offset' = 0
  /\ count' = 0
  /\ UNCHANGED <<arg, pos, todo, pc, out>>

Next == \/ \E d \in Chunks : /\ count + Len(d) <= MaxCount
                             /\ AppendShort(d) \/ AppendFill(d)
        \/ AppendLoop
        \/ AppendEnd
        \/ GetAllData
        \/ Clear

Spec == Init /\ [][Next]_vars

-----------------------------------------------------------------------------
(* Properties.                                                             *)

\* Between calls the buffers hold exactly count bytes and the tail has room,
\* so get_all_data() stores count bytes into the caller's array of that size
\* (lines 92-98) and append() never starts on a full tail (line 24).
Layout == pc = "idle" => Used = count /\ offset < ItemSize

\* The assertion of expand() (line 72) holds at each of its calls.
ExpandAsserted == pc = "append" /\ todo > 0 => offset = ItemSize

\* Every iteration copies what the data has and the buffer can take: no read
\* past the argument, no write past the buffer (lines 40 and 45).
InBounds ==
  pc = "append" =>
    LET rest == Len(arg) - pos IN
    IF todo = 0 THEN rest = 0
    ELSE rest > ItemSize * (todo - 1) /\ rest <= ItemSize * todo

\* What append() has copied so far is in place behind the bytes held before.
InPlace ==
  pc = "append" =>
    /\ Used = count + pos
    /\ \A k \in 0 .. pos - 1 : At(bufs, count + k) = arg[k + 1]

\* The inductive invariant of the buffer list.
IInv == TypeOK /\ Layout /\ ExpandAsserted /\ InBounds /\ InPlace

\* The buffer list is a byte stream: a read returns every byte appended
\* since the last clear(), in order, and nothing else (no stale byte of an
\* earlier request, although clear() does not erase the tail).
BS == INSTANCE ByteStream WITH
        content <- [k \in 1 .. count |-> At(bufs, k - 1)], read <- out
ByteStreamSpec == BS!Spec
=============================================================================
