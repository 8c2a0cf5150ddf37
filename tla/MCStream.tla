------------------------------ MODULE MCStream ------------------------------
(* An instance of the two parts the bytes of a connection go through, for  *)
(* TLC.  They share no state, so a behaviour is one of either, while the   *)
(* other stays as it began.                                                *)
EXTENDS BufferList, HeaderScanner, SequencesExt

\* BufferList: a chunk of n bytes is n tagged with the position, so that two chunks of
\* different sizes share no byte and a misplaced or stale byte shows.  Nothing, a byte, a
\* buffer less a byte, a buffer, two and a byte: the cases the arithmetic of append() tells
\* apart, from every offset.
MCSizes == {0, 1, 7, 8, 17}
MCChunks == {[k \in 1 .. n |-> 100 * n + k] : n \in MCSizes}
MCBytes == {0} \cup UNION {{100 * n + k : k \in 1 .. n} : n \in MCSizes}

\* HeaderScanner: every stream of a few bytes, cut in every way into reads of one to three.
MCReads == SeqOf(Chars, 3) \ {<<>>}

StreamInit == Init /\ ScanInit
StreamNext == (Next /\ ScanInit /\ UNCHANGED scanvars) \/ (ScanNext /\ Init /\ UNCHANGED vars)
StreamSpec == StreamInit /\ [][StreamNext]_<<vars, scanvars>>
=============================================================================
