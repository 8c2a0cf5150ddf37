----------------------------- MODULE ByteStream -----------------------------
(***************************************************************************)
(* What a buffer list promises to its user: the bytes appended since the   *)
(* last clear, in order, whatever the sizes of the pieces.  There are no   *)
(* buffers here.                                                           *)
(***************************************************************************)
EXTENDS Naturals, Sequences

CONSTANT Chunks    \* the byte sequences that may be appended

VARIABLES content,  \* the bytes held
          read      \* what the last read returned

vars == <<content, read>>

Init == content = <<>> /\ read = <<>>

Append_(d) == content' = content \o d /\ UNCHANGED read

Read == read' = content /\ UNCHANGED content

Clear == content' = <<>> /\ UNCHANGED read

Next == (\E d \in Chunks : Append_(d)) \/ Read \/ Clear

Spec == Init /\ [][Next]_vars
=============================================================================
