---------------------------- MODULE HttpExchange ----------------------------
(***************************************************************************)
(* What the clients of a descriptor are promised: every request gets one   *)
(* answer, the one that is due to it, and the answers come in the order of *)
(* the requests.                                                           *)
(***************************************************************************)
EXTENDS Naturals, Sequences

CONSTANTS Requests,   \* the requests there are
          Due(_, _)   \* the answer due to request number id of a sequence

VARIABLES asked,  \* the requests, in the order they were sent
          resp    \* the answers, in the order they were sent

vars == <<asked, resp>>

Init == asked = <<>> /\ resp = <<>>

Ask == \E r \in Requests : asked' = Append(asked, r) /\ resp' = resp

Reply ==
  /\ Len(resp) < Len(asked)
  /\ resp' = Append(resp, Due(asked, Len(resp) + 1))
  /\ asked' = asked

Next == Ask \/ Reply

Spec == Init /\ [][Next]_vars /\ WF_vars(Reply)
=============================================================================
