------------------------------ MODULE MCDurable ------------------------------
(***************************************************************************)
(* Two parts of a session that share no state and must survive a kill: the *)
(* lock of its history and its messages.  One behaviour exercises one of   *)
(* them, chosen at the start, while the other rests in its initial state.  *)
(*                                                                         *)
(* Four processes contend for one history, one of them a legacy writer:    *)
(* enough for an owner, an acquirer of its lock, a cleaner of a dead guard *)
(* and a rival of either.  Two senders choose the same id for what they    *)
(* send to one recipient.                                                  *)
(***************************************************************************)
EXTENDS HistoryLock, SessionDelivery, TLC

CONSTANTS
  p1, p2, p3, p4,  \* processes
  s1, s2,          \* sessions that send
  e1, e2           \* what they send

VARIABLE part

durableVars == <<vars, deliveryVars, part>>

SenderOf == (e1 :> s1) @@ (e2 :> s2)
DeliveryIdOf == [e \in Envelopes |-> 1]

\* The senders are interchangeable: the first one delivers first.
FirstDelivered == outbox'[e2] # "absent" => outbox'[e1] # "absent"

DurableInit == Init /\ DeliveryInit /\ part \in {"history", "messages"}

DurableNext ==
  /\ UNCHANGED part
  /\ \/ part = "history" /\ Next /\ UNCHANGED deliveryVars
     \/ part = "messages" /\ DeliveryNext /\ FirstDelivered /\ UNCHANGED vars

\* The fairness of HistoryLock holds where processes acquire; that of the
\* messages can be stated for both, since at the start nothing in it is enabled.
DurableSpec ==
  /\ DurableInit /\ [][DurableNext]_durableVars
  /\ \A p \in Procs : WF_vars(part = "history" /\ Acquire(p))
  /\ DeliveryFair
=============================================================================
