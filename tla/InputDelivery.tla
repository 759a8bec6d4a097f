--------------------------- MODULE InputDelivery ---------------------------
(***************************************************************************)
(* What the retained queue of a DoomPi session promises about user input,  *)
(* without lane, calls, attempts or receipts: an input that was retained   *)
(* waits until it enters the transcript, once, or until it is removed.  It *)
(* is given up without an entry only when its removal was asked for.       *)
(***************************************************************************)
EXTENDS Naturals

CONSTANT Inputs  \* identities of user inputs

VARIABLES
  stage,    \* where each input stands
  entries,  \* how many transcript entries it has
  asked     \* the inputs whose removal was asked for

vars == <<stage, entries, asked>>

Stages == {"absent", "waiting", "entered", "removed", "discarded"}

Init ==
  /\ stage = [i \in Inputs |-> "absent"]
  /\ entries = [i \in Inputs |-> 0]
  /\ asked = {}

Retain(i) ==
  /\ stage[i] = "absent"
  /\ stage' = [stage EXCEPT ![i] = "waiting"]
  /\ UNCHANGED <<entries, asked>>

\* The inputs S enter the transcript together.
Enter(S) ==
  /\ \A i \in S : stage[i] = "waiting"
  /\ stage' = [i \in Inputs |-> IF i \in S THEN "entered" ELSE stage[i]]
  /\ entries' = [i \in Inputs |-> IF i \in S THEN entries[i] + 1 ELSE entries[i]]
  /\ UNCHANGED asked

AskRemoval(i) ==
  /\ stage[i] # "absent"
  /\ asked' = asked \cup {i}
  /\ UNCHANGED <<stage, entries>>

\* The inputs S leave the queue without an entry, reported or not.
GiveUp(S, how) ==
  /\ \A i \in S : stage[i] = "waiting" /\ i \in asked
  /\ stage' = [i \in Inputs |-> IF i \in S THEN how ELSE stage[i]]
  /\ UNCHANGED <<entries, asked>>

Next ==
  \/ \E i \in Inputs : Retain(i) \/ AskRemoval(i)
  \/ \E S \in (SUBSET Inputs) \ {{}} :
       Enter(S) \/ GiveUp(S, "removed") \/ GiveUp(S, "discarded")

Spec == Init /\ [][Next]_vars
=============================================================================
