--------------------------- MODULE RequestReceipts ---------------------------
(***************************************************************************)
(* The durable receipts that keep a request from reaching an agent twice,  *)
(* packages/core/doompi-core/src/services/requestReceipts/index.ts, and    *)
(* the two places of doompi-voice that ask an agent to admit a request     *)
(* under one: admitToRoute() of the companion, inboundAgent() of the relay *)
(* that serves a paired host.                                              *)
(*                                                                         *)
(* A request is reserved, handed to the agent, and finished.  Attempts at  *)
(* one address race, a finish may fail, the server may crash between two   *)
(* steps, and an answer of the agent may be lost.                          *)
(***************************************************************************)
EXTENDS Naturals, FiniteSets

CONSTANTS
  Attempts,   \* deliveries of requests, each made at most once
  Address,    \* the namespace, activation and request id of an attempt
  Content,    \* its fingerprint, destination and transaction
  Relayed,    \* the attempts that came from a paired host
  MaxFaults,  \* bound on crashes and failed commits
  Unreserved  \* no receipt

VARIABLES
  storage,    \* whether the receipts are open
  receipts,   \* the durable document: a receipt at each address, or none
  stage,      \* how far an attempt got
  reply,      \* what its sender was told, or is about to be
  admissions, \* what the agent admitted at each address, and for which attempt
  faults

receiptVars == <<storage, receipts, stage, reply, admissions, faults>>

Addresses == {Address[t] : t \in Attempts}
Terminal == {"admitted", "rejected", "uncertain"}
Receipt == [content: {Content[t] : t \in Attempts},
            outcome: Terminal \cup {"reserved"}, token: Attempts]

ASSUME UnreservedAssumption == Unreserved \notin Receipt

ReceiptsInit ==
  /\ storage = "open"
  /\ receipts = [a \in Addresses |-> Unreserved]
  /\ stage = [t \in Attempts |-> "idle"]
  /\ reply = [t \in Attempts |-> "none"]
  /\ admissions = [a \in Addresses |-> {}]
  /\ faults = 0

Answer(t, r) == stage' = [stage EXCEPT ![t] = "answered"] /\ reply' = [reply EXCEPT ![t] = r]
Proceed(t, s, r) == stage' = [stage EXCEPT ![t] = s] /\ reply' = [reply EXCEPT ![t] = r]

\* A commit that fails: its caller cannot tell whether it was applied.
Fault == faults < MaxFaults /\ faults' = faults + 1

-----------------------------------------------------------------------------
(* reserve() and what the two callers make of its answer                   *)

\* Faulty variant of Existing: the fingerprint is not compared.
ExistingBlind(t) ==
  IF t \in Relayed THEN "conflict"
  ELSE CASE receipts[Address[t]].outcome = "admitted" -> "submitted"
         [] receipts[Address[t]].outcome = "rejected" -> "rejected"
         [] OTHER -> "uncertain"

\* The receipt that a reservation finds is told as it is, by the companion; the
\* relay refuses whatever is not a new reservation.
Existing(t) ==
  LET prior == receipts[Address[t]] IN
  IF t \in Relayed THEN "conflict"
  ELSE IF prior.content # Content[t] THEN "rejected"
  ELSE CASE prior.outcome = "admitted" -> "submitted"
         [] prior.outcome = "rejected" -> "rejected"
         [] OTHER -> "uncertain"

Reservation(t) == [content |-> Content[t], outcome |-> "reserved", token |-> t]

\* Faulty variant of Reserve: a reservation that was never finished is taken over.
ReserveAgain(t) ==
  LET a == Address[t] IN
  /\ storage = "open" /\ stage[t] = "idle"
  /\ IF receipts[a] = Unreserved \/ receipts[a] = [Reservation(t) EXCEPT !.token = receipts[a].token]
       THEN /\ receipts' = [receipts EXCEPT ![a] = Reservation(t)]
            /\ Proceed(t, "reserved", "none")
       ELSE UNCHANGED receipts /\ Answer(t, Existing(t))
  /\ UNCHANGED <<storage, admissions, faults>>

Reserve(t) ==
  LET a == Address[t] IN
  /\ storage = "open" /\ stage[t] = "idle"
  /\ IF receipts[a] = Unreserved
       THEN /\ receipts' = [receipts EXCEPT ![a] = Reservation(t)]
            /\ Proceed(t, "reserved", "none")
       ELSE UNCHANGED receipts /\ Answer(t, Existing(t))
  /\ UNCHANGED <<storage, admissions, faults>>

\* The storage is closed, or the commit fails: the error is the answer.
ReserveFails(t) ==
  LET a == Address[t] IN
  /\ stage[t] = "idle"
  /\ Answer(t, "error")
  /\ \/ storage = "closed" /\ UNCHANGED <<receipts, faults>>
     \/ /\ storage = "open" /\ Fault
        /\ \/ UNCHANGED receipts
           \/ receipts[a] = Unreserved /\ receipts' = [receipts EXCEPT ![a] = Reservation(t)]
  /\ UNCHANGED <<storage, admissions>>

\* The companion was stopped or its route replaced during the reservation.
RouteLost(t) ==
  /\ stage[t] = "reserved" /\ t \notin Relayed
  /\ Proceed(t, "finishing", "rejected")
  /\ UNCHANGED <<storage, receipts, admissions, faults>>

-----------------------------------------------------------------------------
(* The request to the agent.                                               *)

\* The agent admits it, whether or not its answer arrives.
AgentAdmits(t) ==
  /\ stage[t] = "reserved"
  /\ admissions' = [admissions EXCEPT ![Address[t]] = @ \cup {<<t, Content[t]>>}]
  /\ \E r \in {"submitted", "uncertain"} : Proceed(t, "finishing", r)
  /\ UNCHANGED <<storage, receipts, faults>>

\* It refuses, or the request does not reach it: the caller cannot tell.
AgentRefuses(t) ==
  /\ stage[t] = "reserved"
  /\ Proceed(t, "finishing", "uncertain")
  /\ UNCHANGED <<storage, receipts, admissions, faults>>

-----------------------------------------------------------------------------
(* finish()                                                                *)

OutcomeOf(r) == IF r = "submitted" THEN "admitted" ELSE r

\* Faulty variant of MayFinish: any outcome is replaced.
MayFinishTwice(t) == receipts[Address[t]] # Unreserved

\* The token must match, and the receipt be unfinished.
MayFinish(t) ==
  /\ receipts[Address[t]] # Unreserved
  /\ receipts[Address[t]].token = t
  /\ receipts[Address[t]].outcome = "reserved"

Finished(t) == [receipts EXCEPT ![Address[t]].outcome = OutcomeOf(reply[t])]

\* A companion that was stopped meanwhile tells its sender nothing certain.
Finish(t) ==
  /\ storage = "open" /\ stage[t] = "finishing" /\ MayFinish(t)
  /\ receipts' = Finished(t)
  /\ \/ Answer(t, reply[t])
     \/ reply[t] = "submitted" /\ t \notin Relayed /\ Answer(t, "uncertain")
  /\ UNCHANGED <<storage, admissions, faults>>

\* The storage is closed, the receipt is finished already, or the commit fails.
FinishThrows(t) ==
  \/ storage = "closed" /\ UNCHANGED <<receipts, faults>>
  \/ storage = "open" /\ ~MayFinish(t) /\ UNCHANGED <<receipts, faults>>
  \/ storage = "open" /\ MayFinish(t) /\ Fault /\ receipts' \in {receipts, Finished(t)}

\* Faulty variant of FinishFails: an admission that could not be recorded is
\* recorded as a rejection.
FinishFailsRejecting(t) ==
  /\ stage[t] = "finishing" /\ FinishThrows(t)
  /\ IF reply[t] = "submitted" THEN Proceed(t, "finishing", "rejected") ELSE Answer(t, "error")
  /\ UNCHANGED <<storage, admissions>>

\* The companion then tries to record an admission as uncertain; any other
\* failure ends the attempt and leaves the receipt as it is.
FinishFails(t) ==
  /\ stage[t] = "finishing" /\ FinishThrows(t)
  /\ IF reply[t] = "submitted" /\ t \notin Relayed THEN Proceed(t, "finishing", "uncertain")
     ELSE Answer(t, IF reply[t] = "uncertain" THEN "uncertain" ELSE "error")
  /\ UNCHANGED <<storage, admissions>>

-----------------------------------------------------------------------------
\* close() refuses further operations; what is in progress goes on until the
\* process ends.
CloseReceipts ==
  /\ storage = "open"
  /\ storage' = "closed"
  /\ UNCHANGED <<receipts, stage, reply, admissions, faults>>

\* The server ends, at any point, and starts again.
Restart ==
  /\ storage = "closed" \/ faults < MaxFaults
  /\ faults' = IF storage = "closed" THEN faults ELSE faults + 1
  /\ storage' = "open"
  /\ stage' = [t \in Attempts |-> IF stage[t] = "idle" THEN "idle" ELSE "answered"]
  /\ reply' = [t \in Attempts |-> IF stage[t] \in {"reserved", "finishing"} THEN "none" ELSE reply[t]]
  /\ UNCHANGED <<receipts, admissions>>

ReceiptsNext ==
  \/ \E t \in Attempts :
       \/ Reserve(t) \/ ReserveFails(t) \/ RouteLost(t) \/ AgentAdmits(t) \/ AgentRefuses(t)
       \/ Finish(t) \/ FinishFails(t)
  \/ CloseReceipts \/ Restart

ReceiptsSpec == ReceiptsInit /\ [][ReceiptsNext]_receiptVars

-----------------------------------------------------------------------------
(* Properties *)

ReceiptsTypeOK ==
  /\ storage \in {"open", "closed"}
  /\ receipts \in [Addresses -> Receipt \cup {Unreserved}]
  /\ stage \in [Attempts -> {"idle", "reserved", "finishing", "answered"}]
  /\ reply \in [Attempts -> {"none", "submitted", "conflict", "error", "rejected", "uncertain"}]
  /\ admissions \in [Addresses -> SUBSET (Attempts \X {Content[t] : t \in Attempts})]
  /\ faults \in Nat

\* An agent admits at most one request per address, however often it was sent,
\* whatever crashed and whichever answers were lost.
OneAdmission == \A a \in Addresses : Cardinality(admissions[a]) <= 1

\* Whoever is at work on a request holds its receipt, unfinished until the agent
\* was asked; what the agent admitted is what the receipt of its address is for.
HolderInv ==
  /\ \A t \in Attempts : stage[t] \in {"reserved", "finishing"} =>
       /\ receipts[Address[t]] # Unreserved
       /\ receipts[Address[t]].token = t /\ receipts[Address[t]].content = Content[t]
  /\ \A t \in Attempts : stage[t] = "reserved" =>
       receipts[Address[t]].outcome = "reserved" /\ admissions[Address[t]] = {}
  /\ \A t \in Attempts : stage[t] = "finishing" =>
       /\ reply[t] \in {"submitted", "rejected", "uncertain"}
       /\ reply[t] = "submitted" => <<t, Content[t]>> \in admissions[Address[t]]
       /\ reply[t] = "rejected" => admissions[Address[t]] = {}
  /\ \A a \in Addresses : \A e \in admissions[a] :
       receipts[a] # Unreserved /\ e = <<receipts[a].token, receipts[a].content>>

\* What a receipt says of the agent is so: nothing was admitted without one or
\* under a rejected one, and an admitted one holds what was admitted.
ReceiptTruth ==
  \A a \in Addresses :
    IF receipts[a] = Unreserved THEN admissions[a] = {}
    ELSE /\ receipts[a].outcome = "rejected" => admissions[a] = {}
         /\ receipts[a].outcome = "admitted"
              => <<receipts[a].token, receipts[a].content>> \in admissions[a]

\* A sender that is told its request was submitted finds that very request, not
\* another of the same address, admitted.
SubmittedIsAdmitted ==
  \A t \in Attempts :
    stage[t] = "answered" /\ reply[t] = "submitted"
      => \E u \in Attempts : <<u, Content[t]>> \in admissions[Address[t]]

\* An outcome is final, even if its commit seemed to fail and another was tried.
OutcomesFinal ==
  [][\A a \in Addresses :
       receipts[a] # Unreserved /\ receipts[a].outcome # "reserved"
         => receipts'[a] = receipts[a]]_receiptVars
=============================================================================
