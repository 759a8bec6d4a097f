--------------------------- MODULE SessionDelivery ---------------------------
(***************************************************************************)
(* Messages between sessions,                                              *)
(* packages/foundations/doompi-session/src/services/sessionDelivery:       *)
(* sessions that send keep an envelope in their outbox and publish it      *)
(* until the recipient tells them how it ended, and the recipient keeps it *)
(* in its inbox, asks its agent to admit the prompt and acknowledges every *)
(* state of it.  Both tables are durable.  Publications are lost or        *)
(* overtake each other; either side is closed, killed and started again;   *)
(* writes fail.                                                            *)
(*                                                                         *)
(* One recipient is modelled: inboxes of different sessions share nothing. *)
(***************************************************************************)
EXTENDS Naturals

CONSTANTS
  Envelopes,       \* envelopes that may be delivered to the recipient
  Sender,          \* the session that sends an envelope
  DeliveryId,      \* the id it chose, which another sender may have chosen as well
  NoEnvelope,      \* an id that the inbox does not hold
  MaxDisruptions   \* bound on ends of a service, failed writes and withdrawn grants

VARIABLES
  outbox,      \* recipient_state of each envelope in its sender's outbox
  open,        \* the senders whose service runs
  inbox,       \* the state of each id in the inbox
  kept,        \* and the envelope that came with it first
  consumed,    \* the ids whose entry was consumed
  recipient,   \* whether the recipient's service runs
  scheduled,   \* the ids its admission queue has still to deal with
  agentCall,   \* how far the admission of an id got
  prompts,     \* how often the agent admitted the prompt of an id
  barred,      \* the envelopes whose sender may no longer reach the recipient
  envelopes, acks,  \* published and not received
  disruptions

deliveryVars == <<outbox, open, inbox, kept, consumed, recipient, scheduled, agentCall, prompts,
                  barred, envelopes, acks, disruptions>>
inboxVars == <<inbox, kept, consumed, recipient, scheduled, agentCall, prompts>>

Senders == {Sender[e] : e \in Envelopes}
Ids == {DeliveryId[e] : e \in Envelopes}
Ended == {"admitted", "recovery_required"}
InboxStates == {"accepted", "admitting"} \cup Ended
Acks == [id: Ids, to: Senders, state: InboxStates]

ASSUME NoEnvelopeAssumption == NoEnvelope \notin Envelopes
ASSUME DisruptionsAssumption == MaxDisruptions \in Nat

Ack(e, state) == [id |-> DeliveryId[e], to |-> Sender[e], state |-> state]

Disrupted == disruptions < MaxDisruptions /\ disruptions' = disruptions + 1
DisruptedTwice == disruptions + 1 < MaxDisruptions /\ disruptions' = disruptions + 2

DeliveryInit ==
  /\ outbox = [e \in Envelopes |-> "absent"] /\ open = Senders
  /\ inbox = [i \in Ids |-> "none"] /\ kept = [i \in Ids |-> NoEnvelope] /\ consumed = {}
  /\ recipient = "open" /\ scheduled = {} /\ agentCall = [i \in Ids |-> "idle"]
  /\ prompts = [i \in Ids |-> 0]
  /\ barred = {} /\ envelopes = {} /\ acks = {} /\ disruptions = 0

-----------------------------------------------------------------------------
(* The sender                                                              *)

\* What a sender publishes again until it knows how a delivery ended.
Publishable(s) ==
  {e \in Envelopes : Sender[e] = s /\ outbox[e] \notin {"absent"} \cup Ended /\ e \notin barred}

\* deliver(): an id of this sender stays bound to its first envelope.
Deliver(e) ==
  /\ Sender[e] \in open /\ e \notin barred
  /\ \A f \in Envelopes :
       Sender[f] = Sender[e] /\ DeliveryId[f] = DeliveryId[e] /\ outbox[f] # "absent" => f = e
  /\ outbox' = [outbox EXCEPT ![e] = IF @ = "absent" THEN "queued" ELSE @]
  /\ envelopes' = envelopes \cup (IF outbox[e] \in Ended THEN {} ELSE {e})
  /\ UNCHANGED <<inboxVars, open, barred, acks, disruptions>>

\* Once a second, and when the recipient announces that it is ready.
Republish(s) ==
  /\ s \in open
  /\ envelopes' = envelopes \cup Publishable(s)
  /\ UNCHANGED <<inboxVars, outbox, open, barred, acks, disruptions>>

\* Which acknowledgement changes recipient_state: one that is further on.
Supersedes(new, old) ==
  \/ old = "queued"
  \/ old = "accepted" /\ new # "accepted"
  \/ old = "admitting" /\ new \in Ended

ReceiveAck(a) ==
  /\ a \in acks /\ a.to \in open
  /\ acks' = acks \ {a}
  /\ outbox' = [e \in Envelopes |->
                  IF Sender[e] = a.to /\ DeliveryId[e] = a.id /\ Supersedes(a.state, outbox[e])
                    THEN a.state ELSE outbox[e]]
  /\ UNCHANGED <<inboxVars, open, barred, envelopes, disruptions>>

SenderEnds(s) ==
  /\ s \in open /\ Disrupted
  /\ open' = open \ {s}
  /\ UNCHANGED <<inboxVars, outbox, barred, envelopes, acks>>

SenderStarts(s) ==
  /\ s \in Senders \ open
  /\ open' = open \cup {s}
  /\ envelopes' = envelopes \cup Publishable(s)
  /\ UNCHANGED <<inboxVars, outbox, barred, acks, disruptions>>

-----------------------------------------------------------------------------
(* The recipient's inbox                                                   *)

\* Faulty variant of ReceiveEnvelope: an envelope that is known is dropped.
ReceiveUnknown(e) ==
  LET i == DeliveryId[e] IN
  /\ e \in envelopes /\ e \notin barred /\ recipient = "open" /\ kept[i] = NoEnvelope
  /\ envelopes' = envelopes \ {e}
  /\ kept' = [kept EXCEPT ![i] = e]
  /\ inbox' = [inbox EXCEPT ![i] = "accepted"]
  /\ acks' = acks \cup {Ack(e, "accepted")}
  /\ scheduled' = scheduled \cup {i}
  /\ UNCHANGED <<outbox, open, consumed, recipient, agentCall, prompts, barred, disruptions>>

\* receiveEnvelope(): an id is bound to its first envelope, whose state is
\* acknowledged again each time it comes.  The acknowledgement may throw before
\* the admission is scheduled.  Any other envelope is dropped (LoseEnvelope).
ReceiveEnvelope(e) ==
  LET i == DeliveryId[e] IN
  /\ e \in envelopes /\ e \notin barred /\ recipient = "open" /\ kept[i] \in {NoEnvelope, e}
  /\ envelopes' = envelopes \ {e}
  /\ kept' = [kept EXCEPT ![i] = e]
  /\ inbox' = [inbox EXCEPT ![i] = IF @ = "none" THEN "accepted" ELSE @]
  /\ \/ /\ acks' = acks \cup {Ack(e, inbox'[i])}
        /\ scheduled' = scheduled \cup (IF inbox'[i] = "accepted" THEN {i} ELSE {})
        /\ UNCHANGED disruptions
     \/ Disrupted /\ UNCHANGED <<acks, scheduled>>
  /\ UNCHANGED <<outbox, open, consumed, recipient, agentCall, prompts, barred>>

\* consume(): the entry of a delivery that ended is marked, once.
Consume(i) ==
  /\ recipient # "down" /\ inbox[i] \in Ended /\ i \notin consumed
  /\ consumed' = consumed \cup {i}
  /\ UNCHANGED <<outbox, open, inbox, kept, recipient, scheduled, agentCall, prompts,
                 barred, envelopes, acks, disruptions>>

-----------------------------------------------------------------------------
(* scheduleAdmission(): one id after the other                             *)

OnlyOne == \A k \in Ids : agentCall[k] = "idle"

\* The service was closed meanwhile, or the entry is not one to admit any more.
SkipAdmission(i) ==
  /\ i \in scheduled /\ OnlyOne
  /\ recipient # "open" \/ inbox[i] # "accepted"
  /\ scheduled' = scheduled \ {i}
  /\ UNCHANGED <<outbox, open, inbox, kept, consumed, recipient, agentCall, prompts,
                 barred, envelopes, acks, disruptions>>

BeginAdmission(i) ==
  /\ i \in scheduled /\ OnlyOne /\ recipient = "open" /\ inbox[i] = "accepted"
  /\ inbox' = [inbox EXCEPT ![i] = "admitting"]
  /\ acks' = acks \cup {Ack(kept[i], "admitting")}
  /\ agentCall' = [agentCall EXCEPT ![i] = "called"]
  /\ UNCHANGED <<outbox, open, kept, consumed, recipient, scheduled, prompts,
                 barred, envelopes, disruptions>>

\* The write fails, or the acknowledgement after it throws: then the entry is
\* handed to recovery although the agent was never asked, or, if that cannot be
\* written, stays as it is.
AdmissionNotBegun(i) ==
  /\ i \in scheduled /\ OnlyOne /\ recipient = "open" /\ inbox[i] = "accepted"
  /\ scheduled' = scheduled \ {i}
  /\ \/ Disrupted /\ UNCHANGED <<inbox, acks>>
     \/ /\ Disrupted
        /\ inbox' = [inbox EXCEPT ![i] = "recovery_required"]
        /\ acks' = acks \cup {Ack(kept[i], "recovery_required")}
     \/ /\ DisruptedTwice
        /\ inbox' = [inbox EXCEPT ![i] = "admitting"] /\ UNCHANGED acks
  /\ UNCHANGED <<outbox, open, kept, consumed, recipient, agentCall, prompts, barred, envelopes>>

\* The agent admits the prompt; its answer is still to come.
AgentPrompted(i) ==
  /\ agentCall[i] = "called"
  /\ agentCall' = [agentCall EXCEPT ![i] = "prompted"]
  /\ prompts' = [prompts EXCEPT ![i] = @ + 1]
  /\ UNCHANGED <<outbox, open, inbox, kept, consumed, recipient, scheduled,
                 barred, envelopes, acks, disruptions>>

\* Faulty variant of Recorded: the acknowledgement goes out before the write.
RecordedLate(i, state) ==
  \/ /\ inbox' = [inbox EXCEPT ![i] = state]
     /\ acks' = acks \cup {Ack(kept[i], state)}
     /\ UNCHANGED disruptions
  \/ /\ Disrupted
     /\ inbox' = [inbox EXCEPT ![i] = "recovery_required"]
     /\ acks' = acks \cup {Ack(kept[i], state)}

\* The outcome is written and acknowledged.  If the write fails, recovery is
\* written instead; if that fails as well, the entry stays as it is.
Recorded(i, state) ==
  \/ /\ inbox' = [inbox EXCEPT ![i] = state]
     /\ acks' = acks \cup {Ack(kept[i], state)}
     /\ UNCHANGED disruptions
  \/ /\ Disrupted
     /\ inbox' = [inbox EXCEPT ![i] = "recovery_required"]
     /\ acks' = acks \cup {Ack(kept[i], "recovery_required")}
  \/ DisruptedTwice /\ UNCHANGED <<inbox, acks>>

\* admitPrompt() returns, or throws whether or not the agent has the prompt.
AdmissionEnds(i) ==
  /\ \/ agentCall[i] = "prompted" /\ Recorded(i, "admitted")
     \/ agentCall[i] # "idle" /\ Recorded(i, "recovery_required")
  /\ agentCall' = [agentCall EXCEPT ![i] = "idle"]
  /\ scheduled' = scheduled \ {i}
  /\ UNCHANGED <<outbox, open, kept, consumed, recipient, prompts, barred, envelopes>>

-----------------------------------------------------------------------------
(* The recipient's service                                                 *)

\* close() lets the admission in progress end.
RecipientCloses ==
  /\ recipient = "open" /\ Disrupted
  /\ recipient' = "closing"
  /\ UNCHANGED <<outbox, open, inbox, kept, consumed, scheduled, agentCall, prompts,
                 barred, envelopes, acks>>

RecipientClosed ==
  /\ recipient = "closing" /\ scheduled = {}
  /\ recipient' = "down"
  /\ UNCHANGED <<outbox, open, inbox, kept, consumed, scheduled, agentCall, prompts,
                 barred, envelopes, acks, disruptions>>

RecipientDies ==
  /\ recipient # "down" /\ Disrupted
  /\ recipient' = "down" /\ scheduled' = {} /\ agentCall' = [i \in Ids |-> "idle"]
  /\ UNCHANGED <<outbox, open, inbox, kept, consumed, prompts, barred, envelopes, acks>>

\* Faulty variant of AfterRestart: an interrupted admission is tried again.
AfterRestartReplayed(state) == IF state = "admitting" THEN "accepted" ELSE state

\* Nobody knows whether an interrupted admission reached the agent.
AfterRestart(state) == IF state = "admitting" THEN "recovery_required" ELSE state

\* createSessionDeliveryService()
RecipientStarts ==
  /\ recipient = "down"
  /\ recipient' = "open"
  /\ inbox' = [i \in Ids |-> AfterRestart(inbox[i])]
  /\ acks' = acks \cup {Ack(kept[i], "recovery_required") :
                          i \in {k \in Ids : inbox'[k] = "recovery_required"}}
  /\ scheduled' = {i \in Ids : inbox'[i] = "accepted"}
  /\ UNCHANGED <<outbox, open, kept, consumed, agentCall, prompts, barred, envelopes, disruptions>>

-----------------------------------------------------------------------------
(* Around the two services                                                 *)

\* The recipient's end was not ready, the request failed, or the recipient drops
\* the envelope.
LoseEnvelope(e) ==
  /\ e \in envelopes
  /\ envelopes' = envelopes \ {e}
  /\ UNCHANGED <<inboxVars, outbox, open, barred, acks, disruptions>>

LoseAck(a) ==
  /\ a \in acks
  /\ acks' = acks \ {a}
  /\ UNCHANGED <<inboxVars, outbox, open, barred, envelopes, disruptions>>

\* authorizePeer() no longer holds for an envelope.
Revoke(e) ==
  /\ e \notin barred /\ Disrupted
  /\ barred' = barred \cup {e}
  /\ UNCHANGED <<inboxVars, outbox, open, envelopes, acks>>

AdmissionStep ==
  \E i \in Ids : \/ SkipAdmission(i) \/ BeginAdmission(i) \/ AdmissionNotBegun(i)
                 \/ AgentPrompted(i) \/ AdmissionEnds(i)

DeliveryNext ==
  \/ \E e \in Envelopes : Deliver(e) \/ ReceiveEnvelope(e) \/ LoseEnvelope(e) \/ Revoke(e)
  \/ \E s \in Senders : Republish(s) \/ SenderEnds(s) \/ SenderStarts(s)
  \/ \E a \in acks : ReceiveAck(a) \/ LoseAck(a)
  \/ \E i \in Ids : Consume(i)
  \/ AdmissionStep
  \/ RecipientCloses \/ RecipientClosed \/ RecipientDies \/ RecipientStarts

\* The timer fires, the admission queue goes on and admitPrompt() returns, a
\* service that ended is started again, and a publication repeated for ever is
\* received in the end.
DeliveryFair ==
  /\ \A s \in Senders : WF_deliveryVars(Republish(s)) /\ WF_deliveryVars(SenderStarts(s))
  /\ \A e \in Envelopes :
       /\ SF_deliveryVars(ReceiveEnvelope(e))
       /\ SF_deliveryVars(\E state \in Ended : ReceiveAck(Ack(e, state)))
  /\ WF_deliveryVars(AdmissionStep)
  /\ WF_deliveryVars(RecipientClosed) /\ WF_deliveryVars(RecipientStarts)

DeliverySpec == DeliveryInit /\ [][DeliveryNext]_deliveryVars

-----------------------------------------------------------------------------
(* Properties                                                              *)

DeliveryTypeOK ==
  /\ outbox \in [Envelopes -> {"absent", "queued"} \cup InboxStates] /\ open \subseteq Senders
  /\ inbox \in [Ids -> {"none"} \cup InboxStates] /\ kept \in [Ids -> Envelopes \cup {NoEnvelope}]
  /\ consumed \subseteq Ids /\ recipient \in {"open", "closing", "down"} /\ scheduled \subseteq Ids
  /\ agentCall \in [Ids -> {"idle", "called", "prompted"}] /\ prompts \in [Ids -> Nat]
  /\ barred \subseteq Envelopes /\ envelopes \subseteq Envelopes /\ acks \subseteq Acks
  /\ disruptions \in Nat

\* However often an envelope is published, whatever fails and whoever is killed,
\* the agent admits the prompt of one delivery id once: an interrupted admission
\* is never replayed (README.md of doompi-session, line 5).
PromptedOnce == \A i \in Ids : prompts[i] <= 1

Rank(state) == CASE state = "accepted" -> 1 [] state = "admitting" -> 2 [] OTHER -> 3

\* What the outbox of a sender says is true of its own envelope: the recipient
\* keeps it and is at least that far, an outcome is the inbox's outcome for good,
\* and a prompt told to be admitted was admitted.
OutboxTells ==
  \A e \in Envelopes : outbox[e] \in InboxStates =>
    LET i == DeliveryId[e] IN
    /\ kept[i] = e /\ inbox[i] # "none" /\ Rank(outbox[e]) <= Rank(inbox[i])
    /\ outbox[e] \in Ended => inbox[i] = outbox[e]
    /\ outbox[e] = "admitted" => prompts[i] = 1

\* An admission whose outcome could not be written waits for a restart.
Stranded(i) == inbox[i] = "admitting" /\ i \notin scheduled /\ recipient = "open"

\* The sender of a delivery learns how it ended, unless it lost its grant, another
\* sender holds the id, or the recipient could not write the outcome.
DeliverySettles ==
  \A e \in Envelopes :
    <>[](\/ outbox[e] \in {"absent"} \cup Ended
         \/ e \in barred
         \/ kept[DeliveryId[e]] \notin {NoEnvelope, e}
         \/ Stranded(DeliveryId[e]))
=============================================================================
