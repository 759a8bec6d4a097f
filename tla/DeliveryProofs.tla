--------------------------- MODULE DeliveryProofs ---------------------------
(***************************************************************************)
(* What is handed to an agent is handed to it once, and what is said about *)
(* it is true: requests with their receipts, for any number of attempts,   *)
(* addresses, texts, crashes and failed commits, and messages between      *)
(* sessions, for any envelopes, senders, ids and number of disruptions.    *)
(***************************************************************************)
EXTENDS RequestReceipts, SessionDelivery, FiniteSetTheorems, TLAPS

-----------------------------------------------------------------------------
(* Request receipts                                                        *)

\* The inductive invariant of the receipts.
ReceiptsInv == ReceiptsTypeOK /\ HolderInv /\ ReceiptTruth /\ SubmittedIsAdmitted

\* The step a receipt may take.
FinalStep ==
  \A a \in Addresses :
    receipts[a] # Unreserved /\ receipts[a].outcome # "reserved" => receipts'[a] = receipts[a]

StepKeeps == ReceiptsInv' /\ FinalStep

LEMMA AddressType == \A t \in Attempts : Address[t] \in Addresses
BY DEF Addresses

LEMMA ReservationType ==
  \A t \in Attempts : Reservation(t) \in Receipt /\ Reservation(t) # Unreserved
BY UnreservedAssumption DEF Reservation, Receipt, Terminal

\* What a finish that is applied writes.
LEMMA FinishedFacts ==
  ASSUME ReceiptsInv, NEW t \in Attempts, stage[t] = "finishing", MayFinish(t)
  PROVE  /\ Finished(t) \in [Addresses -> Receipt \cup {Unreserved}]
         /\ \A a \in Addresses : a # Address[t] => Finished(t)[a] = receipts[a]
         /\ Finished(t)[Address[t]] # Unreserved
         /\ Finished(t)[Address[t]].token = t /\ Finished(t)[Address[t]].content = Content[t]
         /\ Finished(t)[Address[t]].outcome = OutcomeOf(reply[t])
<1>1. Address[t] \in Addresses /\ receipts \in [Addresses -> Receipt \cup {Unreserved}]
  BY AddressType DEF ReceiptsInv, ReceiptsTypeOK
<1>2. receipts[Address[t]] \in Receipt
  BY <1>1 DEF MayFinish
<1>3. OutcomeOf(reply[t]) \in Terminal \cup {"reserved"}
  BY DEF ReceiptsInv, HolderInv, OutcomeOf, Terminal
<1>4. [receipts[Address[t]] EXCEPT !.outcome = OutcomeOf(reply[t])] \in Receipt
  BY <1>2, <1>3 DEF Receipt
<1>5. Finished(t)[Address[t]] = [receipts[Address[t]] EXCEPT !.outcome = OutcomeOf(reply[t])]
  BY <1>1 DEF Finished
<1>6. Finished(t) \in [Addresses -> Receipt \cup {Unreserved}]
  BY <1>1, <1>4 DEF Finished
<1>7. \A a \in Addresses : a # Address[t] => Finished(t)[a] = receipts[a]
  BY <1>1 DEF Finished
<1>8. /\ [receipts[Address[t]] EXCEPT !.outcome = OutcomeOf(reply[t])].token = receipts[Address[t]].token
      /\ [receipts[Address[t]] EXCEPT !.outcome = OutcomeOf(reply[t])].content = receipts[Address[t]].content
      /\ [receipts[Address[t]] EXCEPT !.outcome = OutcomeOf(reply[t])].outcome = OutcomeOf(reply[t])
  BY <1>2 DEF Receipt
<1>9. receipts[Address[t]].token = t /\ receipts[Address[t]].content = Content[t]
  BY DEF ReceiptsInv, HolderInv
<1> QED BY <1>4, <1>5, <1>6, <1>7, <1>8, <1>9, UnreservedAssumption

\* stage' and reply' of a step that answers, or moves one attempt on.
LEMMA ProceedFacts ==
  ASSUME ReceiptsTypeOK, NEW t \in Attempts, NEW l, NEW r, Proceed(t, l, r)
  PROVE  \A u \in Attempts : /\ stage'[u] = IF u = t THEN l ELSE stage[u]
                             /\ reply'[u] = IF u = t THEN r ELSE reply[u]
BY DEF Proceed, ReceiptsTypeOK

LEMMA AnswerFacts ==
  ASSUME ReceiptsTypeOK, NEW t \in Attempts, NEW r, Answer(t, r)
  PROVE  \A u \in Attempts : /\ stage'[u] = IF u = t THEN "answered" ELSE stage[u]
                             /\ reply'[u] = IF u = t THEN r ELSE reply[u]
BY DEF Answer, ReceiptsTypeOK

\* Types of stage and reply after such a step.
LEMMA ProceedTypes ==
  ASSUME ReceiptsTypeOK, NEW t \in Attempts,
         NEW l \in {"idle", "reserved", "finishing", "answered"},
         NEW r \in {"none", "submitted", "conflict", "error", "rejected", "uncertain"},
         Proceed(t, l, r)
  PROVE  /\ stage' \in [Attempts -> {"idle", "reserved", "finishing", "answered"}]
         /\ reply' \in [Attempts -> {"none", "submitted", "conflict", "error", "rejected", "uncertain"}]
BY DEF Proceed, ReceiptsTypeOK

LEMMA AnswerIsProceed ==
  ASSUME NEW t, NEW r, Answer(t, r) PROVE Proceed(t, "answered", r)
BY DEF Answer, Proceed

\* A step that leaves receipts and admissions alone and answers an attempt, with
\* "submitted" only if that is so.
LEMMA AnswerKeeps ==
  ASSUME ReceiptsInv, NEW t \in Attempts,
         NEW r \in {"none", "submitted", "conflict", "error", "rejected", "uncertain"},
         Answer(t, r), receipts' = receipts, admissions' = admissions,
         storage' \in {"open", "closed"}, faults' \in Nat,
         r = "submitted" => \E u \in Attempts : <<u, Content[t]>> \in admissions[Address[t]]
  PROVE  StepKeeps
<1>1. \A u \in Attempts : /\ stage'[u] = IF u = t THEN "answered" ELSE stage[u]
                          /\ reply'[u] = IF u = t THEN r ELSE reply[u]
  BY AnswerFacts DEF ReceiptsInv
<1>2. ReceiptsTypeOK'
  BY AnswerIsProceed, ProceedTypes DEF ReceiptsInv, ReceiptsTypeOK
<1>3. HolderInv'
  BY <1>1 DEF ReceiptsInv, HolderInv
<1>4. ReceiptTruth' /\ FinalStep
  BY DEF ReceiptsInv, ReceiptTruth, FinalStep
<1>5. SubmittedIsAdmitted'
  BY <1>1 DEF ReceiptsInv, SubmittedIsAdmitted
<1> QED BY <1>2, <1>3, <1>4, <1>5 DEF ReceiptsInv, StepKeeps

\* A step that reserves the free address of t, and may or may not tell it so.
LEMMA ReservedKeeps ==
  ASSUME ReceiptsInv, NEW t \in Attempts, stage[t] = "idle",
         receipts[Address[t]] = Unreserved,
         receipts' = [receipts EXCEPT ![Address[t]] = Reservation(t)],
         Proceed(t, "reserved", "none") \/ Answer(t, "error"),
         admissions' = admissions, storage' = storage, faults' \in Nat
  PROVE  StepKeeps
<1> DEFINE a == Address[t]
<1>1. /\ a \in Addresses /\ receipts \in [Addresses -> Receipt \cup {Unreserved}]
      /\ admissions[a] = {}
  BY AddressType DEF ReceiptsInv, ReceiptsTypeOK, ReceiptTruth
<1>2. /\ Reservation(t) \in Receipt /\ Reservation(t) # Unreserved
      /\ Reservation(t).token = t /\ Reservation(t).content = Content[t]
      /\ Reservation(t).outcome = "reserved"
  BY ReservationType DEF Reservation
<1>3. \A b \in Addresses : receipts'[b] = IF b = a THEN Reservation(t) ELSE receipts[b]
  BY <1>1
<1>4. PICK l \in {"reserved", "answered"}, r \in {"none", "error"} : Proceed(t, l, r)
  BY AnswerIsProceed
<1>5. \A u \in Attempts : /\ stage'[u] = IF u = t THEN l ELSE stage[u]
                          /\ reply'[u] = IF u = t THEN r ELSE reply[u]
  BY <1>4, ProceedFacts DEF ReceiptsInv
<1>6. ReceiptsTypeOK'
  <2>1. receipts' \in [Addresses -> Receipt \cup {Unreserved}]
    BY <1>1, <1>2
  <2> QED BY <1>4, <2>1, ProceedTypes DEF ReceiptsInv, ReceiptsTypeOK
<1>7. HolderInv'
  <2>1. \A u \in Attempts : Address[u] \in Addresses
    BY AddressType
  <2>2. \A u \in Attempts : u # t /\ stage[u] \in {"reserved", "finishing"} => Address[u] # a
    BY DEF ReceiptsInv, HolderInv
  <2> HIDE DEF a
  <2>3. admissions' = admissions
    OBVIOUS
  <2>4. \A b \in Addresses : \A e \in admissions[b] : b # a
    BY <1>1
  <2>5. ASSUME NEW u \in Attempts, stage'[u] \in {"reserved", "finishing"}
        PROVE  /\ receipts'[Address[u]] # Unreserved
               /\ receipts'[Address[u]].token = u /\ receipts'[Address[u]].content = Content[u]
               /\ stage'[u] = "reserved" =>
                    receipts'[Address[u]].outcome = "reserved" /\ admissions'[Address[u]] = {}
               /\ stage'[u] = "finishing" =>
                    /\ reply'[u] \in {"submitted", "rejected", "uncertain"}
                    /\ reply'[u] = "submitted" => <<u, Content[u]>> \in admissions'[Address[u]]
                    /\ reply'[u] = "rejected" => admissions'[Address[u]] = {}
    <3>1. CASE u = t
      <4>1. receipts'[Address[u]] = Reservation(t)
        BY <1>1, <1>3, <3>1 DEF a
      <4>2. stage'[u] # "finishing" /\ admissions'[Address[u]] = {}
        BY <1>1, <1>5, <2>3, <3>1 DEF a
      <4> QED BY <1>2, <3>1, <4>1, <4>2
    <3>2. CASE u # t
      <4>1. stage'[u] = stage[u] /\ reply'[u] = reply[u]
        BY <1>5, <3>2
      <4>2. receipts'[Address[u]] = receipts[Address[u]]
        BY <1>3, <2>1, <2>2, <2>5, <3>2, <4>1
      <4> QED BY <2>3, <2>5, <4>1, <4>2, SMTT(20) DEF ReceiptsInv, HolderInv
    <3> QED BY <3>1, <3>2
  <2>6. \A b \in Addresses : \A e \in admissions'[b] :
          receipts'[b] # Unreserved /\ e = <<receipts'[b].token, receipts'[b].content>>
    BY <1>3, <2>3, <2>4 DEF ReceiptsInv, HolderInv
  <2> QED BY <2>5, <2>6 DEF HolderInv
<1>8. ReceiptTruth'
  BY <1>1, <1>2, <1>3 DEF ReceiptsInv, ReceiptTruth
<1>9. SubmittedIsAdmitted'
  BY <1>5 DEF ReceiptsInv, SubmittedIsAdmitted
<1>10. FinalStep
  BY <1>3 DEF FinalStep
<1> QED BY <1>6, <1>7, <1>8, <1>9, <1>10 DEF ReceiptsInv, StepKeeps

LEMMA ReserveStep ==
  ASSUME ReceiptsInv, NEW t \in Attempts, Reserve(t)
  PROVE  StepKeeps
<1>1. CASE receipts[Address[t]] = Unreserved
  BY <1>1, ReservedKeeps DEF Reserve, ReceiptsInv, ReceiptsTypeOK
<1>2. CASE receipts[Address[t]] # Unreserved
  <2>1. Existing(t) \in {"none", "submitted", "conflict", "error", "rejected", "uncertain"}
    BY DEF Existing
  <2>2. ASSUME Existing(t) = "submitted"
        PROVE  \E u \in Attempts : <<u, Content[t]>> \in admissions[Address[t]]
    <3>1. /\ receipts[Address[t]].content = Content[t]
          /\ receipts[Address[t]].outcome = "admitted"
      BY <2>2 DEF Existing
    <3>2. Address[t] \in Addresses
      BY AddressType
    <3>3. receipts[Address[t]].token \in Attempts
      BY <1>2, <3>2 DEF ReceiptsInv, ReceiptsTypeOK, Receipt
    <3> QED BY <1>2, <3>1, <3>2, <3>3 DEF ReceiptsInv, ReceiptTruth
  <2> QED BY <1>2, <2>1, <2>2, AnswerKeeps DEF Reserve, ReceiptsInv, ReceiptsTypeOK
<1> QED BY <1>1, <1>2

LEMMA ReserveFailsStep ==
  ASSUME ReceiptsInv, NEW t \in Attempts, ReserveFails(t)
  PROVE  StepKeeps
<1>1. storage \in {"open", "closed"} /\ storage' = storage /\ faults' \in Nat
  BY DEF ReserveFails, Fault, ReceiptsInv, ReceiptsTypeOK
<1>2. CASE receipts' = receipts
  BY <1>1, <1>2, AnswerKeeps DEF ReserveFails
<1>3. CASE /\ receipts[Address[t]] = Unreserved
           /\ receipts' = [receipts EXCEPT ![Address[t]] = Reservation(t)]
  BY <1>1, <1>3, ReservedKeeps DEF ReserveFails
<1> QED BY <1>2, <1>3 DEF ReserveFails

\* An attempt that holds a reservation moves on to finish, with or without having
\* been admitted.
LEMMA AskedKeeps ==
  ASSUME ReceiptsInv, NEW t \in Attempts, stage[t] = "reserved",
         NEW r \in {"submitted", "rejected", "uncertain"}, Proceed(t, "finishing", r),
         \/ admissions' = admissions /\ r # "submitted"
         \/ /\ admissions' = [admissions EXCEPT ![Address[t]] = @ \cup {<<t, Content[t]>>}]
            /\ r # "rejected",
         receipts' = receipts, storage' = storage, faults' = faults
  PROVE  StepKeeps
<1> DEFINE a == Address[t]
<1>1. /\ a \in Addresses /\ receipts[a] # Unreserved /\ admissions[a] = {}
      /\ receipts[a].token = t /\ receipts[a].content = Content[t]
      /\ receipts[a].outcome = "reserved"
  BY AddressType DEF ReceiptsInv, HolderInv
<1>2. \A u \in Attempts : /\ stage'[u] = IF u = t THEN "finishing" ELSE stage[u]
                          /\ reply'[u] = IF u = t THEN r ELSE reply[u]
  BY ProceedFacts DEF ReceiptsInv
<1>3. \A b \in Addresses : b # a => admissions'[b] = admissions[b]
  BY DEF ReceiptsInv, ReceiptsTypeOK
<1>4. /\ admissions'[a] \in {{}, {<<t, Content[t]>>}}
      /\ r = "submitted" => admissions'[a] = {<<t, Content[t]>>}
      /\ r = "rejected" => admissions'[a] = {}
  BY <1>1 DEF ReceiptsInv, ReceiptsTypeOK
<1>5. ReceiptsTypeOK'
  <2>1. admissions' \in [Addresses -> SUBSET (Attempts \X {Content[u] : u \in Attempts})]
    <3>1. <<t, Content[t]>> \in Attempts \X {Content[u] : u \in Attempts}
      OBVIOUS
    <3> QED BY <3>1 DEF ReceiptsInv, ReceiptsTypeOK
  <2> QED BY <2>1, ProceedTypes DEF ReceiptsInv, ReceiptsTypeOK
<1>6. \A u \in Attempts : u # t /\ stage[u] \in {"reserved", "finishing"} => Address[u] # a
  BY <1>1 DEF ReceiptsInv, HolderInv
<1>7. \A u \in Attempts : Address[u] \in Addresses
  BY AddressType
<1> HIDE DEF a
<1>8. HolderInv'
  <2>1. ASSUME NEW u \in Attempts, stage'[u] \in {"reserved", "finishing"}
        PROVE  /\ receipts[Address[u]] # Unreserved
               /\ receipts[Address[u]].token = u /\ receipts[Address[u]].content = Content[u]
               /\ stage'[u] = "reserved" =>
                    receipts[Address[u]].outcome = "reserved" /\ admissions'[Address[u]] = {}
               /\ stage'[u] = "finishing" =>
                    /\ reply'[u] \in {"submitted", "rejected", "uncertain"}
                    /\ reply'[u] = "submitted" => <<u, Content[u]>> \in admissions'[Address[u]]
                    /\ reply'[u] = "rejected" => admissions'[Address[u]] = {}
    <3>1. CASE u = t
      BY <1>1, <1>2, <1>4, <3>1 DEF a
    <3>2. CASE u # t
      <4>1. stage'[u] = stage[u] /\ reply'[u] = reply[u]
        BY <1>2, <3>2
      <4>2. admissions'[Address[u]] = admissions[Address[u]]
        BY <1>3, <1>6, <1>7, <2>1, <3>2, <4>1
      <4> QED BY <2>1, <4>1, <4>2 DEF ReceiptsInv, HolderInv
    <3> QED BY <3>1, <3>2
  <2>2. \A b \in Addresses : \A e \in admissions'[b] :
          receipts[b] # Unreserved /\ e = <<receipts[b].token, receipts[b].content>>
    BY <1>1, <1>3, <1>4 DEF ReceiptsInv, HolderInv
  <2> QED BY <2>1, <2>2 DEF HolderInv
<1>9. ReceiptTruth'
  BY <1>1, <1>3 DEF ReceiptsInv, ReceiptTruth
<1>10. SubmittedIsAdmitted'
  <2>1. \A b \in Addresses : admissions[b] \subseteq admissions'[b]
    BY <1>1, <1>3
  <2> QED BY <1>2, <1>7, <2>1 DEF ReceiptsInv, SubmittedIsAdmitted
<1>11. FinalStep
  BY DEF FinalStep
<1> QED BY <1>5, <1>8, <1>9, <1>10, <1>11 DEF ReceiptsInv, StepKeeps

LEMMA AgentStep ==
  ASSUME ReceiptsInv, NEW t \in Attempts, RouteLost(t) \/ AgentAdmits(t) \/ AgentRefuses(t)
  PROVE  StepKeeps
<1>1. CASE RouteLost(t)
  BY <1>1, AskedKeeps DEF RouteLost
<1>2. CASE AgentAdmits(t)
  BY <1>2, AskedKeeps DEF AgentAdmits
<1>3. CASE AgentRefuses(t)
  BY <1>3, AskedKeeps DEF AgentRefuses
<1> QED BY <1>1, <1>2, <1>3

\* A finish that is applied, whatever its caller is told: an answer, or a failure
\* after which it tries "uncertain".
LEMMA AppliedKeeps ==
  ASSUME ReceiptsInv, NEW t \in Attempts, stage[t] = "finishing", MayFinish(t),
         receipts' = Finished(t),
         NEW l \in {"finishing", "answered"}, NEW r \in {"submitted", "rejected", "uncertain", "error"},
         Proceed(t, l, r), l = "finishing" => r = "uncertain", r = "submitted" => reply[t] = "submitted",
         admissions' = admissions, storage' = storage, faults' \in Nat
  PROVE  StepKeeps
<1> DEFINE a == Address[t]
<1>1. /\ a \in Addresses /\ receipts[a] # Unreserved
      /\ receipts[a].token = t /\ receipts[a].content = Content[t]
      /\ receipts[a].outcome = "reserved"
  BY AddressType DEF ReceiptsInv, HolderInv, MayFinish
<1>2. /\ Finished(t) \in [Addresses -> Receipt \cup {Unreserved}]
      /\ \A b \in Addresses : b # a => receipts'[b] = receipts[b]
      /\ receipts'[a] # Unreserved
      /\ receipts'[a].token = t /\ receipts'[a].content = Content[t]
      /\ receipts'[a].outcome = OutcomeOf(reply[t])
  BY FinishedFacts
<1>3. \A u \in Attempts : /\ stage'[u] = IF u = t THEN l ELSE stage[u]
                          /\ reply'[u] = IF u = t THEN r ELSE reply[u]
  BY ProceedFacts DEF ReceiptsInv
<1>4. /\ reply[t] \in {"submitted", "rejected", "uncertain"}
      /\ reply[t] = "submitted" => <<t, Content[t]>> \in admissions[a]
      /\ reply[t] = "rejected" => admissions[a] = {}
  BY DEF ReceiptsInv, HolderInv
<1>5. ReceiptsTypeOK'
  BY <1>2, ProceedTypes DEF ReceiptsInv, ReceiptsTypeOK
<1>6. \A u \in Attempts : u # t /\ stage[u] \in {"reserved", "finishing"} => Address[u] # a
  BY <1>1 DEF ReceiptsInv, HolderInv
<1>7. \A u \in Attempts : Address[u] \in Addresses
  BY AddressType
<1> HIDE DEF a
<1>8. HolderInv'
  <2>1. ASSUME NEW u \in Attempts, stage'[u] \in {"reserved", "finishing"}
        PROVE  /\ receipts'[Address[u]] # Unreserved
               /\ receipts'[Address[u]].token = u /\ receipts'[Address[u]].content = Content[u]
               /\ stage'[u] = "reserved" =>
                    receipts'[Address[u]].outcome = "reserved" /\ admissions[Address[u]] = {}
               /\ stage'[u] = "finishing" =>
                    /\ reply'[u] \in {"submitted", "rejected", "uncertain"}
                    /\ reply'[u] = "submitted" => <<u, Content[u]>> \in admissions[Address[u]]
                    /\ reply'[u] = "rejected" => admissions[Address[u]] = {}
    <3>1. CASE u = t
      BY <1>2, <1>3, <2>1, <3>1 DEF a
    <3>2. CASE u # t
      <4>1. stage'[u] = stage[u] /\ reply'[u] = reply[u]
        BY <1>3, <3>2
      <4>2. receipts'[Address[u]] = receipts[Address[u]]
        BY <1>2, <1>6, <1>7, <2>1, <3>2, <4>1
      <4> QED BY <2>1, <4>1, <4>2 DEF ReceiptsInv, HolderInv
    <3> QED BY <3>1, <3>2
  <2>2. \A b \in Addresses : \A e \in admissions[b] :
          receipts'[b] # Unreserved /\ e = <<receipts'[b].token, receipts'[b].content>>
    <3> SUFFICES ASSUME NEW b \in Addresses, NEW e \in admissions[b]
                 PROVE  receipts'[b] # Unreserved /\ e = <<receipts'[b].token, receipts'[b].content>>
      OBVIOUS
    <3>1. receipts[b] # Unreserved /\ e = <<receipts[b].token, receipts[b].content>>
      BY DEF ReceiptsInv, HolderInv
    <3>2. CASE b = a
      BY <1>1, <1>2, <3>1, <3>2
    <3>3. CASE b # a
      BY <1>2, <3>1, <3>3
    <3> QED BY <3>2, <3>3
  <2> QED BY <2>1, <2>2 DEF HolderInv
<1>9. ReceiptTruth'
  <2> SUFFICES ASSUME NEW b \in Addresses
               PROVE  IF receipts'[b] = Unreserved THEN admissions[b] = {}
                      ELSE /\ receipts'[b].outcome = "rejected" => admissions[b] = {}
                           /\ receipts'[b].outcome = "admitted"
                                => <<receipts'[b].token, receipts'[b].content>> \in admissions[b]
    BY DEF ReceiptTruth
  <2>1. CASE b = a
    BY <1>2, <1>4, <2>1 DEF OutcomeOf
  <2>2. CASE b # a
    BY <1>2, <2>2 DEF ReceiptsInv, ReceiptTruth
  <2> QED BY <2>1, <2>2
<1>10. SubmittedIsAdmitted'
  <2> SUFFICES ASSUME NEW u \in Attempts, stage'[u] = "answered", reply'[u] = "submitted"
               PROVE  \E w \in Attempts : <<w, Content[u]>> \in admissions[Address[u]]
    BY DEF SubmittedIsAdmitted
  <2>1. CASE u = t
    BY <1>3, <1>4, <2>1 DEF a
  <2>2. CASE u # t
    BY <1>3, <2>2 DEF ReceiptsInv, SubmittedIsAdmitted
  <2> QED BY <2>1, <2>2
<1>11. FinalStep
  BY <1>1, <1>2 DEF FinalStep
<1> QED BY <1>5, <1>8, <1>9, <1>10, <1>11 DEF ReceiptsInv, StepKeeps

LEMMA FinishStep ==
  ASSUME ReceiptsInv, NEW t \in Attempts, Finish(t)
  PROVE  StepKeeps
<1>1. PICK r \in {"submitted", "rejected", "uncertain"} :
        Proceed(t, "answered", r) /\ (r = "submitted" => reply[t] = "submitted")
  <2>1. reply[t] \in {"submitted", "rejected", "uncertain"}
    BY DEF Finish, ReceiptsInv, HolderInv
  <2> QED BY <2>1 DEF Finish, Answer, Proceed
<1>2. /\ stage[t] = "finishing" /\ MayFinish(t) /\ receipts' = Finished(t)
      /\ admissions' = admissions /\ storage' = storage /\ faults' \in Nat
  BY DEF Finish, ReceiptsInv, ReceiptsTypeOK
<1> QED BY <1>1, <1>2, AppliedKeeps

LEMMA FinishFailsStep ==
  ASSUME ReceiptsInv, NEW t \in Attempts, FinishFails(t)
  PROVE  StepKeeps
<1>1. PICK l \in {"finishing", "answered"}, r \in {"uncertain", "error"} :
        Proceed(t, l, r) /\ (l = "finishing" => r = "uncertain")
  BY DEF FinishFails, Answer, Proceed
<1>2. /\ stage[t] = "finishing" /\ admissions' = admissions /\ storage' = storage
      /\ faults' \in Nat /\ storage \in {"open", "closed"}
  BY DEF FinishFails, FinishThrows, Fault, ReceiptsInv, ReceiptsTypeOK
<1>3. CASE MayFinish(t) /\ receipts' = Finished(t)
  BY <1>1, <1>2, <1>3, AppliedKeeps
<1>4. CASE receipts' = receipts
  <2>1. CASE l = "answered"
    <3>1. Answer(t, r)
      BY <1>1, <2>1 DEF Proceed, Answer
    <3> QED BY <1>2, <1>4, <3>1, AnswerKeeps
  <2>2. CASE l = "finishing"
    <3>1. \A u \in Attempts : /\ stage'[u] = stage[u]
                              /\ reply'[u] = IF u = t THEN "uncertain" ELSE reply[u]
      BY <1>1, <1>2, <2>2, ProceedFacts DEF ReceiptsInv
    <3>2. ReceiptsTypeOK'
      BY <1>1, <1>2, <1>4, ProceedTypes DEF ReceiptsInv, ReceiptsTypeOK
    <3>3. HolderInv'
      BY <1>2, <1>4, <3>1 DEF ReceiptsInv, HolderInv
    <3>4. ReceiptTruth' /\ SubmittedIsAdmitted' /\ FinalStep
      BY <1>2, <1>4, <3>1 DEF ReceiptsInv, ReceiptTruth, SubmittedIsAdmitted, FinalStep
    <3> QED BY <3>2, <3>3, <3>4 DEF ReceiptsInv, StepKeeps
  <2> QED BY <2>1, <2>2
<1> QED BY <1>3, <1>4 DEF FinishFails, FinishThrows

LEMMA CloseReceiptsStep ==
  ASSUME ReceiptsInv, CloseReceipts
  PROVE  StepKeeps
<1>1. ReceiptsTypeOK'
  BY DEF CloseReceipts, ReceiptsInv, ReceiptsTypeOK
<1>2. HolderInv' /\ ReceiptTruth' /\ SubmittedIsAdmitted' /\ FinalStep
  BY DEF CloseReceipts, ReceiptsInv, HolderInv, ReceiptTruth, SubmittedIsAdmitted, FinalStep
<1> QED BY <1>1, <1>2 DEF ReceiptsInv, StepKeeps

LEMMA RestartStep ==
  ASSUME ReceiptsInv, Restart
  PROVE  StepKeeps
<1>1. ReceiptsTypeOK'
  BY DEF Restart, ReceiptsInv, ReceiptsTypeOK
<1>2. \A t \in Attempts :
        /\ stage'[t] = IF stage[t] = "idle" THEN "idle" ELSE "answered"
        /\ reply'[t] = "submitted" => reply[t] = "submitted" /\ stage[t] \notin {"reserved", "finishing"}
  BY DEF Restart
<1>3. HolderInv' /\ ReceiptTruth' /\ FinalStep
  BY <1>2 DEF Restart, ReceiptsInv, HolderInv, ReceiptTruth, FinalStep
<1>4. SubmittedIsAdmitted'
  <2> SUFFICES ASSUME NEW t \in Attempts, stage'[t] = "answered", reply'[t] = "submitted"
               PROVE  \E u \in Attempts : <<u, Content[t]>> \in admissions[Address[t]]
    BY DEF Restart, SubmittedIsAdmitted
  <2>1. stage[t] = "answered" /\ reply[t] = "submitted"
    BY <1>2 DEF ReceiptsInv, ReceiptsTypeOK
  <2> QED BY <2>1 DEF ReceiptsInv, SubmittedIsAdmitted
<1> QED BY <1>1, <1>3, <1>4 DEF ReceiptsInv, StepKeeps

-----------------------------------------------------------------------------
LEMMA ReceiptsStep ==
  ASSUME ReceiptsInv, [ReceiptsNext]_receiptVars
  PROVE  StepKeeps
<1>1. CASE UNCHANGED receiptVars
  <2>1. ReceiptsTypeOK'
    BY <1>1 DEF receiptVars, ReceiptsInv, ReceiptsTypeOK
  <2>2. HolderInv' /\ ReceiptTruth' /\ SubmittedIsAdmitted' /\ FinalStep
    BY <1>1 DEF receiptVars, ReceiptsInv, HolderInv, ReceiptTruth, SubmittedIsAdmitted, FinalStep
  <2> QED BY <2>1, <2>2 DEF ReceiptsInv, StepKeeps
<1>2. CASE ReceiptsNext
  BY <1>2, ReserveStep, ReserveFailsStep, AgentStep, FinishStep, FinishFailsStep,
     CloseReceiptsStep, RestartStep DEF ReceiptsNext
<1> QED BY <1>1, <1>2

LEMMA ReceiptsStart == ReceiptsInit => ReceiptsInv
<1> SUFFICES ASSUME ReceiptsInit PROVE ReceiptsInv
  OBVIOUS
<1>1. ReceiptsTypeOK
  BY DEF ReceiptsInit, ReceiptsTypeOK
<1>2. HolderInv /\ ReceiptTruth /\ SubmittedIsAdmitted
  BY AddressType DEF ReceiptsInit, HolderInv, ReceiptTruth, SubmittedIsAdmitted
<1> QED BY <1>1, <1>2 DEF ReceiptsInv

LEMMA ReceiptsAlways == ReceiptsSpec => []ReceiptsInv
<1>1. ReceiptsInv /\ [ReceiptsNext]_receiptVars => ReceiptsInv'
  BY ReceiptsStep DEF StepKeeps
<1> QED BY <1>1, ReceiptsStart, PTL DEF ReceiptsSpec

LEMMA AtMostOneAdmission == ReceiptsInv => OneAdmission
<1> SUFFICES ASSUME ReceiptsInv, NEW a \in Addresses
             PROVE  Cardinality(admissions[a]) <= 1
  BY DEF OneAdmission
<1> DEFINE only == {<<receipts[a].token, receipts[a].content>>}
<1>1. admissions[a] \in SUBSET only
  BY DEF ReceiptsInv, HolderInv
<1>2. IsFiniteSet(only) /\ Cardinality(only) = 1
  BY FS_Singleton
<1>3. Cardinality(admissions[a]) <= Cardinality(only)
  BY <1>1, <1>2, FS_Subset
<1> QED BY <1>2, <1>3

\* No agent admits two requests of one address, for any number of attempts,
\* crashes, failed commits and lost answers.
THEOREM ReceiptsAdmitOnce == ReceiptsSpec => []OneAdmission
BY ReceiptsAlways, AtMostOneAdmission, PTL

\* Receipts tell the truth about what was admitted.
THEOREM ReceiptsTell == ReceiptsSpec => []ReceiptTruth
<1>1. ReceiptsInv => ReceiptTruth
  BY DEF ReceiptsInv
<1> QED BY <1>1, ReceiptsAlways, PTL

\* Whoever is told "submitted" had that request admitted.
THEOREM SubmittedTell == ReceiptsSpec => []SubmittedIsAdmitted
<1>1. ReceiptsInv => SubmittedIsAdmitted
  BY DEF ReceiptsInv
<1> QED BY <1>1, ReceiptsAlways, PTL

\* A finished receipt never changes again.
THEOREM ReceiptsFinal == ReceiptsSpec => OutcomesFinal
<1>1. ReceiptsInv /\ [ReceiptsNext]_receiptVars => [FinalStep]_receiptVars
  BY ReceiptsStep DEF StepKeeps
<1> QED BY <1>1, ReceiptsAlways, PTL DEF ReceiptsSpec, OutcomesFinal, FinalStep

-----------------------------------------------------------------------------
(* Messages between sessions                                               *)


\* What is said of the id i: the inbox is at least that far, an outcome is its
\* outcome, and a prompt said to be admitted was admitted.
Told(state, i) ==
  /\ inbox[i] # "none" /\ Rank(state) <= Rank(inbox[i])
  /\ state \in Ended => inbox[i] = state
  /\ state = "admitted" => prompts[i] = 1

\* An id of a sender is one envelope, and only what was delivered travels.
OutboxInv ==
  /\ \A e, f \in Envelopes :
       Sender[e] = Sender[f] /\ DeliveryId[e] = DeliveryId[f]
         /\ outbox[e] # "absent" /\ outbox[f] # "absent" => e = f
  /\ \A e \in envelopes : outbox[e] # "absent"

\* The inbox keeps an envelope under its own id, once it was delivered.
KeptInv ==
  \A i \in Ids :
    /\ kept[i] = NoEnvelope <=> inbox[i] = "none"
    /\ kept[i] # NoEnvelope => DeliveryId[kept[i]] = i /\ outbox[kept[i]] # "absent"
    /\ i \in scheduled => inbox[i] # "none"

\* How often the agent admitted the prompt follows from the entry and from the
\* admission in progress, except where recovery is required.
PromptInv ==
  \A i \in Ids :
    /\ agentCall[i] # "idle" => inbox[i] = "admitting" /\ i \in scheduled /\ recipient # "down"
    /\ inbox[i] \in {"none", "accepted"} \/ agentCall[i] = "called" => prompts[i] = 0
    /\ inbox[i] = "admitted" \/ agentCall[i] = "prompted" => prompts[i] = 1
    /\ prompts[i] <= 1

\* An acknowledgement on its way goes to the sender of the entry and is true.
AckInv ==
  \A a \in acks : /\ kept[a.id] # NoEnvelope /\ Sender[kept[a.id]] = a.to
                  /\ Told(a.state, a.id)

\* The inductive invariant of the messages.
DeliveryInv == DeliveryTypeOK /\ OutboxInv /\ KeptInv /\ PromptInv /\ AckInv /\ OutboxTells

-----------------------------------------------------------------------------
(* What a step may do                                                      *)

\* The inbox: an entry stays and goes on, an outcome is final.
EntriesAdvance ==
  \A i \in Ids : inbox[i] # "none" =>
    /\ kept'[i] = kept[i] /\ inbox'[i] # "none" /\ Rank(inbox[i]) <= Rank(inbox'[i])
    /\ inbox[i] \in Ended => inbox'[i] = inbox[i]
    /\ inbox[i] = "admitted" => prompts'[i] = prompts[i]

\* A new acknowledgement tells the state of an entry after the step.
NewAcksTell ==
  \A a \in acks' \ acks : \E i \in Ids : kept'[i] # NoEnvelope /\ a = Ack(kept'[i], inbox'[i])

\* The outbox: what is delivered is queued, what is acknowledged was told.
OutboxMoves ==
  \A e \in Envelopes :
    \/ outbox'[e] = outbox[e]
    \/ outbox[e] = "absent" /\ outbox'[e] = "queued"
    \/ outbox[e] # "absent" /\ \E a \in acks : a.to = Sender[e] /\ a.id = DeliveryId[e] /\ outbox'[e] = a.state

\* What one step of the recipient keeps.
InboxStep == /\ DeliveryTypeOK' /\ KeptInv' /\ PromptInv' /\ EntriesAdvance /\ NewAcksTell
             /\ outbox' = outbox /\ envelopes' \subseteq envelopes

LEMMA IdTypes ==
  \A e \in Envelopes : Sender[e] \in Senders /\ DeliveryId[e] \in Ids /\ e # NoEnvelope
BY NoEnvelopeAssumption DEF Senders, Ids

LEMMA AckTypes ==
  ASSUME NEW e \in Envelopes, NEW state \in InboxStates
  PROVE  /\ Ack(e, state) \in Acks
         /\ Ack(e, state).id = DeliveryId[e] /\ Ack(e, state).to = Sender[e]
         /\ Ack(e, state).state = state
BY IdTypes DEF Ack, Acks

LEMMA Ranks ==
  /\ Rank("accepted") = 1 /\ Rank("admitting") = 2
  /\ Rank("admitted") = 3 /\ Rank("recovery_required") = 3
BY DEF Rank

LEMMA RankTypes == \A state \in InboxStates : Rank(state) \in 1..3
BY Ranks DEF InboxStates, Ended

\* Of an entry: it came with an envelope that was delivered.
LEMMA EntryFacts ==
  ASSUME DeliveryInv, NEW i \in Ids, inbox[i] # "none"
  PROVE  /\ kept[i] \in Envelopes /\ DeliveryId[kept[i]] = i /\ inbox[i] \in InboxStates
         /\ outbox[kept[i]] # "absent"
BY DEF DeliveryInv, DeliveryTypeOK, KeptInv

-----------------------------------------------------------------------------
(* The recipient's steps                                                   *)

LEMMA DisruptedTypes ==
  ASSUME DeliveryTypeOK, Disrupted \/ DisruptedTwice PROVE disruptions' \in Nat
BY DEF DeliveryTypeOK, Disrupted, DisruptedTwice

LEMMA ReceiveStep ==
  ASSUME DeliveryInv, NEW e \in Envelopes, ReceiveEnvelope(e) PROVE InboxStep
<1> DEFINE i == DeliveryId[e]
<1>1. i \in Ids /\ e # NoEnvelope /\ outbox[e] # "absent"
  BY IdTypes DEF ReceiveEnvelope, DeliveryInv, OutboxInv
<1>2. /\ kept' = [kept EXCEPT ![i] = e] /\ kept[i] \in {NoEnvelope, e}
      /\ inbox' = [inbox EXCEPT ![i] = IF @ = "none" THEN "accepted" ELSE @]
      /\ \/ acks' = acks \cup {Ack(e, inbox'[i])} /\ disruptions' = disruptions
            /\ scheduled' = scheduled \cup (IF inbox'[i] = "accepted" THEN {i} ELSE {})
         \/ acks' = acks /\ scheduled' = scheduled /\ Disrupted
      /\ UNCHANGED <<outbox, open, consumed, recipient, agentCall, prompts, barred>>
      /\ envelopes' = envelopes \ {e}
  BY DEF ReceiveEnvelope
<1> HIDE DEF i
<1>3. DeliveryTypeOK
  BY DEF DeliveryInv
<1>4. /\ \A k \in Ids : kept'[k] = IF k = i THEN e ELSE kept[k]
      /\ \A k \in Ids : inbox'[k] = IF k = i /\ inbox[k] = "none" THEN "accepted" ELSE inbox[k]
      /\ kept' \in [Ids -> Envelopes \cup {NoEnvelope}]
      /\ inbox' \in [Ids -> {"none"} \cup InboxStates]
      /\ inbox'[i] \in InboxStates
  BY <1>1, <1>2, <1>3 DEF DeliveryTypeOK, InboxStates
<1>5. acks' \subseteq acks \cup {Ack(e, inbox'[i])}
  BY <1>2
<1>6. DeliveryTypeOK'
  <2>1. acks' \subseteq Acks
    BY <1>3, <1>4, <1>5, AckTypes DEF DeliveryTypeOK
  <2>2. scheduled' \subseteq Ids /\ disruptions' \in Nat
    BY <1>1, <1>2, <1>3, DisruptedTypes DEF DeliveryTypeOK
  <2> QED BY <1>2, <1>3, <1>4, <2>1, <2>2 DEF DeliveryTypeOK
<1>7. KeptInv'
  <2>1. \A k \in scheduled' : k \in scheduled \/ k = i
    BY <1>2
  <2>2. "accepted" # "none"
    OBVIOUS
  <2>3. i = DeliveryId[e]
    BY DEF i
  <2>4. inbox'[i] # "none"
    BY <1>1, <1>4
  <2>5. outbox' = outbox
    BY <1>2
  <2> QED BY <1>1, <1>4, <2>1, <2>3, <2>4, <2>5 DEF DeliveryInv, KeptInv
<1>8. PromptInv'
  <2>1. scheduled \subseteq scheduled'
    BY <1>2
  <2>2. agentCall' = agentCall /\ prompts' = prompts /\ recipient' = recipient
    BY <1>2
  <2> QED BY <1>1, <1>4, <2>1, <2>2 DEF DeliveryInv, PromptInv
<1>9. EntriesAdvance
  <2>1. ASSUME NEW k \in Ids, inbox[k] # "none"
        PROVE  kept'[k] = kept[k] /\ inbox'[k] = inbox[k]
    BY <1>1, <1>2, <1>4, <2>1 DEF DeliveryInv, KeptInv
  <2>2. prompts' = prompts
    BY <1>2
  <2> QED BY <1>3, <2>1, <2>2, RankTypes DEF EntriesAdvance, DeliveryTypeOK
<1>10. NewAcksTell
  BY <1>1, <1>4, <1>5 DEF NewAcksTell
<1> QED BY <1>2, <1>6, <1>7, <1>8, <1>9, <1>10 DEF InboxStep

\* A step that writes a later state of one entry, or leaves it, and does with
\* the admission of it whatever agrees with that.
WritesEntry(i, state, call) ==
  /\ inbox[i] \in {"accepted", "admitting"} /\ Rank(inbox[i]) <= Rank(state)
  /\ inbox' = [inbox EXCEPT ![i] = state]
  /\ acks' \in {acks, acks \cup {Ack(kept[i], state)}}
  /\ agentCall' = [agentCall EXCEPT ![i] = call]
  /\ scheduled' \in {scheduled, scheduled \ {i}}
  /\ call # "idle" => state = "admitting" /\ i \in scheduled' /\ recipient # "down"
  /\ prompts' \in [Ids -> Nat] /\ \A k \in Ids \ {i} : prompts'[k] = prompts[k]
  /\ state = "accepted" \/ call = "called" => prompts'[i] = 0
  /\ state = "admitted" \/ call = "prompted" => prompts'[i] = 1
  /\ prompts'[i] <= 1 /\ disruptions' \in Nat
  /\ UNCHANGED <<outbox, open, kept, consumed, recipient, barred, envelopes>>

LEMMA WriteStep ==
  ASSUME DeliveryInv, NEW i \in Ids, NEW state \in InboxStates,
         NEW call \in {"idle", "called", "prompted"}, WritesEntry(i, state, call)
  PROVE  InboxStep
<1> USE DEF WritesEntry
<1>1. DeliveryTypeOK
  BY DEF DeliveryInv
<1>2. /\ \A k \in Ids : inbox'[k] = IF k = i THEN state ELSE inbox[k]
      /\ \A k \in Ids : agentCall'[k] = IF k = i THEN call ELSE agentCall[k]
      /\ inbox' \in [Ids -> {"none"} \cup InboxStates]
      /\ agentCall' \in [Ids -> {"idle", "called", "prompted"}]
  BY <1>1 DEF DeliveryTypeOK
<1>3. kept[i] \in Envelopes /\ kept[i] # NoEnvelope /\ inbox[i] # "none" /\ state # "none"
  BY EntryFacts, IdTypes DEF InboxStates, Ended
<1>4. DeliveryTypeOK'
  <2>1. acks' \subseteq Acks
    BY <1>1, <1>3, AckTypes DEF DeliveryTypeOK
  <2> QED BY <1>1, <1>2, <2>1 DEF DeliveryTypeOK
<1>5. KeptInv'
  BY <1>2, <1>3 DEF DeliveryInv, KeptInv
<1>6. PromptInv'
  <2>1. ASSUME NEW k \in Ids PROVE (PromptInv!(k))'
    <3>1. CASE k = i
      BY <1>2, <1>3, <3>1
    <3>2. CASE k # i
      BY <1>2, <3>2 DEF DeliveryInv, PromptInv
    <3> QED BY <3>1, <3>2
  <2> QED BY <2>1 DEF PromptInv
<1>7. EntriesAdvance
  <2>1. ASSUME NEW k \in Ids, inbox[k] # "none", k # i
        PROVE  inbox'[k] = inbox[k] /\ prompts'[k] = prompts[k] /\ Rank(inbox[k]) <= Rank(inbox[k])
    BY <1>1, <1>2, <2>1, RankTypes DEF DeliveryTypeOK
  <2>2. inbox[i] \notin Ended /\ inbox[i] # "admitted"
    BY DEF Ended
  <2> QED BY <1>2, <1>3, <2>1, <2>2 DEF EntriesAdvance
<1>8. NewAcksTell
  BY <1>2, <1>3 DEF NewAcksTell
<1> QED BY <1>4, <1>5, <1>6, <1>7, <1>8 DEF InboxStep
\* A step that leaves the entries and what the agent did alone.
LEMMA EntriesStay ==
  ASSUME DeliveryInv, UNCHANGED <<inbox, kept, prompts>>
  PROVE  EntriesAdvance
BY RankTypes DEF EntriesAdvance, DeliveryInv, DeliveryTypeOK

LEMMA ConsumeStep ==
  ASSUME DeliveryInv, NEW i \in Ids, Consume(i) PROVE InboxStep
<1>1. /\ UNCHANGED <<outbox, open, inbox, kept, recipient, scheduled, agentCall, prompts,
                     barred, envelopes, acks, disruptions>>
      /\ consumed' = consumed \cup {i}
  BY DEF Consume
<1>2. EntriesAdvance /\ NewAcksTell
  BY <1>1, EntriesStay DEF NewAcksTell
<1> QED BY <1>1, <1>2 DEF InboxStep, DeliveryInv, DeliveryTypeOK, KeptInv, PromptInv

LEMMA SkipStep ==
  ASSUME DeliveryInv, NEW i \in Ids, SkipAdmission(i) PROVE InboxStep
<1>1. /\ UNCHANGED <<outbox, open, inbox, kept, consumed, recipient, agentCall, prompts,
                     barred, envelopes, acks, disruptions>>
      /\ scheduled' = scheduled \ {i} /\ \A k \in Ids : agentCall[k] = "idle"
  BY DEF SkipAdmission, OnlyOne
<1>2. EntriesAdvance /\ NewAcksTell
  BY <1>1, EntriesStay DEF NewAcksTell
<1> QED BY <1>1, <1>2 DEF InboxStep, DeliveryInv, DeliveryTypeOK, KeptInv, PromptInv

LEMMA PromptFacts ==
  ASSUME DeliveryInv, NEW i \in Ids
  PROVE  /\ agentCall[i] # "idle" => inbox[i] = "admitting" /\ i \in scheduled /\ recipient # "down"
         /\ inbox[i] = "accepted" \/ agentCall[i] = "called" => prompts[i] = 0
         /\ inbox[i] = "admitted" \/ agentCall[i] = "prompted" => prompts[i] = 1
         /\ prompts[i] <= 1 /\ prompts \in [Ids -> Nat] /\ disruptions \in Nat
         /\ agentCall \in [Ids -> {"idle", "called", "prompted"}]
         /\ inbox \in [Ids -> {"none"} \cup InboxStates]
BY DEF DeliveryInv, PromptInv, DeliveryTypeOK

LEMMA BeginStep ==
  ASSUME DeliveryInv, NEW i \in Ids, BeginAdmission(i) PROVE InboxStep
<1>1. /\ inbox[i] = "accepted" /\ i \in scheduled /\ recipient = "open"
      /\ inbox' = [inbox EXCEPT ![i] = "admitting"]
      /\ acks' = acks \cup {Ack(kept[i], "admitting")}
      /\ agentCall' = [agentCall EXCEPT ![i] = "called"]
      /\ UNCHANGED <<outbox, open, kept, consumed, recipient, scheduled, prompts,
                     barred, envelopes, disruptions>>
  BY DEF BeginAdmission
<1>2. Rank(inbox[i]) <= Rank("admitting") /\ "admitting" \in InboxStates
  BY <1>1, Ranks DEF InboxStates
<1>3. /\ prompts'[i] = 0 /\ prompts' \in [Ids -> Nat] /\ \A k \in Ids : prompts'[k] = prompts[k]
      /\ disruptions' \in Nat /\ scheduled' = scheduled
      /\ UNCHANGED <<outbox, open, kept, consumed, recipient, barred, envelopes>>
  BY <1>1, PromptFacts
<1>4. WritesEntry(i, "admitting", "called")
  BY <1>1, <1>2, <1>3 DEF WritesEntry
<1> QED BY <1>2, <1>4, WriteStep

LEMMA NotBegunStep ==
  ASSUME DeliveryInv, NEW i \in Ids, AdmissionNotBegun(i) PROVE InboxStep
<1>1. /\ inbox[i] = "accepted" /\ agentCall[i] = "idle" /\ disruptions' \in Nat
      /\ scheduled' = scheduled \ {i}
      /\ UNCHANGED <<outbox, open, kept, consumed, recipient, agentCall, prompts, barred, envelopes>>
  BY DisruptedTypes DEF AdmissionNotBegun, OnlyOne, DeliveryInv
<1>2. PICK state \in {"accepted", "admitting", "recovery_required"} :
        /\ inbox' = [inbox EXCEPT ![i] = state]
        /\ acks' \in {acks, acks \cup {Ack(kept[i], state)}}
  <2>1. inbox = [inbox EXCEPT ![i] = "accepted"] /\ inbox[i] = "accepted"
    BY <1>1, PromptFacts
  <2> QED BY <2>1 DEF AdmissionNotBegun
<1>3. Rank(inbox[i]) <= Rank(state) /\ state \in InboxStates
  BY <1>1, Ranks DEF InboxStates, Ended
<1>4. agentCall' = [agentCall EXCEPT ![i] = "idle"]
  BY <1>1, PromptFacts
<1>5. prompts'[i] = 0 /\ prompts' \in [Ids -> Nat] /\ \A k \in Ids : prompts'[k] = prompts[k]
  BY <1>1, PromptFacts
<1>6. state # "admitted" /\ prompts'[i] <= 1 /\ scheduled' \in {scheduled, scheduled \ {i}}
  BY <1>1, <1>5
<1>7. UNCHANGED <<outbox, open, kept, consumed, recipient, barred, envelopes>>
  BY <1>1
<1>8. WritesEntry(i, state, "idle")
  <2>1. inbox[i] \in {"accepted", "admitting"} /\ disruptions' \in Nat
    BY <1>1
  <2> QED BY <1>2, <1>3, <1>4, <1>5, <1>6, <1>7, <2>1, ZenonT(30) DEF WritesEntry
<1> QED BY <1>3, <1>8, WriteStep

LEMMA PromptedStep ==
  ASSUME DeliveryInv, NEW i \in Ids, AgentPrompted(i) PROVE InboxStep
<1>1. /\ agentCall[i] = "called"
      /\ agentCall' = [agentCall EXCEPT ![i] = "prompted"]
      /\ prompts' = [prompts EXCEPT ![i] = @ + 1]
      /\ UNCHANGED <<outbox, open, inbox, kept, consumed, recipient, scheduled,
                     barred, envelopes, acks, disruptions>>
  BY DEF AgentPrompted
<1>2. /\ inbox[i] = "admitting" /\ i \in scheduled /\ recipient # "down" /\ prompts[i] = 0
      /\ disruptions \in Nat /\ prompts \in [Ids -> Nat]
      /\ inbox' = [inbox EXCEPT ![i] = "admitting"]
  BY <1>1, PromptFacts
<1>3. /\ prompts'[i] = 1 /\ prompts' \in [Ids -> Nat]
      /\ \A k \in Ids : k # i => prompts'[k] = prompts[k]
  BY <1>1, <1>2
<1>4. Rank(inbox[i]) <= Rank("admitting") /\ "admitting" \in InboxStates
  BY <1>2, Ranks DEF InboxStates
<1>5. /\ disruptions' \in Nat /\ scheduled' = scheduled /\ acks' = acks
      /\ UNCHANGED <<outbox, open, kept, consumed, recipient, barred, envelopes>>
  BY <1>1, <1>2
<1>6. WritesEntry(i, "admitting", "prompted")
  <2>1. /\ inbox[i] \in {"accepted", "admitting"} /\ prompts'[i] <= 1
        /\ \A k \in Ids \ {i} : prompts'[k] = prompts[k]
        /\ acks' \in {acks, acks \cup {Ack(kept[i], "admitting")}}
        /\ scheduled' \in {scheduled, scheduled \ {i}} /\ i \in scheduled'
    BY <1>2, <1>3, <1>5
  <2>2. inbox' = [inbox EXCEPT ![i] = "admitting"] /\ agentCall' = [agentCall EXCEPT ![i] = "prompted"]
    BY <1>1, <1>2
  <2> QED BY <1>2, <1>3, <1>4, <1>5, <2>1, <2>2, ZenonT(30) DEF WritesEntry
<1> QED BY <1>4, <1>6, WriteStep

LEMMA EndsStep ==
  ASSUME DeliveryInv, NEW i \in Ids, AdmissionEnds(i) PROVE InboxStep
<1>1. /\ agentCall[i] # "idle"
      /\ agentCall' = [agentCall EXCEPT ![i] = "idle"] /\ scheduled' = scheduled \ {i}
      /\ UNCHANGED <<outbox, open, kept, consumed, recipient, prompts, barred, envelopes>>
  BY DEF AdmissionEnds
<1>2. inbox[i] = "admitting" /\ prompts[i] <= 1 /\ prompts \in [Ids -> Nat] /\ disruptions \in Nat
  BY <1>1, PromptFacts
<1>3. PICK outcome \in Ended : /\ Recorded(i, outcome)
                               /\ outcome = "admitted" => agentCall[i] = "prompted"
  BY DEF AdmissionEnds, Ended
<1>4. disruptions' \in Nat
  BY <1>2, <1>3, DisruptedTypes DEF Recorded, DeliveryInv
<1>5. PICK state \in {outcome, "recovery_required", "admitting"} :
        /\ inbox' = [inbox EXCEPT ![i] = state]
        /\ acks' \in {acks, acks \cup {Ack(kept[i], state)}}
  <2>1. inbox = [inbox EXCEPT ![i] = "admitting"]
    BY <1>2, PromptFacts
  <2> QED BY <1>3, <2>1 DEF Recorded
<1>6. Rank(inbox[i]) <= Rank(state) /\ state \in InboxStates /\ state # "accepted"
  BY <1>2, Ranks DEF InboxStates, Ended
<1>7. state = "admitted" => prompts[i] = 1
  BY <1>3, PromptFacts
<1>8. WritesEntry(i, state, "idle")
  BY <1>1, <1>2, <1>4, <1>5, <1>6, <1>7 DEF WritesEntry
<1> QED BY <1>6, <1>8, WriteStep

LEMMA ClosesStep ==
  ASSUME DeliveryInv, RecipientCloses \/ RecipientClosed PROVE InboxStep
<1>1. /\ UNCHANGED <<outbox, open, inbox, kept, consumed, scheduled, agentCall, prompts,
                     barred, envelopes, acks>>
      /\ disruptions' \in Nat
  BY DisruptedTypes DEF RecipientCloses, RecipientClosed, DeliveryInv, DeliveryTypeOK
<1>2. EntriesAdvance /\ NewAcksTell
  BY <1>1, EntriesStay DEF NewAcksTell
<1>3. recipient' = "closing" \/ (recipient' = "down" /\ scheduled = {})
  BY DEF RecipientCloses, RecipientClosed
<1>4. PromptInv'
  BY <1>1, <1>3 DEF DeliveryInv, PromptInv
<1> QED BY <1>1, <1>2, <1>3, <1>4 DEF InboxStep, DeliveryInv, DeliveryTypeOK, KeptInv

LEMMA DiesStep ==
  ASSUME DeliveryInv, RecipientDies PROVE InboxStep
<1>1. /\ UNCHANGED <<outbox, open, inbox, kept, consumed, prompts, barred, envelopes, acks>>
      /\ recipient' = "down" /\ scheduled' = {} /\ agentCall' = [i \in Ids |-> "idle"]
      /\ disruptions' \in Nat
  BY DisruptedTypes DEF RecipientDies, DeliveryInv
<1>2. EntriesAdvance /\ NewAcksTell
  BY <1>1, EntriesStay DEF NewAcksTell
<1> QED BY <1>1, <1>2 DEF InboxStep, DeliveryInv, DeliveryTypeOK, KeptInv, PromptInv

LEMMA StartsStep ==
  ASSUME DeliveryInv, RecipientStarts PROVE InboxStep
<1>1. /\ recipient = "down" /\ recipient' = "open"
      /\ inbox' = [i \in Ids |-> AfterRestart(inbox[i])]
      /\ acks' = acks \cup {Ack(kept[i], "recovery_required") :
                              i \in {k \in Ids : inbox'[k] = "recovery_required"}}
      /\ scheduled' = {i \in Ids : inbox'[i] = "accepted"}
      /\ UNCHANGED <<outbox, open, kept, consumed, agentCall, prompts, barred, envelopes, disruptions>>
  BY DEF RecipientStarts
<1>2. \A i \in Ids : inbox'[i] = IF inbox[i] = "admitting" THEN "recovery_required" ELSE inbox[i]
  BY <1>1 DEF AfterRestart
<1>3. DeliveryTypeOK /\ inbox' \in [Ids -> {"none"} \cup InboxStates]
  BY <1>1 DEF DeliveryInv, DeliveryTypeOK, AfterRestart, InboxStates, Ended
<1>4. \A i \in Ids : inbox'[i] = "recovery_required" => kept[i] \in Envelopes /\ kept[i] # NoEnvelope
  BY <1>2, EntryFacts, IdTypes
<1>5. DeliveryTypeOK'
  <2>1. "recovery_required" \in InboxStates
    BY DEF InboxStates, Ended
  <2>2. acks' \subseteq Acks
    BY <1>1, <1>3, <1>4, <2>1, AckTypes DEF DeliveryTypeOK
  <2>3. scheduled' \subseteq Ids
    BY <1>1
  <2> QED BY <1>1, <1>3, <2>2, <2>3 DEF DeliveryTypeOK
<1>6. KeptInv'
  BY <1>1, <1>2 DEF DeliveryInv, KeptInv
<1>7. PromptInv'
  <2>1. \A i \in Ids : agentCall[i] = "idle"
    BY <1>1, PromptFacts DEF DeliveryInv, DeliveryTypeOK
  <2> QED BY <1>1, <1>2, <2>1 DEF DeliveryInv, PromptInv
<1>8. EntriesAdvance
  <2>1. ASSUME NEW i \in Ids, inbox[i] # "none"
        PROVE  /\ Rank(inbox[i]) <= Rank(inbox'[i]) /\ inbox'[i] # "none"
               /\ inbox[i] \in Ended => inbox'[i] = inbox[i]
    BY <1>2, <1>3, <2>1, Ranks, RankTypes DEF DeliveryTypeOK, Ended
  <2> QED BY <1>1, <2>1 DEF EntriesAdvance
<1>9. NewAcksTell
  BY <1>1, <1>4 DEF NewAcksTell
<1> QED BY <1>1, <1>5, <1>6, <1>7, <1>8, <1>9 DEF InboxStep

-----------------------------------------------------------------------------
(* The invariant                                                           *)

\* What was told stays true.
LEMMA ToldStays ==
  ASSUME DeliveryTypeOK, DeliveryTypeOK', EntriesAdvance, NEW i \in Ids, NEW state \in InboxStates,
         Told(state, i)
  PROVE  Told(state, i)'
<1>1. /\ Rank(state) \in 1..3 /\ Rank(inbox[i]) \in 1..3 /\ Rank(inbox'[i]) \in 1..3
      /\ Rank(inbox[i]) <= Rank(inbox'[i]) /\ inbox'[i] # "none"
  BY RankTypes DEF DeliveryTypeOK, EntriesAdvance, Told
<1>2. Rank(state) <= Rank(inbox'[i])
  BY <1>1 DEF Told
<1>3. state \in Ended => inbox'[i] = state
  BY DEF EntriesAdvance, Told
<1>4. state = "admitted" => prompts'[i] = 1
  BY DEF EntriesAdvance, Told, Ended
<1> QED BY <1>1, <1>2, <1>3, <1>4 DEF Told

\* Acknowledgements stay true, and new ones are.
LEMMA AcksStayTrue ==
  ASSUME DeliveryInv, DeliveryTypeOK', KeptInv', PromptInv', EntriesAdvance, NewAcksTell
  PROVE  AckInv'
<1>1. ASSUME NEW a \in acks', a \in acks
      PROVE  kept'[a.id] # NoEnvelope /\ Sender[kept'[a.id]] = a.to /\ Told(a.state, a.id)'
  <2>1. a.id \in Ids /\ a.state \in InboxStates
    BY <1>1 DEF DeliveryInv, DeliveryTypeOK, Acks
  <2>2. kept[a.id] # NoEnvelope /\ Sender[kept[a.id]] = a.to /\ Told(a.state, a.id)
    BY <1>1 DEF DeliveryInv, AckInv
  <2>3. kept'[a.id] = kept[a.id]
    BY <2>1, <2>2 DEF EntriesAdvance, Told
  <2> QED BY <2>1, <2>2, <2>3, ToldStays DEF DeliveryInv
<1>2. ASSUME NEW a \in acks', a \notin acks
      PROVE  kept'[a.id] # NoEnvelope /\ Sender[kept'[a.id]] = a.to /\ Told(a.state, a.id)'
  <2>1. PICK i \in Ids : kept'[i] # NoEnvelope /\ a = Ack(kept'[i], inbox'[i])
    BY <1>2 DEF NewAcksTell
  <2>2. /\ kept'[i] \in Envelopes /\ DeliveryId[kept'[i]] = i
        /\ inbox'[i] \in InboxStates /\ inbox'[i] # "none"
    BY <2>1 DEF DeliveryTypeOK, KeptInv
  <2>3. a.id = i /\ a.to = Sender[kept'[i]] /\ a.state = inbox'[i]
    BY <2>1, <2>2, AckTypes
  <2>4. Rank(inbox'[i]) <= Rank(inbox'[i])
    BY <2>2, RankTypes
  <2> QED BY <2>1, <2>2, <2>3, <2>4 DEF Told, PromptInv
<1> QED BY <1>1, <1>2 DEF AckInv

\* Outboxes stay true, with what is acknowledged now.
LEMMA OutboxStaysTrue ==
  ASSUME DeliveryInv, DeliveryTypeOK', EntriesAdvance, OutboxMoves
  PROVE  OutboxTells'
<1> SUFFICES ASSUME NEW e \in Envelopes, NEW state \in InboxStates, outbox'[e] = state
             PROVE  kept'[DeliveryId[e]] = e /\ Told(state, DeliveryId[e])'
  BY DEF OutboxTells, Told
<1> DEFINE i == DeliveryId[e]
<1>1. i \in Ids /\ e # NoEnvelope
  BY IdTypes
<1>2. state # "queued" /\ state # "absent"
  BY DEF InboxStates, Ended
<1>3. kept[i] = e /\ Told(state, i)
  <2>1. CASE outbox'[e] = outbox[e]
    BY <2>1 DEF DeliveryInv, OutboxTells, Told
  <2>2. CASE outbox[e] # "absent" /\ \E a \in acks : a.to = Sender[e] /\ a.id = i /\ outbox'[e] = a.state
    <3>1. PICK a \in acks : a.to = Sender[e] /\ a.id = i /\ outbox'[e] = a.state
      BY <2>2
    <3>2. kept[i] # NoEnvelope /\ Sender[kept[i]] = Sender[e] /\ Told(state, i)
      BY <3>1 DEF DeliveryInv, AckInv
    <3>3. kept[i] \in Envelopes /\ DeliveryId[kept[i]] = i /\ outbox[kept[i]] # "absent"
      BY <1>1, <3>2, EntryFacts DEF Told
    <3> QED BY <2>2, <3>2, <3>3 DEF DeliveryInv, OutboxInv
  <2> QED BY <1>2, <2>1, <2>2 DEF OutboxMoves
<1>4. kept'[i] = kept[i]
  BY <1>1, <1>3 DEF EntriesAdvance, Told
<1> HIDE DEF i
<1>5. Told(state, i)'
  BY <1>1, <1>3, ToldStays DEF DeliveryInv
<1> QED BY <1>3, <1>4, <1>5 DEF i

LEMMA InboxStepKeeps ==
  ASSUME DeliveryInv, InboxStep PROVE DeliveryInv'
<1>1. AckInv'
  BY AcksStayTrue DEF InboxStep
<1>2. OutboxTells'
  <2>1. OutboxMoves
    BY DEF OutboxMoves, InboxStep
  <2> QED BY <2>1, OutboxStaysTrue DEF InboxStep
<1>3. OutboxInv'
  BY DEF DeliveryInv, OutboxInv, InboxStep
<1> QED BY <1>1, <1>2, <1>3 DEF DeliveryInv, InboxStep

\* A step of a sender or of what is between the services.
LEMMA SenderStepKeeps ==
  ASSUME DeliveryInv, UNCHANGED inboxVars, DeliveryTypeOK', OutboxMoves, OutboxInv', acks' \subseteq acks
  PROVE  DeliveryInv'
<1>1. UNCHANGED <<inbox, kept, consumed, recipient, scheduled, agentCall, prompts>>
  BY DEF inboxVars
<1>2. \A e \in Envelopes : outbox[e] # "absent" => outbox'[e] # "absent"
  BY DEF OutboxMoves, DeliveryInv, DeliveryTypeOK, Acks, InboxStates, Ended
<1>3. KeptInv'
  <2>1. \A i \in Ids : kept[i] # NoEnvelope => kept[i] \in Envelopes
    BY DEF DeliveryInv, DeliveryTypeOK
  <2> QED BY <1>1, <1>2, <2>1 DEF DeliveryInv, KeptInv
<1>4. PromptInv'
  BY <1>1 DEF DeliveryInv, PromptInv
<1>5. EntriesAdvance
  BY <1>1, EntriesStay
<1>6. AckInv'
  <2>1. NewAcksTell
    BY DEF NewAcksTell
  <2> QED BY <1>3, <1>4, <1>5, <2>1, AcksStayTrue
<1>7. OutboxTells'
  BY <1>5, OutboxStaysTrue
<1> QED BY <1>3, <1>4, <1>6, <1>7 DEF DeliveryInv
LEMMA DeliverStep ==
  ASSUME DeliveryInv, NEW e \in Envelopes, Deliver(e) PROVE DeliveryInv'
<1>1. /\ outbox' = [outbox EXCEPT ![e] = IF @ = "absent" THEN "queued" ELSE @]
      /\ envelopes' = envelopes \cup (IF outbox[e] \in Ended THEN {} ELSE {e})
      /\ \A f \in Envelopes :
           Sender[f] = Sender[e] /\ DeliveryId[f] = DeliveryId[e] /\ outbox[f] # "absent" => f = e
      /\ UNCHANGED inboxVars /\ UNCHANGED <<open, barred, acks, disruptions>>
  BY DEF Deliver
<1>2. DeliveryTypeOK /\ UNCHANGED <<inbox, kept, consumed, recipient, scheduled, agentCall, prompts>>
  BY <1>1 DEF DeliveryInv, inboxVars
<1>3. \A f \in Envelopes : outbox'[f] = IF f = e /\ outbox[f] = "absent" THEN "queued" ELSE outbox[f]
  BY <1>1, <1>2 DEF DeliveryTypeOK
<1>4. OutboxMoves
  BY <1>3 DEF OutboxMoves
<1>5. DeliveryTypeOK'
  <2>1. /\ outbox' \in [Envelopes -> {"absent", "queued"} \cup InboxStates]
        /\ envelopes' \subseteq Envelopes
    BY <1>1, <1>2 DEF DeliveryTypeOK
  <2> QED BY <1>1, <1>2, <2>1 DEF DeliveryTypeOK
<1>6. OutboxInv'
  <2>1. \A f, g \in Envelopes :
          Sender[f] = Sender[g] /\ DeliveryId[f] = DeliveryId[g]
            /\ outbox'[f] # "absent" /\ outbox'[g] # "absent" => f = g
    BY <1>1, <1>3 DEF DeliveryInv, OutboxInv
  <2>2. \A f \in envelopes' : f \in envelopes \/ f = e
    BY <1>1
  <2>3. \A f \in envelopes' : outbox'[f] # "absent"
    BY <1>2, <1>3, <2>2 DEF DeliveryInv, OutboxInv, DeliveryTypeOK
  <2> QED BY <2>1, <2>3 DEF OutboxInv
<1> QED BY <1>1, <1>4, <1>5, <1>6, SenderStepKeeps

LEMMA ReceiveAckStep ==
  ASSUME DeliveryInv, NEW a \in acks, ReceiveAck(a) PROVE DeliveryInv'
<1>1. /\ acks' = acks \ {a}
      /\ outbox' = [e \in Envelopes |->
                      IF Sender[e] = a.to /\ DeliveryId[e] = a.id /\ Supersedes(a.state, outbox[e])
                        THEN a.state ELSE outbox[e]]
      /\ UNCHANGED inboxVars /\ UNCHANGED <<open, barred, envelopes, disruptions>>
  BY DEF ReceiveAck
<1>2. DeliveryTypeOK /\ UNCHANGED <<inbox, kept, consumed, recipient, scheduled, agentCall, prompts>>
  BY <1>1 DEF DeliveryInv, inboxVars
<1>3. a.state \in InboxStates
  BY <1>2 DEF DeliveryTypeOK, Acks
<1>4. \A e \in Envelopes :
        \/ outbox'[e] = outbox[e]
        \/ outbox[e] # "absent" /\ a.to = Sender[e] /\ a.id = DeliveryId[e] /\ outbox'[e] = a.state
  BY <1>1 DEF Supersedes
<1>5. OutboxMoves
  BY <1>4 DEF OutboxMoves
<1>6. DeliveryTypeOK'
  <2>1. outbox' \in [Envelopes -> {"absent", "queued"} \cup InboxStates]
    BY <1>1, <1>2, <1>3 DEF DeliveryTypeOK
  <2> QED BY <1>1, <1>2, <2>1 DEF DeliveryTypeOK
<1>7. \A e \in Envelopes : outbox'[e] # "absent" <=> outbox[e] # "absent"
  BY <1>3, <1>4 DEF InboxStates, Ended
<1>8. OutboxInv'
  BY <1>1, <1>2, <1>7 DEF DeliveryInv, OutboxInv, DeliveryTypeOK
<1> QED BY <1>1, <1>5, <1>6, <1>8, SenderStepKeeps

\* A step that leaves the outbox alone too.
LEMMA TransportStep ==
  ASSUME DeliveryInv, UNCHANGED inboxVars, outbox' = outbox, open' \subseteq Senders,
         barred' \subseteq Envelopes, envelopes' \subseteq Envelopes, acks' \subseteq acks,
         disruptions' \in Nat, \A e \in envelopes' \ envelopes : outbox[e] # "absent"
  PROVE  DeliveryInv'
<1>1. UNCHANGED <<inbox, kept, consumed, recipient, scheduled, agentCall, prompts>>
  BY DEF inboxVars
<1>2. DeliveryTypeOK'
  BY <1>1 DEF DeliveryInv, DeliveryTypeOK
<1>3. OutboxInv'
  BY DEF DeliveryInv, OutboxInv
<1>4. OutboxMoves
  BY DEF OutboxMoves
<1> QED BY <1>2, <1>3, <1>4, SenderStepKeeps

LEMMA PublishStep ==
  ASSUME DeliveryInv, NEW s \in Senders, Republish(s) \/ SenderEnds(s) \/ SenderStarts(s)
  PROVE  DeliveryInv'
<1>1. Publishable(s) \subseteq {e \in Envelopes : outbox[e] # "absent"}
  BY DEF Publishable
<1>2. /\ UNCHANGED inboxVars /\ outbox' = outbox /\ acks' = acks /\ barred' = barred
      /\ envelopes' \subseteq envelopes \cup Publishable(s) /\ open' \subseteq open \cup {s}
  BY DEF Republish, SenderEnds, SenderStarts
<1>3. disruptions' \in Nat
  BY DisruptedTypes DEF Republish, SenderEnds, SenderStarts, DeliveryInv, DeliveryTypeOK
<1>4. envelopes \subseteq Envelopes /\ open \subseteq Senders /\ barred \subseteq Envelopes
  BY DEF DeliveryInv, DeliveryTypeOK
<1> QED BY <1>1, <1>2, <1>3, <1>4, TransportStep

LEMMA LossStep ==
  ASSUME DeliveryInv,
         (\E e \in Envelopes : LoseEnvelope(e) \/ Revoke(e)) \/ (\E a \in acks : LoseAck(a))
  PROVE  DeliveryInv'
<1>1. /\ UNCHANGED inboxVars /\ outbox' = outbox /\ open' = open
      /\ envelopes' \subseteq envelopes /\ acks' \subseteq acks /\ barred' \subseteq barred \cup Envelopes
  BY DEF LoseEnvelope, Revoke, LoseAck
<1>2. disruptions' \in Nat
  BY DisruptedTypes DEF LoseEnvelope, Revoke, LoseAck, DeliveryInv, DeliveryTypeOK
<1>3. envelopes \subseteq Envelopes /\ open \subseteq Senders /\ barred \subseteq Envelopes
  BY DEF DeliveryInv, DeliveryTypeOK
<1> QED BY <1>1, <1>2, <1>3, TransportStep

LEMMA DeliveryStart == DeliveryInit => DeliveryInv
<1> SUFFICES ASSUME DeliveryInit PROVE DeliveryInv
  OBVIOUS
<1> USE DEF DeliveryInit
<1>1. DeliveryTypeOK
  BY DEF DeliveryTypeOK
<1>2. OutboxInv /\ KeptInv /\ PromptInv /\ AckInv
  BY NoEnvelopeAssumption DEF OutboxInv, KeptInv, PromptInv, AckInv
<1>3. OutboxTells
  BY DEF OutboxTells, InboxStates, Ended
<1> QED BY <1>1, <1>2, <1>3 DEF DeliveryInv

LEMMA DeliveryStep == DeliveryInv /\ [DeliveryNext]_deliveryVars => DeliveryInv'
<1> SUFFICES ASSUME DeliveryInv, [DeliveryNext]_deliveryVars PROVE DeliveryInv'
  OBVIOUS
<1>1. CASE UNCHANGED deliveryVars
  <2>1. /\ UNCHANGED inboxVars /\ disruptions' \in Nat /\ open' \subseteq Senders
        /\ UNCHANGED <<outbox, barred, envelopes, acks>>
        /\ barred \subseteq Envelopes /\ envelopes \subseteq Envelopes
    BY <1>1 DEF deliveryVars, inboxVars, DeliveryInv, DeliveryTypeOK
  <2> QED BY <2>1, TransportStep
<1>2. CASE \E e \in Envelopes : Deliver(e)
  BY <1>2, DeliverStep
<1>3. CASE \E e \in Envelopes : ReceiveEnvelope(e)
  BY <1>3, ReceiveStep, InboxStepKeeps
<1>4. CASE (\E e \in Envelopes : LoseEnvelope(e) \/ Revoke(e)) \/ (\E a \in acks : LoseAck(a))
  BY <1>4, LossStep
<1>5. CASE \E s \in Senders : Republish(s) \/ SenderEnds(s) \/ SenderStarts(s)
  BY <1>5, PublishStep
<1>6. CASE \E a \in acks : ReceiveAck(a)
  BY <1>6, ReceiveAckStep
<1>7. CASE \E i \in Ids : Consume(i)
  BY <1>7, ConsumeStep, InboxStepKeeps
<1>8. CASE AdmissionStep
  <2>1. PICK i \in Ids : \/ SkipAdmission(i) \/ BeginAdmission(i) \/ AdmissionNotBegun(i)
                         \/ AgentPrompted(i) \/ AdmissionEnds(i)
    BY <1>8 DEF AdmissionStep
  <2>2. InboxStep
    BY <2>1, SkipStep, BeginStep, NotBegunStep, PromptedStep, EndsStep
  <2> QED BY <2>2, InboxStepKeeps
<1>9. CASE RecipientCloses \/ RecipientClosed \/ RecipientDies \/ RecipientStarts
  BY <1>9, ClosesStep, DiesStep, StartsStep, InboxStepKeeps
<1> QED BY <1>1, <1>2, <1>3, <1>4, <1>5, <1>6, <1>7, <1>8, <1>9 DEF DeliveryNext

\* The types, and what acknowledgements and entries say, always hold.
THEOREM DeliveryInvariance == DeliverySpec => []DeliveryInv
BY DeliveryStart, DeliveryStep, PTL DEF DeliverySpec

\* The agent admits the prompt of a delivery id once, whatever is published
\* again, lost, killed or not written.
THEOREM DeliveryPromptsOnce == DeliverySpec => []PromptedOnce
<1>1. DeliveryInv => PromptedOnce
  BY DEF DeliveryInv, PromptInv, PromptedOnce
<1> QED BY <1>1, DeliveryInvariance, PTL

\* What an outbox says of a delivery is true of the recipient's inbox.
THEOREM DeliveryTells == DeliverySpec => []OutboxTells
<1>1. DeliveryInv => OutboxTells
  BY DEF DeliveryInv
<1> QED BY <1>1, DeliveryInvariance, PTL
=============================================================================
