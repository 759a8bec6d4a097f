---------------------- MODULE RetainedQueuePromiseProofs ----------------------
(***************************************************************************)
(* What RetainedQueue promises, on top of QInv.                            *)
(*                                                                         *)
(* With or without commits inside a reconcile pass, no agent run is live   *)
(* while an external operation owns the lane (ExclusiveInv): whoever could *)
(* start one is inside handoff(), which the claim looks at, or holds the   *)
(* admission, or claims only when nobody owns the lane.  And the drain     *)
(* claims the oldest pending input, unless a client resumes the queue      *)
(* while handoffs are in progress (OldestInv): what becomes pending after  *)
(* the drain looked stands behind its choice, or came back from a          *)
(* cancellation, which pauses the queue.                                   *)
(*                                                                         *)
(* If passes are not overtaken by other commits, an input enters the       *)
(* transcript at most once and a removed input never does.  The argument.  *)
(* A receipt is recorded for the current attempt only, and a new attempt   *)
(* begins only when that receipt was withdrawn; so of all attempts of an   *)
(* input only the current one can have more than a withdrawn receipt       *)
(* (ReceiptInv).  Whoever submits does it for the current attempt, because *)
(* nobody ends an attempt without a recorded receipt (CarriedInv).  An     *)
(* input can be removed while it waits, or after its receipt was withdrawn *)
(* (RemovalInv); either way nothing is left that could run.                *)
(*                                                                         *)
(* Under further conditions the queue implements InputDelivery.  The hard  *)
(* part is that no input is given up: a pass that finds a withdrawn        *)
(* receipt while the queue is not paused consumes the input.  Whoever      *)
(* withdraws paused the queue before, and it stays paused until a pass has *)
(* seen the withdrawal (GapInv): a pass that is due, or that is to follow  *)
(* a receipt in the air, belongs to a call or a handoff in progress, and   *)
(* clients resume when there is none.                                      *)
(*                                                                         *)
(* No wake-up of the drain is lost (NoWakeupLost), with or without commits *)
(* inside a pass, if no call is a user admission or a lock.  What can be   *)
(* lost is a pass of the drain: an input turns up, or the lane becomes     *)
(* free, after the drain looked and before it goes idle.  The drain ends   *)
(* its turn only without an input to claim, and a queue with a pending     *)
(* input always has an oldest one (QueuedInv); with drainAgain set, in     *)
(* which case it looks again; or refused.  A refusal needs an owner of the *)
(* lane, who wakes the drain when it leaves, or an input that another      *)
(* handler carries (HeldInv, ClaimInv).  After a submission the receipt is *)
(* new (FreshInv), so a run stands in the lane until its settlement, which *)
(* wakes the drain, or the drain was told to go round again (BusyInv).     *)
(***************************************************************************)
EXTENDS RetainedQueueProofs, FiniteSetTheorems, WellFoundedInduction

\* Receipts without an entry in the transcript, now or later.
Unentered == {"none", "withdrawn"}

\* The lane is claimed by the operation that owns it, and a promotion in progress
\* holds the admission.
ExclusiveInv ==
  /\ \A c \in Callers : pc[c] \in {"exclusiveCheck", "exclusive"} => external = c
  /\ \A c \in Callers : pc[c] = "promote" => admitting = c
  /\ \A c \in Callers : pc[c] = "exclusive" =>
       runHead = None /\ admitting = None /\ \A p \in Procs : pc[p] # "submit"

\* What is in the live run was placed.
RunInv == \A r \in runInputs : sub[r] \in Placed

\* Only the current attempt of an input has more than a withdrawn receipt, and an
\* input that waits or was removed has not even that.
ReceiptInv ==
  \A i \in Inputs :
    /\ subm[i] \in {NoSub, attempt[i]}
    /\ \A a \in Attempts : a # attempt[i] => sub[<<i, a>>] \in Unentered
    /\ disp[i] \in {"absent", "pending"} => subm[i] = NoSub
    /\ disp[i] \in {"absent", "pending", "removed"} =>
         \A a \in Attempts : sub[<<i, a>>] \in Unentered

\* Whoever submits an input does it for its current attempt.
CarriedInv ==
  \A p \in Procs : pc[p] \in {"submit", "record"} =>
    disp[item[p]] = "handoff" /\ subm[item[p]] = NoSub /\ att[p] = attempt[item[p]]

\* p is about to retain its input.
Brings(p) ==
  \/ pc[p] = "push"
  \/ kind[p] = "interrupt" /\ Place(p) \in Aborting \cup {"quiesce"}

\* Nobody else works on an input that is about to be retained.
NewInv ==
  \A p \in Procs : Brings(p) =>
    disp[item[p]] = "absent" /\ \A q \in Procs : item[q] = item[p] => q = p

\* What is submitted or stands in the queue was retained, and what was not has no receipt.
PresentInv ==
  /\ \A p \in Procs : pc[p] \in {"submit", "record"} => disp[item[p]] # "absent"
  /\ \A k \in DOMAIN order : disp[order[k]] # "absent"
  /\ \A i \in Inputs : disp[i] = "absent" => subm[i] = NoSub

\* An input with a receipt is removed only after the receipt was withdrawn.
RemovalInv ==
  \A c \in Callers : pc[c] \in {"removeNative", "removeCommit"} =>
    /\ item[c] \in Inputs
    /\ pc[c] = "removeCommit" /\ snap[c] # NoSub => sub[<<item[c], snap[c]>>] = "withdrawn"

\* Reconcile passes are steps.
WholeInv == \A p \in Procs : pc[p] # "reconcileCommit"

OnceInv == RunInv /\ ReceiptInv /\ CarriedInv /\ NewInv /\ PresentInv /\ RemovalInv /\ WholeInv

-----------------------------------------------------------------------------
(* What a step does to the lane.                                           *)

\* Whatever is not queued stays as it is, unless it is in the live run.
Settled(r) == sub[r] \in Unentered => sub'[r] = sub[r]

\* A submission changes no other request that is not queued, and its own only if it
\* was unknown.
LEMMA SubmitSettled ==
  ASSUME LaneTypeOK, RunInv, NEW r \in Req, NEW w, Submit(r, w)
  PROVE  RunInv' /\ \A q \in Req : Settled(q) \/ (q = r /\ sub[q] = "none")
<1> USE DEF LaneTypeOK, RunInv, Settled, Unentered, Placed
<1>1. CASE sub[r] # "none"
  BY <1>1 DEF Submit, lane
<1>2. CASE sub[r] = "none" /\ SubmitIdle(r)
  BY <1>2 DEF SubmitIdle, StartRun, Queued
<1>3. CASE sub[r] = "none" /\ SubmitBusy(r)
  BY <1>3 DEF SubmitBusy
<1> QED BY <1>1, <1>2, <1>3 DEF Submit

\* Nor do the lane's own steps and cancellations change any.
LEMMA OthersSettled ==
  ASSUME LaneTypeOK, RunInv, NEW r, Abort \/ Withdraw(r) \/ PlaceQueued \/ EndRun
  PROVE  RunInv' /\ \A q \in Req : Settled(q)
<1> USE DEF LaneTypeOK, RunInv, Settled, Unentered, Placed
<1>1. CASE Abort \/ Withdraw(r) \/ PlaceQueued
  BY <1>1 DEF Abort, Withdraw, PlaceQueued, Queued
<1>2. CASE EndRun
  <2>1. PICK outcome \in Outcomes :
          LET ended == [q \in Req |-> IF q \in runInputs THEN outcome ELSE sub[q]]
          IN \/ \E S \in (SUBSET Queued) \ {{}} : StartRun(S, ended)
             \/ sub' = ended /\ runInputs' = {}
    BY <1>2 DEF EndRun
  <2> DEFINE ended == [q \in Req |-> IF q \in runInputs THEN outcome ELSE sub[q]]
  <2>2. CASE \E S \in (SUBSET Queued) \ {{}} : StartRun(S, ended)
    BY <2>2 DEF StartRun, Queued
  <2>3. CASE sub' = ended /\ runInputs' = {}
    BY <2>3
  <2> QED BY <2>1, <2>2, <2>3
<1> QED BY <1>1, <1>2

\* A step enters no request but one that a handoff or a promotion submits.
LEMMA StepSettled ==
  ASSUME QInv, RunInv, [Next]_vars
  PROVE  /\ RunInv'
         /\ \/ \A q \in Req : Settled(q)
            \/ \E p \in Procs :
                 /\ SubmitHandoff(p)
                 /\ \A q \in Req : Settled(q) \/ (q = <<item[p], att[p]>> /\ sub[q] = "none")
            \/ \E c \in Callers :
                 /\ Promote(c)
                 /\ \A q \in Req :
                      Settled(q) \/ (q = <<item[c], attempt[item[c]]>> /\ sub[q] = "none")
<1>0. LaneTypeOK /\ RecordOK /\ LocalOK /\ ItemInv
  BY DEF QInv, TypeOK, RecordOK, LocalOK
<1>idle. ASSUME UNCHANGED <<sub, runInputs>> PROVE RunInv' /\ \A q \in Req : Settled(q)
  BY <1>idle DEF RunInv, Settled
<1>1. CASE UNCHANGED vars
  BY <1>1, <1>idle DEF vars, native, lane
<1>2. CASE CallStarts
  BY <1>2, <1>idle DEF CallStarts, Enqueue, FollowUp, RetainIdle, Resume, Unlock, PromptStart,
     SteerStart, InterruptStart, SelectStart, RemoveStart, PromoteStart, UserBegin, AbortStart,
     Lock, ExternalStart, DisposeStart, native, lane
<1>3. ASSUME NEW c \in Callers, Promote(c)
      PROVE  /\ RunInv'
             /\ \A q \in Req :
                  Settled(q) \/ (q = <<item[c], attempt[item[c]]>> /\ sub[q] = "none")
  <2>1. <<item[c], attempt[item[c]]>> \in Req
    BY <1>0, <1>3 DEF Promote, ItemInv, Place, Needs, Carrying, RecordOK, Req, Procs
  <2> QED BY <1>0, <1>3, <2>1, SubmitSettled DEF Promote
<1>4. ASSUME NEW c \in Callers, CallStep(c), ~Promote(c)
      PROVE  RunInv' /\ \A q \in Req : Settled(q)
  <2>1. CASE AbortNative(c) \/ DisposeAbort(c) \/ RemoveNative(c)
    BY <1>0, <2>1, OthersSettled DEF AbortNative, DisposeAbort, RemoveNative
  <2>2. CASE ~(AbortNative(c) \/ DisposeAbort(c) \/ RemoveNative(c))
    BY <1>4, <1>idle, <2>2 DEF CallStep, Push, Own, SelectClaim, UserRefused, Promoted,
       PromoteRefused, Quiesced, AbortCheck, AbortIntent, Aborted, RemoveTooLate, RemoveCommit,
       ExternalAdmit, ExternalEnd, Disposed, Forget, native, lane
  <2> QED BY <2>1, <2>2
<1>5. ASSUME NEW p \in Procs, SubmitHandoff(p)
      PROVE  /\ RunInv'
             /\ \A q \in Req : Settled(q) \/ (q = <<item[p], att[p]>> /\ sub[q] = "none")
  <2>1. <<item[p], att[p]>> \in Req
    BY <1>0, <1>5 DEF SubmitHandoff, ItemInv, Place, Needs, Carrying, LocalOK, Req
  <2> QED BY <1>0, <1>5, <2>1, SubmitSettled DEF SubmitHandoff
<1>6. ASSUME NEW p \in Procs, HandoffStep(p), ~SubmitHandoff(p)
      PROVE  RunInv' /\ \A q \in Req : Settled(q)
  BY <1>6, <1>idle DEF HandoffStep, Claim, ClaimRefused, SubmitRefused, HandoffThrows,
     RecordReceipt, Handed, native, lane
<1>7. CASE (\E p \in Procs : ReconcileStep(p)) \/ DrainStep \/ SettleStep \/ TailStep
           \/ ObserveRunEnd
  BY <1>7, <1>idle DEF ReconcileStep, Reconcile, ReconcileRead, ReconcileCommit, DrainStep,
     DrainPick, DrainBreak, DrainEnd, DrainAwait, RecoverHandoff, RecoverReconcile, Recovered,
     SettleStep, SettleStart, SettleRelease, SettleWake, TailStep, TailEnd, TailStart,
     ObserveRunEnd, native, lane
<1>8. CASE LanePlaces \/ LaneEnds
  BY <1>0, <1>8, OthersSettled DEF LanePlaces, LaneEnds
<1>9. CASE Reopen
  BY <1>0, <1>9, <1>idle, OthersSettled DEF Reopen, lane
<1>10. CASE Mishap
  BY <1>10, <1>idle DEF Mishap, Crash, Forget, ReceiptLost, HandoffThrows, AbortThrows, native, lane
<1> QED
  BY <1>1, <1>2, <1>3, <1>4, <1>5, <1>6, <1>7, <1>8, <1>9, <1>10 DEF Next

\* The commits that change what the record says of an input and its receipts.
LEMMA RecordWriters ==
  ASSUME [Next]_vars
  PROVE  \/ UNCHANGED <<disp, attempt, subm, order>>
         \/ \E i \in Fresh : Enqueue(i) \/ FollowUp(i)
         \/ \E c \in Callers : Push(c) \/ Own(c) \/ SelectClaim(c) \/ Promote(c) \/ RemoveCommit(c)
         \/ \E p \in Procs : Claim(p) \/ RecordReceipt(p) \/ Reconcile(p) \/ ReconcileCommit(p)
<1> USE DEF record
<1>1. CASE UNCHANGED vars
  BY <1>1 DEF vars
<1>2. CASE CallStarts
  BY <1>2 DEF CallStarts, Resume, Unlock, PromptStart, SteerStart, InterruptStart, SelectStart,
     RemoveStart, PromoteStart, UserBegin, AbortStart, Lock, ExternalStart, DisposeStart
<1>3. ASSUME NEW c \in Callers, CallStep(c)
      PROVE  \/ UNCHANGED <<disp, attempt, subm, order>>
             \/ Push(c) \/ Own(c) \/ SelectClaim(c) \/ Promote(c) \/ RemoveCommit(c)
  BY <1>3 DEF CallStep, UserRefused, Promoted, PromoteRefused, Quiesced, AbortCheck, AbortIntent,
     AbortNative, Aborted, RemoveNative, RemoveTooLate, ExternalAdmit, ExternalEnd, DisposeAbort,
     Disposed, Forget
<1>4. ASSUME NEW p \in Procs, HandoffStep(p) \/ ReconcileStep(p) \/ ReceiptLost(p) \/ AbortThrows(p)
      PROVE  \/ UNCHANGED <<disp, attempt, subm, order>>
             \/ Claim(p) \/ RecordReceipt(p) \/ Reconcile(p) \/ ReconcileCommit(p)
  BY <1>4 DEF HandoffStep, ClaimRefused, SubmitHandoff, SubmitRefused, Handed,
     HandoffThrows, ReconcileStep, ReconcileRead, ReceiptLost, AbortThrows
<1>5. CASE DrainStep \/ SettleStep \/ TailStep
  BY <1>5 DEF DrainStep, DrainPick, DrainBreak, DrainEnd, DrainAwait, RecoverHandoff,
     RecoverReconcile, Recovered, SettleStep, SettleStart, SettleRelease, SettleWake, TailStep,
     TailStart, TailEnd
<1>6. CASE ObserveRunEnd \/ LanePlaces \/ LaneEnds \/ Reopen \/ Crash
  BY <1>6 DEF ObserveRunEnd, LanePlaces, LaneEnds, Reopen, Crash, Forget
<1> QED
  BY <1>1, <1>2, <1>3, <1>4, <1>5, <1>6 DEF Next, Mishap

-----------------------------------------------------------------------------
(* What a step does to the locals of a process.                            *)

Removing == {"removeNative", "removeCommit"}
Owning == {"exclusiveCheck", "exclusive"}

\* The calls that bring a new input.
Starts(p, i) == PromptStart(p, i) \/ SteerStart(p, i) \/ InterruptStart(p, i)

Same(p) == /\ pc'[p] = pc[p] /\ ret'[p] = ret[p] /\ kind'[p] = kind[p]
           /\ item'[p] = item[p] /\ att'[p] = att[p] /\ snap'[p] = snap[p]

\* How a process comes to submit, to bring an input, to have one, to select, remove
\* or promote one, to own the lane, and to commit inside a pass.
Moved(p) ==
  /\ pc'[p] \in {"submit", "record"} =>
       \/ Claim(p)
       \/ /\ pc[p] \in {"submit", "record"} /\ item'[p] = item[p] /\ att'[p] = att[p]
          /\ pc'[p] = "submit" => pc[p] = "submit"
  /\ Brings(p)' => (Brings(p) /\ item'[p] = item[p]) \/ \E i \in Fresh : Starts(p, i)
  /\ \/ item'[p] \in {item[p], None} \/ disp[item'[p]] # "absent"
     \/ \E i \in Fresh : Starts(p, i) /\ item'[p] = i
  /\ pc'[p] = "select" => kind'[p] = "select" \/ (pc[p] = "select" /\ kind'[p] = kind[p])
  /\ pc'[p] \in Removing =>
       \/ RemoveNative(p) \/ \E i \in Inputs : RemoveStart(p, i)
       \/ pc[p] = pc'[p] /\ item'[p] = item[p] /\ snap'[p] = snap[p]
  /\ pc'[p] = "promote" =>
       \/ pc[p] = "promote"
       \/ \E i \in Inputs, o \in {None, runHead} : PromoteStart(p, i, o)
  /\ pc'[p] \in Owning => pc[p] = pc'[p] \/ ExternalStart(p) \/ ExternalAdmit(p)
  /\ pc'[p] = "reconcileCommit" => pc[p] = "reconcileCommit" \/ Overtaking

\* A process that does not move.
LEMMA SameMoved == ASSUME NEW p \in Procs, Same(p) PROVE Moved(p)
BY DEF Same, Moved, Brings, Place

\* The places where an input comes from nowhere.
Special == {"submit", "record", "push", "select", "quiesce", "promote"} \cup Passing
             \cup Removing \cup Aborting \cup Owning

\* A process that comes to another place, with its input or none.
LEMMA ElsewhereMoved ==
  ASSUME NEW p \in Procs, pc'[p] \notin Special, item'[p] \in {item[p], None} PROVE Moved(p)
BY DEF Moved, Brings, Place, Special, Removing, Aborting, Passing, Owning

\* A process that reconciles, or comes back from it.
LEMMA PassMoved ==
  ASSUME NEW p \in Procs, item'[p] = item[p], kind'[p] = kind[p], pc'[p] \notin Removing,
         pc'[p] \notin {"push", "submit", "record", "select", "promote"} \cup Owning,
         pc'[p] = "reconcileCommit" => pc[p] = "reconcileCommit" \/ Overtaking,
         Place(p)' \in Aborting \cup {"quiesce"} => Place(p) \in Aborting \cup {"quiesce"}
  PROVE  Moved(p)
BY DEF Moved, Brings

\* The others do not move.
LEMMA GotoOthers ==
  ASSUME LocalOK, NEW p \in Procs, NEW l, Goto(p, l) \/ GotoReconcile(p, l) \/ Return(p)
  PROVE  \A q \in Procs \ {p} : Same(q)
BY DEF LocalOK, Goto, GotoReconcile, Return, Same

\* Nor when a call starts.
LEMMA BeginOthers ==
  ASSUME LocalOK, NEW c \in Callers, NEW k, NEW l, NEW i, NEW o, Begin(c, k, l, i, o),
         UNCHANGED snap \/ \E x : snap' = [snap EXCEPT ![c] = x]
  PROVE  \A q \in Procs \ {c} : Same(q)
BY DEF LocalOK, Begin, Same

\* Goto at an ordinary place, and a return.
LEMMA GotoMoved ==
  ASSUME LocalOK, NEW p \in Procs,
         (\E l : Goto(p, l) /\ l \notin Special) \/ Return(p)
  PROVE  \A q \in Procs : Moved(q)
<1>1. \A q \in Procs \ {p} : Moved(q)
  BY GotoOthers, SameMoved
<1>2. pc'[p] \notin Special /\ item'[p] \in {item[p], None}
  BY DEF LocalOK, Goto, Return, Special, Removing, Aborting, Passing, Owning
<1> QED BY <1>1, <1>2, ElsewhereMoved

\* A woken drain.
LEMMA WakeMoved ==
  ASSUME LocalOK, NEW pcs \in [Procs -> Labels], WakeDrain(pcs), UNCHANGED <<item, att, snap>>,
         \A q \in Procs : pcs[q] \in {pc[q], "idle"},
         \A q \in Procs : kind'[q] = kind[q] \/ (pcs[q] = "idle" /\ q # Drain)
  PROVE  \A q \in Procs : Moved(q)
<1> SUFFICES ASSUME NEW q \in Procs PROVE Moved(q)
  OBVIOUS
<1>1. CASE q = Drain /\ pcs[q] = "idle"
  <2>1. pc'[q] = "reconcile" /\ ret'[q] = "loop" /\ item'[q] = item[q] /\ kind'[q] = kind[q]
    BY <1>1 DEF LocalOK, WakeDrain
  <2> QED BY <2>1, PassMoved DEF Place, Removing, Aborting, Owning
<1>2. CASE q # Drain \/ pcs[q] # "idle"
  <2>1. pc'[q] = pcs[q] /\ ret'[q] = ret[q] /\ pcs[q] \in {pc[q], "idle"} /\ item'[q] = item[q]
    BY <1>2 DEF LocalOK, WakeDrain
  <2>2. CASE pcs[q] # "idle"
    BY <2>1, <2>2, SameMoved DEF Same
  <2>3. CASE pcs[q] = "idle"
    BY <2>1, <2>3, ElsewhereMoved DEF Special, Removing, Aborting, Passing, Owning
  <2> QED BY <2>2, <2>3
<1> QED BY <1>1, <1>2

\* A drain that ends.
LEMMA StopMoved == ASSUME LocalOK, DrainStops PROVE \A q \in Procs : Moved(q)
<1> SUFFICES ASSUME NEW q \in Procs PROVE Moved(q)
  OBVIOUS
<1>1. CASE q # Drain
  BY <1>1, SameMoved DEF LocalOK, DrainStops, Same
<1>2. CASE q = Drain
  BY <1>2 DEF LocalOK, DrainStops, Moved, Brings, Place, Removing, Aborting, Owning
<1> QED BY <1>1, <1>2

\* After a crash or a dispose.
LEMMA ForgetMoved == ASSUME Forget PROVE \A q \in Procs : Moved(q)
BY ElsewhereMoved DEF Forget, Special, Removing, Aborting, Passing, Owning

\* A selection is the work of a call of that kind.
SelectInv == \A p \in Procs : pc[p] = "select" => kind[p] = "select"

\* Every step of every process.
LEMMA StepMoved ==
  ASSUME QInv, SelectInv, [Next]_vars PROVE \A p \in Procs : Moved(p)
<1>0. LocalOK /\ RecordOK /\ ItemInv
  BY DEF QInv, TypeOK, RecordOK, LocalOK
<1>same. ASSUME UNCHANGED local PROVE \A p \in Procs : Moved(p)
  BY <1>same, SameMoved DEF local, Same
<1>own. ASSUME NEW p \in Procs, \A q \in Procs \ {p} : Same(q), Moved(p)
        PROVE  \A q \in Procs : Moved(q)
  BY <1>own, SameMoved
<1>1. CASE UNCHANGED vars
  BY <1>1, <1>same DEF vars
<1>2. CASE CallStarts
  <2>1. CASE Resume \/ \E i \in Fresh : Enqueue(i) \/ FollowUp(i)
    <3>1. WakeDrain(pc) /\ UNCHANGED <<kind, item, att, snap>>
      BY <2>1 DEF Enqueue, FollowUp, RetainIdle, Resume
    <3> QED BY <1>0, <3>1, WakeMoved DEF LocalOK
  <2>2. CASE Unlock
    BY <2>2, <1>same DEF Unlock
  <2>3. ASSUME NEW c \in Callers, NEW i \in Fresh, Starts(c, i) PROVE \A p \in Procs : Moved(p)
    <3>1. PICK k, l : Begin(c, k, l, i, None) \/ Begin(c, k, l, i, runHead)
      BY <2>3 DEF Starts, PromptStart, SteerStart, InterruptStart, UserBegin
    <3>2. pc'[c] \in {"push", "quiesce", "abort"} /\ item'[c] = i /\ UNCHANGED <<snap, ret>>
      BY <1>0, <2>3 DEF Starts, PromptStart, SteerStart, InterruptStart, UserBegin, Begin, LocalOK,
         Procs
    <3>3. \A q \in Procs \ {c} : Same(q)
      BY <1>0, <3>1, <3>2, BeginOthers
    <3>4. Moved(c)
      BY <2>3, <3>2 DEF Moved, Removing, Owning
    <3> QED BY <1>own, <3>3, <3>4 DEF Procs
  <2>4. ASSUME NEW c \in Callers, NEW i \in Inputs,
               \/ RemoveStart(c, i)
               \/ \E stale \in BOOLEAN : SelectStart(c, i, stale)
               \/ \E o \in {None, runHead} : PromoteStart(c, i, o)
        PROVE  \A p \in Procs : Moved(p)
    <3>1. PICK k, l, o : Begin(c, k, l, i, o)
      BY <2>4 DEF RemoveStart, SelectStart, PromoteStart, UserBegin
    <3>2. /\ pc'[c] \in {"refused", "select", "promote"} \cup Removing /\ item'[c] = i
          /\ kind'[c] # "interrupt" /\ (pc'[c] = "select" => kind'[c] = "select")
          /\ pc'[c] \in Removing => RemoveStart(c, i)
          /\ pc'[c] = "promote" => \E x \in {None, runHead} : PromoteStart(c, i, x)
      BY <1>0, <2>4 DEF RemoveStart, SelectStart, PromoteStart, UserBegin, Begin, LocalOK, Procs,
         Removing
    <3>3. disp[i] # "absent"
      BY <2>4 DEF RemoveStart, SelectStart, PromoteStart
    <3>4. UNCHANGED snap \/ \E x : snap' = [snap EXCEPT ![c] = x]
      BY <2>4 DEF RemoveStart, SelectStart, PromoteStart, UserBegin
    <3>5. \A q \in Procs \ {c} : Same(q)
      BY <1>0, <3>1, <3>4, BeginOthers
    <3>6. Moved(c)
      BY <3>2, <3>3 DEF Moved, Brings, Removing, Owning
    <3> QED BY <1>own, <3>5, <3>6 DEF Procs
  <2>5. ASSUME NEW c \in Callers, AbortStart(c) \/ Lock(c) \/ ExternalStart(c) \/ DisposeStart(c)
        PROVE  \A p \in Procs : Moved(p)
    <3>1. PICK k, l, o : Begin(c, k, l, None, o) /\ UNCHANGED snap
      BY <2>5 DEF AbortStart, Lock, ExternalStart, DisposeStart
    <3>2. /\ pc'[c] \in {"abortIntent", "idle", "abort", "exclusiveCheck", "close"}
          /\ item'[c] = None /\ kind'[c] # "interrupt"
          /\ pc'[c] = "exclusiveCheck" => ExternalStart(c)
      BY <1>0, <2>5 DEF AbortStart, Lock, ExternalStart, DisposeStart, Begin, LocalOK, Procs
    <3>3. \A q \in Procs \ {c} : Same(q)
      BY <1>0, <3>1, BeginOthers
    <3>4. Moved(c)
      BY <3>2 DEF Moved, Brings, Removing, Owning
    <3> QED BY <1>own, <3>3, <3>4 DEF Procs
  <2> QED BY <1>2, <2>1, <2>2, <2>3, <2>4, <2>5 DEF CallStarts, Starts, Fresh
<1>3. ASSUME NEW c \in Callers, CallStep(c) PROVE \A p \in Procs : Moved(p)
  <2>0. c \in Procs /\ c # Drain
    BY CallersAssumption DEF Procs
  <2>1. CASE \/ Push(c) \/ Own(c) \/ DisposeAbort(c)
             \/ UserRefused(c) \/ Promoted(c) \/ PromoteRefused(c) \/ Aborted(c) \/ RemoveTooLate(c)
             \/ RemoveCommit(c)
    <3>1. (\E l \in {"own", "claim", "closing"} : Goto(c, l)) \/ Return(c)
      BY <2>1 DEF Push, Own, DisposeAbort, UserRefused, Promoted, PromoteRefused,
         Aborted, RemoveTooLate, RemoveCommit
    <3> QED BY <1>0, <2>0, <3>1, GotoMoved DEF Special, Removing, Aborting, Passing, Owning
  <2>2. CASE SelectClaim(c) \/ AbortCheck(c) \/ AbortIntent(c) \/ Promote(c) \/ AbortNative(c)
    <3>1. \E l : Goto(c, l) \/ GotoReconcile(c, l)
      BY <2>2 DEF SelectClaim, AbortCheck, AbortIntent, Promote, AbortNative
    <3>2. UNCHANGED <<item, kind>>
      BY <3>1 DEF Goto, GotoReconcile
    <3>3. /\ pc'[c] \in {"quiesce", "abort", "abortIntent", "close", "aborted", "abortNative",
                         "reconcile"}
          /\ SelectClaim(c) \/ Promote(c) \/ Place(c) \in Aborting
          /\ Promote(c) => Place(c)' = "promoted"
      BY <1>0, <2>0, <2>2 DEF SelectClaim, AbortCheck, AbortIntent, Promote, AbortNative, AfterAbort,
         Goto, GotoReconcile, Place, Aborting, LocalOK
    <3>4. CASE SelectClaim(c)
      <4>1. kind[c] = "select"
        BY <2>0, <3>4 DEF SelectClaim, SelectInv
      <4>2. Moved(c)
        BY <3>2, <3>3, <4>1 DEF Moved, Brings, Removing, Owning
      <4> QED BY <1>0, <1>own, <2>0, <3>1, <4>2, GotoOthers
    <3>5. CASE ~SelectClaim(c)
      <4>1. Moved(c)
        BY <2>0, <3>2, <3>3, <3>5, PassMoved DEF Removing, Aborting, Owning
      <4> QED BY <1>0, <1>own, <2>0, <3>1, <4>1, GotoOthers
    <3> QED BY <3>4, <3>5
  <2>3. CASE Quiesced(c) \/ RemoveNative(c) \/ ExternalAdmit(c)
    <3>1. PICK l : Goto(c, l)
      BY <2>3 DEF Quiesced, RemoveNative, ExternalAdmit
    <3>2. /\ item'[c] = item[c] /\ kind'[c] = kind[c]
          /\ \/ pc[c] = "quiesce" /\ pc'[c] = IF kind[c] = "interrupt" THEN "push" ELSE "claim"
             \/ RemoveNative(c) /\ pc'[c] = "removeCommit"
             \/ ExternalAdmit(c) /\ pc'[c] = "exclusive"
      BY <1>0, <2>0, <2>3 DEF Quiesced, RemoveNative, ExternalAdmit, Goto, LocalOK
    <3>3. Moved(c)
      BY <2>0, <3>2 DEF Moved, Brings, Place, Removing, Aborting, Owning
    <3> QED BY <1>0, <1>own, <2>0, <3>1, <3>3, GotoOthers
  <2>4. CASE ExternalEnd(c)
    <3>1. /\ WakeDrain([pc EXCEPT ![c] = "idle"]) /\ UNCHANGED <<item, att, snap>>
          /\ kind' = [kind EXCEPT ![c] = "none"]
      BY <2>4 DEF ExternalEnd
    <3> QED BY <1>0, <2>0, <3>1, WakeMoved DEF LocalOK, Labels
  <2>5. CASE Disposed(c)
    BY <2>5, ForgetMoved DEF Disposed
  <2> QED BY <1>3, <2>1, <2>2, <2>3, <2>4, <2>5 DEF CallStep
<1>4. ASSUME NEW p \in Procs, HandoffStep(p) \/ ReceiptLost(p) \/ AbortThrows(p)
      PROVE  \A q \in Procs : Moved(q)
  <2>1. CASE Claim(p)
    <3>1. (\A q \in Procs \ {p} : Same(q)) /\ pc'[p] = "submit" /\ item'[p] = item[p]
      BY <1>0, <2>1 DEF Claim, LocalOK, Same
    <3>2. Moved(p)
      BY <2>1, <3>1 DEF Moved, Brings, Place, Removing, Aborting, Owning
    <3> QED BY <1>own, <3>1, <3>2
  <2>2. CASE SubmitHandoff(p)
    <3>1. (\A q \in Procs \ {p} : Same(q)) /\ pc[p] = "submit" /\ pc'[p] = "record"
          /\ item'[p] = item[p] /\ att'[p] = att[p]
      BY <1>0, <2>2, GotoOthers DEF SubmitHandoff, Goto, LocalOK
    <3>2. Moved(p)
      BY <3>1 DEF Moved, Brings, Place, Removing, Aborting, Owning
    <3> QED BY <1>own, <3>1, <3>2
  <2>3. CASE RecordReceipt(p)
    <3>1. GotoReconcile(p, "handed")
      BY <2>3 DEF RecordReceipt
    <3>2. pc'[p] = "reconcile" /\ ret'[p] = "handed" /\ item'[p] = item[p] /\ kind'[p] = kind[p]
      BY <1>0, <3>1 DEF GotoReconcile, LocalOK
    <3>3. Moved(p)
      BY <3>2, PassMoved DEF Place, Removing, Aborting, Owning
    <3> QED BY <1>0, <1>own, <3>1, <3>3, GotoOthers
  <2>4. CASE ClaimRefused(p) \/ Handed(p) \/ SubmitRefused(p) \/ ReceiptLost(p) \/ AbortThrows(p)
    <3>1. \/ \E l \in {"recover", "loop", "await", "close"} : Goto(p, l)
          \/ Return(p) \/ DrainStops
      BY <2>4 DEF ClaimRefused, Handed, SubmitRefused, ReceiptLost, HandoffThrows, AbortThrows
    <3> QED BY <1>0, <3>1, GotoMoved, StopMoved DEF Special, Removing, Aborting, Passing, Owning
  <2> QED BY <1>4, <2>1, <2>2, <2>3, <2>4 DEF HandoffStep
<1>5. ASSUME NEW p \in Procs, ReconcileStep(p) PROVE \A q \in Procs : Moved(q)
  <2>1. /\ pc[p] \in Passing
        /\ pc'[p] = ret[p] \/ (pc'[p] = "reconcileCommit" /\ (pc[p] = pc'[p] \/ Overtaking))
        /\ UNCHANGED <<ret, item, att, snap, kind>>
        /\ \A q \in Procs \ {p} : pc'[q] = pc[q]
    BY <1>0, <1>5 DEF ReconcileStep, Reconcile, ReconcileRead, ReconcileCommit, Goto, LocalOK, Passing
  <2>2. ret[p] \in RetLabels
    BY <1>0 DEF ItemInv
  <2>3. Place(p)' = Place(p)
    BY <2>1, <2>2 DEF Place, Passing, RetLabels
  <2>4. Moved(p)
    BY <2>1, <2>2, <2>3, PassMoved DEF RetLabels, Removing, Aborting, Owning
  <2> QED BY <1>own, <2>1, <2>4 DEF Same
<1>6. CASE DrainStep
  <2>0. Drain \in Procs
    BY DEF Procs
  <2>1. CASE DrainPick \/ RecoverHandoff
    <3>1. PICK i \in Inputs : item' = [item EXCEPT ![Drain] = i] /\ disp[i] # "absent"
      BY <2>1 DEF DrainPick, NextPending, RecoverHandoff
    <3>2. (\A q \in Procs \ {Drain} : Same(q)) /\ pc'[Drain] = "claim" /\ item'[Drain] = i
      BY <1>0, <2>0, <2>1, <3>1 DEF DrainPick, RecoverHandoff, LocalOK, Same
    <3>3. Moved(Drain)
      BY <3>1, <3>2 DEF Moved, Brings, Place, Removing, Aborting, Owning
    <3> QED BY <1>own, <2>0, <3>2, <3>3
  <2>2. CASE DrainBreak \/ Recovered
    BY <1>0, <2>0, <2>2, GotoMoved DEF DrainBreak, Recovered, Special, Removing, Aborting, Passing, Owning
  <2>3. CASE DrainAwait \/ RecoverReconcile
    <3>1. PICK l \in {"loop", "recovered"} : GotoReconcile(Drain, l)
      BY <2>3 DEF DrainAwait, RecoverReconcile
    <3>2. pc'[Drain] = "reconcile" /\ ret'[Drain] = l /\ UNCHANGED <<item, kind>>
      BY <1>0, <2>0, <3>1 DEF GotoReconcile, LocalOK
    <3>3. Moved(Drain)
      BY <2>0, <3>2, PassMoved DEF Place, Removing, Aborting, Owning
    <3> QED BY <1>0, <1>own, <2>0, <3>1, <3>3, GotoOthers
  <2>4. CASE DrainEnd
    BY <1>0, <2>4, StopMoved DEF DrainEnd
  <2> QED BY <1>6, <2>1, <2>2, <2>3, <2>4 DEF DrainStep
<1>7. CASE SettleStep
  <2>0. Settle \in Procs
    BY DEF Procs
  <2>1. CASE SettleStart
    <3>1. GotoReconcile(Settle, "release")
      BY <2>1 DEF SettleStart
    <3>2. pc'[Settle] = "reconcile" /\ ret'[Settle] = "release" /\ UNCHANGED <<item, kind>>
      BY <1>0, <2>0, <3>1 DEF GotoReconcile, LocalOK
    <3>3. Moved(Settle)
      BY <2>0, <3>2, PassMoved DEF Place, Removing, Aborting, Owning
    <3> QED BY <1>0, <1>own, <2>0, <3>1, <3>3, GotoOthers
  <2>2. CASE SettleRelease
    BY <1>0, <2>0, <2>2, GotoMoved DEF SettleRelease, Special, Removing, Aborting, Passing, Owning
  <2>3. CASE SettleWake
    BY <1>0, <2>3, WakeMoved DEF SettleWake, LocalOK, Labels
  <2> QED BY <1>7, <2>1, <2>2, <2>3 DEF SettleStep
<1>8. CASE TailStep
  <2>0. Tailer \in Procs
    BY DEF Procs
  <2>1. CASE \E r \in Req \cup {None} : TailStart(r)
    <3>1. /\ pc'[Tailer] \in {"tailed", "reconcile"} /\ ret'[Tailer] = "tailed"
          /\ UNCHANGED <<kind, item, att, snap>>
          /\ \A q \in Procs \ {Tailer} : pc'[q] = pc[q] /\ ret'[q] = ret[q]
      BY <1>0, <2>0, <2>1 DEF TailStart, LocalOK
    <3>2. Moved(Tailer)
      BY <2>0, <3>1, PassMoved DEF Place, Removing, Aborting, Owning
    <3> QED BY <1>own, <2>0, <3>1, <3>2 DEF Same
  <2>2. CASE TailEnd
    <3>1. CASE WakeDrain([pc EXCEPT ![Tailer] = "idle"])
      BY <1>0, <2>2, <3>1, WakeMoved DEF TailEnd, LocalOK, Labels
    <3>2. CASE pc' = [pc EXCEPT ![Tailer] = "idle"] /\ UNCHANGED ret
      <4>1. (\A q \in Procs \ {Tailer} : Same(q)) /\ pc'[Tailer] = "idle" /\ item'[Tailer] = item[Tailer]
        BY <1>0, <2>0, <2>2, <3>2 DEF TailEnd, LocalOK, Same
      <4>2. Moved(Tailer)
        BY <2>0, <4>1, ElsewhereMoved DEF Special, Removing, Aborting, Passing, Owning
      <4> QED BY <1>own, <2>0, <4>1, <4>2
    <3> QED BY <2>2, <3>1, <3>2 DEF TailEnd
  <2> QED BY <1>8, <2>1, <2>2 DEF TailStep
<1>9. CASE ObserveRunEnd \/ LanePlaces \/ LaneEnds
  BY <1>9, <1>same DEF ObserveRunEnd, LanePlaces, LaneEnds
<1>10. CASE Reopen
  <2>1. Drain \in Procs /\ Goto(Drain, "recover") /\ "recover" \notin Special
    BY <1>10 DEF Reopen, Procs, Special, Removing, Aborting, Passing, Owning
  <2> QED BY <1>0, <2>1, GotoMoved
<1>11. CASE Crash
  BY <1>11, ForgetMoved DEF Crash
<1> QED
  BY <1>1, <1>2, <1>3, <1>4, <1>5, <1>6, <1>7, <1>8, <1>9, <1>10, <1>11 DEF Next, Mishap

\* Without overtaken passes no commit falls inside one.
LEMMA Whole == ASSUME WholeInv PROVE \A p \in Procs : ~ReconcileCommit(p)
BY DEF WholeInv, ReconcileCommit

\* What the record says of an input whose request enters.
LEMMA StepEnters ==
  ASSUME QInv, RunInv, CarriedInv, [Next]_vars
  PROVE  /\ RunInv'
         /\ \A i \in Inputs, a \in Attempts :
              \/ Settled(<<i, a>>)
              \/ /\ sub[<<i, a>>] = "none" /\ a = attempt[i]
                 /\ attempt'[i] = attempt[i] /\ disp'[i] = "handoff"
<1>0. RecordOK /\ ItemInv
  BY DEF QInv, TypeOK, RecordOK
<1>1. CASE \A q \in Req : Settled(q)
  BY <1>1, StepSettled DEF Req
<1>2. ASSUME NEW p \in Procs, SubmitHandoff(p),
             \A q \in Req : Settled(q) \/ (q = <<item[p], att[p]>> /\ sub[q] = "none")
      PROVE  \A i \in Inputs, a \in Attempts :
               \/ Settled(<<i, a>>)
               \/ /\ sub[<<i, a>>] = "none" /\ a = attempt[i]
                  /\ attempt'[i] = attempt[i] /\ disp'[i] = "handoff"
  <2>1. att[p] = attempt[item[p]] /\ disp[item[p]] = "handoff" /\ UNCHANGED <<attempt, disp>>
    BY <1>2 DEF SubmitHandoff, CarriedInv, record
  <2> QED BY <1>2, <2>1 DEF Req
<1>3. ASSUME NEW c \in Callers, Promote(c),
             \A q \in Req : Settled(q) \/ (q = <<item[c], attempt[item[c]]>> /\ sub[q] = "none")
      PROVE  \A i \in Inputs, a \in Attempts :
               \/ Settled(<<i, a>>)
               \/ /\ sub[<<i, a>>] = "none" /\ a = attempt[i]
                  /\ attempt'[i] = attempt[i] /\ disp'[i] = "handoff"
  <2>1. UNCHANGED attempt /\ disp' = [disp EXCEPT ![item[c]] = "handoff"]
    BY <1>3 DEF Promote
  <2> QED BY <1>0, <1>3, <2>1 DEF Req, RecordOK
<1> QED BY <1>1, <1>2, <1>3, StepSettled

\* Nobody else is inside handoff() with an input that p claims.
LEMMA ClaimAlone ==
  ASSUME HandoffInv, NEW p \in Procs, Claim(p), NEW q \in Procs,
         pc[q] \in {"submit", "record"}, item[q] = item[p]
  PROVE  FALSE
<1>1. Holds(q) /\ q # p
  BY DEF Holds, Place, Claim
<1>2. CASE p = Drain
  <2>1. Holds(p)
    BY <1>2 DEF Holds, Claim
  <2> QED BY <1>1, <2>1 DEF HandoffInv
<1>3. CASE p # Drain
  BY <1>1, <1>3 DEF HandoffInv, Claim, Claimable
<1> QED BY <1>2, <1>3

\* The receipts.
LEMMA StepReceipt ==
  ASSUME QInv, OnceInv, [Next]_vars PROVE ReceiptInv'
<1>0. RecordOK /\ LocalOK /\ ItemInv /\ RecordOK' /\ LaneTypeOK
  <2>1. QInv'
    BY StepQ
  <2> QED BY <2>1 DEF QInv, TypeOK, RecordOK, LocalOK
<1> USE DEF OnceInv
<1>1. \A i \in Inputs, a \in Attempts :
        \/ Settled(<<i, a>>)
        \/ /\ sub[<<i, a>>] = "none" /\ a = attempt[i]
           /\ attempt'[i] = attempt[i] /\ disp'[i] = "handoff"
  BY StepEnters
<1> SUFFICES ASSUME NEW i \in Inputs
    PROVE  /\ subm'[i] \in {NoSub, attempt'[i]}
           /\ \A a \in Attempts : a # attempt'[i] => sub'[<<i, a>>] \in Unentered
           /\ disp'[i] \in {"absent", "pending"} => subm'[i] = NoSub
           /\ disp'[i] \in {"absent", "pending", "removed"} =>
                \A a \in Attempts : sub'[<<i, a>>] \in Unentered
  BY DEF ReceiptInv
<1>2. /\ subm[i] \in {NoSub, attempt[i]}
      /\ \A a \in Attempts : a # attempt[i] => sub[<<i, a>>] \in Unentered
      /\ disp[i] \in {"absent", "pending"} => subm[i] = NoSub
      /\ disp[i] \in {"absent", "pending", "removed"} =>
           \A a \in Attempts : sub[<<i, a>>] \in Unentered
  BY DEF ReceiptInv
<1>3. ASSUME attempt'[i] = attempt[i], subm'[i] \in {NoSub, attempt[i]},
             disp'[i] \in {"absent", "pending"} => subm'[i] = NoSub,
             disp'[i] \in {"absent", "pending", "removed"} =>
               \A a \in Attempts : sub[<<i, a>>] \in Unentered
      PROVE  /\ \A a \in Attempts : a # attempt'[i] => sub'[<<i, a>>] \in Unentered
             /\ disp'[i] \in {"absent", "pending", "removed"} =>
                  \A a \in Attempts : sub'[<<i, a>>] \in Unentered
  BY <1>1, <1>2, <1>3 DEF Settled
<1>4. CASE UNCHANGED <<disp, attempt, subm, order>>
  BY <1>2, <1>3, <1>4
<1>5. CASE \E j \in Fresh : Enqueue(j) \/ FollowUp(j)
  BY <1>0, <1>2, <1>3, <1>5 DEF Enqueue, FollowUp, RetainIdle, Retain, Fresh, RecordOK
<1>6. ASSUME NEW c \in Callers, Push(c)
      PROVE  /\ disp[item[c]] = "absent" /\ disp' = [disp EXCEPT ![item[c]] = "pending"]
             /\ UNCHANGED <<attempt, subm>>
  BY <1>6 DEF Push, Retain, NewInv, Brings, Procs
<1>7. CASE \E c \in Callers : Push(c)
  <2>1. disp'[i] = disp[i] \/ (disp[i] = "absent" /\ disp'[i] = "pending")
    BY <1>0, <1>6, <1>7 DEF RecordOK
  <2>2. attempt'[i] = attempt[i] /\ subm'[i] = subm[i]
    BY <1>6, <1>7
  <2> QED BY <1>2, <1>3, <2>1, <2>2
<1>8. CASE \E c \in Callers : Own(c) \/ SelectClaim(c)
  BY <1>0, <1>2, <1>3, <1>8 DEF Own, SelectClaim, RecordOK
<1>9. CASE \E c \in Callers : Promote(c)
  BY <1>0, <1>2, <1>3, <1>9 DEF Promote, Promotable, RecordOK
<1>10. ASSUME NEW c \in Callers, RemoveCommit(c) PROVE disp'[i] \in {disp[i], "removed"} /\
         (disp'[i] # disp[i] => \A a \in Attempts : sub[<<i, a>>] \in Unentered)
  <2>1. CASE ~Removable(c) \/ item[c] # i
    BY <1>0, <1>10, <2>1 DEF RemoveCommit, RecordOK
  <2>2. CASE Removable(c) /\ item[c] = i /\ snap[c] = NoSub
    BY <1>0, <1>2, <1>10, <2>2 DEF RemoveCommit, Removable, RecordOK
  <2>3. CASE Removable(c) /\ item[c] = i /\ snap[c] # NoSub
    <3>1. sub[<<i, snap[c]>>] = "withdrawn" /\ snap[c] = attempt[i]
      BY <1>2, <1>10, <2>3 DEF RemoveCommit, Removable, RemovalInv
    <3> QED BY <1>0, <1>2, <1>10, <2>3, <3>1 DEF RemoveCommit, RecordOK, Unentered
  <2> QED BY <2>1, <2>2, <2>3
<1>11. CASE \E c \in Callers : RemoveCommit(c)
  <2>1. attempt'[i] = attempt[i] /\ subm'[i] = subm[i]
    BY <1>11 DEF RemoveCommit
  <2> QED BY <1>2, <1>3, <1>10, <1>11, <2>1
<1>12. CASE \E p \in Procs : Claim(p)
  BY <1>0, <1>2, <1>3, <1>12 DEF Claim, RecordOK
<1>13. ASSUME NEW p \in Procs, RecordReceipt(p)
       PROVE  /\ attempt' = attempt /\ disp' = disp
              /\ subm' = [subm EXCEPT ![item[p]] = attempt[item[p]]]
              /\ disp[item[p]] = "handoff"
  BY <1>13 DEF RecordReceipt, CarriedInv
<1>14. CASE \E p \in Procs : RecordReceipt(p)
  BY <1>0, <1>2, <1>3, <1>13, <1>14 DEF RecordOK
<1>15. CASE \E p \in Procs : Reconcile(p)
  <2> DEFINE v == [j \in Inputs |-> Verdict(j, Snapshot[j])]
  <2>1. Apply(v) /\ UNCHANGED sub
    BY <1>15 DEF Reconcile, native, lane
  <2>2. CASE ~Retries(v, i)
    <3>1. attempt'[i] = attempt[i] /\ subm'[i] = subm[i]
          /\ disp'[i] \in {disp[i], "uncertain", "consumed"}
      BY <2>1, <2>2 DEF Apply
    <3> QED BY <1>2, <1>3, <3>1
  <2>3. CASE Retries(v, i)
    <3>1. sub[<<i, attempt[i]>>] = "withdrawn"
      BY <1>2, <2>3 DEF Retries, Verdict, Snapshot
    <3>2. attempt'[i] = attempt[i] + 1 /\ subm'[i] = NoSub /\ disp'[i] = "pending"
      BY <2>1, <2>3 DEF Apply, Retries
    <3>3. \A a \in Attempts : sub'[<<i, a>>] \in Unentered
      BY <1>2, <2>1, <3>1 DEF Unentered
    <3> QED BY <3>2, <3>3
  <2> QED BY <2>2, <2>3
<1> QED
  BY <1>4, <1>5, <1>7, <1>8, <1>9, <1>11, <1>12, <1>14, <1>15, RecordWriters, Whole

\* Those who submit.
LEMMA StepCarried ==
  ASSUME QInv, OnceInv, SelectInv, [Next]_vars PROVE CarriedInv'
<1>0. RecordOK /\ LocalOK /\ ItemInv /\ HandoffInv
  BY DEF QInv, TypeOK, RecordOK, LocalOK
<1> USE DEF OnceInv
<1> SUFFICES ASSUME NEW p \in Procs, pc'[p] \in {"submit", "record"}
    PROVE  /\ disp'[item'[p]] = "handoff" /\ subm'[item'[p]] = NoSub
           /\ att'[p] = attempt'[item'[p]]
  BY DEF CarriedInv
<1>1. CASE Claim(p)
  <2>1. item[p] \in Inputs
    BY <1>0, <1>1 DEF Claim, ItemInv, Place, Needs, Carrying
  <2>2. subm[item[p]] = NoSub
    BY <1>1, <2>1 DEF Claim, Claimable, ReceiptInv
  <2> QED BY <1>0, <1>1, <2>1, <2>2 DEF Claim, RecordOK, LocalOK
<1>2. CASE ~Claim(p)
  <2> DEFINE i == item[p]
  <2>1. pc[p] \in {"submit", "record"} /\ item'[p] = i /\ att'[p] = att[p]
    BY <1>2, StepMoved DEF Moved
  <2>2. /\ i \in Inputs /\ i \in handingOff
        /\ disp[i] = "handoff" /\ subm[i] = NoSub /\ att[p] = attempt[i]
    BY <1>0, <2>1 DEF ItemInv, Place, Needs, Carrying, HandoffInv, Holds, CarriedInv
  <2>3. CASE UNCHANGED <<disp, attempt, subm, order>>
    BY <2>1, <2>2, <2>3
  <2>4. CASE \E j \in Fresh : Enqueue(j) \/ FollowUp(j)
    BY <1>0, <2>1, <2>2, <2>4 DEF Enqueue, FollowUp, RetainIdle, Retain, Fresh, RecordOK
  <2>5. ASSUME NEW c \in Callers, Push(c)
        PROVE  /\ disp[item[c]] = "absent" /\ disp' = [disp EXCEPT ![item[c]] = "pending"]
               /\ UNCHANGED <<attempt, subm>>
    BY <2>5 DEF Push, Retain, NewInv, Brings, Procs
  <2>6. CASE \E c \in Callers : Push(c)
    <3>1. disp'[i] = disp[i] /\ UNCHANGED <<attempt, subm>>
      BY <1>0, <2>2, <2>5, <2>6 DEF RecordOK
    <3> QED BY <2>1, <2>2, <3>1
  <2>7. CASE \E c \in Callers : Own(c) \/ SelectClaim(c) \/ Promote(c)
    BY <1>0, <2>1, <2>2, <2>7 DEF Own, SelectClaim, Promote, Promotable, RecordOK
  <2>8. CASE \E c \in Callers : RemoveCommit(c)
    BY <1>0, <2>1, <2>2, <2>8 DEF RemoveCommit, Removable, RecordOK
  <2>9. CASE \E q \in Procs : Claim(q)
    BY <1>0, <2>1, <2>2, <2>9 DEF Claim, RecordOK
  <2>10. ASSUME NEW q \in Procs, RecordReceipt(q) PROVE item[q] # i
    <3>1. CASE q = p
      BY <1>0, <2>10, <3>1 DEF RecordReceipt, GotoReconcile, LocalOK
    <3>2. CASE q # p
      BY <1>0, <2>1, <2>10, <3>2 DEF RecordReceipt, HandoffInv, Holds, Place
    <3> QED BY <3>1, <3>2
  <2>11. CASE \E q \in Procs : RecordReceipt(q)
    BY <1>0, <2>1, <2>2, <2>10, <2>11, ZenonT(30) DEF RecordReceipt, RecordOK
  <2>12. CASE \E q \in Procs : Reconcile(q)
    <3> DEFINE v == [j \in Inputs |-> Verdict(j, Snapshot[j])]
    <3>1. Apply(v)
      BY <2>12 DEF Reconcile
    <3>2. v[i] = "keep"
      BY <2>2 DEF Verdict, Snapshot
    <3> QED BY <2>1, <2>2, <3>1, <3>2 DEF Apply, Retries
  <2> QED
    BY <2>3, <2>4, <2>6, <2>7, <2>8, <2>9, <2>11, <2>12, RecordWriters, Whole
<1> QED BY <1>1, <1>2

\* The inputs that calls bring.
LEMMA StepNew ==
  ASSUME QInv, NewInv, PresentInv, SelectInv, [Next]_vars PROVE NewInv'
<1>0. RecordOK /\ LocalOK /\ ItemInv
  BY DEF QInv, TypeOK, RecordOK, LocalOK
<1> SUFFICES ASSUME NEW p \in Procs, Brings(p)'
    PROVE  /\ disp'[item'[p]] = "absent"
           /\ \A q \in Procs : item'[q] = item'[p] => q = p
  BY DEF NewInv
<1>1. CASE \E i \in Fresh : Starts(p, i)
  <2>1. PICK i \in Fresh : Starts(p, i)
    BY <1>1
  <2>2. item' = [item EXCEPT ![p] = i] /\ UNCHANGED disp
    BY <2>1 DEF Starts, PromptStart, SteerStart, InterruptStart, UserBegin, Begin, record
  <2> QED BY <1>0, <2>1, <2>2 DEF Fresh, LocalOK
<1>2. CASE Brings(p) /\ item'[p] = item[p]
  <2> DEFINE i == item[p]
  <2>1. i \in Inputs /\ disp[i] = "absent" /\ \A q \in Procs : item[q] = i => q = p
    BY <1>0, <1>2 DEF NewInv, ItemInv, Brings, Place, Needs, Carrying
  <2>2. ASSUME NEW q \in Procs, item'[q] = i PROVE q = p
    <3>1. i # None
      BY <2>1, NoneAssumption
    <3>2. \/ item'[q] \in {item[q], None} \/ disp[item'[q]] # "absent"
          \/ \E j \in Fresh : item'[q] = j
      BY StepMoved DEF Moved
    <3> QED BY <2>1, <2>2, <3>1, <3>2 DEF Fresh
  <2>3. disp'[i] = "absent"
    <3>1. CASE UNCHANGED <<disp, attempt, subm, order>>
      BY <2>1, <3>1
    <3>2. CASE \E j \in Fresh : Enqueue(j) \/ FollowUp(j)
      BY <1>0, <2>1, <3>2 DEF Enqueue, FollowUp, RetainIdle, Retain, Fresh, RecordOK
    <3>3. ASSUME NEW c \in Callers, Push(c) PROVE item[c] # i
      <4>1. CASE c = p
        <5>1. pc'[p] \in {"own", "claim"}
          BY <1>0, <3>3, <4>1 DEF Push, Goto, LocalOK
        <5> QED BY <5>1 DEF Brings, Place, Aborting
      <4> QED BY <2>1, <4>1 DEF Procs
    <3>4. CASE \E c \in Callers : Push(c)
      BY <1>0, <2>1, <3>3, <3>4 DEF Push, Retain, RecordOK
    <3>5. CASE \E c \in Callers : Own(c) \/ SelectClaim(c) \/ Promote(c)
      BY <1>0, <2>1, <3>5 DEF Own, SelectClaim, Promote, Promotable, RecordOK
    <3>6. CASE \E c \in Callers : RemoveCommit(c)
      BY <1>0, <2>1, <3>6 DEF RemoveCommit, Removable, RecordOK, PresentInv
    <3>7. CASE \E q \in Procs : Claim(q)
      BY <1>0, <2>1, <3>7 DEF Claim, Claimable, RecordOK
    <3>8. CASE \E q \in Procs : RecordReceipt(q)
      BY <2>1, <3>8 DEF RecordReceipt
    <3>9. CASE \E q \in Procs : Reconcile(q)
      <4> DEFINE v == [j \in Inputs |-> Verdict(j, Snapshot[j])]
      <4>1. Apply(v)
        BY <3>9 DEF Reconcile
      <4>2. v[i] = "keep"
        BY <2>1 DEF Verdict, Snapshot, Skip, NoSub
      <4> QED BY <2>1, <4>1, <4>2 DEF Apply
    <3>10. CASE \E q \in Procs : ReconcileCommit(q)
      <4>1. PICK q \in Procs, j \in Inputs :
              /\ NextTodo(q, j)
              /\ Apply([k \in Inputs |-> IF k = j THEN Verdict(j, todo[q][j]) ELSE "keep"])
        BY <3>10 DEF ReconcileCommit
      <4>2. j # i
        BY <2>1, <4>1 DEF NextTodo, PresentInv
      <4> QED BY <2>1, <4>1, <4>2 DEF Apply
    <3> QED BY <3>1, <3>2, <3>4, <3>5, <3>6, <3>7, <3>8, <3>9, <3>10, RecordWriters
  <2> QED BY <1>2, <2>2, <2>3
<1> QED BY <1>1, <1>2, StepMoved DEF Moved

\* Whatever was retained stays in the record.
LEMMA StepRetained ==
  ASSUME QInv, [Next]_vars, NEW i \in Inputs, disp[i] # "absent" PROVE disp'[i] # "absent"
<1>0. RecordOK
  BY DEF QInv, TypeOK, RecordOK
<1>1. ASSUME NEW v, Apply(v) PROVE disp'[i] # "absent"
  BY <1>1 DEF Apply
<1> QED
  BY <1>0, <1>1, RecordWriters DEF Enqueue, FollowUp, RetainIdle, Push, Retain, Own, SelectClaim,
     Promote, RemoveCommit, Claim, RecordReceipt, Reconcile, ReconcileCommit, RecordOK

\* The queue grows at its end, by retention only.
LEMMA OrderWriters ==
  ASSUME QInv, [Next]_vars PROVE order' = order \/ \E i \in Inputs : \E x : Retain(i, x)
<1>1. ASSUME NEW c \in Callers, Push(c) PROVE item[c] \in Inputs
  BY <1>1 DEF QInv, Push, ItemInv, Place, Needs, Carrying, Procs
<1> QED
  BY <1>1, RecordWriters DEF Enqueue, FollowUp, RetainIdle, Push, Own, SelectClaim, Promote,
     RemoveCommit, Claim, RecordReceipt, Reconcile, ReconcileCommit, Apply, Fresh

\* The inputs in the queue, and those that never were.
LEMMA StepPresent ==
  ASSUME QInv, PresentInv, SelectInv, [Next]_vars PROVE PresentInv'
<1>0. RecordOK /\ ItemInv /\ RecordOK'
  <2>1. QInv'
    BY StepQ
  <2> QED BY <2>1 DEF QInv, TypeOK, RecordOK
<1>1. ASSUME NEW p \in Procs, pc'[p] \in {"submit", "record"} PROVE disp'[item'[p]] # "absent"
  <2>1. CASE Claim(p)
    <3>1. item[p] \in Inputs
      BY <1>0, <2>1 DEF Claim, ItemInv, Place, Needs, Carrying
    <3> QED BY <1>0, <2>1, <3>1 DEF Claim, RecordOK
  <2>2. CASE pc[p] \in {"submit", "record"} /\ item'[p] = item[p]
    <3>1. item[p] \in Inputs /\ disp[item[p]] # "absent"
      BY <1>0, <2>2 DEF PresentInv, ItemInv, Place, Needs, Carrying
    <3> QED BY <2>2, <3>1, StepRetained
  <2> QED BY <1>1, <2>1, <2>2, StepMoved DEF Moved
<1>2. ASSUME NEW k \in DOMAIN order' PROVE disp'[order'[k]] # "absent"
  <2>1. CASE order' = order
    <3>1. order[k] \in Inputs /\ disp[order[k]] # "absent"
      BY <1>0, <1>2, <2>1 DEF PresentInv, RecordOK
    <3> QED BY <2>1, <3>1, StepRetained
  <2>2. ASSUME NEW i \in Inputs, NEW x, Retain(i, x) PROVE disp'[order'[k]] # "absent"
    <3>1. CASE k \in DOMAIN order
      <4>1. order'[k] = order[k] /\ order[k] \in Inputs /\ disp[order[k]] # "absent"
        BY <1>0, <2>2, <3>1 DEF PresentInv, RecordOK, Retain
      <4> QED BY <4>1, StepRetained
    <3>2. CASE k \notin DOMAIN order
      <4>1. order'[k] = i
        BY <1>0, <1>2, <2>2, <3>2 DEF RecordOK, Retain
      <4> QED BY <1>0, <2>2, <4>1 DEF RecordOK, Retain
    <3> QED BY <3>1, <3>2
  <2> QED BY <2>1, <2>2, OrderWriters
<1>3. ASSUME NEW i \in Inputs, disp'[i] = "absent" PROVE subm'[i] = NoSub
  <2>1. disp[i] = "absent" /\ subm[i] = NoSub
    BY <1>3, StepRetained DEF PresentInv
  <2>2. ASSUME NEW p \in Procs, RecordReceipt(p) PROVE item[p] # i
    BY <2>1, <2>2 DEF RecordReceipt, PresentInv
  <2>3. ASSUME NEW c \in Callers, Promote(c) PROVE item[c] # i
    BY <2>1, <2>3 DEF Promote, Promotable
  <2>4. ASSUME NEW v, Apply(v) PROVE subm'[i] \in {subm[i], NoSub}
    BY <2>4 DEF Apply
  <2> QED
    BY <1>0, <2>1, <2>2, <2>3, <2>4, RecordWriters DEF Enqueue, FollowUp, RetainIdle, Push, Retain,
       Own, SelectClaim, Promote, RemoveCommit, Claim, RecordReceipt, Reconcile, ReconcileCommit,
       RecordOK
<1> QED BY <1>1, <1>2, <1>3 DEF PresentInv

\* The inputs that calls remove.
LEMMA StepRemoval ==
  ASSUME QInv, OnceInv, SelectInv, [Next]_vars PROVE RemovalInv'
<1>0. RecordOK /\ LocalOK /\ LaneTypeOK
  BY DEF QInv, TypeOK, RecordOK, LocalOK
<1> USE DEF OnceInv
<1> SUFFICES ASSUME NEW c \in Callers, pc'[c] \in Removing
    PROVE  /\ item'[c] \in Inputs
           /\ pc'[c] = "removeCommit" /\ snap'[c] # NoSub => sub'[<<item'[c], snap'[c]>>] = "withdrawn"
  BY DEF RemovalInv, Removing
<1>1. c \in Procs
  BY DEF Procs
<1>2. CASE RemoveNative(c)
  <2>1. item'[c] = item[c] /\ snap'[c] = snap[c] /\ item[c] \in Inputs /\ snap[c] \in Attempts \cup {NoSub}
    BY <1>0, <1>1, <1>2 DEF RemoveNative, Goto, RemovalInv, LocalOK
  <2> QED BY <1>0, <1>2, <2>1 DEF RemoveNative, Withdraw, LaneTypeOK, Req
<1>3. CASE \E i \in Inputs : RemoveStart(c, i)
  BY <1>0, <1>1, <1>3 DEF RemoveStart, Begin, LocalOK
<1>4. CASE pc[c] = pc'[c] /\ item'[c] = item[c] /\ snap'[c] = snap[c]
  <2>1. item[c] \in Inputs /\ snap[c] \in Attempts \cup {NoSub}
    BY <1>0, <1>1, <1>4 DEF RemovalInv, LocalOK, Removing
  <2>2. ASSUME pc[c] = "removeCommit", snap[c] # NoSub
        PROVE  sub'[<<item[c], snap[c]>>] = "withdrawn"
    <3>1. sub[<<item[c], snap[c]>>] = "withdrawn"
      BY <2>2 DEF RemovalInv
    <3> QED BY <2>1, <2>2, <3>1, StepEnters DEF Settled, Unentered
  <2> QED BY <1>4, <2>1, <2>2
<1> QED BY <1>1, <1>2, <1>3, <1>4, StepMoved DEF Moved

\* The initial states.
LEMMA InitOnce == Init => OnceInv /\ SelectInv /\ ExclusiveInv
BY MaxAttemptAssumption
   DEF Init, LaneInit, OnceInv, SelectInv, ExclusiveInv, RunInv, ReceiptInv, CarriedInv, NewInv,
     PresentInv, Brings, Place, Aborting, RemovalInv, WholeInv, Unentered, Req, Procs

\* Selections, whatever overtakes a pass.
LEMMA StepSelect ==
  ASSUME QInv, SelectInv, [Next]_vars PROVE SelectInv'
BY StepMoved DEF Moved, SelectInv

\* Every step, if passes are not overtaken.
LEMMA StepOnce ==
  ASSUME ~Overtaking, QInv, OnceInv, SelectInv, [Next]_vars PROVE OnceInv' /\ SelectInv'
<1>1. RunInv'
  BY StepEnters DEF OnceInv
<1>2. WholeInv'
  BY StepMoved DEF Moved, OnceInv, WholeInv
<1> QED
  BY <1>1, <1>2, StepReceipt, StepCarried, StepNew, StepPresent, StepRemoval, StepSelect DEF OnceInv

\* The invariant of a queue whose passes are not overtaken.
LEMMA OnceInvariance == ASSUME ~Overtaking PROVE Spec => [](QInv /\ OnceInv)
<1>1. Init => QInv /\ OnceInv /\ SelectInv
  BY InitQ, InitOnce
<1>2. QInv /\ OnceInv /\ SelectInv /\ [Next]_vars => (QInv /\ OnceInv /\ SelectInv)'
  BY StepQ, StepOnce
<1> QED BY <1>1, <1>2, PTL DEF Spec

\* An input enters the transcript at most once, however often it is claimed, cancelled,
\* requeued, recovered and submitted: directHarnessRuntime gives every retry a new request
\* identity, and only after the receipt of the one before was withdrawn.
THEOREM EnteredOnce == ASSUME ~Overtaking PROVE Spec => []AtMostOnce
<1>1. OnceInv => AtMostOnce
  <2> SUFFICES ASSUME OnceInv, NEW i \in Inputs, NEW a \in Attempts, NEW b \in Attempts,
                      sub[<<i, a>>] \in Placed, sub[<<i, b>>] \in Placed
               PROVE  a = b
    BY DEF AtMostOnce
  <2> QED BY DEF OnceInv, ReceiptInv, Unentered, Placed
<1> QED BY <1>1, OnceInvariance, PTL

\* An input that removeQueued reported as removed never enters the transcript, and nobody
\* is about to submit it, whichever calls and recoveries were in progress.
THEOREM RemovedStaysOut == ASSUME ~Overtaking PROVE Spec => []RemovedNeverRuns
<1>1. OnceInv => RemovedNeverRuns
  BY DEF OnceInv, ReceiptInv, CarriedInv, RemovedNeverRuns, Unentered
<1> QED BY <1>1, OnceInvariance, PTL

-----------------------------------------------------------------------------
(* External operations, whatever overtakes a pass.                         *)

\* Who claims the lane for an external operation, who holds the admission, and who
\* starts a run where there was none.
LEMMA OwnerWriters ==
  ASSUME QInv, [Next]_vars
  PROVE  /\ \/ UNCHANGED external
            \/ external = None
            \/ Forget
            \/ \E c \in Callers : ExternalEnd(c)
         /\ \/ UNCHANGED admitting
            \/ admitting = None /\ external = None
            \/ Forget
            \/ admitting' = None /\ pc'[admitting] = "idle" /\ kind'[admitting] = "none"
         /\ runHead = None /\ runHead' # None =>
              (\E p \in Procs : pc[p] = "submit") \/ \E c \in Callers : pc[c] = "promote"
<1>0. LaneTypeOK /\ LocalOK
  BY DEF QInv, TypeOK, LocalOK
<1>same. ASSUME UNCHANGED <<external, admitting, runHead>>
         PROVE  /\ UNCHANGED external /\ UNCHANGED admitting
                /\ ~(runHead = None /\ runHead' # None)
  BY <1>same
<1>1. CASE UNCHANGED vars
  BY <1>1 DEF vars, memory, native, lane
<1>2. CASE CallStarts
  BY <1>2 DEF CallStarts, Enqueue, FollowUp, RetainIdle, Resume, Unlock, PromptStart, SteerStart,
     InterruptStart, SelectStart, RemoveStart, PromoteStart, UserBegin, UserGuards, AbortStart,
     Lock, ExternalStart, DisposeStart, memory, native, lane
<1>release. ASSUME NEW p \in Procs, Return(p), Release(p)
            PROVE  \/ UNCHANGED admitting
                   \/ admitting' = None /\ pc'[admitting] = "idle" /\ kind'[admitting] = "none"
  BY <1>0, <1>release DEF Return, Release, LocalOK
<1>3. ASSUME NEW c \in Callers, CallStep(c)
      PROVE  /\ \/ UNCHANGED external
                \/ Forget
                \/ ExternalEnd(c)
             /\ \/ UNCHANGED admitting
                \/ Forget
                \/ admitting' = None /\ pc'[admitting] = "idle" /\ kind'[admitting] = "none"
             /\ runHead = None /\ runHead' # None => pc[c] = "promote"
  <2>1. CASE UserRefused(c) \/ Promoted(c) \/ PromoteRefused(c)
    BY <1>release, <2>1 DEF UserRefused, Promoted, PromoteRefused, native, lane, Procs
  <2>2. CASE Disposed(c)
    BY <2>2 DEF Disposed, Forget, lane
  <2>3. CASE AbortNative(c) \/ DisposeAbort(c) \/ RemoveNative(c)
    BY <2>3 DEF AbortNative, DisposeAbort, RemoveNative, Abort, Withdraw, memory
  <2>4. CASE Promote(c) \/ ExternalEnd(c)
    BY <2>4 DEF Promote, ExternalEnd, memory, native, lane
  <2>5. CASE ~(\/ UserRefused(c) \/ Promoted(c) \/ PromoteRefused(c) \/ Disposed(c)
               \/ AbortNative(c) \/ DisposeAbort(c) \/ RemoveNative(c) \/ Promote(c)
               \/ ExternalEnd(c))
    BY <1>3, <2>5 DEF CallStep, Push, Own, SelectClaim, Quiesced, AbortCheck, AbortIntent, Aborted,
       RemoveTooLate, RemoveCommit, ExternalAdmit, memory, native, lane
  <2> QED BY <2>1, <2>2, <2>3, <2>4, <2>5
<1>4. ASSUME NEW p \in Procs, HandoffStep(p) \/ ReceiptLost(p) \/ AbortThrows(p)
      PROVE  /\ UNCHANGED external
             /\ \/ UNCHANGED admitting
                \/ admitting' = None /\ pc'[admitting] = "idle" /\ kind'[admitting] = "none"
             /\ runHead = None /\ runHead' # None => pc[p] = "submit"
  <2>1. CASE ClaimRefused(p) \/ Handed(p)
    BY <1>release, <2>1 DEF ClaimRefused, Handed, native, lane
  <2>2. CASE SubmitRefused(p) \/ ReceiptLost(p)
    <3>1. HandoffThrows(p)
      BY <2>2 DEF SubmitRefused, ReceiptLost
    <3>2. UNCHANGED external /\ UNCHANGED runHead /\ Release(p) /\ (Return(p) \/ (p = Drain /\ DrainStops))
      BY <3>1 DEF HandoffThrows, native, lane
    <3>3. CASE p = Drain /\ DrainStops
      <4>1. admitting # Drain
        BY CallersAssumption DEF QInv, TypeOK, Procs
      <4> QED BY <3>2, <3>3, <4>1 DEF Release
    <3> QED BY <1>release, <3>2, <3>3
  <2>3. CASE AbortThrows(p)
    <3>1. (Return(p) /\ Release(p)) \/ UNCHANGED admitting
      BY <2>3 DEF AbortThrows
    <3> QED BY <1>release, <2>3, <3>1 DEF AbortThrows, native, lane
  <2>4. CASE Claim(p) \/ SubmitHandoff(p) \/ RecordReceipt(p)
    BY <2>4 DEF Claim, SubmitHandoff, RecordReceipt, memory, native, lane
  <2> QED BY <1>4, <2>1, <2>2, <2>3, <2>4 DEF HandoffStep
<1>5. CASE (\E p \in Procs : ReconcileStep(p)) \/ DrainStep \/ SettleStep \/ TailStep
           \/ ObserveRunEnd
  BY <1>5 DEF ReconcileStep, Reconcile, ReconcileRead, ReconcileCommit, DrainStep, DrainPick,
     DrainBreak, DrainEnd, DrainAwait, RecoverHandoff, RecoverReconcile, Recovered, SettleStep,
     SettleStart, SettleRelease, SettleWake, TailStep, TailEnd, TailStart, ObserveRunEnd, memory,
     native, lane
<1>6. CASE LanePlaces \/ LaneEnds
  BY <1>6 DEF LanePlaces, LaneEnds, PlaceQueued, EndRun, memory
<1>7. CASE Reopen
  BY <1>7 DEF Reopen, Abort, memory, lane
<1>8. CASE Crash
  BY <1>8 DEF Crash, Forget, lane
<1> QED
  BY <1>1, <1>2, <1>3, <1>4, <1>5, <1>6, <1>7, <1>8 DEF Next, Mishap

\* Every step.
LEMMA StepExclusive ==
  ASSUME QInv, SelectInv, ExclusiveInv, [Next]_vars PROVE ExclusiveInv'
<1>0. LocalOK /\ HandoffInv /\ \A c \in Callers : c \in Procs /\ c # Drain /\ c # None
  BY CallersAssumption DEF QInv, TypeOK, LocalOK, Procs
<1>forget. ASSUME Forget PROVE ExclusiveInv'
  BY <1>0, <1>forget DEF Forget, ExclusiveInv
<1>1. ASSUME ~Forget, NEW c \in Callers, pc'[c] \in Owning PROVE external' = c
  <2>1. CASE ExternalStart(c)
    BY <2>1 DEF ExternalStart
  <2>2. CASE pc[c] = pc'[c] \/ ExternalAdmit(c)
    <3>1. external = c
      BY <1>1, <2>2 DEF ExternalAdmit, ExclusiveInv, Owning
    <3>2. ASSUME NEW d \in Callers, ExternalEnd(d) PROVE FALSE
      <4>1. external = d /\ pc'[d] = "idle"
        BY <1>0, <3>2 DEF ExternalEnd, ExclusiveInv, WakeDrain, LocalOK
      <4> QED BY <1>1, <3>1, <4>1 DEF Owning
    <3> QED BY <1>0, <1>1, <3>1, <3>2, OwnerWriters
  <2> QED BY <1>0, <1>1, <2>1, <2>2, StepMoved DEF Moved
<1>2. ASSUME ~Forget, NEW c \in Callers, pc'[c] = "promote" PROVE admitting' = c
  <2>1. CASE \E i \in Inputs, o \in {None, runHead} : PromoteStart(c, i, o)
    BY <2>1 DEF PromoteStart, UserBegin
  <2>2. CASE pc[c] = "promote"
    <3>1. admitting = c
      BY <2>2 DEF ExclusiveInv
    <3> QED BY <1>0, <1>2, <3>1, OwnerWriters
  <2> QED BY <1>0, <1>2, <2>1, <2>2, StepMoved DEF Moved
<1>3. ASSUME ~Forget, NEW c \in Callers, pc'[c] = "exclusive"
      PROVE  runHead' = None /\ admitting' = None /\ \A p \in Procs : pc'[p] # "submit"
  <2>1. external = c /\ runHead = None /\ admitting = None /\ \A p \in Procs : pc[p] # "submit"
    <3>1. CASE ExternalAdmit(c)
      <4>1. external = c /\ runHead = None /\ admitting = None /\ handingOff = {}
        BY <3>1 DEF ExternalAdmit, AdmissionBusy, ExclusiveInv
      <4> QED BY <1>0, <4>1 DEF HandoffInv, Holds, Place
    <3>2. CASE pc[c] = "exclusive"
      BY <3>2 DEF ExclusiveInv
    <3>3. ~ExternalStart(c)
      BY <1>0, <1>3 DEF ExternalStart, Begin, LocalOK
    <3> QED BY <1>0, <1>3, <3>1, <3>2, <3>3, StepMoved DEF Moved, Owning
  <2>2. \A d \in Callers : pc[d] # "promote"
    BY <1>0, <2>1 DEF ExclusiveInv
  <2>3. runHead' = None
    BY <2>1, <2>2, OwnerWriters
  <2>4. admitting' = None
    BY <1>0, <1>3, <2>1, OwnerWriters
  <2>5. ASSUME NEW p \in Procs, pc'[p] = "submit" PROVE FALSE
    <3>1. ~Claim(p)
      BY <1>0, <2>1 DEF Claim, Claimable
    <3> QED BY <2>1, <2>5, <3>1, StepMoved DEF Moved
  <2> QED BY <2>3, <2>4, <2>5
<1> QED BY <1>forget, <1>1, <1>2, <1>3 DEF ExclusiveInv, Owning

\* While an operation outside the agent owns the lane no agent run is live, although
\* directHarnessRuntime looks at the native lane one await before it takes the claim.
THEOREM OwnedLaneIsIdle == Spec => []ExternalExclusive
<1>1. Init => QInv /\ SelectInv /\ ExclusiveInv
  BY InitQ, InitOnce
<1>2. QInv /\ SelectInv /\ ExclusiveInv /\ [Next]_vars => (QInv /\ SelectInv /\ ExclusiveInv)'
  BY StepQ, StepSelect, StepExclusive
<1>3. ExclusiveInv => ExternalExclusive
  BY DEF ExclusiveInv, ExternalExclusive
<1> QED BY <1>1, <1>2, <1>3, PTL DEF Spec

-----------------------------------------------------------------------------
(* Whose step it is.                                                       *)

\* A call of c starts.
Begins(c) ==
  \/ \E i \in Fresh : Starts(c, i)
  \/ \E i \in Inputs :
       \/ RemoveStart(c, i)
       \/ \E stale \in BOOLEAN : SelectStart(c, i, stale)
       \/ \E o \in {None, runHead} : PromoteStart(c, i, o)
  \/ AbortStart(c) \/ Lock(c) \/ ExternalStart(c) \/ DisposeStart(c)

\* An idle drain is woken.
Woken ==
  /\ pc[Drain] = "idle" /\ pc'[Drain] = "reconcile" /\ ret'[Drain] = "loop"
  /\ kind'[Drain] = kind[Drain] /\ item'[Drain] = item[Drain]

\* The steps that move p.
Acts(p) ==
  \/ p \in Callers /\ (Begins(p) \/ CallStep(p))
  \/ HandoffStep(p) \/ ReconcileStep(p) \/ ReceiptLost(p) \/ AbortThrows(p)
  \/ p = Drain /\ (DrainStep \/ Reopen \/ Woken)
  \/ p = Settle /\ SettleStep
  \/ p = Tailer /\ TailStep

\* Waking the drain moves nobody else.
LEMMA WakeActs ==
  ASSUME LocalOK, NEW pcs \in [Procs -> Labels], WakeDrain(pcs), UNCHANGED <<item, att, snap>>,
         NEW q \in Procs, pcs[q] = pc[q], kind'[q] = kind[q]
  PROVE  Same(q) \/ (q = Drain /\ Woken)
BY DEF LocalOK, WakeDrain, Same, Woken

\* Nor does doing so while becoming idle.
LEMMA WakeLeaves ==
  ASSUME LocalOK, NEW p \in Procs, WakeDrain([pc EXCEPT ![p] = "idle"]),
         UNCHANGED <<item, att, snap>>, NEW q \in Procs \ {p}, kind'[q] = kind[q]
  PROVE  Same(q) \/ (q = Drain /\ Woken)
<1>1. [pc EXCEPT ![p] = "idle"] \in [Procs -> Labels] /\ [pc EXCEPT ![p] = "idle"][q] = pc[q]
  BY DEF LocalOK, Labels
<1> QED BY <1>1, WakeActs

\* Every process stays where it is or takes a step of its own.
LEMMA StepActs ==
  ASSUME QInv, [Next]_vars PROVE Forget \/ \A p \in Procs : Same(p) \/ Acts(p)
<1>0. LocalOK /\ \A c \in Callers : c \in Procs /\ c \notin {Drain, Settle, Tailer}
  BY CallersAssumption DEF QInv, TypeOK, LocalOK, Procs
<1> SUFFICES ASSUME ~Forget PROVE \A p \in Procs : Same(p) \/ Acts(p)
  OBVIOUS
<1>same. ASSUME UNCHANGED local PROVE \A p \in Procs : Same(p)
  BY <1>same DEF local, Same
<1>own. ASSUME NEW p \in Procs, Acts(p),
               \E l : Goto(p, l) \/ GotoReconcile(p, l) \/ Return(p)
        PROVE  \A q \in Procs : Same(q) \/ Acts(q)
  BY <1>0, <1>own, GotoOthers
<1>1. CASE UNCHANGED vars \/ Unlock \/ ObserveRunEnd \/ LanePlaces \/ LaneEnds
  BY <1>1, <1>same DEF vars, Unlock, ObserveRunEnd, LanePlaces, LaneEnds
<1>2. CASE Resume \/ \E i \in Fresh : Enqueue(i) \/ FollowUp(i)
  <2>1. WakeDrain(pc) /\ UNCHANGED <<kind, item, att, snap>>
    BY <1>2 DEF Enqueue, FollowUp, RetainIdle, Resume
  <2> QED BY <1>0, <2>1, WakeActs DEF LocalOK, Acts
<1>3. ASSUME NEW c \in Callers, Begins(c) PROVE \A p \in Procs : Same(p) \/ Acts(p)
  <2>1. /\ \E k, l, i, o : Begin(c, k, l, i, o)
        /\ UNCHANGED snap \/ \E x : snap' = [snap EXCEPT ![c] = x]
    BY <1>3 DEF Begins, Starts, PromptStart, SteerStart, InterruptStart, RemoveStart, SelectStart,
       PromoteStart, UserBegin, AbortStart, Lock, ExternalStart, DisposeStart
  <2>2. \A q \in Procs \ {c} : Same(q)
    BY <1>0, <2>1, BeginOthers
  <2> QED BY <1>3, <2>2 DEF Acts
<1>4. ASSUME NEW c \in Callers, CallStep(c) PROVE \A p \in Procs : Same(p) \/ Acts(p)
  <2>1. CASE ExternalEnd(c)
    <3>1. /\ WakeDrain([pc EXCEPT ![c] = "idle"]) /\ UNCHANGED <<item, att, snap>>
          /\ kind' = [kind EXCEPT ![c] = "none"]
      BY <2>1 DEF ExternalEnd
    <3>2. ASSUME NEW q \in Procs \ {c} PROVE Same(q) \/ Acts(q)
      <4>1. kind'[q] = kind[q]
        BY <1>0, <3>1 DEF LocalOK
      <4> QED BY <1>0, <3>1, <4>1, WakeLeaves DEF Acts
    <3> QED BY <1>4, <3>2 DEF Acts
  <2>2. CASE ~ExternalEnd(c)
    <3>1. \E l : Goto(c, l) \/ GotoReconcile(c, l) \/ Return(c)
      BY <1>4, <2>2 DEF CallStep, Push, Own, SelectClaim, UserRefused, Promote, Promoted,
         PromoteRefused, Quiesced, AbortCheck, AbortIntent, AbortNative, Aborted, RemoveNative,
         RemoveTooLate, RemoveCommit, ExternalAdmit, DisposeAbort, Disposed
    <3> QED BY <1>0, <1>4, <1>own, <3>1 DEF Acts
  <2> QED BY <2>1, <2>2
<1>5. ASSUME NEW p \in Procs, HandoffStep(p) \/ ReceiptLost(p) \/ AbortThrows(p)
      PROVE  \A q \in Procs : Same(q) \/ Acts(q)
  <2>1. CASE Claim(p)
    <3>1. \A q \in Procs \ {p} : Same(q)
      BY <1>0, <2>1 DEF Claim, LocalOK, Same
    <3> QED BY <1>5, <3>1 DEF Acts
  <2>2. CASE ~Claim(p)
    <3>1. (\E l : Goto(p, l) \/ GotoReconcile(p, l) \/ Return(p)) \/ (p = Drain /\ DrainStops)
      BY <1>5, <2>2 DEF HandoffStep, ClaimRefused, SubmitHandoff, RecordReceipt, SubmitRefused,
         Handed, ReceiptLost, HandoffThrows, AbortThrows
    <3>2. CASE p = Drain /\ DrainStops
      <4>1. \A q \in Procs \ {p} : Same(q)
        BY <1>0, <3>2 DEF DrainStops, LocalOK, Same
      <4> QED BY <1>5, <4>1 DEF Acts
    <3> QED BY <1>5, <1>own, <3>1, <3>2 DEF Acts
  <2> QED BY <2>1, <2>2
<1>6. ASSUME NEW p \in Procs, ReconcileStep(p) PROVE \A q \in Procs : Same(q) \/ Acts(q)
  <2>1. \A q \in Procs \ {p} : Same(q)
    BY <1>0, <1>6 DEF ReconcileStep, Reconcile, ReconcileRead, ReconcileCommit, Goto, LocalOK, Same
  <2> QED BY <1>6, <2>1 DEF Acts
<1>7. CASE DrainStep \/ SettleStep \/ TailStep \/ Reopen
  <2>0. Drain \in Procs /\ Settle \in Procs /\ Tailer \in Procs
    BY DEF Procs
  <2>1. CASE DrainPick \/ RecoverHandoff \/ DrainEnd
    <3>1. \A q \in Procs \ {Drain} : Same(q)
      BY <1>0, <2>0, <2>1 DEF DrainPick, RecoverHandoff, DrainEnd, DrainStops, LocalOK, Same
    <3> QED BY <2>1, <3>1 DEF Acts, DrainStep
  <2>2. CASE DrainBreak \/ DrainAwait \/ RecoverReconcile \/ Recovered \/ Reopen
    <3>1. \E l : Goto(Drain, l) \/ GotoReconcile(Drain, l) \/ Return(Drain)
      BY <2>2 DEF DrainBreak, DrainAwait, RecoverReconcile, Recovered, Reopen
    <3> QED BY <1>own, <2>0, <2>2, <3>1 DEF Acts, DrainStep
  <2>3. CASE SettleStart \/ SettleRelease
    <3>1. \E l : Goto(Settle, l) \/ GotoReconcile(Settle, l) \/ Return(Settle)
      BY <2>3 DEF SettleStart, SettleRelease
    <3> QED BY <1>own, <2>0, <2>3, <3>1 DEF Acts, SettleStep
  <2>4. CASE SettleWake
    <3>1. WakeDrain([pc EXCEPT ![Settle] = "idle"]) /\ UNCHANGED <<kind, item, att, snap>>
      BY <2>4 DEF SettleWake
    <3>2. ASSUME NEW q \in Procs \ {Settle} PROVE Same(q) \/ Acts(q)
      BY <1>0, <2>0, <3>1, WakeLeaves DEF Acts
    <3> QED BY <2>4, <3>2 DEF Acts, SettleStep
  <2>5. CASE TailStep
    <3>1. CASE \E r \in Req \cup {None} : TailStart(r)
      <4>1. \A q \in Procs \ {Tailer} : Same(q)
        BY <1>0, <2>0, <3>1 DEF TailStart, LocalOK, Same
      <4> QED BY <2>5, <4>1 DEF Acts
    <3>2. CASE TailEnd
      <4>1. /\ UNCHANGED <<kind, item, att, snap>>
            /\ \/ WakeDrain([pc EXCEPT ![Tailer] = "idle"])
               \/ pc' = [pc EXCEPT ![Tailer] = "idle"] /\ UNCHANGED ret
        BY <3>2 DEF TailEnd
      <4>2. ASSUME NEW q \in Procs \ {Tailer} PROVE Same(q) \/ Acts(q)
        <5>1. CASE WakeDrain([pc EXCEPT ![Tailer] = "idle"])
          BY <1>0, <2>0, <4>1, <5>1, WakeLeaves DEF Acts
        <5>2. CASE pc' = [pc EXCEPT ![Tailer] = "idle"] /\ UNCHANGED ret
          BY <1>0, <4>1, <5>2 DEF LocalOK, Same
        <5> QED BY <4>1, <5>1, <5>2
      <4> QED BY <2>5, <4>2 DEF Acts
    <3> QED BY <2>5, <3>1, <3>2 DEF TailStep
  <2> QED BY <1>7, <2>1, <2>2, <2>3, <2>4, <2>5 DEF DrainStep, SettleStep
<1>8. ~Crash
  BY DEF Crash
<1> QED
  BY <1>1, <1>2, <1>3, <1>4, <1>5, <1>6, <1>7, <1>8 DEF Next, CallStarts, Begins, Starts, Mishap

-----------------------------------------------------------------------------
(* Kinds: a started call has one, the runtime's own processes have none.   *)

KindInv ==
  /\ \A c \in Callers : kind[c] = "none" => pc[c] = "idle"
  /\ \A p \in {Drain, Settle, Tailer} : kind[p] = "none"

\* What a call that starts is.
LEMMA BeginsKind ==
  ASSUME LocalOK, NEW c \in Callers, Begins(c)
  PROVE  /\ phase = "open" /\ kind[c] = "none" /\ UNCHANGED <<sub, record, phase>>
         /\ kind'[c] \in Kinds \cup {"promptHeld"} \/ (kind'[c] = "none" /\ pc'[c] = "idle")
         /\ pc'[c] \in {"push", "quiesce", "abort", "refused", "select", "promote", "abortIntent",
                       "idle", "exclusiveCheck", "close"} \cup Removing
         /\ pc'[c] = "quiesce" => kind'[c] = "interrupt"
         /\ pc'[c] = "close" => kind'[c] = "dispose"
         /\ kind'[c] \in UserKinds => admitting' = c
BY DEF LocalOK, Begins, Starts, PromptStart, SteerStart, InterruptStart, RemoveStart, SelectStart,
   PromoteStart, UserBegin, AbortStart, Lock, ExternalStart, DisposeStart, Begin, Procs, UserKinds,
   Removing, native, lane, record

\* Another step of p keeps its kind, or its call returns.
LEMMA ActsKind ==
  ASSUME LocalOK, NEW p \in Procs, Acts(p), ~(p \in Callers /\ Begins(p))
  PROVE  /\ kind'[p] = kind[p] \/ (kind'[p] = "none" /\ (p \in Callers => pc'[p] = "idle"))
         /\ p \in Callers => pc[p] # "idle"
<1>0. \A c \in Callers : c \notin {Drain, Settle, Tailer}
  BY CallersAssumption
<1>1. CASE p \in Callers /\ CallStep(p)
  <2>1. /\ pc[p] # "idle"
        /\ (\E l : Goto(p, l) \/ GotoReconcile(p, l) \/ Return(p)) \/ ExternalEnd(p) \/ Forget
    BY <1>1 DEF CallStep, Push, Own, SelectClaim, UserRefused, Promote, Promoted, PromoteRefused,
       Quiesced, AbortCheck, AbortIntent, AbortNative, Aborted, RemoveNative, RemoveTooLate,
       RemoveCommit, ExternalAdmit, ExternalEnd, DisposeAbort, Disposed
  <2>2. CASE ExternalEnd(p)
    BY <1>0, <1>1, <2>1, <2>2 DEF ExternalEnd, WakeDrain, LocalOK
  <2> QED BY <2>1, <2>2 DEF Goto, GotoReconcile, Return, Forget, LocalOK
<1>2. CASE HandoffStep(p) \/ ReconcileStep(p) \/ ReceiptLost(p) \/ AbortThrows(p)
  BY <1>0, <1>2 DEF HandoffStep, Claim, ClaimRefused, SubmitHandoff, RecordReceipt, SubmitRefused,
     Handed, ReceiptLost, HandoffThrows, AbortThrows, ReconcileStep, Reconcile, ReconcileRead,
     ReconcileCommit, DrainStops, Goto, GotoReconcile, Return, LocalOK
<1>3. CASE (p = Drain /\ (DrainStep \/ Reopen \/ Woken)) \/ (p = Settle /\ SettleStep)
           \/ (p = Tailer /\ TailStep)
  BY <1>0, <1>3 DEF DrainStep, DrainPick, DrainBreak, DrainEnd, DrainStops, DrainAwait,
     RecoverHandoff, RecoverReconcile, Recovered, Reopen, Woken, SettleStep, SettleStart,
     SettleRelease, SettleWake, TailStep, TailStart, TailEnd, Goto, GotoReconcile, Return, LocalOK
<1> QED BY <1>1, <1>2, <1>3 DEF Acts

\* Every step.
LEMMA StepKind == ASSUME QInv, KindInv, [Next]_vars PROVE KindInv'
<1>0. LocalOK /\ \A c \in Callers : c \in Procs /\ c \notin {Drain, Settle, Tailer}
  BY CallersAssumption DEF QInv, TypeOK, LocalOK, Procs
<1>1. CASE Forget
  BY <1>1 DEF Forget, KindInv, Procs
<1>2. CASE ~Forget
  <2>1. ASSUME NEW c \in Callers, kind'[c] = "none" PROVE pc'[c] = "idle"
    <3>1. CASE Same(c)
      BY <2>1, <3>1 DEF KindInv, Same
    <3>2. CASE Begins(c)
      BY <1>0, <2>1, <3>2, BeginsKind, KindsAssumption DEF AllKinds
    <3>3. CASE Acts(c) /\ ~Begins(c)
      BY <1>0, <2>1, <3>3, ActsKind DEF KindInv
    <3> QED BY <1>0, <1>2, <3>1, <3>2, <3>3, StepActs
  <2>2. ASSUME NEW p \in {Drain, Settle, Tailer} PROVE kind'[p] = "none"
    BY <1>0, <1>2, StepActs, ActsKind DEF KindInv, Same, Procs
  <2> QED BY <2>1, <2>2 DEF KindInv
<1> QED BY <1>1, <1>2

-----------------------------------------------------------------------------
(* The drain serves the queue in the order of retention.                   *)

\* How a session goes down and comes back.
LEMMA PhaseWriters ==
  ASSUME [Next]_vars
  PROVE  \/ phase' = phase \/ Crash \/ (\E c \in Callers : Disposed(c))
         \/ phase = "recovering" /\ phase' = "down" /\ pc[Drain] \in {"submit", "record"}
         \/ Reopen \/ Recovered
<1>1. CASE UNCHANGED vars \/ CallStarts
  BY <1>1 DEF vars, CallStarts, Enqueue, FollowUp, RetainIdle, Resume, Unlock, PromptStart,
     SteerStart, InterruptStart, SelectStart, RemoveStart, PromoteStart, UserBegin, AbortStart,
     Lock, ExternalStart, DisposeStart
<1>2. ASSUME NEW c \in Callers, CallStep(c) PROVE phase' = phase \/ Disposed(c)
  BY <1>2 DEF CallStep, Push, Own, SelectClaim, UserRefused, Promote, Promoted, PromoteRefused,
     Quiesced, AbortCheck, AbortIntent, AbortNative, Aborted, RemoveNative, RemoveTooLate,
     RemoveCommit, ExternalAdmit, ExternalEnd, DisposeAbort
<1>3. ASSUME NEW p \in Procs, HandoffStep(p) \/ ReconcileStep(p) \/ ReceiptLost(p) \/ AbortThrows(p)
      PROVE  \/ phase' = phase
             \/ phase = "recovering" /\ phase' = "down" /\ pc[Drain] \in {"submit", "record"}
  BY <1>3 DEF HandoffStep, Claim, ClaimRefused, SubmitHandoff, RecordReceipt, SubmitRefused,
     Handed, ReceiptLost, HandoffThrows, AbortThrows, ReconcileStep, Reconcile, ReconcileRead,
     ReconcileCommit
<1>4. CASE DrainStep \/ SettleStep \/ TailStep \/ ObserveRunEnd \/ LanePlaces \/ LaneEnds
  BY <1>4 DEF DrainStep, DrainPick, DrainBreak, DrainEnd, DrainAwait, RecoverHandoff,
     RecoverReconcile, SettleStep, SettleStart, SettleRelease, SettleWake, TailStep, TailStart,
     TailEnd, ObserveRunEnd, LanePlaces, LaneEnds
<1> QED BY <1>1, <1>2, <1>3, <1>4 DEF Next, Mishap

\* How the queue comes to be paused, and how it is resumed.
LEMMA PausedWriters ==
  ASSUME [Next]_vars
  PROVE  paused' = paused \/ paused' = TRUE \/ Resume
<1>0. CASE UNCHANGED vars
  BY <1>0 DEF vars, intent
<1>1. CASE CallStarts
  BY <1>1 DEF intent, CallStarts, Enqueue, FollowUp, RetainIdle, Unlock, PromptStart,
     SteerStart, InterruptStart, SelectStart, RemoveStart, PromoteStart, UserBegin, AbortStart,
     Lock, ExternalStart, DisposeStart
<1>2. ASSUME NEW c \in Callers, CallStep(c)
      PROVE  paused' = paused \/ paused' = TRUE
  BY <1>2 DEF CallStep, Push, Own, SelectClaim, UserRefused, Promote, Promoted, PromoteRefused,
     Quiesced, AbortCheck, AbortIntent, AbortNative, Aborted, RemoveNative, RemoveTooLate,
     RemoveCommit, ExternalAdmit, ExternalEnd, DisposeAbort, Disposed, Forget, intent
<1>3. ASSUME NEW p \in Procs, HandoffStep(p) \/ ReconcileStep(p) \/ ReceiptLost(p) \/ AbortThrows(p)
      PROVE  paused' = paused
  BY <1>3 DEF HandoffStep, Claim, ClaimRefused, SubmitHandoff, RecordReceipt, SubmitRefused,
     Handed, ReceiptLost, HandoffThrows, AbortThrows, ReconcileStep, Reconcile, ReconcileRead,
     ReconcileCommit, intent
<1>4. CASE DrainStep \/ SettleStep \/ TailStep \/ ObserveRunEnd \/ LanePlaces \/ LaneEnds
           \/ Reopen \/ Crash
  BY <1>4 DEF DrainStep, DrainPick, DrainBreak, DrainEnd, DrainAwait, RecoverHandoff,
     RecoverReconcile, Recovered, SettleStep, SettleStart, SettleRelease, SettleWake, TailStep,
     TailStart, TailEnd, ObserveRunEnd, LanePlaces, LaneEnds, Reopen, Crash, Forget, intent
<1> QED
  BY <1>0, <1>1, <1>2, <1>3, <1>4 DEF Next, Mishap

\* In a queue that is not paused, what comes to wait was retained just now, by a call
\* and not by the drain, and stands last.
LEMMA PendingWriters ==
  ASSUME QInv, NewInv, [Next]_vars, ~paused, NEW i \in Inputs, disp[i] # "pending", disp'[i] = "pending"
  PROVE  disp[i] = "absent" /\ item[Drain] # i
<1>0. RecordOK /\ Drain \in Procs /\ Drain \notin Callers
  BY CallersAssumption DEF QInv, TypeOK, RecordOK, Procs
<1>1. CASE \E j \in Fresh : Enqueue(j) \/ FollowUp(j)
  BY <1>0, <1>1 DEF Enqueue, FollowUp, RetainIdle, Retain, Fresh, RecordOK
<1>2. CASE \E c \in Callers : Push(c)
  BY <1>0, <1>2 DEF Push, Retain, RecordOK, NewInv, Brings, Procs
<1>3. ASSUME NEW v, Apply(v) PROVE FALSE
  BY <1>3 DEF Apply, Retries
<1> QED
  BY <1>0, <1>1, <1>2, <1>3, RecordWriters DEF Own, SelectClaim, Promote, RemoveCommit, Claim,
     RecordReceipt, Reconcile, ReconcileCommit, RecordOK

\* How the drain comes to hold a claim.
LEMMA DrainClaims ==
  ASSUME QInv, [Next]_vars, pc'[Drain] = "claim"
  PROVE  (pc[Drain] = "claim" /\ item'[Drain] = item[Drain]) \/ DrainPick \/ RecoverHandoff
<1>0. LocalOK /\ ItemInv /\ Drain \in Procs /\ Drain \notin Callers /\ Drain # Settle /\ Drain # Tailer
  BY CallersAssumption DEF QInv, TypeOK, LocalOK, Procs, Drain, Settle, Tailer
<1>1. CASE HandoffStep(Drain) \/ ReceiptLost(Drain) \/ AbortThrows(Drain)
  BY <1>0, <1>1 DEF HandoffStep, Claim, ClaimRefused, SubmitHandoff, RecordReceipt, SubmitRefused,
     Handed, ReceiptLost, HandoffThrows, AbortThrows, DrainStops, Goto, GotoReconcile, Return, LocalOK
<1>2. CASE ReconcileStep(Drain)
  BY <1>0, <1>2 DEF ReconcileStep, Reconcile, ReconcileRead, ReconcileCommit, Goto, LocalOK, ItemInv,
     RetLabels
<1>3. CASE DrainStep
  BY <1>0, <1>3 DEF DrainStep, DrainBreak, DrainEnd, DrainAwait, RecoverReconcile, Recovered,
     DrainStops, Goto, GotoReconcile, Return, LocalOK
<1>4. CASE Reopen \/ Woken \/ Forget \/ Same(Drain)
  BY <1>0, <1>4 DEF Reopen, Woken, Forget, Same, Goto, LocalOK
<1> QED BY <1>0, <1>1, <1>2, <1>3, <1>4, StepActs DEF Acts

\* What the drain is about to claim is the oldest pending input, until the queue is paused.
OldestInv ==
  pc[Drain] = "claim" /\ phase = "open" /\ disp[item[Drain]] = "pending" =>
    paused \/ NextPending(item[Drain])

\* The oldest pending input stays the oldest.
LEMMA StepNextPending ==
  ASSUME QInv, NewInv, PresentInv, [Next]_vars, ~paused, NEW i \in Inputs, NextPending(i),
         disp'[i] = "pending"
  PROVE  NextPending(i)'
<1>0. order \in Seq(Inputs)
  BY DEF QInv, TypeOK
<1>1. PICK k \in DOMAIN order : order[k] = i /\ \A j \in 1..(k - 1) : disp[order[j]] # "pending"
  BY DEF NextPending
<1>2. \A j \in 1..k : j \in DOMAIN order' /\ j \in DOMAIN order /\ order'[j] = order[j]
  BY <1>0, <1>1, OrderWriters DEF Retain
<1>3. ASSUME NEW j \in 1..(k - 1), disp'[order'[j]] = "pending" PROVE FALSE
  <2>1. order'[j] = order[j] /\ order[j] \in Inputs /\ disp[order[j]] \notin {"pending", "absent"}
    BY <1>0, <1>1, <1>2 DEF PresentInv
  <2> QED BY <1>3, <2>1, PendingWriters
<1>4. k \in DOMAIN order' /\ order'[k] = i
  BY <1>0, <1>1, <1>2
<1> QED BY <1>3, <1>4 DEF NextPending

\* Every step, if no client resumes while calls are in progress.
LEMMA StepOldest ==
  ASSUME ~EagerResume, QInv, NewInv, PresentInv, OldestInv, [Next]_vars PROVE OldestInv'
<1>0. LocalOK /\ ItemInv /\ HandoffInv /\ PhaseInv /\ Drain \in Procs
  BY DEF QInv, TypeOK, LocalOK, Procs
<1> DEFINE i == item[Drain]
<1> SUFFICES ASSUME pc'[Drain] = "claim", phase' = "open", disp'[item'[Drain]] = "pending"
             PROVE  paused' \/ NextPending(item[Drain])'
  BY DEF OldestInv
<1>1. CASE DrainPick
  <2>1. PICK j \in Inputs : NextPending(j) /\ item' = [item EXCEPT ![Drain] = j]
    BY <1>1 DEF DrainPick
  <2>2. item'[Drain] = j /\ UNCHANGED <<disp, order>>
    BY <1>0, <1>1, <2>1 DEF DrainPick, LocalOK, record
  <2> QED BY <2>1, <2>2 DEF NextPending
<1>2. CASE RecoverHandoff
  BY <1>0, <1>2 DEF RecoverHandoff, PhaseInv
<1>3. CASE pc[Drain] = "claim" /\ item'[Drain] = i
  <2>1. i \in Inputs /\ i \in handingOff
    BY <1>0, <1>3 DEF ItemInv, HandoffInv, Holds, Place, Needs, Carrying
  <2>2. phase = "open"
    BY <1>0, <1>3, PhaseWriters DEF Crash, Disposed, Forget, Reopen, Recovered
  <2>4. ~Resume
    BY <2>1 DEF Resume, Answered
  <2>5. CASE paused' = paused /\ paused = FALSE
    <3>1. disp[i] = "pending"
      BY <1>3, <2>1, <2>5, PendingWriters
    <3>2. NextPending(i)
      BY <1>3, <2>2, <2>5, <3>1 DEF OldestInv
    <3> QED BY <1>3, <2>1, <2>5, <3>2, StepNextPending DEF NextPending
  <2>6. CASE paused' = TRUE
    BY <2>6
  <2>7. paused \in BOOLEAN
    BY DEF QInv, TypeOK
  <2> QED BY <2>7, <2>4, <2>5, <2>6, PausedWriters
<1> QED BY <1>1, <1>2, <1>3, DrainClaims

\* The drain never claims an input while an older one waits, although calls, passes and
\* cancellations commit between its look at the queue and its claim: what they add
\* stands behind, and what they bring back waits in a queue that is paused.
THEOREM ServedOldestFirst == ASSUME ~EagerResume PROVE Spec => OldestFirst
<1> DEFINE Inv == QInv /\ SelectInv /\ NewInv /\ PresentInv /\ KindInv /\ OldestInv
<1>1. Init => Inv
  <2>1. Init => KindInv /\ OldestInv
    BY DEF Init, KindInv, OldestInv, Procs
  <2> QED BY <2>1, InitQ, InitOnce DEF OnceInv
<1>2. Inv /\ [Next]_vars => Inv'
  BY StepQ, StepSelect, StepNew, StepPresent, StepKind, StepOldest
<1>3. Inv /\ [Next]_vars =>
        [pc[Drain] = "claim" /\ pc'[Drain] = "submit" /\ phase = "open" => NextPending(item[Drain])]_vars
  <2> SUFFICES ASSUME Inv, [Next]_vars, pc[Drain] = "claim", pc'[Drain] = "submit", phase = "open"
               PROVE  NextPending(item[Drain])
    OBVIOUS
  <2>1. Claim(Drain)
    BY StepMoved DEF Moved, Procs
  <2>2. kind[Drain] = "none"
    BY DEF KindInv
  <2>3. ~paused /\ disp[item[Drain]] = "pending"
    BY <2>1, <2>2 DEF Claim, Claimable, Recovering, UserKinds
  <2> QED BY <2>3 DEF OldestInv
<1> QED BY <1>1, <1>2, <1>3, PTL DEF Spec, OldestFirst

-----------------------------------------------------------------------------
(* What a step does to one input, if passes are not overtaken.             *)

Kept(i) == disp'[i] = disp[i] /\ attempt'[i] = attempt[i] /\ subm'[i] = subm[i]

\* The current attempt of i, and what became of it.
Receipt(i) == sub[<<i, attempt[i]>>]

\* A pass finds no receipt, a placement, or a withdrawal that it repeats or gives up.
Reconciled(i) ==
  /\ disp[i] \in {"handoff", "uncertain"}
  /\ \/ subm[i] = NoSub /\ disp'[i] = "uncertain" /\ subm'[i] = NoSub
        /\ attempt'[i] = attempt[i]
     \/ /\ subm[i] = attempt[i] /\ subm'[i] = subm[i] /\ attempt'[i] = attempt[i]
        /\ disp'[i] = "consumed"
        /\ Receipt(i) \in Placed \/ (Receipt(i) = "withdrawn" /\ ~paused)
     \/ /\ subm[i] = attempt[i] /\ Receipt(i) = "withdrawn" /\ paused
        /\ disp'[i] = "pending" /\ subm'[i] = NoSub /\ attempt'[i] = attempt[i] + 1

\* What a pass concludes about i.
LEMMA PassOutcome ==
  ASSUME QInv, ReceiptInv, NEW p \in Procs, Reconcile(p), NEW i \in Inputs
  PROVE  /\ UNCHANGED <<sub, paused>>
         /\ Kept(i) \/ Reconciled(i)
         /\ disp[i] \in {"handoff", "uncertain"} /\ subm[i] # NoSub /\ Receipt(i) = "withdrawn" =>
              disp'[i] = IF paused THEN "pending" ELSE "consumed"
<1> DEFINE v == [j \in Inputs |-> Verdict(j, Snapshot[j])]
<1>1. Apply(v) /\ UNCHANGED <<sub, paused>>
  BY DEF Reconcile, native, lane, intent
<1>2. subm[i] \in {NoSub, attempt[i]} /\ attempt[i] \in Attempts
  BY DEF ReceiptInv, QInv, TypeOK
<1>3. attempt[i] # Skip /\ attempt[i] # NoSub /\ NoSub # Skip
  BY <1>2, MaxAttemptAssumption DEF Attempts, Skip, NoSub
<1>4. CASE disp[i] \notin {"handoff", "uncertain"}
  <2>0. Snapshot[i] = Skip
    BY <1>4 DEF Snapshot
  <2>1. v[i] = "keep"
    BY <2>0, MaxAttemptAssumption DEF Verdict, Skip, NoSub
  <2> QED BY <1>1, <1>4, <2>1 DEF Apply, Retries, Kept
<1>5. CASE disp[i] \in {"handoff", "uncertain"} /\ subm[i] = NoSub
  BY <1>1, <1>3, <1>5 DEF Snapshot, Verdict, Apply, Retries, Kept, Reconciled
<1>6. CASE disp[i] \in {"handoff", "uncertain"} /\ subm[i] = attempt[i]
  <2>1. /\ v[i] = "placed" => Receipt(i) \in Placed
        /\ v[i] = "withdrawn" <=> Receipt(i) = "withdrawn"
        /\ v[i] \in {"keep", "placed", "withdrawn"}
    BY <1>3, <1>6 DEF Snapshot, Verdict, Receipt, Placed
  <2> QED BY <1>1, <1>3, <1>6, <2>1 DEF Apply, Retries, Kept, Reconciled
<1> QED BY <1>1, <1>2, <1>4, <1>5, <1>6

\* Who changes what the record says of i.
LEMMA InputWriters ==
  ASSUME QInv, OnceInv, [Next]_vars, NEW i \in Inputs
  PROVE  \/ Kept(i)
         \/ /\ attempt'[i] = attempt[i]
            /\ \/ /\ disp[i] = "absent" /\ disp'[i] = "pending" /\ subm'[i] = subm[i]
                  /\ disp' = [disp EXCEPT ![i] = "pending"] /\ UNCHANGED <<sub, removalAsked>>
               \/ /\ disp[i] = "pending" /\ disp'[i] = "handoff" /\ subm'[i] = subm[i]
                  /\ UNCHANGED sub
                  /\ \/ \E c \in Callers : item[c] = i /\ (Own(c) \/ SelectClaim(c))
                     \/ \E p \in Procs : item[p] = i /\ Claim(p)
               \/ disp[i] = "pending" /\ disp'[i] = "handoff" /\ subm'[i] = attempt[i]
               \/ /\ disp[i] = "handoff" /\ disp'[i] = "handoff"
                  /\ subm[i] = NoSub /\ subm'[i] = attempt[i]
                  /\ \E p \in Procs : item[p] = i /\ RecordReceipt(p)
               \/ /\ disp[i] \notin {"absent", "consumed", "removed"} /\ disp'[i] = "removed"
                  /\ subm'[i] = subm[i]
                  /\ \E c \in Callers : item[c] = i /\ RemoveCommit(c) /\ Removable(c)
         \/ Reconciled(i) /\ \E p \in Procs : Reconcile(p)
<1>0. RecordOK /\ ReceiptInv /\ CarriedInv /\ NewInv /\ WholeInv
  BY DEF QInv, TypeOK, RecordOK, OnceInv
<1> USE DEF Kept
<1>1. CASE UNCHANGED <<disp, attempt, subm, order>>
  BY <1>1
<1>2. CASE \E j \in Fresh : Enqueue(j) \/ FollowUp(j)
  BY <1>0, <1>2 DEF Enqueue, FollowUp, RetainIdle, Call, Retain, Fresh, RecordOK, native, lane
<1>3. CASE \E c \in Callers : Push(c)
  <2>1. PICK c \in Callers : Push(c)
    BY <1>3
  <2>2. disp[item[c]] = "absent"
    BY <1>0, <2>1 DEF Push, NewInv, Brings, Procs
  <2> QED BY <1>0, <2>1, <2>2 DEF Push, Retain, RecordOK, native, lane, ghost
<1>4. CASE \E c \in Callers : Own(c) \/ SelectClaim(c)
  BY <1>0, <1>4 DEF Own, SelectClaim, RecordOK, native, lane
<1>5. CASE \E c \in Callers : Promote(c)
  BY <1>0, <1>5 DEF Promote, Promotable, RecordOK
<1>6. CASE \E c \in Callers : RemoveCommit(c)
  <2>1. PICK c \in Callers : RemoveCommit(c)
    BY <1>6
  <2>2. CASE ~Removable(c) \/ item[c] # i
    BY <1>0, <2>1, <2>2 DEF RemoveCommit, RecordOK
  <2>3. CASE Removable(c) /\ item[c] = i
    <3>1. disp[i] \notin {"absent", "consumed", "removed"}
      BY <1>0, <2>3 DEF Removable, ReceiptInv
    <3> QED BY <1>0, <2>1, <2>3, <3>1 DEF RemoveCommit, RecordOK
  <2> QED BY <2>2, <2>3
<1>7. CASE \E p \in Procs : Claim(p)
  <2>1. PICK p \in Procs : Claim(p)
    BY <1>7
  <2>2. disp' = [disp EXCEPT ![item[p]] = "handoff"] /\ UNCHANGED <<sub, attempt, subm>>
    BY <2>1 DEF Claim, native, lane
  <2>3. disp[item[p]] \in {"pending", "handoff"}
    BY <2>1 DEF Claim, Claimable
  <2> QED BY <1>0, <2>1, <2>2, <2>3 DEF RecordOK
<1>8. CASE \E p \in Procs : RecordReceipt(p)
  <2>1. PICK p \in Procs : RecordReceipt(p)
    BY <1>8
  <2>2. disp[item[p]] = "handoff" /\ subm[item[p]] = NoSub /\ att[p] = attempt[item[p]]
    BY <1>0, <2>1 DEF RecordReceipt, CarriedInv
  <2> QED BY <1>0, <2>1, <2>2 DEF RecordReceipt, RecordOK
<1>9. CASE \E p \in Procs : Reconcile(p)
  BY <1>0, <1>9, PassOutcome
<1> QED
  BY <1>0, <1>1, <1>2, <1>3, <1>4, <1>5, <1>6, <1>7, <1>8, <1>9, RecordWriters, Whole

\* How the ghost variables grow.
LEMMA GhostWriters ==
  ASSUME QInv, [Next]_vars
  PROVE  /\ removalAsked' = removalAsked
              \/ \E c \in Callers, i \in Inputs : RemoveStart(c, i) /\ removalAsked' = removalAsked \cup {i}
         /\ mishaps' \in {mishaps, mishaps + 1}
<1> USE DEF ghost
<1>1. CASE UNCHANGED vars
  BY <1>1 DEF vars
<1>2. CASE CallStarts
  BY <1>2 DEF CallStarts, Enqueue, FollowUp, RetainIdle, Call, Resume, Unlock, PromptStart,
     SteerStart, InterruptStart, SelectStart, RemoveStart, PromoteStart, UserBegin, AbortStart,
     Lock, ExternalStart, DisposeStart, Begin
<1>3. ASSUME NEW c \in Callers, CallStep(c) PROVE UNCHANGED <<removalAsked, mishaps>>
  BY <1>3 DEF CallStep, Push, Own, SelectClaim, UserRefused, Promote, Promoted, PromoteRefused,
     Quiesced, AbortCheck, AbortIntent, AbortNative, Aborted, RemoveNative, RemoveTooLate,
     RemoveCommit, ExternalAdmit, ExternalEnd, DisposeAbort, Disposed, Forget
<1>4. ASSUME NEW p \in Procs, HandoffStep(p) \/ ReconcileStep(p) \/ ReceiptLost(p) \/ AbortThrows(p)
      PROVE  removalAsked' = removalAsked /\ mishaps' \in {mishaps, mishaps + 1}
  BY <1>4 DEF HandoffStep, Claim, ClaimRefused, SubmitHandoff, RecordReceipt, SubmitRefused,
     Handed, ReceiptLost, HandoffThrows, AbortThrows, ReconcileStep, Reconcile, ReconcileRead,
     ReconcileCommit
<1>5. CASE DrainStep \/ SettleStep \/ TailStep \/ ObserveRunEnd \/ LanePlaces \/ LaneEnds
           \/ Reopen \/ Crash
  BY <1>5 DEF DrainStep, DrainPick, DrainBreak, DrainEnd, DrainAwait, RecoverHandoff,
     RecoverReconcile, Recovered, SettleStep, SettleStart, SettleRelease, SettleWake, TailStep,
     TailStart, TailEnd, ObserveRunEnd, LanePlaces, LaneEnds, Reopen, Crash, Forget
<1> QED
  BY <1>1, <1>2, <1>3, <1>4, <1>5 DEF Next, Mishap

\* What withdraws a request.
LEMMA WithdrawWriters ==
  ASSUME QInv, RunInv, [Next]_vars, NEW r \in Req, sub'[r] = "withdrawn", sub[r] # "withdrawn"
  PROVE  \/ \E c \in Callers : \/ AbortNative(c) \/ DisposeAbort(c)
                               \/ RemoveNative(c) /\ r = <<item[c], snap[c]>>
         \/ Reopen /\ abortOp # None
<1>0. LaneTypeOK
  BY DEF QInv, TypeOK
<1> USE DEF LaneTypeOK
<1>start. ASSUME NEW S, NEW others, StartRun(S, others), others[r] # "withdrawn" PROVE FALSE
  BY <1>start DEF StartRun
<1>submit. ASSUME NEW q, NEW w, Submit(q, w) PROVE FALSE
  BY <1>0, <1>start, <1>submit DEF Submit, SubmitIdle, SubmitBusy, lane
<1>1. CASE UNCHANGED vars \/ CallStarts
  BY <1>1 DEF vars, CallStarts, Enqueue, FollowUp, RetainIdle, Resume, Unlock, PromptStart,
     SteerStart, InterruptStart, SelectStart, RemoveStart, PromoteStart, UserBegin, AbortStart,
     Lock, ExternalStart, DisposeStart, native, lane
<1>2. ASSUME NEW c \in Callers, CallStep(c), ~AbortNative(c), ~DisposeAbort(c)
      PROVE  RemoveNative(c) /\ r = <<item[c], snap[c]>>
  <2>1. CASE RemoveNative(c)
    BY <1>0, <2>1 DEF RemoveNative, Withdraw
  <2>2. CASE Promote(c)
    BY <1>submit, <2>2 DEF Promote
  <2> QED BY <1>2, <2>1, <2>2 DEF CallStep, Push, Own, SelectClaim, UserRefused, Promoted,
       PromoteRefused, Quiesced, AbortCheck, AbortIntent, Aborted, RemoveTooLate, RemoveCommit,
       ExternalAdmit, ExternalEnd, Disposed, Forget, native, lane
<1>3. ASSUME NEW p \in Procs, HandoffStep(p) \/ ReconcileStep(p) \/ ReceiptLost(p) \/ AbortThrows(p)
      PROVE  FALSE
  <2>1. CASE SubmitHandoff(p)
    BY <1>submit, <2>1 DEF SubmitHandoff
  <2> QED BY <1>3, <2>1 DEF HandoffStep, Claim, ClaimRefused, RecordReceipt, SubmitRefused,
       Handed, ReceiptLost, HandoffThrows, AbortThrows, ReconcileStep, Reconcile, ReconcileRead,
       ReconcileCommit, native, lane
<1>4. CASE DrainStep \/ SettleStep \/ TailStep \/ ObserveRunEnd \/ Crash
  BY <1>4 DEF DrainStep, DrainPick, DrainBreak, DrainEnd, DrainAwait, RecoverHandoff,
     RecoverReconcile, Recovered, SettleStep, SettleStart, SettleRelease, SettleWake, TailStep,
     TailStart, TailEnd, ObserveRunEnd, Crash, Forget, native, lane
<1>5. ~LanePlaces
  BY <1>0 DEF LanePlaces, PlaceQueued
<1>6. ~LaneEnds
  <2> SUFFICES ASSUME EndRun PROVE FALSE
    BY DEF LaneEnds
  <2>1. PICK outcome \in Outcomes :
          LET ended == [q \in Req |-> IF q \in runInputs THEN outcome ELSE sub[q]]
          IN (\E S \in (SUBSET Queued) \ {{}} : StartRun(S, ended)) \/ sub' = ended
    BY DEF EndRun
  <2> DEFINE ended == [q \in Req |-> IF q \in runInputs THEN outcome ELSE sub[q]]
  <2>2. ended[r] # "withdrawn"
    BY DEF Outcomes
  <2> QED BY <1>start, <2>1, <2>2
<1>7. CASE Reopen
  BY <1>7 DEF Reopen, lane
<1> QED BY <1>1, <1>2, <1>3, <1>4, <1>5, <1>6, <1>7 DEF Next, Mishap

\* A pass that is due stays due.
LEMMA PassWriters ==
  ASSUME QInv, KindInv, [Next]_vars, NEW p \in Procs, pc[p] = "reconcile"
  PROVE  \/ pc'[p] = "reconcile" /\ ret'[p] = ret[p]
         \/ Reconcile(p) \/ ReconcileRead(p) \/ Forget \/ Reopen
<1>0. \A c \in Callers : c \notin {Drain, Settle, Tailer}
  BY CallersAssumption
<1>1. CASE p \in Callers /\ Begins(p)
  BY <1>1, BeginsKind DEF KindInv, QInv, TypeOK, LocalOK
<1>2. CASE p \in Callers /\ CallStep(p)
  BY <1>2 DEF CallStep, Push, Own, SelectClaim, UserRefused, Promote, Promoted, PromoteRefused,
     Quiesced, AbortCheck, AbortIntent, AbortNative, Aborted, RemoveNative, RemoveTooLate,
     RemoveCommit, ExternalAdmit, ExternalEnd, DisposeAbort, Disposed
<1>3. CASE HandoffStep(p) \/ ReconcileStep(p) \/ ReceiptLost(p) \/ AbortThrows(p)
  BY <1>3 DEF HandoffStep, Claim, ClaimRefused, SubmitHandoff, RecordReceipt, SubmitRefused,
     Handed, ReceiptLost, AbortThrows, ReconcileStep, ReconcileCommit
<1>4. CASE p = Drain /\ (DrainStep \/ Woken)
  BY <1>4 DEF DrainStep, DrainPick, DrainBreak, DrainEnd, DrainAwait, RecoverHandoff,
     RecoverReconcile, Recovered, Woken
<1>5. CASE (p = Settle /\ SettleStep) \/ (p = Tailer /\ TailStep)
  BY <1>5 DEF SettleStep, SettleStart, SettleRelease, SettleWake, TailStep, TailStart, TailEnd
<1> QED BY <1>1, <1>2, <1>3, <1>4, <1>5, StepActs DEF Acts, Same

\* p carries input i to the lane.
Carries(p, i) == pc[p] \in {"submit", "record"} /\ item[p] = i
Carried(i) == \E p \in Procs : Carries(p, i)

\* How an input ceases to be carried.
LEMMA CarriedLeaves ==
  ASSUME QInv, KindInv, [Next]_vars, NEW p \in Procs, NEW i, Carries(p, i)
  PROVE  \/ Carries(p, i)'
         \/ RecordReceipt(p) \/ SubmitRefused(p) \/ ReceiptLost(p) \/ Forget \/ Reopen
<1> USE DEF Carries
<1>0. LocalOK
  BY DEF QInv, TypeOK, LocalOK
<1>1. CASE p \in Callers /\ Begins(p)
  BY <1>1, BeginsKind DEF KindInv, QInv, TypeOK, LocalOK
<1>2. CASE p \in Callers /\ CallStep(p)
  BY <1>2 DEF CallStep, Push, Own, SelectClaim, UserRefused, Promote, Promoted, PromoteRefused,
     Quiesced, AbortCheck, AbortIntent, AbortNative, Aborted, RemoveNative, RemoveTooLate,
     RemoveCommit, ExternalAdmit, ExternalEnd, DisposeAbort, Disposed
<1>3. CASE SubmitHandoff(p)
  BY <1>0, <1>3 DEF SubmitHandoff, Goto, LocalOK
<1>4. CASE HandoffStep(p) \/ ReconcileStep(p) \/ ReceiptLost(p) \/ AbortThrows(p)
  BY <1>3, <1>4 DEF HandoffStep, Claim, ClaimRefused, Handed, AbortThrows,
     ReconcileStep, Reconcile, ReconcileRead, ReconcileCommit
<1>5. CASE p = Drain /\ (DrainStep \/ Woken)
  BY <1>5 DEF DrainStep, DrainPick, DrainBreak, DrainEnd, DrainAwait, RecoverHandoff,
     RecoverReconcile, Recovered, Woken
<1>6. CASE (p = Settle /\ SettleStep) \/ (p = Tailer /\ TailStep)
  BY <1>6 DEF SettleStep, SettleStart, SettleRelease, SettleWake, TailStep, TailStart, TailEnd,
     QInv, ChainInv, Place
<1> QED BY <1>1, <1>2, <1>4, <1>5, <1>6, StepActs DEF Acts, Same

\* How it comes to be.
LEMMA CarriedWriters ==
  ASSUME QInv, SelectInv, [Next]_vars, NEW p \in Procs, NEW i, Carries(p, i)'
  PROVE  Carries(p, i) \/ (Claim(p) /\ item[p] = i)
<1>1. CASE Claim(p)
  BY <1>1 DEF Carries, Claim
<1> QED BY <1>1, StepMoved DEF Carries, Moved

\* How the drain comes to close the recovery.
LEMMA RecoveredWriters ==
  ASSUME QInv, [Next]_vars, Place(Drain)' = "recovered"
  PROVE  Place(Drain) = "recovered" \/ RecoverReconcile
<1>0. LocalOK /\ ItemInv /\ Drain \in Procs /\ Drain \notin Callers /\ Drain # Settle /\ Drain # Tailer
  BY CallersAssumption DEF QInv, TypeOK, LocalOK, Procs, Drain, Settle, Tailer
<1> USE DEF Place
<1>1. CASE HandoffStep(Drain) \/ ReceiptLost(Drain) \/ AbortThrows(Drain)
  BY <1>0, <1>1 DEF HandoffStep, Claim, ClaimRefused, SubmitHandoff, RecordReceipt, SubmitRefused,
     Handed, ReceiptLost, HandoffThrows, AbortThrows, DrainStops, Goto, GotoReconcile, Return, LocalOK
<1>2. CASE ReconcileStep(Drain)
  BY <1>0, <1>2 DEF ReconcileStep, Reconcile, ReconcileRead, ReconcileCommit, Goto, LocalOK, ItemInv,
     RetLabels
<1>3. CASE DrainStep
  BY <1>0, <1>3 DEF DrainStep, DrainPick, RecoverHandoff, DrainBreak, DrainEnd, DrainAwait, Recovered,
     DrainStops, Goto, GotoReconcile, Return, LocalOK
<1>4. CASE Reopen \/ Woken \/ Forget \/ Same(Drain)
  BY <1>0, <1>4 DEF Reopen, Woken, Forget, Same, Goto, LocalOK
<1> QED BY <1>0, <1>1, <1>2, <1>3, <1>4, StepActs DEF Acts

\* Where the call c goes from its place by a step that is not its start.
Onward(c) ==
  /\ Place(c)' \in {"close", "closing"} => kind[c] = "dispose" \/ Place(c) \in {"close", "closing"}
  /\ pc'[c] = "abortNative" => pc[c] = "abortNative" \/ AbortIntent(c)
  /\ Place(c)' = "quiesce" =>
       \/ Place(c) = "quiesce" /\ kind'[c] = kind[c]
       \/ kind'[c] \in {"interrupt", "select"}
       \/ SelectClaim(c)
  /\ kind'[c] = "select" /\ Place(c)' \in Aborting \cup {"quiesce"} =>
       kind[c] = "select" /\ (SelectClaim(c) \/ (Place(c) \in Aborting \cup {"quiesce"} /\ item'[c] = item[c]))
  /\ kind'[c] \in UserKinds /\ pc'[c] = "claim" =>
       /\ kind[c] = kind'[c] /\ item'[c] = item[c]
       /\ Own(c) \/ pc[c] = "claim" \/ (pc[c] = "quiesce" /\ kind[c] # "interrupt")

\* Every step of a call but its first takes it onward.
LEMMA CallOnward ==
  ASSUME QInv, NEW c \in Callers, Same(c) \/ (Acts(c) /\ ~Begins(c)) \/ Forget
  PROVE  Onward(c)
<1>0. LocalOK /\ ItemInv /\ c \in Procs /\ c \notin {Drain, Settle, Tailer}
  BY CallersAssumption DEF QInv, TypeOK, LocalOK, Procs
<1> USE DEF Onward, Place, Aborting
<1>1. CASE Same(c)
  BY <1>1 DEF Same
<1>2. CASE Forget
  BY <1>0, <1>2 DEF Forget
<1>3. CASE ReconcileStep(c)
  BY <1>0, <1>3 DEF ReconcileStep, Reconcile, ReconcileRead, ReconcileCommit, Goto, LocalOK, ItemInv,
     RetLabels
<1>4. CASE HandoffStep(c) \/ ReceiptLost(c) \/ AbortThrows(c)
  BY <1>0, <1>4 DEF HandoffStep, Claim, ClaimRefused, SubmitHandoff, RecordReceipt, SubmitRefused,
     Handed, ReceiptLost, HandoffThrows, AbortThrows, Goto, GotoReconcile, Return, LocalOK
<1>5. CASE Push(c) \/ Own(c) \/ SelectClaim(c) \/ UserRefused(c) \/ Promote(c) \/ Promoted(c)
           \/ PromoteRefused(c) \/ Quiesced(c)
  BY <1>0, <1>5 DEF Push, Own, SelectClaim, UserRefused, Promote, Promoted, PromoteRefused,
     Quiesced, Goto, GotoReconcile, Return, LocalOK, UserKinds
<1>6. CASE AbortCheck(c) \/ AbortIntent(c) \/ AbortNative(c) \/ Aborted(c)
  BY <1>0, <1>6 DEF AbortCheck, AbortIntent, AbortNative, AfterAbort, Aborted, Goto, GotoReconcile,
     Return, LocalOK
<1>7. CASE RemoveNative(c) \/ RemoveTooLate(c) \/ RemoveCommit(c) \/ ExternalAdmit(c)
           \/ ExternalEnd(c) \/ DisposeAbort(c) \/ Disposed(c)
  BY <1>0, <1>2, <1>7 DEF RemoveNative, RemoveTooLate, RemoveCommit, ExternalAdmit, ExternalEnd,
     WakeDrain, DisposeAbort, Disposed, Goto, Return, LocalOK
<1> QED BY <1>0, <1>1, <1>2, <1>3, <1>4, <1>5, <1>6, <1>7 DEF Acts, CallStep

-----------------------------------------------------------------------------
(* The invariant of a queue that keeps the abstract promise.               *)

\* No attempt after the current one has a receipt, and no attempt of an input that waits.
LaterInv ==
  \A i \in Inputs, a \in Attempts :
    a > attempt[i] \/ (a = attempt[i] /\ disp[i] \in {"absent", "pending"}) => sub[<<i, a>>] = "none"

\* What was given up as consumed was placed or withdrawn.
EndedInv == \A i \in Inputs : disp[i] = "consumed" => Receipt(i) \in Placed \cup {"withdrawn"}

\* A removal in progress was asked for.
AskedInv == \A c \in Callers : pc[c] \in Removing => item[c] \in removalAsked

\* No call disposes of the session.
DisposeInv == \A c \in Callers : kind[c] # "dispose" /\ Place(c) \notin {"close", "closing"}

\* A user admission holds the admission of the session.
AdmitInv == \A c \in Callers : kind[c] \in UserKinds => admitting = c

\* A cancellation pauses the queue before it reaches the lane.
PausedInv ==
  /\ abortOp # None => paused
  /\ \A c \in Callers : pc[c] = "abortNative" => paused

\* Who waits for the lane to be quiet brings a replacement.
QuiesceInv == \A c \in Callers : Place(c) = "quiesce" => kind[c] \in {"interrupt", "select"}

\* The user admission c claimed its input and has not handed it off yet.
Owns(c) ==
  /\ kind[c] \in UserKinds
  /\ pc[c] = "claim" \/ (kind[c] = "select" /\ Place(c) \in Aborting \cup {"quiesce"})

\* Such an input is untouched.
UserInv ==
  \A c \in Callers : Owns(c) =>
    /\ item[c] \in Inputs
    /\ disp[item[c]] \in {"handoff", "uncertain"}
    /\ subm[item[c]] = NoSub
    /\ Receipt(item[c]) = "none"
    /\ ~Carried(item[c])

\* What enters, and what was withdrawn, stays so.
LEMMA ReceiptKept ==
  ASSUME QInv, RunInv, CarriedInv, [Next]_vars, NEW i \in Inputs, NEW a \in Attempts
  PROVE  /\ sub[<<i, a>>] \in Placed => sub'[<<i, a>>] \in Placed
         /\ sub[<<i, a>>] = "withdrawn" => sub'[<<i, a>>] = "withdrawn"
<1>1. <<i, a>> \in Req
  BY DEF Req
<1>2. LaneKept
  BY StepLane DEF QInv, LaneGood, AbortInv, HeadPlaced
<1> QED BY <1>1, <1>2, StepEnters DEF LaneKept, Settled, Unentered

\* No receipt is written for an attempt that has not begun.
LEMMA StepLater ==
  ASSUME QInv, OnceInv, LaterInv, [Next]_vars PROVE LaterInv'
<1> SUFFICES ASSUME NEW i \in Inputs, NEW a \in Attempts,
                    a > attempt'[i] \/ (a = attempt'[i] /\ disp'[i] \in {"absent", "pending"})
             PROVE  sub'[<<i, a>>] = "none"
  BY DEF LaterInv
<1>0. attempt[i] \in 0..MaxAttempt /\ a \in 0..MaxAttempt /\ MaxAttempt \in Nat
  BY MaxAttemptAssumption DEF QInv, TypeOK, Attempts
<1>1. a > attempt[i] \/ (a = attempt[i] /\ disp[i] \in {"absent", "pending"})
  BY <1>0, InputWriters DEF Kept, Reconciled
<1>2. sub[<<i, a>>] = "none"
  BY <1>1 DEF LaterInv
<1>3. Settled(<<i, a>>)
  BY <1>0, StepEnters DEF OnceInv
<1> QED BY <1>2, <1>3 DEF Settled, Unentered

\* An input is consumed only by a pass that found a placement or a withdrawal.
LEMMA StepEnded ==
  ASSUME QInv, OnceInv, EndedInv, [Next]_vars PROVE EndedInv'
<1> SUFFICES ASSUME NEW i \in Inputs, disp'[i] = "consumed"
             PROVE  Receipt(i)' \in Placed \cup {"withdrawn"}
  BY DEF EndedInv
<1>1. attempt[i] \in Attempts
  BY DEF QInv, TypeOK
<1>2. attempt'[i] = attempt[i] /\ Receipt(i) \in Placed \cup {"withdrawn"}
  BY InputWriters DEF Kept, Reconciled, EndedInv
<1> QED BY <1>1, <1>2, ReceiptKept DEF Receipt, OnceInv

\* Whoever removes an input was asked to.
LEMMA StepAsked ==
  ASSUME QInv, SelectInv, AskedInv, [Next]_vars PROVE AskedInv'
<1> SUFFICES ASSUME NEW c \in Callers, pc'[c] \in Removing PROVE item'[c] \in removalAsked'
  BY DEF AskedInv
<1>0. LocalOK /\ c \in Procs
  BY DEF QInv, TypeOK, LocalOK, Procs
<1>1. removalAsked \subseteq removalAsked'
  BY GhostWriters
<1>2. CASE \E i \in Inputs : RemoveStart(c, i)
  BY <1>0, <1>2 DEF RemoveStart, Begin, LocalOK
<1>3. CASE RemoveNative(c)
  BY <1>1, <1>3 DEF RemoveNative, Goto, AskedInv, Removing
<1> QED BY <1>0, <1>1, <1>2, <1>3, StepMoved DEF Moved, AskedInv

\* A call starts, or goes onward.
LEMMA CallsGo ==
  ASSUME QInv, [Next]_vars, NEW c \in Callers PROVE Begins(c) \/ Onward(c)
BY StepActs, CallOnward DEF Procs

\* No call turns into a disposal.
LEMMA StepDispose ==
  ASSUME QInv, KindInv, DisposeInv, "dispose" \notin Kinds, [Next]_vars PROVE DisposeInv'
<1> SUFFICES ASSUME NEW c \in Callers
             PROVE  kind'[c] # "dispose" /\ Place(c)' \notin {"close", "closing"}
  BY DEF DisposeInv
<1>0. LocalOK /\ c \in Procs
  BY DEF QInv, TypeOK, LocalOK, Procs
<1>1. CASE Begins(c)
  BY <1>0, <1>1, BeginsKind DEF Place, Removing
<1>2. CASE ~Begins(c)
  <2>1. kind'[c] \in {kind[c], "none"}
    <3>1. CASE Forget
      BY <1>0, <3>1 DEF Forget
    <3>2. CASE Same(c)
      BY <3>2 DEF Same
    <3>3. CASE Acts(c)
      BY <1>0, <1>2, <3>3, ActsKind
    <3> QED BY <1>0, <3>1, <3>2, <3>3, StepActs
  <2> QED BY <1>2, <2>1, CallsGo DEF Onward, DisposeInv
<1> QED BY <1>1, <1>2

\* A user admission keeps the admission until it is answered.
LEMMA StepAdmit ==
  ASSUME QInv, KindInv, AdmitInv, [Next]_vars PROVE AdmitInv'
<1> SUFFICES ASSUME NEW c \in Callers, kind'[c] \in UserKinds PROVE admitting' = c
  BY DEF AdmitInv
<1>0. LocalOK /\ c \in Procs /\ c # None
  BY CallersAssumption DEF QInv, TypeOK, LocalOK, Procs
<1>1. CASE Begins(c)
  BY <1>0, <1>1, BeginsKind
<1>2. CASE ~Begins(c)
  <2>1. ~Forget
    BY <1>0 DEF Forget, UserKinds
  <2>2. kind[c] = kind'[c]
    BY <1>0, <1>2, <2>1, StepActs, ActsKind DEF Same, UserKinds
  <2>3. admitting = c
    BY <2>2 DEF AdmitInv
  <2> QED BY <1>0, <2>1, <2>3, OwnerWriters DEF UserKinds
<1> QED BY <1>1, <1>2

\* Nobody resumes the queue while a cancellation is on its way to the lane.
LEMMA StepPaused ==
  ASSUME QInv, KindInv, PausedInv, ~EagerResume, [Next]_vars PROVE PausedInv'
<1>0. LocalOK /\ Drain \notin Callers /\ paused \in BOOLEAN /\ Callers \subseteq Procs
  BY CallersAssumption DEF QInv, TypeOK, LocalOK, Procs
<1>1. CASE Resume
  <2>1. abortOp' = None
    BY <1>1 DEF Resume
  <2>2. ASSUME NEW c \in Callers PROVE pc'[c] # "abortNative"
    BY <1>0, <1>1 DEF Resume, Answered, KindInv, WakeDrain, LocalOK
  <2> QED BY <2>1, <2>2 DEF PausedInv
<1>2. CASE ~Resume
  <2>1. paused => paused'
    BY <1>0, <1>2, PausedWriters
  <2>2. abortOp' # None => paused'
    BY <1>2, <2>1, IntentWriters DEF PausedInv, AbortIntent
  <2>3. ASSUME NEW c \in Callers, pc'[c] = "abortNative" PROVE paused'
    <3>1. ~Begins(c)
      BY <1>0, <2>3, BeginsKind DEF Removing
    <3> QED BY <2>1, <2>3, <3>1, CallsGo DEF Onward, PausedInv, AbortIntent
  <2> QED BY <2>2, <2>3 DEF PausedInv
<1> QED BY <1>1, <1>2

\* Only an interruption waits for the lane to be quiet.
LEMMA StepQuiesce ==
  ASSUME QInv, SelectInv, QuiesceInv, [Next]_vars PROVE QuiesceInv'
<1> SUFFICES ASSUME NEW c \in Callers, Place(c)' = "quiesce" PROVE kind'[c] \in {"interrupt", "select"}
  BY DEF QuiesceInv
<1>0. LocalOK /\ c \in Procs
  BY DEF QInv, TypeOK, LocalOK, Procs
<1>1. CASE Begins(c)
  BY <1>0, <1>1, BeginsKind DEF Place, Removing
<1>2. CASE SelectClaim(c)
  BY <1>0, <1>2 DEF SelectClaim, Goto, SelectInv
<1> QED BY <1>1, <1>2, CallsGo DEF Onward, QuiesceInv

\* Who may claim an input that is not pending.
LEMMA ClaimsAgain ==
  ASSUME QInv, KindInv, NEW p \in Procs, Claim(p), disp[item[p]] # "pending"
  PROVE  \/ p \in Callers /\ kind[p] \in UserKinds
         \/ phase = "recovering" /\ p = Drain
<1>0. \A c \in Callers : c \notin {Drain, Settle, Tailer}
  BY CallersAssumption
<1>1. pc[p] = "claim" /\ Recovering(p)
  BY DEF Claim, Claimable
<1>2. p \notin {Settle, Tailer}
  BY <1>1 DEF QInv, ChainInv, Place
<1>3. CASE kind[p] \in UserKinds
  BY <1>2, <1>3 DEF KindInv, UserKinds, Procs
<1>4. CASE phase = "recovering"
  BY <1>1, <1>2, <1>4 DEF QInv, PhaseInv, Procs
<1> QED BY <1>1, <1>3, <1>4 DEF Recovering

\* A call that owns an input is in progress in an open session.
LEMMA OwnsOpen ==
  ASSUME QInv, NEW c \in Callers, Owns(c) PROVE phase = "open"
BY DEF QInv, PhaseInv, Owns, Place, Aborting

\* Who comes to own an input.
LEMMA OwnsWriters ==
  ASSUME QInv, QuiesceInv, [Next]_vars, NEW c \in Callers, Owns(c)'
  PROVE  \/ Owns(c) /\ item'[c] = item[c]
         \/ Own(c) \/ SelectClaim(c)
<1>0. LocalOK /\ c \in Procs
  BY DEF QInv, TypeOK, LocalOK, Procs
<1>1. CASE Begins(c)
  BY <1>0, <1>1, BeginsKind DEF Owns, Place, Removing, Aborting, Begins, Starts, PromptStart,
     SteerStart, InterruptStart, RemoveStart, SelectStart, PromoteStart, UserBegin, AbortStart,
     Lock, ExternalStart, DisposeStart, Begin, LocalOK
<1>2. CASE Onward(c)
  <2>1. CASE kind'[c] = "select" /\ Place(c)' \in Aborting \cup {"quiesce"}
    BY <1>2, <2>1 DEF Onward, Owns, UserKinds
  <2>2. CASE kind'[c] \in UserKinds /\ pc'[c] = "claim"
    <3>1. CASE pc[c] = "quiesce" /\ kind[c] # "interrupt"
      BY <1>2, <2>2, <3>1 DEF Onward, Owns, UserKinds, QuiesceInv, Place
    <3> QED BY <1>2, <2>2, <3>1 DEF Onward, Owns
  <2> QED BY <2>1, <2>2 DEF Owns
<1> QED BY <1>1, <1>2, CallsGo

\* A user admission that claims its input just now.
LEMMA OwnsNow ==
  ASSUME QInv, OnceInv, SelectInv, LaterInv, [Next]_vars, NEW c \in Callers, Own(c) \/ SelectClaim(c)
  PROVE  /\ item'[c] = item[c] /\ item[c] \in Inputs
         /\ disp'[item[c]] = "handoff" /\ subm'[item[c]] = NoSub
         /\ Receipt(item[c])' = "none" /\ ~Carried(item[c])'
<1>0. LocalOK /\ RecordOK /\ ItemInv /\ CarriedInv /\ ReceiptInv /\ c \in Procs
  BY DEF QInv, TypeOK, LocalOK, RecordOK, OnceInv, Procs
<1> DEFINE i == item[c]
<1>1. i \in Inputs /\ disp[i] = "pending"
  BY <1>0 DEF Own, SelectClaim, ItemInv, Place, Needs, Carrying
<1>2. /\ item' = item /\ UNCHANGED <<attempt, subm, sub>>
      /\ disp' = [disp EXCEPT ![i] = "handoff"]
      /\ \A q \in Procs : pc'[q] = pc[q] \/ pc'[q] \in {"claim", "quiesce", "abort"}
  BY <1>0 DEF Own, SelectClaim, Goto, native, lane, LocalOK
<1>3. Receipt(i) = "none"
  BY <1>0, <1>1 DEF LaterInv, Receipt, RecordOK
<1>4. ~Carried(i)'
  BY <1>0, <1>1, <1>2 DEF Carried, Carries, CarriedInv
<1> QED BY <1>0, <1>1, <1>2, <1>3, <1>4 DEF Receipt, ReceiptInv, RecordOK

\* Nobody touches the input of a user admission before it is handed off.
LEMMA StepUser ==
  ASSUME QInv, OnceInv, SelectInv, KindInv, LaterInv, AdmitInv, QuiesceInv, UserInv, [Next]_vars
  PROVE  UserInv'
<1> SUFFICES ASSUME NEW c \in Callers, Owns(c)'
    PROVE  /\ item'[c] \in Inputs
           /\ disp'[item'[c]] \in {"handoff", "uncertain"}
           /\ subm'[item'[c]] = NoSub
           /\ Receipt(item[c])' = "none"
           /\ ~Carried(item[c])'
  BY DEF UserInv
<1>1. CASE Own(c) \/ SelectClaim(c)
  <2>1. item'[c] = item[c]
    BY <1>1, OwnsNow
  <2> QED BY <1>1, <2>1, OwnsNow DEF Receipt, Carried
<1>2. CASE Owns(c) /\ item'[c] = item[c]
  <2>0. PICK i : i = item[c]
    OBVIOUS
  <2>1. /\ i \in Inputs /\ disp[i] \in {"handoff", "uncertain"} /\ subm[i] = NoSub
        /\ Receipt(i) = "none" /\ ~Carried(i) /\ phase = "open"
    BY <1>2, <2>0, OwnsOpen DEF UserInv
  <2>2. attempt[i] \in Attempts /\ attempt[i] # NoSub
    BY <2>1, MaxAttemptAssumption DEF QInv, TypeOK, Attempts, NoSub
  <2>3. ~\E p \in Procs : item[p] = i /\ (RecordReceipt(p) \/ SubmitHandoff(p))
    BY <2>1 DEF RecordReceipt, SubmitHandoff, Carried, Carries
  <2>4. ~\E d \in Callers : item[d] = i /\ ((RemoveCommit(d) /\ Removable(d)) \/ Promote(d))
    BY <2>1 DEF Removable, Promote, Promotable
  <2>5. disp'[i] \in {"handoff", "uncertain"} /\ subm'[i] = NoSub /\ attempt'[i] = attempt[i]
    BY <2>1, <2>2, <2>3, <2>4, InputWriters DEF Kept, Reconciled
  <2>6. <<i, attempt[i]>> \in Req
    BY <2>1, <2>2 DEF Req
  <2>7. sub'[<<i, attempt[i]>>] = "none"
    <3>1. Settled(<<i, attempt[i]>>)
      BY <2>3, <2>4, <2>6, StepSettled DEF OnceInv
    <3> QED BY <2>1, <3>1 DEF Settled, Unentered, Receipt
  <2>8. ASSUME NEW p \in Procs, Carries(p, i)' PROVE FALSE
    <3>1. Claim(p) /\ item[p] = i
      BY <2>1, <2>8, CarriedWriters DEF Carried
    <3>2. p \in Callers /\ kind[p] \in UserKinds
      BY <2>1, <3>1, ClaimsAgain
    <3>3. p = c
      BY <1>2, <3>2 DEF AdmitInv, Owns
    <3>4. pc'[c] = "submit"
      BY <3>1, <3>3 DEF Claim, QInv, TypeOK
    <3> QED BY <3>4 DEF Owns, Place, Aborting
  <2> QED BY <1>2, <2>0, <2>1, <2>5, <2>7, <2>8 DEF Receipt, Carried
<1> QED BY <1>1, <1>2, OwnsWriters

\* The receipt of the claimed input i was withdrawn, and a pass is still to find it.
Cut(i) ==
  /\ Receipt(i) = "withdrawn"
  /\ disp[i] = "handoff" \/ (disp[i] = "uncertain" /\ subm[i] # NoSub)

\* A pass is due in a call, or in the drain behind its handoff.
PassComes == \E p \in Procs : pc[p] = "reconcile" /\ (p \in Callers \/ ret[p] = "handed")

\* Somebody will see it in a queue that is paused: who reconciles after the withdrawal, or
\* who records the receipt before it reconciles; or the commit of the receipt failed.
Watched(i) ==
  \/ paused /\ (phase # "open" \/ IF subm[i] # NoSub THEN PassComes ELSE Carried(i))
  \/ phase = "open" /\ mishaps > 0 /\ subm[i] = NoSub /\ ~Carried(i)

GapInv == \A i \in Inputs \ removalAsked : Cut(i) => Watched(i)

\* In an open session a claimed input without a recorded receipt was not submitted yet, or
\* is about to get its receipt recorded, or the commit of the receipt failed.
LooseInv ==
  phase = "open" => \A i \in Inputs :
    disp[i] = "handoff" /\ subm[i] = NoSub /\ Receipt(i) # "none" => Carried(i) \/ mishaps > 0

\* A recovery closes when every unfinished handoff was repeated, and the pass after it
\* found every withdrawal.
RecovInv ==
  /\ Place(Drain) = "recovered" =>
       phase = "recovering" /\ \A i \in Inputs : disp[i] = "handoff" => subm[i] # NoSub
  /\ pc[Drain] = "recovered" => \A i \in Inputs : ~Cut(i)

\* What withdraws a receipt changes no record.
LEMMA CutWriters ==
  ASSUME QInv, OnceInv, LaterInv, [Next]_vars, NEW i \in Inputs, Cut(i)', ~Cut(i)
  PROVE  /\ UNCHANGED <<disp, attempt, subm, paused, mishaps>>
         /\ Receipt(i) # "none"
         /\ \/ \E c \in Callers : \/ AbortNative(c) \/ DisposeAbort(c)
                                  \/ RemoveNative(c) /\ i = item[c]
            \/ Reopen /\ abortOp # None
<1>0. attempt[i] \in Attempts /\ attempt'[i] \in Attempts /\ attempt[i] # NoSub /\ LaneTypeOK
  <2>1. QInv'
    BY StepQ
  <2> QED BY <2>1, MaxAttemptAssumption DEF QInv, TypeOK, Attempts, NoSub
<1>1. CASE sub[<<i, attempt'[i]>>] = "withdrawn"
  <2>1. attempt'[i] = attempt[i] => Receipt(i) = "withdrawn"
    BY <1>1 DEF Receipt
  <2>2. disp[i] = "pending" => Receipt(i) = "none"
    BY <1>0 DEF LaterInv, Receipt
  <2> QED BY <1>0, <2>1, <2>2, InputWriters DEF Kept, Reconciled, Cut
<1>2. CASE sub[<<i, attempt'[i]>>] # "withdrawn"
  <2>1. sub'[<<i, attempt'[i]>>] = "withdrawn" /\ <<i, attempt'[i]>> \in Req
    BY <1>0 DEF Cut, Receipt, Req
  <2>2. \/ \E c \in Callers : \/ AbortNative(c) \/ DisposeAbort(c)
                              \/ RemoveNative(c) /\ <<i, attempt'[i]>> = <<item[c], snap[c]>>
        \/ Reopen /\ abortOp # None
    BY <1>2, <2>1, WithdrawWriters DEF OnceInv
  <2>3. UNCHANGED <<disp, attempt, subm, paused, mishaps>>
    BY <2>2 DEF AbortNative, DisposeAbort, RemoveNative, Reopen, record, intent, ghost
  <2>4. Receipt(i) # "none"
    <3>1. CASE \E r : Abort \/ Withdraw(r)
      BY <1>0, <2>1, <2>3, <3>1 DEF Abort, Withdraw, Receipt, LaneTypeOK
    <3> QED BY <2>1, <2>2, <2>3, <3>1 DEF AbortNative, DisposeAbort, RemoveNative, Reopen, lane, Receipt
  <2> QED BY <2>2, <2>3, <2>4
<1> QED BY <1>1, <1>2

\* A receipt is recorded by whoever brought the input to the lane, or lost by a mishap.
LEMMA StepLoose ==
  ASSUME QInv, OnceInv, SelectInv, KindInv, LaterInv, LooseInv, RecovInv, [Next]_vars
  PROVE  LooseInv'
<1> SUFFICES ASSUME phase' = "open", NEW i \in Inputs,
                    disp'[i] = "handoff", subm'[i] = NoSub, Receipt(i)' # "none", ~(mishaps' > 0)
             PROVE  Carried(i)'
  BY DEF LooseInv
<1>0. /\ attempt[i] \in Attempts /\ attempt[i] # NoSub /\ mishaps \in Nat
      /\ attempt[i] \in Nat /\ <<i, attempt[i]>> \in Req
  BY MaxAttemptAssumption DEF QInv, TypeOK, Attempts, NoSub, Req
<1>1. ~(mishaps > 0)
  BY <1>0, GhostWriters
<1>2. disp[i] = "pending" => Receipt(i) = "none"
  BY <1>0 DEF LaterInv, Receipt
<1>3. Kept(i)
  BY <1>0, <1>2, InputWriters DEF Kept, Reconciled, Receipt
<1>4. phase = "open"
  <2>1. ~Recovered
    BY <1>3 DEF Recovered, RecovInv, Place, Kept
  <2> QED BY <2>1, PhaseWriters DEF Crash, Disposed, Forget, Reopen
<1>5. CASE Receipt(i) = "none"
  <2>1. ~Settled(<<i, attempt[i]>>)
    BY <1>3, <1>5 DEF Settled, Unentered, Receipt, Kept
  <2>2. ~\E c \in Callers : Promote(c) /\ item[c] = i
    BY <1>3 DEF Promote, Promotable, Kept
  <2>3. PICK p \in Procs : SubmitHandoff(p) /\ item[p] = i
    BY <1>0, <2>1, <2>2, StepSettled DEF OnceInv
  <2>4. Carries(p, i)'
    BY <2>3 DEF SubmitHandoff, Goto, Carries, QInv, TypeOK
  <2> QED BY <2>4 DEF Carried
<1>6. CASE Receipt(i) # "none"
  <2>1. PICK p \in Procs : Carries(p, i)
    BY <1>1, <1>3, <1>4, <1>6 DEF LooseInv, Kept, Carried
  <2>2. att[p] = attempt[i]
    BY <2>1 DEF Carries, OnceInv, CarriedInv
  <2>3. ~RecordReceipt(p)
    BY <1>0, <1>3, <2>1, <2>2 DEF RecordReceipt, Carries, QInv, TypeOK
  <2>4. ~SubmitRefused(p)
    BY <1>6, <2>1, <2>2 DEF SubmitRefused, Refuses, Carries, Receipt
  <2>5. ~ReceiptLost(p)
    BY <1>0 DEF ReceiptLost
  <2>6. ~Forget /\ ~Reopen
    BY DEF Forget, Reopen
  <2> QED BY <2>1, <2>3, <2>4, <2>5, <2>6, CarriedLeaves DEF Carried
<1> QED BY <1>5, <1>6

\* A recovery comes to its end when every claim has its receipt.
LEMMA StepRecov ==
  ASSUME ~Overtaking, QInv, OnceInv, SelectInv, KindInv, LaterInv, RecovInv, [Next]_vars PROVE RecovInv'
<1>0. Drain \in Procs /\ ReceiptInv /\ WholeInv
  BY DEF Procs, OnceInv
<1>1. CASE Place(Drain)' # "recovered"
  BY <1>1 DEF RecovInv, Place
<1>2. CASE Place(Drain)' = "recovered" /\ RecoverReconcile
  BY <1>2 DEF RecoverReconcile, GotoReconcile, RecovInv, QInv, PhaseInv, TypeOK, record, Procs
<1>3. CASE Place(Drain)' = "recovered" /\ Place(Drain) = "recovered"
  <2>1. /\ phase = "recovering" /\ \A c \in Callers : pc[c] = "idle"
        /\ \A i \in Inputs : disp[i] = "handoff" => subm[i] # NoSub
        /\ pc[Drain] \in {"recovered", "reconcile"}
    BY <1>0, <1>3 DEF RecovInv, QInv, PhaseInv, Place, WholeInv
  <2>2. ~Forget /\ ~Recovered /\ ~Reopen
    BY <1>0, <1>3, <2>1 DEF Forget, Recovered, Return, Reopen, Place, QInv, TypeOK
  <2>3. phase' = "recovering"
    BY <2>1, <2>2, PhaseWriters DEF Crash, Disposed
  <2>4. ASSUME NEW i \in Inputs, disp'[i] = "handoff" PROVE subm'[i] # NoSub
    <3>1. attempt[i] # NoSub
      BY MaxAttemptAssumption DEF QInv, TypeOK, Attempts, NoSub
    <3>2. ~\E c \in Callers : Own(c) \/ SelectClaim(c)
      BY <2>1 DEF Own, SelectClaim
    <3>3. ~\E p \in Procs : Claim(p)
      BY <2>1 DEF Claim, QInv, ChainInv, Place, Procs
    <3> QED BY <2>1, <2>4, <3>1, <3>2, <3>3, InputWriters DEF Kept, Reconciled
  <2>5. ASSUME pc'[Drain] = "recovered", NEW i \in Inputs, Cut(i)' PROVE FALSE
    <3>1. Cut(i)
      BY <2>1, <2>2, <2>5, CutWriters DEF AbortNative, DisposeAbort, RemoveNative
    <3>2. Reconcile(Drain)
      BY <1>0, <2>1, <2>2, <2>5, <3>1, PassWriters DEF RecovInv, ReconcileRead
    <3>3. disp[i] \in {"handoff", "uncertain"} /\ subm[i] # NoSub /\ Receipt(i) = "withdrawn"
      BY <2>1, <3>1 DEF Cut
    <3> QED BY <1>0, <2>5, <3>2, <3>3, PassOutcome DEF Cut
  <2> QED BY <2>3, <2>4, <2>5 DEF RecovInv
<1> QED BY <1>1, <1>2, <1>3, RecoveredWriters

\* Every step.
LEMMA StepGap ==
  ASSUME ~Overtaking, ~EagerResume, MaxMishaps <= 1, QInv, OnceInv, SelectInv, KindInv, LaterInv,
         AskedInv, DisposeInv, PausedInv, UserInv, LooseInv, RecovInv, GapInv, [Next]_vars
  PROVE  GapInv'
<1> SUFFICES ASSUME NEW i \in Inputs, i \notin removalAsked', Cut(i)' PROVE Watched(i)'
  BY DEF GapInv
<1>0. /\ attempt[i] \in Attempts /\ attempt[i] # NoSub /\ mishaps \in Nat /\ paused \in BOOLEAN
      /\ mishaps' \in {mishaps, mishaps + 1} /\ i \notin removalAsked
  BY MaxAttemptAssumption, GhostWriters DEF QInv, TypeOK, Attempts, NoSub
<1>1. CASE ~Cut(i)
  <2>1. /\ UNCHANGED <<disp, attempt, subm, paused, mishaps>> /\ Receipt(i) # "none"
        /\ (\E c \in Callers : AbortNative(c)) \/ (Reopen /\ abortOp # None)
    BY <1>0, <1>1, CutWriters DEF DisposeAbort, DisposeInv, Place, RemoveNative, AskedInv, Removing
  <2>2. CASE Reopen /\ abortOp # None
    BY <2>1, <2>2 DEF PausedInv, Reopen, Watched
  <2>3. ASSUME NEW c \in Callers, AbortNative(c) PROVE Watched(i)'
    <3>1. c \in Procs /\ paused /\ phase = "open" /\ phase' = "open"
      BY <2>3, CallOpen DEF AbortNative, PausedInv, QInv, TypeOK, LocalOK, Procs
    <3>2. pc'[c] = "reconcile"
      BY <2>3, <3>1 DEF AbortNative, GotoReconcile, QInv, TypeOK
    <3>3. CASE subm[i] # NoSub
      BY <2>1, <3>1, <3>2, <3>3 DEF Watched, PassComes
    <3>4. CASE subm[i] = NoSub
      <4>1. disp[i] = "handoff" /\ (Carried(i) \/ mishaps > 0)
        BY <2>1, <3>1, <3>4 DEF Cut, LooseInv
      <4>2. Carried(i) => Carried(i)'
        BY <2>3, <3>1 DEF AbortNative, GotoReconcile, Carried, Carries, QInv, TypeOK
      <4> QED BY <2>1, <3>1, <3>4, <4>1, <4>2 DEF Watched
    <3> QED BY <3>3, <3>4
  <2> QED BY <2>1, <2>2, <2>3
<1>2. CASE Cut(i)
  <2>0. Receipt(i) = "withdrawn" /\ disp[i] \in {"handoff", "uncertain"} /\ Watched(i)
    BY <1>0, <1>2 DEF Cut, GapInv
  <2>1. Kept(i) \/ \E p \in Procs : item[p] = i /\ RecordReceipt(p)
    BY <1>0, <2>0, InputWriters DEF Reconciled, Cut
  <2>2. ~Recovered
    BY <1>2 DEF Recovered, RecovInv
  <2>3. phase' = "open" => phase = "open"
    BY <2>2, PhaseWriters DEF Crash, Disposed, Forget, Reopen
  <2>4. ASSUME NEW p \in Procs, item[p] = i, RecordReceipt(p) PROVE Watched(i)'
    <3>1. Carried(i)
      BY <2>4 DEF RecordReceipt, Carried, Carries
    <3>2. paused /\ paused' = paused
      BY <2>0, <2>4, <3>1 DEF Watched, RecordReceipt, intent
    <3>3. pc'[p] = "reconcile" /\ ret'[p] = "handed" /\ subm'[i] = att[p] /\ att[p] # NoSub
      BY <2>4, MaxAttemptAssumption
         DEF RecordReceipt, GotoReconcile, QInv, TypeOK, Attempts, NoSub
    <3> QED BY <3>2, <3>3 DEF Watched, PassComes
  <2>5. CASE Kept(i) /\ paused /\ (phase # "open" \/ IF subm[i] # NoSub THEN PassComes ELSE Carried(i))
    <3>1. ~Resume
      <4>1. \A p \in Procs : ~Holds(p) \/ handingOff # {}
        BY DEF QInv, HandoffInv
      <4> QED BY <2>5, <4>1 DEF Resume, Answered, PassComes, Carried, Carries, Holds, Place, KindInv
    <3>2. paused'
      BY <2>5, <3>1, PausedWriters
    <3>3. CASE phase' # "open"
      BY <3>2, <3>3 DEF Watched
    <3>4. CASE phase' = "open" /\ subm[i] # NoSub
      <4>1. PICK p \in Procs : pc[p] = "reconcile" /\ (p \in Callers \/ ret[p] = "handed")
        BY <2>3, <2>5, <3>4 DEF PassComes
      <4>2. ~Reconcile(p)
        BY <1>0, <2>0, <2>5, <3>4, PassOutcome DEF Kept, OnceInv
      <4>3. pc'[p] = "reconcile" /\ ret'[p] = ret[p]
        BY <2>3, <3>4, <4>1, <4>2, PassWriters DEF ReconcileRead, Forget, Reopen
      <4> QED BY <2>5, <3>2, <3>4, <4>1, <4>3 DEF Watched, PassComes, Kept
    <3>5. CASE phase' = "open" /\ subm[i] = NoSub
      <4>1. PICK p \in Procs : Carries(p, i)
        BY <2>3, <2>5, <3>5 DEF Carried
      <4>2. att[p] = attempt[i]
        BY <4>1 DEF Carries, OnceInv, CarriedInv
      <4>3. ~RecordReceipt(p)
        BY <1>0, <2>5, <3>5, <4>1, <4>2 DEF RecordReceipt, Carries, QInv, TypeOK, Kept
      <4>4. ~SubmitRefused(p)
        BY <2>0, <4>1, <4>2 DEF SubmitRefused, Refuses, Carries, Receipt
      <4>5. CASE ReceiptLost(p)
        <5>1. mishaps' > 0
          BY <1>0, <4>5 DEF ReceiptLost
        <5> QED BY <2>5, <3>2, <3>5, <5>1 DEF Watched, Kept
      <4>6. CASE Carries(p, i)'
        BY <2>5, <3>2, <3>5, <4>6 DEF Watched, Kept, Carried
      <4> QED BY <2>3, <3>5, <4>1, <4>3, <4>4, <4>5, <4>6, CarriedLeaves DEF Forget, Reopen
    <3> QED BY <3>3, <3>4, <3>5
  <2>6. CASE Kept(i) /\ phase = "open" /\ mishaps > 0 /\ subm[i] = NoSub /\ ~Carried(i)
    <3>1. phase' = "open"
      <4>1. ~Crash /\ ~\E c \in Callers : Disposed(c)
        BY <1>0, <2>6, BoundsAssumption DEF Crash, Disposed, DisposeInv, Place
      <4> QED BY <2>2, <2>6, <4>1, PhaseWriters DEF Reopen
    <3>2. ASSUME NEW p \in Procs, Carries(p, i)' PROVE FALSE
      <4>1. Claim(p) /\ item[p] = i
        BY <2>6, <3>2, CarriedWriters DEF Carried
      <4>2. p \in Callers /\ kind[p] \in UserKinds
        BY <2>0, <2>6, <4>1, ClaimsAgain
      <4>3. Owns(p)
        BY <4>1, <4>2 DEF Owns, Claim
      <4> QED BY <2>0, <4>1, <4>2, <4>3 DEF UserInv
    <3>3. mishaps' > 0
      BY <1>0, <2>6
    <3> QED BY <2>6, <3>1, <3>2, <3>3 DEF Watched, Kept, Carried
  <2> QED BY <2>0, <2>1, <2>4, <2>5, <2>6 DEF Watched
<1> QED BY <1>1, <1>2

-----------------------------------------------------------------------------
(* The refinement.                                                         *)

\* The inductive invariant of the abstract promise.
PromiseInv ==
  /\ QInv /\ OnceInv /\ SelectInv /\ KindInv
  /\ LaterInv /\ EndedInv /\ AskedInv /\ DisposeInv /\ AdmitInv /\ PausedInv /\ QuiesceInv
  /\ UserInv /\ LooseInv /\ RecovInv /\ GapInv

\* The initial states.
LEMMA InitPromise == Init => PromiseInv
<1> SUFFICES ASSUME Init PROVE PromiseInv
  OBVIOUS
<1>1. QInv /\ OnceInv /\ SelectInv
  BY InitQ, InitOnce
<1>2. /\ \A p \in Procs : pc[p] = "idle" /\ kind[p] = "none" /\ ret[p] = "idle"
      /\ \A r \in Req : sub[r] = "none"
      /\ \A i \in Inputs : disp[i] = "absent"
      /\ abortOp = None
  BY DEF Init, LaneInit
<1>3. Drain \in Procs /\ Callers \subseteq Procs
  BY DEF Procs
<1>4. LaterInv /\ EndedInv
  BY <1>2 DEF LaterInv, EndedInv, Req
<1>5. KindInv /\ AskedInv /\ DisposeInv /\ AdmitInv /\ PausedInv /\ QuiesceInv /\ UserInv
  BY <1>2, <1>3 DEF KindInv, AskedInv, DisposeInv, AdmitInv, PausedInv, QuiesceInv, UserInv,
     Removing, Place, UserKinds, Owns, Aborting, Procs
<1>6. LooseInv /\ RecovInv /\ GapInv
  BY <1>2, <1>3 DEF LooseInv, RecovInv, GapInv, Cut, Place
<1> QED BY <1>1, <1>4, <1>5, <1>6 DEF PromiseInv

\* Every step.
LEMMA StepPromise ==
  ASSUME ~Overtaking, ~EagerResume, MaxMishaps <= 1, "dispose" \notin Kinds, PromiseInv, [Next]_vars
  PROVE  PromiseInv'
<1> USE DEF PromiseInv
<1>1. QInv' /\ OnceInv' /\ SelectInv' /\ KindInv'
  BY StepQ, StepOnce, StepKind
<1>2. LaterInv' /\ EndedInv' /\ AskedInv' /\ DisposeInv'
  BY StepLater, StepEnded, StepAsked, StepDispose
<1>3. AdmitInv' /\ PausedInv' /\ QuiesceInv' /\ UserInv'
  BY StepAdmit, StepPaused, StepQuiesce, StepUser
<1>4. LooseInv' /\ RecovInv' /\ GapInv'
  BY StepLoose, StepRecov, StepGap
<1> QED BY <1>1, <1>2, <1>3, <1>4

\* The stage of one input under the refinement mapping.
Stage(i) ==
  IF HasEntry(i) THEN "entered"
  ELSE CASE disp[i] \in {"absent", "removed"} -> disp[i]
         [] disp[i] = "consumed" -> "discarded"
         [] OTHER -> "waiting"

\* A set without two elements.
LEMMA CardinalityOnce ==
  ASSUME NEW T, \A a, b \in T : a = b PROVE Cardinality(T) = IF T = {} THEN 0 ELSE 1
<1>1. CASE T = {}
  BY <1>1, FS_EmptySet
<1>2. CASE T # {}
  <2>1. PICK a \in T : T = {a}
    BY <1>2
  <2> QED BY <1>2, <2>1, FS_Singleton
<1> QED BY <1>1, <1>2

\* Only the current attempt of an input can have an entry, so it has one or none.
LEMMA EntriesCount ==
  ASSUME ReceiptInv, NEW i \in Inputs
  PROVE  Cardinality({a \in Attempts : sub[<<i, a>>] \in Placed}) = IF HasEntry(i) THEN 1 ELSE 0
<1> DEFINE T == {a \in Attempts : sub[<<i, a>>] \in Placed}
<1>1. \A a, b \in T : a = b
  BY DEF ReceiptInv, Unentered, Placed
<1>2. T = {} <=> ~HasEntry(i)
  BY DEF HasEntry
<1>3. Cardinality(T) = IF T = {} THEN 0 ELSE 1
  BY <1>1, CardinalityOnce
<1> QED BY <1>2, <1>3

\* An entry stays, and an input enters only while it waits.
LEMMA StepEntry ==
  ASSUME PromiseInv, [Next]_vars, NEW i \in Inputs
  PROVE  /\ HasEntry(i) => HasEntry(i)'
         /\ ~HasEntry(i) /\ HasEntry(i)' => Stage(i) = "waiting"
<1> USE DEF PromiseInv
<1>0. disp[i] \in Dispositions /\ attempt[i] \in Attempts
      /\ \A a \in Attempts : sub[<<i, a>>] \in Status
  BY DEF QInv, TypeOK, LaneTypeOK, Req
<1>1. HasEntry(i) => HasEntry(i)'
  BY ReceiptKept DEF HasEntry, OnceInv
<1>2. ASSUME ~HasEntry(i), HasEntry(i)' PROVE disp[i] \in {"pending", "handoff", "uncertain"}
  <2>1. PICK a \in Attempts : sub'[<<i, a>>] \in Placed /\ sub[<<i, a>>] \notin Placed
    BY <1>2 DEF HasEntry
  <2>2. CASE Settled(<<i, a>>)
    <3>1. sub[<<i, a>>] = "queued"
      BY <1>0, <2>1, <2>2 DEF Settled, Unentered, Status, Placed
    <3>2. a = attempt[i] /\ disp[i] \notin {"absent", "pending", "removed"}
      BY <3>1 DEF OnceInv, ReceiptInv, Unentered
    <3>3. disp[i] # "consumed"
      BY <3>1, <3>2 DEF EndedInv, Receipt, Placed
    <3> QED BY <1>0, <3>2, <3>3 DEF Dispositions
  <2>3. CASE disp'[i] = "handoff"
    BY <1>0, <2>3, InputWriters DEF Kept, Reconciled, Dispositions, QInv, TypeOK
  <2> QED BY <2>2, <2>3, StepEnters DEF OnceInv
<1> QED BY <1>1, <1>2 DEF Stage

\* What leaves its stage without an entry, alone in its step but for a pass.
LEMMA StepStage ==
  ASSUME PromiseInv, [Next]_vars, NEW i \in Inputs, ~HasEntry(i), ~HasEntry(i)', Stage(i)' # Stage(i)
  PROVE  /\ UNCHANGED <<sub, removalAsked>>
         /\ \/ /\ Stage(i) = "absent" /\ Stage(i)' = "waiting"
               /\ disp' = [disp EXCEPT ![i] = "pending"]
            \/ /\ Stage(i) = "waiting" /\ Stage(i)' = "removed" /\ i \in removalAsked
               /\ disp' = [disp EXCEPT ![i] = "removed"]
            \/ /\ Stage(i) = "waiting" /\ Stage(i)' = "discarded" /\ i \in removalAsked
               /\ \E p \in Procs : Reconcile(p)
<1> USE DEF PromiseInv
<1>0. disp[i] \in Dispositions /\ attempt[i] \in Attempts /\ attempt[i] # NoSub
  BY MaxAttemptAssumption DEF QInv, TypeOK, Attempts, NoSub
<1>1. CASE Kept(i)
  BY <1>1 DEF Kept, Stage
<1>2. CASE disp[i] \in {"pending", "handoff"} /\ disp'[i] = "handoff"
  BY <1>2 DEF Stage
<1>3. CASE /\ disp[i] = "absent" /\ disp' = [disp EXCEPT ![i] = "pending"] /\ disp'[i] = "pending"
           /\ UNCHANGED <<sub, removalAsked>>
  BY <1>3 DEF Stage
<1>4. ASSUME NEW c \in Callers, item[c] = i, RemoveCommit(c), Removable(c),
             disp[i] \notin {"absent", "consumed", "removed"}, disp'[i] = "removed"
      PROVE  /\ UNCHANGED <<sub, removalAsked>>
             /\ Stage(i) = "waiting" /\ Stage(i)' = "removed" /\ i \in removalAsked
             /\ disp' = [disp EXCEPT ![i] = "removed"]
  <2>1. i \in removalAsked
    BY <1>4 DEF RemoveCommit, AskedInv, Removing
  <2> QED BY <1>4, <2>1 DEF RemoveCommit, Stage, native, lane, ghost
<1>5. ASSUME NEW p \in Procs, Reconcile(p), Reconciled(i)
      PROVE  /\ UNCHANGED <<sub, removalAsked>>
             /\ Stage(i) = "waiting" /\ Stage(i)' = "discarded" /\ i \in removalAsked
  <2>1. UNCHANGED <<sub, removalAsked>>
    BY <1>5 DEF Reconcile, native, lane, ghost
  <2>2. disp[i] \in {"handoff", "uncertain"} /\ Stage(i) = "waiting"
    BY <1>5 DEF Reconciled, Stage
  <2>3. disp'[i] = "consumed"
    BY <1>5, <2>2 DEF Reconciled, Stage
  <2>4. subm[i] # NoSub /\ Receipt(i) = "withdrawn" /\ ~paused
    BY <1>0, <1>5, <2>3 DEF Reconciled, HasEntry, Receipt
  <2>5. i \in removalAsked
    BY <2>2, <2>4 DEF GapInv, Cut, Watched
  <2> QED BY <2>1, <2>2, <2>3, <2>5 DEF Stage
<1> QED BY <1>1, <1>2, <1>3, <1>4, <1>5, InputWriters

\* The initial states are initial states of the abstract specification.
LEMMA InitDelivery == Init => Delivery!Init
<1> SUFFICES ASSUME Init PROVE Delivery!Init
  OBVIOUS
<1>1. \A i \in Inputs : ~HasEntry(i) /\ disp[i] = "absent"
  BY DEF Init, LaneInit, HasEntry, Req, Placed
<1>2. ReceiptInv
  BY InitOnce DEF OnceInv
<1>3. \A i \in Inputs : Cardinality({a \in Attempts : sub[<<i, a>>] \in Placed}) = 0
  BY <1>1, <1>2, EntriesCount
<1> QED BY <1>1, <1>3 DEF Delivery!Init, Init

\* Every step of the queue is a step of the promise, or leaves it alone.
LEMMA StepDelivery ==
  ASSUME PromiseInv, PromiseInv', [Next]_vars PROVE [Delivery!Next]_(Delivery!vars)
<1> DEFINE Entries(i) == Cardinality({a \in Attempts : sub[<<i, a>>] \in Placed})
<1>s. PICK S : S = {i \in Inputs : ~HasEntry(i) /\ HasEntry(i)'}
  OBVIOUS
<1>g. PICK G : G = {i \in Inputs : Stage(i)' # Stage(i)}
  OBVIOUS
<1>1. \A i \in Inputs : Entries(i) = IF HasEntry(i) THEN 1 ELSE 0
  BY EntriesCount DEF PromiseInv, OnceInv
<1>2. \A i \in Inputs : Entries(i)' = IF HasEntry(i)' THEN 1 ELSE 0
  <2> SUFFICES ASSUME NEW i \in Inputs PROVE Entries(i)' = IF HasEntry(i)' THEN 1 ELSE 0
    OBVIOUS
  <2> DEFINE T == {a \in Attempts : sub'[<<i, a>>] \in Placed}
  <2>1. \A a, b \in T : a = b
    BY DEF PromiseInv, OnceInv, ReceiptInv, Unentered, Placed
  <2>2. Cardinality(T) = IF T = {} THEN 0 ELSE 1
    BY <2>1, CardinalityOnce
  <2> QED BY <2>2 DEF HasEntry
<1>3. \A i \in Inputs : HasEntry(i) => HasEntry(i)'
  BY StepEntry
<1>4. \A i \in S : Stage(i) = "waiting" /\ Stage(i)' = "entered"
  BY <1>s, StepEntry DEF Stage
<1>5. \A i \in Inputs \ G : Stage(i)' = Stage(i)
  BY <1>g
<1>6. ASSUME NEW c \in Callers, NEW i \in Inputs, RemoveStart(c, i) PROVE UNCHANGED <<sub, disp>> /\ Stage(i) # "absent"
  BY <1>6 DEF RemoveStart, native, lane, record, Stage
<1>10. CASE S # {}
  <2>1. UNCHANGED removalAsked
    BY <1>s, <1>6, <1>10, GhostWriters DEF HasEntry, PromiseInv
  <2>2. \A i \in Inputs \ S : Stage(i)' = Stage(i)
    BY <1>s, <1>3, <1>10, StepStage DEF HasEntry, Stage
  <2>3. Delivery!Enter(S)
    BY <1>s, <1>1, <1>2, <1>3, <1>4, <2>1, <2>2 DEF Delivery!Enter, Stage
  <2> QED BY <1>s, <1>10, <2>3 DEF Delivery!Next
<1>11. CASE S = {}
  <2>0. \A i \in Inputs : HasEntry(i)' <=> HasEntry(i)
    BY <1>s, <1>3, <1>11
  <2>1. \A i \in Inputs : Entries(i)' = Entries(i)
    BY <1>1, <1>2, <2>0
  <2>2. CASE \E c \in Callers, i \in Inputs : RemoveStart(c, i) /\ removalAsked' = removalAsked \cup {i}
    <3>1. PICK c \in Callers, i \in Inputs : RemoveStart(c, i) /\ removalAsked' = removalAsked \cup {i}
      BY <2>2
    <3>2. \A j \in Inputs : Stage(j)' = Stage(j)
      BY <1>6, <2>0, <3>1 DEF Stage
    <3>3. Delivery!AskRemoval(i)
      BY <1>6, <2>1, <3>1, <3>2 DEF Delivery!AskRemoval, Stage
    <3> QED BY <3>3 DEF Delivery!Next
  <2>3. CASE UNCHANGED removalAsked
    <3>1. CASE G = {}
      BY <1>g, <2>1, <2>3, <3>1 DEF Delivery!vars, Stage
    <3>2. CASE \E i \in Inputs : Stage(i) = "absent" /\ Stage(i)' = "waiting" /\ disp' = [disp EXCEPT ![i] = "pending"]
      <4>1. PICK i \in Inputs : Stage(i) = "absent" /\ Stage(i)' = "waiting" /\ disp' = [disp EXCEPT ![i] = "pending"]
        BY <3>2
      <4>2. \A j \in Inputs \ {i} : Stage(j)' = Stage(j)
        BY <2>0, <4>1 DEF Stage, PromiseInv, QInv, TypeOK
      <4>3. Delivery!Retain(i)
        BY <2>1, <2>3, <4>1, <4>2 DEF Delivery!Retain, Stage
      <4> QED BY <4>3 DEF Delivery!Next
    <3>3. CASE \E i \in G : Stage(i) = "waiting" /\ Stage(i)' = "removed" /\ i \in removalAsked /\ disp' = [disp EXCEPT ![i] = "removed"]
      <4>1. PICK i \in G : Stage(i) = "waiting" /\ Stage(i)' = "removed" /\ i \in removalAsked /\ disp' = [disp EXCEPT ![i] = "removed"]
        BY <1>g, <3>3
      <4>2. \A j \in Inputs \ {i} : Stage(j)' = Stage(j)
        BY <2>0, <4>1 DEF Stage, PromiseInv, QInv, TypeOK
      <4>3. Delivery!GiveUp({i}, "removed")
        BY <1>g, <2>1, <2>3, <4>1, <4>2 DEF Delivery!GiveUp, Stage
      <4> QED BY <1>g, <4>1, <4>3 DEF Delivery!Next
    <3>4. CASE G # {} /\ \A i \in G : Stage(i) = "waiting" /\ Stage(i)' = "discarded" /\ i \in removalAsked
      <4>1. Delivery!GiveUp(G, "discarded")
        BY <1>5, <1>g, <2>1, <2>3, <3>4 DEF Delivery!GiveUp, Stage
      <4> QED BY <1>g, <3>4, <4>1 DEF Delivery!Next
    <3>5. \A i \in G : ~HasEntry(i) /\ ~HasEntry(i)'
      BY <1>g, <2>0 DEF Stage
    <3> QED BY <1>g, <3>1, <3>2, <3>3, <3>4, <3>5, StepStage
  <2> QED BY <2>2, <2>3, GhostWriters DEF PromiseInv
<1> QED BY <1>10, <1>11

\* The retained queue keeps the abstract promise.
THEOREM QueueDelivers ==
  ASSUME ~Overtaking, ~EagerResume, MaxMishaps <= 1, "dispose" \notin Kinds
  PROVE  Spec => Delivers
<1>1. PromiseInv /\ [Next]_vars => PromiseInv'
  BY StepPromise
<1>2. PromiseInv /\ PromiseInv' /\ [Next]_vars => [Delivery!Next]_(Delivery!vars)
  BY StepDelivery
<1> QED
  BY <1>1, <1>2, InitPromise, InitDelivery, PTL DEF Spec, Delivers, Delivery!Spec

\* Under the same conditions no input is given up without an entry, unless its removal was
\* asked for.
THEOREM InputsNotDiscarded ==
  ASSUME ~Overtaking, ~EagerResume, MaxMishaps <= 1, "dispose" \notin Kinds
  PROVE  Spec => []NothingDiscarded
<1>1. Init => NothingDiscarded
  BY DEF Init, NothingDiscarded
<1>2. PromiseInv /\ NothingDiscarded /\ [Next]_vars => NothingDiscarded'
  <2> SUFFICES ASSUME PromiseInv, NothingDiscarded, [Next]_vars,
                      NEW i \in Inputs, disp'[i] = "consumed", ~HasEntry(i)'
               PROVE  i \in removalAsked'
    BY DEF NothingDiscarded
  <2>1. ~HasEntry(i) /\ removalAsked \subseteq removalAsked'
    BY StepEntry, GhostWriters DEF PromiseInv
  <2>2. CASE disp[i] = "consumed"
    BY <2>1, <2>2 DEF NothingDiscarded
  <2>3. CASE disp[i] # "consumed"
    <3>1. Stage(i)' # Stage(i)
      BY <2>1, <2>3 DEF Stage
    <3> QED BY <2>1, <3>1, StepStage DEF Stage
  <2> QED BY <2>2, <2>3
<1> QED BY <1>1, <1>2, InitPromise, StepPromise, PTL DEF Spec

\* Removal is final if passes are not overtaken: a pass looks at claimed inputs only.
THEOREM RemovalIsFinal == ASSUME ~Overtaking PROVE Spec => RemovedStaysRemoved
<1>1. QInv /\ OnceInv /\ [Next]_vars =>
        [\A i \in Inputs : disp[i] = "removed" => disp'[i] \in {"removed", "consumed"}]_vars
  BY InputWriters DEF Kept, Reconciled
<1> QED BY <1>1, OnceInvariance, PTL DEF Spec, RemovedStaysRemoved

-----------------------------------------------------------------------------
(* No wake-up is lost, whatever overtakes a pass, if nobody makes a user   *)
(* admission or locks the agent.                                           *)

\* An input that was retained stands in the queue.
QueuedInv == \A i \in Inputs : disp[i] # "absent" => \E k \in DOMAIN order : order[k] = i

\* A queue with a pending input has an oldest one.
LEMMA OldestPending ==
  ASSUME QInv, QueuedInv, NEW i \in Inputs, disp[i] = "pending"
  PROVE  \E j \in Inputs : NextPending(j)
<1> DEFINE waiting == {k \in DOMAIN order : disp[order[k]] = "pending"}
<1>1. order \in Seq(Inputs) /\ waiting \subseteq Nat /\ waiting # {}
  BY DEF QInv, TypeOK, QueuedInv
<1>2. PICK k \in waiting : \A j \in waiting : <<j, k>> \notin OpToRel(<, Nat)
  <2> HIDE DEF waiting
  <2> QED BY <1>1, NatLessThanWellFounded, WFMin
<1>3. ASSUME NEW j \in 1..(k - 1) PROVE disp[order[j]] # "pending"
  <2>1. j \in DOMAIN order /\ j \in Nat /\ k \in Nat /\ j < k
    BY <1>1
  <2>2. <<j, k>> \in OpToRel(<, Nat)
    BY <2>1 DEF OpToRel
  <2> QED BY <1>2, <2>1, <2>2
<1>4. order[k] \in Inputs /\ NextPending(order[k])
  BY <1>1, <1>3 DEF NextPending
<1> QED BY <1>4

\* A pass looks only at inputs that were retained.
TodoInv == \A p \in Procs, i \in Inputs : todo[p][i] # Skip => disp[i] # "absent"

\* Who changes what a pass has still to do.
LEMMA TodoWriters ==
  ASSUME QInv, [Next]_vars, NEW p \in Procs
  PROVE  \/ todo'[p] = todo[p] \/ todo'[p] = NothingToDo \/ todo'[p] = Snapshot
         \/ \E i \in Inputs : todo'[p] = [todo[p] EXCEPT ![i] = Skip]
<1>0. LocalOK
  BY DEF QInv, TypeOK, LocalOK
<1>1. CASE UNCHANGED vars
  BY <1>1 DEF vars, local
<1>2. CASE CallStarts
  BY <1>2 DEF CallStarts, Enqueue, FollowUp, RetainIdle, Resume, Unlock, PromptStart, SteerStart,
     InterruptStart, SelectStart, RemoveStart, PromoteStart, UserBegin, AbortStart, Lock,
     ExternalStart, DisposeStart, Begin, local
<1>3. ASSUME NEW c \in Callers, CallStep(c) PROVE todo' = todo \/ todo'[p] = NothingToDo
  BY <1>3 DEF CallStep, Push, Own, SelectClaim, UserRefused, Promote, Promoted, PromoteRefused,
     Quiesced, AbortCheck, AbortIntent, AbortNative, Aborted, RemoveNative, RemoveTooLate,
     RemoveCommit, ExternalAdmit, ExternalEnd, DisposeAbort, Disposed, Forget, Goto, GotoReconcile,
     Return
<1>4. ASSUME NEW q \in Procs, HandoffStep(q) \/ ReceiptLost(q) \/ AbortThrows(q) PROVE todo' = todo
  BY <1>4 DEF HandoffStep, Claim, ClaimRefused, SubmitHandoff, RecordReceipt, SubmitRefused,
     Handed, ReceiptLost, HandoffThrows, AbortThrows, DrainStops, Goto, GotoReconcile, Return
<1>5. ASSUME NEW q \in Procs, ReconcileStep(q)
      PROVE  \/ todo'[p] = todo[p] \/ todo'[p] = Snapshot
             \/ \E i \in Inputs : todo'[p] = [todo[p] EXCEPT ![i] = Skip]
  BY <1>0, <1>5 DEF ReconcileStep, Reconcile, ReconcileRead, ReconcileCommit, Goto, LocalOK
<1>6. CASE DrainStep \/ SettleStep \/ TailStep \/ ObserveRunEnd \/ LanePlaces \/ LaneEnds \/ Reopen
  BY <1>6 DEF DrainStep, DrainPick, DrainBreak, DrainEnd, DrainStops, DrainAwait, RecoverHandoff,
     RecoverReconcile, Recovered, SettleStep, SettleStart, SettleRelease, SettleWake, TailStep,
     TailStart, TailEnd, ObserveRunEnd, LanePlaces, LaneEnds, Reopen, Goto, GotoReconcile, Return,
     local
<1>7. CASE Crash
  BY <1>7 DEF Crash, Forget
<1> QED BY <1>1, <1>2, <1>3, <1>4, <1>5, <1>6, <1>7 DEF Next, Mishap

\* Every step.
LEMMA StepTodo == ASSUME QInv, TodoInv, [Next]_vars PROVE TodoInv'
<1> SUFFICES ASSUME NEW p \in Procs, NEW i \in Inputs, todo'[p][i] # Skip PROVE disp[i] # "absent"
  BY StepRetained DEF TodoInv
<1>1. todo[p] \in [Inputs -> Attempts \cup {NoSub, Skip}]
  BY DEF QInv, TypeOK
<1>2. CASE todo'[p] = Snapshot
  BY <1>2 DEF Snapshot
<1>3. CASE todo'[p] # Snapshot
  <2>1. todo[p][i] # Skip
    BY <1>1, <1>3, TodoWriters DEF NothingToDo
  <2> QED BY <2>1 DEF TodoInv
<1> QED BY <1>2, <1>3

\* How an input comes into the record.
LEMMA RetainWriters ==
  ASSUME QInv, PresentInv, TodoInv, [Next]_vars, NEW i \in Inputs,
         disp[i] = "absent", disp'[i] # "absent"
  PROVE  /\ \E x : Retain(i, x)
         /\ \/ \E j \in Fresh : Enqueue(j) \/ FollowUp(j)
            \/ \E c \in Callers : Push(c) /\ item[c] = i
<1>0. RecordOK
  BY DEF QInv, TypeOK, RecordOK
<1>1. CASE \E j \in Fresh : Enqueue(j) \/ FollowUp(j)
  BY <1>0, <1>1 DEF Enqueue, FollowUp, RetainIdle, Retain, RecordOK
<1>2. CASE \E c \in Callers : Push(c)
  BY <1>0, <1>2 DEF Push, Retain, RecordOK
<1>3. ASSUME NEW c \in Callers, Own(c) \/ SelectClaim(c) \/ Promote(c) \/ RemoveCommit(c) PROVE FALSE
  <2>1. CASE RemoveCommit(c)
    <3>1. Removable(c) /\ item[c] = i
      BY <1>0, <2>1 DEF RemoveCommit, RecordOK
    <3> QED BY <3>1 DEF Removable, PresentInv
  <2> QED BY <1>0, <1>3, <2>1 DEF Own, SelectClaim, Promote, Promotable, RecordOK
<1>4. ASSUME NEW p \in Procs, Claim(p) \/ RecordReceipt(p) PROVE FALSE
  BY <1>0, <1>4 DEF Claim, Claimable, RecordReceipt, RecordOK
<1>5. ASSUME NEW p \in Procs, Reconcile(p) PROVE FALSE
  <2> DEFINE v == [j \in Inputs |-> Verdict(j, Snapshot[j])]
  <2>1. Apply(v)
    BY <1>5 DEF Reconcile
  <2>2. v[i] = "keep"
    BY DEF Verdict, Snapshot, Skip, NoSub
  <2> QED BY <2>1, <2>2 DEF Apply
<1>6. ASSUME NEW p \in Procs, ReconcileCommit(p) PROVE FALSE
  BY <1>6 DEF ReconcileCommit, Apply, NextTodo, TodoInv
<1> QED BY <1>1, <1>2, <1>3, <1>4, <1>5, <1>6, RecordWriters

\* Whatever is in the record stays in the queue.
LEMMA StepQueued == ASSUME QInv, PresentInv, TodoInv, QueuedInv, [Next]_vars PROVE QueuedInv'
<1> SUFFICES ASSUME NEW i \in Inputs, disp'[i] # "absent" PROVE \E k \in DOMAIN order' : order'[k] = i
  BY DEF QueuedInv
<1>0. order \in Seq(Inputs)
  BY DEF QInv, TypeOK
<1>1. CASE disp[i] # "absent"
  <2>1. PICK k \in DOMAIN order : order[k] = i
    BY <1>1 DEF QueuedInv
  <2>2. k \in DOMAIN order' /\ order'[k] = i
    BY <1>0, <2>1, OrderWriters DEF Retain
  <2> QED BY <2>2
<1>2. CASE disp[i] = "absent"
  <2>1. order' = Append(order, i)
    BY <1>2, RetainWriters DEF Retain
  <2> QED BY <1>0, <2>1
<1> QED BY <1>1, <1>2

\* The processes of the runtime and those of the clients.
LEMMA ProcNames ==
  /\ Drain \in Procs /\ Settle \in Procs /\ Tailer \in Procs
  /\ Drain # Settle /\ Drain # Tailer /\ Settle # Tailer
  /\ \A c \in Callers : c \in Procs /\ c # Drain /\ c # Settle /\ c # Tailer /\ c # None
  /\ \A p \in Procs : p \in Callers \/ p = Drain \/ p = Settle \/ p = Tailer
BY CallersAssumption DEF Procs, Drain, Settle, Tailer

\* Nobody asks for the admission of a user input or for the lock of the agent.
NoUserCalls == Kinds \cap (UserKinds \cup {"lock"}) = {}

\* Then nobody holds the admission of a user input, and the agent is unlocked.
GuardInv ==
  /\ admitting = None /\ ~locked
  /\ \A c \in Callers : kind[c] \notin UserKinds /\ pc[c] # "own"

\* Who takes the admission and who locks the agent.
LEMMA GuardWriters ==
  ASSUME [Next]_vars
  PROVE  /\ admitting' \in {admitting, None} \/ \E k \in UserKinds : k \in Kinds
         /\ locked' => locked \/ "lock" \in Kinds
<1> USE DEF memory
<1>1. CASE UNCHANGED vars
  BY <1>1 DEF vars
<1>2. CASE CallStarts
  BY <1>2 DEF CallStarts, Enqueue, FollowUp, RetainIdle, Resume, Unlock, PromptStart, SteerStart,
     InterruptStart, SelectStart, RemoveStart, PromoteStart, UserBegin, UserKinds, AbortStart, Lock,
     ExternalStart, DisposeStart
<1>3. ASSUME NEW c \in Callers, CallStep(c)
      PROVE  admitting' \in {admitting, None} /\ locked' = locked
  BY <1>3 DEF CallStep, Push, Own, SelectClaim, UserRefused, Promote, Promoted, PromoteRefused,
     Quiesced, AbortCheck, AbortIntent, AbortNative, Aborted, RemoveNative, RemoveTooLate,
     RemoveCommit, ExternalAdmit, ExternalEnd, DisposeAbort, Disposed, Forget, Release
<1>4. ASSUME NEW p \in Procs, HandoffStep(p) \/ ReceiptLost(p) \/ AbortThrows(p)
      PROVE  admitting' \in {admitting, None} /\ locked' = locked
  BY <1>4 DEF HandoffStep, Claim, ClaimRefused, SubmitHandoff, RecordReceipt, SubmitRefused,
     Handed, ReceiptLost, HandoffThrows, AbortThrows, Release
<1>5. ASSUME NEW p \in Procs, ReconcileStep(p) PROVE admitting' = admitting /\ locked' = locked
  BY <1>5 DEF ReconcileStep, Reconcile, ReconcileRead, ReconcileCommit
<1>6. CASE DrainStep \/ SettleStep \/ TailStep \/ ObserveRunEnd \/ LanePlaces \/ LaneEnds \/ Reopen
  BY <1>6 DEF DrainStep, DrainPick, DrainBreak, DrainEnd, DrainAwait, RecoverHandoff,
     RecoverReconcile, Recovered, SettleStep, SettleStart, SettleRelease, SettleWake, TailStep,
     TailStart, TailEnd, ObserveRunEnd, LanePlaces, LaneEnds, Reopen
<1>7. CASE Crash
  BY <1>7 DEF Crash, Forget
<1> QED BY <1>1, <1>2, <1>3, <1>4, <1>5, <1>6, <1>7 DEF Next, Mishap

\* How a call comes to claim an input, and to own one.
LEMMA ClaimWriters ==
  ASSUME QInv, KindInv, [Next]_vars, NEW c \in Callers
  PROVE  /\ pc'[c] = "claim" =>
              \/ pc[c] = "claim" /\ item'[c] = item[c]
              \/ Push(c) \/ Own(c) \/ Quiesced(c)
         /\ pc'[c] = "own" => pc[c] = "own" \/ (Push(c) /\ kind[c] \in UserKinds)
         /\ kind'[c] \in UserKinds => kind[c] \in UserKinds \/ kind'[c] \in Kinds
<1>0. LocalOK /\ ItemInv /\ c \in Procs /\ c \notin {Drain, Settle, Tailer}
  BY ProcNames DEF QInv, TypeOK, LocalOK
<1>1. CASE Same(c)
  BY <1>1 DEF Same
<1>2. CASE Forget
  BY <1>0, <1>2 DEF Forget, UserKinds
<1>3. CASE Begins(c)
  BY <1>0, <1>3, BeginsKind DEF UserKinds, Removing
<1>kind. ASSUME Acts(c), ~Begins(c) PROVE kind'[c] = kind[c] \/ kind'[c] \notin UserKinds
  BY <1>0, <1>kind, ActsKind DEF UserKinds
<1>4. CASE ReconcileStep(c)
  <2>1. pc'[c] \in {ret[c], "reconcileCommit"}
    BY <1>0, <1>4 DEF ReconcileStep, Reconcile, ReconcileRead, ReconcileCommit, Goto, LocalOK
  <2>2. ret[c] \in RetLabels
    BY <1>0 DEF ItemInv
  <2> QED BY <1>0, <1>3, <1>4, <1>kind, <2>1, <2>2 DEF Acts, RetLabels
<1>5. CASE HandoffStep(c) \/ ReceiptLost(c) \/ AbortThrows(c)
  <2>1. pc'[c] \notin {"claim", "own"}
    BY <1>0, <1>5 DEF HandoffStep, Claim, ClaimRefused, SubmitHandoff, RecordReceipt, SubmitRefused,
       Handed, ReceiptLost, HandoffThrows, AbortThrows, Goto, GotoReconcile, Return, LocalOK
  <2> QED BY <1>0, <1>3, <1>5, <1>kind, <2>1 DEF Acts
<1>6. CASE CallStep(c)
  <2>1. CASE Push(c) \/ Own(c) \/ Quiesced(c)
    <3>1. pc'[c] = "own" => Push(c) /\ kind[c] \in UserKinds
      BY <1>0, <2>1 DEF Push, Own, Quiesced, Goto, LocalOK
    <3> QED BY <1>0, <1>3, <1>6, <1>kind, <2>1, <3>1 DEF Acts
  <2>2. CASE ~(Push(c) \/ Own(c) \/ Quiesced(c))
    <3>1. pc'[c] \notin {"claim", "own"}
      BY <1>0, <1>6, <2>2 DEF CallStep, SelectClaim, UserRefused, Promote, Promoted, PromoteRefused,
         AbortCheck, AbortIntent, AbortNative, AfterAbort, Aborted, RemoveNative, RemoveTooLate,
         RemoveCommit, ExternalAdmit, ExternalEnd, WakeDrain, DisposeAbort, Disposed, Forget, Goto,
         GotoReconcile, Return, LocalOK
    <3> QED BY <1>0, <1>3, <1>6, <1>kind, <3>1 DEF Acts
  <2> QED BY <2>1, <2>2
<1> QED BY <1>0, <1>1, <1>2, <1>3, <1>4, <1>5, <1>6, StepActs DEF Acts

\* Every step.
LEMMA StepGuard ==
  ASSUME NoUserCalls, QInv, KindInv, GuardInv, [Next]_vars PROVE GuardInv'
<1>1. admitting' = None /\ ~locked'
  BY GuardWriters DEF GuardInv, NoUserCalls
<1>2. ASSUME NEW c \in Callers PROVE kind'[c] \notin UserKinds /\ pc'[c] # "own"
  BY <1>2, ClaimWriters DEF GuardInv, NoUserCalls
<1> QED BY <1>1, <1>2 DEF GuardInv

\* What no call does then.
LEMMA Unguarded ==
  ASSUME GuardInv, ExclusiveInv, SelectInv, QuiesceInv, NEW c \in Callers
  PROVE  ~Promote(c) /\ ~Own(c) /\ ~SelectClaim(c) /\ ~Quiesced(c)
BY ProcNames DEF GuardInv, ExclusiveInv, SelectInv, QuiesceInv, Place, UserKinds, Promote, Own,
   SelectClaim, Quiesced

\* An attempt is never taken back, and only a new one makes an input wait again.
LEMMA AttemptWriters ==
  ASSUME QInv, NewInv, PresentInv, TodoInv, [Next]_vars, NEW i \in Inputs
  PROVE  \/ attempt'[i] = attempt[i] + 1
         \/ /\ attempt'[i] = attempt[i]
            /\ disp'[i] \in {"absent", "pending"} => disp[i] \in {"absent", "pending"}
<1>0. RecordOK
  BY DEF QInv, TypeOK, RecordOK
<1>1. CASE UNCHANGED <<disp, attempt, subm, order>>
  BY <1>1
<1>2. CASE \E j \in Fresh : Enqueue(j) \/ FollowUp(j)
  BY <1>0, <1>2 DEF Enqueue, FollowUp, RetainIdle, Retain, Fresh, RecordOK
<1>3. ASSUME NEW c \in Callers, Push(c)
      PROVE  attempt'[i] = attempt[i] /\ (disp'[i] = disp[i] \/ disp[i] = "absent")
  <2>1. disp[item[c]] = "absent"
    BY <1>3, ProcNames DEF Push, NewInv, Brings
  <2> QED BY <1>0, <1>3, <2>1 DEF Push, Retain, RecordOK
<1>4. ASSUME NEW c \in Callers, Own(c) \/ SelectClaim(c) \/ Promote(c) \/ RemoveCommit(c)
      PROVE  attempt'[i] = attempt[i] /\ disp'[i] \in {disp[i], "handoff", "removed"}
  BY <1>0, <1>4 DEF Own, SelectClaim, Promote, RemoveCommit, RecordOK
<1>5. ASSUME NEW p \in Procs, Claim(p) \/ RecordReceipt(p)
      PROVE  attempt'[i] = attempt[i] /\ disp'[i] \in {disp[i], "handoff"}
  BY <1>0, <1>5 DEF Claim, RecordReceipt, RecordOK
<1>6. CASE \E v : Apply(v)
  BY <1>6 DEF Apply
<1>7. CASE \E p \in Procs : Reconcile(p) \/ ReconcileCommit(p)
  BY <1>6, <1>7 DEF Reconcile, ReconcileCommit
<1> QED BY <1>1, <1>2, <1>3, <1>4, <1>5, <1>7, RecordWriters

\* A handler carries no attempt that is still to come.
AttInv ==
  \A p \in Procs : pc[p] \in {"submit", "record"} =>
    /\ att[p] <= attempt[item[p]]
    /\ att[p] = attempt[item[p]] => disp[item[p]] \notin {"absent", "pending"}

\* Every step.
LEMMA StepAtt ==
  ASSUME QInv, SelectInv, NewInv, PresentInv, TodoInv, AttInv, [Next]_vars PROVE AttInv'
<1> SUFFICES ASSUME NEW p \in Procs, pc'[p] \in {"submit", "record"}
             PROVE  /\ att'[p] <= attempt'[item'[p]]
                    /\ att'[p] = attempt'[item'[p]] => disp'[item'[p]] \notin {"absent", "pending"}
  BY DEF AttInv
<1>0. LocalOK /\ RecordOK /\ ItemInv
  BY DEF QInv, TypeOK, LocalOK, RecordOK
<1>1. CASE Claim(p)
  <2>1. item[p] \in Inputs /\ attempt[item[p]] \in Int
    BY <1>0, <1>1, MaxAttemptAssumption DEF Claim, ItemInv, Place, Needs, Carrying, RecordOK, Attempts
  <2> QED BY <1>0, <1>1, <2>1 DEF Claim, LocalOK, RecordOK
<1>2. CASE pc[p] \in {"submit", "record"} /\ item'[p] = item[p] /\ att'[p] = att[p]
  <2>1. item[p] \in Inputs
    BY <1>0, <1>2 DEF ItemInv, Place, Needs, Carrying
  <2>2. attempt[item[p]] \in Int /\ att[p] \in Int
    BY <1>0, <2>1, MaxAttemptAssumption DEF RecordOK, LocalOK, Attempts
  <2>3. /\ att[p] <= attempt[item[p]]
        /\ att[p] = attempt[item[p]] => disp[item[p]] \notin {"absent", "pending"}
    BY <1>2 DEF AttInv
  <2> QED BY <1>2, <2>1, <2>2, <2>3, AttemptWriters
<1> QED BY <1>1, <1>2, StepMoved DEF Moved

\* Every step, whatever overtakes a pass.
LEMMA StepLaterOvertaken ==
  ASSUME QInv, RunInv, SelectInv, QuiesceInv, GuardInv, ExclusiveInv, NewInv, PresentInv, TodoInv, AttInv,
         LaterInv, [Next]_vars
  PROVE  LaterInv'
<1> SUFFICES ASSUME NEW i \in Inputs, NEW a \in Attempts,
                    a > attempt'[i] \/ (a = attempt'[i] /\ disp'[i] \in {"absent", "pending"})
             PROVE  sub'[<<i, a>>] = "none"
  BY DEF LaterInv
<1>0. attempt[i] \in Int /\ a \in Int /\ <<i, a>> \in Req
  BY MaxAttemptAssumption DEF QInv, TypeOK, Attempts, Req
<1>1. a > attempt[i] \/ (a = attempt[i] /\ disp[i] \in {"absent", "pending"})
  BY <1>0, AttemptWriters
<1>2. sub[<<i, a>>] = "none"
  BY <1>1 DEF LaterInv
<1>3. ASSUME NEW p \in Procs, SubmitHandoff(p) PROVE <<i, a>> # <<item[p], att[p]>>
  <2>1. CASE item[p] = i
    <3>1. att[p] <= attempt[i] /\ (att[p] = attempt[i] => disp[i] \notin {"absent", "pending"})
      BY <1>3, <2>1 DEF SubmitHandoff, AttInv
    <3>2. att[p] \in Int
      BY MaxAttemptAssumption DEF QInv, TypeOK, Attempts
    <3> QED BY <1>0, <1>1, <3>1, <3>2
  <2> QED BY <2>1
<1>4. Settled(<<i, a>>)
  BY <1>0, <1>3, StepSettled, Unguarded
<1> QED BY <1>2, <1>4 DEF Settled, Unentered

\* Where the drain can be.
DrainPlaces == {"idle", "loop", "claim", "submit", "record", "handed", "await", "stopping",
                "recover", "recovered"}
DrainInv ==
  /\ Place(Drain) \in DrainPlaces
  /\ pc[Drain] \in Passing => ret[Drain] \in {"loop", "handed", "recovered"}

\* Every step.
LEMMA StepDrain == ASSUME QInv, DrainInv, [Next]_vars PROVE DrainInv'
<1>0. LocalOK /\ ItemInv /\ Drain \in Procs /\ Drain \notin Callers /\ Drain # Settle /\ Drain # Tailer
  BY ProcNames DEF QInv, TypeOK, LocalOK
<1> USE DEF DrainInv, DrainPlaces, Place, Passing
<1>1. CASE HandoffStep(Drain) \/ ReceiptLost(Drain) \/ AbortThrows(Drain)
  BY <1>0, <1>1 DEF HandoffStep, Claim, ClaimRefused, SubmitHandoff, RecordReceipt, SubmitRefused,
     Handed, ReceiptLost, HandoffThrows, AbortThrows, DrainStops, Goto, GotoReconcile, Return, LocalOK
<1>2. CASE ReconcileStep(Drain)
  BY <1>0, <1>2 DEF ReconcileStep, Reconcile, ReconcileRead, ReconcileCommit, Goto, LocalOK, ItemInv,
     RetLabels
<1>3. CASE DrainStep
  BY <1>0, <1>3 DEF DrainStep, DrainPick, RecoverHandoff, DrainBreak, DrainEnd, DrainAwait, Recovered,
     RecoverReconcile, DrainStops, Goto, GotoReconcile, Return, LocalOK
<1>4. CASE Reopen \/ Woken \/ Forget \/ Same(Drain)
  BY <1>0, <1>4 DEF Reopen, Woken, Forget, Same, Goto, LocalOK
<1> QED BY <1>0, <1>1, <1>2, <1>3, <1>4, StepActs DEF Acts

\* The steps that wake the drain.
Wakes ==
  \/ Resume \/ (\E i \in Fresh : Enqueue(i) \/ FollowUp(i))
  \/ (\E c \in Callers : ExternalEnd(c))
  \/ SettleWake \/ TailEnd

\* An idle drain is woken, or started by a reopened session.
LEMMA WakeWriters ==
  ASSUME QInv, [Next]_vars, pc[Drain] = "idle", pc'[Drain] # "idle"
  PROVE  Wakes \/ Reopen
<1>0. LocalOK
  BY DEF QInv, TypeOK, LocalOK
<1>own. ASSUME NEW p \in Procs \ {Drain}, \E l : Goto(p, l) \/ GotoReconcile(p, l) \/ Return(p)
        PROVE  FALSE
  BY <1>0, <1>own, GotoOthers, ProcNames DEF Same
<1>1. CASE UNCHANGED vars \/ Unlock \/ ObserveRunEnd \/ LanePlaces \/ LaneEnds \/ Crash
  BY <1>1 DEF vars, local, Unlock, ObserveRunEnd, LanePlaces, LaneEnds, Crash, Forget, Procs
<1>2. ASSUME NEW c \in Callers, Begins(c) PROVE FALSE
  <2>1. \E k, l, i, o : Begin(c, k, l, i, o)
    BY <1>2 DEF Begins, Starts, PromptStart, SteerStart, InterruptStart, RemoveStart, SelectStart,
       PromoteStart, UserBegin, AbortStart, Lock, ExternalStart, DisposeStart
  <2> QED BY <1>0, <2>1, ProcNames DEF Begin, LocalOK
<1>3. ASSUME NEW c \in Callers, CallStep(c), ~ExternalEnd(c) PROVE FALSE
  <2>1. CASE Disposed(c)
    BY <2>1 DEF Disposed, Forget, Procs
  <2>2. CASE ~Disposed(c)
    <3>1. \E l : Goto(c, l) \/ GotoReconcile(c, l) \/ Return(c)
      BY <1>3, <2>2 DEF CallStep, Push, Own, SelectClaim, UserRefused, Promote, Promoted,
         PromoteRefused, Quiesced, AbortCheck, AbortIntent, AbortNative, Aborted, RemoveNative,
         RemoveTooLate, RemoveCommit, ExternalAdmit, DisposeAbort
    <3> QED BY <1>own, <3>1, ProcNames
  <2> QED BY <2>1, <2>2
<1>4. ASSUME NEW p \in Procs, HandoffStep(p) \/ ReceiptLost(p) \/ AbortThrows(p) PROVE FALSE
  <2>1. p # Drain
    BY <1>4 DEF HandoffStep, Claim, ClaimRefused, SubmitHandoff, RecordReceipt, SubmitRefused,
       Handed, ReceiptLost, AbortThrows
  <2>2. Claim(p) \/ \E l : Goto(p, l) \/ GotoReconcile(p, l) \/ Return(p)
    BY <1>4, <2>1 DEF HandoffStep, ClaimRefused, SubmitHandoff, RecordReceipt, SubmitRefused,
       Handed, ReceiptLost, HandoffThrows, AbortThrows
  <2> QED BY <1>0, <1>own, <2>1, <2>2, ProcNames DEF Claim, LocalOK
<1>5. ASSUME NEW p \in Procs, ReconcileStep(p) PROVE FALSE
  <2>1. p # Drain
    BY <1>5 DEF ReconcileStep, Reconcile, ReconcileRead, ReconcileCommit
  <2> QED BY <1>0, <1>5, <2>1, ProcNames DEF ReconcileStep, Reconcile, ReconcileRead, ReconcileCommit,
       Goto, LocalOK
<1>6. ~DrainStep
  BY DEF DrainStep, DrainPick, DrainBreak, DrainEnd, DrainAwait, RecoverHandoff, RecoverReconcile,
     Recovered
<1>7. CASE SettleStart \/ SettleRelease
  BY <1>7, <1>own, ProcNames DEF SettleStart, SettleRelease
<1>8. ASSUME NEW r, TailStart(r) PROVE FALSE
  BY <1>0, <1>8, ProcNames DEF TailStart, LocalOK
<1> QED
  BY <1>1, <1>2, <1>3, <1>4, <1>5, <1>6, <1>7, <1>8 DEF Next, CallStarts, Begins, Starts, SettleStep,
     TailStep, Mishap, Wakes

\* What is left to settle, and by whom.
LEMMA SettleWriters ==
  ASSUME QInv, [Next]_vars
  PROVE  /\ \/ settling' = settling
            \/ Forget
            \/ phase = "open" /\ settling' = settling + 1
            \/ SettleRelease
         /\ \/ tails' = tails
            \/ Forget
            \/ phase = "open" /\ \E r \in Req : tails' = tails \cup {r}
            \/ Recovered
            \/ \E r \in tails : TailStart(r)
<1> USE DEF flow
<1>1. CASE UNCHANGED vars
  BY <1>1 DEF vars
<1>2. CASE CallStarts
  BY <1>2 DEF CallStarts, Enqueue, FollowUp, RetainIdle, Resume, Unlock, PromptStart, SteerStart,
     InterruptStart, SelectStart, RemoveStart, PromoteStart, UserBegin, AbortStart, Lock,
     ExternalStart, DisposeStart
<1>3. ASSUME NEW c \in Callers, CallStep(c)
      PROVE  Forget \/ (settling' = settling /\ (tails' = tails \/ Promote(c)))
  BY <1>3 DEF CallStep, Push, Own, SelectClaim, UserRefused, Promoted, Promote, PromoteRefused,
     Quiesced, AbortCheck, AbortIntent, AbortNative, Aborted, RemoveNative, RemoveTooLate,
     RemoveCommit, ExternalAdmit, ExternalEnd, DisposeAbort, Disposed
<1>4. ASSUME NEW p \in Procs, HandoffStep(p) \/ ReceiptLost(p) \/ AbortThrows(p)
      PROVE  settling' = settling /\ (tails' = tails \/ (Handed(p) /\ p # Drain))
  BY <1>4 DEF HandoffStep, Claim, ClaimRefused, SubmitHandoff, RecordReceipt, SubmitRefused,
     Handed, ReceiptLost, HandoffThrows, AbortThrows
<1>5. ASSUME NEW p \in Procs, ReconcileStep(p) PROVE UNCHANGED <<settling, tails>>
  BY <1>5 DEF ReconcileStep, Reconcile, ReconcileRead, ReconcileCommit
<1>6. CASE DrainStep \/ SettleStep \/ TailStep
  BY <1>6 DEF DrainStep, DrainPick, DrainBreak, DrainEnd, DrainAwait, RecoverHandoff,
     RecoverReconcile, Recovered, SettleStep, SettleStart, SettleRelease, SettleWake, TailStep,
     TailStart, TailEnd
<1>7. CASE ObserveRunEnd \/ LanePlaces \/ LaneEnds \/ Reopen \/ Crash
  BY <1>7 DEF ObserveRunEnd, LanePlaces, LaneEnds, Reopen, Crash
<1>8. ASSUME NEW p \in Procs, (p \in Callers /\ Promote(p)) \/ (Handed(p) /\ p # Drain)
      PROVE  phase = "open" /\ \E r \in Req : tails' = tails \cup {r}
  <2>1. p \in Callers /\ phase = "open"
    BY <1>8, ProcNames DEF Promote, Handed, QInv, PhaseInv, ChainInv, Place
  <2>2. item[p] \in Inputs /\ att[p] \in Attempts /\ \A i \in Inputs : attempt[i] \in Attempts
    BY <1>8, ProcNames DEF Promote, Handed, QInv, TypeOK, ItemInv, Place, Needs, Carrying
  <2> QED BY <1>8, <2>1, <2>2 DEF Promote, Handed, Req
<1> QED BY <1>1, <1>2, <1>3, <1>4, <1>5, <1>6, <1>7, <1>8, ProcNames DEF Next, Mishap, ObserveRunEnd

\* How a session goes down.
LEMMA DownWriters ==
  ASSUME [Next]_vars, phase' = "down", phase # "down"
  PROVE  Forget \/ \E p \in Procs : SubmitRefused(p) \/ ReceiptLost(p)
<1>1. CASE UNCHANGED vars
  BY <1>1 DEF vars
<1>2. CASE CallStarts
  BY <1>2 DEF CallStarts, Enqueue, FollowUp, RetainIdle, Resume, Unlock, PromptStart, SteerStart,
     InterruptStart, SelectStart, RemoveStart, PromoteStart, UserBegin, AbortStart, Lock,
     ExternalStart, DisposeStart
<1>3. ASSUME NEW c \in Callers, CallStep(c) PROVE Forget \/ phase' = phase
  BY <1>3 DEF CallStep, Push, Own, SelectClaim, UserRefused, Promoted, Promote, PromoteRefused,
     Quiesced, AbortCheck, AbortIntent, AbortNative, Aborted, RemoveNative, RemoveTooLate,
     RemoveCommit, ExternalAdmit, ExternalEnd, DisposeAbort, Disposed
<1>4. ASSUME NEW p \in Procs, HandoffStep(p) \/ AbortThrows(p), ~SubmitRefused(p) PROVE phase' = phase
  BY <1>4 DEF HandoffStep, Claim, ClaimRefused, SubmitHandoff, RecordReceipt, Handed, AbortThrows
<1>5. ASSUME NEW p \in Procs, ReconcileStep(p) PROVE phase' = phase
  BY <1>5 DEF ReconcileStep, Reconcile, ReconcileRead, ReconcileCommit
<1>6. CASE DrainStep \/ SettleStep \/ TailStep
  BY <1>6 DEF DrainStep, DrainPick, DrainBreak, DrainEnd, DrainAwait, RecoverHandoff,
     RecoverReconcile, Recovered, SettleStep, SettleStart, SettleRelease, SettleWake, TailStep,
     TailStart, TailEnd
<1>7. CASE ObserveRunEnd \/ LanePlaces \/ LaneEnds \/ Reopen \/ Crash
  BY <1>7 DEF ObserveRunEnd, LanePlaces, LaneEnds, Reopen, Crash
<1> QED BY <1>1, <1>2, <1>3, <1>4, <1>5, <1>6, <1>7 DEF Next, Mishap

\* Nothing runs beside the drain until a session is open, and a closed one is idle.
QuietInv ==
  /\ phase # "open" => Quiet /\ pc[Tailer] = "idle" /\ tails = {}
  /\ phase = "down" => pc[Drain] = "idle"

\* Every step.
LEMMA StepQuiet == ASSUME QInv, QuietInv, DrainInv, [Next]_vars PROVE QuietInv'
<1>0. LocalOK /\ settling \in Nat
  BY DEF QInv, TypeOK, LocalOK
<1>1. CASE Forget
  BY <1>1, ProcNames DEF Forget, QuietInv, Quiet
<1>2. CASE Recovered
  BY <1>2 DEF Recovered, QuietInv
<1>3. CASE ~Forget /\ ~Recovered /\ phase' # "open"
  <2>1. phase # "open" /\ settling = 0 /\ pc[Settle] = "idle" /\ pc[Tailer] = "idle" /\ tails = {}
    <3>1. phase # "open"
      BY <1>3, PhaseWriters DEF Crash, Disposed, Reopen
    <3> QED BY <3>1 DEF QuietInv, Quiet
  <2>2. settling' = 0 /\ tails' = {}
    BY <1>3, <2>1, SettleWriters DEF SettleRelease
  <2>3. pc'[Settle] = "idle"
    <3>1. ~Acts(Settle)
      BY <2>1, ProcNames DEF Acts, HandoffStep, Claim, ClaimRefused, SubmitHandoff, SubmitRefused,
         RecordReceipt, Handed, ReconcileStep, Reconcile, ReconcileRead, ReconcileCommit, ReceiptLost,
         AbortThrows, SettleStep, SettleStart, SettleRelease, SettleWake
    <3> QED BY <1>3, <2>1, <3>1, StepActs, ProcNames DEF Same
  <2>4. pc'[Tailer] = "idle"
    <3>1. ~Acts(Tailer)
      BY <2>1, ProcNames DEF Acts, HandoffStep, Claim, ClaimRefused, SubmitHandoff, SubmitRefused,
         RecordReceipt, Handed, ReconcileStep, Reconcile, ReconcileRead, ReconcileCommit, ReceiptLost,
         AbortThrows, TailStep, TailStart, TailEnd
    <3> QED BY <1>3, <2>1, <3>1, StepActs, ProcNames DEF Same
  <2>5. ASSUME phase' = "down" PROVE pc'[Drain] = "idle"
    <3>1. CASE phase = "down"
      <4>1. ~Wakes
        <5>1. \A c \in Callers : ~ExternalEnd(c)
          BY <2>1 DEF ExternalEnd, QInv, PhaseInv
        <5> QED BY <2>1, <5>1 DEF Wakes, Resume, Enqueue, FollowUp, RetainIdle, Call, SettleWake, TailEnd
      <4> QED BY <2>5, <3>1, <4>1, WakeWriters DEF QuietInv, Reopen
    <3>2. CASE phase # "down"
      <4>1. \E p \in Procs : SubmitRefused(p) \/ ReceiptLost(p)
        BY <1>3, <2>5, <3>2, DownWriters
      <4> QED BY <1>0, <2>5, <3>2, <4>1, ProcNames DEF SubmitRefused, ReceiptLost, HandoffThrows, Return, LocalOK
    <3> QED BY <3>1, <3>2
  <2> QED BY <2>2, <2>3, <2>4, <2>5 DEF QuietInv, Quiet
<1>4. CASE phase' = "open"
  BY <1>4 DEF QuietInv
<1> QED BY <1>1, <1>2, <1>3, <1>4

\* Whoever stops holding an input has let go of it.
LEMMA HoldsLeaves ==
  ASSUME QInv, KindInv, QuietInv, [Next]_vars, NEW p \in Procs, Holds(p)
  PROVE  (Holds(p)' /\ item'[p] = item[p]) \/ item[p] \notin handingOff'
<1>0. LocalOK /\ ItemInv
  BY DEF QInv, TypeOK, LocalOK
<1> USE DEF Holds, Place
<1>1. CASE Forget
  BY <1>1 DEF Forget
<1>2. CASE Same(p)
  BY <1>2 DEF Same
<1>3. CASE p \in Callers /\ (Begins(p) \/ CallStep(p))
  <2>1. ~Begins(p)
    BY <1>3, BeginsKind, ProcNames, <1>0 DEF KindInv
  <2> QED BY <1>1, <1>3, <2>1, ProcNames DEF CallStep, Push, Own, SelectClaim, UserRefused, Promoted,
     Promote, PromoteRefused, Quiesced, AbortCheck, AbortIntent, AbortNative, Aborted, RemoveNative,
     RemoveTooLate, RemoveCommit, ExternalAdmit, ExternalEnd, DisposeAbort, Disposed
<1>4. CASE Claim(p) \/ SubmitHandoff(p) \/ RecordReceipt(p)
  BY <1>0, <1>4 DEF Claim, SubmitHandoff, RecordReceipt, Goto, GotoReconcile, LocalOK
<1>5. CASE ClaimRefused(p) \/ Handed(p)
  BY <1>5 DEF ClaimRefused, Handed, Release
<1>6. CASE SubmitRefused(p) \/ ReceiptLost(p)
  BY <1>6 DEF SubmitRefused, ReceiptLost, HandoffThrows, Release
<1>7. CASE ReconcileStep(p)
  <2>1. ret[p] \in RetLabels
    BY <1>0 DEF ItemInv
  <2> QED BY <1>0, <1>7, <2>1 DEF ReconcileStep, Reconcile, ReconcileRead, ReconcileCommit, Goto,
       LocalOK, RetLabels
<1>8. ~AbortThrows(p)
  BY DEF AbortThrows
<1>9. CASE p = Drain /\ (DrainStep \/ Reopen \/ Woken)
  BY <1>9 DEF DrainStep, DrainPick, DrainBreak, DrainEnd, DrainAwait, RecoverHandoff,
     RecoverReconcile, Recovered, Reopen, Woken, QuietInv
<1>10. CASE (p = Settle /\ SettleStep) \/ (p = Tailer /\ TailStep)
  BY <1>10, ProcNames DEF SettleStep, SettleStart, SettleRelease, SettleWake, TailStep, TailStart, TailEnd,
     QInv, ChainInv
<1> QED BY <1>1, <1>2, <1>3, <1>4, <1>5, <1>6, <1>7, <1>8, <1>9, <1>10, StepActs DEF Acts, HandoffStep

\* How an input comes into handoff().
LEMMA HandingWriters ==
  ASSUME [Next]_vars, NEW i, i \in handingOff', i \notin handingOff
  PROVE  \/ \E p \in Procs : Claim(p) /\ item[p] = i
         \/ (DrainPick \/ RecoverHandoff) /\ \E j \in Inputs : i = j /\ item' = [item EXCEPT ![Drain] = j]
<1> USE DEF memory
<1>1. CASE UNCHANGED vars
  BY <1>1 DEF vars
<1>2. CASE CallStarts
  BY <1>2 DEF CallStarts, Enqueue, FollowUp, RetainIdle, Resume, Unlock, PromptStart, SteerStart,
     InterruptStart, SelectStart, RemoveStart, PromoteStart, UserBegin, AbortStart, Lock,
     ExternalStart, DisposeStart
<1>3. ASSUME NEW c \in Callers, CallStep(c) PROVE FALSE
  BY <1>3 DEF CallStep, Push, Own, SelectClaim, UserRefused, Promoted, Promote, PromoteRefused,
     Quiesced, AbortCheck, AbortIntent, AbortNative, Aborted, RemoveNative, RemoveTooLate,
     RemoveCommit, ExternalAdmit, ExternalEnd, DisposeAbort, Disposed, Forget, Release
<1>4. ASSUME NEW p \in Procs, HandoffStep(p) \/ ReceiptLost(p) \/ AbortThrows(p), ~Claim(p) PROVE FALSE
  BY <1>4 DEF HandoffStep, ClaimRefused, SubmitHandoff, RecordReceipt, SubmitRefused, Handed,
     ReceiptLost, HandoffThrows, AbortThrows, Release
<1>5. ASSUME NEW p \in Procs, ReconcileStep(p) PROVE FALSE
  BY <1>5 DEF ReconcileStep, Reconcile, ReconcileRead, ReconcileCommit
<1>6. ASSUME DrainStep \/ SettleStep \/ TailStep, ~DrainPick, ~RecoverHandoff PROVE FALSE
  BY <1>6 DEF DrainStep, DrainBreak, DrainEnd, DrainAwait, RecoverReconcile, Recovered, SettleStep,
     SettleStart, SettleRelease, SettleWake, TailStep, TailStart, TailEnd
<1>7. ~(ObserveRunEnd \/ LanePlaces \/ LaneEnds \/ Reopen \/ Crash)
  BY DEF ObserveRunEnd, LanePlaces, LaneEnds, Reopen, Crash, Forget
<1>8. ASSUME NEW p, Claim(p) PROVE item[p] = i
  BY <1>8 DEF Claim
<1>9. CASE DrainPick \/ RecoverHandoff
  BY <1>9 DEF DrainPick, RecoverHandoff
<1> QED BY <1>1, <1>2, <1>3, <1>4, <1>5, <1>6, <1>7, <1>8, <1>9 DEF Next, Mishap

\* Every input inside handoff() has a handler there.
HeldInv == \A i \in handingOff : \E p \in Procs : Holds(p) /\ item[p] = i

\* Every step.
LEMMA StepHeld == ASSUME QInv, KindInv, QuietInv, HeldInv, [Next]_vars PROVE HeldInv'
<1> SUFFICES ASSUME NEW i \in handingOff' PROVE \E p \in Procs : Holds(p)' /\ item'[p] = i
  BY DEF HeldInv
<1>0. LocalOK
  BY DEF QInv, TypeOK, LocalOK
<1>1. CASE i \in handingOff
  BY <1>1, HoldsLeaves DEF HeldInv
<1>2. ASSUME NEW p \in Procs, Claim(p), item[p] = i PROVE Holds(p)' /\ item'[p] = i
  BY <1>0, <1>2 DEF Claim, Holds, Place, LocalOK
<1>3. ASSUME DrainPick \/ RecoverHandoff, NEW j \in Inputs, i = j, item' = [item EXCEPT ![Drain] = j]
      PROVE  Holds(Drain)' /\ item'[Drain] = i
  BY <1>0, <1>3, ProcNames DEF DrainPick, RecoverHandoff, Holds, Place, LocalOK
<1> QED BY <1>1, <1>2, <1>3, HandingWriters, ProcNames

\* How a process comes to have an input.
LEMMA ItemWriters ==
  ASSUME QInv, [Next]_vars, NEW q \in Procs, q # Drain, item'[q] \notin {item[q], None}
  PROVE  /\ q \in Callers
         /\ \/ \E i \in Fresh : item'[q] = i
            \/ pc'[q] \in Removing
            \/ kind'[q] \in UserKinds /\ kind'[q] \in Kinds
<1>0. LocalOK
  BY DEF QInv, TypeOK, LocalOK
<1>1. CASE Forget \/ Same(q)
  BY <1>1 DEF Forget, Same
<1>2. CASE q \in Callers /\ Begins(q)
  <2>1. CASE \E i \in Fresh : Starts(q, i)
    BY <1>0, <1>2, <2>1 DEF Starts, PromptStart, SteerStart, InterruptStart, UserBegin, Begin, LocalOK
  <2>2. CASE \E i \in Inputs : RemoveStart(q, i)
    BY <1>0, <1>2, <2>2 DEF RemoveStart, Begin, LocalOK, Removing
  <2>3. CASE \E i \in Inputs : \/ \E stale \in BOOLEAN : SelectStart(q, i, stale)
                               \/ \E o \in {None, runHead} : PromoteStart(q, i, o)
    BY <1>0, <1>2, <2>3 DEF SelectStart, PromoteStart, UserBegin, Begin, LocalOK, UserKinds
  <2>4. CASE AbortStart(q) \/ Lock(q) \/ ExternalStart(q) \/ DisposeStart(q)
    BY <1>0, <2>4 DEF AbortStart, Lock, ExternalStart, DisposeStart, Begin, LocalOK
  <2> QED BY <1>2, <2>1, <2>2, <2>3, <2>4 DEF Begins
<1>3. ~(q \in Callers /\ CallStep(q)) \/ Forget
  BY <1>0 DEF CallStep, Push, Own, SelectClaim, UserRefused, Promoted, Promote, PromoteRefused,
     Quiesced, AbortCheck, AbortIntent, AbortNative, Aborted, RemoveNative, RemoveTooLate,
     RemoveCommit, ExternalAdmit, ExternalEnd, DisposeAbort, Disposed, Goto, GotoReconcile, Return, LocalOK
<1>4. ~(HandoffStep(q) \/ ReconcileStep(q) \/ ReceiptLost(q) \/ AbortThrows(q))
  BY <1>0 DEF HandoffStep, Claim, ClaimRefused, SubmitHandoff, RecordReceipt, SubmitRefused,
     Handed, ReceiptLost, HandoffThrows, AbortThrows, ReconcileStep, Reconcile, ReconcileRead,
     ReconcileCommit, Goto, GotoReconcile, Return, LocalOK
<1>5. ~((q = Settle /\ SettleStep) \/ (q = Tailer /\ TailStep))
  BY DEF SettleStep, SettleStart, SettleRelease, SettleWake, TailStep, TailStart, TailEnd, Goto,
     GotoReconcile
<1> QED BY <1>1, <1>2, <1>3, <1>4, <1>5, StepActs DEF Acts

\* Beside a call about to claim an input only the drain and removals have it.
ClaimInv ==
  \A c \in Callers : pc[c] = "claim" =>
    \A q \in Procs \ {c} : item[q] = item[c] => q = Drain \/ pc[q] \in Removing

\* How a removal goes on.
LEMMA RemovalGoes ==
  ASSUME QInv, KindInv, [Next]_vars, NEW q \in Procs \ {Drain}, pc[q] \in Removing
  PROVE  pc'[q] \in Removing \/ item'[q] = None
<1>0. LocalOK
  BY DEF QInv, TypeOK, LocalOK
<1> USE DEF Removing
<1>1. CASE Forget \/ Same(q)
  BY <1>1 DEF Forget, Same
<1>2. CASE q \in Callers /\ Begins(q)
  BY <1>0, <1>2, BeginsKind DEF KindInv
<1>3. CASE q \in Callers /\ CallStep(q)
  BY <1>0, <1>1, <1>3 DEF CallStep, Push, Own, SelectClaim, UserRefused, Promoted, Promote, PromoteRefused,
     Quiesced, AbortCheck, AbortIntent, AbortNative, Aborted, RemoveNative, RemoveTooLate,
     RemoveCommit, ExternalAdmit, ExternalEnd, DisposeAbort, Disposed, Goto, Return, LocalOK
<1>4. ~(HandoffStep(q) \/ ReconcileStep(q) \/ ReceiptLost(q) \/ AbortThrows(q))
  BY DEF HandoffStep, Claim, ClaimRefused, SubmitHandoff, RecordReceipt, SubmitRefused,
     Handed, ReceiptLost, AbortThrows, ReconcileStep, Reconcile, ReconcileRead, ReconcileCommit
<1>5. ~(q = Settle /\ SettleStep) /\ ~(q = Tailer /\ TailStep)
  BY DEF SettleStep, SettleStart, SettleRelease, SettleWake, TailStep, TailStart, TailEnd
<1> QED BY <1>1, <1>2, <1>3, <1>4, <1>5, StepActs DEF Acts

\* Every step.
LEMMA StepClaim ==
  ASSUME NoUserCalls, QInv, KindInv, GuardInv, ExclusiveInv, SelectInv, QuiesceInv, NewInv, ClaimInv,
         [Next]_vars
  PROVE  ClaimInv'
<1> SUFFICES ASSUME NEW c \in Callers, pc'[c] = "claim", NEW q \in Procs \ {c}, q # Drain,
                    item'[q] = item'[c]
             PROVE  pc'[q] \in Removing
  BY DEF ClaimInv
<1>0. LocalOK /\ ItemInv /\ LocalOK' /\ ItemInv'
  BY StepQ DEF QInv, TypeOK, LocalOK
<1>1. item'[c] \in Inputs /\ item'[c] # None
  BY <1>0, ProcNames, NoneAssumption DEF ItemInv, Place, Needs, Carrying
<1>2. CASE item'[q] # item[q]
  <2>1. kind'[q] \notin UserKinds \/ kind'[q] \notin Kinds
    BY DEF NoUserCalls
  <2>2. item[c] = item'[c]
    <3>1. CASE Push(c)
      BY <3>1 DEF Push, Goto
    <3> QED BY <3>1, ClaimWriters, Unguarded
  <2> QED BY <1>1, <1>2, <2>1, <2>2, ItemWriters, ProcNames DEF Fresh
<1>3. CASE item'[q] = item[q]
  <2>1. CASE Push(c)
    <3>1. item[c] = item'[c] /\ Brings(c)
      BY <2>1 DEF Push, Goto, Brings
    <3> QED BY <1>3, <3>1, ProcNames DEF NewInv
  <2>2. CASE pc[c] = "claim" /\ item'[c] = item[c]
    <3>1. pc[q] \in Removing
      BY <1>3, <2>2 DEF ClaimInv
    <3> QED BY <1>1, <3>1, RemovalGoes
  <2> QED BY <2>1, <2>2, ClaimWriters, Unguarded
<1> QED BY <1>2, <1>3

\* A woken drain is due.
LEMMA WokenDue ==
  ASSUME LocalOK, NEW pcs \in [Procs -> Labels], WakeDrain(pcs)
  PROVE  pc'[Drain] \notin {"idle", "stopping"} \/ drainAgain'
BY ProcNames DEF WakeDrain, LocalOK

\* Whatever wakes it.
LEMMA WakesDue ==
  ASSUME QInv, [Next]_vars, Wakes
  PROVE  DrainDue' \/ (TailEnd /\ target[Tailer] # None)
<1>0. LocalOK /\ "idle" \in Labels
  BY DEF QInv, TypeOK, LocalOK, Labels
<1>1. CASE Resume \/ \E i \in Fresh : Enqueue(i) \/ FollowUp(i)
  <2>1. WakeDrain(pc) /\ pc \in [Procs -> Labels]
    BY <1>0, <1>1 DEF Resume, Enqueue, FollowUp, RetainIdle, LocalOK
  <2> QED BY <1>0, <2>1, WokenDue DEF DrainDue
<1>2. ASSUME NEW p \in Procs, WakeDrain([pc EXCEPT ![p] = "idle"]) PROVE DrainDue'
  <2>1. [pc EXCEPT ![p] = "idle"] \in [Procs -> Labels]
    BY <1>0 DEF LocalOK
  <2> QED BY <1>0, <1>2, <2>1, WokenDue DEF DrainDue
<1>3. CASE SettleWake \/ \E c \in Callers : ExternalEnd(c)
  BY <1>2, <1>3, ProcNames DEF SettleWake, ExternalEnd
<1>4. CASE TailEnd
  BY <1>2, <1>4, ProcNames DEF TailEnd
<1> QED BY <1>1, <1>3, <1>4 DEF Wakes

\* How a live run goes.
LEMMA HeadWriters ==
  ASSUME [Next]_vars, runHead # None PROVE runHead' # None \/ LaneEnds
<1>1. ASSUME NEW r, NEW w, Submit(r, w) PROVE runHead' # None
  BY <1>1 DEF Submit, SubmitIdle, SubmitBusy, lane
<1>2. CASE UNCHANGED vars
  BY <1>2 DEF vars, native, lane
<1>3. CASE CallStarts
  BY <1>3 DEF CallStarts, Enqueue, FollowUp, RetainIdle, Resume, Unlock, PromptStart, SteerStart,
     InterruptStart, SelectStart, RemoveStart, PromoteStart, UserBegin, AbortStart, Lock,
     ExternalStart, DisposeStart, native, lane
<1>4. ASSUME NEW c \in Callers, CallStep(c) PROVE runHead' # None
  <2>1. CASE Promote(c)
    BY <1>1, <2>1 DEF Promote
  <2> QED BY <1>4, <2>1 DEF CallStep, Push, Own, SelectClaim, UserRefused, Promoted, PromoteRefused,
     Quiesced, AbortCheck, AbortIntent, AbortNative, Aborted, RemoveNative, RemoveTooLate,
     RemoveCommit, ExternalAdmit, ExternalEnd, DisposeAbort, Disposed, Forget, Abort, Withdraw,
     native, lane
<1>5. ASSUME NEW p \in Procs, HandoffStep(p) \/ ReceiptLost(p) \/ AbortThrows(p) PROVE runHead' # None
  <2>1. CASE SubmitHandoff(p)
    BY <1>1, <2>1 DEF SubmitHandoff
  <2> QED BY <1>5, <2>1 DEF HandoffStep, Claim, ClaimRefused, RecordReceipt, SubmitRefused,
     Handed, ReceiptLost, HandoffThrows, AbortThrows, native, lane
<1>6. ASSUME NEW p \in Procs, ReconcileStep(p) PROVE runHead' # None
  BY <1>6 DEF ReconcileStep, Reconcile, ReconcileRead, ReconcileCommit, native, lane
<1>7. CASE DrainStep \/ SettleStep \/ TailStep
  BY <1>7 DEF DrainStep, DrainPick, DrainBreak, DrainEnd, DrainAwait, RecoverHandoff,
     RecoverReconcile, Recovered, SettleStep, SettleStart, SettleRelease, SettleWake, TailStep,
     TailStart, TailEnd, native, lane
<1>8. CASE ObserveRunEnd \/ LanePlaces \/ Reopen \/ Crash
  BY <1>8 DEF ObserveRunEnd, LanePlaces, PlaceQueued, Reopen, Abort, Crash, Forget, lane
<1> QED BY <1>2, <1>3, <1>4, <1>5, <1>6, <1>7, <1>8 DEF Next, Mishap

\* Who takes a run_end event from the stream.
LEMMA UnseenWriters ==
  ASSUME QInv, [Next]_vars PROVE Forget \/ ObserveRunEnd \/ unseen' >= unseen
<1>0. unseen \in Nat
  BY DEF QInv, TypeOK, LaneTypeOK
<1>same. ASSUME unseen' = unseen PROVE unseen' >= unseen
  BY <1>0, <1>same
<1>1. CASE UNCHANGED vars
  BY <1>same, <1>1 DEF vars, native
<1>2. CASE CallStarts
  BY <1>same, <1>2 DEF CallStarts, Enqueue, FollowUp, RetainIdle, Resume, Unlock, PromptStart, SteerStart,
     InterruptStart, SelectStart, RemoveStart, PromoteStart, UserBegin, AbortStart, Lock,
     ExternalStart, DisposeStart, native
<1>3. ASSUME NEW c \in Callers, CallStep(c) PROVE Forget \/ unseen' = unseen
  BY <1>3 DEF CallStep, Push, Own, SelectClaim, UserRefused, Promoted, Promote, PromoteRefused,
     Quiesced, AbortCheck, AbortIntent, AbortNative, Aborted, RemoveNative, RemoveTooLate,
     RemoveCommit, ExternalAdmit, ExternalEnd, DisposeAbort, Disposed, native
<1>4. ASSUME NEW p \in Procs, HandoffStep(p) \/ ReceiptLost(p) \/ AbortThrows(p) PROVE unseen' = unseen
  BY <1>4 DEF HandoffStep, Claim, ClaimRefused, SubmitHandoff, RecordReceipt, SubmitRefused,
     Handed, ReceiptLost, HandoffThrows, AbortThrows, native
<1>5. ASSUME NEW p \in Procs, ReconcileStep(p) PROVE unseen' = unseen
  BY <1>5 DEF ReconcileStep, Reconcile, ReconcileRead, ReconcileCommit, native
<1>6. CASE DrainStep \/ SettleStep \/ TailStep
  BY <1>same, <1>6 DEF DrainStep, DrainPick, DrainBreak, DrainEnd, DrainAwait, RecoverHandoff,
     RecoverReconcile, Recovered, SettleStep, SettleStart, SettleRelease, SettleWake, TailStep,
     TailStart, TailEnd, native
<1>7. CASE LanePlaces \/ Reopen \/ Crash
  BY <1>same, <1>7 DEF LanePlaces, PlaceQueued, Reopen, Crash
<1>8. CASE LaneEnds
  BY <1>0, <1>8 DEF LaneEnds, EndRun
<1> QED BY <1>same, <1>1, <1>2, <1>3, <1>4, <1>5, <1>6, <1>7, <1>8 DEF Next, Mishap

\* A run that is not settled stays so until its settlement wakes the drain.
LEMMA UnsettledKept ==
  ASSUME QInv, [Next]_vars, RunUnsettled, phase' = "open"
  PROVE  RunUnsettled' \/ SettleWake
<1>0. LocalOK /\ ChainInv /\ settling \in Nat /\ settling' \in Nat /\ unseen \in Nat /\ unseen' \in Nat
  BY StepQ DEF QInv, TypeOK, LocalOK, LaneTypeOK
<1>forget. ~Forget
  BY DEF Forget
<1>1. CASE runHead # None
  <2>1. runHead' # None \/ LaneEnds
    BY <1>1, <1>forget, HeadWriters
  <2>2. CASE LaneEnds
    BY <1>0, <2>2 DEF LaneEnds, EndRun, RunUnsettled
  <2> QED BY <2>1, <2>2 DEF RunUnsettled
<1>2. CASE unseen > 0
  <2>1. ObserveRunEnd \/ unseen' >= unseen
    BY <1>0, <1>forget, UnseenWriters
  <2>2. CASE ObserveRunEnd
    BY <1>0, <2>2 DEF ObserveRunEnd, RunUnsettled
  <2> QED BY <1>0, <1>2, <2>1, <2>2 DEF RunUnsettled
<1>3. CASE settling > 0
  <2>1. CASE SettleRelease
    <3>1. pc'[Settle] = "wake"
      BY <1>0, <2>1, ProcNames DEF SettleRelease, Goto, LocalOK
    <3> QED BY <3>1 DEF RunUnsettled
  <2> QED BY <1>0, <1>3, <1>forget, <2>1, SettleWriters DEF RunUnsettled
<1>4. CASE pc[Settle] # "idle"
  <2>1. CASE Acts(Settle)
    <3>1. CASE ReconcileStep(Settle)
      <4>1. pc'[Settle] \in {"release", "reconcileCommit"}
        BY <1>0, <3>1, ProcNames DEF ChainInv, ReconcileStep, Reconcile, ReconcileRead, ReconcileCommit, Goto,
           LocalOK
      <4> QED BY <4>1 DEF RunUnsettled
    <3>2. CASE SettleStart \/ SettleRelease
      <4>1. pc'[Settle] \in {"reconcile", "wake"}
        BY <1>0, <3>2, ProcNames DEF SettleStart, SettleRelease, Goto, GotoReconcile, LocalOK
      <4> QED BY <4>1 DEF RunUnsettled
    <3>3. ~(HandoffStep(Settle) \/ ReceiptLost(Settle) \/ AbortThrows(Settle))
      BY <1>0 DEF HandoffStep, Claim, ClaimRefused, SubmitHandoff, SubmitRefused, RecordReceipt,
         Handed, ReceiptLost, AbortThrows, ChainInv, Place
    <3> QED BY <2>1, <3>1, <3>2, <3>3, ProcNames DEF Acts, SettleStep
  <2>2. CASE Same(Settle)
    BY <1>4, <2>2 DEF Same, RunUnsettled
  <2> QED BY <1>forget, <2>1, <2>2, StepActs, ProcNames
<1> QED BY <1>1, <1>2, <1>3, <1>4 DEF RunUnsettled

\* How a running drain comes to rest, and how the request to go round again is met.
LEMMA DrainRests ==
  ASSUME QInv, DrainInv, [Next]_vars, phase' = "open"
  PROVE  /\ pc[Drain] \notin {"idle", "stopping"} /\ pc'[Drain] \in {"idle", "stopping"} =>
              DrainBreak \/ SubmitRefused(Drain) \/ ReceiptLost(Drain) \/ Recovered
         /\ drainAgain => drainAgain' \/ pc'[Drain] = "reconcile"
<1>0. LocalOK /\ ItemInv /\ Drain \in Procs /\ Drain \notin Callers /\ Drain # Settle /\ Drain # Tailer
  BY ProcNames DEF QInv, TypeOK, LocalOK
<1>forget. ~Forget
  BY DEF Forget
<1>1. ASSUME pc[Drain] \notin {"idle", "stopping"}, pc'[Drain] \in {"idle", "stopping"}
      PROVE  DrainBreak \/ SubmitRefused(Drain) \/ ReceiptLost(Drain) \/ Recovered
  <2>1. CASE HandoffStep(Drain) \/ ReceiptLost(Drain)
    BY <1>0, <1>1, <2>1 DEF HandoffStep, Claim, ClaimRefused, SubmitHandoff, RecordReceipt, Handed, Goto,
       GotoReconcile, LocalOK
  <2>2. ~AbortThrows(Drain)
    BY DEF AbortThrows, DrainInv, DrainPlaces, Place
  <2>3. ~ReconcileStep(Drain)
    BY <1>0, <1>1 DEF ReconcileStep, Reconcile, ReconcileRead, ReconcileCommit, Goto, LocalOK, DrainInv,
       Passing
  <2>4. CASE DrainStep
    BY <1>0, <1>1, <2>4 DEF DrainStep, DrainPick, RecoverHandoff, DrainEnd, DrainAwait, RecoverReconcile,
       Goto, GotoReconcile, LocalOK
  <2>5. ~Reopen /\ ~Woken /\ ~Same(Drain)
    BY <1>0, <1>1 DEF Reopen, Goto, LocalOK, Woken, Same
  <2> QED BY <1>0, <1>forget, <2>1, <2>2, <2>3, <2>4, <2>5, StepActs DEF Acts
<1>2. ASSUME drainAgain PROVE drainAgain' \/ pc'[Drain] = "reconcile"
  <2> USE DEF flow
  <2>1. CASE UNCHANGED vars
    BY <1>2, <2>1 DEF vars
  <2>2. CASE CallStarts
    BY <1>2, <2>2 DEF CallStarts, Enqueue, FollowUp, RetainIdle, Resume, Unlock, PromptStart, SteerStart,
       InterruptStart, SelectStart, RemoveStart, PromoteStart, UserBegin, AbortStart, Lock,
       ExternalStart, DisposeStart, WakeDrain
  <2>3. ASSUME NEW c \in Callers, CallStep(c) PROVE drainAgain'
    BY <1>2, <1>forget, <2>3 DEF CallStep, Push, Own, SelectClaim, UserRefused, Promoted, Promote,
       PromoteRefused, Quiesced, AbortCheck, AbortIntent, AbortNative, Aborted, RemoveNative,
       RemoveTooLate, RemoveCommit, ExternalAdmit, ExternalEnd, WakeDrain, DisposeAbort, Disposed
  <2>4. ASSUME NEW p \in Procs, HandoffStep(p) \/ ReceiptLost(p) \/ AbortThrows(p)
        PROVE  drainAgain' \/ pc'[Drain] = "reconcile"
    <3>1. CASE SubmitRefused(p) \/ ReceiptLost(p)
      BY <1>0, <1>2, <3>1 DEF SubmitRefused, ReceiptLost, HandoffThrows, DrainStops, LocalOK
    <3> QED BY <1>2, <2>4, <3>1 DEF HandoffStep, Claim, ClaimRefused, SubmitHandoff, RecordReceipt,
         Handed, AbortThrows
  <2>5. ASSUME NEW p \in Procs, ReconcileStep(p) PROVE drainAgain'
    BY <1>2, <2>5 DEF ReconcileStep, Reconcile, ReconcileRead, ReconcileCommit
  <2>6. CASE DrainEnd
    BY <1>0, <1>2, <2>6 DEF DrainEnd, DrainStops, LocalOK
  <2>7. CASE (DrainStep \/ SettleStep \/ TailStep) /\ ~DrainEnd
    BY <1>2, <2>7 DEF DrainStep, DrainPick, DrainBreak, DrainAwait, RecoverHandoff,
       RecoverReconcile, Recovered, SettleStep, SettleStart, SettleRelease, SettleWake, WakeDrain,
       TailStep, TailStart, TailEnd
  <2>8. CASE ObserveRunEnd \/ LanePlaces \/ LaneEnds \/ Reopen \/ Crash
    BY <1>2, <1>forget, <2>8 DEF ObserveRunEnd, LanePlaces, LaneEnds, Reopen, Crash
  <2> QED BY <2>1, <2>2, <2>3, <2>4, <2>5, <2>6, <2>7, <2>8 DEF Next, Mishap
<1> QED BY <1>1, <1>2

\* A settlement tail goes on to its end.
LEMMA TailGoes ==
  ASSUME QInv, [Next]_vars, pc[Tailer] = "tailed"
  PROVE  Forget \/ TailEnd \/ (pc'[Tailer] = "tailed" /\ target'[Tailer] = target[Tailer])
<1>0. LocalOK
  BY DEF QInv, TypeOK, LocalOK
<1> DEFINE Goes == pc'[Tailer] = "tailed" /\ target'[Tailer] = target[Tailer]
<1>own. ASSUME NEW p \in Procs \ {Tailer}, \E l : Goto(p, l) \/ GotoReconcile(p, l) \/ Return(p)
        PROVE  Goes
  BY <1>0, <1>own, ProcNames DEF Goto, GotoReconcile, Return, LocalOK
<1>wake. ASSUME NEW p \in Procs \ {Tailer}, WakeDrain(pc) \/ WakeDrain([pc EXCEPT ![p] = "idle"]),
                UNCHANGED target
         PROVE  Goes
  BY <1>0, <1>wake, ProcNames DEF WakeDrain, LocalOK
<1>1. CASE UNCHANGED vars \/ Unlock \/ ObserveRunEnd \/ LanePlaces \/ LaneEnds
  BY <1>1 DEF vars, local, Unlock, ObserveRunEnd, LanePlaces, LaneEnds
<1>2. CASE Resume \/ \E i \in Fresh : Enqueue(i) \/ FollowUp(i)
  BY <1>2, <1>wake, ProcNames DEF Resume, Enqueue, FollowUp, RetainIdle
<1>3. ASSUME NEW c \in Callers, Begins(c) PROVE Goes
  <2>1. \E k, l, i, o : Begin(c, k, l, i, o)
    BY <1>3 DEF Begins, Starts, PromptStart, SteerStart, InterruptStart, RemoveStart, SelectStart,
       PromoteStart, UserBegin, AbortStart, Lock, ExternalStart, DisposeStart
  <2> QED BY <1>0, <2>1, ProcNames DEF Begin, LocalOK
<1>4. ASSUME NEW c \in Callers, CallStep(c), ~Forget PROVE Goes
  <2>1. CASE ExternalEnd(c)
    BY <1>wake, <2>1, ProcNames DEF ExternalEnd
  <2>2. CASE ~ExternalEnd(c)
    <3>1. \E l : Goto(c, l) \/ GotoReconcile(c, l) \/ Return(c)
      BY <1>4, <2>2 DEF CallStep, Push, Own, SelectClaim, UserRefused, Promote, Promoted,
         PromoteRefused, Quiesced, AbortCheck, AbortIntent, AbortNative, Aborted, RemoveNative,
         RemoveTooLate, RemoveCommit, ExternalAdmit, DisposeAbort, Disposed
    <3> QED BY <1>own, <3>1, ProcNames
  <2> QED BY <2>1, <2>2
<1>5. ASSUME NEW p \in Procs, HandoffStep(p) \/ ReceiptLost(p) \/ AbortThrows(p) PROVE Goes
  <2>1. p # Tailer
    BY <1>5 DEF HandoffStep, Claim, ClaimRefused, SubmitHandoff, RecordReceipt, SubmitRefused,
       Handed, ReceiptLost, AbortThrows
  <2>2. \/ \E l : Goto(p, l) \/ GotoReconcile(p, l) \/ Return(p)
        \/ Claim(p) \/ DrainStops
    BY <1>5 DEF HandoffStep, ClaimRefused, SubmitHandoff, RecordReceipt, SubmitRefused,
       Handed, ReceiptLost, HandoffThrows, AbortThrows
  <2> QED BY <1>0, <1>own, <2>1, <2>2, ProcNames DEF Claim, DrainStops, LocalOK
<1>6. ASSUME NEW p \in Procs, ReconcileStep(p) PROVE Goes
  <2>1. p # Tailer
    BY <1>6 DEF ReconcileStep, Reconcile, ReconcileRead, ReconcileCommit
  <2> QED BY <1>0, <1>6, <2>1, ProcNames DEF ReconcileStep, Reconcile, ReconcileRead, ReconcileCommit,
       Goto, LocalOK
<1>7. CASE DrainStep \/ Reopen
  <2>1. \/ \E l : Goto(Drain, l) \/ GotoReconcile(Drain, l) \/ Return(Drain)
        \/ DrainStops \/ DrainPick \/ RecoverHandoff
    BY <1>7 DEF DrainStep, DrainBreak, DrainEnd, DrainAwait, RecoverReconcile, Recovered, Reopen
  <2> QED BY <1>0, <1>own, <2>1, ProcNames DEF DrainStops, DrainPick, RecoverHandoff, LocalOK
<1>8. CASE SettleStep
  <2>1. CASE SettleWake
    BY <1>wake, <2>1, ProcNames DEF SettleWake
  <2> QED BY <1>8, <1>own, <2>1, ProcNames DEF SettleStep, SettleStart, SettleRelease
<1>9. ASSUME NEW r PROVE ~TailStart(r)
  BY DEF TailStart
<1>10. Crash => Forget
  BY DEF Crash
<1> QED
  BY <1>1, <1>2, <1>3, <1>4, <1>5, <1>6, <1>7, <1>8, <1>9, <1>10 DEF Next, CallStarts, Begins, Starts,
     TailStep, Mishap

\* What still wakes the drain of a resumed lane.
Resuming == None \in tails \/ (pc[Tailer] = "tailed" /\ target[Tailer] = None)

\* A step of an open session drops that wake-up only by serving it.
LEMMA ResumingKept ==
  ASSUME QInv, [Next]_vars, Resuming, phase' = "open" PROVE Resuming' \/ (TailEnd /\ target[Tailer] = None)
<1>0. LocalOK /\ ~Forget
  BY DEF QInv, TypeOK, LocalOK, Forget
<1>1. CASE None \in tails
  <2>1. CASE TailStart(None)
    BY <1>0, <2>1, ProcNames DEF TailStart, LocalOK, Resuming
  <2>2. ASSUME NEW r \in tails, TailStart(r), r # None PROVE None \in tails'
    BY <1>1, <2>2 DEF TailStart
  <2>3. Recovered => None \in tails'
    BY DEF Recovered
  <2> QED BY <1>0, <1>1, <2>1, <2>2, <2>3, SettleWriters DEF Resuming
<1>2. CASE pc[Tailer] = "tailed" /\ target[Tailer] = None
  BY <1>0, <1>2, TailGoes DEF Resuming
<1> QED BY <1>1, <1>2 DEF Resuming

\* A submission under a new request leaves a run live.
LEMMA SubmitLive ==
  ASSUME LaneTypeOK, NEW r \in Req, sub[r] = "none", NEW w, Submit(r, w) PROVE runHead' # None
<1>1. CASE SubmitIdle(r)
  <2>1. PICK S \in (SUBSET (Queued \cup {r})) \ {{}} : StartRun(S, [sub EXCEPT ![r] = "queued"])
    BY <1>1 DEF SubmitIdle
  <2>2. runHead' \in Req
    BY <2>1 DEF StartRun, Queued
  <2> QED BY <2>2, NoneAssumption
<1>2. CASE SubmitBusy(r)
  BY <1>2 DEF SubmitBusy
<1> QED BY <1>1, <1>2 DEF Submit

\* The drain of an open session submits under a request the lane does not know.
FreshInv ==
  phase = "open" /\ pc[Drain] = "submit" => sub[<<item[Drain], att[Drain]>>] = "none"

\* Until it has recorded the receipt, a run is live or left to settle, or the drain
\* has been asked to go round again.
BusyInv == phase = "open" /\ pc[Drain] = "record" => drainAgain \/ RunUnsettled

\* A session in which the drain hands an input off was open before the step.
LEMMA OpenBefore ==
  ASSUME QInv, [Next]_vars, phase' = "open", pc'[Drain] # "idle" PROVE phase = "open"
<1>1. LocalOK
  BY DEF QInv, TypeOK, LocalOK
<1>2. ~Recovered
  BY <1>1, ProcNames DEF Recovered, Return, LocalOK
<1> QED BY <1>2, PhaseWriters DEF Crash, Disposed, Forget, Reopen

\* Every step.
LEMMA StepFresh ==
  ASSUME QInv, RunInv, SelectInv, QuiesceInv, KindInv, GuardInv, ExclusiveInv, LaterInv, FreshInv,
         [Next]_vars
  PROVE  FreshInv'
<1> SUFFICES ASSUME phase' = "open", pc'[Drain] = "submit"
             PROVE  sub'[<<item'[Drain], att'[Drain]>>] = "none"
  BY DEF FreshInv
<1>0. LocalOK /\ ItemInv /\ RecordOK /\ phase = "open"
  BY OpenBefore DEF QInv, TypeOK, LocalOK, RecordOK
<1>1. CASE Claim(Drain)
  <2>1. item[Drain] \in Inputs /\ disp[item[Drain]] = "pending"
    BY <1>0, <1>1, ProcNames DEF Claim, Claimable, Recovering, KindInv, UserKinds, ItemInv, Place, Needs,
       Carrying
  <2>2. sub[<<item[Drain], attempt[item[Drain]]>>] = "none"
    BY <1>0, <2>1 DEF LaterInv, RecordOK
  <2> QED BY <1>0, <1>1, <2>2, ProcNames DEF Claim, LocalOK, native, lane
<1>2. CASE pc[Drain] = "submit" /\ item'[Drain] = item[Drain] /\ att'[Drain] = att[Drain]
  <2> DEFINE r == <<item[Drain], att[Drain]>>
  <2>1. sub[r] = "none" /\ r \in Req
    BY <1>0, <1>2, ProcNames DEF FreshInv, ItemInv, Place, Needs, Carrying, LocalOK, Req
  <2>2. ASSUME NEW p \in Procs, SubmitHandoff(p) PROVE <<item[p], att[p]>> # r
    <3>1. p # Drain
      BY <1>0, <2>2 DEF SubmitHandoff, Goto, LocalOK
    <3>2. item[p] # item[Drain]
      BY <1>2, <2>2, <3>1, ProcNames DEF SubmitHandoff, QInv, HandoffInv, Holds, Place
    <3> QED BY <3>2
  <2>3. Settled(r)
    BY <2>1, <2>2, StepSettled, Unguarded
  <2> QED BY <1>2, <2>1, <2>3 DEF Settled, Unentered
<1> QED BY <1>1, <1>2, StepMoved, ProcNames DEF Moved

\* Every step.
LEMMA StepBusy ==
  ASSUME QInv, DrainInv, FreshInv, BusyInv, [Next]_vars PROVE BusyInv'
<1> SUFFICES ASSUME phase' = "open", pc'[Drain] = "record" PROVE drainAgain' \/ RunUnsettled'
  BY DEF BusyInv
<1>0. LocalOK /\ ItemInv /\ LaneTypeOK /\ phase = "open"
  BY OpenBefore DEF QInv, TypeOK, LocalOK
<1>1. CASE pc[Drain] = "record"
  <2>1. CASE drainAgain
    BY <2>1, DrainRests
  <2>2. CASE RunUnsettled /\ SettleWake
    <3>1. WakeDrain([pc EXCEPT ![Settle] = "idle"])
      BY <2>2 DEF SettleWake
    <3> QED BY <1>0, <1>1, <3>1, ProcNames DEF WakeDrain, LocalOK
  <2> QED BY <1>0, <1>1, <2>1, <2>2, UnsettledKept DEF BusyInv
<1>2. CASE SubmitHandoff(Drain)
  <2>1. <<item[Drain], att[Drain]>> \in Req
    BY <1>0, <1>2, ProcNames DEF SubmitHandoff, ItemInv, Place, Needs, Carrying, LocalOK, Req
  <2>2. runHead' # None
    BY <1>0, <1>2, <2>1, SubmitLive DEF SubmitHandoff, FreshInv
  <2> QED BY <2>2 DEF RunUnsettled
<1>3. pc[Drain] = "record" \/ SubmitHandoff(Drain)
  <2>1. CASE Same(Drain)
    BY <2>1 DEF Same
  <2>2. CASE HandoffStep(Drain) \/ ReceiptLost(Drain) \/ AbortThrows(Drain)
    BY <1>0, <2>2, ProcNames DEF HandoffStep, Claim, ClaimRefused, RecordReceipt, SubmitRefused, Handed,
       ReceiptLost, HandoffThrows, AbortThrows, DrainStops, Goto, GotoReconcile, Return, LocalOK
  <2>3. ~ReconcileStep(Drain)
    BY <1>0, ProcNames DEF ReconcileStep, Reconcile, ReconcileRead, ReconcileCommit, Goto, LocalOK,
       ItemInv, RetLabels
  <2>4. ~DrainStep /\ ~Reopen /\ ~Woken /\ ~Forget
    BY <1>0, ProcNames DEF DrainStep, DrainPick, DrainBreak, DrainEnd, DrainStops, DrainAwait,
       RecoverHandoff, RecoverReconcile, Recovered, Reopen, Woken, Forget, Goto, GotoReconcile, Return,
       LocalOK
  <2> QED BY <2>1, <2>2, <2>3, <2>4, StepActs, ProcNames DEF Acts
<1> QED BY <1>1, <1>2, <1>3

\* The inductive invariant.
WakeInv ==
  /\ QInv /\ RunInv /\ SelectInv /\ ExclusiveInv /\ KindInv /\ NewInv /\ PresentInv /\ QuiesceInv
  /\ TodoInv /\ QueuedInv /\ GuardInv /\ AttInv /\ LaterInv
  /\ DrainInv /\ QuietInv /\ HeldInv /\ ClaimInv /\ FreshInv /\ BusyInv

\* The call that brought the input is about to claim it.
Claimant(i) == \E c \in Callers : pc[c] = "claim" /\ item[c] = i

\* A drain that is due stays due while an input could be claimed.
LEMMA StepDue ==
  ASSUME WakeInv, [Next]_vars, DrainDue, NEW i \in Inputs, Eligible(i), phase' = "open"
  PROVE  DrainDue'
<1> USE DEF WakeInv
<1>0. LocalOK /\ settling \in Nat
  BY DEF QInv, TypeOK, LocalOK
<1>forget. ~Forget
  BY DEF Forget
<1>wakes. SettleWake \/ (TailEnd /\ target[Tailer] = None) \/ (\E c \in Callers : ExternalEnd(c)) => DrainDue'
  <2>1. SettleWake \/ (\E c \in Callers : ExternalEnd(c)) => Wakes /\ ~TailEnd
    <3>1. ASSUME TailEnd, SettleWake \/ (\E c \in Callers : ExternalEnd(c)) PROVE FALSE
      <4>1. pc[Tailer] = "tailed" /\ pc'[Tailer] = "idle"
        BY <1>0, <3>1, ProcNames DEF TailEnd, WakeDrain, LocalOK
      <4>2. pc'[Tailer] = "tailed"
        BY <1>0, <3>1, <4>1, ProcNames DEF SettleWake, ExternalEnd, WakeDrain, LocalOK
      <4> QED BY <4>1, <4>2
    <3> QED BY <3>1 DEF Wakes
  <2>2. TailEnd => Wakes
    BY DEF Wakes
  <2> QED BY <2>1, <2>2, WakesDue
<1>1. CASE RunUnsettled
  BY <1>1, <1>wakes, UnsettledKept DEF DrainDue
<1>2. CASE external # None
  <2>1. external' # None \/ \E c \in Callers : ExternalEnd(c)
    BY <1>2, <1>forget, OwnerWriters
  <2> QED BY <1>wakes, <2>1 DEF DrainDue
<1>3. CASE Resuming
  BY <1>3, <1>wakes, ResumingKept DEF Resuming, DrainDue
<1>4. CASE drainAgain
  BY <1>4, DrainRests DEF DrainDue
<1>5. CASE pc[Drain] \notin {"idle", "stopping"} /\ ~RunUnsettled /\ external = None /\ ~drainAgain
  <2>1. CASE DrainBreak
    <3>1. \E j \in Inputs : NextPending(j)
      BY OldestPending DEF Eligible
    <3>2. ~MayDrain
      BY <2>1, <3>1 DEF DrainBreak
    <3> QED BY <1>0, <1>5, <3>2 DEF MayDrain, Idle, GuardInv, Eligible, RunUnsettled
  <2>2. CASE SubmitRefused(Drain)
    BY <1>5, <2>2 DEF SubmitRefused, Refuses, RunUnsettled
  <2>3. CASE ReceiptLost(Drain)
    BY <1>5, <2>3 DEF ReceiptLost, BusyInv, Eligible
  <2>4. CASE Recovered
    BY <2>4 DEF Recovered, DrainDue
  <2> QED BY <1>5, <2>1, <2>2, <2>3, <2>4, DrainRests DEF DrainDue
<1> QED BY <1>1, <1>2, <1>3, <1>4, <1>5 DEF DrainDue, Resuming

\* A call that is about to claim an input does, or leaves it to a drain that is due.
LEMMA StepClaimant ==
  ASSUME WakeInv, [Next]_vars, NEW i \in Inputs, Eligible(i), Claimant(i), Eligible(i)'
  PROVE  Claimant(i)' \/ DrainDue'
<1> USE DEF WakeInv
<1>0. LocalOK /\ RecordOK
  BY DEF QInv, TypeOK, LocalOK, RecordOK
<1>1. PICK c \in Callers : pc[c] = "claim" /\ item[c] = i
  BY DEF Claimant
<1>2. CASE Claim(c)
  BY <1>0, <1>1, <1>2 DEF Claim, Eligible, RecordOK
<1>3. CASE ClaimRefused(c)
  <2>1. external # None \/ i \in handingOff
    BY <1>1, <1>3 DEF ClaimRefused, Claimable, Recovering, GuardInv, Eligible
  <2>2. CASE external # None
    BY <1>3, <2>2 DEF ClaimRefused, DrainDue
  <2>3. CASE i \in handingOff
    <3>1. PICK p \in Procs : Holds(p) /\ item[p] = i
      BY <2>3 DEF HeldInv
    <3>2. p # c
      BY <1>1, <3>1, ProcNames DEF Holds, Place
    <3>3. p = Drain
      BY <1>1, <3>1, <3>2 DEF ClaimInv, Holds, Place, Removing
    <3>4. pc[Drain] \notin {"idle", "stopping"} /\ pc'[Drain] = pc[Drain]
      <4>1. c \in Procs /\ c # Drain /\ Return(c)
        BY <1>3, ProcNames DEF ClaimRefused
      <4> QED BY <1>0, <3>1, <3>3, <4>1, ProcNames DEF Holds, Place, Return, LocalOK
    <3> QED BY <3>4 DEF DrainDue
  <2> QED BY <2>1, <2>2, <2>3
<1>4. CASE ~Claim(c) /\ ~ClaimRefused(c)
  <2>1. ~Forget
    BY DEF Eligible, Forget
  <2>2. ~Begins(c)
    BY <1>0, <1>1, BeginsKind DEF KindInv
  <2>3. ~Acts(c)
    BY <1>1, <1>4, <2>1, <2>2, ProcNames DEF Acts, CallStep, Push, Own, SelectClaim, UserRefused, Promoted,
       Promote, PromoteRefused, Quiesced, AbortCheck, AbortIntent, AbortNative, Aborted, RemoveNative,
       RemoveTooLate, RemoveCommit, ExternalAdmit, ExternalEnd, DisposeAbort, Disposed,
       HandoffStep, SubmitHandoff, SubmitRefused, RecordReceipt, Handed, ReceiptLost, AbortThrows,
       ReconcileStep, Reconcile, ReconcileRead, ReconcileCommit
  <2> QED BY <1>1, <2>1, <2>3, StepActs, ProcNames DEF Same, Claimant
<1> QED BY <1>2, <1>3, <1>4

\* An input that could not be claimed before is brought with a wake-up.
LEMMA StepEligible ==
  ASSUME WakeInv, [Next]_vars, NEW i \in Inputs, ~Eligible(i), Eligible(i)'
  PROVE  Claimant(i)' \/ DrainDue'
<1> USE DEF WakeInv
<1>0. LocalOK /\ paused \in BOOLEAN
  BY DEF QInv, TypeOK, LocalOK
<1>1. CASE phase # "open"
  <2>1. Recovered
    BY <1>1, PhaseWriters DEF Eligible, Crash, Disposed, Forget, Reopen
  <2> QED BY <2>1 DEF Recovered, DrainDue
<1>2. CASE paused
  <2>1. Resume
    BY <1>0, <1>2, PausedWriters DEF Eligible
  <2>2. ~TailEnd
    <3>1. ASSUME TailEnd PROVE FALSE
      <4>1. pc[Tailer] = "tailed" /\ pc'[Tailer] = "idle"
        BY <1>0, <3>1, ProcNames DEF TailEnd, WakeDrain, LocalOK
      <4> QED BY <1>0, <2>1, <4>1, ProcNames DEF Resume, WakeDrain, LocalOK
    <3> QED BY <3>1
  <2> QED BY <2>1, <2>2, WakesDue DEF Wakes
<1>3. CASE phase = "open" /\ ~paused
  <2>1. disp[i] # "pending" /\ disp'[i] = "pending"
    BY <1>3 DEF Eligible, GuardInv
  <2>2. disp[i] = "absent"
    BY <1>3, <2>1, PendingWriters
  <2>3. CASE \E j \in Fresh : Enqueue(j) \/ FollowUp(j)
    <3>1. WakeDrain(pc) /\ pc \in [Procs -> Labels]
      BY <1>0, <2>3 DEF Enqueue, FollowUp, RetainIdle, LocalOK
    <3> QED BY <1>0, <3>1, WokenDue DEF DrainDue
  <2>4. ASSUME NEW c \in Callers, Push(c), item[c] = i PROVE Claimant(i)'
    BY <1>0, <2>4, ProcNames DEF Push, GuardInv, Goto, LocalOK, Claimant
  <2> QED BY <2>1, <2>2, <2>3, <2>4, RetainWriters
<1> QED BY <1>1, <1>2, <1>3

\* No wake-up is lost: while an input could be claimed, the drain runs and will look
\* again, or the settlement of a run, an external operation or a resumed lane is still
\* to wake it, or the call that brought the input is about to claim it.  Crashes, failed
\* commits, overlapping passes and early resumes do not matter; user admissions do
\* (directHarnessRuntime ends some of them without a drain), and so does the unlocking of
\* an agent.
THEOREM WakeupsKept == ASSUME NoUserCalls PROVE Spec => []NoWakeupLost
<1>1. Init => WakeInv /\ NoWakeupLost
  <2> SUFFICES ASSUME Init PROVE WakeInv /\ NoWakeupLost
    OBVIOUS
  <2>1. QInv /\ RunInv /\ SelectInv /\ ExclusiveInv /\ NewInv /\ PresentInv
    BY InitQ, InitOnce DEF OnceInv
  <2>2. KindInv /\ QuiesceInv /\ GuardInv /\ AttInv /\ DrainInv /\ QuietInv /\ HeldInv /\ ClaimInv /\ FreshInv
        /\ BusyInv
    BY ProcNames DEF Init, KindInv, QuiesceInv, GuardInv, AttInv, DrainInv, DrainPlaces, Passing, Place,
       QuietInv, Quiet, HeldInv, ClaimInv, FreshInv, BusyInv, UserKinds
  <2>3. TodoInv /\ QueuedInv /\ LaterInv /\ NoWakeupLost
    BY DEF Init, LaneInit, TodoInv, NothingToDo, QueuedInv, LaterInv, NoWakeupLost, Eligible, Req
  <2> QED BY <2>1, <2>2, <2>3 DEF WakeInv
<1>2. WakeInv /\ NoWakeupLost /\ [Next]_vars => (WakeInv /\ NoWakeupLost)'
  <2> SUFFICES ASSUME WakeInv, NoWakeupLost, [Next]_vars PROVE (WakeInv /\ NoWakeupLost)'
    OBVIOUS
  <2> USE DEF WakeInv
  <2>1. /\ QInv' /\ RunInv' /\ SelectInv' /\ ExclusiveInv' /\ KindInv' /\ NewInv' /\ PresentInv'
        /\ QuiesceInv'
    BY StepQ, StepSettled, StepSelect, StepExclusive, StepKind, StepNew, StepPresent, StepQuiesce
  <2>2. TodoInv' /\ QueuedInv' /\ GuardInv' /\ AttInv' /\ LaterInv'
    BY StepTodo, StepQueued, StepGuard, StepAtt, StepLaterOvertaken
  <2>3. DrainInv' /\ QuietInv' /\ HeldInv' /\ ClaimInv' /\ FreshInv' /\ BusyInv'
    BY StepDrain, StepQuiet, StepHeld, StepClaim, StepFresh, StepBusy
  <2>4. ASSUME NEW i \in Inputs, Eligible(i)' PROVE DrainDue' \/ Claimant(i)'
    <3>1. CASE Eligible(i)
      <4>1. DrainDue \/ Claimant(i)
        BY <3>1 DEF NoWakeupLost, Claimant
      <4>2. phase' = "open"
        BY <2>4 DEF Eligible
      <4> QED BY <2>4, <3>1, <4>1, <4>2, StepDue, StepClaimant
    <3>2. CASE ~Eligible(i)
      BY <2>4, <3>2, StepEligible
    <3> QED BY <3>1, <3>2
  <2> QED BY <2>1, <2>2, <2>3, <2>4 DEF NoWakeupLost, Claimant
<1> QED BY <1>1, <1>2, PTL DEF Spec
=============================================================================
