------------------------ MODULE RetainedQueueProofs ------------------------
(***************************************************************************)
(* For any inputs, any number of calls in progress, any number of attempts *)
(* and any mishaps, whatever the calls and with or without overtaking:     *)
(* QInv is an invariant of RetainedQueue, and with it two of the safety    *)
(* properties hold.                                                        *)
(*                                                                         *)
(* The argument.  An input is inside handingOff as long as a handler is    *)
(* between its claim and the commit of its receipt; a call claims only     *)
(* outside handingOff, the drain picks only outside it, and recovery, that *)
(* does not look, runs when no call is in progress (PhaseInv) and the      *)
(* settlement chain and the tails carry nothing (ChainInv).  So no two     *)
(* handlers carry one input (HandoffInv).  A cancellation is persisted     *)
(* with the run it was aimed at; the run was placed, a later run starts    *)
(* with an input that was not, so a run that survived is recognised, and   *)
(* reopening cancels it before anything else (AbortInv).                   *)
(***************************************************************************)
EXTENDS RetainedQueue, TLAPS

\* Where p is, a reconcile pass counted as the place it returns to.
Place(p) == IF pc[p] \in {"reconcile", "reconcileCommit"} THEN ret[p] ELSE pc[p]

\* Where a pass may return to.
RetLabels == {"idle", "loop", "handed", "promoted", "recovered", "release", "tailed",
              "quiesce", "close", "aborted"}

\* Where a handler works on an input.
Carrying == {"claim", "submit", "record", "handed", "push", "own", "select", "promote", "quiesce"}
Aborting == {"abort", "abortIntent", "abortNative"}

\* A handler of kind k at l works on an input.
Needs(l, k) == l \in Carrying \/ (l \in Aborting /\ k \in {"interrupt", "select"})

\* A handler that works on an input has one, and a pass returns to a handler.
ItemInv ==
  \A p \in Procs : ret[p] \in RetLabels /\ (Needs(Place(p), kind[p]) => item[p] \in Inputs)

\* The settlement chain and the tails do nothing else, and the chain works for
\* an event that it has not released.
ChainInv ==
  /\ Place(Settle) \in {"idle", "release", "wake"}
  /\ Place(Settle) = "release" => settling > 0
  /\ pc[Settle] \in {"reconcile", "reconcileCommit"} => ret[Settle] = "release"
  /\ Place(Tailer) \in {"idle", "tailed"}
  /\ pc[Tailer] \in {"reconcile", "reconcileCommit"} => ret[Tailer] = "tailed"

\* No call is in progress while the session is down or recovering.
PhaseInv ==
  /\ phase # "open" => \A c \in Callers : pc[c] = "idle"
  /\ pc[Drain] = "recover" => phase = "recovering"

\* p is inside handoff() with its input.
Holds(p) ==
  \/ Place(p) \in {"submit", "record", "handed"}
  \/ p = Drain /\ pc[p] = "claim"

HandoffInv ==
  /\ \A p \in Procs : Holds(p) => item[p] \in handingOff
  /\ \A p, q \in Procs : Holds(p) /\ Holds(q) /\ item[p] = item[q] => p = q

\* A cancellation is aimed at a run that started, and a recovering session has
\* repeated it.
AbortInv ==
  /\ \A p \in Procs : pc[p] \in {"abort", "abortIntent"} => target[p] # None
  /\ abortTask # None => abortOp # None /\ sub[abortTask] \in Placed
  /\ runHead # None => sub[runHead] \in Placed
  /\ phase = "recovering" /\ abortTask # None /\ runHead = abortTask => runAborting

\* The inductive invariant.
QInv == TypeOK /\ ItemInv /\ ChainInv /\ PhaseInv /\ HandoffInv /\ AbortInv

-----------------------------------------------------------------------------
\* The parts of TypeOK, besides the lane's: the record, ...
RecordOK ==
  /\ disp \in [Inputs -> Dispositions]
  /\ explicit \in [Inputs -> BOOLEAN]
  /\ attempt \in [Inputs -> Attempts]
  /\ subm \in [Inputs -> Attempts \cup {NoSub}]
  /\ mode \in [Inputs -> {"steer", "reject"}]
  /\ order \in Seq(Inputs)
  /\ paused \in BOOLEAN /\ locked \in BOOLEAN
  /\ abortOp \in Req \cup {None} /\ abortTask \in Req \cup {None}

\* ... the memory of the runtime, ...
MemoryOK ==
  /\ phase \in {"open", "down", "recovering"}
  /\ admitting \in Callers \cup {None} /\ external \in Callers \cup {None}
  /\ handingOff \subseteq Inputs /\ userClaims \subseteq Inputs
  /\ settling \in Nat /\ drainAgain \in BOOLEAN
  /\ tails \subseteq Req \cup {None}
  /\ calls \in Nat /\ mishaps \in Nat
  /\ removalAsked \subseteq Inputs

\* ... and the locals of the processes.
LocalOK ==
  /\ pc \in [Procs -> Labels] /\ ret \in [Procs -> Labels]
  /\ kind \in [Procs -> AllKinds \cup {"none", "promptHeld"}]
  /\ item \in [Procs -> Inputs \cup {None}]
  /\ att \in [Procs -> Attempts]
  /\ target \in [Procs -> Req \cup {None}]
  /\ snap \in [Procs -> Attempts \cup {NoSub}]
  /\ todo \in [Procs -> [Inputs -> Attempts \cup {NoSub, Skip}]]

\* Inside a reconcile pass.
Passing == {"reconcile", "reconcileCommit"}

-----------------------------------------------------------------------------
(* The types of the locals.  One lemma for each way a handler goes on.     *)

Kind == AllKinds \cup {"none", "promptHeld"}

\* Goto at a label.
LEMMA GotoLocal ==
  ASSUME LocalOK, NEW p \in Procs, NEW l \in Labels, Goto(p, l) PROVE LocalOK'
BY DEF LocalOK, Goto

\* Reconciling, to go on at a label.
LEMMA GotoReconcileLocal ==
  ASSUME LocalOK, NEW p \in Procs, NEW l \in Labels, GotoReconcile(p, l) PROVE LocalOK'
BY DEF LocalOK, GotoReconcile, Labels

\* The end of a call.
LEMMA ReturnLocal ==
  ASSUME LocalOK, NEW p \in Procs, Return(p) PROVE LocalOK'
BY MaxAttemptAssumption DEF LocalOK, Return, Labels, Attempts, Kind

\* The start of a call.
LEMMA BeginLocal ==
  ASSUME LocalOK, NEW c \in Callers, NEW k \in Kind, NEW l \in Labels,
         NEW i \in Inputs \cup {None}, NEW o \in Req \cup {None}, Begin(c, k, l, i, o),
         snap' \in [Procs -> Attempts \cup {NoSub}]
  PROVE  LocalOK'
BY DEF LocalOK, Begin, Procs, Kind

\* Waking the drain.
LEMMA WakeLocal ==
  ASSUME LocalOK, NEW pcs \in [Procs -> Labels], WakeDrain(pcs)
  PROVE  pc' \in [Procs -> Labels] /\ ret' \in [Procs -> Labels]
BY DEF LocalOK, WakeDrain, Procs, Labels

\* The end of a drain.
LEMMA StopLocal ==
  ASSUME LocalOK, DrainStops PROVE LocalOK'
BY MaxAttemptAssumption DEF LocalOK, DrainStops, Procs, Labels, Attempts

\* Every step keeps the types of the locals.
LEMMA StepLocal ==
  ASSUME TypeOK, ItemInv, [Next]_vars PROVE LocalOK'
<1>0. LaneTypeOK /\ RecordOK /\ LocalOK
  BY DEF TypeOK, RecordOK, LocalOK
<1>frame. ASSUME UNCHANGED local PROVE LocalOK'
  BY <1>0, <1>frame DEF local, LocalOK
<1>1. CASE UNCHANGED vars
  BY <1>1, <1>frame DEF vars
<1>2. CASE CallStarts
  <2>1. CASE Resume \/ \E i \in Fresh : Enqueue(i) \/ FollowUp(i)
    <3>1. WakeDrain(pc) /\ UNCHANGED <<kind, item, att, target, snap, todo>>
      BY <2>1 DEF Enqueue, FollowUp, RetainIdle, Resume
    <3> QED
      BY <1>0, <3>1, WakeLocal DEF LocalOK
  <2>2. CASE Unlock
    BY <2>2, <1>frame DEF Unlock
  <2>3. ASSUME NEW c \in Callers, NEW i \in Inputs,
               \/ PromptStart(c, i) \/ SteerStart(c, i) \/ InterruptStart(c, i)
               \/ \E stale \in BOOLEAN : SelectStart(c, i, stale)
               \/ \E o \in {None, runHead} : PromoteStart(c, i, o)
        PROVE  LocalOK'
    <3>1. PICK k \in Kind, l \in Labels, o \in Req \cup {None} : Begin(c, k, l, i, o)
      BY <1>0, <2>3 DEF PromptStart, SteerStart, InterruptStart, SelectStart, PromoteStart,
         UserBegin, LaneTypeOK, Kind, AllKinds, Labels
    <3>2. UNCHANGED snap
      BY <2>3 DEF PromptStart, SteerStart, InterruptStart, SelectStart, PromoteStart, UserBegin
    <3> QED
      BY <1>0, <3>1, <3>2, BeginLocal DEF LocalOK
  <2>4. ASSUME NEW c \in Callers, AbortStart(c) \/ Lock(c) \/ ExternalStart(c) \/ DisposeStart(c)
        PROVE  LocalOK'
    <3>1. PICK k \in Kind, l \in Labels, o \in Req \cup {None} : Begin(c, k, l, None, o)
      BY <1>0, <2>4 DEF AbortStart, Lock, ExternalStart, DisposeStart, LaneTypeOK, Kind, AllKinds,
         Labels
    <3>2. UNCHANGED snap
      BY <2>4 DEF AbortStart, Lock, ExternalStart, DisposeStart
    <3> QED
      BY <1>0, <3>1, <3>2, BeginLocal DEF LocalOK
  <2>5. ASSUME NEW c \in Callers, NEW i \in Inputs, RemoveStart(c, i) PROVE LocalOK'
    BY <1>0, <2>5, BeginLocal DEF RemoveStart, LocalOK, RecordOK, Labels, Kind, AllKinds
  <2> QED
    BY <1>2, <2>1, <2>2, <2>3, <2>4, <2>5 DEF CallStarts, Fresh
<1>3. ASSUME NEW c \in Callers, CallStep(c) PROVE LocalOK'
  <2>0. c \in Procs
    BY DEF Procs
  <2>1. CASE ExternalEnd(c)
    BY <1>0, <2>0, <2>1, WakeLocal DEF ExternalEnd, LocalOK, Labels, Kind
  <2>2. CASE Disposed(c)
    BY <2>2, MaxAttemptAssumption DEF Disposed, Forget, LocalOK, Labels, Attempts, NothingToDo
  <2>3. CASE Push(c) \/ Own(c) \/ SelectClaim(c) \/ Quiesced(c) \/ AbortCheck(c) \/ AbortIntent(c)
             \/ RemoveNative(c) \/ ExternalAdmit(c) \/ DisposeAbort(c)
    <3>1. \E l \in Labels : Goto(c, l)
      BY <2>3 DEF Push, Own, SelectClaim, Quiesced, AbortCheck, AbortIntent, AfterAbort,
         RemoveNative, ExternalAdmit, DisposeAbort, Labels
    <3> QED
      BY <1>0, <2>0, <3>1, GotoLocal
  <2>4. CASE Promote(c) \/ AbortNative(c)
    <3>1. \E l \in Labels : GotoReconcile(c, l)
      BY <2>4 DEF Promote, AbortNative, AfterAbort, Labels
    <3> QED
      BY <1>0, <2>0, <3>1, GotoReconcileLocal
  <2>5. CASE UserRefused(c) \/ Promoted(c) \/ PromoteRefused(c) \/ Aborted(c) \/ RemoveTooLate(c)
             \/ RemoveCommit(c)
    <3>1. Return(c)
      BY <2>5 DEF UserRefused, Promoted, PromoteRefused, Aborted, RemoveTooLate, RemoveCommit
    <3> QED
      BY <1>0, <2>0, <3>1, ReturnLocal
  <2> QED
    BY <1>3, <2>1, <2>2, <2>3, <2>4, <2>5 DEF CallStep
<1>4. ASSUME NEW p \in Procs, HandoffStep(p) \/ ReceiptLost(p) \/ AbortThrows(p) PROVE LocalOK'
  <2>1. CASE Claim(p)
    <3>1. item[p] \in Inputs
      BY <2>1 DEF Claim, ItemInv, Place, Needs, Carrying
    <3> QED
      BY <1>0, <2>1, <3>1 DEF Claim, LocalOK, RecordOK, Labels
  <2>2. CASE ~Claim(p)
    <3>1. \/ \E l \in Labels : Goto(p, l) \/ GotoReconcile(p, l)
          \/ Return(p) \/ DrainStops
      BY <1>4, <2>2 DEF HandoffStep, ClaimRefused, SubmitHandoff, SubmitRefused, RecordReceipt,
         Handed, ReceiptLost, AbortThrows, HandoffThrows, Labels
    <3> QED
      BY <1>0, <3>1, GotoLocal, GotoReconcileLocal, ReturnLocal, StopLocal
  <2> QED
    BY <2>1, <2>2
<1>5. ASSUME NEW p \in Procs, ReconcileStep(p) PROVE LocalOK'
  <2>1. CASE Reconcile(p)
    BY <1>0, <2>1, GotoLocal DEF Reconcile, LocalOK
  <2>2. CASE ReconcileRead(p)
    BY <1>0, <2>2 DEF ReconcileRead, LocalOK, RecordOK, Snapshot, Labels
  <2>3. CASE ReconcileCommit(p)
    BY <1>0, <2>3 DEF ReconcileCommit, LocalOK, Labels
  <2> QED
    BY <1>5, <2>1, <2>2, <2>3 DEF ReconcileStep
<1>6. CASE DrainStep
  <2>1. CASE DrainPick \/ RecoverHandoff
    BY <1>0, <2>1 DEF DrainPick, RecoverHandoff, LocalOK, Labels, Procs
  <2>2. CASE ~(DrainPick \/ RecoverHandoff)
    <3>1. \/ \E l \in Labels : Goto(Drain, l) \/ GotoReconcile(Drain, l)
          \/ DrainStops \/ Return(Drain)
      BY <1>6, <2>2 DEF DrainStep, DrainBreak, DrainEnd, DrainAwait, RecoverReconcile, Recovered,
         Labels
    <3> QED
      BY <1>0, <3>1, GotoLocal, GotoReconcileLocal, StopLocal, ReturnLocal DEF Procs
  <2> QED
    BY <2>1, <2>2
<1>7. CASE SettleStep
  BY <1>0, <1>7, GotoReconcileLocal, GotoLocal, WakeLocal
  DEF SettleStep, SettleStart, SettleRelease, SettleWake, Procs, Labels, LocalOK
<1>8. CASE TailStep
  <2>1. CASE \E r \in Req \cup {None} : TailStart(r)
    BY <1>0, <2>1 DEF TailStart, LocalOK, Labels, Procs
  <2>2. CASE TailEnd
    BY <1>0, <2>2, WakeLocal, ZenonT(30) DEF TailEnd, LocalOK, Labels, Procs
  <2> QED
    BY <1>8, <2>1, <2>2 DEF TailStep
<1>9. CASE ObserveRunEnd \/ LanePlaces \/ LaneEnds
  BY <1>9, <1>frame DEF ObserveRunEnd, LanePlaces, LaneEnds
<1>10. CASE Reopen
  BY <1>0, <1>10, GotoLocal DEF Reopen, Procs, Labels
<1>11. CASE Crash
  BY <1>11, MaxAttemptAssumption DEF Crash, Forget, LocalOK, Labels, Attempts, NothingToDo
<1> QED
  BY <1>1, <1>2, <1>3, <1>4, <1>5, <1>6, <1>7, <1>8, <1>9, <1>10, <1>11 DEF Next, Mishap
-----------------------------------------------------------------------------
(* The native lane.  One lemma for each of its operations.                 *)

\* A live run was placed in the transcript.
HeadPlaced == runHead # None => sub[runHead] \in Placed

\* What no operation of the lane undoes: entries stay, a run starts with an input
\* that had none, and the cancellation of a run lasts as long as the run.
LaneKept ==
  /\ \A r \in Req : sub[r] \in Placed => sub'[r] \in Placed
  /\ runHead' # None => sub'[runHead'] \in Placed
  /\ runHead' \in {None, runHead} \/ sub[runHead'] \notin Placed
  /\ runAborting /\ runHead # None => runAborting' \/ runHead' # runHead

LaneGood == LaneTypeOK' /\ LaneKept

\* Handlers that do not touch the lane.
LEMMA IdleLane ==
  ASSUME LaneTypeOK, HeadPlaced, UNCHANGED native PROVE LaneGood
BY DEF LaneTypeOK, HeadPlaced, LaneGood, LaneKept, native, lane

\* conversation.submit.
LEMMA SubmitLane ==
  ASSUME LaneTypeOK, HeadPlaced, NEW r \in Req, NEW w, Submit(r, w), unseen' = unseen
  PROVE  LaneGood
<1> USE NoneAssumption DEF LaneTypeOK, HeadPlaced, LaneGood, LaneKept, Status, Placed, lane
<1>1. CASE sub[r] # "none"
  BY <1>1 DEF Submit
<1>2. CASE sub[r] = "none" /\ SubmitIdle(r)
  <2>1. PICK S \in (SUBSET (Queued \cup {r})) \ {{}} : StartRun(S, [sub EXCEPT ![r] = "queued"])
    BY <1>2 DEF SubmitIdle
  <2>2. runHead = None /\ S \subseteq Req /\ \A q \in S : sub[q] \notin Placed
    BY <1>2 DEF SubmitIdle, Queued
  <2>3. PICK h \in S : runHead' = h
    BY <2>1 DEF StartRun
  <2>4. LaneTypeOK'
    BY <2>1, <2>2, <2>3 DEF StartRun
  <2> QED
    BY <1>2, <2>1, <2>2, <2>3, <2>4 DEF StartRun
<1>3. CASE sub[r] = "none" /\ SubmitBusy(r)
  BY <1>3 DEF SubmitBusy
<1> QED
  BY <1>1, <1>2, <1>3 DEF Submit

\* conversation.abort.
LEMMA AbortLane ==
  ASSUME LaneTypeOK, HeadPlaced, Abort, unseen' = unseen PROVE LaneGood
BY NoneAssumption DEF LaneTypeOK, HeadPlaced, LaneGood, LaneKept, Status, Placed, Abort

\* harness.abortSubmission.
LEMMA WithdrawLane ==
  ASSUME LaneTypeOK, HeadPlaced, NEW r, Withdraw(r), unseen' = unseen PROVE LaneGood
BY DEF LaneTypeOK, HeadPlaced, LaneGood, LaneKept, Status, Placed, Withdraw

\* A steering boundary.
LEMMA PlaceLane ==
  ASSUME LaneTypeOK, HeadPlaced, PlaceQueued PROVE LaneGood
BY DEF LaneTypeOK, HeadPlaced, LaneGood, LaneKept, Status, Placed, PlaceQueued, Queued

\* The final boundary of a run.
LEMMA EndLane ==
  ASSUME LaneTypeOK, HeadPlaced, EndRun PROVE LaneGood
<1> USE NoneAssumption DEF LaneTypeOK, HeadPlaced, LaneGood, LaneKept, Status, Placed
<1>1. PICK outcome \in Outcomes :
        LET ended == [r \in Req |-> IF r \in runInputs THEN outcome ELSE sub[r]]
        IN \/ \E S \in (SUBSET Queued) \ {{}} : StartRun(S, ended)
           \/ /\ sub' = ended
              /\ runHead' = None
              /\ runInputs' = {}
              /\ runAborting' = FALSE
  BY DEF EndRun
<1>2. outcome \in {"done", "failed", "stopped"}
  BY DEF Outcomes
<1> DEFINE ended == [r \in Req |-> IF r \in runInputs THEN outcome ELSE sub[r]]
<1>3. unseen' \in Nat
  BY DEF EndRun
<1>4. CASE \E S \in (SUBSET Queued) \ {{}} : StartRun(S, ended)
  BY <1>2, <1>3, <1>4, ZenonT(30) DEF StartRun, Queued
<1>5. CASE sub' = ended /\ runHead' = None /\ runInputs' = {} /\ runAborting' = FALSE
  BY <1>2, <1>3, <1>5
<1> QED
  BY <1>1, <1>4, <1>5

\* Every step leaves the lane alone or takes one of its operations.
LEMMA StepLane ==
  ASSUME TypeOK, ItemInv, HeadPlaced, [Next]_vars PROVE LaneGood
<1>0. LaneTypeOK /\ RecordOK /\ MemoryOK /\ LocalOK
  BY DEF TypeOK, RecordOK, MemoryOK, LocalOK
<1>1. CASE UNCHANGED vars
  BY <1>0, <1>1, IdleLane DEF vars
<1>2. CASE CallStarts
  <2>1. UNCHANGED native
    BY <1>2 DEF CallStarts, Enqueue, FollowUp, RetainIdle, Resume, Unlock, PromptStart, SteerStart,
         InterruptStart, SelectStart, RemoveStart, PromoteStart, UserBegin, AbortStart, Lock,
         ExternalStart, DisposeStart
  <2> QED
    BY <1>0, <2>1, IdleLane
<1>3. ASSUME NEW c \in Callers, CallStep(c) PROVE LaneGood
  <2>1. CASE Promote(c)
    <3>1. <<item[c], attempt[item[c]]>> \in Req
      BY <1>0, <2>1 DEF Promote, ItemInv, Place, Needs, Carrying, RecordOK, Req, Procs
    <3> QED
      BY <1>0, <2>1, <3>1, SubmitLane DEF Promote
  <2>2. CASE AbortNative(c) \/ DisposeAbort(c)
    BY <1>0, <2>2, AbortLane DEF AbortNative, DisposeAbort
  <2>3. CASE RemoveNative(c)
    BY <1>0, <2>3, WithdrawLane DEF RemoveNative
  <2>4. CASE Disposed(c)
    BY <1>0, <2>4 DEF Disposed, Forget, LaneGood, LaneTypeOK, LaneKept, HeadPlaced, lane
  <2>5. CASE ~(Promote(c) \/ AbortNative(c) \/ DisposeAbort(c) \/ RemoveNative(c) \/ Disposed(c))
    <3>1. UNCHANGED native
      BY <1>3, <2>5 DEF CallStep, Push, Own, SelectClaim, UserRefused, Promoted, PromoteRefused,
           Quiesced, AbortCheck, AbortIntent, Aborted, RemoveTooLate, RemoveCommit, ExternalAdmit,
           ExternalEnd
    <3> QED
      BY <1>0, <3>1, IdleLane
  <2> QED
    BY <2>1, <2>2, <2>3, <2>4, <2>5
<1>4. ASSUME NEW p \in Procs, HandoffStep(p) PROVE LaneGood
  <2>1. CASE SubmitHandoff(p)
    <3>1. <<item[p], att[p]>> \in Req
      BY <1>0, <2>1 DEF SubmitHandoff, ItemInv, Place, Needs, Carrying, LocalOK, Req
    <3> QED
      BY <1>0, <2>1, <3>1, SubmitLane DEF SubmitHandoff
  <2>2. CASE ~SubmitHandoff(p)
    <3>1. UNCHANGED native
      BY <1>4, <2>2 DEF HandoffStep, Claim, ClaimRefused, SubmitRefused, HandoffThrows,
           RecordReceipt, Handed
    <3> QED
      BY <1>0, <3>1, IdleLane
  <2> QED
    BY <2>1, <2>2
<1>5. CASE (\E p \in Procs : ReconcileStep(p)) \/ DrainStep \/ SettleStep \/ TailStep
  <2>1. UNCHANGED native
    BY <1>5 DEF ReconcileStep, Reconcile, ReconcileRead, ReconcileCommit, DrainStep, DrainPick,
         DrainBreak, DrainEnd, DrainAwait, RecoverHandoff, RecoverReconcile, Recovered, SettleStep,
         SettleStart, SettleRelease, SettleWake, TailStep, TailEnd, TailStart
  <2> QED
    BY <1>0, <2>1, IdleLane
<1>6. CASE ObserveRunEnd
  BY <1>0, <1>6 DEF ObserveRunEnd, LaneGood, LaneTypeOK, LaneKept, HeadPlaced, lane
<1>7. CASE LanePlaces
  BY <1>0, <1>7, PlaceLane DEF LanePlaces
<1>8. CASE LaneEnds
  BY <1>0, <1>8, EndLane DEF LaneEnds
<1>9. CASE Reopen
  BY <1>0, <1>9, AbortLane, IdleLane DEF Reopen, native
<1>10. CASE Mishap
  <2>1. CASE Crash
    BY <1>0, <2>1 DEF Crash, Forget, LaneGood, LaneTypeOK, LaneKept, HeadPlaced, lane
  <2>2. CASE \E p \in Procs : ReceiptLost(p) \/ AbortThrows(p)
    BY <1>0, <2>2, IdleLane DEF ReceiptLost, HandoffThrows, AbortThrows
  <2> QED
    BY <1>10, <2>1, <2>2 DEF Mishap
<1> QED
  BY <1>1, <1>2, <1>3, <1>4, <1>5, <1>6, <1>7, <1>8, <1>9, <1>10 DEF Next

-----------------------------------------------------------------------------
(* The types of the record.                                                *)

idleRecord == UNCHANGED <<record, intent, locked>>

\* Handlers that commit nothing.
LEMMA IdleRecord == ASSUME RecordOK, idleRecord PROVE RecordOK'
BY DEF RecordOK, idleRecord, record, intent

\* The commits of a reconcile pass, whatever it concluded.
LEMMA ApplyRecord ==
  ASSUME RecordOK, NEW v, Apply(v), UNCHANGED <<intent, locked>> PROVE RecordOK'
<1>1. attempt' \in [Inputs -> Attempts]
  BY MaxAttemptAssumption DEF RecordOK, Apply, WithinBound, Attempts
<1> QED BY <1>1 DEF RecordOK, Apply, intent, Dispositions

\* Retention appends to the queue.
LEMMA RetainRecord ==
  ASSUME RecordOK, NEW i \in Inputs, NEW x \in BOOLEAN, Retain(i, x), UNCHANGED <<intent, locked>>
  PROVE  RecordOK'
BY DEF RecordOK, Retain, intent, Dispositions

\* A claim records one of two modes.
LEMMA WhenBusyType ==
  ASSUME RecordOK, NEW p, item[p] \in Inputs PROVE WhenBusy(p) \in {"steer", "reject"}
BY DEF RecordOK, WhenBusy

\* Every step keeps the types of the record.
LEMMA StepRecord ==
  ASSUME TypeOK, ItemInv, [Next]_vars PROVE RecordOK'
<1>0. LaneTypeOK /\ RecordOK /\ MemoryOK /\ LocalOK
  BY DEF TypeOK, RecordOK, MemoryOK, LocalOK
<1>item. ASSUME NEW p \in Procs, pc[p] \in Carrying PROVE item[p] \in Inputs
  BY <1>item DEF ItemInv, Place, Needs, Carrying
<1>1. CASE UNCHANGED vars
  BY <1>0, <1>1, IdleRecord DEF vars, idleRecord
<1>2. CASE CallStarts
  <2>1. ASSUME NEW i \in Fresh, Enqueue(i) \/ FollowUp(i) PROVE RecordOK'
    BY <1>0, <2>1, RetainRecord DEF Enqueue, FollowUp, RetainIdle, Fresh
  <2>2. CASE Resume
    BY <1>0, <2>2 DEF Resume, RecordOK, record
  <2>3. CASE Unlock \/ \E c \in Callers : Lock(c)
    BY <1>0, <2>3 DEF Unlock, Lock, RecordOK, record, intent
  <2>4. CASE \E c \in Callers :
               \/ \E i \in Fresh : PromptStart(c, i) \/ SteerStart(c, i) \/ InterruptStart(c, i)
               \/ \E i \in Inputs, stale \in BOOLEAN : SelectStart(c, i, stale)
               \/ \E i \in Inputs : RemoveStart(c, i)
               \/ \E i \in Inputs, o \in {None, runHead} : PromoteStart(c, i, o)
               \/ AbortStart(c) \/ ExternalStart(c) \/ DisposeStart(c)
    <3>1. idleRecord
      BY <2>4 DEF idleRecord, PromptStart, SteerStart, InterruptStart, SelectStart, RemoveStart,
           PromoteStart, UserBegin, AbortStart, ExternalStart, DisposeStart
    <3> QED
      BY <1>0, <3>1, IdleRecord
  <2> QED
    BY <1>2, <2>1, <2>2, <2>3, <2>4 DEF CallStarts
<1>3. ASSUME NEW c \in Callers, CallStep(c) PROVE RecordOK'
  <2>0. c \in Procs
    BY DEF Procs
  <2>1. CASE Push(c)
    BY <1>0, <1>item, <2>0, <2>1, RetainRecord DEF Push, Carrying
  <2>2. CASE Own(c)
    <3>1. WhenBusy(c) \in {"steer", "reject"}
      BY <1>0, <1>item, <2>0, <2>2, WhenBusyType DEF Own, Carrying
    <3> QED
      BY <1>0, <2>2, <3>1 DEF Own, RecordOK, intent, Dispositions
  <2>3. CASE SelectClaim(c)
    <3>1. WhenBusy(c) \in {"steer", "reject"}
      BY <1>0, <1>item, <2>0, <2>3, WhenBusyType DEF SelectClaim, Carrying
    <3> QED
      BY <1>0, <2>3, <3>1 DEF SelectClaim, RecordOK, Dispositions
  <2>4. CASE Promote(c)
    <3>1. item[c] \in Inputs /\ attempt[item[c]] \in Attempts
      BY <1>0, <1>item, <2>0, <2>4 DEF Promote, Carrying, RecordOK
    <3> QED
      BY <1>0, <2>4, <3>1 DEF Promote, RecordOK, intent, Dispositions
  <2>5. CASE AbortIntent(c)
    BY <1>0, <2>0, <2>5 DEF AbortIntent, RecordOK, LocalOK, LaneTypeOK, record
  <2>6. CASE RemoveCommit(c)
    BY <1>0, <2>6 DEF RemoveCommit, RecordOK, intent, Dispositions
  <2>7. CASE UserRefused(c) \/ Promoted(c) \/ PromoteRefused(c) \/ Quiesced(c) \/ AbortCheck(c)
             \/ AbortNative(c) \/ Aborted(c) \/ RemoveNative(c) \/ RemoveTooLate(c)
             \/ ExternalAdmit(c) \/ ExternalEnd(c) \/ DisposeAbort(c) \/ Disposed(c)
    <3>1. idleRecord
      BY <2>7 DEF idleRecord, UserRefused, Promoted, PromoteRefused, Quiesced, AbortCheck,
           AbortNative, Aborted, RemoveNative, RemoveTooLate, ExternalAdmit, ExternalEnd,
           DisposeAbort, Disposed, Forget
    <3> QED
      BY <1>0, <3>1, IdleRecord
  <2> QED
    BY <1>3, <2>1, <2>2, <2>3, <2>4, <2>5, <2>6, <2>7 DEF CallStep
<1>4. ASSUME NEW p \in Procs, HandoffStep(p) PROVE RecordOK'
  <2>1. CASE Claim(p)
    <3>1. WhenBusy(p) \in {"steer", "reject"}
      BY <1>0, <1>item, <2>1, WhenBusyType DEF Claim, Carrying
    <3> QED
      BY <1>0, <2>1, <3>1 DEF Claim, RecordOK, intent, Dispositions
  <2>2. CASE RecordReceipt(p)
    BY <1>0, <2>2 DEF RecordReceipt, RecordOK, LocalOK, intent
  <2>3. CASE ClaimRefused(p) \/ SubmitHandoff(p) \/ SubmitRefused(p) \/ Handed(p)
    <3>1. idleRecord
      BY <2>3 DEF idleRecord, ClaimRefused, SubmitHandoff, SubmitRefused, HandoffThrows, Handed
    <3> QED
      BY <1>0, <3>1, IdleRecord
  <2> QED
    BY <1>4, <2>1, <2>2, <2>3 DEF HandoffStep
<1>5. ASSUME NEW p \in Procs, ReconcileStep(p) PROVE RecordOK'
  BY <1>0, <1>5, ApplyRecord, IdleRecord
  DEF ReconcileStep, Reconcile, ReconcileRead, ReconcileCommit, idleRecord
<1>6. CASE DrainStep \/ SettleStep \/ TailStep \/ ObserveRunEnd \/ LanePlaces \/ LaneEnds \/ Reopen
           \/ Mishap
  <2>1. idleRecord
    BY <1>6 DEF idleRecord, DrainStep, DrainPick, DrainBreak, DrainEnd, DrainAwait, RecoverHandoff,
         RecoverReconcile, Recovered, SettleStep, SettleStart, SettleRelease, SettleWake,
         TailStep, TailEnd, TailStart, ObserveRunEnd, LanePlaces, LaneEnds, Reopen,
         Mishap, Crash, Forget, ReceiptLost, HandoffThrows, AbortThrows
  <2> QED
    BY <1>0, <2>1, IdleRecord
<1> QED
  BY <1>1, <1>2, <1>3, <1>4, <1>5, <1>6 DEF Next

-----------------------------------------------------------------------------
(* The types of the memory and of the bounds.                              *)

\* Waking the drain.
LEMMA WakeMemory ==
  ASSUME drainAgain \in BOOLEAN, NEW pcs, WakeDrain(pcs) PROVE drainAgain' \in BOOLEAN
BY DEF WakeDrain

\* Every step keeps the types of the memory.
LEMMA StepMemory ==
  ASSUME TypeOK, ItemInv, ChainInv, [Next]_vars PROVE MemoryOK'
<1>0. LaneTypeOK /\ RecordOK /\ MemoryOK /\ LocalOK
  BY DEF TypeOK, RecordOK, MemoryOK, LocalOK
<1>item. ASSUME NEW p \in Procs, pc[p] \in Carrying PROVE item[p] \in Inputs
  BY <1>item DEF ItemInv, Place, Needs, Carrying
<1>1. CASE UNCHANGED vars
  BY <1>0, <1>1 DEF vars, MemoryOK, memory, flow, ghost
<1> USE DEF MemoryOK, memory, flow, ghost
<1>2. CASE CallStarts
  <2>1. CASE Resume \/ \E i \in Fresh : Enqueue(i) \/ FollowUp(i)
    BY <1>0, <2>1, WakeMemory DEF Enqueue, FollowUp, RetainIdle, Call, Resume
  <2>2. CASE Unlock
    BY <1>0, <2>2 DEF Unlock, Call
  <2>3. ASSUME NEW c \in Callers,
               \/ \E i \in Fresh : PromptStart(c, i) \/ SteerStart(c, i) \/ InterruptStart(c, i)
               \/ \E i \in Inputs, stale \in BOOLEAN : SelectStart(c, i, stale)
               \/ \E i \in Inputs, o \in {None, runHead} : PromoteStart(c, i, o)
        PROVE  MemoryOK'
    BY <1>0, <2>3 DEF PromptStart, SteerStart, InterruptStart, SelectStart, PromoteStart, UserBegin,
       Begin
  <2>4. ASSUME NEW c \in Callers,
               \/ \E i \in Inputs : RemoveStart(c, i)
               \/ AbortStart(c) \/ Lock(c) \/ ExternalStart(c) \/ DisposeStart(c)
        PROVE  MemoryOK'
    BY <1>0, <2>4 DEF RemoveStart, AbortStart, Lock, ExternalStart, DisposeStart, Begin
  <2> QED
    BY <1>2, <2>1, <2>2, <2>3, <2>4 DEF CallStarts
<1>3. ASSUME NEW c \in Callers, CallStep(c) PROVE MemoryOK'
  <2>0. c \in Procs
    BY DEF Procs
  <2>1. CASE SelectClaim(c)
    BY <1>0, <1>item, <2>0, <2>1 DEF SelectClaim, Carrying
  <2>2. CASE Promote(c)
    <3>1. <<item[c], attempt[item[c]]>> \in Req
      BY <1>0, <1>item, <2>0, <2>2 DEF Promote, Carrying, RecordOK, Req
    <3> QED
      BY <1>0, <2>2, <3>1 DEF Promote
  <2>3. CASE UserRefused(c) \/ Promoted(c) \/ PromoteRefused(c)
    BY <1>0, <2>3 DEF UserRefused, Promoted, PromoteRefused, Release
  <2>4. CASE ExternalEnd(c)
    BY <1>0, <2>4, WakeMemory DEF ExternalEnd
  <2>5. CASE Disposed(c)
    BY <1>0, <2>5 DEF Disposed, Forget
  <2>6. CASE Push(c) \/ Own(c) \/ Quiesced(c) \/ AbortCheck(c) \/ AbortIntent(c) \/ AbortNative(c)
             \/ Aborted(c) \/ RemoveNative(c) \/ RemoveTooLate(c) \/ RemoveCommit(c)
             \/ ExternalAdmit(c) \/ DisposeAbort(c)
    BY <1>0, <2>6 DEF Push, Own, Quiesced, AbortCheck, AbortIntent, AbortNative, Aborted,
       RemoveNative, RemoveTooLate, RemoveCommit, ExternalAdmit, DisposeAbort
  <2> QED
    BY <1>3, <2>1, <2>2, <2>3, <2>4, <2>5, <2>6 DEF CallStep
<1>4. ASSUME NEW p \in Procs, HandoffStep(p) PROVE MemoryOK'
  <2>1. CASE Claim(p)
    BY <1>0, <1>item, <2>1 DEF Claim, Carrying
  <2>2. CASE Handed(p)
    <3>1. <<item[p], att[p]>> \in Req
      BY <1>0, <1>item, <2>2 DEF Handed, Carrying, LocalOK, Req
    <3> QED
      BY <1>0, <2>2, <3>1 DEF Handed, Release
  <2>3. CASE ClaimRefused(p) \/ SubmitHandoff(p) \/ SubmitRefused(p) \/ RecordReceipt(p)
    BY <1>0, <2>3 DEF ClaimRefused, SubmitHandoff, SubmitRefused, HandoffThrows, DrainStops,
       RecordReceipt, Release
  <2> QED
    BY <1>4, <2>1, <2>2, <2>3 DEF HandoffStep
<1>5. ASSUME NEW p \in Procs, ReconcileStep(p) PROVE MemoryOK'
  BY <1>0, <1>5 DEF ReconcileStep, Reconcile, ReconcileRead, ReconcileCommit
<1>6. CASE DrainStep
  BY <1>0, <1>6 DEF DrainStep, DrainPick, DrainBreak, DrainEnd, DrainStops, DrainAwait,
     RecoverHandoff, RecoverReconcile, Recovered
<1>7. CASE SettleStep
  <2>1. CASE SettleStart \/ SettleRelease
    BY <1>0, <2>1 DEF SettleStart, SettleRelease, ChainInv, Place
  <2>2. CASE SettleWake
    BY <1>0, <2>2, WakeMemory DEF SettleWake
  <2> QED
    BY <1>7, <2>1, <2>2 DEF SettleStep
<1>8. CASE TailStep
  BY <1>0, <1>8, WakeMemory DEF TailStep, TailStart, TailEnd
<1>9. CASE ObserveRunEnd \/ LanePlaces \/ LaneEnds \/ Reopen
  BY <1>0, <1>9 DEF ObserveRunEnd, LanePlaces, LaneEnds, Reopen
<1>10. CASE Mishap
  <2>1. CASE Crash
    <3>1. mishaps' \in Nat
      BY <1>0, <2>1 DEF Crash
    <3> QED
      BY <1>0, <2>1, <3>1 DEF Crash, Forget
  <2>2. ASSUME NEW p \in Procs, ReceiptLost(p) PROVE MemoryOK'
    <3>1. mishaps' \in Nat
      BY <1>0, <2>2 DEF ReceiptLost
    <3> QED
      BY <1>0, <2>2, <3>1 DEF ReceiptLost, HandoffThrows, DrainStops, Release
  <2>3. ASSUME NEW p \in Procs, AbortThrows(p) PROVE MemoryOK'
    BY <1>0, <2>3 DEF AbortThrows, Release
  <2> QED
    BY <1>10, <2>1, <2>2, <2>3 DEF Mishap
<1> QED
  BY <1>1, <1>2, <1>3, <1>4, <1>5, <1>6, <1>7, <1>8, <1>9, <1>10 DEF Next

-----------------------------------------------------------------------------
(* A handler that works on an input has one.                               *)

\* Goto: a handler that did not have its input may not need one at l.
LEMMA GotoItem ==
  ASSUME LocalOK, ItemInv, NEW p \in Procs, NEW l, Goto(p, l), l \notin Passing,
         Needs(l, kind[p]) => item[p] \in Inputs
  PROVE  ItemInv'
BY DEF LocalOK, ItemInv, Goto, Place, Passing

\* Reconciling, to go on at l.
LEMMA GotoReconcileItem ==
  ASSUME LocalOK, ItemInv, NEW p \in Procs, NEW l \in RetLabels, GotoReconcile(p, l),
         Needs(l, kind[p]) => item[p] \in Inputs
  PROVE  ItemInv'
BY DEF LocalOK, ItemInv, GotoReconcile, Place

\* The end of a call.
LEMMA ReturnItem ==
  ASSUME LocalOK, ItemInv, NEW p \in Procs, Return(p) PROVE ItemInv'
BY DEF LocalOK, ItemInv, Return, Place, Needs, RetLabels, Carrying, Aborting

\* The start of a call.
LEMMA BeginItem ==
  ASSUME LocalOK, ItemInv, NEW c \in Callers, NEW k, NEW l, NEW i, NEW o, Begin(c, k, l, i, o),
         l \notin Passing, Needs(l, k) => i \in Inputs
  PROVE  ItemInv'
BY DEF LocalOK, ItemInv, Begin, Place, Procs, Passing

\* Waking the drain, by a process that becomes idle if it is not.
LEMMA WakeItem ==
  ASSUME LocalOK, ItemInv, NEW pcs \in [Procs -> Labels], WakeDrain(pcs), UNCHANGED item,
         kind' \in [Procs -> Kind],
         \A q \in Procs : pcs[q] \in {pc[q], "idle"} /\ kind'[q] \in {kind[q], "none"}
  PROVE  ItemInv'
BY DEF LocalOK, ItemInv, WakeDrain, Place, Needs, Procs, RetLabels, Carrying, Aborting

\* The end of a drain.
LEMMA StopItem ==
  ASSUME LocalOK, ItemInv, DrainStops PROVE ItemInv'
BY DEF LocalOK, ItemInv, DrainStops, Place, Needs, Procs, RetLabels, Carrying, Aborting

\* The memory of the session is gone.
LEMMA ForgetItem ==
  ASSUME Forget PROVE ItemInv'
BY DEF ItemInv, Forget, Place, Needs, RetLabels, Carrying, Aborting

\* Every step keeps ItemInv.
LEMMA StepItem ==
  ASSUME TypeOK, ItemInv, [Next]_vars PROVE ItemInv'
<1>0. LaneTypeOK /\ RecordOK /\ MemoryOK /\ LocalOK
  BY DEF TypeOK, RecordOK, MemoryOK, LocalOK
<1>frame. ASSUME UNCHANGED local PROVE ItemInv'
  BY <1>frame DEF local, ItemInv, Place
<1>item. ASSUME NEW p \in Procs, Needs(pc[p], kind[p]) PROVE item[p] \in Inputs
  BY <1>item DEF ItemInv, Place, Needs, Carrying, Aborting
<1>1. CASE UNCHANGED vars
  BY <1>1, <1>frame DEF vars
<1> USE DEF Passing, Needs, Carrying, Aborting
<1>2. CASE CallStarts
  <2>1. CASE Resume \/ \E i \in Fresh : Enqueue(i) \/ FollowUp(i)
    <3>1. WakeDrain(pc) /\ UNCHANGED <<kind, item>>
      BY <2>1 DEF Enqueue, FollowUp, RetainIdle, Resume
    <3> QED
      BY <1>0, <3>1, WakeItem DEF LocalOK, Kind
  <2>2. CASE Unlock
    BY <2>2, <1>frame DEF Unlock
  <2>3. ASSUME NEW c \in Callers, NEW i \in Inputs,
               \/ PromptStart(c, i) \/ SteerStart(c, i) \/ InterruptStart(c, i) \/ RemoveStart(c, i)
               \/ \E stale \in BOOLEAN : SelectStart(c, i, stale)
               \/ \E o \in {None, runHead} : PromoteStart(c, i, o)
        PROVE  ItemInv'
    <3>1. PICK k, l, o : Begin(c, k, l, i, o) /\ l \notin Passing
      BY <2>3 DEF PromptStart, SteerStart, InterruptStart, RemoveStart, SelectStart, PromoteStart,
         UserBegin
    <3> QED
      BY <1>0, <3>1, BeginItem
  <2>4. ASSUME NEW c \in Callers, AbortStart(c) \/ Lock(c) \/ ExternalStart(c) \/ DisposeStart(c)
        PROVE  ItemInv'
    <3>1. PICK k, l, o : /\ k \in {"abort", "none", "lock", "external", "dispose"}
                         /\ l \in {"abortIntent", "idle", "abort", "exclusiveCheck", "close"}
                         /\ Begin(c, k, l, None, o)
      BY <2>4 DEF AbortStart, Lock, ExternalStart, DisposeStart
    <3> QED
      BY <1>0, <3>1, BeginItem
  <2> QED
    BY <1>2, <2>1, <2>2, <2>3, <2>4 DEF CallStarts, Fresh
<1>3. ASSUME NEW c \in Callers, CallStep(c) PROVE ItemInv'
  <2>0. c \in Procs
    BY DEF Procs
  <2>1. CASE Push(c) \/ Own(c) \/ SelectClaim(c) \/ Quiesced(c)
    <3>1. Needs(pc[c], kind[c]) /\ \E l \in Carrying \cup Aborting : Goto(c, l)
      BY <2>1 DEF Push, Own, SelectClaim, Quiesced
    <3> QED
      BY <1>0, <1>item, <2>0, <3>1, GotoItem
  <2>2. CASE AbortCheck(c) \/ AbortIntent(c)
    <3>1. PICK l : Goto(c, l) /\ l \notin Passing /\ (Needs(l, kind[c]) => item[c] \in Inputs)
      BY <2>0, <2>2, <1>item DEF AbortCheck, AbortIntent, AfterAbort
    <3> QED
      BY <1>0, <2>0, <3>1, GotoItem
  <2>3. CASE RemoveNative(c) \/ ExternalAdmit(c) \/ DisposeAbort(c)
    <3>1. PICK l \in {"removeCommit", "exclusive", "closing"} : Goto(c, l)
      BY <2>3 DEF RemoveNative, ExternalAdmit, DisposeAbort
    <3> QED
      BY <1>0, <2>0, <3>1, GotoItem
  <2>4. CASE UserRefused(c) \/ Promoted(c) \/ PromoteRefused(c) \/ Aborted(c) \/ RemoveTooLate(c)
             \/ RemoveCommit(c)
    <3>1. Return(c)
      BY <2>4 DEF UserRefused, Promoted, PromoteRefused, Aborted, RemoveTooLate, RemoveCommit
    <3> QED
      BY <1>0, <2>0, <3>1, ReturnItem
  <2>5. CASE Promote(c)
    BY <1>0, <2>0, <2>5, GotoReconcileItem DEF Promote, RetLabels
  <2>6. CASE AbortNative(c)
    <3>1. PICK l \in RetLabels :
            GotoReconcile(c, l) /\ (Needs(l, kind[c]) => item[c] \in Inputs)
      BY <2>0, <2>6, <1>item DEF AbortNative, AfterAbort, RetLabels
    <3> QED
      BY <1>0, <2>0, <3>1, GotoReconcileItem
  <2>7. CASE ExternalEnd(c)
    BY <1>0, <2>0, <2>7, WakeItem DEF ExternalEnd, LocalOK, Labels, Kind
  <2>8. CASE Disposed(c)
    BY <2>8, ForgetItem DEF Disposed
  <2> QED
    BY <1>3, <2>1, <2>2, <2>3, <2>4, <2>5, <2>6, <2>7, <2>8 DEF CallStep
<1>4. ASSUME NEW p \in Procs, HandoffStep(p) PROVE ItemInv'
  <2>1. CASE Claim(p)
    <3>1. pc[p] = "claim"
      BY <2>1 DEF Claim
    <3>2. item[p] \in Inputs
      BY <3>1, <1>item
    <3> QED
      BY <1>0, <2>1, <3>2 DEF Claim, LocalOK, ItemInv, Place
  <2>2. CASE SubmitHandoff(p)
    BY <1>0, <2>2, <1>item, GotoItem DEF SubmitHandoff
  <2>3. CASE RecordReceipt(p)
    BY <1>0, <2>3, <1>item, GotoReconcileItem DEF RecordReceipt, RetLabels
  <2>4. CASE ClaimRefused(p) \/ Handed(p)
    <3>1. Return(p) \/ \E l \in {"recover", "loop", "await"} : Goto(p, l)
      BY <2>4 DEF ClaimRefused, Handed
    <3> QED
      BY <1>0, <3>1, GotoItem, ReturnItem
  <2>5. CASE SubmitRefused(p)
    BY <1>0, <2>5, ReturnItem, StopItem DEF SubmitRefused, HandoffThrows
  <2> QED
    BY <1>4, <2>1, <2>2, <2>3, <2>4, <2>5 DEF HandoffStep
<1>5. ASSUME NEW p \in Procs, ReconcileStep(p) PROVE ItemInv'
  <2>1. pc[p] \in Passing /\ pc'[p] \in {ret[p], "reconcileCommit"} /\ UNCHANGED <<kind, item, ret>>
        /\ \A q \in Procs \ {p} : pc'[q] = pc[q]
    BY <1>0, <1>5 DEF ReconcileStep, Reconcile, ReconcileRead, ReconcileCommit, Goto, LocalOK
  <2> QED
    BY <2>1 DEF ItemInv, Place
<1>6. CASE DrainStep
  <2>1. CASE DrainPick \/ RecoverHandoff
    BY <1>0, <2>1 DEF DrainPick, RecoverHandoff, LocalOK, ItemInv, Place, Procs
  <2>2. CASE DrainBreak \/ DrainEnd
    BY <1>0, <2>2, GotoItem, StopItem DEF DrainBreak, DrainEnd, Procs
  <2>3. CASE DrainAwait \/ RecoverReconcile \/ Recovered
    BY <1>0, <2>3, GotoReconcileItem, ReturnItem DEF DrainAwait, RecoverReconcile, Recovered, Procs,
       RetLabels
  <2> QED
    BY <1>6, <2>1, <2>2, <2>3 DEF DrainStep
<1>7. CASE SettleStep
  <2>1. CASE SettleStart \/ SettleRelease
    BY <1>0, <2>1, GotoReconcileItem, GotoItem DEF SettleStart, SettleRelease, Procs, RetLabels
  <2>2. CASE SettleWake
    BY <1>0, <2>2, WakeItem DEF SettleWake, LocalOK, Labels, Kind
  <2> QED
    BY <1>7, <2>1, <2>2 DEF SettleStep
<1>8. CASE TailStep
  <2>1. CASE \E r \in Req \cup {None} : TailStart(r)
    BY <1>0, <2>1 DEF TailStart, LocalOK, ItemInv, Place, Procs, RetLabels
  <2>2. CASE TailEnd /\ WakeDrain([pc EXCEPT ![Tailer] = "idle"])
    BY <1>0, <2>2, WakeItem DEF TailEnd, LocalOK, Labels, Kind
  <2>3. CASE TailEnd /\ pc' = [pc EXCEPT ![Tailer] = "idle"] /\ UNCHANGED ret
    BY <1>0, <2>3 DEF TailEnd, LocalOK, ItemInv, Place, Procs
  <2> QED
    BY <1>8, <2>1, <2>2, <2>3 DEF TailStep, TailEnd
<1>9. CASE ObserveRunEnd \/ LanePlaces \/ LaneEnds
  BY <1>9, <1>frame DEF ObserveRunEnd, LanePlaces, LaneEnds
<1>10. CASE Reopen
  BY <1>0, <1>10, GotoItem DEF Reopen, Procs
<1>11. CASE Mishap
  <2>1. CASE Crash
    BY <2>1, ForgetItem DEF Crash
  <2>2. ASSUME NEW p \in Procs, ReceiptLost(p) PROVE ItemInv'
    BY <1>0, <2>2, ReturnItem, StopItem DEF ReceiptLost, HandoffThrows
  <2>3. ASSUME NEW p \in Procs, AbortThrows(p) PROVE ItemInv'
    BY <1>0, <2>3, ReturnItem, GotoItem DEF AbortThrows
  <2> QED
    BY <1>11, <2>1, <2>2, <2>3 DEF Mishap
<1> QED
  BY <1>1, <1>2, <1>3, <1>4, <1>5, <1>6, <1>7, <1>8, <1>9, <1>10, <1>11 DEF Next
-----------------------------------------------------------------------------
(* The settlement chain and the tails.                                     *)

Chain == {Settle, Tailer}

\* The step of another process, which may bring one more event.
ChainStays ==
  /\ \A q \in Chain : pc'[q] = pc[q] /\ ret'[q] = ret[q]
  /\ settling' \in {settling, settling + 1}

\* What another process does leaves ChainInv alone.
LEMMA ChainKept == ASSUME MemoryOK, ChainInv, ChainStays PROVE ChainInv'
BY DEF MemoryOK, ChainInv, ChainStays, Chain, Place

\* A step that moves only the process p, or wakes the drain.
LEMMA OthersStay ==
  ASSUME LocalOK, NEW p \in Procs \ Chain,
         \/ \E l : Goto(p, l) \/ GotoReconcile(p, l)
         \/ Return(p) \/ DrainStops
         \/ \E k, l, i, o : Begin(p, k, l, i, o)
         \/ WakeDrain(pc) \/ WakeDrain([pc EXCEPT ![p] = "idle"]),
         settling' \in {settling, settling + 1}
  PROVE  ChainStays
<1> USE DEF LocalOK, ChainStays, Chain, Procs
<1>1. CASE \E l : Goto(p, l) \/ GotoReconcile(p, l)
  BY <1>1 DEF Goto, GotoReconcile
<1>2. CASE Return(p) \/ \E k, l, i, o : Begin(p, k, l, i, o)
  BY <1>2 DEF Return, Begin
<1>3. CASE DrainStops \/ WakeDrain(pc) \/ WakeDrain([pc EXCEPT ![p] = "idle"])
  BY <1>3 DEF DrainStops, WakeDrain, Drain, Settle, Tailer
<1> QED
  BY <1>1, <1>2, <1>3

\* Every step keeps ChainInv.
LEMMA StepChain ==
  ASSUME TypeOK, ItemInv, ChainInv, [Next]_vars PROVE ChainInv'
<1>0. LaneTypeOK /\ RecordOK /\ MemoryOK /\ LocalOK
  BY DEF TypeOK, RecordOK, MemoryOK, LocalOK
<1>frame. ASSUME UNCHANGED local, settling' \in {settling, settling + 1} PROVE ChainStays
  BY <1>frame DEF local, ChainStays
<1>callers. Callers \subseteq Procs \ Chain /\ Drain \in Procs \ Chain
  BY CallersAssumption DEF Procs, Chain, Drain, Settle, Tailer
<1>1. CASE UNCHANGED vars
  BY <1>0, <1>1, <1>frame, ChainKept DEF vars, flow
<1>2. CASE CallStarts
  <2>1. CASE Resume \/ \E i \in Fresh : Enqueue(i) \/ FollowUp(i)
    <3>1. WakeDrain(pc) /\ settling' = settling
      BY <2>1 DEF Enqueue, FollowUp, RetainIdle, Resume
    <3> QED
      BY <1>0, <1>callers, <3>1, OthersStay, ChainKept
  <2>2. CASE Unlock
    BY <1>0, <2>2, <1>frame, ChainKept DEF Unlock, flow
  <2>3. ASSUME NEW c \in Callers,
               \/ \E i \in Fresh : PromptStart(c, i) \/ SteerStart(c, i) \/ InterruptStart(c, i)
               \/ \E i \in Inputs, stale \in BOOLEAN : SelectStart(c, i, stale)
               \/ \E i \in Inputs : RemoveStart(c, i)
               \/ \E i \in Inputs, o \in {None, runHead} : PromoteStart(c, i, o)
               \/ AbortStart(c) \/ Lock(c) \/ ExternalStart(c) \/ DisposeStart(c)
        PROVE  ChainInv'
    <3>1. (\E k, l, i, o : Begin(c, k, l, i, o)) /\ settling' = settling
      BY <2>3 DEF PromptStart, SteerStart, InterruptStart, SelectStart, RemoveStart, PromoteStart,
         UserBegin, AbortStart, Lock, ExternalStart, DisposeStart, flow
    <3> QED
      BY <1>0, <1>callers, <3>1, OthersStay, ChainKept
  <2> QED
    BY <1>2, <2>1, <2>2, <2>3 DEF CallStarts
<1>3. ASSUME NEW c \in Callers, CallStep(c) PROVE ChainInv'
  <2>1. CASE Disposed(c)
    BY <2>1 DEF Disposed, Forget, ChainInv, Place, Procs
  <2>2. CASE ~Disposed(c)
    <3>1. \/ \E l : Goto(c, l) \/ GotoReconcile(c, l)
          \/ Return(c) \/ WakeDrain([pc EXCEPT ![c] = "idle"])
      BY <1>3, <2>2 DEF CallStep, Push, Own, SelectClaim, UserRefused, Promote, Promoted,
         PromoteRefused, Quiesced, AbortCheck, AbortIntent, AbortNative, Aborted, RemoveNative,
         RemoveTooLate, RemoveCommit, ExternalAdmit, ExternalEnd, DisposeAbort
    <3>2. settling' = settling
      BY <1>3, <2>2 DEF CallStep, Push, Own, SelectClaim, UserRefused, Promote, Promoted,
         PromoteRefused, Quiesced, AbortCheck, AbortIntent, AbortNative, Aborted, RemoveNative,
         RemoveTooLate, RemoveCommit, ExternalAdmit, ExternalEnd, DisposeAbort, flow
    <3> QED
      BY <1>0, <1>callers, <3>1, <3>2, OthersStay, ChainKept
  <2> QED
    BY <2>1, <2>2
<1>4. ASSUME NEW p \in Procs, HandoffStep(p) \/ ReceiptLost(p) \/ AbortThrows(p) PROVE ChainInv'
  <2>1. pc[p] \in {"claim", "submit", "record", "handed", "abortNative"}
    BY <1>4 DEF HandoffStep, Claim, ClaimRefused, SubmitHandoff, SubmitRefused, RecordReceipt,
       Handed, ReceiptLost, AbortThrows
  <2>2. p \notin Chain
    BY <2>1 DEF ChainInv, Place, Chain
  <2>3. CASE Claim(p)
    BY <1>0, <2>2, <2>3, ChainKept DEF Claim, ChainStays, Chain, flow
  <2>4. CASE ~Claim(p)
    <3>1. settling' = settling
      BY <1>4, <2>4 DEF HandoffStep, ClaimRefused, SubmitHandoff, SubmitRefused, RecordReceipt,
         Handed, ReceiptLost, AbortThrows, HandoffThrows, flow
    <3>2. (\E l : Goto(p, l) \/ GotoReconcile(p, l)) \/ Return(p) \/ DrainStops
      BY <1>4, <2>4 DEF HandoffStep, ClaimRefused, SubmitHandoff, SubmitRefused, RecordReceipt,
         Handed, ReceiptLost, AbortThrows, HandoffThrows
    <3> QED
      BY <1>0, <2>2, <3>1, <3>2, OthersStay, ChainKept
  <2> QED
    BY <2>3, <2>4
<1>5. ASSUME NEW p \in Procs, ReconcileStep(p) PROVE ChainInv'
  <2>1. pc[p] \in Passing /\ pc'[p] \in {ret[p], "reconcileCommit"} /\ UNCHANGED ret
        /\ \A q \in Procs \ {p} : pc'[q] = pc[q]
    BY <1>0, <1>5 DEF ReconcileStep, Reconcile, ReconcileRead, ReconcileCommit, Goto, LocalOK, Passing
  <2>2. settling' = settling
    BY <1>5 DEF ReconcileStep, Reconcile, ReconcileRead, ReconcileCommit, flow
  <2> QED
    BY <2>1, <2>2 DEF ChainInv, Place, Procs, Passing
<1>6. CASE DrainStep
  <2>1. settling' = settling
    BY <1>6 DEF DrainStep, DrainPick, DrainBreak, DrainEnd, DrainAwait, RecoverHandoff,
       RecoverReconcile, Recovered, flow
  <2>2. CASE DrainPick \/ RecoverHandoff
    BY <1>0, <2>1, <2>2, ChainKept DEF DrainPick, RecoverHandoff, ChainStays, Chain,
       LocalOK, Procs, Drain, Settle, Tailer
  <2>3. CASE ~(DrainPick \/ RecoverHandoff)
    <3>1. (\E l : Goto(Drain, l) \/ GotoReconcile(Drain, l)) \/ Return(Drain) \/ DrainStops
      BY <1>6, <2>3 DEF DrainStep, DrainBreak, DrainEnd, DrainAwait, RecoverReconcile, Recovered
    <3> QED
      BY <1>0, <1>callers, <2>1, <3>1, OthersStay, ChainKept
  <2> QED
    BY <2>2, <2>3
<1>7. CASE SettleStep
  <2> USE <1>0 DEF MemoryOK, LocalOK, ChainInv, Place, Procs, Drain, Settle, Tailer
  <2>1. CASE SettleStart
    BY <2>1 DEF SettleStart, GotoReconcile, flow
  <2>2. CASE SettleRelease
    BY <2>2 DEF SettleRelease, Goto
  <2>3. CASE SettleWake
    BY <2>3 DEF SettleWake, WakeDrain
  <2> QED
    BY <1>7, <2>1, <2>2, <2>3 DEF SettleStep
<1>8. CASE TailStep
  <2> USE <1>0 DEF MemoryOK, LocalOK, ChainInv, Place, Procs, Drain, Settle, Tailer
  <2>1. CASE \E r \in Req \cup {None} : TailStart(r)
    BY <2>1 DEF TailStart
  <2>2. CASE TailEnd
    BY <2>2 DEF TailEnd, WakeDrain
  <2> QED
    BY <1>8, <2>1, <2>2 DEF TailStep
<1>9. CASE ObserveRunEnd \/ LanePlaces \/ LaneEnds
  BY <1>0, <1>9, <1>frame, ChainKept DEF ObserveRunEnd, LanePlaces, LaneEnds, flow
<1>10. CASE Reopen
  <2>1. Goto(Drain, "recover") /\ settling' = settling
    BY <1>10 DEF Reopen, flow
  <2> QED
    BY <1>0, <1>callers, <2>1, OthersStay, ChainKept
<1>11. CASE Crash
  BY <1>11 DEF Crash, Forget, ChainInv, Place, Procs
<1> QED
  BY <1>1, <1>2, <1>3, <1>4, <1>5, <1>6, <1>7, <1>8, <1>9, <1>10, <1>11 DEF Next, Mishap
-----------------------------------------------------------------------------
(* No call in a session that is down or recovering.                        *)

\* A step of a running session that does not send the drain into recovery.
LEMMA OpenPhase ==
  ASSUME PhaseInv, phase = "open", phase' = phase, pc'[Drain] \in {pc[Drain], "reconcile"}
  PROVE  PhaseInv'
BY DEF PhaseInv

\* A step of the runtime's own processes.
CallersStay == \A c \in Callers : pc'[c] = pc[c]

\* Such a step keeps PhaseInv if the drain recovers only in a recovering session.
LEMMA RuntimePhase ==
  ASSUME PhaseInv, CallersStay, phase' = phase,
         pc'[Drain] = "recover" => pc[Drain] = "recover" \/ phase = "recovering"
  PROVE  PhaseInv'
BY DEF PhaseInv, CallersStay

\* What the runtime's own processes do moves no call.
LEMMA RuntimeStep ==
  ASSUME LocalOK, NEW p \in {Drain, Settle, Tailer},
         \/ \E l : Goto(p, l) \/ GotoReconcile(p, l)
         \/ Return(p) \/ DrainStops
         \/ WakeDrain([pc EXCEPT ![p] = "idle"])
  PROVE  CallersStay
<1> USE CallersAssumption DEF LocalOK, CallersStay, Procs, Drain, Settle, Tailer
<1>1. CASE \E l : Goto(p, l) \/ GotoReconcile(p, l)
  BY <1>1 DEF Goto, GotoReconcile
<1>2. CASE Return(p)
  BY <1>2 DEF Return
<1>3. CASE DrainStops \/ WakeDrain([pc EXCEPT ![p] = "idle"])
  BY <1>3 DEF DrainStops, WakeDrain
<1> QED
  BY <1>1, <1>2, <1>3

\* The step of a call moves the drain only to wake it.
LEMMA CallMoves ==
  ASSUME LocalOK, NEW c \in Callers,
         \/ \E l : Goto(c, l) \/ GotoReconcile(c, l)
         \/ Return(c)
         \/ \E k, l, i, o : Begin(c, k, l, i, o)
         \/ WakeDrain(pc) \/ WakeDrain([pc EXCEPT ![c] = "idle"])
  PROVE  pc'[Drain] \in {pc[Drain], "reconcile"}
<1> USE CallersAssumption DEF LocalOK, Procs, Drain
<1>1. CASE \E l : Goto(c, l) \/ GotoReconcile(c, l)
  BY <1>1 DEF Goto, GotoReconcile
<1>2. CASE Return(c) \/ \E k, l, i, o : Begin(c, k, l, i, o)
  BY <1>2 DEF Return, Begin
<1>3. CASE WakeDrain(pc) \/ WakeDrain([pc EXCEPT ![c] = "idle"])
  BY <1>3 DEF WakeDrain
<1> QED
  BY <1>1, <1>2, <1>3

\* After a crash or a dispose nothing is in progress.
LEMMA ForgetPhase == ASSUME Forget PROVE PhaseInv'
BY DEF Forget, PhaseInv, Procs

\* A started call runs only in an open session.
LEMMA CallOpen ==
  ASSUME LocalOK, PhaseInv, NEW c \in Callers, pc[c] # "idle" PROVE phase = "open"
BY DEF PhaseInv

\* Every step keeps PhaseInv.
LEMMA StepPhase ==
  ASSUME TypeOK, ItemInv, ChainInv, PhaseInv, [Next]_vars PROVE PhaseInv'
<1>0. LaneTypeOK /\ RecordOK /\ MemoryOK /\ LocalOK
  BY DEF TypeOK, RecordOK, MemoryOK, LocalOK
<1>1. CASE UNCHANGED vars
  BY <1>1 DEF vars, local, PhaseInv
<1>2. CASE CallStarts
  <2>1. phase = "open" /\ phase' = phase
    BY <1>2 DEF CallStarts, Enqueue, FollowUp, RetainIdle, Call, Resume, Unlock, PromptStart,
       SteerStart, InterruptStart, SelectStart, RemoveStart, PromoteStart, UserBegin, AbortStart,
       Lock, ExternalStart, DisposeStart, Begin
  <2>2. CASE Unlock
    BY <2>1, <2>2, OpenPhase DEF Unlock, local
  <2>3. CASE Resume \/ \E i \in Fresh : Enqueue(i) \/ FollowUp(i)
    <3>1. WakeDrain(pc)
      BY <2>3 DEF Enqueue, FollowUp, RetainIdle, Resume
    <3>2. pc'[Drain] \in {pc[Drain], "reconcile"}
      BY <1>0, <3>1 DEF WakeDrain, LocalOK, Procs
    <3> QED
      BY <2>1, <3>2, OpenPhase
  <2>4. ASSUME NEW c \in Callers,
               \/ \E i \in Fresh : PromptStart(c, i) \/ SteerStart(c, i) \/ InterruptStart(c, i)
               \/ \E i \in Inputs, stale \in BOOLEAN : SelectStart(c, i, stale)
               \/ \E i \in Inputs : RemoveStart(c, i)
               \/ \E i \in Inputs, o \in {None, runHead} : PromoteStart(c, i, o)
               \/ AbortStart(c) \/ Lock(c) \/ ExternalStart(c) \/ DisposeStart(c)
        PROVE  PhaseInv'
    <3>1. \E k, l, i, o : Begin(c, k, l, i, o)
      BY <2>4 DEF PromptStart, SteerStart, InterruptStart, SelectStart, RemoveStart, PromoteStart,
         UserBegin, AbortStart, Lock, ExternalStart, DisposeStart
    <3> QED
      BY <1>0, <2>1, <3>1, CallMoves, OpenPhase
  <2> QED
    BY <1>2, <2>2, <2>3, <2>4 DEF CallStarts
<1>3. ASSUME NEW c \in Callers, CallStep(c) PROVE PhaseInv'
  <2>1. CASE Disposed(c)
    BY <2>1, ForgetPhase DEF Disposed
  <2>2. CASE ~Disposed(c)
    <3> USE <1>3, <2>2 DEF CallStep, Push, Own, SelectClaim, UserRefused, Promote, Promoted,
         PromoteRefused, Quiesced, AbortCheck, AbortIntent, AbortNative, Aborted, RemoveNative,
         RemoveTooLate, RemoveCommit, ExternalAdmit, ExternalEnd, DisposeAbort
    <3>1. \/ \E l : Goto(c, l) \/ GotoReconcile(c, l)
          \/ Return(c) \/ WakeDrain([pc EXCEPT ![c] = "idle"])
      OBVIOUS
    <3>2. phase' = phase /\ pc[c] # "idle"
      OBVIOUS
    <3> QED
      BY ONLY <1>0, <1>3, <3>1, <3>2, PhaseInv, CallMoves, CallOpen, OpenPhase
  <2> QED
    BY <2>1, <2>2
<1>4. ASSUME NEW p \in Procs, HandoffStep(p) \/ ReceiptLost(p) \/ AbortThrows(p) PROVE PhaseInv'
  <2>1. pc[p] \in {"claim", "submit", "record", "handed", "abortNative"}
    BY <1>4 DEF HandoffStep, Claim, ClaimRefused, SubmitHandoff, SubmitRefused, RecordReceipt,
       Handed, ReceiptLost, AbortThrows
  <2>2. p \in Callers \/ p = Drain
    BY <2>1 DEF ChainInv, Place, Procs
  <2>3. CASE p \in Callers
    <3>1. phase = "open"
      BY <1>0, <2>1, <2>3, CallOpen
    <3>2. p # Drain
      BY <2>3, CallersAssumption
    <3>3. phase' = phase
      BY <1>4, <3>2 DEF HandoffStep, Claim, ClaimRefused, SubmitHandoff, SubmitRefused,
         RecordReceipt, Handed, ReceiptLost, AbortThrows, HandoffThrows
    <3>4. CASE Claim(p)
      BY <1>0, <3>1, <3>2, <3>3, <3>4, OpenPhase DEF Claim, LocalOK, Procs
    <3>5. CASE ~Claim(p)
      <4>1. (\E l : Goto(p, l) \/ GotoReconcile(p, l)) \/ Return(p)
        BY <1>4, <3>2, <3>5 DEF HandoffStep, ClaimRefused, SubmitHandoff, SubmitRefused,
           RecordReceipt, Handed, ReceiptLost, AbortThrows, HandoffThrows
      <4> QED
        BY <1>0, <2>3, <3>1, <3>3, <4>1, CallMoves, OpenPhase
    <3> QED
      BY <3>4, <3>5
  <2>4. CASE p = Drain
    <3>1. CASE Claim(p)
      BY <1>0, <2>4, <3>1, CallersAssumption, RuntimePhase
      DEF Claim, CallersStay, LocalOK, Procs
    <3>2. CASE SubmitRefused(p) \/ ReceiptLost(p)
      <4>1. Return(p) \/ DrainStops
        BY <2>4, <3>2 DEF SubmitRefused, ReceiptLost, HandoffThrows
      <4>2. CallersStay
        BY <1>0, <2>4, <4>1, RuntimeStep
      <4>3. pc'[Drain] # "recover"
        BY <1>0, <2>4, <4>1 DEF Return, DrainStops, LocalOK, Procs
      <4>4. phase' = phase \/ phase = "recovering"
        BY <3>2 DEF SubmitRefused, ReceiptLost, HandoffThrows
      <4> QED
        BY <4>2, <4>3, <4>4 DEF PhaseInv, CallersStay
    <3>3. CASE ~(Claim(p) \/ SubmitRefused(p) \/ ReceiptLost(p))
      <4>1. (\E l : Goto(p, l) \/ GotoReconcile(p, l)) \/ Return(p)
        BY <1>4, <2>4, <3>3 DEF HandoffStep, ClaimRefused, SubmitHandoff, RecordReceipt, Handed,
           AbortThrows
      <4>2. phase' = phase
        BY <1>4, <2>4, <3>3 DEF HandoffStep, ClaimRefused, SubmitHandoff, RecordReceipt, Handed,
           AbortThrows
      <4>3. pc'[Drain] = "recover" => phase = "recovering"
        BY <1>0, <1>4, <2>4, <3>3 DEF HandoffStep, ClaimRefused, SubmitHandoff, RecordReceipt,
           Handed, AbortThrows, Goto, GotoReconcile, Return, LocalOK, Procs
      <4> QED
        BY <1>0, <2>4, <4>1, <4>2, <4>3, RuntimeStep, RuntimePhase
    <3> QED
      BY <3>1, <3>2, <3>3
  <2> QED
    BY <2>2, <2>3, <2>4
<1>5. ASSUME NEW p \in Procs, ReconcileStep(p) PROVE PhaseInv'
  <2>1. /\ pc[p] \in Passing /\ pc'[p] \in {ret[p], "reconcileCommit"}
        /\ \A q \in Procs \ {p} : pc'[q] = pc[q]
    BY <1>0, <1>5 DEF ReconcileStep, Reconcile, ReconcileRead, ReconcileCommit, Goto, LocalOK,
       Passing
  <2>2. phase' = phase
    BY <1>5 DEF ReconcileStep, Reconcile, ReconcileRead, ReconcileCommit
  <2>3. ret[p] # "recover"
    BY DEF ItemInv, RetLabels
  <2> QED
    BY <2>1, <2>2, <2>3, CallersAssumption DEF PhaseInv, Procs, Passing
<1>6. CASE DrainStep
  <2>1. CASE DrainPick \/ RecoverHandoff
    BY <1>0, <2>1, CallersAssumption, RuntimePhase
    DEF DrainPick, RecoverHandoff, CallersStay, LocalOK, Procs
  <2>2. CASE DrainBreak \/ DrainEnd \/ DrainAwait \/ RecoverReconcile
    <3>1. (\E l \in {"stopping"} : Goto(Drain, l)) \/ (\E l : GotoReconcile(Drain, l)) \/ DrainStops
      BY <2>2 DEF DrainBreak, DrainEnd, DrainAwait, RecoverReconcile
    <3>2. phase' = phase
      BY <2>2 DEF DrainBreak, DrainEnd, DrainAwait, RecoverReconcile
    <3>3. CallersStay
      BY <1>0, <3>1, RuntimeStep
    <3>4. pc'[Drain] # "recover"
      BY <1>0, <3>1 DEF Goto, GotoReconcile, DrainStops, LocalOK, Procs
    <3> QED
      BY <3>2, <3>3, <3>4, RuntimePhase
  <2>3. CASE Recovered
    BY <1>0, <2>3 DEF Recovered, Return, PhaseInv, LocalOK, Procs
  <2> QED
    BY <1>6, <2>1, <2>2, <2>3 DEF DrainStep
<1>7. CASE SettleStep \/ TailStep
  <2>1. phase' = phase
    BY <1>7 DEF SettleStep, SettleStart, SettleRelease, SettleWake, TailStep, TailStart, TailEnd
  <2>2. CASE SettleStep
    <3>1. \/ \E l : Goto(Settle, l) \/ GotoReconcile(Settle, l)
          \/ WakeDrain([pc EXCEPT ![Settle] = "idle"])
      BY <2>2 DEF SettleStep, SettleStart, SettleRelease, SettleWake
    <3>2. pc'[Drain] \in {pc[Drain], "reconcile"}
      BY <1>0, <3>1 DEF Goto, GotoReconcile, WakeDrain, LocalOK, Procs, Drain, Settle
    <3> QED
      BY <1>0, <2>1, <3>1, <3>2, RuntimeStep, RuntimePhase
  <2>3. CASE TailStep
    <3>1. CallersStay /\ pc'[Drain] \in {pc[Drain], "reconcile"}
      BY <1>0, <2>3, CallersAssumption DEF TailStep, TailStart, TailEnd, WakeDrain, CallersStay,
         LocalOK, Procs, Drain, Tailer
    <3> QED
      BY <2>1, <3>1, RuntimePhase
  <2> QED
    BY <1>7, <2>2, <2>3
<1>8. CASE ObserveRunEnd \/ LanePlaces \/ LaneEnds
  BY <1>8 DEF ObserveRunEnd, LanePlaces, LaneEnds, local, PhaseInv
<1>9. CASE Reopen
  <2>1. Goto(Drain, "recover") /\ phase = "down" /\ phase' = "recovering"
    BY <1>9 DEF Reopen
  <2>2. CallersStay
    BY <1>0, <2>1, RuntimeStep
  <2> QED
    BY <2>1, <2>2 DEF PhaseInv, CallersStay
<1>10. CASE Crash
  BY <1>10, ForgetPhase DEF Crash
<1> QED
  BY <1>1, <1>2, <1>3, <1>4, <1>5, <1>6, <1>7, <1>8, <1>9, <1>10 DEF Next, Mishap
-----------------------------------------------------------------------------
(* One handoff for an input.                                               *)

Within == {"submit", "record", "handed"}

\* No handler takes an input up.
Narrow == \A p \in Procs : Holds(p)' => Holds(p) /\ item'[p] = item[p]

\* ... and what leaves handingOff is what a handler let go.
LetsGo ==
  \/ handingOff' = handingOff
  \/ \E m \in Procs : Holds(m) /\ ~Holds(m)' /\ handingOff' = handingOff \ {item[m]}

\* A step that takes nothing up keeps HandoffInv.
LEMMA HandoffKept == ASSUME HandoffInv, Narrow, LetsGo PROVE HandoffInv'
BY DEF HandoffInv, Narrow, LetsGo

\* Goto takes no input up, unless it leads into a handoff.
LEMMA GotoNarrow ==
  ASSUME LocalOK, NEW p \in Procs, NEW l, Goto(p, l), l \notin Passing,
         l \in Within \/ (l = "claim" /\ p = Drain) => Holds(p)
  PROVE  Narrow
BY DEF LocalOK, Goto, Narrow, Holds, Place, Within, Passing

\* Nor does reconciling.
LEMMA GotoReconcileNarrow ==
  ASSUME LocalOK, NEW p \in Procs, NEW l, GotoReconcile(p, l), l \in Within => Holds(p)
  PROVE  Narrow
BY DEF LocalOK, GotoReconcile, Narrow, Holds, Place, Within

\* A call that returns lets its input go.
LEMMA ReturnNarrow ==
  ASSUME LocalOK, NEW p \in Procs, Return(p) PROVE Narrow /\ ~Holds(p)'
BY DEF LocalOK, Return, Narrow, Holds, Place

\* A call does not start inside a handoff.
LEMMA BeginNarrow ==
  ASSUME LocalOK, NEW c \in Callers, NEW k, NEW l, NEW i, NEW o, Begin(c, k, l, i, o),
         l \notin Passing, l \notin Within
  PROVE  Narrow
BY CallersAssumption DEF LocalOK, Begin, Narrow, Holds, Place, Within, Passing, Procs

\* A woken drain has taken nothing up.
LEMMA WakeNarrow ==
  ASSUME LocalOK, NEW pcs \in [Procs -> Labels], WakeDrain(pcs), UNCHANGED item,
         \A q \in Procs : pcs[q] \in {pc[q], "idle"}
  PROVE  Narrow
BY DEF LocalOK, WakeDrain, Narrow, Holds, Place, Procs

\* A drain that ends lets its input go.
LEMMA StopNarrow == ASSUME LocalOK, DrainStops PROVE Narrow /\ ~Holds(Drain)'
BY DEF LocalOK, DrainStops, Narrow, Holds, Place, Procs

\* After a crash or a dispose nobody holds an input.
LEMMA ForgetHandoff == ASSUME Forget PROVE HandoffInv'
BY DEF Forget, HandoffInv, Holds, Place

\* The end of a handoff, with what Release does.
LEMMA ReleaseKept ==
  ASSUME LocalOK, HandoffInv, NEW p \in Procs, Narrow, ~Holds(p)', Release(p) PROVE HandoffInv'
<1>1. LetsGo
  BY DEF LetsGo, Release, Holds, Place
<1> QED
  BY <1>1, HandoffKept

\* A handler takes up an input that no other holds.
LEMMA TakesUp ==
  ASSUME HandoffInv, NEW p \in Procs,
         handingOff' = handingOff \cup {item'[p]},
         \A q \in Procs \ {p} : /\ Holds(q)' => Holds(q) /\ item'[q] = item[q]
                                /\ Holds(q) => item[q] # item'[p]
  PROVE  HandoffInv'
BY DEF HandoffInv

\* Every step keeps HandoffInv.
LEMMA StepHandoff ==
  ASSUME TypeOK, ItemInv, ChainInv, PhaseInv, HandoffInv, [Next]_vars PROVE HandoffInv'
<1>0. LaneTypeOK /\ RecordOK /\ MemoryOK /\ LocalOK
  BY DEF TypeOK, RecordOK, MemoryOK, LocalOK
<1>frame. ASSUME UNCHANGED local, UNCHANGED handingOff PROVE HandoffInv'
  BY <1>frame DEF local, HandoffInv, Holds, Place
<1>same. ASSUME Narrow, UNCHANGED handingOff PROVE HandoffInv'
  BY <1>same, HandoffKept DEF LetsGo
<1>1. CASE UNCHANGED vars
  BY <1>1, <1>frame DEF vars, memory
<1>2. CASE CallStarts
  <2>1. UNCHANGED handingOff
    BY <1>2 DEF CallStarts, Enqueue, FollowUp, RetainIdle, Resume, Unlock, PromptStart,
       SteerStart, InterruptStart, SelectStart, RemoveStart, PromoteStart, UserBegin, AbortStart,
       Lock, ExternalStart, DisposeStart, memory
  <2>2. CASE Unlock
    BY <2>1, <2>2, <1>frame DEF Unlock
  <2>3. CASE Resume \/ \E i \in Fresh : Enqueue(i) \/ FollowUp(i)
    <3>1. WakeDrain(pc) /\ UNCHANGED item
      BY <2>3 DEF Enqueue, FollowUp, RetainIdle, Resume
    <3> QED
      BY <1>0, <1>same, <2>1, <3>1, WakeNarrow DEF LocalOK
  <2>4. ASSUME NEW c \in Callers,
               \/ \E i \in Fresh : PromptStart(c, i) \/ SteerStart(c, i) \/ InterruptStart(c, i)
               \/ \E i \in Inputs, stale \in BOOLEAN : SelectStart(c, i, stale)
               \/ \E i \in Inputs : RemoveStart(c, i)
               \/ \E i \in Inputs, o \in {None, runHead} : PromoteStart(c, i, o)
               \/ AbortStart(c) \/ Lock(c) \/ ExternalStart(c) \/ DisposeStart(c)
        PROVE  HandoffInv'
    <3>1. \E k, l, i, o : Begin(c, k, l, i, o) /\ l \notin Passing \cup Within
      BY <2>4 DEF PromptStart, SteerStart, InterruptStart, SelectStart, RemoveStart, PromoteStart,
         UserBegin, AbortStart, Lock, ExternalStart, DisposeStart, Passing, Within
    <3> QED
      BY <1>0, <1>same, <2>1, <3>1, BeginNarrow
  <2> QED
    BY <1>2, <2>2, <2>3, <2>4 DEF CallStarts
<1>3. ASSUME NEW c \in Callers, CallStep(c) PROVE HandoffInv'
  <2>0. c \in Procs /\ c # Drain
    BY CallersAssumption DEF Procs
  <2>1. CASE Push(c) \/ Own(c) \/ SelectClaim(c) \/ Quiesced(c) \/ AbortCheck(c) \/ AbortIntent(c)
             \/ RemoveNative(c) \/ ExternalAdmit(c) \/ DisposeAbort(c)
    <3>1. \E l \in {"own", "claim", "quiesce", "abort", "push", "abortIntent", "close", "aborted",
                    "abortNative", "removeCommit", "exclusive", "closing"} : Goto(c, l)
      BY <2>1 DEF Push, Own, SelectClaim, Quiesced, AbortCheck, AbortIntent, AfterAbort,
         RemoveNative, ExternalAdmit, DisposeAbort
    <3>2. UNCHANGED handingOff
      BY <2>1 DEF Push, Own, SelectClaim, Quiesced, AbortCheck, AbortIntent, RemoveNative,
         ExternalAdmit, DisposeAbort, memory
    <3> QED
      BY <1>0, <1>same, <2>0, <3>1, <3>2, GotoNarrow DEF Passing, Within
  <2>2. CASE Promote(c) \/ AbortNative(c)
    <3>1. \E l : GotoReconcile(c, l) /\ l \notin Within
      BY <2>2 DEF Promote, AbortNative, AfterAbort, Within
    <3>2. UNCHANGED handingOff
      BY <2>2 DEF Promote, AbortNative, memory
    <3> QED
      BY <1>0, <1>same, <2>0, <3>1, <3>2, GotoReconcileNarrow
  <2>3. CASE UserRefused(c) \/ Promoted(c) \/ PromoteRefused(c)
    <3>1. Return(c) /\ Release(c)
      BY <2>3 DEF UserRefused, Promoted, PromoteRefused
    <3> QED
      BY <1>0, <2>0, <3>1, ReturnNarrow, ReleaseKept
  <2>4. CASE Aborted(c) \/ RemoveTooLate(c) \/ RemoveCommit(c)
    <3>1. Return(c) /\ UNCHANGED handingOff
      BY <2>4 DEF Aborted, RemoveTooLate, RemoveCommit, memory
    <3> QED
      BY <1>0, <1>same, <2>0, <3>1, ReturnNarrow
  <2>5. CASE ExternalEnd(c)
    <3>1. WakeDrain([pc EXCEPT ![c] = "idle"]) /\ UNCHANGED <<item, handingOff>>
      BY <2>5 DEF ExternalEnd
    <3>2. Narrow
      BY <1>0, <2>0, <3>1, WakeNarrow DEF LocalOK, Labels
    <3> QED
      BY <1>same, <3>1, <3>2
  <2>6. CASE Disposed(c)
    BY <2>6, ForgetHandoff DEF Disposed
  <2> QED
    BY <1>3, <2>1, <2>2, <2>3, <2>4, <2>5, <2>6 DEF CallStep
<1>4. ASSUME NEW p \in Procs, HandoffStep(p) PROVE HandoffInv'
  <2>1. CASE Claim(p)
    <3>1. p # Drain => item[p] \notin handingOff
      BY <2>1 DEF Claim, Claimable
    <3>2. p = Drain => Holds(p)
      BY <2>1 DEF Claim, Holds
    <3>3. /\ handingOff' = handingOff \cup {item'[p]} /\ item' = item
          /\ \A q \in Procs \ {p} : pc'[q] = pc[q] /\ ret'[q] = ret[q]
      BY <1>0, <2>1 DEF Claim, LocalOK
    <3>4. \A q \in Procs \ {p} : Holds(q)' = Holds(q)
      BY <3>3 DEF Holds, Place
    <3>5. \A q \in Procs \ {p} : Holds(q) => item[q] # item[p]
      BY <3>1, <3>2 DEF HandoffInv
    <3> QED
      BY <3>3, <3>4, <3>5, TakesUp
  <2>2. CASE ClaimRefused(p)
    <3>1. CASE p = Drain
      <4>1. (\E l : Goto(p, l) /\ l \in {"recover", "loop"}) /\ pc[p] = "claim"
            /\ handingOff' = handingOff \ {item[p]}
        BY <2>2, <3>1 DEF ClaimRefused
      <4>2. Narrow
        BY <1>0, <4>1, GotoNarrow DEF Passing, Within
      <4>3. Holds(p) /\ ~Holds(p)'
        BY <1>0, <3>1, <4>1 DEF Holds, Place, Goto, LocalOK
      <4> QED
        BY <4>1, <4>2, <4>3, HandoffKept DEF LetsGo
    <3>2. CASE p # Drain
      BY <1>0, <2>2, <3>2, ReturnNarrow, ReleaseKept DEF ClaimRefused
    <3> QED
      BY <3>1, <3>2
  <2>3. CASE SubmitHandoff(p)
    <3>1. Goto(p, "record") /\ Holds(p) /\ UNCHANGED handingOff
      BY <2>3 DEF SubmitHandoff, Holds, Place, memory
    <3> QED
      BY <1>0, <1>same, <3>1, GotoNarrow DEF Passing
  <2>4. CASE RecordReceipt(p)
    <3>1. GotoReconcile(p, "handed") /\ Holds(p) /\ UNCHANGED handingOff
      BY <2>4 DEF RecordReceipt, Holds, Place, memory
    <3> QED
      BY <1>0, <1>same, <3>1, GotoReconcileNarrow
  <2>5. CASE Handed(p)
    <3>1. Holds(p)
      BY <2>5 DEF Handed, Holds, Place
    <3>2. CASE p = Drain
      <4>1. (\E l : Goto(p, l) /\ l \in {"recover", "await"}) /\ handingOff' = handingOff \ {item[p]}
        BY <2>5, <3>2 DEF Handed
      <4>2. Narrow
        BY <1>0, <4>1, GotoNarrow DEF Passing, Within
      <4>3. ~Holds(p)'
        BY <1>0, <3>2, <4>1 DEF Holds, Place, Goto, LocalOK
      <4> QED
        BY <3>1, <4>1, <4>2, <4>3, HandoffKept DEF LetsGo
    <3>3. CASE p # Drain
      BY <1>0, <2>5, <3>3, ReturnNarrow, ReleaseKept DEF Handed
    <3> QED
      BY <3>2, <3>3
  <2>6. CASE SubmitRefused(p)
    <3>1. Return(p) \/ (p = Drain /\ DrainStops)
      BY <2>6 DEF SubmitRefused, HandoffThrows
    <3>2. Narrow /\ ~Holds(p)'
      BY <1>0, <3>1, ReturnNarrow, StopNarrow
    <3> QED
      BY <1>0, <2>6, <3>2, ReleaseKept DEF SubmitRefused, HandoffThrows
  <2> QED
    BY <1>4, <2>1, <2>2, <2>3, <2>4, <2>5, <2>6 DEF HandoffStep
<1>5. ASSUME NEW p \in Procs, ReconcileStep(p) PROVE HandoffInv'
  <2>1. pc[p] \in Passing /\ pc'[p] \in {ret[p], "reconcileCommit"} /\ UNCHANGED <<ret, item>>
        /\ \A q \in Procs \ {p} : pc'[q] = pc[q]
    BY <1>0, <1>5 DEF ReconcileStep, Reconcile, ReconcileRead, ReconcileCommit, Goto, LocalOK, Passing
  <2>2. UNCHANGED handingOff
    BY <1>5 DEF ReconcileStep, Reconcile, ReconcileRead, ReconcileCommit, memory
  <2>3. ret[p] \in RetLabels
    BY DEF ItemInv
  <2>4. Narrow
    BY <2>1, <2>3 DEF Narrow, Holds, Place, Passing, RetLabels
  <2> QED
    BY <1>same, <2>2, <2>4
<1>6. CASE DrainStep
  <2>1. CASE DrainPick \/ RecoverHandoff
    <3>1. PICK i \in Inputs : /\ item' = [item EXCEPT ![Drain] = i]
                              /\ handingOff' = handingOff \cup {i}
                              /\ DrainPick => i \notin handingOff
      BY <2>1 DEF DrainPick, RecoverHandoff
    <3>2. Drain \in Procs /\ \A q \in Procs \ {Drain} : pc'[q] = pc[q] /\ ret'[q] = ret[q]
      BY <1>0, <2>1 DEF DrainPick, RecoverHandoff, LocalOK, Procs
    <3>3. \A q \in Procs \ {Drain} : (Holds(q)' <=> Holds(q)) /\ item'[q] = item[q]
      BY <1>0, <3>1, <3>2 DEF Holds, Place, LocalOK
    <3>4. item'[Drain] = i
      BY <1>0, <3>1, <3>2 DEF LocalOK
    <3>5. CASE DrainPick
      <4>1. \A q \in Procs \ {Drain} : Holds(q) => item[q] # i
        BY <3>1, <3>5 DEF HandoffInv
      <4> QED
        BY <3>1, <3>2, <3>3, <3>4, <4>1, TakesUp
    <3>6. CASE RecoverHandoff
      <4>1. \A q \in Procs \ {Drain} : ~Holds(q)
        BY <3>6 DEF RecoverHandoff, PhaseInv, ChainInv, Holds, Place, Procs
      <4> QED
        BY <3>1, <3>2, <3>3, <3>4, <4>1, TakesUp
    <3> QED
      BY <2>1, <3>5, <3>6
  <2>2. CASE DrainBreak \/ DrainEnd \/ DrainAwait \/ RecoverReconcile \/ Recovered
    <3>1. \/ Goto(Drain, "stopping") \/ (\E l \in {"loop", "recovered"} : GotoReconcile(Drain, l))
          \/ DrainStops \/ Return(Drain)
      BY <2>2 DEF DrainBreak, DrainEnd, DrainAwait, RecoverReconcile, Recovered
    <3>2. UNCHANGED handingOff
      BY <2>2 DEF DrainBreak, DrainEnd, DrainAwait, RecoverReconcile, Recovered, memory
    <3>3. Narrow
      BY <1>0, <3>1, GotoNarrow, GotoReconcileNarrow, StopNarrow, ReturnNarrow
      DEF Procs, Passing, Within
    <3> QED
      BY <1>same, <3>2, <3>3
  <2> QED
    BY <1>6, <2>1, <2>2 DEF DrainStep
<1>7. CASE SettleStep
  <2>1. UNCHANGED handingOff
    BY <1>7 DEF SettleStep, SettleStart, SettleRelease, SettleWake, memory
  <2>2. CASE SettleStart \/ SettleRelease
    BY <1>0, <1>same, <2>1, <2>2, GotoReconcileNarrow, GotoNarrow
    DEF SettleStart, SettleRelease, Procs, Passing, Within, Drain, Settle
  <2>3. CASE SettleWake
    BY <1>0, <1>same, <2>1, <2>3, WakeNarrow DEF SettleWake, LocalOK, Labels
  <2> QED
    BY <1>7, <2>2, <2>3 DEF SettleStep
<1>8. CASE TailStep
  <2>1. UNCHANGED <<item, handingOff>>
    BY <1>8 DEF TailStep, TailStart, TailEnd, memory
  <2>2. Narrow
    BY <1>0, <1>8, <2>1 DEF TailStep, TailStart, TailEnd, WakeDrain, Narrow, Holds, Place,
       LocalOK, Procs, Drain, Tailer
  <2> QED
    BY <1>same, <2>1, <2>2
<1>9. CASE ObserveRunEnd \/ LanePlaces \/ LaneEnds
  BY <1>9, <1>frame DEF ObserveRunEnd, LanePlaces, LaneEnds, memory
<1>10. CASE Reopen
  BY <1>0, <1>10, <1>same, GotoNarrow DEF Reopen, Procs, Passing, Within, memory
<1>11. CASE Mishap
  <2>1. CASE Crash
    BY <2>1, ForgetHandoff DEF Crash
  <2>2. ASSUME NEW p \in Procs, ReceiptLost(p) PROVE HandoffInv'
    <3>1. Return(p) \/ (p = Drain /\ DrainStops)
      BY <2>2 DEF ReceiptLost, HandoffThrows
    <3>2. Narrow /\ ~Holds(p)'
      BY <1>0, <3>1, ReturnNarrow, StopNarrow
    <3> QED
      BY <1>0, <2>2, <3>2, ReleaseKept DEF ReceiptLost, HandoffThrows
  <2>3. ASSUME NEW p \in Procs, AbortThrows(p) PROVE HandoffInv'
    <3>1. CASE Return(p) /\ Release(p)
      BY <1>0, <3>1, ReturnNarrow, ReleaseKept
    <3>2. CASE Goto(p, "close") /\ UNCHANGED handingOff
      BY <1>0, <1>same, <3>2, GotoNarrow DEF Passing, Within
    <3> QED
      BY <2>3, <3>1, <3>2 DEF AbortThrows
  <2> QED
    BY <1>11, <2>1, <2>2, <2>3 DEF Mishap
<1> QED
  BY <1>1, <1>2, <1>3, <1>4, <1>5, <1>6, <1>7, <1>8, <1>9, <1>10, <1>11 DEF Next
-----------------------------------------------------------------------------
(* Cancellations.                                                          *)

AbortLabels == {"abort", "abortIntent"}
Aimed == \A p \in Procs : pc[p] \in AbortLabels => target[p] # None

\* Goto, to a label where the target matters only with a target.
LEMMA GotoAimed ==
  ASSUME LocalOK, Aimed, NEW p \in Procs, NEW l, Goto(p, l), l \in AbortLabels => target[p] # None
  PROVE  Aimed'
BY DEF LocalOK, Aimed, Goto

\* Reconciling.
LEMMA GotoReconcileAimed ==
  ASSUME LocalOK, Aimed, NEW p \in Procs, NEW l, GotoReconcile(p, l) PROVE Aimed'
BY DEF LocalOK, Aimed, GotoReconcile, AbortLabels

\* The end of a call.
LEMMA ReturnAimed == ASSUME LocalOK, Aimed, NEW p \in Procs, Return(p) PROVE Aimed'
BY DEF LocalOK, Aimed, Return, AbortLabels

\* The start of a call.
LEMMA BeginAimed ==
  ASSUME LocalOK, Aimed, NEW c \in Callers, NEW k, NEW l, NEW i, NEW o, Begin(c, k, l, i, o),
         l \in AbortLabels => o # None
  PROVE  Aimed'
BY DEF LocalOK, Aimed, Begin, Procs

\* Waking the drain.
LEMMA WakeAimed ==
  ASSUME LocalOK, Aimed, NEW pcs \in [Procs -> Labels], WakeDrain(pcs), UNCHANGED target,
         \A q \in Procs : pcs[q] \in {pc[q], "idle"}
  PROVE  Aimed'
BY DEF LocalOK, Aimed, WakeDrain, AbortLabels, Procs

\* The end of a drain.
LEMMA StopAimed == ASSUME LocalOK, Aimed, DrainStops PROVE Aimed'
BY DEF LocalOK, Aimed, DrainStops, AbortLabels, Procs

\* After a crash or a dispose no abort is in progress.
LEMMA ForgetAimed == ASSUME Forget PROVE Aimed'
BY DEF Forget, Aimed, AbortLabels

\* Every abort in progress keeps its target.
LEMMA StepAimed ==
  ASSUME TypeOK, ItemInv, ChainInv, Aimed, [Next]_vars PROVE Aimed'
<1>0. LaneTypeOK /\ RecordOK /\ MemoryOK /\ LocalOK
  BY DEF TypeOK, RecordOK, MemoryOK, LocalOK
<1>frame. ASSUME UNCHANGED local PROVE Aimed'
  BY <1>frame DEF local, Aimed
<1>1. CASE UNCHANGED vars
  BY <1>1, <1>frame DEF vars
<1>2. CASE CallStarts
  <2>1. CASE Resume \/ \E i \in Fresh : Enqueue(i) \/ FollowUp(i)
    <3>1. WakeDrain(pc) /\ UNCHANGED target
      BY <2>1 DEF Enqueue, FollowUp, RetainIdle, Resume
    <3> QED
      BY <1>0, <3>1, WakeAimed DEF LocalOK
  <2>2. CASE Unlock
    BY <2>2, <1>frame DEF Unlock
  <2>3. ASSUME NEW c \in Callers,
               \/ \E i \in Fresh : PromptStart(c, i) \/ SteerStart(c, i) \/ InterruptStart(c, i)
               \/ \E i \in Inputs, stale \in BOOLEAN : SelectStart(c, i, stale)
               \/ \E i \in Inputs : RemoveStart(c, i)
               \/ \E i \in Inputs, o \in {None, runHead} : PromoteStart(c, i, o)
               \/ AbortStart(c) \/ Lock(c) \/ ExternalStart(c) \/ DisposeStart(c)
        PROVE  Aimed'
    <3>1. \E k, l, i, o : Begin(c, k, l, i, o) /\ (l \in AbortLabels => o # None)
      BY <2>3 DEF PromptStart, SteerStart, InterruptStart, SelectStart, RemoveStart, PromoteStart,
         UserBegin, AbortStart, Lock, ExternalStart, DisposeStart, AbortLabels
    <3> QED
      BY <1>0, <3>1, BeginAimed
  <2> QED
    BY <1>2, <2>1, <2>2, <2>3 DEF CallStarts
<1>3. ASSUME NEW c \in Callers, CallStep(c) PROVE Aimed'
  <2>0. c \in Procs
    BY DEF Procs
  <2>1. CASE SelectClaim(c) \/ AbortCheck(c)
    <3>1. \E l : Goto(c, l) /\ (l \in AbortLabels => target[c] # None)
      BY <2>0, <2>1 DEF SelectClaim, AbortCheck, AfterAbort, Aimed, AbortLabels
    <3> QED
      BY <1>0, <2>0, <3>1, GotoAimed
  <2>2. CASE Push(c) \/ Own(c) \/ Quiesced(c) \/ AbortIntent(c) \/ RemoveNative(c)
             \/ ExternalAdmit(c) \/ DisposeAbort(c)
    <3>1. \E l \in Labels \ AbortLabels : Goto(c, l)
      BY <2>2 DEF Push, Own, Quiesced, AbortIntent, RemoveNative, ExternalAdmit, DisposeAbort,
         AbortLabels, Labels
    <3> QED
      BY <1>0, <2>0, <3>1, GotoAimed
  <2>3. CASE UserRefused(c) \/ Promote(c) \/ Promoted(c) \/ PromoteRefused(c) \/ AbortNative(c)
             \/ Aborted(c) \/ RemoveTooLate(c) \/ RemoveCommit(c)
    <3>1. Return(c) \/ \E l : GotoReconcile(c, l)
      BY <2>3 DEF UserRefused, Promote, Promoted, PromoteRefused, AbortNative, Aborted,
         RemoveTooLate, RemoveCommit
    <3> QED
      BY <1>0, <2>0, <3>1, ReturnAimed, GotoReconcileAimed
  <2>4. CASE ExternalEnd(c)
    BY <1>0, <2>4, WakeAimed DEF ExternalEnd, LocalOK, Labels
  <2>5. CASE Disposed(c)
    BY <2>5, ForgetAimed DEF Disposed
  <2> QED
    BY <1>3, <2>1, <2>2, <2>3, <2>4, <2>5 DEF CallStep
<1>4. ASSUME NEW p \in Procs, HandoffStep(p) \/ ReceiptLost(p) \/ AbortThrows(p) PROVE Aimed'
  <2>1. CASE Claim(p)
    BY <1>0, <2>1 DEF Claim, LocalOK, Aimed, AbortLabels
  <2>2. CASE ~Claim(p)
    <3>1. \/ \E l : Goto(p, l) /\ l \notin AbortLabels
          \/ \E l : GotoReconcile(p, l)
          \/ Return(p) \/ DrainStops
      BY <1>4, <2>2 DEF HandoffStep, ClaimRefused, SubmitHandoff, SubmitRefused, RecordReceipt,
         Handed, ReceiptLost, AbortThrows, HandoffThrows, AbortLabels
    <3> QED
      BY <1>0, <3>1, GotoAimed, GotoReconcileAimed, ReturnAimed, StopAimed
  <2> QED
    BY <2>1, <2>2
<1>5. ASSUME NEW p \in Procs, ReconcileStep(p) PROVE Aimed'
  <2>1. pc'[p] \in {ret[p], "reconcileCommit"} /\ UNCHANGED target
        /\ \A q \in Procs \ {p} : pc'[q] = pc[q]
    BY <1>0, <1>5 DEF ReconcileStep, Reconcile, ReconcileRead, ReconcileCommit, Goto, LocalOK
  <2>2. ret[p] \in RetLabels
    BY DEF ItemInv
  <2> QED
    BY <2>1, <2>2 DEF Aimed, AbortLabels, RetLabels
<1>6. CASE DrainStep
  <2>1. CASE DrainPick \/ RecoverHandoff
    BY <1>0, <2>1 DEF DrainPick, RecoverHandoff, LocalOK, Aimed, AbortLabels, Procs
  <2>2. CASE ~(DrainPick \/ RecoverHandoff)
    <3>1. \/ Goto(Drain, "stopping") \/ (\E l : GotoReconcile(Drain, l))
          \/ DrainStops \/ Return(Drain)
      BY <1>6, <2>2 DEF DrainStep, DrainBreak, DrainEnd, DrainAwait, RecoverReconcile, Recovered
    <3> QED
      BY <1>0, <3>1, GotoAimed, GotoReconcileAimed, StopAimed, ReturnAimed DEF Procs, AbortLabels
  <2> QED
    BY <2>1, <2>2
<1>7. CASE SettleStep
  <2>1. CASE SettleStart \/ SettleRelease
    BY <1>0, <2>1, GotoReconcileAimed, GotoAimed DEF SettleStart, SettleRelease, Procs, AbortLabels
  <2>2. CASE SettleWake
    BY <1>0, <2>2, WakeAimed DEF SettleWake, LocalOK, Labels
  <2> QED
    BY <1>7, <2>1, <2>2 DEF SettleStep
<1>8. CASE TailStep
  BY <1>0, <1>8 DEF TailStep, TailStart, TailEnd, WakeDrain, Aimed, AbortLabels, LocalOK, Procs,
     Drain, Tailer
<1>9. CASE ObserveRunEnd \/ LanePlaces \/ LaneEnds
  BY <1>9, <1>frame DEF ObserveRunEnd, LanePlaces, LaneEnds
<1>10. CASE Reopen
  BY <1>0, <1>10, GotoAimed DEF Reopen, Procs, AbortLabels
<1>11. CASE Crash
  BY <1>11, ForgetAimed DEF Crash
<1> QED
  BY <1>1, <1>2, <1>3, <1>4, <1>5, <1>6, <1>7, <1>8, <1>9, <1>10, <1>11 DEF Next, Mishap

\* The persisted cancellation is written by an abort and cleared by a resume,
\* and the session starts to recover when it is reopened.
LEMMA IntentWriters ==
  ASSUME [Next]_vars
  PROVE  /\ UNCHANGED <<abortOp, abortTask>> \/ Resume \/ \E c \in Callers : AbortIntent(c)
         /\ phase' = "recovering" => phase = "recovering" \/ Reopen
         /\ phase = "recovering" /\ phase' = "open" => Recovered
<1> USE DEF intent
<1>1. CASE UNCHANGED vars
  BY <1>1 DEF vars
<1>2. CASE CallStarts
  BY <1>2 DEF CallStarts, Enqueue, FollowUp, RetainIdle, Resume, Unlock, PromptStart, SteerStart,
     InterruptStart, SelectStart, RemoveStart, PromoteStart, UserBegin, AbortStart, Lock,
     ExternalStart, DisposeStart
<1>3. ASSUME NEW c \in Callers, CallStep(c)
      PROVE  /\ UNCHANGED <<abortOp, abortTask>> \/ AbortIntent(c)
             /\ phase' = phase \/ phase' = "down"
  BY <1>3 DEF CallStep, Push, Own, SelectClaim, UserRefused, Promote, Promoted, PromoteRefused,
     Quiesced, AbortCheck, AbortNative, Aborted, RemoveNative, RemoveTooLate, RemoveCommit,
     ExternalAdmit, ExternalEnd, DisposeAbort, Disposed, Forget, AbortIntent
<1>4. ASSUME NEW p \in Procs, HandoffStep(p) \/ ReconcileStep(p) \/ ReceiptLost(p) \/ AbortThrows(p)
      PROVE  UNCHANGED <<abortOp, abortTask>> /\ (phase' = phase \/ phase' = "down")
  BY <1>4 DEF HandoffStep, Claim, ClaimRefused, SubmitHandoff, SubmitRefused, RecordReceipt, Handed,
     ReconcileStep, Reconcile, ReconcileRead, ReconcileCommit, ReceiptLost, AbortThrows,
     HandoffThrows
<1>5. CASE DrainStep \/ SettleStep \/ TailStep
  BY <1>5 DEF DrainStep, DrainPick, DrainBreak, DrainEnd, DrainAwait, RecoverHandoff,
     RecoverReconcile, Recovered, SettleStep, SettleStart, SettleRelease, SettleWake, TailStep,
     TailStart, TailEnd
<1>6. CASE ObserveRunEnd \/ LanePlaces \/ LaneEnds \/ Reopen \/ Crash
  BY <1>6 DEF ObserveRunEnd, LanePlaces, LaneEnds, Reopen, Crash, Forget
<1> QED
  BY <1>1, <1>2, <1>3, <1>4, <1>5, <1>6 DEF Next, Mishap

\* Every step keeps AbortInv.
LEMMA StepAbort ==
  ASSUME TypeOK, ItemInv, ChainInv, PhaseInv, AbortInv, [Next]_vars PROVE AbortInv'
<1>0. LaneTypeOK /\ RecordOK /\ LocalOK
  BY DEF TypeOK, RecordOK, LocalOK
<1>1. LaneKept
  BY StepLane DEF AbortInv, HeadPlaced, LaneGood
<1>2. Aimed'
  BY StepAimed DEF AbortInv, Aimed, AbortLabels
<1>3. abortTask' # None => abortOp' # None /\ sub'[abortTask'] \in Placed
  <2>1. CASE UNCHANGED <<abortOp, abortTask>>
    BY <1>0, <1>1, <2>1 DEF AbortInv, LaneKept, RecordOK
  <2>2. CASE Resume
    BY <2>2 DEF Resume
  <2>3. ASSUME NEW c \in Callers, AbortIntent(c)
        PROVE  abortTask' # None => abortOp' # None /\ sub'[abortTask'] \in Placed
    <3>1. abortOp' = target[c] /\ abortTask' = runHead /\ UNCHANGED native
      BY <2>3 DEF AbortIntent
    <3>2. target[c] # None
      BY <2>3 DEF AbortIntent, AbortInv, Procs
    <3> QED
      BY <3>1, <3>2 DEF AbortInv, native, lane
  <2> QED
    BY <2>1, <2>2, <2>3, IntentWriters
<1>4. runHead' # None => sub'[runHead'] \in Placed
  BY <1>1 DEF LaneKept
<1>5. ASSUME phase' = "recovering", abortTask' # None, runHead' = abortTask' PROVE runAborting'
  <2>1. CASE Reopen
    <3>1. UNCHANGED <<runHead, abortOp, abortTask>>
      BY <2>1 DEF Reopen, Abort, lane, intent
    <3> QED
      BY <1>5, <2>1, <3>1 DEF Reopen, Abort, AbortInv
  <2>2. CASE phase = "recovering"
    <3>1. ~Resume /\ \A c \in Callers : ~AbortIntent(c)
      BY <2>2 DEF Resume, AbortIntent, PhaseInv
    <3>2. UNCHANGED <<abortOp, abortTask>>
      BY <3>1, IntentWriters
    <3> QED
      BY <1>1, <1>5, <2>2, <3>2 DEF LaneKept, AbortInv
  <2> QED
    BY <1>5, <2>1, <2>2, IntentWriters
<1> QED
  BY <1>2, <1>3, <1>4, <1>5 DEF AbortInv, Aimed, AbortLabels
-----------------------------------------------------------------------------
(* The theorems.                                                           *)

\* The runtime starts in the invariant.
LEMMA InitQ == Init => QInv
<1> SUFFICES ASSUME Init PROVE QInv
  OBVIOUS
<1>1. LaneTypeOK
  BY NoneAssumption DEF Init, LaneInit, LaneTypeOK, Status
<1>2. RecordOK
  <2>1. order \in Seq(Inputs)
    BY DEF Init
  <2>2. 0 \in Attempts
    BY MaxAttemptAssumption DEF Attempts
  <2>3. /\ disp \in [Inputs -> Dispositions] /\ explicit \in [Inputs -> BOOLEAN]
        /\ attempt \in [Inputs -> Attempts] /\ subm \in [Inputs -> Attempts \cup {NoSub}]
        /\ mode \in [Inputs -> {"steer", "reject"}]
    BY <2>2 DEF Init, Dispositions
  <2> QED
    BY <2>1, <2>3 DEF Init, RecordOK
<1>3. MemoryOK
  BY DEF Init, MemoryOK
<1>4. LocalOK
  BY MaxAttemptAssumption DEF Init, LocalOK, Labels, Attempts, NothingToDo
<1>5. ItemInv /\ ChainInv /\ PhaseInv /\ HandoffInv
  BY DEF Init, ItemInv, ChainInv, PhaseInv, HandoffInv, Needs, Holds, Place, RetLabels, Carrying,
     Aborting, Procs
<1>6. AbortInv
  BY DEF Init, LaneInit, AbortInv
<1> QED
  BY <1>1, <1>2, <1>3, <1>4, <1>5, <1>6 DEF QInv, TypeOK, RecordOK, MemoryOK, LocalOK

\* Every step keeps it.
LEMMA StepQ == QInv /\ [Next]_vars => QInv'
<1> SUFFICES ASSUME QInv, [Next]_vars PROVE QInv'
  OBVIOUS
<1>0. TypeOK /\ ItemInv /\ ChainInv /\ PhaseInv /\ HandoffInv /\ AbortInv
  BY DEF QInv
<1>1. HeadPlaced
  BY <1>0 DEF AbortInv, HeadPlaced
<1>2. LaneTypeOK' /\ RecordOK' /\ MemoryOK' /\ LocalOK'
  BY <1>0, <1>1, StepLane, StepRecord, StepMemory, StepLocal DEF LaneGood
<1>3. TypeOK'
  BY <1>2 DEF TypeOK, RecordOK, MemoryOK, LocalOK
<1> QED
  BY <1>0, <1>3, StepItem, StepChain, StepPhase, StepHandoff, StepAbort DEF QInv

\* The inductive invariant holds throughout.
THEOREM QueueInvariance == Spec => []QInv
<1>1. Init => QInv
  BY InitQ
<1>2. QInv /\ [Next]_vars => QInv'
  BY StepQ
<1> QED
  BY <1>1, <1>2, PTL DEF Spec

\* Whatever the inputs, the calls, the attempts and the mishaps: every variable
\* of the runtime keeps its type.
THEOREM QueueTypeCorrectness == Spec => []TypeOK
<1>1. QInv => TypeOK
  BY DEF QInv
<1> QED
  BY <1>1, QueueInvariance, PTL

\* No two handlers are between the claim of one input and the commit of its
\* receipt: a call, a drain and a recovery never carry it twice.
THEOREM SingleHandoff == Spec => []OneHandoff
<1>1. QInv => OneHandoff
  <2> SUFFICES ASSUME QInv, NEW p \in Procs, NEW q \in Procs,
                      pc[p] \in {"submit", "record"}, pc[q] \in {"submit", "record"},
                      item[p] = item[q]
               PROVE  p = q
    BY DEF OneHandoff
  <2>1. Holds(p) /\ Holds(q)
    BY DEF Holds, Place
  <2> QED
    BY <2>1 DEF QInv, HandoffInv
<1> QED
  BY <1>1, QueueInvariance, PTL

\* A session opens only after recover() has repeated the persisted cancellation of
\* a run that survived the restart.
THEOREM CancellationRepeated == Spec => RecoveryHonoursAbort
<1>1. QInv /\ [Next]_vars =>
        [phase = "recovering" /\ phase' = "open" /\ abortTask # None /\ runHead = abortTask
           => runAborting]_vars
  BY DEF QInv, AbortInv
<1> QED
  BY <1>1, QueueInvariance, PTL DEF Spec, RecoveryHonoursAbort
=============================================================================
