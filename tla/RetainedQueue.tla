---------------------------- MODULE RetainedQueue ----------------------------
(***************************************************************************)
(* The retained input queue of one DoomPi session:                         *)
(* packages/core/doompi-core/src/server/directHarnessRuntime.ts.           *)
(*                                                                         *)
(* A user input is recorded in the durable LifecycleRecord before it is    *)
(* offered to the native lane.  The handlers are asynchronous; between two *)
(* awaits they run alone, and every changeRecord is one commit.  A step of *)
(* this module is what a handler does between two awaits that matter, so   *)
(* the steps of different calls interleave as they do in the runtime.      *)
(*                                                                         *)
(* Processes: the calls of clients (Callers), the single drain, the        *)
(* settlement chain behind run_end events, and the settlement tails of     *)
(* admitted prompts (run one after the other).                             *)
(***************************************************************************)
EXTENDS NativeLane, Sequences

CONSTANTS
  Callers,      \* concurrent client calls
  Kinds,        \* which calls the clients make, a subset of AllKinds
  MaxCalls,     \* bound: client calls in a behaviour
  MaxMishaps,   \* bound: crashes and failed commits in a behaviour
  Overtaking,   \* whether other commits may fall inside a reconcile pass
  EagerResume   \* whether a client resumes while calls are in progress

AllKinds == {"enqueue", "followUp", "prompt", "steer", "interrupt", "select", "promote",
             "abort", "resume", "remove", "lock", "external", "dispose"}

Drain == "drain"
Settle == "settle"
Tailer == "tail"
Procs == Callers \cup {Drain, Settle, Tailer}

ASSUME CallersAssumption ==
  /\ Callers \cap {Drain, Settle, Tailer} = {}
  /\ None \notin Procs
ASSUME KindsAssumption == Kinds \subseteq AllKinds
ASSUME BoundsAssumption == MaxCalls \in Nat /\ MaxMishaps \in Nat
ASSUME ChoicesAssumption == Overtaking \in BOOLEAN /\ EagerResume \in BOOLEAN

NoSub == -1   \* no recorded receipt
Skip == -2    \* not an input of the reconcile pass

VARIABLES
  \* The durable LifecycleRecord, and AgentLockDoc.
  disp,       \* disposition of each input, "absent" before it is retained
  explicit,   \* explicitQueue: the operator queue owns the input
  attempt,    \* attempt number, part of the native request identity
  subm,       \* submissionId: the attempt whose receipt is recorded, or NoSub
  mode,       \* submissionMode of the last claim
  order,      \* the queue in the order of retention
  paused,     \* the queue waits for an explicit resume
  abortOp,    \* abortOperationId
  abortTask,  \* abortTaskId: the run the cancellation was aimed at
  locked,     \* the agent lock
  \* Memory of the live runtime.
  phase,       \* "open", "down" after a crash or a dispose, "recovering"
  admitting,   \* the caller that holds userAdmission, or None
  handingOff,  \* inputs inside handoff()
  userClaims,  \* selected inputs claimed by a user admission
  external,    \* the caller that owns the lane for an external operation
  settling,    \* run_end events received and not released yet
  drainAgain,  \* drainRequested
  tails,       \* admitted requests whose settlement is awaited; None: a resume
  \* Where each process stands.
  pc, kind, item, att, target, snap, ret, todo,
  \* Bounds, and the history of removal requests.
  calls, mishaps, removalAsked

record == <<disp, explicit, attempt, subm, mode, order>>
intent == <<paused, abortOp, abortTask>>
memory == <<admitting, handingOff, userClaims, external>>
flow == <<settling, drainAgain, tails>>
local == <<pc, kind, item, att, target, snap, ret, todo>>
ghost == <<calls, mishaps, removalAsked>>
vars == <<native, record, intent, locked, phase, memory, flow, local, ghost>>

Dispositions == {"absent", "pending", "handoff", "uncertain", "consumed", "removed"}
Labels == {"idle", "reconcile", "reconcileCommit", "claim", "submit", "record", "handed",
           "promoted", "push", "own", "select", "refused", "promote", "quiesce", "abort", "abortIntent",
           "abortNative", "aborted", "removeNative", "removeCommit", "loop", "stopping", "await",
           "release", "wake", "tailed", "exclusiveCheck", "exclusive", "close", "closing",
           "recover", "recovered"}
NothingToDo == [i \in Inputs |-> Skip]
UserKinds == {"steer", "interrupt", "select", "promote"}

Init ==
  /\ LaneInit
  /\ disp = [i \in Inputs |-> "absent"]
  /\ explicit = [i \in Inputs |-> FALSE]
  /\ attempt = [i \in Inputs |-> 0]
  /\ subm = [i \in Inputs |-> NoSub]
  /\ mode = [i \in Inputs |-> "steer"]
  /\ order = <<>>
  /\ paused = FALSE /\ abortOp = None /\ abortTask = None /\ locked = FALSE
  /\ phase = "open"
  /\ admitting = None /\ handingOff = {} /\ userClaims = {} /\ external = None
  /\ settling = 0 /\ drainAgain = FALSE /\ tails = {}
  /\ pc = [p \in Procs |-> "idle"]
  /\ kind = [p \in Procs |-> "none"]
  /\ item = [p \in Procs |-> None]
  /\ att = [p \in Procs |-> 0]
  /\ target = [p \in Procs |-> None]
  /\ snap = [p \in Procs |-> NoSub]
  /\ ret = [p \in Procs |-> "idle"]
  /\ todo = [p \in Procs |-> NothingToDo]
  /\ calls = 0 /\ mishaps = 0 /\ removalAsked = {}

-----------------------------------------------------------------------------
(* Helpers *)

HasEntry(i) == \E a \in Attempts : sub[<<i, a>>] \in Placed

\* eventsSettled: every run_end received so far has been settled.
Quiet == settling = 0 /\ pc[Settle] = "idle"

\* execution() === null.
Idle == runHead = None /\ external = None /\ settling = 0

\* promptAdmissions > 0.
PromptAdmitted == \E c \in Callers : kind[c] \in {"prompt", "promptHeld"}

\* Faulty variant of WakeDrain: a running drain is not asked to go round again.
WakeDrainOnce(pcs) ==
  /\ pc' = IF pcs[Drain] = "idle" THEN [pcs EXCEPT ![Drain] = "reconcile"] ELSE pcs
  /\ ret' = IF pcs[Drain] = "idle" THEN [ret EXCEPT ![Drain] = "loop"] ELSE ret
  /\ UNCHANGED drainAgain

\* drain(): start it, or ask the running one to go round again.
WakeDrain(pcs) ==
  /\ pc' = IF pcs[Drain] = "idle" THEN [pcs EXCEPT ![Drain] = "reconcile"] ELSE pcs
  /\ drainAgain' = (drainAgain \/ pcs[Drain] # "idle")
  /\ ret' = IF pcs[Drain] = "idle" THEN [ret EXCEPT ![Drain] = "loop"] ELSE ret

\* Process p goes on at l with the rest of its locals unchanged.
Goto(p, l) ==
  /\ pc' = [pc EXCEPT ![p] = l]
  /\ UNCHANGED <<kind, item, att, target, snap, ret, todo>>

\* Process p reconciles and goes on at l.
GotoReconcile(p, l) ==
  /\ pc' = [pc EXCEPT ![p] = "reconcile"]
  /\ ret' = [ret EXCEPT ![p] = l]
  /\ UNCHANGED <<kind, item, att, target, snap, todo>>

\* The call of process p returns, and what a finally block of it releases.
Return(p) ==
  /\ pc' = [pc EXCEPT ![p] = "idle"]
  /\ kind' = [kind EXCEPT ![p] = "none"]
  /\ item' = [item EXCEPT ![p] = None]
  /\ att' = [att EXCEPT ![p] = 0]
  /\ target' = [target EXCEPT ![p] = None]
  /\ snap' = [snap EXCEPT ![p] = NoSub]
  /\ ret' = [ret EXCEPT ![p] = "idle"]
  /\ UNCHANGED todo
Release(p) ==
  /\ admitting' = IF admitting = p THEN None ELSE admitting
  /\ userClaims' = userClaims \ {item[p]}
  /\ handingOff' = IF pc[p] \in {"submit", "record", "handed"}
                   THEN handingOff \ {item[p]} ELSE handingOff

\* A client call of kind k starts at l on input i with the captured run o.
Begin(c, k, l, i, o) ==
  /\ phase = "open" /\ kind[c] = "none" /\ calls < MaxCalls
  /\ pc' = [pc EXCEPT ![c] = l]
  /\ kind' = [kind EXCEPT ![c] = k]
  /\ item' = [item EXCEPT ![c] = i]
  /\ target' = [target EXCEPT ![c] = o]
  /\ calls' = calls + 1
  /\ UNCHANGED <<mishaps, att, ret, todo>>

\* A call that needs no process: one commit.
Call(k) ==
  /\ k \in Kinds /\ phase = "open" /\ calls < MaxCalls
  /\ calls' = calls + 1
  /\ UNCHANGED <<mishaps, removalAsked>>

-----------------------------------------------------------------------------
(* reconcile(): compare claimed inputs with their native receipts.         *)

\* What a pass looks up: the receipt of each claimed input of the record it read.
Snapshot == [i \in Inputs |-> IF disp[i] \in {"handoff", "uncertain"} THEN subm[i] ELSE Skip]

\* Faulty variant of Verdict: only a completed run is taken for a placement.
VerdictDoneOnly(i, s) ==
  CASE s = Skip -> "keep"
    [] s = NoSub -> IF i \in handingOff \cup userClaims THEN "keep" ELSE "unknown"
    [] OTHER -> IF sub[<<i, s>>] = "done" THEN "placed" ELSE "keep"

\* What a pass concludes about input i from its receipt s.
Verdict(i, s) ==
  CASE s = Skip -> "keep"
    [] s = NoSub -> IF i \in handingOff \cup userClaims THEN "keep" ELSE "unknown"
    [] OTHER -> CASE sub[<<i, s>>] \in Placed -> "placed"
                  [] sub[<<i, s>>] = "withdrawn" -> "withdrawn"
                  [] OTHER -> "keep"

\* The commits of a pass with the conclusions v.  A withdrawn input goes back
\* to the queue as a new attempt when the queue is paused; otherwise it is
\* given up as consumed.  A pass that would pass the bound on attempts is not taken.
Retries(v, i) == v[i] = "withdrawn" /\ paused
WithinBound(v) == \A i \in Inputs : Retries(v, i) => attempt[i] < MaxAttempt

\* Faulty variant of Apply: the retry keeps its attempt number.
ApplySameAttempt(v) ==
  /\ WithinBound(v)
  /\ disp' = [i \in Inputs |->
       IF v[i] = "keep" THEN disp[i]
       ELSE IF v[i] = "unknown" THEN "uncertain"
       ELSE IF Retries(v, i) THEN "pending" ELSE "consumed"]
  /\ subm' = [i \in Inputs |-> IF Retries(v, i) THEN NoSub ELSE subm[i]]
  /\ UNCHANGED <<explicit, attempt, mode, order>>

Apply(v) ==
  /\ WithinBound(v)
  /\ disp' = [i \in Inputs |->
       IF v[i] = "keep" THEN disp[i]
       ELSE IF v[i] = "unknown" THEN "uncertain"
       ELSE IF Retries(v, i) THEN "pending" ELSE "consumed"]
  /\ attempt' = [i \in Inputs |-> IF Retries(v, i) THEN attempt[i] + 1 ELSE attempt[i]]
  /\ subm' = [i \in Inputs |-> IF Retries(v, i) THEN NoSub ELSE subm[i]]
  /\ UNCHANGED <<explicit, mode, order>>

\* A pass that no other commit overtakes.
Reconcile(p) ==
  /\ pc[p] = "reconcile" /\ ~Overtaking
  /\ Apply([i \in Inputs |-> Verdict(i, Snapshot[i])])
  /\ Goto(p, ret[p])
  /\ UNCHANGED <<native, intent, locked, phase, memory, flow, ghost>>

\* A pass as it is written: it reads the record once, then looks up and commits
\* one input after the other, whatever was committed in between.
ReconcileRead(p) ==
  /\ pc[p] = "reconcile" /\ Overtaking
  /\ todo' = [todo EXCEPT ![p] = Snapshot]
  /\ pc' = [pc EXCEPT ![p] = IF Snapshot = NothingToDo THEN ret[p] ELSE "reconcileCommit"]
  /\ UNCHANGED <<native, record, intent, locked, phase, memory, flow, ghost,
                 kind, item, att, target, snap, ret>>

\* The input the pass of p comes to next.
NextTodo(p, i) ==
  \E k \in DOMAIN order :
    /\ order[k] = i /\ todo[p][i] # Skip
    /\ \A j \in 1..(k - 1) : todo[p][order[j]] = Skip

ReconcileCommit(p) ==
  /\ pc[p] = "reconcileCommit"
  /\ \E i \in Inputs :
       /\ NextTodo(p, i)
       /\ Apply([j \in Inputs |-> IF j = i THEN Verdict(i, todo[p][i]) ELSE "keep"])
       /\ todo' = [todo EXCEPT ![p][i] = Skip]
       /\ pc' = [pc EXCEPT ![p] = IF todo'[p] = NothingToDo THEN ret[p] ELSE "reconcileCommit"]
  /\ UNCHANGED <<native, intent, locked, phase, memory, flow, ghost,
                 kind, item, att, target, snap, ret>>

-----------------------------------------------------------------------------
(* handoff(): claim, submit, record the receipt, reconcile.                *)

Recovering(p) == kind[p] \in UserKinds \/ phase = "recovering"
WhenBusy(p) ==
  CASE kind[p] \in {"prompt", "promptHeld", "steer"} -> "steer"
    [] kind[p] \in {"interrupt", "select"} -> "reject"
    [] OTHER -> IF phase = "recovering" THEN mode[item[p]] ELSE "reject"

\* Faulty variant of Claimable: an input that another handler claimed is accepted.
ClaimableTwice(p) ==
  /\ external = None
  /\ paused => Recovering(p) \/ kind[p] = "promptHeld"
  /\ disp[item[p]] \in {"pending", "handoff"}

\* The claim commit accepts the input.
Claimable(p) ==
  /\ external = None
  /\ p # Drain => item[p] \notin handingOff
  /\ paused => Recovering(p) \/ kind[p] = "promptHeld"
  /\ IF Recovering(p) THEN disp[item[p]] = "handoff" /\ subm[item[p]] = NoSub
                      ELSE disp[item[p]] = "pending"

Claim(p) ==
  /\ pc[p] = "claim"
  /\ Claimable(p)
  /\ disp' = [disp EXCEPT ![item[p]] = "handoff"]
  /\ mode' = [mode EXCEPT ![item[p]] = WhenBusy(p)]
  /\ handingOff' = handingOff \cup {item[p]}
  /\ att' = [att EXCEPT ![p] = attempt[item[p]]]
  /\ pc' = [pc EXCEPT ![p] = "submit"]
  /\ UNCHANGED <<native, explicit, attempt, subm, order, intent, locked, phase, admitting,
                 userClaims, external, flow, kind, item, target, snap, ret, todo, ghost>>

\* handoff() returns undefined: the drain looks again, a call gives up.
ClaimRefused(p) ==
  /\ pc[p] = "claim"
  /\ ~Claimable(p)
  /\ IF p = Drain
     THEN /\ Goto(p, IF phase = "recovering" THEN "recover" ELSE "loop")
          /\ handingOff' = handingOff \ {item[p]}
          /\ UNCHANGED <<admitting, userClaims>>
     ELSE Return(p) /\ Release(p)
  /\ UNCHANGED <<native, record, intent, locked, phase, external, flow, ghost>>

SubmitHandoff(p) ==
  /\ pc[p] = "submit"
  /\ Submit(<<item[p], att[p]>>, WhenBusy(p))
  /\ Goto(p, "record")
  /\ UNCHANGED <<unseen, record, intent, locked, phase, memory, flow, ghost>>

RecordReceipt(p) ==
  /\ pc[p] = "record"
  /\ subm' = [subm EXCEPT ![item[p]] = att[p]]
  /\ GotoReconcile(p, "handed")
  /\ UNCHANGED <<native, disp, explicit, attempt, mode, order, intent, locked, phase,
                 memory, flow, ghost>>

\* handoff() returns the submission: the drain waits for it, a call leaves a
\* settlement tail behind and is answered.
Handed(p) ==
  /\ pc[p] = "handed"
  /\ IF p = Drain
     THEN /\ Goto(p, IF phase = "recovering" THEN "recover" ELSE "await")
          /\ handingOff' = handingOff \ {item[p]}
          /\ UNCHANGED <<admitting, userClaims, tails>>
     ELSE /\ Return(p) /\ Release(p)
          /\ tails' = tails \cup {<<item[p], att[p]>>}
  /\ UNCHANGED <<native, record, intent, locked, phase, external, settling, drainAgain, ghost>>

\* The drain ends, and goes round again if it was asked to.
DrainStops ==
  /\ pc' = [pc EXCEPT ![Drain] = IF drainAgain THEN "reconcile" ELSE "idle"]
  /\ ret' = [ret EXCEPT ![Drain] = IF drainAgain THEN "loop" ELSE "idle"]
  /\ drainAgain' = FALSE
  /\ item' = [item EXCEPT ![Drain] = None]
  /\ att' = [att EXCEPT ![Drain] = 0]
  /\ UNCHANGED <<kind, target, snap, todo>>

\* handoff() throws: the native lane refused the input, or the commit of the
\* receipt failed.  The record keeps the claim.  During recovery the session
\* fails to open.
HandoffThrows(p) ==
  /\ IF p = Drain
     THEN IF phase = "recovering"
          THEN /\ phase' = "down" /\ Return(p) /\ UNCHANGED drainAgain
          ELSE DrainStops /\ UNCHANGED phase
     ELSE Return(p) /\ UNCHANGED <<phase, drainAgain>>
  /\ Release(p)
  /\ UNCHANGED <<native, record, intent, locked, external, settling, tails, calls, removalAsked>>

SubmitRefused(p) ==
  /\ pc[p] = "submit"
  /\ Refuses(<<item[p], att[p]>>, WhenBusy(p))
  /\ HandoffThrows(p)
  /\ UNCHANGED mishaps

ReceiptLost(p) ==
  /\ pc[p] = "record" /\ mishaps < MaxMishaps
  /\ mishaps' = mishaps + 1
  /\ HandoffThrows(p)

-----------------------------------------------------------------------------
(* Retention: enqueueAutomatic, followUp and nextRun; submitPrompt.        *)

Retain(i, x) ==
  /\ disp' = [disp EXCEPT ![i] = "pending"]
  /\ explicit' = [explicit EXCEPT ![i] = x]
  /\ order' = Append(order, i)
  /\ UNCHANGED <<attempt, subm, mode>>

\* Inputs that no call carries and the record does not hold yet.
Fresh == {i \in Inputs : disp[i] = "absent" /\ \A p \in Procs : item[p] # i}

\* Retention without a call in progress: the input waits and the drain is woken.
RetainIdle(k, i) ==
  /\ Call(k) /\ ~locked
  /\ Retain(i, k = "enqueue")
  /\ WakeDrain(pc)
  /\ UNCHANGED <<native, intent, locked, phase, memory, settling, tails,
                 kind, item, att, target, snap, todo>>

\* enqueueAutomatic: the operator queue.
Enqueue(i) == RetainIdle("enqueue", i)

\* followUp and nextRun, which a user admission in progress refuses.
FollowUp(i) == admitting = None /\ RetainIdle("followUp", i)

\* submitPrompt: the pause is read one await before the input is retained.
PromptStart(c, i) ==
  /\ "prompt" \in Kinds /\ admitting = None /\ external = None /\ ~locked
  /\ Begin(c, IF paused THEN "promptHeld" ELSE "prompt", "push", i, None)
  /\ UNCHANGED <<native, record, intent, locked, phase, memory, flow, snap, removalAsked>>

Push(c) ==
  /\ pc[c] = "push"
  /\ Retain(item[c], FALSE)
  /\ Goto(c, IF kind[c] \in UserKinds THEN "own" ELSE "claim")
  /\ UNCHANGED <<native, intent, locked, phase, memory, flow, ghost>>

-----------------------------------------------------------------------------
(* User admissions: steer, interrupt, interrupt with a selected input,     *)
(* promotion of a queued input.                                            *)

UserGuards == admitting = None /\ external = None /\ ~locked

UserBegin(c, k, l, i, o) ==
  /\ k \in Kinds /\ UserGuards
  /\ Begin(c, k, l, i, o)
  /\ admitting' = c
  /\ UNCHANGED <<native, record, intent, locked, phase, handingOff, userClaims, external,
                 flow, snap, removalAsked>>

SteerStart(c, i) == UserBegin(c, "steer", "push", i, None)

\* The current execution is captured before the abort that is aimed at it.
InterruptStart(c, i) ==
  UserBegin(c, "interrupt", IF runHead = None THEN "quiesce" ELSE "abort", i, runHead)

\* The client names a run; stale: not the current one, or one being aborted.
SelectStart(c, i, stale) ==
  /\ disp[i] # "absent"
  /\ runHead # None /\ abortOp = runHead => stale
  /\ UserBegin(c, "select", IF stale THEN "refused" ELSE "select", i, runHead)

\* The client names the run it sees, or none.
PromoteStart(c, i, o) == disp[i] # "absent" /\ UserBegin(c, "promote", "promote", i, o)

\* The claim of a fresh user input, before handoff() takes it.
Own(c) ==
  /\ pc[c] = "own"
  /\ disp[item[c]] = "pending"
  /\ disp' = [disp EXCEPT ![item[c]] = "handoff"]
  /\ mode' = [mode EXCEPT ![item[c]] = WhenBusy(c)]
  /\ Goto(c, "claim")
  /\ UNCHANGED <<native, explicit, attempt, subm, order, intent, locked, phase, memory,
                 flow, ghost>>

\* One commit pauses the queue and claims the selected input.
SelectClaim(c) ==
  /\ pc[c] = "select"
  /\ explicit[item[c]] /\ disp[item[c]] = "pending"
  /\ disp' = [disp EXCEPT ![item[c]] = "handoff"]
  /\ mode' = [mode EXCEPT ![item[c]] = WhenBusy(c)]
  /\ paused' = TRUE
  /\ userClaims' = userClaims \cup {item[c]}
  /\ Goto(c, IF target[c] = None THEN "quiesce" ELSE "abort")
  /\ UNCHANGED <<native, explicit, attempt, subm, order, abortOp, abortTask, locked, phase,
                 admitting, handingOff, external, flow, ghost>>

\* not_found, in_flight or target_changed: the call ends without a drain.
UserRefused(c) ==
  /\ \/ pc[c] = "refused"
     \/ pc[c] = "select" /\ ~(explicit[item[c]] /\ disp[item[c]] = "pending")
     \/ pc[c] = "own" /\ disp[item[c]] # "pending"
  /\ Return(c) /\ Release(c)
  /\ UNCHANGED <<native, record, intent, locked, phase, external, flow, ghost>>

\* admitSelected: record and native admission move in one commit.
TargetChanged(c) ==
  \/ runHead # target[c]
  \/ runAborting
  \/ runHead # None /\ abortOp = target[c]
Promotable(c) ==
  /\ explicit[item[c]]
  /\ disp[item[c]] = "pending"
  /\ sub[<<item[c], attempt[item[c]]>>] = "none"
  /\ ~TargetChanged(c)

Promote(c) ==
  /\ pc[c] = "promote"
  /\ Promotable(c)
  /\ LET i == item[c] IN
       /\ Submit(<<i, attempt[i]>>, "steer")
       /\ disp' = [disp EXCEPT ![i] = "handoff"]
       /\ mode' = [mode EXCEPT ![i] = "steer"]
       /\ subm' = [subm EXCEPT ![i] = attempt[i]]
       /\ tails' = tails \cup {<<i, attempt[i]>>}
  /\ GotoReconcile(c, "promoted")
  /\ UNCHANGED <<unseen, explicit, attempt, order, intent, locked, phase, memory,
                 settling, drainAgain, ghost>>

Promoted(c) ==
  /\ pc[c] = "promoted"
  /\ Return(c) /\ Release(c)
  /\ UNCHANGED <<native, record, intent, locked, phase, external, flow, ghost>>

PromoteRefused(c) ==
  /\ pc[c] = "promote"
  /\ ~Promotable(c)
  /\ Return(c) /\ Release(c)
  /\ UNCHANGED <<native, record, intent, locked, phase, external, flow, ghost>>

\* waitForIdle and eventsSettled, between the abort and the replacement.
Quiesced(c) ==
  /\ pc[c] = "quiesce"
  /\ runHead = None /\ Quiet
  /\ Goto(c, IF kind[c] = "interrupt" THEN "push" ELSE "claim")
  /\ UNCHANGED <<native, record, intent, locked, phase, memory, flow, ghost>>

-----------------------------------------------------------------------------
(* abort(): the intent is committed, then the native run is cancelled.     *)

\* abort() is aimed at the run that execution() reports; without one, or when
\* the client names another, it returns.
AbortStart(c) ==
  /\ "abort" \in Kinds /\ runHead # None
  /\ Begin(c, "abort", "abortIntent", None, runHead)
  /\ UNCHANGED <<native, record, intent, locked, phase, memory, flow, snap, removalAsked>>

\* setAgentLock(true) stops a local run; setAgentLock(false) only unlocks.
Lock(c) ==
  /\ "lock" \in Kinds
  /\ locked' = TRUE
  /\ IF runHead = None THEN Begin(c, "none", "idle", None, None)
                       ELSE Begin(c, "lock", "abort", None, runHead)
  /\ UNCHANGED <<native, record, intent, phase, memory, flow, snap, removalAsked>>

Unlock ==
  /\ Call("lock") /\ locked
  /\ locked' = FALSE
  /\ UNCHANGED <<native, record, intent, phase, memory, flow, local>>

AfterAbort(c) ==
  CASE kind[c] \in {"interrupt", "select"} -> "quiesce"
    [] kind[c] = "dispose" -> "close"
    [] OTHER -> "aborted"

\* abort(current.id) inside another call looks at execution() again.
AbortCheck(c) ==
  /\ pc[c] = "abort"
  /\ Goto(c, IF runHead = target[c] THEN "abortIntent" ELSE AfterAbort(c))
  /\ UNCHANGED <<native, record, intent, locked, phase, memory, flow, ghost>>

AbortIntent(c) ==
  /\ pc[c] = "abortIntent"
  /\ paused' = TRUE
  /\ abortOp' = target[c]
  /\ abortTask' = runHead
  /\ Goto(c, "abortNative")
  /\ UNCHANGED <<native, record, locked, phase, memory, flow, ghost>>

AbortNative(c) ==
  /\ pc[c] = "abortNative"
  /\ Abort
  /\ GotoReconcile(c, AfterAbort(c))
  /\ UNCHANGED <<unseen, record, intent, locked, phase, memory, flow, ghost>>

\* The native cancellation throws; the intent stays in the record.
AbortThrows(c) ==
  /\ pc[c] = "abortNative" /\ mishaps < MaxMishaps
  /\ mishaps' = mishaps + 1
  /\ IF kind[c] = "dispose" THEN Goto(c, "close") /\ UNCHANGED <<admitting, handingOff, userClaims>>
                            ELSE Return(c) /\ Release(c)
  /\ UNCHANGED <<native, record, intent, locked, phase, external, flow, calls, removalAsked>>

Aborted(c) ==
  /\ pc[c] = "aborted"
  /\ Return(c)
  /\ UNCHANGED <<native, record, intent, locked, phase, memory, flow, ghost>>

\* A client that is not eager resumes once every call and handoff in progress
\* has been answered, and with them whatever an abort withdrew was reconciled.
Answered == handingOff = {} /\ \A c \in Callers : kind[c] = "none"

Resume ==
  /\ "resume" \in Kinds /\ phase = "open" /\ admitting = None
  /\ EagerResume \/ Answered
  /\ paused' = FALSE /\ abortOp' = None /\ abortTask' = None
  /\ WakeDrain(pc)
  /\ UNCHANGED <<native, record, locked, phase, memory, settling, tails,
                 kind, item, att, target, snap, todo, ghost>>

-----------------------------------------------------------------------------
(* removeQueued()                                                          *)

RemoveStart(c, i) ==
  /\ "remove" \in Kinds /\ explicit[i]
  /\ disp[i] \notin {"absent", "consumed", "removed"}
  /\ subm[i] = NoSub => disp[i] = "pending"
  /\ Begin(c, "remove", IF subm[i] = NoSub THEN "removeCommit" ELSE "removeNative", i, None)
  /\ snap' = [snap EXCEPT ![c] = subm[i]]
  /\ removalAsked' = removalAsked \cup {i}
  /\ UNCHANGED <<native, record, intent, locked, phase, memory, flow>>

RemoveNative(c) ==
  /\ pc[c] = "removeNative"
  /\ Withdraw(<<item[c], snap[c]>>)
  /\ Goto(c, "removeCommit")
  /\ UNCHANGED <<unseen, record, intent, locked, phase, memory, flow, ghost>>

\* already_placed or settled: in_flight or already_consumed.
RemoveTooLate(c) ==
  /\ pc[c] = "removeNative"
  /\ sub[<<item[c], snap[c]>>] # "queued"
  /\ Return(c)
  /\ UNCHANGED <<native, record, intent, locked, phase, memory, flow, ghost>>

\* Faulty variant of Removable: the recorded receipt is not compared.
RemovableBlind(c) == disp[item[c]] \notin {"consumed", "removed"}

\* The commit checks that the input is still what the call looked at.
Removable(c) ==
  /\ disp[item[c]] \notin {"consumed", "removed"}
  /\ subm[item[c]] = snap[c]
  /\ snap[c] = NoSub => disp[item[c]] = "pending"

RemoveCommit(c) ==
  /\ pc[c] = "removeCommit"
  /\ disp' = IF Removable(c) THEN [disp EXCEPT ![item[c]] = "removed"] ELSE disp
  /\ Return(c)
  /\ UNCHANGED <<native, explicit, attempt, subm, mode, order, intent, locked, phase,
                 memory, flow, ghost>>

-----------------------------------------------------------------------------
(* drain(): hand the oldest pending input to an idle lane.                 *)

NextPending(i) ==
  \E k \in DOMAIN order :
    /\ order[k] = i /\ disp[i] = "pending"
    /\ \A j \in 1..(k - 1) : disp[order[j]] # "pending"

MayDrain == ~locked /\ admitting = None /\ ~paused /\ Idle

\* Faulty variant of DrainPick: any pending input is taken.
DrainPickAny ==
  /\ pc[Drain] = "loop" /\ MayDrain
  /\ \E i \in Inputs \ handingOff :
       /\ disp[i] = "pending"
       /\ item' = [item EXCEPT ![Drain] = i]
       /\ handingOff' = handingOff \cup {i}
  /\ pc' = [pc EXCEPT ![Drain] = "claim"]
  /\ UNCHANGED <<native, record, intent, locked, phase, admitting, userClaims, external,
                 flow, kind, att, target, snap, ret, todo, ghost>>

DrainPick ==
  /\ pc[Drain] = "loop" /\ MayDrain
  /\ \E i \in Inputs \ handingOff :
       /\ NextPending(i)
       /\ item' = [item EXCEPT ![Drain] = i]
       /\ handingOff' = handingOff \cup {i}
  /\ pc' = [pc EXCEPT ![Drain] = "claim"]
  /\ UNCHANGED <<native, record, intent, locked, phase, admitting, userClaims, external,
                 flow, kind, att, target, snap, ret, todo, ghost>>

\* What the drain read makes it stop; it counts as running until it has ended.
DrainBreak ==
  /\ pc[Drain] = "loop"
  /\ MayDrain => \A i \in Inputs : ~NextPending(i)
  /\ Goto(Drain, "stopping")
  /\ UNCHANGED <<native, record, intent, locked, phase, memory, flow, ghost>>

DrainEnd ==
  /\ pc[Drain] = "stopping"
  /\ DrainStops
  /\ UNCHANGED <<native, record, intent, locked, phase, memory, settling, tails, ghost>>

DrainAwait ==
  /\ pc[Drain] = "await"
  /\ sub[<<item[Drain], att[Drain]>>] \in Final
  /\ Quiet
  /\ GotoReconcile(Drain, "loop")
  /\ UNCHANGED <<native, record, intent, locked, phase, memory, flow, ghost>>

-----------------------------------------------------------------------------
(* Settlement of runs and of admitted prompts.                             *)

\* The watcher receives run_end.
ObserveRunEnd ==
  /\ phase = "open" /\ unseen > 0
  /\ unseen' = unseen - 1
  /\ settling' = settling + 1
  /\ UNCHANGED <<lane, record, intent, locked, phase, memory, drainAgain, tails, local, ghost>>

\* Faulty variant of SettleStart: it runs without an event to settle.
SettleStartUnasked ==
  /\ pc[Settle] = "idle"
  /\ GotoReconcile(Settle, "release")
  /\ UNCHANGED <<native, record, intent, locked, phase, memory, flow, ghost>>

SettleStart ==
  /\ pc[Settle] = "idle" /\ settling > 0
  /\ GotoReconcile(Settle, "release")
  /\ UNCHANGED <<native, record, intent, locked, phase, memory, flow, ghost>>

\* The settled marker and the listeners are done: the lane stops counting as busy.
SettleRelease ==
  /\ pc[Settle] = "release"
  /\ settling' = settling - 1
  /\ Goto(Settle, "wake")
  /\ UNCHANGED <<native, record, intent, locked, phase, memory, drainAgain, tails, ghost>>

SettleWake ==
  /\ pc[Settle] = "wake"
  /\ WakeDrain([pc EXCEPT ![Settle] = "idle"])
  /\ UNCHANGED <<native, record, intent, locked, phase, memory, settling, tails,
                 kind, item, att, target, snap, todo, ghost>>

\* The settled promise of a prompt: its receipt, its hooks, a reconcile, a drain.
TailStart(r) ==
  /\ pc[Tailer] = "idle" /\ r \in tails /\ Quiet
  /\ IF r = None THEN runHead = None ELSE sub[r] \in Final
  /\ tails' = tails \ {r}
  /\ target' = [target EXCEPT ![Tailer] = r]
  /\ pc' = [pc EXCEPT ![Tailer] = IF r = None THEN "tailed" ELSE "reconcile"]
  /\ ret' = [ret EXCEPT ![Tailer] = "tailed"]
  /\ UNCHANGED <<native, record, intent, locked, phase, memory, settling, drainAgain,
                 kind, item, att, snap, todo, ghost>>

\* A failed submission is reported before the drain is reached.
TailEnd ==
  /\ pc[Tailer] = "tailed"
  /\ LET r == target[Tailer]
         pcs == [pc EXCEPT ![Tailer] = "idle"]
     IN IF r # None /\ sub[r] = "failed"
        THEN pc' = pcs /\ UNCHANGED <<ret, drainAgain>>
        ELSE WakeDrain(pcs)
  /\ target' = [target EXCEPT ![Tailer] = None]
  /\ UNCHANGED <<native, record, intent, locked, phase, memory, settling, tails,
                 kind, item, att, snap, todo, ghost>>

-----------------------------------------------------------------------------
(* runExternalOperation(): an operation outside the agent owns the lane.   *)

AdmissionBusy ==
  admitting # None \/ PromptAdmitted \/ settling > 0 \/ handingOff # {}

\* The claim is taken with the memory as it is; the native lane was looked at
\* one await before, so a run may have started in between.
ExternalStart(c) ==
  /\ "external" \in Kinds
  /\ external = None /\ ~AdmissionBusy
  /\ Begin(c, "external", "exclusiveCheck", None, None)
  /\ external' = c
  /\ UNCHANGED <<native, record, intent, locked, phase, admitting, handingOff, userClaims,
                 flow, snap, removalAsked>>

\* Faulty variant of ExternalAdmit: the native lane is not looked at again.
ExternalAdmitOnce(c) ==
  /\ pc[c] = "exclusiveCheck"
  /\ ~AdmissionBusy
  /\ Goto(c, "exclusive")
  /\ UNCHANGED <<native, record, intent, locked, phase, memory, flow, ghost>>

\* The second look, under the claim.
ExternalAdmit(c) ==
  /\ pc[c] = "exclusiveCheck"
  /\ runHead = None /\ ~AdmissionBusy
  /\ Goto(c, "exclusive")
  /\ UNCHANGED <<native, record, intent, locked, phase, memory, flow, ghost>>

\* The operation is done; or the second look found the lane busy, or the
\* deadline passed, and the claim is dropped.  Either way the drain is woken.
ExternalEnd(c) ==
  /\ pc[c] \in {"exclusiveCheck", "exclusive"}
  /\ external' = None
  /\ WakeDrain([pc EXCEPT ![c] = "idle"])
  /\ kind' = [kind EXCEPT ![c] = "none"]
  /\ UNCHANGED <<native, record, intent, locked, phase, admitting, handingOff, userClaims,
                 settling, tails, item, att, target, snap, todo, ghost>>

-----------------------------------------------------------------------------
(* Dispose, crash, reopening.                                              *)

\* dispose(): interrupt, which aborts the run and then the inbox once more.
DisposeStart(c) ==
  /\ "dispose" \in Kinds
  /\ Begin(c, "dispose", IF runHead = None THEN "close" ELSE "abort", None, runHead)
  /\ UNCHANGED <<native, record, intent, locked, phase, memory, flow, snap, removalAsked>>

DisposeAbort(c) ==
  /\ pc[c] = "close"
  /\ Abort
  /\ Goto(c, "closing")
  /\ UNCHANGED <<unseen, record, intent, locked, phase, memory, flow, ghost>>

\* The memory of the runtime is gone; the record and the lane are durable.
Forget ==
  /\ phase' = "down"
  /\ unseen' = 0
  /\ admitting' = None /\ handingOff' = {} /\ userClaims' = {} /\ external' = None
  /\ settling' = 0 /\ drainAgain' = FALSE /\ tails' = {}
  /\ pc' = [p \in Procs |-> "idle"]
  /\ kind' = [p \in Procs |-> "none"]
  /\ item' = [p \in Procs |-> None]
  /\ att' = [p \in Procs |-> 0]
  /\ target' = [p \in Procs |-> None]
  /\ snap' = [p \in Procs |-> NoSub]
  /\ ret' = [p \in Procs |-> "idle"]
  /\ todo' = [p \in Procs |-> NothingToDo]
  /\ UNCHANGED <<lane, record, intent, locked, calls, removalAsked>>

Disposed(c) ==
  /\ pc[c] = "closing" /\ Quiet
  /\ Forget
  /\ UNCHANGED mishaps

Crash ==
  /\ phase # "down" /\ mishaps < MaxMishaps
  /\ mishaps' = mishaps + 1
  /\ Forget

\* Faulty variant of Reopen: the persisted cancellation is forgotten.
ReopenForgetful ==
  /\ phase = "down"
  /\ phase' = "recovering"
  /\ Goto(Drain, "recover")
  /\ UNCHANGED <<native, record, intent, locked, memory, flow, ghost>>

\* recover() starts: a persisted cancellation whose run survived is repeated.
Reopen ==
  /\ phase = "down"
  /\ phase' = "recovering"
  /\ IF abortOp # None /\ abortTask # None /\ runHead = abortTask
     THEN Abort ELSE UNCHANGED lane
  /\ Goto(Drain, "recover")
  /\ UNCHANGED <<unseen, record, intent, locked, memory, flow, ghost>>

\* Faulty variant of RecoverHandoff: the handoff is repeated as a new attempt.
RecoverHandoffAfresh ==
  /\ pc[Drain] = "recover"
  /\ \E i \in Inputs :
       /\ disp[i] = "handoff" /\ subm[i] = NoSub
       /\ attempt[i] < MaxAttempt
       /\ attempt' = [attempt EXCEPT ![i] = attempt[i] + 1]
       /\ item' = [item EXCEPT ![Drain] = i]
       /\ handingOff' = handingOff \cup {i}
  /\ pc' = [pc EXCEPT ![Drain] = "claim"]
  /\ UNCHANGED <<native, disp, explicit, subm, mode, order, intent, locked, phase, admitting,
                 userClaims, external, flow, kind, att, target, snap, ret, todo, ghost>>

\* An unfinished handoff is repeated under the same request identity.
RecoverHandoff ==
  /\ pc[Drain] = "recover"
  /\ \E i \in Inputs :
       /\ disp[i] = "handoff" /\ subm[i] = NoSub
       /\ item' = [item EXCEPT ![Drain] = i]
       /\ handingOff' = handingOff \cup {i}
  /\ pc' = [pc EXCEPT ![Drain] = "claim"]
  /\ UNCHANGED <<native, record, intent, locked, phase, admitting, userClaims, external,
                 flow, kind, att, target, snap, ret, todo, ghost>>

RecoverReconcile ==
  /\ pc[Drain] = "recover"
  /\ \A i \in Inputs : disp[i] = "handoff" => subm[i] # NoSub
  /\ GotoReconcile(Drain, "recovered")
  /\ UNCHANGED <<native, record, intent, locked, phase, memory, flow, ghost>>

\* admitResume: the lane is resumed, and drained once it is idle.
Recovered ==
  /\ pc[Drain] = "recovered"
  /\ phase' = "open"
  /\ Return(Drain)
  /\ tails' = {None}
  /\ UNCHANGED <<native, record, intent, locked, memory, settling, drainAgain, ghost>>

-----------------------------------------------------------------------------
LanePlaces ==
  /\ phase = "open" /\ PlaceQueued
  /\ UNCHANGED <<record, intent, locked, phase, memory, flow, local, ghost>>

LaneEnds ==
  /\ phase = "open" /\ EndRun
  /\ UNCHANGED <<record, intent, locked, phase, memory, flow, local, ghost>>

CallStarts ==
  \/ \E i \in Fresh : Enqueue(i) \/ FollowUp(i)
  \/ Resume \/ Unlock
  \/ \E c \in Callers :
       \/ \E i \in Fresh : PromptStart(c, i) \/ SteerStart(c, i) \/ InterruptStart(c, i)
       \/ \E i \in Inputs, stale \in BOOLEAN : SelectStart(c, i, stale)
       \/ \E i \in Inputs : RemoveStart(c, i)
       \/ \E i \in Inputs, o \in {None, runHead} : PromoteStart(c, i, o)
       \/ AbortStart(c) \/ Lock(c) \/ ExternalStart(c) \/ DisposeStart(c)

\* The steps of a call that the runtime always takes.
CallStep(c) ==
  \/ Push(c) \/ Own(c) \/ SelectClaim(c) \/ UserRefused(c) \/ Promote(c) \/ Promoted(c)
  \/ PromoteRefused(c)
  \/ Quiesced(c) \/ AbortCheck(c) \/ AbortIntent(c) \/ AbortNative(c) \/ Aborted(c)
  \/ RemoveNative(c) \/ RemoveTooLate(c) \/ RemoveCommit(c)
  \/ ExternalAdmit(c) \/ ExternalEnd(c) \/ DisposeAbort(c) \/ Disposed(c)

HandoffStep(p) ==
  \/ Claim(p) \/ ClaimRefused(p) \/ SubmitHandoff(p) \/ SubmitRefused(p)
  \/ RecordReceipt(p) \/ Handed(p)

ReconcileStep(p) == Reconcile(p) \/ ReconcileRead(p) \/ ReconcileCommit(p)

DrainStep ==
  \/ DrainPick \/ DrainBreak \/ DrainEnd \/ DrainAwait
  \/ RecoverHandoff \/ RecoverReconcile \/ Recovered

SettleStep == SettleStart \/ SettleRelease \/ SettleWake
TailStep == TailEnd \/ \E r \in Req \cup {None} : TailStart(r)

Mishap == Crash \/ \E p \in Procs : ReceiptLost(p) \/ AbortThrows(p)

Next ==
  \/ CallStarts
  \/ \E c \in Callers : CallStep(c)
  \/ \E p \in Procs : HandoffStep(p) \/ ReconcileStep(p)
  \/ DrainStep \/ SettleStep \/ TailStep \/ ObserveRunEnd
  \/ LanePlaces \/ LaneEnds
  \/ Reopen \/ Mishap

Spec == Init /\ [][Next]_vars

\* Every started call, the drain, the settlement chain and the tails run on
\* an event loop that serves every ready continuation; the lane finishes its
\* runs.  Clients and mishaps owe nothing.
Fairness ==
  /\ \A p \in Procs : WF_vars(HandoffStep(p)) /\ WF_vars(ReconcileStep(p))
  /\ \A c \in Callers : WF_vars(CallStep(c))
  /\ WF_vars(DrainStep) /\ WF_vars(SettleStep) /\ WF_vars(TailStep)
  /\ WF_vars(ObserveRunEnd) /\ WF_vars(LaneEnds) /\ WF_vars(Reopen)

FairSpec == Spec /\ Fairness

-----------------------------------------------------------------------------
(* Properties *)

TypeOK ==
  /\ LaneTypeOK
  /\ disp \in [Inputs -> Dispositions]
  /\ explicit \in [Inputs -> BOOLEAN]
  /\ attempt \in [Inputs -> Attempts]
  /\ subm \in [Inputs -> Attempts \cup {NoSub}]
  /\ mode \in [Inputs -> {"steer", "reject"}]
  /\ order \in Seq(Inputs)
  /\ paused \in BOOLEAN /\ locked \in BOOLEAN
  /\ abortOp \in Req \cup {None} /\ abortTask \in Req \cup {None}
  /\ phase \in {"open", "down", "recovering"}
  /\ admitting \in Callers \cup {None} /\ external \in Callers \cup {None}
  /\ handingOff \subseteq Inputs /\ userClaims \subseteq Inputs
  /\ settling \in Nat /\ drainAgain \in BOOLEAN
  /\ tails \subseteq Req \cup {None}
  /\ pc \in [Procs -> Labels] /\ ret \in [Procs -> Labels]
  /\ kind \in [Procs -> AllKinds \cup {"none", "promptHeld"}]
  /\ item \in [Procs -> Inputs \cup {None}]
  /\ att \in [Procs -> Attempts]
  /\ target \in [Procs -> Req \cup {None}]
  /\ snap \in [Procs -> Attempts \cup {NoSub}]
  /\ todo \in [Procs -> [Inputs -> Attempts \cup {NoSub, Skip}]]
  /\ calls \in Nat /\ mishaps \in Nat
  /\ removalAsked \subseteq Inputs

\* An input enters the transcript at most once, whatever attempts, crashes,
\* cancellations and repeated handoffs it goes through, if no reconcile pass is
\* overtaken by other commits (proved), or within few calls (checked).
AtMostOnce ==
  \A i \in Inputs, a, b \in Attempts :
    sub[<<i, a>>] \in Placed /\ sub[<<i, b>>] \in Placed => a = b

\* An input that removeQueued reported as removed is not in the transcript,
\* is not queued natively, and no call is about to submit it.
RemovedNeverRuns ==
  \A i \in Inputs : disp[i] = "removed" =>
    /\ \A a \in Attempts : sub[<<i, a>>] \in {"none", "withdrawn"}
    /\ \A p \in Procs : pc[p] \in {"submit", "record"} => item[p] # i

\* Removal is final: no handler brings a removed input back to the queue.
RemovedStaysRemoved ==
  [][\A i \in Inputs : disp[i] = "removed" => disp'[i] \in {"removed", "consumed"}]_vars

\* An input is given up as consumed only when it reached the transcript, or
\* when its removal was asked for.
NothingDiscarded ==
  \A i \in Inputs : disp[i] = "consumed" => HasEntry(i) \/ i \in removalAsked

\* An abort cancels the run it was aimed at, never a successor.
AbortHitsItsTarget ==
  [][\A c \in Callers : pc[c] = "abortNative" /\ pc'[c] # "abortNative" /\ runAborting' /\ ~runAborting
       => runHead = target[c]]_vars

\* While an external operation owns the lane no agent run is live.
ExternalExclusive ==
  \A c \in Callers : pc[c] = "exclusive" => runHead = None

\* The drain serves the queue in the order of retention: it claims no input while
\* an older one is pending.
OldestFirst ==
  [][pc[Drain] = "claim" /\ pc'[Drain] = "submit" /\ phase = "open"
       => NextPending(item[Drain])]_vars

\* No two handlers carry the same input to the native lane.
OneHandoff ==
  \A p, q \in Procs :
    pc[p] \in {"submit", "record"} /\ pc[q] \in {"submit", "record"} /\ item[p] = item[q] => p = q

\* A reopened session has repeated every persisted cancellation whose run survived.
RecoveryHonoursAbort ==
  [][phase = "recovering" /\ phase' = "open" /\ abortTask # None /\ runHead = abortTask
       => runAborting]_vars

\* The abstract promise, with an input seen through its record and receipts.
Delivery == INSTANCE InputDelivery WITH
  stage <- [i \in Inputs |->
    IF HasEntry(i) THEN "entered"
    ELSE CASE disp[i] \in {"absent", "removed"} -> disp[i]
           [] disp[i] = "consumed" -> "discarded"
           [] OTHER -> "waiting"],
  entries <- [i \in Inputs |-> Cardinality({a \in Attempts : sub[<<i, a>>] \in Placed})],
  asked <- removalAsked

\* The queue keeps the abstract promise: every retained input enters the
\* transcript at most once, and leaves the queue without an entry only when
\* removeQueued was called for it.
Delivers == Delivery!Spec

\* Automatic work does not stall: a retained input is claimed, unless the queue
\* is paused or locked or the session goes down.
Eligible(i) == disp[i] = "pending" /\ phase = "open" /\ ~paused /\ ~locked
QueueDrains == \A i \in Inputs : Eligible(i) ~> ~Eligible(i)

\* Somebody is still to wake the drain when a run has ended and is settled.
RunUnsettled == runHead # None \/ unseen > 0 \/ settling > 0 \/ pc[Settle] # "idle"

\* The drain runs and will look at the queue again, or somebody is still to wake it:
\* the settlement of a run, the end of an external operation, that of a resumed lane.
DrainDue ==
  \/ pc[Drain] \notin {"idle", "stopping"} \/ drainAgain
  \/ RunUnsettled \/ external # None
  \/ None \in tails \/ (pc[Tailer] = "tailed" /\ target[Tailer] = None)

\* No wake-up is lost: while an input could be claimed, the drain is due, or the call
\* that brought the input is about to claim it.
NoWakeupLost ==
  \A i \in Inputs : Eligible(i) => DrainDue \/ \E c \in Callers : pc[c] = "claim" /\ item[c] = i

\* No input stays in handoff in a running session: a pass finds its receipt, or
\* finds that no handler carries it and shows it as uncertain.
HandoffSettles ==
  \A i \in Inputs : disp[i] = "handoff" /\ phase = "open" ~> disp[i] # "handoff" \/ phase # "open"

\* A session that went down opens again, with its unfinished handoffs repeated.
Reopens == phase = "down" ~> phase = "open"
=============================================================================
