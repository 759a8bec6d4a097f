------------------------ MODULE TransitionCoordinator ------------------------
(***************************************************************************)
(* The coordinator of a session's mode transitions:                        *)
(* packages/core/doompi-core/src/services/transitionCoordinator/index.ts.  *)
(*                                                                         *)
(* A structural transition changes one axis of the selection, and waits    *)
(* for the one admitted before it; live ones run beside them.  While one   *)
(* waits or runs the configuration may be read again, which makes a new    *)
(* generation, the request may be aborted and the coordinator disposed of. *)
(***************************************************************************)
EXTENDS Naturals

CONSTANTS
  Transitions,    \* requests, each made at most once
  Live,           \* those on the live axis
  OperationId,    \* the operation id of a request
  Target,         \* the axis a structural request sets, and its new value
  Base,           \* the selection of the session before any transition
  MaxGeneration,  \* bound on generations
  Absent          \* no selection, no predecessor

ASSUME AbsentAssumption == Absent \notin Transitions

VARIABLES
  generation,    \* of the configuration
  coordinating,  \* FALSE once the coordinator is disposed of
  cancelled,     \* the requests whose signal is aborted
  operationIds,
  committed,     \* the selection the last applied transition left, or none
  tail,          \* the structural request that was admitted last
  turn,          \* how far a request got
  after,         \* the structural request it waits for
  expected,      \* the generation at its admission
  previous,      \* the selection its plan starts from
  outcome

admission == <<operationIds, tail, after, expected>>
transitionVars == <<generation, coordinating, cancelled, committed, admission,
                    turn, previous, outcome>>

TransitionInit ==
  /\ generation = 0 /\ coordinating = TRUE /\ cancelled = {}
  /\ operationIds = {} /\ committed = Absent /\ tail = Absent
  /\ turn = [t \in Transitions |-> "new"]
  /\ after = [t \in Transitions |-> Absent]
  /\ expected = [t \in Transitions |-> 0]
  /\ previous = [t \in Transitions |-> Absent]
  /\ outcome = [t \in Transitions |-> "none"]

Selection == IF committed = Absent THEN Base ELSE committed
Candidate(t, from) == [from EXCEPT ![Target[t].axis] = Target[t].value]
Settles(t, o) == turn' = [turn EXCEPT ![t] = "settled"] /\ outcome' = [outcome EXCEPT ![t] = o]

Rejected(t) == ~coordinating \/ t \in cancelled

-----------------------------------------------------------------------------
(* execute()                                                               *)

Refuse(t) ==
  /\ turn[t] = "new"
  /\ Rejected(t) \/ (t \notin Live /\ OperationId[t] \in operationIds)
  /\ Settles(t, "rejected")
  /\ UNCHANGED <<generation, coordinating, cancelled, committed, admission, previous>>

StartLive(t) ==
  /\ t \in Live /\ turn[t] = "new" /\ ~Rejected(t)
  /\ expected' = [expected EXCEPT ![t] = generation]
  /\ turn' = [turn EXCEPT ![t] = "running"]
  /\ UNCHANGED <<generation, coordinating, cancelled, committed, operationIds, tail, after,
                 previous, outcome>>

AdmitStructural(t) ==
  /\ t \notin Live /\ turn[t] = "new" /\ ~Rejected(t)
  /\ OperationId[t] \notin operationIds
  /\ operationIds' = operationIds \cup {OperationId[t]}
  /\ expected' = [expected EXCEPT ![t] = generation]
  /\ after' = [after EXCEPT ![t] = tail]
  /\ tail' = t
  /\ turn' = [turn EXCEPT ![t] = "waiting"]
  /\ UNCHANGED <<generation, coordinating, cancelled, committed, previous, outcome>>

\* Faulty variant of Turn: a request does not wait for its predecessor.
TurnAtOnce(t) == turn[t] = "waiting"

\* Faulty variant of Turn: a request waits for its predecessor to succeed.
TurnAfterSuccess(t) ==
  /\ turn[t] = "waiting"
  /\ after[t] # Absent => turn[after[t]] = "settled" /\ outcome[after[t]] # "rejected"

Turn(t) == turn[t] = "waiting" /\ (after[t] # Absent => turn[after[t]] = "settled")

\* The plan is made when its turn comes, from what its predecessors left.  The
\* generation is compared before the plan's outcome, disposal after it; a plan
\* that needs a synchronisation is rejected, one without executor only queued.
StartStructural(t) ==
  /\ Turn(t)
  /\ previous' = [previous EXCEPT ![t] = Selection]
  /\ IF expected[t] # generation THEN Settles(t, "stale")
     ELSE IF Candidate(t, Selection) = Selection THEN Settles(t, "unchanged")
     ELSE IF Rejected(t) THEN Settles(t, "rejected")
     ELSE \/ turn' = [turn EXCEPT ![t] = "running"] /\ UNCHANGED outcome
          \/ \E o \in {"rejected", "queued"} : Settles(t, o)
  /\ UNCHANGED <<generation, coordinating, cancelled, committed, admission>>

\* Faulty variant of Outdated: the generation is not compared after execution.
OutdatedNever(t) == FALSE

Outdated(t) == expected[t] # generation

\* Execution ends: it reports an outcome or throws.
Executed(t) ==
  /\ turn[t] = "running"
  /\ \E o \in {"applied", "queued", "rejected"} :
       /\ Settles(t, IF Outdated(t) /\ o # "rejected" THEN "stale" ELSE o)
       /\ committed' = IF o = "applied" /\ ~Outdated(t) /\ t \notin Live
                         THEN Candidate(t, previous[t]) ELSE committed
  /\ UNCHANGED <<generation, coordinating, cancelled, admission, previous>>

-----------------------------------------------------------------------------
NewGeneration ==
  /\ generation < MaxGeneration
  /\ generation' = generation + 1
  /\ UNCHANGED <<coordinating, cancelled, committed, admission, turn, previous, outcome>>

Cancel(t) ==
  /\ turn[t] \in {"new", "waiting", "running"} /\ t \notin cancelled
  /\ cancelled' = cancelled \cup {t}
  /\ UNCHANGED <<generation, coordinating, committed, admission, turn, previous, outcome>>

\* dispose(): the chain is cut only when nobody is on it.
DisposeCoordinator ==
  /\ coordinating
  /\ coordinating' = FALSE
  /\ committed' = Absent
  /\ operationIds' = {}
  /\ tail' = IF \E t \in Transitions \ Live : turn[t] \in {"waiting", "running"}
               THEN tail ELSE Absent
  /\ UNCHANGED <<generation, cancelled, after, expected, turn, previous, outcome>>

TransitionStep(t) == StartStructural(t) \/ Executed(t)

TransitionNext ==
  \/ \E t \in Transitions :
       \/ Refuse(t) \/ StartLive(t) \/ AdmitStructural(t) \/ Cancel(t)
       \/ StartStructural(t) \/ Executed(t)
  \/ NewGeneration \/ DisposeCoordinator

TransitionSpec == TransitionInit /\ [][TransitionNext]_transitionVars

\* Promise continuations run, and an execution ends.
TransitionFair == \A t \in Transitions : WF_transitionVars(TransitionStep(t))

-----------------------------------------------------------------------------
(* Properties *)

\* An applied structural transition started from the selection that its
\* predecessor left: none is lost under one that was planned before.
NoLostUpdate ==
  [][\A t \in Transitions \ Live :
       outcome'[t] = "applied" /\ outcome[t] # "applied" /\ coordinating
         => previous[t] = Selection]_transitionVars

\* A transition that was planned for another configuration leaves no trace in the
\* selection, whenever the configuration changed.
CommitsAreCurrent ==
  [][committed' # committed /\ committed' # Absent
       => \E t \in Transitions \ Live :
            /\ turn[t] = "running" /\ turn'[t] = "settled" /\ expected[t] = generation
            /\ committed' = Candidate(t, previous[t])]_transitionVars

\* Every admitted transition settles: stale, aborted, failed or disposed of, none
\* keeps those behind it waiting.  (Each is requested once, so that in the end none
\* is pending.)
TransitionSettles == <>[](\A t \in Transitions : turn[t] \in {"new", "settled"})
=============================================================================
