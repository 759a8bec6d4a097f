----------------------------- MODULE NativeLane -----------------------------
(***************************************************************************)
(* The native conversation lane that DoomPi drives (@earendil-works/       *)
(* pi-durable, a dependency outside src/).  Only what directHarnessRuntime *)
(* relies on is modelled: submissions deduplicated by request identity, an *)
(* inbox, one run at a time, cancellation, and the run_end event stream.   *)
(*                                                                         *)
(* A request is an input and the number of its attempt, the pair that      *)
(* directHarnessRuntime prints as `${id}:${attempt}`.  A run is identified *)
(* by its first input, as in nativeExecution.  Which queued inputs a       *)
(* boundary takes depends on queue modes kept outside this model, so a     *)
(* boundary may take any nonempty set of them.                             *)
(***************************************************************************)
EXTENDS Integers, FiniteSets

CONSTANTS
  Inputs,      \* identities of user inputs
  MaxAttempt,  \* bound: attempts of one input are numbered 0..MaxAttempt
  None         \* the absent value: no operation, no input, no process

ASSUME MaxAttemptAssumption == MaxAttempt \in Nat

Attempts == 0..MaxAttempt
Req == Inputs \X Attempts

ASSUME NoneAssumption == None \notin Inputs /\ None \notin Req

VARIABLES
  sub,          \* durable: the native receipt of each request
  runHead,      \* durable: the first input of the live run, or None
  runInputs,    \* durable: every input placed in the live run
  runAborting,  \* durable: cancellation of the live run was requested
  unseen        \* run_end events the watcher has not received yet

lane == <<sub, runHead, runInputs, runAborting>>
native == <<lane, unseen>>

Status == {"none", "queued", "placed", "done", "failed", "stopped", "withdrawn"}
Placed == {"placed", "done", "failed", "stopped"}   \* receipts with an entry
Final == {"done", "failed", "stopped", "withdrawn"} \* receipts that settled

LaneTypeOK ==
  /\ sub \in [Req -> Status]
  /\ runHead \in Req \cup {None}
  /\ runInputs \subseteq Req
  /\ runAborting \in BOOLEAN
  /\ unseen \in Nat

LaneInit ==
  /\ sub = [r \in Req |-> "none"]
  /\ runHead = None
  /\ runInputs = {}
  /\ runAborting = FALSE
  /\ unseen = 0

Queued == {r \in Req : sub[r] = "queued"}

\* The run that a boundary starts with the inputs S, placing them in the
\* transcript; others keeps or changes the receipts of the rest.
StartRun(S, others) ==
  /\ sub' = [r \in Req |-> IF r \in S THEN "placed" ELSE others[r]]
  /\ \E h \in S : runHead' = h
  /\ runInputs' = S
  /\ runAborting' = FALSE

\* Admission to an idle lane.  A stranded inbox is drained by the same
\* boundary, so the new input may have to wait behind it.
SubmitIdle(r) ==
  /\ runHead = None
  /\ \E S \in (SUBSET (Queued \cup {r})) \ {{}} :
        StartRun(S, [sub EXCEPT ![r] = "queued"])

\* Admission to a busy lane as a steer waits in the inbox.
SubmitBusy(r) ==
  /\ runHead # None
  /\ sub' = [sub EXCEPT ![r] = "queued"]
  /\ UNCHANGED <<runHead, runInputs, runAborting>>

\* conversation.submit: a known request is answered with its first receipt.
Submit(r, whenBusy) ==
  IF sub[r] # "none" THEN UNCHANGED lane
  ELSE SubmitIdle(r) \/ (whenBusy = "steer" /\ SubmitBusy(r))

\* A reject submission finds the lane busy: the call throws and leaves no receipt.
Refuses(r, whenBusy) == sub[r] = "none" /\ whenBusy = "reject" /\ runHead # None

\* conversation.abort: cancels whichever run is live and withdraws the inbox.
Abort ==
  /\ sub' = [r \in Req |-> IF sub[r] = "queued" THEN "withdrawn" ELSE sub[r]]
  /\ runAborting' = (runHead # None)
  /\ UNCHANGED <<runHead, runInputs>>

\* harness.abortSubmission on an input that is still queued.
Withdraw(r) ==
  /\ sub[r] = "queued"
  /\ sub' = [sub EXCEPT ![r] = "withdrawn"]
  /\ UNCHANGED <<runHead, runInputs, runAborting>>

\* A steering boundary inside the live run places queued inputs in it.
PlaceQueued ==
  /\ runHead # None
  /\ ~runAborting
  /\ \E S \in (SUBSET Queued) \ {{}} :
        /\ sub' = [r \in Req |-> IF r \in S THEN "placed" ELSE sub[r]]
        /\ runInputs' = runInputs \cup S
  /\ UNCHANGED <<runHead, runAborting, unseen>>

Outcomes == IF runAborting THEN {"stopped"} ELSE {"done", "failed"}

\* The final boundary commits the outcome of the live run.  A completed run
\* hands a nonempty inbox to a successor; a failed one may strand it.
EndRun ==
  /\ runHead # None
  /\ \E outcome \in Outcomes :
       LET ended == [r \in Req |-> IF r \in runInputs THEN outcome ELSE sub[r]]
       IN \/ \E S \in (SUBSET Queued) \ {{}} : StartRun(S, ended)
          \/ /\ outcome = "done" => Queued = {}
             /\ sub' = ended
             /\ runHead' = None
             /\ runInputs' = {}
             /\ runAborting' = FALSE
  /\ unseen' = unseen + 1
=============================================================================
