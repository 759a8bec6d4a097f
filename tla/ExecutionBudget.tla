--------------------------- MODULE ExecutionBudget ---------------------------
(***************************************************************************)
(* The host-wide budget of heavy jobs:                                     *)
(* packages/core/doompi-core/src/services/executionBudget/index.ts, with   *)
(* the life of a job as the runner has it (bashRunService/index.ts).       *)
(*                                                                         *)
(* The processes of one machine share a table of leases in SQLite and each *)
(* queue their own jobs.  The database never waits: a statement that finds *)
(* it locked is tried again a little later.  A process may be killed; the  *)
(* child that runs its job may outlive it, and its lease then counts for   *)
(* as long as the child lives, provided its pid was recorded.              *)
(***************************************************************************)
EXTENDS Naturals, SequencesExt

CONSTANTS
  Hosts,     \* processes with a budget
  Jobs,      \* heavy commands, each run once
  Owner,     \* the process of a job
  Limit,     \* the limit each process was started with
  MaxQueued  \* the most jobs that wait in one process

ASSUME BudgetAssumption ==
  /\ IsFiniteSet(Jobs)
  /\ Owner \in [Jobs -> Hosts]
  /\ Limit \in [Hosts -> Nat \ {0}]
  /\ MaxQueued \in Nat

VARIABLES
  up,      \* the processes that were not killed
  closed,  \* those whose budget was closed
  queue,   \* the jobs that wait in a process, the oldest first
  job,     \* how far a job got; "released" until its lease is deleted
  lease,   \* its row: absent, without, or with the pid of its child
  child    \* the process that runs it

budgetVars == <<up, closed, queue, job, lease, child>>

Outcomes == {"refused", "ended"}

BudgetInit ==
  /\ up = Hosts /\ closed = {}
  /\ queue = [h \in Hosts |-> <<>>]
  /\ job = [j \in Jobs |-> "new"]
  /\ lease = [j \in Jobs |-> "none"]
  /\ child = [j \in Jobs |-> "none"]

-----------------------------------------------------------------------------
(* claim() and drain()                                                     *)

\* Faulty variant of Alive: the child of a dead process is not asked for.
AliveOwner(j) == Owner[j] \in up

\* Faulty variant of Alive: a lease counts until it is released.
AliveForever(j) == TRUE

\* The process that holds a lease, or the child it left behind, is alive.
Alive(j) == Owner[j] \in up \/ (lease[j] = "child" /\ child[j] = "running")

Leases == {j \in Jobs : lease[j] # "none" /\ Alive(j)}

\* What getSnapshot() calls running.
Owned(h, jobs) == {j \in Jobs : Owner[j] = h /\ jobs[j] \in {"granted", "running", "released"}}

\* Faulty variant of Room: a process looks at its own limit alone.
RoomForOwn(h, live, owned, n) ==
  Cardinality(live) + n <= Limit[h] /\ Cardinality(owned) + n <= Limit[h]

\* The least limit of the live leases, and the claimant's own, bounds them all.
Room(h, live, owned, n) ==
  /\ Cardinality(live) + n <= Limit[h]
  /\ \A j \in live : Cardinality(live) + n <= Limit[Owner[j]]
  /\ Cardinality(owned) + n <= Limit[h]

\* The leases of gone are deleted, n jobs of q are admitted, and whoever looks
\* into the table clears it of the dead.
Served(h, q, jobs, gone, n, look) ==
  LET granted == {q[i] : i \in 1..n} IN
  /\ job' = [j \in Jobs |-> IF j \in gone THEN "ended"
                            ELSE IF j \in granted THEN "granted" ELSE jobs[j]]
  /\ lease' = [j \in Jobs |-> IF j \in granted THEN "bare"
                              ELSE IF j \in gone \/ (look /\ ~Alive(j)) THEN "none"
                              ELSE lease[j]]
  /\ queue' = [queue EXCEPT ![h] = SubSeq(q, n + 1, Len(q))]

Released(h, jobs) == {j \in Jobs : Owner[j] = h /\ jobs[j] = "released"}

MayAdmit(h, q, jobs, gone, n) ==
  /\ h \notin closed /\ n \in 1..Len(q)
  /\ Room(h, Leases \ gone, Owned(h, jobs) \ gone, n)

\* A drain deletes and admits until it finds the database locked.
Drained(h, q, jobs) ==
  \E gone \in SUBSET Released(h, jobs), n \in 0..Len(q), look \in BOOLEAN :
    /\ n > 0 => look /\ MayAdmit(h, q, jobs, gone, n)
    /\ look => q # <<>> /\ h \notin closed
    /\ Served(h, q, jobs, gone, n, look)

\* A drain that never finds it locked.
DrainedFully(h, q, jobs) ==
  LET gone == Released(h, jobs)
      look == q # <<>> /\ h \notin closed IN
  \E n \in 0..Len(q) :
    /\ n > 0 => MayAdmit(h, q, jobs, gone, n)
    /\ ~MayAdmit(h, q, jobs, gone, n + 1)
    /\ Served(h, q, jobs, gone, n, look)

\* Every 100 ms while somebody waits or a lease is to be deleted.
Waits(h) == h \in up /\ (queue[h] # <<>> \/ Released(h, job) # {})

Retry(h) ==
  /\ Waits(h)
  /\ Drained(h, queue[h], job)
  /\ UNCHANGED <<up, closed, child>>

RetryUnlocked(h) ==
  /\ Waits(h)
  /\ Released(h, job) # {} \/ MayAdmit(h, queue[h], job, {}, 1)
  /\ DrainedFully(h, queue[h], job)
  /\ UNCHANGED <<up, closed, child>>

\* An error other than a locked database rejects whoever waits.
RetryThrows(h) ==
  /\ Waits(h)
  /\ job' = [j \in Jobs |-> IF Owner[j] = h /\ job[j] = "waiting" THEN "refused" ELSE job[j]]
  /\ queue' = [queue EXCEPT ![h] = <<>>]
  /\ UNCHANGED <<up, closed, lease, child>>

-----------------------------------------------------------------------------
(* acquire(), its abort, and close()                                       *)

Queued(h, j) ==
  IF Len(queue[h]) < MaxQueued
    THEN /\ job' = [job EXCEPT ![j] = "waiting"]
         /\ queue' = [queue EXCEPT ![h] = Append(queue[h], j)]
    ELSE job' = [job EXCEPT ![j] = "refused"] /\ UNCHANGED queue

\* Faulty variant of Request: a job that comes while others wait is admitted.
RequestBarging(j) ==
  LET h == Owner[j] IN
  /\ h \in up /\ job[j] = "new"
  /\ \/ h \in closed /\ job' = [job EXCEPT ![j] = "refused"] /\ UNCHANGED <<queue, lease>>
     \/ /\ h \notin closed /\ Room(h, Leases, Owned(h, job), 1)
        /\ job' = [job EXCEPT ![j] = "granted"]
        /\ lease' = [lease EXCEPT ![j] = "bare"]
        /\ UNCHANGED queue
     \/ h \notin closed /\ Queued(h, j) /\ UNCHANGED lease
  /\ UNCHANGED <<up, closed, child>>

\* Admitted at once only if nobody waits; refused by an error, or queued because
\* there is no room or the database is locked.
Request(j) ==
  LET h == Owner[j] IN
  /\ h \in up /\ job[j] = "new"
  /\ \/ job' = [job EXCEPT ![j] = "refused"] /\ UNCHANGED <<queue, lease>>
     \/ /\ h \notin closed /\ queue[h] = <<>> /\ Room(h, Leases, Owned(h, job), 1)
        /\ Served(h, <<j>>, job, {}, 1, TRUE)
     \/ h \notin closed /\ Queued(h, j) /\ UNCHANGED lease
  /\ UNCHANGED <<up, closed, child>>

\* The request is withdrawn while it waits.
Abort(j) ==
  LET h == Owner[j] IN
  /\ h \in up /\ job[j] = "waiting"
  /\ \E i \in DOMAIN queue[h] :
       /\ queue[h][i] = j
       /\ Drained(h, RemoveAt(queue[h], i), [job EXCEPT ![j] = "refused"])
  /\ UNCHANGED <<up, closed, child>>

Close(h) ==
  /\ h \in up \ closed
  /\ closed' = closed \cup {h}
  /\ \E gone \in SUBSET Released(h, job) :
       Served(h, <<>>,
              [j \in Jobs |-> IF Owner[j] = h /\ job[j] = "waiting" THEN "refused" ELSE job[j]],
              gone, 0, FALSE)
  /\ UNCHANGED <<up, child>>

-----------------------------------------------------------------------------
(* A job that was admitted.                                                *)

Launch(j) ==
  /\ Owner[j] \in up /\ job[j] = "granted"
  /\ job' = [job EXCEPT ![j] = "running"]
  /\ child' = [child EXCEPT ![j] = "running"]
  /\ UNCHANGED <<up, closed, queue, lease>>

\* release(), and the drain that follows it.
GivesBack(j) ==
  /\ Drained(Owner[j], queue[Owner[j]], [job EXCEPT ![j] = "released"])
  /\ UNCHANGED <<up, closed, child>>

\* The command was aborted, or did not start.
LaunchFails(j) == Owner[j] \in up /\ job[j] = "granted" /\ GivesBack(j)

\* attachProcess(): the pid is recorded, a while after the child started.
Attach(j) ==
  /\ Owner[j] \in up /\ job[j] = "running" /\ lease[j] = "bare"
  /\ lease' = [lease EXCEPT ![j] = "child"]
  /\ UNCHANGED <<up, closed, queue, job, child>>

\* By itself, or stopped by the process that runs it.
ChildExits(j) ==
  /\ child[j] = "running"
  /\ child' = [child EXCEPT ![j] = "exited"]
  /\ UNCHANGED <<up, closed, queue, job, lease>>

\* The slot is given back when the child has exited, not before.
Complete(j) ==
  /\ Owner[j] \in up /\ job[j] = "running" /\ child[j] = "exited"
  /\ GivesBack(j)

\* The table and the children stay.
HostDies(h) ==
  /\ h \in up
  /\ up' = up \ {h}
  /\ queue' = [queue EXCEPT ![h] = <<>>]
  /\ job' = [j \in Jobs |-> IF Owner[j] # h \/ job[j] \in {"new"} \cup Outcomes THEN job[j]
                            ELSE IF job[j] = "waiting" THEN "refused" ELSE "ended"]
  /\ UNCHANGED <<closed, lease, child>>

-----------------------------------------------------------------------------
JobStep(j) ==
  \/ Request(j) \/ Abort(j) \/ Launch(j) \/ LaunchFails(j) \/ Attach(j)
  \/ ChildExits(j) \/ Complete(j)

BudgetNext ==
  \/ \E j \in Jobs : JobStep(j)
  \/ \E h \in Hosts : Retry(h) \/ RetryThrows(h) \/ Close(h) \/ HostDies(h)

BudgetSpec == BudgetInit /\ [][BudgetNext]_budgetVars

\* An admitted job is launched or given back, children exit and are noticed, and
\* the database is not locked at every retry.
BudgetFair ==
  /\ \A j \in Jobs :
       WF_budgetVars(Launch(j) \/ LaunchFails(j) \/ ChildExits(j) \/ Complete(j))
  /\ \A h \in Hosts : WF_budgetVars(RetryUnlocked(h))

-----------------------------------------------------------------------------
(* Properties *)

Progress == {"new", "waiting", "granted", "running", "released"} \cup Outcomes

BudgetTypeOK ==
  /\ up \subseteq Hosts /\ closed \subseteq Hosts
  /\ queue \in [Hosts -> Seq(Jobs)]
  /\ job \in [Jobs -> Progress]
  /\ lease \in [Jobs -> {"none", "bare", "child"}]
  /\ child \in [Jobs -> {"none", "running", "exited"}]

\* A queue holds jobs of its process that wait, each once; the dead have none.
QueueInv ==
  /\ \A h \in Hosts : \A i \in DOMAIN queue[h] :
       /\ Owner[queue[h][i]] = h /\ job[queue[h][i]] = "waiting"
       /\ \A k \in DOMAIN queue[h] : queue[h][i] = queue[h][k] => i = k
  /\ \A h \in Hosts \ up : queue[h] = <<>>

\* A job has its lease from its admission until it gives it back, which it does
\* only when its child has exited.
LeaseInv ==
  \A j \in Jobs :
    /\ job[j] \in {"new", "waiting", "refused"} => lease[j] = "none"
    /\ job[j] \in {"granted", "running", "released"} => lease[j] # "none" /\ Owner[j] \in up
    /\ job[j] \in {"new", "waiting", "refused", "granted"} => child[j] = "none"
    /\ job[j] = "running" <=> child[j] # "none" /\ job[j] \notin {"released", "ended"}
    /\ job[j] = "released" \/ (job[j] = "ended" /\ Owner[j] \in up) => child[j] # "running"
    /\ lease[j] = "child" => child[j] # "none"

BudgetInv == BudgetTypeOK /\ QueueInv /\ LeaseInv

\* The leases never exceed the limit of any process that holds one, whichever
\* limits the processes were started with and whoever was killed.
LimitKept == \A j \in Leases : Cardinality(Leases) <= Limit[Owner[j]]

\* The slot of a job is not given away while its child runs: neither under its
\* process nor, if the pid had been recorded, after the process was killed.
SlotKept ==
  [][\A j \in Jobs :
       /\ lease[j] # "none" /\ child[j] = "running" /\ child'[j] = "running"
       /\ Owner[j] \in up' \/ lease[j] = "child"
       => lease'[j] # "none"]_budgetVars

\* The jobs of a process that came before j and still wait.
Before(j) ==
  LET q == queue[Owner[j]] IN
  {q[i] : i \in {i \in DOMAIN q : \A k \in 1..i : q[k] # j}}

InOrder ==
  \A j \in Jobs : job[j] # "granted" /\ job'[j] = "granted"
    => \A i \in Before(j) : job'[i] # "waiting"

\* The jobs of one process are admitted in the order in which they came.
Fifo == [][InOrder]_budgetVars

\* Nobody waits for ever: slots of the dead are found, and no wake-up is lost.
\* (Each job is queued once at most, so that in the end none waits.)
WaiterServed == <>[](\A j \in Jobs : job[j] # "waiting")
=============================================================================
