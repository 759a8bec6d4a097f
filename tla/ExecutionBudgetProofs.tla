------------------------ MODULE ExecutionBudgetProofs ------------------------
(***************************************************************************)
(* The leases of heavy jobs stay within every limit, and a slot is kept    *)
(* while its child runs, for all processes, jobs, limits and queue sizes.  *)
(***************************************************************************)
EXTENDS ExecutionBudget, FiniteSetTheorems, TLAPS

USE BudgetAssumption

\* The jobs that a drain admits.
Granted(q, n) == {q[i] : i \in 1..n}

\* The leases that count after a step.
LeasesBecome(S) == Leases' = S

\* LeaseInv of a table of jobs that a drain is about to write.
LeaseOf(jobs) ==
  \A j \in Jobs :
    /\ jobs[j] \in {"new", "waiting", "refused"} => lease[j] = "none"
    /\ jobs[j] \in {"granted", "running", "released"} => lease[j] # "none" /\ Owner[j] \in up
    /\ jobs[j] \in {"new", "waiting", "refused", "granted"} => child[j] = "none"
    /\ jobs[j] = "running" <=> child[j] # "none" /\ jobs[j] \notin {"released", "ended"}
    /\ jobs[j] = "released" \/ (jobs[j] = "ended" /\ Owner[j] \in up) => child[j] # "running"
    /\ lease[j] = "child" => child[j] # "none"

\* What a drain of h starts from: the jobs q wait or just came, those it does not
\* admit wait, and the jobs of other processes are as they were.
Drainable(h, q, jobs, n) ==
  /\ jobs \in [Jobs -> Progress] /\ LeaseOf(jobs)
  /\ \A j \in Jobs : Owner[j] # h => jobs[j] = job[j]
  /\ \A i \in DOMAIN q :
       /\ Owner[q[i]] = h /\ jobs[q[i]] \in {"new", "waiting"}
       /\ i > n => jobs[q[i]] = "waiting"
       /\ \A k \in DOMAIN q : q[i] = q[k] => i = k

-----------------------------------------------------------------------------
\* The leases after a drain are those it left and those it granted.
LEMMA ServedLeases ==
  ASSUME BudgetInv, NEW h \in up, NEW q \in Seq(Jobs), NEW jobs, NEW n \in 0..Len(q),
         NEW gone \in SUBSET Released(h, jobs), NEW look \in BOOLEAN,
         Drainable(h, q, jobs, n), Served(h, q, jobs, gone, n, look), up' = up, child' = child
  PROVE  LeasesBecome((Leases \ gone) \cup Granted(q, n))
<1> DEFINE granted == Granted(q, n)
<1>1. granted \subseteq Jobs /\ \A j \in granted : Owner[j] = h /\ jobs[j] # "released"
  BY DEF Drainable, Granted
<1>2. \A j \in Jobs : lease'[j] = IF j \in granted THEN "bare"
                                  ELSE IF j \in gone \/ (look /\ ~Alive(j)) THEN "none"
                                  ELSE lease[j]
  BY DEF Served, Granted
<1>3. gone \cap granted = {}
  BY <1>1 DEF Released
<1>4. ASSUME NEW j \in Jobs
      PROVE  j \in Leases' <=> j \in (Leases \ gone) \cup granted
  <2>1. CASE j \in granted
    BY <1>1, <1>2, <2>1 DEF Leases, Alive
  <2>2. CASE j \notin granted
    <3>1. j \in gone => j \notin Leases'
      BY <1>2, <2>2 DEF Leases
    <3>2. ASSUME j \notin gone PROVE j \in Leases' <=> j \in Leases
      <4>1. CASE look /\ ~Alive(j)
        BY <1>2, <2>2, <3>2, <4>1 DEF Leases
      <4>2. CASE ~(look /\ ~Alive(j))
        <5>1. lease'[j] = lease[j]
          BY <1>2, <2>2, <3>2, <4>2
        <5> QED BY <5>1 DEF Leases, Alive
      <4> QED BY <4>1, <4>2
    <3> QED BY <2>2, <3>1, <3>2
  <2> QED BY <2>1, <2>2
<1> QED BY <1>1, <1>4 DEF Leases, LeasesBecome

\* A drain keeps the invariant.
LEMMA ServedKeeps ==
  ASSUME BudgetInv, NEW h \in up, NEW q \in Seq(Jobs), NEW jobs, NEW n \in 0..Len(q),
         NEW gone \in SUBSET Released(h, jobs), NEW look \in BOOLEAN,
         Drainable(h, q, jobs, n), Served(h, q, jobs, gone, n, look),
         up' = up, child' = child, closed' \subseteq Hosts
  PROVE  BudgetInv'
<1> DEFINE granted == {q[i] : i \in 1..n}
<1>1. granted \subseteq Jobs /\ \A j \in granted : Owner[j] = h /\ jobs[j] \in {"new", "waiting"}
  BY DEF Drainable
<1>2. \A j \in gone : j \in Jobs /\ Owner[j] = h /\ jobs[j] = "released"
  BY DEF Released
<1>3. /\ job' = [j \in Jobs |-> IF j \in gone THEN "ended"
                               ELSE IF j \in granted THEN "granted" ELSE jobs[j]]
      /\ lease' = [j \in Jobs |-> IF j \in granted THEN "bare"
                                 ELSE IF j \in gone \/ (look /\ ~Alive(j)) THEN "none"
                                 ELSE lease[j]]
      /\ queue' = [queue EXCEPT ![h] = SubSeq(q, n + 1, Len(q))]
  BY DEF Served
<1>4. h \in Hosts /\ up \subseteq Hosts
  BY DEF BudgetInv, BudgetTypeOK
<1>5. SubSeq(q, n + 1, Len(q)) \in Seq(Jobs)
  OBVIOUS
<1>6. BudgetTypeOK'
  <2>1. queue' \in [Hosts -> Seq(Jobs)]
    BY <1>3, <1>5 DEF BudgetInv, BudgetTypeOK
  <2>2. job' \in [Jobs -> Progress]
    BY <1>3 DEF Drainable, Progress, Outcomes
  <2>3. lease' \in [Jobs -> {"none", "bare", "child"}]
    BY <1>3 DEF BudgetInv, BudgetTypeOK
  <2> QED BY <2>1, <2>2, <2>3 DEF BudgetInv, BudgetTypeOK
<1>7. QueueInv'
  <2>1. ASSUME NEW g \in Hosts, NEW i \in DOMAIN queue'[g]
        PROVE  /\ Owner[queue'[g][i]] = g /\ job'[queue'[g][i]] = "waiting"
               /\ \A k \in DOMAIN queue'[g] : queue'[g][i] = queue'[g][k] => i = k
    <3>1. CASE g = h
      <4>1. queue'[g] = SubSeq(q, n + 1, Len(q))
        BY <1>3, <1>4, <3>1 DEF BudgetInv, BudgetTypeOK
      <4>2. /\ DOMAIN queue'[g] = 1..(Len(q) - n)
            /\ \A k \in 1..(Len(q) - n) : queue'[g][k] = q[n + k]
        BY <4>1, SMTT(30)
      <4>3. \A k \in 1..(Len(q) - n) : n + k \in DOMAIN q /\ n + k > n
        OBVIOUS
      <4>4. q[n + i] \notin granted /\ q[n + i] \in Jobs /\ jobs[q[n + i]] = "waiting"
            /\ Owner[q[n + i]] = h
        <5>1. i \in 1..(Len(q) - n) /\ n + i \in DOMAIN q /\ n + i > n
          BY <4>2, <4>3
        <5>2. q[n + i] \in Jobs
          BY <5>1
        <5>3. jobs[q[n + i]] = "waiting" /\ Owner[q[n + i]] = h
          BY <5>1 DEF Drainable
        <5>4. \A k \in 1..n : k \in DOMAIN q /\ k # n + i
          BY <5>1
        <5>5. \A k \in 1..n : q[k] # q[n + i]
          BY <5>1, <5>4 DEF Drainable
        <5> QED BY <5>2, <5>3, <5>5
      <4>5. job'[q[n + i]] = "waiting"
        BY <1>2, <1>3, <4>4
      <4>6. \A k \in 1..(Len(q) - n) : q[n + i] = q[n + k] => i = k
        BY <4>2, <4>3 DEF Drainable
      <4> QED BY <3>1, <4>2, <4>4, <4>5, <4>6
    <3>2. CASE g # h
      <4>1. queue'[g] = queue[g] /\ queue[g] \in Seq(Jobs)
        BY <1>3, <3>2 DEF BudgetInv, BudgetTypeOK
      <4>2. queue[g][i] \in Jobs /\ Owner[queue[g][i]] = g /\ job[queue[g][i]] = "waiting"
        BY <4>1 DEF BudgetInv, QueueInv
      <4>3. queue[g][i] \notin gone \cup granted /\ jobs[queue[g][i]] = "waiting"
        BY <1>1, <1>2, <3>2, <4>2 DEF Drainable
      <4>4. job'[queue[g][i]] = "waiting"
        BY <1>3, <4>2, <4>3
      <4> QED BY <4>1, <4>2, <4>4 DEF BudgetInv, QueueInv
    <3> QED BY <3>1, <3>2
  <2>2. \A g \in Hosts \ up : queue'[g] = <<>>
    BY <1>3, <1>4 DEF BudgetInv, BudgetTypeOK, QueueInv
  <2> QED BY <2>1, <2>2 DEF QueueInv
<1>8. LeaseInv'
  <2> SUFFICES ASSUME NEW j \in Jobs
               PROVE  /\ job'[j] \in {"new", "waiting", "refused"} => lease'[j] = "none"
                      /\ job'[j] \in {"granted", "running", "released"}
                           => lease'[j] # "none" /\ Owner[j] \in up
                      /\ job'[j] \in {"new", "waiting", "refused", "granted"} => child[j] = "none"
                      /\ job'[j] = "running"
                           <=> child[j] # "none" /\ job'[j] \notin {"released", "ended"}
                      /\ job'[j] = "released" \/ (job'[j] = "ended" /\ Owner[j] \in up)
                           => child[j] # "running"
                      /\ lease'[j] = "child" => child[j] # "none"
    BY DEF LeaseInv
  <2> /\ jobs[j] \in {"new", "waiting", "refused"} => lease[j] = "none"
      /\ jobs[j] \in {"granted", "running", "released"} => lease[j] # "none" /\ Owner[j] \in up
      /\ jobs[j] \in {"new", "waiting", "refused", "granted"} => child[j] = "none"
      /\ jobs[j] = "running" <=> child[j] # "none" /\ jobs[j] \notin {"released", "ended"}
      /\ jobs[j] = "released" \/ (jobs[j] = "ended" /\ Owner[j] \in up) => child[j] # "running"
      /\ lease[j] = "child" => child[j] # "none"
    BY DEF Drainable, LeaseOf
  <2>1. CASE j \in granted
    <3>1. job'[j] = "granted" /\ lease'[j] = "bare"
      BY <1>1, <1>2, <1>3, <2>1
    <3> QED BY <1>1, <2>1, <3>1
  <2>2. CASE j \in gone /\ j \notin granted
    <3>1. job'[j] = "ended" /\ lease'[j] = "none"
      BY <1>3, <2>2
    <3> QED BY <1>2, <2>2, <3>1
  <2>3. CASE j \notin gone /\ j \notin granted
    <3>1. job'[j] = jobs[j]
      BY <1>3, <2>3
    <3>2. lease'[j] = lease[j] \/ (lease'[j] = "none" /\ ~Alive(j))
      BY <1>3, <2>3
    <3>3. Owner[j] \in up => Alive(j)
      BY DEF Alive
    <3> QED BY <3>1, <3>2, <3>3
  <2> QED BY <2>1, <2>2, <2>3
<1> QED BY <1>6, <1>7, <1>8 DEF BudgetInv

-----------------------------------------------------------------------------
\* The jobs a drain admits are no more than it admits.
LEMMA GrantedBound ==
  ASSUME NEW q \in Seq(Jobs), NEW n \in 0..Len(q)
  PROVE  IsFiniteSet(Granted(q, n)) /\ Cardinality(Granted(q, n)) <= n
<1> DEFINE granted == Granted(q, n)
           f == [i \in 1..n |-> q[i]]
<1>1. f \in Surjection(1..n, granted)
  BY DEF Surjection, Granted
<1>2. IsFiniteSet(1..n) /\ Cardinality(1..n) = n
  BY FS_Interval
<1> HIDE DEF granted, f
<1>3. IsFiniteSet(granted) /\ Cardinality(granted) <= Cardinality(1..n)
  BY <1>1, <1>2, FS_Surjection
<1> QED BY <1>2, <1>3 DEF granted

LEMMA LeasesFinite == IsFiniteSet(Leases) /\ Leases \subseteq Jobs
BY FS_Subset DEF Leases

\* Fewer leases keep within the limits.
LEMMA FewerLeases ==
  ASSUME LimitKept, NEW S \in SUBSET Leases
  PROVE  \A j \in S : Cardinality(S) <= Limit[Owner[j]]
<1>1. IsFiniteSet(S) /\ Cardinality(S) <= Cardinality(Leases)
  BY LeasesFinite, FS_Subset
<1>2. Cardinality(S) \in Nat /\ Cardinality(Leases) \in Nat
  BY <1>1, LeasesFinite, FS_CardinalityType
<1>3. \A j \in S : Limit[Owner[j]] \in Nat /\ Cardinality(Leases) <= Limit[Owner[j]]
  BY LeasesFinite DEF LimitKept
<1> QED BY <1>1, <1>2, <1>3

\* What a drain admits keeps within the limits of all.
LEMMA ServedLimit ==
  ASSUME BudgetInv, LimitKept, NEW h \in up, NEW q \in Seq(Jobs), NEW jobs,
         NEW n \in 0..Len(q), NEW gone \in SUBSET Released(h, jobs), NEW look \in BOOLEAN,
         Drainable(h, q, jobs, n), Served(h, q, jobs, gone, n, look), up' = up, child' = child,
         NEW owned, n > 0 => Room(h, Leases \ gone, owned, n)
  PROVE  LimitKept'
<1>0. LeasesBecome((Leases \ gone) \cup Granted(q, n))
  BY ServedLeases
<1> DEFINE granted == Granted(q, n)
           live == Leases \ gone
<1>1. Leases' = live \cup granted
  BY <1>0 DEF LeasesBecome
<1>2. IsFiniteSet(granted) /\ Cardinality(granted) <= n
  BY GrantedBound
<1>3. IsFiniteSet(live) /\ live \subseteq Jobs
  BY LeasesFinite, FS_Subset
<1>4. \A j \in granted : Owner[j] = h
  BY DEF Drainable, Granted
<1>5. h \in Hosts
  BY DEF BudgetInv, BudgetTypeOK
<1> HIDE DEF granted, live
<1>6. CASE n = 0
  <2>1. granted = {}
    BY <1>6 DEF granted, Granted
  <2>2. Leases' \in SUBSET Leases
    BY <1>1, <2>1 DEF live
  <2> QED BY <2>2, FewerLeases DEF LimitKept
<1>7. CASE n > 0
  <2>1. /\ Cardinality(live) \in Nat /\ Cardinality(granted) \in Nat
        /\ Cardinality(live \cap granted) \in Nat
    BY <1>2, <1>3, FS_CardinalityType, FS_Intersection
  <2>2. Cardinality(live \cup granted) <= Cardinality(live) + n
    <3>1. Cardinality(live \cup granted)
            = Cardinality(live) + Cardinality(granted) - Cardinality(live \cap granted)
      BY <1>2, <1>3, FS_Union
    <3> QED BY <1>2, <2>1, <3>1
  <2>3. Cardinality(live \cup granted) \in Nat
    BY <1>2, <1>3, FS_Union, FS_CardinalityType
  <2>4. /\ Cardinality(live) + n <= Limit[h]
        /\ \A j \in live : Cardinality(live) + n <= Limit[Owner[j]]
    BY <1>7 DEF Room, live
  <2>5. \A j \in live \cup granted : Cardinality(live \cup granted) <= Limit[Owner[j]]
    <3>1. \A j \in live : Limit[Owner[j]] \in Nat
      BY <1>3
    <3>2. Limit[h] \in Nat
      BY <1>5
    <3> QED BY <1>4, <2>1, <2>2, <2>3, <2>4, <3>1, <3>2
  <2> QED BY <1>1, <2>5 DEF LimitKept
<1> QED BY <1>6, <1>7

\* The next value of SlotKept's action, as a state-and-step formula.
SlotStep ==
  \A j \in Jobs :
    /\ lease[j] # "none" /\ child[j] = "running" /\ child'[j] = "running"
    /\ Owner[j] \in up' \/ lease[j] = "child"
    => lease'[j] # "none"

\* A drain takes the lease of no job whose child runs.
LEMMA ServedSlots ==
  ASSUME BudgetInv, NEW h \in up, NEW q \in Seq(Jobs), NEW jobs, NEW n \in 0..Len(q),
         NEW gone \in SUBSET Released(h, jobs), NEW look \in BOOLEAN,
         Drainable(h, q, jobs, n), Served(h, q, jobs, gone, n, look), up' = up, child' = child
  PROVE  SlotStep
<1> SUFFICES ASSUME NEW j \in Jobs,
                    lease[j] # "none", child[j] = "running",
                    Owner[j] \in up \/ lease[j] = "child"
             PROVE  lease'[j] # "none"
  BY DEF SlotStep
<1>1. Alive(j)
  BY DEF Alive
<1>2. j \notin gone
  BY DEF Released, Drainable, LeaseOf
<1>3. lease'[j] \in {"bare", lease[j]}
  BY <1>1, <1>2 DEF Served
<1> QED BY <1>3

\* What the three lemmas say of a drain.
LEMMA DrainedStep ==
  ASSUME BudgetInv, LimitKept, NEW h \in up, NEW q \in Seq(Jobs), NEW jobs,
         \A n \in 0..Len(q) : Drainable(h, q, jobs, n), Drained(h, q, jobs),
         up' = up, closed' = closed, child' = child
  PROVE  BudgetInv' /\ LimitKept' /\ SlotStep
<1>1. PICK gone \in SUBSET Released(h, jobs), n \in 0..Len(q), look \in BOOLEAN :
        /\ n > 0 => look /\ MayAdmit(h, q, jobs, gone, n)
        /\ Served(h, q, jobs, gone, n, look)
  BY DEF Drained
<1>2. n > 0 => Room(h, Leases \ gone, Owned(h, jobs) \ gone, n)
  BY <1>1 DEF MayAdmit
<1>3. Drainable(h, q, jobs, n)
  OBVIOUS
<1>4. closed' \subseteq Hosts
  BY DEF BudgetInv, BudgetTypeOK
<1>5. BudgetInv'
  BY <1>1, <1>3, <1>4, ServedKeeps
<1>6. LimitKept'
  BY <1>1, <1>2, <1>3, ServedLimit
<1>7. SlotStep
  BY <1>1, <1>3, ServedSlots
<1> QED BY <1>5, <1>6, <1>7

-----------------------------------------------------------------------------
(* The steps.                                                              *)

StepKeeps == BudgetInv' /\ LimitKept' /\ SlotStep

\* The queue of a process can be drained as it is, and after a job of the
\* process whose child does not run gave its slot back.
LEMMA QueueDrainable ==
  ASSUME BudgetInv, NEW h \in up
  PROVE  /\ queue[h] \in Seq(Jobs)
         /\ \A n \in 0..Len(queue[h]) : Drainable(h, queue[h], job, n)
<1>1. h \in Hosts /\ queue[h] \in Seq(Jobs)
  BY DEF BudgetInv, BudgetTypeOK
<1>2. LeaseOf(job)
  BY DEF BudgetInv, LeaseInv, LeaseOf
<1> QED BY <1>1, <1>2 DEF BudgetInv, BudgetTypeOK, QueueInv, Drainable

LEMMA GivesBackStep ==
  ASSUME BudgetInv, LimitKept, NEW j \in Jobs, Owner[j] \in up,
         job[j] = "granted" \/ (job[j] = "running" /\ child[j] = "exited"), GivesBack(j)
  PROVE  StepKeeps
<1> DEFINE h == Owner[j]
           jobs == [job EXCEPT ![j] = "released"]
<1>1. h \in Hosts /\ queue[h] \in Seq(Jobs) /\ job \in [Jobs -> Progress]
  BY DEF BudgetInv, BudgetTypeOK
<1>2. jobs \in [Jobs -> Progress] /\ \A k \in Jobs : jobs[k] = IF k = j THEN "released" ELSE job[k]
  BY <1>1 DEF Progress
<1>3. LeaseOf(jobs)
  <2> SUFFICES ASSUME NEW k \in Jobs
               PROVE  /\ jobs[k] \in {"new", "waiting", "refused"} => lease[k] = "none"
                      /\ jobs[k] \in {"granted", "running", "released"}
                           => lease[k] # "none" /\ Owner[k] \in up
                      /\ jobs[k] \in {"new", "waiting", "refused", "granted"} => child[k] = "none"
                      /\ jobs[k] = "running"
                           <=> child[k] # "none" /\ jobs[k] \notin {"released", "ended"}
                      /\ jobs[k] = "released" \/ (jobs[k] = "ended" /\ Owner[k] \in up)
                           => child[k] # "running"
                      /\ lease[k] = "child" => child[k] # "none"
    BY DEF LeaseOf
  <2>1. CASE k = j
    BY <1>2, <2>1 DEF BudgetInv, LeaseInv
  <2>2. CASE k # j
    <3>1. jobs[k] = job[k]
      BY <1>2, <2>2
    <3> HIDE DEF jobs
    <3> QED BY <3>1 DEF BudgetInv, LeaseInv
  <2> QED BY <2>1, <2>2
<1>4. \A i \in DOMAIN queue[h] : queue[h][i] \in Jobs /\ queue[h][i] # j
  BY <1>1 DEF BudgetInv, QueueInv
<1>5. \A n \in 0..Len(queue[h]) : Drainable(h, queue[h], jobs, n)
  BY <1>1, <1>2, <1>3, <1>4 DEF Drainable, BudgetInv, QueueInv
<1>6. Drained(h, queue[h], jobs) /\ up' = up /\ closed' = closed /\ child' = child
  BY DEF GivesBack
<1> HIDE DEF jobs, h
<1>7. h \in up
  BY DEF h
<1> QED BY <1>1, <1>5, <1>6, <1>7, DrainedStep DEF StepKeeps

\* A step that gives no lease away and takes none of a running child.
LEMMA SameLeases ==
  ASSUME LimitKept, \A j \in Jobs : j \in Leases' => j \in Leases
  PROVE  LimitKept'
<1>1. Leases' \in SUBSET Leases
  BY DEF Leases
<1> QED BY <1>1, FewerLeases DEF LimitKept

LEMMA RequestStep ==
  ASSUME BudgetInv, LimitKept, NEW j \in Jobs, Request(j)
  PROVE  StepKeeps
<1> DEFINE h == Owner[j]
<1>1. /\ h \in up /\ h \in Hosts /\ job[j] = "new" /\ queue[h] \in Seq(Jobs)
      /\ up' = up /\ closed' = closed /\ child' = child
  BY DEF Request, BudgetInv, BudgetTypeOK
<1>2. lease[j] = "none" /\ child[j] = "none"
  BY <1>1 DEF BudgetInv, LeaseInv
<1>3. \A g \in Hosts : \A i \in DOMAIN queue[g] : queue[g][i] # j
  BY <1>1 DEF BudgetInv, QueueInv
<1>4. CASE job' = [job EXCEPT ![j] = "refused"] /\ UNCHANGED <<queue, lease>>
  <2>1. BudgetTypeOK'
    BY <1>1, <1>4 DEF BudgetInv, BudgetTypeOK, Progress, Outcomes
  <2>2. QueueInv'
    BY <1>1, <1>3, <1>4 DEF BudgetInv, BudgetTypeOK, QueueInv
  <2>3. LeaseInv'
    BY <1>1, <1>2, <1>4 DEF BudgetInv, BudgetTypeOK, LeaseInv
  <2>4. \A k \in Jobs : k \in Leases' => k \in Leases
    BY <1>1, <1>4 DEF Leases, Alive
  <2> QED BY <1>4, <2>1, <2>2, <2>3, <2>4, SameLeases DEF BudgetInv, StepKeeps, SlotStep
<1>5. CASE /\ Room(h, Leases, Owned(h, job), 1)
           /\ Served(h, <<j>>, job, {}, 1, TRUE)
  <2>1. <<j>> \in Seq(Jobs) /\ 1 \in 0..Len(<<j>>) /\ {} \in SUBSET Released(h, job)
    OBVIOUS
  <2>2. LeaseOf(job)
    BY DEF BudgetInv, LeaseInv, LeaseOf
  <2>3. Drainable(h, <<j>>, job, 1)
    BY <1>1, <2>2 DEF Drainable, BudgetInv, BudgetTypeOK
  <2>4. closed' \subseteq Hosts
    BY <1>1 DEF BudgetInv, BudgetTypeOK
  <2>5. BudgetInv'
    BY <1>1, <1>5, <2>1, <2>3, <2>4, ServedKeeps
  <2>6. Room(h, Leases \ {}, Owned(h, job), 1)
    <3>1. Leases \ {} = Leases
      OBVIOUS
    <3> QED BY <1>5, <3>1
  <2>7. LimitKept'
    BY <1>1, <1>5, <2>1, <2>3, <2>6, ServedLimit
  <2>8. SlotStep
    BY <1>1, <1>5, <2>1, <2>3, ServedSlots
  <2> QED BY <2>5, <2>7, <2>8 DEF StepKeeps
<1>6. CASE Queued(h, j) /\ UNCHANGED lease
  <2>1. CASE /\ job' = [job EXCEPT ![j] = "waiting"]
             /\ queue' = [queue EXCEPT ![h] = Append(queue[h], j)]
    <3>1. BudgetTypeOK'
      BY <1>1, <1>6, <2>1 DEF BudgetInv, BudgetTypeOK, Progress, Outcomes
    <3>2. QueueInv'
      <4>1. ASSUME NEW g \in Hosts, NEW i \in DOMAIN queue'[g]
            PROVE  /\ Owner[queue'[g][i]] = g /\ job'[queue'[g][i]] = "waiting"
                   /\ \A k \in DOMAIN queue'[g] : queue'[g][i] = queue'[g][k] => i = k
        <5>1. CASE g = h
          <6>1. queue'[g] = Append(queue[h], j)
            BY <1>1, <2>1, <5>1 DEF BudgetInv, BudgetTypeOK
          <6>2. \A k \in DOMAIN queue'[g] :
                  \/ k \in DOMAIN queue[h] /\ queue'[g][k] = queue[h][k]
                  \/ k = Len(queue[h]) + 1 /\ queue'[g][k] = j
            BY <1>1, <6>1
          <6>3. \A k \in DOMAIN queue[h] :
                  /\ queue[h][k] \in Jobs /\ queue[h][k] # j /\ k < Len(queue[h]) + 1
                  /\ Owner[queue[h][k]] = h /\ job[queue[h][k]] = "waiting"
            BY <1>1, <1>3 DEF BudgetInv, QueueInv
          <6>4. \A k \in Jobs : job'[k] = IF k = j THEN "waiting" ELSE job[k]
            BY <2>1 DEF BudgetInv, BudgetTypeOK
          <6>5. Owner[queue'[g][i]] = g /\ job'[queue'[g][i]] = "waiting"
            BY <5>1, <6>2, <6>3, <6>4
          <6>6. \A k \in DOMAIN queue'[g] : queue'[g][i] = queue'[g][k] => i = k
            BY <1>1, <6>2, <6>3 DEF BudgetInv, QueueInv
          <6> QED BY <6>5, <6>6
        <5>2. CASE g # h
          BY <1>1, <1>3, <2>1, <5>2 DEF BudgetInv, BudgetTypeOK, QueueInv
        <5> QED BY <5>1, <5>2
      <4>2. \A g \in Hosts \ up' : queue'[g] = <<>>
        BY <1>1, <2>1 DEF BudgetInv, BudgetTypeOK, QueueInv
      <4> QED BY <4>1, <4>2 DEF QueueInv
    <3>3. LeaseInv'
      BY <1>1, <1>2, <1>6, <2>1 DEF BudgetInv, BudgetTypeOK, LeaseInv
    <3>4. \A k \in Jobs : k \in Leases' => k \in Leases
      BY <1>1, <1>6 DEF Leases, Alive
    <3> QED BY <1>6, <3>1, <3>2, <3>3, <3>4, SameLeases DEF BudgetInv, StepKeeps, SlotStep
  <2>2. CASE job' = [job EXCEPT ![j] = "refused"] /\ UNCHANGED queue
    BY <1>4, <1>6, <2>2
  <2> QED BY <1>6, <2>1, <2>2 DEF Queued
<1> QED BY <1>4, <1>5, <1>6 DEF Request

\* The second part of a concatenation.
LEMMA ConcatSecond ==
  ASSUME NEW S, NEW a \in Seq(S), NEW b \in Seq(S), NEW k \in Int, Len(a) < k, k <= Len(a) + Len(b)
  PROVE  (a \o b)[k] = b[k - Len(a)]
OBVIOUS

\* A queue without its i-th entry.
LEMMA RemoveAtFacts ==
  ASSUME NEW S, NEW s \in Seq(S), NEW i \in DOMAIN s
  PROVE  /\ RemoveAt(s, i) \in Seq(S) /\ Len(RemoveAt(s, i)) = Len(s) - 1
         /\ \A k \in 1..(Len(s) - 1) :
              /\ k < i => RemoveAt(s, i)[k] = s[k]
              /\ k >= i => RemoveAt(s, i)[k] = s[k + 1]
<1> DEFINE a == SubSeq(s, 1, i - 1)
           b == SubSeq(s, i + 1, Len(s))
<1>1. i \in 1..Len(s) /\ Len(s) \in Nat
  OBVIOUS
<1>2. a \in Seq(S) /\ Len(a) = i - 1 /\ \A k \in 1..(i - 1) : a[k] = s[k]
  BY <1>1
<1>3. b \in Seq(S) /\ Len(b) = Len(s) - i /\ \A k \in 1..(Len(s) - i) : b[k] = s[k + i]
  BY <1>1
<1>4. RemoveAt(s, i) = a \o b
  BY DEF RemoveAt
<1> HIDE DEF a, b
<1>5. a \o b \in Seq(S) /\ Len(a \o b) = Len(s) - 1
  BY <1>1, <1>2, <1>3
<1>6. ASSUME NEW k \in 1..(Len(s) - 1)
      PROVE  (k < i => (a \o b)[k] = s[k]) /\ (k >= i => (a \o b)[k] = s[k + 1])
  <2>1. CASE k < i
    BY <1>1, <1>2, <1>3, <2>1
  <2>2. CASE k >= i
    <3>1. k \in Int /\ Len(a) < k /\ k <= Len(a) + Len(b)
      BY <1>1, <1>2, <1>3, <2>2
    <3>2. (a \o b)[k] = b[k - Len(a)]
      <4>1. a \in Seq(S) /\ b \in Seq(S)
        BY <1>2, <1>3, Zenon
      <4> QED BY <3>1, <4>1, ConcatSecond
    <3>3. k - Len(a) \in 1..(Len(s) - i) /\ (k - Len(a)) + i = k + 1
      BY <1>1, <1>2, <2>2
    <3>4. b[k - Len(a)] = s[(k - Len(a)) + i]
      BY <1>3, <3>3
    <3> QED BY <1>1, <2>2, <3>2, <3>3, <3>4
  <2> QED BY <2>1, <2>2
<1> QED BY <1>4, <1>5, <1>6

LEMMA AbortStep ==
  ASSUME BudgetInv, LimitKept, NEW j \in Jobs, Abort(j)
  PROVE  StepKeeps
<1> DEFINE h == Owner[j]
           jobs == [job EXCEPT ![j] = "refused"]
<1>1. PICK i \in DOMAIN queue[h] :
        queue[h][i] = j /\ Drained(h, RemoveAt(queue[h], i), jobs)
  BY DEF Abort
<1>2. /\ h \in up /\ h \in Hosts /\ job[j] = "waiting" /\ queue[h] \in Seq(Jobs)
      /\ up' = up /\ closed' = closed /\ child' = child /\ job \in [Jobs -> Progress]
  BY DEF Abort, BudgetInv, BudgetTypeOK
<1> DEFINE q == RemoveAt(queue[h], i)
<1>3. q \in Seq(Jobs) /\ Len(q) = Len(queue[h]) - 1
  BY <1>2, RemoveAtFacts
<1>4. \A k \in DOMAIN q : LET m == IF k < i THEN k ELSE k + 1 IN
        m \in DOMAIN queue[h] /\ m # i /\ q[k] = queue[h][m]
  <2>1. \A k \in 1..(Len(queue[h]) - 1) :
          (k < i => q[k] = queue[h][k]) /\ (k >= i => q[k] = queue[h][k + 1])
    BY <1>2, RemoveAtFacts, ZenonT(30)
  <2> HIDE DEF q, h, jobs
  <2>2. /\ DOMAIN q = 1..(Len(queue[h]) - 1) /\ DOMAIN queue[h] = 1..Len(queue[h])
        /\ Len(queue[h]) \in Nat /\ i \in 1..Len(queue[h])
    BY <1>2, <1>3
  <2>3. ASSUME NEW k \in DOMAIN q
        PROVE  LET m == IF k < i THEN k ELSE k + 1 IN
               m \in DOMAIN queue[h] /\ m # i /\ q[k] = queue[h][m]
    <3>1. CASE k < i
      BY <2>1, <2>2, <3>1
    <3>2. CASE k >= i
      BY <2>1, <2>2, <3>2
    <3> QED BY <2>2, <3>1, <3>2
  <2> QED BY <2>3
<1>5. jobs \in [Jobs -> Progress] /\ \A k \in Jobs : jobs[k] = IF k = j THEN "refused" ELSE job[k]
  BY <1>2 DEF Progress, Outcomes
<1>6. LeaseOf(jobs)
  <2>1. lease[j] = "none" /\ child[j] = "none"
    BY <1>2 DEF BudgetInv, LeaseInv
  <2> HIDE DEF jobs
  <2> QED BY <1>2, <1>5, <2>1 DEF BudgetInv, LeaseInv, LeaseOf
<1> HIDE DEF q, jobs
<1>7. \A k \in DOMAIN q :
        /\ q[k] \in Jobs /\ q[k] # j /\ Owner[q[k]] = h /\ job[q[k]] = "waiting"
        /\ \A l \in DOMAIN q : q[k] = q[l] => k = l
  <2>1. \A k, l \in DOMAIN queue[h] :
          /\ queue[h][k] \in Jobs /\ Owner[queue[h][k]] = h /\ job[queue[h][k]] = "waiting"
          /\ queue[h][k] = queue[h][l] => k = l
    BY <1>2 DEF BudgetInv, QueueInv
  <2>2. \A k \in DOMAIN q : k \in Int
    BY <1>3
  <2>3. i \in Int
    BY <1>2
  <2> QED BY <1>1, <1>4, <2>1, <2>2, <2>3
<1>8. \A n \in 0..Len(q) : Drainable(h, q, jobs, n)
  BY <1>2, <1>5, <1>6, <1>7 DEF Drainable
<1>9. Drained(h, q, jobs)
  BY <1>1 DEF q, jobs
<1> HIDE DEF h
<1> QED BY <1>2, <1>3, <1>8, <1>9, DrainedStep DEF StepKeeps

LEMMA LaunchStep ==
  ASSUME BudgetInv, LimitKept, NEW j \in Jobs, Launch(j)
  PROVE  StepKeeps
<1>1. BudgetTypeOK'
  BY DEF Launch, BudgetInv, BudgetTypeOK, Progress
<1>2. QueueInv'
  BY DEF Launch, BudgetInv, BudgetTypeOK, QueueInv
<1>3. LeaseInv'
  BY DEF Launch, BudgetInv, BudgetTypeOK, LeaseInv
<1>4. \A k \in Jobs : k \in Leases' => k \in Leases
  <2>1. lease[j] # "none" /\ Owner[j] \in up
    BY DEF Launch, BudgetInv, LeaseInv
  <2>2. \A k \in Jobs : k # j => child'[k] = child[k]
    BY DEF Launch, BudgetInv, BudgetTypeOK
  <2> QED BY <2>1, <2>2 DEF Launch, Leases, Alive
<1> QED BY <1>1, <1>2, <1>3, <1>4, SameLeases DEF Launch, BudgetInv, StepKeeps, SlotStep

LEMMA AttachStep ==
  ASSUME BudgetInv, LimitKept, NEW j \in Jobs, Attach(j)
  PROVE  StepKeeps
<1>1. BudgetTypeOK'
  BY DEF Attach, BudgetInv, BudgetTypeOK
<1>2. QueueInv'
  BY DEF Attach, BudgetInv, BudgetTypeOK, QueueInv
<1>3. \A k \in Jobs : lease'[k] = IF k = j THEN "child" ELSE lease[k]
  BY DEF Attach, BudgetInv, BudgetTypeOK
<1>4. LeaseInv'
  BY <1>3 DEF Attach, BudgetInv, LeaseInv
<1>5. \A k \in Jobs : k \in Leases' => k \in Leases
  BY <1>3 DEF Attach, Leases, Alive
<1>6. SlotStep
  BY <1>3 DEF SlotStep
<1> QED BY <1>1, <1>2, <1>4, <1>5, <1>6, SameLeases DEF BudgetInv, StepKeeps

LEMMA ChildExitsStep ==
  ASSUME BudgetInv, LimitKept, NEW j \in Jobs, ChildExits(j)
  PROVE  StepKeeps
<1>1. BudgetTypeOK'
  BY DEF ChildExits, BudgetInv, BudgetTypeOK
<1>2. QueueInv'
  BY DEF ChildExits, BudgetInv, BudgetTypeOK, QueueInv
<1>3. \A k \in Jobs : child'[k] = IF k = j THEN "exited" ELSE child[k]
  BY DEF ChildExits, BudgetInv, BudgetTypeOK
<1>4. LeaseInv'
  BY <1>3 DEF ChildExits, BudgetInv, LeaseInv
<1>5. \A k \in Jobs : k \in Leases' => k \in Leases
  BY <1>3 DEF ChildExits, Leases, Alive
<1> QED BY <1>1, <1>2, <1>4, <1>5, SameLeases DEF ChildExits, BudgetInv, StepKeeps, SlotStep

\* The jobs of h that wait are refused.
LEMMA RefusedJobs ==
  ASSUME BudgetInv, NEW h \in Hosts,
         NEW jobs, jobs = [j \in Jobs |-> IF Owner[j] = h /\ job[j] = "waiting"
                                           THEN "refused" ELSE job[j]]
  PROVE  jobs \in [Jobs -> Progress] /\ LeaseOf(jobs)
<1>1. jobs \in [Jobs -> Progress]
  BY DEF BudgetInv, BudgetTypeOK, Progress, Outcomes
<1>2. LeaseOf(jobs)
  BY DEF BudgetInv, LeaseInv, LeaseOf
<1> QED BY <1>1, <1>2

LEMMA RetryThrowsStep ==
  ASSUME BudgetInv, LimitKept, NEW h \in Hosts, RetryThrows(h)
  PROVE  StepKeeps
<1>1. job' \in [Jobs -> Progress] /\ LeaseOf(job')
  BY RefusedJobs DEF RetryThrows
<1>2. queue' \in [Hosts -> Seq(Jobs)] /\ queue'[h] = <<>> /\ \A g \in Hosts : g # h => queue'[g] = queue[g]
  BY DEF RetryThrows, BudgetInv, BudgetTypeOK
<1>3. BudgetTypeOK'
  BY <1>1, <1>2 DEF RetryThrows, BudgetInv, BudgetTypeOK
<1>4. QueueInv'
  BY <1>2 DEF RetryThrows, BudgetInv, BudgetTypeOK, QueueInv
<1>5. LeaseInv'
  BY <1>1 DEF RetryThrows, LeaseInv, LeaseOf
<1>6. \A k \in Jobs : k \in Leases' => k \in Leases
  BY DEF RetryThrows, Leases, Alive
<1> QED BY <1>3, <1>4, <1>5, <1>6, SameLeases DEF RetryThrows, BudgetInv, StepKeeps, SlotStep

LEMMA CloseStep ==
  ASSUME BudgetInv, LimitKept, NEW h \in Hosts, Close(h)
  PROVE  StepKeeps
<1> DEFINE jobs == [j \in Jobs |-> IF Owner[j] = h /\ job[j] = "waiting" THEN "refused" ELSE job[j]]
<1>1. PICK gone \in SUBSET Released(h, job) : Served(h, <<>>, jobs, gone, 0, FALSE)
  BY DEF Close
<1>2. h \in up /\ closed' \subseteq Hosts /\ up' = up /\ child' = child
  BY DEF Close, BudgetInv, BudgetTypeOK
<1>3. jobs \in [Jobs -> Progress] /\ LeaseOf(jobs)
  BY RefusedJobs
<1>4. \A j \in Jobs : Owner[j] # h => jobs[j] = job[j]
  OBVIOUS
<1>5. gone \in SUBSET Released(h, jobs)
  BY DEF Released
<1> HIDE DEF jobs
<1>6. <<>> \in Seq(Jobs) /\ 0 \in 0..Len(<<>>) /\ FALSE \in BOOLEAN
  OBVIOUS
<1>7. Drainable(h, <<>>, jobs, 0)
  BY <1>3, <1>4 DEF Drainable
<1>8. BudgetInv'
  BY <1>1, <1>2, <1>5, <1>6, <1>7, ServedKeeps
<1>9. LimitKept'
  <2>1. 0 > 0 => Room(h, Leases \ gone, {}, 0)
    OBVIOUS
  <2> QED BY <1>1, <1>2, <1>5, <1>6, <1>7, <2>1, ServedLimit
<1>10. SlotStep
  BY <1>1, <1>2, <1>5, <1>6, <1>7, ServedSlots
<1> QED BY <1>8, <1>9, <1>10 DEF StepKeeps

LEMMA HostDiesStep ==
  ASSUME BudgetInv, LimitKept, NEW h \in Hosts, HostDies(h)
  PROVE  StepKeeps
<1>1. \A k \in Jobs :
        job'[k] = IF Owner[k] # h \/ job[k] \in {"new"} \cup Outcomes THEN job[k]
                  ELSE IF job[k] = "waiting" THEN "refused" ELSE "ended"
  BY DEF HostDies
<1>2. queue' \in [Hosts -> Seq(Jobs)] /\ queue'[h] = <<>> /\ \A g \in Hosts : g # h => queue'[g] = queue[g]
  BY DEF HostDies, BudgetInv, BudgetTypeOK
<1>3. BudgetTypeOK'
  BY <1>2 DEF HostDies, BudgetInv, BudgetTypeOK, Progress, Outcomes
<1>4. QueueInv'
  BY <1>1, <1>2, SMTT(30) DEF HostDies, BudgetInv, BudgetTypeOK, QueueInv
<1>5. LeaseInv'
  <2> SUFFICES ASSUME NEW k \in Jobs
               PROVE  /\ job'[k] \in {"new", "waiting", "refused"} => lease[k] = "none"
                      /\ job'[k] \in {"granted", "running", "released"}
                           => lease[k] # "none" /\ Owner[k] \in up'
                      /\ job'[k] \in {"new", "waiting", "refused", "granted"} => child[k] = "none"
                      /\ job'[k] = "running"
                           <=> child[k] # "none" /\ job'[k] \notin {"released", "ended"}
                      /\ job'[k] = "released" \/ (job'[k] = "ended" /\ Owner[k] \in up')
                           => child[k] # "running"
                      /\ lease[k] = "child" => child[k] # "none"
    BY DEF HostDies, LeaseInv
  <2>1. up' = up \ {h}
    BY DEF HostDies
  <2>2. job[k] \in Progress
    BY DEF BudgetInv, BudgetTypeOK
  <2> QED BY <1>1, <2>1, <2>2 DEF BudgetInv, LeaseInv, Progress, Outcomes
<1>6. \A k \in Jobs : k \in Leases' => k \in Leases
  BY DEF HostDies, Leases, Alive
<1> QED BY <1>3, <1>4, <1>5, <1>6, SameLeases DEF HostDies, BudgetInv, StepKeeps, SlotStep

LEMMA RetryStep ==
  ASSUME BudgetInv, LimitKept, NEW h \in Hosts, Retry(h)
  PROVE  StepKeeps
<1>1. /\ h \in up /\ Drained(h, queue[h], job)
      /\ up' = up /\ closed' = closed /\ child' = child
  BY DEF Retry, Waits
<1> QED BY <1>1, QueueDrainable, DrainedStep DEF StepKeeps

-----------------------------------------------------------------------------
LEMMA BudgetStep ==
  ASSUME BudgetInv, LimitKept, [BudgetNext]_budgetVars
  PROVE  StepKeeps
<1>1. ASSUME NEW j \in Jobs, JobStep(j) PROVE StepKeeps
  <2>1. CASE LaunchFails(j)
    BY <2>1, GivesBackStep DEF LaunchFails
  <2>2. CASE Complete(j)
    BY <2>2, GivesBackStep DEF Complete
  <2> QED BY <1>1, <2>1, <2>2, RequestStep, AbortStep, LaunchStep, AttachStep, ChildExitsStep
          DEF JobStep
<1>2. ASSUME NEW h \in Hosts, Retry(h) \/ RetryThrows(h) \/ Close(h) \/ HostDies(h)
      PROVE  StepKeeps
  BY <1>2, RetryStep, RetryThrowsStep, CloseStep, HostDiesStep
<1>3. CASE UNCHANGED budgetVars
  <2>1. BudgetInv'
    BY <1>3 DEF budgetVars, BudgetInv, BudgetTypeOK, QueueInv, LeaseInv
  <2>2. \A k \in Jobs : k \in Leases' => k \in Leases
    BY <1>3 DEF budgetVars, Leases, Alive
  <2>3. SlotStep
    BY <1>3 DEF budgetVars, SlotStep
  <2> QED BY <2>1, <2>2, <2>3, SameLeases DEF StepKeeps
<1> QED BY <1>1, <1>2, <1>3 DEF BudgetNext

LEMMA BudgetStart == BudgetInit => BudgetInv /\ LimitKept
<1> SUFFICES ASSUME BudgetInit PROVE BudgetInv /\ LimitKept
  OBVIOUS
<1>1. BudgetTypeOK
  BY DEF BudgetInit, BudgetTypeOK, Progress
<1>2. QueueInv /\ LeaseInv
  BY DEF BudgetInit, QueueInv, LeaseInv
<1>3. Leases = {}
  BY DEF BudgetInit, Leases
<1> QED BY <1>1, <1>2, <1>3 DEF BudgetInv, LimitKept

\* Whatever the processes, jobs, limits and queues: a job has its lease from its
\* admission until it gives it back, and queues hold just the jobs that wait.
THEOREM BudgetInvariant == BudgetSpec => []BudgetInv
<1>1. BudgetInv /\ LimitKept /\ [BudgetNext]_budgetVars => (BudgetInv /\ LimitKept)'
  BY BudgetStep DEF StepKeeps
<1> QED BY <1>1, BudgetStart, PTL DEF BudgetSpec

\* The leases of the living never exceed the limit of any process that holds one.
THEOREM BudgetLimit == BudgetSpec => []LimitKept
<1>1. BudgetInv /\ LimitKept /\ [BudgetNext]_budgetVars => (BudgetInv /\ LimitKept)'
  BY BudgetStep DEF StepKeeps
<1> QED BY <1>1, BudgetStart, PTL DEF BudgetSpec

\* No step takes the slot of a job whose child runs under its process, or runs on
\* after it with its pid on record.
THEOREM BudgetSlots == BudgetSpec => SlotKept
<1>1. BudgetInv /\ LimitKept /\ [BudgetNext]_budgetVars => (BudgetInv /\ LimitKept)'
  BY BudgetStep DEF StepKeeps
<1>2. BudgetInv /\ LimitKept /\ [BudgetNext]_budgetVars => [SlotStep]_budgetVars
  BY BudgetStep DEF StepKeeps
<1> QED BY <1>1, <1>2, BudgetStart, PTL DEF BudgetSpec, SlotKept, SlotStep

-----------------------------------------------------------------------------
\* What a drain admits, it admits together with what came before.
LEMMA ServedInOrder ==
  ASSUME BudgetInv, NEW q \in Seq(Jobs), NEW jobs, NEW gone,
         NEW n \in 0..Len(q),
         job' = [k \in Jobs |-> IF k \in gone THEN "ended"
                                ELSE IF k \in {q[i] : i \in 1..n} THEN "granted" ELSE jobs[k]],
         NEW j \in Jobs, jobs[j] # "granted", job'[j] = "granted",
         \A m \in 1..n : q[m] = j =>
           \A x \in Before(j) : x \in Jobs /\ ((\E a \in 1..m : q[a] = x) \/ jobs[x] # "waiting")
  PROVE  \A x \in Before(j) : job'[x] # "waiting"
<1>1. job' = [k \in Jobs |-> IF k \in gone THEN "ended"
                             ELSE IF k \in {q[i] : i \in 1..n} THEN "granted" ELSE jobs[k]]
  OBVIOUS
<1>2. PICK m \in 1..n : q[m] = j
  BY <1>1
<1> SUFFICES ASSUME NEW x \in Before(j) PROVE job'[x] # "waiting"
  OBVIOUS
<1>3. x \in Jobs /\ ((\E a \in 1..m : q[a] = x) \/ jobs[x] # "waiting")
  BY <1>2
<1>4. CASE \E a \in 1..m : q[a] = x
  <2>1. PICK a \in 1..m : q[a] = x
    BY <1>4
  <2>2. a \in 1..n
    BY <1>2, <2>1
  <2> QED BY <1>1, <1>3, <2>1, <2>2
<1>5. CASE jobs[x] # "waiting"
  BY <1>1, <1>3, <1>5
<1> QED BY <1>3, <1>4, <1>5

\* Those before a job in its queue, by their places.
LEMMA BeforePlaces ==
  ASSUME BudgetInv, NEW h \in Hosts, NEW j \in Jobs, NEW p \in DOMAIN queue[h], queue[h][p] = j
  PROVE  \A x \in Before(j) : x \in Jobs /\ \E a \in DOMAIN queue[h] : a < p /\ queue[h][a] = x
<1>1. Owner[j] = h /\ queue[h] \in Seq(Jobs)
  BY DEF BudgetInv, BudgetTypeOK, QueueInv
<1>2. DOMAIN queue[h] = 1..Len(queue[h]) /\ Len(queue[h]) \in Nat
  BY <1>1
<1> SUFFICES ASSUME NEW x \in Before(j)
             PROVE  x \in Jobs /\ \E a \in DOMAIN queue[h] : a < p /\ queue[h][a] = x
  OBVIOUS
<1>3. PICK a \in DOMAIN queue[h] : x = queue[h][a] /\ \A k \in 1..a : queue[h][k] # j
  BY <1>1 DEF Before
<1>4. a < p
  BY <1>2, <1>3
<1> QED BY <1>1, <1>3, <1>4

\* A drain of the queue as it is.
LEMMA DrainInOrder ==
  ASSUME BudgetInv, NEW h \in Hosts, NEW jobs, Drained(h, queue[h], jobs),
         \A j \in Jobs : job[j] # "granted" => jobs[j] # "granted"
  PROVE  InOrder
<1>1. PICK gone \in SUBSET Released(h, jobs), n \in 0..Len(queue[h]) :
        job' = [k \in Jobs |-> IF k \in gone THEN "ended"
                               ELSE IF k \in {queue[h][i] : i \in 1..n} THEN "granted"
                               ELSE jobs[k]]
  <2>1. PICK gone \in SUBSET Released(h, jobs), n \in 0..Len(queue[h]), look \in BOOLEAN :
          Served(h, queue[h], jobs, gone, n, look)
    BY Zenon DEF Drained
  <2>2. job' = [k \in Jobs |-> IF k \in gone THEN "ended"
                               ELSE IF k \in {queue[h][i] : i \in 1..n} THEN "granted" ELSE jobs[k]]
    BY <2>1, Zenon DEF Served
  <2> QED BY <2>2, Zenon
<1>2. queue[h] \in Seq(Jobs) /\ DOMAIN queue[h] = 1..Len(queue[h])
  BY DEF BudgetInv, BudgetTypeOK
<1> SUFFICES ASSUME NEW j \in Jobs, job[j] # "granted", job'[j] = "granted"
             PROVE  \A x \in Before(j) : job'[x] # "waiting"
  BY DEF InOrder
<1>3. ASSUME NEW m \in 1..n, queue[h][m] = j, NEW x \in Before(j)
      PROVE  x \in Jobs /\ \E a \in 1..m : queue[h][a] = x
  <2>1. m \in DOMAIN queue[h]
    BY <1>2
  <2>2. x \in Jobs /\ \E a \in DOMAIN queue[h] : a < m /\ queue[h][a] = x
    BY <1>3, <2>1, BeforePlaces
  <2> QED BY <1>2, <2>2
<1>4. \A m \in 1..n : queue[h][m] = j =>
        \A x \in Before(j) :
          x \in Jobs /\ ((\E a \in 1..m : queue[h][a] = x) \/ jobs[x] # "waiting")
  BY <1>3
<1>5. jobs[j] # "granted"
  OBVIOUS
<1>6. queue[h] \in Seq(Jobs) /\ n \in 0..Len(queue[h])
  BY <1>1, <1>2
<1> HIDE DEF Before
<1> QED BY <1>1, <1>4, <1>5, <1>6, ServedInOrder, SMTT(30)

\* Without its i-th entry a queue keeps its order.
LEMMA RemoveAtOrder ==
  ASSUME NEW s \in Seq(Jobs), NEW i \in DOMAIN s, NEW m \in 1..(Len(s) - 1)
  PROVE  \E p \in DOMAIN s :
           /\ s[p] = RemoveAt(s, i)[m]
           /\ \A a \in DOMAIN s : a < p /\ a # i => \E b \in 1..m : RemoveAt(s, i)[b] = s[a]
<1> DEFINE q == RemoveAt(s, i)
           p == IF m < i THEN m ELSE m + 1
<1>1. /\ DOMAIN s = 1..Len(s) /\ Len(s) \in Nat
      /\ \A k \in 1..(Len(s) - 1) : (k < i => q[k] = s[k]) /\ (k >= i => q[k] = s[k + 1])
  BY RemoveAtFacts, SMTT(30)
<1> HIDE DEF q
<1>2. p \in DOMAIN s /\ s[p] = q[m]
  BY <1>1, SMTT(30)
<1>3. ASSUME NEW a \in DOMAIN s, a < p, a # i
      PROVE  \E b \in 1..m : q[b] = s[a]
  <2>1. CASE a < i
    <3>1. a \in 1..m /\ a \in 1..(Len(s) - 1)
      BY <1>1, <1>3, <2>1
    <3>2. q[a] = s[a]
      BY <1>1, <2>1, <3>1
    <3> QED BY <3>1, <3>2
  <2>2. CASE a > i
    <3>1. a - 1 \in 1..m /\ a - 1 \in 1..(Len(s) - 1) /\ a - 1 >= i /\ (a - 1) + 1 = a
      BY <1>1, <1>3, <2>2
    <3>2. q[a - 1] = s[(a - 1) + 1]
      BY <1>1, <3>1
    <3> QED BY <3>1, <3>2
  <2> QED BY <1>1, <1>3, <2>1, <2>2
<1> HIDE DEF p
<1>4. \A a \in DOMAIN s : a < p /\ a # i => \E b \in 1..m : q[b] = s[a]
  BY <1>3
<1> QED BY <1>2, <1>4 DEF q

LEMMA AbortInOrder ==
  ASSUME BudgetInv, NEW j \in Jobs, Abort(j)
  PROVE  InOrder
<1>1. PICK h \in Hosts : h = Owner[j]
  OBVIOUS
<1>2. queue[h] \in Seq(Jobs) /\ DOMAIN queue[h] = 1..Len(queue[h])
  BY DEF BudgetInv, BudgetTypeOK
<1>3. PICK i \in DOMAIN queue[h] :
        queue[h][i] = j /\ Drained(h, RemoveAt(queue[h], i), [job EXCEPT ![j] = "refused"])
  BY <1>1 DEF Abort
<1>4. PICK jobs : jobs = [job EXCEPT ![j] = "refused"]
  OBVIOUS
<1>5. PICK q : q = RemoveAt(queue[h], i)
  OBVIOUS
<1>6. q \in Seq(Jobs) /\ Len(q) = Len(queue[h]) - 1
  BY <1>2, <1>5, RemoveAtFacts
<1>7. PICK gone \in SUBSET Released(h, jobs), n \in 0..Len(q) :
        job' = [k \in Jobs |-> IF k \in gone THEN "ended"
                               ELSE IF k \in {q[a] : a \in 1..n} THEN "granted" ELSE jobs[k]]
  <2>0. Drained(h, q, jobs)
    BY <1>3, <1>4, <1>5, Zenon
  <2>1. PICK gone \in SUBSET Released(h, jobs), n \in 0..Len(q), look \in BOOLEAN :
          Served(h, q, jobs, gone, n, look)
    BY <2>0, Zenon DEF Drained
  <2>2. job' = [k \in Jobs |-> IF k \in gone THEN "ended"
                               ELSE IF k \in {q[a] : a \in 1..n} THEN "granted" ELSE jobs[k]]
    BY <2>1, Zenon DEF Served
  <2> QED BY <2>2, Zenon
<1>8. jobs[j] = "refused" /\ \A k \in Jobs : job[k] # "granted" => jobs[k] # "granted"
  BY <1>4 DEF BudgetInv, BudgetTypeOK
<1> SUFFICES ASSUME NEW y \in Jobs, job[y] # "granted", job'[y] = "granted"
             PROVE  \A x \in Before(y) : job'[x] # "waiting"
  BY DEF InOrder
<1>9. ASSUME NEW m \in 1..n, q[m] = y, NEW x \in Before(y)
      PROVE  x \in Jobs /\ ((\E a \in 1..m : q[a] = x) \/ jobs[x] # "waiting")
  <2>1. m \in 1..(Len(queue[h]) - 1)
    BY <1>6
  <2>2. PICK p \in DOMAIN queue[h] :
          /\ queue[h][p] = q[m]
          /\ \A a \in DOMAIN queue[h] : a < p /\ a # i => \E b \in 1..m : q[b] = queue[h][a]
    <3>1. \E p \in DOMAIN queue[h] :
            /\ queue[h][p] = RemoveAt(queue[h], i)[m]
            /\ \A a \in DOMAIN queue[h] :
                 a < p /\ a # i => \E b \in 1..m : RemoveAt(queue[h], i)[b] = queue[h][a]
      BY <1>2, <2>1, RemoveAtOrder
    <3> QED BY <1>5, <3>1
  <2>3. x \in Jobs /\ \E a \in DOMAIN queue[h] : a < p /\ queue[h][a] = x
    BY <1>9, <2>2, BeforePlaces
  <2> QED BY <1>3, <1>8, <2>2, <2>3
<1>10. \A m \in 1..n : q[m] = y =>
         \A x \in Before(y) : x \in Jobs /\ ((\E a \in 1..m : q[a] = x) \/ jobs[x] # "waiting")
  BY <1>9
<1>11. jobs[y] # "granted"
  BY <1>8
<1> QED BY <1>6, <1>7, <1>10, <1>11, ServedInOrder

LEMMA BudgetInOrder == BudgetInv /\ BudgetNext => InOrder
<1> SUFFICES ASSUME BudgetInv, BudgetNext PROVE InOrder
  OBVIOUS
<1>1. ASSUME NEW j \in Jobs, Request(j) PROVE InOrder
  <2>1. CASE job' = [job EXCEPT ![j] = "refused"]
    BY <2>1 DEF InOrder, BudgetInv, BudgetTypeOK
  <2>2. CASE queue[Owner[j]] = <<>> /\ Served(Owner[j], <<j>>, job, {}, 1, TRUE)
    <3>1. \A k \in Jobs \ {j} : job'[k] = "granted" => job[k] = "granted"
      BY <2>2 DEF Served
    <3>2. Before(j) = {}
      BY <2>2 DEF Before
    <3> QED BY <3>1, <3>2 DEF InOrder
  <2>3. CASE Queued(Owner[j], j)
    BY <2>3 DEF Queued, InOrder, BudgetInv, BudgetTypeOK
  <2> QED BY <1>1, <2>1, <2>2, <2>3 DEF Request
<1>2. ASSUME NEW j \in Jobs, Abort(j) PROVE InOrder
  BY <1>2, AbortInOrder
<1>3. ASSUME NEW j \in Jobs, GivesBack(j) PROVE InOrder
  <2>1. \A k \in Jobs : job[k] # "granted" => [job EXCEPT ![j] = "released"][k] # "granted"
    BY DEF BudgetInv, BudgetTypeOK
  <2> QED BY <1>3, <2>1, DrainInOrder DEF GivesBack
<1>4. ASSUME NEW h \in Hosts, Retry(h) PROVE InOrder
  BY <1>4, DrainInOrder DEF Retry
<1>5. ASSUME NEW h \in Hosts, Close(h) PROVE InOrder
  <2>1. PICK gone \in SUBSET Released(h, job) :
          Served(h, <<>>,
            [j \in Jobs |-> IF Owner[j] = h /\ job[j] = "waiting" THEN "refused" ELSE job[j]],
            gone, 0, FALSE)
    BY <1>5 DEF Close
  <2>2. \A j \in Jobs : job'[j] = "granted" => job[j] = "granted"
    BY <2>1 DEF Served
  <2> QED BY <2>2 DEF InOrder
<1>6. ASSUME NEW j \in Jobs, Launch(j) \/ Attach(j) \/ ChildExits(j) PROVE InOrder
  BY <1>6 DEF Launch, Attach, ChildExits, InOrder, BudgetInv, BudgetTypeOK
<1>7. ASSUME NEW h \in Hosts, RetryThrows(h) \/ HostDies(h) PROVE InOrder
  BY <1>7 DEF RetryThrows, HostDies, InOrder
<1> QED BY <1>1, <1>2, <1>3, <1>4, <1>5, <1>6, <1>7
        DEF BudgetNext, JobStep, LaunchFails, Complete

\* The jobs of a process are admitted in the order in which they came, whichever
\* drain admits them and whatever is withdrawn meanwhile.
THEOREM BudgetFifo == BudgetSpec => Fifo
<1>1. BudgetInv /\ [BudgetNext]_budgetVars => [InOrder]_budgetVars
  BY BudgetInOrder
<1> QED BY <1>1, BudgetInvariant, PTL DEF BudgetSpec, Fifo
=============================================================================
