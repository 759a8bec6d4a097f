--------------------- MODULE TransitionCoordinatorProofs ---------------------
(***************************************************************************)
(* No structural transition overwrites another, and none is committed for  *)
(* a configuration it was not planned for: for any requests, any targets   *)
(* and any number of generations.                                          *)
(***************************************************************************)
EXTENDS TransitionCoordinator, Sequences, TLAPS

Turns == {"new", "waiting", "running", "settled"}
Structural == Transitions \ Live
Pending(t) == turn[t] \in {"waiting", "running"}

TransitionTypeOK ==
  /\ turn \in [Transitions -> Turns]
  /\ after \in [Transitions -> Structural \cup {Absent}]
  /\ previous = [t \in Transitions |-> previous[t]]
  /\ outcome = [t \in Transitions |-> outcome[t]]
  /\ tail \in Structural \cup {Absent}

Past(t) == t = Absent \/ turn[t] = "settled"

\* The line of the structural requests that are pending, in order of admission:
\* each waits for the one before it, the first for nobody, the last is the tail.
Line(q) ==
  /\ \A t \in Structural : Pending(t) => \E i \in 1..Len(q) : q[i] = t
  /\ \A i \in 1..Len(q) : Pending(q[i])
  /\ \A i, k \in 1..Len(q) : q[i] = q[k] => i = k
  /\ \A i \in 1..Len(q) : i > 1 => after[q[i]] = q[i - 1] /\ turn[q[i]] = "waiting"
  /\ Len(q) > 0 => tail = q[Len(q)] /\ Past(after[q[1]])
  /\ Len(q) = 0 => Past(tail)

LineInv == \E q \in Seq(Structural) : Line(q)

\* A structural request that runs started from what is still the selection.
CurrentInv ==
  \A t \in Structural : turn[t] = "running" /\ coordinating => previous[t] = Selection

TransitionInv == TransitionTypeOK /\ LineInv /\ CurrentInv

USE AbsentAssumption

-----------------------------------------------------------------------------
LEMMA LineInit == TransitionInit => TransitionInv
<1> SUFFICES ASSUME TransitionInit PROVE TransitionInv
  OBVIOUS
<1>1. TransitionTypeOK
  BY DEF TransitionInit, TransitionTypeOK, Turns
<1>2. <<>> \in Seq(Structural) /\ Line(<<>>)
  <2>1. \A t \in Structural : ~Pending(t)
    BY DEF TransitionInit, Pending, Structural
  <2>2. Past(tail)
    BY DEF TransitionInit, Past
  <2> QED BY <2>1, <2>2 DEF Line
<1>3. CurrentInv
  BY DEF TransitionInit, CurrentInv, Structural
<1> QED BY <1>1, <1>2, <1>3 DEF TransitionInv, LineInv

\* Every step keeps the types.
LEMMA TypesKept ==
  ASSUME TransitionInv, TransitionNext
  PROVE  TransitionTypeOK'
<1> USE DEF TransitionInv, TransitionTypeOK, Turns, Structural
<1>1. ASSUME NEW t \in Transitions, NEW o, Settles(t, o)
      PROVE  turn' \in [Transitions -> Turns] /\ outcome' = [u \in Transitions |-> outcome'[u]]
  BY <1>1 DEF Settles
<1>2. ASSUME NEW t \in Transitions, Refuse(t) PROVE TransitionTypeOK'
  BY <1>1, <1>2 DEF Refuse, admission
<1>3. ASSUME NEW t \in Transitions, StartLive(t) PROVE TransitionTypeOK'
  BY <1>3 DEF StartLive
<1>4. ASSUME NEW t \in Transitions, AdmitStructural(t) PROVE TransitionTypeOK'
  BY <1>4 DEF AdmitStructural
<1>5. ASSUME NEW t \in Transitions, Cancel(t) PROVE TransitionTypeOK'
  BY <1>5 DEF Cancel, admission
<1>6. ASSUME NEW t \in Transitions, StartStructural(t) PROVE TransitionTypeOK'
  <2>1. turn' \in [Transitions -> Turns] /\ outcome' = [u \in Transitions |-> outcome'[u]]
    BY <1>1, <1>6 DEF StartStructural
  <2> QED BY <1>6, <2>1 DEF StartStructural, admission
<1>7. ASSUME NEW t \in Transitions, Executed(t) PROVE TransitionTypeOK'
  <2>1. turn' \in [Transitions -> Turns] /\ outcome' = [u \in Transitions |-> outcome'[u]]
    BY <1>1, <1>7 DEF Executed
  <2> QED BY <1>7, <2>1 DEF Executed, admission
<1>8. CASE NewGeneration
  BY <1>8 DEF NewGeneration, admission
<1>9. CASE DisposeCoordinator
  BY <1>9 DEF DisposeCoordinator
<1> QED BY <1>2, <1>3, <1>4, <1>5, <1>6, <1>7, <1>8, <1>9 DEF TransitionNext

\* A structural request whose turn it is heads the line.
LEMMA HeadOfLine ==
  ASSUME TransitionTypeOK, NEW q \in Seq(Structural), Line(q), NEW t \in Structural,
         Turn(t) \/ turn[t] = "running"
  PROVE  Len(q) > 0 /\ q[1] = t
<1>1. PICK i \in 1..Len(q) : q[i] = t
  BY DEF Line, Pending, Turn
<1>2. SUFFICES ASSUME i > 1 PROVE FALSE
  BY <1>1 DEF Line
<1>3. after[t] = q[i - 1] /\ turn[t] = "waiting" /\ i - 1 \in 1..Len(q)
  BY <1>1, <1>2 DEF Line
<1>4. q[i - 1] \in Structural /\ turn[q[i - 1]] # "settled"
  BY <1>3 DEF Line, Pending
<1> QED BY <1>3, <1>4 DEF Turn, Structural

\* A step that changes no request's place in the line.
LEMMA LineUnmoved ==
  ASSUME TransitionTypeOK, NEW q \in Seq(Structural), Line(q), TransitionTypeOK',
         UNCHANGED <<after, tail>>,
         \A t \in Structural : turn'[t] = turn[t] \/ (turn[t] = "new" /\ turn'[t] = "settled")
  PROVE  Line(q)'
<1>1. \A i \in 1..Len(q) : q[i] \in Structural /\ turn'[q[i]] = turn[q[i]]
  BY DEF Line, Pending
<1>2. \A t \in Structural : Pending(t)' <=> Pending(t)
  BY DEF Pending
<1>3. \A t \in Structural \cup {Absent} : Past(t) => Past(t)'
  BY DEF Past
<1>4. Len(q) > 0 => Past(after[q[1]])'
  <2> SUFFICES ASSUME Len(q) > 0 PROVE Past(after[q[1]])'
    OBVIOUS
  <2>1. 1 \in 1..Len(q) /\ q[1] \in Transitions
    BY <1>1 DEF Line, Structural
  <2>2. Past(after[q[1]]) /\ after[q[1]] \in Structural \cup {Absent}
    BY <2>1 DEF Line, TransitionTypeOK
  <2> QED BY <2>2 DEF Past
<1>5. Len(q) > 0 => tail' = q[Len(q)]
  BY DEF Line
<1>6. Len(q) = 0 => Past(tail)'
  BY DEF Line, Past, TransitionTypeOK
<1>7. \A i \in 1..Len(q) : i > 1 => after'[q[i]] = q[i - 1] /\ turn'[q[i]] = "waiting"
  BY <1>1 DEF Line
<1>8. Len(q) > 0 => (tail = q[Len(q)] /\ Past(after[q[1]]))'
  BY <1>4, <1>5 DEF Past
<1>9. \A t \in Structural : Pending(t)' => \E i \in 1..Len(q) : q[i] = t
  BY <1>2 DEF Line
<1>10. \A i \in 1..Len(q) : Pending(q[i])'
  BY <1>1, <1>2 DEF Line
<1> QED BY <1>6, <1>7, <1>8, <1>9, <1>10 DEF Line

\* A request that is admitted goes to the end of the line.
LEMMA LineGrows ==
  ASSUME TransitionTypeOK, NEW q \in Seq(Structural), Line(q),
         NEW t \in Structural, AdmitStructural(t)
  PROVE  Append(q, t) \in Seq(Structural) /\ Line(Append(q, t))'
<1> DEFINE r == Append(q, t)
<1>1. /\ r \in Seq(Structural) /\ Len(r) = Len(q) + 1 /\ Len(q) \in Nat /\ r[Len(r)] = t
      /\ \A i \in 1..Len(q) : r[i] = q[i] /\ q[i] \in Structural
  OBVIOUS
<1>2. /\ turn[t] = "new" /\ turn'[t] = "waiting" /\ after'[t] = tail /\ tail' = t
      /\ \A u \in Transitions \ {t} : turn'[u] = turn[u] /\ after'[u] = after[u]
  BY DEF AdmitStructural, TransitionTypeOK, Structural
<1>3. \A i \in 1..Len(q) : q[i] # t
  BY <1>2 DEF Line, Pending
<1>4. \A u \in Structural : Pending(u)' => \E i \in 1..Len(r) : r[i] = u
  <2> TAKE u \in Structural
  <2>1. CASE u = t
    BY <1>1, <2>1
  <2>2. CASE u # t
    BY <1>1, <1>2, <2>2 DEF Line, Pending, Structural
  <2> QED BY <2>1, <2>2
<1>5. \A i \in 1..Len(r) : Pending(r[i])'
  <2> TAKE i \in 1..Len(r)
  <2>1. CASE i \in 1..Len(q)
    BY <1>1, <1>2, <1>3, <2>1 DEF Line, Pending, Structural
  <2>2. CASE i = Len(r)
    BY <1>1, <1>2, <2>2 DEF Pending
  <2> QED BY <1>1, <2>1, <2>2
<1>6. \A i, k \in 1..Len(r) : r[i] = r[k] => i = k
  <2> TAKE i, k \in 1..Len(r)
  <2>1. \A m \in 1..Len(r) : m \in 1..Len(q) \/ m = Len(r)
    BY <1>1
  <2>2. CASE i \in 1..Len(q) /\ k \in 1..Len(q)
    BY <1>1, <2>2 DEF Line
  <2> QED BY <1>1, <1>3, <2>1, <2>2
<1>7. \A i \in 1..Len(r) : i > 1 => after'[r[i]] = r[i - 1] /\ turn'[r[i]] = "waiting"
  <2> SUFFICES ASSUME NEW i \in 1..Len(r), i > 1
               PROVE  after'[r[i]] = r[i - 1] /\ turn'[r[i]] = "waiting"
    OBVIOUS
  <2>1. i - 1 \in 1..Len(q)
    BY <1>1
  <2>2. CASE i \in 1..Len(q)
    BY <1>1, <1>2, <1>3, <2>1, <2>2 DEF Line, Structural
  <2>3. CASE i = Len(r)
    <3>1. Len(q) > 0 /\ tail = q[Len(q)]
      BY <1>1, <2>1 DEF Line
    <3> QED BY <1>1, <1>2, <2>3, <3>1
  <2> QED BY <1>1, <2>2, <2>3
<1>8. Past(after[r[1]])'
  <2>1. CASE Len(q) = 0
    <3>1. Past(tail) /\ r[1] = t
      BY <1>1, <2>1 DEF Line
    <3>2. after'[r[1]] = tail /\ tail \in Structural \cup {Absent}
      BY <1>2, <3>1 DEF TransitionTypeOK
    <3>3. tail # t /\ (tail # Absent => turn'[tail] = "settled")
      BY <1>2, <3>1, <3>2 DEF Past, Structural
    <3> QED BY <3>2, <3>3 DEF Past
  <2>2. CASE Len(q) > 0
    <3>1. 1 \in 1..Len(q) /\ r[1] = q[1] /\ q[1] # t /\ q[1] \in Transitions
      BY <1>1, <1>3, <2>2 DEF Structural
    <3>2. Past(after[q[1]]) /\ after'[q[1]] = after[q[1]]
      BY <1>2, <2>2, <3>1 DEF Line
    <3>3. after[q[1]] \in Structural \cup {Absent}
      BY <3>1 DEF TransitionTypeOK
    <3>4. after[q[1]] # t /\ (after[q[1]] # Absent => turn'[after[q[1]]] = "settled")
      BY <1>2, <3>2, <3>3 DEF Past, Structural
    <3> QED BY <3>1, <3>2, <3>4 DEF Past
  <2> QED BY <1>1, <2>1, <2>2
<1>9. tail' = r[Len(r)] /\ Len(r) > 0
  BY <1>1, <1>2
<1>10. (Len(r) > 0 => tail = r[Len(r)] /\ Past(after[r[1]]))'
  BY <1>8, <1>9
<1> QED BY <1>1, <1>4, <1>5, <1>6, <1>7, <1>9, <1>10 DEF Line

\* The head of the line settles, and the next one becomes the head.
LEMMA LineAdvances ==
  ASSUME TransitionTypeOK, NEW q \in Seq(Structural), Line(q), Len(q) > 0,
         NEW t \in Structural, q[1] = t, turn' = [turn EXCEPT ![t] = "settled"],
         UNCHANGED <<after, tail>>
  PROVE  Tail(q) \in Seq(Structural) /\ Line(Tail(q))'
<1> DEFINE r == Tail(q)
<1>1. /\ r \in Seq(Structural) /\ Len(r) = Len(q) - 1 /\ Len(q) \in Nat
      /\ \A i \in 1..Len(r) : r[i] = q[i + 1] /\ i + 1 \in 1..Len(q) /\ r[i] \in Structural
  OBVIOUS
<1>2. /\ turn'[t] = "settled"
      /\ \A u \in Transitions \ {t} : turn'[u] = turn[u]
  BY DEF TransitionTypeOK, Structural
<1>3. \A i \in 1..Len(r) : r[i] # t
  <2> TAKE i \in 1..Len(r)
  <2>1. 1 \in 1..Len(q) /\ i + 1 \in 1..Len(q) /\ i + 1 # 1
    BY <1>1
  <2> QED BY <1>1, <2>1 DEF Line
<1>4. \A u \in Structural : Pending(u)' => \E i \in 1..Len(r) : r[i] = u
  <2> SUFFICES ASSUME NEW u \in Structural, Pending(u)' PROVE \E i \in 1..Len(r) : r[i] = u
    OBVIOUS
  <2>1. u # t /\ Pending(u)
    BY <1>2 DEF Pending, Structural
  <2>2. PICK i \in 1..Len(q) : q[i] = u
    BY <2>1 DEF Line
  <2>3. i - 1 \in 1..Len(r) /\ r[i - 1] = q[i]
    BY <1>1, <2>1, <2>2
  <2> QED BY <2>2, <2>3
<1>5. \A i \in 1..Len(r) : Pending(r[i])' /\ turn'[r[i]] = "waiting"
  <2> TAKE i \in 1..Len(r)
  <2>1. i + 1 \in 1..Len(q) /\ i + 1 > 1
    BY <1>1
  <2>2. turn[r[i]] = "waiting"
    BY <1>1, <2>1 DEF Line
  <2> QED BY <1>1, <1>2, <1>3, <2>2 DEF Pending, Structural
<1>6. \A i, k \in 1..Len(r) : r[i] = r[k] => i = k
  <2> SUFFICES ASSUME NEW i \in 1..Len(r), NEW k \in 1..Len(r), r[i] = r[k] PROVE i = k
    OBVIOUS
  <2>1. i + 1 = k + 1
    BY <1>1 DEF Line
  <2> QED BY <2>1
<1>7. \A i \in 1..Len(r) : i > 1 => after'[r[i]] = r[i - 1]
  <2> SUFFICES ASSUME NEW i \in 1..Len(r), i > 1 PROVE after'[r[i]] = r[i - 1]
    OBVIOUS
  <2>1. i + 1 \in 1..Len(q) /\ i - 1 \in 1..Len(r) /\ (i - 1) + 1 = (i + 1) - 1
    BY <1>1
  <2>2. after[q[i + 1]] = q[(i + 1) - 1]
    BY <1>1, <2>1 DEF Line
  <2> QED BY <1>1, <2>1, <2>2
<1>8. Len(r) > 0 => (tail = r[Len(r)] /\ Past(after[r[1]]))'
  <2> SUFFICES ASSUME Len(r) > 0 PROVE (tail = r[Len(r)] /\ Past(after[r[1]]))'
    OBVIOUS
  <2>1. tail = q[Len(q)] /\ r[Len(r)] = q[Len(q)]
    BY <1>1 DEF Line
  <2>2. 2 \in 1..Len(q) /\ r[1] = q[2] /\ after[q[2]] = q[1]
    <3>1. 2 \in 1..Len(q) /\ 1 \in 1..Len(r) /\ 1 + 1 = 2 /\ 2 - 1 = 1 /\ 2 > 1
      BY <1>1
    <3>2. after[q[2]] = q[2 - 1]
      BY <3>1 DEF Line
    <3> QED BY <1>1, <3>1, <3>2
  <2>3. after'[r[1]] = t
    BY <2>2
  <2> QED BY <1>2, <2>1, <2>3 DEF Past
<1>9. Len(r) = 0 => Past(tail)'
  <2> SUFFICES ASSUME Len(r) = 0 PROVE Past(tail)'
    OBVIOUS
  <2>1. tail = t
    BY <1>1 DEF Line
  <2> QED BY <1>2, <2>1 DEF Past
<1> QED BY <1>1, <1>4, <1>5, <1>6, <1>7, <1>8, <1>9 DEF Line

\* The head of the line starts to run.
LEMMA LineStarts ==
  ASSUME TransitionTypeOK, NEW q \in Seq(Structural), Line(q), Len(q) > 0,
         NEW t \in Structural, q[1] = t, turn[t] = "waiting",
         turn' = [turn EXCEPT ![t] = "running"], UNCHANGED <<after, tail>>
  PROVE  Line(q)'
<1>1. /\ turn'[t] = "running"
      /\ \A u \in Transitions \ {t} : turn'[u] = turn[u]
  BY DEF TransitionTypeOK, Structural
<1>2. \A u \in Structural : Pending(u)' <=> Pending(u)
  BY <1>1 DEF Pending, Structural
<1>3. \A i \in 1..Len(q) : q[i] \in Structural /\ (i > 1 => q[i] # t)
  <2> TAKE i \in 1..Len(q)
  <2>1. 1 \in 1..Len(q)
    OBVIOUS
  <2> QED BY <2>1 DEF Line
<1>4. \A i \in 1..Len(q) : i > 1 => after'[q[i]] = q[i - 1] /\ turn'[q[i]] = "waiting"
  BY <1>1, <1>3 DEF Line, Structural
<1>5. \A u \in Transitions \cup {Absent} : Past(u) => Past(u)'
  BY <1>1 DEF Past
<1>6. after[t] \in Transitions \cup {Absent}
  BY DEF TransitionTypeOK, Structural
<1>7. Len(q) > 0 => (tail = q[Len(q)] /\ Past(after[q[1]]))'
  <2>1. tail = q[Len(q)] /\ Past(after[t])
    BY DEF Line
  <2> QED BY <1>5, <1>6, <2>1 DEF Past
<1>8. \A i \in 1..Len(q) : Pending(q[i])'
  BY <1>2, <1>3 DEF Line
<1>9. \A u \in Structural : Pending(u)' => \E i \in 1..Len(q) : q[i] = u
  BY <1>2 DEF Line
<1> QED BY <1>4, <1>7, <1>8, <1>9 DEF Line

-----------------------------------------------------------------------------
LEMMA LineKept ==
  ASSUME TransitionInv, TransitionTypeOK', TransitionNext
  PROVE  LineInv'
<1>1. PICK q \in Seq(Structural) : Line(q)
  BY DEF TransitionInv, LineInv
<1> USE DEF TransitionInv
<1>2. ASSUME NEW t \in Transitions, Refuse(t) PROVE LineInv'
  <2>1. \A u \in Structural : turn'[u] = turn[u] \/ (turn[u] = "new" /\ turn'[u] = "settled")
    BY <1>2 DEF Refuse, Settles, TransitionTypeOK, Structural
  <2>2. Line(q)'
    BY <1>1, <1>2, <2>1, LineUnmoved DEF Refuse, admission
  <2> QED BY <1>1, <2>2 DEF LineInv
<1>3. ASSUME NEW t \in Transitions, StartLive(t) PROVE LineInv'
  <2>1. \A u \in Structural : turn'[u] = turn[u]
    BY <1>3 DEF StartLive, TransitionTypeOK, Structural
  <2>2. Line(q)'
    BY <1>1, <1>3, <2>1, LineUnmoved DEF StartLive
  <2> QED BY <1>1, <2>2 DEF LineInv
<1>4. ASSUME NEW t \in Transitions, AdmitStructural(t) PROVE LineInv'
  BY <1>1, <1>4, LineGrows DEF LineInv, AdmitStructural, Structural
<1>5. ASSUME NEW t \in Transitions, Cancel(t) PROVE LineInv'
  <2>1. Line(q)'
    BY <1>1, <1>5, LineUnmoved DEF Cancel, admission
  <2> QED BY <1>1, <2>1 DEF LineInv
<1>6. ASSUME NEW t \in Transitions, t \notin Live, Turn(t) \/ turn[t] = "running",
             turn' = [turn EXCEPT ![t] = "settled"], UNCHANGED <<after, tail>>
      PROVE  LineInv'
  <2>1. t \in Structural /\ Len(q) > 0 /\ q[1] = t
    BY <1>1, <1>6, HeadOfLine DEF Structural
  <2> QED BY <1>1, <1>6, <2>1, LineAdvances DEF LineInv
<1>7. ASSUME NEW t \in Transitions, t \in Live, turn' = [turn EXCEPT ![t] = "settled"],
             UNCHANGED <<after, tail>>
      PROVE  LineInv'
  <2>1. \A u \in Structural : turn'[u] = turn[u]
    BY <1>7 DEF TransitionTypeOK, Structural
  <2>2. Line(q)'
    BY <1>1, <1>7, <2>1, LineUnmoved
  <2> QED BY <1>1, <2>2 DEF LineInv
<1>8. ASSUME NEW t \in Transitions, StartStructural(t) PROVE LineInv'
  <2>1. UNCHANGED <<after, tail>> /\ Turn(t) /\ turn[t] = "waiting"
    BY <1>8 DEF StartStructural, admission, Turn
  <2>2. CASE turn' = [turn EXCEPT ![t] = "settled"]
    BY <1>6, <1>7, <2>1, <2>2
  <2>3. CASE turn' = [turn EXCEPT ![t] = "running"] /\ t \in Live
    <3>1. \A u \in Structural : turn'[u] = turn[u]
      BY <2>3 DEF TransitionTypeOK, Structural
    <3>2. Line(q)'
      BY <1>1, <2>1, <3>1, LineUnmoved
    <3> QED BY <1>1, <3>2 DEF LineInv
  <2>4. CASE turn' = [turn EXCEPT ![t] = "running"] /\ t \notin Live
    <3>1. t \in Structural /\ Len(q) > 0 /\ q[1] = t
      BY <1>1, <2>1, <2>4, HeadOfLine DEF Structural
    <3>2. Line(q)'
      BY <1>1, <2>1, <2>4, <3>1, LineStarts
    <3> QED BY <1>1, <3>2 DEF LineInv
  <2> QED BY <1>8, <2>2, <2>3, <2>4 DEF StartStructural, Settles
<1>9. ASSUME NEW t \in Transitions, Executed(t) PROVE LineInv'
  <2>1. /\ UNCHANGED <<after, tail>> /\ turn[t] = "running"
        /\ turn' = [turn EXCEPT ![t] = "settled"]
    BY <1>9 DEF Executed, admission, Settles
  <2> QED BY <1>6, <1>7, <2>1
<1>10. CASE NewGeneration
  <2>1. Line(q)'
    BY <1>1, <1>10, LineUnmoved DEF NewGeneration, admission
  <2> QED BY <1>1, <2>1 DEF LineInv
<1>11. CASE DisposeCoordinator
  <2>1. UNCHANGED <<turn, after>>
    BY <1>11 DEF DisposeCoordinator
  <2>2. CASE Len(q) > 0
    <3>1. 1 \in 1..Len(q) /\ q[1] \in Structural /\ Pending(q[1])
      BY <1>1, <2>2 DEF Line
    <3>2. tail' = tail
      BY <1>11, <3>1 DEF DisposeCoordinator, Pending, Structural
    <3>3. Line(q)'
      BY <1>1, <2>1, <3>2, LineUnmoved
    <3> QED BY <1>1, <3>3 DEF LineInv
  <2>3. CASE Len(q) = 0
    <3>1. \A t \in Structural : ~Pending(t)
      BY <1>1, <2>3 DEF Line
    <3>2. tail' = Absent
      BY <1>11, <3>1 DEF DisposeCoordinator, Pending, Structural
    <3>3. Past(tail)'
      BY <3>2 DEF Past
    <3>4. \A t \in Structural : ~Pending(t)'
      BY <2>1, <3>1 DEF Pending
    <3>5. Line(q)'
      BY <2>3, <3>3, <3>4 DEF Line
    <3> QED BY <1>1, <3>5 DEF LineInv
  <2> QED BY <1>1, <2>2, <2>3
<1> QED BY <1>2, <1>3, <1>4, <1>5, <1>8, <1>9, <1>10, <1>11 DEF TransitionNext

\* At most one structural request runs.
LEMMA OneRuns ==
  ASSUME TransitionTypeOK, LineInv, NEW t \in Structural, NEW u \in Structural,
         turn[t] = "running", turn[u] = "running"
  PROVE  t = u
<1>1. PICK q \in Seq(Structural) : Line(q)
  BY DEF LineInv
<1> QED BY <1>1, HeadOfLine

LEMMA CurrentKept ==
  ASSUME TransitionInv, TransitionNext
  PROVE  CurrentInv'
<1> SUFFICES ASSUME NEW u \in Structural, turn'[u] = "running", coordinating'
             PROVE  previous'[u] = Selection'
  BY DEF CurrentInv
<1> USE DEF TransitionInv
<1>1. ASSUME turn[u] = "running", coordinating, UNCHANGED <<previous, committed>>
      PROVE  previous'[u] = Selection'
  BY <1>1 DEF CurrentInv, Selection
<1>2. ASSUME NEW t \in Transitions, Refuse(t) PROVE previous'[u] = Selection'
  BY <1>1, <1>2 DEF Refuse, Settles, TransitionTypeOK, Structural
<1>3. ASSUME NEW t \in Transitions, StartLive(t) PROVE previous'[u] = Selection'
  BY <1>1, <1>3 DEF StartLive, TransitionTypeOK, Structural
<1>4. ASSUME NEW t \in Transitions, AdmitStructural(t) PROVE previous'[u] = Selection'
  BY <1>1, <1>4 DEF AdmitStructural, TransitionTypeOK, Structural
<1>5. ASSUME NEW t \in Transitions, Cancel(t) PROVE previous'[u] = Selection'
  BY <1>1, <1>5 DEF Cancel
<1>6. ASSUME NEW t \in Transitions, StartStructural(t) PROVE previous'[u] = Selection'
  <2>1. /\ previous' = [previous EXCEPT ![t] = Selection]
        /\ UNCHANGED <<committed, coordinating>>
    BY <1>6 DEF StartStructural
  <2>2. CASE u = t
    <3>1. previous'[u] = Selection
      BY <2>1, <2>2 DEF TransitionTypeOK, Structural
    <3> QED BY <2>1, <3>1 DEF Selection
  <2>3. CASE u # t
    <3>1. turn[u] = "running"
      BY <1>6, <2>3 DEF StartStructural, Settles, TransitionTypeOK, Structural
    <3>2. previous'[u] = previous[u]
      BY <2>1, <2>3 DEF TransitionTypeOK, Structural
    <3> QED BY <2>1, <3>1, <3>2 DEF CurrentInv, Selection
  <2> QED BY <2>2, <2>3
<1>7. ASSUME NEW t \in Transitions, Executed(t) PROVE previous'[u] = Selection'
  <2>1. u # t /\ turn[u] = "running" /\ turn[t] = "running" /\ UNCHANGED <<coordinating, previous>>
    BY <1>7 DEF Executed, Settles, TransitionTypeOK, Structural
  <2>2. t \in Live
    BY <2>1, OneRuns DEF Structural
  <2>3. committed' = committed
    BY <1>7, <2>2 DEF Executed
  <2> QED BY <1>1, <2>1, <2>3
<1>8. CASE NewGeneration
  BY <1>1, <1>8 DEF NewGeneration
<1>9. CASE DisposeCoordinator
  BY <1>9 DEF DisposeCoordinator
<1> QED BY <1>2, <1>3, <1>4, <1>5, <1>6, <1>7, <1>8, <1>9 DEF TransitionNext

\* The line of pending requests, and what it is for, hold in every state: of any
\* requests at most one structural one runs, started from the current selection.
THEOREM TransitionInvariance == TransitionSpec => []TransitionInv
<1>1. TransitionInit => TransitionInv
  BY LineInit
<1>2. TransitionInv /\ [TransitionNext]_transitionVars => TransitionInv'
  <2> SUFFICES ASSUME TransitionInv, [TransitionNext]_transitionVars PROVE TransitionInv'
    OBVIOUS
  <2>1. CASE TransitionNext
    BY <2>1, TypesKept, LineKept, CurrentKept DEF TransitionInv
  <2>2. CASE UNCHANGED transitionVars
    <3>1. PICK q \in Seq(Structural) : Line(q)
      BY DEF TransitionInv, LineInv
    <3>2. Line(q)'
      BY <2>2, <3>1 DEF Line, Pending, Past, transitionVars, admission
    <3>3. LineInv'
      BY <3>1, <3>2 DEF LineInv
    <3>4. TransitionTypeOK' /\ CurrentInv'
      BY <2>2 DEF TransitionInv, TransitionTypeOK, CurrentInv, Selection, transitionVars, admission
    <3> QED BY <3>3, <3>4 DEF TransitionInv
  <2> QED BY <2>1, <2>2
<1> QED BY <1>1, <1>2, PTL DEF TransitionSpec

\* An applied structural transition started from the selection that is committed
\* when it ends: executeStructural() never overwrites one it did not see.
THEOREM TransitionsNotLost == TransitionSpec => NoLostUpdate
<1> DEFINE Step ==
      \A t \in Transitions \ Live :
        outcome'[t] = "applied" /\ outcome[t] # "applied" /\ coordinating
          => previous[t] = Selection
<1>1. TransitionInv /\ [TransitionNext]_transitionVars => [Step]_transitionVars
  <2> SUFFICES ASSUME TransitionInv, TransitionNext, NEW t \in Transitions \ Live,
                      outcome'[t] = "applied", outcome[t] # "applied", coordinating
               PROVE  previous[t] = Selection
    OBVIOUS
  <2>1. turn[t] = "running"
    <3>1. ASSUME NEW u \in Transitions, Refuse(u) PROVE FALSE
      BY <3>1 DEF Refuse, Settles, TransitionInv, TransitionTypeOK
    <3>2. ASSUME NEW u \in Transitions, StartStructural(u) PROVE FALSE
      BY <3>2 DEF StartStructural, Settles, TransitionInv, TransitionTypeOK
    <3>3. ASSUME NEW u \in Transitions, Executed(u) PROVE turn[t] = "running"
      BY <3>3 DEF Executed, Settles, TransitionInv, TransitionTypeOK
    <3>4. ASSUME NEW u \in Transitions, StartLive(u) \/ AdmitStructural(u) \/ Cancel(u) PROVE FALSE
      BY <3>4 DEF StartLive, AdmitStructural, Cancel
    <3>5. ~NewGeneration /\ ~DisposeCoordinator
      BY DEF NewGeneration, DisposeCoordinator
    <3> QED BY <3>1, <3>2, <3>3, <3>4, <3>5 DEF TransitionNext
  <2> QED BY <2>1 DEF TransitionInv, CurrentInv, Structural
<1> QED BY <1>1, TransitionInvariance, PTL DEF TransitionSpec, NoLostUpdate

\* What is committed was planned for the configuration of that moment.
THEOREM TransitionsCurrent == TransitionSpec => CommitsAreCurrent
<1> DEFINE Step ==
      committed' # committed /\ committed' # Absent
        => \E t \in Transitions \ Live :
             /\ turn[t] = "running" /\ turn'[t] = "settled" /\ expected[t] = generation
             /\ committed' = Candidate(t, previous[t])
<1>1. TransitionInv /\ [TransitionNext]_transitionVars => [Step]_transitionVars
  <2> SUFFICES ASSUME TransitionInv, TransitionNext, committed' # committed, committed' # Absent
               PROVE  \E t \in Transitions \ Live :
                        /\ turn[t] = "running" /\ turn'[t] = "settled" /\ expected[t] = generation
                        /\ committed' = Candidate(t, previous[t])
    OBVIOUS
  <2>1. PICK t \in Transitions : Executed(t)
    BY DEF TransitionNext, Refuse, StartLive, AdmitStructural, Cancel, StartStructural,
           NewGeneration, DisposeCoordinator
  <2>2. t \notin Live /\ ~Outdated(t) /\ committed' = Candidate(t, previous[t])
    BY <2>1 DEF Executed
  <2>3. turn[t] = "running" /\ turn'[t] = "settled"
    BY <2>1 DEF Executed, Settles, TransitionInv, TransitionTypeOK
  <2> QED BY <2>2, <2>3 DEF Outdated
<1> QED BY <1>1, TransitionInvariance, PTL DEF TransitionSpec, CommitsAreCurrent
=============================================================================
