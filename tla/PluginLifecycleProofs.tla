------------------------ MODULE PluginLifecycleProofs ------------------------
(***************************************************************************)
(* A plugin is torn down in full, once, and never while it starts, for any *)
(* set of registrations and any order of the two promise chains.           *)
(***************************************************************************)
EXTENDS PluginLifecycle, SequenceTheorems, TLAPS

Torn == Regs \cup {"onStop", "onDispose"}

\* The cleanup that is in progress.
Current == IF running = None THEN <<>> ELSE <<running>>

\* What is torn down before the first cleanup.
Stopped == IF started THEN <<"onStop">> ELSE <<>>

\* The chain of the disposal: aborted from when it is queued, draining from when
\* startup is over, which it then stays.
ChainInv ==
  /\ aborted <=> disposal # "none"
  /\ draining <=> disposal \in InTeardown \cup Settled
  /\ draining => startup \in {"none"} \cup Settled

\* What was torn down, what is in progress and what is left make up what is owed.
TeardownInv ==
  /\ running # None => disposal = "cleanup"
  /\ disposal \in {"none", "queued", "onStop"} => torn = <<>> /\ cleanups = accepted
  /\ disposal = "onStop" => started
  /\ disposal = "cleanup" => (torn \o Current) \o Reverse(cleanups) = Stopped \o Reverse(accepted)
  /\ disposal = "onDispose" => hooks /\ torn = Stopped \o Reverse(accepted)
  /\ disposal \in Settled => torn = Owed

LifeInv == TypeOK /\ ChainInv /\ TeardownInv

-----------------------------------------------------------------------------
\* Reversal, by its last element.
LEMMA ReverseType ==
  ASSUME NEW S, NEW s \in Seq(S)
  PROVE  Reverse(s) \in Seq(S) /\ Len(Reverse(s)) = Len(s)
<1>1. \A i \in 1..Len(s) : s[(Len(s) - i) + 1] \in S
  <2> TAKE i \in 1..Len(s)
  <2>1. (Len(s) - i) + 1 \in 1..Len(s)
    OBVIOUS
  <2> QED BY <2>1
<1> QED BY <1>1 DEF Reverse

LEMMA ReverseEmpty == Reverse(<<>>) = <<>>
BY DEF Reverse

LEMMA PrefixFacts ==
  ASSUME NEW S, NEW s \in Seq(S), NEW n \in 0..Len(s)
  PROVE  /\ SubSeq(s, 1, n) \in Seq(S) /\ Len(SubSeq(s, 1, n)) = n
         /\ \A i \in 1..n : SubSeq(s, 1, n)[i] = s[i]
OBVIOUS

LEMMA ReverseLast ==
  ASSUME NEW S, NEW s \in Seq(S), s # <<>>
  PROVE  /\ Front(s) \in Seq(S) /\ Last(s) \in S
         /\ Reverse(s) = <<Last(s)>> \o Reverse(Front(s))
<1>1. Len(s) \in Nat /\ Len(s) >= 1
  BY EmptySeq
<1>2. /\ Front(s) \in Seq(S) /\ Len(Front(s)) = Len(s) - 1
      /\ \A i \in 1..(Len(s) - 1) : Front(s)[i] = s[i]
  <2>1. Len(s) - 1 \in 0..Len(s)
    BY <1>1
  <2> QED BY <2>1, PrefixFacts DEF Front
<1>3. Last(s) \in S
  BY <1>1 DEF Last
<1>4. /\ Reverse(Front(s)) \in Seq(S) /\ Len(Reverse(Front(s))) = Len(s) - 1
      /\ Reverse(s) \in Seq(S) /\ Len(Reverse(s)) = Len(s)
  BY <1>2, ReverseType
<1>5. <<Last(s)>> \in Seq(S) /\ Len(<<Last(s)>>) = 1
  BY <1>3
<1>6. /\ <<Last(s)>> \o Reverse(Front(s)) \in Seq(S)
      /\ Len(<<Last(s)>> \o Reverse(Front(s))) = Len(s)
  BY <1>1, <1>4, <1>5
<1>7. ASSUME NEW i \in 1..Len(s)
      PROVE  Reverse(s)[i] = (<<Last(s)>> \o Reverse(Front(s)))[i]
  <2>1. Reverse(s)[i] = s[(Len(s) - i) + 1]
    BY DEF Reverse
  <2>2. CASE i = 1
    <3>1. Reverse(s)[i] = Last(s)
      BY <1>1, <2>1, <2>2 DEF Last
    <3>2. (<<Last(s)>> \o Reverse(Front(s)))[1] = Last(s)
      BY <1>1, <1>3, <1>4, <1>5, ConcatProperties
    <3> QED BY <2>2, <3>1, <3>2
  <2>3. CASE i > 1
    <3>1. (<<Last(s)>> \o Reverse(Front(s)))[i] = Reverse(Front(s))[i - 1]
      BY <1>1, <1>4, <1>5, <2>3
    <3>2. i - 1 \in 1..Len(Front(s)) /\ (Len(Front(s)) - (i - 1)) + 1 = (Len(s) - i) + 1
      BY <1>1, <1>2, <2>3
    <3>3. Reverse(Front(s))[i - 1] = Front(s)[(Len(Front(s)) - (i - 1)) + 1]
      BY <3>2 DEF Reverse
    <3>4. (Len(s) - i) + 1 \in 1..(Len(s) - 1)
      BY <1>1, <2>3
    <3> QED BY <1>2, <2>1, <3>1, <3>2, <3>3, <3>4
  <2>4. i = 1 \/ i > 1
    OBVIOUS
  <2> QED BY <2>2, <2>3, <2>4
<1> QED BY <1>2, <1>3, <1>4, <1>6, <1>7, SeqEqual

-----------------------------------------------------------------------------
\* The steps of the promise chains that call nothing of the teardown.
Idle ==
  \/ Mount \/ Dispose \/ Mounted \/ Rollback \/ RolledBack
  \/ Declare \/ Resolve \/ Register \/ Start \/ StartupThrows

LEMMA IdleTypes == ASSUME LifeInv, Idle PROVE TypeOK'
<1> USE DEF LifeInv, TypeOK, promises, state, cleaning, history, InStartup, Settled
<1>1. CASE Mount \/ Dispose \/ Rollback
  BY <1>1, ZenonT(30) DEF Mount, Dispose, Rollback, BeginDisposal
<1>2. CASE Mounted \/ RolledBack
  BY <1>2 DEF Mounted, RolledBack
<1>3. CASE Declare \/ Resolve
  BY <1>3 DEF Declare, Resolve, Advance
<1>4. CASE Register
  <2>1. startup' \in {"rejected", "onStart"} /\ started' \in BOOLEAN
    BY <1>4 DEF Register, Advance
  <2> QED BY <1>4, <2>1 DEF Register
<1>5. CASE Start \/ StartupThrows
  BY <1>5 DEF Start, StartupThrows, Advance
<1> QED BY <1>1, <1>2, <1>3, <1>4, <1>5 DEF Idle

LEMMA IdleChain == ASSUME LifeInv, Idle PROVE ChainInv'
<1> USE DEF LifeInv, TypeOK, ChainInv, promises, state, cleaning, history, InStartup, InTeardown, Settled
<1>1. CASE Mount \/ Dispose \/ Rollback
  BY <1>1 DEF Mount, Dispose, Rollback, BeginDisposal
<1>2. CASE Mounted \/ RolledBack
  BY <1>2 DEF Mounted, RolledBack
<1>3. CASE Declare \/ Resolve \/ Register
  BY <1>3 DEF Declare, Resolve, Register, Advance
<1>4. CASE Start \/ StartupThrows
  BY <1>4 DEF Start, StartupThrows, Advance
<1> QED BY <1>1, <1>2, <1>3, <1>4 DEF Idle

\* They leave what the teardown has done, and once it runs what it is owed.
LEMMA IdleTeardown == ASSUME LifeInv, Idle PROVE TeardownInv'
<1>1. /\ torn' = torn /\ cleanups' = cleanups /\ running' = running /\ accepted' = accepted
      /\ disposal' = disposal \/ (disposal = "none" /\ disposal' = "queued")
  BY DEF Idle, Mount, Dispose, Mounted, Rollback, RolledBack, BeginDisposal,
         Declare, Resolve, Register, Start, StartupThrows,
         promises, state, cleaning, history
<1>2. draining => started' = started /\ hooks' = hooks
  BY DEF LifeInv, ChainInv, Idle, Mount, Dispose, Mounted, Rollback, RolledBack, BeginDisposal,
         Declare, Resolve, Register, Start, StartupThrows,
         promises, state, cleaning, history, InStartup, Settled
<1>3. CASE disposal \in {"none", "queued"}
  <2>1. torn = <<>> /\ cleanups = accepted /\ running = None
    BY <1>3 DEF LifeInv, TeardownInv
  <2>2. disposal' \in {"none", "queued"}
    BY <1>1, <1>3
  <2> QED BY <1>1, <2>1, <2>2 DEF TeardownInv, Settled
<1>4. CASE disposal \notin {"none", "queued"}
  <2>1. draining /\ disposal' = disposal
    BY <1>1, <1>4 DEF LifeInv, ChainInv, TypeOK, InTeardown
  <2>2. started' = started /\ hooks' = hooks
    BY <1>2, <2>1
  <2>3. Stopped' = Stopped
    BY <2>2 DEF Stopped
  <2>4. Current' = Current
    BY <1>1 DEF Current
  <2>5. Owed' = Owed
    BY <1>1, <2>2 DEF Owed
  <2> QED BY <1>1, <2>1, <2>2, <2>3, <2>4, <2>5 DEF LifeInv, TeardownInv
<1> QED BY <1>3, <1>4

LEMMA OwnStep == ASSUME LifeInv, NEW r \in Regs, Own(r) PROVE LifeInv'
<1>1. TypeOK'
  BY DEF LifeInv, TypeOK, Own, promises, state
<1>2. ChainInv'
  BY DEF LifeInv, ChainInv, Own, promises, state
<1>3. disposal' = disposal /\ disposal \in {"none", "queued"}
  BY DEF LifeInv, TypeOK, ChainInv, Own, promises, state, InTeardown
<1>4. TeardownInv'
  BY <1>3 DEF LifeInv, TeardownInv, Own, Settled
<1> QED BY <1>1, <1>2, <1>4 DEF LifeInv

LEMMA TeardownTypes ==
  ASSUME LifeInv
  PROVE  /\ torn \in Seq(Torn) /\ Current \in Seq(Torn) /\ Stopped \in Seq(Torn)
         /\ cleanups \in Seq(Torn) /\ accepted \in Seq(Torn)
         /\ Reverse(cleanups) \in Seq(Torn) /\ Reverse(accepted) \in Seq(Torn)
<1>1. torn \in Seq(Torn) /\ cleanups \in Seq(Torn) /\ accepted \in Seq(Torn)
  BY DEF LifeInv, TypeOK, Torn
<1>2. running = None \/ running \in Torn
  BY DEF LifeInv, TypeOK, Torn
<1>3. Current \in Seq(Torn)
  <2>1. CASE running = None
    BY <2>1 DEF Current
  <2>2. CASE running # None
    BY <1>2, <2>2 DEF Current
  <2> QED BY <2>1, <2>2
<1>4. Stopped \in Seq(Torn)
  <2>1. "onStop" \in Torn
    BY DEF Torn
  <2>2. CASE started
    BY <2>1, <2>2 DEF Stopped
  <2>3. CASE ~started
    BY <2>3 DEF Stopped
  <2> QED BY <2>2, <2>3
<1> QED BY <1>1, <1>3, <1>4, ReverseType

\* A teardown call that ends is added to those that did.
LEMMA AttemptedTypes ==
  ASSUME LifeInv, NEW c \in Torn, Attempted(c)
  PROVE  torn' \in Seq(Torn) /\ failed' \in BOOLEAN
<1>1. torn' \in Seq(Torn)
  BY TeardownTypes DEF Attempted
<1>2. failed' \in BOOLEAN
  <2>1. failed \in BOOLEAN /\ failed' \in {failed, TRUE}
    BY DEF LifeInv, TypeOK, Attempted
  <2> QED BY <2>1
<1> QED BY <1>1, <1>2

LEMMA DrainStep == ASSUME LifeInv, Drain PROVE LifeInv'
<1>1. TypeOK'
  BY DEF LifeInv, TypeOK, Drain, cleaning, history, InTeardown
<1>2. ChainInv'
  BY DEF LifeInv, ChainInv, Drain, StartupOver, cleaning, history, InTeardown
<1>3. torn = <<>> /\ cleanups = accepted /\ running = None
  BY DEF LifeInv, TeardownInv, Drain
<1>4. /\ torn' = torn /\ cleanups' = cleanups /\ running' = running /\ accepted' = accepted
      /\ started' = started /\ disposal' = IF started THEN "onStop" ELSE "cleanup"
  BY DEF Drain, cleaning, history
<1>5. CASE ~started
  <2>1. Stopped' = <<>> /\ Current' = <<>>
    BY <1>3, <1>4, <1>5 DEF Stopped, Current
  <2>2. (torn' \o Current') \o Reverse(cleanups') = Stopped' \o Reverse(accepted')
    BY <1>3, <1>4, <2>1
  <2> QED BY <1>1, <1>2, <1>3, <1>4, <1>5, <2>2 DEF LifeInv, TeardownInv, Settled
<1>6. CASE started
  BY <1>1, <1>2, <1>3, <1>4, <1>6 DEF LifeInv, TeardownInv, Settled
<1> QED BY <1>5, <1>6

LEMMA StopStep == ASSUME LifeInv, Stop PROVE LifeInv'
<1>1. TypeOK'
  <2>1. torn' \in Seq(Torn) /\ failed' \in BOOLEAN
    BY AttemptedTypes DEF Stop, Torn
  <2> QED BY <2>1 DEF LifeInv, TypeOK, Stop, Torn, state, cleaning, InTeardown
<1>2. ChainInv'
  BY DEF LifeInv, ChainInv, Stop, state, cleaning, InTeardown
<1>3. torn = <<>> /\ cleanups = accepted /\ running = None /\ started
  BY DEF LifeInv, TeardownInv, Stop
<1>4. /\ torn' = Append(torn, "onStop") /\ cleanups' = cleanups /\ running' = running
      /\ accepted' = accepted /\ started' = started /\ disposal' = "cleanup"
  BY DEF Stop, Attempted, state, cleaning
<1>5. torn' = <<"onStop">> /\ Stopped' = <<"onStop">> /\ Current' = <<>>
  BY <1>3, <1>4 DEF Stopped, Current
<1>6. torn' \o Current' = <<"onStop">>
  BY <1>5
<1>7. (torn' \o Current') \o Reverse(cleanups') = Stopped' \o Reverse(accepted')
  BY <1>3, <1>4, <1>5, <1>6
<1> QED BY <1>1, <1>2, <1>3, <1>4, <1>7 DEF LifeInv, TeardownInv, Settled

LEMMA NextCleanupStep == ASSUME LifeInv, NextCleanup PROVE LifeInv'
<1>1. cleanups \in Seq(Regs) /\ cleanups # <<>>
  BY DEF LifeInv, TypeOK, NextCleanup
<1>2. /\ Front(cleanups) \in Seq(Regs) /\ Last(cleanups) \in Regs
      /\ Reverse(cleanups) = <<Last(cleanups)>> \o Reverse(Front(cleanups))
  BY <1>1, ReverseLast
<1>3. /\ running = None /\ running' = Last(cleanups) /\ cleanups' = Front(cleanups)
      /\ torn' = torn /\ accepted' = accepted /\ started' = started
      /\ disposal = "cleanup" /\ disposal' = disposal
  BY DEF NextCleanup, promises, state, history
<1>4. TypeOK'
  BY <1>2, <1>3 DEF LifeInv, TypeOK, NextCleanup, promises, state, history
<1>5. ChainInv'
  BY DEF LifeInv, ChainInv, NextCleanup, promises, state, history
<1>6. running' # None
  BY <1>2, <1>3, NoneAssumption
<1>7. Current = <<>> /\ Current' = <<Last(cleanups)>> /\ Stopped' = Stopped
  BY <1>3, <1>6 DEF Current, Stopped
<1>8. (torn' \o Current') \o Reverse(cleanups') = Stopped' \o Reverse(accepted')
  <2>1. torn \in Seq(Torn) /\ Reverse(cleanups) \in Seq(Torn)
    BY TeardownTypes
  <2>2. <<Last(cleanups)>> \in Seq(Torn) /\ Reverse(Front(cleanups)) \in Seq(Torn)
    <3>1. Front(cleanups) \in Seq(Torn) /\ Last(cleanups) \in Torn
      BY <1>2 DEF Torn
    <3> QED BY <3>1, ReverseType
  <2>3. (torn \o <<Last(cleanups)>>) \o Reverse(Front(cleanups)) = torn \o Reverse(cleanups)
    BY <1>2, <2>1, <2>2, ConcatAssociative
  <2>4. torn \o Reverse(cleanups) = Stopped \o Reverse(accepted)
    <3>1. torn \o Current = torn
      BY <1>7, <2>1, ConcatEmptySeq
    <3> QED BY <1>3, <3>1 DEF LifeInv, TeardownInv
  <2> QED BY <1>3, <1>7, <2>3, <2>4
<1> QED BY <1>3, <1>4, <1>5, <1>8 DEF LifeInv, TeardownInv, Settled

LEMMA CleanedStep == ASSUME LifeInv, Cleaned PROVE LifeInv'
<1>1. running \in Regs /\ running # None /\ disposal = "cleanup"
  BY DEF LifeInv, TypeOK, TeardownInv, Cleaned
<1>2. /\ torn' = Append(torn, running) /\ running' = None /\ cleanups' = cleanups
      /\ accepted' = accepted /\ started' = started /\ disposal' = disposal
  BY DEF Cleaned, Attempted, promises, state
<1>3. TypeOK'
  <2>1. torn' \in Seq(Torn) /\ failed' \in BOOLEAN
    BY <1>1, AttemptedTypes DEF Cleaned, Torn
  <2> QED BY <2>1 DEF LifeInv, TypeOK, Cleaned, Torn, promises, state
<1>4. ChainInv'
  BY DEF LifeInv, ChainInv, Cleaned, promises, state
<1>5. torn \in Seq(Torn) /\ torn' \in Seq(Torn)
  BY <1>1, <1>2, TeardownTypes DEF Torn
<1>6. torn' = torn \o Current /\ torn' \o Current' = torn' /\ Stopped' = Stopped
  BY <1>1, <1>2, <1>5 DEF Current, Stopped
<1>7. (torn' \o Current') \o Reverse(cleanups') = Stopped' \o Reverse(accepted')
  BY <1>1, <1>2, <1>6 DEF LifeInv, TeardownInv
<1> QED BY <1>1, <1>2, <1>3, <1>4, <1>7 DEF LifeInv, TeardownInv, Settled

LEMMA CleanupOverStep == ASSUME LifeInv, CleanupOver PROVE LifeInv'
<1>1. TypeOK'
  BY DEF LifeInv, TypeOK, CleanupOver, Outcome, state, cleaning, history, InTeardown, Settled
<1>2. ChainInv'
  BY DEF LifeInv, ChainInv, CleanupOver, Outcome, state, cleaning, history, InTeardown, Settled
<1>3. /\ disposal = "cleanup" /\ running = None /\ cleanups = <<>>
      /\ torn' = torn /\ running' = running /\ accepted' = accepted
      /\ started' = started /\ hooks' = hooks
      /\ disposal' = IF hooks THEN "onDispose" ELSE Outcome(failed)
      /\ Outcome(failed) \in Settled
  BY DEF CleanupOver, Outcome, Settled, state, cleaning, history
<1>4. torn = Stopped \o Reverse(accepted)
  <2>1. Current = <<>> /\ Reverse(cleanups) = <<>>
    BY <1>3, ReverseEmpty DEF Current
  <2>2. torn \in Seq(Torn)
    BY TeardownTypes
  <2>3. (torn \o <<>>) \o <<>> = torn
    BY <2>2, ConcatEmptySeq
  <2> QED BY <1>3, <2>1, <2>3 DEF LifeInv, TeardownInv
<1>5. Stopped' = Stopped /\ Stopped \o Reverse(accepted) \in Seq(Torn)
  BY <1>3, TeardownTypes DEF Stopped
<1>6. CASE hooks
  BY <1>1, <1>2, <1>3, <1>4, <1>5, <1>6 DEF LifeInv, TeardownInv, Settled
<1>7. CASE ~hooks
  <2>1. Owed' = (Stopped \o Reverse(accepted)) \o <<>>
    BY <1>3, <1>7 DEF Owed, Stopped
  <2>2. Owed' = torn'
    BY <1>3, <1>4, <1>5, <2>1, ConcatEmptySeq
  <2> QED BY <1>1, <1>2, <1>3, <1>7, <2>2 DEF LifeInv, TeardownInv, Settled
<1> QED BY <1>6, <1>7

LEMMA DisposeHookStep == ASSUME LifeInv, DisposeHook PROVE LifeInv'
<1>1. TypeOK'
  <2>1. torn' \in Seq(Torn) /\ failed' \in BOOLEAN
    BY AttemptedTypes DEF DisposeHook, Torn
  <2>2. disposal' \in Settled
    BY DEF DisposeHook, Outcome, Settled
  <2> QED BY <2>1, <2>2 DEF LifeInv, TypeOK, DisposeHook, Torn, state, cleaning
<1>2. ChainInv'
  BY DEF LifeInv, ChainInv, DisposeHook, Outcome, state, cleaning, InTeardown, Settled
<1>3. /\ disposal = "onDispose" /\ hooks /\ torn = Stopped \o Reverse(accepted)
      /\ torn' = Append(torn, "onDispose") /\ running' = running /\ running = None
      /\ accepted' = accepted /\ started' = started /\ hooks' = hooks /\ disposal' \in Settled
  BY DEF DisposeHook, Attempted, Outcome, Settled, state, cleaning, LifeInv, TeardownInv
<1>4. torn \in Seq(Torn)
  BY TeardownTypes
<1>5. torn' = torn \o <<"onDispose">>
  BY <1>3, <1>4
<1>6. Owed' = (Stopped \o Reverse(accepted)) \o <<"onDispose">>
  BY <1>3 DEF Owed, Stopped
<1> QED BY <1>1, <1>2, <1>3, <1>5, <1>6 DEF LifeInv, TeardownInv, Settled

-----------------------------------------------------------------------------
LEMMA LifeStep == LifeInv /\ [Next]_vars => LifeInv'
<1> SUFFICES ASSUME LifeInv, [Next]_vars PROVE LifeInv'
  OBVIOUS
<1>1. CASE UNCHANGED vars
  BY <1>1, ZenonT(30)
  DEF vars, promises, state, cleaning, history, LifeInv, TypeOK, ChainInv, TeardownInv,
      Current, Stopped, Owed
<1>2. CASE Idle
  BY <1>2, IdleTypes, IdleChain, IdleTeardown DEF LifeInv
<1>3. CASE Next
  BY <1>2, <1>3, OwnStep, DrainStep, StopStep, NextCleanupStep, CleanedStep, CleanupOverStep,
     DisposeHookStep DEF Next, StartupStep, DisposalStep, MountStep, Idle
<1> QED BY <1>1, <1>3

LEMMA LifeStart == Init => LifeInv
<1> SUFFICES ASSUME Init PROVE LifeInv
  OBVIOUS
<1>1. TypeOK
  <2>1. cleanups \in Seq(Regs) /\ accepted \in Seq(Regs) /\ torn \in Seq(Regs \cup {"onStop", "onDispose"})
    BY DEF Init
  <2>2. running \in Regs \cup {None} /\ aborted \in BOOLEAN /\ hooks \in BOOLEAN
    BY DEF Init
  <2>3. started \in BOOLEAN /\ draining \in BOOLEAN /\ failed \in BOOLEAN
    BY DEF Init
  <2> QED BY <2>1, <2>2, <2>3 DEF Init, TypeOK
<1>2. ChainInv
  BY DEF Init, ChainInv, InTeardown, Settled
<1>3. TeardownInv
  BY DEF Init, TeardownInv, Settled
<1> QED BY <1>1, <1>2, <1>3 DEF LifeInv

LEMMA LifeAlways == Spec => []LifeInv
BY LifeStart, LifeStep, PTL DEF Spec

\* The state is well typed; in particular a cleanup that ends was begun.
THEOREM LifecycleTypes == Spec => []TypeOK
<1>1. LifeInv => TypeOK
  BY DEF LifeInv
<1> QED BY <1>1, LifeAlways, PTL

\* Whatever throws and whoever disposes when: onStop exactly if the plugin
\* started, every accepted registration in reverse order, onDispose exactly if
\* there was a declaration.
THEOREM LifecycleTornDown == Spec => []TornDownInFull
<1>1. LifeInv => TornDownInFull
  BY DEF LifeInv, TeardownInv, TornDownInFull
<1> QED BY <1>1, LifeAlways, PTL

\* Teardown never overlaps startup.
THEOREM LifecycleNoOverlap == Spec => []NoOverlap
<1>1. LifeInv => NoOverlap
  BY DEF LifeInv, ChainInv, NoOverlap, InStartup, Settled
<1> QED BY <1>1, LifeAlways, PTL

\* An aborted startup makes no further call.
THEOREM LifecycleAborted == Spec => NothingStartsAborted
<1>1. LifeInv /\ [Next]_vars => [aborted /\ startup' # startup => startup' \in Settled]_vars
  BY DEF LifeInv, ChainInv, Next, Mount, Dispose, Own, StartupStep, DisposalStep, MountStep,
         Declare, Resolve, Register, Start, StartupThrows, Advance,
         Drain, Stop, NextCleanup, Cleaned, CleanupOver, DisposeHook,
         Mounted, Rollback, RolledBack, vars, promises, state, cleaning, history, Settled
<1> QED BY <1>1, LifeAlways, PTL DEF Spec, NothingStartsAborted
=============================================================================
