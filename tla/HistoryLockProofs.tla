------------------------- MODULE HistoryLockProofs -------------------------
(***************************************************************************)
(* For any number of processes, killed anywhere, Inv is an invariant of    *)
(* HistoryLock; with it the lock excludes, and a live owner keeps it.      *)
(*                                                                         *)
(* The argument.  The marker makes the guard exclusive: a cleaner removes  *)
(* a guard only after it removed the marker of a dead acquirer itself, and *)
(* a dead acquirer is not in the guard (GuardInv).  Everything another     *)
(* process removes under the guard was read from a dead owner (SeenInv),   *)
(* and the dead do not come back.  So the lock file of a live owner stays  *)
(* the one it created (LeaseIntact), and two owners would share one file.  *)
(* While nobody was killed a guard has an acquirer inside it, and whoever  *)
(* created a complete lock still owns it (LitterInv).                      *)
(***************************************************************************)
EXTENDS HistoryLock, TLAPS

\* Inv holds before the first acquisition.
LEMMA InitInv == Init => Inv
BY AbsenceAssumption
DEF Init, Inv, TypeOK, GuardInv, SeenInv, LeaseIntact, InGuard, Owns, Guarded, Labels, Goals

\* Every file system call and every kill keeps the types.
LEMMA StepTypeOK == TypeOK /\ [Next]_vars => TypeOK'
<1> SUFFICES ASSUME TypeOK, [Next]_vars PROVE TypeOK'
  OBVIOUS
<1> USE DEF TypeOK, Labels, Guarded, Goals, At, Goto, Forget, Leave, guardFiles, lockFile
<1>stutter. CASE UNCHANGED vars
  BY <1>stutter DEF vars
<1>1. ASSUME NEW p \in Procs, MkGuard(p) PROVE TypeOK'
  BY <1>1 DEF MkGuard
<1>2. ASSUME NEW p \in Procs, LookGuard(p) PROVE TypeOK'
  BY <1>2 DEF LookGuard
<1>3. ASSUME NEW p \in Procs, ProbeGuard(p) PROVE TypeOK'
  BY <1>3 DEF ProbeGuard
<1>4. ASSUME NEW p \in Procs, RetireMarker(p) PROVE TypeOK'
  BY <1>4 DEF RetireMarker
<1>5. ASSUME NEW p \in Procs, RetireGuard(p) PROVE TypeOK'
  BY <1>5 DEF RetireGuard
<1>6. ASSUME NEW p \in Procs, MkGuardAgain(p) PROVE TypeOK'
  BY <1>6 DEF MkGuardAgain
<1>7. ASSUME NEW p \in Procs, CreateMarker(p) PROVE TypeOK'
  BY <1>7 DEF CreateMarker
<1>8. ASSUME NEW p \in Procs, FillMarker(p) PROVE TypeOK'
  BY <1>8 DEF FillMarker
<1>9. ASSUME NEW p \in Procs, RmMarker(p) PROVE TypeOK'
  BY <1>9 DEF RmMarker
<1>10. ASSUME NEW p \in Procs, RmGuard(p) PROVE TypeOK'
  BY <1>10 DEF RmGuard
<1>11. ASSUME NEW p \in Procs, OpenLock(p) PROVE TypeOK'
  BY <1>11 DEF OpenLock
<1>12. ASSUME NEW p \in Procs, InspectLock(p) PROVE TypeOK'
  BY <1>12 DEF InspectLock
<1>13. ASSUME NEW p \in Procs, RecheckLock(p) PROVE TypeOK'
  BY <1>13 DEF RecheckLock
<1>14. ASSUME NEW p \in Procs, UnlinkLock(p) PROVE TypeOK'
  BY <1>14 DEF UnlinkLock
<1>15. ASSUME NEW p \in Procs, WriteRecord(p) PROVE TypeOK'
  BY <1>15 DEF WriteRecord
<1>16. ASSUME NEW p \in Procs, WriteFails(p) PROVE TypeOK'
  BY <1>16 DEF WriteFails
<1>17. ASSUME NEW p \in Procs, Release(p) PROVE TypeOK'
  BY <1>17 DEF Release
<1>18. ASSUME NEW p \in Procs, CheckToken(p) PROVE TypeOK'
  BY <1>18 DEF CheckToken
<1>19. ASSUME NEW p \in Procs, RmLock(p) PROVE TypeOK'
  BY <1>19 DEF RmLock
<1>20. ASSUME NEW p \in Procs, LegacyStart(p) PROVE TypeOK'
  BY <1>20 DEF LegacyStart
<1>21. ASSUME NEW p \in Procs, LegacyOpen(p) PROVE TypeOK'
  BY <1>21 DEF LegacyOpen
<1>22. ASSUME NEW p \in Procs, LegacyWrite(p) PROVE TypeOK'
  BY <1>22 DEF LegacyWrite
<1>23. ASSUME NEW p \in Procs, Kill(p) PROVE TypeOK'
  BY <1>23 DEF Kill
<1> QED
  BY <1>stutter, <1>1, <1>2, <1>3, <1>4, <1>5, <1>6, <1>7, <1>8, <1>9, <1>10, <1>11, <1>12,
     <1>13, <1>14, <1>15, <1>16, <1>17, <1>18, <1>19, <1>20, <1>21, <1>22, <1>23
  DEF Next, Acquire

\* The guard stays with one live process.
LEMMA StepGuard == Inv /\ [Next]_vars => GuardInv'
<1> SUFFICES ASSUME Inv, [Next]_vars PROVE GuardInv'
  OBVIOUS
<1> USE AbsenceAssumption DEF Inv, TypeOK, GuardInv, InGuard,
            Labels, Guarded, Goals, At, Goto, Forget, Leave, guardFiles, lockFile
<1>stutter. CASE UNCHANGED vars
  BY <1>stutter DEF vars
<1>1. ASSUME NEW p \in Procs, MkGuard(p) PROVE GuardInv'
  BY <1>1 DEF MkGuard
<1>2. ASSUME NEW p \in Procs, LookGuard(p) PROVE GuardInv'
  BY <1>2 DEF LookGuard
<1>3. ASSUME NEW p \in Procs, ProbeGuard(p) PROVE GuardInv'
  BY <1>3 DEF ProbeGuard
<1>4. ASSUME NEW p \in Procs, RetireMarker(p) PROVE GuardInv'
  <2>1. CASE marker # seen[p]
    BY <1>4, <2>1 DEF RetireMarker
  <2>2. CASE marker = seen[p]
    \* The marker is that of a dead process, so no live one is in the guard.
    <3>1. marker \in Procs \ alive
      BY <1>4, <2>2 DEF RetireMarker, SeenInv
    <3>2. \A q \in Procs : ~InGuard(q)
      <4> SUFFICES ASSUME NEW q \in Procs, InGuard(q) PROVE FALSE
        OBVIOUS
      <4>1. marker = q /\ q \in alive
        BY <3>1
      <4> QED
        BY <3>1, <4>1
    <3>3. \A q \in Procs : InGuard(q)' => q = p
      BY <1>4, <2>2, <3>2 DEF RetireMarker
    <3>4. guard' /\ marker' = None
      BY <1>4, <2>2, <3>1 DEF RetireMarker
    <3> HIDE DEF InGuard
    <3> QED
      BY <3>3, <3>4
  <2> QED
    BY <2>1, <2>2
<1>5. ASSUME NEW p \in Procs, RetireGuard(p) PROVE GuardInv'
  BY <1>5 DEF RetireGuard
<1>6. ASSUME NEW p \in Procs, MkGuardAgain(p) PROVE GuardInv'
  BY <1>6 DEF MkGuardAgain
<1>7. ASSUME NEW p \in Procs, CreateMarker(p) PROVE GuardInv'
  BY <1>7 DEF CreateMarker
<1>8. ASSUME NEW p \in Procs, FillMarker(p) PROVE GuardInv'
  BY <1>8 DEF FillMarker
<1>9. ASSUME NEW p \in Procs, RmMarker(p) PROVE GuardInv'
  BY <1>9 DEF RmMarker
<1>10. ASSUME NEW p \in Procs, RmGuard(p) PROVE GuardInv'
  BY <1>10 DEF RmGuard
<1>11. ASSUME NEW p \in Procs, OpenLock(p) PROVE GuardInv'
  BY <1>11 DEF OpenLock
<1>12. ASSUME NEW p \in Procs, InspectLock(p) PROVE GuardInv'
  BY <1>12 DEF InspectLock
<1>13. ASSUME NEW p \in Procs, RecheckLock(p) PROVE GuardInv'
  BY <1>13 DEF RecheckLock
<1>14. ASSUME NEW p \in Procs, UnlinkLock(p) PROVE GuardInv'
  BY <1>14 DEF UnlinkLock
<1>15. ASSUME NEW p \in Procs, WriteRecord(p) PROVE GuardInv'
  BY <1>15 DEF WriteRecord
<1>16. ASSUME NEW p \in Procs, WriteFails(p) PROVE GuardInv'
  BY <1>16 DEF WriteFails
<1>17. ASSUME NEW p \in Procs, Release(p) PROVE GuardInv'
  BY <1>17 DEF Release
<1>18. ASSUME NEW p \in Procs, CheckToken(p) PROVE GuardInv'
  BY <1>18 DEF CheckToken
<1>19. ASSUME NEW p \in Procs, RmLock(p) PROVE GuardInv'
  BY <1>19 DEF RmLock
<1>20. ASSUME NEW p \in Procs, LegacyStart(p) PROVE GuardInv'
  BY <1>20 DEF LegacyStart
<1>21. ASSUME NEW p \in Procs, LegacyOpen(p) PROVE GuardInv'
  BY <1>21 DEF LegacyOpen
<1>22. ASSUME NEW p \in Procs, LegacyWrite(p) PROVE GuardInv'
  BY <1>22 DEF LegacyWrite
<1>23. ASSUME NEW p \in Procs, Kill(p) PROVE GuardInv'
  BY <1>23 DEF Kill
<1> QED
  BY <1>stutter, <1>1, <1>2, <1>3, <1>4, <1>5, <1>6, <1>7, <1>8, <1>9, <1>10, <1>11, <1>12,
     <1>13, <1>14, <1>15, <1>16, <1>17, <1>18, <1>19, <1>20, <1>21, <1>22, <1>23
  DEF Next, Acquire

\* What is about to be removed was left by a dead process.
LEMMA StepSeen == Inv /\ [Next]_vars => SeenInv'
<1> SUFFICES ASSUME Inv, [Next]_vars PROVE SeenInv'
  OBVIOUS
<1> USE AbsenceAssumption DEF Inv, TypeOK, SeenInv, Labels, Guarded, Goals,
            At, Goto, Forget, Leave, guardFiles, lockFile
<1>stutter. CASE UNCHANGED vars
  BY <1>stutter DEF vars
<1>1. ASSUME NEW p \in Procs, MkGuard(p) PROVE SeenInv'
  BY <1>1 DEF MkGuard
<1>2. ASSUME NEW p \in Procs, LookGuard(p) PROVE SeenInv'
  BY <1>2 DEF LookGuard
<1>3. ASSUME NEW p \in Procs, ProbeGuard(p) PROVE SeenInv'
  BY <1>3 DEF ProbeGuard
<1>4. ASSUME NEW p \in Procs, RetireMarker(p) PROVE SeenInv'
  BY <1>4 DEF RetireMarker
<1>5. ASSUME NEW p \in Procs, RetireGuard(p) PROVE SeenInv'
  BY <1>5 DEF RetireGuard
<1>6. ASSUME NEW p \in Procs, MkGuardAgain(p) PROVE SeenInv'
  BY <1>6 DEF MkGuardAgain
<1>7. ASSUME NEW p \in Procs, CreateMarker(p) PROVE SeenInv'
  BY <1>7 DEF CreateMarker
<1>8. ASSUME NEW p \in Procs, FillMarker(p) PROVE SeenInv'
  BY <1>8 DEF FillMarker
<1>9. ASSUME NEW p \in Procs, RmMarker(p) PROVE SeenInv'
  BY <1>9 DEF RmMarker
<1>10. ASSUME NEW p \in Procs, RmGuard(p) PROVE SeenInv'
  BY <1>10 DEF RmGuard
<1>11. ASSUME NEW p \in Procs, OpenLock(p) PROVE SeenInv'
  BY <1>11 DEF OpenLock
<1>12. ASSUME NEW p \in Procs, InspectLock(p) PROVE SeenInv'
  BY <1>12 DEF InspectLock
<1>13. ASSUME NEW p \in Procs, RecheckLock(p) PROVE SeenInv'
  BY <1>13 DEF RecheckLock
<1>14. ASSUME NEW p \in Procs, UnlinkLock(p) PROVE SeenInv'
  \* Another process about to unlink would be in the guard as well.
  <2>1. \A q \in alive : pc[q] = "unlinkLock" => q = p
    BY <1>14 DEF UnlinkLock, GuardInv, InGuard
  <2> QED
    BY <1>14, <2>1 DEF UnlinkLock
<1>15. ASSUME NEW p \in Procs, WriteRecord(p) PROVE SeenInv'
  BY <1>15 DEF WriteRecord
<1>16. ASSUME NEW p \in Procs, WriteFails(p) PROVE SeenInv'
  BY <1>16 DEF WriteFails
<1>17. ASSUME NEW p \in Procs, Release(p) PROVE SeenInv'
  BY <1>17 DEF Release
<1>18. ASSUME NEW p \in Procs, CheckToken(p) PROVE SeenInv'
  BY <1>18 DEF CheckToken
<1>19. ASSUME NEW p \in Procs, RmLock(p) PROVE SeenInv'
  \* The lock is that of p, which lives, and so not one about to be unlinked.
  <2>1. lock = p /\ p \in alive
    BY <1>19 DEF RmLock, LeaseIntact, Owns
  <2>2. \A q \in alive : pc[q] # "unlinkLock"
    BY <2>1
  <2> QED
    BY <1>19, <2>2 DEF RmLock
<1>20. ASSUME NEW p \in Procs, LegacyStart(p) PROVE SeenInv'
  BY <1>20 DEF LegacyStart
<1>21. ASSUME NEW p \in Procs, LegacyOpen(p) PROVE SeenInv'
  BY <1>21 DEF LegacyOpen
<1>22. ASSUME NEW p \in Procs, LegacyWrite(p) PROVE SeenInv'
  BY <1>22 DEF LegacyWrite
<1>23. ASSUME NEW p \in Procs, Kill(p) PROVE SeenInv'
  BY <1>23 DEF Kill
<1> QED
  BY <1>stutter, <1>1, <1>2, <1>3, <1>4, <1>5, <1>6, <1>7, <1>8, <1>9, <1>10, <1>11, <1>12,
     <1>13, <1>14, <1>15, <1>16, <1>17, <1>18, <1>19, <1>20, <1>21, <1>22, <1>23
  DEF Next, Acquire

\* A live owner keeps the lock file it created.
LEMMA StepLease == Inv /\ [Next]_vars => LeaseIntact'
<1> SUFFICES ASSUME Inv, [Next]_vars PROVE LeaseIntact'
  OBVIOUS
<1> USE AbsenceAssumption DEF Inv, TypeOK, LeaseIntact, Owns, Labels, Guarded, Goals,
            At, Goto, Forget, Leave, guardFiles, lockFile
<1>stutter. CASE UNCHANGED vars
  BY <1>stutter DEF vars
<1>1. ASSUME NEW p \in Procs, MkGuard(p) PROVE LeaseIntact'
  BY <1>1 DEF MkGuard
<1>2. ASSUME NEW p \in Procs, LookGuard(p) PROVE LeaseIntact'
  BY <1>2 DEF LookGuard
<1>3. ASSUME NEW p \in Procs, ProbeGuard(p) PROVE LeaseIntact'
  BY <1>3 DEF ProbeGuard
<1>4. ASSUME NEW p \in Procs, RetireMarker(p) PROVE LeaseIntact'
  BY <1>4 DEF RetireMarker
<1>5. ASSUME NEW p \in Procs, RetireGuard(p) PROVE LeaseIntact'
  BY <1>5 DEF RetireGuard
<1>6. ASSUME NEW p \in Procs, MkGuardAgain(p) PROVE LeaseIntact'
  BY <1>6 DEF MkGuardAgain
<1>7. ASSUME NEW p \in Procs, CreateMarker(p) PROVE LeaseIntact'
  BY <1>7 DEF CreateMarker
<1>8. ASSUME NEW p \in Procs, FillMarker(p) PROVE LeaseIntact'
  BY <1>8 DEF FillMarker
<1>9. ASSUME NEW p \in Procs, RmMarker(p) PROVE LeaseIntact'
  BY <1>9 DEF RmMarker
<1>10. ASSUME NEW p \in Procs, RmGuard(p) PROVE LeaseIntact'
  BY <1>10 DEF RmGuard
<1>11. ASSUME NEW p \in Procs, OpenLock(p) PROVE LeaseIntact'
  \* A lock is created only where there is none, that is, without an owner.
  <2>1. lock = None => \A q \in Procs : ~Owns(q)
    OBVIOUS
  <2> QED
    BY <1>11, <2>1 DEF OpenLock
<1>12. ASSUME NEW p \in Procs, InspectLock(p) PROVE LeaseIntact'
  BY <1>12 DEF InspectLock
<1>13. ASSUME NEW p \in Procs, RecheckLock(p) PROVE LeaseIntact'
  BY <1>13 DEF RecheckLock
<1>14. ASSUME NEW p \in Procs, UnlinkLock(p) PROVE LeaseIntact'
  \* The lock is that of a dead process, so no live one owns it.
  <2>1. lock = seen[p] /\ seen[p] \notin alive
    BY <1>14 DEF UnlinkLock, SeenInv
  <2>2. \A q \in Procs : ~Owns(q)
    BY <2>1
  <2> QED
    BY <1>14, <2>2 DEF UnlinkLock
<1>15. ASSUME NEW p \in Procs, WriteRecord(p) PROVE LeaseIntact'
  BY <1>15 DEF WriteRecord
<1>16. ASSUME NEW p \in Procs, WriteFails(p) PROVE LeaseIntact'
  BY <1>16 DEF WriteFails
<1>17. ASSUME NEW p \in Procs, Release(p) PROVE LeaseIntact'
  BY <1>17 DEF Release
<1>18. ASSUME NEW p \in Procs, CheckToken(p) PROVE LeaseIntact'
  BY <1>18 DEF CheckToken
<1>19. ASSUME NEW p \in Procs, RmLock(p) PROVE LeaseIntact'
  <2>1. \A q \in Procs : Owns(q) => q = p
    BY <1>19 DEF RmLock
  <2> QED
    BY <1>19, <2>1 DEF RmLock
<1>20. ASSUME NEW p \in Procs, LegacyStart(p) PROVE LeaseIntact'
  BY <1>20 DEF LegacyStart
<1>21. ASSUME NEW p \in Procs, LegacyOpen(p) PROVE LeaseIntact'
  \* As for OpenLock.
  <2>1. lock = None => \A q \in Procs : ~Owns(q)
    OBVIOUS
  <2> QED
    BY <1>21, <2>1 DEF LegacyOpen
<1>22. ASSUME NEW p \in Procs, LegacyWrite(p) PROVE LeaseIntact'
  BY <1>22 DEF LegacyWrite
<1>23. ASSUME NEW p \in Procs, Kill(p) PROVE LeaseIntact'
  BY <1>23 DEF Kill
<1> QED
  BY <1>stutter, <1>1, <1>2, <1>3, <1>4, <1>5, <1>6, <1>7, <1>8, <1>9, <1>10, <1>11, <1>12,
     <1>13, <1>14, <1>15, <1>16, <1>17, <1>18, <1>19, <1>20, <1>21, <1>22, <1>23
  DEF Next, Acquire

\* Every file system call and every kill preserves Inv.
LEMMA StepInv == Inv /\ [Next]_vars => Inv'
BY StepTypeOK, StepGuard, StepSeen, StepLease DEF Inv

\* Inv in every reachable state: the guard of withAcquisitionGuard() has one
\* live holder, and recovery only ever removes what a dead process left.
THEOREM Invariance == Spec => []Inv
BY InitInv, StepInv, PTL DEF Spec

\* Type correctness of the ownership lock.
THEOREM TypeCorrectness == Spec => []TypeOK
<1>1. Inv => TypeOK
  BY DEF Inv
<1> QED
  BY Invariance, <1>1, PTL

\* Whatever number of acquirers, recoverers and legacy writers contend and
\* wherever they are killed, acquire() gives the history to one live process.
THEOREM Exclusion == Spec => []MutualExclusion
<1>1. Inv => MutualExclusion
  BY DEF Inv, LeaseIntact, MutualExclusion
<1> QED
  BY Invariance, <1>1, PTL

\* Recovery never takes a lock file from a live creator: only releaseLock() of
\* the creator itself removes it.
THEOREM LiveLockSafety == Spec => LiveLockKept
<1>1. ASSUME Inv, [Next]_vars,
             NEW p \in Procs, lock = p, p \in alive, lock' # p
      PROVE pc[p] = "rmLock"
  <2> USE <1>1, AbsenceAssumption DEF Inv, TypeOK, SeenInv, LeaseIntact, Owns, At, lockFile
  <2>1. ~UNCHANGED vars
    BY DEF vars
  <2>2. PICK q \in Procs :
          \/ Acquire(q) \/ WriteFails(q) \/ Release(q) \/ Kill(q)
          \/ LegacyStart(q) \/ LegacyOpen(q) \/ LegacyWrite(q)
    BY <2>1 DEF Next
  \* Only three calls write the lock; the other two find none or a dead owner.
  <2>3. OpenLock(q) \/ UnlinkLock(q) \/ RmLock(q) \/ LegacyOpen(q)
    BY <2>2 DEF Acquire, MkGuard, LookGuard, ProbeGuard, RetireMarker, RetireGuard, MkGuardAgain,
         CreateMarker, FillMarker, InspectLock, RecheckLock, WriteRecord, RmMarker, RmGuard,
         CheckToken, WriteFails, Release, Kill, LegacyStart, LegacyWrite
  <2>4. CASE OpenLock(q) \/ LegacyOpen(q)
    BY <2>4 DEF OpenLock, LegacyOpen
  <2>5. CASE UnlinkLock(q)
    BY <2>5 DEF UnlinkLock
  <2>6. CASE RmLock(q)
    BY <2>6 DEF RmLock
  <2> QED
    BY <2>3, <2>4, <2>5, <2>6
<1>2. Inv /\ [Next]_vars =>
        [\A p \in Procs : lock = p /\ p \in alive /\ lock' # p => pc[p] = "rmLock"]_vars
  BY <1>1
<1> QED
  BY Invariance, <1>2, PTL DEF Spec, LiveLockKept
-----------------------------------------------------------------------------
\* While nobody was killed, a guard has a process in it, and a complete lock is
\* that of its owner.
LitterInv ==
  alive = Procs =>
    /\ guard => \E p \in Procs : InGuard(p)
    /\ lock # None /\ lockFull => Owns(lock)

\* Nothing is left behind but by a kill.
LEMMA StepLitter == Inv /\ LitterInv /\ [Next]_vars => LitterInv'
<1> SUFFICES ASSUME Inv, LitterInv, [Next]_vars PROVE LitterInv'
  OBVIOUS
<1>kill. ASSUME NEW p \in Procs, Kill(p) PROVE LitterInv'
  BY <1>kill DEF Kill, LitterInv
<1> SUFFICES ASSUME alive' = Procs, ~\E p \in Procs : Kill(p) PROVE LitterInv'
  BY <1>kill DEF LitterInv
<1> USE AbsenceAssumption DEF Inv, TypeOK, LitterInv, InGuard, Owns, Labels, Guarded, Goals,
            At, Goto, Forget, Leave, guardFiles, lockFile
<1>stutter. CASE UNCHANGED vars
  BY <1>stutter DEF vars
<1>1. ASSUME NEW p \in Procs, MkGuard(p) PROVE LitterInv'
  BY <1>1 DEF MkGuard
<1>2. ASSUME NEW p \in Procs, LookGuard(p) PROVE LitterInv'
  BY <1>2 DEF LookGuard
<1>3. ASSUME NEW p \in Procs, ProbeGuard(p) PROVE LitterInv'
  BY <1>3 DEF ProbeGuard
<1>4. ASSUME NEW p \in Procs, RetireMarker(p) PROVE LitterInv'
  BY <1>4 DEF RetireMarker, SeenInv
<1>5. ASSUME NEW p \in Procs, RetireGuard(p) PROVE LitterInv'
  BY <1>5 DEF RetireGuard
<1>6. ASSUME NEW p \in Procs, MkGuardAgain(p) PROVE LitterInv'
  BY <1>6 DEF MkGuardAgain
<1>7. ASSUME NEW p \in Procs, CreateMarker(p) PROVE LitterInv'
  BY <1>7 DEF CreateMarker
<1>8. ASSUME NEW p \in Procs, FillMarker(p) PROVE LitterInv'
  BY <1>8 DEF FillMarker
<1>9. ASSUME NEW p \in Procs, RmMarker(p) PROVE LitterInv'
  BY <1>9 DEF RmMarker
<1>10. ASSUME NEW p \in Procs, RmGuard(p) PROVE LitterInv'
  BY <1>10 DEF RmGuard, GuardInv
<1>11. ASSUME NEW p \in Procs, OpenLock(p) PROVE LitterInv'
  BY <1>11 DEF OpenLock, LeaseIntact
<1>12. ASSUME NEW p \in Procs, InspectLock(p) PROVE LitterInv'
  BY <1>12 DEF InspectLock
<1>13. ASSUME NEW p \in Procs, RecheckLock(p) PROVE LitterInv'
  BY <1>13 DEF RecheckLock
<1>14. ASSUME NEW p \in Procs, UnlinkLock(p) PROVE LitterInv'
  BY <1>14 DEF UnlinkLock, SeenInv
<1>15. ASSUME NEW p \in Procs, WriteRecord(p) PROVE LitterInv'
  BY <1>15 DEF WriteRecord, LeaseIntact
<1>16. ASSUME NEW p \in Procs, WriteFails(p) PROVE LitterInv'
  BY <1>16 DEF WriteFails, LeaseIntact
<1>17. ASSUME NEW p \in Procs, Release(p) PROVE LitterInv'
  BY <1>17 DEF Release
<1>18. ASSUME NEW p \in Procs, CheckToken(p) PROVE LitterInv'
  BY <1>18 DEF CheckToken, LeaseIntact
<1>19. ASSUME NEW p \in Procs, RmLock(p) PROVE LitterInv'
  BY <1>19 DEF RmLock, LeaseIntact
<1>20. ASSUME NEW p \in Procs, LegacyStart(p) PROVE LitterInv'
  BY <1>20 DEF LegacyStart
<1>21. ASSUME NEW p \in Procs, LegacyOpen(p) PROVE LitterInv'
  BY <1>21 DEF LegacyOpen, LeaseIntact
<1>22. ASSUME NEW p \in Procs, LegacyWrite(p) PROVE LitterInv'
  BY <1>22 DEF LegacyWrite, LeaseIntact
<1> QED
  BY <1>stutter, <1>1, <1>2, <1>3, <1>4, <1>5, <1>6, <1>7, <1>8, <1>9, <1>10, <1>11,
     <1>12, <1>13, <1>14, <1>15, <1>16, <1>17, <1>18, <1>19, <1>20, <1>21, <1>22
  DEF Next, Acquire

\* Every way out of the guarded section removes the marker and the guard, and every
\* way out of an acquisition that failed its complete lock, for any number of processes.
THEOREM NothingLeft == Spec => []NoLitter
<1>1. Init => LitterInv
  BY DEF Init, LitterInv
<1>2. Inv /\ LitterInv => NoLitter
  BY AbsenceAssumption DEF Inv, TypeOK, LitterInv, NoLitter, InGuard, Owns, Guarded
<1> QED
  BY <1>1, <1>2, StepLitter, Invariance, PTL DEF Spec
=============================================================================
