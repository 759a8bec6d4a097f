---------------------------- MODULE HistoryLock ----------------------------
(***************************************************************************)
(* The ownership lock of one session history:                              *)
(* packages/core/doompi-core/src/services/historyOwnership/index.ts.       *)
(*                                                                         *)
(* A process owns a history while the lock file it created exists.  Every  *)
(* acquirer first creates a guard directory and a marker file in it, so    *)
(* that the lock of a dead owner, and the guard of a dead acquirer, can be *)
(* removed without racing a live one.  A step is one file system call; a   *)
(* process may be killed between any two of them and does not come back.   *)
(*                                                                         *)
(* Writers of an older version take the lock without the guard.  They are  *)
(* not in the sources, only named there, and their steps are marked.       *)
(***************************************************************************)
EXTENDS Naturals, FiniteSets

CONSTANTS
  Procs,   \* processes; a process runs one acquisition at a time
  Legacy,  \* the processes that may also take the lock without the guard
  None     \* no process

ASSUME LegacyAssumption == Legacy \subseteq Procs
ASSUME AbsenceAssumption == None \notin Procs

VARIABLES
  alive,       \* the processes that were not killed
  guard,       \* whether the guard directory exists
  marker,      \* the acquirer whose marker is in it, or None
  markerFull,  \* whether the marker holds its pid
  lock,        \* the process that created the lock file, or None
  lockFull,    \* whether the ownership record is written in it
  pc,          \* the next file system call of each process
  seen,        \* the owner it read from a marker or a lock
  goal         \* where it goes on after the guard is released

vars == <<alive, guard, marker, markerFull, lock, lockFull, pc, seen, goal>>

Guarded == {"mark", "fill", "open", "inspect", "recheck", "unlinkLock", "reopen", "write",
            "unmark", "rmGuard"}
Labels == Guarded \cup {"idle", "look", "probe", "unlinkMarker", "rmDeadGuard", "mkAgain",
                        "held", "check", "rmLock", "legacyOpen", "legacyWrite"}
Goals == {"idle", "held", "check"}

Init ==
  /\ alive = Procs
  /\ guard = FALSE /\ marker = None /\ markerFull = FALSE
  /\ lock = None /\ lockFull = FALSE
  /\ pc = [p \in Procs |-> "idle"]
  /\ seen = [p \in Procs |-> None]
  /\ goal = [p \in Procs |-> "idle"]

guardFiles == <<guard, marker, markerFull>>
lockFile == <<lock, lockFull>>

\* The live process p, about to make the call l.
At(p, l) == p \in alive /\ pc[p] = l
Goto(p, l) == pc' = [pc EXCEPT ![p] = l]

\* What p read is not used at l.
Forget(p, l) == Goto(p, l) /\ seen' = [seen EXCEPT ![p] = None]

-----------------------------------------------------------------------------
(* withAcquisitionGuard() and retireDeadGuard()                            *)

MkGuard(p) ==
  /\ At(p, "idle")
  /\ guard' = TRUE
  /\ Goto(p, IF guard THEN "look" ELSE "mark")
  /\ UNCHANGED <<alive, marker, markerFull, lockFile, seen, goal>>

\* readdir: an empty guard is left alone.
LookGuard(p) ==
  /\ At(p, "look")
  /\ seen' = [seen EXCEPT ![p] = marker]
  /\ Goto(p, IF marker = None THEN "idle" ELSE "probe")
  /\ UNCHANGED <<alive, guardFiles, lockFile, goal>>

\* Faulty variant of ProbeGuard: the pid of the marker is not probed.
ProbeGuardTrusting(p) ==
  /\ At(p, "probe")
  /\ IF marker = seen[p] /\ markerFull
     THEN Goto(p, "unlinkMarker") /\ UNCHANGED seen ELSE Forget(p, "idle")
  /\ UNCHANGED <<alive, guardFiles, lockFile, goal>>

\* The marker must still be there, hold a pid, and the pid must be dead.
ProbeGuard(p) ==
  /\ At(p, "probe")
  /\ IF marker = seen[p] /\ markerFull /\ seen[p] \notin alive
     THEN Goto(p, "unlinkMarker") /\ UNCHANGED seen ELSE Forget(p, "idle")
  /\ UNCHANGED <<alive, guardFiles, lockFile, goal>>

\* Faulty variant of RetireMarker: a marker that another cleaner has removed
\* does not stop this one.
RetireMarkerBlind(p) ==
  /\ At(p, "unlinkMarker")
  /\ marker' = IF marker = seen[p] THEN None ELSE marker
  /\ markerFull' = (markerFull /\ marker # seen[p])
  /\ Forget(p, "rmDeadGuard")
  /\ UNCHANGED <<alive, guard, lockFile, goal>>

\* unlink of the marker, which only one cleaner can do.
RetireMarker(p) ==
  /\ At(p, "unlinkMarker")
  /\ IF marker = seen[p]
     THEN marker' = None /\ markerFull' = FALSE /\ Forget(p, "rmDeadGuard")
     ELSE Forget(p, "idle") /\ UNCHANGED <<marker, markerFull>>
  /\ UNCHANGED <<alive, guard, lockFile, goal>>

RetireGuard(p) ==
  /\ At(p, "rmDeadGuard")
  /\ marker = None
  /\ guard' = FALSE
  /\ Goto(p, "mkAgain")
  /\ UNCHANGED <<alive, marker, markerFull, lockFile, seen, goal>>

MkGuardAgain(p) ==
  /\ At(p, "mkAgain")
  /\ guard' = TRUE
  /\ Goto(p, IF guard THEN "idle" ELSE "mark")
  /\ UNCHANGED <<alive, marker, markerFull, lockFile, seen, goal>>

CreateMarker(p) ==
  /\ At(p, "mark")
  /\ marker' = p
  /\ Goto(p, "fill")
  /\ UNCHANGED <<alive, guard, markerFull, lockFile, seen, goal>>

FillMarker(p) ==
  /\ At(p, "fill")
  /\ markerFull' = TRUE
  /\ Goto(p, "open")
  /\ UNCHANGED <<alive, guard, marker, lockFile, seen, goal>>

\* The finally block: the marker, then the directory; then p goes on at its goal.
RmMarker(p) ==
  /\ At(p, "unmark")
  /\ marker' = IF marker = p THEN None ELSE marker
  /\ markerFull' = (markerFull /\ marker # p)
  /\ Goto(p, "rmGuard")
  /\ UNCHANGED <<alive, guard, lockFile, seen, goal>>

RmGuard(p) ==
  /\ At(p, "rmGuard")
  /\ marker = None
  /\ guard' = FALSE
  /\ Goto(p, goal[p])
  /\ goal' = [goal EXCEPT ![p] = "idle"]
  /\ UNCHANGED <<alive, marker, markerFull, lockFile, seen>>

-----------------------------------------------------------------------------
(* acquire() under the guard, and recoverDeadOwner()                       *)

\* Faulty variant of Leave: a refusal skips the finally block.
LeaveAtOnce(p, g) ==
  IF g = "idle" THEN Forget(p, g) /\ UNCHANGED goal
  ELSE Forget(p, "unmark") /\ goal' = [goal EXCEPT ![p] = g]

\* The end of the critical section, with the place to go on at.
Leave(p, g) == Forget(p, "unmark") /\ goal' = [goal EXCEPT ![p] = g]

\* open 'wx', first and after a recovery.
OpenLock(p) ==
  /\ At(p, "open") \/ At(p, "reopen")
  /\ IF lock = None
     THEN lock' = p /\ lockFull' = FALSE /\ Goto(p, "write") /\ UNCHANGED <<seen, goal>>
     ELSE /\ UNCHANGED lockFile
          /\ IF pc[p] = "open"
             THEN Goto(p, "inspect") /\ UNCHANGED <<seen, goal>>
             ELSE Leave(p, "idle")
  /\ UNCHANGED <<alive, guardFiles>>

\* Faulty variant of InspectLock: the owner is not probed.
InspectLockTrusting(p) ==
  /\ At(p, "inspect")
  /\ IF lock # None /\ lockFull
     THEN Goto(p, "recheck") /\ seen' = [seen EXCEPT ![p] = lock] /\ UNCHANGED goal
     ELSE Leave(p, "idle")
  /\ UNCHANGED <<alive, guardFiles, lockFile>>

\* The lock is recoverable when its record is complete and its owner dead.
InspectLock(p) ==
  /\ At(p, "inspect")
  /\ IF lock # None /\ lockFull /\ lock \notin alive
     THEN Goto(p, "recheck") /\ seen' = [seen EXCEPT ![p] = lock] /\ UNCHANGED goal
     ELSE Leave(p, "idle")
  /\ UNCHANGED <<alive, guardFiles, lockFile>>

\* Faulty variant of RecheckLock: no lock is ever recovered.
RecheckLockRefusing(p) ==
  /\ At(p, "recheck")
  /\ Leave(p, "idle")
  /\ UNCHANGED <<alive, guardFiles, lockFile>>

\* The same record, owner and file once more.
RecheckLock(p) ==
  /\ At(p, "recheck")
  /\ IF lock = seen[p] /\ lockFull
     THEN Goto(p, "unlinkLock") /\ UNCHANGED <<seen, goal>> ELSE Leave(p, "idle")
  /\ UNCHANGED <<alive, guardFiles, lockFile>>

UnlinkLock(p) ==
  /\ At(p, "unlinkLock")
  /\ lock' = None /\ lockFull' = FALSE
  /\ IF lock # None THEN Forget(p, "reopen") /\ UNCHANGED goal ELSE Leave(p, "idle")
  /\ UNCHANGED <<alive, guardFiles>>

\* The record is written and synchronised.
WriteRecord(p) ==
  /\ At(p, "write")
  /\ lockFull' = (lockFull \/ lock = p)
  /\ Leave(p, "held")
  /\ UNCHANGED <<alive, guardFiles, lock>>

\* The write fails, or fsync after a complete write: the lock is given back.
WriteFails(p) ==
  /\ At(p, "write")
  /\ lockFull' \in {lockFull, lockFull \/ lock = p}
  /\ Leave(p, "check")
  /\ UNCHANGED <<alive, guardFiles, lock>>

-----------------------------------------------------------------------------
(* releaseLock(), of a lease or of an acquisition that failed later        *)

Release(p) ==
  /\ At(p, "held")
  /\ Goto(p, "check")
  /\ UNCHANGED <<alive, guardFiles, lockFile, seen, goal>>

\* Only a lock that still holds the token of p is removed.
CheckToken(p) ==
  /\ At(p, "check")
  /\ Goto(p, IF lock = p /\ lockFull THEN "rmLock" ELSE "idle")
  /\ UNCHANGED <<alive, guardFiles, lockFile, seen, goal>>

RmLock(p) ==
  /\ At(p, "rmLock")
  /\ lock' = None /\ lockFull' = FALSE
  /\ Goto(p, "idle")
  /\ UNCHANGED <<alive, guardFiles, seen, goal>>

-----------------------------------------------------------------------------
(* A legacy writer: the exclusive open and the record, without the guard. *)

LegacyStart(p) ==
  /\ At(p, "idle") /\ p \in Legacy
  /\ Goto(p, "legacyOpen")
  /\ UNCHANGED <<alive, guardFiles, lockFile, seen, goal>>

LegacyOpen(p) ==
  /\ At(p, "legacyOpen")
  /\ IF lock = None THEN lock' = p /\ lockFull' = FALSE /\ Goto(p, "legacyWrite")
                    ELSE UNCHANGED lockFile /\ Goto(p, "idle")
  /\ UNCHANGED <<alive, guardFiles, seen, goal>>

LegacyWrite(p) ==
  /\ At(p, "legacyWrite")
  /\ lockFull' = (lockFull \/ lock = p)
  /\ Goto(p, "held")
  /\ UNCHANGED <<alive, guardFiles, lock, seen, goal>>

-----------------------------------------------------------------------------
\* The files of a killed process stay; its memory is gone.
Kill(p) ==
  /\ p \in alive
  /\ alive' = alive \ {p}
  /\ Forget(p, "idle")
  /\ goal' = [goal EXCEPT ![p] = "idle"]
  /\ UNCHANGED <<guardFiles, lockFile>>

Acquire(p) ==
  \/ MkGuard(p) \/ LookGuard(p) \/ ProbeGuard(p) \/ RetireMarker(p) \/ RetireGuard(p)
  \/ MkGuardAgain(p) \/ CreateMarker(p) \/ FillMarker(p)
  \/ OpenLock(p) \/ InspectLock(p) \/ RecheckLock(p) \/ UnlinkLock(p) \/ WriteRecord(p)
  \/ RmMarker(p) \/ RmGuard(p) \/ CheckToken(p) \/ RmLock(p)

Next ==
  \E p \in Procs :
    \/ Acquire(p) \/ WriteFails(p) \/ Release(p) \/ Kill(p)
    \/ LegacyStart(p) \/ LegacyOpen(p) \/ LegacyWrite(p)

Spec == Init /\ [][Next]_vars

\* A live process goes on with its calls and tries again after a refusal;
\* it need not release, and is neither killed nor refused a write.
FairSpec == Spec /\ \A p \in Procs : WF_vars(Acquire(p))

-----------------------------------------------------------------------------
(* Properties *)

TypeOK ==
  /\ alive \subseteq Procs
  /\ guard \in BOOLEAN /\ markerFull \in BOOLEAN /\ lockFull \in BOOLEAN
  /\ marker \in Procs \cup {None} /\ lock \in Procs \cup {None}
  /\ pc \in [Procs -> Labels]
  /\ seen \in [Procs -> Procs \cup {None}]
  /\ goal \in [Procs -> Goals]

\* The process p holds the lock: from the open until the file is removed.
Owns(p) ==
  /\ p \in alive
  /\ \/ pc[p] \in {"write", "held", "check", "rmLock", "legacyWrite"}
     \/ pc[p] \in {"unmark", "rmGuard"} /\ goal[p] # "idle"

\* The live process p is between creating the guard and removing it, or is
\* about to remove the guard of a dead acquirer.
InGuard(p) ==
  /\ p \in alive
  /\ pc[p] \in Guarded \cup {"rmDeadGuard"}

\* One process is in the guard, and the guard is its own.
GuardInv ==
  /\ \A p, q \in Procs : InGuard(p) /\ InGuard(q) => p = q
  /\ \A p \in Procs : InGuard(p) => guard /\ marker \in {None, p}
  /\ ~guard => marker = None

\* Whatever is about to be removed was left by a dead process.
SeenInv ==
  \A p \in alive :
    /\ pc[p] = "probe" => seen[p] \in Procs
    /\ pc[p] \in {"unlinkMarker", "recheck", "unlinkLock"} => seen[p] \in Procs \ alive
    /\ pc[p] = "unlinkLock" => lock = seen[p]

\* The lock of a live owner is its own: assertQuiescent never finds it replaced.
LeaseIntact == \A p \in Procs : Owns(p) => lock = p

\* Why the lock excludes: the guard has one holder, only files of dead processes
\* are removed by others, and the file of a live owner stays its own.
Inv == TypeOK /\ GuardInv /\ SeenInv /\ LeaseIntact

\* Two live processes never own the history at the same time, whoever was
\* killed where and whatever was recovered.
MutualExclusion == \A p, q \in Procs : Owns(p) /\ Owns(q) => p = q

\* A lock file changes hands only through its live creator or after its death.
LiveLockKept ==
  [][\A p \in Procs : lock = p /\ p \in alive /\ lock' # p => pc[p] = "rmLock"]_vars

\* Unless a process was killed, no guard and no complete lock outlives its owner.
NoLitter ==
  alive = Procs /\ (\A p \in Procs : pc[p] \in {"idle", "held"})
    => ~guard /\ (lock # None /\ lockFull => pc[lock] = "held")

\* The complete lock of a dead owner does not keep the last live process out.
Recoverable(p) ==
  p \notin Legacy /\ alive = {p} /\ ~guard /\ lock # None /\ lock # p /\ lockFull
DeadOwnerRecovered ==
  (\E p \in Procs : Recoverable(p)) ~> (alive = {} \/ (\E p \in alive : pc[p] = "held") \/ ~lockFull)
=============================================================================
