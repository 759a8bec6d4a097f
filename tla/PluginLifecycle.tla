-------------------------- MODULE PluginLifecycle --------------------------
(***************************************************************************)
(* The mount of one plugin, which every CLI extension and server facet     *)
(* goes through: packages/core/doompi-core/src/services/pluginLifecycle.   *)
(*                                                                         *)
(* Two promise chains run beside each other: the startup that mount()      *)
(* queues and the disposal that dispose() queues.  Each calls into the     *)
(* plugin and waits; while it waits the host, the plugin or an abort       *)
(* listener may dispose, and registrations still come in.  A call into the *)
(* plugin returns or throws; an absent hook is one that returns at once.   *)
(***************************************************************************)
EXTENDS Naturals, SequencesExt

CONSTANTS
  Regs,  \* the registrations the plugin may own
  None   \* no registration

ASSUME NoneAssumption == None \notin Regs

VARIABLES
  startup,   \* the startup chain: the call it waits for, or how it settled
  disposal,  \* the disposal chain, likewise
  mounted,   \* the promise mount() returned
  aborted,   \* the signal of the context
  hooks,     \* whether the declaration was resolved
  started, draining,
  cleanups,  \* the cleanups of accepted registrations, not yet attempted
  running,   \* the cleanup the disposal waits for, or None
  failed,    \* whether a teardown call threw
  accepted,  \* history: every registration that own() accepted
  torn       \* history: the teardown calls that ended

promises == <<startup, disposal, mounted>>
state == <<aborted, hooks, started, draining>>
cleaning == <<cleanups, running>>
history == <<failed, accepted, torn>>
vars == <<promises, state, cleaning, history>>

Settled == {"resolved", "rejected"}
InStartup == {"queued", "declare", "register", "onStart"}
InTeardown == {"onStop", "cleanup", "onDispose"}

Init ==
  /\ startup = "none" /\ disposal = "none" /\ mounted = "none"
  /\ aborted = FALSE /\ hooks = FALSE /\ started = FALSE /\ draining = FALSE
  /\ cleanups = <<>> /\ running = None
  /\ failed = FALSE /\ accepted = <<>> /\ torn = <<>>

-----------------------------------------------------------------------------
(* mount()                                                                 *)

\* A second mount, or one after disposal, is rejected and changes nothing.
Mount ==
  /\ startup = "none" /\ disposal = "none"
  /\ startup' = "queued" /\ mounted' = "pending"
  /\ UNCHANGED <<disposal, state, cleaning, history>>

\* Faulty variant of Advance: the checkpoint in front of the next call is missing.
AdvanceUnchecked(l) == startup' = l

\* throwIfAborted, then on to l.
Advance(l) == startup' = IF aborted THEN "rejected" ELSE l

Declare ==
  /\ startup = "queued"
  /\ Advance("declare")
  /\ UNCHANGED <<disposal, mounted, state, cleaning, history>>

Resolve ==
  /\ startup = "declare"
  /\ hooks' = TRUE
  /\ Advance("register")
  /\ UNCHANGED <<disposal, mounted, aborted, started, draining, cleaning, history>>

Register ==
  /\ startup = "register"
  /\ Advance("onStart")
  /\ started' = ~aborted
  /\ UNCHANGED <<disposal, mounted, aborted, hooks, draining, cleaning, history>>

Start ==
  /\ startup = "onStart"
  /\ Advance("resolved")
  /\ UNCHANGED <<disposal, mounted, state, cleaning, history>>

\* The factory, the registration or onStart throws.
StartupThrows ==
  /\ startup \in {"declare", "register", "onStart"}
  /\ startup' = "rejected"
  /\ UNCHANGED <<disposal, mounted, state, cleaning, history>>

\* own(), from registration or from whoever kept the lifecycle.
Own(r) ==
  /\ startup # "none" /\ ~draining
  /\ ~Contains(accepted, r)
  /\ cleanups' = Append(cleanups, r)
  /\ accepted' = Append(accepted, r)
  /\ UNCHANGED <<promises, state, running, failed, torn>>

-----------------------------------------------------------------------------
(* dispose()                                                               *)

\* The promise exists before the signal is aborted, and only once.
BeginDisposal ==
  IF disposal = "none" THEN disposal' = "queued" /\ aborted' = TRUE
                       ELSE UNCHANGED <<disposal, aborted>>

Dispose ==
  /\ disposal = "none"
  /\ BeginDisposal
  /\ UNCHANGED <<startup, mounted, hooks, started, draining, cleaning, history>>

\* Faulty variant of StartupOver: the disposal waits for the promise of mount().
StartupOverMounted == mounted \in {"none"} \cup Settled

\* Faulty variant of StartupOver: the disposal waits for nothing.
StartupOverAtOnce == TRUE

\* What the disposal waits for: startup, and not the promise of mount().
StartupOver == startup \in {"none"} \cup Settled

Drain ==
  /\ disposal = "queued"
  /\ StartupOver
  /\ draining' = TRUE
  /\ disposal' = IF started THEN "onStop" ELSE "cleanup"
  /\ UNCHANGED <<startup, mounted, aborted, hooks, started, cleaning, history>>

\* The teardown call c ends, having thrown or not.
Attempted(c) == torn' = Append(torn, c) /\ failed' \in {failed, TRUE}

Stop ==
  /\ disposal = "onStop"
  /\ Attempted("onStop")
  /\ disposal' = "cleanup"
  /\ UNCHANGED <<startup, mounted, state, cleaning, accepted>>

\* Faulty variant of NextCleanup: the registrations are not reversed.
NextCleanupFirst ==
  /\ disposal = "cleanup" /\ running = None /\ cleanups # <<>>
  /\ running' = Head(cleanups) /\ cleanups' = Tail(cleanups)
  /\ UNCHANGED <<promises, state, history>>

\* The last registration is cleaned up first.
NextCleanup ==
  /\ disposal = "cleanup" /\ running = None /\ cleanups # <<>>
  /\ running' = Last(cleanups) /\ cleanups' = Front(cleanups)
  /\ UNCHANGED <<promises, state, history>>

\* Faulty variant of Cleaned: it ends without a cleanup that was begun.
CleanedUnbegun ==
  /\ disposal = "cleanup"
  /\ Attempted(running)
  /\ running' = None
  /\ UNCHANGED <<promises, state, cleanups, accepted>>

Cleaned ==
  /\ running # None
  /\ Attempted(running)
  /\ running' = None
  /\ UNCHANGED <<promises, state, cleanups, accepted>>

\* The end of the disposal, with the errors that were collected.
Outcome(errors) == IF errors THEN "rejected" ELSE "resolved"

CleanupOver ==
  /\ disposal = "cleanup" /\ running = None /\ cleanups = <<>>
  /\ disposal' = IF hooks THEN "onDispose" ELSE Outcome(failed)
  /\ UNCHANGED <<startup, mounted, state, cleaning, history>>

DisposeHook ==
  /\ disposal = "onDispose"
  /\ Attempted("onDispose")
  /\ disposal' = Outcome(failed')
  /\ UNCHANGED <<startup, mounted, state, cleaning, accepted>>

-----------------------------------------------------------------------------
(* The promise of mount(): startup, and its rollback.                      *)

Mounted ==
  /\ mounted = "pending" /\ startup = "resolved"
  /\ mounted' = "resolved"
  /\ UNCHANGED <<startup, disposal, state, cleaning, history>>

Rollback ==
  /\ mounted = "pending" /\ startup = "rejected"
  /\ mounted' = "rollback"
  /\ BeginDisposal
  /\ UNCHANGED <<startup, hooks, started, draining, cleaning, history>>

RolledBack ==
  /\ mounted = "rollback" /\ disposal \in Settled
  /\ mounted' = "rejected"
  /\ UNCHANGED <<startup, disposal, state, cleaning, history>>

-----------------------------------------------------------------------------
StartupStep == Declare \/ Resolve \/ Register \/ Start \/ StartupThrows
DisposalStep == Drain \/ Stop \/ NextCleanup \/ Cleaned \/ CleanupOver \/ DisposeHook
MountStep == Mounted \/ Rollback \/ RolledBack

Next ==
  \/ Mount \/ Dispose
  \/ \E r \in Regs : Own(r)
  \/ StartupStep \/ DisposalStep \/ MountStep

Spec == Init /\ [][Next]_vars

\* Promise continuations run, and a call into the plugin ends.  Nothing makes
\* the host mount or dispose.
FairSpec == Spec /\ WF_vars(StartupStep) /\ WF_vars(DisposalStep) /\ WF_vars(MountStep)

-----------------------------------------------------------------------------
(* Properties *)

TypeOK ==
  /\ startup \in {"none"} \cup InStartup \cup Settled
  /\ disposal \in {"none", "queued"} \cup InTeardown \cup Settled
  /\ mounted \in {"none", "pending", "rollback"} \cup Settled
  /\ aborted \in BOOLEAN /\ hooks \in BOOLEAN /\ started \in BOOLEAN /\ draining \in BOOLEAN
  /\ cleanups \in Seq(Regs) /\ accepted \in Seq(Regs)
  /\ running \in Regs \cup {None}
  /\ failed \in BOOLEAN
  /\ torn \in Seq(Regs \cup {"onStop", "onDispose"})

\* The teardown a plugin is owed, from how far its startup got.
Owed ==
  (IF started THEN <<"onStop">> ELSE <<>>) \o Reverse(accepted)
    \o (IF hooks THEN <<"onDispose">> ELSE <<>>)

\* A disposed plugin is torn down in full and once: onStop exactly if it started,
\* every registration accepted at any time in reverse order, onDispose exactly
\* if there was a declaration; whatever threw on the way.
TornDownInFull == disposal \in Settled => torn = Owed

\* Teardown never overlaps startup: no factory, registration or onStart is in
\* progress when a teardown call is made, and none of them runs later.
NoOverlap == draining => startup \notin InStartup

\* Once the signal is aborted, no further call of startup is made.
NothingStartsAborted ==
  [][aborted /\ startup' # startup => startup' \in Settled]_vars

\* A plugin whose mount failed is not left half mounted, and nobody waits for
\* the other: both promises settle.
MountSettles == mounted = "pending" ~> mounted \in Settled
DisposalSettles == disposal = "queued" ~> disposal \in Settled
=============================================================================
