-------------------------- MODULE SessionDirectory --------------------------
(***************************************************************************)
(* The sessions of one server: which are live, which are recorded as open, *)
(* and the requests that open, restart, release and delete them.           *)
(*                                                                         *)
(* A session is in four places: the hub that serves it, the manager that   *)
(* owns its host, the lease on its journal, and the file that lists open   *)
(* sessions across restarts of the server.  Requests race, and each awaits *)
(* between reading one place and writing the next.  A host is named by the *)
(* request that built it.                                                  *)
(***************************************************************************)
EXTENDS Naturals, FiniteSets

CONSTANTS
  Sessions,    \* session ids
  Requests,    \* client requests, each made at most once
  Kinds,       \* which requests clients make
  MaxMishaps,  \* bound on crashes, failed saves and disposals that fail
  Nothing      \* no host, no session

ASSUME DirectoryAssumption == Nothing \notin Requests /\ MaxMishaps \in Nat

VARIABLES
  server,      \* "up", "stopping", "draining", "closed" or "down"
  listed,      \* the open-session file
  hub,         \* the host the hub serves for a session
  base,        \* the host the session manager holds for it
  shutdowns,   \* the hub's shutdown of a session: absent, pending or failed
  host,        \* the state of the host a request built; it holds the lease
               \* of its journal from "building" until it is "gone"
  pc,          \* where a request is, between two awaits
  call,        \* its kind, the session it closes and the one it opens
  record,      \* whether it read a record of the session it closes
  mishaps

memory == <<hub, base, shutdowns, host>>
locals == <<pc, call, record>>
directoryVars == <<server, listed, memory, locals, mishaps>>

NoShutdown == [state |-> "none", host |-> Nothing]
Holds == {"building", "up", "closing", "stuck"}

DirectoryTypeOK ==
  /\ server \in {"up", "stopping", "draining", "closed", "down"}
  /\ listed \in SUBSET Sessions
  /\ hub \in [Sessions -> Requests \cup {Nothing}]
  /\ base \in [Sessions -> Requests \cup {Nothing}]
  /\ shutdowns \in [Sessions -> [state: {"none", "pending", "failed"},
                                 host: Requests \cup {Nothing}]]
  /\ host \in [Requests -> Holds \cup {"none", "gone"}]
  /\ pc \in [Requests -> {"idle", "syncing", "preparing", "building", "mounting",
                          "unwinding", "refused", "throwing",
                          "closing", "discarding", "restoring", "done"}]
  /\ call \in [Requests -> [kind: Kinds \cup {"none"},
                            from: Sessions \cup {Nothing}, to: Sessions \cup {Nothing}]]
  /\ record \in [Requests -> BOOLEAN]
  /\ mishaps \in 0..MaxMishaps

\* Some sessions were open when the server last ended, others are only saved.
DirectoryInit ==
  /\ server = "up"
  /\ listed \in SUBSET Sessions
  /\ hub = [s \in Sessions |-> Nothing]
  /\ base = [s \in Sessions |-> Nothing]
  /\ shutdowns = [s \in Sessions |-> NoShutdown]
  /\ host = [r \in Requests |-> "none"]
  /\ pc = [r \in Requests |-> "idle"]
  /\ call = [r \in Requests |-> [kind |-> "none", from |-> Nothing, to |-> Nothing]]
  /\ record = [r \in Requests |-> FALSE]
  /\ mishaps = 0

-----------------------------------------------------------------------------
(* What the steps are made of.                                             *)

Goto(r, label) == pc' = [pc EXCEPT ![r] = label]

Mishap == mishaps < MaxMishaps /\ mishaps' = mishaps + 1

\* persist(): the file is replaced as a whole, or keeps its contents.
Save(to) ==
  \/ listed' = to /\ UNCHANGED mishaps
  \/ to # listed /\ listed' = listed /\ Mishap

\* The journal has one writer.
Leased(s) == \E r \in Requests : call[r].to = s /\ host[r] \in Holds

DisposeOf(h, r) == IF r # Nothing /\ h[r] = "up" THEN [h EXCEPT ![r] = "closing"] ELSE h

\* Faulty variant of CloseManaged: the record goes while the server stops, too.
CloseManagedAlways(s, keep) ==
  /\ IF keep THEN UNCHANGED <<listed, mishaps>> ELSE Save(listed \ {s})
  /\ base' = [base EXCEPT ![s] = Nothing]
  /\ host' = DisposeOf(host, base[s])

\* closeManagedSession(): the record goes unless the session is released or the
\* server is stopping; then the manager forgets the host and disposes of it.
CloseManaged(s, keep) ==
  /\ IF keep \/ server # "up" THEN UNCHANGED <<listed, mishaps>>
                              ELSE Save(listed \ {s})
  /\ base' = [base EXCEPT ![s] = Nothing]
  /\ host' = DisposeOf(host, base[s])

\* hub.closeSession(): a session that is being shut down is waited for, an
\* earlier failure is thrown again, and a session that is not live is closed.
Unregister(s, keep) ==
  /\ hub' = [hub EXCEPT ![s] = Nothing]
  /\ shutdowns' = [shutdowns EXCEPT ![s] = [state |-> "pending", host |-> base[s]]]
  /\ CloseManaged(s, keep)

HubClose(r, s, keep, wait, returned, thrown) ==
  \/ /\ shutdowns[s].state = "none" /\ hub[s] # Nothing
     /\ Unregister(s, keep) /\ Goto(r, wait)
  \/ /\ shutdowns[s].state # "none" \/ hub[s] = Nothing
     /\ Goto(r, CASE shutdowns[s].state = "pending" -> wait
                  [] shutdowns[s].state = "failed" -> thrown
                  [] OTHER -> returned)
     /\ UNCHANGED <<listed, memory, mishaps>>

\* Where an open that failed goes: restart and resume put the record back.
Thrown(r) == IF call[r].kind \in {"restart", "resume"} THEN "restoring" ELSE "done"

\* Where a request goes on once the shutdown it waits for has settled.
Resumed(r, ok) ==
  IF pc[r] = "discarding" THEN Thrown(r)
  ELSE IF ok /\ call[r].kind \in {"restart", "resume"} THEN "preparing" ELSE "done"

-----------------------------------------------------------------------------
(* Requests.                                                               *)

Restarts(s) == {r \in Requests : call[r].kind = "restart" /\ call[r].to = s /\ pc[r] # "idle"}

\* A request scoped to a session that is between its restart's close and its
\* reopening waits for the restart.  Once one of several restarts has ended,
\* their order decides whether the others are waited for, and is left open.
Reopening(s) ==
  hub[s] = Nothing /\ Restarts(s) # {} /\ \A r \in Restarts(s) : pc[r] # "done"

Ask(r, kind, from, to, label) ==
  /\ server = "up" /\ pc[r] = "idle" /\ kind \in Kinds
  /\ call' = [call EXCEPT ![r] = [kind |-> kind, from |-> from, to |-> to]]
  /\ record' = [record EXCEPT ![r] = from \in listed]
  /\ Goto(r, label)

AskRevive(r, s) ==
  /\ s \in listed /\ hub[s] = Nothing /\ ~Reopening(s)
  /\ Ask(r, "revive", Nothing, s, "preparing")
  /\ UNCHANGED <<server, listed, memory, mishaps>>

\* A saved session opened from the workspace's history; a second request for
\* the same session joins the first.
AskOpen(r, s) ==
  /\ hub[s] = Nothing
  /\ ~\E q \in Requests : call[q].kind = "open" /\ call[q].to = s /\ pc[q] # "done"
  /\ Ask(r, "open", Nothing, s, "preparing")
  /\ UNCHANGED <<server, listed, memory, mishaps>>

AskRestart(r, s) ==
  /\ hub[s] # Nothing
  /\ Ask(r, "restart", s, s, "syncing")
  /\ UNCHANGED <<server, listed, memory, mishaps>>

\* The live session s gives way to the saved session t.
AskResume(r, s, t) ==
  /\ hub[s] # Nothing /\ hub[t] = Nothing
  /\ Ask(r, "resume", s, t, "syncing")
  /\ UNCHANGED <<server, listed, memory, mishaps>>

Release(r, s) ==
  /\ hub[s] # Nothing
  /\ server = "up" /\ pc[r] = "idle" /\ "release" \in Kinds
  /\ call' = [call EXCEPT ![r] = [kind |-> "release", from |-> s, to |-> Nothing]]
  /\ HubClose(r, s, TRUE, "closing", "done", "done")
  /\ UNCHANGED <<server, record>>

Delete(r, s) ==
  /\ server = "up" /\ pc[r] = "idle" /\ "delete" \in Kinds /\ ~Reopening(s)
  /\ call' = [call EXCEPT ![r] = [kind |-> "delete", from |-> s, to |-> Nothing]]
  /\ \/ hub[s] # Nothing /\ HubClose(r, s, FALSE, "closing", "done", "done")
     \/ /\ hub[s] = Nothing /\ s \in listed
        /\ Save(listed \ {s}) /\ Goto(r, "done") /\ UNCHANGED memory
  /\ UNCHANGED <<server, record>>

\* restartSession() and resumeSession(): after the sync, or the look into the
\* history, the session is closed; a close that fails ends the request.
CloseOld(r) ==
  /\ pc[r] = "syncing"
  /\ HubClose(r, call[r].from, FALSE, "closing", "preparing", "done")
  /\ record' = IF call[r].kind = "resume"
                 THEN [record EXCEPT ![r] = call[r].from \in listed] ELSE record
  /\ UNCHANGED <<server, call>>

SyncFails(r) ==
  /\ pc[r] = "syncing"
  /\ Goto(r, "done")
  /\ UNCHANGED <<server, listed, memory, call, record, mishaps>>

-----------------------------------------------------------------------------
(* openSession().                                                          *)

\* hub.create() and manager.create() refuse an id that is in use before they
\* build anything.
Create(r) ==
  LET s == call[r].to IN
  /\ pc[r] = "preparing"
  /\ Goto(r, IF \/ server = "closed" \/ hub[s] # Nothing
                \/ shutdowns[s].state = "pending" \/ base[s] # Nothing
               THEN "throwing" ELSE "building")
  /\ UNCHANGED <<server, listed, memory, call, record, mishaps>>

\* Preparation fails inside the try block, or before it.
PrepareFails(r) ==
  /\ pc[r] = "preparing"
  /\ Goto(r, "throwing") \/ Goto(r, Thrown(r))
  /\ UNCHANGED <<server, listed, memory, call, record, mishaps>>

TakeLease(r) ==
  /\ pc[r] = "building" /\ host[r] = "none"
  /\ IF Leased(call[r].to)
       THEN Goto(r, "throwing") /\ UNCHANGED host
       ELSE host' = [host EXCEPT ![r] = "building"] /\ UNCHANGED pc
  /\ UNCHANGED <<server, listed, hub, base, shutdowns, call, record, mishaps>>

Built(r) ==
  /\ pc[r] = "building" /\ host[r] = "building"
  /\ host' = [host EXCEPT ![r] = "up"]
  /\ base' = [base EXCEPT ![call[r].to] = r]
  /\ Goto(r, "mounting")
  /\ UNCHANGED <<server, listed, hub, shutdowns, call, record, mishaps>>

\* A host that cannot be built closes its runtime, and with it the lease.
BuildFails(r) ==
  /\ pc[r] = "building" /\ host[r] = "building"
  /\ \/ host' = [host EXCEPT ![r] = "gone"] /\ UNCHANGED mishaps
     \/ host' = [host EXCEPT ![r] = "stuck"] /\ Mishap
  /\ Goto(r, "throwing")
  /\ UNCHANGED <<server, listed, hub, base, shutdowns, call, record>>

MountFails(r) ==
  LET s == call[r].to IN
  /\ pc[r] = "mounting"
  /\ base' = [base EXCEPT ![s] = Nothing]
  /\ host' = DisposeOf(host, base[s])
  /\ Goto(r, "unwinding")
  /\ UNCHANGED <<server, listed, hub, shutdowns, call, record, mishaps>>

Refused(s) == server = "closed" \/ hub[s] # Nothing \/ shutdowns[s].state = "pending"

\* Faulty variant of RegisterSession: a record that cannot be saved is let pass.
RegisterUnsaved(r) ==
  LET s == call[r].to IN
  /\ pc[r] = "mounting" /\ host[r] = "up" /\ ~Refused(s)
  /\ hub' = [hub EXCEPT ![s] = r]
  /\ shutdowns' = [shutdowns EXCEPT ![s] = NoShutdown]
  /\ Save(listed \cup {s}) /\ Goto(r, "done")
  /\ UNCHANGED <<server, base, host, call, record>>

\* The mount asserts that its host was not disposed of meanwhile; register()
\* follows, and the record that a restart of the server offers back.  A shutdown
\* that failed earlier does not block the id.
RegisterSession(r) ==
  LET s == call[r].to IN
  /\ pc[r] = "mounting" /\ host[r] = "up" /\ ~Refused(s)
  /\ hub' = [hub EXCEPT ![s] = r]
  /\ shutdowns' = [shutdowns EXCEPT ![s] = NoShutdown]
  /\ \/ listed' = listed \cup {s} /\ Goto(r, "done") /\ UNCHANGED mishaps
     \/ UNCHANGED listed /\ Goto(r, "throwing") /\ Mishap
  /\ UNCHANGED <<server, base, host, call, record>>

\* Faulty variant of RegisterFails: the host that was built is left to itself.
RegisterFailsOnly(r) ==
  /\ pc[r] = "mounting" /\ host[r] = "up" /\ Refused(call[r].to)
  /\ Goto(r, "refused")
  /\ UNCHANGED <<server, listed, memory, call, record, mishaps>>

\* hub.create() closes the host whose registration was refused.
RegisterFails(r) ==
  LET s == call[r].to IN
  /\ pc[r] = "mounting" /\ host[r] = "up" /\ Refused(s)
  /\ CloseManaged(s, FALSE)
  /\ Goto(r, "refused")
  /\ UNCHANGED <<server, hub, shutdowns, call, record>>

\* A failed mount waits for the disposal, a refused registration for no longer
\* than its deadline.
Unwound(r) ==
  /\ pc[r] = "unwinding" => host[r] \in {"gone", "stuck"}
  /\ pc[r] \in {"unwinding", "refused"}
  /\ Goto(r, "throwing")
  /\ UNCHANGED <<server, listed, memory, call, record, mishaps>>

\* The catch block: whatever session has the id now is closed.
Catch(r) ==
  LET s == call[r].to IN
  /\ pc[r] = "throwing"
  /\ IF hub[s] # Nothing
       THEN HubClose(r, s, FALSE, "discarding", Thrown(r), Thrown(r))
       ELSE Goto(r, Thrown(r)) /\ UNCHANGED <<listed, memory, mishaps>>
  /\ UNCHANGED <<server, call, record>>

Restore(r) ==
  /\ pc[r] = "restoring"
  /\ Save(IF record[r] THEN listed \cup {call[r].from} ELSE listed)
  /\ Goto(r, "done")
  /\ UNCHANGED <<server, memory, call, record>>

-----------------------------------------------------------------------------
(* Hosts and shutdowns.                                                    *)

\* An extension asks its host to shut down.
ExtensionStops(r) ==
  /\ host[r] = "up" /\ "exit" \in Kinds
  /\ host' = DisposeOf(host, r)
  /\ UNCHANGED <<server, listed, hub, base, shutdowns, locals, mishaps>>

\* The runtime ends, and keeps its lease if the journal could not be closed.  The
\* hub closes a session at once when its runtime has exited.
Disposed(r) ==
  LET s == call[r].to
      closes == server # "closed" /\ hub[s] = r /\ shutdowns[s].state = "none"
      saved == IF closes /\ server = "up" THEN listed \ {s} ELSE listed IN
  /\ host[r] = "closing"
  /\ \/ host' = [host EXCEPT ![r] = "gone"] /\ Save(saved)
     \/ host' = [host EXCEPT ![r] = "stuck"] /\ listed' = saved /\ Mishap
  /\ IF closes
       THEN /\ hub' = [hub EXCEPT ![s] = Nothing]
            /\ base' = [base EXCEPT ![s] = Nothing]
            /\ shutdowns' = [shutdowns EXCEPT ![s] = [state |-> "pending", host |-> r]]
       ELSE UNCHANGED <<hub, base, shutdowns>>
  /\ UNCHANGED <<server, locals>>

Settle(s, to, ok) ==
  /\ shutdowns' = [shutdowns EXCEPT ![s] = to]
  /\ pc' = [r \in Requests |->
              IF \/ pc[r] = "closing" /\ call[r].from = s
                 \/ pc[r] = "discarding" /\ call[r].to = s
                THEN Resumed(r, ok) ELSE pc[r]]
  /\ UNCHANGED <<server, listed, hub, base, host, call, record, mishaps>>

\* Faulty variant of ShutdownFails: the deadline of a shutdown is missing.
ShutdownFailsStuck(s) ==
  /\ shutdowns[s].state = "pending" /\ shutdowns[s].host # Nothing
  /\ host[shutdowns[s].host] = "stuck"
  /\ Settle(s, [shutdowns[s] EXCEPT !.state = "failed"], FALSE)

ShutdownEnds(s) ==
  /\ shutdowns[s].state = "pending"
  /\ shutdowns[s].host # Nothing => host[shutdowns[s].host] = "gone"
  /\ Settle(s, NoShutdown, TRUE)

\* The disposal, or what follows it, failed or passed its deadline.
ShutdownFails(s) ==
  /\ shutdowns[s].state = "pending" /\ shutdowns[s].host # Nothing
  /\ Settle(s, [shutdowns[s] EXCEPT !.state = "failed"], FALSE)

-----------------------------------------------------------------------------
(* The server.                                                             *)

StopServer ==
  /\ server = "up" /\ "stop" \in Kinds
  /\ server' = "stopping"
  /\ UNCHANGED <<listed, memory, locals, mishaps>>

\* sessionManager.close(): every host the manager holds now.
CloseSessions ==
  /\ server = "stopping"
  /\ server' = "draining"
  /\ base' = [s \in Sessions |-> Nothing]
  /\ host' = [r \in Requests |-> IF host[r] = "up" /\ base[call[r].to] = r
                                   THEN "closing" ELSE host[r]]
  /\ UNCHANGED <<listed, hub, shutdowns, locals, mishaps>>

\* hub.close(): sessions registered since then.
CloseHub ==
  LET left == {s \in Sessions : hub[s] # Nothing /\ shutdowns[s].state = "none"} IN
  /\ server = "draining"
  /\ server' = "closed"
  /\ hub' = [s \in Sessions |-> Nothing]
  /\ shutdowns' = [s \in Sessions |->
       IF s \in left THEN [state |-> "pending", host |-> base[s]] ELSE shutdowns[s]]
  /\ base' = [s \in Sessions |-> IF s \in left THEN Nothing ELSE base[s]]
  /\ host' = [r \in Requests |->
       IF host[r] = "up" /\ \E s \in left : base[s] = r THEN "closing" ELSE host[r]]
  /\ UNCHANGED <<listed, locals, mishaps>>

\* The process ends: memory is lost, and with its owner every lease.
Ends ==
  /\ server' = "down"
  /\ hub' = [s \in Sessions |-> Nothing]
  /\ base' = [s \in Sessions |-> Nothing]
  /\ shutdowns' = [s \in Sessions |-> NoShutdown]
  /\ host' = [r \in Requests |-> IF host[r] = "none" THEN "none" ELSE "gone"]
  /\ pc' = [r \in Requests |-> IF pc[r] = "idle" THEN "idle" ELSE "done"]
  /\ UNCHANGED <<listed, call, record>>

Exit == server = "closed" /\ Ends /\ UNCHANGED mishaps

Crash == server # "down" /\ Mishap /\ Ends

Boot ==
  /\ server = "down"
  /\ server' = "up"
  /\ UNCHANGED <<listed, memory, locals, mishaps>>

-----------------------------------------------------------------------------
RequestStep(r) ==
  \/ CloseOld(r) \/ Create(r) \/ TakeLease(r) \/ Built(r)
  \/ RegisterSession(r) \/ RegisterFails(r) \/ Unwound(r) \/ Catch(r) \/ Restore(r)

RequestFails(r) == SyncFails(r) \/ PrepareFails(r) \/ BuildFails(r) \/ MountFails(r)

Asked(r) ==
  \E s \in Sessions :
    \/ AskRevive(r, s) \/ AskOpen(r, s) \/ AskRestart(r, s) \/ Release(r, s) \/ Delete(r, s)
    \/ \E t \in Sessions : AskResume(r, s, t)

DirectoryNext ==
  \/ \E r \in Requests :
       Asked(r) \/ RequestStep(r) \/ RequestFails(r) \/ ExtensionStops(r) \/ Disposed(r)
  \/ \E s \in Sessions : ShutdownEnds(s) \/ ShutdownFails(s)
  \/ StopServer \/ CloseSessions \/ CloseHub \/ Exit \/ Crash \/ Boot

DirectorySpec == DirectoryInit /\ [][DirectoryNext]_directoryVars

\* Awaits other than a disposal return, and a shutdown has a deadline.  Nothing
\* makes a disposal end, a client ask or the server stop.
DirectoryFair ==
  /\ \A r \in Requests : WF_directoryVars(RequestStep(r) \/ MountFails(r))
  /\ \A s \in Sessions : WF_directoryVars(ShutdownEnds(s) \/ ShutdownFails(s))

-----------------------------------------------------------------------------
(* Properties *)

\* A live session is on record, so that a crash loses none: unless the save
\* failed and the request that opened it is about to close it.
LiveIsListed ==
  server = "up" => \A s \in Sessions :
    hub[s] # Nothing => s \in listed \/ pc[hub[s]] = "throwing"

\* No host stays up, with its lease, that nobody serves and nobody will close.
NoStrayHost ==
  \A r \in Requests : host[r] = "up" =>
    /\ base[call[r].to] = r
    /\ hub[call[r].to] = r \/ pc[r] = "mounting"

\* From when the server stops until it runs again no record is lost.
StopKeepsRecords == [][server # "up" => listed \subseteq listed']_directoryVars

\* A request is answered whatever the others do and whether or not disposals
\* end, except one whose mount failed: it waits for its disposal.  (Each is made
\* once, so that in the end none is pending.)
Answered == <>[](\A r \in Requests : pc[r] \in {"idle", "done", "unwinding"})

\* A revival that fails keeps the record of its session.
RevivalKeepsRecord ==
  [][\A r \in Requests :
       call[r].kind = "revive" /\ pc'[r] # pc[r] => listed \subseteq listed']_directoryVars
=============================================================================
