----------------------- MODULE SessionDirectoryProofs -----------------------
(***************************************************************************)
(* Every live session is on record, no host is left to itself, and a       *)
(* server that stops loses no record: for any sessions and any requests.   *)
(***************************************************************************)
EXTENDS SessionDirectory, TLAPS

Labels == {"idle", "syncing", "preparing", "building", "mounting", "unwinding", "refused",
           "throwing", "closing", "discarding", "restoring", "done"}
States == Holds \cup {"none", "gone"}

\* A request that has not been made has no host; one that opens a session, or may
\* come to, names it.
RequestInv ==
  \A r \in Requests :
    /\ pc[r] = "idle" => host[r] = "none"
    /\ host[r] # "none" => call[r].to \in Sessions
    /\ pc[r] \notin {"idle", "closing", "done"} \/ call[r].kind \in {"restart", "resume"}
         => call[r].to \in Sessions

\* A request that closes a session, or read its record, names it.
RecordInv ==
  \A r \in Requests : record[r] \/ pc[r] = "syncing" => call[r].from \in Sessions

\* A journal has one lease.
OneLease ==
  \A r, q \in Requests :
    host[r] \in Holds /\ host[q] \in Holds /\ call[r].to = call[q].to => r = q

\* What the hub serves is not being shut down, and its host was mounted for that
\* session and has not ended.
ServedInv ==
  \A s \in Sessions : hub[s] # Nothing =>
    /\ shutdowns[s].state = "none"
    /\ hub[s] \in Requests /\ call[hub[s]].to = s
    /\ host[hub[s]] \in {"up", "closing"} /\ pc[hub[s]] \in {"throwing", "done"}

\* A hub that is closed serves nothing, and the end of the process ends requests.
ServerInv ==
  /\ server \in {"closed", "down"} => \A s \in Sessions : hub[s] = Nothing
  /\ server = "down" => \A r \in Requests : pc[r] \in {"idle", "done"}

DirectoryInv ==
  /\ DirectoryTypeOK /\ RequestInv /\ RecordInv /\ OneLease /\ ServedInv /\ ServerInv
  /\ NoStrayHost /\ LiveIsListed

USE DirectoryAssumption

-----------------------------------------------------------------------------
LEMMA DirectoryStarts == DirectoryInit => DirectoryInv
BY DEF DirectoryInit, DirectoryInv, DirectoryTypeOK, RequestInv, RecordInv, OneLease,
       ServedInv, ServerInv, NoStrayHost, LiveIsListed, NoShutdown, Holds

\* A step of requests that touches no live session.
LEMMA OnlyRequests ==
  ASSUME DirectoryInv, UNCHANGED <<server, hub, base, host>>, DirectoryTypeOK', RecordInv',
         \A s \in Sessions : hub[s] # Nothing =>
           shutdowns'[s] = shutdowns[s] /\ (s \in listed => s \in listed'),
         \A q \in Requests :
           /\ pc'[q] # pc[q] =>
                /\ pc[q] \in {"throwing", "done"} => \A s \in Sessions : hub[s] # q
                /\ pc[q] = "mounting" => host[q] # "up"
                /\ pc'[q] = "idle" => host[q] = "none"
                /\ server # "down"
                /\ pc'[q] \notin {"idle", "closing", "done"} => call'[q].to \in Sessions
           /\ call'[q] # call[q] =>
                /\ pc[q] = "idle" /\ pc'[q] # "idle"
                /\ call'[q].kind \in {"restart", "resume"} => call'[q].to \in Sessions
  PROVE  DirectoryInv'
<1> USE DEF DirectoryInv
<1>1. RequestInv'
  BY DEF RequestInv
<1>2. \A q \in Requests : host[q] \in Holds => call'[q] = call[q]
  BY DEF RequestInv, Holds
<1>3. OneLease'
  BY <1>2 DEF OneLease
<1>4. ServedInv'
  BY <1>2 DEF ServedInv, Holds
<1>5. ServerInv'
  BY DEF ServerInv
<1>6. NoStrayHost'
  BY <1>2 DEF NoStrayHost, Holds
<1>7. LiveIsListed'
  BY DEF LiveIsListed, ServedInv
<1> QED BY <1>1, <1>3, <1>4, <1>5, <1>6, <1>7

\* The manager forgets the host of a session and disposes of it, and the hub may
\* forget the session; no other live session is touched.
LEMMA SessionLeaves ==
  ASSUME DirectoryInv, DirectoryTypeOK', RecordInv', NEW s \in Sessions,
         hub' \in {hub, [hub EXCEPT ![s] = Nothing]},
         \A t \in Sessions : hub'[t] # Nothing =>
           shutdowns'[t] = shutdowns[t] /\ (t \in listed => t \in listed'),
         base' = [base EXCEPT ![s] = Nothing], host' = DisposeOf(host, base[s]),
         server' = server,
         \A q \in Requests :
           /\ pc'[q] # pc[q] =>
                /\ pc[q] \in {"throwing", "done"} => \A t \in Sessions : hub'[t] # q
                /\ pc[q] = "mounting" => call[q].to = s
                /\ pc[q] = "idle" \/ pc'[q] # "idle"
                /\ server # "down"
                /\ pc'[q] \notin {"idle", "closing", "done"} => call'[q].to \in Sessions
           /\ call'[q] # call[q] =>
                /\ pc[q] = "idle" /\ pc'[q] # "idle"
                /\ call'[q].kind \in {"restart", "resume"} => call'[q].to \in Sessions
  PROVE  DirectoryInv'
<1> USE DEF DirectoryInv
<1>1. \A q \in Requests : host'[q] = IF q = base[s] /\ host[q] = "up" THEN "closing" ELSE host[q]
  BY DEF DisposeOf, DirectoryTypeOK
<1>2. \A q \in Requests : host[q] # "none" => call'[q] = call[q]
  BY DEF RequestInv
<1>3. \A t \in Sessions : hub'[t] = hub[t] \/ (t = s /\ hub'[t] = Nothing)
  BY DEF DirectoryTypeOK
<1>4. RequestInv'
  <2>1. \A q \in Requests : host'[q] = "none" <=> host[q] = "none"
    BY <1>1
  <2> QED BY <2>1 DEF RequestInv
<1>5. OneLease'
  <2>1. \A q \in Requests : host'[q] \in Holds <=> host[q] \in Holds
    BY <1>1 DEF Holds
  <2> QED BY <1>2, <2>1 DEF OneLease, Holds
<1>6. ServedInv'
  <2> SUFFICES ASSUME NEW t \in Sessions, hub'[t] # Nothing
               PROVE  /\ shutdowns'[t].state = "none"
                      /\ hub'[t] \in Requests /\ call'[hub'[t]].to = t
                      /\ host'[hub'[t]] \in {"up", "closing"}
                      /\ pc'[hub'[t]] \in {"throwing", "done"}
    BY DEF ServedInv
  <2>1. hub'[t] = hub[t] /\ shutdowns'[t] = shutdowns[t]
    BY <1>3
  <2>2. hub[t] \in Requests /\ host[hub[t]] \in {"up", "closing"} /\ call[hub[t]].to = t
        /\ pc[hub[t]] \in {"throwing", "done"} /\ shutdowns[t].state = "none"
    BY <2>1 DEF ServedInv
  <2> QED BY <1>1, <1>2, <2>1, <2>2
<1>7. ServerInv'
  BY <1>3 DEF ServerInv
<1>8. NoStrayHost'
  <2> SUFFICES ASSUME NEW q \in Requests, host'[q] = "up"
               PROVE  /\ base'[call'[q].to] = q
                      /\ hub'[call'[q].to] = q \/ pc'[q] = "mounting"
    BY DEF NoStrayHost
  <2>1. host[q] = "up" /\ q # base[s] /\ call'[q] = call[q]
    BY <1>1, <1>2
  <2>2. base[call[q].to] = q /\ (hub[call[q].to] = q \/ pc[q] = "mounting")
    BY <2>1 DEF NoStrayHost
  <2>3. call[q].to # s
    BY <2>1, <2>2
  <2>4. call[q].to \in Sessions
    BY <2>1 DEF RequestInv
  <2> QED BY <1>3, <2>1, <2>2, <2>3, <2>4 DEF DirectoryTypeOK
<1>9. LiveIsListed'
  <2> SUFFICES ASSUME server = "up", NEW t \in Sessions, hub'[t] # Nothing
               PROVE  t \in listed' \/ pc'[hub'[t]] = "throwing"
    BY DEF LiveIsListed
  <2>1. hub'[t] = hub[t] /\ (t \in listed => t \in listed')
    BY <1>3
  <2>2. t \in listed \/ pc[hub[t]] = "throwing"
    BY <2>1 DEF LiveIsListed
  <2>3. hub[t] \in Requests /\ pc[hub[t]] \in {"throwing", "done"}
    BY <2>1 DEF ServedInv
  <2> QED BY <2>1, <2>2, <2>3
<1> QED BY <1>4, <1>5, <1>6, <1>7, <1>8, <1>9

-----------------------------------------------------------------------------
\* The types, one operation at a time.
LEMMA SaveType ==
  ASSUME DirectoryTypeOK, NEW to \in SUBSET Sessions, Save(to)
  PROVE  /\ listed' \in SUBSET Sessions /\ mishaps' \in 0..MaxMishaps
         /\ listed' \in {listed, to}
BY DEF Save, Mishap, DirectoryTypeOK

LEMMA GotoType ==
  ASSUME DirectoryTypeOK, NEW r \in Requests, NEW label \in Labels, Goto(r, label)
  PROVE  /\ pc' \in [Requests -> Labels] /\ pc'[r] = label
         /\ \A q \in Requests \ {r} : pc'[q] = pc[q]
BY DEF Goto, DirectoryTypeOK, Labels

LEMMA CloseType ==
  ASSUME DirectoryTypeOK, NEW s \in Sessions, NEW keep \in BOOLEAN, CloseManaged(s, keep)
  PROVE  /\ listed' \in SUBSET Sessions /\ mishaps' \in 0..MaxMishaps
         /\ listed \ {s} \subseteq listed' /\ (server # "up" => listed' = listed)
         /\ base' \in [Sessions -> Requests \cup {Nothing}]
         /\ host' \in [Requests -> States]
         /\ base' = [base EXCEPT ![s] = Nothing] /\ host' = DisposeOf(host, base[s])
<1>1. /\ listed' \in SUBSET Sessions /\ mishaps' \in 0..MaxMishaps
      /\ listed' \in {listed, listed \ {s}} /\ (server # "up" => listed' = listed)
  <2>1. CASE keep \/ server # "up"
    BY <2>1 DEF CloseManaged, DirectoryTypeOK
  <2>2. CASE ~(keep \/ server # "up")
    <3>1. Save(listed \ {s}) /\ listed \ {s} \in SUBSET Sessions
      BY <2>2 DEF CloseManaged, DirectoryTypeOK
    <3> QED BY <2>2, <3>1, SaveType
  <2> QED BY <2>1, <2>2
<1>2. /\ base' = [base EXCEPT ![s] = Nothing] /\ host' = DisposeOf(host, base[s])
      /\ base' \in [Sessions -> Requests \cup {Nothing}]
  BY DEF CloseManaged, DirectoryTypeOK
<1>3. host' \in [Requests -> States]
  BY <1>2 DEF DisposeOf, DirectoryTypeOK, States, Holds
<1> QED BY <1>1, <1>2, <1>3

\* hub.closeSession(): the session leaves, or only the request moves on.
Closes(s, keep) ==
  \/ shutdowns[s].state = "none" /\ hub[s] # Nothing /\ Unregister(s, keep)
  \/ /\ shutdowns[s].state # "none" \/ hub[s] = Nothing
     /\ UNCHANGED <<listed, memory, mishaps>>

LEMMA HubCloseMoves ==
  ASSUME DirectoryTypeOK, NEW r \in Requests, NEW s \in Sessions, NEW keep \in BOOLEAN,
         NEW wait \in Labels, NEW returned \in Labels, NEW thrown \in Labels,
         HubClose(r, s, keep, wait, returned, thrown)
  PROVE  /\ Closes(s, keep) /\ pc' \in [Requests -> Labels]
         /\ pc'[r] \in {wait, returned, thrown} /\ \A q \in Requests \ {r} : pc'[q] = pc[q]
<1>1. Closes(s, keep)
  BY DEF HubClose, Closes
<1>2. PICK label \in {wait, returned, thrown} : Goto(r, label)
  BY DEF HubClose
<1> QED BY <1>1, <1>2, GotoType

\* The request that closes a session was just made, is about to open another, or
\* failed to open it.
LEMMA HubCloseKeeps ==
  ASSUME DirectoryInv, NEW r \in Requests, NEW s \in Sessions, NEW keep \in BOOLEAN,
         Closes(s, keep), pc' \in [Requests -> Labels], \A q \in Requests \ {r} : pc'[q] = pc[q],
         pc[r] \in {"idle", "syncing"} \/ (pc[r] = "throwing" /\ call[r].to = s),
         pc'[r] # "idle", pc'[r] \notin {"closing", "done"} => call'[r].to \in Sessions,
         call' \in [Requests -> [kind: Kinds \cup {"none"}, from: Sessions \cup {Nothing},
                                 to: Sessions \cup {Nothing}]],
         \A q \in Requests \ {r} : call'[q] = call[q],
         call'[r] # call[r] => pc[r] = "idle" /\ call'[r].kind \notin {"restart", "resume"},
         server' = server, server # "down", record' \in [Requests -> BOOLEAN], RecordInv'
  PROVE  DirectoryInv'
<1>0. DirectoryTypeOK
  BY DEF DirectoryInv
<1>2. /\ pc' \in [Requests -> Labels]
      /\ \A q \in Requests \ {r} : pc'[q] = pc[q]
  OBVIOUS
<1>3. CASE shutdowns[s].state = "none" /\ hub[s] # Nothing /\ Unregister(s, keep)
  <2>1. CloseManaged(s, keep) /\ hub' = [hub EXCEPT ![s] = Nothing]
        /\ shutdowns' = [shutdowns EXCEPT ![s] = [state |-> "pending", host |-> base[s]]]
    BY <1>3 DEF Unregister
  <2>2. /\ listed' \in SUBSET Sessions /\ mishaps' \in 0..MaxMishaps
        /\ listed \ {s} \subseteq listed'
        /\ base' \in [Sessions -> Requests \cup {Nothing}]
        /\ host' \in [Requests -> States]
        /\ base' = [base EXCEPT ![s] = Nothing] /\ host' = DisposeOf(host, base[s])
    BY <1>0, <2>1, CloseType
  <2>3. hub' \in [Sessions -> Requests \cup {Nothing}] /\ hub'[s] = Nothing
    BY <1>0, <2>1 DEF DirectoryTypeOK
  <2>4. /\ shutdowns' \in [Sessions -> [state: {"none", "pending", "failed"},
                                        host: Requests \cup {Nothing}]]
        /\ \A t \in Sessions \ {s} : shutdowns'[t] = shutdowns[t]
    BY <1>0, <2>1 DEF DirectoryTypeOK
  <2>5. DirectoryTypeOK'
    BY <1>0, <1>2, <2>2, <2>3, <2>4 DEF DirectoryTypeOK, Labels, States
  <2>6. \A q \in Requests :
          /\ pc'[q] # pc[q] =>
               /\ pc[q] \in {"throwing", "done"} => \A t \in Sessions : hub'[t] # q
               /\ pc[q] = "mounting" => call[q].to = s
               /\ pc[q] = "idle" \/ pc'[q] # "idle"
               /\ server # "down"
               /\ pc'[q] \notin {"idle", "closing", "done"} => call'[q].to \in Sessions
          /\ call'[q] # call[q] =>
               /\ pc[q] = "idle" /\ pc'[q] # "idle"
               /\ call'[q].kind \in {"restart", "resume"} => call'[q].to \in Sessions
    <3> SUFFICES ASSUME NEW q \in Requests, q = r
                 PROVE  /\ pc[q] \in {"throwing", "done"} => \A t \in Sessions : hub'[t] # q
                        /\ pc[q] # "mounting" /\ pc'[q] # "idle"
                        /\ pc'[q] \notin {"idle", "closing", "done"} => call'[q].to \in Sessions
      BY <1>2
    <3>1. pc[r] = "throwing" => \A t \in Sessions : hub'[t] # r
      BY <1>0, <2>1, <2>3 DEF DirectoryInv, ServedInv, DirectoryTypeOK
    <3> QED BY <1>2, <3>1
  <2>7. \A t \in Sessions : hub'[t] # Nothing =>
          shutdowns'[t] = shutdowns[t] /\ (t \in listed => t \in listed')
    BY <2>2, <2>3, <2>4
  <2> QED BY <2>1, <2>2, <2>5, <2>6, <2>7, SessionLeaves
<1>4. CASE /\ shutdowns[s].state # "none" \/ hub[s] = Nothing
           /\ UNCHANGED <<listed, memory, mishaps>>
  <2>1. DirectoryTypeOK'
    BY <1>0, <1>2, <1>4 DEF DirectoryTypeOK, Labels, memory
  <2>2. pc[r] = "throwing" => \A t \in Sessions : hub[t] # r
    BY <1>4 DEF DirectoryInv, ServedInv
  <2>3. pc[r] = "idle" => host[r] = "none"
    BY DEF DirectoryInv, RequestInv
  <2> QED BY <1>2, <1>4, <2>1, <2>2, <2>3, OnlyRequests DEF DirectoryInv, memory
<1> QED BY <1>3, <1>4 DEF Closes

-----------------------------------------------------------------------------
\* What a request asks for.
LEMMA AskKeeps ==
  ASSUME DirectoryInv, NEW r \in Requests, NEW kind, NEW from \in Sessions \cup {Nothing},
         NEW to \in Sessions, NEW label \in {"preparing", "syncing"},
         label = "syncing" => from \in Sessions,
         Ask(r, kind, from, to, label), UNCHANGED <<server, listed, memory, mishaps>>
  PROVE  DirectoryInv'
<1>0. DirectoryTypeOK /\ server # "down" /\ pc[r] = "idle"
  BY DEF DirectoryInv, Ask
<1>1. /\ pc' \in [Requests -> Labels] /\ pc'[r] = label
      /\ \A q \in Requests \ {r} : pc'[q] = pc[q]
  BY <1>0, GotoType DEF Ask, Labels
<1>2. /\ call' = [call EXCEPT ![r] = [kind |-> kind, from |-> from, to |-> to]]
      /\ kind \in Kinds /\ call'[r].to = to
      /\ \A q \in Requests \ {r} : call'[q] = call[q]
  BY <1>0 DEF Ask, DirectoryTypeOK
<1>3. DirectoryTypeOK'
  <2>1. record' \in [Requests -> BOOLEAN]
    BY <1>0 DEF Ask, DirectoryTypeOK
  <2>2. call' \in [Requests -> [kind: Kinds \cup {"none"}, from: Sessions \cup {Nothing},
                                to: Sessions \cup {Nothing}]]
    BY <1>0, <1>2 DEF DirectoryTypeOK
  <2> QED BY <1>0, <1>1, <2>1, <2>2 DEF DirectoryTypeOK, Labels, memory
<1>4. RecordInv'
  <2>1. record' = [record EXCEPT ![r] = from \in listed]
    BY DEF Ask
  <2>2. from \in listed => from \in Sessions
    BY <1>0 DEF DirectoryTypeOK
  <2>3. \A q \in Requests \ {r} : record'[q] = record[q]
    BY <1>0, <2>1 DEF DirectoryTypeOK
  <2>4. record'[r] => from \in Sessions
    BY <1>0, <2>1, <2>2 DEF DirectoryTypeOK
  <2>5. call'[r].from = from
    BY <1>0, <1>2 DEF DirectoryTypeOK
  <2> QED BY <1>1, <1>2, <2>3, <2>4, <2>5 DEF RecordInv, DirectoryInv
<1> QED BY <1>0, <1>1, <1>2, <1>3, <1>4, OnlyRequests DEF memory

LEMMA AskedKeeps ==
  ASSUME DirectoryInv, NEW r \in Requests, Asked(r)
  PROVE  DirectoryInv'
<1>0. DirectoryTypeOK
  BY DEF DirectoryInv
<1>1. ASSUME NEW s \in Sessions, AskRevive(r, s) PROVE DirectoryInv'
  BY <1>1, AskKeeps DEF AskRevive
<1>2. ASSUME NEW s \in Sessions, AskOpen(r, s) PROVE DirectoryInv'
  BY <1>2, AskKeeps DEF AskOpen
<1>3. ASSUME NEW s \in Sessions, AskRestart(r, s) PROVE DirectoryInv'
  BY <1>3, AskKeeps DEF AskRestart
<1>4. ASSUME NEW s \in Sessions, NEW t \in Sessions, AskResume(r, s, t) PROVE DirectoryInv'
  BY <1>4, AskKeeps DEF AskResume
<1>5. ASSUME NEW s \in Sessions, NEW kind \in {"release", "delete"}, kind \in Kinds,
             call' = [call EXCEPT ![r] = [kind |-> kind, from |-> s, to |-> Nothing]]
      PROVE  /\ call' \in [Requests -> [kind: Kinds \cup {"none"}, from: Sessions \cup {Nothing},
                                        to: Sessions \cup {Nothing}]]
             /\ \A q \in Requests \ {r} : call'[q] = call[q]
             /\ call'[r].kind \notin {"restart", "resume"} /\ call'[r].from = s
  BY <1>0, <1>5 DEF DirectoryTypeOK
<1>6. ASSUME NEW s \in Sessions, Release(r, s) PROVE DirectoryInv'
  <2>1. /\ HubClose(r, s, TRUE, "closing", "done", "done") /\ pc[r] = "idle"
        /\ UNCHANGED <<server, record>> /\ server = "up"
    BY <1>6 DEF Release
  <2>2. /\ call' \in [Requests -> [kind: Kinds \cup {"none"}, from: Sessions \cup {Nothing},
                                   to: Sessions \cup {Nothing}]]
        /\ \A q \in Requests \ {r} : call'[q] = call[q]
        /\ call'[r].kind \notin {"restart", "resume"} /\ call'[r].from = s
    BY <1>5, <1>6 DEF Release
  <2>3. /\ Closes(s, TRUE) /\ pc' \in [Requests -> Labels]
        /\ pc'[r] \in {"closing", "done"} /\ \A q \in Requests \ {r} : pc'[q] = pc[q]
    <3>1. Closes(s, TRUE)
      BY <2>1 DEF HubClose, Closes
    <3>2. PICK label \in {"closing", "done"} : Goto(r, label)
      BY <2>1 DEF HubClose
    <3> QED BY <1>0, <3>1, <3>2, GotoType DEF Labels
  <2>4. RecordInv'
    BY <2>1, <2>2, <2>3 DEF RecordInv, DirectoryInv
  <2> QED BY <1>0, <2>1, <2>2, <2>3, <2>4, HubCloseKeeps DEF DirectoryTypeOK
<1>7. ASSUME NEW s \in Sessions, Delete(r, s) PROVE DirectoryInv'
  <2>1. /\ pc[r] = "idle" /\ UNCHANGED <<server, record>> /\ server = "up"
    BY <1>7 DEF Delete
  <2>2. /\ call' \in [Requests -> [kind: Kinds \cup {"none"}, from: Sessions \cup {Nothing},
                                   to: Sessions \cup {Nothing}]]
        /\ \A q \in Requests \ {r} : call'[q] = call[q]
        /\ call'[r].kind \notin {"restart", "resume"} /\ call'[r].from = s
    BY <1>5, <1>7 DEF Delete
  <2>3. CASE HubClose(r, s, FALSE, "closing", "done", "done")
    <3>1. /\ Closes(s, FALSE) /\ pc' \in [Requests -> Labels]
          /\ pc'[r] \in {"closing", "done"} /\ \A q \in Requests \ {r} : pc'[q] = pc[q]
      <4>1. "closing" \in Labels /\ "done" \in Labels /\ FALSE \in BOOLEAN
        BY DEF Labels
      <4>2. /\ Closes(s, FALSE) /\ pc' \in [Requests -> Labels]
            /\ pc'[r] \in {"closing", "done", "done"} /\ \A q \in Requests \ {r} : pc'[q] = pc[q]
        BY <1>0, <2>3, <4>1, HubCloseMoves, Zenon
      <4> QED BY <4>2
    <3>2. RecordInv'
      BY <2>1, <2>2, <3>1 DEF RecordInv, DirectoryInv
    <3> QED BY <1>0, <2>1, <2>2, <3>1, <3>2, HubCloseKeeps DEF DirectoryTypeOK
  <2>4. CASE hub[s] = Nothing /\ Save(listed \ {s}) /\ Goto(r, "done") /\ UNCHANGED memory
    <3>1. /\ pc' \in [Requests -> Labels] /\ pc'[r] = "done"
          /\ \A q \in Requests \ {r} : pc'[q] = pc[q]
      BY <1>0, <2>4, GotoType DEF Labels
    <3>2. /\ listed' \in SUBSET Sessions /\ mishaps' \in 0..MaxMishaps
          /\ listed' \in {listed, listed \ {s}}
      <4>1. listed \ {s} \in SUBSET Sessions
        BY <1>0 DEF DirectoryTypeOK
      <4> QED BY <1>0, <2>4, <4>1, SaveType
    <3>3. DirectoryTypeOK'
      BY <1>0, <2>1, <2>2, <2>4, <3>1, <3>2 DEF DirectoryTypeOK, Labels, memory
    <3>4. RecordInv'
      BY <2>1, <2>2, <3>1 DEF RecordInv, DirectoryInv
    <3> QED BY <2>1, <2>2, <2>4, <3>1, <3>2, <3>3, <3>4, OnlyRequests DEF memory
  <2> QED BY <1>7, <2>3, <2>4 DEF Delete
<1> QED BY <1>1, <1>2, <1>3, <1>4, <1>6, <1>7 DEF Asked

\* A request that goes on, with its session untouched.
LEMMA GotoKeeps ==
  ASSUME DirectoryInv, NEW r \in Requests, NEW label \in Labels, Goto(r, label),
         UNCHANGED <<server, memory, call, record>>,
         listed' \in SUBSET Sessions, mishaps' \in 0..MaxMishaps, listed \subseteq listed',
         label \notin {"idle", "syncing"}, pc[r] \notin {"idle", "mounting", "closing", "done"},
         pc[r] = "throwing" => hub[call[r].to] = Nothing
  PROVE  DirectoryInv'
<1>0. DirectoryTypeOK
  BY DEF DirectoryInv
<1>1. /\ pc' \in [Requests -> Labels] /\ pc'[r] = label
      /\ \A q \in Requests \ {r} : pc'[q] = pc[q]
  BY <1>0, GotoType
<1>2. DirectoryTypeOK'
  BY <1>0, <1>1 DEF DirectoryTypeOK, Labels, memory
<1>3. call[r].to \in Sessions
  BY DEF DirectoryInv, RequestInv
<1>4. pc[r] \in {"throwing", "done"} => \A s \in Sessions : hub[s] # r
  BY DEF DirectoryInv, ServedInv
<1>5. server # "down"
  BY DEF DirectoryInv, ServerInv
<1>6. RecordInv'
  BY <1>1 DEF RecordInv, DirectoryInv
<1> QED BY <1>1, <1>2, <1>3, <1>4, <1>5, <1>6, OnlyRequests DEF memory

\* The steps of a request that leave every host as it is.
LEMMA WaitingKeeps ==
  ASSUME DirectoryInv, NEW r \in Requests,
         \/ CloseOld(r) \/ SyncFails(r) \/ Create(r) \/ PrepareFails(r) \/ Unwound(r)
         \/ Catch(r) \/ Restore(r)
  PROVE  DirectoryInv'
<1>0. DirectoryTypeOK /\ listed \in SUBSET Sessions /\ mishaps \in 0..MaxMishaps
  BY DEF DirectoryInv, DirectoryTypeOK
<1>1. Thrown(r) \in {"restoring", "done"}
  BY DEF Thrown
<1>2. CASE SyncFails(r)
  BY <1>0, <1>2, GotoKeeps DEF SyncFails, Labels
<1>3. CASE Create(r)
  <2>1. PICK label \in {"throwing", "building"} : Goto(r, label)
    BY <1>3 DEF Create
  <2> QED BY <1>0, <1>3, <2>1, GotoKeeps DEF Create, Labels
<1>4. CASE PrepareFails(r)
  <2>1. PICK label \in {"throwing", "restoring", "done"} : Goto(r, label)
    BY <1>1, <1>4 DEF PrepareFails
  <2> QED BY <1>0, <1>4, <2>1, GotoKeeps DEF PrepareFails, Labels
<1>5. CASE Unwound(r)
  BY <1>0, <1>5, GotoKeeps DEF Unwound, Labels
<1>6. CASE Restore(r)
  <2>1. PICK to \in SUBSET Sessions : listed \subseteq to /\ Save(to)
    <3>1. listed \cup {call[r].from} \in SUBSET (Sessions \cup {Nothing})
      BY <1>0 DEF DirectoryTypeOK
    <3>2. record[r] => call[r].from \in Sessions
      BY DEF DirectoryInv, RecordInv
    <3> QED BY <1>0, <1>6, <3>2 DEF Restore
  <2>2. listed' \in SUBSET Sessions /\ mishaps' \in 0..MaxMishaps /\ listed' \in {listed, to}
    BY <1>0, <2>1, SaveType
  <2> QED BY <1>6, <2>1, <2>2, GotoKeeps DEF Restore, Labels
<1>7. CASE Catch(r)
  <2>1. pc[r] = "throwing" /\ call[r].to \in Sessions /\ server # "down"
    BY <1>7 DEF Catch, DirectoryInv, RequestInv, ServerInv
  <2>2. CASE hub[call[r].to] = Nothing
    BY <1>0, <1>1, <1>7, <2>1, <2>2, GotoKeeps DEF Catch, Labels
  <2>3. CASE hub[call[r].to] # Nothing
    <3>1. HubClose(r, call[r].to, FALSE, "discarding", Thrown(r), Thrown(r))
      BY <1>7, <2>1, <2>3 DEF Catch
    <3>2. UNCHANGED <<server, call, record>>
      BY <1>7 DEF Catch
    <3>3. /\ Closes(call[r].to, FALSE) /\ pc' \in [Requests -> Labels]
          /\ pc'[r] \in {"discarding", "restoring", "done"}
          /\ \A q \in Requests \ {r} : pc'[q] = pc[q]
      <4>1. Closes(call[r].to, FALSE)
        BY <3>1 DEF HubClose, Closes
      <4>2. PICK label \in {"discarding", "restoring", "done"} : Goto(r, label)
        BY <1>1, <3>1 DEF HubClose
      <4> QED BY <1>0, <4>1, <4>2, GotoType DEF Labels
    <3>4. RecordInv'
      BY <3>2, <3>3 DEF RecordInv, DirectoryInv
    <3> QED BY <1>0, <2>1, <3>2, <3>3, <3>4, HubCloseKeeps DEF DirectoryTypeOK
  <2> QED BY <2>2, <2>3
<1>8. CASE CloseOld(r)
  <2>1. /\ pc[r] = "syncing" /\ call[r].to \in Sessions /\ server # "down"
        /\ HubClose(r, call[r].from, FALSE, "closing", "preparing", "done")
        /\ UNCHANGED <<server, call>>
    BY <1>8 DEF CloseOld, DirectoryInv, RequestInv, ServerInv
  <2>2. call[r].from \in Sessions
    BY <2>1 DEF DirectoryInv, RecordInv
  <2>3. record' \in [Requests -> BOOLEAN]
    BY <1>0, <1>8 DEF CloseOld, DirectoryTypeOK
  <2>4. /\ Closes(call[r].from, FALSE) /\ pc' \in [Requests -> Labels]
        /\ pc'[r] \in {"closing", "preparing", "done"}
        /\ \A q \in Requests \ {r} : pc'[q] = pc[q]
    BY <1>0, <2>1, <2>2, HubCloseMoves DEF Labels
  <2>5. RecordInv'
    <3>1. \A q \in Requests \ {r} : record'[q] = record[q]
      BY <1>0, <1>8 DEF CloseOld, DirectoryTypeOK
    <3> QED BY <2>1, <2>2, <2>4, <3>1 DEF RecordInv, DirectoryInv
  <2> QED BY <1>0, <2>1, <2>2, <2>3, <2>4, <2>5, HubCloseKeeps DEF DirectoryTypeOK
<1> QED BY <1>2, <1>3, <1>4, <1>5, <1>6, <1>7, <1>8

-----------------------------------------------------------------------------
\* Hosts are built and mounted.
LEMMA BuildKeeps ==
  ASSUME DirectoryInv, NEW r \in Requests, TakeLease(r) \/ Built(r) \/ BuildFails(r)
  PROVE  DirectoryInv'
<1>0. DirectoryTypeOK /\ mishaps \in 0..MaxMishaps /\ listed \in SUBSET Sessions
  BY DEF DirectoryInv, DirectoryTypeOK
<1>1. pc[r] = "building" /\ call[r].to \in Sessions /\ server # "down"
      /\ UNCHANGED <<server, listed, hub, shutdowns, call, record>>
  BY DEF TakeLease, Built, BuildFails, DirectoryInv, RequestInv, ServerInv
<1>2. \A s \in Sessions : hub[s] # r
  BY <1>1 DEF DirectoryInv, ServedInv
<1>3. CASE TakeLease(r) /\ Leased(call[r].to)
  BY <1>0, <1>1, <1>3, GotoKeeps DEF TakeLease, Labels, memory
<1>4. CASE TakeLease(r) /\ ~Leased(call[r].to)
  <2>1. host[r] = "none" /\ host' = [host EXCEPT ![r] = "building"]
        /\ UNCHANGED <<pc, base, mishaps>>
    BY <1>4 DEF TakeLease
  <2>2. host'[r] = "building" /\ \A q \in Requests \ {r} : host'[q] = host[q]
    BY <1>0, <2>1 DEF DirectoryTypeOK
  <2>3. DirectoryTypeOK'
    BY <1>0, <1>1, <2>1 DEF DirectoryTypeOK, Holds
  <2>4. OneLease'
    <3>1. \A q \in Requests \ {r} : call[q].to = call[r].to => host[q] \notin Holds
      BY <1>4 DEF Leased
    <3> QED BY <1>1, <2>2, <3>1 DEF OneLease, DirectoryInv
  <2>5. RequestInv' /\ RecordInv' /\ ServerInv'
    BY <1>1, <2>1, <2>2 DEF RequestInv, RecordInv, ServerInv, DirectoryInv
  <2>6. ServedInv' /\ NoStrayHost' /\ LiveIsListed'
    BY <1>1, <1>2, <2>1, <2>2 DEF ServedInv, NoStrayHost, LiveIsListed, DirectoryInv
  <2> QED BY <2>3, <2>4, <2>5, <2>6 DEF DirectoryInv
<1>5. CASE Built(r)
  <2>1. host[r] = "building" /\ host' = [host EXCEPT ![r] = "up"]
        /\ base' = [base EXCEPT ![call[r].to] = r] /\ Goto(r, "mounting") /\ UNCHANGED mishaps
    BY <1>5 DEF Built
  <2>2. host'[r] = "up" /\ \A q \in Requests \ {r} : host'[q] = host[q]
    BY <1>0, <2>1 DEF DirectoryTypeOK
  <2>3. /\ pc' \in [Requests -> Labels] /\ pc'[r] = "mounting"
        /\ \A q \in Requests \ {r} : pc'[q] = pc[q]
    BY <1>0, <2>1, GotoType DEF Labels
  <2>4. DirectoryTypeOK'
    BY <1>0, <1>1, <2>1, <2>3 DEF DirectoryTypeOK, Holds, Labels
  <2>5. OneLease'
    BY <1>1, <2>1, <2>2 DEF OneLease, DirectoryInv, Holds
  <2>6. RequestInv' /\ RecordInv' /\ ServerInv'
    BY <1>1, <2>1, <2>2, <2>3 DEF RequestInv, RecordInv, ServerInv, DirectoryInv
  <2>7. ServedInv' /\ LiveIsListed'
    BY <1>1, <1>2, <2>1, <2>2, <2>3 DEF ServedInv, LiveIsListed, DirectoryInv
  <2>8. NoStrayHost'
    <3> SUFFICES ASSUME NEW q \in Requests, host'[q] = "up"
                 PROVE  base'[call[q].to] = q /\ (hub[call[q].to] = q \/ pc'[q] = "mounting")
      BY <1>1 DEF NoStrayHost
    <3>1. CASE q = r
      BY <1>0, <1>1, <2>1, <2>3, <3>1 DEF DirectoryTypeOK
    <3>2. CASE q # r
      <4>1. host[q] = "up" /\ base[call[q].to] = q
            /\ (hub[call[q].to] = q \/ pc[q] = "mounting")
        BY <2>2, <3>2 DEF NoStrayHost, DirectoryInv
      <4>2. call[q].to # call[r].to /\ call[q].to \in Sessions
        BY <2>1, <3>2, <4>1 DEF OneLease, RequestInv, DirectoryInv, Holds
      <4> QED BY <1>0, <2>1, <2>3, <3>2, <4>1, <4>2 DEF DirectoryTypeOK
    <3> QED BY <3>1, <3>2
  <2> QED BY <2>4, <2>5, <2>6, <2>7, <2>8 DEF DirectoryInv
<1>6. CASE BuildFails(r)
  <2>1. /\ host[r] = "building" /\ Goto(r, "throwing") /\ UNCHANGED base
        /\ \E h \in {"gone", "stuck"} : host' = [host EXCEPT ![r] = h]
        /\ mishaps' \in 0..MaxMishaps
    BY <1>0, <1>6 DEF BuildFails, Mishap
  <2>2. host'[r] \in {"gone", "stuck"} /\ \A q \in Requests \ {r} : host'[q] = host[q]
    BY <1>0, <2>1 DEF DirectoryTypeOK
  <2>3. /\ pc' \in [Requests -> Labels] /\ pc'[r] = "throwing"
        /\ \A q \in Requests \ {r} : pc'[q] = pc[q]
    BY <1>0, <2>1, GotoType DEF Labels
  <2>4. DirectoryTypeOK'
    <3>1. host' \in [Requests -> Holds \cup {"none", "gone"}]
      BY <1>0, <2>1 DEF DirectoryTypeOK, Holds
    <3> QED BY <1>0, <1>1, <2>1, <2>3, <3>1 DEF DirectoryTypeOK, Labels
  <2>5. OneLease'
    BY <1>1, <2>1, <2>2 DEF OneLease, DirectoryInv, Holds
  <2>6. RequestInv' /\ RecordInv' /\ ServerInv'
    BY <1>1, <2>1, <2>2, <2>3 DEF RequestInv, RecordInv, ServerInv, DirectoryInv
  <2>7. ServedInv' /\ LiveIsListed' /\ NoStrayHost'
    BY <1>1, <1>2, <2>1, <2>2, <2>3 DEF ServedInv, LiveIsListed, NoStrayHost, DirectoryInv
  <2> QED BY <2>4, <2>5, <2>6, <2>7 DEF DirectoryInv
<1> QED BY <1>3, <1>4, <1>5, <1>6

\* A host that is not mounted is disposed of.
LEMMA MountKeeps ==
  ASSUME DirectoryInv, NEW r \in Requests, MountFails(r) \/ RegisterFails(r)
  PROVE  DirectoryInv'
<1> DEFINE s == call[r].to
<1>0. DirectoryTypeOK /\ mishaps \in 0..MaxMishaps /\ listed \in SUBSET Sessions
  BY DEF DirectoryInv, DirectoryTypeOK
<1>1. pc[r] = "mounting" /\ s \in Sessions /\ server # "down"
      /\ UNCHANGED <<server, hub, shutdowns, call, record>>
  BY DEF MountFails, RegisterFails, DirectoryInv, RequestInv, ServerInv
<1>2. /\ base' = [base EXCEPT ![s] = Nothing] /\ host' = DisposeOf(host, base[s])
      /\ base' \in [Sessions -> Requests \cup {Nothing}] /\ host' \in [Requests -> States]
      /\ listed' \in SUBSET Sessions /\ mishaps' \in 0..MaxMishaps
      /\ listed' = listed \/ (RegisterFails(r) /\ listed \ {s} \subseteq listed')
  <2>1. CASE MountFails(r)
    <3>1. host' = DisposeOf(host, base[s]) /\ base' = [base EXCEPT ![s] = Nothing]
          /\ UNCHANGED <<listed, mishaps>>
      BY <2>1 DEF MountFails
    <3>2. host' \in [Requests -> States]
      BY <1>0, <3>1 DEF DisposeOf, DirectoryTypeOK, States, Holds
    <3> QED BY <1>0, <3>1, <3>2 DEF DirectoryTypeOK
  <2>2. CASE RegisterFails(r)
    <3>1. CloseManaged(s, FALSE)
      BY <2>2 DEF RegisterFails
    <3> QED BY <1>0, <1>1, <2>2, <3>1, CloseType
  <2> QED BY <2>1, <2>2
<1>3. /\ pc' \in [Requests -> Labels] /\ pc'[r] \in {"unwinding", "refused"}
      /\ \A q \in Requests \ {r} : pc'[q] = pc[q]
  <2>1. PICK label \in {"unwinding", "refused"} : Goto(r, label)
    BY DEF MountFails, RegisterFails
  <2> QED BY <1>0, <2>1, GotoType DEF Labels
<1>4. DirectoryTypeOK' /\ RecordInv'
  BY <1>0, <1>1, <1>2, <1>3 DEF DirectoryTypeOK, Labels, States, RecordInv, DirectoryInv
<1>5. RegisterFails(r) => hub[s] = Nothing
  <2> SUFFICES ASSUME RegisterFails(r), hub[s] # Nothing PROVE FALSE
    OBVIOUS
  <2>1. hub[s] \in Requests /\ host[hub[s]] \in Holds /\ call[hub[s]].to = s
        /\ pc[hub[s]] # "mounting"
    BY <1>1 DEF DirectoryInv, ServedInv, Holds
  <2>2. host[r] \in Holds
    BY DEF RegisterFails, Holds
  <2> QED BY <1>1, <2>1, <2>2 DEF DirectoryInv, OneLease
<1>6. \A t \in Sessions : hub'[t] # Nothing =>
        shutdowns'[t] = shutdowns[t] /\ (t \in listed => t \in listed')
  BY <1>1, <1>2, <1>5
<1>7. \A q \in Requests :
        /\ pc'[q] # pc[q] =>
             /\ pc[q] \in {"throwing", "done"} => \A t \in Sessions : hub'[t] # q
             /\ pc[q] = "mounting" => call[q].to = s
             /\ pc[q] = "idle" \/ pc'[q] # "idle"
             /\ server # "down"
             /\ pc'[q] \notin {"idle", "closing", "done"} => call'[q].to \in Sessions
        /\ call'[q] = call[q]
  BY <1>1, <1>3
<1>8. hub' = hub /\ server' = server
  BY <1>1
<1> HIDE DEF s
<1> QED BY <1>1, <1>2, <1>4, <1>6, <1>7, <1>8, SessionLeaves

\* A session is registered and recorded.
LEMMA RegisterKeeps ==
  ASSUME DirectoryInv, NEW r \in Requests, RegisterSession(r)
  PROVE  DirectoryInv'
<1> DEFINE s == call[r].to
<1>0. DirectoryTypeOK /\ mishaps \in 0..MaxMishaps /\ listed \in SUBSET Sessions
  BY DEF DirectoryInv, DirectoryTypeOK
<1>1. pc[r] = "mounting" /\ s \in Sessions /\ server \notin {"down", "closed"} /\ host[r] = "up"
      /\ UNCHANGED <<server, base, host, call, record>>
  BY DEF RegisterSession, Refused, DirectoryInv, RequestInv, ServerInv
<1>2. hub[s] = Nothing /\ hub' = [hub EXCEPT ![s] = r]
      /\ shutdowns' = [shutdowns EXCEPT ![s] = NoShutdown]
  BY DEF RegisterSession, Refused
<1>3. PICK label \in {"throwing", "done"} :
        /\ Goto(r, label)
        /\ label # "throwing" => s \in listed'
        /\ listed' \in {listed, listed \cup {s}} /\ mishaps' \in 0..MaxMishaps
  <2>1. CASE listed' = listed \cup {s} /\ Goto(r, "done") /\ UNCHANGED mishaps
    BY <1>0, <2>1
  <2>2. CASE UNCHANGED listed /\ Goto(r, "throwing") /\ Mishap
    BY <1>0, <2>2 DEF Mishap
  <2> QED BY <2>1, <2>2 DEF RegisterSession
<1>4. /\ pc' \in [Requests -> Labels] /\ pc'[r] = label
      /\ \A q \in Requests \ {r} : pc'[q] = pc[q]
  BY <1>0, <1>3, GotoType DEF Labels
<1>5. /\ hub'[s] = r /\ shutdowns'[s].state = "none"
      /\ \A t \in Sessions \ {s} : hub'[t] = hub[t] /\ shutdowns'[t] = shutdowns[t]
  BY <1>0, <1>1, <1>2 DEF DirectoryTypeOK, NoShutdown
<1>6. DirectoryTypeOK'
  <2>1. hub' \in [Sessions -> Requests \cup {Nothing}]
    BY <1>0, <1>1, <1>2 DEF DirectoryTypeOK
  <2>2. shutdowns' \in [Sessions -> [state: {"none", "pending", "failed"},
                                     host: Requests \cup {Nothing}]]
    BY <1>0, <1>1, <1>2 DEF DirectoryTypeOK, NoShutdown
  <2>3. listed' \in SUBSET Sessions
    BY <1>0, <1>1, <1>3
  <2> QED BY <1>0, <1>1, <1>3, <1>4, <2>1, <2>2, <2>3 DEF DirectoryTypeOK, Labels
<1>7. RequestInv' /\ RecordInv' /\ OneLease' /\ ServerInv'
  BY <1>1, <1>3, <1>4 DEF DirectoryInv, RequestInv, RecordInv, OneLease, ServerInv
<1>8. ServedInv'
  <2> SUFFICES ASSUME NEW t \in Sessions, hub'[t] # Nothing
               PROVE  /\ shutdowns'[t].state = "none"
                      /\ hub'[t] \in Requests /\ call[hub'[t]].to = t
                      /\ host[hub'[t]] \in {"up", "closing"}
                      /\ pc'[hub'[t]] \in {"throwing", "done"}
    BY <1>1 DEF ServedInv
  <2>1. CASE t = s
    BY <1>1, <1>3, <1>4, <1>5, <2>1
  <2>2. CASE t # s
    BY <1>1, <1>4, <1>5, <2>2 DEF DirectoryInv, ServedInv
  <2> QED BY <2>1, <2>2
<1>9. NoStrayHost'
  <2> SUFFICES ASSUME NEW q \in Requests, host[q] = "up"
               PROVE  base[call[q].to] = q /\ (hub'[call[q].to] = q \/ pc'[q] = "mounting")
    BY <1>1 DEF NoStrayHost
  <2>1. base[call[q].to] = q /\ (hub[call[q].to] = q \/ pc[q] = "mounting")
        /\ call[q].to \in Sessions
    BY DEF DirectoryInv, NoStrayHost, RequestInv
  <2>2. CASE q = r
    BY <1>5, <2>1, <2>2
  <2>3. CASE q # r
    <3>1. call[q].to # s
      BY <1>1, <2>3 DEF DirectoryInv, OneLease, Holds
    <3> QED BY <1>4, <1>5, <2>1, <2>3, <3>1
  <2> QED BY <2>2, <2>3
<1>10. LiveIsListed'
  <2> SUFFICES ASSUME server = "up", NEW t \in Sessions, hub'[t] # Nothing
               PROVE  t \in listed' \/ pc'[hub'[t]] = "throwing"
    BY <1>1 DEF LiveIsListed
  <2>1. CASE t = s
    BY <1>3, <1>4, <1>5, <2>1
  <2>2. CASE t # s
    BY <1>1, <1>3, <1>4, <1>5, <2>2 DEF DirectoryInv, LiveIsListed, ServedInv
  <2> QED BY <2>1, <2>2
<1> QED BY <1>6, <1>7, <1>8, <1>9, <1>10 DEF DirectoryInv

-----------------------------------------------------------------------------
\* Hosts end.
LEMMA ExitKeeps ==
  ASSUME DirectoryInv, NEW r \in Requests, ExtensionStops(r)
  PROVE  DirectoryInv'
<1>1. /\ host[r] = "up" /\ host' = [host EXCEPT ![r] = "closing"]
      /\ UNCHANGED <<server, listed, hub, base, shutdowns, locals, mishaps>>
  BY DEF ExtensionStops, DisposeOf
<1>2. host'[r] = "closing" /\ \A q \in Requests \ {r} : host'[q] = host[q]
  BY <1>1 DEF DirectoryInv, DirectoryTypeOK
<1>3. DirectoryTypeOK'
  BY <1>1 DEF DirectoryInv, DirectoryTypeOK, locals, Holds
<1>4. RequestInv' /\ RecordInv' /\ OneLease' /\ ServerInv'
  BY <1>1, <1>2 DEF DirectoryInv, RequestInv, RecordInv, OneLease, ServerInv, locals, Holds
<1>5. ServedInv' /\ NoStrayHost' /\ LiveIsListed'
  BY <1>1, <1>2 DEF DirectoryInv, ServedInv, NoStrayHost, LiveIsListed, locals
<1> QED BY <1>3, <1>4, <1>5 DEF DirectoryInv

LEMMA DisposedKeeps ==
  ASSUME DirectoryInv, NEW r \in Requests, Disposed(r)
  PROVE  DirectoryInv'
<1> DEFINE s == call[r].to
           closes == server # "closed" /\ hub[s] = r /\ shutdowns[s].state = "none"
<1>0. DirectoryTypeOK /\ mishaps \in 0..MaxMishaps /\ listed \in SUBSET Sessions
  BY DEF DirectoryInv, DirectoryTypeOK
<1>1. host[r] = "closing" /\ s \in Sessions /\ UNCHANGED <<server, pc, call, record>>
  BY DEF Disposed, DirectoryInv, RequestInv, locals
<1>2. PICK h \in {"gone", "stuck"} : host' = [host EXCEPT ![r] = h]
  BY DEF Disposed
<1>3. host'[r] = h /\ \A q \in Requests \ {r} : host'[q] = host[q]
  BY <1>0, <1>2 DEF DirectoryTypeOK
<1>4. listed' \in SUBSET Sessions /\ mishaps' \in 0..MaxMishaps
      /\ listed' \in {listed, IF closes /\ server = "up" THEN listed \ {s} ELSE listed}
  <2> DEFINE saved == IF closes /\ server = "up" THEN listed \ {s} ELSE listed
  <2>1. saved \in SUBSET Sessions
    BY <1>0
  <2>2. Save(saved) \/ (listed' = saved /\ Mishap)
    BY DEF Disposed
  <2> HIDE DEF saved
  <2> QED BY <1>0, <2>1, <2>2, SaveType DEF Mishap, saved
<1>5. CASE closes
  <2>1. /\ hub' = [hub EXCEPT ![s] = Nothing] /\ base' = [base EXCEPT ![s] = Nothing]
        /\ shutdowns' = [shutdowns EXCEPT ![s] = [state |-> "pending", host |-> r]]
    BY <1>5 DEF Disposed
  <2>2. /\ hub'[s] = Nothing /\ base'[s] = Nothing
        /\ \A t \in Sessions \ {s} :
             hub'[t] = hub[t] /\ base'[t] = base[t] /\ shutdowns'[t] = shutdowns[t]
    BY <1>0, <1>1, <2>1 DEF DirectoryTypeOK
  <2>3. DirectoryTypeOK'
    <3>1. hub' \in [Sessions -> Requests \cup {Nothing}]
          /\ base' \in [Sessions -> Requests \cup {Nothing}]
      BY <1>0, <2>1 DEF DirectoryTypeOK
    <3>2. shutdowns' \in [Sessions -> [state: {"none", "pending", "failed"},
                                       host: Requests \cup {Nothing}]]
      BY <1>0, <2>1 DEF DirectoryTypeOK
    <3>3. host' \in [Requests -> Holds \cup {"none", "gone"}]
      BY <1>0, <1>2 DEF DirectoryTypeOK, Holds
    <3> QED BY <1>0, <1>1, <1>4, <3>1, <3>2, <3>3 DEF DirectoryTypeOK
  <2>4. RequestInv' /\ RecordInv' /\ OneLease' /\ ServerInv'
    BY <1>1, <1>3, <2>2 DEF DirectoryInv, RequestInv, RecordInv, OneLease, ServerInv, Holds
  <2>5. ServedInv'
    <3> SUFFICES ASSUME NEW t \in Sessions, hub'[t] # Nothing
                 PROVE  /\ shutdowns'[t].state = "none"
                        /\ hub'[t] \in Requests /\ call[hub'[t]].to = t
                        /\ host'[hub'[t]] \in {"up", "closing"}
                        /\ pc[hub'[t]] \in {"throwing", "done"}
      BY <1>1 DEF ServedInv
    <3>1. t # s /\ hub'[t] = hub[t] /\ shutdowns'[t] = shutdowns[t]
      BY <2>2
    <3> QED BY <1>3, <3>1 DEF DirectoryInv, ServedInv
  <2>6. NoStrayHost'
    <3> SUFFICES ASSUME NEW q \in Requests, host'[q] = "up"
                 PROVE  base'[call[q].to] = q /\ (hub'[call[q].to] = q \/ pc[q] = "mounting")
      BY <1>1 DEF NoStrayHost
    <3>1. q # r /\ host[q] = "up"
      BY <1>3
    <3>2. call[q].to # s /\ call[q].to \in Sessions
      BY <1>1, <3>1 DEF DirectoryInv, OneLease, RequestInv, Holds
    <3> QED BY <2>2, <3>1, <3>2 DEF DirectoryInv, NoStrayHost
  <2>7. LiveIsListed'
    <3> SUFFICES ASSUME server = "up", NEW t \in Sessions, hub'[t] # Nothing
                 PROVE  t \in listed' \/ pc[hub'[t]] = "throwing"
      BY <1>1 DEF LiveIsListed
    <3>1. t # s /\ hub'[t] = hub[t] /\ (t \in listed => t \in listed')
      BY <1>4, <2>2
    <3> QED BY <3>1 DEF DirectoryInv, LiveIsListed
  <2> QED BY <2>3, <2>4, <2>5, <2>6, <2>7 DEF DirectoryInv
<1>6. CASE ~closes
  <2>1. UNCHANGED <<hub, base, shutdowns>> /\ listed' = listed
    BY <1>4, <1>6 DEF Disposed
  <2>2. \A t \in Sessions : hub[t] # r
    BY <1>1, <1>6 DEF DirectoryInv, ServedInv, ServerInv
  <2>3. DirectoryTypeOK'
    <3>1. host' \in [Requests -> Holds \cup {"none", "gone"}]
      BY <1>0, <1>2 DEF DirectoryTypeOK, Holds
    <3> QED BY <1>0, <1>1, <1>4, <2>1, <3>1 DEF DirectoryTypeOK
  <2>4. RequestInv' /\ RecordInv' /\ OneLease' /\ ServerInv'
    BY <1>1, <1>3, <2>1 DEF DirectoryInv, RequestInv, RecordInv, OneLease, ServerInv, Holds
  <2>5. ServedInv' /\ NoStrayHost' /\ LiveIsListed'
    BY <1>1, <1>3, <2>1, <2>2 DEF DirectoryInv, ServedInv, NoStrayHost, LiveIsListed
  <2> QED BY <2>3, <2>4, <2>5 DEF DirectoryInv
<1> QED BY <1>5, <1>6

\* A shutdown settles, and those who wait for it go on.
LEMMA SettleKeeps ==
  ASSUME DirectoryInv, NEW s \in Sessions, ShutdownEnds(s) \/ ShutdownFails(s)
  PROVE  DirectoryInv'
<1>0. DirectoryTypeOK
  BY DEF DirectoryInv
<1>1. PICK to \in [state: {"none", "pending", "failed"}, host: Requests \cup {Nothing}],
           ok \in BOOLEAN : Settle(s, to, ok)
  <2>1. shutdowns[s] \in [state: {"none", "pending", "failed"}, host: Requests \cup {Nothing}]
    BY <1>0 DEF DirectoryTypeOK
  <2>2. NoShutdown \in [state: {"none", "pending", "failed"}, host: Requests \cup {Nothing}]
    BY DEF NoShutdown
  <2>3. [shutdowns[s] EXCEPT !.state = "failed"]
          \in [state: {"none", "pending", "failed"}, host: Requests \cup {Nothing}]
    BY <2>1
  <2>4. CASE ShutdownEnds(s)
    BY <2>2, <2>4 DEF ShutdownEnds
  <2>5. CASE ShutdownFails(s)
    BY <2>3, <2>5 DEF ShutdownFails
  <2> QED BY <2>4, <2>5
<1>2. shutdowns[s].state = "pending"
  BY DEF ShutdownEnds, ShutdownFails
<1>3. /\ shutdowns' = [shutdowns EXCEPT ![s] = to]
      /\ UNCHANGED <<server, listed, hub, base, host, call, record, mishaps>>
  BY <1>1 DEF Settle
<1>4. \A r \in Requests : pc'[r] # pc[r] =>
        /\ pc[r] \in {"closing", "discarding"}
        /\ pc'[r] \in {"restoring", "preparing", "done"}
        /\ pc'[r] # "done" => call[r].to \in Sessions
  <2> SUFFICES ASSUME NEW r \in Requests, pc'[r] # pc[r]
               PROVE  /\ pc[r] \in {"closing", "discarding"}
                      /\ pc'[r] \in {"restoring", "preparing", "done"}
                      /\ pc'[r] # "done" => call[r].to \in Sessions
    OBVIOUS
  <2>1. pc[r] \in {"closing", "discarding"} /\ pc'[r] = Resumed(r, ok)
    BY <1>1 DEF Settle
  <2>2. call[r].kind \in {"restart", "resume"} => call[r].to \in Sessions
    BY DEF DirectoryInv, RequestInv
  <2> QED BY <2>1, <2>2 DEF Resumed, Thrown
<1>5. pc' \in [Requests -> Labels]
  <2>1. pc' = [r \in Requests |-> pc'[r]]
    BY <1>1 DEF Settle
  <2>2. \A r \in Requests : pc'[r] \in Labels
    BY <1>0, <1>4 DEF DirectoryTypeOK, Labels
  <2> QED BY <2>1, <2>2
<1>6. DirectoryTypeOK'
  <2>1. shutdowns' \in [Sessions -> [state: {"none", "pending", "failed"},
                                     host: Requests \cup {Nothing}]]
    BY <1>0, <1>3 DEF DirectoryTypeOK
  <2> QED BY <1>0, <1>3, <1>5, <2>1 DEF DirectoryTypeOK, Labels
<1>7. RecordInv'
  BY <1>3, <1>4 DEF RecordInv, DirectoryInv
<1>8. \A t \in Sessions : hub[t] # Nothing =>
        shutdowns'[t] = shutdowns[t] /\ (t \in listed => t \in listed')
  BY <1>0, <1>2, <1>3 DEF DirectoryInv, ServedInv, DirectoryTypeOK
<1>9. \A r \in Requests : pc'[r] # pc[r] => server # "down"
  BY <1>4 DEF DirectoryInv, ServerInv
<1> QED BY <1>3, <1>4, <1>6, <1>7, <1>8, <1>9, OnlyRequests

-----------------------------------------------------------------------------
\* The server stops, ends and starts again.
LEMMA ServerKeeps ==
  ASSUME DirectoryInv,
         StopServer \/ CloseSessions \/ CloseHub \/ Exit \/ Crash \/ Boot
  PROVE  DirectoryInv'
<1>0. DirectoryTypeOK /\ mishaps \in 0..MaxMishaps
  BY DEF DirectoryInv, DirectoryTypeOK
<1>1. CASE StopServer \/ Boot
  <2>1. UNCHANGED <<listed, hub, base, shutdowns, host, pc, call, record, mishaps>>
    BY <1>1 DEF StopServer, Boot, memory, locals
  <2>2. (server = "up" /\ server' = "stopping") \/ (server = "down" /\ server' = "up")
    BY <1>1 DEF StopServer, Boot
  <2>3. DirectoryTypeOK' /\ RequestInv' /\ RecordInv' /\ OneLease'
    BY <1>0, <2>1, <2>2 DEF DirectoryTypeOK, RequestInv, RecordInv, OneLease, DirectoryInv
  <2>4. ServedInv' /\ ServerInv' /\ NoStrayHost' /\ LiveIsListed'
    BY <2>1, <2>2 DEF ServedInv, ServerInv, NoStrayHost, LiveIsListed, DirectoryInv
  <2> QED BY <2>3, <2>4 DEF DirectoryInv
<1>2. CASE CloseSessions
  <2>1. /\ server' = "draining" /\ base' = [s \in Sessions |-> Nothing]
        /\ UNCHANGED <<listed, hub, shutdowns, pc, call, record, mishaps>>
        /\ host' = [r \in Requests |-> IF host[r] = "up" /\ base[call[r].to] = r
                                         THEN "closing" ELSE host[r]]
    BY <1>2 DEF CloseSessions, locals
  <2>2. \A r \in Requests : host'[r] = IF host[r] = "up" THEN "closing" ELSE host[r]
    BY <2>1 DEF DirectoryInv, NoStrayHost
  <2>3. DirectoryTypeOK'
    BY <1>0, <2>1 DEF DirectoryTypeOK, Holds
  <2>4. RequestInv' /\ RecordInv' /\ OneLease'
    BY <2>1, <2>2 DEF RequestInv, RecordInv, OneLease, DirectoryInv, Holds
  <2>5. ServedInv' /\ ServerInv' /\ NoStrayHost' /\ LiveIsListed'
    BY <2>1, <2>2 DEF ServedInv, ServerInv, NoStrayHost, LiveIsListed, DirectoryInv
  <2> QED BY <2>3, <2>4, <2>5 DEF DirectoryInv
<1>3. CASE CloseHub
  <2> DEFINE left == {s \in Sessions : hub[s] # Nothing /\ shutdowns[s].state = "none"}
  <2>1. /\ server' = "closed" /\ hub' = [s \in Sessions |-> Nothing]
        /\ shutdowns' = [s \in Sessions |->
             IF s \in left THEN [state |-> "pending", host |-> base[s]] ELSE shutdowns[s]]
        /\ base' = [s \in Sessions |-> IF s \in left THEN Nothing ELSE base[s]]
        /\ host' = [r \in Requests |->
             IF host[r] = "up" /\ \E s \in left : base[s] = r THEN "closing" ELSE host[r]]
        /\ UNCHANGED <<listed, pc, call, record, mishaps>>
    BY <1>3 DEF CloseHub, locals
  <2>2. \A r \in Requests : host'[r] = host[r] \/ (host[r] = "up" /\ host'[r] = "closing")
    BY <2>1
  <2>3. DirectoryTypeOK'
    <3>1. shutdowns' \in [Sessions -> [state: {"none", "pending", "failed"},
                                       host: Requests \cup {Nothing}]]
      BY <1>0, <2>1 DEF DirectoryTypeOK
    <3>2. host' \in [Requests -> Holds \cup {"none", "gone"}]
      BY <1>0, <2>1 DEF DirectoryTypeOK, Holds
    <3>3. /\ hub' \in [Sessions -> Requests \cup {Nothing}]
          /\ base' \in [Sessions -> Requests \cup {Nothing}]
      BY <1>0, <2>1 DEF DirectoryTypeOK
    <3> QED BY <1>0, <2>1, <3>1, <3>2, <3>3 DEF DirectoryTypeOK
  <2>4. RequestInv' /\ RecordInv' /\ OneLease'
    BY <2>1, <2>2 DEF RequestInv, RecordInv, OneLease, DirectoryInv, Holds
  <2>5. ServedInv' /\ ServerInv' /\ LiveIsListed'
    BY <2>1 DEF ServedInv, ServerInv, LiveIsListed
  <2>6. NoStrayHost'
    <3> SUFFICES ASSUME NEW q \in Requests, host'[q] = "up"
                 PROVE  base'[call[q].to] = q /\ pc[q] = "mounting"
      BY <2>1 DEF NoStrayHost
    <3>1. host[q] = "up" /\ call[q].to \in Sessions /\ base[call[q].to] = q
          /\ (hub[call[q].to] = q \/ pc[q] = "mounting")
      BY <2>2 DEF DirectoryInv, NoStrayHost, RequestInv
    <3>2. call[q].to \notin left
      BY <2>1, <3>1
    <3>3. hub[call[q].to] = Nothing
      BY <3>1, <3>2 DEF DirectoryInv, ServedInv
    <3> QED BY <2>1, <3>1, <3>2, <3>3
  <2> QED BY <2>3, <2>4, <2>5, <2>6 DEF DirectoryInv
<1>4. CASE Exit \/ Crash
  <2>1. Ends /\ mishaps' \in 0..MaxMishaps
    BY <1>0, <1>4 DEF Exit, Crash, Mishap
  <2>2. /\ server' = "down" /\ hub' = [s \in Sessions |-> Nothing]
        /\ base' = [s \in Sessions |-> Nothing]
        /\ shutdowns' = [s \in Sessions |-> NoShutdown]
        /\ host' = [r \in Requests |-> IF host[r] = "none" THEN "none" ELSE "gone"]
        /\ pc' = [r \in Requests |-> IF pc[r] = "idle" THEN "idle" ELSE "done"]
        /\ UNCHANGED <<listed, call, record>>
    BY <2>1 DEF Ends
  <2>3. DirectoryTypeOK'
    BY <1>0, <2>1, <2>2 DEF DirectoryTypeOK, NoShutdown
  <2>4. RequestInv' /\ RecordInv' /\ OneLease'
    BY <2>2 DEF RequestInv, RecordInv, OneLease, DirectoryInv, Holds
  <2>5. ServedInv' /\ ServerInv' /\ NoStrayHost' /\ LiveIsListed'
    BY <2>2 DEF ServedInv, ServerInv, NoStrayHost, LiveIsListed
  <2> QED BY <2>3, <2>4, <2>5 DEF DirectoryInv
<1> QED BY <1>1, <1>2, <1>3, <1>4

-----------------------------------------------------------------------------
LEMMA DirectoryStep == DirectoryInv /\ [DirectoryNext]_directoryVars => DirectoryInv'
<1> SUFFICES ASSUME DirectoryInv, [DirectoryNext]_directoryVars PROVE DirectoryInv'
  OBVIOUS
<1>1. ASSUME NEW r \in Requests, Asked(r) PROVE DirectoryInv'
  BY <1>1, AskedKeeps
<1>2. ASSUME NEW r \in Requests, RequestStep(r) PROVE DirectoryInv'
  BY <1>2, WaitingKeeps, BuildKeeps, MountKeeps, RegisterKeeps DEF RequestStep
<1>3. ASSUME NEW r \in Requests, RequestFails(r) PROVE DirectoryInv'
  BY <1>3, WaitingKeeps, BuildKeeps, MountKeeps DEF RequestFails
<1>4. ASSUME NEW r \in Requests, ExtensionStops(r) \/ Disposed(r) PROVE DirectoryInv'
  BY <1>4, ExitKeeps, DisposedKeeps
<1>5. CASE \E s \in Sessions : ShutdownEnds(s) \/ ShutdownFails(s)
  BY <1>5, SettleKeeps
<1>6. CASE StopServer \/ CloseSessions \/ CloseHub \/ Exit \/ Crash \/ Boot
  BY <1>6, ServerKeeps
<1>7. CASE UNCHANGED directoryVars
  <2>1. DirectoryTypeOK' /\ RequestInv' /\ RecordInv' /\ OneLease'
    BY <1>7 DEF DirectoryInv, DirectoryTypeOK, RequestInv, RecordInv, OneLease,
                directoryVars, memory, locals
  <2>2. ServedInv' /\ ServerInv' /\ NoStrayHost' /\ LiveIsListed'
    BY <1>7 DEF DirectoryInv, ServedInv, ServerInv, NoStrayHost, LiveIsListed,
                directoryVars, memory, locals
  <2> QED BY <2>1, <2>2 DEF DirectoryInv
<1> QED BY <1>1, <1>2, <1>3, <1>4, <1>5, <1>6, <1>7 DEF DirectoryNext

\* What the server holds of its sessions agrees, in every state: the hub, the
\* manager, the leases and the record.
THEOREM DirectoryInvariance == DirectorySpec => []DirectoryInv
<1> QED BY DirectoryStarts, DirectoryStep, PTL DEF DirectorySpec

\* A live session is on record, or its request is about to close it.
THEOREM DirectoryListed == DirectorySpec => []LiveIsListed
<1>1. DirectoryInv => LiveIsListed
  BY DEF DirectoryInv
<1> QED BY <1>1, DirectoryInvariance, PTL

\* Every host that is up is held by the manager, and served or about to be.
THEOREM DirectoryNoStray == DirectorySpec => []NoStrayHost
<1>1. DirectoryInv => NoStrayHost
  BY DEF DirectoryInv
<1> QED BY <1>1, DirectoryInvariance, PTL

\* No request that was made before the stop, and no disposal the stop causes,
\* takes a record away.
THEOREM DirectoryStopKeeps == DirectorySpec => StopKeepsRecords
<1>1. [DirectoryNext]_directoryVars
        => [server # "up" => listed \subseteq listed']_directoryVars
  <2> SUFFICES ASSUME DirectoryNext, server # "up" PROVE listed \subseteq listed'
    OBVIOUS
  <2>1. ASSUME NEW r \in Requests, Asked(r) PROVE FALSE
    BY <2>1 DEF Asked, AskRevive, AskOpen, AskRestart, AskResume, Ask, Release, Delete
  <2>2. ASSUME NEW r \in Requests, RequestStep(r) PROVE listed \subseteq listed'
    <3>1. CASE CloseOld(r)
      BY <3>1 DEF CloseOld, HubClose, Unregister, CloseManaged
    <3>2. CASE Catch(r)
      BY <3>2 DEF Catch, HubClose, Unregister, CloseManaged
    <3>3. CASE RegisterSession(r) \/ RegisterFails(r) \/ Restore(r)
      BY <3>3 DEF RegisterSession, RegisterFails, CloseManaged, Restore, Save
    <3>4. CASE Create(r) \/ TakeLease(r) \/ Built(r) \/ Unwound(r)
      BY <3>4 DEF Create, TakeLease, Built, Unwound
    <3> QED BY <2>2, <3>1, <3>2, <3>3, <3>4 DEF RequestStep
  <2>3. ASSUME NEW r \in Requests, RequestFails(r) \/ ExtensionStops(r) PROVE listed' = listed
    BY <2>3 DEF RequestFails, SyncFails, PrepareFails, BuildFails, MountFails, ExtensionStops
  <2>4. ASSUME NEW r \in Requests, Disposed(r) PROVE listed' = listed
    BY <2>4 DEF Disposed, Save
  <2>5. ASSUME NEW s \in Sessions, ShutdownEnds(s) \/ ShutdownFails(s) PROVE listed' = listed
    BY <2>5 DEF ShutdownEnds, ShutdownFails, Settle
  <2>6. CASE StopServer \/ CloseSessions \/ CloseHub \/ Exit \/ Crash \/ Boot
    BY <2>6 DEF StopServer, CloseSessions, CloseHub, Exit, Crash, Ends, Boot
  <2> QED BY <2>1, <2>2, <2>3, <2>4, <2>5, <2>6 DEF DirectoryNext
<1> QED BY <1>1, PTL DEF DirectorySpec, StopKeepsRecords
=============================================================================
