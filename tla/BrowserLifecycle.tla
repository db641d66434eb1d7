-------------------------- MODULE BrowserLifecycle --------------------------
(***************************************************************************)
(* The life cycle of a browser session: start(), stop() and kill() of       *)
(* browser/session.py with the local-browser watchdog that launches and     *)
(* kills the browser process.  Calls come from any task, so what one does   *)
(* between two awaits may meet another's.  pc names the await at which a    *)
(* call is suspended; an action is the code from it to the next one.        *)
(***************************************************************************)
EXTENDS Naturals, FiniteSets

CONSTANTS
  Callers,      \* tasks that call start(), stop() or kill()
  Nobody,       \* the connection lock is free
  KeepAlive,    \* BrowserProfile.keep_alive
  MaxRetries,   \* launch attempts of _launch_browser
  MaxCalls,     \* bound: calls made
  MaxLaunches   \* bound: browser processes spawned

ASSUME LifecycleAssumption ==
  /\ Nobody \notin Callers /\ KeepAlive \in BOOLEAN
  /\ MaxRetries \in Nat \ {0} /\ MaxCalls \in Nat /\ MaxLaunches \in Nat

VARIABLES
  event_bus,    \* 0: the bus the handlers were registered on; each stop makes a new one
  cdp_url,      \* profile.cdp_url: the browser process it belongs to, or 0
  client,       \* _cdp_client_root, NoClient if there is none
  sockets,      \* clients whose websocket is open
  lock,         \* holder of _connection_lock
  user_data_dir, \* profile.user_data_dir: 0 is the configured one, n a temporary one
  subprocess,   \* LocalBrowserWatchdog._subprocess, or 0
  original,     \* _original_user_data_dir, NoDir if none is kept
  temp_dirs,    \* _temp_dirs_to_cleanup
  running,      \* browser processes that run
  on_disk,      \* temporary directories that exist
  call,         \* the call each task is in
  calls,        \* calls made
  launches,     \* processes spawned
  clients,      \* client objects made
  unclosed,     \* auxiliary: clients a reset dropped without closing their websocket
  overlapped,   \* auxiliary: two calls have been in progress at once
  cut           \* auxiliary: the bus has cut off a call

session == <<event_bus, cdp_url, client, sockets, lock, clients, unclosed>>
connection == <<client, sockets, clients, unclosed>>
watchdog == <<subprocess, original, temp_dirs>>
system == <<running, on_disk, launches>>
ghosts == <<calls, overlapped, cut>>
vars == <<session, user_data_dir, watchdog, system, call, ghosts>>

NoDir == MaxCalls * MaxRetries + 1
Dirs == 0 .. NoDir
Procs == 0 .. MaxLaunches
\* A client object and the process its websocket leads to.
Clients == [id : Nat \ {0}, proc : Procs \ {0}]
NoClient == [id |-> 0, proc |-> 0]
Launchings == {"launching", "spawn", "wait_cdp", "launched", "lock"}
\* The awaits of connect(), all under the lock.
Connectings == {"version", "handshake", "connecting", "undoing"}
Starting == Launchings \union Connectings
Stopping == {"saving", "closing", "killer", "killing", "last", "closing_last"}
Calls == [pc : {"idle"} \union Starting \union Stopping,
          force : BOOLEAN, attempt : 0 .. MaxRetries, proc : Procs,
          url : Procs,                             \* the browser connect() asks
          client : Clients \union {NoClient}]      \* the client it made or is closing
Idle == [pc |-> "idle", force |-> FALSE, attempt |-> 0, proc |-> 0,
         url |-> 0, client |-> NoClient]

Init ==
  /\ event_bus = 0 /\ cdp_url = 0 /\ client = NoClient /\ sockets = {}
  /\ lock = Nobody /\ clients = 0 /\ unclosed = {} /\ user_data_dir = 0
  /\ subprocess = 0 /\ original = NoDir /\ temp_dirs = {}
  /\ running = {} /\ on_disk = {} /\ launches = 0
  /\ call = [c \in Callers |-> Idle]
  /\ calls = 0 /\ overlapped = FALSE /\ cut = FALSE

at(c, p) == call[c].pc = p
goes(c, p) == call' = [call EXCEPT ![c].pc = p]
returns(c) == call' = [call EXCEPT ![c] = Idle]
in_progress == {c \in Callers : ~at(c, "idle")}
\* The handlers registered when the session and its watchdogs were made hear
\* only the events of the first bus.
handlers == event_bus = 0

called(c) ==
  /\ at(c, "idle") /\ calls < MaxCalls
  /\ calls' = calls + 1
  /\ overlapped' = (overlapped \/ in_progress # {})

-----------------------------------------------------------------------------
\* Mutant: a browser that is already known is not looked for.
BugLaunchesAlways(c) ==
  /\ called(c) /\ handlers /\ goes(c, "launching")
  /\ UNCHANGED <<session, user_data_dir, watchdog, system, cut>>

\* start(): without handlers the event completes at once, without a result
\* and without an error.
Start(c) ==
  /\ called(c) /\ handlers
  /\ goes(c, IF cdp_url = 0 THEN "launching" ELSE "lock")
  /\ UNCHANGED <<session, user_data_dir, watchdog, system, cut>>

StartUnheard(c) ==
  /\ called(c) /\ ~handlers
  /\ UNCHANGED <<session, user_data_dir, watchdog, system, call, cut>>

\* _launch_browser from its entry to the first attempt.
LaunchBegins(c) ==
  /\ at(c, "launching")
  /\ original' = user_data_dir /\ temp_dirs' = {}
  /\ call' = [call EXCEPT ![c].pc = "spawn", ![c].attempt = 1]
  /\ UNCHANGED <<session, user_data_dir, subprocess, system, ghosts>>

\* The way out of a launch that failed; the error ends start().
launch_fails(c) ==
  /\ user_data_dir' = IF original = NoDir THEN user_data_dir ELSE original
  /\ on_disk' = on_disk \ temp_dirs
  /\ returns(c)

\* Mutant: one attempt too many, in the directory of the last.
BugOneRetryMore(c) ==
  /\ at(c, "spawn")
  /\ IF call[c].attempt <= MaxRetries
     THEN call' = [call EXCEPT ![c].attempt = @ + 1] /\ UNCHANGED <<user_data_dir, on_disk>>
     ELSE launch_fails(c)
  /\ UNCHANGED <<session, subprocess, original, temp_dirs, running, launches, ghosts>>

\* The profile directory is in use: try again with a temporary one.
ProfileInUse(c) ==
  /\ at(c, "spawn")
  /\ IF call[c].attempt < MaxRetries
     THEN LET dir == CHOOSE d \in Dirs \ {0, NoDir} :
                       d \notin on_disk \union {user_data_dir} \union temp_dirs
          IN /\ on_disk' = on_disk \union {dir}
             /\ temp_dirs' = temp_dirs \union {dir}
             /\ user_data_dir' = dir
             /\ call' = [call EXCEPT ![c].attempt = @ + 1]
     ELSE launch_fails(c) /\ UNCHANGED temp_dirs
  /\ UNCHANGED <<session, subprocess, original, running, launches, ghosts>>

SpawnFails(c) ==
  /\ at(c, "spawn") /\ launch_fails(c)
  /\ UNCHANGED <<session, watchdog, running, launches, ghosts>>

Spawned(c) ==
  /\ at(c, "spawn") /\ launches < MaxLaunches
  /\ launches' = launches + 1 /\ running' = running \union {launches'}
  /\ call' = [call EXCEPT ![c].pc = "wait_cdp", ![c].proc = launches']
  /\ UNCHANGED <<session, user_data_dir, watchdog, on_disk, ghosts>>

\* The browser answers: only the directory in use is kept.
CdpReady(c) ==
  /\ at(c, "wait_cdp")
  /\ on_disk' = on_disk \ (temp_dirs \ {user_data_dir})
  /\ temp_dirs' = {user_data_dir} \ {0}
  /\ subprocess' = call[c].proc
  /\ goes(c, "launched")
  /\ UNCHANGED <<session, user_data_dir, original, running, launches, ghosts>>

\* The browser never answers; the process stays.
CdpNeverReady(c) ==
  /\ at(c, "wait_cdp") /\ launch_fails(c)
  /\ UNCHANGED <<session, watchdog, running, launches, ghosts>>

LaunchReturns(c) ==
  /\ at(c, "launched")
  /\ cdp_url' = call[c].proc /\ goes(c, "lock")
  /\ UNCHANGED <<event_bus, connection, lock, user_data_dir, watchdog, system, ghosts>>

-----------------------------------------------------------------------------
\* The session is to be connected: under the lock connect() asks the browser
\* for its websocket's address.
connects(c) ==
  /\ client = NoClient /\ cdp_url # 0
  /\ lock' = c
  /\ call' = [call EXCEPT ![c].pc = "version", ![c].url = cdp_url]

\* It is connected already, or a reset has cleared the address.
connects_not(c) ==
  /\ client # NoClient \/ cdp_url = 0
  /\ returns(c) /\ UNCHANGED lock

\* Mutant: the lock is not waited for.
BugNoLock(c) ==
  /\ at(c, "lock") /\ (connects(c) \/ connects_not(c))
  /\ UNCHANGED <<event_bus, cdp_url, connection, user_data_dir, watchdog, system, ghosts>>

TakeLock(c) ==
  /\ at(c, "lock") /\ lock = Nobody /\ (connects(c) \/ connects_not(c))
  /\ UNCHANGED <<event_bus, cdp_url, connection, user_data_dir, watchdog, system, ghosts>>

\* Mutant: the lock is kept when the browser does not answer.
BugLockKept(c) ==
  /\ at(c, "version") /\ returns(c)
  /\ UNCHANGED <<session, user_data_dir, watchdog, system, ghosts>>

VersionFails(c) ==
  /\ at(c, "version")
  /\ lock' = Nobody /\ returns(c)
  /\ UNCHANGED <<event_bus, cdp_url, connection, user_data_dir, watchdog, system, ghosts>>

\* The answer is written to the profile, also when a reset has meanwhile
\* cleared it; the client is stored before its websocket is opened.
ClientMade(c) ==
  /\ at(c, "version") /\ call[c].url \in running
  /\ cdp_url' = call[c].url
  /\ clients' = clients + 1
  /\ client' = [id |-> clients', proc |-> cdp_url']
  /\ call' = [call EXCEPT ![c].pc = "handshake", ![c].client = client']
  /\ UNCHANGED <<event_bus, sockets, unclosed, lock, user_data_dir, watchdog,
                 system, ghosts>>

\* The websocket opens, whether the session still has the client or not.
ClientOpened(c) ==
  /\ at(c, "handshake") /\ call[c].client.proc \in running
  /\ sockets' = sockets \union {call[c].client} /\ goes(c, "connecting")
  /\ UNCHANGED <<event_bus, cdp_url, client, clients, unclosed, lock,
                 user_data_dir, watchdog, system, ghosts>>

\* The targets are attached and the focus is set, on the client it made.
Connected(c) ==
  /\ at(c, "connecting") /\ client = call[c].client /\ client \in sockets
  /\ lock' = Nobody /\ returns(c)
  /\ UNCHANGED <<event_bus, cdp_url, connection, user_data_dir, watchdog, system, ghosts>>

\* connect() fails, by itself or because a reset took the client away.
ConnectFails(c) ==
  /\ call[c].pc \in {"handshake", "connecting"}
  /\ IF client = NoClient
     THEN lock' = Nobody /\ returns(c)
     ELSE /\ call' = [call EXCEPT ![c].pc = "undoing", ![c].client = client]
          /\ UNCHANGED lock
  /\ UNCHANGED <<event_bus, cdp_url, connection, user_data_dir, watchdog, system, ghosts>>

\* The client that was there when it failed has been closed.
Undone(c) ==
  /\ at(c, "undoing")
  /\ sockets' = sockets \ {call[c].client} /\ client' = NoClient
  /\ lock' = Nobody /\ returns(c)
  /\ UNCHANGED <<event_bus, cdp_url, clients, unclosed, user_data_dir, watchdog,
                 system, ghosts>>

\* The bus cancels a handler whose event has timed out.  Cancellation passes
\* the error handlers by: nothing is restored, only the lock is released.
StartTimesOut(c) ==
  /\ call[c].pc \in Starting
  /\ \/ UNCHANGED sockets
     \/ at(c, "undoing") /\ sockets' = sockets \ {call[c].client}
  /\ lock' = IF lock = c THEN Nobody ELSE lock
  /\ cut' = TRUE /\ returns(c)
  /\ UNCHANGED <<event_bus, cdp_url, client, clients, unclosed, user_data_dir,
                 watchdog, system, calls, overlapped>>

-----------------------------------------------------------------------------
\* stop() and kill(): the storage state is saved first, while the connection
\* is up; on a bus without handlers both events complete at once.
Stop(c, force) ==
  /\ called(c)
  /\ call' = [call EXCEPT ![c].pc = IF handlers THEN "saving" ELSE "last",
                          ![c].force = force]
  /\ UNCHANGED <<session, user_data_dir, watchdog, system, cut>>

\* reset() awaits the closing of the client it finds.
closes(c, p) ==
  /\ client # NoClient
  /\ call' = [call EXCEPT ![c].pc = p, ![c].client = client]
  /\ UNCHANGED <<cdp_url, connection>>

\* The end of reset(): the client it found is closed, the one there by now is
\* dropped.
reset_ends(closed) ==
  /\ sockets' = sockets \ {closed}
  /\ unclosed' = unclosed \union ({client} \ ((sockets \intersect {closed}) \union {NoClient}))
  /\ client' = NoClient /\ cdp_url' = 0 /\ UNCHANGED clients

\* on_BrowserStopEvent: with keep_alive a stop leaves the connection alone.
StateSaved(c) ==
  /\ at(c, "saving")
  /\ IF KeepAlive /\ ~call[c].force
     THEN goes(c, "killer") /\ UNCHANGED <<cdp_url, connection>>
     ELSE \/ client = NoClient /\ reset_ends(NoClient) /\ goes(c, "killer")
          \/ closes(c, "closing")
  /\ UNCHANGED <<event_bus, lock, user_data_dir, watchdog, system, ghosts>>

SessionReset(c) ==
  /\ at(c, "closing") /\ reset_ends(call[c].client) /\ goes(c, "killer")
  /\ UNCHANGED <<event_bus, lock, user_data_dir, watchdog, system, ghosts>>

\* LocalBrowserWatchdog.on_BrowserStopEvent, the last handler that matters.
KillRequested(c) ==
  /\ at(c, "killer")
  /\ IF subprocess # 0
     THEN call' = [call EXCEPT ![c].pc = "killing", ![c].proc = subprocess]
     ELSE goes(c, "last")
  /\ UNCHANGED <<session, user_data_dir, watchdog, system, ghosts>>

\* A process ends; its side of a websocket goes with it.
exits(p) == running' = running \ {p} /\ sockets' = {s \in sockets : s.proc # p}

\* Mutant: the configured profile is forgotten, not restored.
BugOriginalForgotten(c) ==
  /\ at(c, "killing")
  /\ exits(call[c].proc) /\ subprocess' = 0
  /\ on_disk' = on_disk \ temp_dirs /\ temp_dirs' = {}
  /\ original' = NoDir
  /\ goes(c, "last")
  /\ UNCHANGED <<event_bus, cdp_url, client, clients, unclosed, lock,
                 user_data_dir, launches, ghosts>>

\* on_BrowserKillEvent: the process, the temporary directories, the profile.
Killed(c) ==
  /\ at(c, "killing")
  /\ exits(call[c].proc) /\ subprocess' = 0
  /\ on_disk' = on_disk \ temp_dirs /\ temp_dirs' = {}
  /\ user_data_dir' = IF original = NoDir THEN user_data_dir ELSE original
  /\ original' = NoDir
  /\ goes(c, "last")
  /\ UNCHANGED <<event_bus, cdp_url, client, clients, unclosed, lock, launches, ghosts>>

\* The bus is stopped, the session reset once more, and a bus without handlers
\* takes the place of the old one.
fresh_bus(c) == event_bus' = event_bus + 1 /\ returns(c)

\* Mutant: no reset after the bus is stopped.
BugNoLastReset(c) ==
  /\ at(c, "last") /\ fresh_bus(c)
  /\ UNCHANGED <<connection, cdp_url, lock, user_data_dir, watchdog, system, ghosts>>

LastReset(c) ==
  /\ at(c, "last")
  /\ \/ client = NoClient /\ reset_ends(NoClient) /\ fresh_bus(c)
     \/ closes(c, "closing_last") /\ UNCHANGED event_bus
  /\ UNCHANGED <<lock, user_data_dir, watchdog, system, ghosts>>

Stopped(c) ==
  /\ at(c, "closing_last") /\ reset_ends(call[c].client) /\ fresh_bus(c)
  /\ UNCHANGED <<lock, user_data_dir, watchdog, system, ghosts>>

-----------------------------------------------------------------------------
\* The browser process ends by itself.
BrowserExits(p) ==
  /\ p \in running /\ exits(p)
  /\ UNCHANGED <<event_bus, cdp_url, client, clients, unclosed, lock, user_data_dir,
                 watchdog, on_disk, launches, call, ghosts>>

Launching(c) == \/ LaunchBegins(c) \/ ProfileInUse(c) \/ SpawnFails(c) \/ Spawned(c)
                \/ CdpReady(c) \/ CdpNeverReady(c) \/ LaunchReturns(c)
Connecting(c) == \/ TakeLock(c) \/ VersionFails(c) \/ ClientMade(c) \/ ClientOpened(c)
                 \/ Connected(c) \/ ConnectFails(c) \/ Undone(c)
Ending(c) == \/ StateSaved(c) \/ SessionReset(c) \/ KillRequested(c) \/ Killed(c)
             \/ LastReset(c) \/ Stopped(c)
Progress(c) == Launching(c) \/ Connecting(c) \/ Ending(c)

Next == \/ \E c \in Callers :
             \/ Start(c) \/ StartUnheard(c) \/ StartTimesOut(c) \/ Progress(c)
             \/ \E force \in BOOLEAN : Stop(c, force)
        \/ \E p \in running : BrowserExits(p)

Spec == Init /\ [][Next]_vars

\* Every await of a call ends: CDP commands answer or fail, processes start
\* and die within their timeouts, the lock is handed on.
FairSpec == Spec /\ \A c \in Callers : WF_vars(Progress(c)) /\ SF_vars(TakeLock(c))

-----------------------------------------------------------------------------
\* Every variable stays in its type.
TypeOK ==
  /\ event_bus \in 0 .. MaxCalls /\ cdp_url \in Procs
  /\ client \in Clients \union {NoClient} /\ sockets \subseteq Clients
  /\ clients \in Nat /\ unclosed \subseteq Clients /\ lock \in Callers \union {Nobody}
  /\ user_data_dir \in Dirs \ {NoDir} /\ subprocess \in Procs
  /\ original \in Dirs /\ temp_dirs \subseteq Dirs /\ on_disk \subseteq Dirs
  /\ running \subseteq Procs \ {0} /\ launches \in Procs
  /\ call \in [Callers -> Calls] /\ calls \in 0 .. MaxCalls
  /\ overlapped \in BOOLEAN /\ cut \in BOOLEAN

\* However starts, stops, failures and cancellations meet, one open websocket
\* at most is the session's and no other is lost but by a reset() that met a
\* connect(): it closes the client it found and drops the one there by then.
OneWebsocket == sockets \subseteq {client} \union unclosed

\* When calls come one after another and none is cut off, the browser the
\* session talks to is the one kill() would kill.
ConnectedToKnownBrowser ==
  ~overlapped /\ ~cut /\ in_progress = {} /\ client # NoClient =>
    client.proc = subprocess

\* A process of a launch that has not failed: the watchdog or a call knows it.
known == {subprocess} \union {call[c].proc : c \in Callers}

\* Only one call at a time and none cut off: then a running browser gets out of
\* reach of kill() only when its own launch gives up on it.
OnlyTheseBrowsersLost ==
  [][\A p \in running' : p \in known /\ p \notin known' =>
        overlapped \/ cut' \/ \E c \in Callers : CdpNeverReady(c)]_vars

\* Once no browser is known to the session, the configured profile directory is
\* back in place and no temporary one is left on disk, after any number of
\* failed, retried and stopped launches that did not overlap and were not cut.
ProfileRestored ==
  ~overlapped /\ ~cut /\ in_progress = {} /\ subprocess = 0 =>
    user_data_dir = 0 /\ on_disk = {}

\* Every call returns: a failed, cancelled or interrupted start does not leave
\* the lock behind for those who wait.
CallsReturn == \A c \in Callers : []<>at(c, "idle")

\* session.py, stop(): "Useful when you want to clean up resources but plan to
\* reconnect later", and on_BrowserStartEvent: "If you need to reset state, call
\* stop() or kill() first": a start() after a stop() reconnects.
StartIsHeard == [][\A c \in Callers : ~StartUnheard(c)]_vars
=============================================================================
