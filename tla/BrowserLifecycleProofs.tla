----------------------- MODULE BrowserLifecycleProofs -----------------------
(***************************************************************************)
(* Proofs about BrowserLifecycle, for any number of callers, calls, retries *)
(* and launches: no websocket is lost but by a reset that meets a connect,  *)
(* and calls that do not overlap keep to the browser the session knows.     *)
(***************************************************************************)
EXTENDS BrowserLifecycle, FiniteSetTheorems, TLAPS

AllPCs == {"idle"} \union Starting \union Stopping

\* The types of all but the directories.
Types ==
  /\ call \in [Callers -> Calls] /\ calls \in 0 .. MaxCalls
  /\ cdp_url \in Procs /\ client \in Clients \union {NoClient} /\ subprocess \in Procs
  /\ launches \in Procs /\ running \subseteq Procs \ {0}
  /\ event_bus \in Nat /\ lock \in Callers \union {Nobody}
  /\ sockets \subseteq Clients /\ unclosed \subseteq Clients /\ clients \in Nat
  /\ overlapped \in BOOLEAN /\ cut \in BOOLEAN

\* Whoever connects holds the lock and has found no client; the one it makes
\* is the session's or was dropped by a reset, and is not open before its
\* handshake is over.
Held ==
  /\ \A c \in Callers : call[c].pc \in Connectings => lock = c
  /\ \A c \in Callers : call[c].pc = "version" => client = NoClient
  /\ \A c \in Callers : call[c].pc = "handshake" =>
       /\ call[c].client \in {client} \union unclosed
       /\ call[c].client \notin sockets /\ call[c].client.id <= clients
  /\ \A c \in Callers : call[c].pc = "undoing" => client \in {call[c].client, NoClient}
  /\ \A s \in sockets : s.id <= clients

\* With calls one after another, none cut off: one task at most is in a call,
\* and until the reset at the end of a stop the addresses agree with the
\* process the watchdog knows.
Sequential ==
  ~overlapped /\ ~cut =>
    /\ \A c, d \in Callers :
         call[c].pc # "idle" /\ call[d].pc # "idle" => c = d
    /\ \A c \in Callers : call[c].pc \in {"launching", "spawn", "wait_cdp", "launched"}
         => cdp_url = 0
    /\ \A c \in Callers : call[c].pc = "launched" => call[c].proc = subprocess
    /\ \A c \in Callers : call[c].pc = "version" => call[c].url = cdp_url
    /\ client # NoClient => client.proc = cdp_url
    /\ (\A c \in Callers : call[c].pc \notin {"last", "closing_last"})
         => (cdp_url # 0 => cdp_url = subprocess)

\* Every bus but the first was made by a call that has ended.
Counted ==
  /\ IsFiniteSet(in_progress)
  /\ event_bus + Cardinality(in_progress) <= calls

Directories ==
  /\ user_data_dir \in Dirs \ {NoDir} /\ original \in Dirs
  /\ temp_dirs \subseteq Dirs \ {0, NoDir} /\ on_disk \subseteq Dirs \ {0, NoDir}
  /\ \A c \in Callers : call[c].pc = "spawn" => call[c].attempt >= 1

\* The temporary directories that are still known of.
used == (on_disk \union temp_dirs \union {user_data_dir, original}) \ {0, NoDir}

\* Each of them belongs to an attempt of a call: slot[d] says which, num[c] is the
\* number of the call that c is in.
Books(slot, num) ==
  /\ \A d, e \in used : slot[d] = slot[e] => d = e
  /\ \A c \in in_progress : num[c] >= 1
  /\ \A b, c \in in_progress : num[b] = num[c] => b = c
  /\ \A c \in Callers, d \in used : slot[d][1] = num[c] =>
       /\ call[c].pc # "launching"
       /\ call[c].pc = "spawn" => slot[d][2] < call[c].attempt

Booked ==
  \E slot \in [used -> (1 .. calls) \X (1 .. MaxRetries - 1)],
     num \in [Callers -> 0 .. calls] : Books(slot, num)

\* With calls one after another, none cut off, and no launch under way: without a
\* browser the configured directory is in use and no other exists; a browser's
\* launch has noted the configured directory, to restore it.
AtRest == IF subprocess = 0 THEN user_data_dir = 0 /\ on_disk = {} ELSE original = 0

Profiles ==
  ~overlapped /\ ~cut =>
    /\ \A c \in Callers : call[c].pc \in {"launching", "spawn", "wait_cdp"}
         => subprocess = 0
    /\ \A c \in Callers : call[c].pc \in {"spawn", "wait_cdp"} => original = 0
    /\ on_disk \subseteq temp_dirs
    /\ (\A c \in Callers : call[c].pc \notin {"spawn", "wait_cdp"}) => AtRest
    /\ event_bus = 0
         /\ (\A c \in Callers : call[c].pc \notin {"launched"} \union Stopping)
         => (cdp_url = 0 => subprocess = 0)

\* The process a call has taken note of: none, its own, or the one it kills.
Processes ==
  /\ \A p \in running : p <= launches
  /\ ~overlapped /\ ~cut =>
       \A c \in Callers :
         /\ call[c].pc \in {"idle", "launching", "spawn", "saving", "closing", "killer"}
              => call[c].proc = 0
         /\ call[c].pc = "wait_cdp" => call[c].proc # 0
         /\ call[c].pc \in {"lock", "version", "handshake", "connecting", "undoing"}
              => call[c].proc \in {0, subprocess}
         /\ call[c].pc = "killing" => call[c].proc = subprocess /\ subprocess # 0
         /\ call[c].pc \in {"last", "closing_last"} => call[c].proc \notin running

IInv == /\ Types /\ Held /\ OneWebsocket /\ Sequential
        /\ Counted /\ Directories /\ Booked /\ Profiles /\ Processes

-----------------------------------------------------------------------------
\* The fields of a call, and what they may be set to.
LEMMA Fields ==
  ASSUME NEW r \in Calls, NEW p \in AllPCs, NEW n \in 0 .. MaxRetries,
         NEW q \in Procs, NEW b \in BOOLEAN, NEW k \in Clients \union {NoClient}
  PROVE  /\ r.pc \in AllPCs /\ r.force \in BOOLEAN
         /\ r.attempt \in 0 .. MaxRetries /\ r.proc \in Procs
         /\ r.url \in Procs /\ r.client \in Clients \union {NoClient}
         /\ [r EXCEPT !.pc = p] \in Calls
         /\ [r EXCEPT !.attempt = n] \in Calls
         /\ [r EXCEPT !.pc = p, !.attempt = n] \in Calls
         /\ [r EXCEPT !.pc = p, !.proc = q] \in Calls
         /\ [r EXCEPT !.pc = p, !.url = q] \in Calls
         /\ [r EXCEPT !.pc = p, !.client = k] \in Calls
         /\ [r EXCEPT !.pc = p, !.force = b] \in Calls
<1> DEFINE Attempts == 0 .. MaxRetries
           Known == Clients \union {NoClient}
<1>1. Calls = [pc : AllPCs, force : BOOLEAN, attempt : Attempts, proc : Procs,
               url : Procs, client : Known]
  BY DEF Calls, AllPCs
<1>2. n \in Attempts /\ k \in Known
  OBVIOUS
<1> HIDE DEF AllPCs, Attempts, Known
<1>3. /\ r.pc \in AllPCs /\ r.force \in BOOLEAN
      /\ r.attempt \in Attempts /\ r.proc \in Procs
      /\ r.url \in Procs /\ r.client \in Known
  BY <1>1
<1>4. /\ [r EXCEPT !.pc = p] \in Calls
      /\ [r EXCEPT !.attempt = n] \in Calls
  BY <1>1, <1>2, <1>3
<1>5. /\ [r EXCEPT !.pc = p, !.attempt = n] \in Calls
      /\ [r EXCEPT !.pc = p, !.proc = q] \in Calls
      /\ [r EXCEPT !.pc = p, !.force = b] \in Calls
  BY <1>1, <1>2, <1>3
<1>6. /\ [r EXCEPT !.pc = p, !.url = q] \in Calls
      /\ [r EXCEPT !.pc = p, !.client = k] \in Calls
  BY <1>1, <1>2, <1>3
<1> QED
  BY <1>3, <1>4, <1>5, <1>6 DEF Attempts, Known

LEMMA IdleCall ==
  /\ Idle \in Calls /\ "idle" \in AllPCs
  /\ Idle.pc = "idle" /\ Idle.proc = 0 /\ Idle.attempt = 0
  /\ 0 \in 0 .. MaxRetries /\ 0 \in Procs /\ NoClient \notin Clients
<1>1. 0 \in 0 .. MaxRetries /\ 0 \in Procs
  BY LifecycleAssumption DEF Procs
<1>2. NoClient \notin Clients
  BY DEF NoClient, Clients
<1> QED
  BY <1>1, <1>2 DEF Idle, Calls, AllPCs

LEMMA InitInv == Init => IInv
<1> SUFFICES ASSUME Init PROVE IInv
  OBVIOUS
<1>1. Types
  <2>1. calls \in 0 .. MaxCalls
    BY LifecycleAssumption DEF Init
  <2> QED
    BY <2>1, IdleCall DEF Init, Types
<1>2. \A c \in Callers : call[c].pc = "idle"
  BY IdleCall DEF Init
<1>3. Counted
  <2>1. in_progress = {}
    BY <1>2 DEF in_progress, at
  <2> QED
    BY <2>1, FS_EmptySet DEF Init, Counted
<1>4. NoDir \in Nat \ {0} /\ Directories
  <2>1. MaxCalls * MaxRetries \in Nat
    BY LifecycleAssumption
  <2>2. NoDir \in Nat \ {0}
    BY <2>1 DEF NoDir
  <2> QED
    BY <1>2, <2>2 DEF Init, Directories, Dirs
<1>5. Booked
  <2> DEFINE slot == [d \in {} |-> 0]
             num == [c \in Callers |-> 0]
  <2>1. used = {}
    BY DEF Init, used
  <2>2. slot \in [used -> (1 .. calls) \X (1 .. MaxRetries - 1)]
        /\ num \in [Callers -> 0 .. calls]
    BY <2>1 DEF Init
  <2>3. Books(slot, num)
    BY <1>2, <2>1 DEF Books, in_progress, at
  <2> QED
    BY <2>2, <2>3 DEF Booked
<1>6. Profiles /\ Processes
  BY <1>2, IdleCall DEF Init, Profiles, Processes, AtRest
<1> QED
  BY <1>1, <1>2, <1>3, <1>4, <1>5, <1>6 DEF Init, IInv, Held, Connectings, OneWebsocket, Sequential

\* The call of c, and no other, is now one at p, of process q and attempt n.
Moved(c, p, q, n) ==
  /\ call' \in [Callers -> Calls]
  /\ call'[c].pc = p /\ call'[c].proc = q /\ call'[c].attempt = n
  /\ \A d \in Callers \ {c} : call'[d] = call[d]

LEMMA Becomes ==
  ASSUME Types, NEW c \in Callers, NEW r \in Calls, call' = [call EXCEPT ![c] = r]
  PROVE  Moved(c, r.pc, r.proc, r.attempt)
BY DEF Types, Moved

LEMMA CallFields ==
  ASSUME Types, NEW c \in Callers
  PROVE  /\ call[c].pc \in AllPCs /\ call[c].proc \in Procs
         /\ call[c].url \in Procs /\ call[c].client \in Clients \union {NoClient}
         /\ call[c].attempt \in 0 .. MaxRetries /\ call[c].attempt \in Int
<1>1. call[c] \in Calls
  BY DEF Types
<1>2. call[c].attempt \in 0 .. MaxRetries
  BY <1>1, Fields, IdleCall
<1>3. call[c].attempt \in Int
  BY <1>2
<1> QED
  BY <1>1, <1>2, <1>3, Fields, IdleCall

\* What a call's task does to the record of its call.
LEMMA Moves ==
  ASSUME Types, NEW c \in Callers
  PROVE  /\ \A p \in AllPCs :
              goes(c, p) => Moved(c, p, call[c].proc, call[c].attempt)
         /\ \A p \in AllPCs, n \in 0 .. MaxRetries :
              call' = [call EXCEPT ![c].pc = p, ![c].attempt = n]
                => Moved(c, p, call[c].proc, n)
         /\ \A n \in 0 .. MaxRetries :
              call' = [call EXCEPT ![c].attempt = n]
                => Moved(c, call[c].pc, call[c].proc, n)
         /\ \A p \in AllPCs, q \in Procs :
              call' = [call EXCEPT ![c].pc = p, ![c].proc = q]
                => Moved(c, p, q, call[c].attempt)
         /\ \A p \in AllPCs, b \in BOOLEAN :
              call' = [call EXCEPT ![c].pc = p, ![c].force = b]
                => Moved(c, p, call[c].proc, call[c].attempt)
         /\ \A p \in AllPCs, q \in Procs :
              call' = [call EXCEPT ![c].pc = p, ![c].url = q]
                => Moved(c, p, call[c].proc, call[c].attempt) /\ call'[c].url = q
         /\ \A p \in AllPCs, k \in Clients \union {NoClient} :
              call' = [call EXCEPT ![c].pc = p, ![c].client = k]
                => Moved(c, p, call[c].proc, call[c].attempt) /\ call'[c].client = k
         /\ returns(c) => Moved(c, "idle", 0, 0)
<1>1. call[c] \in Calls /\ call \in [Callers -> Calls]
  BY DEF Types
<1>2. ASSUME NEW p \in AllPCs, goes(c, p)
      PROVE  Moved(c, p, call[c].proc, call[c].attempt)
  <2> DEFINE r == [call[c] EXCEPT !.pc = p]
  <2>1. r \in Calls
    BY <1>1, Fields, IdleCall
  <2>2. r.pc = p /\ r.proc = call[c].proc /\ r.attempt = call[c].attempt
    BY <1>1 DEF Calls
  <2>3. call' = [call EXCEPT ![c] = r]
    BY <1>1, <1>2 DEF goes
  <2> HIDE DEF r
  <2>4. Moved(c, r.pc, r.proc, r.attempt)
    BY <2>1, <2>3, Becomes
  <2> QED
    BY <2>2, <2>4
<1>3. ASSUME NEW p \in AllPCs, NEW n \in 0 .. MaxRetries,
             call' = [call EXCEPT ![c].pc = p, ![c].attempt = n]
      PROVE  Moved(c, p, call[c].proc, n)
  <2> DEFINE r == [call[c] EXCEPT !.pc = p, !.attempt = n]
  <2>1. r \in Calls
    BY <1>1, Fields, IdleCall
  <2>2. r.pc = p /\ r.proc = call[c].proc /\ r.attempt = n
    BY <1>1 DEF Calls
  <2>3. call' = [call EXCEPT ![c] = r]
    BY <1>1, <1>3
  <2> HIDE DEF r
  <2>4. Moved(c, r.pc, r.proc, r.attempt)
    BY <2>1, <2>3, Becomes
  <2> QED
    BY <2>2, <2>4
<1>4. ASSUME NEW n \in 0 .. MaxRetries, call' = [call EXCEPT ![c].attempt = n]
      PROVE  Moved(c, call[c].pc, call[c].proc, n)
  <2> DEFINE r == [call[c] EXCEPT !.attempt = n]
  <2>1. r \in Calls
    BY <1>1, Fields, IdleCall
  <2>2. r.pc = call[c].pc /\ r.proc = call[c].proc /\ r.attempt = n
    BY <1>1 DEF Calls
  <2>3. call' = [call EXCEPT ![c] = r]
    BY <1>1, <1>4
  <2> HIDE DEF r
  <2>4. Moved(c, r.pc, r.proc, r.attempt)
    BY <2>1, <2>3, Becomes
  <2> QED
    BY <2>2, <2>4
<1>5. ASSUME NEW p \in AllPCs, NEW q \in Procs,
             call' = [call EXCEPT ![c].pc = p, ![c].proc = q]
      PROVE  Moved(c, p, q, call[c].attempt)
  <2> DEFINE r == [call[c] EXCEPT !.pc = p, !.proc = q]
  <2>1. r \in Calls
    BY <1>1, Fields, IdleCall
  <2>2. r.pc = p /\ r.proc = q /\ r.attempt = call[c].attempt
    BY <1>1 DEF Calls
  <2>3. call' = [call EXCEPT ![c] = r]
    BY <1>1, <1>5
  <2> HIDE DEF r
  <2>4. Moved(c, r.pc, r.proc, r.attempt)
    BY <2>1, <2>3, Becomes
  <2> QED
    BY <2>2, <2>4
<1>6. ASSUME NEW p \in AllPCs, NEW b \in BOOLEAN,
             call' = [call EXCEPT ![c].pc = p, ![c].force = b]
      PROVE  Moved(c, p, call[c].proc, call[c].attempt)
  <2> DEFINE r == [call[c] EXCEPT !.pc = p, !.force = b]
  <2>1. r \in Calls
    BY <1>1, Fields, IdleCall
  <2>2. r.pc = p /\ r.proc = call[c].proc /\ r.attempt = call[c].attempt
    BY <1>1 DEF Calls
  <2>3. call' = [call EXCEPT ![c] = r]
    BY <1>1, <1>6
  <2> HIDE DEF r
  <2>4. Moved(c, r.pc, r.proc, r.attempt)
    BY <2>1, <2>3, Becomes
  <2> QED
    BY <2>2, <2>4
<1>7. ASSUME returns(c) PROVE Moved(c, "idle", 0, 0)
  BY <1>7, Becomes, IdleCall DEF returns
<1>8. ASSUME NEW p \in AllPCs, NEW q \in Procs,
             call' = [call EXCEPT ![c].pc = p, ![c].url = q]
      PROVE  Moved(c, p, call[c].proc, call[c].attempt) /\ call'[c].url = q
  <2> DEFINE r == [call[c] EXCEPT !.pc = p, !.url = q]
  <2>1. r \in Calls
    BY <1>1, <1>8, Fields, IdleCall
  <2>2. /\ r.pc = p /\ r.proc = call[c].proc /\ r.attempt = call[c].attempt
        /\ r.url = q
    BY <1>1 DEF Calls
  <2>3. call' = [call EXCEPT ![c] = r]
    BY <1>1, <1>8
  <2> HIDE DEF r
  <2>4. Moved(c, r.pc, r.proc, r.attempt) /\ call'[c] = r
    BY <2>1, <2>3, <1>1, Becomes
  <2> QED
    BY <2>2, <2>4
<1>9. ASSUME NEW p \in AllPCs, NEW k \in Clients \union {NoClient},
             call' = [call EXCEPT ![c].pc = p, ![c].client = k]
      PROVE  Moved(c, p, call[c].proc, call[c].attempt) /\ call'[c].client = k
  <2> DEFINE r == [call[c] EXCEPT !.pc = p, !.client = k]
  <2>1. r \in Calls
    BY <1>1, <1>9, Fields, IdleCall
  <2>2. /\ r.pc = p /\ r.proc = call[c].proc /\ r.attempt = call[c].attempt
        /\ r.client = k
    BY <1>1 DEF Calls
  <2>3. call' = [call EXCEPT ![c] = r]
    BY <1>1, <1>9
  <2> HIDE DEF r
  <2>4. Moved(c, r.pc, r.proc, r.attempt) /\ call'[c] = r
    BY <2>1, <2>3, <1>1, Becomes
  <2> QED
    BY <2>2, <2>4
<1> QED
  BY <1>2, <1>3, <1>4, <1>5, <1>6, <1>7, <1>8, <1>9

\* The client connect() makes is one that was not there before.
LEMMA MadeClient ==
  ASSUME Types, NEW c \in Callers, ClientMade(c)
  PROVE  /\ client' \in Clients /\ client' # NoClient
         /\ client'.id = clients + 1 /\ client'.proc = call[c].url
         /\ clients' = clients + 1 /\ clients \in Nat
<1>1. /\ clients' = clients + 1 /\ client' = [id |-> clients + 1, proc |-> call[c].url]
      /\ call[c].url \in running
  BY DEF ClientMade
<1>2. clients \in Nat /\ call[c].url \in Procs \ {0}
  BY <1>1 DEF Types
<1>3. clients + 1 \in Nat \ {0}
  BY <1>2
<1>4. client' \in Clients
  BY <1>1, <1>2, <1>3 DEF Clients
<1> QED
  BY <1>1, <1>2, <1>4, IdleCall

\* Where each step of a call leads.
LEMMA Goes ==
  ASSUME Types, NEW c \in Callers
  PROVE  LET stays(p) == Moved(c, p, call[c].proc, call[c].attempt)
             ends     == Moved(c, "idle", 0, 0)
         IN  /\ Start(c) => stays("launching") \/ stays("lock")
             /\ Start(c) /\ cdp_url # 0 => stays("lock")
             /\ StartUnheard(c) \/ StartTimesOut(c) \/ SpawnFails(c)
                  \/ CdpNeverReady(c) \/ VersionFails(c) \/ Connected(c)
                  \/ Undone(c) \/ Stopped(c) => ends \/ call' = call
             /\ StartTimesOut(c) \/ SpawnFails(c)
                  \/ CdpNeverReady(c) \/ VersionFails(c) \/ Connected(c)
                  \/ Undone(c) \/ Stopped(c) => ends
             /\ StartUnheard(c) => call' = call
             /\ \A force \in BOOLEAN : Stop(c, force) =>
                  IF handlers THEN stays("saving") ELSE stays("last")
             /\ LaunchBegins(c) => Moved(c, "spawn", call[c].proc, 1)
             /\ ProfileInUse(c) =>
                  IF call[c].attempt < MaxRetries
                  THEN Moved(c, "spawn", call[c].proc, call[c].attempt + 1)
                  ELSE ends
             /\ Spawned(c) => /\ launches + 1 \in Procs \ {0}
                              /\ Moved(c, "wait_cdp", launches + 1, call[c].attempt)
             /\ CdpReady(c) => stays("launched")
             /\ LaunchReturns(c) => stays("lock")
             /\ TakeLock(c) => IF client = NoClient /\ cdp_url # 0
                               THEN stays("version") /\ call'[c].url = cdp_url ELSE ends
             /\ ClientMade(c) => stays("handshake") /\ call'[c].client = client'
             /\ ClientOpened(c) => stays("connecting")
             /\ ConnectFails(c) => IF client = NoClient THEN ends
                                   ELSE stays("undoing") /\ call'[c].client = client
             /\ StateSaved(c) => stays("killer") \/ stays("closing")
             /\ SessionReset(c) => stays("killer")
             /\ KillRequested(c) => IF subprocess # 0
                                    THEN Moved(c, "killing", subprocess, call[c].attempt)
                                    ELSE stays("last")
             /\ Killed(c) => stays("last")
             /\ LastReset(c) => IF client = NoClient THEN ends ELSE stays("closing_last")
<1> USE DEF at
<1>p. {"idle", "launching", "spawn", "wait_cdp", "launched", "lock", "version",
       "handshake", "connecting", "undoing", "saving", "closing", "killer", "killing", "last",
       "closing_last"} \subseteq AllPCs
  BY DEF AllPCs, Starting, Launchings, Connectings, Stopping
<1>t. /\ call[c].attempt \in 0 .. MaxRetries /\ subprocess \in Procs
      /\ launches \in Nat /\ call[c] \in Calls /\ cdp_url \in Procs
      /\ client \in Clients \union {NoClient}
  <2>1. /\ call[c] \in Calls /\ subprocess \in Procs /\ launches \in Procs
        /\ cdp_url \in Procs /\ client \in Clients \union {NoClient}
    BY DEF Types
  <2>2. call[c].attempt \in 0 .. MaxRetries
    BY <2>1, Fields, IdleCall
  <2> QED
    BY <2>1, <2>2 DEF Procs
<1>a. /\ 1 \in 0 .. MaxRetries
      /\ call[c].attempt < MaxRetries => call[c].attempt + 1 \in 0 .. MaxRetries
  BY <1>t, LifecycleAssumption
<1>1. Start(c) => IF cdp_url = 0 THEN goes(c, "launching") ELSE goes(c, "lock")
  BY DEF Start
<1>2. /\ StartTimesOut(c) \/ SpawnFails(c) \/ CdpNeverReady(c) => returns(c)
      /\ VersionFails(c) \/ Connected(c) \/ Undone(c) \/ Stopped(c) => returns(c)
      /\ StartUnheard(c) => call' = call
  BY DEF StartTimesOut, SpawnFails, CdpNeverReady, launch_fails, VersionFails,
     Connected, Undone, Stopped, fresh_bus, StartUnheard
<1>3. ASSUME NEW force \in BOOLEAN, Stop(c, force)
      PROVE  LET p == IF handlers THEN "saving" ELSE "last"
             IN  Moved(c, p, call[c].proc, call[c].attempt)
  <2> DEFINE p == IF handlers THEN "saving" ELSE "last"
  <2>1. call' = [call EXCEPT ![c].pc = p, ![c].force = force] /\ p \in AllPCs
    BY <1>3, <1>p DEF Stop
  <2> HIDE DEF p
  <2>2. Moved(c, p, call[c].proc, call[c].attempt)
    BY <2>1, Moves
  <2> QED
    BY <2>2 DEF p
<1>4. LaunchBegins(c) => Moved(c, "spawn", call[c].proc, 1)
  BY <1>a, <1>p, Moves DEF LaunchBegins
<1>5. ASSUME ProfileInUse(c), call[c].attempt < MaxRetries
      PROVE  Moved(c, "spawn", call[c].proc, call[c].attempt + 1)
  <2>1. call' = [call EXCEPT ![c].attempt = call[c].attempt + 1] /\ call[c].pc = "spawn"
    BY <1>5, <1>t DEF ProfileInUse, Types
  <2> DEFINE n == call[c].attempt + 1
  <2>2. call' = [call EXCEPT ![c].attempt = n] /\ n \in 0 .. MaxRetries
    BY <2>1, <1>5, <1>a
  <2> HIDE DEF n
  <2>3. Moved(c, call[c].pc, call[c].proc, n)
    BY <2>2, Moves
  <2> QED
    BY <2>1, <2>3 DEF n
<1>6. ASSUME ProfileInUse(c), ~(call[c].attempt < MaxRetries) PROVE returns(c)
  BY <1>6 DEF ProfileInUse, launch_fails
<1>7. ASSUME Spawned(c)
      PROVE  /\ launches + 1 \in Procs \ {0}
             /\ Moved(c, "wait_cdp", launches + 1, call[c].attempt)
  <2>1. launches + 1 \in Procs \ {0}
    BY <1>7, <1>t, LifecycleAssumption DEF Spawned, Procs
  <2>2. call' = [call EXCEPT ![c].pc = "wait_cdp", ![c].proc = launches + 1]
    BY <1>7 DEF Spawned
  <2> QED
    BY <2>1, <2>2, <1>p, Moves
<1>8. /\ CdpReady(c) => goes(c, "launched")
      /\ LaunchReturns(c) => goes(c, "lock")
      /\ ClientOpened(c) => goes(c, "connecting")
  BY DEF CdpReady, LaunchReturns, ClientOpened
<1>l. TakeLock(c) => IF client = NoClient /\ cdp_url # 0
                     THEN call' = [call EXCEPT ![c].pc = "version", ![c].url = cdp_url]
                     ELSE returns(c)
  BY DEF TakeLock, connects, connects_not
<1>f. ConnectFails(c) => IF client = NoClient THEN returns(c)
        ELSE call' = [call EXCEPT ![c].pc = "undoing", ![c].client = client]
  BY DEF ConnectFails
<1>m. ClientMade(c) => /\ call' = [call EXCEPT ![c].pc = "handshake", ![c].client = client']
                       /\ client' \in Clients
  BY MadeClient DEF ClientMade
<1>9. /\ StateSaved(c) => goes(c, "killer") \/ closes(c, "closing")
      /\ SessionReset(c) => goes(c, "killer")
      /\ Killed(c) => goes(c, "last")
      /\ LastReset(c) => IF client = NoClient THEN returns(c) ELSE closes(c, "closing_last")
  BY DEF StateSaved, SessionReset, Killed, LastReset, fresh_bus, closes
<1>c. \A p \in AllPCs : closes(c, p) => Moved(c, p, call[c].proc, call[c].attempt)
  BY <1>t, Moves DEF closes
<1>10. ASSUME KillRequested(c)
       PROVE  IF subprocess # 0 THEN Moved(c, "killing", subprocess, call[c].attempt)
                                ELSE Moved(c, "last", call[c].proc, call[c].attempt)
  <2>1. IF subprocess # 0
        THEN call' = [call EXCEPT ![c].pc = "killing", ![c].proc = subprocess]
        ELSE goes(c, "last")
    BY <1>10 DEF KillRequested
  <2> QED
    BY <2>1, <1>p, <1>t, Moves
<1> HIDE DEF at
<1>11. /\ TakeLock(c) => IF client = NoClient /\ cdp_url # 0
                         THEN /\ Moved(c, "version", call[c].proc, call[c].attempt)
                              /\ call'[c].url = cdp_url
                         ELSE Moved(c, "idle", 0, 0)
       /\ ClientMade(c) => /\ Moved(c, "handshake", call[c].proc, call[c].attempt)
                           /\ call'[c].client = client'
       /\ ConnectFails(c) => IF client = NoClient THEN Moved(c, "idle", 0, 0)
                             ELSE /\ Moved(c, "undoing", call[c].proc, call[c].attempt)
                                  /\ call'[c].client = client
  BY <1>l, <1>f, <1>m, <1>p, <1>t, Moves
<1>12. /\ StateSaved(c) => \/ Moved(c, "killer", call[c].proc, call[c].attempt)
                           \/ Moved(c, "closing", call[c].proc, call[c].attempt)
       /\ LastReset(c) => IF client = NoClient THEN Moved(c, "idle", 0, 0)
                          ELSE Moved(c, "closing_last", call[c].proc, call[c].attempt)
  BY <1>9, <1>c, <1>p, Moves
<1> QED
  BY <1>1, <1>2, <1>3, <1>4, <1>5, <1>6, <1>7, <1>8, <1>9, <1>10, <1>11, <1>12, <1>p,
     Moves DEF handlers

\* Every step of a call leaves the other calls alone.
LEMMA Others ==
  ASSUME Types, NEW c \in Callers,
         \/ Progress(c) \/ Start(c) \/ StartUnheard(c) \/ StartTimesOut(c)
         \/ \E force \in BOOLEAN : Stop(c, force)
  PROVE  /\ call' \in [Callers -> Calls]
         /\ \A d \in Callers \ {c} : call'[d] = call[d]
<1>1. call \in [Callers -> Calls]
  BY DEF Types
<1> QED
  BY <1>1, Goes DEF Progress, Launching, Connecting, Ending, Moved

\* Every step keeps the types.
LEMMA TypeStep == Types /\ [Next]_vars => Types'
<1> SUFFICES ASSUME Types, [Next]_vars PROVE Types'
  OBVIOUS
<1>1. ASSUME NEW c \in Callers, Progress(c) PROVE Types'
  <2>0. call' \in [Callers -> Calls] /\ call[c].proc \in Procs /\ 0 \in Procs
    BY <1>1, Others, Fields, IdleCall DEF Types
  <2>1. CASE Launching(c)
    <3>1. /\ UNCHANGED <<event_bus, connection, lock, ghosts>>
          /\ cdp_url' \in {cdp_url, call[c].proc}
          /\ subprocess' \in {subprocess, call[c].proc}
      BY <2>1 DEF Launching, LaunchBegins, ProfileInUse, SpawnFails, Spawned, CdpReady,
         CdpNeverReady, LaunchReturns, session, connection, watchdog, ghosts
    <3>2. launches' \in Procs /\ running' \subseteq Procs \ {0}
      <4>1. CASE Spawned(c)
        <5>1. /\ launches' = launches + 1 /\ running' = running \union {launches + 1}
              /\ launches + 1 \in Procs \ {0}
          BY <4>1, Goes DEF Spawned
        <5> QED
          BY <5>1 DEF Types
      <4>2. CASE ~Spawned(c)
        <5>1. UNCHANGED <<launches, running>>
          BY <2>1, <4>2 DEF Launching, LaunchBegins, ProfileInUse, SpawnFails, CdpReady,
             CdpNeverReady, LaunchReturns, system
        <5> QED
          BY <5>1 DEF Types
      <4> QED
        BY <4>1, <4>2
    <3> QED
      BY <2>0, <3>1, <3>2 DEF Types, ghosts, connection
  <2>2. CASE Connecting(c)
    <3>1. /\ UNCHANGED <<event_bus, unclosed, subprocess, launches, running, ghosts>>
          /\ cdp_url' \in {cdp_url, call[c].url} /\ lock' \in {lock, c, Nobody}
      BY <2>2 DEF Connecting, TakeLock, connects, connects_not, VersionFails, ClientMade,
         ClientOpened, Connected, ConnectFails, Undone, connection, watchdog, system, ghosts
    <3>2. sockets' \subseteq Clients
      <4>1. CASE ClientOpened(c)
        <5>1. call[c].client \in Clients \union {NoClient} /\ call[c].client.proc # 0
          BY <4>1, <1>1, CallFields DEF ClientOpened, Types
        <5> QED
          BY <4>1, <5>1 DEF ClientOpened, Types, NoClient
      <4>2. CASE ~ClientOpened(c)
        <5>1. sockets' \subseteq sockets
          BY <2>2, <4>2 DEF Connecting, TakeLock, VersionFails, ClientMade,
             Connected, ConnectFails, Undone, connection
        <5> QED
          BY <5>1 DEF Types
      <4> QED
        BY <4>1, <4>2
    <3>3. client' \in Clients \union {NoClient} /\ clients' \in Nat
      <4>1. CASE ClientMade(c)
        BY <4>1, MadeClient
      <4>2. CASE ~ClientMade(c)
        <5>1. client' \in {client, NoClient} /\ clients' = clients
          BY <2>2, <4>2 DEF Connecting, TakeLock, VersionFails, ClientOpened,
             Connected, ConnectFails, Undone, connection
        <5> QED
          BY <5>1 DEF Types
      <4> QED
        BY <4>1, <4>2
    <3>4. call[c].url \in Procs
      BY CallFields
    <3> QED
      BY <2>0, <3>1, <3>2, <3>3, <3>4 DEF Types, ghosts
  <2>3. CASE Ending(c)
    <3>1. /\ UNCHANGED <<lock, launches, clients, ghosts>>
          /\ event_bus' \in {event_bus, event_bus + 1}
          /\ cdp_url' \in {0, cdp_url} /\ client' \in {NoClient, client}
          /\ sockets' \subseteq sockets /\ unclosed' \subseteq unclosed \union ({client} \ {NoClient})
          /\ subprocess' \in {0, subprocess} /\ running' \subseteq running
      BY <2>3 DEF Ending, StateSaved, SessionReset, KillRequested, Killed, exits, LastReset,
         Stopped, closes, reset_ends, fresh_bus, session, connection, watchdog, system, ghosts
    <3>2. event_bus' \in Nat
      BY <3>1 DEF Types
    <3>3. running' \subseteq Procs \ {0} /\ sockets' \subseteq Clients
          /\ unclosed' \subseteq Clients
      BY <3>1 DEF Types
    <3> QED
      BY <2>0, <3>1, <3>2, <3>3 DEF Types, ghosts
  <2> QED
    BY <1>1, <2>1, <2>2, <2>3 DEF Progress
<1>2. ASSUME NEW c \in Callers,
             \/ Start(c) \/ StartUnheard(c) \/ \E force \in BOOLEAN : Stop(c, force)
      PROVE  Types'
  <2>1. UNCHANGED <<session, subprocess, launches, running, cut>> /\ called(c)
    BY <1>2 DEF Start, StartUnheard, Stop, watchdog, system
  <2>2. calls' \in 0 .. MaxCalls /\ overlapped' \in BOOLEAN
    BY <2>1, LifecycleAssumption DEF called, Types
  <2> QED
    BY <1>2, <2>1, <2>2, Others DEF Types, session
<1>3. ASSUME NEW c \in Callers, StartTimesOut(c) PROVE Types'
  <2>1. call' \in [Callers -> Calls]
    BY <1>3, Others
  <2>2. sockets' \subseteq sockets
    BY <1>3 DEF StartTimesOut
  <2> QED
    BY <1>3, <2>1, <2>2 DEF StartTimesOut, Types, watchdog, system
<1>4. CASE \E p \in running : BrowserExits(p)
  <2>1. sockets' \subseteq sockets /\ running' \subseteq running
    BY <1>4 DEF BrowserExits, exits
  <2> QED
    BY <1>4, <2>1 DEF BrowserExits, watchdog, ghosts, Types
<1>5. CASE UNCHANGED vars
  BY <1>5 DEF vars, session, watchdog, system, ghosts, Types
<1> QED
  BY <1>1, <1>2, <1>3, <1>4, <1>5 DEF Next

\* Every step keeps the lock with the call that connects, and its client known.
LEMMA HeldStep == IInv /\ [Next]_vars => Held' /\ OneWebsocket'
<1> SUFFICES ASSUME IInv, [Next]_vars PROVE Held' /\ OneWebsocket'
  OBVIOUS
<1>t. Types /\ Held /\ OneWebsocket /\ clients \in Nat
  BY DEF IInv, Types
<1>n. NoClient \notin sockets
  BY <1>t, IdleCall DEF Types
<1> USE Goes DEF Moved, at, handlers
\* A step that leaves the connection alone, or closes some of the websockets.
<1>k. ASSUME NEW c \in Callers, UNCHANGED <<client, clients, unclosed, lock>>,
             sockets' \subseteq sockets, call'[c].pc \notin Connectings,
             \A d \in Callers \ {c} : call'[d] = call[d]
      PROVE  Held' /\ OneWebsocket'
  BY <1>k, <1>t DEF Held, OneWebsocket, Connectings
\* A step of the call that holds the lock.
<1>h. ASSUME NEW c \in Callers, lock = c,
             \A d \in Callers \ {c} : call'[d] = call[d],
             lock' = c \/ call'[c].pc \notin Connectings,
             call'[c].pc \notin {"version", "handshake", "undoing"},
             \A s \in sockets' : s.id <= clients'
      PROVE  Held'
  <2>1. \A d \in Callers \ {c} : call'[d].pc \notin Connectings
    BY <1>h, <1>t DEF Held
  <2> QED
    BY <1>h, <2>1 DEF Held, Connectings
<1>1. ASSUME NEW c \in Callers, Launching(c) PROVE Held' /\ OneWebsocket'
  <2>1. UNCHANGED <<client, clients, unclosed, sockets, lock>>
    BY <1>1 DEF Launching, LaunchBegins, ProfileInUse, SpawnFails, Spawned, CdpReady,
       CdpNeverReady, LaunchReturns, session, connection
  <2>2. \A d \in Callers \ {c} : call'[d] = call[d]
    BY <1>1, <1>t, Others DEF Progress
  <2>3. call'[c].pc \in {"spawn", "wait_cdp", "launched", "lock", "idle"}
    BY <1>1, <1>t DEF Launching, LaunchBegins, ProfileInUse, SpawnFails, Spawned,
       CdpReady, CdpNeverReady, LaunchReturns, launch_fails
  <2>4. call'[c].pc \notin Connectings
    BY <2>3 DEF Connectings
  <2> QED
    BY <1>k, <2>1, <2>2, <2>4
<1>2. ASSUME NEW c \in Callers, Connecting(c) PROVE Held' /\ OneWebsocket'
  <2>0. \A d \in Callers \ {c} : call'[d] = call[d]
    BY <1>2, <1>t, Others DEF Progress
  <2>1. CASE TakeLock(c)
    <3>1. \A d \in Callers : call[d].pc \notin Connectings
      BY <1>t, <2>1, LifecycleAssumption DEF TakeLock, Held
    <3>2. UNCHANGED <<client, clients, unclosed, sockets>>
      BY <2>1 DEF TakeLock, connection
    <3>3. CASE connects(c)
      <4>1. client = NoClient /\ lock' = c /\ call'[c].pc = "version"
        BY <2>1, <3>3, <1>t DEF connects
      <4>2. \A d \in Callers \ {c} : call'[d].pc \notin Connectings
        BY <2>0, <3>1
      <4> QED
        BY <3>2, <4>1, <4>2, <1>t DEF Held, OneWebsocket, Connectings
    <3>4. CASE connects_not(c)
      <4>1. lock' = lock /\ call'[c].pc \notin Connectings
        BY <3>4, <1>t, Moves DEF connects_not, Connectings
      <4> QED
        BY <2>0, <3>2, <4>1, <1>k
    <3> QED
      BY <2>1, <3>3, <3>4 DEF TakeLock
  <2>2. CASE ClientMade(c)
    <3>1. lock = c /\ client = NoClient /\ UNCHANGED <<lock, sockets, unclosed>>
      BY <2>2, <1>t DEF ClientMade, Held, Connectings
    <3>2. call'[c].pc = "handshake" /\ call'[c].client = client'
      BY <2>2, <1>t
    <3>3. client' # NoClient /\ client'.id = clients + 1 /\ clients' = clients + 1
      BY <2>2, <1>t, MadeClient
    <3>4. \A d \in Callers \ {c} : call'[d].pc \notin Connectings
      BY <2>0, <3>1, <1>t DEF Held
    <3>5. \A s \in sockets : s.id <= clients /\ s.id \in Nat
      BY <1>t DEF Held, Types, Clients
    <3>6. client' \notin sockets
      BY <3>3, <3>5, <1>t
    <3>7. \A s \in sockets' : s.id <= clients'
      BY <3>1, <3>3, <3>5, <1>t
    <3>8. client'.id <= clients'
      BY <3>3, <1>t
    <3>9. OneWebsocket'
      BY <3>1, <1>t, <1>n DEF OneWebsocket
    <3> QED
      BY <3>1, <3>2, <3>4, <3>6, <3>7, <3>8, <3>9 DEF Held, Connectings
  <2>3. CASE ClientOpened(c)
    <3>1. lock = c /\ UNCHANGED <<lock, client, clients, unclosed>>
          /\ sockets' = sockets \union {call[c].client} /\ call[c].pc = "handshake"
      BY <2>3, <1>t DEF ClientOpened, Held, Connectings
    <3>2. call'[c].pc = "connecting"
      BY <2>3, <1>t
    <3>3. OneWebsocket'
      BY <3>1, <1>t DEF Held, OneWebsocket
    <3>4. \A s \in sockets' : s.id <= clients'
      BY <3>1, <1>t DEF Held
    <3> QED
      BY <2>0, <3>1, <3>2, <3>3, <3>4, <1>h
  <2>4. CASE VersionFails(c) \/ Connected(c)
    <3>1. lock = c /\ UNCHANGED <<client, clients, unclosed, sockets>>
      BY <2>4, <1>t DEF VersionFails, Connected, Held, connection, Connectings
    <3>2. call'[c].pc = "idle"
      BY <2>4, <1>t
    <3>3. OneWebsocket' /\ \A s \in sockets' : s.id <= clients'
      BY <3>1, <1>t DEF Held, OneWebsocket
    <3> QED
      BY <2>0, <3>1, <3>2, <3>3, <1>h DEF Connectings
  <2>5. CASE ConnectFails(c)
    <3>1. lock = c /\ UNCHANGED <<client, clients, unclosed, sockets>>
      BY <2>5, <1>t DEF ConnectFails, Held, connection, Connectings
    <3>2. OneWebsocket' /\ \A s \in sockets' : s.id <= clients'
      BY <3>1, <1>t DEF Held, OneWebsocket
    <3>3. CASE client = NoClient
      <4>1. call'[c].pc = "idle"
        BY <2>5, <3>3, <1>t
      <4> QED
        BY <2>0, <3>1, <3>2, <4>1, <1>h DEF Connectings
    <3>4. CASE client # NoClient
      <4>1. call'[c].pc = "undoing" /\ call'[c].client = client /\ lock' = lock
        BY <2>5, <3>4, <1>t DEF ConnectFails
      <4>2. \A d \in Callers \ {c} : call'[d].pc \notin Connectings
        BY <2>0, <3>1, <1>t DEF Held
      <4> QED
        BY <3>1, <3>2, <4>1, <4>2 DEF Held, Connectings
    <3> QED
      BY <3>3, <3>4
  <2>6. CASE Undone(c)
    <3>1. lock = c /\ call[c].pc = "undoing" /\ client' = NoClient
          /\ UNCHANGED <<clients, unclosed>> /\ sockets' = sockets \ {call[c].client}
      BY <2>6, <1>t DEF Undone, Held, Connectings
    <3>2. call'[c].pc = "idle"
      BY <2>6, <1>t
    <3>3. client \in {call[c].client, NoClient}
      BY <3>1, <1>t DEF Held
    <3>4. OneWebsocket' /\ \A s \in sockets' : s.id <= clients'
      BY <3>1, <3>3, <1>t, <1>n DEF Held, OneWebsocket
    <3> QED
      BY <2>0, <3>1, <3>2, <3>4, <1>h DEF Connectings
  <2> QED
    BY <1>2, <2>1, <2>2, <2>3, <2>4, <2>5, <2>6 DEF Connecting
<1>3. ASSUME NEW c \in Callers, Ending(c) PROVE Held' /\ OneWebsocket'
  <2>0. \A d \in Callers \ {c} : call'[d] = call[d]
    BY <1>3, <1>t, Others DEF Progress
  <2>1. call'[c].pc \notin Connectings
    <3>1. call'[c].pc \in {"idle"} \union Stopping
      BY <1>3, <1>t DEF Ending, KillRequested, Stopping
    <3> QED
      BY <3>1 DEF Stopping, Connectings
  <2>2. /\ lock' = lock
        /\ \/ UNCHANGED <<client, clients, unclosed>> /\ sockets' \subseteq sockets
           \/ \E k : reset_ends(k)
    BY <1>3 DEF Ending, StateSaved, SessionReset, KillRequested, Killed, exits,
       LastReset, Stopped, closes, session, connection
  <2>3. CASE UNCHANGED <<client, clients, unclosed>> /\ sockets' \subseteq sockets
    BY <1>k, <2>0, <2>1, <2>2, <2>3
  <2>4. ASSUME NEW k, reset_ends(k) PROVE Held' /\ OneWebsocket'
    <3>1. /\ client' = NoClient /\ clients' = clients /\ sockets' = sockets \ {k}
          /\ unclosed \subseteq unclosed'
          /\ (client \in sockets /\ k = client) \/ client \in unclosed' \union {NoClient}
      BY <2>4 DEF reset_ends
    <3>2. OneWebsocket'
      BY <3>1, <1>t, <1>n DEF OneWebsocket
    <3>3. ASSUME NEW d \in Callers, call'[d].pc = "handshake"
          PROVE  /\ call'[d].client \in {client'} \union unclosed'
                 /\ call'[d].client \notin sockets' /\ call'[d].client.id <= clients'
      <4>1. call'[d] = call[d]
        BY <2>0, <2>1, <3>3 DEF Connectings
      <4> QED
        BY <3>1, <3>3, <4>1, <1>t DEF Held
    <3> QED
      BY <2>0, <2>1, <2>2, <3>1, <3>2, <3>3, <1>t DEF Held, Connectings
  <2> QED
    BY <2>2, <2>3, <2>4
<1>4. ASSUME NEW c \in Callers, StartTimesOut(c) PROVE Held' /\ OneWebsocket'
  <2>1. /\ \A d \in Callers \ {c} : call'[d] = call[d]
        /\ UNCHANGED <<client, clients, unclosed>> /\ sockets' \subseteq sockets
        /\ lock' = IF lock = c THEN Nobody ELSE lock
    BY <1>4, <1>t, Others DEF StartTimesOut
  <2>2. call'[c].pc = "idle"
    BY <1>4, <1>t
  <2>3. CASE lock # c
    BY <2>1, <2>2, <2>3, <1>k DEF Connectings
  <2>4. CASE lock = c
    <3>1. OneWebsocket' /\ \A s \in sockets' : s.id <= clients'
      BY <2>1, <1>t DEF Held, OneWebsocket
    <3> QED
      BY <2>1, <2>2, <2>4, <3>1, <1>h DEF Connectings
  <2> QED
    BY <2>3, <2>4
<1>5. ASSUME NEW c \in Callers,
             Start(c) \/ StartUnheard(c) \/ \E force \in BOOLEAN : Stop(c, force)
      PROVE  Held' /\ OneWebsocket'
  <2>1. \A d \in Callers \ {c} : call'[d] = call[d]
    BY <1>5, <1>t, Others
  <2>2. call'[c].pc \in {"idle", "launching", "lock", "saving", "last"}
    BY <1>5, <1>t DEF Start, StartUnheard, Stop, called
  <2>3. call'[c].pc \notin Connectings
    BY <2>2 DEF Connectings
  <2>4. UNCHANGED <<client, clients, unclosed, sockets, lock>>
    BY <1>5 DEF Start, StartUnheard, Stop, session, connection
  <2> QED
    BY <1>k, <2>1, <2>3, <2>4
<1>6. CASE (\E p \in running : BrowserExits(p)) \/ UNCHANGED vars
  <2>1. UNCHANGED <<call, client, clients, unclosed, lock>> /\ sockets' \subseteq sockets
    BY <1>6 DEF BrowserExits, exits, vars, session
  <2> QED
    BY <2>1, <1>t DEF Held, OneWebsocket
<1> QED
  BY <1>1, <1>2, <1>3, <1>4, <1>5, <1>6 DEF Next, Progress

-----------------------------------------------------------------------------
\* What a step of a call does to the counters and to where the call stands.
LEMMA CallSteps ==
  ASSUME Types, NEW c \in Callers, Progress(c) \/ StartTimesOut(c)
  PROVE  /\ call[c].pc # "idle" /\ calls' = calls
         /\ \A d \in Callers \ {c} : call'[d] = call[d]
         /\ \/ event_bus' = event_bus
            \/ event_bus' = event_bus + 1 /\ call'[c].pc = "idle"
         /\ call'[c].pc # "launching"
         /\ call'[c].pc = "spawn" =>
              \/ call[c].pc = "launching" /\ call'[c].attempt = 1
              \/ /\ call[c].pc = "spawn" /\ ProfileInUse(c)
                 /\ call[c].attempt < MaxRetries
                 /\ call'[c].attempt = call[c].attempt + 1
<1> USE Goes DEF Moved, at, ghosts
<1>1. CASE Launching(c)
  BY <1>1 DEF Launching, LaunchBegins, ProfileInUse, SpawnFails, Spawned, CdpReady,
     CdpNeverReady, LaunchReturns, session
<1>2. CASE Connecting(c)
  BY <1>2 DEF Connecting, TakeLock, VersionFails, ClientMade, ClientOpened, Connected,
     ConnectFails, Undone
<1>3. CASE LastReset(c) \/ Stopped(c)
  <2>1. event_bus' = event_bus \/ fresh_bus(c)
    BY <1>3 DEF LastReset, Stopped
  <2>2. fresh_bus(c) => event_bus' = event_bus + 1 /\ call'[c].pc = "idle"
    BY Moves DEF fresh_bus
  <2> QED
    BY <1>3, <2>1, <2>2 DEF LastReset, Stopped
<1>4. CASE StateSaved(c) \/ SessionReset(c) \/ KillRequested(c) \/ Killed(c)
  BY <1>4 DEF StateSaved, SessionReset, KillRequested, Killed, session
<1>5. CASE StartTimesOut(c)
  BY <1>5 DEF StartTimesOut, Starting, Launchings, Connectings
<1> QED
  BY <1>1, <1>2, <1>3, <1>4, <1>5 DEF Progress, Ending

\* What the making of a call does to them.
LEMMA CallBegins ==
  ASSUME Types, NEW c \in Callers,
         Start(c) \/ StartUnheard(c) \/ \E force \in BOOLEAN : Stop(c, force)
  PROVE  /\ call[c].pc = "idle" /\ calls' = calls + 1 /\ event_bus' = event_bus
         /\ \A d \in Callers \ {c} : call'[d] = call[d]
         /\ call'[c].pc \in {"idle", "launching", "lock", "saving", "last"}
         /\ UNCHANGED <<user_data_dir, original, temp_dirs, on_disk>>
<1>1. UNCHANGED <<event_bus, user_data_dir, original, temp_dirs, on_disk>> /\ called(c)
  BY DEF Start, StartUnheard, Stop, session, watchdog, system
<1> QED
  BY <1>1, Goes DEF Moved, called, at

\* A step after which calls are still alone: what the call was alone with before.
LEMMA StillAlone ==
  ASSUME IInv, [Next]_vars, ~overlapped', ~cut'
  PROVE  /\ ~overlapped /\ ~cut
         /\ \A c \in Callers : ~StartTimesOut(c)
         /\ \A c \in Callers :
              \/ Progress(c) \/ Start(c) \/ StartUnheard(c)
              \/ \E force \in BOOLEAN : Stop(c, force)
              => \A d \in Callers \ {c} : call[d].pc = "idle" /\ call'[d].pc = "idle"
<1>t. Types /\ Sequential
  BY DEF IInv
<1>1. \A c \in Callers : ~StartTimesOut(c)
  BY DEF StartTimesOut
<1>2. ~overlapped /\ ~cut
  <2>1. ASSUME NEW c \in Callers, Progress(c) PROVE UNCHANGED ghosts
    BY <2>1 DEF Progress, Launching, Connecting, Ending, LaunchBegins, ProfileInUse,
       SpawnFails, Spawned, CdpReady, CdpNeverReady, LaunchReturns, TakeLock,
       VersionFails, ClientMade, ClientOpened, Connected, ConnectFails, Undone, StateSaved, SessionReset,
       KillRequested, Killed, LastReset, Stopped
  <2>2. ASSUME NEW c \in Callers,
               Start(c) \/ StartUnheard(c) \/ \E force \in BOOLEAN : Stop(c, force)
        PROVE  cut' = cut /\ (overlapped => overlapped')
    <3>1. cut' = cut /\ overlapped' = (overlapped \/ in_progress # {})
      BY <2>2 DEF Start, StartUnheard, Stop, called
    <3> QED
      BY <3>1, Zenon
  <2>3. CASE (\E p \in running : BrowserExits(p)) \/ UNCHANGED vars
    BY <2>3 DEF BrowserExits, ghosts, vars
  <2> QED
    BY <1>1, <2>1, <2>2, <2>3 DEF Next, ghosts
<1>3. ASSUME NEW c \in Callers, Progress(c)
      PROVE  \A d \in Callers \ {c} : call[d].pc = "idle" /\ call'[d].pc = "idle"
  BY <1>3, <1>2, <1>t, CallSteps DEF Sequential
<1>4. ASSUME NEW c \in Callers,
             Start(c) \/ StartUnheard(c) \/ \E force \in BOOLEAN : Stop(c, force)
      PROVE  \A d \in Callers \ {c} : call[d].pc = "idle" /\ call'[d].pc = "idle"
  <2>1. in_progress = {}
    <3>1. overlapped' = (overlapped \/ in_progress # {})
      BY <1>4 DEF Start, StartUnheard, Stop, called
    <3> QED
      BY <3>1, Zenon
  <2> QED
    BY <1>4, <1>t, <2>1, CallBegins DEF in_progress, at
<1> QED
  BY <1>1, <1>2, <1>3, <1>4

\* Sequential, of calls that are alone.
LEMMA SequentialStep == IInv /\ [Next]_vars => Sequential'
<1> SUFFICES ASSUME IInv, [Next]_vars, ~overlapped', ~cut' PROVE Sequential'
  BY DEF Sequential
<1>t. Types /\ Types' /\ Held /\ OneWebsocket /\ Sequential
  BY TypeStep DEF IInv
<1> USE Goes DEF Moved, at, handlers
<1>o. ~overlapped /\ ~cut
  BY StillAlone
\* A call that is alone, with what it leaves behind.
<1>a. ASSUME NEW c \in Callers,
             \A d \in Callers \ {c} : call[d].pc = "idle",
             \A d \in Callers \ {c} : call'[d] = call[d],
             client' # NoClient => client'.proc = cdp_url',
             call'[c].pc = "version" => call'[c].url = cdp_url',
             call'[c].pc \in {"launching", "spawn", "wait_cdp", "launched"} => cdp_url' = 0,
             call'[c].pc = "launched" => call'[c].proc = subprocess',
             call'[c].pc \notin {"last", "closing_last"} /\ cdp_url' # 0 => cdp_url' = subprocess'
      PROVE  Sequential'
  BY <1>a DEF Sequential
<1>1. ASSUME NEW c \in Callers, Progress(c) PROVE Sequential'
  <2>0. /\ \A d \in Callers \ {c} : call'[d] = call[d]
        /\ call[c].pc # "idle"
    BY <1>1, <1>t, Others DEF Progress, Launching, Connecting, Ending, LaunchBegins,
       ProfileInUse, SpawnFails, Spawned, CdpReady, CdpNeverReady, LaunchReturns,
       TakeLock, VersionFails, ClientMade, ClientOpened, Connected, ConnectFails, Undone, StateSaved,
       SessionReset, KillRequested, Killed, LastReset, Stopped
  <2>1. \A d \in Callers \ {c} : call[d].pc = "idle"
    BY <1>o, <1>t, <2>0 DEF Sequential
  <2>2. /\ client # NoClient => client.proc = cdp_url
        /\ call[c].pc = "version" => call[c].url = cdp_url
        /\ call[c].pc \in {"launching", "spawn", "wait_cdp", "launched"} => cdp_url = 0
        /\ call[c].pc = "launched" => call[c].proc = subprocess
        /\ call[c].pc \notin {"last", "closing_last"} /\ cdp_url # 0 => cdp_url = subprocess
    BY <1>o, <1>t, <2>1 DEF Sequential
  <2>3. CASE Launching(c)
    <3>1. client' = client
      BY <2>3 DEF Launching, LaunchBegins, ProfileInUse, SpawnFails, Spawned, CdpReady,
         CdpNeverReady, LaunchReturns, session, connection
    <3>2. CASE CdpReady(c)
      <4>1. /\ call'[c].pc = "launched" /\ call'[c].proc = subprocess'
            /\ cdp_url' = cdp_url /\ call[c].pc = "wait_cdp"
        BY <3>2, <1>t DEF CdpReady, session
      <4> QED
        BY <1>a, <2>0, <2>1, <2>2, <3>1, <4>1
    <3>3. CASE LaunchReturns(c)
      <4>1. /\ call[c].pc = "launched" /\ call'[c].pc = "lock"
            /\ cdp_url' = call[c].proc /\ subprocess' = subprocess
        BY <3>3, <1>t DEF LaunchReturns, watchdog
      <4>2. client = NoClient
        BY <2>2, <4>1, <1>t DEF Types, Clients
      <4> QED
        BY <1>a, <2>0, <2>1, <2>2, <3>1, <4>1, <4>2
    <3>4. CASE \/ LaunchBegins(c) \/ ProfileInUse(c) \/ SpawnFails(c) \/ Spawned(c)
               \/ CdpNeverReady(c)
      <4>1. /\ call'[c].pc \in {"spawn", "wait_cdp", "idle"}
            /\ UNCHANGED <<cdp_url, subprocess>>
            /\ call[c].pc \in {"launching", "spawn", "wait_cdp"}
        BY <3>4, <1>t DEF LaunchBegins, ProfileInUse, SpawnFails, Spawned,
           CdpNeverReady, launch_fails, session, watchdog, Types, Calls
      <4> QED
        BY <1>a, <2>0, <2>1, <2>2, <3>1, <4>1
    <3> QED
      BY <2>3, <3>2, <3>3, <3>4 DEF Launching
  <2>4. CASE Connecting(c)
    <3>1. subprocess' = subprocess
      BY <2>4 DEF Connecting, TakeLock, VersionFails, ClientMade, ClientOpened, Connected,
         ConnectFails, Undone, watchdog
    <3>2. /\ call'[c].pc \in {"version", "handshake", "connecting", "undoing", "idle"}
          /\ call[c].pc \in {"lock", "version", "handshake", "connecting", "undoing"}
      BY <2>4, <1>t DEF Connecting, TakeLock, VersionFails, ClientMade, ClientOpened,
         Connected, ConnectFails, Undone
    <3>3. CASE ClientMade(c)
      <4>1. /\ cdp_url' = call[c].url /\ call[c].pc = "version"
            /\ call'[c].pc = "handshake" /\ client'.proc = call[c].url
        BY <3>3, <1>t, MadeClient DEF ClientMade
      <4> QED
        BY <1>a, <2>0, <2>1, <2>2, <3>1, <4>1
    <3>4. CASE ~ClientMade(c)
      <4>1. cdp_url' = cdp_url /\ client' \in {client, NoClient}
        BY <2>4, <3>4 DEF Connecting, TakeLock, VersionFails, ClientOpened, Connected,
           ConnectFails, Undone, connection
      <4>2. call'[c].pc = "version" => call'[c].url = cdp_url
        BY <2>4, <3>4, <1>t DEF Connecting
      <4> QED
        BY <1>a, <2>0, <2>1, <2>2, <3>1, <3>2, <4>1, <4>2
    <3> QED
      BY <3>3, <3>4
  <2>5. CASE Ending(c)
    <3>1. CASE \E k : reset_ends(k)
      <4>1. call'[c].pc \notin {"launched", "version"}
        <5>1. CASE StateSaved(c) \/ SessionReset(c)
          BY <5>1, <1>t DEF StateSaved, SessionReset
        <5>2. CASE KillRequested(c) \/ Killed(c)
          BY <5>2, <1>t DEF KillRequested, Killed
        <5>3. CASE LastReset(c) \/ Stopped(c)
          BY <5>3, <1>t DEF LastReset, Stopped, fresh_bus
        <5> QED
          BY <2>5, <5>1, <5>2, <5>3 DEF Ending
      <4>2. client' = NoClient /\ cdp_url' = 0
        BY <3>1 DEF reset_ends
      <4> QED
        BY <1>a, <2>0, <2>1, <4>1, <4>2
    <3>2. CASE ~\E k : reset_ends(k)
      <4>1. UNCHANGED <<client, cdp_url>>
        BY <2>5, <3>2 DEF Ending, StateSaved, SessionReset, KillRequested, Killed,
           LastReset, Stopped, closes, session, connection
      <4>2. call'[c].pc \in {"killer", "closing", "killing", "last", "closing_last"}
        <5>1. CASE StateSaved(c) \/ SessionReset(c)
          BY <5>1, <3>2, <1>t DEF StateSaved, SessionReset
        <5>2. CASE KillRequested(c) \/ Killed(c)
          BY <5>2, <1>t DEF KillRequested, Killed
        <5>3. CASE LastReset(c) \/ Stopped(c)
          BY <5>3, <3>2, <1>t DEF LastReset, Stopped, closes
        <5> QED
          BY <2>5, <5>1, <5>2, <5>3 DEF Ending
      <4>4. call'[c].pc \notin {"last", "closing_last"} =>
              subprocess' = subprocess /\ call[c].pc \notin {"last", "closing_last"}
        <5>1. CASE StateSaved(c) \/ SessionReset(c)
          BY <5>1 DEF StateSaved, SessionReset, watchdog
        <5>2. CASE KillRequested(c) \/ Killed(c)
          BY <5>2, <1>t DEF KillRequested, Killed, watchdog
        <5>3. CASE LastReset(c) \/ Stopped(c)
          BY <5>3, <3>2, <1>t DEF LastReset, Stopped, closes
        <5> QED
          BY <2>5, <5>1, <5>2, <5>3 DEF Ending
      <4> QED
        BY <1>a, <2>0, <2>1, <2>2, <4>1, <4>2, <4>4
    <3> QED
      BY <3>1, <3>2
  <2> QED
    BY <1>1, <2>3, <2>4, <2>5 DEF Progress
<1>2. ASSUME NEW c \in Callers,
             Start(c) \/ StartUnheard(c) \/ \E force \in BOOLEAN : Stop(c, force)
      PROVE  Sequential'
  <2>0. /\ \A d \in Callers \ {c} : call'[d] = call[d]
        /\ \A d \in Callers : call[d].pc = "idle"
        /\ UNCHANGED <<client, cdp_url, subprocess>>
    BY <1>2, <1>t, Others DEF Start, StartUnheard, Stop, called, in_progress,
       session, connection, watchdog
  <2>1. /\ client # NoClient => client.proc = cdp_url
        /\ cdp_url # 0 => cdp_url = subprocess
    BY <1>o, <1>t, <2>0 DEF Sequential
  <2>2. /\ call'[c].pc \in {"idle", "launching", "lock", "saving", "last"}
        /\ call'[c].pc = "launching" => cdp_url = 0
    BY <1>2, <1>t DEF Start, StartUnheard, Stop, called, Types, Calls
  <2> QED
    BY <1>a, <2>0, <2>1, <2>2
<1>3. CASE (\E p \in running : BrowserExits(p)) \/ UNCHANGED vars
  <2>1. UNCHANGED <<client, cdp_url, subprocess, call>>
    BY <1>3 DEF BrowserExits, vars, session, connection, watchdog
  <2> QED
    BY <1>o, <1>t, <2>1 DEF Sequential
<1>4. ASSUME NEW c \in Callers, StartTimesOut(c) PROVE FALSE
  BY <1>4 DEF StartTimesOut
<1> QED
  BY <1>1, <1>2, <1>3, <1>4 DEF Next

-----------------------------------------------------------------------------
\* A call begins and ends once, and a stop that ends makes one bus.
LEMMA CountedStep == IInv /\ [Next]_vars => Counted'
<1> SUFFICES ASSUME IInv, [Next]_vars PROVE Counted'
  OBVIOUS
<1>t. Types /\ Counted
  BY DEF IInv
<1>f. IsFiniteSet(in_progress) /\ Cardinality(in_progress) \in Nat
      /\ event_bus \in Nat /\ calls \in Nat
  BY <1>t, FS_CardinalityType DEF Counted, Types
<1>1. ASSUME NEW c \in Callers, Progress(c) \/ StartTimesOut(c) PROVE Counted'
  <2>1. c \in in_progress
    BY <1>1, <1>t, CallSteps DEF in_progress, at
  <2>2. CASE call'[c].pc = "idle"
    <3>1. in_progress' = in_progress \ {c}
      BY <1>1, <2>2, <1>t, CallSteps DEF in_progress, at
    <3>2. /\ IsFiniteSet(in_progress')
          /\ Cardinality(in_progress') = Cardinality(in_progress) - 1
      BY <2>1, <3>1, <1>f, FS_RemoveElement
    <3>3. event_bus' \in {event_bus, event_bus + 1} /\ calls' = calls
      BY <1>1, <1>t, CallSteps
    <3> QED
      BY <3>2, <3>3, <1>f, <1>t DEF Counted
  <2>3. CASE call'[c].pc # "idle"
    <3>1. in_progress' = in_progress /\ event_bus' = event_bus /\ calls' = calls
      BY <1>1, <2>3, <1>t, CallSteps DEF in_progress, at
    <3> QED
      BY <3>1, <1>t DEF Counted
  <2> QED
    BY <2>2, <2>3
<1>2. ASSUME NEW c \in Callers,
             Start(c) \/ StartUnheard(c) \/ \E force \in BOOLEAN : Stop(c, force)
      PROVE  Counted'
  <2>1. in_progress' = in_progress \/ in_progress' = in_progress \union {c}
    BY <1>2, <1>t, CallBegins DEF in_progress, at
  <2>2. /\ IsFiniteSet(in_progress')
        /\ Cardinality(in_progress') \in {Cardinality(in_progress), Cardinality(in_progress) + 1}
    BY <2>1, <1>f, FS_AddElement
  <2>3. event_bus' = event_bus /\ calls' = calls + 1
    BY <1>2, <1>t, CallBegins
  <2> QED
    BY <2>2, <2>3, <1>f, <1>t DEF Counted
<1>3. CASE (\E p \in running : BrowserExits(p)) \/ UNCHANGED vars
  <2>1. UNCHANGED <<call, event_bus, calls>>
    BY <1>3 DEF BrowserExits, vars, session, ghosts
  <2> QED
    BY <2>1, <1>t DEF Counted, in_progress, at
<1> QED
  BY <1>1, <1>2, <1>3 DEF Next

-----------------------------------------------------------------------------
\* A launch that may retry finds a directory not in use: the attempts of all
\* calls together are fewer than there are directories.
LEMMA FreeDirectory ==
  ASSUME Types, Directories, Booked, NEW c \in Callers, call[c].pc = "spawn"
  PROVE  \E d \in Dirs \ {0, NoDir} :
           d \notin on_disk \union {user_data_dir} \union temp_dirs
<1> SUFFICES ASSUME Dirs \ {0, NoDir} \subseteq on_disk \union {user_data_dir} \union temp_dirs
             PROVE  FALSE
  OBVIOUS
<1> DEFINE N == MaxCalls * MaxRetries
           grid == (1 .. calls) \X (1 .. MaxRetries - 1)
<1>1. /\ MaxCalls \in Nat /\ MaxRetries \in Nat \ {0} /\ MaxRetries - 1 \in Nat
      /\ calls \in Nat /\ calls <= MaxCalls
  BY LifecycleAssumption DEF Types
<1>2. N \in Nat /\ NoDir = N + 1
  BY <1>1 DEF NoDir
<1>3. 1 .. N \subseteq used
  <2>1. \A d \in 1 .. N : d \in Dirs \ {0, NoDir}
    BY <1>2 DEF Dirs
  <2> QED
    BY <2>1 DEF used
<1>4. PICK slot \in [used -> grid], num \in [Callers -> 0 .. calls] : Books(slot, num)
  BY DEF Booked
<1>5. slot \in Injection(used, grid)
  BY <1>4 DEF Books, Injection, IsInjective
<1>6. IsFiniteSet(grid) /\ Cardinality(grid) = calls * (MaxRetries - 1)
  <2>1. IsFiniteSet(1 .. calls) /\ Cardinality(1 .. calls) = calls
    BY <1>1, FS_Interval
  <2>2. IsFiniteSet(1 .. MaxRetries - 1) /\ Cardinality(1 .. MaxRetries - 1) = MaxRetries - 1
    <3> DEFINE m == MaxRetries - 1
    <3>1. m \in Nat /\ m \in Int /\ 1 \in Int
      BY <1>1
    <3> HIDE DEF m
    <3>2. IsFiniteSet(1 .. m) /\ Cardinality(1 .. m) = m
      BY <3>1, FS_Interval
    <3> QED
      BY <3>2 DEF m
  <2> DEFINE S == 1 .. calls
             T == 1 .. MaxRetries - 1
  <2>3. IsFiniteSet(S) /\ IsFiniteSet(T)
        /\ Cardinality(S) = calls /\ Cardinality(T) = MaxRetries - 1
    BY <2>1, <2>2
  <2> HIDE DEF S, T
  <2>4. IsFiniteSet(S \X T) /\ Cardinality(S \X T) = Cardinality(S) * Cardinality(T)
    BY <2>3, FS_Product
  <2> QED
    BY <2>3, <2>4 DEF S, T
<1>7. IsFiniteSet(used) /\ Cardinality(used) <= Cardinality(grid)
  BY <1>5, <1>6, FS_Injection
<1>8. Cardinality(1 .. N) <= Cardinality(used) /\ Cardinality(1 .. N) = N
  <2> HIDE DEF N
  <2>1. Cardinality(1 .. N) = N
    BY <1>2, FS_Interval
  <2> QED
    BY <1>3, <1>7, <2>1, FS_Subset
<1>9. calls >= 1
  BY <1>4, <1>1 DEF Books, in_progress, at
<1>10. Cardinality(used) \in Nat
  BY <1>7, FS_CardinalityType
<1>11. N <= calls * (MaxRetries - 1)
  BY <1>2, <1>6, <1>7, <1>8, <1>10, <1>1
<1>12. calls * (MaxRetries - 1) = calls * MaxRetries - calls
  BY <1>1
<1>13. calls * MaxRetries <= N
  BY <1>1
<1> QED
  <2>1. calls * MaxRetries \in Nat
    BY <1>1
  <2> HIDE DEF N
  <2> QED
    BY <2>1, <1>1, <1>2, <1>9, <1>11, <1>12, <1>13

\* What a step does to the directories that are known of: only a launch that
\* retries makes one.
LEMMA DirectorySteps ==
  ASSUME Types, Directories, Booked, [Next]_vars
  PROVE  /\ Directories'
         /\ \/ used' \subseteq used
            \/ \E c \in Callers, d \in Dirs \ {0, NoDir} :
                 /\ ProfileInUse(c) /\ call[c].attempt < MaxRetries
                 /\ used' \subseteq used \union {d}
<1>n. NoDir \in Nat \ {0} /\ Dirs = 0 .. NoDir /\ 0 \in Dirs \ {NoDir} /\ NoDir \in Dirs
  <2>1. MaxCalls * MaxRetries \in Nat
    BY LifecycleAssumption
  <2> QED
    BY <2>1 DEF NoDir, Dirs
<1>1. ASSUME NEW c \in Callers, Progress(c) \/ StartTimesOut(c)
      PROVE  /\ \A b \in Callers : call'[b].pc = "spawn" => call'[b].attempt >= 1
  <2>1. call'[c].pc = "spawn" => call'[c].attempt >= 1
    <3>1. call[c].pc = "spawn" => call[c].attempt + 1 >= 1
      BY CallFields
    <3> QED
      BY <1>1, <3>1, CallSteps
  <2>2. \A b \in Callers \ {c} : call'[b] = call[b]
    BY <1>1, CallSteps
  <2> QED
    BY <2>1, <2>2 DEF Directories
\* The directories after a step that makes none.
<1>k. ASSUME user_data_dir' \in {user_data_dir, original} \ {NoDir},
             original' \in {user_data_dir, original, NoDir},
             temp_dirs' \subseteq temp_dirs \union ({user_data_dir} \ {0}),
             on_disk' \subseteq on_disk
      PROVE  /\ user_data_dir' \in Dirs \ {NoDir} /\ original' \in Dirs
             /\ temp_dirs' \subseteq Dirs \ {0, NoDir}
             /\ on_disk' \subseteq Dirs \ {0, NoDir}
             /\ used' \subseteq used
  BY <1>k, <1>n DEF Directories, used
<1>d. user_data_dir # NoDir
  BY DEF Directories
<1>2. ASSUME NEW c \in Callers, Launching(c), ~ProfileInUse(c)
      PROVE  Directories' /\ used' \subseteq used
  <2>1. /\ user_data_dir' \in {user_data_dir, original} \ {NoDir}
        /\ original' \in {user_data_dir, original}
        /\ temp_dirs' \subseteq temp_dirs \union ({user_data_dir} \ {0})
        /\ on_disk' \subseteq on_disk
    BY <1>2, <1>d DEF Launching, LaunchBegins, SpawnFails, Spawned, CdpReady,
       CdpNeverReady, LaunchReturns, launch_fails, watchdog, system
  <2> QED
    BY <1>1, <1>2, <1>k, <2>1 DEF Directories, Progress
<1>3. ASSUME NEW c \in Callers, ProfileInUse(c), call[c].attempt < MaxRetries
      PROVE  Directories' /\ \E d \in Dirs \ {0, NoDir} : used' \subseteq used \union {d}
  <2> DEFINE free(d) == d \notin on_disk \union {user_data_dir} \union temp_dirs
             dir == CHOOSE d \in Dirs \ {0, NoDir} : free(d)
  <2>1. dir \in Dirs \ {0, NoDir}
    <3>1. \E d \in Dirs \ {0, NoDir} : free(d)
      BY <1>3, FreeDirectory DEF ProfileInUse, at
    <3> HIDE DEF free
    <3> QED
      BY <3>1
  <2>2. /\ on_disk' = on_disk \union {dir} /\ temp_dirs' = temp_dirs \union {dir}
        /\ user_data_dir' = dir /\ original' = original
    BY <1>3 DEF ProfileInUse
  <2> HIDE DEF dir
  <2>3. used' \subseteq used \union {dir}
    BY <2>2 DEF used
  <2> QED
    BY <1>1, <1>3, <2>1, <2>2, <2>3 DEF Directories, Progress, Launching
<1>4. ASSUME NEW c \in Callers, ProfileInUse(c), ~(call[c].attempt < MaxRetries)
      PROVE  Directories' /\ used' \subseteq used
  <2>1. /\ user_data_dir' \in {user_data_dir, original} \ {NoDir}
        /\ original' = original /\ temp_dirs' = temp_dirs /\ on_disk' \subseteq on_disk
    BY <1>4, <1>d DEF ProfileInUse, launch_fails
  <2> QED
    BY <1>1, <1>4, <1>k, <2>1 DEF Directories, Progress, Launching
<1>5. ASSUME NEW c \in Callers, Connecting(c) \/ Ending(c) \/ StartTimesOut(c)
      PROVE  Directories' /\ used' \subseteq used
  <2>1. /\ user_data_dir' \in {user_data_dir, original} \ {NoDir}
        /\ original' \in {original, NoDir}
        /\ temp_dirs' \subseteq temp_dirs /\ on_disk' \subseteq on_disk
    BY <1>5, <1>d DEF Connecting, TakeLock, VersionFails, ClientMade, ClientOpened,
       Connected, ConnectFails, Undone, Ending, StateSaved, SessionReset, KillRequested, Killed,
       LastReset, Stopped, StartTimesOut, watchdog, system
  <2> QED
    BY <1>1, <1>5, <1>k, <2>1 DEF Directories, Progress
<1>6. ASSUME NEW c \in Callers,
             Start(c) \/ StartUnheard(c) \/ \E force \in BOOLEAN : Stop(c, force)
      PROVE  Directories' /\ used' \subseteq used
  <2>1. /\ UNCHANGED <<user_data_dir, original, temp_dirs, on_disk>>
        /\ call'[c].pc # "spawn" /\ \A b \in Callers \ {c} : call'[b] = call[b]
    BY <1>6, CallBegins
  <2> QED
    BY <2>1 DEF Directories, used
<1>7. CASE (\E p \in running : BrowserExits(p)) \/ UNCHANGED vars
  <2>1. UNCHANGED <<user_data_dir, original, temp_dirs, on_disk, call>>
    BY <1>7 DEF BrowserExits, vars, watchdog, system
  <2> QED
    BY <2>1 DEF Directories, used
<1> QED
  BY <1>2, <1>3, <1>4, <1>5, <1>6, <1>7 DEF Next, Progress

\* Every directory belongs to an attempt of its own.
LEMMA BookedStep == IInv /\ [Next]_vars => Booked'
<1> SUFFICES ASSUME IInv, [Next]_vars PROVE Booked'
  OBVIOUS
<1>t. Types /\ Types' /\ Directories /\ Booked
  BY TypeStep DEF IInv
<1> DEFINE grid == (1 .. calls) \X (1 .. MaxRetries - 1)
<1>s. PICK slot \in [used -> grid], num \in [Callers -> 0 .. calls] : Books(slot, num)
  BY <1>t DEF Booked
<1>c. calls \in Nat /\ MaxRetries \in Nat \ {0}
  BY <1>t, LifecycleAssumption DEF Types
\* Without a new directory the books need a new line at most.
<1>1. ASSUME used' \subseteq used, calls' = calls,
             \A b \in Callers : call[b].pc = "idle" => call'[b].pc = "idle",
             \A b \in Callers : call'[b].pc = "launching" => call[b].pc = "launching",
             \A b \in Callers : call'[b].pc = "spawn" =>
               \/ call[b].pc = "launching"
               \/ call[b].pc = "spawn" /\ call'[b].attempt >= call[b].attempt
      PROVE  Booked'
  <2>0. PICK slot_ : slot_ = [d \in used' |-> slot[d]]
    OBVIOUS
  <2>1. slot_ \in [used' -> grid] /\ grid' = grid
    BY <1>1, <1>s, <2>0
  <2>2. \A d \in used' : d \in used /\ slot_[d] = slot[d]
    BY <1>1, <2>0
  <2>3. in_progress' \subseteq in_progress
    BY <1>1 DEF in_progress, at
  <2>4. ASSUME NEW b \in Callers, NEW d \in used', slot[d][1] = num[b]
        PROVE  /\ call'[b].pc # "launching"
               /\ call'[b].pc = "spawn" => slot[d][2] < call'[b].attempt
    <3>1. /\ call[b].pc # "launching"
          /\ call[b].pc = "spawn" => slot[d][2] < call[b].attempt
      BY <2>2, <2>4, <1>s DEF Books
    <3>2. /\ slot[d][2] \in Int
          /\ call[b].attempt \in Int /\ call'[b].attempt \in Int
      <4>1. call'[b] \in Calls
        BY <1>t DEF Types
      <4>2. call'[b].attempt \in 0 .. MaxRetries
        BY <4>1, Fields, IdleCall
      <4>3. slot[d] \in grid
        BY <2>2, <1>s
      <4>4. slot[d][2] \in 1 .. MaxRetries - 1
        BY <4>3
      <4> QED
        BY <4>2, <4>4, <1>t, CallFields
    <3> QED
      BY <1>1, <3>1, <3>2
  <2>5. Books(slot_, num)'
    BY <1>s, <2>2, <2>3, <2>4 DEF Books
  <2> QED
    BY <1>1, <1>s, <2>1, <2>5 DEF Booked
<1>2. ASSUME NEW c \in Callers,
             Start(c) \/ StartUnheard(c) \/ \E force \in BOOLEAN : Stop(c, force)
      PROVE  Booked'
  <2>0. PICK num_ : num_ = [num EXCEPT ![c] = calls + 1]
    OBVIOUS
  <2>1. /\ call[c].pc = "idle" /\ calls' = calls + 1 /\ used' = used
        /\ \A d \in Callers \ {c} : call'[d] = call[d]
        /\ call'[c].pc # "spawn"
    BY <1>2, <1>t, CallBegins DEF used
  <2>2. slot \in [used' -> grid'] /\ num_ \in [Callers -> 0 .. calls']
    BY <1>s, <1>c, <2>0, <2>1
  <2>3. /\ num_[c] = calls + 1
        /\ \A b \in Callers \ {c} : num_[b] = num[b] /\ num[b] # calls + 1
        /\ \A d \in used : slot[d][1] # calls + 1
    BY <1>s, <1>c, <2>0
  <2>4. in_progress' \subseteq in_progress \union {c}
    BY <2>1 DEF in_progress, at
  <2>5. Books(slot, num_)'
    <3>1. \A b \in in_progress' : num_[b] >= 1
      <4>1. num_[c] >= 1
        BY <2>3, <1>c
      <4>2. \A b \in in_progress : num[b] >= 1
        BY <1>s DEF Books
      <4>3. in_progress' \subseteq Callers
        BY DEF in_progress
      <4> QED
        BY <2>3, <2>4, <4>1, <4>2, <4>3
    <3>2. \A a, b \in in_progress' : num_[a] = num_[b] => a = b
      BY <2>3, <2>4, <1>s DEF Books, in_progress
    <3>3. ASSUME NEW b \in Callers, NEW d \in used', slot[d][1] = num_[b]
          PROVE  /\ call'[b].pc # "launching"
                 /\ call'[b].pc = "spawn" => slot[d][2] < call'[b].attempt
      BY <3>3, <2>1, <2>3, <1>s DEF Books
    <3>4. \A d, e \in used' : slot[d] = slot[e] => d = e
      BY <2>1, <1>s DEF Books
    <3> QED
      BY <3>1, <3>2, <3>3, <3>4 DEF Books
  <2> QED
    BY <2>2, <2>5 DEF Booked
<1>3. ASSUME NEW c \in Callers, ProfileInUse(c), call[c].attempt < MaxRetries,
             NEW dir, used' \subseteq used \union {dir}
      PROVE  Booked'
  <2>0. PICK new, slot_ :
          /\ new = <<num[c], call[c].attempt>>
          /\ slot_ = [d \in used' |-> IF d \in used THEN slot[d] ELSE new]
    OBVIOUS
  <2>1. /\ call[c].pc = "spawn" /\ call'[c].pc = "spawn" /\ calls' = calls
        /\ call'[c].attempt = call[c].attempt + 1
        /\ \A d \in Callers \ {c} : call'[d] = call[d]
    BY <1>3, <1>t, Goes DEF ProfileInUse, Moved, at, ghosts
  <2>2. call[c].attempt \in 1 .. MaxRetries - 1
    <3>1. call[c].attempt \in 0 .. MaxRetries /\ call[c].attempt >= 1
      BY <2>1, <1>t, CallFields DEF Directories
    <3> QED
      BY <3>1, <1>3, <1>c
  <2>3. c \in in_progress /\ num[c] \in 1 .. calls
    BY <2>1, <1>s, <1>c DEF Books, in_progress, at
  <2>4. slot_ \in [used' -> grid] /\ grid' = grid
    BY <2>0, <2>1, <2>2, <2>3, <1>s
  <2>5. /\ \A d \in used' : d \in used => slot_[d] = slot[d]
        /\ \A d \in used' : d \notin used => slot_[d] = new
        /\ \A d \in used' : d \notin used => d = dir
    BY <1>3, <2>0
  <2>6. in_progress' = in_progress
    BY <2>1 DEF in_progress, at
  <2>7. new[1] = num[c] /\ new[2] = call[c].attempt
    BY <2>0
  <2>8. \A d \in used : slot[d] # new
    <3>1. \A d \in used : slot[d][1] = num[c] => slot[d][2] < call[c].attempt
      BY <1>s, <2>1 DEF Books
    <3> QED
      BY <3>1, <2>2, <2>7
  <2>9. \A d, e \in used' : slot_[d] = slot_[e] => d = e
    <3>1. \A d, e \in used : slot[d] = slot[e] => d = e
      BY <1>s DEF Books
    <3> QED
      BY <2>5, <2>8, <3>1
  <2>10. ASSUME NEW b \in Callers, NEW d \in used', slot_[d][1] = num[b]
         PROVE  /\ call'[b].pc # "launching"
                /\ call'[b].pc = "spawn" => slot_[d][2] < call'[b].attempt
    <3>1. CASE d \in used
      <4>1. slot_[d] = slot[d] /\ slot[d][1] = num[b]
        BY <2>5, <2>10, <3>1
      <4>2. /\ call[b].pc # "launching"
            /\ call[b].pc = "spawn" => slot[d][2] < call[b].attempt
        BY <3>1, <4>1, <1>s DEF Books
      <4>3. slot[d][2] \in Int
        <5>1. slot[d] \in grid
          BY <3>1, <1>s
        <5>2. slot[d][2] \in 1 .. MaxRetries - 1
          BY <5>1
        <5> QED
          BY <5>2
      <4>4. CASE b = c
        BY <4>1, <4>2, <4>3, <4>4, <2>1, <2>2
      <4>5. CASE b # c
        BY <4>1, <4>2, <4>5, <2>1
      <4> QED
        BY <4>4, <4>5
    <3>2. CASE d \notin used
      <4>1. num[b] = num[c] /\ slot_[d][2] = call[c].attempt
        BY <2>5, <2>7, <2>10, <3>2
      <4>2. b \in in_progress => b = c
        BY <4>1, <2>3, <1>s DEF Books
      <4>3. b # c => call'[b].pc = "idle"
        BY <4>2, <2>1 DEF in_progress, at
      <4> QED
        BY <4>1, <4>3, <2>1, <2>2
    <3> QED
      BY <3>1, <3>2
  <2>11. Books(slot_, num)'
    BY <2>6, <2>9, <2>10, <1>s DEF Books
  <2> QED
    BY <2>1, <2>4, <2>11, <1>s DEF Booked
<1>4. ASSUME NEW c \in Callers, Progress(c) \/ StartTimesOut(c), used' \subseteq used
      PROVE  Booked'
  <2>1. \A b \in Callers : call[b].pc = "idle" => call'[b].pc = "idle"
    BY <1>4, <1>t, CallSteps
  <2>2. \A b \in Callers : call'[b].pc = "launching" => call[b].pc = "launching"
    BY <1>4, <1>t, CallSteps
  <2>3. ASSUME NEW b \in Callers, call'[b].pc = "spawn"
        PROVE  \/ call[b].pc = "launching"
               \/ call[b].pc = "spawn" /\ call'[b].attempt >= call[b].attempt
    <3>1. call[b].attempt \in Int
      BY <1>t, CallFields
    <3> QED
      BY <3>1, <2>3, <1>4, <1>t, CallSteps
  <2>4. calls' = calls
    BY <1>4, <1>t, CallSteps
  <2> QED
    BY <1>1, <1>4, <2>1, <2>2, <2>3, <2>4
<1>5. CASE (\E p \in running : BrowserExits(p)) \/ UNCHANGED vars
  <2>1. UNCHANGED <<call, calls>> /\ used' = used
    BY <1>5 DEF BrowserExits, vars, watchdog, system, ghosts, used
  <2>2. \A b \in Callers : call[b].attempt \in Int
    BY <1>t, CallFields
  <2> QED
    BY <1>1, <2>1, <2>2
<1> QED
  <2>1. CASE used' \subseteq used
    BY <2>1, <1>2, <1>4, <1>5 DEF Next
  <2>2. CASE \E c \in Callers, d \in Dirs \ {0, NoDir} :
               /\ ProfileInUse(c) /\ call[c].attempt < MaxRetries
               /\ used' \subseteq used \union {d}
    BY <2>2, <1>3
  <2> QED
    BY <2>1, <2>2, <1>t, DirectorySteps

-----------------------------------------------------------------------------
\* Where the one call stands tells what is known of browsers and directories.
LEMMA ProfilesStep == IInv /\ [Next]_vars => Profiles'
<1> SUFFICES ASSUME IInv, [Next]_vars, ~overlapped', ~cut' PROVE Profiles'
  BY DEF Profiles
<1>t. /\ Types /\ Directories /\ Directories' /\ Sequential /\ Processes
      /\ ~overlapped /\ ~cut
  BY DirectorySteps, StillAlone DEF IInv
<1>p. /\ \A c \in Callers : call[c].pc \in {"launching", "spawn", "wait_cdp"}
           => subprocess = 0
      /\ \A c \in Callers : call[c].pc \in {"spawn", "wait_cdp"} => original = 0
      /\ on_disk \subseteq temp_dirs
      /\ (\A c \in Callers : call[c].pc \notin {"spawn", "wait_cdp"}) => AtRest
      /\ event_bus = 0
           /\ (\A c \in Callers : call[c].pc \notin {"launched"} \union Stopping)
           => (cdp_url = 0 => subprocess = 0)
  BY <1>t DEF IInv, Profiles
<1>n. NoDir # 0 /\ original \in Nat /\ user_data_dir # NoDir
  <2>1. MaxCalls * MaxRetries \in Nat
    BY LifecycleAssumption
  <2> QED
    BY <2>1, <1>t DEF NoDir, Directories, Dirs
\* What has to be shown of the one call, and of what it leaves behind.
<1>a. ASSUME NEW c \in Callers,
             \A d \in Callers \ {c} : call'[d].pc = "idle",
             call'[c].pc \in {"launching", "spawn", "wait_cdp"} => subprocess' = 0,
             call'[c].pc \in {"spawn", "wait_cdp"} => original' = 0,
             on_disk' \subseteq temp_dirs',
             call'[c].pc \notin {"spawn", "wait_cdp"} => AtRest',
             event_bus' = 0 /\ call'[c].pc \notin {"launched"} \union Stopping
               => (cdp_url' = 0 => subprocess' = 0)
      PROVE  Profiles'
  BY <1>a DEF Profiles
<1> USE Goes DEF Moved, at
<1>1. ASSUME NEW c \in Callers, Launching(c) PROVE Profiles'
  <2>0. \A d \in Callers \ {c} : call[d].pc = "idle" /\ call'[d].pc = "idle"
    BY <1>1, StillAlone DEF Progress
  <2>1. event_bus' = event_bus
    BY <1>1 DEF Launching, LaunchBegins, ProfileInUse, SpawnFails, Spawned, CdpReady,
       CdpNeverReady, LaunchReturns, session
  <2>2. CASE LaunchBegins(c)
    <3>1. /\ call[c].pc = "launching" /\ call'[c].pc = "spawn"
          /\ original' = user_data_dir /\ temp_dirs' = {}
          /\ UNCHANGED <<user_data_dir, subprocess, on_disk>>
      BY <2>2, <1>t DEF LaunchBegins, system
    <3>2. subprocess = 0 /\ user_data_dir = 0 /\ on_disk = {}
      BY <2>0, <3>1, <1>p DEF AtRest
    <3> QED
      BY <1>a, <2>0, <3>1, <3>2
  <2>3. CASE launch_fails(c) /\ subprocess' = subprocess /\ temp_dirs' = temp_dirs
             /\ original' = original /\ call[c].pc \in {"spawn", "wait_cdp"}
    <3>1. call'[c].pc = "idle" /\ user_data_dir' = 0 /\ on_disk' = {} /\ subprocess = 0
      BY <2>3, <1>t, <1>p, <1>n, Moves DEF launch_fails
    <3> QED
      BY <1>a, <2>0, <2>3, <3>1 DEF AtRest
  <2>4. CASE ProfileInUse(c) /\ call[c].attempt < MaxRetries
    <3>1. /\ call[c].pc = "spawn" /\ call'[c].pc = "spawn"
          /\ subprocess' = subprocess /\ original' = original
      BY <2>4, <1>t DEF ProfileInUse
    <3>2. \E dir : on_disk' = on_disk \union {dir} /\ temp_dirs' = temp_dirs \union {dir}
      BY <2>4 DEF ProfileInUse
    <3>3. on_disk' \subseteq temp_dirs'
      BY <3>2, <1>p
    <3> QED
      BY <1>a, <2>0, <3>1, <3>3, <1>p
  <2>5. CASE Spawned(c)
    <3>1. /\ call[c].pc = "spawn" /\ call'[c].pc = "wait_cdp"
          /\ UNCHANGED <<subprocess, original, temp_dirs, on_disk>>
      BY <2>5, <1>t DEF Spawned, watchdog
    <3> QED
      BY <1>a, <2>0, <3>1, <1>p
  <2>6. CASE CdpReady(c)
    <3>1. /\ call[c].pc = "wait_cdp" /\ call'[c].pc = "launched"
          /\ subprocess' = call[c].proc /\ original' = original
          /\ on_disk' = on_disk \ (temp_dirs \ {user_data_dir})
          /\ temp_dirs' = {user_data_dir} \ {0}
      BY <2>6, <1>t DEF CdpReady
    <3>2. subprocess' # 0 /\ original' = 0
      BY <3>1, <1>p, <1>t DEF Processes
    <3>3. on_disk' \subseteq temp_dirs'
      BY <3>1, <1>p, <1>t DEF Directories
    <3> QED
      BY <1>a, <2>0, <3>1, <3>2, <3>3 DEF AtRest
  <2>7. CASE LaunchReturns(c)
    <3>1. /\ call[c].pc = "launched" /\ call'[c].pc = "lock" /\ cdp_url' = call[c].proc
          /\ UNCHANGED <<user_data_dir, subprocess, original, temp_dirs, on_disk>>
      BY <2>7, <1>t DEF LaunchReturns, watchdog, system
    <3>2. AtRest' /\ on_disk' \subseteq temp_dirs'
      BY <2>0, <3>1, <1>p DEF AtRest
    <3>3. cdp_url' = 0 => subprocess' = 0
      BY <3>1, <1>t DEF Sequential
    <3> QED
      BY <1>a, <2>0, <3>1, <3>2, <3>3
  <2> QED
    BY <1>1, <2>2, <2>3, <2>4, <2>5, <2>6, <2>7 DEF Launching, ProfileInUse,
       SpawnFails, CdpNeverReady, watchdog
<1>2. ASSUME NEW c \in Callers, Connecting(c) PROVE Profiles'
  <2>0. \A d \in Callers \ {c} : call[d].pc = "idle" /\ call'[d].pc = "idle"
    BY <1>2, StillAlone DEF Progress
  <2>1. /\ UNCHANGED <<event_bus, user_data_dir, subprocess, original, temp_dirs, on_disk>>
        /\ call[c].pc \in {"lock", "version", "handshake", "connecting", "undoing"}
        /\ call'[c].pc \in {"version", "handshake", "connecting", "undoing", "idle"}
    BY <1>2, <1>t DEF Connecting, TakeLock, VersionFails, ClientMade, ClientOpened,
       Connected, ConnectFails, Undone, watchdog, system
  <2>4. cdp_url' = cdp_url
    <3>1. CASE ClientMade(c)
      BY <3>1, <1>t DEF ClientMade, Sequential
    <3>2. CASE ~ClientMade(c)
      BY <1>2, <3>2 DEF Connecting, TakeLock, VersionFails, ClientOpened, Connected,
         ConnectFails, Undone
    <3> QED
      BY <3>1, <3>2
  <2>2. AtRest' /\ on_disk' \subseteq temp_dirs'
    BY <2>0, <2>1, <1>p DEF AtRest
  <2>3. event_bus' = 0 => (cdp_url' = 0 => subprocess' = 0)
    BY <2>0, <2>1, <2>4, <1>p DEF Stopping
  <2> QED
    BY <1>a, <2>0, <2>1, <2>2, <2>3
<1>3. ASSUME NEW c \in Callers, Ending(c) PROVE Profiles'
  <2>0. \A d \in Callers \ {c} : call[d].pc = "idle" /\ call'[d].pc = "idle"
    BY <1>3, StillAlone DEF Progress
  <2>1. /\ call[c].pc \in Stopping
        /\ \/ call'[c].pc \in Stopping
           \/ call'[c].pc = "idle" /\ event_bus' = event_bus + 1
    <3>1. CASE LastReset(c) \/ Stopped(c)
      <4>1. call[c].pc \in Stopping
        BY <3>1 DEF LastReset, Stopped, Stopping
      <4>2. fresh_bus(c) => call'[c].pc = "idle" /\ event_bus' = event_bus + 1
        BY <1>t, Moves DEF fresh_bus
      <4>3. fresh_bus(c) \/ call'[c].pc = "closing_last"
        BY <3>1, <1>t DEF LastReset, Stopped, closes
      <4> QED
        BY <4>1, <4>2, <4>3 DEF Stopping
    <3>2. CASE StateSaved(c) \/ SessionReset(c) \/ KillRequested(c) \/ Killed(c)
      BY <3>2, <1>t DEF StateSaved, SessionReset, KillRequested, Killed, Stopping
    <3> QED
      BY <1>3, <3>1, <3>2 DEF Ending
  <2>2. AtRest' /\ on_disk' \subseteq temp_dirs'
    <3>1. CASE Killed(c)
      <4>1. /\ subprocess' = 0 /\ on_disk' = on_disk \ temp_dirs /\ temp_dirs' = {}
            /\ user_data_dir' = IF original = NoDir THEN user_data_dir ELSE original
            /\ call[c].pc = "killing"
        BY <3>1 DEF Killed
      <4>2. original = 0
        BY <2>0, <4>1, <1>p, <1>t DEF AtRest, Processes
      <4> QED
        BY <4>1, <4>2, <1>p, <1>n DEF AtRest
    <3>2. CASE ~Killed(c)
      <4>1. UNCHANGED <<user_data_dir, subprocess, original, temp_dirs, on_disk>>
        BY <1>3, <3>2 DEF Ending, StateSaved, SessionReset, KillRequested, LastReset,
           Stopped, watchdog, system
      <4>2. AtRest
        BY <2>0, <2>1, <1>p DEF Stopping
      <4> QED
        BY <4>1, <4>2, <1>p DEF AtRest
    <3> QED
      BY <3>1, <3>2
  <2>3. event_bus' = event_bus + 1 => event_bus' # 0
    BY <1>t DEF Types
  <2>4. call'[c].pc \notin {"launching", "spawn", "wait_cdp"}
    BY <2>1 DEF Stopping
  <2> QED
    BY <1>a, <2>0, <2>1, <2>2, <2>3, <2>4
<1>4. ASSUME NEW c \in Callers,
             Start(c) \/ StartUnheard(c) \/ \E force \in BOOLEAN : Stop(c, force)
      PROVE  Profiles'
  <2>0. \A d \in Callers \ {c} : call[d].pc = "idle" /\ call'[d].pc = "idle"
    BY <1>4, StillAlone
  <2>1. /\ UNCHANGED <<event_bus, cdp_url, user_data_dir, subprocess, original,
                       temp_dirs, on_disk>>
        /\ call[c].pc = "idle"
        /\ call'[c].pc \in {"idle", "launching", "lock", "saving", "last"}
        /\ call'[c].pc = "launching" => cdp_url = 0 /\ event_bus = 0
    <3>1. UNCHANGED <<event_bus, cdp_url, user_data_dir, subprocess, original,
                       temp_dirs, on_disk>>
      BY <1>4 DEF Start, StartUnheard, Stop, session, watchdog, system
    <3>2. call[c].pc = "idle" /\ call'[c].pc \in {"idle", "launching", "lock", "saving", "last"}
      BY <1>4, <1>t, CallBegins
    <3>3. call'[c].pc = "launching" => Start(c)
      BY <1>4, <1>t, <3>2
    <3>4. Start(c) => handlers /\ (cdp_url # 0 => call'[c].pc = "lock")
      BY <1>t DEF Start
    <3> QED
      BY <3>1, <3>2, <3>3, <3>4 DEF handlers
  <2>2. AtRest' /\ on_disk' \subseteq temp_dirs'
    BY <2>0, <2>1, <1>p DEF AtRest
  <2>3. event_bus' = 0 => (cdp_url' = 0 => subprocess' = 0)
    BY <2>0, <2>1, <1>p DEF Stopping
  <2> QED
    BY <1>a, <2>0, <2>1, <2>2, <2>3
<1>5. CASE (\E p \in running : BrowserExits(p)) \/ UNCHANGED vars
  <2>1. UNCHANGED <<event_bus, cdp_url, user_data_dir, subprocess, original,
                    temp_dirs, on_disk, call>>
    BY <1>5 DEF BrowserExits, vars, session, watchdog, system
  <2> QED
    BY <2>1, <1>p DEF Profiles, AtRest
<1> QED
  BY <1>1, <1>2, <1>3, <1>4, <1>5, StillAlone DEF Next, Progress


\* The process of a call is taken note of, and forgotten, as its place in the
\* call says.
LEMMA ProcessesStep == IInv /\ [Next]_vars => Processes'
<1>t. ASSUME IInv PROVE Types /\ Sequential /\ Processes /\ Profiles
  BY <1>t DEF IInv
<1>r. ASSUME IInv, [Next]_vars PROVE \A p \in running' : p <= launches'
  <2>1. launches \in Nat /\ \A p \in running : p <= launches /\ p \in Nat
    BY <1>r, <1>t DEF Types, Processes, Procs
  <2>2. CASE \E c \in Callers : Spawned(c)
    <3>1. launches' = launches + 1 /\ running' = running \union {launches + 1}
      BY <2>2 DEF Spawned
    <3> QED
      BY <2>1, <3>1
  <2>3. CASE ~\E c \in Callers : Spawned(c)
    <3>1. launches' = launches /\ running' \subseteq running
      BY <1>r, <2>3 DEF Next, vars, Progress, Launching, Connecting, Ending, Start,
         StartUnheard, StartTimesOut, Stop, LaunchBegins, ProfileInUse, SpawnFails,
         CdpReady, CdpNeverReady, LaunchReturns, TakeLock, VersionFails, ClientMade,
         ClientOpened, Connected, ConnectFails, Undone, exits, StateSaved, SessionReset, KillRequested, Killed,
         LastReset, Stopped, BrowserExits, system
    <3> QED
      BY <2>1, <3>1
  <2> QED
    BY <2>2, <2>3
<1> SUFFICES ASSUME IInv, [Next]_vars, ~overlapped', ~cut' PROVE Processes'
  BY <1>r DEF Processes
<1>o. ~overlapped /\ ~cut
  BY StillAlone
<1>p. \A c \in Callers :
        /\ call[c].pc \in {"idle", "launching", "spawn", "saving", "closing", "killer"}
             => call[c].proc = 0
        /\ call[c].pc = "wait_cdp" => call[c].proc # 0
        /\ call[c].pc = "launched" => call[c].proc = subprocess
        /\ call[c].pc \in {"lock", "version", "handshake", "connecting", "undoing"}
             => call[c].proc \in {0, subprocess}
        /\ call[c].pc = "killing" => call[c].proc = subprocess /\ subprocess # 0
        /\ call[c].pc \in {"last", "closing_last"} => call[c].proc \notin running
  BY <1>t, <1>o DEF Processes, Sequential
<1>z. 0 \notin running /\ 0 \notin running'
  BY <1>t, TypeStep DEF Types
\* What has to be shown of the one call; those at rest have noted no process.
<1>a. ASSUME NEW c \in Callers,
             \A d \in Callers \ {c} : call[d].pc = "idle" /\ call'[d] = call[d],
             call'[c].pc \in {"idle", "launching", "spawn", "saving", "closing", "killer"}
               => call'[c].proc = 0,
             call'[c].pc = "wait_cdp" => call'[c].proc # 0,
             call'[c].pc \in {"lock", "version", "handshake", "connecting", "undoing"}
               => call'[c].proc \in {0, subprocess'},
             call'[c].pc = "killing" => call'[c].proc = subprocess' /\ subprocess' # 0,
             call'[c].pc \in {"last", "closing_last"} => call'[c].proc \notin running'
      PROVE  Processes'
  <2>1. \A d \in Callers \ {c} : call'[d].pc = "idle" /\ call'[d].proc = 0
    BY <1>a, <1>p
  <2> QED
    BY <1>a, <1>r, <2>1 DEF Processes
<1> USE Goes DEF Moved, at
<1>1. ASSUME NEW c \in Callers, Launching(c) PROVE Processes'
  <2>0. \A d \in Callers \ {c} : call[d].pc = "idle" /\ call'[d] = call[d]
    BY <1>1, <1>t, StillAlone, Others DEF Progress
  <2>1. CASE LaunchBegins(c) \/ ProfileInUse(c) \/ SpawnFails(c) \/ CdpNeverReady(c)
    <3>1. call'[c].pc \in {"spawn", "idle"} /\ call'[c].proc = 0
      BY <2>1, <1>t, <1>p DEF LaunchBegins, ProfileInUse
    <3> QED
      BY <1>a, <2>0, <3>1
  <2>2. CASE Spawned(c)
    <3>1. call'[c].pc = "wait_cdp" /\ call'[c].proc # 0
      BY <2>2, <1>t
    <3> QED
      BY <1>a, <2>0, <3>1
  <2>3. CASE CdpReady(c)
    <3>1. call'[c].pc = "launched"
      BY <2>3, <1>t
    <3> QED
      BY <1>a, <2>0, <3>1
  <2>4. CASE LaunchReturns(c)
    <3>1. call'[c].pc = "lock" /\ call'[c].proc = subprocess'
      BY <2>4, <1>t, <1>p DEF LaunchReturns, watchdog
    <3> QED
      BY <1>a, <2>0, <3>1
  <2> QED
    BY <1>1, <2>1, <2>2, <2>3, <2>4 DEF Launching
<1>2. ASSUME NEW c \in Callers, Connecting(c) PROVE Processes'
  <2>0. \A d \in Callers \ {c} : call[d].pc = "idle" /\ call'[d] = call[d]
    BY <1>2, <1>t, StillAlone, Others DEF Progress
  <2>1. /\ subprocess' = subprocess /\ call[c].pc \in {"lock", "version", "handshake", "connecting", "undoing"}
        /\ \/ /\ call'[c].pc \in {"version", "handshake", "connecting", "undoing"}
              /\ call'[c].proc = call[c].proc
           \/ call'[c].pc = "idle" /\ call'[c].proc = 0
    BY <1>2, <1>t DEF Connecting, TakeLock, VersionFails, ClientMade, ClientOpened,
       Connected, ConnectFails, Undone, watchdog
  <2>2. call[c].proc \in {0, subprocess}
    BY <1>p, <2>1
  <2> QED
    BY <1>a, <2>0, <2>1, <2>2
<1>3. ASSUME NEW c \in Callers, Ending(c) PROVE Processes'
  <2>0. \A d \in Callers \ {c} : call[d].pc = "idle" /\ call'[d] = call[d]
    BY <1>3, <1>t, StillAlone, Others DEF Progress
  <2>1. CASE StateSaved(c) \/ SessionReset(c)
    <3>1. call'[c].pc \in {"killer", "closing"} /\ call'[c].proc = 0
      BY <2>1, <1>t, <1>p DEF StateSaved, SessionReset
    <3> QED
      BY <1>a, <2>0, <3>1
  <2>2. CASE KillRequested(c)
    <3>1. call[c].pc = "killer" /\ UNCHANGED <<subprocess, running>>
      BY <2>2 DEF KillRequested, watchdog, system
    <3>2. \/ call'[c].pc = "killing" /\ call'[c].proc = subprocess /\ subprocess # 0
          \/ call'[c].pc = "last" /\ call'[c].proc = 0
      BY <2>2, <3>1, <1>t, <1>p
    <3> QED
      BY <1>a, <1>z, <2>0, <3>1, <3>2
  <2>3. CASE Killed(c)
    <3>1. running' = running \ {call[c].proc}
          /\ call'[c].pc = "last" /\ call'[c].proc = call[c].proc
      BY <2>3, <1>t DEF Killed, exits
    <3> QED
      BY <1>a, <2>0, <3>1
  <2>4. CASE LastReset(c) \/ Stopped(c)
    <3>1. /\ call[c].pc \in {"last", "closing_last"} /\ running' = running
          /\ \/ call'[c].pc = "idle" /\ call'[c].proc = 0
             \/ call'[c].pc = "closing_last" /\ call'[c].proc = call[c].proc
      BY <2>4, <1>t DEF LastReset, Stopped, system
    <3> QED
      BY <1>a, <1>p, <2>0, <3>1
  <2> QED
    BY <1>3, <2>1, <2>2, <2>3, <2>4 DEF Ending
<1>4. ASSUME NEW c \in Callers,
             Start(c) \/ StartUnheard(c) \/ \E force \in BOOLEAN : Stop(c, force)
      PROVE  Processes'
  <2>0. \A d \in Callers \ {c} : call[d].pc = "idle" /\ call'[d] = call[d]
    BY <1>4, <1>t, StillAlone, Others
  <2>1. call[c].pc = "idle" /\ call'[c].pc \in {"idle", "launching", "lock", "saving", "last"}
    BY <1>4, <1>t, CallBegins
  <2>2. call'[c].proc = call[c].proc
    BY <1>4, <1>t
  <2>3. call'[c].proc = 0
    BY <2>1, <2>2, <1>p
  <2> QED
    BY <1>a, <1>z, <2>0, <2>1, <2>3
<1>5. CASE (\E p \in running : BrowserExits(p)) \/ UNCHANGED vars
  <2>1. UNCHANGED <<call, subprocess>> /\ running' \subseteq running
    BY <1>5 DEF BrowserExits, exits, vars, watchdog, system
  <2> QED
    BY <2>1, <1>p, <1>r DEF Processes
<1> QED
  BY <1>1, <1>2, <1>3, <1>4, <1>5, StillAlone DEF Next, Progress

LEMMA Step == IInv /\ [Next]_vars => IInv'
BY TypeStep, HeldStep, SequentialStep, CountedStep,
   DirectorySteps, BookedStep, ProfilesStep, ProcessesStep DEF IInv

-----------------------------------------------------------------------------
\* The inductive invariant holds in every reachable state.
THEOREM Invariance == Spec => []IInv
<1>1. IInv /\ [Next]_vars => IInv'
  BY Step
<1> QED
  BY <1>1, InitInv, PTL DEF Spec

\* However the calls, failures and cancellations of any number of tasks meet, an
\* open websocket is the session's or was dropped by a reset() that met a connect().
THEOREM AtMostOneWebsocket == Spec => []OneWebsocket
<1>1. IInv => OneWebsocket
  BY DEF IInv
<1> QED
  BY <1>1, Invariance, PTL

\* After calls that did not overlap and were not cut off, the browser the
\* session talks to is the one kill() would kill.
THEOREM TalksToKnownBrowser == Spec => []ConnectedToKnownBrowser
<1>1. IInv => ConnectedToKnownBrowser
  <2> SUFFICES ASSUME IInv, ~overlapped, ~cut, in_progress = {}, client # NoClient
               PROVE  client.proc = subprocess
    BY DEF ConnectedToKnownBrowser
  <2>1. client.proc # 0
    BY DEF IInv, Types, Clients
  <2>2. \A c \in Callers : call[c].pc = "idle"
    BY DEF in_progress, at
  <2> QED
    BY <2>1, <2>2 DEF IInv, Sequential
<1> QED
  BY <1>1, Invariance, PTL

\* Every variable stays in its type: a launch that retries finds a directory, and
\* no call makes two buses.
THEOREM TypeCorrect == Spec => []TypeOK
<1>1. IInv => TypeOK
  <2> SUFFICES ASSUME IInv PROVE TypeOK
    OBVIOUS
  <2>1. event_bus \in 0 .. MaxCalls
    <3>1. /\ Cardinality(in_progress) \in Nat /\ event_bus \in Nat /\ calls \in 0 .. MaxCalls
          /\ event_bus + Cardinality(in_progress) <= calls
      BY FS_CardinalityType DEF IInv, Counted, Types
    <3> QED
      BY <3>1, LifecycleAssumption
  <2> QED
    BY <2>1 DEF IInv, Types, Directories, TypeOK
<1> QED
  BY <1>1, Invariance, PTL

\* After any number of failed, retried and stopped launches, one after another
\* and none cut off, a session without a browser has its configured profile
\* directory back and has left no temporary one.
THEOREM RestoresProfile == Spec => []ProfileRestored
<1>1. IInv => ProfileRestored
  <2> SUFFICES ASSUME IInv, ~overlapped, ~cut, in_progress = {}, subprocess = 0
               PROVE  user_data_dir = 0 /\ on_disk = {}
    BY DEF ProfileRestored
  <2>1. \A c \in Callers : call[c].pc = "idle"
    BY DEF in_progress, at
  <2> QED
    BY <2>1 DEF IInv, Profiles, AtRest
<1> QED
  BY <1>1, Invariance, PTL

\* A running browser gets out of reach of kill() only when its own launch gives
\* up on it, as long as calls do not overlap and are not cut off.
THEOREM LosesOnlyThese == Spec => OnlyTheseBrowsersLost
<1> DEFINE A == \A p \in running' : p \in known /\ p \notin known' =>
                  overlapped \/ cut' \/ \E c \in Callers : CdpNeverReady(c)
<1>1. IInv /\ [Next]_vars => [A]_vars
  <2> SUFFICES ASSUME IInv, Next, NEW p \in running', p \in known, p \notin known',
                      ~overlapped, ~cut', ~\E c \in Callers : CdpNeverReady(c)
               PROVE  FALSE
    OBVIOUS
  <2>t. Types /\ p # 0
    <3>1. Types /\ Types'
      BY TypeStep DEF IInv
    <3> QED
      BY <3>1 DEF Types
  <2>u. p = subprocess \/ \E c \in Callers : p = call[c].proc
    BY DEF known
  <2>v. p # subprocess' /\ \A c \in Callers : p # call'[c].proc
    BY DEF known
  <2>1. ASSUME NEW c \in Callers, Progress(c) PROVE FALSE
    <3>0. ~overlapped'
      BY <2>1 DEF Progress, Launching, Connecting, Ending, LaunchBegins, ProfileInUse,
         SpawnFails, Spawned, CdpReady, CdpNeverReady, LaunchReturns, TakeLock,
         VersionFails, ClientMade, ClientOpened, Connected, ConnectFails, Undone, StateSaved, SessionReset,
         KillRequested, Killed, LastReset, Stopped, ghosts
    <3>1. ~cut /\ \A d \in Callers \ {c} : call[d].pc = "idle"
      BY <2>1, <3>0, StillAlone
    <3>2. /\ call[c].pc \in {"launching", "spawn", "saving", "closing", "killer"}
               => call[c].proc = 0
          /\ call[c].pc \in {"lock", "version", "handshake", "connecting", "undoing"}
               => call[c].proc \in {0, subprocess}
          /\ call[c].pc = "killing" => call[c].proc = subprocess
          /\ call[c].pc \in {"last", "closing_last"} => call[c].proc \notin running
          /\ call[c].pc = "wait_cdp" => subprocess = 0
          /\ \A d \in Callers \ {c} : call[d].proc = 0
      BY <3>1 DEF IInv, Processes, Profiles
    <3>3. p = subprocess \/ p = call[c].proc
      BY <2>t, <2>u, <3>2
    <3> USE Goes DEF Moved, at
    <3>4. CASE LaunchBegins(c) \/ ProfileInUse(c) \/ SpawnFails(c) \/ Spawned(c)
      <4>1. call[c].pc \in {"launching", "spawn"} /\ subprocess' = subprocess
        BY <3>4 DEF LaunchBegins, ProfileInUse, SpawnFails, Spawned, watchdog
      <4> QED
        BY <4>1, <2>t, <2>v, <3>2, <3>3
    <3>5. CASE CdpReady(c)
      <4>1. call[c].pc = "wait_cdp" /\ subprocess' = call[c].proc
        BY <3>5 DEF CdpReady
      <4> QED
        BY <4>1, <2>t, <2>v, <3>2, <3>3
    <3>6. CASE LaunchReturns(c)
      <4>1. call'[c].proc = call[c].proc /\ subprocess' = subprocess
        BY <3>6, <2>t DEF LaunchReturns, watchdog
      <4> QED
        BY <4>1, <2>v, <3>3
    <3>7. CASE Connecting(c)
      <4>1. call[c].pc \in {"lock", "version", "handshake", "connecting", "undoing"} /\ subprocess' = subprocess
        BY <3>7 DEF Connecting, TakeLock, VersionFails, ClientMade, ClientOpened,
           Connected, ConnectFails, Undone, watchdog
      <4> QED
        BY <4>1, <2>t, <2>v, <3>2, <3>3
    <3>8. CASE StateSaved(c) \/ SessionReset(c) \/ KillRequested(c)
      <4>1. call[c].pc \in {"saving", "closing", "killer"} /\ subprocess' = subprocess
        BY <3>8 DEF StateSaved, SessionReset, KillRequested, watchdog
      <4> QED
        BY <4>1, <2>t, <2>v, <3>2, <3>3
    <3>9. CASE Killed(c)
      <4>1. call[c].pc = "killing" /\ p # call[c].proc
        BY <3>9 DEF Killed, exits
      <4> QED
        BY <4>1, <3>2, <3>3
    <3>10. CASE LastReset(c) \/ Stopped(c)
      <4>1. call[c].pc \in {"last", "closing_last"} /\ subprocess' = subprocess
            /\ p \in running
        BY <3>10 DEF LastReset, Stopped, watchdog, system
      <4> QED
        BY <4>1, <2>v, <3>2, <3>3
    <3> QED
      BY <2>1, <3>4, <3>5, <3>6, <3>7, <3>8, <3>9, <3>10
         DEF Progress, Launching, Ending
  <2>2. ASSUME NEW c \in Callers,
               Start(c) \/ StartUnheard(c) \/ \E force \in BOOLEAN : Stop(c, force)
        PROVE  FALSE
    <3>1. subprocess' = subprocess /\ \A d \in Callers : call'[d].proc = call[d].proc
      BY <2>2, <2>t, Goes DEF Moved, Start, StartUnheard, Stop, watchdog
    <3> QED
      BY <3>1, <2>u, <2>v
  <2>3. CASE \E q \in running : BrowserExits(q)
    BY <2>3, <2>u, <2>v DEF BrowserExits, watchdog
  <2> QED
    BY <2>1, <2>2, <2>3 DEF Next, StartTimesOut
<1> QED
  BY <1>1, Invariance, PTL DEF Spec, OnlyTheseBrowsersLost
=============================================================================
