---------------------------- MODULE StorageState ----------------------------
(***************************************************************************)
(* The storage-state watchdog: it loads cookies and localStorage into a     *)
(* browser, looks for changed cookies once a minute and saves them, and     *)
(* saves once more when the session is stopped.  The process may crash      *)
(* between any two steps, the ones of a save included; a CDP command or a   *)
(* file operation may fail.  Values are numbered: 0 is no value, a later    *)
(* one is higher.                                                           *)
(***************************************************************************)
EXTENDS Naturals

CONSTANTS
  Cookies,      \* cookies, by name, domain and path
  Origins,      \* origins with a localStorage
  MaxVersion,   \* bound: values a site gives to one of them
  MaxFailures,  \* bound: operations that fail
  MaxCrashes    \* bound: ends of the process that nothing announced

ASSUME StorageAssumption ==
  /\ Cookies \intersect Origins = {}
  /\ MaxVersion \in Nat /\ MaxFailures \in Nat /\ MaxCrashes \in Nat

Keys == Cookies \union Origins
Versions == 0 .. MaxVersion

VARIABLES
  jar,          \* what the browser holds
  version,      \* the newest value a site has set
  scripts,      \* init scripts of the loaded localStorage values
  file, bak,    \* storage_state.json and its backup, or Absent
  last,         \* _last_cookie_state
  connected,    \* the session is connected, its watchdog attached
  load,         \* what the load in progress has read, or Absent
  saver,        \* for each task that saves, the await it is at
  got,          \* the cookies a save or a check has read
  lock,         \* holder of _save_lock
  missed,       \* auxiliary: the last save failed after _last_cookie_state was set
  failures, crashes

files == <<file, bak>>
browser == <<jar, version, scripts>>
vars == <<browser, files, last, connected, load, saver, got, lock, missed,
          failures, crashes>>

None == [k \in Keys |-> 0]
Absent == [k \in Keys |-> MaxVersion + 1]
Contents == [Keys -> Versions]
Tasks == {"monitor", "stop"}
SaverPCs == {"off", "asleep", "locking", "reading", "writing", "saved"}

Store == INSTANCE StateStore WITH Values <- Versions,
           store <- file, backup <- bak, faults <- failures + crashes

Init ==
  /\ jar = None /\ version = None /\ scripts = None
  /\ file = Absent /\ bak = Absent /\ last = None
  /\ connected = FALSE /\ load = Absent
  /\ saver = [t \in Tasks |-> "off"] /\ got = [t \in Tasks |-> None]
  /\ lock = "none" /\ missed = FALSE /\ failures = 0 /\ crashes = 0

cookies_of(state) == [k \in Keys |-> IF k \in Cookies THEN state[k] ELSE 0]

-----------------------------------------------------------------------------
\* The sites: set a new value, delete one, open a document (which runs the
\* init scripts in whatever origin it is).
SiteSets(k) ==
  /\ connected /\ version[k] < MaxVersion
  /\ version' = [version EXCEPT ![k] = @ + 1]
  /\ jar' = [jar EXCEPT ![k] = version'[k]]
  /\ UNCHANGED <<scripts, files, last, connected, load, saver, got, lock,
                 missed, failures, crashes>>

SiteDeletes(k) ==
  /\ connected /\ jar[k] # 0
  /\ jar' = [jar EXCEPT ![k] = 0]
  /\ UNCHANGED <<version, scripts, files, last, connected, load, saver, got,
                 lock, missed, failures, crashes>>

DocumentOpens(k) ==
  /\ connected /\ scripts[k] # 0
  /\ jar' = [jar EXCEPT ![k] = scripts[k]]
  /\ UNCHANGED <<version, scripts, files, last, connected, load, saver, got,
                 lock, missed, failures, crashes>>

-----------------------------------------------------------------------------
\* on_BrowserConnectedEvent of a new session: the monitor starts, then the
\* load, which finds nothing to do without a file.  The profile of the browser
\* is a new one, or still has what the last browser held.
Connect(kept) ==
  /\ ~connected
  /\ connected' = TRUE /\ jar' = (IF kept THEN jar ELSE None)
  /\ scripts' = None /\ last' = None
  /\ saver' = [saver EXCEPT !["monitor"] = "asleep"]
  /\ load' = file
  /\ missed' = FALSE
  /\ UNCHANGED <<version, files, got, lock, failures, crashes>>

\* _load_storage_state goes on: the cookies of the file are set and become the
\* last known ones, its origins become init scripts.
loading == connected /\ load # Absent

LoadSets ==
  /\ loading
  /\ jar' = [k \in Keys |-> IF k \in Cookies /\ load[k] # 0 THEN load[k] ELSE jar[k]]
  /\ last' = IF cookies_of(load) = None THEN last ELSE cookies_of(load)
  /\ scripts' = [k \in Keys |-> IF k \in Origins THEN load[k] ELSE 0]
  /\ load' = Absent
  /\ UNCHANGED <<version, files, connected, saver, got, lock, missed,
                 failures, crashes>>

fails == failures < MaxFailures /\ failures' = failures + 1

LoadFails ==
  /\ loading /\ load' = Absent /\ fails
  /\ UNCHANGED <<browser, files, last, connected, saver, got, lock, missed,
                 crashes>>

-----------------------------------------------------------------------------
\* Mutant: the check already notes the cookies it has seen.
BugLastUpdated ==
  /\ connected /\ load = Absent /\ saver["monitor"] = "asleep"
  /\ cookies_of(jar) # last
  /\ last' = cookies_of(jar)
  /\ saver' = [saver EXCEPT !["monitor"] = "locking"]
  /\ UNCHANGED <<browser, files, connected, load, got, lock, missed,
                 failures, crashes>>

\* The monitor: a minute's sleep, longer than the load may take, then
\* _have_cookies_changed.  localStorage is not looked at.
ChangeFound ==
  /\ connected /\ load = Absent /\ saver["monitor"] = "asleep"
  /\ cookies_of(jar) # last
  /\ saver' = [saver EXCEPT !["monitor"] = "locking"]
  /\ UNCHANGED <<browser, files, last, connected, load, got, lock, missed,
                 failures, crashes>>

\* stop() and kill() save before anything else.  The bus handles one event
\* after the other: the load comes first.
StopRequested ==
  /\ connected /\ saver["stop"] = "off" /\ load = Absent
  /\ saver' = [saver EXCEPT !["stop"] = "locking"]
  /\ UNCHANGED <<browser, files, last, connected, load, got, lock, missed,
                 failures, crashes>>

\* Mutant: _save_lock is not waited for.
BugNoLock(t) ==
  /\ saver[t] = "locking"
  /\ lock' = t /\ saver' = [saver EXCEPT ![t] = "reading"]
  /\ UNCHANGED <<browser, files, last, connected, load, got, missed,
                 failures, crashes>>

\* _save_storage_state: one at a time under _save_lock.
LockTaken(t) ==
  /\ saver[t] = "locking" /\ lock = "none"
  /\ lock' = t /\ saver' = [saver EXCEPT ![t] = "reading"]
  /\ UNCHANGED <<browser, files, last, connected, load, got, missed,
                 failures, crashes>>

\* The browser answers with its cookies; the localStorage is asked for next.
CookiesRead(t) ==
  /\ saver[t] = "reading"
  /\ got' = [got EXCEPT ![t] = cookies_of(jar)]
  /\ saver' = [saver EXCEPT ![t] = "writing"]
  /\ UNCHANGED <<browser, files, last, connected, load, lock, missed,
                 failures, crashes>>

\* The save returns: the monitor sleeps again, stop() goes on.
save_returns(t) ==
  /\ lock' = "none"
  /\ saver' = [saver EXCEPT ![t] = IF t = "monitor" THEN "asleep" ELSE "saved"]

ReadFails(t) ==
  /\ saver[t] = "reading" /\ fails /\ save_returns(t)
  /\ UNCHANGED <<browser, files, last, connected, load, got, missed, crashes>>

\* Mutant: the new state replaces the old one.
BugReplaced(existing, new) == new

\* _merge_storage_states.
merge_storage_states(existing, new) ==
  [k \in Keys |-> IF new[k] # 0 THEN new[k] ELSE existing[k]]

\* The localStorage of the origins in the page's frames has come.  What follows
\* has no await: the last known cookies, the merge, the temporary file, the
\* old file to the backup, the temporary file in its place.
storage_state(t, frames) ==
  [k \in Keys |-> IF k \in frames THEN jar[k] ELSE got[t][k]]

\* Mutant: the old file is not backed up.
BugNoBackup == UNCHANGED bak

to_backup == bak' = IF file = Absent THEN bak ELSE file

\* The new state, whatever became of the merge, is put in place of the file.
replaces(t, content) ==
  /\ saver[t] = "writing"
  /\ last' = got[t] /\ missed' = FALSE
  /\ file' = content /\ to_backup /\ save_returns(t)
  /\ UNCHANGED <<browser, connected, load, got, crashes>>

Saved(t, frames) ==
  /\ replaces(t, merge_storage_states(IF file = Absent THEN None ELSE file,
                                      storage_state(t, frames)))
  /\ UNCHANGED failures

\* The old file cannot be read, parsed or merged: that is logged, and the state
\* of the browser alone replaces it.
MergeFails(t, frames) ==
  /\ file # Absent /\ fails
  /\ replaces(t, storage_state(t, frames))

\* A file operation raises, before or after the old file was moved.
WriteFails(t) ==
  /\ saver[t] = "writing" /\ fails
  /\ last' = got[t] /\ missed' = TRUE
  /\ UNCHANGED files
  /\ save_returns(t)
  /\ UNCHANGED <<browser, connected, load, got, crashes>>

MoveFails(t) ==
  /\ saver[t] = "writing" /\ fails
  /\ last' = got[t] /\ missed' = TRUE
  /\ file' = Absent /\ to_backup
  /\ save_returns(t)
  /\ UNCHANGED <<browser, connected, load, got, crashes>>

-----------------------------------------------------------------------------
\* The end of a session: nothing in memory survives.  A save of the monitor is
\* cancelled at the await it is at.
session_ends ==
  /\ connected' = FALSE /\ load' = Absent /\ lock' = "none"
  /\ saver' = [t \in Tasks |-> "off"] /\ got' = [t \in Tasks |-> None]

Disconnect ==
  /\ connected /\ saver["stop"] = "saved" /\ session_ends
  /\ UNCHANGED <<browser, files, last, missed, failures, crashes>>

\* The process dies, perhaps between the two moves of a save.
Crash(between_moves) ==
  /\ connected /\ crashes < MaxCrashes /\ crashes' = crashes + 1
  /\ session_ends
  /\ IF between_moves
     THEN /\ \E t \in Tasks : saver[t] = "writing"
          /\ file' = Absent /\ to_backup
     ELSE UNCHANGED files
  /\ UNCHANGED <<browser, last, missed, failures>>

-----------------------------------------------------------------------------
Loading == LoadSets \/ LoadFails
Saving(t) == \/ LockTaken(t) \/ CookiesRead(t) \/ ReadFails(t)
             \/ \E frames \in SUBSET Origins :
                  Saved(t, frames) \/ MergeFails(t, frames)
             \/ WriteFails(t) \/ MoveFails(t)
Sites == \/ \E k \in Keys : SiteSets(k) \/ SiteDeletes(k)
         \/ \E k \in Origins : DocumentOpens(k)

Next == \/ \E kept \in BOOLEAN : Connect(kept)
        \/ Loading \/ ChangeFound \/ StopRequested
        \/ \E t \in Tasks : Saving(t)
        \/ Disconnect \/ \E b \in BOOLEAN : Crash(b)
        \/ Sites

Spec == Init /\ [][Next]_vars

\* Commands are answered or time out, and the monitor wakes.  Nobody has to
\* stop or start a session.
FairSpec == /\ Spec /\ WF_vars(Loading) /\ WF_vars(ChangeFound)
            /\ \A t \in Tasks : WF_vars(Saving(t))

-----------------------------------------------------------------------------
\* Every variable stays in its type.
TypeOK ==
  /\ jar \in Contents /\ version \in Contents /\ scripts \in Contents
  /\ file \in Contents \union {Absent} /\ bak \in Contents \union {Absent}
  /\ last \in Contents /\ load \in Contents \union {Absent}
  /\ connected \in BOOLEAN /\ missed \in BOOLEAN
  /\ saver \in [Tasks -> SaverPCs] /\ got \in [Tasks -> Contents]
  /\ lock \in Tasks \union {"none"}
  /\ failures \in 0 .. MaxFailures /\ crashes \in 0 .. MaxCrashes

\* The file changes only by merging in one state of the browser.  A failure or a
\* crash may lose it or have it replaced once, and then its content is in the
\* backup: whatever fails, no reader sees half of a save.
StoreRefined == Store!Spec

\* A saved cookie is never replaced by an older one, though the monitor and
\* stop() save at the same time and a load puts old values into the browser.  It
\* only vanishes from the file when a merge has failed, into the backup.
CookiesNeverOlder ==
  [][file # Absent /\ file' # Absent =>
       \A k \in Cookies :
         \/ file[k] <= file'[k]
         \/ file'[k] = 0 /\ bak' = file /\ failures' > failures]_vars

\* When the file disappears, its content is in the backup.
LostOnlyToBackup == [][file # Absent /\ file' = Absent => bak' = file]_vars

\* The last known cookies, which the monitor compares with, or newer ones are in
\* the file, unless the last save failed after it had noted them.
LastKnownIsSaved ==
  connected /\ ~missed =>
    \A k \in Cookies : last[k] # 0 => file # Absent /\ file[k] >= last[k]

\* In a session that lasts, every cookie gets into the file in the end, unless
\* its save failed after _last_cookie_state was set: no check finds that change.
CookiesGetSaved ==
  <>[](connected /\ saver["stop"] = "off") =>
    <>[](\/ missed
         \/ \A k \in Cookies : jar[k] # 0 => file # Absent /\ file[k] = jar[k])
=============================================================================
