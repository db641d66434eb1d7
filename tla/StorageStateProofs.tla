------------------------- MODULE StorageStateProofs -------------------------
(***************************************************************************)
(* Proofs about StorageState, for any cookies and origins and any number of *)
(* values, failures and crashes: the file implements StateStore, never goes *)
(* back to an older cookie and has what the monitor compares with.          *)
(***************************************************************************)
EXTENDS StorageState, TLAPS

\* A save that is under way holds the lock.
OneSaver == \A t \in Tasks : saver[t] \in {"reading", "writing"} => lock = t

\* Nothing is saved between two sessions.
Quiet == ~connected => \A t \in Tasks : saver[t] = "off"

\* A load reads the file as it is and is alone.
LoadAlone ==
  load # Absent => /\ load = file
                   /\ \A t \in Tasks : saver[t] \in {"off", "asleep"}

\* The browser is ahead of the file, and a save that has read its cookies is
\* between the two.
Ordered ==
  \A k \in Cookies :
    /\ jar[k] <= version[k]
    /\ file # Absent => file[k] <= version[k]
    /\ file # Absent /\ jar[k] # 0 => file[k] <= jar[k]
    /\ \A t \in Tasks : saver[t] = "writing" /\ got[t][k] # 0 =>
         /\ got[t][k] <= version[k]
         /\ jar[k] # 0 => got[t][k] <= jar[k]
         /\ file # Absent => file[k] <= got[t][k]

IInv == TypeOK /\ Quiet /\ OneSaver /\ LoadAlone /\ Ordered /\ LastKnownIsSaved

-----------------------------------------------------------------------------
\* Versions are numbers, the absent file is not a content unless there is
\* nothing to keep, and cookies and origins are keys.
LEMMA Basics ==
  /\ MaxVersion \in Nat /\ MaxFailures \in Nat /\ MaxCrashes \in Nat
  /\ 0 \in Versions /\ Versions \subseteq Nat
  /\ None \in Contents
  /\ \A k \in Keys : Absent[k] = MaxVersion + 1
  /\ Cookies \subseteq Keys /\ Origins \subseteq Keys
  /\ \A k \in Origins : k \notin Cookies
BY StorageAssumption DEF Versions, Contents, None, Absent, Keys

\* A content is the absent file only when there are no keys.
LEMMA Present ==
  ASSUME NEW c \in Contents, NEW k \in Keys
  PROVE  c # Absent
BY Basics DEF Contents, Versions

\* The values of a content are numbers.
LEMMA Numbers == \A c \in Contents : \A k \in Cookies : k \in Keys /\ c[k] \in Nat
<1> SUFFICES ASSUME NEW c \in Contents, NEW k \in Cookies
             PROVE  k \in Keys /\ c[k] \in Nat
  OBVIOUS
<1>1. k \in Keys /\ c \in [Keys -> Versions]
  BY Basics DEF Contents
<1> QED
  BY <1>1, Basics

\* Merging and selecting give contents.
LEMMA Shapes ==
  /\ \A c \in Contents : cookies_of(c) \in Contents
  /\ \A c, d \in Contents : merge_storage_states(c, d) \in Contents
  /\ \A c, d \in Contents : \A F : [k \in Keys |-> IF k \in F THEN c[k] ELSE d[k]] \in Contents
BY Basics DEF Contents, cookies_of, merge_storage_states

LEMMA InitInv == Init => IInv
<1> SUFFICES ASSUME Init PROVE IInv
  OBVIOUS
<1>1. TypeOK
  <2>1. saver \in [Tasks -> SaverPCs] /\ got \in [Tasks -> Contents]
    BY Basics DEF Init, SaverPCs
  <2>2. failures \in 0 .. MaxFailures /\ crashes \in 0 .. MaxCrashes
    BY Basics DEF Init
  <2> QED
    BY <2>1, <2>2, Basics DEF Init, TypeOK
<1>2. Quiet /\ OneSaver /\ LoadAlone /\ LastKnownIsSaved
  BY DEF Init, Quiet, OneSaver, LoadAlone, LastKnownIsSaved, Tasks
<1>3. Ordered
  BY Basics DEF Init, Ordered, None, Tasks
<1> QED
  BY <1>1, <1>2, <1>3 DEF IInv

-----------------------------------------------------------------------------
\* Every step keeps the types.
LEMMA TypeStep == TypeOK /\ [Next]_vars => TypeOK'
<1> SUFFICES ASSUME TypeOK, [Next]_vars PROVE TypeOK'
  OBVIOUS
<1> USE Basics
<1>f. \A n : failures' = failures + 1 /\ failures < MaxFailures => failures' \in 0 .. MaxFailures
  BY DEF TypeOK
<1>s. \A t \in Tasks : \A p \in SaverPCs : [saver EXCEPT ![t] = p] \in [Tasks -> SaverPCs]
  BY DEF TypeOK
<1>r. \A t \in Tasks : save_returns(t) =>
        saver' \in [Tasks -> SaverPCs] /\ lock' \in Tasks \union {"none"}
  BY <1>s DEF save_returns, SaverPCs
<1>1. CASE \E kept \in BOOLEAN : Connect(kept)
  <2>1. saver' \in [Tasks -> SaverPCs]
    BY <1>1, <1>s DEF Connect, Tasks, SaverPCs
  <2>2. jar' \in Contents /\ scripts' \in Contents /\ last' \in Contents
    BY <1>1 DEF Connect, TypeOK
  <2>3. /\ connected' = TRUE /\ missed' = FALSE /\ load' = file
        /\ UNCHANGED <<version, file, bak, got, lock, failures, crashes>>
    BY <1>1 DEF Connect, files
  <2> QED
    BY <2>1, <2>2, <2>3 DEF TypeOK
<1>2. CASE LoadSets
  <2>1. load \in Contents
    BY <1>2 DEF LoadSets, loading, TypeOK
  <2>2. jar' \in Contents /\ scripts' \in Contents /\ last' \in Contents
    <3>1. jar' \in [Keys -> Versions]
      BY <1>2, <2>1 DEF LoadSets, TypeOK, Contents
    <3>2. scripts' \in [Keys -> Versions]
      BY <1>2, <2>1 DEF LoadSets, Contents
    <3>3. last' \in Contents
      BY <1>2, <2>1, Shapes DEF LoadSets, TypeOK
    <3> QED
      BY <3>1, <3>2, <3>3 DEF Contents
  <2> QED
    BY <1>2, <2>2 DEF LoadSets, TypeOK, files
<1>3. CASE LoadFails
  BY <1>3, <1>f DEF LoadFails, TypeOK, files, browser, fails
<1>4. CASE ChangeFound
  <2>1. saver' \in [Tasks -> SaverPCs]
    BY <1>4, <1>s DEF ChangeFound, Tasks, SaverPCs
  <2> QED
    BY <1>4, <2>1 DEF ChangeFound, TypeOK, files, browser
<1>5. CASE StopRequested
  <2>1. saver' \in [Tasks -> SaverPCs]
    BY <1>5, <1>s DEF StopRequested, Tasks, SaverPCs
  <2> QED
    BY <1>5, <2>1 DEF StopRequested, TypeOK, files, browser
<1>6. ASSUME NEW t \in Tasks, Saving(t) PROVE TypeOK'
  <2>1. CASE LockTaken(t)
    <3>1. saver' \in [Tasks -> SaverPCs] /\ lock' \in Tasks
      BY <2>1, <1>s DEF LockTaken, SaverPCs
    <3> QED
      BY <2>1, <3>1 DEF LockTaken, TypeOK, files, browser
  <2>2. CASE CookiesRead(t)
    <3>1. saver' \in [Tasks -> SaverPCs]
      BY <2>2, <1>s DEF CookiesRead, SaverPCs
    <3>2. got' \in [Tasks -> Contents]
      BY <2>2, Shapes DEF CookiesRead, TypeOK
    <3> QED
      BY <2>2, <3>1, <3>2 DEF CookiesRead, TypeOK, files, browser
  <2>3. CASE ReadFails(t)
    BY <2>3, <1>r, <1>f DEF ReadFails, TypeOK, files, browser, fails
  <2>4. CASE \E frames \in SUBSET Origins : Saved(t, frames) \/ MergeFails(t, frames)
    <3> PICK frames \in SUBSET Origins : Saved(t, frames) \/ MergeFails(t, frames)
      BY <2>4
    <3>1. got[t] \in Contents /\ jar \in Contents
      BY DEF TypeOK
    <3>2. storage_state(t, frames) \in Contents
      BY <3>1, Shapes DEF storage_state
    <3>3. (IF file = Absent THEN None ELSE file) \in Contents
      BY DEF TypeOK
    <3>4. file' \in Contents
      BY <3>2, <3>3, Shapes DEF Saved, MergeFails, replaces
    <3>5. bak' \in Contents \union {Absent}
      BY DEF Saved, MergeFails, replaces, to_backup, TypeOK
    <3>6. failures' \in 0 .. MaxFailures
      BY <1>f DEF Saved, MergeFails, fails, TypeOK
    <3> QED
      BY <1>r, <3>1, <3>4, <3>5, <3>6 DEF Saved, MergeFails, replaces, TypeOK, browser
  <2>5. CASE WriteFails(t)
    BY <2>5, <1>r, <1>f DEF WriteFails, TypeOK, files, browser, fails
  <2>6. CASE MoveFails(t)
    <3>1. bak' \in Contents \union {Absent}
      BY <2>6 DEF MoveFails, to_backup, TypeOK
    <3> QED
      BY <2>6, <3>1, <1>r, <1>f DEF MoveFails, TypeOK, browser, fails
  <2> QED
    BY <1>6, <2>1, <2>2, <2>3, <2>4, <2>5, <2>6 DEF Saving
<1>e. session_ends =>
        /\ saver' \in [Tasks -> SaverPCs] /\ got' \in [Tasks -> Contents]
        /\ lock' = "none" /\ load' = Absent /\ connected' = FALSE
  BY DEF session_ends, SaverPCs
<1>7. CASE Disconnect
  BY <1>7, <1>e DEF Disconnect, TypeOK, files, browser
<1>8. ASSUME NEW b \in BOOLEAN, Crash(b) PROVE TypeOK'
  <2>1. crashes' \in 0 .. MaxCrashes
    BY <1>8 DEF Crash, TypeOK
  <2>2. file' \in Contents \union {Absent} /\ bak' \in Contents \union {Absent}
    BY <1>8 DEF Crash, TypeOK, to_backup, files
  <2> QED
    BY <1>8, <1>e, <2>1, <2>2 DEF Crash, TypeOK, browser
<1>9. ASSUME NEW k \in Keys, SiteSets(k) \/ SiteDeletes(k) \/ DocumentOpens(k)
      PROVE  TypeOK'
  <2>1. CASE SiteSets(k)
    <3>1. version[k] + 1 \in Versions /\ version \in [Keys -> Versions]
      BY <2>1 DEF SiteSets, TypeOK, Contents, Versions
    <3>2. version' \in Contents /\ version'[k] \in Versions
      BY <2>1, <3>1 DEF SiteSets, Contents
    <3>3. jar' \in Contents
      BY <2>1, <3>2 DEF SiteSets, TypeOK, Contents
    <3> QED
      BY <2>1, <3>2, <3>3 DEF SiteSets, TypeOK, files
  <2>2. CASE SiteDeletes(k)
    <3>1. jar' \in Contents
      BY <2>2 DEF SiteDeletes, TypeOK, Contents
    <3> QED
      BY <2>2, <3>1 DEF SiteDeletes, TypeOK, files
  <2>3. CASE DocumentOpens(k)
    <3>1. jar' \in Contents
      BY <2>3 DEF DocumentOpens, TypeOK, Contents
    <3> QED
      BY <2>3, <3>1 DEF DocumentOpens, TypeOK, files
  <2> QED
    BY <1>9, <2>1, <2>2, <2>3
<1>10. CASE UNCHANGED vars
  BY <1>10 DEF vars, browser, files, TypeOK
<1> QED
  BY <1>1, <1>2, <1>3, <1>4, <1>5, <1>6, <1>7, <1>8, <1>9, <1>10
     DEF Next, Loading, Sites

-----------------------------------------------------------------------------
\* What one save keeps: only its own task is at an await of a save.
LEMMA Alone ==
  ASSUME TypeOK, OneSaver, NEW t \in Tasks, saver[t] \in {"reading", "writing"},
         NEW u \in Tasks, saver[u] \in {"reading", "writing"}
  PROVE  u = t
BY DEF OneSaver

\* Every step keeps the lock with the save that runs and the load alone.
LEMMA LockStep == IInv /\ [Next]_vars => Quiet' /\ OneSaver' /\ LoadAlone'
<1> SUFFICES ASSUME IInv, [Next]_vars PROVE Quiet' /\ OneSaver' /\ LoadAlone'
  OBVIOUS
<1>t. TypeOK /\ Quiet /\ OneSaver /\ LoadAlone /\ saver \in [Tasks -> SaverPCs]
  BY DEF IInv, TypeOK
<1>k. UNCHANGED <<files, load, saver, lock, connected>> => Quiet' /\ OneSaver' /\ LoadAlone'
  BY <1>t DEF Quiet, OneSaver, LoadAlone, files
<1>r. ASSUME NEW t \in Tasks, save_returns(t), saver[t] \in {"reading", "writing"},
             UNCHANGED <<load, connected>>
      PROVE  Quiet' /\ OneSaver' /\ LoadAlone'
  <2>1. saver' = [saver EXCEPT ![t] = IF t = "monitor" THEN "asleep" ELSE "saved"]
    BY <1>r DEF save_returns
  <2>2. \A u \in Tasks : saver'[u] \notin {"reading", "writing"}
    BY <1>r, <1>t, <2>1, Alone
  <2>3. load = Absent /\ connected
    BY <1>r, <1>t DEF LoadAlone, Quiet
  <2> QED
    BY <1>r, <2>2, <2>3 DEF Quiet, OneSaver, LoadAlone
<1>1. CASE \E kept \in BOOLEAN : Connect(kept)
  <2>1. saver' = [saver EXCEPT !["monitor"] = "asleep"] /\ load' = file
        /\ UNCHANGED <<file, lock>> /\ ~connected /\ connected'
    BY <1>1 DEF Connect, files
  <2>2. /\ saver' \in [Tasks -> SaverPCs]
        /\ \A t \in Tasks : saver'[t] \in {"off", "asleep"}
    BY <1>t, <2>1 DEF Quiet, Tasks, SaverPCs
  <2> QED
    BY <2>1, <2>2 DEF Quiet, OneSaver, LoadAlone
<1>2. CASE LoadSets \/ LoadFails
  BY <1>2, <1>t DEF LoadSets, LoadFails, loading, Quiet, OneSaver, LoadAlone
<1>4. CASE ChangeFound \/ StopRequested
  <2>1. \E t \in Tasks : saver' = [saver EXCEPT ![t] = "locking"]
    BY <1>4 DEF ChangeFound, StopRequested, Tasks
  <2>2. load = Absent /\ load' = Absent /\ lock' = lock /\ connected /\ connected'
    BY <1>4 DEF ChangeFound, StopRequested
  <2> QED
    BY <1>t, <2>1, <2>2 DEF Quiet, OneSaver, LoadAlone
<1>6. ASSUME NEW t \in Tasks, Saving(t) PROVE Quiet' /\ OneSaver' /\ LoadAlone'
  <2>1. CASE LockTaken(t)
    <3>1. \A u \in Tasks : saver[u] \notin {"reading", "writing"}
      BY <2>1, <1>t DEF LockTaken, OneSaver, Tasks
    <3>2. load = Absent /\ load' = Absent /\ connected /\ connected'
      BY <2>1, <1>t DEF LockTaken, LoadAlone, Quiet
    <3> QED
      BY <2>1, <1>t, <3>1, <3>2 DEF LockTaken, Quiet, OneSaver, LoadAlone
  <2>2. CASE CookiesRead(t)
    <3>2. load = Absent /\ load' = Absent /\ connected /\ connected'
      BY <2>2, <1>t DEF CookiesRead, LoadAlone, Quiet
    <3> QED
      BY <2>2, <1>t, <3>2 DEF CookiesRead, Quiet, OneSaver, LoadAlone
  <2>3. CASE ReadFails(t) \/ WriteFails(t) \/ MoveFails(t)
             \/ \E frames \in SUBSET Origins : Saved(t, frames) \/ MergeFails(t, frames)
    <3>1. save_returns(t) /\ saver[t] \in {"reading", "writing"} /\ UNCHANGED <<load, connected>>
      BY <2>3 DEF ReadFails, WriteFails, MoveFails, Saved, MergeFails, replaces
    <3> QED
      BY <3>1, <1>r
  <2> QED
    BY <1>6, <2>1, <2>2, <2>3 DEF Saving
<1>7. CASE Disconnect \/ \E b \in BOOLEAN : Crash(b)
  <2>1. session_ends
    BY <1>7 DEF Disconnect, Crash
  <2> QED
    BY <2>1 DEF session_ends, Quiet, OneSaver, LoadAlone
<1>9. ASSUME NEW k \in Keys, SiteSets(k) \/ SiteDeletes(k) \/ DocumentOpens(k)
      PROVE  Quiet' /\ OneSaver' /\ LoadAlone'
  BY <1>9, <1>k DEF SiteSets, SiteDeletes, DocumentOpens
<1>10. CASE UNCHANGED vars
  BY <1>10, <1>k DEF vars
<1> QED
  BY <1>1, <1>2, <1>4, <1>6, <1>7, <1>9, <1>10, Basics DEF Next, Loading, Sites

-----------------------------------------------------------------------------
\* A finished save: a cookie of the new file is the one that was read, or else
\* the one of the old file, or none when the merge has failed.
LEMMA SavedCookies ==
  ASSUME IInv, NEW t \in Tasks, NEW frames \in SUBSET Origins,
         Saved(t, frames) \/ MergeFails(t, frames)
  PROVE  /\ file' \in Contents
         /\ \A k \in Cookies :
              /\ file' # Absent
              /\ got[t][k] # 0 => file'[k] = got[t][k]
              /\ got[t][k] = 0 =>
                   \/ file'[k] = IF file = Absent THEN 0 ELSE file[k]
                   \/ MergeFails(t, frames) /\ file'[k] = 0
<1>1. TypeOK
  BY DEF IInv
<1>2. storage_state(t, frames) \in Contents
  BY <1>1, Shapes DEF storage_state, TypeOK
<1>3. (IF file = Absent THEN None ELSE file) \in Contents
  BY <1>1, Basics DEF TypeOK
<1>4. file' \in Contents
  BY <1>2, <1>3, Shapes DEF Saved, MergeFails, replaces
<1>5. ASSUME NEW k \in Cookies
      PROVE  /\ file' # Absent
             /\ got[t][k] # 0 => file'[k] = got[t][k]
             /\ got[t][k] = 0 =>
                  \/ file'[k] = IF file = Absent THEN 0 ELSE file[k]
                  \/ MergeFails(t, frames) /\ file'[k] = 0
  <2>1. k \in Keys /\ k \notin frames
    BY Basics
  <2>2. storage_state(t, frames)[k] = got[t][k]
    BY <2>1 DEF storage_state
  <2>3. file' # Absent
    BY <1>4, <2>1, Present
  <2>4. CASE Saved(t, frames)
    <3>1. file'[k] = IF got[t][k] # 0 THEN got[t][k]
                     ELSE (IF file = Absent THEN None ELSE file)[k]
      BY <2>1, <2>2, <2>4 DEF Saved, replaces, merge_storage_states
    <3> QED
      BY <2>1, <2>3, <3>1 DEF None
  <2>5. CASE MergeFails(t, frames)
    BY <2>2, <2>3, <2>5 DEF MergeFails, replaces
  <2> QED
    BY <2>4, <2>5
<1> QED
  BY <1>4, <1>5

\* Every step keeps the order of file, save and browser.
LEMMA OrderStep == IInv /\ [Next]_vars => Ordered'
<1> SUFFICES ASSUME IInv, [Next]_vars PROVE Ordered'
  OBVIOUS
<1>t. TypeOK /\ TypeOK' /\ Quiet /\ OneSaver /\ LoadAlone /\ Ordered
  BY TypeStep DEF IInv
<1>n. \A k \in Cookies :
        /\ k \in Keys /\ jar[k] \in Nat /\ version[k] \in Nat
        /\ file # Absent => file[k] \in Nat
        /\ \A t \in Tasks : got[t][k] \in Nat
  <2>1. /\ jar \in Contents /\ version \in Contents
        /\ file # Absent => file \in Contents
        /\ \A t \in Tasks : got[t] \in Contents
    BY <1>t DEF TypeOK
  <2> QED
    BY <2>1, Numbers
<1>w. ASSUME UNCHANGED <<jar, version, got>>,
             file' = file \/ file' = Absent,
             \A t \in Tasks : saver'[t] = "writing" => saver[t] = "writing"
      PROVE  Ordered'
  BY <1>w, <1>t, <1>n DEF Ordered
<1>1. CASE \E kept \in BOOLEAN : Connect(kept)
  <2>1. /\ saver' = [saver EXCEPT !["monitor"] = "asleep"]
        /\ jar' = jar \/ jar' = None
        /\ UNCHANGED <<file, version, got>>
    BY <1>1 DEF Connect, files
  <2>2. \A t \in Tasks : saver'[t] = "writing" => saver[t] = "writing"
    BY <1>t, <2>1 DEF TypeOK
  <2>3. \A k \in Cookies : None[k] = 0
    BY Basics DEF None
  <2> QED
    BY <1>t, <1>n, <2>1, <2>2, <2>3 DEF Ordered
<1>2. CASE LoadSets
  <2>1. /\ load = file /\ file # Absent /\ UNCHANGED <<file, version, saver, got>>
        /\ \A t \in Tasks : saver[t] # "writing"
    BY <1>2, <1>t DEF LoadSets, loading, LoadAlone, files
  <2>2. \A k \in Cookies : jar'[k] = IF file[k] # 0 THEN file[k] ELSE jar[k]
    BY <1>2, <1>n, <2>1 DEF LoadSets
  <2> QED
    BY <1>t, <1>n, <2>1, <2>2 DEF Ordered
<1>3. CASE LoadFails
  BY <1>3, <1>w DEF LoadFails, files, browser
<1>4. CASE ChangeFound \/ StopRequested
  <2>1. \A t \in Tasks : saver'[t] = "writing" => saver[t] = "writing"
    BY <1>4, <1>t DEF ChangeFound, StopRequested, TypeOK
  <2> QED
    BY <1>4, <1>w, <2>1 DEF ChangeFound, StopRequested, files, browser
<1>6. ASSUME NEW t \in Tasks, Saving(t) PROVE Ordered'
  <2>1. CASE LockTaken(t)
    <3>1. \A u \in Tasks : saver'[u] = "writing" => saver[u] = "writing"
      BY <2>1, <1>t DEF LockTaken, TypeOK
    <3> QED
      BY <2>1, <1>w, <3>1 DEF LockTaken, files, browser
  <2>2. CASE CookiesRead(t)
    <3>1. /\ \A u \in Tasks : u # t => saver'[u] = saver[u] /\ got'[u] = got[u]
          /\ got'[t] = cookies_of(jar)
          /\ UNCHANGED <<jar, version, file>>
      BY <2>2, <1>t DEF CookiesRead, TypeOK, browser, files
    <3>2. \A k \in Cookies : got'[t][k] = jar[k]
      BY <3>1, Basics DEF cookies_of
    <3> QED
      BY <1>t, <1>n, <3>1, <3>2 DEF Ordered
  <2>3. CASE ReadFails(t) \/ WriteFails(t) \/ MoveFails(t)
    <3>1. save_returns(t) /\ UNCHANGED <<jar, version, got>>
          /\ (file' = file \/ file' = Absent)
      BY <2>3 DEF ReadFails, WriteFails, MoveFails, files, browser
    <3>2. \A u \in Tasks : saver'[u] = "writing" => saver[u] = "writing"
      BY <1>t, <3>1 DEF save_returns, TypeOK
    <3> QED
      BY <1>w, <3>1, <3>2
  <2>4. ASSUME NEW frames \in SUBSET Origins, Saved(t, frames) \/ MergeFails(t, frames)
        PROVE  Ordered'
    <3>1. saver[t] = "writing" /\ UNCHANGED <<jar, version, got>> /\ save_returns(t)
      BY <2>4 DEF Saved, MergeFails, replaces, browser
    <3>2. \A u \in Tasks : saver'[u] # "writing"
      BY <1>t, <3>1, Alone DEF save_returns, TypeOK
    <3>3. \A k \in Cookies :
            /\ got[t][k] # 0 => file'[k] = got[t][k]
            /\ got[t][k] = 0 =>
                 file'[k] = 0 \/ file'[k] = IF file = Absent THEN 0 ELSE file[k]
      BY <2>4, SavedCookies
    <3> QED
      BY <1>t, <1>n, <3>1, <3>2, <3>3 DEF Ordered
  <2> QED
    BY <1>6, <2>1, <2>2, <2>3, <2>4 DEF Saving
<1>7. CASE Disconnect \/ \E b \in BOOLEAN : Crash(b)
  <2>1. /\ UNCHANGED <<jar, version>> /\ (file' = file \/ file' = Absent)
        /\ \A t \in Tasks : saver'[t] # "writing"
    BY <1>7 DEF Disconnect, Crash, session_ends, browser, files
  <2> QED
    BY <1>t, <1>n, <2>1 DEF Ordered
<1>9. ASSUME NEW k \in Keys, SiteSets(k) \/ SiteDeletes(k) PROVE Ordered'
  <2>0. UNCHANGED <<file, saver, got>>
    BY <1>9 DEF SiteSets, SiteDeletes, files
  <2>1. \A c \in Cookies :
          \/ jar'[c] = jar[c] /\ version'[c] = version[c]
          \/ jar'[c] = 0 /\ version'[c] = version[c]
          \/ version'[c] = version[c] + 1 /\ jar'[c] = version'[c]
    BY <1>9, <1>n, <1>t DEF SiteSets, SiteDeletes, TypeOK, Contents
  <2> QED
    BY <1>t, <1>n, <2>0, <2>1 DEF Ordered
<1>8. ASSUME NEW k \in Origins, DocumentOpens(k) PROVE Ordered'
  <2>1. UNCHANGED <<file, saver, got, version>>
        /\ \A c \in Cookies : jar'[c] = jar[c]
    BY <1>8, <1>t, Basics DEF DocumentOpens, files, TypeOK, Contents
  <2> QED
    BY <1>t, <1>n, <2>1 DEF Ordered
<1>10. CASE UNCHANGED vars
  BY <1>10, <1>w DEF vars, browser, files
<1> QED
  BY <1>1, <1>2, <1>3, <1>4, <1>6, <1>7, <1>8, <1>9, <1>10
     DEF Next, Loading, Sites

\* Every step keeps what the monitor compares with in the file.
LEMMA KnownStep == IInv /\ [Next]_vars => LastKnownIsSaved'
<1> SUFFICES ASSUME IInv, [Next]_vars PROVE LastKnownIsSaved'
  OBVIOUS
<1>t. TypeOK /\ TypeOK' /\ LoadAlone /\ Ordered /\ LastKnownIsSaved
  BY TypeStep DEF IInv
<1>k. UNCHANGED <<file, last, missed, connected>> => LastKnownIsSaved'
  BY <1>t DEF LastKnownIsSaved
<1>m. missed' \/ ~connected' => LastKnownIsSaved'
  BY DEF LastKnownIsSaved
<1>1. CASE \E kept \in BOOLEAN : Connect(kept)
  <2>1. last' = None
    BY <1>1 DEF Connect
  <2> QED
    BY <2>1, Basics DEF LastKnownIsSaved, None
<1>2. CASE LoadSets
  <2>1. /\ load = file /\ file # Absent /\ UNCHANGED <<file, missed, connected>>
        /\ last' = last \/ last' = cookies_of(file)
    BY <1>2, <1>t DEF LoadSets, loading, LoadAlone, files
  <2>2. CASE last' = last
    BY <1>k, <2>1, <2>2
  <2>3. CASE last' = cookies_of(file)
    <3>1. \A k \in Cookies : last'[k] = file[k] /\ file[k] \in Nat
      BY <2>1, <2>3, <1>t, Basics, Numbers DEF cookies_of, TypeOK
    <3> QED
      BY <2>1, <3>1 DEF LastKnownIsSaved
  <2> QED
    BY <2>1, <2>2, <2>3
<1>6. ASSUME NEW t \in Tasks, Saving(t) PROVE LastKnownIsSaved'
  <2>1. CASE LockTaken(t) \/ CookiesRead(t) \/ ReadFails(t)
    BY <2>1, <1>k DEF LockTaken, CookiesRead, ReadFails, files, browser
  <2>2. CASE WriteFails(t) \/ MoveFails(t)
    BY <2>2, <1>m DEF WriteFails, MoveFails
  <2>3. ASSUME NEW frames \in SUBSET Origins, Saved(t, frames) \/ MergeFails(t, frames)
        PROVE  LastKnownIsSaved'
    <3>1. last' = got[t]
      BY <2>3 DEF Saved, MergeFails, replaces
    <3>2. \A k \in Cookies : got[t][k] \in Nat
      BY <1>t, Numbers DEF TypeOK
    <3>3. \A k \in Cookies :
            file' # Absent /\ (got[t][k] # 0 => file'[k] = got[t][k])
      BY <2>3, SavedCookies
    <3> QED
      BY <3>1, <3>2, <3>3 DEF LastKnownIsSaved
  <2> QED
    BY <1>6, <2>1, <2>2, <2>3 DEF Saving
<1>7. CASE Disconnect \/ \E b \in BOOLEAN : Crash(b)
  BY <1>7, <1>m DEF Disconnect, Crash, session_ends
<1>8. CASE LoadFails \/ ChangeFound \/ StopRequested \/ Sites \/ UNCHANGED vars
  BY <1>8, <1>k DEF LoadFails, ChangeFound, StopRequested, Sites, SiteSets,
     SiteDeletes, DocumentOpens, vars, files, browser
<1> QED
  BY <1>1, <1>2, <1>6, <1>7, <1>8 DEF Next, Loading

LEMMA Step == IInv /\ [Next]_vars => IInv'
BY TypeStep, LockStep, OrderStep, KnownStep DEF IInv

\* The inductive invariant holds in every reachable state.
THEOREM Invariance == Spec => []IInv
<1>1. Init => IInv
  BY InitInv
<1>2. IInv /\ [Next]_vars => IInv'
  BY Step
<1> QED
  BY <1>1, <1>2, PTL DEF Spec

\* Every variable stays in its type, whatever crashes and fails.
THEOREM TypeCorrect == Spec => []TypeOK
<1>1. IInv => TypeOK
  BY DEF IInv
<1> QED
  BY <1>1, Invariance, PTL

\* What the monitor compares with is in the file unless the last save failed.
THEOREM LastKnownSaved == Spec => []LastKnownIsSaved
<1>1. IInv => LastKnownIsSaved
  BY DEF IInv
<1> QED
  BY <1>1, Invariance, PTL

-----------------------------------------------------------------------------
\* What a step does to the file: nothing, a merge, a loss or a replacement.
LEMMA FileSteps ==
  ASSUME [Next]_vars
  PROVE  \/ UNCHANGED <<file, bak>>
         \/ \E t \in Tasks : \E frames \in SUBSET Origins :
              Saved(t, frames) \/ MergeFails(t, frames)
         \/ file' = Absent /\ to_backup
<1>1. CASE \E t \in Tasks : Saving(t)
  BY <1>1 DEF Saving, LockTaken, CookiesRead, ReadFails, WriteFails, MoveFails, files
<1>2. CASE \E b \in BOOLEAN : Crash(b)
  BY <1>2 DEF Crash, files
<1>3. CASE \/ \E kept \in BOOLEAN : Connect(kept)
           \/ Loading \/ ChangeFound \/ StopRequested \/ Disconnect \/ Sites
           \/ UNCHANGED vars
  BY <1>3 DEF Connect, Loading, LoadSets, LoadFails, ChangeFound, StopRequested,
     Disconnect, Sites, SiteSets, SiteDeletes, DocumentOpens, vars, files
<1> QED
  BY <1>1, <1>2, <1>3 DEF Next

\* A step uses at most one fault.  One that loses the file uses it, and so does
\* a failed merge; a save that succeeds uses none.
LEMMA FaultSteps ==
  ASSUME IInv, [Next]_vars
  PROVE  /\ \/ failures' + crashes' = failures + crashes
            \/ failures' + crashes' = failures + crashes + 1
         /\ file' # file \/ bak' # bak =>
              \/ failures' + crashes' = failures + crashes + 1
              \/ \E t \in Tasks : \E frames \in SUBSET Origins : Saved(t, frames)
         /\ \A t \in Tasks : \A frames \in SUBSET Origins :
              Saved(t, frames) => failures' + crashes' = failures + crashes
<1>1. failures \in Nat /\ crashes \in Nat
  BY Basics DEF IInv, TypeOK
<1>2. ASSUME NEW t \in Tasks, NEW frames \in SUBSET Origins, Saved(t, frames)
      PROVE  failures' + crashes' = failures + crashes
  BY <1>2 DEF Saved, replaces
<1>3. CASE \E t \in Tasks : Saving(t)
  <2>1. \/ UNCHANGED <<file, bak, failures, crashes>>
        \/ failures' = failures + 1 /\ crashes' = crashes
        \/ \E t \in Tasks : \E frames \in SUBSET Origins : Saved(t, frames)
    BY <1>3 DEF Saving, LockTaken, CookiesRead, ReadFails, WriteFails, MoveFails,
       MergeFails, replaces, fails, files
  <2> QED
    BY <1>1, <1>2, <2>1
<1>4. CASE \E b \in BOOLEAN : Crash(b)
  <2>1. failures' = failures /\ crashes' = crashes + 1
    BY <1>4 DEF Crash
  <2> QED
    BY <1>1, <1>2, <2>1
<1>5. CASE \/ \E kept \in BOOLEAN : Connect(kept)
           \/ Loading \/ ChangeFound \/ StopRequested \/ Disconnect \/ Sites
           \/ UNCHANGED vars
  <2>1. /\ UNCHANGED <<file, bak, crashes>>
        /\ failures' = failures \/ failures' = failures + 1
    BY <1>5 DEF Connect, Loading, LoadSets, LoadFails, ChangeFound, StopRequested,
       Disconnect, Sites, SiteSets, SiteDeletes, DocumentOpens, vars, files, fails
  <2> QED
    BY <1>1, <1>2, <2>1
<1> QED
  BY <1>3, <1>4, <1>5 DEF Next

\* A saved cookie is never replaced by an older one, for any interleaving of
\* the monitor, stop(), loads, failures and crashes, and vanishes from a file
\* that stays only when a merge fails.
THEOREM NeverOlder == Spec => CookiesNeverOlder
<1>1. IInv /\ [Next]_vars =>
        (file # Absent /\ file' # Absent =>
           \A k \in Cookies :
             \/ file[k] <= file'[k]
             \/ file'[k] = 0 /\ bak' = file /\ failures' > failures)
  <2> SUFFICES ASSUME IInv, [Next]_vars, file # Absent, file' # Absent,
                      NEW k \in Cookies
               PROVE  \/ file[k] <= file'[k]
                      \/ file'[k] = 0 /\ bak' = file /\ failures' > failures
    OBVIOUS
  <2>1. file[k] \in Nat /\ failures \in Nat
    BY Numbers, Basics DEF IInv, TypeOK
  <2>2. ASSUME NEW t \in Tasks, NEW frames \in SUBSET Origins,
               Saved(t, frames) \/ MergeFails(t, frames)
        PROVE  \/ file[k] <= file'[k]
               \/ file'[k] = 0 /\ bak' = file /\ failures' > failures
    <3>1. saver[t] = "writing" /\ (got[t][k] # 0 => file[k] <= got[t][k])
      BY <2>2 DEF Saved, MergeFails, replaces, IInv, Ordered
    <3>2. \A c \in Cookies :
            /\ got[t][c] # 0 => file'[c] = got[t][c]
            /\ got[t][c] = 0 =>
                 \/ file'[c] = IF file = Absent THEN 0 ELSE file[c]
                 \/ MergeFails(t, frames) /\ file'[c] = 0
      BY <2>2, SavedCookies
    <3>3. MergeFails(t, frames) => bak' = file /\ failures' > failures
      BY <2>1 DEF MergeFails, replaces, to_backup, fails
    <3> QED
      BY <2>1, <3>1, <3>2, <3>3
  <2> QED
    BY <2>1, <2>2, FileSteps
<1> QED
  BY <1>1, Invariance, PTL DEF Spec, CookiesNeverOlder

\* When the file disappears, its content is in the backup.
THEOREM LossBackedUp == Spec => LostOnlyToBackup
<1>1. [Next]_vars => (file # Absent /\ file' = Absent => bak' = file)
  BY FileSteps DEF Saved, MergeFails, replaces, to_backup
<1> QED
  BY <1>1, PTL DEF Spec, LostOnlyToBackup

\* The file implements the abstract store: without a fault it only grows by
\* merging in what a browser holds, in one piece, and what a fault takes from
\* it is in the backup.
THEOREM Refinement == Spec => StoreRefined
<1>1. Init => Store!Init
  BY DEF Init, Store!Init
<1>2. IInv /\ [Next]_vars => [Store!Next]_(Store!vars)
  <2> SUFFICES ASSUME IInv, [Next]_vars PROVE [Store!Next]_(Store!vars)
    OBVIOUS
  <2>1. CASE UNCHANGED <<file, bak>>
    <3>1. \/ failures' + crashes' = failures + crashes
          \/ Store!Survive
      BY <2>1, FaultSteps DEF Store!Survive, Store!Fault
    <3> QED
      BY <2>1, <3>1 DEF Store!Next, Store!vars
  <2>2. ASSUME NEW t \in Tasks, NEW frames \in SUBSET Origins, Saved(t, frames)
        PROVE  Store!Next
    <3>1. got[t] \in Contents /\ jar \in Contents
      BY DEF IInv, TypeOK
    <3>2. storage_state(t, frames) \in [Keys -> Versions]
      BY <3>1, Shapes DEF storage_state, Contents
    <3>3. file' = Store!merged(file, storage_state(t, frames))
      BY <2>2 DEF Saved, replaces, merge_storage_states, Store!merged, None, storage_state
    <3>4. Store!keep_backup /\ failures' + crashes' = failures + crashes
      BY <2>2, FaultSteps DEF Saved, replaces, to_backup, Store!keep_backup
    <3> QED
      BY <3>2, <3>3, <3>4 DEF Store!Next, Store!Merge
  <2>3. CASE file' = Absent /\ to_backup
    <3>1. CASE UNCHANGED <<file, bak>>
      BY <2>1, <3>1
    <3>2. CASE failures' + crashes' = failures + crashes + 1
      BY <2>3, <3>2 DEF Store!Next, Store!Lose, Store!Fault, Store!keep_backup, to_backup
    <3>3. CASE \E t \in Tasks : \E frames \in SUBSET Origins : Saved(t, frames)
      BY <2>2, <3>3
    <3> QED
      BY <3>1, <3>2, <3>3, FaultSteps
  <2>4. ASSUME NEW t \in Tasks, NEW frames \in SUBSET Origins, MergeFails(t, frames)
        PROVE  Store!Next
    <3>1. got[t] \in Contents /\ jar \in Contents /\ failures \in Nat /\ crashes \in Nat
      BY Basics DEF IInv, TypeOK
    <3>2. storage_state(t, frames) \in [Keys -> Versions]
      BY <3>1, Shapes DEF storage_state, Contents
    <3>3. Store!Fault
      BY <2>4, <3>1 DEF MergeFails, replaces, fails, Store!Fault
    <3>4. Store!keep_backup /\ file # Absent /\ file' = storage_state(t, frames)
      BY <2>4 DEF MergeFails, replaces, to_backup, Store!keep_backup
    <3> QED
      BY <3>2, <3>3, <3>4 DEF Store!Next, Store!Replace
  <2> QED
    BY <2>1, <2>2, <2>3, <2>4, FileSteps
<1> QED
  BY <1>1, <1>2, Invariance, PTL DEF Spec, StoreRefined, Store!Spec
=============================================================================
