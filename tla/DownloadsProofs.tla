--------------------------- MODULE DownloadsProofs ---------------------------
(***************************************************************************)
(* Proofs about Downloads, for any number of files, downloads, copies and  *)
(* looks at the directory: types, how often a file is downloaded, that a   *)
(* download whose completion names its file is tracked, and that one which *)
(* finishes in time is.                                                    *)
(***************************************************************************)
EXTENDS Downloads, TLAPS

\* A finished download has a name; a task that is under way has a URL, that of
\* the response which created it, and once it fetches a name.
Named ==
  /\ \A g \in Guids :
       native[g] \in {"completed", "tracked"} => native_path[g] \in Names
  /\ \A t \in FetchTasks :
       /\ fetch[t].at # "idle" => /\ fetch[t].url \in Urls
                                  /\ t \in Urls => fetch[t].url = t
       /\ fetch[t].at \in {"fetching", "writing"} => fetch[t].path \in Names

\* The response of u may still lead to a download, and so may the navigation
\* that is under way.
FromResponse(u) ==
  \/ running /\ u \notin detected_downloads
  \/ fetch[u].at # "idle"
FromNavigation(u) ==
  fetch[Nav].at \in {"fetching", "writing"} /\ fetch[Nav].url = u

Counted(u) ==
  /\ saves[u] \in 0 .. 2
  /\ saves[u] = 2 => ~FromResponse(u) /\ ~FromNavigation(u)
  /\ saves[u] = 1 => ~FromResponse(u) \/ ~FromNavigation(u)
  /\ running /\ saves[u] # 0 => downloaded(u)
  /\ running /\ fetch[u].at # "idle" => u \in detected_downloads

Quiet == ~running => \A t \in FetchTasks : fetch[t].at = "idle"

IInv ==
  /\ TypeOK /\ Named /\ NamedDownloadTracked
  /\ (\A u \in Urls : Counted(u)) /\ Quiet
-----------------------------------------------------------------------------
LEMMA PathFacts ==
  /\ NoPath \notin Names /\ Names \subseteq Paths
  /\ \A g \in Guids : partial(g) \in Paths
  /\ Urls \subseteq FetchTasks /\ Nav \in FetchTasks /\ Nav \notin Urls
  /\ \A s \in Sources, z \in {"empty", "part", "full"} : Content(s, z) \in Contents
  /\ Nothing \in Contents /\ Guids \subseteq Sources /\ Urls \subseteq Sources
  /\ NoFetch.at = "idle" /\ NoFetch.url = "nobody" /\ NoFetch.path = NoPath
BY DownloadsAssumption DEF NoPath, Names, Paths, file, partial, FetchTasks,
   Content, Contents, Nothing, Sources, NoFetch

FetchType == [at : FetchPCs, url : Urls \union {"nobody"},
              path : Names \union {NoPath}]

LEMMA Initially == Init => IInv
<1> SUFFICES ASSUME Init PROVE IInv
  OBVIOUS
<1> USE PathFacts, DownloadsAssumption DEF Init
<1>1. TypeOK
  <2>1. NoFetch \in FetchType
    BY DEF NoFetch, FetchType, FetchPCs
  <2> QED
    BY <2>1 DEF TypeOK, FetchType
<1>2. Named /\ NamedDownloadTracked
  BY DEF Named, NamedDownloadTracked
<1>3. \A u \in Urls : Counted(u)
  BY DEF Counted, FromResponse, FromNavigation
<1> QED
  BY <1>1, <1>2, <1>3 DEF IInv, Quiet

\* Steps that leave the fetching tasks, their maps and the counts alone.
LEMMA CountsKept ==
  ASSUME IInv, UNCHANGED <<fetch, maps, running, saves>>
  PROVE  (\A u \in Urls : Counted(u)') /\ Quiet'
BY DEF IInv, Counted, FromResponse, FromNavigation, downloaded, Quiet, maps

LEMMA NamesKept ==
  ASSUME IInv, UNCHANGED <<fetch, native, native_path>>
  PROVE  Named'
BY DEF IInv, Named

LEMMA ChromeStep ==
  ASSUME IInv, NEW g \in Guids,
         \/ ChromeCompletes(g) \/ ChromeCancels(g)
         \/ DownloadWillBegin(g) \/ DownloadProgress(g)
  PROVE  IInv'
<1> USE PathFacts, DownloadsAssumption
<1> UNCHANGED <<fetch, maps, running, saves>>
  BY DEF ChromeCompletes, ChromeCancels, DownloadWillBegin, DownloadProgress
<1>c. (\A u \in Urls : Counted(u)') /\ Quiet'
  BY CountsKept
<1>1. CASE ChromeCompletes(g)
  <2> USE <1>1 DEF ChromeCompletes, IInv, chrome, polls, maps
  <2>1. TypeOK'
    BY DEF TypeOK
  <2>2. Named' /\ NamedDownloadTracked'
    BY DEF TypeOK, Named, NamedDownloadTracked
  <2> QED
    BY <2>1, <2>2, <1>c
<1>2. CASE ChromeCancels(g)
  <2> USE <1>2 DEF ChromeCancels, IInv, chrome, polls, maps
  <2>1. TypeOK'
    BY DEF TypeOK
  <2>2. Named' /\ NamedDownloadTracked'
    BY DEF TypeOK, Named, NamedDownloadTracked
  <2> QED
    BY <2>1, <2>2, <1>c
<1>3. CASE DownloadWillBegin(g)
  <2> USE <1>3 DEF DownloadWillBegin, IInv, chrome, polls, maps
  <2>1. TypeOK'
    BY DEF TypeOK
  <2>2. Named' /\ NamedDownloadTracked'
    BY DEF TypeOK, Named, NamedDownloadTracked
  <2> QED
    BY <2>1, <2>2, <1>c
<1>4. CASE DownloadProgress(g)
  <2> USE <1>4 DEF DownloadProgress, IInv, chrome, polls, maps
  <2>1. native_path[g] \in Names
    BY DEF Named
  <2>3. /\ downloaded_files \subseteq downloaded_files'
        /\ downloaded_files' \subseteq Paths
    BY <2>1 DEF TypeOK, track_download, dispatch
  <2>i. /\ cdp_downloads_info' \in [Guids -> {"none", "open", "handled"}]
        /\ native' \in [Guids -> {"none", "loading", "canceled", "completed",
                                  "tracked", "unnamed"}]
    BY DEF TypeOK, track_download
  <2>2. TypeOK'
    BY <2>3, <2>i DEF TypeOK
  <2>4. Named'
    BY <2>1 DEF TypeOK, Named
  <2>5. NamedDownloadTracked'
    <3> SUFFICES ASSUME NEW h \in Guids, running', native'[h] = "tracked"
                 PROVE  native_path'[h] \in downloaded_files'
      BY DEF NamedDownloadTracked
    <3>1. CASE native[h] = "tracked"
      BY <3>1, <2>3 DEF NamedDownloadTracked
    <3>2. CASE native[h] # "tracked"
      <4>1. h = g /\ track_download(g)
        BY <3>2 DEF TypeOK
      <4> QED
        BY <4>1 DEF track_download, dispatch
    <3> QED
      BY <3>1, <3>2
  <2> QED
    BY <2>2, <2>4, <2>5, <1>c
<1> QED
  BY <1>1, <1>2, <1>3, <1>4

LEMMA PollStep ==
  ASSUME IInv, NEW g \in Guids, PollStarts(g) \/ PollLooks(g)
  PROVE  IInv'
<1> USE PathFacts, DownloadsAssumption
<1> UNCHANGED <<dir, native, native_path, fetch, session_pdf_urls,
                detected_downloads, running, saves>>
  BY DEF PollStarts, PollLooks, chrome, maps
<1>c. (\A u \in Urls : Counted(u)') /\ Quiet' /\ Named'
  BY CountsKept, NamesKept DEF maps
<1>1. CASE PollStarts(g)
  <2> USE <1>1 DEF PollStarts, IInv, chrome, polls, maps
  <2>1. TypeOK'
    BY DEF TypeOK, present
  <2>2. NamedDownloadTracked'
    BY DEF NamedDownloadTracked
  <2> QED
    BY <2>1, <2>2, <1>c
<1>2. CASE PollLooks(g)
  <2> USE <1>2 DEF PollLooks, IInv, chrome, polls, maps
  <2>1. new_files(g) \subseteq Paths
    BY DEF new_files, present
  <2>2. /\ downloaded_files' \subseteq Paths
        /\ downloaded_files \subseteq downloaded_files'
        /\ cdp_downloads_info' \in [Guids -> {"none", "open", "handled"}]
    BY <2>1 DEF TypeOK, dispatch
  <2>3. /\ poll' \in [Guids -> 0 .. MaxPolls]
        /\ initial_files' \in [Guids -> SUBSET (Paths \union {NoPath})]
    <3>1. CASE new_files(g) = {} /\ poll[g] > 1
      BY <3>1 DEF TypeOK
    <3>2. CASE ~(new_files(g) = {} /\ poll[g] > 1)
      BY <3>2 DEF TypeOK
    <3> QED
      BY <3>1, <3>2
  <2>4. TypeOK'
    BY <2>2, <2>3 DEF TypeOK
  <2>5. NamedDownloadTracked'
    BY <2>2 DEF NamedDownloadTracked
  <2> QED
    BY <2>4, <2>5, <1>c
<1> QED
  BY <1>1, <1>2

\* Steps of the fetching tasks leave the files of Chrome's downloads and what was
\* reported of them alone.
LEMMA TrackedKept ==
  ASSUME IInv, UNCHANGED chrome, running' => running,
         downloaded_files \subseteq downloaded_files'
  PROVE  NamedDownloadTracked'
BY DEF IInv, chrome, NamedDownloadTracked

\* A task goes to one of its awaits or ends.
LEMMA TaskMoves ==
  ASSUME IInv, UNCHANGED chrome, NEW t \in FetchTasks,
         NEW at \in FetchPCs, NEW u \in Urls, NEW p \in Names \union {NoPath},
         t \in Urls => u = t,
         at \in {"fetching", "writing"} => p \in Names,
         ends(t) \/ go(t, at, u, p)
  PROVE  /\ fetch' \in [FetchTasks -> FetchType]
         /\ Named'
<1> USE PathFacts DEF IInv, chrome
<1>1. NoFetch \in FetchType /\ [at |-> at, url |-> u, path |-> p] \in FetchType
  BY DEF NoFetch, FetchType, FetchPCs
<1>2. fetch \in [FetchTasks -> FetchType]
  BY DEF TypeOK, FetchType
<1>3. fetch' \in [FetchTasks -> FetchType]
  BY <1>1, <1>2 DEF ends, go
<1>4. Named'
  <2>1. \A s \in FetchTasks : s # t => fetch'[s] = fetch[s]
    BY <1>2 DEF ends, go
  <2>2. fetch'[t] = NoFetch \/ fetch'[t] = [at |-> at, url |-> u, path |-> p]
    BY <1>2 DEF ends, go
  <2> QED
    BY <2>1, <2>2 DEF Named
<1> QED
  BY <1>3, <1>4

LEMMA FetchStep ==
  ASSUME IInv, NEW u \in Urls,
         ResponseReceived(u) \/ BackgroundStarts(u) \/ NavigationCompletes(u)
  PROVE  IInv'
<1> USE PathFacts, DownloadsAssumption
<1>k. /\ UNCHANGED <<dir, chrome, cdp_downloads_info, polls, downloaded_files,
                     running, session_pdf_urls, saves>>
      /\ detected_downloads' \subseteq Urls
  BY DEF ResponseReceived, BackgroundStarts, NavigationCompletes, maps, IInv, TypeOK
<1>t. NamedDownloadTracked'
  BY <1>k, TrackedKept
<1>f. fetch \in [FetchTasks -> FetchType]
  BY DEF IInv, TypeOK, FetchType
<1>m. ASSUME fetch' \in [FetchTasks -> FetchType]
      PROVE  TypeOK'
  BY <1>k, <1>m DEF IInv, TypeOK, FetchType, chrome, polls
<1>1. CASE ResponseReceived(u)
  <2>1. fetch' \in [FetchTasks -> FetchType] /\ Named'
    BY <1>1, TaskMoves DEF ResponseReceived, FetchPCs
  <2>2. Quiet'
    BY <1>1, <1>k DEF ResponseReceived, Quiet
  <2>3. \A v \in Urls : Counted(v)'
    BY <1>1, <1>k, <1>f DEF ResponseReceived, IInv, TypeOK, Counted, FromResponse,
       FromNavigation, downloaded, go
  <2> QED
    BY <2>1, <2>2, <2>3, <1>t, <1>m DEF IInv
<1>2. CASE BackgroundStarts(u)
  <2>1. fetch' \in [FetchTasks -> FetchType] /\ Named'
    BY <1>2, TaskMoves DEF BackgroundStarts, FetchPCs
  <2>2. Quiet'
    BY <1>2, <1>k, <1>f DEF IInv, BackgroundStarts, Quiet
  <2>3. \A v \in Urls : Counted(v)'
    <3> SUFFICES ASSUME NEW v \in Urls PROVE Counted(v)'
      OBVIOUS
    <3>1. /\ fetch'[Nav] = fetch[Nav]
          /\ fetch[v].at = "idle" => fetch'[v].at = "idle"
      BY <1>2, <1>f DEF BackgroundStarts, go, ends
    <3>2. Counted(v) /\ detected_downloads' = detected_downloads
      BY <1>2 DEF IInv, BackgroundStarts, maps
    <3>3. /\ FromResponse(v)' => FromResponse(v)
          /\ FromNavigation(v)' <=> FromNavigation(v)
      BY <3>1, <3>2, <1>k DEF FromResponse, FromNavigation
    <3> QED
      BY <3>1, <3>2, <3>3, <1>k DEF Counted, downloaded
  <2> QED
    BY <2>1, <2>2, <2>3, <1>t, <1>m DEF IInv
<1>3. CASE NavigationCompletes(u)
  <2>1. fetch' \in [FetchTasks -> FetchType] /\ Named'
    BY <1>3, TaskMoves DEF NavigationCompletes, FetchPCs
  <2>2. Quiet'
    BY <1>3, <1>k DEF NavigationCompletes, Quiet
  <2>3. \A v \in Urls : Counted(v)'
    BY <1>3, <1>k, <1>f DEF NavigationCompletes, maps, IInv, TypeOK, Counted,
       FromResponse, FromNavigation, downloaded, go
  <2> QED
    BY <2>1, <2>2, <2>3, <1>t, <1>m DEF IInv
<1> QED
  BY <1>1, <1>2, <1>3

\* A navigation that chooses a name has found its URL not downloaded, so nothing
\* was saved for it.
LEMMA TaskStep ==
  ASSUME IInv, NEW t \in FetchTasks,
         NameChosen(t) \/ FetchFails(t) \/ Fetched(t) \/ Written(t)
  PROVE  IInv'
<1> USE PathFacts, DownloadsAssumption
<1> DEFINE u == fetch[t].url
           p == fetch[t].path
<1>k. UNCHANGED <<chrome, cdp_downloads_info, polls, running, detected_downloads>>
  BY DEF NameChosen, FetchFails, Fetched, Written, maps
<1>f. fetch \in [FetchTasks -> FetchType]
  BY DEF IInv, TypeOK, FetchType
<1>u. u \in Urls /\ (t \in Urls => u = t)
  BY DEF IInv, Named, NameChosen, FetchFails, Fetched, Written
<1>r. running
  BY <1>u DEF IInv, Quiet, NameChosen, FetchFails, Fetched, Written
<1>q. Quiet'
  BY <1>k, <1>r DEF Quiet
<1>1. CASE NameChosen(t)
  <2>k. UNCHANGED <<dir, downloaded_files, saves, session_pdf_urls>>
    BY <1>1 DEF NameChosen, maps
  <2>1. \/ ends(t)
        \/ ~already_downloaded(t) /\ \E q \in Names : go(t, "fetching", u, q)
    BY <1>1 DEF NameChosen
  <2>2. fetch' \in [FetchTasks -> FetchType] /\ Named'
    BY <2>1, <1>k, <1>u, TaskMoves DEF FetchPCs
  <2>3. \A v \in Urls : Counted(v)'
    <3> SUFFICES ASSUME NEW v \in Urls PROVE Counted(v)'
      OBVIOUS
    <3>1. Counted(v) /\ saves[v] \in 0 .. 2 /\ fetch[t].at = "session"
      BY <1>1 DEF IInv, Counted, NameChosen
    <3>2. FromResponse(v)' => FromResponse(v)
      BY <2>1, <1>f, <1>k, <1>u, <3>1 DEF FromResponse, go, ends
    <3>3. fetch'[v].at # "idle" => fetch[v].at # "idle"
      BY <2>1, <1>f, <3>1 DEF go, ends
    <3>4. CASE t = Nav /\ u = v /\ ~already_downloaded(t)
      <4>1. saves[v] = 0
        BY <3>1, <3>4, <1>r DEF Counted, already_downloaded
      <4> QED
        BY <4>1, <3>1, <3>2, <3>3, <2>k, <1>k DEF Counted
    <3>5. CASE ~(t = Nav /\ u = v /\ ~already_downloaded(t))
      <4>1. FromNavigation(v)' => FromNavigation(v)
        BY <2>1, <1>f, <3>5 DEF FromNavigation, go, ends
      <4> QED
        BY <4>1, <3>1, <3>2, <3>3, <2>k, <1>k DEF Counted, downloaded
    <3> QED
      BY <3>4, <3>5
  <2>4. TypeOK'
    BY <2>2, <2>k, <1>k DEF IInv, TypeOK, FetchType, chrome, polls
  <2> QED
    BY <2>2, <2>3, <2>4, <2>k, <1>k, <1>q, TrackedKept DEF IInv
<1>2. CASE FetchFails(t)
  <2>k. UNCHANGED <<dir, downloaded_files, saves, session_pdf_urls>>
    BY <1>2 DEF FetchFails, maps
  <2>2. fetch' \in [FetchTasks -> FetchType] /\ Named'
    BY <1>2, <1>k, <1>u, TaskMoves DEF FetchPCs, FetchFails
  <2>3. \A v \in Urls : Counted(v)'
    BY <2>k, <1>2, <1>k, <1>f, <1>r, <1>u DEF FetchFails, IInv, TypeOK, Counted,
       FromResponse, FromNavigation, downloaded, ends
  <2>4. TypeOK'
    BY <2>2, <2>k, <1>k DEF IInv, TypeOK, FetchType, chrome, polls
  <2> QED
    BY <2>2, <2>3, <2>4, <2>k, <1>k, <1>q, TrackedKept DEF IInv
<1>3. CASE Fetched(t)
  <2>k. UNCHANGED <<downloaded_files, saves, session_pdf_urls>>
    BY <1>3 DEF Fetched, maps
  <2>1. p \in Names /\ go(t, "writing", u, p)
    BY <1>3 DEF IInv, Named, Fetched
  <2>2. fetch' \in [FetchTasks -> FetchType] /\ Named'
    BY <2>1, <1>k, <1>u, TaskMoves DEF FetchPCs
  <2>3. \A v \in Urls : Counted(v)'
    BY <2>k, <1>3, <1>k, <1>f, <1>r, <1>u DEF Fetched, IInv, TypeOK, Counted,
       FromResponse, FromNavigation, downloaded, go
  <2>d. dir' \in [Paths -> Contents]
    BY <1>3, <1>u, <2>1 DEF Fetched, IInv, TypeOK
  <2>4. TypeOK'
    BY <2>2, <2>d, <2>k, <1>k DEF IInv, TypeOK, FetchType, chrome, polls
  <2> QED
    BY <2>2, <2>3, <2>4, <2>k, <1>k, <1>q, TrackedKept DEF IInv
<1>4. CASE Written(t)
  <2>1. p \in Names
    BY <1>4 DEF IInv, Named, Written
  <2>2. fetch' \in [FetchTasks -> FetchType] /\ Named'
    BY <1>4, <1>k, <1>u, TaskMoves DEF FetchPCs, Written
  <2>3. /\ dir' \in [Paths -> Contents]
        /\ session_pdf_urls' \in [Urls -> Names \union {NoPath}]
        /\ saves' \in [Urls -> Nat]
    BY <1>4, <1>u, <2>1 DEF Written, IInv, TypeOK
  <2>4. downloaded_files \subseteq downloaded_files' /\ downloaded_files' \subseteq Paths
    BY <1>4, <1>u, <2>1 DEF Written, IInv, TypeOK, dispatch
  <2>5. TypeOK'
    BY <2>2, <2>3, <2>4, <1>k DEF IInv, TypeOK, FetchType, chrome, polls
  <2>6. \A v \in Urls : Counted(v)'
    <3> SUFFICES ASSUME NEW v \in Urls PROVE Counted(v)'
      OBVIOUS
    <3>w. /\ fetch' = [fetch EXCEPT ![t] = NoFetch] /\ fetch[t].at = "writing"
          /\ saves' = [saves EXCEPT ![u] = @ + 1]
          /\ session_pdf_urls' = [session_pdf_urls EXCEPT ![u] = p]
      BY <1>4 DEF Written, ends
    <3>t. /\ session_pdf_urls \in [Urls -> Names \union {NoPath}]
          /\ saves \in [Urls -> Nat] /\ Counted(v)
      BY DEF IInv, TypeOK
    <3>1. CASE v # u
      <4>1. saves'[v] = saves[v] /\ session_pdf_urls'[v] = session_pdf_urls[v]
        BY <3>1, <3>w, <3>t, <1>u
      <4>2. fetch'[v] = fetch[v]
        BY <3>1, <3>w, <1>f, <1>u
      <4>3. FromNavigation(v)' => FromNavigation(v)
        BY <3>w, <1>f DEF FromNavigation
      <4> QED
        BY <4>1, <4>2, <4>3, <3>t, <1>k DEF Counted, FromResponse, downloaded
    <3>2. CASE v = u
      <4>1. saves'[u] = saves[u] + 1 /\ session_pdf_urls'[u] = p
        BY <3>w, <3>t, <1>u
      <4>2. CASE t = v
        <5>1. FromResponse(v) /\ v \in detected_downloads
          BY <4>2, <3>w, <3>t, <1>r DEF FromResponse, Counted
        <5>2. fetch'[v].at = "idle" /\ fetch'[Nav] = fetch[Nav]
          BY <4>2, <3>w, <1>f
        <5>3. /\ ~FromResponse(v)'
              /\ FromNavigation(v)' <=> FromNavigation(v)
          BY <5>1, <5>2, <1>k DEF FromResponse, FromNavigation
        <5> QED
          BY <5>1, <5>2, <5>3, <4>1, <3>2, <3>t, <2>1, <1>k DEF Counted, downloaded
      <4>3. CASE t # v
        <5>0. t = Nav
          BY <4>3, <3>2, <1>u DEF FetchTasks
        <5>1. FromNavigation(v) /\ ~FromNavigation(v)'
          BY <5>0, <3>2, <3>w, <1>f DEF FromNavigation
        <5>2. fetch'[v] = fetch[v]
          BY <5>0, <3>w, <1>f
        <5>3. FromResponse(v)' <=> FromResponse(v)
          BY <5>2, <1>k DEF FromResponse
        <5> QED
          BY <5>1, <5>2, <5>3, <4>1, <3>2, <3>t, <2>1, <1>k DEF Counted, downloaded
      <4> QED
        BY <4>2, <4>3
    <3> QED
      BY <3>1, <3>2
  <2> QED
    BY <2>2, <2>4, <2>5, <2>6, <1>k, <1>q, TrackedKept DEF IInv
<1> QED
  BY <1>1, <1>2, <1>3, <1>4

LEMMA StopStep ==
  ASSUME IInv, BrowserStopped
  PROVE  IInv'
<1> USE PathFacts, DownloadsAssumption DEF BrowserStopped
<1>1. TypeOK'
  <2>1. NoFetch \in FetchType
    BY DEF NoFetch, FetchType, FetchPCs
  <2>2. native' \in [Guids -> {"none", "loading", "canceled", "completed",
                               "tracked", "unnamed"}]
    BY DEF IInv, TypeOK
  <2>3. /\ fetch' \in [FetchTasks -> FetchType]
        /\ poll' \in [Guids -> 0 .. MaxPolls]
        /\ initial_files' \in [Guids -> SUBSET (Paths \union {NoPath})]
        /\ session_pdf_urls' \in [Urls -> Names \union {NoPath}]
    BY <2>1
  <2> QED
    BY <2>2, <2>3 DEF IInv, TypeOK, FetchType
<1>2. Named'
  BY DEF IInv, TypeOK, Named
<1>3. \A u \in Urls : Counted(u)'
  BY DEF IInv, Counted, FromResponse, FromNavigation
<1> QED
  BY <1>1, <1>2, <1>3 DEF IInv, NamedDownloadTracked, Quiet
-----------------------------------------------------------------------------
\* The invariant of the detectors holds in every reachable state.
THEOREM Invariance == Spec => []IInv
<1>1. IInv /\ [Next]_vars => IInv'
  <2> SUFFICES ASSUME IInv, [Next]_vars PROVE IInv'
    OBVIOUS
  <2>1. CASE Chrome
    BY <2>1, ChromeStep DEF Chrome
  <2>2. CASE Poll
    BY <2>2, PollStep DEF Poll
  <2>3. CASE Fetch
    BY <2>3, FetchStep, TaskStep DEF Fetch
  <2>4. CASE BrowserStopped
    BY <2>4, StopStep
  <2>5. CASE UNCHANGED vars
    <3> USE <2>5 DEF vars, chrome, polls, maps, IInv
    <3>1. TypeOK' /\ Named' /\ NamedDownloadTracked'
      BY DEF TypeOK, Named, NamedDownloadTracked
    <3> QED
      BY <3>1, CountsKept
  <2> QED
    BY <2>1, <2>2, <2>3, <2>4, <2>5 DEF Next
<1> QED
  BY Initially, <1>1, PTL DEF Spec

\* Every variable of the watchdog stays in its type.
THEOREM TypeCorrect == Spec => []TypeOK
<1>1. IInv => TypeOK
  BY DEF IInv
<1> QED
  BY <1>1, Invariance, PTL

\* A file is downloaded at most twice, however responses, navigations, failures
\* and the end of the session follow each other: the response's task runs once,
\* and a navigation only goes on where nothing was saved.
THEOREM AtMostTwice == Spec => []DownloadedAtMostTwice
<1>1. IInv => DownloadedAtMostTwice
  BY DEF IInv, Counted, DownloadedAtMostTwice
<1> QED
  BY <1>1, Invariance, PTL

\* A download whose completion names its file is tracked until the session ends.
THEOREM NamedTracked == Spec => []NamedDownloadTracked
<1>1. IInv => NamedDownloadTracked
  BY DEF IInv
<1> QED
  BY <1>1, Invariance, PTL
-----------------------------------------------------------------------------
\* A poll that goes on although its download is handled has had it tracked by
\* the completion; what Chrome has finished has a name and its content.
Finished ==
  /\ \A g \in Guids :
       native[g] \in {"completed", "unnamed"} => native_path[g] \in Names
  /\ \A g \in Guids : poll[g] > 0 /\ cdp_downloads_info[g] = "handled" =>
       native[g] = "tracked"
  /\ \A p \in Names : dir[p].of \in Guids => dir[p].size = "full"

LEMMA NamesAreNotPartial ==
  /\ \A g \in Guids : partial(g) \notin Names
  /\ Nothing.of \notin Guids
  /\ \A s \in Sources, z \in {"empty", "part", "full"} :
       Content(s, z).of = s /\ Content(s, z).size = z
BY DownloadsAssumption DEF Names, partial, file, Nothing, Content

LEMMA FinishedChrome ==
  ASSUME TypeOK, Finished, NEW g \in Guids,
         \/ ChromeCompletes(g) \/ ChromeCancels(g)
         \/ DownloadWillBegin(g) \/ DownloadProgress(g)
  PROVE  Finished'
<1> USE PathFacts, NamesAreNotPartial DEF TypeOK, Finished, polls
<1>1. CASE ChromeCompletes(g)
  BY <1>1 DEF ChromeCompletes
<1>2. CASE ChromeCancels(g)
  BY <1>2 DEF ChromeCancels
<1>3. CASE DownloadWillBegin(g)
  BY <1>3 DEF DownloadWillBegin
<1>4. CASE DownloadProgress(g)
  <2>1. CASE native'[g] = "tracked"
    BY <1>4, <2>1 DEF DownloadProgress, track_download
  <2>2. CASE native'[g] # "tracked"
    BY <1>4, <2>2 DEF DownloadProgress
  <2> QED
    BY <2>1, <2>2
<1> QED
  BY <1>1, <1>2, <1>3, <1>4

LEMMA FinishedPoll ==
  ASSUME TypeOK, Finished, NEW g \in Guids, PollStarts(g) \/ PollLooks(g)
  PROVE  Finished'
<1> USE DEF TypeOK, Finished, chrome
<1>1. CASE PollStarts(g)
  BY <1>1 DEF PollStarts
<1>2. CASE PollLooks(g)
  <2>1. CASE new_files(g) = {}
    BY <1>2, <2>1 DEF PollLooks
  <2>2. CASE new_files(g) # {}
    BY <1>2, <2>2 DEF PollLooks
  <2> QED
    BY <2>1, <2>2
<1> QED
  BY <1>1, <1>2

LEMMA FinishedTask ==
  ASSUME IInv, Finished, NEW t \in FetchTasks,
         NameChosen(t) \/ FetchFails(t) \/ Fetched(t) \/ Written(t)
  PROVE  Finished'
<1> USE PathFacts, NamesAreNotPartial DEF IInv, TypeOK, Finished, chrome, polls
<1>1. CASE NameChosen(t) \/ FetchFails(t)
  BY <1>1 DEF NameChosen, FetchFails
<1>2. CASE Fetched(t) \/ Written(t)
  <2>1. fetch[t].url \in Urls /\ fetch[t].url \notin Guids
    BY <1>2, DownloadsAssumption DEF Named, Fetched, Written
  <2>2. CASE Fetched(t)
    BY <2>1, <2>2 DEF Fetched
  <2>3. CASE Written(t)
    BY <2>1, <2>3 DEF Written
  <2> QED
    BY <1>2, <2>2, <2>3
<1> QED
  BY <1>1, <1>2

LEMMA FinishedNext ==
  ASSUME IInv, Finished, [Next]_vars
  PROVE  Finished'
<1> USE DEF IInv, Finished
<1>1. CASE Chrome
  BY <1>1, FinishedChrome DEF Chrome
<1>2. CASE Poll
  BY <1>2, FinishedPoll DEF Poll
<1>3. ASSUME NEW u \in Urls,
             ResponseReceived(u) \/ BackgroundStarts(u) \/ NavigationCompletes(u)
      PROVE  Finished'
  BY <1>3 DEF ResponseReceived, BackgroundStarts, NavigationCompletes, chrome, polls
<1>4. CASE Fetch
  BY <1>3, <1>4, FinishedTask DEF Fetch
<1>5. CASE BrowserStopped
  BY <1>5 DEF BrowserStopped
<1>6. CASE UNCHANGED vars
  BY <1>6 DEF vars, chrome, polls
<1> QED
  BY <1>1, <1>2, <1>4, <1>5, <1>6 DEF Next

\* Only a look of its own ends a poll while the session runs.
LEMMA PollEnds ==
  ASSUME TypeOK, [Next]_vars, NEW g \in Guids,
         polling(g), poll'[g] = 0, running', native[g] # "none"
  PROVE  PollLooks(g)
<1>0. poll'[g] # poll[g]
  BY DEF polling, TypeOK
<1>1. ASSUME NEW h \in Guids, Chrome PROVE FALSE
  BY <1>0, <1>1 DEF Chrome, ChromeCompletes, ChromeCancels, DownloadWillBegin,
     DownloadProgress, polls, TypeOK
<1>2. ~Fetch /\ ~BrowserStopped /\ ~UNCHANGED vars
  BY <1>0 DEF Fetch, ResponseReceived, BackgroundStarts, NavigationCompletes,
     NameChosen, FetchFails, Fetched, Written, BrowserStopped, vars, polls
<1>3. PICK h \in Guids : PollStarts(h) \/ PollLooks(h)
  BY <1>1, <1>2 DEF Next, Poll
<1> QED
  BY <1>0, <1>3 DEF PollStarts, PollLooks, TypeOK

\* A poll that begins before the file is there and ends after it was finished
\* leaves it tracked under its own path, unless another file is new at that look
\* or a fetch has written over it: the look finds the file, and what kept it
\* from being reported is that its completion had it tracked.
THEOREM InTimeTracked == Spec => FinishedInTimeReported
<1>1. Init => Finished
  BY NamesAreNotPartial, PathFacts DEF Init, Finished
<1>2. ASSUME IInv, Finished, [Next]_vars, NEW g \in Guids,
             polling(g), poll'[g] = 0, running',
             native[g] \in {"completed", "tracked", "unnamed"},
             native_path[g] \notin initial_files[g], dir[native_path[g]].of = g,
             \A p \in new_files(g) : p = native_path[g]
      PROVE  native_path[g] \in downloaded_files'
  <2>1. PollLooks(g) /\ running
    BY <1>2, PollEnds DEF IInv, PollLooks
  <2>2. native_path[g] \in Names
    <3>1. native_path[g] \in Names \union {NoPath}
      BY <1>2 DEF IInv, TypeOK
    <3>2. native_path[g] # NoPath
      BY <1>2, PathFacts DEF IInv, Named, Finished
    <3> QED
      BY <3>1, <3>2
  <2>3. dir[native_path[g]].size = "full"
    BY <1>2, <2>2 DEF Finished
  <2>4. native_path[g] \in new_files(g)
    BY <1>2, <2>2, <2>3, PathFacts DEF new_files, present, Nothing, Content
  <2>5. CASE cdp_downloads_info[g] = "handled"
    <3>1. native_path[g] \in downloaded_files
      BY <1>2, <2>1, <2>5 DEF Finished, polling, IInv, NamedDownloadTracked
    <3> QED
      BY <2>1, <2>5, <3>1 DEF PollLooks
  <2>6. CASE cdp_downloads_info[g] # "handled"
    BY <1>2, <2>1, <2>4, <2>6 DEF PollLooks, dispatch
  <2> QED
    BY <2>5, <2>6
<1>3. IInv /\ Finished /\ [Next]_vars =>
        [\A g \in Guids :
           /\ polling(g) /\ poll'[g] = 0 /\ running'
           /\ native[g] \in {"completed", "tracked", "unnamed"}
           /\ native_path[g] \notin initial_files[g] /\ dir[native_path[g]].of = g
           => \/ native_path[g] \in downloaded_files'
              \/ \E p \in new_files(g) : p # native_path[g]]_vars
  BY <1>2
<1>4. IInv /\ Finished /\ [Next]_vars => Finished'
  BY FinishedNext
<1> QED
  BY <1>1, <1>3, <1>4, Invariance, PTL DEF Spec, FinishedInTimeReported
=============================================================================
