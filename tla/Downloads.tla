------------------------------ MODULE Downloads ------------------------------
(***************************************************************************)
(* The downloads watchdog, with three detectors of one download: Chrome's   *)
(* download events and a poll of the directory for each of them, the        *)
(* network responses, which fetch a file in the background, and the check   *)
(* for a PDF after a navigation, which fetches it too.  All of them write   *)
(* into or look at one directory, and all files want the same name.         *)
(*                                                                         *)
(* An action is the code between two awaits.  A FileDownloadedEvent is      *)
(* handled where it is dispatched: its handler only adds a path to a list   *)
(* that has it once.                                                        *)
(***************************************************************************)
EXTENDS Naturals, FiniteSets

CONSTANTS
  Urls,      \* files the page offers to the two fetching detectors
  Guids,     \* downloads of Chrome
  MaxCopies, \* bound: number in "name (n).ext"
  MaxPolls,  \* looks at the directory in one poll (20 s, one every 5 s)
  Nav        \* the task of the navigation check

ASSUME DownloadsAssumption ==
  /\ Urls \intersect Guids = {} /\ Nav \notin Urls \union Guids
  /\ "nobody" \notin Guids
  /\ MaxCopies \in Nat /\ MaxPolls \in Nat

VARIABLES
  dir,                  \* the downloads directory: path -> content
  native,               \* Chrome's downloads
  native_path,          \* where Chrome has put a finished one
  cdp_downloads_info,   \* _cdp_downloads_info: "none", "open" or "handled"
  poll, initial_files,  \* _handle_cdp_download: looks left, files seen at first
  fetch,                \* the fetching tasks: their await, URL and file name
  session_pdf_urls,     \* _session_pdf_urls: URL -> path
  detected_downloads,   \* _detected_downloads
  downloaded_files,     \* _downloaded_files of the session: paths reported
  running,              \* the session has not been stopped
  saves                 \* auxiliary: files written for a URL

chrome == <<native, native_path>>
polls == <<poll, initial_files>>
maps == <<session_pdf_urls, detected_downloads>>
vars == <<dir, chrome, cdp_downloads_info, polls, fetch, maps, downloaded_files,
          running, saves>>

Sources == Urls \union Guids
file(n) == <<"file", n>>
partial(g) == <<"partial", g>>
Names == {file(n) : n \in 0 .. MaxCopies}
Paths == Names \union {partial(g) : g \in Guids}
NoPath == <<"none", 0>>
Content(source, size) == [of |-> source, size |-> size]
Nothing == Content("nobody", "empty")
Contents == [of : Sources, size : {"empty", "part", "full"}] \union {Nothing}
FetchTasks == Urls \union {Nav}
NoFetch == [at |-> "idle", url |-> "nobody", path |-> NoPath]
FetchPCs == {"idle", "created", "session", "fetching", "writing"}

present == {p \in Paths : dir[p] # Nothing}

Init ==
  /\ dir = [p \in Paths |-> Nothing]
  /\ native = [g \in Guids |-> "none"] /\ native_path = [g \in Guids |-> NoPath]
  /\ cdp_downloads_info = [g \in Guids |-> "none"]
  /\ poll = [g \in Guids |-> 0] /\ initial_files = [g \in Guids |-> {}]
  /\ fetch = [t \in FetchTasks |-> NoFetch]
  /\ session_pdf_urls = [u \in Urls |-> NoPath] /\ detected_downloads = {}
  /\ downloaded_files = {} /\ running = TRUE
  /\ saves = [u \in Urls |-> 0]

\* The first of "name", "name (1)", "name (2)" ... that no file has.
unique_name(p) ==
  \E n \in 0 .. MaxCopies :
    /\ p = file(n) /\ p \notin present
    /\ \A k \in 0 .. n - 1 : file(k) \in present

dispatch(p) == downloaded_files' = downloaded_files \union {p}

-----------------------------------------------------------------------------
\* Chrome renames the partial file at the end, to a name that is free.
ChromeCompletes(g) ==
  /\ native[g] = "loading"
  /\ \E p \in Names :
       /\ unique_name(p)
       /\ dir' = [dir EXCEPT ![partial(g)] = Nothing, ![p] = Content(g, "full")]
       /\ native_path' = [native_path EXCEPT ![g] = p]
  /\ native' = [native EXCEPT ![g] = "completed"]
  /\ UNCHANGED <<cdp_downloads_info, polls, fetch, maps, downloaded_files,
                 running, saves>>

ChromeCancels(g) ==
  /\ native[g] = "loading"
  /\ native' = [native EXCEPT ![g] = "canceled"]
  /\ dir' = [dir EXCEPT ![partial(g)] = Nothing]
  /\ UNCHANGED <<native_path, cdp_downloads_info, polls, fetch, maps,
                 downloaded_files, running, saves>>

\* download_will_begin_handler notes the download and creates the task of
\* _handle_cdp_download.  Chrome has written something to the partial file,
\* or writes too little to be seen before it is renamed.
DownloadWillBegin(g) ==
  /\ running /\ native[g] = "none"
  /\ native' = [native EXCEPT ![g] = "loading"]
  /\ \E size \in {"empty", "part"} :
       dir' = [dir EXCEPT ![partial(g)] = Content(g, size)]
  /\ cdp_downloads_info' = [cdp_downloads_info EXCEPT ![g] = "open"]
  /\ poll' = [poll EXCEPT ![g] = MaxPolls]
  /\ initial_files' = [initial_files EXCEPT ![g] = {NoPath}]
  /\ UNCHANGED <<native_path, fetch, maps, downloaded_files, running, saves>>

\* Mutant: what polling has reported is not reported again.
BugProgressChecksHandled(g) ==
  IF cdp_downloads_info[g] = "handled"
  THEN UNCHANGED <<downloaded_files, cdp_downloads_info>>
  ELSE /\ dispatch(native_path[g])
       /\ cdp_downloads_info' = [cdp_downloads_info EXCEPT ![g] = "handled"]

\* _track_download, then the mark for the poll.
track_download(g) ==
  /\ dispatch(native_path[g])
  /\ cdp_downloads_info' = [cdp_downloads_info EXCEPT ![g] = "handled"]

\* Mutant: progress is taken for completion.
BugDownloadProgress(g) ==
  /\ running /\ native[g] \in {"loading", "completed"}
  /\ native' = [native EXCEPT ![g] = "tracked"]
  /\ track_download(g)
  /\ UNCHANGED <<dir, native_path, polls, fetch, maps, running, saves>>

\* download_progress_handler, for a local browser: the event may name the
\* file or not.
DownloadProgress(g) ==
  /\ running /\ native[g] = "completed"
  /\ \/ /\ native' = [native EXCEPT ![g] = "tracked"]
        /\ track_download(g)
     \/ /\ native' = [native EXCEPT ![g] = "unnamed"]
        /\ UNCHANGED <<downloaded_files, cdp_downloads_info>>
  /\ UNCHANGED <<dir, native_path, polls, fetch, maps, running, saves>>

-----------------------------------------------------------------------------
\* The task lists the directory when it first runs ...
PollStarts(g) ==
  /\ poll[g] = MaxPolls /\ initial_files[g] = {NoPath}
  /\ initial_files' = [initial_files EXCEPT ![g] = present]
  /\ UNCHANGED <<dir, chrome, cdp_downloads_info, poll, fetch, maps,
                 downloaded_files, running, saves>>

polling(g) == poll[g] > 0 /\ initial_files[g] # {NoPath}

\* Mutant: only a file of the expected name is looked for.
BugNewFiles(g) ==
  {p \in {file(0)} \ initial_files[g] : p \in present /\ dir[p].size # "empty"}

new_files(g) ==
  {p \in present \ initial_files[g] : dir[p].size # "empty"}

\* ... and looks for a file that is new, whatever its name.
PollLooks(g) ==
  /\ polling(g)
  /\ IF new_files(g) = {} \/ cdp_downloads_info[g] = "handled"
     THEN UNCHANGED <<downloaded_files, cdp_downloads_info>>
     ELSE /\ \E p \in new_files(g) : dispatch(p)
          /\ cdp_downloads_info' = [cdp_downloads_info EXCEPT ![g] = "handled"]
  /\ IF new_files(g) = {} /\ poll[g] > 1
     THEN /\ poll' = [poll EXCEPT ![g] = @ - 1]
          /\ UNCHANGED initial_files
     ELSE /\ poll' = [poll EXCEPT ![g] = 0]
          /\ initial_files' = [initial_files EXCEPT ![g] = {}]
  /\ UNCHANGED <<dir, chrome, fetch, maps, running, saves>>

-----------------------------------------------------------------------------
go(t, at, u, p) ==
  fetch' = [fetch EXCEPT ![t] = [at |-> at, url |-> u, path |-> p]]
ends(t) == fetch' = [fetch EXCEPT ![t] = NoFetch]
downloaded(u) == session_pdf_urls[u] # NoPath

\* on_response_received marks the URL and creates the background task.
ResponseReceived(u) ==
  /\ running /\ u \notin detected_downloads
  /\ detected_downloads' = detected_downloads \union {u}
  /\ go(u, "created", u, NoPath)
  /\ UNCHANGED <<dir, chrome, cdp_downloads_info, polls, session_pdf_urls,
                 downloaded_files, running, saves>>

\* download_file_from_url looks the URL up before its first await.
BackgroundStarts(u) ==
  /\ fetch[u].at = "created"
  /\ IF downloaded(u) THEN ends(u) ELSE go(u, "session", u, NoPath)
  /\ UNCHANGED <<dir, chrome, cdp_downloads_info, polls, maps, downloaded_files,
                 running, saves>>

\* on_NavigationCompleteEvent, one at a time on the event bus, until
\* trigger_pdf_download has asked the page for its URL.
NavigationCompletes(u) ==
  /\ running /\ fetch[Nav] = NoFetch
  /\ go(Nav, "session", u, NoPath)
  /\ UNCHANGED <<dir, chrome, cdp_downloads_info, polls, maps, downloaded_files,
                 running, saves>>

\* Mutant: a navigation fetches again what it has fetched before.
BugAlreadyDownloaded(t) == FALSE

\* Only trigger_pdf_download looks the URL up after the awaits.
already_downloaded(t) == t = Nav /\ downloaded(fetch[t].url)

\* The name of the file is chosen before the fetch is awaited.
NameChosen(t) ==
  /\ fetch[t].at = "session"
  /\ IF already_downloaded(t)
     THEN ends(t)
     ELSE \E p \in Names : unique_name(p) /\ go(t, "fetching", fetch[t].url, p)
  /\ UNCHANGED <<dir, chrome, cdp_downloads_info, polls, maps, downloaded_files,
                 running, saves>>

\* Any of the awaits fails or times out; the URL stays marked as detected.
FetchFails(t) ==
  /\ fetch[t].at \in {"session", "fetching", "writing"}
  /\ ends(t)
  /\ UNCHANGED <<dir, chrome, cdp_downloads_info, polls, maps, downloaded_files,
                 running, saves>>

\* The file is opened for writing, then written and reported.
Fetched(t) ==
  /\ fetch[t].at = "fetching"
  /\ go(t, "writing", fetch[t].url, fetch[t].path)
  /\ dir' = [dir EXCEPT ![fetch[t].path] = Content(fetch[t].url, "empty")]
  /\ UNCHANGED <<chrome, cdp_downloads_info, polls, maps, downloaded_files,
                 running, saves>>

Written(t) ==
  LET u == fetch[t].url  p == fetch[t].path IN
  /\ fetch[t].at = "writing"
  /\ ends(t)
  /\ dir' = [dir EXCEPT ![p] = Content(u, "full")]
  /\ session_pdf_urls' = [session_pdf_urls EXCEPT ![u] = p]
  /\ dispatch(p)
  /\ saves' = [saves EXCEPT ![u] = @ + 1]
  /\ UNCHANGED <<chrome, cdp_downloads_info, polls, detected_downloads,
                 running>>

-----------------------------------------------------------------------------
\* BrowserStoppedEvent, the bus being done with navigations: the tasks are
\* cancelled and awaited, the maps cleared; reset() clears the tracked files.
BrowserStopped ==
  /\ running /\ running' = FALSE /\ fetch[Nav] = NoFetch
  /\ poll' = [g \in Guids |-> 0] /\ initial_files' = [g \in Guids |-> {}]
  /\ fetch' = [t \in FetchTasks |-> NoFetch]
  /\ session_pdf_urls' = [u \in Urls |-> NoPath] /\ detected_downloads' = {}
  /\ downloaded_files' = {}
  /\ native' = [g \in Guids |-> IF native[g] = "loading" THEN "canceled"
                                ELSE native[g]]
  /\ UNCHANGED <<dir, native_path, cdp_downloads_info, saves>>

Poll == \E g \in Guids : PollStarts(g) \/ PollLooks(g)
Chrome == \E g \in Guids :
  ChromeCompletes(g) \/ ChromeCancels(g)
  \/ DownloadWillBegin(g) \/ DownloadProgress(g)
Fetch == \/ \E u \in Urls : \/ ResponseReceived(u) \/ BackgroundStarts(u)
                            \/ NavigationCompletes(u)
         \/ \E t \in FetchTasks : \/ NameChosen(t) \/ FetchFails(t)
                                  \/ Fetched(t) \/ Written(t)
Next == Chrome \/ Poll \/ Fetch \/ BrowserStopped

Spec == Init /\ [][Next]_vars

-----------------------------------------------------------------------------
\* Every variable stays in its type.
TypeOK ==
  /\ dir \in [Paths -> Contents]
  /\ native \in [Guids -> {"none", "loading", "canceled", "completed",
                           "tracked", "unnamed"}]
  /\ native_path \in [Guids -> Names \union {NoPath}]
  /\ cdp_downloads_info \in [Guids -> {"none", "open", "handled"}]
  /\ poll \in [Guids -> 0 .. MaxPolls]
  /\ initial_files \in [Guids -> SUBSET (Paths \union {NoPath})]
  /\ fetch \in [FetchTasks -> [at : FetchPCs, url : Urls \union {"nobody"},
                               path : Names \union {NoPath}]]
  /\ session_pdf_urls \in [Urls -> Names \union {NoPath}]
  /\ detected_downloads \subseteq Urls
  /\ downloaded_files \subseteq Paths
  /\ running \in BOOLEAN
  /\ saves \in [Urls -> Nat]

\* However responses, navigations and failures follow each other, a file is
\* downloaded at most twice: once by each detector, when they overlap.
DownloadedAtMostTwice == \A u \in Urls : saves[u] <= 2

\* A finished download whose completion names its file is tracked, whatever
\* the poll has reported for it before: a partial file or another download's.
NamedDownloadTracked ==
  \A g \in Guids : running /\ native[g] = "tracked" =>
    native_path[g] \in downloaded_files

\* A poll that began before the file was there and ends after it was finished
\* leaves it tracked under its own path, named by its completion or not, unless
\* another file is new in the directory at that look and may be taken for it,
\* or a fetch that chose the same name has written over it.
FinishedInTimeReported ==
  [][\A g \in Guids :
       /\ polling(g) /\ poll'[g] = 0 /\ running'
       /\ native[g] \in {"completed", "tracked", "unnamed"}
       /\ native_path[g] \notin initial_files[g] /\ dir[native_path[g]].of = g
       => \/ native_path[g] \in downloaded_files'
          \/ \E p \in new_files(g) : p # native_path[g]]_vars

-----------------------------------------------------------------------------
\* downloads_watchdog.py: the name of a download is made unique if the file
\* exists, so a file that was written is not overwritten by another one.
NoDownloadOverwritten ==
  [][\A p \in Names : dir[p].size = "full" => dir'[p].of = dir[p].of]_vars
=============================================================================
