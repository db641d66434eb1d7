# Verification of Persona2Web's agents

Persona2Web runs two web agents on personalized tasks: **browser-use**, extended
with a personalization service (`src/browser-use/`), and **AgentOccam**
(`src/AgentOccam/`). This directory holds TLA+ models of the parts whose
correctness depends on the order in which things happen, TLC configurations
that check them on small instances, and TLAPS proofs of their main properties
for every value of the constants. Paths below are relative to
`src/browser-use/browser_use/` unless they begin with `src/`.

| module | what it models | proofs |
|---|---|---|
| `AgentLoop` | the agent's run loop and its steps | `AgentLoopProofs` |
| `SessionManager` | the pool of CDP sessions, the focus and its recovery | `SessionManagerProofs` |
| `BrowserLifecycle` | start, stop, kill, the launch of Chrome, the connection and its lock | `BrowserLifecycleProofs` |
| `PageActions` | tabs, the event bus, the selector map, actions on elements and pages, navigation | `PageActionsProofs` |
| `StateStore`, `StorageState` | the abstract store of cookies; the watchdog and the file that implement it | `StorageStateProofs` |
| `Downloads` | the three detectors of downloads | `DownloadsProofs` |
| `OccamLoop` | AgentOccam's loop, its tree of plans, notes and memory | `OccamLoopProofs` |
| `RectUnion` | the union of rectangles of the paint-order filter, turn by turn | `DomSerializerProofs` |
| `DomSerializer`, `DomSerializerMC` | from a snapshot of a page to the indices offered to the LLM | `DomSerializerProofs` |

`PROJECT.json` holds the components, the runs, the mutants, the map from every
definition to its source lines, the findings, the hazards and the theorems.
From this directory, `tlc -config AgentLoop.cfg AgentLoop.tla` checks a model
and `tlapm AgentLoopProofs.tla` checks its proofs. In a module, the operators
named `Bug...` are mutated forms of the definition that follows them;
`PROJECT.json` names the property each of them breaks.

## 1. Inventory

### The system's parts

| part | state | operations | talks to |
|---|---|---|---|
| Agent run loop, `agent/service.py` | `AgentState` (step number, failures, last output and results, paused, stopped), history, trajectory log, pause event | `run`, `step` and its phases, `multi_act`, `pause`, `resume`, `stop`, `add_new_task` | message manager, browser session by events, tools, LLM, personalization, status callbacks |
| Message manager, `agent/message_manager/` | history items, one-time read state, prompt messages | one update per step, trimming, `add_new_task` | called by the run loop |
| Personalization, `personalization/` | memory cache, index and cache files | `process_step`, task rewriting before the run, retrieval | called by the run loop; LLM; disk |
| Session manager, `browser/session_manager.py` | `_targets`, `_sessions`, `_target_sessions`, `_session_to_target`, recovery flag, event and task | attach, detach and info handlers, focus recovery, `ensure_valid_focus` | CDP events; writes `BrowserSession.agent_focus_target_id`; event bus |
| Browser session, `browser/session.py` | connection, focus, cached state and selector map, downloaded files | start, stop, kill, reset, tab events, navigation, `get_or_create_cdp_session`, `cdp_client_for_node` | event bus, session manager, watchdogs |
| Watchdogs, `browser/watchdogs/` | downloads: three lists of seen downloads; storage: last cookies and the state file; local browser: process and profile; DOM: selector map | handlers of bus events, background monitors | event bus, CDP, disk |
| Tools and registry, `tools/` | registered actions | `act` | called by `multi_act`; event bus |
| DOM service, `dom/` | per snapshot: bounds, visibility, the simplified tree and its marks, the union of rectangles, the selector map | snapshot, visibility, paint-order filter, bounding-box filter, indices, text | CDP; called by the DOM watchdog |
| File system, providers, tokens, telemetry, cloud, GIF | little or none | I/O | - |
| AgentOccam, `src/AgentOccam/AgentOccam/` | plan tree, interaction history, notes, retrieved memories | `act`, `predict_action` with branch, prune, note and memory access | its environment, LLM, retriever |
| Experiment runners | task files, result files | one task after another, or several in threads | the agents |

The agent and the browser session run on one asyncio event loop. They interact by
direct calls, by events on a bus whose handlers are tasks, and by fields that one
writes and another reads (the focus, the flags, the selector map). CDP events arrive
over one websocket and each starts a task. So code between two awaits is atomic, and
everything that is difficult happens at an await:

- **flags against work in progress:** pause, stop and the status callbacks act
  while the LLM, an action or a callback is awaited;
- **cancellation:** `wait_for` cancels `step()` at any await, and `finally` still runs;
- **stale fields:** `last_model_output`, `last_result`, the selector map and the
  client of a connection survive a step or a call that fails;
- **overlapping handlers:** attach, detach, recovery and tab switches share the
  pool and the focus; a handler looks again, or does not, after its await;
- **overlapping calls:** start, stop and kill from several tasks;
- **crash between two steps:** the replacement of the storage-state file;
- **several detectors of one thing:** the downloads watchdog;
- **long legal sequences:** branches and prunes of AgentOccam's plans;
- **passes over what earlier passes left:** coordinates moved in place, and three
  filters of the page's elements that do not know of each other.

### What makes each part correct

- *Run loop:* failures bounded; steps recorded once, in order, within budget; only
  the latest answer is acted on; a done action ends the run; the restriction to
  `done` is exact; a run ends; the LLM hears of every result.
- *Session manager:* its four maps agree; the focus is in the pool; attached
  sessions get in and detached ones leave (they may not: section 4); a recovery ends;
  a lost focus is recovered.
- *Browser session:* one open websocket, to the browser that `kill()` would
  kill; every browser and profile directory accounted for; every call returns; a
  start is heard.
- *Tabs and actions:* an index names an element of the focused tab; a navigation
  goes to the focused tab, an element's commands to its own (they may not: section 8).
- *Storage state:* the file changes in one piece; what a crash or a failure takes
  from it is in the backup; saved cookies never get older.
- *Downloads:* a finished download is tracked under its own path, and a URL is saved
  no more often than its detectors see it.
- *AgentOccam:* branch and prune keep a tree with one active, visible plan; a step
  belongs to one line of plans; the budget is kept.
- *DOM service and serializer:* what can be clicked and seen gets an index, what gets
  one is to be seen; the union of rectangles is exact.
- *Personalization and message manager:* a step gets either a memory or a page
  step; trimming drops neither the first item nor the newest ones.

`PROJECT.json` lists the hazards one by one, each at its line, with the properties
that cover it or the reason why none does.

## 2. How the modules were planned

The order was that of importance: the run loop (AgentLoop), the pool and the focus
(SessionManager), the browser's life cycle (BrowserLifecycle), the state file
(StorageState over the abstract StateStore), the downloads (Downloads), what lies
between an action and its document (PageActions, which composes the agent's steps,
the bus, the handlers of tabs, DOM and actions, and an abstraction of the session
manager), AgentOccam (OccamLoop), and the way from a snapshot to the selector map
(RectUnion, which DomSerializer extends and calls). Each has one action per operation or per
stretch of a coroutine between two awaits, invariants as conjunctions of named
parts and no recursive operator. What is left of the plan is in section 13.

Two conventions hold everywhere. A variable has the name of the field it stands
for. `pc`, or the `at` of a record, names the await at which a coroutine is
suspended; an action is all the code from that await to the next, with its calls,
early returns, error paths and `finally` blocks.

## 3. AgentLoop

### How it corresponds to the code

| `pc` | the await |
|---|---|
| `idle` | no `run()` is in progress; `outcome` is how the last one ended |
| `starting` | the browser starts, skills are registered (`service.py` 2222-2291) |
| `initial` | the initial action of the task (2895-2942) |
| `top`, `pause_wait`, `woken` | the head of the loop, waiting for the pause event, its return (2302-2325) |
| `browser`, `memory` | `_prepare_context`: browser state, personalization (1038-1129) |
| `llm`, `post_llm` | the LLM call, the new-step callback (1132-1165) |
| `act_check`, `acting`, `between` | `multi_act`: the check before the first action, `tools.act`, the wait between actions (2434-2522) |
| `after` | `step()` has returned to `_execute_step` (2200-2220) |

`step_ends` is the way out of every phase: the agent's state as the phases left it,
then `finalize`, which is `step()`'s `finally` block. `check_passes` and
`check_raises` are `_check_stop_or_pause`. `StepTimesOut` is the cancellation by
`wait_for`. `Pause`, `Resume`, `Stop` and `AddNewTask` are other tasks, which run
whenever the coroutine is suspended.

An output is the number of the LLM call that produced it. A list of results is what the
loop reads of it: the kind of its last member, whether it has only one, and the output
whose actions gave it. `results` is the local list of `multi_act`, which becomes
`last_result` only when the step's last action is through. `done_only` says which output
model the agent holds: `prompt_is_built` can only restrict it (1107-1129, 1300-1322),
`models_for_page` alone takes the restriction back (1070, 3396-3415), so that it
outlives the steps that end before that line. `llm_calls` and `run_base` are auxiliary.
The switch to a fallback LLM, the judge, `take_step`, `rerun_history`, GIFs and
telemetry are left out: none changes the state the properties are about.

### Checked

`agent_loop`: three steps, one failure and the attempt after it, two actions per
output, an initial action, a memory step, two follow-up tasks, a pause and an
interrupting callback, stop and resume anywhere: 1.35 million states. Three steps are
enough for a step, a memory step and the forced last one; one failure for both sides
of the limit; two actions for the interruption between them; a second task for what
one run leaves to the next, a third for what the second leaves behind on top of it.
`MaxInterrupts` bounds only interruptions after the prompt is built, each of which
leaves a record; those before it, while the browser state is awaited, are not bounded.

Besides the bounds on failures, numbering and the freshness of what is acted on:

- `DoneOnlyExact`: while an answer is asked for and acted on, the LLM is confined to
  `done` exactly when the step is the last or the attempt after the last failure. A
  restriction left by an earlier step, run or task would show.
- `ResultsGivenUp` says where results of performed actions are lost. Those of a
  finished step, not yet told in a prompt: to a memory step, a failure or a timeout
  before the next prompt is built. Those `multi_act` has gathered so far: to an error
  of a later action or a timeout, which take their place, or to an interruption
  between two actions (2470), after which the agent still has the results of an
  earlier step. The LLM is then asked to go on from a page on which actions it never
  hears of have been performed.
- `RepeatedOnlyWithoutAnswer`: an output is recorded under two steps only if the
  second never got an answer.

Fairness is weak fairness of the run coroutine: each of its awaits ends, by the step
timeout, the timeouts of the bus, or because an asyncio event is set. Nobody is
obliged to resume, stop or restart the agent; that is why `RunEnds` excepts a run
paused for good and `StopEndsRunUnlessPaused` a pause after the stop, which clears
the event `stop()` has set. `RunEnds` has one more exception, and the model has its
behaviour: a status callback that raises `InterruptedError` in every first step.
While there is no result, such a step is neither a failure (1210) nor counted
(`_finalize` returns at 1241), so `run()` repeats it for ever, whatever `max_steps`
is. From the first result on, every interrupted step is counted and the run ends.

`startup_pause` is violated: see finding 1.

## 4. SessionManager

### How it corresponds to the code

The browser opens and closes targets, attaches and detaches sessions and sends an
event of each over `wire`, in order. Delivery starts the handler's task, which runs
to its first await. The attach handler awaits `setAutoAttach`, adds the session
under `_lock`, and enables monitoring; `handler[s]` says where it is. The detach
handler changes the pool in one piece: no section under `_lock` awaits. An absent
key of `_target_sessions` is the empty set. `focus` is
`BrowserSession.agent_focus_target_id`.

`recovery[r]` is a task of `_recover_agent_focus`: created, waiting for another one,
creating a tab, polling for its session, activating it, and the same once more for
the fallback tab. `recovery_ends` is its `finally` block. `lose_focus` is what a
detach and `_get_session_for_target` do to the focus. `FocusSwitched` is
`get_or_create_cdp_session(focus=True)`, called by a tab event, an action or a watchdog.

Tasks may be delayed for as long as they like, which allows more orders than
asyncio's queue does. A property that holds here holds in the program; where more
than the real orders is needed to break something, nothing is claimed.

### Checked

`session`: two tabs, an iframe, two sessions and two recoveries. The four maps agree
(`PoolConsistent`), the focus is in the pool (`FocusInPool`), a recovery ends
(`RecoveryEnds`), an attached session is registered or detaches
(`AttachedSessionsRegistered`). Two tabs are the least with one to fall back on; the
iframe must not become the focus; two sessions may be of one target or of two, and
two recoveries meet. The safety properties are proved for any numbers.

Fairness is weak fairness of delivery, of each attach handler, of each recovery and
of the detachment of a destroyed target's sessions: the event loop runs what is
ready, and CDP commands are answered or fail. Opening and closing targets and
switching the focus is left to chance.

`lost_focus` is violated: see finding 2.

One divergence from a text of the repository is described here without a run of its
own. `session_manager.py` 24-27 promises "Targets only removed when ALL sessions
detach" and "No stale sessions - pool always reflects browser reality". When a session
detaches while its attach handler awaits `setAutoAttach` (395), the detach finds
nothing to remove; the handler then adds the session and its target (404), and no
event will ever remove them. `AttachResumes` has this step (its guard asks nothing of
the session still being attached), and so the dead session is in the pool, in the
states the other properties are checked in. An invariant `s in the pool => s attached
or its detach on the way` is therefore false, and no property is stated in its place.

## 5. BrowserLifecycle

### How it corresponds to the code

Each of `Callers` is a task that may call `start()`, `stop()` or `kill()`;
`call[c]` says where it is.

| `pc` | the await |
|---|---|
| `launching`, `spawn`, `wait_cdp`, `launched` | `BrowserLaunchEvent` in `LocalBrowserWatchdog`: the entry, an attempt to spawn, `_wait_for_cdp_url`, the result on its way to `on_BrowserStartEvent` |
| `lock` | `_connection_lock` |
| `version`, `handshake`, `connecting` | `connect()` under the lock: `/json/version`, the opening of the websocket (1537), targets and focus |
| `undoing` | `connect()` has failed and closes the client there is (1634) |
| `saving` | the storage state is saved before a stop |
| `closing`, `last`, `closing_last` | `reset()` awaits the end of the websocket; the event handlers' reset and that of `stop()` or `kill()` themselves |
| `killer`, `killing` | `BrowserKillEvent`, the end of the process |

`handlers` says whether the bus is the one on which the handlers were registered.
`launch_fails` is the way out of `_launch_browser`; a cancellation (`StartTimesOut`) goes
past it, as `CancelledError` is not an `Exception`. `overlapped` and `cut` are
auxiliary: properties that hold only for calls one after another, or only if the bus
has not cut one off, say so with them.

A client object has a number and the process it talks to. `client` is
`_cdp_client_root`, stored before its websocket opens; `sockets` are the clients whose
websocket is open, which a handshake opens and `stop()`, a failed `connect()` or the
end of the process closes. The two change in different steps: `reset()` awaits the
end of the client it finds (491) and afterwards clears whatever client is there
(494), and `connect()` writes the address it has asked for to the profile even if a
reset has meanwhile cleared it (1521). `unclosed` collects the clients a reset drops
without having closed their websocket.

### Checked

`lifecycle`: two callers, three calls, two attempts to launch, two processes, with
`keep_alive`: 432,314 states. Two calls that overlap and a third that finds what they
left are what the properties can tell apart. Fairness is weak fairness of each call,
whose awaits have timeouts, and strong fairness of taking the lock, which asyncio hands
on in the order of requests. `ConnectedToKnownBrowser`, `ProfileRestored` and
`OnlyTheseBrowsersLost` except overlapping calls, because two starts do launch two
browsers: the launch is outside the lock.

`OneWebsocket` says which websockets can be open: the session's client's, and those of
`unclosed`. The plain form, without `unclosed`, is false: a `kill()` that finds a
client whose handshake is still under way stops it, clears it and returns, and the
handshake then opens a websocket nobody knows of (a trace of twelve states). That is
what the property shows to be the only way: no failure, cancellation, undoing or
repeated reset leaves another one open.

Not stated: that a `start()` finds a *ready* session. A `connect()` that the bus cuts
off leaves its client behind, and later starts skip the connection (651), against
`connect()`'s "This MUST succeed or the browser is unusable" (1486). The model has the
client that stays, but neither the attachment of targets nor the focus, which a detach
clears too (`session_manager.py` 530), so it cannot say what ready means.

`reconnect` is violated: see finding 3. `CrashWatchdog`, user-supplied and cloud
browsers are not in the model: the first is never attached (`session.py` 1367-1372).
A start after the browser process has died finds a client and reconnects nothing;
the watchdog kills the process although `keep_alive` is set when it is told to.

## 6. StateStore and StorageState

`StateStore` is what the file promises to its readers, with `store` and `backup`: a
store that changes in one piece, by `Merge`, and keeps the previous content as the
backup. A fault (`faults` counts them) may pass unnoticed (`Survive`), lose the store
(`Lose`) or have it replaced by the state of a browser alone (`Replace`); in the last
two the old content is in the backup as well. `StorageState` is the watchdog:
`saver[t]` for its two tasks, the monitor and the save of `stop()` (waiting for
`_save_lock`, reading cookies, reading localStorage and writing, saved); `load`, what
the loading handler has read; the two moves of the files with a crash before, between
and after. A save merges (`Saved`), or reading, parsing or merging the old file raises,
which is only logged, and the new state replaces it (`MergeFails`, 195-201).
`Store == INSTANCE StateStore WITH ...` maps file and `.bak` to store and backup, and
failures and crashes to faults; `StoreRefined` is its specification: no step of the
watchdog is more than one fault, and none writes half of a save.

`storage`: a cookie and an origin, two values, two failures, two crashes. Merging is
per key, so one of each kind is enough; a second crash meets a half-finished
recovery of the first. Fairness is weak fairness of the load, of the monitor's check
and of each saver. `CookiesNeverOlder`: a saved cookie is never replaced by an older
one; it vanishes while the file stays only by a failed merge, whose old file is then
in the backup. `CookiesGetSaved` excepts a save that failed after
`_last_cookie_state` was set: no later check finds that change.

What the model shows without a property: a `.bak` left by a crash is never read and
the second next save overwrites it; changes of localStorage alone never trigger a
save; a cookie that was deleted comes back with the merge. A load takes at most 45 s,
less than the 60 s the monitor sleeps first, and the bus is serial: so loads are
alone in the model.

## 7. Downloads

`native[g]` is a download of Chrome, `poll[g]` the looks `_handle_cdp_download` has
left, `initial_files[g]` what it saw first; `fetch[t]` is a task that fetches a URL (of
the network responses, one per URL, and `Nav`, the PDF check after a navigation, serial
on the bus); `downloaded_files` is the session's list of tracked paths, to which the
handler of `FileDownloadedEvent`, folded into the dispatch, adds one. `dir` is the
directory, all files wanting one name.

`downloads`: one URL and two downloads of Chrome that may poll at the same time, names
up to the first copy, two looks each (the code's four only repeat the second): 1.8
million states. `NamedDownloadTracked`: a download whose completion names its file
stays tracked, whatever the polls took for it before. `FinishedInTimeReported`: a poll
that began before the file was there and ends after it was finished leaves it tracked
under its *own* path, unless another file is new at that look, which may be taken in
its place (two downloads that poll at once, 818), or a fetch of the same name has
written over it (finding 4). Safety only, so no fairness.
`overwritten` (two URLs) is violated: see finding 4.

## 8. PageActions

### How it corresponds to the code

Chrome has tabs (`open`), each showing a document (`doc`); pages open, navigate and
close tabs by themselves (`page_events`). `pool` and `url` are what `SessionManager`
knows; `recovery` is `_recover_agent_focus` with one task. `bus` holds the events
that wait: the bus runs one at a time. `stack` holds the running handlers: an event a
handler dispatches and awaits runs inside it. `agent` takes a state, then some
actions, each resolved in `selector_map`.

| event | handler |
|---|---|
| `State` | `DOMWatchdog.on_BrowserStateRequestEvent`, with its fast path for pages that are not web pages and its failures |
| `Switch`, `TabClosed`, `Close`, `FocusChanged` | `on_SwitchTabEvent`, `on_TabClosedEvent` (then the about:blank watchdog), `on_CloseTabEvent`, `on_AgentFocusChangedEvent` |
| `Navigate` | `on_NavigateToUrlEvent` |
| `Click`, `Impl` | `on_ClickElementEvent`, `_click_element_node_impl` |
| `Type` | `on_TypeTextEvent`, `_input_text_element_node_impl`, `_type_to_page` |
| `Scroll` | `on_ScrollEvent`: the element's container, or the page (`_scroll_with_cdp_gesture`) |
| `Dropdown` | `on_GetDropdownOptionsEvent`, `on_SelectDropdownOptionEvent` |
| `Upload` | `on_UploadFileEvent` |
| `Page` | `on_SendKeysEvent`, `on_ScrollToTextEvent`, `on_GoBackEvent` |

A switch moves the focus first, in `get_or_create_cdp_session`, then awaits
`activateTarget`, and only then dispatches `AgentFocusChangedEvent`, which clears the
selector map. `SwitchFailsLate` is a command that raises or a deadline that passes
between the two, for a tab that may well be open (914-919): the focus has moved and
the map stays. `unannounced` is the tab of such a switch until the map is cleared or
made anew.

`FindSession` and `FallBack` are `cdp_client_for_node`: the session the element was
found in, or the focused tab's once that is gone. `FocusSettled` and `FocusValid` are
`ensure_valid_focus`. `TakesFocusedSession` is `get_or_create_cdp_session` without a
target: the last two events use the focused tab, whatever tab the agent saw. A handler
that runs into its deadline (8 to 60 s) ends as after any other error; that
`dropdown_options` gives up after 3 s while its handler goes on is left out.

Every document has an element with the same index, as a `backendNodeId` of one
document may well be one of another; otherwise a wrong tab could not be noticed. A
new tab is in the pool at once: SessionManager is about the time it takes. A CDP
command may fail at any time.

### Checked

`pages`: two tabs and one that may be opened, two documents each, one thing a page
does by itself, two steps of two actions: 5.2 million states. The second action of a
step acts on a map the first has made stale, the second step on what the first left
behind. Safety only, so no fairness. `IndexesOfFocusedTab` excepts the time during
which a change of focus is under way and the tab of a switch that failed late, after
which an index of the old map is sent to an element of a tab without the focus;
`NavigatesFocusedTab` excepts the time of a change only. Both are proved as well.

That an element's commands go to the session the element was found in
(`cdp_client_for_node`, "backend_node_id is only valid in the session where the DOM was
captured", `session.py` 3366) is not stated: the model has two ways in which they do
not. The fallback for an element whose tab is gone is the focused tab's session
(3404), and an upload takes that session without looking for the element's
(`default_action_watchdog.py` 1926, 2254). What is left beside the two is the look-up
itself.

Observed while modelling, where no text of the repository says otherwise:
- the tools `switch` and `close` report success when their event failed
  (`tools/service.py` 612), and a navigation without a focus returns silently, upon
  which the agent is told that it has navigated (`session.py` 692);
- `go_back` reports success too (`tools/service.py` 216); a scroll whose gesture failed
  is reported as done: the boolean is not looked at, and the JavaScript to fall back to
  (`default_action_watchdog.py` 1811) is not there;
- after a switch to a tab that has just closed, and the recovery to a third one, the map
  is still that of the first tab: TLC then finds an upload's file on its way to an
  element of another tab;
- closing a tab dispatches `TabClosedEvent` first, whose switch may choose the tab
  that is about to be closed (`session.py` 900, 937, 980); `closeTarget` is sent with the
  session of the focused tab (940);
- `on_AgentFocusChangedEvent` clears the map that the state held by the agent shares,
  so that the history loses the element of the action (`session.py` 992,
  `agent/service.py` 1473);
- a click by coordinates hits whatever the tab shows by then; an error after the press
  leads to a second click; a text that failed half way is typed again, as a whole, into
  the focused page;
- a recovery's queued `AgentFocusChangedEvent` may override a later switch.

## 9. OccamLoop

### How it corresponds to the code

`pc` follows `act()` and `predict_action`: the head of the loop, the memory check
(`check`), the LLM's answer (`ask`, `answered`), the chosen action (`selected`), and
the two ways out. `nodes` is the plan tree in the order of creation, a node's place
being the set `above` of the nodes above it; `active` is `active_node`. `planning`,
`branch_planning` and `prune_planning` are the functions of the source;
`search_node_by_id` is its depth-first search, `steps_below` its collection of
steps, `later_siblings` the siblings it hides. `env_step` is the environment's count
and its end, `update_history` the record of a step. Critic, judge, several answers
per step and the pre-execution agent are switched off in the repository's
configurations and left out.

### Checked

`occam`: four steps, five with the one that is cut off, which is enough to branch
twice, prune and branch again; three invalid answers, one query, one note: 1.1
million states. Fairness is weak fairness of the one thread: every LLM call ends.
`EndsUnlessNoteRepeated` says that the run ends within its budget, except for a LLM
that repeats its last note for ever: those answers are not counted.

Observed while modelling: plan ids are the active plan's plus one and may be shared
by visible plans, of which the search finds the first; `prune` resets the resumed plan
before it collects the steps below it, so that its own are no longer shown, and hides
later siblings but not what is below them; `env.step` returns a dict of four keys, so
its five-fold unpacking always fails and every action gets the note that it had no
effect; a memory access without a query goes to the environment as an unknown action
and costs a step; an observation that is text leaves `filtered_obs` unbound
(`AgentOccam_personalized.py` 1131, 1184); `get_observation_text` takes `if idx:` for
"an index is given", so step 0's observation is the current one.

## 10. RectUnion and DomSerializer

### How they correspond to the code

`RectUnion` is `RectUnionPure` (`dom/serializer/paint_order.py`). `contains()` and
`add()` are loops over the rectangles of the set that cut what is left of their
argument; an action is a turn of such a loop, `pieces` is `stack` or `pending`, and
`adding` says that the `contains()` under way is the one `add()` begins with. The code
only compares and copies coordinates, so integers stand for its floats, and nothing
depends on the order in which the list of rectangles is visited.

`DomSerializer` extends it. A page is a sequence of nodes in document order with the
attributes the passes look at; `phase` is the pass to come.

| action | code |
|---|---|
| `get_dom_tree` | `_construct_enhanced_node` and `is_element_visible_according_to_all_parents` for every node (`dom/service.py`): offsets, frames, visibility, the bounds as the check leaves them |
| `_create_simplified_tree` | step 1 of the serializer |
| `NextPaintOrder`, `AskCovered`, `AnsweredCovered`, `AddRect`, `Painted` | `calculate_paint_order`, which calls `contains()` and `add()` of the union; `UnionWorks` is a turn of those |
| `_optimize_tree`, `_apply_bounding_box_filtering`, `_assign_interactive_indices` | steps 3 to 5 |
| `in_text` | which of the indices `serialize_tree` writes |

`in_frame` is a turn of the loop over the frames around an element. It moves
`snapshot_node.bounds` themselves, so `bounds` is what the later passes get: moved all
the way for a visible element, part of the way for one found off the screen, and by
its own position as well for a frame, which is in its own list. A cross-origin
document starts a list of its own, so its elements stay in the frame's coordinates.

`line`, `offset` and `seen` are recursive functions: over the parents of a node, and
over the frames of its list from the inner to the outer.

Only vertical scrolling, one mark per element and the tags the passes tell apart are
modelled; frames and containers do not clip, in the code as in the model.

### Checked

`dom`: 24,000 pages of three to five nodes in four families (`DomSerializerMC`):
elements beside, over and in one another in several paint orders (`Layers`); a frame
of either kind, scrolled or not, on the screen or off it (`Framed`); links, images,
file inputs and containers in one another (`Nested`); opaque file inputs and frames
that are kept without being seen, a link out of sight around an element that is not,
lines (`Odd`). Lengths are of the order of a viewport of 4 by 4 with a
margin of 4: every side of every comparison occurs. Three opaque rectangles are enough
for a union that no single one of them covers. Each page is a behaviour that ends; no
fairness is needed for the two invariants about the end.

`OnlyVisibleOffered`: an element with an index is near the viewport of every document
around it and not behind opaque elements that are to be seen. `ClickableOffered`: what
can be clicked and is to be seen gets an index in the text, or there is one of the
reasons it lists. `Place` and `OnScreen` are stated from the top down, by adding up
offsets, and so do not repeat the loop that moves bounds from the inside out.

Its list of reasons is what the model shows of the code, where no text says otherwise:
- elements that are not seen but kept for an `aria-` attribute, as file inputs, for being
  scrollable or for their children hide what is painted below them (`serializer.py`
  483, 500, 532, 571);
- a frame counts its position twice, when its visibility is decided and when rectangles
  are compared, and a cross-origin document never counts its frame's
  (`dom/service.py` 167, 723);
- a link that was found off the screen, and whose bounds were left half moved, may stand
  in for an element that is somewhere else;
- a rectangle that is but a line, and one cut by a line, may be called covered or not
  (`paint_order.py` 40-98), so the second half of `OnlyVisibleOffered` excepts lines;
- a link hidden by its own opaque content gets no index, and the content none either,
  because it is in the link (`paint_order.py` 177, `serializer.py` 731, 768);
- a scrollable link with something interactive in it gets no index, and what is in it
  may be excluded on its account (627-633);
- interactive elements in an `<svg>` are in the selector map but not in the text (863).

## 11. What is proved

All theorems are of the form `Spec => []P` or `Spec => [][A]_vars`, for any values of
the constants that satisfy the `ASSUME` of the module: numbers are naturals, flags
Boolean, a value such as `None` is no member of the set it is used beside.

**AgentLoopProofs.** `Invariance` gives `TypeCorrect`, `FailuresBounded`,
`StepsInOrder`, `RestrictionExact`, `ActsFresh` and `DoneEnds`. None is inductive alone.
`Room` adds that while a step is under way the count is below the limit the loop head
compared it with, and the step number within the budget: the step may raise the one and
record the other once. `Fresh` adds that recorded outputs and `last_model_output` are at
most `llm_calls`, and that from the LLM's answer to the end of the step the newest
output is in no record. `Restricted` adds that no restriction is held while a memory is
looked for: the models have been renewed and the prompt is not built yet. `DoneEnds`
needs `DInv` beside these: a result of a done action is that of an output already given,
is in the history once the step has returned, and no later step of the run begins. Two
action properties need invariants of their own. `RecordsOwnOutput`: `LInv` says that
every logged output has been given, and that from the LLM's answer to the end of the
step the newest one is not in the log yet, so an output which is in it already can only
be recorded by a step without an answer. `ResultsTold` (the property `ResultsGivenUp`):
`TInv` says that once a step has its prompt, a result in `last_result` is told in it,
that before the first step of a run that is no follow-up there is no result to tell, and
that `multi_act` has results only while it performs the actions of the newest output.

**SessionManagerProofs.** `Invariance` gives `TypeCorrect`, `PoolStaysConsistent` and
`FocusStaysInPool`. The strengthening is `Known`: a session is mapped to its own
target or to none, and every event in the wire and every handler is of a session that
has a target.

**BrowserLifecycleProofs.** `AtMostOneWebsocket`, `TalksToKnownBrowser`, `TypeCorrect`,
`RestoresProfile`, `LosesOnlyThese`. `Held`: whoever connects holds the lock and, until
it makes its own, has found no client; the client of a handshake is the session's or one
a reset has dropped, and its websocket is not open yet; every open websocket is of a
client made before. `Sequential`: without overlapping or cut calls at most one is in
progress, and addresses, process and client agree where its `pc` says. `Directories`:
each temporary directory belongs to an attempt of a call of its own, so that there are
fewer of them than `Dirs` has, and a launch that is retried finds a free one. `Profiles`
says where the session's own directory is while a launch has replaced it, `Booked` and
`Processes` who answers for each browser that runs.

**StorageStateProofs.** `Refinement`: every step of the watchdog is a `Merge`, one of
the three kinds of fault, or a stutter of `StateStore`. `NeverOlder`, `LastKnownSaved`,
`LossBackedUp` and `TypeCorrect`. `Ordered` is the invariant: the file, then what a save
has read, then the browser, then the site, each at least as new as the one before.

**PageActionsProofs.** `TypeCorrect`, `IndexesOfFocused`, `NavigatesFocused`. `Good`:
every event is about tabs opened so far, and none has a session before its handler runs.
`Stacked`: a handler below the innermost one is at an await for another event, so only
the innermost can be building a state or activating a tab. `Indexed` and `Settled`: a
handler that has read or set the focus finds it unchanged, lost, or about to be
announced.

**OccamLoopProofs.** `TypeCorrect`, `BudgetKept`, `ActiveShown`, `PlansOwnSteps`, for
a tree of any depth. `Tree`: the nodes above a node are a chain. `Owned`: a step
belongs to the plan it was recorded under or one above. `Apart`: a plan has none of the
steps of a visible plan below it. `BudgetIsHistory` and `ActivePlanShown` are
stated by theorems only.

**DownloadsProofs.** `TypeCorrect`, `AtMostTwice`, `NamedTracked`, `InTimeTracked`.
`Counted` says for each URL what may still come: with one file saved, the response's
task or the navigation may save another but not both; with two, neither. It rests on the
response's task being created once, on the URL being stored with the file, and on the
navigation's second look at it; `Quiet`, that no task outlives the session, closes the
gap left by the maps being cleared. `InTimeTracked` rests on `Finished`: a poll that
still runs for a handled download has had its path tracked by the completion, and a file
with a download's content and a finished name is whole, so the poll's last look sees it.

**DomSerializerProofs.** First `StaysDisjoint`, `CoverExact`, `AddExact` of RectUnion, for
any rectangles with integer coordinates and any number of calls. The invariant says
what the loops keep: a unit square is in a piece exactly if it is in the argument and
in no rectangle visited so far. What is left over when all were visited is then
disjoint from the set, and nothing is left only if the set covers the argument. The
converse excepts rectangles that are lines: a line cuts a piece in two with nothing
taken away, and lines between two rectangles are in neither. `split_diff` is the lemma
the others rest on.

Then `OffersVisible` and `OffersClickable`, for every page: any tree of documents,
frames and elements, of any size and depth. Three arguments meet in them.
- *Visibility.* `SoFar` is what has come of a node after the frames of its list from a
  given one on: it is still visible if it is near the viewport of each document among
  them, and its bounds are then where the node is for that ancestor. It is carried from
  one frame to the next outer one (`OneFrameMore`), over nodes between them that move
  nothing. `Visibility` concludes that what the loop finds, moving bounds from the inside
  out, is what `OnScreen` says from the top down, of all but frames counted twice.
- *Painting.* `Painting` is the invariant while paint orders are worked off: the union
  covers what the opaque nodes that are through cover (`Grown`), these are above every
  node still to be asked about (`Levels`), and whoever was asked about is ignored if and,
  lines aside, only if what is painted above it covers it (`Judged`).
- *Passes.* `Stages` says for each phase what the passes have left, as a function of the
  page and of what is ignored. `DInv`, with RectUnion's invariant, is inductive
  (`PassesInvariance`).

What is known of `line`, `offset` and `seen` for every node is proved by induction over
its number, but not with the induction theorems of the library, whose parameters are
operators: `Least`, that a set of naturals has a least element, follows from the
well-foundedness of `<`, and a least counterexample leads to a contradiction
(`Successors`, `Downwards`). `FromParents` shows the same way that the recursive
definitions define functions.

Stating the two properties for all pages showed where they were too strong: pages
that the run did not have, now the family `Odd`, are the cases of file inputs, frames
counted twice, half-moved links and lines above.

Only model-checked: the liveness properties, `RunEnds`, `StopEndsRunUnlessPaused`,
`RecoveryEnds`, `AttachedSessionsRegistered`, `CallsReturn`, `CookiesGetSaved` and
`EndsUnlessNoteRepeated`: the prover has no fairness and no
`ENABLED`. Every invariant and every action property of the passing runs is proved.

## 12. Findings

Each is a run that TLC finds violated; `PROJECT.json` quotes the lines.

1. A pause before the initial action ends in an `UnboundLocalError` that leaves
   `run()` (`startup_pause`).
2. A focus lost while the recovery that set it activates its tab is never recovered
   (`lost_focus`).
3. A `start()` after a `stop()` is heard by nobody (`reconnect`).
4. Two files of one name that are fetched at the same time overwrite each other
   (`overwritten`).

Also seen, with nothing in the repository to compare it with: an output whose step is
interrupted before it is acted on is recorded all the same; a step whose LLM call
fails is recorded with the previous output. Against a text of the repository, but
without a run: a session that detaches while its attach handler awaits stays in the
pool (section 4), a cut-off `connect()` leaves a client that later starts take for a
connection (section 5), an element's command may go to another tab's session (section
8).

## 13. What is not modelled, and what is left

- *Personalization* beyond the memory step of the run loop, the retriever and its
  cache files, the experiment runners: a module of two threads that share the cache
  (`src/AgentOccam/AgentOccam/retriever.py` 203) is next in the plan.
- *Message manager* beyond its history of results: trimming and formatting.
- *Browser session:* user-supplied and cloud browsers, the timeouts of `stop()`'s
  events, cookies and highlights. The bus is third-party; it is modelled by how it is
  used (serial, an awaited event runs inside its handler).
- *Other actions:* clicks at coordinates, extraction, web search, JavaScript, waiting
  and the agent's own files use the focused tab once or none at all; forward and
  refresh have handlers that nothing calls.
- *DOM service and serializer:* the CDP requests and their retries, shadow roots, compound
  controls, the marks of new elements, the attributes and the text that is written.
- *LLM providers, telemetry, cloud, GIFs, actor API, skills, signal handler:* I/O without a
  state whose order matters.
- `rerun_history`, `take_step`, the judge, AgentOccam's critic and WebArena's browser
  environment (third-party code kept under `src/AgentOccam/browser_env`).
