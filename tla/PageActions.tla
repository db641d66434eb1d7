----------------------------- MODULE PageActions -----------------------------
(***************************************************************************)
(* What stands between an action of the agent and the document it is meant  *)
(* for: the focused tab, the selector map of the last state the agent was   *)
(* given, the event bus and the handlers of the tab and page events, while  *)
(* pages open, navigate and close tabs by themselves.                       *)
(*                                                                         *)
(* The bus runs one event at a time; an event a handler dispatches and      *)
(* awaits runs inside it, so the running handlers are a stack.  An action   *)
(* is the code between two awaits.  Every document has an element with the  *)
(* same index (a backendNodeId): an index that names the element of one     *)
(* document names one of another document too.                              *)
(***************************************************************************)
EXTENDS Naturals, Sequences, FiniteSets

CONSTANTS
  MaxTabs,    \* bound: tabs ever opened
  MaxDocs,    \* bound: documents a tab ever shows
  MaxPageEvents, \* bound: what the pages do by themselves
  MaxSteps,   \* bound: steps of the agent
  MaxActions  \* actions in one output of the LLM (max_actions_per_step)

ASSUME PageAssumption ==
  /\ MaxTabs \in Nat \ {0, 1} /\ MaxDocs \in Nat \ {0}
  /\ MaxPageEvents \in Nat /\ MaxSteps \in Nat /\ MaxActions \in Nat

VARIABLES
  open,        \* Chrome's tabs
  doc, kind,   \* the document a tab shows, and whether it is a blank page
  opened,      \* tabs opened so far: they are numbered in this order
  page_events, \* what pages have done by themselves so far
  pool, url,   \* SessionManager's targets, and what it knows of their URL
  focus,       \* agent_focus_target_id
  recovery,    \* _recover_agent_focus: where it is, and its new target
  bus, stack,  \* events that wait, and the handlers that run, innermost first
  selector_map, \* _cached_selector_map: the element of the index, if any
  unannounced, \* auxiliary: the tab a switch that failed has left the focus on
  agent        \* the agent's step: where it is, its number, actions left

chrome == <<open, doc, kind, opened>>
targets == <<pool, url>>
map == <<selector_map, unannounced>>
vars == <<chrome, targets, focus, recovery, bus, stack, map, agent, page_events>>

Tabs == 1 .. MaxTabs
NoTab == 0
Nodes == [tab : Tabs, doc : 0 .. MaxDocs]
NoNode == [tab |-> NoTab, doc |-> 0]
Shown(t) == [tab |-> t, doc |-> doc[t]]
Alive(n) == n.tab \in pool /\ doc[n.tab] = n.doc

Event(name, tab, node, agents) ==
  [name |-> name, at |-> "start", tab |-> tab, node |-> node, agents |-> agents,
   sess |-> NoTab, new_tab |-> FALSE]
FocusChanged(t) == Event("FocusChanged", t, NoNode, FALSE)
TabClosed(t) == Event("TabClosed", t, NoNode, FALSE)
SwitchTab(t) == Event("Switch", t, NoNode, FALSE)
Navigate(new, agents) ==
  [Event("Navigate", NoTab, NoNode, agents) EXCEPT !.new_tab = new]
Names == {"State", "Click", "Type", "Scroll", "Dropdown", "Upload", "Page",
          "Navigate", "Switch", "Close", "TabClosed", "FocusChanged", "Impl"}
Places == {"start", "build", "lost", "element", "geometry", "press", "js", "keys",
           "page", "create", "switch", "go", "loaded", "fail", "end", "activate",
           "close", "blank"}
Events == [name : Names, at : Places, tab : Tabs \union {NoTab},
           node : Nodes \union {NoNode}, agents : BOOLEAN,
           sess : Tabs \union {NoTab}, new_tab : BOOLEAN]

NoRecovery == [at |-> "none", tab |-> NoTab]
LastOf(S) == {t \in S : \A u \in S : u <= t}
FirstOf(S) == {t \in S : \A u \in S : t <= u}

Init ==
  /\ open = {1, 2} /\ pool = open /\ opened = 2 /\ focus = 1
  /\ doc = [t \in Tabs |-> IF t \in open THEN 1 ELSE 0]
  /\ kind = [t \in Tabs |-> IF t \in open THEN "web" ELSE "blank"]
  /\ url = kind /\ recovery = NoRecovery /\ bus = <<>> /\ stack = <<>>
  /\ selector_map = NoNode /\ unannounced = NoTab
  /\ agent = [at |-> "idle", step |-> 0, left |-> 0]
  /\ page_events = 0

(***************************************************************************)
(* Chrome and the session manager                                          *)
(***************************************************************************)
\* A new tab is blank, and in the pool at once: SessionManager.tla is about the
\* time it takes to get there.
OpenTab ==
  /\ opened < MaxTabs /\ opened' = opened + 1
  /\ open' = open \union {opened'} /\ pool' = pool \union {opened'}
  /\ UNCHANGED <<doc, kind, url>>

NewDocument(t, k) ==
  /\ doc[t] < MaxDocs
  /\ doc' = [doc EXCEPT ![t] = @ + 1] /\ kind' = [kind EXCEPT ![t] = k]
  /\ UNCHANGED <<open, opened>>

PageActs == page_events < MaxPageEvents /\ page_events' = page_events + 1

PageOpens ==
  /\ PageActs /\ OpenTab
  /\ UNCHANGED <<focus, recovery, bus, stack, map, agent>>

PageNavigates(t) ==
  /\ PageActs /\ t \in open /\ \E k \in {"blank", "web"} : NewDocument(t, k)
  /\ UNCHANGED <<targets, focus, recovery, bus, stack, map, agent>>

PageCloses(t) ==
  /\ PageActs /\ t \in open /\ open' = open \ {t}
  /\ UNCHANGED <<doc, kind, opened, targets, focus, recovery, bus, stack,
                 map, agent>>

TargetInfoChanged(t) ==
  /\ t \in pool /\ url[t] # kind[t] /\ url' = [url EXCEPT ![t] = kind[t]]
  /\ UNCHANGED <<chrome, pool, focus, recovery, bus, stack, map, agent,
                 page_events>>

Forget(t) ==
  /\ doc' = [doc EXCEPT ![t] = 0] /\ kind' = [kind EXCEPT ![t] = "blank"]
  /\ url' = [url EXCEPT ![t] = "blank"]

\* _handle_target_detached: one recovery at a time.
TargetDetached(t) ==
  /\ t \in pool \ open /\ pool' = pool \ {t} /\ Forget(t)
  /\ bus' = Append(bus, TabClosed(t))
  /\ IF focus = t
     THEN /\ focus' = NoTab
          /\ recovery' = IF recovery = NoRecovery
                         THEN [at |-> "choose", tab |-> t] ELSE recovery
     ELSE UNCHANGED <<focus, recovery>>
  /\ UNCHANGED <<open, opened, stack, map, agent, page_events>>

RecoveryChooses ==
  /\ recovery.at = "choose"
  /\ \/ /\ focus \notin {NoTab, recovery.tab} /\ recovery' = NoRecovery
        /\ UNCHANGED <<chrome, targets>>
     \/ /\ focus \in {NoTab, recovery.tab}
        /\ \E t \in LastOf(pool) : recovery' = [at |-> "wait", tab |-> t]
        /\ UNCHANGED <<chrome, targets>>
     \/ /\ focus \in {NoTab, recovery.tab} /\ pool = {} /\ OpenTab
        /\ recovery' = [at |-> "wait", tab |-> opened + 1]
  /\ UNCHANGED <<focus, bus, stack, map, agent, page_events>>

\* createTarget fails.
RecoveryFails ==
  /\ \/ recovery.at = "choose" /\ focus \in {NoTab, recovery.tab} /\ pool = {}
     \/ recovery.at = "wait" /\ recovery.tab \notin pool
  /\ recovery' = NoRecovery
  /\ UNCHANGED <<chrome, targets, focus, bus, stack, map, agent,
                 page_events>>

RecoveryFocuses ==
  /\ recovery.at = "wait" /\ recovery.tab \in pool /\ focus' = recovery.tab
  /\ recovery' = [recovery EXCEPT !.at = "announce"]
  /\ UNCHANGED <<chrome, targets, bus, stack, map, agent, page_events>>

\* The chosen tab is gone after 2 s: an emergency tab.
RecoveryFallback ==
  /\ recovery.at = "wait" /\ recovery.tab \notin pool /\ OpenTab
  /\ recovery' = [at |-> "wait", tab |-> opened + 1]
  /\ UNCHANGED <<focus, bus, stack, map, agent, page_events>>

RecoveryAnnounces ==
  /\ recovery.at = "announce" /\ recovery' = NoRecovery
  /\ bus' = Append(bus, FocusChanged(recovery.tab))
  /\ UNCHANGED <<chrome, targets, focus, stack, map, agent, page_events>>

(***************************************************************************)
(* The bus                                                                 *)
(***************************************************************************)
RunNext ==
  /\ stack = <<>> /\ bus # <<>>
  /\ stack' = <<Head(bus)>> /\ bus' = Tail(bus)
  /\ UNCHANGED <<chrome, targets, focus, recovery, map, agent,
                 page_events>>

At(name, place) ==
  stack # <<>> /\ Head(stack).name = name /\ Head(stack).at = place
event == Head(stack)
Continue(e) == stack' = <<e>> \o Tail(stack) /\ UNCHANGED agent
Goto(place) == Continue([event EXCEPT !.at = place])
Call(e, place) ==
  /\ stack' = <<e, [event EXCEPT !.at = place]>> \o Tail(stack)
  /\ UNCHANGED agent
\* A handler's exception ends its event; whoever awaits the event sees it only
\* if it asks for the result, as most actions do: the action switch reports
\* "Switched to tab" all the same.
Return(ok) ==
  /\ stack' = Tail(stack)
  /\ agent' = IF event.agents
              THEN [agent EXCEPT !.at = IF ok \/ event.name = "Switch"
                                        THEN "act" ELSE "record"]
              ELSE agent

\* ensure_valid_focus: a lost focus is waited for while it is being recovered.
FocusSettled == focus # NoTab \/ recovery = NoRecovery
FocusValid == focus \in pool

(***************************************************************************)
(* The state given to the agent                                            *)
(***************************************************************************)
get_current_page_url == IF focus = NoTab THEN "blank" ELSE url[focus]

\* A page that is not a web page, or no page at all: an empty map of its own.
StateOfBlank ==
  /\ At("State", "start") /\ get_current_page_url = "blank"
  /\ Return(TRUE)
  /\ UNCHANGED <<chrome, targets, focus, recovery, bus, map, page_events>>

StateOfPage ==
  /\ At("State", "start") /\ get_current_page_url = "web"
  /\ Goto("build")
  /\ UNCHANGED <<chrome, targets, focus, recovery, bus, map, page_events>>

\* The build reads the focus when it starts.
BuildStarts ==
  /\ At("State", "build") /\ event.sess = NoTab /\ focus # NoTab
  /\ Continue([event EXCEPT !.sess = focus])
  /\ UNCHANGED <<chrome, targets, focus, recovery, bus, map, page_events>>

BuildEnds ==
  /\ At("State", "build") /\ event.sess \in pool \intersect open
  /\ selector_map' = Shown(event.sess) /\ unannounced' = NoTab /\ Return(TRUE)
  /\ UNCHANGED <<chrome, targets, focus, recovery, bus, page_events>>

BuildFails ==
  /\ At("State", "build") /\ (event.sess # NoTab \/ focus = NoTab)
  /\ Return(TRUE)
  /\ UNCHANGED <<chrome, targets, focus, recovery, bus, map, page_events>>

(***************************************************************************)
(* Focus and tabs                                                          *)
(***************************************************************************)
\* Mutant: the focus moves and the selector map of the other tab stays.
BugFocusChangedClears ==
  /\ At("FocusChanged", "start")
  /\ focus' = IF event.tab \in pool THEN event.tab ELSE focus
  /\ Return(event.tab \in pool)
  /\ UNCHANGED <<chrome, targets, recovery, bus, map, page_events>>

\* The map is cleared in place, and with it that of the state the agent holds.
FocusChangedClears ==
  /\ At("FocusChanged", "start")
  /\ selector_map' = NoNode /\ unannounced' = NoTab
  /\ focus' = IF event.tab \in pool THEN event.tab ELSE focus
  /\ Return(event.tab \in pool)
  /\ UNCHANGED <<chrome, targets, recovery, bus, page_events>>

SwitchTargets ==
  IF event.tab = NoTab THEN LastOf(pool) ELSE {event.tab} \intersect pool

SwitchStarts ==
  /\ At("Switch", "start") /\ focus # NoTab
  /\ \E t \in SwitchTargets :
       focus' = t /\ Continue([event EXCEPT !.tab = t, !.at = "activate"])
  /\ UNCHANGED <<chrome, targets, recovery, bus, map, page_events>>

\* Not connected, or the target is gone.  (The code also opens a tab when there is
\* none to switch to: then there is no focus either, which it refuses first.)
SwitchFails ==
  /\ At("Switch", "start") /\ (focus = NoTab \/ SwitchTargets = {})
  /\ Return(FALSE)
  /\ UNCHANGED <<chrome, targets, focus, recovery, bus, map, page_events>>

SwitchActivates ==
  /\ At("Switch", "activate") /\ event.tab \in open \intersect pool
  /\ Call(FocusChanged(event.tab), "end")
  /\ UNCHANGED <<chrome, targets, focus, recovery, bus, map, page_events>>

\* activateTarget raises or the deadline of the event passes, whether the tab is
\* open or not: the focus has moved, and nobody is told.
SwitchFailsLate ==
  /\ At("Switch", "activate") /\ unannounced' = event.tab /\ Return(FALSE)
  /\ UNCHANGED <<chrome, targets, focus, recovery, bus, selector_map,
                 page_events>>

\* TabClosed comes before the tab is closed, or from the session manager after.
TabClosedSwitches ==
  /\ At("TabClosed", "start")
  /\ IF focus # NoTab /\ focus = event.tab
     THEN Call(SwitchTab(NoTab), "blank") ELSE Goto("blank")
  /\ UNCHANGED <<chrome, targets, focus, recovery, bus, map, page_events>>

\* The about:blank watchdog, on the same event.
TabClosedKeepsOne ==
  /\ At("TabClosed", "blank")
  /\ IF open = {} THEN Call(Navigate(TRUE, FALSE), "end") ELSE Return(TRUE)
  /\ UNCHANGED <<chrome, targets, focus, recovery, bus, map, page_events>>

CloseStarts ==
  /\ At("Close", "start") /\ Call(TabClosed(event.tab), "close")
  /\ UNCHANGED <<chrome, targets, focus, recovery, bus, map, page_events>>

\* With the session of the focused tab, whatever tab is closed.
CloseCloses ==
  /\ At("Close", "close") /\ FocusSettled
  /\ open' = IF FocusValid /\ focus \in open THEN open \ {event.tab} ELSE open
  /\ Return(TRUE)
  /\ UNCHANGED <<doc, kind, opened, targets, focus, recovery, bus, map,
                 page_events>>

Ends(name) ==
  /\ At(name, "end") /\ Return(TRUE)
  /\ UNCHANGED <<chrome, targets, focus, recovery, bus, map, page_events>>

(***************************************************************************)
(* Navigation                                                              *)
(***************************************************************************)
Blanks == {t \in pool \ {focus} : url[t] = "blank"}
NewTab == event.new_tab /\ url[focus] # "blank"

\* Without a focus the handler returns, and the agent is told it has navigated.
NavigateWithoutFocus ==
  /\ At("Navigate", "start") /\ focus = NoTab /\ Return(TRUE)
  /\ UNCHANGED <<chrome, targets, focus, recovery, bus, map, page_events>>

SwitchThenGo(t) ==
  IF focus = t THEN Continue([event EXCEPT !.tab = t, !.at = "go"])
  ELSE /\ stack' = <<SwitchTab(t), [event EXCEPT !.tab = t, !.at = "go"]>>
                   \o Tail(stack)
       /\ UNCHANGED agent

NavigateChooses ==
  /\ At("Navigate", "start") /\ focus # NoTab
  /\ \/ ~NewTab /\ SwitchThenGo(focus)
     \/ NewTab /\ \E t \in FirstOf(Blanks) : SwitchThenGo(t)
     \/ /\ NewTab /\ Blanks = {}
        /\ Continue([event EXCEPT !.tab = focus, !.at = "create"])
  /\ UNCHANGED <<chrome, targets, focus, recovery, bus, map, page_events>>

\* Or, when that fails, in the current tab.
NavigateCreates ==
  /\ At("Navigate", "create")
  /\ \/ OpenTab /\ SwitchThenGo(opened + 1)
     \/ SwitchThenGo(event.tab) /\ UNCHANGED <<chrome, targets>>
  /\ UNCHANGED <<focus, recovery, bus, map, page_events>>

\* Mutant: the check that the switch reached its tab is dropped.
BugNavigateAsserts ==
  /\ At("Navigate", "go") /\ Goto("loaded")
  /\ UNCHANGED <<chrome, targets, focus, recovery, bus, map, page_events>>

NavigateAsserts ==
  /\ At("Navigate", "go")
  /\ IF focus = event.tab THEN Goto("loaded")
     ELSE Call(FocusChanged(event.tab), "fail")
  /\ UNCHANGED <<chrome, targets, focus, recovery, bus, map, page_events>>

\* The agent navigates to web pages, the about:blank watchdog to a blank one.
NavigateLoads ==
  /\ At("Navigate", "loaded")
  /\ \/ /\ event.tab \in pool \intersect open
        /\ NewDocument(event.tab, IF event.agents THEN "web" ELSE "blank")
        /\ Call(FocusChanged(event.tab), "end")
     \/ UNCHANGED chrome /\ Call(FocusChanged(event.tab), "fail")
  /\ UNCHANGED <<targets, focus, recovery, bus, map, page_events>>

NavigateFails ==
  /\ At("Navigate", "fail") /\ Return(FALSE)
  /\ UNCHANGED <<chrome, targets, focus, recovery, bus, map, page_events>>

(***************************************************************************)
(* Elements: clicks, text, scrolling, drop-downs and uploads               *)
(***************************************************************************)
\* cdp_client_for_node: the session the element was found in; 2 s after that is
\* gone the session of the focused tab.
FindSession(e, place) ==
  IF e.node.tab \in pool THEN [e EXCEPT !.sess = e.node.tab, !.at = place]
  ELSE [e EXCEPT !.at = "lost"]

FallBack(name, place) ==
  /\ At(name, "lost") /\ FocusSettled /\ FocusValid
  /\ Continue([event EXCEPT !.sess = focus, !.at = place])
  /\ UNCHANGED <<chrome, targets, focus, recovery, bus, map, page_events>>

FindsNoSession(name) ==
  /\ At(name, "lost") /\ FocusSettled /\ ~FocusValid
  /\ Return(FALSE)
  /\ UNCHANGED <<chrome, targets, focus, recovery, bus, map, page_events>>

\* In the element's own session its id names it as long as its document is shown;
\* in another session the id may name another element.
Resolves ==
  event.sess \in open /\ (event.sess = event.node.tab => Alive(event.node))

ClickChecks ==
  /\ At("Click", "start")
  /\ IF focus = NoTab THEN Return(FALSE)
     ELSE Continue(FindSession([event EXCEPT !.name = "Impl"], "geometry"))
  /\ UNCHANGED <<chrome, targets, focus, recovery, bus, map, page_events>>

ClickStarts ==
  /\ At("Impl", "start") /\ Continue(FindSession(event, "geometry"))
  /\ UNCHANGED <<chrome, targets, focus, recovery, bus, map, page_events>>

ClickLocates ==
  /\ At("Impl", "geometry")
  /\ \/ Resolves /\ Goto("press")
     \/ Goto("js")
     \/ event.sess \notin open /\ Return(FALSE)
  /\ UNCHANGED <<chrome, targets, focus, recovery, bus, map, page_events>>

\* Coordinates hit whatever the tab shows by then; an error after the press
\* leads to a second click.
ClickPresses ==
  /\ At("Impl", "press")
  /\ \/ event.sess \in open /\ Return(TRUE)
     \/ Goto("js")
  /\ UNCHANGED <<chrome, targets, focus, recovery, bus, map, page_events>>

ClickByScript ==
  /\ At("Impl", "js")
  /\ \/ Resolves /\ Return(TRUE)
     \/ Return(FALSE)
  /\ UNCHANGED <<chrome, targets, focus, recovery, bus, map, page_events>>

ClickInstead == Call(Event("Impl", NoTab, event.node, FALSE), "page")

TypeStarts ==
  /\ At("Type", "start") /\ Continue(FindSession(event, "element"))
  /\ UNCHANGED <<chrome, targets, focus, recovery, bus, map, page_events>>

TypeFindsNoSession ==
  /\ At("Type", "lost") /\ FocusSettled /\ ~FocusValid /\ ClickInstead
  /\ UNCHANGED <<chrome, targets, focus, recovery, bus, map, page_events>>

TypeResolves ==
  /\ At("Type", "element")
  /\ \/ Resolves /\ Goto("keys")
     \/ ClickInstead
  /\ UNCHANGED <<chrome, targets, focus, recovery, bus, map, page_events>>

\* The keys go to what the tab shows by then.
TypeKeys ==
  /\ At("Type", "keys")
  /\ \/ event.sess \in open /\ Return(TRUE)
     \/ ClickInstead
  /\ UNCHANGED <<chrome, targets, focus, recovery, bus, map, page_events>>

\* _type_to_page, after any error: into the focused tab.
TypeToPage ==
  /\ At("Type", "page") /\ FocusSettled
  /\ \/ focus \in pool \intersect open /\ Return(TRUE)
     \/ Return(FALSE)
  /\ UNCHANGED <<chrome, targets, focus, recovery, bus, map, page_events>>

\* scroll, with an index or without.  Only a scroll of less than a page tells the
\* agent that it failed.
ScrollStarts ==
  /\ At("Scroll", "start")
  /\ \/ focus = NoTab /\ \E ok \in BOOLEAN : Return(ok)
     \/ focus # NoTab /\ event.node = NoNode /\ Goto("page")
     \/ /\ focus # NoTab /\ event.node # NoNode
        /\ Continue(FindSession(event, "element"))
  /\ UNCHANGED <<chrome, targets, focus, recovery, bus, map, page_events>>

ScrollFindsNoSession ==
  /\ At("Scroll", "lost") /\ FocusSettled /\ ~FocusValid /\ Goto("page")
  /\ UNCHANGED <<chrome, targets, focus, recovery, bus, map, page_events>>

\* The content of a frame or what is under the middle of the element.
ScrollElement ==
  /\ At("Scroll", "element")
  /\ \/ Resolves /\ Return(TRUE)
     \/ Goto("page")
  /\ UNCHANGED <<chrome, targets, focus, recovery, bus, map, page_events>>

\* After any error, and without an index: the focused page.  Whether the gesture
\* succeeded is not looked at.
ScrollPage ==
  /\ At("Scroll", "page") /\ FocusSettled /\ Return(TRUE)
  /\ UNCHANGED <<chrome, targets, focus, recovery, bus, map, page_events>>

\* dropdown_options and select_dropdown: one script in the element.
DropdownStarts ==
  /\ At("Dropdown", "start") /\ Continue(FindSession(event, "element"))
  /\ UNCHANGED <<chrome, targets, focus, recovery, bus, map, page_events>>

DropdownOptions ==
  /\ At("Dropdown", "element") /\ Resolves /\ Return(TRUE)
  /\ UNCHANGED <<chrome, targets, focus, recovery, bus, map, page_events>>

\* An option that is not there is an answer too, unless the element has none.
DropdownSelects ==
  /\ At("Dropdown", "element")
  /\ \/ Resolves /\ Return(TRUE)
     \/ Return(FALSE)
  /\ UNCHANGED <<chrome, targets, focus, recovery, bus, map, page_events>>

(***************************************************************************)
(* The focused page, whatever it is by then: uploads, keys, texts, back     *)
(***************************************************************************)
\* get_or_create_cdp_session without a target.
TakesFocusedSession(name, place) ==
  /\ At(name, "start") /\ FocusSettled
  /\ IF FocusValid THEN Continue([event EXCEPT !.sess = focus, !.at = place])
     ELSE \E ok \in BOOLEAN : (ok => name = "Page") /\ Return(ok)
  /\ UNCHANGED <<chrome, targets, focus, recovery, bus, map, page_events>>

\* Not in the session of the element: the id may name another tab's element.
UploadSetsFile ==
  /\ At("Upload", "element")
  /\ \/ Resolves /\ Return(TRUE)
     \/ Return(FALSE)
  /\ UNCHANGED <<chrome, targets, focus, recovery, bus, map, page_events>>

KeysSent ==
  /\ At("Page", "keys")
  /\ \/ event.sess \in open /\ Return(TRUE)
     \/ Return(FALSE)
  /\ UNCHANGED <<chrome, targets, focus, recovery, bus, map, page_events>>

\* A text that is not found, for whatever reason, is no error for the agent, and
\* neither is a page that does not go back.
TextSought ==
  /\ At("Page", "keys") /\ Return(TRUE)
  /\ UNCHANGED <<chrome, targets, focus, recovery, bus, map, page_events>>

\* go_back: what was shown before, in the same tab.
GoesBack ==
  /\ At("Page", "keys") /\ event.sess \in pool \intersect open
  /\ \E k \in {"blank", "web"} : NewDocument(event.sess, k)
  /\ Return(TRUE)
  /\ UNCHANGED <<targets, focus, recovery, bus, map, page_events>>

(***************************************************************************)
(* The agent: a state, then an output of some actions                     *)
(***************************************************************************)
StepBegins ==
  /\ agent.at = "idle" /\ agent.step < MaxSteps
  /\ agent' = [at |-> "wait", step |-> agent.step + 1, left |-> MaxActions]
  /\ bus' = Append(bus, Event("State", NoTab, NoNode, TRUE))
  /\ UNCHANGED <<chrome, targets, focus, recovery, stack, map,
                 page_events>>

Acts == agent.at = "act" /\ agent.left > 0
Dispatch(e) ==
  /\ bus' = Append(bus, e)
  /\ agent' = [agent EXCEPT !.at = "wait", !.left = @ - 1]

ActOnElement(name) ==
  /\ Acts
  /\ IF selector_map = NoNode
     THEN agent' = [agent EXCEPT !.left = @ - 1] /\ UNCHANGED bus
     ELSE Dispatch(Event(name, NoTab, selector_map, TRUE))
  /\ UNCHANGED <<chrome, targets, focus, recovery, stack, map,
                 page_events>>

\* An error before there is an event: the step's other actions are dropped.
Refuse ==
  /\ agent' = [agent EXCEPT !.left = @ - 1, !.at = "record"]
  /\ UNCHANGED bus

\* At most one page: a longer scroll repeats the event.
ActScroll ==
  /\ Acts
  /\ \/ Dispatch(Event("Scroll", NoTab, NoNode, TRUE))
     \/ IF selector_map = NoNode THEN Refuse
        ELSE Dispatch(Event("Scroll", NoTab, selector_map, TRUE))
  /\ UNCHANGED <<chrome, targets, focus, recovery, stack, map,
                 page_events>>

\* A file input at the index, near it, or anywhere on the page of the map; none, or
\* a file that may not be uploaded, is an error.
ActUpload ==
  /\ Acts
  /\ \/ Refuse
     \/ /\ selector_map # NoNode
        /\ Dispatch(Event("Upload", NoTab, selector_map, TRUE))
  /\ UNCHANGED <<chrome, targets, focus, recovery, stack, map,
                 page_events>>

\* send_keys, find_text and go_back.
ActOnPage ==
  /\ Acts /\ Dispatch(Event("Page", NoTab, NoNode, TRUE))
  /\ UNCHANGED <<chrome, targets, focus, recovery, stack, map,
                 page_events>>

ActOnTabs ==
  /\ Acts
  /\ \/ \E new \in BOOLEAN : Dispatch(Navigate(new, TRUE))
     \/ \E t \in pool, name \in {"Switch", "Close"} :
          Dispatch(Event(name, t, NoNode, TRUE))
  /\ UNCHANGED <<chrome, targets, focus, recovery, stack, map,
                 page_events>>

StepEnds ==
  /\ agent.at \in {"act", "record"}
  /\ agent' = [agent EXCEPT !.at = "idle", !.left = 0]
  /\ UNCHANGED <<chrome, targets, focus, recovery, bus, stack, map,
                 page_events>>

Pages == PageOpens \/ \E t \in Tabs : PageNavigates(t) \/ PageCloses(t)

Manager ==
  \/ \E t \in Tabs : TargetInfoChanged(t) \/ TargetDetached(t)
  \/ RecoveryChooses \/ RecoveryFails \/ RecoveryFocuses \/ RecoveryFallback
  \/ RecoveryAnnounces

Handlers ==
  \/ RunNext
  \/ StateOfBlank \/ StateOfPage \/ BuildStarts \/ BuildEnds \/ BuildFails
  \/ FocusChangedClears \/ SwitchStarts \/ SwitchFails \/ SwitchActivates
  \/ SwitchFailsLate
  \/ TabClosedSwitches \/ TabClosedKeepsOne
  \/ CloseStarts \/ CloseCloses
  \/ Ends("Switch") \/ Ends("TabClosed") \/ Ends("Navigate")
  \/ NavigateWithoutFocus \/ NavigateChooses \/ NavigateCreates
  \/ NavigateAsserts \/ NavigateLoads \/ NavigateFails
  \/ ClickChecks \/ ClickStarts \/ FallBack("Impl", "geometry")
  \/ FindsNoSession("Impl") \/ ClickLocates \/ ClickPresses \/ ClickByScript
  \/ TypeStarts \/ FallBack("Type", "element") \/ TypeFindsNoSession
  \/ TypeResolves \/ TypeKeys \/ TypeToPage
  \/ ScrollStarts \/ FallBack("Scroll", "element") \/ ScrollFindsNoSession
  \/ ScrollElement \/ ScrollPage
  \/ DropdownStarts \/ FallBack("Dropdown", "element")
  \/ FindsNoSession("Dropdown") \/ DropdownOptions \/ DropdownSelects
  \/ TakesFocusedSession("Upload", "element") \/ UploadSetsFile
  \/ TakesFocusedSession("Page", "keys") \/ KeysSent \/ TextSought \/ GoesBack

Agent ==
  \/ StepBegins \/ StepEnds
  \/ ActOnElement("Click") \/ ActOnElement("Type") \/ ActOnElement("Dropdown")
  \/ ActScroll \/ ActUpload \/ ActOnPage \/ ActOnTabs

Next == Pages \/ Manager \/ Handlers \/ Agent

Spec == Init /\ [][Next]_vars

\* The types.  A step has at most max_actions_per_step actions, tabs never share
\* an identifier, and a tab's documents are counted from the first.
TypeOK ==
  /\ open \subseteq Tabs /\ pool \subseteq Tabs /\ opened \in Tabs
  /\ doc \in [Tabs -> 0 .. MaxDocs]
  /\ kind \in [Tabs -> {"blank", "web"}] /\ url \in [Tabs -> {"blank", "web"}]
  /\ focus \in Tabs \union {NoTab}
  /\ recovery \in [at : {"none", "choose", "wait", "announce"},
                   tab : Tabs \union {NoTab}]
  /\ bus \in Seq(Events) /\ stack \in Seq(Events)
  /\ selector_map \in Nodes \union {NoNode} /\ unannounced \in Tabs \union {NoTab}
  /\ agent \in [at : {"idle", "wait", "act", "record"}, step : 0 .. MaxSteps,
                left : 0 .. MaxActions]
  /\ page_events \in 0 .. MaxPageEvents

FocusChangeOwed ==
  \/ recovery # NoRecovery
  \/ \E i \in DOMAIN bus : bus[i].name = "FocusChanged"
  \/ \E i \in DOMAIN stack : stack[i].name = "FocusChanged"
  \/ \E i \in DOMAIN stack : stack[i].name = "Switch" /\ stack[i].at # "end"

\* An index of an action is looked up in the cached selector map.  It never names
\* an element of another tab than the focused one, however tabs were switched,
\* closed, lost and recovered since the map was built (on_AgentFocusChangedEvent
\* clears it): but for the time a change of focus is under way, and for a switch
\* that moved the focus and then failed, until the next change or state.
IndexesOfFocusedTab ==
  \/ selector_map.tab \in {NoTab, focus} \/ focus \notin open
  \/ FocusChangeOwed \/ unannounced = focus

\* A navigation loads its page in the tab that has the focus, although the switch
\* to that tab may have failed unnoticed and the focus may have been recovered in
\* the meantime (the assertion in on_NavigateToUrlEvent): but for a tab that
\* closed and for a change of focus under way.
NavigatesFocusedTab ==
  At("Navigate", "loaded") =>
    focus = event.tab \/ event.tab \notin open \/ FocusChangeOwed
=============================================================================
