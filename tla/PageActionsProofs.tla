-------------------------- MODULE PageActionsProofs --------------------------
(***************************************************************************)
(* Proofs about PageActions for any number of tabs, documents, steps and    *)
(* actions: types, the indexes of the focused tab and the tab of a          *)
(* navigation, however pages, the session manager and the handlers          *)
(* interleave.                                                             *)
(***************************************************************************)
EXTENDS PageActions, TLAPS

\* Where a handler is while an event it has dispatched runs.
Waits == {"end", "blank", "close", "go", "fail", "page"}

\* What is true of every event: it is about tabs opened so far.
Good ==
  {e \in Events :
    /\ e.tab <= opened /\ e.node.tab <= opened /\ e.sess <= opened
    /\ e.at = "start" => e.sess = NoTab}
Fresh == {e \in Good : e.at = "start"}
Waiting == {e \in Good : e.at \in Waits}

\* The actions on an element.
OnElements == {"Click", "Type", "Scroll", "Dropdown", "Upload"}

AgentStates ==
  [at : {"idle", "wait", "act", "record"}, step : 0 .. MaxSteps,
   left : 0 .. MaxActions]

Bounded ==
  /\ opened \in Tabs /\ open \subseteq pool /\ pool \subseteq 1 .. opened
  /\ doc \in [Tabs -> 0 .. MaxDocs]
  /\ kind \in [Tabs -> {"blank", "web"}] /\ url \in [Tabs -> {"blank", "web"}]
  /\ focus \in 0 .. opened
  /\ recovery \in [at : {"none", "choose", "wait", "announce"}, tab : 0 .. opened]
  /\ selector_map \in Nodes \union {NoNode} /\ selector_map.tab <= opened
  /\ unannounced \in Tabs \union {NoTab}
  /\ agent \in AgentStates /\ page_events \in 0 .. MaxPageEvents

Stacked ==
  /\ bus \in Seq(Fresh)
  /\ stack # <<>> => Head(stack) \in Good
  /\ stack \in Seq(Good)
  /\ stack # <<>> => Tail(stack) \in Seq(Waiting)

\* A change of focus is still to be announced.
Pending ==
  recovery.at = "announce" \/ \E i \in DOMAIN bus : bus[i].name = "FocusChanged"

Clearing == stack # <<>> /\ Head(stack).name = "FocusChanged"

Indexed ==
  \/ selector_map.tab \in {NoTab, focus} \/ focus \notin open
  \/ Pending \/ Clearing \/ At("Switch", "activate") \/ unannounced = focus

\* A handler that has read or set the focus finds it as it was, or lost, or about
\* to be announced.
Settled ==
  /\ At("State", "build") =>
       event.sess \in {NoTab, focus} \/ focus \notin open \/ Pending
  /\ At("Switch", "activate") =>
       focus = event.tab \/ focus \notin open \/ Pending
  /\ At("Navigate", "loaded") =>
       focus = event.tab \/ event.tab \notin open \/ Pending

IInv == Bounded /\ Stacked /\ Indexed /\ Settled

----------------------------------------------------------------------------
LEMMA Types == IInv => TypeOK
<1> SUFFICES ASSUME IInv PROVE TypeOK
  OBVIOUS
<1>1. 0 .. opened \subseteq Tabs \union {NoTab} /\ 1 .. opened \subseteq Tabs
  BY PageAssumption DEF IInv, Bounded, map, Tabs, NoTab
<1>2. bus \in Seq(Events) /\ stack \in Seq(Events)
  <2>1. Good \subseteq Events /\ Fresh \subseteq Events
    BY DEF Good, Fresh
  <2>2. QED
    BY <2>1 DEF IInv, Stacked
<1>3. recovery \in [at : {"none", "choose", "wait", "announce"},
                   tab : Tabs \union {NoTab}]
  BY <1>1 DEF IInv, Bounded, map
<1>4. QED
  BY <1>1, <1>2, <1>3 DEF IInv, Bounded, map, TypeOK, AgentStates

\* What the operations on the stack leave of it.
LEMMA Stacks ==
  ASSUME NEW S, NEW W \in SUBSET S,
         NEW s \in Seq(S), s # <<>>, Tail(s) \in Seq(W)
  PROVE  /\ \A e \in S : LET r == <<e>> \o Tail(s) IN
              r \in Seq(S) /\ r # <<>> /\ Head(r) = e /\ Tail(r) \in Seq(W)
         /\ \A e \in S, f \in W : LET r == <<e, f>> \o Tail(s) IN
              r \in Seq(S) /\ r # <<>> /\ Head(r) = e /\ Tail(r) \in Seq(W)
         /\ Tail(s) \in Seq(S)
         /\ Tail(s) # <<>> => Head(Tail(s)) \in W /\ Tail(Tail(s)) \in Seq(W)
<1>1. Tail(s) \in Seq(S)
  OBVIOUS
<1>2. ASSUME NEW e \in S
      PROVE  LET r == <<e>> \o Tail(s) IN
             r \in Seq(S) /\ r # <<>> /\ Head(r) = e /\ Tail(r) \in Seq(W)
  <2> DEFINE r == <<e>> \o Tail(s)
  <2>1. r \in Seq(S) /\ r # <<>> /\ Head(r) = e
    BY <1>1
  <2>2. Tail(r) = Tail(s)
    BY <1>1
  <2>3. QED
    BY <2>1, <2>2
<1>3. ASSUME NEW e \in S, NEW f \in W
      PROVE  LET r == <<e, f>> \o Tail(s) IN
             r \in Seq(S) /\ r # <<>> /\ Head(r) = e /\ Tail(r) \in Seq(W)
  <2> DEFINE r == <<e, f>> \o Tail(s)
  <2>1. r \in Seq(S) /\ r # <<>> /\ Head(r) = e
    BY <1>1
  <2>2. Tail(r) = <<f>> \o Tail(s)
    BY <1>1
  <2>3. <<f>> \o Tail(s) \in Seq(W)
    OBVIOUS
  <2>4. QED
    BY <2>1, <2>2, <2>3
<1>4. QED
  BY <1>1, <1>2, <1>3

\* A handler goes on, calls another one or ends, and nothing else changes.
Resting(e) ==
  \/ e.at \notin {"build", "activate", "loaded"}
  \/ e.name = "State" /\ e.at = "build" /\ e.sess \in {NoTab, focus}
  \/ e.name = "Navigate" /\ e.at = "loaded" /\ e.tab = focus

StackStep ==
  \/ \E e \in Good : Resting(e) /\ stack' = <<e>> \o Tail(stack)
  \/ \E e \in Fresh, f \in Waiting : stack' = <<e, f>> \o Tail(stack)
  \/ stack' = Tail(stack)

LEMMA StackStepKeeps ==
  ASSUME IInv, stack # <<>>, StackStep
  PROVE  /\ stack' \in Seq(Good)
         /\ stack' # <<>> => /\ Head(stack') \in Good /\ Resting(Head(stack'))
                            /\ Tail(stack') \in Seq(Waiting)
<1>1. /\ Waiting \in SUBSET Good /\ Fresh \in SUBSET Good
      /\ stack \in Seq(Good) /\ Tail(stack) \in Seq(Waiting)
  BY DEF IInv, Stacked, Waiting, Fresh
<1>2. \A e \in Waiting \union Fresh : Resting(e)
  BY DEF Waiting, Fresh, Waits, Resting
<1>3. CASE \E e \in Good : Resting(e) /\ stack' = <<e>> \o Tail(stack)
  <2>1. PICK e \in Good : Resting(e) /\ stack' = <<e>> \o Tail(stack)
    BY <1>3
  <2>2. stack' \in Seq(Good) /\ Head(stack') = e /\ Tail(stack') \in Seq(Waiting)
    BY <1>1, <2>1, Stacks
  <2>3. QED
    BY <2>1, <2>2
<1>4. CASE \E e \in Fresh, f \in Waiting : stack' = <<e, f>> \o Tail(stack)
  <2>1. PICK e \in Fresh, f \in Waiting : stack' = <<e, f>> \o Tail(stack)
    BY <1>4
  <2>2. stack' \in Seq(Good) /\ Head(stack') = e /\ Tail(stack') \in Seq(Waiting)
    BY <1>1, <2>1, Stacks
  <2>3. QED
    BY <1>1, <1>2, <2>1, <2>2
<1>5. CASE stack' = Tail(stack)
  <2>1. /\ stack' \in Seq(Good)
        /\ stack' # <<>> => Head(stack') \in Waiting /\ Tail(stack') \in Seq(Waiting)
    BY <1>1, <1>5, Stacks
  <2>2. QED
    BY <1>1, <1>2, <2>1
<1>6. QED
  BY <1>3, <1>4, <1>5 DEF StackStep

\* The steps of a handler that change neither tabs nor focus nor the map.
LEMMA QuietStep ==
  ASSUME IInv, stack # <<>>, StackStep, Bounded',
         event.name # "FocusChanged", ~At("Switch", "activate"),
         UNCHANGED <<open, opened, pool, focus, recovery, bus, map>>
  PROVE  IInv'
<1>1. Good' = Good /\ Fresh' = Fresh /\ Waiting' = Waiting /\ Pending' = Pending
  BY DEF Good, Fresh, Waiting, Pending
<1>2. Stacked'
  BY <1>1, StackStepKeeps DEF IInv, Stacked
<1>3. \/ selector_map.tab \in {NoTab, focus} \/ focus \notin open \/ Pending
      \/ unannounced = focus
  BY DEF IInv, Indexed, map, Clearing, event
<1>4. Indexed'
  BY <1>1, <1>3 DEF Indexed, map
<1>5. Settled'
  <2>1. stack' # <<>> => Resting(Head(stack'))
    BY StackStepKeeps
  <2>2. QED
    BY <2>1 DEF Settled, Resting, At, event
<1>6. QED
  BY <1>2, <1>4, <1>5 DEF IInv

LEMMA Quiet ==
  ASSUME IInv, stack # <<>>, StackStep, agent' \in AgentStates,
         event.name # "FocusChanged", ~At("Switch", "activate"),
         UNCHANGED <<chrome, targets, focus, recovery, bus, map, page_events>>
  PROVE  IInv'
<1>1. Bounded'
  BY DEF IInv, Bounded, map, chrome, targets
<1>2. QED
  BY <1>1, QuietStep DEF chrome, targets

\* An event that has moved on.
LEMMA Moved ==
  ASSUME NEW e \in Good, NEW p \in Places \ {"start", "lost"}
  PROVE  LET f == [e EXCEPT !.at = p] IN
         /\ f \in Good /\ f.at = p /\ f.name = e.name /\ f.tab = e.tab
         /\ f.sess = e.sess /\ f.node = e.node
  BY DEF Good, Events

LEMMA NewEvent ==
  ASSUME NEW n \in Names, NEW t \in Tabs \union {NoTab},
         NEW m \in Nodes \union {NoNode}, NEW b \in BOOLEAN,
         opened \in Nat, t <= opened, m.tab <= opened
  PROVE  Event(n, t, m, b) \in Fresh
  BY DEF Event, Fresh, Good, Events, Places, NoTab
\* The three things a handler does to the stack.
LEMMA Steps ==
  ASSUME IInv, stack # <<>>
  PROVE  /\ event \in Good
         /\ \A ok \in BOOLEAN : Return(ok) => StackStep /\ agent' \in AgentStates
         /\ \A p \in Places \ {"start", "lost", "build", "activate", "loaded"} :
              Goto(p) => StackStep /\ agent' \in AgentStates
         /\ \A e \in Good :
              Resting(e) /\ Continue(e) => StackStep /\ agent' \in AgentStates
         /\ \A e \in Fresh, p \in Waits :
              Call(e, p) => StackStep /\ agent' \in AgentStates
<1>1. event \in Good /\ agent \in AgentStates
  BY DEF IInv, Stacked, Bounded, map, event
<1>2. ASSUME NEW ok \in BOOLEAN, Return(ok)
      PROVE  StackStep /\ agent' \in AgentStates
  BY <1>1, <1>2 DEF Return, StackStep, AgentStates
<1>3. ASSUME NEW e \in Good, Resting(e), Continue(e)
      PROVE  StackStep /\ agent' \in AgentStates
  BY <1>1, <1>3 DEF Continue, StackStep
<1>4. ASSUME NEW p \in Places \ {"start", "lost", "build", "activate", "loaded"},
             Goto(p)
      PROVE  StackStep /\ agent' \in AgentStates
  <2>1. [event EXCEPT !.at = p] \in Good /\ Resting([event EXCEPT !.at = p])
    BY <1>1, Moved DEF Resting
  <2>2. QED
    BY <1>3, <1>4, <2>1 DEF Goto
<1>5. ASSUME NEW e \in Fresh, NEW p \in Waits, Call(e, p)
      PROVE  StackStep /\ agent' \in AgentStates
  <2>1. [event EXCEPT !.at = p] \in Waiting
    BY <1>1, Moved DEF Waits, Waiting, Places
  <2>2. stack' = <<e, [event EXCEPT !.at = p]>> \o Tail(stack) /\ agent' = agent
    BY <1>5 DEF Call
  <2>3. QED
    BY <1>1, <2>1, <2>2 DEF StackStep
<1>6. QED
  BY <1>1, <1>2, <1>3, <1>4, <1>5

\* What the events are that handlers dispatch.
LEMMA Dispatched ==
  ASSUME IInv
  PROVE  /\ \A t \in 0 .. opened : {FocusChanged(t), TabClosed(t), SwitchTab(t)} \subseteq Fresh
         /\ \A new \in BOOLEAN, b \in BOOLEAN : Navigate(new, b) \in Fresh
         /\ \A m \in Nodes \union {NoNode}, n \in OnElements \union {"Page"}, b \in BOOLEAN :
              m.tab <= opened => Event(n, NoTab, m, b) \in Fresh
         /\ \A m \in Nodes \union {NoNode} :
              m.tab <= opened => Event("Impl", NoTab, m, FALSE) \in Fresh
<1>1. /\ opened \in Nat /\ 0 .. opened \subseteq Tabs \union {NoTab}
      /\ NoTab \in 0 .. opened /\ NoNode.tab = NoTab /\ NoNode.tab <= opened
  BY PageAssumption DEF IInv, Bounded, map, Tabs, NoTab, NoNode
<1>2. ASSUME NEW t \in 0 .. opened
      PROVE  {FocusChanged(t), TabClosed(t), SwitchTab(t)} \subseteq Fresh
  <2>1. t \in Tabs \union {NoTab} /\ t <= opened
    BY <1>1
  <2>2. \A n \in Names : Event(n, t, NoNode, FALSE) \in Fresh
    BY <1>1, <2>1, NewEvent
  <2>3. QED
    BY <2>2 DEF FocusChanged, TabClosed, SwitchTab, Names
<1>3. ASSUME NEW new \in BOOLEAN, NEW b \in BOOLEAN
      PROVE  Navigate(new, b) \in Fresh
  <2>1. Event("Navigate", NoTab, NoNode, b) \in Fresh
    BY <1>1, NewEvent DEF Names
  <2>2. \A e \in Fresh : [e EXCEPT !.new_tab = new] \in Fresh
    BY DEF Fresh, Good, Events
  <2>3. QED
    BY <2>1, <2>2 DEF Navigate
<1>4. \A m \in Nodes \union {NoNode}, n \in OnElements \union {"Page", "Impl"},
         b \in BOOLEAN :
        m.tab <= opened => Event(n, NoTab, m, b) \in Fresh
  BY <1>1, NewEvent DEF Names, OnElements
<1>5. QED
  BY <1>2, <1>3, <1>4

\* A navigation that switches to its tab first.
LEMMA SwitchGoes ==
  ASSUME IInv, stack # <<>>, NEW t \in 0 .. opened, SwitchThenGo(t)
  PROVE  StackStep /\ agent' \in AgentStates
<1> DEFINE e == [event EXCEPT !.tab = t, !.at = "go"]
<1>1. /\ event \in Good /\ agent \in AgentStates
      /\ t \in Tabs \union {NoTab} /\ t <= opened
  BY PageAssumption, Steps DEF IInv, Bounded, map, Tabs, NoTab
<1>p. "go" \in Places \ {"start", "lost"} /\ "go" \in Waits
  BY DEF Places, Waits
<1>g. /\ e \in Events /\ e.tab = t /\ e.at = "go" /\ e.sess = event.sess
      /\ e.node = event.node /\ e.name = event.name
  BY <1>1, <1>p DEF Good, Events
<1> HIDE DEF e
<1>2. e \in Good /\ e \in Waiting /\ Resting(e)
  BY <1>g, <1>p, <1>1 DEF Good, Waiting, Resting
<1>3. SwitchTab(t) \in Fresh
  BY Dispatched
<1>4. QED
  BY <1>1, <1>2, <1>3, Steps DEF SwitchThenGo, StackStep, e

\* The handlers of the state, of tabs and of navigations that only move on.
LEMMA QuietTabs ==
  ASSUME IInv,
         \/ StateOfBlank \/ StateOfPage \/ BuildStarts \/ BuildFails
         \/ SwitchFails \/ TabClosedSwitches \/ TabClosedKeepsOne \/ CloseStarts
         \/ Ends("Switch") \/ Ends("TabClosed") \/ Ends("Navigate")
         \/ NavigateWithoutFocus \/ NavigateChooses \/ NavigateAsserts
         \/ NavigateFails
  PROVE  IInv'
<1> DEFINE Same ==
      UNCHANGED <<chrome, targets, focus, recovery, bus, map, page_events>>
<1> DEFINE Is(n) == stack # <<>> /\ event.name = n
<1> DEFINE Went == StackStep /\ agent' \in AgentStates
<1>f. focus \in 0 .. opened /\ opened \in Nat /\ pool \subseteq 1 .. opened
      /\ 0 .. opened \subseteq Tabs \union {NoTab} /\ NoTab \in 0 .. opened
  BY PageAssumption DEF IInv, Bounded, map, Tabs, NoTab
<1>e. \A n, p : At(n, p) => Is(n) /\ event.at = p /\ event \in Good
  BY Steps DEF At, event
<1>q. ASSUME NEW n \in Names \ {"FocusChanged", "Switch"}, Is(n), Same, Went
      PROVE  IInv'
  BY <1>q, Quiet DEF At, event
<1>w. ASSUME NEW n \in Names \ {"FocusChanged"}, Is(n), event.at # "activate",
             Same, Went
      PROVE  IInv'
  BY <1>w, Quiet DEF At, event
<1>1. CASE StateOfBlank
  <2>1. Is("State") /\ Same /\ Return(TRUE)
    BY <1>1, <1>e DEF StateOfBlank
  <2>2. QED
    BY <2>1, <1>q, Steps DEF Names
<1>2. CASE StateOfPage
  <2>1. Is("State") /\ Same /\ Goto("build") /\ event \in Good /\ event.at = "start"
    BY <1>2, <1>e DEF StateOfPage
  <2> DEFINE e == [event EXCEPT !.at = "build"]
  <2>2. e \in Good /\ Resting(e)
    BY <2>1, Moved DEF Places, Good, Resting
  <2>3. Went
    BY <2>1, <2>2, Steps DEF Goto
  <2>4. QED
    BY <2>1, <2>3, <1>q DEF Names
<1>3. CASE BuildStarts
  <2> DEFINE e == [event EXCEPT !.sess = focus]
  <2>1. Is("State") /\ Same /\ Continue(e) /\ event \in Good /\ event.at = "build"
    BY <1>3, <1>e DEF BuildStarts
  <2>2. e \in Good /\ Resting(e)
    BY <2>1, <1>f DEF Good, Events, Resting
  <2>3. Went
    BY <2>1, <2>2, Steps
  <2>4. QED
    BY <2>1, <2>3, <1>q DEF Names
<1>4. CASE BuildFails
  <2>1. Is("State") /\ Same /\ Return(TRUE)
    BY <1>4, <1>e DEF BuildFails
  <2>2. QED
    BY <2>1, <1>q, Steps DEF Names
<1>5. CASE SwitchFails
  <2>1. Is("Switch") /\ event.at = "start" /\ Same /\ Return(FALSE)
    BY <1>5, <1>e DEF SwitchFails
  <2>2. QED
    BY <2>1, <1>w, Steps DEF Names
<1>6. CASE TabClosedSwitches
  <2>1. Is("TabClosed") /\ Same
        /\ (Call(SwitchTab(NoTab), "blank") \/ Goto("blank"))
    BY <1>6, <1>e DEF TabClosedSwitches
  <2>2. Went
    BY <2>1, <1>f, Dispatched, Steps DEF Waits, Places
  <2>3. QED
    BY <2>1, <2>2, <1>q DEF Names
<1>7. CASE TabClosedKeepsOne
  <2>1. Is("TabClosed") /\ Same
        /\ (Call(Navigate(TRUE, FALSE), "end") \/ Return(TRUE))
    BY <1>7, <1>e DEF TabClosedKeepsOne
  <2>2. Went
    BY <2>1, <1>f, Dispatched, Steps DEF Waits
  <2>3. QED
    BY <2>1, <2>2, <1>q DEF Names
<1>8. CASE CloseStarts
  <2>1. Is("Close") /\ Same /\ Call(TabClosed(event.tab), "close") /\ event \in Good
    BY <1>8, <1>e DEF CloseStarts
  <2>2. event.tab \in 0 .. opened
    BY <2>1, <1>f DEF Good, Events, Tabs, NoTab
  <2>3. Went
    BY <2>1, <2>2, Dispatched, Steps DEF Waits
  <2>4. QED
    BY <2>1, <2>3, <1>q DEF Names
<1>9. CASE Ends("Switch") \/ Ends("TabClosed") \/ Ends("Navigate")
  <2>1. /\ Is("Switch") \/ Is("TabClosed") \/ Is("Navigate")
        /\ event.at = "end" /\ Same /\ Return(TRUE)
    BY <1>9, <1>e DEF Ends
  <2>2. QED
    BY <2>1, <1>w, Steps DEF Names
<1>10. CASE NavigateWithoutFocus
  <2>1. Is("Navigate") /\ Same /\ Return(TRUE)
    BY <1>10, <1>e DEF NavigateWithoutFocus
  <2>2. QED
    BY <2>1, <1>q, Steps DEF Names
<1>11. CASE NavigateChooses
  <2>1. Is("Navigate") /\ Same /\ event \in Good
    BY <1>11, <1>e DEF NavigateChooses
  <2>2. \A t \in 0 .. opened : SwitchThenGo(t) => Went
    BY <2>1, SwitchGoes
  <2>3. Continue([event EXCEPT !.tab = focus, !.at = "create"]) => Went
    <3> DEFINE e == [event EXCEPT !.tab = focus, !.at = "create"]
    <3>p. "create" \in Places \ {"start", "lost"}
      BY DEF Places
    <3>g. /\ e \in Events /\ e.tab = focus /\ e.at = "create"
          /\ e.sess = event.sess /\ e.node = event.node /\ e.name = event.name
      BY <2>1, <3>p, <1>f DEF Good, Events
    <3> HIDE DEF e
    <3>1. e \in Good /\ Resting(e)
      BY <2>1, <3>g, <1>f DEF Good, Resting
    <3>2. QED
      BY <2>1, <3>1, Steps DEF e
  <2>4. FirstOf(Blanks) \subseteq 0 .. opened
    <3>1. FirstOf(Blanks) \subseteq Blanks /\ Blanks \subseteq pool
      BY DEF FirstOf, Blanks
    <3>2. 1 .. opened \subseteq 0 .. opened
      BY <1>f
    <3>3. QED
      BY <3>1, <3>2, <1>f
  <2>5. Went
    BY <1>11, <1>f, <2>2, <2>3, <2>4 DEF NavigateChooses
  <2>6. QED
    BY <2>1, <2>5, <1>q DEF Names
<1>12. CASE NavigateAsserts
  <2>1. /\ Is("Navigate") /\ Same /\ event \in Good
        /\ \/ focus = event.tab /\ Goto("loaded")
           \/ Call(FocusChanged(event.tab), "fail")
    BY <1>12, <1>e DEF NavigateAsserts
  <2> DEFINE e == [event EXCEPT !.at = "loaded"]
  <2>2. e \in Good /\ (focus = event.tab => Resting(e))
    BY <2>1, Moved DEF Places, Resting
  <2>3. event.tab \in 0 .. opened
    BY <2>1, <1>f DEF Good, Events, Tabs, NoTab
  <2>4. Went
    BY <2>1, <2>2, <2>3, Dispatched, Steps DEF Goto, Waits
  <2>5. QED
    BY <2>1, <2>4, <1>q DEF Names
<1>13. CASE NavigateFails
  <2>1. Is("Navigate") /\ Same /\ Return(FALSE)
    BY <1>13, <1>e DEF NavigateFails
  <2>2. QED
    BY <2>1, <1>q, Steps DEF Names
<1>14. QED
  BY <1>1, <1>2, <1>3, <1>4, <1>5, <1>6, <1>7, <1>8, <1>9, <1>10, <1>11, <1>12, <1>13

\* An element whose session is found, or not any more.
LEMMA Found ==
  ASSUME NEW e \in Events, NEW p \in {"geometry", "element"},
         opened \in Nat, e.tab <= opened, e.node.tab <= opened, e.sess <= opened
  PROVE  FindSession(e, p) \in Good /\ Resting(FindSession(e, p))
<1>1. p \in Places /\ "lost" \in Places /\ p \notin {"start", "lost"}
  BY DEF Places
<1>2. CASE e.node.tab \in pool
  <2> DEFINE f == [e EXCEPT !.sess = e.node.tab, !.at = p]
  <2>1. e.node.tab \in Tabs \union {NoTab}
    BY DEF Events, Nodes, NoNode
  <2>2. /\ f \in Events /\ f.tab = e.tab /\ f.node = e.node /\ f.at = p
        /\ f.sess = e.node.tab
    BY <1>1, <2>1 DEF Events
  <2>3. f \in Good /\ Resting(f)
    BY <1>1, <2>2 DEF Good, Resting
  <2>4. QED
    BY <1>2, <2>3 DEF FindSession
<1>3. CASE e.node.tab \notin pool
  <2> DEFINE f == [e EXCEPT !.at = "lost"]
  <2>2. /\ f \in Events /\ f.tab = e.tab /\ f.node = e.node /\ f.at = "lost"
        /\ f.sess = e.sess
    BY <1>1 DEF Events
  <2>3. f \in Good /\ Resting(f)
    BY <1>3, <2>2 DEF Good, Resting
  <2>4. QED
    BY <1>3, <2>3 DEF FindSession
<1>4. QED
  BY <1>2, <1>3

\* The handlers of clicks and of text.
LEMMA QuietElements ==
  ASSUME IInv,
         \/ ClickChecks \/ ClickStarts \/ FallBack("Impl", "geometry")
         \/ FindsNoSession("Impl") \/ ClickLocates \/ ClickPresses \/ ClickByScript
         \/ TypeStarts \/ FallBack("Type", "element") \/ TypeFindsNoSession
         \/ TypeResolves \/ TypeKeys \/ TypeToPage
         \/ ScrollStarts \/ FallBack("Scroll", "element") \/ ScrollFindsNoSession
         \/ ScrollElement \/ ScrollPage
         \/ DropdownStarts \/ FallBack("Dropdown", "element")
         \/ FindsNoSession("Dropdown") \/ DropdownOptions \/ DropdownSelects
  PROVE  IInv'
<1> DEFINE Same ==
      UNCHANGED <<chrome, targets, focus, recovery, bus, map, page_events>>
<1> DEFINE Went == StackStep /\ agent' \in AgentStates
<1> DEFINE On(n) == stack # <<>> /\ event.name = n /\ event \in Good
<1>f. focus \in 0 .. opened /\ opened \in Nat
      /\ 0 .. opened \subseteq Tabs \union {NoTab}
  BY PageAssumption DEF IInv, Bounded, map, Tabs, NoTab
<1>e. \A n, p : At(n, p) => On(n) /\ event.at = p
  BY Steps DEF At, event
<1>q. ASSUME NEW n \in {"Click", "Type", "Impl", "Scroll", "Dropdown"},
             On(n), Same, Went
      PROVE  IInv'
  BY <1>q, Quiet DEF At, event
<1>p. {"press", "js", "keys", "page"} \subseteq
        Places \ {"start", "lost", "build", "activate", "loaded"}
  BY DEF Places
<1>i. ASSUME event \in Good, ClickInstead, stack # <<>> PROVE Went
  <2>1. event.node \in Nodes \union {NoNode} /\ event.node.tab <= opened
    BY <1>i DEF Good, Events
  <2>2. Event("Impl", NoTab, event.node, FALSE) \in Fresh
    BY <2>1, Dispatched
  <2>3. QED
    BY <1>i, <2>2, Steps DEF ClickInstead, Waits
<1>s. ASSUME NEW e \in {event, [event EXCEPT !.name = "Impl"]}, event \in Good,
             stack # <<>>,
             NEW p \in {"geometry", "element"}, Continue(FindSession(e, p))
      PROVE  Went
  <2>1. /\ e \in Events /\ e.tab <= opened /\ e.node.tab <= opened
        /\ e.sess <= opened
    BY <1>s DEF Good, Events, Names
  <2>2. FindSession(e, p) \in Good /\ Resting(FindSession(e, p))
    BY <1>f, <1>s, <2>1, Found
  <2>3. QED
    BY <1>s, <2>2, Steps
<1>b. ASSUME NEW n \in {"Impl", "Type", "Scroll", "Dropdown"}, NEW p \in {"geometry", "element"}, FallBack(n, p)
      PROVE  IInv'
  <2> DEFINE e == [event EXCEPT !.sess = focus, !.at = p]
  <2>1. On(n) /\ event.at = "lost" /\ Same /\ Continue(e)
    BY <1>b, <1>e DEF FallBack
  <2>2. p \in Places /\ p \notin {"start", "lost", "build", "activate", "loaded"}
    BY DEF Places
  <2>4. /\ e \in Events /\ e.tab = event.tab /\ e.node = event.node /\ e.at = p
        /\ e.sess = focus
    BY <2>1, <2>2, <1>f DEF Good, Events
  <2> HIDE DEF e
  <2>5. e \in Good /\ Resting(e)
    BY <2>1, <2>2, <2>4, <1>f DEF Good, Resting
  <2>6. Went
    BY <2>1, <2>5, Steps DEF e
  <2>7. QED
    BY <2>1, <2>6, <1>q
<1>1. CASE ClickChecks
  <2>1. /\ On("Click") /\ Same
        /\ \/ Return(FALSE)
           \/ Continue(FindSession([event EXCEPT !.name = "Impl"], "geometry"))
    BY <1>1, <1>e DEF ClickChecks
  <2>2. [event EXCEPT !.name = "Impl"].name = "Impl"
    BY <2>1 DEF Good, Events
  <2>3. Went
    BY <2>1, <2>2, <1>s, Steps
  <2>4. QED
    BY <2>1, <2>3, <1>q
<1>2. CASE ClickStarts
  <2>1. On("Impl") /\ Same /\ Continue(FindSession(event, "geometry"))
    BY <1>2, <1>e DEF ClickStarts
  <2>2. QED
    BY <2>1, <1>s, <1>q
<1>3. CASE \/ FallBack("Impl", "geometry") \/ FallBack("Type", "element")
           \/ FallBack("Scroll", "element") \/ FallBack("Dropdown", "element")
  BY <1>3, <1>b
<1>4. CASE ClickLocates
  <2>1. On("Impl") /\ Same /\ (Goto("press") \/ Goto("js") \/ Return(FALSE))
    BY <1>4, <1>e DEF ClickLocates
  <2>2. QED
    BY <2>1, <1>p, <1>q, Steps
<1>5. CASE ClickPresses
  <2>1. On("Impl") /\ Same /\ (Goto("js") \/ Return(TRUE))
    BY <1>5, <1>e DEF ClickPresses
  <2>2. QED
    BY <2>1, <1>p, <1>q, Steps
<1>6. CASE ClickByScript
  <2>1. On("Impl") /\ Same /\ (Return(TRUE) \/ Return(FALSE))
    BY <1>6, <1>e DEF ClickByScript
  <2>2. QED
    BY <2>1, <1>q, Steps
<1>7. CASE TypeStarts
  <2>1. On("Type") /\ Same /\ Continue(FindSession(event, "element"))
    BY <1>7, <1>e DEF TypeStarts
  <2>2. QED
    BY <2>1, <1>s, <1>q
<1>8. CASE TypeFindsNoSession
  <2>1. On("Type") /\ Same /\ ClickInstead
    BY <1>8, <1>e DEF TypeFindsNoSession
  <2>2. QED
    BY <2>1, <1>i, <1>q
<1>9. CASE TypeResolves
  <2>1. On("Type") /\ Same /\ (Goto("keys") \/ ClickInstead)
    BY <1>9, <1>e DEF TypeResolves
  <2>2. QED
    BY <2>1, <1>p, <1>i, <1>q, Steps
<1>10. CASE TypeKeys
  <2>1. On("Type") /\ Same /\ (Return(TRUE) \/ ClickInstead)
    BY <1>10, <1>e DEF TypeKeys
  <2>2. QED
    BY <2>1, <1>i, <1>q, Steps
<1>11. CASE TypeToPage
  <2>1. On("Type") /\ Same /\ (Return(TRUE) \/ Return(FALSE))
    BY <1>11, <1>e DEF TypeToPage
  <2>2. QED
    BY <2>1, <1>q, Steps
<1>12. CASE FindsNoSession("Impl") \/ FindsNoSession("Dropdown")
  <2>1. (On("Impl") \/ On("Dropdown")) /\ Same /\ Return(FALSE)
    BY <1>12, <1>e DEF FindsNoSession
  <2>2. QED
    BY <2>1, <1>q, Steps
<1>13. CASE ScrollStarts
  <2>1. On("Scroll") /\ Same
    BY <1>13, <1>e DEF ScrollStarts
  <2>2. \/ \E ok \in BOOLEAN : Return(ok)
        \/ Goto("page")
        \/ Continue(FindSession(event, "element"))
    BY <1>13 DEF ScrollStarts
  <2>3. Went
    BY <2>1, <2>2, <1>p, <1>s, Steps
  <2>4. QED
    BY <2>1, <2>3, <1>q
<1>14. CASE ScrollFindsNoSession
  <2>1. On("Scroll") /\ Same /\ Goto("page")
    BY <1>14, <1>e DEF ScrollFindsNoSession
  <2>2. QED
    BY <2>1, <1>p, <1>q, Steps
<1>15. CASE ScrollElement
  <2>1. On("Scroll") /\ Same /\ (Return(TRUE) \/ Goto("page"))
    BY <1>15, <1>e DEF ScrollElement
  <2>2. QED
    BY <2>1, <1>p, <1>q, Steps
<1>16. CASE ScrollPage
  <2>1. On("Scroll") /\ Same /\ Return(TRUE)
    BY <1>16, <1>e DEF ScrollPage
  <2>2. QED
    BY <2>1, <1>q, Steps
<1>17. CASE DropdownStarts
  <2>1. On("Dropdown") /\ Same /\ Continue(FindSession(event, "element"))
    BY <1>17, <1>e DEF DropdownStarts
  <2>2. QED
    BY <2>1, <1>s, <1>q
<1>18. CASE DropdownOptions \/ DropdownSelects
  <2>1. On("Dropdown") /\ Same /\ (Return(TRUE) \/ Return(FALSE))
    BY <1>18, <1>e DEF DropdownOptions, DropdownSelects
  <2>2. QED
    BY <2>1, <1>q, Steps
<1>19. QED
  BY <1>1, <1>2, <1>3, <1>4, <1>5, <1>6, <1>7, <1>8, <1>9, <1>10, <1>11, <1>12, <1>13,
     <1>14, <1>15, <1>16, <1>17, <1>18

\* The handlers that act on the focused page.
LEMMA QuietPage ==
  ASSUME IInv,
         \/ TakesFocusedSession("Upload", "element") \/ UploadSetsFile
         \/ TakesFocusedSession("Page", "keys") \/ KeysSent \/ TextSought
  PROVE  IInv'
<1> DEFINE Same ==
      UNCHANGED <<chrome, targets, focus, recovery, bus, map, page_events>>
<1> DEFINE Went == StackStep /\ agent' \in AgentStates
<1> DEFINE On(n) == stack # <<>> /\ event.name = n /\ event \in Good
<1>e. \A n, p : At(n, p) => On(n)
  BY Steps DEF At, event
<1>q. ASSUME NEW n \in {"Upload", "Page"}, On(n), Same, Went PROVE IInv'
  BY <1>q, Quiet DEF At, event
<1>1. ASSUME NEW n \in {"Upload", "Page"}, NEW p \in {"element", "keys"},
             TakesFocusedSession(n, p)
      PROVE  IInv'
  <2> DEFINE e == [event EXCEPT !.sess = focus, !.at = p]
  <2>1. /\ On(n) /\ Same
        /\ Continue(e) \/ \E ok \in BOOLEAN : Return(ok)
    BY <1>1, <1>e DEF TakesFocusedSession
  <2>2. p \in Places /\ p \notin {"start", "lost", "build", "activate", "loaded"}
    BY DEF Places
  <2>3. focus \in 0 .. opened /\ opened \in Nat /\ focus \in Tabs \union {NoTab}
    BY PageAssumption DEF IInv, Bounded, map, Tabs, NoTab
  <2>4. /\ e \in Events /\ e.tab = event.tab /\ e.node = event.node /\ e.at = p
        /\ e.sess = focus /\ e.name = n
    BY <2>1, <2>2, <2>3 DEF Good, Events
  <2> HIDE DEF e
  <2>5. e \in Good /\ Resting(e)
    BY <2>1, <2>2, <2>3, <2>4 DEF Good, Resting
  <2>6. Went
    BY <2>1, <2>5, Steps DEF e
  <2>7. QED
    BY <2>1, <2>6, <1>q
<1>2. CASE UploadSetsFile
  <2>1. On("Upload") /\ Same /\ (Return(TRUE) \/ Return(FALSE))
    BY <1>2, <1>e DEF UploadSetsFile
  <2>2. QED
    BY <2>1, <1>q, Steps
<1>3. CASE KeysSent \/ TextSought
  <2>1. On("Page") /\ Same /\ (Return(TRUE) \/ Return(FALSE))
    BY <1>3, <1>e DEF KeysSent, TextSought
  <2>2. QED
    BY <2>1, <1>q, Steps
<1>4. QED
  BY <1>1, <1>2, <1>3

\* What goes on beside the handlers.  No tab comes back, and a focus that moves is
\* lost or announced.
LEMMA Elsewhere ==
  ASSUME IInv, Bounded', UNCHANGED <<stack, map>>,
         opened' >= opened,
         \A t \in 0 .. opened : (t \in pool' => t \in pool) /\ (t \in open' => t \in open),
         bus' = bus \/ \E e \in Fresh' : bus' = Append(bus, e),
         \/ focus' = focus \/ recovery'.at = "announce"
         \/ focus' = NoTab /\ focus \notin open,
         recovery.at = "announce" => Pending'
  PROVE  IInv'
<1>1. /\ opened \in Nat /\ opened' \in Nat /\ focus \in 0 .. opened
      /\ NoTab \notin open' /\ NoTab \in 0 .. opened
  BY PageAssumption DEF IInv, Bounded, map, Tabs, NoTab
<1>2. Good \subseteq Good'
  <2> SUFFICES ASSUME NEW e \in Good PROVE e \in Good'
    OBVIOUS
  <2>1. /\ e.node.tab \in 0 .. opened /\ e.tab \in 0 .. opened
        /\ e.sess \in 0 .. opened /\ e \in Events
    BY <1>1 DEF Good, Events, Nodes, NoNode, Tabs, NoTab
  <2>2. e.tab <= opened' /\ e.node.tab <= opened' /\ e.sess <= opened'
    BY <1>1, <2>1
  <2>4. QED
    BY <2>1, <2>2 DEF Good
<1>3. Fresh \subseteq Fresh' /\ Waiting \subseteq Waiting'
  BY <1>2 DEF Fresh, Waiting
<1>4. bus' \in Seq(Fresh') /\ (Pending => Pending')
  <2>1. bus \in Seq(Fresh') /\ bus \in Seq(Fresh)
    BY <1>3 DEF IInv, Stacked
  <2>2. CASE bus' = bus
    BY <2>1, <2>2 DEF Pending
  <2>3. CASE \E e \in Fresh' : bus' = Append(bus, e)
    <3>1. PICK e \in Fresh' : bus' = Append(bus, e)
      BY <2>3
    <3>2. bus' \in Seq(Fresh')
      BY <2>1, <3>1
    <3>3. \A i \in DOMAIN bus : i \in DOMAIN bus' /\ bus'[i] = bus[i]
      BY <2>1, <3>1
    <3>4. QED
      BY <3>2, <3>3 DEF Pending
  <2>4. QED
    BY <2>2, <2>3
<1>5. Stacked'
  BY <1>2, <1>3, <1>4 DEF IInv, Stacked
<1>6. \/ focus' = focus /\ (focus \notin open => focus' \notin open')
      \/ focus' \notin open' /\ focus \notin open'
      \/ Pending'
  BY <1>1 DEF Pending
<1>7. Indexed'
  BY <1>4, <1>6 DEF IInv, Indexed, map, Clearing, At
<1>8. Settled'
  <2>1. stack # <<>> => event.tab \in 0 .. opened /\ event' = event
    <3>1. stack # <<>> => event \in Good
      BY DEF IInv, Stacked, event
    <3>2. QED
      BY <1>1, <3>1 DEF Good, Events, event, Tabs, NoTab
  <2>2. \A n, p : At(n, p)' => At(n, p) /\ stack # <<>>
    BY DEF At
  <2>3. stack # <<>> /\ event.tab \notin open => event.tab \notin open'
    BY <2>1
  <2>4. /\ At("State", "build") => event.sess \in {NoTab, focus} \/ focus \notin open
                                   \/ Pending
        /\ At("Switch", "activate") => focus = event.tab \/ focus \notin open \/ Pending
        /\ At("Navigate", "loaded") => focus = event.tab \/ event.tab \notin open
                                       \/ Pending
    BY DEF IInv, Settled
  <2>5. At("State", "build")' =>
          event'.sess \in {NoTab, focus'} \/ focus' \notin open' \/ Pending'
    BY <1>4, <1>6, <2>1, <2>2, <2>4
  <2>6. At("Switch", "activate")' =>
          focus' = event'.tab \/ focus' \notin open' \/ Pending'
    BY <1>4, <1>6, <2>1, <2>2, <2>4
  <2>7. At("Navigate", "loaded")' =>
          focus' = event'.tab \/ event'.tab \notin open' \/ Pending'
    BY <1>4, <1>6, <2>1, <2>2, <2>3, <2>4
  <2>8. QED
    BY <2>5, <2>6, <2>7 DEF Settled
<1>9. QED
  BY <1>5, <1>7, <1>8 DEF IInv

\* A tab that is opened is a new one.
LEMMA TabOpened ==
  ASSUME IInv, OpenTab
  PROVE  /\ opened' \in Tabs /\ opened' = opened + 1 /\ opened \in Nat
         /\ open' \subseteq pool' /\ pool' \subseteq 1 .. opened'
         /\ 0 .. opened \subseteq 0 .. opened' /\ opened' \in 0 .. opened'
         /\ \A t \in 0 .. opened :
              (t \in pool' => t \in pool) /\ (t \in open' => t \in open)
         /\ UNCHANGED <<doc, kind, url>>
<1>1. /\ opened \in Nat /\ opened' = opened + 1 /\ opened < MaxTabs /\ MaxTabs \in Nat
      /\ open' = open \union {opened'} /\ pool' = pool \union {opened'}
      /\ open \subseteq pool /\ pool \subseteq 1 .. opened /\ opened \in 1 .. MaxTabs
  BY PageAssumption DEF IInv, Bounded, map, OpenTab, Tabs
<1>2. opened' \in Tabs /\ 1 .. opened \subseteq 1 .. opened' /\ opened' \in 1 .. opened'
  BY <1>1 DEF Tabs
<1>3. \A t \in 0 .. opened : t # opened'
  BY <1>1
<1>4. QED
  BY <1>1, <1>2, <1>3 DEF OpenTab

\* A tab shows another document.
LEMMA Documents ==
  ASSUME IInv, NEW t \in Tabs, NEW k \in {"blank", "web"}, NewDocument(t, k)
  PROVE  /\ doc' \in [Tabs -> 0 .. MaxDocs] /\ kind' \in [Tabs -> {"blank", "web"}]
         /\ UNCHANGED <<open, opened>>
<1>1. doc[t] + 1 \in 0 .. MaxDocs
  BY PageAssumption DEF NewDocument, IInv, Bounded, map
<1>2. QED
  BY <1>1 DEF NewDocument, IInv, Bounded, map

LEMMA PagesStep ==
  ASSUME IInv, Pages
  PROVE  IInv'
<1>p. page_events' \in 0 .. MaxPageEvents
  <2>1. PageActs
    BY DEF Pages, PageOpens, PageNavigates, PageCloses
  <2>2. QED
    BY <2>1, PageAssumption DEF PageActs, IInv, Bounded, map
<1>o. opened \in Nat
  BY DEF IInv, Bounded, map, Tabs
<1>1. CASE PageOpens
  <2>1. OpenTab /\ UNCHANGED <<focus, recovery, bus, stack, map, agent>>
    BY <1>1 DEF PageOpens
  <2>2. Bounded'
    <3>1. /\ focus \in 0 .. opened'
          /\ recovery \in [at : {"none", "choose", "wait", "announce"}, tab : 0 .. opened']
      BY <2>1, TabOpened DEF IInv, Bounded, map
    <3>2. selector_map.tab <= opened'
      BY <2>1, TabOpened DEF IInv, Bounded, map, Nodes, NoNode, NoTab, Tabs
    <3>3. QED
      BY <2>1, <3>1, <3>2, <1>p, TabOpened DEF IInv, Bounded, map
  <2>3. QED
    BY <2>1, <2>2, TabOpened, Elsewhere DEF Pending
<1>2. ASSUME NEW t \in Tabs, PageNavigates(t)
      PROVE  IInv'
  <2>1. /\ \E k \in {"blank", "web"} : NewDocument(t, k)
        /\ UNCHANGED <<targets, focus, recovery, bus, stack, map, agent>>
    BY <1>2 DEF PageNavigates
  <2>2. /\ doc' \in [Tabs -> 0 .. MaxDocs] /\ kind' \in [Tabs -> {"blank", "web"}]
        /\ UNCHANGED <<open, opened>>
    BY <2>1, Documents
  <2>3. Bounded'
    BY <2>1, <2>2, <1>p DEF IInv, Bounded, map, targets
  <2>4. QED
    BY <2>1, <2>2, <2>3, <1>o, Elsewhere DEF Pending, targets
<1>3. ASSUME NEW t \in Tabs, PageCloses(t)
      PROVE  IInv'
  <2>1. /\ open' = open \ {t}
        /\ UNCHANGED <<doc, kind, opened, pool, url, focus, recovery, bus, stack,
                      map, agent>>
    BY <1>3 DEF PageCloses, targets
  <2>2. Bounded'
    BY <2>1, <1>p DEF IInv, Bounded, map
  <2>3. QED
    BY <2>1, <2>2, <1>o, Elsewhere DEF Pending
<1>4. QED
  BY <1>1, <1>2, <1>3 DEF Pages

LEMMA ManagerStep ==
  ASSUME IInv, Manager
  PROVE  IInv'
<1>o. opened \in Nat
  BY DEF IInv, Bounded, map, Tabs
<1>r. ASSUME recovery.at # "announce",
             NEW p \in {"none", "wait"}, NEW t \in 0 .. opened,
             recovery' = [at |-> p, tab |-> t],
             UNCHANGED <<chrome, targets, focus, bus, stack, map, agent,
                         page_events>>
      PROVE  IInv'
  <2>1. Bounded'
    BY <1>r DEF IInv, Bounded, map, chrome, targets
  <2>2. QED
    BY <1>r, <2>1, <1>o, Elsewhere DEF chrome, targets
<1>i. ASSUME recovery.at # "announce", recovery' = NoRecovery,
             UNCHANGED <<chrome, targets, focus, bus, stack, map, agent,
                         page_events>>
      PROVE  IInv'
  BY <1>i, <1>o, <1>r DEF NoRecovery, NoTab
<1>n. ASSUME recovery.at # "announce", OpenTab,
             recovery' = [at |-> "wait", tab |-> opened + 1],
             UNCHANGED <<focus, bus, stack, map, agent, page_events>>
      PROVE  IInv'
  <2>1. recovery' \in [at : {"none", "choose", "wait", "announce"},
                      tab : 0 .. opened']
    BY <1>n, TabOpened
  <2>2. Bounded'
    <3>1. focus \in 0 .. opened'
      BY <1>n, TabOpened DEF IInv, Bounded, map
    <3>2. selector_map.tab <= opened'
      BY <1>n, TabOpened DEF IInv, Bounded, map, Nodes, NoNode, NoTab, Tabs
    <3>3. QED
      BY <1>n, <2>1, <3>1, <3>2, TabOpened DEF IInv, Bounded, map
  <2>3. QED
    BY <1>n, <2>2, TabOpened, Elsewhere
<1>1. ASSUME NEW t \in Tabs, TargetInfoChanged(t)
      PROVE  IInv'
  <2>1. /\ url' = [url EXCEPT ![t] = kind[t]]
        /\ UNCHANGED <<chrome, pool, focus, recovery, bus, stack, map, agent,
                      page_events>>
    BY <1>1 DEF TargetInfoChanged
  <2>2. Bounded'
    BY <2>1 DEF IInv, Bounded, map, chrome
  <2>3. QED
    BY <2>1, <2>2, <1>o, Elsewhere DEF Pending, chrome
<1>2. ASSUME NEW t \in Tabs, TargetDetached(t)
      PROVE  IInv'
  <2>1. /\ t \in pool \ open /\ pool' = pool \ {t} /\ Forget(t)
        /\ bus' = Append(bus, TabClosed(t))
        /\ \/ focus = t /\ focus' = NoTab /\ recovery' = [at |-> "choose", tab |-> t]
              /\ recovery = NoRecovery
           \/ focus = t /\ focus' = NoTab /\ recovery' = recovery
           \/ UNCHANGED <<focus, recovery>>
        /\ UNCHANGED <<open, opened, stack, map, agent, page_events>>
    BY <1>2 DEF TargetDetached
  <2>2. t \in 0 .. opened
    BY <2>1 DEF IInv, Bounded, map
  <2>3. Bounded'
    <3>1. /\ doc' \in [Tabs -> 0 .. MaxDocs] /\ kind' \in [Tabs -> {"blank", "web"}]
          /\ url' \in [Tabs -> {"blank", "web"}]
      BY <2>1, PageAssumption DEF IInv, Bounded, map, Forget
    <3>2. /\ focus' \in 0 .. opened
          /\ recovery' \in [at : {"none", "choose", "wait", "announce"},
                            tab : 0 .. opened]
      BY <2>1, <2>2, <1>o DEF IInv, Bounded, map, NoTab
    <3>3. open' \subseteq pool' /\ pool' \subseteq 1 .. opened
      BY <2>1 DEF IInv, Bounded, map
    <3>4. QED
      BY <2>1, <3>1, <3>2, <3>3 DEF IInv, Bounded, map
  <2>4. TabClosed(t) \in Fresh'
    <3>1. TabClosed(t) \in Fresh
      BY <2>2, Dispatched
    <3>2. TabClosed(t).name = "TabClosed"
      BY DEF TabClosed, Event
    <3>3. QED
      BY <2>1, <3>1, <3>2 DEF Fresh, Good
  <2>5. recovery.at = "announce" => recovery' = recovery
    BY <2>1 DEF NoRecovery
  <2>6. focus' = focus \/ (focus' = NoTab /\ focus \notin open)
    BY <2>1
  <2>7. \A u \in 0 .. opened :
          (u \in pool' => u \in pool) /\ (u \in open' => u \in open)
    BY <2>1
  <2>8. /\ \E e \in Fresh' : bus' = Append(bus, e)
        /\ recovery.at = "announce" => Pending'
        /\ opened' >= opened
        /\ UNCHANGED <<stack, map>>
    BY <2>1, <2>4, <2>5, <1>o DEF Pending
  <2>9. QED
    BY <2>3, <2>6, <2>7, <2>8, <1>o, Elsewhere
<1>3. CASE RecoveryChooses
  <2>1. /\ recovery.at = "choose"
        /\ \/ recovery' = NoRecovery /\ UNCHANGED <<chrome, targets>>
           \/ /\ \E t \in LastOf(pool) : recovery' = [at |-> "wait", tab |-> t]
              /\ UNCHANGED <<chrome, targets>>
           \/ OpenTab /\ recovery' = [at |-> "wait", tab |-> opened + 1]
        /\ UNCHANGED <<focus, bus, stack, map, agent, page_events>>
    BY <1>3 DEF RecoveryChooses
  <2>2. CASE recovery' = NoRecovery /\ UNCHANGED <<chrome, targets>>
    BY <2>1, <2>2, <1>i
  <2>3. CASE /\ \E t \in LastOf(pool) : recovery' = [at |-> "wait", tab |-> t]
             /\ UNCHANGED <<chrome, targets>>
    <3>1. PICK t \in pool : recovery' = [at |-> "wait", tab |-> t]
      BY <2>3 DEF LastOf
    <3>2. t \in 0 .. opened /\ recovery'.at = "wait"
      BY <3>1, <1>o DEF IInv, Bounded, map
    <3>3. QED
      BY <2>1, <2>3, <3>1, <3>2, <1>r
  <2>4. CASE OpenTab /\ recovery' = [at |-> "wait", tab |-> opened + 1]
    BY <2>1, <2>4, <1>n
  <2>5. QED
    BY <2>1, <2>2, <2>3, <2>4
<1>4. CASE RecoveryFails
  <2>1. /\ recovery.at \in {"choose", "wait"} /\ recovery' = NoRecovery
        /\ UNCHANGED <<chrome, targets, focus, bus, stack, map, agent,
                      page_events>>
    BY <1>4 DEF RecoveryFails
  <2>2. QED
    BY <2>1, <1>i
<1>5. CASE RecoveryFocuses
  <2>1. /\ recovery.tab \in pool /\ focus' = recovery.tab
        /\ recovery' = [recovery EXCEPT !.at = "announce"]
        /\ UNCHANGED <<chrome, targets, bus, stack, map, agent, page_events>>
    BY <1>5 DEF RecoveryFocuses
  <2>2. /\ recovery'.at = "announce" /\ focus' \in 0 .. opened
        /\ recovery' \in [at : {"none", "choose", "wait", "announce"}, tab : 0 .. opened]
    BY <2>1 DEF IInv, Bounded, map
  <2>3. Bounded'
    BY <2>1, <2>2 DEF IInv, Bounded, map, chrome, targets
  <2>4. QED
    BY <2>1, <2>2, <2>3, <1>o, Elsewhere DEF Pending, chrome, targets
<1>6. CASE RecoveryFallback
  <2>1. /\ recovery.at = "wait" /\ OpenTab
        /\ recovery' = [at |-> "wait", tab |-> opened + 1]
        /\ UNCHANGED <<focus, bus, stack, map, agent, page_events>>
    BY <1>6 DEF RecoveryFallback
  <2>2. QED
    BY <2>1, <1>n
<1>7. CASE RecoveryAnnounces
  <2>1. /\ recovery.at = "announce" /\ recovery' = NoRecovery
        /\ bus' = Append(bus, FocusChanged(recovery.tab))
        /\ UNCHANGED <<chrome, targets, focus, stack, map, agent, page_events>>
    BY <1>7 DEF RecoveryAnnounces
  <2>2. FocusChanged(recovery.tab) \in Fresh /\ bus \in Seq(Fresh)
    BY Dispatched DEF IInv, Bounded, map, Stacked
  <2>3. FocusChanged(recovery.tab) \in Fresh'
    BY <2>1, <2>2 DEF Fresh, Good, chrome, targets
  <2>4. Pending'
    <3>1. FocusChanged(recovery.tab).name = "FocusChanged"
      BY DEF FocusChanged, Event
    <3>2. /\ Len(bus) + 1 \in DOMAIN bus'
          /\ bus'[Len(bus) + 1] = FocusChanged(recovery.tab)
      BY <2>1, <2>2
    <3>3. QED
      BY <3>1, <3>2 DEF Pending
  <2>5. Bounded'
    BY <2>1, <1>o DEF IInv, Bounded, map, NoRecovery, NoTab, chrome, targets
  <2>6. QED
    BY <2>1, <2>3, <2>4, <2>5, <1>o, Elsewhere DEF chrome, targets
<1>8. QED
  BY <1>1, <1>2, <1>3, <1>4, <1>5, <1>6, <1>7 DEF Manager

LEMMA AgentStep ==
  ASSUME IInv, Agent
  PROVE  IInv'
<1> DEFINE Same ==
      UNCHANGED <<chrome, targets, focus, recovery, stack, map, page_events>>
<1>o. opened \in Nat /\ agent \in AgentStates /\ pool \subseteq 0 .. opened
  BY DEF IInv, Bounded, map, Tabs
<1>d. ASSUME Same, agent' \in AgentStates,
             bus' = bus \/ \E e \in Fresh : bus' = Append(bus, e)
      PROVE  IInv'
  <2>1. Bounded'
    BY <1>d DEF IInv, Bounded, map, chrome, targets
  <2>2. Fresh' = Fresh
    BY <1>d DEF Fresh, Good, chrome, targets
  <2>3. QED
    BY <1>d, <1>o, <2>1, <2>2, Elsewhere DEF Pending, chrome, targets
<1>a. ASSUME NEW e \in Fresh, Acts, Dispatch(e), Same
      PROVE  IInv'
  <2>1. agent.left - 1 \in 0 .. MaxActions
    BY <1>a, <1>o, PageAssumption DEF Acts, AgentStates
  <2>2. agent' \in AgentStates /\ bus' = Append(bus, e)
    BY <1>a, <1>o, <2>1 DEF Dispatch, AgentStates
  <2>3. QED
    BY <1>a, <2>2, <1>d
<1>1. CASE StepBegins
  <2>1. agent' \in AgentStates
    BY <1>1, <1>o, PageAssumption DEF StepBegins, AgentStates
  <2>2. Event("State", NoTab, NoNode, TRUE) \in Fresh
    <3>1. /\ "State" \in Names /\ NoTab \in Tabs \union {NoTab} /\ NoTab <= opened
          /\ NoNode \in Nodes \union {NoNode} /\ NoNode.tab <= opened
      BY <1>o DEF Names, NoTab, NoNode
    <3>2. QED
      BY <3>1, <1>o, NewEvent
  <2>3. QED
    BY <1>1, <2>1, <2>2, <1>d DEF StepBegins
<1>2. ASSUME NEW n \in OnElements, ActOnElement(n)
      PROVE  IInv'
  <2>1. Acts /\ Same
    BY <1>2 DEF ActOnElement
  <2>2. CASE agent' = [agent EXCEPT !.left = @ - 1] /\ UNCHANGED bus
    <3>1. agent.left - 1 \in 0 .. MaxActions
      BY <2>1, <1>o, PageAssumption DEF Acts, AgentStates
    <3>2. agent' \in AgentStates
      BY <2>2, <3>1, <1>o DEF AgentStates
    <3>3. QED
      BY <2>1, <2>2, <3>2, <1>d
  <2>3. CASE Dispatch(Event(n, NoTab, selector_map, TRUE))
    <3>1. Event(n, NoTab, selector_map, TRUE) \in Fresh
      BY Dispatched DEF IInv, Bounded, map
    <3>2. QED
      BY <2>1, <2>3, <3>1, <1>a
  <2>4. QED
    BY <1>2, <2>2, <2>3 DEF ActOnElement
<1>3. CASE ActOnTabs
  <2>1. Acts /\ Same
    BY <1>3 DEF ActOnTabs
  <2>2. ASSUME NEW new \in BOOLEAN, Dispatch(Navigate(new, TRUE))
        PROVE  IInv'
    BY <2>1, <2>2, <1>a, Dispatched
  <2>3. ASSUME NEW t \in pool, NEW n \in {"Switch", "Close"},
               Dispatch(Event(n, t, NoNode, TRUE))
        PROVE  IInv'
    <3>1. t \in Tabs \union {NoTab} /\ t <= opened /\ NoNode.tab <= opened
      BY <1>o, PageAssumption DEF IInv, Bounded, map, Tabs, NoTab, NoNode
    <3>2. Event(n, t, NoNode, TRUE) \in Fresh
      BY <3>1, <1>o, NewEvent DEF Names
    <3>3. QED
      BY <2>1, <2>3, <3>2, <1>a
  <2>4. QED
    BY <1>3, <2>2, <2>3 DEF ActOnTabs
<1>4. CASE StepEnds
  <2>1. agent' \in AgentStates
    <3>1. 0 \in 0 .. MaxActions
      BY PageAssumption
    <3>2. QED
      BY <1>4, <1>o, <3>1 DEF StepEnds, AgentStates
  <2>2. QED
    BY <1>4, <2>1, <1>d DEF StepEnds
<1>r. ASSUME Acts, Refuse, Same
      PROVE  IInv'
  <2>1. agent.left - 1 \in 0 .. MaxActions
    BY <1>r, <1>o, PageAssumption DEF Acts, AgentStates
  <2>2. agent' \in AgentStates
    BY <1>r, <1>o, <2>1 DEF Refuse, AgentStates
  <2>3. QED
    BY <1>r, <2>2, <1>d DEF Refuse
<1>n. ASSUME NEW n \in {"Scroll", "Upload", "Page"}, NEW m \in {NoNode, selector_map}
      PROVE  Event(n, NoTab, m, TRUE) \in Fresh
  <2>1. m \in Nodes \union {NoNode} /\ m.tab <= opened
    BY <1>o DEF NoNode, NoTab, IInv, Bounded, map
  <2>2. QED
    BY <2>1, Dispatched DEF OnElements
<1>5. CASE ActScroll \/ ActUpload \/ ActOnPage
  <2>1. Acts /\ Same
    BY <1>5 DEF ActScroll, ActUpload, ActOnPage
  <2>2. \/ Refuse
        \/ \E n \in {"Scroll", "Upload", "Page"}, m \in {NoNode, selector_map} :
             Dispatch(Event(n, NoTab, m, TRUE))
    BY <1>5 DEF ActScroll, ActUpload, ActOnPage
  <2>3. QED
    BY <2>1, <2>2, <1>n, <1>a, <1>r
<1>6. QED
  BY <1>1, <1>2, <1>3, <1>4, <1>5 DEF Agent, OnElements

\* The handlers that move the focus, change the map or open and close tabs.
LEMMA FocusStep ==
  ASSUME IInv,
         \/ FocusChangedClears \/ SwitchStarts \/ SwitchActivates \/ SwitchFailsLate
         \/ BuildEnds
         \/ CloseCloses \/ NavigateLoads
  PROVE  IInv'
<1>f. /\ focus \in 0 .. opened /\ opened \in Nat /\ pool \subseteq 1 .. opened
      /\ open \subseteq pool /\ 0 .. opened \subseteq Tabs \union {NoTab}
      /\ agent \in AgentStates /\ 1 .. opened \subseteq Tabs
  BY PageAssumption DEF IInv, Bounded, map, Tabs, NoTab
<1>e. ASSUME NEW n, NEW p, At(n, p)
      PROVE  /\ stack # <<>> /\ event \in Good /\ event.name = n /\ event.at = p
             /\ event.tab \in 0 .. opened
  <2>1. stack # <<>> /\ event \in Good /\ event.name = n /\ event.at = p
    BY <1>e, Steps DEF At, event
  <2>2. QED
    BY <2>1, <1>f DEF Good, Events, Tabs, NoTab
\* A handler that ends leaves one that waits.
<1>r. ASSUME stack # <<>>, NEW ok \in BOOLEAN, Return(ok), UNCHANGED <<opened, pool, bus>>
      PROVE  /\ Stacked' /\ Settled' /\ agent' \in AgentStates
  <2>1. Good' = Good /\ Fresh' = Fresh /\ Waiting' = Waiting
    BY <1>r DEF Good, Fresh, Waiting
  <2>2. StackStep /\ agent' \in AgentStates /\ stack' = Tail(stack)
    BY <1>r, Steps DEF Return
  <2>3. Stacked'
    BY <1>r, <2>1, <2>2, StackStepKeeps DEF IInv, Stacked
  <2>4. stack' # <<>> => Head(stack') \in Waiting
    <3>1. Waiting \in SUBSET Good /\ stack \in Seq(Good) /\ Tail(stack) \in Seq(Waiting)
      BY <1>r DEF Waiting, IInv, Stacked
    <3>2. QED
      BY <1>r, <2>2, <3>1, Stacks
  <2>5. Settled'
    BY <2>4 DEF Settled, At, Waiting, Waits
  <2>6. QED
    BY <2>2, <2>3, <2>5
<1>1. CASE FocusChangedClears
  <2>1. /\ stack # <<>> /\ selector_map' = NoNode /\ unannounced' = NoTab
        /\ focus' = IF event.tab \in pool THEN event.tab ELSE focus
        /\ Return(event.tab \in pool) /\ event.tab \in 0 .. opened
        /\ UNCHANGED <<chrome, targets, recovery, bus, page_events>>
    BY <1>1, <1>e DEF FocusChangedClears
  <2>a. UNCHANGED <<opened, pool, bus>> /\ (event.tab \in pool) \in BOOLEAN
    BY <2>1 DEF chrome, targets
  <2>2. Stacked' /\ Settled' /\ agent' \in AgentStates
    BY <2>1, <2>a, <1>r
  <2>3. Bounded'
    BY <2>1, <2>2, <1>f DEF IInv, Bounded, map, chrome, targets, NoNode, NoTab
  <2>4. Indexed'
    BY <2>1 DEF Indexed, map, NoNode, NoTab
  <2>5. QED
    BY <2>2, <2>3, <2>4 DEF IInv
<1>2. CASE SwitchStarts
  <2>1. PICK t \in SwitchTargets :
          focus' = t /\ Continue([event EXCEPT !.tab = t, !.at = "activate"])
    BY <1>2 DEF SwitchStarts
  <2> DEFINE e == [event EXCEPT !.tab = t, !.at = "activate"]
  <2>2. /\ stack # <<>> /\ event \in Good /\ event.name = "Switch"
        /\ UNCHANGED <<chrome, targets, recovery, bus, map, page_events>>
    BY <1>2, <1>e DEF SwitchStarts
  <2>3. t \in 1 .. opened
    BY <1>f, <2>1 DEF SwitchTargets, LastOf
  <2>p. "activate" \in Places /\ t \in Tabs \union {NoTab}
    BY <2>3, <1>f DEF Places
  <2>4. /\ e \in Events /\ e.tab = t /\ e.at = "activate" /\ e.sess = event.sess
        /\ e.node = event.node /\ e.name = "Switch"
    BY <2>2, <2>p DEF Good, Events
  <2>5. stack' = <<e>> \o Tail(stack) /\ agent' = agent
    BY <2>1 DEF Continue
  <2> HIDE DEF e
  <2>6. e \in Good
    BY <2>2, <2>3, <2>4, <1>f DEF Good
  <2>7. Good' = Good /\ Fresh' = Fresh /\ Waiting' = Waiting
    BY <2>2 DEF Good, Fresh, Waiting, chrome, targets
  <2>8. /\ stack' \in Seq(Good) /\ Head(stack') = e /\ stack' # <<>>
        /\ Tail(stack') \in Seq(Waiting)
    <3>1. Waiting \in SUBSET Good /\ stack \in Seq(Good) /\ Tail(stack) \in Seq(Waiting)
      BY <2>2 DEF Waiting, IInv, Stacked
    <3>2. QED
      BY <2>2, <2>5, <2>6, <3>1, Stacks
  <2>9. Stacked'
    BY <2>2, <2>6, <2>7, <2>8 DEF IInv, Stacked
  <2>10. Bounded'
    BY <2>1, <2>2, <2>3, <2>5, <1>f DEF IInv, Bounded, map, chrome, targets
  <2>11. Indexed' /\ Settled'
    BY <2>1, <2>4, <2>8 DEF Indexed, map, Settled, At, event
  <2>12. QED
    BY <2>9, <2>10, <2>11 DEF IInv
<1>3. CASE SwitchActivates
  <2> DEFINE e == FocusChanged(event.tab)
  <2>1. /\ stack # <<>> /\ event \in Good /\ event.tab \in 0 .. opened
        /\ Call(e, "end")
        /\ UNCHANGED <<chrome, targets, focus, recovery, bus, map, page_events>>
    BY <1>3, <1>e DEF SwitchActivates
  <2>2. e \in Fresh /\ e.name = "FocusChanged"
    BY <2>1, Dispatched DEF FocusChanged, Event
  <2>3. StackStep /\ agent' \in AgentStates
    BY <2>1, <2>2, Steps DEF Waits
  <2>4. Head(stack') = e /\ stack' # <<>>
    BY <2>1 DEF Call
  <2>5. Good' = Good /\ Fresh' = Fresh /\ Waiting' = Waiting
    BY <2>1 DEF Good, Fresh, Waiting, chrome, targets
  <2>6. Stacked'
    BY <2>1, <2>3, <2>5, StackStepKeeps DEF IInv, Stacked
  <2>7. Bounded'
    BY <2>1, <2>3 DEF IInv, Bounded, map, chrome, targets
  <2>8. Indexed' /\ Settled'
    BY <2>2, <2>4 DEF Indexed, Settled, Clearing, At
  <2>9. QED
    BY <2>6, <2>7, <2>8 DEF IInv
<1>7. CASE SwitchFailsLate
  <2>1. /\ stack # <<>> /\ event \in Good /\ event.tab \in 0 .. opened
        /\ At("Switch", "activate") /\ unannounced' = event.tab /\ Return(FALSE)
        /\ UNCHANGED <<chrome, targets, focus, recovery, bus, selector_map,
                      page_events>>
    BY <1>7, <1>e DEF SwitchFailsLate
  <2>2. Stacked' /\ Settled' /\ agent' \in AgentStates
    BY <2>1, <1>r DEF chrome, targets
  <2>3. Bounded'
    BY <2>1, <2>2, <1>f DEF IInv, Bounded, chrome, targets
  <2>4. focus = event.tab \/ focus \notin open \/ Pending
    BY <2>1 DEF IInv, Settled
  <2>5. Indexed'
    BY <2>1, <2>4 DEF Indexed, Pending, chrome
  <2>6. QED
    BY <2>2, <2>3, <2>5 DEF IInv
<1>4. CASE BuildEnds
  <2>1. /\ stack # <<>> /\ event.sess \in pool /\ At("State", "build")
        /\ selector_map' = Shown(event.sess) /\ unannounced' = NoTab /\ Return(TRUE)
        /\ UNCHANGED <<chrome, targets, focus, recovery, bus, page_events>>
    BY <1>4, <1>e DEF BuildEnds
  <2>2. Stacked' /\ Settled' /\ agent' \in AgentStates
    BY <2>1, <1>r DEF chrome, targets
  <2>3. /\ selector_map' \in Nodes /\ selector_map'.tab = event.sess
        /\ event.sess \in 1 .. opened
    <3>1. event.sess \in 1 .. opened /\ event.sess \in Tabs
      BY <2>1, <1>f
    <3>2. doc[event.sess] \in 0 .. MaxDocs
      BY <3>1 DEF IInv, Bounded, map
    <3>3. QED
      BY <2>1, <3>1, <3>2 DEF Shown, Nodes
  <2>4. Bounded'
    BY <2>1, <2>2, <2>3, <1>f DEF IInv, Bounded, map, chrome, targets
  <2>5. event.sess = focus \/ focus \notin open \/ Pending
    BY <2>1, <2>3, <1>f DEF IInv, Settled, NoTab
  <2>6. Indexed'
    BY <2>1, <2>3, <2>5 DEF Indexed, map, Pending, chrome
  <2>7. QED
    BY <2>2, <2>4, <2>6 DEF IInv
<1>5. CASE CloseCloses
  <2>1. /\ stack # <<>> /\ event.name = "Close" /\ open' \subseteq open /\ Return(TRUE)
        /\ UNCHANGED <<doc, kind, opened, pool, url, focus, recovery, bus, map,
                      page_events>>
    BY <1>5, <1>e DEF CloseCloses, targets
  <2>2. Stacked' /\ Settled' /\ agent' \in AgentStates
    BY <2>1, <1>r
  <2>3. Bounded'
    BY <2>1, <2>2 DEF IInv, Bounded, map
  <2>4. \/ selector_map.tab \in {NoTab, focus} \/ focus \notin open \/ Pending
        \/ unannounced = focus
    BY <2>1 DEF IInv, Indexed, map, Clearing, At, event
  <2>5. Indexed'
    BY <2>1, <2>4 DEF Indexed, map, Pending
  <2>6. QED
    BY <2>2, <2>3, <2>5 DEF IInv
<1>6. CASE NavigateLoads
  <2>1. /\ stack # <<>> /\ event \in Good /\ event.name = "Navigate"
        /\ event.tab \in 0 .. opened
        /\ UNCHANGED <<targets, focus, recovery, bus, map, page_events>>
    BY <1>6, <1>e DEF NavigateLoads
  <2>2. \/ Call(FocusChanged(event.tab), "end") \/ Call(FocusChanged(event.tab), "fail")
    BY <1>6 DEF NavigateLoads
  <2>3. /\ doc' \in [Tabs -> 0 .. MaxDocs] /\ kind' \in [Tabs -> {"blank", "web"}]
        /\ UNCHANGED <<open, opened>>
    <3>1. CASE UNCHANGED chrome
      BY <3>1 DEF IInv, Bounded, map, chrome
    <3>2. CASE /\ event.tab \in pool \intersect open
               /\ NewDocument(event.tab, IF event.agents THEN "web" ELSE "blank")
      <4>1. event.tab \in Tabs
        BY <3>2, <1>f
      <4>2. QED
        BY <3>2, <4>1, Documents
    <3>3. QED
      BY <1>6, <3>1, <3>2 DEF NavigateLoads
  <2>4. StackStep /\ agent' \in AgentStates
    BY <2>1, <2>2, Dispatched, Steps DEF Waits
  <2>5. Bounded'
    BY <2>1, <2>3, <2>4 DEF IInv, Bounded, map, targets
  <2>6. QED
    BY <2>1, <2>3, <2>4, <2>5, QuietStep DEF At, event, targets
<1>8. QED
  BY <1>1, <1>2, <1>3, <1>4, <1>5, <1>6, <1>7

\* A page that goes back shows another document, in the same tab.
LEMMA BackStep ==
  ASSUME IInv, GoesBack
  PROVE  IInv'
<1>1. /\ stack # <<>> /\ event \in Good /\ event.name = "Page" /\ Return(TRUE)
      /\ UNCHANGED <<targets, focus, recovery, bus, map, page_events>>
  BY Steps DEF GoesBack, At, event
<1>2. /\ doc' \in [Tabs -> 0 .. MaxDocs] /\ kind' \in [Tabs -> {"blank", "web"}]
      /\ UNCHANGED <<open, opened>>
  <2>1. PICK k \in {"blank", "web"} :
          event.sess \in pool \intersect open /\ NewDocument(event.sess, k)
    BY DEF GoesBack
  <2>2. event.sess \in Tabs
    <3>1. event.sess \in 1 .. opened /\ opened \in 1 .. MaxTabs /\ MaxTabs \in Nat
      BY <2>1, PageAssumption DEF IInv, Bounded, map, Tabs
    <3>2. QED
      BY <3>1 DEF Tabs
  <2>3. QED
    BY <2>1, <2>2, Documents
<1>3. StackStep /\ agent' \in AgentStates
  BY <1>1, Steps
<1>4. Bounded'
  BY <1>1, <1>2, <1>3 DEF IInv, Bounded, map, targets
<1>5. QED
  BY <1>1, <1>2, <1>3, <1>4, QuietStep DEF At, event, targets

\* The next event of the bus.
LEMMA RunNextStep ==
  ASSUME IInv, RunNext
  PROVE  IInv'
<1> DEFINE e == Head(bus)
<1>1. /\ stack = <<>> /\ bus # <<>> /\ stack' = <<e>> /\ bus' = Tail(bus)
      /\ UNCHANGED <<chrome, targets, focus, recovery, map, agent, page_events>>
      /\ bus \in Seq(Fresh)
  BY DEF RunNext, IInv, Stacked
<1>2. /\ e \in Fresh /\ Tail(bus) \in Seq(Fresh) /\ Head(stack') = e
      /\ \A i \in DOMAIN bus : bus[i] = e \/ \E j \in DOMAIN Tail(bus) : Tail(bus)[j] = bus[i]
  <2>1. e \in Fresh /\ Tail(bus) \in Seq(Fresh) /\ Head(stack') = e
    BY <1>1
  <2>2. ASSUME NEW i \in DOMAIN bus, i # 1
        PROVE  i - 1 \in DOMAIN Tail(bus) /\ Tail(bus)[i - 1] = bus[i]
    BY <1>1, <2>2
  <2>3. bus[1] = e
    BY <1>1
  <2>4. QED
    BY <2>1, <2>2, <2>3
<1> HIDE DEF e
<1>3. Good' = Good /\ Fresh' = Fresh /\ Waiting' = Waiting
  BY <1>1 DEF Good, Fresh, Waiting, chrome, targets
<1>4. Stacked'
  <2>1. e \in Good /\ stack' \in Seq(Good) /\ Tail(stack') \in Seq(Waiting)
    BY <1>1, <1>2 DEF Fresh
  <2>2. QED
    BY <1>1, <1>2, <1>3, <2>1 DEF Stacked
<1>5. Bounded'
  BY <1>1 DEF IInv, Bounded, map, chrome, targets
<1>6. Pending => Pending' \/ e.name = "FocusChanged"
  BY <1>1, <1>2 DEF Pending
<1>7. Indexed'
  <2>1. \/ selector_map.tab \in {NoTab, focus} \/ focus \notin open \/ Pending
        \/ unannounced = focus
    BY <1>1 DEF IInv, Indexed, map, Clearing, At
  <2>2. stack' # <<>>
    BY <1>1
  <2>3. QED
    BY <1>1, <1>2, <1>6, <2>1, <2>2 DEF Indexed, map, Clearing, chrome
<1>8. Settled'
  BY <1>2 DEF Settled, At, Fresh
<1>9. QED
  BY <1>4, <1>5, <1>7, <1>8 DEF IInv

\* A navigation that opens a tab switches to it.
LEMMA CreatesStep ==
  ASSUME IInv, NavigateCreates
  PROVE  IInv'
<1>1. /\ stack # <<>> /\ event \in Good /\ event.name = "Navigate"
      /\ event.at = "create"
      /\ UNCHANGED <<focus, recovery, bus, map, page_events>>
  BY Steps DEF NavigateCreates, At, event, IInv, Stacked
<1>2. CASE SwitchThenGo(event.tab) /\ UNCHANGED <<chrome, targets>>
  <2>1. event.tab \in 0 .. opened
    BY <1>1, PageAssumption DEF Good, Events, IInv, Bounded, map, Tabs, NoTab
  <2>2. StackStep /\ agent' \in AgentStates
    BY <1>1, <1>2, <2>1, SwitchGoes
  <2>3. QED
    BY <1>1, <1>2, <2>2, Quiet DEF At, event
<1>3. CASE OpenTab /\ SwitchThenGo(opened + 1)
  <2> DEFINE t == opened + 1
  <2> DEFINE e == SwitchTab(t)
  <2> DEFINE f == [event EXCEPT !.tab = t, !.at = "go"]
  <2>f. /\ focus \in 0 .. opened /\ opened \in Nat /\ opened' = t /\ t \in Tabs
        /\ t # focus /\ UNCHANGED url
    BY <1>3, TabOpened DEF IInv, Bounded, map
  <2>1. stack' = <<e, f>> \o Tail(stack) /\ agent' = agent
    BY <1>3, <2>f DEF SwitchThenGo
  <2>2. Good \subseteq Good'
    <3> SUFFICES ASSUME NEW g \in Good PROVE g \in Good'
      OBVIOUS
    <3>1. /\ g.node.tab \in 0 .. opened /\ g.tab \in 0 .. opened
          /\ g.sess \in 0 .. opened /\ g \in Events
      BY <2>f DEF Good, Events, Nodes, NoNode, Tabs, NoTab
    <3>2. g.tab <= opened' /\ g.node.tab <= opened' /\ g.sess <= opened'
      BY <2>f, <3>1
    <3>4. QED
      BY <3>1, <3>2 DEF Good
  <2>3. Fresh \subseteq Fresh' /\ Waiting \subseteq Waiting' /\ Waiting' \in SUBSET Good'
    BY <2>2 DEF Fresh, Waiting
  <2>4. e \in Good' /\ e.at = "start" /\ e.name = "Switch"
    <3>1. /\ e \in Events /\ e.tab = t /\ e.node = NoNode /\ e.sess = NoTab
          /\ e.at = "start" /\ e.name = "Switch"
      BY <2>f DEF SwitchTab, Event, Events, Names, Places
    <3>2. NoNode.tab <= opened' /\ NoTab <= opened' /\ t <= opened'
      BY <2>f DEF NoNode, NoTab
    <3> HIDE DEF e
    <3>3. QED
      BY <3>1, <3>2 DEF Good
  <2>5. f \in Waiting'
    <3>1. "go" \in Places /\ "go" \in Waits
      BY DEF Places, Waits
    <3>2. /\ f \in Events /\ f.tab = t /\ f.at = "go" /\ f.sess = event.sess
          /\ f.node = event.node /\ f.name = "Navigate"
      BY <1>1, <2>f, <3>1 DEF Good, Events
    <3>3. /\ event.node.tab <= opened' /\ event.sess <= opened' /\ t <= opened'
      BY <1>1, <2>f, <2>2 DEF Good
    <3> HIDE DEF f
    <3>4. QED
      BY <3>1, <3>2, <3>3 DEF Waiting, Good
  <2> HIDE DEF e, f
  <2>6. /\ stack' \in Seq(Good') /\ stack' # <<>> /\ Head(stack') = e
        /\ Tail(stack') \in Seq(Waiting')
    <3>1. stack \in Seq(Good') /\ Tail(stack) \in Seq(Waiting')
      BY <1>1, <2>2, <2>3 DEF IInv, Stacked
    <3>2. QED
      BY <1>1, <2>1, <2>3, <2>4, <2>5, <3>1, Stacks
  <2>7. Stacked'
    BY <1>1, <2>3, <2>4, <2>6 DEF IInv, Stacked
  <2>8. Bounded'
    <3>1. /\ focus \in 0 .. opened'
          /\ recovery \in [at : {"none", "choose", "wait", "announce"}, tab : 0 .. opened']
      BY <1>3, TabOpened DEF IInv, Bounded, map
    <3>2. selector_map.tab <= opened'
      BY <1>3, TabOpened DEF IInv, Bounded, map, Nodes, NoNode, NoTab, Tabs
    <3>3. QED
      BY <1>1, <1>3, <2>1, <3>1, <3>2, TabOpened DEF IInv, Bounded, map
  <2>9. Indexed'
    <3>1. \/ selector_map.tab \in {NoTab, focus} \/ focus \notin open \/ Pending
          \/ unannounced = focus
      BY <1>1 DEF IInv, Indexed, map, Clearing, At, event
    <3>2. focus \notin open => focus \notin open'
      BY <1>3, <2>f, TabOpened
    <3>3. QED
      BY <1>1, <3>1, <3>2 DEF Indexed, map, Pending
  <2>10. Settled'
    BY <2>4, <2>6 DEF Settled, At
  <2>11. QED
    BY <2>7, <2>8, <2>9, <2>10 DEF IInv
<1>4. QED
  BY <1>2, <1>3 DEF NavigateCreates

LEMMA InitInv == Init => IInv
<1> SUFFICES ASSUME Init PROVE IInv
  OBVIOUS
<1>1. /\ open = {1, 2} /\ pool = {1, 2} /\ opened = 2 /\ focus = 1 /\ opened \in Tabs
      /\ {1, 2} \subseteq Tabs /\ {1, 2} \subseteq 1 .. 2
  BY PageAssumption DEF Init, Tabs
<1>2. Bounded
  <2>1. doc \in [Tabs -> 0 .. MaxDocs] /\ kind \in [Tabs -> {"blank", "web"}] /\ url = kind
    BY PageAssumption DEF Init
  <2>2. recovery \in [at : {"none", "choose", "wait", "announce"}, tab : 0 .. opened]
    BY <1>1 DEF Init, NoRecovery, NoTab
  <2>3. selector_map \in Nodes \union {NoNode} /\ selector_map.tab <= opened
    BY <1>1 DEF Init, NoNode, NoTab
  <2>4. agent \in AgentStates /\ page_events \in 0 .. MaxPageEvents
    BY PageAssumption DEF Init, AgentStates
  <2>5. unannounced \in Tabs \union {NoTab}
    BY DEF Init
  <2>6. QED
    BY <1>1, <2>1, <2>2, <2>3, <2>4, <2>5 DEF Bounded, map
<1>3. Stacked
  BY DEF Init, Stacked
<1>4. Indexed /\ Settled
  BY DEF Init, Indexed, map, Settled, At, NoNode, NoTab
<1>5. QED
  BY <1>2, <1>3, <1>4 DEF IInv

LEMMA Preserved == IInv /\ [Next]_vars => IInv'
<1> SUFFICES ASSUME IInv, [Next]_vars PROVE IInv'
  OBVIOUS
<1>1. CASE Pages
  BY <1>1, PagesStep
<1>2. CASE Manager
  BY <1>2, ManagerStep
<1>3. CASE Agent
  BY <1>3, AgentStep
<1>4. CASE Handlers
  BY <1>4, RunNextStep, CreatesStep, FocusStep, QuietTabs, QuietElements, QuietPage,
     BackStep DEF Handlers
<1>5. CASE UNCHANGED vars
  <2>1. /\ Good' = Good /\ Fresh' = Fresh /\ Waiting' = Waiting /\ Pending' = Pending
    BY <1>5 DEF Good, Fresh, Waiting, Pending, vars, chrome, targets
  <2>2. QED
    BY <1>5, <2>1 DEF IInv, Bounded, Stacked, Indexed, map, Settled, Clearing, At, event,
                      vars, chrome, targets
<1>6. QED
  BY <1>1, <1>2, <1>3, <1>4, <1>5 DEF Next

LEMMA OwedFollows ==
  ASSUME IInv, Pending \/ Clearing \/ At("Switch", "activate")
  PROVE  FocusChangeOwed
<1>1. recovery.at = "announce" => recovery # NoRecovery
  BY DEF NoRecovery
<1>2. stack # <<>> => 1 \in DOMAIN stack /\ stack[1] = Head(stack)
  BY DEF IInv, Stacked
<1>3. QED
  BY <1>1, <1>2 DEF FocusChangeOwed, Pending, Clearing, At

----------------------------------------------------------------------------
\* The inductive invariant of tabs, focus, map and handlers.
THEOREM Invariance == Spec => []IInv
<1>1. Init => IInv
  BY InitInv
<1>2. IInv /\ [Next]_vars => IInv'
  BY Preserved
<1>3. QED
  BY <1>1, <1>2, PTL DEF Spec

\* Every variable keeps its type: a step never takes more actions than allowed
\* (Agent.multi_act), for any number of tabs and documents.
THEOREM TypeCorrect == Spec => []TypeOK
  BY Invariance, Types, PTL

\* For any number of tabs that open, close, navigate and are recovered: an index
\* of the cached selector map never names an element of another tab than the
\* focused one, but for the time a change of focus is under way and for a switch
\* that failed after it had moved the focus (on_AgentFocusChangedEvent).
THEOREM IndexesOfFocused == Spec => []IndexesOfFocusedTab
<1>1. IInv => IndexesOfFocusedTab
  <2> SUFFICES ASSUME IInv PROVE IndexesOfFocusedTab
    OBVIOUS
  <2>1. \/ selector_map.tab \in {NoTab, focus} \/ focus \notin open
        \/ Pending \/ Clearing \/ At("Switch", "activate") \/ unannounced = focus
    BY DEF IInv, Indexed, map
  <2>2. QED
    BY <2>1, OwedFollows DEF IndexesOfFocusedTab
<1>2. QED
  BY <1>1, Invariance, PTL

\* A navigation loads its page in the focused tab, whichever switches failed and
\* whatever was recovered before (BrowserSession.on_NavigateToUrlEvent).
THEOREM NavigatesFocused == Spec => []NavigatesFocusedTab
<1>1. IInv => NavigatesFocusedTab
  <2> SUFFICES ASSUME IInv, At("Navigate", "loaded")
               PROVE  focus = event.tab \/ event.tab \notin open \/ FocusChangeOwed
    BY DEF NavigatesFocusedTab
  <2>1. focus = event.tab \/ event.tab \notin open \/ Pending
    BY DEF IInv, Settled
  <2>2. QED
    BY <2>1, OwedFollows
<1>2. QED
  BY <1>1, Invariance, PTL
=============================================================================
