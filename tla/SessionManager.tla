---------------------------- MODULE SessionManager ----------------------------
(***************************************************************************)
(* browser_use.browser.session_manager.SessionManager: the pool of CDP     *)
(* targets and sessions it keeps from the attach and detach events of the  *)
(* browser, and the agent's focus with its automatic recovery, from        *)
(* start_monitoring() until the session is reset.                          *)
(*                                                                         *)
(* Chrome sends its events over one socket, in order.  Each is handled by  *)
(* a task of its own: up to its first await a handler runs as soon as the  *)
(* event is delivered, and between two awaits it is atomic.  Every section *)
(* under _lock is free of awaits, so _lock never makes a task wait.        *)
(*                                                                         *)
(* target_sessions[t] = {} stands for a target that is not a key of        *)
(* _target_sessions.  Titles and URLs, which targetInfoChanged keeps up to *)
(* date, are left out.                                                     *)
(***************************************************************************)
EXTENDS Naturals, Sequences

CONSTANTS
  Targets,     \* target ids the browser may use
  Pages,       \* those of them that are of type page
  Sessions,    \* session ids the browser may use
  Recoveries,  \* bound: recovery tasks that may exist at the same time
  NoTarget     \* None

ASSUME PoolAssumption ==
  /\ Pages \subseteq Targets /\ NoTarget \notin Targets
  /\ Recoveries \subseteq Nat

VARIABLES
  opened, closed,         \* browser: targets created, targets destroyed
  live, home,             \* browser: attached sessions, the target of a session
  wire,                   \* events sent by the browser and not yet delivered
  handler,                \* where _handle_target_attached is for each session
  targets,                \* the keys of _targets, in the order of the dict
  sessions,               \* the keys of _sessions
  target_sessions, session_to_target,
  focus,                  \* BrowserSession.agent_focus_target_id
  recovery_in_progress,
  recovery                \* the _recover_agent_focus tasks

browser == <<opened, closed, live, home>>
pool == <<targets, sessions, target_sessions, session_to_target>>
vars == <<browser, wire, handler, pool, focus, recovery_in_progress, recovery>>

OptTargets == Targets \cup {NoTarget}
OptPages == Pages \cup {NoTarget}
Events == [kind : {"attached", "detached"}, session : Sessions]

NoTask == [at |-> "none", crashed |-> NoTarget, new |-> NoTarget,
           existing |-> FALSE]
Tasks == [at : {"none", "created", "waiting", "creating", "polling",
                "activating", "creating_fallback", "polling_fallback"},
          crashed : OptPages, new : OptPages, existing : BOOLEAN]

Open == opened \ closed

Init ==
  /\ opened = {} /\ closed = {} /\ live = {} /\ wire = << >>
  /\ home = [s \in Sessions |-> NoTarget]
  /\ handler = [s \in Sessions |-> "none"]
  /\ targets = << >> /\ sessions = {}
  /\ target_sessions = [t \in Targets |-> {}]
  /\ session_to_target = [s \in Sessions |-> NoTarget]
  /\ focus = NoTarget
  /\ recovery_in_progress = FALSE
  /\ recovery = [r \in Recoveries |-> NoTask]

-----------------------------------------------------------------------------
\* The browser: the user, a page or a command of ours opens and closes targets.
OpenTarget(t) ==
  /\ t \notin opened
  /\ opened' = opened \cup {t}
  /\ UNCHANGED <<closed, live, home, wire, handler, pool, focus,
                 recovery_in_progress, recovery>>

\* Auto-attach and Target.attachToTarget each attach a session.
AttachSession(s, t) ==
  /\ home[s] = NoTarget /\ t \in Open
  /\ live' = live \cup {s} /\ home' = [home EXCEPT ![s] = t]
  /\ wire' = Append(wire, [kind |-> "attached", session |-> s])
  /\ UNCHANGED <<opened, closed, handler, pool, focus, recovery_in_progress,
                 recovery>>

CloseTarget(t) ==
  /\ t \in Open
  /\ closed' = closed \cup {t}
  /\ UNCHANGED <<opened, live, home, wire, handler, pool, focus,
                 recovery_in_progress, recovery>>

\* The sessions of a destroyed target detach one by one.
DetachSession(s) ==
  /\ s \in live /\ home[s] \in closed
  /\ live' = live \ {s}
  /\ wire' = Append(wire, [kind |-> "detached", session |-> s])
  /\ UNCHANGED <<opened, closed, home, handler, pool, focus,
                 recovery_in_progress, recovery>>

-----------------------------------------------------------------------------
\* _handle_target_attached up to setAutoAttach, which it awaits.
AttachDelivered ==
  /\ wire # << >> /\ Head(wire).kind = "attached"
  /\ handler' = [handler EXCEPT ![Head(wire).session] = "auto_attach"]
  /\ wire' = Tail(wire)
  /\ UNCHANGED <<browser, pool, focus, recovery_in_progress, recovery>>

\* Mutant: a target that is in the pool already keeps its one session.
BugSecondSessionIgnored(s) ==
  LET t == home[s] IN
  /\ handler[s] = "auto_attach"
  /\ handler' = [handler EXCEPT ![s] = "done"]
  /\ IF target_sessions[t] # {}
     THEN UNCHANGED pool
     ELSE /\ target_sessions' = [target_sessions EXCEPT ![t] = {s}]
          /\ session_to_target' = [session_to_target EXCEPT ![s] = t]
          /\ sessions' = sessions \cup {s}
          /\ targets' = Append(targets, t)
  /\ UNCHANGED <<browser, wire, focus, recovery_in_progress, recovery>>

\* Mutant: the reverse mapping is not filled in.
BugNotMapped(s) ==
  LET t == home[s] IN
  /\ handler[s] = "auto_attach"
  /\ target_sessions' = [target_sessions EXCEPT ![t] = @ \cup {s}]
  /\ sessions' = sessions \cup {s}
  /\ targets' = IF target_sessions[t] = {} THEN Append(targets, t) ELSE targets
  /\ handler' = [handler EXCEPT ![s] = IF t \in Pages THEN "monitoring"
                                                      ELSE "done"]
  /\ UNCHANGED <<browser, wire, session_to_target, focus,
                 recovery_in_progress, recovery>>

\* setAutoAttach has answered, with an error or not: the session is added to
\* the pool and a page has its monitoring enabled.
AttachResumes(s) ==
  LET t == home[s] IN
  /\ handler[s] = "auto_attach"
  /\ target_sessions' = [target_sessions EXCEPT ![t] = @ \cup {s}]
  /\ session_to_target' = [session_to_target EXCEPT ![s] = t]
  /\ sessions' = sessions \cup {s}
  /\ targets' = IF target_sessions[t] = {} THEN Append(targets, t) ELSE targets
  /\ handler' = [handler EXCEPT ![s] = IF t \in Pages THEN "monitoring"
                                                      ELSE "done"]
  /\ UNCHANGED <<browser, wire, focus, recovery_in_progress, recovery>>

MonitoringEnabled(s) ==
  /\ handler[s] = "monitoring"
  /\ handler' = [handler EXCEPT ![s] = "done"]
  /\ UNCHANGED <<browser, wire, pool, focus, recovery_in_progress, recovery>>

\* The focus moves off target t, which has no session any more, and a recovery
\* is started unless one is in progress.  rec: the tasks otherwise.
lose_focus(t, rec) ==
  IF focus # t
  THEN focus' = focus /\ recovery' = rec
  ELSE /\ focus' = NoTarget
       /\ IF recovery_in_progress
          THEN recovery' = rec
          ELSE \E r \in Recoveries :
                 /\ rec[r] = NoTask
                 /\ \A q \in Recoveries : rec[q] = NoTask => r <= q
                 /\ recovery' = [rec EXCEPT ![r] =
                      [NoTask EXCEPT !.at = "created", !.crashed = t]]

\* The dict without its key t.
without(seq, t) ==
  LET i == CHOOSE i \in DOMAIN seq : seq[i] = t
  IN  [k \in 1 .. Len(seq) - 1 |-> IF k < i THEN seq[k] ELSE seq[k + 1]]

\* Mutant: the focus is left where it is.
BugFocusKept(s, t) ==
  /\ target_sessions' = [target_sessions EXCEPT ![t] = @ \ {s}]
  /\ targets' = IF target_sessions[t] = {s} THEN without(targets, t)
                                            ELSE targets
  /\ sessions' = sessions \ {s}
  /\ session_to_target' = [session_to_target EXCEPT ![s] = NoTarget]
  /\ UNCHANGED <<focus, recovery>>

\* Session s of target t leaves the pool, the target with its last session.
\* Nothing changes for a session the pool does not know.
detach(s, t) ==
  LET left == target_sessions[t] \ {s}
      removed == target_sessions[t] # {} /\ left = {}
  IN  /\ target_sessions' = [target_sessions EXCEPT ![t] = left]
      /\ targets' = IF removed THEN without(targets, t) ELSE targets
      /\ sessions' = sessions \ {s}
      /\ session_to_target' = [session_to_target EXCEPT ![s] = NoTarget]
      /\ IF removed THEN lose_focus(t, recovery)
                    ELSE UNCHANGED <<focus, recovery>>

DetachDelivered ==
  /\ wire # << >> /\ Head(wire).kind = "detached"
  /\ detach(Head(wire).session, home[Head(wire).session])
  /\ wire' = Tail(wire)
  /\ UNCHANGED <<browser, handler, recovery_in_progress>>

\* get_or_create_cdp_session(t, focus=True) of some task finds a session,
\* perhaps after it has polled for it.
FocusSwitched(t) ==
  /\ target_sessions[t] # {} /\ t \in Pages
  /\ focus' = t
  /\ UNCHANGED <<browser, wire, handler, pool, recovery_in_progress, recovery>>

-----------------------------------------------------------------------------
\* Mutant: a recovery forgets to reset the state when there is nothing to do.
BugStateNotReset(r) ==
  /\ recovery' = [recovery EXCEPT ![r] = NoTask]
  /\ UNCHANGED recovery_in_progress

\* _recover_agent_focus.  Its finally block, the end of every path:
recovery_ends(r) ==
  /\ recovery' = [recovery EXCEPT ![r] = NoTask]
  /\ recovery_in_progress' = FALSE

\* Only a task that waits for another one suspends while it has _recovery_lock.
LockFree == \A r \in Recoveries : recovery[r].at # "waiting"

RecoveryWaits(r) ==
  /\ recovery[r].at = "created" /\ LockFree /\ recovery_in_progress
  /\ recovery' = [recovery EXCEPT ![r].at = "waiting"]
  /\ UNCHANGED <<browser, wire, handler, pool, focus, recovery_in_progress>>

\* The other recovery has ended, or 5 seconds have passed.
RecoveryWaited(r) ==
  /\ recovery[r].at = "waiting"
  /\ recovery_ends(r)
  /\ UNCHANGED <<browser, wire, handler, pool, focus>>

NothingToRecover(r) ==
  /\ recovery[r].at = "created" /\ LockFree /\ ~recovery_in_progress
  /\ focus \notin {NoTarget, recovery[r].crashed}
  /\ recovery_ends(r)
  /\ UNCHANGED <<browser, wire, handler, pool, focus>>

\* Mutant: iframes are taken for pages.
BugAnyTarget == DOMAIN targets

\* get_all_page_targets(): the positions of the pages in targets.
page_targets == {i \in DOMAIN targets : targets[i] \in Pages}

RecoveryStarts(r) ==
  /\ recovery[r].at = "created" /\ LockFree /\ ~recovery_in_progress
  /\ focus \in {NoTarget, recovery[r].crashed}
  /\ recovery_in_progress' = TRUE
  /\ \/ /\ page_targets = {}
        /\ recovery' = [recovery EXCEPT ![r].at = "creating"]
     \/ \E i \in page_targets :
          /\ \A j \in page_targets : j <= i
          /\ recovery' = [recovery EXCEPT ![r].at = "polling",
                                          ![r].existing = TRUE,
                                          ![r].new = targets[i]]
  /\ UNCHANGED <<browser, wire, handler, pool, focus>>

\* Target.createTarget returns the new page, or fails.
CreatePage(r) ==
  /\ recovery[r].at \in {"creating", "creating_fallback"}
  /\ \E t \in Pages \ opened :
       /\ opened' = opened \cup {t}
       /\ recovery' = [recovery EXCEPT
            ![r].at = IF @ = "creating" THEN "polling" ELSE "polling_fallback",
            ![r].new = t]
  /\ UNCHANGED <<closed, live, home, wire, handler, pool, focus,
                 recovery_in_progress>>

CreateFails(r) ==
  /\ recovery[r].at \in {"creating", "creating_fallback"}
  /\ recovery_ends(r)
  /\ UNCHANGED <<browser, wire, handler, pool, focus>>

\* One of the 20 polls finds a session; an existing tab is activated, which is
\* awaited, any other one is the end of the recovery.
PollFinds(r) ==
  /\ recovery[r].at \in {"polling", "polling_fallback"}
  /\ target_sessions[recovery[r].new] # {}
  /\ focus' = recovery[r].new
  /\ IF recovery[r].at = "polling" /\ recovery[r].existing
     THEN /\ recovery' = [recovery EXCEPT ![r].at = "activating"]
          /\ UNCHANGED recovery_in_progress
     ELSE recovery_ends(r)
  /\ UNCHANGED <<browser, wire, handler, pool>>

\* 2 seconds have passed without a session.
PollGivesUp(r) ==
  /\ recovery[r].at = "polling"
  /\ target_sessions[recovery[r].new] = {}
  /\ lose_focus(recovery[r].new,
       [recovery EXCEPT ![r].at = "creating_fallback"])
  /\ UNCHANGED <<browser, wire, handler, pool, recovery_in_progress>>

FallbackGivesUp(r) ==
  /\ recovery[r].at = "polling_fallback"
  /\ target_sessions[recovery[r].new] = {}
  /\ recovery_in_progress' = FALSE
  /\ lose_focus(recovery[r].new, [recovery EXCEPT ![r] = NoTask])
  /\ UNCHANGED <<browser, wire, handler, pool>>

Activated(r) ==
  /\ recovery[r].at = "activating"
  /\ recovery_ends(r)
  /\ UNCHANGED <<browser, wire, handler, pool, focus>>

-----------------------------------------------------------------------------
Browser == \/ \E t \in Targets : OpenTarget(t) \/ CloseTarget(t)
           \/ \E s \in Sessions, t \in Targets : AttachSession(s, t)
           \/ \E s \in Sessions : DetachSession(s)

Deliver == AttachDelivered \/ DetachDelivered

Attaching(s) == AttachResumes(s) \/ MonitoringEnabled(s)

Recovering(r) ==
  \/ RecoveryWaits(r) \/ RecoveryWaited(r) \/ NothingToRecover(r)
  \/ RecoveryStarts(r) \/ CreatePage(r) \/ CreateFails(r)
  \/ PollFinds(r) \/ PollGivesUp(r) \/ FallbackGivesUp(r) \/ Activated(r)

Next == \/ Browser \/ Deliver
        \/ \E s \in Sessions : Attaching(s)
        \/ \E r \in Recoveries : Recovering(r)
        \/ \E t \in Targets : FocusSwitched(t)

Spec == Init /\ [][Next]_vars

\* The event loop runs every task that is ready, CDP commands are answered, and
\* the sessions of a destroyed target detach.  Nobody has to open or close a
\* target or to switch the focus.
FairSpec ==
  /\ Spec /\ WF_vars(Deliver)
  /\ \A s \in Sessions : WF_vars(Attaching(s)) /\ WF_vars(DetachSession(s))
  /\ \A r \in Recoveries : WF_vars(Recovering(r))

-----------------------------------------------------------------------------
\* Every variable stays in its type.
TypeOK ==
  /\ opened \subseteq Targets /\ closed \subseteq opened
  /\ live \subseteq Sessions /\ home \in [Sessions -> OptTargets]
  /\ \A s \in live : home[s] # NoTarget
  /\ wire \in Seq(Events)
  /\ handler \in [Sessions -> {"none", "auto_attach", "monitoring", "done"}]
  /\ targets \in Seq(Targets) /\ sessions \subseteq Sessions
  /\ target_sessions \in [Targets -> SUBSET Sessions]
  /\ session_to_target \in [Sessions -> OptTargets]
  /\ focus \in OptPages /\ recovery_in_progress \in BOOLEAN
  /\ recovery \in [Recoveries -> Tasks]

\* The four maps of the pool agree after every handler, in whatever order
\* attach and detach events of several sessions of a target interleave: a
\* target is in the pool exactly while one of its sessions is.
PoolConsistent ==
  /\ \A s \in Sessions, t \in Targets :
       s \in target_sessions[t] <=> session_to_target[s] = t
  /\ sessions = {s \in Sessions : session_to_target[s] # NoTarget}
  /\ \A t \in Targets : (\E i \in DOMAIN targets : targets[i] = t)
                          <=> target_sessions[t] # {}
  /\ \A i, j \in DOMAIN targets : targets[i] = targets[j] => i = j

\* The focus is a page of the pool: no interleaving of a detach with a recovery
\* or a tab switch leaves it on a target that is gone from the pool, so the
\* clean-up of a stale focus in _get_session_for_target is never needed.
FocusInPool == focus # NoTarget => target_sessions[focus] # {}

\* A recovery always ends, and lets those that wait for it go on.
RecoveryEnds == recovery_in_progress ~> ~recovery_in_progress

\* A session that is attached gets into the pool.
AttachedSessionsRegistered ==
  \A s \in Sessions : s \in live ~> s \in sessions \/ s \notin live

-----------------------------------------------------------------------------
(* What a docstring says and the code does not do.                         *)

\* session_manager.py: the focus is recovered automatically when its target
\* detaches: some recovery that has yet to set the focus exists then.
LossIsRecovered ==
  [][focus # NoTarget /\ focus' = NoTarget =>
       \E r \in Recoveries : recovery'[r].at \notin {"none", "activating"}]_vars
=============================================================================
