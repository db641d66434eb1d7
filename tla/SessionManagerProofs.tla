------------------------- MODULE SessionManagerProofs -------------------------
(***************************************************************************)
(* Invariants of the session pool and the agent's focus, proved for any    *)
(* number of targets, sessions and recovery tasks.                         *)
(***************************************************************************)
EXTENDS SessionManager, TLAPS

\* Whatever a handler knows of a session came from an event that named the
\* session's one target.
Known ==
  /\ \A s \in Sessions : session_to_target[s] \in {NoTarget, home[s]}
  /\ \A s \in Sessions : handler[s] # "none" => home[s] # NoTarget
  /\ \A i \in DOMAIN wire : home[wire[i].session] # NoTarget

IInv == TypeOK /\ PoolConsistent /\ FocusInPool /\ Known

-----------------------------------------------------------------------------
\* What Append and Tail do, in the form the wire and the dict are reasoned
\* about.
LEMMA AppendFacts ==
  ASSUME NEW S, NEW q \in Seq(S), NEW e \in S
  PROVE  /\ Append(q, e) \in Seq(S)
         /\ DOMAIN Append(q, e) = 1 .. Len(q) + 1 /\ DOMAIN q = 1 .. Len(q)
         /\ \A i \in DOMAIN q : Append(q, e)[i] = q[i]
         /\ Append(q, e)[Len(q) + 1] = e
OBVIOUS

LEMMA TailFacts ==
  ASSUME NEW S, NEW q \in Seq(S), q # << >>
  PROVE  /\ Head(q) \in S /\ Tail(q) \in Seq(S) /\ Head(q) = q[1]
         /\ 1 \in DOMAIN q
         /\ \A i \in DOMAIN Tail(q) : i + 1 \in DOMAIN q /\ Tail(q)[i] = q[i + 1]
         /\ \A i \in DOMAIN q : i # 1 => i - 1 \in DOMAIN Tail(q)
                                         /\ Tail(q)[i - 1] = q[i]
OBVIOUS

\* A dict without one of its keys has its other keys, once each.
LEMMA WithoutFacts ==
  ASSUME NEW S, NEW q \in Seq(S), NEW t, \E i \in DOMAIN q : q[i] = t,
         \A i, j \in DOMAIN q : q[i] = q[j] => i = j
  PROVE  /\ without(q, t) \in Seq(S)
         /\ \A x : (\E i \in DOMAIN without(q, t) : without(q, t)[i] = x)
                     <=> x # t /\ \E i \in DOMAIN q : q[i] = x
         /\ \A i, j \in DOMAIN without(q, t) :
              without(q, t)[i] = without(q, t)[j] => i = j
<1> DEFINE i == CHOOSE k \in DOMAIN q : q[k] = t
           w == [k \in 1 .. Len(q) - 1 |-> IF k < i THEN q[k] ELSE q[k + 1]]
<1>1. i \in 1 .. Len(q) /\ q[i] = t /\ Len(q) \in Nat /\ DOMAIN q = 1 .. Len(q)
  OBVIOUS
<1>2. without(q, t) = w
  BY DEF without
<1> HIDE DEF i
<1>3. w \in Seq(S) /\ DOMAIN w = 1 .. Len(q) - 1
  BY <1>1
<1>4. ASSUME NEW x, NEW k \in DOMAIN w, w[k] = x
      PROVE  x # t /\ \E j \in DOMAIN q : q[j] = x
  <2>1. CASE k < i
    BY <1>1, <1>3, <1>4, <2>1
  <2>2. CASE ~(k < i)
    BY <1>1, <1>3, <1>4, <2>2
  <2> QED
    BY <2>1, <2>2
<1>5. ASSUME NEW x, x # t, NEW j \in DOMAIN q, q[j] = x
      PROVE  \E k \in DOMAIN w : w[k] = x
  <2>1. CASE j < i
    <3>1. j \in DOMAIN w /\ w[j] = x
      BY <1>1, <1>3, <1>5, <2>1
    <3> QED
      BY <3>1
  <2>2. CASE j > i
    <3>1. j - 1 \in DOMAIN w /\ w[j - 1] = x
      BY <1>1, <1>3, <1>5, <2>2
    <3> QED
      BY <3>1
  <2>3. j # i
    BY <1>1, <1>5
  <2> QED
    BY <1>1, <2>1, <2>2, <2>3
<1>6. ASSUME NEW k \in DOMAIN w, NEW j \in DOMAIN w, w[k] = w[j]
      PROVE  k = j
  <2>1. CASE k < i /\ j < i
    BY <1>1, <1>3, <1>6, <2>1
  <2>2. CASE k < i /\ ~(j < i)
    BY <1>1, <1>3, <1>6, <2>2
  <2>3. CASE ~(k < i) /\ j < i
    BY <1>1, <1>3, <1>6, <2>3
  <2>4. CASE ~(k < i) /\ ~(j < i)
    BY <1>1, <1>3, <1>6, <2>4
  <2> QED
    BY <2>1, <2>2, <2>3, <2>4
<1> HIDE DEF w
<1>7. \A x : (\E k \in DOMAIN w : w[k] = x)
                <=> x # t /\ \E j \in DOMAIN q : q[j] = x
  BY <1>4, <1>5
<1>8. \A k, j \in DOMAIN w : w[k] = w[j] => k = j
  BY <1>6
<1> QED
  BY <1>2, <1>3, <1>7, <1>8

LEMMA NoTaskType == NoTask \in Tasks
BY DEF NoTask, Tasks, OptPages

LEMMA InitInv == Init => IInv
<1> SUFFICES ASSUME Init PROVE IInv
  OBVIOUS
<1>1. \A S : << >> \in Seq(S)
  OBVIOUS
<1>2. TypeOK
  BY <1>1, NoTaskType DEF Init, TypeOK, OptTargets, OptPages
<1>3. PoolConsistent
  <2>1. \A s \in Sessions, t \in Targets :
          s \in target_sessions[t] <=> session_to_target[s] = t
    BY PoolAssumption DEF Init
  <2>2. sessions = {s \in Sessions : session_to_target[s] # NoTarget}
    BY DEF Init
  <2> QED
    BY <2>1, <2>2 DEF Init, PoolConsistent
<1>4. FocusInPool /\ Known
  BY DEF Init, FocusInPool, Known
<1> QED
  BY <1>2, <1>3, <1>4 DEF IInv

-----------------------------------------------------------------------------
\* The handlers of the pool.
LEMMA LoseFocus ==
  ASSUME NEW t, NEW rec \in [Recoveries -> Tasks], focus \in OptPages,
         lose_focus(t, rec)
  PROVE  /\ focus' = IF focus = t THEN NoTarget ELSE focus
         /\ recovery' \in [Recoveries -> Tasks]
<1>1. CASE focus # t
  BY <1>1 DEF lose_focus
<1>2. CASE focus = t
  <2>1. focus' = NoTarget
    BY <1>2 DEF lose_focus
  <2>2. CASE recovery' = rec
    BY <1>2, <2>1, <2>2
  <2>3. CASE recovery' # rec
    <3>1. PICK r \in Recoveries : recovery' = [rec EXCEPT ![r] =
                      [NoTask EXCEPT !.at = "created", !.crashed = t]]
      BY <1>2, <2>3 DEF lose_focus
    <3>2. [NoTask EXCEPT !.at = "created", !.crashed = t] \in Tasks
      BY <1>2, NoTaskType DEF Tasks
    <3> QED
      BY <1>2, <2>1, <3>1, <3>2
  <2> QED
    BY <2>2, <2>3
<1> QED
  BY <1>1, <1>2

LEMMA DetachPool ==
  ASSUME TypeOK, PoolConsistent, NEW s \in Sessions, NEW t \in Targets,
         session_to_target[s] \in {NoTarget, t}, detach(s, t)
  PROVE  /\ target_sessions' \in [Targets -> SUBSET Sessions]
         /\ session_to_target' \in [Sessions -> OptTargets]
         /\ targets' \in Seq(Targets) /\ sessions' \subseteq Sessions
         /\ PoolConsistent'
<1> DEFINE left == target_sessions[t] \ {s}
           removed == target_sessions[t] # {} /\ left = {}
<1>1. /\ target_sessions' = [target_sessions EXCEPT ![t] = left]
      /\ targets' = IF removed THEN without(targets, t) ELSE targets
      /\ sessions' = sessions \ {s}
      /\ session_to_target' = [session_to_target EXCEPT ![s] = NoTarget]
  BY DEF detach
<1>2. /\ target_sessions \in [Targets -> SUBSET Sessions]
      /\ session_to_target \in [Sessions -> OptTargets]
      /\ targets \in Seq(Targets) /\ sessions \subseteq Sessions
  BY DEF TypeOK
<1>3. /\ target_sessions' \in [Targets -> SUBSET Sessions]
      /\ session_to_target' \in [Sessions -> OptTargets]
      /\ sessions' \subseteq Sessions
  BY <1>1, <1>2 DEF OptTargets
<1>4. \A q \in Sessions, x \in Targets :
        q \in target_sessions'[x] <=> session_to_target'[q] = x
  BY <1>1, <1>2, PoolAssumption DEF PoolConsistent
<1>5. sessions' = {q \in Sessions : session_to_target'[q] # NoTarget}
  BY <1>1, <1>2 DEF PoolConsistent
<1>6. \A x \in Targets : target_sessions'[x] # {}
                           <=> target_sessions[x] # {} /\ ~(x = t /\ removed)
  BY <1>1, <1>2
<1>7. /\ targets' \in Seq(Targets)
      /\ \A x \in Targets : (\E i \in DOMAIN targets' : targets'[i] = x)
                              <=> target_sessions'[x] # {}
      /\ \A i, j \in DOMAIN targets' : targets'[i] = targets'[j] => i = j
  <2>1. CASE removed
    <3>1. (\E i \in DOMAIN targets : targets[i] = t)
          /\ \A i, j \in DOMAIN targets : targets[i] = targets[j] => i = j
      BY <2>1 DEF PoolConsistent
    <3>2. targets' = without(targets, t)
      BY <1>1, <2>1
    <3> DEFINE w == without(targets, t)
    <3>3. /\ w \in Seq(Targets)
          /\ \A x : (\E i \in DOMAIN w : w[i] = x)
                      <=> x # t /\ \E i \in DOMAIN targets : targets[i] = x
          /\ \A i, j \in DOMAIN w : w[i] = w[j] => i = j
      <4> HIDE DEF removed
      <4> QED
        BY <1>2, <3>1, WithoutFacts
    <3>4. targets' = w
      BY <3>2
    <3> HIDE DEF w, removed
    <3> QED
      BY <1>6, <2>1, <3>3, <3>4 DEF PoolConsistent
  <2>2. CASE ~removed
    BY <1>1, <1>2, <1>6, <2>2 DEF PoolConsistent
  <2> QED
    BY <2>1, <2>2
<1> QED
  BY <1>3, <1>4, <1>5, <1>7 DEF PoolConsistent

LEMMA AttachPool ==
  ASSUME TypeOK, PoolConsistent, Known, NEW s \in Sessions, AttachResumes(s)
  PROVE  /\ home[s] \in Targets
         /\ target_sessions' \in [Targets -> SUBSET Sessions]
         /\ session_to_target' \in [Sessions -> OptTargets]
         /\ targets' \in Seq(Targets) /\ sessions' \subseteq Sessions
         /\ PoolConsistent'
<1> DEFINE t == home[s]
<1>1. /\ target_sessions' = [target_sessions EXCEPT ![t] = @ \cup {s}]
      /\ session_to_target' = [session_to_target EXCEPT ![s] = t]
      /\ sessions' = sessions \cup {s}
      /\ targets' = IF target_sessions[t] = {} THEN Append(targets, t)
                                               ELSE targets
  BY DEF AttachResumes
<1>2. /\ target_sessions \in [Targets -> SUBSET Sessions]
      /\ session_to_target \in [Sessions -> OptTargets]
      /\ targets \in Seq(Targets) /\ sessions \subseteq Sessions
      /\ session_to_target[s] \in {NoTarget, t}
  BY DEF TypeOK, Known
<1>3. t \in Targets /\ t # NoTarget
  BY PoolAssumption DEF AttachResumes, Known, TypeOK, OptTargets
<1> HIDE DEF t
<1>4. /\ target_sessions' \in [Targets -> SUBSET Sessions]
      /\ session_to_target' \in [Sessions -> OptTargets]
      /\ sessions' \subseteq Sessions
  BY <1>1, <1>2, <1>3 DEF OptTargets
<1>5. \A q \in Sessions, x \in Targets :
        q \in target_sessions'[x] <=> session_to_target'[q] = x
  BY <1>1, <1>2, <1>3, PoolAssumption DEF PoolConsistent
<1>6. sessions' = {q \in Sessions : session_to_target'[q] # NoTarget}
  BY <1>1, <1>2, <1>3 DEF PoolConsistent
<1>7. \A x \in Targets : target_sessions'[x] # {}
                           <=> target_sessions[x] # {} \/ x = t
  BY <1>1, <1>2, <1>3
<1>8. /\ targets' \in Seq(Targets)
      /\ \A x \in Targets : (\E i \in DOMAIN targets' : targets'[i] = x)
                              <=> target_sessions'[x] # {}
      /\ \A i, j \in DOMAIN targets' : targets'[i] = targets'[j] => i = j
  <2>1. CASE target_sessions[t] = {}
    <3>1. /\ targets' \in Seq(Targets)
          /\ DOMAIN targets' = 1 .. Len(targets) + 1
          /\ DOMAIN targets = 1 .. Len(targets) /\ Len(targets) \in Nat
          /\ \A i \in DOMAIN targets : targets'[i] = targets[i]
          /\ targets'[Len(targets) + 1] = t
      BY <1>1, <1>2, <1>3, <2>1, AppendFacts
    <3>2. ~ \E i \in DOMAIN targets : targets[i] = t
      BY <1>3, <2>1 DEF PoolConsistent
    <3>3. \A x : (\E i \in DOMAIN targets' : targets'[i] = x)
                   <=> x = t \/ \E i \in DOMAIN targets : targets[i] = x
      BY <3>1
    <3>4. \A i, j \in DOMAIN targets' : targets'[i] = targets'[j] => i = j
      BY <3>1, <3>2 DEF PoolConsistent
    <3> QED
      BY <1>7, <3>1, <3>3, <3>4 DEF PoolConsistent
  <2>2. CASE target_sessions[t] # {}
    BY <1>1, <1>2, <1>7, <2>2 DEF PoolConsistent
  <2> QED
    BY <2>1, <2>2
<1> QED
  BY <1>3, <1>4, <1>5, <1>6, <1>8 DEF PoolConsistent, t

-----------------------------------------------------------------------------
\* One lemma per group of steps: each keeps the invariant.
LEMMA PoolKept ==
  ASSUME PoolConsistent, UNCHANGED pool
  PROVE  PoolConsistent'
BY DEF PoolConsistent, pool

LEMMA BrowserStep ==
  ASSUME IInv, Browser
  PROVE  IInv'
<1>1. PoolConsistent' /\ UNCHANGED <<pool, focus>>
  BY PoolKept DEF IInv, Browser, OpenTarget, AttachSession, CloseTarget,
     DetachSession
<1>2. FocusInPool'
  BY <1>1 DEF IInv, FocusInPool, pool
<1>3. ASSUME NEW t \in Targets, OpenTarget(t) \/ CloseTarget(t)
      PROVE  TypeOK' /\ Known'
  BY <1>3 DEF IInv, OpenTarget, CloseTarget, TypeOK, Known, Open, pool
<1>4. ASSUME NEW s \in Sessions, NEW t \in Targets, AttachSession(s, t)
      PROVE  TypeOK' /\ Known'
  <2> DEFINE e == [kind |-> "attached", session |-> s]
  <2>1. e \in Events /\ wire \in Seq(Events) /\ t # NoTarget /\ e.session = s
    BY PoolAssumption DEF IInv, TypeOK, Events
  <2>2. home' = [home EXCEPT ![s] = t] /\ home \in [Sessions -> OptTargets]
    BY <1>4 DEF AttachSession, IInv, TypeOK
  <2>3. wire' = Append(wire, e)
    BY <1>4 DEF AttachSession
  <2> HIDE DEF e
  <2>4. /\ wire' \in Seq(Events) /\ DOMAIN wire' = 1 .. Len(wire) + 1
        /\ DOMAIN wire = 1 .. Len(wire)
        /\ \A i \in DOMAIN wire : wire'[i] = wire[i] /\ wire[i].session \in Sessions
        /\ wire'[Len(wire) + 1] = e
    <3>1. \A i \in DOMAIN wire : wire[i] \in Events
      BY <2>1
    <3>2. \A i \in DOMAIN wire : wire[i].session \in Sessions
      BY <3>1 DEF Events
    <3> QED
      BY <2>1, <2>3, <3>2, AppendFacts
  <2>5. TypeOK'
    <3>1. home' \in [Sessions -> OptTargets]
      BY <2>2 DEF OptTargets
    <3>2. live' \subseteq Sessions /\ \A q \in live' : home'[q] # NoTarget
      BY <1>4, <2>1, <2>2 DEF AttachSession, IInv, TypeOK
    <3> QED
      BY <1>4, <2>4, <3>1, <3>2 DEF AttachSession, IInv, TypeOK, pool
  <2>6. \A i \in DOMAIN wire' : home'[wire'[i].session] # NoTarget
    BY <2>1, <2>2, <2>4 DEF IInv, Known
  <2>7. \A q \in Sessions : session_to_target'[q] \in {NoTarget, home'[q]}
    BY <1>4, <2>2 DEF AttachSession, IInv, Known, pool
  <2>8. \A q \in Sessions : handler'[q] # "none" => home'[q] # NoTarget
    BY <1>4, <2>1, <2>2 DEF AttachSession, IInv, Known
  <2> QED
    BY <2>5, <2>6, <2>7, <2>8 DEF Known
<1>5. ASSUME NEW s \in Sessions, DetachSession(s)
      PROVE  TypeOK' /\ Known'
  <2> DEFINE e == [kind |-> "detached", session |-> s]
  <2>1. e \in Events /\ wire \in Seq(Events) /\ e.session = s
        /\ home[s] # NoTarget
    BY <1>5 DEF DetachSession, IInv, TypeOK, Events
  <2>2. wire' = Append(wire, e)
    BY <1>5 DEF DetachSession
  <2> HIDE DEF e
  <2>3. /\ wire' \in Seq(Events) /\ DOMAIN wire' = 1 .. Len(wire) + 1
        /\ DOMAIN wire = 1 .. Len(wire)
        /\ \A i \in DOMAIN wire : wire'[i] = wire[i]
        /\ wire'[Len(wire) + 1] = e
    BY <2>1, <2>2, AppendFacts
  <2>4. TypeOK'
    BY <1>5, <2>3 DEF DetachSession, IInv, TypeOK, pool
  <2>5. Known'
    BY <1>5, <2>1, <2>3 DEF DetachSession, IInv, Known, pool
  <2> QED
    BY <2>4, <2>5
<1> QED
  BY <1>1, <1>2, <1>3, <1>4, <1>5 DEF Browser, IInv

LEMMA DeliverStep ==
  ASSUME IInv, Deliver
  PROVE  IInv'
<1> DEFINE s == Head(wire).session
<1>1. wire # << >> /\ wire' = Tail(wire) /\ UNCHANGED browser
  BY DEF Deliver, AttachDelivered, DetachDelivered
<1>2. /\ Head(wire) \in Events /\ wire' \in Seq(Events) /\ Head(wire) = wire[1]
      /\ 1 \in DOMAIN wire
      /\ \A i \in DOMAIN wire' : i + 1 \in DOMAIN wire /\ wire'[i] = wire[i + 1]
  <2>1. wire \in Seq(Events)
    BY DEF IInv, TypeOK
  <2> QED
    BY <1>1, <2>1, TailFacts
<1>3. s \in Sessions /\ home[s] \in Targets /\ home[s] # NoTarget
  BY <1>2 DEF IInv, TypeOK, Known, Events, OptTargets
<1>4. \A i \in DOMAIN wire' : home'[wire'[i].session] # NoTarget
  BY <1>1, <1>2 DEF IInv, Known, browser
<1> HIDE DEF s
<1>5. CASE AttachDelivered
  <2>1. handler' = [handler EXCEPT ![s] = "auto_attach"]
        /\ UNCHANGED <<browser, pool, focus, recovery_in_progress, recovery>>
    BY <1>5 DEF AttachDelivered, s
  <2>2. PoolConsistent'
    BY <2>1, PoolKept DEF IInv
  <2>3. TypeOK'
    BY <1>2, <1>3, <2>1 DEF IInv, TypeOK, browser, pool
  <2>4. FocusInPool' /\ Known'
    BY <1>3, <1>4, <2>1 DEF IInv, TypeOK, FocusInPool, Known, browser, pool
  <2> QED
    BY <2>2, <2>3, <2>4 DEF IInv
<1>6. CASE DetachDelivered
  <2> DEFINE t == home[s]
             left == target_sessions[t] \ {s}
             removed == target_sessions[t] # {} /\ left = {}
  <2>1. detach(s, t) /\ UNCHANGED <<browser, handler, recovery_in_progress>>
    BY <1>6 DEF DetachDelivered, s
  <2>2. t \in Targets /\ session_to_target[s] \in {NoTarget, t}
    BY <1>3 DEF IInv, Known
  <2> HIDE DEF t
  <2>3. /\ target_sessions' \in [Targets -> SUBSET Sessions]
        /\ session_to_target' \in [Sessions -> OptTargets]
        /\ targets' \in Seq(Targets) /\ sessions' \subseteq Sessions
        /\ PoolConsistent'
    BY <1>3, <2>1, <2>2, DetachPool DEF IInv
  <2>4. /\ target_sessions' = [target_sessions EXCEPT ![t] = left]
        /\ session_to_target' = [session_to_target EXCEPT ![s] = NoTarget]
        /\ IF removed THEN lose_focus(t, recovery)
                      ELSE UNCHANGED <<focus, recovery>>
    BY <2>1 DEF detach
  <2>5. focus \in OptPages /\ recovery \in [Recoveries -> Tasks]
        /\ target_sessions \in [Targets -> SUBSET Sessions]
    BY DEF IInv, TypeOK
  <2>6. /\ focus' = IF removed /\ focus = t THEN NoTarget ELSE focus
        /\ recovery' \in [Recoveries -> Tasks]
    <3>1. CASE removed
      BY <2>4, <2>5, <3>1, LoseFocus
    <3>2. CASE ~removed
      BY <2>4, <2>5, <3>2
    <3> QED
      BY <3>1, <3>2
  <2>7. focus' \in OptPages
    BY <2>5, <2>6 DEF OptPages
  <2>8. TypeOK'
    BY <1>2, <2>1, <2>3, <2>6, <2>7 DEF IInv, TypeOK, browser
  <2>9. FocusInPool'
    <3>1. CASE focus' = NoTarget
      BY <3>1 DEF FocusInPool
    <3>2. CASE focus' # NoTarget
      <4>1. focus' = focus /\ focus \in Targets /\ target_sessions[focus] # {}
            /\ ~(removed /\ focus = t)
        BY <2>5, <2>6, <3>2, PoolAssumption DEF IInv, FocusInPool, OptPages
      <4>2. target_sessions'[focus] # {}
        BY <2>2, <2>4, <2>5, <4>1
      <4> QED
        BY <4>1, <4>2 DEF FocusInPool
    <3> QED
      BY <3>1, <3>2
  <2>10. Known'
    <3>1. \A q \in Sessions : session_to_target'[q] \in {NoTarget, home'[q]}
      BY <2>1, <2>4 DEF IInv, Known, TypeOK, browser
    <3> QED
      BY <1>4, <2>1, <3>1 DEF IInv, Known, browser
  <2> QED
    BY <2>3, <2>8, <2>9, <2>10 DEF IInv
<1> QED
  BY <1>5, <1>6 DEF Deliver

LEMMA AttachStep ==
  ASSUME IInv, NEW s \in Sessions, Attaching(s)
  PROVE  IInv'
<1>1. CASE AttachResumes(s)
  <2>1. /\ home[s] \in Targets
        /\ target_sessions' \in [Targets -> SUBSET Sessions]
        /\ session_to_target' \in [Sessions -> OptTargets]
        /\ targets' \in Seq(Targets) /\ sessions' \subseteq Sessions
        /\ PoolConsistent'
    BY <1>1, AttachPool DEF IInv
  <2>2. /\ target_sessions' = [target_sessions EXCEPT ![home[s]] = @ \cup {s}]
        /\ session_to_target' = [session_to_target EXCEPT ![s] = home[s]]
        /\ handler' = [handler EXCEPT ![s] = IF home[s] \in Pages
                                             THEN "monitoring" ELSE "done"]
        /\ UNCHANGED <<browser, wire, focus, recovery_in_progress, recovery>>
        /\ handler[s] # "none"
    BY <1>1 DEF AttachResumes
  <2>3. TypeOK'
    BY <2>1, <2>2 DEF IInv, TypeOK, browser
  <2>4. FocusInPool'
    <3>1. focus \in Targets \cup {NoTarget}
          /\ target_sessions \in [Targets -> SUBSET Sessions]
      BY PoolAssumption DEF IInv, TypeOK, OptPages
    <3> QED
      BY <2>2, <3>1 DEF IInv, FocusInPool
  <2>5. Known'
    BY <2>2 DEF IInv, Known, TypeOK, browser
  <2> QED
    BY <2>1, <2>3, <2>4, <2>5 DEF IInv
<1>2. CASE MonitoringEnabled(s)
  <2>1. PoolConsistent'
    BY <1>2, PoolKept DEF IInv, MonitoringEnabled
  <2>2. TypeOK' /\ FocusInPool' /\ Known'
    BY <1>2 DEF IInv, TypeOK, FocusInPool, Known, MonitoringEnabled, browser, pool
  <2> QED
    BY <2>1, <2>2 DEF IInv
<1> QED
  BY <1>1, <1>2 DEF Attaching

\* A step of a recovery touches the focus and the recovery state only, and
\* opens a target at most; what is left to check of it is this.
LEMMA RecoveryFrame ==
  ASSUME IInv, UNCHANGED <<closed, live, home, wire, handler, pool>>,
         opened \subseteq opened', opened' \subseteq Targets,
         focus' \in OptPages, FocusInPool', recovery_in_progress' \in BOOLEAN,
         recovery' \in [Recoveries -> Tasks]
  PROVE  IInv'
<1>1. PoolConsistent'
  BY PoolKept DEF IInv
<1>2. TypeOK'
  BY DEF IInv, TypeOK, pool
<1>3. Known'
  BY DEF IInv, Known, pool
<1> QED
  BY <1>1, <1>2, <1>3 DEF IInv

LEMMA TaskUpdate ==
  ASSUME NEW r \in Recoveries, NEW rec \in [Recoveries -> Tasks],
         NEW at \in {"none", "created", "waiting", "creating", "polling",
                     "activating", "creating_fallback", "polling_fallback"}
  PROVE  /\ [rec EXCEPT ![r].at = at] \in [Recoveries -> Tasks]
         /\ [rec EXCEPT ![r] = NoTask] \in [Recoveries -> Tasks]
BY NoTaskType DEF Tasks

LEMMA RecoveryStep ==
  ASSUME IInv, NEW r \in Recoveries, Recovering(r)
  PROVE  IInv'
<1>1. /\ opened \subseteq Targets /\ focus \in OptPages
      /\ recovery_in_progress \in BOOLEAN /\ recovery \in [Recoveries -> Tasks]
      /\ recovery[r] \in Tasks /\ recovery[r].new \in OptPages
      /\ targets \in Seq(Targets)
      /\ target_sessions \in [Targets -> SUBSET Sessions]
      /\ NoTarget \in OptPages /\ Pages \subseteq Targets
      /\ OptPages \subseteq OptTargets
  BY PoolAssumption DEF IInv, TypeOK, OptPages, OptTargets, Tasks
<1>2. ASSUME recovery_ends(r)
      PROVE  recovery' \in [Recoveries -> Tasks] /\ recovery_in_progress' \in BOOLEAN
  BY <1>1, <1>2, NoTaskType DEF recovery_ends
<1>3. CASE /\ recovery' \in [Recoveries -> Tasks]
           /\ recovery_in_progress' \in BOOLEAN
           /\ UNCHANGED <<browser, wire, handler, pool, focus>>
  <2>1. FocusInPool'
    BY <1>3 DEF IInv, FocusInPool, pool
  <2> QED
    BY <1>1, <1>3, <2>1, RecoveryFrame DEF browser
<1>4. CASE RecoveryWaits(r)
  <2>1. recovery' \in [Recoveries -> Tasks]
    BY <1>1, <1>4, TaskUpdate DEF RecoveryWaits
  <2> QED
    BY <1>1, <1>3, <1>4, <2>1 DEF RecoveryWaits
<1>5. CASE \/ RecoveryWaited(r) \/ NothingToRecover(r)
           \/ CreateFails(r) \/ Activated(r)
  BY <1>2, <1>3, <1>5 DEF RecoveryWaited, NothingToRecover, CreateFails, Activated
<1>6. CASE RecoveryStarts(r)
  <2>1. recovery' \in [Recoveries -> Tasks]
    <3>1. CASE recovery' = [recovery EXCEPT ![r].at = "creating"]
      BY <1>1, <3>1, TaskUpdate
    <3>2. ASSUME NEW i \in page_targets,
                 recovery' = [recovery EXCEPT ![r].at = "polling",
                                ![r].existing = TRUE, ![r].new = targets[i]]
          PROVE  recovery' \in [Recoveries -> Tasks]
      <4> DEFINE new == targets[i]
                 task == [recovery[r] EXCEPT !.at = "polling",
                            !.existing = TRUE, !.new = new]
      <4>1. new \in OptPages
        BY DEF page_targets, OptPages
      <4> HIDE DEF new
      <4>2. task \in Tasks
        BY <1>1, <4>1 DEF Tasks
      <4>3. recovery' = [recovery EXCEPT ![r] = task]
        BY <1>1, <3>2 DEF new
      <4> HIDE DEF task
      <4> QED
        BY <1>1, <4>2, <4>3
    <3> QED
      BY <1>6, <3>1, <3>2 DEF RecoveryStarts
  <2> QED
    BY <1>3, <1>6, <2>1 DEF RecoveryStarts
<1>7. CASE CreatePage(r)
  <2>1. PICK t \in Pages \ opened :
           /\ opened' = opened \cup {t}
           /\ recovery' = [recovery EXCEPT
                ![r].at = IF @ = "creating" THEN "polling" ELSE "polling_fallback",
                ![r].new = t]
    BY <1>7 DEF CreatePage
  <2>2. t \in OptPages
    BY DEF OptPages
  <2>3. recovery' \in [Recoveries -> Tasks]
    <3> DEFINE at == IF recovery[r].at = "creating" THEN "polling"
                                                    ELSE "polling_fallback"
               task == [recovery[r] EXCEPT !.at = at, !.new = t]
    <3>1. task \in Tasks
      BY <1>1, <2>2 DEF Tasks
    <3>2. recovery' = [recovery EXCEPT ![r] = task]
      BY <1>1, <2>1
    <3> HIDE DEF task
    <3> QED
      BY <1>1, <3>1, <3>2
  <2>4. UNCHANGED <<closed, live, home, wire, handler, pool, focus,
                    recovery_in_progress>>
    BY <1>7 DEF CreatePage
  <2>5. FocusInPool'
    BY <2>4 DEF IInv, FocusInPool, pool
  <2> QED
    BY <1>1, <2>1, <2>3, <2>4, <2>5, RecoveryFrame
<1>8. CASE PollFinds(r)
  <2>1. /\ target_sessions[recovery[r].new] # {} /\ focus' = recovery[r].new
        /\ UNCHANGED <<browser, wire, handler, pool>>
    BY <1>8 DEF PollFinds
  <2>2. recovery' \in [Recoveries -> Tasks] /\ recovery_in_progress' \in BOOLEAN
    <3>1. CASE recovery' = [recovery EXCEPT ![r].at = "activating"]
               /\ UNCHANGED recovery_in_progress
      BY <1>1, <3>1, TaskUpdate
    <3> QED
      BY <1>2, <1>8, <3>1 DEF PollFinds
  <2>3. FocusInPool'
    BY <2>1 DEF FocusInPool, pool
  <2> QED
    BY <1>1, <2>1, <2>2, <2>3, RecoveryFrame DEF browser
<1>9. CASE PollGivesUp(r) \/ FallbackGivesUp(r)
  <2>1. PICK rec \in [Recoveries -> Tasks] : lose_focus(recovery[r].new, rec)
    <3>1. [recovery EXCEPT ![r].at = "creating_fallback"] \in [Recoveries -> Tasks]
          /\ [recovery EXCEPT ![r] = NoTask] \in [Recoveries -> Tasks]
      BY <1>1, TaskUpdate
    <3> QED
      BY <1>9, <3>1 DEF PollGivesUp, FallbackGivesUp
  <2>2. /\ focus' = IF focus = recovery[r].new THEN NoTarget ELSE focus
        /\ recovery' \in [Recoveries -> Tasks]
    BY <1>1, <2>1, LoseFocus
  <2>3. /\ UNCHANGED <<browser, wire, handler, pool>>
        /\ recovery_in_progress' \in BOOLEAN
    BY <1>1, <1>9 DEF PollGivesUp, FallbackGivesUp
  <2>4. FocusInPool' /\ focus' \in OptPages
    BY <1>1, <2>2, <2>3 DEF IInv, FocusInPool, pool
  <2> QED
    BY <1>1, <2>2, <2>3, <2>4, RecoveryFrame DEF browser
<1> QED
  BY <1>4, <1>5, <1>6, <1>7, <1>8, <1>9 DEF Recovering

LEMMA FocusStep ==
  ASSUME IInv, NEW t \in Targets, FocusSwitched(t)
  PROVE  IInv'
<1>1. focus' \in OptPages /\ opened \subseteq Targets
      /\ recovery_in_progress \in BOOLEAN /\ recovery \in [Recoveries -> Tasks]
  BY DEF FocusSwitched, IInv, TypeOK, OptPages
<1>2. FocusInPool'
  BY DEF FocusSwitched, FocusInPool, pool
<1> QED
  BY <1>1, <1>2, RecoveryFrame DEF FocusSwitched, browser

LEMMA StutterStep ==
  ASSUME IInv, UNCHANGED vars
  PROVE  IInv'
<1>1. /\ UNCHANGED <<opened, closed, live, home, wire, handler, pool, focus>>
      /\ UNCHANGED <<recovery_in_progress, recovery>>
  BY DEF vars, browser
<1>2. FocusInPool'
  BY <1>1 DEF IInv, FocusInPool, pool
<1> QED
  BY <1>1, <1>2, RecoveryFrame DEF IInv, TypeOK

LEMMA InductiveStep == IInv /\ [Next]_vars => IInv'
<1> SUFFICES ASSUME IInv, [Next]_vars PROVE IInv'
  OBVIOUS
<1> QED
  BY BrowserStep, DeliverStep, AttachStep, RecoveryStep, FocusStep, StutterStep
  DEF Next

-----------------------------------------------------------------------------
\* The invariant holds in every reachable state of the session manager: the
\* pool, the focus, and what the handlers know of each session agree.
THEOREM Invariance == Spec => []IInv
BY InitInv, InductiveStep, PTL DEF Spec

\* Every variable of the session manager stays in its type.
THEOREM TypeCorrect == Spec => []TypeOK
<1>1. IInv => TypeOK
  BY DEF IInv
<1> QED
  BY <1>1, Invariance, PTL

\* However attach and detach handlers interleave, the four maps of the pool
\* agree: a target is a key of _targets exactly while a session of it is known.
THEOREM PoolStaysConsistent == Spec => []PoolConsistent
<1>1. IInv => PoolConsistent
  BY DEF IInv
<1> QED
  BY <1>1, Invariance, PTL

\* Neither a detach, nor a recovery, nor a tab switch, in any order, leaves the
\* agent's focus on a target that is gone from the pool.
THEOREM FocusStaysInPool == Spec => []FocusInPool
<1>1. IInv => FocusInPool
  BY DEF IInv
<1> QED
  BY <1>1, Invariance, PTL

=============================================================================
