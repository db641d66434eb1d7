--------------------------- MODULE OccamLoopProofs ---------------------------
(***************************************************************************)
(* Proofs about OccamLoop for every budget of steps, every limit of invalid *)
(* answers and all queries and notes: types, the budget, and what the steps *)
(* of the plans are worth, whatever the LLM branches and prunes.            *)
(***************************************************************************)
EXTENDS OccamLoop, TLAPS

\* The history and the tree grow together, one plan for one step at most.
Grown ==
  /\ nodes \in Seq(PlanNode) /\ history \in Seq(Plans)
  /\ Len(history) = steps /\ Len(nodes) \in 1 .. steps + 1
  /\ active \in DOMAIN nodes
  /\ \A i \in DOMAIN history : history[i] \in DOMAIN nodes
  /\ \A x \in DOMAIN nodes : nodes[x].id < x

\* No step starts after the last one, and the count of invalid answers is within
\* its limit when there may be one more.
Within ==
  /\ steps \in Nat /\ (~done => steps <= MaxSteps) /\ steps <= MaxSteps + 1
  /\ pc \in {"check", "ask", "answered", "selected"} => ~done
  /\ pc \in {"check", "ask", "answered"} => invalid_count < MaxInvalid

\* The plans above one plan are a chain, which starts at the root.
Tree ==
  \A x \in DOMAIN nodes :
    /\ {1, x} \subseteq nodes[x].above /\ nodes[x].above \subseteq 1 .. x
    /\ \A y \in nodes[x].above :
         /\ nodes[y].above \subseteq nodes[x].above
         /\ \A z \in nodes[x].above :
              y \in nodes[z].above \/ z \in nodes[y].above

\* The step of a plan is the one it was branched in; what it has taken was taken
\* in its subtree.
Owned ==
  /\ nodes[1].step = 0
  /\ \A x \in DOMAIN nodes \ {1} :
       nodes[x].step + 1 \in DOMAIN history /\ history[nodes[x].step + 1] = x
  /\ \A x \in DOMAIN nodes : \A s \in nodes[x].taken :
       s + 1 \in DOMAIN history /\ history[s + 1] \in Subtree(x)

\* A plan has none of the steps of a visible plan below it.
Apart ==
  \A n \in DOMAIN nodes, m \in DOMAIN nodes :
    nodes[m].visible /\ m # n /\ m \in Subtree(n) =>
      \A s \in nodes[n].taken : history[s + 1] \notin Subtree(m)

PlansInv == Grown /\ Tree /\ Owned /\ Apart /\ ActivePlanShown

IInv == TypeOK /\ Within /\ PlansInv

----------------------------------------------------------------------------
\* What the steps of a plan are worth follows: a step two plans share was taken
\* below both, so that one of them is below the other.
LEMMA OwnStepsFollow ==
  ASSUME PlansInv
  PROVE  PlansOwnTheirSteps
<1> SUFFICES ASSUME NEW n \in DOMAIN nodes, NEW m \in DOMAIN nodes \ {n},
                    nodes[n].visible, nodes[m].visible,
                    NEW s \in nodes[n].taken, s \in nodes[m].taken
             PROVE  FALSE
  BY DEF PlansInv, Owned, PlansOwnTheirSteps
<1> DEFINE h == history[s + 1]
<1>1. h \in Subtree(n) /\ h \in Subtree(m)
  BY DEF PlansInv, Owned
<1>2. n \in Subtree(m) \/ m \in Subtree(n)
  BY <1>1 DEF PlansInv, Tree, Subtree
<1>3. QED
  BY <1>1, <1>2 DEF PlansInv, Apart

\* What Append does.
LEMMA Appended ==
  ASSUME NEW S, NEW q \in Seq(S), NEW e \in S
  PROVE  /\ Append(q, e) \in Seq(S) /\ Len(Append(q, e)) = Len(q) + 1
         /\ Len(q) \in Nat /\ DOMAIN q = 1 .. Len(q)
         /\ DOMAIN Append(q, e) = 1 .. Len(q) + 1
         /\ Append(q, e)[Len(q) + 1] = e
         /\ \A i \in DOMAIN q : q[i] \in S /\ Append(q, e)[i] = q[i]
  OBVIOUS

\* A function on an initial segment is a sequence.
LEMMA IsSequence ==
  ASSUME NEW S, NEW n \in Nat, NEW r \in [1 .. n -> S]
  PROVE  r \in Seq(S) /\ Len(r) = n /\ DOMAIN r = 1 .. n
  OBVIOUS

\* A plan that takes one more step.
LEMMA OneMoreStep ==
  ASSUME NEW n \in PlanNode, NEW s \in 0 .. MaxSteps
  PROVE  LET t == [n EXCEPT !.taken = @ \union {s}] IN
         /\ t \in PlanNode /\ t.taken = n.taken \union {s}
         /\ t.id = n.id /\ t.above = n.above /\ t.step = n.step
         /\ t.visible = n.visible
  BY DEF PlanNode

\* A step on the page is the active plan's own.
LEMMA PageStep ==
  ASSUME PlansInv, steps \in Nat, steps <= MaxSteps, MaxSteps \in Nat,
         nodes' = [nodes EXCEPT ![active].taken = @ \union {get_step}],
         active' = active, history' = Append(history, active'), steps' = steps + 1
  PROVE  PlansInv'
<1> USE DEF PlansInv
<1>1. /\ active \in DOMAIN nodes /\ active \in Plans /\ get_step \in 0 .. MaxSteps
      /\ \A x \in DOMAIN nodes : nodes[x] \in PlanNode
  BY DEF Grown, get_step, Plans
<1> DEFINE t == [nodes[active] EXCEPT !.taken = @ \union {get_step}]
<1>t. /\ t \in PlanNode /\ t.taken = nodes[active].taken \union {get_step}
      /\ t.id = nodes[active].id /\ t.above = nodes[active].above
      /\ t.step = nodes[active].step /\ t.visible = nodes[active].visible
  BY <1>1, OneMoreStep
<1>n. nodes' = [nodes EXCEPT ![active] = t]
  OBVIOUS
<1> HIDE DEF t
<1>2. /\ DOMAIN nodes' = DOMAIN nodes /\ Len(nodes') = Len(nodes)
      /\ nodes' \in Seq(PlanNode)
  <2>1. Len(nodes) \in Nat /\ nodes \in [1 .. Len(nodes) -> PlanNode]
    BY DEF Grown
  <2>2. nodes' \in [1 .. Len(nodes) -> PlanNode]
    BY <2>1, <1>t, <1>n
  <2>3. QED
    BY <2>1, <2>2, IsSequence
<1>3. \A x \in DOMAIN nodes :
        /\ nodes'[x].id = nodes[x].id /\ nodes'[x].above = nodes[x].above
        /\ nodes'[x].step = nodes[x].step /\ nodes'[x].visible = nodes[x].visible
        /\ nodes'[x].taken = IF x = active THEN nodes[x].taken \union {get_step}
                             ELSE nodes[x].taken
  BY <1>1, <1>t, <1>n
<1>4. /\ history' \in Seq(Plans) /\ Len(history') = Len(history) + 1
      /\ Len(history) \in Nat
      /\ DOMAIN history' = 1 .. Len(history) + 1 /\ DOMAIN history = 1 .. Len(history)
      /\ history'[Len(history) + 1] = active
      /\ \A i \in DOMAIN history : history'[i] = history[i]
  BY <1>1, Appended DEF Grown
<1>5. \A x \in DOMAIN nodes : Subtree(x)' = Subtree(x)
  BY <1>2, <1>3 DEF Subtree
<1>6. Grown'
  <2>1. \A i \in DOMAIN history' : history'[i] \in DOMAIN nodes'
    <3>1. \A i \in DOMAIN history' : i \in DOMAIN history \/ i = Len(history) + 1
      BY <1>4
    <3>2. \A i \in DOMAIN history : history[i] \in DOMAIN nodes
      BY DEF Grown
    <3>3. QED
      BY <3>1, <3>2, <1>1, <1>2, <1>4, Zenon
  <2>2. \A x \in DOMAIN nodes' : nodes'[x].id < x
    <3>1. \A x \in DOMAIN nodes : nodes[x].id < x
      BY DEF Grown
    <3>2. QED
      BY <3>1, <1>2, <1>3
  <2>3. Len(history) = steps /\ Len(nodes) \in 1 .. steps + 1
    BY DEF Grown
  <2>4. Len(history') = steps' /\ Len(nodes') \in 1 .. steps' + 1
    BY <2>3, <1>2, <1>4
  <2>5. QED
    BY <2>1, <2>2, <2>4, <1>1, <1>2, <1>4 DEF Grown
<1>7. Tree'
  BY <1>2, <1>3 DEF Tree
<1>8. Owned'
  <2>1. nodes'[1].step = 0
    BY <1>3 DEF Owned, Grown
  <2>2. \A x \in DOMAIN nodes \ {1} :
          nodes'[x].step + 1 \in DOMAIN history' /\ history'[nodes'[x].step + 1] = x
    BY <1>3, <1>4 DEF Owned, Grown
  <2>3. \A x \in DOMAIN nodes : \A s \in nodes'[x].taken :
          s + 1 \in DOMAIN history' /\ history'[s + 1] \in Subtree(x)
    <3> SUFFICES ASSUME NEW x \in DOMAIN nodes, NEW s \in nodes'[x].taken
                 PROVE  s + 1 \in DOMAIN history' /\ history'[s + 1] \in Subtree(x)
      OBVIOUS
    <3>1. CASE s \in nodes[x].taken
      BY <3>1, <1>4 DEF Owned
    <3>2. CASE s \notin nodes[x].taken
      <4>1. x = active /\ s = Len(history)
        BY <3>2, <1>3 DEF get_step
      <4>2. x \in DOMAIN nodes /\ x \in Subtree(x)
        BY DEF Tree, Subtree
      <4>3. s + 1 \in DOMAIN history' /\ history'[s + 1] = x
        <5> HIDE DEF PlansInv
        <5>1. QED
          BY <4>1, <1>4
      <4>4. QED
        BY <4>2, <4>3
    <3>3. QED
      BY <3>1, <3>2
  <2> HIDE DEF PlansInv
  <2>4. \A x \in DOMAIN nodes' \ {1} :
          nodes'[x].step + 1 \in DOMAIN history' /\ history'[nodes'[x].step + 1] = x
    BY <2>2, <1>2, Zenon
  <2>5. \A x \in DOMAIN nodes' : \A s \in nodes'[x].taken :
          s + 1 \in DOMAIN history' /\ history'[s + 1] \in Subtree(x)'
    <3> TAKE x \in DOMAIN nodes'
    <3> TAKE s \in nodes'[x].taken
    <3>1. x \in DOMAIN nodes
      BY <1>2
    <3>2. Subtree(x)' = Subtree(x)
      BY <3>1, <1>5
    <3>3. s + 1 \in DOMAIN history' /\ history'[s + 1] \in Subtree(x)
      BY <3>1, <2>3
    <3> QED
      BY <3>2, <3>3
  <2>6. QED
    BY <2>1, <2>4, <2>5, Zenon DEF Owned
<1>9. Apart'
  <2> SUFFICES ASSUME NEW n \in DOMAIN nodes', NEW m \in DOMAIN nodes',
                      nodes'[m].visible, m # n, m \in Subtree(n)',
                      NEW s \in nodes'[n].taken
               PROVE  history'[s + 1] \notin Subtree(m)'
    BY DEF Apart
  <2> n \in DOMAIN nodes /\ m \in DOMAIN nodes /\ nodes[m].visible
    BY <1>2, <1>3
  <2> m \in Subtree(n) /\ Subtree(m)' = Subtree(m)
    BY <1>5
  <2>1. CASE s \in nodes[n].taken
    BY <2>1, <1>4 DEF Apart, Owned
  <2>2. CASE s \notin nodes[n].taken
    <3>1. n = active /\ history'[s + 1] = n
      BY <2>2, <1>3, <1>4 DEF get_step
    <3>2. n \notin Subtree(m)
      BY DEF Tree, Subtree, Grown
    <3>3. QED
      BY <3>1, <3>2
  <2>3. QED
    BY <2>1, <2>2
<1>10. ActivePlanShown'
  BY <1>1, <1>2, <1>3 DEF ActivePlanShown
<1>11. QED
  BY <1>6, <1>7, <1>8, <1>9, <1>10
\* A step no plan has taken is recorded under the active plan all the same.
LEMMA NoPlanStep ==
  ASSUME PlansInv, steps \in Nat, steps <= MaxSteps, MaxSteps \in Nat,
         nodes' = nodes, active' = active,
         history' = Append(history, active'), steps' = steps + 1
  PROVE  PlansInv'
<1> USE DEF PlansInv
<1>1. active \in DOMAIN nodes /\ active \in Plans
  BY DEF Grown, Plans
<1>2. /\ history' \in Seq(Plans) /\ Len(history') = Len(history) + 1
      /\ Len(history) \in Nat
      /\ DOMAIN history' = 1 .. Len(history) + 1 /\ DOMAIN history = 1 .. Len(history)
      /\ history'[Len(history) + 1] = active
      /\ \A i \in DOMAIN history : history'[i] = history[i]
  BY <1>1, Appended DEF Grown
<1>3. \A x : Subtree(x)' = Subtree(x)
  BY DEF Subtree
<1>4. Grown'
  BY <1>1, <1>2 DEF Grown
<1>5. Tree'
  BY DEF Tree
<1>6. Owned'
  BY <1>2, <1>3 DEF Owned
<1>7. Apart'
  BY <1>2, <1>3 DEF Apart, Owned
<1>8. ActivePlanShown'
  BY DEF ActivePlanShown
<1>9. QED
  BY <1>4, <1>5, <1>6, <1>7, <1>8

\* A new plan is below the named one, is active, and has taken nothing yet.
LEMMA BranchStep ==
  ASSUME PlansInv, steps \in Nat, steps <= MaxSteps, MaxSteps \in Nat,
         NEW k \in DOMAIN nodes, branch_planning(k),
         history' = Append(history, active'), steps' = steps + 1
  PROVE  PlansInv'
<1> USE DEF PlansInv
<1> DEFINE new == Len(nodes) + 1
           n == [id |-> nodes[active].id + 1, step |-> get_step,
                 above |-> nodes[k].above \union {new},
                 visible |-> TRUE, taken |-> {}]
<1>1. /\ nodes \in Seq(PlanNode) /\ Len(nodes) \in Nat
      /\ DOMAIN nodes = 1 .. Len(nodes) /\ new \in Plans /\ new \in Nat
      /\ get_step \in 0 .. MaxSteps /\ get_step = Len(history)
      /\ \A x \in DOMAIN nodes : nodes[x] \in PlanNode
  BY DEF Grown, get_step, Plans
<1>2. n \in PlanNode
  <2>1. nodes[active] \in PlanNode /\ nodes[k] \in PlanNode
        /\ nodes[active].id < active /\ active \in DOMAIN nodes
    BY <1>1 DEF Grown
  <2>2. nodes[active].id + 1 \in Ids
    <3>1. nodes[active].id \in Nat
      BY <2>1 DEF PlanNode, Ids
    <3>2. active \in Nat /\ active <= MaxSteps + 1
      BY <2>1, <1>1 DEF Grown
    <3> HIDE DEF PlansInv
    <3>3. QED
      BY <2>1, <3>1, <3>2 DEF Ids
  <2>3. nodes[k].above \union {new} \in SUBSET Plans
    BY <2>1, <1>1 DEF PlanNode
  <2>4. QED
    BY <2>2, <2>3, <1>1 DEF PlanNode
<1>3. /\ nodes' = Append(nodes, n) /\ active' = new
  BY DEF branch_planning
<1>4. /\ n.id = nodes[active].id + 1 /\ n.step = get_step /\ n.visible /\ n.taken = {}
      /\ n.above = nodes[k].above \union {new}
  OBVIOUS
<1> HIDE DEF n
<1>5. /\ nodes' \in Seq(PlanNode) /\ Len(nodes') = Len(nodes) + 1
      /\ DOMAIN nodes' = 1 .. Len(nodes) + 1 /\ nodes'[new] = n
      /\ \A x \in DOMAIN nodes : nodes'[x] = nodes[x]
  BY <1>1, <1>2, <1>3, Appended
<1>6. /\ history' \in Seq(Plans) /\ Len(history') = Len(history) + 1
      /\ Len(history) \in Nat
      /\ DOMAIN history' = 1 .. Len(history) + 1 /\ DOMAIN history = 1 .. Len(history)
      /\ history'[Len(history) + 1] = new
      /\ \A i \in DOMAIN history : history'[i] = history[i]
  BY <1>1, <1>3, Appended DEF Grown
<1> HIDE DEF new
<1>7. \A x \in DOMAIN nodes' : x \in DOMAIN nodes \/ x = new
  BY <1>1, <1>5 DEF new
<1>8. /\ new \notin DOMAIN nodes /\ new \in DOMAIN nodes'
      /\ \A x \in DOMAIN nodes : x \in DOMAIN nodes' /\ x < new
  BY <1>1, <1>5 DEF new
<1>9. /\ \A x \in DOMAIN nodes : Subtree(x) \subseteq Subtree(x)'
      /\ \A x \in DOMAIN nodes, y \in DOMAIN nodes :
            y \in Subtree(x)' <=> y \in Subtree(x)
  BY <1>5, <1>8 DEF Subtree
<1>10. Grown'
  <2>1. \A i \in DOMAIN history' : history'[i] \in DOMAIN nodes'
    BY <1>6, <1>8 DEF Grown
  <2>2. \A x \in DOMAIN nodes' : nodes'[x].id < x
    <3>1. /\ nodes[active] \in PlanNode /\ nodes[active].id < active
          /\ active \in DOMAIN nodes
      BY <1>1 DEF Grown
    <3>2. \A x \in DOMAIN nodes : nodes[x].id < x
      BY DEF Grown
    <3> HIDE DEF PlansInv
    <3>3. nodes[active].id \in Nat
      BY <3>1 DEF PlanNode, Ids
    <3>4. n.id < new
      BY <3>1, <3>3, <1>1, <1>4 DEF new
    <3>5. QED
      BY <3>2, <3>4, <1>5, <1>7
  <2>3. QED
    BY <2>1, <2>2, <1>1, <1>3, <1>5, <1>6, <1>8 DEF Grown
<1>11. Tree'
  <2> SUFFICES ASSUME NEW x \in DOMAIN nodes'
               PROVE  /\ {1, x} \subseteq nodes'[x].above
                      /\ nodes'[x].above \subseteq 1 .. x
                      /\ \A y \in nodes'[x].above :
                           /\ nodes'[y].above \subseteq nodes'[x].above
                           /\ \A z \in nodes'[x].above :
                                y \in nodes'[z].above \/ z \in nodes'[y].above
    BY DEF Tree
  <2>1. CASE x \in DOMAIN nodes
    <3>1. nodes[x].above \subseteq DOMAIN nodes
      BY <2>1, <1>1 DEF Tree
    <3>2. QED
      BY <2>1, <3>1, <1>5 DEF Tree
  <2>2. CASE x = new
    <3>1. /\ nodes[k].above \subseteq DOMAIN nodes /\ nodes'[x].above = n.above
          /\ 1 \in nodes[k].above
      BY <2>2, <1>1, <1>5 DEF Tree
    <3>2. /\ {1, x} \subseteq nodes'[x].above /\ nodes'[x].above \subseteq 1 .. x
      BY <2>2, <3>1, <1>1, <1>4, <1>8
    <3>3. \A y \in nodes[k].above :
            /\ nodes'[y].above \subseteq nodes[k].above
            /\ \A z \in nodes[k].above :
                 y \in nodes'[z].above \/ z \in nodes'[y].above
      BY <3>1, <1>5 DEF Tree
    <3>4. QED
      BY <2>2, <3>1, <3>2, <3>3, <1>4, <1>5
  <2>3. QED
    BY <2>1, <2>2, <1>7
<1>12. Owned'
  <2>1. nodes'[1].step = 0
    <3>1. 1 \in DOMAIN nodes
      BY <1>1 DEF Grown
    <3>2. QED
      BY <3>1, <1>5 DEF Owned
  <2>2. \A x \in DOMAIN nodes' \ {1} :
          nodes'[x].step + 1 \in DOMAIN history' /\ history'[nodes'[x].step + 1] = x
    BY <1>1, <1>4, <1>5, <1>6, <1>7 DEF Owned
  <2>3. \A x \in DOMAIN nodes' : \A s \in nodes'[x].taken :
          s + 1 \in DOMAIN history' /\ history'[s + 1] \in Subtree(x)'
    BY <1>4, <1>5, <1>6, <1>7, <1>9 DEF Owned
  <2>4. QED
    BY <2>1, <2>2, <2>3 DEF Owned
<1>13. Apart'
  <2> SUFFICES ASSUME NEW x \in DOMAIN nodes', NEW m \in DOMAIN nodes',
                      nodes'[m].visible, m # x, m \in Subtree(x)',
                      NEW s \in nodes'[x].taken
               PROVE  history'[s + 1] \notin Subtree(m)'
    BY DEF Apart
  <2>1. x \in DOMAIN nodes /\ s \in nodes[x].taken
    BY <1>4, <1>5, <1>7
  <2>2. /\ s + 1 \in DOMAIN history /\ history[s + 1] \in DOMAIN nodes
        /\ history'[s + 1] = history[s + 1]
    BY <2>1, <1>6 DEF Owned, Subtree
  <2>3. CASE m \in DOMAIN nodes
    BY <2>1, <2>2, <2>3, <1>5, <1>9 DEF Apart
  <2>4. CASE m = new
    <3>1. new \notin nodes[history[s + 1]].above
      BY <2>2, <1>8, <1>1 DEF Tree
    <3>2. QED
      BY <2>2, <2>4, <3>1, <1>5 DEF Subtree
  <2>5. QED
    BY <2>3, <2>4, <1>7
<1>14. ActivePlanShown'
  BY <1>3, <1>4, <1>5, <1>8 DEF ActivePlanShown
<1>15. QED
  BY <1>10, <1>11, <1>12, <1>13, <1>14
\* The resumed plan takes the steps of its subtree, which is shown no longer.
LEMMA PruneStep ==
  ASSUME PlansInv, steps \in Nat, steps <= MaxSteps, MaxSteps \in Nat,
         NEW k \in DOMAIN nodes, nodes[k].visible, prune_planning(k),
         history' = Append(history, active'), steps' = steps + 1
  PROVE  PlansInv'
<1> USE DEF PlansInv
<1>1. /\ Len(nodes) \in Nat /\ DOMAIN nodes = 1 .. Len(nodes) /\ k \in Plans
      /\ \A x \in DOMAIN nodes : nodes[x] \in PlanNode
      /\ Len(history) \in Nat /\ DOMAIN history = 1 .. Len(history)
  BY DEF Grown, Plans
<1>2. steps_below(k) \subseteq 0 .. MaxSteps
  BY <1>1 DEF steps_below, Subtree, PlanNode
<1> DEFINE hidden == later_siblings(k) \union Subtree(k)
           node(x) == IF x = k THEN [nodes[x] EXCEPT !.taken = steps_below(k)]
                      ELSE [nodes[x] EXCEPT !.visible = @ /\ x \notin hidden]
<1>3. nodes' = [x \in DOMAIN nodes |-> node(x)] /\ active' = k
  BY DEF prune_planning
<1>4. ASSUME NEW x \in DOMAIN nodes
      PROVE  /\ node(x) \in PlanNode /\ node(x).id = nodes[x].id
             /\ node(x).above = nodes[x].above /\ node(x).step = nodes[x].step
             /\ node(x).taken = IF x = k THEN steps_below(k) ELSE nodes[x].taken
             /\ x = k => node(x).visible
             /\ node(x).visible => nodes[x].visible /\ (x = k \/ x \notin Subtree(k))
  <2>1. nodes[x] \in PlanNode
    BY <1>1
  <2>2. CASE x = k
    BY <2>1, <2>2, <1>2 DEF PlanNode
  <2>3. CASE x # k
    <3> DEFINE v == nodes[x].visible /\ x \notin hidden
    <3>1. v \in BOOLEAN /\ (v => nodes[x].visible /\ x \notin Subtree(k))
      BY <2>1 DEF PlanNode
    <3>2. node(x) = [nodes[x] EXCEPT !.visible = v]
      BY <2>3
    <3> HIDE DEF v, node
    <3>3. QED
      BY <3>1, <3>2, <2>1, <2>3 DEF PlanNode
  <2>4. QED
    BY <2>2, <2>3
<1> HIDE DEF node, hidden
<1>5. /\ nodes' \in Seq(PlanNode) /\ Len(nodes') = Len(nodes)
      /\ DOMAIN nodes' = DOMAIN nodes
      /\ \A x \in DOMAIN nodes : nodes'[x] = node(x)
  <2>1. nodes' \in [1 .. Len(nodes) -> PlanNode]
    BY <1>1, <1>3, <1>4
  <2>2. QED
    BY <2>1, <1>1, <1>3, IsSequence
<1>6. /\ history' \in Seq(Plans) /\ Len(history') = Len(history) + 1
      /\ DOMAIN history' = 1 .. Len(history) + 1
      /\ history'[Len(history) + 1] = k
      /\ \A i \in DOMAIN history : history'[i] = history[i]
  BY <1>1, <1>3, Appended DEF Grown
<1>7. \A x \in DOMAIN nodes : Subtree(x)' = Subtree(x)
  BY <1>4, <1>5 DEF Subtree
<1>8. Grown'
  <2>1. \A i \in DOMAIN history' : history'[i] \in DOMAIN nodes'
    BY <1>1, <1>5, <1>6 DEF Grown
  <2>2. \A x \in DOMAIN nodes' : nodes'[x].id < x
    BY <1>4, <1>5 DEF Grown
  <2>3. Len(history') = steps' /\ Len(nodes') \in 1 .. steps' + 1
    BY <1>5, <1>6 DEF Grown
  <2>4. active' \in DOMAIN nodes'
    BY <1>3, <1>5
  <2>5. QED
    BY <2>1, <2>2, <2>3, <2>4, <1>5, <1>6 DEF Grown
<1>9. Tree'
  BY <1>4, <1>5, <1>1 DEF Tree
<1>10. \A i \in DOMAIN history' : history'[i] \in DOMAIN nodes
  BY <1>5, <1>8 DEF Grown
<1>11. \A s \in steps_below(k) :
         s + 1 \in DOMAIN history' /\ history'[s + 1] \in Subtree(k)
  <2> SUFFICES ASSUME NEW s \in steps_below(k)
               PROVE  s + 1 \in DOMAIN history' /\ history'[s + 1] \in Subtree(k)
    OBVIOUS
  <2>1. CASE \E x \in Subtree(k) : s = nodes[x].step
    <3>1. PICK x \in Subtree(k) : s = nodes[x].step
      BY <2>1
    <3>2. x \in DOMAIN nodes
      BY DEF Subtree
    <3>3. CASE x = 1
      <4>1. k = 1
        BY <3>3, <1>1 DEF Subtree, Tree
      <4>2. \A y \in DOMAIN nodes : y \in Subtree(1)
        BY DEF Tree, Subtree
      <4>3. s + 1 \in DOMAIN history'
        BY <3>1, <3>3, <1>1, <1>6 DEF Owned
      <4>4. QED
        BY <4>1, <4>2, <4>3, <1>10
    <3>4. CASE x # 1
      BY <3>1, <3>2, <3>4, <1>1, <1>6 DEF Owned
    <3>5. QED
      BY <3>3, <3>4
  <2>2. CASE \E x \in Subtree(k) : s \in nodes[x].taken
    <3>1. PICK x \in Subtree(k) : s \in nodes[x].taken
      BY <2>2
    <3>2. /\ x \in DOMAIN nodes /\ s + 1 \in DOMAIN history
          /\ history[s + 1] \in Subtree(x)
      BY <3>1 DEF Subtree, Owned
    <3>3. history[s + 1] \in Subtree(k)
      BY <3>1, <3>2 DEF Subtree, Tree
    <3>4. QED
      BY <3>2, <3>3, <1>1, <1>6
  <2>3. QED
    BY <2>1, <2>2 DEF steps_below
<1>12. Owned'
  <2>1. nodes'[1].step = 0
    <3>1. 1 \in DOMAIN nodes
      BY <1>1 DEF Grown
    <3>2. QED
      BY <3>1, <1>4, <1>5 DEF Owned
  <2>2. \A x \in DOMAIN nodes \ {1} :
          nodes'[x].step + 1 \in DOMAIN history' /\ history'[nodes'[x].step + 1] = x
    BY <1>1, <1>4, <1>5, <1>6 DEF Owned
  <2>3. \A x \in DOMAIN nodes : \A s \in nodes'[x].taken :
          s + 1 \in DOMAIN history' /\ history'[s + 1] \in Subtree(x)
    BY <1>1, <1>4, <1>5, <1>6, <1>11 DEF Owned
  <2>4. QED
    BY <2>1, <2>2, <2>3, <1>5, <1>7 DEF Owned
<1>13. Apart'
  <2> SUFFICES ASSUME NEW x \in DOMAIN nodes', NEW m \in DOMAIN nodes',
                      nodes'[m].visible, m # x, m \in Subtree(x)',
                      NEW s \in nodes'[x].taken
               PROVE  history'[s + 1] \notin Subtree(m)'
    BY DEF Apart
  <2>1. /\ x \in DOMAIN nodes /\ m \in DOMAIN nodes /\ nodes[m].visible
        /\ m = k \/ m \notin Subtree(k)
    BY <1>4, <1>5
  <2>2. m \in Subtree(x) /\ Subtree(m)' = Subtree(m)
    BY <2>1, <1>7
  <2>3. x # k
    BY <2>1, <2>2
  <2>4. s \in nodes[x].taken
    BY <2>1, <2>3, <1>4, <1>5
  <2>5. QED
    BY <2>1, <2>2, <2>4, <1>6 DEF Apart, Owned
<1>14. ActivePlanShown'
  BY <1>3, <1>4, <1>5 DEF ActivePlanShown
<1>15. QED
  BY <1>8, <1>9, <1>12, <1>13, <1>14
----------------------------------------------------------------------------
\* A step of the environment stays within the budget, with the one that is cut off.
LEMMA EnvStep ==
  ASSUME TypeOK, Within, ~done, NEW b \in BOOLEAN, env_step(b), pc' = "head"
  PROVE  /\ steps' = steps + 1 /\ steps \in Nat /\ steps <= MaxSteps
         /\ steps' \in 0 .. MaxSteps + 1 /\ done' \in BOOLEAN /\ Within'
<1>1. steps \in Nat /\ steps <= MaxSteps /\ steps' = steps + 1
  BY DEF Within, env_step
<1>2. MaxSteps \in Nat
  BY OccamAssumption
<1>3. done' \in BOOLEAN
  BY DEF env_step
<1>4. ~done' => steps' <= MaxSteps
  <2>1. done' = (done \/ steps' > MaxSteps \/ b)
    BY DEF env_step
  <2>2. ~done' => ~(steps' > MaxSteps)
    BY <2>1, Zenon
  <2>3. QED
    BY <2>2, <1>1, <1>2
<1>5. QED
  BY <1>1, <1>2, <1>3, <1>4 DEF Within

\* A step that leaves the tree and the history alone leaves what is said of them.
LEMMA PlansUnchanged ==
  ASSUME PlansInv, UNCHANGED <<steps, history, nodes, active>>
  PROVE  PlansInv'
<1>1. \A x : Subtree(x)' = Subtree(x)
  BY DEF Subtree
<1>2. Owned' /\ Apart'
  BY <1>1 DEF PlansInv, Owned, Apart
<1>3. QED
  BY <1>2 DEF PlansInv, Grown, Tree, ActivePlanShown

\* What an answer may be, and what becomes of an invalid one.
LEMMA OutputsKnown ==
  /\ Idle \in Outputs /\ TooManyInvalid \in Outputs
  /\ \A q \in Queries \union {None} : Output("memory", 0, q, None, FALSE) \in Outputs
  /\ \A o \in Outputs : /\ o.note \in Notes \union {None} /\ o.stop \in BOOLEAN
                        /\ o.query \in Queries \union {None}
<1>1. Idle \in Outputs /\ TooManyInvalid \in Outputs
  BY DEF Idle, TooManyInvalid, Output, Outputs
<1>2. \A q \in Queries \union {None} : Output("memory", 0, q, None, FALSE) \in Outputs
  BY DEF Output, Outputs
<1>3. \A o \in Outputs : /\ o.note \in Notes \union {None} /\ o.stop \in BOOLEAN
                        /\ o.query \in Queries \union {None}
  BY DEF Outputs
<1>4. QED
  BY <1>1, <1>2, <1>3

LEMMA Starts == Init => IInv
<1> SUFFICES ASSUME Init PROVE IInv
  OBVIOUS
<1>1. MaxSteps \in Nat /\ MaxInvalid \in Nat \ {0}
  BY OccamAssumption
<1>2. /\ nodes \in Seq(PlanNode) /\ Len(nodes) = 1 /\ DOMAIN nodes = {1}
      /\ nodes[1] = Root /\ history \in Seq(Plans) /\ Len(history) = 0
      /\ DOMAIN history = {}
  <2>1. Root \in PlanNode
    BY <1>1 DEF Root, PlanNode, Ids, Plans
  <2>2. QED
    BY <2>1 DEF Init
<1>3. /\ Root.id = 0 /\ Root.above = {1} /\ Root.step = 0 /\ Root.visible
      /\ Root.taken = {}
  BY DEF Root
<1>4. /\ Idle \in Outputs /\ memory_bank \in BOOLEAN /\ active \in Plans
      /\ steps \in 0 .. MaxSteps + 1 /\ invalid_count \in 0 .. MaxInvalid
  BY <1>1, OutputsKnown DEF Init, Plans
<1>5. TypeOK
  BY <1>2, <1>4 DEF Init, TypeOK
<1>6. Within
  BY <1>1 DEF Init, Within
<1>7. Grown /\ Tree /\ Owned /\ Apart /\ ActivePlanShown
  BY <1>2, <1>3 DEF Init, Grown, Tree, Owned, Apart, ActivePlanShown
<1>8. QED
  BY <1>5, <1>6, <1>7 DEF IInv, PlansInv

LEMMA Preserved == IInv /\ [Next]_vars => IInv'
<1> SUFFICES ASSUME IInv, [Next]_vars PROVE IInv'
  OBVIOUS
<1> USE DEF IInv
<1>c. MaxSteps \in Nat /\ MaxInvalid \in Nat \ {0}
  BY OccamAssumption
<1>1. CASE StepStarts
  <2>1. PlansInv'
    BY <1>1, PlansUnchanged DEF StepStarts, env, plans
  <2>2. /\ pc' \in {"check", "ask"} /\ invalid_count' = 0 /\ repetitive' = FALSE
        /\ ~done /\ UNCHANGED <<env, history, plans, memory, output>>
    BY <1>1 DEF StepStarts
  <2>3. TypeOK'
    <3>1. invalid_count' \in 0 .. MaxInvalid
      BY <2>2, <1>c, SMT
    <3>2. repetitive' \in BOOLEAN
      BY <2>2, Zenon
    <3>3. pc' \in {"head", "check", "ask", "answered", "selected", "returned", "raised"}
      BY <2>2
    <3>4. QED
      BY <2>2, <3>1, <3>2, <3>3 DEF env, plans, memory, TypeOK
  <2>4. Within'
    BY <2>2, <1>c DEF env, Within
  <2>5. QED
    BY <2>1, <2>3, <2>4
<1>2. CASE ActReturns
  <2>1. PlansInv'
    BY <1>2, PlansUnchanged DEF ActReturns, env, plans
  <2>2. TypeOK' /\ Within'
    BY <1>2 DEF ActReturns, env, plans, memory, retries, TypeOK, Within
  <2>3. QED
    BY <2>1, <2>2
<1>3. CASE MemoryNeeded
  <2>1. PlansInv'
    BY <1>3, PlansUnchanged DEF MemoryNeeded, env, plans
  <2>2. output' \in Outputs
    BY <1>3, OutputsKnown DEF MemoryNeeded
  <2>3. TypeOK' /\ Within'
    BY <1>3, <2>2 DEF MemoryNeeded, env, plans, memory, retries, TypeOK, Within
  <2>4. QED
    BY <2>1, <2>3
<1>4. CASE MemoryNotNeeded
  <2>1. PlansInv'
    BY <1>4, PlansUnchanged DEF MemoryNotNeeded, env, plans
  <2>2. TypeOK' /\ Within'
    BY <1>4 DEF MemoryNotNeeded, env, plans, memory, retries, TypeOK, Within
  <2>3. QED
    BY <2>1, <2>2
<1>5. CASE ActRaises
  <2>1. PlansInv'
    BY <1>5, PlansUnchanged DEF ActRaises, env, plans
  <2>2. TypeOK' /\ Within'
    BY <1>5 DEF ActRaises, env, plans, memory, retries, TypeOK, Within
  <2>3. QED
    BY <2>1, <2>2
<1>6. CASE LLMAnswers
  <2>1. PlansInv'
    BY <1>6, PlansUnchanged DEF LLMAnswers, env, plans
  <2>2. TypeOK' /\ Within'
    BY <1>6 DEF LLMAnswers, env, plans, memory, retries, TypeOK, Within
  <2>3. QED
    BY <2>1, <2>2
<1>7. CASE AnswerAccepted
  <2>1. PlansInv'
    BY <1>7, PlansUnchanged DEF AnswerAccepted, env, plans
  <2>2. TypeOK' /\ Within'
    BY <1>7 DEF AnswerAccepted, env, plans, memory, retries, TypeOK, Within
  <2>3. QED
    BY <2>1, <2>2
<1>8. CASE NoteRepeated
  <2>1. PlansInv'
    BY <1>8, PlansUnchanged DEF NoteRepeated, env, plans
  <2>2. TypeOK' /\ Within'
    BY <1>8, OutputsKnown DEF NoteRepeated, env, plans, memory, TypeOK, Within
  <2>3. QED
    BY <2>1, <2>2
<1>9. CASE AnswerInvalid
  <2>1. PlansInv'
    BY <1>9, PlansUnchanged DEF AnswerInvalid, env, plans
  <2>2. /\ invalid_count' \in 0 .. MaxInvalid /\ pc' \in {"ask", "selected"}
        /\ output' \in Outputs /\ (pc' = "ask" => invalid_count' < MaxInvalid)
    BY <1>9, <1>c, OutputsKnown DEF AnswerInvalid, TypeOK, Within
  <2>3. TypeOK' /\ Within'
    BY <1>9, <2>2 DEF AnswerInvalid, env, plans, memory, TypeOK, Within
  <2>4. QED
    BY <2>1, <2>3
<1>10. CASE StepActs
  <2> DEFINE b == output.stop /\ ~(output.first = "prune" /\ Named(output.id) # {})
  <2>1. /\ ~done /\ env_step(b) /\ pc' = "head" /\ b \in BOOLEAN
        /\ history' = Append(history, active') /\ planning(output)
        /\ take_note(output) /\ output' = Idle /\ UNCHANGED <<memory, retries>>
    BY <1>10 DEF StepActs, Within
  <2> HIDE DEF b
  <2>2. /\ steps' = steps + 1 /\ steps \in Nat /\ steps <= MaxSteps
        /\ steps' \in 0 .. MaxSteps + 1 /\ done' \in BOOLEAN /\ Within'
    BY <2>1, EnvStep
  <2>3. PlansInv'
    <3>1. CASE /\ nodes' = [nodes EXCEPT ![active].taken = @ \union {get_step}]
               /\ active' = active
      BY <3>1, <2>1, <2>2, <1>c, PageStep
    <3>2. CASE \E n \in search_node_by_id(output.id) : branch_planning(n)
      <4>1. PICK n \in search_node_by_id(output.id) : branch_planning(n)
        BY <3>2
      <4>2. n \in DOMAIN nodes
        BY DEF search_node_by_id, Named
      <4>3. QED
        BY <4>1, <4>2, <2>1, <2>2, <1>c, BranchStep
    <3>3. CASE \E n \in search_node_by_id(output.id) : prune_planning(n)
      <4>1. PICK n \in search_node_by_id(output.id) : prune_planning(n)
        BY <3>3
      <4>2. n \in DOMAIN nodes /\ nodes[n].visible
        BY DEF search_node_by_id, Named
      <4>3. QED
        BY <4>1, <4>2, <2>1, <2>2, <1>c, PruneStep
    <3>4. CASE UNCHANGED <<nodes, active>>
      BY <3>4, <2>1, <2>2, <1>c, NoPlanStep
    <3>5. QED
      BY <3>1, <3>2, <3>3, <3>4, <2>1 DEF planning
  <2>4. TypeOK'
    <3>1. note_buffer' \in Notes \union {None}
      BY <2>1, OutputsKnown DEF take_note, TypeOK
    <3>2. active' \in Plans
      BY <2>2, <2>3, <1>c DEF PlansInv, Grown, Plans
    <3>3. QED
      BY <3>1, <3>2, <2>1, <2>2, <2>3, OutputsKnown
      DEF PlansInv, Grown, memory, retries, TypeOK
  <2>5. QED
    BY <2>2, <2>3, <2>4
<1>11. CASE MemoryWithoutQuery \/ MemoryAccessed
  <2>1. /\ ~done /\ env_step(FALSE) /\ pc' = "head" /\ output' = Idle
        /\ history' = Append(history, active') /\ UNCHANGED <<plans, retries>>
        /\ memory_bank' = memory_bank
    BY <1>11 DEF MemoryWithoutQuery, MemoryAccessed, Within, update_history,
                plans, memory
  <2>2. /\ steps' = steps + 1 /\ steps \in Nat /\ steps <= MaxSteps
        /\ steps' \in 0 .. MaxSteps + 1 /\ done' \in BOOLEAN /\ Within'
    BY <2>1, EnvStep
  <2>3. PlansInv'
    BY <2>1, <2>2, <1>c, NoPlanStep DEF plans
  <2>4. retriever' \in BOOLEAN /\ cache' \subseteq Queries
    <3>1. CASE MemoryWithoutQuery
      BY <3>1 DEF MemoryWithoutQuery, memory, TypeOK
    <3>2. CASE MemoryAccessed
      <4>1. output.query # None => output.query \in Queries
        BY OutputsKnown DEF TypeOK
      <4>2. QED
        BY <3>2, <4>1 DEF MemoryAccessed, TypeOK
    <3>3. QED
      BY <3>1, <3>2, <1>11
  <2>5. TypeOK'
    BY <2>1, <2>2, <2>3, <2>4, OutputsKnown DEF PlansInv, Grown, plans, retries, TypeOK
  <2>6. QED
    BY <2>2, <2>3, <2>5
<1>12. CASE UNCHANGED vars
  <2>1. PlansInv'
    BY <1>12, PlansUnchanged DEF vars, env, plans
  <2>2. TypeOK' /\ Within'
    BY <1>12 DEF vars, env, plans, memory, retries, TypeOK, Within
  <2>3. QED
    BY <2>1, <2>2
<1>13. QED
  BY <1>1, <1>2, <1>3, <1>4, <1>5, <1>6, <1>7, <1>8, <1>9, <1>10, <1>11, <1>12
  DEF Next, Answers

\* The invariant the properties follow from.
THEOREM Invariance == Spec => []IInv
<1>1. QED
  BY Starts, Preserved, PTL DEF Spec

\* Every variable stays in its type: the steps of the plan tree are numbered within
\* the budget of the environment.
THEOREM TypeCorrect == Spec => []TypeOK
<1>1. IInv => TypeOK
  BY DEF IInv
<1>2. QED
  BY <1>1, Invariance, PTL

\* The numbering of the steps in the prompts is that of the environment's budget,
\* accesses to the memory bank included (env.step, update_history).
THEOREM BudgetKept == Spec => []BudgetIsHistory
<1>1. IInv => BudgetIsHistory
  BY OccamAssumption DEF IInv, Within, PlansInv, Grown, BudgetIsHistory
<1>2. QED
  BY <1>1, Invariance, PTL

\* prune never hides the plan the LLM works on.
THEOREM ActiveShown == Spec => []ActivePlanShown
<1>1. IInv => ActivePlanShown
  BY DEF IInv, PlansInv
<1>2. QED
  BY <1>1, Invariance, PTL

\* For every way to branch and prune, the steps of a plan are recorded, were taken
\* in its subtree and are the steps of no other visible plan.
THEOREM PlansOwnSteps == Spec => []PlansOwnTheirSteps
<1>1. IInv => PlansOwnTheirSteps
  BY OwnStepsFollow DEF IInv
<1>2. QED
  BY <1>1, Invariance, PTL
==============================================================================
