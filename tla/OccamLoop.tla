------------------------------ MODULE OccamLoop ------------------------------
(***************************************************************************)
(* AgentOccam: the loop of act() with its budget of steps, the plan tree    *)
(* the LLM branches and prunes, the access to the memory bank in the middle *)
(* of a run, and the retries of an answer that is invalid or repeats a note.*)
(*                                                                         *)
(* One thread runs all of it.  An answer of the LLM is reduced to its first *)
(* command, the note it takes and whether it stops; the configuration is    *)
(* the repository's (one answer per step, no critic, no judge).             *)
(***************************************************************************)
EXTENDS Naturals, Sequences, FiniteSets

CONSTANTS
  MaxSteps,  \* env.max_steps
  MaxInvalid, \* max_invalid_attempts
  Queries,   \* what the memory bank may be asked
  Notes,     \* what a note may say
  None       \* no query, no note

ASSUME OccamAssumption ==
  /\ MaxSteps \in Nat /\ MaxInvalid \in Nat \ {0}
  /\ None \notin Queries \union Notes

VARIABLES
  pc,          \* where act() is
  steps, done, \* the environment: steps used, is_done
  history,     \* previous_interactions: the plan each was recorded under
  nodes,       \* the plan tree, in the order the plans were made
  active,      \* active_node
  note_buffer, \* the last note taken
  memory_bank, \* whether there is one (disable_memory_check is the contrary)
  retriever,   \* whether memory_retriever is initialised
  cache,       \* memory_context_cache: the queries that are answered
  output,      \* action_elements
  invalid_count, repetitive \* invalid_action_count, repetitive_note

env == <<steps, done>>
plans == <<nodes, active, note_buffer>>
memory == <<memory_bank, retriever, cache>>
retries == <<invalid_count, repetitive>>
vars == <<pc, env, history, plans, memory, output, retries>>

Ids == 0 .. MaxSteps + 1
Plans == 1 .. MaxSteps + 2
\* above: the plans above a plan, itself included, which is its place in the tree.
PlanNode == [id : Ids, above : SUBSET Plans, step : 0 .. MaxSteps,
             visible : BOOLEAN, taken : SUBSET (0 .. MaxSteps)]

\* first is the command the answer starts with: an action on the page, a plan
\* command for the plan with that id (an unknown one, if malformed), or a query.
Output(first, id, query, note, stop) ==
  [first |-> first, id |-> id, query |-> query, note |-> note, stop |-> stop]
Outputs ==
  [first : {"page"}, id : {0}, query : {None}, note : Notes \union {None},
   stop : BOOLEAN]
  \union [first : {"branch", "prune"}, id : Ids, query : {None},
          note : Notes \union {None}, stop : BOOLEAN]
  \union [first : {"memory"}, id : {0}, query : Queries \union {None},
          note : {None}, stop : {FALSE}]
Idle == Output("page", 0, None, None, FALSE)
TooManyInvalid == Output("page", 0, None, None, TRUE)

Root == [id |-> 0, above |-> {1}, step |-> 0, visible |-> TRUE, taken |-> {}]

Init ==
  /\ pc = "head" /\ steps = 0 /\ done = FALSE /\ history = <<>>
  /\ nodes = <<Root>> /\ active = 1 /\ note_buffer = None
  /\ memory_bank \in BOOLEAN /\ retriever = FALSE /\ cache = {}
  /\ output = Idle /\ invalid_count = 0 /\ repetitive = FALSE

(***************************************************************************)
(* The plan tree                                                           *)
(***************************************************************************)
\* get_step: steps are numbered from zero.
get_step == Len(history)

Subtree(n) == {x \in DOMAIN nodes : n \in nodes[x].above}
Least(S) == CHOOSE x \in S : \A y \in S : x <= y

\* The order of a depth-first search: children in the order they were added.
Precedes(x, y) ==
  \/ y \in Subtree(x)
  \/ /\ x \notin Subtree(y)
     /\ Least(nodes[x].above \ nodes[y].above)
          < Least(nodes[y].above \ nodes[x].above)

\* Plans with one id may be visible at the same time: the first is found.
Named(id) == {x \in DOMAIN nodes : nodes[x].visible /\ nodes[x].id = id}
search_node_by_id(id) ==
  {x \in Named(id) : \A y \in Named(id) : Precedes(x, y)}

later_siblings(n) ==
  {x \in DOMAIN nodes : x > n /\ nodes[x].above \ {x} = nodes[n].above \ {n}}

\* The node is reset before its subtree is traversed: what it did itself is lost.
steps_below(n) ==
  {nodes[x].step : x \in Subtree(n)}
    \union UNION {nodes[x].taken : x \in Subtree(n) \ {n}}

\* Mutant: the plans below the resumed one stay visible.
BugPrunePlanning(n) ==
  /\ nodes' = [x \in DOMAIN nodes |->
       IF x = n THEN [nodes[x] EXCEPT !.taken = steps_below(n)]
       ELSE [nodes[x] EXCEPT !.visible = @ /\ x \notin later_siblings(n)]]
  /\ active' = n

\* What is below the later siblings stays visible.
prune_planning(n) ==
  /\ nodes' = [x \in DOMAIN nodes |->
       IF x = n THEN [nodes[x] EXCEPT !.taken = steps_below(n)]
       ELSE [nodes[x] EXCEPT
               !.visible = @ /\ x \notin later_siblings(n) \union Subtree(n)]]
  /\ active' = n

\* The id follows that of the active plan, whatever plan it is a part of.
branch_planning(n) ==
  /\ nodes' = Append(nodes,
       [id |-> nodes[active].id + 1, step |-> get_step,
        above |-> nodes[n].above \union {Len(nodes) + 1},
        visible |-> TRUE, taken |-> {}])
  /\ active' = Len(nodes) + 1

\* An unknown id, or a malformed command, costs a step that no plan has taken.
planning(o) ==
  \/ /\ o.first = "page"
     /\ nodes' = [nodes EXCEPT ![active].taken = @ \union {get_step}]
     /\ UNCHANGED active
  \/ o.first = "branch" /\ \E n \in search_node_by_id(o.id) : branch_planning(n)
  \/ o.first = "prune" /\ \E n \in search_node_by_id(o.id) : prune_planning(n)
  \/ o.first \in {"branch", "prune"} /\ Named(o.id) = {} /\ UNCHANGED <<nodes, active>>

take_note(o) == note_buffer' = IF o.note = None THEN note_buffer ELSE o.note

(***************************************************************************)
(* The environment and the history                                         *)
(***************************************************************************)
env_step(stops) ==
  /\ steps' = steps + 1
  /\ done' = (done \/ steps' > MaxSteps \/ stops)

update_history == history' = Append(history, active)

(***************************************************************************)
(* act(): one step after the other                                         *)
(***************************************************************************)
StepStarts ==
  /\ pc = "head" /\ ~done
  /\ pc' = IF memory_bank THEN "check" ELSE "ask"
  /\ invalid_count' = 0 /\ repetitive' = FALSE
  /\ UNCHANGED <<env, history, plans, memory, output>>

ActReturns ==
  /\ pc = "head" /\ done /\ pc' = "returned"
  /\ UNCHANGED <<env, history, plans, memory, output, retries>>

\* check_memory_needed_before_action, when the LLM asks for the user's memory.
MemoryNeeded ==
  /\ pc = "check"
  /\ \E q \in Queries \union {None} :
       output' = Output("memory", 0, q, None, FALSE)
  /\ pc' = "selected"
  /\ UNCHANGED <<env, history, plans, memory, retries>>

MemoryNotNeeded ==
  /\ pc = "check" /\ pc' = "ask"
  /\ UNCHANGED <<env, history, plans, memory, output, retries>>

\* The LLM call raises, or the observation is text: filtered_obs is unbound then.
ActRaises ==
  /\ pc \in {"check", "ask"} /\ pc' = "raised"
  /\ UNCHANGED <<env, history, plans, memory, output, retries>>

LLMAnswers ==
  /\ pc = "ask" /\ pc' = "answered" /\ output' \in Outputs
  /\ UNCHANGED <<env, history, plans, memory, retries>>

Repeats(o) == note_buffer # None /\ o.note = note_buffer

AnswerAccepted ==
  /\ pc = "answered" /\ ~Repeats(output) /\ pc' = "selected"
  /\ UNCHANGED <<env, history, plans, memory, output, retries>>

\* Without end: repetitions are not counted.
NoteRepeated ==
  /\ pc = "answered" /\ Repeats(output)
  /\ pc' = "ask" /\ repetitive' = TRUE /\ output' = Idle
  /\ UNCHANGED <<env, history, plans, memory, invalid_count>>

\* Mutant: attempts are counted and never compared with the limit.
BugAnswerInvalid ==
  /\ pc = "ask"
  /\ invalid_count' = IF invalid_count < MaxInvalid - 1 THEN invalid_count + 1 ELSE 0
  /\ pc' = "ask" /\ UNCHANGED output
  /\ UNCHANGED <<env, history, plans, memory, repetitive>>

\* An answer that is no action, or names an element the page does not have.
AnswerInvalid ==
  /\ pc = "ask" /\ invalid_count' = invalid_count + 1
  /\ IF invalid_count' < MaxInvalid THEN pc' = "ask" /\ UNCHANGED output
     ELSE pc' = "selected" /\ output' = TooManyInvalid
  /\ UNCHANGED <<env, history, plans, memory, repetitive>>

\* finalize_action, then one step of the environment.
StepActs ==
  /\ pc = "selected" /\ output.first # "memory"
  /\ planning(output) /\ take_note(output)
  /\ env_step(output.stop /\ ~(output.first = "prune" /\ Named(output.id) # {}))
  /\ history' = Append(history, active') /\ pc' = "head" /\ output' = Idle
  /\ UNCHANGED <<memory, retries>>

\* A query that is empty falls through to the environment, which knows no such
\* action.
MemoryWithoutQuery ==
  /\ pc = "selected" /\ output.first = "memory" /\ output.query = None
  /\ env_step(FALSE) /\ update_history /\ pc' = "head" /\ output' = Idle
  /\ UNCHANGED <<plans, memory, retries>>

\* Mutant: an access to the memory bank that fails costs no step.
BugMemoryAccessed ==
  /\ pc = "selected" /\ output.first = "memory" /\ output.query # None
  /\ pc' = "head" /\ output' = Idle
  /\ \/ retriever' \in {retriever, memory_bank} /\ UNCHANGED <<cache, env>>
     \/ /\ memory_bank /\ retriever' = TRUE /\ cache' = cache \union {output.query}
        /\ env_step(FALSE)
  /\ update_history /\ UNCHANGED <<plans, memory_bank, retries>>

\* The retriever is initialised by the first query that succeeds in doing so.  An
\* access is a step of the run, whether it is answered or not.
MemoryAccessed ==
  /\ pc = "selected" /\ output.first = "memory" /\ output.query # None
  /\ \/ retriever' \in {retriever, memory_bank} /\ UNCHANGED cache
     \/ /\ memory_bank /\ retriever' = TRUE /\ cache' = cache \union {output.query}
  /\ env_step(FALSE) /\ update_history /\ pc' = "head" /\ output' = Idle
  /\ UNCHANGED <<plans, memory_bank, retries>>

Answers ==
  LLMAnswers \/ AnswerAccepted \/ NoteRepeated \/ AnswerInvalid

Next ==
  \/ StepStarts \/ ActReturns
  \/ MemoryNeeded \/ MemoryNotNeeded \/ ActRaises
  \/ Answers
  \/ StepActs \/ MemoryWithoutQuery \/ MemoryAccessed

Spec == Init /\ [][Next]_vars

\* One thread runs act(), and every LLM call ends (a client's timeout).
FairSpec == Spec /\ WF_vars(Next)

\* The types.  The steps are numbered within the budget of the environment, with
\* the one it cuts off, in the plan tree too.
TypeOK ==
  /\ pc \in {"head", "check", "ask", "answered", "selected", "returned", "raised"}
  /\ steps \in 0 .. MaxSteps + 1 /\ done \in BOOLEAN
  /\ history \in Seq(Plans) /\ nodes \in Seq(PlanNode) /\ active \in Plans
  /\ note_buffer \in Notes \union {None}
  /\ memory_bank \in BOOLEAN /\ retriever \in BOOLEAN /\ cache \subseteq Queries
  /\ output \in Outputs
  /\ invalid_count \in 0 .. MaxInvalid /\ repetitive \in BOOLEAN

\* The numbering of the steps in the prompts, the plans and the notes is that of
\* the environment's budget: every step of the environment is recorded once, the
\* accesses to the memory bank included, and the run is over when the budget is.
BudgetIsHistory == Len(history) = steps /\ (steps > MaxSteps => done)

\* The LLM is shown the plan it works on: prune never hides it.
ActivePlanShown == active \in DOMAIN nodes /\ nodes[active].visible

\* The steps of a plan, from which the prompt's interaction history is made, are
\* recorded (get_interaction_history indexes the history with them), were taken
\* under this plan or one below it, and are the steps of no other plan the LLM is
\* shown, however plans were branched and pruned.
PlansOwnTheirSteps ==
  \A n \in DOMAIN nodes : nodes[n].visible =>
    /\ \A s \in nodes[n].taken :
         s + 1 \in DOMAIN history /\ history[s + 1] \in Subtree(n)
    /\ \A m \in DOMAIN nodes \ {n} : nodes[m].visible =>
         nodes[n].taken \intersect nodes[m].taken = {}

\* The run ends, within its budget of steps, with a result or an exception, unless
\* the LLM repeats its last note again and again: those answers are never counted.
EndsUnlessNoteRepeated ==
  \/ <>(pc \in {"returned", "raised"})
  \/ <>[](pc \in {"ask", "answered"} /\ repetitive)
==============================================================================
