------------------------------ MODULE AgentLoop ------------------------------
(***************************************************************************)
(* The run loop of browser_use.agent.service.Agent: run(), _execute_step() *)
(* and the phases of step(), interleaved with the calls other tasks make   *)
(* on the agent (pause, resume, stop, the status callbacks) and with the   *)
(* timeout of a step.                                                      *)
(*                                                                         *)
(* The agent runs on one asyncio event loop, so code between two awaits is *)
(* atomic.  pc names the await the run coroutine is suspended at; every    *)
(* action is the code from that await to the next one, the finally block   *)
(* of step() included.                                                     *)
(*                                                                         *)
(* A model output is the number of the LLM call that produced it, 0 being  *)
(* None.  The list of results multi_act gathers is the sequence of their   *)
(* kinds; last_result, the list a step leaves, is abstracted to what the   *)
(* loop reads of it: the kind of its last member, whether it has only one, *)
(* and the model output whose actions produced it (0 when no action did).  *)
(***************************************************************************)
EXTENDS Naturals, Sequences

CONSTANTS
  MaxSteps,         \* max_steps of run()
  MaxFailures,      \* settings.max_failures
  FinalResponse,    \* settings.final_response_after_failure
  MaxActions,       \* settings.max_actions_per_step
  Personalization,  \* an enabled PersonalizationService is attached
  InitialActions,   \* the task starts with an initial action (a URL to open)
  Callbacks,        \* the external status and new-step callbacks are set
  MaxTasks,         \* bound: tasks given to the agent, the first included
  MaxPauses,        \* bound: calls of pause()
  MaxInterrupts     \* bound: times a status callback interrupts a step after
                    \* its prompt is built

ASSUME LoopAssumption ==
  /\ MaxSteps \in Nat /\ MaxFailures \in Nat /\ MaxActions \in Nat \ {0}
  /\ MaxTasks \in Nat /\ MaxPauses \in Nat /\ MaxInterrupts \in Nat
  /\ FinalResponse \in BOOLEAN /\ Personalization \in BOOLEAN
  /\ InitialActions \in BOOLEAN /\ Callbacks \in BOOLEAN

VARIABLES
  n_steps, consecutive_failures, last_result, last_model_output, paused,
  stopped, follow_up_task,  \* AgentState
  pause_event,              \* _external_pause_event is set
  done_only,                \* AgentOutput is DoneAgentOutput
  history,                  \* AgentHistoryList.history
  trajectory_log,           \* _trajectory_log
  agent_history_items,      \* MessageManagerState.agent_history_items
  pc,                       \* where the run coroutine is suspended
  results,                  \* kinds of the results multi_act has gathered
  outcome,                  \* how the last run() ended, "none" before it does
  llm_calls,                \* auxiliary: model outputs produced so far
  run_base,                 \* auxiliary: llm_calls when this run() started
  tasks, pauses, interrupts \* counters for the bounds

agentState == <<n_steps, consecutive_failures, last_result, last_model_output>>
flags == <<paused, pause_event, follow_up_task, tasks, pauses>>
records == <<history, trajectory_log>>
vars == <<agentState, flags, stopped, interrupts, done_only, records,
          agent_history_items, pc, results, outcome, llm_calls, run_base>>

-----------------------------------------------------------------------------
Result(kind, out, single) == [kind |-> kind, out |-> out, single |-> single]
NoResult == Result("none", 0, FALSE)
ErrorResult == Result("error", 0, TRUE)
MemoryResult == Result("memory", 0, TRUE)

ResultKinds == {"none", "ok", "error", "done", "memory"}
Results == [kind : ResultKinds, out : Nat, single : BOOLEAN]
HistoryItems == [step : Nat, out : Nat, res : Results]
TrajectoryItems == [step : Nat, memory : BOOLEAN, out : Nat]
AgentItems == [kind : {"step", "initial", "format_error", "task"},
               out : Nat, res : Results]
Outcomes == {"none", "done", "max_steps", "failures", "stopped",
             "startup_error", "unbound_local_error"}

\* The awaits of step() before and after _prepare_context has returned the
\* browser state: only in the second group has step() a state to record.
Preparing == {"browser", "memory"}
WithState == {"llm", "post_llm", "act_check", "acting", "between"}
InStep == Preparing \cup WithState
PCs == InStep \cup {"idle", "starting", "initial", "top", "pause_wait",
                    "woken", "after"}

FailureLimit == MaxFailures + (IF FinalResponse THEN 1 ELSE 0)
is_last_step == n_steps >= MaxSteps
is_done == history # << >> /\ history[Len(history)].res.kind = "done"

Init ==
  /\ n_steps = 1 /\ consecutive_failures = 0
  /\ last_result = NoResult /\ last_model_output = 0
  /\ paused = FALSE /\ stopped = FALSE /\ follow_up_task = FALSE
  /\ pause_event = TRUE /\ done_only = FALSE
  /\ history = << >> /\ trajectory_log = << >> /\ agent_history_items = << >>
  /\ pc = "idle" /\ results = << >> /\ outcome = "none"
  /\ llm_calls = 0 /\ run_base = 0
  /\ tasks = 1 /\ pauses = 0 /\ interrupts = 0

-----------------------------------------------------------------------------
\* _check_stop_or_pause() returns ...
check_passes ==
  /\ ~paused /\ ~stopped
  /\ UNCHANGED <<stopped, interrupts>>

\* ... or raises InterruptedError.  The stop callback also sets stopped, the
\* status callback only raises.  Before the prompt it may do so for ever: the
\* step leaves nothing behind that grows.
check_raises ==
  \/ (paused \/ stopped) /\ UNCHANGED <<stopped, interrupts>>
  \/ /\ Callbacks /\ stopped' \in {stopped, TRUE}
     /\ IF pc = "browser"
        THEN UNCHANGED interrupts
        ELSE interrupts < MaxInterrupts /\ interrupts' = interrupts + 1

\* Mutants of finalize: a memory step is not counted; a paused step is not
\* recorded.
BugMemoryNotCounted(out, res, withState, memory) ==
  IF res = NoResult
  THEN UNCHANGED <<records, n_steps>>
  ELSE /\ n_steps' = IF memory THEN n_steps ELSE n_steps + 1
       /\ history' = history
       /\ trajectory_log' = Append(trajectory_log,
            [step |-> n_steps, memory |-> memory, out |-> out])
BugPausedNotRecorded(out, res, withState, memory) ==
  IF res = NoResult \/ paused
  THEN UNCHANGED <<records, n_steps>>
  ELSE /\ n_steps' = n_steps + 1
       /\ history' = Append(history,
            [step |-> n_steps, out |-> out, res |-> res])
       /\ UNCHANGED trajectory_log

\* Mutant: the error handler finalizes the step too.
BugFinalizedTwice(out, res, withState, memory) ==
  LET item == [step |-> n_steps, memory |-> memory, out |-> out]
  IN  /\ n_steps' = n_steps + 1
      /\ history' = Append(history,
           [step |-> n_steps, out |-> out, res |-> res])
      /\ trajectory_log' = trajectory_log \o
           (IF res = ErrorResult THEN <<item, item>> ELSE <<item>>)

\* _finalize: nothing at all without a result; otherwise the step is counted,
\* and recorded when there is a browser state to record.
finalize(out, res, withState, memory) ==
  IF res = NoResult
  THEN UNCHANGED <<records, n_steps>>
  ELSE /\ n_steps' = n_steps + 1
       /\ IF withState
          THEN /\ history' = Append(history,
                    [step |-> n_steps, out |-> out, res |-> res])
               /\ trajectory_log' = Append(trajectory_log,
                    [step |-> n_steps, memory |-> memory, out |-> out])
          ELSE UNCHANGED records

\* step() returns: the phases left out, res and fails in the agent's state.
step_ends(out, res, fails, withState, memory) ==
  /\ last_model_output' = out /\ last_result' = res
  /\ consecutive_failures' = fails
  /\ finalize(out, res, withState, memory)
  /\ pc' = "after" /\ results' = << >>
  /\ UNCHANGED <<flags, outcome, done_only, agent_history_items, run_base>>

\* _handle_step_error for an InterruptedError and for any other exception.
step_interrupted(out, withState) ==
  step_ends(out, last_result, consecutive_failures, withState, FALSE)
step_fails(out, withState) ==
  step_ends(out, ErrorResult, consecutive_failures + 1, withState, FALSE)

\* run() returns or raises, close() included.
run_ends(how) ==
  /\ pc' = "idle" /\ outcome' = how
  /\ UNCHANGED <<n_steps, consecutive_failures, last_result, last_model_output,
                 flags, stopped, interrupts, done_only, trajectory_log,
                 agent_history_items, results, llm_calls, run_base>>

-----------------------------------------------------------------------------
\* run() is called for the task at hand.
Run ==
  /\ pc = "idle" /\ outcome = "none"
  /\ pc' = "starting" /\ run_base' = llm_calls
  /\ UNCHANGED <<agentState, flags, stopped, interrupts, done_only, records,
                 agent_history_items, results, outcome, llm_calls>>

StartupFails ==
  /\ pc = "starting"
  /\ run_ends("startup_error") /\ UNCHANGED history

WithInitialActions == InitialActions /\ ~follow_up_task

\* multi_act is interrupted before its first action: its except block reads
\* action_name, which is not bound yet, and the UnboundLocalError it raises is
\* not the InterruptedError run() expects from _execute_initial_actions.
InitialActionsInterrupted ==
  /\ pc = "starting" /\ WithInitialActions
  /\ check_raises
  /\ pc' = "idle" /\ outcome' = "unbound_local_error"
  /\ UNCHANGED <<agentState, flags, done_only, records, agent_history_items,
                 results, llm_calls, run_base>>

Started ==
  /\ pc = "starting"
  /\ \/ WithInitialActions /\ check_passes /\ pc' = "initial"
     \/ ~WithInitialActions /\ pc' = "top" /\ UNCHANGED <<stopped, interrupts>>
  /\ UNCHANGED <<agentState, flags, done_only, records, agent_history_items,
                 results, outcome, llm_calls, run_base>>

\* _execute_initial_actions, with the one action the URL of a task makes; it
\* is recorded as step 0 and an exception of the action leaves run().
InitialActionEnds ==
  /\ pc = "initial"
  /\ \E kind \in {"ok", "error"} :
       LET res == Result(kind, 0, TRUE) IN
       /\ last_result' = res
       /\ history' = Append(history, [step |-> 0, out |-> 0, res |-> res])
  /\ pc' = "top"
  /\ UNCHANGED <<n_steps, consecutive_failures, last_model_output, flags,
                 stopped, interrupts, done_only, trajectory_log,
                 agent_history_items, results, outcome, llm_calls, run_base>>

InitialActionRaises ==
  /\ pc = "initial"
  /\ run_ends("startup_error") /\ UNCHANGED history

-----------------------------------------------------------------------------
\* The head of the while loop.
BudgetSpent ==
  /\ pc = "top" /\ n_steps > MaxSteps
  /\ history' = Append(history, [step |-> 0, out |-> 0, res |-> ErrorResult])
  /\ run_ends("max_steps")

WaitForResume ==
  /\ pc = "top" /\ n_steps <= MaxSteps /\ paused
  /\ pc' = "pause_wait"
  /\ UNCHANGED <<agentState, flags, stopped, interrupts, done_only, records,
                 agent_history_items, results, outcome, llm_calls, run_base>>

\* asyncio.Event.wait returns at once when the event is set (stop() after
\* pause()); a waiter is woken by Resume and Stop.
EventAlreadySet ==
  /\ pc = "pause_wait" /\ pause_event
  /\ pc' = "woken"
  /\ UNCHANGED <<agentState, flags, stopped, interrupts, done_only, records,
                 agent_history_items, results, outcome, llm_calls, run_base>>

PastPause == \/ pc = "top" /\ n_steps <= MaxSteps /\ ~paused
             \/ pc = "woken"

TooManyFailures ==
  /\ PastPause /\ consecutive_failures >= FailureLimit
  /\ run_ends("failures") /\ UNCHANGED history

StopSeen ==
  /\ PastPause /\ consecutive_failures < FailureLimit /\ stopped
  /\ run_ends("stopped") /\ UNCHANGED history

\* Mutants of StepStarts: one failure too many; stop is not looked at.
BugOneFailureMore ==
  /\ PastPause /\ consecutive_failures <= FailureLimit /\ ~stopped
  /\ pc' = "browser"
  /\ UNCHANGED <<agentState, flags, stopped, interrupts, done_only, records,
                 agent_history_items, results, outcome, llm_calls, run_base>>
BugStopIgnored ==
  /\ PastPause /\ consecutive_failures < FailureLimit
  /\ pc' = "browser"
  /\ UNCHANGED <<agentState, flags, stopped, interrupts, done_only, records,
                 agent_history_items, results, outcome, llm_calls, run_base>>

StepStarts ==
  /\ PastPause /\ consecutive_failures < FailureLimit /\ ~stopped
  /\ pc' = "browser"
  /\ UNCHANGED <<agentState, flags, stopped, interrupts, done_only, records,
                 agent_history_items, results, outcome, llm_calls, run_base>>

-----------------------------------------------------------------------------
\* _update_agent_history_description: what the next prompt says of the step
\* before this one.
history_description ==
  LET item(kind) == [kind |-> kind, out |-> last_model_output,
                     res |-> last_result]
  IN  IF last_model_output # 0
      THEN Append(agent_history_items, item("step"))
      ELSE IF n_steps - 1 > 0
      THEN Append(agent_history_items, item("format_error"))
      ELSE IF last_result # NoResult
      THEN Append(agent_history_items, item("initial"))
      ELSE agent_history_items

\* _update_action_models_for_page builds AgentOutput anew from the actions of
\* the page, whatever it was restricted to; the mutant keeps it.
BugModelsKept(restricted) == restricted
models_for_page(restricted) == FALSE

\* Mutant: on the last step the LLM is not told the last result.
BugLastStepNotTold(restricted) ==
  /\ agent_history_items' =
       IF is_last_step THEN agent_history_items ELSE history_description
  /\ done_only' = \/ restricted
                  \/ is_last_step
                  \/ FinalResponse /\ consecutive_failures >= MaxFailures
  /\ pc' = "llm"

\* create_state_messages, then _force_done_after_last_step and
\* _force_done_after_failure, which only ever restrict; then the LLM is called.
prompt_is_built(restricted) ==
  /\ agent_history_items' = history_description
  /\ done_only' = \/ restricted
                  \/ is_last_step
                  \/ FinalResponse /\ consecutive_failures >= MaxFailures
  /\ pc' = "llm"

BrowserStateFails ==
  /\ pc = "browser"
  /\ step_fails(last_model_output, FALSE)
  /\ UNCHANGED <<stopped, interrupts, llm_calls>>

InterruptedBeforePrompt ==
  /\ pc = "browser"
  /\ check_raises
  /\ step_interrupted(last_model_output, FALSE)
  /\ UNCHANGED llm_calls

BrowserStateReady ==
  /\ pc = "browser"
  /\ check_passes
  /\ IF Personalization
     THEN /\ done_only' = models_for_page(done_only)
          /\ pc' = "memory" /\ UNCHANGED agent_history_items
     ELSE prompt_is_built(models_for_page(done_only))
  /\ UNCHANGED <<agentState, flags, records, results, outcome, llm_calls,
                 run_base>>

\* Mutant: a memory step returns without being finalized.
BugMemoryReturnsEarly ==
  /\ pc = "memory"
  /\ pc' = "after"
  /\ UNCHANGED <<agentState, flags, stopped, interrupts, done_only, records,
                 agent_history_items, results, outcome, llm_calls, run_base>>

\* process_step found memories: the whole step is a memory step.
MemoryRetrieved ==
  /\ pc = "memory"
  /\ step_ends(0, MemoryResult, consecutive_failures, TRUE, TRUE)
  /\ UNCHANGED <<stopped, interrupts, llm_calls>>

NoMemoryRetrieved ==
  /\ pc = "memory"
  /\ prompt_is_built(done_only)
  /\ UNCHANGED <<agentState, flags, stopped, interrupts, records, results,
                 outcome, llm_calls, run_base>>

\* Mutant: a failed call goes on with the output of the step before.
BugLLMFailureIgnored ==
  /\ pc = "llm" /\ last_model_output # 0
  /\ pc' = "act_check"
  /\ UNCHANGED <<agentState, flags, stopped, interrupts, done_only, records,
                 agent_history_items, results, outcome, llm_calls, run_base>>

LLMFails ==
  /\ pc = "llm"
  /\ step_fails(last_model_output, TRUE)
  /\ UNCHANGED <<stopped, interrupts, llm_calls>>

\* last_model_output is set before the flags are looked at.
LLMReturns ==
  /\ pc = "llm"
  /\ llm_calls' = llm_calls + 1
  /\ \/ /\ check_raises
        /\ step_interrupted(llm_calls + 1, TRUE)
     \/ /\ check_passes
        /\ last_model_output' = llm_calls + 1 /\ pc' = "post_llm"
        /\ UNCHANGED <<n_steps, consecutive_failures, last_result, flags,
                       done_only, records, agent_history_items, results,
                       outcome, run_base>>

\* _handle_post_llm_processing awaits the new-step callback, which may raise.
PostLLMFails ==
  /\ pc = "post_llm" /\ Callbacks
  /\ step_fails(last_model_output, TRUE)
  /\ UNCHANGED <<stopped, interrupts, llm_calls>>

PostLLMDone ==
  /\ pc = "post_llm"
  /\ \/ /\ check_raises
        /\ step_interrupted(last_model_output, TRUE)
     \/ /\ check_passes
        /\ pc' = "act_check"
        /\ UNCHANGED <<agentState, flags, done_only, records,
                       agent_history_items, results, outcome, run_base>>
  /\ UNCHANGED llm_calls

-----------------------------------------------------------------------------
\* multi_act asks again before its first action.  As in the initial actions,
\* an interruption here surfaces as an UnboundLocalError, an ordinary failure.
FirstActionChecked ==
  /\ pc = "act_check"
  /\ \/ /\ check_raises
        /\ step_fails(last_model_output, TRUE)
     \/ /\ check_passes
        /\ pc' = "acting"
        /\ UNCHANGED <<agentState, flags, done_only, records,
                       agent_history_items, results, outcome, run_base>>
  /\ UNCHANGED llm_calls

\* Mutant: a success takes back one failure instead of all.
BugFailuresDecay(res) ==
  IF res.kind = "error" /\ res.single THEN consecutive_failures + 1
                                      ELSE consecutive_failures - 1

\* A single failed result counts, anything else resets: _post_process.
failures_after(res) ==
  IF res.kind = "error" /\ res.single THEN consecutive_failures + 1 ELSE 0

\* The last action of the output: it failed, is done, or nothing follows but a
\* done action, which multi_act only accepts alone.  The list with its result
\* is the result of the step.
ActionsEnd ==
  /\ pc = "acting"
  /\ \E kind \in {"ok", "error", "done"} :
       LET res == Result(kind, last_model_output, results = << >>) IN
       /\ done_only => kind = "done"
       /\ kind = "done" => results = << >>
       /\ step_ends(last_model_output, res, failures_after(res), TRUE, FALSE)
  /\ UNCHANGED <<stopped, interrupts, llm_calls>>

\* An action raises: the error takes the place of the results of the others.
ActionRaises ==
  /\ pc = "acting"
  /\ step_fails(last_model_output, TRUE)
  /\ UNCHANGED <<stopped, interrupts, llm_calls>>

MoreActions ==
  /\ pc = "acting" /\ ~done_only /\ Len(results) + 1 < MaxActions
  /\ results' = Append(results, "ok") /\ pc' = "between"
  /\ UNCHANGED <<agentState, flags, stopped, interrupts, done_only, records,
                 agent_history_items, outcome, llm_calls, run_base>>

\* After the wait between actions; an interruption discards the results, and
\* the agent keeps those of an earlier step.
NextActionChecked ==
  /\ pc = "between"
  /\ \/ /\ check_raises
        /\ step_interrupted(last_model_output, TRUE)
     \/ /\ check_passes
        /\ pc' = "acting"
        /\ UNCHANGED <<agentState, flags, done_only, records,
                       agent_history_items, results, outcome, run_base>>
  /\ UNCHANGED llm_calls

\* asyncio.wait_for cancels step(): the except clause does not catch the
\* CancelledError but the finally block still runs _finalize, with the result
\* the step started from.
StepTimesOut ==
  /\ pc \in InStep /\ (pc = "act_check" => Callbacks)
  /\ finalize(last_model_output, last_result, pc \in WithState, FALSE)
  /\ last_result' = ErrorResult
  /\ consecutive_failures' = consecutive_failures + 1
  /\ pc' = "after" /\ results' = << >>
  /\ UNCHANGED <<last_model_output, flags, stopped, interrupts, done_only,
                 agent_history_items, outcome, llm_calls, run_base>>

\* The end of _execute_step.
TaskDone ==
  /\ pc = "after" /\ is_done
  /\ run_ends("done") /\ UNCHANGED history

NextStep ==
  /\ pc = "after" /\ ~is_done
  /\ pc' = "top"
  /\ UNCHANGED <<agentState, flags, stopped, interrupts, done_only, records,
                 agent_history_items, results, outcome, llm_calls, run_base>>

-----------------------------------------------------------------------------
\* What other tasks may do whenever the run coroutine is suspended.  Only the
\* callbacks make _check_stop_or_pause suspend before the first action.
Suspended == pc = "act_check" => Callbacks

wake == pc' = IF pc = "pause_wait" THEN "woken" ELSE pc

Pause ==
  /\ Suspended /\ (~paused \/ pause_event) /\ pauses < MaxPauses
  /\ paused' = TRUE /\ pause_event' = FALSE /\ pauses' = pauses + 1
  /\ UNCHANGED <<agentState, stopped, follow_up_task, tasks, interrupts,
                 done_only, records, agent_history_items, pc, results, outcome,
                 llm_calls, run_base>>

Resume ==
  /\ Suspended /\ (paused \/ ~pause_event)
  /\ paused' = FALSE /\ pause_event' = TRUE /\ wake
  /\ UNCHANGED <<agentState, stopped, follow_up_task, tasks, pauses,
                 interrupts, done_only, records, agent_history_items, results,
                 outcome, llm_calls, run_base>>

Stop ==
  /\ Suspended /\ (~stopped \/ ~pause_event)
  /\ stopped' = TRUE /\ pause_event' = TRUE /\ wake
  /\ UNCHANGED <<agentState, paused, follow_up_task, tasks, pauses,
                 interrupts, done_only, records, agent_history_items, results,
                 outcome, llm_calls, run_base>>

\* A follow-up task for an agent whose run has returned.
AddNewTask ==
  /\ pc = "idle" /\ outcome # "none" /\ tasks < MaxTasks
  /\ tasks' = tasks + 1 /\ outcome' = "none"
  /\ follow_up_task' = TRUE /\ stopped' = FALSE /\ paused' = FALSE
  /\ agent_history_items' = Append(agent_history_items,
        [kind |-> "task", out |-> 0, res |-> NoResult])
  /\ UNCHANGED <<agentState, pause_event, pauses, interrupts, done_only,
                 records, pc, results, llm_calls, run_base>>

-----------------------------------------------------------------------------
Startup == \/ StartupFails \/ InitialActionsInterrupted \/ Started
           \/ InitialActionEnds \/ InitialActionRaises

LoopHead == \/ BudgetSpent \/ WaitForResume \/ EventAlreadySet
            \/ TooManyFailures \/ StopSeen \/ StepStarts
            \/ TaskDone \/ NextStep

Step == \/ BrowserStateFails \/ InterruptedBeforePrompt \/ BrowserStateReady
        \/ MemoryRetrieved \/ NoMemoryRetrieved
        \/ LLMFails \/ LLMReturns \/ PostLLMFails \/ PostLLMDone
        \/ FirstActionChecked \/ ActionsEnd \/ ActionRaises \/ MoreActions
        \/ NextActionChecked \/ StepTimesOut

Progress == Startup \/ LoopHead \/ Step
Others == Run \/ AddNewTask \/ Pause \/ Resume \/ Stop
Next == Progress \/ Others

Spec == Init /\ [][Next]_vars

\* Every await of a run ends: step() is bounded by step_timeout, the start of
\* the browser by the event timeouts, the loop head awaits nothing but the
\* pause event.  Nobody has to resume, stop or start the agent.
FairSpec == Spec /\ WF_vars(Progress)

-----------------------------------------------------------------------------
\* Every variable stays in its type.
TypeOK ==
  /\ n_steps \in Nat /\ consecutive_failures \in Nat
  /\ last_result \in Results /\ last_model_output \in Nat
  /\ paused \in BOOLEAN /\ stopped \in BOOLEAN /\ follow_up_task \in BOOLEAN
  /\ pause_event \in BOOLEAN /\ done_only \in BOOLEAN
  /\ history \in Seq(HistoryItems) /\ trajectory_log \in Seq(TrajectoryItems)
  /\ agent_history_items \in Seq(AgentItems)
  /\ pc \in PCs /\ results \in Seq(ResultKinds) /\ outcome \in Outcomes
  /\ llm_calls \in Nat /\ run_base \in Nat
  /\ tasks \in Nat /\ pauses \in Nat /\ interrupts \in Nat

\* The failure count never passes the limit run() stops at, although three
\* places raise it (a failed step, a single failed action, a step timeout) and
\* only the loop head compares it.
FailureBound == consecutive_failures <= FailureLimit

\* The steps of the recorded trajectory are numbered without repetition, in
\* order, and within the budget, whatever was interrupted, timed out or was
\* followed up by another task.
StepsRecordedInOrder ==
  \A i \in DOMAIN trajectory_log :
    /\ trajectory_log[i].step \in 1 .. MaxSteps
    /\ trajectory_log[i].step < n_steps
    /\ \A j \in 1 .. i - 1 : trajectory_log[j].step < trajectory_log[i].step

\* From the call of the LLM to the last action of its answer, the answer is
\* confined to the done action exactly on the last step of the budget and on
\* the attempt after the last allowed failure.  Nothing but the next page's
\* action models takes a restriction back: one of an attempt that succeeded
\* does not reach the steps of a follow-up task.
DoneOnlyExact ==
  pc \in WithState =>
    (done_only <=> \/ is_last_step
                   \/ FinalResponse /\ consecutive_failures = MaxFailures)

\* Once a done action has run, the run takes no further step and ends done,
\* however many flags were raised while the action was running.
DoneEndsRun ==
  last_result.kind = "done" /\ last_result.out > run_base =>
    \/ pc = "after"
    \/ pc = "idle" /\ outcome \in {"done", "none"}

\* The actions being performed are those of the LLM's latest answer, given in
\* this very step: an answer left over from an earlier step is never acted on.
ActsOnFreshOutput ==
  pc \in {"act_check", "acting", "between"} =>
    /\ last_model_output = llm_calls /\ llm_calls > run_base
    /\ \A i \in DOMAIN history : history[i].out # last_model_output

\* Where results of actions that have been performed are given up.  Those of a
\* finished step that no prompt has told yet: only before the next prompt is
\* built, to a memory step, a failure or a timeout.  Those multi_act has
\* gathered so far: only while it performs the rest, to an error in their place
\* or to an interruption, after which the agent keeps an earlier step's.
ResultsGivenUp ==
  [][/\ /\ last_result.out # 0 /\ last_result' # last_result
        /\ \A i \in DOMAIN agent_history_items :
             agent_history_items[i].res # last_result
        => pc \in Preparing
     /\ /\ results # << >> /\ results' = << >>
        /\ last_result'.out # llm_calls
        => \/ pc \in {"acting", "between"} /\ last_result' = ErrorResult
           \/ pc = "between" /\ last_result' = last_result
              /\ (paused \/ stopped \/ interrupts' # interrupts)]_vars

\* A step is recorded with the actions of an earlier one only when it never
\* got an answer from the LLM.
RepeatedOnlyWithoutAnswer ==
  [][trajectory_log' # trajectory_log =>
       LET new == trajectory_log'[Len(trajectory_log')]
       IN  \A i \in 1 .. Len(trajectory_log') - 1 :
             trajectory_log'[i].out = new.out /\ new.out # 0 => pc = "llm"]_vars

\* A step ends without any result: interrupted before the agent has one, it is
\* neither a failure nor counted.
EndsUncounted == pc \in InStep /\ pc' = "after" /\ last_result' = NoResult

\* A run ends unless the user leaves the agent paused or interrupts it for ever
\* in its first step (a status callback that keeps asking for it, or one pause
\* after the other), which run() then repeats: no mix of failures, timeouts,
\* memory steps and later interruptions keeps the loop going.
RunEnds == \/ []<>(pc = "idle") \/ <>[](pc = "pause_wait")
           \/ []<><<EndsUncounted>>_vars

\* stop() ends the run, a paused one too, unless pause() is called later.
StopEndsRunUnlessPaused ==
  stopped /\ pause_event ~> pc = "idle" \/ ~pause_event

-----------------------------------------------------------------------------
(* What a comment of the repository says and the code does not do.          *)

\* service.py, run(): an InterruptedError of the initial actions is ignored.
InterruptNeverCrashesRun == outcome # "unbound_local_error"
=============================================================================
