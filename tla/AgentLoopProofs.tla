--------------------------- MODULE AgentLoopProofs ---------------------------
(***************************************************************************)
(* Invariants of the agent's run loop, proved for every value of its       *)
(* constants: any step budget and failure limit, any number of tasks,      *)
(* pauses and interruptions.                                               *)
(***************************************************************************)
EXTENDS AgentLoop, TLAPS

\* The loop head lets a step start only below the failure limit and within the
\* budget, and a step raises the count at most once: while a step is under way
\* its room is still there.
Room ==
  /\ FailureBound
  /\ pc \in InStep => consecutive_failures < FailureLimit
  /\ pc \in InStep \cup {"pause_wait", "woken"} => n_steps <= MaxSteps

\* Model outputs are numbered in the order of the calls.  From the moment the
\* LLM has answered to the end of the step, its output is the newest and in no
\* record yet.
Answered == {"post_llm", "act_check", "acting", "between"}
Fresh ==
  /\ run_base <= llm_calls /\ last_model_output <= llm_calls
  /\ \A i \in DOMAIN history : history[i].out <= llm_calls
  /\ pc \in Answered =>
       /\ last_model_output = llm_calls /\ llm_calls > run_base
       /\ \A i \in DOMAIN history : history[i].out # llm_calls

\* No restriction is left while process_step looks for memories: what the prompt
\* is built on is what the models of the page allow.
Restricted == DoneOnlyExact /\ (pc = "memory" => ~done_only)

IInv == TypeOK /\ Room /\ n_steps >= 1 /\ StepsRecordedInOrder
        /\ Restricted /\ Fresh

-----------------------------------------------------------------------------
\* What Append does, in the form the records are reasoned about.
LEMMA AppendFacts ==
  ASSUME NEW S, NEW s \in Seq(S), NEW e \in S
  PROVE  /\ Append(s, e) \in Seq(S)
         /\ DOMAIN Append(s, e) = 1 .. Len(s) + 1 /\ DOMAIN s = 1 .. Len(s)
         /\ \A i \in DOMAIN s : Append(s, e)[i] = s[i]
         /\ Append(s, e)[Len(s) + 1] = e
OBVIOUS

LEMMA LimitType == FailureLimit \in Nat /\ MaxFailures <= FailureLimit
                   /\ (FinalResponse => FailureLimit = MaxFailures + 1)
BY LoopAssumption DEF FailureLimit

LEMMA InitInv == Init => IInv
<1> SUFFICES ASSUME Init PROVE IInv
  OBVIOUS
<1> USE DEF Init
<1>1. TypeOK
  <2>1. NoResult \in Results
    BY DEF Results, ResultKinds, NoResult, Result
  <2>2. \A S : << >> \in Seq(S)
    OBVIOUS
  <2> QED
    BY <2>1, <2>2 DEF TypeOK, Outcomes, PCs
<1>2. Room
  BY LimitType DEF Room, FailureBound, InStep, Preparing, WithState
<1>3. StepsRecordedInOrder /\ Restricted /\ n_steps >= 1
  BY DEF StepsRecordedInOrder, Restricted, DoneOnlyExact, WithState
<1>4. Fresh
  BY DEF Fresh, Answered
<1> QED
  BY <1>1, <1>2, <1>3, <1>4 DEF IInv

\* The end of a step, for every action that ends one: what is recorded, and
\* what is left to show of the types and of the count of failures.
Ended(out, res, fails, withState, memory) ==
  /\ out \in Nat /\ res \in Results /\ fails \in Nat
  /\ withState \in BOOLEAN /\ memory \in BOOLEAN
  /\ fails <= consecutive_failures + 1
  /\ llm_calls' \in Nat /\ llm_calls' >= llm_calls /\ out <= llm_calls'
  /\ last_model_output' = out
  /\ consecutive_failures' = fails /\ last_result' \in Results
  /\ finalize(out, res, withState, memory) /\ pc' = "after" /\ results' = << >>
  /\ stopped' \in BOOLEAN /\ interrupts' \in Nat
  /\ UNCHANGED <<flags, outcome, done_only, agent_history_items, run_base>>

LEMMA StepEnds ==
  ASSUME IInv, pc \in InStep,
         NEW out, NEW res, NEW fails, NEW withState, NEW memory,
         Ended(out, res, fails, withState, memory)
  PROVE  IInv'
<1> USE DEF IInv, flags, Ended
<1> DEFINE h == [step |-> n_steps, out |-> out, res |-> res]
           t == [step |-> n_steps, memory |-> memory, out |-> out]
<1>a. h \in HistoryItems /\ t \in TrajectoryItems
  BY DEF TypeOK, HistoryItems, TrajectoryItems
<1>b. \/ /\ n_steps' = n_steps \/ n_steps' = n_steps + 1
         /\ history' = history /\ trajectory_log' = trajectory_log
      \/ /\ history' = Append(history, h) /\ n_steps' = n_steps + 1
         /\ trajectory_log' = Append(trajectory_log, t)
  <2>1. CASE res = NoResult
    BY <2>1 DEF finalize, records
  <2>2. CASE res # NoResult /\ withState
    BY <2>2 DEF finalize, records
  <2>3. CASE res # NoResult /\ ~withState
    BY <2>3 DEF finalize, records
  <2> QED
    BY <2>1, <2>2, <2>3
<1> HIDE DEF h, t
<1>1. /\ n_steps' \in Nat /\ n_steps' >= n_steps
      /\ history' \in Seq(HistoryItems) /\ trajectory_log' \in Seq(TrajectoryItems)
  <2>1. n_steps \in Nat
    BY DEF TypeOK
  <2>2. history \in Seq(HistoryItems) /\ trajectory_log \in Seq(TrajectoryItems)
    BY DEF TypeOK
  <2>3. Append(history, h) \in Seq(HistoryItems)
    BY <1>a, <2>2
  <2>4. Append(trajectory_log, t) \in Seq(TrajectoryItems)
    BY <1>a, <2>2
  <2>5. n_steps' \in Nat /\ n_steps' >= n_steps
    BY <1>b, <2>1
  <2>6. history' \in Seq(HistoryItems) /\ trajectory_log' \in Seq(TrajectoryItems)
    BY <1>b, <2>2, <2>3, <2>4, Zenon
  <2> QED
    BY <2>5, <2>6
<1>2. TypeOK'
  <2>1. results' \in Seq(ResultKinds)
    OBVIOUS
  <2> QED
    BY <1>1, <2>1 DEF TypeOK, PCs, InStep
<1>3. Room'
  BY LimitType DEF Room, FailureBound, TypeOK, InStep, Preparing, WithState
<1>4. n_steps' >= 1
  BY <1>1 DEF TypeOK
<1>5. StepsRecordedInOrder'
  <2>1. n_steps \in 1 .. MaxSteps
    BY LoopAssumption DEF Room, TypeOK
  <2>2. CASE trajectory_log' = trajectory_log
    <3>1. \A i \in DOMAIN trajectory_log :
            trajectory_log[i] \in TrajectoryItems /\ trajectory_log[i].step < n_steps
      BY DEF TypeOK, StepsRecordedInOrder
    <3>2. StepsRecordedInOrder
      OBVIOUS
    <3> HIDE DEF Ended, IInv
    <3>3. \A i \in DOMAIN trajectory_log : trajectory_log[i].step < n_steps'
      BY <1>1, <2>1, <3>1 DEF TrajectoryItems
    <3> QED
      BY <2>2, <3>2, <3>3 DEF StepsRecordedInOrder
  <2>3. CASE /\ n_steps' = n_steps + 1
             /\ trajectory_log' = Append(trajectory_log, t)
    <3>1. t.step = n_steps
      BY DEF t
    <3>2. /\ DOMAIN trajectory_log' = 1 .. Len(trajectory_log) + 1
          /\ DOMAIN trajectory_log = 1 .. Len(trajectory_log)
          /\ \A i \in DOMAIN trajectory_log :
               trajectory_log'[i] = trajectory_log[i]
          /\ trajectory_log'[Len(trajectory_log) + 1] = t
          /\ Len(trajectory_log) \in Nat
      BY <1>a, <2>3, AppendFacts DEF TypeOK
    <3>3. \A i \in DOMAIN trajectory_log : trajectory_log[i].step \in Nat
      <4>1. \A i \in DOMAIN trajectory_log : trajectory_log[i] \in TrajectoryItems
        BY DEF TypeOK
      <4> QED
        BY <4>1 DEF TrajectoryItems
    <3>4. \A i \in DOMAIN trajectory_log :
            /\ trajectory_log[i].step \in 1 .. MaxSteps
            /\ trajectory_log[i].step < n_steps
            /\ \A k \in 1 .. i - 1 :
                 trajectory_log[k].step < trajectory_log[i].step
      BY DEF StepsRecordedInOrder
    <3> HIDE DEF Ended, IInv
    <3>5. \A i \in DOMAIN trajectory_log' :
            \/ i \in DOMAIN trajectory_log
            \/ i = Len(trajectory_log) + 1 /\ trajectory_log'[i].step = n_steps
      BY <3>1, <3>2
    <3>6. \A i \in DOMAIN trajectory_log' :
            trajectory_log'[i].step \in 1 .. MaxSteps /\ trajectory_log'[i].step < n_steps'
      BY <2>1, <2>3, <3>2, <3>3, <3>4, <3>5
    <3>7. \A i \in DOMAIN trajectory_log' : \A k \in 1 .. i - 1 :
            trajectory_log'[k].step < trajectory_log'[i].step
      BY <3>2, <3>3, <3>4, <3>5
    <3> QED
      BY <3>6, <3>7 DEF StepsRecordedInOrder
  <2> QED
    BY <1>b, <2>2, <2>3
<1>6. Restricted'
  BY DEF Restricted, DoneOnlyExact, WithState
<1>7. Fresh'
  <2>1. \A i \in DOMAIN history' : history'[i].out <= llm_calls'
    <3>1. \A i \in DOMAIN history : history[i].out <= llm_calls'
      <4>1. \A i \in DOMAIN history : history[i] \in HistoryItems
        BY DEF TypeOK
      <4> QED
        BY <4>1 DEF Fresh, TypeOK, HistoryItems
    <3>2. CASE history' = history
      BY <3>1, <3>2
    <3>3. CASE history' = Append(history, h)
      <4>1. h.out <= llm_calls'
        BY DEF h
      <4> QED
        BY <1>a, <3>1, <3>3, <4>1, AppendFacts DEF TypeOK
    <3> QED
      BY <1>b, <3>2, <3>3
  <2> QED
    BY <2>1 DEF Fresh, Answered, TypeOK
<1> QED
  BY <1>2, <1>3, <1>4, <1>5, <1>6, <1>7

-----------------------------------------------------------------------------
LEMMA Checks == TypeOK /\ (check_passes \/ check_raises) =>
                  stopped' \in BOOLEAN /\ interrupts' \in Nat
<1> SUFFICES ASSUME TypeOK, check_passes \/ check_raises
             PROVE  stopped' \in BOOLEAN /\ interrupts' \in Nat
  OBVIOUS
<1>1. stopped \in BOOLEAN /\ interrupts \in Nat
  BY DEF TypeOK
<1>2. \/ stopped' = stopped /\ interrupts' = interrupts
      \/ /\ interrupts' = interrupts \/ interrupts' = interrupts + 1
         /\ stopped' = stopped \/ stopped' = TRUE
  <2>1. CASE check_passes
    BY <2>1 DEF check_passes
  <2>2. CASE check_raises
    BY <2>2 DEF check_raises
  <2> QED
    BY <2>1, <2>2
<1>3. stopped' \in BOOLEAN
  BY <1>1, <1>2, Zenon
<1>4. interrupts' \in Nat
  BY <1>1, <1>2
<1> QED
  BY <1>3, <1>4

LEMMA ResultTypes ==
  /\ ErrorResult \in Results /\ MemoryResult \in Results
  /\ \A kind \in ResultKinds, out \in Nat, single \in BOOLEAN :
       Result(kind, out, single) \in Results
BY DEF Results, ResultKinds, ErrorResult, MemoryResult, Result

\* The two ways _handle_step_error leaves the agent.
LEMMA FailsInv ==
  ASSUME IInv, pc \in InStep, NEW withState \in BOOLEAN,
         llm_calls' = llm_calls, stopped' \in BOOLEAN, interrupts' \in Nat,
         step_fails(last_model_output, withState)
  PROVE  IInv'
<1>1. /\ last_model_output \in Nat /\ consecutive_failures + 1 \in Nat
      /\ llm_calls \in Nat /\ last_model_output <= llm_calls
      /\ consecutive_failures + 1 <= consecutive_failures + 1
  BY DEF IInv, TypeOK, Fresh
<1>2. Ended(last_model_output, ErrorResult, consecutive_failures + 1,
            withState, FALSE)
  <2>1. /\ FALSE \in BOOLEAN /\ llm_calls' \in Nat /\ llm_calls' >= llm_calls
        /\ last_model_output <= llm_calls'
    BY <1>1
  <2>2. last_result' = ErrorResult
    BY DEF step_fails, step_ends
  <2> QED
    BY <1>1, <2>1, <2>2, ResultTypes, Zenon DEF Ended, step_fails, step_ends
<1> QED
  BY <1>2, StepEnds, Zenon

LEMMA InterruptedInv ==
  ASSUME IInv, pc \in InStep, NEW withState \in BOOLEAN, NEW out \in Nat,
         llm_calls' \in Nat, llm_calls' >= llm_calls, out <= llm_calls',
         stopped' \in BOOLEAN, interrupts' \in Nat,
         step_interrupted(out, withState)
  PROVE  IInv'
<1>1. /\ last_result \in Results /\ consecutive_failures \in Nat
      /\ consecutive_failures <= consecutive_failures + 1
  BY DEF IInv, TypeOK
<1>2. Ended(out, last_result, consecutive_failures, withState, FALSE)
  BY <1>1 DEF Ended, step_interrupted, step_ends
<1> QED
  BY <1>2, StepEnds, Zenon

\* The actions that end a step.
EndsStep ==
  \/ BrowserStateFails \/ InterruptedBeforePrompt \/ MemoryRetrieved \/ LLMFails
  \/ LLMReturns /\ check_raises /\ step_interrupted(llm_calls + 1, TRUE)
  \/ PostLLMFails
  \/ PostLLMDone /\ check_raises /\ step_interrupted(last_model_output, TRUE)
  \/ FirstActionChecked /\ check_raises /\ step_fails(last_model_output, TRUE)
  \/ ActionsEnd \/ ActionRaises
  \/ NextActionChecked /\ check_raises /\ step_interrupted(last_model_output, TRUE)
  \/ StepTimesOut

LEMMA EndsStepInv == IInv /\ EndsStep => IInv'
<1> SUFFICES ASSUME IInv, EndsStep PROVE IInv'
  OBVIOUS
<1>t. /\ TypeOK /\ consecutive_failures \in Nat /\ last_model_output \in Nat
      /\ last_result \in Results /\ llm_calls \in Nat
      /\ stopped \in BOOLEAN /\ interrupts \in Nat
      /\ last_model_output <= llm_calls
  BY DEF IInv, TypeOK, Fresh
<1>n. llm_calls + 1 \in Nat /\ llm_calls + 1 >= llm_calls /\ llm_calls >= llm_calls
      /\ llm_calls + 1 <= llm_calls + 1
  BY <1>t
<1>p. \A p \in InStep : pc = p => pc \in InStep
  OBVIOUS
<1>b. TRUE \in BOOLEAN /\ FALSE \in BOOLEAN
  OBVIOUS
<1> USE DEF InStep, Preparing, WithState
<1>1. CASE BrowserStateFails
  BY <1>1, <1>t, <1>b, FailsInv DEF BrowserStateFails
<1>2. CASE InterruptedBeforePrompt
  BY <1>2, <1>t, <1>n, <1>b, Checks, InterruptedInv DEF InterruptedBeforePrompt
<1>3. CASE MemoryRetrieved
  <2>1. pc \in InStep /\ llm_calls' \in Nat /\ llm_calls' >= llm_calls /\ 0 <= llm_calls'
        /\ consecutive_failures <= consecutive_failures + 1
        /\ stopped' \in BOOLEAN /\ interrupts' \in Nat /\ 0 \in Nat
    BY <1>3, <1>t DEF MemoryRetrieved
  <2>2. step_ends(0, MemoryResult, consecutive_failures, TRUE, TRUE)
    BY <1>3 DEF MemoryRetrieved
  <2>3. Ended(0, MemoryResult, consecutive_failures, TRUE, TRUE)
    <3>1. last_result' = MemoryResult
      BY <2>2 DEF step_ends
    <3> QED
      BY <1>t, <1>b, <2>1, <2>2, <3>1, ResultTypes, Zenon DEF Ended, step_ends
  <2> QED
    BY <2>1, <2>3, StepEnds, Zenon
<1>4. CASE LLMFails
  BY <1>4, <1>t, <1>b, FailsInv DEF LLMFails
<1>5. CASE LLMReturns /\ check_raises /\ step_interrupted(llm_calls + 1, TRUE)
  BY <1>5, <1>t, <1>n, <1>b, Checks, InterruptedInv DEF LLMReturns
<1>6. CASE PostLLMFails
  BY <1>6, <1>t, <1>b, FailsInv DEF PostLLMFails
<1>7. CASE /\ PostLLMDone /\ check_raises
           /\ step_interrupted(last_model_output, TRUE)
  BY <1>7, <1>t, <1>n, <1>b, Checks, InterruptedInv DEF PostLLMDone
<1>8. CASE /\ FirstActionChecked /\ check_raises
           /\ step_fails(last_model_output, TRUE)
  BY <1>8, <1>t, <1>b, Checks, FailsInv DEF FirstActionChecked
<1>9. CASE ActionsEnd
  <2>1. PICK kind \in {"ok", "error", "done"} :
          LET res == Result(kind, last_model_output, results = << >>)
          IN  step_ends(last_model_output, res, failures_after(res), TRUE, FALSE)
    BY <1>9 DEF ActionsEnd
  <2> DEFINE res == Result(kind, last_model_output, results = << >>)
  <2>2. /\ failures_after(res) \in Nat
        /\ failures_after(res) <= consecutive_failures + 1
    BY <1>t DEF failures_after
  <2>3. res \in Results
    BY <1>t, ResultTypes DEF ResultKinds
  <2>4. /\ pc \in InStep /\ llm_calls' \in Nat /\ llm_calls' >= llm_calls
        /\ last_model_output <= llm_calls'
        /\ stopped' \in BOOLEAN /\ interrupts' \in Nat
    BY <1>9, <1>t DEF ActionsEnd
  <2> HIDE DEF res
  <2>5. step_ends(last_model_output, res, failures_after(res), TRUE, FALSE)
    BY <2>1 DEF res
  <2>6. Ended(last_model_output, res, failures_after(res), TRUE, FALSE)
    <3>1. last_result' \in Results
      BY <2>3, <2>5 DEF step_ends
    <3> QED
      BY <1>t, <1>b, <2>2, <2>3, <2>4, <2>5, <3>1, Zenon DEF Ended, step_ends
  <2> QED
    BY <2>4, <2>6, StepEnds, Zenon
<1>10. CASE ActionRaises
  BY <1>10, <1>t, <1>b, FailsInv DEF ActionRaises
<1>11. CASE /\ NextActionChecked /\ check_raises
            /\ step_interrupted(last_model_output, TRUE)
  BY <1>11, <1>t, <1>n, <1>b, Checks, InterruptedInv DEF NextActionChecked
<1>12. CASE StepTimesOut
  <2>1. /\ pc \in InStep /\ llm_calls' \in Nat /\ llm_calls' >= llm_calls
        /\ last_model_output <= llm_calls' /\ last_model_output' = last_model_output
        /\ consecutive_failures + 1 \in Nat
        /\ consecutive_failures + 1 <= consecutive_failures + 1
        /\ stopped' \in BOOLEAN /\ interrupts' \in Nat
        /\ (pc \in WithState) \in BOOLEAN
    BY <1>12, <1>t DEF StepTimesOut
  <2>2. last_result' \in Results
    BY <1>12, ResultTypes DEF StepTimesOut
  <2>3. Ended(last_model_output, last_result, consecutive_failures + 1,
              pc \in WithState, FALSE)
    BY <1>12, <1>t, <1>b, <2>1, <2>2, Zenon DEF Ended, StepTimesOut, WithState
  <2> QED
    BY <2>1, <2>3, StepEnds, Zenon
<1> QED
  BY <1>1, <1>2, <1>3, <1>4, <1>5, <1>6, <1>7, <1>8, <1>9, <1>10, <1>11, <1>12
  DEF EndsStep

-----------------------------------------------------------------------------
\* The other actions leave the count, the outputs and the records alone: what
\* they owe is the type of what they change and where they move to.
Still == UNCHANGED <<n_steps, consecutive_failures, last_model_output, llm_calls,
                     run_base, history, trajectory_log>>

\* A restriction matters only from the models of the page to the last action.
LEMMA NoRestriction == pc' \notin WithState \cup {"memory"} => Restricted'
BY DEF Restricted, DoneOnlyExact

LEMMA Moves ==
  ASSUME IInv, TypeOK', Still,
         pc' \in InStep => pc \in InStep \/ consecutive_failures < FailureLimit,
         pc' \in InStep \cup {"pause_wait", "woken"} => n_steps <= MaxSteps,
         pc' \in Answered => pc \in Answered,
         \/ Restricted'
         \/ /\ done_only' = done_only
            /\ pc' \in WithState => pc \in WithState
            /\ pc' = "memory" => pc = "memory"
  PROVE  IInv'
<1> USE DEF IInv, Still
<1>1. Room'
  BY DEF Room, FailureBound
<1>2. StepsRecordedInOrder' /\ n_steps' >= 1
  BY DEF StepsRecordedInOrder
<1>3. Restricted'
  BY DEF Restricted, DoneOnlyExact, is_last_step
<1>4. Fresh'
  BY DEF Fresh
<1> QED
  BY <1>1, <1>2, <1>3, <1>4

\* What an action that touches no part of the agent's data keeps of TypeOK.
LEMMA MoveTypes ==
  ASSUME TypeOK, pc' \in PCs, stopped' \in BOOLEAN, interrupts' \in Nat,
         done_only' \in BOOLEAN, results' \in Seq(ResultKinds),
         UNCHANGED <<agentState, flags, records, agent_history_items, outcome,
                     llm_calls, run_base>>
  PROVE  TypeOK'
BY DEF TypeOK, agentState, flags, records

\* The actions that only move the run coroutine on.
MovesOn ==
  \/ WaitForResume \/ EventAlreadySet \/ StepStarts \/ NextStep \/ Started
  \/ MoreActions
  \/ PostLLMDone /\ check_passes /\ pc' = "act_check"
       /\ UNCHANGED <<agentState, flags, done_only, records, agent_history_items,
                      results, outcome, run_base>>
  \/ FirstActionChecked /\ check_passes /\ pc' = "acting"
       /\ UNCHANGED <<agentState, flags, done_only, records, agent_history_items,
                      results, outcome, run_base>>
  \/ NextActionChecked /\ check_passes /\ pc' = "acting"
       /\ UNCHANGED <<agentState, flags, done_only, records, agent_history_items,
                      results, outcome, run_base>>

LEMMA MovesOnInv == IInv /\ MovesOn => IInv'
<1> SUFFICES ASSUME IInv, MovesOn PROVE IInv'
  OBVIOUS
<1>t. /\ TypeOK /\ stopped \in BOOLEAN /\ interrupts \in Nat
      /\ results \in Seq(ResultKinds) /\ done_only \in BOOLEAN
  BY DEF IInv, TypeOK
<1>r. /\ pc \in InStep => consecutive_failures < FailureLimit
      /\ pc \in InStep \cup {"pause_wait", "woken"} => n_steps <= MaxSteps
  BY DEF IInv, Room
<1> USE DEF PCs, InStep, Preparing, WithState, Answered
<1>1. CASE WaitForResume
  <2>1. Still /\ TypeOK'
    BY <1>1, <1>t, MoveTypes DEF WaitForResume, Still, agentState, records
  <2> QED
    BY <1>1, <2>1, Moves DEF WaitForResume
<1>2. CASE EventAlreadySet
  <2>1. Still /\ TypeOK'
    BY <1>2, <1>t, MoveTypes DEF EventAlreadySet, Still, agentState, records
  <2> QED
    BY <1>2, <1>r, <2>1, Moves DEF EventAlreadySet
<1>3. CASE StepStarts
  <2>1. Still /\ TypeOK'
    BY <1>3, <1>t, MoveTypes DEF StepStarts, Still, agentState, records
  <2> QED
    BY <1>3, <1>r, <2>1, Moves DEF StepStarts, PastPause
<1>4. CASE NextStep
  <2>1. Still /\ TypeOK'
    BY <1>4, <1>t, MoveTypes DEF NextStep, Still, agentState, records
  <2> QED
    BY <1>4, <2>1, Moves DEF NextStep
<1>5. CASE Started
  <2>0. stopped' \in BOOLEAN /\ interrupts' \in Nat /\ pc' \in {"initial", "top"}
    BY <1>5, <1>t, Checks DEF Started
  <2>1. Still /\ TypeOK'
    BY <1>5, <1>t, <2>0, MoveTypes DEF Started, Still, agentState, records
  <2> QED
    BY <2>0, <2>1, NoRestriction, Moves
<1>6. CASE MoreActions
  <2>0. results' \in Seq(ResultKinds)
    BY <1>6, <1>t DEF MoreActions, ResultKinds
  <2>1. Still /\ TypeOK'
    BY <1>6, <1>t, <2>0, MoveTypes DEF MoreActions, Still, agentState, records
  <2> QED
    BY <1>6, <1>r, <2>1, Moves DEF MoreActions
<1>7. CASE PostLLMDone /\ check_passes /\ pc' = "act_check"
           /\ UNCHANGED <<agentState, flags, done_only, records,
                          agent_history_items, results, outcome, run_base>>
  <2>0. stopped' \in BOOLEAN /\ interrupts' \in Nat /\ llm_calls' = llm_calls
        /\ pc = "post_llm"
    BY <1>7, <1>t, Checks DEF PostLLMDone
  <2>1. Still /\ TypeOK'
    BY <1>7, <1>t, <2>0, MoveTypes DEF Still, agentState, records
  <2> QED
    BY <1>7, <1>r, <2>0, <2>1, Moves
<1>8. CASE FirstActionChecked /\ check_passes /\ pc' = "acting"
           /\ UNCHANGED <<agentState, flags, done_only, records,
                          agent_history_items, results, outcome, run_base>>
  <2>0. stopped' \in BOOLEAN /\ interrupts' \in Nat /\ llm_calls' = llm_calls
        /\ pc = "act_check"
    BY <1>8, <1>t, Checks DEF FirstActionChecked
  <2>1. Still /\ TypeOK'
    BY <1>8, <1>t, <2>0, MoveTypes DEF Still, agentState, records
  <2> QED
    BY <1>8, <1>r, <2>0, <2>1, Moves
<1>9. CASE NextActionChecked /\ check_passes /\ pc' = "acting"
           /\ UNCHANGED <<agentState, flags, done_only, records,
                          agent_history_items, results, outcome, run_base>>
  <2>0. stopped' \in BOOLEAN /\ interrupts' \in Nat /\ llm_calls' = llm_calls
        /\ pc = "between"
    BY <1>9, <1>t, Checks DEF NextActionChecked
  <2>1. Still /\ TypeOK'
    BY <1>9, <1>t, <2>0, MoveTypes DEF Still, agentState, records
  <2> QED
    BY <1>9, <1>r, <2>0, <2>1, Moves
<1> QED
  BY <1>1, <1>2, <1>3, <1>4, <1>5, <1>6, <1>7, <1>8, <1>9 DEF MovesOn

-----------------------------------------------------------------------------
\* Building the prompt.
LEMMA PromptTypes ==
  ASSUME TypeOK
  PROVE  history_description \in Seq(AgentItems)
<1>1. /\ last_model_output \in Nat /\ last_result \in Results
      /\ agent_history_items \in Seq(AgentItems)
  BY DEF TypeOK
<1>2. \A kind \in {"step", "initial", "format_error"} :
        [kind |-> kind, out |-> last_model_output, res |-> last_result]
          \in AgentItems
  BY <1>1 DEF AgentItems
<1>3. \A kind \in {"step", "initial", "format_error"} :
        Append(agent_history_items,
               [kind |-> kind, out |-> last_model_output, res |-> last_result])
          \in Seq(AgentItems)
  BY <1>1, <1>2, AppendFacts
<1> QED
  BY <1>1, <1>3 DEF history_description

LEMMA PromptInv ==
  ASSUME IInv, pc \in Preparing, prompt_is_built(FALSE),
         stopped' \in BOOLEAN, interrupts' \in Nat,
         UNCHANGED <<agentState, flags, records, results, outcome, llm_calls,
                     run_base>>
  PROVE  IInv'
<1>1. Still
  BY DEF Still, agentState, records
<1>2. done_only' \in BOOLEAN /\ pc' = "llm"
  BY DEF prompt_is_built
<1>3. agent_history_items' \in Seq(AgentItems)
  BY PromptTypes DEF prompt_is_built, IInv
<1>4. TypeOK'
  BY <1>2, <1>3 DEF TypeOK, IInv, agentState, flags, records,
     PCs, InStep, WithState
<1>5. Restricted'
  <2>1. consecutive_failures < FailureLimit /\ consecutive_failures \in Nat
    BY DEF IInv, Room, InStep, TypeOK
  <2>2. FinalResponse => (consecutive_failures >= MaxFailures
                            <=> consecutive_failures = MaxFailures)
    BY <2>1, LimitType, LoopAssumption
  <2>3. n_steps' = n_steps /\ consecutive_failures' = consecutive_failures
    BY <1>1 DEF Still
  <2> QED
    BY <1>2, <2>2, <2>3
    DEF Restricted, DoneOnlyExact, prompt_is_built, is_last_step
<1> QED
  BY <1>1, <1>2, <1>4, <1>5, Moves DEF IInv, Room, InStep, Preparing, Answered

LEMMA PreparesInv == IInv /\ (BrowserStateReady \/ NoMemoryRetrieved) => IInv'
<1> SUFFICES ASSUME IInv, BrowserStateReady \/ NoMemoryRetrieved PROVE IInv'
  OBVIOUS
<1>t. /\ TypeOK /\ stopped \in BOOLEAN /\ interrupts \in Nat
      /\ results \in Seq(ResultKinds)
  BY DEF IInv, TypeOK
<1>1. CASE NoMemoryRetrieved
  <2>1. pc = "memory" /\ done_only = FALSE
    BY <1>1, <1>t DEF NoMemoryRetrieved, IInv, Restricted, TypeOK
  <2> QED
    BY <1>1, <1>t, <2>1, PromptInv DEF NoMemoryRetrieved, Preparing
<1>2. CASE BrowserStateReady
  <2>0. pc = "browser" /\ stopped' \in BOOLEAN /\ interrupts' \in Nat
    BY <1>2, <1>t, Checks DEF BrowserStateReady
  <2>1. CASE Personalization
    <3>1. /\ pc' = "memory" /\ done_only' = FALSE
          /\ UNCHANGED <<agentState, flags, records, agent_history_items, results,
                         outcome, llm_calls, run_base>>
      BY <1>2, <2>1 DEF BrowserStateReady, models_for_page
    <3>2. Still /\ TypeOK'
      BY <1>t, <2>0, <3>1, MoveTypes
      DEF Still, agentState, records, PCs, InStep, Preparing
    <3>3. Restricted'
      BY <3>1 DEF Restricted, DoneOnlyExact, WithState
    <3> QED
      BY <2>0, <3>1, <3>2, <3>3, Moves
      DEF IInv, Room, InStep, Preparing, Answered
  <2>2. CASE ~Personalization
    BY <1>2, <2>0, <2>2, PromptInv DEF BrowserStateReady, models_for_page, Preparing
  <2> QED
    BY <2>1, <2>2
<1> QED
  BY <1>1, <1>2

\* The LLM answers and the step goes on: its output is the newest from here.
LEMMA AnswerInv ==
  ASSUME IInv, pc = "llm", check_passes,
         llm_calls' = llm_calls + 1, last_model_output' = llm_calls + 1,
         pc' = "post_llm",
         UNCHANGED <<n_steps, consecutive_failures, last_result, flags, done_only,
                     records, agent_history_items, results, outcome, run_base>>
  PROVE  IInv'
<1> USE DEF IInv, records, flags
<1>1. stopped' \in BOOLEAN /\ interrupts' \in Nat
  BY Checks
<1>2. TypeOK'
  BY <1>1 DEF TypeOK, PCs, InStep, WithState
<1>3. Room' /\ n_steps' >= 1
  BY DEF Room, FailureBound, InStep, WithState
<1>4. StepsRecordedInOrder' /\ Restricted'
  BY DEF StepsRecordedInOrder, Restricted, DoneOnlyExact, is_last_step, WithState
<1>5. Fresh'
  <2>1. \A i \in DOMAIN history : history[i] \in HistoryItems
    BY DEF TypeOK
  <2>2. \A i \in DOMAIN history : history[i].out \in Nat
    BY <2>1 DEF HistoryItems
  <2> QED
    BY <2>2 DEF Fresh, TypeOK
<1> QED
  BY <1>2, <1>3, <1>4, <1>5

-----------------------------------------------------------------------------
\* A record made outside of a step names no model output.
LEMMA OutsideRecord ==
  ASSUME IInv, NEW res \in Results,
         history' = Append(history, [step |-> 0, out |-> 0, res |-> res]),
         pc' \notin InStep \cup {"pause_wait", "woken"},
         history' \in Seq(HistoryItems) => TypeOK',
         UNCHANGED <<n_steps, consecutive_failures, last_model_output, llm_calls,
                     run_base, trajectory_log>>
  PROVE  IInv'
<1> DEFINE h == [step |-> 0, out |-> 0, res |-> res]
<1>1. h \in HistoryItems /\ h.out = 0
  BY DEF HistoryItems
<1>2. history \in Seq(HistoryItems) /\ llm_calls \in Nat /\ history' = Append(history, h)
  BY DEF IInv, TypeOK
<1> HIDE DEF h
<1>3. history' \in Seq(HistoryItems)
  BY <1>1, <1>2
<1>4. TypeOK'
  BY <1>3
<1>5. Room' /\ n_steps' >= 1
  BY DEF IInv, Room, FailureBound
<1>6. StepsRecordedInOrder' /\ Restricted'
  BY DEF IInv, StepsRecordedInOrder, Restricted, DoneOnlyExact, InStep, Preparing,
     WithState
<1>7. Fresh'
  <2>1. \A i \in DOMAIN history : history[i].out <= llm_calls
    BY DEF IInv, Fresh
  <2>2. \A i \in DOMAIN history' : history'[i].out <= llm_calls'
    BY <1>1, <1>2, <2>1, AppendFacts
  <2> QED
    BY <2>2 DEF IInv, Fresh, Answered, InStep, WithState
<1> QED
  BY <1>4, <1>5, <1>6, <1>7 DEF IInv

\* The start of a run and its ways to end.
Ends == \/ StartupFails \/ InitialActionRaises \/ TooManyFailures \/ StopSeen
        \/ TaskDone \/ InitialActionsInterrupted

LEMMA EndsInv == IInv /\ Ends => IInv'
<1> SUFFICES ASSUME IInv, Ends PROVE IInv'
  OBVIOUS
<1>t. TypeOK /\ stopped \in BOOLEAN /\ interrupts \in Nat
  BY DEF IInv, TypeOK
<1>1. CASE InitialActionsInterrupted
  <2>1. Still /\ pc' = "idle"
    BY <1>1 DEF InitialActionsInterrupted, Still, agentState, records
  <2>2. stopped' \in BOOLEAN /\ interrupts' \in Nat
    BY <1>1, <1>t, Checks DEF InitialActionsInterrupted
  <2>3. TypeOK'
    BY <1>1, <1>t, <2>2
    DEF InitialActionsInterrupted, TypeOK, agentState, flags, records,
        PCs, Outcomes
  <2> QED
    BY <2>1, <2>3, NoRestriction, Moves DEF InStep, Preparing, WithState, Answered
<1>2. CASE \E how \in Outcomes : run_ends(how) /\ UNCHANGED history
  <2>1. Still /\ pc' = "idle"
    BY <1>2 DEF run_ends, Still
  <2>2. TypeOK'
    BY <1>2, <1>t DEF run_ends, TypeOK, flags, PCs
  <2> QED
    BY <2>1, <2>2, NoRestriction, Moves DEF InStep, Preparing, WithState, Answered
<1> QED
  BY <1>1, <1>2
  DEF Ends, StartupFails, InitialActionRaises, TooManyFailures, StopSeen,
      TaskDone, Outcomes

LEMMA RecordsInv == IInv /\ (InitialActionEnds \/ BudgetSpent) => IInv'
<1> SUFFICES ASSUME IInv, InitialActionEnds \/ BudgetSpent PROVE IInv'
  OBVIOUS
<1>t. TypeOK
  BY DEF IInv
<1> USE DEF InStep, Preparing, WithState
<1>1. CASE InitialActionEnds
  <2>1. PICK kind \in {"ok", "error"} :
          /\ last_result' = Result(kind, 0, TRUE)
          /\ history' = Append(history,
               [step |-> 0, out |-> 0, res |-> Result(kind, 0, TRUE)])
    BY <1>1 DEF InitialActionEnds
  <2>2. Result(kind, 0, TRUE) \in Results
    BY ResultTypes DEF ResultKinds
  <2>3. history' \in Seq(HistoryItems) => TypeOK'
    BY <1>1, <1>t, <2>1, <2>2
    DEF InitialActionEnds, TypeOK, flags, PCs
  <2>4. UNCHANGED <<n_steps, consecutive_failures, last_model_output, llm_calls,
                    run_base, trajectory_log>> /\ pc' = "top"
    BY <1>1 DEF InitialActionEnds
  <2> QED
    BY <2>1, <2>2, <2>3, <2>4, OutsideRecord
<1>2. CASE BudgetSpent
  <2>1. history' \in Seq(HistoryItems) => TypeOK'
    BY <1>2, <1>t
    DEF BudgetSpent, run_ends, TypeOK, flags, PCs, Outcomes
  <2>2. UNCHANGED <<n_steps, consecutive_failures, last_model_output, llm_calls,
                    run_base, trajectory_log>> /\ pc' = "idle"
    BY <1>2 DEF BudgetSpent, run_ends
  <2> QED
    BY <1>2, <2>1, <2>2, ResultTypes, OutsideRecord DEF BudgetSpent
<1> QED
  BY <1>1, <1>2

LEMMA OthersInv == IInv /\ Others => IInv'
<1> SUFFICES ASSUME IInv, Others PROVE IInv'
  OBVIOUS
<1>t. TypeOK
  BY DEF IInv
<1>r. /\ pc \in InStep => consecutive_failures < FailureLimit
      /\ pc \in InStep \cup {"pause_wait", "woken"} => n_steps <= MaxSteps
      /\ run_base <= llm_calls
  BY DEF IInv, Room, Fresh
<1>1. CASE Run
  <2>1. TypeOK'
    BY <1>1, <1>t DEF Run, TypeOK, agentState, flags, records, PCs
  <2>2. /\ run_base' = llm_calls /\ pc' = "starting"
        /\ UNCHANGED <<n_steps, consecutive_failures, last_model_output,
                       llm_calls, history, trajectory_log>>
    BY <1>1 DEF Run, agentState, records
  <2>3. Room' /\ n_steps' >= 1 /\ StepsRecordedInOrder' /\ Restricted'
    BY <2>2 DEF IInv, Room, FailureBound, StepsRecordedInOrder, Restricted,
       DoneOnlyExact, InStep, Preparing, WithState
  <2>4. Fresh'
    BY <1>t, <2>2 DEF IInv, Fresh, Answered, TypeOK
  <2> QED
    BY <2>1, <2>3, <2>4 DEF IInv
<1>2. CASE AddNewTask
  <2>1. [kind |-> "task", out |-> 0, res |-> NoResult] \in AgentItems
    BY DEF AgentItems, NoResult, Result, Results, ResultKinds
  <2>2. agent_history_items' \in Seq(AgentItems)
    BY <1>2, <1>t, <2>1, AppendFacts DEF AddNewTask, TypeOK
  <2>3. TypeOK'
    <3>1. /\ tasks' \in Nat /\ outcome' \in Outcomes
          /\ follow_up_task' = TRUE /\ stopped' = FALSE /\ paused' = FALSE
      BY <1>2, <1>t DEF AddNewTask, TypeOK, Outcomes
    <3>2. follow_up_task' \in BOOLEAN /\ stopped' \in BOOLEAN /\ paused' \in BOOLEAN
      BY <3>1
    <3> QED
      BY <1>2, <1>t, <2>2, <3>1, <3>2, Zenon
      DEF AddNewTask, TypeOK, agentState, records
  <2>4. Still /\ pc = "idle" /\ pc' = "idle"
    BY <1>2 DEF AddNewTask, Still, agentState, records
  <2> QED
    BY <2>3, <2>4, NoRestriction, Moves DEF InStep, Preparing, WithState, Answered
<1>3. CASE Pause \/ Resume \/ Stop
  <2>1. pc' = pc \/ (pc = "pause_wait" /\ pc' = "woken")
    BY <1>3 DEF Pause, Resume, Stop, wake
  <2>2. TypeOK'
    <3>1. pc' \in PCs /\ pauses' \in Nat
      BY <1>3, <1>t, <2>1 DEF Pause, Resume, Stop, TypeOK, PCs
    <3>2. paused' \in BOOLEAN /\ stopped' \in BOOLEAN /\ pause_event' \in BOOLEAN
      <4>1. TRUE \in BOOLEAN /\ FALSE \in BOOLEAN
        OBVIOUS
      <4> QED
        BY <1>3, <1>t, <4>1, Zenon DEF Pause, Resume, Stop, TypeOK
    <3> QED
      BY <1>3, <1>t, <3>1, <3>2, Zenon
      DEF Pause, Resume, Stop, TypeOK, agentState, records
  <2>3. Still /\ done_only' = done_only
    BY <1>3 DEF Pause, Resume, Stop, Still, agentState, records
  <2> QED
    BY <1>r, <2>1, <2>2, <2>3, Moves
    DEF InStep, Preparing, WithState, Answered
<1> QED
  BY <1>1, <1>2, <1>3 DEF Others

-----------------------------------------------------------------------------
LEMMA NextInv == IInv /\ [Next]_vars => IInv'
<1> SUFFICES ASSUME IInv, [Next]_vars PROVE IInv'
  OBVIOUS
<1>1. CASE Startup
  BY <1>1, EndsInv, MovesOnInv, RecordsInv DEF Startup, Ends, MovesOn
<1>2. CASE LoopHead
  BY <1>2, EndsInv, MovesOnInv, RecordsInv DEF LoopHead, Ends, MovesOn
<1>3. CASE Step
  <2>1. CASE LLMReturns
    BY <2>1, EndsStepInv, AnswerInv DEF LLMReturns, EndsStep
  <2>2. CASE PostLLMDone
    BY <2>2, EndsStepInv, MovesOnInv DEF PostLLMDone, EndsStep, MovesOn
  <2>3. CASE FirstActionChecked
    BY <2>3, EndsStepInv, MovesOnInv DEF FirstActionChecked, EndsStep, MovesOn
  <2>4. CASE NextActionChecked
    BY <2>4, EndsStepInv, MovesOnInv DEF NextActionChecked, EndsStep, MovesOn
  <2> QED
    BY <1>3, <2>1, <2>2, <2>3, <2>4, EndsStepInv, MovesOnInv, PreparesInv
    DEF Step, EndsStep, MovesOn
<1>4. CASE Others
  BY <1>4, OthersInv
<1>5. CASE UNCHANGED vars
  BY <1>5
  DEF vars, agentState, flags, records, IInv, TypeOK, Room,
      FailureBound, StepsRecordedInOrder, Restricted, DoneOnlyExact, is_last_step,
      Fresh
<1> QED
  BY <1>1, <1>2, <1>3, <1>4, <1>5 DEF Next, Progress

THEOREM Invariance == Spec => []IInv
<1>1. Init => IInv
  BY InitInv
<1>2. IInv /\ [Next]_vars => IInv'
  BY NextInv
<1> QED
  BY <1>1, <1>2, PTL DEF Spec

\* The variables keep their types.
THEOREM TypeCorrect == Spec => []TypeOK
<1>1. IInv => TypeOK
  BY DEF IInv
<1> QED
  BY <1>1, Invariance, PTL

\* run() never counts more consecutive failures than the limit it stops at:
\* max_failures and, if configured, the final response.
THEOREM FailuresBounded == Spec => []FailureBound
<1>1. IInv => FailureBound
  BY DEF IInv, Room
<1> QED
  BY <1>1, Invariance, PTL

\* Recorded steps are numbered in order, once each and within max_steps.
THEOREM StepsInOrder == Spec => []StepsRecordedInOrder
<1>1. IInv => StepsRecordedInOrder
  BY DEF IInv
<1> QED
  BY <1>1, Invariance, PTL

\* The LLM is restricted to done on the last step and the final response only,
\* whatever an earlier step, run or task was restricted to.
THEOREM RestrictionExact == Spec => []DoneOnlyExact
<1>1. IInv => DoneOnlyExact
  BY DEF IInv, Restricted
<1> QED
  BY <1>1, Invariance, PTL

\* Only the newest output, unrecorded and of this run, is ever acted on.
THEOREM ActsFresh == Spec => []ActsOnFreshOutput
<1>1. IInv => ActsOnFreshOutput
  BY DEF IInv, Fresh, Answered, ActsOnFreshOutput
<1> QED
  BY <1>1, Invariance, PTL
-----------------------------------------------------------------------------
\* A done action of this run has left its result.
Done == last_result.kind = "done" /\ last_result.out > run_base

\* When the step that was done returns, its result is the last in the history,
\* which is_done() reads; no result is of an output yet to come.
DInv ==
  /\ DoneEndsRun
  /\ last_result.out <= llm_calls
  /\ pc = "after" /\ Done => is_done

\* Elsewhere than at the end of a step and between runs there is no such result,
\* so what leaves the result alone leaves none behind.
LEMMA NoneDone ==
  ASSUME IInv, DInv, pc \notin {"after", "idle"},
         last_result' = last_result, run_base' = run_base,
         llm_calls' \in {llm_calls, llm_calls + 1}
  PROVE  DInv'
<1>1. ~Done'
  BY DEF DInv, DoneEndsRun, Done
<1>2. last_result.out \in Nat /\ llm_calls \in Nat /\ last_result.out <= llm_calls
  BY DEF IInv, TypeOK, Results, DInv
<1>3. last_result'.out <= llm_calls'
  BY <1>2
<1> QED
  BY <1>1, <1>3 DEF DInv, DoneEndsRun, Done

\* A new result that is not done.
LEMMA AnotherResult ==
  ASSUME IInv, last_result'.kind # "done", last_result'.out <= llm_calls'
  PROVE  DInv'
BY DEF DInv, DoneEndsRun, Done

LEMMA OtherKinds ==
  /\ ErrorResult.kind # "done" /\ ErrorResult.out = 0
  /\ MemoryResult.kind # "done" /\ MemoryResult.out = 0
BY DEF ErrorResult, MemoryResult, Result

\* A step that fails, is interrupted or cancelled.
LEMMA FailedNotDone ==
  ASSUME IInv, DInv, pc \in InStep,
         \/ /\ llm_calls' = llm_calls
            /\ \E out \in {0, last_model_output}, withState \in BOOLEAN :
                 step_fails(out, withState)
         \/ /\ llm_calls' \in {llm_calls, llm_calls + 1}
            /\ \E out \in {last_model_output, llm_calls + 1}, withState \in BOOLEAN :
                 step_interrupted(out, withState)
  PROVE  DInv'
<1>1. llm_calls \in Nat
  BY DEF IInv, TypeOK
<1>2. CASE last_result' = ErrorResult /\ llm_calls' = llm_calls
  <2>1. last_result'.kind # "done" /\ last_result'.out <= llm_calls'
    BY <1>1, <1>2, OtherKinds
  <2> QED
    BY <2>1, AnotherResult
<1>3. CASE /\ last_result' = last_result /\ run_base' = run_base
           /\ llm_calls' \in {llm_calls, llm_calls + 1}
  <2>1. pc \notin {"after", "idle"}
    BY DEF InStep, Preparing, WithState
  <2> QED
    BY <1>3, <2>1, NoneDone
<1> QED
  BY <1>2, <1>3 DEF step_fails, step_interrupted, step_ends

\* The last action: a done action's result ends the history.
LEMMA ActionsEndDone ==
  ASSUME IInv, DInv, ActionsEnd
  PROVE  DInv'
<1>1. PICK kind \in {"ok", "error", "done"} :
        LET res == Result(kind, last_model_output, results = << >>)
        IN  step_ends(last_model_output, res, failures_after(res), TRUE, FALSE)
  BY DEF ActionsEnd
<1> DEFINE res == Result(kind, last_model_output, results = << >>)
           h == [step |-> n_steps, out |-> last_model_output, res |-> res]
<1>2. res.kind = kind /\ res.out = last_model_output
  BY DEF Result
<1>3. res # NoResult
  BY DEF NoResult, Result
<1>4. /\ last_result' = res /\ pc' = "after" /\ llm_calls' = llm_calls
      /\ history' = Append(history, h)
  BY <1>1, <1>3 DEF ActionsEnd, step_ends, finalize
<1>5. h.res = res
  OBVIOUS
<1>6. h \in HistoryItems /\ history \in Seq(HistoryItems)
  <2>1. res \in Results
    BY ResultTypes DEF ResultKinds, IInv, TypeOK
  <2> QED
    BY <2>1 DEF HistoryItems, IInv, TypeOK
<1> HIDE DEF res, h
<1>7. history' # << >> /\ history'[Len(history')] = h
  BY <1>4, <1>6
<1>8. res.kind = "done" => is_done'
  BY <1>5, <1>7 DEF is_done
<1>9. last_model_output <= llm_calls
  BY DEF IInv, Fresh
<1> QED
  BY <1>2, <1>4, <1>8, <1>9 DEF DInv, DoneEndsRun, Done

\* The other actions of a step.
LEMMA StepDone == IInv /\ DInv /\ Step => DInv'
<1> SUFFICES ASSUME IInv, DInv, Step PROVE DInv'
  OBVIOUS
<1>1. CASE ActionsEnd
  BY <1>1, ActionsEndDone
<1>2. CASE MemoryRetrieved \/ StepTimesOut
  <2>1. last_result' \in {MemoryResult, ErrorResult} /\ llm_calls' = llm_calls
    BY <1>2 DEF MemoryRetrieved, StepTimesOut, step_ends
  <2>2. last_result'.kind # "done" /\ last_result'.out <= llm_calls'
    BY <2>1, OtherKinds DEF IInv, TypeOK
  <2> QED
    BY <2>2, AnotherResult
<1>3. CASE \/ BrowserStateFails \/ InterruptedBeforePrompt \/ LLMFails \/ PostLLMFails
           \/ ActionRaises
  BY <1>3, FailedNotDone
  DEF BrowserStateFails, InterruptedBeforePrompt, LLMFails, PostLLMFails,
      ActionRaises, InStep, Preparing, WithState
<1>4. CASE /\ LLMReturns \/ PostLLMDone \/ FirstActionChecked \/ NextActionChecked
           /\ last_result' # last_result \/ run_base' # run_base
  BY <1>4, FailedNotDone
  DEF LLMReturns, PostLLMDone, FirstActionChecked, NextActionChecked,
      InStep, Preparing, WithState, agentState, step_interrupted, step_ends
<1>5. CASE /\ \/ LLMReturns \/ PostLLMDone \/ FirstActionChecked \/ NextActionChecked
              \/ BrowserStateReady \/ NoMemoryRetrieved \/ MoreActions
           /\ last_result' = last_result /\ run_base' = run_base
  <2>1. pc \notin {"after", "idle"} /\ llm_calls' \in {llm_calls, llm_calls + 1}
    BY <1>5
    DEF LLMReturns, PostLLMDone, FirstActionChecked, NextActionChecked,
        BrowserStateReady, NoMemoryRetrieved, MoreActions
  <2> QED
    BY <1>5, <2>1, NoneDone
<1>6. /\ BrowserStateReady \/ NoMemoryRetrieved \/ MoreActions =>
           last_result' = last_result /\ run_base' = run_base
  BY DEF BrowserStateReady, NoMemoryRetrieved, MoreActions, agentState
<1> QED
  BY <1>1, <1>2, <1>3, <1>4, <1>5, <1>6 DEF Step

\* The start of a run, its head and its ends.
LEMMA HeadDone == IInv /\ DInv /\ (Startup \/ LoopHead) => DInv'
<1> SUFFICES ASSUME IInv, DInv, Startup \/ LoopHead PROVE DInv'
  OBVIOUS
<1>1. CASE InitialActionEnds
  <2>1. last_result'.kind # "done" /\ last_result'.out = 0 /\ llm_calls' = llm_calls
    BY <1>1 DEF InitialActionEnds, Result
  <2>2. last_result'.out <= llm_calls'
    BY <2>1 DEF IInv, TypeOK
  <2> QED
    BY <2>1, <2>2, AnotherResult
<1>2. CASE TaskDone \/ NextStep
  <2>1. /\ last_result' = last_result /\ run_base' = run_base
        /\ llm_calls' = llm_calls /\ history' = history
        /\ \/ pc' = "idle" /\ outcome' = "done"
           \/ pc' = "top" /\ pc = "after" /\ ~is_done
    BY <1>2 DEF TaskDone, NextStep, run_ends, agentState, records
  <2> QED
    BY <2>1 DEF DInv, DoneEndsRun, Done
<1>3. CASE ~(InitialActionEnds \/ TaskDone \/ NextStep)
  <2>1. /\ pc \notin {"after", "idle"} /\ last_result' = last_result
        /\ run_base' = run_base /\ llm_calls' = llm_calls
    BY <1>3
    DEF Startup, LoopHead, StartupFails, InitialActionsInterrupted, Started,
        InitialActionRaises, BudgetSpent, WaitForResume, EventAlreadySet,
        TooManyFailures, StopSeen, StepStarts, PastPause, run_ends, agentState
  <2> QED
    BY <2>1, NoneDone
<1> QED
  BY <1>1, <1>2, <1>3

\* A new run counts from the outputs so far; the calls of other tasks leave the
\* result and the history alone.
LEMMA OthersDone == IInv /\ DInv /\ Others => DInv'
<1> SUFFICES ASSUME IInv, DInv, Others PROVE DInv'
  OBVIOUS
<1>1. CASE Run
  <2>1. /\ run_base' = llm_calls /\ last_result' = last_result
        /\ llm_calls' = llm_calls
    BY <1>1 DEF Run, agentState
  <2>2. ~Done'
    BY <2>1 DEF Done, DInv, IInv, TypeOK, Results
  <2> QED
    BY <2>1, <2>2 DEF DInv, DoneEndsRun, Done
<1>2. CASE AddNewTask
  BY <1>2
  DEF AddNewTask, agentState, records, DInv, DoneEndsRun, Done, is_done
<1>3. CASE Pause \/ Resume \/ Stop
  <2>1. /\ pc' = pc \/ (pc = "pause_wait" /\ pc' = "woken")
        /\ UNCHANGED <<last_result, run_base, llm_calls, history, outcome>>
    BY <1>3 DEF Pause, Resume, Stop, wake, agentState, records
  <2> QED
    BY <2>1 DEF DInv, DoneEndsRun, Done, is_done
<1> QED
  BY <1>1, <1>2, <1>3 DEF Others

\* Once a done action of a run has run, whatever was raised meanwhile, the run
\* takes no further step and its outcome is done.
THEOREM DoneEnds == Spec => []DoneEndsRun
<1>1. Init => DInv
  BY DEF Init, DInv, DoneEndsRun, Done, NoResult, Result
<1>2. IInv /\ DInv /\ [Next]_vars => DInv'
  <2>1. CASE UNCHANGED vars
    BY <2>1
    DEF vars, agentState, records, DInv, DoneEndsRun, Done, is_done
  <2> QED
    BY <2>1, HeadDone, StepDone, OthersDone DEF Next, Progress
<1>3. DInv => DoneEndsRun
  BY DEF DInv
<1> QED
  BY <1>1, <1>2, <1>3, Invariance, PTL DEF Spec
-----------------------------------------------------------------------------
\* What a step writes to the trajectory log, as _finalize does.
Logs(out) ==
  \E memory \in BOOLEAN :
    trajectory_log' = Append(trajectory_log,
      [step |-> n_steps, memory |-> memory, out |-> out])

LEMMA FinalizeLogs ==
  ASSUME NEW out, NEW res, NEW withState \in BOOLEAN, NEW memory \in BOOLEAN,
         finalize(out, res, withState, memory)
  PROVE  trajectory_log' = trajectory_log \/ (withState /\ Logs(out))
<1>1. CASE res = NoResult \/ ~withState
  BY <1>1 DEF finalize, records
<1>2. CASE res # NoResult /\ withState
  BY <1>2 DEF finalize, Logs
<1> QED
  BY <1>1, <1>2

\* The output logged is that of the step itself from its answer on; before it,
\* a memory step logs none and only a step waiting for the LLM an older one.
Logged ==
  \/ pc = "memory" /\ Logs(0)
  \/ pc = "llm" /\ (Logs(last_model_output) \/ Logs(llm_calls'))
  \/ pc \in Answered /\ Logs(last_model_output)

LEMMA StepLogs == EndsStep => trajectory_log' = trajectory_log \/ Logged
<1> SUFFICES ASSUME EndsStep PROVE trajectory_log' = trajectory_log \/ Logged
  OBVIOUS
<1>b. TRUE \in BOOLEAN /\ FALSE \in BOOLEAN /\ (pc \in WithState) \in BOOLEAN
  OBVIOUS
<1>1. CASE BrowserStateFails
  BY <1>1, <1>b, FinalizeLogs DEF BrowserStateFails, step_fails, step_ends
<1>2. CASE InterruptedBeforePrompt
  BY <1>2, <1>b, FinalizeLogs
  DEF InterruptedBeforePrompt, step_interrupted, step_ends
<1>3. CASE MemoryRetrieved
  BY <1>3, <1>b, FinalizeLogs DEF MemoryRetrieved, step_ends, Logged
<1>4. CASE LLMFails
  BY <1>4, <1>b, FinalizeLogs DEF LLMFails, step_fails, step_ends, Logged
<1>5. CASE LLMReturns /\ check_raises /\ step_interrupted(llm_calls + 1, TRUE)
  BY <1>5, <1>b, FinalizeLogs
  DEF LLMReturns, step_interrupted, step_ends, Logged
<1>6. CASE PostLLMFails \/ ActionRaises
  BY <1>6, <1>b, FinalizeLogs
  DEF PostLLMFails, ActionRaises, step_fails, step_ends, Logged, Answered
<1>7. CASE /\ PostLLMDone \/ NextActionChecked
           /\ step_interrupted(last_model_output, TRUE)
  BY <1>7, <1>b, FinalizeLogs
  DEF PostLLMDone, NextActionChecked, step_interrupted, step_ends, Logged, Answered
<1>8. CASE FirstActionChecked /\ step_fails(last_model_output, TRUE)
  BY <1>8, <1>b, FinalizeLogs
  DEF FirstActionChecked, step_fails, step_ends, Logged, Answered
<1>9. CASE ActionsEnd
  <2>1. PICK kind \in {"ok", "error", "done"} :
          finalize(last_model_output, Result(kind, last_model_output, results = << >>),
                   TRUE, FALSE)
    BY <1>9 DEF ActionsEnd, step_ends
  <2> QED
    BY <1>9, <1>b, <2>1, FinalizeLogs DEF ActionsEnd, Logged, Answered
<1>10. CASE StepTimesOut
  BY <1>10, <1>b, FinalizeLogs DEF StepTimesOut, Logged, Answered, WithState
<1> QED
  BY <1>1, <1>2, <1>3, <1>4, <1>5, <1>6, <1>7, <1>8, <1>9, <1>10 DEF EndsStep

\* No other action writes to the log, and a step that goes on has the answer of
\* its own call.
LEMMA OnlyStepsLog ==
  [Next]_vars =>
    \/ EndsStep /\ pc' = "after" /\ llm_calls' \in {llm_calls, llm_calls + 1}
    \/ /\ trajectory_log' = trajectory_log
       /\ \/ llm_calls' = llm_calls /\ (pc' \in Answered => pc \in Answered)
          \/ llm_calls' = llm_calls + 1
<1> SUFFICES ASSUME [Next]_vars PROVE
      \/ EndsStep /\ pc' = "after" /\ llm_calls' \in {llm_calls, llm_calls + 1}
      \/ /\ trajectory_log' = trajectory_log
         /\ \/ llm_calls' = llm_calls /\ (pc' \in Answered => pc \in Answered)
            \/ llm_calls' = llm_calls + 1
  OBVIOUS
<1>1. CASE EndsStep
  <2>1. llm_calls' \in {llm_calls, llm_calls + 1}
    BY <1>1
    DEF EndsStep, BrowserStateFails, InterruptedBeforePrompt, MemoryRetrieved,
        LLMFails, LLMReturns, PostLLMFails, PostLLMDone, FirstActionChecked,
        ActionsEnd, ActionRaises, NextActionChecked, StepTimesOut
  <2>2. pc' = "after"
    BY <1>1
    DEF EndsStep, BrowserStateFails, InterruptedBeforePrompt, MemoryRetrieved,
        LLMFails, PostLLMFails, ActionsEnd, ActionRaises, StepTimesOut,
        step_fails, step_interrupted, step_ends
  <2> QED
    BY <1>1, <2>1, <2>2
<1>2. CASE /\ LLMReturns \/ PostLLMDone \/ FirstActionChecked \/ NextActionChecked
           /\ ~EndsStep
  BY <1>2
  DEF EndsStep, LLMReturns, PostLLMDone, FirstActionChecked, NextActionChecked,
      records, Answered
<1>3. CASE BrowserStateReady \/ NoMemoryRetrieved
  BY <1>3
  DEF BrowserStateReady, NoMemoryRetrieved, prompt_is_built, records, Answered
<1>4. CASE MoreActions
  BY <1>4 DEF MoreActions, records, Answered
<1>5. CASE Startup \/ LoopHead
  BY <1>5
  DEF Startup, LoopHead, StartupFails, InitialActionsInterrupted, Started,
      InitialActionEnds, InitialActionRaises, BudgetSpent, WaitForResume,
      EventAlreadySet, TooManyFailures, StopSeen, StepStarts, TaskDone, NextStep,
      run_ends, records, Answered
<1>6. CASE Others
  BY <1>6 DEF Others, Run, AddNewTask, Pause, Resume, Stop, wake, records, Answered
<1>7. CASE UNCHANGED vars
  BY <1>7 DEF vars, records
<1> QED
  BY <1>1, <1>2, <1>3, <1>4, <1>5, <1>6, <1>7
  DEF Next, Progress, Step, EndsStep

\* Nothing is logged of an output yet to come, nor of the output of this step
\* before the step ends.
LInv ==
  /\ \A i \in DOMAIN trajectory_log : trajectory_log[i].out <= llm_calls
  /\ pc \in Answered =>
       \A i \in DOMAIN trajectory_log : trajectory_log[i].out # llm_calls

\* The log after a step, item by item.
LEMMA LogGrows ==
  ASSUME IInv, NEW out \in Nat, Logs(out)
  PROVE  /\ Len(trajectory_log') = Len(trajectory_log) + 1
         /\ Len(trajectory_log) \in Nat
         /\ DOMAIN trajectory_log' = 1 .. Len(trajectory_log) + 1
         /\ DOMAIN trajectory_log = 1 .. Len(trajectory_log)
         /\ \A i \in DOMAIN trajectory_log :
              trajectory_log'[i] = trajectory_log[i]
         /\ trajectory_log'[Len(trajectory_log) + 1].out = out
<1>1. PICK memory \in BOOLEAN :
        trajectory_log' = Append(trajectory_log,
          [step |-> n_steps, memory |-> memory, out |-> out])
  BY DEF Logs
<1> DEFINE t == [step |-> n_steps, memory |-> memory, out |-> out]
<1>2. t \in TrajectoryItems /\ trajectory_log \in Seq(TrajectoryItems)
  BY DEF IInv, TypeOK, TrajectoryItems
<1>3. t.out = out /\ trajectory_log' = Append(trajectory_log, t)
  BY <1>1
<1> HIDE DEF t
<1> QED
  BY <1>2, <1>3, AppendFacts

LEMMA LoggedOutputs ==
  ASSUME IInv
  PROVE  /\ \A i \in DOMAIN trajectory_log : trajectory_log[i].out \in Nat
         /\ llm_calls \in Nat /\ last_model_output \in Nat
         /\ last_model_output <= llm_calls
         /\ pc \in Answered => last_model_output = llm_calls
<1>1. \A i \in DOMAIN trajectory_log : trajectory_log[i] \in TrajectoryItems
  BY DEF IInv, TypeOK
<1> QED
  BY <1>1 DEF IInv, TypeOK, Fresh, TrajectoryItems

LEMMA LogNext == IInv /\ LInv /\ [Next]_vars => LInv'
<1> SUFFICES ASSUME IInv, LInv, [Next]_vars PROVE LInv'
  OBVIOUS
<1>1. llm_calls' \in {llm_calls, llm_calls + 1}
  BY OnlyStepsLog
<1>2. \A i \in DOMAIN trajectory_log : trajectory_log[i].out <= llm_calls'
  BY <1>1, LoggedOutputs DEF LInv
<1>3. CASE trajectory_log' = trajectory_log
  <2>1. CASE llm_calls' = llm_calls /\ (pc' \in Answered => pc \in Answered)
    BY <1>3, <2>1 DEF LInv
  <2>2. CASE llm_calls' = llm_calls + 1
    BY <1>3, <2>2, <1>2, LoggedOutputs DEF LInv
  <2>3. CASE pc' = "after"
    BY <1>3, <1>2, <2>3 DEF LInv, Answered
  <2> QED
    BY <2>1, <2>2, <2>3, OnlyStepsLog
<1>4. CASE trajectory_log' # trajectory_log
  <2>1. pc' = "after" /\ Logged
    BY <1>4, OnlyStepsLog, StepLogs
  <2>2. PICK out \in Nat : Logs(out) /\ out <= llm_calls'
    <3>1. /\ 0 \in Nat /\ 0 <= llm_calls' /\ last_model_output \in Nat
          /\ last_model_output <= llm_calls' /\ llm_calls' \in Nat
          /\ llm_calls' <= llm_calls'
      BY <1>1, LoggedOutputs
    <3> QED
      BY <2>1, <3>1, Zenon DEF Logged
  <2>3. \A i \in DOMAIN trajectory_log' : trajectory_log'[i].out <= llm_calls'
    BY <1>2, <2>2, LogGrows
  <2> QED
    BY <2>1, <2>3 DEF LInv, Answered
<1> QED
  BY <1>3, <1>4

\* A recorded step repeats the output of an earlier record only when it never
\* got an answer of its own.
THEOREM RecordsOwnOutput == Spec => RepeatedOnlyWithoutAnswer
<1> DEFINE Repeats ==
      trajectory_log' # trajectory_log =>
        LET new == trajectory_log'[Len(trajectory_log')]
        IN  \A i \in 1 .. Len(trajectory_log') - 1 :
              trajectory_log'[i].out = new.out /\ new.out # 0 => pc = "llm"
<1>1. Init => LInv
  BY DEF Init, LInv, Answered
<1>2. IInv /\ LInv /\ [Next]_vars => [Repeats]_vars
  <2> SUFFICES ASSUME IInv, LInv, [Next]_vars, trajectory_log' # trajectory_log,
                      pc # "llm"
               PROVE  LET new == trajectory_log'[Len(trajectory_log')]
                      IN  \A i \in 1 .. Len(trajectory_log') - 1 :
                            ~(trajectory_log'[i].out = new.out /\ new.out # 0)
    BY Zenon
  <2>1. \/ Logs(0)
        \/ pc \in Answered /\ Logs(last_model_output)
    BY OnlyStepsLog, StepLogs DEF Logged
  <2>2. CASE Logs(0)
    BY <2>2, LogGrows
  <2>3. CASE pc \in Answered /\ Logs(last_model_output)
    <3>1. /\ last_model_output \in Nat /\ last_model_output = llm_calls
          /\ \A i \in DOMAIN trajectory_log : trajectory_log[i].out # llm_calls
      BY <2>3, LoggedOutputs DEF LInv
    <3> QED
      BY <2>3, <3>1, LogGrows
  <2> QED
    BY <2>1, <2>2, <2>3
<1> QED
  BY <1>1, <1>2, LogNext, Invariance, PTL DEF Spec, RepeatedOnlyWithoutAnswer

-----------------------------------------------------------------------------
\* The result of actions is told to the LLM before the step can give it up; an
\* agent without any has taken no step yet, as at its initial actions.
Told == \E i \in DOMAIN agent_history_items :
          agent_history_items[i].res = last_result
TInv ==
  /\ pc \in WithState /\ last_result.out # 0 => Told
  /\ pc = "initial" => ~follow_up_task
  /\ ~follow_up_task =>
       /\ pc \in {"starting", "initial"} => last_result.out = 0
       /\ pc = "idle" /\ outcome = "none" => last_result.out = 0
  /\ results # << >> => pc \in {"acting", "between"}

\* The message of every prompt after an action tells its result.
LEMMA DescriptionTells ==
  ASSUME TypeOK, agent_history_items' = history_description,
         last_result' = last_result, last_result.out # 0
  PROVE  Told'
<1>1. last_result # NoResult
  BY DEF NoResult, Result
<1>2. PICK kind \in {"step", "initial", "format_error"} :
        agent_history_items' = Append(agent_history_items,
          [kind |-> kind, out |-> last_model_output, res |-> last_result])
  BY <1>1 DEF history_description
<1> DEFINE item == [kind |-> kind, out |-> last_model_output, res |-> last_result]
<1>3. item \in AgentItems /\ agent_history_items \in Seq(AgentItems)
  BY DEF TypeOK, AgentItems
<1>4. item.res = last_result /\ agent_history_items' = Append(agent_history_items, item)
  BY <1>2
<1> HIDE DEF item
<1>5. /\ Len(agent_history_items) + 1 \in DOMAIN agent_history_items'
      /\ agent_history_items'[Len(agent_history_items) + 1] = item
  BY <1>3, <1>4, AppendFacts
<1> QED
  BY <1>4, <1>5 DEF Told

\* What a step of the agent does to its last result and to what was told of it.
ResultKept ==
  /\ last_result' = last_result
  /\ \/ pc' \notin WithState
     \/ pc' \in WithState /\ pc \in WithState
          /\ agent_history_items' = agent_history_items
     \/ pc' = "llm" /\ agent_history_items' = history_description

LEMMA ResultSteps ==
  [Next]_vars =>
    \/ ResultKept
    \/ pc \in InStep /\ pc' = "after"
    \/ pc = "initial" /\ pc' = "top"
<1> SUFFICES ASSUME [Next]_vars, ~(pc \in InStep /\ pc' = "after"),
                    ~(pc = "initial" /\ pc' = "top")
             PROVE  ResultKept
  OBVIOUS
<1> USE DEF ResultKept, InStep, Preparing, WithState
<1>1. ~EndsStep
  BY DEF EndsStep, BrowserStateFails, InterruptedBeforePrompt, MemoryRetrieved,
         LLMFails, LLMReturns, PostLLMFails, PostLLMDone, FirstActionChecked,
         ActionsEnd, ActionRaises, NextActionChecked, StepTimesOut, step_fails,
         step_interrupted, step_ends
<1>2. CASE LLMReturns \/ PostLLMDone \/ FirstActionChecked \/ NextActionChecked
  BY <1>1, <1>2
  DEF EndsStep, LLMReturns, PostLLMDone, FirstActionChecked, NextActionChecked,
      agentState
<1>3. CASE BrowserStateReady \/ NoMemoryRetrieved \/ MoreActions
  BY <1>3
  DEF BrowserStateReady, NoMemoryRetrieved, MoreActions, prompt_is_built, agentState
<1>4. CASE Startup \/ LoopHead
  BY <1>4
  DEF Startup, LoopHead, StartupFails, InitialActionsInterrupted, Started,
      InitialActionEnds, InitialActionRaises, BudgetSpent, WaitForResume,
      EventAlreadySet, TooManyFailures, StopSeen, StepStarts, TaskDone, NextStep,
      run_ends, agentState
<1>5. CASE Others
  BY <1>5
  DEF Others, Run, AddNewTask, Pause, Resume, Stop, wake, agentState
<1>6. CASE UNCHANGED vars
  BY <1>6 DEF vars, agentState
<1> QED
  BY <1>1, <1>2, <1>3, <1>4, <1>5, <1>6 DEF Next, Progress, Step, EndsStep

\* Where the initial actions of a run are still to come, and for which task.
LEMMA StartSteps ==
  [Next]_vars =>
    /\ ~follow_up_task' => ~follow_up_task
    /\ pc' = "initial" =>
         /\ follow_up_task' = follow_up_task
         /\ pc = "initial" \/ (pc = "starting" /\ ~follow_up_task)
    /\ pc' = "starting" => pc = "starting" \/ (pc = "idle" /\ outcome = "none")
    /\ pc' = "idle" /\ outcome' = "none" =>
         (pc = "idle" /\ outcome = "none") \/ follow_up_task'
<1> SUFFICES ASSUME [Next]_vars PROVE
    /\ ~follow_up_task' => ~follow_up_task
    /\ pc' = "initial" =>
         /\ follow_up_task' = follow_up_task
         /\ pc = "initial" \/ (pc = "starting" /\ ~follow_up_task)
    /\ pc' = "starting" => pc = "starting" \/ (pc = "idle" /\ outcome = "none")
    /\ pc' = "idle" /\ outcome' = "none" =>
         (pc = "idle" /\ outcome = "none") \/ follow_up_task'
  OBVIOUS
<1>1. CASE Startup
  <2>1. follow_up_task' = follow_up_task
    BY <1>1
    DEF Startup, StartupFails, InitialActionsInterrupted, Started,
        InitialActionEnds, InitialActionRaises, run_ends, flags
  <2>2. \/ pc' = "idle" /\ outcome' # "none"
        \/ pc' = "top"
        \/ pc' = "initial" /\ pc = "starting" /\ WithInitialActions
    BY <1>1
    DEF Startup, StartupFails, InitialActionsInterrupted, Started,
        InitialActionEnds, InitialActionRaises, run_ends
  <2> QED
    BY <2>1, <2>2 DEF WithInitialActions
<1>2. CASE LoopHead
  <2>1. follow_up_task' = follow_up_task
    BY <1>2
    DEF LoopHead, BudgetSpent, WaitForResume, EventAlreadySet, TooManyFailures,
        StopSeen, StepStarts, TaskDone, NextStep, run_ends, flags
  <2>2. \/ pc' \notin {"idle", "starting", "initial"}
        \/ pc' = "idle" /\ outcome' # "none"
    BY <1>2
    DEF LoopHead, BudgetSpent, WaitForResume, EventAlreadySet, TooManyFailures,
        StopSeen, StepStarts, TaskDone, NextStep, run_ends
  <2> QED
    BY <2>1, <2>2
<1>3. CASE Step
  <2>1. follow_up_task' = follow_up_task
    BY <1>3
    DEF Step, BrowserStateFails, InterruptedBeforePrompt, BrowserStateReady,
        MemoryRetrieved, NoMemoryRetrieved, LLMFails, LLMReturns, PostLLMFails,
        PostLLMDone, FirstActionChecked, ActionsEnd, ActionRaises, MoreActions,
        NextActionChecked, StepTimesOut, step_fails, step_interrupted, step_ends,
        flags
  <2>2. pc' \notin {"idle", "starting", "initial"}
    BY <1>3
    DEF Step, BrowserStateFails, InterruptedBeforePrompt, BrowserStateReady,
        MemoryRetrieved, NoMemoryRetrieved, LLMFails, LLMReturns, PostLLMFails,
        PostLLMDone, FirstActionChecked, ActionsEnd, ActionRaises, MoreActions,
        NextActionChecked, StepTimesOut, prompt_is_built, step_fails,
        step_interrupted, step_ends
  <2> QED
    BY <2>1, <2>2
<1>4. CASE Run \/ Pause \/ Resume \/ Stop
  BY <1>4 DEF Run, Pause, Resume, Stop, wake, flags
<1>5. CASE AddNewTask
  BY <1>5 DEF AddNewTask
<1>6. CASE UNCHANGED vars
  BY <1>6 DEF vars, flags
<1> QED
  BY <1>1, <1>2, <1>3, <1>4, <1>5, <1>6 DEF Next, Progress, Others

\* What multi_act has gathered is given up or added to, or its loop goes on.
Goes == {"acting", "between"}
LEMMA Gathering ==
  [Next]_vars =>
    \/ results' = << >>
    \/ results' = results /\ (pc \in Goes => pc' \in Goes)
    \/ pc' = "between"
<1> SUFFICES ASSUME [Next]_vars PROVE
    \/ results' = << >>
    \/ results' = results /\ (pc \in Goes => pc' \in Goes)
    \/ pc' = "between"
  OBVIOUS
<1> USE DEF Goes
<1>1. CASE EndsStep
  BY <1>1
  DEF EndsStep, BrowserStateFails, InterruptedBeforePrompt, MemoryRetrieved,
      LLMFails, PostLLMFails, ActionsEnd, ActionRaises, StepTimesOut,
      step_fails, step_interrupted, step_ends
<1>2. CASE /\ LLMReturns \/ PostLLMDone \/ FirstActionChecked \/ NextActionChecked
           /\ ~EndsStep
  BY <1>2
  DEF EndsStep, LLMReturns, PostLLMDone, FirstActionChecked, NextActionChecked
<1>3. CASE BrowserStateReady \/ NoMemoryRetrieved \/ MoreActions
  BY <1>3 DEF BrowserStateReady, NoMemoryRetrieved, MoreActions
<1>4. CASE Startup \/ LoopHead
  BY <1>4
  DEF Startup, LoopHead, StartupFails, InitialActionsInterrupted, Started,
      InitialActionEnds, InitialActionRaises, BudgetSpent, WaitForResume,
      EventAlreadySet, TooManyFailures, StopSeen, StepStarts, PastPause, TaskDone,
      NextStep, run_ends
<1>5. CASE Others
  BY <1>5 DEF Others, Run, AddNewTask, Pause, Resume, Stop, wake
<1>6. CASE UNCHANGED vars
  BY <1>6 DEF vars
<1> QED
  BY <1>1, <1>2, <1>3, <1>4, <1>5, <1>6 DEF Next, Progress, Step, EndsStep

\* How what it has gathered is given up.
LEMMA GivenUp ==
  ASSUME IInv, [Next]_vars, pc \in Goes, results # << >>, results' = << >>,
         last_result'.out # llm_calls
  PROVE  \/ last_result' = ErrorResult
         \/ pc = "between" /\ last_result' = last_result
            /\ (paused \/ stopped \/ interrupts' # interrupts)
<1> USE DEF Goes
<1>1. interrupts \in Nat /\ last_model_output = llm_calls
  BY DEF IInv, TypeOK, Fresh, Answered
<1>2. CASE ActionsEnd
  BY <1>1, <1>2 DEF ActionsEnd, step_ends, Result
<1>3. CASE ActionRaises \/ StepTimesOut
  BY <1>3 DEF ActionRaises, StepTimesOut, step_fails, step_ends
<1>4. CASE NextActionChecked
  <2>1. check_raises /\ step_interrupted(last_model_output, TRUE)
    BY <1>4 DEF NextActionChecked
  <2>2. pc = "between" /\ last_result' = last_result
    BY <1>4, <2>1 DEF NextActionChecked, step_interrupted, step_ends
  <2>3. (paused \/ stopped) \/ interrupts' = interrupts + 1
    BY <2>1, <2>2, Zenon DEF check_raises
  <2>4. interrupts + 1 # interrupts
    BY <1>1
  <2> QED
    BY <2>2, <2>3, <2>4, Zenon
<1>5. CASE MoreActions \/ Pause \/ Resume \/ Stop \/ UNCHANGED vars
  <2>1. CASE MoreActions
    <3>1. results \in Seq(ResultKinds)
      BY DEF IInv, TypeOK
    <3> QED
      BY <2>1, <3>1 DEF MoreActions
  <2> QED
    BY <1>5, <2>1 DEF Pause, Resume, Stop, vars
<1> QED
  BY <1>2, <1>3, <1>4, <1>5
  DEF Next, Progress, Others, Startup, LoopHead, Step, StartupFails,
      InitialActionsInterrupted, Started, InitialActionEnds, InitialActionRaises,
      BudgetSpent, WaitForResume, EventAlreadySet, TooManyFailures, StopSeen,
      StepStarts, PastPause, TaskDone, NextStep, BrowserStateFails,
      InterruptedBeforePrompt, BrowserStateReady, MemoryRetrieved,
      NoMemoryRetrieved, LLMFails, LLMReturns, PostLLMFails, PostLLMDone,
      FirstActionChecked, Run, AddNewTask

LEMMA ToldNext == IInv /\ TInv /\ [Next]_vars => TInv'
<1> SUFFICES ASSUME IInv, TInv, [Next]_vars PROVE TInv'
  OBVIOUS
<1>1. \/ ResultKept
      \/ pc' \in {"after", "top"}
  BY ResultSteps
<1>2. pc' \in WithState /\ last_result'.out # 0 => Told'
  <2>1. CASE pc' \notin WithState
    BY <2>1
  <2>2. CASE ResultKept /\ pc \in WithState
               /\ agent_history_items' = agent_history_items
    BY <2>2 DEF ResultKept, TInv, Told
  <2>3. CASE ResultKept /\ agent_history_items' = history_description
    BY <2>3, DescriptionTells DEF ResultKept, IInv
  <2> QED
    BY <1>1, <2>1, <2>2, <2>3 DEF ResultKept, WithState
<1>3. pc' = "initial" => ~follow_up_task'
  BY StartSteps DEF TInv
<1>4. ASSUME ~follow_up_task',
             \/ pc' \in {"starting", "initial"}
             \/ pc' = "idle" /\ outcome' = "none"
      PROVE  last_result'.out = 0
  <2>1. last_result' = last_result
    BY <1>1, <1>4 DEF ResultKept
  <2>2. last_result.out = 0
    BY <1>4, StartSteps DEF TInv
  <2> QED
    BY <2>1, <2>2
<1>5. results' # << >> => pc' \in {"acting", "between"}
  BY Gathering DEF TInv, Goes
<1> QED
  BY <1>2, <1>3, <1>4, <1>5 DEF TInv

\* The LLM is told of every result of its actions, but for those given up before
\* the prompt is built and those an error or an interruption takes from multi_act.
THEOREM ResultsTold == Spec => ResultsGivenUp
<1> DEFINE Untold ==
      /\ last_result.out # 0 /\ last_result' # last_result
      /\ \A i \in DOMAIN agent_history_items :
           agent_history_items[i].res # last_result
           Dropped ==
      /\ results # << >> /\ results' = << >>
      /\ last_result'.out # llm_calls
           Reason ==
      \/ pc \in {"acting", "between"} /\ last_result' = ErrorResult
      \/ pc = "between" /\ last_result' = last_result
         /\ (paused \/ stopped \/ interrupts' # interrupts)
<1>1. Init => TInv
  BY DEF Init, TInv, NoResult, Result, WithState
<1>2. IInv /\ TInv /\ [Next]_vars => [Untold => pc \in Preparing]_vars
  BY ResultSteps DEF ResultKept, TInv, Told, InStep, IInv
<1>3. IInv /\ TInv /\ [Next]_vars => [Dropped => Reason]_vars
  BY GivenUp DEF TInv, Goes
<1> QED
  BY <1>1, <1>2, <1>3, ToldNext, Invariance, PTL DEF Spec, ResultsGivenUp
=============================================================================
