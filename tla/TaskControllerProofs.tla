------------------------ MODULE TaskControllerProofs ------------------------
(***************************************************************************)
(* Four parts.  The slot and the queue of the controller are consistent,   *)
(* for every set of ids: WorkConserving, EveryTaskHasItsPlace and          *)
(* OneRunAtItsRevision hold in every reachable state.  A finished task is  *)
(* final and a card acts at its revision (TerminalIsFinal and              *)
(* CardsActAtTheirRevision).  A suspended task waits for one thing         *)
(* (OneThingToUnblock, ConflictStopsCoder, OneLiveCardPerEffect).  The     *)
(* assertion of the reducer fails in one situation only (OnlyCancelWedges),*)
(* and a recovery stops what was at work.                                  *)
(*                                                                         *)
(* Type correctness comes first: each decision commits well formed events, *)
(* and a well formed event keeps the state well formed (ApplyDecisionTyped, *)
(* in ControllerStateProofs).                                              *)
(*                                                                         *)
(* Half of the argument is the controller's own assertion: while wedged is *)
(* FALSE, StateInvariants held after the last event.  The other half is    *)
(* SlotDiscipline, the converses that the assertion does not check (a live *)
(* task owns the slot, a queued task is in the queue, a running run is the *)
(* active one).  Each event keeps it under a condition that the decision   *)
(* committing the event guarantees.                                        *)
(***************************************************************************)
EXTENDS TaskController, ControllerStateProofs

-----------------------------------------------------------------------------
(* Type correctness.                                                       *)

\* Committing well formed events preserves type correctness.
LEMMA CommitTyped ==
    ASSUME TypeOK, NEW events \in Seq(Events) \ {<<>>}, Commit(events)
    PROVE  TypeOK'
<1> DEFINE memory == ApplyDecision([state |-> state, ok |-> TRUE], events)
<1>1. [state |-> state, ok |-> TRUE] \in [state : ControllerStates, ok : BOOLEAN]
  BY DEF TypeOK
<1>2. memory \in [state : ControllerStates, ok : BOOLEAN]
  BY <1>1, ApplyDecisionTyped
<1>3. state' = memory.state /\ wedged' = ~memory.ok
  BY DEF Commit
<1> HIDE DEF memory
<1> QED BY <1>2, <1>3 DEF TypeOK

\* The controller state is well formed in every reachable state, for any ids
\* and any number of revisions.
THEOREM TypeCorrect == Spec => []TypeOK
<1>1. Init => TypeOK
  BY EmptyStateTyped DEF Init, TypeOK
<1>2. TypeOK /\ [Next]_vars => TypeOK'
  <2> SUFFICES ASSUME TypeOK, [Next]_vars
               PROVE  TypeOK'
    OBVIOUS
  <2> USE CommitTyped
  <2>0. state \in ControllerStates
    BY DEF TypeOK
  <2>1. ASSUME NEW profile \in Profiles, Submit(profile)
        PROVE  TypeOK'
    BY <2>0, <2>1, SubmitTyped DEF Submit
  <2>2. ASSUME NEW t \in TaskIds, NEW operation \in MoveOperations,
               NEW anchor \in TaskIds \cup {None}, MoveQueue(t, operation, anchor)
        PROVE  TypeOK'
    BY <2>0, <2>2, MoveQueueTyped DEF MoveQueue
  <2>3. ASSUME NEW t \in TaskIds, NEW expected \in Revisions,
               \/ RequestPause(t, expected)
               \/ Resume(t, expected)
               \/ \E profile \in Profiles : Revise(t, expected, profile)
               \/ \E q \in QuestionIds : AnswerQuestion(t, q, expected)
        PROVE  TypeOK'
    BY <2>0, <2>3, UserDecisionsTyped DEF RequestPause, Resume, Revise, AnswerQuestion
  <2>4. ASSUME NEW t \in TaskIds, NEW expected \in Revisions, Cancel(t, expected)
        PROVE  TypeOK'
    BY <2>0, <2>4, CancelTyped DEF Cancel
  <2>5. ASSUME NEW c \in ConfirmationIds, NEW decision \in {"approve", "reject"},
               NEW expected \in Revisions, ResolveApproval(c, decision, expected)
        PROVE  TypeOK'
    BY <2>0, <2>5, ResolveApprovalTyped DEF ResolveApproval
  <2>6. ASSUME NEW t \in TaskIds,
               \/ PauseAtSafeBoundary(t)
               \/ ReportWorkspaceConflict(t)
               \/ \E q \in QuestionIds : AwaitUserInput(t, q)
               \/ \E r \in RunIds : RecordCoderSession(t, r)
               \/ \E f \in Fingerprints :
                     RequestApproval(t, f) \/ \E c \in ConfirmationIds : ConsumeApproval(t, c, f)
        PROVE  TypeOK'
    BY <2>0, <2>6, CoderDecisionsTyped
       DEF PauseAtSafeBoundary, ReportWorkspaceConflict, AwaitUserInput,
           RecordCoderSession, RequestApproval, ConsumeApproval
  <2>7. ASSUME NEW t \in TaskIds, CompleteTask(t) \/ FailTask(t)
        PROVE  TypeOK'
    BY <2>0, <2>7, FinishTyped DEF CompleteTask, FailTask
  <2>8. ASSUME RecoverAfterRestart
        PROVE  TypeOK'
    BY <2>0, <2>8, RecoverTyped DEF RecoverAfterRestart
  <2>9. ASSUME UNCHANGED vars
        PROVE  TypeOK'
    BY <2>9 DEF vars, TypeOK
  <2>10. CASE UserStep
    BY <2>10, <2>1, <2>2, <2>3, <2>4, <2>5 DEF UserStep
  <2>11. CASE CoderStep
    BY <2>11, <2>6, <2>7 DEF CoderStep
  <2> QED BY <2>8, <2>9, <2>10, <2>11 DEF Next
<1> QED BY <1>1, <1>2, PTL DEF Spec

-----------------------------------------------------------------------------
(* Slot and queue.                                                         *)

InQueue(queue, t) == \E i \in DOMAIN queue : queue[i] = t

NoRunRunning(s) == \A r \in RunIds : s.runs[r].state # "running"

RunsDiscipline(s) ==
    \A r \in RunIds : s.runs[r].state = "running" =>
        /\ s.activeTaskId = s.runs[r].taskId
        /\ s.tasks[s.runs[r].taskId].activeRunId = r
        /\ s.tasks[s.runs[r].taskId].revision = s.runs[r].taskRevision

SlotDiscipline(s) ==
    /\ \A t \in TaskIds : s.tasks[t].state \in LiveStates <=> s.activeTaskId = t
    /\ \A t \in TaskIds : s.tasks[t].state = "queued" => InQueue(s.queue, t)
    /\ RunsDiscipline(s)
    /\ \A t \in TaskIds : s.tasks[t].activeRunId # None =>
          s.tasks[t].state \in {"running", "pause_requested"}

\* The discipline, and the handoff: the slot is free only when nobody waits.
SlotAndQueue(s) == SlotDiscipline(s) /\ (s.activeTaskId = None => s.queue = <<>>)

SlotInvariant == ~wedged => SlotAndQueue(state) /\ StateInvariants(state)

-----------------------------------------------------------------------------
(* Each event keeps the discipline.                                        *)

\* Events that leave the slot, the queue, the runs, and the state, the run and
\* the revision of every task alone.
LEMMA QuietKeeps ==
    ASSUME NEW s, NEW n, SlotDiscipline(s),
           n.activeTaskId = s.activeTaskId, n.queue = s.queue, n.runs = s.runs,
           \A u \in TaskIds : /\ n.tasks[u].state = s.tasks[u].state
                              /\ n.tasks[u].activeRunId = s.tasks[u].activeRunId
                              /\ n.tasks[u].revision = s.tasks[u].revision,
           \A r \in RunIds : s.runs[r].state = "running" => s.runs[r].taskId \in TaskIds
    PROVE  SlotDiscipline(n)
BY DEF SlotDiscipline, RunsDiscipline

\* A task gives up its run and stays live: it is paused, or waits for the user.
LEMMA SuspendKeeps ==
    ASSUME NEW s \in ControllerStates, NEW n, NEW t \in TaskIds,
           SlotDiscipline(s), s.activeTaskId = t,
           n.activeTaskId = s.activeTaskId, n.queue = s.queue,
           n.tasks[t].state \in {"paused", "awaiting_user"}, n.tasks[t].activeRunId = None,
           \A u \in TaskIds : u # t => n.tasks[u] = s.tasks[u],
           NoRunRunning(n)
    PROVE  SlotDiscipline(n)
BY DEF SlotDiscipline, RunsDiscipline, NoRunRunning, LiveStates

\* A task ends.
LEMMA RetireKeeps ==
    ASSUME NEW s \in ControllerStates, NEW n, NEW t \in TaskIds, SlotDiscipline(s),
           n.activeTaskId = IF s.activeTaskId = t THEN None ELSE s.activeTaskId,
           n.queue = RemoveFromQueue(s.queue, t),
           n.tasks[t].state \in TerminalStates, n.tasks[t].activeRunId = None,
           \A u \in TaskIds : u # t => n.tasks[u] = s.tasks[u],
           \A r \in RunIds : n.runs[r].state = "running" =>
               /\ s.runs[r].state = "running"
               /\ n.runs[r].taskId = s.runs[r].taskId
               /\ n.runs[r].taskRevision = s.runs[r].taskRevision
               /\ n.runs[r].taskId \in TaskIds \ {t}
    PROVE  SlotDiscipline(n)
<1>1. \A u \in TaskIds : n.tasks[u].state \in LiveStates <=> n.activeTaskId = u
  BY NoneAssumption DEF SlotDiscipline, LiveStates, TerminalStates
<1>2. ASSUME NEW u \in TaskIds, n.tasks[u].state = "queued"
      PROVE  InQueue(n.queue, u)
  <2>1. u # t
    BY <1>2 DEF TerminalStates
  <2>2. s.tasks[u].state = "queued"
    BY <1>2, <2>1
  <2>3. InQueue(s.queue, u)
    BY <2>2 DEF SlotDiscipline
  <2> QED BY <2>1, <2>3, FieldsTyped, RemoveFromQueueProperties DEF InQueue
<1>3. RunsDiscipline(n)
  BY DEF SlotDiscipline, RunsDiscipline
<1>4. \A u \in TaskIds : n.tasks[u].activeRunId # None =>
         n.tasks[u].state \in {"running", "pause_requested"}
  BY DEF SlotDiscipline
<1> QED BY <1>1, <1>2, <1>3, <1>4 DEF SlotDiscipline

\* A task takes the free slot, or goes on in the slot it has, with a new run.
LEMMA StartKeeps ==
    ASSUME NEW s \in ControllerStates, NEW e, e.taskId \in TaskIds, e.runId \in RunIds,
           SlotDiscipline(s), NoRunRunning(s),
           s.activeTaskId \in {None, e.taskId},
           e.revision = s.tasks[e.taskId].revision
    PROVE  /\ SlotDiscipline(TaskStarted(s, e))
           /\ TaskStarted(s, e).activeTaskId = e.taskId
<1> DEFINE n == TaskStarted(s, e)
           t == e.taskId
<1>1. /\ n.activeTaskId = t
      /\ n.queue = RemoveFromQueue(s.queue, t)
      /\ n.tasks = [s.tasks EXCEPT ![t] = [s.tasks[t] EXCEPT !.state = "running",
                       !.pendingQuestion = FALSE, !.activeRunId = e.runId,
                       !.lastRunId = e.runId]]
      /\ n.runs = [s.runs EXCEPT ![e.runId] =
                       [taskId |-> t, taskRevision |-> e.revision, state |-> "running"]]
  BY DEF TaskStarted, SetTask, ControllerStates
<1>2. /\ n.tasks[t].state = "running"
      /\ n.tasks[t].activeRunId = e.runId
      /\ n.tasks[t].revision = e.revision
  <2>1. s.tasks \in [TaskIds -> Task] /\ s.tasks[t] \in Task
    BY FieldsTyped
  <2> QED BY <1>1, <2>1 DEF Task
<1>3. \A u \in TaskIds : u # t => n.tasks[u] = s.tasks[u]
  BY <1>1, FieldsTyped
<1>4. ASSUME NEW r \in RunIds, n.runs[r].state = "running"
      PROVE  r = e.runId /\ n.runs[r].taskId = t /\ n.runs[r].taskRevision = e.revision
  BY <1>1, <1>4, FieldsTyped DEF NoRunRunning
<1> HIDE DEF n
<1>5. \A u \in TaskIds : n.tasks[u].state \in LiveStates <=> n.activeTaskId = u
  BY <1>1, <1>2, <1>3, NoneAssumption DEF SlotDiscipline, LiveStates
<1>6. ASSUME NEW u \in TaskIds, n.tasks[u].state = "queued"
      PROVE  InQueue(n.queue, u)
  <2>1. u # t
    BY <1>2, <1>6
  <2>2. InQueue(s.queue, u)
    BY <1>3, <1>6, <2>1 DEF SlotDiscipline
  <2>3. s.queue \in Seq(TaskIds)
    BY FieldsTyped
  <2>4. PICK i \in DOMAIN s.queue : s.queue[i] = u
    BY <2>2 DEF InQueue
  <2>5. \E j \in DOMAIN RemoveFromQueue(s.queue, t) :
           RemoveFromQueue(s.queue, t)[j] = s.queue[i]
    BY <2>1, <2>3, <2>4, RemoveFromQueueProperties
  <2> QED BY <1>1, <2>4, <2>5 DEF InQueue
<1>7. RunsDiscipline(n)
  BY <1>1, <1>2, <1>4 DEF RunsDiscipline
<1>8. \A u \in TaskIds : n.tasks[u].activeRunId # None =>
         n.tasks[u].state \in {"running", "pause_requested"}
  BY <1>2, <1>3 DEF SlotDiscipline
<1>9. SlotDiscipline(n)
  BY <1>5, <1>6, <1>7, <1>8 DEF SlotDiscipline
<1> QED BY <1>1, <1>9 DEF n

\* A run that is running belongs to the task in the slot.
LEMMA RunningIsActive ==
    ASSUME NEW s \in ControllerStates, SlotDiscipline(s),
           NEW r \in RunIds, s.runs[r].state = "running"
    PROVE  /\ s.runs[r].taskId \in TaskIds
           /\ s.activeTaskId = s.runs[r].taskId
           /\ r = s.tasks[s.activeTaskId].activeRunId
           /\ s.tasks[s.activeTaskId].state \in {"running", "pause_requested"}
<1>1. s.runs[r] \in Run /\ s.runs[r] # NoRun
  BY FieldsTyped DEF NoRun
<1>2. s.runs[r].taskId \in TaskIds
  BY <1>1 DEF Run
<1>3. s.activeTaskId = s.runs[r].taskId /\ s.tasks[s.activeTaskId].activeRunId = r
  BY DEF SlotDiscipline, RunsDiscipline
<1>4. r # None
  BY NoneAssumption
<1> QED BY <1>2, <1>3, <1>4 DEF SlotDiscipline

\* task.paused, for the only run that can be running.
LEMMA PausedKeeps ==
    ASSUME NEW s \in ControllerStates, NEW e, e.taskId \in TaskIds, e.runId \in RunIds,
           SlotDiscipline(s), s.activeTaskId = e.taskId,
           \A r \in RunIds : s.runs[r].state = "running" => r = e.runId,
           s.runs[e.runId].state # "none"
    PROVE  /\ SlotDiscipline(TaskPaused(s, e))
           /\ TaskPaused(s, e).activeTaskId = s.activeTaskId
           /\ TaskPaused(s, e).queue = s.queue
<1> DEFINE ended == IF s.runs[e.runId].state = "interrupted" THEN s
                    ELSE EndRun(s, e.runId, "paused")
           task == [s.tasks[e.taskId] EXCEPT !.state = "paused", !.activeRunId = None]
           n == SetTask(ended, e.taskId, task)
<1>1. ended \in ControllerStates
  BY EndRunTyped DEF RunStates
<1>2. /\ ended.activeTaskId = s.activeTaskId /\ ended.queue = s.queue
      /\ ended.tasks = s.tasks
  BY EndRunEffect DEF RunStates
<1>3. NoRunRunning(ended)
  BY EndRunRuns DEF NoRunRunning, RunStates
<1>4. task \in Task /\ task.state = "paused" /\ task.activeRunId = None
  <2>1. s.tasks[e.taskId] \in Task
    BY FieldsTyped
  <2> QED BY <2>1 DEF Task, TaskStates, LiveStates
<1> HIDE DEF ended, task
<1>5. /\ n.activeTaskId = s.activeTaskId /\ n.queue = s.queue
      /\ n.tasks = [s.tasks EXCEPT ![e.taskId] = task]
      /\ n.runs = ended.runs
  BY <1>1, <1>2, <1>4, SetTaskEffect
<1> HIDE DEF n
<1>6. \A u \in TaskIds : n.tasks[u] = IF u = e.taskId THEN task ELSE s.tasks[u]
  BY <1>5, FieldsTyped
<1>7. NoRunRunning(n)
  BY <1>3, <1>5 DEF NoRunRunning
<1>8. SlotDiscipline(n)
  <2>1. /\ n.tasks[e.taskId].state \in {"paused", "awaiting_user"}
        /\ n.tasks[e.taskId].activeRunId = None
        /\ \A u \in TaskIds : u # e.taskId => n.tasks[u] = s.tasks[u]
    BY <1>4, <1>6
  <2> QED BY <1>5, <1>7, <2>1, SuspendKeeps
<1>9. TaskPaused(s, e) = n
  BY DEF TaskPaused, n, ended, task
<1> QED BY <1>5, <1>8, <1>9

\* task.awaitingUser, and task.questionAsked, which stores the question as well
LEMMA AwaitingKeeps ==
    ASSUME NEW s \in ControllerStates, NEW e, e.taskId \in TaskIds, e.runId \in RunIds,
           SlotDiscipline(s), s.activeTaskId = e.taskId,
           \A r \in RunIds : s.runs[r].state = "running" => r = e.runId,
           s.runs[e.runId].state # "none"
    PROVE  /\ SlotDiscipline(TaskAwaitingUser(s, e))
           /\ TaskAwaitingUser(s, e).activeTaskId = s.activeTaskId
           /\ TaskAwaitingUser(s, e).queue = s.queue
           /\ SlotDiscipline(TaskQuestionAsked(s, e))
           /\ TaskQuestionAsked(s, e).activeTaskId = s.activeTaskId
           /\ TaskQuestionAsked(s, e).queue = s.queue
<1> DEFINE ended == EndRun(s, e.runId, "paused")
           task == [s.tasks[e.taskId] EXCEPT !.state = "awaiting_user",
                        !.pendingQuestion = TRUE, !.activeRunId = None]
           n == SetTask(ended, e.taskId, task)
           asked == TaskQuestionAsked(s, e)
<1>1. ended \in ControllerStates
  BY EndRunTyped DEF RunStates
<1>2. /\ ended.activeTaskId = s.activeTaskId /\ ended.queue = s.queue
      /\ ended.tasks = s.tasks
  BY EndRunEffect DEF RunStates
<1>3. NoRunRunning(ended)
  BY EndRunRuns DEF NoRunRunning, RunStates
<1>4. task \in Task /\ task.state = "awaiting_user" /\ task.activeRunId = None
  <2>1. s.tasks[e.taskId] \in Task
    BY FieldsTyped
  <2> QED BY <2>1 DEF Task, TaskStates, LiveStates
<1>5. TaskAwaitingUser(s, e) = n
  BY DEF TaskAwaitingUser
<1>6. n \in ControllerStates
  BY <1>5, TaskAwaitingUserTyped
<1> HIDE DEF ended, task
<1>7. /\ n.activeTaskId = s.activeTaskId /\ n.queue = s.queue
      /\ n.tasks = [s.tasks EXCEPT ![e.taskId] = task]
      /\ n.runs = ended.runs
  BY <1>1, <1>2, <1>4, SetTaskEffect
<1> HIDE DEF n
<1>8. \A u \in TaskIds : n.tasks[u] = IF u = e.taskId THEN task ELSE s.tasks[u]
  BY <1>7, FieldsTyped
<1>9. NoRunRunning(n)
  BY <1>3, <1>7 DEF NoRunRunning
<1>10. SlotDiscipline(n)
  <2>1. /\ n.tasks[e.taskId].state \in {"paused", "awaiting_user"}
        /\ n.tasks[e.taskId].activeRunId = None
        /\ \A u \in TaskIds : u # e.taskId => n.tasks[u] = s.tasks[u]
    BY <1>4, <1>8
  <2> QED BY <1>7, <1>9, <2>1, SuspendKeeps
<1>11. /\ asked.activeTaskId = n.activeTaskId /\ asked.queue = n.queue
       /\ asked.tasks = n.tasks /\ asked.runs = n.runs
  BY <1>5, <1>6 DEF TaskQuestionAsked, ControllerStates
<1> HIDE DEF asked
<1>12. SlotDiscipline(asked)
  BY <1>10, <1>11 DEF SlotDiscipline, RunsDiscipline
<1> QED BY <1>5, <1>7, <1>10, <1>11, <1>12 DEF asked

\* A task whose active run has ended with it.
LEMMA FinishedKeeps ==
    ASSUME NEW s \in ControllerStates, NEW t \in TaskIds, NEW r \in RunIds,
           SlotDiscipline(s), s.activeTaskId = t,
           \A q \in RunIds : s.runs[q].state = "running" => q = r,
           s.runs[r].state # "none",
           NEW outcome \in {"completed", "failed", "cancelled"}
    PROVE  LET n == Retire(EndRun(s, r, outcome), t, outcome)
           IN  /\ SlotDiscipline(n)
               /\ NoRunRunning(n)
               /\ n.activeTaskId = None
               /\ n.queue = RemoveFromQueue(s.queue, t)
               /\ \A u \in TaskIds : n.tasks[u].revision = s.tasks[u].revision
<1> DEFINE ended == EndRun(s, r, outcome)
           task == [s.tasks[t] EXCEPT !.state = outcome, !.activeRunId = None,
                                      !.pendingQuestion = FALSE]
           n == Retire(ended, t, outcome)
<1>0. outcome \in RunStates \ {"none", "running"} /\ outcome \in TerminalStates
  BY DEF RunStates, TerminalStates
<1>1. ended \in ControllerStates
  BY <1>0, EndRunTyped
<1>2. /\ ended.activeTaskId = s.activeTaskId /\ ended.queue = s.queue
      /\ ended.tasks = s.tasks
  BY <1>0, EndRunEffect
<1>3. NoRunRunning(ended)
  BY <1>0, EndRunRuns DEF NoRunRunning
<1>4. /\ task.state = outcome /\ task.activeRunId = None
      /\ task.revision = s.tasks[t].revision
  <2>1. s.tasks[t] \in Task
    BY FieldsTyped
  <2> QED BY <2>1 DEF Task
<1> HIDE DEF ended
<1>5. /\ n.activeTaskId = IF s.activeTaskId = t THEN None ELSE s.activeTaskId
      /\ n.queue = RemoveFromQueue(s.queue, t)
      /\ n.tasks = [s.tasks EXCEPT ![t] = task]
      /\ n.runs = ended.runs
  <2>1. /\ n.activeTaskId = IF ended.activeTaskId = t THEN None ELSE ended.activeTaskId
        /\ n.queue = RemoveFromQueue(ended.queue, t)
        /\ n.tasks = [ended.tasks EXCEPT ![t] = [ended.tasks[t] EXCEPT
                         !.state = outcome, !.activeRunId = None,
                         !.pendingQuestion = FALSE]]
        /\ n.runs = ended.runs
    BY <1>1 DEF Retire, SetTask, ControllerStates
  <2> HIDE DEF n
  <2> QED BY <1>2, <2>1
<1> HIDE DEF n, task
<1>6. \A u \in TaskIds : n.tasks[u] = IF u = t THEN task ELSE s.tasks[u]
  BY <1>5, FieldsTyped
<1>7. NoRunRunning(n)
  BY <1>3, <1>5 DEF NoRunRunning
<1>8. SlotDiscipline(n)
  <2>1. n.tasks[t].state \in TerminalStates /\ n.tasks[t].activeRunId = None
    BY <1>4, <1>6 DEF TerminalStates
  <2>2. \A u \in TaskIds : u # t => n.tasks[u] = s.tasks[u]
    BY <1>6
  <2>3. \A q \in RunIds : n.runs[q].state = "running" =>
           /\ s.runs[q].state = "running"
           /\ n.runs[q].taskId = s.runs[q].taskId
           /\ n.runs[q].taskRevision = s.runs[q].taskRevision
           /\ n.runs[q].taskId \in TaskIds \ {t}
    BY <1>7 DEF NoRunRunning
  <2>4. /\ n.activeTaskId = IF s.activeTaskId = t THEN None ELSE s.activeTaskId
        /\ n.queue = RemoveFromQueue(s.queue, t)
    BY <1>5
  <2> QED BY <2>1, <2>2, <2>3, <2>4, RetireKeeps
<1>9. \A u \in TaskIds : n.tasks[u].revision = s.tasks[u].revision
  BY <1>4, <1>6
<1>10. n.activeTaskId = None
  BY <1>5
<1> QED BY <1>5, <1>7, <1>8, <1>9, <1>10 DEF n, ended

\* A task that ends without a run: a queued one, or one that waits for the user.
LEMMA DroppedKeeps ==
    ASSUME NEW s \in ControllerStates, NEW t \in TaskIds,
           SlotDiscipline(s), s.tasks[t].activeRunId = None
    PROVE  LET n == Retire(s, t, "cancelled")
           IN  /\ SlotDiscipline(n)
               /\ s.activeTaskId = t => NoRunRunning(n)
               /\ n.activeTaskId = IF s.activeTaskId = t THEN None ELSE s.activeTaskId
               /\ n.queue = RemoveFromQueue(s.queue, t)
               /\ \A u \in TaskIds : n.tasks[u].revision = s.tasks[u].revision
<1> DEFINE task == [s.tasks[t] EXCEPT !.state = "cancelled", !.activeRunId = None,
                                      !.pendingQuestion = FALSE]
           n == Retire(s, t, "cancelled")
<1>1. /\ task.state = "cancelled" /\ task.activeRunId = None
      /\ task.revision = s.tasks[t].revision
  <2>1. s.tasks[t] \in Task
    BY FieldsTyped
  <2> QED BY <2>1 DEF Task
<1>2. /\ n.activeTaskId = IF s.activeTaskId = t THEN None ELSE s.activeTaskId
      /\ n.queue = RemoveFromQueue(s.queue, t)
      /\ n.tasks = [s.tasks EXCEPT ![t] = task]
      /\ n.runs = s.runs
  BY RetireEffect DEF TerminalStates
<1> HIDE DEF n, task
<1>3. \A u \in TaskIds : n.tasks[u] = IF u = t THEN task ELSE s.tasks[u]
  BY <1>2, FieldsTyped
<1>4. ASSUME NEW r \in RunIds, s.runs[r].state = "running"
      PROVE  s.runs[r].taskId \in TaskIds \ {t} /\ s.activeTaskId # t
  BY <1>4, RunningIsActive, NoneAssumption
<1>5. SlotDiscipline(n)
  <2>1. n.tasks[t].state \in TerminalStates /\ n.tasks[t].activeRunId = None
    BY <1>1, <1>3 DEF TerminalStates
  <2> QED BY <1>2, <1>3, <1>4, <2>1, RetireKeeps
<1>6. s.activeTaskId = t => NoRunRunning(n)
  BY <1>2, <1>4 DEF NoRunRunning
<1>7. \A u \in TaskIds : n.tasks[u].revision = s.tasks[u].revision
  BY <1>1, <1>3
<1> QED BY <1>2, <1>5, <1>6, <1>7 DEF n

\* A quiet event keeps the discipline.
LEMMA QuietEventKeeps ==
    ASSUME NEW s \in ControllerStates, NEW e \in Events, e.type \in QuietTypes,
           SlotDiscipline(s)
    PROVE  LET n == Apply(s, e)
           IN  /\ SlotDiscipline(n)
               /\ n.activeTaskId = s.activeTaskId /\ n.queue = s.queue /\ n.runs = s.runs
               /\ \A u \in TaskIds : /\ n.tasks[u].state = s.tasks[u].state
                                     /\ n.tasks[u].activeRunId = s.tasks[u].activeRunId
                                     /\ n.tasks[u].revision = s.tasks[u].revision
<1> DEFINE n == Apply(s, e)
<1>1. /\ n.activeTaskId = s.activeTaskId /\ n.queue = s.queue /\ n.runs = s.runs
      /\ \A u \in TaskIds : /\ n.tasks[u].state = s.tasks[u].state
                            /\ n.tasks[u].activeRunId = s.tasks[u].activeRunId
                            /\ n.tasks[u].revision = s.tasks[u].revision
  BY QuietEffect
<1>2. \A r \in RunIds : s.runs[r].state = "running" => s.runs[r].taskId \in TaskIds
  BY RunningIsActive
<1> HIDE DEF n
<1>3. SlotDiscipline(n)
  BY <1>1, <1>2, QuietKeeps
<1> QED BY <1>1, <1>3 DEF n

\* The task in the slot is asked to pause.
LEMMA PauseRequestedKeeps ==
    ASSUME NEW s \in ControllerStates, NEW e, e.taskId \in TaskIds,
           SlotDiscipline(s), s.tasks[e.taskId].state = "running"
    PROVE  LET n == TaskPauseRequested(s, e)
           IN  /\ SlotDiscipline(n)
               /\ n.activeTaskId = s.activeTaskId /\ n.queue = s.queue
<1> DEFINE task == [s.tasks[e.taskId] EXCEPT !.state = "pause_requested"]
           n == SetTask(s, e.taskId, task)
<1>1. /\ task \in Task /\ task.state = "pause_requested"
      /\ task.activeRunId = s.tasks[e.taskId].activeRunId
      /\ task.revision = s.tasks[e.taskId].revision
  <2>1. s.tasks[e.taskId] \in Task
    BY FieldsTyped
  <2> QED BY <2>1 DEF Task, TaskStates, LiveStates
<1> HIDE DEF task
<1>2. /\ n.activeTaskId = s.activeTaskId /\ n.queue = s.queue /\ n.runs = s.runs
      /\ n.tasks = [s.tasks EXCEPT ![e.taskId] = task]
  BY <1>1, SetTaskEffect
<1> HIDE DEF n
<1>3. \A u \in TaskIds : n.tasks[u] = IF u = e.taskId THEN task ELSE s.tasks[u]
  BY <1>2, FieldsTyped
<1>4. \A u \in TaskIds : n.tasks[u].state \in LiveStates <=> n.activeTaskId = u
  BY <1>1, <1>2, <1>3 DEF SlotDiscipline, LiveStates
<1>5. \A u \in TaskIds : n.tasks[u].state = "queued" => InQueue(n.queue, u)
  BY <1>1, <1>2, <1>3 DEF SlotDiscipline
<1>6. RunsDiscipline(n)
  <2> SUFFICES ASSUME NEW r \in RunIds, n.runs[r].state = "running"
               PROVE  /\ n.activeTaskId = n.runs[r].taskId
                      /\ n.tasks[n.runs[r].taskId].activeRunId = r
                      /\ n.tasks[n.runs[r].taskId].revision = n.runs[r].taskRevision
    BY DEF RunsDiscipline
  <2>1. s.runs[r].state = "running" /\ s.runs[r].taskId \in TaskIds
    BY <1>2, RunningIsActive
  <2>2. /\ s.activeTaskId = s.runs[r].taskId
        /\ s.tasks[s.runs[r].taskId].activeRunId = r
        /\ s.tasks[s.runs[r].taskId].revision = s.runs[r].taskRevision
    BY <2>1 DEF SlotDiscipline, RunsDiscipline
  <2> QED BY <1>1, <1>2, <1>3, <2>1, <2>2
<1>7. \A u \in TaskIds : n.tasks[u].activeRunId # None =>
         n.tasks[u].state \in {"running", "pause_requested"}
  BY <1>1, <1>3 DEF SlotDiscipline
<1>8. SlotDiscipline(n)
  BY <1>4, <1>5, <1>6, <1>7 DEF SlotDiscipline
<1> QED BY <1>2, <1>8 DEF TaskPauseRequested, n, task

\* A task is revised while nothing runs.
LEMMA RevisedKeeps ==
    ASSUME NEW s \in ControllerStates, NEW e, e.taskId \in TaskIds, e.revision \in Nat,
           e.profile \in Profiles, SlotDiscipline(s), NoRunRunning(s)
    PROVE  LET n == TaskSpecRevised(s, e)
           IN  /\ SlotDiscipline(n)
               /\ n.activeTaskId = s.activeTaskId /\ n.queue = s.queue
<1> DEFINE task == [s.tasks[e.taskId] EXCEPT !.revision = e.revision,
                        !.profile = e.profile, !.pendingQuestion = FALSE]
           n == TaskSpecRevised(s, e)
<1>1. /\ n.activeTaskId = s.activeTaskId /\ n.queue = s.queue /\ n.runs = s.runs
      /\ n.tasks = [s.tasks EXCEPT ![e.taskId] = task]
  BY DEF TaskSpecRevised, SetTask, ControllerStates
<1>2. /\ task.state = s.tasks[e.taskId].state
      /\ task.activeRunId = s.tasks[e.taskId].activeRunId
  <2>1. s.tasks[e.taskId] \in Task
    BY FieldsTyped
  <2> QED BY <2>1 DEF Task
<1> HIDE DEF task, n
<1>3. \A u \in TaskIds : /\ n.tasks[u].state = s.tasks[u].state
                         /\ n.tasks[u].activeRunId = s.tasks[u].activeRunId
  BY <1>1, <1>2, FieldsTyped
<1>4. SlotDiscipline(n)
  BY <1>1, <1>3 DEF SlotDiscipline, RunsDiscipline, NoRunRunning
<1> QED BY <1>1, <1>4 DEF n

\* The active run is found interrupted after a restart.
LEMMA InterruptedKeeps ==
    ASSUME NEW s \in ControllerStates, NEW e, e.runId \in RunIds,
           SlotDiscipline(s), e.runId = s.tasks[s.activeTaskId].activeRunId
    PROVE  LET n == RunInterrupted(s, e)
           IN  /\ SlotDiscipline(n) /\ NoRunRunning(n)
               /\ n.activeTaskId = s.activeTaskId /\ n.queue = s.queue /\ n.tasks = s.tasks
               /\ n.runs[e.runId].state = "interrupted"
<1> DEFINE n == RunInterrupted(s, e)
<1>1. n.activeTaskId = s.activeTaskId /\ n.queue = s.queue /\ n.tasks = s.tasks
  BY EndRunEffect DEF RunInterrupted, RunStates
<1>2. \A r \in RunIds :
         n.runs[r].state = IF r = e.runId THEN "interrupted" ELSE s.runs[r].state
  BY EndRunRuns DEF RunInterrupted, RunStates
<1>3. \A r \in RunIds : s.runs[r].state = "running" => r = e.runId
  BY RunningIsActive
<1> HIDE DEF n
<1>4. NoRunRunning(n)
  BY <1>2, <1>3 DEF NoRunRunning
<1>5. SlotDiscipline(n)
  BY <1>1, <1>4 DEF SlotDiscipline, RunsDiscipline, NoRunRunning
<1> QED BY <1>1, <1>2, <1>4, <1>5 DEF n

\* A task is created and put in the queue.
LEMMA SubmittedKeeps ==
    ASSUME NEW s \in ControllerStates, NEW e \in CreatedEvents, NEW f \in EnqueuedEvents,
           e.taskId = f.taskId, s.tasks[e.taskId].state = "none", SlotDiscipline(s)
    PROVE  LET n == TaskEnqueued(TaskCreated(s, e), f)
           IN  /\ SlotDiscipline(n)
               /\ n.activeTaskId = s.activeTaskId /\ n.runs = s.runs
               /\ n.tasks[e.taskId].revision = e.revision
<1> DEFINE t == e.taskId
           created == [NoTask EXCEPT !.state = "queued", !.profile = e.profile,
                                     !.revision = e.revision]
           s1 == SetTask(s, t, created)
           task == [s1.tasks[t] EXCEPT !.state = "queued"]
           queue == InsertInQueue(RemoveFromQueue(s1.queue, t), t, f.position)
           s2 == SetTask(s1, t, task)
           n == [s2 EXCEPT !.queue = queue]
<1>1. /\ t \in TaskIds /\ e.profile \in Profiles /\ e.revision \in Nat
      /\ f.position \in Nat
  BY DEF CreatedEvents, EnqueuedEvents
<1>2. /\ created \in Task /\ created.state = "queued"
      /\ created.activeRunId = None /\ created.revision = e.revision
  BY <1>1 DEF NoTask, Task, TaskStates
<1>3. s1 \in ControllerStates
  BY <1>1, <1>2, SetTaskTyped
<1> HIDE DEF created
<1>4. /\ s1.activeTaskId = s.activeTaskId /\ s1.queue = s.queue /\ s1.runs = s.runs
      /\ s1.tasks = [s.tasks EXCEPT ![t] = created]
  BY <1>1, <1>2, SetTaskEffect
<1> HIDE DEF s1
<1>5. \A u \in TaskIds : s1.tasks[u] = IF u = t THEN created ELSE s.tasks[u]
  BY <1>4, FieldsTyped
<1>6. /\ task \in Task /\ task.state = "queued"
      /\ task.activeRunId = None /\ task.revision = e.revision
  BY <1>1, <1>2, <1>5 DEF Task
<1> HIDE DEF task
<1>7. s2 \in ControllerStates
  BY <1>1, <1>3, <1>6, SetTaskTyped
<1>8. /\ s2.activeTaskId = s1.activeTaskId /\ s2.runs = s1.runs
      /\ s2.tasks = [s1.tasks EXCEPT ![t] = task]
  BY <1>1, <1>3, <1>6, SetTaskEffect
<1> HIDE DEF s2
<1>9. \A u \in TaskIds : s2.tasks[u] = IF u = t THEN task ELSE s1.tasks[u]
  BY <1>3, <1>8, FieldsTyped
<1>10. n.queue = queue /\ n.activeTaskId = s2.activeTaskId /\ n.runs = s2.runs /\ n.tasks = s2.tasks
  BY <1>7 DEF ControllerStates
<1> HIDE DEF n
<1>11. \A u \in TaskIds : n.tasks[u] = IF u = t THEN task ELSE s.tasks[u]
  BY <1>5, <1>9, <1>10
<1>12. \A u \in TaskIds : n.tasks[u].state \in LiveStates <=> n.activeTaskId = u
  <2>1. s.activeTaskId # t
    BY <1>1 DEF SlotDiscipline, LiveStates
  <2> QED BY <1>4, <1>6, <1>8, <1>10, <1>11, <2>1 DEF SlotDiscipline, LiveStates
<1>13. ASSUME NEW u \in TaskIds, n.tasks[u].state = "queued"
       PROVE  InQueue(n.queue, u)
  <2> DEFINE rest == RemoveFromQueue(s.queue, t)
  <2>1. s.queue \in Seq(TaskIds)
    BY FieldsTyped
  <2>2. rest \in Seq(TaskIds)
    BY <1>1, <2>1, RemoveFromQueueProperties
  <2>3. n.queue = InsertInQueue(rest, t, f.position)
    BY <1>4, <1>10
  <2>4. CASE u = t
    <3>1. \E j \in DOMAIN InsertInQueue(rest, t, f.position) :
             InsertInQueue(rest, t, f.position)[j] = t
      BY <1>1, <2>2, InsertInQueueProperties
    <3> HIDE DEF rest, t
    <3> QED BY <2>3, <2>4, <3>1 DEF InQueue
  <2>5. CASE u # t
    <3>1. PICK i \in DOMAIN s.queue : s.queue[i] = u
      BY <1>11, <1>13, <2>5 DEF SlotDiscipline, InQueue
    <3>2. PICK j \in DOMAIN rest : rest[j] = u
      BY <1>1, <2>1, <2>5, <3>1, RemoveFromQueueProperties
    <3>3. \E k \in DOMAIN InsertInQueue(rest, t, f.position) :
             InsertInQueue(rest, t, f.position)[k] = rest[j]
      BY <1>1, <2>2, InsertInQueueProperties
    <3> HIDE DEF rest, t
    <3> QED BY <2>3, <3>2, <3>3 DEF InQueue
  <2> QED BY <2>4, <2>5
<1>14. RunsDiscipline(n)
  <2> SUFFICES ASSUME NEW r \in RunIds, n.runs[r].state = "running"
               PROVE  /\ n.activeTaskId = n.runs[r].taskId
                      /\ n.tasks[n.runs[r].taskId].activeRunId = r
                      /\ n.tasks[n.runs[r].taskId].revision = n.runs[r].taskRevision
    BY DEF RunsDiscipline
  <2>1. n.runs = s.runs /\ n.activeTaskId = s.activeTaskId
    BY <1>4, <1>8, <1>10
  <2>2. s.runs[r].taskId \in TaskIds /\ s.activeTaskId = s.runs[r].taskId
    BY <2>1, RunningIsActive
  <2>3. s.runs[r].taskId # t
    BY <2>2 DEF SlotDiscipline, LiveStates
  <2> QED BY <1>11, <2>1, <2>2, <2>3 DEF SlotDiscipline, RunsDiscipline
<1>15. \A u \in TaskIds : n.tasks[u].activeRunId # None =>
          n.tasks[u].state \in {"running", "pause_requested"}
  BY <1>6, <1>11 DEF SlotDiscipline
<1>16. SlotDiscipline(n)
  BY <1>12, <1>13, <1>14, <1>15 DEF SlotDiscipline
<1>17. n.tasks[t].revision = e.revision
  BY <1>1, <1>6, <1>11
<1>18. n.activeTaskId = s.activeTaskId /\ n.runs = s.runs
  BY <1>4, <1>8, <1>10
<1>19. TaskEnqueued(TaskCreated(s, e), f) = n
  BY DEF TaskEnqueued, TaskCreated, n, s2, s1, task, created
<1> QED BY <1>16, <1>17, <1>18, <1>19

\* The queue is rewritten with no task left out.
LEMMA ReorderedKeeps ==
    ASSUME NEW s \in ControllerStates, NEW e, SlotDiscipline(s),
           \A u \in TaskIds : InQueue(s.queue, u) => InQueue(e.taskIds, u)
    PROVE  SlotDiscipline(QueueReordered(s, e))
<1> DEFINE n == QueueReordered(s, e)
<1>1. /\ n.activeTaskId = s.activeTaskId /\ n.queue = e.taskIds
      /\ n.tasks = s.tasks /\ n.runs = s.runs
  BY DEF QueueReordered, ControllerStates
<1> HIDE DEF n
<1>2. SlotDiscipline(n)
  BY <1>1 DEF SlotDiscipline, RunsDiscipline
<1> QED BY <1>2 DEF n

-----------------------------------------------------------------------------
(* What a committed decision did, when applying it did not throw.          *)

\* A decision of one event, applied without a throw.
LEMMA CommittedOne ==
    ASSUME state \in ControllerStates, NEW e \in Events, Commit(<<e>>), ~wedged'
    PROVE  /\ ~wedged /\ Fits(state, e)
           /\ state' = Apply(state, e) /\ state' \in ControllerStates
           /\ StateInvariants(state')
<1> DEFINE m == [state |-> state, ok |-> TRUE]
<1>1. m \in [state : ControllerStates, ok : BOOLEAN]
  OBVIOUS
<1>2. ApplyDecision(m, <<e>>) = ApplyChecked(m, e)
  BY DecisionOfOne
<1>3. /\ ~wedged /\ state' = ApplyChecked(m, e).state /\ ApplyChecked(m, e).ok
  BY <1>2 DEF Commit
<1> QED BY <1>1, <1>3, CheckedApplied

\* A decision of two events, applied without a throw.
LEMMA CommittedTwo ==
    ASSUME state \in ControllerStates, NEW e \in Events, NEW f \in Events,
           Commit(<<e, f>>), ~wedged'
    PROVE  /\ ~wedged /\ Fits(state, e) /\ Apply(state, e) \in ControllerStates
           /\ Fits(Apply(state, e), f)
           /\ state' = Apply(Apply(state, e), f) /\ state' \in ControllerStates
           /\ StateInvariants(state')
<1> DEFINE m == [state |-> state, ok |-> TRUE]
           m1 == ApplyChecked(m, e)
<1>1. m \in [state : ControllerStates, ok : BOOLEAN]
  OBVIOUS
<1>2. m1 \in [state : ControllerStates, ok : BOOLEAN]
  BY <1>1, ApplyCheckedTyped
<1>3. ApplyDecision(m, <<e, f>>) = ApplyChecked(m1, f)
  BY DecisionOfTwo
<1>4. ~wedged /\ state' = ApplyChecked(m1, f).state /\ ApplyChecked(m1, f).ok
  BY <1>3 DEF Commit
<1> HIDE DEF m1
<1>5. /\ m1.ok /\ Fits(m1.state, f) /\ state' = Apply(m1.state, f)
      /\ state' \in ControllerStates /\ StateInvariants(state')
  BY <1>2, <1>4, CheckedApplied
<1>6. /\ Fits(state, e) /\ m1.state = Apply(state, e)
      /\ Apply(state, e) \in ControllerStates
  BY <1>1, <1>5, CheckedApplied DEF m1
<1> QED BY <1>4, <1>5, <1>6

\* A decision of three events, applied without a throw.
LEMMA CommittedThree ==
    ASSUME state \in ControllerStates, NEW e \in Events, NEW f \in Events, NEW g \in Events,
           Commit(<<e, f, g>>), ~wedged'
    PROVE  LET s1 == Apply(state, e)
               s2 == Apply(s1, f)
           IN  /\ ~wedged /\ Fits(state, e) /\ s1 \in ControllerStates
               /\ Fits(s1, f) /\ s2 \in ControllerStates
               /\ Fits(s2, g)
               /\ state' = Apply(s2, g) /\ state' \in ControllerStates
               /\ StateInvariants(state')
<1> DEFINE m == [state |-> state, ok |-> TRUE]
           m1 == ApplyChecked(m, e)
           m2 == ApplyChecked(m1, f)
<1>1. m \in [state : ControllerStates, ok : BOOLEAN]
  OBVIOUS
<1>2. m1 \in [state : ControllerStates, ok : BOOLEAN]
  BY <1>1, ApplyCheckedTyped
<1>3. m2 \in [state : ControllerStates, ok : BOOLEAN]
  <2> HIDE DEF m1
  <2> QED BY <1>2, ApplyCheckedTyped
<1>4. ApplyDecision(m, <<e, f, g>>) = ApplyChecked(m2, g)
  BY DecisionOfThree
<1>5. ~wedged /\ state' = ApplyChecked(m2, g).state /\ ApplyChecked(m2, g).ok
  BY <1>4 DEF Commit
<1> HIDE DEF m2
<1>6. /\ m2.ok /\ Fits(m2.state, g) /\ state' = Apply(m2.state, g)
      /\ state' \in ControllerStates /\ StateInvariants(state')
  BY <1>3, <1>5, CheckedApplied
<1> HIDE DEF m1
<1>7. /\ m1.ok /\ Fits(m1.state, f) /\ m2.state = Apply(m1.state, f)
      /\ m2.state \in ControllerStates
  BY <1>2, <1>6, CheckedApplied DEF m2
<1>8. /\ Fits(state, e) /\ m1.state = Apply(state, e)
      /\ Apply(state, e) \in ControllerStates
  BY <1>1, <1>7, CheckedApplied DEF m1
<1> QED BY <1>5, <1>6, <1>7, <1>8

-----------------------------------------------------------------------------
(* Each decision keeps the slot and the queue.                             *)

\* Nothing runs while the task in the slot is suspended, or nobody is in it.
LEMMA NobodyRuns ==
    ASSUME NEW s \in ControllerStates, SlotDiscipline(s),
           \/ s.activeTaskId = None
           \/ s.tasks[s.activeTaskId].state \in {"paused", "awaiting_user"}
    PROVE  NoRunRunning(s)
BY RunningIsActive, NoneAssumption DEF NoRunRunning

\* A suspended task goes on, after an event that is not about its state.
LEMMA QuietThenResume ==
    ASSUME state \in ControllerStates, SlotAndQueue(state), NEW t \in TaskIds,
           Resumable(state, t), RunLeft(state), NEW e \in Events, e.type \in QuietTypes,
           Commit(<<e, ResumeEvent(state, t)>>), ~wedged'
    PROVE  SlotAndQueue(state') /\ StateInvariants(state')
<1> DEFINE s1 == Apply(state, e)
           f == ResumeEvent(state, t)
<1>1. f \in Events
  BY StartAndResumeTyped
<1>2. /\ f.type = "task.resumed" /\ f.taskId = t /\ f.runId \in RunIds
      /\ f.revision = state.tasks[t].revision
  BY NewIds DEF ResumeEvent
<1>3. /\ s1 \in ControllerStates /\ state' = Apply(s1, f) /\ StateInvariants(state')
  BY <1>1, CommittedTwo
<1>4. SlotDiscipline(state) /\ NoRunRunning(state) /\ state.activeTaskId = t
  BY NobodyRuns DEF SlotAndQueue, Resumable, IsActive
<1>5. /\ SlotDiscipline(s1) /\ s1.activeTaskId = t /\ s1.runs = state.runs
      /\ s1.tasks[t].revision = state.tasks[t].revision
  BY <1>4, QuietEventKeeps
<1> HIDE DEF s1, f
<1>6. NoRunRunning(s1)
  BY <1>4, <1>5 DEF NoRunRunning
<1>7. state' = TaskStarted(s1, f)
  BY <1>2, <1>3, ApplyCases
<1>8. SlotDiscipline(state') /\ state'.activeTaskId = t
  BY <1>2, <1>3, <1>5, <1>6, <1>7, StartKeeps
<1> QED BY <1>3, <1>8, NoneAssumption DEF SlotAndQueue

\* A suspended task goes on at once.
LEMMA ResumeOnly ==
    ASSUME state \in ControllerStates, SlotAndQueue(state), NEW t \in TaskIds,
           Resumable(state, t), RunLeft(state),
           Commit(<<ResumeEvent(state, t)>>), ~wedged'
    PROVE  SlotAndQueue(state') /\ StateInvariants(state')
<1> DEFINE f == ResumeEvent(state, t)
<1>1. f \in Events
  BY StartAndResumeTyped
<1>2. /\ f.type = "task.resumed" /\ f.taskId = t /\ f.runId \in RunIds
      /\ f.revision = state.tasks[t].revision
  BY NewIds DEF ResumeEvent
<1>3. state' = Apply(state, f) /\ StateInvariants(state')
  BY <1>1, CommittedOne
<1>4. SlotDiscipline(state) /\ NoRunRunning(state) /\ state.activeTaskId = t
  BY NobodyRuns DEF SlotAndQueue, Resumable, IsActive
<1> HIDE DEF f
<1>5. state' = TaskStarted(state, f)
  BY <1>2, <1>3, ApplyCases
<1>6. SlotDiscipline(state') /\ state'.activeTaskId = t
  BY <1>2, <1>4, <1>5, StartKeeps
<1> QED BY <1>3, <1>6, NoneAssumption DEF SlotAndQueue

\* The event that frees the slot hands it to the head of the queue.
LEMMA HandsOver ==
    ASSUME state \in ControllerStates, NEW t \in TaskIds, NEW e \in Events,
           Commit(AndStartNext(state, e)), ~wedged',
           state.queue # <<>> => RunLeft(state),
           SlotDiscipline(Apply(state, e)), NoRunRunning(Apply(state, e)),
           Apply(state, e).activeTaskId = None,
           Apply(state, e).queue = RemoveFromQueue(state.queue, t),
           \A u \in TaskIds :
              Apply(state, e).tasks[u].revision = state.tasks[u].revision
    PROVE  SlotAndQueue(state') /\ StateInvariants(state')
<1> DEFINE s1 == Apply(state, e)
<1>1. CASE state.queue = <<>>
  <2>1. state' = s1 /\ StateInvariants(state')
    BY <1>1, CommittedOne DEF AndStartNext
  <2>2. RemoveFromQueue(state.queue, t) = <<>>
    BY <1>1 DEF RemoveFromQueue
  <2> QED BY <2>1, <2>2 DEF SlotAndQueue
<1>2. CASE state.queue # <<>>
  <2> DEFINE head == Head(state.queue)
             f == StartEvent(state, head)
  <2>1. head \in TaskIds
    BY <1>2, FieldsTyped
  <2>2. f \in Events
    BY <1>2, <2>1, StartAndResumeTyped
  <2>3. /\ f.type = "task.started" /\ f.taskId = head /\ f.runId \in RunIds
        /\ f.revision = state.tasks[head].revision
    BY <1>2, NewIds DEF StartEvent
  <2>4. s1 \in ControllerStates /\ state' = Apply(s1, f) /\ StateInvariants(state')
    BY <1>2, <2>2, CommittedTwo DEF AndStartNext
  <2> HIDE DEF head, f
  <2>5. state' = TaskStarted(s1, f)
    BY <2>3, <2>4, ApplyCases
  <2>6. f.revision = s1.tasks[head].revision
    BY <2>1, <2>3
  <2> HIDE DEF s1
  <2>7. SlotDiscipline(s1) /\ NoRunRunning(s1) /\ s1.activeTaskId = None
    BY DEF s1
  <2>8. SlotDiscipline(state') /\ state'.activeTaskId = head
    BY <2>1, <2>3, <2>4, <2>5, <2>6, <2>7, StartKeeps
  <2> QED BY <2>1, <2>4, <2>8, NoneAssumption DEF SlotAndQueue
<1> QED BY <1>1, <1>2

\* task.submit: a new task waits its turn, or starts when the slot is free.
LEMMA SubmitSafe ==
    ASSUME state \in ControllerStates, SlotAndQueue(state), ~wedged',
           NEW profile \in Profiles, Submit(profile)
    PROVE  SlotAndQueue(state') /\ StateInvariants(state')
<1> DEFINE t == NewTask(state)
           created  == [type |-> "task.created", taskId |-> t,
                        profile |-> profile, revision |-> 1]
           enqueued == [type |-> "task.enqueued", taskId |-> t,
                        position |-> QueuePosition(state, profile)]
           started  == [type |-> "task.started", taskId |-> t,
                        runId |-> NewRun(state), revision |-> 1]
           s1 == Apply(state, created)
           s2 == Apply(s1, enqueued)
<1>1. t \in TaskIds /\ state.tasks[t].state = "none"
  BY NewIds DEF Submit, CanSubmit
<1>2. created \in CreatedEvents /\ enqueued \in EnqueuedEvents
  BY <1>1, QueuePositionTyped DEF CreatedEvents, EnqueuedEvents
<1>3. created \in Events /\ enqueued \in Events
  BY <1>2, EventKinds
<1>4. s2 = TaskEnqueued(TaskCreated(state, created), enqueued)
  BY ApplyCases
<1>5. created.taskId = t /\ enqueued.taskId = t /\ created.revision = 1
  OBVIOUS
<1>6. SubmitEvents(state, profile) = IF state.activeTaskId = None
                                     THEN <<created, enqueued, started>>
                                     ELSE <<created, enqueued>>
  BY DEF SubmitEvents
<1>7. Commit(SubmitEvents(state, profile))
  BY DEF Submit
<1> HIDE DEF created, enqueued
<1>8. /\ SlotDiscipline(s2) /\ s2.activeTaskId = state.activeTaskId
      /\ s2.runs = state.runs /\ s2.tasks[t].revision = 1
  BY <1>1, <1>2, <1>4, <1>5, SubmittedKeeps DEF SlotAndQueue
<1>9. CASE state.activeTaskId = None
  <2>1. NewRun(state) \in RunIds
    BY <1>9, NewIds DEF Submit, CanSubmit
  <2>2. started \in StartedEvents
    BY <1>1, <2>1 DEF StartedEvents
  <2>3. started \in Events
    BY <2>2, EventKinds
  <2>4. /\ started.type = "task.started" /\ started.taskId = t
        /\ started.runId \in RunIds /\ started.revision = 1
    BY <2>1
  <2> HIDE DEF started
  <2>5. Commit(<<created, enqueued, started>>)
    BY <1>6, <1>7, <1>9
  <2>6. s2 \in ControllerStates /\ state' = Apply(s2, started) /\ StateInvariants(state')
    BY <1>3, <2>3, <2>5, CommittedThree
  <2> HIDE DEF s2
  <2>7. state' = TaskStarted(s2, started)
    BY <2>4, <2>6, ApplyCases
  <2>8. NoRunRunning(s2)
    BY <1>8, <1>9, NobodyRuns DEF SlotAndQueue, NoRunRunning
  <2>9. SlotDiscipline(state') /\ state'.activeTaskId = t
    BY <1>1, <1>8, <1>9, <2>4, <2>6, <2>7, <2>8, StartKeeps
  <2> QED BY <1>1, <2>6, <2>9, NoneAssumption DEF SlotAndQueue
<1>10. CASE state.activeTaskId # None
  <2>1. Commit(<<created, enqueued>>)
    BY <1>6, <1>7, <1>10
  <2>2. state' = s2 /\ StateInvariants(state')
    BY <1>3, <2>1, CommittedTwo
  <2> QED BY <1>8, <1>10, <2>2 DEF SlotAndQueue
<1> QED BY <1>9, <1>10

\* task.requestPause: the run goes on until its safe boundary.
LEMMA RequestPauseSafe ==
    ASSUME state \in ControllerStates, SlotAndQueue(state), ~wedged',
           NEW t \in TaskIds, NEW expected, RequestPause(t, expected)
    PROVE  SlotAndQueue(state') /\ StateInvariants(state')
<1> DEFINE e == [type |-> "task.pauseRequested", taskId |-> t]
<1>1. e \in Events
  <2>1. e \in TaskEvents
    BY DEF TaskEvents, TaskOnly
  <2> QED BY <2>1, EventKinds
<1>2. state' = Apply(state, e) /\ StateInvariants(state')
  BY <1>1, CommittedOne DEF RequestPause, RequestPauseEvents
<1>3. Apply(state, e) = TaskPauseRequested(state, e) /\ e.taskId = t
  BY ApplyCases
<1>4. state.tasks[t].state = "running"
  BY DEF RequestPause, CanRequestPause
<1> HIDE DEF e
<1>5. /\ SlotDiscipline(state') /\ state'.activeTaskId = state.activeTaskId
      /\ state'.queue = state.queue
  BY <1>2, <1>3, <1>4, PauseRequestedKeeps DEF SlotAndQueue
<1> QED BY <1>2, <1>5 DEF SlotAndQueue

\* task.revise: the revision changes while no run is running.
LEMMA ReviseSafe ==
    ASSUME state \in ControllerStates, SlotAndQueue(state), ~wedged',
           NEW t \in TaskIds, NEW expected, NEW profile \in Profiles,
           Revise(t, expected, profile)
    PROVE  SlotAndQueue(state') /\ StateInvariants(state')
<1> DEFINE e == [type |-> "task.specRevised", taskId |-> t, profile |-> profile,
                 revision |-> state.tasks[t].revision + 1]
<1>1. e \in RevisedEvents
  BY TaskFields DEF RevisedEvents
<1>2. e \in Events
  BY <1>1, EventKinds
<1>3. state' = Apply(state, e) /\ StateInvariants(state')
  BY <1>2, CommittedOne DEF Revise, ReviseEvents
<1>4. Apply(state, e) = TaskSpecRevised(state, e)
  BY ApplyCases
<1>5. NoRunRunning(state)
  BY NobodyRuns DEF Revise, CanRevise, Resumable, IsActive, SlotAndQueue
<1> HIDE DEF e
<1>6. e.taskId \in TaskIds /\ e.revision \in Nat /\ e.profile \in Profiles
  BY <1>1 DEF RevisedEvents
<1>7. /\ SlotDiscipline(state') /\ state'.activeTaskId = state.activeTaskId
      /\ state'.queue = state.queue
  BY <1>3, <1>4, <1>5, <1>6, RevisedKeeps DEF SlotAndQueue
<1> QED BY <1>3, <1>7 DEF SlotAndQueue

\* task.resume, with or without a conflict to resolve.
LEMMA ResumeSafe ==
    ASSUME state \in ControllerStates, SlotAndQueue(state), ~wedged',
           NEW t \in TaskIds, NEW expected, Resume(t, expected)
    PROVE  SlotAndQueue(state') /\ StateInvariants(state')
<1> DEFINE e == [type |-> "workspace.conflictResolved", taskId |-> t]
<1>1. Resumable(state, t) /\ RunLeft(state)
  BY DEF Resume, CanResume
<1>2. e \in Events /\ e.type \in QuietTypes
  <2>1. e \in TaskEvents
    BY DEF TaskEvents, TaskOnly
  <2> QED BY <2>1, EventKinds DEF QuietTypes
<1>3. \/ Commit(<<e, ResumeEvent(state, t)>>)
      \/ Commit(<<ResumeEvent(state, t)>>)
  BY DEF Resume, ResumeEvents
<1> HIDE DEF e
<1> QED BY <1>1, <1>2, <1>3, QuietThenResume, ResumeOnly

\* task.answerQuestion: the answer resumes the task.
LEMMA AnswerQuestionSafe ==
    ASSUME state \in ControllerStates, SlotAndQueue(state), ~wedged',
           NEW t \in TaskIds, NEW q \in QuestionIds, NEW expected,
           AnswerQuestion(t, q, expected)
    PROVE  SlotAndQueue(state') /\ StateInvariants(state')
<1> DEFINE e == [type |-> "task.questionAnswered", taskId |-> t, questionId |-> q]
<1>1. Resumable(state, t) /\ RunLeft(state)
  BY DEF AnswerQuestion, CanAnswerQuestion, Resumable
<1>2. e \in Events /\ e.type \in QuietTypes
  <2>1. e \in AnsweredEvents
    BY DEF AnsweredEvents
  <2> QED BY <2>1, EventKinds DEF QuietTypes
<1>3. Commit(<<e, ResumeEvent(state, t)>>)
  BY DEF AnswerQuestion, AnswerQuestionEvents
<1> HIDE DEF e
<1> QED BY <1>1, <1>2, <1>3, QuietThenResume

\* The active run of the task in the slot is the only one that can be running.
LEMMA OnlyActiveRuns ==
    ASSUME NEW s \in ControllerStates, SlotDiscipline(s)
    PROVE  \A r \in RunIds : s.runs[r].state = "running" =>
              s.activeTaskId \in TaskIds /\ r = s.tasks[s.activeTaskId].activeRunId
BY RunningIsActive

\* task.cancel: of the task in the slot, whose run ends and whose slot is handed
\* over, or of a task in the queue.
LEMMA CancelSafe ==
    ASSUME state \in ControllerStates, SlotAndQueue(state), ~wedged',
           NEW t \in TaskIds, NEW expected, Cancel(t, expected)
    PROVE  SlotAndQueue(state') /\ StateInvariants(state')
<1> DEFINE e == [type |-> "task.cancelled", taskId |-> t]
           r == state.tasks[t].activeRunId
           s1 == Apply(state, e)
<1>1. e \in Events
  <2>1. e \in TaskEvents
    BY DEF TaskEvents, TaskOnly
  <2> QED BY <2>1, EventKinds
<1>2. s1 = Retire(IF r = None THEN state ELSE EndRun(state, r, "cancelled"), t, "cancelled")
  BY ApplyCases DEF TaskCancelled
<1>3. e.type = "task.cancelled" /\ e.taskId = t
  OBVIOUS
<1>4. Commit(IF IsActive(state, t) THEN AndStartNext(state, e) ELSE <<e>>)
  BY DEF Cancel, CancelEvents
<1>5. (IsActive(state, t) /\ state.queue # <<>>) => RunLeft(state)
  BY DEF Cancel, CanCancel
<1> HIDE DEF e
<1>6. Fits(state, e)
  <2>1. CASE IsActive(state, t) /\ state.queue # <<>>
    <3>1. Head(state.queue) \in TaskIds
      BY <2>1, FieldsTyped
    <3>2. StartEvent(state, Head(state.queue)) \in Events
      BY <1>5, <2>1, <3>1, StartAndResumeTyped
    <3> QED BY <1>1, <1>4, <2>1, <3>2, CommittedTwo DEF AndStartNext
  <2>2. CASE ~(IsActive(state, t) /\ state.queue # <<>>)
    BY <1>1, <1>4, <2>2, CommittedOne DEF AndStartNext
  <2> QED BY <2>1, <2>2
<1>7. SlotDiscipline(state)
  BY DEF SlotAndQueue
<1>8. CASE IsActive(state, t)
  <2>1. /\ SlotDiscipline(s1) /\ NoRunRunning(s1) /\ s1.activeTaskId = None
        /\ s1.queue = RemoveFromQueue(state.queue, t)
        /\ \A u \in TaskIds : s1.tasks[u].revision = state.tasks[u].revision
    <3>1. CASE r = None
      <4>1. s1 = Retire(state, t, "cancelled")
        BY <1>2, <3>1
      <4> HIDE DEF s1
      <4> QED BY <1>7, <1>8, <3>1, <4>1, DroppedKeeps DEF IsActive
    <3>2. CASE r # None
      <4>1. r \in RunIds
        BY <3>2, TaskFields
      <4>2. state.runs[r].state # "none"
        BY <1>3, <1>6, <3>2, FitsRecords
      <4>3. \A q \in RunIds : state.runs[q].state = "running" => q = r
        BY <1>7, <1>8, OnlyActiveRuns DEF IsActive
      <4>4. s1 = Retire(EndRun(state, r, "cancelled"), t, "cancelled")
        BY <1>2, <3>2
      <4> HIDE DEF s1, r
      <4> QED BY <1>7, <1>8, <4>1, <4>2, <4>3, <4>4, FinishedKeeps DEF IsActive
    <3> QED BY <3>1, <3>2
  <2>2. Commit(AndStartNext(state, e)) /\ (state.queue # <<>> => RunLeft(state))
    BY <1>4, <1>5, <1>8
  <2> QED BY <1>1, <2>1, <2>2, HandsOver
<1>9. CASE ~IsActive(state, t)
  <2>1. state.tasks[t].state \notin LiveStates
    BY <1>7, <1>9 DEF SlotDiscipline, IsActive
  <2>2. r = None
    BY <1>7, <2>1 DEF SlotDiscipline, LiveStates
  <2>3. state' = s1 /\ StateInvariants(state')
    BY <1>1, <1>4, <1>9, CommittedOne
  <2>4. s1 = Retire(state, t, "cancelled")
    BY <1>2, <2>2
  <2> HIDE DEF s1
  <2>5. /\ SlotDiscipline(s1) /\ s1.activeTaskId = state.activeTaskId
        /\ s1.queue = RemoveFromQueue(state.queue, t)
    BY <1>7, <1>9, <2>2, <2>4, DroppedKeeps DEF IsActive
  <2>6. state.activeTaskId = None => s1.queue = <<>>
    BY <2>5 DEF SlotAndQueue, RemoveFromQueue
  <2> QED BY <2>3, <2>5, <2>6 DEF SlotAndQueue
<1> QED BY <1>8, <1>9

\* completeTask and failTask
LEMMA FinishSafe ==
    ASSUME state \in ControllerStates, SlotAndQueue(state), ~wedged',
           NEW t \in TaskIds, CompleteTask(t) \/ FailTask(t)
    PROVE  SlotAndQueue(state') /\ StateInvariants(state')
<1> DEFINE r == state.tasks[t].activeRunId
<1>1. /\ state.activeTaskId = t /\ r # None
      /\ state.queue # <<>> => RunLeft(state)
  BY DEF CompleteTask, FailTask, CanFinish, IsActive
<1>2. r \in RunIds
  BY <1>1, TaskFields
<1>3. SlotDiscipline(state)
  BY DEF SlotAndQueue
<1>4. \A q \in RunIds : state.runs[q].state = "running" => q = r
  BY <1>1, <1>3, OnlyActiveRuns
<1>5. PICK outcome \in {"completed", "failed"} :
         Commit(AndStartNext(state, [type |-> IF outcome = "completed" THEN "task.completed"
                                              ELSE "task.failed",
                                     taskId |-> t, runId |-> r]))
  BY DEF CompleteTask, FailTask, CompleteEvents, FailEvents
<1> DEFINE e == [type |-> IF outcome = "completed" THEN "task.completed" ELSE "task.failed",
                 taskId |-> t, runId |-> r]
           s1 == Apply(state, e)
<1>6. /\ e.type = IF outcome = "completed" THEN "task.completed" ELSE "task.failed"
      /\ e.taskId = t /\ e.runId = r
  OBVIOUS
<1>7. e \in Events
  <2>1. e \in RunEvents
    BY <1>2, <1>6 DEF RunEvents, TaskAndRun
  <2> QED BY <2>1, EventKinds
<1>8. Commit(AndStartNext(state, e))
  BY <1>5
<1> HIDE DEF e
<1>9. Fits(state, e)
  <2>1. CASE state.queue # <<>>
    <3>1. Head(state.queue) \in TaskIds
      BY <2>1, FieldsTyped
    <3>2. StartEvent(state, Head(state.queue)) \in Events
      BY <1>1, <2>1, <3>1, StartAndResumeTyped
    <3> QED BY <1>7, <1>8, <2>1, <3>2, CommittedTwo DEF AndStartNext
  <2>2. CASE state.queue = <<>>
    BY <1>7, <1>8, <2>2, CommittedOne DEF AndStartNext
  <2> QED BY <2>1, <2>2
<1>10. state.runs[r].state # "none"
  BY <1>6, <1>9, FitsRecords DEF RunIsRequired
<1>11. s1 = Retire(EndRun(state, r, outcome), t, outcome)
  BY <1>6, ApplyCases DEF TaskCompleted, TaskFailed
<1> HIDE DEF s1, r
<1>12. /\ SlotDiscipline(s1) /\ NoRunRunning(s1) /\ s1.activeTaskId = None
       /\ s1.queue = RemoveFromQueue(state.queue, t)
       /\ \A u \in TaskIds : s1.tasks[u].revision = state.tasks[u].revision
  BY <1>1, <1>2, <1>3, <1>4, <1>10, <1>11, FinishedKeeps
<1> QED BY <1>1, <1>7, <1>8, <1>12, HandsOver DEF s1

\* The queue after queue.move.
Moved(s, t, operation, anchor) ==
    LET rest == RemoveFromQueue(s.queue, t)
        index == CHOOSE i \in DOMAIN rest : rest[i] = anchor
    IN  CASE operation = "move_first"  -> <<t>> \o rest
          [] operation = "move_last"   -> rest \o <<t>>
          [] operation = "move_before" -> InsertAt(rest, index, t)
          [] operation = "move_after"  -> InsertAt(rest, index + 1, t)

\* A move takes one task out of the queue, and puts it back: nobody is lost.
LEMMA MovedKeepsAll ==
    ASSUME NEW s \in ControllerStates, NEW t \in TaskIds, NEW operation \in MoveOperations,
           NEW anchor, CanMoveQueue(s, t, operation, anchor),
           NEW w \in TaskIds, InQueue(s.queue, w)
    PROVE  InQueue(Moved(s, t, operation, anchor), w)
<1> DEFINE rest == RemoveFromQueue(s.queue, t)
           index == CHOOSE i \in DOMAIN rest : rest[i] = anchor
           moved == CASE operation = "move_first"  -> <<t>> \o rest
                      [] operation = "move_last"   -> rest \o <<t>>
                      [] operation = "move_before" -> InsertAt(rest, index, t)
                      [] operation = "move_after"  -> InsertAt(rest, index + 1, t)
<1>1. CanMoveQueue(s, t, operation, anchor) /\ s.queue \in Seq(TaskIds)
  BY FieldsTyped
<1>2. Moved(s, t, operation, anchor) = moved
  BY DEF Moved
<1>3. rest \in Seq(TaskIds)
  BY <1>1, RemoveFromQueueProperties
<1>4. ASSUME NEW u \in TaskIds, u = t \/ InQueue(rest, u)
      PROVE  InQueue(moved, u)
  <2>1. CASE operation = "move_first"
    <3>1. moved = <<t>> \o rest
      BY <2>1
    <3> HIDE DEF rest, moved
    <3>2. /\ Len(<<t>> \o rest) = Len(rest) + 1
          /\ (<<t>> \o rest)[1] = t
          /\ \A i \in 1..Len(rest) : (<<t>> \o rest)[i + 1] = rest[i]
          /\ <<t>> \o rest \in Seq(TaskIds)
      BY <1>3
    <3>3. CASE u = t
      BY <1>3, <3>1, <3>2, <3>3 DEF InQueue
    <3>4. CASE InQueue(rest, u)
      <4>1. PICK j \in 1..Len(rest) : rest[j] = u
        BY <1>3, <3>4 DEF InQueue
      <4>2. j + 1 \in DOMAIN moved /\ moved[j + 1] = u
        BY <1>3, <3>1, <3>2, <4>1
      <4> QED BY <4>2 DEF InQueue
    <3> QED BY <1>4, <3>3, <3>4
  <2>2. CASE operation = "move_last"
    <3>1. moved = rest \o <<t>>
      BY <2>2
    <3> HIDE DEF rest, moved
    <3>2. /\ Len(rest \o <<t>>) = Len(rest) + 1
          /\ (rest \o <<t>>)[Len(rest) + 1] = t
          /\ \A i \in 1..Len(rest) : (rest \o <<t>>)[i] = rest[i]
          /\ rest \o <<t>> \in Seq(TaskIds)
      BY <1>3
    <3>3. CASE u = t
      BY <1>3, <3>1, <3>2, <3>3 DEF InQueue
    <3>4. CASE InQueue(rest, u)
      <4>1. PICK j \in 1..Len(rest) : rest[j] = u
        BY <1>3, <3>4 DEF InQueue
      <4>2. j \in DOMAIN moved /\ moved[j] = u
        BY <1>3, <3>1, <3>2, <4>1
      <4> QED BY <4>2 DEF InQueue
    <3> QED BY <1>4, <3>3, <3>4
  <2>3. CASE operation \in {"move_before", "move_after"}
    <3>1. PICK i \in DOMAIN s.queue : s.queue[i] = anchor /\ anchor # t
      BY <1>1, <2>3 DEF CanMoveQueue, Contains
    <3>2. \E j \in DOMAIN rest : rest[j] = anchor
      BY <1>1, <3>1, RemoveFromQueueProperties
    <3>3. index \in DOMAIN rest
      BY <3>2
    <3>4. PICK k \in {index, index + 1} : moved = InsertAt(rest, k, t)
      <4> HIDE DEF rest, index
      <4> QED BY <2>3
    <3> HIDE DEF rest, index, moved
    <3>5. k \in 1..(Len(rest) + 1)
      BY <1>3, <3>3
    <3>6. /\ InsertAt(rest, k, t) \in Seq(TaskIds)
          /\ Len(InsertAt(rest, k, t)) = Len(rest) + 1
          /\ \A j \in 1..(Len(rest) + 1) :
                InsertAt(rest, k, t)[j] = IF j < k THEN rest[j]
                                          ELSE IF j = k THEN t ELSE rest[j - 1]
      BY <1>3, <3>5, InsertAtProperties
    <3>7. CASE u = t
      BY <3>4, <3>5, <3>6, <3>7 DEF InQueue
    <3>8. CASE InQueue(rest, u)
      <4>1. PICK j \in 1..Len(rest) : rest[j] = u
        BY <1>3, <3>8 DEF InQueue
      <4>2. CASE j < k
        BY <3>4, <3>6, <4>1, <4>2 DEF InQueue
      <4>3. CASE ~(j < k)
        <5>1. j + 1 \in 1..(Len(rest) + 1) /\ ~(j + 1 < k) /\ j + 1 # k /\ (j + 1) - 1 = j
          BY <1>3, <3>5, <4>1, <4>3
        <5>2. InsertAt(rest, k, t)[j + 1] = u
          BY <3>6, <4>1, <5>1
        <5> QED BY <3>4, <3>6, <5>1, <5>2 DEF InQueue
      <4> QED BY <4>2, <4>3
    <3> QED BY <1>4, <3>7, <3>8
  <2> QED BY <2>1, <2>2, <2>3 DEF MoveOperations
<1> HIDE DEF moved
<1>5. w = t \/ InQueue(rest, w)
  <2>1. ASSUME w # t
        PROVE  InQueue(rest, w)
    <3>1. PICK i \in DOMAIN s.queue : s.queue[i] = w
      BY DEF InQueue
    <3>2. \E j \in DOMAIN rest : rest[j] = s.queue[i]
      BY <1>1, <2>1, <3>1, RemoveFromQueueProperties
    <3> QED BY <3>1, <3>2 DEF InQueue
  <2> QED BY <2>1
<1> QED BY <1>2, <1>4, <1>5

\* queue.move: the others keep their places and the moved task is put back.
LEMMA MoveQueueSafe ==
    ASSUME state \in ControllerStates, SlotAndQueue(state), ~wedged',
           NEW t \in TaskIds, NEW operation \in MoveOperations,
           NEW anchor \in TaskIds \cup {None}, MoveQueue(t, operation, anchor)
    PROVE  SlotAndQueue(state') /\ StateInvariants(state')
<1> DEFINE moved == Moved(state, t, operation, anchor)
           e == [type |-> "queue.reordered", taskId |-> t, taskIds |-> moved]
<1>1. CanMoveQueue(state, t, operation, anchor)
  BY DEF MoveQueue
<1>2. MoveQueueEvents(state, t, operation, anchor) = <<e>>
  BY DEF MoveQueueEvents, Moved
<1> HIDE DEF moved
<1>3. e \in Events
  <2>1. <<e>> \in Seq(Events)
    BY <1>1, <1>2, MoveQueueTyped
  <2> HIDE DEF e
  <2> QED BY <2>1
<1>4. e.type = "queue.reordered" /\ e.taskIds = moved
  OBVIOUS
<1>5. Commit(<<e>>)
  BY <1>2 DEF MoveQueue
<1> HIDE DEF e
<1>6. \A u \in TaskIds : InQueue(state.queue, u) => InQueue(e.taskIds, u)
  BY <1>1, <1>4, MovedKeepsAll DEF moved
<1>7. state' = QueueReordered(state, e) /\ StateInvariants(state')
  BY <1>3, <1>4, <1>5, CommittedOne, ApplyCases
<1>8. SlotDiscipline(state')
  BY <1>6, <1>7, ReorderedKeeps DEF SlotAndQueue
<1>9. state'.activeTaskId = state.activeTaskId
  BY <1>7 DEF QueueReordered, ControllerStates
<1>10. state.queue # <<>>
  BY <1>1 DEF CanMoveQueue, Contains
<1> QED BY <1>7, <1>8, <1>9, <1>10 DEF SlotAndQueue

\* approval.resolve: an approval resumes the task, a rejection pauses it.
LEMMA ResolveApprovalSafe ==
    ASSUME state \in ControllerStates, SlotAndQueue(state), ~wedged',
           NEW c \in ConfirmationIds, NEW decision \in {"approve", "reject"}, NEW expected,
           ResolveApproval(c, decision, expected)
    PROVE  SlotAndQueue(state') /\ StateInvariants(state')
<1> DEFINE t == state.confirmations[c].taskId
           e == [type |-> "approval.resolved", confirmationId |-> c, decision |-> decision]
           f == [type |-> "task.paused", taskId |-> t, runId |-> state.tasks[t].lastRunId]
<1>1. t \in TaskIds
  <2>1. state.confirmations[c] \in Confirmation /\ state.confirmations[c] # NoConfirmation
    BY FieldsTyped DEF ResolveApproval, CanResolveApproval, NoConfirmation
  <2> QED BY <2>1 DEF Confirmation
<1>2. e \in Events /\ e.type \in QuietTypes
  <2>1. e \in ResolvedEvents
    BY DEF ResolvedEvents
  <2> QED BY <2>1, EventKinds DEF QuietTypes
<1>3. state.activeTaskId = t /\ state.tasks[t].state = "awaiting_user"
  BY DEF ResolveApproval, CanResolveApproval, IsActive
<1>4. CASE decision = "approve"
  <2>1. Resumable(state, t) /\ RunLeft(state)
    BY <1>3, <1>4 DEF Resumable, IsActive, ResolveApproval, CanResolveApproval
  <2>2. Commit(<<e, ResumeEvent(state, t)>>)
    BY <1>4 DEF ResolveApproval, ResolveApprovalEvents
  <2> HIDE DEF e, t
  <2> QED BY <1>1, <1>2, <2>1, <2>2, QuietThenResume
<1>5. CASE decision = "reject"
  <2> DEFINE s1 == Apply(state, e)
  <2>1. state.tasks[t].lastRunId \in RunIds
    BY <1>1, <1>5, TaskFields DEF ResolveApproval, CanResolveApproval
  <2>2. f \in RunEvents
    BY <1>1, <2>1 DEF RunEvents, TaskAndRun
  <2>3. f \in Events
    BY <2>2, EventKinds
  <2>4. f.type = "task.paused" /\ f.taskId = t /\ f.runId \in RunIds
    BY <2>1
  <2>5. Commit(<<e, f>>)
    BY <1>5 DEF ResolveApproval, ResolveApprovalEvents
  <2> HIDE DEF e, f, t
  <2>6. /\ s1 \in ControllerStates /\ Fits(s1, f)
        /\ state' = Apply(s1, f) /\ StateInvariants(state')
    BY <1>2, <2>3, <2>5, CommittedTwo
  <2>7. /\ SlotDiscipline(s1) /\ s1.activeTaskId = t /\ s1.queue = state.queue
        /\ s1.tasks[t].state = "awaiting_user"
    BY <1>1, <1>2, <1>3, QuietEventKeeps DEF SlotAndQueue
  <2> HIDE DEF s1
  <2>8. NoRunRunning(s1)
    BY <2>6, <2>7, NobodyRuns
  <2>9. s1.runs[f.runId].state # "none"
    BY <2>4, <2>6, FitsRecords DEF RunIsRequired
  <2>10. state' = TaskPaused(s1, f)
    BY <2>4, <2>6, ApplyCases
  <2>11. \A r \in RunIds : s1.runs[r].state = "running" => r = f.runId
    BY <2>8 DEF NoRunRunning
  <2>12. SlotDiscipline(state') /\ state'.activeTaskId = t
    BY <1>1, <2>4, <2>6, <2>7, <2>9, <2>10, <2>11, PausedKeeps
  <2> QED BY <1>1, <2>6, <2>12, NoneAssumption DEF SlotAndQueue
<1> QED BY <1>4, <1>5

\* The runner acknowledges the pause.
LEMMA PauseAtSafeBoundarySafe ==
    ASSUME state \in ControllerStates, SlotAndQueue(state), ~wedged',
           NEW t \in TaskIds, PauseAtSafeBoundary(t)
    PROVE  SlotAndQueue(state') /\ StateInvariants(state')
<1> DEFINE f == [type |-> "task.paused", taskId |-> t,
                 runId |-> state.tasks[t].activeRunId]
<1>1. state.tasks[t].activeRunId \in RunIds
  BY TaskFields DEF PauseAtSafeBoundary, CanPauseAtSafeBoundary
<1>2. state.activeTaskId = t /\ SlotDiscipline(state)
  BY DEF PauseAtSafeBoundary, CanPauseAtSafeBoundary, SlotAndQueue, SlotDiscipline,
         LiveStates
<1>3. f \in Events
  <2>1. f \in RunEvents
    BY <1>1 DEF RunEvents, TaskAndRun
  <2> QED BY <2>1, EventKinds
<1>4. /\ f.type = "task.paused" /\ f.taskId = t /\ f.runId \in RunIds
      /\ f.runId = state.tasks[t].activeRunId
  BY <1>1
<1>5. Commit(<<f>>)
  BY DEF PauseAtSafeBoundary, PauseAtSafeBoundaryEvents
<1> HIDE DEF f
<1>6. Fits(state, f) /\ state' = TaskPaused(state, f) /\ StateInvariants(state')
  BY <1>3, <1>4, <1>5, CommittedOne, ApplyCases
<1>7. state.runs[f.runId].state # "none"
  BY <1>4, <1>6, FitsRecords DEF RunIsRequired
<1>8. \A r \in RunIds : state.runs[r].state = "running" => r = f.runId
  BY <1>2, <1>4, OnlyActiveRuns
<1>9. SlotDiscipline(state') /\ state'.activeTaskId = t
  BY <1>2, <1>4, <1>6, <1>7, <1>8, PausedKeeps
<1> QED BY <1>6, <1>9, NoneAssumption DEF SlotAndQueue

\* The coder asks a question and its run ends.
LEMMA AwaitUserInputSafe ==
    ASSUME state \in ControllerStates, SlotAndQueue(state), ~wedged',
           NEW t \in TaskIds, NEW q \in QuestionIds, AwaitUserInput(t, q)
    PROVE  SlotAndQueue(state') /\ StateInvariants(state')
<1> DEFINE f == [type |-> "task.questionAsked", taskId |-> t, questionId |-> q,
                 runId |-> state.tasks[t].activeRunId,
                 revision |-> state.tasks[t].revision]
<1>1. state.tasks[t].activeRunId \in RunIds /\ state.tasks[t].revision \in Nat
  BY TaskFields DEF AwaitUserInput, CanAwaitUserInput, InRun
<1>2. state.activeTaskId = t /\ SlotDiscipline(state)
  BY DEF AwaitUserInput, CanAwaitUserInput, InRun, IsActive, SlotAndQueue
<1>3. f \in Events
  <2>1. f \in AskedEvents
    BY <1>1 DEF AskedEvents
  <2> QED BY <2>1, EventKinds
<1>4. /\ f.type = "task.questionAsked" /\ f.taskId = t /\ f.runId \in RunIds
      /\ f.runId = state.tasks[t].activeRunId
  BY <1>1
<1>5. Commit(<<f>>)
  BY DEF AwaitUserInput, AwaitUserInputEvents
<1> HIDE DEF f
<1>6. Fits(state, f) /\ state' = TaskQuestionAsked(state, f) /\ StateInvariants(state')
  BY <1>3, <1>4, <1>5, CommittedOne, ApplyCases
<1>7. state.runs[f.runId].state # "none"
  BY <1>4, <1>6, FitsRecords DEF RunIsRequired
<1>8. \A r \in RunIds : state.runs[r].state = "running" => r = f.runId
  BY <1>2, <1>4, OnlyActiveRuns
<1>9. SlotDiscipline(state') /\ state'.activeTaskId = t
  BY <1>2, <1>4, <1>6, <1>7, <1>8, AwaitingKeeps
<1> QED BY <1>6, <1>9, NoneAssumption DEF SlotAndQueue

\* A run gives way to the user, after an event that is not about its state.
LEMMA QuietThenAwait ==
    ASSUME state \in ControllerStates, SlotAndQueue(state), NEW t \in TaskIds,
           InRun(state, t), NEW e \in Events, e.type \in QuietTypes,
           Commit(<<e, AwaitEvent(state, t)>>), ~wedged'
    PROVE  SlotAndQueue(state') /\ StateInvariants(state')
<1> DEFINE f == AwaitEvent(state, t)
           s1 == Apply(state, e)
<1>1. state.activeTaskId = t /\ state.tasks[t].activeRunId \in RunIds
  BY TaskFields DEF InRun, IsActive
<1>2. f \in Events
  BY AwaitTyped DEF InRun
<1>3. /\ f.type = "task.awaitingUser" /\ f.taskId = t /\ f.runId \in RunIds
      /\ f.runId = state.tasks[t].activeRunId
  BY <1>1 DEF AwaitEvent
<1> HIDE DEF f
<1>4. /\ s1 \in ControllerStates /\ Fits(s1, f)
      /\ state' = Apply(s1, f) /\ StateInvariants(state')
  BY <1>2, CommittedTwo DEF f
<1>5. /\ SlotDiscipline(s1) /\ s1.activeTaskId = t
      /\ s1.tasks[t].activeRunId = f.runId
  BY <1>1, <1>3, QuietEventKeeps DEF SlotAndQueue
<1> HIDE DEF s1
<1>6. s1.runs[f.runId].state # "none"
  BY <1>3, <1>4, FitsRecords DEF RunIsRequired
<1>7. \A r \in RunIds : s1.runs[r].state = "running" => r = f.runId
  BY <1>4, <1>5, OnlyActiveRuns
<1>8. state' = TaskAwaitingUser(s1, f)
  BY <1>3, <1>4, ApplyCases
<1>9. SlotDiscipline(state') /\ state'.activeTaskId = t
  BY <1>3, <1>4, <1>5, <1>6, <1>7, <1>8, AwaitingKeeps
<1> QED BY <1>4, <1>9, NoneAssumption DEF SlotAndQueue

\* A tool call needs an approval: the card is made and the run ends.
LEMMA RequestApprovalSafe ==
    ASSUME state \in ControllerStates, SlotAndQueue(state), ~wedged',
           NEW t \in TaskIds, NEW fingerprint \in Fingerprints,
           RequestApproval(t, fingerprint)
    PROVE  SlotAndQueue(state') /\ StateInvariants(state')
<1> DEFINE e == [type |-> "approval.requested", taskId |-> t,
                 confirmationId |-> NewConfirmation(state),
                 revision |-> state.tasks[t].revision, fingerprint |-> fingerprint]
<1>1. InRun(state, t) /\ NewConfirmation(state) \in ConfirmationIds
  BY NewIds DEF RequestApproval, CanRequestApproval
<1>2. e \in Events /\ e.type \in QuietTypes
  <2>1. e \in RequestedEvents
    BY <1>1, TaskFields DEF RequestedEvents
  <2> QED BY <2>1, EventKinds DEF QuietTypes
<1>3. Commit(<<e, AwaitEvent(state, t)>>)
  BY DEF RequestApproval, RequestApprovalEvents
<1> HIDE DEF e
<1> QED BY <1>1, <1>2, <1>3, QuietThenAwait

\* A conflict ends the run.
LEMMA ReportWorkspaceConflictSafe ==
    ASSUME state \in ControllerStates, SlotAndQueue(state), ~wedged',
           NEW t \in TaskIds, ReportWorkspaceConflict(t)
    PROVE  SlotAndQueue(state') /\ StateInvariants(state')
<1> DEFINE e == [type |-> "workspace.conflictDetected", taskId |-> t]
<1>1. InRun(state, t)
  BY DEF ReportWorkspaceConflict, CanReportWorkspaceConflict
<1>2. e \in Events /\ e.type \in QuietTypes
  <2>1. e \in TaskEvents
    BY DEF TaskEvents, TaskOnly
  <2> QED BY <2>1, EventKinds DEF QuietTypes
<1>3. Commit(<<e, AwaitEvent(state, t)>>)
  BY DEF ReportWorkspaceConflict, ReportWorkspaceConflictEvents
<1> HIDE DEF e
<1> QED BY <1>1, <1>2, <1>3, QuietThenAwait

\* A session is bound, or an approval consumed: nothing else moves.
LEMMA QuietSafe ==
    ASSUME state \in ControllerStates, SlotAndQueue(state), ~wedged',
           NEW t \in TaskIds,
           \/ \E r \in RunIds : RecordCoderSession(t, r)
           \/ \E c \in ConfirmationIds, f \in Fingerprints : ConsumeApproval(t, c, f)
    PROVE  SlotAndQueue(state') /\ StateInvariants(state')
<1>1. PICK e \in Events : e.type \in QuietTypes /\ Commit(<<e>>)
  <2>1. ASSUME NEW r \in RunIds, RecordCoderSession(t, r)
        PROVE  \E e \in Events : e.type \in QuietTypes /\ Commit(<<e>>)
    <3> DEFINE e == [type |-> "coder.sessionBound", taskId |-> t, runId |-> r]
    <3>1. e \in RunEvents
      BY DEF RunEvents, TaskAndRun
    <3>2. e \in Events /\ e.type \in QuietTypes /\ Commit(<<e>>)
      BY <2>1, <3>1, EventKinds DEF QuietTypes, RecordCoderSession, RecordCoderSessionEvents
    <3> HIDE DEF e
    <3> QED BY <3>2
  <2>2. ASSUME NEW c \in ConfirmationIds, NEW f \in Fingerprints, ConsumeApproval(t, c, f)
        PROVE  \E e \in Events : e.type \in QuietTypes /\ Commit(<<e>>)
    <3> DEFINE e == [type |-> "approval.consumed", confirmationId |-> c]
    <3>1. e \in ConsumedEvents
      BY DEF ConsumedEvents
    <3>2. e \in Events /\ e.type \in QuietTypes /\ Commit(<<e>>)
      BY <2>2, <3>1, EventKinds DEF QuietTypes, ConsumeApproval, ConsumeApprovalEvents
    <3> HIDE DEF e
    <3> QED BY <3>2
  <2> QED BY <2>1, <2>2
<1>2. state' = Apply(state, e) /\ StateInvariants(state')
  BY <1>1, CommittedOne
<1>3. /\ SlotDiscipline(state') /\ state'.activeTaskId = state.activeTaskId
      /\ state'.queue = state.queue
  BY <1>1, <1>2, QuietEventKeeps DEF SlotAndQueue
<1> QED BY <1>2, <1>3 DEF SlotAndQueue

\* The interrupted run is recorded before its task is paused.
LEMMA RecoverSafe ==
    ASSUME state \in ControllerStates, SlotAndQueue(state), ~wedged', RecoverAfterRestart
    PROVE  SlotAndQueue(state') /\ StateInvariants(state')
<1> DEFINE t == state.activeTaskId
           r == state.tasks[t].activeRunId
           e == [type |-> "run.interrupted", taskId |-> t, runId |-> r]
           b == [type |-> "coder.recoveryBoundary", taskId |-> t, runId |-> r]
           f == [type |-> "task.paused", taskId |-> t, runId |-> r]
           s1 == Apply(state, e)
<1>1. t \in TaskIds
  BY FieldsTyped DEF RecoverAfterRestart, CanRecover
<1>2. r \in RunIds
  BY <1>1, TaskFields DEF RecoverAfterRestart, CanRecover
<1>3. e \in Events /\ b \in Events /\ f \in Events
  <2> HIDE DEF t, r
  <2>1. e \in RunEvents /\ b \in RunEvents /\ f \in RunEvents
    BY <1>1, <1>2 DEF RunEvents, TaskAndRun
  <2> HIDE DEF e, b, f
  <2> QED BY <2>1, EventKinds
<1>4. /\ e.type = "run.interrupted" /\ e.runId = r
      /\ b.type \in QuietTypes
      /\ f.type = "task.paused" /\ f.taskId = t /\ f.runId = r
  BY DEF QuietTypes
<1>5. Commit(<<e, f>>) \/ Commit(<<e, b, f>>)
  BY DEF RecoverAfterRestart, RecoverEvents
<1> HIDE DEF e, b, f
<1>6. s1 = RunInterrupted(state, e)
  BY <1>4, ApplyCases
<1>7. /\ SlotDiscipline(s1) /\ NoRunRunning(s1) /\ s1.activeTaskId = t
  BY <1>2, <1>4, <1>6, InterruptedKeeps DEF SlotAndQueue
<1> HIDE DEF s1
<1>8. ASSUME NEW s \in ControllerStates, SlotDiscipline(s), NoRunRunning(s),
             s.activeTaskId = t, Fits(s, f), state' = Apply(s, f)
      PROVE  SlotAndQueue(state')
  <2>1. s.runs[f.runId].state # "none"
    BY <1>4, <1>8, FitsRecords DEF RunIsRequired
  <2>2. state' = TaskPaused(s, f)
    BY <1>4, <1>8, ApplyCases
  <2>3. \A q \in RunIds : s.runs[q].state = "running" => q = f.runId
    BY <1>8 DEF NoRunRunning
  <2> HIDE DEF t, r
  <2>4. SlotDiscipline(state') /\ state'.activeTaskId = t
    BY <1>1, <1>2, <1>4, <1>8, <2>1, <2>2, <2>3, PausedKeeps
  <2> QED BY <1>1, <2>4, NoneAssumption DEF SlotAndQueue
<1>9. CASE Commit(<<e, f>>)
  <2>1. /\ s1 \in ControllerStates /\ Fits(s1, f)
        /\ state' = Apply(s1, f) /\ StateInvariants(state')
    BY <1>3, <1>9, CommittedTwo DEF s1
  <2> HIDE DEF t
  <2> QED BY <1>7, <1>8, <2>1
<1>10. CASE Commit(<<e, b, f>>)
  <2> DEFINE s2 == Apply(s1, b)
  <2>1. /\ s1 \in ControllerStates /\ s2 \in ControllerStates /\ Fits(s2, f)
        /\ state' = Apply(s2, f) /\ StateInvariants(state')
    BY <1>3, <1>10, CommittedThree DEF s1
  <2>2. /\ SlotDiscipline(s2) /\ s2.activeTaskId = t /\ s2.runs = s1.runs
    BY <1>3, <1>4, <1>7, <2>1, QuietEventKeeps
  <2> HIDE DEF s2, t
  <2>3. NoRunRunning(s2)
    BY <1>7, <2>2 DEF NoRunRunning
  <2> QED BY <1>8, <2>1, <2>2, <2>3
<1> QED BY <1>5, <1>9, <1>10

-----------------------------------------------------------------------------
(* The theorems about the slot and the queue.                              *)

\* While nothing has thrown, the slot, the queue and the runs are consistent.
THEOREM SlotInvariantHolds == Spec => []SlotInvariant
<1>1. Init => SlotInvariant
  <2> SUFFICES ASSUME Init
               PROVE  SlotAndQueue(EmptyState) /\ StateInvariants(EmptyState)
    BY DEF Init, SlotInvariant
  <2>1. SlotAndQueue(EmptyState)
    BY NoneAssumption
       DEF EmptyState, SlotAndQueue, SlotDiscipline, RunsDiscipline, NoTask, NoRun, LiveStates
  <2> QED BY <2>1, EmptyStateInvariants
<1>2. TypeOK /\ SlotInvariant /\ [Next]_vars => SlotInvariant'
  <2> SUFFICES ASSUME TypeOK, SlotInvariant, [Next]_vars
               PROVE  SlotInvariant'
    OBVIOUS
  <2>1. CASE UNCHANGED vars
    BY <2>1 DEF vars, SlotInvariant
  <2>2. CASE Next
    <3> SUFFICES ASSUME ~wedged'
                 PROVE  SlotAndQueue(state') /\ StateInvariants(state')
      BY DEF SlotInvariant
    <3>1. ~wedged
      BY <2>2 DEF Next, UserStep, CoderStep, RecoverAfterRestart, Commit, Submit, RequestPause,
                  Revise, Resume, AnswerQuestion, Cancel, MoveQueue, ResolveApproval,
                  PauseAtSafeBoundary, AwaitUserInput, RecordCoderSession, ConsumeApproval,
                  RequestApproval, ReportWorkspaceConflict, CompleteTask, FailTask
    <3>2. state \in ControllerStates /\ SlotAndQueue(state)
      BY <3>1 DEF TypeOK, SlotInvariant
    <3>3. CASE UserStep
      BY <3>2, <3>3, SubmitSafe, MoveQueueSafe, RequestPauseSafe, ResumeSafe, CancelSafe,
         ReviseSafe, AnswerQuestionSafe, ResolveApprovalSafe DEF UserStep
    <3>4. CASE CoderStep
      BY <3>2, <3>4, PauseAtSafeBoundarySafe, ReportWorkspaceConflictSafe, FinishSafe,
         AwaitUserInputSafe, QuietSafe, RequestApprovalSafe DEF CoderStep
    <3>5. CASE RecoverAfterRestart
      BY <3>2, <3>5, RecoverSafe
    <3> QED BY <2>2, <3>3, <3>4, <3>5 DEF Next
  <2> QED BY <2>1, <2>2
<1> QED BY <1>1, <1>2, TypeCorrect, PTL DEF Spec

\* The slot never idles while work waits.
THEOREM SlotNeverIdles == Spec => []WorkConserving
<1>1. SlotInvariant => WorkConserving
  BY DEF SlotInvariant, SlotAndQueue, WorkConserving
<1> QED BY <1>1, SlotInvariantHolds, PTL

\* One run at most is running, and it is the active run of the task in the slot,
\* under the revision that task has now.
THEOREM OneRunAtATime == Spec => []OneRunAtItsRevision
<1>1. SlotInvariant => OneRunAtItsRevision
  BY DEF SlotInvariant, SlotAndQueue, SlotDiscipline, RunsDiscipline, OneRunAtItsRevision
<1> QED BY <1>1, SlotInvariantHolds, PTL

\* Every live task owns the slot, and the queue is exactly the queued tasks.
THEOREM NoTaskIsLost == Spec => []EveryTaskHasItsPlace
<1>1. TypeOK /\ SlotInvariant => EveryTaskHasItsPlace
  <2> SUFFICES ASSUME TypeOK, SlotInvariant, ~wedged
               PROVE  /\ \A t \in TaskIds :
                            /\ StateOf(t) \in LiveStates <=> state.activeTaskId = t
                            /\ StateOf(t) = "queued" <=> Queued(t)
                      /\ \A i, j \in DOMAIN state.queue :
                            state.queue[i] = state.queue[j] => i = j
    BY DEF EveryTaskHasItsPlace
  <2>1. SlotDiscipline(state) /\ StateInvariants(state)
    BY DEF SlotInvariant, SlotAndQueue
  <2>2. ASSUME NEW t \in TaskIds
        PROVE  /\ StateOf(t) \in LiveStates <=> state.activeTaskId = t
               /\ StateOf(t) = "queued" => Queued(t)
    BY <2>1 DEF SlotDiscipline, InQueue, StateOf, Queued
  <2>3. ASSUME NEW t \in TaskIds, Queued(t)
        PROVE  StateOf(t) = "queued"
    BY <2>1, <2>3 DEF StateInvariants, StateOf, Queued
  <2>4. \A i, j \in DOMAIN state.queue : state.queue[i] = state.queue[j] => i = j
    BY <2>1 DEF StateInvariants
  <2> QED BY <2>2, <2>3, <2>4
<1> QED BY <1>1, TypeCorrect, SlotInvariantHolds, PTL
-----------------------------------------------------------------------------
(***************************************************************************)
(* What a suspended task waits for, for every set of ids.                  *)
(* OneThingToUnblock, ConflictStopsCoder and OneLiveCardPerEffect hold in  *)
(* every reachable state: that a resume, an answer and an approval may     *)
(* start the coder again without looking at each other's obstacles rests   *)
(* on the fact that there is only one obstacle, a conflict, a card or a    *)
(* question.  CardsActAtTheirRevision and TerminalIsFinal hold of every    *)
(* step: a card acts on the revision it was shown for, and a task that has *)
(* ended stays as it is.                                                   *)
(***************************************************************************)

NotStarted == {"none", "queued"}

\* A live task waits for one thing at most.
WaitsForOne(s, t) ==
    LET cards == PendingConfirmations(s, t)
        open  == OpenQuestions(s, t)
    IN  /\ s.tasks[t].conflict \/ cards # {} => s.tasks[t].state = "awaiting_user"
        /\ cards = {} \/ open = {}
        /\ s.tasks[t].conflict => cards = {} /\ open = {}
        /\ \A c, d \in cards : c = d
        /\ \A q \in open : s.questions[q].taskRevision = s.tasks[t].revision

\* A card belongs to a task that has run, under a revision it has or had.
CardBelongs(s, c) ==
    LET card == s.confirmations[c]
    IN  card.state # "none" =>
           /\ card.taskId \in TaskIds
           /\ s.tasks[card.taskId].state \notin NotStarted
           /\ card.taskRevision <= s.tasks[card.taskId].revision

Live(s, c) == s.confirmations[c].state \in {"pending", "approved"}
SameEffect(s, c, d) ==
    LET C == s.confirmations[c]
        D == s.confirmations[d]
    IN  C.taskId = D.taskId /\ C.taskRevision = D.taskRevision /\ C.fingerprint = D.fingerprint

CardsAreSingle(s) ==
    \A c, d \in ConfirmationIds : Live(s, c) /\ Live(s, d) /\ SameEffect(s, c, d) => c = d

Interrupts(s) ==
    /\ \A c \in ConfirmationIds : CardBelongs(s, c)
    /\ \A t \in TaskIds : s.tasks[t].state \in NotStarted => ~s.tasks[t].conflict
    /\ \A t \in TaskIds : s.tasks[t].state \in LiveStates => WaitsForOne(s, t)

InterruptInvariant == ~wedged => Interrupts(state) /\ CardsAreSingle(state)

-----------------------------------------------------------------------------
(* What a committed decision leaves alone, whether it threw or not.        *)

Names(e, u) == e.type \in TaskTypes /\ e.taskId = u
Holds(e, c) == e.type \in CardTypes /\ e.confirmationId = c
Uses(e, c)  == e.type = "approval.consumed" /\ e.confirmationId = c
Revises(e)  == e.type \in {"task.created", "task.specRevised"}

\* What no event of a decision names stays as it is.
Spared(s, n, e) ==
    /\ \A u \in TaskIds : ~Names(e, u) => n.tasks[u] = s.tasks[u]
    /\ \A c \in ConfirmationIds : ~Holds(e, c) => n.confirmations[c] = s.confirmations[c]
    /\ ~Revises(e) => \A u \in TaskIds : n.tasks[u].revision = s.tasks[u].revision
    /\ \A c \in ConfirmationIds : ~Uses(e, c) /\ n.confirmations[c].state = "consumed" =>
          s.confirmations[c].state = "consumed"

\* An event spares the tasks and the cards it does not name.
LEMMA ApplySpares ==
    ASSUME NEW s \in ControllerStates, NEW e \in Events
    PROVE  Spared(s, Apply(s, e), e)
<1> DEFINE n == Apply(s, e)
<1>1. s.tasks \in [TaskIds -> Task]
  BY FieldsTyped
<1>2. CASE e.type \in TaskTypes
  <2>1. PICK task : /\ n.tasks = [s.tasks EXCEPT ![e.taskId] = task]
                    /\ After(e, s.tasks[e.taskId], task)
    BY <1>2, TaskFrame
  <2>2. n.confirmations = s.confirmations
    BY <1>2, TaskFrame
  <2> HIDE DEF n
  <2>3. \A u \in TaskIds : n.tasks[u] = IF u = e.taskId THEN task ELSE s.tasks[u]
    BY <1>1, <2>1
  <2>4. ~Revises(e) => task.revision = s.tasks[e.taskId].revision
    BY <2>1 DEF After, Revises
  <2> QED BY <1>2, <2>2, <2>3, <2>4 DEF Spared, Names, n
<1>3. CASE e.type \notin TaskTypes
  <2>1. n.tasks = s.tasks
    BY <1>3, OtherFrame
  <2>2. \A c \in ConfirmationIds : ~Holds(e, c) => n.confirmations[c] = s.confirmations[c]
    <3>1. CASE e.type \in CardTypes
      BY <3>1, CardFrame DEF Holds
    <3>2. CASE e.type \notin CardTypes
      BY <1>3, <3>2, OtherFrame
    <3> QED BY <3>1, <3>2
  <2>3. \A c \in ConfirmationIds : ~Uses(e, c) /\ n.confirmations[c].state = "consumed" =>
           s.confirmations[c].state = "consumed"
    <3>1. CASE e.type \in CardTypes
      <4> DEFINE d == e.confirmationId
      <4>1. \A c \in ConfirmationIds \ {d} : n.confirmations[c] = s.confirmations[c]
        BY <3>1, CardFrame
      <4>2. ASSUME e.type = "approval.requested"
            PROVE  n.confirmations[d].state = "pending"
        <5>1. n.confirmations[d] = [taskId |-> e.taskId, taskRevision |-> e.revision,
                                    fingerprint |-> e.fingerprint, state |-> "pending"]
          BY <3>1, <4>2, CardFrame
        <5> HIDE DEF n, d
        <5> QED BY <5>1
      <4>3. e.type = "approval.resolved" => n.confirmations[d].state \in {"approved", "rejected"}
        BY <3>1, CardFrame
      <4> HIDE DEF n
      <4> QED BY <3>1, <4>1, <4>2, <4>3 DEF Uses, CardTypes
    <3>2. CASE e.type \notin CardTypes
      BY <1>3, <3>2, OtherFrame
    <3> QED BY <3>1, <3>2
  <2> HIDE DEF n
  <2> QED BY <2>1, <2>2, <2>3 DEF Spared, n
<1> QED BY <1>2, <1>3

\* So does an event that throws.
LEMMA ApplyCheckedSpares ==
    ASSUME NEW m \in [state : ControllerStates, ok : BOOLEAN], NEW e \in Events
    PROVE  Spared(m.state, ApplyChecked(m, e).state, e)
<1>1. ApplyChecked(m, e).state \in {m.state, Apply(m.state, e)}
  BY DEF ApplyChecked
<1>2. Spared(m.state, m.state, e)
  BY DEF Spared
<1> QED BY <1>1, <1>2, ApplySpares

\* And so does a decision, of up to three events.
LEMMA CommitSpares ==
    ASSUME state \in ControllerStates, NEW events \in Seq(Events), Len(events) \in 1..3,
           Commit(events)
    PROVE  /\ \A u \in TaskIds : (\A i \in DOMAIN events : ~Names(events[i], u))
                 => state'.tasks[u] = state.tasks[u]
           /\ \A c \in ConfirmationIds : (\A i \in DOMAIN events : ~Holds(events[i], c))
                 => state'.confirmations[c] = state.confirmations[c]
           /\ (\A i \in DOMAIN events : ~Revises(events[i])) =>
                 \A u \in TaskIds : state'.tasks[u].revision = state.tasks[u].revision
           /\ \A c \in ConfirmationIds : (\A i \in DOMAIN events : ~Uses(events[i], c))
                 /\ state'.confirmations[c].state = "consumed"
                 => state.confirmations[c].state = "consumed"
<1> DEFINE m == [state |-> state, ok |-> TRUE]
           m1 == ApplyChecked(m, events[1])
           m2 == IF Len(events) < 2 THEN m1 ELSE ApplyChecked(m1, events[2])
           m3 == IF Len(events) < 3 THEN m2 ELSE ApplyChecked(m2, events[3])
<1>1. m \in [state : ControllerStates, ok : BOOLEAN] /\ m.state = state
  OBVIOUS
<1>2. state' = m3.state
  BY FewSteps DEF Commit, LoopOfThree
<1>3. /\ Len(events) \in {1, 2, 3} /\ DOMAIN events = 1..Len(events)
      /\ \A i \in DOMAIN events : events[i] \in Events
  <2>1. Len(events) \in {1, 2, 3}
    OBVIOUS
  <2>2. DOMAIN events = 1..Len(events)
    OBVIOUS
  <2>3. \A i \in DOMAIN events : events[i] \in Events
    OBVIOUS
  <2> QED BY <2>1, <2>2, <2>3
<1> HIDE DEF m
<1>4. m1 \in [state : ControllerStates, ok : BOOLEAN] /\ Spared(m.state, m1.state, events[1])
  BY <1>1, <1>3, ApplyCheckedTyped, ApplyCheckedSpares
<1> HIDE DEF m1
<1>5. /\ m2 \in [state : ControllerStates, ok : BOOLEAN]
      /\ m2 = m1 \/ (2 \in DOMAIN events /\ Spared(m1.state, m2.state, events[2]))
  BY <1>3, <1>4, ApplyCheckedTyped, ApplyCheckedSpares
<1> HIDE DEF m2
<1>6. m3 = m2 \/ (3 \in DOMAIN events /\ Spared(m2.state, m3.state, events[3]))
  BY <1>3, <1>5, ApplyCheckedSpares
<1> HIDE DEF m3
<1>7. 1 \in DOMAIN events
  BY <1>3
<1> QED BY <1>1, <1>2, <1>4, <1>5, <1>6, <1>7 DEF Spared

-----------------------------------------------------------------------------
(* What the guards of the decisions say of the events they commit.         *)

\* The task an event names is not over, and the card it answers or uses was
\* made for the revision its task has now.
Careful(s, e) ==
    /\ e.type \in TaskTypes => s.tasks[e.taskId].state \notin TerminalStates
    /\ e.type = "approval.requested" => s.confirmations[e.confirmationId].state = "none"
    /\ e.type \in {"approval.resolved", "approval.consumed"} =>
          LET card == s.confirmations[e.confirmationId]
          IN  s.tasks[card.taskId].revision = card.taskRevision
    /\ e.type = "approval.consumed" => InRun(s, s.confirmations[e.confirmationId].taskId)

Sound(s, events) ==
    /\ events \in Seq(Events) /\ Len(events) \in 1..3
    /\ \A i \in DOMAIN events : Careful(s, events[i])
    /\ \A i, j \in DOMAIN events : Revises(events[i]) => events[j].type \notin CardTypes

\* A decision of careful events is sound when it does not both revise and
\* touch a card.
LEMMA SoundTuples ==
    ASSUME NEW s, NEW e \in Events, Careful(s, e), NEW f \in Events, NEW g \in Events
    PROVE  /\ Sound(s, <<e>>)
           /\ (/\ Careful(s, f) /\ f.type \notin CardTypes
               /\ ~Revises(f) \/ e.type \notin CardTypes) => Sound(s, <<e, f>>)
           /\ (/\ Careful(s, f) /\ Careful(s, g)
               /\ {e.type, f.type, g.type} \cap CardTypes = {}) => Sound(s, <<e, f, g>>)
<1>1. Sound(s, <<e>>)
  BY DEF Sound, Revises, CardTypes
<1>2. ASSUME Careful(s, f), f.type \notin CardTypes, ~Revises(f) \/ e.type \notin CardTypes
      PROVE  Sound(s, <<e, f>>)
  <2>1. <<e, f>> \in Seq(Events) /\ Len(<<e, f>>) = 2 /\ DOMAIN <<e, f>> = {1, 2}
    OBVIOUS
  <2> QED BY <1>2, <2>1 DEF Sound, Revises, CardTypes
<1>3. ASSUME Careful(s, f), Careful(s, g), {e.type, f.type, g.type} \cap CardTypes = {}
      PROVE  Sound(s, <<e, f, g>>)
  <2> DEFINE events == <<e, f, g>>
  <2>1. events \in Seq(Events) /\ Len(events) = 3 /\ DOMAIN events = {1, 2, 3}
    OBVIOUS
  <2>2. \A i \in {1, 2, 3} : Careful(s, events[i]) /\ events[i].type \notin CardTypes
    BY <1>3
  <2> HIDE DEF events
  <2>3. Sound(s, events)
    BY <2>1, <2>2 DEF Sound
  <2> QED BY <2>3 DEF events
<1> QED BY <1>1, <1>2, <1>3

\* Handing the slot over names the task at the head of the queue, which waits.
LEMMA HandoffSound ==
    ASSUME NEW s \in ControllerStates, StateInvariants(s), NEW e \in Events, Careful(s, e),
           e.type \notin CardTypes, s.queue # <<>> => RunLeft(s)
    PROVE  Sound(s, AndStartNext(s, e))
<1>1. CASE s.queue = <<>>
  BY <1>1, SoundTuples DEF AndStartNext
<1>2. CASE s.queue # <<>>
  <2> DEFINE t == Head(s.queue)
             f == StartEvent(s, t)
  <2>1. s.queue \in Seq(TaskIds) /\ t \in TaskIds /\ 1 \in DOMAIN s.queue /\ s.queue[1] = t
    BY <1>2, FieldsTyped
  <2>2. s.tasks[t].state = "queued"
    BY <2>1 DEF StateInvariants
  <2>3. f \in Events
    BY <1>2, <2>1, StartAndResumeTyped
  <2>4. f.type = "task.started" /\ f.taskId = t
    BY DEF StartEvent
  <2>5. AndStartNext(s, e) = <<e, f>>
    BY <1>2 DEF AndStartNext
  <2> HIDE DEF f, t
  <2>6. Careful(s, f) /\ f.type \notin CardTypes /\ ~Revises(f)
    BY <2>2, <2>4 DEF Careful, CardTypes, Revises, TerminalStates
  <2> QED BY <2>3, <2>5, <2>6, SoundTuples DEF CardTypes
<1> QED BY <1>1, <1>2

\* The commands of the user that commit one kind of event.
LEMMA UserSound ==
    ASSUME state \in ControllerStates, NEW t \in TaskIds, NEW expected
    PROVE  /\ CanRequestPause(state, t, expected) => Sound(state, RequestPauseEvents(t))
           /\ \A profile \in Profiles : CanRevise(state, t, expected) =>
                 Sound(state, ReviseEvents(state, t, profile))
           /\ CanResume(state, t, expected) => Sound(state, ResumeEvents(state, t))
           /\ \A q \in QuestionIds : CanAnswerQuestion(state, t, q, expected) =>
                 Sound(state, AnswerQuestionEvents(state, t, q))
<1>1. ASSUME CanRequestPause(state, t, expected)
      PROVE  Sound(state, RequestPauseEvents(t))
  <2> DEFINE e == [type |-> "task.pauseRequested", taskId |-> t]
  <2>1. e \in TaskEvents
    BY DEF TaskEvents, TaskOnly
  <2>2. e \in Events /\ e.type = "task.pauseRequested" /\ e.taskId = t
    BY <2>1, EventKinds
  <2>3. RequestPauseEvents(t) = <<e>>
    BY DEF RequestPauseEvents
  <2> HIDE DEF e
  <2>4. Careful(state, e)
    BY <1>1, <2>2 DEF Careful, CanRequestPause, TerminalStates
  <2> QED BY <2>2, <2>3, <2>4, SoundTuples
<1>2. ASSUME NEW profile \in Profiles, CanRevise(state, t, expected)
      PROVE  Sound(state, ReviseEvents(state, t, profile))
  <2> DEFINE e == [type |-> "task.specRevised", taskId |-> t, profile |-> profile,
                   revision |-> state.tasks[t].revision + 1]
  <2>1. e \in RevisedEvents
    BY TaskFields DEF RevisedEvents
  <2>2. e \in Events /\ e.type = "task.specRevised" /\ e.taskId = t
    BY <2>1, EventKinds
  <2>3. ReviseEvents(state, t, profile) = <<e>>
    BY DEF ReviseEvents
  <2> HIDE DEF e
  <2>4. Careful(state, e)
    BY <1>2, <2>2 DEF Careful, CanRevise, Resumable, TerminalStates
  <2> QED BY <2>2, <2>3, <2>4, SoundTuples
<1>3. ASSUME Resumable(state, t), RunLeft(state)
      PROVE  LET f == ResumeEvent(state, t)
             IN  /\ f \in Events /\ Careful(state, f)
                 /\ f.type \notin CardTypes /\ ~Revises(f)
  <2> DEFINE f == ResumeEvent(state, t)
  <2>1. f \in Events
    BY <1>3, StartAndResumeTyped
  <2>2. f.type = "task.resumed" /\ f.taskId = t
    BY DEF ResumeEvent
  <2> HIDE DEF f
  <2>3. Careful(state, f) /\ f.type \notin CardTypes /\ ~Revises(f)
    BY <1>3, <2>2 DEF Careful, CardTypes, Revises, Resumable, TerminalStates
  <2> QED BY <2>1, <2>3 DEF f
<1>4. ASSUME CanResume(state, t, expected)
      PROVE  Sound(state, ResumeEvents(state, t))
  <2> DEFINE e == [type |-> "workspace.conflictResolved", taskId |-> t]
             f == ResumeEvent(state, t)
  <2>1. e \in TaskEvents
    BY DEF TaskEvents, TaskOnly
  <2>2. e \in Events /\ e.type = "workspace.conflictResolved" /\ e.taskId = t
    BY <2>1, EventKinds
  <2>3. ResumeEvents(state, t) \in {<<e, f>>, <<f>>}
    BY DEF ResumeEvents
  <2>4. /\ f \in Events /\ Careful(state, f)
        /\ f.type \notin CardTypes /\ ~Revises(f)
    BY <1>3, <1>4 DEF CanResume
  <2> HIDE DEF e, f
  <2>5. Careful(state, e)
    BY <1>4, <2>2 DEF Careful, CanResume, Resumable, TerminalStates
  <2> QED BY <2>2, <2>3, <2>4, <2>5, SoundTuples
<1>5. ASSUME NEW q \in QuestionIds, CanAnswerQuestion(state, t, q, expected)
      PROVE  Sound(state, AnswerQuestionEvents(state, t, q))
  <2> DEFINE e == [type |-> "task.questionAnswered", taskId |-> t, questionId |-> q]
             f == ResumeEvent(state, t)
  <2>1. e \in AnsweredEvents
    BY DEF AnsweredEvents
  <2>2. e \in Events /\ e.type = "task.questionAnswered"
    BY <2>1, EventKinds
  <2>3. AnswerQuestionEvents(state, t, q) = <<e, f>>
    BY DEF AnswerQuestionEvents
  <2>4. /\ f \in Events /\ Careful(state, f)
        /\ f.type \notin CardTypes /\ ~Revises(f)
    BY <1>3, <1>5 DEF CanAnswerQuestion, Resumable
  <2> HIDE DEF e, f
  <2>5. Careful(state, e)
    BY <2>2 DEF Careful, TaskTypes, TaskIsRequired
  <2> QED BY <2>2, <2>3, <2>4, <2>5, SoundTuples
<1> QED BY <1>1, <1>2, <1>4, <1>5

\* task.submit
LEMMA SubmitSound ==
    ASSUME state \in ControllerStates, NEW profile \in Profiles, CanSubmit(state)
    PROVE  Sound(state, SubmitEvents(state, profile))
<1> DEFINE t == NewTask(state)
           created  == [type |-> "task.created", taskId |-> t,
                        profile |-> profile, revision |-> 1]
           enqueued == [type |-> "task.enqueued", taskId |-> t,
                        position |-> QueuePosition(state, profile)]
           started  == [type |-> "task.started", taskId |-> t,
                        runId |-> NewRun(state), revision |-> 1]
<1>1. t \in TaskIds /\ state.tasks[t].state = "none"
  BY NewIds DEF CanSubmit
<1>2. created \in CreatedEvents /\ enqueued \in EnqueuedEvents
  BY <1>1, QueuePositionTyped DEF CreatedEvents, EnqueuedEvents
<1>3. state.activeTaskId = None => started \in StartedEvents
  BY <1>1, NewIds DEF CanSubmit, StartedEvents
<1>4. SubmitEvents(state, profile) = IF state.activeTaskId = None
                                     THEN <<created, enqueued, started>>
                                     ELSE <<created, enqueued>>
  BY DEF SubmitEvents
<1>5. /\ created.type = "task.created" /\ created.taskId = t
      /\ enqueued.type = "task.enqueued" /\ enqueued.taskId = t
      /\ started.type = "task.started" /\ started.taskId = t
  OBVIOUS
<1> HIDE DEF created, enqueued, started
<1>6. /\ created \in Events /\ enqueued \in Events
      /\ state.activeTaskId = None => started \in Events
  BY <1>2, <1>3, EventKinds
<1>7. Careful(state, created) /\ Careful(state, enqueued) /\ Careful(state, started)
  BY <1>1, <1>5 DEF Careful, TerminalStates
<1>8. {created.type, enqueued.type, started.type} \cap CardTypes = {} /\ ~Revises(enqueued)
  BY <1>5 DEF CardTypes, Revises
<1> QED BY <1>4, <1>6, <1>7, <1>8, SoundTuples

\* queue.move names no task of the reducer's.
LEMMA MoveQueueSound ==
    ASSUME state \in ControllerStates, NEW t \in TaskIds, NEW operation \in MoveOperations,
           NEW anchor \in TaskIds \cup {None}, CanMoveQueue(state, t, operation, anchor)
    PROVE  Sound(state, MoveQueueEvents(state, t, operation, anchor))
<1>1. PICK queue : MoveQueueEvents(state, t, operation, anchor) =
          <<[type |-> "queue.reordered", taskId |-> t, taskIds |-> queue]>>
  BY DEF MoveQueueEvents
<1> DEFINE e == [type |-> "queue.reordered", taskId |-> t, taskIds |-> queue]
<1>2. <<e>> \in Seq(Events)
  BY <1>1, MoveQueueTyped
<1>3. e.type = "queue.reordered"
  OBVIOUS
<1> HIDE DEF e
<1>4. e \in Events
  BY <1>2
<1>5. Careful(state, e)
  BY <1>3 DEF Careful, TaskTypes, TaskIsRequired
<1> QED BY <1>1, <1>4, <1>5, SoundTuples DEF e

\* task.cancel, completeTask and failTask
LEMMA FinishSound ==
    ASSUME state \in ControllerStates, StateInvariants(state), NEW t \in TaskIds
    PROVE  /\ \A expected : CanCancel(state, t, expected) => Sound(state, CancelEvents(state, t))
           /\ CanFinish(state, t) => /\ Sound(state, CompleteEvents(state, t))
                                     /\ Sound(state, FailEvents(state, t))
<1>1. ASSUME NEW e \in Events, state.tasks[t].state \notin TerminalStates, e.taskId = t,
             e.type \in {"task.cancelled", "task.completed", "task.failed"}
      PROVE  /\ Sound(state, <<e>>)
             /\ (state.queue # <<>> => RunLeft(state)) => Sound(state, AndStartNext(state, e))
  <2>1. Careful(state, e) /\ e.type \notin CardTypes
    BY <1>1 DEF Careful, CardTypes
  <2> QED BY <2>1, SoundTuples, HandoffSound
<1>2. ASSUME NEW expected, CanCancel(state, t, expected)
      PROVE  Sound(state, CancelEvents(state, t))
  <2> DEFINE e == [type |-> "task.cancelled", taskId |-> t]
  <2>1. e \in TaskEvents
    BY DEF TaskEvents, TaskOnly
  <2>2. e \in Events /\ e.type = "task.cancelled" /\ e.taskId = t
    BY <2>1, EventKinds
  <2>3. CancelEvents(state, t) = IF IsActive(state, t) THEN AndStartNext(state, e) ELSE <<e>>
    BY DEF CancelEvents
  <2> HIDE DEF e
  <2> QED BY <1>1, <1>2, <2>2, <2>3 DEF CanCancel
<1>3. ASSUME CanFinish(state, t), NEW x \in {"task.completed", "task.failed"}
      PROVE  Sound(state, AndStartNext(state, [type |-> x, taskId |-> t,
                                               runId |-> state.tasks[t].activeRunId]))
  <2> DEFINE e == [type |-> x, taskId |-> t, runId |-> state.tasks[t].activeRunId]
  <2>1. state.tasks[t].activeRunId \in RunIds
    BY <1>3, TaskFields DEF CanFinish
  <2>2. e \in RunEvents
    BY <2>1 DEF RunEvents, TaskAndRun
  <2>3. e \in Events /\ e.type = x /\ e.taskId = t
    BY <2>2, EventKinds
  <2>4. state.tasks[t].state \notin TerminalStates
    BY <1>3 DEF CanFinish, TerminalStates
  <2> HIDE DEF e
  <2>5. Sound(state, AndStartNext(state, e))
    BY <1>1, <1>3, <2>3, <2>4 DEF CanFinish
  <2> QED BY <2>5 DEF e
<1> QED BY <1>2, <1>3 DEF CompleteEvents, FailEvents

\* approval.resolve: a pending card of the revision its task has now
LEMMA ResolveApprovalSound ==
    ASSUME state \in ControllerStates, NEW c \in ConfirmationIds,
           NEW decision \in {"approve", "reject"}, NEW expected,
           CanResolveApproval(state, c, decision, expected)
    PROVE  Sound(state, ResolveApprovalEvents(state, c, decision))
<1> DEFINE t == state.confirmations[c].taskId
           e == [type |-> "approval.resolved", confirmationId |-> c, decision |-> decision]
           f == IF decision = "approve" THEN ResumeEvent(state, t)
                ELSE [type |-> "task.paused", taskId |-> t,
                      runId |-> state.tasks[t].lastRunId]
<1>1. t \in TaskIds
  <2>1. state.confirmations[c] \in Confirmation /\ state.confirmations[c] # NoConfirmation
    BY FieldsTyped DEF CanResolveApproval, NoConfirmation
  <2> QED BY <2>1 DEF Confirmation
<1>2. e \in ResolvedEvents
  BY DEF ResolvedEvents
<1>3. e \in Events /\ e.type = "approval.resolved" /\ e.confirmationId = c
  BY <1>2, EventKinds
<1>4. f \in Events
  <2>1. CASE decision = "approve"
    BY <1>1, <2>1, StartAndResumeTyped DEF CanResolveApproval
  <2>2. CASE decision = "reject"
    <3>1. state.tasks[t].lastRunId \in RunIds
      BY <1>1, <2>2, TaskFields DEF CanResolveApproval
    <3>2. f \in RunEvents
      BY <1>1, <2>2, <3>1 DEF RunEvents, TaskAndRun
    <3> QED BY <3>2, EventKinds
  <2> QED BY <2>1, <2>2
<1>5. f.type \in {"task.resumed", "task.paused"} /\ f.taskId = t
  BY DEF ResumeEvent
<1>6. ResolveApprovalEvents(state, c, decision) = <<e, f>>
  BY DEF ResolveApprovalEvents
<1>7. state.tasks[t].state = "awaiting_user"
      /\ state.confirmations[c].taskRevision = state.tasks[t].revision
  BY DEF CanResolveApproval
<1> HIDE DEF e, f
<1>8. Careful(state, e)
  BY <1>3, <1>7 DEF Careful, TaskTypes, TaskIsRequired
<1>9. Careful(state, f) /\ f.type \notin CardTypes /\ ~Revises(f)
  BY <1>5, <1>7 DEF Careful, CardTypes, Revises, TerminalStates
<1> QED BY <1>3, <1>4, <1>6, <1>8, <1>9, SoundTuples

\* The signals of the coding runner: the task is in its run.
LEMMA CoderSound ==
    ASSUME state \in ControllerStates, SlotAndQueue(state), NEW t \in TaskIds
    PROVE  /\ CanPauseAtSafeBoundary(state, t) => Sound(state, PauseAtSafeBoundaryEvents(state, t))
           /\ \A q \in QuestionIds : CanAwaitUserInput(state, t, q) =>
                 Sound(state, AwaitUserInputEvents(state, t, q))
           /\ \A r \in RunIds : CanRecordCoderSession(state, t, r) =>
                 Sound(state, RecordCoderSessionEvents(t, r))
           /\ \A f \in Fingerprints : CanRequestApproval(state, t, f) =>
                 Sound(state, RequestApprovalEvents(state, t, f))
           /\ \A c \in ConfirmationIds, f \in Fingerprints :
                 CanConsumeApproval(state, t, c, f) => Sound(state, ConsumeApprovalEvents(c))
           /\ CanReportWorkspaceConflict(state, t) =>
                 Sound(state, ReportWorkspaceConflictEvents(state, t))
<1> DEFINE r == state.tasks[t].activeRunId
           a == AwaitEvent(state, t)
<1>1. r # None => r \in RunIds
  BY TaskFields
<1>2. ASSUME CanPauseAtSafeBoundary(state, t)
      PROVE  Sound(state, PauseAtSafeBoundaryEvents(state, t))
  <2> DEFINE e == [type |-> "task.paused", taskId |-> t, runId |-> r]
  <2>1. e \in RunEvents
    BY <1>1, <1>2 DEF CanPauseAtSafeBoundary, RunEvents, TaskAndRun
  <2>2. e \in Events /\ e.type = "task.paused" /\ e.taskId = t
    BY <2>1, EventKinds
  <2>3. PauseAtSafeBoundaryEvents(state, t) = <<e>>
    BY DEF PauseAtSafeBoundaryEvents
  <2> HIDE DEF e
  <2>4. Careful(state, e)
    BY <1>2, <2>2 DEF Careful, CanPauseAtSafeBoundary, TerminalStates
  <2> QED BY <2>2, <2>3, <2>4, SoundTuples
<1>3. ASSUME NEW q \in QuestionIds, CanAwaitUserInput(state, t, q)
      PROVE  Sound(state, AwaitUserInputEvents(state, t, q))
  <2> DEFINE e == [type |-> "task.questionAsked", taskId |-> t, questionId |-> q,
                   runId |-> r, revision |-> state.tasks[t].revision]
  <2>1. e \in AskedEvents
    BY <1>1, <1>3, TaskFields DEF CanAwaitUserInput, InRun, AskedEvents
  <2>2. e \in Events /\ e.type = "task.questionAsked" /\ e.taskId = t
    BY <2>1, EventKinds
  <2>3. AwaitUserInputEvents(state, t, q) = <<e>>
    BY DEF AwaitUserInputEvents
  <2> HIDE DEF e
  <2>4. Careful(state, e)
    BY <1>3, <2>2 DEF Careful, CanAwaitUserInput, InRun, TerminalStates
  <2> QED BY <2>2, <2>3, <2>4, SoundTuples
<1>4. ASSUME NEW run \in RunIds, CanRecordCoderSession(state, t, run)
      PROVE  Sound(state, RecordCoderSessionEvents(t, run))
  <2> DEFINE e == [type |-> "coder.sessionBound", taskId |-> t, runId |-> run]
  <2>1. e \in RunEvents
    BY DEF RunEvents, TaskAndRun
  <2>2. e \in Events /\ e.type = "coder.sessionBound" /\ e.taskId = t
    BY <2>1, EventKinds
  <2>3. RecordCoderSessionEvents(t, run) = <<e>>
    BY DEF RecordCoderSessionEvents
  <2>4. state.tasks[t].state \in LiveStates
    BY <1>4 DEF CanRecordCoderSession, IsActive, SlotAndQueue, SlotDiscipline
  <2> HIDE DEF e
  <2>5. Careful(state, e)
    BY <2>2, <2>4 DEF Careful, LiveStates, TerminalStates
  <2> QED BY <2>2, <2>3, <2>5, SoundTuples
<1>5. ASSUME InRun(state, t)
      PROVE  a \in Events /\ Careful(state, a) /\ a.type \notin CardTypes /\ ~Revises(a)
  <2>1. a \in Events
    BY <1>5, AwaitTyped DEF InRun
  <2>2. a.type = "task.awaitingUser" /\ a.taskId = t
    BY DEF AwaitEvent
  <2> HIDE DEF a
  <2> QED BY <1>5, <2>1, <2>2 DEF Careful, CardTypes, Revises, InRun, TerminalStates
<1> HIDE DEF a
<1>6. ASSUME NEW f \in Fingerprints, CanRequestApproval(state, t, f)
      PROVE  Sound(state, RequestApprovalEvents(state, t, f))
  <2> DEFINE c == NewConfirmation(state)
             e == [type |-> "approval.requested", taskId |-> t, confirmationId |-> c,
                   revision |-> state.tasks[t].revision, fingerprint |-> f]
  <2>1. c \in ConfirmationIds /\ state.confirmations[c].state = "none"
    BY <1>6, NewIds DEF CanRequestApproval
  <2>2. e \in RequestedEvents
    BY <2>1, TaskFields DEF RequestedEvents
  <2>3. e \in Events /\ e.type = "approval.requested" /\ e.confirmationId = c
    BY <2>2, EventKinds
  <2>4. RequestApprovalEvents(state, t, f) = <<e, a>>
    BY DEF RequestApprovalEvents, a
  <2> HIDE DEF e, c
  <2>5. Careful(state, e)
    BY <2>1, <2>3 DEF Careful, TaskTypes, TaskIsRequired
  <2> QED BY <1>5, <1>6, <2>3, <2>4, <2>5, SoundTuples DEF CanRequestApproval
<1>7. ASSUME NEW c \in ConfirmationIds, NEW f \in Fingerprints,
             CanConsumeApproval(state, t, c, f)
      PROVE  Sound(state, ConsumeApprovalEvents(c))
  <2> DEFINE e == [type |-> "approval.consumed", confirmationId |-> c]
  <2>1. e \in ConsumedEvents
    BY DEF ConsumedEvents
  <2>2. e \in Events /\ e.type = "approval.consumed" /\ e.confirmationId = c
    BY <2>1, EventKinds
  <2>3. ConsumeApprovalEvents(c) = <<e>>
    BY DEF ConsumeApprovalEvents
  <2>4. /\ state.confirmations[c].taskId = t /\ InRun(state, t)
        /\ state.confirmations[c].taskRevision = state.tasks[t].revision
    BY <1>7 DEF CanConsumeApproval, Confirmations
  <2> HIDE DEF e
  <2>5. Careful(state, e)
    BY <2>2, <2>4 DEF Careful, TaskTypes, TaskIsRequired
  <2> QED BY <2>2, <2>3, <2>5, SoundTuples
<1>8. ASSUME CanReportWorkspaceConflict(state, t)
      PROVE  Sound(state, ReportWorkspaceConflictEvents(state, t))
  <2> DEFINE e == [type |-> "workspace.conflictDetected", taskId |-> t]
  <2>1. e \in TaskEvents
    BY DEF TaskEvents, TaskOnly
  <2>2. e \in Events /\ e.type = "workspace.conflictDetected" /\ e.taskId = t
    BY <2>1, EventKinds
  <2>3. ReportWorkspaceConflictEvents(state, t) = <<e, a>>
    BY DEF ReportWorkspaceConflictEvents, a
  <2> HIDE DEF e
  <2>4. Careful(state, e)
    BY <1>8, <2>2 DEF Careful, CanReportWorkspaceConflict, InRun, TerminalStates
  <2> QED BY <1>5, <1>8, <2>2, <2>3, <2>4, SoundTuples DEF CanReportWorkspaceConflict
<1> QED BY <1>2, <1>3, <1>4, <1>6, <1>7, <1>8

\* The recovery names the task that was running.
LEMMA RecoverSound ==
    ASSUME state \in ControllerStates, CanRecover(state)
    PROVE  Sound(state, RecoverEvents(state))
<1> DEFINE t == state.activeTaskId
           r == state.tasks[t].activeRunId
           e == [type |-> "run.interrupted", taskId |-> t, runId |-> r]
           b == [type |-> "coder.recoveryBoundary", taskId |-> t, runId |-> r]
           f == [type |-> "task.paused", taskId |-> t, runId |-> r]
<1>1. t \in TaskIds
  BY FieldsTyped DEF CanRecover
<1>2. r \in RunIds
  BY <1>1, TaskFields DEF CanRecover
<1>3. RecoverEvents(state) \in {<<e, f>>, <<e, b, f>>}
  BY DEF RecoverEvents
<1>4. state.tasks[t].state \notin TerminalStates
  BY DEF CanRecover, TerminalStates
<1> HIDE DEF t, r
<1>5. /\ e.type = "run.interrupted" /\ b.type = "coder.recoveryBoundary" /\ b.taskId = t
      /\ f.type = "task.paused" /\ f.taskId = t
  OBVIOUS
<1>6. e \in RunEvents /\ b \in RunEvents /\ f \in RunEvents
  BY <1>1, <1>2 DEF RunEvents, TaskAndRun
<1> HIDE DEF e, b, f
<1>7. e \in Events /\ b \in Events /\ f \in Events
  BY <1>6, EventKinds
<1>8. Careful(state, e) /\ Careful(state, b) /\ Careful(state, f)
  BY <1>4, <1>5 DEF Careful, TaskTypes, TaskIsRequired
<1>9. {e.type, b.type, f.type} \cap CardTypes = {}
  BY <1>5 DEF CardTypes
<1> QED BY <1>3, <1>7, <1>8, <1>9, SoundTuples DEF e, f

\* The decisions that interrupt no run: all but the recovery.
NoInterruption(events) == \A i \in DOMAIN events : events[i].type # "run.interrupted"

\* Apart from the recovery, no decision interrupts a run.
LEMMA OnlyRecoveryInterrupts ==
    ASSUME NEW s, NEW t, NEW x, NEW y, NEW z
    PROVE  /\ NoInterruption(SubmitEvents(s, x))
           /\ NoInterruption(RequestPauseEvents(t))
           /\ NoInterruption(ReviseEvents(s, t, x))
           /\ NoInterruption(ResumeEvents(s, t))
           /\ NoInterruption(AnswerQuestionEvents(s, t, x))
           /\ NoInterruption(CancelEvents(s, t))
           /\ NoInterruption(MoveQueueEvents(s, t, x, y))
           /\ NoInterruption(ResolveApprovalEvents(s, x, y))
           /\ NoInterruption(PauseAtSafeBoundaryEvents(s, t))
           /\ NoInterruption(AwaitUserInputEvents(s, t, x))
           /\ NoInterruption(RecordCoderSessionEvents(t, x))
           /\ NoInterruption(ConsumeApprovalEvents(x))
           /\ NoInterruption(RequestApprovalEvents(s, t, x))
           /\ NoInterruption(ReportWorkspaceConflictEvents(s, t))
           /\ NoInterruption(CompleteEvents(s, t))
           /\ NoInterruption(FailEvents(s, t))
<1>1. \A e, f, g :
         /\ e.type # "run.interrupted" => NoInterruption(<<e>>)
         /\ {e.type, f.type} \cap {"run.interrupted"} = {} => NoInterruption(<<e, f>>)
         /\ {e.type, f.type, g.type} \cap {"run.interrupted"} = {} => NoInterruption(<<e, f, g>>)
  <2> TAKE e, f, g
  <2>1. e.type # "run.interrupted" => NoInterruption(<<e>>)
    BY DEF NoInterruption
  <2>2. e.type # "run.interrupted" /\ f.type # "run.interrupted" => NoInterruption(<<e, f>>)
    BY DEF NoInterruption
  <2>3. e.type # "run.interrupted" /\ f.type # "run.interrupted" /\ g.type # "run.interrupted"
           => NoInterruption(<<e, f, g>>)
    BY DEF NoInterruption
  <2> QED BY <2>1, <2>2, <2>3
<1>2. ASSUME NEW e, e.type # "run.interrupted"
      PROVE  NoInterruption(AndStartNext(s, e))
  BY <1>1, <1>2 DEF AndStartNext, StartEvent
<1>3. NoInterruption(SubmitEvents(s, x))
  BY <1>1 DEF SubmitEvents
<1>4. /\ NoInterruption(RequestPauseEvents(t))
      /\ NoInterruption(ReviseEvents(s, t, x))
      /\ NoInterruption(ResumeEvents(s, t))
      /\ NoInterruption(AnswerQuestionEvents(s, t, x))
  BY <1>1 DEF RequestPauseEvents, ReviseEvents, ResumeEvents, AnswerQuestionEvents, ResumeEvent
<1>5. /\ NoInterruption(MoveQueueEvents(s, t, x, y))
      /\ NoInterruption(ResolveApprovalEvents(s, x, y))
  BY <1>1 DEF MoveQueueEvents, ResolveApprovalEvents, ResumeEvent
<1>6. /\ NoInterruption(PauseAtSafeBoundaryEvents(s, t))
      /\ NoInterruption(AwaitUserInputEvents(s, t, x))
      /\ NoInterruption(RecordCoderSessionEvents(t, x))
      /\ NoInterruption(ConsumeApprovalEvents(x))
  BY <1>1 DEF PauseAtSafeBoundaryEvents, AwaitUserInputEvents, RecordCoderSessionEvents,
              ConsumeApprovalEvents
<1>7. /\ NoInterruption(RequestApprovalEvents(s, t, x))
      /\ NoInterruption(ReportWorkspaceConflictEvents(s, t))
  BY <1>1 DEF RequestApprovalEvents, ReportWorkspaceConflictEvents, AwaitEvent
<1>8. /\ NoInterruption(CancelEvents(s, t))
      /\ NoInterruption(CompleteEvents(s, t))
      /\ NoInterruption(FailEvents(s, t))
  BY <1>1, <1>2 DEF CancelEvents, CompleteEvents, FailEvents
<1> QED BY <1>3, <1>4, <1>5, <1>6, <1>7, <1>8

\* A coder that is asked to pause runs.
AsksARun(s, events) ==
    \/ AsksNoPause(events)
    \/ \E t \in TaskIds : s.tasks[t].state = "running" /\ events = RequestPauseEvents(t)

\* Every step commits a sound decision.
LEMMA NextIsSound ==
    ASSUME TypeOK, SlotInvariant, Next
    PROVE  ~wedged /\ \E events : /\ Sound(state, events) /\ Commit(events)
                                  /\ RecoverAfterRestart \/ NoInterruption(events)
                                  /\ AsksARun(state, events)
<1> DEFINE Decided == \E events : /\ Sound(state, events) /\ Commit(events)
                                  /\ RecoverAfterRestart \/ NoInterruption(events)
                                  /\ AsksARun(state, events)
<1>1. ~wedged
  BY DEF Next, UserStep, CoderStep, RecoverAfterRestart, Commit, Submit, RequestPause,
         Revise, Resume, AnswerQuestion, Cancel, MoveQueue, ResolveApproval,
         PauseAtSafeBoundary, AwaitUserInput, RecordCoderSession, ConsumeApproval,
         RequestApproval, ReportWorkspaceConflict, CompleteTask, FailTask
<1> SUFFICES Decided
  BY <1>1
<1>2. state \in ControllerStates /\ SlotAndQueue(state) /\ StateInvariants(state)
  BY <1>1 DEF TypeOK, SlotInvariant
<1>3. CASE UserStep
  <2>1. ASSUME NEW profile \in Profiles, Submit(profile)
        PROVE  Decided
    BY <1>2, <2>1, SubmitSound, OnlyRecoveryInterrupts, OnlyRequestPauseAsks DEF AsksARun, Submit
  <2>2. ASSUME NEW t \in TaskIds, NEW operation \in MoveOperations,
               NEW anchor \in TaskIds \cup {None}, MoveQueue(t, operation, anchor)
        PROVE  Decided
    BY <1>2, <2>2, MoveQueueSound, OnlyRecoveryInterrupts, OnlyRequestPauseAsks DEF AsksARun, MoveQueue
  <2>3. ASSUME NEW expected, NEW t \in TaskIds,
               \/ RequestPause(t, expected)
               \/ Resume(t, expected)
               \/ \E profile \in Profiles : Revise(t, expected, profile)
               \/ \E q \in QuestionIds : AnswerQuestion(t, q, expected)
        PROVE  Decided
    BY <1>2, <2>3, UserSound, OnlyRecoveryInterrupts, OnlyRequestPauseAsks
       DEF AsksARun, RequestPause, CanRequestPause, Resume, Revise, AnswerQuestion
  <2>4. ASSUME NEW expected, NEW t \in TaskIds, Cancel(t, expected)
        PROVE  Decided
    BY <1>2, <2>4, FinishSound, OnlyRecoveryInterrupts, OnlyRequestPauseAsks DEF AsksARun, Cancel
  <2>5. ASSUME NEW expected, NEW c \in ConfirmationIds, NEW decision \in {"approve", "reject"},
               ResolveApproval(c, decision, expected)
        PROVE  Decided
    BY <1>2, <2>5, ResolveApprovalSound, OnlyRecoveryInterrupts, OnlyRequestPauseAsks
       DEF AsksARun, ResolveApproval
  <2> QED BY <1>3, <2>1, <2>2, <2>3, <2>4, <2>5 DEF UserStep
<1>4. CASE CoderStep
  <2>1. ASSUME NEW t \in TaskIds, CompleteTask(t) \/ FailTask(t)
        PROVE  Decided
    BY <1>2, <2>1, FinishSound, OnlyRecoveryInterrupts, OnlyRequestPauseAsks DEF AsksARun, CompleteTask, FailTask
  <2>2. ASSUME NEW t \in TaskIds,
               \/ PauseAtSafeBoundary(t)
               \/ ReportWorkspaceConflict(t)
               \/ \E q \in QuestionIds : AwaitUserInput(t, q)
               \/ \E r \in RunIds : RecordCoderSession(t, r)
               \/ \E f \in Fingerprints :
                     RequestApproval(t, f) \/ \E c \in ConfirmationIds : ConsumeApproval(t, c, f)
        PROVE  Decided
    BY <1>2, <2>2, CoderSound, OnlyRecoveryInterrupts, OnlyRequestPauseAsks
       DEF AsksARun, PauseAtSafeBoundary, ReportWorkspaceConflict, AwaitUserInput,
           RecordCoderSession, RequestApproval, ConsumeApproval
  <2> QED BY <1>4, <2>1, <2>2 DEF CoderStep
<1>5. CASE RecoverAfterRestart
  BY <1>2, <1>5, RecoverSound, OnlyRequestPauseAsks DEF AsksARun, RecoverAfterRestart
<1> QED BY <1>3, <1>4, <1>5 DEF Next

\* A finished task is final: no decision changes it, whatever throws.
THEOREM FinishedIsFinal == Spec => TerminalIsFinal
<1>1. TypeOK /\ SlotInvariant /\ [Next]_vars =>
         [\A t \in TaskIds : StateOf(t) \in TerminalStates => state'.tasks[t] = state.tasks[t]]_vars
  <2> SUFFICES ASSUME TypeOK, SlotInvariant, Next,
                      NEW t \in TaskIds, StateOf(t) \in TerminalStates
               PROVE  state'.tasks[t] = state.tasks[t]
    OBVIOUS
  <2>1. PICK events : Sound(state, events) /\ Commit(events)
    BY NextIsSound
  <2>2. events \in Seq(Events) /\ Len(events) \in 1..3
    BY <2>1 DEF Sound
  <2>3. \A i \in DOMAIN events : ~Names(events[i], t)
    BY <2>1 DEF Sound, Careful, Names, StateOf
  <2> QED BY <2>1, <2>2, <2>3, CommitSpares DEF TypeOK
<1> QED BY <1>1, TypeCorrect, SlotInvariantHolds, PTL DEF Spec, TerminalIsFinal

-----------------------------------------------------------------------------
(* Cards act for the revision they were made for.                          *)

\* Between two decisions, the active run of a task has not been interrupted.
NotInterrupted(s) ==
    \A t \in TaskIds : LET r == s.tasks[t].activeRunId
                       IN  r # None => s.runs[r].state # "interrupted"
RunInvariant == ~wedged => NotInterrupted(state)

\* An event that interrupts no run leaves the active runs uninterrupted.
LEMMA EventKeepsRuns ==
    ASSUME NEW s \in ControllerStates, NEW e \in Events, e.type # "run.interrupted",
           NotInterrupted(s)
    PROVE  NotInterrupted(Apply(s, e))
<1> DEFINE n == Apply(s, e)
<1>1. s.tasks \in [TaskIds -> Task] /\ s.runs \in [RunIds -> Run]
  BY FieldsTyped
<1>2. /\ e.type \in StartTypes => e.runId \in RunIds
      /\ e.type \in TaskTypes => e.taskId \in TaskIds
  BY EventTypes DEF Events, CreatedEvents, EnqueuedEvents, StartedEvents, TaskEvents, RunEvents,
         AskedEvents, AnsweredEvents, RevisedEvents, RequestedEvents, ResolvedEvents,
         ConsumedEvents, ReorderedEvents, TaskOnly, TaskAndRun, StartTypes
<1>3. \A t \in TaskIds : s.tasks[t].activeRunId \in RunIds \cup {None}
  BY TaskFields
<1>4. \A q \in RunIds : n.runs[q].state = "interrupted" => s.runs[q].state = "interrupted"
  <2>1. CASE e.type \in StartTypes
    <3> DEFINE run == [taskId |-> e.taskId, taskRevision |-> e.revision, state |-> "running"]
    <3>1. n.runs = [s.runs EXCEPT ![e.runId] = run]
      BY <2>1, RunFrame
    <3>2. run.state = "running"
      OBVIOUS
    <3> HIDE DEF n, run
    <3>3. \A q \in RunIds : n.runs[q] = IF q = e.runId THEN run ELSE s.runs[q]
      BY <1>1, <3>1
    <3> QED BY <3>2, <3>3 DEF n
  <2>2. CASE e.type \notin StartTypes
    BY <2>2, RunFrame DEF RunsKept
  <2> QED BY <2>1, <2>2
<1>5. ASSUME NEW t \in TaskIds
      PROVE  \/ n.tasks[t].activeRunId \in {s.tasks[t].activeRunId, None}
             \/ e.type \in StartTypes /\ n.tasks[t].activeRunId = e.runId
  <2>1. CASE e.type \in TaskTypes
    <3>1. PICK task : /\ n.tasks = [s.tasks EXCEPT ![e.taskId] = task]
                      /\ After(e, s.tasks[e.taskId], task)
      BY <2>1, TaskFrame
    <3> HIDE DEF n
    <3>2. n.tasks[t] = IF t = e.taskId THEN task ELSE s.tasks[t]
      BY <1>1, <1>2, <2>1, <3>1
    <3> QED BY <3>1, <3>2 DEF After
  <2>2. CASE e.type \notin TaskTypes
    BY <2>2, OtherFrame
  <2> QED BY <2>1, <2>2
<1>6. e.type \in StartTypes => n.runs[e.runId].state = "running"
  <2> SUFFICES ASSUME e.type \in StartTypes
               PROVE  n.runs[e.runId].state = "running"
    OBVIOUS
  <2> DEFINE run == [taskId |-> e.taskId, taskRevision |-> e.revision, state |-> "running"]
  <2>1. n.runs = [s.runs EXCEPT ![e.runId] = run]
    BY RunFrame
  <2>2. run.state = "running"
    OBVIOUS
  <2> HIDE DEF n, run
  <2> QED BY <1>1, <1>2, <2>1, <2>2
<1> HIDE DEF n
<1>7. NotInterrupted(n)
  BY <1>2, <1>3, <1>4, <1>5, <1>6 DEF NotInterrupted
<1> QED BY <1>7 DEF n

\* Such a decision leaves the active runs uninterrupted, whatever throws.
LEMMA DecisionKeepsRuns ==
    ASSUME state \in ControllerStates, NEW events \in Seq(Events), Len(events) \in 1..3,
           NoInterruption(events), Commit(events), NotInterrupted(state)
    PROVE  NotInterrupted(state')
<1> DEFINE m == [state |-> state, ok |-> TRUE]
           m1 == ApplyChecked(m, events[1])
           m2 == IF Len(events) < 2 THEN m1 ELSE ApplyChecked(m1, events[2])
           m3 == IF Len(events) < 3 THEN m2 ELSE ApplyChecked(m2, events[3])
           Memory == [state : ControllerStates, ok : BOOLEAN]
<1>1. m \in Memory /\ m.state = state
  OBVIOUS
<1>2. state' = m3.state
  BY FewSteps DEF Commit, LoopOfThree
<1>3. Len(events) \in {1, 2, 3} /\ DOMAIN events = 1..Len(events)
  OBVIOUS
<1>4. \A i \in 1..Len(events) : events[i] \in Events /\ events[i].type # "run.interrupted"
  BY <1>3 DEF NoInterruption
<1>5. ASSUME NEW p \in Memory, NEW e \in Events, e.type # "run.interrupted",
             NotInterrupted(p.state)
      PROVE  ApplyChecked(p, e) \in Memory /\ NotInterrupted(ApplyChecked(p, e).state)
  <2>1. ApplyChecked(p, e).state \in {p.state, Apply(p.state, e)}
    BY DEF ApplyChecked
  <2> QED BY <1>5, <2>1, ApplyCheckedTyped, EventKeepsRuns
<1> HIDE DEF m, Memory
<1>6. m1 \in Memory /\ NotInterrupted(m1.state)
  BY <1>1, <1>3, <1>4, <1>5
<1> HIDE DEF m1
<1>7. m2 \in Memory /\ NotInterrupted(m2.state)
  BY <1>3, <1>4, <1>5, <1>6
<1> HIDE DEF m2
<1>8. NotInterrupted(m3.state)
  BY <1>3, <1>4, <1>5, <1>7
<1> QED BY <1>2, <1>8

\* The recovery leaves the task that was running paused.
LEMMA RecoveryPauses ==
    ASSUME state \in ControllerStates, ~wedged', RecoverAfterRestart
    PROVE  state'.tasks[state.activeTaskId].state = "paused"
<1> DEFINE t == state.activeTaskId
           r == state.tasks[t].activeRunId
           e == [type |-> "run.interrupted", taskId |-> t, runId |-> r]
           b == [type |-> "coder.recoveryBoundary", taskId |-> t, runId |-> r]
           f == [type |-> "task.paused", taskId |-> t, runId |-> r]
<1>1. t \in TaskIds
  BY FieldsTyped DEF RecoverAfterRestart, CanRecover
<1>2. r \in RunIds
  BY <1>1, TaskFields DEF RecoverAfterRestart, CanRecover
<1>3. Commit(<<e, f>>) \/ Commit(<<e, b, f>>)
  BY DEF RecoverAfterRestart, RecoverEvents
<1> HIDE DEF t, r
<1>4. f.type = "task.paused" /\ f.taskId = t
  OBVIOUS
<1>5. e \in RunEvents /\ b \in RunEvents /\ f \in RunEvents
  BY <1>1, <1>2 DEF RunEvents, TaskAndRun
<1> HIDE DEF e, b, f
<1>6. e \in Events /\ b \in Events /\ f \in Events
  BY <1>5, EventKinds
<1>7. \E s \in ControllerStates : state' = Apply(s, f)
  BY <1>3, <1>6, CommittedTwo, CommittedThree
<1>8. PICK s \in ControllerStates : state' = Apply(s, f)
  BY <1>7
<1>9. PICK task : /\ state'.tasks = [s.tasks EXCEPT ![t] = task]
                  /\ After(f, s.tasks[t], task)
  BY <1>4, <1>6, <1>8, TaskFrame DEF TaskTypes, TaskIsRequired
<1>10. s.tasks \in [TaskIds -> Task]
  BY FieldsTyped
<1> QED BY <1>1, <1>4, <1>9, <1>10 DEF After, t

\* Between two decisions no active run is an interrupted one.
LEMMA RunInvariantHolds == Spec => []RunInvariant
<1>1. Init => RunInvariant
  BY DEF Init, RunInvariant, NotInterrupted, EmptyState, NoTask
<1>2. TypeOK /\ SlotInvariant /\ RunInvariant /\ [Next]_vars /\ SlotInvariant' => RunInvariant'
  <2> SUFFICES ASSUME TypeOK, SlotInvariant, RunInvariant, [Next]_vars, SlotInvariant'
               PROVE  RunInvariant'
    OBVIOUS
  <2>1. CASE UNCHANGED vars
    BY <2>1 DEF vars, RunInvariant
  <2>2. CASE Next
    <3> SUFFICES ASSUME ~wedged'
                 PROVE  NotInterrupted(state')
      BY DEF RunInvariant
    <3>1. PICK events : /\ Sound(state, events) /\ Commit(events)
                        /\ RecoverAfterRestart \/ NoInterruption(events)
      BY <2>2, NextIsSound
    <3>2. /\ state \in ControllerStates /\ SlotDiscipline(state) /\ SlotDiscipline(state')
          /\ NotInterrupted(state)
      BY <2>2, NextIsSound DEF TypeOK, SlotInvariant, SlotAndQueue, RunInvariant
    <3>3. events \in Seq(Events) /\ Len(events) \in 1..3
      BY <3>1 DEF Sound
    <3>4. CASE NoInterruption(events)
      BY <3>1, <3>2, <3>3, <3>4, DecisionKeepsRuns
    <3>5. CASE RecoverAfterRestart
      <4>1. state'.tasks[state.activeTaskId].state = "paused"
        BY <3>2, <3>5, RecoveryPauses
      <4>2. PICK decision : Sound(state, decision) /\ decision = RecoverEvents(state)
        BY <3>2, <3>5, RecoverSound DEF RecoverAfterRestart
      <4>3. ASSUME NEW u \in TaskIds, u # state.activeTaskId
            PROVE  state'.tasks[u].activeRunId = None
        <5>1. \A i \in DOMAIN decision : ~Names(decision[i], u)
          BY <4>2, <4>3 DEF RecoverEvents, Names
        <5>2. decision \in Seq(Events) /\ Len(decision) \in 1..3 /\ Commit(decision)
          BY <4>2, <3>5 DEF Sound, RecoverAfterRestart
        <5>3. state'.tasks[u] = state.tasks[u]
          BY <3>2, <5>1, <5>2, CommitSpares
        <5> QED BY <3>2, <4>3, <5>3 DEF SlotDiscipline, LiveStates
      <4> QED BY <3>2, <4>1, <4>3 DEF NotInterrupted, SlotDiscipline
    <3> QED BY <3>1, <3>4, <3>5
  <2> QED BY <2>1, <2>2
<1> QED BY <1>1, <1>2, TypeCorrect, SlotInvariantHolds, PTL DEF Spec

\* A card is consumed only by a run of the specification it was approved for,
\* and a card of an older revision is never resolved.
THEOREM CardsAreCurrent == Spec => CardsActAtTheirRevision
<1> DEFINE Acts(c) ==
               LET card == state.confirmations[c]
               IN  card.state \notin {"none", state'.confirmations[c].state} =>
                     /\ state.tasks[card.taskId].revision = card.taskRevision
                     /\ state'.tasks[card.taskId].revision = card.taskRevision
                     /\ state'.confirmations[c].state = "consumed" =>
                           state.runs[state.tasks[card.taskId].activeRunId].taskRevision
                               = card.taskRevision
<1>1. TypeOK /\ SlotInvariant /\ RunInvariant /\ [Next]_vars => [\A c \in ConfirmationIds : Acts(c)]_vars
  <2> SUFFICES ASSUME TypeOK, SlotInvariant, RunInvariant, Next, NEW c \in ConfirmationIds
               PROVE  Acts(c)
    OBVIOUS
  <2> DEFINE card == state.confirmations[c]
             t == card.taskId
             r == state.tasks[t].activeRunId
  <2> SUFFICES ASSUME card.state \notin {"none", state'.confirmations[c].state}
               PROVE  /\ state.tasks[t].revision = card.taskRevision
                      /\ state'.tasks[t].revision = card.taskRevision
                      /\ state'.confirmations[c].state = "consumed" =>
                            state.runs[r].taskRevision = card.taskRevision
    OBVIOUS
  <2>1. PICK events : Sound(state, events) /\ Commit(events)
    BY NextIsSound
  <2>2. /\ state \in ControllerStates /\ SlotDiscipline(state) /\ StateInvariants(state)
        /\ NotInterrupted(state)
    BY NextIsSound DEF TypeOK, SlotInvariant, SlotAndQueue, RunInvariant
  <2>3. events \in Seq(Events) /\ Len(events) \in 1..3
    BY <2>1 DEF Sound
  <2>4. PICK i \in DOMAIN events : Holds(events[i], c)
    BY <2>1, <2>2, <2>3, CommitSpares
  <2>5. t \in TaskIds
    <3>1. card \in Confirmation
      BY <2>2, FieldsTyped
    <3> QED BY <3>1 DEF Confirmation, NoConfirmation
  <2>6. state.tasks[t].revision = card.taskRevision
    BY <2>1, <2>4 DEF Sound, Careful, Holds, CardTypes
  <2>7. \A j \in DOMAIN events : ~Revises(events[j])
    BY <2>1, <2>4 DEF Sound, Holds
  <2>8. state'.tasks[t].revision = state.tasks[t].revision
    BY <2>1, <2>2, <2>3, <2>5, <2>7, CommitSpares
  <2>9. ASSUME state'.confirmations[c].state = "consumed"
        PROVE  state.runs[r].taskRevision = card.taskRevision
    <3>1. PICK j \in DOMAIN events : Uses(events[j], c)
      BY <2>1, <2>2, <2>3, <2>9, CommitSpares
    <3>2. InRun(state, t)
      BY <2>1, <3>1 DEF Sound, Careful, Uses
    <3>3. r \in RunIds
      BY <2>2, <2>5, <3>2, TaskFields DEF InRun
    <3>4. state.runs[r].state = "running" /\ state.runs[r].taskId = t
      BY <2>2, <2>5, <3>2 DEF InRun, StateInvariants, NotInterrupted
    <3> QED BY <2>2, <2>6, <3>3, <3>4 DEF SlotDiscipline, RunsDiscipline
  <2> QED BY <2>6, <2>8, <2>9
<1> QED BY <1>1, TypeCorrect, SlotInvariantHolds, RunInvariantHolds, PTL
        DEF Spec, CardsActAtTheirRevision

-----------------------------------------------------------------------------
(* Each decision keeps that a suspended task waits for one thing.          *)

\* A change of one task, of its cards and of its questions keeps the invariant
\* when that task still waits for one thing at most.
LEMMA InterruptsKept ==
    ASSUME NEW s \in ControllerStates, NEW n \in ControllerStates, NEW t \in TaskIds,
           Interrupts(s),
           \A u \in TaskIds : u # t => n.tasks[u] = s.tasks[u],
           \A c \in ConfirmationIds :
              \/ n.confirmations[c] = s.confirmations[c]
              \/ n.confirmations[c].taskId = t /\ CardBelongs(n, c),
           \A q \in QuestionIds : n.questions[q].state = "open" =>
              n.questions[q] = s.questions[q] \/ n.questions[q].taskId = t,
           s.tasks[t].state \notin NotStarted => n.tasks[t].state \notin NotStarted,
           s.tasks[t].revision <= n.tasks[t].revision \/ s.tasks[t].state \in NotStarted,
           n.tasks[t].state \in NotStarted => ~n.tasks[t].conflict,
           n.tasks[t].state \in LiveStates => WaitsForOne(n, t)
    PROVE  Interrupts(n)
<1>1. ASSUME NEW c \in ConfirmationIds
      PROVE  CardBelongs(n, c)
  <2> SUFFICES ASSUME n.confirmations[c] = s.confirmations[c]
               PROVE  CardBelongs(n, c)
    OBVIOUS
  <2> DEFINE card == s.confirmations[c]
  <2>1. CardBelongs(s, c)
    BY DEF Interrupts
  <2>2. CASE card.state = "none"
    BY <2>2 DEF CardBelongs
  <2>3. CASE card.state # "none" /\ card.taskId # t
    BY <2>1, <2>3 DEF CardBelongs
  <2>4. CASE card.state # "none" /\ card.taskId = t
    <3>1. /\ s.tasks[t].revision \in Nat /\ n.tasks[t].revision \in Nat
          /\ card.taskRevision \in Nat
      BY TaskFields, FieldsTyped, <2>4 DEF Confirmation, NoConfirmation
    <3>2. /\ s.tasks[t].state \notin NotStarted
          /\ card.taskRevision <= s.tasks[t].revision
      BY <2>1, <2>4 DEF CardBelongs
    <3>3. n.tasks[t].state \notin NotStarted /\ card.taskRevision <= n.tasks[t].revision
      BY <3>1, <3>2
    <3> QED BY <2>4, <3>3 DEF CardBelongs
  <2> QED BY <2>2, <2>3, <2>4
<1>2. \A u \in TaskIds : n.tasks[u].state \in NotStarted => ~n.tasks[u].conflict
  BY DEF Interrupts
<1>3. ASSUME NEW u \in TaskIds, n.tasks[u].state \in LiveStates, u # t
      PROVE  WaitsForOne(n, u)
  <2>1. n.tasks[u] = s.tasks[u] /\ WaitsForOne(s, u)
    BY <1>3 DEF Interrupts
  <2>2. PendingConfirmations(n, u) \subseteq PendingConfirmations(s, u)
    BY <1>3, <2>1 DEF PendingConfirmations
  <2>3. /\ OpenQuestions(n, u) \subseteq OpenQuestions(s, u)
        /\ \A q \in OpenQuestions(n, u) : n.questions[q] = s.questions[q]
    BY <1>3, <2>1 DEF OpenQuestions
  <2> QED BY <2>1, <2>2, <2>3 DEF WaitsForOne
<1> QED BY <1>1, <1>2, <1>3 DEF Interrupts

\* Cards that are answered or used leave the others single.
LEMMA SinglesKept ==
    ASSUME NEW s, NEW n, CardsAreSingle(s),
           \A c \in ConfirmationIds : Live(n, c) =>
              /\ Live(s, c)
              /\ n.confirmations[c].taskId = s.confirmations[c].taskId
              /\ n.confirmations[c].taskRevision = s.confirmations[c].taskRevision
              /\ n.confirmations[c].fingerprint = s.confirmations[c].fingerprint
    PROVE  CardsAreSingle(n)
BY DEF CardsAreSingle, SameEffect

\* A task that works waits for nothing.
LEMMA WorkerWaitsForNothing ==
    ASSUME NEW s, NEW t \in TaskIds, Interrupts(s), StateInvariants(s),
           s.tasks[t].state \in {"running", "pause_requested"}
    PROVE  /\ ~s.tasks[t].conflict
           /\ PendingConfirmations(s, t) = {} /\ OpenQuestions(s, t) = {}
BY DEF Interrupts, WaitsForOne, StateInvariants, LiveStates

Waiting(s) == Interrupts(s) /\ CardsAreSingle(s)

\* Nothing stands between task t and its coder.
Unblocked(s, t) ==
    /\ ~s.tasks[t].conflict
    /\ PendingConfirmations(s, t) = {}
    /\ OpenQuestions(s, t) = {}

PlainTypes == {"task.pauseRequested", "task.paused", "task.awaitingUser",
               "coder.sessionBound", "coder.recoveryBoundary", "workspace.conflictResolved"}
                 \cup StartTypes \cup EndTypes

\* An event that puts nothing in the way of a task keeps the invariant when
\* nothing was in the way, but for the conflict that it resolves; so does the
\* end of a task.
LEMMA PlainStep ==
    ASSUME NEW s \in ControllerStates, NEW e \in Events, e.type \in PlainTypes,
           Apply(s, e) \in ControllerStates, Waiting(s),
           \/ e.type \in EndTypes
           \/ Unblocked(s, e.taskId)
           \/ /\ e.type = "workspace.conflictResolved"
              /\ PendingConfirmations(s, e.taskId) = {} /\ OpenQuestions(s, e.taskId) = {}
    PROVE  LET n == Apply(s, e)
           IN  /\ Waiting(n)
               /\ n.confirmations = s.confirmations /\ n.questions = s.questions
               /\ e.taskId \in TaskIds
               /\ \A u \in TaskIds : u # e.taskId => n.tasks[u] = s.tasks[u]
               /\ After(e, s.tasks[e.taskId], n.tasks[e.taskId])
               /\ e.type \notin EndTypes => Unblocked(n, e.taskId)
<1> DEFINE n == Apply(s, e)
           t == e.taskId
<1>1. e.type \in TaskTypes /\ e.type \notin QuestionTypes
  BY DEF PlainTypes, StartTypes, EndTypes, TaskTypes, TaskIsRequired, QuestionTypes
<1>2. /\ t \in TaskIds
      /\ \A u \in TaskIds : u # t => n.tasks[u] = s.tasks[u]
      /\ After(e, s.tasks[t], n.tasks[t])
      /\ n.confirmations = s.confirmations /\ n.questions = s.questions
  BY <1>1, TaskEffect
<1>3. n.tasks[t].revision = s.tasks[t].revision
  BY <1>2 DEF After, PlainTypes, StartTypes, EndTypes
<1>4. /\ PendingConfirmations(n, t) = PendingConfirmations(s, t)
      /\ OpenQuestions(n, t) = OpenQuestions(s, t)
  BY <1>2, <1>3 DEF PendingConfirmations, OpenQuestions
<1>5. e.type \in EndTypes => n.tasks[t].state \in TerminalStates
  BY <1>2 DEF After, EndTypes, TerminalStates
<1>6. e.type \notin EndTypes => ~n.tasks[t].conflict
  <2>1. CASE e.type = "workspace.conflictResolved"
    BY <1>2, <2>1 DEF After
  <2>2. CASE e.type \in PlainTypes \ ({"workspace.conflictResolved"} \cup EndTypes)
    BY <1>2, <2>2 DEF After, PlainTypes, StartTypes, EndTypes, Unblocked
  <2> QED BY <2>1, <2>2
<1>7. s.tasks[t].state \notin NotStarted => n.tasks[t].state \notin NotStarted
  BY <1>2 DEF After, PlainTypes, StartTypes, EndTypes, NotStarted, KeepsState
<1>8. s.tasks[t].revision \in Nat
  BY <1>2, TaskFields
<1> HIDE DEF n, t
<1>9. e.type \notin EndTypes => Unblocked(n, t)
  BY <1>4, <1>6 DEF Unblocked, t
<1>10. n.tasks[t].state \in NotStarted => ~n.tasks[t].conflict
  BY <1>5, <1>6 DEF NotStarted, TerminalStates
<1>11. n.tasks[t].state \in LiveStates => WaitsForOne(n, t)
  BY <1>5, <1>9 DEF LiveStates, TerminalStates, Unblocked, WaitsForOne
<1>12. Interrupts(n)
  <2>1. s.tasks[t].revision <= n.tasks[t].revision
    BY <1>3, <1>8
  <2> QED BY <1>2, <1>7, <1>10, <1>11, <2>1, InterruptsKept DEF Waiting, n
<1>13. CardsAreSingle(n)
  BY <1>2 DEF CardsAreSingle, Waiting, Live, SameEffect
<1> QED BY <1>2, <1>9, <1>12, <1>13 DEF Waiting, n, t

\* A task that waits in the queue is not blocked.
LEMMA QueuedIsUnblocked ==
    ASSUME NEW s, NEW t \in TaskIds, Interrupts(s), StateInvariants(s),
           s.tasks[t].state \in NotStarted
    PROVE  Unblocked(s, t)
<1>1. OpenQuestions(s, t) = {}
  BY DEF StateInvariants, NotStarted
<1>2. PendingConfirmations(s, t) = {}
  BY DEF Interrupts, CardBelongs, PendingConfirmations
<1> QED BY <1>1, <1>2 DEF Interrupts, Unblocked

\* A pause that is requested or reached, and a session that is recorded: the
\* task was at work.
LEMMA WorkerDecisionsWait ==
    ASSUME state \in ControllerStates, SlotDiscipline(state), StateInvariants(state),
           Waiting(state), ~wedged', NEW t \in TaskIds,
           \/ \E expected : RequestPause(t, expected)
           \/ PauseAtSafeBoundary(t)
           \/ \E r \in RunIds : RecordCoderSession(t, r)
    PROVE  Waiting(state')
<1>1. state.tasks[t].state \in {"running", "pause_requested"} => Unblocked(state, t)
  BY WorkerWaitsForNothing DEF Waiting, Unblocked
<1>2. ASSUME NEW e \in Events, e.type \in PlainTypes, e.taskId = t,
             state.tasks[t].state \in {"running", "pause_requested"}, Commit(<<e>>)
      PROVE  Waiting(state')
  BY <1>1, <1>2, CommittedOne, PlainStep
<1>3. ASSUME NEW expected, RequestPause(t, expected)
      PROVE  Waiting(state')
  <2> DEFINE e == [type |-> "task.pauseRequested", taskId |-> t]
  <2>1. /\ Commit(<<e>>) /\ state.tasks[t].state = "running"
    BY <1>3 DEF RequestPause, CanRequestPause, RequestPauseEvents
  <2>2. e.type \in PlainTypes /\ e.taskId = t
    BY DEF PlainTypes
  <2>3. e \in TaskEvents
    BY DEF TaskEvents, TaskOnly
  <2> HIDE DEF e
  <2>4. e \in Events
    BY <2>3, EventKinds
  <2> QED BY <1>2, <2>1, <2>2, <2>4
<1>4. ASSUME PauseAtSafeBoundary(t)
      PROVE  Waiting(state')
  <2> DEFINE e == [type |-> "task.paused", taskId |-> t, runId |-> state.tasks[t].activeRunId]
  <2>1. /\ Commit(<<e>>) /\ state.tasks[t].state = "pause_requested"
        /\ state.tasks[t].activeRunId # None
    BY <1>4 DEF PauseAtSafeBoundary, CanPauseAtSafeBoundary, PauseAtSafeBoundaryEvents
  <2>2. e.type \in PlainTypes /\ e.taskId = t
    BY DEF PlainTypes
  <2>3. e \in RunEvents
    BY <2>1, TaskFields DEF RunEvents, TaskAndRun
  <2> HIDE DEF e
  <2>4. e \in Events
    BY <2>3, EventKinds
  <2> QED BY <1>2, <2>1, <2>2, <2>4
<1>5. ASSUME NEW r \in RunIds, RecordCoderSession(t, r)
      PROVE  Waiting(state')
  <2> DEFINE e == [type |-> "coder.sessionBound", taskId |-> t, runId |-> r]
  <2>1. /\ Commit(<<e>>) /\ state.tasks[t].activeRunId = r
    BY <1>5 DEF RecordCoderSession, CanRecordCoderSession, RecordCoderSessionEvents
  <2>2. e.type \in PlainTypes /\ e.taskId = t
    BY DEF PlainTypes
  <2>3. e \in RunEvents
    BY DEF RunEvents, TaskAndRun
  <2>4. state.tasks[t].state \in {"running", "pause_requested"}
    BY <2>1, NoneAssumption DEF SlotDiscipline
  <2> HIDE DEF e
  <2>5. e \in Events
    BY <2>3, EventKinds
  <2> QED BY <1>2, <2>1, <2>2, <2>4, <2>5
<1> QED BY <1>3, <1>4, <1>5

\* A resume finds neither a card nor a question, and resolves the conflict.
LEMMA ResumeWaits ==
    ASSUME state \in ControllerStates, Waiting(state), ~wedged', NEW t \in TaskIds,
           NEW expected, Resume(t, expected)
    PROVE  Waiting(state')
<1> DEFINE e == ResumeEvent(state, t)
           f == [type |-> "workspace.conflictResolved", taskId |-> t]
<1>1. /\ PendingConfirmations(state, t) = {} /\ OpenQuestions(state, t) = {}
      /\ RunLeft(state)
      /\ Commit(IF state.tasks[t].conflict THEN <<f, e>> ELSE <<e>>)
  BY DEF Resume, CanResume, ResumeEvents
<1>2. e \in Events /\ e.type \in PlainTypes /\ e.type \notin EndTypes /\ e.taskId = t
  BY <1>1, StartAndResumeTyped DEF ResumeEvent, PlainTypes, StartTypes, EndTypes
<1>3. f.type = "workspace.conflictResolved" /\ f.taskId = t /\ f \in TaskEvents
  BY DEF TaskEvents, TaskOnly
<1> HIDE DEF e, f
<1>4. f \in Events /\ f.type \in PlainTypes /\ f.type \notin EndTypes
  BY <1>3, EventKinds DEF PlainTypes, EndTypes
<1>5. CASE state.tasks[t].conflict
  <2>1. /\ Apply(state, f) \in ControllerStates /\ state' = Apply(Apply(state, f), e)
        /\ state' \in ControllerStates
    BY <1>1, <1>2, <1>4, <1>5, CommittedTwo
  <2>2. Waiting(Apply(state, f)) /\ Unblocked(Apply(state, f), t)
    BY <1>1, <1>3, <1>4, <2>1, PlainStep
  <2> QED BY <1>2, <2>1, <2>2, PlainStep
<1>6. CASE ~state.tasks[t].conflict
  <2>1. state' = Apply(state, e) /\ state' \in ControllerStates
    BY <1>1, <1>2, <1>6, CommittedOne
  <2>2. Unblocked(state, t)
    BY <1>1, <1>6 DEF Unblocked
  <2> QED BY <1>2, <2>1, <2>2, PlainStep
<1> QED BY <1>5, <1>6

\* The task at the head of the queue waits for nothing when it gets the slot.
LEMMA HandoffWaits ==
    ASSUME state \in ControllerStates, StateInvariants(state), Waiting(state), ~wedged',
           NEW e \in Events, e.type \in EndTypes,
           state.queue # <<>> => RunLeft(state) /\ Head(state.queue) # e.taskId,
           Commit(AndStartNext(state, e))
    PROVE  Waiting(state')
<1>1. CASE state.queue = <<>>
  <2>1. Commit(<<e>>)
    BY <1>1 DEF AndStartNext
  <2>2. state' = Apply(state, e) /\ state' \in ControllerStates
    BY <2>1, CommittedOne
  <2> QED BY <2>2, PlainStep DEF PlainTypes
<1>2. CASE state.queue # <<>>
  <2> DEFINE u == Head(state.queue)
             f == StartEvent(state, u)
             s == Apply(state, e)
  <2>1. u \in TaskIds /\ 1 \in DOMAIN state.queue /\ state.queue[1] = u
    BY <1>2, FieldsTyped
  <2>2. state.tasks[u].state = "queued"
    BY <2>1 DEF StateInvariants
  <2>3. Unblocked(state, u)
    BY <2>1, <2>2, QueuedIsUnblocked DEF Waiting, NotStarted
  <2>4. f \in Events /\ f.type \in PlainTypes /\ f.type \notin EndTypes /\ f.taskId = u
    BY <1>2, <2>1, StartAndResumeTyped DEF StartEvent, PlainTypes, StartTypes, EndTypes
  <2>5. Commit(<<e, f>>)
    BY <1>2 DEF AndStartNext
  <2> HIDE DEF u, f
  <2>6. s \in ControllerStates /\ state' = Apply(s, f) /\ state' \in ControllerStates
    BY <2>4, <2>5, CommittedTwo
  <2>7. /\ Waiting(s)
        /\ s.confirmations = state.confirmations /\ s.questions = state.questions
        /\ s.tasks[u] = state.tasks[u]
    BY <1>2, <2>1, <2>6, PlainStep DEF PlainTypes, u
  <2>8. Unblocked(s, u)
    BY <2>3, <2>7 DEF Unblocked, PendingConfirmations, OpenQuestions
  <2> QED BY <2>4, <2>6, <2>7, <2>8, PlainStep
<1> QED BY <1>1, <1>2

\* The end of a task, by its coder or by the user.
LEMMA EndWaits ==
    ASSUME state \in ControllerStates, SlotDiscipline(state), StateInvariants(state),
           Waiting(state), ~wedged', NEW t \in TaskIds,
           CompleteTask(t) \/ FailTask(t) \/ \E expected : Cancel(t, expected)
    PROVE  Waiting(state')
<1>1. ASSUME state.queue # <<>>
      PROVE  state.tasks[Head(state.queue)].state = "queued"
  <2>1. 1 \in DOMAIN state.queue /\ Head(state.queue) = state.queue[1]
    BY <1>1, FieldsTyped
  <2> QED BY <2>1 DEF StateInvariants
<1>2. ASSUME CompleteTask(t) \/ FailTask(t)
      PROVE  Waiting(state')
  <2> DEFINE Ends(x) == [type |-> x, taskId |-> t, runId |-> state.tasks[t].activeRunId]
  <2>1. PICK x \in {"task.completed", "task.failed"} : Commit(AndStartNext(state, Ends(x)))
    BY <1>2 DEF CompleteTask, FailTask, CompleteEvents, FailEvents
  <2>2. /\ state.tasks[t].state \in {"running", "pause_requested"}
        /\ state.tasks[t].activeRunId # None /\ (state.queue # <<>> => RunLeft(state))
    BY <1>2 DEF CompleteTask, FailTask, CanFinish
  <2>3. Ends(x) \in RunEvents
    BY <2>2, TaskFields DEF RunEvents, TaskAndRun
  <2>4. Ends(x) \in Events /\ Ends(x).type \in EndTypes /\ Ends(x).taskId = t
    BY <2>3, EventKinds DEF EndTypes
  <2> HIDE DEF Ends
  <2> QED BY <1>1, <2>1, <2>2, <2>4, HandoffWaits
<1>3. ASSUME NEW expected, Cancel(t, expected)
      PROVE  Waiting(state')
  <2> DEFINE e == [type |-> "task.cancelled", taskId |-> t]
  <2>1. e \in TaskEvents
    BY DEF TaskEvents, TaskOnly
  <2>2. e \in Events /\ e.type \in EndTypes /\ e.taskId = t
    BY <2>1, EventKinds DEF EndTypes
  <2>3. /\ Commit(IF IsActive(state, t) THEN AndStartNext(state, e) ELSE <<e>>)
        /\ IsActive(state, t) /\ state.queue # <<>> => RunLeft(state)
    BY <1>3 DEF Cancel, CanCancel, CancelEvents
  <2> HIDE DEF e
  <2>4. CASE IsActive(state, t)
    <3>1. state.tasks[t].state \in LiveStates
      BY <2>4 DEF IsActive, SlotDiscipline
    <3> QED BY <1>1, <2>2, <2>3, <2>4, <3>1, HandoffWaits DEF LiveStates
  <2>5. CASE ~IsActive(state, t)
    <3>1. state' = Apply(state, e) /\ state' \in ControllerStates
      BY <2>2, <2>3, <2>5, CommittedOne
    <3> QED BY <2>2, <3>1, PlainStep DEF PlainTypes
  <2> QED BY <2>4, <2>5
<1> QED BY <1>2, <1>3

\* The recovery suspends a task that was at work.
LEMMA RecoverWaits ==
    ASSUME state \in ControllerStates, StateInvariants(state), Waiting(state), ~wedged',
           RecoverAfterRestart
    PROVE  Waiting(state')
<1> DEFINE t == state.activeTaskId
           r == state.tasks[t].activeRunId
           e == [type |-> "run.interrupted", taskId |-> t, runId |-> r]
           b == [type |-> "coder.recoveryBoundary", taskId |-> t, runId |-> r]
           f == [type |-> "task.paused", taskId |-> t, runId |-> r]
           s1 == Apply(state, e)
           s2 == Apply(s1, b)
<1>1. t \in TaskIds
  BY FieldsTyped DEF RecoverAfterRestart, CanRecover
<1>2. r \in RunIds
  BY <1>1, TaskFields DEF RecoverAfterRestart, CanRecover
<1>3. Commit(<<e, f>>) \/ Commit(<<e, b, f>>)
  BY DEF RecoverAfterRestart, RecoverEvents
<1>4. state.tasks[t].state \in {"running", "pause_requested"}
  BY DEF RecoverAfterRestart, CanRecover
<1> HIDE DEF t, r
<1>5. /\ e.type = "run.interrupted"
      /\ b.type = "coder.recoveryBoundary" /\ b.taskId = t
      /\ f.type = "task.paused" /\ f.taskId = t
  OBVIOUS
<1>6. e \in RunEvents /\ b \in RunEvents /\ f \in RunEvents
  BY <1>1, <1>2 DEF RunEvents, TaskAndRun
<1> HIDE DEF e, b, f
<1>7. e \in Events /\ b \in Events /\ f \in Events
  BY <1>6, EventKinds
<1>8. Unblocked(state, t)
  BY <1>1, <1>4, WorkerWaitsForNothing DEF Waiting, Unblocked
<1>9. /\ s1.tasks = state.tasks /\ s1.confirmations = state.confirmations
      /\ s1.questions = state.questions
  BY <1>5, <1>7, OtherFrame DEF TaskTypes, TaskIsRequired, CardTypes
<1> HIDE DEF s1
<1>10. Unblocked(s1, t)
  BY <1>8, <1>9 DEF Unblocked, PendingConfirmations, OpenQuestions
<1>11. Waiting(s1)
  BY <1>9 DEF Waiting, Interrupts, CardBelongs, WaitsForOne, PendingConfirmations,
              OpenQuestions, CardsAreSingle, Live, SameEffect
<1>12. CASE Commit(<<e, f>>)
  <2>1. s1 \in ControllerStates /\ state' = Apply(s1, f) /\ state' \in ControllerStates
    BY <1>7, <1>12, CommittedTwo DEF s1
  <2> QED BY <1>5, <1>7, <1>10, <1>11, <2>1, PlainStep DEF PlainTypes
<1>13. CASE Commit(<<e, b, f>>)
  <2>1. /\ s1 \in ControllerStates /\ s2 \in ControllerStates
        /\ state' = Apply(s2, f) /\ state' \in ControllerStates
    BY <1>7, <1>13, CommittedThree DEF s1
  <2>2. Waiting(s2) /\ Unblocked(s2, t)
    BY <1>5, <1>7, <1>10, <1>11, <2>1, PlainStep DEF PlainTypes, EndTypes
  <2> HIDE DEF s2
  <2> QED BY <1>5, <1>7, <2>1, <2>2, PlainStep DEF PlainTypes
<1> QED BY <1>3, <1>12, <1>13

\* A new task, and a task put into the queue, have no card and no conflict.
LEMMA EnterStep ==
    ASSUME NEW s \in ControllerStates, NEW e \in Events,
           e.type \in {"task.created", "task.enqueued"}, Apply(s, e) \in ControllerStates,
           Waiting(s), s.tasks[e.taskId].state \in NotStarted, OpenQuestions(s, e.taskId) = {}
    PROVE  LET n == Apply(s, e)
           IN  /\ Waiting(n)
               /\ n.tasks[e.taskId].state = "queued"
               /\ Unblocked(n, e.taskId)
<1> DEFINE n == Apply(s, e)
           t == e.taskId
<1>1. e.type \in TaskTypes /\ e.type \notin QuestionTypes
  BY DEF TaskTypes, TaskIsRequired, QuestionTypes
<1>2. /\ t \in TaskIds
      /\ \A u \in TaskIds : u # t => n.tasks[u] = s.tasks[u]
      /\ After(e, s.tasks[t], n.tasks[t])
      /\ n.confirmations = s.confirmations /\ n.questions = s.questions
  BY <1>1, TaskEffect
<1>3. ~s.tasks[t].conflict
  BY <1>2 DEF Waiting, Interrupts
<1>4. n.tasks[t].state = "queued" /\ ~n.tasks[t].conflict
  BY <1>2, <1>3 DEF After
<1> HIDE DEF n, t
<1>5. \A c \in ConfirmationIds : s.confirmations[c].taskId = t => s.confirmations[c].state = "none"
  BY DEF Waiting, Interrupts, CardBelongs, t
<1>6. PendingConfirmations(n, t) = {} /\ OpenQuestions(n, t) = {}
  BY <1>2, <1>5 DEF PendingConfirmations, OpenQuestions, t
<1>7. Interrupts(n)
  BY <1>2, <1>4, InterruptsKept DEF Waiting, NotStarted, LiveStates, n, t
<1>8. CardsAreSingle(n)
  BY <1>2 DEF CardsAreSingle, Waiting, Live, SameEffect
<1> QED BY <1>4, <1>6, <1>7, <1>8 DEF Waiting, Unblocked, n, t

\* A task is submitted, and started when nobody has the slot.
LEMMA SubmitWaits ==
    ASSUME state \in ControllerStates, StateInvariants(state), Waiting(state), ~wedged',
           NEW profile \in Profiles, Submit(profile)
    PROVE  Waiting(state')
<1> DEFINE t == NewTask(state)
           created  == [type |-> "task.created", taskId |-> t,
                        profile |-> profile, revision |-> 1]
           enqueued == [type |-> "task.enqueued", taskId |-> t,
                        position |-> QueuePosition(state, profile)]
           started  == [type |-> "task.started", taskId |-> t,
                        runId |-> NewRun(state), revision |-> 1]
           s1 == Apply(state, created)
           s2 == Apply(s1, enqueued)
<1>1. t \in TaskIds /\ state.tasks[t].state = "none"
  BY NewIds DEF Submit, CanSubmit
<1>2. created \in CreatedEvents /\ enqueued \in EnqueuedEvents
  BY <1>1, QueuePositionTyped DEF CreatedEvents, EnqueuedEvents
<1>3. state.activeTaskId = None => started \in StartedEvents
  BY <1>1, NewIds DEF Submit, CanSubmit, StartedEvents
<1>4. Commit(IF state.activeTaskId = None THEN <<created, enqueued, started>>
             ELSE <<created, enqueued>>)
  BY DEF Submit, SubmitEvents
<1>5. /\ created.type = "task.created" /\ created.taskId = t
      /\ enqueued.type = "task.enqueued" /\ enqueued.taskId = t
      /\ started.type = "task.started" /\ started.taskId = t
  OBVIOUS
<1>6. OpenQuestions(state, t) = {}
  BY <1>1 DEF StateInvariants
<1> HIDE DEF t, created, enqueued, started
<1>7. /\ created \in Events /\ enqueued \in Events
      /\ state.activeTaskId = None => started \in Events
  BY <1>2, <1>3, EventKinds
<1>8. ASSUME s1 \in ControllerStates, s2 \in ControllerStates
      PROVE  Waiting(s2) /\ Unblocked(s2, t)
  <2>1. Waiting(s1) /\ s1.tasks[t].state = "queued" /\ Unblocked(s1, t)
    BY <1>1, <1>5, <1>6, <1>7, <1>8, EnterStep DEF NotStarted
  <2> QED BY <1>5, <1>7, <1>8, <2>1, EnterStep DEF NotStarted, Unblocked
<1>9. CASE state.activeTaskId = None
  <2>1. /\ s1 \in ControllerStates /\ s2 \in ControllerStates
        /\ state' = Apply(s2, started) /\ state' \in ControllerStates
    BY <1>4, <1>7, <1>9, CommittedThree
  <2> HIDE DEF s2
  <2> QED BY <1>5, <1>7, <1>8, <1>9, <2>1, PlainStep DEF PlainTypes, StartTypes
<1>10. CASE state.activeTaskId # None
  <2>1. s1 \in ControllerStates /\ state' = s2 /\ state' \in ControllerStates
    BY <1>4, <1>7, <1>10, CommittedTwo
  <2> QED BY <1>8, <2>1
<1> QED BY <1>9, <1>10

\* An answered question was the only thing its task waited for.
LEMMA AnswerWaits ==
    ASSUME state \in ControllerStates, StateInvariants(state), Waiting(state), ~wedged',
           NEW t \in TaskIds, NEW q \in QuestionIds, NEW expected,
           AnswerQuestion(t, q, expected)
    PROVE  Waiting(state')
<1> DEFINE e == [type |-> "task.questionAnswered", taskId |-> t, questionId |-> q]
           f == ResumeEvent(state, t)
           s == Apply(state, e)
<1>1. /\ state.questions[q].taskId = t /\ state.questions[q].state = "open"
      /\ state.tasks[t].state = "awaiting_user" /\ RunLeft(state)
      /\ Commit(<<e, f>>)
  BY DEF AnswerQuestion, CanAnswerQuestion, AnswerQuestionEvents
<1>2. f \in Events /\ f.type \in PlainTypes /\ f.type \notin EndTypes /\ f.taskId = t
  BY <1>1, StartAndResumeTyped DEF ResumeEvent, PlainTypes, StartTypes, EndTypes
<1>3. e.type = "task.questionAnswered" /\ e.questionId = q /\ e \in AnsweredEvents
  BY DEF AnsweredEvents
<1> HIDE DEF e, f
<1>4. e \in Events
  BY <1>3, EventKinds
<1>5. /\ s \in ControllerStates /\ state' = Apply(s, f) /\ state' \in ControllerStates
  BY <1>1, <1>2, <1>4, CommittedTwo
<1>6. s.tasks = state.tasks /\ s.confirmations = state.confirmations
  BY <1>3, <1>4, OtherFrame DEF TaskTypes, TaskIsRequired, CardTypes
<1>7. \A p \in QuestionIds : s.questions[p].state = "open" =>
         s.questions[p] = state.questions[p] /\ p # q
  BY <1>3, <1>4, QuestionFrame
<1> HIDE DEF s
<1>8. /\ \A u \in TaskIds : PendingConfirmations(s, u) = PendingConfirmations(state, u)
      /\ \A u \in TaskIds : OpenQuestions(s, u) \subseteq OpenQuestions(state, u)
      /\ \A u \in TaskIds : \A p \in OpenQuestions(s, u) : s.questions[p] = state.questions[p]
  BY <1>6, <1>7 DEF PendingConfirmations, OpenQuestions
<1>9. Waiting(s)
  <2>1. Interrupts(s)
    BY <1>6, <1>8 DEF Waiting, Interrupts, CardBelongs, WaitsForOne
  <2> QED BY <1>6, <2>1 DEF Waiting, CardsAreSingle, Live, SameEffect
<1>10. Unblocked(s, t)
  <2>1. q \in OpenQuestions(state, t)
    BY <1>1 DEF OpenQuestions
  <2>2. ~state.tasks[t].conflict /\ PendingConfirmations(state, t) = {}
    BY <1>1, <2>1 DEF Waiting, Interrupts, WaitsForOne, LiveStates
  <2>3. OpenQuestions(s, t) = {}
    BY <1>7, <1>8, <2>1 DEF StateInvariants, OpenQuestions
  <2> QED BY <1>6, <1>8, <2>2, <2>3 DEF Unblocked
<1> QED BY <1>2, <1>5, <1>9, <1>10, PlainStep

\* A card that is answered or used blocks its task no longer.
LEMMA CardStep ==
    ASSUME NEW s \in ControllerStates, NEW e \in Events,
           e.type \in {"approval.resolved", "approval.consumed"}, Waiting(s),
           s.confirmations[e.confirmationId].state =
               (IF e.type = "approval.resolved" THEN "pending" ELSE "approved")
    PROVE  LET n == Apply(s, e)
           IN  /\ Waiting(n)
               /\ n.tasks = s.tasks /\ n.questions = s.questions
               /\ \A u \in TaskIds : PendingConfirmations(n, u) =
                     PendingConfirmations(s, u) \ {e.confirmationId}
<1> DEFINE n == Apply(s, e)
           c == e.confirmationId
<1>1. /\ c \in ConfirmationIds
      /\ \A d \in ConfirmationIds \ {c} : n.confirmations[d] = s.confirmations[d]
      /\ n.confirmations[c].taskId = s.confirmations[c].taskId
      /\ n.confirmations[c].taskRevision = s.confirmations[c].taskRevision
      /\ n.confirmations[c].fingerprint = s.confirmations[c].fingerprint
      /\ n.confirmations[c].state # "pending"
      /\ n.confirmations[c].state = "approved" => e.type = "approval.resolved"
  BY CardFrame DEF CardTypes
<1>2. n.tasks = s.tasks /\ n.questions = s.questions
  BY OtherFrame DEF CardTypes, TaskTypes, TaskIsRequired
<1> HIDE DEF n
<1>3. \A u \in TaskIds : PendingConfirmations(n, u) = PendingConfirmations(s, u) \ {c}
  BY <1>1, <1>2 DEF PendingConfirmations
<1>4. \A u \in TaskIds : OpenQuestions(n, u) = OpenQuestions(s, u)
  BY <1>2 DEF OpenQuestions
<1>5. Interrupts(n)
  <2>1. \A d \in ConfirmationIds : CardBelongs(n, d)
    <3>1. \A d \in ConfirmationIds : CardBelongs(s, d) /\ s.confirmations[c].state # "none"
      BY DEF Waiting, Interrupts
    <3> QED BY <1>1, <1>2, <3>1 DEF CardBelongs
  <2>2. \A u \in TaskIds : WaitsForOne(s, u) => WaitsForOne(n, u)
    BY <1>2, <1>3, <1>4 DEF WaitsForOne
  <2> QED BY <1>2, <2>1, <2>2 DEF Waiting, Interrupts
<1>6. CardsAreSingle(n)
  <2>1. \A d \in ConfirmationIds : Live(n, d) =>
          /\ Live(s, d)
          /\ n.confirmations[d].taskId = s.confirmations[d].taskId
          /\ n.confirmations[d].taskRevision = s.confirmations[d].taskRevision
          /\ n.confirmations[d].fingerprint = s.confirmations[d].fingerprint
    BY <1>1 DEF Live
  <2> QED BY <2>1, SinglesKept DEF Waiting
<1> QED BY <1>2, <1>3, <1>5, <1>6 DEF Waiting, n

\* The user answers the card that the task waits for.
LEMMA ResolveApprovalWaits ==
    ASSUME state \in ControllerStates, Waiting(state), ~wedged',
           NEW c \in ConfirmationIds, NEW decision \in {"approve", "reject"}, NEW expected,
           ResolveApproval(c, decision, expected)
    PROVE  Waiting(state')
<1> DEFINE t == state.confirmations[c].taskId
           e == [type |-> "approval.resolved", confirmationId |-> c, decision |-> decision]
           f == IF decision = "approve" THEN ResumeEvent(state, t)
                ELSE [type |-> "task.paused", taskId |-> t,
                      runId |-> state.tasks[t].lastRunId]
           s == Apply(state, e)
<1>1. /\ CanResolveApproval(state, c, decision, expected)
      /\ Commit(<<e, f>>)
  BY DEF ResolveApproval, ResolveApprovalEvents
<1>2. /\ state.confirmations[c].state = "pending"
      /\ state.confirmations[c].taskRevision = state.tasks[t].revision
      /\ state.tasks[t].state = "awaiting_user"
      /\ IF decision = "approve" THEN RunLeft(state) ELSE state.tasks[t].lastRunId # None
  BY <1>1 DEF CanResolveApproval
<1>3. t \in TaskIds
  <2>1. state.confirmations[c] \in Confirmation /\ state.confirmations[c] # NoConfirmation
    BY <1>2, FieldsTyped DEF NoConfirmation
  <2> QED BY <2>1 DEF Confirmation
<1>4. e \in ResolvedEvents /\ e.type = "approval.resolved" /\ e.confirmationId = c
  BY DEF ResolvedEvents
<1>5. f \in Events
  <2>1. CASE decision = "approve"
    BY <1>2, <1>3, <2>1, StartAndResumeTyped
  <2>2. CASE decision = "reject"
    <3>1. state.tasks[t].lastRunId \in RunIds
      BY <1>2, <1>3, <2>2, TaskFields
    <3>2. f \in RunEvents
      BY <1>3, <2>2, <3>1 DEF RunEvents, TaskAndRun
    <3> QED BY <3>2, EventKinds
  <2> QED BY <2>1, <2>2
<1>6. f.type \in PlainTypes /\ f.type \notin EndTypes /\ f.taskId = t
  BY DEF ResumeEvent, PlainTypes, StartTypes, EndTypes
<1> HIDE DEF e, f
<1>7. e \in Events
  BY <1>4, EventKinds
<1>8. s \in ControllerStates /\ state' = Apply(s, f) /\ state' \in ControllerStates
  BY <1>1, <1>5, <1>7, CommittedTwo
<1>9. /\ Waiting(s) /\ s.tasks = state.tasks /\ s.questions = state.questions
      /\ \A u \in TaskIds : PendingConfirmations(s, u) = PendingConfirmations(state, u) \ {c}
  BY <1>2, <1>4, <1>7, CardStep
<1>10. Unblocked(s, t)
  <2>1. c \in PendingConfirmations(state, t)
    BY <1>2 DEF PendingConfirmations
  <2>2. /\ ~state.tasks[t].conflict /\ OpenQuestions(state, t) = {}
        /\ PendingConfirmations(state, t) = {c}
    BY <1>2, <1>3, <2>1 DEF Waiting, Interrupts, WaitsForOne, LiveStates
  <2> HIDE DEF s, t
  <2>3. OpenQuestions(s, t) = OpenQuestions(state, t)
    BY <1>9 DEF OpenQuestions
  <2> QED BY <1>3, <1>9, <2>2, <2>3 DEF Unblocked
<1> QED BY <1>5, <1>6, <1>8, <1>9, <1>10, PlainStep

\* An approved card is used.
LEMMA ConsumeApprovalWaits ==
    ASSUME state \in ControllerStates, Waiting(state), ~wedged', NEW t \in TaskIds,
           NEW c \in ConfirmationIds, NEW fingerprint, ConsumeApproval(t, c, fingerprint)
    PROVE  Waiting(state')
<1> DEFINE e == [type |-> "approval.consumed", confirmationId |-> c]
<1>1. state.confirmations[c].state = "approved" /\ Commit(<<e>>)
  BY DEF ConsumeApproval, CanConsumeApproval, ConsumeApprovalEvents, Confirmations
<1>2. e \in ConsumedEvents /\ e.type = "approval.consumed" /\ e.confirmationId = c
  BY DEF ConsumedEvents
<1> HIDE DEF e
<1>3. e \in Events
  BY <1>2, EventKinds
<1>4. state' = Apply(state, e)
  BY <1>1, <1>3, CommittedOne
<1> QED BY <1>1, <1>2, <1>3, <1>4, CardStep

\* A revision leaves the cards and the questions of the older one behind.
LEMMA ReviseWaits ==
    ASSUME state \in ControllerStates, Waiting(state), ~wedged', NEW t \in TaskIds,
           NEW expected, NEW profile \in Profiles, Revise(t, expected, profile)
    PROVE  Waiting(state')
<1> DEFINE e == [type |-> "task.specRevised", taskId |-> t, profile |-> profile,
                 revision |-> state.tasks[t].revision + 1]
           n == Apply(state, e)
<1>1. Commit(<<e>>) /\ state.tasks[t].state \in {"paused", "awaiting_user"}
  BY DEF Revise, CanRevise, Resumable, ReviseEvents
<1>2. state.tasks[t].revision \in Nat
  BY TaskFields
<1>3. /\ e \in RevisedEvents /\ e.type = "task.specRevised" /\ e.taskId = t
      /\ e.revision = state.tasks[t].revision + 1
  BY <1>2 DEF RevisedEvents
<1> HIDE DEF e
<1>4. e \in Events /\ e.type \in TaskTypes /\ e.type \in QuestionTypes
  BY <1>3, EventKinds DEF TaskTypes, TaskIsRequired, QuestionTypes
<1>5. state' = n /\ n \in ControllerStates
  BY <1>1, <1>4, CommittedOne
<1>6. /\ \A u \in TaskIds : u # t => n.tasks[u] = state.tasks[u]
      /\ After(e, state.tasks[t], n.tasks[t])
      /\ n.confirmations = state.confirmations
  BY <1>3, <1>4, TaskEffect
<1>7. \A q \in QuestionIds : n.questions[q].state = "open" =>
         n.questions[q] = state.questions[q] /\ state.questions[q].taskId # t
  BY <1>3, <1>4, QuestionFrame
<1> HIDE DEF n
<1>8. /\ n.tasks[t].state = state.tasks[t].state
      /\ n.tasks[t].conflict = state.tasks[t].conflict
      /\ n.tasks[t].revision = state.tasks[t].revision + 1
  BY <1>3, <1>6 DEF After, KeepsState
<1>9. PendingConfirmations(n, t) = {}
  <2> SUFFICES ASSUME NEW c \in PendingConfirmations(n, t)
               PROVE  FALSE
    OBVIOUS
  <2>1. /\ c \in ConfirmationIds /\ state.confirmations[c].taskId = t
        /\ state.confirmations[c].state = "pending"
        /\ state.confirmations[c].taskRevision = state.tasks[t].revision + 1
    BY <1>6, <1>8 DEF PendingConfirmations
  <2>2. state.confirmations[c].taskRevision <= state.tasks[t].revision
    BY <2>1 DEF Waiting, Interrupts, CardBelongs
  <2> QED BY <1>2, <2>1, <2>2
<1>10. OpenQuestions(n, t) = {}
  BY <1>7 DEF OpenQuestions
<1>11. n.tasks[t].conflict => n.tasks[t].state = "awaiting_user"
  BY <1>1, <1>8 DEF Waiting, Interrupts, WaitsForOne, LiveStates
<1>12. Interrupts(n)
  <2>1. WaitsForOne(n, t)
    BY <1>9, <1>10, <1>11 DEF WaitsForOne
  <2>2. n.tasks[t].state \notin NotStarted
    BY <1>1, <1>8 DEF NotStarted
  <2>3. state.tasks[t].revision <= n.tasks[t].revision
    BY <1>2, <1>8
  <2> QED BY <1>5, <1>6, <1>7, <2>1, <2>2, <2>3, InterruptsKept DEF Waiting
<1>13. CardsAreSingle(n)
  BY <1>6 DEF CardsAreSingle, Waiting, Live, SameEffect
<1> QED BY <1>5, <1>12, <1>13 DEF Waiting

\* A running task asks: it then waits for that question alone.
LEMMA AwaitUserInputWaits ==
    ASSUME state \in ControllerStates, StateInvariants(state), Waiting(state), ~wedged',
           NEW t \in TaskIds, NEW q \in QuestionIds, AwaitUserInput(t, q)
    PROVE  Waiting(state')
<1> DEFINE e == [type |-> "task.questionAsked", taskId |-> t, questionId |-> q,
                 runId |-> state.tasks[t].activeRunId, revision |-> state.tasks[t].revision]
           n == Apply(state, e)
           asked == [taskId |-> t, taskRevision |-> e.revision,
                     runId |-> e.runId, state |-> "open"]
<1>1. /\ Commit(<<e>>) /\ state.tasks[t].state = "running"
      /\ state.tasks[t].activeRunId # None
  BY DEF AwaitUserInput, CanAwaitUserInput, InRun, AwaitUserInputEvents
<1>2. state.tasks[t].revision \in Nat
  BY TaskFields
<1>3. /\ e \in AskedEvents /\ e.type = "task.questionAsked" /\ e.taskId = t
      /\ e.questionId = q /\ e.revision = state.tasks[t].revision
  BY <1>1, <1>2, TaskFields DEF AskedEvents
<1> HIDE DEF e
<1>4. e \in Events /\ e.type \in TaskTypes /\ e.type \in QuestionTypes
  BY <1>3, EventKinds DEF TaskTypes, TaskIsRequired, QuestionTypes
<1>5. state' = n /\ n \in ControllerStates
  BY <1>1, <1>4, CommittedOne
<1>6. /\ \A u \in TaskIds : u # t => n.tasks[u] = state.tasks[u]
      /\ After(e, state.tasks[t], n.tasks[t])
      /\ n.confirmations = state.confirmations
  BY <1>3, <1>4, TaskEffect
<1>7. n.questions = [state.questions EXCEPT ![q] = asked]
  BY <1>3, <1>4, AskedQuestion
<1>8. asked.taskId = t /\ asked.taskRevision = state.tasks[t].revision
  BY <1>3
<1> HIDE DEF n, asked
<1>9. state.questions \in [QuestionIds -> Question]
  BY FieldsTyped
<1>10. \A p \in QuestionIds : n.questions[p] = IF p = q THEN asked ELSE state.questions[p]
  BY <1>7, <1>9
<1>11. /\ ~state.tasks[t].conflict
       /\ PendingConfirmations(state, t) = {} /\ OpenQuestions(state, t) = {}
  BY <1>1, WorkerWaitsForNothing DEF Waiting
<1>12. /\ n.tasks[t].state = "awaiting_user" /\ ~n.tasks[t].conflict
       /\ n.tasks[t].revision = state.tasks[t].revision
  BY <1>3, <1>6, <1>11 DEF After
<1>13. PendingConfirmations(n, t) = {}
  BY <1>6, <1>11, <1>12 DEF PendingConfirmations
<1>14. OpenQuestions(n, t) \subseteq {q}
  BY <1>10, <1>11 DEF OpenQuestions
<1>15. Interrupts(n)
  <2>1. WaitsForOne(n, t)
    BY <1>8, <1>10, <1>12, <1>13, <1>14 DEF WaitsForOne
  <2>2. n.tasks[t].state \notin NotStarted
    BY <1>12 DEF NotStarted
  <2>3. state.tasks[t].revision <= n.tasks[t].revision
    BY <1>2, <1>12
  <2>4. \A p \in QuestionIds : n.questions[p] = state.questions[p] \/ n.questions[p].taskId = t
    BY <1>8, <1>10
  <2> QED BY <1>5, <1>6, <2>1, <2>2, <2>3, <2>4, InterruptsKept DEF Waiting
<1>16. CardsAreSingle(n)
  BY <1>6 DEF CardsAreSingle, Waiting, Live, SameEffect
<1> QED BY <1>5, <1>15, <1>16 DEF Waiting

\* A running task needs a card: it then waits for that card alone.
LEMMA RequestApprovalWaits ==
    ASSUME state \in ControllerStates, StateInvariants(state), Waiting(state), ~wedged',
           NEW t \in TaskIds, NEW fingerprint \in Fingerprints, RequestApproval(t, fingerprint)
    PROVE  Waiting(state')
<1> DEFINE c == NewConfirmation(state)
           e == [type |-> "approval.requested", taskId |-> t, confirmationId |-> c,
                 revision |-> state.tasks[t].revision, fingerprint |-> fingerprint]
           f == AwaitEvent(state, t)
           s == Apply(state, e)
           n == Apply(s, f)
           card == [taskId |-> t, taskRevision |-> state.tasks[t].revision,
                    fingerprint |-> fingerprint, state |-> "pending"]
<1>1. /\ Commit(<<e, f>>) /\ state.tasks[t].state = "running"
      /\ state.tasks[t].activeRunId # None /\ ConfirmationLeft(state)
      /\ Confirmations(state, t, fingerprint, "approved") = {}
      /\ Confirmations(state, t, fingerprint, "pending") = {}
  BY DEF RequestApproval, CanRequestApproval, InRun, RequestApprovalEvents
<1>2. state.tasks[t].revision \in Nat
  BY TaskFields
<1>3. c \in ConfirmationIds /\ state.confirmations[c].state = "none"
  BY <1>1, NewIds
<1>4. f \in Events /\ f.type = "task.awaitingUser" /\ f.taskId = t
  BY <1>1, AwaitTyped DEF AwaitEvent
<1> HIDE DEF c, f
<1>5. /\ e \in RequestedEvents /\ e.type = "approval.requested" /\ e.confirmationId = c
      /\ card = [taskId |-> e.taskId, taskRevision |-> e.revision,
                 fingerprint |-> e.fingerprint, state |-> "pending"]
  BY <1>2, <1>3 DEF RequestedEvents
<1>6. /\ card.taskId = t /\ card.taskRevision = state.tasks[t].revision
      /\ card.fingerprint = fingerprint /\ card.state = "pending"
  OBVIOUS
<1> HIDE DEF e, card
<1>7. e \in Events
  BY <1>5, EventKinds
<1>8. s \in ControllerStates /\ state' = n /\ n \in ControllerStates
  BY <1>1, <1>4, <1>7, CommittedTwo
<1>9. s.tasks = state.tasks /\ s.questions = state.questions
  BY <1>5, <1>7, OtherFrame DEF CardTypes, TaskTypes, TaskIsRequired
<1>10. \A d \in ConfirmationIds \ {c} : s.confirmations[d] = state.confirmations[d]
  BY <1>5, <1>7, CardFrame DEF CardTypes
<1>11. s.confirmations[c] = card
  BY <1>5, <1>7, CardFrame DEF CardTypes
<1> HIDE DEF s
<1>12. /\ \A u \in TaskIds : u # t => n.tasks[u] = s.tasks[u]
       /\ After(f, s.tasks[t], n.tasks[t])
       /\ n.confirmations = s.confirmations /\ n.questions = s.questions
  BY <1>4, <1>8, TaskEffect DEF TaskTypes, TaskIsRequired, QuestionTypes
<1> HIDE DEF n
<1>13. /\ ~state.tasks[t].conflict
       /\ PendingConfirmations(state, t) = {} /\ OpenQuestions(state, t) = {}
  BY <1>1, WorkerWaitsForNothing DEF Waiting
<1>14. /\ n.tasks[t].state = "awaiting_user" /\ ~n.tasks[t].conflict
       /\ n.tasks[t].revision = state.tasks[t].revision
  BY <1>4, <1>9, <1>12, <1>13 DEF After
<1>15. PendingConfirmations(n, t) \subseteq {c}
  BY <1>10, <1>12, <1>13, <1>14 DEF PendingConfirmations
<1>16. OpenQuestions(n, t) = {}
  BY <1>9, <1>12, <1>13 DEF OpenQuestions
<1>17. Interrupts(n)
  <2>1. WaitsForOne(n, t)
    BY <1>14, <1>15, <1>16 DEF WaitsForOne
  <2>2. n.tasks[t].state \notin NotStarted
    BY <1>14 DEF NotStarted
  <2>3. state.tasks[t].revision <= n.tasks[t].revision
    BY <1>2, <1>14
  <2>4. CardBelongs(n, c)
    BY <1>6, <1>11, <1>12, <2>2, <2>3 DEF CardBelongs
  <2>5. \A d \in ConfirmationIds :
           \/ n.confirmations[d] = state.confirmations[d]
           \/ n.confirmations[d].taskId = t /\ CardBelongs(n, d)
    BY <1>6, <1>10, <1>11, <1>12, <2>4
  <2>6. /\ \A u \in TaskIds : u # t => n.tasks[u] = state.tasks[u]
        /\ n.questions = state.questions
    BY <1>9, <1>12
  <2> QED BY <1>8, <2>1, <2>2, <2>3, <2>5, <2>6, InterruptsKept DEF Waiting
<1>18. CardsAreSingle(n)
  <2>1. \A d \in ConfirmationIds : Live(n, d) /\ d # c => ~SameEffect(n, c, d)
    BY <1>1, <1>6, <1>10, <1>11, <1>12 DEF Live, SameEffect, Confirmations
  <2>2. \A d, x \in ConfirmationIds \ {c} :
           Live(n, d) /\ Live(n, x) /\ SameEffect(n, d, x) => d = x
    BY <1>10, <1>12 DEF Waiting, CardsAreSingle, Live, SameEffect
  <2> QED BY <2>1, <2>2 DEF CardsAreSingle, SameEffect
<1> QED BY <1>8, <1>17, <1>18 DEF Waiting

\* A running task meets a conflict: it then waits for that alone.
LEMMA ReportWorkspaceConflictWaits ==
    ASSUME state \in ControllerStates, StateInvariants(state), Waiting(state), ~wedged',
           NEW t \in TaskIds, ReportWorkspaceConflict(t)
    PROVE  Waiting(state')
<1> DEFINE e == [type |-> "workspace.conflictDetected", taskId |-> t]
           f == AwaitEvent(state, t)
           s == Apply(state, e)
           n == Apply(s, f)
<1>1. /\ Commit(<<e, f>>) /\ state.tasks[t].state = "running"
      /\ state.tasks[t].activeRunId # None
  BY DEF ReportWorkspaceConflict, CanReportWorkspaceConflict, InRun,
         ReportWorkspaceConflictEvents
<1>2. state.tasks[t].revision \in Nat
  BY TaskFields
<1>3. f \in Events /\ f.type = "task.awaitingUser" /\ f.taskId = t
  BY <1>1, AwaitTyped DEF AwaitEvent
<1>4. e \in TaskEvents /\ e.type = "workspace.conflictDetected" /\ e.taskId = t
  BY DEF TaskEvents, TaskOnly
<1> HIDE DEF e, f
<1>5. e \in Events
  BY <1>4, EventKinds
<1>6. s \in ControllerStates /\ state' = n /\ n \in ControllerStates
  BY <1>1, <1>3, <1>5, CommittedTwo
<1>7. /\ \A u \in TaskIds : u # t => s.tasks[u] = state.tasks[u]
      /\ After(e, state.tasks[t], s.tasks[t])
      /\ s.confirmations = state.confirmations /\ s.questions = state.questions
  BY <1>4, <1>5, TaskEffect DEF TaskTypes, TaskIsRequired, QuestionTypes
<1> HIDE DEF s
<1>8. /\ \A u \in TaskIds : u # t => n.tasks[u] = s.tasks[u]
      /\ After(f, s.tasks[t], n.tasks[t])
      /\ n.confirmations = s.confirmations /\ n.questions = s.questions
  BY <1>3, <1>6, TaskEffect DEF TaskTypes, TaskIsRequired, QuestionTypes
<1> HIDE DEF n
<1>9. PendingConfirmations(state, t) = {} /\ OpenQuestions(state, t) = {}
  BY <1>1, WorkerWaitsForNothing DEF Waiting
<1>10. s.tasks[t].revision = state.tasks[t].revision
  BY <1>4, <1>7 DEF After
<1>11. n.tasks[t].state = "awaiting_user" /\ n.tasks[t].revision = state.tasks[t].revision
  BY <1>3, <1>8, <1>10 DEF After
<1>12. PendingConfirmations(n, t) = {} /\ OpenQuestions(n, t) = {}
  BY <1>7, <1>8, <1>9, <1>11 DEF PendingConfirmations, OpenQuestions
<1>13. Interrupts(n)
  <2>1. WaitsForOne(n, t)
    BY <1>11, <1>12 DEF WaitsForOne
  <2>2. n.tasks[t].state \notin NotStarted
    BY <1>11 DEF NotStarted
  <2>3. state.tasks[t].revision <= n.tasks[t].revision
    BY <1>2, <1>11
  <2>4. /\ \A u \in TaskIds : u # t => n.tasks[u] = state.tasks[u]
        /\ n.confirmations = state.confirmations /\ n.questions = state.questions
    BY <1>7, <1>8
  <2> QED BY <1>6, <2>1, <2>2, <2>3, <2>4, InterruptsKept DEF Waiting
<1>14. CardsAreSingle(n)
  BY <1>7, <1>8 DEF CardsAreSingle, Waiting, Live, SameEffect
<1> QED BY <1>6, <1>13, <1>14 DEF Waiting

\* queue.move touches no task, no card and no question.
LEMMA MoveQueueWaits ==
    ASSUME state \in ControllerStates, Waiting(state), ~wedged', NEW t \in TaskIds,
           NEW operation \in MoveOperations, NEW anchor \in TaskIds \cup {None},
           MoveQueue(t, operation, anchor)
    PROVE  Waiting(state')
<1>1. PICK queue : MoveQueueEvents(state, t, operation, anchor) =
          <<[type |-> "queue.reordered", taskId |-> t, taskIds |-> queue]>>
  BY DEF MoveQueueEvents
<1> DEFINE e == [type |-> "queue.reordered", taskId |-> t, taskIds |-> queue]
<1>2. <<e>> \in Seq(Events) /\ Commit(<<e>>)
  BY <1>1, MoveQueueTyped DEF MoveQueue
<1>3. e.type = "queue.reordered"
  OBVIOUS
<1> HIDE DEF e
<1>4. e \in Events
  BY <1>2
<1>5. state' = Apply(state, e)
  BY <1>2, <1>4, CommittedOne
<1>6. /\ state'.tasks = state.tasks /\ state'.confirmations = state.confirmations
      /\ state'.questions = state.questions
  BY <1>3, <1>4, <1>5, OtherFrame DEF CardTypes, TaskTypes, TaskIsRequired
<1> QED BY <1>6 DEF Waiting, Interrupts, CardBelongs, WaitsForOne, PendingConfirmations,
                    OpenQuestions, CardsAreSingle, Live, SameEffect

-----------------------------------------------------------------------------
(* The theorems about suspended tasks.                                     *)

\* While nothing has thrown, every task waits for one thing at most, and the
\* cards that can still be answered or used are single.
LEMMA InterruptInvariantHolds == Spec => []InterruptInvariant
<1>1. Init => InterruptInvariant
  BY DEF Init, InterruptInvariant, Interrupts, CardBelongs, CardsAreSingle, Live, EmptyState,
         NoTask, NoConfirmation, NotStarted, LiveStates
<1>2. TypeOK /\ SlotInvariant /\ InterruptInvariant /\ [Next]_vars => InterruptInvariant'
  <2> SUFFICES ASSUME TypeOK, SlotInvariant, InterruptInvariant, [Next]_vars
               PROVE  InterruptInvariant'
    OBVIOUS
  <2>1. CASE UNCHANGED vars
    BY <2>1 DEF vars, InterruptInvariant
  <2>2. CASE Next
    <3> SUFFICES ASSUME ~wedged'
                 PROVE  Waiting(state')
      BY DEF InterruptInvariant, Waiting
    <3>1. /\ state \in ControllerStates /\ SlotDiscipline(state) /\ StateInvariants(state)
          /\ Waiting(state)
      BY <2>2, NextIsSound DEF TypeOK, SlotInvariant, SlotAndQueue, InterruptInvariant, Waiting
    <3>2. CASE UserStep
      BY <3>1, <3>2, SubmitWaits, MoveQueueWaits, WorkerDecisionsWait, ResumeWaits, EndWaits,
         ReviseWaits, AnswerWaits, ResolveApprovalWaits DEF UserStep
    <3>3. CASE CoderStep
      BY <3>1, <3>3, WorkerDecisionsWait, ReportWorkspaceConflictWaits, EndWaits,
         AwaitUserInputWaits, RequestApprovalWaits, ConsumeApprovalWaits DEF CoderStep
    <3>4. CASE RecoverAfterRestart
      BY <3>1, <3>4, RecoverWaits
    <3> QED BY <2>2, <3>2, <3>3, <3>4 DEF Next
  <2> QED BY <2>1, <2>2
<1> QED BY <1>1, <1>2, TypeCorrect, SlotInvariantHolds, PTL DEF Spec

\* A suspended task waits for exactly one thing: a card, a question or a conflict.
THEOREM TasksWaitForOneThing == Spec => []OneThingToUnblock
<1>1. SlotInvariant /\ InterruptInvariant => OneThingToUnblock
  BY DEF SlotInvariant, InterruptInvariant, Interrupts, WaitsForOne, StateInvariants,
         OneThingToUnblock, StateOf
<1> QED BY <1>1, SlotInvariantHolds, InterruptInvariantHolds, PTL

\* From the detection of a conflict to the resume, the task waits for the user.
THEOREM ConflictsStopTheCoder == Spec => []ConflictStopsCoder
<1>1. InterruptInvariant => ConflictStopsCoder
  BY DEF InterruptInvariant, Interrupts, WaitsForOne, ConflictStopsCoder, StateOf
<1> QED BY <1>1, InterruptInvariantHolds, PTL

\* One approval lets one call through: an effect has one live card at most.
THEOREM EffectsHaveOneCard == Spec => []OneLiveCardPerEffect
<1>1. InterruptInvariant => OneLiveCardPerEffect
  BY DEF InterruptInvariant, CardsAreSingle, Live, SameEffect, OneLiveCardPerEffect
<1> QED BY <1>1, InterruptInvariantHolds, PTL

-----------------------------------------------------------------------------
(* The assertion of the reducer fails in one situation only:               *)
(* OnlyCancelWedges holds in every reachable state.                        *)
(*                                                                         *)
(* The proofs before this one take the assertion as a fact: as long as     *)
(* wedged is FALSE, it held after the last event.  Here it is a goal.      *)
(* Every event of every decision fits the state it is applied to, and the  *)
(* state it leaves satisfies the assertion again, except when the decision *)
(* cancels a task that has an open question.  What a decision may rely on  *)
(* is what the controller looks at before it, SlotInvariant, and that a    *)
(* suspended task waits for one thing (InterruptInvariant): an approval or *)
(* a rejection does not look for open questions.                           *)

\* The assertion of the code, part by part.
Single(queue) == \A i, j \in DOMAIN queue : queue[i] = queue[j] => i = j
QueueFits(s) ==
    Single(s.queue) /\ \A i \in DOMAIN s.queue : s.tasks[s.queue[i]].state = "queued"
SlotFits(s) == s.activeTaskId # None => s.tasks[s.activeTaskId].state \in LiveStates
RunsFit(s) ==
    \A t \in TaskIds :
        LET r == s.tasks[t].activeRunId
        IN  r # None => /\ s.runs[r].taskId = t
                        /\ s.runs[r].state \in {"running", "interrupted"}
                        /\ s.runs[r].state = "interrupted" =>
                              s.tasks[t].state \in {"running", "pause_requested"}
QuestionsFit(s) ==
    \A t \in TaskIds :
        /\ \A p, q \in OpenQuestions(s, t) : p = q
        /\ OpenQuestions(s, t) # {} => s.tasks[t].state = "awaiting_user"

\* The assertion is the conjunction of its parts.
LEMMA AssertionParts ==
    ASSUME NEW s
    PROVE  StateInvariants(s) <=>
               QueueFits(s) /\ SlotFits(s) /\ RunsFit(s) /\ QuestionsFit(s)
BY DEF StateInvariants, QueueFits, Single, SlotFits, RunsFit, QuestionsFit

\* An event that does not throw, and a state that nothing is wrong with.
Passes(s, e) == Fits(s, e) /\ StateInvariants(Apply(s, e))
Steady(s) == s \in ControllerStates /\ SlotDiscipline(s) /\ StateInvariants(s)

\* The run a task had last is a run.
LastRunsExist(s) ==
    \A t \in TaskIds : LET r == s.tasks[t].lastRunId
                       IN  r # None => s.runs[r].state # "none"

-----------------------------------------------------------------------------
(* The queue holds a task once.                                            *)

\* A task that is taken out of the queue is not in it any more.
LEMMA RemovedSingle ==
    ASSUME NEW q \in Seq(TaskIds), Single(q), NEW t \in TaskIds
    PROVE  Single(RemoveFromQueue(q, t)) /\ ~InQueue(RemoveFromQueue(q, t), t)
<1> DEFINE found == {i \in DOMAIN q : q[i] = t}
           first == CHOOSE i \in found : \A j \in found : i <= j
           rest == RemoveAt(q, first)
<1>1. CASE found = {}
  <2>1. RemoveFromQueue(q, t) = q
    BY <1>1 DEF RemoveFromQueue
  <2>2. ~InQueue(q, t)
    BY <1>1 DEF InQueue
  <2> QED BY <2>1, <2>2
<1>2. CASE found # {}
  <2>1. \E i \in found : \A j \in found : i <= j
    <3>1. found \subseteq Nat /\ found # {}
      BY <1>2
    <3> QED BY <3>1, SmallestNat
  <2>2. first \in 1..Len(q) /\ q[first] = t
    BY <2>1
  <2>3. RemoveFromQueue(q, t) = rest
    BY <1>2 DEF RemoveFromQueue
  <2> HIDE DEF first
  <2>4. /\ rest \in Seq(TaskIds) /\ Len(rest) = Len(q) - 1
        /\ \A j \in 1..(Len(q) - 1) : rest[j] = IF j < first THEN q[j] ELSE q[j + 1]
    BY <2>2, RemoveAtProperties
  <2> HIDE DEF rest
  <2>5. DOMAIN rest = 1..(Len(q) - 1)
    BY <2>4
  <2>6. \A j \in DOMAIN rest :
           \E k \in DOMAIN q : k # first /\ k = (IF j < first THEN j ELSE j + 1) /\ rest[j] = q[k]
    BY <2>2, <2>4, <2>5
  <2>7. Single(rest)
    BY <2>2, <2>5, <2>6 DEF Single
  <2>8. ~InQueue(rest, t)
    BY <2>2, <2>6 DEF InQueue, Single
  <2> QED BY <2>3, <2>7, <2>8
<1> QED BY <1>1, <1>2

\* A task that is put anywhere in a queue it is not in is in it once.
LEMMA InsertedSingle ==
    ASSUME NEW q \in Seq(TaskIds), Single(q), NEW t \in TaskIds, ~InQueue(q, t),
           NEW i \in 1..(Len(q) + 1)
    PROVE  /\ InsertAt(q, i, t) \in Seq(TaskIds) /\ Single(InsertAt(q, i, t))
           /\ \A j \in DOMAIN InsertAt(q, i, t) : InsertAt(q, i, t)[j] = t
                 \/ \E k \in DOMAIN q : InsertAt(q, i, t)[j] = q[k]
<1> DEFINE n == InsertAt(q, i, t)
<1>1. /\ n \in Seq(TaskIds) /\ Len(n) = Len(q) + 1
      /\ \A j \in 1..(Len(q) + 1) : n[j] = IF j < i THEN q[j]
                                           ELSE IF j = i THEN t ELSE q[j - 1]
  BY InsertAtProperties
<1> HIDE DEF n
<1>2. DOMAIN n = 1..(Len(q) + 1)
  BY <1>1
<1>3. \A j \in DOMAIN n : \/ j = i /\ n[j] = t
                          \/ \E k \in DOMAIN q : /\ k = (IF j < i THEN j ELSE j - 1) /\ j # i
                                                 /\ n[j] = q[k]
  BY <1>1, <1>2
<1>4. ASSUME NEW j \in DOMAIN n, NEW l \in DOMAIN n, n[j] = n[l]
      PROVE  j = l
  <2>1. \A k \in DOMAIN q : q[k] # t
    BY DEF InQueue
  <2>2. j \in Int /\ l \in Int
    BY <1>2
  <2> QED BY <1>3, <1>4, <2>1, <2>2 DEF Single
<1> QED BY <1>1, <1>3, <1>4 DEF Single, n

\* The same for the two ends of the queue.
LEMMA EndsSingle ==
    ASSUME NEW q \in Seq(TaskIds), Single(q), NEW t \in TaskIds, ~InQueue(q, t)
    PROVE  \A n \in {<<t>> \o q, q \o <<t>>} :
              /\ n \in Seq(TaskIds) /\ Single(n)
              /\ \A j \in DOMAIN n : n[j] = t \/ \E k \in DOMAIN q : n[j] = q[k]
<1>1. \A k \in DOMAIN q : q[k] # t
  BY DEF InQueue
<1>2. ASSUME NEW n, n = <<t>> \o q
      PROVE  /\ n \in Seq(TaskIds) /\ Single(n)
             /\ \A j \in DOMAIN n : n[j] = t \/ \E k \in DOMAIN q : n[j] = q[k]
  <2>1. n \in Seq(TaskIds) /\ Len(n) = Len(q) + 1 /\ DOMAIN n = 1..(Len(q) + 1)
    BY <1>2
  <2>2. \A j \in 1..(Len(q) + 1) : n[j] = IF j = 1 THEN t ELSE q[j - 1]
    BY <1>2
  <2>3. \A j \in DOMAIN n : j # 1 => j - 1 \in DOMAIN q /\ n[j] = q[j - 1]
    BY <2>1, <2>2
  <2>4. Single(n)
    BY <1>1, <2>1, <2>2, <2>3 DEF Single
  <2> QED BY <2>1, <2>2, <2>3, <2>4
<1>3. ASSUME NEW n, n = q \o <<t>>
      PROVE  /\ n \in Seq(TaskIds) /\ Single(n)
             /\ \A j \in DOMAIN n : n[j] = t \/ \E k \in DOMAIN q : n[j] = q[k]
  <2>1. n \in Seq(TaskIds) /\ Len(n) = Len(q) + 1 /\ DOMAIN n = 1..(Len(q) + 1)
    BY <1>3
  <2>2. \A j \in 1..(Len(q) + 1) : n[j] = IF j = Len(q) + 1 THEN t ELSE q[j]
    BY <1>3
  <2>3. \A j \in DOMAIN n : j # Len(q) + 1 => j \in DOMAIN q /\ n[j] = q[j]
    BY <2>1, <2>2
  <2>4. Single(n)
    BY <1>1, <2>1, <2>2, <2>3 DEF Single
  <2> QED BY <2>1, <2>2, <2>3, <2>4
<1> QED BY <1>2, <1>3

\* The queue fits when nobody who waits in it leaves the state "queued".
LEMMA SameQueueFits ==
    ASSUME NEW s \in ControllerStates, QueueFits(s), NEW n, n.queue = s.queue,
           \A u \in TaskIds : s.tasks[u].state = "queued" => n.tasks[u].state = "queued"
    PROVE  QueueFits(n)
<1>1. s.queue \in Seq(TaskIds)
  BY FieldsTyped
<1>2. \A i \in DOMAIN s.queue : s.queue[i] \in TaskIds
  BY <1>1
<1> QED BY <1>2 DEF QueueFits

\* ... and when the one who does so leaves the queue.
LEMMA ShorterQueueFits ==
    ASSUME NEW s \in ControllerStates, QueueFits(s), NEW t \in TaskIds,
           NEW n, n.queue = RemoveFromQueue(s.queue, t),
           \A u \in TaskIds : u # t => n.tasks[u] = s.tasks[u]
    PROVE  QueueFits(n)
<1> DEFINE rest == RemoveFromQueue(s.queue, t)
<1>1. s.queue \in Seq(TaskIds) /\ Single(s.queue)
  BY FieldsTyped DEF QueueFits
<1>2. rest \in Seq(TaskIds) /\ \A j \in DOMAIN rest : \E i \in DOMAIN s.queue : rest[j] = s.queue[i]
  BY <1>1, RemoveFromQueueProperties
<1>3. Single(rest) /\ ~InQueue(rest, t)
  BY <1>1, RemovedSingle
<1> HIDE DEF rest
<1>4. ASSUME NEW j \in DOMAIN rest
      PROVE  n.tasks[rest[j]].state = "queued"
  <2>1. rest[j] \in TaskIds /\ rest[j] # t
    BY <1>2, <1>3 DEF InQueue
  <2>2. s.tasks[rest[j]].state = "queued"
    BY <1>2 DEF QueueFits
  <2> QED BY <2>1, <2>2
<1> QED BY <1>3, <1>4 DEF QueueFits, rest

-----------------------------------------------------------------------------
(* What keeps the other parts.                                             *)

\* The discipline of the slot implies what the assertion says of it.
LEMMA DisciplineFits ==
    ASSUME NEW s \in ControllerStates, SlotDiscipline(s)
    PROVE  SlotFits(s)
BY FieldsTyped DEF SlotDiscipline, SlotFits

\* Only the task in the slot has an active run.
LEMMA OnlySlotRuns ==
    ASSUME NEW s, SlotDiscipline(s), NEW u \in TaskIds, s.activeTaskId # u
    PROVE  s.tasks[u].activeRunId = None
BY DEF SlotDiscipline, LiveStates

\* The runs fit when none of them and no task's hold on its run changes.
LEMMA SameRunsFit ==
    ASSUME NEW s, RunsFit(s), NEW n, n.runs = s.runs,
           \A u \in TaskIds :
              /\ n.tasks[u].activeRunId = s.tasks[u].activeRunId
              /\ \/ n.tasks[u].state = s.tasks[u].state
                 \/ n.tasks[u].state \in {"running", "pause_requested"}
                 \/ s.tasks[u].activeRunId = None
    PROVE  RunsFit(n)
BY DEF RunsFit

\* The questions fit when none is opened and who owes an answer waits on.
LEMMA SameQuestionsFit ==
    ASSUME NEW s, QuestionsFit(s), NEW n,
           \A q \in QuestionIds : n.questions[q].state = "open" => n.questions[q] = s.questions[q],
           \A u \in TaskIds : \/ n.tasks[u].state = s.tasks[u].state
                              \/ OpenQuestions(n, u) = {}
    PROVE  QuestionsFit(n)
<1>1. \A u \in TaskIds : OpenQuestions(n, u) \subseteq OpenQuestions(s, u)
  BY DEF OpenQuestions
<1> QED BY <1>1 DEF QuestionsFit

\* A task with no open question has none after an event that asks none.
LEMMA NothingAsked ==
    ASSUME NEW s, NEW n, NEW u, OpenQuestions(s, u) = {}, n.questions = s.questions
    PROVE  OpenQuestions(n, u) = {}
BY DEF OpenQuestions

\* An event passes when it fits and each part of the assertion holds after it.
LEMMA PassesWhen ==
    ASSUME NEW s \in ControllerStates, NEW e \in Events, Fits(s, e),
           SlotDiscipline(Apply(s, e)), QueueFits(Apply(s, e)),
           RunsFit(Apply(s, e)), QuestionsFit(Apply(s, e))
    PROVE  Passes(s, e) /\ Steady(Apply(s, e))
<1>1. Apply(s, e) \in ControllerStates
  BY ApplyTyped
<1>2. SlotFits(Apply(s, e))
  BY <1>1, DisciplineFits
<1> QED BY <1>1, <1>2, AssertionParts DEF Passes, Steady

-----------------------------------------------------------------------------
(* The events pass.                                                        *)

\* An event that is not about the state of a task.
LEMMA QuietPasses ==
    ASSUME NEW s, Steady(s), NEW e \in Events, e.type \in QuietTypes, Fits(s, e)
    PROVE  Passes(s, e) /\ Steady(Apply(s, e))
<1> DEFINE n == Apply(s, e)
<1>1. /\ s \in ControllerStates /\ SlotDiscipline(s)
      /\ QueueFits(s) /\ RunsFit(s) /\ QuestionsFit(s)
  BY AssertionParts DEF Steady
<1>2. /\ SlotDiscipline(n) /\ n.queue = s.queue /\ n.runs = s.runs
      /\ \A u \in TaskIds : /\ n.tasks[u].state = s.tasks[u].state
                            /\ n.tasks[u].activeRunId = s.tasks[u].activeRunId
  BY <1>1, QuietEventKeeps
<1>3. \A q \in QuestionIds : n.questions[q].state = "open" => n.questions[q] = s.questions[q]
  <2>1. CASE e.type = "task.questionAnswered"
    BY <1>1, <2>1, QuestionFrame
  <2>2. CASE e.type # "task.questionAnswered"
    <3>1. n.questions = s.questions
      BY <1>1, <2>2, TaskFrame, OtherFrame DEF QuestionTypes, QuietTypes
    <3> QED BY <3>1
  <2> QED BY <2>1, <2>2
<1> HIDE DEF n
<1>4. QueueFits(n) /\ RunsFit(n) /\ QuestionsFit(n)
  BY <1>1, <1>2, <1>3, SameQueueFits, SameRunsFit, SameQuestionsFit
<1> QED BY <1>1, <1>2, <1>4, PassesWhen DEF n

\* The start of a task changes the slot and the queue so.
LEMMA StartedSlot ==
    ASSUME NEW s, Shape(s), NEW e
    PROVE  /\ TaskStarted(s, e).queue = RemoveFromQueue(s.queue, e.taskId)
           /\ TaskStarted(s, e).activeTaskId = e.taskId
<1> DEFINE m == SetTask(s, e.taskId, Started(s.tasks[e.taskId], e.runId))
           runs == [s.runs EXCEPT ![e.runId] = [taskId |-> e.taskId,
                       taskRevision |-> e.revision, state |-> "running"]]
           queue == RemoveFromQueue(s.queue, e.taskId)
<1>1. Shape(m)
  BY SetTaskFrame
<1>2. TaskStarted(s, e) = [m EXCEPT !.queue = queue, !.runs = runs, !.activeTaskId = e.taskId]
  BY DEF TaskStarted, Started
<1> HIDE DEF m, runs, queue
<1>3. TaskStarted(s, e).queue = queue /\ TaskStarted(s, e).activeTaskId = e.taskId
  BY <1>1, <1>2 DEF Shape
<1> QED BY <1>3 DEF queue

\* A task is started or goes on in a free slot, or in its own, when it owes no answer.
LEMMA StartPasses ==
    ASSUME NEW s, Steady(s), NEW e \in Events, e.type \in StartTypes,
           s.activeTaskId \in {None, e.taskId}, NoRunRunning(s),
           s.tasks[e.taskId].state # "none", e.revision = s.tasks[e.taskId].revision,
           s.runs[e.runId].state = "none", OpenQuestions(s, e.taskId) = {}
    PROVE  Passes(s, e)
<1> DEFINE n == Apply(s, e)
           t == e.taskId
           r == e.runId
           run == [taskId |-> t, taskRevision |-> e.revision, state |-> "running"]
<1>1. /\ s \in ControllerStates /\ SlotDiscipline(s)
      /\ QueueFits(s) /\ RunsFit(s) /\ QuestionsFit(s)
  BY AssertionParts DEF Steady
<1>2. t \in TaskIds /\ r \in RunIds
  BY DEF Events, CreatedEvents, EnqueuedEvents, StartedEvents, TaskEvents, RunEvents,
         AskedEvents, AnsweredEvents, RevisedEvents, RequestedEvents, ResolvedEvents,
         ConsumedEvents, ReorderedEvents, TaskOnly, TaskAndRun, StartTypes
<1>3. n = TaskStarted(s, e)
  BY ApplyCases DEF StartTypes
<1>4. SlotDiscipline(n) /\ n.queue = RemoveFromQueue(s.queue, t)
  BY <1>1, <1>2, <1>3, StartKeeps, StartedSlot, StatesHaveShape
<1>5. /\ \A u \in TaskIds : u # t => n.tasks[u] = s.tasks[u]
      /\ n.tasks[t].activeRunId = r /\ n.tasks[t].state = "running"
      /\ n.questions = s.questions
  BY <1>1, TaskEffect DEF TaskTypes, TaskIsRequired, QuestionTypes, StartTypes, After
<1>6. n.runs = [s.runs EXCEPT ![r] = run]
  BY <1>1, RunFrame
<1>7. Fits(s, e)
  BY DEF Fits, StartTypes, TaskIsRequired, RunIsRequired
<1> HIDE DEF n
<1>8. RunsFit(n)
  <2>1. \A u \in TaskIds : u # t => s.tasks[u].activeRunId = None
    BY <1>1, <1>2, OnlySlotRuns, NoneAssumption
  <2>2. n.runs[r] = run /\ run.taskId = t /\ run.state = "running"
    BY <1>1, <1>2, <1>6, FieldsTyped
  <2> HIDE DEF run
  <2> QED BY <1>5, <2>1, <2>2 DEF RunsFit
<1>9. QueueFits(n)
  BY <1>1, <1>2, <1>4, <1>5, ShorterQueueFits
<1>10. QuestionsFit(n)
  <2>1. OpenQuestions(n, t) = {}
    BY <1>5, NothingAsked
  <2> QED BY <1>1, <1>5, <2>1, SameQuestionsFit
<1> QED BY <1>1, <1>4, <1>7, <1>8, <1>9, <1>10, PassesWhen DEF n

\* Suspending the task in the slot ends its hold on a run.
LEMMA SuspendedRunsFit ==
    ASSUME NEW s \in ControllerStates, SlotDiscipline(s), NEW e \in Events,
           e.type \in {"task.paused", "task.awaitingUser", "task.questionAsked"},
           s.activeTaskId = e.taskId
    PROVE  LET n == Apply(s, e)
           IN  /\ e.taskId \in TaskIds
               /\ \A u \in TaskIds : u # e.taskId => n.tasks[u] = s.tasks[u]
               /\ n.tasks[e.taskId].state = IF e.type = "task.paused" THEN "paused"
                                            ELSE "awaiting_user"
               /\ RunsFit(n)
<1> DEFINE n == Apply(s, e)
           t == e.taskId
<1>1. /\ t \in TaskIds /\ \A u \in TaskIds : u # t => n.tasks[u] = s.tasks[u]
      /\ n.tasks[t].activeRunId = None
      /\ n.tasks[t].state = IF e.type = "task.paused" THEN "paused" ELSE "awaiting_user"
  BY TaskEffect DEF TaskTypes, TaskIsRequired, After, StopTypes
<1> HIDE DEF n
<1>2. \A u \in TaskIds : n.tasks[u].activeRunId = None
  BY <1>1, OnlySlotRuns
<1> QED BY <1>1, <1>2 DEF RunsFit, n

\* The task in the slot is paused, or waits for the user, owing no answer.
LEMMA SuspendPasses ==
    ASSUME NEW s, Steady(s), NEW e \in Events, e.type \in {"task.paused", "task.awaitingUser"},
           s.activeTaskId = e.taskId, e.runId \in RunIds,
           \A r \in RunIds : s.runs[r].state = "running" => r = e.runId,
           s.runs[e.runId].state # "none", OpenQuestions(s, e.taskId) = {}
    PROVE  Passes(s, e)
<1> DEFINE n == Apply(s, e)
           t == e.taskId
<1>1. /\ s \in ControllerStates /\ SlotDiscipline(s)
      /\ QueueFits(s) /\ RunsFit(s) /\ QuestionsFit(s)
  BY AssertionParts DEF Steady
<1>2. /\ t \in TaskIds /\ \A u \in TaskIds : u # t => n.tasks[u] = s.tasks[u]
      /\ RunsFit(n)
  BY <1>1, SuspendedRunsFit
<1>3. s.tasks[t].state \in LiveStates
  BY <1>1, <1>2 DEF SlotDiscipline
<1>4. n \in {TaskPaused(s, e), TaskAwaitingUser(s, e)}
  BY ApplyCases
<1>5. SlotDiscipline(n) /\ n.queue = s.queue
  BY <1>1, <1>2, <1>4, PausedKeeps, AwaitingKeeps
<1>6. n.questions = s.questions
  BY <1>1, TaskEffect DEF TaskTypes, TaskIsRequired, QuestionTypes
<1>7. Fits(s, e)
  BY <1>3 DEF Fits, LiveStates
<1> HIDE DEF n
<1>8. QueueFits(n)
  BY <1>1, <1>2, <1>3, <1>5, SameQueueFits DEF LiveStates
<1>9. QuestionsFit(n)
  <2>1. OpenQuestions(n, t) = {}
    BY <1>6, NothingAsked
  <2> QED BY <1>1, <1>2, <1>6, <2>1, SameQuestionsFit
<1> QED BY <1>1, <1>2, <1>5, <1>7, <1>8, <1>9, PassesWhen DEF n

\* The task in the slot asks its only question.
LEMMA AskPasses ==
    ASSUME NEW s, Steady(s), NEW e \in Events, e.type = "task.questionAsked",
           s.activeTaskId = e.taskId, e.runId \in RunIds,
           \A r \in RunIds : s.runs[r].state = "running" => r = e.runId,
           s.runs[e.runId].state # "none", OpenQuestions(s, e.taskId) = {},
           s.questions[e.questionId].state = "none"
    PROVE  Passes(s, e)
<1> DEFINE n == Apply(s, e)
           t == e.taskId
           question == [taskId |-> t, taskRevision |-> e.revision,
                        runId |-> e.runId, state |-> "open"]
<1>1. /\ s \in ControllerStates /\ SlotDiscipline(s)
      /\ QueueFits(s) /\ RunsFit(s) /\ QuestionsFit(s)
  BY AssertionParts DEF Steady
<1>2. /\ t \in TaskIds /\ \A u \in TaskIds : u # t => n.tasks[u] = s.tasks[u]
      /\ n.tasks[t].state = "awaiting_user" /\ RunsFit(n)
  BY <1>1, SuspendedRunsFit
<1>3. s.tasks[t].state \in LiveStates
  BY <1>1, <1>2 DEF SlotDiscipline
<1>4. SlotDiscipline(n) /\ n.queue = s.queue
  BY <1>1, <1>2, ApplyCases, AwaitingKeeps
<1>5. e.questionId \in QuestionIds /\ n.questions = [s.questions EXCEPT ![e.questionId] = question]
  BY <1>1, AskedQuestion
<1>6. Fits(s, e)
  BY <1>3 DEF Fits, LiveStates
<1>7. question.taskId = t
  OBVIOUS
<1> HIDE DEF n, question
<1>8. QueueFits(n)
  BY <1>1, <1>2, <1>3, <1>4, SameQueueFits DEF LiveStates
<1>9. \A q \in QuestionIds : n.questions[q] =
         IF q = e.questionId THEN question ELSE s.questions[q]
  BY <1>1, <1>5, FieldsTyped
<1>10. QuestionsFit(n)
  <2>1. OpenQuestions(n, t) \subseteq {e.questionId}
    BY <1>9 DEF OpenQuestions
  <2>2. ASSUME NEW u \in TaskIds, u # t
        PROVE  OpenQuestions(n, u) \subseteq OpenQuestions(s, u)
    BY <1>7, <1>9, <2>2 DEF OpenQuestions
  <2> QED BY <1>1, <1>2, <2>1, <2>2 DEF QuestionsFit
<1> QED BY <1>1, <1>2, <1>4, <1>6, <1>8, <1>10, PassesWhen DEF n

\* What the end of a task leaves fits, when it owed no answer.
LEMMA RetiredFits ==
    ASSUME NEW s, Steady(s), NEW e \in Events, e.type \in EndTypes,
           OpenQuestions(s, e.taskId) = {},
           Apply(s, e).queue = RemoveFromQueue(s.queue, e.taskId),
           s.activeTaskId # e.taskId => Apply(s, e).runs = s.runs
    PROVE  QueueFits(Apply(s, e)) /\ RunsFit(Apply(s, e)) /\ QuestionsFit(Apply(s, e))
<1> DEFINE n == Apply(s, e)
           t == e.taskId
<1>1. /\ s \in ControllerStates /\ SlotDiscipline(s)
      /\ QueueFits(s) /\ RunsFit(s) /\ QuestionsFit(s)
  BY AssertionParts DEF Steady
<1>2. /\ t \in TaskIds /\ \A u \in TaskIds : u # t => n.tasks[u] = s.tasks[u]
      /\ n.tasks[t].activeRunId = None
      /\ n.questions = s.questions
  BY <1>1, TaskEffect DEF TaskTypes, TaskIsRequired, QuestionTypes, EndTypes, StopTypes, After
<1> HIDE DEF n
<1>3. QueueFits(n)
  BY <1>1, <1>2, ShorterQueueFits DEF n
<1>4. RunsFit(n)
  <2>1. CASE s.activeTaskId = t
    <3>1. \A u \in TaskIds : n.tasks[u].activeRunId = None
      BY <1>1, <1>2, <2>1, OnlySlotRuns
    <3> QED BY <3>1 DEF RunsFit
  <2>2. CASE s.activeTaskId # t
    <3>1. s.tasks[t].activeRunId = None /\ n.runs = s.runs
      BY <1>1, <1>2, <2>2, OnlySlotRuns DEF n
    <3>2. \A u \in TaskIds : n.tasks[u] = s.tasks[u] \/ n.tasks[u].activeRunId = None
      BY <1>2
    <3> QED BY <1>1, <3>1, <3>2 DEF RunsFit
  <2> QED BY <2>1, <2>2
<1>5. QuestionsFit(n)
  <2>1. OpenQuestions(n, t) = {}
    BY <1>2, NothingAsked
  <2> QED BY <1>1, <1>2, <2>1, SameQuestionsFit
<1> QED BY <1>3, <1>4, <1>5 DEF n

\* The task in the slot completes or fails.
LEMMA FinishPasses ==
    ASSUME NEW s, Steady(s), NEW e \in Events, e.type \in {"task.completed", "task.failed"},
           s.activeTaskId = e.taskId, e.runId \in RunIds,
           \A r \in RunIds : s.runs[r].state = "running" => r = e.runId,
           s.runs[e.runId].state # "none", OpenQuestions(s, e.taskId) = {}
    PROVE  /\ Passes(s, e) /\ Steady(Apply(s, e))
           /\ NoRunRunning(Apply(s, e)) /\ Apply(s, e).activeTaskId = None
           /\ Apply(s, e).queue = RemoveFromQueue(s.queue, e.taskId)
<1> DEFINE n == Apply(s, e)
           t == e.taskId
<1>1. s \in ControllerStates /\ SlotDiscipline(s) /\ t \in TaskIds
  BY EventTypes DEF Steady, TaskTypes, TaskIsRequired
<1>2. s.tasks[t].state \in LiveStates
  BY <1>1 DEF SlotDiscipline
<1>3. n \in {Retire(EndRun(s, e.runId, "completed"), t, "completed"),
             Retire(EndRun(s, e.runId, "failed"), t, "failed")}
  BY ApplyCases DEF TaskCompleted, TaskFailed
<1>4. /\ SlotDiscipline(n) /\ NoRunRunning(n) /\ n.activeTaskId = None
      /\ n.queue = RemoveFromQueue(s.queue, t)
  BY <1>1, <1>3, FinishedKeeps
<1>5. Fits(s, e)
  BY <1>2 DEF Fits, LiveStates
<1> HIDE DEF n
<1>6. QueueFits(n) /\ RunsFit(n) /\ QuestionsFit(n)
  BY <1>4, RetiredFits DEF EndTypes, n
<1> QED BY <1>1, <1>4, <1>5, <1>6, PassesWhen DEF n

\* A task is cancelled that owes no answer.
LEMMA CancelPasses ==
    ASSUME NEW s, Steady(s), NEW e \in Events, e.type = "task.cancelled",
           s.tasks[e.taskId].state # "none", OpenQuestions(s, e.taskId) = {}
    PROVE  /\ Passes(s, e) /\ Steady(Apply(s, e))
           /\ s.activeTaskId = e.taskId =>
                 NoRunRunning(Apply(s, e)) /\ Apply(s, e).activeTaskId = None
           /\ Apply(s, e).queue = RemoveFromQueue(s.queue, e.taskId)
<1> DEFINE n == Apply(s, e)
           t == e.taskId
           r == s.tasks[t].activeRunId
<1>1. s \in ControllerStates /\ SlotDiscipline(s) /\ RunsFit(s) /\ t \in TaskIds
  BY EventTypes, AssertionParts DEF Steady, TaskTypes, TaskIsRequired
<1>2. n = Retire(IF r = None THEN s ELSE EndRun(s, r, "cancelled"), t, "cancelled")
  BY ApplyCases DEF TaskCancelled
<1>3. r # None => r \in RunIds /\ s.activeTaskId = t /\ s.runs[r].state \in {"running", "interrupted"}
  BY <1>1, OnlySlotRuns, TaskFields DEF RunsFit
<1>4. Fits(s, e)
  BY <1>3 DEF Fits, RunIsRequired
<1> HIDE DEF n, r
<1>5. CASE r = None
  <2>1. /\ SlotDiscipline(n)
        /\ s.activeTaskId = t => NoRunRunning(n) /\ n.activeTaskId = None
        /\ n.queue = RemoveFromQueue(s.queue, t) /\ n.runs = s.runs
    <3>1. n = Retire(s, t, "cancelled") /\ s.tasks[t].activeRunId = None
      BY <1>2, <1>5 DEF r
    <3>2. n.runs = s.runs
      BY <1>1, <3>1, RetireEffect DEF TerminalStates
    <3> QED BY <1>1, <3>1, <3>2, DroppedKeeps
  <2>2. QueueFits(n) /\ RunsFit(n) /\ QuestionsFit(n)
    BY <2>1, RetiredFits DEF EndTypes, n
  <2> QED BY <1>1, <1>4, <2>1, <2>2, PassesWhen DEF n
<1>6. CASE r # None
  <2>1. \A q \in RunIds : s.runs[q].state = "running" => q = r
    BY <1>1, <1>3, <1>6, RunningIsActive DEF r
  <2>2. /\ SlotDiscipline(n) /\ NoRunRunning(n) /\ n.activeTaskId = None
        /\ n.queue = RemoveFromQueue(s.queue, t)
    BY <1>1, <1>2, <1>3, <1>6, <2>1, FinishedKeeps
  <2>3. QueueFits(n) /\ RunsFit(n) /\ QuestionsFit(n)
    BY <1>3, <1>6, <2>2, RetiredFits DEF EndTypes, n
  <2> QED BY <1>1, <1>4, <2>2, <2>3, PassesWhen DEF n
<1> QED BY <1>5, <1>6

\* A task that runs is asked to pause.
LEMMA PauseRequestPasses ==
    ASSUME NEW s, Steady(s), NEW e \in Events, e.type = "task.pauseRequested",
           s.tasks[e.taskId].state = "running"
    PROVE  Passes(s, e)
<1> DEFINE n == Apply(s, e)
           t == e.taskId
<1>1. /\ s \in ControllerStates /\ SlotDiscipline(s) /\ t \in TaskIds
      /\ QueueFits(s) /\ RunsFit(s) /\ QuestionsFit(s)
  BY EventTypes, AssertionParts DEF Steady, TaskTypes, TaskIsRequired
<1>2. SlotDiscipline(n) /\ n.queue = s.queue
  BY <1>1, ApplyCases, PauseRequestedKeeps
<1>3. /\ \A u \in TaskIds : u # t => n.tasks[u] = s.tasks[u]
      /\ n.tasks[t].state = "pause_requested"
      /\ n.tasks[t].activeRunId = s.tasks[t].activeRunId /\ n.questions = s.questions
  BY <1>1, TaskEffect
     DEF TaskTypes, TaskIsRequired, QuestionTypes, StartTypes, StopTypes, After
<1>4. n.runs = s.runs
  BY <1>1, RunFrame DEF Runless
<1>5. Fits(s, e)
  BY DEF Fits, RunIsRequired
<1> HIDE DEF n
<1>6. QueueFits(n) /\ RunsFit(n)
  BY <1>1, <1>2, <1>3, <1>4, SameQueueFits, SameRunsFit
<1>7. OpenQuestions(n, t) = {}
  BY <1>1, <1>3, NothingAsked DEF QuestionsFit
<1>8. QuestionsFit(n)
  BY <1>1, <1>3, <1>7, SameQuestionsFit
<1> QED BY <1>1, <1>2, <1>5, <1>6, <1>8, PassesWhen DEF n

\* A task is revised while nothing runs.
LEMMA RevisePasses ==
    ASSUME NEW s, Steady(s), NEW e \in Events, e.type = "task.specRevised",
           s.tasks[e.taskId].state # "none", NoRunRunning(s)
    PROVE  Passes(s, e)
<1> DEFINE n == Apply(s, e)
           t == e.taskId
<1>1. /\ s \in ControllerStates /\ SlotDiscipline(s) /\ t \in TaskIds
      /\ QueueFits(s) /\ RunsFit(s) /\ QuestionsFit(s)
  BY EventTypes, AssertionParts DEF Steady, TaskTypes, TaskIsRequired
<1>2. e.revision \in Nat /\ e.profile \in Profiles
  BY DEF Events, CreatedEvents, EnqueuedEvents, StartedEvents, TaskEvents, RunEvents,
         AskedEvents, AnsweredEvents, RevisedEvents, RequestedEvents, ResolvedEvents,
         ConsumedEvents, ReorderedEvents, TaskOnly, TaskAndRun
<1>3. SlotDiscipline(n) /\ n.queue = s.queue
  BY <1>1, <1>2, ApplyCases, RevisedKeeps
<1>4. /\ \A u \in TaskIds : u # t => n.tasks[u] = s.tasks[u]
      /\ n.tasks[t].state = s.tasks[t].state
      /\ n.tasks[t].activeRunId = s.tasks[t].activeRunId
  BY <1>1, TaskEffect
     DEF TaskTypes, TaskIsRequired, StartTypes, StopTypes, KeepsState, After
<1>5. n.runs = s.runs
  BY <1>1, RunFrame DEF Runless
<1>6. \A q \in QuestionIds : n.questions[q].state = "open" => n.questions[q] = s.questions[q]
  BY <1>1, QuestionFrame
<1>7. Fits(s, e)
  BY DEF Fits, RunIsRequired
<1> HIDE DEF n
<1>8. QueueFits(n) /\ RunsFit(n) /\ QuestionsFit(n)
  BY <1>1, <1>3, <1>4, <1>5, <1>6, SameQueueFits, SameRunsFit, SameQuestionsFit
<1> QED BY <1>1, <1>3, <1>7, <1>8, PassesWhen DEF n

\* The active run is interrupted.
LEMMA InterruptPasses ==
    ASSUME NEW s, Steady(s), NEW e \in Events, e.type = "run.interrupted",
           s.activeTaskId \in TaskIds, e.runId = s.tasks[s.activeTaskId].activeRunId,
           e.runId \in RunIds
    PROVE  /\ Passes(s, e) /\ Steady(Apply(s, e)) /\ NoRunRunning(Apply(s, e))
           /\ Apply(s, e).activeTaskId = s.activeTaskId
           /\ Apply(s, e).runs[e.runId].state = "interrupted"
           /\ Apply(s, e).tasks = s.tasks /\ Apply(s, e).questions = s.questions
<1> DEFINE n == Apply(s, e)
           t == s.activeTaskId
           r == e.runId
<1>1. /\ s \in ControllerStates /\ SlotDiscipline(s)
      /\ QueueFits(s) /\ RunsFit(s) /\ QuestionsFit(s)
  BY AssertionParts DEF Steady
<1>2. /\ SlotDiscipline(n) /\ NoRunRunning(n) /\ n.activeTaskId = t
      /\ n.queue = s.queue /\ n.tasks = s.tasks /\ n.runs[r].state = "interrupted"
  BY <1>1, ApplyCases, InterruptedKeeps
<1>3. n.questions = s.questions
  BY <1>1, OtherFrame DEF TaskTypes, TaskIsRequired
<1>4. n.runs[r].taskId = s.runs[r].taskId
  BY <1>1, ApplyCases, EndRunRuns DEF RunInterrupted, RunStates
<1>5. /\ s.runs[r].taskId = t /\ s.runs[r].state # "none" /\ r # None
      /\ s.tasks[t].state \in {"running", "pause_requested"}
  BY <1>1, NoneAssumption DEF RunsFit, SlotDiscipline
<1>6. Fits(s, e)
  BY <1>5 DEF Fits, TaskIsRequired
<1> HIDE DEF n
<1>7. RunsFit(n)
  <2>1. \A u \in TaskIds : u # t => n.tasks[u].activeRunId = None
    BY <1>1, <1>2, OnlySlotRuns
  <2> QED BY <1>2, <1>4, <1>5, <2>1 DEF RunsFit
<1>8. QueueFits(n)
  BY <1>1, <1>2, SameQueueFits
<1>9. QuestionsFit(n)
  BY <1>1, <1>2, <1>3, SameQuestionsFit
<1> QED BY <1>1, <1>2, <1>3, <1>6, <1>7, <1>8, <1>9, PassesWhen DEF n

\* A new task is created ...
LEMMA CreatePasses ==
    ASSUME NEW s, Steady(s), NEW e \in Events, e.type = "task.created",
           s.tasks[e.taskId].state = "none"
    PROVE  /\ Passes(s, e) /\ Apply(s, e) \in ControllerStates
           /\ ~InQueue(Apply(s, e).queue, e.taskId)
           /\ Apply(s, e).tasks[e.taskId].state = "queued"
           /\ OpenQuestions(Apply(s, e), e.taskId) = {}
<1> DEFINE n == Apply(s, e)
           t == e.taskId
           task == [NoTask EXCEPT !.state = "queued", !.profile = e.profile,
                                  !.revision = e.revision]
<1>1. /\ s \in ControllerStates /\ SlotDiscipline(s) /\ t \in TaskIds
      /\ QueueFits(s) /\ RunsFit(s) /\ QuestionsFit(s)
  BY EventTypes, AssertionParts DEF Steady, TaskTypes
<1>2. /\ \A u \in TaskIds : u # t => n.tasks[u] = s.tasks[u]
      /\ n.tasks[t].state = "queued" /\ n.tasks[t].activeRunId = None
      /\ n.questions = s.questions
  BY <1>1, TaskEffect DEF TaskTypes, QuestionTypes, StopTypes, After
<1>3. n.activeTaskId = s.activeTaskId /\ n.queue = s.queue
  <2>1. n = SetTask(s, t, task)
    BY ApplyCases DEF TaskCreated
  <2> HIDE DEF task
  <2> QED BY <1>1, <2>1 DEF SetTask, ControllerStates
<1>4. n.runs = s.runs
  BY <1>1, RunFrame DEF Runless
<1>5. Fits(s, e)
  BY DEF Fits, TaskIsRequired, RunIsRequired
<1>6. n \in ControllerStates
  BY <1>1, <1>5, ApplyTyped
<1> HIDE DEF n
<1>7. s.activeTaskId # t /\ s.tasks[t].activeRunId = None
  BY <1>1 DEF SlotDiscipline, LiveStates
<1>8. QueueFits(n) /\ ~InQueue(n.queue, t)
  <2>1. QueueFits(n)
    BY <1>1, <1>2, <1>3, SameQueueFits
  <2> QED BY <1>1, <1>3, <2>1 DEF InQueue, QueueFits
<1>9. SlotFits(n)
  BY <1>1, <1>2, <1>3, <1>7, DisciplineFits, FieldsTyped DEF SlotFits
<1>10. RunsFit(n)
  BY <1>1, <1>2, <1>4, <1>7 DEF RunsFit
<1>11. OpenQuestions(n, t) = {}
  BY <1>1, <1>2, NothingAsked DEF QuestionsFit
<1>12. QuestionsFit(n)
  BY <1>1, <1>2, <1>11, SameQuestionsFit
<1> QED BY <1>2, <1>5, <1>6, <1>8, <1>9, <1>10, <1>11, <1>12, AssertionParts DEF Passes, n

\* ... and put in the queue.
LEMMA EnqueuePasses ==
    ASSUME NEW s \in ControllerStates, StateInvariants(s), NEW e \in Events,
           e.type = "task.enqueued", e.position \in Nat,
           s.tasks[e.taskId].state = "queued", ~InQueue(s.queue, e.taskId),
           SlotDiscipline(Apply(s, e))
    PROVE  Passes(s, e) /\ Steady(Apply(s, e)) /\ Apply(s, e).questions = s.questions
<1> DEFINE n == Apply(s, e)
           t == e.taskId
           rest == RemoveFromQueue(s.queue, t)
           at == (IF e.position < Len(rest) THEN e.position ELSE Len(rest)) + 1
<1>1. QueueFits(s) /\ RunsFit(s) /\ QuestionsFit(s) /\ t \in TaskIds /\ s.queue \in Seq(TaskIds)
  BY EventTypes, AssertionParts, FieldsTyped DEF TaskTypes, TaskIsRequired
<1>2. /\ \A u \in TaskIds : u # t => n.tasks[u] = s.tasks[u]
      /\ n.tasks[t].state = "queued" /\ n.tasks[t].activeRunId = s.tasks[t].activeRunId
      /\ n.questions = s.questions
  BY <1>1, TaskEffect DEF TaskTypes, TaskIsRequired, QuestionTypes, StartTypes, StopTypes, After
<1>3. n.queue = InsertAt(rest, at, t)
  <2> DEFINE m == SetTask(s, t, InState(s.tasks[t], "queued"))
  <2>1. Shape(m)
    BY StatesHaveShape, SetTaskFrame
  <2>2. n = [m EXCEPT !.queue = InsertInQueue(rest, t, e.position)]
    BY ApplyCases DEF TaskEnqueued, InState
  <2> HIDE DEF m, n
  <2>3. n.queue = InsertInQueue(rest, t, e.position)
    BY <2>1, <2>2 DEF Shape
  <2> QED BY <2>3 DEF InsertInQueue
<1>4. n.runs = s.runs
  BY RunFrame DEF Runless
<1>5. Fits(s, e)
  BY DEF Fits, RunIsRequired
<1> HIDE DEF n
<1>6. /\ rest \in Seq(TaskIds) /\ Single(rest) /\ ~InQueue(rest, t)
      /\ \A j \in DOMAIN rest : \E i \in DOMAIN s.queue : rest[j] = s.queue[i]
  BY <1>1, RemoveFromQueueProperties, RemovedSingle DEF QueueFits
<1> HIDE DEF rest
<1>7. at \in 1..(Len(rest) + 1)
  BY <1>6
<1> HIDE DEF at
<1>8. /\ InsertAt(rest, at, t) \in Seq(TaskIds) /\ Single(InsertAt(rest, at, t))
      /\ \A j \in DOMAIN InsertAt(rest, at, t) : InsertAt(rest, at, t)[j] = t
            \/ \E k \in DOMAIN rest : InsertAt(rest, at, t)[j] = rest[k]
  BY <1>1, <1>6, <1>7, InsertedSingle
<1>9. QueueFits(n)
  <2>1. ASSUME NEW j \in DOMAIN n.queue
        PROVE  n.tasks[n.queue[j]].state = "queued"
    <3>1. CASE n.queue[j] = t
      BY <1>2, <3>1
    <3>2. CASE n.queue[j] # t
      <4>1. PICK k \in DOMAIN rest : n.queue[j] = rest[k]
        BY <1>3, <1>8, <3>2
      <4>2. PICK i \in DOMAIN s.queue : rest[k] = s.queue[i]
        BY <1>6
      <4> QED BY <1>1, <1>2, <3>2, <4>1, <4>2 DEF QueueFits
    <3> QED BY <3>1, <3>2
  <2> QED BY <1>3, <1>8, <2>1 DEF QueueFits
<1>10. RunsFit(n)
  BY <1>1, <1>2, <1>4, SameRunsFit
<1>11. OpenQuestions(n, t) = {}
  BY <1>1, <1>2, NothingAsked DEF QuestionsFit
<1>12. QuestionsFit(n)
  BY <1>1, <1>2, <1>11, SameQuestionsFit
<1> QED BY <1>2, <1>5, <1>9, <1>10, <1>12, PassesWhen DEF n

\* The queue is rewritten with the same tasks, each of them once.
LEMMA ReorderPasses ==
    ASSUME NEW s, Steady(s), NEW e \in Events, e.type = "queue.reordered", Single(e.taskIds),
           \A u \in TaskIds : InQueue(s.queue, u) => InQueue(e.taskIds, u),
           \A i \in DOMAIN e.taskIds : InQueue(s.queue, e.taskIds[i])
    PROVE  Passes(s, e)
<1> DEFINE n == Apply(s, e)
<1>1. /\ s \in ControllerStates /\ SlotDiscipline(s)
      /\ QueueFits(s) /\ RunsFit(s) /\ QuestionsFit(s)
  BY AssertionParts DEF Steady
<1>2. n = QueueReordered(s, e)
  BY ApplyCases
<1>3. SlotDiscipline(n)
  BY <1>1, <1>2, ReorderedKeeps
<1>4. n.queue = e.taskIds /\ n.tasks = s.tasks /\ n.runs = s.runs /\ n.questions = s.questions
  BY <1>1, <1>2 DEF QueueReordered, ControllerStates
<1>5. Fits(s, e)
  BY DEF Fits, TaskIsRequired, RunIsRequired
<1> HIDE DEF n
<1>6. QueueFits(n)
  BY <1>1, <1>4 DEF QueueFits, InQueue
<1>7. RunsFit(n) /\ QuestionsFit(n)
  BY <1>1, <1>4, SameRunsFit, SameQuestionsFit
<1> QED BY <1>1, <1>3, <1>5, <1>6, <1>7, PassesWhen DEF n

-----------------------------------------------------------------------------
(* The run a task had last.                                                *)

\* An event forgets no run, and gives a task no last run but one it makes.
LEMMA EventKeepsLast ==
    ASSUME NEW s \in ControllerStates, NEW e \in Events, LastRunsExist(s),
           e.type = "run.interrupted" => s.runs[e.runId].state # "none"
    PROVE  LastRunsExist(Apply(s, e))
<1> DEFINE n == Apply(s, e)
<1>1. s.tasks \in [TaskIds -> Task] /\ s.runs \in [RunIds -> Run]
  BY FieldsTyped
<1>2. /\ e.type \in StartTypes \cup {"run.interrupted"} => e.runId \in RunIds
      /\ e.type \in TaskTypes => e.taskId \in TaskIds
  BY EventTypes DEF Events, CreatedEvents, EnqueuedEvents, StartedEvents, TaskEvents, RunEvents,
         AskedEvents, AnsweredEvents, RevisedEvents, RequestedEvents, ResolvedEvents,
         ConsumedEvents, ReorderedEvents, TaskOnly, TaskAndRun, StartTypes
<1>3. \A t \in TaskIds : s.tasks[t].lastRunId \in RunIds \cup {None}
  BY <1>1 DEF Task
<1>4. \A q \in RunIds : s.runs[q].state # "none" => n.runs[q].state # "none"
  <2>1. CASE e.type \in StartTypes
    <3> DEFINE run == [taskId |-> e.taskId, taskRevision |-> e.revision, state |-> "running"]
    <3>1. n.runs = [s.runs EXCEPT ![e.runId] = run]
      BY <2>1, RunFrame
    <3>2. run.state = "running"
      OBVIOUS
    <3> HIDE DEF n, run
    <3>3. \A q \in RunIds : n.runs[q] = IF q = e.runId THEN run ELSE s.runs[q]
      BY <1>1, <3>1
    <3> QED BY <3>2, <3>3 DEF n
  <2>2. CASE e.type = "run.interrupted"
    <3>1. n = EndRun(s, e.runId, "interrupted")
      BY <2>2 DEF Apply, RunInterrupted
    <3> QED BY <1>2, <2>2, <3>1, EndRunRuns DEF RunStates
  <2>3. CASE e.type \notin StartTypes \cup {"run.interrupted"}
    BY <2>3, RunFrame DEF RunsKept
  <2> QED BY <2>1, <2>2, <2>3
<1>5. ASSUME NEW t \in TaskIds
      PROVE  \/ n.tasks[t].lastRunId \in {s.tasks[t].lastRunId, None}
             \/ e.type \in StartTypes /\ n.tasks[t].lastRunId = e.runId
  <2>1. CASE e.type \in TaskTypes
    <3>1. /\ After(e, s.tasks[e.taskId], n.tasks[e.taskId])
          /\ t # e.taskId => n.tasks[t] = s.tasks[t]
      BY <2>1, TaskEffect
    <3> HIDE DEF n
    <3>2. \/ n.tasks[e.taskId].lastRunId \in {s.tasks[e.taskId].lastRunId, None}
          \/ e.type \in StartTypes /\ n.tasks[e.taskId].lastRunId = e.runId
      BY <3>1 DEF After
    <3> QED BY <3>1, <3>2
  <2>2. CASE e.type \notin TaskTypes
    BY <2>2, OtherFrame
  <2> QED BY <2>1, <2>2
<1>6. e.type \in StartTypes => n.runs[e.runId].state = "running"
  <2> SUFFICES ASSUME e.type \in StartTypes
               PROVE  n.runs[e.runId].state = "running"
    OBVIOUS
  <2> DEFINE run == [taskId |-> e.taskId, taskRevision |-> e.revision, state |-> "running"]
  <2>1. n.runs = [s.runs EXCEPT ![e.runId] = run]
    BY RunFrame
  <2>2. run.state = "running"
    OBVIOUS
  <2> HIDE DEF n, run
  <2> QED BY <1>1, <1>2, <2>1, <2>2
<1> HIDE DEF n
<1>7. LastRunsExist(n)
  BY <1>2, <1>3, <1>4, <1>5, <1>6 DEF LastRunsExist
<1> QED BY <1>7 DEF n

\* No decision forgets the last run of a task, whatever throws.
LEMMA DecisionKeepsLast ==
    ASSUME state \in ControllerStates, NEW events \in Seq(Events), Len(events) \in 1..3,
           Commit(events), LastRunsExist(state)
    PROVE  LastRunsExist(state')
<1> DEFINE m == [state |-> state, ok |-> TRUE]
           m1 == ApplyChecked(m, events[1])
           m2 == IF Len(events) < 2 THEN m1 ELSE ApplyChecked(m1, events[2])
           m3 == IF Len(events) < 3 THEN m2 ELSE ApplyChecked(m2, events[3])
           Memory == [state : ControllerStates, ok : BOOLEAN]
<1>1. m \in Memory /\ m.state = state
  OBVIOUS
<1>2. state' = m3.state
  BY FewSteps DEF Commit, LoopOfThree
<1>3. Len(events) \in {1, 2, 3} /\ \A i \in 1..Len(events) : events[i] \in Events
  OBVIOUS
<1>4. ASSUME NEW p \in Memory, NEW e \in Events, LastRunsExist(p.state)
      PROVE  ApplyChecked(p, e) \in Memory /\ LastRunsExist(ApplyChecked(p, e).state)
  <2>1. CASE Fits(p.state, e)
    <3>1. ApplyChecked(p, e).state \in {p.state, Apply(p.state, e)}
      BY DEF ApplyChecked
    <3>2. e.type = "run.interrupted" => p.state.runs[e.runId].state # "none"
      BY <2>1 DEF Fits, RunIsRequired
    <3> QED BY <1>4, <3>1, <3>2, ApplyCheckedTyped, EventKeepsLast
  <2>2. CASE ~Fits(p.state, e)
    <3>1. ApplyChecked(p, e).state = p.state
      BY <2>2 DEF ApplyChecked
    <3> QED BY <1>4, <3>1, ApplyCheckedTyped
  <2> QED BY <2>1, <2>2
<1> HIDE DEF m, Memory
<1>5. m1 \in Memory /\ LastRunsExist(m1.state)
  BY <1>1, <1>3, <1>4
<1> HIDE DEF m1
<1>6. m2 \in Memory /\ LastRunsExist(m2.state)
  BY <1>3, <1>4, <1>5
<1> HIDE DEF m2
<1>7. LastRunsExist(m3.state)
  BY <1>3, <1>4, <1>6
<1> QED BY <1>2, <1>7

LastRunInvariant == LastRunsExist(state)

\* In every reachable state the last run of a task is one that was made.
LEMMA LastRunInvariantHolds == Spec => []LastRunInvariant
<1>1. Init => LastRunInvariant
  BY DEF Init, LastRunInvariant, LastRunsExist, EmptyState, NoTask
<1>2. TypeOK /\ SlotInvariant /\ LastRunInvariant /\ [Next]_vars => LastRunInvariant'
  <2> SUFFICES ASSUME TypeOK, SlotInvariant, LastRunInvariant, [Next]_vars
               PROVE  LastRunInvariant'
    OBVIOUS
  <2>1. CASE UNCHANGED vars
    BY <2>1 DEF vars, LastRunInvariant
  <2>2. CASE Next
    <3>1. PICK events : Sound(state, events) /\ Commit(events)
      BY <2>2, NextIsSound
    <3>2. events \in Seq(Events) /\ Len(events) \in 1..3
      BY <3>1 DEF Sound
    <3> QED BY <3>1, <3>2, DecisionKeepsLast DEF LastRunInvariant, TypeOK
  <2> QED BY <2>1, <2>2
<1> QED BY <1>1, <1>2, TypeCorrect, SlotInvariantHolds, PTL DEF Spec

-----------------------------------------------------------------------------
(* A task that works has a run.                                            *)

Works(task) == task.state \in {"running", "pause_requested"}
WorkersRun(s) == \A t \in TaskIds : Works(s.tasks[t]) => s.tasks[t].activeRunId # None

\* An event puts no task to work without a run: a start brings one, and a pause
\* is asked of a task that has one.
LEMMA EventKeepsWorkers ==
    ASSUME NEW s \in ControllerStates, NEW e \in Events, WorkersRun(s),
           e.type = "task.pauseRequested" => s.tasks[e.taskId].activeRunId # None
    PROVE  WorkersRun(Apply(s, e))
<1> DEFINE n == Apply(s, e)
<1>1. e.type \in StartTypes => e.runId \in RunIds
  BY EventTypes DEF Events, CreatedEvents, EnqueuedEvents, StartedEvents, TaskEvents, RunEvents,
         AskedEvents, AnsweredEvents, RevisedEvents, RequestedEvents, ResolvedEvents,
         ConsumedEvents, ReorderedEvents, TaskOnly, TaskAndRun, StartTypes
<1>2. CASE e.type \in TaskTypes
  <2>1. /\ e.taskId \in TaskIds
        /\ \A u \in TaskIds : u # e.taskId => n.tasks[u] = s.tasks[u]
        /\ After(e, s.tasks[e.taskId], n.tasks[e.taskId])
    BY <1>2, TaskEffect
  <2> HIDE DEF n
  <2>2. Works(n.tasks[e.taskId]) => n.tasks[e.taskId].activeRunId # None
    <3> DEFINE before == s.tasks[e.taskId]
               after == n.tasks[e.taskId]
    <3>1. Works(before) => before.activeRunId # None
      BY <2>1 DEF WorkersRun
    <3>2. After(e, before, after)
      BY <2>1
    <3>3. e.type = "task.pauseRequested" => before.activeRunId # None
      OBVIOUS
    <3>4. None \notin RunIds
      BY NoneAssumption
    <3> HIDE DEF before, after
    <3>5. e.type \in StartTypes => after.activeRunId # None
      BY <1>1, <3>2, <3>4 DEF After
    <3>6. e.type \in StopTypes \cup {"task.enqueued"} => ~Works(after)
      BY <3>2 DEF After, StopTypes, Works
    <3>7. e.type \in KeepsState \cup {"task.pauseRequested"} =>
             /\ after.activeRunId = before.activeRunId
             /\ e.type \in KeepsState => after.state = before.state
      BY <3>2 DEF After, StopTypes, StartTypes, KeepsState
    <3>8. \/ e.type \in StartTypes \/ e.type \in StopTypes \cup {"task.enqueued"}
          \/ e.type \in KeepsState \/ e.type = "task.pauseRequested"
      BY <1>2 DEF TaskTypes, TaskIsRequired, StartTypes, StopTypes, KeepsState
    <3>9. Works(after) => after.activeRunId # None
      BY <3>1, <3>3, <3>5, <3>6, <3>7, <3>8 DEF Works
    <3> QED BY <3>9 DEF after
  <2> QED BY <2>1, <2>2 DEF WorkersRun, n
<1>3. CASE e.type \notin TaskTypes
  <2>1. n.tasks = s.tasks
    BY <1>3, OtherFrame
  <2> QED BY <2>1 DEF WorkersRun
<1> QED BY <1>2, <1>3

\* ... and no decision.
LEMMA DecisionKeepsWorkers ==
    ASSUME state \in ControllerStates, NEW events \in Seq(Events), Len(events) \in 1..3,
           Commit(events), AsksARun(state, events), WorkersRun(state)
    PROVE  WorkersRun(state')
<1> DEFINE m == [state |-> state, ok |-> TRUE]
           m1 == ApplyChecked(m, events[1])
           m2 == IF Len(events) < 2 THEN m1 ELSE ApplyChecked(m1, events[2])
           m3 == IF Len(events) < 3 THEN m2 ELSE ApplyChecked(m2, events[3])
           Memory == [state : ControllerStates, ok : BOOLEAN]
<1>1. m \in Memory /\ m.state = state
  OBVIOUS
<1>2. state' = m3.state
  BY FewSteps DEF Commit, LoopOfThree
<1>3. Len(events) \in {1, 2, 3} /\ \A i \in 1..Len(events) : events[i] \in Events
  OBVIOUS
<1>4. ASSUME NEW p \in Memory, NEW e \in Events, WorkersRun(p.state),
             e.type = "task.pauseRequested" => p.state.tasks[e.taskId].activeRunId # None
      PROVE  ApplyChecked(p, e) \in Memory /\ WorkersRun(ApplyChecked(p, e).state)
  <2>1. ApplyChecked(p, e).state \in {p.state, Apply(p.state, e)}
    BY DEF ApplyChecked
  <2> QED BY <1>4, <2>1, ApplyCheckedTyped, EventKeepsWorkers
<1> HIDE DEF m, Memory
<1>5. CASE AsksNoPause(events)
  <2>1. \A i \in 1..Len(events) : events[i].type # "task.pauseRequested"
    BY <1>3, <1>5 DEF AsksNoPause
  <2>2. m1 \in Memory /\ WorkersRun(m1.state)
    BY <1>1, <1>3, <1>4, <2>1
  <2> HIDE DEF m1
  <2>3. m2 \in Memory /\ WorkersRun(m2.state)
    BY <1>3, <1>4, <2>1, <2>2
  <2> HIDE DEF m2
  <2>4. WorkersRun(m3.state)
    BY <1>3, <1>4, <2>1, <2>3
  <2> QED BY <1>2, <2>4
<1>6. ASSUME NEW t \in TaskIds, state.tasks[t].state = "running",
             events = RequestPauseEvents(t)
      PROVE  WorkersRun(state')
  <2>1. events[1].taskId = t /\ Len(events) = 1
    BY <1>6 DEF RequestPauseEvents
  <2>2. state.tasks[t].activeRunId # None
    BY <1>6 DEF WorkersRun, Works
  <2>3. WorkersRun(m1.state)
    BY <1>1, <1>3, <1>4, <2>1, <2>2
  <2> HIDE DEF m1
  <2>4. m3 = m1
    BY <2>1
  <2> QED BY <1>2, <2>3, <2>4
<1> QED BY <1>5, <1>6 DEF AsksARun

WorkerInvariant == WorkersRun(state)

\* In every reachable state a task that works has a run.
LEMMA WorkerInvariantHolds == Spec => []WorkerInvariant
<1>1. Init => WorkerInvariant
  BY DEF Init, WorkerInvariant, WorkersRun, Works, EmptyState, NoTask
<1>2. TypeOK /\ SlotInvariant /\ WorkerInvariant /\ [Next]_vars => WorkerInvariant'
  <2> SUFFICES ASSUME TypeOK, SlotInvariant, WorkerInvariant, [Next]_vars
               PROVE  WorkerInvariant'
    OBVIOUS
  <2>1. CASE UNCHANGED vars
    BY <2>1 DEF vars, WorkerInvariant
  <2>2. CASE Next
    <3>1. PICK events : Sound(state, events) /\ Commit(events) /\ AsksARun(state, events)
      BY <2>2, NextIsSound
    <3>2. events \in Seq(Events) /\ Len(events) \in 1..3
      BY <3>1 DEF Sound
    <3> QED BY <3>1, <3>2, DecisionKeepsWorkers DEF WorkerInvariant, TypeOK
  <2> QED BY <2>1, <2>2
<1> QED BY <1>1, <1>2, TypeCorrect, SlotInvariantHolds, PTL DEF Spec

-----------------------------------------------------------------------------
(* A decision whose events pass, one after the other, does not throw.      *)

\* An event that passes leaves a memory that goes on.
LEMMA CheckedPasses ==
    ASSUME NEW m, m.ok, NEW e, Passes(m.state, e)
    PROVE  ApplyChecked(m, e).ok /\ ApplyChecked(m, e).state = Apply(m.state, e)
<1>1. ApplyChecked(m, e) =
          [state |-> Apply(m.state, e), ok |-> StateInvariants(Apply(m.state, e))]
  BY DEF ApplyChecked, Passes
<1> QED BY <1>1 DEF Passes

\* A decision of one event.
LEMMA AppliedOne ==
    ASSUME NEW e, Commit(<<e>>), Passes(state, e)
    PROVE  ~wedged'
<1> DEFINE m == [state |-> state, ok |-> TRUE]
<1>1. m.ok /\ m.state = state
  OBVIOUS
<1>2. ApplyDecision(m, <<e>>) = ApplyChecked(m, e)
  BY DecisionOfOne
<1>3. wedged' = ~ApplyChecked(m, e).ok
  BY <1>2 DEF Commit
<1> HIDE DEF m
<1> QED BY <1>1, <1>3, CheckedPasses

\* A decision of two events.
LEMMA AppliedTwo ==
    ASSUME NEW e, NEW f, Commit(<<e, f>>), Passes(state, e), Passes(Apply(state, e), f)
    PROVE  ~wedged'
<1> DEFINE m == [state |-> state, ok |-> TRUE]
           m1 == ApplyChecked(m, e)
<1>1. m.ok /\ m.state = state
  OBVIOUS
<1>2. ApplyDecision(m, <<e, f>>) = ApplyChecked(m1, f)
  BY DecisionOfTwo
<1>3. wedged' = ~ApplyChecked(m1, f).ok
  BY <1>2 DEF Commit
<1> HIDE DEF m
<1>4. m1.ok /\ m1.state = Apply(state, e)
  BY <1>1, CheckedPasses
<1> HIDE DEF m1
<1> QED BY <1>3, <1>4, CheckedPasses

\* A decision of three events.
LEMMA AppliedThree ==
    ASSUME NEW e, NEW f, NEW g, Commit(<<e, f, g>>), Passes(state, e),
           Passes(Apply(state, e), f), Passes(Apply(Apply(state, e), f), g)
    PROVE  ~wedged'
<1> DEFINE m == [state |-> state, ok |-> TRUE]
           m1 == ApplyChecked(m, e)
           m2 == ApplyChecked(m1, f)
<1>1. m.ok /\ m.state = state
  OBVIOUS
<1>2. ApplyDecision(m, <<e, f, g>>) = ApplyChecked(m2, g)
  BY DecisionOfThree
<1>3. wedged' = ~ApplyChecked(m2, g).ok
  BY <1>2 DEF Commit
<1> HIDE DEF m
<1>4. m1.ok /\ m1.state = Apply(state, e)
  BY <1>1, CheckedPasses
<1> HIDE DEF m1
<1>5. m2.ok /\ m2.state = Apply(Apply(state, e), f)
  BY <1>4, CheckedPasses
<1> HIDE DEF m2
<1> QED BY <1>3, <1>5, CheckedPasses

-----------------------------------------------------------------------------
(* Every decision but one keeps the assertion.                             *)

\* What holds between two decisions, while nothing has thrown.
Calm == Steady(state) /\ SlotAndQueue(state) /\ Waiting(state) /\ LastRunInvariant

\* A run that is active was made and has not ended.
LEMMA ActiveRunExists ==
    ASSUME NEW s, Steady(s), NEW t \in TaskIds, s.tasks[t].activeRunId # None
    PROVE  /\ s.tasks[t].activeRunId \in RunIds
           /\ s.runs[s.tasks[t].activeRunId].state # "none"
           /\ s.activeTaskId = t
           /\ \A r \in RunIds : s.runs[r].state = "running" => r = s.tasks[t].activeRunId
<1>1. s.tasks[t].activeRunId \in RunIds
  BY TaskFields DEF Steady
<1>2. s.runs[s.tasks[t].activeRunId].state # "none"
  BY <1>1 DEF Steady, StateInvariants
<1>3. s.activeTaskId = t
  BY OnlySlotRuns DEF Steady
<1> QED BY <1>1, <1>2, <1>3, OnlyActiveRuns DEF Steady

\* A task that works owes the user no answer.
LEMMA WorkerOwesNothing ==
    ASSUME NEW s, Steady(s), NEW t \in TaskIds, s.tasks[t].state # "awaiting_user"
    PROVE  OpenQuestions(s, t) = {}
BY DEF Steady, StateInvariants

\* pause, at once and at the safe boundary; the session of a coder
LEMMA WorkerDecisionsPass ==
    ASSUME Calm, NEW t \in TaskIds,
           \/ \E expected : RequestPause(t, expected)
           \/ PauseAtSafeBoundary(t)
           \/ \E r \in RunIds : RecordCoderSession(t, r)
    PROVE  ~wedged'
<1>1. Steady(state)
  BY DEF Calm
<1>2. ASSUME NEW expected, RequestPause(t, expected)
      PROVE  ~wedged'
  <2> DEFINE e == [type |-> "task.pauseRequested", taskId |-> t]
  <2>1. e \in Events
    <3>1. e \in TaskEvents
      BY DEF TaskEvents, TaskOnly
    <3> QED BY <3>1, EventKinds
  <2>2. e.type = "task.pauseRequested" /\ e.taskId = t
    OBVIOUS
  <2>3. Commit(<<e>>) /\ state.tasks[t].state = "running"
    BY <1>2 DEF RequestPause, RequestPauseEvents, CanRequestPause
  <2> HIDE DEF e
  <2> QED BY <1>1, <2>1, <2>2, <2>3, PauseRequestPasses, AppliedOne
<1>3. ASSUME PauseAtSafeBoundary(t)
      PROVE  ~wedged'
  <2> DEFINE r == state.tasks[t].activeRunId
             e == [type |-> "task.paused", taskId |-> t, runId |-> r]
  <2>1. r # None /\ state.tasks[t].state = "pause_requested" /\ Commit(<<e>>)
    BY <1>3 DEF PauseAtSafeBoundary, CanPauseAtSafeBoundary, PauseAtSafeBoundaryEvents
  <2>2. /\ r \in RunIds /\ state.runs[r].state # "none" /\ state.activeTaskId = t
        /\ \A q \in RunIds : state.runs[q].state = "running" => q = r
    BY <1>1, <2>1, ActiveRunExists
  <2>3. e \in Events
    <3>1. e \in RunEvents
      BY <2>2 DEF RunEvents, TaskAndRun
    <3> QED BY <3>1, EventKinds
  <2>4. e.type = "task.paused" /\ e.taskId = t /\ e.runId = r
    OBVIOUS
  <2>5. OpenQuestions(state, t) = {}
    BY <1>1, <2>1, WorkerOwesNothing
  <2> HIDE DEF e, r
  <2>6. Passes(state, e)
    BY <1>1, <2>2, <2>3, <2>4, <2>5, SuspendPasses
  <2> QED BY <2>1, <2>6, AppliedOne
<1>4. ASSUME NEW r \in RunIds, RecordCoderSession(t, r)
      PROVE  ~wedged'
  <2> DEFINE e == [type |-> "coder.sessionBound", taskId |-> t, runId |-> r]
  <2>1. e \in Events
    <3>1. e \in RunEvents
      BY DEF RunEvents, TaskAndRun
    <3> QED BY <3>1, EventKinds
  <2>2. e.type = "coder.sessionBound" /\ e.taskId = t
    OBVIOUS
  <2>3. Commit(<<e>>) /\ state.activeTaskId = t
    BY <1>4 DEF RecordCoderSession, CanRecordCoderSession, RecordCoderSessionEvents, IsActive
  <2> HIDE DEF e
  <2>4. state.tasks[t].state # "none"
    BY <1>1, <2>3 DEF Steady, SlotDiscipline, LiveStates
  <2>5. Fits(state, e) /\ e.type \in QuietTypes
    BY <2>2, <2>4 DEF Fits, QuietTypes, RunIsRequired
  <2> QED BY <1>1, <2>1, <2>3, <2>5, QuietPasses, AppliedOne
<1> QED BY <1>2, <1>3, <1>4

\* A suspended task goes on, after an event that is not about its state.
LEMMA QuietThenResumePasses ==
    ASSUME Calm, NEW t \in TaskIds, Resumable(state, t), RunLeft(state),
           NEW e \in Events, e.type \in QuietTypes, Fits(state, e),
           OpenQuestions(Apply(state, e), t) = {},
           Commit(<<e, ResumeEvent(state, t)>>)
    PROVE  ~wedged'
<1> DEFINE s1 == Apply(state, e)
           f == ResumeEvent(state, t)
<1>1. state \in ControllerStates /\ Steady(state) /\ SlotDiscipline(state)
  BY DEF Calm, Steady
<1>2. f \in Events
  BY <1>1, StartAndResumeTyped
<1>3. /\ f.type = "task.resumed" /\ f.taskId = t /\ f.runId \in RunIds
      /\ f.revision = state.tasks[t].revision /\ state.runs[f.runId].state = "none"
  BY NewIds DEF ResumeEvent
<1>4. Passes(state, e) /\ Steady(s1)
  BY <1>1, QuietPasses
<1>5. NoRunRunning(state) /\ state.activeTaskId = t /\ state.tasks[t].state # "none"
  BY <1>1, NobodyRuns DEF Resumable, IsActive
<1>6. /\ s1.activeTaskId = t /\ s1.runs = state.runs
      /\ s1.tasks[t].revision = state.tasks[t].revision
      /\ s1.tasks[t].state = state.tasks[t].state
  BY <1>1, <1>5, QuietEventKeeps
<1> HIDE DEF s1, f
<1>7. NoRunRunning(s1)
  BY <1>5, <1>6 DEF NoRunRunning
<1>8. OpenQuestions(s1, t) = {}
  BY DEF s1
<1>9. Passes(s1, f)
  BY <1>2, <1>3, <1>4, <1>5, <1>6, <1>7, <1>8, StartPasses DEF StartTypes
<1> QED BY <1>4, <1>9, AppliedTwo DEF s1, f

\* task.resume looks for the open question itself.
LEMMA ResumePasses ==
    ASSUME Calm, NEW t \in TaskIds, NEW expected, Resume(t, expected)
    PROVE  ~wedged'
<1>1. state \in ControllerStates /\ Steady(state) /\ SlotDiscipline(state)
  BY DEF Calm, Steady
<1>2. Resumable(state, t) /\ RunLeft(state) /\ OpenQuestions(state, t) = {}
  BY DEF Resume, CanResume
<1>3. CASE state.tasks[t].conflict
  <2> DEFINE e == [type |-> "workspace.conflictResolved", taskId |-> t]
  <2>1. e \in Events
    <3>1. e \in TaskEvents
      BY DEF TaskEvents, TaskOnly
    <3> QED BY <3>1, EventKinds
  <2>2. e.type = "workspace.conflictResolved" /\ e.taskId = t
    OBVIOUS
  <2>3. Commit(<<e, ResumeEvent(state, t)>>)
    BY <1>3 DEF Resume, ResumeEvents
  <2> HIDE DEF e
  <2>4. state.tasks[t].state # "none"
    BY <1>2 DEF Resumable
  <2>5. Fits(state, e) /\ e.type \in QuietTypes
    BY <2>2, <2>4 DEF Fits, QuietTypes, RunIsRequired
  <2>6. Apply(state, e).questions = state.questions
    BY <1>1, <2>1, <2>2, TaskEffect DEF TaskTypes, TaskIsRequired, QuestionTypes
  <2>7. OpenQuestions(Apply(state, e), t) = {}
    BY <1>2, <2>6, NothingAsked
  <2> QED BY <1>2, <2>1, <2>3, <2>5, <2>7, QuietThenResumePasses
<1>4. CASE ~state.tasks[t].conflict
  <2> DEFINE f == ResumeEvent(state, t)
  <2>1. f \in Events /\ Commit(<<f>>)
    BY <1>1, <1>2, <1>4, StartAndResumeTyped DEF Resume, ResumeEvents
  <2>2. /\ f.type = "task.resumed" /\ f.taskId = t /\ f.runId \in RunIds
        /\ f.revision = state.tasks[t].revision /\ state.runs[f.runId].state = "none"
    BY <1>2, NewIds DEF ResumeEvent
  <2>3. NoRunRunning(state) /\ state.activeTaskId = t /\ state.tasks[t].state # "none"
    BY <1>1, <1>2, NobodyRuns DEF Resumable, IsActive
  <2> HIDE DEF f
  <2>4. Passes(state, f)
    BY <1>1, <1>2, <2>1, <2>2, <2>3, StartPasses DEF StartTypes
  <2> QED BY <2>1, <2>4, AppliedOne
<1> QED BY <1>3, <1>4

\* task.answerQuestion closes the one open question of the task.
LEMMA AnswerPasses ==
    ASSUME Calm, NEW t \in TaskIds, NEW q \in QuestionIds, NEW expected,
           AnswerQuestion(t, q, expected)
    PROVE  ~wedged'
<1> DEFINE e == [type |-> "task.questionAnswered", taskId |-> t, questionId |-> q]
<1>1. state \in ControllerStates /\ Steady(state) /\ SlotDiscipline(state)
  BY DEF Calm, Steady
<1>2. /\ IsActive(state, t) /\ state.tasks[t].state = "awaiting_user" /\ RunLeft(state)
      /\ state.questions[q].taskId = t /\ state.questions[q].state = "open"
  BY DEF AnswerQuestion, CanAnswerQuestion
<1>3. e \in Events
  <2>1. e \in AnsweredEvents
    BY DEF AnsweredEvents
  <2> QED BY <2>1, EventKinds
<1>4. e.type = "task.questionAnswered" /\ e.taskId = t /\ e.questionId = q
  OBVIOUS
<1>5. Commit(<<e, ResumeEvent(state, t)>>)
  BY DEF AnswerQuestion, AnswerQuestionEvents
<1> HIDE DEF e
<1>6. Fits(state, e) /\ e.type \in QuietTypes
  BY <1>2, <1>4 DEF Fits, QuietTypes, RunIsRequired, TaskIsRequired
<1>7. \A p \in QuestionIds : Apply(state, e).questions[p].state = "open" =>
          Apply(state, e).questions[p] = state.questions[p] /\ p # q
  BY <1>1, <1>3, <1>4, QuestionFrame
<1>8. \A p \in OpenQuestions(state, t) : p = q
  BY <1>1, <1>2 DEF Steady, StateInvariants, OpenQuestions
<1>9. OpenQuestions(Apply(state, e), t) = {}
  BY <1>7, <1>8 DEF OpenQuestions
<1>10. Resumable(state, t)
  BY <1>2 DEF Resumable
<1> QED BY <1>2, <1>3, <1>5, <1>6, <1>9, <1>10, QuietThenResumePasses

\* task.revise supersedes the open question.
LEMMA RevisionPasses ==
    ASSUME Calm, NEW t \in TaskIds, NEW expected, NEW profile \in Profiles,
           Revise(t, expected, profile)
    PROVE  ~wedged'
<1> DEFINE e == [type |-> "task.specRevised", taskId |-> t, profile |-> profile,
                 revision |-> state.tasks[t].revision + 1]
<1>1. state \in ControllerStates /\ Steady(state) /\ SlotDiscipline(state)
  BY DEF Calm, Steady
<1>2. Resumable(state, t) /\ Commit(<<e>>)
  BY DEF Revise, CanRevise, ReviseEvents
<1>3. e \in Events
  <2>1. e \in RevisedEvents
    BY <1>1, TaskFields DEF RevisedEvents
  <2> QED BY <2>1, EventKinds
<1>4. e.type = "task.specRevised" /\ e.taskId = t
  OBVIOUS
<1> HIDE DEF e
<1>5. NoRunRunning(state) /\ state.tasks[t].state # "none"
  BY <1>1, <1>2, NobodyRuns DEF Resumable, IsActive
<1> QED BY <1>1, <1>2, <1>3, <1>4, <1>5, RevisePasses, AppliedOne

\* A working task is suspended, after an event that is not about its state.
LEMMA QuietThenAwaitPasses ==
    ASSUME Calm, NEW t \in TaskIds, InRun(state, t),
           NEW e \in Events, e.type \in QuietTypes \ {"task.questionAnswered"}, Fits(state, e),
           Commit(<<e, AwaitEvent(state, t)>>)
    PROVE  ~wedged'
<1> DEFINE s1 == Apply(state, e)
           r == state.tasks[t].activeRunId
           f == AwaitEvent(state, t)
<1>1. state \in ControllerStates /\ Steady(state) /\ SlotDiscipline(state)
  BY DEF Calm, Steady
<1>2. state.tasks[t].state = "running" /\ r # None
  BY DEF InRun
<1>3. f \in Events
  BY <1>1, <1>2, AwaitTyped
<1>4. f.type = "task.awaitingUser" /\ f.taskId = t /\ f.runId = r
  BY DEF AwaitEvent
<1>5. /\ r \in RunIds /\ state.runs[r].state # "none" /\ state.activeTaskId = t
      /\ \A q \in RunIds : state.runs[q].state = "running" => q = r
  BY <1>1, <1>2, ActiveRunExists
<1>6. Passes(state, e) /\ Steady(s1)
  BY <1>1, QuietPasses
<1>7. /\ s1.activeTaskId = t /\ s1.runs = state.runs
      /\ s1.tasks[t].state = state.tasks[t].state
  BY <1>1, <1>5, QuietEventKeeps
<1> HIDE DEF s1, f, r
<1>8. OpenQuestions(s1, t) = {}
  BY <1>2, <1>6, <1>7, WorkerOwesNothing
<1>9. Passes(s1, f)
  BY <1>3, <1>4, <1>5, <1>6, <1>7, <1>8, SuspendPasses
<1> QED BY <1>6, <1>9, AppliedTwo DEF s1, f

\* authorizeToolCall: an approved card is consumed, or a new card is made
LEMMA AuthorizePasses ==
    ASSUME Calm, NEW t \in TaskIds, NEW fingerprint \in Fingerprints,
           \/ RequestApproval(t, fingerprint)
           \/ \E c \in ConfirmationIds : ConsumeApproval(t, c, fingerprint)
    PROVE  ~wedged'
<1>1. state \in ControllerStates /\ Steady(state)
  BY DEF Calm, Steady
<1>2. ASSUME NEW c \in ConfirmationIds, ConsumeApproval(t, c, fingerprint)
      PROVE  ~wedged'
  <2> DEFINE e == [type |-> "approval.consumed", confirmationId |-> c]
  <2>1. e \in Events
    <3>1. e \in ConsumedEvents
      BY DEF ConsumedEvents
    <3> QED BY <3>1, EventKinds
  <2>2. e.type = "approval.consumed" /\ e.confirmationId = c
    OBVIOUS
  <2>3. Commit(<<e>>) /\ state.confirmations[c].state = "approved"
    BY <1>2 DEF ConsumeApproval, CanConsumeApproval, ConsumeApprovalEvents, Confirmations
  <2> HIDE DEF e
  <2>4. Fits(state, e) /\ e.type \in QuietTypes
    BY <2>2, <2>3 DEF Fits, QuietTypes, RunIsRequired, TaskIsRequired
  <2> QED BY <1>1, <2>1, <2>3, <2>4, QuietPasses, AppliedOne
<1>3. ASSUME RequestApproval(t, fingerprint)
      PROVE  ~wedged'
  <2> DEFINE c == NewConfirmation(state)
             e == [type |-> "approval.requested", taskId |-> t, confirmationId |-> c,
                   revision |-> state.tasks[t].revision, fingerprint |-> fingerprint]
  <2>1. c \in ConfirmationIds /\ state.confirmations[c].state = "none" /\ InRun(state, t)
    BY <1>3, NewIds DEF RequestApproval, CanRequestApproval
  <2>2. e \in Events
    <3>1. e \in RequestedEvents
      BY <1>1, <2>1, TaskFields DEF RequestedEvents
    <3> QED BY <3>1, EventKinds
  <2>3. e.type = "approval.requested" /\ e.confirmationId = c
    OBVIOUS
  <2>4. Commit(<<e, AwaitEvent(state, t)>>)
    BY <1>3 DEF RequestApproval, RequestApprovalEvents
  <2> HIDE DEF e, c
  <2>5. Fits(state, e) /\ e.type \in QuietTypes \ {"task.questionAnswered"}
    BY <2>1, <2>3 DEF Fits, QuietTypes, RunIsRequired, TaskIsRequired
  <2> QED BY <2>1, <2>2, <2>4, <2>5, QuietThenAwaitPasses
<1> QED BY <1>2, <1>3

\* workspace conflict reported by the coder
LEMMA ConflictPasses ==
    ASSUME Calm, NEW t \in TaskIds, ReportWorkspaceConflict(t)
    PROVE  ~wedged'
<1> DEFINE e == [type |-> "workspace.conflictDetected", taskId |-> t]
<1>1. InRun(state, t) /\ Commit(<<e, AwaitEvent(state, t)>>)
  BY DEF ReportWorkspaceConflict, CanReportWorkspaceConflict, ReportWorkspaceConflictEvents
<1>2. e \in Events
  <2>1. e \in TaskEvents
    BY DEF TaskEvents, TaskOnly
  <2> QED BY <2>1, EventKinds
<1>3. e.type = "workspace.conflictDetected" /\ e.taskId = t
  OBVIOUS
<1> HIDE DEF e
<1>4. Fits(state, e) /\ e.type \in QuietTypes \ {"task.questionAnswered"}
  BY <1>1, <1>3 DEF Fits, QuietTypes, RunIsRequired, InRun
<1> QED BY <1>1, <1>2, <1>4, QuietThenAwaitPasses

\* awaitUserInput: the question is the first open one of the task
LEMMA AwaitUserInputPasses ==
    ASSUME Calm, NEW t \in TaskIds, NEW q \in QuestionIds, AwaitUserInput(t, q)
    PROVE  ~wedged'
<1> DEFINE r == state.tasks[t].activeRunId
           e == [type |-> "task.questionAsked", taskId |-> t, questionId |-> q,
                 runId |-> r, revision |-> state.tasks[t].revision]
<1>1. state \in ControllerStates /\ Steady(state)
  BY DEF Calm, Steady
<1>2. /\ r # None /\ OpenQuestions(state, t) = {} /\ Commit(<<e>>)
      /\ state.questions[q].state = "none"
  BY DEF AwaitUserInput, CanAwaitUserInput, AwaitUserInputEvents, InRun
<1>3. /\ r \in RunIds /\ state.runs[r].state # "none" /\ state.activeTaskId = t
      /\ \A p \in RunIds : state.runs[p].state = "running" => p = r
  BY <1>1, <1>2, ActiveRunExists
<1>4. e \in Events
  <2>1. e \in AskedEvents
    BY <1>1, <1>3, TaskFields DEF AskedEvents
  <2> QED BY <2>1, EventKinds
<1>5. e.type = "task.questionAsked" /\ e.taskId = t /\ e.runId = r /\ e.questionId = q
  OBVIOUS
<1> HIDE DEF e, r
<1>6. Passes(state, e)
  BY <1>1, <1>2, <1>3, <1>4, <1>5, AskPasses
<1> QED BY <1>2, <1>6, AppliedOne

\* Taking a task out of the slot and the queue leaves the runs alone.
LEMMA RetireLeavesRuns ==
    ASSUME NEW s \in ControllerStates, NEW t \in TaskIds, NEW x \in TerminalStates
    PROVE  Retire(s, t, x).runs = s.runs
<1> DEFINE s1 == SetTask(s, t, Ended(s.tasks[t], x))
<1>1. Retire(s, t, x) = [s1 EXCEPT !.queue = RemoveFromQueue(s.queue, t),
                                   !.activeTaskId = IF @ = t THEN None ELSE @]
  BY DEF Retire, Ended
<1>2. Shape(s1) /\ s1.runs = s.runs
  BY StatesHaveShape, SetTaskFrame DEF SetTask, Shape
<1> HIDE DEF s1
<1> QED BY <1>1, <1>2 DEF Shape

\* Ending a task makes no run.
LEMMA EndMakesNoRun ==
    ASSUME NEW s \in ControllerStates, NEW e \in Events, e.type \in EndTypes, Fits(s, e),
           NEW q \in RunIds, s.runs[q].state = "none"
    PROVE  Apply(s, e).runs[q].state = "none"
<1>1. e.taskId \in TaskIds
  BY EventTypes DEF EndTypes, TaskTypes, TaskIsRequired
<1>2. ASSUME NEW r \in RunIds, s.runs[r].state # "none", NEW x \in {"completed", "failed", "cancelled"}
      PROVE  Retire(EndRun(s, r, x), e.taskId, x).runs[q].state = "none"
  <2>1. EndRun(s, r, x) \in ControllerStates
    BY <1>2, EndRunTyped DEF RunStates
  <2>2. Retire(EndRun(s, r, x), e.taskId, x).runs = EndRun(s, r, x).runs
    BY <1>1, <2>1, RetireLeavesRuns DEF TerminalStates
  <2>3. EndRun(s, r, x).runs[q].state = s.runs[q].state
    BY <1>2, EndRunRuns DEF RunStates
  <2> QED BY <2>2, <2>3
<1>3. CASE e.type \in {"task.completed", "task.failed"}
  <2>1. e.runId \in RunIds /\ s.runs[e.runId].state # "none"
    BY <1>3 DEF Fits, RunIsRequired, Events, CreatedEvents, EnqueuedEvents, StartedEvents,
           TaskEvents, RunEvents, AskedEvents, AnsweredEvents, RevisedEvents, RequestedEvents,
           ResolvedEvents, ConsumedEvents, ReorderedEvents, TaskOnly, TaskAndRun
  <2>2. \E x \in {"completed", "failed"} :
           Apply(s, e) = Retire(EndRun(s, e.runId, x), e.taskId, x)
    BY <1>3, ApplyCases DEF TaskCompleted, TaskFailed
  <2> QED BY <1>2, <2>1, <2>2
<1>4. CASE e.type = "task.cancelled"
  <2> DEFINE r == s.tasks[e.taskId].activeRunId
  <2>1. Apply(s, e) = Retire(IF r = None THEN s ELSE EndRun(s, r, "cancelled"), e.taskId, "cancelled")
    BY <1>4, ApplyCases DEF TaskCancelled
  <2>2. r \in RunIds \cup {None} /\ (r # None => s.runs[r].state # "none")
    BY <1>1, <1>4, TaskFields DEF Fits
  <2> HIDE DEF r
  <2>3. CASE r = None
    <3>1. Apply(s, e) = Retire(s, e.taskId, "cancelled")
      BY <2>1, <2>3
    <3>2. Apply(s, e).runs = s.runs
      BY <1>1, <3>1, RetireLeavesRuns DEF TerminalStates
    <3> QED BY <3>2
  <2>4. CASE r # None
    <3>1. Apply(s, e) = Retire(EndRun(s, r, "cancelled"), e.taskId, "cancelled")
      BY <2>1, <2>4
    <3> QED BY <1>2, <2>2, <2>4, <3>1
  <2> QED BY <2>3, <2>4
<1> QED BY <1>3, <1>4 DEF EndTypes

\* The slot is freed and handed to the task at the head of the queue.
LEMMA HandoffPasses ==
    ASSUME Calm, NEW e \in Events, e.type \in EndTypes, state.activeTaskId = e.taskId,
           Passes(state, e), Steady(Apply(state, e)), NoRunRunning(Apply(state, e)),
           Apply(state, e).activeTaskId = None,
           state.queue # <<>> => RunLeft(state), Commit(AndStartNext(state, e))
    PROVE  ~wedged'
<1>1. state \in ControllerStates /\ Steady(state) /\ SlotDiscipline(state)
  BY DEF Calm, Steady
<1>2. CASE state.queue = <<>>
  BY <1>2, AppliedOne DEF AndStartNext
<1>3. CASE state.queue # <<>>
  <2> DEFINE s1 == Apply(state, e)
             head == Head(state.queue)
             f == StartEvent(state, head)
  <2>1. head \in TaskIds /\ 1 \in DOMAIN state.queue /\ state.queue[1] = head
    BY <1>1, <1>3, FieldsTyped
  <2>2. state.tasks[head].state = "queued"
    BY <1>1, <2>1 DEF Steady, StateInvariants
  <2>3. f \in Events
    BY <1>1, <1>3, <2>1, StartAndResumeTyped
  <2>4. /\ f.type = "task.started" /\ f.taskId = head /\ f.runId \in RunIds
        /\ f.revision = state.tasks[head].revision /\ state.runs[f.runId].state = "none"
    BY <1>3, NewIds DEF StartEvent
  <2>5. Commit(<<e, f>>)
    BY <1>3 DEF AndStartNext
  <2> HIDE DEF f, head, s1
  <2>6. /\ e.taskId \in TaskIds /\ \A u \in TaskIds : u # e.taskId => s1.tasks[u] = state.tasks[u]
        /\ s1.questions = state.questions
    BY <1>1, TaskEffect DEF EndTypes, TaskTypes, TaskIsRequired, QuestionTypes, s1
  <2>7. head # e.taskId
    BY <1>1, <2>2, <2>6 DEF SlotDiscipline, LiveStates
  <2>8. OpenQuestions(s1, head) = {}
    BY <1>1, <2>1, <2>2, <2>6, WorkerOwesNothing, NothingAsked
  <2>9. s1.runs[f.runId].state = "none"
    BY <1>1, <2>4, EndMakesNoRun DEF Passes, s1
  <2>10. Passes(s1, f)
    BY <2>1, <2>2, <2>3, <2>4, <2>6, <2>7, <2>8, <2>9, StartPasses DEF StartTypes, s1
  <2> QED BY <2>5, <2>10, AppliedTwo DEF s1
<1> QED BY <1>2, <1>3

\* completeTask and failTask
LEMMA FinishDecisionsPass ==
    ASSUME Calm, NEW t \in TaskIds, CompleteTask(t) \/ FailTask(t)
    PROVE  ~wedged'
<1> DEFINE r == state.tasks[t].activeRunId
<1>1. state \in ControllerStates /\ Steady(state)
  BY DEF Calm, Steady
<1>2. /\ r # None /\ state.tasks[t].state \in {"running", "pause_requested"}
      /\ state.queue # <<>> => RunLeft(state)
  BY DEF CompleteTask, FailTask, CanFinish
<1>3. /\ r \in RunIds /\ state.runs[r].state # "none" /\ state.activeTaskId = t
      /\ \A q \in RunIds : state.runs[q].state = "running" => q = r
  BY <1>1, <1>2, ActiveRunExists
<1>4. OpenQuestions(state, t) = {}
  BY <1>1, <1>2, WorkerOwesNothing
<1>5. PICK type \in {"task.completed", "task.failed"} :
         Commit(AndStartNext(state, [type |-> type, taskId |-> t, runId |-> r]))
  BY DEF CompleteTask, FailTask, CompleteEvents, FailEvents
<1> DEFINE e == [type |-> type, taskId |-> t, runId |-> r]
<1>6. e \in Events
  <2>1. e \in RunEvents
    BY <1>3 DEF RunEvents, TaskAndRun
  <2> QED BY <2>1, EventKinds
<1>7. e.type \in {"task.completed", "task.failed"} /\ e.taskId = t /\ e.runId = r
  OBVIOUS
<1> HIDE DEF e, r
<1>8. /\ Passes(state, e) /\ Steady(Apply(state, e)) /\ NoRunRunning(Apply(state, e))
      /\ Apply(state, e).activeTaskId = None
  BY <1>1, <1>3, <1>4, <1>6, <1>7, FinishPasses
<1> QED BY <1>2, <1>3, <1>5, <1>6, <1>7, <1>8, HandoffPasses DEF EndTypes, e

\* recoverAfterRestart interrupts the run and pauses its task.
LEMMA RecoverPasses ==
    ASSUME Calm, RecoverAfterRestart
    PROVE  ~wedged'
<1> DEFINE t == state.activeTaskId
           r == state.tasks[t].activeRunId
           e == [type |-> "run.interrupted", taskId |-> t, runId |-> r]
           b == [type |-> "coder.recoveryBoundary", taskId |-> t, runId |-> r]
           f == [type |-> "task.paused", taskId |-> t, runId |-> r]
           s1 == Apply(state, e)
           s2 == Apply(s1, b)
<1>1. state \in ControllerStates /\ Steady(state)
  BY DEF Calm, Steady
<1>2. /\ t \in TaskIds /\ r # None
      /\ state.tasks[t].state \in {"running", "pause_requested"}
  BY <1>1, FieldsTyped DEF RecoverAfterRestart, CanRecover
<1>3. r \in RunIds
  BY <1>1, <1>2, TaskFields
<1>4. e \in RunEvents /\ b \in RunEvents /\ f \in RunEvents
  BY <1>2, <1>3 DEF RunEvents, TaskAndRun
<1>5. /\ e.type = "run.interrupted" /\ e.runId = r
      /\ b.type = "coder.recoveryBoundary" /\ b.taskId = t
      /\ f.type = "task.paused" /\ f.taskId = t /\ f.runId = r
  OBVIOUS
<1>6. Commit(<<e, f>>) \/ Commit(<<e, b, f>>)
  BY DEF RecoverAfterRestart, RecoverEvents
<1> HIDE DEF e, b, f
<1>7. e \in Events /\ b \in Events /\ f \in Events
  BY <1>4, EventKinds
<1>8. /\ Passes(state, e) /\ Steady(s1) /\ NoRunRunning(s1) /\ s1.activeTaskId = t
      /\ s1.runs[r].state = "interrupted"
      /\ s1.tasks = state.tasks /\ s1.questions = state.questions
  BY <1>1, <1>2, <1>3, <1>5, <1>7, InterruptPasses
<1> HIDE DEF s1, t, r
<1>9. ASSUME NEW s, Steady(s), NoRunRunning(s), s.activeTaskId = t,
             s.runs[r].state = "interrupted", s.tasks[t].state \in {"running", "pause_requested"}
      PROVE  Passes(s, f)
  <2>1. OpenQuestions(s, t) = {}
    BY <1>2, <1>9, WorkerOwesNothing
  <2>2. \A q \in RunIds : s.runs[q].state = "running" => q = r
    BY <1>9 DEF NoRunRunning
  <2> QED BY <1>3, <1>5, <1>7, <1>9, <2>1, <2>2, SuspendPasses
<1>10. CASE Commit(<<e, f>>)
  <2>1. Passes(s1, f)
    BY <1>2, <1>8, <1>9
  <2> QED BY <1>8, <1>10, <2>1, AppliedTwo DEF s1
<1>11. CASE Commit(<<e, b, f>>)
  <2>1. Fits(s1, b) /\ b.type \in QuietTypes
    BY <1>2, <1>5, <1>8 DEF Fits, QuietTypes, RunIsRequired
  <2>2. Passes(s1, b) /\ Steady(s2)
    BY <1>7, <1>8, <2>1, QuietPasses
  <2>3. /\ s2.activeTaskId = t /\ s2.runs = s1.runs
        /\ s2.tasks[t].state = s1.tasks[t].state
    BY <1>2, <1>7, <1>8, <2>1, QuietEventKeeps DEF Steady
  <2> HIDE DEF s2
  <2>4. NoRunRunning(s2)
    BY <1>8, <2>3 DEF NoRunRunning
  <2>5. Passes(s2, f)
    BY <1>2, <1>8, <1>9, <2>2, <2>3, <2>4
  <2> QED BY <1>8, <1>11, <2>2, <2>5, AppliedThree DEF s1, s2
<1> QED BY <1>6, <1>10, <1>11

\* approval.resolve does not look for open questions: a task that waits for a
\* card has none.
LEMMA ResolvePasses ==
    ASSUME Calm, NEW c \in ConfirmationIds, NEW decision \in {"approve", "reject"},
           NEW expected, ResolveApproval(c, decision, expected)
    PROVE  ~wedged'
<1> DEFINE card == state.confirmations[c]
           t == card.taskId
           e == [type |-> "approval.resolved", confirmationId |-> c, decision |-> decision]
           s1 == Apply(state, e)
<1>1. /\ state \in ControllerStates /\ Steady(state) /\ SlotDiscipline(state)
      /\ Interrupts(state)
  BY DEF Calm, Steady, Waiting
<1>2. /\ card.state = "pending" /\ card.taskRevision = state.tasks[t].revision
      /\ state.tasks[t].state = "awaiting_user" /\ state.activeTaskId = t
      /\ decision = "approve" => RunLeft(state)
      /\ decision # "approve" => state.tasks[t].lastRunId # None
  BY DEF ResolveApproval, CanResolveApproval, IsActive
<1>3. t \in TaskIds
  BY <1>1, <1>2 DEF Interrupts, CardBelongs
<1>4. OpenQuestions(state, t) = {}
  <2>1. c \in PendingConfirmations(state, t)
    BY <1>2 DEF PendingConfirmations
  <2>2. WaitsForOne(state, t)
    BY <1>1, <1>2, <1>3 DEF Interrupts, LiveStates
  <2> QED BY <2>1, <2>2 DEF WaitsForOne
<1>5. e \in Events
  <2>1. e \in ResolvedEvents
    BY DEF ResolvedEvents
  <2> QED BY <2>1, EventKinds
<1>6. e.type = "approval.resolved" /\ e.confirmationId = c
  OBVIOUS
<1>7. Commit(<<e, IF decision = "approve" THEN ResumeEvent(state, t)
                  ELSE [type |-> "task.paused", taskId |-> t,
                        runId |-> state.tasks[t].lastRunId]>>)
  BY DEF ResolveApproval, ResolveApprovalEvents
<1> HIDE DEF e
<1>8. Fits(state, e) /\ e.type \in QuietTypes
  BY <1>2, <1>6 DEF Fits, QuietTypes, RunIsRequired, TaskIsRequired
<1>9. s1.questions = state.questions /\ s1.tasks = state.tasks
  BY <1>1, <1>5, <1>6, OtherFrame DEF TaskTypes, TaskIsRequired
<1>10. OpenQuestions(s1, t) = {}
  BY <1>4, <1>9, NothingAsked
<1>11. CASE decision = "approve"
  <2>1. Commit(<<e, ResumeEvent(state, t)>>)
    BY <1>7, <1>11
  <2>2. Resumable(state, t)
    BY <1>2 DEF Resumable, IsActive
  <2> QED BY <1>2, <1>3, <1>5, <1>8, <1>10, <1>11, <2>1, <2>2, QuietThenResumePasses
<1>12. CASE decision # "approve"
  <2> DEFINE r == state.tasks[t].lastRunId
             f == [type |-> "task.paused", taskId |-> t, runId |-> r]
  <2>1. Commit(<<e, f>>)
    BY <1>7, <1>12
  <2>2. r \in RunIds /\ state.runs[r].state # "none"
    BY <1>1, <1>2, <1>3, <1>12, TaskFields DEF Calm, LastRunInvariant, LastRunsExist
  <2>3. f \in Events
    <3>1. f \in RunEvents
      BY <1>3, <2>2 DEF RunEvents, TaskAndRun
    <3> QED BY <3>1, EventKinds
  <2>4. f.type = "task.paused" /\ f.taskId = t /\ f.runId = r
    OBVIOUS
  <2>5. Passes(state, e) /\ Steady(s1)
    BY <1>1, <1>5, <1>8, QuietPasses
  <2>6. s1.activeTaskId = t /\ s1.runs = state.runs
    BY <1>1, <1>2, <1>5, <1>8, QuietEventKeeps
  <2>7. NoRunRunning(state)
    BY <1>1, <1>2, NobodyRuns
  <2> HIDE DEF f, s1, r, t
  <2>8. \A q \in RunIds : s1.runs[q].state = "running" => q = r
    BY <2>6, <2>7 DEF NoRunRunning
  <2>9. Passes(s1, f)
    BY <1>10, <2>2, <2>3, <2>4, <2>5, <2>6, <2>8, SuspendPasses
  <2> QED BY <2>1, <2>5, <2>9, AppliedTwo DEF s1
<1> QED BY <1>11, <1>12

\* A move leaves every task once in the queue, and brings nobody in.
LEMMA MovedSingle ==
    ASSUME NEW s \in ControllerStates, Single(s.queue), NEW t \in TaskIds,
           NEW operation \in MoveOperations, NEW anchor, CanMoveQueue(s, t, operation, anchor)
    PROVE  /\ Single(Moved(s, t, operation, anchor))
           /\ \A i \in DOMAIN Moved(s, t, operation, anchor) :
                 InQueue(s.queue, Moved(s, t, operation, anchor)[i])
<1> DEFINE rest == RemoveFromQueue(s.queue, t)
           index == CHOOSE i \in DOMAIN rest : rest[i] = anchor
           moved == Moved(s, t, operation, anchor)
<1>1. /\ s.queue \in Seq(TaskIds) /\ InQueue(s.queue, t)
      /\ operation \in {"move_before", "move_after"} => anchor # t /\ InQueue(s.queue, anchor)
  BY FieldsTyped DEF CanMoveQueue, Contains, InQueue
<1>2. /\ rest \in Seq(TaskIds) /\ Single(rest) /\ ~InQueue(rest, t)
      /\ \A i \in DOMAIN rest : InQueue(s.queue, rest[i])
  <2>1. rest \in Seq(TaskIds) /\ \A i \in DOMAIN rest : \E j \in DOMAIN s.queue : rest[i] = s.queue[j]
    BY <1>1, RemoveFromQueueProperties
  <2>2. Single(rest) /\ ~InQueue(rest, t)
    BY <1>1, RemovedSingle
  <2> HIDE DEF rest
  <2> QED BY <2>1, <2>2 DEF InQueue
<1>3. /\ operation = "move_first" => moved = <<t>> \o rest
      /\ operation = "move_last" => moved = rest \o <<t>>
      /\ operation = "move_before" => moved = InsertAt(rest, index, t)
      /\ operation = "move_after" => moved = InsertAt(rest, index + 1, t)
  BY DEF Moved
<1>4. operation \in {"move_before", "move_after"} => index \in DOMAIN rest
  <2> SUFFICES ASSUME operation \in {"move_before", "move_after"}
               PROVE  \E i \in DOMAIN rest : rest[i] = anchor
    OBVIOUS
  <2>1. PICK i \in DOMAIN s.queue : s.queue[i] = anchor /\ anchor # t
    BY <1>1 DEF InQueue
  <2>2. \E j \in DOMAIN rest : rest[j] = s.queue[i]
    BY <1>1, <2>1, RemoveFromQueueProperties
  <2> QED BY <2>1, <2>2
<1> HIDE DEF rest, index, moved
<1>5. /\ Single(moved)
      /\ \A i \in DOMAIN moved : moved[i] = t \/ \E k \in DOMAIN rest : moved[i] = rest[k]
  <2>1. CASE operation \in {"move_first", "move_last"}
    <3>1. \A n \in {<<t>> \o rest, rest \o <<t>>} :
             /\ Single(n)
             /\ \A j \in DOMAIN n : n[j] = t \/ \E k \in DOMAIN rest : n[j] = rest[k]
      BY <1>2, EndsSingle
    <3>2. moved \in {<<t>> \o rest, rest \o <<t>>}
      BY <1>3, <2>1
    <3> QED BY <3>1, <3>2
  <2>2. CASE operation \in {"move_before", "move_after"}
    <3>1. PICK k \in {index, index + 1} : moved = InsertAt(rest, k, t)
      BY <1>3, <2>2
    <3>2. k \in 1..(Len(rest) + 1)
      BY <1>2, <1>4, <2>2
    <3> QED BY <1>2, <3>1, <3>2, InsertedSingle
  <2> QED BY <2>1, <2>2 DEF MoveOperations
<1> QED BY <1>1, <1>2, <1>5 DEF moved

\* queue.move
LEMMA MoveQueuePasses ==
    ASSUME Calm, NEW t \in TaskIds, NEW operation \in MoveOperations,
           NEW anchor \in TaskIds \cup {None}, MoveQueue(t, operation, anchor)
    PROVE  ~wedged'
<1> DEFINE moved == Moved(state, t, operation, anchor)
           e == [type |-> "queue.reordered", taskId |-> t, taskIds |-> moved]
<1>1. /\ state \in ControllerStates /\ Steady(state)
      /\ CanMoveQueue(state, t, operation, anchor)
  BY DEF Calm, Steady, MoveQueue
<1>2. MoveQueueEvents(state, t, operation, anchor) = <<e>>
  BY DEF MoveQueueEvents, Moved
<1> HIDE DEF moved
<1>3. e \in Events
  <2>1. <<e>> \in Seq(Events)
    BY <1>1, <1>2, MoveQueueTyped
  <2> HIDE DEF e
  <2> QED BY <2>1
<1>4. e.type = "queue.reordered" /\ e.taskIds = moved
  OBVIOUS
<1>5. Commit(<<e>>)
  BY <1>2 DEF MoveQueue
<1> HIDE DEF e
<1>6. Single(state.queue)
  BY <1>1, AssertionParts DEF Steady, QueueFits
<1>7. /\ Single(e.taskIds) /\ \A i \in DOMAIN e.taskIds : InQueue(state.queue, e.taskIds[i])
      /\ \A u \in TaskIds : InQueue(state.queue, u) => InQueue(e.taskIds, u)
  BY <1>1, <1>4, <1>6, MovedSingle, MovedKeepsAll DEF moved
<1>8. Passes(state, e)
  BY <1>1, <1>3, <1>4, <1>7, ReorderPasses
<1> QED BY <1>5, <1>8, AppliedOne

\* task.submit: the new task is queued, and started when the slot is free.
LEMMA SubmitPasses ==
    ASSUME Calm, NEW profile \in Profiles, Submit(profile)
    PROVE  ~wedged'
<1> DEFINE t == NewTask(state)
           created  == [type |-> "task.created", taskId |-> t,
                        profile |-> profile, revision |-> 1]
           enqueued == [type |-> "task.enqueued", taskId |-> t,
                        position |-> QueuePosition(state, profile)]
           started  == [type |-> "task.started", taskId |-> t,
                        runId |-> NewRun(state), revision |-> 1]
           s1 == Apply(state, created)
           s2 == Apply(s1, enqueued)
<1>1. state \in ControllerStates /\ Steady(state) /\ SlotDiscipline(state)
  BY DEF Calm, Steady
<1>2. t \in TaskIds /\ state.tasks[t].state = "none"
  BY NewIds DEF Submit, CanSubmit
<1>3. created \in CreatedEvents /\ enqueued \in EnqueuedEvents
  BY <1>1, <1>2, QueuePositionTyped DEF CreatedEvents, EnqueuedEvents
<1>4. created \in Events /\ enqueued \in Events
  BY <1>3, EventKinds
<1>5. s2 = TaskEnqueued(TaskCreated(state, created), enqueued)
  BY ApplyCases
<1>6. /\ created.type = "task.created" /\ created.taskId = t /\ created.revision = 1
      /\ enqueued.type = "task.enqueued" /\ enqueued.taskId = t
      /\ enqueued.position = QueuePosition(state, profile)
  OBVIOUS
<1>7. SubmitEvents(state, profile) = IF state.activeTaskId = None
                                     THEN <<created, enqueued, started>>
                                     ELSE <<created, enqueued>>
  BY DEF SubmitEvents
<1>8. Commit(SubmitEvents(state, profile))
  BY DEF Submit
<1> HIDE DEF created, enqueued
<1>9. /\ SlotDiscipline(s2) /\ s2.activeTaskId = state.activeTaskId
      /\ s2.runs = state.runs /\ s2.tasks[t].revision = 1
  BY <1>1, <1>2, <1>3, <1>5, <1>6, SubmittedKeeps
<1>10. /\ Passes(state, created) /\ s1 \in ControllerStates
       /\ ~InQueue(s1.queue, t) /\ s1.tasks[t].state = "queued" /\ OpenQuestions(s1, t) = {}
       /\ StateInvariants(s1)
  BY <1>1, <1>2, <1>4, <1>6, CreatePasses DEF Passes
<1> HIDE DEF s1
<1>11. Passes(s1, enqueued) /\ Steady(s2) /\ s2.questions = s1.questions
  <2>1. enqueued.position \in Nat
    BY <1>1, <1>6, QueuePositionTyped
  <2> QED BY <1>4, <1>6, <1>9, <1>10, <2>1, EnqueuePasses
<1>12. CASE state.activeTaskId = None
  <2>1. NewRun(state) \in RunIds /\ state.runs[NewRun(state)].state = "none"
    BY <1>12, NewIds DEF Submit, CanSubmit
  <2>2. started \in StartedEvents
    BY <1>2, <2>1 DEF StartedEvents
  <2>3. started \in Events
    BY <2>2, EventKinds
  <2>4. /\ started.type = "task.started" /\ started.taskId = t
        /\ started.runId = NewRun(state) /\ started.revision = 1
    OBVIOUS
  <2> HIDE DEF started
  <2>5. Commit(<<created, enqueued, started>>)
    BY <1>7, <1>8, <1>12
  <2>6. s2.tasks[t].state = "queued"
    <3>1. After(enqueued, s1.tasks[t], s2.tasks[t])
      BY <1>4, <1>6, <1>10, TaskEffect DEF TaskTypes, TaskIsRequired
    <3> HIDE DEF s2, t
    <3> QED BY <1>6, <3>1 DEF After
  <2> HIDE DEF s2
  <2>7. NoRunRunning(s2)
    BY <1>1, <1>9, <1>12, NobodyRuns DEF NoRunRunning
  <2>8. OpenQuestions(s2, t) = {}
    BY <1>10, <1>11, NothingAsked
  <2>9. Passes(s2, started)
    BY <1>9, <1>11, <1>12, <2>1, <2>3, <2>4, <2>6, <2>7, <2>8, StartPasses DEF StartTypes
  <2> QED BY <1>10, <1>11, <2>5, <2>9, AppliedThree DEF s1, s2
<1>13. CASE state.activeTaskId # None
  <2>1. Commit(<<created, enqueued>>)
    BY <1>7, <1>8, <1>13
  <2> QED BY <1>10, <1>11, <2>1, AppliedTwo DEF s1
<1> QED BY <1>12, <1>13

-----------------------------------------------------------------------------
(* The cancellation of a task that has an open question.                   *)

\* task.cancel passes when the task has none.
LEMMA SettledCancelPasses ==
    ASSUME Calm, NEW t \in TaskIds, NEW expected, Cancel(t, expected),
           OpenQuestions(state, t) = {}
    PROVE  ~wedged'
<1> DEFINE e == [type |-> "task.cancelled", taskId |-> t]
           s1 == Apply(state, e)
<1>1. state \in ControllerStates /\ Steady(state)
  BY DEF Calm, Steady
<1>2. /\ state.tasks[t].state # "none"
      /\ (state.activeTaskId = t /\ state.queue # <<>>) => RunLeft(state)
  BY DEF Cancel, CanCancel, Exists, IsActive
<1>3. e \in Events
  <2>1. e \in TaskEvents
    BY DEF TaskEvents, TaskOnly
  <2> QED BY <2>1, EventKinds
<1>4. e.type = "task.cancelled" /\ e.taskId = t
  OBVIOUS
<1>5. Commit(IF state.activeTaskId = t THEN AndStartNext(state, e) ELSE <<e>>)
  BY DEF Cancel, CancelEvents, IsActive
<1> HIDE DEF e
<1>6. /\ Passes(state, e) /\ Steady(s1)
      /\ state.activeTaskId = t => NoRunRunning(s1) /\ s1.activeTaskId = None
  BY <1>1, <1>2, <1>3, <1>4, CancelPasses
<1>7. CASE state.activeTaskId = t
  BY <1>2, <1>3, <1>4, <1>5, <1>6, <1>7, HandoffPasses DEF EndTypes
<1>8. CASE state.activeTaskId # t
  BY <1>5, <1>6, <1>8, AppliedOne
<1> QED BY <1>7, <1>8

\* The task at work has none.
LEMMA WorkerIsCancelled ==
    ASSUME Calm, NEW t \in TaskIds, NEW expected, Cancel(t, expected),
           Works(state.tasks[t])
    PROVE  ~wedged'
<1>1. state \in ControllerStates /\ Steady(state)
  BY DEF Calm, Steady
<1>2. OpenQuestions(state, t) = {}
  BY <1>1, WorkerOwesNothing DEF Works
<1> QED BY <1>2, SettledCancelPasses

\* task.cancel either passes, or leaves an open question to a cancelled task.
LEMMA CancelWedges ==
    ASSUME Calm, NEW t \in TaskIds, NEW expected, Cancel(t, expected)
    PROVE  \/ ~wedged'
           \/ state'.tasks[t].state = "cancelled" /\ OpenQuestions(state', t) # {}
<1> DEFINE e == [type |-> "task.cancelled", taskId |-> t]
           s1 == Apply(state, e)
<1>1. state \in ControllerStates /\ Steady(state) /\ SlotDiscipline(state)
  BY DEF Calm, Steady
<1>2. state.tasks[t].state # "none"
  BY DEF Cancel, CanCancel, Exists
<1>3. e \in Events
  <2>1. e \in TaskEvents
    BY DEF TaskEvents, TaskOnly
  <2> QED BY <2>1, EventKinds
<1>4. e.type = "task.cancelled" /\ e.taskId = t
  OBVIOUS
<1>5. Commit(IF state.activeTaskId = t THEN AndStartNext(state, e) ELSE <<e>>)
  BY DEF Cancel, CancelEvents, IsActive
<1> HIDE DEF e
<1>6. CASE OpenQuestions(state, t) = {}
  BY <1>6, SettledCancelPasses
<1>7. CASE OpenQuestions(state, t) # {}
  <2> DEFINE m == [state |-> state, ok |-> TRUE]
             m1 == ApplyChecked(m, e)
  <2>1. state.tasks[t].state = "awaiting_user"
    BY <1>1, <1>7, WorkerOwesNothing
  <2>2. state.tasks[t].activeRunId = None /\ state.activeTaskId = t
    BY <1>1, <2>1 DEF SlotDiscipline, LiveStates
  <2>3. Fits(state, e)
    BY <1>2, <1>4, <2>2 DEF Fits, RunIsRequired
  <2>4. s1.tasks[t].state = "cancelled" /\ s1.questions = state.questions
    <3>1. After(e, state.tasks[t], s1.tasks[t]) /\ s1.questions = state.questions
      BY <1>1, <1>3, <1>4, TaskEffect DEF TaskTypes, TaskIsRequired, QuestionTypes
    <3> HIDE DEF s1
    <3> QED BY <1>4, <3>1 DEF After
  <2>5. OpenQuestions(s1, t) # {}
    BY <1>7, <2>4 DEF OpenQuestions
  <2>6. ~StateInvariants(s1)
    BY <2>4, <2>5 DEF StateInvariants
  <2>7. m1 = [state |-> s1, ok |-> StateInvariants(s1)]
    BY <2>3 DEF ApplyChecked
  <2>8. ~m1.ok /\ m1.state = s1
    BY <2>6, <2>7
  <2>9. PICK events \in {<<e>>, <<e, StartEvent(state, Head(state.queue))>>} : Commit(events)
    BY <1>5 DEF AndStartNext
  <2>10. state' = ApplyDecision(m, events).state /\ ApplyDecision(m, events) = m1
    <3> HIDE DEF m1
    <3>1. \A f : ApplyChecked(m1, f) = m1
      BY <2>8 DEF ApplyChecked
    <3>2. CASE events = <<e>>
      BY <2>9, <3>2, DecisionOfOne DEF Commit, m1
    <3>3. CASE events = <<e, StartEvent(state, Head(state.queue))>>
      <4>1. ApplyDecision(m, events) = ApplyChecked(m1, StartEvent(state, Head(state.queue)))
        BY <3>3, DecisionOfTwo DEF m1
      <4> QED BY <2>9, <3>1, <4>1 DEF Commit
    <3> QED BY <2>9, <3>2, <3>3
  <2> QED BY <2>4, <2>5, <2>8, <2>10
<1> QED BY <1>6, <1>7

\* A decision that throws is the cancellation of a task with an open question.
LEMMA NextWedges ==
    ASSUME Calm, Next
    PROVE  OnlyCancelWedges'
<1> DEFINE Left == \E t \in TaskIds : state'.tasks[t].state = "cancelled"
                                      /\ OpenQuestions(state', t) # {}
<1>1. CASE UserStep
  <2>1. ASSUME NEW profile \in Profiles, Submit(profile)
        PROVE  ~wedged'
    BY <2>1, SubmitPasses
  <2>2. ASSUME NEW t \in TaskIds, NEW operation \in MoveOperations,
               NEW anchor \in TaskIds \cup {None}, MoveQueue(t, operation, anchor)
        PROVE  ~wedged'
    BY <2>2, MoveQueuePasses
  <2>3. ASSUME NEW expected, NEW t \in TaskIds,
               \/ RequestPause(t, expected)
               \/ Resume(t, expected)
               \/ \E profile \in Profiles : Revise(t, expected, profile)
               \/ \E q \in QuestionIds : AnswerQuestion(t, q, expected)
        PROVE  ~wedged'
    BY <2>3, WorkerDecisionsPass, ResumePasses, RevisionPasses, AnswerPasses
  <2>4. ASSUME NEW expected, NEW t \in TaskIds, Cancel(t, expected)
        PROVE  ~wedged' \/ Left
    BY <2>4, CancelWedges
  <2>5. ASSUME NEW expected, NEW c \in ConfirmationIds, NEW decision \in {"approve", "reject"},
               ResolveApproval(c, decision, expected)
        PROVE  ~wedged'
    BY <2>5, ResolvePasses
  <2>6. ~wedged' \/ Left
    BY <1>1, <2>1, <2>2, <2>3, <2>4, <2>5 DEF UserStep
  <2> QED BY <2>6 DEF OnlyCancelWedges, StateOf
<1>2. CASE CoderStep
  <2>1. ASSUME NEW t \in TaskIds, CompleteTask(t) \/ FailTask(t)
        PROVE  ~wedged'
    BY <2>1, FinishDecisionsPass
  <2>2. ASSUME NEW t \in TaskIds,
               PauseAtSafeBoundary(t) \/ \E r \in RunIds : RecordCoderSession(t, r)
        PROVE  ~wedged'
    BY <2>2, WorkerDecisionsPass
  <2>3. ASSUME NEW t \in TaskIds,
               ReportWorkspaceConflict(t) \/ \E q \in QuestionIds : AwaitUserInput(t, q)
        PROVE  ~wedged'
    BY <2>3, ConflictPasses, AwaitUserInputPasses
  <2>4. ASSUME NEW t \in TaskIds, NEW f \in Fingerprints,
               \/ RequestApproval(t, f)
               \/ \E c \in ConfirmationIds : ConsumeApproval(t, c, f)
        PROVE  ~wedged'
    BY <2>4, AuthorizePasses
  <2>5. ~wedged'
    BY <1>2, <2>1, <2>2, <2>3, <2>4 DEF CoderStep
  <2> QED BY <2>5 DEF OnlyCancelWedges
<1>3. CASE RecoverAfterRestart
  BY <1>3, RecoverPasses DEF OnlyCancelWedges
<1> QED BY <1>1, <1>2, <1>3 DEF Next

\* The controller's own assertion fails in one situation only: a cancelled task
\* whose question was still open.
THEOREM NothingElseWedges == Spec => []OnlyCancelWedges
<1>1. Init => OnlyCancelWedges
  BY DEF Init, OnlyCancelWedges
<1>2. ASSUME TypeOK, SlotInvariant, InterruptInvariant, LastRunInvariant,
             OnlyCancelWedges, [Next]_vars
      PROVE  OnlyCancelWedges'
  <2>1. CASE UNCHANGED vars
    BY <1>2, <2>1 DEF vars, OnlyCancelWedges, StateOf, OpenQuestions
  <2>2. CASE Next
    <3>1. ~wedged
      BY <1>2, <2>2, NextIsSound
    <3>2. Calm
      BY <1>2, <3>1 DEF Calm, Steady, TypeOK, SlotInvariant, SlotAndQueue, InterruptInvariant,
                        Waiting
    <3> QED BY <2>2, <3>2, NextWedges
  <2> QED BY <1>2, <2>1, <2>2
<1> QED BY <1>1, <1>2, TypeCorrect, SlotInvariantHolds, InterruptInvariantHolds,
           LastRunInvariantHolds, PTL DEF Spec

-----------------------------------------------------------------------------
(* A signal of the coder, and a cancellation, take the task from its work. *)

\* The task of a decision that hands the slot on works no more: it has ended, and
\* what starts in its place is another.
LEMMA HandoffStops ==
    ASSUME Steady(state), ~wedged', NEW t \in TaskIds, state.tasks[t].state # "queued",
           NEW e \in Events, e.type \in EndTypes, e.taskId = t,
           state.queue # <<>> => RunLeft(state), Commit(AndStartNext(state, e))
    PROVE  ~Works(state'.tasks[t])
<1> DEFINE s1 == Apply(state, e)
           h == Head(state.queue)
           f == StartEvent(state, h)
<1>1. state \in ControllerStates
  BY DEF Steady
<1>2. s1.tasks[t].state \in {"completed", "failed", "cancelled"}
  <2>1. After(e, state.tasks[t], s1.tasks[t])
    BY <1>1, TaskEffect DEF EndTypes, TaskTypes, TaskIsRequired
  <2> HIDE DEF s1
  <2> QED BY <2>1 DEF After, EndTypes
<1>3. CASE state.queue = <<>>
  <2>1. state' = s1
    BY <1>1, <1>3, CommittedOne DEF AndStartNext
  <2> HIDE DEF s1
  <2> QED BY <1>2, <2>1 DEF Works
<1>4. CASE state.queue # <<>>
  <2>1. h \in TaskIds /\ h # t
    <3>1. state.queue \in Seq(TaskIds)
      BY <1>1, FieldsTyped
    <3>2. h = state.queue[1] /\ 1 \in DOMAIN state.queue /\ h \in TaskIds
      BY <1>4, <3>1
    <3>3. \A i \in DOMAIN state.queue : state.tasks[state.queue[i]].state = "queued"
      BY DEF Steady, StateInvariants
    <3>4. state.tasks[h].state = "queued"
      BY <3>2, <3>3
    <3> QED BY <3>2, <3>4
  <2>2. f \in Events
    BY <1>1, <1>4, <2>1, StartAndResumeTyped
  <2>3. f.type = "task.started" /\ f.taskId = h
    BY DEF StartEvent
  <2>4. Commit(<<e, f>>)
    BY <1>4 DEF AndStartNext
  <2> HIDE DEF f, h
  <2>5. s1 \in ControllerStates /\ state' = Apply(s1, f)
    BY <1>1, <2>2, <2>4, CommittedTwo
  <2> HIDE DEF s1
  <2>6. state'.tasks[t] = s1.tasks[t]
    BY <2>1, <2>2, <2>3, <2>5, TaskEffect DEF TaskTypes, TaskIsRequired
  <2> QED BY <1>2, <2>6 DEF Works
<1> QED BY <1>3, <1>4

\* So does the task of a decision of one event that pauses it, asks, or cancels it ...
LEMMA OneEventStops ==
    ASSUME state \in ControllerStates, ~wedged', NEW t \in TaskIds, NEW e \in Events,
           e.type \in {"task.paused", "task.questionAsked", "task.cancelled"}, e.taskId = t,
           Commit(<<e>>)
    PROVE  ~Works(state'.tasks[t])
<1>1. state' = Apply(state, e)
  BY CommittedOne
<1>2. After(e, state.tasks[t], state'.tasks[t])
  BY <1>1, TaskEffect DEF TaskTypes, TaskIsRequired
<1> QED BY <1>2 DEF After, Works

\* ... and of one that ends in a wait for the user.
LEMMA AwaitStops ==
    ASSUME state \in ControllerStates, ~wedged', NEW t \in TaskIds, NEW e \in Events,
           state.tasks[t].activeRunId # None, Commit(<<e, AwaitEvent(state, t)>>)
    PROVE  ~Works(state'.tasks[t])
<1> DEFINE f == AwaitEvent(state, t)
           s1 == Apply(state, e)
<1>1. f \in Events
  BY AwaitTyped
<1>2. f.type = "task.awaitingUser" /\ f.taskId = t
  BY DEF AwaitEvent
<1> HIDE DEF f
<1>3. s1 \in ControllerStates /\ state' = Apply(s1, f)
  BY <1>1, CommittedTwo DEF f
<1> HIDE DEF s1
<1>4. After(f, s1.tasks[t], state'.tasks[t])
  BY <1>1, <1>2, <1>3, TaskEffect DEF TaskTypes, TaskIsRequired
<1> QED BY <1>2, <1>4 DEF After, Works

\* The signals of completeTask, failTask, the safe boundary, the conflict and the
\* question, and task.cancel: none of them throws and leaves the task at work.
LEMMA SignalsStopTask ==
    ASSUME Calm, NEW t \in TaskIds,
           \/ CompleteTask(t) \/ FailTask(t)
           \/ PauseAtSafeBoundary(t) \/ ReportWorkspaceConflict(t)
           \/ \E q \in QuestionIds : AwaitUserInput(t, q)
           \/ \E expected : Cancel(t, expected)
    PROVE  ~Works(state'.tasks[t])
<1>1. state \in ControllerStates /\ Steady(state)
  BY DEF Calm, Steady
<1> DEFINE r == state.tasks[t].activeRunId
<1>2. r # None => r \in RunIds
  BY <1>1, TaskFields
<1>3. ASSUME NEW x \in {"task.completed", "task.failed", "task.paused"}, r # None
      PROVE  [type |-> x, taskId |-> t, runId |-> r] \in Events
  <2>1. [type |-> x, taskId |-> t, runId |-> r] \in RunEvents
    BY <1>2, <1>3 DEF RunEvents, TaskAndRun
  <2> QED BY <2>1, EventKinds
<1>4. ASSUME NEW x \in {"task.cancelled", "workspace.conflictDetected"}
      PROVE  [type |-> x, taskId |-> t] \in Events
  <2>1. [type |-> x, taskId |-> t] \in TaskEvents
    BY <1>4 DEF TaskEvents, TaskOnly
  <2> QED BY <2>1, EventKinds
<1>5. CASE CompleteTask(t) \/ FailTask(t)
  <2>1. PICK e : /\ e \in {[type |-> "task.completed", taskId |-> t, runId |-> r],
                           [type |-> "task.failed", taskId |-> t, runId |-> r]}
                 /\ CanFinish(state, t) /\ Commit(AndStartNext(state, e))
    BY <1>5 DEF CompleteTask, FailTask, CompleteEvents, FailEvents
  <2>2. r # None /\ state.tasks[t].state # "queued" /\ (state.queue # <<>> => RunLeft(state))
    BY <2>1 DEF CanFinish
  <2>3. e \in Events /\ e.type \in EndTypes /\ e.taskId = t
    <3> HIDE DEF r
    <3> QED BY <1>3, <2>1, <2>2 DEF EndTypes
  <2>4. ~wedged'
    BY <1>5, FinishDecisionsPass
  <2> QED BY <1>1, <2>1, <2>2, <2>3, <2>4, HandoffStops
<1>6. CASE PauseAtSafeBoundary(t)
  <2> DEFINE e == [type |-> "task.paused", taskId |-> t, runId |-> r]
  <2>1. r # None /\ Commit(<<e>>)
    BY <1>6 DEF PauseAtSafeBoundary, CanPauseAtSafeBoundary, PauseAtSafeBoundaryEvents
  <2>2. e \in Events /\ e.type = "task.paused" /\ e.taskId = t
    BY <1>3, <2>1
  <2>3. ~wedged'
    BY <1>6, WorkerDecisionsPass
  <2> HIDE DEF e
  <2> QED BY <1>1, <2>1, <2>2, <2>3, OneEventStops
<1>7. CASE ReportWorkspaceConflict(t)
  <2> DEFINE e == [type |-> "workspace.conflictDetected", taskId |-> t]
  <2>1. r # None /\ Commit(<<e, AwaitEvent(state, t)>>)
    BY <1>7 DEF ReportWorkspaceConflict, CanReportWorkspaceConflict,
                ReportWorkspaceConflictEvents, InRun
  <2>2. e \in Events
    BY <1>4
  <2>3. ~wedged'
    BY <1>7, ConflictPasses
  <2> HIDE DEF e
  <2> QED BY <1>1, <2>1, <2>2, <2>3, AwaitStops
<1>8. ASSUME NEW q \in QuestionIds, AwaitUserInput(t, q)
      PROVE  ~Works(state'.tasks[t])
  <2> DEFINE e == [type |-> "task.questionAsked", taskId |-> t, questionId |-> q,
                   runId |-> r, revision |-> state.tasks[t].revision]
  <2>1. r # None /\ Commit(<<e>>)
    BY <1>8 DEF AwaitUserInput, CanAwaitUserInput, AwaitUserInputEvents, InRun
  <2>2. e \in Events
    <3>1. e \in AskedEvents
      BY <1>1, <1>2, <2>1, TaskFields DEF AskedEvents
    <3> QED BY <3>1, EventKinds
  <2>3. e.type = "task.questionAsked" /\ e.taskId = t
    OBVIOUS
  <2>4. ~wedged'
    BY <1>8, AwaitUserInputPasses
  <2> HIDE DEF e
  <2> QED BY <1>1, <2>1, <2>2, <2>3, <2>4, OneEventStops
<1>9. ASSUME NEW expected, Cancel(t, expected)
      PROVE  ~Works(state'.tasks[t])
  <2> DEFINE e == [type |-> "task.cancelled", taskId |-> t]
  <2>1. CASE wedged'
    BY <1>9, <2>1, CancelWedges DEF Works
  <2>2. CASE ~wedged'
    <3>1. e \in Events /\ e.type = "task.cancelled" /\ e.taskId = t
      BY <1>4
    <3>2. Commit(IF state.activeTaskId = t THEN AndStartNext(state, e) ELSE <<e>>)
      BY <1>9 DEF Cancel, CancelEvents, IsActive
    <3> HIDE DEF e
    <3>3. CASE state.activeTaskId = t
      <4>1. state.tasks[t].state # "queued"
        BY <1>1, <3>3, NoneAssumption DEF Steady, StateInvariants, LiveStates
      <4>2. state.queue # <<>> => RunLeft(state)
        BY <1>9, <3>3 DEF Cancel, CanCancel, IsActive
      <4> QED BY <1>1, <2>2, <3>1, <3>2, <3>3, <4>1, <4>2, HandoffStops DEF EndTypes
    <3>4. CASE state.activeTaskId # t
      BY <1>1, <2>2, <3>1, <3>2, <3>4, OneEventStops
    <3> QED BY <3>3, <3>4
  <2> QED BY <2>1, <2>2
<1> QED BY <1>5, <1>6, <1>7, <1>8, <1>9

-----------------------------------------------------------------------------
(* After a restart.                                                        *)

\* Between two decisions, while nothing has thrown.
CalmInvariant == ~wedged => Calm

\* Between two decisions the controller is calm until one has thrown.
LEMMA CalmInvariantHolds == Spec => []CalmInvariant
<1>1. TypeOK /\ SlotInvariant /\ InterruptInvariant /\ LastRunInvariant => CalmInvariant
  BY DEF CalmInvariant, Calm, Steady, TypeOK, SlotInvariant, SlotAndQueue, InterruptInvariant,
         Waiting
<1> QED BY <1>1, TypeCorrect, SlotInvariantHolds, InterruptInvariantHolds,
           LastRunInvariantHolds, PTL

\* Nobody works: no run is running, and no task is at work.
NobodyWorks(s) ==
    /\ \A r \in RunIds : s.runs[r].state # "running"
    /\ \A t \in TaskIds : ~Works(s.tasks[t])

\* Where the recovery has nothing to interrupt, nobody works.
LEMMA NothingToRecover ==
    ASSUME NEW s, Steady(s), WorkersRun(s), ~CanRecover(s)
    PROVE  NobodyWorks(s)
<1>1. ASSUME NEW t \in TaskIds, Works(s.tasks[t])
      PROVE  FALSE
  <2>1. s.activeTaskId = t /\ s.tasks[t].activeRunId # None
    BY <1>1 DEF Steady, SlotDiscipline, LiveStates, Works, WorkersRun
  <2>2. t # None
    BY NoneAssumption
  <2> QED BY <1>1, <2>1, <2>2 DEF CanRecover, Works
<1>2. ASSUME NEW r \in RunIds, s.runs[r].state = "running"
      PROVE  FALSE
  <2> DEFINE t == s.runs[r].taskId
  <2>1. s.activeTaskId = t /\ s.tasks[t].activeRunId = r
    BY <1>2 DEF Steady, SlotDiscipline, RunsDiscipline
  <2>2. t \in TaskIds
    <3>1. s.runs[r] \in Run
      BY FieldsTyped DEF Steady
    <3> QED BY <1>2, <3>1 DEF Run, NoRun
  <2>3. Works(s.tasks[t])
    BY <2>1, <2>2, NoneAssumption DEF Steady, SlotDiscipline, Works
  <2> QED BY <1>1, <2>2, <2>3
<1> QED BY <1>1, <1>2 DEF NobodyWorks

\* Where it has, nobody works when it is done, and the task keeps the slot.
LEMMA RecoveryStops ==
    ASSUME TypeOK, Calm, RecoverAfterRestart, WorkerInvariant, WorkerInvariant'
    PROVE  /\ ~wedged' /\ NobodyWorks(state')
           /\ state'.activeTaskId = state.activeTaskId /\ state.activeTaskId # None
<1> DEFINE t == state.activeTaskId
<1>1. ~wedged' /\ state \in ControllerStates /\ SlotAndQueue(state)
  BY RecoverPasses DEF Calm, Steady
<1>2. SlotAndQueue(state') /\ StateInvariants(state')
  BY <1>1, RecoverSafe
<1>3. state'.tasks[t].state = "paused"
  BY <1>1, RecoveryPauses
<1>4. t \in TaskIds /\ t # None
  BY <1>1, FieldsTyped DEF RecoverAfterRestart, CanRecover
<1>5. state'.activeTaskId = t
  BY <1>2, <1>3, <1>4 DEF SlotAndQueue, SlotDiscipline, LiveStates
<1>6. ~CanRecover(state')
  BY <1>3, <1>5 DEF CanRecover
<1>7. state' \in ControllerStates
  BY <1>1, RecoverTyped, CommitTyped DEF RecoverAfterRestart, TypeOK
<1>8. NobodyWorks(state')
  BY <1>2, <1>6, <1>7, NothingToRecover DEF Steady, SlotAndQueue, WorkerInvariant
<1> QED BY <1>1, <1>4, <1>5, <1>8
-----------------------------------------------------------------------------
(***************************************************************************)
(* The order of the queue, for every set of ids.                           *)
(* An event takes a task out of the queue or leaves it as it is, which     *)
(* changes the order of no two tasks.  The exceptions are task.enqueued,   *)
(* which only a submission commits, for a task that is not in the queue,   *)
(* and queue.reordered, which only queue.move commits.                     *)
(***************************************************************************)

\* Whoever is in front of another task in n was in front of it in q.
SameOrder(q, n) == \A t, u \in TaskIds : Before(n, u, t) => Before(q, u, t)

\* To take a task out of the queue keeps the order of the others.
LEMMA RemovalKeepsOrder ==
    ASSUME NEW q \in Seq(TaskIds), NEW t \in TaskIds
    PROVE  SameOrder(q, RemoveFromQueue(q, t))
<1> DEFINE found == {i \in DOMAIN q : q[i] = t}
           first == CHOOSE i \in found : \A j \in found : i <= j
           rest == RemoveAt(q, first)
<1>1. CASE found = {}
  BY <1>1 DEF RemoveFromQueue, SameOrder
<1>2. CASE found # {}
  <2>1. \E i \in found : \A j \in found : i <= j
    <3>1. found \subseteq Nat /\ found # {}
      BY <1>2
    <3> QED BY <3>1, SmallestNat
  <2>2. first \in 1..Len(q)
    BY <2>1
  <2>3. RemoveFromQueue(q, t) = rest
    BY <1>2 DEF RemoveFromQueue
  <2> HIDE DEF first
  <2>4. /\ rest \in Seq(TaskIds) /\ Len(rest) = Len(q) - 1
        /\ \A j \in 1..(Len(q) - 1) : rest[j] = IF j < first THEN q[j] ELSE q[j + 1]
    BY <2>2, RemoveAtProperties
  <2> HIDE DEF rest
  <2>5. DOMAIN rest = 1..(Len(q) - 1) /\ DOMAIN q = 1..Len(q)
    BY <2>4
  <2>6. ASSUME NEW u \in TaskIds, NEW v \in TaskIds, Before(rest, u, v)
        PROVE  Before(q, u, v)
    <3>1. PICK i \in DOMAIN rest, j \in DOMAIN rest : i < j /\ rest[i] = u /\ rest[j] = v
      BY <2>6 DEF Before
    <3> DEFINE k == IF i < first THEN i ELSE i + 1
               l == IF j < first THEN j ELSE j + 1
    <3>2. k \in DOMAIN q /\ l \in DOMAIN q /\ k < l
      BY <2>2, <2>5, <3>1
    <3>3. q[k] = u /\ q[l] = v
      BY <2>4, <2>5, <3>1
    <3> QED BY <3>2, <3>3 DEF Before
  <2> QED BY <2>3, <2>6 DEF SameOrder
<1> QED BY <1>1, <1>2

\* A task that is put in a queue it is not in is the only one that gains a place: it
\* is in front of whoever was at its position or behind it.
LEMMA InsertionKeepsOrder ==
    ASSUME NEW q \in Seq(TaskIds), NEW t \in TaskIds, NEW at \in 1..(Len(q) + 1),
           NEW u \in TaskIds, NEW v \in TaskIds, Before(InsertAt(q, at, t), u, v)
    PROVE  \/ Before(q, u, v)
           \/ v = t
           \/ u = t /\ \E j \in DOMAIN q : at <= j /\ q[j] = v
<1> DEFINE n == InsertAt(q, at, t)
<1>1. /\ n \in Seq(TaskIds) /\ Len(n) = Len(q) + 1
      /\ \A j \in 1..(Len(q) + 1) : n[j] = IF j < at THEN q[j]
                                           ELSE IF j = at THEN t ELSE q[j - 1]
  BY InsertAtProperties
<1>2. PICK i \in DOMAIN n, j \in DOMAIN n : i < j /\ n[i] = u /\ n[j] = v
  BY DEF Before
<1> HIDE DEF n
<1>3. DOMAIN n = 1..(Len(q) + 1) /\ DOMAIN q = 1..Len(q)
  BY <1>1
<1>4. CASE j = at
  BY <1>1, <1>2, <1>3, <1>4
<1>5. CASE i = at
  <2>1. j - 1 \in DOMAIN q /\ at <= j - 1 /\ n[j] = q[j - 1] /\ n[i] = t
    BY <1>1, <1>2, <1>3, <1>5
  <2> QED BY <1>2, <2>1
<1>6. CASE i # at /\ j # at
  <2> DEFINE k == IF i < at THEN i ELSE i - 1
             l == IF j < at THEN j ELSE j - 1
  <2>1. k \in DOMAIN q /\ l \in DOMAIN q /\ k < l
    BY <1>2, <1>3, <1>6
  <2>2. q[k] = u /\ q[l] = v
    BY <1>1, <1>2, <1>3, <1>6
  <2> QED BY <2>1, <2>2 DEF Before
<1> QED BY <1>4, <1>5, <1>6

\* The queue after an update of a task, a run, a question or a card.
LEMMA UpdatesKeepQueue ==
    ASSUME NEW s, Shape(s), NEW t, NEW task, NEW r, NEW x
    PROVE  /\ SetTask(s, t, task).queue = s.queue
           /\ EndRun(s, r, x).queue = s.queue
           /\ WithQueue(s, x).queue = x
           /\ WithQuestions(s, x).queue = s.queue
           /\ WithCards(s, x).queue = s.queue
BY DEF SetTask, EndRun, WithQueue, WithQuestions, WithCards, Shape

\* The end of a task takes it out of the queue.
LEMMA RetireQueue ==
    ASSUME NEW s, Shape(s), NEW t, NEW x
    PROVE  Retire(s, t, x).queue = RemoveFromQueue(s.queue, t)
<1> DEFINE s1 == SetTask(s, t, Ended(s.tasks[t], x))
           s2 == [s1 EXCEPT !.queue = RemoveFromQueue(s.queue, t)]
           slot == IF s2.activeTaskId = t THEN None ELSE s2.activeTaskId
           n == [s2 EXCEPT !.activeTaskId = slot]
<1>1. Retire(s, t, x) = n
  BY DEF Retire, Ended
<1>2. Shape(s1)
  BY SetTaskFrame
<1> HIDE DEF s1
<1>3. Shape(s2) /\ s2.queue = RemoveFromQueue(s.queue, t)
  BY <1>2 DEF Shape
<1> HIDE DEF s2
<1>4. n.queue = s2.queue
  BY <1>3 DEF Shape
<1> QED BY <1>1, <1>3, <1>4

Reorders(e) == e.type \in {"task.enqueued", "queue.reordered"}

\* An event about a task takes it out of the queue, or leaves the queue alone.
LEMMA TaskEventQueue ==
    ASSUME NEW s, Shape(s), NEW e, e.type \in TaskTypes, ~Reorders(e)
    PROVE  Apply(s, e).queue \in {s.queue, RemoveFromQueue(s.queue, e.taskId)}
<1> DEFINE n == Apply(s, e)
           t == e.taskId
           Set(task) == SetTask(s, t, task)
<1>1. CASE e.type \in StartTypes
  <2>1. n = TaskStarted(s, e)
    BY <1>1, ApplyCases DEF StartTypes
  <2> DEFINE task == Started(s.tasks[t], e.runId)
             s1 == SetTask(s, t, task)
  <2>2. Shape(s1)
    BY SetTaskFrame
  <2>3. \A queue, runs, slot : [s1 EXCEPT !.queue = queue, !.runs = runs,
                                          !.activeTaskId = slot].queue = queue
    <3> HIDE DEF s1
    <3> QED BY <2>2 DEF Shape
  <2>4. n.queue = RemoveFromQueue(s.queue, t)
    BY <2>1, <2>3 DEF TaskStarted, Started
  <2> QED BY <2>4
<1>2. CASE e.type \in {"task.completed", "task.failed"}
  <2>1. \E x, r : n = Retire(EndRun(s, r, x), t, x)
    BY <1>2, ApplyCases DEF TaskCompleted, TaskFailed
  <2>2. PICK x, r : n = Retire(EndRun(s, r, x), t, x)
    BY <2>1
  <2>3. Shape(EndRun(s, r, x)) /\ EndRun(s, r, x).queue = s.queue
    BY EndRunFrame, UpdatesKeepQueue
  <2>4. n.queue = RemoveFromQueue(s.queue, t)
    BY <2>2, <2>3, RetireQueue
  <2> QED BY <2>4
<1>3. CASE e.type = "task.cancelled"
  <2> DEFINE r == s.tasks[t].activeRunId
             s1 == IF r = None THEN s ELSE EndRun(s, r, "cancelled")
  <2>1. n = Retire(s1, t, "cancelled")
    BY <1>3, ApplyCases DEF TaskCancelled
  <2>2. Shape(s1) /\ s1.queue = s.queue
    BY EndRunFrame, UpdatesKeepQueue
  <2> HIDE DEF s1
  <2>3. n.queue = RemoveFromQueue(s.queue, t)
    BY <2>1, <2>2, RetireQueue
  <2> QED BY <2>3
<1>4. CASE e.type \in {"task.paused", "task.awaitingUser", "task.questionAsked"}
  <2> DEFINE task == IF e.type = "task.paused" THEN Paused(s.tasks[t])
                     ELSE Awaiting(s.tasks[t])
             s1 == IF e.type = "task.paused" /\ s.runs[e.runId].state = "interrupted" THEN s
                   ELSE EndRun(s, e.runId, "paused")
             s2 == SetTask(s1, t, task)
  <2>1. Shape(s1) /\ s1.queue = s.queue
    BY EndRunFrame, UpdatesKeepQueue
  <2>2. Shape(s2) /\ s2.queue = s.queue
    <3> HIDE DEF s1
    <3> QED BY <2>1, SetTaskFrame, UpdatesKeepQueue
  <2>3. e.type # "task.questionAsked" => n = s2
    BY <1>4, ApplyCases DEF TaskPaused, TaskAwaitingUser, Paused, Awaiting
  <2>4. \A questions : [s2 EXCEPT !.questions = questions].queue = s2.queue
    <3> HIDE DEF s2
    <3> QED BY <2>2 DEF Shape
  <2>5. e.type = "task.questionAsked" => n.queue = s2.queue
    <3>1. e.type = "task.questionAsked" =>
             /\ n = TaskQuestionAsked(s, e)
             /\ s2 = TaskAwaitingUser(s, e)
      BY <1>4, ApplyCases DEF TaskAwaitingUser, Awaiting
    <3> HIDE DEF s2
    <3> QED BY <2>4, <3>1 DEF TaskQuestionAsked
  <2> QED BY <1>4, <2>2, <2>3, <2>5
<1>5. CASE e.type \in {"task.created", "task.pauseRequested"} \cup KeepsState
  <2>1. \A task, x : /\ Set(task).queue = s.queue
                     /\ WithQuestions(Set(task), x).queue = s.queue
    <3> TAKE task, x
    <3>1. Shape(Set(task)) /\ Set(task).queue = s.queue
      BY SetTaskFrame, UpdatesKeepQueue
    <3> HIDE DEF Set
    <3> QED BY <3>1, UpdatesKeepQueue
  <2>2. n.queue = s.queue
    <3>1. CASE e.type = "task.created"
      <4>1. n = Set(Created(e))
        BY <3>1, ApplyCases DEF TaskCreated, Created
      <4> QED BY <2>1, <4>1
    <3>2. CASE e.type = "task.pauseRequested"
      <4>1. n = Set(InState(s.tasks[t], "pause_requested"))
        BY <3>2, ApplyCases DEF TaskPauseRequested, InState
      <4> QED BY <2>1, <4>1
    <3>3. CASE e.type = "coder.sessionBound"
      <4>1. n = Set(Bound(s.tasks[t], e.runId))
        BY <3>3, ApplyCases DEF CoderSessionBound, Bound
      <4> QED BY <2>1, <4>1
    <3>4. CASE e.type = "coder.recoveryBoundary"
      <4>1. n = s \/ n = Set(Bounded(s.tasks[t]))
        BY <3>4, ApplyCases DEF CoderRecoveryBoundary, Bounded
      <4> QED BY <2>1, <4>1
    <3>5. CASE e.type = "task.specRevised"
      <4>1. n = WithQuestions(Set(Revised(s.tasks[t], e)), QuestionsLeft(s, t))
        BY <3>5, ApplyCases DEF TaskSpecRevised, Revised, QuestionsLeft, Superseded, WithQuestions
      <4> HIDE DEF Set, n
      <4> QED BY <2>1, <4>1
    <3>6. CASE e.type \in {"workspace.conflictDetected", "workspace.conflictResolved"}
      <4>1. n = Set(Conflicted(s.tasks[t], TRUE)) \/ n = Set(Conflicted(s.tasks[t], FALSE))
        BY <3>6, ApplyCases DEF WorkspaceConflictDetected, WorkspaceConflictResolved, Conflicted
      <4>2. Set(Conflicted(s.tasks[t], TRUE)).queue = s.queue
        BY <2>1
      <4>3. Set(Conflicted(s.tasks[t], FALSE)).queue = s.queue
        BY <2>1
      <4> HIDE DEF Set, n
      <4> QED BY <4>1, <4>2, <4>3
    <3> QED BY <1>5, <3>1, <3>2, <3>3, <3>4, <3>5, <3>6 DEF KeepsState
  <2> QED BY <2>2
<1> QED BY <1>1, <1>2, <1>3, <1>4, <1>5
        DEF TaskTypes, TaskIsRequired, StartTypes, KeepsState, Reorders

\* The others do not touch it.
LEMMA OtherEventQueue ==
    ASSUME NEW s, Shape(s), NEW e \in Events, e.type \notin TaskTypes, ~Reorders(e)
    PROVE  Apply(s, e).queue = s.queue
<1>1. e.type \in CardTypes \cup {"task.questionAnswered", "run.interrupted"}
  BY EventTypes DEF Reorders
<1>2. CASE e.type = "run.interrupted"
  <2>1. Apply(s, e) = EndRun(s, e.runId, "interrupted")
    BY <1>2, ApplyCases DEF RunInterrupted
  <2> QED BY <2>1, UpdatesKeepQueue
<1>3. CASE e.type = "task.questionAnswered"
  <2>1. Apply(s, e) = WithQuestions(s, [s.questions EXCEPT ![e.questionId] =
                         [s.questions[e.questionId] EXCEPT !.state = "answered"]])
    BY <1>3, ApplyCases DEF TaskQuestionAnswered, WithQuestions
  <2> QED BY <2>1, UpdatesKeepQueue
<1>4. CASE e.type \in CardTypes
  <2> DEFINE c == e.confirmationId
             CardMoved(to) == WithCards(s, [s.confirmations EXCEPT ![c] =
                                           [s.confirmations[c] EXCEPT !.state = to]])
  <2>1. \A to : CardMoved(to).queue = s.queue
    BY UpdatesKeepQueue
  <2>2. CASE e.type = "approval.requested"
    <3>1. Apply(s, e) = WithCards(s, [s.confirmations EXCEPT ![c] =
                           [taskId |-> e.taskId, taskRevision |-> e.revision,
                            fingerprint |-> e.fingerprint, state |-> "pending"]])
      BY <2>2, ApplyCases DEF ApprovalRequested, WithCards
    <3> QED BY <3>1, UpdatesKeepQueue
  <2>3. CASE e.type = "approval.resolved"
    <3>1. Apply(s, e) = CardMoved(IF e.decision = "approve" THEN "approved" ELSE "rejected")
      BY <2>3, ApplyCases DEF ApprovalResolved, SetConfirmation, WithCards
    <3> QED BY <2>1, <3>1
  <2>4. CASE e.type = "approval.consumed"
    <3>1. Apply(s, e) = CardMoved("consumed")
      BY <2>4, ApplyCases DEF ApprovalConsumed, SetConfirmation, WithCards
    <3> QED BY <2>1, <3>1
  <2> QED BY <1>4, <2>2, <2>3, <2>4 DEF CardTypes
<1> QED BY <1>1, <1>2, <1>3, <1>4

\* So no such event changes the order of two tasks, whether it throws or not.
LEMMA CheckedKeepsOrder ==
    ASSUME NEW m \in [state : ControllerStates, ok : BOOLEAN], NEW e \in Events, ~Reorders(e)
    PROVE  SameOrder(m.state.queue, ApplyChecked(m, e).state.queue)
<1>1. /\ m.state \in ControllerStates /\ Shape(m.state)
      /\ m.state.queue \in Seq(TaskIds)
  BY StatesHaveShape, FieldsTyped
<1>2. SameOrder(m.state.queue, Apply(m.state, e).queue)
  <2>1. CASE e.type \in TaskTypes
    <3>1. e.taskId \in TaskIds
      BY <2>1, EventTypes
    <3>2. Apply(m.state, e).queue \in {m.state.queue, RemoveFromQueue(m.state.queue, e.taskId)}
      BY <1>1, <2>1, TaskEventQueue
    <3> QED BY <1>1, <3>1, <3>2, RemovalKeepsOrder DEF SameOrder
  <2>2. CASE e.type \notin TaskTypes
    BY <1>1, <2>2, OtherEventQueue DEF SameOrder
  <2> QED BY <2>1, <2>2
<1>3. ApplyChecked(m, e).state \in {m.state, Apply(m.state, e)}
  BY DEF ApplyChecked
<1> QED BY <1>2, <1>3 DEF SameOrder

\* Nor does a decision of up to three of them.
LEMMA CommitKeepsOrder ==
    ASSUME state \in ControllerStates, NEW events \in Seq(Events), Len(events) \in 1..3,
           \A i \in DOMAIN events : ~Reorders(events[i]), Commit(events)
    PROVE  SameOrder(state.queue, state'.queue)
<1> DEFINE m == [state |-> state, ok |-> TRUE]
           m1 == ApplyChecked(m, events[1])
           m2 == IF Len(events) < 2 THEN m1 ELSE ApplyChecked(m1, events[2])
           m3 == IF Len(events) < 3 THEN m2 ELSE ApplyChecked(m2, events[3])
           Memory == [state : ControllerStates, ok : BOOLEAN]
<1>1. m \in Memory /\ m.state = state
  OBVIOUS
<1>2. state' = m3.state
  BY FewSteps DEF Commit, LoopOfThree
<1>3. Len(events) \in {1, 2, 3} /\ DOMAIN events = 1..Len(events)
  OBVIOUS
<1>4. \A i \in 1..Len(events) : events[i] \in Events /\ ~Reorders(events[i])
  BY <1>3
<1>5. ASSUME NEW p \in Memory, NEW e \in Events, ~Reorders(e)
      PROVE  /\ ApplyChecked(p, e) \in Memory
             /\ SameOrder(p.state.queue, ApplyChecked(p, e).state.queue)
  BY <1>5, ApplyCheckedTyped, CheckedKeepsOrder
<1> HIDE DEF m, Memory
<1>6. m1 \in Memory /\ SameOrder(m.state.queue, m1.state.queue)
  BY <1>1, <1>3, <1>4, <1>5
<1> HIDE DEF m1
<1>7. m2 \in Memory /\ (m2 = m1 \/ SameOrder(m1.state.queue, m2.state.queue))
  BY <1>3, <1>4, <1>5, <1>6
<1> HIDE DEF m2
<1>8. m3 = m2 \/ SameOrder(m2.state.queue, m3.state.queue)
  BY <1>3, <1>4, <1>5, <1>7
<1> HIDE DEF m3
<1>9. m.state = state /\ state' = m3.state
  BY <1>1, <1>2
<1> QED BY <1>6, <1>7, <1>8, <1>9 DEF SameOrder

KeepsOrder(events) == \A i \in DOMAIN events : ~Reorders(events[i])

\* Apart from a submission and queue.move, no decision reorders.
LEMMA OnlyTwoReorder ==
    ASSUME NEW s, NEW t, NEW x, NEW y, NEW z
    PROVE  /\ KeepsOrder(RequestPauseEvents(t))
           /\ KeepsOrder(ReviseEvents(s, t, x))
           /\ KeepsOrder(ResumeEvents(s, t))
           /\ KeepsOrder(AnswerQuestionEvents(s, t, x))
           /\ KeepsOrder(CancelEvents(s, t))
           /\ KeepsOrder(ResolveApprovalEvents(s, x, y))
           /\ KeepsOrder(PauseAtSafeBoundaryEvents(s, t))
           /\ KeepsOrder(AwaitUserInputEvents(s, t, x))
           /\ KeepsOrder(RecordCoderSessionEvents(t, x))
           /\ KeepsOrder(ConsumeApprovalEvents(x))
           /\ KeepsOrder(RequestApprovalEvents(s, t, x))
           /\ KeepsOrder(ReportWorkspaceConflictEvents(s, t))
           /\ KeepsOrder(CompleteEvents(s, t))
           /\ KeepsOrder(FailEvents(s, t))
           /\ KeepsOrder(RecoverEvents(s))
<1>1. \A e, f, g :
         /\ ~Reorders(e) => KeepsOrder(<<e>>)
         /\ ~Reorders(e) /\ ~Reorders(f) => KeepsOrder(<<e, f>>)
         /\ ~Reorders(e) /\ ~Reorders(f) /\ ~Reorders(g) => KeepsOrder(<<e, f, g>>)
  <2> TAKE e, f, g
  <2>1. ~Reorders(e) => KeepsOrder(<<e>>)
    BY DEF KeepsOrder
  <2>2. ~Reorders(e) /\ ~Reorders(f) => KeepsOrder(<<e, f>>)
    BY DEF KeepsOrder
  <2>3. ~Reorders(e) /\ ~Reorders(f) /\ ~Reorders(g) => KeepsOrder(<<e, f, g>>)
    BY DEF KeepsOrder
  <2> QED BY <2>1, <2>2, <2>3
<1>2. ASSUME NEW e, ~Reorders(e)
      PROVE  KeepsOrder(AndStartNext(s, e))
  BY <1>1, <1>2 DEF AndStartNext, StartEvent, Reorders
<1>3. /\ KeepsOrder(RequestPauseEvents(t))
      /\ KeepsOrder(ReviseEvents(s, t, x))
      /\ KeepsOrder(ResumeEvents(s, t))
      /\ KeepsOrder(AnswerQuestionEvents(s, t, x))
  BY <1>1 DEF RequestPauseEvents, ReviseEvents, ResumeEvents, AnswerQuestionEvents, ResumeEvent,
              Reorders
<1>4. KeepsOrder(ResolveApprovalEvents(s, x, y))
  BY <1>1 DEF ResolveApprovalEvents, ResumeEvent, Reorders
<1>5. /\ KeepsOrder(PauseAtSafeBoundaryEvents(s, t))
      /\ KeepsOrder(AwaitUserInputEvents(s, t, x))
      /\ KeepsOrder(RecordCoderSessionEvents(t, x))
      /\ KeepsOrder(ConsumeApprovalEvents(x))
  BY <1>1 DEF PauseAtSafeBoundaryEvents, AwaitUserInputEvents, RecordCoderSessionEvents,
              ConsumeApprovalEvents, Reorders
<1>6. /\ KeepsOrder(RequestApprovalEvents(s, t, x))
      /\ KeepsOrder(ReportWorkspaceConflictEvents(s, t))
  BY <1>1 DEF RequestApprovalEvents, ReportWorkspaceConflictEvents, AwaitEvent, Reorders
<1>7. /\ KeepsOrder(CancelEvents(s, t))
      /\ KeepsOrder(CompleteEvents(s, t))
      /\ KeepsOrder(FailEvents(s, t))
  BY <1>1, <1>2 DEF CancelEvents, CompleteEvents, FailEvents, Reorders
<1>8. KeepsOrder(RecoverEvents(s))
  BY <1>1 DEF RecoverEvents, Reorders
<1> QED BY <1>3, <1>4, <1>5, <1>6, <1>7, <1>8

\* Every step keeps the order, apart from a submission and queue.move.
LEMMA NextKeepsOrder ==
    ASSUME TypeOK, SlotInvariant, Next
    PROVE  \/ \E profile \in Profiles : Submit(profile)
           \/ \E t \in TaskIds, operation \in MoveOperations, anchor \in TaskIds \cup {None} :
                 MoveQueue(t, operation, anchor)
           \/ SameOrder(state.queue, state'.queue)
<1> DEFINE Kept == \E events : Sound(state, events) /\ Commit(events) /\ KeepsOrder(events)
<1>1. Kept => SameOrder(state.queue, state'.queue)
  BY CommitKeepsOrder DEF Sound, KeepsOrder, TypeOK
<1>2. ~wedged
  BY NextIsSound
<1>3. state \in ControllerStates /\ SlotAndQueue(state) /\ StateInvariants(state)
  BY <1>2 DEF TypeOK, SlotInvariant
<1>4. CASE CoderStep
  <2>1. ASSUME NEW t \in TaskIds, CompleteTask(t) \/ FailTask(t)
        PROVE  Kept
    BY <1>3, <2>1, FinishSound, OnlyTwoReorder DEF CompleteTask, FailTask
  <2>2. ASSUME NEW t \in TaskIds,
               \/ PauseAtSafeBoundary(t)
               \/ ReportWorkspaceConflict(t)
               \/ \E q \in QuestionIds : AwaitUserInput(t, q)
               \/ \E r \in RunIds : RecordCoderSession(t, r)
               \/ \E f \in Fingerprints :
                     RequestApproval(t, f) \/ \E c \in ConfirmationIds : ConsumeApproval(t, c, f)
        PROVE  Kept
    BY <1>3, <2>2, CoderSound, OnlyTwoReorder
       DEF PauseAtSafeBoundary, ReportWorkspaceConflict, AwaitUserInput,
           RecordCoderSession, RequestApproval, ConsumeApproval
  <2> HIDE DEF Kept
  <2> QED BY <1>1, <1>4, <2>1, <2>2 DEF CoderStep
<1>5. CASE RecoverAfterRestart
  <2>1. Kept
    BY <1>3, <1>5, RecoverSound, OnlyTwoReorder DEF RecoverAfterRestart
  <2> HIDE DEF Kept
  <2> QED BY <1>1, <2>1
<1>6. CASE UserStep
  <2>1. ASSUME NEW expected, NEW t \in TaskIds,
               \/ RequestPause(t, expected)
               \/ Resume(t, expected)
               \/ \E profile \in Profiles : Revise(t, expected, profile)
               \/ \E q \in QuestionIds : AnswerQuestion(t, q, expected)
        PROVE  Kept
    BY <1>3, <2>1, UserSound, OnlyTwoReorder
       DEF RequestPause, CanRequestPause, Resume, Revise, AnswerQuestion
  <2>2. ASSUME NEW expected, NEW t \in TaskIds, Cancel(t, expected)
        PROVE  Kept
    BY <1>3, <2>2, FinishSound, OnlyTwoReorder DEF Cancel
  <2>3. ASSUME NEW expected, NEW c \in ConfirmationIds, NEW decision \in {"approve", "reject"},
               ResolveApproval(c, decision, expected)
        PROVE  Kept
    BY <1>3, <2>3, ResolveApprovalSound, OnlyTwoReorder DEF ResolveApproval
  <2> HIDE DEF Kept
  <2> QED BY <1>1, <1>6, <2>1, <2>2, <2>3 DEF UserStep
<1> QED BY <1>4, <1>5, <1>6 DEF Next

\* The place of a new task: whoever it overtakes is the first waiting task of the
\* fast profile, or is behind it.
LEMMA OvertakesFast ==
    ASSUME NEW s \in ControllerStates, NEW profile \in Profiles,
           NEW j \in DOMAIN s.queue, QueuePosition(s, profile) + 1 <= j
    PROVE  /\ profile # "fast"
           /\ \E f \in TaskIds : /\ s.tasks[f].profile = "fast"
                                 /\ f = s.queue[j] \/ Before(s.queue, f, s.queue[j])
<1> DEFINE fast == {i \in DOMAIN s.queue : s.tasks[s.queue[i]].profile = "fast"}
           first == CHOOSE i \in fast : \A k \in fast : i <= k
<1>1. s.queue \in Seq(TaskIds) /\ DOMAIN s.queue = 1..Len(s.queue)
  BY FieldsTyped
<1>2. ~(profile = "fast" \/ fast = {})
  <2> SUFFICES ASSUME profile = "fast" \/ fast = {}
               PROVE  FALSE
    OBVIOUS
  <2>1. QueuePosition(s, profile) = Len(s.queue)
    BY DEF QueuePosition
  <2> QED BY <1>1, <2>1
<1>3. first \in fast
  <2>1. fast \subseteq Nat /\ fast # {}
    BY <1>1, <1>2
  <2>2. \E i \in fast : \A k \in fast : i <= k
    BY <2>1, SmallestNat
  <2> QED BY <2>2
<1>4. QueuePosition(s, profile) = first - 1
  BY <1>2 DEF QueuePosition
<1>5. /\ first \in DOMAIN s.queue /\ s.tasks[s.queue[first]].profile = "fast"
      /\ profile # "fast"
  BY <1>2, <1>3
<1> HIDE DEF first, fast
<1>6. first = j \/ first < j
  BY <1>1, <1>4, <1>5
<1>7. s.queue[first] \in TaskIds
  BY <1>1, <1>5
<1> QED BY <1>5, <1>6, <1>7 DEF Before

\* A submission puts the new task at its place, and overtakes nobody else.
LEMMA SubmitOrder ==
    ASSUME Calm, NEW profile \in Profiles, Submit(profile),
           NEW t \in TaskIds, NEW u \in TaskIds, Before(state'.queue, u, t)
    PROVE  \/ Before(state.queue, u, t)
           \/ ~Queued(t)
           \/ /\ ~Queued(u)
              /\ state'.tasks[u].profile # "fast"
              /\ \E f \in TaskIds : /\ state.tasks[f].profile = "fast"
                                    /\ f = t \/ Before(state.queue, f, t)
<1> DEFINE x == NewTask(state)
           created  == [type |-> "task.created", taskId |-> x,
                        profile |-> profile, revision |-> 1]
           enqueued == [type |-> "task.enqueued", taskId |-> x,
                        position |-> QueuePosition(state, profile)]
           started  == [type |-> "task.started", taskId |-> x,
                        runId |-> NewRun(state), revision |-> 1]
           s1 == Apply(state, created)
           s2 == Apply(s1, enqueued)
           q == state.queue
           at == (IF QueuePosition(state, profile) < Len(q) THEN QueuePosition(state, profile)
                  ELSE Len(q)) + 1
<1>1. /\ state \in ControllerStates /\ StateInvariants(state) /\ q \in Seq(TaskIds)
      /\ state.tasks \in [TaskIds -> Task]
  BY FieldsTyped DEF Calm, Steady
<1>2. x \in TaskIds /\ state.tasks[x].state = "none"
  BY NewIds DEF Submit, CanSubmit
<1>3. ~Queued(x) /\ RemoveFromQueue(q, x) = q
  BY <1>1, <1>2 DEF StateInvariants, Queued, RemoveFromQueue
<1>4. created \in CreatedEvents /\ enqueued \in EnqueuedEvents
  BY <1>1, <1>2, QueuePositionTyped DEF CreatedEvents, EnqueuedEvents
<1>5. created \in Events /\ enqueued \in Events
  BY <1>4, EventKinds
<1>6. ~wedged'
  BY SubmitPasses
<1>7. SubmitEvents(state, profile) = IF state.activeTaskId = None
                                     THEN <<created, enqueued, started>>
                                     ELSE <<created, enqueued>>
  BY DEF SubmitEvents
<1>8. Commit(SubmitEvents(state, profile))
  BY DEF Submit
<1>9. /\ created.type = "task.created" /\ created.taskId = x /\ created.profile = profile
      /\ enqueued.type = "task.enqueued" /\ enqueued.taskId = x
      /\ enqueued.position = QueuePosition(state, profile)
      /\ started.type = "task.started" /\ started.taskId = x
  OBVIOUS
<1>10. state.activeTaskId = None => started \in Events
  <2>1. state.activeTaskId = None => started \in StartedEvents
    BY <1>2, NewIds DEF Submit, CanSubmit, StartedEvents
  <2> QED BY <2>1, EventKinds
<1> HIDE DEF created, enqueued, started
<1>11. s1 \in ControllerStates /\ s2 \in ControllerStates
  <2>1. CASE state.activeTaskId = None
    BY <1>1, <1>5, <1>6, <1>7, <1>8, <1>10, <2>1, CommittedThree
  <2>2. CASE state.activeTaskId # None
    BY <1>1, <1>5, <1>6, <1>7, <1>8, <2>2, CommittedTwo
  <2> QED BY <2>1, <2>2
<1>12. \/ state' = s2
       \/ started \in Events /\ state' = Apply(s2, started)
  <2>1. CASE state.activeTaskId = None
    BY <1>1, <1>5, <1>6, <1>7, <1>8, <1>10, <2>1, CommittedThree
  <2>2. CASE state.activeTaskId # None
    BY <1>1, <1>5, <1>6, <1>7, <1>8, <2>2, CommittedTwo
  <2> QED BY <2>1, <2>2
<1>13. s1.queue = q
  <2>1. s1.queue \in {q, RemoveFromQueue(q, x)}
    BY <1>1, <1>9, StatesHaveShape, TaskEventQueue DEF TaskTypes, Reorders
  <2> QED BY <1>3, <2>1
<1>14. s2.queue = InsertAt(q, at, x)
  <2> DEFINE m == SetTask(s1, x, InState(s1.tasks[x], "queued"))
  <2>1. Shape(m)
    BY <1>11, StatesHaveShape, SetTaskFrame
  <2>2. s2 = [m EXCEPT !.queue = InsertInQueue(RemoveFromQueue(s1.queue, x), x,
                                               enqueued.position)]
    BY <1>9, ApplyCases DEF TaskEnqueued, InState
  <2> HIDE DEF m, s2
  <2>3. s2.queue = InsertInQueue(RemoveFromQueue(s1.queue, x), x, enqueued.position)
    BY <2>1, <2>2 DEF Shape
  <2> QED BY <1>3, <1>9, <1>13, <2>3 DEF InsertInQueue
<1>15. SameOrder(s2.queue, state'.queue)
  <2>1. CASE state' = s2
    BY <2>1 DEF SameOrder
  <2>2. CASE started \in Events /\ state' = Apply(s2, started)
    <3>1. state'.queue \in {s2.queue, RemoveFromQueue(s2.queue, x)}
      BY <1>9, <1>11, <2>2, StatesHaveShape, TaskEventQueue DEF TaskTypes, TaskIsRequired, Reorders
    <3>2. s2.queue \in Seq(TaskIds)
      BY <1>11, FieldsTyped
    <3> QED BY <1>2, <3>1, <3>2, RemovalKeepsOrder DEF SameOrder
  <2> QED BY <1>12, <2>1, <2>2
<1>16. state'.tasks[x].profile = profile
  <2>1. s1.tasks[x].profile = profile
    <3>1. TaskBecomes(state, s1, x, Created(created))
      BY <1>1, <1>9, StatesHaveShape, StartFrames, ApplyCases
    <3>2. Created(created).profile = profile
      BY <1>9 DEF Created, NoTask
    <3> HIDE DEF s1
    <3> QED BY <1>1, <1>2, <3>1, <3>2 DEF TaskBecomes
  <2>2. s2.tasks[x].profile = profile
    <3>1. TaskBecomes(s1, s2, x, InState(s1.tasks[x], "queued"))
      BY <1>9, <1>11, StatesHaveShape, StartFrames, ApplyCases
    <3>2. s1.tasks \in [TaskIds -> Task]
      BY <1>11, FieldsTyped
    <3>3. InState(s1.tasks[x], "queued").profile = profile
      BY <1>2, <2>1, <3>2 DEF InState, Task
    <3> HIDE DEF s1, s2
    <3> QED BY <1>2, <3>1, <3>2, <3>3 DEF TaskBecomes
  <2>3. CASE started \in Events /\ state' = Apply(s2, started)
    <3>1. TaskBecomes(s2, state', x, Started(s2.tasks[x], started.runId))
      BY <1>9, <1>11, <2>3, StatesHaveShape, StartFrames, ApplyCases
    <3>2. s2.tasks \in [TaskIds -> Task]
      BY <1>11, FieldsTyped
    <3>3. Started(s2.tasks[x], started.runId).profile = profile
      BY <1>2, <2>2, <3>2 DEF Started, Task
    <3> HIDE DEF s1, s2
    <3> QED BY <1>2, <3>1, <3>2, <3>3 DEF TaskBecomes
  <2> QED BY <1>12, <2>2, <2>3
<1>17. at \in 1..(Len(q) + 1)
  BY <1>1, QueuePositionTyped
<1>18. \A j \in DOMAIN q : at <= j => QueuePosition(state, profile) + 1 <= j
  BY <1>1, QueuePositionTyped
<1> HIDE DEF s1, s2, at
<1>19. Before(InsertAt(q, at, x), u, t)
  BY <1>14, <1>15 DEF SameOrder
<1>20. \/ Before(q, u, t)
       \/ t = x
       \/ u = x /\ \E j \in DOMAIN q : at <= j /\ q[j] = t
  BY <1>1, <1>2, <1>17, <1>19, InsertionKeepsOrder
<1>21. CASE u = x /\ \E j \in DOMAIN q : at <= j /\ q[j] = t
  <2>1. PICK j \in DOMAIN q : at <= j /\ q[j] = t
    BY <1>21
  <2>2. /\ profile # "fast"
        /\ \E f \in TaskIds : /\ state.tasks[f].profile = "fast"
                              /\ f = q[j] \/ Before(q, f, q[j])
    BY <1>1, <1>18, <2>1, OvertakesFast
  <2> QED BY <1>3, <1>16, <1>21, <2>1, <2>2
<1> QED BY <1>3, <1>20, <1>21

\* Only queue.move reorders: whoever waits in front of another task stays there through
\* every other decision of the controller, for queues of any length, and a new task
\* overtakes nobody but the first waiting task of the fast profile and those behind it.
THEOREM OnlyMovesReorder == Spec => OnlyMoveReorders
<1> DEFINE Kept ==
        \/ \E t \in TaskIds, operation \in MoveOperations, anchor \in TaskIds \cup {None} :
              MoveQueue(t, operation, anchor)
        \/ \A t, u \in TaskIds :
              Before(state'.queue, u, t) =>
                 \/ Before(state.queue, u, t)
                 \/ ~Queued(t)
                 \/ /\ ~Queued(u)
                    /\ state'.tasks[u].profile # "fast"
                    /\ \E f \in TaskIds : /\ state.tasks[f].profile = "fast"
                                          /\ f = t \/ Before(state.queue, f, t)
<1>1. TypeOK /\ SlotInvariant /\ CalmInvariant /\ [Next]_vars => [Kept]_vars
  <2> SUFFICES ASSUME TypeOK, SlotInvariant, CalmInvariant, Next
               PROVE  Kept
    OBVIOUS
  <2>1. Calm
    BY NextIsSound DEF CalmInvariant
  <2>2. ASSUME NEW profile \in Profiles, Submit(profile)
        PROVE  Kept
    BY <2>1, <2>2, SubmitOrder
  <2>3. SameOrder(state.queue, state'.queue) => Kept
    BY DEF SameOrder
  <2>4. (\E t \in TaskIds, operation \in MoveOperations, anchor \in TaskIds \cup {None} :
            MoveQueue(t, operation, anchor)) => Kept
    OBVIOUS
  <2> HIDE DEF Kept
  <2> QED BY <2>2, <2>3, <2>4, NextKeepsOrder
<1> QED BY <1>1, TypeCorrect, SlotInvariantHolds, CalmInvariantHolds, PTL
        DEF Spec, OnlyMoveReorders
=============================================================================
