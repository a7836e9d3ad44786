------------------------- MODULE EventJournalProofs -------------------------
(***************************************************************************)
(* The log of the task controller, for every set of ids and commands, a    *)
(* log of any length and any number of deliveries, crashes and boots.      *)
(*                                                                         *)
(* What the log says is a task controller: its state is what a replay      *)
(* leaves, it is wedged when the replay throws, and every step of the      *)
(* journal is one of its steps or changes nothing (LogIsAController).      *)
(* What is proved of TaskController is then true of the log, and so of the *)
(* memory of a daemon, which is the replayed state for as long as the      *)
(* replay passes.                                                          *)
(***************************************************************************)
EXTENDS EventJournal, ControllerStateProofs, FiniteSetTheorems, TLAPS

\* No bound of the model is left: any revision can be expected and revised, and
\* runs are interrupted whatever ids remain.
Controller == INSTANCE TaskControllerProofs WITH
    state <- Replay(log).state, wedged <- Replay(log).threw,
    Revisions <- Nat, Revisable <- Nat, SparesRuns <- FALSE

-----------------------------------------------------------------------------
(* The operators of the instance are those of this module: the constants   *)
(* they take are the same.                                                 *)

\* The queue.
LEMMA SameQueue ==
    /\ \A q, t : Controller!RemoveFromQueue(q, t) = RemoveFromQueue(q, t)
    /\ \A q, t, p : Controller!InsertInQueue(q, t, p) = InsertInQueue(q, t, p)
BY DEF Controller!RemoveFromQueue, RemoveFromQueue, Controller!InsertInQueue,
       InsertInQueue, Controller!RemoveAt, RemoveAt, Controller!InsertAt, InsertAt

\* What the events are made of.
LEMMA SameParts ==
    /\ \A s, t, task : Controller!SetTask(s, t, task) = SetTask(s, t, task)
    /\ \A s, r, x : Controller!EndRun(s, r, x) = EndRun(s, r, x)
    /\ \A s, c, x : Controller!SetConfirmation(s, c, x) = SetConfirmation(s, c, x)
BY DEF Controller!SetTask, SetTask, Controller!EndRun, EndRun,
       Controller!SetConfirmation, SetConfirmation

\* The end of a task.
LEMMA SameRetire ==
    ASSUME NEW s, NEW t, NEW x
    PROVE  Controller!Retire(s, t, x) = Retire(s, t, x)
<1> DEFINE task == [s.tasks[t] EXCEPT !.state = x, !.activeRunId = None,
                                      !.pendingQuestion = FALSE]
<1>1. Controller!SetTask(s, t, task) = SetTask(s, t, task)
  BY SameParts
<1>2. Controller!RemoveFromQueue(s.queue, t) = RemoveFromQueue(s.queue, t)
  BY SameQueue
<1> QED BY <1>1, <1>2 DEF Controller!Retire, Retire

\* A change of a task's specification is the same in both.
LEMMA SameRevised ==
    ASSUME NEW s, NEW e
    PROVE  Controller!TaskSpecRevised(s, e) = TaskSpecRevised(s, e)
BY SameParts DEF Controller!TaskSpecRevised, TaskSpecRevised

\* applyEvent.
LEMMA SameApply ==
    ASSUME NEW s, NEW e
    PROVE  Controller!Apply(s, e) = Apply(s, e)
<1>1. Controller!TaskCreated(s, e) = TaskCreated(s, e)
  BY SameParts DEF Controller!TaskCreated, TaskCreated, Controller!NoTask, NoTask
<1>2. Controller!TaskEnqueued(s, e) = TaskEnqueued(s, e)
  BY SameQueue, SameParts DEF Controller!TaskEnqueued, TaskEnqueued
<1>3. Controller!TaskStarted(s, e) = TaskStarted(s, e)
  BY SameQueue, SameParts DEF Controller!TaskStarted, TaskStarted
<1>4. Controller!TaskPauseRequested(s, e) = TaskPauseRequested(s, e)
  BY SameParts DEF Controller!TaskPauseRequested, TaskPauseRequested
<1>5. Controller!TaskPaused(s, e) = TaskPaused(s, e)
  BY SameParts DEF Controller!TaskPaused, TaskPaused
<1>6. Controller!TaskAwaitingUser(s, e) = TaskAwaitingUser(s, e)
  BY SameParts DEF Controller!TaskAwaitingUser, TaskAwaitingUser
<1>7. Controller!TaskQuestionAsked(s, e) = TaskQuestionAsked(s, e)
  BY <1>6 DEF Controller!TaskQuestionAsked, TaskQuestionAsked
<1>8. Controller!TaskQuestionAnswered(s, e) = TaskQuestionAnswered(s, e)
  BY DEF Controller!TaskQuestionAnswered, TaskQuestionAnswered
<1>9. Controller!CoderSessionBound(s, e) = CoderSessionBound(s, e)
  BY SameParts DEF Controller!CoderSessionBound, CoderSessionBound
<1>10. Controller!CoderRecoveryBoundary(s, e) = CoderRecoveryBoundary(s, e)
  BY SameParts DEF Controller!CoderRecoveryBoundary, CoderRecoveryBoundary
<1>11. Controller!TaskSpecRevised(s, e) = TaskSpecRevised(s, e)
  BY SameRevised
<1>12. Controller!TaskCompleted(s, e) = TaskCompleted(s, e)
  BY SameParts, SameRetire DEF Controller!TaskCompleted, TaskCompleted
<1>13. Controller!TaskFailed(s, e) = TaskFailed(s, e)
  BY SameParts, SameRetire DEF Controller!TaskFailed, TaskFailed
<1>14. Controller!TaskCancelled(s, e) = TaskCancelled(s, e)
  BY SameParts, SameRetire DEF Controller!TaskCancelled, TaskCancelled
<1>15. Controller!RunInterrupted(s, e) = RunInterrupted(s, e)
  BY SameParts DEF Controller!RunInterrupted, RunInterrupted
<1>16. Controller!WorkspaceConflictDetected(s, e) = WorkspaceConflictDetected(s, e)
  BY SameParts DEF Controller!WorkspaceConflictDetected, WorkspaceConflictDetected
<1>17. Controller!WorkspaceConflictResolved(s, e) = WorkspaceConflictResolved(s, e)
  BY SameParts DEF Controller!WorkspaceConflictResolved, WorkspaceConflictResolved
<1>18. Controller!ApprovalRequested(s, e) = ApprovalRequested(s, e)
  BY DEF Controller!ApprovalRequested, ApprovalRequested
<1>19. Controller!ApprovalResolved(s, e) = ApprovalResolved(s, e)
  BY SameParts DEF Controller!ApprovalResolved, ApprovalResolved
<1>20. Controller!ApprovalConsumed(s, e) = ApprovalConsumed(s, e)
  BY SameParts DEF Controller!ApprovalConsumed, ApprovalConsumed
<1>21. Controller!QueueReordered(s, e) = QueueReordered(s, e)
  BY DEF Controller!QueueReordered, QueueReordered
<1> QED BY <1>1, <1>2, <1>3, <1>4, <1>5, <1>6, <1>7, <1>8, <1>9, <1>10, <1>11,
           <1>12, <1>13, <1>14, <1>15, <1>16, <1>17, <1>18, <1>19, <1>20, <1>21
           DEF Controller!Apply, Apply

\* ... with what makes it throw.
LEMMA SameChecked ==
    ASSUME NEW m, NEW e
    PROVE  Controller!ApplyChecked(m, e) = ApplyChecked(m, e)
<1>1. Controller!Apply(m.state, e) = Apply(m.state, e)
  BY SameApply
<1>2. Controller!Fits(m.state, e) = Fits(m.state, e)
  BY DEF Controller!Fits, Fits, Controller!TaskIsRequired, TaskIsRequired,
         Controller!RunIsRequired, RunIsRequired
<1>3. Controller!StateInvariants(Apply(m.state, e)) = StateInvariants(Apply(m.state, e))
  BY DEF Controller!StateInvariants, StateInvariants, Controller!LiveStates, LiveStates,
         Controller!OpenQuestions, OpenQuestions
<1> QED BY <1>1, <1>2, <1>3, Zenon DEF Controller!ApplyChecked, ApplyChecked

\* A decision as a whole.
LEMMA SameApplyDecision ==
    ASSUME NEW m, NEW events, Len(events) \in 1..3
    PROVE  Controller!ApplyDecision(m, events) = ApplyDecision(m, events)
<1>1. Controller!ApplyDecision(m, events) = Controller!LoopOfThree(m, events)
  BY Controller!FewSteps, NoneAssumption, ProfilesAssumption
<1>2. Controller!LoopOfThree(m, events) = LoopOfThree(m, events)
  BY SameChecked DEF Controller!LoopOfThree, LoopOfThree
<1> QED BY <1>1, <1>2, FewSteps

\* The states and the events.
LEMMA SameTypes ==
    /\ Controller!Events = Events
    /\ Controller!ControllerStates = ControllerStates
    /\ Controller!EmptyState = EmptyState
<1>1. Controller!Events = Events
  BY DEF Controller!Events, Events, Controller!CreatedEvents, CreatedEvents,
         Controller!EnqueuedEvents, EnqueuedEvents, Controller!StartedEvents,
         StartedEvents, Controller!TaskEvents, TaskEvents, Controller!TaskOnly, TaskOnly,
         Controller!RunEvents, RunEvents, Controller!TaskAndRun, TaskAndRun,
         Controller!AskedEvents, AskedEvents, Controller!AnsweredEvents, AnsweredEvents,
         Controller!RevisedEvents, RevisedEvents, Controller!RequestedEvents,
         RequestedEvents, Controller!ResolvedEvents, ResolvedEvents,
         Controller!ConsumedEvents, ConsumedEvents, Controller!ReorderedEvents,
         ReorderedEvents
<1>2. Controller!ControllerStates = ControllerStates
  BY DEF Controller!ControllerStates, ControllerStates, Controller!Task, Task,
         Controller!TaskStates, TaskStates, Controller!LiveStates, LiveStates,
         Controller!TerminalStates, TerminalStates, Controller!Run, Run,
         Controller!NoRun, NoRun, Controller!RunStates, RunStates,
         Controller!Confirmation, Confirmation, Controller!NoConfirmation,
         NoConfirmation, Controller!ConfirmationStates, ConfirmationStates,
         Controller!Question, Question, Controller!NoQuestion, NoQuestion,
         Controller!QuestionStates, QuestionStates
<1>3. Controller!EmptyState = EmptyState
  BY DEF Controller!EmptyState, EmptyState, Controller!NoTask, NoTask, Controller!NoRun,
         NoRun, Controller!NoConfirmation, NoConfirmation, Controller!NoQuestion,
         NoQuestion
<1> QED BY <1>1, <1>2, <1>3

\* The conditions of the commands of the user.
LEMMA SameUserGuards ==
    /\ \A s : Controller!CanSubmit(s) <=> CanSubmit(s)
    /\ \A s, t, n : Controller!CanRequestPause(s, t, n) <=> CanRequestPause(s, t, n)
    /\ \A s, t, n : Controller!CanResume(s, t, n) <=> CanResume(s, t, n)
    /\ \A s, t, n : Controller!CanCancel(s, t, n) <=> CanCancel(s, t, n)
    /\ \A s, t, n : Controller!CanRevise(s, t, n) <=> CanRevise(s, t, n)
    /\ \A s, t, x, n : Controller!CanAnswerQuestion(s, t, x, n) <=> CanAnswerQuestion(s, t, x, n)
    /\ \A s, t, x, y : Controller!CanMoveQueue(s, t, x, y) <=> CanMoveQueue(s, t, x, y)
    /\ \A s, t, x, n : Controller!CanResolveApproval(s, t, x, n) <=> CanResolveApproval(s, t, x, n)
<1>1. \A s : Controller!CanSubmit(s) <=> CanSubmit(s)
  BY DEF Controller!CanSubmit, CanSubmit, Controller!TaskLeft, TaskLeft,
         Controller!RunLeft, RunLeft
<1>2. \A s, t, n : Controller!CanRequestPause(s, t, n) <=> CanRequestPause(s, t, n)
  BY DEF Controller!CanRequestPause, CanRequestPause, Controller!Exists, Exists,
         Controller!CheckRevision, CheckRevision, Controller!IsActive, IsActive
<1>3. \A s, t, n : Controller!CanResume(s, t, n) <=> CanResume(s, t, n)
  BY DEF Controller!CanResume, CanResume, Controller!Exists, Exists,
         Controller!CheckRevision, CheckRevision, Controller!Resumable, Resumable,
         Controller!IsActive, IsActive, Controller!OpenQuestions, OpenQuestions,
         Controller!PendingConfirmations, PendingConfirmations, Controller!RunLeft,
         RunLeft
<1>4. \A s, t, n : Controller!CanCancel(s, t, n) <=> CanCancel(s, t, n)
  BY DEF Controller!CanCancel, CanCancel, Controller!Exists, Exists,
         Controller!CheckRevision, CheckRevision, Controller!TerminalStates,
         TerminalStates, Controller!IsActive, IsActive, Controller!RunLeft, RunLeft
<1>5. \A s, t, n : Controller!CanRevise(s, t, n) <=> CanRevise(s, t, n)
  BY DEF Controller!CanRevise, CanRevise, Controller!Exists, Exists,
         Controller!CheckRevision, CheckRevision, Controller!Resumable, Resumable,
         Controller!IsActive, IsActive
<1>6. \A s, t, x, n : Controller!CanAnswerQuestion(s, t, x, n) <=> CanAnswerQuestion(s, t, x, n)
  BY DEF Controller!CanAnswerQuestion, CanAnswerQuestion, Controller!Exists, Exists,
         Controller!CheckRevision, CheckRevision, Controller!IsActive, IsActive,
         Controller!RunLeft, RunLeft
<1>7. \A s, t, x, y : Controller!CanMoveQueue(s, t, x, y) <=> CanMoveQueue(s, t, x, y)
  BY DEF Controller!CanMoveQueue, CanMoveQueue, Controller!Contains, Contains
<1>8. \A s, t, x, n : Controller!CanResolveApproval(s, t, x, n) <=> CanResolveApproval(s, t, x, n)
  BY DEF Controller!CanResolveApproval, CanResolveApproval, Controller!CheckRevision,
         CheckRevision, Controller!IsActive, IsActive, Controller!RunLeft, RunLeft
<1> QED
  BY <1>1, <1>2, <1>3, <1>4, <1>5, <1>6, <1>7, <1>8

\* The conditions of the signals of the coder and of the recovery.
LEMMA SameCoderGuards ==
    /\ \A s, t : Controller!CanPauseAtSafeBoundary(s, t) <=> CanPauseAtSafeBoundary(s, t)
    /\ \A s, t, x : Controller!CanAwaitUserInput(s, t, x) <=> CanAwaitUserInput(s, t, x)
    /\ \A s, t, x : Controller!CanRecordCoderSession(s, t, x) <=> CanRecordCoderSession(s, t, x)
    /\ \A s, t, x, y : Controller!CanConsumeApproval(s, t, x, y) <=> CanConsumeApproval(s, t, x, y)
    /\ \A s, t, x : Controller!CanRequestApproval(s, t, x) <=> CanRequestApproval(s, t, x)
    /\ \A s, t : Controller!CanReportWorkspaceConflict(s, t) <=> CanReportWorkspaceConflict(s, t)
    /\ \A s, t : Controller!CanFinish(s, t) <=> CanFinish(s, t)
    /\ \A s : Controller!CanRecover(s) <=> CanRecover(s)
<1>1. \A s, t : Controller!CanPauseAtSafeBoundary(s, t) <=> CanPauseAtSafeBoundary(s, t)
  BY DEF Controller!CanPauseAtSafeBoundary, CanPauseAtSafeBoundary
<1>2. \A s, t, x : Controller!CanAwaitUserInput(s, t, x) <=> CanAwaitUserInput(s, t, x)
  BY DEF Controller!CanAwaitUserInput, CanAwaitUserInput, Controller!InRun, InRun,
         Controller!IsActive, IsActive, Controller!OpenQuestions, OpenQuestions
<1>3. \A s, t, x : Controller!CanRecordCoderSession(s, t, x) <=> CanRecordCoderSession(s, t, x)
  BY DEF Controller!CanRecordCoderSession, CanRecordCoderSession, Controller!IsActive,
         IsActive
<1>4. \A s, t, x, y : Controller!CanConsumeApproval(s, t, x, y) <=> CanConsumeApproval(s, t, x, y)
  BY DEF Controller!CanConsumeApproval, CanConsumeApproval, Controller!InRun, InRun,
         Controller!IsActive, IsActive, Controller!Confirmations, Confirmations
<1>5. \A s, t, x : Controller!CanRequestApproval(s, t, x) <=> CanRequestApproval(s, t, x)
  BY DEF Controller!CanRequestApproval, CanRequestApproval, Controller!InRun, InRun,
         Controller!IsActive, IsActive, Controller!Confirmations, Confirmations,
         Controller!ConfirmationLeft, ConfirmationLeft
<1>6. \A s, t : Controller!CanReportWorkspaceConflict(s, t) <=> CanReportWorkspaceConflict(s, t)
  BY DEF Controller!CanReportWorkspaceConflict, CanReportWorkspaceConflict,
         Controller!InRun, InRun, Controller!IsActive, IsActive
<1>7. \A s, t : Controller!CanFinish(s, t) <=> CanFinish(s, t)
  BY DEF Controller!CanFinish, CanFinish, Controller!IsActive, IsActive,
         Controller!RunLeft, RunLeft
<1>8. \A s : Controller!CanRecover(s) <=> CanRecover(s)
  BY DEF Controller!CanRecover, CanRecover
<1> QED
  BY <1>1, <1>2, <1>3, <1>4, <1>5, <1>6, <1>7, <1>8

\* The events of the commands of the user.
LEMMA SameUserEvents ==
    /\ \A s, x : Controller!SubmitEvents(s, x) = SubmitEvents(s, x)
    /\ \A t : Controller!RequestPauseEvents(t) = RequestPauseEvents(t)
    /\ \A s, t : Controller!ResumeEvents(s, t) = ResumeEvents(s, t)
    /\ \A s, t : Controller!CancelEvents(s, t) = CancelEvents(s, t)
    /\ \A s, t, x : Controller!ReviseEvents(s, t, x) = ReviseEvents(s, t, x)
    /\ \A s, t, x : Controller!AnswerQuestionEvents(s, t, x) = AnswerQuestionEvents(s, t, x)
    /\ \A s, t, x, y : Controller!MoveQueueEvents(s, t, x, y) = MoveQueueEvents(s, t, x, y)
    /\ \A s, t, x : Controller!ResolveApprovalEvents(s, t, x) = ResolveApprovalEvents(s, t, x)
<1>1. \A s, x : Controller!SubmitEvents(s, x) = SubmitEvents(s, x)
  BY DEF Controller!SubmitEvents, SubmitEvents, Controller!NewTask, NewTask,
         Controller!QueuePosition, QueuePosition, Controller!NewRun, NewRun
<1>2. \A t : Controller!RequestPauseEvents(t) = RequestPauseEvents(t)
  BY DEF Controller!RequestPauseEvents, RequestPauseEvents
<1>3. \A s, t : Controller!ResumeEvents(s, t) = ResumeEvents(s, t)
  BY DEF Controller!ResumeEvents, ResumeEvents, Controller!ResumeEvent, ResumeEvent,
         Controller!NewRun, NewRun
<1>4. \A s, t : Controller!CancelEvents(s, t) = CancelEvents(s, t)
  BY DEF Controller!CancelEvents, CancelEvents, Controller!IsActive, IsActive,
         Controller!AndStartNext, AndStartNext, Controller!StartEvent, StartEvent,
         Controller!NewRun, NewRun
<1>5. \A s, t, x : Controller!ReviseEvents(s, t, x) = ReviseEvents(s, t, x)
  BY DEF Controller!ReviseEvents, ReviseEvents
<1>6. \A s, t, x : Controller!AnswerQuestionEvents(s, t, x) = AnswerQuestionEvents(s, t, x)
  BY DEF Controller!AnswerQuestionEvents, AnswerQuestionEvents, Controller!ResumeEvent,
         ResumeEvent, Controller!NewRun, NewRun
<1>7. \A s, t, x, y : Controller!MoveQueueEvents(s, t, x, y) = MoveQueueEvents(s, t, x, y)
  BY DEF Controller!MoveQueueEvents, MoveQueueEvents, Controller!RemoveFromQueue,
         RemoveFromQueue, Controller!RemoveAt, RemoveAt, Controller!InsertAt, InsertAt
<1>8. \A s, t, x : Controller!ResolveApprovalEvents(s, t, x) = ResolveApprovalEvents(s, t, x)
  BY DEF Controller!ResolveApprovalEvents, ResolveApprovalEvents, Controller!ResumeEvent,
         ResumeEvent, Controller!NewRun, NewRun
<1> QED
  BY <1>1, <1>2, <1>3, <1>4, <1>5, <1>6, <1>7, <1>8

\* The events of the signals of the coder and of the recovery.
LEMMA SameCoderEvents ==
    ASSUME NEW s, NEW t, NEW x, NEW y, NEW n
    PROVE  /\ Controller!PauseAtSafeBoundaryEvents(s, t) = PauseAtSafeBoundaryEvents(s, t)
           /\ Controller!AwaitUserInputEvents(s, t, x) = AwaitUserInputEvents(s, t, x)
           /\ Controller!RecordCoderSessionEvents(t, x) = RecordCoderSessionEvents(t, x)
           /\ Controller!ConsumeApprovalEvents(t) = ConsumeApprovalEvents(t)
           /\ Controller!RequestApprovalEvents(s, t, x) = RequestApprovalEvents(s, t, x)
           /\ Controller!ReportWorkspaceConflictEvents(s, t) = ReportWorkspaceConflictEvents(s, t)
           /\ Controller!CompleteEvents(s, t) = CompleteEvents(s, t)
           /\ Controller!FailEvents(s, t) = FailEvents(s, t)
           /\ Controller!RecoverEvents(s) = RecoverEvents(s)
<1>1. Controller!PauseAtSafeBoundaryEvents(s, t) = PauseAtSafeBoundaryEvents(s, t)
  BY DEF Controller!PauseAtSafeBoundaryEvents, PauseAtSafeBoundaryEvents
<1>2. Controller!AwaitUserInputEvents(s, t, x) = AwaitUserInputEvents(s, t, x)
  BY DEF Controller!AwaitUserInputEvents, AwaitUserInputEvents
<1>3. Controller!RecordCoderSessionEvents(t, x) = RecordCoderSessionEvents(t, x)
  BY DEF Controller!RecordCoderSessionEvents, RecordCoderSessionEvents
<1>4. Controller!ConsumeApprovalEvents(t) = ConsumeApprovalEvents(t)
  BY DEF Controller!ConsumeApprovalEvents, ConsumeApprovalEvents
<1>5. Controller!RequestApprovalEvents(s, t, x) = RequestApprovalEvents(s, t, x)
  BY DEF Controller!RequestApprovalEvents, RequestApprovalEvents,
         Controller!NewConfirmation, NewConfirmation, Controller!AwaitEvent, AwaitEvent
<1>6. Controller!ReportWorkspaceConflictEvents(s, t) = ReportWorkspaceConflictEvents(s, t)
  BY DEF Controller!ReportWorkspaceConflictEvents, ReportWorkspaceConflictEvents,
         Controller!AwaitEvent, AwaitEvent
<1>7. Controller!CompleteEvents(s, t) = CompleteEvents(s, t)
  BY DEF Controller!CompleteEvents, CompleteEvents, Controller!AndStartNext,
         AndStartNext, Controller!StartEvent, StartEvent, Controller!NewRun, NewRun
<1>8. Controller!FailEvents(s, t) = FailEvents(s, t)
  BY DEF Controller!FailEvents, FailEvents, Controller!AndStartNext, AndStartNext,
         Controller!StartEvent, StartEvent, Controller!NewRun, NewRun
<1>9. Controller!RecoverEvents(s) = RecoverEvents(s)
  BY DEF Controller!RecoverEvents, RecoverEvents
<1> QED
  BY <1>1, <1>2, <1>3, <1>4, <1>5, <1>6, <1>7, <1>8, <1>9
-----------------------------------------------------------------------------
(* Applying committed events, one after the other.                         *)

\* The memory that the events find, and the first n steps from it.
Start(m) == [state |-> m.state, seq |-> m.seq, threw |-> FALSE]
Applying(g, m, events, base, n) ==
    /\ g = [i \in 0..n |-> g[i]] /\ g[0] = Start(m)
    /\ \A i \in 1..n : g[i] = ApplyNext(g[i - 1], events[i], base + i)

\* There are such steps, event by event.
LEMMA ApplyingExists ==
    ASSUME NEW m, NEW events, NEW base, NEW len \in Nat
    PROVE  \E g : Applying(g, m, events, base, len)
<1> DEFINE Bad == {n \in 0..len : ~ \E g : Applying(g, m, events, base, n)}
<1>1. SUFFICES ASSUME Bad # {} PROVE FALSE
  <2>1. len \in 0..len
    OBVIOUS
  <2>2. Bad = {} => \E g : Applying(g, m, events, base, len)
    BY <2>1
  <2> QED BY <2>2
<1>2. PICK n \in Bad : \A k \in Bad : n <= k
  <2>1. Bad \in SUBSET Nat
    OBVIOUS
  <2> HIDE DEF Bad
  <2> QED BY <1>1, <2>1, SmallestNat
<1>3. n \in 0..len /\ ~ \E g : Applying(g, m, events, base, n)
  OBVIOUS
<1>4. CASE n = 0
  <2> DEFINE s == Start(m)
             g == [i \in 0..0 |-> s]
  <2>1. g = [i \in 0..0 |-> g[i]] /\ g[0] = s /\ \A i \in 1..0 : FALSE
    OBVIOUS
  <2> HIDE DEF g
  <2>2. Applying(g, m, events, base, 0)
    BY <2>1 DEF Applying
  <2> QED BY <1>3, <1>4, <2>2
<1>5. CASE n # 0
  <2>1. n - 1 \in 0..len /\ n - 1 \in Nat /\ n \in Nat /\ ~(n <= n - 1)
    BY <1>3, <1>5
  <2>2. n - 1 \notin Bad
    BY <1>2, <2>1
  <2>3. PICK g : Applying(g, m, events, base, n - 1)
    BY <2>1, <2>2
  <2> DEFINE e == ApplyNext(g[n - 1], events[n], base + n)
             h == [i \in 0..n |-> IF i = n THEN e ELSE g[i]]
  <2>4. /\ h = [i \in 0..n |-> h[i]] /\ h[n] = e /\ h[0] = g[0]
        /\ \A i \in 1..(n - 1) : h[i] = g[i]
        /\ \A i \in 1..n : h[i - 1] = g[i - 1]
    BY <1>5, <2>1
  <2>5. e = ApplyNext(g[n - 1], events[n], base + n)
    OBVIOUS
  <2> HIDE DEF h, e
  <2>6. \A i \in 1..n : h[i] = ApplyNext(h[i - 1], events[i], base + i)
    <3> TAKE i \in 1..n
    <3>1. CASE i = n
      BY <2>4, <2>5, <3>1
    <3>2. CASE i # n
      <4>1. i \in 1..(n - 1)
        BY <2>1, <3>2
      <4>2. g[i] = ApplyNext(g[i - 1], events[i], base + i)
        BY <2>3, <4>1 DEF Applying
      <4> QED BY <2>4, <4>1, <4>2
    <3> QED BY <3>1, <3>2
  <2>7. Applying(h, m, events, base, n)
    BY <2>3, <2>4, <2>6 DEF Applying
  <2> QED BY <1>3, <2>7
<1> QED BY <1>4, <1>5

\* ... and only one sequence of them.
LEMMA ApplyingAgree ==
    ASSUME NEW m, NEW events, NEW base, NEW len \in Nat, NEW g, NEW h,
           Applying(g, m, events, base, len), Applying(h, m, events, base, len)
    PROVE  \A i \in 0..len : g[i] = h[i]
<1> DEFINE Bad == {n \in 0..len : g[n] # h[n]}
<1>1. SUFFICES ASSUME Bad # {} PROVE FALSE
  OBVIOUS
<1>2. PICK n \in Bad : \A k \in Bad : n <= k
  <2>1. Bad \in SUBSET Nat
    OBVIOUS
  <2> HIDE DEF Bad
  <2> QED BY <1>1, <2>1, SmallestNat
<1>3. n \in 0..len /\ g[n] # h[n]
  OBVIOUS
<1>4. n # 0
  BY <1>3 DEF Applying
<1>5. n \in 1..len /\ n - 1 \in 0..len /\ ~(n <= n - 1)
  BY <1>3, <1>4
<1>6. g[n - 1] = h[n - 1]
  <2>1. n - 1 \notin Bad
    BY <1>2, <1>5
  <2> QED BY <1>5, <2>1
<1>7. /\ g[n] = ApplyNext(g[n - 1], events[n], base + n)
      /\ h[n] = ApplyNext(h[n - 1], events[n], base + n)
  BY <1>5 DEF Applying
<1> QED BY <1>3, <1>6, <1>7

\* ApplyCommitted returns the last of them.
LEMMA CommittedIsLast ==
    ASSUME NEW m, NEW events, Len(events) \in Nat, NEW base, NEW g,
           Applying(g, m, events, base, Len(events))
    PROVE  ApplyCommitted(m, events, base) = g[Len(events)]
<1> DEFINE len == Len(events)
           Is(f) == f = [i \in 0..len |-> IF i = 0 THEN Start(m)
                                          ELSE ApplyNext(f[i - 1], events[i], base + i)]
           f == CHOOSE h : Is(h)
<1>1. ApplyCommitted(m, events, base) = f[len]
  BY DEF ApplyCommitted, Start
<1>2. Is(g)
  <2>1. /\ g = [i \in 0..len |-> g[i]] /\ g[0] = Start(m) /\ len \in Nat
        /\ \A i \in 1..len : g[i] = ApplyNext(g[i - 1], events[i], base + i)
    BY DEF Applying
  <2> HIDE DEF len
  <2>2. \A i \in 0..len : i = 0 \/ i \in 1..len
    BY <2>1
  <2>3. [i \in 0..len |-> g[i]] = [i \in 0..len |-> IF i = 0 THEN Start(m)
                                          ELSE ApplyNext(g[i - 1], events[i], base + i)]
    BY <2>1, <2>2
  <2> QED BY <2>1, <2>3
<1>3. Is(f)
  <2> HIDE DEF Is
  <2> QED BY <1>2
<1>4. len \in Nat
  OBVIOUS
<1> HIDE DEF f, len
<1>5. f = [i \in 0..len |-> IF i = 0 THEN Start(m)
                            ELSE ApplyNext(f[i - 1], events[i], base + i)]
  BY <1>3
<1>6. Applying(f, m, events, base, len)
  <2> DEFINE x == Start(m)
             e(i) == ApplyNext(f[i - 1], events[i], base + i)
  <2>1. f = [i \in 0..len |-> IF i = 0 THEN x ELSE e(i)]
    BY <1>5
  <2>2. f[0] = x /\ \A i \in 1..len : f[i] = e(i)
    <3> HIDE DEF x, e
    <3> QED BY <1>4, <2>1
  <2>3. f = [i \in 0..len |-> f[i]]
    <3> HIDE DEF x, e
    <3> QED BY <2>1
  <2> QED BY <2>2, <2>3 DEF Applying
<1>7. f[len] = g[len]
  <2>1. Applying(g, m, events, base, len)
    BY DEF len
  <2> QED BY <1>4, <1>6, <2>1, ApplyingAgree
<1> QED BY <1>1, <1>7 DEF len

-----------------------------------------------------------------------------
(* What applying a decision leaves.                                        *)

\* A memory, and whether applying has thrown.
Applied == [state : ControllerStates, seq : Nat, threw : BOOLEAN]

\* One event leaves a memory; it is at the event's place in the log unless it threw.
LEMMA ApplyNextTyped ==
    ASSUME NEW m \in Applied, NEW e \in Events, NEW seq \in Nat
    PROVE  /\ ApplyNext(m, e, seq) \in Applied
           /\ m.threw => ApplyNext(m, e, seq) = m
           /\ ~ApplyNext(m, e, seq).threw => ApplyNext(m, e, seq).seq = seq
           /\ ApplyNext(m, e, seq).seq \in {m.seq, seq}
<1>1. CASE m.threw
  BY <1>1 DEF ApplyNext
<1>2. CASE ~m.threw /\ (seq # m.seq + 1 \/ ~Fits(m.state, e))
  <2>1. ApplyNext(m, e, seq) = [m EXCEPT !.threw = TRUE]
    BY <1>2 DEF ApplyNext
  <2> QED BY <1>2, <2>1 DEF Applied
<1>3. CASE ~m.threw /\ ~(seq # m.seq + 1 \/ ~Fits(m.state, e))
  <2> DEFINE n == Apply(m.state, e)
  <2>1. n \in ControllerStates
    BY <1>3, ApplyTyped DEF Applied
  <2>2. ApplyNext(m, e, seq) = [state |-> n, seq |-> seq, threw |-> ~StateInvariants(n)]
    BY <1>3 DEF ApplyNext
  <2>3. (~StateInvariants(n)) \in BOOLEAN
    OBVIOUS
  <2> HIDE DEF n
  <2> QED BY <1>3, <2>1, <2>2, <2>3 DEF Applied
<1> QED BY <1>1, <1>2, <1>3

\* No decision has more than three events.
Few(m, events, base) ==
    LET m1 == ApplyNext(Start(m), events[1], base + 1)
        m2 == IF Len(events) < 2 THEN m1 ELSE ApplyNext(m1, events[2], base + 2)
    IN  IF Len(events) < 3 THEN m2 ELSE ApplyNext(m2, events[3], base + 3)

\* Applying a decision of one, two or three events is the loop written out.
LEMMA FewApplied ==
    ASSUME NEW m, NEW events, Len(events) \in 1..3, NEW base
    PROVE  ApplyCommitted(m, events, base) = Few(m, events, base)
<1> DEFINE len == Len(events)
<1>1. len \in Nat /\ len \in 1..3
  OBVIOUS
<1>2. PICK g : Applying(g, m, events, base, len)
  BY <1>1, ApplyingExists
<1>3. ApplyCommitted(m, events, base) = g[len]
  BY <1>1, <1>2, CommittedIsLast
<1>4. g[0] = Start(m) /\ \A i \in 1..len : g[i] = ApplyNext(g[i - 1], events[i], base + i)
  BY <1>2 DEF Applying
<1>5. g[1] = ApplyNext(Start(m), events[1], base + 1)
  <2>1. 1 \in 1..len /\ 1 - 1 = 0
    BY <1>1
  <2> QED BY <1>4, <2>1
<1>6. len > 1 => g[2] = ApplyNext(g[1], events[2], base + 2)
  <2>1. len > 1 => 2 \in 1..len /\ 2 - 1 = 1
    BY <1>1
  <2> QED BY <1>4, <2>1
<1>7. len > 2 => g[3] = ApplyNext(g[2], events[3], base + 3)
  <2>1. len > 2 => 3 \in 1..len /\ 3 - 1 = 2
    BY <1>1
  <2> QED BY <1>4, <2>1
<1>8. len = 1 \/ len = 2 \/ len = 3
  BY <1>1
<1> DEFINE m1 == ApplyNext(Start(m), events[1], base + 1)
           m2 == ApplyNext(m1, events[2], base + 2)
           m3 == ApplyNext(m2, events[3], base + 3)
<1>9. Few(m, events, base) = IF len < 3 THEN (IF len < 2 THEN m1 ELSE m2)
                             ELSE ApplyNext(IF len < 2 THEN m1 ELSE m2, events[3], base + 3)
  BY DEF Few
<1>10. g[1] = m1 /\ (len > 1 => g[2] = m2) /\ (len > 2 => g[3] = m3)
  BY <1>5, <1>6, <1>7, <1>8
<1>11. m3 = ApplyNext(m2, events[3], base + 3)
  OBVIOUS
<1> HIDE DEF m1, m2, m3, len
<1> QED BY <1>3, <1>8, <1>9, <1>10, <1>11

\* A memory at the end of the log applies a decision as TaskController does.
InStep(n, d, seq) ==
    /\ n.state = d.state /\ n.threw = ~d.ok
    /\ n \in Applied /\ (~n.threw => n.seq = seq) /\ n.seq <= seq
\* One more event keeps the memory and TaskController in step.
LEMMA OneInStep ==
    ASSUME NEW m \in Applied, NEW d \in [state : ControllerStates, ok : BOOLEAN],
           NEW seq \in Nat, InStep(m, d, seq), NEW e \in Events
    PROVE  InStep(ApplyNext(m, e, seq + 1), ApplyChecked(d, e), seq + 1)
<1> DEFINE n == ApplyNext(m, e, seq + 1)
           c == ApplyChecked(d, e)
<1>1. n \in Applied /\ (~n.threw => n.seq = seq + 1) /\ n.seq <= seq + 1
  <2>1. seq + 1 \in Nat
    OBVIOUS
  <2>2. n \in Applied /\ (~n.threw => n.seq = seq + 1) /\ n.seq \in {m.seq, seq + 1}
    BY <2>1, ApplyNextTyped
  <2> HIDE DEF n
  <2> QED BY <2>2 DEF InStep, Applied
<1>2. n.state = c.state /\ n.threw = ~c.ok
  <2>1. CASE m.threw
    <3>1. n = m /\ c = d
      BY <2>1 DEF ApplyNext, ApplyChecked, InStep
    <3> QED BY <3>1 DEF InStep
  <2>2. CASE ~m.threw /\ ~Fits(m.state, e)
    <3>1. n = [m EXCEPT !.threw = TRUE] /\ c = [d EXCEPT !.ok = FALSE]
      BY <2>2 DEF ApplyNext, ApplyChecked, InStep
    <3> HIDE DEF n, c
    <3> QED BY <3>1 DEF InStep, Applied
  <2>3. CASE ~m.threw /\ Fits(m.state, e)
    <3> DEFINE x == Apply(m.state, e)
    <3>1. m.seq = seq /\ d.ok /\ d.state = m.state
      BY <2>3 DEF InStep
    <3>2. n = [state |-> x, seq |-> seq + 1, threw |-> ~StateInvariants(x)]
      BY <2>3, <3>1 DEF ApplyNext
    <3>3. c = [state |-> x, ok |-> StateInvariants(x)]
      BY <2>3, <3>1 DEF ApplyChecked
    <3> HIDE DEF n, c, x
    <3>4. n.threw = ~StateInvariants(x) /\ c.ok = StateInvariants(x)
      BY <3>2, <3>3
    <3> QED BY <3>2, <3>3, <3>4
  <2> QED BY <2>1, <2>2, <2>3
<1> QED BY <1>1, <1>2 DEF InStep

\* ... all its events.
LEMMA DecisionInStep ==
    ASSUME NEW m, m.state \in ControllerStates, m.seq \in Nat,
           NEW events \in Seq(Events), Len(events) \in 1..3
    PROVE  InStep(ApplyCommitted(m, events, m.seq),
                  ApplyDecision([state |-> m.state, ok |-> TRUE], events),
                  m.seq + Len(events))
<1> DEFINE base == m.seq
           m0 == Start(m)
           d0 == [state |-> m.state, ok |-> TRUE]
           m1 == ApplyNext(m0, events[1], base + 1)
           d1 == ApplyChecked(d0, events[1])
           m2 == ApplyNext(m1, events[2], base + 2)
           d2 == ApplyChecked(d1, events[2])
           m3 == ApplyNext(m2, events[3], base + 3)
           d3 == ApplyChecked(d2, events[3])
           D  == [state : ControllerStates, ok : BOOLEAN]
<1>1. /\ events[1] \in Events /\ (Len(events) >= 2 => events[2] \in Events)
      /\ (Len(events) >= 3 => events[3] \in Events)
      /\ Len(events) = 1 \/ Len(events) = 2 \/ Len(events) = 3
  OBVIOUS
<1>2. m0 \in Applied /\ d0 \in D /\ InStep(m0, d0, base)
  <2>1. m0 = [state |-> m.state, seq |-> m.seq, threw |-> FALSE]
    BY DEF Start
  <2>2. d0 = [state |-> m.state, ok |-> TRUE]
    OBVIOUS
  <2> HIDE DEF m0, d0
  <2>3. m0 \in Applied /\ d0 \in D
    BY <2>1, <2>2 DEF Applied
  <2>4. m0.state = d0.state /\ m0.threw = FALSE /\ d0.ok = TRUE /\ m0.seq = base
    BY <2>1, <2>2
  <2>5. m0.threw = (~d0.ok)
    BY <2>4
  <2>6. base <= base
    OBVIOUS
  <2> HIDE DEF base
  <2>7. InStep(m0, d0, base)
    BY <2>3, <2>4, <2>5, <2>6 DEF InStep
  <2> QED BY <2>3, <2>7
<1>3. base \in Nat /\ base + 1 \in Nat /\ base + 2 \in Nat /\ base + 3 \in Nat
      /\ base + 2 = (base + 1) + 1 /\ base + 3 = (base + 2) + 1
  OBVIOUS
<1> HIDE DEF m0, d0, base
<1>4. InStep(m1, d1, base + 1) /\ m1 \in Applied /\ d1 \in D
  <2>1. InStep(m1, d1, base + 1)
    BY <1>1, <1>2, <1>3, OneInStep
  <2>2. d1 \in D
    BY <1>1, <1>2, ApplyCheckedTyped
  <2> QED BY <2>1, <2>2 DEF InStep
<1> HIDE DEF m1, d1
<1>5. Len(events) >= 2 => InStep(m2, d2, base + 2) /\ m2 \in Applied /\ d2 \in D
  <2> HAVE Len(events) >= 2
  <2>1. InStep(m2, d2, base + 2)
    BY <1>1, <1>3, <1>4, OneInStep
  <2>2. d2 \in D
    BY <1>1, <1>4, ApplyCheckedTyped
  <2> QED BY <2>1, <2>2 DEF InStep
<1> HIDE DEF m2, d2
<1>6. Len(events) >= 3 => InStep(m3, d3, base + 3)
  <2> HAVE Len(events) >= 3
  <2>1. InStep(m2, d2, base + 2) /\ m2 \in Applied /\ d2 \in D
    BY <1>5
  <2> QED BY <1>1, <1>3, <2>1, OneInStep
<1> HIDE DEF m3, d3
<1>7. ApplyCommitted(m, events, m.seq) = Few(m, events, m.seq)
  BY FewApplied
<1>8. Few(m, events, m.seq) = IF Len(events) = 1 THEN m1 ELSE IF Len(events) = 2 THEN m2 ELSE m3
  BY <1>1 DEF Few, m0, m1, m2, m3, base
<1>9. ApplyDecision([state |-> m.state, ok |-> TRUE], events)
        = IF Len(events) = 1 THEN d1 ELSE IF Len(events) = 2 THEN d2 ELSE d3
  BY <1>1, FewSteps DEF LoopOfThree, d0, d1, d2, d3
<1>10. m.seq = base
  BY DEF base
<1> HIDE DEF base
<1>11. CASE Len(events) = 1
  BY <1>4, <1>7, <1>8, <1>9, <1>10, <1>11
<1>12. CASE Len(events) = 2
  BY <1>5, <1>7, <1>8, <1>9, <1>10, <1>12
<1>13. CASE Len(events) = 3
  BY <1>6, <1>7, <1>8, <1>9, <1>10, <1>13
<1> QED BY <1>1, <1>11, <1>12, <1>13

\* A memory that is not at the end of the log takes no event any more.
LEMMA OutOfStep ==
    ASSUME NEW m, NEW base \in Nat, m.seq \in Nat, m.seq # base,
           NEW events, Len(events) \in 1..3
    PROVE  LET n == ApplyCommitted(m, events, base)
           IN  n.state = m.state /\ n.seq = m.seq /\ n.threw
<1> DEFINE stuck == [state |-> m.state, seq |-> m.seq, threw |-> TRUE]
<1>1. base + 1 # m.seq + 1
  OBVIOUS
<1>2. ApplyNext(Start(m), events[1], base + 1) = stuck
  BY <1>1 DEF ApplyNext, Start
<1>3. stuck.threw /\ stuck.state = m.state /\ stuck.seq = m.seq
  OBVIOUS
<1> HIDE DEF stuck
<1>4. \A e, seq : ApplyNext(stuck, e, seq) = stuck
  BY <1>3 DEF ApplyNext
<1>5. Few(m, events, base) = stuck
  BY <1>2, <1>4 DEF Few
<1>6. ApplyCommitted(m, events, base) = stuck
  BY <1>5, FewApplied
<1> QED BY <1>3, <1>6

\* Applying more events goes on from what the first ones left.
LEMMA AppliedInTurn ==
    ASSUME NEW m, NEW first \in Seq(Events), NEW more \in Seq(Events), NEW base \in Nat,
           ApplyCommitted(m, first, base) \in Applied
    PROVE  LET n == ApplyCommitted(m, first, base)
           IN  ApplyCommitted(m, first \o more, base)
                  = IF n.threw THEN n ELSE ApplyCommitted(n, more, base + Len(first))
<1> DEFINE n  == ApplyCommitted(m, first, base)
           la == Len(first)
           lb == Len(more)
           all == first \o more
           b2 == base + la
<1>1. /\ la \in Nat /\ lb \in Nat /\ la + lb \in Nat /\ Len(all) = la + lb
      /\ \A i \in 1..la : all[i] = first[i]
      /\ \A i \in (la + 1)..(la + lb) : all[i] = more[i - la]
  OBVIOUS
<1>2. PICK g : Applying(g, m, first, base, la)
  BY <1>1, ApplyingExists
<1>3. PICK h : Applying(h, n, more, b2, lb)
  BY <1>1, ApplyingExists
<1>4. n = g[la]
  BY <1>1, <1>2, CommittedIsLast
<1>5. ApplyCommitted(n, more, b2) = h[lb]
  BY <1>1, <1>3, CommittedIsLast
<1>6. n \in Applied
  OBVIOUS
<1>15. b2 = base + la
  OBVIOUS
<1> HIDE DEF n, all, la, lb, b2
<1>7. ~n.threw => h[0] = n
  <2>1. h[0] = [state |-> n.state, seq |-> n.seq, threw |-> FALSE]
    BY <1>3 DEF Applying, Start
  <2> QED BY <1>6, <2>1 DEF Applied
<1>8. n.threw => \A e, seq : ApplyNext(n, e, seq) = n
  BY DEF ApplyNext
<1> DEFINE k == [i \in 0..(la + lb) |->
                    IF i <= la THEN g[i] ELSE IF n.threw THEN n ELSE h[i - la]]
<1>9. /\ k = [i \in 0..(la + lb) |-> k[i]]
      /\ \A i \in 0..la : k[i] = g[i]
      /\ \A i \in (la + 1)..(la + lb) : k[i] = IF n.threw THEN n ELSE h[i - la]
  BY <1>1
<1>10. \A i \in la..(la + lb) : k[i] = IF n.threw THEN n ELSE h[i - la]
  <2> HIDE DEF k
  <2> TAKE i \in la..(la + lb)
  <2>1. CASE i = la
    <3>1. la \in 0..la /\ la - la = 0
      BY <1>1
    <3>2. k[la] = g[la]
      BY <1>9, <3>1
    <3> QED BY <1>4, <1>7, <2>1, <3>1, <3>2
  <2>2. CASE i # la
    <3>1. la \in Nat /\ lb \in Nat
      BY <1>1
    <3>2. i \in (la + 1)..(la + lb)
      BY <2>2, <3>1
    <3> QED BY <1>9, <3>2
  <2> QED BY <2>1, <2>2
<1> HIDE DEF k
<1>11. \A i \in 1..(la + lb) : k[i] = ApplyNext(k[i - 1], all[i], base + i)
  <2> TAKE i \in 1..(la + lb)
  <2>1. CASE i \in 1..la
    <3>1. g[i] = ApplyNext(g[i - 1], first[i], base + i)
      BY <1>2, <2>1 DEF Applying
    <3>2. i \in 0..la /\ i - 1 \in 0..la /\ all[i] = first[i]
      BY <1>1, <2>1
    <3> QED BY <1>9, <3>1, <3>2
  <2>2. CASE i \notin 1..la
    <3>1. /\ i \in la..(la + lb) /\ i - 1 \in la..(la + lb) /\ all[i] = more[i - la]
          /\ i - la \in 1..lb /\ (i - 1) - la = (i - la) - 1 /\ base + i = b2 + (i - la)
      <4>1. i \in (la + 1)..(la + lb)
        BY <1>1, <2>2
      <4> QED BY <1>1, <1>15, <4>1
    <3>2. k[i] = IF n.threw THEN n ELSE h[i - la]
      BY <1>10, <3>1
    <3>3. k[i - 1] = IF n.threw THEN n ELSE h[(i - 1) - la]
      BY <1>10, <3>1
    <3>4. h[i - la] = ApplyNext(h[(i - la) - 1], more[i - la], b2 + (i - la))
      BY <1>3, <3>1 DEF Applying
    <3>5. CASE n.threw
      BY <1>8, <3>2, <3>3, <3>5
    <3>6. CASE ~n.threw
      BY <3>1, <3>2, <3>3, <3>4, <3>6
    <3> QED BY <3>5, <3>6
  <2> QED BY <2>1, <2>2
<1>12. Applying(k, m, all, base, la + lb)
  <2>1. g[0] = Start(m) /\ 0 \in 0..la
    BY <1>1, <1>2 DEF Applying
  <2>2. k[0] = Start(m)
    BY <1>9, <2>1
  <2> QED BY <1>9, <1>11, <2>2 DEF Applying
<1>13. ApplyCommitted(m, all, base) = k[la + lb]
  <2>1. Len(all) = la + lb /\ Len(all) \in Nat
    BY <1>1
  <2>2. Applying(k, m, all, base, Len(all))
    BY <1>12, <2>1
  <2>3. ApplyCommitted(m, all, base) = k[Len(all)]
    BY <2>1, <2>2, CommittedIsLast
  <2> QED BY <2>1, <2>3
<1>14. k[la + lb] = IF n.threw THEN n ELSE h[lb]
  BY <1>1, <1>10
<1> QED BY <1>5, <1>13, <1>14, <1>15 DEF n, all, la

\* ... so that a log with one more decision is replayed to what the decision leaves.
LEMMA ReplayGrows ==
    ASSUME NEW l \in Seq(Events), Replay(l) \in Applied, NEW events \in Seq(Events)
    PROVE  Replay(l \o events) = IF Replay(l).threw THEN Replay(l)
                                 ELSE ApplyCommitted(Replay(l), events, Len(l))
BY AppliedInTurn DEF Replay

\* An empty log is replayed to the empty state.
LEMMA NothingReplayed == Replay(<<>>) = [state |-> EmptyState, seq |-> 0, threw |-> FALSE]
<1> DEFINE m == [state |-> EmptyState, seq |-> 0]
           g == [i \in 0..0 |-> Start(m)]
<1>1. Applying(g, m, <<>>, 0, 0)
  <2>1. g = [i \in 0..0 |-> g[i]] /\ g[0] = Start(m) /\ \A i \in 1..0 : FALSE
    OBVIOUS
  <2> HIDE DEF g
  <2> QED BY <2>1 DEF Applying
<1>2. Len(<<>>) = 0 /\ Len(<<>>) \in Nat /\ g[0] = Start(m)
  OBVIOUS
<1> HIDE DEF g
<1>3. ApplyCommitted(m, <<>>, 0) = g[0]
  BY <1>1, <1>2, CommittedIsLast
<1> QED BY <1>2, <1>3 DEF Replay, Start

-----------------------------------------------------------------------------
(* The decisions.                                                          *)

\* What a command of the user, a signal of the coder and the recovery commit.
UserDecides(s, events) ==
    \/ \E profile \in Profiles : CanSubmit(s) /\ events = SubmitEvents(s, profile)
    \/ \E t \in TaskIds, operation \in MoveOperations, anchor \in TaskIds \cup {None} :
          /\ CanMoveQueue(s, t, operation, anchor)
          /\ events = MoveQueueEvents(s, t, operation, anchor)
    \/ \E expected \in Nat, t \in TaskIds :
          \/ CanRequestPause(s, t, expected) /\ events = RequestPauseEvents(t)
          \/ CanResume(s, t, expected) /\ events = ResumeEvents(s, t)
          \/ CanCancel(s, t, expected) /\ events = CancelEvents(s, t)
          \/ \E profile \in Profiles :
                CanRevise(s, t, expected) /\ events = ReviseEvents(s, t, profile)
          \/ \E q \in QuestionIds :
                /\ CanAnswerQuestion(s, t, q, expected)
                /\ events = AnswerQuestionEvents(s, t, q)
    \/ \E expected \in Nat, c \in ConfirmationIds, decision \in {"approve", "reject"} :
          /\ CanResolveApproval(s, c, decision, expected)
          /\ events = ResolveApprovalEvents(s, c, decision)
CoderDecides(s, events) ==
    \E t \in TaskIds :
        \/ CanPauseAtSafeBoundary(s, t) /\ events = PauseAtSafeBoundaryEvents(s, t)
        \/ CanReportWorkspaceConflict(s, t) /\ events = ReportWorkspaceConflictEvents(s, t)
        \/ CanFinish(s, t) /\ events \in {CompleteEvents(s, t), FailEvents(s, t)}
        \/ \E q \in QuestionIds :
              CanAwaitUserInput(s, t, q) /\ events = AwaitUserInputEvents(s, t, q)
        \/ \E r \in RunIds :
              CanRecordCoderSession(s, t, r) /\ events = RecordCoderSessionEvents(t, r)
        \/ \E f \in Fingerprints :
              \/ CanRequestApproval(s, t, f) /\ events = RequestApprovalEvents(s, t, f)
              \/ \E c \in ConfirmationIds :
                    CanConsumeApproval(s, t, c, f) /\ events = ConsumeApprovalEvents(c)
RecoveryDecides(s, events) == CanRecover(s) /\ events = RecoverEvents(s)
Decides(s, events) ==
    UserDecides(s, events) \/ CoderDecides(s, events) \/ RecoveryDecides(s, events)

\* What a command says, by its type.
LEMMA CommandParts ==
    ASSUME NEW command \in UserCommands
    PROVE  LET type == command.type
           IN  /\ type \in {"task.submit", "task.requestPause", "task.resume", "task.cancel",
                            "task.revise", "task.answerQuestion", "queue.move",
                            "approval.resolve"}
               /\ type = "task.submit" => command.profile \in Profiles
               /\ type \in {"task.requestPause", "task.resume", "task.cancel", "task.revise"}
                     => command.taskId \in TaskIds /\ command.expected \in Nat
               /\ type = "task.answerQuestion" =>
                     /\ command.taskId \in TaskIds /\ command.expected \in Nat
                     /\ command.questionId \in QuestionIds
               /\ type = "queue.move" =>
                     /\ command.taskId \in TaskIds /\ command.operation \in MoveOperations
                     /\ command.anchor \in TaskIds \cup {None}
               /\ type = "approval.resolve" =>
                     /\ command.confirmationId \in ConfirmationIds
                     /\ command.decision \in {"approve", "reject"} /\ command.expected \in Nat
<1> HIDE DEF MoveOperations
<1> QED BY DEF UserCommands

\* An accepted command decides.
LEMMA CommandsDecide ==
    ASSUME NEW s \in ControllerStates, NEW command \in UserCommands, Accepts(s, command)
    PROVE  UserDecides(s, EventsOf(s, command))
<1> DEFINE events == EventsOf(s, command)
           t == command.taskId
           n == command.expected
<1>1. CASE command.type = "task.submit"
  <2>1. CanSubmit(s) /\ events = SubmitEvents(s, command.profile)
    BY <1>1 DEF Accepts, EventsOf
  <2> QED BY <1>1, <2>1, CommandParts DEF UserDecides
<1>2. CASE command.type = "task.requestPause"
  <2>1. CanRequestPause(s, t, n) /\ events = RequestPauseEvents(t)
    BY <1>2 DEF Accepts, EventsOf
  <2> QED BY <1>2, <2>1, CommandParts DEF UserDecides
<1>3. CASE command.type = "task.resume"
  <2>1. CanResume(s, t, n) /\ events = ResumeEvents(s, t)
    BY <1>3 DEF Accepts, EventsOf
  <2> QED BY <1>3, <2>1, CommandParts DEF UserDecides
<1>4. CASE command.type = "task.cancel"
  <2>1. CanCancel(s, t, n) /\ events = CancelEvents(s, t)
    BY <1>4 DEF Accepts, EventsOf
  <2> QED BY <1>4, <2>1, CommandParts DEF UserDecides
<1>5. CASE command.type = "task.revise"
  <2>1. CanRevise(s, t, n) /\ events = ReviseEvents(s, t, s.tasks[t].profile)
    BY <1>5 DEF Accepts, EventsOf
  <2>2. t \in TaskIds /\ n \in Nat
    BY <1>5, CommandParts
  <2>3. s.tasks[t].profile \in Profiles
    BY <2>2, FieldsTyped DEF Task
  <2> QED BY <2>1, <2>2, <2>3 DEF UserDecides
<1>6. CASE command.type = "task.answerQuestion"
  <2>1. CanAnswerQuestion(s, t, command.questionId, n)
        /\ events = AnswerQuestionEvents(s, t, command.questionId)
    BY <1>6 DEF Accepts, EventsOf
  <2> QED BY <1>6, <2>1, CommandParts DEF UserDecides
<1>7. CASE command.type = "queue.move"
  <2>1. CanMoveQueue(s, t, command.operation, command.anchor)
        /\ events = MoveQueueEvents(s, t, command.operation, command.anchor)
    BY <1>7 DEF Accepts, EventsOf
  <2> QED BY <1>7, <2>1, CommandParts DEF UserDecides
<1>8. CASE command.type = "approval.resolve"
  <2>1. CanResolveApproval(s, command.confirmationId, command.decision, n)
        /\ events = ResolveApprovalEvents(s, command.confirmationId, command.decision)
    BY <1>8 DEF Accepts, EventsOf
  <2> QED BY <1>8, <2>1, CommandParts DEF UserDecides
<1> QED BY <1>1, <1>2, <1>3, <1>4, <1>5, <1>6, <1>7, <1>8, CommandParts

\* So does a signal that the coder can send.
LEMMA SignalsDecide ==
    ASSUME NEW s, NEW events \in CoderDecisions(s)
    PROVE  CoderDecides(s, events)
<1> DEFINE Pauses == {PauseAtSafeBoundaryEvents(s, t) :
                         t \in {x \in TaskIds : CanPauseAtSafeBoundary(s, x)}}
           Reports == {ReportWorkspaceConflictEvents(s, t) :
                          t \in {x \in TaskIds : CanReportWorkspaceConflict(s, x)}}
           Consumes == {ConsumeApprovalEvents(c) :
                           c \in {y \in ConfirmationIds : \E t \in TaskIds, f \in Fingerprints :
                                                             CanConsumeApproval(s, t, y, f)}}
           Ends == UNION {{CompleteEvents(s, t), FailEvents(s, t)} :
                             t \in {x \in TaskIds : CanFinish(s, x)}}
           Rest == UNION {     {AwaitUserInputEvents(s, t, q) :
                                   q \in {x \in QuestionIds : CanAwaitUserInput(s, t, x)}}
                          \cup {RecordCoderSessionEvents(t, r) :
                                   r \in {x \in RunIds : CanRecordCoderSession(s, t, x)}}
                          \cup {RequestApprovalEvents(s, t, f) :
                                   f \in {x \in Fingerprints : CanRequestApproval(s, t, x)}} :
                             t \in TaskIds}
<1>1. CoderDecisions(s) = Pauses \cup Reports \cup Consumes \cup Ends \cup Rest
  BY DEF CoderDecisions
<1>2. CASE events \in Pauses
  BY <1>2 DEF CoderDecides
<1>3. CASE events \in Reports
  BY <1>3 DEF CoderDecides
<1>4. CASE events \in Consumes
  BY <1>4 DEF CoderDecides
<1>5. CASE events \in Ends
  BY <1>5 DEF CoderDecides
<1>6. CASE events \in Rest
  BY <1>6 DEF CoderDecides
<1> HIDE DEF Pauses, Reports, Consumes, Ends, Rest
<1> QED BY <1>1, <1>2, <1>3, <1>4, <1>5, <1>6

\* A decision of the user has between one and three events.
LEMMA UserDecisionTyped ==
    ASSUME NEW s \in ControllerStates, NEW events, UserDecides(s, events)
    PROVE  events \in Seq(Events) /\ Len(events) \in 1..3
<1>0. s \in Controller!ControllerStates /\ Controller!Events = Events
      /\ Controller!MoveOperations = MoveOperations
  BY SameTypes DEF Controller!MoveOperations, MoveOperations
<1>1. ASSUME NEW profile \in Profiles, CanSubmit(s), events = SubmitEvents(s, profile)
      PROVE  events \in Seq(Events) /\ Len(events) \in 1..3
  <2>1. Controller!CanSubmit(s) /\ events = Controller!SubmitEvents(s, profile)
    BY <1>1, SameUserGuards, SameUserEvents
  <2>2. events \in Seq(Controller!Events) \ {<<>>}
    BY <1>0, <1>1, <2>1, NoneAssumption, ProfilesAssumption, Controller!SubmitTyped
  <2>3. Len(events) \in 1..3
    BY <1>1 DEF SubmitEvents
  <2> QED BY <1>0, <2>2, <2>3
<1>2. ASSUME NEW t \in TaskIds, NEW operation \in MoveOperations,
             NEW anchor \in TaskIds \cup {None}, CanMoveQueue(s, t, operation, anchor),
              events = MoveQueueEvents(s, t, operation, anchor)
      PROVE  events \in Seq(Events) /\ Len(events) \in 1..3
  <2>1. /\ Controller!CanMoveQueue(s, t, operation, anchor)
        /\ events = Controller!MoveQueueEvents(s, t, operation, anchor)
    BY <1>2, SameUserGuards, SameUserEvents
  <2>2. events \in Seq(Controller!Events) \ {<<>>}
    BY <1>0, <1>2, <2>1, NoneAssumption, ProfilesAssumption, Controller!MoveQueueTyped
  <2>3. Len(events) \in 1..3
    BY <1>2 DEF MoveQueueEvents
  <2> QED BY <1>0, <2>2, <2>3
<1>3. ASSUME NEW t \in TaskIds, NEW expected \in Nat, CanRequestPause(s, t, expected),
             events = RequestPauseEvents(t)
      PROVE  events \in Seq(Events) /\ Len(events) \in 1..3
  <2>1. Controller!CanRequestPause(s, t, expected) /\ events = Controller!RequestPauseEvents(t)
    BY <1>3, SameUserGuards, SameUserEvents
  <2>2. events \in Seq(Controller!Events) \ {<<>>}
    BY <1>0, <1>3, <2>1, NoneAssumption, ProfilesAssumption, Controller!UserDecisionsTyped
  <2>3. Len(events) \in 1..3
    BY <1>3 DEF RequestPauseEvents
  <2> QED BY <1>0, <2>2, <2>3
<1>4. ASSUME NEW t \in TaskIds, NEW expected \in Nat, CanResume(s, t, expected),
             events = ResumeEvents(s, t)
      PROVE  events \in Seq(Events) /\ Len(events) \in 1..3
  <2>1. Controller!CanResume(s, t, expected) /\ events = Controller!ResumeEvents(s, t)
    BY <1>4, SameUserGuards, SameUserEvents
  <2>2. events \in Seq(Controller!Events) \ {<<>>}
    BY <1>0, <1>4, <2>1, NoneAssumption, ProfilesAssumption, Controller!UserDecisionsTyped
  <2>3. Len(events) \in 1..3
    BY <1>4 DEF ResumeEvents
  <2> QED BY <1>0, <2>2, <2>3
<1>5. ASSUME NEW t \in TaskIds, NEW expected \in Nat, CanCancel(s, t, expected),
             events = CancelEvents(s, t)
      PROVE  events \in Seq(Events) /\ Len(events) \in 1..3
  <2>1. Controller!CanCancel(s, t, expected) /\ events = Controller!CancelEvents(s, t)
    BY <1>5, SameUserGuards, SameUserEvents
  <2>2. events \in Seq(Controller!Events) \ {<<>>}
    BY <1>0, <1>5, <2>1, NoneAssumption, ProfilesAssumption, Controller!CancelTyped
  <2>3. Len(events) \in 1..3
    BY <1>5 DEF CancelEvents, AndStartNext
  <2> QED BY <1>0, <2>2, <2>3
<1>6. ASSUME NEW t \in TaskIds, NEW expected \in Nat,
             NEW profile \in Profiles, CanRevise(s, t, expected), events = ReviseEvents(s, t, profile)
      PROVE  events \in Seq(Events) /\ Len(events) \in 1..3
  <2>1. Controller!CanRevise(s, t, expected) /\ events = Controller!ReviseEvents(s, t, profile)
    BY <1>6, SameUserGuards, SameUserEvents
  <2>2. events \in Seq(Controller!Events) \ {<<>>}
    BY <1>0, <1>6, <2>1, NoneAssumption, ProfilesAssumption, Controller!UserDecisionsTyped
  <2>3. Len(events) \in 1..3
    BY <1>6 DEF ReviseEvents
  <2> QED BY <1>0, <2>2, <2>3
<1>7. ASSUME NEW t \in TaskIds, NEW expected \in Nat,
             NEW q \in QuestionIds, CanAnswerQuestion(s, t, q, expected),
             events = AnswerQuestionEvents(s, t, q)
      PROVE  events \in Seq(Events) /\ Len(events) \in 1..3
  <2>1. /\ Controller!CanAnswerQuestion(s, t, q, expected)
        /\ events = Controller!AnswerQuestionEvents(s, t, q)
    BY <1>7, SameUserGuards, SameUserEvents
  <2>2. events \in Seq(Controller!Events) \ {<<>>}
    BY <1>0, <1>7, <2>1, NoneAssumption, ProfilesAssumption, Controller!UserDecisionsTyped
  <2>3. Len(events) \in 1..3
    BY <1>7 DEF AnswerQuestionEvents
  <2> QED BY <1>0, <2>2, <2>3
<1>8. ASSUME NEW c \in ConfirmationIds, NEW decision \in {"approve", "reject"},
             NEW expected \in Nat, CanResolveApproval(s, c, decision, expected),
             events = ResolveApprovalEvents(s, c, decision)
      PROVE  events \in Seq(Events) /\ Len(events) \in 1..3
  <2>1. /\ Controller!CanResolveApproval(s, c, decision, expected)
        /\ events = Controller!ResolveApprovalEvents(s, c, decision)
    BY <1>8, SameUserGuards, SameUserEvents
  <2>2. events \in Seq(Controller!Events) \ {<<>>}
    BY <1>0, <1>8, <2>1, NoneAssumption, ProfilesAssumption, Controller!ResolveApprovalTyped
  <2>3. Len(events) \in 1..3
    BY <1>8 DEF ResolveApprovalEvents
  <2> QED BY <1>0, <2>2, <2>3
<1> QED BY <1>1, <1>2, <1>3, <1>4, <1>5, <1>6, <1>7, <1>8 DEF UserDecides

\* So has one of the coder.
LEMMA CoderDecisionTyped ==
    ASSUME NEW s \in ControllerStates, NEW events, CoderDecides(s, events)
    PROVE  events \in Seq(Events) /\ Len(events) \in 1..3
<1>0. s \in Controller!ControllerStates /\ Controller!Events = Events
  BY SameTypes
<1>1. ASSUME NEW t \in TaskIds, CanPauseAtSafeBoundary(s, t), events = PauseAtSafeBoundaryEvents(s, t)
      PROVE  events \in Seq(Events) /\ Len(events) \in 1..3
  <2>1. Controller!CanPauseAtSafeBoundary(s, t) /\ events = Controller!PauseAtSafeBoundaryEvents(s, t)
    BY <1>1, SameCoderGuards, SameCoderEvents
  <2>2. events \in Seq(Controller!Events) \ {<<>>}
    BY <1>0, <1>1, <2>1, NoneAssumption, ProfilesAssumption, Controller!CoderDecisionsTyped
  <2>3. Len(events) \in 1..3
    BY <1>1 DEF PauseAtSafeBoundaryEvents
  <2> QED BY <1>0, <2>2, <2>3
<1>2. ASSUME NEW t \in TaskIds, CanReportWorkspaceConflict(s, t),
             events = ReportWorkspaceConflictEvents(s, t)
      PROVE  events \in Seq(Events) /\ Len(events) \in 1..3
  <2>1. /\ Controller!CanReportWorkspaceConflict(s, t)
        /\ events = Controller!ReportWorkspaceConflictEvents(s, t)
    BY <1>2, SameCoderGuards, SameCoderEvents
  <2>2. events \in Seq(Controller!Events) \ {<<>>}
    BY <1>0, <1>2, <2>1, NoneAssumption, ProfilesAssumption, Controller!CoderDecisionsTyped
  <2>3. Len(events) \in 1..3
    BY <1>2 DEF ReportWorkspaceConflictEvents
  <2> QED BY <1>0, <2>2, <2>3
<1>3. ASSUME NEW t \in TaskIds, CanFinish(s, t), events = CompleteEvents(s, t)
      PROVE  events \in Seq(Events) /\ Len(events) \in 1..3
  <2>1. Controller!CanFinish(s, t) /\ events = Controller!CompleteEvents(s, t)
    BY <1>3, SameCoderGuards, SameCoderEvents
  <2>2. events \in Seq(Controller!Events) \ {<<>>}
    BY <1>0, <1>3, <2>1, NoneAssumption, ProfilesAssumption, Controller!FinishTyped
  <2>3. Len(events) \in 1..3
    BY <1>3 DEF CompleteEvents, AndStartNext
  <2> QED BY <1>0, <2>2, <2>3
<1>4. ASSUME NEW t \in TaskIds, CanFinish(s, t), events = FailEvents(s, t)
      PROVE  events \in Seq(Events) /\ Len(events) \in 1..3
  <2>1. Controller!CanFinish(s, t) /\ events = Controller!FailEvents(s, t)
    BY <1>4, SameCoderGuards, SameCoderEvents
  <2>2. events \in Seq(Controller!Events) \ {<<>>}
    BY <1>0, <1>4, <2>1, NoneAssumption, ProfilesAssumption, Controller!FinishTyped
  <2>3. Len(events) \in 1..3
    BY <1>4 DEF FailEvents, AndStartNext
  <2> QED BY <1>0, <2>2, <2>3
<1>5. ASSUME NEW t \in TaskIds, NEW q \in QuestionIds, CanAwaitUserInput(s, t, q),
             events = AwaitUserInputEvents(s, t, q)
      PROVE  events \in Seq(Events) /\ Len(events) \in 1..3
  <2>1. Controller!CanAwaitUserInput(s, t, q) /\ events = Controller!AwaitUserInputEvents(s, t, q)
    BY <1>5, SameCoderGuards, SameCoderEvents
  <2>2. events \in Seq(Controller!Events) \ {<<>>}
    BY <1>0, <1>5, <2>1, NoneAssumption, ProfilesAssumption, Controller!CoderDecisionsTyped
  <2>3. Len(events) \in 1..3
    BY <1>5 DEF AwaitUserInputEvents
  <2> QED BY <1>0, <2>2, <2>3
<1>6. ASSUME NEW t \in TaskIds, NEW r \in RunIds, CanRecordCoderSession(s, t, r),
             events = RecordCoderSessionEvents(t, r)
      PROVE  events \in Seq(Events) /\ Len(events) \in 1..3
  <2>1. Controller!CanRecordCoderSession(s, t, r) /\ events = Controller!RecordCoderSessionEvents(t, r)
    BY <1>6, SameCoderGuards, SameCoderEvents
  <2>2. events \in Seq(Controller!Events) \ {<<>>}
    BY <1>0, <1>6, <2>1, NoneAssumption, ProfilesAssumption, Controller!CoderDecisionsTyped
  <2>3. Len(events) \in 1..3
    BY <1>6 DEF RecordCoderSessionEvents
  <2> QED BY <1>0, <2>2, <2>3
<1>7. ASSUME NEW t \in TaskIds, NEW f \in Fingerprints, CanRequestApproval(s, t, f),
             events = RequestApprovalEvents(s, t, f)
      PROVE  events \in Seq(Events) /\ Len(events) \in 1..3
  <2>1. Controller!CanRequestApproval(s, t, f) /\ events = Controller!RequestApprovalEvents(s, t, f)
    BY <1>7, SameCoderGuards, SameCoderEvents
  <2>2. events \in Seq(Controller!Events) \ {<<>>}
    BY <1>0, <1>7, <2>1, NoneAssumption, ProfilesAssumption, Controller!CoderDecisionsTyped
  <2>3. Len(events) \in 1..3
    BY <1>7 DEF RequestApprovalEvents
  <2> QED BY <1>0, <2>2, <2>3
<1>8. ASSUME NEW t \in TaskIds, NEW c \in ConfirmationIds,
             NEW f \in Fingerprints, CanConsumeApproval(s, t, c, f), events = ConsumeApprovalEvents(c)
      PROVE  events \in Seq(Events) /\ Len(events) \in 1..3
  <2>1. Controller!CanConsumeApproval(s, t, c, f) /\ events = Controller!ConsumeApprovalEvents(c)
    BY <1>8, SameCoderGuards, SameCoderEvents
  <2>2. events \in Seq(Controller!Events) \ {<<>>}
    BY <1>0, <1>8, <2>1, NoneAssumption, ProfilesAssumption, Controller!CoderDecisionsTyped
  <2>3. Len(events) \in 1..3
    BY <1>8 DEF ConsumeApprovalEvents
  <2> QED BY <1>0, <2>2, <2>3
<1> QED BY <1>1, <1>2, <1>3, <1>4, <1>5, <1>6, <1>7, <1>8 DEF CoderDecides

\* So has the recovery, and with it every decision.
LEMMA DecisionTyped ==
    ASSUME NEW s \in ControllerStates, NEW events, Decides(s, events)
    PROVE  events \in Seq(Events) /\ Len(events) \in 1..3
<1>0. s \in Controller!ControllerStates /\ Controller!Events = Events
  BY SameTypes
<1>1. ASSUME RecoveryDecides(s, events)
      PROVE  events \in Seq(Events) /\ Len(events) \in 1..3
  <2>1. Controller!CanRecover(s) /\ events = Controller!RecoverEvents(s)
    BY <1>1, SameCoderGuards, SameCoderEvents DEF RecoveryDecides
  <2>2. events \in Seq(Controller!Events) \ {<<>>}
    BY <1>0, <2>1, NoneAssumption, ProfilesAssumption, Controller!RecoverTyped
  <2>3. Len(events) \in 1..3
    BY <1>1 DEF RecoverEvents, RecoveryDecides
  <2> QED BY <1>0, <2>2, <2>3
<1> QED BY <1>1, UserDecisionTyped, CoderDecisionTyped DEF Decides

-----------------------------------------------------------------------------
(* The log is a task controller.                                           *)

\* A decision that is committed is a step of TaskController.
LEMMA UserStepTaken ==
    ASSUME NEW events, UserDecides(Replay(log).state, events), Controller!Commit(events)
    PROVE  Controller!Next
<1> DEFINE s == Replay(log).state
<1>1. ASSUME NEW profile \in Profiles, CanSubmit(s), events = SubmitEvents(s, profile)
      PROVE  Controller!UserStep
  <2>1. Controller!Submit(profile)
    BY <1>1, SameUserGuards, SameUserEvents DEF Controller!Submit
  <2> QED BY <2>1 DEF Controller!UserStep
<1>2. ASSUME NEW t \in TaskIds, NEW operation \in MoveOperations,
             NEW anchor \in TaskIds \cup {None}, CanMoveQueue(s, t, operation, anchor),
             events = MoveQueueEvents(s, t, operation, anchor)
      PROVE  Controller!UserStep
  <2>1. Controller!MoveQueue(t, operation, anchor)
    BY <1>2, SameUserGuards, SameUserEvents DEF Controller!MoveQueue
  <2> QED BY <1>2, <2>1 DEF Controller!UserStep, Controller!MoveOperations, MoveOperations
<1>3. ASSUME NEW t \in TaskIds, NEW expected \in Nat, CanRequestPause(s, t, expected),
             events = RequestPauseEvents(t)
      PROVE  Controller!UserStep
  <2>1. Controller!RequestPause(t, expected)
    BY <1>3, SameUserGuards, SameUserEvents DEF Controller!RequestPause, Controller!SpareRun
  <2> QED BY <2>1 DEF Controller!UserStep
<1>4. ASSUME NEW t \in TaskIds, NEW expected \in Nat, CanResume(s, t, expected),
             events = ResumeEvents(s, t)
      PROVE  Controller!UserStep
  <2>1. Controller!Resume(t, expected)
    BY <1>4, SameUserGuards, SameUserEvents DEF Controller!Resume
  <2> QED BY <2>1 DEF Controller!UserStep
<1>5. ASSUME NEW t \in TaskIds, NEW expected \in Nat, CanCancel(s, t, expected),
             events = CancelEvents(s, t)
      PROVE  Controller!UserStep
  <2>1. Controller!Cancel(t, expected)
    BY <1>5, SameUserGuards, SameUserEvents DEF Controller!Cancel
  <2> QED BY <2>1 DEF Controller!UserStep
<1>6. ASSUME NEW t \in TaskIds, NEW expected \in Nat, NEW profile \in Profiles,
             CanRevise(s, t, expected), events = ReviseEvents(s, t, profile)
      PROVE  Controller!UserStep
  <2>1. Controller!Revise(t, expected, profile)
    BY <1>6, SameUserGuards, SameUserEvents DEF Controller!Revise
  <2> QED BY <2>1 DEF Controller!UserStep
<1>7. ASSUME NEW t \in TaskIds, NEW expected \in Nat, NEW q \in QuestionIds,
             CanAnswerQuestion(s, t, q, expected), events = AnswerQuestionEvents(s, t, q)
      PROVE  Controller!UserStep
  <2>1. Controller!AnswerQuestion(t, q, expected)
    BY <1>7, SameUserGuards, SameUserEvents DEF Controller!AnswerQuestion
  <2> QED BY <2>1 DEF Controller!UserStep
<1>8. ASSUME NEW c \in ConfirmationIds, NEW decision \in {"approve", "reject"},
             NEW expected \in Nat, CanResolveApproval(s, c, decision, expected),
             events = ResolveApprovalEvents(s, c, decision)
      PROVE  Controller!UserStep
  <2>1. Controller!ResolveApproval(c, decision, expected)
    BY <1>8, SameUserGuards, SameUserEvents DEF Controller!ResolveApproval
  <2> QED BY <2>1 DEF Controller!UserStep
<1>9. Controller!UserStep
  BY <1>1, <1>2, <1>3, <1>4, <1>5, <1>6, <1>7, <1>8 DEF UserDecides
<1> QED BY <1>9 DEF Controller!Next

\* What the coder decides on the replayed log and commits is a step of TaskController.
LEMMA CoderStepTaken ==
    ASSUME NEW events, CoderDecides(Replay(log).state, events), Controller!Commit(events)
    PROVE  Controller!Next
<1> DEFINE s == Replay(log).state
<1>1. ASSUME NEW t \in TaskIds, CanPauseAtSafeBoundary(s, t),
             events = PauseAtSafeBoundaryEvents(s, t)
      PROVE  Controller!CoderStep
  <2>1. Controller!PauseAtSafeBoundary(t)
    BY <1>1, SameCoderGuards, SameCoderEvents DEF Controller!PauseAtSafeBoundary
  <2> QED BY <2>1 DEF Controller!CoderStep
<1>2. ASSUME NEW t \in TaskIds, CanReportWorkspaceConflict(s, t),
             events = ReportWorkspaceConflictEvents(s, t)
      PROVE  Controller!CoderStep
  <2>1. Controller!ReportWorkspaceConflict(t)
    BY <1>2, SameCoderGuards, SameCoderEvents
       DEF Controller!ReportWorkspaceConflict, Controller!SpareRun
  <2> QED BY <2>1 DEF Controller!CoderStep
<1>3. ASSUME NEW t \in TaskIds, CanFinish(s, t), events = CompleteEvents(s, t)
      PROVE  Controller!CoderStep
  <2>1. Controller!CompleteTask(t)
    BY <1>3, SameCoderGuards, SameCoderEvents DEF Controller!CompleteTask
  <2> QED BY <2>1 DEF Controller!CoderStep
<1>4. ASSUME NEW t \in TaskIds, CanFinish(s, t), events = FailEvents(s, t)
      PROVE  Controller!CoderStep
  <2>1. Controller!FailTask(t)
    BY <1>4, SameCoderGuards, SameCoderEvents DEF Controller!FailTask
  <2> QED BY <2>1 DEF Controller!CoderStep
<1>5. ASSUME NEW t \in TaskIds, NEW q \in QuestionIds, CanAwaitUserInput(s, t, q),
             events = AwaitUserInputEvents(s, t, q)
      PROVE  Controller!CoderStep
  <2>1. Controller!AwaitUserInput(t, q)
    BY <1>5, SameCoderGuards, SameCoderEvents
       DEF Controller!AwaitUserInput, Controller!SpareRun
  <2> QED BY <2>1 DEF Controller!CoderStep
<1>6. ASSUME NEW t \in TaskIds, NEW r \in RunIds, CanRecordCoderSession(s, t, r),
             events = RecordCoderSessionEvents(t, r)
      PROVE  Controller!CoderStep
  <2>1. Controller!RecordCoderSession(t, r)
    BY <1>6, SameCoderGuards, SameCoderEvents DEF Controller!RecordCoderSession
  <2> QED BY <2>1 DEF Controller!CoderStep
<1>7. ASSUME NEW t \in TaskIds, NEW f \in Fingerprints, CanRequestApproval(s, t, f),
             events = RequestApprovalEvents(s, t, f)
      PROVE  Controller!CoderStep
  <2>1. Controller!RequestApproval(t, f)
    BY <1>7, SameCoderGuards, SameCoderEvents
       DEF Controller!RequestApproval, Controller!SpareRun
  <2> QED BY <2>1 DEF Controller!CoderStep
<1>8. ASSUME NEW t \in TaskIds, NEW c \in ConfirmationIds, NEW f \in Fingerprints,
             CanConsumeApproval(s, t, c, f), events = ConsumeApprovalEvents(c)
      PROVE  Controller!CoderStep
  <2>1. Controller!ConsumeApproval(t, c, f)
    BY <1>8, SameCoderGuards, SameCoderEvents DEF Controller!ConsumeApproval
  <2> QED BY <2>1 DEF Controller!CoderStep
<1>9. Controller!CoderStep
  BY <1>1, <1>2, <1>3, <1>4, <1>5, <1>6, <1>7, <1>8 DEF CoderDecides
<1> QED BY <1>9 DEF Controller!Next

\* So is what anyone decides; what the boot decides is its recovery.
LEMMA DecisionIsStep ==
    ASSUME NEW events, Decides(Replay(log).state, events), Controller!Commit(events)
    PROVE  /\ Controller!Next
           /\ RecoveryDecides(Replay(log).state, events) => Controller!RecoverAfterRestart
<1>1. ASSUME RecoveryDecides(Replay(log).state, events)
      PROVE  Controller!RecoverAfterRestart
  BY <1>1, SameCoderGuards, SameCoderEvents
     DEF RecoveryDecides, Controller!RecoverAfterRestart, Controller!SpareRun
<1>2. ASSUME RecoveryDecides(Replay(log).state, events)
      PROVE  Controller!Next
  BY <1>1, <1>2 DEF Controller!Next
<1> QED BY <1>1, <1>2, UserStepTaken, CoderStepTaken DEF Decides

\* The log and its replay.
Recorded ==
    /\ log \in Seq(Events)
    /\ Replay(log) \in Applied
    /\ ~Replay(log).threw => Replay(log).seq = Len(log)
    /\ Replay(log).seq <= Len(log)

\* A decision that is taken on the replayed state is committed to the replayed
\* state: the log makes a step of TaskController.
LEMMA LogCommits ==
    ASSUME Recorded, ~Replay(log).threw, NEW events, Decides(Replay(log).state, events),
           log' = log \o events
    PROVE  /\ Controller!Commit(events)
           /\ Recorded'
           /\ Replay(log') = ApplyCommitted(Replay(log), events, Len(log))
           /\ Len(log') = Len(log) + Len(events)
<1> DEFINE r == Replay(log)
           n == ApplyCommitted(r, events, Len(log))
           d == ApplyDecision([state |-> r.state, ok |-> TRUE], events)
<1>1. /\ r.state \in ControllerStates /\ r.seq \in Nat /\ r.seq = Len(log)
      /\ events \in Seq(Events) /\ Len(events) \in 1..3
  BY DecisionTyped DEF Recorded, Applied
<1>2. InStep(n, d, Len(log) + Len(events))
  BY <1>1, DecisionInStep
<1>3. Replay(log') = n
  BY <1>1, ReplayGrows DEF Recorded
<1>4. log' \in Seq(Events) /\ Len(log') = Len(log) + Len(events)
  BY <1>1 DEF Recorded
<1>5. Recorded'
  BY <1>2, <1>3, <1>4 DEF Recorded, InStep
<1>6. Controller!ApplyDecision([state |-> r.state, ok |-> TRUE], events) = d
  BY <1>1, SameApplyDecision
<1>7. n.state = d.state /\ n.threw = ~d.ok
  BY <1>2 DEF InStep
<1>8. Controller!Commit(events)
  BY <1>3, <1>6, <1>7 DEF Controller!Commit
<1> QED BY <1>3, <1>4, <1>5, <1>8

\* When the replay throws, what is committed after that is not replayed.
LEMMA LogIsStuck ==
    ASSUME Recorded, Replay(log).threw, NEW events \in Seq(Events), log' = log \o events
    PROVE  Recorded' /\ Replay(log') = Replay(log) /\ Len(log') = Len(log) + Len(events)
<1>1. Replay(log') = Replay(log)
  BY ReplayGrows DEF Recorded
<1>2. log' \in Seq(Events) /\ Len(log') = Len(log) + Len(events) /\ Len(events) \in Nat
      /\ Len(log) \in Nat
  BY DEF Recorded
<1>3. Replay(log).seq <= Len(log')
  BY <1>2 DEF Recorded, Applied
<1> QED BY <1>1, <1>2, <1>3 DEF Recorded

-----------------------------------------------------------------------------
(* The invariant of the journal.                                           *)

\* The tables; a row of the commands table belongs to a command that was issued,
\* and a reply repeats a row or refuses a submission before there is one.
Tables ==
    /\ results \in [CommandIds -> Results]
    /\ replies \in [CommandIds -> SUBSET Answers]
    /\ requests \in [CommandIds -> Commands \cup {NoRequest}]
    /\ daemon \in {"up", "down", "broken"}
    /\ \A c \in CommandIds :
          /\ results[c] # "none" => requests[c] # NoRequest
          /\ \A answer \in replies[c] :
                answer = results[c]
                \/ (answer = "mismatch" /\ requests[c].type = "task.submit")

\* The memory is a state the log has reached; that of a daemon which is up is
\* what a restart would read, unless the replay throws.
Remembered ==
    /\ memory \in [state : ControllerStates, seq : Nat] /\ memory.seq <= Len(log)
    /\ (daemon = "up" /\ ~Replay(log).threw) =>
          memory = [state |-> Replay(log).state, seq |-> Replay(log).seq]
    /\ daemon = "broken" => Replay(log).threw

JournalInvariant == Recorded /\ Tables /\ Remembered

\* What the steps do to the log, the memory and the daemon.
Keeps == UNCHANGED <<log, memory, daemon>>
Commits ==
    /\ daemon = "up" /\ daemon' = "up"
    /\ \E events : /\ UserDecides(memory.state, events) \/ CoderDecides(memory.state, events)
                   /\ Journal(events)
Crashes ==
    /\ daemon = "up" /\ daemon' = "down" /\ UNCHANGED log
    /\ memory' = [state |-> EmptyState, seq |-> 0]
Breaks == daemon = "down" /\ daemon' = "broken" /\ Replay(log).threw /\ UNCHANGED <<log, memory>>
Boots ==
    /\ daemon = "down" /\ daemon' = "up" /\ ~Replay(log).threw
    /\ ~CanRecover(Replay(log).state) /\ UNCHANGED log
    /\ memory' = [state |-> Replay(log).state, seq |-> Replay(log).seq]
Recovers ==
    LET events  == RecoverEvents(Replay(log).state)
        applied == ApplyCommitted(Replay(log), events, Len(log))
    IN  /\ daemon = "down" /\ daemon' = "up" /\ ~Replay(log).threw
        /\ RecoveryDecides(Replay(log).state, events)
        /\ log' = log \o events
        /\ memory' = [state |-> applied.state, seq |-> applied.seq]

\* No event changes nothing.
LEMMA NothingApplied ==
    ASSUME NEW m, NEW base
    PROVE  ApplyCommitted(m, <<>>, base) = Start(m)
<1> DEFINE g == [i \in 0..0 |-> Start(m)]
<1>1. Applying(g, m, <<>>, base, 0)
  <2>1. g = [i \in 0..0 |-> g[i]] /\ g[0] = Start(m) /\ \A i \in 1..0 : FALSE
    OBVIOUS
  <2> HIDE DEF g
  <2> QED BY <2>1 DEF Applying
<1>2. Len(<<>>) = 0 /\ Len(<<>>) \in Nat /\ g[0] = Start(m)
  OBVIOUS
<1> HIDE DEF g
<1> QED BY <1>1, <1>2, CommittedIsLast

\* Journalling no events changes neither the log nor the memory.
LEMMA NoEvents ==
    ASSUME Recorded, memory \in [state : ControllerStates, seq : Nat], Journal(<<>>)
    PROVE  UNCHANGED <<log, memory>>
<1>1. ApplyCommitted(memory, <<>>, Len(log)) = Start(memory)
  BY NothingApplied
<1>2. memory' = [state |-> memory.state, seq |-> memory.seq]
  BY <1>1 DEF Journal, Start
<1>3. log' = log
  BY DEF Journal, Recorded
<1> QED BY <1>2, <1>3

\* Every step keeps log and memory, commits a decision, crashes, breaks or is a boot.
LEMMA StepKinds ==
    ASSUME JournalInvariant, Next
    PROVE  Keeps \/ Commits \/ Crashes \/ Breaks \/ Boots \/ Recovers
<1>0. Recorded /\ Tables /\ memory \in [state : ControllerStates, seq : Nat]
      /\ memory.state \in ControllerStates
  BY DEF JournalInvariant, Remembered
<1>1. ASSUME NEW command \in Commands, Issue(command) PROVE Keeps
  BY <1>1 DEF Issue, Keeps
<1>2. ASSUME NEW c \in CommandIds, Deliver(c) PROVE Keeps \/ Commits
  <2> DEFINE command == requests[c]
             s == memory.state
  <2>1. command \in UserCommands
    BY <1>0, <1>2, CommandsAssumption DEF Deliver, Tables
  <2>2. /\ daemon = "up" /\ daemon' = "up"
        /\ Journal(IF Accepts(s, command) THEN EventsOf(s, command) ELSE <<>>)
    BY <1>2 DEF Deliver, Execute
  <2>3. CASE Accepts(s, command)
    BY <1>0, <2>1, <2>2, <2>3, CommandsDecide DEF Commits
  <2>4. CASE ~Accepts(s, command)
    BY <1>0, <2>2, <2>4, NoEvents DEF Keeps
  <2> QED BY <2>3, <2>4
<1>3. ASSUME NEW c \in CommandIds, DeliverAgain(c) \/ RefuseMismatch(c) PROVE Keeps
  BY <1>3 DEF DeliverAgain, RefuseMismatch, Keeps
<1>4. ASSUME NEW events \in CoderDecisions(memory.state), Signal(events) PROVE Commits
  BY <1>4, SignalsDecide DEF Signal, Commits
<1>5. ASSUME Crash PROVE Crashes
  BY <1>5 DEF Crash, Crashes
<1>6. ASSUME Boot PROVE Breaks \/ Boots \/ Recovers
  <2> DEFINE r == Replay(log)
             events == RecoverEvents(r.state)
  <2>1. CASE r.threw
    BY <1>6, <2>1 DEF Boot, Breaks
  <2>2. CASE ~r.threw
    <3>1. daemon = "down" /\ daemon' = "up" /\ Recover(r)
      BY <1>6, <2>2 DEF Boot
    <3>2. CASE CanRecover(r.state)
      BY <2>2, <3>1, <3>2 DEF Recover, Recovers, RecoveryDecides
    <3>3. CASE ~CanRecover(r.state)
      <4>1. ApplyCommitted(r, <<>>, Len(log)) = Start(r)
        BY NothingApplied
      <4>2. log' = log \o <<>> /\ memory' = [state |-> r.state, seq |-> r.seq]
        BY <3>1, <3>3, <4>1 DEF Recover, Start
      <4>3. log' = log
        BY <1>0, <4>2 DEF Recorded
      <4> QED BY <2>2, <3>1, <3>3, <4>2, <4>3 DEF Boots
    <3> QED BY <3>2, <3>3
  <2> QED BY <2>1, <2>2
<1> QED BY <1>1, <1>2, <1>3, <1>4, <1>5, <1>6 DEF Next

\* A memory that has not seen the last event takes no more of them; one that has
\* takes those that apply.
LEMMA MemoryAdvances ==
    ASSUME NEW m, m.state \in ControllerStates, m.seq \in Nat, NEW base \in Nat,
           m.seq <= base, NEW events, Decides(m.state, events)
    PROVE  LET n == ApplyCommitted(m, events, base)
           IN  n.state \in ControllerStates /\ n.seq \in Nat /\ n.seq <= base + Len(events)
<1> DEFINE n == ApplyCommitted(m, events, base)
<1>1. events \in Seq(Events) /\ Len(events) \in 1..3
  BY DecisionTyped
<1>2. CASE m.seq = base
  <2>1. InStep(n, ApplyDecision([state |-> m.state, ok |-> TRUE], events), base + Len(events))
    BY <1>1, <1>2, DecisionInStep
  <2> QED BY <2>1 DEF InStep, Applied
<1>3. CASE m.seq # base
  <2>1. n.state = m.state /\ n.seq = m.seq
    BY <1>1, <1>3, OutOfStep
  <2>2. Len(events) \in Nat
    BY <1>1
  <2>3. \A x, y : x = m.state /\ y = m.seq =>
           x \in ControllerStates /\ y \in Nat /\ y <= base + Len(events)
    BY <2>2
  <2> QED BY <2>1, <2>3
<1> QED BY <1>2, <1>3

\* What is applied depends on the state and the seq only.
LEMMA SameStart ==
    ASSUME NEW m, NEW n, m.state = n.state, m.seq = n.seq,
           NEW events, Len(events) \in 1..3, NEW base
    PROVE  ApplyCommitted(m, events, base) = ApplyCommitted(n, events, base)
<1>1. Start(m) = Start(n)
  BY DEF Start
<1> QED BY <1>1, FewApplied DEF Few

\* Every step of the journal is a step of TaskController on the replayed log, or
\* leaves it as it is.
LEMMA LogStep ==
    ASSUME JournalInvariant, Keeps \/ Commits \/ Crashes \/ Breaks \/ Boots \/ Recovers
    PROVE  /\ Recorded' /\ Remembered'
           /\ Controller!Next \/ UNCHANGED Replay(log)
           /\ Recovers => Controller!RecoverAfterRestart
           /\ (daemon' = "up" /\ ~Replay(log).threw) =>
                 memory' = [state |-> Replay(log').state, seq |-> Replay(log').seq]
<1> DEFINE r == Replay(log)
<1>0. /\ Recorded /\ Remembered
      /\ memory \in [state : ControllerStates, seq : Nat] /\ memory.seq <= Len(log)
      /\ memory.state \in ControllerStates /\ memory.seq \in Nat /\ Len(log) \in Nat
      /\ r \in Applied /\ r.state \in ControllerStates /\ r.seq \in Nat
  BY DEF JournalInvariant, Remembered, Recorded, Applied
<1>1. ASSUME UNCHANGED log
      PROVE  Recorded' /\ UNCHANGED Replay(log)
  BY <1>0, <1>1 DEF Recorded
<1>2. CASE Keeps
  <2>1. UNCHANGED <<log, memory, daemon>> /\ ~Recovers
    BY <1>2 DEF Keeps, Recovers
  <2> QED BY <1>0, <1>1, <2>1 DEF Remembered
<1>3. CASE Crashes
  <2>1. UNCHANGED log /\ memory' = [state |-> EmptyState, seq |-> 0] /\ daemon' = "down"
        /\ daemon = "up"
    BY <1>3 DEF Crashes
  <2>2. memory' \in [state : ControllerStates, seq : Nat] /\ memory'.seq <= Len(log')
    BY <1>0, <2>1, EmptyStateTyped
  <2> QED BY <1>1, <2>1, <2>2 DEF Remembered, Recovers
<1>4. CASE Breaks
  <2>1. UNCHANGED <<log, memory>> /\ daemon' = "broken" /\ r.threw
    BY <1>4 DEF Breaks
  <2> QED BY <1>0, <1>1, <2>1 DEF Remembered, Recovers
<1>5. CASE Boots
  <2>1. UNCHANGED log /\ memory' = [state |-> r.state, seq |-> r.seq] /\ daemon' = "up"
        /\ ~CanRecover(r.state)
    BY <1>5 DEF Boots
  <2>2. memory' \in [state : ControllerStates, seq : Nat] /\ memory'.seq <= Len(log')
    BY <1>0, <2>1 DEF Recorded
  <2>3. Replay(log') = r
    BY <1>1, <2>1
  <2>4. ~Recovers
    BY <2>1 DEF Recovers, RecoveryDecides
  <2> QED BY <1>1, <2>1, <2>2, <2>3, <2>4 DEF Remembered
<1>6. CASE Recovers
  <2> DEFINE events == RecoverEvents(r.state)
             n == ApplyCommitted(r, events, Len(log))
  <2>1. /\ ~r.threw /\ Decides(r.state, events) /\ RecoveryDecides(r.state, events)
        /\ log' = log \o events /\ daemon' = "up"
        /\ memory' = [state |-> n.state, seq |-> n.seq]
    BY <1>6 DEF Recovers, Decides
  <2>2. /\ Controller!Commit(events) /\ Recorded' /\ Replay(log') = n
        /\ Len(log') = Len(log) + Len(events)
    BY <1>0, <2>1, LogCommits
  <2>3. Controller!Next /\ Controller!RecoverAfterRestart
    BY <2>1, <2>2, DecisionIsStep
  <2>4. n.state \in ControllerStates /\ n.seq \in Nat /\ n.seq <= Len(log')
    BY <2>2 DEF Recorded, Applied
  <2>5. memory' \in [state : ControllerStates, seq : Nat] /\ memory'.seq <= Len(log')
    BY <2>1, <2>4
  <2>6. memory' = [state |-> Replay(log').state, seq |-> Replay(log').seq]
    BY <2>1, <2>2
  <2> QED BY <2>1, <2>2, <2>3, <2>5, <2>6 DEF Remembered
<1>7. CASE Commits
  <2>1. daemon = "up" /\ daemon' = "up" /\ ~Recovers
    BY <1>7 DEF Commits, Recovers
  <2>2. PICK events : /\ UserDecides(memory.state, events) \/ CoderDecides(memory.state, events)
                      /\ Journal(events)
    BY <1>7 DEF Commits
  <2> DEFINE n == ApplyCommitted(memory, events, Len(log))
  <2>3. /\ Decides(memory.state, events) /\ log' = log \o events
        /\ memory' = [state |-> n.state, seq |-> n.seq]
    BY <2>2 DEF Decides, Journal
  <2>4. n.state \in ControllerStates /\ n.seq \in Nat /\ n.seq <= Len(log) + Len(events)
    BY <1>0, <2>3, MemoryAdvances
  <2> HIDE DEF n
  <2>5. events \in Seq(Events) /\ Len(events) \in 1..3
    BY <1>0, <2>3, DecisionTyped
  <2>6. CASE r.threw
    <3>1. Recorded' /\ Replay(log') = r /\ Len(log') = Len(log) + Len(events)
      BY <1>0, <2>3, <2>5, <2>6, LogIsStuck
    <3>2. memory' \in [state : ControllerStates, seq : Nat] /\ memory'.seq <= Len(log')
      BY <2>3, <2>4, <3>1
    <3>3. Replay(log').threw
      BY <2>6, <3>1
    <3> QED BY <2>1, <3>1, <3>2, <3>3 DEF Remembered
  <2>7. CASE ~r.threw
    <3>1. memory.state = r.state /\ memory.seq = r.seq
      BY <1>0, <2>1, <2>7 DEF Remembered
    <3>2. /\ Controller!Commit(events) /\ Recorded'
          /\ Replay(log') = ApplyCommitted(r, events, Len(log))
          /\ Len(log') = Len(log) + Len(events)
      BY <1>0, <2>3, <2>7, <3>1, LogCommits
    <3>3. n = Replay(log')
      BY <2>5, <3>1, <3>2, SameStart DEF n
    <3>4. Controller!Next
      BY <2>3, <3>1, <3>2, DecisionIsStep
    <3>5. memory' \in [state : ControllerStates, seq : Nat] /\ memory'.seq <= Len(log')
      BY <2>3, <2>4, <3>2
    <3>6. memory' = [state |-> Replay(log').state, seq |-> Replay(log').seq]
      BY <2>3, <3>3
    <3> QED BY <2>1, <3>2, <3>4, <3>5, <3>6 DEF Remembered
  <2> QED BY <2>6, <2>7
<1> QED BY <1>2, <1>3, <1>4, <1>5, <1>6, <1>7

\* The tables stay as they should.
LEMMA TablesKept ==
    ASSUME Tables, [Next]_vars
    PROVE  Tables'
<1> USE DEF Tables
<1>1. ASSUME NEW command \in Commands, Issue(command)
      PROVE  Tables'
  <2> DEFINE unused == {c \in CommandIds : requests[c] = NoRequest}
             chosen == CHOOSE c \in unused : TRUE
  <2>1. chosen \in CommandIds /\ requests[chosen] = NoRequest
    BY <1>1 DEF Issue
  <2>2. requests' = [requests EXCEPT ![chosen] = command]
        /\ UNCHANGED <<results, replies, daemon>>
    BY <1>1 DEF Issue
  <2> HIDE DEF chosen
  <2>3. requests' \in [CommandIds -> Commands \cup {NoRequest}]
    BY <2>1, <2>2
  <2>4. \A c \in CommandIds : c # chosen => requests'[c] = requests[c]
    BY <2>2
  <2>5. results[chosen] = "none" /\ requests[chosen].type = "none"
    BY <2>1 DEF NoRequest
  <2>6. replies[chosen] = {}
    BY <2>1, <2>5 DEF Answers
  <2> QED BY <2>2, <2>3, <2>4, <2>5, <2>6
<1>2. ASSUME NEW c \in CommandIds, Deliver(c)
      PROVE  Tables'
  <2> DEFINE result == ResultOf(memory.state, requests[c])
  <2>1. /\ requests[c] # NoRequest /\ results[c] = "none"
        /\ results' = [results EXCEPT ![c] = result]
        /\ replies' = [replies EXCEPT ![c] = @ \cup {result}] \/ UNCHANGED replies
        /\ UNCHANGED <<requests, daemon>>
    BY <1>2 DEF Deliver, Execute
  <2>2. result \in Results /\ result \in Answers
    BY DEF ResultOf, Results, Answers
  <2> HIDE DEF result
  <2>3. \A answer \in replies[c] : answer = "mismatch" /\ requests[c].type = "task.submit"
    BY <2>1 DEF Answers
  <2>4. replies[c] \cup {result} \in SUBSET Answers
    BY <2>2
  <2>5. results' \in [CommandIds -> Results] /\ replies' \in [CommandIds -> SUBSET Answers]
    BY <2>1, <2>2, <2>4
  <2>6. \A d \in CommandIds \ {c} : results'[d] = results[d] /\ replies'[d] = replies[d]
    BY <2>1
  <2>7. replies'[c] \subseteq replies[c] \cup {results'[c]}
    BY <2>1, <2>2
  <2> QED BY <2>1, <2>3, <2>5, <2>6, <2>7
<1>3. ASSUME NEW c \in CommandIds, NEW answer \in Answers,
             answer = results[c] \/ (answer = "mismatch" /\ requests[c].type = "task.submit"),
             replies' = [replies EXCEPT ![c] = @ \cup {answer}],
             UNCHANGED <<results, requests, daemon>>
      PROVE  Tables'
  <2>1. replies[c] \cup {answer} \in SUBSET Answers
    OBVIOUS
  <2>2. /\ replies' \in [CommandIds -> SUBSET Answers]
        /\ replies'[c] = replies[c] \cup {answer}
        /\ \A d \in CommandIds \ {c} : replies'[d] = replies[d]
    BY <1>3, <2>1
  <2> QED BY <1>3, <2>2
<1>4. ASSUME NEW c \in CommandIds, DeliverAgain(c) \/ RefuseMismatch(c)
      PROVE  Tables'
  <2>1. CASE DeliverAgain(c)
    <3>1. results[c] \in Answers
      BY <2>1 DEF DeliverAgain, Results, Answers
    <3> QED BY <1>3, <2>1, <3>1 DEF DeliverAgain
  <2>2. CASE RefuseMismatch(c)
    <3>1. "mismatch" \in Answers
      BY DEF Answers
    <3> QED BY <1>3, <2>2, <3>1 DEF RefuseMismatch
  <2> QED BY <1>4, <2>1, <2>2
<1>5. ASSUME UNCHANGED <<results, requests, replies>>, daemon' \in {"up", "down", "broken"}
      PROVE  Tables'
  BY <1>5
<1>6. ASSUME NEW events, Signal(events)
      PROVE  Tables'
  BY <1>5, <1>6 DEF Signal
<1>7. ASSUME Crash \/ Boot \/ UNCHANGED vars
      PROVE  Tables'
  <2>1. UNCHANGED <<results, requests, replies>> /\ daemon' \in {"up", "down", "broken"}
    BY <1>7 DEF Crash, Boot, vars
  <2> QED BY <1>5, <2>1
<1> HIDE DEF Tables
<1> QED BY <1>1, <1>2, <1>4, <1>6, <1>7 DEF Next

\* The journal starts with nothing recorded.
LEMMA InvariantAtStart == Init => JournalInvariant /\ Controller!Init
<1> SUFFICES ASSUME Init PROVE JournalInvariant /\ Controller!Init
  OBVIOUS
<1>1. Replay(log) = [state |-> EmptyState, seq |-> 0, threw |-> FALSE]
  BY NothingReplayed DEF Init
<1>2. log \in Seq(Events) /\ Len(log) = 0
  BY DEF Init
<1>3. Recorded
  BY <1>1, <1>2, EmptyStateTyped DEF Recorded, Applied
<1>4. Tables
  BY DEF Init, Tables, Results
<1>5. memory = [state |-> EmptyState, seq |-> 0] /\ daemon = "up"
  BY DEF Init
<1>6. Remembered
  BY <1>1, <1>2, <1>5, EmptyStateTyped DEF Remembered
<1>7. Controller!Init
  BY <1>1, SameTypes DEF Controller!Init
<1> QED BY <1>3, <1>4, <1>6, <1>7 DEF JournalInvariant

\* One step of the journal.
LEMMA JournalStep ==
    ASSUME JournalInvariant, [Next]_vars
    PROVE  /\ JournalInvariant'
           /\ Controller!Next \/ UNCHANGED Replay(log)
           /\ Keeps \/ Commits \/ Crashes \/ Breaks \/ Boots \/ Recovers
<1>1. Tables'
  BY TablesKept DEF JournalInvariant
<1>2. Keeps \/ Commits \/ Crashes \/ Breaks \/ Boots \/ Recovers
  <2>1. CASE Next
    BY <2>1, StepKinds
  <2>2. CASE UNCHANGED vars
    BY <2>2 DEF vars, Keeps
  <2> QED BY <2>1, <2>2
<1>3. Recorded' /\ Remembered' /\ (Controller!Next \/ UNCHANGED Replay(log))
  BY <1>2, LogStep
<1> QED BY <1>1, <1>2, <1>3 DEF JournalInvariant

\* Log, tables and memory fit each other in every state (handle, replay).
LEMMA JournalInvariantHolds == Spec => []JournalInvariant
<1>1. Init => JournalInvariant
  BY InvariantAtStart
<1>2. JournalInvariant /\ [Next]_vars => JournalInvariant'
  BY JournalStep
<1> QED BY <1>1, <1>2, PTL DEF Spec

\* The tables, the memory and the daemon are what their types say: a row of the
\* commands table belongs to a command that was issued, and the memory never runs
\* ahead of the log.
THEOREM JournalTyped == Spec => []TypeOK
<1>1. JournalInvariant => TypeOK
  <2> SUFFICES ASSUME JournalInvariant PROVE TypeOK
    OBVIOUS
  <2>1. Tables /\ memory.seq \in Nat /\ memory.seq <= Len(log) /\ Len(log) \in Nat
    BY DEF JournalInvariant, Remembered, Recorded
  <2>2. memory.seq \in 0..Len(log)
    BY <2>1
  <2> QED BY <2>1, <2>2 DEF Tables, TypeOK
<1> QED BY <1>1, JournalInvariantHolds, PTL

\* What was replied stays true: the row of a command is written once, in the
\* transaction of its events, and every later delivery reads that row, unless the
\* submission is refused before the journal is asked.
THEOREM RepliesStay == Spec => []RepliesAreDurable
<1>1. JournalInvariant => RepliesAreDurable
  BY DEF JournalInvariant, Tables, RepliesAreDurable
<1> QED BY <1>1, JournalInvariantHolds, PTL

\* The log is a task controller: what it says is a state of TaskController, which
\* changes by the commands, signals and recovery of TaskController only, whatever
\* is delivered twice, lost or cut short by a crash.
THEOREM LogIsAController == Spec => Controller!Spec
<1>1. Init => Controller!Init
  BY InvariantAtStart
<1>2. JournalInvariant /\ [Next]_vars => [Controller!Next]_Controller!vars
  <2> SUFFICES ASSUME JournalInvariant, [Next]_vars
               PROVE  Controller!Next \/ UNCHANGED Controller!vars
    OBVIOUS
  <2>1. UNCHANGED Replay(log) => UNCHANGED Controller!vars
    BY DEF Controller!vars
  <2> QED BY <2>1, JournalStep
<1> QED BY <1>1, <1>2, JournalInvariantHolds, PTL DEF Spec, Controller!Spec

-----------------------------------------------------------------------------
(* What is proved of TaskController is true of the log.                    *)

\* The controller that the log is throws by a cancellation only.
LEMMA LogWedges == Spec => []Controller!OnlyCancelWedges
BY LogIsAController, Controller!NothingElseWedges, NoneAssumption, ProfilesAssumption, PTL

\* A log that cannot be replayed, after which the daemon never boots again, comes
\* from the cancellation of a task with an open question, and from nothing else.
THEOREM OnlyCancellationBreaksBoot == Spec => []OnlyCancelBreaksBoot
<1>1. JournalInvariant /\ Controller!OnlyCancelWedges => OnlyCancelBreaksBoot
  BY DEF JournalInvariant, Remembered, Controller!OnlyCancelWedges, Controller!StateOf,
         OnlyCancelBreaksBoot, CancelledWithOpenQuestion, Controller!OpenQuestions,
         OpenQuestions
<1> QED BY <1>1, JournalInvariantHolds, LogWedges, PTL

-----------------------------------------------------------------------------
(* A daemon whose assertion failed goes on with the memory it has.  No     *)
(* decision takes it out of that state: the first event of one leaves the  *)
(* cancelled task and its open question as they are, so it throws again,   *)
(* and the rest of the decision is not applied.                            *)

\* The question that is open for a task which is over.
Orphaned(s, t, q) ==
    /\ t \in TaskIds /\ s.tasks[t].state = "cancelled"
    /\ q \in OpenQuestions(s, t)

\* An event that names neither the task nor the question, but for the session of
\* the coder, which can be recorded for a task whatever its state.
Spares(e, t, q) ==
    /\ e.type \in Controller!TaskTypes /\ e.taskId = t => e.type = "coder.sessionBound"
    /\ e.type \in {"task.questionAsked", "task.questionAnswered"} => e.questionId # q

\* A decision starts with an event of a task that is not over.
LEMMA FirstEventSpares ==
    ASSUME NEW s \in ControllerStates, NEW t, NEW q, Orphaned(s, t, q),
           NEW events, UserDecides(s, events) \/ CoderDecides(s, events)
    PROVE  Spares(events[1], t, q)
<1> DEFINE e == events[1]
<1>1. /\ s.tasks[t].state = "cancelled" /\ t \in TaskIds
      /\ q \in QuestionIds /\ s.questions[q].taskId = t /\ s.questions[q].state = "open"
  BY DEF Orphaned, OpenQuestions
<1>2. ASSUME e.taskId # t, e.type \notin {"task.questionAsked", "task.questionAnswered"}
      PROVE  Spares(e, t, q)
  BY <1>2 DEF Spares
<1>3. ASSUME e.type \notin Controller!TaskTypes, e.type # "task.questionAnswered"
      PROVE  Spares(e, t, q)
  BY <1>3 DEF Spares, Controller!TaskTypes, Controller!TaskIsRequired
<1>4. ASSUME NEW profile \in Profiles, CanSubmit(s), events = SubmitEvents(s, profile)
      PROVE  Spares(e, t, q)
  <2>1. e.type = "task.created" /\ e.taskId = NewTask(s)
    BY <1>4 DEF SubmitEvents
  <2>2. s.tasks[NewTask(s)].state = "none"
    BY <1>4 DEF CanSubmit, TaskLeft, NewTask
  <2> QED BY <1>1, <1>2, <2>1, <2>2
<1>5. ASSUME NEW u \in TaskIds, NEW operation, NEW anchor,
             events = MoveQueueEvents(s, u, operation, anchor)
      PROVE  Spares(e, t, q)
  <2>1. e.type = "queue.reordered"
    BY <1>5 DEF MoveQueueEvents
  <2> QED BY <1>3, <2>1 DEF Controller!TaskTypes, Controller!TaskIsRequired
<1>6. ASSUME NEW u \in TaskIds, NEW expected, CanRequestPause(s, u, expected),
             events = RequestPauseEvents(u)
      PROVE  Spares(e, t, q)
  <2>1. e.type = "task.pauseRequested" /\ e.taskId = u /\ s.tasks[u].state = "running"
    BY <1>6 DEF RequestPauseEvents, CanRequestPause
  <2> QED BY <1>1, <1>2, <2>1
<1>7. ASSUME NEW u \in TaskIds, NEW expected, CanResume(s, u, expected),
             events = ResumeEvents(s, u)
      PROVE  Spares(e, t, q)
  <2>1. /\ e.type \in {"workspace.conflictResolved", "task.resumed"} /\ e.taskId = u
        /\ s.tasks[u].state \in {"paused", "awaiting_user"}
    BY <1>7 DEF ResumeEvents, ResumeEvent, CanResume, Resumable
  <2> QED BY <1>1, <1>2, <2>1
<1>8. ASSUME NEW u \in TaskIds, NEW expected, CanCancel(s, u, expected),
             events = CancelEvents(s, u)
      PROVE  Spares(e, t, q)
  <2>1. /\ e.type = "task.cancelled" /\ e.taskId = u
        /\ s.tasks[u].state \notin TerminalStates
    BY <1>8 DEF CancelEvents, AndStartNext, CanCancel
  <2> QED BY <1>1, <1>2, <2>1 DEF TerminalStates
<1>9. ASSUME NEW u \in TaskIds, NEW expected, NEW profile, CanRevise(s, u, expected),
             events = ReviseEvents(s, u, profile)
      PROVE  Spares(e, t, q)
  <2>1. /\ e.type = "task.specRevised" /\ e.taskId = u
        /\ s.tasks[u].state \in {"paused", "awaiting_user"}
    BY <1>9 DEF ReviseEvents, CanRevise, Resumable
  <2> QED BY <1>1, <1>2, <2>1
<1>10. ASSUME NEW u \in TaskIds, NEW expected, NEW p, CanAnswerQuestion(s, u, p, expected),
              events = AnswerQuestionEvents(s, u, p)
       PROVE  Spares(e, t, q)
  <2>1. e.type = "task.questionAnswered" /\ e.taskId = u /\ e.questionId = p
    BY <1>10 DEF AnswerQuestionEvents
  <2>2. s.questions[p].taskId = u /\ s.tasks[u].state = "awaiting_user"
    BY <1>10 DEF CanAnswerQuestion
  <2> QED BY <1>1, <2>1, <2>2 DEF Spares
<1>11. ASSUME NEW c, NEW decision, events = ResolveApprovalEvents(s, c, decision)
       PROVE  Spares(e, t, q)
  <2>1. e.type = "approval.resolved"
    BY <1>11 DEF ResolveApprovalEvents
  <2> QED BY <1>3, <2>1 DEF Controller!TaskTypes, Controller!TaskIsRequired
<1>12. CASE UserDecides(s, events)
  BY <1>12, <1>4, <1>5, <1>6, <1>7, <1>8, <1>9, <1>10, <1>11 DEF UserDecides
<1>13. ASSUME NEW u \in TaskIds, CanPauseAtSafeBoundary(s, u),
              events = PauseAtSafeBoundaryEvents(s, u)
       PROVE  Spares(e, t, q)
  <2>1. e.type = "task.paused" /\ e.taskId = u /\ s.tasks[u].state = "pause_requested"
    BY <1>13 DEF PauseAtSafeBoundaryEvents, CanPauseAtSafeBoundary
  <2> QED BY <1>1, <1>2, <2>1
<1>14. ASSUME NEW u \in TaskIds, CanReportWorkspaceConflict(s, u),
              events = ReportWorkspaceConflictEvents(s, u)
       PROVE  Spares(e, t, q)
  <2>1. e.type = "workspace.conflictDetected" /\ e.taskId = u /\ s.tasks[u].state = "running"
    BY <1>14 DEF ReportWorkspaceConflictEvents, CanReportWorkspaceConflict, InRun
  <2> QED BY <1>1, <1>2, <2>1
<1>15. ASSUME NEW u \in TaskIds, CanFinish(s, u),
              events \in {CompleteEvents(s, u), FailEvents(s, u)}
       PROVE  Spares(e, t, q)
  <2>1. /\ e.type \in {"task.completed", "task.failed"} /\ e.taskId = u
        /\ s.tasks[u].state \in {"running", "pause_requested"}
    BY <1>15 DEF CompleteEvents, FailEvents, AndStartNext, CanFinish
  <2> QED BY <1>1, <1>2, <2>1
<1>16. ASSUME NEW u \in TaskIds, NEW p, CanAwaitUserInput(s, u, p),
              events = AwaitUserInputEvents(s, u, p)
       PROVE  Spares(e, t, q)
  <2>1. e.type = "task.questionAsked" /\ e.taskId = u /\ e.questionId = p
    BY <1>16 DEF AwaitUserInputEvents
  <2>2. s.questions[p].state = "none" /\ s.tasks[u].state = "running"
    BY <1>16 DEF CanAwaitUserInput, InRun
  <2> QED BY <1>1, <2>1, <2>2 DEF Spares
<1>17. ASSUME NEW u \in TaskIds, NEW r, events = RecordCoderSessionEvents(u, r)
       PROVE  Spares(e, t, q)
  <2>1. e.type = "coder.sessionBound"
    BY <1>17 DEF RecordCoderSessionEvents
  <2> QED BY <2>1 DEF Spares
<1>18. ASSUME NEW u, NEW f, NEW c,
              events \in {RequestApprovalEvents(s, u, f), ConsumeApprovalEvents(c)}
       PROVE  Spares(e, t, q)
  <2>1. e.type \in {"approval.requested", "approval.consumed"}
    BY <1>18 DEF RequestApprovalEvents, ConsumeApprovalEvents
  <2> QED BY <1>3, <2>1 DEF Controller!TaskTypes, Controller!TaskIsRequired
<1>19. CASE CoderDecides(s, events)
  BY <1>19, <1>13, <1>14, <1>15, <1>16, <1>17, <1>18 DEF CoderDecides
<1> QED BY <1>12, <1>19

\* Such an event leaves the question to the task that is over.
LEMMA OrphanStays ==
    ASSUME NEW s \in ControllerStates, NEW t, NEW q, Orphaned(s, t, q),
           NEW e \in Events, Spares(e, t, q)
    PROVE  Orphaned(Apply(s, e), t, q)
<1> DEFINE n == Apply(s, e)
<1>1. /\ s \in Controller!ControllerStates /\ e \in Controller!Events
      /\ Controller!Apply(s, e) = n
  BY SameTypes, SameApply
<1>2. /\ s.tasks[t].state = "cancelled" /\ t \in TaskIds
      /\ q \in QuestionIds /\ s.questions[q].taskId = t /\ s.questions[q].state = "open"
  BY DEF Orphaned, OpenQuestions
<1>3. Controller!Shape(s)
  BY <1>1, Controller!StatesHaveShape, NoneAssumption, ProfilesAssumption
<1> HIDE DEF n
<1>4. n.tasks[t].state = "cancelled"
  <2>1. CASE e.type \in Controller!TaskTypes
    <3>1. /\ \A u \in TaskIds : u # e.taskId => n.tasks[u] = s.tasks[u]
          /\ Controller!After(e, s.tasks[e.taskId], n.tasks[e.taskId])
      BY <1>1, <2>1, Controller!TaskEffect, NoneAssumption, ProfilesAssumption
    <3>2. CASE e.taskId # t
      BY <1>2, <3>1, <3>2
    <3>3. CASE e.taskId = t
      <4>1. e.type = "coder.sessionBound"
        BY <2>1, <3>3 DEF Spares
      <4> QED BY <1>2, <3>1, <3>3, <4>1 DEF Controller!After, Controller!KeepsState
    <3> QED BY <3>2, <3>3
  <2>2. CASE e.type \notin Controller!TaskTypes
    BY <1>1, <1>2, <2>2, Controller!OtherFrame, NoneAssumption, ProfilesAssumption
  <2> QED BY <2>1, <2>2
<1>5. n.questions[q] = s.questions[q]
  <2>1. CASE e.type = "task.questionAsked"
    <3>1. n.questions = [s.questions EXCEPT ![e.questionId] =
                            [taskId |-> e.taskId, taskRevision |-> e.revision,
                             runId |-> e.runId, state |-> "open"]]
      BY <1>1, <2>1, Controller!AskedQuestion, NoneAssumption, ProfilesAssumption
    <3>2. e.questionId # q
      BY <2>1 DEF Spares
    <3>3. s.questions \in [QuestionIds -> Question]
      BY FieldsTyped
    <3> QED BY <1>2, <3>1, <3>2, <3>3
  <2>2. CASE e.type = "task.questionAnswered"
    <3> DEFINE after == [s.questions[e.questionId] EXCEPT !.state = "answered"]
    <3>1. n = TaskQuestionAnswered(s, e)
      BY <2>2, ApplyCases DEF n
    <3>2. n.questions = [s.questions EXCEPT ![e.questionId] = after]
      BY <1>3, <3>1 DEF TaskQuestionAnswered, Controller!Shape
    <3>3. e.questionId # q
      BY <2>2 DEF Spares
    <3>4. s.questions \in [QuestionIds -> Question]
      BY FieldsTyped
    <3> HIDE DEF after
    <3> QED BY <1>2, <3>2, <3>3, <3>4
  <2>3. CASE e.type = "task.specRevised"
    <3>1. Controller!TaskSpecRevised(s, e) = n
      <4>1. n = TaskSpecRevised(s, e)
        BY <2>3, ApplyCases DEF n
      <4> QED BY <4>1, SameRevised
    <3>2. n.questions = Controller!QuestionsLeft(s, e.taskId)
      BY <1>3, <3>1, Controller!RevisedFrame, NoneAssumption, ProfilesAssumption
    <3>3. e.taskId # t
      BY <2>3 DEF Spares, Controller!TaskTypes, Controller!TaskIsRequired
    <3> QED BY <1>2, <3>2, <3>3 DEF Controller!QuestionsLeft
  <2>4. CASE e.type \notin {"task.questionAsked", "task.questionAnswered", "task.specRevised"}
    <3>1. CASE e.type \in Controller!TaskTypes
      BY <1>1, <2>4, <3>1, Controller!TaskEffect, NoneAssumption, ProfilesAssumption
         DEF Controller!QuestionTypes
    <3>2. CASE e.type \notin Controller!TaskTypes
      BY <1>1, <2>4, <3>2, Controller!OtherFrame, NoneAssumption, ProfilesAssumption
    <3> QED BY <3>1, <3>2
  <2> QED BY <2>1, <2>2, <2>3, <2>4
<1> QED BY <1>2, <1>4, <1>5 DEF Orphaned, OpenQuestions, n

\* What a decision leaves of the memory of such a daemon is no better.
LEMMA MemoryStaysWrong ==
    ASSUME NEW m, m.state \in ControllerStates, m.seq \in Nat,
           CancelledWithOpenQuestion(m.state), NEW base \in Nat,
           NEW events, UserDecides(m.state, events) \/ CoderDecides(m.state, events)
    PROVE  CancelledWithOpenQuestion(ApplyCommitted(m, events, base).state)
<1>1. PICK t, q : Orphaned(m.state, t, q)
  BY DEF CancelledWithOpenQuestion, Orphaned
<1> DEFINE e == events[1]
           n == Apply(m.state, e)
           m1 == ApplyNext(Start(m), e, base + 1)
<1>2. events \in Seq(Events) /\ Len(events) \in 1..3
  BY DecisionTyped DEF Decides
<1>3. e \in Events
  BY <1>2
<1>4. Orphaned(n, t, q)
  BY <1>1, <1>3, FirstEventSpares, OrphanStays
<1>5. ~StateInvariants(n)
  BY <1>4 DEF Orphaned, StateInvariants
<1>6. m1.threw /\ m1.state \in {m.state, n}
  <2> DEFINE m0 == Start(m)
  <2>1. m0 = [state |-> m.state, seq |-> m.seq, threw |-> FALSE]
    BY DEF Start
  <2>2. m0.state = m.state /\ ~m0.threw
    BY <2>1
  <2>3. CASE base + 1 # m0.seq + 1 \/ ~Fits(m0.state, e)
    <3>1. m1 = [m0 EXCEPT !.threw = TRUE]
      BY <2>2, <2>3 DEF ApplyNext
    <3> HIDE DEF m1, m0
    <3> QED BY <2>1, <3>1
  <2>4. CASE ~(base + 1 # m0.seq + 1 \/ ~Fits(m0.state, e))
    <3>1. m1 = [state |-> n, seq |-> base + 1, threw |-> ~StateInvariants(n)]
      BY <2>2, <2>4 DEF ApplyNext
    <3> HIDE DEF m1, n
    <3> QED BY <1>5, <3>1
  <2> QED BY <2>3, <2>4
<1>7. ApplyCommitted(m, events, base) = m1
  <2>1. ApplyCommitted(m, events, base) = Few(m, events, base)
    BY <1>2, FewApplied
  <2> HIDE DEF e
  <2>2. \A f, seq : m1.threw => ApplyNext(m1, f, seq) = m1
    BY DEF ApplyNext
  <2>3. Few(m, events, base) = m1
    <3>1. m1 = ApplyNext(Start(m), events[1], base + 1)
      BY DEF e
    <3> HIDE DEF m1
    <3> QED BY <1>6, <2>2, <3>1 DEF Few
  <2> QED BY <2>1, <2>3
<1> HIDE DEF m1, n
<1>8. Orphaned(m1.state, t, q)
  BY <1>1, <1>4, <1>6
<1> QED BY <1>7, <1>8 DEF Orphaned, CancelledWithOpenQuestion

\* A daemon that is up while the log cannot be replayed has such a memory.
WrongMemory ==
    (daemon = "up" /\ Replay(log).threw) => CancelledWithOpenQuestion(memory.state)

\* A memory that is behind a log which cannot be replayed stays orphaned by every step.
LEMMA WrongMemoryStep ==
    ASSUME JournalInvariant, WrongMemory, [Next]_vars, Controller!OnlyCancelWedges'
    PROVE  WrongMemory'
<1> DEFINE r == Replay(log)
<1>1. Keeps \/ Commits \/ Crashes \/ Breaks \/ Boots \/ Recovers
  BY JournalStep
<1>2. SUFFICES ASSUME daemon' = "up", Replay(log').threw
               PROVE  CancelledWithOpenQuestion(memory'.state)
  BY DEF WrongMemory, CancelledWithOpenQuestion, OpenQuestions
<1>3. CASE ~r.threw
  <2>1. memory' = [state |-> Replay(log').state, seq |-> Replay(log').seq]
    BY <1>1, <1>2, <1>3, LogStep
  <2>2. memory'.state = Replay(log').state
    BY <2>1
  <2>3. CancelledWithOpenQuestion(Replay(log').state)
    BY <1>2 DEF Controller!OnlyCancelWedges, Controller!StateOf, Controller!OpenQuestions,
                CancelledWithOpenQuestion, OpenQuestions
  <2> QED BY <2>2, <2>3
<1>4. CASE r.threw
  <2>1. Keeps \/ Commits
    BY <1>1, <1>2, <1>4 DEF Crashes, Breaks, Boots, Recovers
  <2>2. CASE Keeps
    BY <1>2, <1>4, <2>2 DEF Keeps, WrongMemory
  <2>3. CASE Commits
    <3>1. PICK events : /\ UserDecides(memory.state, events) \/ CoderDecides(memory.state, events)
                        /\ Journal(events)
      BY <2>3 DEF Commits
    <3>2. CancelledWithOpenQuestion(memory.state)
      BY <1>4, <2>3 DEF Commits, WrongMemory
    <3>3. /\ memory.state \in ControllerStates /\ memory.seq \in Nat /\ Len(log) \in Nat
      BY DEF JournalInvariant, Remembered, Recorded
    <3>4. CancelledWithOpenQuestion(ApplyCommitted(memory, events, Len(log)).state)
      BY <3>1, <3>2, <3>3, MemoryStaysWrong
    <3>5. memory'.state = ApplyCommitted(memory, events, Len(log)).state
      BY <3>1 DEF Journal
    <3> QED BY <3>4, <3>5
  <2> QED BY <2>1, <2>2, <2>3
<1> QED BY <1>3, <1>4

\* So it is in every state.
LEMMA WrongMemoryHolds == Spec => []WrongMemory
<1>1. Init => WrongMemory
  <2> SUFFICES ASSUME Init PROVE ~Replay(log).threw
    BY DEF WrongMemory
  <2>1. log = <<>>
    BY DEF Init
  <2> QED BY <2>1, NothingReplayed
<1>2. JournalInvariant /\ Controller!OnlyCancelWedges' /\ WrongMemory /\ [Next]_vars
        => WrongMemory'
  BY WrongMemoryStep
<1> QED BY <1>1, <1>2, JournalInvariantHolds, LogWedges, PTL DEF Spec

\* While the daemon is up its memory is what a restart would read from the log:
\* no decision is taken on a state that the log does not justify.  The one way
\* out is a cancellation that leaves a question open.
THEOREM MemoryAgreesWithLog == Spec => []MemoryIsTheLog
<1>1. JournalInvariant /\ WrongMemory => MemoryIsTheLog
  <2> SUFFICES ASSUME JournalInvariant, WrongMemory, daemon = "up",
                      ~CancelledWithOpenQuestion(memory.state)
               PROVE  /\ ~Replay(log).threw
                      /\ memory = [state |-> Replay(log).state, seq |-> Replay(log).seq]
                      /\ memory.seq = Len(log)
    BY DEF MemoryIsTheLog
  <2>1. ~Replay(log).threw
    BY DEF WrongMemory
  <2>2. memory = [state |-> Replay(log).state, seq |-> Replay(log).seq]
    BY <2>1 DEF JournalInvariant, Remembered
  <2>3. Replay(log).seq = Len(log)
    BY <2>1 DEF JournalInvariant, Recorded
  <2>4. memory.seq = Replay(log).seq
    BY <2>2
  <2> QED BY <2>1, <2>2, <2>3, <2>4
<1> QED BY <1>1, JournalInvariantHolds, WrongMemoryHolds, PTL

\* The log is calm, and so is what a restart makes of it.
CalmLog == Controller!TypeOK /\ Controller!CalmInvariant /\ Controller!WorkerInvariant

\* The replayed log is calm in every state, because it is a TaskController.
LEMMA CalmLogHolds == Spec => []CalmLog
BY LogIsAController, Controller!TypeCorrect, Controller!CalmInvariantHolds,
   Controller!WorkerInvariantHolds, NoneAssumption, ProfilesAssumption, PTL DEF CalmLog

\* Nothing resumes implicitly: after a boot no run is running, whatever was in
\* flight, and the task that was interrupted waits in the slot for a resume.
THEOREM NothingResumesAtBoot == Spec => BootResumesNothing
<1> DEFINE replayed == Replay(log)
           Step == daemon = "down" /\ daemon' = "up" =>
                     /\ \A r \in RunIds : memory'.state.runs[r].state # "running"
                     /\ \A t \in TaskIds :
                           /\ t = replayed.state.activeTaskId <=> t = memory'.state.activeTaskId
                           /\ memory'.state.tasks[t].state \notin {"running", "pause_requested"}
<1>1. ASSUME JournalInvariant, CalmLog, CalmLog', [Next]_vars
      PROVE  Step
  <2> SUFFICES ASSUME daemon = "down", daemon' = "up"
               PROVE  Step
    OBVIOUS
  <2>1. Boots \/ Recovers
    <3>1. Keeps \/ Commits \/ Crashes \/ Breaks \/ Boots \/ Recovers
      BY <1>1, JournalStep
    <3> QED BY <3>1 DEF Keeps, Commits, Crashes, Breaks
  <2>2. ~replayed.threw
    BY <2>1 DEF Boots, Recovers
  <2>3. memory'.state = Replay(log').state
    <3>1. memory' = [state |-> Replay(log').state, seq |-> Replay(log').seq]
      BY <1>1, <2>1, <2>2, LogStep
    <3> QED BY <3>1
  <2>4. Controller!TypeOK /\ Controller!Calm /\ Controller!WorkerInvariant
        /\ Controller!WorkerInvariant'
    BY <1>1, <2>2 DEF CalmLog, Controller!CalmInvariant
  <2> DEFINE s == memory'.state
  <2>5. Controller!NobodyWorks(s) /\ s.activeTaskId = replayed.state.activeTaskId
    <3>1. CASE Boots
      <4>1. s = replayed.state /\ ~CanRecover(replayed.state)
        BY <3>1 DEF Boots
      <4>2. ~Controller!CanRecover(replayed.state)
        BY <4>1, SameCoderGuards
      <4>3. Controller!Steady(replayed.state) /\ Controller!WorkersRun(replayed.state)
        BY <2>4 DEF Controller!Calm, Controller!WorkerInvariant
      <4> QED BY <4>1, <4>2, <4>3, Controller!NothingToRecover, NoneAssumption,
                 ProfilesAssumption
    <3>2. CASE Recovers
      <4>1. Controller!RecoverAfterRestart
        BY <1>1, <3>2, LogStep
      <4>2. /\ Controller!NobodyWorks(Replay(log').state)
            /\ Replay(log').state.activeTaskId = replayed.state.activeTaskId
        BY <2>4, <4>1, Controller!RecoveryStops, NoneAssumption, ProfilesAssumption
      <4> QED BY <2>3, <4>2
    <3> QED BY <2>1, <3>1, <3>2
  <2> QED BY <2>5 DEF Controller!NobodyWorks, Controller!Works
<1>2. JournalInvariant /\ CalmLog /\ CalmLog' /\ [Next]_vars => [Step]_vars
  BY <1>1
<1> QED BY <1>2, JournalInvariantHolds, CalmLogHolds, PTL DEF Spec, BootResumesNothing

-----------------------------------------------------------------------------
(* One task for every submission.                                          *)

\* The events that make a task: of a log, and none in a decision.
CreatedAt(l) == {i \in DOMAIN l : l[i].type = "task.created"}
CreatesNothing(events) == \A i \in DOMAIN events : events[i].type # "task.created"

\* Of the commands, only a submission makes a task, with its first event.
LEMMA CommandsCreate ==
    ASSUME NEW s, NEW command \in UserCommands
    PROVE  LET events == EventsOf(s, command)
           IN  IF command.type # "task.submit" THEN CreatesNothing(events)
               ELSE /\ events[1].type = "task.created"
                    /\ \A i \in DOMAIN events : i # 1 => events[i].type # "task.created"
<1> DEFINE events == EventsOf(s, command)
           t == command.taskId
<1>1. CASE command.type = "task.submit"
  <2> DEFINE created == [type |-> "task.created", taskId |-> NewTask(s),
                         profile |-> command.profile, revision |-> 1]
             enqueued == [type |-> "task.enqueued", taskId |-> NewTask(s),
                          position |-> QueuePosition(s, command.profile)]
             started == [type |-> "task.started", taskId |-> NewTask(s),
                         runId |-> NewRun(s), revision |-> 1]
  <2>1. events \in {<<created, enqueued, started>>, <<created, enqueued>>}
    BY <1>1 DEF EventsOf, SubmitEvents
  <2>2. /\ created.type = "task.created" /\ enqueued.type # "task.created"
        /\ started.type # "task.created"
    OBVIOUS
  <2> HIDE DEF events, created, enqueued, started
  <2>3. /\ events[1].type = "task.created"
        /\ \A i \in DOMAIN events : i # 1 => events[i].type # "task.created"
    BY <2>1, <2>2
  <2> QED BY <1>1, <2>3 DEF events
<1>2. CASE command.type = "task.requestPause"
  <2>1. events = RequestPauseEvents(t)
    BY <1>2 DEF EventsOf
  <2> QED BY <1>2, <2>1 DEF RequestPauseEvents, CreatesNothing
<1>3. CASE command.type = "task.resume"
  <2>1. events = ResumeEvents(s, t)
    BY <1>3 DEF EventsOf
  <2> QED BY <1>3, <2>1 DEF ResumeEvents, ResumeEvent, CreatesNothing
<1>4. CASE command.type = "task.cancel"
  <2>1. events = CancelEvents(s, t)
    BY <1>4 DEF EventsOf
  <2> QED BY <1>4, <2>1 DEF CancelEvents, AndStartNext, StartEvent, CreatesNothing
<1>5. CASE command.type = "task.revise"
  <2>1. events = ReviseEvents(s, t, s.tasks[t].profile)
    BY <1>5 DEF EventsOf
  <2> QED BY <1>5, <2>1 DEF ReviseEvents, CreatesNothing
<1>6. CASE command.type = "task.answerQuestion"
  <2>1. events = AnswerQuestionEvents(s, t, command.questionId)
    BY <1>6 DEF EventsOf
  <2> QED BY <1>6, <2>1 DEF AnswerQuestionEvents, ResumeEvent, CreatesNothing
<1>7. CASE command.type = "queue.move"
  <2>1. events = MoveQueueEvents(s, t, command.operation, command.anchor)
    BY <1>7 DEF EventsOf
  <2> QED BY <1>7, <2>1 DEF MoveQueueEvents, CreatesNothing
<1>8. CASE command.type = "approval.resolve"
  <2>1. events = ResolveApprovalEvents(s, command.confirmationId, command.decision)
    BY <1>8 DEF EventsOf
  <2> HIDE DEF events
  <2>2. CASE command.decision = "approve"
    <3>1. CreatesNothing(events)
      BY <2>1, <2>2 DEF ResolveApprovalEvents, ResumeEvent, CreatesNothing
    <3> QED BY <1>8, <3>1 DEF events
  <2>3. CASE command.decision # "approve"
    <3>1. CreatesNothing(events)
      BY <2>1, <2>3 DEF ResolveApprovalEvents, CreatesNothing
    <3> QED BY <1>8, <3>1 DEF events
  <2> QED BY <2>2, <2>3
<1> HIDE DEF events
<1>9. command.type \in {"task.submit", "task.requestPause", "task.resume", "task.cancel",
                        "task.revise", "task.answerQuestion", "queue.move", "approval.resolve"}
  BY CommandParts
<1> QED BY <1>1, <1>2, <1>3, <1>4, <1>5, <1>6, <1>7, <1>8, <1>9

\* A signal of the coder and the recovery make none.
LEMMA OthersCreateNothing ==
    ASSUME NEW s, NEW events, CoderDecides(s, events) \/ RecoveryDecides(s, events)
    PROVE  CreatesNothing(events)
<1>1. ASSUME NEW t, events = PauseAtSafeBoundaryEvents(s, t)
      PROVE  CreatesNothing(events)
  BY <1>1 DEF PauseAtSafeBoundaryEvents, CreatesNothing
<1>2. ASSUME NEW t, events = ReportWorkspaceConflictEvents(s, t)
      PROVE  CreatesNothing(events)
  BY <1>2 DEF ReportWorkspaceConflictEvents, AwaitEvent, CreatesNothing
<1>3. ASSUME NEW t, events \in {CompleteEvents(s, t), FailEvents(s, t)}
      PROVE  CreatesNothing(events)
  BY <1>3 DEF CompleteEvents, FailEvents, AndStartNext, StartEvent, CreatesNothing
<1>4. ASSUME NEW t, NEW q, events = AwaitUserInputEvents(s, t, q)
      PROVE  CreatesNothing(events)
  BY <1>4 DEF AwaitUserInputEvents, CreatesNothing
<1>5. ASSUME NEW t, NEW r, events = RecordCoderSessionEvents(t, r)
      PROVE  CreatesNothing(events)
  BY <1>5 DEF RecordCoderSessionEvents, CreatesNothing
<1>6. ASSUME NEW t, NEW f, events = RequestApprovalEvents(s, t, f)
      PROVE  CreatesNothing(events)
  BY <1>6 DEF RequestApprovalEvents, AwaitEvent, CreatesNothing
<1>7. ASSUME NEW c, events = ConsumeApprovalEvents(c)
      PROVE  CreatesNothing(events)
  BY <1>7 DEF ConsumeApprovalEvents, CreatesNothing
<1>8. ASSUME events = RecoverEvents(s)
      PROVE  CreatesNothing(events)
  BY <1>8 DEF RecoverEvents, CreatesNothing
<1> QED
  BY <1>1, <1>2, <1>3, <1>4, <1>5, <1>6, <1>7, <1>8 DEF CoderDecides, RecoveryDecides

\* A decision adds to the log as many makings of a task as it has.
LEMMA LogCreates ==
    ASSUME NEW l \in Seq(Events), NEW events \in Seq(Events)
    PROVE  /\ CreatesNothing(events) => CreatedAt(l \o events) = CreatedAt(l)
           /\ (\A i \in DOMAIN events : i # 1 => events[i].type # "task.created") =>
                 CreatedAt(l \o events) \subseteq CreatedAt(l) \cup {Len(l) + 1}
           /\ IsFiniteSet(CreatedAt(l)) /\ Len(l) + 1 \notin CreatedAt(l)
<1> DEFINE k == l \o events
<1>1. /\ DOMAIN l = 1..Len(l) /\ Len(l) \in Nat
      /\ DOMAIN events = 1..Len(events) /\ Len(events) \in Nat
      /\ DOMAIN k = 1..(Len(l) + Len(events))
      /\ \A i \in 1..Len(l) : k[i] = l[i]
      /\ \A i \in 1..Len(events) : k[Len(l) + i] = events[i]
  OBVIOUS
<1> HIDE DEF k
<1>2. \A i \in DOMAIN k : i \in DOMAIN l
                          \/ (i - Len(l) \in DOMAIN events /\ k[i] = events[i - Len(l)])
  <2> TAKE i \in DOMAIN k
  <2>1. CASE i <= Len(l)
    BY <1>1, <2>1
  <2>2. CASE ~(i <= Len(l))
    <3>1. i - Len(l) \in 1..Len(events) /\ Len(l) + (i - Len(l)) = i
      BY <1>1, <2>2
    <3> QED BY <1>1, <3>1
  <2> QED BY <2>1, <2>2
<1>3. DOMAIN l \subseteq DOMAIN k
  BY <1>1
<1>4. CreatesNothing(events) => CreatedAt(k) = CreatedAt(l)
  BY <1>1, <1>2, <1>3 DEF CreatedAt, CreatesNothing
<1>5. ASSUME \A i \in DOMAIN events : i # 1 => events[i].type # "task.created"
      PROVE  CreatedAt(k) \subseteq CreatedAt(l) \cup {Len(l) + 1}
  <2> SUFFICES ASSUME NEW i \in CreatedAt(k), i \notin DOMAIN l
               PROVE  i = Len(l) + 1
    BY <1>1 DEF CreatedAt
  <2>1. i - Len(l) \in DOMAIN events /\ events[i - Len(l)].type = "task.created"
    BY <1>2 DEF CreatedAt
  <2>2. i - Len(l) = 1
    BY <1>5, <2>1
  <2>3. i \in DOMAIN k
    BY DEF CreatedAt
  <2> QED BY <1>1, <2>2, <2>3
<1>6. IsFiniteSet(CreatedAt(l))
  <2>1. IsFiniteSet(1..Len(l))
    BY <1>1, FS_Interval
  <2>2. CreatedAt(l) \subseteq 1..Len(l)
    BY <1>1 DEF CreatedAt
  <2> QED BY <2>1, <2>2, FS_Subset
<1>7. Len(l) + 1 \notin CreatedAt(l)
  BY <1>1 DEF CreatedAt
<1> QED BY <1>4, <1>5, <1>6, <1>7 DEF k

\* The submissions that were accepted.  Finitely many commands are issued in any state.
Submissions == {c \in CommandIds : results[c] = "accepted" /\ requests[c].type = "task.submit"}
Issued == {c \in CommandIds : requests[c] # NoRequest}
SubmissionInvariant ==
    /\ IsFiniteSet(Issued)
    /\ Cardinality(CreatedAt(log)) <= Cardinality(Submissions)

\* A submission is issued, so that there are finitely many.
LEMMA SubmissionsFinite ==
    ASSUME SubmissionInvariant, Tables
    PROVE  /\ Submissions \subseteq {c \in CommandIds : requests[c].type = "task.submit"}
           /\ {c \in CommandIds : requests[c].type = "task.submit"} \subseteq Issued
           /\ IsFiniteSet(Submissions)
           /\ IsFiniteSet({c \in CommandIds : requests[c].type = "task.submit"})
<1>1. {c \in CommandIds : requests[c].type = "task.submit"} \subseteq Issued
  <2>1. NoRequest.type # "task.submit"
    BY DEF NoRequest
  <2> QED BY <2>1 DEF Issued
<1>2. Submissions \subseteq {c \in CommandIds : requests[c].type = "task.submit"}
  BY DEF Submissions
<1>3. Submissions \subseteq Issued
  BY <1>1, <1>2
<1> QED BY <1>1, <1>2, <1>3, FS_Subset DEF SubmissionInvariant

\* No step makes more tasks than it accepts submissions.
LEMMA SubmissionStep ==
    ASSUME JournalInvariant, SubmissionInvariant, [Next]_vars
    PROVE  SubmissionInvariant'
<1>0. Recorded /\ Tables /\ log \in Seq(Events)
  BY DEF JournalInvariant, Recorded
<1>1. ASSUME NEW command \in Commands, Issue(command)
      PROVE  SubmissionInvariant'
  <2> DEFINE unused == {c \in CommandIds : requests[c] = NoRequest}
             chosen == CHOOSE c \in unused : TRUE
  <2>1. chosen \in CommandIds /\ requests[chosen] = NoRequest
    BY <1>1 DEF Issue
  <2>2. requests' = [requests EXCEPT ![chosen] = command] /\ UNCHANGED <<log, results>>
    BY <1>1 DEF Issue
  <2> HIDE DEF chosen
  <2>3. \A c \in CommandIds : c # chosen => requests'[c] = requests[c]
    BY <1>0, <2>2 DEF Tables
  <2>4. results[chosen] # "accepted"
    BY <1>0, <2>1 DEF Tables
  <2>5. Submissions' = Submissions
    BY <2>2, <2>3, <2>4 DEF Submissions
  <2>6. Issued' \subseteq Issued \cup {chosen}
    BY <2>3 DEF Issued
  <2>7. IsFiniteSet(Issued \cup {chosen})
    BY FS_AddElement DEF SubmissionInvariant
  <2>8. IsFiniteSet(Issued')
    BY <2>6, <2>7, FS_Subset
  <2> QED BY <2>2, <2>5, <2>8 DEF SubmissionInvariant, CreatedAt
<1>2. ASSUME NEW c \in CommandIds, Deliver(c)
      PROVE  SubmissionInvariant'
  <2> DEFINE command == requests[c]
             s == memory.state
             events == EventsOf(s, command)
  <2>1. /\ command \in UserCommands /\ results[c] = "none"
        /\ results' = [results EXCEPT ![c] = ResultOf(s, command)]
        /\ log' = log \o (IF Accepts(s, command) THEN events ELSE <<>>)
        /\ UNCHANGED requests
    BY <1>0, <1>2, CommandsAssumption DEF Deliver, Execute, Journal, Tables
  <2>2. s \in ControllerStates
    BY DEF JournalInvariant, Remembered
  <2>3. \A d \in CommandIds : d # c => results'[d] = results[d]
    BY <1>0, <2>1 DEF Tables
  <2>4. Issued' = Issued
    BY <2>1 DEF Issued
  <2>5. results'[c] = ResultOf(s, command)
    BY <1>0, <2>1 DEF Tables
  <2>6. CASE ~Accepts(s, command)
    <3>1. log' = log
      BY <1>0, <2>1, <2>6
    <3>2. results'[c] # "accepted"
      BY <2>5, <2>6 DEF ResultOf
    <3>3. Submissions' = Submissions
      BY <2>1, <2>3, <3>2 DEF Submissions
    <3> QED BY <2>4, <3>1, <3>3 DEF SubmissionInvariant, CreatedAt
  <2>7. CASE Accepts(s, command)
    <3>1. events \in Seq(Events) /\ log' = log \o events
      BY <2>1, <2>2, <2>7, CommandsDecide, UserDecisionTyped
    <3>2. results'[c] = "accepted"
      BY <2>5, <2>7 DEF ResultOf
    <3>3. CASE command.type # "task.submit"
      <4>1. CreatesNothing(events)
        BY <2>1, <3>3, CommandsCreate
      <4> HIDE DEF events
      <4>2. CreatedAt(log)' = CreatedAt(log)
        BY <1>0, <3>1, <4>1, LogCreates DEF CreatedAt
      <4>3. Submissions' = Submissions
        BY <2>1, <2>3, <3>3 DEF Submissions
      <4> QED BY <2>4, <4>2, <4>3 DEF SubmissionInvariant
    <3>4. CASE command.type = "task.submit"
      <4> DEFINE old == CreatedAt(log)
                 more == old \cup {Len(log) + 1}
      <4>1. \A i \in DOMAIN events : i # 1 => events[i].type # "task.created"
        BY <2>1, <3>4, CommandsCreate
      <4> HIDE DEF events
      <4>2. /\ CreatedAt(log)' \subseteq more /\ IsFiniteSet(old)
            /\ Len(log) + 1 \notin old
        BY <1>0, <3>1, <4>1, LogCreates DEF CreatedAt
      <4> HIDE DEF old
      <4>3. IsFiniteSet(more) /\ Cardinality(more) = Cardinality(old) + 1
        BY <4>2, FS_AddElement
      <4>4. Cardinality(CreatedAt(log)') <= Cardinality(old) + 1
        BY <4>2, <4>3, FS_Subset
      <4>5. c \notin Submissions
        BY <2>1 DEF Submissions
      <4>6. Submissions' = Submissions \cup {c}
        BY <2>1, <2>3, <3>2, <3>4 DEF Submissions
      <4>7. IsFiniteSet(Submissions)
        BY <1>0, SubmissionsFinite
      <4>8. Cardinality(Submissions') = Cardinality(Submissions) + 1
        BY <4>5, <4>6, <4>7, FS_AddElement
      <4>9. Cardinality(old) <= Cardinality(Submissions)
        BY DEF SubmissionInvariant, old
      <4>10. /\ Cardinality(old) \in Nat /\ Cardinality(Submissions) \in Nat
             /\ Cardinality(CreatedAt(log)') \in Nat
        BY <4>2, <4>3, <4>7, FS_Subset, FS_CardinalityType
      <4>11. Cardinality(CreatedAt(log)') <= Cardinality(Submissions')
        BY <4>4, <4>8, <4>9, <4>10
      <4> QED BY <2>4, <4>11 DEF SubmissionInvariant, CreatedAt
    <3> QED BY <3>3, <3>4
  <2> QED BY <2>6, <2>7
<1>3. ASSUME NEW events \in Seq(Events), CreatesNothing(events), log' = log \o events,
             UNCHANGED <<results, requests>>
      PROVE  SubmissionInvariant'
  <2>1. CreatedAt(log)' = CreatedAt(log)
    BY <1>0, <1>3, LogCreates DEF CreatedAt
  <2>2. Submissions' = Submissions /\ Issued' = Issued
    BY <1>3 DEF Submissions, Issued
  <2> QED BY <2>1, <2>2 DEF SubmissionInvariant
<1>4. ASSUME UNCHANGED <<log, results, requests>>
      PROVE  SubmissionInvariant'
  BY <1>4 DEF SubmissionInvariant, Submissions, Issued, CreatedAt
<1>5. ASSUME NEW events \in CoderDecisions(memory.state), Signal(events)
      PROVE  SubmissionInvariant'
  <2>1. CoderDecides(memory.state, events) /\ memory.state \in ControllerStates
    BY <1>5, SignalsDecide DEF JournalInvariant, Remembered
  <2>2. events \in Seq(Events)
    BY <2>1, CoderDecisionTyped
  <2>3. log' = log \o events /\ UNCHANGED <<results, requests>>
    BY <1>5 DEF Signal, Journal
  <2> QED BY <1>3, <2>1, <2>2, <2>3, OthersCreateNothing
<1>6. ASSUME Boot
      PROVE  SubmissionInvariant'
  <2>1. Breaks \/ Boots \/ Recovers
    <3>1. Next
      BY <1>6 DEF Next
    <3>2. Keeps \/ Commits \/ Crashes \/ Breaks \/ Boots \/ Recovers
      BY <3>1, StepKinds
    <3>3. daemon = "down" /\ daemon' # "down"
      BY <1>6 DEF Boot
    <3> QED BY <3>2, <3>3 DEF Keeps, Commits, Crashes
  <2>2. UNCHANGED <<results, requests>>
    BY <1>6 DEF Boot
  <2>3. CASE Breaks \/ Boots
    BY <1>4, <2>2, <2>3 DEF Breaks, Boots
  <2>4. CASE Recovers
    <3> DEFINE s == Replay(log).state
               events == RecoverEvents(s)
    <3>1. RecoveryDecides(s, events) /\ log' = log \o events
      BY <2>4 DEF Recovers
    <3>2. s \in ControllerStates
      BY <1>0 DEF Recorded, Applied
    <3> HIDE DEF s, events
    <3>3. events \in Seq(Events) /\ CreatesNothing(events)
      BY <3>1, <3>2, DecisionTyped, OthersCreateNothing DEF Decides
    <3> QED BY <1>3, <2>2, <3>1, <3>3
  <2> QED BY <2>1, <2>3, <2>4
<1>7. CASE UNCHANGED vars
  BY <1>4, <1>7 DEF vars
<1>8. ASSUME Crash \/ \E c \in CommandIds : DeliverAgain(c) \/ RefuseMismatch(c)
      PROVE  SubmissionInvariant'
  BY <1>4, <1>8 DEF Crash, DeliverAgain, RefuseMismatch
<1> QED BY <1>1, <1>2, <1>5, <1>6, <1>7, <1>8 DEF Next

\* A submission that is delivered twice, also across a crash, makes one task: there
\* are never more of them in the log than commands that ask for one.
THEOREM OneTaskEach == Spec => []OneTaskPerSubmission
<1>1. Init => SubmissionInvariant
  <2> SUFFICES ASSUME Init PROVE SubmissionInvariant
    OBVIOUS
  <2>1. Issued = {} /\ CreatedAt(log) = {}
    BY DEF Init, Issued, CreatedAt
  <2>2. Submissions = {}
    BY DEF Init, Submissions
  <2> QED BY <2>1, <2>2, FS_EmptySet DEF SubmissionInvariant
<1>2. JournalInvariant /\ SubmissionInvariant /\ [Next]_vars => SubmissionInvariant'
  BY SubmissionStep
<1>3. JournalInvariant /\ SubmissionInvariant => OneTaskPerSubmission
  <2> SUFFICES ASSUME JournalInvariant, SubmissionInvariant PROVE OneTaskPerSubmission
    OBVIOUS
  <2> DEFINE all == {c \in CommandIds : requests[c].type = "task.submit"}
             old == CreatedAt(log)
  <2>1. Submissions \subseteq all /\ IsFiniteSet(all) /\ IsFiniteSet(Submissions)
    BY SubmissionsFinite DEF JournalInvariant
  <2>2. IsFiniteSet(old)
    BY LogCreates DEF JournalInvariant, Recorded
  <2> HIDE DEF all, old
  <2>3. Cardinality(Submissions) <= Cardinality(all)
    BY <2>1, FS_Subset
  <2>4. /\ Cardinality(old) \in Nat /\ Cardinality(Submissions) \in Nat
        /\ Cardinality(all) \in Nat
    BY <2>1, <2>2, FS_CardinalityType
  <2>5. Cardinality(old) <= Cardinality(Submissions)
    BY DEF SubmissionInvariant, old
  <2>6. Cardinality(old) <= Cardinality(all)
    BY <2>3, <2>4, <2>5
  <2> QED BY <2>6 DEF OneTaskPerSubmission, CreatedAt, all, old
<1> QED BY <1>1, <1>2, <1>3, JournalInvariantHolds, PTL DEF Spec

-----------------------------------------------------------------------------
(* A run that a restart interrupted is over.                               *)

\* From s to n no run but r changes.
OnlyRun(s, n, r) == \A q \in RunIds : q # r => n.runs[q] = s.runs[q]

\* No update of a task, its retirement included, and none of the questions changes a run.
LEMMA PartsAndRuns ==
    ASSUME NEW m, Shape(m)
    PROVE  /\ \A t, x : SetTask(m, t, x).runs = m.runs /\ Shape(SetTask(m, t, x))
           /\ \A t, x : Retire(m, t, x).runs = m.runs
           /\ \A x : [m EXCEPT !.questions = x].runs = m.runs
<1>1. \A t, x : SetTask(m, t, x).runs = m.runs /\ Shape(SetTask(m, t, x))
  BY SetTaskFrame DEF SetTask, Shape
<1>2. ASSUME NEW t, NEW x
      PROVE  Retire(m, t, x).runs = m.runs
  <2> DEFINE m1 == SetTask(m, t, Ended(m.tasks[t], x))
  <2>1. Retire(m, t, x) = [m1 EXCEPT !.queue = RemoveFromQueue(m.queue, t),
                                     !.activeTaskId = IF @ = t THEN None ELSE @]
    BY DEF Retire, Ended
  <2>2. Shape(m1) /\ m1.runs = m.runs
    BY <1>1
  <2> HIDE DEF m1
  <2> QED BY <2>1, <2>2 DEF Shape
<1> QED BY <1>1, <1>2 DEF Shape

\* An event that ends a run changes no other: the one it names, or the active run
\* of the task it cancels.
LEMMA EndsOneRun ==
    ASSUME NEW s \in ControllerStates, NEW e \in Events
    PROVE  /\ e.type \in {"task.paused", "task.awaitingUser", "task.questionAsked",
                          "task.completed", "task.failed"} => OnlyRun(s, Apply(s, e), e.runId)
           /\ e.type = "task.cancelled" =>
                 OnlyRun(s, Apply(s, e), s.tasks[e.taskId].activeRunId)
           /\ e.type = "task.paused" /\ s.runs[e.runId].state = "interrupted" =>
                 Apply(s, e).runs = s.runs
<1> DEFINE n == Apply(s, e)
<1>1. Shape(s) /\ s.runs \in [RunIds -> Run]
  BY StatesHaveShape, FieldsTyped
<1>2. ASSUME NEW r, NEW x
      PROVE  /\ Shape(EndRun(s, r, x)) /\ OnlyRun(s, EndRun(s, r, x), r)
             /\ EndRun(s, r, x).runs = [s.runs EXCEPT ![r] = [s.runs[r] EXCEPT !.state = x]]
  <2>1. Shape(EndRun(s, r, x))
    BY <1>1, EndRunFrame
  <2>2. EndRun(s, r, x).runs = [s.runs EXCEPT ![r] = [s.runs[r] EXCEPT !.state = x]]
    BY <1>1 DEF EndRun, Shape
  <2>3. \A q \in RunIds : q # r =>
           [s.runs EXCEPT ![r] = [s.runs[r] EXCEPT !.state = x]][q] = s.runs[q]
    BY <1>1
  <2> QED BY <2>1, <2>2, <2>3 DEF OnlyRun
<1>3. OnlyRun(s, s, e.runId) /\ \A m, k, r : OnlyRun(s, m, r) /\ k.runs = m.runs => OnlyRun(s, k, r)
  BY DEF OnlyRun
<1>4. ASSUME e.type = "task.paused"
      PROVE  /\ OnlyRun(s, n, e.runId)
             /\ s.runs[e.runId].state = "interrupted" => n.runs = s.runs
  <2> DEFINE m == IF s.runs[e.runId].state = "interrupted" THEN s
                  ELSE EndRun(s, e.runId, "paused")
  <2>1. \E x : n = SetTask(m, e.taskId, x)
    <3>1. \E x : TaskPaused(s, e) = SetTask(m, e.taskId, x)
      BY DEF TaskPaused
    <3> HIDE DEF m
    <3> QED BY <1>4, <3>1, ApplyCases
  <2>2. Shape(m) /\ OnlyRun(s, m, e.runId)
        /\ (s.runs[e.runId].state = "interrupted" => m = s)
    BY <1>1, <1>2, <1>3
  <2> HIDE DEF m, n
  <2>3. n.runs = m.runs
    BY <2>1, <2>2, PartsAndRuns
  <2> QED BY <1>3, <2>2, <2>3
<1>5. ASSUME e.type \in {"task.awaitingUser", "task.questionAsked"}
      PROVE  OnlyRun(s, n, e.runId)
  <2> DEFINE m == EndRun(s, e.runId, "paused")
             a == TaskAwaitingUser(s, e)
  <2>1. \E x : a = SetTask(m, e.taskId, x)
    BY DEF TaskAwaitingUser
  <2>2. Shape(m) /\ OnlyRun(s, m, e.runId)
    BY <1>2
  <2>3. n = a \/ \E x : n = [a EXCEPT !.questions = x]
    <3>1. \E x : TaskQuestionAsked(s, e) = [a EXCEPT !.questions = x]
      BY DEF TaskQuestionAsked
    <3> HIDE DEF a
    <3> QED BY <1>5, <3>1, ApplyCases DEF a
  <2> HIDE DEF m, n, a
  <2>4. Shape(a) /\ a.runs = m.runs
    BY <2>1, <2>2, PartsAndRuns
  <2>5. n.runs = a.runs
    BY <2>3, <2>4, PartsAndRuns
  <2> QED BY <1>3, <2>2, <2>4, <2>5
<1>6. ASSUME e.type \in {"task.completed", "task.failed"}
      PROVE  OnlyRun(s, n, e.runId)
  <2>1. PICK x : n = Retire(EndRun(s, e.runId, x), e.taskId, x)
    <3>1. n \in {TaskCompleted(s, e), TaskFailed(s, e)}
      BY <1>6, ApplyCases
    <3> HIDE DEF n
    <3> QED BY <3>1 DEF TaskCompleted, TaskFailed
  <2> DEFINE m == EndRun(s, e.runId, x)
  <2>2. Shape(m) /\ OnlyRun(s, m, e.runId)
    BY <1>2
  <2>3. n = Retire(m, e.taskId, x)
    BY <2>1
  <2> HIDE DEF m, n
  <2>4. n.runs = m.runs
    BY <2>2, <2>3, PartsAndRuns
  <2> QED BY <1>3, <2>2, <2>4
<1>7. ASSUME e.type = "task.cancelled"
      PROVE  OnlyRun(s, n, s.tasks[e.taskId].activeRunId)
  <2> DEFINE r == s.tasks[e.taskId].activeRunId
             m == IF r = None THEN s ELSE EndRun(s, r, "cancelled")
  <2>1. n = Retire(m, e.taskId, "cancelled")
    BY <1>7, ApplyCases DEF TaskCancelled
  <2>2. OnlyRun(s, s, r)
    BY DEF OnlyRun
  <2>3. Shape(m) /\ OnlyRun(s, m, r)
    BY <1>1, <1>2, <2>2
  <2> HIDE DEF m, n, r
  <2>4. n.runs = m.runs
    BY <2>1, <2>3, PartsAndRuns
  <2>5. OnlyRun(s, n, r)
    BY <1>3, <2>3, <2>4
  <2> QED BY <2>5 DEF r
<1> HIDE DEF n
<1> QED BY <1>4, <1>5, <1>6, <1>7 DEF n

\* Ending an interrupted run would make something else of it.
EndingTypes == {"task.awaitingUser", "task.questionAsked", "task.completed", "task.failed"}

\* The interrupted runs of a state.
Interrupted(s) == {r \in RunIds : s.runs[r].state = "interrupted"}

\* An event that interrupts no run, and ends none that was interrupted, leaves the
\* interrupted runs the same while no task is at work in one of them.
LEMMA InterruptedStay ==
    ASSUME NEW s \in ControllerStates, NEW e \in Events, Fits(s, e),
           e.type # "run.interrupted", Controller!NotInterrupted(s),
           e.type \in EndingTypes => e.runId \notin Interrupted(s)
    PROVE  /\ Interrupted(Apply(s, e)) = Interrupted(s)
           /\ Controller!NotInterrupted(Apply(s, e))
<1> DEFINE n == Apply(s, e)
           b == s.tasks[e.taskId].activeRunId
<1>1. s.runs \in [RunIds -> Run]
  BY FieldsTyped
<1>2. /\ e.type \in StartTypes \cup EndingTypes \cup {"task.paused"} => e.runId \in RunIds
      /\ e.type \in TaskTypes => e.taskId \in TaskIds
  BY EventTypes DEF Events, CreatedEvents, EnqueuedEvents, StartedEvents, TaskEvents, RunEvents,
         AskedEvents, AnsweredEvents, RevisedEvents, RequestedEvents, ResolvedEvents,
         ConsumedEvents, ReorderedEvents, TaskOnly, TaskAndRun, StartTypes, EndingTypes
<1>3. Controller!NotInterrupted(n)
  <2>1. s \in Controller!ControllerStates /\ e \in Controller!Events
    BY SameTypes
  <2>2. Controller!NotInterrupted(Controller!Apply(s, e))
    BY <2>1, NoneAssumption, ProfilesAssumption, Controller!EventKeepsRuns
  <2> QED BY <2>2, SameApply
<1> SUFFICES Interrupted(n) = Interrupted(s)
  BY <1>3
<1>4. ASSUME NEW r, r \notin Interrupted(s), OnlyRun(s, n, r), RunsKept(s, n)
      PROVE  Interrupted(n) = Interrupted(s)
  BY <1>4 DEF Interrupted, OnlyRun, RunsKept
<1>5. CASE e.type \in StartTypes
  <2> DEFINE run == [taskId |-> e.taskId, taskRevision |-> e.revision, state |-> "running"]
  <2>1. n.runs = [s.runs EXCEPT ![e.runId] = run]
    BY <1>5, RunFrame
  <2>2. run.state = "running" /\ s.runs[e.runId].state = "none"
    BY <1>5 DEF Fits, StartTypes
  <2> HIDE DEF n, run
  <2>3. \A q \in RunIds : n.runs[q] = IF q = e.runId THEN run ELSE s.runs[q]
    BY <1>1, <2>1
  <2>4. \A q \in RunIds : n.runs[q].state = "interrupted" <=> s.runs[q].state = "interrupted"
    BY <2>2, <2>3
  <2>5. Interrupted(n) = Interrupted(s)
    BY <2>4 DEF Interrupted
  <2> QED BY <2>5 DEF n
<1>6. CASE e.type \in Runless
  <2>1. n.runs = s.runs
    BY <1>6, RunFrame
  <2> QED BY <2>1 DEF Interrupted
<1>7. e.type \notin StartTypes => RunsKept(s, n)
  BY RunFrame
<1>8. CASE e.type \in EndingTypes
  <2>1. OnlyRun(s, n, e.runId) /\ RunsKept(s, n)
    BY <1>7, <1>8, EndsOneRun DEF EndingTypes, StartTypes
  <2> QED BY <1>4, <1>8, <2>1
<1>9. CASE e.type = "task.cancelled"
  <2>1. OnlyRun(s, n, b) /\ RunsKept(s, n)
    BY <1>7, <1>9, EndsOneRun DEF StartTypes
  <2>2. e.taskId \in TaskIds
    BY <1>2, <1>9 DEF TaskTypes, TaskIsRequired
  <2>3. b = None \/ s.runs[b].state # "interrupted"
    BY <2>2 DEF Controller!NotInterrupted
  <2>4. b \notin Interrupted(s)
    BY <2>3, NoneAssumption DEF Interrupted
  <2> QED BY <1>4, <2>1, <2>4
<1>10. CASE e.type = "task.paused"
  <2>1. CASE e.runId \in Interrupted(s)
    <3>1. n.runs = s.runs
      BY <1>10, <2>1, EndsOneRun DEF Interrupted
    <3> QED BY <3>1 DEF Interrupted
  <2>2. CASE e.runId \notin Interrupted(s)
    <3>1. OnlyRun(s, n, e.runId) /\ RunsKept(s, n)
      BY <1>7, <1>10, EndsOneRun DEF StartTypes
    <3> QED BY <1>4, <2>2, <3>1
  <2> QED BY <2>1, <2>2
<1>11. \/ e.type \in StartTypes \/ e.type \in Runless \/ e.type \in EndingTypes
       \/ e.type \in {"task.cancelled", "task.paused"}
  BY EventTypes DEF TaskTypes, TaskIsRequired, CardTypes, StartTypes, QuietTypes,
                    Runless, EndingTypes
<1> QED BY <1>5, <1>6, <1>8, <1>9, <1>10, <1>11

\* A decision that leaves the interrupted runs of s to themselves.
LeavesInterrupted(s, events) ==
    \A i \in DOMAIN events :
        /\ events[i].type # "run.interrupted"
        /\ events[i].type \in EndingTypes => events[i].runId \notin Interrupted(s)

\* The decisions of the user end no run but through a cancellation.
LEMMA UserLeavesInterrupted ==
    ASSUME NEW s, NEW events, UserDecides(s, events)
    PROVE  LeavesInterrupted(s, events)
<1>1. ASSUME NEW profile, events = SubmitEvents(s, profile)
      PROVE  LeavesInterrupted(s, events)
  BY <1>1 DEF SubmitEvents, LeavesInterrupted, EndingTypes
<1>2. ASSUME NEW t, NEW operation, NEW anchor, events = MoveQueueEvents(s, t, operation, anchor)
      PROVE  LeavesInterrupted(s, events)
  BY <1>2 DEF MoveQueueEvents, LeavesInterrupted, EndingTypes
<1>3. ASSUME NEW t, events = RequestPauseEvents(t)
      PROVE  LeavesInterrupted(s, events)
  BY <1>3 DEF RequestPauseEvents, LeavesInterrupted, EndingTypes
<1>4. ASSUME NEW t, events = ResumeEvents(s, t)
      PROVE  LeavesInterrupted(s, events)
  BY <1>4 DEF ResumeEvents, ResumeEvent, LeavesInterrupted, EndingTypes
<1>5. ASSUME NEW t, events = CancelEvents(s, t)
      PROVE  LeavesInterrupted(s, events)
  BY <1>5 DEF CancelEvents, AndStartNext, StartEvent, LeavesInterrupted, EndingTypes
<1>6. ASSUME NEW t, NEW profile, events = ReviseEvents(s, t, profile)
      PROVE  LeavesInterrupted(s, events)
  BY <1>6 DEF ReviseEvents, LeavesInterrupted, EndingTypes
<1>7. ASSUME NEW t, NEW q, events = AnswerQuestionEvents(s, t, q)
      PROVE  LeavesInterrupted(s, events)
  BY <1>7 DEF AnswerQuestionEvents, ResumeEvent, LeavesInterrupted, EndingTypes
<1>8. ASSUME NEW c, NEW decision, events = ResolveApprovalEvents(s, c, decision)
      PROVE  LeavesInterrupted(s, events)
  <2>1. CASE decision = "approve"
    BY <1>8, <2>1 DEF ResolveApprovalEvents, ResumeEvent, LeavesInterrupted, EndingTypes
  <2>2. CASE decision # "approve"
    BY <1>8, <2>2 DEF ResolveApprovalEvents, LeavesInterrupted, EndingTypes
  <2> QED BY <2>1, <2>2
<1> QED BY <1>1, <1>2, <1>3, <1>4, <1>5, <1>6, <1>7, <1>8 DEF UserDecides

\* The coder ends the run its task works in, which was not interrupted.
LEMMA CoderLeavesInterrupted ==
    ASSUME NEW s, Controller!NotInterrupted(s), NEW events, CoderDecides(s, events)
    PROVE  LeavesInterrupted(s, events)
<1>1. ASSUME NEW t \in TaskIds, s.tasks[t].activeRunId # None
      PROVE  s.tasks[t].activeRunId \notin Interrupted(s)
  BY <1>1 DEF Controller!NotInterrupted, Interrupted
<1>2. ASSUME NEW t, events = PauseAtSafeBoundaryEvents(s, t)
      PROVE  LeavesInterrupted(s, events)
  BY <1>2 DEF PauseAtSafeBoundaryEvents, LeavesInterrupted, EndingTypes
<1>3. ASSUME NEW t \in TaskIds, CanReportWorkspaceConflict(s, t),
             events = ReportWorkspaceConflictEvents(s, t)
      PROVE  LeavesInterrupted(s, events)
  <2>1. s.tasks[t].activeRunId \notin Interrupted(s)
    BY <1>1, <1>3 DEF CanReportWorkspaceConflict, InRun
  <2> QED BY <1>3, <2>1 DEF ReportWorkspaceConflictEvents, AwaitEvent, LeavesInterrupted, EndingTypes
<1>4. ASSUME NEW t \in TaskIds, CanFinish(s, t), events \in {CompleteEvents(s, t), FailEvents(s, t)}
      PROVE  LeavesInterrupted(s, events)
  <2>1. s.tasks[t].activeRunId \notin Interrupted(s)
    BY <1>1, <1>4 DEF CanFinish
  <2> QED BY <1>4, <2>1 DEF CompleteEvents, FailEvents, AndStartNext, StartEvent,
                            LeavesInterrupted, EndingTypes
<1>5. ASSUME NEW t \in TaskIds, NEW q, CanAwaitUserInput(s, t, q),
             events = AwaitUserInputEvents(s, t, q)
      PROVE  LeavesInterrupted(s, events)
  <2>1. s.tasks[t].activeRunId \notin Interrupted(s)
    BY <1>1, <1>5 DEF CanAwaitUserInput, InRun
  <2> QED BY <1>5, <2>1 DEF AwaitUserInputEvents, LeavesInterrupted, EndingTypes
<1>6. ASSUME NEW t, NEW r, events = RecordCoderSessionEvents(t, r)
      PROVE  LeavesInterrupted(s, events)
  BY <1>6 DEF RecordCoderSessionEvents, LeavesInterrupted, EndingTypes
<1>7. ASSUME NEW t \in TaskIds, NEW f, CanRequestApproval(s, t, f),
             events = RequestApprovalEvents(s, t, f)
      PROVE  LeavesInterrupted(s, events)
  <2>1. s.tasks[t].activeRunId \notin Interrupted(s)
    BY <1>1, <1>7 DEF CanRequestApproval, InRun
  <2> QED BY <1>7, <2>1 DEF RequestApprovalEvents, AwaitEvent, LeavesInterrupted, EndingTypes
<1>8. ASSUME NEW c, events = ConsumeApprovalEvents(c)
      PROVE  LeavesInterrupted(s, events)
  BY <1>8 DEF ConsumeApprovalEvents, LeavesInterrupted, EndingTypes
<1> QED BY <1>2, <1>3, <1>4, <1>5, <1>6, <1>7, <1>8 DEF CoderDecides

\* What applying so far has left of the memory that a decision was taken on.
Spared(s, m) ==
    /\ m \in Applied
    /\ Controller!NotInterrupted(m.state)
    /\ Interrupted(m.state) = Interrupted(s)

\* Applying one event of such a decision spares the interrupted runs.
LEMMA NextSpares ==
    ASSUME NEW s, NEW m, Spared(s, m), NEW e \in Events, NEW seq \in Nat,
           e.type # "run.interrupted", e.type \in EndingTypes => e.runId \notin Interrupted(s)
    PROVE  Spared(s, ApplyNext(m, e, seq))
<1> DEFINE n == ApplyNext(m, e, seq)
<1>1. m \in Applied /\ m.state \in ControllerStates
  BY DEF Spared, Applied
<1>2. n \in Applied
  BY <1>1, ApplyNextTyped
<1>3. n.state = m.state \/ (Fits(m.state, e) /\ n.state = Apply(m.state, e))
  <2>1. CASE m.threw
    BY <2>1 DEF ApplyNext
  <2>2. CASE ~m.threw /\ (seq # m.seq + 1 \/ ~Fits(m.state, e))
    <3>1. n = [m EXCEPT !.threw = TRUE]
      BY <2>2 DEF ApplyNext
    <3> HIDE DEF n
    <3> QED BY <1>1, <3>1 DEF Applied
  <2>3. CASE ~m.threw /\ ~(seq # m.seq + 1 \/ ~Fits(m.state, e))
    <3> DEFINE x == Apply(m.state, e)
    <3>1. n = [state |-> x, seq |-> seq, threw |-> ~StateInvariants(x)]
      BY <2>3 DEF ApplyNext
    <3> HIDE DEF n, x
    <3>2. n.state = x
      BY <3>1
    <3> QED BY <2>3, <3>2 DEF x
  <2> QED BY <2>1, <2>2, <2>3
<1> HIDE DEF n
<1> SUFFICES Spared(s, n)
  BY DEF n
<1>4. CASE n.state = m.state
  BY <1>2, <1>4 DEF Spared
<1>5. CASE Fits(m.state, e) /\ n.state = Apply(m.state, e)
  <2>1. /\ Interrupted(Apply(m.state, e)) = Interrupted(m.state)
        /\ Controller!NotInterrupted(Apply(m.state, e))
    BY <1>1, <1>5, InterruptedStay DEF Spared
  <2> QED BY <1>2, <1>5, <2>1 DEF Spared
<1> QED BY <1>3, <1>4, <1>5

\* So does the whole decision, whatever throws.
LEMMA DecisionSpares ==
    ASSUME NEW m, m.state \in ControllerStates, m.seq \in Nat,
           Controller!NotInterrupted(m.state), NEW base \in Nat,
           NEW events, UserDecides(m.state, events) \/ CoderDecides(m.state, events)
    PROVE  Spared(m.state, ApplyCommitted(m, events, base))
<1> DEFINE s == m.state
           m1 == ApplyNext(Start(m), events[1], base + 1)
           m2 == IF Len(events) < 2 THEN m1 ELSE ApplyNext(m1, events[2], base + 2)
           m3 == IF Len(events) < 3 THEN m2 ELSE ApplyNext(m2, events[3], base + 3)
<1>1. events \in Seq(Events) /\ Len(events) \in 1..3
  BY DecisionTyped DEF Decides
<1>2. LeavesInterrupted(s, events)
  BY UserLeavesInterrupted, CoderLeavesInterrupted
<1>3. Spared(s, Start(m))
  BY DEF Start, Spared, Applied
<1>4. ASSUME NEW i \in 1..Len(events), NEW k, Spared(s, k)
      PROVE  Spared(s, ApplyNext(k, events[i], base + i))
  <2>1. /\ events[i] \in Events /\ base + i \in Nat /\ events[i].type # "run.interrupted"
        /\ events[i].type \in EndingTypes => events[i].runId \notin Interrupted(s)
    BY <1>1, <1>2 DEF LeavesInterrupted
  <2> QED BY <1>4, <2>1, NextSpares
<1>5. ApplyCommitted(m, events, base) = m3
  BY <1>1, FewApplied DEF Few
<1>6. 1 \in 1..Len(events) /\ (~(Len(events) < 2) => 2 \in 1..Len(events))
      /\ (~(Len(events) < 3) => 3 \in 1..Len(events))
  <2>1. \A k \in 1..3 : 1 \in 1..k /\ (~(k < 2) => 2 \in 1..k) /\ (~(k < 3) => 3 \in 1..k)
    OBVIOUS
  <2> HIDE DEF s, m1, m2, m3
  <2> QED BY <1>1, <2>1
<1> HIDE DEF s
<1>7. Spared(s, m1)
  BY <1>3, <1>4, <1>6
<1> HIDE DEF m1
<1>8. Spared(s, m2)
  BY <1>4, <1>6, <1>7
<1> HIDE DEF m2
<1>9. Spared(s, m3)
  BY <1>4, <1>6, <1>8
<1> QED BY <1>5, <1>9 DEF s

\* A daemon that is not up remembers nothing; one that is up works in no run that was
\* interrupted, whether its log can be replayed or not.
CleanMemory ==
    /\ daemon # "up" => memory.state = EmptyState
    /\ daemon = "up" => Controller!NotInterrupted(memory.state)

\* What a boot leaves is clean, and every decision keeps it so.
LEMMA CleanMemoryStep ==
    ASSUME JournalInvariant, CleanMemory, CalmLog, Controller!RunInvariant,
           Controller!RunInvariant', [Next]_vars
    PROVE  /\ CleanMemory'
           /\ (daemon = "up" /\ daemon' = "up") =>
                 Interrupted(memory'.state) = Interrupted(memory.state)
<1>1. Keeps \/ Commits \/ Crashes \/ Breaks \/ Boots \/ Recovers
  BY JournalStep
<1>2. CASE Keeps
  <2>1. UNCHANGED <<memory, daemon>>
    BY <1>2 DEF Keeps
  <2> QED BY <2>1 DEF CleanMemory, Controller!NotInterrupted
<1>3. CASE Commits
  <2>1. PICK events : /\ UserDecides(memory.state, events) \/ CoderDecides(memory.state, events)
                      /\ Journal(events)
    BY <1>3 DEF Commits
  <2>2. /\ memory.state \in ControllerStates /\ memory.seq \in Nat /\ Len(log) \in Nat
    BY DEF JournalInvariant, Remembered, Recorded
  <2>3. daemon = "up" /\ daemon' = "up" /\ Controller!NotInterrupted(memory.state)
    BY <1>3 DEF Commits, CleanMemory
  <2>4. Spared(memory.state, ApplyCommitted(memory, events, Len(log)))
    BY <2>1, <2>2, <2>3, DecisionSpares
  <2>5. memory'.state = ApplyCommitted(memory, events, Len(log)).state
    BY <2>1 DEF Journal
  <2> QED BY <2>3, <2>4, <2>5 DEF CleanMemory, Spared, Controller!NotInterrupted, Interrupted
<1>4. CASE Crashes
  <2>1. daemon' = "down" /\ memory'.state = EmptyState
    BY <1>4 DEF Crashes
  <2> QED BY <2>1 DEF CleanMemory
<1>5. CASE Breaks
  <2>1. daemon = "down" /\ daemon' = "broken" /\ UNCHANGED memory
    BY <1>5 DEF Breaks
  <2> QED BY <2>1 DEF CleanMemory
<1>6. CASE Boots \/ Recovers
  <2>1. daemon = "down" /\ daemon' = "up" /\ ~Replay(log).threw
    BY <1>6 DEF Boots, Recovers
  <2>2. memory'.state = Replay(log').state
    <3>1. memory' = [state |-> Replay(log').state, seq |-> Replay(log').seq]
      BY <1>1, <2>1, LogStep
    <3> QED BY <3>1
  <2>3. ~Replay(log').threw
    <3>1. CASE Boots
      BY <2>1, <3>1 DEF Boots
    <3>2. CASE Recovers
      <4>1. Controller!RecoverAfterRestart
        BY <3>2, LogStep
      <4>2. Controller!Calm
        BY <2>1 DEF CalmLog, Controller!CalmInvariant
      <4> QED BY <4>1, <4>2, Controller!RecoverPasses, NoneAssumption, ProfilesAssumption
    <3> QED BY <1>6, <3>1, <3>2
  <2>4. Controller!NotInterrupted(Replay(log').state)
    BY <2>3 DEF Controller!RunInvariant, Controller!NotInterrupted
  <2> QED BY <2>1, <2>2, <2>4 DEF CleanMemory, Controller!NotInterrupted
<1> QED BY <1>1, <1>2, <1>3, <1>4, <1>5, <1>6

\* The replayed log never leaves a task at work in an interrupted run.
LEMMA LogRunsHold == Spec => []Controller!RunInvariant
BY LogIsAController, Controller!RunInvariantHolds, NoneAssumption, ProfilesAssumption, PTL

\* The memory is clean in every state.
LEMMA CleanMemoryHolds == Spec => []CleanMemory
<1>1. Init => CleanMemory
  <2> SUFFICES ASSUME Init
               PROVE  CleanMemory
    OBVIOUS
  <2>1. daemon = "up" /\ memory.state = EmptyState
    BY DEF Init
  <2>2. \A t \in TaskIds : EmptyState.tasks[t].activeRunId = None
    BY DEF EmptyState, NoTask
  <2> QED BY <2>1, <2>2 DEF CleanMemory, Controller!NotInterrupted
<1>2. JournalInvariant /\ CleanMemory /\ CalmLog /\ Controller!RunInvariant
        /\ Controller!RunInvariant' /\ [Next]_vars => CleanMemory'
  BY CleanMemoryStep
<1> QED BY <1>1, <1>2, JournalInvariantHolds, CalmLogHolds, LogRunsHold, PTL DEF Spec

\* The interrupted run is over for good: no boot, resume or late signal takes
\* it up again.
THEOREM InterruptionIsFinal == Spec => InterruptedIsFinal
<1> DEFINE Step == \A r \in RunIds :
                      memory.state.runs[r].state = "interrupted" /\ daemon' = "up" =>
                         memory'.state.runs[r].state = "interrupted"
<1>1. ASSUME JournalInvariant, CleanMemory, CalmLog, Controller!RunInvariant,
             Controller!RunInvariant', [Next]_vars
      PROVE  Step
  <2>1. CASE daemon = "up"
    <3>1. daemon' = "up" => Interrupted(memory'.state) = Interrupted(memory.state)
      BY <1>1, <2>1, CleanMemoryStep
    <3> QED BY <3>1 DEF Interrupted
  <2>2. CASE daemon # "up"
    <3>1. memory.state = EmptyState
      BY <1>1, <2>2 DEF CleanMemory
    <3>2. \A r \in RunIds : EmptyState.runs[r].state = "none"
      BY DEF EmptyState, NoRun
    <3> QED BY <3>1, <3>2
  <2> QED BY <2>1, <2>2
<1>2. JournalInvariant /\ CleanMemory /\ CalmLog /\ Controller!RunInvariant
        /\ Controller!RunInvariant' /\ [Next]_vars => [Step]_vars
  BY <1>1
<1> QED BY <1>2, JournalInvariantHolds, CleanMemoryHolds, CalmLogHolds, LogRunsHold, PTL
        DEF Spec, InterruptedIsFinal
=============================================================================
