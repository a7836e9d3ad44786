--------------------------- MODULE ControllerState ---------------------------
(***************************************************************************)
(* The reducer of the task controller (packages/core/src/domain.ts): the   *)
(* controller state, what applyEvent does to it for every domain event,    *)
(* and the assertion that applyEvent evaluates after every event.          *)
(*                                                                         *)
(* The maps of the source are total functions here; an id that the source  *)
(* does not hold is mapped to a record whose state is "none".  Timestamps, *)
(* objectives, answers and summaries are left out: nothing decides on      *)
(* them.  specHistory is left out too: its last revision is assigned in    *)
(* the same two events as task.revision.                                   *)
(* Two event types have no operator: policy.decisionRecorded changes       *)
(* nothing, artifact.created only evidenceIds, which no decision reads.    *)
(***************************************************************************)
EXTENDS Naturals, Sequences, SequencesExt

CONSTANTS
    TaskIds,          \* ids createId() may give to tasks
    RunIds,           \* ... to runs
    ConfirmationIds,  \* ... to permission cards
    QuestionIds,      \* ids the coder gives to its questions
    Fingerprints,     \* tool effects that policy.ts puts in visual_approval
    Profiles,         \* coding profiles; "fast" is the one the queue knows
    None              \* null

ASSUME NoneAssumption == None \notin TaskIds \cup RunIds
ASSUME ProfilesAssumption == "fast" \in Profiles

LiveStates     == {"running", "pause_requested", "paused", "awaiting_user"}
TerminalStates == {"completed", "failed", "cancelled"}
TaskStates     == {"none", "queued"} \cup LiveStates \cup TerminalStates
RunStates      == {"none", "running", "paused", "completed", "failed",
                   "cancelled", "interrupted"}
ConfirmationStates == {"none", "pending", "approved", "rejected", "consumed"}
QuestionStates == {"none", "open", "answered", "superseded"}

NoTask == [state |-> "none", profile |-> "fast", revision |-> 0,
           activeRunId |-> None, lastRunId |-> None, conflict |-> FALSE,
           session |-> None, boundary |-> FALSE, pendingQuestion |-> FALSE]
NoRun == [taskId |-> None, taskRevision |-> 0, state |-> "none"]
NoConfirmation == [taskId |-> None, taskRevision |-> 0, fingerprint |-> None,
                   state |-> "none"]
NoQuestion == [taskId |-> None, taskRevision |-> 0, runId |-> None,
               state |-> "none"]

\* createEmptyState
EmptyState ==
    [activeTaskId  |-> None,
     queue         |-> <<>>,
     tasks         |-> [t \in TaskIds |-> NoTask],
     runs          |-> [r \in RunIds |-> NoRun],
     confirmations |-> [c \in ConfirmationIds |-> NoConfirmation],
     questions     |-> [q \in QuestionIds |-> NoQuestion]]

-----------------------------------------------------------------------------
(* The records of the state, and the states they can form.                 *)
Task == [state : TaskStates, profile : Profiles, revision : Nat,
         activeRunId : RunIds \cup {None}, lastRunId : RunIds \cup {None},
         conflict : BOOLEAN, session : RunIds \cup {None}, boundary : BOOLEAN,
         pendingQuestion : BOOLEAN]
Run == {NoRun} \cup
    [taskId : TaskIds, taskRevision : Nat, state : RunStates \ {"none"}]
Confirmation == {NoConfirmation} \cup
    [taskId : TaskIds, taskRevision : Nat, fingerprint : Fingerprints,
     state : ConfirmationStates \ {"none"}]
Question == {NoQuestion} \cup
    [taskId : TaskIds, taskRevision : Nat, runId : RunIds,
     state : QuestionStates \ {"none"}]
ControllerStates ==
    [activeTaskId  : TaskIds \cup {None},
     queue         : Seq(TaskIds),
     tasks         : [TaskIds -> Task],
     runs          : [RunIds -> Run],
     confirmations : [ConfirmationIds -> Confirmation],
     questions     : [QuestionIds -> Question]]

-----------------------------------------------------------------------------
(* The queue.                                                              *)

\* removeFromQueue: indexOf, and splice when it is found
RemoveFromQueue(queue, t) ==
    LET found == {i \in DOMAIN queue : queue[i] = t}
    IN  IF found = {} THEN queue
        ELSE RemoveAt(queue, CHOOSE i \in found : \A j \in found : i <= j)

\* splice(position, 0, t), position counted from 0 and clamped to the length
InsertInQueue(queue, t, position) ==
    LET at == IF position < Len(queue) THEN position ELSE Len(queue)
    IN  InsertAt(queue, at + 1, t)

-----------------------------------------------------------------------------
(* The domain events, by what their payload has to say to the reducer.     *)
TaskOnly == {"task.pauseRequested", "task.cancelled",
             "workspace.conflictDetected", "workspace.conflictResolved"}
TaskAndRun == {"task.paused", "task.awaitingUser", "coder.sessionBound",
               "coder.recoveryBoundary", "task.completed", "task.failed",
               "run.interrupted"}

CreatedEvents  == [type : {"task.created"}, taskId : TaskIds, profile : Profiles,
                   revision : Nat]
EnqueuedEvents == [type : {"task.enqueued"}, taskId : TaskIds, position : Nat]
StartedEvents  == [type : {"task.started", "task.resumed"}, taskId : TaskIds,
                   runId : RunIds, revision : Nat]
TaskEvents     == [type : TaskOnly, taskId : TaskIds]
RunEvents      == [type : TaskAndRun, taskId : TaskIds, runId : RunIds]
AskedEvents    == [type : {"task.questionAsked"}, taskId : TaskIds,
                   questionId : QuestionIds, runId : RunIds, revision : Nat]
AnsweredEvents == [type : {"task.questionAnswered"}, taskId : TaskIds,
                   questionId : QuestionIds]
RevisedEvents  == [type : {"task.specRevised"}, taskId : TaskIds,
                   profile : Profiles, revision : Nat]
RequestedEvents == [type : {"approval.requested"}, taskId : TaskIds,
                    confirmationId : ConfirmationIds, revision : Nat,
                    fingerprint : Fingerprints]
ResolvedEvents == [type : {"approval.resolved"}, confirmationId : ConfirmationIds,
                   decision : {"approve", "reject"}]
ConsumedEvents == [type : {"approval.consumed"}, confirmationId : ConfirmationIds]
ReorderedEvents == [type : {"queue.reordered"}, taskId : TaskIds,
                    taskIds : Seq(TaskIds)]

Events == UNION {CreatedEvents, EnqueuedEvents, StartedEvents, TaskEvents, RunEvents,
                 AskedEvents, AnsweredEvents, RevisedEvents, RequestedEvents,
                 ResolvedEvents, ConsumedEvents, ReorderedEvents}

-----------------------------------------------------------------------------
(* applyEvent, one operator per group of event types.                      *)

SetTask(s, t, task) == [s EXCEPT !.tasks = [s.tasks EXCEPT ![t] = task]]
EndRun(s, r, runState) ==
    [s EXCEPT !.runs = [s.runs EXCEPT ![r] = [s.runs[r] EXCEPT !.state = runState]]]

TaskCreated(s, e) ==
    SetTask(s, e.taskId, [NoTask EXCEPT !.state = "queued",
                                        !.profile = e.profile,
                                        !.revision = e.revision])

TaskEnqueued(s, e) ==
    [SetTask(s, e.taskId, [s.tasks[e.taskId] EXCEPT !.state = "queued"])
        EXCEPT !.queue = InsertInQueue(RemoveFromQueue(s.queue, e.taskId),
                                       e.taskId, e.position)]

\* task.started and task.resumed
TaskStarted(s, e) ==
    LET task == [s.tasks[e.taskId] EXCEPT !.state = "running",
                                          !.pendingQuestion = FALSE,
                                          !.activeRunId = e.runId,
                                          !.lastRunId = e.runId]
    IN  [SetTask(s, e.taskId, task)
            EXCEPT !.queue = RemoveFromQueue(s.queue, e.taskId),
                   !.runs = [s.runs EXCEPT ![e.runId] =
                                [taskId |-> e.taskId,
                                 taskRevision |-> e.revision,
                                 state |-> "running"]],
                   !.activeTaskId = e.taskId]

TaskPauseRequested(s, e) ==
    SetTask(s, e.taskId, [s.tasks[e.taskId] EXCEPT !.state = "pause_requested"])

TaskPaused(s, e) ==
    LET task == [s.tasks[e.taskId] EXCEPT !.state = "paused", !.activeRunId = None]
    IN  SetTask(IF s.runs[e.runId].state = "interrupted" THEN s
                ELSE EndRun(s, e.runId, "paused"),
                e.taskId, task)

TaskAwaitingUser(s, e) ==
    LET task == [s.tasks[e.taskId] EXCEPT !.state = "awaiting_user",
                                          !.pendingQuestion = TRUE,
                                          !.activeRunId = None]
    IN  SetTask(EndRun(s, e.runId, "paused"), e.taskId, task)

\* task.questionAsked stores the question and then suspends the task as
\* task.awaitingUser does
TaskQuestionAsked(s, e) ==
    [TaskAwaitingUser(s, e)
        EXCEPT !.questions = [s.questions EXCEPT ![e.questionId] =
                                 [taskId |-> e.taskId,
                                  taskRevision |-> e.revision,
                                  runId |-> e.runId,
                                  state |-> "open"]]]

TaskQuestionAnswered(s, e) ==
    [s EXCEPT !.questions = [s.questions EXCEPT ![e.questionId] =
                                [s.questions[e.questionId] EXCEPT !.state = "answered"]]]

CoderSessionBound(s, e) ==
    SetTask(s, e.taskId, [s.tasks[e.taskId] EXCEPT !.session = e.runId,
                                                   !.boundary = FALSE])

CoderRecoveryBoundary(s, e) ==
    IF s.tasks[e.taskId].session = None THEN s
    ELSE SetTask(s, e.taskId, [s.tasks[e.taskId] EXCEPT !.boundary = TRUE])

\* Mutant: a revision leaves the open question of the older one behind.
MutantRevisionKeepsQuestions(s, e) ==
    SetTask(s, e.taskId, [s.tasks[e.taskId] EXCEPT !.revision = e.revision,
                                                   !.profile = e.profile,
                                                   !.pendingQuestion = FALSE])

\* task.specRevised supersedes the open questions of the task
TaskSpecRevised(s, e) ==
    LET task == [s.tasks[e.taskId] EXCEPT !.revision = e.revision,
                                          !.profile = e.profile,
                                          !.pendingQuestion = FALSE]
    IN  [SetTask(s, e.taskId, task)
            EXCEPT !.questions =
                [q \in QuestionIds |->
                    IF s.questions[q].taskId = e.taskId /\ s.questions[q].state = "open"
                    THEN [s.questions[q] EXCEPT !.state = "superseded"]
                    ELSE s.questions[q]]]

\* what task.completed, task.failed and task.cancelled do to the task and slot
Retire(s, t, outcome) ==
    LET task == [s.tasks[t] EXCEPT !.state = outcome,
                                   !.activeRunId = None,
                                   !.pendingQuestion = FALSE]
    IN  [SetTask(s, t, task)
            EXCEPT !.queue = RemoveFromQueue(s.queue, t),
                   !.activeTaskId = IF @ = t THEN None ELSE @]

TaskCompleted(s, e) == Retire(EndRun(s, e.runId, "completed"), e.taskId, "completed")
TaskFailed(s, e)    == Retire(EndRun(s, e.runId, "failed"), e.taskId, "failed")

\* Mutant: a state that the rest of the code does not know.
MutantMisspelledOutcome(s, e) ==
    LET r == s.tasks[e.taskId].activeRunId
    IN  Retire(IF r = None THEN s ELSE EndRun(s, r, "cancelled"), e.taskId, "canceled")

\* Mutant: the cancellation ends the last run of the task, active or not.
MutantCancelsLastRun(s, e) ==
    LET r == s.tasks[e.taskId].lastRunId
    IN  Retire(IF r = None THEN s ELSE EndRun(s, r, "cancelled"), e.taskId, "cancelled")

\* task.cancelled ends a run only when one is active, and leaves questions,
\* permission cards and conflicts of the task as they are
TaskCancelled(s, e) ==
    LET r == s.tasks[e.taskId].activeRunId
    IN  Retire(IF r = None THEN s ELSE EndRun(s, r, "cancelled"), e.taskId, "cancelled")

RunInterrupted(s, e) == EndRun(s, e.runId, "interrupted")

WorkspaceConflictDetected(s, e) ==
    SetTask(s, e.taskId, [s.tasks[e.taskId] EXCEPT !.conflict = TRUE])
WorkspaceConflictResolved(s, e) ==
    SetTask(s, e.taskId, [s.tasks[e.taskId] EXCEPT !.conflict = FALSE])

ApprovalRequested(s, e) ==
    [s EXCEPT !.confirmations = [s.confirmations EXCEPT ![e.confirmationId] =
                                    [taskId |-> e.taskId,
                                     taskRevision |-> e.revision,
                                     fingerprint |-> e.fingerprint,
                                     state |-> "pending"]]]

SetConfirmation(s, c, to) ==
    [s EXCEPT !.confirmations = [s.confirmations EXCEPT ![c] =
                                    [s.confirmations[c] EXCEPT !.state = to]]]

ApprovalResolved(s, e) ==
    SetConfirmation(s, e.confirmationId,
                    IF e.decision = "approve" THEN "approved" ELSE "rejected")
ApprovalConsumed(s, e) == SetConfirmation(s, e.confirmationId, "consumed")

QueueReordered(s, e) == [s EXCEPT !.queue = e.taskIds]

Apply(s, e) ==
    CASE e.type = "task.created"               -> TaskCreated(s, e)
      [] e.type = "task.enqueued"              -> TaskEnqueued(s, e)
      [] e.type = "task.started"               -> TaskStarted(s, e)
      [] e.type = "task.resumed"               -> TaskStarted(s, e)
      [] e.type = "task.pauseRequested"        -> TaskPauseRequested(s, e)
      [] e.type = "task.paused"                -> TaskPaused(s, e)
      [] e.type = "task.awaitingUser"          -> TaskAwaitingUser(s, e)
      [] e.type = "task.questionAsked"         -> TaskQuestionAsked(s, e)
      [] e.type = "task.questionAnswered"      -> TaskQuestionAnswered(s, e)
      [] e.type = "coder.sessionBound"         -> CoderSessionBound(s, e)
      [] e.type = "coder.recoveryBoundary"     -> CoderRecoveryBoundary(s, e)
      [] e.type = "task.specRevised"           -> TaskSpecRevised(s, e)
      [] e.type = "task.completed"             -> TaskCompleted(s, e)
      [] e.type = "task.failed"                -> TaskFailed(s, e)
      [] e.type = "task.cancelled"             -> TaskCancelled(s, e)
      [] e.type = "run.interrupted"            -> RunInterrupted(s, e)
      [] e.type = "workspace.conflictDetected" -> WorkspaceConflictDetected(s, e)
      [] e.type = "workspace.conflictResolved" -> WorkspaceConflictResolved(s, e)
      [] e.type = "approval.requested"         -> ApprovalRequested(s, e)
      [] e.type = "approval.resolved"          -> ApprovalResolved(s, e)
      [] e.type = "approval.consumed"          -> ApprovalConsumed(s, e)
      [] e.type = "queue.reordered"            -> QueueReordered(s, e)

-----------------------------------------------------------------------------
(* What makes applyEvent throw: an event that does not fit the state (it   *)
(* throws before it changes anything) ...                                  *)
TaskIsRequired == {"task.enqueued", "task.started", "task.resumed",
    "task.pauseRequested", "task.paused", "task.awaitingUser", "task.questionAsked",
    "coder.sessionBound", "coder.recoveryBoundary", "task.specRevised",
    "task.completed", "task.failed", "task.cancelled",
    "workspace.conflictDetected", "workspace.conflictResolved"}
RunIsRequired == {"task.paused", "task.awaitingUser", "task.questionAsked",
    "task.completed", "task.failed", "run.interrupted"}

Fits(s, e) ==
    /\ e.type \in TaskIsRequired => s.tasks[e.taskId].state # "none"
    /\ e.type \in RunIsRequired => s.runs[e.runId].state # "none"
    /\ e.type \in {"task.started", "task.resumed"} =>
          /\ s.activeTaskId \in {None, e.taskId}
          /\ s.runs[e.runId].state = "none"
    /\ e.type = "task.created" => s.tasks[e.taskId].state = "none"
    /\ e.type = "task.cancelled" =>
          LET r == s.tasks[e.taskId].activeRunId
          IN  r # None => s.runs[r].state # "none"
    /\ e.type = "task.questionAsked" => s.questions[e.questionId].state = "none"
    /\ e.type = "task.questionAnswered" => s.questions[e.questionId].state # "none"
    /\ e.type = "approval.requested" =>
          s.confirmations[e.confirmationId].state = "none"
    /\ e.type \in {"approval.resolved", "approval.consumed"} =>
          s.confirmations[e.confirmationId].state # "none"

OpenQuestions(s, t) ==
    {q \in QuestionIds : s.questions[q].taskId = t /\ s.questions[q].state = "open"}

(* ... or a state that breaks one of the assertions (it throws after the   *)
(* event has been applied).                                                *)
StateInvariants(s) ==
    /\ \A i, j \in DOMAIN s.queue : s.queue[i] = s.queue[j] => i = j
    /\ \A i \in DOMAIN s.queue : s.tasks[s.queue[i]].state = "queued"
    /\ s.activeTaskId # None => s.tasks[s.activeTaskId].state \in LiveStates
    /\ \A t \in TaskIds :
          LET r == s.tasks[t].activeRunId
          IN  r # None =>
                /\ s.runs[r].taskId = t
                /\ s.runs[r].state \in {"running", "interrupted"}
                /\ s.runs[r].state = "interrupted" =>
                      s.tasks[t].state \in {"running", "pause_requested"}
    /\ \A t \in TaskIds :
          /\ \A p, q \in OpenQuestions(s, t) : p = q
          /\ OpenQuestions(s, t) # {} => s.tasks[t].state = "awaiting_user"

(***************************************************************************)
(* One applyEvent on a memory m: [state, ok].  Once one has thrown, the    *)
(* rest of the decision is not applied.                                    *)
(***************************************************************************)
ApplyChecked(m, e) ==
    IF ~m.ok THEN m
    ELSE IF ~Fits(m.state, e) THEN [m EXCEPT !.ok = FALSE]
    ELSE LET next == Apply(m.state, e)
         IN  [state |-> next, ok |-> StateInvariants(next)]

\* the loop over the events of a decision
ApplyDecision(m, events) ==
    LET applied[i \in 0..Len(events)] ==
            IF i = 0 THEN m ELSE ApplyChecked(applied[i - 1], events[i])
    IN  applied[Len(events)]
=============================================================================
