------------------------- MODULE ControllerDecisions -------------------------
(***************************************************************************)
(* What the task controller (packages/core/src/controller.ts) decides: for *)
(* every command and every internal signal, the condition under which it   *)
(* is accepted in controller state s (Can...) and the events the accepted  *)
(* decision commits (...Events).  A command that is not accepted commits   *)
(* no event.                                                               *)
(*                                                                         *)
(* Every user command carries the revision its sender saw (expected);      *)
(* queue.move and task.submit do not compare it with anything.             *)
(***************************************************************************)
EXTENDS ControllerState

\* createId(): an id that nothing has used.  Ids are only compared, so which
\* unused one is taken makes no difference.
NewTask(s) == CHOOSE t \in {x \in TaskIds : s.tasks[x].state = "none"} : TRUE
NewRun(s)  == CHOOSE r \in {x \in RunIds : s.runs[x].state = "none"} : TRUE
NewConfirmation(s) ==
    CHOOSE c \in {x \in ConfirmationIds : s.confirmations[x].state = "none"} : TRUE

\* Bounds: the finite sets of ids stand for the unbounded supply of createId().
TaskLeft(s) == \E t \in TaskIds : s.tasks[t].state = "none"
RunLeft(s)  == \E r \in RunIds : s.runs[r].state = "none"
ConfirmationLeft(s) == \E c \in ConfirmationIds : s.confirmations[c].state = "none"

IsActive(s, t) == s.activeTaskId = t
Exists(s, t)   == s.tasks[t].state # "none"
Resumable(s, t) == IsActive(s, t) /\ s.tasks[t].state \in {"paused", "awaiting_user"}
InRun(s, t) == /\ IsActive(s, t)
               /\ s.tasks[t].state = "running"
               /\ s.tasks[t].activeRunId # None
CheckRevision(s, t, expected) == s.tasks[t].revision = expected

StartEvent(s, t) == [type |-> "task.started", taskId |-> t,
                     runId |-> NewRun(s), revision |-> s.tasks[t].revision]
ResumeEvent(s, t) == [type |-> "task.resumed", taskId |-> t,
                      runId |-> NewRun(s), revision |-> s.tasks[t].revision]
AwaitEvent(s, t) == [type |-> "task.awaitingUser", taskId |-> t,
                     runId |-> s.tasks[t].activeRunId]

\* Mutant: the slot is freed and nobody is started.
MutantNoHandoff(s, event) == <<event>>

\* startNextEvent, appended to the event that frees the slot
AndStartNext(s, event) ==
    IF s.queue = <<>> THEN <<event>> ELSE <<event, StartEvent(s, Head(s.queue))>>

-----------------------------------------------------------------------------
(* Commands of the user (TaskController.handle).                           *)

\* Mutant: a substantive task goes to the front of the whole queue.
MutantJumpsTheQueue(s, profile) == IF profile = "fast" THEN Len(s.queue) ELSE 0

\* The place of a new task: "fast" tasks go last, others before the first
\* queued fast one.
QueuePosition(s, profile) ==
    LET fast == {i \in DOMAIN s.queue : s.tasks[s.queue[i]].profile = "fast"}
    IN  IF profile = "fast" \/ fast = {} THEN Len(s.queue)
        ELSE (CHOOSE i \in fast : \A j \in fast : i <= j) - 1

CanSubmit(s) == TaskLeft(s) /\ (s.activeTaskId = None => RunLeft(s))
SubmitEvents(s, profile) ==
    LET t == NewTask(s)
        created  == [type |-> "task.created", taskId |-> t,
                     profile |-> profile, revision |-> 1]
        enqueued == [type |-> "task.enqueued", taskId |-> t,
                     position |-> QueuePosition(s, profile)]
        started  == [type |-> "task.started", taskId |-> t,
                     runId |-> NewRun(s), revision |-> 1]
    IN  IF s.activeTaskId = None THEN <<created, enqueued, started>>
        ELSE <<created, enqueued>>

CanRequestPause(s, t, expected) ==
    /\ Exists(s, t)
    /\ CheckRevision(s, t, expected)
    /\ IsActive(s, t)
    /\ s.tasks[t].state = "running"
RequestPauseEvents(t) == <<[type |-> "task.pauseRequested", taskId |-> t]>>

\* Mutant: the specification can change under a running coder.
MutantReviseWhileRunning(s, t, expected) ==
    /\ Exists(s, t)
    /\ CheckRevision(s, t, expected)
    /\ IsActive(s, t)
    /\ s.tasks[t].state \in LiveStates

\* the repository of a task is immutable and there is one workspace at a time,
\* so a revision changes the profile only
CanRevise(s, t, expected) ==
    /\ Exists(s, t)
    /\ CheckRevision(s, t, expected)
    /\ Resumable(s, t)
ReviseEvents(s, t, profile) ==
    <<[type |-> "task.specRevised", taskId |-> t, profile |-> profile,
       revision |-> s.tasks[t].revision + 1]>>

PendingConfirmations(s, t) ==
    {c \in ConfirmationIds : /\ s.confirmations[c].taskId = t
                             /\ s.confirmations[c].taskRevision = s.tasks[t].revision
                             /\ s.confirmations[c].state = "pending"}

\* Mutants: resume forgets the open question, or the pending card.
MutantResumeIgnoresQuestion(s, t, expected) ==
    /\ Exists(s, t)
    /\ CheckRevision(s, t, expected)
    /\ Resumable(s, t)
    /\ PendingConfirmations(s, t) = {}
    /\ RunLeft(s)
MutantResumeIgnoresCard(s, t, expected) ==
    /\ Exists(s, t)
    /\ CheckRevision(s, t, expected)
    /\ Resumable(s, t)
    /\ OpenQuestions(s, t) = {}
    /\ RunLeft(s)
\* Mutant: the conflict is not resolved by the resume.
MutantResumeKeepsConflict(s, t) == <<ResumeEvent(s, t)>>

CanResume(s, t, expected) ==
    /\ Exists(s, t)
    /\ CheckRevision(s, t, expected)
    /\ Resumable(s, t)
    /\ OpenQuestions(s, t) = {}
    /\ PendingConfirmations(s, t) = {}
    /\ RunLeft(s)
ResumeEvents(s, t) ==
    IF s.tasks[t].conflict
    THEN <<[type |-> "workspace.conflictResolved", taskId |-> t], ResumeEvent(s, t)>>
    ELSE <<ResumeEvent(s, t)>>

CanAnswerQuestion(s, t, q, expected) ==
    /\ Exists(s, t)
    /\ CheckRevision(s, t, expected)
    /\ s.questions[q].taskId = t
    /\ s.questions[q].state = "open"
    /\ s.questions[q].taskRevision = s.tasks[t].revision
    /\ s.tasks[t].state = "awaiting_user"
    /\ IsActive(s, t)
    /\ RunLeft(s)
AnswerQuestionEvents(s, t, q) ==
    <<[type |-> "task.questionAnswered", taskId |-> t, questionId |-> q],
      ResumeEvent(s, t)>>

\* Mutant: a finished task can still be cancelled.
MutantCancelTerminal(s, t, expected) ==
    /\ Exists(s, t)
    /\ CheckRevision(s, t, expected)
    /\ (IsActive(s, t) /\ s.queue # <<>>) => RunLeft(s)

CanCancel(s, t, expected) ==
    /\ Exists(s, t)
    /\ CheckRevision(s, t, expected)
    /\ s.tasks[t].state \notin TerminalStates
    /\ (IsActive(s, t) /\ s.queue # <<>>) => RunLeft(s)
CancelEvents(s, t) ==
    LET cancelled == [type |-> "task.cancelled", taskId |-> t]
    IN  IF IsActive(s, t) THEN AndStartNext(s, cancelled) ELSE <<cancelled>>

MoveOperations == {"move_first", "move_last", "move_before", "move_after"}
CanMoveQueue(s, t, operation, anchor) ==
    /\ s.tasks[t].state = "queued"
    /\ Contains(s.queue, t)
    /\ operation \in {"move_first", "move_last"} => anchor = None
    /\ operation \in {"move_before", "move_after"} =>
          anchor # t /\ Contains(s.queue, anchor)
\* Mutant: the moved task is taken out and not put back.
MutantMoveLosesTask(s, t, operation, anchor) ==
    <<[type |-> "queue.reordered", taskId |-> t, taskIds |-> RemoveFromQueue(s.queue, t)]>>

MoveQueueEvents(s, t, operation, anchor) ==
    LET rest == RemoveFromQueue(s.queue, t)
        anchorIndex == CHOOSE i \in DOMAIN rest : rest[i] = anchor
        moved == CASE operation = "move_first"  -> <<t>> \o rest
                   [] operation = "move_last"   -> rest \o <<t>>
                   [] operation = "move_before" -> InsertAt(rest, anchorIndex, t)
                   [] operation = "move_after"  -> InsertAt(rest, anchorIndex + 1, t)
    IN  <<[type |-> "queue.reordered", taskId |-> t, taskIds |-> moved]>>

\* Mutant: a card is resolved whatever revision it was made for.
MutantResolveStaleCard(s, c, decision, expected) ==
    LET t == s.confirmations[c].taskId
    IN  /\ s.confirmations[c].state = "pending"
        /\ CheckRevision(s, t, expected)
        /\ s.tasks[t].state = "awaiting_user"
        /\ IsActive(s, t)
        /\ IF decision = "approve" THEN RunLeft(s) ELSE s.tasks[t].lastRunId # None

CanResolveApproval(s, c, decision, expected) ==
    LET t == s.confirmations[c].taskId
    IN  /\ s.confirmations[c].state = "pending"
        /\ CheckRevision(s, t, expected)
        /\ s.confirmations[c].taskRevision = s.tasks[t].revision
        /\ s.tasks[t].state = "awaiting_user"
        /\ IsActive(s, t)
        /\ IF decision = "approve" THEN RunLeft(s) ELSE s.tasks[t].lastRunId # None
ResolveApprovalEvents(s, c, decision) ==
    LET t == s.confirmations[c].taskId
        resolved == [type |-> "approval.resolved", confirmationId |-> c,
                     decision |-> decision]
        paused == [type |-> "task.paused", taskId |-> t,
                   runId |-> s.tasks[t].lastRunId]
    IN  IF decision = "approve" THEN <<resolved, ResumeEvent(s, t)>>
        ELSE <<resolved, paused>>

-----------------------------------------------------------------------------
(* Signals of the coding runner.                                           *)

CanPauseAtSafeBoundary(s, t) ==
    s.tasks[t].state = "pause_requested" /\ s.tasks[t].activeRunId # None
PauseAtSafeBoundaryEvents(s, t) ==
    <<[type |-> "task.paused", taskId |-> t, runId |-> s.tasks[t].activeRunId]>>

\* the id of the question is the id of the command: it is new
CanAwaitUserInput(s, t, q) ==
    /\ s.questions[q].state = "none"
    /\ InRun(s, t)
    /\ OpenQuestions(s, t) = {}
AwaitUserInputEvents(s, t, q) ==
    <<[type |-> "task.questionAsked", taskId |-> t, questionId |-> q,
       runId |-> s.tasks[t].activeRunId, revision |-> s.tasks[t].revision]>>

\* recordCoderSession does not look at the state of the task
CanRecordCoderSession(s, t, r) == IsActive(s, t) /\ s.tasks[t].activeRunId = r
RecordCoderSessionEvents(t, r) ==
    <<[type |-> "coder.sessionBound", taskId |-> t, runId |-> r]>>

Confirmations(s, t, fingerprint, confirmationState) ==
    {c \in ConfirmationIds :
        /\ s.confirmations[c].taskId = t
        /\ s.confirmations[c].taskRevision = s.tasks[t].revision
        /\ s.confirmations[c].fingerprint = fingerprint
        /\ s.confirmations[c].state = confirmationState}

\* authorizeToolCall, for an effect that needs the user's approval (a routine
\* effect and a rejected one only record policy.decisionRecorded, which changes
\* nothing): an approved card is consumed and the call goes ahead ...
CanConsumeApproval(s, t, c, fingerprint) ==
    InRun(s, t) /\ c \in Confirmations(s, t, fingerprint, "approved")
ConsumeApprovalEvents(c) ==
    <<[type |-> "approval.consumed", confirmationId |-> c]>>

\* Mutant: a second card is made while an approved one waits for its call.
MutantRequestDespiteApproval(s, t, fingerprint) ==
    InRun(s, t) /\ ConfirmationLeft(s)

\* ... a pending card is answered with its id and commits nothing; without
\* either, a card is requested and the run ends
CanRequestApproval(s, t, fingerprint) ==
    /\ InRun(s, t)
    /\ Confirmations(s, t, fingerprint, "approved") = {}
    /\ Confirmations(s, t, fingerprint, "pending") = {}
    /\ ConfirmationLeft(s)
RequestApprovalEvents(s, t, fingerprint) ==
    <<[type |-> "approval.requested", taskId |-> t,
       confirmationId |-> NewConfirmation(s), revision |-> s.tasks[t].revision,
       fingerprint |-> fingerprint],
      AwaitEvent(s, t)>>

CanReportWorkspaceConflict(s, t) == InRun(s, t)
ReportWorkspaceConflictEvents(s, t) ==
    <<[type |-> "workspace.conflictDetected", taskId |-> t], AwaitEvent(s, t)>>

\* completeTask and failTask; validateEvidence decides whether a completion is
\* accepted and is left open here
CanFinish(s, t) ==
    /\ IsActive(s, t)
    /\ s.tasks[t].activeRunId # None
    /\ s.tasks[t].state \in {"running", "pause_requested"}
    /\ s.queue # <<>> => RunLeft(s)
CompleteEvents(s, t) ==
    AndStartNext(s, [type |-> "task.completed", taskId |-> t,
                     runId |-> s.tasks[t].activeRunId])
FailEvents(s, t) ==
    AndStartNext(s, [type |-> "task.failed", taskId |-> t,
                     runId |-> s.tasks[t].activeRunId])

-----------------------------------------------------------------------------
(* recoverAfterRestart, at the boot of the daemon.                         *)
CanRecover(s) ==
    /\ s.activeTaskId # None
    /\ s.tasks[s.activeTaskId].state \in {"running", "pause_requested"}
    /\ s.tasks[s.activeTaskId].activeRunId # None
RecoverEvents(s) ==
    LET t == s.activeTaskId
        r == s.tasks[t].activeRunId
        interrupted == [type |-> "run.interrupted", taskId |-> t, runId |-> r]
        boundary == [type |-> "coder.recoveryBoundary", taskId |-> t, runId |-> r]
        paused == [type |-> "task.paused", taskId |-> t, runId |-> r]
    IN  IF s.tasks[t].session = None THEN <<interrupted, paused>>
        ELSE <<interrupted, boundary, paused>>
=============================================================================
