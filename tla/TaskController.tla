--------------------------- MODULE TaskController ---------------------------
(***************************************************************************)
(* The task controller of the daemon as the rest of the program sees it:   *)
(* one action per command and per runner signal that commits events.       *)
(* EventJournal adds the event log, retries and crashes; here a restart is *)
(* the replay of what memory already holds, followed by the recovery.      *)
(*                                                                         *)
(* wedged is set when applying a committed decision throws.  Memory then   *)
(* differs from the log and later commands throw too, so nothing follows.  *)
(***************************************************************************)
EXTENDS ControllerDecisions, FiniteSets

CONSTANTS
    Revisions,   \* Bound: the revisions that commands of the user expect
    Revisable,   \* Bound: the revisions that are revised
    SparesRuns   \* Bound: whether a run is interrupted only while SpareRun holds

VARIABLES state, wedged

vars == <<state, wedged>>

Init == state = EmptyState /\ wedged = FALSE

\* executeCommand commits the decision; handle then applies it to memory
Commit(events) ==
    LET memory == ApplyDecision([state |-> state, ok |-> TRUE], events)
    IN  /\ ~wedged
        /\ state' = memory.state
        /\ wedged' = ~memory.ok

\* Bound: a run is interrupted only while enough run ids remain to resume it
\* and to start every other task, so that running out of ids blocks nothing.
SpareRun ==
    SparesRuns =>
    Cardinality({t \in TaskIds : state.tasks[t].state \in {"none", "queued"}})
        < Cardinality({r \in RunIds : state.runs[r].state = "none"})

-----------------------------------------------------------------------------
(* The user, through the app, the editor or the voice toolkit.             *)

Submit(profile) ==
    CanSubmit(state) /\ Commit(SubmitEvents(state, profile))

RequestPause(t, expected) ==
    /\ SpareRun
    /\ CanRequestPause(state, t, expected)
    /\ Commit(RequestPauseEvents(t))

Revise(t, expected, profile) ==
    /\ expected \in Revisable
    /\ CanRevise(state, t, expected)
    /\ Commit(ReviseEvents(state, t, profile))

Resume(t, expected) ==
    CanResume(state, t, expected) /\ Commit(ResumeEvents(state, t))

AnswerQuestion(t, q, expected) ==
    /\ CanAnswerQuestion(state, t, q, expected)
    /\ Commit(AnswerQuestionEvents(state, t, q))

Cancel(t, expected) ==
    CanCancel(state, t, expected) /\ Commit(CancelEvents(state, t))

MoveQueue(t, operation, anchor) ==
    /\ CanMoveQueue(state, t, operation, anchor)
    /\ Commit(MoveQueueEvents(state, t, operation, anchor))

ResolveApproval(c, decision, expected) ==
    /\ CanResolveApproval(state, c, decision, expected)
    /\ Commit(ResolveApprovalEvents(state, c, decision))

-----------------------------------------------------------------------------
(* The coding runner.                                                      *)

PauseAtSafeBoundary(t) ==
    CanPauseAtSafeBoundary(state, t) /\ Commit(PauseAtSafeBoundaryEvents(state, t))

AwaitUserInput(t, q) ==
    /\ SpareRun
    /\ CanAwaitUserInput(state, t, q)
    /\ Commit(AwaitUserInputEvents(state, t, q))

RecordCoderSession(t, r) ==
    CanRecordCoderSession(state, t, r) /\ Commit(RecordCoderSessionEvents(t, r))

ConsumeApproval(t, c, fingerprint) ==
    CanConsumeApproval(state, t, c, fingerprint) /\ Commit(ConsumeApprovalEvents(c))

RequestApproval(t, fingerprint) ==
    /\ SpareRun
    /\ CanRequestApproval(state, t, fingerprint)
    /\ Commit(RequestApprovalEvents(state, t, fingerprint))

ReportWorkspaceConflict(t) ==
    /\ SpareRun
    /\ CanReportWorkspaceConflict(state, t)
    /\ Commit(ReportWorkspaceConflictEvents(state, t))

CompleteTask(t) == CanFinish(state, t) /\ Commit(CompleteEvents(state, t))

FailTask(t) == CanFinish(state, t) /\ Commit(FailEvents(state, t))

-----------------------------------------------------------------------------
\* The daemon stops and boots again: the log is replayed and the run that was
\* in flight is interrupted and paused.
RecoverAfterRestart ==
    /\ SpareRun
    /\ CanRecover(state)
    /\ Commit(RecoverEvents(state))

UserStep ==
    \/ \E profile \in Profiles : Submit(profile)
    \/ \E t \in TaskIds, operation \in MoveOperations, anchor \in TaskIds \cup {None} :
          MoveQueue(t, operation, anchor)
    \/ \E expected \in Revisions :
          \/ \E t \in TaskIds :
                \/ RequestPause(t, expected)
                \/ Resume(t, expected)
                \/ Cancel(t, expected)
                \/ \E profile \in Profiles : Revise(t, expected, profile)
                \/ \E q \in QuestionIds : AnswerQuestion(t, q, expected)
          \/ \E c \in ConfirmationIds, decision \in {"approve", "reject"} :
                ResolveApproval(c, decision, expected)

CoderStep ==
    \E t \in TaskIds :
        \/ PauseAtSafeBoundary(t)
        \/ ReportWorkspaceConflict(t)
        \/ CompleteTask(t)
        \/ FailTask(t)
        \/ \E q \in QuestionIds : AwaitUserInput(t, q)
        \/ \E r \in RunIds : RecordCoderSession(t, r)
        \/ \E fingerprint \in Fingerprints :
              \/ RequestApproval(t, fingerprint)
              \/ \E c \in ConfirmationIds : ConsumeApproval(t, c, fingerprint)

Next == UserStep \/ CoderStep \/ RecoverAfterRestart

Spec == Init /\ [][Next]_vars

-----------------------------------------------------------------------------
(* Fairness: the coder goes on until it finishes or reaches a boundary, and *)
(* the user unblocks the task that owns the slot.  Nobody is obliged to     *)
(* submit, revise, pause, cancel or reorder.  The weak fairness of Finish   *)
(* and Unblock is written with their guards in place of ENABLED.            *)
Finish(t) == CompleteTask(t) \/ FailTask(t)
FinishEnabled(t) == ~wedged /\ CanFinish(state, t)

Unblock(t) ==
    \E expected \in Revisions :
        \/ Resume(t, expected)
        \/ \E q \in QuestionIds : AnswerQuestion(t, q, expected)
        \/ \E c \in ConfirmationIds, decision \in {"approve", "reject"} :
              state.confirmations[c].taskId = t /\ ResolveApproval(c, decision, expected)
UnblockEnabled(t) ==
    /\ ~wedged
    /\ \E expected \in Revisions :
        \/ CanResume(state, t, expected)
        \/ \E q \in QuestionIds : CanAnswerQuestion(state, t, q, expected)
        \/ \E c \in ConfirmationIds, decision \in {"approve", "reject"} :
              /\ state.confirmations[c].taskId = t
              /\ CanResolveApproval(state, c, decision, expected)

FairSpec ==
    /\ Spec
    /\ \A t \in TaskIds :
          /\ []<>~FinishEnabled(t)  \/ []<><<Finish(t)>>_vars
          /\ []<>~UnblockEnabled(t) \/ []<><<Unblock(t)>>_vars

-----------------------------------------------------------------------------
(* Properties.                                                             *)

\* The controller state is well formed, whatever decisions were committed.
TypeOK == state \in ControllerStates /\ wedged \in BOOLEAN

StateOf(t) == state.tasks[t].state
Queued(t)  == \E i \in DOMAIN state.queue : state.queue[i] = t

\* The slot never idles while work waits: every decision that frees it (finish,
\* cancel) hands it to the head of the queue in the same transaction.
WorkConserving ==
    ~wedged => (state.activeTaskId = None => state.queue = <<>>)

\* One mutating job, globally: a run that is running is the active run of the
\* task that owns the slot, and it runs under the specification that task has
\* now; no revision, cancellation or restart leaves a run behind.
OneRunAtItsRevision ==
    ~wedged =>
    \A r \in RunIds : state.runs[r].state = "running" =>
        /\ state.activeTaskId = state.runs[r].taskId
        /\ state.tasks[state.runs[r].taskId].activeRunId = r
        /\ state.tasks[state.runs[r].taskId].revision = state.runs[r].taskRevision

\* No task is lost: a live task owns the slot, a queued one is in the queue,
\* once, and nothing else is in either place.
EveryTaskHasItsPlace ==
    ~wedged =>
    /\ \A t \in TaskIds : /\ StateOf(t) \in LiveStates <=> state.activeTaskId = t
                          /\ StateOf(t) = "queued" <=> Queued(t)
    /\ \A i, j \in DOMAIN state.queue : state.queue[i] = state.queue[j] => i = j

\* A suspended task waits for exactly one thing.  A card that can still be
\* answered belongs to a task that waits for it: resume refuses while such a
\* card is pending, so a task that did not wait for it could never go on; and a
\* task never owes the user both a card and a question.
OneThingToUnblock ==
    ~wedged =>
    \A t \in TaskIds : StateOf(t) \in LiveStates =>
        LET cards == PendingConfirmations(state, t)
            open  == OpenQuestions(state, t)
        IN  /\ cards \cup open # {} => StateOf(t) = "awaiting_user"
            /\ cards = {} \/ open = {}
            /\ \A c, d \in cards : c = d
            /\ \A q \in open : state.questions[q].taskRevision = state.tasks[t].revision

\* The coder never works over a workspace conflict that the user has not seen:
\* from detection to resume the task waits.
ConflictStopsCoder ==
    ~wedged =>
    \A t \in TaskIds : (state.tasks[t].conflict /\ StateOf(t) \in LiveStates)
        => StateOf(t) = "awaiting_user"

\* An effect has at most one live card per task revision, so one approval of the
\* user lets one call through.
OneLiveCardPerEffect ==
    ~wedged =>
    \A c, d \in ConfirmationIds :
        LET live == {"pending", "approved"}
            C == state.confirmations[c]
            D == state.confirmations[d]
        IN  (C.state \in live /\ D.state \in live /\ C.taskId = D.taskId
                /\ C.taskRevision = D.taskRevision /\ C.fingerprint = D.fingerprint)
            => c = d

\* The controller's own assertion fails in one situation only: a cancelled task
\* whose question was still open.
OnlyCancelWedges ==
    wedged => \E t \in TaskIds : StateOf(t) = "cancelled" /\ OpenQuestions(state, t) # {}

\* What ARCHITECTURE.md says of questions: an open one implies awaiting_user.
OpenQuestionImpliesAwaiting ==
    \A t \in TaskIds : OpenQuestions(state, t) # {} => StateOf(t) = "awaiting_user"

\* A finished task is final: no late signal, answer, approval or restart changes
\* it, gives it a run, or puts it back in the queue.
TerminalIsFinal ==
    [][\A t \in TaskIds : StateOf(t) \in TerminalStates =>
          state'.tasks[t] = state.tasks[t]]_vars

\* A card is consumed only by a run of the specification it was approved for,
\* and a card of an older revision is never resolved.
CardsActAtTheirRevision ==
    [][\A c \in ConfirmationIds :
          LET card == state.confirmations[c]
          IN  card.state \notin {"none", state'.confirmations[c].state} =>
                /\ state.tasks[card.taskId].revision = card.taskRevision
                /\ state'.tasks[card.taskId].revision = card.taskRevision
                /\ state'.confirmations[c].state = "consumed" =>
                      state.runs[state.tasks[card.taskId].activeRunId].taskRevision
                          = card.taskRevision]_vars

Before(queue, t, u) ==
    \E i, j \in DOMAIN queue : i < j /\ queue[i] = t /\ queue[j] = u

\* Only queue.move reorders: whoever waits in front of another task stays in
\* front of it through every submission, cancellation and start.  A new task
\* overtakes the first waiting task of the "fast" profile and those behind it,
\* of whatever profile a queue.move has put there, and nobody else.
OnlyMoveReorders ==
    [][(\E t \in TaskIds, operation \in MoveOperations, anchor \in TaskIds \cup {None} :
            MoveQueue(t, operation, anchor))
       \/ \A t, u \in TaskIds :
             Before(state'.queue, u, t) =>
                \/ Before(state.queue, u, t)
                \/ ~Queued(t)
                \/ /\ ~Queued(u)
                   /\ state'.tasks[u].profile # "fast"
                   /\ \E f \in TaskIds : /\ state.tasks[f].profile = "fast"
                                         /\ f = t \/ Before(state.queue, f, t)]_vars

\* When the user answers and the coder finishes, every queued task gets its turn
\* (once submissions stop: the bound on TaskIds).
QueueDrains ==
    \A t \in TaskIds : StateOf(t) = "queued" ~> (StateOf(t) # "queued" \/ wedged)

\* ... and every task that owns the slot ends.
SlotIsReleased ==
    \A t \in TaskIds :
        StateOf(t) \in LiveStates ~> (StateOf(t) \in TerminalStates \/ wedged)
=============================================================================
