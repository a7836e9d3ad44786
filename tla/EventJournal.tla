---------------------------- MODULE EventJournal ----------------------------
(***************************************************************************)
(* The event log behind the task controller: executeCommand of             *)
(* packages/core/src/event-store.ts, the way controller.ts applies what it *)
(* commits, and the boot of the daemon (replay, then recoverAfterRestart). *)
(*                                                                         *)
(* Commands of the user carry an id and can be delivered any number of     *)
(* times, at any time and in any order; signals of the coder get a fresh   *)
(* id for every call.  The daemon can stop between any two steps: the log  *)
(* and the command table survive, the memory does not.                     *)
(*                                                                         *)
(* A decision is committed before it is applied.  When applying throws,    *)
(* the events stay in the log, the rest of them never reaches memory, and  *)
(* the daemon goes on with the memory it has.                              *)
(***************************************************************************)
EXTENDS ControllerDecisions, FiniteSets

CONSTANTS
    CommandIds,   \* ids of user commands
    Commands,     \* Bound: the user commands that are issued
    MaxLog        \* Bound: events in the log before a new decision is taken

UserCommands ==
    [type : {"task.submit"}, profile : Profiles]
    \cup [type : {"task.requestPause", "task.resume", "task.cancel", "task.revise"},
          taskId : TaskIds, expected : Nat]
    \cup [type : {"task.answerQuestion"}, taskId : TaskIds,
          questionId : QuestionIds, expected : Nat]
    \cup [type : {"queue.move"}, taskId : TaskIds, operation : MoveOperations,
          anchor : TaskIds \cup {None}]
    \cup [type : {"approval.resolve"}, confirmationId : ConfirmationIds,
          decision : {"approve", "reject"}, expected : Nat]

ASSUME CommandsAssumption == Commands \subseteq UserCommands

VARIABLES
    log,       \* the events table; the position of an event is its seq
    results,   \* the commands table: the stored result of each command id
    requests,  \* the command each id was issued for
    replies,   \* the replies the sender of each id has received
    memory,    \* the controller's state and the seq it has applied
    daemon     \* "up", "down", or "broken": the boot threw

vars == <<log, results, requests, replies, memory, daemon>>

NoRequest == [type |-> "none"]
Results == {"none", "accepted", "rejected", "conflict"}
Answers == {"accepted", "rejected", "conflict", "mismatch"}

Init ==
    /\ log = <<>>
    /\ results = [c \in CommandIds |-> "none"]
    /\ requests = [c \in CommandIds |-> NoRequest]
    /\ replies = [c \in CommandIds |-> {}]
    /\ memory = [state |-> EmptyState, seq |-> 0]
    /\ daemon = "up"

-----------------------------------------------------------------------------
(* Deciding, committing, applying.                                         *)

\* #decide
Accepts(s, command) ==
    LET t == command.taskId
        c == command.confirmationId
        expected == command.expected
    IN  CASE command.type = "task.submit"       -> CanSubmit(s)
          [] command.type = "task.requestPause" -> CanRequestPause(s, t, expected)
          [] command.type = "task.resume"       -> CanResume(s, t, expected)
          [] command.type = "task.cancel"       -> CanCancel(s, t, expected)
          [] command.type = "task.revise"       -> CanRevise(s, t, expected)
          [] command.type = "task.answerQuestion" ->
                CanAnswerQuestion(s, t, command.questionId, expected)
          [] command.type = "queue.move" ->
                CanMoveQueue(s, t, command.operation, command.anchor)
          [] command.type = "approval.resolve" ->
                CanResolveApproval(s, c, command.decision, expected)

EventsOf(s, command) ==
    LET t == command.taskId
        c == command.confirmationId
    IN  CASE command.type = "task.submit"       -> SubmitEvents(s, command.profile)
          [] command.type = "task.requestPause" -> RequestPauseEvents(t)
          [] command.type = "task.resume"       -> ResumeEvents(s, t)
          [] command.type = "task.cancel"       -> CancelEvents(s, t)
          [] command.type = "task.revise"       ->
                ReviseEvents(s, t, s.tasks[t].profile)
          [] command.type = "task.answerQuestion" ->
                AnswerQuestionEvents(s, t, command.questionId)
          [] command.type = "queue.move" ->
                MoveQueueEvents(s, t, command.operation, command.anchor)
          [] command.type = "approval.resolve" ->
                ResolveApprovalEvents(s, c, command.decision)

\* a stale expectedRevision is told apart from other rejections; neither commits
\* an event
IsStale(s, command) ==
    CASE command.type \in {"task.submit", "queue.move"} -> FALSE
      [] command.type = "approval.resolve" ->
            LET card == s.confirmations[command.confirmationId]
            IN  /\ card.state # "none"
                /\ ~CheckRevision(s, card.taskId, command.expected)
      [] OTHER ->
            /\ Exists(s, command.taskId)
            /\ ~CheckRevision(s, command.taskId, command.expected)

ResultOf(s, command) ==
    IF Accepts(s, command) THEN "accepted"
    ELSE IF IsStale(s, command) THEN "conflict" ELSE "rejected"

\* what the coder's signals can commit in state s
CoderDecisions(s) ==
    {PauseAtSafeBoundaryEvents(s, t) : t \in {x \in TaskIds : CanPauseAtSafeBoundary(s, x)}}
    \cup {ReportWorkspaceConflictEvents(s, t) :
             t \in {x \in TaskIds : CanReportWorkspaceConflict(s, x)}}
    \cup {ConsumeApprovalEvents(c) :
             c \in {y \in ConfirmationIds : \E t \in TaskIds, f \in Fingerprints :
                                               CanConsumeApproval(s, t, y, f)}}
    \cup (UNION {{CompleteEvents(s, t), FailEvents(s, t)} :
                    t \in {x \in TaskIds : CanFinish(s, x)}})
    \cup (UNION {     {AwaitUserInputEvents(s, t, q) :
                          q \in {x \in QuestionIds : CanAwaitUserInput(s, t, x)}}
                 \cup {RecordCoderSessionEvents(t, r) :
                          r \in {x \in RunIds : CanRecordCoderSession(s, t, x)}}
                 \cup {RequestApprovalEvents(s, t, f) :
                          f \in {x \in Fingerprints : CanRequestApproval(s, t, x)}} :
                    t \in TaskIds})

\* applyEvent with its contiguity check; the seq is assigned before the
\* assertions are evaluated
ApplyNext(m, event, seq) ==
    IF m.threw THEN m
    ELSE IF seq # m.seq + 1 \/ ~Fits(m.state, event) THEN [m EXCEPT !.threw = TRUE]
    ELSE LET next == Apply(m.state, event)
         IN  [state |-> next, seq |-> seq, threw |-> ~StateInvariants(next)]

\* "for (const event of execution.events) applyEvent(...)", committed after base
ApplyCommitted(m, events, base) ==
    LET applied[i \in 0..Len(events)] ==
            IF i = 0 THEN [state |-> m.state, seq |-> m.seq, threw |-> FALSE]
            ELSE ApplyNext(applied[i - 1], events[i], base + i)
    IN  applied[Len(events)]

\* Mutant: memory applies what was never inserted in the log.
MutantAppliedNotLogged(events) ==
    LET applied == ApplyCommitted(memory, events, Len(log))
    IN  /\ UNCHANGED log
        /\ memory' = [state |-> applied.state, seq |-> applied.seq]

Journal(events) ==
    LET applied == ApplyCommitted(memory, events, Len(log))
    IN  /\ log' = log \o events
        /\ memory' = [state |-> applied.state, seq |-> applied.seq]

AppliesCleanly(events) == ~ApplyCommitted(memory, events, Len(log)).threw

Replay(events) ==
    ApplyCommitted([state |-> EmptyState, seq |-> 0], events, 0)

-----------------------------------------------------------------------------
(* Clients.                                                                *)

\* Ids are taken in a fixed order: they are only compared.
Issue(command) ==
    LET unused == {c \in CommandIds : requests[c] = NoRequest}
    IN  /\ unused # {}
        /\ requests' = [requests EXCEPT ![CHOOSE c \in unused : TRUE] = command]
        /\ UNCHANGED <<log, results, replies, memory, daemon>>

\* Before the journal is asked, a submission is compared with the workspace that is
\* selected and with the stored attachments.  The workspace can be selected and the
\* artifacts change between any two deliveries, so either outcome is possible at any
\* time, for an id that has a row, too; the refusal leaves none.
RefuseMismatch(c) ==
    /\ daemon = "up"
    /\ requests[c].type = "task.submit"
    /\ replies' = [replies EXCEPT ![c] = @ \cup {"mismatch"}]
    /\ UNCHANGED <<log, results, requests, memory, daemon>>

\* A command that was delivered before is answered from the table.
DeliverAgain(c) ==
    /\ daemon = "up"
    /\ results[c] # "none"
    /\ replies' = [replies EXCEPT ![c] = @ \cup {results[c]}]
    /\ UNCHANGED <<log, results, requests, memory, daemon>>

\* Mutant: the events are committed in a transaction of their own, before the
\* row of the command.
MutantUnrecordedCommand(c, command) ==
    LET s == memory.state
    IN  /\ results' = [results EXCEPT ![c] =
                          IF Accepts(s, command) THEN @ ELSE ResultOf(s, command)]
        /\ Journal(IF Accepts(s, command) THEN EventsOf(s, command) ELSE <<>>)
\* Mutant: a rejected command leaves no row behind.
MutantForgottenRejection(c, command) ==
    LET s == memory.state
    IN  /\ results' = [results EXCEPT ![c] = IF Accepts(s, command) THEN "accepted" ELSE @]
        /\ Journal(IF Accepts(s, command) THEN EventsOf(s, command) ELSE <<>>)

\* executeCommand, for an id that has no row yet: one transaction decides,
\* inserts the events and inserts the command with its result.
Execute(c, command) ==
    LET s == memory.state
    IN  /\ results' = [results EXCEPT ![c] = ResultOf(s, command)]
        /\ Journal(IF Accepts(s, command) THEN EventsOf(s, command) ELSE <<>>)

\* The reply may be lost with the connection; when applying throws there is none.
Deliver(c) ==
    LET s == memory.state
        command == requests[c]
        answered == Accepts(s, command) => AppliesCleanly(EventsOf(s, command))
    IN  /\ daemon = "up"
        /\ command # NoRequest
        /\ results[c] = "none"
        /\ Len(log) < MaxLog
        /\ Execute(c, command)
        /\ \/ /\ answered
              /\ replies' = [replies EXCEPT ![c] = @ \cup {ResultOf(s, command)}]
           \/ UNCHANGED replies
        /\ UNCHANGED <<requests, daemon>>

-----------------------------------------------------------------------------
(* The coder.  Its signals are commands with ids nothing else has.         *)

Signal(events) ==
    /\ daemon = "up"
    /\ Len(log) < MaxLog
    /\ Journal(events)
    /\ UNCHANGED <<results, requests, replies, daemon>>

-----------------------------------------------------------------------------
(* The daemon process.                                                     *)

Crash ==
    /\ daemon = "up"
    /\ daemon' = "down"
    /\ memory' = [state |-> EmptyState, seq |-> 0]
    /\ UNCHANGED <<log, results, requests, replies>>

\* Mutant: the replayed state is used as it is; the run in flight goes on.
MutantNoRecovery(replayed) ==
    /\ memory' = [state |-> replayed.state, seq |-> replayed.seq]
    /\ UNCHANGED log

\* Mutant: the recovery changes the memory and not the log.
MutantUnloggedRecovery(replayed) ==
    LET events == IF CanRecover(replayed.state) THEN RecoverEvents(replayed.state) ELSE <<>>
        applied == ApplyCommitted(replayed, events, Len(log))
    IN  /\ UNCHANGED log
        /\ memory' = [state |-> applied.state, seq |-> applied.seq]

\* recoverAfterRestart, in the same turn as the replay
Recover(replayed) ==
    LET events == IF CanRecover(replayed.state) THEN RecoverEvents(replayed.state) ELSE <<>>
        applied == ApplyCommitted(replayed, events, Len(log))
    IN  /\ log' = log \o events
        /\ memory' = [state |-> applied.state, seq |-> applied.seq]

\* the controller's constructor replays the log; when that throws the process
\* ends, and so does every one that is started after it
Boot ==
    LET replayed == Replay(log)
    IN  /\ daemon = "down"
        /\ IF replayed.threw
           THEN daemon' = "broken" /\ UNCHANGED <<log, memory>>
           ELSE daemon' = "up" /\ Recover(replayed)
        /\ UNCHANGED <<results, requests, replies>>

Next ==
    \/ \E command \in Commands : Issue(command)
    \/ \E c \in CommandIds : Deliver(c) \/ DeliverAgain(c) \/ RefuseMismatch(c)
    \/ \E events \in CoderDecisions(memory.state) : Signal(events)
    \/ Crash
    \/ Boot

Spec == Init /\ [][Next]_vars

-----------------------------------------------------------------------------
(* Properties.                                                             *)

CancelledWithOpenQuestion(s) ==
    \E t \in TaskIds : s.tasks[t].state = "cancelled" /\ OpenQuestions(s, t) # {}

\* The tables and the memory are well formed; the commands table has a row only
\* for commands that were issued.
TypeOK ==
    /\ results \in [CommandIds -> Results]
    /\ replies \in [CommandIds -> SUBSET Answers]
    /\ requests \in [CommandIds -> Commands \cup {NoRequest}]
    /\ memory.seq \in 0..Len(log)
    /\ daemon \in {"up", "down", "broken"}
    /\ \A c \in CommandIds : results[c] # "none" => requests[c] # NoRequest

\* While the daemon is up its memory is what a restart would read from the log:
\* no decision is taken on a state that the log does not justify.  The one way
\* out is a cancellation that leaves a question open.
MemoryIsTheLog ==
    (daemon = "up" /\ ~CancelledWithOpenQuestion(memory.state)) =>
        LET replayed == Replay(log)
        IN  /\ ~replayed.threw
            /\ memory = [state |-> replayed.state, seq |-> replayed.seq]
            /\ memory.seq = Len(log)

\* A log that cannot be replayed, so that the daemon never boots again, comes
\* from that cancellation only.
OnlyCancelBreaksBoot ==
    daemon = "broken" => CancelledWithOpenQuestion(Replay(log).state)

\* What the sender of a command was told is what the table holds, after any number
\* of crashes and deliveries: the replies to one id never contradict each other.  One
\* answer is not kept: that a submission does not match the selected workspace or the
\* stored attachments.  It can be given before the decision and after it.
RepliesAreDurable ==
    \A c \in CommandIds : \A answer \in replies[c] :
        answer = results[c]
        \/ (answer = "mismatch" /\ requests[c].type = "task.submit")

\* A submission that is delivered twice, also across a crash, makes one task;
\* an accepted command is never decided again on a later state.
OneTaskPerSubmission ==
    Cardinality({i \in DOMAIN log : log[i].type = "task.created"})
        <= Cardinality({c \in CommandIds : requests[c].type = "task.submit"})

\* Nothing resumes implicitly: after a boot no run is running, whatever was in
\* flight, and the task that was interrupted waits in the slot for a resume.
BootResumesNothing ==
    [][daemon = "down" /\ daemon' = "up" =>
         /\ \A r \in RunIds : memory'.state.runs[r].state # "running"
         /\ \A t \in TaskIds :
               /\ t = Replay(log).state.activeTaskId <=> t = memory'.state.activeTaskId
               /\ memory'.state.tasks[t].state \notin {"running", "pause_requested"}]_vars

\* The interrupted run is over for good: no boot, resume or late signal takes
\* it up again.
InterruptedIsFinal ==
    [][\A r \in RunIds :
         memory.state.runs[r].state = "interrupted" /\ daemon' = "up" =>
            memory'.state.runs[r].state = "interrupted"]_vars
=============================================================================
