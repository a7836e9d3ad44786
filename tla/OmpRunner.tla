------------------------------ MODULE OmpRunner ------------------------------
(***************************************************************************)
(* The runner of the embedded coding agent (packages/core/src/omp-runner   *)
(* .ts) under the task controller.                                         *)
(*                                                                         *)
(* As in ExternalRunner, a run that the controller starts or resumes is an *)
(* activation of #startTask or #resumeTask, the activations share the      *)
(* private fields, and a step goes from one wait for the outside to the    *)
(* next.  What differs: the agent is a session object that outlives the    *)
(* activation which created it, the runner waits for the disposal of a     *)
(* session before or after it changes its fields, and the agent's tools,   *)
(* their evidence and the cancellation of a task go on beside the          *)
(* activation.  A session is named by the run whose activation created it. *)
(*                                                                         *)
(* Left out: prompts, the text of answers, askCoder, steer and followUp,   *)
(* which only add text to a session, dispose, which ends the process, and  *)
(* a prompt that rejects in a resumed activation, which nobody catches.    *)
(* As in TaskController, nothing follows a decision whose application      *)
(* throws; the runner is not told of it.                                   *)
(***************************************************************************)
EXTENDS ControllerDecisions, FiniteSets

CONSTANT MaxAttempts   \* Bound: turns that ask for verification again; 2 in the code

ASSUME MaxAttemptsAssumption == MaxAttempts \in Nat

VARIABLES
    state,      \* the controller's state
    wedged,     \* applying a committed decision has thrown
    runner,     \* the fields the activations share
    turns,      \* the activation of each run
    sessions,   \* the agent's sessions
    stops       \* how far #stopCurrent of each cancelled task is

vars == <<state, wedged, runner, turns, sessions, stops>>
machine == [state |-> state, wedged |-> wedged, runner |-> runner, turns |-> turns,
            sessions |-> sessions, stops |-> stops]
Becomes(m) ==
    /\ state' = m.state /\ wedged' = m.wedged /\ runner' = m.runner
    /\ turns' = m.turns /\ sessions' = m.sessions /\ stops' = m.stops

\* what an activation waits for: disposal of the last session, the guard's scan
\* and a session, the session's file, the agent, the evidence; when it resumes,
\* the agent and the evidence, the guard's scan; at its end, disposal again
Waits == {"disposing", "starting", "binding", "prompted", "gathering",
          "resuming", "reconciling", "cleaning"}

Init ==
    /\ state = EmptyState
    /\ wedged = FALSE
    /\ runner = [generation |-> None,       \* the run that last incremented it
                 taskId |-> None, session |-> None,
                 pauseRequested |-> FALSE, pauseAcknowledged |-> FALSE,
                 attribution |-> None]      \* the session whose afterTool the guard awaits
    /\ turns = [r \in RunIds |-> [at |-> "none", task |-> None, attempt |-> 0,
                                  session |-> None]]        \* the session it prompted
    /\ sessions = [s \in RunIds |-> [at |-> "none", streaming |-> FALSE, aborted |-> FALSE,
                                     call |-> "none",     \* the tool call in progress
                                     awaits |-> FALSE,    \* it waits for the attribution
                                     attribution |-> "clear",   \* of the tool before it
                                     evidence |-> None]]  \* the run that evidence is for
    /\ stops = [t \in TaskIds |-> "none"]

-----------------------------------------------------------------------------
(* The fields of the runner.  m is a record like machine.                  *)

TaskOf(m, s) == m.turns[s].task       \* the task the session was created for
Streams(m, s) == s # None /\ m.sessions[s].streaming

\* #disposeSession, up to session.dispose()
TakeSession(m) ==
    IF m.runner.session = None THEN m
    ELSE [m EXCEPT !.sessions[m.runner.session].at = "stopped", !.runner.session = None]

\* workspaceGuard.finish(); #taskId = null
Release(m) == [m EXCEPT !.runner.taskId = None]
Returned(m, r) == [m EXCEPT !.turns[r].at = "returned", !.turns[r].attempt = 0]
Waiting(m, r, wait) == [m EXCEPT !.turns[r].at = wait]

\* #startTask from where the last session is disposed of to workspaceGuard.start.
\* Nothing looks at the generation here.
Begin(m, r) ==
    LET t == m.turns[r].task
    IN  IF m.state.tasks[t].state \notin {"running", "pause_requested"} THEN Returned(m, r)
        ELSE Waiting([m EXCEPT !.runner.taskId = t,
                               !.runner.pauseRequested = m.state.tasks[t].state = "pause_requested",
                               !.runner.pauseAcknowledged = FALSE], r, "starting")

\* Mutant: the last session is not disposed of.
MutantStartKeepsSession(m, r) ==
    Begin([m EXCEPT !.runner.generation = r, !.turns[r].task = m.state.runs[r].taskId], r)

\* #startTask
StartTask(m, r) ==
    LET started == [m EXCEPT !.runner.generation = r,
                             !.turns[r].task = m.state.runs[r].taskId]
    IN  IF m.runner.session = None THEN Begin(started, r)
        ELSE Waiting(TakeSession(started), r, "disposing")

\* #resumeTask, up to waitForIdle
ResumeTask(m, r) ==
    LET t == m.state.runs[r].taskId
    IN  IF t # m.runner.taskId \/ m.runner.session = None THEN StartTask(m, r)
        ELSE Waiting([m EXCEPT !.runner.generation = r, !.turns[r].task = t,
                               !.runner.pauseRequested = FALSE,
                               !.runner.pauseAcknowledged = FALSE], r, "resuming")

\* #stopCurrent, up to its first wait
StopCurrent(m, t) ==
    LET stopped == [m EXCEPT !.runner.generation = None]
    IN  IF Streams(m, m.runner.session)
        THEN [stopped EXCEPT !.sessions[m.runner.session].aborted = TRUE, !.stops[t] = "aborting"]
        ELSE IF m.runner.session = None THEN Release(stopped)
        ELSE [TakeSession(stopped) EXCEPT !.stops[t] = "disposing"]

\* A decision of the controller, committed and applied.
Commit(m, events) ==
    LET memory == ApplyDecision([state |-> m.state, ok |-> TRUE], events)
    IN  [m EXCEPT !.state = memory.state, !.wedged = ~memory.ok]

\* #acknowledgePause; the runner handles none of the events of a safe pause
AcknowledgePause(m) ==
    LET t == m.runner.taskId
    IN  IF t = None \/ ~m.runner.pauseRequested \/ m.runner.pauseAcknowledged
           \/ ~CanPauseAtSafeBoundary(m.state, t)
        THEN m
        ELSE Commit([m EXCEPT !.runner.pauseAcknowledged = TRUE],
                    PauseAtSafeBoundaryEvents(m.state, t))

\* Mutant: a pause requested before there is a session is forgotten.
MutantPauseNeedsSession(m, t) ==
    LET asked == [m EXCEPT !.runner.pauseRequested = TRUE, !.runner.pauseAcknowledged = FALSE]
    IN  IF t # m.runner.taskId \/ m.runner.session = None THEN m
        ELSE IF ~Streams(m, m.runner.session) THEN AcknowledgePause(asked) ELSE asked

\* handleEvents, task.pauseRequested: an idle session is a safe boundary
PauseRequested(m, t) ==
    LET asked == [m EXCEPT !.runner.pauseRequested = TRUE, !.runner.pauseAcknowledged = FALSE]
    IN  IF t # m.runner.taskId THEN m
        ELSE IF m.runner.session # None /\ ~Streams(m, m.runner.session)
        THEN AcknowledgePause(asked) ELSE asked

\* Mutant: a cancellation stops whatever is at work.
MutantCancelStopsAny(m, e) ==
    CASE e.type = "task.started"        -> StartTask(m, e.runId)
      [] e.type = "task.resumed"        -> ResumeTask(m, e.runId)
      [] e.type = "task.pauseRequested" -> PauseRequested(m, e.taskId)
      [] e.type = "task.cancelled"      -> StopCurrent(m, e.taskId)
      [] OTHER -> m

\* handleEvents
HandleEvent(m, e) ==
    CASE e.type = "task.started"        -> StartTask(m, e.runId)
      [] e.type = "task.resumed"        -> ResumeTask(m, e.runId)
      [] e.type = "task.pauseRequested" -> PauseRequested(m, e.taskId)
      [] e.type = "task.cancelled" /\ e.taskId = m.runner.taskId -> StopCurrent(m, e.taskId)
      [] OTHER -> m

\* the runner is given the events of a decision one by one
HandleEvents(m, events) ==
    LET handled[i \in 0..Len(events)] ==
            IF i = 0 THEN m
            ELSE IF handled[i - 1].wedged THEN handled[i - 1]
            ELSE HandleEvent(handled[i - 1], events[i])
    IN  handled[Len(events)]

\* A decision that is published to the runner.
Decide(m, events) == HandleEvents(Commit(m, events), events)
Signal(m, accepted, events) == IF accepted THEN Decide(m, events) ELSE m

-----------------------------------------------------------------------------
(* The user.  Bound: SpareRun, a run is left for every task that waits and  *)
(* one more.  A task is cancelled here when it has no open question: see    *)
(* OnlyCancelWedges for the rest.                                           *)

SpareRun ==
    Cardinality({t \in TaskIds : state.tasks[t].state
                    \in {"queued", "pause_requested", "paused", "awaiting_user", "interrupted"}})
        < Cardinality({r \in RunIds : state.runs[r].state = "none"})
Revision(t) == state.tasks[t].revision

Submit == SpareRun /\ CanSubmit(state) /\ Becomes(Decide(machine, SubmitEvents(state, "fast")))

RequestPause(t) ==
    /\ SpareRun
    /\ CanRequestPause(state, t, Revision(t))
    /\ Becomes(Decide(machine, RequestPauseEvents(t)))

Resume(t) ==
    /\ CanResume(state, t, Revision(t))
    /\ Becomes(Decide(machine, ResumeEvents(state, t)))

AnswerQuestion(t, q) ==
    /\ CanAnswerQuestion(state, t, q, Revision(t))
    /\ Becomes(Decide(machine, AnswerQuestionEvents(state, t, q)))

Cancel(t) ==
    /\ OpenQuestions(state, t) = {}
    /\ CanCancel(state, t, Revision(t))
    /\ Becomes(Decide(machine, CancelEvents(state, t)))

ResolveApproval(c, decision) ==
    LET t == state.confirmations[c].taskId
    IN  /\ t # None
        /\ CanResolveApproval(state, c, decision, Revision(t))
        /\ Becomes(Decide(machine, ResolveApprovalEvents(state, c, decision)))

-----------------------------------------------------------------------------
(* Ends of an activation.                                                  *)

IsCurrent(m, r) == m.runner.generation = r /\ m.runner.taskId = m.turns[r].task

\* await #disposeSession(); workspaceGuard.finish(); #taskId = null
CleanUp(m, r) ==
    IF m.runner.session = None THEN Returned(Release(m), r)
    ELSE Waiting(TakeSession(m), r, "cleaning")

\* the end of #runTask
FinishTurn(m, r) == IF IsCurrent(m, r) THEN CleanUp(m, r) ELSE Returned(m, r)

OnFail(m, t) == Signal(m, CanFinish(m.state, t), FailEvents(m.state, t))

\* the catch branch of #startTask: the generation is read before onFail only
StartThrows(m, r) ==
    IF m.runner.generation # r THEN Returned(m, r)
    ELSE CleanUp(OnFail(m, m.turns[r].task), r)

\* #runTask, up to the end of the agent's turn
RunTask(m, r) ==
    IF m.runner.session = None \/ m.turns[r].task # m.runner.taskId THEN Returned(m, r)
    ELSE Waiting([m EXCEPT !.turns[r].session = m.runner.session,
                           !.sessions[m.runner.session].streaming = TRUE,
                           !.sessions[m.runner.session].aborted = FALSE], r, "prompted")

\* #reportWorkspaceConflict: the flags are those of whatever task is current
ReportConflict(m, t) ==
    LET marked == [m EXCEPT !.runner.pauseRequested = TRUE, !.runner.pauseAcknowledged = TRUE]
    IN  Signal(marked, CanReportWorkspaceConflict(m.state, t),
               ReportWorkspaceConflictEvents(m.state, t))
ConflictFound(t) == CanReportWorkspaceConflict(state, t) => SpareRun

-----------------------------------------------------------------------------
(* Activations, from one wait to the next.                                 *)

Disposed(r) ==
    /\ turns[r].at = "disposing"
    /\ Becomes(Begin(machine, r))

\* workspaceGuard.start, openSession and createSession are over
SessionCreated(r) ==
    /\ turns[r].at = "starting"
    /\ \/ Becomes(StartThrows(machine, r))
       \/ Becomes([(IF runner.generation # r THEN Returned(machine, r)
                    ELSE Waiting(machine, r, "binding"))
                      EXCEPT !.runner.attribution = None])

\* onSessionBound, then the session becomes #session
Bind(m, r) ==
    IF ~CanRecordCoderSession(m.state, m.turns[r].task, r) THEN StartThrows(m, r)
    ELSE RunTask([Decide(m, RecordCoderSessionEvents(m.turns[r].task, r))
                     EXCEPT !.runner.session = r, !.sessions[r].at = "live"], r)

\* ensureOnDisk is over; the generation was read before it
SessionOnDisk(r) ==
    /\ turns[r].at = "binding"
    /\ Becomes(StartThrows(machine, r)) \/ Becomes(Bind(machine, r))

\* session.prompt rejects; only an activation of #startTask catches it, for the
\* session that it has created, disposed of meanwhile or not
PromptThrows(r) ==
    /\ turns[r].at = "prompted" /\ sessions[r].streaming
    /\ Becomes(StartThrows([machine EXCEPT !.sessions[r].streaming = FALSE,
                                           !.sessions[r].call = "none"], r))

\* #pendingEvidence, which every start clears
NoEvidenceDue == runner.session # None => sessions[runner.session].attribution # "pending"

\* #resumeTask after waitForIdle and the pending evidence.  It goes on with
\* whatever session is current; without one it throws, and nobody catches it.
Rebind(m, r) ==
    LET t == m.turns[r].task
    IN  IF m.runner.session = None THEN Returned(m, r)
        ELSE IF CanRecordCoderSession(m.state, t, r)
        THEN Waiting(Decide(m, RecordCoderSessionEvents(t, r)), r, "reconciling")
        ELSE CleanUp(OnFail(m, t), r)
SessionIsIdle(r) ==
    /\ turns[r].at = "resuming"
    /\ ~Streams(machine, runner.session) /\ NoEvidenceDue
    /\ Becomes(Rebind(machine, r))

\* workspaceGuard.reconcile is over; nobody catches that it throws when the last
\* attribution has failed
Reconciled(r) ==
    LET clear == [machine EXCEPT !.runner.attribution = None]
        last == runner.attribution
    IN  /\ turns[r].at = "reconciling"
        /\ last # None => sessions[last].attribution # "pending"
        /\ Becomes(IF last # None /\ sessions[last].attribution = "failed"
                   THEN Returned(machine, r)
                   ELSE IF runner.generation = r THEN RunTask(clear, r)
                   ELSE Returned(clear, r))

\* The end of #runTask's turn: onNeedInput, onComplete and its refusals
NeedInput(m, r, q) ==
    LET t == m.turns[r].task
    IN  IF CanAwaitUserInput(m.state, t, q)
        THEN Returned(Decide(m, AwaitUserInputEvents(m.state, t, q)), r)
        ELSE FinishTurn(OnFail(m, t), r)
TryAgain(m, r) ==
    IF m.turns[r].attempt = MaxAttempts THEN FinishTurn(OnFail(m, m.turns[r].task), r)
    ELSE RunTask([m EXCEPT !.turns[r].attempt = @ + 1], r)

\* a completion that is refused is followed by onFail, which is refused, too
OnComplete(m, t) == Signal(m, CanFinish(m.state, t), CompleteEvents(m.state, t))

\* what the agent's last message says, when nobody asked for a pause
Outcome(r) ==
    LET t == turns[r].task
    IN  \/ Becomes(FinishTurn(OnFail(machine, t), r))        \* an error, or no summary
        \/ Becomes(FinishTurn(OnComplete(machine, t), r))
        \/ Becomes(TryAgain(machine, r))
        \/ \E q \in QuestionIds : /\ state.questions[q].state = "none"
                                  /\ SpareRun
                                  /\ Becomes(NeedInput(machine, r, q))

\* the evidence that was pending is recorded
Gathered(r) ==
    LET t == turns[r].task
    IN  /\ turns[r].at = "gathering" /\ NoEvidenceDue
        /\ IF ~IsCurrent(machine, r) \/ state.tasks[t].state = "awaiting_user"
           THEN Becomes(Returned(machine, r))
           ELSE IF runner.pauseRequested \/ sessions[turns[r].session].aborted
           THEN Becomes(Returned(AcknowledgePause(machine), r))
           ELSE IF state.tasks[t].state # "running" THEN Becomes(Returned(machine, r))
           ELSE Outcome(r)

\* session.dispose() at the end is over: the fields are cleared unconditionally
CleanedUp(r) ==
    /\ turns[r].at = "cleaning"
    /\ Becomes(Returned(Release(machine), r))

\* #stopCurrent after session.abort, and after the disposal
Stopped(t) ==
    \/ /\ stops[t] = "aborting"
       /\ Becomes(IF runner.session = None THEN Release([machine EXCEPT !.stops[t] = "done"])
                  ELSE TakeSession([machine EXCEPT !.stops[t] = "disposing"]))
    \/ /\ stops[t] = "disposing"
       /\ Becomes(Release([machine EXCEPT !.stops[t] = "done"]))

-----------------------------------------------------------------------------
(* The agent.                                                              *)

Free(s) ==
    /\ sessions[s].at = "live" /\ sessions[s].streaming /\ ~sessions[s].aborted
    /\ sessions[s].call = "none"

Abort(m, s) == [m EXCEPT !.sessions[s].aborted = TRUE]
OnCall(m, s, call) == [m EXCEPT !.sessions[s].call = call, !.sessions[s].awaits = FALSE]

\* workspaceGuard.beforeTool begins: it awaits the attribution the guard has now
BeforeTool(m, s) ==
    [m EXCEPT !.sessions[s].call = "checking",
              !.sessions[s].awaits = m.runner.attribution = s]

\* a tool call is where a requested pause takes effect
StopsAtTool(s) ==
    /\ runner.pauseRequested /\ ~runner.pauseAcknowledged
    /\ TaskOf(machine, s) = runner.taskId

\* pi.on("tool_call"): a call that policy.ts lets through goes on to the guard,
\* one that it rejects is only blocked ...
RoutineCall(s) ==
    /\ Free(s)
    /\ IF StopsAtTool(s) THEN Becomes(AcknowledgePause(Abort(machine, s)))
       ELSE /\ InRun(state, TaskOf(machine, s))
            /\ Becomes(BeforeTool(machine, s))
\* ... and one that needs the user's approval is stopped, or was approved
SensitiveCall(s, fingerprint) ==
    LET t == TaskOf(machine, s)
    IN  /\ Free(s) /\ ~StopsAtTool(s) /\ InRun(state, t)
        /\ \/ \E c \in Confirmations(state, t, fingerprint, "approved") :
                 Becomes(BeforeTool(Decide(machine, ConsumeApprovalEvents(c)), s))
           \/ /\ CanRequestApproval(state, t, fingerprint)
              /\ SpareRun
              /\ Becomes(Abort(Decide(machine, RequestApprovalEvents(state, t, fingerprint)), s))

\* the tool ask_coder: no guard, no authorization
AskCoder(s, q) ==
    /\ Free(s)
    /\ SpareRun
    /\ ~StopsAtTool(s)
    /\ CanAwaitUserInput(state, TaskOf(machine, s), q)
    /\ Becomes(Decide(machine, AwaitUserInputEvents(state, TaskOf(machine, s), q)))

\* Mutant: the guard does not wait for the attribution of the last tool.
MutantForgetsAttribution(s) == "clear"
LastAttribution(s) == IF sessions[s].awaits THEN sessions[s].attribution ELSE "clear"

\* workspaceGuard.beforeTool is over: it waits for the attribution of the last
\* tool, repeats the conflict that found, and throws, which blocks the tool, when
\* that has failed.
GuardDecides(s) ==
    /\ sessions[s].call = "checking" /\ LastAttribution(s) # "pending"
    /\ \/ /\ LastAttribution(s) = "clear"
          /\ Becomes(OnCall(machine, s, IF sessions[s].at = "live" THEN "executing" ELSE "none"))
       \/ /\ LastAttribution(s) # "failed" /\ ConflictFound(TaskOf(machine, s))
          /\ Becomes(ReportConflict(OnCall(Abort(machine, s), s, "none"), TaskOf(machine, s)))
       \/ /\ LastAttribution(s) = "failed"
          /\ Becomes(OnCall(machine, s, "none"))

\* tool_execution_end: the subscription of the current session starts afterTool, and
\* the evidence is for the run the task is in now, if any.  Bound: one tool at a time.
ToolEnds(s) ==
    LET idle == OnCall(machine, s, "none")
        run == state.tasks[TaskOf(machine, s)].activeRunId
    IN  /\ sessions[s].call = "executing" /\ sessions[s].attribution # "pending"
        /\ Becomes(IF s = runner.session /\ TaskOf(machine, s) = runner.taskId
                   THEN [idle EXCEPT !.sessions[s].evidence = run,
                                     !.sessions[s].attribution = "pending",
                                     !.runner.attribution = s]
                   ELSE idle)

\* onRecordEvidence, for a tool that ended in a run; what it refuses fails the task
RecordEvidence(m, s) ==
    LET t == TaskOf(m, s)
        run == m.sessions[s].evidence
        done == [m EXCEPT !.sessions[s].evidence = None]
    IN  IF run = None \/ (m.state.activeTaskId = t /\ m.state.tasks[t].activeRunId = run)
        THEN done ELSE OnFail(done, t)

\* afterTool is over, with a conflict or without, or its scan has failed
Attributed(s) ==
    LET t == TaskOf(machine, s)
        Found(attribution) == [machine EXCEPT !.sessions[s].attribution = attribution]
    IN  /\ sessions[s].attribution = "pending"
        /\ \/ Becomes(RecordEvidence(Found("clear"), s))
           \/ /\ ConflictFound(t)
              /\ Becomes(RecordEvidence(ReportConflict(Found("conflict"), t), s))
           \/ Becomes(OnFail([Found("failed") EXCEPT !.sessions[s].evidence = None], t))

\* The agent's turn is over: agent_end, then the activation that waits for it.
\* It may end as aborted without having been told to.
TurnEnds(s) ==
    /\ sessions[s].streaming /\ sessions[s].call = "none"
    /\ \E aborted \in {sessions[s].aborted, TRUE} :
         LET idle == [machine EXCEPT !.sessions[s].streaming = FALSE,
                                     !.sessions[s].aborted = aborted]
             ended == IF s = runner.session /\ TaskOf(machine, s) = runner.taskId
                      THEN AcknowledgePause(idle) ELSE idle
             r == CHOOSE q \in RunIds : turns[q].at = "prompted" /\ turns[q].session = s
         IN  Becomes(IF \E q \in RunIds : turns[q].at = "prompted" /\ turns[q].session = s
                     THEN IF IsCurrent(ended, r) THEN Waiting(ended, r, "gathering")
                          ELSE Returned(ended, r)
                     ELSE ended)

-----------------------------------------------------------------------------
UserStep ==
    \/ Submit
    \/ \E t \in TaskIds : \/ RequestPause(t) \/ Resume(t) \/ Cancel(t)
                          \/ \E q \in QuestionIds : AnswerQuestion(t, q)
    \/ \E c \in ConfirmationIds, decision \in {"approve", "reject"} :
          ResolveApproval(c, decision)

\* what an activation does when what it waits for is there
Proceeds(r) ==
    \/ Disposed(r) \/ SessionCreated(r) \/ SessionOnDisk(r) \/ SessionIsIdle(r)
    \/ Reconciled(r) \/ Gathered(r) \/ CleanedUp(r)

AgentCalls(s) ==
    \/ RoutineCall(s)
    \/ \E fingerprint \in Fingerprints : SensitiveCall(s, fingerprint)
    \/ \E q \in QuestionIds : AskCoder(s, q)

\* the tools of a session and the guard around them
ToolProceeds(s) == GuardDecides(s) \/ ToolEnds(s) \/ Attributed(s)

Next ==
    /\ ~wedged
    /\ \/ UserStep
       \/ \E r \in RunIds : \/ Proceeds(r) \/ PromptThrows(r)
                            \/ AgentCalls(r) \/ ToolProceeds(r) \/ TurnEnds(r)
       \/ \E t \in TaskIds : Stopped(t)

\* Where the three kinds of step are enabled; each of them changes vars.
CanProceed(r) ==
    \/ turns[r].at \in {"disposing", "starting", "binding", "cleaning"}
    \/ turns[r].at = "gathering" /\ NoEvidenceDue
    \/ turns[r].at = "resuming" /\ ~Streams(machine, runner.session) /\ NoEvidenceDue
    \/ /\ turns[r].at = "reconciling"
       /\ runner.attribution # None => sessions[runner.attribution].attribution # "pending"
ToolCanProceed(s) ==
    \/ sessions[s].attribution = "pending"
    \/ sessions[s].call = "executing"
    \/ /\ sessions[s].call = "checking" /\ LastAttribution(s) # "pending"
       /\ LastAttribution(s) = "conflict" => ConflictFound(TaskOf(machine, s))
AgentCanGoOn(s) == sessions[s].streaming /\ sessions[s].call = "none"

\* Weak fairness (WF_vars, written out because TLC takes too long over ENABLED of
\* a whole decision): scans, files, disposals and tools end, and the agent goes on
\* with a call or ends its turn.  The user owes nothing.
Fairness ==
    /\ \A r \in RunIds :
          /\ []<>(wedged \/ ~CanProceed(r))     \/ []<><<Proceeds(r)>>_vars
          /\ []<>(wedged \/ ~ToolCanProceed(r)) \/ []<><<ToolProceeds(r)>>_vars
          /\ []<>(wedged \/ ~AgentCanGoOn(r))   \/ []<><<AgentCalls(r) \/ TurnEnds(r)>>_vars
    /\ \A t \in TaskIds :
          []<>(wedged \/ stops[t] \notin {"aborting", "disposing"}) \/ []<><<Stopped(t)>>_vars

Spec == Init /\ [][Next]_vars /\ Fairness

-----------------------------------------------------------------------------
(* Properties.                                                             *)

StateOf(t) == state.tasks[t].state
Works(t) == StateOf(t) \in {"running", "pause_requested"}

\* An activation will go on with the run that task t is in.
WorkedOn(t) ==
    LET r == state.tasks[t].activeRunId
    IN  /\ Works(t) /\ r # None
        /\ turns[r].at \in Waits /\ runner.generation = r
        /\ turns[r].at # "disposing" => runner.taskId = t

\* One mutating job: two sessions that nobody has told to stop never stream.
OneSessionAtWork ==
    \A r, s \in RunIds :
        (/\ sessions[r].at = "live" /\ sessions[r].streaming /\ ~sessions[r].aborted
         /\ sessions[s].at = "live" /\ sessions[s].streaming /\ ~sessions[s].aborted)
            => r = s

\* A conflict of the task that session s is not held up by: a superseded start has
\* made the guard forget it, or it was found late, for a session disposed of.
UnseenConflict(s) ==
    \E o \in RunIds :
        /\ TaskOf(machine, o) = TaskOf(machine, s) /\ sessions[o].attribution = "conflict"
        /\ o = s => ~sessions[s].awaits

\* The guard's scan lies between the permission for a tool and its execution.  No
\* tool begins for a task that has been paused, has asked or was cancelled
\* meanwhile, unless its session was told to stop or the runner has lost the task
\* (see LossesAreReleases: it then does not hear of a cancellation either).  A task
\* that failed is not among them: evidence that is refused fails a task and leaves
\* its session at work.
NoToolAfterThePause ==
    [][\A s \in RunIds :
          (sessions[s].call = "checking" /\ sessions'[s].call = "executing") =>
              \/ sessions[s].aborted \/ runner.taskId # TaskOf(machine, s)
              \/ UnseenConflict(s)
              \/ StateOf(TaskOf(machine, s)) \notin {"paused", "awaiting_user", "cancelled"}]_vars

\* A run that is being worked on is not given up while it is in flight, except
\* where the end of another activation, or of a cancellation, clears #taskId or
\* takes the session, or where the run's own activation returns: its turn was
\* aborted, it saw a pause or a conflict, its resumption threw.  In particular no
\* other task's start, cancellation or turn takes its generation.
LossesAreReleases ==
    [][\A t \in TaskIds :
          LET r == state.tasks[t].activeRunId
              session == turns[r].session
          IN  (WorkedOn(t) /\ ~WorkedOn(t)' /\ Works(t)' /\ state'.tasks[t].activeRunId = r)
                => \/ runner'.taskId = None
                   \/ /\ turns'[r].at = "returned"
                      /\ \/ turns[r].at \in {"resuming", "reconciling"}
                         \/ runner.pauseRequested \/ runner.session = None
                         \/ session # None /\ sessions[session].aborted]_vars

\* A pause is answered, by the controller's acceptance of a safe boundary or by the
\* end of the run, unless the runner has lost the task or its session, or has marked
\* the pause as acknowledged because of a conflict and tells nobody.
PauseIsAnswered ==
    \A t \in TaskIds :
        (StateOf(t) = "pause_requested" /\ WorkedOn(t))
            ~> (\/ StateOf(t) # "pause_requested" \/ runner.pauseAcknowledged
                \/ runner.taskId # t \/ runner.session = None)
=============================================================================
