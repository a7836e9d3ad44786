---------------------------- MODULE ExternalRunner ----------------------------
(***************************************************************************)
(* The runner of the external coding agents                                *)
(* (packages/core/src/external-cli-runner.ts) under the task controller.   *)
(*                                                                         *)
(* The controller calls the runner back synchronously with the events it   *)
(* committed, and every task.started or task.resumed begins an activation  *)
(* of #startTask.  Activations share the fields of the runner and          *)
(* interleave where they wait for something outside of the process: the    *)
(* scans of the workspace guard, the child process and its output.  A call *)
(* of the controller, the events it hands to the runner and what follows   *)
(* the call up to the next such wait are one step.                         *)
(*                                                                         *)
(* Left out: the prompts and the evidence itself, and tasks that may write *)
(* git metadata, which never take up a session again.  Whether the guard   *)
(* finds a conflict, what the agent answers, whether a tool that starts    *)
(* was let through and whether the evidence suffices are choices.          *)
(* As in TaskController, nothing follows a decision whose application      *)
(* throws; the runner is not told of it.                                   *)
(***************************************************************************)
EXTENDS ControllerDecisions, FiniteSets

CONSTANT MaxAttempts   \* Bound: turns that ask for verification again; 2 in the code

ASSUME MaxAttemptsAssumption == MaxAttempts \in Nat

VARIABLES
    state,    \* the controller's state
    wedged,   \* applying a committed decision has thrown
    runner,   \* the fields the activations share
    turns     \* the activation of each run, and the child process it spawned

vars == <<state, wedged, runner, turns>>
machine == [state |-> state, wedged |-> wedged, runner |-> runner, turns |-> turns]
Becomes(m) == /\ state' = m.state /\ wedged' = m.wedged
              /\ runner' = m.runner /\ turns' = m.turns

Waits == {"starting", "beginning", "running", "ending", "reconciling"}

Init ==
    /\ state = EmptyState
    /\ wedged = FALSE
    /\ runner = [generation |-> None,      \* the run whose activation is current
                 taskId |-> None,
                 session |-> FALSE,        \* #sessionId is set
                 process |-> None,         \* the run that spawned #process
                 policyServer |-> None,    \* the run whose hook server is up
                 pauseRequested |-> FALSE,
                 policyPause |-> FALSE,    \* #policyPauseReason is set
                 killTimers |-> {}]        \* runs whose refused call armed a timer
    /\ turns = [r \in RunIds |-> [at |-> "none", task |-> None, child |-> "none",
                                  attempt |-> 0,
                                  late |-> FALSE]]  \* ghost: see TurnBegins

-----------------------------------------------------------------------------
(* The fields of the runner.  m is a [state, wedged, runner, turns].       *)

\* process?.kill("SIGTERM"): the child is asked to end; it exits when it likes
Kill(m, r) ==
    IF r = None \/ m.turns[r].child # "live" THEN m
    ELSE [m EXCEPT !.turns[r].child = "stopping"]

KillCurrent(m) == [Kill(m, m.runner.process) EXCEPT !.runner.process = None]

\* workspaceGuard.finish(); #taskId = null
Release(m) == [m EXCEPT !.runner.taskId = None]

Returned(m, r) == [m EXCEPT !.turns[r] = [@ EXCEPT !.at = "returned", !.attempt = 0]]

\* Mutant: the child of the previous run is left alone.
MutantStartKeepsProcess(m, t, r) ==
    [m EXCEPT !.runner = [@ EXCEPT
                  !.generation = r, !.taskId = t, !.policyPause = FALSE,
                  !.session = m.state.tasks[t].session # None,
                  !.pauseRequested = m.state.tasks[t].state = "pause_requested"],
              !.turns[r] = [@ EXCEPT !.at = "starting", !.task = t]]

\* #startTask, up to the scan of workspaceGuard.start.  Its early returns are not
\* taken: the event it handles has put task t in run r.  A task with a session has
\* run before, so the event resumes it.
StartTask(m, t, r) ==
    [KillCurrent(m)
        EXCEPT !.runner = [@ EXCEPT
                   !.generation = r, !.taskId = t, !.policyPause = FALSE,
                   !.session = m.state.tasks[t].session # None,
                   !.pauseRequested = m.state.tasks[t].state = "pause_requested"],
               !.turns[r] = [@ EXCEPT !.at = "starting", !.task = t]]

StopCurrent(m) == [Release(KillCurrent(m)) EXCEPT !.runner.generation = None]

\* Mutant: a cancellation stops whatever is at work.
MutantCancelStopsAny(m, e) ==
    CASE e.type \in {"task.started", "task.resumed"} -> StartTask(m, e.taskId, e.runId)
      [] e.type = "task.pauseRequested" /\ e.taskId = m.runner.taskId ->
            [Kill(m, m.runner.process) EXCEPT !.runner.pauseRequested = TRUE]
      [] e.type = "task.cancelled" -> StopCurrent(m)
      [] OTHER -> m

\* Mutant: a pause only stops the child.
MutantPauseIsForgotten(m, e) ==
    CASE e.type \in {"task.started", "task.resumed"} -> StartTask(m, e.taskId, e.runId)
      [] e.type = "task.pauseRequested" /\ e.taskId = m.runner.taskId ->
            Kill(m, m.runner.process)
      [] e.type = "task.cancelled" /\ e.taskId = m.runner.taskId -> StopCurrent(m)
      [] OTHER -> m

\* handleEvents
HandleEvent(m, e) ==
    CASE e.type \in {"task.started", "task.resumed"} -> StartTask(m, e.taskId, e.runId)
      [] e.type = "task.pauseRequested" /\ e.taskId = m.runner.taskId ->
            [Kill(m, m.runner.process) EXCEPT !.runner.pauseRequested = TRUE]
      [] e.type = "task.cancelled" /\ e.taskId = m.runner.taskId -> StopCurrent(m)
      [] OTHER -> m

\* the runner is given the events of a decision one by one
HandleEvents(m, events) ==
    LET handled[i \in 0..Len(events)] ==
            IF i = 0 THEN m ELSE HandleEvent(handled[i - 1], events[i])
    IN  handled[Len(events)]

\* A decision of the controller: committed, applied, published to the runner.
Decide(m, events) ==
    LET memory == ApplyDecision([state |-> m.state, ok |-> TRUE], events)
        n == [m EXCEPT !.state = memory.state, !.wedged = ~memory.ok]
    IN  IF memory.ok THEN HandleEvents(n, events) ELSE n

\* A signal that the controller refuses changes nothing, and the runner goes on.
Signal(m, accepted, events) == IF accepted THEN Decide(m, events) ELSE m

-----------------------------------------------------------------------------
(* The user.  Bound: SpareRun, as in TaskController.  A task is cancelled  *)
(* here when it has no open question: see OnlyCancelWedges for the rest.   *)

SpareRun ==
    Cardinality({t \in TaskIds : state.tasks[t].state \in {"none", "queued"}})
        < Cardinality({r \in RunIds : state.runs[r].state = "none"})
Revision(t) == state.tasks[t].revision

Submit == CanSubmit(state) /\ Becomes(Decide(machine, SubmitEvents(state, "fast")))

RequestPause(t) ==
    /\ SpareRun
    /\ CanRequestPause(state, t, Revision(t))
    /\ Becomes(Decide(machine, RequestPauseEvents(t)))

Resume(t) ==
    /\ CanResume(state, t, Revision(t))
    /\ Becomes(Decide(machine, ResumeEvents(state, t)))

AnswerQuestion(t, q) ==
    /\ CanAnswerQuestion(state, t, q, Revision(t))
    /\ Becomes(Decide(machine, AnswerQuestionEvents(state, t, q)))

Cancel(t) ==
    /\ OpenQuestions(state, t) = {}
    /\ CanCancel(state, t, Revision(t))
    /\ Becomes(Decide(machine, CancelEvents(state, t)))

ResolveApproval(c, decision) ==
    LET t == state.confirmations[c].taskId
    IN  /\ t # None
        /\ CanResolveApproval(state, c, decision, Revision(t))
        /\ Becomes(Decide(machine, ResolveApprovalEvents(state, c, decision)))

-----------------------------------------------------------------------------
(* Activations.                                                            *)

IsCurrent(m, r) == m.runner.generation = r /\ m.runner.taskId = m.turns[r].task

\* onFail, then the rest of #fail on the fields as they are after the handoff
Fail(m, r) ==
    LET t == m.turns[r].task
        failed == Signal(m, CanFinish(m.state, t), FailEvents(m.state, t))
    IN  Returned(Release(KillCurrent(failed)), r)

\* The guard found user edits.  It had a session when the scan began, and what
\* the scan finds after the session has ended is still reported.
ConflictFound(r) == CanReportWorkspaceConflict(state, turns[r].task) => SpareRun
ReportConflict(m, r) ==
    LET t == m.turns[r].task
    IN  Returned(Release(Signal(m, CanReportWorkspaceConflict(m.state, t),
                                ReportWorkspaceConflictEvents(m.state, t))), r)

SafePause(m, r) ==
    LET t == m.turns[r].task
    IN  Returned(Release(Signal(m, CanPauseAtSafeBoundary(m.state, t),
                                PauseAtSafeBoundaryEvents(m.state, t))), r)

\* #runTurn, up to the scan of beginExternalTurn
RunTurn(m, r) ==
    IF ~IsCurrent(m, r) THEN Returned(m, r)
    ELSE [m EXCEPT !.runner.policyPause = FALSE, !.turns[r].at = "beginning"]

\* onSessionBound accepts the session: the task is in the run that asks
Bind(m, r) == Decide(m, RecordCoderSessionEvents(m.turns[r].task, r))
CanBind(m, r) == CanRecordCoderSession(m.state, m.turns[r].task, r)

\* The scan of workspaceGuard.start is over.  Nothing looks at the generation
\* before the session is bound.
GuardStarted(r) ==
    /\ turns[r].at = "starting"
    /\ Becomes(IF ~runner.session THEN RunTurn(machine, r)
               ELSE IF CanBind(machine, r) THEN RunTurn(Bind(machine, r), r)
               ELSE Fail(machine, r))

\* beginExternalTurn is over.  Nothing looks at the generation here: late tells
\* the child of a superseded activation from the others.
TurnBegins(r) ==
    /\ turns[r].at = "beginning"
    /\ \/ ConflictFound(r) /\ Becomes(ReportConflict(machine, r))
       \/ \* no executable, or the spawn throws and the hook server is stopped
          \E server \in {runner.policyServer, None} :
              Becomes(Fail([machine EXCEPT !.runner.policyServer = server], r))
       \/ Becomes([machine EXCEPT
                        !.runner = [@ EXCEPT !.policyServer = r, !.process = r],
                        !.turns[r] = [@ EXCEPT !.at = "running", !.child = "live",
                                               !.late = ~IsCurrent(machine, r)]])

-----------------------------------------------------------------------------
(* The agent, while its child process is alive.                            *)

Alive(r) == turns[r].at = "running" /\ turns[r].child \in {"live", "stopping"}

\* Mutant: a call is refused and the child goes on.
MutantRefusedAndLeftAlone(m, r) == [m EXCEPT !.runner.policyPause = TRUE]
Refused(m, r) ==
    [m EXCEPT !.runner.policyPause = TRUE, !.runner.killTimers = @ \cup {r}]

\* the task #startPolicyHookServer was given
HookTask(r) == turns[r].task

\* #handlePolicyHookRequest: a call that policy.ts lets through ...
RoutineCall(r) ==
    /\ Alive(r) /\ runner.policyServer = r
    /\ Becomes(IF InRun(state, HookTask(r)) THEN machine ELSE Refused(machine, r))
\* ... one that it rejects ...
ForbiddenCall(r) ==
    /\ Alive(r) /\ runner.policyServer = r
    /\ Becomes(Refused(machine, r))
\* ... and one that needs the user's approval
SensitiveCall(r, fingerprint) ==
    LET t == HookTask(r)
        approved == Confirmations(state, t, fingerprint, "approved")
        pending == Confirmations(state, t, fingerprint, "pending")
    IN  /\ Alive(r) /\ runner.policyServer = r
        /\ \/ /\ InRun(state, t)
              /\ \E c \in approved :
                    Becomes(Decide(machine, ConsumeApprovalEvents(c)))
           \/ /\ CanRequestApproval(state, t, fingerprint)
              /\ SpareRun
              /\ Becomes(Refused(Decide(machine,
                            RequestApprovalEvents(state, t, fingerprint)), r))
           \/ /\ ~InRun(state, t) \/ (approved = {} /\ pending # {})
              /\ Becomes(Refused(machine, r))

\* setTimeout(() => this.#process?.kill("SIGTERM"), 25)
KillTimerFires(r) ==
    /\ r \in runner.killTimers
    /\ Becomes([Kill(machine, runner.process) EXCEPT !.runner.killTimers = @ \ {r}])

\* #bindSession, when the agent names a session that #sessionId is not
SessionNamed(m, r) ==
    [(IF CanBind(m, r) THEN Bind(m, r) ELSE Kill(m, m.runner.process))
        EXCEPT !.runner.session = TRUE]

\* A line on stdout; a superseded activation stops reading at the first one.  A
\* tool that starts without authorization is stopped, and so is a turn to which
\* the policy said no.
OutputLine(r) ==
    /\ Alive(r) /\ IsCurrent(machine, r)
    /\ \/ Becomes([Kill(Kill(machine, runner.process), r)
                      EXCEPT !.runner.policyPause = TRUE])
       \/ runner.policyPause /\ Becomes(Kill(machine, r))
       \/ LET m == SessionNamed(machine, r)
          IN  Becomes(IF runner.policyPause THEN Kill(m, r) ELSE m)

\* Mutant: the field keeps the child that has exited.
MutantKeepsExited(m, r) == m
ForgetChild(m, r) ==
    IF m.runner.process = r THEN [m EXCEPT !.runner.process = None] ELSE m

\* the child has exited; endExternalTurn scans what it changed
ChildExits(r) ==
    /\ Alive(r)
    /\ LET m == ForgetChild([machine EXCEPT !.runner.policyServer = None,
                                            !.turns[r].child = "exited"], r)
       IN  Becomes(IF IsCurrent(m, r) THEN [m EXCEPT !.turns[r].at = "ending"]
                   ELSE Returned(m, r))

-----------------------------------------------------------------------------
(* The end of a turn: what follows endExternalTurn.  Nothing looks at the  *)
(* generation here either.                                                 *)

\* onRecordEvidence throws when the run is not the active one; the catch branch
\* then stops the hook server of whoever has one
EvidenceIsRecorded(r) == state.tasks[turns[r].task].activeRunId = r
EvidenceIsRefused(m, r) ==
    LET stopped == [m EXCEPT !.runner.policyServer = None]
    IN  IF IsCurrent(m, r) THEN Fail(stopped, r) ELSE Returned(stopped, r)

AskUser(m, r, q) ==
    LET t == m.turns[r].task
    IN  IF CanAwaitUserInput(m.state, t, q)
        THEN Returned(Release(Decide(m, AwaitUserInputEvents(m.state, t, q))), r)
        ELSE Fail(m, r)

Complete(m, r) ==
    LET t == m.turns[r].task
    IN  IF CanFinish(m.state, t)
        THEN Returned(Release(Decide(m, CompleteEvents(m.state, t))), r)
        ELSE Fail(m, r)

\* the completion is refused as verification_incomplete
TryAgain(m, r) ==
    IF m.turns[r].attempt = MaxAttempts THEN Fail(m, r)
    ELSE IF m.state.tasks[m.turns[r].task].state = "running"
    THEN [m EXCEPT !.turns[r].at = "reconciling", !.turns[r].attempt = @ + 1]
    ELSE Returned(Release(m), r)

TurnEnds(r) ==
    /\ turns[r].at = "ending"
    /\ \/ ConflictFound(r) /\ Becomes(ReportConflict(machine, r))
       \/ /\ runner.policyPause \/ runner.pauseRequested
          /\ Becomes(SafePause(machine, r))
       \/ /\ ~runner.policyPause /\ ~runner.pauseRequested
          /\ IF ~EvidenceIsRecorded(r) THEN Becomes(EvidenceIsRefused(machine, r))
             ELSE \/ Becomes(Fail(machine, r))      \* an error, or no summary
                  \/ Becomes(Complete(machine, r))
                  \/ /\ CanFinish(state, turns[r].task)
                     /\ Becomes(TryAgain(machine, r))
                  \/ \E q \in QuestionIds :
                        /\ state.questions[q].state = "none"
                        /\ SpareRun
                        /\ Becomes(AskUser(machine, r, q))

\* workspaceGuard.reconcile is over
Reconciled(r) ==
    /\ turns[r].at = "reconciling"
    /\ Becomes(RunTurn(machine, r))

UserStep ==
    \/ Submit
    \/ \E t \in TaskIds : \/ RequestPause(t) \/ Resume(t) \/ Cancel(t)
                          \/ \E q \in QuestionIds : AnswerQuestion(t, q)
    \/ \E c \in ConfirmationIds, decision \in {"approve", "reject"} :
          ResolveApproval(c, decision)

AgentStep(r) ==
    \/ RoutineCall(r) \/ ForbiddenCall(r)
    \/ \E fingerprint \in Fingerprints : SensitiveCall(r, fingerprint)
    \/ OutputLine(r)

Proceeds(r) ==
    GuardStarted(r) \/ TurnBegins(r) \/ ChildExits(r) \/ TurnEnds(r) \/ Reconciled(r)

Next ==
    /\ ~wedged
    /\ \/ UserStep
       \/ \E r \in RunIds : AgentStep(r) \/ Proceeds(r) \/ KillTimerFires(r)

Spec == Init /\ [][Next]_vars

-----------------------------------------------------------------------------
(* Properties.                                                             *)

StateOf(t) == state.tasks[t].state
Works(t) == StateOf(t) \in {"running", "pause_requested"}

\* Something will go on with the run that task t is in.
WorkedOn(t) ==
    LET r == state.tasks[t].activeRunId
    IN  /\ Works(t) /\ r # None
        /\ IsCurrent(machine, r) /\ turns[r].at \in Waits

\* The fields are well formed; #process is never a child that has exited.
TypeOK ==
    /\ state \in ControllerStates /\ wedged \in BOOLEAN
    /\ runner.taskId \in TaskIds \cup {None}
    /\ {runner.generation, runner.process, runner.policyServer} \subseteq RunIds \cup {None}
    /\ runner.killTimers \subseteq RunIds /\ runner.session \in BOOLEAN
    /\ turns \in [RunIds -> [at : Waits \cup {"none", "returned"},
                             task : TaskIds \cup {None},
                             child : {"none", "live", "stopping", "exited"},
                             attempt : 0..MaxAttempts, late : BOOLEAN]]
    /\ runner.process # None => turns[runner.process].child \in {"live", "stopping"}

\* One mutating job: there are two children that nobody told to stop only after a
\* superseded activation has spawned one.  It takes the place of the child in
\* #process, which is then out of reach.
AtMostOneCoder ==
    \A r, q \in RunIds :
        (turns[r].child = "live" /\ turns[q].child = "live" /\ r # q) =>
            \E x \in RunIds : turns[x].late

\* The run of a live child ends only with the child told to stop, or by the child's
\* own refused call, whose timer will.  Two exceptions: a superseded activation has
\* spawned a child, or an activation releases the fields of another one's task, and
\* then nothing stops the child that works for it.
Serves(r) == Works(turns[r].task) /\ state.tasks[turns[r].task].activeRunId = r
EndedRunsStopTheirChild ==
    [][\A r \in RunIds :
          (turns[r].child = "live" /\ Serves(r) /\ ~Serves(r)') =>
              \/ turns'[r].child # "live" \/ r \in runner'.killTimers
              \/ None \in {runner.taskId, runner'.taskId}
              \/ \E x \in RunIds : turns[x].late]_vars

\* A run loses its activation in two ways only: another activation releases the
\* fields it works with, or the controller refuses its own last signal.
LossesAreReleases ==
    [][\A t \in TaskIds :
          LET r == state.tasks[t].activeRunId
          IN  (WorkedOn(t) /\ ~WorkedOn(t)' /\ Works(t)'
                 /\ state'.tasks[t].activeRunId = r) =>
              \E q \in RunIds : /\ turns[q].at # "returned"
                                /\ turns'[q].at = "returned"
                                /\ q # r \/ state' = state]_vars

\* The SIGTERM of a pause is not taken for a failure of the agent: the turn that
\* a pause request interrupts neither fails nor completes the task.
PauseIsNotFailure ==
    [][\A t \in TaskIds :
          LET r == state.tasks[t].activeRunId
          IN  (StateOf(t) = "pause_requested" /\ WorkedOn(t) /\ turns[r].at = "ending"
                 /\ turns'[r].at # "ending") =>
              StateOf(t)' \notin {"failed", "completed"}]_vars

\* What ARCHITECTURE.md says of the handoff, that it leaves no window: the run
\* the controller has started is the one the runner starts.
StartedTaskIsTakenUp ==
    \A t \in TaskIds :
        LET r == state.tasks[t].activeRunId
        IN  StateOf(t) = "running" /\ turns[r].at = "starting" => WorkedOn(t)
=============================================================================
