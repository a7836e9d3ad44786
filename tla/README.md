# A formal model of Mamachi

Mamachi is a voice-driven coding assistant: a macOS app owns the microphone and
the overlay, a local daemon (`src/packages/core`) owns the tasks, a VS Code
extension shows them, and a coding agent does the work. One task at a time may
change the workspace. Everything the user and the agent do becomes a command or
a signal to the **task controller**, which decides, writes domain events to
SQLite and applies them to its memory.

This directory holds TLA+ modules for the parts with real state machines, the TLC
configurations that check them, and TLAPS proofs. `PROJECT.json` lists the runs,
the properties each checks, one mutant of the code for every property, and the
source lines every definition stands for.

## 1. Inventory

Paths are relative to `src/`; `core/` is `packages/core/src/`, `mac/` is
`apps/macos/Sources/Mamachi/`, `vscode/` is `apps/vscode/src/`.

### The daemon's core

**Reducer** (`core/domain.ts`). State: `activeTaskId` (the slot), `queue`, `tasks`,
`runs`, `confirmations` (permission cards), `questions`. One operation, `applyEvent`,
for 24 event types; it ends in `assertStateInvariants`, which throws. Correct when
slot, queue, tasks and runs determine each other, and when a question or a card
never outlives what it was about.

**Task controller** (`core/controller.ts`). Keeps a `ControllerState` and the store.
Commands of the user: submit, requestPause, resume, cancel, revise, answerQuestion,
queue.move, approval.resolve. Signals of the runner: pauseAtSafeBoundary,
awaitUserInput, recordCoderSession, recordArtifact, authorizeToolCall, reportWorkspaceConflict,
completeTask, failTask. `recoverAfterRestart` at boot. Decisions are synchronous; what
is hard is the order in which user and runner interleave them: answers to old
questions, approvals of old revisions, completions after a cancellation, a restart
between any two.

**Event store** (`core/event-store.ts`). Tables `events` and `commands`. One transaction
per command id: decide, insert events, insert the result. A known id is answered from
the table. Hard: crash between commit and reply, redelivery, an application that throws
after the commit.

**IPC server, event fan-out** (`core/ipc-server.ts`, `core/daemon.ts`). Executes commands
one at a time, publishes committed events to subscribers, hands them to the coding
runner and the voice bridges, serves `state.get`, records tool evidence. Hard: a
snapshot taken while events are published; evidence stored before the controller
accepts its signal.

### The coding runners

**Runner switch** (`core/coding-runner.ts`). Which backend receives which event; a task keeps the
backend its session is bound to.

**External CLI runner** (`core/external-cli-runner.ts`). State: `#taskId`, `#runId`,
`#generation`, the child process, pause and question flags, gathered evidence. A turn is
an async activation: guard start, hook server, process, verification, completion. The
controller's handoff calls `#startTask` of the next task *synchronously* from within the
completion of the previous one, so the lines after the acceptance run on the new task's
fields. This is where interleavings matter most.

**Oh My Pi runner** (`core/omp-runner.ts`). The same shape over an in-process session,
with steering, safe pause and disposal of the previous session.

**Workspace guard** (`core/workspace-guard.ts`). Known file versions, editor state, the
version seen before a tool call. Detects edits of the user while the coder works. Hard:
scans that take time while updates arrive; overlapping tool calls.

**Evidence gate** (`core/artifact-store.ts`). A completion is accepted only with evidence of
verification gathered after the last change, in this run.

**Policy and router** (`core/policy.ts`, `core/model-router.ts`). Pure classifications.

### Voice

**Realtime bridge, cascade bridge** (`core/realtime-bridge.ts`, `core/cascade-bridge.ts`,
`core/voice-bridge.ts`). One response at a time, a watchdog, announcements queued while a
response is pending, reconnection with backoff, interruption by speech. The realtime bridge keeps
`responseActive`, `responsePending`, `cancellationRequested` beside a provider that has a state of
its own; the cascade keeps the conversation itself and runs a turn as an async loop that an
interruption abandons. `daemon.ts` chooses which of the two serves. Hard: cancellations that cross
answers, tools that return to another session, timers and waits that outlive a disconnection.

**Brief store** (`core/voice-brief-store.ts`). Spoken summaries, one per task, delivered or not; both
bridges write it, and read it when they are made.

**Voice toolkit** (`core/voice-toolkit.ts`). Tools of the voice model; `#proposeTaskChange`
runs pause, wait, revise, resume over the controller, with the world free to change
between them.

**Observer** (`core/observer.ts`), **fact projector** (`core/fact-projector.ts`), **memory**
(`core/memory-store.ts`), **computer control** (`core/computer-control.ts`).

### The clients

**VS Code bridge** (`vscode/realtime-client.ts`). Connects, fetches a snapshot, buffers the
events that arrive meanwhile, applies the rest in order, reconnects. `vscode/extension.ts` reports the
state of each document through it. **Editor context
broker** (`core/editor-context-request.ts`): one request, several clients, the first valid
answer or the timeout settles it.

**macOS app** (`mac/`). `DaemonProcess.swift` launches and supervises the daemon (readiness,
unexpected exit, restart budget, stability window, stop). `KeyActivation.swift` tells hold,
tap and double tap apart with deadlines. `AppModel.swift` sends commands and projects
events. The rest is drawing, settings, audio and key storage.

How they interact: every client call goes through the IPC server to the controller; the
controller's committed events go, in order and in the same turn of the event loop, to the
runner, the bridges and the subscribers; the runner calls back into the controller. Each
call into the controller is atomic (JavaScript, no `await`), so the interleavings worth
modelling are those at `await`s, between processes, and across crashes.

## 2. Modules

| module | models | correspondence |
|---|---|---|
| `ControllerState` | `core/domain.ts`, event shapes of `protocol` | `Apply` is `applyEvent`, an operator for each of 22 events (the other two decide nothing, see below); `Fits` the checks that throw before the change, `StateInvariants` the assertion that throws after it; `ApplyDecision` the loop in `handle` |
| `ControllerDecisions` | decisions of `core/controller.ts` | for every operation `CanX` (guards, early returns, in the code's order of meaning) and `XEvents` (what it commits, the handoff included) |
| `TaskController` | the controller as its callers see it | one action per command and per signal; variables `state`, `wedged` |
| `EventJournal` | `core/event-store.ts`, `handle`, boot in `core/daemon.ts` | variables `log`, `results` (tables), `requests`, `replies` (clients), `memory`, `daemon` |
| `ExternalRunner` | `core/external-cli-runner.ts` over the decisions of the controller | variables `state` and `wedged` (controller), `runner` (the private fields), `turns` (one activation and child per run); an action per continuation between two waits |
| `OmpRunner` | `core/omp-runner.ts` over the decisions of the controller | the same for the embedded agent: `state` and `wedged` (controller), `runner` the private fields, `turns` the activations of `#startTask`/`#resumeTask`, `sessions` what each session streams, calls and owes, `stops` the `#stopCurrent` of each task |
| `WorkspaceGuard` | `core/workspace-guard.ts` | `guard` the fields of the class, `disk` and `editor` the world, `calls` the tools between `beforeTool` and `afterTool`; a scan is two steps, begun and ended |
| `EvidenceGate` | `core/artifact-store.ts` | extends `WorkspaceGuard`: `recordToolEvidence` and `validateCompletion` over its attributions |
| `EditorView` | the promise of the VS Code bridge | abstract: a view that is always the beginning of one database's log, and catches up |
| `EventSync` | `vscode/realtime-client.ts`, fan-out and `state.get` of `core/ipc-server.ts` | `daemon`, `link` (both ends of a socket), `bridge` (the fields of `MamachiBridge`), `call` (requests of its callers); implements `EditorView` |
| `EditorReports` | `vscode/extension.ts` | `EventSync` with `desiredEditorStates` and `flushEditorState` as its callers |
| `VoiceBriefStore` | `core/voice-brief-store.ts` | `rows` is the table; `queued` and `told` record what was announced and what a conversation was given |
| `RealtimeBridge` | `core/realtime-bridge.ts` | `rt` the fields of the bridge, `session` the provider's side of the open socket, `questions` the open questions it reads from the controller |
| `CascadeBridge` | `core/cascade-bridge.ts` | `cc` the fields of the bridge and where each `#runTurn` waits |
| `VoiceEngines` | the voice part of `core/daemon.ts` | both bridges as instances over one `VoiceBriefStore`; commands, events, change of engine, restart |
| `MC...` | nothing | instances for TLC |
| `ControllerStateProofs` | nothing | theorems: what an event and a decision leave of the controller's state |
| `TaskControllerProofs` | nothing | theorems: types, slot and queue, cards, questions and conflicts, the order of the queue; the assertion of the reducer and the recovery |
| `EventJournalProofs` | nothing | theorems: the journal implements `TaskController`, and what follows for its log, memory and boots |
| `ExternalRunnerProofs`, `OmpRunnerProofs` | nothing | theorems about each runner over the controller's decisions |
| `GuardProofs`, `EventSyncProofs`, `VoiceProofs` | nothing | theorems about guard and gate, the VS Code bridge, the voice engines |

`ControllerState` represents the maps of the source by total functions; an id that is not
in the map has a record whose `state` is `"none"`. New ids are taken in a fixed order,
because ids are only compared. Objectives, answers, summaries, timestamps and
`specHistory` are left out: no guard reads them (the last entry of `specHistory` is assigned
together with `task.revision`). Two of the 24 event types have no operator: `policy.decisionRecorded` changes
nothing (`domain.ts:394`), and `artifact.created` adds to `evidenceIds` of a task (`396-403`), which no decision and no
assertion reads, only the view of `core/fact-projector.ts`. So `recordArtifact` (`controller.ts:335-369`), which commits
the latter for the run a task is in, is no signal of the models either; what the runners do when it refuses is in
`RecordEvidence` of `OmpRunner`, and which evidence counts is the subject of `EvidenceGate`. Effects of tools are a small set of fingerprints, because the
controller only compares `actionFingerprint`.

`wedged` stands for the state after `applyEvent` threw. The events are then durable, the
memory is behind or beyond them, and each later application fails its sequence check, so
`TaskController` stops there. `EventJournal` goes on: its `memory` carries the sequence
number, later decisions are taken on the stale memory and committed, and a boot that cannot
replay leaves the daemon `"broken"`.

`ExternalRunner` composes the decisions of the controller with the runner. Every run has an
activation with a program counter, `turns[r].at`: it waits for `workspaceGuard.start`
(`starting`), `beginExternalTurn` (`beginning`), the child's output and exit (`running`),
`endExternalTurn` (`ending`) or `reconcile` (`reconciling`). These five are the waits in which
something outside of the process answers (git, files, the child), so other activations and
user commands run in between. The other `await`s are on promises that are resolved already:
a signal to the controller decides, commits and calls `handleEvents` before it yields, so a
signal, the activations it starts and what its caller does next are one action (`Decide`
followed by `Returned`, `Release`, `Fail`). `Kill` only asks a child to end; it exits in
`ChildExits`, any time later, and until then it may still call the policy hook. The agent's session is bound when the
task starts with one it had (`Bind` in `GuardStarted`) or when the agent names one (`SessionNamed` in `OutputLine`); a binding the
controller refuses fails the task, whichever activation it came from. Left out: the parsing of the agent's output, `dispose`, and
`task.questionAnswered`, whose answer only enters a prompt. `Cancel` here needs a task without an open question (what
happens otherwise is `core_open_question`); `Revise` and `MoveQueue` are left to `TaskController`
because the runner handles no event of theirs.

`OmpRunner` has the same shape with more waits: an activation waits for the disposal of the session
before (`disposing`), the guard, the session's file, the agent's idleness, its evidence. A session
streams, calls tools and ends its turn independently of the activation that made it. The commands
of the controller are repeated in `OmpRunner` and `ExternalRunner` because each of them hands its
events to a different `HandleEvent`; the decisions themselves are those of `ControllerDecisions`.

`WorkspaceGuard` gives every content of a file a number of its own; a scan reads all of them in one step
and may be overtaken by writes before it is used, which is how `await #scanFiles()` behaves towards
everything after it. The editor reports versions of its buffers, whether they are dirty, and that one is closed, after
which its versions begin again. What a
mutating command touches is any set of files; a `read` touches none.

In `EventSync` the bridge is one JavaScript thread, so one callback up to its next wait is one
action. A socket delivers what was sent in order, or closes. What the daemon sent before it died
is delivered up to some point. A database can be replaced between two lives of the daemon,
which is what `reset` in the answer to `state.get` is for. `stopped` is the state of a `request()`
that spins (section 5). Left out: backpressure, the size limit of the set of seen events, `dispose`.

In `RealtimeBridge` a message of the bridge reaches the provider at once and the provider's come
back later, in order; that is enough for every crossing of a cancellation with an end. Deltas of a
response are left out because they only re-arm a watchdog that is armed: `ResponseSlotIsReleased` speaks of a provider that
has fallen silent. Two calls of `connect()` can overlap, since nothing puts the callers in a row
(`core/ipc-server.ts:463-468`): one that waits for its old socket has already cleared `#socket` (`242`), so another opens a socket at once
and the first then opens its own over it. `orphan` is the socket that was replaced and the provider's session
at its other end: its handlers go on, and what they send goes to the current socket, or throws and ends the handler
(`Unsent`). That a closing socket delivers nothing more is an assumption about the library. A tool that executes returns to the bridge as it is then, in whatever session. In
`CascadeBridge` each of the two `Turns` is an invocation of `#runTurn`: streaming, in a tool, speaking,
or refused because the history it sent has a call without an output. Left out in both:
transcripts, audio, truncation, the binding of explicit user input, the text of briefs.

## 3. Runs

| run | instance | what it shows |
|---|---|---|
| `core_queue` | 4 tasks, 3 runs, 1 question, both profiles | the slot and the queue: nothing is lost, doubled, overtaken or idle; a finished task stays so; only one situation wedges the controller |
| `core_interrupts` | 2 tasks, 4 runs, 2 cards, 2 effects, 1 question, 2 revisions | runs, cards, questions and conflicts through revisions, pauses and restarts |
| `core_liveness` | 2 tasks, 4 runs, 1 card, 1 question, 2 revisions, fairness | every task gets its turn and its end |
| `core_open_question` | 2 tasks, 3 runs, 1 question | **violated**: see section 5 |
| `journal` | 2 tasks, 3 runs, 1 card, 1 question, 3 command ids, at most 7 events before a decision | log, memory and replies through crashes, redelivery, boots and submissions that do not match the workspace |
| `external_turns` | 2 tasks, 3 runs, 1 card, 1 effect, 1 question, 1 repeated turn | children, hook calls and activations through handoffs, pauses, approvals, refused sessions and cancellations: who stops the child of a run that has ended |
| `external_handoff` | 2 tasks, 2 runs | **violated**: see section 5 |
| `omp_turns` | 2 tasks, 2 runs, 1 card, 1 effect, 1 question, 1 repeated turn | sessions, tools and disposals through handoffs, pauses, conflicts and cancellations: one session works, a pause is answered, no tool begins for a paused task |
| `guard` | 2 files, 2 tool calls, 2 changes (contents written to the disk, buffers opened or edited), 2 runs | what the user changed is not overwritten unseen; what is accepted as complete was verified |
| `sync` | 2 sockets, 2 callers, 2 events in each of 2 databases, 1 fault | the VS Code bridge implements `EditorView`; one socket at a time; requests end |
| `editor_retry` | 1 document, 2 sockets, 1 fault | **violated**: see section 5 |
| `voice` | 1 task, 2 pieces of news, 2 turns, 5 commands, events, restarts and faults | both voice bridges, the briefs and the change of engine |

Why the bounds are enough. Three tasks are the smallest number with an active task and two
that can be ordered against each other; `core_queue` has a fourth, because an insertion at
`"normal"` priority goes before the first waiting `"fast"` task, and only with three waiting does it
matter that a move may have put a task of another profile behind that one. Two are enough when the slot is what
matters. A run is spent by every start and every resume: in `core_interrupts` four runs allow a task to be
suspended twice while another still starts, and three are enough for the queue. Two cards of two effects are needed for a second request
while the first is pending, approved, rejected or consumed. Two revisions give every card,
question and run an older and a current one. The journal's log of seven events holds a
submission, its start, an interruption, a recovery and a resume. Three activations are what an
orphaned child needs: its own, the one that takes its place, and one more to start beside
it. `MaxAttempts` is 1 where the code has 2: a second repeated turn adds no new order. `SpareRun` keeps an
interruption from using the last run ids: without it a model at its bound would look stuck
where the program would not. Two sessions are what the embedded agent needs for every overlap of its code: the one that
is stopped or disposed of and the one that starts. Two files distinguish what a tool targets from
what it changes besides; two calls are what an overlap takes; two changes are the user's and the coder's
to one file, an edit in the editor and its save, or a document that is opened, closed and opened again
(closing one costs no change, but gives none back). `GuardProofs` needs no bound on the changes. In `sync` one socket can be closing while the
next opens; sockets are used again, so there are as many reconnections as faults allow. In `voice` a
task's older and newer brief need two pieces of news; `ChainCap` is 2 where the code has 4 and `RoundCap`
2 where it has 24, since below the cap a round is like the next; `MaxFlight` bounds the provider's
unread messages, which two suffice to put in a wrong order; one call of `connect()` waits at a time and one
replaced socket is left at a time (`MayConnect`, `OldSocketClosed`), which a second call and the messages of the first one's socket need; five moves hold the longest scenario met while
modelling (a reconnection, a cancellation, a change of engine and back).
`Revisions` and `Revisable` (which revisions a command of `TaskController` may expect, and which may be revised:
all numbers in the program), `SparesRuns` (whether `SpareRun` is obeyed), `MaxLog`, `MaxAttempts`, `SpareRun`, `MaxChanges`, `MaxRuns`, `MaxSeq`, `MaxStores`,
`MaxFaults`, `MaxNews`, `MaxFlight`, `MaxTools`, `MaxMoves`, `MayConnect`, the caps above and the sets of ids are the only bounds. Deadlock checking is off because a behaviour ends when the ids are used up
(or in `wedged`/`"broken"`), which is the bound and not the program.

Every property is broken by at least one mutant of a modelled definition (`Mutant...`
operators beside the originals): a dropped guard, a lost handoff, a forgotten row, a
missing reset.

Fairness in the core (`FairSpec`). Weak fairness of `Finish(t)`: a coder that is at work ends its run. That
is a contract of the runners and not a fact about every one of them: `external_handoff` shows
the external runner breaking it at a handoff, so `core_liveness` speaks of the controller under a
runner that keeps it.
Weak fairness of `Unblock(t)`: the user answers the question, resolves the card or resumes the
task in the slot; without it the product waits by design. Nothing else is fair: nobody
must submit, revise, cancel or pause. The guards stand in for `ENABLED` in these formulas.

Fairness elsewhere. `OmpRunner`: scans, files, disposals and tools end, and an agent that streams goes on
with a call or ends its turn; these are promises the code awaits with nothing else in the way. The
user and the model owe nothing. `EventSync` (`WF_`): the supervisor starts the daemon again, timers
fire, sockets deliver or close; no event, command or answer is promised. `VoiceEngines` (`WF_`): a
message that has come is handled, an armed watchdog fires, a closed socket reports it; the provider
may stay silent for ever, which is what the watchdog is for. No strong fairness anywhere.

A refinement. `sync` checks `Abstract!Spec` of `EditorView` as the property `FollowsTheLog`, with `view`
built by the callbacks `onSnapshot` and `onEvent`: an initial state maps to an initial state, each
step of the detailed protocol is one of `Log`, `NewStore`, `Follow`, `Stop` or a stutter, and the fairness
of the abstract `Follow` comes out of that of sockets and timers.

## 4. Proofs

Every theorem is about all values of the constants: any sets of ids, any bounds. What is assumed of them is
named in the module that declares them and evaluated by TLC on every run.

| assumption | says |
|---|---|
| `NoneAssumption`, `ProfilesAssumption` | `None` is no id of a task or a run, `"fast"` is a profile |
| `MaxAttemptsAssumption` | the number of verification attempts of a turn is a number |
| `CommandsAssumption` | the commands that are sent are commands of the protocol |
| `SyncAssumption` | `None` is neither caller nor socket, `"loading"` is no socket, `Focus` is a caller, finitely many callers, bounds are numbers |
| `NewsAssumption`, `EnginesAssumption` | `NoTurn` is no turn, bounds are numbers, the two caps are positive |

The theorems about the guard and the evidence gate assume nothing.

An invariant that a run checks is seldom inductive. In each part below the theorem follows from an invariant that is,
and the text says what that one adds.

### The controller

`ControllerStateProofs`: every event that fits keeps the state well formed (`ApplyTyped`),
so does a whole decision (`ApplyDecisionTyped`), every decision commits events of the protocol, and so, in
`TaskControllerProofs`, `TypeCorrect == Spec => []TypeOK`.

Also there: `SlotNeverIdles`, `NoTaskIsLost` and `OneRunAtATime` state `WorkConserving`, `EveryTaskHasItsPlace`
and `OneRunAtItsRevision`. The invariant is `SlotInvariant`: until the
controller is wedged, `StateInvariants(state)` (the assertion of the code, true because
otherwise the application would have thrown) and `SlotAndQueue(state)`. The latter adds what
the assertion does not check: a live task owns the slot, a queued task is in the queue,
a running run is the active run of the task in the slot at its revision, and an active
run means a task that runs or is about to pause. The assertion supplies distinctness of the
queue and the direction from slot and queue to tasks. Each event keeps the discipline under
a condition of its own (for instance `task.started` needs a free slot or the same task and
no running run); each decision guarantees the conditions of its events; the handoff is the
one place where the slot is briefly free while the queue is not, which is why
`SlotDiscipline`, without that clause, is what the events preserve and `SlotAndQueue` what
the decisions do.

Then: `OneThingToUnblock`, `ConflictStopsCoder` and `OneLiveCardPerEffect` from
`InterruptInvariant`, which says of every live task, and not only of a suspended one, that a card, a question and a conflict
exclude each other, that there is one card at most, and that questions are of the current revision; and of every effect
that its live cards are one. Resume, answer and approval look at
different obstacles and each may start the coder; that this is safe is exactly that there is only one obstacle. Two action
properties: `TerminalIsFinal`, by a frame condition of each event (`TaskEffect`: an event changes only its own task), and
`CardsActAtTheirRevision`, which also needs `RunInvariant`: the active run of a task was not
interrupted by a restart. The assertion of the code allows an interrupted active run; the recovery lets go of it in the
decision that interrupts it.

`NothingElseWedges` states `OnlyCancelWedges`. In the theorems before, the assertion of the reducer is a
fact for as long as nothing threw. Here it is the goal: each event of each decision fits the state it meets
(`Fits`, the checks that throw before a change) and leaves a state in which the assertion holds again. There is a
lemma for every decision, and one exception, a cancellation of a task with an open question. It needs `InterruptInvariant`,
because an approval or a rejection takes the task out of `awaiting_user` without looking for questions, and `LastRunInvariant`
(the run a task had last exists), because a rejected card pauses that run.

`OnlyMovesReorder` states `OnlyMoveReorders`. An event leaves the queue as it is, or takes one task out of it, which keeps the order of the
others (`RemovalKeepsOrder`), unless it is `task.enqueued` or `queue.reordered`, which only a submission and `queue.move` commit
(`OnlyTwoReorder`). A submission inserts a task that was not in the queue, at the position the profile gives it; whoever it
overtakes is behind that position, and so behind the first waiting fast task (`OvertakesFast`). That holds wedged or not:
whichever events of a decision are applied, each keeps the order.

Another part of that module is about a restart. `WorkerInvariant`: a task that runs or is about to pause has an active run,
wedged or not (`EventKeepsWorkers` for an event, one lemma for all decisions). With the slot discipline it says that a recovery
which finds nothing to interrupt finds nobody at work (`NothingToRecover`), and one which does leaves nobody at work and the slot where
it was (`RecoveryStops`).

### The journal

`EventJournalProofs` shows that the journal implements the controller: `LogIsAController == Spec => Controller!Spec`, where
`Controller` is `TaskController` with `state` and `wedged` read as the replay of the log, and with no bound (`Nat` for
`Revisions` and `Revisable`, `FALSE` for `SparesRuns`). `handle` decides on the memory and the boot on the replay; the
theorem says that what ends up in the log, through refusals, redeliveries, crashes and boots, is a history the controller could have
had by itself. The steps of the argument:

- `Replay` and `ApplyCommitted` are recursive functions over positions of the log. That a function with such a recursion exists, is
  unique, and may be cut anywhere is proved by least counterexamples (the library's well-foundedness of `<`), so that replaying a longer
  log is replaying the shorter one and applying the rest (`ApplyingExists`, `ApplyingAgree`, `CommittedIsLast` and what follows them).
- `JournalInvariant` is `Recorded` (the log is of events, and a replay that did not throw has come to its end), `Tables`
  (a stored result is of a command that was sent; a reply repeats it, or says of a submission that it did not match) and `Remembered` (a daemon that is up has the replay in memory,
  unless the replay throws). `LogStep` takes one step: a commit on a log that can be replayed is a step of the controller; on one that cannot,
  it changes nothing the controller sees.
- `DecisionIsStep` matches the guards and events of the journal with those of the instance, operation by operation.

Every theorem about the controller then holds of the replayed log and is used by name: `OnlyCancellationBreaksBoot`
(`OnlyCancelBreaksBoot`) is `Controller!NothingElseWedges`. `MemoryAgreesWithLog` (`MemoryIsTheLog`) needs more: after the cancellation
that wedges, the daemon goes on with a memory in which the cancelled task still has its question, decides on it and commits. `WrongMemory`,
the invariant for that, is kept because the first event of any such decision spares the task and its question (`FirstEventSpares`), so that applying it throws, and
no later one is applied. `NothingResumesAtBoot` (`BootResumesNothing`) is `WorkerInvariant` and the recovery lemmas, read at the log.
`JournalTyped` (`TypeOK`) and `RepliesStay` (`RepliesAreDurable`) come out of `JournalInvariant`. The answers that `executeCommand`
gives before it asks the journal (`RefuseMismatch`, `core/ipc-server.ts:325-343`) leave no row, so the theorem excepts them: section 5.

`OneTaskEach` (`OneTaskPerSubmission`): a decision commits `task.created` exactly when it is a submission's (`CommandsCreate`,
`OthersCreateNothing`), and the results of the same transaction record it. So `SubmissionInvariant` says that finitely many commands were
sent and that the log has at most as many creations as there are submissions with a stored result. A redelivery finds its result and
commits nothing; a crash before the commit leaves neither.

`InterruptionIsFinal` (`InterruptedIsFinal`) is about the memory, also of a daemon whose log cannot be replayed, so it cannot be read at
the log. Its invariant `CleanMemory`: a daemon that is not up remembers nothing, and in the memory of one that is up no task is at work in
an interrupted run. The boot gives that, because the recovery does not throw (`Controller!RecoverPasses`); a decision keeps it event by event, whatever
throws (`DecisionSpares`): the coder ends only the run its task works in, a cancellation only an active one, and a start takes a run that
was never used (`InterruptedStay`).

### The external runner

`ExternalRunnerProofs`. An action of the model is a composition of functions on machines (`[state, wedged, runner, turns]`), as the code is one
of methods. Each is shown to keep the invariant `Orderly`:

- `#process` is a child that has not exited (`ProcessIsAlive`);
- an activation is of a run the controller started, for the task of that run (`ActivationsAreRuns`);
- a superseded activation that spawned a child does not become current again (`LateIsOut`), and until there is one, the only child nobody told to
  stop is that of the current activation, in `#process` (`CurrentHasTheChild`);
- a pause request of the task at work is remembered (`PauseIsKnown`);
- the assertion of the reducer, until an application threw.

Most functions only take away from the runner (`Keeps`: kill, release, return) and are done with one lemma. What is left is a decision, which
can start an activation *within* the one that signals: `DecideOrderly` shows it for decisions of up to three events whose start, if there
is one, comes last (`Deliberate`), which every decision is. Only then `PauseIsKnown` holds again, because the start reads it from the new state.
`Tame` is what the activation may rely on when the call returns. That the runner is handed the events in their order is again a recursion proved by a
least counterexample (`HandlingExists`, `FewHandled`).

It gives `TypeCorrect` (`TypeOK`), `OneCoder` (`AtMostOneCoder`) and `PausesAreNotFailures`
(`PauseIsNotFailure`), for any number of overlapping activations.

`RunnerIsAController` is a refinement: the runner implies the whole of `TaskController` (`Controller == INSTANCE TaskControllerProofs`), for
any revisions and with no bound on runs. A step commits one decision whose guard held in the state it started from, or none: a command (`Orders`),
the verdict on a tool call (`Authorizes`), or at most one signal of the activation that returns (`Signals`). So what section 4 says of the
controller holds of it under the runner.

`LossesReleased` (`LossesAreReleases`) uses that. `Undisturbed` is what a step leaves alone: the task and the generation of the runner, and where
every activation is. A tool call, a timer and a command do, unless the command starts or cancels the task of the slot (`LeavesCurrent`); so does a step
of an activation that does not return. While a task is at work, no command starts one, because the task has the slot (the controller's
`SlotDiscipline`). What is left is an activation that returns: another one, or the run's own, whose signal, if it was accepted, took
the task from its work, since none of these decisions throws (`SignalsStopTask`, in `TaskControllerProofs`, from the same invariant as
`NothingElseWedges`).

`EndedRunsAreStopped` (`EndedRunsStopTheirChild`) asks which decisions take a task out of its run, and who is told. `CurrentHasTheChild` and
`TaskMatches` say that, while no superseded activation has spawned a child and the fields are not released, a live child is that of the current
activation, in `#process`, with the hook server, and serves the task of the fields. Of the events, those that end a run are listed in `LeavesRun`;
a decision has one of them only for the task it is about (`DecisionLeavesRun`). A cancellation reaches `#stopCurrent`, which kills `#process`
(`CancelStopsChild`), a start kills the child before it (`StartLeavesStopped`), the agent's call for an approval ends its own run and leaves a
timer behind, and the other signals come from an activation whose child has exited or which is not in the run any more (`StepEndsRuns`).

### The embedded runner

`OmpRunnerProofs`: `OneSession` (`OneSessionAtWork`) from `AlwaysOrdered`, whose invariant is `Ordered`. A session is bound to
`#session` without a look at the one before (`core/omp-runner.ts:378-415`), so that there is one at a time is a matter of which activation
may still come to that line. The parts:

- an activation is of a run the controller started, a session is of an activation (`ActivationsAreRuns`, `SessionsHaveTasks`);
- the session that nobody disposed of is `#session` (`OneLive`);
- there is none while the activation of the run in the slot has not bound its own (`NoSessionYet`).

The last is what makes the binding safe: the start of a run took the session before away, and any that was bound since
would be of the run in the slot. It holds again after a decision because a run that enters the slot in it has just been created and has
no activation yet (`SlotRunIsNew`, one lemma per event and one for a whole decision, in `ControllerStateProofs`; `Slotted` there is what the
slot keeps between two events of a decision: a task at work has it, in a run of its own). Most functions on machines bind
nothing and begin nothing (`Calm`); right after the binding `NoSessionYet` is broken for the one activation that binds (`OrderedBut`), until
it goes on to its prompt (`OrderedAgain`). What a decision's starts and stops do is `Decided`: no other activation is touched.

`LossesReleased` (`LossesAreReleases`) cannot go the way of `RunnerIsAController`: one step of `OmpRunner` can commit two decisions (a pause
asked of an idle session is accepted within the step that asks), so it does not implement `TaskController`, and the argument is about functions on
machines instead of steps. `Holds` says of a run that its activation will go on with it. `Spares` relates two machines: a run at work in the
second was at work in the first, and if it was in good hands there it still is, unless `#taskId` was cleared or its activation is
the one that may be excepted; pauses that were known are known. `Spares` composes, so each function of the code is shown to spare:
those that leave the state and the generation (`Light`), the decisions with what they set off, the disposals and clears. A step then
loses no run but by a clear, or that of an activation which returns where the property says it may (`Excused`, `Spared`). What
`Spares` needs is `KnownPauses`, with its theorem `PausesAreKnown`: `Known` (`Ordered`, `Slotted`, and what an activation
remembers of its run and its session) and `PauseKnown`, that a pause requested of the task in the fields is known to the runner.

### Guard and evidence gate

`GuardProofs`: `CompletionsAreVerified` (`CompletionIsVerified`) and `EditsAreNotOverwritten` (`UserEditsAreSeen`) from
`GuardInvariant`. Its parts: no scan is newer than the last write; what a call has written differs from
its baseline (`WritesShow`); the rows of evidence are the finished calls, each once, after those that were over when the
call began (`RowsAreInOrder`); while no conflict is open the runner offers every row of its run (`RowsAreOffered`);
an edit the user was not told of is either among the external changes, or differs from what the guard knows and from every
scan that could still become what it knows (`EditsAreKnown`); a turn of an external agent overlaps no tool (`TurnsAlone`).
The proof is for any number of overlapping calls and found what two cannot show (section 5).

### The VS Code bridge

`EventSyncProofs`: `SocketsDoNotOverlap` (`OneSocketAtATime`), and `BridgeFollowsTheLog`, the safety part of the refinement
`FollowsTheLog`: `Init` implies `Abstract!Init` and every step of `EventSync` is a step of `EditorView` or leaves its variables
alone. Both from `SyncInvariant`: the connection's states fit each other (`Connection`); what is on its way on a socket is of
one database and continues, without a gap, what was buffered and what is shown (`Streams`, `Shown`); there is
one snapshot under way at most, none after it was answered, and it is not behind the view (`Snapshots`). Replaying the
buffered events is a recursive function over the buffer; that a function with that recursion exists, and what it leads to, is proved by a
least counterexample among the positions (`LeastNumber`, from the library's well-foundedness of `<`), which needs no
induction theorem with an operator parameter.

### Voice

`VoiceProofs`: `OneResponseAtATime`, `PutOffIsAskedAgain`, `BriefsAreToldOnce`, `TurnsDoNotOverlap` and `RetiredStaysRetired` state
`SlotIsTheProviders`, `SomethingAsksAgain`, `StoreIsTheQueue`, `OneTurnSpeaks` and `RetiredEngineOpensNothing`, all from
`VoiceInvariant`, with overlapping calls of `connect()` and what a replaced socket still says. The strengthening is mostly about messages that have not arrived: while an end of a response is in the
provider's queue the bridge still holds the slot, the provider is idle and there is no second one (`SlotHeld`), and the message that ends
the set-up comes before all others (`SetupFirst`). A message of the replaced socket is handled by the functions that handle one of the current
socket, from a pair of bridge and session that need not fit (`Heard`): either nothing was in the slot and nothing becomes of it, or the
message has moved the slot, which `crossed` records until the next reset (`Apart`). For the briefs it is that the rows of the table are what was queued last, and
no two tasks share a brief (`BriefsSound`); for retirement, what a bridge that does not serve can be waiting for
(`RetirementSound`).

### What is only model-checked

- Liveness, which the prover cannot reach: `QueueDrains`, `SlotIsReleased`, `PauseIsAnswered`, `RequestsEnd`,
  `ResponseSlotIsReleased`, and the fairness half of `FollowsTheLog`.
- One action property, `NoToolAfterThePause`: it relates the attribution of the last tool to the conflict that the same scan found, and
  needs an invariant of its own about what each session waits for.

## 5. What the model shows about the code

Cancelling a task that waits on a question leaves the question open.
`docs/ARCHITECTURE.md:214-215` and `assertStateInvariants` say an open question implies
`awaiting_user`; `#cancel` (`core/controller.ts:692-716`) accepts a task in `awaiting_user` and commits
`task.cancelled`, which touches no question. The assertion throws after the commit. In
`core_open_question` TLC reaches it in five states. `OnlyCancelWedges` says that nothing else does, and
is proved for any number of tasks, runs, cards and questions (`NothingElseWedges`). `OnlyCancelBreaksBoot`
says the same of a boot, through crashes and redeliveries, and is proved too (`OnlyCancellationBreaksBoot`).

One answer to a command is not durable. `executeCommand` compares a submission with the selected workspace and the stored attachments before
it asks the journal (`core/ipc-server.ts:325-343`); `workspace_mismatch` and `attachment_mismatch` leave no row in `commands`, so a redelivery of the
same id after `workspace.select` is decided anew, and one of an id that was accepted can be told that it does not match.
`RepliesAreDurable` excepts these two answers; `OneTaskPerSubmission` holds with them.

The external runner loses the task it is handed. `docs/ARCHITECTURE.md:226-231` says of the
handoff that it leaves no race window. When a task completes or fails, the controller's
decision starts the next one, `handleEvents` begins its `#startTask` at once, and then the
activation that ended goes on: `#taskId = null` (`core/external-cli-runner.ts:611-612`, `1086-1092`).
The next activation finds `#taskId` changed when its scan is over and returns (`455`). Its task
stays running in the slot with nobody at work. `external_handoff` reaches this in five states.
`LossesAreReleases` shows in `external_turns` how far this goes: a run in flight loses its
activation only when another activation returns and releases the shared fields, or when the
controller refuses the activation's own last signal. The latter happens when a hard rejection
of the policy asks for a safe pause of a task that nobody asked to pause (`537-541`), and when a
conflict is reported of a task whose pause was requested (`531-536`).

A child can be orphaned. `#runTurn` does not look at the generation after `beginExternalTurn`
(`458`), so an activation that was cancelled there still spawns its child, which takes the place
of the current one in `#process`. `AtMostOneCoder` shows that two children live at once only
after that. `EndedRunsStopTheirChild` asks who ends the child of a run that is over: the call that ended it, a kill or the timer of
a refused call, with two exceptions. After a late spawn `#process` is not the child of the run any more. And when an activation has released the
fields of another one's task (the handoff above), `#stopCurrent` does not recognise the task it should stop (`1094-1100`), and the child
works on until it exits by itself; the hook then refuses its calls. A pause that is requested while the guard still scans for
the start stops no child, because there is none yet: the turn that follows runs to its own end and pauses there.

A session that the controller refuses to bind when a task starts with one (`424-436`) fails the task of the activation, also when that activation has been
superseded and the task is in another run by then.

### The VS Code bridge

A document's report that failed is not sent again. The `catch` of `flushEditorState` says that the
state "remains queued and is retried by onReady" (`vscode/extension.ts:91`), and `onReady` (`117-123`)
reports only documents that have no entry among the queued ones. `editor_retry` shows it with one
document and one lost socket; until that document changes again, the guard judges by what it was told
before.

`request()` (`vscode/realtime-client.ts:212-220`) loops without yielding to anything but microtasks while the
state is `connected` and the socket is already `CLOSING`: `connect()` returns at once and the socket is not
open. The close event that would end it never runs. The model calls this `stopped`, and `RequestsEnd` and
`FollowsTheLog` hold up to it. A set-up that fails or times out (`264`, `284`) schedules a reconnection while
its socket is still the current one; `#beginConnect` then does nothing, and the close of that socket
schedules the next. `OneSocketAtATime` shows that this is safe.

### The embedded agent

`LossesAreReleases` names where `OmpRunner` loses a run: `#stopCurrent` (`718-724`) waits for the abort and the
disposal and then disposes of and clears whatever is current; the clears after a failed start, resume or
turn (`504-506`, `525-527`, `544-546`, `681-685`) do not look at the generation either. A conflict that is
found while a pause is pending marks the pause as acknowledged and is reported to nobody, because the task
is no longer `running` (`#reportWorkspaceConflict`, `687-703`); `PauseIsAnswered` excepts it. `NoToolAfterThePause` is about a task that
is paused: a tool whose check began before a pause was only requested still executes, as the code intends (`281-303`). Evidence of a tool that ends after its run was
replaced fails the task that has resumed.

### Attribution and evidence

The guard holds what it promises (`UserEditsAreSeen`), within limits that its properties name. A save
or an edit on the disk during a tool, with no new version in the editor, is attributed to the tool. Two
overlapping tools share one pending attribution. And an edit of the user that one scan has found can be taken
back: `afterTool` removes what it attributes from `#externalChanges` (`core/workspace-guard.ts:277`), so if a tool
has changed the same file before, and its scan is older than the edit that another call's scan has just reported,
the file is no longer among the external changes, the known files already hold the edit, and no later scan finds it.
That takes three overlapping calls: one that wrote the file, one whose scan finds the edit, and one that is
let through on top of it. The run has two and cannot show it; the proof for any number of calls did not go
through without this clause, and the property now names it. When the editor reloads a file the coder wrote, the new
version counts as the user's and gives a conflict that is none. `CompletionIsVerified` speaks of the accepted
run: changes of an earlier run of the task, and of tools that failed, need no verification
(`validateCompletion`, `core/artifact-store.ts:309`), where `README.md:231-234` says that any file change does.

### Voice

The properties of `voice` hold with exceptions that are each a path of the code:

- `SlotIsTheProviders`: any `error` of the session frees the response slot (`core/realtime-bridge.ts:775-797`),
  also one about something else, such as a cancellation that came too late. And so does the socket that an overlapping
  `connect()` has replaced: its handler (`206-207`) does not ask whether it is still the current one, so its late `response.done` frees
  the slot of a response that goes on in the other session, and what it asks for while no socket is open takes the slot with a send that throws, before
  the watchdog is armed (`966-970`). That slot is free again only at the next close, connection or disconnection; `ResponseSlotIsReleased` excepts it.
  When the bridge is disconnected the replaced socket stays open, since nothing refers to it any more.
- `SomethingAsksAgain`: a chain of tools stopped by its cap returns without looking at `#responsePending`
  (`882-890`), and going to sleep in text mode during speech (`321`) drops an answer that was put off; the end of a
  replaced socket's response is taken for that of the current one.
- `StoreIsTheQueue` speaks of the time before the first change of engine: both engines read the pending briefs when they are made. After a change of engine the
  queue of one and the table differ: a brief is told again or a newer one is lost. A brief is marked delivered
  when it enters the conversation, before it is spoken.
- `RetiredEngineOpensNothing`: a `connect()` that waits for its old socket (`148`) goes on after a later
  disconnection or change of engine, opens a socket and keeps it open, though `core/daemon.ts:81-82` says
  that only the active engine holds provider sockets.
- A superseded set-up of the speech recogniser is rejected up to ten seconds later and sets
  `connected = false` beside a live one (`core/cascade-bridge.ts:207-212`). A turn that asks the model while a tool
  of an aborted turn still runs sends a call without its output, which the provider refuses
  (`674-704`). A mode change that waits for the end of a turn is not applied when that turn is aborted.
  Nothing limits the time of the model's stream; an interruption ends it.

## 6. Plan and what is not modelled

Done: the controller, the journal, both runners, the guard and the evidence gate, the VS Code bridge with
its abstract specification, the voice engines.

Proved: every safety property of the controller, that the journal implements the controller and what follows for memory, boot and
replies, that each submission makes one task and an interrupted run is over, every safety property of the external runner and that it implements the controller, every safety property of the guard and the gate, of the VS Code bridge and of
the voice engines; of the embedded runner `OneSessionAtWork` and `LossesAreReleases`; section 4.

To prove next: `NoToolAfterThePause` of the embedded runner.

Not modelled, with reasons:

- the change of coding backend between two tasks (`core/coding-runner.ts`): each runner is modelled as the
  only one; their product is too large for instances that still hold a handoff;
- the sequence pause, wait, revise, resume of the toolkit's `proposeTaskChange`: its commands are actions of
  `TaskController` in any order, so what the controller guarantees holds for it; what the tool reports to the
  model is not checked;
- the Swift supervisor and the key gestures: state machines of the app that share nothing with the daemon
  but its restart and `setEngaged`, which the models have; their timing depends on Foundation's processes and
  run loop;
- the observer and the editor context broker: one map each, advisory or answered once;
- policy, model routing, facts, schemas, generated bindings: pure or without state; the policy's verdict and
  the route are inputs of the models;
- memory store, field encryption, schema migration: single statements or one transaction;
- computer control, audio, views, settings, key storage: I/O and drawing.
