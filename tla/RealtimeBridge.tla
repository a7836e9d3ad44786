---------------------------- MODULE RealtimeBridge -----------------------------
(***************************************************************************)
(* realtime-bridge.ts: the voice bridge that keeps one WebSocket to the    *)
(* provider, and the provider's session at its other end.  The session     *)
(* makes one response at a time; the bridge keeps track of it in           *)
(* #responseActive (active), asks for the next one itself, and arms a      *)
(* watchdog while it waits.                                                *)
(*                                                                         *)
(* An action is one callback of the bridge's thread.  A message the bridge *)
(* sends is acted on at once; the provider's own arrive later and in       *)
(* order, so an answer and a request can cross.  A socket that is closing  *)
(* delivers nothing more.                                                  *)
(*                                                                         *)
(* Two calls of connect() can overlap: one waits for its old socket while  *)
(* the other opens a new one, and the first then opens its own over it.    *)
(* The socket it replaces is nobody's any more (orphan), but goes on.      *)
(***************************************************************************)
EXTENDS VoiceBriefStore, Sequences

CONSTANTS
    ChainCap,   \* tool rounds in a row, 4 in the code
    MaxFlight,  \* bound on the provider's messages under way
    MaxTools    \* bound on tools running at a time, of this session and of earlier ones

VARIABLES
    rt,        \* the bridge's fields and the tools it awaits
    session,   \* the provider's side of the socket
    questions  \* the open question of each task in the controller's snapshot, or 0

realtimeVars == <<rt, session, questions>>

NoSession == [busy |-> FALSE, cancelled |-> FALSE, speech |-> FALSE, errors |-> FALSE, out |-> <<>>]

NoOrphan == [at |-> "none", setup |-> "no", s |-> NoSession]

Bridge(queue) ==
    [socket |-> "none",   \* #socket and its readyState
     setup |-> "no",      \* who waits for session.updated: nobody, a caller or a retry
     late |-> FALSE,      \* a retry waits on a socket that is gone
     waiting |-> "no",    \* who waits in connect() for the old socket to close
     orphan |-> NoOrphan, \* a socket that another was opened over, and its session
     manual |-> FALSE, timer |-> FALSE,
     engaged |-> FALSE, mode |-> "voice", nextMode |-> "none",
     active |-> FALSE, pending |-> FALSE, input |-> FALSE, cancelling |-> FALSE,
     watchdog |-> FALSE, depth |-> 0, asked |-> {}, queue |-> queue,
     tools |-> 0,         \* executions this session asked for
     oldTools |-> 0,      \* executions that an earlier session asked for
     capped |-> FALSE,    \* the last chain was stopped, for the properties
     overtaken |-> FALSE, \* asked to disconnect while waiting, for the properties
     crossed |-> FALSE,   \* the orphan's messages have moved the slot, for the properties
     hushed |-> FALSE]    \* speech was cut off by going to sleep, for the properties

Open(b) == b.socket = "open"
Awake(b) == b.mode # "voice" \/ b.engaged

(***************************************************************************)
(* What several handlers do.  A pair p has the bridge as p.b and the       *)
(* session as p.s: a message the bridge sends changes both.                *)
(***************************************************************************)
Says(s, msg) == [s EXCEPT !.out = Append(@, msg)]
Complains(s, msg) == [s EXCEPT !.out = Append(@, msg), !.errors = TRUE]

\* The slot is taken before the send that throws, and the watchdog is armed after it.
Unsent(p) == [p EXCEPT !.b.pending = FALSE, !.b.active = TRUE]

MutantWatchesOnlyCancellations(p) ==
    IF p.b.mode = "voice" /\ ~p.b.engaged THEN [p EXCEPT !.b.pending = FALSE]
    ELSE IF p.b.active \/ p.b.input THEN [p EXCEPT !.b.pending = TRUE]
    ELSE IF ~Open(p.b) THEN Unsent(p)
    ELSE [b |-> [p.b EXCEPT !.pending = FALSE, !.active = TRUE],
          s |-> IF p.s.busy THEN Complains(p.s, "error")
                ELSE [p.s EXCEPT !.busy = TRUE, !.cancelled = FALSE]]

\* #requestResponse.  The provider refuses a second response.
RequestResponse(p) ==
    IF p.b.mode = "voice" /\ ~p.b.engaged THEN [p EXCEPT !.b.pending = FALSE]
    ELSE IF p.b.active \/ p.b.input THEN [p EXCEPT !.b.pending = TRUE]
    ELSE IF ~Open(p.b) THEN Unsent(p)
    ELSE [b |-> [p.b EXCEPT !.pending = FALSE, !.active = TRUE, !.watchdog = TRUE,
                            !.capped = FALSE, !.hushed = FALSE],
          s |-> IF p.s.busy THEN Complains(p.s, "error")
                ELSE [p.s EXCEPT !.busy = TRUE, !.cancelled = FALSE]]

\* The end of setEngaged(false) and of interrupt: cancel what is being said.
MutantCancelFreesTheSlot(p) ==
    IF ~p.b.active \/ p.b.cancelling THEN p
    ELSE [b |-> [p.b EXCEPT !.active = FALSE, !.watchdog = FALSE],
          s |-> IF p.s.busy THEN [p.s EXCEPT !.cancelled = TRUE]
                ELSE Complains(p.s, "no active response")]

Cancel(p) ==
    IF ~p.b.active \/ p.b.cancelling THEN p
    ELSE IF ~Open(p.b) THEN [p EXCEPT !.b.cancelling = TRUE]
    ELSE [b |-> [p.b EXCEPT !.cancelling = TRUE, !.watchdog = TRUE],
          s |-> IF p.s.busy THEN [p.s EXCEPT !.cancelled = TRUE]
                ELSE Complains(p.s, "no active response")]

\* #announceOpenQuestions
Unasked(b) == {t \in Tasks : /\ questions[t] \notin b.asked \cup {0}
                             /\ b.queue[t] = 0}
AnnounceOpenQuestions(p) ==
    IF ~Open(p.b) \/ ~Awake(p.b) \/ Unasked(p.b) = {} THEN p
    ELSE RequestResponse(
             [p EXCEPT !.b.asked = @ \cup {questions[t] : t \in Unasked(p.b)}])

\* #flushBriefs, the last call of each handler that makes it.
FlushBriefs(p) ==
    IF Open(p.b) /\ Awake(p.b) /\ Some(p.b.queue) # {}
    THEN LET q == RequestResponse(p)
         IN /\ rt' = [q.b EXCEPT !.queue = NoBriefs]
            /\ session' = q.s
            /\ MarkDelivered(p.b.queue)
    ELSE rt' = p.b /\ session' = p.s /\ UNCHANGED briefVars

Becomes(p) == rt' = p.b /\ session' = p.s /\ UNCHANGED briefVars

(***************************************************************************)
(* The connection.                                                         *)
(***************************************************************************)
\* The fields that connect, disconnect and the close of the socket reset.
Reset(b) ==
    [b EXCEPT !.active = FALSE, !.pending = FALSE, !.input = FALSE,
              !.cancelling = FALSE, !.watchdog = FALSE,
              !.tools = 0, !.oldTools = @ + b.tools,
              !.capped = FALSE, !.hushed = FALSE, !.crossed = FALSE]

ScheduleReconnect(b) == IF b.manual THEN b ELSE [b EXCEPT !.timer = TRUE]

\* The socket is given up; a retry that still waits for it will hear of it later.
Leave(b) == [Reset(b) EXCEPT !.socket = "none", !.setup = "no",
                             !.late = @ \/ b.setup = "retry"]

OpenSocket(b, who) ==
    [Reset(b) EXCEPT !.socket = "connecting", !.setup = who,
                     !.manual = FALSE, !.depth = 0]

MutantDisconnectKeepsTheTimer(b) == [Leave(b) EXCEPT !.depth = 0]

Disconnected(b) == [Leave(b) EXCEPT !.manual = TRUE, !.timer = FALSE, !.depth = 0,
                                    !.overtaken = @ \/ b.waiting # "no"]

\* connect() by a caller or by the reconnection timer, up to its first wait
ConnectFor(b, who) ==
    IF Open(b) THEN [b EXCEPT !.timer = FALSE]
    ELSE IF b.socket = "none" THEN OpenSocket([b EXCEPT !.timer = FALSE], who)
    ELSE [Disconnected(b) EXCEPT !.waiting = who]

OnlyBridge(b) == rt' = b /\ session' = NoSession /\ UNCHANGED <<briefVars, questions>>
KeepSession(b) == rt' = b /\ UNCHANGED <<session, briefVars, questions>>

\* A bound: one call of connect() at a time waits for an old socket.  One that has
\* nothing to wait for opens its own socket at once, whoever waits.
MayConnect == rt.waiting = "no" \/ rt.socket \in {"none", "open"}

Connect ==
    /\ MayConnect
    /\ IF Open(rt) THEN KeepSession(ConnectFor(rt, "caller"))
       ELSE OnlyBridge(ConnectFor(rt, "caller"))

Disconnect == OnlyBridge(Disconnected(rt))

\* The microphone's audio no longer goes to a socket that is replaced.
Replaced(b) ==
    [b EXCEPT !.waiting = "no",
              !.orphan = IF b.socket \in {"none", "closing"} THEN @
                         ELSE [at |-> b.socket, setup |-> b.setup,
                               s |-> [session EXCEPT !.speech = FALSE, !.errors = FALSE]]]

\* connect() goes on, whatever has been asked of the bridge since.  A bound: it
\* replaces a socket only when none that was replaced before is left.
OldSocketClosed ==
    /\ rt.waiting # "no"
    /\ rt.socket \in {"none", "closing"} \/ rt.orphan.at = "none"
    /\ OnlyBridge(OpenSocket(Replaced(rt), rt.waiting))

ReconnectTimer ==
    /\ rt.timer /\ MayConnect
    /\ IF rt.manual \/ Open(rt) THEN KeepSession([rt EXCEPT !.timer = FALSE])
       ELSE OnlyBridge(ConnectFor(rt, "retry"))

\* The session's first message answers what it was set up with.
SocketOpens ==
    /\ rt.socket = "connecting"
    /\ rt' = [rt EXCEPT !.socket = "open"]
    /\ session' \in {Says(NoSession, "session.updated"), Complains(NoSession, "error")}
    /\ UNCHANGED <<briefVars, questions>>

\* Refused, or closed by the provider: the socket's close event.
SocketCloses ==
    /\ rt.socket # "none"
    /\ OnlyBridge(ScheduleReconnect(
           Leave(IF rt.socket = "connecting" THEN [rt EXCEPT !.setup = "no"] ELSE rt)))

SetupTimeout ==
    /\ rt.setup # "no"
    /\ LET b == [rt EXCEPT !.socket = "closing", !.setup = "no"]
       IN OnlyBridge(IF rt.setup = "retry" THEN ScheduleReconnect(b) ELSE b)

\* A retry learns that its socket is gone, up to 20 s late.
LateRejection ==
    /\ rt.late
    /\ KeepSession(ScheduleReconnect([rt EXCEPT !.late = FALSE]))

(***************************************************************************)
(* What the user and the daemon ask for.                                   *)
(***************************************************************************)
Now == [b |-> rt, s |-> session]

\* setEngaged(false), with the microphone asleep
Sleep(p) ==
    IF ~p.b.engaged THEN p
    ELSE Cancel([p EXCEPT !.b.engaged = FALSE, !.b.input = FALSE, !.b.depth = 0,
                          !.b.hushed = @ \/ (p.b.input /\ p.b.pending)])

SetEngaged(engaged) ==
    /\ engaged # rt.engaged
    /\ IF engaged THEN FlushBriefs(AnnounceOpenQuestions([Now EXCEPT !.b.engaged = TRUE]))
       ELSE Becomes(Sleep(Now))
    /\ UNCHANGED questions

Interrupt ==
    /\ Open(rt)
    /\ Becomes(Cancel([Now EXCEPT !.b.depth = 0]))
    /\ UNCHANGED questions

SetResponseMode(mode) ==
    /\ rt' = IF rt.active THEN [rt EXCEPT !.nextMode = mode]
             ELSE [rt EXCEPT !.mode = mode, !.nextMode = "none"]
    /\ UNCHANGED <<session, briefVars, questions>>

SendText ==
    /\ Open(rt)
    /\ Becomes(RequestResponse([Now EXCEPT !.b.depth = 0]))
    /\ UNCHANGED questions

\* #queueBrief: the latest brief of a task takes the place of the one before.
QueueBrief(b, t, n) == rt' = [b EXCEPT !.queue[t] = n] /\ Save(t, n) /\ UNCHANGED session

\* handleTaskEvents for one announced event of a task: a question, or an outcome
\* that closes the question the task had.
HandleTaskEvents(t, n, question) ==
    LET b == IF question THEN [rt EXCEPT !.asked = @ \cup {n}] ELSE rt
    IN  /\ questions' = [questions EXCEPT ![t] = IF question THEN n ELSE 0]
        /\ IF Open(b) /\ Awake(b)
           THEN LET p == RequestResponse([b |-> b, s |-> session])
                IN rt' = p.b /\ session' = p.s /\ TellNow(n)
           ELSE QueueBrief(b, t, n)

(***************************************************************************)
(* The provider's session.                                                 *)
(***************************************************************************)
\* A response ends, as it likes or as it was cancelled: plainly, or with a
\* tool to call.
ResponseEnds == {"done", "act", "mute", "wait"}

ProviderSays ==
    /\ Open(rt)
    /\ Len(session.out) < MaxFlight
    /\ UNCHANGED <<rt, briefVars, questions>>
    /\ session.busy
    /\ \E end \in IF session.cancelled THEN {"done"} ELSE ResponseEnds :
           session' = [Says(session, end) EXCEPT !.busy = FALSE]

\* An error of the provider's own, which need not end a response.
ProviderFails ==
    /\ Open(rt)
    /\ Len(session.out) < MaxFlight
    /\ session' = Complains(session, "error")
    /\ UNCHANGED <<rt, briefVars, questions>>

\* Speech that begins while a response is made cancels it (interrupt_response).
SpeechStarts ==
    /\ Open(rt) /\ rt.engaged /\ ~session.speech
    /\ Len(session.out) < MaxFlight
    /\ session' = [Says(session, "speech started") EXCEPT !.speech = TRUE,
                                                              !.cancelled = session.busy]
    /\ UNCHANGED <<rt, briefVars, questions>>

SpeechStops ==
    /\ Open(rt) /\ rt.engaged /\ session.speech
    /\ Len(session.out) < MaxFlight
    /\ session' = [Says(session, "speech stopped") EXCEPT !.speech = FALSE]
    /\ UNCHANGED <<rt, briefVars, questions>>

(***************************************************************************)
(* #handleMessage                                                          *)
(***************************************************************************)
\* response.done, up to #handleResponseDone
Released(b) ==
    [b EXCEPT !.active = FALSE, !.cancelling = FALSE, !.watchdog = FALSE,
              !.mode = IF b.nextMode = "none" THEN @ ELSE b.nextMode,
              !.nextMode = "none"]

MutantForgetsThePending(p) == [p EXCEPT !.b.depth = 0]

EndOfTurn(p) == IF p.b.pending THEN RequestResponse([p EXCEPT !.b.depth = 0])
                ELSE [p EXCEPT !.b.depth = 0]

\* #handleResponseDone: a tool that takes its time goes on in ToolReturns, and
\* what comes back without a wait is done here.
ResponseDone(p, end) ==
    CASE end \in {"done", "wait"} -> EndOfTurn(p)
      [] end = "mute" -> LET q == Sleep(p)
                         IN [q EXCEPT !.b.depth = 0, !.b.pending = FALSE]
      [] end = "act" -> [p EXCEPT !.b.depth = @ + 1, !.b.tools = @ + 1]

\* The answer to a cancellation that came too late; the watchdog stays as it is.
TooLateToCancel(p) ==
    LET q == [p EXCEPT !.b.active = FALSE, !.b.cancelling = FALSE]
    IN IF p.b.pending THEN RequestResponse([q EXCEPT !.b.pending = FALSE]) ELSE q

Failed(p) == [p EXCEPT !.b.active = FALSE, !.b.pending = FALSE,
                       !.b.cancelling = FALSE, !.b.watchdog = FALSE]

\* Deltas arm a watchdog again that is armed already: they are left out.
Handled(p, msg) ==
    CASE msg = "speech started" ->
             IF p.b.engaged THEN [p EXCEPT !.b.input = TRUE, !.b.depth = 0] ELSE p
      [] msg = "speech stopped" ->
             IF p.b.engaged THEN RequestResponse([p EXCEPT !.b.input = FALSE]) ELSE p
      [] msg \in ResponseEnds -> ResponseDone([p EXCEPT !.b = Released(@)], msg)
      [] msg = "no active response" /\ p.b.cancelling -> TooLateToCancel(p)
      [] OTHER -> Failed(p)

\* The first session.updated or error also settles connect(), which goes on at
\* once to ask the open questions and tell the briefs.
Receive ==
    /\ Open(rt)
    /\ session.out # <<>>
    /\ Head(session.out) = "act" => rt.tools + rt.oldTools < MaxTools
    /\ UNCHANGED questions
    /\ LET msg == Head(session.out)
           p == [Now EXCEPT !.s.out = Tail(@)]
           done == [p EXCEPT !.b.setup = "no"]
       IN IF msg = "session.updated"
          THEN IF rt.setup = "no" THEN Becomes(p)
               ELSE FlushBriefs(AnnounceOpenQuestions(done))
          ELSE IF rt.setup # "no" /\ msg \in {"error", "no active response"}
          THEN LET q == Handled(done, msg)
               IN Becomes(IF rt.setup = "retry" THEN [q EXCEPT !.b = ScheduleReconnect(@)]
                          ELSE q)
          ELSE Becomes(Handled(p, msg))

\* The rest of #handleResponseDone.  The output goes to whatever session there
\* is by now; with none, the send fails and the chain ends there.
ChainGoesOn(p) ==
    IF p.b.depth >= ChainCap THEN [p EXCEPT !.b.depth = 0, !.b.capped = ~p.b.active]
    ELSE RequestResponse(p)

ToolReturns ==
    /\ UNCHANGED questions
    /\ \/ /\ rt.tools > 0
          /\ LET p == [Now EXCEPT !.b.tools = @ - 1]
             IN Becomes(IF Open(rt) THEN ChainGoesOn(p) ELSE p)
       \/ /\ rt.oldTools > 0
          /\ LET p == [Now EXCEPT !.b.oldTools = @ - 1]
             IN Becomes(IF Open(rt) THEN ChainGoesOn([p EXCEPT !.s = Complains(@, "error")])
                        ELSE p)

\* The timer of #armResponseWatchdog
Watchdog ==
    /\ rt.watchdog
    /\ IF rt.active
       THEN OnlyBridge([rt EXCEPT !.watchdog = FALSE, !.active = FALSE, !.pending = FALSE,
                                  !.cancelling = FALSE, !.socket = "closing",
                                  !.asked = IF rt.cancelling THEN @ ELSE {}])
       ELSE KeepSession([rt EXCEPT !.watchdog = FALSE])

(***************************************************************************)
(* A socket that was replaced.  Its handlers know no better: what it says  *)
(* is handled as if the current one had said it, and what is sent in       *)
(* answer goes to the current one.  With none open the send throws, and    *)
(* the handler ends there.                                                 *)
(***************************************************************************)
\* The session of the current socket is set up once more, this one never.
OrphanOpens ==
    /\ rt.orphan.at = "connecting"
    /\ Len(session.out) < MaxFlight
    /\ rt' = [rt EXCEPT !.orphan.at = "open"]
    /\ IF Open(rt) THEN session' \in {Says(session, "session.updated"), Complains(session, "error")}
       ELSE session' = session
    /\ UNCHANGED <<briefVars, questions>>

OrphanSays(msg) ==
    /\ rt.orphan.at = "open"
    /\ Len(rt.orphan.s.out) < MaxFlight
    /\ LET s == rt.orphan.s
       IN rt' = [rt EXCEPT !.orphan.s = [Says(s, msg) EXCEPT !.busy = s.busy /\ msg = "error"]]
    /\ UNCHANGED <<session, briefVars, questions>>

OrphanEnds ==
    /\ rt.orphan.s.busy
    /\ \E end \in IF rt.orphan.s.cancelled THEN {"done"} ELSE ResponseEnds : OrphanSays(end)

OrphanFails == OrphanSays("error")

\* Its close event is not the current socket's, and only a retry hears of it.
OrphanCloses ==
    /\ rt.orphan.at # "none"
    /\ KeepSession([rt EXCEPT !.orphan = NoOrphan, !.late = @ \/ rt.orphan.setup = "retry"])

OrphanTimeout ==
    /\ rt.orphan.setup # "no"
    /\ LET b == [rt EXCEPT !.orphan = NoOrphan]
       IN KeepSession(IF rt.orphan.setup = "retry" THEN ScheduleReconnect(b) ELSE b)

\* The current session has made no such call, and complains of its output.
OrphanDone(p, end) ==
    CASE end = "act" -> [p EXCEPT !.b.depth = @ + 1, !.b.oldTools = @ + 1]
      [] end = "done" -> EndOfTurn(p)
      [] end \in {"mute", "wait"} /\ Open(p.b) ->
             ResponseDone([p EXCEPT !.s = Complains(@, "error")], end)
      [] end = "mute" /\ ~Open(p.b) -> Sleep([p EXCEPT !.b.depth = @ + 1])
      [] end = "wait" /\ ~Open(p.b) -> [p EXCEPT !.b.depth = @ + 1]

\* A change of mode that was put off is the first thing to be sent.
OrphanHandled(p, msg) ==
    IF msg \notin ResponseEnds THEN Handled(p, msg)
    ELSE IF Open(p.b) \/ p.b.nextMode = "none" THEN OrphanDone([p EXCEPT !.b = Released(@)], msg)
    ELSE [p EXCEPT !.b = Released(@)]

\* The current session's slot is freed, or taken with nobody to answer.
Crosses(b, msg) ==
    \/ b.active /\ msg \notin {"speech started", "speech stopped"}
    \/ ~Open(b) /\ (b.pending \/ msg = "speech stopped")

OrphanReceives ==
    /\ rt.orphan.at = "open"
    /\ rt.orphan.s.out # <<>>
    /\ Head(rt.orphan.s.out) = "act" => rt.tools + rt.oldTools < MaxTools
    /\ UNCHANGED questions
    /\ LET msg == Head(rt.orphan.s.out)
           settles == msg \in {"session.updated", "error", "no active response"}
           p == [Now EXCEPT !.b.orphan.s.out = Tail(@),
                            !.b.orphan.setup = IF settles THEN "no" ELSE @]
           q == OrphanHandled([p EXCEPT !.b.crossed = @ \/ Crosses(rt, msg)], msg)
       IN IF msg = "session.updated"
          THEN IF rt.orphan.setup = "no" THEN Becomes(p)
               ELSE FlushBriefs(AnnounceOpenQuestions(p))
          ELSE Becomes(IF settles /\ rt.orphan.setup = "retry"
                       THEN [q EXCEPT !.b = ScheduleReconnect(@)] ELSE q)

(***************************************************************************)
(* The daemon stops: what the bridge holds in memory is gone.              *)
(***************************************************************************)
RealtimeRestart == rt' = Bridge(Pending) /\ session' = NoSession /\ UNCHANGED questions

RealtimeInit ==
    /\ rt = Bridge(NoBriefs)
    /\ session = NoSession
    /\ questions = NoBriefs
================================================================================
