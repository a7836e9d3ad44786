----------------------------- MODULE CascadeBridge -----------------------------
(***************************************************************************)
(* cascade-bridge.ts: the voice bridge that hears through a Scribe socket, *)
(* answers through one HTTP stream per round of the model, and speaks      *)
(* through a socket of its own for each turn.  It keeps the conversation   *)
(* itself (#history), and one turn at a time: a new turn aborts the one    *)
(* before, of which only a tool already called goes on.                    *)
(***************************************************************************)
EXTENDS VoiceBriefStore

CONSTANTS
    Turns,     \* turns alive at a time; a name is used again
    NoTurn,
    RoundCap   \* tool rounds of one turn, 24 in the code

VARIABLE cc   \* the bridge's fields, and where each call of runTurn is

Cascade(queue) ==
    [connected |-> FALSE, manual |-> FALSE, timer |-> FALSE,
     engaged |-> FALSE, mode |-> "voice", nextMode |-> "none",
     scribe |-> "none",   \* #scribe and #scribeStarted
     opener |-> "none",   \* who waits for the Scribe session that is opening
     late |-> {},         \* who waits for one that was closed meanwhile
     fatal |-> FALSE,
     queue |-> queue,
     turn |-> NoTurn,
     at |-> [t \in Turns |-> "none"],   \* what each runTurn awaits
     rounds |-> 0,        \* of the current turn
     calls |-> {}]        \* turns with a function_call in #history and no output

Awake(b) == b.mode # "voice" \/ b.engaged

(***************************************************************************)
(* Turns.                                                                  *)
(***************************************************************************)
\* #abortActiveTurn: the stream rejects, the speech is closed; a tool goes on.
Abort(b) ==
    IF b.turn = NoTurn THEN b
    ELSE [b EXCEPT !.turn = NoTurn,
                   !.at[b.turn] = IF @ = "tool" THEN "tool" ELSE "none"]

\* #streamLlmRound up to its fetch, which sends #history as it is: the
\* provider refuses one that has a call without its output.
Ask(b, t) == [b EXCEPT !.at[t] = IF b.calls = {} THEN "stream" ELSE "refused"]

FreeTurns(b) == {t \in Turns : b.at[t] = "none"}

\* #startTurn.  At most Turns are alive, so one more needs a free name.
StartTurn(b) ==
    LET a == Abort(b)
        t == CHOOSE x \in FreeTurns(a) : TRUE
    IN Ask([a EXCEPT !.turn = t, !.rounds = 0], t)

CanStart == FreeTurns(Abort(cc)) # {}

EndTurn(b, t) == [b EXCEPT !.at[t] = "none",
                           !.turn = IF b.turn = t THEN NoTurn ELSE @]

Only(b) == cc' = b /\ UNCHANGED briefVars

\* #flushBriefs, the last call of each handler that makes it.
FlushBriefs(b) ==
    IF b.connected /\ Awake(b) /\ Some(b.queue) # {}
    THEN /\ CanStart
         /\ cc' = [StartTurn(b) EXCEPT !.queue = NoBriefs]
         /\ MarkDelivered(b.queue)
    ELSE Only(b)

(***************************************************************************)
(* The Scribe socket and the connection.                                   *)
(***************************************************************************)
CloseScribe(b) ==
    [b EXCEPT !.scribe = "none", !.opener = "none",
              !.late = IF b.opener = "none" THEN @ ELSE @ \cup {b.opener}]

\* #openScribe; one that has started is kept.
OpenScribe(b, who) ==
    IF b.scribe = "started" THEN b
    ELSE [CloseScribe(b) EXCEPT !.scribe = "opening", !.opener = who, !.fatal = FALSE]

ScheduleReconnect(b) ==
    IF b.manual \/ ~b.connected \/ ~b.engaged THEN b ELSE [b EXCEPT !.timer = TRUE]

Connect ==
    LET b == [cc EXCEPT !.manual = FALSE, !.timer = FALSE, !.connected = TRUE]
        c == IF b.engaged THEN OpenScribe(b, "connect") ELSE b
    IN IF c.scribe = "opening" THEN Only(c) ELSE FlushBriefs(c)

Disconnected(b) ==
    [CloseScribe(Abort(b)) EXCEPT !.manual = TRUE, !.connected = FALSE, !.timer = FALSE]

Disconnect == Only(Disconnected(cc))

Sleep(b) == [CloseScribe(Abort(b)) EXCEPT !.engaged = FALSE, !.timer = FALSE]

SetEngaged(engaged) ==
    /\ engaged # cc.engaged
    /\ LET b == [cc EXCEPT !.engaged = TRUE]
       IN IF ~engaged THEN Only(Sleep(cc))
          ELSE IF ~b.connected THEN Only(b)
          ELSE FlushBriefs(OpenScribe(b, "engage"))

Interrupt == cc.connected /\ Only(Abort(cc))

SetResponseMode(mode) ==
    Only(IF cc.turn # NoTurn THEN [cc EXCEPT !.nextMode = mode]
         ELSE [cc EXCEPT !.mode = mode, !.nextMode = "none"])

SendText == cc.connected /\ CanStart /\ Only(StartTurn(cc))

QueueBrief(t, n) == cc' = [cc EXCEPT !.queue[t] = n] /\ Save(t, n)

\* handleTaskEvents for one announced event
HandleTaskEvents(t, n) ==
    IF cc.connected /\ Awake(cc)
    THEN CanStart /\ cc' = StartTurn(cc) /\ TellNow(n)
    ELSE QueueBrief(t, n)

ScribeStarts ==
    /\ cc.scribe = "opening"
    /\ LET b == [cc EXCEPT !.scribe = "started", !.opener = "none"]
       IN IF cc.opener = "connect" THEN FlushBriefs(b) ELSE Only(b)

\* What the rejection of #openScribe does to the one who waited for it.
Rejected(b, who) ==
    CASE who = "connect" -> [b EXCEPT !.connected = FALSE]
      [] who = "retry" -> ScheduleReconnect(b)
      [] who = "engage" -> b

\* An error, a close or 10 s without a session: the close event may come before
\* or after the rejection.
ScribeFails ==
    /\ cc.scribe = "opening"
    /\ LET b == [cc EXCEPT !.scribe = "none", !.opener = "none"]
       IN Only(Rejected(ScheduleReconnect(b), cc.opener))

\* A session that was closed while it opened is rejected after all.
LateRejection ==
    \E who \in cc.late : Only(Rejected([cc EXCEPT !.late = @ \ {who}], who))

ScribeCloses ==
    /\ cc.scribe = "started"
    /\ Only(ScheduleReconnect([cc EXCEPT !.scribe = "none"]))

\* auth_error and quota_exceeded; the close that follows schedules nothing.
ScribeFatal ==
    /\ cc.scribe # "none"
    /\ LET b == [cc EXCEPT !.scribe = "none", !.opener = "none", !.fatal = TRUE]
       IN Only(IF cc.opener = "none" THEN b ELSE Rejected(b, cc.opener))

ReconnectTimer ==
    /\ cc.timer
    /\ LET b == [cc EXCEPT !.timer = FALSE]
       IN Only(IF b.manual \/ ~b.connected \/ ~b.engaged THEN b ELSE OpenScribe(b, "retry"))

\* A committed transcript
Transcript ==
    /\ cc.scribe = "started" /\ cc.engaged
    /\ CanStart
    /\ Only(StartTurn(cc))

(***************************************************************************)
(* runTurn, from each of its awaits to the next.                           *)
(***************************************************************************)
\* The loop is over: the tail is spoken, or there is nothing to say.
Finish(b, t) ==
    \/ b.mode = "voice" /\ Only([b EXCEPT !.at[t] = "speech"])
    \/ Only([EndTurn(b, t) EXCEPT !.mode = IF b.nextMode = "none" THEN @ ELSE b.nextMode,
                                  !.nextMode = "none"])

\* A function_call of the round.  mute_mamachi returns at once: awake, the bridge
\* goes to sleep and aborts its own turn.
Call(b, t) ==
    \/ Only([b EXCEPT !.at[t] = "tool", !.calls = @ \cup {t}])
    \/ IF b.engaged THEN Only(Sleep([b EXCEPT !.at[t] = "stream"])) ELSE Finish(b, t)

\* A round ends with a call or without one.
RoundEnds ==
    /\ cc.turn # NoTurn
    /\ cc.at[cc.turn] = "stream"
    /\ \/ Finish(cc, cc.turn)
       \/ Call([cc EXCEPT !.rounds = @ + 1], cc.turn)

\* The request fails, or is refused.
RoundFails ==
    /\ cc.turn # NoTurn
    /\ cc.at[cc.turn] \in {"stream", "refused"}
    /\ Only(EndTurn(cc, cc.turn))

\* A tool returns and its output is kept, whoever's turn it is now.  The current
\* turn makes the round's next call, ends (wait_for_user, or the cap), or asks the
\* model again.
MutantDropsTheOutput(t) ==
    IF cc.turn = t THEN [cc EXCEPT !.calls = @ \ {t}] ELSE [cc EXCEPT !.at[t] = "none"]

Returned(t) ==
    IF cc.turn = t THEN [cc EXCEPT !.calls = @ \ {t}]
    ELSE [cc EXCEPT !.calls = @ \ {t}, !.at[t] = "none"]

ToolReturns(t) ==
    /\ cc.at[t] = "tool"
    /\ LET b == Returned(t)
       IN IF cc.turn # t THEN Only(b)
          ELSE \/ Call(b, t)
               \/ Finish(b, t)
               \/ b.rounds < RoundCap /\ Only(Ask(b, t))

\* The speech ends, its socket closes, or 10 s pass.
SpeechEnds ==
    /\ cc.turn # NoTurn
    /\ cc.at[cc.turn] = "speech"
    /\ Only([EndTurn(cc, cc.turn) EXCEPT
               !.mode = IF cc.nextMode = "none" THEN @ ELSE cc.nextMode,
               !.nextMode = "none"])

CascadeRestart == cc' = Cascade(Pending)

CascadeInit == cc = Cascade(NoBriefs)
================================================================================
