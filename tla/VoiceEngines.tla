------------------------------ MODULE VoiceEngines -----------------------------
(***************************************************************************)
(* The daemon's two voice bridges (daemon.ts).  Both live as long as the   *)
(* daemon; the runtime settings say which one serves the app's commands    *)
(* and hears of the controller's events, and a change of the setting       *)
(* disconnects the one that served.  They share the table of briefs.       *)
(***************************************************************************)
EXTENDS VoiceBriefStore, Sequences

CONSTANTS
    ChainCap, MaxFlight, MaxTools,  \* of the realtime bridge
    Turns, NoTurn, RoundCap,        \* of the cascade bridge
    MaxMoves   \* bound on commands, events, restarts and faults

ASSUME EnginesAssumption ==
    /\ ChainCap \in Nat \ {0} /\ MaxFlight \in Nat /\ MaxTools \in Nat
    /\ NoTurn \notin Turns /\ RoundCap \in Nat \ {0}
    /\ MaxMoves \in Nat

VARIABLES
    rt, session, questions, cc,
    engine,    \* runtimeSettings.voiceEngine
    switched,  \* has it ever been changed
    news,      \* the events announced so far
    moves

vars == <<briefVars, rt, session, questions, cc, engine, switched, news, moves>>

Realtime == INSTANCE RealtimeBridge
Cascade == INSTANCE CascadeBridge

Others(x) == UNCHANGED <<engine, switched, news, moves>> /\ UNCHANGED x
Counted == moves < MaxMoves /\ moves' = moves + 1
Move == Counted /\ UNCHANGED <<engine, switched, news>>
OfRealtime == engine = "realtime" /\ UNCHANGED cc
OfCascade == engine = "cascade" /\ UNCHANGED <<rt, session, questions>>

(***************************************************************************)
(* The hooks of the IPC server: the app's commands and the events.         *)
(***************************************************************************)
RealtimeCommand ==
    /\ Move /\ OfRealtime
    /\ \/ Realtime!Connect
       \/ Realtime!Disconnect
       \/ \E engaged \in BOOLEAN : Realtime!SetEngaged(engaged)
       \/ Realtime!Interrupt
       \/ Realtime!SendText
       \/ \E mode \in {"voice", "text"} : Realtime!SetResponseMode(mode)

CascadeCommand ==
    /\ Move /\ OfCascade
    /\ \/ Cascade!Connect
       \/ Cascade!Disconnect
       \/ \E engaged \in BOOLEAN : Cascade!SetEngaged(engaged)
       \/ Cascade!Interrupt
       \/ Cascade!SendText
       \/ \E mode \in {"voice", "text"} : Cascade!SetResponseMode(mode)

\* onTaskEvents, for an event that is announced
TaskEvent(t, question) ==
    /\ Counted
    /\ news < MaxNews /\ news' = news + 1
    /\ UNCHANGED <<engine, switched>>
    /\ IF engine = "realtime"
       THEN Realtime!HandleTaskEvents(t, news + 1, question) /\ UNCHANGED cc
       ELSE /\ Cascade!HandleTaskEvents(t, news + 1)
            /\ questions' = [questions EXCEPT ![t] = IF question THEN news + 1 ELSE 0]
            /\ UNCHANGED <<rt, session>>

\* onSettingsUpdate with another engine
SwitchEngine ==
    /\ Counted
    /\ switched' = TRUE
    /\ UNCHANGED <<news, questions, briefVars>>
    /\ IF engine = "realtime"
       THEN /\ engine' = "cascade"
            /\ rt' = Realtime!Disconnected(rt) /\ session' = Realtime!NoSession
            /\ UNCHANGED cc
       ELSE /\ engine' = "realtime"
            /\ cc' = Cascade!Disconnected(cc)
            /\ UNCHANGED <<rt, session>>

\* onSettingsUpdate with other parameters of the cascade: a new bridge.
RebuildCascade ==
    /\ Move
    /\ Cascade!CascadeRestart
    /\ UNCHANGED <<rt, session, questions, briefVars>>

\* The daemon stops and starts; the app sends it the same settings again.
Restart ==
    /\ Move
    /\ Realtime!RealtimeRestart
    /\ Cascade!CascadeRestart
    /\ UNCHANGED briefVars

(***************************************************************************)
(* What the bridges do by themselves, retired or not, and the providers.   *)
(***************************************************************************)
RealtimeFault ==
    /\ Move /\ UNCHANGED cc
    /\ \/ Realtime!SocketCloses
       \/ Realtime!SetupTimeout
       \/ Realtime!ProviderFails
       \/ Realtime!SpeechStarts
       \/ Realtime!OrphanCloses
       \/ Realtime!OrphanTimeout
       \/ Realtime!OrphanFails

RealtimeStep ==
    /\ Others(cc)
    /\ \/ Realtime!OldSocketClosed
       \/ Realtime!ReconnectTimer
       \/ Realtime!SocketOpens
       \/ Realtime!LateRejection
       \/ Realtime!ProviderSays
       \/ Realtime!SpeechStops
       \/ Realtime!ToolReturns
       \/ Realtime!OrphanOpens
       \/ Realtime!OrphanEnds
       \/ Realtime!OrphanReceives

RealtimeReceive == Others(cc) /\ Realtime!Receive
RealtimeWatchdog == Others(cc) /\ Realtime!Watchdog
RealtimeClosed == rt.socket = "closing" /\ Others(cc) /\ Realtime!SocketCloses

CascadeFault ==
    /\ Move /\ UNCHANGED <<rt, session, questions>>
    /\ \/ Cascade!ScribeFails
       \/ Cascade!ScribeCloses
       \/ Cascade!ScribeFatal

CascadeStep ==
    /\ Others(<<rt, session, questions>>)
    /\ \/ Cascade!ScribeStarts
       \/ Cascade!LateRejection
       \/ Cascade!ReconnectTimer
       \/ Cascade!Transcript
       \/ Cascade!RoundEnds
       \/ Cascade!RoundFails
       \/ \E t \in Turns : Cascade!ToolReturns(t)
       \/ Cascade!SpeechEnds

Init ==
    /\ StoreInit
    /\ Realtime!RealtimeInit
    /\ Cascade!CascadeInit
    /\ engine \in {"realtime", "cascade"}
    /\ switched = FALSE
    /\ news = 0
    /\ moves = 0

Next ==
    \/ RealtimeCommand \/ CascadeCommand
    \/ \E t \in Tasks, question \in BOOLEAN : TaskEvent(t, question)
    \/ SwitchEngine \/ RebuildCascade \/ Restart
    \/ RealtimeFault \/ RealtimeStep \/ RealtimeReceive \/ RealtimeWatchdog \/ RealtimeClosed
    \/ CascadeFault \/ CascadeStep

\* A message that has come is handled, a timer that stays armed fires, and a
\* socket that was closed reports it.  Nothing is asked of the providers or users.
Fairness ==
    /\ WF_vars(RealtimeReceive)
    /\ WF_vars(RealtimeWatchdog)
    /\ WF_vars(RealtimeClosed)

Spec == Init /\ [][Next]_vars /\ Fairness

(***************************************************************************)
(* Properties.                                                             *)
(***************************************************************************)
\* While the provider makes a response the bridge holds its slot, across
\* cancellations, tools, barge-ins, changes of mode and reconnections, so it never
\* asks for a second one.  Two things part them: an error the session reported, and
\* what a socket that an overlapping connect() replaced still says
\* (requestResponse, handleMessage).
SlotIsTheProviders ==
    rt.socket = "open" /\ session.busy => rt.active \/ session.errors \/ rt.crossed

\* A response that was put off waits for something that will ask for it: the one
\* being made, the end of what the user says, or a tool.  Three exceptions are in
\* the code: a chain stopped by its cap, speech cut off by going to sleep, and a
\* response that the end of a replaced socket's ended.
SomethingAsksAgain ==
    rt.pending => rt.active \/ rt.input \/ rt.tools + rt.oldTools > 0
                  \/ rt.capped \/ rt.hushed \/ rt.crossed

\* However silent the provider, the slot is free again (armResponseWatchdog), but
\* for one taken on the word of a replaced socket when no other was open.
ResponseSlotIsReleased == rt.active ~> ~rt.active \/ rt.crossed

\* While one engine serves, its queue is what the table holds undelivered, and a
\* brief is undelivered exactly as long as no conversation has it: a restart
\* neither loses a brief nor tells it again.
Queue == IF engine = "realtime" THEN rt.queue ELSE cc.queue
StoreIsTheQueue ==
    ~switched =>
        /\ Queue = Pending
        /\ \A t \in Tasks : queued[t] # 0 => (queued[t] \in told <=> Pending[t] = 0)

\* A retired bridge opens no socket, whatever timers and waits it was left with,
\* but for a connect() that waited for its old socket when it was retired: that one
\* goes on, and reconnects ever after.
RetiredEngineOpensNothing ==
    [][/\ engine = "cascade" /\ rt.socket = "none" /\ ~rt.overtaken
              => rt'.socket = "none" \/ engine' = "realtime"
       /\ engine = "realtime" /\ cc.scribe = "none"
              => cc'.scribe = "none" \/ engine' = "cascade"]_vars

\* One turn at a time asks the model or speaks; of a turn that was aborted only a
\* tool goes on, and its output reaches the history in the end of it.
OneTurnSpeaks ==
    /\ \A t \in Turns : cc.at[t] \in {"stream", "refused", "speech"} => t = cc.turn
    /\ \A t \in cc.calls : cc.at[t] = "tool"
================================================================================
