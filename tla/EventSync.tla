------------------------------ MODULE EventSync -------------------------------
(***************************************************************************)
(* The daemon's event fan-out and the VS Code bridge that follows it.      *)
(*                                                                         *)
(* The daemon (ipc-server.ts) adds every accepted socket to its clients    *)
(* and sends each of them every event it logs; state.get answers with a    *)
(* snapshot.  The bridge (realtime-client.ts, class MamachiBridge) keeps   *)
(* one connection, asks for a snapshot when it opens, buffers the events   *)
(* that arrive meanwhile, and reconnects after a pause when it is lost.    *)
(* Its callers' requests wait for a connection.  The bridge runs on one    *)
(* JavaScript thread: an action here is one callback up to its next wait.  *)
(*                                                                         *)
(* A socket delivers what was sent on it in order, or closes.  What the    *)
(* daemon had sent when it dies is delivered up to some point.             *)
(***************************************************************************)
EXTENDS Integers, Sequences, FiniteSets, SequencesExt

CONSTANTS
    Sockets,    \* client sockets; one is used again when both ends left it
    Callers,    \* those who call request(), one request at a time each
    Focus,      \* the caller that asks for the workspace's focus
    None,
    MaxSeq,     \* bound on the events in one database
    MaxStores,  \* bound on the databases the daemon starts with
    MaxFaults   \* bound on stops of the daemon, lost sockets and timeouts

ASSUME SyncAssumption ==
    /\ Focus \in Callers /\ None \notin Callers \cup Sockets
    /\ "loading" \notin Sockets \cup {None} /\ IsFiniteSet(Callers)
    /\ MaxSeq \in Nat /\ MaxStores \in Nat \ {0} /\ MaxFaults \in Nat

VARIABLES
    stores,   \* the length of the event log in each database; the last is in use
    daemon,   \* is it up, and its #clients
    link,     \* of each socket: readyState, messages to the client, to the daemon
    bridge,   \* the fields of MamachiBridge
    call,     \* what each caller's request is doing
    view,     \* what a consumer of onSnapshot and onEvent has built
    stopped,  \* request() spins and nothing else runs
    faults

syncVars == <<stores, daemon, link, bridge, call, view, stopped, faults>>

Abstract == INSTANCE EditorView WITH stores <- stores, view <- view, stopped <- stopped

(***************************************************************************)
(* Messages.                                                               *)
(***************************************************************************)
Store == Len(stores)
Seq0 == -1                    \* #lastSeq = null

Event(d, n) == [type |-> "event", store |-> d, seq |-> n]
Request(c) == [type |-> "request", caller |-> c]
StateGet(after) == [type |-> "state.get", after |-> after]
Reply(c) == [type |-> "reply", caller |-> c]
Plain(t) == [type |-> t]      \* the handshake's outcome and the end of the stream

\* The reply to state.get.
StateResult(after) ==
    [type |-> "state", store |-> Store, seq |-> stores[Store],
     after |-> after, reset |-> after > stores[Store]]

Push(l, side, msg) == IF l.ready \in {"open", "connecting"}
                      THEN [l EXCEPT ![side] = Append(@, msg)] ELSE l

Unused == [ready |-> "closed", down |-> <<>>, up |-> <<>>]

(***************************************************************************)
(* The bridge's own functions.                                             *)
(***************************************************************************)
MutantConnectsBesideTheSocket(b) ==
    IF b.connecting # None THEN b
    ELSE [b EXCEPT !.connecting = "loading", !.state = "connecting"]

BeginConnect(b) ==
    IF b.connecting # None \/ b.socket # None THEN b
    ELSE [b EXCEPT !.connecting = "loading", !.state = "connecting"]

ScheduleReconnect(b) ==
    IF b.timer THEN b ELSE [b EXCEPT !.timer = TRUE, !.state = "backoff"]

\* settleSetup rejects: the catch and finally of #beginConnect.
SetupFailed(b, s) ==
    IF b.connecting # s THEN b
    ELSE [ScheduleReconnect(b) EXCEPT !.connecting = None]

\* #applyDomainEvent, on the bridge and the view together.
ApplyDomainEvent(bv, e) ==
    IF <<e.store, e.seq>> \in bv.seen THEN bv
    ELSE [seen |-> bv.seen \cup {<<e.store, e.seq>>},
          lastSeq |-> IF e.seq <= bv.lastSeq THEN bv.lastSeq ELSE e.seq,
          view |-> IF e.seq <= bv.lastSeq THEN bv.view
                   ELSE [bv.view EXCEPT !.events = Append(@, <<e.store, e.seq>>)]]

\* A domain.event in #handleMessage: kept, applied or, in no state for it, lost.
Receive(b, v, e) ==
    LET applied == ApplyDomainEvent(
                       [seen |-> b.seen, lastSeq |-> b.lastSeq, view |-> v], e)
    IN  CASE b.state = "synchronizing" ->
               [bridge |-> [b EXCEPT !.buffered = Append(@, e)], view |-> v]
          [] b.state = "connected" ->
               [bridge |-> [b EXCEPT !.seen = applied.seen, !.lastSeq = applied.lastSeq],
                view |-> applied.view]
          [] OTHER -> [bridge |-> b, view |-> v]

\* The part of #synchronize after its answer: the snapshot and the ids of the
\* replayed events ...
Snapshot(b, r) ==
    LET replayed == IF r.reset \/ r.after = Seq0 THEN {}
                    ELSE {<<r.store, n>> : n \in (r.after + 1)..r.seq}
    IN  [seen |-> (IF r.reset THEN {} ELSE b.seen) \cup replayed,
         lastSeq |-> r.seq,
         view |-> Abstract!ViewOf(r.store, r.seq)]

MutantDropsBuffered(b, r) == Snapshot(b, r)

\* ... then the buffered events, one after the other.
Replay(b, r) ==
    LET after[i \in 0..Len(b.buffered)] ==
            IF i = 0 THEN Snapshot(b, r) ELSE ApplyDomainEvent(after[i - 1], b.buffered[i])
    IN  after

Synchronized(b, r) == Replay(b, r)[Len(b.buffered)]

MutantForgetsToReconnect(b) ==
    [b EXCEPT !.socket = None, !.buffered = <<>>, !.state = "backoff"]

\* The close handler's part for the current socket.
Disconnected(b) ==
    ScheduleReconnect([b EXCEPT !.socket = None, !.buffered = <<>>])

(***************************************************************************)
(* Requests.                                                               *)
(***************************************************************************)
Idle(c) == call[c] \in {"none", "answered", "failed"}
Waiting == {c \in Callers : call[c] = "waiting"}
SentOn(s) == {c \in Callers : call[c] = "sent" /\ bridge.socket = s}

\* Their requests, in the order the callers run.
Requests(callers) ==
    [i \in 1..Cardinality(callers) |-> Request(SetToSeq(callers)[i])]

\* request() finds the bridge connected: it sends, or, when the socket is no
\* longer open, awaits a connect() that returns at once, and so forever.
Send(s, callers) ==
    IF link[s].ready = "open"
    THEN /\ link' = [link EXCEPT ![s].up = @ \o Requests(callers)]
         /\ call' = [c \in Callers |-> IF c \in callers THEN "sent" ELSE call[c]]
         /\ UNCHANGED stopped
    ELSE /\ stopped' = (callers # {})
         /\ UNCHANGED <<link, call>>

\* request() when the bridge is not connected: connect() cuts the pause short.
Wait(callers) ==
    /\ call' = [c \in Callers |-> IF c \in callers THEN "waiting" ELSE call[c]]
    /\ bridge' = IF bridge.timer /\ callers # {}
                 THEN BeginConnect([bridge EXCEPT !.timer = FALSE]) ELSE bridge

(***************************************************************************)
(* The daemon.                                                             *)
(***************************************************************************)
ClientVars == <<bridge, call, view, stopped>>

SendToClients(msg) ==
    link' = [s \in Sockets |-> IF s \in daemon.clients THEN Push(link[s], "down", msg) ELSE link[s]]

\* A decision's event is logged and, in the same step, emitted to every client.
Publish ==
    /\ daemon.up
    /\ stores[Store] < MaxSeq
    /\ stores' = [stores EXCEPT ![Store] = @ + 1]
    /\ SendToClients(Event(Store, stores[Store] + 1))
    /\ UNCHANGED <<daemon, ClientVars, faults>>

OpenSocket(s) ==
    /\ link[s].ready = "connecting" /\ link[s].down = <<>>
    /\ IF daemon.up
       THEN /\ daemon' = [daemon EXCEPT !.clients = @ \cup {s}]
            /\ link' = [link EXCEPT ![s] = Push(@, "down", Plain("open"))]
       ELSE /\ link' = [link EXCEPT ![s] = Push(@, "down", Plain("refused"))]
            /\ UNCHANGED daemon
    /\ UNCHANGED <<stores, ClientVars, faults>>

\* #dispatch and the reply.
Serve(s) ==
    /\ s \in daemon.clients /\ link[s].up # <<>>
    /\ LET request == Head(link[s].up)
           reply == IF request.type = "state.get" THEN StateResult(request.after)
                    ELSE Reply(request.caller)
       IN  link' = [link EXCEPT ![s] = Push([link[s] EXCEPT !.up = Tail(@)], "down", reply)]
    /\ UNCHANGED <<stores, daemon, ClientVars, faults>>

CloseSocket(s) ==
    /\ s \in daemon.clients /\ link[s].ready = "closed"
    /\ daemon' = [daemon EXCEPT !.clients = @ \ {s}]
    /\ link' = [link EXCEPT ![s] = Unused]
    /\ UNCHANGED <<stores, ClientVars, faults>>

\* The stream to s ends after its first k messages.
Cut(l, k) == [l EXCEPT !.up = <<>>,
                       !.down = IF l.ready \in {"open", "connecting"}
                                THEN Append(SubSeq(@, 1, k), Plain("end")) ELSE @]

\* The daemon loses one client's socket.
LoseSocket(s) ==
    /\ faults < MaxFaults /\ faults' = faults + 1
    /\ s \in daemon.clients
    /\ \E k \in 0..Len(link[s].down) : link' = [link EXCEPT ![s] = Cut(@, k)]
    /\ daemon' = [daemon EXCEPT !.clients = @ \ {s}]
    /\ UNCHANGED <<stores, ClientVars>>

\* The daemon stops: close(), or its process dies.
StopDaemon ==
    /\ faults < MaxFaults /\ faults' = faults + 1
    /\ daemon.up
    /\ \E kept \in [daemon.clients -> 0..(MaxSeq + Cardinality(Callers) + 2)] :
           /\ \A s \in daemon.clients : kept[s] <= Len(link[s].down)
           /\ link' = [s \in Sockets |-> IF s \in daemon.clients THEN Cut(link[s], kept[s]) ELSE link[s]]
    /\ daemon' = [up |-> FALSE, clients |-> {}]
    /\ UNCHANGED <<stores, ClientVars>>

\* It starts again, with its database or with a new one.
StartDaemon ==
    /\ ~daemon.up
    /\ daemon' = [daemon EXCEPT !.up = TRUE]
    /\ \/ UNCHANGED stores
       \/ Len(stores) < MaxStores /\ stores' = Append(stores, 0)
    /\ UNCHANGED <<link, ClientVars, faults>>

(***************************************************************************)
(* The bridge.  Between an answer and the microtask it resumes only        *)
(* messages of the same chunk are handled.                                 *)
(***************************************************************************)
Runs == ~stopped /\ bridge.answer = None

DaemonVars == <<stores, daemon>>

\* #open up to its next wait: the descriptor is read, the socket created.
LoadDescriptor ==
    /\ Runs /\ bridge.connecting = "loading"
    /\ \/ /\ ~daemon.up
          /\ bridge' = SetupFailed(bridge, "loading")
          /\ UNCHANGED link
       \/ \E s \in Sockets :
              /\ link[s] = Unused /\ s \notin daemon.clients
              /\ link' = [link EXCEPT ![s].ready = "connecting"]
              /\ bridge' = [bridge EXCEPT !.connecting = s]
    /\ UNCHANGED <<DaemonVars, call, view, stopped, faults>>

\* terminate(): nothing more is delivered but the close.
Terminate(l) == [l EXCEPT !.ready = "closing", !.down = <<>>]

SetupTimeout(s) ==
    /\ Runs /\ bridge.connecting = s
    /\ faults < MaxFaults /\ faults' = faults + 1
    /\ link' = [link EXCEPT ![s] = Terminate(@)]
    /\ bridge' = SetupFailed(bridge, s)
    /\ UNCHANGED <<DaemonVars, call, view, stopped>>

\* The open listener, and #synchronize up to its wait.
Opened(s) ==
    /\ link' = [link EXCEPT ![s] = [link[s] EXCEPT !.ready = "open", !.down = Tail(@),
                                                    !.up = Append(@, StateGet(bridge.lastSeq))]]
    /\ bridge' = [bridge EXCEPT !.socket = s, !.buffered = <<>>, !.state = "synchronizing"]
    /\ UNCHANGED <<call, view>>

\* The stream ends, with an error or without: the socket is closing.
Ended(s) ==
    /\ link' = [link EXCEPT ![s] = Terminate(@)]
    /\ \/ UNCHANGED bridge
       \/ bridge.answer = None /\ bridge' = SetupFailed(bridge, s)
    /\ UNCHANGED <<call, view>>

\* #handleMessage.
Handled(s, msg) ==
    /\ link' = [link EXCEPT ![s].down = Tail(@)]
    /\ LET current == s = bridge.socket
           received == Receive(bridge, view, msg)
       IN  CASE current /\ msg.type = "event" ->
                  /\ bridge' = received.bridge
                  /\ view' = received.view
                  /\ UNCHANGED call
             [] current /\ msg.type = "state" ->
                  /\ bridge' = [bridge EXCEPT !.answer = msg]
                  /\ UNCHANGED <<call, view>>
             [] current /\ msg.type = "reply" /\ msg.caller \in SentOn(s) ->
                  /\ call' = [call EXCEPT ![msg.caller] = "answered"]
                  /\ UNCHANGED <<bridge, view>>
             [] OTHER -> UNCHANGED <<bridge, call, view>>

Deliver(s) ==
    /\ ~stopped /\ (bridge.answer = None \/ s = bridge.socket)
    /\ link[s].down # <<>>
    /\ LET msg == Head(link[s].down)
       IN  CASE msg.type = "open" -> Opened(s)
             [] msg.type \in {"end", "refused"} -> Ended(s)
             [] OTHER -> Handled(s, msg)
    /\ UNCHANGED <<DaemonVars, stopped, faults>>

\* The close listener; #rejectPendingForSocket.
Closed(s) ==
    /\ Runs
    /\ link[s].ready = "closing"
    /\ link' = [link EXCEPT ![s] = IF s \in daemon.clients THEN [@ EXCEPT !.ready = "closed"] ELSE Unused]
    /\ bridge' = SetupFailed(IF bridge.socket = s THEN Disconnected(bridge) ELSE bridge, s)
    /\ call' = [c \in Callers |-> IF c \in SentOn(s) THEN "failed" ELSE call[c]]
    /\ UNCHANGED <<DaemonVars, view, stopped, faults>>

\* #synchronize goes on with its answer, resolves the waiters and calls
\* onReady, in which the given callers make their requests.
Synchronize(asking) ==
    /\ ~stopped /\ bridge.answer # None
    /\ LET done == Synchronized(bridge, bridge.answer)
       IN  /\ bridge' = [bridge EXCEPT !.seen = done.seen, !.lastSeq = done.lastSeq,
                             !.buffered = <<>>, !.state = "connected",
                             !.connecting = IF @ = bridge.socket THEN None ELSE @,
                             !.answer = None]
           /\ view' = done.view
    /\ Send(bridge.socket, Waiting \cup {c \in asking : Idle(c)})
    /\ UNCHANGED <<DaemonVars, faults>>

ReconnectTimer ==
    /\ Runs /\ bridge.timer
    /\ bridge' = BeginConnect([bridge EXCEPT !.timer = FALSE])
    /\ UNCHANGED <<DaemonVars, link, call, view, stopped, faults>>

\* request(), by callers that have none in hand.
Ask(callers) ==
    /\ Runs
    /\ IF bridge.state = "connected" /\ bridge.socket # None
       THEN Send(bridge.socket, callers) /\ UNCHANGED bridge
       ELSE IF bridge.state = "connected"
       THEN stopped' = TRUE /\ UNCHANGED <<link, call, bridge>>
       ELSE Wait(callers) /\ UNCHANGED <<link, stopped>>
    /\ UNCHANGED <<DaemonVars, view, faults>>

\* #settlePending by the request's timer; a late answer then finds no entry.
RequestTimeout(c) ==
    LET unknown(m) == IF m.type \in {"request", "reply"} /\ m.caller = c
                      THEN [m EXCEPT !.caller = None] ELSE m
        forget(q) == [i \in DOMAIN q |-> unknown(q[i])]
    IN  /\ Runs /\ call[c] = "sent"
        /\ faults < MaxFaults /\ faults' = faults + 1
        /\ call' = [call EXCEPT ![c] = "failed"]
        /\ link' = [s \in Sockets |-> [link[s] EXCEPT !.up = forget(@), !.down = forget(@)]]
        /\ UNCHANGED <<DaemonVars, bridge, view, stopped>>

(***************************************************************************)
(* The specification.                                                      *)
(***************************************************************************)
\* activate() has called start(): the first attempt reads the descriptor.
Init ==
    /\ stores = <<0>>
    /\ daemon = [up |-> TRUE, clients |-> {}]
    /\ link = [s \in Sockets |-> Unused]
    /\ bridge = [state |-> "connecting", socket |-> None, connecting |-> "loading", timer |-> FALSE,
                 lastSeq |-> Seq0, seen |-> {}, buffered |-> <<>>, answer |-> None]
    /\ call = [c \in Callers |-> "none"]
    /\ view = Abstract!ViewOf(1, 0)
    /\ stopped = FALSE
    /\ faults = 0

DaemonNext ==
    \/ Publish \/ StopDaemon \/ StartDaemon
    \/ \E s \in Sockets : OpenSocket(s) \/ Serve(s) \/ CloseSocket(s) \/ LoseSocket(s)

BridgeNext ==
    \/ LoadDescriptor \/ ReconnectTimer
    \/ \E s \in Sockets : SetupTimeout(s) \/ Deliver(s) \/ Closed(s)
    \/ \E c \in Callers : RequestTimeout(c)

Next ==
    \/ DaemonNext
    \/ BridgeNext
    \/ Synchronize({Focus})
    \/ \E c \in Callers : Idle(c) /\ Ask({c})

\* The daemon's supervisor starts it again; sockets and timers do their work.
\* Nothing is assumed of what the user asks for or of new events.
SyncFairness ==
    /\ WF_syncVars(StartDaemon) /\ WF_syncVars(LoadDescriptor) /\ WF_syncVars(ReconnectTimer)
    /\ \A s \in Sockets :
           /\ WF_syncVars(OpenSocket(s)) /\ WF_syncVars(Serve(s)) /\ WF_syncVars(CloseSocket(s))
           /\ WF_syncVars(Deliver(s)) /\ WF_syncVars(Closed(s))

Fairness == SyncFairness /\ WF_syncVars(Synchronize({Focus}))

Spec == Init /\ [][Next]_syncVars /\ Fairness

(***************************************************************************)
(* Properties.                                                             *)
(***************************************************************************)
\* What a consumer of onSnapshot and onEvent holds is always the beginning of
\* one database's log, without gaps, repetitions or steps back, and it catches
\* up with the log unless request() spins: EventSync implements EditorView.
\* ARCHITECTURE.md (chapters 4.8 and 8): snapshot, replay, buffered events.
FollowsTheLog == Abstract!Spec

\* The bridge takes a new socket only after the close of the one before
\* (#beginConnect, the open and close listeners).
OneSocketAtATime ==
    [][bridge.socket # None => bridge'.socket \in {bridge.socket, None}]_syncVars

\* Whatever is lost or restarted, every request ends: answered, rejected or
\* timed out; only a request made while the socket is closing prevents it.
RequestsEnd ==
    \A c \in Callers : (call[c] \in {"waiting", "sent"}) ~> (Idle(c) \/ stopped)
================================================================================
