---------------------------- MODULE EventSyncProofs ----------------------------
(***************************************************************************)
(* The VS Code bridge for any number of sockets, callers, events,          *)
(* databases and faults: it takes one socket after the other, and every    *)
(* step of it is a step of EditorView or leaves the view alone.            *)
(***************************************************************************)
EXTENDS EventSync, TLAPS, SequenceTheorems, FiniteSetTheorems, WellFoundedInduction

-----------------------------------------------------------------------------
(* The shape of the state.                                                 *)

\* The last event known, or none.
Seqs == Nat \cup {Seq0}

EventMessages == [type : {"event"}, store : Nat, seq : Nat]
StateMessages == [type : {"state"}, store : Nat, seq : Nat, after : Seqs, reset : BOOLEAN]
CallMessages  == [type : {"request", "reply"}, caller : Callers \cup {None}]
GetMessages   == [type : {"state.get"}, after : Seqs]
PlainMessages == [type : {"open", "refused", "end"}]

Downs == EventMessages \cup StateMessages \cup CallMessages \cup PlainMessages
Ups   == GetMessages \cup CallMessages

Links == [ready : {"connecting", "open", "closing", "closed"}, down : Seq(Downs), up : Seq(Ups)]

Bridges ==
    [state : {"connecting", "synchronizing", "connected", "backoff"},
     socket : Sockets \cup {None}, connecting : Sockets \cup {None, "loading"},
     timer : BOOLEAN, lastSeq : Seqs, seen : SUBSET (Nat \X Nat),
     buffered : Seq(EventMessages), answer : StateMessages \cup {None}]

Views == [store : Nat, events : Seq(Nat \X Nat)]

Typed ==
    /\ stores \in Seq(Nat) /\ stores # <<>>
    /\ daemon \in [up : BOOLEAN, clients : SUBSET Sockets]
    /\ link \in [Sockets -> Links]
    /\ bridge \in Bridges
    /\ view \in Views
    /\ stopped \in BOOLEAN

-----------------------------------------------------------------------------
(* What sockets and bridge know of each other.                             *)

\* A socket that opens is the one the bridge waits for, and it has no other;
\* one that is open is the bridge's; one that closes delivers nothing more.
Linked(s, l, b) ==
    /\ \A i \in DOMAIN l.down : l.down[i].type = "open" => i = 1 /\ l.ready = "connecting"
    /\ l.ready = "connecting" =>
          /\ b.connecting = s /\ b.socket = None /\ l.up = <<>>
          /\ l.down # <<>> => l.down[1].type \in {"open", "refused", "end"}
    /\ l.ready = "open" => b.socket = s
    /\ l.ready \in {"closing", "closed"} => l.down = <<>>

Connection ==
    /\ daemon.up \/ daemon.clients = {}
    /\ bridge.connecting = "loading" => bridge.socket = None
    /\ bridge.socket # None => bridge.connecting \in {None, bridge.socket}
    /\ bridge.answer # None => bridge.socket # None
    /\ \A s \in Sockets : Linked(s, link[s], bridge)
    /\ \A s \in daemon.clients : link[s].ready = "connecting" => link[s].down # <<>>

-----------------------------------------------------------------------------
(* What is on its way to the bridge.                                       *)

\* The events that the bridge has received and not applied, and those to come.
Stream(s) == IF s = bridge.socket THEN bridge.buffered \o link[s].down ELSE link[s].down

States(q) == {i \in DOMAIN q : q[i].type = "state"}
Events(q) == {i \in DOMAIN q : q[i].type = "event"}

\* After event n the stream goes on without a gap ...
Follows(n, q) ==
    \A i \in Events(q) : \A m \in (n + 1)..(q[i].seq - 1) :
        \E j \in Events(q) : j < i /\ q[j].seq = m

\* ... and up to the end of the log.
Reaches(n, q, top) == \A m \in (n + 1)..top : \E j \in Events(q) : q[j].seq = m

\* The events after which the bridge takes those of the stream: of the snapshot
\* that is on its way or that it holds, or the last one applied.
Bases(s) ==
    {link[s].down[k].seq : k \in States(link[s].down)}
    \cup (IF s = bridge.socket /\ bridge.answer # None THEN {bridge.answer.seq} ELSE {})
    \cup (IF s = bridge.socket /\ bridge.state = "connected" THEN {bridge.lastSeq} ELSE {})

Fed(s) == s \in daemon.clients /\ link[s].ready \in {"connecting", "open"}

\* A socket carries the log of one database.
Carries(s, d) ==
    /\ s \in daemon.clients => d = Store
    /\ \A i \in DOMAIN Stream(s) : Stream(s)[i].type \in {"event", "state"} =>
          Stream(s)[i].store = d /\ Stream(s)[i].seq <= stores[d]
    /\ s = bridge.socket /\ bridge.answer # None =>
          bridge.answer.store = d /\ bridge.answer.seq <= stores[d]
    /\ s = bridge.socket /\ bridge.state = "connected" => view.store = d
    /\ \A n \in Bases(s) : Follows(n, Stream(s)) /\ (Fed(s) => Reaches(n, Stream(s), stores[d]))

Streams == \A s \in Sockets : \E d \in DOMAIN stores : Carries(s, d)

Expecting(s) == s = bridge.socket /\ bridge.state = "synchronizing" /\ bridge.answer = None

\* One snapshot at most is asked for, on its way or held.
OneSnapshot(s) ==
    /\ \A i \in DOMAIN link[s].up : link[s].up[i].type = "state.get" /\ link[s].ready = "open" =>
          i = 1 /\ Expecting(s) /\ States(link[s].down) = {}
    /\ \A k \in States(link[s].down) : Expecting(s) /\ States(link[s].down) = {k}

\* A snapshot is not behind what the bridge has shown and seen.
Ahead(r) ==
    /\ view.store <= r.store
    /\ view.store = r.store => Len(view.events) <= r.seq
    /\ \A x \in bridge.seen : x[1] = r.store => x[2] <= r.seq

Snapshots ==
    /\ \A s \in Sockets : OneSnapshot(s) /\ \A k \in States(link[s].down) : Ahead(link[s].down[k])
    /\ bridge.answer # None => bridge.state = "synchronizing" /\ Ahead(bridge.answer)

\* The view is the beginning of a log that is as long at least.
Shown ==
    /\ view.store \in DOMAIN stores
    /\ view = Abstract!ViewOf(view.store, Len(view.events))
    /\ Len(view.events) <= stores[view.store]
    /\ \A x \in bridge.seen : x[1] \in DOMAIN stores /\ x[2] <= stores[x[1]]
    /\ bridge.state = "connected" =>
          /\ bridge.lastSeq = Len(view.events) /\ bridge.buffered = <<>>
          /\ \A x \in bridge.seen : x[1] = view.store => x[2] <= bridge.lastSeq

SyncInvariant == Typed /\ Connection /\ Streams /\ Snapshots /\ Shown

-----------------------------------------------------------------------------
(* What is done to a socket.                                               *)

\* The messages have their types.
LEMMA MessagesTyped ==
    /\ \A t \in {"open", "refused", "end"} : Plain(t) \in PlainMessages
    /\ \A c \in Callers \cup {None} : Request(c) \in CallMessages /\ Reply(c) \in CallMessages
    /\ \A n \in Seqs : StateGet(n) \in GetMessages
    /\ \A d, n \in Nat : Event(d, n) \in EventMessages
<1>1. \A t \in {"open", "refused", "end"} : Plain(t) \in PlainMessages
  BY DEF Plain, PlainMessages
<1>2. \A c \in Callers \cup {None} : Request(c) \in CallMessages /\ Reply(c) \in CallMessages
  BY DEF Request, Reply, CallMessages
<1>3. \A n \in Seqs : StateGet(n) \in GetMessages
  BY DEF StateGet, GetMessages
<1>4. \A d, n \in Nat : Event(d, n) \in EventMessages
  BY DEF Event, EventMessages
<1> QED BY <1>1, <1>2, <1>3, <1>4

\* The last store is in use.
LEMMA StoreTyped ==
    ASSUME Typed
    PROVE  /\ Store \in Nat \ {0} /\ DOMAIN stores = 1..Store /\ stores[Store] \in Nat
           /\ \A d \in DOMAIN stores : stores[d] \in Nat
BY DEF Typed, Store

\* So has the reply to state.get.
LEMMA StateResultTyped ==
    ASSUME Typed, NEW after \in Seqs
    PROVE  LET r == StateResult(after)
           IN  r \in StateMessages /\ r.type = "state" /\ r.store = Store /\ r.seq = stores[Store]
BY StoreTyped DEF StateResult, StateMessages

\* A message sent to the client reaches it unless the socket is closing.
LEMMA PushDown ==
    ASSUME NEW l \in Links, NEW m \in Downs
    PROVE  LET n == Push(l, "down", m)
           IN  /\ n \in Links /\ n.ready = l.ready /\ n.up = l.up
               /\ n.down = IF l.ready \in {"connecting", "open"} THEN Append(l.down, m) ELSE l.down
<1> DEFINE q == Append(l.down, m)
           n == [l EXCEPT !.down = q]
<1>1. l.down \in Seq(Downs) /\ l \in [ready : {"connecting", "open", "closing", "closed"},
                                       down : Seq(Downs), up : Seq(Ups)]
  BY DEF Links
<1>2. q \in Seq(Downs)
  BY <1>1
<1> HIDE DEF q
<1>3. n \in Links /\ n.ready = l.ready /\ n.up = l.up /\ n.down = q
  BY <1>1, <1>2 DEF Links
<1>4. Push(l, "down", m) = IF l.ready \in {"connecting", "open"} THEN n ELSE l
  BY DEF Push, q
<1> HIDE DEF n
<1> QED BY <1>3, <1>4 DEF q

\* A stream that is cut keeps its first messages and ends.
LEMMA CutTyped ==
    ASSUME NEW l \in Links, NEW k \in 0..Len(l.down)
    PROVE  LET n == Cut(l, k)
           IN  /\ n \in Links /\ n.ready = l.ready /\ n.up = <<>>
               /\ l.ready \notin {"connecting", "open"} => n.down = l.down
               /\ l.ready \in {"connecting", "open"} =>
                     /\ n.down = Append(SubSeq(l.down, 1, k), Plain("end"))
                     /\ Len(n.down) = k + 1 /\ DOMAIN n.down = 1..(k + 1)
                     /\ \A i \in 1..k : n.down[i] = l.down[i]
                     /\ n.down[k + 1] = Plain("end")
<1> DEFINE cut == SubSeq(l.down, 1, k)
           q == IF l.ready \in {"open", "connecting"} THEN Append(cut, Plain("end")) ELSE l.down
<1>1. l.down \in Seq(Downs) /\ Plain("end") \in Downs
  BY MessagesTyped DEF Links, Downs
<1>2. cut \in Seq(Downs) /\ Len(cut) = k /\ \A i \in 1..k : cut[i] = l.down[i]
  BY <1>1, SubSeqProperties
<1> HIDE DEF cut
<1>3. q \in Seq(Downs)
  BY <1>1, <1>2
<1>4. l.ready \in {"connecting", "open"} =>
         /\ q = Append(cut, Plain("end")) /\ Len(q) = k + 1 /\ DOMAIN q = 1..(k + 1)
         /\ \A i \in 1..k : q[i] = l.down[i]
         /\ q[k + 1] = Plain("end")
  BY <1>1, <1>2, AppendProperties
<1>5. l.ready \notin {"connecting", "open"} => q = l.down
  OBVIOUS
<1>6. Cut(l, k) = [l EXCEPT !.up = <<>>, !.down = q]
  BY DEF Cut, cut
<1> HIDE DEF q
<1> DEFINE empty == <<>>
<1>7. empty \in Seq(Ups)
  OBVIOUS
<1> HIDE DEF empty
<1>8. LET n == [l EXCEPT !.up = empty, !.down = q]
      IN  n \in Links /\ n.ready = l.ready /\ n.up = empty /\ n.down = q
  BY <1>3, <1>7 DEF Links
<1>9. LET n == [l EXCEPT !.up = <<>>, !.down = q]
      IN  n \in Links /\ n.ready = l.ready /\ n.up = <<>> /\ n.down = q
  BY <1>8 DEF empty
<1> QED BY <1>4, <1>5, <1>6, <1>9 DEF cut

\* terminate() leaves a closing socket with nothing to deliver.
LEMMA TerminateTyped ==
    ASSUME NEW l \in Links
    PROVE  LET n == Terminate(l)
           IN  n \in Links /\ n.ready = "closing" /\ n.down = <<>> /\ n.up = l.up
<1> DEFINE empty == <<>>
           n == [l EXCEPT !.ready = "closing", !.down = empty]
<1>1. empty \in Seq(Downs)
  OBVIOUS
<1> HIDE DEF empty
<1>2. n \in Links /\ n.ready = "closing" /\ n.down = empty /\ n.up = l.up
  BY <1>1 DEF Links
<1> QED BY <1>2 DEF Terminate, empty

\* An unused socket.
LEMMA UnusedTyped ==
    Unused \in Links /\ Unused.ready = "closed" /\ Unused.down = <<>> /\ Unused.up = <<>>
BY DEF Unused, Links

-----------------------------------------------------------------------------
(* What is done to the bridge.                                             *)

\* What follows the log, and the socket it comes on.
SameFollowing(b, c) ==
    /\ c.socket = b.socket /\ c.lastSeq = b.lastSeq /\ c.seen = b.seen
    /\ c.buffered = b.buffered /\ c.answer = b.answer

\* A new attempt begins only without a socket and without another attempt.
LEMMA BeginConnectTyped ==
    ASSUME NEW b \in Bridges
    PROVE  LET c == BeginConnect(b)
           IN  /\ c \in Bridges /\ SameFollowing(b, c)
               /\ \/ c.connecting = b.connecting /\ c.state = b.state
                  \/ /\ b.connecting = None /\ b.socket = None
                     /\ c.connecting = "loading" /\ c.state = "connecting"
<1> DEFINE n == [b EXCEPT !.connecting = "loading", !.state = "connecting"]
<1>1. /\ n \in Bridges /\ n.connecting = "loading" /\ n.state = "connecting"
      /\ SameFollowing(b, n)
  BY DEF Bridges, SameFollowing
<1>2. BeginConnect(b) = IF b.connecting # None \/ b.socket # None THEN b ELSE n
  BY DEF BeginConnect
<1> HIDE DEF n
<1> QED BY <1>1, <1>2 DEF SameFollowing

\* The pause before the next attempt.
LEMMA ScheduleTyped ==
    ASSUME NEW b \in Bridges
    PROVE  LET c == ScheduleReconnect(b)
           IN  /\ c \in Bridges /\ SameFollowing(b, c) /\ c.connecting = b.connecting
               /\ c.state \in {b.state, "backoff"}
<1> DEFINE n == [b EXCEPT !.timer = TRUE, !.state = "backoff"]
<1>1. n \in Bridges /\ n.connecting = b.connecting /\ n.state = "backoff" /\ SameFollowing(b, n)
  BY DEF Bridges, SameFollowing
<1>2. ScheduleReconnect(b) = IF b.timer THEN b ELSE n
  BY DEF ScheduleReconnect
<1> HIDE DEF n
<1> QED BY <1>1, <1>2 DEF SameFollowing

\* A failed attempt is over.
LEMMA SetupFailedTyped ==
    ASSUME NEW b \in Bridges, NEW s
    PROVE  LET c == SetupFailed(b, s)
           IN  /\ c \in Bridges /\ SameFollowing(b, c)
               /\ b.connecting # s => c = b
               /\ b.connecting = s => c.connecting = None /\ c.state \in {b.state, "backoff"}
<1> DEFINE a == ScheduleReconnect(b)
           n == [a EXCEPT !.connecting = None]
<1>1. a \in Bridges /\ SameFollowing(b, a) /\ a.state \in {b.state, "backoff"}
  BY ScheduleTyped
<1> HIDE DEF a
<1>2. n \in Bridges /\ n.connecting = None /\ n.state = a.state /\ SameFollowing(a, n)
  BY <1>1 DEF Bridges, SameFollowing
<1>3. SetupFailed(b, s) = IF b.connecting # s THEN b ELSE n
  BY DEF SetupFailed, a
<1> HIDE DEF n
<1> QED BY <1>1, <1>2, <1>3 DEF SameFollowing

\* A bridge whose socket has closed holds no events and no socket.
LEMMA DisconnectedTyped ==
    ASSUME NEW b \in Bridges
    PROVE  LET c == Disconnected(b)
           IN  /\ c \in Bridges /\ c.socket = None /\ c.buffered = <<>>
               /\ c.lastSeq = b.lastSeq /\ c.seen = b.seen /\ c.answer = b.answer
               /\ c.connecting = b.connecting /\ c.state \in {b.state, "backoff"}
<1> DEFINE empty == <<>>
           n == [b EXCEPT !.socket = None, !.buffered = empty]
<1>1. empty \in Seq(EventMessages)
  OBVIOUS
<1>2. Disconnected(b) = ScheduleReconnect(n)
  BY DEF Disconnected
<1> HIDE DEF empty
<1>3. /\ n \in Bridges /\ n.socket = None /\ n.buffered = empty
      /\ n.lastSeq = b.lastSeq /\ n.seen = b.seen /\ n.answer = b.answer
      /\ n.connecting = b.connecting /\ n.state = b.state
  BY <1>1 DEF Bridges
<1> HIDE DEF n
<1> QED BY <1>2, <1>3, ScheduleTyped DEF SameFollowing, empty

-----------------------------------------------------------------------------
(* Streams: what is put at their end, taken from them or cut.              *)

\* A stream's positions and what is at them.
LEMMA StreamElements ==
    ASSUME NEW q \in Seq(Downs)
    PROVE  /\ DOMAIN q = 1..Len(q) /\ Len(q) \in Nat
           /\ \A i \in 1..Len(q) : q[i] \in Downs
           /\ \A i \in 1..Len(q) : q[i].type \in {"event", "state"} =>
                 q[i].seq \in Nat /\ q[i].store \in Nat
           /\ \A i \in 1..Len(q) : q[i].type = "event" => q[i] \in EventMessages
           /\ \A i \in 1..Len(q) : q[i].type = "state" => q[i] \in StateMessages
           /\ Events(q) \subseteq 1..Len(q) /\ States(q) \subseteq 1..Len(q)
<1>1. /\ DOMAIN q = 1..Len(q) /\ Len(q) \in Nat
      /\ \A i \in 1..Len(q) : q[i] \in Downs
  OBVIOUS
<1>2. ASSUME NEW m \in Downs
      PROVE  /\ m.type \in {"event", "state"} => m.seq \in Nat /\ m.store \in Nat
             /\ m.type = "event" => m \in EventMessages
             /\ m.type = "state" => m \in StateMessages
  BY DEF Downs, EventMessages, StateMessages, CallMessages, PlainMessages
<1>3. Events(q) \subseteq 1..Len(q) /\ States(q) \subseteq 1..Len(q)
  BY <1>1 DEF Events, States
<1> QED BY <1>1, <1>2, <1>3

\* Two streams joined.
LEMMA JoinedElements ==
    ASSUME NEW a \in Seq(Downs), NEW q \in Seq(Downs)
    PROVE  /\ a \o q \in Seq(Downs) /\ Len(a \o q) = Len(a) + Len(q)
           /\ \A i \in 1..Len(a) : (a \o q)[i] = a[i]
           /\ \A i \in 1..Len(q) : (a \o q)[Len(a) + i] = q[i]
           /\ <<>> \o q = q
<1>1. /\ a \o q \in Seq(Downs) /\ Len(a \o q) = Len(a) + Len(q)
      /\ \A i \in 1..(Len(a) + Len(q)) : (a \o q)[i] = IF i <= Len(a) THEN a[i] ELSE q[i - Len(a)]
  BY ConcatProperties
<1>2. <<>> \o q = q
  BY ConcatEmptySeq
<1>3. Len(a) \in Nat /\ Len(q) \in Nat
  OBVIOUS
<1>4. \A i \in 1..Len(a) : (a \o q)[i] = a[i]
  BY <1>1, <1>3
<1>5. ASSUME NEW i \in 1..Len(q)
      PROVE  (a \o q)[Len(a) + i] = q[i]
  <2>1. Len(a) + i \in 1..(Len(a) + Len(q)) /\ ~(Len(a) + i <= Len(a)) /\ (Len(a) + i) - Len(a) = i
    BY <1>3
  <2> QED BY <1>1, <2>1
<1> QED BY <1>1, <1>2, <1>4, <1>5

\* A longer stream.
LEMMA LongerElements ==
    ASSUME NEW q \in Seq(Downs), NEW m \in Downs
    PROVE  LET n == Append(q, m)
           IN  /\ n \in Seq(Downs) /\ Len(n) = Len(q) + 1
               /\ \A i \in 1..Len(q) : n[i] = q[i]
               /\ n[Len(q) + 1] = m
               /\ m.type = "event" => Events(n) = Events(q) \cup {Len(q) + 1}
               /\ m.type # "event" => Events(n) = Events(q)
               /\ m.type = "state" => States(n) = States(q) \cup {Len(q) + 1}
               /\ m.type # "state" => States(n) = States(q)
<1> DEFINE n == Append(q, m)
<1>1. /\ n \in Seq(Downs) /\ Len(n) = Len(q) + 1
      /\ \A i \in 1..Len(q) : n[i] = q[i]
      /\ n[Len(q) + 1] = m
  BY AppendProperties
<1>2. Len(q) \in Nat /\ DOMAIN q = 1..Len(q) /\ DOMAIN n = 1..(Len(q) + 1)
  BY <1>1
<1> HIDE DEF n
<1>3. \A i \in DOMAIN n : i \in DOMAIN q \/ i = Len(q) + 1
  BY <1>2
<1>4. DOMAIN q \subseteq DOMAIN n /\ Len(q) + 1 \in DOMAIN n /\ Len(q) + 1 \notin DOMAIN q
  BY <1>2
<1>5. \A i \in DOMAIN q : n[i] = q[i]
  BY <1>1, <1>2
<1>6. /\ m.type = "event" => Events(n) = Events(q) \cup {Len(q) + 1}
      /\ m.type # "event" => Events(n) = Events(q)
  BY <1>1, <1>3, <1>4, <1>5 DEF Events
<1>7. /\ m.type = "state" => States(n) = States(q) \cup {Len(q) + 1}
      /\ m.type # "state" => States(n) = States(q)
  BY <1>1, <1>3, <1>4, <1>5 DEF States
<1> QED BY <1>1, <1>6, <1>7 DEF n

\* A message put at the end of the second of two streams is at their end.
LEMMA JoinLonger ==
    ASSUME NEW a \in Seq(Downs), NEW q \in Seq(Downs), NEW m \in Downs
    PROVE  a \o Append(q, m) = Append(a \o q, m)
<1>1. /\ Append(q, m) \in Seq(Downs) /\ Len(Append(q, m)) = Len(q) + 1
      /\ Append(q, m)[Len(q) + 1] = m
      /\ \A i \in 1..Len(q) : Append(q, m)[i] = q[i]
  BY LongerElements
<1> DEFINE x == a \o Append(q, m)
           y == Append(a \o q, m)
<1>2. /\ x \in Seq(Downs) /\ Len(x) = Len(a) + (Len(q) + 1)
      /\ \A i \in 1..Len(a) : x[i] = a[i]
      /\ \A i \in 1..(Len(q) + 1) : x[Len(a) + i] = Append(q, m)[i]
  BY <1>1, JoinedElements
<1>3. /\ a \o q \in Seq(Downs) /\ Len(a \o q) = Len(a) + Len(q)
      /\ \A i \in 1..Len(a) : (a \o q)[i] = a[i]
      /\ \A i \in 1..Len(q) : (a \o q)[Len(a) + i] = q[i]
  BY JoinedElements
<1>4. /\ y \in Seq(Downs) /\ Len(y) = Len(a \o q) + 1
      /\ \A i \in 1..Len(a \o q) : y[i] = (a \o q)[i]
      /\ y[Len(a \o q) + 1] = m
  BY <1>3, LongerElements
<1>5. Len(a) \in Nat /\ Len(q) \in Nat
  OBVIOUS
<1> HIDE DEF x, y
<1>6. ASSUME NEW i \in 1..Len(x)
      PROVE  x[i] = y[i]
  <2>1. CASE i \in 1..Len(a)
    BY <1>2, <1>3, <1>4, <1>5, <2>1
  <2>2. CASE i \notin 1..Len(a)
    <3> DEFINE k == i - Len(a)
    <3>1. k \in 1..(Len(q) + 1) /\ i = Len(a) + k
      BY <1>2, <1>5, <2>2
    <3> HIDE DEF k
    <3>2. CASE k = Len(q) + 1
      BY <1>1, <1>2, <1>3, <1>4, <1>5, <3>1, <3>2
    <3>3. CASE k # Len(q) + 1
      <4>1. k \in 1..Len(q) /\ i \in 1..Len(a \o q)
        BY <1>3, <1>5, <3>1, <3>3
      <4> QED BY <1>1, <1>2, <1>3, <1>4, <3>1, <4>1
    <3> QED BY <3>2, <3>3
  <2> QED BY <2>1, <2>2
<1>7. Len(x) = Len(y)
  BY <1>2, <1>3, <1>4, <1>5
<1> QED BY <1>2, <1>4, <1>6, <1>7, SeqEqual DEF x, y

\* The first of a stream's messages put at the end of what came before it.
LEMMA JoinMoves ==
    ASSUME NEW a \in Seq(Downs), NEW q \in Seq(Downs), q # <<>>
    PROVE  Append(a, Head(q)) \o Tail(q) = a \o q
<1>1. /\ Head(q) \in Downs /\ Tail(q) \in Seq(Downs) /\ Head(q) = q[1]
      /\ Len(q) \in Nat \ {0} /\ Len(Tail(q)) = Len(q) - 1 /\ Len(a) \in Nat
      /\ \A i \in 1..(Len(q) - 1) : Tail(q)[i] = q[i + 1]
  BY HeadTailProperties
<1> DEFINE c == Append(a, Head(q))
           x == c \o Tail(q)
           y == a \o q
<1>2. /\ c \in Seq(Downs) /\ Len(c) = Len(a) + 1
      /\ \A i \in 1..Len(a) : c[i] = a[i]
      /\ c[Len(a) + 1] = q[1]
  BY <1>1, LongerElements
<1> HIDE DEF c
<1>3. /\ x \in Seq(Downs) /\ Len(x) = Len(c) + Len(Tail(q))
      /\ \A i \in 1..Len(c) : x[i] = c[i]
      /\ \A i \in 1..Len(Tail(q)) : x[Len(c) + i] = Tail(q)[i]
  BY <1>1, <1>2, JoinedElements
<1>4. /\ y \in Seq(Downs) /\ Len(y) = Len(a) + Len(q)
      /\ \A i \in 1..Len(a) : y[i] = a[i]
      /\ \A i \in 1..Len(q) : y[Len(a) + i] = q[i]
  BY JoinedElements
<1> HIDE DEF x, y
<1>5. ASSUME NEW i \in 1..Len(x)
      PROVE  x[i] = y[i]
  <2>1. CASE i \in 1..Len(a)
    BY <1>1, <1>2, <1>3, <1>4, <2>1
  <2>2. CASE i = Len(a) + 1
    BY <1>1, <1>2, <1>3, <1>4, <2>2
  <2>3. CASE i \notin 1..(Len(a) + 1)
    <3> DEFINE k == i - (Len(a) + 1)
    <3>1. /\ k \in 1..(Len(q) - 1) /\ i = Len(c) + k
          /\ k + 1 \in 1..Len(q) /\ i = Len(a) + (k + 1)
      BY <1>1, <1>2, <1>3, <2>3
    <3> HIDE DEF k
    <3>2. x[i] = q[k + 1]
      BY <1>1, <1>3, <3>1
    <3>3. y[i] = q[k + 1]
      BY <1>4, <3>1
    <3> QED BY <3>2, <3>3
  <2> QED BY <1>1, <2>1, <2>2, <2>3
<1>6. Len(x) = Len(y)
  BY <1>1, <1>2, <1>3, <1>4
<1> QED BY <1>3, <1>4, <1>5, <1>6, SeqEqual DEF x, y, c

-----------------------------------------------------------------------------
(* Streams without a gap stay so.                                          *)

\* What is without a gap after one event is so after a later one.
LEMMA LaterFollows ==
    ASSUME NEW q \in Seq(Downs), NEW n \in Nat, NEW k \in Nat, n <= k
    PROVE  /\ Follows(n, q) => Follows(k, q)
           /\ \A top \in Nat : Reaches(n, q, top) => Reaches(k, q, top)
<1>1. \A i \in Events(q) : q[i].seq \in Nat
  BY StreamElements DEF Events
<1>2. ASSUME NEW x \in Int PROVE (k + 1)..x \subseteq (n + 1)..x
  OBVIOUS
<1>3. \A i \in Events(q) : (k + 1)..(q[i].seq - 1) \subseteq (n + 1)..(q[i].seq - 1)
  BY <1>1
<1>4. Follows(n, q) => Follows(k, q)
  BY <1>3 DEF Follows
<1>5. \A top \in Nat : Reaches(n, q, top) => Reaches(k, q, top)
  BY <1>2 DEF Reaches
<1> QED BY <1>4, <1>5

\* The next event of a log is put at the end.
LEMMA NextFollows ==
    ASSUME NEW q \in Seq(Downs), NEW m \in EventMessages, NEW n \in Nat,
           Follows(n, q), Reaches(n, q, m.seq - 1)
    PROVE  Follows(n, Append(q, m)) /\ Reaches(n, Append(q, m), m.seq)
<1> DEFINE c == Append(q, m)
           z == Len(q) + 1
<1>1. m \in Downs /\ m.type = "event" /\ m.seq \in Nat
  BY DEF Downs, EventMessages
<1>2. /\ c \in Seq(Downs) /\ Events(c) = Events(q) \cup {z} /\ c[z] = m
      /\ \A i \in 1..Len(q) : c[i] = q[i]
  BY <1>1, LongerElements
<1>3. Events(q) \subseteq 1..Len(q) /\ Len(q) \in Nat
  BY StreamElements
<1>4. \A i \in Events(q) : c[i] = q[i] /\ i < z
  BY <1>2, <1>3
<1> HIDE DEF c, z
<1>5. Follows(n, c)
  <2> SUFFICES ASSUME NEW i \in Events(c), NEW x \in (n + 1)..(c[i].seq - 1)
               PROVE  \E j \in Events(c) : j < i /\ c[j].seq = x
    BY DEF Follows
  <2>1. CASE i \in Events(q)
    <3>1. PICK j \in Events(q) : j < i /\ q[j].seq = x
      BY <1>4, <2>1 DEF Follows
    <3> QED BY <1>2, <1>4, <3>1
  <2>2. CASE i = z
    <3>1. PICK j \in Events(q) : q[j].seq = x
      BY <1>2, <2>2 DEF Reaches
    <3> QED BY <1>2, <1>4, <2>2, <3>1
  <2> QED BY <1>2, <2>1, <2>2
<1>6. Reaches(n, c, m.seq)
  <2> SUFFICES ASSUME NEW x \in (n + 1)..m.seq
               PROVE  \E j \in Events(c) : c[j].seq = x
    BY DEF Reaches
  <2>1. CASE x = m.seq
    BY <1>2, <2>1
  <2>2. CASE x # m.seq
    <3>1. x \in (n + 1)..(m.seq - 1)
      BY <1>1, <2>2
    <3>2. PICK j \in Events(q) : q[j].seq = x
      BY <3>1 DEF Reaches
    <3> QED BY <1>2, <1>4, <3>2
  <2> QED BY <2>1, <2>2
<1> QED BY <1>5, <1>6 DEF c

\* Two streams with the same events at the same places.
LEMMA LikeFollows ==
    ASSUME NEW q, NEW c, Events(c) = Events(q), \A i \in Events(q) : c[i].seq = q[i].seq,
           NEW n
    PROVE  /\ Follows(n, q) => Follows(n, c)
           /\ \A top : Reaches(n, q, top) => Reaches(n, c, top)
<1>1. Follows(n, q) => Follows(n, c)
  BY DEF Follows
<1>2. \A top : Reaches(n, q, top) => Reaches(n, c, top)
  BY DEF Reaches
<1> QED BY <1>1, <1>2

\* Any other message is put at the end.
LEMMA OtherFollows ==
    ASSUME NEW q \in Seq(Downs), NEW m \in Downs, m.type # "event", NEW n
    PROVE  /\ Follows(n, q) => Follows(n, Append(q, m))
           /\ \A top : Reaches(n, q, top) => Reaches(n, Append(q, m), top)
<1>1. /\ Events(Append(q, m)) = Events(q)
      /\ \A i \in 1..Len(q) : Append(q, m)[i] = q[i]
  BY LongerElements
<1>2. \A i \in Events(q) : Append(q, m)[i].seq = q[i].seq
  BY <1>1, StreamElements
<1> QED BY <1>1, <1>2, LikeFollows

\* A stream is cut after p messages and ends.
LEMMA CutFollows ==
    ASSUME NEW q \in Seq(Downs), NEW p \in 0..Len(q), NEW c \in Seq(Downs),
           Len(c) = p + 1, \A i \in 1..p : c[i] = q[i], c[p + 1].type \notin {"event", "state"},
           NEW n, Follows(n, q)
    PROVE  Follows(n, c)
<1>1. Len(q) \in Nat /\ DOMAIN q = 1..Len(q) /\ DOMAIN c = 1..(p + 1)
  OBVIOUS
<1>2. ASSUME NEW i \in Events(c)
      PROVE  i \in 1..p /\ i \in Events(q) /\ c[i] = q[i]
  BY <1>1 DEF Events
<1>3. ASSUME NEW j \in Events(q), j <= p
      PROVE  j \in Events(c) /\ c[j] = q[j]
  BY <1>1, <1>3 DEF Events
<1> SUFFICES ASSUME NEW i \in Events(c), NEW x \in (n + 1)..(c[i].seq - 1)
             PROVE  \E j \in Events(c) : j < i /\ c[j].seq = x
  BY DEF Follows
<1>4. PICK j \in Events(q) : j < i /\ q[j].seq = x
  BY <1>2 DEF Follows
<1>5. j <= p
  BY <1>1, <1>2, <1>4 DEF Events
<1> QED BY <1>3, <1>4, <1>5

\* The beginning of a stream.
LEMMA PrefixFollows ==
    ASSUME NEW q \in Seq(Downs), NEW c \in Seq(Downs), Len(c) <= Len(q),
           \A i \in 1..Len(c) : c[i] = q[i],
           NEW n, Follows(n, q)
    PROVE  Follows(n, c)
<1>1. /\ Len(q) \in Nat /\ Len(c) \in Nat /\ DOMAIN q = 1..Len(q) /\ DOMAIN c = 1..Len(c)
  OBVIOUS
<1>2. ASSUME NEW i \in Events(c)
      PROVE  i \in 1..Len(c) /\ i \in Events(q) /\ c[i] = q[i]
  BY <1>1 DEF Events
<1>3. ASSUME NEW j \in Events(q), j <= Len(c)
      PROVE  j \in Events(c) /\ c[j] = q[j]
  BY <1>1, <1>3 DEF Events
<1> SUFFICES ASSUME NEW i \in Events(c), NEW x \in (n + 1)..(c[i].seq - 1)
             PROVE  \E j \in Events(c) : j < i /\ c[j].seq = x
  BY DEF Follows
<1>4. PICK j \in Events(q) : j < i /\ q[j].seq = x
  BY <1>2 DEF Follows
<1>5. j <= Len(c)
  BY <1>1, <1>2, <1>4 DEF Events
<1> QED BY <1>3, <1>4, <1>5

\* Stream c is q without its message p.
Without(q, p, c) ==
    /\ p \in DOMAIN q /\ Len(c) = Len(q) - 1
    /\ \A i \in 1..(p - 1) : c[i] = q[i]
    /\ \A i \in p..Len(c) : c[i] = q[i + 1]

\* The message taken is none of those that count.
LEMMA WithoutFollows ==
    ASSUME NEW q \in Seq(Downs), NEW p, NEW c \in Seq(Downs), Without(q, p, c), NEW n \in Nat,
           q[p].type = "event" => q[p].seq <= n
    PROVE  /\ Follows(n, q) => Follows(n, c)
           /\ \A top \in Nat : Reaches(n, q, top) => Reaches(n, c, top)
<1> DEFINE at(j) == IF j < p THEN j ELSE j - 1
<1>1. /\ Len(q) \in Nat /\ DOMAIN q = 1..Len(q) /\ DOMAIN c = 1..(Len(q) - 1) /\ p \in 1..Len(q)
      /\ Len(c) = Len(q) - 1
  BY DEF Without
<1>2. ASSUME NEW j \in Events(q), j # p
      PROVE  at(j) \in Events(c) /\ c[at(j)].seq = q[j].seq
  <2>1. CASE j < p
    BY <1>1, <2>1 DEF Events, Without
  <2>2. CASE j > p
    <3>1. j - 1 \in p..Len(c) /\ (j - 1) + 1 = j /\ j - 1 \in DOMAIN c
      BY <1>1, <2>2 DEF Events
    <3>2. c[j - 1] = q[j]
      BY <3>1 DEF Without
    <3>3. at(j) = j - 1
      BY <1>1, <2>2 DEF Events
    <3> QED BY <3>1, <3>2, <3>3 DEF Events
  <2> QED BY <1>1, <1>2, <2>1, <2>2 DEF Events
<1>3. ASSUME NEW i \in Events(c)
      PROVE  \E k \in Events(q) : /\ c[i].seq = q[k].seq /\ i \in Int /\ k \in Int
                                  /\ \A j \in Events(q) : j # p /\ j < k => at(j) < i
  <2>1. CASE i < p
    <3>1. i \in Events(q) /\ c[i] = q[i]
      BY <1>1, <2>1 DEF Events, Without
    <3> QED BY <1>1, <2>1, <3>1 DEF Events
  <2>2. CASE i >= p
    <3>1. i + 1 \in Events(q) /\ c[i] = q[i + 1]
      BY <1>1, <2>2 DEF Events, Without
    <3>2. \A j \in Events(q) : j # p /\ j < i + 1 => at(j) < i
      BY <1>1, <2>2 DEF Events
    <3> QED BY <1>1, <3>1, <3>2 DEF Events
  <2> QED BY <1>1, <2>1, <2>2 DEF Events
<1>4. \A i \in Events(q) : q[i].seq \in Nat
  BY StreamElements DEF Events
<1> HIDE DEF at
<1>5. ASSUME Follows(n, q)
      PROVE  Follows(n, c)
  <2> SUFFICES ASSUME NEW i \in Events(c), NEW x \in (n + 1)..(c[i].seq - 1)
               PROVE  \E j \in Events(c) : j < i /\ c[j].seq = x
    BY DEF Follows
  <2>1. PICK k \in Events(q) : /\ c[i].seq = q[k].seq /\ i \in Int /\ k \in Int
                               /\ \A j \in Events(q) : j # p /\ j < k => at(j) < i
    BY <1>3
  <2>2. PICK j \in Events(q) : j < k /\ q[j].seq = x
    BY <1>5, <2>1 DEF Follows
  <2>3. j # p
    BY <2>2 DEF Events
  <2> QED BY <1>2, <2>1, <2>2, <2>3
<1>6. ASSUME NEW top \in Nat, Reaches(n, q, top)
      PROVE  Reaches(n, c, top)
  <2> SUFFICES ASSUME NEW x \in (n + 1)..top
               PROVE  \E j \in Events(c) : c[j].seq = x
    BY DEF Reaches
  <2>1. PICK j \in Events(q) : q[j].seq = x
    BY <1>6 DEF Reaches
  <2>2. j # p
    BY <2>1 DEF Events
  <2> QED BY <1>2, <2>1, <2>2
<1> QED BY <1>5, <1>6

\* The events of the first part are behind: the second is without a gap.
LEMMA RestFollows ==
    ASSUME NEW a \in Seq(Downs), NEW q \in Seq(Downs), NEW n \in Nat, NEW k \in Nat, n <= k,
           \A i \in Events(a) : a[i].seq <= k
    PROVE  /\ Follows(n, a \o q) => Follows(k, q)
           /\ \A top \in Nat : Reaches(n, a \o q, top) => Reaches(k, q, top)
<1> DEFINE c == a \o q
<1>1. /\ c \in Seq(Downs) /\ Len(c) = Len(a) + Len(q) /\ Len(a) \in Nat /\ Len(q) \in Nat
      /\ DOMAIN c = 1..(Len(a) + Len(q)) /\ DOMAIN a = 1..Len(a) /\ DOMAIN q = 1..Len(q)
      /\ \A i \in 1..Len(a) : c[i] = a[i]
      /\ \A i \in 1..Len(q) : c[Len(a) + i] = q[i]
  BY JoinedElements
<1> HIDE DEF c
<1>2. ASSUME NEW i \in Events(q)
      PROVE  Len(a) + i \in Events(c) /\ c[Len(a) + i] = q[i] /\ i \in Nat
  BY <1>1 DEF Events
<1>3. ASSUME NEW j \in Events(c), c[j].seq > k
      PROVE  j - Len(a) \in Events(q) /\ q[j - Len(a)] = c[j] /\ j \in Nat
  <2>1. j \in 1..(Len(a) + Len(q)) /\ c[j].type = "event"
    BY <1>1 DEF Events
  <2>2. j \notin 1..Len(a)
    <3> SUFFICES ASSUME j \in 1..Len(a) PROVE FALSE
      OBVIOUS
    <3>1. c[j] = a[j] /\ j \in Events(a)
      BY <1>1, <2>1 DEF Events
    <3>2. a[j].seq \in Nat
      <4>1. j \in 1..Len(a) /\ a[j].type = "event"
        BY <3>1, StreamElements DEF Events
      <4> QED BY <4>1, StreamElements
    <3> QED BY <1>3, <3>1, <3>2
  <2>3. j - Len(a) \in 1..Len(q) /\ Len(a) + (j - Len(a)) = j
    BY <1>1, <2>1, <2>2
  <2>4. q[j - Len(a)] = c[j]
    BY <1>1, <2>3
  <2> QED BY <1>1, <2>1, <2>3, <2>4 DEF Events
<1>4. ASSUME Follows(n, c)
      PROVE  Follows(k, q)
  <2> SUFFICES ASSUME NEW i \in Events(q), NEW x \in (k + 1)..(q[i].seq - 1)
               PROVE  \E j \in Events(q) : j < i /\ q[j].seq = x
    BY DEF Follows
  <2>1. q[i].seq \in Nat /\ x \in Int /\ x > k
    BY StreamElements DEF Events
  <2>2. x \in (n + 1)..(c[Len(a) + i].seq - 1)
    BY <1>2, <2>1
  <2>3. PICK j \in Events(c) : j < Len(a) + i /\ c[j].seq = x
    BY <1>2, <1>4, <2>2 DEF Follows
  <2>4. j - Len(a) \in Events(q) /\ q[j - Len(a)] = c[j] /\ j \in Nat
    BY <1>3, <2>1, <2>3
  <2>5. j - Len(a) < i
    BY <1>1, <1>2, <2>3, <2>4
  <2> QED BY <2>3, <2>4, <2>5
<1>5. ASSUME NEW top \in Nat, Reaches(n, c, top)
      PROVE  Reaches(k, q, top)
  <2> SUFFICES ASSUME NEW x \in (k + 1)..top
               PROVE  \E j \in Events(q) : q[j].seq = x
    BY DEF Reaches
  <2>1. x \in (n + 1)..top /\ x > k
    OBVIOUS
  <2>2. PICK j \in Events(c) : c[j].seq = x
    BY <1>5, <2>1 DEF Reaches
  <2> QED BY <1>3, <2>1, <2>2
<1> QED BY <1>4, <1>5 DEF c

-----------------------------------------------------------------------------
(* What a step on a socket leaves of its stream.                           *)

\* The messages of a socket behind those that the bridge holds.
Joined(s, down) == IF s = bridge.socket THEN bridge.buffered \o down ELSE down

\* The bridge neither applies nor takes a message, and changes no socket.
BridgeKeeps ==
    /\ SameFollowing(bridge, bridge') /\ view' = view
    /\ bridge'.state \in {"synchronizing", "connected"} => bridge'.state = bridge.state

StoresGrow ==
    /\ DOMAIN stores \subseteq DOMAIN stores'
    /\ \A d \in DOMAIN stores : stores[d] <= stores'[d]

\* The events that the bridge holds are messages.
LEMMA BufferedTyped ==
    ASSUME Typed
    PROVE  /\ bridge.buffered \in Seq(Downs)
           /\ \A i \in DOMAIN bridge.buffered : bridge.buffered[i].type = "event"
           /\ \A s \in Sockets : link[s] \in Links /\ link[s].down \in Seq(Downs)
                                 /\ link[s].up \in Seq(Ups)
<1>1. bridge.buffered \in Seq(EventMessages) /\ EventMessages \subseteq Downs
  BY DEF Typed, Bridges, Downs
<1>2. \A i \in DOMAIN bridge.buffered : bridge.buffered[i] \in EventMessages
  BY <1>1
<1>3. bridge.buffered \in Seq(Downs)
  BY <1>1, SeqMonotonic
<1>4. \A m \in EventMessages : m.type = "event"
  BY DEF EventMessages
<1>5. \A s \in Sockets : link[s] \in Links
  BY DEF Typed
<1>6. \A l \in Links : l.down \in Seq(Downs) /\ l.up \in Seq(Ups)
  BY DEF Links
<1> QED BY <1>2, <1>3, <1>4, <1>5, <1>6

\* The stream of a socket to which messages are joined.
LEMMA JoinedTyped ==
    ASSUME Typed, NEW s, NEW q \in Seq(Downs)
    PROVE  /\ Joined(s, q) \in Seq(Downs)
           /\ \A m \in Downs : Joined(s, Append(q, m)) = Append(Joined(s, q), m)
BY BufferedTyped, JoinedElements, JoinLonger DEF Joined

\* The stream is what is joined to the bridge's events.
LEMMA StreamIsJoined ==
    ASSUME Typed, NEW s \in Sockets
    PROVE  Stream(s) = Joined(s, link[s].down) /\ Stream(s) \in Seq(Downs)
BY BufferedTyped, JoinedTyped DEF Stream, Joined

\* So it is after a step in which the bridge keeps what it follows.
LEMMA StreamKept ==
    ASSUME Typed, BridgeKeeps, NEW s \in Sockets
    PROVE  Stream(s)' = Joined(s, link'[s].down)
BY DEF Stream, Joined, BridgeKeeps, SameFollowing

\* So is the stream with a message more.
LEMMA StreamLonger ==
    ASSUME Typed, BridgeKeeps, NEW s \in Sockets, NEW m \in Downs,
           link'[s].down = Append(link[s].down, m)
    PROVE  Stream(s) \in Seq(Downs) /\ Stream(s)' = Append(Stream(s), m)
<1> DEFINE q == link[s].down
<1>1. q \in Seq(Downs)
  BY BufferedTyped
<1>2. Stream(s) = Joined(s, q) /\ Stream(s) \in Seq(Downs)
  BY StreamIsJoined
<1>3. Stream(s)' = Joined(s, Append(q, m))
  BY StreamKept
<1> HIDE DEF q
<1>4. Joined(s, Append(q, m)) = Append(Joined(s, q), m)
  BY <1>1, JoinedTyped
<1> QED BY <1>2, <1>3, <1>4

Snapped(s) == {link[s].down[k].seq : k \in States(link[s].down)}

\* The events after which the bridge goes on are numbers.
LEMMA BasesTyped ==
    ASSUME Typed, Shown, NEW s \in Sockets
    PROVE  Bases(s) \subseteq Nat /\ Snapped(s) \subseteq Bases(s)
<1>1. \A k \in States(link[s].down) : link[s].down[k].seq \in Nat
  BY BufferedTyped, StreamElements DEF States
<1>2. bridge.answer # None => bridge.answer.seq \in Nat
  BY DEF Typed, Bridges, StateMessages
<1>3. bridge.state = "connected" => bridge.lastSeq \in Nat
  <2>1. Len(view.events) \in Nat
    BY DEF Typed, Views
  <2> QED BY <2>1 DEF Shown
<1> QED BY <1>1, <1>2, <1>3 DEF Bases, Snapped

\* What remains to be shown of a socket when the bridge keeps what it follows.
LEMMA CarriesAll ==
    ASSUME BridgeKeeps, StoresGrow, Typed, Typed', NEW s \in Sockets, NEW d \in DOMAIN stores,
           Carries(s, d),
           s \in daemon'.clients => d = Store',
           \A i \in DOMAIN Stream(s)' : Stream(s)'[i].type \in {"event", "state"} =>
              Stream(s)'[i].store = d /\ Stream(s)'[i].seq <= stores'[d],
           \A n \in Bases(s)' : /\ Follows(n, Stream(s)')
                                /\ Fed(s)' => Reaches(n, Stream(s)', stores'[d])
    PROVE  Carries(s, d)'
<1>1. bridge'.socket = bridge.socket /\ bridge'.answer = bridge.answer /\ bridge'.lastSeq = bridge.lastSeq
      /\ view' = view /\ (bridge'.state = "connected" => bridge.state = "connected")
  BY DEF BridgeKeeps, SameFollowing
<1>2. stores[d] \in Nat /\ stores'[d] \in Nat /\ stores[d] <= stores'[d]
  BY DEF Typed, StoresGrow
<1>3. s = bridge'.socket /\ bridge'.answer # None =>
         bridge'.answer.store = d /\ bridge'.answer.seq <= stores'[d]
  <2> SUFFICES ASSUME s = bridge'.socket, bridge'.answer # None
               PROVE  bridge'.answer.store = d /\ bridge'.answer.seq <= stores'[d]
    OBVIOUS
  <2>1. bridge.answer.store = d /\ bridge.answer.seq <= stores[d]
    BY <1>1 DEF Carries
  <2>2. bridge.answer.seq \in Nat
    BY <1>1 DEF Typed, Bridges, StateMessages
  <2> QED BY <1>1, <1>2, <2>1, <2>2
<1>4. s = bridge'.socket /\ bridge'.state = "connected" => view'.store = d
  BY <1>1 DEF Carries
<1> QED BY <1>3, <1>4 DEF Carries

\* The same where no snapshot is sent.
LEMMA CarriesKept ==
    ASSUME BridgeKeeps, StoresGrow, Typed, Typed', NEW s \in Sockets, NEW d \in DOMAIN stores,
           Carries(s, d),
           s \in daemon'.clients => d = Store',
           Snapped(s)' \subseteq Snapped(s),
           \A i \in DOMAIN Stream(s)' : Stream(s)'[i].type \in {"event", "state"} =>
              Stream(s)'[i].store = d /\ Stream(s)'[i].seq <= stores'[d],
           \A n \in Bases(s) : /\ Follows(n, Stream(s)')
                               /\ Fed(s)' => Reaches(n, Stream(s)', stores'[d])
    PROVE  Carries(s, d)'
<1>1. bridge'.socket = bridge.socket /\ bridge'.answer = bridge.answer /\ bridge'.lastSeq = bridge.lastSeq
      /\ (bridge'.state = "connected" => bridge.state = "connected")
  BY DEF BridgeKeeps, SameFollowing
<1>2. Bases(s)' \subseteq Bases(s)
  BY <1>1 DEF Bases, Snapped
<1> QED BY <1>2, CarriesAll

\* Each message in the stream of a socket is in the log it carries.
LEMMA CarriedBounds ==
    ASSUME Typed, StoresGrow, Typed', NEW s \in Sockets, NEW d \in DOMAIN stores, Carries(s, d)
    PROVE  \A i \in DOMAIN Stream(s) : Stream(s)[i].type \in {"event", "state"} =>
              Stream(s)[i].store = d /\ Stream(s)[i].seq <= stores'[d]
<1>1. stores[d] \in Nat /\ stores'[d] \in Nat /\ stores[d] <= stores'[d]
  BY DEF Typed, StoresGrow
<1>2. \A i \in DOMAIN Stream(s) : Stream(s)[i].type \in {"event", "state"} => Stream(s)[i].seq \in Nat
  BY StreamIsJoined, StreamElements
<1> QED BY <1>1, <1>2 DEF Carries

\* A socket on which nothing happens.
LEMMA QuietCarries ==
    ASSUME BridgeKeeps, StoresGrow, Typed, Typed', NEW s \in Sockets, NEW d \in DOMAIN stores,
           Carries(s, d),
           link'[s].down = link[s].down,
           s \in daemon'.clients => d = Store',
           Fed(s)' => Fed(s) /\ stores'[d] = stores[d]
    PROVE  Carries(s, d)'
<1>1. Stream(s)' = Stream(s)
  BY StreamKept, StreamIsJoined
<1>2. Snapped(s)' = Snapped(s)
  BY DEF Snapped
<1>3. \A n \in Bases(s) : /\ Follows(n, Stream(s)')
                          /\ Fed(s)' => Reaches(n, Stream(s)', stores'[d])
  BY <1>1 DEF Carries
<1>4. \A i \in DOMAIN Stream(s)' : Stream(s)'[i].type \in {"event", "state"} =>
              Stream(s)'[i].store = d /\ Stream(s)'[i].seq <= stores'[d]
  BY <1>1, CarriedBounds
<1> QED BY <1>2, <1>3, <1>4, CarriesKept

\* A socket to which the new event of its log is sent.
LEMMA PublishedCarries ==
    ASSUME BridgeKeeps, StoresGrow, Typed, Typed', Shown, NEW s \in Sockets, NEW d \in DOMAIN stores,
           Carries(s, d), Fed(s), Store' = Store, stores'[d] = stores[d] + 1,
           link'[s].down = Append(link[s].down, Event(d, stores[d] + 1))
    PROVE  Carries(s, d)'
<1> DEFINE m == Event(d, stores[d] + 1)
           q == Stream(s)
<1>1. stores[d] \in Nat /\ d \in Nat
  BY DEF Typed
<1>2. m \in EventMessages /\ m \in Downs /\ m.type = "event" /\ m.store = d /\ m.seq = stores[d] + 1
  BY <1>1, MessagesTyped DEF Event, Downs
<1> HIDE DEF m
<1>3. q \in Seq(Downs) /\ Stream(s)' = Append(q, m)
  BY <1>2, StreamLonger DEF m
<1>4. Snapped(s)' = Snapped(s)
  <2>1. /\ States(link'[s].down) = States(link[s].down)
        /\ \A i \in 1..Len(link[s].down) : link'[s].down[i] = link[s].down[i]
    BY <1>2, BufferedTyped, LongerElements DEF m
  <2>2. States(link[s].down) \subseteq 1..Len(link[s].down)
    BY BufferedTyped, StreamElements
  <2> QED BY <2>1, <2>2 DEF Snapped
<1>5. ASSUME NEW n \in Bases(s)
      PROVE  Follows(n, Append(q, m)) /\ Reaches(n, Append(q, m), stores'[d])
  <2>1. n \in Nat /\ Follows(n, q) /\ Reaches(n, q, stores[d])
    BY BasesTyped DEF Carries
  <2>2. m.seq - 1 = stores[d]
    BY <1>1, <1>2
  <2> HIDE DEF q
  <2> QED BY <1>2, <1>3, <2>1, <2>2, NextFollows
<1>6. \A i \in DOMAIN Append(q, m) : Append(q, m)[i].type \in {"event", "state"} =>
              Append(q, m)[i].store = d /\ Append(q, m)[i].seq <= stores'[d]
  <2>1. \A i \in DOMAIN q : q[i].type \in {"event", "state"} => q[i].store = d /\ q[i].seq <= stores'[d]
    BY CarriedBounds
  <2>2. m.store = d /\ m.seq <= stores'[d]
    BY <1>1, <1>2
  <2>3. /\ DOMAIN Append(q, m) = 1..(Len(q) + 1) /\ Len(q) \in Nat /\ DOMAIN q = 1..Len(q)
        /\ Append(q, m)[Len(q) + 1] = m
        /\ \A i \in 1..Len(q) : Append(q, m)[i] = q[i]
    BY <1>2, <1>3, LongerElements
  <2> HIDE DEF q
  <2> QED BY <2>1, <2>2, <2>3
<1>7. s \in daemon'.clients => d = Store'
  BY DEF Carries, Fed
<1> QED BY <1>3, <1>4, <1>5, <1>6, <1>7, CarriesKept

\* A socket on which a request is answered.
LEMMA RepliedCarries ==
    ASSUME BridgeKeeps, Typed, Typed', Shown, stores' = stores, daemon' = daemon,
           NEW s \in Sockets, NEW d \in DOMAIN stores,
           Carries(s, d), link'[s].ready = link[s].ready,
           NEW m \in Downs, m.type \notin {"event", "state"},
           link'[s].down = Append(link[s].down, m)
    PROVE  Carries(s, d)'
<1> DEFINE q == Stream(s)
<1>1. q \in Seq(Downs) /\ Stream(s)' = Append(q, m)
  BY StreamLonger
<1>2. Snapped(s)' = Snapped(s)
  <2>1. /\ States(link'[s].down) = States(link[s].down)
        /\ \A i \in 1..Len(link[s].down) : link'[s].down[i] = link[s].down[i]
    BY BufferedTyped, LongerElements
  <2>2. States(link[s].down) \subseteq 1..Len(link[s].down)
    BY BufferedTyped, StreamElements
  <2> QED BY <2>1, <2>2 DEF Snapped
<1>3. Fed(s)' = Fed(s)
  BY DEF Fed
<1>4. ASSUME NEW n \in Bases(s)
      PROVE  Follows(n, Append(q, m)) /\ (Fed(s)' => Reaches(n, Append(q, m), stores'[d]))
  BY <1>1, <1>3, OtherFollows DEF Carries
<1>5. \A i \in DOMAIN Append(q, m) : Append(q, m)[i].type \in {"event", "state"} =>
              Append(q, m)[i].store = d /\ Append(q, m)[i].seq <= stores'[d]
  <2>1. \A i \in DOMAIN q : q[i].type \in {"event", "state"} => q[i].store = d /\ q[i].seq <= stores'[d]
    BY DEF Carries
  <2>2. /\ DOMAIN Append(q, m) = 1..(Len(q) + 1) /\ Len(q) \in Nat /\ DOMAIN q = 1..Len(q)
        /\ Append(q, m)[Len(q) + 1] = m
        /\ \A i \in 1..Len(q) : Append(q, m)[i] = q[i]
    BY <1>1, LongerElements
  <2> HIDE DEF q
  <2> QED BY <2>1, <2>2
<1>6. (s \in daemon'.clients => d = Store') /\ StoresGrow
  <2>1. stores[d] \in Nat /\ \A x \in DOMAIN stores : stores[x] <= stores[x]
    BY DEF Typed
  <2> QED BY <2>1 DEF Carries, StoresGrow, Store
<1> QED BY <1>1, <1>2, <1>4, <1>5, <1>6, CarriesKept

\* A socket on which the snapshot is sent.
LEMMA SnapshotCarries ==
    ASSUME BridgeKeeps, Typed, Typed', Shown, stores' = stores, daemon' = daemon,
           NEW s \in Sockets, NEW d \in DOMAIN stores,
           Carries(s, d), link'[s].ready = link[s].ready,
           NEW m \in StateMessages, m.store = d, m.seq = stores[d],
           link'[s].down = Append(link[s].down, m)
    PROVE  Carries(s, d)'
<1> DEFINE q == Stream(s)
           c == Stream(s)'
<1>1. m \in Downs /\ m.type = "state"
  BY DEF Downs, StateMessages
<1>2. q \in Seq(Downs) /\ c = Append(q, m)
  BY <1>1, StreamLonger
<1>3. Snapped(s)' \subseteq Snapped(s) \cup {stores[d]}
  <2>1. /\ States(link'[s].down) = States(link[s].down) \cup {Len(link[s].down) + 1}
        /\ \A i \in 1..Len(link[s].down) : link'[s].down[i] = link[s].down[i]
        /\ link'[s].down[Len(link[s].down) + 1] = m
    BY <1>1, BufferedTyped, LongerElements
  <2>2. States(link[s].down) \subseteq 1..Len(link[s].down)
    BY BufferedTyped, StreamElements
  <2> QED BY <2>1, <2>2 DEF Snapped
<1>4. Fed(s)' = Fed(s)
  BY DEF Fed
<1>5. \A i \in DOMAIN c : c[i].type \in {"event", "state"} => c[i].store = d /\ c[i].seq <= stores'[d]
  <2>1. \A i \in DOMAIN q : q[i].type \in {"event", "state"} => q[i].store = d /\ q[i].seq <= stores'[d]
    BY DEF Carries
  <2>2. /\ DOMAIN c = 1..(Len(q) + 1) /\ Len(q) \in Nat /\ DOMAIN q = 1..Len(q)
        /\ c[Len(q) + 1] = m
        /\ \A i \in 1..Len(q) : c[i] = q[i]
    BY <1>1, <1>2, LongerElements
  <2>3. m.seq <= stores'[d]
    BY DEF Typed
  <2> HIDE DEF q, c
  <2> QED BY <2>1, <2>2, <2>3
<1>6. ASSUME NEW n \in Bases(s)
      PROVE  Follows(n, c) /\ (Fed(s)' => Reaches(n, c, stores'[d]))
  BY <1>1, <1>2, <1>4, OtherFollows DEF Carries
<1>7. Follows(stores[d], c) /\ Reaches(stores[d], c, stores'[d])
  <2>1. c \in Seq(Downs) /\ stores[d] \in Nat
    BY <1>1, <1>2, LongerElements DEF Typed
  <2>2. \A i \in Events(c) : c[i].seq \in Nat /\ c[i].seq <= stores[d]
    <3> TAKE i \in Events(c)
    <3>1. i \in 1..Len(c) /\ i \in DOMAIN c /\ c[i].type = "event"
      BY <2>1, StreamElements DEF Events
    <3> QED BY <1>5, <2>1, <3>1, StreamElements
  <2> HIDE DEF c
  <2>3. \A i \in Events(c) : (stores[d] + 1)..(c[i].seq - 1) = {}
    BY <2>1, <2>2
  <2>4. (stores[d] + 1)..stores[d] = {}
    BY <2>1
  <2> QED BY <2>3, <2>4 DEF Follows, Reaches
<1>8. (s \in daemon'.clients => d = Store') /\ StoresGrow
  <2>1. stores[d] \in Nat /\ \A x \in DOMAIN stores : stores[x] <= stores[x]
    BY DEF Typed
  <2> QED BY <2>1 DEF Carries, StoresGrow, Store
<1>9. Bases(s)' \subseteq Bases(s) \cup {stores[d]}
  <2>1. bridge'.socket = bridge.socket /\ bridge'.answer = bridge.answer
        /\ bridge'.lastSeq = bridge.lastSeq /\ (bridge'.state = "connected" => bridge.state = "connected")
    BY DEF BridgeKeeps, SameFollowing
  <2> QED BY <1>3, <2>1 DEF Bases, Snapped
<1>10. \A n \in Bases(s)' : Follows(n, c) /\ (Fed(s)' => Reaches(n, c, stores'[d]))
  BY <1>6, <1>7, <1>9
<1> QED BY <1>5, <1>8, <1>10, CarriesAll


\* A socket that the bridge does not follow and that carries no event.
LEMMA BareCarries ==
    ASSUME NEW s, NEW d, s # bridge'.socket, s \in daemon'.clients => d = Store',
           \A i \in DOMAIN link'[s].down : link'[s].down[i].type \notin {"event", "state"}
    PROVE  Carries(s, d)'
<1>1. Stream(s)' = link'[s].down /\ States(link'[s].down) = {}
  BY DEF Stream, States
<1>2. Bases(s)' = {}
  BY <1>1 DEF Bases
<1> QED BY <1>1, <1>2 DEF Carries

\* A socket that the bridge does not follow, before and after the step.
LEMMA AsideCarries ==
    ASSUME NEW s, NEW d, Carries(s, d), s # bridge.socket, s # bridge'.socket,
           link'[s] = link[s], stores' = stores, daemon' = daemon
    PROVE  Carries(s, d)'
<1>1. Stream(s)' = Stream(s) /\ Bases(s)' = Bases(s) /\ Fed(s)' = Fed(s)
  BY DEF Stream, Bases, Fed
<1> QED BY <1>1 DEF Carries, Store

\* The second of two streams is cut after k messages.
LEMMA JoinedCut ==
    ASSUME NEW a \in Seq(Downs), NEW q \in Seq(Downs), NEW k \in 0..Len(q),
           NEW c \in Seq(Downs), Len(c) = k + 1, \A i \in 1..k : c[i] = q[i]
    PROVE  /\ Len(a) + k \in 0..Len(a \o q)
           /\ a \o c \in Seq(Downs) /\ Len(a \o c) = (Len(a) + k) + 1
           /\ \A i \in 1..(Len(a) + k) : (a \o c)[i] = (a \o q)[i]
           /\ (a \o c)[(Len(a) + k) + 1] = c[k + 1]
<1> DEFINE x == a \o q
           y == a \o c
<1>1. /\ Len(x) = Len(a) + Len(q) /\ Len(a) \in Nat /\ Len(q) \in Nat
      /\ \A i \in 1..Len(a) : x[i] = a[i]
      /\ \A i \in 1..Len(q) : x[Len(a) + i] = q[i]
  BY JoinedElements
<1>6. /\ y \in Seq(Downs) /\ Len(y) = Len(a) + Len(c)
      /\ \A i \in 1..Len(a) : y[i] = a[i]
      /\ \A i \in 1..Len(c) : y[Len(a) + i] = c[i]
  BY JoinedElements
<1> HIDE DEF x, y
<1>2. /\ y \in Seq(Downs) /\ Len(y) = Len(a) + (k + 1)
      /\ \A i \in 1..Len(a) : y[i] = a[i]
      /\ \A i \in 1..(k + 1) : y[Len(a) + i] = c[i]
  BY <1>6
<1>3. ASSUME NEW i \in 1..(Len(a) + k)
      PROVE  y[i] = x[i]
  <2>1. CASE i \in 1..Len(a)
    BY <1>1, <1>2, <2>1
  <2>2. CASE i \notin 1..Len(a)
    <3> DEFINE j == i - Len(a)
    <3>1. j \in 1..k /\ j \in 1..Len(q) /\ j \in 1..(k + 1) /\ i = Len(a) + j
      BY <1>1, <2>2
    <3> HIDE DEF j
    <3> QED BY <1>1, <1>2, <3>1
  <2> QED BY <2>1, <2>2
<1>4. y[(Len(a) + k) + 1] = c[k + 1]
  <2>1. k + 1 \in 1..(k + 1) /\ Len(a) + (k + 1) = (Len(a) + k) + 1
    BY <1>1
  <2> QED BY <1>2, <2>1
<1>5. Len(a) + k \in 0..Len(x) /\ Len(y) = (Len(a) + k) + 1
  BY <1>1, <1>2
<1> QED BY <1>2, <1>3, <1>4, <1>5 DEF x, y

\* A socket whose stream ends after k messages.
LEMMA CutCarries ==
    ASSUME BridgeKeeps, Typed, Typed', stores' = stores,
           NEW s \in Sockets, NEW d \in DOMAIN stores, Carries(s, d), s \notin daemon'.clients,
           NEW k \in 0..Len(link[s].down), link'[s] = Cut(link[s], k)
    PROVE  Carries(s, d)'
<1>1. link[s] \in Links /\ link[s].down \in Seq(Downs) /\ bridge.buffered \in Seq(Downs)
  BY BufferedTyped
<1>2. StoresGrow /\ stores[d] \in Nat
  <2>1. \A x \in DOMAIN stores : stores[x] <= stores[x]
    BY DEF Typed
  <2> QED BY <2>1 DEF StoresGrow, Typed
<1>3. ~Fed(s)'
  BY DEF Fed
<1>4. CASE link[s].ready \notin {"connecting", "open"}
  <2>1. link'[s].down = link[s].down
    BY <1>1, <1>4, CutTyped
  <2> QED BY <1>2, <1>3, <2>1, QuietCarries
<1>5. CASE link[s].ready \in {"connecting", "open"}
  <2> DEFINE q == link[s].down
             c == link'[s].down
             p == IF s = bridge.socket THEN Len(bridge.buffered) + k ELSE k
             x == Stream(s)
             y == Stream(s)'
  <2>1. /\ c \in Seq(Downs) /\ Len(c) = k + 1
        /\ \A i \in 1..k : c[i] = q[i]
        /\ c[k + 1] = Plain("end")
    BY <1>1, <1>5, CutTyped DEF Links
  <2>2. Plain("end").type = "end"
    BY DEF Plain
  <2>3. x = Joined(s, q) /\ y = Joined(s, c) /\ x \in Seq(Downs)
    BY StreamIsJoined, StreamKept
  <2>4. /\ p \in 0..Len(x) /\ y \in Seq(Downs) /\ Len(y) = p + 1
        /\ \A i \in 1..p : y[i] = x[i]
        /\ y[p + 1] = Plain("end")
    <3> HIDE DEF q, c, x, y
    <3>1. CASE s = bridge.socket
      <4>1. x = bridge.buffered \o q /\ y = bridge.buffered \o c
        BY <2>3, <3>1 DEF Joined
      <4>2. q \in Seq(Downs) /\ k \in 0..Len(q)
        BY <1>1 DEF q
      <4> DEFINE a == bridge.buffered
      <4>3. /\ Len(a) + k \in 0..Len(a \o q)
            /\ a \o c \in Seq(Downs) /\ Len(a \o c) = (Len(a) + k) + 1
            /\ \A i \in 1..(Len(a) + k) : (a \o c)[i] = (a \o q)[i]
            /\ (a \o c)[(Len(a) + k) + 1] = c[k + 1]
        <5>1. a \in Seq(Downs)
          BY <1>1
        <5> HIDE DEF a
        <5> QED BY <2>1, <4>2, <5>1, JoinedCut
      <4>4. p = Len(a) + k
        BY <3>1
      <4> HIDE DEF p
      <4> QED BY <2>1, <4>1, <4>3, <4>4
    <3>2. CASE s # bridge.socket
      <4>1. x = q /\ y = c
        BY <2>3, <3>2 DEF Joined
      <4> QED BY <2>1, <3>2, <4>1 DEF q
    <3> QED BY <3>1, <3>2
  <2>5. Snapped(s)' \subseteq Snapped(s)
    <3>1. /\ DOMAIN c = 1..(k + 1) /\ DOMAIN q = 1..Len(q) /\ Len(q) \in Nat
      BY <1>1, <2>1
    <3>2. \A i \in States(c) : i \in States(q) /\ c[i] = q[i]
      BY <2>1, <2>2, <3>1 DEF States
    <3> QED BY <3>2 DEF Snapped
  <2>6. \A i \in DOMAIN y : y[i].type \in {"event", "state"} => y[i].store = d /\ y[i].seq <= stores'[d]
    <3>1. \A i \in DOMAIN x : x[i].type \in {"event", "state"} => x[i].store = d /\ x[i].seq <= stores'[d]
      BY DEF Carries
    <3>2. DOMAIN x = 1..Len(x) /\ DOMAIN y = 1..(p + 1) /\ Len(x) \in Nat
      BY <2>3, <2>4
    <3> HIDE DEF x, y, p
    <3> QED BY <2>2, <2>4, <3>1, <3>2
  <2>7. \A n \in Bases(s) : Follows(n, y)
    <3>1. \A n \in Bases(s) : Follows(n, x)
      BY DEF Carries
    <3>2. y[p + 1].type \notin {"event", "state"}
      BY <2>2, <2>4
    <3> HIDE DEF x, y, p
    <3> QED BY <2>3, <2>4, <3>1, <3>2, CutFollows
  <2> QED BY <1>2, <1>3, <2>5, <2>6, <2>7, CarriesKept
<1> QED BY <1>4, <1>5

\* A socket that delivers nothing more.
LEMMA GoneCarries ==
    ASSUME BridgeKeeps, Typed, Typed', stores' = stores, daemon' = daemon,
           NEW s \in Sockets, NEW d \in DOMAIN stores, Carries(s, d),
           link'[s].down = <<>>, link'[s].ready \notin {"connecting", "open"}
    PROVE  Carries(s, d)'
<1> DEFINE x == Stream(s)
           y == Stream(s)'
<1>1. link[s].down \in Seq(Downs) /\ bridge.buffered \in Seq(Downs)
  BY BufferedTyped
<1>2. StoresGrow
  <2>1. \A i \in DOMAIN stores : stores[i] <= stores[i]
    BY DEF Typed
  <2> QED BY <2>1 DEF StoresGrow
<1>3. ~Fed(s)' /\ (s \in daemon'.clients => d = Store') /\ Snapped(s)' = {}
  BY DEF Fed, Snapped, States, Carries, Store
<1>4. /\ x \in Seq(Downs) /\ y \in Seq(Downs) /\ Len(y) <= Len(x)
      /\ \A i \in 1..Len(y) : y[i] = x[i]
  <2>1. x = Joined(s, link[s].down) /\ y = Joined(s, <<>>) /\ x \in Seq(Downs)
    BY StreamIsJoined, StreamKept
  <2>2. CASE s = bridge.socket
    <3> DEFINE a == bridge.buffered
               q == link[s].down
    <3>1. y = a \o <<>> /\ x = a \o q /\ a \in Seq(Downs) /\ q \in Seq(Downs)
      BY <1>1, <2>1, <2>2 DEF Joined
    <3> HIDE DEF x, y, a, q
    <3>2. y = a
      BY <3>1, ConcatEmptySeq
    <3>3. /\ Len(x) = Len(a) + Len(q) /\ Len(a) \in Nat /\ Len(q) \in Nat
          /\ \A i \in 1..Len(a) : x[i] = a[i]
      BY <3>1, JoinedElements
    <3> QED BY <2>1, <3>1, <3>2, <3>3
  <2>3. CASE s # bridge.socket
    <3>1. y = <<>>
      BY <2>1, <2>3 DEF Joined
    <3> HIDE DEF x, y
    <3>2. <<>> \in Seq(Downs) /\ Len(<<>>) = 0
      BY EmptySeq
    <3>3. y \in Seq(Downs) /\ Len(y) = 0
      BY <3>1, <3>2, Zenon
    <3>4. Len(x) \in Nat
      BY <2>1
    <3> QED BY <2>1, <3>3, <3>4
  <2> QED BY <2>2, <2>3
<1>5. \A i \in DOMAIN y : y[i].type \in {"event", "state"} => y[i].store = d /\ y[i].seq <= stores'[d]
  <2>1. \A i \in DOMAIN x : x[i].type \in {"event", "state"} => x[i].store = d /\ x[i].seq <= stores'[d]
    BY DEF Carries
  <2> HIDE DEF x, y
  <2>2. DOMAIN x = 1..Len(x) /\ DOMAIN y = 1..Len(y) /\ Len(x) \in Nat /\ Len(y) \in Nat
    BY <1>4
  <2> QED BY <1>4, <2>1, <2>2
<1>6. \A n \in Bases(s) : Follows(n, y)
  <2>1. \A n \in Bases(s) : Follows(n, x)
    BY DEF Carries
  <2> HIDE DEF x, y
  <2> QED BY <1>4, <2>1, PrefixFollows
<1> QED BY <1>2, <1>3, <1>5, <1>6, CarriesKept

\* A socket on which late answers find no entry.
LEMMA RenamedCarries ==
    ASSUME BridgeKeeps, Typed, Typed', stores' = stores, daemon' = daemon,
           NEW s \in Sockets, NEW d \in DOMAIN stores, Carries(s, d),
           link'[s].ready = link[s].ready,
           Len(link'[s].down) = Len(link[s].down),
           \A i \in 1..Len(link[s].down) :
              /\ link'[s].down[i].type = link[s].down[i].type
              /\ link[s].down[i].type \in {"event", "state"} => link'[s].down[i] = link[s].down[i]
    PROVE  Carries(s, d)'
<1> DEFINE x == Stream(s)
           y == Stream(s)'
           a == bridge.buffered
           q == link[s].down
           c == link'[s].down
<1>1. q \in Seq(Downs) /\ c \in Seq(Downs) /\ a \in Seq(Downs)
  BY BufferedTyped DEF Typed, Links
<1>2. StoresGrow
  <2>1. \A i \in DOMAIN stores : stores[i] <= stores[i]
    BY DEF Typed
  <2> QED BY <2>1 DEF StoresGrow
<1>3. Fed(s)' = Fed(s) /\ (s \in daemon'.clients => d = Store')
  BY DEF Fed, Carries, Store
<1>4. x = Joined(s, q) /\ y = Joined(s, c) /\ x \in Seq(Downs)
  BY StreamIsJoined, StreamKept
<1>5. /\ y \in Seq(Downs) /\ Len(y) = Len(x)
      /\ \A i \in 1..Len(x) : /\ y[i].type = x[i].type
                              /\ x[i].type \in {"event", "state"} => y[i] = x[i]
  <2> HIDE DEF x, y, q, c, a
  <2>1. /\ Len(c) = Len(q) /\ Len(q) \in Nat
        /\ \A i \in 1..Len(q) : /\ c[i].type = q[i].type
                                /\ q[i].type \in {"event", "state"} => c[i] = q[i]
    BY <1>1 DEF q, c
  <2>2. CASE s = bridge.socket
    <3>1. x = a \o q /\ y = a \o c
      BY <1>4, <2>2 DEF Joined, a
    <3>2. /\ Len(x) = Len(a) + Len(q) /\ Len(a) \in Nat
          /\ \A i \in 1..Len(a) : x[i] = a[i]
          /\ \A i \in 1..Len(q) : x[Len(a) + i] = q[i]
      BY <1>1, <3>1, JoinedElements
    <3>5. /\ Len(y) = Len(a) + Len(c) /\ y \in Seq(Downs)
          /\ \A i \in 1..Len(a) : y[i] = a[i]
          /\ \A i \in 1..Len(c) : y[Len(a) + i] = c[i]
      BY <1>1, <3>1, JoinedElements
    <3>3. /\ Len(y) = Len(a) + Len(q) /\ y \in Seq(Downs)
          /\ \A i \in 1..Len(a) : y[i] = a[i]
          /\ \A i \in 1..Len(q) : y[Len(a) + i] = c[i]
      BY <2>1, <3>5
    <3>4. ASSUME NEW i \in 1..Len(x)
          PROVE  /\ y[i].type = x[i].type
                 /\ x[i].type \in {"event", "state"} => y[i] = x[i]
      <4>1. CASE i \in 1..Len(a)
        BY <3>2, <3>3, <4>1
      <4>2. CASE i \notin 1..Len(a)
        <5> DEFINE k == i - Len(a)
        <5>1. k \in 1..Len(q) /\ i = Len(a) + k
          BY <2>1, <3>2, <4>2
        <5> HIDE DEF k
        <5> QED BY <2>1, <3>2, <3>3, <5>1
      <4> QED BY <4>1, <4>2
    <3> QED BY <3>2, <3>3, <3>4
  <2>3. CASE s # bridge.socket
    BY <1>1, <1>4, <2>1, <2>3 DEF Joined
  <2> QED BY <2>2, <2>3
<1>6. Snapped(s)' \subseteq Snapped(s)
  <2>1. DOMAIN c = DOMAIN q /\ DOMAIN q = 1..Len(q)
    BY <1>1
  <2>2. \A i \in States(c) : i \in States(q) /\ c[i] = q[i]
    BY <2>1 DEF States
  <2> QED BY <2>2 DEF Snapped
<1>7. DOMAIN y = DOMAIN x /\ DOMAIN x = 1..Len(x)
  BY <1>4, <1>5
<1>8. \A i \in DOMAIN y : y[i].type \in {"event", "state"} => y[i].store = d /\ y[i].seq <= stores'[d]
  <2>1. \A i \in DOMAIN x : x[i].type \in {"event", "state"} => x[i].store = d /\ x[i].seq <= stores'[d]
    BY DEF Carries
  <2> HIDE DEF x, y
  <2> QED BY <1>5, <1>7, <2>1
<1>9. \A n \in Bases(s) : /\ Follows(n, y)
                          /\ Fed(s)' => Reaches(n, y, stores'[d])
  <2>1. \A n \in Bases(s) : Follows(n, x) /\ (Fed(s) => Reaches(n, x, stores[d]))
    BY DEF Carries
  <2> HIDE DEF x, y
  <2>2. Events(y) = Events(x) /\ \A i \in Events(x) : y[i].seq = x[i].seq
    BY <1>5, <1>7 DEF Events
  <2> QED BY <1>3, <2>1, <2>2, LikeFollows
<1> QED BY <1>2, <1>3, <1>6, <1>8, <1>9, CarriesKept

-----------------------------------------------------------------------------
(* The steps in which the bridge keeps what it follows.                    *)

\* What is shown stays right while the logs grow.
LEMMA ShownKept ==
    ASSUME Typed, Typed', Shown, BridgeKeeps, StoresGrow
    PROVE  Shown'
<1>1. /\ view' = view /\ bridge'.seen = bridge.seen /\ bridge'.lastSeq = bridge.lastSeq
      /\ bridge'.buffered = bridge.buffered
      /\ bridge'.state = "connected" => bridge.state = "connected"
  BY DEF BridgeKeeps, SameFollowing
<1>2. \A d \in DOMAIN stores :
         d \in DOMAIN stores' /\ stores[d] \in Nat /\ stores'[d] \in Nat /\ stores[d] <= stores'[d]
  BY DEF Typed, StoresGrow
<1>3. Len(view.events) \in Nat /\ bridge.seen \subseteq Nat \X Nat
  <2>1. Len(view.events) \in Nat
    BY DEF Typed, Views
  <2>2. bridge.seen \subseteq Nat \X Nat
    BY DEF Typed, Bridges
  <2> QED BY <2>1, <2>2
<1>4. \A x \in bridge.seen : x[2] \in Nat
  BY <1>3
<1>5. Len(view'.events) <= stores'[view'.store]
  BY <1>1, <1>2, <1>3 DEF Shown
<1>6. \A x \in bridge'.seen : x[1] \in DOMAIN stores' /\ x[2] <= stores'[x[1]]
  BY <1>1, <1>2, <1>4 DEF Shown
<1>7. view'.store \in DOMAIN stores' /\ view' = Abstract!ViewOf(view'.store, Len(view'.events))
  BY <1>1, <1>2 DEF Shown
<1>8. bridge'.state = "connected" =>
          /\ bridge'.lastSeq = Len(view'.events) /\ bridge'.buffered = <<>>
          /\ \A x \in bridge'.seen : x[1] = view'.store => x[2] <= bridge'.lastSeq
  BY <1>1 DEF Shown
<1> QED BY <1>5, <1>6, <1>7, <1>8 DEF Shown

\* The snapshot of a socket, as it was or lost.
LEMMA SnapshotKept ==
    ASSUME BridgeKeeps, NEW s \in Sockets, OneSnapshot(s),
           \A k \in States(link[s].down) : Ahead(link[s].down[k]),
           bridge'.state = bridge.state \/ s # bridge.socket,
           link'[s].ready = "open" =>
              /\ link[s].ready = "open"
              /\ \A i \in DOMAIN link'[s].up : link'[s].up[i].type = "state.get" =>
                    i \in DOMAIN link[s].up /\ link[s].up[i].type = "state.get",
           \A k \in States(link'[s].down) :
              k \in States(link[s].down) /\ link'[s].down[k] = link[s].down[k]
    PROVE  OneSnapshot(s)' /\ \A k \in States(link'[s].down) : Ahead(link[s].down[k])'
<1>1. /\ bridge'.socket = bridge.socket /\ bridge'.answer = bridge.answer
      /\ view' = view /\ bridge'.seen = bridge.seen
  BY DEF BridgeKeeps, SameFollowing
<1>2. ASSUME NEW k \in States(link'[s].down)
      PROVE  Ahead(link[s].down[k])'
  <2>1. k \in States(link[s].down) /\ link'[s].down[k] = link[s].down[k]
    OBVIOUS
  <2> QED BY <1>1, <2>1 DEF Ahead
<1>3. Expecting(s) => Expecting(s)'
  BY <1>1 DEF Expecting
<1>4. \A k \in States(link[s].down) : Expecting(s) /\ States(link[s].down) = {k}
  BY DEF OneSnapshot
<1>5. \A k \in States(link'[s].down) : Expecting(s)' /\ States(link'[s].down) = {k}
  BY <1>3, <1>4
<1>6. \A i \in DOMAIN link'[s].up : link'[s].up[i].type = "state.get" /\ link'[s].ready = "open" =>
          i = 1 /\ Expecting(s)' /\ States(link'[s].down) = {}
  BY <1>3 DEF OneSnapshot
<1>7. \A k \in States(link'[s].down) : Ahead(link[s].down[k])'
  BY <1>2
<1> QED BY <1>5, <1>6, <1>7 DEF OneSnapshot

\* What remains to be shown of such a step.
LEMMA KeepsInvariant ==
    ASSUME SyncInvariant, Typed', Connection', BridgeKeeps, StoresGrow, Streams',
           bridge.answer # None => bridge'.state = bridge.state,
           \A s \in Sockets :
              OneSnapshot(s)' /\ \A k \in States(link'[s].down) : Ahead(link[s].down[k])'
    PROVE  SyncInvariant'
<1>1. Shown'
  BY ShownKept DEF SyncInvariant
<1>2. bridge'.answer # None => bridge'.state = "synchronizing" /\ Ahead(bridge.answer)'
  <2>1. /\ bridge'.answer = bridge.answer /\ bridge'.seen = bridge.seen /\ view' = view
    BY DEF BridgeKeeps, SameFollowing
  <2> QED BY <2>1 DEF SyncInvariant, Snapshots, Ahead
<1> QED BY <1>1, <1>2 DEF SyncInvariant, Snapshots

\* A step that leaves bridge and view alone.
LEMMA NothingFollowed ==
    ASSUME bridge' = bridge, view' = view
    PROVE  BridgeKeeps
BY DEF BridgeKeeps, SameFollowing

\* The same logs.
LEMMA SameStores ==
    ASSUME Typed, stores' = stores
    PROVE  StoresGrow /\ Store' = Store
<1>1. \A d \in DOMAIN stores : stores[d] <= stores[d]
  BY DEF Typed
<1> QED BY <1>1 DEF StoresGrow, Store

\* A socket that has a message more to deliver.
LEMMA LinkedLonger ==
    ASSUME NEW s, NEW b, NEW l \in Links, NEW n \in Links, NEW m \in Downs, m.type # "open",
           Linked(s, l, b), n.ready = l.ready, n.down = Append(l.down, m),
           l.ready = "connecting" => l.down # <<>> /\ n.up = <<>>,
           l.ready \in {"connecting", "open"}
    PROVE  Linked(s, n, b) /\ n.down # <<>>
<1> DEFINE q == l.down
           c == n.down
<1>1. q \in Seq(Downs) /\ c = Append(q, m)
  BY DEF Links
<1>2. \A i \in DOMAIN q : q[i].type = "open" => i = 1 /\ l.ready = "connecting"
  BY DEF Linked
<1> HIDE DEF q, c
<1>3. /\ c \in Seq(Downs) /\ Len(c) = Len(q) + 1
      /\ \A i \in 1..Len(q) : c[i] = q[i]
      /\ c[Len(q) + 1] = m
  BY <1>1, LongerElements
<1>4. /\ DOMAIN c = 1..(Len(q) + 1) /\ DOMAIN q = 1..Len(q) /\ Len(q) \in Nat
  BY <1>1, <1>3
<1>5. \A i \in DOMAIN c : c[i].type = "open" => i = 1 /\ l.ready = "connecting"
  BY <1>2, <1>3, <1>4
<1>6. c # <<>> /\ (q # <<>> => c[1] = q[1])
  BY <1>1, <1>3, <1>4
<1> QED BY <1>5, <1>6 DEF Linked, q, c

\* One socket of all changes.
LEMMA OneLinkTyped ==
    ASSUME Typed, NEW s \in Sockets, NEW l \in Links, link' = [link EXCEPT ![s] = l]
    PROVE  /\ link' \in [Sockets -> Links] /\ link'[s] = l
           /\ \A x \in Sockets : x # s => link'[x] = link[x]
<1>1. link \in [Sockets -> Links]
  BY DEF Typed
<1> QED BY <1>1

\* An event is logged and sent to every client.
LEMMA PublishKeeps ==
    ASSUME SyncInvariant, Publish
    PROVE  SyncInvariant' /\ [Abstract!Next]_Abstract!viewVars
<1> DEFINE n == stores[Store] + 1
           m == Event(Store, n)
<1>1. /\ Typed /\ Connection /\ Streams /\ Snapshots /\ Shown
      /\ stores' = [stores EXCEPT ![Store] = n] /\ SendToClients(m)
      /\ UNCHANGED <<daemon, bridge, call, view, stopped, faults>>
  BY DEF SyncInvariant, Publish, ClientVars
<1>2. Store \in DOMAIN stores /\ stores[Store] \in Nat /\ n \in Nat /\ Store \in Nat
  BY <1>1, StoreTyped
<1>3. m \in Downs /\ m.type = "event"
  BY <1>2, MessagesTyped DEF Downs, EventMessages
<1>4. /\ stores' \in Seq(Nat) /\ stores' # <<>> /\ DOMAIN stores' = DOMAIN stores
      /\ Len(stores') = Len(stores) /\ stores'[Store] = n
      /\ \A d \in DOMAIN stores : d # Store => stores'[d] = stores[d]
  BY <1>1, <1>2 DEF Typed
<1>5. StoresGrow /\ Store' = Store
  BY <1>1, <1>2, <1>4 DEF Typed, StoresGrow, Store
<1>6. ASSUME NEW s \in Sockets
      PROVE  /\ link'[s] \in Links /\ link'[s].ready = link[s].ready /\ link'[s].up = link[s].up
             /\ link'[s].down = IF Fed(s) THEN Append(link[s].down, m) ELSE link[s].down
  <2> HIDE DEF m
  <2>1. link[s] \in Links
    BY <1>1, BufferedTyped
  <2>2. link'[s] = IF s \in daemon.clients THEN Push(link[s], "down", m) ELSE link[s]
    BY <1>1 DEF SendToClients
  <2> QED BY <1>3, <2>1, <2>2, PushDown DEF Fed
<1>7. Typed'
  <2>1. link' \in [Sockets -> Links]
    <3>1. link' = [s \in Sockets |-> link'[s]]
      BY <1>1 DEF SendToClients
    <3> QED BY <1>6, <3>1
  <2> QED BY <1>1, <1>4, <2>1 DEF Typed
<1>8. BridgeKeeps
  BY <1>1, NothingFollowed
<1>9. Connection'
  <2>1. ASSUME NEW s \in Sockets
        PROVE  /\ Linked(s, link'[s], bridge')
               /\ s \in daemon.clients /\ link'[s].ready = "connecting" => link'[s].down # <<>>
    <3>1. Linked(s, link[s], bridge) /\ link[s].down \in Seq(Downs)
          /\ (s \in daemon.clients /\ link[s].ready = "connecting" => link[s].down # <<>>)
      BY <1>1, BufferedTyped DEF Connection
    <3>2. CASE ~Fed(s)
      BY <1>1, <1>6, <3>1, <3>2 DEF Linked
    <3>3. CASE Fed(s)
      <4>1. link[s] \in Links /\ link'[s] \in Links /\ link'[s].down = Append(link[s].down, m)
        BY <1>1, <1>6, <3>3, BufferedTyped
      <4>2. link[s].ready = "connecting" => link[s].down # <<>>
        BY <3>1, <3>3 DEF Fed
      <4> HIDE DEF m
      <4>3. link[s].ready = "connecting" => link'[s].up = <<>>
        BY <1>6, <3>1 DEF Linked
      <4>4. link[s].ready \in {"connecting", "open"} /\ link'[s].ready = link[s].ready
        BY <1>6, <3>3 DEF Fed
      <4>5. Linked(s, link'[s], bridge) /\ link'[s].down # <<>>
        BY <1>3, <3>1, <4>1, <4>2, <4>3, <4>4, LinkedLonger
      <4> QED BY <1>1, <4>5
    <3> QED BY <3>2, <3>3
  <2> QED BY <1>1, <2>1 DEF Connection, Typed
<1>10. Streams'
  <2>1. ASSUME NEW s \in Sockets, NEW d \in DOMAIN stores, Carries(s, d)
        PROVE  Carries(s, d)'
    <3>1. CASE ~Fed(s)
      <4>1. link'[s].down = link[s].down /\ ~Fed(s)' /\ (s \in daemon'.clients => d = Store')
        BY <1>1, <1>5, <1>6, <2>1, <3>1 DEF Carries, Fed
      <4> QED BY <1>1, <1>5, <1>7, <1>8, <2>1, <4>1, QuietCarries
    <3>2. CASE Fed(s)
      <4>1. d = Store
        BY <2>1, <3>2 DEF Carries, Fed
      <4>2. link'[s].down = Append(link[s].down, Event(d, stores[d] + 1))
        BY <1>6, <3>2, <4>1
      <4>3. stores'[d] = stores[d] + 1
        BY <1>4, <4>1
      <4> QED BY <1>1, <1>5, <1>7, <1>8, <2>1, <3>2, <4>2, <4>3, PublishedCarries
    <3> QED BY <3>1, <3>2
  <2> QED BY <1>1, <1>4, <2>1 DEF Streams
<1>11. ASSUME NEW s \in Sockets
       PROVE  OneSnapshot(s)' /\ \A k \in States(link'[s].down) : Ahead(link[s].down[k])'
  <2>1. OneSnapshot(s) /\ \A k \in States(link[s].down) : Ahead(link[s].down[k])
    BY <1>1 DEF Snapshots
  <2>2. \A k \in States(link'[s].down) :
           k \in States(link[s].down) /\ link'[s].down[k] = link[s].down[k]
    <3>1. CASE ~Fed(s)
      BY <1>6, <3>1
    <3>2. CASE Fed(s)
      <4>1. link[s].down \in Seq(Downs) /\ link'[s].down = Append(link[s].down, m)
        BY <1>1, <1>6, <3>2, BufferedTyped
      <4>2. /\ States(link'[s].down) = States(link[s].down)
            /\ \A i \in 1..Len(link[s].down) : link'[s].down[i] = link[s].down[i]
        BY <1>3, <4>1, LongerElements
      <4> QED BY <4>1, <4>2, StreamElements
    <3> QED BY <3>1, <3>2
  <2> QED BY <1>1, <1>6, <1>8, <2>1, <2>2, SnapshotKept
<1>12. SyncInvariant'
  BY <1>1, <1>5, <1>7, <1>8, <1>9, <1>10, <1>11, KeepsInvariant
<1>13. Abstract!Log
  BY <1>1 DEF Abstract!Log, Store
<1> QED BY <1>12, <1>13 DEF Abstract!Next

\* A socket on which nothing happens.
LEMMA QuietSnapshot ==
    ASSUME SyncInvariant, BridgeKeeps, NEW s \in Sockets,
           bridge'.state = bridge.state \/ s # bridge.socket,
           link'[s] = link[s]
    PROVE  OneSnapshot(s)' /\ \A k \in States(link'[s].down) : Ahead(link[s].down[k])'
<1>1. OneSnapshot(s) /\ \A k \in States(link[s].down) : Ahead(link[s].down[k])
  BY DEF SyncInvariant, Snapshots
<1> QED BY <1>1, SnapshotKept

\* A step on one socket that changes neither the bridge nor the logs.
LEMMA OneSocketKeeps ==
    ASSUME SyncInvariant, Typed', BridgeKeeps, bridge' = bridge, stores' = stores, Connection',
           NEW s \in Sockets, NEW d \in DOMAIN stores, Carries(s, d)',
           OneSnapshot(s)', \A k \in States(link'[s].down) : Ahead(link[s].down[k])',
           \A x \in Sockets : x # s =>
              link'[x] = link[x] /\ (x \in daemon'.clients => x \in daemon.clients)
    PROVE  SyncInvariant'
<1>1. Typed /\ StoresGrow /\ Store' = Store /\ Streams
  BY SameStores DEF SyncInvariant
<1>2. ASSUME NEW x \in Sockets
      PROVE  OneSnapshot(x)' /\ \A k \in States(link'[x].down) : Ahead(link[x].down[k])'
  BY QuietSnapshot
<1>3. ASSUME NEW x \in Sockets, x # s, NEW y \in DOMAIN stores, Carries(x, y)
      PROVE  Carries(x, y)'
  <2>1. /\ link'[x].down = link[x].down /\ link'[x].ready = link[x].ready
        /\ (x \in daemon'.clients => y = Store') /\ (Fed(x)' => Fed(x))
    BY <1>1, <1>3 DEF Carries, Fed
  <2> QED BY <1>1, <1>3, <2>1, QuietCarries
<1>4. Streams'
  BY <1>1, <1>3 DEF Streams
<1> QED BY <1>1, <1>2, <1>4, KeepsInvariant

\* The daemon accepts a socket, or nobody does.
LEMMA OpenSocketKeeps ==
    ASSUME SyncInvariant, NEW s \in Sockets, OpenSocket(s)
    PROVE  SyncInvariant' /\ [Abstract!Next]_Abstract!viewVars
<1> DEFINE t == IF daemon.up THEN "open" ELSE "refused"
           m == Plain(t)
           l == Push(link[s], "down", m)
<1>1. /\ Typed /\ Connection /\ Streams /\ Snapshots /\ Shown
      /\ stores' = stores /\ bridge' = bridge /\ view' = view /\ stopped' = stopped
      /\ link[s].ready = "connecting" /\ link[s].down = <<>>
      /\ link' = [link EXCEPT ![s] = l]
      /\ daemon' = IF daemon.up THEN [daemon EXCEPT !.clients = @ \cup {s}] ELSE daemon
  BY DEF SyncInvariant, OpenSocket, ClientVars
<1>2. m \in PlainMessages /\ m \in Downs /\ m.type = t
  BY MessagesTyped DEF Downs, Plain
<1>3. link[s] \in Links
  BY <1>1, BufferedTyped
<1> HIDE DEF m, t
<1>4. l \in Links /\ l.ready = "connecting" /\ l.up = link[s].up /\ l.down = Append(<<>>, m)
  <2>1. /\ l \in Links /\ l.ready = link[s].ready /\ l.up = link[s].up
        /\ l.down = IF link[s].ready \in {"connecting", "open"} THEN Append(link[s].down, m)
                    ELSE link[s].down
    BY <1>2, <1>3, PushDown, Zenon
  <2> HIDE DEF l
  <2> QED BY <1>1, <2>1
<1>5. /\ DOMAIN l.down = {1} /\ l.down # <<>> /\ l.down[1] = m
  <2>1. Append(<<>>, m) = <<m>>
    OBVIOUS
  <2>2. DOMAIN <<m>> = {1} /\ <<m>> # <<>> /\ <<m>>[1] = m
    OBVIOUS
  <2> QED BY <1>4, <2>1, <2>2, Zenon
<1> HIDE DEF l
<1>6. /\ link' \in [Sockets -> Links] /\ link'[s] = l
      /\ \A x \in Sockets : x # s => link'[x] = link[x]
  BY <1>1, <1>4, OneLinkTyped
<1>7. daemon' \in [up : BOOLEAN, clients : SUBSET Sockets] /\ daemon'.up = daemon.up
      /\ daemon'.clients = IF daemon.up THEN daemon.clients \cup {s} ELSE daemon.clients
  BY <1>1 DEF Typed
<1>8. Typed' /\ BridgeKeeps
  BY <1>1, <1>6, <1>7, NothingFollowed DEF Typed
<1>9. s # bridge.socket /\ Linked(s, link[s], bridge) /\ s # None
  BY <1>1, SyncAssumption DEF Connection, Linked
<1>10. t \in {"open", "refused"}
  BY DEF t
<1>11. Connection'
  <2>1. Linked(s, l, bridge)
    BY <1>1, <1>2, <1>4, <1>5, <1>9, <1>10 DEF Linked
  <2>2. \A x \in Sockets : Linked(x, link'[x], bridge')
    BY <1>1, <1>6, <2>1 DEF Connection
  <2>3. \A x \in daemon'.clients : link'[x].ready = "connecting" => link'[x].down # <<>>
    BY <1>1, <1>5, <1>6, <1>7 DEF Connection, Typed
  <2> QED BY <1>1, <1>7, <2>2, <2>3 DEF Connection
<1> PICK d \in DOMAIN stores : d = Store
  BY <1>1, StoreTyped
<1>12. Carries(s, d)'
  <2>1. \A i \in DOMAIN link'[s].down : link'[s].down[i].type \notin {"event", "state"}
    BY <1>2, <1>5, <1>6, <1>10
  <2>2. Store' = d
    BY <1>1, SameStores
  <2>3. s # bridge'.socket
    BY <1>1, <1>9
  <2> QED BY <2>1, <2>2, <2>3, BareCarries
<1>13. OneSnapshot(s)' /\ \A k \in States(link'[s].down) : Ahead(link[s].down[k])'
  <2>1. States(link'[s].down) = {}
    BY <1>2, <1>5, <1>6, <1>10 DEF States
  <2> QED BY <1>4, <1>6, <2>1 DEF OneSnapshot
<1>14. \A x \in Sockets : x # s =>
          link'[x] = link[x] /\ (x \in daemon'.clients => x \in daemon.clients)
  BY <1>6, <1>7
<1>15. SyncInvariant'
  BY <1>1, <1>8, <1>11, <1>12, <1>13, <1>14, OneSocketKeeps
<1> QED BY <1>1, <1>15 DEF Abstract!viewVars

\* The first message of a socket's other direction.
LEMMA UpElements ==
    ASSUME NEW q \in Seq(Ups), q # <<>>
    PROVE  /\ Head(q) = q[1] /\ 1 \in DOMAIN q /\ Tail(q) \in Seq(Ups)
           /\ \A i \in DOMAIN Tail(q) : i + 1 \in DOMAIN q /\ Tail(q)[i] = q[i + 1] /\ i \in Nat \ {0}
           /\ Head(q).type = "state.get" => Head(q).after \in Seqs
           /\ Head(q).type # "state.get" => Head(q).caller \in Callers \cup {None}
<1>1. /\ Head(q) = q[1] /\ Head(q) \in Ups /\ Tail(q) \in Seq(Ups)
      /\ Len(q) \in Nat \ {0} /\ Len(Tail(q)) = Len(q) - 1
      /\ \A i \in 1..(Len(q) - 1) : Tail(q)[i] = q[i + 1]
  BY HeadTailProperties
<1>2. DOMAIN q = 1..Len(q) /\ DOMAIN Tail(q) = 1..(Len(q) - 1)
  BY <1>1
<1>3. ASSUME NEW m \in Ups
      PROVE  /\ m.type = "state.get" => m.after \in Seqs
             /\ m.type # "state.get" => m.caller \in Callers \cup {None}
  BY DEF Ups, GetMessages, CallMessages
<1> QED BY <1>1, <1>2, <1>3

\* The log in use is not behind what is shown.
LEMMA LogIsAhead ==
    ASSUME SyncInvariant, NEW m, m.store = Store, m.seq = stores[Store]
    PROVE  Ahead(m)
<1>1. Typed /\ Shown /\ DOMAIN stores = 1..Store /\ Store \in Nat
  BY StoreTyped DEF SyncInvariant
<1>2. view.store <= Store /\ (view.store = Store => Len(view.events) <= stores[Store])
  BY <1>1 DEF Shown
<1>3. \A x \in bridge.seen : x[1] = Store => x[2] <= stores[Store]
  BY <1>1 DEF Shown
<1> QED BY <1>2, <1>3 DEF Ahead

\* The daemon answers a request.
LEMMA ServeKeeps ==
    ASSUME SyncInvariant, NEW s \in Sockets, Serve(s)
    PROVE  SyncInvariant' /\ [Abstract!Next]_Abstract!viewVars
<1> DEFINE up == link[s].up
           request == Head(up)
           m == IF request.type = "state.get" THEN StateResult(request.after)
                ELSE Reply(request.caller)
           rest == Tail(up)
           u == [link[s] EXCEPT !.up = rest]
           l == Push(u, "down", m)
           open == link[s].ready = "open"
<1>1. /\ Typed /\ Connection /\ Streams /\ Snapshots /\ Shown
      /\ UNCHANGED <<stores, daemon, bridge, view, stopped>>
      /\ s \in daemon.clients /\ up # <<>>
      /\ link' = [link EXCEPT ![s] = l]
  BY DEF SyncInvariant, Serve, ClientVars
<1>2. /\ link[s] \in Links /\ up \in Seq(Ups) /\ Linked(s, link[s], bridge) /\ OneSnapshot(s)
      /\ link[s].ready # "connecting"
      /\ \A k \in States(link[s].down) : Ahead(link[s].down[k])
  BY <1>1, BufferedTyped DEF Connection, Linked, Snapshots
<1>3. /\ request = up[1] /\ 1 \in DOMAIN up /\ rest \in Seq(Ups)
      /\ \A i \in DOMAIN rest : i + 1 \in DOMAIN up /\ rest[i] = up[i + 1] /\ i \in Nat \ {0}
      /\ request.type = "state.get" => request.after \in Seqs
      /\ request.type # "state.get" => request.caller \in Callers \cup {None}
  BY <1>1, <1>2, UpElements
<1>4. /\ m \in Downs /\ m.type \in {"state", "reply"}
      /\ m.type = "state" <=> request.type = "state.get"
      /\ m.type = "state" => m \in StateMessages /\ m.store = Store /\ m.seq = stores[Store]
  <2>1. CASE request.type = "state.get"
    <3>1. m = StateResult(request.after) /\ m \in StateMessages /\ m.type = "state"
          /\ m.store = Store /\ m.seq = stores[Store]
      BY <1>1, <1>3, <2>1, StateResultTyped
    <3> QED BY <2>1, <3>1 DEF Downs
  <2>2. CASE request.type # "state.get"
    <3> DEFINE c == request.caller
    <3>1. c \in Callers \cup {None} /\ m = Reply(c)
      BY <1>3, <2>2
    <3> HIDE DEF c, m
    <3>2. m \in CallMessages /\ m.type = "reply"
      BY <3>1, MessagesTyped DEF Reply
    <3> QED BY <2>2, <3>2 DEF Downs
  <2> QED BY <2>1, <2>2
<1> HIDE DEF m, rest
<1>5. u \in Links /\ u.ready = link[s].ready /\ u.down = link[s].down /\ u.up = rest
  BY <1>2, <1>3 DEF Links
<1> HIDE DEF u
<1>6. /\ l \in Links /\ l.ready = link[s].ready /\ l.up = rest
      /\ l.down = IF open THEN Append(link[s].down, m) ELSE link[s].down
  BY <1>2, <1>4, <1>5, PushDown
<1> HIDE DEF l
<1>7. /\ link' \in [Sockets -> Links] /\ link'[s] = l
      /\ \A x \in Sockets : x # s => link'[x] = link[x]
  BY <1>1, <1>6, OneLinkTyped
<1>8. Typed' /\ BridgeKeeps /\ StoresGrow /\ Store' = Store
  BY <1>1, <1>7, NothingFollowed, SameStores DEF Typed
<1>9. Connection'
  <2>1. Linked(s, l, bridge)
    <3>1. CASE open
      BY <1>2, <1>4, <1>6, <3>1, LinkedLonger
    <3>2. CASE ~open
      BY <1>2, <1>6, <3>2 DEF Linked
    <3> QED BY <3>1, <3>2
  <2>2. \A x \in Sockets : Linked(x, link'[x], bridge')
    BY <1>1, <1>7, <2>1 DEF Connection
  <2>3. \A x \in daemon'.clients : link'[x].ready = "connecting" => link'[x].down # <<>>
    BY <1>1, <1>2, <1>6, <1>7 DEF Connection, Typed
  <2> QED BY <1>1, <2>2, <2>3 DEF Connection
<1>10. PICK d \in DOMAIN stores : Carries(s, d)
  BY <1>1 DEF Streams
<1>11. d = Store
  BY <1>1, <1>10 DEF Carries
<1>12. Carries(s, d)'
  <2>1. CASE open /\ m.type = "state"
    <3>1. m \in StateMessages /\ m.store = d /\ m.seq = stores[d]
          /\ link'[s].down = Append(link[s].down, m) /\ link'[s].ready = link[s].ready
      BY <1>4, <1>6, <1>7, <1>11, <2>1
    <3> QED BY <1>1, <1>8, <1>10, <3>1, SnapshotCarries
  <2>2. CASE open /\ m.type # "state"
    <3>1. m \in Downs /\ m.type \notin {"event", "state"}
          /\ link'[s].down = Append(link[s].down, m) /\ link'[s].ready = link[s].ready
      BY <1>4, <1>6, <1>7, <2>2
    <3> QED BY <1>1, <1>8, <1>10, <3>1, RepliedCarries
  <2>3. CASE ~open
    <3>1. link'[s].down = link[s].down /\ (Fed(s)' => Fed(s)) /\ stores'[d] = stores[d]
          /\ (s \in daemon'.clients => d = Store')
      BY <1>1, <1>6, <1>7, <1>8, <1>11, <2>3 DEF Fed
    <3> QED BY <1>1, <1>8, <1>10, <3>1, QuietCarries
  <2> QED BY <2>1, <2>2, <2>3
<1>13. OneSnapshot(s)' /\ \A k \in States(link'[s].down) : Ahead(link[s].down[k])'
  <2>1. ASSUME open, NEW i \in DOMAIN rest, rest[i].type = "state.get"
        PROVE  FALSE
    <3>1. i + 1 = 1 /\ i \in Nat \ {0}
      BY <1>2, <1>3, <2>1 DEF OneSnapshot
    <3> QED BY <3>1
  <2>2. CASE open /\ m.type = "state"
    <3>1. /\ Expecting(s) /\ States(link[s].down) = {}
      BY <1>2, <1>3, <1>4, <2>2 DEF OneSnapshot
    <3> DEFINE z == Len(link[s].down) + 1
    <3>2. States(l.down) = {z} /\ l.down[z] = m
      BY <1>2, <1>4, <1>6, <2>2, <3>1, BufferedTyped, LongerElements DEF Links
    <3>3. Expecting(s)'
      BY <1>1, <3>1 DEF Expecting
    <3>4. \A k \in States(link'[s].down) : Ahead(link[s].down[k])'
      <4>1. Ahead(m)
        BY <1>4, <2>2, LogIsAhead
      <4>2. \A k \in States(link'[s].down) : link'[s].down[k] = m
        BY <1>7, <3>2
      <4> QED BY <1>1, <4>1, <4>2 DEF Ahead
    <3> HIDE DEF z
    <3> QED BY <1>6, <1>7, <2>1, <2>2, <3>2, <3>3, <3>4 DEF OneSnapshot
  <2>3. CASE ~(open /\ m.type = "state")
    <3>1. \A k \in States(link'[s].down) :
             k \in States(link[s].down) /\ link'[s].down[k] = link[s].down[k]
      <4>1. CASE open
        <5>1. m.type # "state" /\ l.down = Append(link[s].down, m) /\ link[s].down \in Seq(Downs)
          BY <1>2, <1>6, <2>3, <4>1 DEF Links
        <5>2. /\ States(l.down) = States(link[s].down)
              /\ \A i \in 1..Len(link[s].down) : l.down[i] = link[s].down[i]
          BY <1>4, <5>1, LongerElements
        <5> QED BY <1>7, <5>1, <5>2, StreamElements
      <4>2. CASE ~open
        BY <1>6, <1>7, <4>2
      <4> QED BY <4>1, <4>2
    <3>2. link'[s].ready = "open" =>
             /\ link[s].ready = "open"
             /\ \A i \in DOMAIN link'[s].up : link'[s].up[i].type = "state.get" =>
                   i \in DOMAIN link[s].up /\ link[s].up[i].type = "state.get"
      BY <1>6, <1>7, <2>1
    <3>3. bridge'.state = bridge.state
      BY <1>1
    <3> QED BY <1>2, <1>8, <3>1, <3>2, <3>3, SnapshotKept
  <2> QED BY <2>2, <2>3
<1>14. \A x \in Sockets : x # s =>
          link'[x] = link[x] /\ (x \in daemon'.clients => x \in daemon.clients)
  BY <1>1, <1>7
<1>15. SyncInvariant'
  BY <1>1, <1>8, <1>9, <1>12, <1>13, <1>14, OneSocketKeeps
<1> QED BY <1>1, <1>15 DEF Abstract!viewVars

\* The daemon has seen the close of a socket.
LEMMA CloseSocketKeeps ==
    ASSUME SyncInvariant, NEW s \in Sockets, CloseSocket(s)
    PROVE  SyncInvariant' /\ [Abstract!Next]_Abstract!viewVars
<1>1. /\ Typed /\ Connection /\ Streams /\ Snapshots /\ Shown
      /\ UNCHANGED <<stores, bridge, view, stopped>>
      /\ s \in daemon.clients /\ link[s].ready = "closed"
      /\ link' = [link EXCEPT ![s] = Unused]
      /\ daemon' = [daemon EXCEPT !.clients = @ \ {s}]
  BY DEF SyncInvariant, CloseSocket, ClientVars
<1>2. Linked(s, link[s], bridge) /\ OneSnapshot(s)
  BY <1>1 DEF Connection, Snapshots
<1>3. link[s].down = <<>>
  BY <1>1, <1>2 DEF Linked
<1>4. /\ link' \in [Sockets -> Links] /\ link'[s] = Unused
      /\ \A x \in Sockets : x # s => link'[x] = link[x]
  BY <1>1, UnusedTyped, OneLinkTyped
<1>5. daemon' \in [up : BOOLEAN, clients : SUBSET Sockets] /\ daemon'.up = daemon.up
      /\ daemon'.clients = daemon.clients \ {s}
  BY <1>1 DEF Typed
<1>6. Typed' /\ BridgeKeeps /\ StoresGrow /\ Store' = Store
  BY <1>1, <1>4, <1>5, NothingFollowed, SameStores DEF Typed
<1>7. Connection'
  <2>1. Linked(s, Unused, bridge)
    BY <1>1, <1>2, UnusedTyped DEF Linked
  <2>2. \A x \in Sockets : Linked(x, link'[x], bridge')
    BY <1>1, <1>4, <2>1 DEF Connection
  <2>3. \A x \in daemon'.clients : link'[x].ready = "connecting" => link'[x].down # <<>>
    BY <1>1, <1>4, <1>5 DEF Connection, Typed
  <2> QED BY <1>1, <1>5, <2>2, <2>3 DEF Connection
<1>8. PICK d \in DOMAIN stores : Carries(s, d)
  BY <1>1 DEF Streams
<1>9. Carries(s, d)'
  <2>1. link'[s].down = link[s].down /\ ~Fed(s)' /\ s \notin daemon'.clients
    BY <1>3, <1>4, <1>5, UnusedTyped DEF Fed
  <2> QED BY <1>1, <1>6, <1>8, <2>1, QuietCarries
<1>10. OneSnapshot(s)' /\ \A k \in States(link'[s].down) : Ahead(link[s].down[k])'
  <2>1. States(link'[s].down) = {} /\ link'[s].up = <<>>
    BY <1>4, UnusedTyped DEF States
  <2> QED BY <2>1 DEF OneSnapshot
<1>11. \A x \in Sockets : x # s =>
          link'[x] = link[x] /\ (x \in daemon'.clients => x \in daemon.clients)
  BY <1>4, <1>5
<1>12. SyncInvariant'
  BY <1>1, <1>6, <1>7, <1>9, <1>10, <1>11, OneSocketKeeps
<1> QED BY <1>1, <1>12 DEF Abstract!viewVars

\* What a socket and the bridge know of each other when its stream is cut.
LEMMA LinkedCut ==
    ASSUME NEW s, NEW b, NEW l \in Links, Linked(s, l, b), NEW k \in 0..Len(l.down)
    PROVE  LET n == Cut(l, k)
           IN  /\ Linked(s, n, b)
               /\ \A i \in States(n.down) : i \in States(l.down) /\ n.down[i] = l.down[i]
<1> DEFINE n == Cut(l, k)
           q == l.down
           c == n.down
<1>1. /\ n \in Links /\ n.ready = l.ready /\ n.up = <<>>
      /\ l.ready \notin {"connecting", "open"} => c = q
      /\ l.ready \in {"connecting", "open"} =>
            /\ Len(c) = k + 1 /\ DOMAIN c = 1..(k + 1)
            /\ \A i \in 1..k : c[i] = q[i]
            /\ c[k + 1] = Plain("end")
  BY CutTyped
<1>2. Plain("end").type = "end"
  BY DEF Plain
<1>3. /\ q \in Seq(Downs) /\ DOMAIN q = 1..Len(q) /\ Len(q) \in Nat /\ k \in 0..Len(q)
  BY DEF Links
<1>4. CASE l.ready \notin {"connecting", "open"}
  BY <1>1, <1>4 DEF Linked
<1>5. CASE l.ready \in {"connecting", "open"}
  <2>1. \A i \in DOMAIN c : c[i].type # "end" => i \in DOMAIN q /\ c[i] = q[i]
    <3> HIDE DEF n, q, c
    <3> QED BY <1>1, <1>2, <1>3, <1>5
  <2>2. \A i \in DOMAIN c : c[i].type = "open" => i = 1 /\ n.ready = "connecting"
    BY <1>1, <2>1 DEF Linked
  <2>3. c[1].type \in {"open", "refused", "end"} \/ l.ready = "open"
    <3>1. 1 \in DOMAIN c
      BY <1>1, <1>5
    <3>2. CASE c[1].type = "end"
      BY <3>2
    <3>3. CASE c[1].type # "end"
      <4>1. q # <<>> /\ c[1] = q[1]
        BY <1>3, <2>1, <3>1, <3>3
      <4> QED BY <1>5, <4>1 DEF Linked
    <3> QED BY <3>2, <3>3
  <2>4. \A i \in States(c) : i \in States(q) /\ c[i] = q[i]
    BY <2>1 DEF States
  <2>5. Linked(s, n, b)
    <3> HIDE DEF n
    <3> QED BY <1>1, <1>5, <2>2, <2>3 DEF Linked
  <2> QED BY <2>4, <2>5
<1> QED BY <1>4, <1>5

\* The snapshot of a socket whose stream is cut.
LEMMA SnapshotCut ==
    ASSUME SyncInvariant, BridgeKeeps, bridge'.state = bridge.state, NEW s \in Sockets,
           NEW k \in 0..Len(link[s].down), link'[s] = Cut(link[s], k)
    PROVE  OneSnapshot(s)' /\ \A i \in States(link'[s].down) : Ahead(link[s].down[i])'
<1>1. /\ link[s] \in Links /\ OneSnapshot(s) /\ Linked(s, link[s], bridge)
      /\ \A i \in States(link[s].down) : Ahead(link[s].down[i])
  BY BufferedTyped DEF SyncInvariant, Snapshots, Connection
<1>2. \A i \in States(link'[s].down) : i \in States(link[s].down) /\ link'[s].down[i] = link[s].down[i]
  BY <1>1, LinkedCut
<1>3. link'[s].ready = link[s].ready /\ link'[s].up = <<>>
  BY <1>1, CutTyped
<1>4. DOMAIN link'[s].up = {}
  BY <1>3
<1> QED BY <1>1, <1>2, <1>3, <1>4, SnapshotKept

\* The daemon loses a socket.
LEMMA LoseSocketKeeps ==
    ASSUME SyncInvariant, NEW s \in Sockets, LoseSocket(s)
    PROVE  SyncInvariant' /\ [Abstract!Next]_Abstract!viewVars
<1>1. /\ Typed /\ Connection /\ Streams /\ Snapshots /\ Shown
      /\ UNCHANGED <<stores, bridge, view, stopped>>
      /\ s \in daemon.clients
      /\ daemon' = [daemon EXCEPT !.clients = @ \ {s}]
  BY DEF SyncInvariant, LoseSocket, ClientVars
<1>2. PICK k \in 0..Len(link[s].down) : link' = [link EXCEPT ![s] = Cut(link[s], k)]
  BY DEF LoseSocket
<1>3. link[s] \in Links /\ Linked(s, link[s], bridge)
  BY <1>1, BufferedTyped DEF Connection
<1> DEFINE n == Cut(link[s], k)
<1>4. /\ n \in Links /\ n.ready = link[s].ready
      /\ Linked(s, n, bridge)
      /\ \A i \in States(n.down) : i \in States(link[s].down) /\ n.down[i] = link[s].down[i]
  BY <1>3, CutTyped, LinkedCut
<1>5. /\ link' \in [Sockets -> Links] /\ link'[s] = n
      /\ \A x \in Sockets : x # s => link'[x] = link[x]
  BY <1>1, <1>2, <1>4, OneLinkTyped
<1>6. daemon' \in [up : BOOLEAN, clients : SUBSET Sockets] /\ daemon'.up = daemon.up
      /\ daemon'.clients = daemon.clients \ {s}
  BY <1>1 DEF Typed
<1>7. Typed' /\ BridgeKeeps /\ StoresGrow /\ Store' = Store
  BY <1>1, <1>5, <1>6, NothingFollowed, SameStores DEF Typed
<1>8. PICK d \in DOMAIN stores : Carries(s, d)
  BY <1>1 DEF Streams
<1>9. Carries(s, d)'
  BY <1>1, <1>5, <1>6, <1>7, <1>8, CutCarries
<1>10. OneSnapshot(s)' /\ \A i \in States(link'[s].down) : Ahead(link[s].down[i])'
  BY <1>1, <1>5, <1>7, SnapshotCut
<1> HIDE DEF n
<1>11. Connection'
  <2>1. \A x \in Sockets : Linked(x, link'[x], bridge')
    BY <1>1, <1>4, <1>5 DEF Connection
  <2>2. \A x \in daemon'.clients : link'[x].ready = "connecting" => link'[x].down # <<>>
    BY <1>1, <1>5, <1>6 DEF Connection, Typed
  <2> QED BY <1>1, <1>6, <2>1, <2>2 DEF Connection
<1>12. \A x \in Sockets : x # s =>
          link'[x] = link[x] /\ (x \in daemon'.clients => x \in daemon.clients)
  BY <1>5, <1>6
<1>13. SyncInvariant'
  BY <1>1, <1>7, <1>9, <1>10, <1>11, <1>12, OneSocketKeeps
<1> QED BY <1>1, <1>13 DEF Abstract!viewVars

\* The daemon stops: every client's stream is cut somewhere.
LEMMA StopDaemonKeeps ==
    ASSUME SyncInvariant, StopDaemon
    PROVE  SyncInvariant' /\ [Abstract!Next]_Abstract!viewVars
<1>1. /\ Typed /\ Connection /\ Streams /\ Snapshots /\ Shown
      /\ UNCHANGED <<stores, bridge, view, stopped>>
      /\ daemon' = [up |-> FALSE, clients |-> {}]
  BY DEF SyncInvariant, StopDaemon, ClientVars
<1>2. PICK kept \in [daemon.clients -> 0..(MaxSeq + Cardinality(Callers) + 2)] :
         /\ \A s \in daemon.clients : kept[s] <= Len(link[s].down)
         /\ link' = [s \in Sockets |-> IF s \in daemon.clients THEN Cut(link[s], kept[s]) ELSE link[s]]
  BY DEF StopDaemon
<1>3. \A s \in Sockets : link[s] \in Links /\ Linked(s, link[s], bridge)
  BY <1>1, BufferedTyped DEF Connection
<1>4. ASSUME NEW s \in daemon.clients
      PROVE  /\ s \in Sockets /\ kept[s] \in 0..Len(link[s].down) /\ link'[s] = Cut(link[s], kept[s])
             /\ link'[s] \in Links /\ Linked(s, link'[s], bridge)
  <2>1. s \in Sockets
    BY <1>1 DEF Typed
  <2>2. link[s].down \in Seq(Downs)
    BY <1>3, <2>1 DEF Links
  <2>3. Len(link[s].down) \in Nat /\ kept[s] \in 0..(MaxSeq + Cardinality(Callers) + 2)
    BY <1>2, <2>2
  <2>4. kept[s] \in Int /\ kept[s] >= 0
    <3>1. MaxSeq \in Nat /\ Cardinality(Callers) \in Nat
      BY SyncAssumption, FS_CardinalityType
    <3> QED BY <2>3, <3>1
  <2>5. kept[s] \in 0..Len(link[s].down)
    BY <1>2, <2>3, <2>4
  <2>6. link'[s] = Cut(link[s], kept[s])
    BY <1>2, <2>1
  <2> QED BY <1>3, <2>1, <2>5, <2>6, CutTyped, LinkedCut
<1>5. ASSUME NEW s \in Sockets, s \notin daemon.clients
      PROVE  link'[s] = link[s]
  BY <1>2, <1>5
<1>6. link' \in [Sockets -> Links]
  <2>1. link' = [s \in Sockets |-> link'[s]]
    BY <1>2
  <2>2. \A s \in Sockets : link'[s] \in Links
    BY <1>3, <1>4, <1>5
  <2> QED BY <2>1, <2>2
<1>7. daemon' \in [up : BOOLEAN, clients : SUBSET Sockets] /\ daemon'.clients = {}
  BY <1>1
<1>8. Typed' /\ BridgeKeeps /\ StoresGrow /\ Store' = Store
  BY <1>1, <1>6, <1>7, NothingFollowed, SameStores DEF Typed
<1>9. Connection'
  <2>1. \A s \in Sockets : Linked(s, link'[s], bridge')
    BY <1>1, <1>3, <1>4, <1>5
  <2> QED BY <1>1, <1>7, <2>1 DEF Connection
<1>10. ASSUME NEW s \in Sockets, NEW d \in DOMAIN stores, Carries(s, d)
       PROVE  Carries(s, d)'
  <2>1. CASE s \in daemon.clients
    <3>1. s \notin daemon'.clients
      BY <1>7
    <3> QED BY <1>1, <1>4, <1>8, <1>10, <2>1, <3>1, CutCarries
  <2>2. CASE s \notin daemon.clients
    <3>1. link'[s].down = link[s].down /\ ~Fed(s)' /\ s \notin daemon'.clients
      BY <1>5, <1>7, <2>2 DEF Fed
    <3> QED BY <1>1, <1>8, <1>10, <3>1, QuietCarries
  <2> QED BY <2>1, <2>2
<1>11. Streams'
  BY <1>1, <1>10 DEF Streams
<1>12. ASSUME NEW s \in Sockets
       PROVE  OneSnapshot(s)' /\ \A i \in States(link'[s].down) : Ahead(link[s].down[i])'
  <2>1. CASE s \in daemon.clients
    BY <1>1, <1>4, <1>8, <2>1, SnapshotCut
  <2>2. CASE s \notin daemon.clients
    BY <1>1, <1>5, <1>8, <2>2, QuietSnapshot
  <2> QED BY <2>1, <2>2
<1>13. SyncInvariant'
  BY <1>1, <1>8, <1>9, <1>11, <1>12, KeepsInvariant
<1> QED BY <1>1, <1>13 DEF Abstract!viewVars

\* The daemon starts, with its database or with a new one.
LEMMA StartDaemonKeeps ==
    ASSUME SyncInvariant, StartDaemon
    PROVE  SyncInvariant' /\ [Abstract!Next]_Abstract!viewVars
<1>1. /\ Typed /\ Connection /\ Streams /\ Snapshots /\ Shown
      /\ UNCHANGED <<link, bridge, view, stopped>>
      /\ ~daemon.up /\ daemon' = [daemon EXCEPT !.up = TRUE]
      /\ stores' = stores \/ stores' = Append(stores, 0)
  BY DEF SyncInvariant, StartDaemon, ClientVars
<1>2. daemon' \in [up : BOOLEAN, clients : SUBSET Sockets] /\ daemon'.clients = {}
      /\ daemon.clients = {}
  BY <1>1 DEF Typed, Connection
<1>3. /\ stores' \in Seq(Nat) /\ stores' # <<>> /\ StoresGrow
      /\ stores' = stores \/ stores' = stores \o <<0>>
  <2>1. CASE stores' = stores
    BY <1>1, <2>1, SameStores DEF Typed
  <2>2. CASE stores' = Append(stores, 0)
    BY <1>1, <2>2 DEF Typed, StoresGrow
  <2> QED BY <1>1, <2>1, <2>2
<1>4. Typed' /\ BridgeKeeps
  BY <1>1, <1>2, <1>3, NothingFollowed DEF Typed
<1>5. Connection'
  BY <1>1, <1>2 DEF Connection
<1>6. ASSUME NEW s \in Sockets, NEW d \in DOMAIN stores, Carries(s, d)
      PROVE  Carries(s, d)'
  <2>1. link'[s].down = link[s].down /\ ~Fed(s)' /\ s \notin daemon'.clients
    BY <1>1, <1>2 DEF Fed
  <2> QED BY <1>1, <1>3, <1>4, <1>6, <2>1, QuietCarries
<1>7. Streams'
  BY <1>1, <1>3, <1>6 DEF Streams, StoresGrow
<1>8. ASSUME NEW s \in Sockets
      PROVE  OneSnapshot(s)' /\ \A i \in States(link'[s].down) : Ahead(link[s].down[i])'
  BY <1>1, <1>4, QuietSnapshot
<1>9. SyncInvariant'
  BY <1>1, <1>3, <1>4, <1>5, <1>7, <1>8, KeepsInvariant
<1>10. [Abstract!Next]_Abstract!viewVars
  BY <1>1, <1>3 DEF Abstract!Next, Abstract!NewStore, Abstract!viewVars
<1> QED BY <1>9, <1>10

-----------------------------------------------------------------------------
(* The bridge connects and gives up.                                       *)

\* A socket is followed by nothing or by no socket.
SocketStays == bridge.socket # None => bridge'.socket \in {bridge.socket, None}

\* A step of the bridge that changes no socket.
LEMMA BridgeAloneKeeps ==
    ASSUME SyncInvariant, Typed', BridgeKeeps, link' = link, stores' = stores, daemon' = daemon,
           Connection', bridge.answer = None \/ bridge'.state = bridge.state,
           bridge.socket = None \/ bridge'.state = bridge.state
    PROVE  SyncInvariant'
<1>1. Typed /\ StoresGrow /\ Store' = Store /\ Streams
  BY SameStores DEF SyncInvariant
<1>2. ASSUME NEW x \in Sockets
      PROVE  OneSnapshot(x)' /\ \A k \in States(link'[x].down) : Ahead(link[x].down[k])'
  <2>1. bridge'.state = bridge.state \/ x # bridge.socket
    BY SyncAssumption
  <2> QED BY <2>1, QuietSnapshot
<1>3. ASSUME NEW x \in Sockets, NEW y \in DOMAIN stores, Carries(x, y)
      PROVE  Carries(x, y)'
  <2>1. /\ link'[x].down = link[x].down
        /\ (x \in daemon'.clients => y = Store') /\ (Fed(x)' => Fed(x))
    BY <1>1, <1>3 DEF Carries, Fed
  <2> QED BY <1>1, <1>3, <2>1, QuietCarries
<1>4. Streams'
  BY <1>1, <1>3 DEF Streams
<1> QED BY <1>1, <1>2, <1>4, KeepsInvariant

\* A step of the bridge that changes one socket.
LEMMA BridgeAndSocketKeep ==
    ASSUME SyncInvariant, Typed', BridgeKeeps, stores' = stores, daemon' = daemon,
           Connection', bridge.answer = None \/ bridge'.state = bridge.state,
           NEW s \in Sockets, NEW d \in DOMAIN stores, Carries(s, d)',
           bridge.socket \in {None, s} \/ bridge'.state = bridge.state,
           OneSnapshot(s)', \A k \in States(link'[s].down) : Ahead(link[s].down[k])',
           \A x \in Sockets : x # s => link'[x] = link[x]
    PROVE  SyncInvariant'
<1>1. Typed /\ StoresGrow /\ Store' = Store /\ Streams
  BY SameStores DEF SyncInvariant
<1>2. ASSUME NEW x \in Sockets
      PROVE  OneSnapshot(x)' /\ \A k \in States(link'[x].down) : Ahead(link[x].down[k])'
  <2>1. bridge'.state = bridge.state \/ x # bridge.socket \/ x = s
    BY SyncAssumption
  <2> QED BY <2>1, QuietSnapshot
<1>3. ASSUME NEW x \in Sockets, x # s, NEW y \in DOMAIN stores, Carries(x, y)
      PROVE  Carries(x, y)'
  <2>1. /\ link'[x].down = link[x].down
        /\ (x \in daemon'.clients => y = Store') /\ (Fed(x)' => Fed(x))
    BY <1>1, <1>3 DEF Carries, Fed
  <2> QED BY <1>1, <1>3, <2>1, QuietCarries
<1>4. Streams'
  BY <1>1, <1>3 DEF Streams
<1> QED BY <1>1, <1>2, <1>4, KeepsInvariant

\* terminate(), with or without the failure of the set-up.
LEMMA TerminateKeeps ==
    ASSUME SyncInvariant, NEW s \in Sockets, link' = [link EXCEPT ![s] = Terminate(link[s])],
           UNCHANGED <<stores, daemon, view, stopped>>,
           bridge' = bridge \/ (bridge.answer = None /\ bridge' = SetupFailed(bridge, s))
    PROVE  SyncInvariant' /\ bridge'.socket = bridge.socket
<1>1. Typed /\ Connection /\ Streams /\ Snapshots /\ Shown /\ bridge \in Bridges
  BY DEF SyncInvariant, Typed
<1> DEFINE n == Terminate(link[s])
<1>2. /\ n \in Links /\ n.ready = "closing" /\ n.down = <<>>
  BY <1>1, BufferedTyped, TerminateTyped
<1>3. /\ link' \in [Sockets -> Links] /\ link'[s] = n
      /\ \A x \in Sockets : x # s => link'[x] = link[x]
  BY <1>1, <1>2, OneLinkTyped
<1> HIDE DEF n
<1>4. /\ bridge' \in Bridges /\ SameFollowing(bridge, bridge')
      /\ bridge.connecting # s => bridge' = bridge
      /\ \/ bridge' = bridge
         \/ bridge.answer = None /\ bridge'.connecting = None /\ bridge.connecting = s
            /\ bridge'.state \in {bridge.state, "backoff"}
  <2>1. CASE bridge' = bridge
    BY <1>1, <2>1 DEF SameFollowing
  <2>2. CASE bridge.answer = None /\ bridge' = SetupFailed(bridge, s)
    BY <1>1, <2>2, SetupFailedTyped
  <2> QED BY <2>1, <2>2
<1>5. Typed' /\ BridgeKeeps
  BY <1>1, <1>3, <1>4 DEF Typed, BridgeKeeps
<1>6. bridge.socket \in {None, s} \/ bridge'.state = bridge.state
  BY <1>1, <1>4, SyncAssumption DEF Connection
<1>7. Connection'
  <2>1. ASSUME NEW x \in Sockets
        PROVE  Linked(x, link'[x], bridge')
    <3>1. CASE x = s
      BY <1>2, <1>3, <3>1 DEF Linked
    <3>2. CASE x # s
      BY <1>1, <1>3, <1>4, <3>2 DEF Connection, Linked, SameFollowing
    <3> QED BY <3>1, <3>2
  <2>2. \A x \in daemon.clients : link'[x].ready = "connecting" => link'[x].down # <<>>
    BY <1>1, <1>2, <1>3 DEF Connection, Typed
  <2>3. /\ bridge'.connecting = "loading" => bridge'.socket = None
        /\ bridge'.socket # None => bridge'.connecting \in {None, bridge'.socket}
        /\ bridge'.answer # None => bridge'.socket # None
    BY <1>1, <1>4, SyncAssumption DEF Connection, SameFollowing
  <2> QED BY <1>1, <2>1, <2>2, <2>3 DEF Connection
<1>8. PICK d \in DOMAIN stores : Carries(s, d)
  BY <1>1 DEF Streams
<1>9. Carries(s, d)'
  BY <1>1, <1>2, <1>3, <1>5, <1>8, GoneCarries
<1>10. OneSnapshot(s)' /\ \A k \in States(link'[s].down) : Ahead(link[s].down[k])'
  <2>1. States(link'[s].down) = {} /\ link'[s].ready # "open"
    BY <1>2, <1>3 DEF States
  <2> QED BY <2>1 DEF OneSnapshot
<1>11. bridge.answer = None \/ bridge'.state = bridge.state
  BY <1>4
<1>12. SyncInvariant'
  BY <1>3, <1>5, <1>6, <1>7, <1>9, <1>10, <1>11, BridgeAndSocketKeep
<1> QED BY <1>4, <1>12 DEF SameFollowing

\* The set-up takes too long.
LEMMA SetupTimeoutKeeps ==
    ASSUME SyncInvariant, NEW s \in Sockets, SetupTimeout(s)
    PROVE  SyncInvariant' /\ [Abstract!Next]_Abstract!viewVars /\ SocketStays
<1>1. /\ UNCHANGED <<stores, daemon, view, stopped>>
      /\ link' = [link EXCEPT ![s] = Terminate(link[s])]
      /\ bridge.answer = None /\ bridge' = SetupFailed(bridge, s)
  BY DEF SetupTimeout, DaemonVars, Runs
<1>2. SyncInvariant' /\ bridge'.socket = bridge.socket
  BY <1>1, TerminateKeeps
<1> QED BY <1>1, <1>2 DEF Abstract!viewVars, SocketStays

\* The descriptor is read: the attempt fails, or a socket is created.
LEMMA LoadDescriptorKeeps ==
    ASSUME SyncInvariant, LoadDescriptor
    PROVE  SyncInvariant' /\ [Abstract!Next]_Abstract!viewVars /\ SocketStays
<1>1. /\ Typed /\ Connection /\ Streams /\ Snapshots /\ Shown /\ bridge \in Bridges
      /\ UNCHANGED <<stores, daemon, view, stopped>>
      /\ bridge.connecting = "loading" /\ bridge.answer = None
  BY DEF SyncInvariant, LoadDescriptor, DaemonVars, Runs, Typed
<1>2. /\ bridge.socket = None
      /\ \A x \in Sockets : link[x].ready \notin {"connecting", "open"}
  BY <1>1, SyncAssumption DEF Connection, Linked
<1>3. CASE bridge' = SetupFailed(bridge, "loading") /\ link' = link
  <2>1. /\ bridge' \in Bridges /\ SameFollowing(bridge, bridge') /\ bridge'.connecting = None
        /\ bridge'.state \in {bridge.state, "backoff"}
    BY <1>1, <1>3, SetupFailedTyped
  <2>2. Typed' /\ BridgeKeeps
    BY <1>1, <1>3, <2>1 DEF Typed, BridgeKeeps
  <2>3. Connection'
    BY <1>1, <1>2, <1>3, <2>1, SyncAssumption DEF Connection, Linked, SameFollowing
  <2>4. SyncInvariant'
    BY <1>1, <1>2, <1>3, <2>2, <2>3, BridgeAloneKeeps
  <2> QED BY <1>1, <1>2, <2>4 DEF Abstract!viewVars, SocketStays
<1>4. ASSUME NEW s \in Sockets, link[s] = Unused, s \notin daemon.clients,
             link' = [link EXCEPT ![s].ready = "connecting"],
             bridge' = [bridge EXCEPT !.connecting = s]
      PROVE  SyncInvariant'
  <2> DEFINE n == [Unused EXCEPT !.ready = "connecting"]
  <2>1. n \in Links /\ n.ready = "connecting" /\ n.down = <<>> /\ n.up = <<>>
    BY UnusedTyped DEF Links, Unused
  <2>2. link' = [link EXCEPT ![s] = n]
    BY <1>1, <1>4 DEF Typed
  <2> HIDE DEF n
  <2>3. /\ link' \in [Sockets -> Links] /\ link'[s] = n
        /\ \A x \in Sockets : x # s => link'[x] = link[x]
    BY <1>1, <2>1, <2>2, OneLinkTyped
  <2>4. /\ bridge' \in Bridges /\ SameFollowing(bridge, bridge') /\ bridge'.connecting = s
        /\ bridge'.state = bridge.state
    BY <1>1, <1>4 DEF Bridges, SameFollowing
  <2>5. Typed' /\ BridgeKeeps
    BY <1>1, <2>3, <2>4 DEF Typed, BridgeKeeps
  <2>6. Connection'
    <3>1. ASSUME NEW x \in Sockets
          PROVE  Linked(x, link'[x], bridge')
      <4>1. CASE x = s
        BY <1>2, <2>1, <2>3, <2>4, <4>1 DEF Linked, SameFollowing
      <4>2. CASE x # s
        BY <1>1, <1>2, <2>3, <2>4, <4>2 DEF Connection, Linked, SameFollowing
      <4> QED BY <4>1, <4>2
    <3>2. \A x \in daemon.clients : link'[x].ready = "connecting" => link'[x].down # <<>>
      BY <1>1, <1>4, <2>3 DEF Connection, Typed
    <3>3. bridge'.socket = None /\ bridge'.answer = None
      BY <1>1, <1>2, <2>4 DEF SameFollowing
    <3> QED BY <1>1, <2>4, <3>1, <3>2, <3>3, SyncAssumption DEF Connection
  <2>7. PICK d \in DOMAIN stores : d = Store
    BY <1>1, StoreTyped
  <2>8. Carries(s, d)'
    <3>1. DOMAIN link'[s].down = {}
      BY <2>1, <2>3
    <3>2. s # bridge'.socket /\ s \notin daemon'.clients
      BY <1>1, <1>2, <1>4, <2>4, SyncAssumption DEF SameFollowing
    <3> QED BY <3>1, <3>2, BareCarries
  <2>9. OneSnapshot(s)' /\ \A k \in States(link'[s].down) : Ahead(link[s].down[k])'
    <3>1. States(link'[s].down) = {} /\ link'[s].ready # "open"
      BY <2>1, <2>3 DEF States
    <3> QED BY <3>1 DEF OneSnapshot
  <2> QED BY <1>1, <2>3, <2>4, <2>5, <2>6, <2>8, <2>9, BridgeAndSocketKeep
<1>5. CASE \E s \in Sockets :
              /\ link[s] = Unused /\ s \notin daemon.clients
              /\ link' = [link EXCEPT ![s].ready = "connecting"]
              /\ bridge' = [bridge EXCEPT !.connecting = s]
  BY <1>1, <1>2, <1>4, <1>5 DEF Abstract!viewVars, SocketStays
<1> QED BY <1>3, <1>5 DEF LoadDescriptor

\* The pause is over, or cut short.
LEMMA TimerKeeps ==
    ASSUME SyncInvariant, bridge.answer = None,
           bridge' = BeginConnect([bridge EXCEPT !.timer = FALSE]),
           UNCHANGED <<stores, daemon, link, view, stopped>>
    PROVE  SyncInvariant' /\ bridge'.socket = bridge.socket
<1>1. Typed /\ Connection /\ bridge \in Bridges
  BY DEF SyncInvariant, Typed
<1> DEFINE b == [bridge EXCEPT !.timer = FALSE]
<1>2. /\ b \in Bridges /\ SameFollowing(bridge, b) /\ b.connecting = bridge.connecting
      /\ b.state = bridge.state
  BY <1>1 DEF Bridges, SameFollowing
<1>3. bridge' = BeginConnect(b)
  OBVIOUS
<1> HIDE DEF b
<1>4. /\ bridge' \in Bridges /\ SameFollowing(b, bridge')
      /\ \/ bridge'.connecting = b.connecting /\ bridge'.state = b.state
         \/ /\ b.connecting = None /\ b.socket = None
            /\ bridge'.connecting = "loading" /\ bridge'.state = "connecting"
  BY <1>2, <1>3, BeginConnectTyped
<1>5. /\ SameFollowing(bridge, bridge')
      /\ \/ bridge'.connecting = bridge.connecting /\ bridge'.state = bridge.state
         \/ /\ bridge.connecting = None /\ bridge.socket = None
            /\ bridge'.connecting = "loading" /\ bridge'.state = "connecting"
  BY <1>2, <1>4 DEF SameFollowing
<1>6. Typed' /\ BridgeKeeps
  BY <1>1, <1>4, <1>5 DEF Typed, BridgeKeeps
<1>7. Connection'
  <2>1. \A x \in Sockets : Linked(x, link'[x], bridge')
    BY <1>1, <1>5, SyncAssumption DEF Connection, Linked, SameFollowing
  <2>2. /\ bridge'.connecting = "loading" => bridge'.socket = None
        /\ bridge'.socket # None => bridge'.connecting \in {None, bridge'.socket}
        /\ bridge'.answer # None => bridge'.socket # None
    BY <1>1, <1>5 DEF Connection, SameFollowing
  <2> QED BY <1>1, <2>1, <2>2 DEF Connection
<1>8. bridge.socket = None \/ bridge'.state = bridge.state
  BY <1>5
<1>9. SyncInvariant'
  BY <1>6, <1>7, <1>8, BridgeAloneKeeps
<1> QED BY <1>5, <1>9 DEF SameFollowing

\* The reconnect timer fires.
LEMMA ReconnectKeeps ==
    ASSUME SyncInvariant, ReconnectTimer
    PROVE  SyncInvariant' /\ [Abstract!Next]_Abstract!viewVars /\ SocketStays
<1>1. /\ bridge.answer = None
      /\ bridge' = BeginConnect([bridge EXCEPT !.timer = FALSE])
      /\ UNCHANGED <<stores, daemon, link, view, stopped>>
  BY DEF ReconnectTimer, DaemonVars, Runs
<1>2. SyncInvariant' /\ bridge'.socket = bridge.socket
  BY <1>1, TimerKeeps
<1> QED BY <1>1, <1>2 DEF Abstract!viewVars, SocketStays

-----------------------------------------------------------------------------
(* Requests.                                                               *)

\* The callers in the order in which they run.
LEMMA RequestsTyped ==
    ASSUME NEW S \in SUBSET Callers
    PROVE  /\ Requests(S) \in Seq(Ups)
           /\ \A i \in DOMAIN Requests(S) : Requests(S)[i].type = "request"
<1> DEFINE n == Cardinality(S)
           q == SetToSeq(S)
<1>1. n \in Nat /\ ExistsBijection(1..n, S)
  BY SyncAssumption, FS_Subset, FS_CardinalityType
<1>2. PICK f \in Bijection(1..n, S) : TRUE
  BY <1>1 DEF ExistsBijection
<1>3. f \in [1..n -> S] /\ \A a, b \in 1..n : f[a] = f[b] => a = b
  BY <1>2 DEF Bijection, Injection, IsInjective
<1>4. f \in [1..n -> S] /\ IsInjective(f)
  BY <1>3 DEF IsInjective
<1>5. q \in [1..n -> S]
  BY <1>4 DEF SetToSeq
<1> HIDE DEF q, n
<1>6. \A i \in 1..n : Request(q[i]) \in Ups /\ Request(q[i]).type = "request"
  <2> TAKE i \in 1..n
  <2>1. q[i] \in Callers
    BY <1>5
  <2>2. Request(q[i]) \in CallMessages
    BY <2>1, MessagesTyped
  <2> QED BY <2>2 DEF Ups, Request
<1>7. Requests(S) = [i \in 1..n |-> Request(q[i])]
  BY DEF Requests, n, q
<1>8. DOMAIN Requests(S) = 1..n /\ \A i \in 1..n : Requests(S)[i] = Request(q[i])
  BY <1>7
<1>9. Requests(S) \in [1..n -> Ups]
  BY <1>6, <1>7
<1>10. Requests(S) \in Seq(Ups)
  BY <1>1, <1>9
<1> QED BY <1>6, <1>8, <1>10

\* Only requests are added to what a socket carries to the daemon.
UpKept(x) ==
    /\ link'[x].ready = link[x].ready /\ link'[x].down = link[x].down
    /\ link[x].ready = "connecting" => link'[x].up = link[x].up
    /\ \A i \in DOMAIN link'[x].up : link'[x].up[i].type = "state.get" =>
          i \in DOMAIN link[x].up /\ link[x].up[i].type = "state.get"

\* request() over a socket that is open, or in a loop.
LEMMA SendTyped ==
    ASSUME Typed, ~stopped, NEW s \in Sockets, NEW S \in SUBSET Callers, Send(s, S)
    PROVE  /\ link' \in [Sockets -> Links] /\ stopped' \in BOOLEAN
           /\ \A x \in Sockets : UpKept(x)
<1>1. link[s] \in Links /\ link \in [Sockets -> Links]
  BY DEF Typed
<1>2. CASE link[s].ready = "open"
  <2> DEFINE r == Requests(S)
             up == link[s].up
             new == up \o r
             n == [link[s] EXCEPT !.up = new]
  <2>1. link' = [link EXCEPT ![s] = n] /\ stopped' = stopped
    BY <1>1, <1>2 DEF Send
  <2>2. r \in Seq(Ups) /\ \A i \in DOMAIN r : r[i].type = "request"
    BY RequestsTyped
  <2>3. up \in Seq(Ups)
    BY <1>1 DEF Links
  <2> HIDE DEF r, up
  <2>4. /\ new \in Seq(Ups) /\ Len(new) = Len(up) + Len(r) /\ Len(up) \in Nat /\ Len(r) \in Nat
        /\ DOMAIN new = 1..(Len(up) + Len(r)) /\ DOMAIN up = 1..Len(up) /\ DOMAIN r = 1..Len(r)
        /\ \A i \in 1..(Len(up) + Len(r)) : new[i] = IF i <= Len(up) THEN up[i] ELSE r[i - Len(up)]
    BY <2>2, <2>3, ConcatProperties
  <2> HIDE DEF new
  <2>5. n \in Links /\ n.ready = link[s].ready /\ n.down = link[s].down /\ n.up = new
    BY <1>1, <2>4 DEF Links
  <2> HIDE DEF n
  <2>6. \A i \in DOMAIN new : new[i].type = "state.get" => i \in DOMAIN up /\ up[i].type = "state.get"
    <3> TAKE i \in DOMAIN new
    <3>1. CASE i <= Len(up)
      BY <2>4, <3>1
    <3>2. CASE ~(i <= Len(up))
      <4>1. i - Len(up) \in DOMAIN r /\ new[i] = r[i - Len(up)]
        BY <2>4, <3>2
      <4> QED BY <2>2, <4>1
    <3> QED BY <3>1, <3>2
  <2>7. /\ link' \in [Sockets -> Links] /\ link'[s] = n
        /\ \A x \in Sockets : x # s => link'[x] = link[x]
    BY <1>1, <2>1, <2>5
  <2>8. UpKept(s)
    BY <1>2, <2>5, <2>6, <2>7 DEF UpKept, up
  <2>9. \A x \in Sockets : x # s => UpKept(x)
    BY <2>7 DEF UpKept
  <2> QED BY <2>1, <2>7, <2>8, <2>9 DEF Typed
<1>3. CASE link[s].ready # "open"
  <2>1. link' = link /\ stopped' \in BOOLEAN
    BY <1>3 DEF Send
  <2> QED BY <1>1, <2>1 DEF UpKept
<1> QED BY <1>2, <1>3

\* What sockets and bridge know of each other after it.
LEMMA LinkedUp ==
    ASSUME NEW x, NEW b, Linked(x, link[x], b), UpKept(x)
    PROVE  Linked(x, link'[x], b)
BY DEF Linked, UpKept

\* Requests are sent while the bridge waits for nothing.
LEMMA SendKeeps ==
    ASSUME SyncInvariant, link' \in [Sockets -> Links], stopped' \in BOOLEAN,
           \A x \in Sockets : UpKept(x),
           UNCHANGED <<stores, daemon, bridge, view>>
    PROVE  SyncInvariant'
<1>1. Typed /\ Connection /\ Streams /\ Snapshots /\ StoresGrow /\ Store' = Store /\ BridgeKeeps
  BY SameStores, NothingFollowed DEF SyncInvariant
<1>2. Typed'
  BY <1>1 DEF Typed
<1>3. Connection'
  <2>1. \A x \in Sockets : Linked(x, link'[x], bridge')
    BY <1>1, LinkedUp DEF Connection
  <2>2. \A x \in daemon.clients : link'[x].ready = "connecting" => link'[x].down # <<>>
    BY <1>1 DEF Connection, Typed, UpKept
  <2> QED BY <1>1, <2>1, <2>2 DEF Connection
<1>4. ASSUME NEW x \in Sockets, NEW y \in DOMAIN stores, Carries(x, y)
      PROVE  Carries(x, y)'
  <2>1. /\ link'[x].down = link[x].down
        /\ (x \in daemon'.clients => y = Store') /\ (Fed(x)' => Fed(x))
    BY <1>1, <1>4 DEF Carries, Fed, UpKept
  <2> QED BY <1>1, <1>2, <1>4, <2>1, QuietCarries
<1>5. Streams'
  BY <1>1, <1>4 DEF Streams
<1>6. ASSUME NEW x \in Sockets
      PROVE  OneSnapshot(x)' /\ \A k \in States(link'[x].down) : Ahead(link[x].down[k])'
  <2>1. OneSnapshot(x) /\ \A k \in States(link[x].down) : Ahead(link[x].down[k])
    BY <1>1 DEF Snapshots
  <2> QED BY <1>1, <2>1, SnapshotKept DEF UpKept
<1> QED BY <1>1, <1>2, <1>3, <1>5, <1>6, KeepsInvariant

\* A caller makes a request.
LEMMA AskKeeps ==
    ASSUME SyncInvariant, NEW c \in Callers, Ask({c})
    PROVE  SyncInvariant' /\ [Abstract!Next]_Abstract!viewVars /\ SocketStays
<1>1. /\ Typed /\ Connection /\ ~stopped /\ bridge.answer = None /\ bridge \in Bridges
      /\ UNCHANGED <<stores, daemon, view>>
  BY DEF SyncInvariant, Ask, DaemonVars, Runs, Typed
<1>2. CASE bridge.state = "connected" /\ bridge.socket # None
  <2>1. Send(bridge.socket, {c}) /\ bridge' = bridge /\ bridge.socket \in Sockets
    BY <1>1, <1>2 DEF Ask, Bridges
  <2>2. /\ link' \in [Sockets -> Links] /\ stopped' \in BOOLEAN
        /\ \A x \in Sockets : UpKept(x)
    BY <1>1, <2>1, SendTyped
  <2>3. SyncInvariant'
    BY <1>1, <2>1, <2>2, SendKeeps
  <2>4. stopped' = TRUE \/ stopped' = stopped
    BY <1>1, <2>2 DEF Typed
  <2>5. [Abstract!Next]_Abstract!viewVars
    BY <1>1, <2>4 DEF Abstract!Next, Abstract!Stop, Abstract!viewVars
  <2> QED BY <2>1, <2>3, <2>5 DEF SocketStays
<1>3. CASE bridge.state = "connected" /\ bridge.socket = None
  <2>1. stopped' = TRUE /\ link' = link /\ bridge' = bridge
    BY <1>3 DEF Ask
  <2>2. \A x \in Sockets : UpKept(x)
    BY <2>1 DEF UpKept
  <2>3. link' \in [Sockets -> Links] /\ stopped' \in BOOLEAN
    BY <1>1, <2>1 DEF Typed
  <2>4. SyncInvariant'
    BY <1>1, <2>1, <2>2, <2>3, SendKeeps
  <2> QED BY <1>1, <2>1, <2>4 DEF Abstract!Next, Abstract!Stop, SocketStays
<1>4. CASE bridge.state # "connected"
  <2>1. /\ link' = link /\ stopped' = stopped
        /\ bridge' = IF bridge.timer /\ {c} # {}
                     THEN BeginConnect([bridge EXCEPT !.timer = FALSE]) ELSE bridge
    BY <1>4 DEF Ask, Wait
  <2>2. CASE bridge' = bridge
    <3>1. \A x \in Sockets : UpKept(x)
      BY <2>1 DEF UpKept
    <3>2. link' \in [Sockets -> Links] /\ stopped' \in BOOLEAN
      BY <1>1, <2>1 DEF Typed
    <3>3. SyncInvariant'
      BY <1>1, <2>2, <3>1, <3>2, SendKeeps
    <3> QED BY <1>1, <2>1, <2>2, <3>3 DEF Abstract!viewVars, SocketStays
  <2>3. CASE bridge' = BeginConnect([bridge EXCEPT !.timer = FALSE])
    <3>1. SyncInvariant' /\ bridge'.socket = bridge.socket
      BY <1>1, <2>1, <2>3, TimerKeeps
    <3> QED BY <1>1, <2>1, <3>1 DEF Abstract!viewVars, SocketStays
  <2> QED BY <2>1, <2>2, <2>3
<1> QED BY <1>2, <1>3, <1>4

\* A message from or for a caller that no longer waits.
Unknown(c, m) == IF m.type \in {"request", "reply"} /\ m.caller = c
                 THEN [m EXCEPT !.caller = None] ELSE m

Forgotten(c, q) == [i \in DOMAIN q |-> Unknown(c, q[i])]

\* It is a message of the same type.
LEMMA ForgottenTyped ==
    ASSUME NEW c, NEW S \in {Downs, Ups}, NEW q \in Seq(S)
    PROVE  LET n == Forgotten(c, q)
           IN  /\ n \in Seq(S) /\ Len(n) = Len(q) /\ DOMAIN n = DOMAIN q
               /\ \A i \in DOMAIN q : /\ n[i].type = q[i].type
                                      /\ q[i].type \in {"event", "state"} => n[i] = q[i]
               /\ q = <<>> => n = <<>>
<1>1. ASSUME NEW m \in S
      PROVE  /\ Unknown(c, m) \in S /\ Unknown(c, m).type = m.type
             /\ m.type \in {"event", "state"} => Unknown(c, m) = m
  <2>1. CASE m.type \in {"request", "reply"} /\ m.caller = c
    <3>1. m \in CallMessages /\ CallMessages \subseteq S
      BY <2>1 DEF Downs, Ups, EventMessages, StateMessages, PlainMessages, GetMessages
    <3>2. [m EXCEPT !.caller = None] \in CallMessages /\ [m EXCEPT !.caller = None].type = m.type
      BY <3>1 DEF CallMessages
    <3>3. Unknown(c, m) = [m EXCEPT !.caller = None]
      BY <2>1 DEF Unknown
    <3> QED BY <2>1, <3>1, <3>2, <3>3
  <2>2. CASE ~(m.type \in {"request", "reply"} /\ m.caller = c)
    BY <2>2 DEF Unknown
  <2> QED BY <2>1, <2>2
<1> DEFINE n == Forgotten(c, q)
<1>2. DOMAIN q = 1..Len(q) /\ Len(q) \in Nat /\ \A i \in 1..Len(q) : q[i] \in S
  OBVIOUS
<1>3. n = [i \in 1..Len(q) |-> Unknown(c, q[i])]
  BY <1>2 DEF Forgotten
<1>4. /\ DOMAIN n = 1..Len(q)
      /\ \A i \in 1..Len(q) : n[i] = Unknown(c, q[i])
  BY <1>3
<1>5. n \in [1..Len(q) -> S]
  BY <1>1, <1>2, <1>3
<1>6. n \in Seq(S) /\ Len(n) = Len(q)
  BY <1>2, <1>5
<1> HIDE DEF n
<1>7. q = <<>> => n = <<>>
  BY <1>2, <1>6
<1> QED BY <1>1, <1>2, <1>4, <1>6, <1>7 DEF n

\* A request's timer fires first.
LEMMA RequestTimeoutKeeps ==
    ASSUME SyncInvariant, NEW c \in Callers, RequestTimeout(c)
    PROVE  SyncInvariant' /\ [Abstract!Next]_Abstract!viewVars /\ SocketStays
<1>1. /\ Typed /\ Connection /\ Streams /\ Snapshots
      /\ UNCHANGED <<stores, daemon, bridge, view, stopped>>
  BY DEF SyncInvariant, RequestTimeout, DaemonVars
<1>2. link' = [s \in Sockets |->
                 [link[s] EXCEPT !.up = Forgotten(c, link[s].up), !.down = Forgotten(c, link[s].down)]]
  BY DEF RequestTimeout, Forgotten, Unknown
<1>3. ASSUME NEW s \in Sockets
      PROVE  /\ link'[s] \in Links /\ link'[s].ready = link[s].ready
             /\ link'[s].up = Forgotten(c, link[s].up) /\ link'[s].down = Forgotten(c, link[s].down)
  <2> DEFINE u == Forgotten(c, link[s].up)
             q == Forgotten(c, link[s].down)
  <2>1. link[s] \in Links /\ u \in Seq(Ups) /\ q \in Seq(Downs)
    BY <1>1, BufferedTyped, ForgottenTyped
  <2>2. link'[s] = [link[s] EXCEPT !.up = u, !.down = q]
    BY <1>2
  <2> HIDE DEF u, q
  <2>3. LET n == [link[s] EXCEPT !.up = u, !.down = q]
        IN  n \in Links /\ n.ready = link[s].ready /\ n.up = u /\ n.down = q
    BY <2>1 DEF Links
  <2> QED BY <2>2, <2>3 DEF u, q
<1>4. ASSUME NEW s \in Sockets
      PROVE  LET q == link[s].down
                 n == link'[s].down
             IN  /\ Len(n) = Len(q) /\ DOMAIN n = DOMAIN q /\ DOMAIN q = 1..Len(q)
                 /\ \A i \in DOMAIN q : /\ n[i].type = q[i].type
                                        /\ q[i].type \in {"event", "state"} => n[i] = q[i]
                 /\ q = <<>> <=> n = <<>>
  <2> DEFINE q == link[s].down
             n == link'[s].down
  <2>1. q \in Seq(Downs) /\ n = Forgotten(c, q)
    BY <1>1, <1>3, BufferedTyped
  <2> HIDE DEF q, n
  <2>2. /\ n \in Seq(Downs) /\ Len(n) = Len(q) /\ DOMAIN n = DOMAIN q
        /\ \A i \in DOMAIN q : /\ n[i].type = q[i].type
                               /\ q[i].type \in {"event", "state"} => n[i] = q[i]
    BY <2>1, ForgottenTyped
  <2>3. q = <<>> <=> n = <<>>
    BY <2>1, <2>2
  <2>4. DOMAIN q = 1..Len(q)
    BY <2>1
  <2> QED BY <2>2, <2>3, <2>4 DEF q, n
<1>5. ASSUME NEW s \in Sockets
      PROVE  /\ DOMAIN link'[s].up = DOMAIN link[s].up
             /\ \A i \in DOMAIN link[s].up : link'[s].up[i].type = link[s].up[i].type
             /\ link[s].up = <<>> => link'[s].up = <<>>
  <2> DEFINE q == link[s].up
             n == link'[s].up
  <2>1. q \in Seq(Ups) /\ n = Forgotten(c, q)
    BY <1>1, <1>3, BufferedTyped
  <2> HIDE DEF q, n
  <2>2. /\ DOMAIN n = DOMAIN q
        /\ \A i \in DOMAIN q : n[i].type = q[i].type
        /\ q = <<>> => n = <<>>
    BY <2>1, ForgottenTyped
  <2> QED BY <2>2 DEF q, n
<1>6. link' \in [Sockets -> Links]
  <2>1. link' = [s \in Sockets |-> link'[s]]
    BY <1>2
  <2> QED BY <1>3, <2>1
<1>7. Typed' /\ BridgeKeeps /\ StoresGrow /\ Store' = Store
  BY <1>1, <1>6, NothingFollowed, SameStores DEF Typed
<1>8. Connection'
  <2>1. ASSUME NEW s \in Sockets
        PROVE  Linked(s, link'[s], bridge')
    <3>1. Linked(s, link[s], bridge)
      BY <1>1 DEF Connection
    <3>2. link[s].down # <<>> => 1 \in DOMAIN link[s].down
      BY <1>1, BufferedTyped
    <3> QED BY <1>1, <1>3, <1>4, <1>5, <3>1, <3>2 DEF Linked
  <2>2. \A x \in daemon.clients : link'[x].ready = "connecting" => link'[x].down # <<>>
    BY <1>1, <1>3, <1>4 DEF Connection, Typed
  <2> QED BY <1>1, <2>1, <2>2 DEF Connection
<1>9. ASSUME NEW s \in Sockets, NEW d \in DOMAIN stores, Carries(s, d)
      PROVE  Carries(s, d)'
  BY <1>1, <1>3, <1>4, <1>7, <1>9, RenamedCarries DEF SyncInvariant
<1>10. Streams'
  BY <1>1, <1>9 DEF Streams
<1>11. ASSUME NEW s \in Sockets
       PROVE  OneSnapshot(s)' /\ \A k \in States(link'[s].down) : Ahead(link[s].down[k])'
  <2>1. OneSnapshot(s) /\ \A k \in States(link[s].down) : Ahead(link[s].down[k])
    BY <1>1 DEF Snapshots
  <2>2. \A k \in States(link'[s].down) :
           k \in States(link[s].down) /\ link'[s].down[k] = link[s].down[k]
    BY <1>4 DEF States
  <2> QED BY <1>1, <1>3, <1>5, <1>7, <2>1, <2>2, SnapshotKept
<1>12. SyncInvariant'
  BY <1>1, <1>7, <1>8, <1>10, <1>11, KeepsInvariant
<1> QED BY <1>1, <1>12 DEF Abstract!viewVars, SocketStays

-----------------------------------------------------------------------------
(* Messages reach the bridge.                                              *)

\* The rest of a stream.
LEMMA TailElements ==
    ASSUME NEW q \in Seq(Downs), q # <<>>
    PROVE  /\ 1 \in DOMAIN q /\ Head(q) = q[1] /\ Head(q) \in Downs
           /\ Tail(q) \in Seq(Downs)
           /\ \A i \in DOMAIN Tail(q) : i \in Nat \ {0} /\ i + 1 \in DOMAIN q /\ Tail(q)[i] = q[i + 1]
           /\ \A k \in States(Tail(q)) : k + 1 \in States(q) /\ k \in Nat \ {0} /\ Tail(q)[k] = q[k + 1]
           /\ Head(q).type = "event" => Head(q) \in EventMessages
           /\ Head(q).type = "state" => Head(q) \in StateMessages
<1>1. /\ Head(q) \in Downs /\ Head(q) = q[1] /\ Tail(q) \in Seq(Downs)
      /\ Len(q) \in Nat \ {0} /\ Len(Tail(q)) = Len(q) - 1
      /\ \A i \in 1..(Len(q) - 1) : Tail(q)[i] = q[i + 1]
  BY HeadTailProperties
<1>2. DOMAIN q = 1..Len(q) /\ DOMAIN Tail(q) = 1..(Len(q) - 1) /\ 1 \in 1..Len(q)
  BY <1>1
<1>3. \A i \in DOMAIN Tail(q) : i \in Nat \ {0} /\ i + 1 \in DOMAIN q /\ Tail(q)[i] = q[i + 1]
  BY <1>1, <1>2
<1>4. \A k \in States(Tail(q)) : k + 1 \in States(q) /\ k \in Nat \ {0} /\ Tail(q)[k] = q[k + 1]
  BY <1>3 DEF States
<1>5. /\ Head(q).type = "event" => Head(q) \in EventMessages
      /\ Head(q).type = "state" => Head(q) \in StateMessages
  BY <1>1, <1>2, StreamElements
<1> QED BY <1>1, <1>2, <1>3, <1>4, <1>5

\* The joined stream without the message that is taken.
LEMMA JoinedTail ==
    ASSUME NEW a \in Seq(Downs), NEW q \in Seq(Downs), q # <<>>
    PROVE  /\ Without(a \o q, Len(a) + 1, a \o Tail(q))
           /\ (a \o q)[Len(a) + 1] = Head(q)
           /\ a \o Tail(q) \in Seq(Downs)
<1> DEFINE x == a \o q
           y == a \o Tail(q)
<1>1. /\ Head(q) = q[1] /\ Tail(q) \in Seq(Downs)
      /\ Len(q) \in Nat \ {0} /\ Len(Tail(q)) = Len(q) - 1 /\ Len(a) \in Nat
      /\ \A i \in 1..(Len(q) - 1) : Tail(q)[i] = q[i + 1]
  BY HeadTailProperties
<1>2. /\ x \in Seq(Downs) /\ Len(x) = Len(a) + Len(q)
      /\ \A i \in 1..Len(a) : x[i] = a[i]
      /\ \A i \in 1..Len(q) : x[Len(a) + i] = q[i]
  BY JoinedElements
<1>3. /\ y \in Seq(Downs) /\ Len(y) = Len(a) + Len(Tail(q))
      /\ \A i \in 1..Len(a) : y[i] = a[i]
      /\ \A i \in 1..Len(Tail(q)) : y[Len(a) + i] = Tail(q)[i]
  BY <1>1, JoinedElements
<1> HIDE DEF x, y
<1>4. Len(y) = Len(x) - 1 /\ Len(a) + 1 \in 1..Len(x) /\ DOMAIN x = 1..Len(x)
  BY <1>1, <1>2, <1>3
<1>5. x[Len(a) + 1] = Head(q)
  BY <1>1, <1>2
<1>6. \A i \in 1..Len(a) : y[i] = x[i]
  BY <1>2, <1>3
<1>7. ASSUME NEW i \in (Len(a) + 1)..Len(y)
      PROVE  y[i] = x[i + 1]
  <2> DEFINE k == i - Len(a)
  <2>1. k \in 1..(Len(q) - 1) /\ k + 1 \in 1..Len(q) /\ i = Len(a) + k /\ i + 1 = Len(a) + (k + 1)
    BY <1>1, <1>3
  <2> HIDE DEF k
  <2>2. y[i] = Tail(q)[k] /\ Tail(q)[k] = q[k + 1] /\ x[i + 1] = q[k + 1]
    BY <1>1, <1>2, <1>3, <2>1
  <2> QED BY <2>2
<1>8. Without(x, Len(a) + 1, y)
  <2>1. (Len(a) + 1) - 1 = Len(a)
    BY <1>1
  <2> QED BY <1>4, <1>6, <1>7, <2>1 DEF Without
<1> QED BY <1>3, <1>5, <1>8 DEF x, y

\* The messages that remain.
LEMMA WithoutElements ==
    ASSUME NEW q \in Seq(Downs), NEW p, NEW c \in Seq(Downs), Without(q, p, c)
    PROVE  \A i \in DOMAIN c : \E k \in DOMAIN q : c[i] = q[k]
<1>1. /\ DOMAIN q = 1..Len(q) /\ DOMAIN c = 1..(Len(q) - 1) /\ Len(q) \in Nat /\ p \in 1..Len(q)
      /\ Len(c) = Len(q) - 1
  BY DEF Without
<1> TAKE i \in DOMAIN c
<1>2. CASE i <= p - 1
  BY <1>1, <1>2 DEF Without
<1>3. CASE ~(i <= p - 1)
  <2>1. i \in p..Len(c) /\ i + 1 \in DOMAIN q
    BY <1>1, <1>3
  <2> QED BY <2>1 DEF Without
<1> QED BY <1>2, <1>3

\* A message other than the beginning and the end of the stream comes on the
\* bridge's socket.
LEMMA HandledSocket ==
    ASSUME SyncInvariant, NEW s \in Sockets, link[s].down # <<>>,
           Head(link[s].down).type \notin {"open", "end", "refused"},
           link' = [link EXCEPT ![s].down = Tail(@)]
    PROVE  /\ s = bridge.socket /\ link[s].ready = "open"
           /\ link' \in [Sockets -> Links]
           /\ link'[s].ready = "open" /\ link'[s].up = link[s].up
           /\ link'[s].down = Tail(link[s].down)
           /\ \A x \in Sockets : x # s => link'[x] = link[x]
           /\ Linked(s, link'[s], bridge)
<1> DEFINE q == link[s].down
           rest == Tail(q)
           n == [link[s] EXCEPT !.down = rest]
<1>1. Typed /\ Connection /\ link[s] \in Links /\ q \in Seq(Downs) /\ Linked(s, link[s], bridge)
  BY BufferedTyped DEF SyncInvariant, Connection
<1>2. /\ 1 \in DOMAIN q /\ Head(q) = q[1] /\ rest \in Seq(Downs)
      /\ \A i \in DOMAIN rest : i \in Nat \ {0} /\ i + 1 \in DOMAIN q /\ rest[i] = q[i + 1]
  BY <1>1, TailElements
<1>3. link[s].ready = "open" /\ s = bridge.socket
  BY <1>1, <1>2 DEF Linked, Links
<1>4. link' = [link EXCEPT ![s] = n]
  BY <1>1 DEF Typed
<1>5. \A i \in DOMAIN q : q[i].type # "open"
  BY <1>1, <1>3 DEF Linked
<1> HIDE DEF rest, q
<1>6. n \in Links /\ n.ready = "open" /\ n.up = link[s].up /\ n.down = rest
  BY <1>1, <1>2, <1>3 DEF Links
<1> HIDE DEF n
<1>7. /\ link' \in [Sockets -> Links] /\ link'[s] = n
      /\ \A x \in Sockets : x # s => link'[x] = link[x]
  BY <1>1, <1>4, <1>6, OneLinkTyped
<1>8. Linked(s, n, bridge)
  BY <1>2, <1>3, <1>5, <1>6 DEF Linked
<1> QED BY <1>3, <1>6, <1>7, <1>8 DEF rest, q

\* What remains to be shown of such a message.
LEMMA HandledInvariant ==
    ASSUME SyncInvariant, NEW s \in Sockets, link[s].down # <<>>,
           Head(link[s].down).type \notin {"open", "end", "refused"},
           link' = [link EXCEPT ![s].down = Tail(@)],
           UNCHANGED <<stores, daemon, stopped>>,
           bridge' \in Bridges, view' \in Views,
           bridge'.socket = bridge.socket, bridge'.connecting = bridge.connecting,
           NEW d \in DOMAIN stores, Carries(s, d)',
           OneSnapshot(s)', \A k \in States(link'[s].down) : Ahead(link[s].down[k])',
           bridge'.answer # None => bridge'.state = "synchronizing" /\ Ahead(bridge.answer)',
           Shown'
    PROVE  SyncInvariant'
<1>1. Typed /\ Connection /\ Streams /\ Snapshots
  BY DEF SyncInvariant
<1>2. /\ s = bridge.socket /\ link[s].ready = "open"
      /\ link' \in [Sockets -> Links]
      /\ link'[s].ready = "open" /\ link'[s].up = link[s].up
      /\ link'[s].down = Tail(link[s].down)
      /\ \A x \in Sockets : x # s => link'[x] = link[x]
      /\ Linked(s, link'[s], bridge)
  BY HandledSocket
<1>3. Typed'
  BY <1>1, <1>2 DEF Typed
<1>4. Connection'
  <2>1. ASSUME NEW x \in Sockets PROVE Linked(x, link'[x], bridge')
    <3>1. Linked(x, link'[x], bridge)
      BY <1>1, <1>2 DEF Connection
    <3> QED BY <3>1 DEF Linked
  <2>2. \A x \in daemon.clients : link'[x].ready = "connecting" => link'[x].down # <<>>
    BY <1>1, <1>2 DEF Connection, Typed
  <2>3. bridge'.socket # None
    BY <1>2, SyncAssumption
  <2> QED BY <1>1, <2>1, <2>2, <2>3 DEF Connection
<1>5. Streams'
  <2>1. ASSUME NEW x \in Sockets, x # s PROVE \E y \in DOMAIN stores : Carries(x, y)'
    <3>1. PICK y \in DOMAIN stores : Carries(x, y)
      BY <1>1 DEF Streams
    <3>2. x # bridge.socket /\ x # bridge'.socket /\ link'[x] = link[x] /\ stores' = stores
          /\ daemon' = daemon
      BY <1>2, <2>1
    <3> QED BY <3>1, <3>2, AsideCarries
  <2> QED BY <2>1 DEF Streams
<1>6. ASSUME NEW x \in Sockets
      PROVE  OneSnapshot(x)' /\ \A k \in States(link'[x].down) : Ahead(link[x].down[k])'
  <2>1. CASE x # s
    <3>1. OneSnapshot(x) /\ ~Expecting(x) /\ link'[x] = link[x]
      BY <1>1, <1>2, <2>1 DEF Snapshots, Expecting
    <3> QED BY <3>1 DEF OneSnapshot
  <2> QED BY <2>1
<1>7. Snapshots'
  BY <1>6 DEF Snapshots
<1> QED BY <1>3, <1>4, <1>5, <1>7 DEF SyncInvariant

\* The stream of the bridge's socket when a message is taken from it.
LEMMA TakenCarries ==
    ASSUME SyncInvariant, NEW s \in Sockets, link[s].down # <<>>,
           Head(link[s].down).type \notin {"open", "end", "refused"},
           link' = [link EXCEPT ![s].down = Tail(@)],
           stores' = stores, daemon' = daemon,
           bridge'.socket = bridge.socket, bridge'.buffered = bridge.buffered,
           NEW d \in DOMAIN stores, Carries(s, d),
           bridge'.answer # None => bridge'.answer.store = d /\ bridge'.answer.seq <= stores[d],
           bridge'.state = "connected" => view'.store = d,
           \A n \in Bases(s)' :
              /\ n \in Nat /\ Follows(n, Stream(s)) /\ (Fed(s) => Reaches(n, Stream(s), stores[d]))
              /\ Head(link[s].down).type = "event" => Head(link[s].down).seq <= n
    PROVE  Carries(s, d)'
<1> DEFINE a == bridge.buffered
           q == link[s].down
           x == Stream(s)
           y == Stream(s)'
           p == Len(a) + 1
<1>1. Typed /\ a \in Seq(Downs) /\ q \in Seq(Downs) /\ stores[d] \in Nat
  BY BufferedTyped, StoreTyped DEF SyncInvariant
<1>2. /\ s = bridge.socket /\ link[s].ready = "open" /\ link'[s].ready = "open"
      /\ link'[s].down = Tail(q)
  BY HandledSocket
<1>3. x = a \o q /\ y = a \o Tail(q)
  BY <1>2 DEF Stream
<1>4. /\ x \in Seq(Downs) /\ y \in Seq(Downs) /\ Without(x, p, y) /\ x[p] = Head(q)
  <2>1. /\ Without(a \o q, Len(a) + 1, a \o Tail(q)) /\ (a \o q)[Len(a) + 1] = Head(q)
        /\ a \o Tail(q) \in Seq(Downs)
    <3> HIDE DEF a, q
    <3> QED BY <1>1, JoinedTail DEF q
  <2>2. x \in Seq(Downs)
    BY <1>1, StreamIsJoined
  <2> QED BY <1>3, <2>1, <2>2
<1>5. \A i \in DOMAIN y : y[i].type \in {"event", "state"} => y[i].store = d /\ y[i].seq <= stores'[d]
  <2>1. \A i \in DOMAIN x : x[i].type \in {"event", "state"} => x[i].store = d /\ x[i].seq <= stores'[d]
    BY DEF Carries
  <2> HIDE DEF x, y, p
  <2>2. \A i \in DOMAIN y : \E k \in DOMAIN x : y[i] = x[k]
    BY <1>4, WithoutElements
  <2> QED BY <2>1, <2>2
<1>6. Fed(s)' = Fed(s) /\ (s \in daemon'.clients => d = Store')
  BY <1>2 DEF Fed, Carries, Store
<1>7. ASSUME NEW n \in Bases(s)'
      PROVE  Follows(n, y) /\ (Fed(s)' => Reaches(n, y, stores'[d]))
  <2>1. n \in Nat /\ Follows(n, x) /\ (Fed(s) => Reaches(n, x, stores[d]))
        /\ (x[p].type = "event" => x[p].seq <= n)
    BY <1>4
  <2> HIDE DEF x, y, p
  <2> QED BY <1>1, <1>4, <1>6, <2>1, WithoutFollows
<1> QED BY <1>5, <1>6, <1>7 DEF Carries

\* The snapshot on that socket, when another message is taken.
LEMMA TakenSnapshot ==
    ASSUME SyncInvariant, NEW s \in Sockets, link[s].down # <<>>,
           Head(link[s].down).type \notin {"open", "end", "refused", "state"},
           link' = [link EXCEPT ![s].down = Tail(@)],
           bridge'.socket = bridge.socket, bridge'.state = bridge.state,
           bridge'.answer = bridge.answer,
           bridge.state = "synchronizing" => view' = view /\ bridge'.seen = bridge.seen
    PROVE  /\ OneSnapshot(s)' /\ \A k \in States(link'[s].down) : Ahead(link[s].down[k])'
           /\ \A k \in States(link'[s].down) : k + 1 \in States(link[s].down)
                                               /\ link'[s].down[k] = link[s].down[k + 1]
<1> DEFINE q == link[s].down
<1>1. q \in Seq(Downs) /\ OneSnapshot(s) /\ \A k \in States(q) : Ahead(q[k])
  BY BufferedTyped DEF SyncInvariant, Snapshots
<1>2. link'[s].ready = "open" /\ link'[s].up = link[s].up /\ link[s].ready = "open"
      /\ link'[s].down = Tail(q)
  BY HandledSocket
<1>3. \A k \in States(Tail(q)) : k + 1 \in States(q) /\ k \in Nat /\ Tail(q)[k] = q[k + 1]
  BY <1>1, TailElements
<1>4. Expecting(s) = Expecting(s)'
  BY DEF Expecting
<1>5. \A k \in States(q) : Expecting(s) /\ States(q) = {k}
  BY <1>1 DEF OneSnapshot
<1>6. \A k \in States(Tail(q)) : Expecting(s)' /\ States(Tail(q)) = {k}
  <2> TAKE k \in States(Tail(q))
  <2>1. Expecting(s)' /\ States(q) = {k + 1}
    BY <1>3, <1>4, <1>5
  <2>2. \A j \in States(Tail(q)) : j = k
    <3> TAKE j \in States(Tail(q))
    <3>1. j + 1 = k + 1 /\ j \in Nat /\ k \in Nat
      BY <1>3, <2>1
    <3> QED BY <3>1
  <2> QED BY <2>1, <2>2
<1>7. \A k \in States(Tail(q)) : Ahead(link[s].down[k])'
  <2> TAKE k \in States(Tail(q))
  <2>1. Ahead(q[k + 1]) /\ link'[s].down[k] = q[k + 1]
    BY <1>1, <1>2, <1>3
  <2>2. view' = view /\ bridge'.seen = bridge.seen
    BY <1>4, <1>6 DEF Expecting
  <2> HIDE DEF q
  <2> QED BY <2>1, <2>2 DEF Ahead
<1>8. \A i \in DOMAIN link'[s].up : link'[s].up[i].type = "state.get" =>
         i = 1 /\ Expecting(s)' /\ States(Tail(q)) = {}
  BY <1>1, <1>2, <1>3, <1>4 DEF OneSnapshot
<1> HIDE DEF q
<1>9. OneSnapshot(s)'
  BY <1>2, <1>6, <1>8 DEF OneSnapshot
<1> QED BY <1>2, <1>3, <1>7, <1>9 DEF q

\* The snapshots that remain.
LEMMA TakenSnapped ==
    ASSUME NEW s, \A k \in States(link'[s].down) : \E j \in States(link[s].down) :
                     link'[s].down[k].seq = link[s].down[j].seq
    PROVE  Snapped(s)' \subseteq Snapped(s)
BY DEF Snapped

\* A reply, or a message that finds the bridge in no state for it.
LEMMA PassedKeeps ==
    ASSUME SyncInvariant, NEW s \in Sockets, link[s].down # <<>>,
           Head(link[s].down).type \notin {"open", "end", "refused", "state"},
           link' = [link EXCEPT ![s].down = Tail(@)],
           UNCHANGED <<stores, daemon, stopped, bridge, view>>,
           Head(link[s].down).type = "event" => bridge.state \notin {"synchronizing", "connected"}
    PROVE  SyncInvariant'
<1>1. Typed /\ Streams /\ Snapshots /\ Shown
  BY DEF SyncInvariant
<1>2. s = bridge.socket /\ s # None
  BY HandledSocket, SyncAssumption
<1>3. PICK d \in DOMAIN stores : Carries(s, d)
  BY <1>1 DEF Streams
<1>4. /\ OneSnapshot(s)' /\ \A k \in States(link'[s].down) : Ahead(link[s].down[k])'
      /\ \A k \in States(link'[s].down) : k + 1 \in States(link[s].down)
                                          /\ link'[s].down[k] = link[s].down[k + 1]
  BY TakenSnapshot
<1>5. Bases(s)' \subseteq Bases(s)
  <2>1. \A k \in States(link'[s].down) : \E j \in States(link[s].down) :
           link'[s].down[k].seq = link[s].down[j].seq
    BY <1>4
  <2>2. Snapped(s)' \subseteq Snapped(s)
    BY <2>1, TakenSnapped
  <2> QED BY <2>2 DEF Bases, Snapped
<1>6. Head(link[s].down).type = "event" => Bases(s) = {}
  <2> SUFFICES ASSUME Head(link[s].down).type = "event" PROVE Bases(s) = {}
    OBVIOUS
  <2>1. bridge.answer = None /\ bridge.state # "connected"
    BY <1>1 DEF Snapshots
  <2>2. States(link[s].down) = {}
    BY <1>1 DEF Snapshots, OneSnapshot, Expecting
  <2> QED BY <2>1, <2>2 DEF Bases
<1>7. \A n \in Bases(s)' :
         /\ n \in Nat /\ Follows(n, Stream(s)) /\ (Fed(s) => Reaches(n, Stream(s), stores[d]))
         /\ Head(link[s].down).type = "event" => Head(link[s].down).seq <= n
  BY <1>1, <1>3, <1>5, <1>6, BasesTyped DEF Carries
<1>8. Carries(s, d)'
  BY <1>2, <1>3, <1>7, TakenCarries DEF Carries
<1>9. Shown'
  BY <1>1 DEF Shown
<1>10. bridge'.answer # None => bridge'.state = "synchronizing" /\ Ahead(bridge.answer)'
  BY <1>1 DEF Snapshots, Ahead
<1>11. bridge' \in Bridges /\ view' \in Views
  BY <1>1 DEF Typed
<1> QED BY <1>4, <1>8, <1>9, <1>10, <1>11, HandledInvariant

\* The snapshot: the bridge will go on with it.
LEMMA AnswerKeeps ==
    ASSUME SyncInvariant, NEW s \in Sockets, link[s].down # <<>>,
           Head(link[s].down).type = "state",
           link' = [link EXCEPT ![s].down = Tail(@)],
           UNCHANGED <<stores, daemon, stopped, view>>,
           bridge' = [bridge EXCEPT !.answer = Head(link[s].down)]
    PROVE  SyncInvariant' /\ bridge'.socket = bridge.socket
<1> DEFINE q == link[s].down
           m == Head(q)
<1>1. Typed /\ Streams /\ Snapshots /\ Shown /\ q \in Seq(Downs) /\ bridge \in Bridges
      /\ bridge.buffered \in Seq(Downs)
  BY BufferedTyped DEF SyncInvariant, Typed
<1>2. /\ s = bridge.socket /\ s # None /\ link[s].ready = "open" /\ link'[s].ready = "open"
      /\ link'[s].down = Tail(q) /\ link'[s].up = link[s].up
  BY HandledSocket, SyncAssumption
<1>3. /\ m \in StateMessages /\ m = q[1] /\ 1 \in States(q)
      /\ \A k \in States(Tail(q)) : k + 1 \in States(q) /\ k \in Nat \ {0}
  BY <1>1, TailElements DEF States
<1>4. Expecting(s) /\ States(q) = {1} /\ Ahead(m) /\ OneSnapshot(s)
  <2>1. OneSnapshot(s) /\ Ahead(q[1])
    BY <1>1, <1>3 DEF Snapshots
  <2>2. m = q[1]
    BY <1>3
  <2>3. Expecting(s) /\ States(q) = {1}
    BY <1>3, <2>1 DEF OneSnapshot
  <2> QED BY <2>1, <2>2, <2>3
<1>5. States(Tail(q)) = {}
  <2>1. \A k \in States(Tail(q)) : k + 1 = 1 /\ k \in Nat \ {0}
    BY <1>3, <1>4
  <2>2. \A k \in States(Tail(q)) : FALSE
    BY <2>1
  <2> QED BY <2>2
<1>6. m.seq \in Nat
  BY <1>3 DEF StateMessages
<1> HIDE DEF m
<1>7. /\ bridge' \in Bridges /\ bridge'.socket = bridge.socket /\ bridge'.answer = m
      /\ bridge'.connecting = bridge.connecting /\ bridge'.state = bridge.state
      /\ bridge'.buffered = bridge.buffered /\ bridge'.seen = bridge.seen
      /\ bridge'.lastSeq = bridge.lastSeq
  BY <1>1, <1>3 DEF Bridges, m
<1>8. PICK d \in DOMAIN stores : Carries(s, d)
  BY <1>1 DEF Streams
<1>9. m.store = d /\ m.seq <= stores[d] /\ m.seq \in Bases(s)
  <2> DEFINE p == Len(bridge.buffered) + 1
  <2>1. Stream(s)[p] = m /\ p \in DOMAIN Stream(s)
    <3>1. Stream(s) = bridge.buffered \o q
      BY <1>2 DEF Stream
    <3>2. /\ Without(bridge.buffered \o q, p, bridge.buffered \o Tail(q))
          /\ (bridge.buffered \o q)[p] = Head(q)
      BY <1>1, JoinedTail
    <3> QED BY <3>1, <3>2 DEF Without, m
  <2>2. m.type = "state"
    BY DEF m
  <2>3. m.seq \in Bases(s)
    BY <1>3, <1>4 DEF Bases, States
  <2> QED BY <1>8, <2>1, <2>2, <2>3 DEF Carries
<1>10. Bases(s)' \subseteq {m.seq}
  BY <1>2, <1>4, <1>5, <1>7 DEF Bases, Expecting
<1>11. \A n \in Bases(s)' :
         /\ n \in Nat /\ Follows(n, Stream(s)) /\ (Fed(s) => Reaches(n, Stream(s), stores[d]))
         /\ Head(link[s].down).type = "event" => Head(link[s].down).seq <= n
  BY <1>6, <1>8, <1>9, <1>10 DEF Carries
<1>12. Carries(s, d)'
  BY <1>4, <1>7, <1>8, <1>9, <1>11, TakenCarries DEF Expecting
<1>13. OneSnapshot(s)' /\ \A k \in States(link'[s].down) : Ahead(link[s].down[k])'
  <2>1. \A i \in DOMAIN link'[s].up : link'[s].up[i].type # "state.get"
    BY <1>2, <1>4 DEF OneSnapshot
  <2>2. States(link'[s].down) = {}
    BY <1>2, <1>5
  <2> QED BY <2>1, <2>2 DEF OneSnapshot
<1>14. Shown'
  BY <1>1, <1>4, <1>7 DEF Shown, Expecting
<1>15. bridge'.answer # None => bridge'.state = "synchronizing" /\ Ahead(bridge.answer)'
  BY <1>4, <1>7 DEF Ahead, Expecting
<1>16. view' \in Views
  BY <1>1 DEF Typed
<1>17. SyncInvariant'
  BY <1>7, <1>12, <1>13, <1>14, <1>15, <1>16, HandledInvariant
<1> QED BY <1>7, <1>17

-----------------------------------------------------------------------------
(* Events are applied.                                                     *)

\* A view of the first n events, and of one more.
LEMMA ViewTyped ==
    ASSUME NEW d \in Nat, NEW n \in Nat
    PROVE  /\ Abstract!ViewOf(d, n) \in Views
           /\ Abstract!ViewOf(d, n).store = d /\ Len(Abstract!ViewOf(d, n).events) = n
           /\ [Abstract!ViewOf(d, n) EXCEPT !.events = Append(@, <<d, n + 1>>)] = Abstract!ViewOf(d, n + 1)
<1> DEFINE f == [i \in 1..n |-> <<d, i>>]
           g == [i \in 1..(n + 1) |-> <<d, i>>]
<1>1. f \in Seq(Nat \X Nat) /\ Len(f) = n /\ \A i \in 1..n : f[i] = <<d, i>>
  OBVIOUS
<1>2. g \in Seq(Nat \X Nat) /\ Len(g) = n + 1 /\ \A i \in 1..(n + 1) : g[i] = <<d, i>>
  OBVIOUS
<1>3. Abstract!ViewOf(d, n) = [store |-> d, events |-> f]
      /\ Abstract!ViewOf(d, n + 1) = [store |-> d, events |-> g]
  BY DEF Abstract!ViewOf, Abstract!FirstEvents
<1> HIDE DEF f, g
<1>4. Append(f, <<d, n + 1>>) = g
  <2> DEFINE e == <<d, n + 1>>
             h == Append(f, e)
  <2>1. e \in Nat \X Nat
    OBVIOUS
  <2>2. g[n + 1] = e
    BY <1>2
  <2> HIDE DEF e
  <2>3. h \in Seq(Nat \X Nat) /\ Len(h) = n + 1 /\ h[n + 1] = e /\ \A i \in 1..n : h[i] = f[i]
    BY <1>1, <2>1, AppendProperties
  <2> HIDE DEF h
  <2>4. \A i \in 1..Len(h) : h[i] = g[i]
    <3> TAKE i \in 1..Len(h)
    <3>1. CASE i = n + 1
      BY <2>2, <2>3, <3>1
    <3>2. CASE i # n + 1
      <4>1. i \in 1..n /\ i \in 1..(n + 1)
        BY <2>3, <3>2
      <4> QED BY <1>1, <1>2, <2>3, <4>1
    <3> QED BY <3>1, <3>2
  <2>5. h = g
    BY <1>2, <2>3, <2>4, SeqEqual
  <2> QED BY <2>5 DEF h, e
<1>5. [store |-> d, events |-> f] \in Views
  BY <1>1 DEF Views
<1> DEFINE e == <<d, n + 1>>
<1> HIDE DEF e
<1>6. [[store |-> d, events |-> f] EXCEPT !.events = Append(@, e)]
        = [store |-> d, events |-> Append(f, e)]
  OBVIOUS
<1>7. Append(f, e) = g
  BY <1>4 DEF e
<1>8. [Abstract!ViewOf(d, n) EXCEPT !.events = Append(@, e)] = Abstract!ViewOf(d, n + 1)
  BY <1>3, <1>6, <1>7, Zenon
<1>9. Abstract!ViewOf(d, n).store = d /\ Abstract!ViewOf(d, n).events = f
  BY <1>3
<1>10. Abstract!ViewOf(d, n) \in Views
  BY <1>3, <1>5, Zenon
<1> QED BY <1>1, <1>8, <1>9, <1>10 DEF e

\* The first k events of a log have been applied, and none after them.
AppliedUpTo(a, d, k) ==
    /\ a = [seen |-> a.seen, lastSeq |-> k, view |-> Abstract!ViewOf(d, k)]
    /\ a.seen \in SUBSET (Nat \X Nat)
    /\ \A x \in a.seen : x[1] = d => x[2] <= k

\* An event that is not ahead of the next one: it is the next one, or known.
LEMMA AppliedEvent ==
    ASSUME NEW e \in EventMessages, NEW d \in Nat, NEW n \in Nat, NEW b, AppliedUpTo(b, d, n),
           e.store = d, e.seq <= n + 1, NEW a, a = ApplyDomainEvent(b, e)
    PROVE  \E k \in Nat : /\ AppliedUpTo(a, d, k) /\ n <= k /\ e.seq <= k /\ k \in {n, e.seq}
                          /\ \A x \in a.seen : x \in b.seen \/ (x[1] = d /\ x[2] = e.seq)
<1> DEFINE x == <<e.store, e.seq>>
           k == IF e.seq <= n THEN n ELSE e.seq
           old == Abstract!ViewOf(d, n)
           new == IF e.seq <= n THEN old ELSE [old EXCEPT !.events = Append(@, x)]
           s == b.seen \cup {x}
<1>1. /\ e.seq \in Nat /\ x \in Nat \X Nat /\ x[1] = d /\ x[2] = e.seq
      /\ b.seen \in SUBSET (Nat \X Nat) /\ \A y \in b.seen : y[1] = d => y[2] <= n
  BY DEF EventMessages, AppliedUpTo
<1>2. k \in Nat /\ n <= k /\ e.seq <= k /\ (k = n \/ (k = e.seq /\ k = n + 1))
  BY <1>1
<1>3. new = Abstract!ViewOf(d, k)
  <2>1. CASE e.seq <= n
    BY <2>1
  <2>2. CASE ~(e.seq <= n)
    <3>1. x = <<d, n + 1>> /\ k = n + 1
      BY <1>1, <2>2
    <3> HIDE DEF x, k
    <3>2. new = [old EXCEPT !.events = Append(@, <<d, n + 1>>)]
      BY <2>2, <3>1
    <3> HIDE DEF new, old
    <3> QED BY <3>1, <3>2, ViewTyped DEF old
  <2> QED BY <2>1, <2>2
<1>4. b.lastSeq = n /\ b.view = old
  <2> HIDE DEF old
  <2> QED BY DEF AppliedUpTo, old
<1>5. a = IF x \in b.seen THEN b ELSE [seen |-> s, lastSeq |-> k, view |-> new]
  BY <1>4 DEF ApplyDomainEvent
<1>6. CASE x \in b.seen
  <2>1. k = n /\ a = b
    BY <1>1, <1>5, <1>6
  <2> HIDE DEF k, x
  <2> QED BY <1>2, <2>1
<1>7. CASE x \notin b.seen
  <2>1. /\ s \in SUBSET (Nat \X Nat) /\ \A y \in s : y \in b.seen \/ (y[1] = d /\ y[2] = e.seq)
        /\ \A y \in s : y[1] = d => y[2] <= k
    <3>1. \A y \in s : y \in b.seen \/ (y[1] = d /\ y[2] = e.seq)
      BY <1>1
    <3>2. s \in SUBSET (Nat \X Nat)
      BY <1>1
    <3>3. \A y \in s : y[2] \in Nat
      BY <3>2
    <3> HIDE DEF s, k
    <3> QED BY <1>1, <1>2, <3>1, <3>2, <3>3
  <2> HIDE DEF old, new, s, x, k
  <2>2. a = [seen |-> s, lastSeq |-> k, view |-> Abstract!ViewOf(d, k)]
    BY <1>3, <1>5, <1>7
  <2>3. a.seen = s
    BY <2>2
  <2>4. AppliedUpTo(a, d, k)
    BY <2>1, <2>2, <2>3 DEF AppliedUpTo
  <2> QED BY <1>2, <2>1, <2>3, <2>4
<1> QED BY <1>6, <1>7

\* What is shown moves on, or stays, as EditorView lets it.
LEMMA ShownFollows ==
    ASSUME SyncInvariant, stores' = stores, ~stopped, stopped' \in BOOLEAN,
           NEW d \in DOMAIN stores, NEW n \in 0..stores[d], view' = Abstract!ViewOf(d, n),
           view.store <= d, view.store = d => Len(view.events) <= n
    PROVE  [Abstract!Next]_Abstract!viewVars
<1>1. Typed /\ Shown /\ stores[d] \in Nat /\ d \in Nat
  BY StoreTyped DEF SyncInvariant, Typed
<1>2. view.store \in Nat /\ Len(view.events) \in Nat /\ stopped = FALSE
      /\ stopped' \in {stopped, TRUE}
  <2>1. view \in Views /\ stopped \in BOOLEAN
    BY <1>1 DEF Typed
  <2>2. view.store \in Nat /\ Len(view.events) \in Nat
    BY <2>1 DEF Views
  <2> QED BY <2>1, <2>2
<1>3. CASE view.store = d /\ Len(view.events) = n
  <2>1. view' = view
    BY <1>1, <1>3 DEF Shown
  <2> QED BY <1>2, <2>1 DEF Abstract!Next, Abstract!Stop, Abstract!viewVars
<1>4. CASE ~(view.store = d /\ Len(view.events) = n)
  <2>1. d > view.store \/ (d = view.store /\ n > Len(view.events))
    BY <1>1, <1>2, <1>4
  <2>2. Abstract!Follow
    BY <2>1 DEF Abstract!Follow
  <2> QED BY <1>2, <2>2 DEF Abstract!Next
<1> QED BY <1>3, <1>4

\* An event waits for the snapshot.
LEMMA BufferedKeeps ==
    ASSUME SyncInvariant, NEW s \in Sockets, link[s].down # <<>>,
           Head(link[s].down).type = "event", bridge.state = "synchronizing",
           link' = [link EXCEPT ![s].down = Tail(@)],
           UNCHANGED <<stores, daemon, stopped, view>>,
           bridge' = [bridge EXCEPT !.buffered = Append(@, Head(link[s].down))]
    PROVE  SyncInvariant' /\ bridge'.socket = bridge.socket
<1> DEFINE q == link[s].down
           m == Head(q)
           c == Append(bridge.buffered, m)
<1>1. Typed /\ Streams /\ Snapshots /\ Shown /\ q \in Seq(Downs) /\ bridge \in Bridges
      /\ bridge.buffered \in Seq(Downs)
  BY BufferedTyped DEF SyncInvariant, Typed
<1>2. /\ s = bridge.socket /\ s # None /\ link[s].ready = "open" /\ link'[s].ready = "open"
      /\ link'[s].down = Tail(q)
  BY HandledSocket, SyncAssumption
<1>3. m \in EventMessages
  BY <1>1, TailElements
<1>4. c \in Seq(EventMessages)
  <2>1. bridge.buffered \in Seq(EventMessages)
    BY <1>1 DEF Bridges
  <2> HIDE DEF m
  <2> QED BY <1>3, <2>1
<1>5. c \o Tail(q) = bridge.buffered \o q
  <2> DEFINE a == bridge.buffered
  <2>1. a \in Seq(Downs)
    BY <1>1
  <2> HIDE DEF a, q
  <2> QED BY <1>1, <2>1, JoinMoves DEF a, q
<1> HIDE DEF c, m
<1>6. /\ bridge' \in Bridges /\ bridge'.socket = bridge.socket /\ bridge'.buffered = c
      /\ bridge'.connecting = bridge.connecting /\ bridge'.state = bridge.state
      /\ bridge'.answer = bridge.answer /\ bridge'.seen = bridge.seen
      /\ bridge'.lastSeq = bridge.lastSeq
  BY <1>1, <1>4 DEF Bridges, c, m
<1>7. /\ OneSnapshot(s)' /\ \A k \in States(link'[s].down) : Ahead(link[s].down[k])'
      /\ \A k \in States(link'[s].down) : k + 1 \in States(link[s].down)
                                          /\ link'[s].down[k] = link[s].down[k + 1]
  BY <1>6, TakenSnapshot
<1>8. PICK d \in DOMAIN stores : Carries(s, d)
  BY <1>1 DEF Streams
<1>9. Carries(s, d)'
  <2>1. Stream(s)' = Stream(s)
    BY <1>2, <1>5, <1>6 DEF Stream
  <2>2. Bases(s)' \subseteq Bases(s)
    <3>1. Snapped(s)' \subseteq Snapped(s)
      <4>1. \A k \in States(link'[s].down) : \E j \in States(link[s].down) :
               link'[s].down[k].seq = link[s].down[j].seq
        BY <1>7
      <4> QED BY <4>1, TakenSnapped
    <3> QED BY <1>6, <3>1 DEF Bases, Snapped
  <2>3. Fed(s)' = Fed(s) /\ Store' = Store
    BY <1>2 DEF Fed, Store
  <2> QED BY <1>6, <1>8, <2>1, <2>2, <2>3 DEF Carries
<1>10. Shown'
  BY <1>1, <1>6 DEF Shown
<1>11. bridge'.answer # None => bridge'.state = "synchronizing" /\ Ahead(bridge.answer)'
  BY <1>1, <1>6 DEF Snapshots, Ahead
<1>12. view' \in Views
  BY <1>1 DEF Typed
<1>13. SyncInvariant'
  BY <1>6, <1>7, <1>9, <1>10, <1>11, <1>12, HandledInvariant
<1> QED BY <1>6, <1>13

\* Event m, of log d, comes next in the stream q, and what is shown is that log's.
ComesNext(s, q, m, d) ==
    /\ Carries(s, d) /\ m.store = d /\ m.seq <= stores[d] /\ bridge.lastSeq <= stores[d]
    /\ view.store = d /\ view = Abstract!ViewOf(d, bridge.lastSeq)
    /\ \A x \in bridge.seen : x[1] = d => x[2] <= bridge.lastSeq
    /\ Follows(bridge.lastSeq, q)
    /\ Fed(s) => Reaches(bridge.lastSeq, q, stores[d])

\* The next message is an event, and the bridge is connected.
LEMMA NextEvent ==
    ASSUME SyncInvariant, NEW s \in Sockets, s = bridge.socket, bridge.state = "connected",
           NEW q, q = link[s].down, q # <<>>, NEW m, m = Head(q), m.type = "event"
    PROVE  /\ bridge.answer = None /\ States(q) = {} /\ bridge.buffered = <<>> /\ Stream(s) = q
           /\ m \in EventMessages /\ bridge.lastSeq \in Nat /\ bridge.lastSeq = Len(view.events)
           /\ m.seq <= bridge.lastSeq + 1
           /\ \E d \in DOMAIN stores : ComesNext(s, q, m, d)
<1> DEFINE n == bridge.lastSeq
<1>1. Typed /\ Streams /\ Snapshots /\ Shown /\ q \in Seq(Downs) /\ bridge \in Bridges
  BY BufferedTyped DEF SyncInvariant, Typed
<1>3. /\ m \in EventMessages /\ m = q[1] /\ 1 \in Events(q) /\ m.seq \in Nat /\ m.store \in Nat
      /\ m.type = "event"
  BY <1>1, TailElements DEF Events, EventMessages
<1>4. bridge.answer = None /\ States(q) = {} /\ bridge.buffered = <<>>
  BY <1>1 DEF Snapshots, OneSnapshot, Expecting, Shown
<1>5. PICK d \in DOMAIN stores : Carries(s, d)
  BY <1>1 DEF Streams
<1>7. Stream(s) = q
  BY <1>1, <1>4, JoinedElements DEF Stream
<1>8. /\ n = Len(view.events) /\ n \in Nat /\ view.store = d /\ n <= stores[d]
      /\ view = Abstract!ViewOf(d, n)
      /\ \A x \in bridge.seen : x[1] = d => x[2] <= n
  <2>1. Len(view.events) \in Nat
    BY <1>1 DEF Typed, Views
  <2>2. view.store = d
    BY <1>5 DEF Carries
  <2> QED BY <1>1, <2>1, <2>2 DEF Shown
<1>9. Follows(n, q) /\ (Fed(s) => Reaches(n, q, stores[d]))
  <2>1. n \in Bases(s)
    BY DEF Bases
  <2> QED BY <1>5, <1>7, <2>1 DEF Carries
<1>10. m.store = d /\ m.seq <= stores[d]
  <2>1. 1 \in DOMAIN q /\ q[1].type = "event"
    BY <1>3 DEF Events
  <2> QED BY <1>3, <1>5, <1>7, <2>1 DEF Carries
<1>11. m.seq <= n + 1
  <2> SUFFICES ASSUME m.seq > n + 1 PROVE FALSE
    BY <1>3, <1>8
  <2>1. n + 1 \in (n + 1)..(q[1].seq - 1)
    BY <1>3, <1>8
  <2>2. PICK j \in Events(q) : j < 1
    BY <1>3, <1>9, <2>1 DEF Follows
  <2> QED BY <1>1, <2>2, StreamElements
<1>12. ComesNext(s, q, m, d)
  BY <1>5, <1>8, <1>9, <1>10 DEF ComesNext
<1> QED BY <1>3, <1>4, <1>7, <1>8, <1>11, <1>12

\* What is seen and applied changes.
WithApplied(b, seen, n) == [b EXCEPT !.seen = seen, !.lastSeq = n]

\* Nothing else of the bridge does.
LEMMA AppliedBridge ==
    ASSUME NEW b \in Bridges, NEW seen \in SUBSET (Nat \X Nat), NEW n \in Seqs
    PROVE  LET c == WithApplied(b, seen, n)
           IN  /\ c \in Bridges /\ c.socket = b.socket /\ c.buffered = b.buffered
               /\ c.connecting = b.connecting /\ c.state = b.state
               /\ c.answer = b.answer /\ c.seen = seen /\ c.lastSeq = n
BY DEF Bridges, WithApplied

\* What the bridge makes of the event it takes next.
Applying(s) ==
    ApplyDomainEvent([seen |-> bridge.seen, lastSeq |-> bridge.lastSeq, view |-> view],
                     Head(link[s].down))

\* After it the bridge has applied the first k events of log d.
AppliedAs(s, a, d, k) ==
    /\ Carries(s, d) /\ view.store = d
    /\ Head(link[s].down).seq <= stores[d] /\ bridge.lastSeq <= stores[d]
    /\ \A x \in bridge.seen : x[1] = d => x[2] <= bridge.lastSeq
    /\ Follows(bridge.lastSeq, link[s].down)
    /\ Fed(s) => Reaches(bridge.lastSeq, link[s].down, stores[d])
    /\ bridge.lastSeq <= k /\ k \in {bridge.lastSeq, Head(link[s].down).seq}
    /\ Head(link[s].down).seq <= k /\ k <= stores[d]
    /\ a.seen \in SUBSET (Nat \X Nat)
    /\ \A x \in a.seen : x[1] = d => x[2] <= k
    /\ \A x \in a.seen : x \in bridge.seen \/ (x[1] = d /\ x[2] = Head(link[s].down).seq)
    /\ a.lastSeq = k /\ a.view = Abstract!ViewOf(d, k)

\* What applying it gives.
LEMMA NextApplied ==
    ASSUME SyncInvariant, NEW s \in Sockets, s = bridge.socket, bridge.state = "connected",
           link[s].down # <<>>, Head(link[s].down).type = "event"
    PROVE  \E d \in DOMAIN stores : \E k \in Nat : AppliedAs(s, Applying(s), d, k)
<1> DEFINE q == link[s].down
           m == Head(q)
           n == bridge.lastSeq
           b == [seen |-> bridge.seen, lastSeq |-> bridge.lastSeq, view |-> view]
           a == ApplyDomainEvent(b, m)
<1>0. q = link[s].down /\ q # <<>> /\ m = Head(q) /\ m.type = "event" /\ a = Applying(s)
      /\ b = [seen |-> bridge.seen, lastSeq |-> bridge.lastSeq, view |-> view]
      /\ a = ApplyDomainEvent(b, m) /\ n = bridge.lastSeq
  BY DEF Applying
<1> HIDE DEF q, m, a, b, n
<1>1. m \in EventMessages /\ n \in Nat /\ m.seq <= n + 1
  BY <1>0, NextEvent
<1>20. PICK d \in DOMAIN stores : ComesNext(s, q, m, d)
  BY <1>0, NextEvent
<1>2. /\ Carries(s, d) /\ m.store = d /\ m.seq <= stores[d] /\ n <= stores[d]
      /\ view.store = d /\ view = Abstract!ViewOf(d, n)
      /\ \A x \in bridge.seen : x[1] = d => x[2] <= n
      /\ Follows(n, q) /\ (Fed(s) => Reaches(n, q, stores[d]))
  BY <1>0, <1>20 DEF ComesNext
<1>21. AppliedUpTo(b, d, n) /\ b.seen = bridge.seen
  <2>1. b.seen = bridge.seen /\ bridge.seen \in SUBSET (Nat \X Nat)
    BY <1>0 DEF SyncInvariant, Typed, Bridges
  <2>2. b = [seen |-> b.seen, lastSeq |-> n, view |-> Abstract!ViewOf(d, n)]
    BY <1>0, <1>2, <2>1
  <2> QED BY <1>2, <2>1, <2>2 DEF AppliedUpTo
<1>3. d \in Nat
  BY DEF SyncInvariant, Typed
<1>4. PICK k \in Nat : /\ AppliedUpTo(a, d, k) /\ n <= k /\ m.seq <= k /\ k \in {n, m.seq}
                       /\ \A x \in a.seen : x \in b.seen \/ (x[1] = d /\ x[2] = m.seq)
  BY <1>0, <1>1, <1>2, <1>21, <1>3, AppliedEvent
<1>5. a.lastSeq = k /\ a.view = Abstract!ViewOf(d, k) /\ a.seen \in SUBSET (Nat \X Nat)
      /\ \A x \in a.seen : x[1] = d => x[2] <= k
  BY <1>4 DEF AppliedUpTo
<1>6. \A x \in bridge.seen : x[1] = d => x[2] <= n
  BY <1>2
<1>7. k <= stores[d]
  BY <1>2, <1>4
<1>8. AppliedAs(s, a, d, k)
  BY <1>0, <1>2, <1>21, <1>4, <1>5, <1>6, <1>7 DEF AppliedAs
<1> QED BY <1>0, <1>8

\* An event is taken while the bridge is connected.
LEMMA TakenAsKeeps ==
    ASSUME SyncInvariant, NEW s \in Sockets, s = bridge.socket, link[s].down # <<>>, ~stopped,
           Head(link[s].down).type = "event", bridge.state = "connected",
           link' = [link EXCEPT ![s].down = Tail(@)],
           UNCHANGED <<stores, daemon, stopped>>,
           NEW a, NEW d \in DOMAIN stores, NEW k \in Nat, AppliedAs(s, a, d, k),
           bridge' \in Bridges, bridge'.socket = bridge.socket, bridge'.buffered = bridge.buffered,
           bridge'.connecting = bridge.connecting, bridge'.state = bridge.state,
           bridge'.answer = bridge.answer, bridge'.seen = a.seen, bridge'.lastSeq = k,
           view' = a.view
    PROVE  SyncInvariant' /\ [Abstract!Next]_Abstract!viewVars
<1> DEFINE n == bridge.lastSeq
           seen == a.seen
<1>2. /\ bridge.answer = None /\ States(link[s].down) = {} /\ bridge.buffered = <<>>
      /\ Stream(s) = link[s].down /\ n \in Nat /\ n = Len(view.events)
  BY NextEvent
<1>3. seen \in SUBSET (Nat \X Nat) /\ bridge'.seen = seen
  BY DEF AppliedAs
<1>4. /\ Carries(s, d) /\ view.store = d /\ Head(link[s].down).seq <= stores[d] /\ n <= stores[d]
      /\ \A x \in bridge.seen : x[1] = d => x[2] <= n
      /\ Follows(n, link[s].down) /\ (Fed(s) => Reaches(n, link[s].down, stores[d]))
      /\ n <= k /\ k \in {n, Head(link[s].down).seq} /\ Head(link[s].down).seq <= k
      /\ k <= stores[d]
      /\ \A x \in seen : x[1] = d => x[2] <= k
      /\ \A x \in seen : x \in bridge.seen \/ (x[1] = d /\ x[2] = Head(link[s].down).seq)
      /\ view' = Abstract!ViewOf(d, k)
  BY DEF AppliedAs
<1> HIDE DEF n, seen
<1> USE <1>2, <1>3, <1>4
<1> DEFINE q == link[s].down
           m == Head(q)
<1>11. Typed /\ Shown /\ q \in Seq(Downs) /\ d \in Nat /\ stores[d] \in Nat /\ stopped \in BOOLEAN
      /\ view.store \in Nat
  BY BufferedTyped, StoreTyped DEF SyncInvariant, Typed, Views
<1>12. view' \in Views /\ view'.store = d /\ Len(view'.events) = k
  <2> DEFINE v == Abstract!ViewOf(d, k)
  <2>1. v \in Views /\ v.store = d /\ Len(v.events) = k
    BY <1>11, ViewTyped, Zenon
  <2>2. view' = v
    OBVIOUS
  <2> HIDE DEF v
  <2> QED BY <2>1, <2>2, Zenon
<1>13. /\ OneSnapshot(s)' /\ \A i \in States(link'[s].down) : Ahead(link[s].down[i])'
      /\ \A i \in States(link'[s].down) : i + 1 \in States(link[s].down)
                                          /\ link'[s].down[i] = link[s].down[i + 1]
  BY TakenSnapshot
<1>14. \A x \in Bases(s)' :
         /\ x \in Nat /\ Follows(x, Stream(s)) /\ (Fed(s) => Reaches(x, Stream(s), stores[d]))
         /\ Head(link[s].down).type = "event" => Head(link[s].down).seq <= x
  <2>1. Bases(s)' \subseteq {k}
    <3>1. States(link'[s].down) = {}
      BY <1>13
    <3> QED BY <3>1 DEF Bases
  <2>2. Follows(k, q) /\ (Fed(s) => Reaches(k, q, stores[d]))
    BY <1>11, LaterFollows
  <2> QED BY <2>1, <2>2
<1>15. Carries(s, d)'
  BY <1>12, <1>14, TakenCarries
<1>16. Shown'
  <2>1. \A x \in seen : x[1] \in DOMAIN stores /\ x[2] <= stores[x[1]]
    BY <1>11 DEF Shown
  <2> QED BY <1>12, <2>1 DEF Shown
<1>17. SyncInvariant'
  BY <1>12, <1>13, <1>15, <1>16, HandledInvariant
<1>18. [Abstract!Next]_Abstract!viewVars
  <2>1. k \in 0..stores[d] /\ view.store <= d /\ (view.store = d => Len(view.events) <= k)
    BY <1>11
  <2> QED BY <1>11, <2>1, ShownFollows
<1> QED BY <1>17, <1>18

\* So it is when the code takes it.
LEMMA TakenEventKeeps ==
    ASSUME SyncInvariant, NEW s \in Sockets, link[s].down # <<>>, ~stopped,
           Head(link[s].down).type = "event", bridge.state = "connected",
           link' = [link EXCEPT ![s].down = Tail(@)],
           UNCHANGED <<stores, daemon, stopped>>,
           bridge' = [bridge EXCEPT !.seen = Applying(s).seen, !.lastSeq = Applying(s).lastSeq],
           view' = Applying(s).view, s = bridge.socket
    PROVE  /\ SyncInvariant' /\ bridge'.socket = bridge.socket
           /\ [Abstract!Next]_Abstract!viewVars
<1>1. bridge \in Bridges
  BY DEF SyncInvariant, Typed
<1>2. PICK d \in DOMAIN stores, k \in Nat : AppliedAs(s, Applying(s), d, k)
  BY NextApplied
<1> DEFINE seen == Applying(s).seen
           e == WithApplied(bridge, seen, k)
<1>3. bridge' = e /\ seen \in SUBSET (Nat \X Nat) /\ k \in Seqs
  BY <1>2 DEF AppliedAs, WithApplied, Seqs
<1>4. seen = Applying(s).seen
  OBVIOUS
<1> HIDE DEF seen
<1>5. /\ e \in Bridges /\ e.socket = bridge.socket /\ e.buffered = bridge.buffered
      /\ e.connecting = bridge.connecting /\ e.state = bridge.state
      /\ e.answer = bridge.answer /\ e.seen = seen /\ e.lastSeq = k
  BY <1>1, <1>3, AppliedBridge
<1> HIDE DEF e
<1>6. /\ bridge' \in Bridges /\ bridge'.socket = bridge.socket /\ bridge'.buffered = bridge.buffered
      /\ bridge'.connecting = bridge.connecting /\ bridge'.state = bridge.state
      /\ bridge'.answer = bridge.answer /\ bridge'.seen = Applying(s).seen /\ bridge'.lastSeq = k
  BY <1>3, <1>4, <1>5, Zenon
<1>7. SyncInvariant' /\ [Abstract!Next]_Abstract!viewVars
  BY <1>2, <1>6, TakenAsKeeps
<1> QED BY <1>6, <1>7

\* What #handleMessage does with a message of the bridge's own socket.
LEMMA HandledCases ==
    ASSUME NEW s, s = bridge.socket, NEW m, m = Head(link[s].down), Handled(s, m)
    PROVE  \/ /\ m.type # "state" /\ bridge' = bridge /\ view' = view
              /\ m.type = "event" => bridge.state \notin {"synchronizing", "connected"}
           \/ m.type = "state" /\ view' = view /\ bridge' = [bridge EXCEPT !.answer = m]
           \/ /\ m.type = "event" /\ bridge.state = "synchronizing" /\ view' = view
              /\ bridge' = [bridge EXCEPT !.buffered = Append(@, m)]
           \/ /\ m.type = "event" /\ bridge.state = "connected" /\ view' = Applying(s).view
              /\ bridge' = [bridge EXCEPT !.seen = Applying(s).seen,
                                          !.lastSeq = Applying(s).lastSeq]
<1> DEFINE b1 == [bridge EXCEPT !.answer = m]
           b2 == [bridge EXCEPT !.buffered = Append(@, m)]
           a == ApplyDomainEvent([seen |-> bridge.seen, lastSeq |-> bridge.lastSeq, view |-> view], m)
           b3 == [bridge EXCEPT !.seen = a.seen, !.lastSeq = a.lastSeq]
           r == CASE bridge.state = "synchronizing" -> [bridge |-> b2, view |-> view]
                  [] bridge.state = "connected" -> [bridge |-> b3, view |-> a.view]
                  [] OTHER -> [bridge |-> bridge, view |-> view]
<1>1. a = Applying(s)
  BY DEF Applying
<1>2. Receive(bridge, view, m) = r
  BY DEF Receive
<1>3. CASE m.type = "event" \/ m.type = "state"
  <2>1. m.type = "event" => bridge' = r.bridge /\ view' = r.view
    <3>1. m.type = "event" => /\ bridge' = Receive(bridge, view, m).bridge
                              /\ view' = Receive(bridge, view, m).view
      BY DEF Handled
    <3> HIDE DEF r
    <3> QED BY <1>2, <3>1
  <2>2. m.type = "state" => bridge' = b1 /\ view' = view
    BY DEF Handled
  <2> HIDE DEF b1, b2, b3, a
  <2>3. bridge.state = "synchronizing" => r.bridge = b2 /\ r.view = view
    OBVIOUS
  <2>4. bridge.state = "connected" => r.bridge = b3 /\ r.view = a.view
    OBVIOUS
  <2>5. bridge.state \notin {"synchronizing", "connected"} => r.bridge = bridge /\ r.view = view
    OBVIOUS
  <2> HIDE DEF r
  <2>6. CASE m.type = "state"
    BY <2>2, <2>6 DEF b1
  <2>7. CASE m.type = "event"
    <3>1. CASE bridge.state = "synchronizing"
      BY <2>1, <2>3, <2>7, <3>1 DEF b2
    <3>2. CASE bridge.state = "connected"
      <4>1. bridge' = b3 /\ view' = a.view
        BY <2>1, <2>4, <2>7, <3>2
      <4> QED BY <1>1, <2>7, <3>2, <4>1 DEF b3
    <3>3. CASE bridge.state \notin {"synchronizing", "connected"}
      BY <2>1, <2>5, <2>7, <3>3
    <3> QED BY <3>1, <3>2, <3>3
  <2> QED BY <1>3, <2>6, <2>7
<1>4. CASE m.type \notin {"event", "state"}
  BY <1>4 DEF Handled
<1> QED BY <1>3, <1>4

\* The view is kept, and the spec's request() may only begin to spin.
LEMMA ViewKept ==
    ASSUME view' = view, stores' = stores, stopped' = stopped
    PROVE  [Abstract!Next]_Abstract!viewVars
BY DEF Abstract!viewVars

\* #handleMessage keeps the invariant and follows the log.
LEMMA HandledKeeps ==
    ASSUME SyncInvariant, NEW s \in Sockets, link[s].down # <<>>, ~stopped,
           Head(link[s].down).type \notin {"open", "end", "refused"},
           Handled(s, Head(link[s].down)),
           UNCHANGED <<stores, daemon, stopped>>
    PROVE  SyncInvariant' /\ [Abstract!Next]_Abstract!viewVars /\ bridge'.socket = bridge.socket
<1>1. link' = [link EXCEPT ![s].down = Tail(@)]
  BY DEF Handled
<1>2. s = bridge.socket
  BY <1>1, HandledSocket
<1> DEFINE m == Head(link[s].down)
<1>3. \/ /\ m.type # "state" /\ bridge' = bridge /\ view' = view
         /\ m.type = "event" => bridge.state \notin {"synchronizing", "connected"}
      \/ m.type = "state" /\ view' = view /\ bridge' = [bridge EXCEPT !.answer = m]
      \/ /\ m.type = "event" /\ bridge.state = "synchronizing" /\ view' = view
         /\ bridge' = [bridge EXCEPT !.buffered = Append(@, m)]
      \/ /\ m.type = "event" /\ bridge.state = "connected" /\ view' = Applying(s).view
         /\ bridge' = [bridge EXCEPT !.seen = Applying(s).seen, !.lastSeq = Applying(s).lastSeq]
  BY <1>2, HandledCases, Zenon
<1>4. CASE /\ m.type # "state" /\ bridge' = bridge /\ view' = view
           /\ m.type = "event" => bridge.state \notin {"synchronizing", "connected"}
  <2>1. SyncInvariant'
    BY <1>1, <1>4, PassedKeeps
  <2> QED BY <1>4, <2>1, ViewKept
<1>5. CASE m.type = "state" /\ view' = view /\ bridge' = [bridge EXCEPT !.answer = m]
  <2>1. SyncInvariant' /\ bridge'.socket = bridge.socket
    BY <1>1, <1>5, AnswerKeeps
  <2> QED BY <1>5, <2>1, ViewKept
<1>6. CASE /\ m.type = "event" /\ bridge.state = "synchronizing" /\ view' = view
           /\ bridge' = [bridge EXCEPT !.buffered = Append(@, m)]
  <2>1. SyncInvariant' /\ bridge'.socket = bridge.socket
    BY <1>1, <1>6, BufferedKeeps
  <2> QED BY <1>6, <2>1, ViewKept
<1>7. CASE /\ m.type = "event" /\ bridge.state = "connected" /\ view' = Applying(s).view
           /\ bridge' = [bridge EXCEPT !.seen = Applying(s).seen, !.lastSeq = Applying(s).lastSeq]
  BY <1>1, <1>2, <1>7, TakenEventKeeps
<1> QED BY <1>3, <1>4, <1>5, <1>6, <1>7

-----------------------------------------------------------------------------
(* A socket opens, ends or closes.                                         *)

\* The socket that opens, and what the bridge is then.
LEMMA OpeningSocket ==
    ASSUME SyncInvariant, NEW s \in Sockets, link[s].down # <<>>,
           Head(link[s].down).type = "open"
    PROVE  /\ link[s].ready = "connecting" /\ link[s].up = <<>>
           /\ bridge.connecting = s /\ bridge.socket = None /\ bridge.answer = None
           /\ States(link[s].down) = {}
           /\ \A i \in DOMAIN Tail(link[s].down) : Tail(link[s].down)[i].type # "open"
           /\ \A x \in Sockets : x # s => link[x].ready \in {"closing", "closed"} /\ link[x].down = <<>>
<1> DEFINE q == link[s].down
<1>1. /\ Typed /\ Connection /\ Snapshots /\ q \in Seq(Downs) /\ s # None
      /\ Linked(s, link[s], bridge) /\ OneSnapshot(s)
  BY BufferedTyped, SyncAssumption DEF SyncInvariant, Connection, Snapshots
<1>2. q # <<>> /\ Head(q) = q[1] /\ 1 \in DOMAIN q
      /\ \A i \in DOMAIN Tail(q) : i \in Nat \ {0} /\ i + 1 \in DOMAIN q /\ Tail(q)[i] = q[i + 1]
  BY <1>1, TailElements
<1>3. link[s].ready = "connecting" /\ \A i \in DOMAIN q : q[i].type = "open" => i = 1
  BY <1>1, <1>2 DEF Linked
<1>4. link[s].up = <<>> /\ bridge.connecting = s /\ bridge.socket = None /\ bridge.answer = None
  BY <1>1, <1>3 DEF Linked, Connection
<1>5. States(q) = {}
  BY <1>1, <1>4 DEF OneSnapshot, Expecting
<1>6. \A i \in DOMAIN Tail(q) : Tail(q)[i].type # "open"
  <2> SUFFICES ASSUME NEW i \in DOMAIN Tail(q), Tail(q)[i].type = "open" PROVE FALSE
    OBVIOUS
  <2>1. i \in Nat \ {0} /\ i + 1 \in DOMAIN q /\ q[i + 1].type = "open"
    BY <1>2
  <2> HIDE DEF q
  <2>2. i + 1 = 1
    BY <1>3, <2>1
  <2> QED BY <2>1, <2>2
<1>7. ASSUME NEW x \in Sockets, x # s
      PROVE  link[x].ready \in {"closing", "closed"} /\ link[x].down = <<>>
  <2>1. link[x] \in Links /\ Linked(x, link[x], bridge) /\ x # None
    BY <1>1, BufferedTyped, SyncAssumption DEF Connection
  <2>2. link[x].ready \notin {"connecting", "open"}
    BY <1>4, <1>7, <2>1 DEF Linked
  <2>3. link[x].ready \in {"closing", "closed"}
    BY <2>1, <2>2 DEF Links
  <2> QED BY <2>1, <2>3 DEF Linked
<1> QED BY <1>3, <1>4, <1>5, <1>6, <1>7

\* What is sent when it opens, and the bridge on a new socket.
OpenLink(l, rest, m) == [l EXCEPT !.ready = "open", !.down = rest, !.up = Append(l.up, m)]

OnSocket(b, s) == [b EXCEPT !.socket = s, !.buffered = <<>>, !.state = "synchronizing"]

\* The socket is open and asks for the snapshot.
LEMMA OpenedLink ==
    ASSUME NEW l \in Links, l.up = <<>>, NEW rest \in Seq(Downs), NEW m \in Ups
    PROVE  LET n == OpenLink(l, rest, m)
           IN  n \in Links /\ n.ready = "open" /\ n.down = rest /\ DOMAIN n.up = {1}
<1> DEFINE u == Append(l.up, m)
<1>1. u \in Seq(Ups) /\ DOMAIN u = {1}
  <2>1. l.up \in Seq(Ups) /\ Len(l.up) = 0
    BY DEF Links
  <2>2. u \in Seq(Ups) /\ Len(u) = 1 /\ DOMAIN u = 1..Len(u)
    BY <2>1, AppendProperties
  <2> QED BY <2>2
<1> HIDE DEF u
<1>2. LET n == [l EXCEPT !.ready = "open", !.down = rest, !.up = u]
      IN  n \in Links /\ n.ready = "open" /\ n.down = rest /\ n.up = u
  BY <1>1 DEF Links
<1> QED BY <1>1, <1>2 DEF u, OpenLink

\* The bridge waits for it.
LEMMA OpenedBridge ==
    ASSUME NEW b \in Bridges, NEW s \in Sockets
    PROVE  LET n == OnSocket(b, s)
           IN  /\ n \in Bridges /\ n.socket = s /\ n.buffered = <<>> /\ n.state = "synchronizing"
               /\ n.connecting = b.connecting /\ n.answer = b.answer
               /\ n.lastSeq = b.lastSeq /\ n.seen = b.seen
<1> DEFINE empty == <<>>
<1>1. empty \in Seq(EventMessages)
  OBVIOUS
<1> HIDE DEF empty
<1>2. LET n == [b EXCEPT !.socket = s, !.buffered = empty, !.state = "synchronizing"]
      IN  /\ n \in Bridges /\ n.socket = s /\ n.buffered = empty /\ n.state = "synchronizing"
          /\ n.connecting = b.connecting /\ n.answer = b.answer
          /\ n.lastSeq = b.lastSeq /\ n.seen = b.seen
  BY <1>1 DEF Bridges
<1> QED BY <1>2 DEF empty, OnSocket

\* The open listener.
LEMMA OpenedKeeps ==
    ASSUME SyncInvariant, NEW s \in Sockets, link[s].down # <<>>,
           Head(link[s].down).type = "open", Opened(s), UNCHANGED <<stores, daemon, stopped>>
    PROVE  SyncInvariant' /\ view' = view /\ SocketStays
<1> DEFINE q == link[s].down
           rest == Tail(q)
           m == StateGet(bridge.lastSeq)
           n == OpenLink(link[s], rest, m)
           b == OnSocket(bridge, s)
<1>1. /\ Typed /\ Connection /\ Streams /\ Snapshots /\ Shown /\ bridge \in Bridges
      /\ link[s] \in Links /\ q \in Seq(Downs) /\ s # None /\ bridge.lastSeq \in Seqs
  BY BufferedTyped, SyncAssumption DEF SyncInvariant, Typed, Bridges
<1>2. /\ link[s].ready = "connecting" /\ link[s].up = <<>>
      /\ bridge.connecting = s /\ bridge.socket = None /\ bridge.answer = None
      /\ States(q) = {}
      /\ \A i \in DOMAIN rest : rest[i].type # "open"
      /\ \A x \in Sockets : x # s => link[x].ready \in {"closing", "closed"} /\ link[x].down = <<>>
  BY OpeningSocket
<1>3. link' = [link EXCEPT ![s] = n] /\ bridge' = b /\ view' = view
  BY DEF Opened, OpenLink, OnSocket
<1>4. /\ q # <<>> /\ rest \in Seq(Downs) /\ States(rest) = {}
      /\ \A i \in DOMAIN rest : i \in Nat \ {0} /\ i + 1 \in DOMAIN q /\ rest[i] = q[i + 1]
  <2>1. /\ rest \in Seq(Downs)
        /\ \A i \in DOMAIN rest : i \in Nat \ {0} /\ i + 1 \in DOMAIN q /\ rest[i] = q[i + 1]
        /\ \A k \in States(rest) : k + 1 \in States(q)
    BY <1>1, TailElements
  <2> HIDE DEF q, rest
  <2>2. States(rest) = {}
    BY <1>2, <2>1
  <2> QED BY <2>1, <2>2 DEF q
<1>5. m \in Ups
  BY <1>1, MessagesTyped DEF Ups
<1> HIDE DEF q, rest, m
<1>6. n \in Links /\ n.ready = "open" /\ n.down = rest /\ DOMAIN n.up = {1}
  BY <1>1, <1>2, <1>4, <1>5, OpenedLink
<1>7. /\ b \in Bridges /\ b.socket = s /\ b.buffered = <<>> /\ b.state = "synchronizing"
      /\ b.connecting = s /\ b.answer = None
      /\ b.lastSeq = bridge.lastSeq /\ b.seen = bridge.seen
  BY <1>1, <1>2, OpenedBridge
<1> HIDE DEF n, b
<1>8. /\ link' \in [Sockets -> Links] /\ link'[s] = n
      /\ \A x \in Sockets : x # s => link'[x] = link[x]
  BY <1>1, <1>3, <1>6, OneLinkTyped
<1>9. /\ bridge' \in Bridges /\ bridge'.socket = s /\ bridge'.buffered = <<>>
      /\ bridge'.state = "synchronizing" /\ bridge'.connecting = s /\ bridge'.answer = None
      /\ bridge'.lastSeq = bridge.lastSeq /\ bridge'.seen = bridge.seen
  BY <1>3, <1>7, Zenon
<1>10. /\ link'[s].ready = "open" /\ link'[s].down = rest /\ DOMAIN link'[s].up = {1}
  BY <1>6, <1>8, Zenon
<1>11. stores' = stores /\ daemon' = daemon /\ stopped' = stopped /\ view' = view
  BY <1>3
<1> DEFINE sameOthers == \A x \in Sockets : x # s => link'[x] = link[x]
<1>12. sameOthers /\ link' \in [Sockets -> Links]
  BY <1>8
<1>13. Typed'
  BY <1>1, <1>9, <1>11, <1>12 DEF Typed
<1> QED
  <2>1. ASSUME NEW x \in Sockets, x # s
        PROVE  /\ link'[x] = link[x] /\ link'[x].ready \in {"closing", "closed"}
               /\ link'[x].down = <<>> /\ x # bridge.socket /\ x # bridge'.socket
    BY <1>2, <1>9, <1>12, <2>1, SyncAssumption
  <2>2. Connection'
    <3>1. ASSUME NEW x \in Sockets PROVE Linked(x, link'[x], bridge')
      <4>1. CASE x = s
        BY <1>2, <1>9, <1>10, <4>1 DEF Linked
      <4>2. CASE x # s
        BY <2>1, <4>2 DEF Linked
      <4> QED BY <4>1, <4>2
    <3>2. \A x \in daemon.clients : link'[x].ready = "connecting" => link'[x].down # <<>>
      <4>1. daemon.clients \subseteq Sockets
        BY <1>1 DEF Typed
      <4> QED BY <1>10, <2>1, <4>1
    <3>3. bridge'.connecting # "loading"
      BY <1>9, SyncAssumption
    <3> QED BY <1>1, <1>9, <1>11, <3>1, <3>2, <3>3 DEF Connection
  <2>3. Streams'
    <3>1. PICK d \in DOMAIN stores : Carries(s, d)
      BY <1>1 DEF Streams
    <3>2. Stream(s) = q /\ Stream(s)' = rest
      <4>1. Stream(s) = q
        BY <1>1, <1>2 DEF Stream, q
      <4>2. Stream(s)' = <<>> \o rest
        BY <1>9, <1>10 DEF Stream
      <4>3. <<>> \o rest = rest
        BY <1>4, JoinedElements
      <4> QED BY <4>1, <4>2, <4>3
    <3>3. Bases(s)' = {}
      <4>1. States(link'[s].down) = {}
        BY <1>4, <1>10
      <4> QED BY <1>9, <4>1 DEF Bases
    <3>4. \A i \in DOMAIN Stream(s)' : Stream(s)'[i].type \in {"event", "state"} =>
             Stream(s)'[i].store = d /\ Stream(s)'[i].seq <= stores[d]
      BY <1>4, <3>1, <3>2 DEF Carries
    <3>5. s \in daemon'.clients => d = Store'
      BY <1>11, <3>1 DEF Carries, Store
    <3>6. Carries(s, d)'
      BY <1>9, <1>11, <3>3, <3>4, <3>5 DEF Carries
    <3>7. ASSUME NEW x \in Sockets, x # s PROVE \E y \in DOMAIN stores : Carries(x, y)'
      <4>1. PICK y \in DOMAIN stores : Carries(x, y)
        BY <1>1 DEF Streams
      <4> QED BY <1>11, <2>1, <3>7, <4>1, AsideCarries
    <3> QED BY <1>11, <3>6, <3>7 DEF Streams
  <2>4. ASSUME NEW x \in Sockets
        PROVE  OneSnapshot(x)' /\ \A k \in States(link'[x].down) : Ahead(link[x].down[k])'
    <3>1. CASE x = s
      <4>1. States(link'[s].down) = {} /\ Expecting(s)'
        BY <1>4, <1>9, <1>10 DEF Expecting
      <4> QED BY <1>10, <3>1, <4>1 DEF OneSnapshot
    <3>2. CASE x # s
      <4>1. States(link'[x].down) = {} /\ link'[x].ready # "open"
        BY <2>1, <3>2 DEF States
      <4> QED BY <4>1 DEF OneSnapshot
    <3> QED BY <3>1, <3>2
  <2>5. Snapshots'
    BY <1>9, <2>4 DEF Snapshots
  <2>6. Shown'
    BY <1>1, <1>9, <1>11 DEF Shown
  <2>7. SyncInvariant'
    BY <1>13, <2>2, <2>3, <2>5, <2>6 DEF SyncInvariant
  <2> QED BY <1>2, <1>11, <2>7 DEF SocketStays

\* The next message of a socket, whatever it is.
LEMMA DeliverKeeps ==
    ASSUME SyncInvariant, NEW s \in Sockets, Deliver(s)
    PROVE  SyncInvariant' /\ [Abstract!Next]_Abstract!viewVars /\ SocketStays
<1> DEFINE m == Head(link[s].down)
<1>1. /\ ~stopped /\ link[s].down # <<>> /\ UNCHANGED <<stores, daemon, stopped>>
      /\ m.type = "open" => Opened(s)
      /\ m.type \in {"end", "refused"} => Ended(s)
      /\ m.type \notin {"open", "end", "refused"} => Handled(s, m)
  BY DEF Deliver, DaemonVars
<1>2. CASE m.type = "open"
  <2>1. SyncInvariant' /\ view' = view /\ SocketStays
    BY <1>1, <1>2, OpenedKeeps
  <2> QED BY <1>1, <2>1, ViewKept
<1>3. CASE m.type \in {"end", "refused"}
  <2>1. /\ link' = [link EXCEPT ![s] = Terminate(link[s])] /\ view' = view
        /\ bridge' = bridge \/ (bridge.answer = None /\ bridge' = SetupFailed(bridge, s))
    BY <1>1, <1>3 DEF Ended
  <2>2. SyncInvariant' /\ bridge'.socket = bridge.socket
    BY <1>1, <2>1, TerminateKeeps
  <2> QED BY <1>1, <2>1, <2>2, ViewKept DEF SocketStays
<1>4. CASE m.type \notin {"open", "end", "refused"}
  <2>1. SyncInvariant' /\ [Abstract!Next]_Abstract!viewVars /\ bridge'.socket = bridge.socket
    BY <1>1, <1>4, HandledKeeps
  <2> QED BY <2>1 DEF SocketStays
<1> QED BY <1>2, <1>3, <1>4

\* A socket that is closed.
LEMMA ClosedLink ==
    ASSUME NEW l \in Links, l.down = <<>>
    PROVE  LET n == [l EXCEPT !.ready = "closed"]
           IN  n \in Links /\ n.ready = "closed" /\ n.down = <<>>
BY DEF Links

\* The bridge when a socket has closed.
LEMMA ClosedBridge ==
    ASSUME NEW b \in Bridges, NEW s \in Sockets, b.socket # None => b.connecting \in {None, b.socket}
    PROVE  LET c == SetupFailed(IF b.socket = s THEN Disconnected(b) ELSE b, s)
           IN  /\ c \in Bridges /\ c.lastSeq = b.lastSeq /\ c.seen = b.seen /\ c.answer = b.answer
               /\ c.state \in {b.state, "backoff"}
               /\ c.buffered = (IF b.socket = s THEN <<>> ELSE b.buffered)
               /\ c.socket = (IF b.socket = s THEN None ELSE b.socket)
               /\ c.connecting = (IF b.connecting = s THEN None ELSE b.connecting)
               /\ b.socket \notin {None, s} => c = b
<1> DEFINE a == IF b.socket = s THEN Disconnected(b) ELSE b
           c == SetupFailed(a, s)
<1>1. /\ a \in Bridges /\ a.lastSeq = b.lastSeq /\ a.seen = b.seen /\ a.answer = b.answer
      /\ a.state \in {b.state, "backoff"} /\ a.connecting = b.connecting
      /\ a.buffered = (IF b.socket = s THEN <<>> ELSE b.buffered)
      /\ a.socket = (IF b.socket = s THEN None ELSE b.socket)
      /\ b.socket # s => a = b
  <2>1. CASE b.socket = s
    BY <2>1, DisconnectedTyped
  <2>2. CASE b.socket # s
    BY <2>2
  <2> QED BY <2>1, <2>2
<1> HIDE DEF a
<1>2. /\ c \in Bridges /\ SameFollowing(a, c)
      /\ a.connecting # s => c = a
      /\ a.connecting = s => c.connecting = None /\ c.state \in {a.state, "backoff"}
  BY <1>1, SetupFailedTyped
<1> HIDE DEF c
<1>3. b.socket \notin {None, s} => c = b
  BY <1>1, <1>2, SyncAssumption
<1>4. /\ c \in Bridges /\ c.lastSeq = b.lastSeq /\ c.seen = b.seen /\ c.answer = b.answer
      /\ c.state \in {b.state, "backoff"}
      /\ c.buffered = (IF b.socket = s THEN <<>> ELSE b.buffered)
      /\ c.socket = (IF b.socket = s THEN None ELSE b.socket)
      /\ c.connecting = (IF b.connecting = s THEN None ELSE b.connecting)
  BY <1>1, <1>2 DEF SameFollowing
<1> QED BY <1>3, <1>4 DEF c, a

\* The close listener.
LEMMA ClosedKeeps ==
    ASSUME SyncInvariant, NEW s \in Sockets, Closed(s)
    PROVE  SyncInvariant' /\ [Abstract!Next]_Abstract!viewVars /\ SocketStays
<1>1. /\ Typed /\ Connection /\ Streams /\ Snapshots /\ Shown /\ bridge \in Bridges
      /\ link[s] \in Links /\ Linked(s, link[s], bridge)
      /\ UNCHANGED <<stores, daemon, view, stopped>>
      /\ bridge.answer = None /\ link[s].ready = "closing"
      /\ s # None /\ bridge.connecting \in Sockets \cup {None, "loading"}
      /\ bridge.socket \in Sockets \cup {None}
  BY BufferedTyped, SyncAssumption
     DEF SyncInvariant, Typed, Closed, Runs, DaemonVars, Connection, Bridges
<1> DEFINE shut == [link[s] EXCEPT !.ready = "closed"]
           n == IF s \in daemon.clients THEN shut ELSE Unused
           b == SetupFailed(IF bridge.socket = s THEN Disconnected(bridge) ELSE bridge, s)
<1>2. link' = [link EXCEPT ![s] = n] /\ bridge' = b
  BY DEF Closed
<1>3. n \in Links /\ n.ready = "closed" /\ n.down = <<>>
  <2>1. link[s].down = <<>>
    BY <1>1 DEF Linked
  <2>2. shut \in Links /\ shut.ready = "closed" /\ shut.down = <<>>
    BY <1>1, <2>1, ClosedLink
  <2> HIDE DEF shut
  <2> QED BY <2>2, UnusedTyped
<1> HIDE DEF n
<1>4. /\ link' \in [Sockets -> Links] /\ link'[s] = n
      /\ \A x \in Sockets : x # s => link'[x] = link[x]
  BY <1>1, <1>2, <1>3, OneLinkTyped
<1>5. /\ b \in Bridges /\ b.lastSeq = bridge.lastSeq /\ b.seen = bridge.seen
      /\ b.answer = bridge.answer /\ b.state \in {bridge.state, "backoff"}
      /\ b.buffered = (IF bridge.socket = s THEN <<>> ELSE bridge.buffered)
      /\ b.socket = (IF bridge.socket = s THEN None ELSE bridge.socket)
      /\ b.connecting = (IF bridge.connecting = s THEN None ELSE bridge.connecting)
      /\ bridge.socket \notin {None, s} => b = bridge
  BY <1>1, ClosedBridge DEF Connection
<1> HIDE DEF b
<1>6. link'[s].ready = "closed" /\ link'[s].down = <<>>
  BY <1>3, <1>4, Zenon
<1> DEFINE sameOthers == \A x \in Sockets : x # s => link'[x] = link[x]
<1>7. sameOthers /\ link' \in [Sockets -> Links] /\ bridge' = b
  BY <1>2, <1>4
<1>8. stores' = stores /\ daemon' = daemon /\ view' = view /\ stopped' = stopped
  BY <1>1
<1>9. Typed'
  BY <1>1, <1>5, <1>7, <1>8 DEF Typed
<1>10. OneSnapshot(s)' /\ \A k \in States(link'[s].down) : Ahead(link[s].down[k])'
  <2>1. States(link'[s].down) = {} /\ link'[s].ready # "open"
    BY <1>6 DEF States
  <2> QED BY <2>1 DEF OneSnapshot
<1>11. PICK d \in DOMAIN stores : Carries(s, d)
  BY <1>1 DEF Streams
<1>12. \A x \in daemon.clients : link'[x].ready = "connecting" => link'[x].down # <<>>
  BY <1>1, <1>6, <1>7 DEF Connection, Typed
<1>13. CASE bridge.socket \notin {None, s}
  <2>1. bridge' = bridge /\ BridgeKeeps
    BY <1>5, <1>7, <1>8, <1>13, NothingFollowed
  <2>2. Carries(s, d)'
    BY <1>1, <1>6, <1>8, <1>9, <1>11, <2>1, GoneCarries
  <2>3. Connection'
    <3>1. ASSUME NEW x \in Sockets PROVE Linked(x, link'[x], bridge)
      <4>1. CASE x = s
        BY <1>6, <4>1 DEF Linked
      <4>2. CASE x # s
        BY <1>1, <1>7, <4>2 DEF Connection
      <4> QED BY <4>1, <4>2
    <3> QED BY <1>1, <1>8, <1>12, <2>1, <3>1 DEF Connection
  <2>4. SyncInvariant'
    BY <1>1, <1>7, <1>8, <1>9, <1>10, <2>1, <2>2, <2>3, BridgeAndSocketKeep
  <2> QED BY <1>8, <2>1, <2>4, ViewKept DEF SocketStays
<1>14. CASE bridge.socket \in {None, s}
  <2>1. /\ bridge'.socket = None /\ bridge'.answer = None /\ bridge'.seen = bridge.seen
        /\ bridge'.lastSeq = bridge.lastSeq /\ bridge'.state \in {bridge.state, "backoff"}
        /\ bridge'.buffered \in {<<>>, bridge.buffered}
        /\ bridge'.connecting = (IF bridge.connecting = s THEN None ELSE bridge.connecting)
    BY <1>1, <1>5, <1>7, <1>14
  <2>2. ASSUME NEW x \in Sockets, x # s
        PROVE  x # bridge.socket /\ x # bridge'.socket /\ link'[x] = link[x]
    BY <1>7, <1>14, <2>1, <2>2, SyncAssumption
  <2>3. Connection'
    <3>1. ASSUME NEW x \in Sockets PROVE Linked(x, link'[x], bridge')
      <4>1. CASE x = s
        BY <1>6, <4>1 DEF Linked
      <4>2. CASE x # s
        <5>1. Linked(x, link[x], bridge) /\ x # bridge.socket /\ link'[x] = link[x]
          BY <1>1, <2>2, <4>2 DEF Connection
        <5> QED BY <2>1, <4>2, <5>1 DEF Linked
      <4> QED BY <4>1, <4>2
    <3> QED BY <1>1, <1>8, <1>12, <2>1, <3>1 DEF Connection
  <2>4. Carries(s, d)'
    <3>1. DOMAIN link'[s].down = {}
      BY <1>6
    <3>2. s # bridge'.socket /\ (s \in daemon'.clients => d = Store')
      BY <1>1, <1>8, <1>11, <2>1 DEF Carries, Store
    <3> QED BY <3>1, <3>2, BareCarries
  <2>5. ASSUME NEW x \in Sockets, x # s PROVE \E y \in DOMAIN stores : Carries(x, y)'
    <3>1. PICK y \in DOMAIN stores : Carries(x, y)
      BY <1>1 DEF Streams
    <3> QED BY <1>8, <2>2, <2>5, <3>1, AsideCarries
  <2>6. Streams'
    BY <1>8, <2>4, <2>5 DEF Streams
  <2>7. ASSUME NEW x \in Sockets
        PROVE  OneSnapshot(x)' /\ \A k \in States(link'[x].down) : Ahead(link[x].down[k])'
    <3>1. CASE x # s
      <4>1. OneSnapshot(x) /\ ~Expecting(x) /\ link'[x] = link[x]
        BY <1>1, <2>2, <3>1 DEF Snapshots, Expecting
      <4> QED BY <4>1 DEF OneSnapshot
    <3> QED BY <1>10, <3>1
  <2>8. Snapshots'
    BY <2>1, <2>7 DEF Snapshots
  <2>9. Shown'
    BY <1>1, <1>8, <2>1 DEF Shown
  <2>10. SyncInvariant'
    BY <1>9, <2>3, <2>6, <2>8, <2>9 DEF SyncInvariant
  <2> QED BY <1>8, <2>1, <2>10, ViewKept DEF SocketStays
<1> QED BY <1>13, <1>14

-----------------------------------------------------------------------------
(* The snapshot and the events that waited for it.                         *)

\* A set of numbers that is not empty has a least one.
LEMMA LeastNumber ==
    ASSUME NEW T \in SUBSET Nat, T # {}
    PROVE  \E n \in T : \A m \in T : n <= m
<1>1. PICK n \in T : \A m \in T : ~(<<m, n>> \in OpToRel(<, Nat))
  BY NatLessThanWellFounded, WFMin
<1>2. \A m \in T : m \in Nat /\ n \in Nat /\ ~(m < n)
  BY <1>1 DEF OpToRel
<1> QED BY <1>2

\* The function that Replay names is the only one the definition allows.
Replays(g, b, r, n) ==
    /\ g = [i \in 0..n |-> g[i]] /\ g[0] = Snapshot(b, r)
    /\ \A i \in 1..n : g[i] = ApplyDomainEvent(g[i - 1], b.buffered[i])

\* There is one, event by event.
LEMMA ReplayExists ==
    ASSUME NEW b, NEW r, NEW len \in Nat
    PROVE  \E g : Replays(g, b, r, len)
<1> DEFINE Bad == {n \in 0..len : ~ \E g : Replays(g, b, r, n)}
<1>1. SUFFICES ASSUME Bad # {} PROVE FALSE
  <2>1. len \in 0..len
    OBVIOUS
  <2>2. Bad = {} => \E g : Replays(g, b, r, len)
    BY <2>1
  <2> QED BY <2>2
<1>2. PICK n \in Bad : \A m \in Bad : n <= m
  <2>1. Bad \in SUBSET Nat
    OBVIOUS
  <2> HIDE DEF Bad
  <2> QED BY <1>1, <2>1, LeastNumber
<1>3. n \in 0..len /\ ~ \E g : Replays(g, b, r, n)
  OBVIOUS
<1>4. CASE n = 0
  <2> DEFINE s == Snapshot(b, r)
             g == [i \in 0..0 |-> s]
  <2>1. g = [i \in 0..0 |-> g[i]] /\ g[0] = s /\ \A i \in 1..0 : FALSE
    OBVIOUS
  <2> HIDE DEF g
  <2>2. Replays(g, b, r, 0)
    BY <2>1 DEF Replays
  <2> QED BY <1>3, <1>4, <2>2
<1>5. CASE n # 0
  <2>1. n - 1 \in 0..len /\ n - 1 \in Nat /\ n \in Nat /\ ~(n <= n - 1)
    BY <1>3, <1>5
  <2>2. n - 1 \notin Bad
    BY <1>2, <2>1
  <2>3. PICK g : Replays(g, b, r, n - 1)
    BY <2>1, <2>2
  <2> DEFINE e == ApplyDomainEvent(g[n - 1], b.buffered[n])
             h == [i \in 0..n |-> IF i = n THEN e ELSE g[i]]
  <2>4. /\ h = [i \in 0..n |-> h[i]] /\ h[n] = e /\ h[0] = g[0]
        /\ \A i \in 1..(n - 1) : h[i] = g[i]
        /\ \A i \in 1..n : h[i - 1] = g[i - 1]
    BY <1>5, <2>1
  <2>5. e = ApplyDomainEvent(g[n - 1], b.buffered[n])
    OBVIOUS
  <2> HIDE DEF h, e
  <2>6. \A i \in 1..n : h[i] = ApplyDomainEvent(h[i - 1], b.buffered[i])
    <3> TAKE i \in 1..n
    <3>1. CASE i = n
      BY <2>4, <2>5, <3>1
    <3>2. CASE i # n
      <4>1. i \in 1..(n - 1)
        BY <2>1, <3>2
      <4>2. g[i] = ApplyDomainEvent(g[i - 1], b.buffered[i])
        BY <2>3, <4>1 DEF Replays
      <4> QED BY <2>4, <4>1, <4>2
    <3> QED BY <3>1, <3>2
  <2>7. Replays(h, b, r, n)
    BY <2>3, <2>4, <2>6 DEF Replays
  <2> QED BY <1>3, <2>7
<1> QED BY <1>4, <1>5

\* So Replay begins with the snapshot and applies one event after the other.
LEMMA ReplayUnfolds ==
    ASSUME NEW b, NEW r, Len(b.buffered) \in Nat
    PROVE  Replays(Replay(b, r), b, r, Len(b.buffered))
<1> DEFINE len == Len(b.buffered)
           Is(f) == f = [i \in 0..len |-> IF i = 0 THEN Snapshot(b, r)
                                          ELSE ApplyDomainEvent(f[i - 1], b.buffered[i])]
<1>1. Replay(b, r) = CHOOSE f : Is(f)
  BY DEF Replay
<1>2. PICK g : Replays(g, b, r, len)
  BY ReplayExists
<1>3. Is(g)
  <2>1. /\ g = [i \in 0..len |-> g[i]] /\ g[0] = Snapshot(b, r) /\ len \in Nat
        /\ \A i \in 1..len : g[i] = ApplyDomainEvent(g[i - 1], b.buffered[i])
    BY <1>2 DEF Replays
  <2> HIDE DEF len
  <2>2. \A i \in 0..len : i = 0 \/ i \in 1..len
    BY <2>1
  <2>3. [i \in 0..len |-> g[i]] = [i \in 0..len |-> IF i = 0 THEN Snapshot(b, r)
                                          ELSE ApplyDomainEvent(g[i - 1], b.buffered[i])]
    BY <2>1, <2>2
  <2> QED BY <2>1, <2>3
<1> DEFINE f == CHOOSE h : Is(h)
<1>4. Is(f)
  <2> HIDE DEF Is
  <2> QED BY <1>3
<1>5. f = Replay(b, r)
  BY <1>1
<1> HIDE DEF f
<1>6. f = [i \in 0..len |-> IF i = 0 THEN Snapshot(b, r)
                            ELSE ApplyDomainEvent(f[i - 1], b.buffered[i])]
  BY <1>4
<1>7. Replays(f, b, r, len)
  <2> DEFINE x == Snapshot(b, r)
             e(i) == ApplyDomainEvent(f[i - 1], b.buffered[i])
  <2>1. f = [i \in 0..len |-> IF i = 0 THEN x ELSE e(i)]
    BY <1>6
  <2>2. len \in Nat
    OBVIOUS
  <2> HIDE DEF len
  <2>3. f[0] = x /\ \A i \in 1..len : f[i] = e(i)
    <3> HIDE DEF x, e
    <3> QED BY <2>1, <2>2
  <2>4. f = [i \in 0..len |-> f[i]]
    <3> HIDE DEF x, e
    <3> QED BY <2>1
  <2> QED BY <2>3, <2>4 DEF Replays
<1> QED BY <1>5, <1>7

\* The first n events of log d are applied: those of the snapshot, those that the
\* first i events which waited for it make, and none besides.
ReplayedUpTo(a, d, i, n) ==
    /\ AppliedUpTo(a, d, n) /\ n <= stores[d] /\ bridge.answer.seq <= n
    /\ \A j \in 1..i : bridge.buffered[j].seq <= n
    /\ \A x \in a.seen : x[1] \in DOMAIN stores /\ x[2] <= stores[x[1]]

\* What the bridge holds while it goes on with its answer.
Answered(s, d) ==
    /\ s = bridge.socket /\ Carries(s, d) /\ bridge.state = "synchronizing"
    /\ bridge.answer \in StateMessages /\ bridge.answer.store = d /\ bridge.answer.seq <= stores[d]
    /\ Ahead(bridge.answer) /\ Follows(bridge.answer.seq, Stream(s))
    /\ Fed(s) => Reaches(bridge.answer.seq, Stream(s), stores[d])
    /\ Stream(s) = bridge.buffered \o link[s].down
    /\ States(link[s].down) = {}
    /\ \A i \in DOMAIN link[s].up : link[s].ready = "open" => link[s].up[i].type # "state.get"

\* It has an answer.
LEMMA AnswerHeld ==
    ASSUME SyncInvariant, bridge.answer # None
    PROVE  \E s \in Sockets : \E d \in DOMAIN stores : Answered(s, d)
<1>1. Typed /\ Connection /\ Streams /\ Snapshots /\ bridge \in Bridges
  BY DEF SyncInvariant, Typed
<1>2. PICK s \in Sockets : s = bridge.socket
  BY <1>1 DEF Connection, Bridges
<1>3. PICK d \in DOMAIN stores : Carries(s, d)
  BY <1>1 DEF Streams
<1>4. bridge.answer \in StateMessages /\ bridge.answer.seq \in Bases(s)
  BY <1>1, <1>2 DEF Bridges, Bases
<1>5. bridge.state = "synchronizing" /\ Ahead(bridge.answer) /\ OneSnapshot(s) /\ ~Expecting(s)
  BY <1>1 DEF Snapshots, Expecting
<1>6. States(link[s].down) = {}
  BY <1>5 DEF OneSnapshot
<1>7. \A i \in DOMAIN link[s].up : link[s].ready = "open" => link[s].up[i].type # "state.get"
  BY <1>5 DEF OneSnapshot
<1>8. Stream(s) = bridge.buffered \o link[s].down
  BY <1>2 DEF Stream
<1>9. bridge.answer.store = d /\ bridge.answer.seq <= stores[d]
  BY <1>2, <1>3 DEF Carries
<1>10. /\ Follows(bridge.answer.seq, Stream(s))
       /\ Fed(s) => Reaches(bridge.answer.seq, Stream(s), stores[d])
  BY <1>3, <1>4 DEF Carries
<1>11. Answered(s, d)
  BY <1>2, <1>3, <1>4, <1>5, <1>6, <1>7, <1>8, <1>9, <1>10 DEF Answered
<1> QED BY <1>11

\* The snapshot is the beginning of the log.
LEMMA SnapshotApplied ==
    ASSUME SyncInvariant, NEW s \in Sockets, NEW d \in DOMAIN stores, Answered(s, d)
    PROVE  ReplayedUpTo(Snapshot(bridge, bridge.answer), d, 0, bridge.answer.seq)
<1> DEFINE r == bridge.answer
           n == r.seq
           new == IF r.reset \/ r.after = Seq0 THEN {}
                  ELSE {<<r.store, k>> : k \in (r.after + 1)..r.seq}
           old == IF r.reset THEN {} ELSE bridge.seen
           seen == old \cup new
           a == [seen |-> seen, lastSeq |-> n, view |-> Abstract!ViewOf(d, n)]
<1>1. /\ r \in StateMessages /\ r.store = d /\ n <= stores[d] /\ Ahead(r) /\ Shown
      /\ d \in Nat /\ stores[d] \in Nat /\ bridge.seen \in SUBSET (Nat \X Nat)
  BY StoreTyped DEF Answered, SyncInvariant, Typed, Bridges
<1>2. n \in Nat /\ r.after \in Seqs
  BY <1>1 DEF StateMessages
<1>3. \A x \in new : x \in Nat \X Nat /\ x[1] = d /\ x[2] <= n
  <2>1. CASE r.after \in Nat
    <3>1. \A k \in (r.after + 1)..n : k \in Nat /\ k <= n
      BY <1>2, <2>1
    <3> HIDE DEF n
    <3>2. new \subseteq {<<d, k>> : k \in (r.after + 1)..n}
      BY <1>1 DEF n
    <3> HIDE DEF new
    <3> QED BY <1>1, <3>1, <3>2
  <2>2. CASE r.after = Seq0
    BY <2>2
  <2> QED BY <1>2, <2>1, <2>2 DEF Seqs
<1>4. old \subseteq bridge.seen
  OBVIOUS
<1>5. Snapshot(bridge, r) = a
  BY <1>1 DEF Snapshot
<1> HIDE DEF new, old
<1>6. seen \in SUBSET (Nat \X Nat)
  BY <1>1, <1>3, <1>4
<1>7. \A x \in seen : x[1] = d => x[2] <= n
  BY <1>1, <1>3, <1>4 DEF Ahead
<1>8. \A x \in seen : x[1] \in DOMAIN stores /\ x[2] <= stores[x[1]]
  <2>1. \A x \in old : x[1] \in DOMAIN stores /\ x[2] <= stores[x[1]]
    BY <1>1, <1>4 DEF Shown
  <2>2. \A x \in new : x[1] = d /\ x[2] \in Nat /\ x[2] <= n
    BY <1>3
  <2>3. \A x \in new : x[1] \in DOMAIN stores /\ x[2] <= stores[x[1]]
    BY <1>1, <1>2, <2>2
  <2> QED BY <2>1, <2>3
<1> DEFINE v == Abstract!ViewOf(d, n)
<1> HIDE DEF seen, v
<1>9. a.seen = seen /\ a = [seen |-> a.seen, lastSeq |-> n, view |-> v]
  BY DEF v
<1> HIDE DEF a
<1>10. AppliedUpTo(a, d, n)
  BY <1>6, <1>7, <1>9 DEF AppliedUpTo, v
<1>11. ReplayedUpTo(a, d, 0, n)
  BY <1>1, <1>2, <1>8, <1>9, <1>10 DEF ReplayedUpTo
<1> QED BY <1>5, <1>11

\* An event that waited is the next one, or known.
LEMMA WaitingEvent ==
    ASSUME SyncInvariant, NEW s \in Sockets, NEW d \in DOMAIN stores, Answered(s, d),
           NEW i \in 1..Len(bridge.buffered), NEW n \in Nat, bridge.answer.seq <= n,
           \A j \in 1..(i - 1) : bridge.buffered[j].seq <= n
    PROVE  /\ bridge.buffered[i] \in EventMessages /\ bridge.buffered[i].store = d
           /\ bridge.buffered[i].seq <= stores[d] /\ bridge.buffered[i].seq <= n + 1
<1> DEFINE a == bridge.buffered
           q == link[s].down
           c == a \o q
           top == bridge.answer.seq
<1>1. /\ Typed /\ a \in Seq(EventMessages) /\ a \in Seq(Downs) /\ q \in Seq(Downs)
      /\ bridge.answer \in StateMessages /\ Stream(s) = c /\ Carries(s, d) /\ Follows(top, c)
  BY BufferedTyped DEF SyncInvariant, Typed, Bridges, Answered
<1>2. top \in Nat
  BY <1>1 DEF StateMessages
<1> HIDE DEF c, q, top
<1>3. /\ c \in Seq(Downs) /\ \A j \in 1..Len(a) : c[j] = a[j] /\ j \in DOMAIN c
      /\ DOMAIN a = 1..Len(a) /\ Len(a) \in Nat
  <2>1. c \in Seq(Downs) /\ Len(c) = Len(a) + Len(q) /\ \A j \in 1..Len(a) : c[j] = a[j]
    BY <1>1, JoinedElements DEF c
  <2> QED BY <1>1, <2>1
<1>4. a[i] \in EventMessages /\ a[i].type = "event" /\ a[i].seq \in Nat
  <2>1. a[i] \in EventMessages
    BY <1>1, <1>3
  <2>2. \A m \in EventMessages : m.type = "event" /\ m.seq \in Nat
    BY DEF EventMessages
  <2> QED BY <2>1, <2>2
<1>5. a[i].store = d /\ a[i].seq <= stores[d]
  BY <1>1, <1>3, <1>4 DEF Carries
<1>6. a[i].seq <= n + 1
  <2> SUFFICES ASSUME a[i].seq > n + 1 PROVE FALSE
    BY <1>4
  <2>1. i \in Events(c) /\ c[i].seq = a[i].seq
    BY <1>3, <1>4 DEF Events
  <2>2. top <= n
    BY DEF top
  <2>3. n + 1 \in (top + 1)..(c[i].seq - 1)
    BY <1>2, <1>4, <2>1, <2>2
  <2>4. PICK j \in Events(c) : j < i /\ c[j].seq = n + 1
    BY <1>1, <2>1, <2>3 DEF Follows
  <2>5. j \in 1..(i - 1) /\ j \in 1..Len(a)
    <3>1. j \in 1..Len(c)
      BY <1>3, <2>4, StreamElements DEF Events
    <3> QED BY <1>3, <2>4, <3>1
  <2>6. a[j].seq = n + 1 /\ a[j].seq <= n
    BY <1>3, <2>4, <2>5
  <2> QED BY <2>6
<1> QED BY <1>4, <1>5, <1>6

\* It is applied after those before it.
LEMMA NextReplayed ==
    ASSUME SyncInvariant, NEW s \in Sockets, NEW d \in DOMAIN stores, Answered(s, d),
           NEW i \in 1..Len(bridge.buffered), NEW n \in Nat, NEW b, ReplayedUpTo(b, d, i - 1, n)
    PROVE  \E k \in Nat : ReplayedUpTo(ApplyDomainEvent(b, bridge.buffered[i]), d, i, k)
<1> DEFINE e == bridge.buffered[i]
           a == ApplyDomainEvent(b, e)
<1>1. /\ AppliedUpTo(b, d, n) /\ n <= stores[d] /\ bridge.answer.seq <= n
      /\ \A j \in 1..(i - 1) : bridge.buffered[j].seq <= n
      /\ \A x \in b.seen : x[1] \in DOMAIN stores /\ x[2] <= stores[x[1]]
  BY DEF ReplayedUpTo
<1>2. e \in EventMessages /\ e.store = d /\ e.seq <= stores[d] /\ e.seq <= n + 1
  BY <1>1, WaitingEvent
<1>3. d \in Nat /\ stores[d] \in Nat /\ Len(bridge.buffered) \in Nat /\ bridge.answer.seq \in Nat
      /\ \A j \in 1..Len(bridge.buffered) : bridge.buffered[j].seq \in Nat
  <2>1. bridge.buffered \in Seq(EventMessages) /\ bridge.answer \in StateMessages
    BY DEF SyncInvariant, Typed, Bridges, Answered
  <2>2. \A m \in EventMessages : m.seq \in Nat
    BY DEF EventMessages
  <2>3. bridge.answer.seq \in Nat
    BY <2>1 DEF StateMessages
  <2>4. d \in Nat /\ stores[d] \in Nat
    BY StoreTyped DEF SyncInvariant, Typed
  <2> QED BY <2>1, <2>2, <2>3, <2>4
<1> HIDE DEF e
<1>4. PICK k \in Nat : /\ AppliedUpTo(a, d, k) /\ n <= k /\ e.seq <= k /\ k \in {n, e.seq}
                       /\ \A x \in a.seen : x \in b.seen \/ (x[1] = d /\ x[2] = e.seq)
  BY <1>1, <1>2, <1>3, AppliedEvent
<1> HIDE DEF a
<1>5. k <= stores[d] /\ bridge.answer.seq <= k
  BY <1>1, <1>2, <1>3, <1>4
<1>6. \A j \in 1..i : bridge.buffered[j].seq <= k
  <2> TAKE j \in 1..i
  <2>1. CASE j = i
    BY <1>4, <2>1 DEF e
  <2>2. CASE j # i
    <3>1. j \in 1..(i - 1) /\ j \in 1..Len(bridge.buffered)
      BY <1>3, <2>2
    <3> QED BY <1>1, <1>3, <1>4, <3>1
  <2> QED BY <2>1, <2>2
<1>7. \A x \in a.seen : x[1] \in DOMAIN stores /\ x[2] <= stores[x[1]]
  BY <1>1, <1>2, <1>4
<1>8. ReplayedUpTo(a, d, i, k)
  BY <1>4, <1>5, <1>6, <1>7 DEF ReplayedUpTo
<1> QED BY <1>8 DEF a, e

\* All of them are.
LEMMA ReplayApplied ==
    ASSUME SyncInvariant, NEW s \in Sockets, NEW d \in DOMAIN stores, Answered(s, d)
    PROVE  \E k \in Nat :
              ReplayedUpTo(Synchronized(bridge, bridge.answer), d, Len(bridge.buffered), k)
<1> DEFINE len == Len(bridge.buffered)
           g == Replay(bridge, bridge.answer)
           Good(i) == \E k \in Nat : ReplayedUpTo(g[i], d, i, k)
           Bad == {i \in 0..len : ~Good(i)}
<1>1. len \in Nat /\ bridge.answer.seq \in Nat
  <2>1. bridge.buffered \in Seq(EventMessages) /\ bridge.answer \in StateMessages
    BY DEF SyncInvariant, Typed, Bridges, Answered
  <2> QED BY <2>1 DEF StateMessages
<1>2. Replays(g, bridge, bridge.answer, len)
  BY <1>1, ReplayUnfolds
<1>3. Synchronized(bridge, bridge.answer) = g[len]
  BY DEF Synchronized
<1> HIDE DEF g
<1>4. g[0] = Snapshot(bridge, bridge.answer)
      /\ \A i \in 1..len : g[i] = ApplyDomainEvent(g[i - 1], bridge.buffered[i])
  BY <1>2 DEF Replays
<1> SUFFICES ASSUME ~Good(len) PROVE FALSE
  BY <1>3
<1> HIDE DEF Good
<1>5. Bad # {} /\ Bad \in SUBSET Nat
  BY <1>1
<1>6. PICK i \in Bad : \A m \in Bad : i <= m
  <2> HIDE DEF Bad
  <2> QED BY <1>5, LeastNumber
<1>7. i \in 0..len /\ ~Good(i)
  OBVIOUS
<1>8. CASE i = 0
  <2>1. ReplayedUpTo(g[0], d, 0, bridge.answer.seq)
    BY <1>4, SnapshotApplied
  <2> QED BY <1>1, <1>7, <1>8, <2>1 DEF Good
<1>9. CASE i # 0
  <2>1. i \in 1..len /\ i - 1 \in 0..len /\ ~(i <= i - 1)
    BY <1>1, <1>7, <1>9
  <2>2. Good(i - 1)
    BY <1>6, <2>1
  <2>3. PICK n \in Nat : ReplayedUpTo(g[i - 1], d, i - 1, n)
    BY <2>2 DEF Good
  <2>4. \E k \in Nat : ReplayedUpTo(ApplyDomainEvent(g[i - 1], bridge.buffered[i]), d, i, k)
    BY <2>1, <2>3, NextReplayed
  <2>5. Good(i)
    BY <1>4, <2>1, <2>4 DEF Good
  <2> QED BY <1>7, <2>5
<1> QED BY <1>8, <1>9

\* The bridge when it has applied what waited.
OnceSynchronized(b, a) ==
    [b EXCEPT !.seen = a.seen, !.lastSeq = a.lastSeq, !.buffered = <<>>, !.state = "connected",
              !.connecting = IF @ = b.socket THEN None ELSE @, !.answer = None]

\* It is connected and waits for nothing.
LEMMA OnceTyped ==
    ASSUME NEW b \in Bridges, NEW a, a.seen \in SUBSET (Nat \X Nat), NEW k \in Nat, a.lastSeq = k,
           b.connecting \in {None, b.socket}
    PROVE  LET c == OnceSynchronized(b, a)
           IN  /\ c \in Bridges /\ c.socket = b.socket /\ c.buffered = <<>> /\ c.state = "connected"
               /\ c.connecting = None /\ c.answer = None /\ c.seen = a.seen /\ c.lastSeq = k
<1> DEFINE empty == <<>>
           none == IF b.connecting = b.socket THEN None ELSE b.connecting
           seen == a.seen
           n == [b EXCEPT !.seen = seen, !.lastSeq = k, !.buffered = empty]
           c == [n EXCEPT !.state = "connected", !.connecting = none, !.answer = None]
<1>1. empty \in Seq(EventMessages) /\ none = None /\ k \in Seqs /\ seen \in SUBSET (Nat \X Nat)
  BY DEF Seqs
<1>2. OnceSynchronized(b, a) = c
  BY DEF OnceSynchronized
<1>3. seen = a.seen /\ empty = <<>>
  OBVIOUS
<1> HIDE DEF empty, none, seen
<1>4. /\ n \in Bridges /\ n.socket = b.socket /\ n.buffered = empty /\ n.seen = seen
      /\ n.lastSeq = k
  BY <1>1 DEF Bridges
<1> HIDE DEF n
<1>5. /\ c \in Bridges /\ c.socket = n.socket /\ c.buffered = n.buffered /\ c.state = "connected"
      /\ c.connecting = none /\ c.answer = None /\ c.seen = n.seen /\ c.lastSeq = n.lastSeq
  BY <1>1, <1>4 DEF Bridges
<1> HIDE DEF c
<1> QED BY <1>1, <1>2, <1>3, <1>4, <1>5

\* A socket that the bridge does not follow, on which requests may be sent.
LEMMA AsideSent ==
    ASSUME NEW s, NEW d, Carries(s, d), s # bridge.socket, s # bridge'.socket,
           UpKept(s), stores' = stores, daemon' = daemon
    PROVE  Carries(s, d)'
<1>1. Stream(s)' = Stream(s) /\ Bases(s)' = Bases(s) /\ Fed(s)' = Fed(s)
  BY DEF Stream, Bases, Fed, UpKept
<1> QED BY <1>1 DEF Carries, Store

\* What remains of the stream goes on after what is applied.
LEMMA RestCarries ==
    ASSUME SyncInvariant, NEW s \in Sockets, NEW d \in DOMAIN stores, Answered(s, d),
           NEW k \in Nat, NEW a, ReplayedUpTo(a, d, Len(bridge.buffered), k),
           UpKept(s), stores' = stores, daemon' = daemon,
           bridge'.socket = s, bridge'.buffered = <<>>, bridge'.state = "connected",
           bridge'.answer = None, bridge'.lastSeq = k, view'.store = d
    PROVE  Carries(s, d)'
<1> DEFINE b == bridge.buffered
           q == link[s].down
           n == bridge.answer.seq
<1>1. /\ b \in Seq(Downs) /\ b \in Seq(EventMessages) /\ q \in Seq(Downs) /\ stores[d] \in Nat
      /\ n \in Nat /\ n <= k /\ Carries(s, d) /\ Stream(s) = b \o q /\ States(q) = {}
      /\ Follows(n, b \o q) /\ (Fed(s) => Reaches(n, b \o q, stores[d]))
      /\ \A j \in 1..Len(b) : b[j].seq <= k
  <2>1. Typed /\ bridge.answer \in StateMessages /\ bridge \in Bridges
    BY DEF SyncInvariant, Typed, Answered
  <2>2. n \in Nat /\ b \in Seq(EventMessages)
    BY <2>1 DEF StateMessages, Bridges
  <2> QED BY <2>1, <2>2, BufferedTyped, StoreTyped DEF Answered, ReplayedUpTo
<1>2. link'[s].down = q /\ link'[s].ready = link[s].ready
  BY DEF UpKept
<1> HIDE DEF b, q, n
<1>3. \A j \in Events(b) : b[j].seq <= k
  BY <1>1 DEF Events
<1>4. Follows(k, q) /\ (Fed(s) => Reaches(k, q, stores[d]))
  BY <1>1, <1>3, RestFollows
<1>5. Stream(s)' = q
  <2>1. Stream(s)' = <<>> \o q
    BY <1>2 DEF Stream
  <2> QED BY <1>1, <2>1, JoinedElements
<1>6. Bases(s)' = {k}
  <2>1. States(link'[s].down) = {}
    BY <1>1, <1>2
  <2> QED BY <2>1 DEF Bases
<1>7. \A i \in DOMAIN q : q[i].type \in {"event", "state"} => q[i].store = d /\ q[i].seq <= stores[d]
  <2> TAKE i \in DOMAIN q
  <2>1. /\ (b \o q)[Len(b) + i] = q[i] /\ Len(b) + i \in DOMAIN (b \o q)
    <3>1. /\ b \o q \in Seq(Downs) /\ Len(b \o q) = Len(b) + Len(q) /\ i \in 1..Len(q)
          /\ (b \o q)[Len(b) + i] = q[i] /\ Len(b) \in Nat /\ Len(q) \in Nat
      BY <1>1, JoinedElements
    <3> DEFINE c == b \o q
    <3> HIDE DEF c
    <3>2. Len(b) + i \in 1..Len(c) /\ DOMAIN c = 1..Len(c)
      BY <3>1 DEF c
    <3> QED BY <3>1, <3>2 DEF c
  <2> QED BY <1>1, <2>1 DEF Carries
<1>8. Fed(s)' = Fed(s) /\ Store' = Store
  BY <1>2 DEF Fed, Store
<1> QED BY <1>1, <1>4, <1>5, <1>6, <1>7, <1>8 DEF Carries

\* #synchronize goes on with its answer.
LEMMA SynchronizeKeeps ==
    ASSUME SyncInvariant, NEW asking \in SUBSET Callers, Synchronize(asking)
    PROVE  SyncInvariant' /\ [Abstract!Next]_Abstract!viewVars /\ SocketStays
<1> DEFINE done == Synchronized(bridge, bridge.answer)
           calling == Waiting \cup {c \in asking : Idle(c)}
<1>1. /\ Typed /\ Connection /\ Streams /\ Snapshots /\ Shown /\ bridge \in Bridges
      /\ ~stopped /\ bridge.answer # None /\ stores' = stores /\ daemon' = daemon
      /\ calling \in SUBSET Callers
  BY DEF SyncInvariant, Typed, Synchronize, DaemonVars, Waiting
<1>2. /\ bridge' = OnceSynchronized(bridge, done) /\ view' = done.view
      /\ Send(bridge.socket, calling)
  BY DEF Synchronize, OnceSynchronized
<1> HIDE DEF done, calling
<1>3. PICK s \in Sockets, d \in DOMAIN stores : Answered(s, d)
  BY <1>1, AnswerHeld
<1>4. PICK k \in Nat : ReplayedUpTo(done, d, Len(bridge.buffered), k)
  BY <1>3, ReplayApplied DEF done
<1>5. /\ done.seen \in SUBSET (Nat \X Nat) /\ done.lastSeq = k /\ done.view = Abstract!ViewOf(d, k)
      /\ \A x \in done.seen : x[1] = d => x[2] <= k
      /\ k <= stores[d] /\ bridge.answer.seq <= k
      /\ \A x \in done.seen : x[1] \in DOMAIN stores /\ x[2] <= stores[x[1]]
  BY <1>4 DEF ReplayedUpTo, AppliedUpTo
<1>6. s = bridge.socket /\ s # None /\ bridge.connecting \in {None, bridge.socket}
  BY <1>1, <1>3, SyncAssumption DEF Answered, Connection
<1>7. /\ bridge' \in Bridges /\ bridge'.socket = s /\ bridge'.buffered = <<>>
      /\ bridge'.state = "connected" /\ bridge'.connecting = None /\ bridge'.answer = None
      /\ bridge'.seen = done.seen /\ bridge'.lastSeq = k
  <2> DEFINE c == OnceSynchronized(bridge, done)
  <2>1. /\ c \in Bridges /\ c.socket = bridge.socket /\ c.buffered = <<>> /\ c.state = "connected"
        /\ c.connecting = None /\ c.answer = None /\ c.seen = done.seen /\ c.lastSeq = k
    BY <1>1, <1>5, <1>6, OnceTyped
  <2>2. bridge' = c
    BY <1>2
  <2> HIDE DEF c
  <2> QED BY <1>6, <2>1, <2>2
<1>8. /\ link' \in [Sockets -> Links] /\ stopped' \in BOOLEAN
      /\ \A x \in Sockets : UpKept(x)
  BY <1>1, <1>2, <1>6, SendTyped
<1>9. d \in Nat /\ stores[d] \in Nat /\ k \in 0..stores[d]
  BY <1>1, <1>5, StoreTyped DEF Typed
<1>10. view' = Abstract!ViewOf(d, k) /\ view' \in Views /\ view'.store = d /\ Len(view'.events) = k
  <2> DEFINE v == Abstract!ViewOf(d, k)
  <2>1. v \in Views /\ v.store = d /\ Len(v.events) = k
    BY <1>9, ViewTyped, Zenon
  <2>2. view' = v
    BY <1>2, <1>5
  <2> HIDE DEF v
  <2>3. view' \in Views /\ view'.store = d /\ Len(view'.events) = k
    BY <2>1, <2>2, Zenon
  <2> QED BY <2>2, <2>3 DEF v
<1>11. [Abstract!Next]_Abstract!viewVars
  <2>1. Ahead(bridge.answer) /\ bridge.answer.store = d /\ bridge.answer.seq \in Nat
    BY <1>1, <1>3 DEF Answered, StateMessages
  <2>2. Len(view.events) \in Nat
    BY <1>1 DEF Typed, Views
  <2>3. view.store <= d /\ (view.store = d => Len(view.events) <= k)
    BY <1>5, <2>1, <2>2 DEF Ahead
  <2> QED BY <1>1, <1>8, <1>9, <1>10, <2>3, ShownFollows
<1>12. Typed'
  BY <1>1, <1>7, <1>8, <1>10 DEF Typed
<1>13. Connection'
  <2>1. ASSUME NEW x \in Sockets PROVE Linked(x, link'[x], bridge')
    <3>1. Linked(x, link'[x], bridge)
      BY <1>1, <1>8, LinkedUp DEF Connection
    <3> QED BY <1>6, <1>7, <3>1 DEF Linked
  <2>2. \A x \in daemon.clients : link'[x].ready = "connecting" => link'[x].down # <<>>
    BY <1>1, <1>8 DEF Connection, Typed, UpKept
  <2>3. bridge'.connecting # "loading"
    BY <1>7, SyncAssumption
  <2> QED BY <1>1, <1>7, <2>1, <2>2, <2>3 DEF Connection
<1>14. Streams'
  <2>1. Carries(s, d)'
    BY <1>1, <1>3, <1>4, <1>7, <1>8, <1>10, RestCarries
  <2>2. ASSUME NEW x \in Sockets, x # s PROVE \E y \in DOMAIN stores : Carries(x, y)'
    <3>1. PICK y \in DOMAIN stores : Carries(x, y)
      BY <1>1 DEF Streams
    <3> QED BY <1>1, <1>6, <1>7, <1>8, <2>2, <3>1, AsideSent
  <2> QED BY <1>1, <2>1, <2>2 DEF Streams
<1>15. Snapshots'
  <2>1. ASSUME NEW x \in Sockets
        PROVE  OneSnapshot(x)' /\ \A j \in States(link'[x].down) : Ahead(link[x].down[j])'
    <3>1. OneSnapshot(x) /\ ~Expecting(x) /\ UpKept(x)
      BY <1>1, <1>8 DEF Snapshots, Expecting
    <3>2. /\ States(link[x].down) = {} /\ link'[x].down = link[x].down
          /\ link'[x].ready = link[x].ready
          /\ \A i \in DOMAIN link[x].up :
                ~(link[x].up[i].type = "state.get" /\ link[x].ready = "open")
      BY <3>1 DEF OneSnapshot, UpKept
    <3>3. States(link'[x].down) = {}
      BY <3>2
    <3>4. \A i \in DOMAIN link'[x].up :
             ~(link'[x].up[i].type = "state.get" /\ link'[x].ready = "open")
      BY <3>1, <3>2 DEF UpKept
    <3> QED BY <3>3, <3>4 DEF OneSnapshot
  <2> QED BY <1>7, <2>1 DEF Snapshots
<1>16. Shown'
  BY <1>1, <1>5, <1>7, <1>10 DEF Shown
<1>17. SyncInvariant'
  BY <1>12, <1>13, <1>14, <1>15, <1>16 DEF SyncInvariant
<1> QED BY <1>6, <1>7, <1>11, <1>17 DEF SocketStays

-----------------------------------------------------------------------------
(* The theorems.                                                           *)

\* The first state.
LEMMA SyncInit ==
    ASSUME Init
    PROVE  SyncInvariant /\ Abstract!Init
<1>1. /\ stores = <<0>> /\ DOMAIN stores = {1} /\ stores[1] = 0 /\ Len(stores) = 1
      /\ stores \in Seq(Nat) /\ stores # <<>>
  BY DEF Init
<1>2. /\ view = Abstract!ViewOf(1, 0) /\ view \in Views /\ view.store = 1 /\ Len(view.events) = 0
  <2> DEFINE v == Abstract!ViewOf(1, 0)
  <2>1. v \in Views /\ v.store = 1 /\ Len(v.events) = 0
    BY ViewTyped
  <2>2. view = v
    BY DEF Init
  <2> HIDE DEF v
  <2> QED BY <2>1, <2>2 DEF v
<1>3. /\ bridge \in Bridges /\ bridge.socket = None /\ bridge.connecting = "loading"
      /\ bridge.answer = None /\ bridge.state = "connecting" /\ bridge.seen = {}
  <2> DEFINE empty == <<>>
             b == [state |-> "connecting", socket |-> None, connecting |-> "loading", timer |-> FALSE,
                   lastSeq |-> Seq0, seen |-> {}, buffered |-> empty, answer |-> None]
  <2>1. bridge = b
    BY DEF Init
  <2>2. empty \in Seq(EventMessages) /\ Seq0 \in Seqs
    BY DEF Seqs
  <2> HIDE DEF empty
  <2>3. /\ b \in Bridges /\ b.socket = None /\ b.connecting = "loading"
        /\ b.answer = None /\ b.state = "connecting" /\ b.seen = {}
    BY <2>2 DEF Bridges
  <2> HIDE DEF b
  <2> QED BY <2>1, <2>3
<1>4. /\ link \in [Sockets -> Links]
      /\ \A s \in Sockets : link[s].ready = "closed" /\ link[s].down = <<>> /\ link[s].up = <<>>
  BY UnusedTyped DEF Init
<1>5. daemon = [up |-> TRUE, clients |-> {}] /\ stopped = FALSE
  BY DEF Init
<1>6. Typed
  BY <1>1, <1>2, <1>3, <1>4, <1>5 DEF Typed
<1>7. Connection
  BY <1>3, <1>4, <1>5, SyncAssumption DEF Connection, Linked
<1>8. Streams
  <2>1. ASSUME NEW s \in Sockets PROVE Carries(s, 1)
    <3>1. DOMAIN link[s].down = {} /\ s # bridge.socket
      BY <1>3, <1>4, SyncAssumption
    <3>2. Stream(s) = link[s].down /\ Bases(s) = {}
      BY <3>1 DEF Stream, Bases, States
    <3> QED BY <1>5, <3>1, <3>2 DEF Carries
  <2> QED BY <1>1, <2>1 DEF Streams
<1>9. Snapshots
  <2>1. \A s \in Sockets : DOMAIN link[s].up = {} /\ States(link[s].down) = {}
    BY <1>4 DEF States
  <2> QED BY <1>3, <2>1 DEF Snapshots, OneSnapshot
<1>10. Shown
  BY <1>1, <1>2, <1>3 DEF Shown
<1>11. Abstract!Init
  BY <1>1, <1>2, <1>5 DEF Abstract!Init
<1> QED BY <1>6, <1>7, <1>8, <1>9, <1>10, <1>11 DEF SyncInvariant

\* A step of the daemon.
LEMMA DaemonKeeps ==
    ASSUME SyncInvariant, DaemonNext
    PROVE  SyncInvariant' /\ [Abstract!Next]_Abstract!viewVars /\ SocketStays
<1>1. ASSUME Publish PROVE SyncInvariant' /\ [Abstract!Next]_Abstract!viewVars /\ bridge' = bridge
  BY <1>1, PublishKeeps DEF Publish, ClientVars
<1>2. ASSUME StopDaemon PROVE SyncInvariant' /\ [Abstract!Next]_Abstract!viewVars /\ bridge' = bridge
  BY <1>2, StopDaemonKeeps DEF StopDaemon, ClientVars
<1>3. ASSUME StartDaemon PROVE SyncInvariant' /\ [Abstract!Next]_Abstract!viewVars /\ bridge' = bridge
  BY <1>3, StartDaemonKeeps DEF StartDaemon, ClientVars
<1>4. ASSUME NEW s \in Sockets, OpenSocket(s)
      PROVE  SyncInvariant' /\ [Abstract!Next]_Abstract!viewVars /\ bridge' = bridge
  BY <1>4, OpenSocketKeeps DEF OpenSocket, ClientVars
<1>5. ASSUME NEW s \in Sockets, Serve(s)
      PROVE  SyncInvariant' /\ [Abstract!Next]_Abstract!viewVars /\ bridge' = bridge
  BY <1>5, ServeKeeps DEF Serve, ClientVars
<1>6. ASSUME NEW s \in Sockets, CloseSocket(s)
      PROVE  SyncInvariant' /\ [Abstract!Next]_Abstract!viewVars /\ bridge' = bridge
  BY <1>6, CloseSocketKeeps DEF CloseSocket, ClientVars
<1>7. ASSUME NEW s \in Sockets, LoseSocket(s)
      PROVE  SyncInvariant' /\ [Abstract!Next]_Abstract!viewVars /\ bridge' = bridge
  BY <1>7, LoseSocketKeeps DEF LoseSocket, ClientVars
<1>8. SyncInvariant' /\ [Abstract!Next]_Abstract!viewVars /\ bridge' = bridge
  BY <1>1, <1>2, <1>3, <1>4, <1>5, <1>6, <1>7 DEF DaemonNext
<1> QED BY <1>8 DEF SocketStays

\* A step of the bridge.
LEMMA BridgeNextKeeps ==
    ASSUME SyncInvariant, BridgeNext
    PROVE  SyncInvariant' /\ [Abstract!Next]_Abstract!viewVars /\ SocketStays
<1>1. CASE LoadDescriptor
  BY <1>1, LoadDescriptorKeeps
<1>2. CASE ReconnectTimer
  BY <1>2, ReconnectKeeps
<1>3. ASSUME NEW s \in Sockets, SetupTimeout(s)
      PROVE  SyncInvariant' /\ [Abstract!Next]_Abstract!viewVars /\ SocketStays
  BY <1>3, SetupTimeoutKeeps
<1>4. ASSUME NEW s \in Sockets, Deliver(s)
      PROVE  SyncInvariant' /\ [Abstract!Next]_Abstract!viewVars /\ SocketStays
  BY <1>4, DeliverKeeps
<1>5. ASSUME NEW s \in Sockets, Closed(s)
      PROVE  SyncInvariant' /\ [Abstract!Next]_Abstract!viewVars /\ SocketStays
  BY <1>5, ClosedKeeps
<1>6. ASSUME NEW c \in Callers, RequestTimeout(c)
      PROVE  SyncInvariant' /\ [Abstract!Next]_Abstract!viewVars /\ SocketStays
  BY <1>6, RequestTimeoutKeeps
<1> QED BY <1>1, <1>2, <1>3, <1>4, <1>5, <1>6 DEF BridgeNext

\* A step of any of them, or of none.
LEMMA SyncNextKeeps ==
    ASSUME SyncInvariant, [Next]_syncVars
    PROVE  SyncInvariant' /\ [Abstract!Next]_Abstract!viewVars /\ [SocketStays]_syncVars
<1>1. CASE DaemonNext
  BY <1>1, DaemonKeeps
<1>2. CASE BridgeNext
  BY <1>2, BridgeNextKeeps
<1>3. CASE Synchronize({Focus})
  <2>1. {Focus} \in SUBSET Callers
    BY SyncAssumption
  <2> QED BY <1>3, <2>1, SynchronizeKeeps
<1>4. ASSUME NEW c \in Callers, Ask({c})
      PROVE  SyncInvariant' /\ [Abstract!Next]_Abstract!viewVars /\ SocketStays
  BY <1>4, AskKeeps
<1>5. CASE UNCHANGED syncVars
  <2>1. UNCHANGED <<stores, daemon, link, bridge, view, stopped>>
    BY <1>5 DEF syncVars
  <2>2. Typed' /\ Connection' /\ Shown'
    BY <2>1 DEF SyncInvariant, Typed, Connection, Shown
  <2>3. Streams'
    <3>1. ASSUME NEW x \in Sockets, NEW y \in DOMAIN stores, Carries(x, y)
          PROVE  Carries(x, y)'
      <4>1. Stream(x)' = Stream(x) /\ Bases(x)' = Bases(x) /\ Fed(x)' = Fed(x) /\ Store' = Store
        BY <2>1 DEF Stream, Bases, Fed, Store
      <4> QED BY <2>1, <3>1, <4>1 DEF Carries
    <3> QED BY <2>1, <3>1 DEF SyncInvariant, Streams
  <2>4. Snapshots'
    BY <2>1 DEF SyncInvariant, Snapshots, OneSnapshot, Expecting, Ahead
  <2> QED BY <1>5, <2>1, <2>2, <2>3, <2>4 DEF SyncInvariant, Abstract!viewVars
<1> QED BY <1>1, <1>2, <1>3, <1>4, <1>5 DEF Next

\* The connection, what is on its way and what is shown fit together in every
\* state: what #handleMessage and #synchronize rely on (realtime-client.ts).
THEOREM SyncInvariantHolds == Spec => []SyncInvariant
<1>1. Init => SyncInvariant
  BY SyncInit
<1>2. SyncInvariant /\ [Next]_syncVars => SyncInvariant'
  BY SyncNextKeeps
<1> QED BY <1>1, <1>2, PTL DEF Spec

\* The bridge takes a new socket only after the close of the one before
\* (#beginConnect, the open and close listeners).
THEOREM SocketsDoNotOverlap == Spec => OneSocketAtATime
<1>1. SyncInvariant /\ [Next]_syncVars
        => [bridge.socket # None => bridge'.socket \in {bridge.socket, None}]_syncVars
  BY SyncNextKeeps DEF SocketStays
<1>2. Spec => [][bridge.socket # None => bridge'.socket \in {bridge.socket, None}]_syncVars
  BY <1>1, SyncInvariantHolds, PTL DEF Spec
<1> QED BY <1>2 DEF OneSocketAtATime

\* What a consumer of onSnapshot and onEvent holds is the beginning of one
\* database's log and never steps back: the safety part of FollowsTheLog, whatever
\* is lost, restarted or late (#synchronize and #applyDomainEvent).
THEOREM BridgeFollowsTheLog == Spec => Abstract!Init /\ [][Abstract!Next]_Abstract!viewVars
<1>1. Init => Abstract!Init
  BY SyncInit
<1>2. SyncInvariant /\ [Next]_syncVars => [Abstract!Next]_Abstract!viewVars
  BY SyncNextKeeps
<1> QED BY <1>1, <1>2, SyncInvariantHolds, PTL DEF Spec
=============================================================================
