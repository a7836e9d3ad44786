------------------------------ MODULE VoiceProofs ------------------------------
(***************************************************************************)
(* What holds of the two voice bridges for any number of tasks, turns,     *)
(* announced events and messages under way: the four invariants and the    *)
(* action property of VoiceEngines, each from an inductive invariant over  *)
(* the part of the state it is about.                                      *)
(***************************************************************************)
EXTENDS VoiceEngines, TLAPS

-----------------------------------------------------------------------------
(* The shape of the state.                                                 *)

Messages == {"session.updated", "error", "no active response", "speech started",
             "speech stopped", "done", "act", "mute", "wait"}
Waiters == {"no", "caller", "retry"}

Sessions == [busy : BOOLEAN, cancelled : BOOLEAN, speech : BOOLEAN, errors : BOOLEAN,
             out : Seq(Messages)]

Orphans == [at : {"none", "connecting", "open"}, setup : Waiters, s : Sessions]

Bridges ==
    [socket : {"none", "connecting", "open", "closing"},
     setup : Waiters, late : BOOLEAN, waiting : Waiters, orphan : Orphans,
     manual : BOOLEAN, timer : BOOLEAN,
     engaged : BOOLEAN, mode : {"voice", "text"}, nextMode : {"none", "voice", "text"},
     active : BOOLEAN, pending : BOOLEAN, input : BOOLEAN, cancelling : BOOLEAN,
     watchdog : BOOLEAN, depth : Nat, asked : SUBSET Nat, queue : [Tasks -> Nat],
     tools : Nat, oldTools : Nat,
     capped : BOOLEAN, overtaken : BOOLEAN, crossed : BOOLEAN, hushed : BOOLEAN]

Cascades ==
    [connected : BOOLEAN, manual : BOOLEAN, timer : BOOLEAN,
     engaged : BOOLEAN, mode : {"voice", "text"}, nextMode : {"none", "voice", "text"},
     scribe : {"none", "opening", "started"},
     opener : {"none", "connect", "retry", "engage"},
     late : SUBSET {"connect", "retry", "engage"},
     fatal : BOOLEAN, queue : [Tasks -> Nat],
     turn : Turns \cup {NoTurn},
     at : [Turns -> {"none", "stream", "refused", "tool", "speech"}],
     rounds : Nat, calls : SUBSET Turns]

BriefsTyped ==
    /\ rows \in [Tasks -> [brief : Nat, delivered : BOOLEAN]]
    /\ queued \in [Tasks -> Nat]
    /\ told \in SUBSET Nat

VoiceTyped ==
    /\ BriefsTyped
    /\ rt \in Bridges /\ session \in Sessions /\ cc \in Cascades
    /\ questions \in [Tasks -> Nat]
    /\ engine \in {"realtime", "cascade"} /\ switched \in BOOLEAN
    /\ news \in Nat /\ moves \in Nat

-----------------------------------------------------------------------------
(* The inductive invariants.                                               *)

\* As long as the session has reported no error and no replaced socket has moved the
\* slot, at most one end of a response is under way, none while the provider makes one,
\* and the slot is held until the bridge has read it.
SlotHeld(b, s) ==
    b.socket = "open" /\ ~s.errors /\ ~b.crossed =>
        /\ \A i \in DOMAIN s.out : s.out[i] \notin {"error", "no active response"}
        /\ s.busy => b.active
        /\ \A i \in DOMAIN s.out :
              s.out[i] \in Realtime!ResponseEnds =>
                 /\ b.active /\ ~s.busy
                 /\ \A j \in DOMAIN s.out : s.out[j] \in Realtime!ResponseEnds => j = i

\* The session's first message is one that ends the set-up.
SetupFirst(b, s) ==
    b.socket = "open" /\ b.setup # "no" => s.out # <<>> /\ s.out[1] \in {"session.updated", "error"}

\* What a response that was put off waits for, but for a tool.
Waits(b) == b.active \/ b.input \/ b.capped \/ b.hushed \/ b.crossed

\* Before the set-up has ended, and on a socket that is gone, a put-off response waits
\* for no tool; with no socket there is no watchdog.
SetupIsQuiet(b) ==
    /\ b.socket = "none" => ~b.watchdog
    /\ b.socket # "open" \/ b.setup # "no" => (b.pending => Waits(b))

AsksAgain(b) == b.pending => Waits(b) \/ b.tools + b.oldTools > 0

RealtimeSound(b, s) == SlotHeld(b, s) /\ SetupFirst(b, s) /\ SetupIsQuiet(b) /\ AsksAgain(b)

\* One turn asks the model or speaks, and a session that opens is waited for.
CascadeSound(b) ==
    /\ \A t \in Turns : b.at[t] \in {"stream", "refused", "speech"} => t = b.turn
    /\ \A t \in b.calls : b.at[t] = "tool"
    /\ b.scribe = "opening" => b.opener # "none"

\* A bridge that another engine has replaced
RealtimeRetired(b) ==
    /\ b.socket = "none" /\ b.setup = "no" /\ b.waiting = "no" /\ ~b.timer
    /\ b.manual \/ (~b.late /\ b.orphan.setup # "retry")

CascadeRetired(c) == c.scribe = "none" /\ c.opener = "none" /\ ~c.connected /\ ~c.timer

RetirementSound ==
    /\ engine = "cascade" /\ ~rt.overtaken => RealtimeRetired(rt)
    /\ engine = "realtime" => CascadeRetired(cc)

\* Before the engine is changed for the first time the other bridge has not served.
NeverServed ==
    ~switched => (engine = "cascade" => ~rt.overtaken)

\* The table and what is known of the news
BriefsSound ==
    /\ told \subseteq 0 .. news
    /\ \A t \in Tasks :
          /\ rows[t].brief = queued[t] /\ queued[t] <= news
          /\ queued[t] # 0 =>
                /\ queued[t] \in told <=> rows[t].delivered
                /\ \A u \in Tasks : queued[u] = queued[t] => u = t

VoiceInvariant ==
    /\ VoiceTyped
    /\ RealtimeSound(rt, session)
    /\ CascadeSound(cc)
    /\ RetirementSound /\ NeverServed
    /\ ~switched => Queue = Pending /\ BriefsSound

-----------------------------------------------------------------------------
(* The realtime bridge's helpers, on pairs of the bridge and the session.  *)

Pairs == [b : Bridges, s : Sessions]

\* What the bridge does with a message leaves this alone.
Kept(p, q) ==
    /\ q.b.socket = p.b.socket /\ q.b.setup = p.b.setup
    /\ q.b.queue = p.b.queue /\ q.b.overtaken = p.b.overtaken
    /\ q.b.waiting = p.b.waiting /\ q.b.timer = p.b.timer
    /\ q.b.manual = p.b.manual /\ q.b.late = p.b.late
    /\ q.b.crossed = p.b.crossed /\ q.b.orphan = p.b.orphan

\* A pair between two messages: all but what a put-off response waits for.
Between(p) ==
    /\ p \in Pairs /\ p.b.socket = "open"
    /\ SlotHeld(p.b, p.s) /\ SetupFirst(p.b, p.s)

Settled(p) == p \in Pairs /\ RealtimeSound(p.b, p.s)

\* The slot is about four fields of the bridge.
LEMMA SlotFields ==
    ASSUME NEW b, NEW c, NEW s,
           c.socket = b.socket, c.setup = b.setup, c.active = b.active, c.crossed = b.crossed,
           SlotHeld(b, s), SetupFirst(b, s)
    PROVE  SlotHeld(c, s) /\ SetupFirst(c, s)
<1>1. SetupFirst(c, s)
  BY DEF SetupFirst
<1>2. SlotHeld(c, s)
  BY DEF SlotHeld
<1> QED BY <1>1, <1>2

\* A new message comes after the others.
LEMMA AppendKeepsFirst ==
    ASSUME NEW out \in Seq(Messages), NEW msg \in Messages
    PROVE  /\ Append(out, msg) # <<>>
           /\ out # <<>> => Append(out, msg)[1] = out[1]
<1>1. Len(Append(out, msg)) = Len(out) + 1 /\ Len(out) \in Nat
  OBVIOUS
<1>2. Append(out, msg) # <<>>
  BY <1>1
<1>3. ASSUME out # <<>>
      PROVE  1 \in 1 .. Len(out)
  BY <1>3
<1>4. ASSUME out # <<>>
      PROVE  Append(out, msg)[1] = out[1]
  BY <1>3, <1>4
<1> QED BY <1>2, <1>4

\* A message from the provider goes to the end of what it has sent; nothing else changes.
LEMMA SaysIsTyped ==
    ASSUME NEW s \in Sessions, NEW msg \in Messages
    PROVE  /\ Realtime!Says(s, msg) \in Sessions
           /\ Realtime!Says(s, msg).busy = s.busy /\ Realtime!Says(s, msg).errors = s.errors
           /\ Realtime!Says(s, msg).out = Append(s.out, msg)
<1>1. s.out \in Seq(Messages)
  BY DEF Sessions
<1>2. Append(s.out, msg) \in Seq(Messages)
  BY <1>1
<1> QED BY <1>2 DEF Sessions, Realtime!Says

\* So does an error, which is remembered as well.
LEMMA ComplainsIsTyped ==
    ASSUME NEW s \in Sessions, NEW msg \in Messages
    PROVE  /\ Realtime!Complains(s, msg) \in Sessions
           /\ Realtime!Complains(s, msg).errors
           /\ Realtime!Complains(s, msg).out = Append(s.out, msg)
<1>1. s.out \in Seq(Messages)
  BY DEF Sessions
<1>2. Append(s.out, msg) \in Seq(Messages)
  BY <1>1
<1> DEFINE r == [s EXCEPT !.out = Append(s.out, msg)]
<1>3. r \in Sessions /\ r.out = Append(s.out, msg)
  BY <1>2 DEF Sessions
<1>4. Realtime!Complains(s, msg) = [r EXCEPT !.errors = TRUE]
  BY DEF Realtime!Complains
<1> HIDE DEF r
<1> QED BY <1>3, <1>4 DEF Sessions

\* Asking twice, or while the user speaks, only puts the response off.
LEMMA RequestIsSound ==
    ASSUME NEW p, Between(p)
    PROVE  /\ Settled(Realtime!RequestResponse(p))
           /\ Between(Realtime!RequestResponse(p))
           /\ Kept(p, Realtime!RequestResponse(p))
<1> SUFFICES ASSUME NEW q, q = Realtime!RequestResponse(p)
             PROVE  Settled(q) /\ Between(q) /\ Kept(p, q)
  OBVIOUS
<1>1. /\ p \in Pairs /\ p.b \in Bridges /\ p.s \in Sessions /\ p.b.socket = "open"
      /\ Realtime!Open(p.b)
  BY DEF Between, Pairs, Realtime!Open
<1>2. CASE p.b.mode = "voice" /\ ~p.b.engaged
  <2> DEFINE b == [p.b EXCEPT !.pending = FALSE]
  <2>1. q = [b |-> b, s |-> p.s]
    BY <1>1, <1>2 DEF Realtime!RequestResponse, Pairs
  <2>2. b \in Bridges /\ ~b.pending /\ b.active = p.b.active /\ b.socket = p.b.socket
        /\ b.setup = p.b.setup /\ b.queue = p.b.queue /\ b.overtaken = p.b.overtaken
        /\ b.depth = p.b.depth /\ b.input = p.b.input /\ b.waiting = p.b.waiting
        /\ b.timer = p.b.timer /\ b.manual = p.b.manual /\ b.late = p.b.late
        /\ b.crossed = p.b.crossed /\ b.orphan = p.b.orphan
    BY <1>1 DEF Bridges
  <2> HIDE DEF b
  <2>3. Between(q) /\ Kept(p, q)
    BY <1>1, <2>1, <2>2, SlotFields DEF Between, Kept, Pairs
  <2> QED BY <2>1, <2>2, <2>3 DEF Settled, Between, RealtimeSound, SetupIsQuiet, AsksAgain, Waits
<1>3. CASE ~(p.b.mode = "voice" /\ ~p.b.engaged) /\ (p.b.active \/ p.b.input)
  <2> DEFINE b == [p.b EXCEPT !.pending = TRUE]
  <2>1. q = [b |-> b, s |-> p.s]
    BY <1>1, <1>3 DEF Realtime!RequestResponse, Pairs
  <2>2. b \in Bridges /\ b.active = p.b.active /\ b.socket = p.b.socket
        /\ b.setup = p.b.setup /\ b.queue = p.b.queue /\ b.overtaken = p.b.overtaken
        /\ b.depth = p.b.depth /\ b.input = p.b.input /\ b.waiting = p.b.waiting
        /\ b.timer = p.b.timer /\ b.manual = p.b.manual /\ b.late = p.b.late
        /\ b.crossed = p.b.crossed /\ b.orphan = p.b.orphan
    BY <1>1 DEF Bridges
  <2> HIDE DEF b
  <2>3. Between(q) /\ Kept(p, q)
    BY <1>1, <2>1, <2>2, SlotFields DEF Between, Kept, Pairs
  <2> QED BY <1>3, <2>1, <2>2, <2>3 DEF Settled, Between, RealtimeSound, SetupIsQuiet, AsksAgain, Waits
<1>4. CASE ~(p.b.mode = "voice" /\ ~p.b.engaged) /\ ~(p.b.active \/ p.b.input)
  <2> DEFINE b == [p.b EXCEPT !.pending = FALSE, !.active = TRUE, !.watchdog = TRUE,
                              !.capped = FALSE, !.hushed = FALSE]
             s == IF p.s.busy THEN Realtime!Complains(p.s, "error")
                  ELSE [p.s EXCEPT !.busy = TRUE, !.cancelled = FALSE]
  <2>1. q = [b |-> b, s |-> s]
    BY <1>1, <1>4 DEF Realtime!RequestResponse, Pairs
  <2>2. b \in Bridges /\ ~b.pending /\ b.active /\ b.socket = p.b.socket /\ b.setup = p.b.setup
        /\ b.queue = p.b.queue /\ b.overtaken = p.b.overtaken /\ b.depth = p.b.depth
        /\ b.input = p.b.input /\ b.waiting = p.b.waiting
        /\ b.timer = p.b.timer /\ b.manual = p.b.manual /\ b.late = p.b.late
        /\ b.crossed = p.b.crossed /\ b.orphan = p.b.orphan
    BY <1>1 DEF Bridges
  <2>3. CASE p.s.busy
    <3>1. s \in Sessions /\ s.errors /\ s.out = Append(p.s.out, "error")
      BY <1>1, <2>3, ComplainsIsTyped DEF Messages
    <3>2. p.s.out \in Seq(Messages)
      BY <1>1 DEF Sessions
    <3> HIDE DEF s
    <3>3. SlotHeld(b, s)
      BY <3>1 DEF SlotHeld
    <3>4. SetupFirst(b, s)
      BY <2>2, <3>1, <3>2 DEF SetupFirst, Between
    <3> HIDE DEF b
    <3> QED BY <1>4, <2>1, <2>2, <3>1, <3>3, <3>4 DEF Settled, Between, Kept, Pairs,
               RealtimeSound, SetupIsQuiet, AsksAgain, Waits
  <2>4. CASE ~p.s.busy
    <3>1. s \in Sessions /\ s.errors = p.s.errors /\ s.out = p.s.out /\ s.busy
      BY <1>1, <2>4 DEF Sessions
    <3> HIDE DEF s, b
    <3>2. \A i \in DOMAIN p.s.out : SlotHeld(p.b, p.s) /\ ~s.errors /\ ~p.b.crossed =>
                                        p.s.out[i] \notin Realtime!ResponseEnds
      BY <1>4, <2>2, <3>1 DEF SlotHeld, Between
    <3>3. SlotHeld(b, s)
      BY <2>2, <3>1, <3>2 DEF SlotHeld, Between
    <3>4. SetupFirst(b, s)
      BY <2>2, <3>1 DEF SetupFirst, Between
    <3> QED BY <1>4, <2>1, <2>2, <3>1, <3>3, <3>4 DEF Settled, Between, Kept, Pairs,
               RealtimeSound, SetupIsQuiet, AsksAgain, Waits
  <2> QED BY <2>3, <2>4
<1> QED BY <1>2, <1>3, <1>4

-----------------------------------------------------------------------------

\* What a response that was put off waits for, and the set-up
AskFields(b, c) ==
    /\ c.pending = b.pending /\ c.active = b.active /\ c.input = b.input
    /\ c.depth = b.depth /\ c.tools = b.tools /\ c.oldTools = b.oldTools
    /\ c.capped = b.capped /\ c.hushed = b.hushed
    /\ c.crossed = b.crossed
    /\ b.socket = "none" /\ ~b.watchdog => ~c.watchdog

\* A pair whose slot is known, whatever it waits for
Slotted(p) == p \in Pairs /\ SlotHeld(p.b, p.s) /\ SetupFirst(p.b, p.s)

\* What is settled between two waits depends on the socket, the set-up and the fields that ask again.
LEMMA SettledFields ==
    ASSUME NEW p, NEW q, Settled(p), Slotted(q), AskFields(p.b, q.b),
           q.b.socket = p.b.socket, q.b.setup = p.b.setup
    PROVE  Settled(q)
<1>1. SetupIsQuiet(q.b) /\ AsksAgain(q.b)
  BY DEF Settled, RealtimeSound, AskFields, SetupIsQuiet, AsksAgain, Waits
<1> QED BY <1>1 DEF Settled, RealtimeSound, Slotted

\* A cancellation leaves the slot to the response that ends: what it changes is what
\* the session was told.
LEMMA CancelIsSound ==
    ASSUME NEW p, Slotted(p)
    PROVE  /\ Slotted(Realtime!Cancel(p)) /\ Kept(p, Realtime!Cancel(p))
           /\ AskFields(p.b, Realtime!Cancel(p).b)
<1> SUFFICES ASSUME NEW q, q = Realtime!Cancel(p)
             PROVE  Slotted(q) /\ Kept(p, q) /\ AskFields(p.b, q.b)
  OBVIOUS
<1>1. p \in Pairs /\ p.b \in Bridges /\ p.s \in Sessions
  BY DEF Slotted, Pairs
<1>2. CASE ~p.b.active \/ p.b.cancelling
  BY <1>2 DEF Realtime!Cancel, Kept, AskFields
<1>4. CASE ~(~p.b.active \/ p.b.cancelling) /\ ~Realtime!Open(p.b)
  <2> DEFINE m == [p EXCEPT !.b.cancelling = TRUE]
  <2>1. q = m
    BY <1>4 DEF Realtime!Cancel
  <2>2. m \in Pairs /\ m.s = p.s /\ AskFields(p.b, m.b) /\ Kept(p, m)
    BY <1>1 DEF Pairs, Bridges, AskFields, Kept
  <2> HIDE DEF m
  <2>3. Slotted(m)
    BY <2>2, SlotFields DEF Slotted, AskFields, Kept
  <2> QED BY <2>1, <2>2, <2>3
<1>3. CASE ~(~p.b.active \/ p.b.cancelling) /\ Realtime!Open(p.b)
  <2> DEFINE b == [p.b EXCEPT !.cancelling = TRUE, !.watchdog = TRUE]
             s == IF p.s.busy THEN [p.s EXCEPT !.cancelled = TRUE]
                  ELSE Realtime!Complains(p.s, "no active response")
  <2>1. q = [b |-> b, s |-> s]
    BY <1>1, <1>3 DEF Realtime!Cancel, Pairs
  <2>2. b \in Bridges /\ b.socket = p.b.socket /\ b.active = p.b.active /\ b.setup = p.b.setup
        /\ b.queue = p.b.queue /\ b.overtaken = p.b.overtaken /\ b.waiting = p.b.waiting
        /\ b.timer = p.b.timer /\ b.manual = p.b.manual /\ b.late = p.b.late
        /\ b.crossed = p.b.crossed /\ b.orphan = p.b.orphan
        /\ AskFields(p.b, b)
    BY <1>1, <1>3 DEF Bridges, AskFields, Realtime!Open
  <2> HIDE DEF b
  <2>3. SlotHeld(b, p.s) /\ SetupFirst(b, p.s)
    BY <2>2, SlotFields DEF Slotted
  <2>4. s \in Sessions /\ SlotHeld(b, s) /\ SetupFirst(b, s)
    <3>1. CASE p.s.busy
      <4>1. s \in Sessions /\ s.errors = p.s.errors /\ s.busy = p.s.busy /\ s.out = p.s.out
        BY <1>1, <3>1 DEF Sessions
      <4> HIDE DEF s, b
      <4> QED BY <2>3, <4>1 DEF SlotHeld, SetupFirst
    <3>2. CASE ~p.s.busy
      <4>1. s \in Sessions /\ s.errors /\ s.out = Append(p.s.out, "no active response")
        BY <1>1, <3>2, ComplainsIsTyped DEF Messages
      <4>2. p.s.out \in Seq(Messages)
        BY <1>1 DEF Sessions
      <4> HIDE DEF s, b
      <4>3. SlotHeld(b, s)
        BY <4>1 DEF SlotHeld
      <4>4. SetupFirst(b, s)
        BY <2>3, <4>1, <4>2, AppendKeepsFirst DEF SetupFirst, Messages
      <4> QED BY <4>1, <4>3, <4>4
    <3> QED BY <3>1, <3>2
  <2> HIDE DEF b, s
  <2> QED BY <2>1, <2>2, <2>4 DEF Slotted, Pairs, Kept
<1> QED BY <1>2, <1>3, <1>4

\* Going to sleep cuts off what the user says and is told.
LEMMA SleepIsSound ==
    ASSUME NEW p, Slotted(p)
    PROVE  LET q == Realtime!Sleep(p)
           IN  /\ Slotted(q) /\ Kept(p, q) /\ q.b.active = p.b.active
               /\ Settled(p) => Settled(q)
<1> SUFFICES ASSUME NEW q, q = Realtime!Sleep(p)
             PROVE  /\ Slotted(q) /\ Kept(p, q) /\ q.b.active = p.b.active
                    /\ Settled(p) => Settled(q)
  OBVIOUS
<1>1. p \in Pairs /\ p.b \in Bridges /\ p.s \in Sessions
  BY DEF Slotted, Pairs
<1>2. CASE ~p.b.engaged
  BY <1>2 DEF Realtime!Sleep, Kept
<1>3. CASE p.b.engaged
  <2> DEFINE m == [p EXCEPT !.b.engaged = FALSE, !.b.input = FALSE, !.b.depth = 0,
                            !.b.hushed = @ \/ (p.b.input /\ p.b.pending)]
  <2>1. q = Realtime!Cancel(m)
    BY <1>3 DEF Realtime!Sleep
  <2>2. m \in Pairs /\ m.s = p.s
        /\ m.b.active = p.b.active /\ m.b.pending = p.b.pending
        /\ m.b.tools = p.b.tools /\ m.b.oldTools = p.b.oldTools
        /\ m.b.capped = p.b.capped /\ m.b.depth = 0 /\ m.b.input = FALSE
        /\ (m.b.hushed <=> p.b.hushed \/ (p.b.input /\ p.b.pending))
        /\ m.b.watchdog = p.b.watchdog
        /\ Kept(p, m)
    BY <1>1 DEF Pairs, Bridges, Kept
  <2> HIDE DEF m
  <2>3. Slotted(m)
    BY <2>2, SlotFields DEF Slotted, Kept
  <2>4. Settled(p) => Settled(m)
    BY <2>2, <2>3 DEF Settled, Slotted, RealtimeSound, SetupIsQuiet, AsksAgain, Waits, Kept
  <2>6. Slotted(q) /\ Kept(m, q) /\ AskFields(m.b, q.b)
    BY <2>1, <2>3, CancelIsSound
  <2>7. Settled(m) => Settled(q)
    BY <2>6, SettledFields DEF Kept
  <2> QED BY <2>2, <2>3, <2>4, <2>6, <2>7 DEF Kept, AskFields
<1> QED BY <1>2, <1>3

\* The questions that are asked when a conversation begins
LEMMA AnnounceIsSound ==
    ASSUME NEW p, Settled(p), questions \in [Tasks -> Nat]
    PROVE  /\ Settled(Realtime!AnnounceOpenQuestions(p))
           /\ Kept(p, Realtime!AnnounceOpenQuestions(p))
<1> SUFFICES ASSUME NEW q, q = Realtime!AnnounceOpenQuestions(p)
             PROVE  Settled(q) /\ Kept(p, q)
  OBVIOUS
<1>1. p \in Pairs /\ p.b \in Bridges /\ p.s \in Sessions
  BY DEF Settled, Pairs
<1>2. CASE ~Realtime!Open(p.b) \/ ~Realtime!Awake(p.b) \/ Realtime!Unasked(p.b) = {}
  <2>1. q = p
    BY <1>2 DEF Realtime!AnnounceOpenQuestions
  <2> QED BY <2>1 DEF Kept
<1>3. CASE ~(~Realtime!Open(p.b) \/ ~Realtime!Awake(p.b) \/ Realtime!Unasked(p.b) = {})
  <2> DEFINE numbers == {questions[t] : t \in Realtime!Unasked(p.b)}
             m == [p EXCEPT !.b.asked = @ \cup numbers]
  <2>1. q = Realtime!RequestResponse(m)
    BY <1>3 DEF Realtime!AnnounceOpenQuestions
  <2>2. numbers \subseteq Nat
    BY DEF Realtime!Unasked
  <2> HIDE DEF numbers
  <2>3. m \in Pairs /\ m.s = p.s /\ AskFields(p.b, m.b) /\ Kept(p, m)
    BY <1>1, <2>2 DEF Pairs, Bridges, AskFields, Kept
  <2> HIDE DEF m
  <2>4. p.b.socket = "open"
    BY <1>3 DEF Realtime!Open
  <2>5. Between(m)
    BY <2>3, <2>4, SlotFields DEF Between, Settled, RealtimeSound, SetupIsQuiet, AskFields, Kept
  <2> QED BY <2>1, <2>3, <2>5, RequestIsSound DEF Kept
<1> QED BY <1>2, <1>3

-----------------------------------------------------------------------------
(* A message that has been taken from those under way, of the session's    *)
(* own or of a socket that was replaced.                                   *)

\* While the session is set up no tool asks for what was put off.
Calm(b) == b.setup # "no" => (b.pending => Waits(b))

Taken(p, msg) ==
    /\ p \in Pairs /\ p.b.socket = "open" /\ SetupFirst(p.b, p.s)
    /\ AsksAgain(p.b) /\ Calm(p.b)
    /\ p.b.setup # "no" /\ msg \in Realtime!ResponseEnds => p.b.crossed \/ ~p.b.active
    /\ msg \in Messages \ {"session.updated"}
    /\ msg \notin Realtime!ResponseEnds => SlotHeld(p.b, p.s)
    /\ ~p.s.errors /\ ~p.b.crossed =>
         /\ msg \in {"error", "no active response"} => ~p.b.active
         /\ \A i \in DOMAIN p.s.out : p.s.out[i] \notin {"error", "no active response"}
         /\ msg \in Realtime!ResponseEnds =>
              ~p.s.busy /\ \A i \in DOMAIN p.s.out : p.s.out[i] \notin Realtime!ResponseEnds

\* A response has ended: the next one is asked for, the bridge goes to sleep, or a
\* tool is called.
LEMMA ResponseDoneIsSound ==
    ASSUME NEW p, NEW end \in Realtime!ResponseEnds, Between(p), Calm(p.b)
    PROVE  /\ Settled(Realtime!ResponseDone(p, end))
           /\ Kept(p, Realtime!ResponseDone(p, end))
<1> SUFFICES ASSUME NEW q, q = Realtime!ResponseDone(p, end)
             PROVE  Settled(q) /\ Kept(p, q)
  OBVIOUS
<1>1. p \in Pairs /\ p.b \in Bridges /\ p.s \in Sessions /\ p.b.socket = "open"
  BY DEF Between, Pairs
<1>2. CASE end \in {"done", "wait"}
  <2> DEFINE m == [p EXCEPT !.b.depth = 0]
  <2>1. q = IF p.b.pending THEN Realtime!RequestResponse(m) ELSE m
    BY <1>2 DEF Realtime!ResponseDone, Realtime!EndOfTurn
  <2>2. m \in Pairs /\ m.s = p.s /\ Kept(p, m) /\ m.b.active = p.b.active
        /\ m.b.pending = p.b.pending
    BY <1>1 DEF Pairs, Bridges, Kept
  <2> HIDE DEF m
  <2>3. Between(m)
    BY <2>2, SlotFields DEF Between, Kept
  <2>4. CASE p.b.pending
    BY <2>1, <2>2, <2>3, <2>4, RequestIsSound DEF Kept
  <2>5. CASE ~p.b.pending
    <3>1. Settled(m)
      BY <2>2, <2>3, <2>5 DEF Settled, Between, RealtimeSound, SetupIsQuiet, AsksAgain, Waits, Kept
    <3> QED BY <2>1, <2>2, <2>5, <3>1
  <2> QED BY <2>4, <2>5
<1>3. CASE end = "mute"
  <2> DEFINE m == Realtime!Sleep(p)
             n == [m EXCEPT !.b.depth = 0, !.b.pending = FALSE]
  <2>1. q = n
    BY <1>3 DEF Realtime!ResponseDone
  <2>2. Slotted(m) /\ Kept(p, m)
    BY SleepIsSound DEF Between, Slotted
  <2> HIDE DEF m
  <2>3. n \in Pairs /\ n.s = m.s /\ Kept(m, n) /\ n.b.active = m.b.active
        /\ n.b.pending = FALSE /\ n.b.depth = 0
    BY <2>2 DEF Slotted, Pairs, Bridges, Kept
  <2> HIDE DEF n
  <2>4. Slotted(n)
    BY <2>2, <2>3, SlotFields DEF Slotted, Kept
  <2>5. Settled(n)
    BY <1>1, <2>2, <2>3, <2>4 DEF Settled, Slotted, RealtimeSound, SetupIsQuiet, AsksAgain, Waits, Kept
  <2> QED BY <2>1, <2>2, <2>3, <2>5 DEF Kept
<1>4. CASE end = "act"
  <2> DEFINE m == [p EXCEPT !.b.depth = @ + 1, !.b.tools = @ + 1]
  <2>1. q = m
    BY <1>4 DEF Realtime!ResponseDone
  <2>0. p.b.depth + 1 \in Nat /\ p.b.tools + 1 \in Nat /\ p.b.oldTools \in Nat
    BY <1>1 DEF Bridges
  <2>a. m \in Pairs /\ m.s = p.s /\ Kept(p, m) /\ m.b.active = p.b.active
        /\ m.b.tools = p.b.tools + 1 /\ m.b.oldTools = p.b.oldTools
        /\ m.b.pending = p.b.pending /\ m.b.input = p.b.input
        /\ m.b.capped = p.b.capped /\ m.b.hushed = p.b.hushed
    BY <1>1, <2>0 DEF Pairs, Bridges, Kept
  <2> HIDE DEF m
  <2>b. p.b.tools \in Nat
    BY <1>1 DEF Bridges
  <2>2. m \in Pairs /\ m.s = p.s /\ Kept(p, m) /\ m.b.active = p.b.active
        /\ m.b.tools + m.b.oldTools > 0
        /\ m.b.pending = p.b.pending /\ m.b.input = p.b.input
        /\ m.b.capped = p.b.capped /\ m.b.hushed = p.b.hushed
    BY <2>0, <2>a, <2>b
  <2>3. Slotted(m)
    BY <2>2, SlotFields DEF Slotted, Between, Kept
  <2>4. Settled(m)
    BY <1>1, <2>2, <2>3 DEF Settled, Slotted, RealtimeSound, SetupIsQuiet, AsksAgain, Waits, Calm,
       Kept
  <2> QED BY <2>1, <2>2, <2>4
<1> QED BY <1>2, <1>3, <1>4 DEF Realtime!ResponseEnds

\* Whatever has come, a response that is put off still waits for something.
LEMMA HandledIsSound ==
    ASSUME NEW p, NEW msg, Taken(p, msg)
    PROVE  Settled(Realtime!Handled(p, msg)) /\ Kept(p, Realtime!Handled(p, msg))
<1> SUFFICES ASSUME NEW q, q = Realtime!Handled(p, msg)
             PROVE  Settled(q) /\ Kept(p, q)
  OBVIOUS
<1>1. /\ p \in Pairs /\ p.b \in Bridges /\ p.s \in Sessions
      /\ p.b.socket = "open" /\ SetupFirst(p.b, p.s) /\ Calm(p.b)
  BY DEF Taken, Pairs
<1>2. ASSUME msg \notin Realtime!ResponseEnds
      PROVE  Settled(p)
  BY <1>1, <1>2 DEF Taken, Settled, RealtimeSound, SetupIsQuiet, Calm
<1>3. CASE msg = "speech started"
  <2>1. msg \notin Realtime!ResponseEnds
    BY <1>3 DEF Realtime!ResponseEnds
  <2>2. CASE p.b.engaged
    <3> DEFINE m == [p EXCEPT !.b.input = TRUE, !.b.depth = 0]
    <3>1. q = m
      BY <1>3, <2>2 DEF Realtime!Handled, Realtime!ResponseEnds
    <3>2. m \in Pairs /\ m.s = p.s /\ Kept(p, m) /\ m.b.active = p.b.active
          /\ m.b.input = TRUE
      BY <1>1 DEF Pairs, Bridges, Kept
    <3> HIDE DEF m
    <3>3. Slotted(m)
      BY <1>1, <1>2, <2>1, <3>2, SlotFields DEF Slotted, Settled, RealtimeSound, Kept
    <3>4. Settled(m)
      BY <1>1, <3>2, <3>3 DEF Settled, Slotted, RealtimeSound, SetupIsQuiet, AsksAgain, Waits, Kept
    <3> QED BY <3>1, <3>2, <3>4
  <2>3. CASE ~p.b.engaged
    <3>1. q = p
      BY <1>3, <2>3 DEF Realtime!Handled, Realtime!ResponseEnds
    <3> QED BY <1>2, <2>1, <3>1 DEF Kept
  <2> QED BY <2>2, <2>3
<1>4. CASE msg = "speech stopped"
  <2>1. msg \notin Realtime!ResponseEnds
    BY <1>4 DEF Realtime!ResponseEnds
  <2>2. CASE p.b.engaged
    <3> DEFINE m == [p EXCEPT !.b.input = FALSE]
    <3>1. q = Realtime!RequestResponse(m)
      BY <1>4, <2>2 DEF Realtime!Handled, Realtime!ResponseEnds
    <3>2. m \in Pairs /\ m.s = p.s /\ Kept(p, m) /\ m.b.active = p.b.active
      BY <1>1 DEF Pairs, Bridges, Kept
    <3> HIDE DEF m
    <3>3. Between(m)
      BY <1>1, <1>2, <2>1, <3>2, SlotFields DEF Between, Settled, RealtimeSound, Kept
    <3> QED BY <3>1, <3>2, <3>3, RequestIsSound DEF Kept
  <2>3. CASE ~p.b.engaged
    <3>1. q = p
      BY <1>4, <2>3 DEF Realtime!Handled, Realtime!ResponseEnds
    <3> QED BY <1>2, <2>1, <3>1 DEF Kept
  <2> QED BY <2>2, <2>3
<1>5. CASE msg \in Realtime!ResponseEnds
  <2> DEFINE b == Realtime!Released(p.b)
             m == [p EXCEPT !.b = b]
  <2>1. q = Realtime!ResponseDone(m, msg)
    BY <1>5 DEF Realtime!Handled, Realtime!ResponseEnds
  <2> DEFINE mode == IF p.b.nextMode = "none" THEN p.b.mode ELSE p.b.nextMode
  <2>0. mode \in {"voice", "text"}
    BY <1>1 DEF Bridges
  <2>a. b = [p.b EXCEPT !.active = FALSE, !.cancelling = FALSE, !.watchdog = FALSE,
                        !.mode = mode, !.nextMode = "none"]
    BY DEF Realtime!Released
  <2> HIDE DEF mode, b
  <2>2. /\ b \in Bridges /\ b.socket = p.b.socket /\ b.setup = p.b.setup
        /\ b.queue = p.b.queue /\ b.overtaken = p.b.overtaken
        /\ b.waiting = p.b.waiting /\ b.timer = p.b.timer
        /\ b.manual = p.b.manual /\ b.late = p.b.late
        /\ b.crossed = p.b.crossed /\ b.orphan = p.b.orphan /\ b.pending = p.b.pending
        /\ b.input = p.b.input /\ b.capped = p.b.capped /\ b.hushed = p.b.hushed
    BY <1>1, <2>0, <2>a DEF Bridges
  <2> HIDE DEF b
  <2>3. m \in Pairs /\ m.s = p.s /\ m.b = b
    BY <1>1, <2>2 DEF Pairs
  <2>4. Kept(p, m)
    BY <2>2, <2>3 DEF Kept
  <2> HIDE DEF m
  <2>5. SlotHeld(m.b, m.s)
    BY <1>5, <2>2, <2>3 DEF SlotHeld, Taken
  <2>6. Between(m)
    BY <1>1, <2>2, <2>3, <2>5 DEF Between, SetupFirst
  <2>7. Calm(m.b)
    BY <1>1, <1>5, <2>2, <2>3 DEF Taken, Calm, Waits
  <2> QED BY <1>5, <2>1, <2>4, <2>6, <2>7, ResponseDoneIsSound DEF Kept
<1>6. CASE msg = "no active response" /\ p.b.cancelling
  <2> DEFINE m == [p EXCEPT !.b.active = FALSE, !.b.cancelling = FALSE]
             n == [m EXCEPT !.b.pending = FALSE]
  <2>1. q = IF p.b.pending THEN Realtime!RequestResponse(n) ELSE m
    BY <1>6 DEF Realtime!Handled, Realtime!TooLateToCancel, Realtime!ResponseEnds
  <2>2. m \in Pairs /\ m.s = p.s /\ Kept(p, m) /\ m.b.pending = p.b.pending
        /\ m.b.active = FALSE
    BY <1>1 DEF Pairs, Bridges, Kept
  <2> HIDE DEF m
  <2>3. n \in Pairs /\ n.s = p.s /\ Kept(p, n) /\ n.b.active = FALSE
    BY <2>2 DEF Pairs, Bridges, Kept
  <2> HIDE DEF n
  <2>4. SlotHeld(m.b, m.s) /\ SlotHeld(n.b, n.s)
    <3>1. msg \notin Realtime!ResponseEnds
      BY <1>6 DEF Realtime!ResponseEnds
    <3>2. CASE p.s.errors \/ p.b.crossed
      BY <2>2, <2>3, <3>2 DEF SlotHeld, Kept
    <3>3. CASE ~(p.s.errors \/ p.b.crossed)
      <4>1. ~p.b.active /\ SlotHeld(p.b, p.s)
        BY <1>6, <3>1, <3>3 DEF Taken, Realtime!ResponseEnds
      <4>2. p.b.active = FALSE
        BY <1>1, <4>1 DEF Bridges
      <4>3. SlotHeld(m.b, m.s)
        BY <1>1, <2>2, <4>1, <4>2, SlotFields DEF Kept
      <4>4. SlotHeld(n.b, n.s)
        BY <1>1, <2>3, <4>1, <4>2, SlotFields DEF Kept
      <4> QED BY <4>3, <4>4
    <3> QED BY <3>2, <3>3
  <2>5. Between(n)
    BY <1>1, <2>3, <2>4 DEF Between, SetupFirst, Kept
  <2>6. CASE p.b.pending
    BY <2>1, <2>3, <2>5, <2>6, RequestIsSound DEF Kept
  <2>7. CASE ~p.b.pending
    <3>1. Settled(m)
      BY <1>1, <2>2, <2>4, <2>7 DEF Settled, RealtimeSound, SetupFirst, SetupIsQuiet,
         AsksAgain, Kept
    <3> QED BY <2>1, <2>2, <2>7, <3>1
  <2> QED BY <2>6, <2>7
<1>7. CASE /\ msg \notin {"speech started", "speech stopped"} \cup Realtime!ResponseEnds
           /\ ~(msg = "no active response" /\ p.b.cancelling)
  <2> DEFINE m == Realtime!Failed(p)
  <2>1. q = m
    BY <1>7 DEF Realtime!Handled
  <2>2. m \in Pairs /\ m.s = p.s /\ Kept(p, m) /\ m.b.pending = FALSE /\ m.b.active = FALSE
    BY <1>1 DEF Pairs, Bridges, Kept, Realtime!Failed
  <2> HIDE DEF m
  <2>3. SlotHeld(m.b, m.s)
    <3>1. msg \in {"error", "no active response"}
      BY <1>7 DEF Taken, Messages, Realtime!ResponseEnds
    <3>2. CASE p.s.errors \/ p.b.crossed
      BY <2>2, <3>2 DEF SlotHeld, Kept
    <3>3. CASE ~(p.s.errors \/ p.b.crossed)
      <4>1. ~p.b.active /\ SlotHeld(p.b, p.s)
        BY <1>7, <3>1, <3>3 DEF Taken, Realtime!ResponseEnds
      <4>2. p.b.active = FALSE
        BY <1>1, <4>1 DEF Bridges
      <4> QED BY <1>1, <4>1, <4>2,  <2>2, SlotFields DEF Kept
    <3> QED BY <3>2, <3>3
  <2>4. Settled(m)
    BY <1>1, <2>2, <2>3 DEF Settled, RealtimeSound, SetupFirst, SetupIsQuiet,
       AsksAgain, Kept
  <2> QED BY <2>1, <2>2, <2>4
<1> QED BY <1>3, <1>4, <1>5, <1>6, <1>7

-----------------------------------------------------------------------------
(* The connection.                                                         *)

\* A socket that is not open says nothing of the slot.
LEMMA GoneIsSound ==
    ASSUME NEW b \in Bridges, NEW s, b.socket # "open", b.pending => Waits(b),
           b.socket = "none" => ~b.watchdog
    PROVE  RealtimeSound(b, s)
BY DEF RealtimeSound, SlotHeld, SetupFirst, SetupIsQuiet, AsksAgain

\* No session is a session with nothing to deliver.
LEMMA NoSessionTyped == Realtime!NoSession \in Sessions /\ Realtime!NoSession.out = <<>>
<1>1. <<>> \in Seq(Messages)
  OBVIOUS
<1> QED BY <1>1 DEF Realtime!NoSession, Sessions

\* What survives the fields that are reset.
Survives(b, c) ==
    /\ c.waiting = b.waiting /\ c.manual = b.manual /\ c.timer = b.timer
    /\ c.queue = b.queue /\ c.overtaken = b.overtaken

\* "no" waits for nothing.
LEMMA NoWaiter == "no" \in Waiters
BY DEF Waiters

\* #resetResponse leaves no response, no input and nothing to ask again.
LEMMA ResetTyped ==
    ASSUME NEW b \in Bridges
    PROVE  LET c == Realtime!Reset(b)
           IN  /\ c \in Bridges /\ ~c.pending /\ ~c.input /\ ~c.active /\ ~c.watchdog
               /\ c.socket = b.socket /\ c.setup = b.setup /\ c.late = b.late
               /\ c.depth = b.depth /\ Survives(b, c)
<1> SUFFICES ASSUME NEW c, c = Realtime!Reset(b)
             PROVE  /\ c \in Bridges /\ ~c.pending /\ ~c.input /\ ~c.active /\ ~c.watchdog
                    /\ c.socket = b.socket /\ c.setup = b.setup /\ c.late = b.late
                    /\ c.depth = b.depth /\ Survives(b, c)
  OBVIOUS
<1> DEFINE d == [b EXCEPT !.active = FALSE, !.pending = FALSE, !.input = FALSE,
                         !.cancelling = FALSE, !.watchdog = FALSE]
           old == b.oldTools + b.tools
<1>1. old \in Nat
  BY DEF Bridges
<1>2. c = [d EXCEPT !.tools = 0, !.oldTools = old, !.capped = FALSE, !.hushed = FALSE, !.crossed = FALSE]
  BY DEF Realtime!Reset
<1>3. /\ d \in Bridges /\ ~d.pending /\ ~d.input /\ ~d.active /\ ~d.watchdog
      /\ d.socket = b.socket /\ d.setup = b.setup /\ d.late = b.late
      /\ d.depth = b.depth /\ Survives(b, d)
  BY DEF Bridges, Survives
<1> HIDE DEF old, d
<1>4. c \in Bridges
  <2>1. [d EXCEPT !.tools = 0, !.oldTools = old, !.capped = FALSE, !.hushed = FALSE, !.crossed = FALSE] \in Bridges
    BY <1>1, <1>3 DEF Bridges
  <2> QED BY <1>2, <2>1
<1> QED BY <1>2, <1>3, <1>4 DEF Bridges, Survives

\* Leaving a socket leaves none, and a retry that was setting it up comes late.
LEMMA LeaveTyped ==
    ASSUME NEW b \in Bridges
    PROVE  LET c == Realtime!Leave(b)
           IN  /\ c \in Bridges /\ ~c.pending /\ ~c.input /\ ~c.active /\ ~c.watchdog
               /\ c.socket = "none" /\ c.setup = "no"
               /\ (c.late <=> b.late \/ b.setup = "retry")
               /\ Survives(b, c)
<1> SUFFICES ASSUME NEW c, c = Realtime!Leave(b)
             PROVE  /\ c \in Bridges /\ ~c.pending /\ ~c.input /\ ~c.active /\ ~c.watchdog
                    /\ c.socket = "none" /\ c.setup = "no"
                    /\ (c.late <=> b.late \/ b.setup = "retry")
                    /\ Survives(b, c)
  OBVIOUS
<1> DEFINE r == Realtime!Reset(b)
           late == r.late \/ b.setup = "retry"
<1>1. c = [r EXCEPT !.socket = "none", !.setup = "no", !.late = late]
  BY DEF Realtime!Leave
<1>2. /\ r \in Bridges /\ ~r.pending /\ ~r.input /\ ~r.active /\ ~r.watchdog /\ r.late = b.late
      /\ r.depth = b.depth /\ Survives(b, r)
  BY ResetTyped
<1>a. late \in BOOLEAN
  OBVIOUS
<1>b. late <=> b.late \/ b.setup = "retry"
  BY <1>2
<1> HIDE DEF r, late
<1>3. c \in Bridges
  BY <1>1, <1>2, <1>a, NoWaiter DEF Bridges
<1> QED BY <1>1, <1>2, <1>3, <1>b DEF Bridges, Survives

\* A new socket starts with no response and a fresh count of tool rounds.
LEMMA OpenSocketTyped ==
    ASSUME NEW b \in Bridges, NEW who \in Waiters
    PROVE  LET c == Realtime!OpenSocket(b, who)
           IN  /\ c \in Bridges /\ ~c.pending /\ ~c.input /\ ~c.active /\ ~c.watchdog
               /\ c.socket = "connecting" /\ c.depth = 0
               /\ c.queue = b.queue /\ c.overtaken = b.overtaken
<1> SUFFICES ASSUME NEW c, c = Realtime!OpenSocket(b, who)
             PROVE  /\ c \in Bridges /\ ~c.pending /\ ~c.input /\ ~c.active /\ ~c.watchdog
                    /\ c.socket = "connecting" /\ c.depth = 0
                    /\ c.queue = b.queue /\ c.overtaken = b.overtaken
  OBVIOUS
<1> DEFINE r == Realtime!Reset(b)
<1>1. Realtime!OpenSocket(b, who) =
        [r EXCEPT !.socket = "connecting", !.setup = who,
                  !.manual = FALSE, !.depth = 0]
  BY DEF Realtime!OpenSocket
<1>2. r \in Bridges /\ ~r.pending /\ ~r.input /\ ~r.active /\ ~r.watchdog /\ Survives(b, r)
  BY ResetTyped
<1> HIDE DEF r
<1>3. c \in Bridges
  <2>1. [r EXCEPT !.socket = "connecting", !.setup = who,
                  !.manual = FALSE, !.depth = 0] \in Bridges
    BY <1>2, NoWaiter DEF Bridges
  <2> QED BY <1>1, <2>1
<1> QED BY <1>1, <1>2, <1>3 DEF Bridges, Survives

\* #scheduleReconnect changes the timer only, and not even that after a disconnect by hand.
LEMMA ScheduleTyped ==
    ASSUME NEW b \in Bridges
    PROVE  LET c == Realtime!ScheduleReconnect(b)
           IN  /\ c \in Bridges /\ c.pending = b.pending /\ c.input = b.input
               /\ c.active = b.active /\ c.depth = b.depth /\ c.watchdog = b.watchdog
               /\ c.tools = b.tools /\ c.oldTools = b.oldTools
               /\ c.capped = b.capped /\ c.hushed = b.hushed /\ c.crossed = b.crossed
               /\ c.orphan = b.orphan
               /\ c.socket = b.socket /\ c.setup = b.setup /\ c.late = b.late
               /\ c.waiting = b.waiting /\ c.manual = b.manual
               /\ c.queue = b.queue /\ c.overtaken = b.overtaken
               /\ b.manual => c.timer = b.timer
<1> SUFFICES ASSUME NEW c, c = Realtime!ScheduleReconnect(b)
             PROVE  /\ c \in Bridges /\ c.pending = b.pending /\ c.input = b.input
                    /\ c.active = b.active /\ c.depth = b.depth /\ c.watchdog = b.watchdog
                    /\ c.tools = b.tools /\ c.oldTools = b.oldTools
                    /\ c.capped = b.capped /\ c.hushed = b.hushed /\ c.crossed = b.crossed
                    /\ c.orphan = b.orphan
                    /\ c.socket = b.socket /\ c.setup = b.setup /\ c.late = b.late
                    /\ c.waiting = b.waiting /\ c.manual = b.manual
                    /\ c.queue = b.queue /\ c.overtaken = b.overtaken
                    /\ b.manual => c.timer = b.timer
  OBVIOUS
<1>1. CASE b.manual
  BY <1>1 DEF Realtime!ScheduleReconnect
<1>2. CASE ~b.manual
  <2>1. c = [b EXCEPT !.timer = TRUE]
    BY <1>2 DEF Realtime!ScheduleReconnect
  <2>2. c \in Bridges
    BY <2>1 DEF Bridges
  <2> QED BY <1>2, <2>1, <2>2 DEF Bridges
<1> QED BY <1>1, <1>2

\* disconnect() leaves the bridge off: no socket, no response, no timer.
LEMMA DisconnectedTyped ==
    ASSUME NEW b \in Bridges
    PROVE  LET c == Realtime!Disconnected(b)
           IN  /\ c \in Bridges /\ ~c.pending /\ ~c.input /\ ~c.active /\ ~c.watchdog
               /\ c.socket = "none" /\ c.setup = "no" /\ c.manual /\ ~c.timer
               /\ c.depth = 0 /\ c.waiting = b.waiting /\ c.queue = b.queue
               /\ (c.overtaken <=> b.overtaken \/ b.waiting # "no")
<1> SUFFICES ASSUME NEW c, c = Realtime!Disconnected(b)
             PROVE  /\ c \in Bridges /\ ~c.pending /\ ~c.input /\ ~c.active /\ ~c.watchdog
                    /\ c.socket = "none" /\ c.setup = "no" /\ c.manual /\ ~c.timer
                    /\ c.depth = 0 /\ c.waiting = b.waiting /\ c.queue = b.queue
                    /\ (c.overtaken <=> b.overtaken \/ b.waiting # "no")
  OBVIOUS
<1> DEFINE l == Realtime!Leave(b)
           overtaken == l.overtaken \/ b.waiting # "no"
<1>1. c = [l EXCEPT !.manual = TRUE, !.timer = FALSE, !.depth = 0, !.overtaken = overtaken]
  BY DEF Realtime!Disconnected
<1>2. /\ l \in Bridges /\ ~l.pending /\ ~l.input /\ ~l.active /\ ~l.watchdog
      /\ l.socket = "none" /\ l.setup = "no" /\ Survives(b, l)
  BY LeaveTyped
<1>a. overtaken \in BOOLEAN
  OBVIOUS
<1>b. overtaken <=> b.overtaken \/ b.waiting # "no"
  BY <1>2 DEF Survives
<1> HIDE DEF l, overtaken
<1>3. c \in Bridges
  <2>1. [l EXCEPT !.manual = TRUE, !.timer = FALSE, !.depth = 0, !.overtaken = overtaken] \in Bridges
    BY <1>2, <1>a DEF Bridges
  <2> QED BY <1>1, <2>1
<1> QED BY <1>1, <1>2, <1>3, <1>b DEF Bridges, Survives

\* connect() on a bridge that is not open leaves it without a response.
LEMMA ConnectForTyped ==
    ASSUME NEW b \in Bridges, NEW who \in Waiters, b.socket # "open"
    PROVE  LET c == Realtime!ConnectFor(b, who)
           IN  /\ c \in Bridges /\ ~c.pending /\ ~c.input /\ ~c.active /\ ~c.watchdog /\ c.socket # "open" /\ c.depth = 0
               /\ c.queue = b.queue /\ (b.overtaken => c.overtaken)
<1> SUFFICES ASSUME NEW c, c = Realtime!ConnectFor(b, who)
             PROVE  /\ c \in Bridges /\ ~c.pending /\ ~c.input /\ ~c.active /\ ~c.watchdog /\ c.socket # "open" /\ c.depth = 0
                    /\ c.queue = b.queue /\ (b.overtaken => c.overtaken)
  OBVIOUS
<1>1. CASE b.socket = "none"
  <2> DEFINE m == [b EXCEPT !.timer = FALSE]
  <2>1. Realtime!ConnectFor(b, who) = Realtime!OpenSocket(m, who)
    BY <1>1 DEF Realtime!ConnectFor, Realtime!Open
  <2>2. m \in Bridges /\ m.queue = b.queue /\ m.overtaken = b.overtaken
    BY DEF Bridges
  <2> HIDE DEF m
  <2> QED BY <2>1, <2>2, OpenSocketTyped
<1>2. CASE b.socket # "none"
  <2> DEFINE m == Realtime!Disconnected(b)
  <2>1. Realtime!ConnectFor(b, who) = [m EXCEPT !.waiting = who]
    BY <1>2 DEF Realtime!ConnectFor, Realtime!Open
  <2>2. /\ m \in Bridges /\ ~m.pending /\ ~m.input /\ ~m.active /\ ~m.watchdog /\ m.socket = "none" /\ m.depth = 0
        /\ m.queue = b.queue /\ (m.overtaken <=> b.overtaken \/ b.waiting # "no")
    BY DisconnectedTyped
  <2> HIDE DEF m
  <2> QED BY <2>1, <2>2 DEF Bridges
<1> QED BY <1>1, <1>2

-----------------------------------------------------------------------------
(* The actions of the realtime bridge.                                     *)

\* The table keeps its rows, or what was queued has been put before the provider.
BriefsMove(b) ==
    \/ UNCHANGED <<rows, queued, told>> /\ rt'.queue = b.queue
    \/ b.socket = "open" /\ MarkDelivered(b.queue) /\ rt'.queue = NoBriefs

\* What a step that starts from the pair p has done.
Commanded(p) ==
    /\ rt' \in Bridges /\ session' \in Sessions /\ RealtimeSound(rt', session')
    /\ BriefsMove(p.b)
Moved(p) ==
    /\ Commanded(p)
    /\ p.b.overtaken => rt'.overtaken
    /\ RealtimeRetired(p.b) => RealtimeRetired(rt') /\ rt'.overtaken = p.b.overtaken

\* A settled pair that becomes the bridge's state has moved soundly.
LEMMA BecomesIsSound ==
    ASSUME NEW p, Settled(p), Realtime!Becomes(p)
    PROVE  Moved(p)
BY DEF Settled, Pairs, Realtime!Becomes, Moved, Commanded, BriefsMove, Realtime!briefVars

\* Flushing the briefs of a settled pair moves it soundly, whatever was pending.
LEMMA FlushIsSound ==
    ASSUME NEW p, Settled(p), Realtime!FlushBriefs(p)
    PROVE  Moved(p)
<1>1. p \in Pairs /\ p.b \in Bridges /\ p.s \in Sessions
  BY DEF Settled, Pairs
<1>2. CASE Realtime!Open(p.b) /\ Realtime!Awake(p.b) /\ Realtime!Some(p.b.queue) # {}
  <2> DEFINE q == Realtime!RequestResponse(p)
  <2>1. rt' = [q.b EXCEPT !.queue = Realtime!NoBriefs] /\ session' = q.s
        /\ Realtime!MarkDelivered(p.b.queue)
    BY <1>2 DEF Realtime!FlushBriefs
  <2>2. p.b.socket = "open"
    BY <1>2 DEF Realtime!Open
  <2>3. Between(p)
    BY <2>2 DEF Between, Settled, RealtimeSound, SetupIsQuiet
  <2>4. Settled(q) /\ Kept(p, q)
    BY <2>3, RequestIsSound
  <2> HIDE DEF q
  <2>5. q.b \in Bridges /\ q.s \in Sessions /\ RealtimeSound(q.b, q.s)
    BY <2>4 DEF Settled, Pairs
  <2>6. Realtime!NoBriefs = NoBriefs /\ NoBriefs \in [Tasks -> Nat]
    BY DEF Realtime!NoBriefs, NoBriefs
  <2>7. [q.b EXCEPT !.queue = NoBriefs] \in Bridges
    BY <2>5, <2>6 DEF Bridges
  <2>8. \E c : rt' = c /\ c = [q.b EXCEPT !.queue = NoBriefs]
    BY <2>1, <2>6
  <2>9. /\ rt'.queue = NoBriefs /\ AskFields(q.b, rt') /\ rt'.overtaken = q.b.overtaken
        /\ rt'.socket = q.b.socket /\ rt'.setup = q.b.setup
    BY <2>5, <2>8 DEF Bridges, AskFields
  <2>10. Settled([b |-> rt', s |-> session'])
    <3> DEFINE m == [b |-> rt', s |-> session']
    <3>1. m \in Pairs /\ m.b = rt' /\ m.s = q.s
      BY <2>1, <2>5, <2>6, <2>7 DEF Pairs
    <3> HIDE DEF m
    <3>2. Slotted(m)
      BY <2>5, <2>9, <3>1, SlotFields DEF Slotted, RealtimeSound, AskFields
    <3>3. Settled(m)
      BY <2>4, <2>9, <3>1, <3>2, SettledFields
    <3> QED BY <3>3 DEF m
  <2>11. rt' \in Bridges /\ RealtimeSound(rt', session') /\ session' \in Sessions
    BY <2>1, <2>5, <2>6, <2>7, <2>10 DEF Settled
  <2>12. MarkDelivered(p.b.queue)
    BY <2>1 DEF Realtime!MarkDelivered, MarkDelivered, Realtime!Some, Some
  <2> QED BY <2>2, <2>4, <2>9, <2>11, <2>12 DEF Moved, Commanded, BriefsMove, Kept,
             RealtimeRetired
<1>3. CASE ~(Realtime!Open(p.b) /\ Realtime!Awake(p.b) /\ Realtime!Some(p.b.queue) # {})
  <2>1. Realtime!Becomes(p)
    BY <1>3 DEF Realtime!FlushBriefs, Realtime!Becomes
  <2> QED BY <2>1, BecomesIsSound
<1> QED BY <1>2, <1>3

\* A step from a pair that kept the socket, queue and slot of another is a step from the other.
LEMMA KeptMoves ==
    ASSUME NEW p, NEW q, Kept(p, q), Moved(q)
    PROVE  Moved(p)
<1>1. BriefsMove(p.b)
  BY DEF Kept, Moved, Commanded, BriefsMove
<1>2. RealtimeRetired(p.b) => RealtimeRetired(q.b)
  BY DEF Kept, RealtimeRetired
<1> QED BY <1>1, <1>2 DEF Kept, Moved, Commanded

\* The state between two steps
Sound == VoiceTyped /\ RealtimeSound(rt, session)

\* The state between two steps, taken as a pair, is settled.
LEMMA NowIsSettled ==
    ASSUME Sound
    PROVE  /\ Realtime!Now \in Pairs /\ Realtime!Now.b = rt /\ Realtime!Now.s = session
           /\ Settled(Realtime!Now) /\ Slotted(Realtime!Now)
           /\ rt.socket = "open" => Between(Realtime!Now)
<1>1. Realtime!Now \in Pairs /\ Realtime!Now.b = rt /\ Realtime!Now.s = session
  BY DEF Realtime!Now, Sound, VoiceTyped, Pairs
<1>2. Settled(Realtime!Now) /\ Slotted(Realtime!Now)
  BY <1>1 DEF Settled, Slotted, Sound, RealtimeSound
<1>3. rt.socket = "open" => Between(Realtime!Now)
  BY <1>1, <1>2 DEF Between, Settled, RealtimeSound, SetupIsQuiet
<1> QED BY <1>1, <1>2, <1>3

\* setEngaged: the microphone wakes up and the conversation goes on, or it sleeps.
LEMMA SetEngagedMoves ==
    ASSUME Sound, NEW engaged \in BOOLEAN, Realtime!SetEngaged(engaged)
    PROVE  Moved(Realtime!Now)
<1> DEFINE p == Realtime!Now
<1>1. p \in Pairs /\ p.b \in Bridges /\ Settled(p) /\ Slotted(p) /\ questions \in [Tasks -> Nat]
  BY NowIsSettled DEF Pairs, Sound, VoiceTyped
<1>2. CASE engaged
  <2> DEFINE m == [p EXCEPT !.b.engaged = TRUE]
             q == Realtime!AnnounceOpenQuestions(m)
  <2>1. Realtime!FlushBriefs(q)
    BY <1>2 DEF Realtime!SetEngaged
  <2> HIDE DEF p
  <2>2. m \in Pairs /\ m.s = p.s /\ AskFields(p.b, m.b) /\ Kept(p, m)
    BY <1>1 DEF Pairs, Bridges, AskFields, Kept
  <2> HIDE DEF m
  <2>3. Slotted(m)
    BY <1>1, <2>2, SlotFields DEF Slotted, AskFields, Kept
  <2>4. Settled(m)
    BY <1>1, <2>2, <2>3, SettledFields DEF Kept
  <2>5. Settled(q) /\ Kept(m, q)
    BY <1>1, <2>4, AnnounceIsSound
  <2> HIDE DEF q
  <2>6. Moved(q)
    BY <2>1, <2>5, FlushIsSound
  <2>7. Moved(p)
    BY <2>2, <2>5, <2>6, KeptMoves
  <2> QED BY <2>7 DEF p
<1>3. CASE ~engaged
  <2> DEFINE q == Realtime!Sleep(p)
  <2>1. Realtime!Becomes(q)
    BY <1>3 DEF Realtime!SetEngaged
  <2>2. Settled(q) /\ Kept(p, q)
    BY <1>1, SleepIsSound
  <2> HIDE DEF q
  <2> QED BY <2>1, <2>2, BecomesIsSound, KeptMoves
<1> QED BY <1>2, <1>3

\* interrupt cancels what is being said.
LEMMA InterruptMoves ==
    ASSUME Sound, Realtime!Interrupt
    PROVE  Moved(Realtime!Now)
<1> DEFINE p == Realtime!Now
           m == [p EXCEPT !.b.depth = 0]
           q == Realtime!Cancel(m)
<1>1. p \in Pairs /\ p.b \in Bridges /\ Settled(p) /\ Slotted(p)
  BY NowIsSettled DEF Pairs
<1>2. Realtime!Becomes(q)
  BY DEF Realtime!Interrupt
<1> HIDE DEF p
<1>3. m \in Pairs /\ m.s = p.s /\ Kept(p, m) /\ m.b.active = p.b.active /\ m.b.input = p.b.input
      /\ m.b.pending = p.b.pending /\ m.b.tools = p.b.tools /\ m.b.oldTools = p.b.oldTools
      /\ m.b.capped = p.b.capped /\ m.b.hushed = p.b.hushed /\ m.b.watchdog = p.b.watchdog
  BY <1>1 DEF Pairs, Bridges, Kept
<1> HIDE DEF m
<1>4. Slotted(m)
  BY <1>1, <1>3, SlotFields DEF Slotted, Kept
<1>5. Settled(m)
  BY <1>1, <1>3, <1>4 DEF Settled, Slotted, RealtimeSound, SetupIsQuiet, AsksAgain, Waits, Kept
<1>6. Slotted(q) /\ Kept(m, q) /\ AskFields(m.b, q.b)
  BY <1>4, CancelIsSound
<1> HIDE DEF q
<1>7. Settled(q)
  BY <1>5, <1>6, SettledFields DEF Kept
<1>8. Moved(q)
  BY <1>2, <1>7, BecomesIsSound
<1>9. Moved(p)
  BY <1>3, <1>6, <1>8, KeptMoves
<1> QED BY <1>9 DEF p

\* Typed text asks for a response.
LEMMA SendTextMoves ==
    ASSUME Sound, Realtime!SendText
    PROVE  Moved(Realtime!Now)
<1> DEFINE p == Realtime!Now
           m == [p EXCEPT !.b.depth = 0]
           q == Realtime!RequestResponse(m)
<1>1. p \in Pairs /\ p.b \in Bridges /\ Between(p)
  BY NowIsSettled DEF Pairs, Realtime!SendText, Realtime!Open
<1>2. Realtime!Becomes(q)
  BY DEF Realtime!SendText
<1> HIDE DEF p
<1>3. m \in Pairs /\ m.s = p.s /\ Kept(p, m) /\ m.b.active = p.b.active /\ m.b.input = p.b.input
      /\ m.b.depth = 0
  BY <1>1 DEF Pairs, Bridges, Kept
<1> HIDE DEF m
<1>4. Between(m)
  BY <1>1, <1>3, SlotFields DEF Between, Kept
<1>5. Settled(q) /\ Kept(m, q)
  BY <1>4, RequestIsSound
<1> HIDE DEF q
<1>6. Moved(q)
  BY <1>2, <1>5, BecomesIsSound
<1>7. Moved(p)
  BY <1>3, <1>5, <1>6, KeptMoves
<1> QED BY <1>7 DEF p

\* setResponseMode waits for the end of a response.
LEMMA SetResponseModeMoves ==
    ASSUME Sound, NEW mode \in {"voice", "text"}, Realtime!SetResponseMode(mode)
    PROVE  Moved(Realtime!Now)
<1> DEFINE b == IF rt.active THEN [rt EXCEPT !.nextMode = mode]
                ELSE [rt EXCEPT !.mode = mode, !.nextMode = "none"]
           p == Realtime!Now
           q == [b |-> b, s |-> session]
<1>1. p \in Pairs /\ p.b = rt /\ p.s = session /\ rt \in Bridges /\ Settled(p) /\ Slotted(p)
  BY NowIsSettled DEF Pairs
<1>2. rt' = b /\ session' = session /\ UNCHANGED Realtime!briefVars
  BY DEF Realtime!SetResponseMode
<1> HIDE DEF p
<1>3. b \in Bridges /\ AskFields(rt, b) /\ b.socket = rt.socket /\ b.setup = rt.setup
      /\ b.queue = rt.queue /\ b.overtaken = rt.overtaken /\ b.waiting = rt.waiting
      /\ b.timer = rt.timer /\ b.manual = rt.manual /\ b.late = rt.late
      /\ b.orphan = rt.orphan
  BY <1>1 DEF Bridges, AskFields
<1> HIDE DEF b
<1>4. q \in Pairs /\ q.b = b /\ q.s = session
  BY <1>1, <1>3 DEF Pairs, Slotted
<1> HIDE DEF q
<1>5. Slotted(q) /\ Kept(p, q)
  BY <1>1, <1>3, <1>4, SlotFields DEF Slotted, AskFields, Kept
<1>6. Settled(q)
  BY <1>1, <1>3, <1>4, <1>5, SettledFields
<1>7. Realtime!Becomes(q)
  BY <1>2, <1>4 DEF Realtime!Becomes
<1>8. Moved(p)
  BY <1>5, <1>6, <1>7, BecomesIsSound, KeptMoves
<1> QED BY <1>8 DEF p

-----------------------------------------------------------------------------
(* The provider's session.                                                 *)

\* The elements of a longer sequence: those it had, and the new one.
LEMMA AppendElements ==
    ASSUME NEW out \in Seq(Messages), NEW msg \in Messages
    PROVE  \A i \in DOMAIN Append(out, msg) :
              \/ i \in DOMAIN out /\ Append(out, msg)[i] = out[i]
              \/ i = Len(out) + 1 /\ Append(out, msg)[i] = msg
OBVIOUS

\* The elements of a tail are those of the sequence but its first.
LEMMA TailElements ==
    ASSUME NEW out \in Seq(Messages), out # <<>>
    PROVE  /\ Tail(out) \in Seq(Messages) /\ Head(out) = out[1] /\ 1 \in DOMAIN out
           /\ \A i \in DOMAIN Tail(out) :
                 /\ i + 1 \in DOMAIN out /\ i + 1 # 1
                 /\ Tail(out)[i] = out[i + 1]
<1>1. Len(out) > 0 /\ Len(out) \in Nat
  OBVIOUS
<1> QED BY <1>1

\* A message that neither ends a response nor is an error leaves the slot alone.
LEMMA OtherMessageIsSound ==
    ASSUME NEW s \in Sessions, NEW b,
           NEW msg \in {"session.updated", "speech started", "speech stopped"},
           SlotHeld(b, s), SetupFirst(b, s)
    PROVE  SlotHeld(b, Realtime!Says(s, msg)) /\ SetupFirst(b, Realtime!Says(s, msg))
<1> SUFFICES ASSUME NEW r, r = Realtime!Says(s, msg)
             PROVE  SlotHeld(b, r) /\ SetupFirst(b, r)
  OBVIOUS
<1>1. s.out \in Seq(Messages) /\ msg \in Messages
  BY DEF Sessions, Messages
<1>2. r.busy = s.busy /\ r.errors = s.errors /\ r.out = Append(s.out, msg)
  BY <1>1, SaysIsTyped
<1>3. \A i \in DOMAIN r.out :
          \/ i \in DOMAIN s.out /\ r.out[i] = s.out[i]
          \/ r.out[i] = msg
  BY <1>1, <1>2, AppendElements
<1>4. msg \notin Realtime!ResponseEnds \cup {"error", "no active response"}
  BY DEF Realtime!ResponseEnds
<1>5. SlotHeld(b, r)
  BY <1>2, <1>3, <1>4 DEF SlotHeld
<1>6. SetupFirst(b, r)
  BY <1>1, <1>2, AppendKeepsFirst DEF SetupFirst
<1> QED BY <1>5, <1>6

\* What the provider does leaves the bridge as it is.
LEMMA SessionMoves ==
    ASSUME Sound, NEW s \in Sessions, session' = s, UNCHANGED rt, UNCHANGED briefVars,
           SlotHeld(rt, s), SetupFirst(rt, s)
    PROVE  Moved(Realtime!Now)
<1>1. Realtime!Now.b = rt /\ rt \in Bridges
  BY NowIsSettled DEF Pairs, Sound, VoiceTyped
<1>2. RealtimeSound(rt', session')
  BY DEF Sound, RealtimeSound
<1> QED BY <1>1, <1>2 DEF Moved, Commanded, BriefsMove, briefVars

\* The provider's own messages keep the state sound: each names the slot's condition.
LEMMA ProviderSaysMoves ==
    ASSUME Sound, Realtime!ProviderSays
    PROVE  Moved(Realtime!Now)
<1>1. session \in Sessions /\ session.out \in Seq(Messages)
  BY DEF Sound, VoiceTyped, Sessions
<1>2. PICK end \in Realtime!ResponseEnds :
          session' = [Realtime!Says(session, end) EXCEPT !.busy = FALSE]
  BY DEF Realtime!ProviderSays, Realtime!ResponseEnds
<1> DEFINE r == Realtime!Says(session, end)
           s == [r EXCEPT !.busy = FALSE]
<1>3. end \in Messages
  BY DEF Realtime!ResponseEnds, Messages
<1>4. /\ r \in Sessions /\ r.errors = session.errors
      /\ r.out = Append(session.out, end)
  BY <1>1, <1>3, SaysIsTyped
<1> HIDE DEF r
<1>5. s \in Sessions /\ s.errors = session.errors /\ s.out = Append(session.out, end) /\ ~s.busy
  BY <1>4 DEF Sessions
<1>6. session' = s
  BY <1>2 DEF r
<1> HIDE DEF s
<1>7. SlotHeld(rt, session) /\ SetupFirst(rt, session) /\ session.busy
  BY DEF Sound, RealtimeSound, Realtime!ProviderSays
<1>8. \A i \in DOMAIN s.out :
          \/ i \in DOMAIN session.out /\ s.out[i] = session.out[i]
          \/ i = Len(session.out) + 1 /\ s.out[i] = end
  BY <1>1, <1>3, <1>5, AppendElements
<1>9. end \notin {"error", "no active response"}
  BY DEF Realtime!ResponseEnds
<1>10. SlotHeld(rt, s)
  BY <1>5, <1>7, <1>8, <1>9 DEF SlotHeld
<1>11. SetupFirst(rt, s)
  BY <1>1, <1>3, <1>5, <1>7, AppendKeepsFirst DEF SetupFirst
<1> QED BY <1>5, <1>6, <1>10, <1>11, SessionMoves DEF Realtime!ProviderSays, Realtime!briefVars,
           briefVars

\* So does an error it sends of its own accord.
LEMMA ProviderFailsMoves ==
    ASSUME Sound, Realtime!ProviderFails
    PROVE  Moved(Realtime!Now)
<1>1. session \in Sessions /\ session.out \in Seq(Messages)
  BY DEF Sound, VoiceTyped, Sessions
<1> DEFINE s == Realtime!Complains(session, "error")
<1>2. s \in Sessions /\ s.errors /\ s.out = Append(session.out, "error")
  BY <1>1, ComplainsIsTyped DEF Messages
<1>3. session' = s /\ UNCHANGED rt /\ UNCHANGED briefVars
  BY DEF Realtime!ProviderFails, Realtime!briefVars, briefVars
<1> HIDE DEF s
<1>4. SetupFirst(rt, session)
  BY DEF Sound, RealtimeSound
<1>5. SetupFirst(rt, s)
  BY <1>1, <1>2, <1>4, AppendKeepsFirst DEF SetupFirst, Messages
<1>6. SlotHeld(rt, s)
  BY <1>2 DEF SlotHeld
<1> QED BY <1>2, <1>3, <1>5, <1>6, SessionMoves

\* So do the two messages about the user's speech.
LEMMA SpeechMoves ==
    ASSUME Sound, Realtime!SpeechStarts \/ Realtime!SpeechStops
    PROVE  Moved(Realtime!Now)
<1>1. session \in Sessions
  BY DEF Sound, VoiceTyped
<1>2. \E msg \in {"speech started", "speech stopped"}, v \in BOOLEAN, c \in BOOLEAN :
          session' = [Realtime!Says(session, msg) EXCEPT !.speech = v, !.cancelled = c]
  <2>1. CASE Realtime!SpeechStarts
    BY <1>1, <2>1 DEF Realtime!SpeechStarts, Sessions
  <2>2. CASE Realtime!SpeechStops
    <3> DEFINE r == Realtime!Says(session, "speech stopped")
    <3>1. r \in Sessions
      BY <1>1, SaysIsTyped DEF Messages
    <3>2. session' = [r EXCEPT !.speech = FALSE]
      BY <2>2 DEF Realtime!SpeechStops
    <3> HIDE DEF r
    <3>3. [r EXCEPT !.speech = FALSE] = [r EXCEPT !.speech = FALSE, !.cancelled = r.cancelled]
      BY <3>1 DEF Sessions
    <3>4. r.cancelled \in BOOLEAN
      BY <3>1 DEF Sessions
    <3> QED BY <3>2, <3>3, <3>4 DEF r
  <2> QED BY <2>1, <2>2
<1>3. PICK msg \in {"speech started", "speech stopped"}, v \in BOOLEAN, c \in BOOLEAN :
          session' = [Realtime!Says(session, msg) EXCEPT !.speech = v, !.cancelled = c]
  BY <1>2
<1> DEFINE r == Realtime!Says(session, msg)
           s == [r EXCEPT !.speech = v, !.cancelled = c]
<1>4. r \in Sessions
  BY <1>1, SaysIsTyped DEF Messages
<1>5. SlotHeld(rt, r) /\ SetupFirst(rt, r)
  BY <1>1, OtherMessageIsSound DEF Sound, RealtimeSound
<1>6. session' = s
  BY <1>3
<1> HIDE DEF r
<1>7. s \in Sessions /\ s.errors = r.errors /\ s.busy = r.busy /\ s.out = r.out
  BY <1>4 DEF Sessions
<1> HIDE DEF s
<1>8. SlotHeld(rt, s) /\ SetupFirst(rt, s)
  BY <1>5, <1>7 DEF SlotHeld, SetupFirst
<1>9. UNCHANGED rt /\ UNCHANGED briefVars
  BY DEF Realtime!SpeechStarts, Realtime!SpeechStops, Realtime!briefVars, briefVars
<1> QED BY <1>6, <1>7, <1>8, <1>9, SessionMoves

-----------------------------------------------------------------------------
(* Receiving, and what a tool gives back.                                  *)

\* A message taken off an open socket by handlers that keep the slot is taken soundly.
LEMMA TakenFromSession ==
    ASSUME Sound, rt.socket = "open", session.out # <<>>,
           NEW b \in Bridges, b.socket = "open", b.setup = "no", AsksAgain(b),
           b.active = rt.active, b.crossed = rt.crossed,
           NEW p \in Pairs, p.b = b, p.s = [session EXCEPT !.out = Tail(@)],
           Head(session.out) # "session.updated"
    PROVE  Taken(p, Head(session.out))
<1> DEFINE msg == Head(session.out)
           s == p.s
<1>1. session \in Sessions /\ session.out \in Seq(Messages)
  BY DEF Sound, VoiceTyped, Sessions
<1>2. s.out = Tail(session.out) /\ s.errors = session.errors /\ s.busy = session.busy
  BY <1>1 DEF Sessions
<1> HIDE DEF s
<1>3. /\ msg = session.out[1] /\ 1 \in DOMAIN session.out /\ msg \in Messages
      /\ \A i \in DOMAIN s.out :
            /\ i + 1 \in DOMAIN session.out /\ i + 1 # 1
            /\ s.out[i] = session.out[i + 1]
            /\ i \in Nat
  BY <1>1, <1>2, TailElements
<1> HIDE DEF msg
<1>4. SlotHeld(rt, session)
  BY DEF Sound, RealtimeSound
<1>5. ASSUME ~session.errors, ~rt.crossed
      PROVE  /\ msg \notin {"error", "no active response"}
             /\ \A i \in DOMAIN s.out : s.out[i] \notin {"error", "no active response"}
  BY <1>3, <1>4, <1>5 DEF SlotHeld
<1>6. ASSUME ~session.errors, ~rt.crossed, msg \in Realtime!ResponseEnds
      PROVE  ~s.busy /\ \A i \in DOMAIN s.out : s.out[i] \notin Realtime!ResponseEnds
  BY <1>2, <1>3, <1>4, <1>6 DEF SlotHeld
<1>7. SlotHeld(b, s) \/ msg \in Realtime!ResponseEnds
  <2> SUFFICES ASSUME ~s.errors, ~b.crossed, msg \notin Realtime!ResponseEnds
               PROVE  SlotHeld(b, s)
    BY DEF SlotHeld
  <2>1. s.busy => b.active
    BY <1>2, <1>4 DEF SlotHeld
  <2>2. \A i \in DOMAIN s.out :
          s.out[i] \in Realtime!ResponseEnds =>
             /\ b.active /\ ~s.busy
             /\ \A j \in DOMAIN s.out : s.out[j] \in Realtime!ResponseEnds => j = i
    <3> TAKE i \in DOMAIN s.out
    <3> HAVE s.out[i] \in Realtime!ResponseEnds
    <3>1. /\ rt.active /\ ~session.busy
          /\ \A j \in DOMAIN session.out :
                session.out[j] \in Realtime!ResponseEnds => j = i + 1
      BY <1>2, <1>3, <1>4 DEF SlotHeld
    <3>2. \A j \in DOMAIN s.out : s.out[j] \in Realtime!ResponseEnds => j + 1 = i + 1
      BY <1>3, <3>1
    <3>3. i \in Nat /\ \A j \in DOMAIN s.out : j \in Nat
      BY <1>3
    <3> QED BY <1>2, <3>1, <3>2, <3>3
  <2> QED BY <1>2, <1>5, <2>1, <2>2 DEF SlotHeld
<1> QED BY <1>2, <1>3, <1>5, <1>6, <1>7 DEF Taken, SetupFirst, Calm, msg, s

\* #handleMessage, and the end of the set-up with the first message.
LEMMA ReceiveMoves ==
    ASSUME Sound, Realtime!Receive
    PROVE  Moved(Realtime!Now)
<1> DEFINE now == Realtime!Now
           msg == Head(session.out)
           p == [now EXCEPT !.s.out = Tail(@)]
           done == [p EXCEPT !.b.setup = "no"]
           q == Realtime!Handled(done, msg)
           failed == [q EXCEPT !.b = Realtime!ScheduleReconnect(@)]
           told1 == Realtime!AnnounceOpenQuestions(done)
<1>1. /\ now \in Pairs /\ now.b = rt /\ now.s = session /\ rt \in Bridges /\ session \in Sessions
      /\ session.out \in Seq(Messages) /\ session.out # <<>> /\ rt.socket = "open"
      /\ questions \in [Tasks -> Nat]
      /\ SlotHeld(rt, session) /\ SetupFirst(rt, session) /\ SetupIsQuiet(rt) /\ AsksAgain(rt)
  BY NowIsSettled DEF Sound, VoiceTyped, Sessions, Realtime!Receive, Realtime!Open, RealtimeSound
<1>2. \/ msg = "session.updated" /\ rt.setup # "no" /\ Realtime!FlushBriefs(told1)
      \/ msg = "session.updated" /\ rt.setup = "no" /\ Realtime!Becomes(p)
      \/ /\ msg # "session.updated" /\ rt.setup # "no"
         /\ Realtime!Becomes(IF rt.setup = "retry" THEN failed ELSE q)
      \/ /\ msg # "session.updated" /\ (rt.setup = "no" \/ msg # "error")
         /\ Realtime!Becomes(Realtime!Handled(p, msg))
  BY DEF Realtime!Receive
<1>3. Tail(session.out) \in Seq(Messages) /\ msg = session.out[1]
  BY <1>1, TailElements
<1> HIDE DEF now
<1>4. /\ p \in Pairs /\ p.b = rt /\ p.s = [session EXCEPT !.out = Tail(@)]
  BY <1>1, <1>3 DEF Pairs, Sessions
<1>5. p.s \in Sessions /\ p.s.out = Tail(session.out) /\ p.s.errors = session.errors
      /\ p.s.busy = session.busy
  <2> DEFINE s == [session EXCEPT !.out = Tail(@)]
  <2>1. s \in Sessions /\ s.out = Tail(session.out) /\ s.errors = session.errors
        /\ s.busy = session.busy
    BY <1>1, <1>3 DEF Sessions
  <2> QED BY <1>4, <2>1
<1> HIDE DEF p
<1>6. /\ done \in Pairs /\ done.s = p.s /\ done.b = [rt EXCEPT !.setup = "no"]
  BY <1>1, <1>4, NoWaiter DEF Pairs, Bridges
<1>7. /\ done.b \in Bridges /\ done.b.setup = "no" /\ done.b.socket = "open"
      /\ done.b.queue = rt.queue /\ done.b.overtaken = rt.overtaken /\ AskFields(rt, done.b)
  <2> DEFINE b == [rt EXCEPT !.setup = "no"]
  <2>1. /\ b \in Bridges /\ b.setup = "no" /\ b.socket = "open"
        /\ b.queue = rt.queue /\ b.overtaken = rt.overtaken /\ AskFields(rt, b)
    BY <1>1, NoWaiter DEF Bridges, AskFields
  <2> QED BY <1>6, <2>1
<1> HIDE DEF done
<1>8. ASSUME NEW r, Moved(r), r.b.queue = rt.queue, r.b.overtaken = rt.overtaken
      PROVE  Moved(now)
  BY <1>1, <1>8 DEF Moved, Commanded, BriefsMove, RealtimeRetired
<1>12. Settled(done) \/ msg # "session.updated"
  <2> SUFFICES ASSUME msg = "session.updated"
               PROVE  Settled(done)
    OBVIOUS
  <2>1. SlotHeld(done.b, done.s)
    <3>1. \A i \in DOMAIN done.s.out : /\ i + 1 \in DOMAIN session.out
                                       /\ done.s.out[i] = session.out[i + 1] /\ i \in Nat
      <4>1. done.s.out = Tail(session.out)
        BY <1>5, <1>6
      <4>2. \A i \in DOMAIN Tail(session.out) : i \in Nat
        BY <1>3
      <4> QED BY <1>1, <4>1, <4>2, TailElements
    <3>2. done.b.active = rt.active /\ done.s.errors = session.errors
          /\ done.b.crossed = rt.crossed /\ done.s.busy = session.busy
      BY <1>5, <1>6, <1>7 DEF AskFields
    <3> SUFFICES ASSUME ~session.errors, ~rt.crossed
                 PROVE  SlotHeld(done.b, done.s)
      BY <3>2 DEF SlotHeld
    <3>3. \A i \in DOMAIN done.s.out : done.s.out[i] \notin {"error", "no active response"}
      BY <1>1, <3>1 DEF SlotHeld
    <3>4. \A i \in DOMAIN done.s.out :
            done.s.out[i] \in Realtime!ResponseEnds =>
               /\ rt.active /\ ~session.busy
               /\ \A j \in DOMAIN done.s.out :
                     done.s.out[j] \in Realtime!ResponseEnds => j = i
      <4> TAKE i \in DOMAIN done.s.out
      <4> HAVE done.s.out[i] \in Realtime!ResponseEnds
      <4>1. /\ rt.active /\ ~session.busy
            /\ \A j \in DOMAIN session.out :
                  session.out[j] \in Realtime!ResponseEnds => j = i + 1
        BY <1>1, <3>1 DEF SlotHeld
      <4>2. \A j \in DOMAIN done.s.out :
               done.s.out[j] \in Realtime!ResponseEnds => j + 1 = i + 1
        BY <3>1, <4>1
      <4>3. i \in Nat /\ \A j \in DOMAIN done.s.out : j \in Nat
        BY <3>1
      <4> QED BY <4>1, <4>2, <4>3
    <3>5. session.busy => rt.active
      BY <1>1 DEF SlotHeld
    <3> QED BY <3>2, <3>3, <3>4, <3>5 DEF SlotHeld
  <2>2. Settled(done)
    BY <1>1, <1>6, <1>7, <2>1 DEF Settled, RealtimeSound, SetupFirst, SetupIsQuiet, AsksAgain, Waits,
       AskFields
  <2> QED BY <2>2
<1>9. CASE msg = "session.updated" /\ Realtime!FlushBriefs(told1)
  <2>2. Settled(done)
    BY <1>9, <1>12
  <2>3. Settled(told1) /\ Kept(done, told1)
    BY <1>1, <2>2, AnnounceIsSound
  <2> HIDE DEF told1
  <2>4. Moved(told1)
    BY <1>9, <2>3, FlushIsSound
  <2>5. Moved(done)
    BY <2>3, <2>4, KeptMoves
  <2> QED BY <1>7, <1>8, <2>5 DEF now
<1>13. CASE msg = "session.updated" /\ rt.setup = "no" /\ Realtime!Becomes(p)
  <2>1. p = done
    <3>1. done.b = rt
      <4>1. rt.setup = "no"
        BY <1>13
      <4>2. [rt EXCEPT !.setup = "no"] = rt
        BY <1>1, <4>1 DEF Bridges
      <4> QED BY <1>6, <4>2
    <3>2. p.b = done.b /\ p.s = done.s
      BY <1>4, <1>6, <3>1
    <3>3. ASSUME NEW x \in Pairs
          PROVE  x = [b |-> x.b, s |-> x.s]
      BY DEF Pairs
    <3> QED BY <1>4, <1>6, <3>2, <3>3
  <2>2. Moved(done)
    BY <1>12, <1>13, <2>1, BecomesIsSound
  <2> QED BY <1>7, <1>8, <2>2 DEF now
<1>10. CASE /\ msg # "session.updated" /\ rt.setup # "no"
            /\ Realtime!Becomes(IF rt.setup = "retry" THEN failed ELSE q)
  <2>1. AsksAgain(done.b)
    BY <1>1, <1>7 DEF AsksAgain, Waits, AskFields
  <2>2. Taken(done, msg)
    BY <1>1, <1>4, <1>6, <1>7, <1>10, <2>1, TakenFromSession DEF AskFields
  <2>3. Settled(q) /\ Kept(done, q)
    BY <2>2, HandledIsSound
  <2> HIDE DEF q
  <2>4. q.b \in Bridges /\ Slotted(q) /\ q.b.socket = "open"
    BY <1>7, <2>3 DEF Settled, Slotted, RealtimeSound, Pairs, Kept
  <2> DEFINE b == Realtime!ScheduleReconnect(q.b)
  <2>5. /\ b \in Bridges /\ AskFields(q.b, b) /\ b.socket = q.b.socket /\ b.setup = q.b.setup
        /\ b.queue = q.b.queue /\ b.overtaken = q.b.overtaken
    BY <2>4, ScheduleTyped DEF AskFields
  <2> HIDE DEF b
  <2>6. failed \in Pairs /\ failed.b = b /\ failed.s = q.s
    BY <2>3, <2>5 DEF Settled, Pairs, b
  <2> HIDE DEF failed
  <2>7. Slotted(failed)
    BY <2>4, <2>5, <2>6, SlotFields DEF Slotted, AskFields
  <2>8. Settled(failed)
    BY <2>3, <2>5, <2>6, <2>7, SettledFields
  <2>9. ASSUME NEW r, Realtime!Becomes(r), Settled(r), r.b.queue = q.b.queue,
               r.b.overtaken = q.b.overtaken, r.b.socket = "open"
        PROVE  Moved(now)
    BY <1>7, <1>8, <2>3, <2>9, BecomesIsSound DEF Kept
  <2> QED BY <1>10, <2>3, <2>4, <2>5, <2>6, <2>8, <2>9 DEF now
<1>11. CASE /\ msg # "session.updated" /\ (rt.setup = "no" \/ msg # "error")
            /\ Realtime!Becomes(Realtime!Handled(p, msg))
  <2>1. rt.setup = "no"
    BY <1>1, <1>3, <1>11 DEF SetupFirst
  <2>2. Taken(p, msg)
    BY <1>1, <1>4, <1>11, <2>1, TakenFromSession
  <2> HIDE DEF msg
  <2> DEFINE r == Realtime!Handled(p, msg)
  <2>3. Settled(r) /\ Kept(p, r)
    BY <2>2, HandledIsSound
  <2>4. Realtime!Becomes(r)
    BY <1>11
  <2> HIDE DEF r
  <2>5. Moved(p)
    BY <2>3, <2>4, BecomesIsSound, KeptMoves
  <2> QED BY <1>4, <1>8, <2>5 DEF now
<1> QED BY <1>2, <1>9, <1>10, <1>11, <1>13

\* The rest of #handleResponseDone.
LEMMA ChainIsSound ==
    ASSUME NEW p, Between(p)
    PROVE  Settled(Realtime!ChainGoesOn(p)) /\ Kept(p, Realtime!ChainGoesOn(p))
<1> SUFFICES ASSUME NEW q, q = Realtime!ChainGoesOn(p)
             PROVE  Settled(q) /\ Kept(p, q)
  OBVIOUS
<1>1. p \in Pairs /\ p.b \in Bridges /\ p.s \in Sessions
  BY DEF Between, Pairs
<1>2. CASE p.b.depth >= ChainCap
  <2> DEFINE capped == ~p.b.active
             m == [p EXCEPT !.b.depth = 0, !.b.capped = capped]
  <2>1. q = m
    BY <1>2 DEF Realtime!ChainGoesOn
  <2>2. capped \in BOOLEAN
    OBVIOUS
  <2>3. p.b.active \/ capped
    OBVIOUS
  <2> HIDE DEF capped
  <2>5. m \in Pairs /\ m.s = p.s /\ Kept(p, m) /\ m.b.active = p.b.active /\ m.b.capped = capped
    BY <1>1, <2>2 DEF Pairs, Bridges, Kept
  <2> HIDE DEF m
  <2>6. Slotted(m)
    BY <2>5, SlotFields DEF Slotted, Between, Kept
  <2>7. Settled(m)
    BY <2>3, <2>5, <2>6 DEF Settled, Slotted, RealtimeSound, SetupIsQuiet, AsksAgain, Waits, Kept,
       Between
  <2> QED BY <2>1, <2>5, <2>7
<1>3. CASE ~(p.b.depth >= ChainCap)
  <2>1. q = Realtime!RequestResponse(p)
    BY <1>3 DEF Realtime!ChainGoesOn
  <2> QED BY <2>1, RequestIsSound
<1> QED BY <1>2, <1>3

\* A tool that comes back is counted off, whichever session it was for.
LEMMA ToolReturnsMoves ==
    ASSUME Sound, Realtime!ToolReturns
    PROVE  Moved(Realtime!Now)
<1> DEFINE now == Realtime!Now
           m == [now EXCEPT !.b.tools = @ - 1]
           n == [now EXCEPT !.b.oldTools = @ - 1]
           o == [n EXCEPT !.s = Realtime!Complains(@, "error")]
<1>1. /\ now \in Pairs /\ now.b = rt /\ now.s = session /\ rt \in Bridges /\ session \in Sessions
      /\ SlotHeld(rt, session) /\ SetupFirst(rt, session) /\ SetupIsQuiet(rt) /\ AsksAgain(rt)
  BY NowIsSettled DEF Sound, VoiceTyped, RealtimeSound
<1>2. \/ rt.tools > 0 /\ Realtime!Becomes(IF Realtime!Open(rt) THEN Realtime!ChainGoesOn(m) ELSE m)
      \/ rt.oldTools > 0 /\ Realtime!Becomes(IF Realtime!Open(rt) THEN Realtime!ChainGoesOn(o) ELSE n)
  BY DEF Realtime!ToolReturns
<1> HIDE DEF now
\* What is left to count, and the slot as it was
<1> DEFINE Less(p) ==
        /\ p \in Pairs /\ Kept(now, p)
        /\ p.b.active = rt.active /\ p.b.input = rt.input /\ p.b.watchdog = rt.watchdog
        /\ p.b.capped = rt.capped /\ p.b.hushed = rt.hushed /\ p.b.pending = rt.pending
        /\ SlotHeld(p.b, p.s) /\ SetupFirst(p.b, p.s)
<1>3. ASSUME NEW p, Less(p),
             Realtime!Becomes(IF Realtime!Open(rt) THEN Realtime!ChainGoesOn(p) ELSE p)
      PROVE  Moved(now)
  <2>1. CASE Realtime!Open(rt)
    <3>1. Between(p)
      BY <1>1, <1>3, <2>1 DEF Between, Kept, SetupIsQuiet, Realtime!Open
    <3> DEFINE r == Realtime!ChainGoesOn(p)
    <3>2. Settled(r) /\ Kept(p, r)
      BY <3>1, ChainIsSound
    <3>3. Realtime!Becomes(r)
      BY <1>3, <2>1
    <3> HIDE DEF r
    <3>4. Moved(r)
      BY <3>2, <3>3, BecomesIsSound
    <3>5. Moved(p)
      BY <3>2, <3>4, KeptMoves
    <3> QED BY <1>3, <3>5, KeptMoves
  <2>2. CASE ~Realtime!Open(rt)
    <3>1. Settled(p)
      BY <1>1, <1>3, <2>2 DEF Settled, RealtimeSound, Kept, SetupIsQuiet, AsksAgain, Waits, Realtime!Open
    <3>2. Moved(p)
      BY <1>3, <2>2, <3>1, BecomesIsSound
    <3> QED BY <1>3, <3>2, KeptMoves
  <2> QED BY <2>1, <2>2
<1>4. CASE /\ rt.tools > 0
           /\ Realtime!Becomes(IF Realtime!Open(rt) THEN Realtime!ChainGoesOn(m) ELSE m)
  <2>1. rt.tools - 1 \in Nat
    BY <1>1, <1>4 DEF Bridges
  <2>2. /\ m \in Pairs /\ m.s = session /\ Kept(now, m)
        /\ m.b.active = rt.active /\ m.b.input = rt.input /\ m.b.watchdog = rt.watchdog
        /\ m.b.capped = rt.capped /\ m.b.hushed = rt.hushed /\ m.b.pending = rt.pending
    BY <1>1, <2>1 DEF Pairs, Bridges, Kept
  <2> HIDE DEF m
  <2>3. Less(m)
    BY <1>1, <2>2, SlotFields DEF Kept
  <2> QED BY <1>3, <1>4, <2>3 DEF now
<1>5. CASE /\ rt.oldTools > 0
           /\ Realtime!Becomes(IF Realtime!Open(rt) THEN Realtime!ChainGoesOn(o) ELSE n)
  <2>1. rt.oldTools - 1 \in Nat
    BY <1>1, <1>5 DEF Bridges
  <2>2. /\ n \in Pairs /\ n.s = session /\ Kept(now, n)
        /\ n.b.active = rt.active /\ n.b.input = rt.input /\ n.b.watchdog = rt.watchdog
        /\ n.b.capped = rt.capped /\ n.b.hushed = rt.hushed /\ n.b.pending = rt.pending
    BY <1>1, <2>1 DEF Pairs, Bridges, Kept
  <2> HIDE DEF n
  <2>3. Less(n)
    BY <1>1, <2>2, SlotFields DEF Kept
  <2>4. CASE ~Realtime!Open(rt)
    BY <1>3, <1>5, <2>3, <2>4 DEF now
  <2>5. CASE Realtime!Open(rt)
    <3> DEFINE s == Realtime!Complains(session, "error")
    <3>1. s \in Sessions /\ s.errors /\ s.out = Append(session.out, "error")
      BY <1>1, ComplainsIsTyped DEF Messages
    <3>2. o = [n EXCEPT !.s = s]
      BY <2>2
    <3> HIDE DEF s
    <3>3. o \in Pairs /\ o.b = n.b /\ o.s = s
      BY <2>2, <3>1, <3>2 DEF Pairs
    <3> HIDE DEF o
    <3>4. SlotHeld(o.b, o.s)
      BY <3>1, <3>3 DEF SlotHeld
    <3>5. SetupFirst(o.b, o.s)
      <4>1. session.out \in Seq(Messages) /\ "error" \in Messages
        BY <1>1 DEF Sessions, Messages
      <4> QED BY <2>3, <2>2, <3>1, <3>3, <4>1, AppendKeepsFirst DEF SetupFirst
    <3>6. Less(o)
      BY <2>2, <3>3, <3>4, <3>5 DEF Kept
    <3>7. Realtime!Becomes(IF Realtime!Open(rt) THEN Realtime!ChainGoesOn(o) ELSE o)
      BY <1>5, <2>5
    <3> QED BY <1>3, <3>6, <3>7 DEF now
  <2> QED BY <2>4, <2>5
<1> QED BY <1>2, <1>4, <1>5 DEF now

-----------------------------------------------------------------------------
(* Sockets that open and close, and the timers.                            *)

\* A bridge without an open socket has no slot to keep.
LEMMA GoneMoves ==
    ASSUME Sound, NEW b \in Bridges, NEW s \in Sessions,
           rt' = b, session' = s, UNCHANGED briefVars,
           b.socket # "open", b.pending => Waits(b),
           b.socket = "none" => ~b.watchdog, b.queue = rt.queue
    PROVE  Commanded(Realtime!Now)
<1>1. Realtime!Now.b = rt
  BY NowIsSettled
<1>2. RealtimeSound(b, s)
  BY GoneIsSound
<1> QED BY <1>1, <1>2 DEF Commanded, BriefsMove, briefVars

\* The timer of #armResponseWatchdog closes the socket of a silent session.
LEMMA WatchdogMoves ==
    ASSUME Sound, Realtime!Watchdog
    PROVE  Moved(Realtime!Now)
<1>1. /\ rt \in Bridges /\ session \in Sessions /\ Realtime!Now.b = rt
      /\ SlotHeld(rt, session) /\ SetupFirst(rt, session) /\ SetupIsQuiet(rt) /\ AsksAgain(rt)
  BY NowIsSettled DEF Sound, VoiceTyped, RealtimeSound
<1>2. CASE rt.active
  <2> DEFINE asked == IF rt.cancelling THEN rt.asked ELSE {}
             c == [rt EXCEPT !.watchdog = FALSE, !.active = FALSE, !.pending = FALSE]
             b == [c EXCEPT !.cancelling = FALSE, !.socket = "closing", !.asked = asked]
  <2>1. asked \in SUBSET Nat
    BY <1>1 DEF Bridges
  <2>2. rt' = b /\ session' = Realtime!NoSession /\ UNCHANGED briefVars
    BY <1>2 DEF Realtime!Watchdog, Realtime!OnlyBridge, Realtime!briefVars, briefVars
  <2> HIDE DEF asked
  <2>3. /\ b \in Bridges /\ b.socket = "closing" /\ ~b.pending /\ b.input = rt.input
        /\ b.depth = rt.depth /\ b.setup = rt.setup /\ b.queue = rt.queue
        /\ b.overtaken = rt.overtaken
    <3>1. /\ c \in Bridges /\ ~c.pending /\ c.input = rt.input /\ c.depth = rt.depth
          /\ c.setup = rt.setup /\ c.queue = rt.queue /\ c.overtaken = rt.overtaken
      BY <1>1 DEF Bridges
    <3> HIDE DEF c
    <3> QED BY <2>1, <3>1 DEF Bridges
  <2> HIDE DEF b, c
  <2>4. Commanded(Realtime!Now)
    BY <1>1, <2>2, <2>3, GoneMoves, NoSessionTyped DEF SetupIsQuiet
  <2>5. rt.socket # "none"
    BY <1>1 DEF SetupIsQuiet, Realtime!Watchdog
  <2> QED BY <1>1, <2>2, <2>3, <2>4, <2>5 DEF Moved, RealtimeRetired
<1>3. CASE ~rt.active
  <2> DEFINE b == [rt EXCEPT !.watchdog = FALSE]
             q == [b |-> b, s |-> session]
  <2>1. rt' = b /\ session' = session /\ UNCHANGED Realtime!briefVars
    BY <1>3 DEF Realtime!Watchdog, Realtime!KeepSession
  <2>2. b \in Bridges /\ AskFields(rt, b) /\ Kept(Realtime!Now, q)
    BY <1>1 DEF Bridges, AskFields, Kept
  <2> HIDE DEF b
  <2>3. q \in Pairs /\ q.b = b /\ q.s = session
    BY <1>1, <2>2 DEF Pairs
  <2> HIDE DEF q
  <2>4. b.socket = rt.socket /\ b.setup = rt.setup
    BY <1>1, <2>2, <2>3 DEF Kept
  <2>5. Slotted(q)
    BY <1>1, <2>2, <2>3, <2>4, SlotFields DEF Slotted, AskFields
  <2>6. Settled(q)
    BY <2>2, <2>3, <2>4, <2>5, <1>1, NowIsSettled, SettledFields
  <2>7. Realtime!Becomes(q)
    BY <2>1, <2>3 DEF Realtime!Becomes
  <2> QED BY <2>2, <2>6, <2>7, BecomesIsSound, KeptMoves
<1> QED BY <1>2, <1>3

\* The socket's close event
LEMMA SocketClosesMoves ==
    ASSUME Sound, Realtime!SocketCloses
    PROVE  Moved(Realtime!Now)
<1> DEFINE a == [rt EXCEPT !.setup = "no"]
           w == IF rt.socket = "connecting" THEN a ELSE rt
           l == Realtime!Leave(w)
           b == Realtime!ScheduleReconnect(l)
<1>1. rt \in Bridges /\ Realtime!Now.b = rt
  BY NowIsSettled DEF Sound, VoiceTyped
<1>2. rt' = b /\ session' = Realtime!NoSession /\ UNCHANGED briefVars /\ rt.socket # "none"
  BY DEF Realtime!SocketCloses, Realtime!OnlyBridge, Realtime!briefVars, briefVars
<1>3. a \in Bridges /\ a.queue = rt.queue /\ a.overtaken = rt.overtaken
  BY <1>1, NoWaiter DEF Bridges
<1> HIDE DEF a
<1>4. w \in Bridges /\ w.queue = rt.queue /\ w.overtaken = rt.overtaken
  BY <1>1, <1>3
<1> HIDE DEF w
<1>5. /\ l \in Bridges /\ ~l.pending /\ ~l.watchdog /\ l.socket = "none" /\ l.setup = "no"
      /\ l.queue = rt.queue /\ l.overtaken = rt.overtaken
  BY <1>4, LeaveTyped DEF Survives
<1> HIDE DEF l
<1>6. /\ b \in Bridges /\ ~b.pending /\ ~b.watchdog /\ b.socket = "none" /\ b.setup = "no"
      /\ b.queue = rt.queue /\ b.overtaken = rt.overtaken
  BY <1>5, ScheduleTyped
<1> HIDE DEF b
<1>7. Commanded(Realtime!Now)
  BY <1>2, <1>6, GoneMoves, NoSessionTyped
<1> QED BY <1>1, <1>2, <1>6, <1>7 DEF Moved, RealtimeRetired

\* A set-up that takes too long
LEMMA SetupTimeoutMoves ==
    ASSUME Sound, Realtime!SetupTimeout
    PROVE  Moved(Realtime!Now)
<1> DEFINE a == [rt EXCEPT !.socket = "closing", !.setup = "no"]
           b == IF rt.setup = "retry" THEN Realtime!ScheduleReconnect(a) ELSE a
<1>1. rt \in Bridges /\ Realtime!Now.b = rt /\ SetupIsQuiet(rt)
  BY NowIsSettled DEF Sound, VoiceTyped, RealtimeSound
<1>2. rt' = b /\ session' = Realtime!NoSession /\ UNCHANGED briefVars /\ rt.setup # "no"
  BY DEF Realtime!SetupTimeout, Realtime!OnlyBridge, Realtime!briefVars, briefVars
<1>3. /\ a \in Bridges /\ a.pending = rt.pending /\ (Waits(rt) => Waits(a))
      /\ a.socket = "closing" /\ a.setup = "no"
      /\ a.queue = rt.queue /\ a.overtaken = rt.overtaken
  BY <1>1, NoWaiter DEF Bridges, Waits
<1> HIDE DEF a
<1>4. /\ b \in Bridges /\ b.pending = rt.pending /\ (Waits(rt) => Waits(b))
      /\ b.socket = "closing" /\ b.setup = "no"
      /\ b.queue = rt.queue /\ b.overtaken = rt.overtaken
  BY <1>3, ScheduleTyped DEF Waits
<1> HIDE DEF b
<1>5. b.pending => Waits(b)
  BY <1>1, <1>2, <1>4 DEF SetupIsQuiet
<1>6. Commanded(Realtime!Now)
  BY <1>2, <1>4, <1>5, GoneMoves, NoSessionTyped
<1> QED BY <1>1, <1>2, <1>4, <1>6 DEF Moved, RealtimeRetired

\* The socket opens; the session has not yet answered.
LEMMA SocketOpensMoves ==
    ASSUME Sound, Realtime!SocketOpens
    PROVE  Moved(Realtime!Now)
<1> DEFINE b == [rt EXCEPT !.socket = "open"]
           none == Realtime!NoSession
<1>1. /\ rt \in Bridges /\ Realtime!Now.b = rt /\ SetupIsQuiet(rt) /\ AsksAgain(rt)
      /\ rt.socket = "connecting"
  BY NowIsSettled DEF Sound, VoiceTyped, RealtimeSound, Realtime!SocketOpens
<1>2. rt' = b /\ UNCHANGED briefVars
  BY DEF Realtime!SocketOpens, Realtime!briefVars, briefVars
<1>3. /\ b \in Bridges /\ b.socket = "open" /\ b.setup = rt.setup /\ AskFields(rt, b)
      /\ b.queue = rt.queue /\ b.overtaken = rt.overtaken
  BY <1>1 DEF Bridges, AskFields
<1>4. /\ session' \in Sessions /\ session'.out # <<>>
      /\ session'.out[1] \in {"session.updated", "error"}
      /\ session'.errors \/ /\ ~session'.busy
                            /\ \A i \in DOMAIN session'.out : session'.out[i] = "session.updated"
  <2>1. none \in Sessions /\ none.out = <<>> /\ ~none.busy
    BY NoSessionTyped DEF Realtime!NoSession
  <2> HIDE DEF none
  <2>2. ASSUME NEW msg
        PROVE  /\ Append(<<>>, msg) # <<>> /\ Append(<<>>, msg)[1] = msg
               /\ \A i \in DOMAIN Append(<<>>, msg) : Append(<<>>, msg)[i] = msg
    OBVIOUS
  <2>3. CASE session' = Realtime!Says(none, "session.updated")
    <3> DEFINE r == Realtime!Says(none, "session.updated")
    <3>1. r \in Sessions /\ r.busy = none.busy /\ r.out = Append(none.out, "session.updated")
      BY <2>1, SaysIsTyped DEF Messages
    <3> HIDE DEF r
    <3> QED BY <2>1, <2>2, <2>3, <3>1 DEF r
  <2>4. CASE session' = Realtime!Complains(none, "error")
    <3> DEFINE r == Realtime!Complains(none, "error")
    <3>1. r \in Sessions /\ r.errors /\ r.out = Append(none.out, "error")
      BY <2>1, ComplainsIsTyped DEF Messages
    <3> HIDE DEF r
    <3> QED BY <2>1, <2>2, <2>4, <3>1 DEF r
  <2> QED BY <2>3, <2>4 DEF Realtime!SocketOpens, none
<1> HIDE DEF b
<1>5. SlotHeld(b, session') /\ SetupFirst(b, session')
  BY <1>4 DEF SlotHeld, SetupFirst, Realtime!ResponseEnds
<1>6. SetupIsQuiet(b) /\ AsksAgain(b)
  BY <1>1, <1>3 DEF SetupIsQuiet, AsksAgain, Waits, AskFields
<1>7. Commanded(Realtime!Now)
  BY <1>1, <1>2, <1>3, <1>4, <1>5, <1>6 DEF Commanded, RealtimeSound, BriefsMove, briefVars
<1> QED BY <1>1, <1>2, <1>3, <1>7 DEF Moved, RealtimeRetired

\* A retry that waits hears that its socket is gone.
LEMMA LateRejectionMoves ==
    ASSUME Sound, Realtime!LateRejection
    PROVE  Moved(Realtime!Now)
<1> DEFINE a == [rt EXCEPT !.late = FALSE]
           b == Realtime!ScheduleReconnect(a)
           q == [b |-> b, s |-> session]
<1>1. /\ rt \in Bridges /\ Realtime!Now.b = rt /\ Realtime!Now.s = session
      /\ Settled(Realtime!Now) /\ Slotted(Realtime!Now) /\ session \in Sessions
      /\ SlotHeld(rt, session) /\ SetupFirst(rt, session)
  BY NowIsSettled DEF Sound, VoiceTyped, RealtimeSound
<1>2. rt' = b /\ session' = session /\ UNCHANGED briefVars
  BY DEF Realtime!LateRejection, Realtime!KeepSession, Realtime!briefVars, briefVars
<1>3. /\ a \in Bridges /\ AskFields(rt, a) /\ a.socket = rt.socket /\ a.setup = rt.setup
      /\ a.queue = rt.queue /\ a.overtaken = rt.overtaken /\ ~a.late
      /\ a.waiting = rt.waiting /\ a.manual = rt.manual /\ a.timer = rt.timer
  BY <1>1 DEF Bridges, AskFields
<1> HIDE DEF a
<1>4. /\ b \in Bridges /\ AskFields(rt, b) /\ b.socket = rt.socket /\ b.setup = rt.setup
      /\ b.queue = rt.queue /\ b.overtaken = rt.overtaken /\ ~b.late
      /\ b.waiting = rt.waiting /\ b.manual = rt.manual
      /\ rt.manual => b.timer = rt.timer
  BY <1>3, ScheduleTyped DEF AskFields
<1> HIDE DEF b
<1>5. q \in Pairs /\ q.b = b /\ q.s = session
  BY <1>1, <1>4 DEF Pairs
<1> HIDE DEF q
<1>6. Slotted(q)
  BY <1>1, <1>4, <1>5, SlotFields DEF Slotted, AskFields
<1>7. Settled(q)
  BY <1>1, <1>4, <1>5, <1>6, SettledFields
<1>8. Commanded(Realtime!Now)
  BY <1>1, <1>2, <1>4, <1>5, <1>7 DEF Settled, Pairs, Commanded, BriefsMove, briefVars
<1>9. RealtimeRetired(rt) => RealtimeRetired(b)
  <2> SUFFICES ASSUME RealtimeRetired(rt)
               PROVE  RealtimeRetired(b)
    OBVIOUS
  <2>1. rt.manual
    BY DEF RealtimeRetired, Realtime!LateRejection
  <2>2. b.manual
    BY <1>4, <2>1
  <2>3. b.socket = "none" /\ b.setup = "no" /\ b.waiting = "no" /\ ~b.timer
    BY <1>4, <2>1 DEF RealtimeRetired
  <2> QED BY <2>2, <2>3 DEF RealtimeRetired
<1> QED BY <1>1, <1>2, <1>4, <1>8, <1>9 DEF Moved

\* A socket that is replaced keeps its session, and the bridge everything else.
LEMMA ReplacedTyped ==
    ASSUME rt \in Bridges, session \in Sessions
    PROVE  LET c == Realtime!Replaced(rt)
           IN  c \in Bridges /\ c.queue = rt.queue /\ c.overtaken = rt.overtaken
<1> DEFINE s == [session EXCEPT !.speech = FALSE, !.errors = FALSE]
           o == IF rt.socket \in {"none", "closing"} THEN rt.orphan
                ELSE [at |-> rt.socket, setup |-> rt.setup, s |-> s]
<1>1. s \in Sessions
  BY DEF Sessions
<1> HIDE DEF s
<1>2. o \in Orphans
  BY <1>1 DEF Bridges, Orphans
<1>3. Realtime!Replaced(rt) = [rt EXCEPT !.waiting = "no", !.orphan = o]
  BY DEF Realtime!Replaced, s
<1> HIDE DEF o
<1> QED BY <1>2, <1>3, NoWaiter DEF Bridges

\* connect() goes on when the old socket has closed.
LEMMA OldSocketClosedMoves ==
    ASSUME Sound, Realtime!OldSocketClosed
    PROVE  Moved(Realtime!Now)
<1> DEFINE m == Realtime!Replaced(rt)
           b == Realtime!OpenSocket(m, rt.waiting)
<1>1. rt \in Bridges /\ Realtime!Now.b = rt
  BY NowIsSettled DEF Sound, VoiceTyped
<1>6. m \in Bridges /\ m.queue = rt.queue /\ m.overtaken = rt.overtaken
  BY ReplacedTyped DEF Sound, VoiceTyped
<1>2. rt' = b /\ session' = Realtime!NoSession /\ UNCHANGED briefVars /\ rt.waiting # "no"
  BY DEF Realtime!OldSocketClosed, Realtime!OnlyBridge, Realtime!briefVars, briefVars
<1>3. rt.waiting \in Waiters
  BY <1>1 DEF Bridges
<1>4. /\ b \in Bridges /\ ~b.pending /\ ~b.input /\ ~b.active
      /\ b.socket = "connecting" /\ b.depth = 0
      /\ b.queue = rt.queue /\ b.overtaken = rt.overtaken
  BY <1>3, <1>6, OpenSocketTyped
<1> HIDE DEF b, m
<1>5. Commanded(Realtime!Now)
  BY <1>2, <1>4, GoneMoves, NoSessionTyped
<1> QED BY <1>1, <1>2, <1>4, <1>5 DEF Moved, RealtimeRetired

\* connect(), by a caller or by the timer
LEMMA ConnectsMoves ==
    ASSUME Sound, NEW who \in Waiters \ {"no"}, rt.socket # "open",
           Realtime!OnlyBridge(Realtime!ConnectFor(rt, who))
    PROVE  Commanded(Realtime!Now) /\ (rt.overtaken => rt'.overtaken)
<1> DEFINE b == Realtime!ConnectFor(rt, who)
<1>1. rt \in Bridges
  BY DEF Sound, VoiceTyped
<1>2. rt' = b /\ session' = Realtime!NoSession /\ UNCHANGED briefVars
  BY DEF Realtime!OnlyBridge, Realtime!briefVars, briefVars
<1>3. /\ b \in Bridges /\ ~b.pending /\ ~b.watchdog /\ b.socket # "open"
      /\ b.queue = rt.queue /\ (rt.overtaken => b.overtaken)
  BY <1>1, ConnectForTyped
<1> HIDE DEF b
<1>4. Commanded(Realtime!Now)
  BY <1>2, <1>3, GoneMoves, NoSessionTyped
<1> QED BY <1>2, <1>3, <1>4

\* A bridge whose timer alone is cleared is as sound as it was.
LEMMA TimerClearedMoves ==
    ASSUME Sound, Realtime!KeepSession([rt EXCEPT !.timer = FALSE])
    PROVE  Moved(Realtime!Now)
<1> DEFINE b == [rt EXCEPT !.timer = FALSE]
           q == [b |-> b, s |-> session]
<1>1. /\ rt \in Bridges /\ Realtime!Now.b = rt /\ Realtime!Now.s = session
      /\ Settled(Realtime!Now) /\ session \in Sessions
      /\ SlotHeld(rt, session) /\ SetupFirst(rt, session)
  BY NowIsSettled DEF Sound, VoiceTyped, RealtimeSound
<1>2. rt' = b /\ session' = session /\ UNCHANGED briefVars
  BY DEF Realtime!KeepSession, Realtime!briefVars, briefVars
<1>3. /\ b \in Bridges /\ AskFields(rt, b) /\ b.socket = rt.socket /\ b.setup = rt.setup
      /\ b.queue = rt.queue /\ b.overtaken = rt.overtaken /\ b.late = rt.late
      /\ b.waiting = rt.waiting /\ b.manual = rt.manual /\ ~b.timer
      /\ b.orphan = rt.orphan
  BY <1>1 DEF Bridges, AskFields
<1> HIDE DEF b
<1>4. q \in Pairs /\ q.b = b /\ q.s = session
  BY <1>1, <1>3 DEF Pairs
<1> HIDE DEF q
<1>5. Slotted(q)
  BY <1>1, <1>3, <1>4, SlotFields DEF Slotted, AskFields
<1>6. Settled(q)
  BY <1>1, <1>3, <1>4, <1>5, SettledFields
<1>7. Commanded(Realtime!Now)
  BY <1>1, <1>2, <1>3, <1>4, <1>6 DEF Settled, Pairs, Commanded, BriefsMove, briefVars
<1> QED BY <1>1, <1>2, <1>3, <1>7 DEF Moved, RealtimeRetired

\* The timer of #scheduleReconnect
LEMMA ReconnectTimerMoves ==
    ASSUME Sound, Realtime!ReconnectTimer
    PROVE  Moved(Realtime!Now)
<1>1. CASE rt.manual \/ Realtime!Open(rt)
  BY <1>1, TimerClearedMoves DEF Realtime!ReconnectTimer
<1>2. CASE ~(rt.manual \/ Realtime!Open(rt))
  <2>1. Realtime!OnlyBridge(Realtime!ConnectFor(rt, "retry")) /\ rt.socket # "open" /\ rt.timer
    BY <1>2 DEF Realtime!ReconnectTimer, Realtime!Open
  <2>2. Commanded(Realtime!Now) /\ (rt.overtaken => rt'.overtaken)
    BY <2>1, ConnectsMoves DEF Waiters
  <2> QED BY <2>1, <2>2, NowIsSettled DEF Moved, RealtimeRetired
<1> QED BY <1>1, <1>2

\* The app's own connect and disconnect
LEMMA ConnectIsSound ==
    ASSUME Sound, Realtime!Connect
    PROVE  Commanded(Realtime!Now)
<1>1. CASE Realtime!Open(rt)
  <2>1. Realtime!KeepSession([rt EXCEPT !.timer = FALSE])
    BY <1>1 DEF Realtime!Connect, Realtime!ConnectFor
  <2> QED BY <2>1, TimerClearedMoves DEF Moved
<1>2. CASE ~Realtime!Open(rt)
  <2>1. Realtime!OnlyBridge(Realtime!ConnectFor(rt, "caller")) /\ rt.socket # "open"
    BY <1>2 DEF Realtime!Connect, Realtime!Open
  <2> QED BY <2>1, ConnectsMoves DEF Waiters
<1> QED BY <1>1, <1>2

\* disconnect() keeps the bridge sound and retires it, or a waiter has overtaken it.
LEMMA DisconnectIsSound ==
    ASSUME Sound, rt' = Realtime!Disconnected(rt), session' = Realtime!NoSession,
           UNCHANGED briefVars
    PROVE  /\ Commanded(Realtime!Now)
           /\ rt'.overtaken \/ RealtimeRetired(rt')
<1> DEFINE b == Realtime!Disconnected(rt)
<1>1. rt \in Bridges
  BY DEF Sound, VoiceTyped
<1>2. /\ b \in Bridges /\ ~b.pending /\ ~b.watchdog
      /\ b.socket = "none" /\ b.setup = "no" /\ b.manual /\ ~b.timer
      /\ b.waiting = rt.waiting /\ b.queue = rt.queue
      /\ (b.overtaken <=> rt.overtaken \/ rt.waiting # "no")
  BY <1>1, DisconnectedTyped
<1>3. rt' = b
  OBVIOUS
<1> HIDE DEF b
<1>4. Commanded(Realtime!Now)
  BY <1>2, <1>3, GoneMoves, NoSessionTyped
<1>5. ASSUME ~b.overtaken
      PROVE  RealtimeRetired(b)
  <2>1. b.waiting = "no"
    BY <1>2, <1>5
  <2> QED BY <1>2, <2>1 DEF RealtimeRetired
<1> QED BY <1>3, <1>4, <1>5

-----------------------------------------------------------------------------
(* A socket that was replaced.                                             *)

\* A pair that goes on with another's connection and briefs, and is as retired as it
Follows(p, q) ==
    /\ q.b.socket = p.b.socket /\ q.b.queue = p.b.queue /\ q.b.overtaken = p.b.overtaken
    /\ RealtimeRetired(p.b) => RealtimeRetired(q.b)

\* A step from a pair that follows another is a step from the other.
LEMMA FollowsMoves ==
    ASSUME NEW p, NEW q, Follows(p, q), Moved(q)
    PROVE  Moved(p)
<1>1. BriefsMove(p.b)
  BY DEF Follows, Moved, Commanded, BriefsMove
<1> QED BY <1>1 DEF Follows, Moved, Commanded

\* A pair that differs from the state in nothing that a put-off response waits for
LEMMA BesideMoves ==
    ASSUME Sound, NEW b \in Bridges, NEW s \in Sessions,
           rt' = b, session' = s, UNCHANGED briefVars,
           AskFields(rt, b), b.socket = rt.socket, b.setup = rt.setup,
           b.queue = rt.queue, b.overtaken = rt.overtaken,
           RealtimeRetired(rt) => RealtimeRetired(b),
           SlotHeld(rt, s), SetupFirst(rt, s)
    PROVE  Moved(Realtime!Now)
<1>1. SlotHeld(b, s) /\ SetupFirst(b, s)
  BY SlotFields DEF AskFields
<1>2. SetupIsQuiet(rt) /\ AsksAgain(rt) /\ Realtime!Now.b = rt
  BY NowIsSettled DEF Sound, RealtimeSound
<1>3. SetupIsQuiet(b) /\ AsksAgain(b)
  BY <1>2 DEF SetupIsQuiet, AsksAgain, Waits, AskFields
<1> QED BY <1>1, <1>2, <1>3 DEF Moved, Commanded, RealtimeSound, BriefsMove, briefVars

\* An error says nothing of the slot, and is not the first message of a set-up.
LEMMA ComplaintIsSound ==
    ASSUME NEW s \in Sessions, NEW b, SetupFirst(b, s)
    PROVE  LET r == Realtime!Complains(s, "error")
           IN  r \in Sessions /\ SlotHeld(b, r) /\ SetupFirst(b, r)
<1> DEFINE r == Realtime!Complains(s, "error")
<1>1. s.out \in Seq(Messages) /\ "error" \in Messages
  BY DEF Sessions, Messages
<1>2. r \in Sessions /\ r.errors /\ r.out = Append(s.out, "error")
  BY <1>1, ComplainsIsTyped
<1> HIDE DEF r
<1>3. SlotHeld(b, r)
  BY <1>2 DEF SlotHeld
<1>4. SetupFirst(b, r)
  BY <1>1, <1>2, AppendKeepsFirst DEF SetupFirst
<1> QED BY <1>2, <1>3, <1>4 DEF r

\* The replaced socket opens, and the session of the current one is set up again.
LEMMA OrphanOpensMoves ==
    ASSUME Sound, Realtime!OrphanOpens
    PROVE  Moved(Realtime!Now)
<1> DEFINE o == [rt.orphan EXCEPT !.at = "open"]
           b == [rt EXCEPT !.orphan = o]
<1>1. rt \in Bridges /\ session \in Sessions /\ SlotHeld(rt, session) /\ SetupFirst(rt, session)
  BY DEF Sound, VoiceTyped, RealtimeSound
<1>2. rt' = b /\ UNCHANGED briefVars
  BY DEF Realtime!OrphanOpens, Realtime!briefVars, briefVars
<1>3. o \in Orphans /\ o.setup = rt.orphan.setup
  BY <1>1 DEF Bridges, Orphans
<1> HIDE DEF o
<1>4. /\ b \in Bridges /\ AskFields(rt, b) /\ b.socket = rt.socket /\ b.setup = rt.setup
      /\ b.queue = rt.queue /\ b.overtaken = rt.overtaken /\ b.orphan = o
      /\ b.waiting = rt.waiting /\ b.timer = rt.timer /\ b.manual = rt.manual /\ b.late = rt.late
  BY <1>1, <1>3 DEF Bridges, AskFields
<1> HIDE DEF b
<1>5. RealtimeRetired(rt) => RealtimeRetired(b)
  BY <1>3, <1>4 DEF RealtimeRetired
<1>6. session' \in Sessions /\ SlotHeld(rt, session') /\ SetupFirst(rt, session')
  <2>1. CASE session' = session
    BY <1>1, <2>1
  <2>2. CASE session' = Realtime!Says(session, "session.updated")
    <3>1. "session.updated" \in Messages
      BY DEF Messages
    <3> QED BY <1>1, <2>2, <3>1, OtherMessageIsSound, SaysIsTyped
  <2>3. CASE session' = Realtime!Complains(session, "error")
    BY <1>1, <2>3, ComplaintIsSound
  <2> QED BY <2>1, <2>2, <2>3 DEF Realtime!OrphanOpens
<1> QED BY <1>2, <1>4, <1>5, <1>6, BesideMoves

\* What the provider says on it is on its way; the bridge has not heard of it yet.
LEMMA OrphanSaysMoves ==
    ASSUME Sound, NEW msg \in Messages, Realtime!OrphanSays(msg)
    PROVE  Moved(Realtime!Now)
<1> DEFINE r == Realtime!Says(rt.orphan.s, msg)
           busy == rt.orphan.s.busy /\ msg = "error"
           s == [r EXCEPT !.busy = busy]
           o == [rt.orphan EXCEPT !.s = s]
           b == [rt EXCEPT !.orphan = o]
<1>1. /\ rt \in Bridges /\ session \in Sessions /\ SlotHeld(rt, session) /\ SetupFirst(rt, session)
      /\ rt.orphan \in Orphans /\ rt.orphan.s \in Sessions
  BY DEF Sound, VoiceTyped, RealtimeSound, Bridges, Orphans
<1>2. rt' = b /\ session' = session /\ UNCHANGED briefVars
  BY DEF Realtime!OrphanSays, Realtime!briefVars, briefVars
<1>3. r \in Sessions
  BY <1>1, SaysIsTyped
<1> HIDE DEF r
<1>4. s \in Sessions
  BY <1>3 DEF Sessions
<1> HIDE DEF s
<1>5. o \in Orphans /\ o.setup = rt.orphan.setup
  BY <1>1, <1>4 DEF Orphans
<1> HIDE DEF o
<1>6. /\ b \in Bridges /\ AskFields(rt, b) /\ b.socket = rt.socket /\ b.setup = rt.setup
      /\ b.queue = rt.queue /\ b.overtaken = rt.overtaken /\ b.orphan = o
      /\ b.waiting = rt.waiting /\ b.timer = rt.timer /\ b.manual = rt.manual /\ b.late = rt.late
  BY <1>1, <1>5 DEF Bridges, AskFields
<1> HIDE DEF b
<1>7. RealtimeRetired(rt) => RealtimeRetired(b)
  BY <1>5, <1>6 DEF RealtimeRetired
<1> QED BY <1>1, <1>2, <1>6, <1>7, BesideMoves

\* The replaced socket is gone, and a retry that waited for it will hear of it.
LEMMA OrphanClosesMoves ==
    ASSUME Sound, Realtime!OrphanCloses
    PROVE  Moved(Realtime!Now)
<1> DEFINE late == rt.late \/ rt.orphan.setup = "retry"
           none == Realtime!NoOrphan
           b == [rt EXCEPT !.orphan = none, !.late = late]
<1>1. rt \in Bridges /\ session \in Sessions /\ SlotHeld(rt, session) /\ SetupFirst(rt, session)
  BY DEF Sound, VoiceTyped, RealtimeSound
<1>2. none \in Orphans /\ none.setup = "no"
  BY NoSessionTyped, NoWaiter DEF Realtime!NoOrphan, Orphans
<1>3. rt' = b /\ session' = session /\ UNCHANGED briefVars
  BY DEF Realtime!OrphanCloses, Realtime!KeepSession, Realtime!briefVars, briefVars
<1>4. late \in BOOLEAN
  BY <1>1 DEF Bridges
<1> HIDE DEF none, late
<1>5. /\ b \in Bridges /\ AskFields(rt, b) /\ b.socket = rt.socket /\ b.setup = rt.setup
      /\ b.queue = rt.queue /\ b.overtaken = rt.overtaken /\ b.orphan = none
      /\ b.waiting = rt.waiting /\ b.timer = rt.timer /\ b.manual = rt.manual /\ b.late = late
  BY <1>1, <1>2, <1>4 DEF Bridges, AskFields
<1> HIDE DEF b
<1>6. RealtimeRetired(rt) => RealtimeRetired(b)
  BY <1>2, <1>5 DEF RealtimeRetired, late
<1> QED BY <1>1, <1>3, <1>5, <1>6, BesideMoves

\* Its set-up takes too long: a retry tries again.
LEMMA OrphanTimeoutMoves ==
    ASSUME Sound, Realtime!OrphanTimeout
    PROVE  Moved(Realtime!Now)
<1> DEFINE none == Realtime!NoOrphan
           d == [rt EXCEPT !.orphan = none]
           b == IF rt.orphan.setup = "retry" THEN Realtime!ScheduleReconnect(d) ELSE d
<1>1. rt \in Bridges /\ session \in Sessions /\ SlotHeld(rt, session) /\ SetupFirst(rt, session)
  BY DEF Sound, VoiceTyped, RealtimeSound
<1>2. none \in Orphans /\ none.setup = "no"
  BY NoSessionTyped, NoWaiter DEF Realtime!NoOrphan, Orphans
<1>3. rt' = b /\ session' = session /\ UNCHANGED briefVars
  BY DEF Realtime!OrphanTimeout, Realtime!KeepSession, Realtime!briefVars, briefVars
<1> HIDE DEF none
<1>4. /\ d \in Bridges /\ AskFields(rt, d) /\ d.socket = rt.socket /\ d.setup = rt.setup
      /\ d.queue = rt.queue /\ d.overtaken = rt.overtaken /\ d.orphan = none
      /\ d.waiting = rt.waiting /\ d.timer = rt.timer /\ d.manual = rt.manual /\ d.late = rt.late
  BY <1>1, <1>2 DEF Bridges, AskFields
<1> HIDE DEF d
<1>5. /\ b \in Bridges /\ AskFields(rt, b) /\ b.socket = rt.socket /\ b.setup = rt.setup
      /\ b.queue = rt.queue /\ b.overtaken = rt.overtaken /\ b.orphan = none
      /\ b.waiting = rt.waiting /\ b.manual = rt.manual /\ b.late = rt.late
      /\ rt.manual \/ rt.orphan.setup # "retry" => b.timer = rt.timer
  BY <1>4, ScheduleTyped DEF AskFields
<1> HIDE DEF b
<1>6. RealtimeRetired(rt) => RealtimeRetired(b)
  BY <1>2, <1>5 DEF RealtimeRetired
<1> QED BY <1>1, <1>3, <1>5, <1>6, BesideMoves

\* With no open socket a request puts the response off only while something holds it.
LEMMA GoneAsks ==
    ASSUME NEW p \in Pairs, p.b.socket # "open", p.b.socket = "none" => ~p.b.watchdog
    PROVE  Settled(Realtime!RequestResponse(p)) /\ Kept(p, Realtime!RequestResponse(p))
<1> SUFFICES ASSUME NEW q, q = Realtime!RequestResponse(p)
             PROVE  Settled(q) /\ Kept(p, q)
  OBVIOUS
<1>1. p.b \in Bridges /\ p.s \in Sessions /\ ~Realtime!Open(p.b)
  BY DEF Pairs, Realtime!Open
<1> DEFINE a == [p EXCEPT !.b.pending = FALSE]
           c == [p EXCEPT !.b.pending = TRUE]
           d == [p EXCEPT !.b.pending = FALSE, !.b.active = TRUE]
<1>2. \/ q = a \/ q = d
      \/ q = c /\ (p.b.active \/ p.b.input)
  BY <1>1 DEF Realtime!RequestResponse, Realtime!Unsent
<1>3. a \in Pairs /\ ~a.b.pending /\ Kept(p, a) /\ a.b.watchdog = p.b.watchdog
  BY <1>1 DEF Pairs, Bridges, Kept
<1>4. /\ c \in Pairs /\ Kept(p, c) /\ c.b.watchdog = p.b.watchdog
      /\ c.b.active = p.b.active /\ c.b.input = p.b.input
  BY <1>1 DEF Pairs, Bridges, Kept
<1>5. d \in Pairs /\ ~d.b.pending /\ Kept(p, d) /\ d.b.watchdog = p.b.watchdog
  BY <1>1 DEF Pairs, Bridges, Kept
<1> HIDE DEF a, c, d
<1>6. /\ q \in Pairs /\ Kept(p, q) /\ q.b.watchdog = p.b.watchdog
      /\ q.b.pending => Waits(q.b)
  BY <1>2, <1>3, <1>4, <1>5 DEF Waits
<1>7. RealtimeSound(q.b, q.s)
  BY <1>6, GoneIsSound DEF Kept, Pairs
<1> QED BY <1>6, <1>7 DEF Settled

\* A pair between two of the replaced socket's messages: with no open socket there is
\* no watchdog, and what was put off and held by a response is marked as crossed.
Apart(p) ==
    /\ Slotted(p) /\ Calm(p.b)
    /\ p.b.socket # "open" => ~p.b.watchdog /\ (p.b.pending => p.b.crossed)

\* The end of a response on the replaced socket, with what follows it.
LEMMA OrphanDoneIsSound ==
    ASSUME NEW p, NEW end \in Realtime!ResponseEnds, Apart(p)
    PROVE  Settled(Realtime!OrphanDone(p, end)) /\ Kept(p, Realtime!OrphanDone(p, end))
<1> SUFFICES ASSUME NEW q, q = Realtime!OrphanDone(p, end)
             PROVE  Settled(q) /\ Kept(p, q)
  OBVIOUS
<1>1. /\ p \in Pairs /\ p.b \in Bridges /\ p.s \in Sessions
      /\ SlotHeld(p.b, p.s) /\ SetupFirst(p.b, p.s) /\ Calm(p.b)
  BY DEF Apart, Slotted, Pairs
\* With no open socket, a pair whose put-off response is marked is settled.
<1>2. ASSUME NEW m \in Pairs, Kept(p, m), p.b.socket # "open",
             m.b.pending = p.b.pending, ~m.b.watchdog
      PROVE  Settled(m)
  <2>1. m.b.pending => Waits(m.b)
    BY <1>2 DEF Apart, Waits, Kept
  <2>2. m.b \in Bridges /\ m.b.socket # "open"
    BY <1>2 DEF Pairs, Kept
  <2> QED BY <1>2, <2>1, <2>2, GoneIsSound DEF Settled
<1>3. p.b.depth + 1 \in Nat /\ p.b.oldTools + 1 \in Nat /\ p.b.tools \in Nat
  BY <1>1 DEF Bridges
<1>4. CASE end = "act"
  <2> DEFINE m == [p EXCEPT !.b.depth = @ + 1, !.b.oldTools = @ + 1]
  <2>1. q = m
    BY <1>4 DEF Realtime!OrphanDone
  <2>2. /\ m \in Pairs /\ m.s = p.s /\ Kept(p, m) /\ m.b.active = p.b.active
        /\ m.b.tools = p.b.tools /\ m.b.oldTools = p.b.oldTools + 1
        /\ m.b.pending = p.b.pending /\ m.b.input = p.b.input /\ m.b.watchdog = p.b.watchdog
        /\ m.b.capped = p.b.capped /\ m.b.hushed = p.b.hushed
    BY <1>1, <1>3 DEF Pairs, Bridges, Kept
  <2> HIDE DEF m
  <2>3. CASE p.b.socket = "open"
    <3>1. m.b.tools + m.b.oldTools > 0
      <4>1. p.b.oldTools \in Nat
        BY <1>1 DEF Bridges
      <4> QED BY <1>3, <2>2, <4>1
    <3>2. Slotted(m)
      BY <1>1, <2>2, SlotFields DEF Slotted, Kept
    <3>3. Settled(m)
      BY <1>1, <2>2, <2>3, <3>1, <3>2 DEF Settled, Slotted, RealtimeSound, SetupIsQuiet,
         AsksAgain, Waits, Calm, Kept
    <3> QED BY <2>1, <2>2, <3>3
  <2>4. CASE p.b.socket # "open"
    BY <1>2, <2>1, <2>2, <2>4 DEF Apart
  <2> QED BY <2>3, <2>4
<1>5. CASE end = "done"
  <2> DEFINE m == [p EXCEPT !.b.depth = 0]
  <2>1. q = IF p.b.pending THEN Realtime!RequestResponse(m) ELSE m
    BY <1>5 DEF Realtime!OrphanDone, Realtime!EndOfTurn
  <2>2. /\ m \in Pairs /\ m.s = p.s /\ Kept(p, m) /\ m.b.active = p.b.active
        /\ m.b.pending = p.b.pending /\ m.b.watchdog = p.b.watchdog
    BY <1>1 DEF Pairs, Bridges, Kept
  <2> HIDE DEF m
  <2>3. Slotted(m)
    BY <1>1, <2>2, SlotFields DEF Slotted, Kept
  <2>4. CASE p.b.socket = "open"
    <3>1. Between(m)
      BY <2>2, <2>3, <2>4 DEF Between, Slotted, Kept
    <3>2. Settled(Realtime!RequestResponse(m)) /\ Kept(m, Realtime!RequestResponse(m))
      BY <3>1, RequestIsSound
    <3>3. ~p.b.pending => Settled(m)
      BY <2>2, <2>3, <2>4 DEF Settled, Slotted, RealtimeSound, SetupIsQuiet, AsksAgain, Kept
    <3> QED BY <2>1, <2>2, <3>2, <3>3 DEF Kept
  <2>5. CASE p.b.socket # "open"
    <3>1. Settled(Realtime!RequestResponse(m)) /\ Kept(m, Realtime!RequestResponse(m))
      BY <2>2, <2>5, GoneAsks DEF Apart, Kept
    <3>2. Settled(m)
      BY <1>2, <2>2, <2>5 DEF Apart
    <3> QED BY <2>1, <2>2, <3>1, <3>2 DEF Kept
  <2> QED BY <2>4, <2>5
<1>6. CASE end \in {"mute", "wait"} /\ Realtime!Open(p.b)
  <2> DEFINE s == Realtime!Complains(p.s, "error")
             m == [p EXCEPT !.s = s]
  <2>1. q = Realtime!ResponseDone(m, end)
    BY <1>6 DEF Realtime!OrphanDone
  <2>2. s \in Sessions /\ SlotHeld(p.b, s) /\ SetupFirst(p.b, s)
    BY <1>1, ComplaintIsSound
  <2> HIDE DEF s
  <2>3. m \in Pairs /\ m.b = p.b /\ m.s = s
    BY <1>1, <2>2 DEF Pairs
  <2> HIDE DEF m
  <2>4. Between(m) /\ Kept(p, m)
    BY <1>6, <2>2, <2>3 DEF Between, Kept, Realtime!Open
  <2> QED BY <1>1, <2>1, <2>3, <2>4, ResponseDoneIsSound DEF Kept
<1>7. CASE end \in {"mute", "wait"} /\ ~Realtime!Open(p.b)
  <2> DEFINE m == [p EXCEPT !.b.depth = @ + 1]
  <2>1. q = m \/ q = Realtime!Sleep(m)
    BY <1>7 DEF Realtime!OrphanDone
  <2>2. /\ m \in Pairs /\ m.s = p.s /\ Kept(p, m) /\ m.b.active = p.b.active
        /\ m.b.pending = p.b.pending /\ m.b.watchdog = p.b.watchdog
    BY <1>1, <1>3 DEF Pairs, Bridges, Kept
  <2> HIDE DEF m
  <2>3. Settled(m)
    BY <1>2, <1>7, <2>2 DEF Apart, Realtime!Open
  <2>4. Slotted(m)
    BY <2>3 DEF Settled, Slotted, RealtimeSound
  <2> QED BY <2>1, <2>2, <2>3, <2>4, SleepIsSound DEF Kept
<1> QED BY <1>4, <1>5, <1>6, <1>7 DEF Realtime!ResponseEnds

\* A message of the replaced socket, with what it crosses marked already
Heard(p, msg) ==
    /\ Settled(p)
    /\ msg \in Messages \ {"session.updated"}
    /\ p.b.active /\ msg \notin {"speech started", "speech stopped"} => p.b.crossed
    /\ p.b.socket # "open" /\ p.b.pending => p.b.crossed

\* With an open socket it is handled as one of the current session's own.
LEMMA HeardIsTaken ==
    ASSUME NEW p, NEW msg, Heard(p, msg), msg \notin Realtime!ResponseEnds, p.b.socket = "open"
    PROVE  Taken(p, msg)
<1>1. p \in Pairs /\ RealtimeSound(p.b, p.s)
  BY DEF Heard, Settled
<1>2. Calm(p.b) /\ AsksAgain(p.b) /\ SetupFirst(p.b, p.s) /\ SlotHeld(p.b, p.s)
  BY <1>1 DEF RealtimeSound, SetupIsQuiet, Calm
<1>3. ASSUME ~p.s.errors, ~p.b.crossed
      PROVE  /\ msg \in {"error", "no active response"} => ~p.b.active
             /\ \A i \in DOMAIN p.s.out : p.s.out[i] \notin {"error", "no active response"}
  BY <1>2, <1>3 DEF SlotHeld, Heard
<1> QED BY <1>1, <1>2, <1>3 DEF Taken, Heard

\* With none, what it asks for is sent to nobody.
LEMMA GoneHears ==
    ASSUME NEW p, NEW msg, Heard(p, msg), msg \notin Realtime!ResponseEnds, p.b.socket # "open"
    PROVE  Settled(Realtime!Handled(p, msg)) /\ Kept(p, Realtime!Handled(p, msg))
<1> SUFFICES ASSUME NEW q, q = Realtime!Handled(p, msg)
             PROVE  Settled(q) /\ Kept(p, q)
  OBVIOUS
<1>1. /\ p \in Pairs /\ p.b \in Bridges /\ p.s \in Sessions /\ Settled(p)
      /\ p.b.socket = "none" => ~p.b.watchdog
  BY DEF Heard, Settled, Pairs, RealtimeSound, SetupIsQuiet
<1>2. ASSUME NEW m \in Pairs, Kept(p, m), m.b.pending => Waits(m.b),
             m.b.watchdog => p.b.watchdog
      PROVE  Settled(m)
  <2>1. m.b \in Bridges /\ m.b.socket = p.b.socket
    BY <1>2 DEF Pairs, Kept
  <2> QED BY <1>1, <1>2, <2>1, GoneIsSound DEF Settled
<1>3. CASE msg = "speech started"
  <2> DEFINE m == [p EXCEPT !.b.input = TRUE, !.b.depth = 0]
  <2>1. q = m \/ q = p
    BY <1>3 DEF Realtime!Handled, Realtime!ResponseEnds
  <2>2. m \in Pairs /\ Kept(p, m) /\ m.b.input = TRUE /\ m.b.watchdog = p.b.watchdog
    BY <1>1 DEF Pairs, Bridges, Kept
  <2> HIDE DEF m
  <2>3. Settled(m)
    BY <1>2, <2>2 DEF Waits
  <2> QED BY <1>1, <2>1, <2>2, <2>3 DEF Kept
<1>4. CASE msg = "speech stopped"
  <2> DEFINE m == [p EXCEPT !.b.input = FALSE]
  <2>1. q = Realtime!RequestResponse(m) \/ q = p
    BY <1>4 DEF Realtime!Handled, Realtime!ResponseEnds
  <2>2. m \in Pairs /\ Kept(p, m) /\ m.b.watchdog = p.b.watchdog
    BY <1>1 DEF Pairs, Bridges, Kept
  <2> HIDE DEF m
  <2>3. Settled(Realtime!RequestResponse(m)) /\ Kept(m, Realtime!RequestResponse(m))
    BY <1>1, <2>2, GoneAsks DEF Kept
  <2> QED BY <1>1, <2>1, <2>2, <2>3 DEF Kept
<1>5. CASE msg = "no active response" /\ p.b.cancelling
  <2> DEFINE m == [p EXCEPT !.b.active = FALSE, !.b.cancelling = FALSE]
             n == [m EXCEPT !.b.pending = FALSE]
  <2>1. q = IF p.b.pending THEN Realtime!RequestResponse(n) ELSE m
    BY <1>5 DEF Realtime!Handled, Realtime!TooLateToCancel, Realtime!ResponseEnds
  <2>2. m \in Pairs /\ Kept(p, m) /\ m.b.pending = p.b.pending /\ m.b.watchdog = p.b.watchdog
    BY <1>1 DEF Pairs, Bridges, Kept
  <2> HIDE DEF m
  <2>3. n \in Pairs /\ Kept(p, n) /\ n.b.watchdog = p.b.watchdog
    BY <2>2 DEF Pairs, Bridges, Kept
  <2> HIDE DEF n
  <2>4. Settled(Realtime!RequestResponse(n)) /\ Kept(n, Realtime!RequestResponse(n))
    BY <1>1, <2>3, GoneAsks DEF Kept
  <2>5. ~p.b.pending => Settled(m)
    BY <1>2, <2>2
  <2> QED BY <2>1, <2>2, <2>3, <2>4, <2>5 DEF Kept
<1>6. CASE /\ msg \notin {"speech started", "speech stopped"} \cup Realtime!ResponseEnds
           /\ ~(msg = "no active response" /\ p.b.cancelling)
  <2> DEFINE m == Realtime!Failed(p)
  <2>1. q = m
    BY <1>6 DEF Realtime!Handled
  <2>2. m \in Pairs /\ Kept(p, m) /\ m.b.pending = FALSE /\ m.b.watchdog = FALSE
    BY <1>1 DEF Pairs, Bridges, Kept, Realtime!Failed
  <2> HIDE DEF m
  <2>3. Settled(m)
    BY <1>2, <2>2
  <2> QED BY <2>1, <2>2, <2>3
<1> QED BY <1>3, <1>4, <1>5, <1>6

\* Whatever it says, a response that is put off still waits for something.
LEMMA OrphanHandledIsSound ==
    ASSUME NEW p, NEW msg, Heard(p, msg)
    PROVE  Settled(Realtime!OrphanHandled(p, msg)) /\ Kept(p, Realtime!OrphanHandled(p, msg))
<1>1. CASE msg \notin Realtime!ResponseEnds
  <2>1. Realtime!OrphanHandled(p, msg) = Realtime!Handled(p, msg)
    BY <1>1 DEF Realtime!OrphanHandled
  <2> QED BY <1>1, <2>1, HeardIsTaken, HandledIsSound, GoneHears
<1>2. CASE msg \in Realtime!ResponseEnds
  <2> DEFINE b == Realtime!Released(p.b)
             m == [p EXCEPT !.b = b]
             mode == IF p.b.nextMode = "none" THEN p.b.mode ELSE p.b.nextMode
  <2>1. \/ Realtime!OrphanHandled(p, msg) = Realtime!OrphanDone(m, msg)
        \/ Realtime!OrphanHandled(p, msg) = m /\ p.b.socket # "open"
    BY <1>2 DEF Realtime!OrphanHandled, Realtime!Open
  <2>2. /\ p \in Pairs /\ p.b \in Bridges /\ p.s \in Sessions
        /\ SlotHeld(p.b, p.s) /\ SetupFirst(p.b, p.s) /\ SetupIsQuiet(p.b)
    BY DEF Heard, Settled, Pairs, RealtimeSound
  <2>3. p.b.active => p.b.crossed
    BY <1>2 DEF Heard, Realtime!ResponseEnds
  <2>4. mode \in {"voice", "text"}
    BY <2>2 DEF Bridges
  <2>5. b = [p.b EXCEPT !.active = FALSE, !.cancelling = FALSE, !.watchdog = FALSE,
                        !.mode = mode, !.nextMode = "none"]
    BY DEF Realtime!Released
  <2> HIDE DEF mode, b
  <2>6. /\ b \in Bridges /\ b.socket = p.b.socket /\ b.setup = p.b.setup
        /\ b.queue = p.b.queue /\ b.overtaken = p.b.overtaken
        /\ b.waiting = p.b.waiting /\ b.timer = p.b.timer
        /\ b.manual = p.b.manual /\ b.late = p.b.late
        /\ b.crossed = p.b.crossed /\ b.orphan = p.b.orphan /\ b.pending = p.b.pending
        /\ b.active = FALSE /\ b.watchdog = FALSE
        /\ b.input = p.b.input /\ b.capped = p.b.capped /\ b.hushed = p.b.hushed
    BY <2>2, <2>4, <2>5 DEF Bridges
  <2> HIDE DEF b
  <2>7. m \in Pairs /\ m.s = p.s /\ m.b = b
    BY <2>2, <2>6 DEF Pairs
  <2> HIDE DEF m
  <2>8. Kept(p, m)
    BY <2>6, <2>7 DEF Kept
  <2>9. SlotHeld(m.b, m.s) /\ SetupFirst(m.b, m.s)
    <3>1. CASE p.b.crossed
      BY <2>2, <2>6, <2>7, <3>1 DEF SlotHeld, SetupFirst
    <3>2. CASE ~p.b.crossed
      <4>1. p.b.active = FALSE
        BY <2>2, <2>3, <3>2 DEF Bridges
      <4>2. SlotHeld(b, p.s) /\ SetupFirst(b, p.s)
        BY <2>2, <2>6, <4>1, SlotFields
      <4> QED BY <2>7, <4>2
    <3> QED BY <3>1, <3>2
  <2>10. Calm(m.b)
    BY <2>2, <2>3, <2>6, <2>7 DEF SetupIsQuiet, Calm, Waits
  <2>11. Apart(m)
    BY <2>6, <2>7, <2>9, <2>10 DEF Apart, Slotted, Heard
  <2>12. p.b.socket # "open" => Settled(m)
    <3> SUFFICES ASSUME p.b.socket # "open"
                 PROVE  Settled(m)
      OBVIOUS
    <3>1. m.b \in Bridges /\ m.b.socket # "open" /\ ~m.b.watchdog /\ (m.b.pending => Waits(m.b))
      BY <2>6, <2>7 DEF Heard, Waits
    <3> QED BY <2>7, <3>1, GoneIsSound DEF Settled
  <2> QED BY <1>2, <2>1, <2>8, <2>11, <2>12, OrphanDoneIsSound DEF Kept
<1> QED BY <1>1, <1>2

\* What is said on the replaced socket is handled as if on the current one.
LEMMA OrphanReceivesMoves ==
    ASSUME Sound, Realtime!OrphanReceives
    PROVE  Moved(Realtime!Now)
<1> DEFINE now == Realtime!Now
           msg == Head(rt.orphan.s.out)
           settles == msg \in {"session.updated", "error", "no active response"}
           setup == IF settles THEN "no" ELSE rt.orphan.setup
           crossed == rt.crossed \/ Realtime!Crosses(rt, msg)
           p == [now EXCEPT !.b.orphan.s.out = Tail(@),
                            !.b.orphan.setup = IF settles THEN "no" ELSE @]
           c == [p EXCEPT !.b.crossed = @ \/ Realtime!Crosses(rt, msg)]
           q == Realtime!OrphanHandled(c, msg)
           failed == [q EXCEPT !.b = Realtime!ScheduleReconnect(@)]
           told1 == Realtime!AnnounceOpenQuestions(p)
<1>1. /\ now \in Pairs /\ now.b = rt /\ now.s = session /\ rt \in Bridges /\ session \in Sessions
      /\ Settled(now) /\ Slotted(now) /\ questions \in [Tasks -> Nat]
      /\ rt.orphan \in Orphans /\ rt.orphan.s \in Sessions
      /\ rt.orphan.s.out \in Seq(Messages) /\ rt.orphan.s.out # <<>>
  BY NowIsSettled DEF Sound, VoiceTyped, Sessions, Bridges, Orphans, Realtime!OrphanReceives
<1>2. \/ msg = "session.updated" /\ Realtime!FlushBriefs(told1)
      \/ msg = "session.updated" /\ Realtime!Becomes(p)
      \/ /\ msg # "session.updated"
         /\ \/ Realtime!Becomes(q)
            \/ Realtime!Becomes(failed) /\ rt.orphan.setup = "retry"
  BY DEF Realtime!OrphanReceives
<1>3. Tail(rt.orphan.s.out) \in Seq(Messages) /\ msg \in Messages
  BY <1>1, TailElements
<1>4. setup \in Waiters
  BY <1>1, NoWaiter DEF Orphans
<1> HIDE DEF now
<1>5. /\ p \in Pairs /\ p.s = session /\ AskFields(rt, p.b) /\ p.b.active = rt.active
      /\ p.b.socket = rt.socket /\ p.b.setup = rt.setup
      /\ p.b.queue = rt.queue /\ p.b.overtaken = rt.overtaken
      /\ p.b.waiting = rt.waiting /\ p.b.timer = rt.timer /\ p.b.manual = rt.manual
      /\ p.b.late = rt.late /\ p.b.orphan.setup = setup
  <2> DEFINE s == [rt.orphan.s EXCEPT !.out = Tail(@)]
             o == [rt.orphan EXCEPT !.s = s]
             b == [rt EXCEPT !.orphan = o]
             m == [now EXCEPT !.b = b]
             o2 == [o EXCEPT !.setup = setup]
             b2 == [b EXCEPT !.orphan = o2]
  <2>1. p = [m EXCEPT !.b.orphan.setup = IF settles THEN "no" ELSE @]
    BY <1>1
  <2> HIDE DEF p
  <2>2. s \in Sessions
    BY <1>1, <1>3 DEF Sessions
  <2> HIDE DEF s
  <2>3. o \in Orphans /\ o.setup = rt.orphan.setup
    BY <1>1, <2>2 DEF Orphans
  <2> HIDE DEF o
  <2>4. b \in Bridges /\ b.orphan = o
    BY <1>1, <2>3 DEF Bridges
  <2>5. /\ AskFields(rt, b) /\ b.active = rt.active
        /\ b.socket = rt.socket /\ b.setup = rt.setup
        /\ b.queue = rt.queue /\ b.overtaken = rt.overtaken
        /\ b.waiting = rt.waiting /\ b.timer = rt.timer /\ b.manual = rt.manual
        /\ b.late = rt.late
    BY <1>1, <2>3 DEF Bridges, AskFields
  <2> HIDE DEF b
  <2>6. m \in Pairs /\ m.b = b /\ m.s = session
    BY <1>1, <2>4 DEF Pairs
  <2> HIDE DEF m
  <2>7. p = [m EXCEPT !.b = b2]
    BY <2>1, <2>3, <2>4, <2>6
  <2> HIDE DEF setup
  <2>8. o2 \in Orphans /\ o2.setup = setup
    BY <1>4, <2>3 DEF Orphans
  <2> HIDE DEF o2
  <2>9. b2 \in Bridges /\ AskFields(b, b2) /\ b2.active = b.active
        /\ b2.socket = b.socket /\ b2.setup = b.setup
        /\ b2.queue = b.queue /\ b2.overtaken = b.overtaken
        /\ b2.waiting = b.waiting /\ b2.timer = b.timer /\ b2.manual = b.manual
        /\ b2.late = b.late /\ b2.orphan = o2 /\ b2.watchdog = b.watchdog
    BY <2>4, <2>8 DEF Bridges, AskFields
  <2> HIDE DEF b2
  <2>10. p \in Pairs /\ p.b = b2 /\ p.s = session
    BY <2>6, <2>7, <2>9 DEF Pairs
  <2>11. AskFields(rt, b2)
    BY <2>5, <2>9 DEF AskFields
  <2> QED BY <2>5, <2>8, <2>9, <2>10, <2>11
<1> HIDE DEF p
<1>6. Settled(p)
  <2>1. SlotHeld(rt, session) /\ SetupFirst(rt, session)
    BY <1>1 DEF Slotted
  <2>2. SlotHeld(p.b, session) /\ SetupFirst(p.b, session)
    BY <1>5, <2>1, SlotFields DEF AskFields
  <2>3. Slotted(p)
    BY <1>5, <2>2 DEF Slotted
  <2> QED BY <1>1, <1>5, <2>3, SettledFields
<1>7. Follows(now, p)
  BY <1>1, <1>5 DEF Follows, RealtimeRetired
<1>8. crossed \in BOOLEAN
  BY <1>1 DEF Bridges
<1>9. /\ c \in Pairs /\ c.s = p.s /\ (c.b.crossed <=> crossed) /\ c.b.active = p.b.active
      /\ c.b.pending = p.b.pending /\ c.b.input = p.b.input /\ c.b.watchdog = p.b.watchdog
      /\ c.b.tools = p.b.tools /\ c.b.oldTools = p.b.oldTools
      /\ c.b.capped = p.b.capped /\ c.b.hushed = p.b.hushed
      /\ c.b.socket = p.b.socket /\ c.b.setup = p.b.setup
      /\ c.b.queue = p.b.queue /\ c.b.overtaken = p.b.overtaken
      /\ c.b.waiting = p.b.waiting /\ c.b.timer = p.b.timer /\ c.b.manual = p.b.manual
      /\ c.b.late = p.b.late /\ c.b.orphan = p.b.orphan
  <2> DEFINE b == [p.b EXCEPT !.crossed = crossed]
  <2>1. p.b \in Bridges /\ p.b.crossed = rt.crossed
    BY <1>5 DEF Pairs, AskFields
  <2>2. c = [p EXCEPT !.b = b]
    BY <1>5, <2>1 DEF Pairs, Bridges
  <2> HIDE DEF crossed
  <2>3. /\ b \in Bridges /\ b.crossed = crossed /\ b.active = p.b.active
        /\ b.pending = p.b.pending /\ b.input = p.b.input /\ b.watchdog = p.b.watchdog
        /\ b.tools = p.b.tools /\ b.oldTools = p.b.oldTools
        /\ b.capped = p.b.capped /\ b.hushed = p.b.hushed
        /\ b.socket = p.b.socket /\ b.setup = p.b.setup
        /\ b.queue = p.b.queue /\ b.overtaken = p.b.overtaken
        /\ b.waiting = p.b.waiting /\ b.timer = p.b.timer /\ b.manual = p.b.manual
        /\ b.late = p.b.late /\ b.orphan = p.b.orphan
    BY <1>8, <2>1 DEF Bridges
  <2> HIDE DEF b, c
  <2> QED BY <1>5, <2>2, <2>3 DEF Pairs
<1>10. p.b.crossed => c.b.crossed
  BY <1>5, <1>9 DEF AskFields
<1> HIDE DEF c
<1>11. Settled(c)
  <2>1. SlotHeld(c.b, c.s) /\ SetupFirst(c.b, c.s)
    BY <1>6, <1>9, <1>10 DEF Settled, RealtimeSound, SlotHeld, SetupFirst
  <2>2. SetupIsQuiet(c.b) /\ AsksAgain(c.b)
    BY <1>6, <1>9, <1>10 DEF Settled, RealtimeSound, SetupIsQuiet, AsksAgain, Waits
  <2> QED BY <1>9, <2>1, <2>2 DEF Settled, RealtimeSound
<1>12. msg # "session.updated" => Heard(c, msg)
  <2>1. p.b.active = rt.active /\ p.b.pending = rt.pending /\ p.b.socket = rt.socket
    BY <1>5 DEF AskFields
  <2> QED BY <1>3, <1>9, <1>11, <2>1 DEF Heard, Realtime!Crosses, Realtime!Open
<1>13. Follows(now, c)
  BY <1>7, <1>9 DEF Follows, RealtimeRetired
<1>14. CASE msg = "session.updated" /\ Realtime!FlushBriefs(told1)
  <2>1. Settled(told1) /\ Kept(p, told1)
    BY <1>1, <1>6, AnnounceIsSound
  <2> HIDE DEF told1
  <2>2. Moved(told1)
    BY <1>14, <2>1, FlushIsSound
  <2>3. Moved(p)
    BY <2>1, <2>2, KeptMoves
  <2> QED BY <1>7, <2>3, FollowsMoves DEF now
<1>15. CASE msg = "session.updated" /\ Realtime!Becomes(p)
  BY <1>6, <1>7, <1>15, BecomesIsSound, FollowsMoves DEF now
<1>16. CASE msg # "session.updated" /\ Realtime!Becomes(q)
  <2>1. Settled(q) /\ Kept(c, q)
    BY <1>12, <1>16, OrphanHandledIsSound
  <2> HIDE DEF q
  <2>2. Moved(c)
    BY <1>16, <2>1, BecomesIsSound, KeptMoves
  <2> QED BY <1>13, <2>2, FollowsMoves DEF now
<1>17. CASE msg # "session.updated" /\ Realtime!Becomes(failed) /\ rt.orphan.setup = "retry"
  <2>1. Settled(q) /\ Kept(c, q)
    BY <1>12, <1>17, OrphanHandledIsSound
  <2> HIDE DEF q
  <2>2. q.b \in Bridges /\ Slotted(q)
    BY <2>1 DEF Settled, Slotted, RealtimeSound, Pairs
  <2> DEFINE b == Realtime!ScheduleReconnect(q.b)
  <2>3. /\ b \in Bridges /\ AskFields(q.b, b) /\ b.socket = q.b.socket /\ b.setup = q.b.setup
        /\ b.queue = q.b.queue /\ b.overtaken = q.b.overtaken /\ b.late = q.b.late
        /\ b.waiting = q.b.waiting /\ b.manual = q.b.manual /\ b.orphan = q.b.orphan
        /\ q.b.manual => b.timer = q.b.timer
    BY <2>2, ScheduleTyped DEF AskFields
  <2> HIDE DEF b
  <2>4. failed \in Pairs /\ failed.b = b /\ failed.s = q.s
    BY <2>1, <2>3 DEF Settled, Pairs, b
  <2> HIDE DEF failed
  <2>5. Slotted(failed)
    BY <2>2, <2>3, <2>4, SlotFields DEF Slotted, AskFields
  <2>6. Settled(failed)
    BY <2>1, <2>3, <2>4, <2>5, SettledFields
  <2>7. Follows(now, failed)
    <3>1. RealtimeRetired(rt) => rt.manual /\ RealtimeRetired(c.b)
      BY <1>1, <1>13, <1>17 DEF RealtimeRetired, Follows
    <3>2. RealtimeRetired(c.b) /\ c.b.manual => RealtimeRetired(b)
      BY <2>1, <2>3 DEF RealtimeRetired, Kept
    <3>3. c.b.manual = rt.manual
      BY <1>5, <1>9
    <3> QED BY <1>1, <1>13, <2>1, <2>3, <2>4, <3>1, <3>2, <3>3 DEF Follows, Kept
  <2> QED BY <1>17, <2>6, <2>7, BecomesIsSound, FollowsMoves DEF now
<1> QED BY <1>2, <1>14, <1>15, <1>16, <1>17 DEF now

-----------------------------------------------------------------------------
(* The cascade bridge's helpers.                                           *)

Good(b) == b \in Cascades /\ CascadeSound(b)

\* What a turn does to the bridge leaves its connection and its briefs alone.
Same(b, c) ==
    /\ c.scribe = b.scribe /\ c.opener = b.opener /\ c.connected = b.connected
    /\ c.timer = b.timer /\ c.queue = b.queue

\* Of the turn that is aborted only a tool goes on.
LEMMA AbortIsGood ==
    ASSUME NEW b, Good(b)
    PROVE  LET c == Cascade!Abort(b)
           IN  Good(c) /\ Same(b, c) /\ c.turn = NoTurn /\ c.calls = b.calls
<1> SUFFICES ASSUME NEW c, c = Cascade!Abort(b)
             PROVE  Good(c) /\ Same(b, c) /\ c.turn = NoTurn /\ c.calls = b.calls
  OBVIOUS
<1>1. b \in Cascades /\ b.turn \in Turns \cup {NoTurn} /\ b.calls \subseteq Turns
  BY DEF Good, Cascades
<1>2. CASE b.turn = NoTurn
  BY <1>2 DEF Cascade!Abort, Same
<1>3. CASE b.turn # NoTurn
  <2> DEFINE v == IF b.at[b.turn] = "tool" THEN "tool" ELSE "none"
             at == [b.at EXCEPT ![b.turn] = v]
             d == [b EXCEPT !.turn = NoTurn, !.at = at]
  <2>1. c = d
    BY <1>3 DEF Cascade!Abort
  <2>2. at \in [Turns -> {"none", "stream", "refused", "tool", "speech"}]
    BY <1>1 DEF Cascades
  <2>3. \A t \in Turns : IF t = b.turn THEN at[t] \in {"tool", "none"}
                                            /\ (b.at[t] = "tool" => at[t] = "tool")
                         ELSE at[t] = b.at[t]
    BY <1>1 DEF Cascades
  <2> HIDE DEF at
  <2>4. /\ d \in Cascades /\ d.turn = NoTurn /\ d.at = at /\ d.calls = b.calls
        /\ d.scribe = b.scribe /\ d.opener = b.opener /\ d.connected = b.connected
        /\ d.timer = b.timer /\ d.queue = b.queue
    BY <1>1, <2>2 DEF Cascades
  <2> HIDE DEF d
  <2>5. CascadeSound(d)
    BY <1>1, <2>3, <2>4 DEF CascadeSound, Good
  <2> QED BY <2>1, <2>4, <2>5 DEF Good, Same
<1> QED BY <1>2, <1>3

\* Which names are free depends on the turns alone.
LEMMA FreeTurnsKept ==
    ASSUME NEW b \in Cascades, NEW c \in Cascades, c.turn = b.turn, c.at = b.at
    PROVE  Cascade!FreeTurns(Cascade!Abort(c)) = Cascade!FreeTurns(Cascade!Abort(b))
<1>1. CASE b.turn = NoTurn
  BY <1>1 DEF Cascade!FreeTurns, Cascade!Abort
<1>2. CASE b.turn # NoTurn
  <2> DEFINE v == IF b.at[b.turn] = "tool" THEN "tool" ELSE "none"
             at == [b.at EXCEPT ![b.turn] = v]
  <2>1. Cascade!Abort(b) = [b EXCEPT !.turn = NoTurn, !.at = at]
    BY <1>2 DEF Cascade!Abort
  <2>2. Cascade!Abort(c) = [c EXCEPT !.turn = NoTurn, !.at = at]
    BY <1>2 DEF Cascade!Abort
  <2> HIDE DEF at
  <2>3. [b EXCEPT !.turn = NoTurn, !.at = at].at = at /\ [c EXCEPT !.turn = NoTurn, !.at = at].at = at
    BY DEF Cascades
  <2> QED BY <2>1, <2>2, <2>3 DEF Cascade!FreeTurns
<1> QED BY <1>1, <1>2

\* A name of a turn gets a new state, with no call left open but that of a tool.
LEMMA PlacedIsGood ==
    ASSUME NEW b, Good(b), NEW t \in Turns, NEW a \in {"none", "stream", "refused", "speech"},
           t \notin b.calls, b.turn = t
    PROVE  LET c == [b EXCEPT !.at[t] = a] IN Good(c) /\ Same(b, c) /\ c.calls = b.calls /\ c.turn = t
<1> DEFINE at == [b.at EXCEPT ![t] = a]
           c == [b EXCEPT !.at = at]
<1>1. b \in Cascades /\ b.calls \subseteq Turns
  BY DEF Good, Cascades
<1>2. /\ at \in [Turns -> {"none", "stream", "refused", "tool", "speech"}]
      /\ \A u \in Turns : u # t => at[u] = b.at[u]
  BY <1>1 DEF Cascades
<1> HIDE DEF at
<1>3. /\ c \in Cascades /\ c.turn = b.turn /\ c.at = at /\ c.calls = b.calls
      /\ c.scribe = b.scribe /\ c.opener = b.opener /\ c.connected = b.connected
      /\ c.timer = b.timer /\ c.queue = b.queue
  BY <1>1, <1>2 DEF Cascades
<1> HIDE DEF c
<1>4. CascadeSound(c)
  BY <1>1, <1>2, <1>3 DEF CascadeSound, Good
<1>5. Good(c) /\ Same(b, c) /\ c.calls = b.calls /\ c.turn = t
  BY <1>3, <1>4 DEF Good, Same
<1> QED BY <1>5 DEF c, at

\* #streamLlmRound of the current turn
LEMMA AskIsGood ==
    ASSUME NEW b, Good(b), NEW t \in Turns, t \notin b.calls, b.turn = t
    PROVE  LET c == Cascade!Ask(b, t) IN Good(c) /\ Same(b, c)
<1>1. CASE b.calls = {}
  BY <1>1, PlacedIsGood DEF Cascade!Ask
<1>2. CASE b.calls # {}
  BY <1>2, PlacedIsGood DEF Cascade!Ask
<1> QED BY <1>1, <1>2

\* #startTurn aborts the turn before and takes a name that is free.
LEMMA StartTurnIsGood ==
    ASSUME NEW b, Good(b), Cascade!FreeTurns(Cascade!Abort(b)) # {}
    PROVE  LET c == Cascade!StartTurn(b) IN Good(c) /\ Same(b, c)
<1> DEFINE a == Cascade!Abort(b)
           t == CHOOSE x \in Cascade!FreeTurns(a) : TRUE
           m == [a EXCEPT !.turn = t, !.rounds = 0]
           c == Cascade!Ask(m, t)
<1>1. Cascade!StartTurn(b) = c
  BY DEF Cascade!StartTurn
<1>2. Good(a) /\ Same(b, a) /\ a.turn = NoTurn
  BY AbortIsGood
<1>3. t \in Turns /\ a.at[t] = "none"
  BY DEF Cascade!FreeTurns
<1> HIDE DEF a, t
<1>4. /\ m \in Cascades /\ m.turn = t /\ m.at = a.at /\ m.calls = a.calls
      /\ m.scribe = a.scribe /\ m.opener = a.opener /\ m.connected = a.connected
      /\ m.timer = a.timer /\ m.queue = a.queue
  BY <1>2, <1>3 DEF Good, Cascades
<1> HIDE DEF m
<1>5. CascadeSound(m)
  BY <1>2, <1>4, EnginesAssumption DEF CascadeSound, Good
<1>6. t \notin m.calls
  BY <1>2, <1>3, <1>4 DEF CascadeSound, Good
<1>7. Good(c) /\ Same(m, c)
  BY <1>3, <1>4, <1>5, <1>6, AskIsGood DEF Good
<1> HIDE DEF c
<1> QED BY <1>1, <1>2, <1>4, <1>7 DEF Same

\* The end of the current turn
LEMMA EndTurnIsGood ==
    ASSUME NEW b, Good(b), NEW t \in Turns, t \notin b.calls, b.turn = t
    PROVE  LET c == Cascade!EndTurn(b, t) IN Good(c) /\ Same(b, c)
<1> DEFINE m == [b EXCEPT !.at[t] = "none"]
           c == [m EXCEPT !.turn = NoTurn]
<1>1. Good(m) /\ Same(b, m)
  BY PlacedIsGood
<1>2. \A u \in Turns : m.at[u] \notin {"stream", "refused", "speech"}
  <2>1. m.at[t] = "none" /\ m.turn = t
    BY PlacedIsGood DEF Good, Cascades
  <2> HIDE DEF m
  <2> QED BY <1>1, <2>1 DEF Good, CascadeSound
<1>3. Cascade!EndTurn(b, t) = c
  BY DEF Cascade!EndTurn, Good, Cascades
<1> HIDE DEF m
<1>4. /\ c \in Cascades /\ c.at = m.at /\ c.calls = m.calls
      /\ c.scribe = m.scribe /\ c.opener = m.opener /\ c.connected = m.connected
      /\ c.timer = m.timer /\ c.queue = m.queue
  BY <1>1 DEF Good, Cascades
<1> HIDE DEF c
<1>5. CascadeSound(c)
  BY <1>1, <1>2, <1>4 DEF CascadeSound, Good
<1> QED BY <1>1, <1>3, <1>4, <1>5 DEF Good, Same

\* Closing the recogniser's socket leaves its opener to a late rejection.
LEMMA CloseScribeIsGood ==
    ASSUME NEW b, Good(b)
    PROVE  LET c == Cascade!CloseScribe(b)
           IN  /\ Good(c) /\ c.scribe = "none" /\ c.opener = "none"
               /\ c.connected = b.connected /\ c.timer = b.timer /\ c.queue = b.queue
               /\ c.turn = b.turn /\ c.at = b.at
<1> SUFFICES ASSUME NEW c, c = Cascade!CloseScribe(b)
             PROVE  /\ Good(c) /\ c.scribe = "none" /\ c.opener = "none"
                    /\ c.connected = b.connected /\ c.timer = b.timer /\ c.queue = b.queue
                    /\ c.turn = b.turn /\ c.at = b.at
  OBVIOUS
<1> DEFINE late == IF b.opener = "none" THEN b.late ELSE b.late \cup {b.opener}
           d == [b EXCEPT !.scribe = "none", !.opener = "none", !.late = late]
<1>1. b \in Cascades
  BY DEF Good
<1>2. late \in SUBSET {"connect", "retry", "engage"}
  BY <1>1 DEF Cascades
<1>3. c = d
  BY DEF Cascade!CloseScribe
<1> HIDE DEF late
<1>4. /\ d \in Cascades /\ d.scribe = "none" /\ d.opener = "none"
      /\ d.connected = b.connected /\ d.timer = b.timer /\ d.queue = b.queue
      /\ d.turn = b.turn /\ d.at = b.at /\ d.calls = b.calls
  BY <1>1, <1>2 DEF Cascades
<1> HIDE DEF d
<1>5. CascadeSound(d)
  BY <1>4 DEF CascadeSound, Good
<1> QED BY <1>3, <1>4, <1>5 DEF Good

\* #openScribe
LEMMA OpenScribeIsGood ==
    ASSUME NEW b, Good(b), NEW who \in {"connect", "retry", "engage"}
    PROVE  LET c == Cascade!OpenScribe(b, who)
           IN  /\ Good(c) /\ c.connected = b.connected /\ c.queue = b.queue
               /\ c.turn = b.turn /\ c.at = b.at
<1> SUFFICES ASSUME NEW c, c = Cascade!OpenScribe(b, who)
             PROVE  /\ Good(c) /\ c.connected = b.connected /\ c.queue = b.queue
                    /\ c.turn = b.turn /\ c.at = b.at
  OBVIOUS
<1>1. CASE b.scribe = "started"
  BY <1>1 DEF Cascade!OpenScribe
<1>2. CASE b.scribe # "started"
  <2> DEFINE m == Cascade!CloseScribe(b)
             d == [m EXCEPT !.scribe = "opening", !.opener = who, !.fatal = FALSE]
  <2>1. c = d
    BY <1>2 DEF Cascade!OpenScribe
  <2>2. Good(m) /\ m.connected = b.connected /\ m.queue = b.queue
        /\ m.turn = b.turn /\ m.at = b.at
    BY CloseScribeIsGood
  <2> HIDE DEF m
  <2>3. /\ d \in Cascades /\ d.opener = who /\ d.connected = m.connected /\ d.queue = m.queue
        /\ d.turn = m.turn /\ d.at = m.at /\ d.calls = m.calls
    <3>1. m \in Cascades
      BY <2>2, Zenon DEF Good
    <3>2. d \in Cascades
      BY <3>1 DEF Cascades
    <3>3. /\ d.opener = who /\ d.connected = m.connected /\ d.queue = m.queue
          /\ d.turn = m.turn /\ d.at = m.at /\ d.calls = m.calls
      BY <3>1 DEF Cascades
    <3> QED BY <3>2, <3>3
  <2> HIDE DEF d
  <2>4. CascadeSound(d)
    BY <2>2, <2>3 DEF CascadeSound, Good
  <2> QED BY <2>1, <2>2, <2>3, <2>4 DEF Good
<1> QED BY <1>1, <1>2

\* Fields that no turn is about
LEMMA FieldsAreGood ==
    ASSUME NEW b, Good(b), NEW c \in Cascades, c.turn = b.turn, c.at = b.at, c.calls = b.calls,
           c.scribe = "opening" => c.opener # "none"
    PROVE  Good(c)
BY DEF Good, CascadeSound

\* #scheduleReconnect of a bridge that is connected and awake
LEMMA ScheduleIsGood ==
    ASSUME NEW b, Good(b)
    PROVE  LET c == Cascade!ScheduleReconnect(b)
           IN  /\ Good(c) /\ c.scribe = b.scribe /\ c.opener = b.opener
               /\ c.connected = b.connected /\ c.queue = b.queue
               /\ c.turn = b.turn /\ c.at = b.at /\ c.calls = b.calls
               /\ ~b.connected => c.timer = b.timer
<1> SUFFICES ASSUME NEW c, c = Cascade!ScheduleReconnect(b)
             PROVE  /\ Good(c) /\ c.scribe = b.scribe /\ c.opener = b.opener
                    /\ c.connected = b.connected /\ c.queue = b.queue
                    /\ c.turn = b.turn /\ c.at = b.at /\ c.calls = b.calls
                    /\ ~b.connected => c.timer = b.timer
  OBVIOUS
<1>1. CASE b.manual \/ ~b.connected \/ ~b.engaged
  BY <1>1 DEF Cascade!ScheduleReconnect
<1>2. CASE ~(b.manual \/ ~b.connected \/ ~b.engaged)
  <2> DEFINE d == [b EXCEPT !.timer = TRUE]
  <2>1. c = d
    BY <1>2 DEF Cascade!ScheduleReconnect
  <2>2. /\ d \in Cascades /\ d.scribe = b.scribe /\ d.opener = b.opener
        /\ d.connected = b.connected /\ d.queue = b.queue
        /\ d.turn = b.turn /\ d.at = b.at /\ d.calls = b.calls
    BY DEF Good, Cascades
  <2> HIDE DEF d
  <2>3. Good(d)
    BY <2>2, FieldsAreGood DEF Good, CascadeSound
  <2> QED BY <1>2, <2>1, <2>2, <2>3
<1> QED BY <1>1, <1>2

\* What both going to sleep and disconnecting begin with
LEMMA AbortAndCloseIsGood ==
    ASSUME NEW b, Good(b)
    PROVE  LET c == Cascade!CloseScribe(Cascade!Abort(b))
           IN  /\ Good(c) /\ c.scribe = "none" /\ c.opener = "none"
               /\ c.connected = b.connected /\ c.timer = b.timer /\ c.queue = b.queue
<1> DEFINE a == Cascade!Abort(b)
<1>1. Good(a) /\ Same(b, a)
  BY AbortIsGood
<1> HIDE DEF a
<1>2. LET c == Cascade!CloseScribe(a)
      IN  /\ Good(c) /\ c.scribe = "none" /\ c.opener = "none"
          /\ c.connected = a.connected /\ c.timer = a.timer /\ c.queue = a.queue
  BY <1>1, CloseScribeIsGood
<1> QED BY <1>1, <1>2 DEF a, Same

\* The cascade's disconnect() keeps its state good and retires it.
LEMMA CascadeDisconnectedIsGood ==
    ASSUME NEW b, Good(b)
    PROVE  LET c == Cascade!Disconnected(b)
           IN  Good(c) /\ CascadeRetired(c) /\ c.queue = b.queue
<1> DEFINE m == Cascade!CloseScribe(Cascade!Abort(b))
           c == [m EXCEPT !.manual = TRUE, !.connected = FALSE, !.timer = FALSE]
<1>1. Good(m) /\ m.scribe = "none" /\ m.opener = "none" /\ m.queue = b.queue
  BY AbortAndCloseIsGood
<1>2. Cascade!Disconnected(b) = c
  BY DEF Cascade!Disconnected
<1> HIDE DEF m
<1>3. /\ c \in Cascades /\ c.scribe = "none" /\ c.opener = "none" /\ ~c.connected /\ ~c.timer
      /\ c.queue = m.queue /\ c.turn = m.turn /\ c.at = m.at /\ c.calls = m.calls
  BY <1>1 DEF Good, Cascades
<1> HIDE DEF c
<1>4. Good(c)
  BY <1>1, <1>3, FieldsAreGood
<1> QED BY <1>1, <1>2, <1>3, <1>4 DEF CascadeRetired

\* The cascade's sleep keeps its state good, and retirement too.
LEMMA CascadeSleepIsGood ==
    ASSUME NEW b, Good(b)
    PROVE  LET c == Cascade!Sleep(b)
           IN  /\ Good(c) /\ c.queue = b.queue
               /\ CascadeRetired(b) => CascadeRetired(c)
<1> DEFINE m == Cascade!CloseScribe(Cascade!Abort(b))
           c == [m EXCEPT !.engaged = FALSE, !.timer = FALSE]
<1>1. /\ Good(m) /\ m.scribe = "none" /\ m.opener = "none" /\ m.queue = b.queue
      /\ m.connected = b.connected
  BY AbortAndCloseIsGood
<1>2. Cascade!Sleep(b) = c
  BY DEF Cascade!Sleep
<1> HIDE DEF m
<1>3. /\ c \in Cascades /\ c.scribe = "none" /\ c.opener = "none" /\ ~c.timer
      /\ c.connected = m.connected
      /\ c.queue = m.queue /\ c.turn = m.turn /\ c.at = m.at /\ c.calls = m.calls
  BY <1>1 DEF Good, Cascades
<1> HIDE DEF c
<1>4. Good(c)
  BY <1>1, <1>3, FieldsAreGood
<1> QED BY <1>1, <1>2, <1>3, <1>4 DEF CascadeRetired

-----------------------------------------------------------------------------
(* The actions of the cascade bridge.                                      *)

CascadeBriefsMove(b) ==
    \/ UNCHANGED <<rows, queued, told>> /\ cc'.queue = b.queue
    \/ MarkDelivered(b.queue) /\ cc'.queue = NoBriefs

CascadeCommanded(b) == Good(cc') /\ CascadeBriefsMove(b)
CascadeMoved(b) ==
    /\ CascadeCommanded(b)
    /\ CascadeRetired(b) =>
         /\ CascadeRetired(cc') /\ cc'.queue = b.queue
         /\ UNCHANGED <<rows, queued, told>>

\* A step that touches the turns or the connection and no brief
LEMMA OnlyMoves ==
    ASSUME NEW b, NEW c, Good(c), c.queue = b.queue, Cascade!Only(c),
           CascadeRetired(b) => CascadeRetired(c)
    PROVE  CascadeMoved(b)
BY DEF CascadeMoved, CascadeCommanded, CascadeBriefsMove, Cascade!Only, Cascade!briefVars

\* Flushing the briefs is a command; without a connection it does nothing.
LEMMA CascadeFlushMoves ==
    ASSUME NEW b, Good(b), b.turn = cc.turn, b.at = cc.at, cc \in Cascades,
           Cascade!FlushBriefs(b)
    PROVE  CascadeCommanded(b) /\ (~b.connected => cc' = b)
<1>1. CASE b.connected /\ Cascade!Awake(b) /\ Cascade!Some(b.queue) # {}
  <2> DEFINE m == Cascade!StartTurn(b)
             d == [m EXCEPT !.queue = NoBriefs]
  <2>1. /\ Cascade!FreeTurns(Cascade!Abort(cc)) # {} /\ cc' = d /\ MarkDelivered(b.queue)
    BY <1>1 DEF Cascade!FlushBriefs, Cascade!CanStart, Cascade!MarkDelivered, MarkDelivered,
       Cascade!Some, Some, Cascade!NoBriefs, NoBriefs
  <2>2. Cascade!FreeTurns(Cascade!Abort(b)) # {}
    BY <2>1, FreeTurnsKept DEF Good
  <2>3. Good(m) /\ Same(b, m)
    BY <2>2, StartTurnIsGood
  <2> HIDE DEF m
  <2>4. NoBriefs \in [Tasks -> Nat]
    BY DEF NoBriefs
  <2>5. /\ d \in Cascades /\ d.queue = NoBriefs /\ d.scribe = m.scribe /\ d.opener = m.opener
        /\ d.turn = m.turn /\ d.at = m.at /\ d.calls = m.calls
    BY <2>3, <2>4 DEF Good, Cascades
  <2> HIDE DEF d
  <2>6. Good(d)
    BY <2>3, <2>5, FieldsAreGood DEF Good, CascadeSound
  <2> QED BY <1>1, <2>1, <2>5, <2>6 DEF CascadeCommanded, CascadeBriefsMove
<1>2. CASE ~(b.connected /\ Cascade!Awake(b) /\ Cascade!Some(b.queue) # {})
  BY <1>2 DEF Cascade!FlushBriefs, Cascade!Only, Cascade!briefVars, CascadeCommanded,
     CascadeBriefsMove
<1> QED BY <1>1, <1>2

\* A move from a state with the same turn and connection is a move from this one.
LEMMA SameMoves ==
    ASSUME NEW b, NEW c, Same(b, c), CascadeMoved(c)
    PROVE  CascadeMoved(b)
BY DEF Same, CascadeMoved, CascadeCommanded, CascadeBriefsMove, CascadeRetired

\* A turn that ends or fails gives the mode that was asked for meanwhile its place.
LEMMA ModeIsGood ==
    ASSUME NEW b, Good(b), NEW mode \in {"voice", "text"}
    PROVE  LET c == [b EXCEPT !.mode = mode, !.nextMode = "none"]
           IN  Good(c) /\ Same(b, c)
<1> DEFINE c == [b EXCEPT !.mode = mode, !.nextMode = "none"]
<1>1. /\ c \in Cascades /\ c.scribe = b.scribe /\ c.opener = b.opener
      /\ c.connected = b.connected /\ c.timer = b.timer /\ c.queue = b.queue
      /\ c.turn = b.turn /\ c.at = b.at /\ c.calls = b.calls
  BY DEF Good, Cascades
<1> HIDE DEF c
<1>2. Good(c) /\ Same(b, c)
  BY <1>1, FieldsAreGood DEF Same, Good, CascadeSound
<1> QED BY <1>2 DEF c

\* The current turn ends, and with it the mode it was made in.
LEMMA EndsMoves ==
    ASSUME NEW b, Good(b), NEW t \in Turns, t \notin b.calls, b.turn = t,
           Cascade!Only([Cascade!EndTurn(b, t) EXCEPT
                           !.mode = IF b.nextMode = "none" THEN @ ELSE b.nextMode,
                           !.nextMode = "none"])
    PROVE  CascadeMoved(b)
<1> DEFINE m == Cascade!EndTurn(b, t)
           mode == IF b.nextMode = "none" THEN m.mode ELSE b.nextMode
           c == [m EXCEPT !.mode = mode, !.nextMode = "none"]
<1>1. Good(m) /\ Same(b, m)
  BY EndTurnIsGood
<1>2. Cascade!Only(c)
  OBVIOUS
<1> HIDE DEF m
<1>3. mode \in {"voice", "text"}
  BY <1>1 DEF Good, Cascades
<1> HIDE DEF mode
<1>4. Good(c) /\ Same(m, c)
  BY <1>1, <1>3, ModeIsGood
<1> HIDE DEF c
<1> QED BY <1>1, <1>2, <1>4, OnlyMoves DEF Same, CascadeRetired

\* The loop of a turn is over.
LEMMA FinishMoves ==
    ASSUME NEW b, Good(b), NEW t \in Turns, t \notin b.calls, b.turn = t, Cascade!Finish(b, t)
    PROVE  CascadeMoved(b)
<1>1. CASE Cascade!Only([b EXCEPT !.at[t] = "speech"])
  <2> DEFINE c == [b EXCEPT !.at[t] = "speech"]
  <2>1. Good(c) /\ Same(b, c)
    BY PlacedIsGood
  <2> HIDE DEF c
  <2> QED BY <1>1, <2>1, OnlyMoves DEF Same, CascadeRetired, c
<1> QED BY <1>1, EndsMoves DEF Cascade!Finish

\* A function_call of the round: a tool that takes its time, or going to sleep.
LEMMA CallMoves ==
    ASSUME NEW b, Good(b), NEW t \in Turns, t \notin b.calls, b.turn = t, Cascade!Call(b, t)
    PROVE  CascadeMoved(b)
<1>1. CASE Cascade!Only([b EXCEPT !.at[t] = "tool", !.calls = @ \cup {t}])
  <2> DEFINE at == [b.at EXCEPT ![t] = "tool"]
             calls == b.calls \cup {t}
             c == [b EXCEPT !.at = at, !.calls = calls]
  <2>1. Cascade!Only(c)
    BY <1>1
  <2>2. b \in Cascades /\ b.calls \subseteq Turns
    BY DEF Good, Cascades
  <2>3. /\ at \in [Turns -> {"none", "stream", "refused", "tool", "speech"}]
        /\ at[t] = "tool" /\ \A u \in Turns : u # t => at[u] = b.at[u]
        /\ calls \subseteq Turns
    BY <2>2 DEF Cascades
  <2>4. \A u \in calls : u = t \/ u \in b.calls
    OBVIOUS
  <2> HIDE DEF at, calls
  <2>5. /\ c \in Cascades /\ c.scribe = b.scribe /\ c.opener = b.opener
        /\ c.connected = b.connected /\ c.timer = b.timer /\ c.queue = b.queue
        /\ c.turn = b.turn /\ c.at = at /\ c.calls = calls
    BY <2>2, <2>3 DEF Cascades
  <2> HIDE DEF c
  <2>6. CascadeSound(c)
    BY <2>2, <2>3, <2>4, <2>5 DEF CascadeSound, Good
  <2> QED BY <2>1, <2>5, <2>6, OnlyMoves DEF Good, CascadeRetired
<1>2. CASE b.engaged /\ Cascade!Only(Cascade!Sleep([b EXCEPT !.at[t] = "stream"]))
  <2> DEFINE m == [b EXCEPT !.at[t] = "stream"]
             c == Cascade!Sleep(m)
  <2>1. Good(m) /\ Same(b, m)
    BY PlacedIsGood
  <2>2. Cascade!Only(c)
    BY <1>2
  <2> HIDE DEF m
  <2>3. Good(c) /\ c.queue = m.queue /\ (CascadeRetired(m) => CascadeRetired(c))
    BY <2>1, CascadeSleepIsGood
  <2> HIDE DEF c
  <2>4. CascadeMoved(m)
    BY <2>2, <2>3, OnlyMoves
  <2> QED BY <2>1, <2>4, SameMoves
<1> QED BY <1>1, <1>2, FinishMoves DEF Cascade!Call

\* The end of a round of tools moves the cascade soundly.
LEMMA RoundEndsMoves ==
    ASSUME Good(cc), Cascade!RoundEnds
    PROVE  CascadeMoved(cc)
<1> DEFINE t == cc.turn
           m == [cc EXCEPT !.rounds = @ + 1]
<1>1. t \in Turns /\ t \notin cc.calls /\ cc \in Cascades
  BY DEF Cascade!RoundEnds, Good, Cascades, CascadeSound
<1>2. CASE Cascade!Finish(cc, t)
  BY <1>1, <1>2, FinishMoves
<1>3. CASE Cascade!Call(m, t)
  <2>1. /\ m \in Cascades /\ m.scribe = cc.scribe /\ m.opener = cc.opener
        /\ m.connected = cc.connected /\ m.timer = cc.timer /\ m.queue = cc.queue
        /\ m.turn = cc.turn /\ m.at = cc.at /\ m.calls = cc.calls
    <3>1. cc.rounds + 1 \in Nat
      BY <1>1 DEF Cascades
    <3> QED BY <1>1, <3>1 DEF Cascades
  <2> HIDE DEF m
  <2>2. Good(m) /\ Same(cc, m)
    BY <2>1, FieldsAreGood DEF Same, Good, CascadeSound
  <2>3. CascadeMoved(m)
    BY <1>1, <1>3, <2>1, <2>2, CallMoves
  <2> QED BY <2>2, <2>3, SameMoves
<1> QED BY <1>2, <1>3 DEF Cascade!RoundEnds

\* So does a round that fails.
LEMMA RoundFailsMoves ==
    ASSUME Good(cc), Cascade!RoundFails
    PROVE  CascadeMoved(cc)
<1> DEFINE c == Cascade!EndTurn(cc, cc.turn)
<1>1. cc.turn \in Turns /\ cc.turn \notin cc.calls
  BY DEF Cascade!RoundFails, Good, Cascades, CascadeSound
<1>2. Good(c) /\ Same(cc, c)
  BY <1>1, EndTurnIsGood
<1>3. Cascade!Only(c)
  BY DEF Cascade!RoundFails
<1> HIDE DEF c
<1> QED BY <1>2, <1>3, OnlyMoves DEF Same, CascadeRetired

\* So does the end of the spoken answer.
LEMMA SpeechEndsMoves ==
    ASSUME Good(cc), Cascade!SpeechEnds
    PROVE  CascadeMoved(cc)
<1>1. cc.turn \in Turns /\ cc.turn \notin cc.calls
  BY DEF Cascade!SpeechEnds, Good, Cascades, CascadeSound
<1> QED BY <1>1, EndsMoves DEF Cascade!SpeechEnds

\* A tool returns, whoever's turn it is by now.
LEMMA CascadeToolReturnsMoves ==
    ASSUME Good(cc), NEW t \in Turns, Cascade!ToolReturns(t)
    PROVE  CascadeMoved(cc)
<1> DEFINE calls == cc.calls \ {t}
<1>1. cc \in Cascades /\ cc.at[t] = "tool" /\ calls \subseteq Turns
  BY DEF Cascade!ToolReturns, Good, Cascades
<1>2. t \notin calls /\ calls \subseteq cc.calls
  OBVIOUS
<1>3. CASE cc.turn = t
  <2> DEFINE b == [cc EXCEPT !.calls = calls]
  <2>1. Cascade!Returned(t) = b
    BY <1>3 DEF Cascade!Returned
  <2> HIDE DEF calls
  <2>2. /\ b \in Cascades /\ b.scribe = cc.scribe /\ b.opener = cc.opener
        /\ b.connected = cc.connected /\ b.timer = cc.timer /\ b.queue = cc.queue
        /\ b.turn = cc.turn /\ b.at = cc.at /\ b.calls = calls
    BY <1>1 DEF Cascades
  <2> HIDE DEF b
  <2>3. Good(b) /\ Same(cc, b)
    BY <1>1, <1>2, <2>2 DEF Good, CascadeSound, Same
  <2>4. \/ Cascade!Call(b, t) \/ Cascade!Finish(b, t)
        \/ Cascade!Only(Cascade!Ask(b, t))
    BY <1>3, <2>1 DEF Cascade!ToolReturns
  <2>5. ASSUME Cascade!Only(Cascade!Ask(b, t))
        PROVE  CascadeMoved(b)
    <3> DEFINE c == Cascade!Ask(b, t)
    <3>1. Good(c) /\ Same(b, c)
      BY <1>2, <1>3, <2>2, <2>3, AskIsGood
    <3> HIDE DEF c
    <3> QED BY <2>5, <3>1, OnlyMoves DEF Same, CascadeRetired, c
  <2>6. CascadeMoved(b)
    BY <1>2, <1>3, <2>2, <2>3, <2>4, <2>5, CallMoves, FinishMoves, OnlyMoves
  <2> QED BY <2>3, <2>6, SameMoves
<1>4. CASE cc.turn # t
  <2> DEFINE at == [cc.at EXCEPT ![t] = "none"]
             b == [cc EXCEPT !.calls = calls, !.at = at]
  <2>1. Cascade!Returned(t) = b /\ Cascade!Only(b)
    BY <1>4 DEF Cascade!Returned, Cascade!ToolReturns
  <2> HIDE DEF calls
  <2>2. /\ at \in [Turns -> {"none", "stream", "refused", "tool", "speech"}]
        /\ at[t] = "none" /\ \A u \in Turns : u # t => at[u] = cc.at[u]
    BY <1>1 DEF Cascades
  <2> HIDE DEF at
  <2>3. /\ b \in Cascades /\ b.scribe = cc.scribe /\ b.opener = cc.opener
        /\ b.connected = cc.connected /\ b.timer = cc.timer /\ b.queue = cc.queue
        /\ b.turn = cc.turn /\ b.at = at /\ b.calls = calls
    BY <1>1, <2>2 DEF Cascades
  <2> HIDE DEF b
  <2>4. Good(b)
    BY <1>1, <1>2, <2>2, <2>3 DEF Good, CascadeSound
  <2> QED BY <2>1, <2>3, <2>4, OnlyMoves DEF CascadeRetired
<1> QED BY <1>3, <1>4

\* The recogniser's session begins, fails or ends.
LEMMA RejectedIsGood ==
    ASSUME NEW b, Good(b), NEW who \in {"connect", "retry", "engage"}
    PROVE  LET c == Cascade!Rejected(b, who)
           IN  Good(c) /\ c.queue = b.queue /\ (CascadeRetired(b) => CascadeRetired(c))
<1> SUFFICES ASSUME NEW c, c = Cascade!Rejected(b, who)
             PROVE  Good(c) /\ c.queue = b.queue /\ (CascadeRetired(b) => CascadeRetired(c))
  OBVIOUS
<1>1. CASE who = "connect"
  <2> DEFINE d == [b EXCEPT !.connected = FALSE]
  <2>1. c = d
    BY <1>1 DEF Cascade!Rejected
  <2>2. /\ d \in Cascades /\ d.scribe = b.scribe /\ d.opener = b.opener
        /\ ~d.connected /\ d.timer = b.timer /\ d.queue = b.queue
        /\ d.turn = b.turn /\ d.at = b.at /\ d.calls = b.calls
    BY DEF Good, Cascades
  <2> HIDE DEF d
  <2>3. Good(d)
    BY <2>2, FieldsAreGood DEF Good, CascadeSound
  <2> QED BY <2>1, <2>2, <2>3 DEF CascadeRetired
<1>2. CASE who = "retry"
  <2>1. c = Cascade!ScheduleReconnect(b)
    BY <1>2 DEF Cascade!Rejected
  <2> QED BY <2>1, ScheduleIsGood DEF CascadeRetired
<1>3. CASE who = "engage"
  BY <1>3 DEF Cascade!Rejected
<1> QED BY <1>1, <1>2, <1>3

\* So does whatever becomes of the recogniser's socket.
LEMMA ScribeMoves ==
    ASSUME Good(cc), \/ Cascade!ScribeStarts \/ Cascade!ScribeFails \/ Cascade!ScribeCloses
                     \/ Cascade!ScribeFatal
    PROVE  CascadeMoved(cc)
<1>1. cc \in Cascades
  BY DEF Good
<1>2. cc.scribe # "none" /\ ~CascadeRetired(cc)
  BY DEF Cascade!ScribeStarts, Cascade!ScribeFails, Cascade!ScribeCloses, Cascade!ScribeFatal,
     CascadeRetired
\* What the four handlers do to the socket
<1>3. ASSUME NEW scribe \in {"none", "started"}, NEW opener \in {"none", cc.opener},
             NEW fatal \in BOOLEAN
      PROVE  LET c == [cc EXCEPT !.scribe = scribe, !.opener = opener, !.fatal = fatal]
             IN  Good(c) /\ c.queue = cc.queue /\ c.turn = cc.turn /\ c.at = cc.at
  <2> DEFINE c == [cc EXCEPT !.scribe = scribe, !.opener = opener, !.fatal = fatal]
  <2>0. opener \in {"none", "connect", "retry", "engage"}
    BY <1>1 DEF Cascades
  <2>1. /\ c \in Cascades /\ c.scribe = scribe /\ c.queue = cc.queue
        /\ c.turn = cc.turn /\ c.at = cc.at /\ c.calls = cc.calls
    BY <1>1, <2>0 DEF Cascades
  <2> HIDE DEF c
  <2>2. Good(c)
    BY <2>1, FieldsAreGood
  <2> QED BY <2>1, <2>2 DEF c
<1>4. cc.fatal \in BOOLEAN /\ cc.opener \in {"none", "connect", "retry", "engage"}
  BY <1>1 DEF Cascades
<1>5. ASSUME NEW c, Good(c), c.queue = cc.queue, Cascade!Only(c)
      PROVE  CascadeMoved(cc)
  BY <1>2, <1>5, OnlyMoves
<1>6. CASE Cascade!ScribeStarts
  <2> DEFINE b == [cc EXCEPT !.scribe = "started", !.opener = "none"]
  <2>1. b = [cc EXCEPT !.scribe = "started", !.opener = "none", !.fatal = cc.fatal]
    BY <1>1 DEF Cascades
  <2>2. Good(b) /\ b.queue = cc.queue /\ b.turn = cc.turn /\ b.at = cc.at
    BY <1>3, <1>4, <2>1
  <2>3. Cascade!FlushBriefs(b) \/ Cascade!Only(b)
    BY <1>6 DEF Cascade!ScribeStarts
  <2> HIDE DEF b
  <2>4. CASE Cascade!FlushBriefs(b)
    <3>1. CascadeCommanded(b)
      BY <1>1, <2>2, <2>4, CascadeFlushMoves
    <3> QED BY <1>2, <2>2, <3>1 DEF CascadeMoved, CascadeCommanded, CascadeBriefsMove
  <2> QED BY <1>5, <2>2, <2>3, <2>4
<1>7. CASE Cascade!ScribeFails
  <2> DEFINE b == [cc EXCEPT !.scribe = "none", !.opener = "none"]
             s == Cascade!ScheduleReconnect(b)
             c == Cascade!Rejected(s, cc.opener)
  <2>1. b = [cc EXCEPT !.scribe = "none", !.opener = "none", !.fatal = cc.fatal]
    BY <1>1 DEF Cascades
  <2>2. Good(b) /\ b.queue = cc.queue
    BY <1>3, <1>4, <2>1
  <2>3. Cascade!Only(c) /\ cc.opener \in {"connect", "retry", "engage"}
    BY <1>4, <1>7 DEF Cascade!ScribeFails, Good, CascadeSound
  <2> HIDE DEF b
  <2>4. Good(s) /\ s.queue = b.queue
    BY <2>2, ScheduleIsGood
  <2> HIDE DEF s
  <2>5. Good(c) /\ c.queue = s.queue
    BY <2>3, <2>4, RejectedIsGood
  <2> HIDE DEF c
  <2> QED BY <1>5, <2>2, <2>3, <2>4, <2>5
<1>8. CASE Cascade!ScribeCloses
  <2> DEFINE b == [cc EXCEPT !.scribe = "none"]
             s == Cascade!ScheduleReconnect(b)
  <2>1. b = [cc EXCEPT !.scribe = "none", !.opener = cc.opener, !.fatal = cc.fatal]
    BY <1>1 DEF Cascades
  <2>2. Good(b) /\ b.queue = cc.queue
    BY <1>3, <1>4, <2>1
  <2>3. Cascade!Only(s)
    BY <1>8 DEF Cascade!ScribeCloses
  <2> HIDE DEF b
  <2>4. Good(s) /\ s.queue = b.queue
    BY <2>2, ScheduleIsGood
  <2> HIDE DEF s
  <2> QED BY <1>5, <2>2, <2>3, <2>4
<1>9. CASE Cascade!ScribeFatal
  <2> DEFINE b == [cc EXCEPT !.scribe = "none", !.opener = "none", !.fatal = TRUE]
             c == Cascade!Rejected(b, cc.opener)
  <2>1. Good(b) /\ b.queue = cc.queue
    BY <1>3
  <2>2. Cascade!Only(IF cc.opener = "none" THEN b ELSE c)
    BY <1>9 DEF Cascade!ScribeFatal
  <2> HIDE DEF b
  <2>3. CASE cc.opener = "none"
    BY <1>5, <2>1, <2>2, <2>3
  <2>4. CASE cc.opener # "none"
    <3>1. Good(c) /\ c.queue = b.queue
      BY <1>4, <2>1, <2>4, RejectedIsGood
    <3> HIDE DEF c
    <3> QED BY <1>5, <2>1, <2>2, <2>4, <3>1
  <2> QED BY <2>3, <2>4
<1> QED BY <1>6, <1>7, <1>8, <1>9

\* A session that was closed while it opened is rejected after all.
LEMMA CascadeLateRejectionMoves ==
    ASSUME Good(cc), Cascade!LateRejection
    PROVE  CascadeMoved(cc)
<1>1. cc \in Cascades /\ cc.late \subseteq {"connect", "retry", "engage"}
  BY DEF Good, Cascades
<1>2. PICK who \in cc.late : Cascade!Only(Cascade!Rejected([cc EXCEPT !.late = @ \ {who}], who))
  BY DEF Cascade!LateRejection
<1> DEFINE late == cc.late \ {who}
           b == [cc EXCEPT !.late = late]
           c == Cascade!Rejected(b, who)
<1>3. Cascade!Only(c) /\ late \subseteq {"connect", "retry", "engage"}
  BY <1>1, <1>2
<1> HIDE DEF late
<1>4. /\ b \in Cascades /\ b.scribe = cc.scribe /\ b.opener = cc.opener
      /\ b.connected = cc.connected /\ b.timer = cc.timer /\ b.queue = cc.queue
      /\ b.turn = cc.turn /\ b.at = cc.at /\ b.calls = cc.calls
  BY <1>1, <1>3 DEF Cascades
<1> HIDE DEF b
<1>5. Good(b) /\ Same(cc, b)
  BY <1>4, FieldsAreGood DEF Same, Good, CascadeSound
<1>6. Good(c) /\ c.queue = b.queue /\ (CascadeRetired(b) => CascadeRetired(c))
  BY <1>1, <1>5, RejectedIsGood
<1> HIDE DEF c
<1>7. CascadeMoved(b)
  BY <1>3, <1>6, OnlyMoves
<1> QED BY <1>5, <1>7, SameMoves

\* So does the reconnection timer.
LEMMA CascadeReconnectMoves ==
    ASSUME Good(cc), Cascade!ReconnectTimer
    PROVE  CascadeMoved(cc)
<1> DEFINE b == [cc EXCEPT !.timer = FALSE]
           c == Cascade!OpenScribe(b, "retry")
<1>1. cc.timer /\ (Cascade!Only(b) \/ Cascade!Only(c))
  BY DEF Cascade!ReconnectTimer
<1>2. /\ b \in Cascades /\ b.scribe = cc.scribe /\ b.opener = cc.opener
      /\ b.queue = cc.queue /\ b.turn = cc.turn /\ b.at = cc.at /\ b.calls = cc.calls
  BY DEF Good, Cascades
<1> HIDE DEF b
<1>3. Good(b)
  BY <1>2, FieldsAreGood DEF Good, CascadeSound
<1>4. Good(c) /\ c.queue = b.queue
  BY <1>3, OpenScribeIsGood
<1> HIDE DEF c
<1> QED BY <1>1, <1>2, <1>3, <1>4, OnlyMoves DEF CascadeRetired

\* So does a transcript of what the user said.
LEMMA TranscriptMoves ==
    ASSUME Good(cc), Cascade!Transcript
    PROVE  CascadeMoved(cc)
<1> DEFINE c == Cascade!StartTurn(cc)
<1>1. Good(c) /\ Same(cc, c) /\ Cascade!Only(c)
  BY StartTurnIsGood DEF Cascade!Transcript, Cascade!CanStart
<1> HIDE DEF c
<1> QED BY <1>1, OnlyMoves DEF Same, CascadeRetired

\* What the app asks of the cascade bridge
LEMMA CascadeCommandIsSound ==
    ASSUME Good(cc), \/ Cascade!Connect \/ Cascade!Disconnect
                     \/ \E engaged \in BOOLEAN : Cascade!SetEngaged(engaged)
                     \/ Cascade!Interrupt \/ Cascade!SendText
                     \/ \E mode \in {"voice", "text"} : Cascade!SetResponseMode(mode)
    PROVE  CascadeCommanded(cc)
<1>1. cc \in Cascades
  BY DEF Good
<1>2. ASSUME NEW c, Good(c), c.queue = cc.queue, Cascade!Only(c)
      PROVE  CascadeCommanded(cc)
  BY <1>2 DEF CascadeCommanded, CascadeBriefsMove, Cascade!Only, Cascade!briefVars
<1>3. ASSUME NEW c, Good(c), c.queue = cc.queue, c.turn = cc.turn, c.at = cc.at,
             Cascade!FlushBriefs(c)
      PROVE  CascadeCommanded(cc)
  <2>1. CascadeCommanded(c)
    BY <1>1, <1>3, CascadeFlushMoves
  <2> QED BY <1>3, <2>1 DEF CascadeCommanded, CascadeBriefsMove
<1>4. CASE Cascade!Connect
  <2> DEFINE b == [cc EXCEPT !.manual = FALSE, !.timer = FALSE, !.connected = TRUE]
             c == IF b.engaged THEN Cascade!OpenScribe(b, "connect") ELSE b
  <2>1. Cascade!Only(c) \/ Cascade!FlushBriefs(c)
    BY <1>4 DEF Cascade!Connect
  <2>2. /\ b \in Cascades /\ b.scribe = cc.scribe /\ b.opener = cc.opener
        /\ b.queue = cc.queue /\ b.turn = cc.turn /\ b.at = cc.at /\ b.calls = cc.calls
    BY <1>1 DEF Cascades
  <2> HIDE DEF b
  <2>3. Good(b)
    BY <2>2, FieldsAreGood DEF Good, CascadeSound
  <2>4. Good(c) /\ c.queue = b.queue /\ c.turn = b.turn /\ c.at = b.at
    BY <2>3, OpenScribeIsGood
  <2> HIDE DEF c
  <2> QED BY <1>2, <1>3, <2>1, <2>2, <2>4
<1>5. CASE Cascade!Disconnect
  BY <1>2, <1>5, CascadeDisconnectedIsGood DEF Cascade!Disconnect
<1>6. ASSUME NEW engaged \in BOOLEAN, Cascade!SetEngaged(engaged)
      PROVE  CascadeCommanded(cc)
  <2> DEFINE b == [cc EXCEPT !.engaged = TRUE]
             c == Cascade!OpenScribe(b, "engage")
  <2>1. \/ Cascade!Only(Cascade!Sleep(cc)) \/ Cascade!Only(b) \/ Cascade!FlushBriefs(c)
    BY <1>6 DEF Cascade!SetEngaged
  <2>2. /\ b \in Cascades /\ b.scribe = cc.scribe /\ b.opener = cc.opener
        /\ b.queue = cc.queue /\ b.turn = cc.turn /\ b.at = cc.at /\ b.calls = cc.calls
    BY <1>1 DEF Cascades
  <2> HIDE DEF b
  <2>3. Good(b)
    BY <2>2, FieldsAreGood DEF Good, CascadeSound
  <2>4. Good(c) /\ c.queue = b.queue /\ c.turn = b.turn /\ c.at = b.at
    BY <2>3, OpenScribeIsGood
  <2> HIDE DEF c
  <2>5. CASE Cascade!Only(Cascade!Sleep(cc))
    BY <1>2, <2>5, CascadeSleepIsGood
  <2> QED BY <1>2, <1>3, <2>1, <2>2, <2>3, <2>4, <2>5
<1>7. CASE Cascade!Interrupt
  BY <1>2, <1>7, AbortIsGood DEF Cascade!Interrupt, Same
<1>8. CASE Cascade!SendText
  BY <1>2, <1>8, StartTurnIsGood DEF Cascade!SendText, Cascade!CanStart, Same
<1>9. ASSUME NEW mode \in {"voice", "text"}, Cascade!SetResponseMode(mode)
      PROVE  CascadeCommanded(cc)
  <2> DEFINE b == [cc EXCEPT !.nextMode = mode]
             c == [cc EXCEPT !.mode = mode, !.nextMode = "none"]
  <2>1. Cascade!Only(b) \/ Cascade!Only(c)
    BY <1>9 DEF Cascade!SetResponseMode
  <2>2. /\ b \in Cascades /\ b.scribe = cc.scribe /\ b.opener = cc.opener
        /\ b.queue = cc.queue /\ b.turn = cc.turn /\ b.at = cc.at /\ b.calls = cc.calls
    BY <1>1 DEF Cascades
  <2> HIDE DEF b
  <2>3. Good(b)
    BY <2>2, FieldsAreGood DEF Good, CascadeSound
  <2>4. Good(c) /\ Same(cc, c)
    BY ModeIsGood
  <2> HIDE DEF c
  <2> QED BY <1>2, <2>1, <2>2, <2>3, <2>4 DEF Same
<1> QED BY <1>4, <1>5, <1>6, <1>7, <1>8, <1>9

-----------------------------------------------------------------------------
(* The table of briefs.                                                    *)

\* markDelivered keeps the store's rows typed.
LEMMA DeliveredIsTyped ==
    ASSUME BriefsTyped, NEW queue \in [Tasks -> Nat], MarkDelivered(queue)
    PROVE  BriefsTyped'
<1>1. ASSUME NEW t \in Tasks
      PROVE  [rows[t] EXCEPT !.delivered = TRUE] \in [brief : Nat, delivered : BOOLEAN]
  BY DEF BriefsTyped
<1>2. rows' \in [Tasks -> [brief : Nat, delivered : BOOLEAN]]
  BY <1>1 DEF BriefsTyped, MarkDelivered
<1>3. told' \subseteq Nat /\ queued' = queued
  BY DEF BriefsTyped, MarkDelivered, Some
<1> QED BY <1>2, <1>3 DEF BriefsTyped

\* What was pending has been put before a model, and no other brief has its number.
LEMMA DeliveredIsSound ==
    ASSUME BriefsTyped, BriefsSound, MarkDelivered(Pending), news' = news
    PROVE  BriefsSound' /\ Pending' = NoBriefs
<1>1. \A t \in Tasks :
          /\ rows'[t].brief = rows[t].brief
          /\ rows'[t].delivered <=> rows[t].delivered \/ Pending[t] # 0
  BY DEF MarkDelivered, Some, BriefsTyped
<1>2. \A t \in Tasks : Pending[t] = IF rows[t].delivered THEN 0 ELSE queued[t]
  BY DEF Pending, BriefsSound
<1>3. queued' = queued /\ told' = told \cup {Pending[t] : t \in Some(Pending)}
  BY DEF MarkDelivered
<1>4. told' \subseteq 0 .. news
  <2>1. \A t \in Tasks : queued[t] \in 0 .. news
    BY DEF BriefsSound, BriefsTyped
  <2>2. \A t \in Some(Pending) : Pending[t] \in 0 .. news
    BY <1>2, <2>1 DEF Some
  <2> QED BY <1>3, <2>2 DEF BriefsSound
<1>5. ASSUME NEW t \in Tasks, queued[t] # 0
      PROVE  queued[t] \in told' <=> rows'[t].delivered
  <2>1. ASSUME NEW u \in Some(Pending), queued[t] = Pending[u]
        PROVE  u = t
    BY <1>2, <1>5, <2>1 DEF Some, BriefsSound
  <2>2. ASSUME queued[t] \in told' \ told
        PROVE  Pending[t] # 0
    BY <1>3, <2>1, <2>2 DEF Some
  <2>3. ASSUME Pending[t] # 0
        PROVE  queued[t] \in told'
    BY <1>2, <1>3, <2>3 DEF Some
  <2> QED BY <1>1, <1>2, <1>3, <1>5, <2>2, <2>3 DEF BriefsSound
<1>6. BriefsSound'
  BY <1>1, <1>3, <1>4, <1>5 DEF BriefsSound
<1>7. \A t \in Tasks : Pending'[t] = 0
  BY <1>1, <1>2, <1>6 DEF Pending, BriefsSound
<1> QED BY <1>6, <1>7 DEF Pending, NoBriefs

\* A new number is queued, and nobody has it yet.
LEMMA SavedIsSound ==
    ASSUME BriefsTyped, NEW t \in Tasks, news \in Nat, news' = news + 1, Save(t, news + 1)
    PROVE  /\ BriefsTyped'
           /\ BriefsSound => BriefsSound' /\ Pending' = [Pending EXCEPT ![t] = news + 1]
<1> DEFINE row == [brief |-> news + 1, delivered |-> FALSE]
<1>1. rows' = [rows EXCEPT ![t] = row] /\ queued' = [queued EXCEPT ![t] = news + 1] /\ told' = told
  BY DEF Save
<1>2. row \in [brief : Nat, delivered : BOOLEAN] /\ row.brief = news + 1 /\ ~row.delivered
  OBVIOUS
<1> HIDE DEF row
<1>3. BriefsTyped'
  BY <1>1, <1>2 DEF BriefsTyped
<1>4. \A u \in Tasks : /\ rows'[u] = IF u = t THEN row ELSE rows[u]
                       /\ queued'[u] = IF u = t THEN news + 1 ELSE queued[u]
  BY <1>1 DEF BriefsTyped
<1>5. ASSUME BriefsSound
      PROVE  BriefsSound'
  <2>1. told' \subseteq 0 .. news' /\ news + 1 \notin told'
    BY <1>1, <1>5 DEF BriefsSound
  <2>2. \A u \in Tasks : queued[u] <= news /\ queued[u] \in Nat
    BY <1>5 DEF BriefsSound, BriefsTyped
  <2>3. \A u \in Tasks : rows'[u].brief = queued'[u] /\ queued'[u] <= news'
    BY <1>2, <1>4, <1>5, <2>2 DEF BriefsSound
  <2>4. \A u \in Tasks : queued'[u] # 0 => (queued'[u] \in told' <=> rows'[u].delivered)
    BY <1>1, <1>2, <1>4, <1>5, <2>1 DEF BriefsSound
  <2>5. \A u, v \in Tasks : queued'[u] # 0 /\ queued'[v] = queued'[u] => v = u
    BY <1>4, <1>5, <2>2 DEF BriefsSound
  <2> QED BY <2>1, <2>3, <2>4, <2>5 DEF BriefsSound
<1>6. Pending' = [Pending EXCEPT ![t] = news + 1]
  <2>1. \A u \in Tasks : Pending'[u] = IF u = t THEN news + 1 ELSE Pending[u]
    BY <1>2, <1>4 DEF Pending
  <2> QED BY <2>1 DEF Pending
<1> QED BY <1>3, <1>5, <1>6

\* What is told at once takes no place in the table.
LEMMA ToldIsSound ==
    ASSUME BriefsTyped, news \in Nat, news' = news + 1, TellNow(news + 1)
    PROVE  BriefsTyped' /\ (BriefsSound => BriefsSound') /\ Pending' = Pending
<1>1. rows' = rows /\ queued' = queued /\ told' = told \cup {news + 1}
  BY DEF TellNow
<1>2. BriefsTyped'
  BY <1>1 DEF BriefsTyped
<1>3. ASSUME BriefsSound
      PROVE  BriefsSound'
  <2>1. told' \subseteq 0 .. news'
    BY <1>1, <1>3 DEF BriefsSound
  <2>2. \A u \in Tasks : queued[u] # news + 1 /\ queued[u] <= news'
    BY <1>3 DEF BriefsSound, BriefsTyped
  <2> QED BY <1>1, <1>3, <2>1, <2>2 DEF BriefsSound
<1> QED BY <1>1, <1>2, <1>3 DEF Pending

-----------------------------------------------------------------------------
(* Every step keeps the invariant.                                         *)

\* What the step lemmas use of the invariant.
LEMMA InvariantGives ==
    ASSUME VoiceInvariant
    PROVE  /\ Sound /\ Good(cc) /\ rt \in Bridges /\ session \in Sessions /\ cc \in Cascades
           /\ BriefsTyped /\ questions \in [Tasks -> Nat] /\ moves \in Nat /\ news \in Nat
           /\ rt.queue \in [Tasks -> Nat] /\ cc.queue \in [Tasks -> Nat]
           /\ Realtime!Now.b = rt
<1>1. Sound
  BY DEF VoiceInvariant, Sound
<1> QED BY <1>1, NowIsSettled DEF VoiceInvariant, VoiceTyped, Good, Bridges, Cascades

\* A step of the realtime bridge
LEMMA RealtimeKeeps ==
    ASSUME VoiceInvariant, Commanded(Realtime!Now), engine = "realtime" \/ Moved(Realtime!Now),
           questions' \in [Tasks -> Nat], moves' \in Nat,
           UNCHANGED <<cc, engine, switched, news>>
    PROVE  VoiceInvariant'
<1>1. /\ rt \in Bridges /\ BriefsTyped /\ news \in Nat /\ rt.queue \in [Tasks -> Nat]
      /\ Realtime!Now.b = rt
  BY InvariantGives
<1>2. rt' \in Bridges /\ session' \in Sessions /\ RealtimeSound(rt', session') /\ BriefsMove(rt)
  BY <1>1 DEF Commanded
<1>3. BriefsTyped'
  <2>1. CASE UNCHANGED <<rows, queued, told>>
    BY <1>1, <2>1 DEF BriefsTyped
  <2>2. CASE MarkDelivered(rt.queue)
    BY <1>1, <2>2, DeliveredIsTyped
  <2> QED BY <1>2, <2>1, <2>2 DEF BriefsMove
<1>4. VoiceTyped'
  BY <1>2, <1>3 DEF VoiceInvariant, VoiceTyped
<1>5. RetirementSound'
  BY <1>1 DEF VoiceInvariant, RetirementSound, Moved
<1>6. NeverServed'
  BY <1>1 DEF VoiceInvariant, RetirementSound, NeverServed, Moved
<1>7. ASSUME ~switched
      PROVE  Queue' = Pending' /\ BriefsSound'
  <2>1. Queue = Pending /\ BriefsSound
    BY <1>7 DEF VoiceInvariant
  <2>2. CASE UNCHANGED <<rows, queued, told>> /\ rt'.queue = rt.queue
    BY <2>1, <2>2 DEF Queue, Pending, BriefsSound
  <2>3. CASE rt.socket = "open" /\ MarkDelivered(rt.queue) /\ rt'.queue = NoBriefs
    <3>1. engine = "realtime"
      BY <1>7, <2>3 DEF VoiceInvariant, VoiceTyped, RetirementSound, NeverServed, RealtimeRetired
    <3>2. MarkDelivered(Pending)
      BY <2>1, <2>3, <3>1 DEF Queue
    <3> QED BY <1>1, <2>1, <2>3, <3>1, <3>2, DeliveredIsSound DEF Queue
  <2> QED BY <1>2, <2>2, <2>3 DEF BriefsMove
<1> QED BY <1>2, <1>4, <1>5, <1>6, <1>7 DEF VoiceInvariant

\* A step of the cascade bridge
LEMMA CascadeKeeps ==
    ASSUME VoiceInvariant, CascadeCommanded(cc), engine = "cascade" \/ CascadeMoved(cc),
           moves' \in Nat, UNCHANGED <<rt, session, questions, engine, switched, news>>
    PROVE  VoiceInvariant'
<1>1. /\ BriefsTyped /\ news \in Nat /\ cc.queue \in [Tasks -> Nat]
  BY InvariantGives
<1>2. cc' \in Cascades /\ CascadeSound(cc') /\ CascadeBriefsMove(cc)
  BY DEF CascadeCommanded, Good
<1>3. BriefsTyped'
  <2>1. CASE UNCHANGED <<rows, queued, told>>
    BY <1>1, <2>1 DEF BriefsTyped
  <2>2. CASE MarkDelivered(cc.queue)
    BY <1>1, <2>2, DeliveredIsTyped
  <2> QED BY <1>2, <2>1, <2>2 DEF CascadeBriefsMove
<1>4. VoiceTyped'
  BY <1>2, <1>3 DEF VoiceInvariant, VoiceTyped
<1>5. RetirementSound' /\ NeverServed'
  BY DEF VoiceInvariant, RetirementSound, NeverServed, CascadeMoved
<1>6. ASSUME ~switched
      PROVE  Queue' = Pending' /\ BriefsSound'
  <2>1. Queue = Pending /\ BriefsSound
    BY <1>6 DEF VoiceInvariant
  <2>2. CASE UNCHANGED <<rows, queued, told>> /\ cc'.queue = cc.queue
    BY <2>1, <2>2 DEF Queue, Pending, BriefsSound
  <2>3. CASE engine = "cascade" /\ MarkDelivered(cc.queue) /\ cc'.queue = NoBriefs
    <3>1. MarkDelivered(Pending)
      BY <2>1, <2>3 DEF Queue
    <3> QED BY <1>1, <2>1, <2>3, <3>1, DeliveredIsSound DEF Queue
  <2>4. CASE engine = "realtime"
    <3>1. UNCHANGED <<rows, queued, told>> /\ cc'.queue = cc.queue
      BY <2>4 DEF VoiceInvariant, RetirementSound, CascadeMoved
    <3> QED BY <2>2, <3>1
  <2> QED BY <1>2, <2>2, <2>3, <2>4 DEF CascadeBriefsMove, VoiceInvariant, VoiceTyped
<1> QED BY <1>2, <1>4, <1>5, <1>6 DEF VoiceInvariant

\* An event that is announced: it is told at once, or its brief is queued and saved.
LEMMA HandleTaskEventsIsSound ==
    ASSUME Sound, NEW t \in Tasks, NEW n \in Nat, NEW question \in BOOLEAN,
           Realtime!HandleTaskEvents(t, n, question)
    PROVE  /\ rt' \in Bridges /\ session' \in Sessions /\ RealtimeSound(rt', session')
           /\ rt'.overtaken = rt.overtaken
           /\ \/ TellNow(n) /\ rt'.queue = rt.queue
              \/ Save(t, n) /\ rt'.queue = [rt.queue EXCEPT ![t] = n]
           /\ questions' = [questions EXCEPT ![t] = IF question THEN n ELSE 0]
<1> DEFINE asked == rt.asked \cup {n}
           b == IF question THEN [rt EXCEPT !.asked = asked] ELSE rt
           p == [b |-> b, s |-> session]
<1>1. /\ rt \in Bridges /\ session \in Sessions
      /\ SlotHeld(rt, session) /\ SetupFirst(rt, session) /\ SetupIsQuiet(rt) /\ AsksAgain(rt)
  BY DEF Sound, VoiceTyped, RealtimeSound
<1>2. /\ questions' = [questions EXCEPT ![t] = IF question THEN n ELSE 0]
      /\ IF Realtime!Open(b) /\ Realtime!Awake(b)
         THEN LET q == Realtime!RequestResponse(p)
              IN rt' = q.b /\ session' = q.s /\ Realtime!TellNow(n)
         ELSE Realtime!QueueBrief(b, t, n)
  BY DEF Realtime!HandleTaskEvents
<1>3. /\ b \in Bridges /\ AskFields(rt, b) /\ b.socket = rt.socket /\ b.setup = rt.setup
      /\ b.queue = rt.queue /\ b.overtaken = rt.overtaken
  <2>1. asked \in SUBSET Nat
    BY <1>1 DEF Bridges
  <2> HIDE DEF asked
  <2>2. CASE question
    BY <1>1, <2>1, <2>2 DEF Bridges, AskFields
  <2>3. CASE ~question
    BY <1>1, <2>3 DEF AskFields
  <2> QED BY <2>2, <2>3
<1> HIDE DEF b
<1>4. SlotHeld(b, session) /\ SetupFirst(b, session) /\ SetupIsQuiet(b) /\ AsksAgain(b)
  BY <1>1, <1>3, SlotFields DEF AskFields, SetupIsQuiet, AsksAgain, Waits
<1>5. CASE Realtime!Open(b) /\ Realtime!Awake(b)
  <2> DEFINE q == Realtime!RequestResponse(p)
  <2>1. p \in Pairs /\ p.b = b /\ p.s = session
    BY <1>1, <1>3 DEF Pairs
  <2> HIDE DEF p
  <2>2. Between(p)
    BY <1>4, <1>5, <2>1 DEF Between, SetupIsQuiet, Realtime!Open
  <2>3. Settled(q) /\ Kept(p, q)
    BY <2>2, RequestIsSound
  <2>4. rt' = q.b /\ session' = q.s /\ TellNow(n)
    BY <1>2, <1>5 DEF Realtime!TellNow, TellNow, p
  <2> HIDE DEF q
  <2> QED BY <1>2, <1>3, <2>1, <2>3, <2>4 DEF Settled, Pairs, Kept
<1>6. CASE ~(Realtime!Open(b) /\ Realtime!Awake(b))
  <2> DEFINE queue == [b.queue EXCEPT ![t] = n]
             c == [b EXCEPT !.queue = queue]
  <2>1. rt' = c /\ Save(t, n) /\ session' = session
    BY <1>2, <1>6 DEF Realtime!QueueBrief, Realtime!Save, Save
  <2>2. queue \in [Tasks -> Nat]
    BY <1>3 DEF Bridges
  <2>3. queue = [rt.queue EXCEPT ![t] = n]
    BY <1>3
  <2> HIDE DEF queue
  <2>4. /\ c \in Bridges /\ AskFields(b, c) /\ c.socket = b.socket /\ c.setup = b.setup
        /\ c.queue = queue /\ c.overtaken = b.overtaken
    BY <1>3, <2>2 DEF Bridges, AskFields
  <2> HIDE DEF c
  <2>5. SlotHeld(c, session) /\ SetupFirst(c, session) /\ SetupIsQuiet(c) /\ AsksAgain(c)
    BY <1>4, <2>4, SlotFields DEF AskFields, SetupIsQuiet, AsksAgain, Waits
  <2> QED BY <1>1, <1>2, <1>3, <2>1, <2>3, <2>4, <2>5 DEF RealtimeSound
<1> QED BY <1>5, <1>6

\* A task's event is told at once, or saved and queued with what the store holds.
LEMMA CascadeHandleTaskEventsIsSound ==
    ASSUME Good(cc), NEW t \in Tasks, NEW n \in Nat, Cascade!HandleTaskEvents(t, n)
    PROVE  /\ Good(cc')
           /\ \/ TellNow(n) /\ cc'.queue = cc.queue
              \/ Save(t, n) /\ cc'.queue = [cc.queue EXCEPT ![t] = n]
<1>1. CASE cc.connected /\ Cascade!Awake(cc)
  <2> DEFINE c == Cascade!StartTurn(cc)
  <2>1. Cascade!FreeTurns(Cascade!Abort(cc)) # {} /\ cc' = c /\ TellNow(n)
    BY <1>1 DEF Cascade!HandleTaskEvents, Cascade!CanStart, Cascade!TellNow, TellNow
  <2>2. Good(c) /\ Same(cc, c)
    BY <2>1, StartTurnIsGood
  <2> HIDE DEF c
  <2> QED BY <2>1, <2>2 DEF Same
<1>2. CASE ~(cc.connected /\ Cascade!Awake(cc))
  <2> DEFINE queue == [cc.queue EXCEPT ![t] = n]
             c == [cc EXCEPT !.queue = queue]
  <2>1. cc' = c /\ Save(t, n)
    BY <1>2 DEF Cascade!HandleTaskEvents, Cascade!QueueBrief, Cascade!Save, Save
  <2>2. queue \in [Tasks -> Nat]
    BY DEF Good, Cascades
  <2>3. queue = [cc.queue EXCEPT ![t] = n]
    OBVIOUS
  <2> HIDE DEF queue
  <2>4. /\ c \in Cascades /\ c.queue = queue /\ c.scribe = cc.scribe /\ c.opener = cc.opener
        /\ c.turn = cc.turn /\ c.at = cc.at /\ c.calls = cc.calls
    BY <2>2 DEF Good, Cascades
  <2> HIDE DEF c
  <2>5. Good(c)
    BY <2>4, FieldsAreGood DEF Good, CascadeSound
  <2> QED BY <2>1, <2>3, <2>4, <2>5
<1> QED BY <1>1, <1>2

\* An event of a task keeps the whole invariant.
LEMMA TaskEventKeeps ==
    ASSUME VoiceInvariant, NEW t \in Tasks, NEW question \in BOOLEAN, TaskEvent(t, question)
    PROVE  VoiceInvariant'
<1>1. /\ Sound /\ Good(cc) /\ rt \in Bridges /\ session \in Sessions /\ cc \in Cascades
      /\ BriefsTyped /\ questions \in [Tasks -> Nat] /\ moves \in Nat /\ news \in Nat
      /\ rt.queue \in [Tasks -> Nat] /\ cc.queue \in [Tasks -> Nat]
  BY InvariantGives
<1>2. /\ moves' \in Nat /\ news' = news + 1 /\ engine' = engine /\ switched' = switched
      /\ news + 1 \in Nat
  BY <1>1 DEF TaskEvent, Counted
<1>3. VoiceTyped /\ RealtimeSound(rt, session) /\ CascadeSound(cc) /\ RetirementSound /\ NeverServed
      /\ (~switched => Queue = Pending /\ BriefsSound)
  BY DEF VoiceInvariant
\* Whichever bridge serves, the brief is told or takes its place in the table.
<1>4. ASSUME NEW queue, NEW after,
             \/ TellNow(news + 1) /\ after = queue
             \/ Save(t, news + 1) /\ after = [queue EXCEPT ![t] = news + 1],
             ~switched => Queue = queue, ~switched => Queue' = after
      PROVE  BriefsTyped' /\ (~switched => Queue' = Pending' /\ BriefsSound')
  <2>1. CASE TellNow(news + 1) /\ after = queue
    BY <1>1, <1>2, <1>3, <1>4, <2>1, ToldIsSound
  <2>2. CASE Save(t, news + 1) /\ after = [queue EXCEPT ![t] = news + 1]
    BY <1>1, <1>2, <1>3, <1>4, <2>2, SavedIsSound
  <2> QED BY <1>4, <2>1, <2>2
<1>5. CASE engine = "realtime"
  <2>1. Realtime!HandleTaskEvents(t, news + 1, question) /\ cc' = cc
    BY <1>5 DEF TaskEvent
  <2>2. /\ rt' \in Bridges /\ session' \in Sessions /\ RealtimeSound(rt', session')
        /\ rt'.overtaken = rt.overtaken
        /\ \/ TellNow(news + 1) /\ rt'.queue = rt.queue
           \/ Save(t, news + 1) /\ rt'.queue = [rt.queue EXCEPT ![t] = news + 1]
        /\ questions' = [questions EXCEPT ![t] = IF question THEN news + 1 ELSE 0]
    BY <1>1, <1>2, <2>1, HandleTaskEventsIsSound
  <2>3. questions' \in [Tasks -> Nat]
    BY <1>1, <1>2, <2>2
  <2>4. Queue = rt.queue /\ Queue' = rt'.queue
    BY <1>2, <1>5 DEF Queue
  <2>5. BriefsTyped' /\ (~switched => Queue' = Pending' /\ BriefsSound')
    BY <1>4, <2>2, <2>4
  <2>6. VoiceTyped'
    BY <1>1, <1>2, <1>3, <2>1, <2>2, <2>3, <2>5 DEF VoiceTyped
  <2>7. RetirementSound' /\ NeverServed' /\ CascadeSound(cc')
    BY <1>2, <1>3, <1>5, <2>1 DEF RetirementSound, NeverServed
  <2> QED BY <1>2, <2>2, <2>5, <2>6, <2>7 DEF VoiceInvariant
<1>6. CASE engine = "cascade"
  <2>1. /\ Cascade!HandleTaskEvents(t, news + 1) /\ rt' = rt /\ session' = session
        /\ questions' = [questions EXCEPT ![t] = IF question THEN news + 1 ELSE 0]
    BY <1>6 DEF TaskEvent
  <2>2. /\ Good(cc')
        /\ \/ TellNow(news + 1) /\ cc'.queue = cc.queue
           \/ Save(t, news + 1) /\ cc'.queue = [cc.queue EXCEPT ![t] = news + 1]
    BY <1>1, <1>2, <2>1, CascadeHandleTaskEventsIsSound
  <2>3. questions' \in [Tasks -> Nat]
    BY <1>1, <1>2, <2>1
  <2>4. Queue = cc.queue /\ Queue' = cc'.queue
    BY <1>2, <1>6 DEF Queue
  <2>5. BriefsTyped' /\ (~switched => Queue' = Pending' /\ BriefsSound')
    BY <1>4, <2>2, <2>4
  <2>6. VoiceTyped'
    BY <1>1, <1>2, <1>3, <2>1, <2>2, <2>3, <2>5 DEF VoiceTyped, Good
  <2>7. RetirementSound' /\ NeverServed' /\ RealtimeSound(rt', session') /\ CascadeSound(cc')
    BY <1>2, <1>3, <1>6, <2>1, <2>2 DEF RetirementSound, NeverServed, Good
  <2> QED BY <1>2, <2>5, <2>6, <2>7 DEF VoiceInvariant
<1> QED BY <1>3, <1>5, <1>6 DEF VoiceTyped

\* A change of the engine disconnects the bridge that served.
LEMMA SwitchEngineKeeps ==
    ASSUME VoiceInvariant, SwitchEngine
    PROVE  VoiceInvariant'
<1>1. /\ Sound /\ Good(cc) /\ rt \in Bridges /\ session \in Sessions /\ cc \in Cascades
      /\ BriefsTyped /\ questions \in [Tasks -> Nat] /\ moves \in Nat /\ news \in Nat
      /\ Realtime!Now.b = rt
  BY InvariantGives
<1>2. VoiceTyped /\ RealtimeSound(rt, session) /\ CascadeSound(cc) /\ RetirementSound
  BY DEF VoiceInvariant
<1>3. /\ moves' \in Nat /\ switched' = TRUE /\ UNCHANGED <<news, questions, briefVars>>
  BY <1>1 DEF SwitchEngine, Counted
<1>4. BriefsTyped'
  BY <1>1, <1>3 DEF BriefsTyped, briefVars
<1>5. CASE engine = "realtime"
  <2>1. /\ engine' = "cascade" /\ rt' = Realtime!Disconnected(rt)
        /\ session' = Realtime!NoSession /\ cc' = cc
    BY <1>5 DEF SwitchEngine
  <2>2. Commanded(Realtime!Now) /\ (rt'.overtaken \/ RealtimeRetired(rt'))
    BY <1>1, <1>3, <2>1, DisconnectIsSound
  <2>3. VoiceTyped'
    BY <1>1, <1>3, <1>4, <2>1, <2>2 DEF VoiceTyped, Commanded
  <2>4. RetirementSound' /\ NeverServed'
    BY <1>3, <2>1, <2>2 DEF RetirementSound, NeverServed
  <2> QED BY <1>2, <1>3, <2>1, <2>2, <2>3, <2>4 DEF VoiceInvariant, Commanded
<1>6. CASE engine = "cascade"
  <2>1. /\ engine' = "realtime" /\ cc' = Cascade!Disconnected(cc)
        /\ rt' = rt /\ session' = session
    BY <1>6 DEF SwitchEngine
  <2>2. Good(cc') /\ CascadeRetired(cc')
    BY <1>1, <2>1, CascadeDisconnectedIsGood
  <2>3. VoiceTyped'
    BY <1>1, <1>3, <1>4, <2>1, <2>2 DEF VoiceTyped, Good
  <2>4. RetirementSound' /\ NeverServed'
    BY <1>3, <2>1, <2>2 DEF RetirementSound, NeverServed
  <2> QED BY <1>2, <1>3, <2>1, <2>2, <2>3, <2>4 DEF VoiceInvariant, Good
<1> QED BY <1>2, <1>5, <1>6 DEF VoiceTyped

\* What the bridges are when they are built
LEMMA BuiltIsSound ==
    ASSUME NEW queue \in [Tasks -> Nat]
    PROVE  /\ Realtime!Bridge(queue) \in Bridges
           /\ RealtimeSound(Realtime!Bridge(queue), Realtime!NoSession)
           /\ RealtimeRetired(Realtime!Bridge(queue))
           /\ Realtime!Bridge(queue).queue = queue /\ ~Realtime!Bridge(queue).overtaken
           /\ Good(Cascade!Cascade(queue)) /\ CascadeRetired(Cascade!Cascade(queue))
           /\ Cascade!Cascade(queue).queue = queue
<1> DEFINE b == Realtime!Bridge(queue)
           c == Cascade!Cascade(queue)
           none == Realtime!NoOrphan
<1>0. none \in Orphans /\ none.setup = "no"
  BY NoSessionTyped, NoWaiter DEF Realtime!NoOrphan, Orphans
<1> HIDE DEF none
<1>1. /\ b \in Bridges /\ b.socket = "none" /\ b.setup = "no" /\ b.waiting = "no"
      /\ ~b.timer /\ ~b.late /\ ~b.pending /\ ~b.watchdog /\ b.queue = queue /\ ~b.overtaken
      /\ b.orphan.setup = "no"
  BY <1>0, NoWaiter DEF Realtime!Bridge, Bridges, none
<1> DEFINE at == [t \in Turns |-> "none"]
<1>2. at \in [Turns -> {"none", "stream", "refused", "tool", "speech"}] /\ \A t \in Turns : at[t] = "none"
  OBVIOUS
<1>3. /\ c.scribe = "none" /\ c.opener = "none" /\ ~c.connected /\ ~c.timer
      /\ c.queue = queue /\ c.at = at /\ c.calls = {}
  BY DEF Cascade!Cascade
<1> HIDE DEF at
<1>4. c \in Cascades
  BY <1>2 DEF Cascade!Cascade, Cascades, at
<1> HIDE DEF b, c
<1>5. RealtimeSound(b, Realtime!NoSession) /\ RealtimeRetired(b)
  BY <1>1, GoneIsSound DEF RealtimeRetired
<1>6. Good(c) /\ CascadeRetired(c)
  BY <1>2, <1>3, <1>4 DEF Good, CascadeSound, CascadeRetired
<1> QED BY <1>1, <1>3, <1>5, <1>6 DEF b, c

\* pending() gives a count for every task, the same to both bridges.
LEMMA PendingTyped ==
    ASSUME BriefsTyped
    PROVE  /\ Pending \in [Tasks -> Nat]
           /\ Realtime!Pending = Pending /\ Cascade!Pending = Pending
BY DEF BriefsTyped, Pending, Realtime!Pending, Cascade!Pending

\* A new bridge, or a new daemon, begins with what the table holds.
LEMMA RebuiltKeeps ==
    ASSUME VoiceInvariant, RebuildCascade \/ Restart
    PROVE  VoiceInvariant'
<1>1. /\ rt \in Bridges /\ session \in Sessions /\ BriefsTyped
      /\ questions \in [Tasks -> Nat] /\ moves \in Nat /\ news \in Nat
  BY InvariantGives
<1>2. VoiceTyped /\ RealtimeSound(rt, session) /\ RetirementSound /\ NeverServed
      /\ (~switched => Queue = Pending /\ BriefsSound)
  BY DEF VoiceInvariant
<1>3. /\ moves' \in Nat /\ UNCHANGED <<rows, queued, told, news, engine, switched, questions>>
      /\ cc' = Cascade!Cascade(Pending)
      /\ \/ rt' = rt /\ session' = session
         \/ rt' = Realtime!Bridge(Pending) /\ session' = Realtime!NoSession
  BY <1>1, PendingTyped DEF RebuildCascade, Restart, Move, Counted, briefVars,
     Cascade!CascadeRestart, Realtime!RealtimeRestart
<1>4. Pending' = Pending /\ BriefsTyped' /\ (BriefsSound => BriefsSound')
  BY <1>1, <1>3 DEF Pending, BriefsTyped, BriefsSound
<1>5. Pending \in [Tasks -> Nat]
  BY <1>1, PendingTyped
<1>6. Good(cc') /\ CascadeRetired(cc') /\ cc'.queue = Pending
  BY <1>3, <1>5, BuiltIsSound
<1>7. /\ rt' \in Bridges /\ session' \in Sessions /\ RealtimeSound(rt', session')
      /\ \/ rt' = rt
         \/ RealtimeRetired(rt') /\ ~rt'.overtaken /\ rt'.queue = Pending
  BY <1>1, <1>2, <1>3, <1>5, BuiltIsSound, NoSessionTyped
<1>8. VoiceTyped'
  BY <1>1, <1>2, <1>3, <1>4, <1>6, <1>7 DEF VoiceTyped, Good
<1>9. RetirementSound' /\ NeverServed'
  BY <1>2, <1>3, <1>6, <1>7 DEF RetirementSound, NeverServed
<1>10. ~switched => Queue' = Pending' /\ BriefsSound'
  BY <1>2, <1>3, <1>4, <1>6, <1>7 DEF Queue, VoiceTyped
<1> QED BY <1>3, <1>6, <1>7, <1>8, <1>9, <1>10 DEF VoiceInvariant, Good

\* What the bridge and the provider do by themselves leaves a retired bridge retired.
LEMMA RealtimeActsMove ==
    ASSUME VoiceInvariant, \/ RealtimeFault \/ RealtimeStep
                           \/ RealtimeReceive \/ RealtimeWatchdog \/ RealtimeClosed
    PROVE  Moved(Realtime!Now)
<1>1. Sound
  BY InvariantGives
<1>2. CASE RealtimeFault
  <2>1. ASSUME Realtime!OrphanFails
        PROVE  Moved(Realtime!Now)
    BY <1>1, <2>1, OrphanSaysMoves DEF Realtime!OrphanFails, Messages
  <2> QED BY <1>1, <1>2, <2>1, SocketClosesMoves, SetupTimeoutMoves, ProviderFailsMoves,
             SpeechMoves, OrphanClosesMoves, OrphanTimeoutMoves DEF RealtimeFault
<1>3. CASE RealtimeStep
  <2>1. ASSUME Realtime!OrphanEnds
        PROVE  Moved(Realtime!Now)
    <3>1. PICK end \in Realtime!ResponseEnds : Realtime!OrphanSays(end)
      BY <2>1 DEF Realtime!OrphanEnds, Realtime!ResponseEnds
    <3> QED BY <1>1, <3>1, OrphanSaysMoves DEF Messages, Realtime!ResponseEnds
  <2> QED BY <1>1, <1>3, OldSocketClosedMoves, ReconnectTimerMoves, SocketOpensMoves, LateRejectionMoves,
     ProviderSaysMoves, SpeechMoves, ToolReturnsMoves, OrphanOpensMoves, <2>1,
     OrphanReceivesMoves DEF RealtimeStep
<1>4. CASE RealtimeReceive \/ RealtimeWatchdog \/ RealtimeClosed
  BY <1>1, <1>4, ReceiveMoves, WatchdogMoves, SocketClosesMoves
     DEF RealtimeReceive, RealtimeWatchdog, RealtimeClosed
<1> QED BY <1>2, <1>3, <1>4

\* Every step of the realtime bridge and of its provider keeps the invariant.
LEMMA RealtimeActsKeep ==
    ASSUME VoiceInvariant, \/ RealtimeCommand \/ RealtimeFault \/ RealtimeStep
                           \/ RealtimeReceive \/ RealtimeWatchdog \/ RealtimeClosed
    PROVE  VoiceInvariant'
<1>1. Sound /\ questions \in [Tasks -> Nat] /\ moves \in Nat
  BY InvariantGives
<1>2. CASE RealtimeCommand
  <2>1. /\ moves' \in Nat /\ UNCHANGED <<cc, engine, switched, news>> /\ engine = "realtime"
        /\ UNCHANGED questions
    BY <1>1, <1>2 DEF RealtimeCommand, Move, Counted, OfRealtime, Realtime!Connect,
       Realtime!OnlyBridge, Realtime!KeepSession, Realtime!Disconnect, Realtime!SetEngaged,
       Realtime!Interrupt, Realtime!SendText, Realtime!SetResponseMode
  <2>2. Commanded(Realtime!Now)
    <3>1. CASE Realtime!Connect
      BY <1>1, <3>1, ConnectIsSound
    <3>2. CASE Realtime!Disconnect
      BY <1>1, <3>2, DisconnectIsSound DEF Realtime!Disconnect, Realtime!OnlyBridge,
         Realtime!briefVars, briefVars
    <3>3. CASE \E engaged \in BOOLEAN : Realtime!SetEngaged(engaged)
      BY <1>1, <3>3, SetEngagedMoves DEF Moved
    <3>4. CASE Realtime!Interrupt
      BY <1>1, <3>4, InterruptMoves DEF Moved
    <3>5. CASE Realtime!SendText
      BY <1>1, <3>5, SendTextMoves DEF Moved
    <3>6. CASE \E mode \in {"voice", "text"} : Realtime!SetResponseMode(mode)
      BY <1>1, <3>6, SetResponseModeMoves DEF Moved
    <3> QED BY <1>2, <3>1, <3>2, <3>3, <3>4, <3>5, <3>6 DEF RealtimeCommand
  <2> QED BY <1>1, <2>1, <2>2, RealtimeKeeps
<1>3. CASE RealtimeFault
  <2>1. moves' \in Nat /\ UNCHANGED <<cc, engine, switched, news>> /\ UNCHANGED questions
    BY <1>1, <1>3 DEF RealtimeFault, Move, Counted, Realtime!SocketCloses, Realtime!SetupTimeout,
       Realtime!ProviderFails, Realtime!SpeechStarts, Realtime!OnlyBridge, Realtime!KeepSession,
       Realtime!OrphanCloses, Realtime!OrphanTimeout, Realtime!OrphanFails, Realtime!OrphanSays
  <2> QED BY <1>1, <1>3, <2>1, RealtimeActsMove, RealtimeKeeps DEF Moved
<1>4. CASE RealtimeStep
  <2>1. UNCHANGED <<moves, cc, engine, switched, news>> /\ UNCHANGED questions
    BY <1>4 DEF RealtimeStep, Others, Realtime!OldSocketClosed, Realtime!ReconnectTimer,
       Realtime!SocketOpens, Realtime!LateRejection, Realtime!ProviderSays, Realtime!SpeechStops,
       Realtime!ToolReturns, Realtime!OnlyBridge, Realtime!KeepSession, Realtime!OrphanOpens,
       Realtime!OrphanEnds, Realtime!OrphanSays, Realtime!OrphanReceives
  <2> QED BY <1>1, <1>4, <2>1, RealtimeActsMove, RealtimeKeeps DEF Moved
<1>5. CASE RealtimeReceive \/ RealtimeWatchdog \/ RealtimeClosed
  <2>1. UNCHANGED <<moves, cc, engine, switched, news>> /\ UNCHANGED questions
    BY <1>5 DEF RealtimeReceive, RealtimeWatchdog, RealtimeClosed, Others, Realtime!Receive,
       Realtime!Watchdog, Realtime!SocketCloses, Realtime!OnlyBridge, Realtime!KeepSession
  <2> QED BY <1>1, <1>5, <2>1, RealtimeActsMove, RealtimeKeeps DEF Moved
<1> QED BY <1>2, <1>3, <1>4, <1>5

\* Every step of the cascade bridge keeps it.
LEMMA CascadeActsKeep ==
    ASSUME VoiceInvariant, CascadeCommand \/ CascadeFault \/ CascadeStep
    PROVE  VoiceInvariant'
<1>1. Good(cc) /\ moves \in Nat
  BY InvariantGives
<1>2. CASE CascadeCommand
  <2>1. /\ moves' \in Nat /\ engine = "cascade"
        /\ UNCHANGED <<rt, session, questions, engine, switched, news>>
    BY <1>1, <1>2 DEF CascadeCommand, Move, Counted, OfCascade
  <2>2. CascadeCommanded(cc)
    BY <1>1, <1>2, CascadeCommandIsSound DEF CascadeCommand
  <2> QED BY <2>1, <2>2, CascadeKeeps
<1>3. CASE CascadeFault
  <2>1. moves' \in Nat /\ UNCHANGED <<rt, session, questions, engine, switched, news>>
    BY <1>1, <1>3 DEF CascadeFault, Move, Counted
  <2>2. CascadeMoved(cc)
    BY <1>1, <1>3, ScribeMoves DEF CascadeFault
  <2> QED BY <2>1, <2>2, CascadeKeeps DEF CascadeMoved
<1>4. CASE CascadeStep
  <2>1. UNCHANGED <<moves, rt, session, questions, engine, switched, news>>
    BY <1>4 DEF CascadeStep, Others
  <2>2. CascadeMoved(cc)
    BY <1>1, <1>4, ScribeMoves, CascadeLateRejectionMoves, CascadeReconnectMoves, TranscriptMoves,
       RoundEndsMoves, RoundFailsMoves, CascadeToolReturnsMoves, SpeechEndsMoves DEF CascadeStep
  <2> QED BY <1>1, <2>1, <2>2, CascadeKeeps DEF CascadeMoved
<1> QED BY <1>2, <1>3, <1>4

\* The daemon starts with a sound state.
LEMMA VoiceInit == Init => VoiceInvariant
<1> SUFFICES ASSUME Init
             PROVE  VoiceInvariant
  OBVIOUS
<1>1. NoBriefs \in [Tasks -> Nat] /\ Realtime!NoBriefs = NoBriefs /\ Cascade!NoBriefs = NoBriefs
  BY DEF NoBriefs, Realtime!NoBriefs, Cascade!NoBriefs
<1>2. /\ rt = Realtime!Bridge(NoBriefs) /\ session = Realtime!NoSession /\ questions = NoBriefs
      /\ cc = Cascade!Cascade(NoBriefs) /\ engine \in {"realtime", "cascade"}
      /\ switched = FALSE /\ news = 0 /\ moves = 0
  BY <1>1 DEF Init, Realtime!RealtimeInit, Cascade!CascadeInit
<1>3. /\ rt \in Bridges /\ RealtimeSound(rt, session) /\ RealtimeRetired(rt) /\ rt.queue = NoBriefs
      /\ ~rt.overtaken /\ Good(cc) /\ CascadeRetired(cc) /\ cc.queue = NoBriefs
      /\ session \in Sessions
  BY <1>1, <1>2, BuiltIsSound, NoSessionTyped
<1>4. /\ rows = [t \in Tasks |-> [brief |-> 0, delivered |-> FALSE]]
      /\ queued = NoBriefs /\ told = {}
  BY DEF Init, StoreInit
<1>5. BriefsTyped
  <2>1. rows \in [Tasks -> [brief : Nat, delivered : BOOLEAN]]
    BY <1>4
  <2> QED BY <1>1, <1>4, <2>1 DEF BriefsTyped
<1>6. BriefsSound
  BY <1>2, <1>4 DEF BriefsSound, NoBriefs
<1>7. Pending = NoBriefs
  BY <1>4 DEF Pending, NoBriefs
<1>8. VoiceTyped
  BY <1>1, <1>2, <1>3, <1>5 DEF VoiceTyped, Good
<1> QED BY <1>2, <1>3, <1>6, <1>7, <1>8 DEF VoiceInvariant, RetirementSound, NeverServed, Queue, Good

\* Every step keeps it.
LEMMA VoiceStep == VoiceInvariant /\ [Next]_vars => VoiceInvariant'
<1> SUFFICES ASSUME VoiceInvariant, [Next]_vars
             PROVE  VoiceInvariant'
  OBVIOUS
<1>1. CASE UNCHANGED vars
  <2>1. UNCHANGED <<rows, queued, told, rt, session, questions, cc, engine, switched, news, moves>>
    BY <1>1 DEF vars, briefVars
  <2>2. Pending' = Pending /\ Queue' = Queue /\ (BriefsSound => BriefsSound') /\ BriefsTyped'
    BY <2>1 DEF Pending, Queue, BriefsSound, BriefsTyped, VoiceInvariant, VoiceTyped
  <2>3. VoiceTyped' /\ RetirementSound' /\ NeverServed'
    BY <2>1, <2>2 DEF VoiceInvariant, VoiceTyped, RetirementSound, NeverServed
  <2> QED BY <2>1, <2>2, <2>3 DEF VoiceInvariant
<1>2. CASE \E t \in Tasks, question \in BOOLEAN : TaskEvent(t, question)
  BY <1>2, TaskEventKeeps
<1> QED BY <1>1, <1>2, SwitchEngineKeeps, RebuiltKeeps, RealtimeActsKeep, CascadeActsKeep DEF Next

-----------------------------------------------------------------------------
(* The theorems.                                                           *)

\* The two bridges, the provider's session and the table of briefs keep to their
\* shape, and what is asked, told and open agrees between them.
THEOREM VoiceInvariantHolds == Spec => []VoiceInvariant
BY VoiceInit, VoiceStep, PTL DEF Spec

\* While the provider makes a response the bridge holds its slot, until its session
\* reports an error or a socket that was replaced moves the slot (requestResponse,
\* handleMessage).
THEOREM OneResponseAtATime == Spec => []SlotIsTheProviders
<1>1. VoiceInvariant => SlotIsTheProviders
  BY DEF VoiceInvariant, RealtimeSound, SlotHeld, SlotIsTheProviders
<1> QED BY <1>1, VoiceInvariantHolds, PTL

\* A response that was put off is never forgotten, but for the exceptions that
\* SomethingAsksAgain names (requestResponse, handleResponseDone).
THEOREM PutOffIsAskedAgain == Spec => []SomethingAsksAgain
<1>1. VoiceInvariant => SomethingAsksAgain
  BY DEF VoiceInvariant, RealtimeSound, AsksAgain, Waits, SomethingAsksAgain
<1> QED BY <1>1, VoiceInvariantHolds, PTL

\* The queue of the engine that serves is what the table holds undelivered, and what is
\* undelivered is what no model was told (flushBriefs, markDelivered).
THEOREM BriefsAreToldOnce == Spec => []StoreIsTheQueue
<1>1. VoiceInvariant => StoreIsTheQueue
  <2> SUFFICES ASSUME VoiceInvariant, ~switched
               PROVE  /\ Queue = Pending
                      /\ \A t \in Tasks : queued[t] # 0 => (queued[t] \in told <=> Pending[t] = 0)
    BY DEF StoreIsTheQueue
  <2>1. Queue = Pending /\ BriefsSound
    BY DEF VoiceInvariant
  <2>2. \A t \in Tasks : queued[t] # 0 => (rows[t].delivered <=> Pending[t] = 0)
    BY <2>1 DEF Pending, BriefsSound
  <2> QED BY <2>1, <2>2 DEF BriefsSound
<1> QED BY <1>1, VoiceInvariantHolds, PTL

\* Of the cascade's turns one asks the model or speaks, and an open call in the
\* history is that of a tool that runs (startTurn, runTurn).
THEOREM TurnsDoNotOverlap == Spec => []OneTurnSpeaks
<1>1. VoiceInvariant => OneTurnSpeaks
  BY DEF VoiceInvariant, CascadeSound, OneTurnSpeaks
<1> QED BY <1>1, VoiceInvariantHolds, PTL

\* A bridge that another engine has replaced opens no socket, whatever timer, wait or
\* message it was left with (disconnect, scheduleReconnect, openScribe).
THEOREM RetiredStaysRetired == Spec => RetiredEngineOpensNothing
<1> DEFINE RealtimeQuiet == engine = "cascade" /\ rt.socket = "none" /\ ~rt.overtaken
                            => rt'.socket = "none" \/ engine' = "realtime"
           CascadeQuiet == engine = "realtime" /\ cc.scribe = "none"
                           => cc'.scribe = "none" \/ engine' = "cascade"
<1>1. ASSUME VoiceInvariant, [Next]_vars
      PROVE  [RealtimeQuiet /\ CascadeQuiet]_vars
  <2>1. VoiceInvariant'
    BY <1>1, VoiceStep
  <2>2. engine' \in {"realtime", "cascade"} /\ RetirementSound'
    BY <2>1 DEF VoiceInvariant, VoiceTyped
  <2>3. CascadeQuiet
    BY <2>2 DEF RetirementSound, CascadeRetired
  <2>4. ASSUME engine = "cascade", engine' = "cascade", ~rt.overtaken
        PROVE  ~rt'.overtaken
    <3>1. RealtimeRetired(rt) /\ Realtime!Now.b = rt
      BY <1>1, <2>4, InvariantGives DEF VoiceInvariant, RetirementSound
    <3>2. CASE \/ RealtimeFault \/ RealtimeStep
               \/ RealtimeReceive \/ RealtimeWatchdog \/ RealtimeClosed
      BY <1>1, <2>4, <3>1, <3>2, RealtimeActsMove DEF Moved
    <3>3. CASE Restart
      BY <2>4, <3>3 DEF Restart, Realtime!RealtimeRestart, Realtime!Bridge
    <3>4. CASE rt' = rt
      BY <2>4, <3>4
    <3>5. ~RealtimeCommand /\ ~SwitchEngine
      BY <2>4 DEF RealtimeCommand, OfRealtime, SwitchEngine
    <3>6. \/ CascadeCommand \/ RebuildCascade \/ CascadeFault \/ CascadeStep
          \/ \E t \in Tasks, question \in BOOLEAN : TaskEvent(t, question)
          \/ UNCHANGED vars
          => rt' = rt
      BY <2>4 DEF CascadeCommand, OfCascade, RebuildCascade, CascadeFault, CascadeStep, Others,
         TaskEvent, vars
    <3> QED BY <1>1, <3>2, <3>3, <3>4, <3>5, <3>6 DEF Next
  <2>5. RealtimeQuiet
    BY <2>2, <2>4 DEF RetirementSound, RealtimeRetired
  <2> QED BY <2>3, <2>5
<1> QED BY <1>1, VoiceInvariantHolds, PTL DEF Spec, RetiredEngineOpensNothing
=============================================================================
