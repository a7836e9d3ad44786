--------------------------- MODULE OmpRunnerProofs ---------------------------
(***************************************************************************)
(* One session is at work, and no run is given up without a reason: for    *)
(* every set of ids, any number of turns and any interleaving of           *)
(* activations, sessions, their tools and the user.                        *)
(*                                                                         *)
(* Of the sessions more is shown: one that nobody disposed of is #session. *)
(* A new one is bound without a look at the one before, so the argument is *)
(* about the activations that have not bound theirs yet: if one of them is *)
(* of the run in the slot there is no session (NoSessionYet), because its  *)
(* start took the last one away, and a session bound since would be that   *)
(* of a run in the slot, too.                                              *)
(*                                                                         *)
(* A run at work is in good hands while its activation holds it (Holds).   *)
(* What a function of the runner may do to that is said of each by itself  *)
(* (Spares), so that a step, which may commit two decisions one after the  *)
(* other, is the composition of what it calls.  The invariant adds that    *)
(* the run of the slot is the only one at work (Slotted, about the         *)
(* controller's state alone) and that the runner knows of every pause that *)
(* was asked of its task (PauseKnown).                                     *)
(***************************************************************************)
EXTENDS OmpRunner, ControllerStateProofs, TLAPS

Fields == [generation : RunIds \cup {None}, taskId : TaskIds \cup {None},
           session : RunIds \cup {None}, pauseRequested : BOOLEAN,
           pauseAcknowledged : BOOLEAN, attribution : RunIds \cup {None}]
Turn == [at : Waits \cup {"none", "returned"}, task : TaskIds \cup {None},
         attempt : 0..MaxAttempts, session : RunIds \cup {None}]
Session == [at : {"none", "live", "stopped"}, streaming : BOOLEAN, aborted : BOOLEAN,
            call : {"none", "checking", "executing"}, awaits : BOOLEAN,
            attribution : {"clear", "pending", "conflict", "failed"},
            evidence : RunIds \cup {None}]
Stops == {"none", "aborting", "disposing", "done"}
Machines == [state : ControllerStates, wedged : BOOLEAN, runner : Fields,
             turns : [RunIds -> Turn], sessions : [RunIds -> Session],
             stops : [TaskIds -> Stops]]

\* The fields of a machine.
LEMMA MachineFields ==
    ASSUME NEW m \in Machines
    PROVE  /\ m.state \in ControllerStates /\ m.wedged \in BOOLEAN /\ m.runner \in Fields
           /\ m.turns \in [RunIds -> Turn] /\ m.sessions \in [RunIds -> Session]
           /\ m.stops \in [TaskIds -> Stops]
           /\ \A r \in RunIds : m.turns[r] \in Turn /\ m.sessions[r] \in Session
           /\ m.runner.session \in RunIds \cup {None}
           /\ m.runner.taskId \in TaskIds \cup {None}
BY DEF Machines, Fields

-----------------------------------------------------------------------------
(* The invariant.                                                          *)

\* Where an activation of #startTask has not bound its session yet.
Opening == {"disposing", "starting", "binding"}

\* An activation is one of a run that the controller has started.
ActivationsAreRuns(m) ==
    \A r \in RunIds : m.turns[r].at # "none" =>
        m.turns[r].task \in TaskIds /\ m.state.runs[r].state # "none"

\* A session, what it calls and the evidence it owes are of an activation.
Occupied(session) ==
    session.at # "none" \/ session.call # "none" \/ session.attribution = "pending"
SessionsHaveTasks(m) ==
    \A s \in RunIds : Occupied(m.sessions[s]) => m.turns[s].at # "none"

\* The session that nobody has disposed of is #session.
OneLive(m) == \A s \in RunIds : m.sessions[s].at = "live" <=> m.runner.session = s

\* There is none while the activation of the run in the slot is about to bind its own.
NoSessionYet(m) ==
    \A r \in RunIds :
        (m.turns[r].at \in Opening /\ SlotRun(m.state) = r) => m.runner.session = None

Ordered(m) ==
    /\ m \in Machines
    /\ ActivationsAreRuns(m)
    /\ SessionsHaveTasks(m)
    /\ OneLive(m)
    /\ NoSessionYet(m)

-----------------------------------------------------------------------------
(* What most functions on machines do: they bind and dispose of nothing,   *)
(* and no activation begins.                                               *)

TurnKept(before, after) ==
    /\ before.at = "none" => after.at = "none"
    /\ before.at # "none" => /\ after.task = before.task
                             /\ after.at # "none"
                             /\ after.at \in Opening => before.at \in Opening

Calm(m, n) ==
    /\ n \in Machines
    /\ n.state = m.state
    /\ n.runner.session = m.runner.session
    /\ \A s \in RunIds : /\ n.sessions[s].at = m.sessions[s].at
                         /\ Occupied(n.sessions[s]) => Occupied(m.sessions[s])
    /\ \A r \in RunIds : TurnKept(m.turns[r], n.turns[r])

\* One after another.
LEMMA CalmTransitive ==
    ASSUME NEW m, NEW n, NEW k, Calm(m, n), Calm(n, k)
    PROVE  Calm(m, k)
<1>1. \A r \in RunIds : TurnKept(m.turns[r], k.turns[r])
  BY DEF Calm, TurnKept
<1> QED BY <1>1 DEF Calm

\* Nothing at all.
LEMMA CalmItself ==
    ASSUME NEW m \in Machines
    PROVE  Calm(m, m)
BY DEF Calm, TurnKept

\* They keep the invariant.
LEMMA CalmOrdered ==
    ASSUME NEW m, Ordered(m), NEW n, Calm(m, n)
    PROVE  Ordered(n)
<1>1. n \in Machines /\ n.state = m.state /\ n.runner.session = m.runner.session
  BY DEF Calm
<1>2. \A r \in RunIds : TurnKept(m.turns[r], n.turns[r])
  BY DEF Calm
<1>3. \A s \in RunIds : /\ n.sessions[s].at = m.sessions[s].at
                        /\ Occupied(n.sessions[s]) => Occupied(m.sessions[s])
  BY DEF Calm
<1>4. ActivationsAreRuns(n)
  BY <1>1, <1>2 DEF Ordered, ActivationsAreRuns, TurnKept
<1>5. SessionsHaveTasks(n)
  BY <1>2, <1>3 DEF Ordered, SessionsHaveTasks, TurnKept
<1>6. OneLive(n)
  BY <1>1, <1>3 DEF Ordered, OneLive
<1>7. NoSessionYet(n)
  BY <1>1, <1>2 DEF Ordered, NoSessionYet, TurnKept, Opening
<1> QED BY <1>1, <1>4, <1>5, <1>6, <1>7 DEF Ordered

-----------------------------------------------------------------------------
(* Replacing the fields of the runner, one turn, one session, one stop.    *)

SetFields(m, fields) == [m EXCEPT !.runner = fields]
SetTurn(m, r, turn) == [m EXCEPT !.turns = [m.turns EXCEPT ![r] = turn]]
SetSession(m, s, session) == [m EXCEPT !.sessions = [m.sessions EXCEPT ![s] = session]]
SetStop(m, t, stop) == [m EXCEPT !.stops = [m.stops EXCEPT ![t] = stop]]

\* Fields that name the same session.
LEMMA SetFieldsCalm ==
    ASSUME NEW m \in Machines, NEW fields \in Fields, fields.session = m.runner.session
    PROVE  /\ Calm(m, SetFields(m, fields))
           /\ SetFields(m, fields).runner = fields
           /\ SetFields(m, fields).turns = m.turns
           /\ SetFields(m, fields).sessions = m.sessions
<1> DEFINE n == SetFields(m, fields)
<1>1. /\ n \in Machines /\ n.state = m.state /\ n.runner = fields
      /\ n.turns = m.turns /\ n.sessions = m.sessions
  BY DEF SetFields, Machines
<1> HIDE DEF n
<1> QED BY <1>1 DEF Calm, TurnKept, n

\* A turn that goes on.
LEMMA SetTurnCalm ==
    ASSUME NEW m \in Machines, NEW r \in RunIds, NEW turn \in Turn, TurnKept(m.turns[r], turn)
    PROVE  /\ Calm(m, SetTurn(m, r, turn))
           /\ SetTurn(m, r, turn).runner = m.runner
           /\ SetTurn(m, r, turn).sessions = m.sessions
           /\ SetTurn(m, r, turn).turns = [m.turns EXCEPT ![r] = turn]
<1> DEFINE n == SetTurn(m, r, turn)
<1>1. /\ n \in Machines /\ n.state = m.state /\ n.runner = m.runner
      /\ n.turns = [m.turns EXCEPT ![r] = turn] /\ n.sessions = m.sessions
  BY DEF SetTurn, Machines
<1>2. m.turns \in [RunIds -> Turn]
  BY MachineFields
<1> HIDE DEF n
<1>3. \A x \in RunIds : TurnKept(m.turns[x], n.turns[x])
  BY <1>1, <1>2 DEF TurnKept
<1> QED BY <1>1, <1>3 DEF Calm, n

\* A session that is neither bound nor disposed of.
LEMMA SetSessionCalm ==
    ASSUME NEW m \in Machines, NEW s \in RunIds, NEW session \in Session,
           session.at = m.sessions[s].at, Occupied(session) => Occupied(m.sessions[s])
    PROVE  /\ Calm(m, SetSession(m, s, session))
           /\ SetSession(m, s, session).runner = m.runner
           /\ SetSession(m, s, session).turns = m.turns
           /\ SetSession(m, s, session).sessions = [m.sessions EXCEPT ![s] = session]
<1> DEFINE n == SetSession(m, s, session)
<1>1. /\ n \in Machines /\ n.state = m.state /\ n.runner = m.runner
      /\ n.sessions = [m.sessions EXCEPT ![s] = session] /\ n.turns = m.turns
  BY DEF SetSession, Machines
<1>2. m.sessions \in [RunIds -> Session]
  BY MachineFields
<1> HIDE DEF n
<1>3. \A x \in RunIds : /\ n.sessions[x].at = m.sessions[x].at
                        /\ Occupied(n.sessions[x]) => Occupied(m.sessions[x])
  BY <1>1, <1>2
<1>4. \A x \in RunIds : TurnKept(m.turns[x], n.turns[x])
  BY <1>1 DEF TurnKept
<1> QED BY <1>1, <1>3, <1>4 DEF Calm, n

\* How far a cancellation is.
LEMMA SetStopCalm ==
    ASSUME NEW m \in Machines, NEW t \in TaskIds, NEW stop \in Stops
    PROVE  /\ Calm(m, SetStop(m, t, stop))
           /\ SetStop(m, t, stop).runner = m.runner
           /\ SetStop(m, t, stop).turns = m.turns
           /\ SetStop(m, t, stop).sessions = m.sessions
<1> DEFINE n == SetStop(m, t, stop)
<1>1. /\ n \in Machines /\ n.state = m.state /\ n.runner = m.runner
      /\ n.turns = m.turns /\ n.sessions = m.sessions
  BY DEF SetStop, Machines
<1> HIDE DEF n
<1> QED BY <1>1 DEF Calm, TurnKept, n

-----------------------------------------------------------------------------
(* The small functions.                                                    *)

\* workspaceGuard.finish, #taskId = null.
LEMMA ReleaseCalm ==
    ASSUME NEW m \in Machines
    PROVE  /\ Calm(m, Release(m))
           /\ Release(m).turns = m.turns /\ Release(m).sessions = m.sessions
<1> DEFINE fields == [m.runner EXCEPT !.taskId = None]
<1>1. m.runner \in Fields
  BY MachineFields
<1>2. fields \in Fields /\ fields.session = m.runner.session
  BY <1>1 DEF Fields
<1>3. Release(m) = SetFields(m, fields)
  BY DEF Release, SetFields
<1> HIDE DEF fields
<1>4. /\ Calm(m, SetFields(m, fields))
      /\ SetFields(m, fields).turns = m.turns /\ SetFields(m, fields).sessions = m.sessions
  BY <1>2, SetFieldsCalm
<1> QED BY <1>3, <1>4

\* An activation returns.
LEMMA ReturnedCalm ==
    ASSUME NEW m \in Machines, NEW r \in RunIds, m.turns[r].at # "none"
    PROVE  Calm(m, Returned(m, r))
<1> DEFINE turn == [m.turns[r] EXCEPT !.at = "returned", !.attempt = 0]
<1>1. m.turns[r] \in Turn /\ 0 \in 0..MaxAttempts
  BY MachineFields, MaxAttemptsAssumption
<1>2. turn \in Turn
  BY <1>1 DEF Turn
<1>3. turn.at = "returned" /\ turn.task = m.turns[r].task
  BY <1>1 DEF Turn
<1>4. Returned(m, r) = SetTurn(m, r, turn)
  BY DEF Returned, SetTurn
<1> HIDE DEF turn
<1>5. TurnKept(m.turns[r], turn)
  BY <1>3 DEF TurnKept, Opening
<1>6. Calm(m, SetTurn(m, r, turn))
  BY <1>2, <1>5, SetTurnCalm
<1> QED BY <1>4, <1>6

\* An activation waits for something else.
LEMMA WaitingCalm ==
    ASSUME NEW m \in Machines, NEW r \in RunIds, m.turns[r].at # "none", NEW wait \in Waits,
           wait \in Opening => m.turns[r].at \in Opening
    PROVE  /\ Calm(m, Waiting(m, r, wait))
           /\ Waiting(m, r, wait).turns[r].at = wait
           /\ Waiting(m, r, wait).runner = m.runner
           /\ Waiting(m, r, wait).sessions = m.sessions
<1> DEFINE turn == [m.turns[r] EXCEPT !.at = wait]
<1>1. m.turns[r] \in Turn /\ m.turns \in [RunIds -> Turn]
  BY MachineFields
<1>2. turn \in Turn
  BY <1>1 DEF Turn
<1>3. turn.at = wait /\ turn.task = m.turns[r].task
  BY <1>1 DEF Turn
<1>4. Waiting(m, r, wait) = SetTurn(m, r, turn)
  BY <1>1 DEF Waiting, SetTurn, Machines
<1> HIDE DEF turn
<1>5. TurnKept(m.turns[r], turn)
  BY <1>3 DEF TurnKept, Waits
<1>6. /\ Calm(m, SetTurn(m, r, turn))
      /\ SetTurn(m, r, turn).runner = m.runner
      /\ SetTurn(m, r, turn).sessions = m.sessions
      /\ SetTurn(m, r, turn).turns = [m.turns EXCEPT ![r] = turn]
  BY <1>2, <1>5, SetTurnCalm
<1>7. SetTurn(m, r, turn).turns[r].at = wait
  BY <1>1, <1>3, <1>6
<1> QED BY <1>4, <1>6, <1>7

\* A session is told to stop.
LEMMA AbortCalm ==
    ASSUME NEW m \in Machines, NEW s \in RunIds
    PROVE  /\ Calm(m, Abort(m, s))
           /\ Abort(m, s).runner = m.runner /\ Abort(m, s).turns = m.turns
           /\ Abort(m, s).sessions[s].at = m.sessions[s].at
<1> DEFINE session == [m.sessions[s] EXCEPT !.aborted = TRUE]
<1>1. m.sessions[s] \in Session /\ m.sessions \in [RunIds -> Session]
  BY MachineFields
<1>2. session \in Session
  BY <1>1 DEF Session
<1>3. session.at = m.sessions[s].at /\ (Occupied(session) <=> Occupied(m.sessions[s]))
  BY <1>1 DEF Session, Occupied
<1>4. Abort(m, s) = SetSession(m, s, session)
  BY DEF Abort, SetSession
<1> HIDE DEF session
<1>5. /\ Calm(m, SetSession(m, s, session))
      /\ SetSession(m, s, session).runner = m.runner
      /\ SetSession(m, s, session).turns = m.turns
      /\ SetSession(m, s, session).sessions = [m.sessions EXCEPT ![s] = session]
  BY <1>2, <1>3, SetSessionCalm
<1>6. SetSession(m, s, session).sessions[s] = session
  BY <1>1, <1>5
<1> QED BY <1>3, <1>4, <1>5, <1>6

\* A session that is occupied makes a call, or one is over.
LEMMA OnCallCalm ==
    ASSUME NEW m \in Machines, NEW s \in RunIds, NEW call \in {"none", "checking", "executing"},
           call # "none" => Occupied(m.sessions[s])
    PROVE  /\ Calm(m, OnCall(m, s, call))
           /\ OnCall(m, s, call).runner = m.runner /\ OnCall(m, s, call).turns = m.turns
<1> DEFINE session == [m.sessions[s] EXCEPT !.call = call, !.awaits = FALSE]
<1>1. m.sessions[s] \in Session
  BY MachineFields
<1>2. session \in Session
  BY <1>1 DEF Session
<1>3. session.at = m.sessions[s].at /\ (Occupied(session) => Occupied(m.sessions[s]))
  BY <1>1 DEF Session, Occupied
<1>4. OnCall(m, s, call) = SetSession(m, s, session)
  BY DEF OnCall, SetSession
<1> HIDE DEF session
<1>5. /\ Calm(m, SetSession(m, s, session))
      /\ SetSession(m, s, session).runner = m.runner
      /\ SetSession(m, s, session).turns = m.turns
  BY <1>2, <1>3, SetSessionCalm
<1> QED BY <1>4, <1>5

\* workspaceGuard.beforeTool begins, for a session that lives.
LEMMA BeforeToolCalm ==
    ASSUME NEW m \in Machines, NEW s \in RunIds, m.sessions[s].at = "live"
    PROVE  Calm(m, BeforeTool(m, s))
<1> DEFINE session == [m.sessions[s] EXCEPT !.call = "checking",
                                            !.awaits = m.runner.attribution = s]
<1>1. m.sessions[s] \in Session /\ (m.runner.attribution = s) \in BOOLEAN
  BY MachineFields
<1>2. session \in Session
  BY <1>1 DEF Session
<1>3. session.at = m.sessions[s].at /\ Occupied(m.sessions[s])
  BY <1>1 DEF Session, Occupied
<1>4. BeforeTool(m, s) = SetSession(m, s, session)
  BY DEF BeforeTool, SetSession
<1> HIDE DEF session
<1>5. Calm(m, SetSession(m, s, session))
  BY <1>2, <1>3, SetSessionCalm
<1> QED BY <1>4, <1>5

\* #startTask once the last session is disposed of.
LEMMA BeginCalm ==
    ASSUME NEW m \in Machines, NEW r \in RunIds, m.turns[r].at \in Opening,
           m.turns[r].task \in TaskIds
    PROVE  Calm(m, Begin(m, r))
<1> DEFINE t == m.turns[r].task
           fields == [m.runner EXCEPT
                         !.taskId = t,
                         !.pauseRequested = m.state.tasks[t].state = "pause_requested",
                         !.pauseAcknowledged = FALSE]
           n == SetFields(m, fields)
<1>1. m.runner \in Fields /\ (m.state.tasks[t].state = "pause_requested") \in BOOLEAN
  BY MachineFields
<1>2. fields \in Fields /\ fields.session = m.runner.session
  BY <1>1 DEF Fields
<1>3. Begin(m, r) = Returned(m, r) \/ Begin(m, r) = Waiting(n, r, "starting")
  BY DEF Begin, SetFields
<1>4. Calm(m, n) /\ n \in Machines /\ n.turns = m.turns
  <2> HIDE DEF fields
  <2> QED BY <1>2, SetFieldsCalm DEF Calm
<1> HIDE DEF n
<1>5. Calm(m, Returned(m, r))
  BY ReturnedCalm DEF Opening
<1>6. Calm(n, Waiting(n, r, "starting"))
  BY <1>4, WaitingCalm DEF Opening, Waits
<1>7. Calm(m, Waiting(n, r, "starting"))
  BY <1>4, <1>6, CalmTransitive
<1> QED BY <1>3, <1>5, <1>7

-----------------------------------------------------------------------------
(* Disposing of the session, and beginning an activation.                  *)

\* #session is stopped.
LEMMA TakeSessionOrdered ==
    ASSUME NEW m, Ordered(m)
    PROVE  LET n == TakeSession(m)
           IN  /\ Ordered(n)
               /\ n.state = m.state /\ n.turns = m.turns
               /\ n.runner.session = None
               /\ n.runner.taskId = m.runner.taskId
<1> DEFINE s == m.runner.session
           session == [m.sessions[s] EXCEPT !.at = "stopped"]
           fields == [m.runner EXCEPT !.session = None]
           n == TakeSession(m)
<1>1. m \in Machines /\ s \in RunIds \cup {None} /\ m.sessions \in [RunIds -> Session]
  BY MachineFields DEF Ordered
<1>2. CASE s = None
  BY <1>2 DEF TakeSession
<1>3. CASE s \in RunIds
  <2>1. s # None /\ m.sessions[s].at = "live"
    BY <1>1, <1>3, NoneAssumption DEF Ordered, OneLive
  <2>2. session \in Session /\ session.at = "stopped"
    BY <1>1, <1>3, MachineFields DEF Session
  <2>3. fields \in Fields /\ fields.session = None /\ fields.taskId = m.runner.taskId
    BY <1>1, MachineFields DEF Fields
  <2>4. n = SetFields(SetSession(m, s, session), fields)
    BY <2>1 DEF TakeSession, SetFields, SetSession
  <2> HIDE DEF session, fields
  <2>5. /\ n \in Machines /\ n.state = m.state /\ n.turns = m.turns /\ n.runner = fields
        /\ n.sessions = [m.sessions EXCEPT ![s] = session]
    <3> DEFINE k == SetSession(m, s, session)
    <3>1. /\ k \in Machines /\ k.state = m.state /\ k.turns = m.turns
          /\ k.sessions = [m.sessions EXCEPT ![s] = session]
      BY <1>1, <1>3, <2>2 DEF SetSession, Machines
    <3> HIDE DEF k
    <3> QED BY <2>3, <2>4, <3>1 DEF SetFields, Machines, k
  <2> HIDE DEF n
  <2>6. ActivationsAreRuns(n) /\ NoSessionYet(n)
    BY <2>3, <2>5 DEF Ordered, ActivationsAreRuns, NoSessionYet
  <2>7. \A x \in RunIds : n.sessions[x] = IF x = s THEN session ELSE m.sessions[x]
    BY <1>1, <2>5
  <2>8. SessionsHaveTasks(n)
    BY <2>1, <2>5, <2>7 DEF Ordered, SessionsHaveTasks, Occupied
  <2>9. OneLive(n)
    BY <2>2, <2>3, <2>5, <2>7, NoneAssumption DEF Ordered, OneLive
  <2> QED BY <2>3, <2>5, <2>6, <2>8, <2>9 DEF Ordered, n
<1> QED BY <1>1, <1>2, <1>3

\* A run that the controller has started gets its activation.
LEMMA BegunOrdered ==
    ASSUME NEW m, Ordered(m), NEW r \in RunIds, m.state.runs[r].state # "none",
           NEW turn \in Turn, turn.at # "none", turn.task \in TaskIds,
           turn.at \in Opening => m.runner.session = None
    PROVE  LET n == SetTurn(m, r, turn)
           IN  /\ Ordered(n)
               /\ n.state = m.state /\ n.runner = m.runner
               /\ n.turns = [m.turns EXCEPT ![r] = turn]
<1> DEFINE n == SetTurn(m, r, turn)
<1>1. m \in Machines /\ m.turns \in [RunIds -> Turn]
  BY MachineFields DEF Ordered
<1>2. /\ n \in Machines /\ n.state = m.state /\ n.runner = m.runner
      /\ n.turns = [m.turns EXCEPT ![r] = turn] /\ n.sessions = m.sessions
  BY <1>1 DEF SetTurn, Machines
<1> HIDE DEF n
<1>3. \A x \in RunIds : n.turns[x] = IF x = r THEN turn ELSE m.turns[x]
  BY <1>1, <1>2
<1>4. ActivationsAreRuns(n)
  BY <1>2, <1>3 DEF Ordered, ActivationsAreRuns
<1>5. SessionsHaveTasks(n)
  BY <1>2, <1>3 DEF Ordered, SessionsHaveTasks
<1>6. OneLive(n)
  BY <1>2 DEF Ordered, OneLive
<1>7. NoSessionYet(n)
  BY <1>2, <1>3 DEF Ordered, NoSessionYet
<1> QED BY <1>2, <1>4, <1>5, <1>6, <1>7 DEF Ordered, n

-----------------------------------------------------------------------------
(* Starting, resuming and cancelling.                                      *)

\* A machine in which an activation of run r has begun.
Begun(m, n, r) ==
    /\ Ordered(n)
    /\ n.state = m.state
    /\ \A x \in RunIds : x # r => n.turns[x] = m.turns[x]
    /\ n.turns[r].at # "none"

\* #startTask
LEMMA StartTaskBegins ==
    ASSUME NEW m, Ordered(m), NEW r \in RunIds, m.turns[r].at = "none",
           m.state.runs[r].state # "none", m.state.runs[r].taskId \in TaskIds
    PROVE  Begun(m, StartTask(m, r), r)
<1> DEFINE t == m.state.runs[r].taskId
           first == [m.turns[r] EXCEPT !.task = t]
           fields == [m.runner EXCEPT !.generation = r]
           started == SetTurn(SetFields(m, fields), r, first)
<1>1. m \in Machines /\ m.runner \in Fields /\ m.turns[r] \in Turn /\ m.turns \in [RunIds -> Turn]
  BY MachineFields DEF Ordered
<1>2. first \in Turn /\ first.at = "none" /\ first.task = t /\ first.attempt = m.turns[r].attempt
  BY <1>1 DEF Turn
<1>3. fields \in Fields /\ fields.session = m.runner.session
  BY <1>1 DEF Fields
<1>4. /\ Calm(m, started) /\ started \in Machines
      /\ started.runner = fields
      /\ started.turns = [m.turns EXCEPT ![r] = first]
  <2> DEFINE k == SetFields(m, fields)
  <2> HIDE DEF first, fields
  <2>1. Calm(m, k) /\ k.runner = fields /\ k.turns = m.turns /\ k \in Machines
    BY <1>1, <1>3, SetFieldsCalm DEF Calm
  <2> HIDE DEF k
  <2>2. TurnKept(k.turns[r], first)
    BY <1>2, <2>1 DEF TurnKept
  <2>3. /\ Calm(k, SetTurn(k, r, first))
        /\ SetTurn(k, r, first).runner = k.runner
        /\ SetTurn(k, r, first).turns = [k.turns EXCEPT ![r] = first]
    BY <1>2, <2>1, <2>2, SetTurnCalm
  <2>4. Calm(m, SetTurn(k, r, first))
    BY <2>1, <2>3, CalmTransitive
  <2> QED BY <2>1, <2>3, <2>4 DEF k, Calm
<1>5. Ordered(started) /\ started.state = m.state /\ started.turns[r] = first
  <2> HIDE DEF started, first
  <2> QED BY <1>1, <1>4, CalmOrdered DEF Calm
<1>6. StartTask(m, r) = IF m.runner.session = None THEN Begin(started, r)
                        ELSE Waiting(TakeSession(started), r, "disposing")
  BY <1>1 DEF StartTask, SetTurn, SetFields, Machines
<1> HIDE DEF started, first, fields
<1>7. ASSUME NEW k, Ordered(k), k.state = m.state, k.runner.session = None,
             k.turns[r] = first, \A x \in RunIds : x # r => k.turns[x] = m.turns[x],
             NEW turn \in Turn, turn.task = t, turn.at # "none"
      PROVE  Begun(m, SetTurn(k, r, turn), r)
  <2> DEFINE n == SetTurn(k, r, turn)
  <2>1. k.turns \in [RunIds -> Turn]
    BY <1>7, MachineFields DEF Ordered
  <2>2. Ordered(n) /\ n.state = k.state /\ n.turns = [k.turns EXCEPT ![r] = turn]
    BY <1>7, BegunOrdered
  <2> HIDE DEF n
  <2> QED BY <1>7, <2>1, <2>2 DEF Begun, n
<1>8. CASE m.runner.session = None
  <2> DEFINE after == [started.runner EXCEPT
                         !.taskId = t,
                         !.pauseRequested = started.state.tasks[t].state = "pause_requested",
                         !.pauseAcknowledged = FALSE]
             k == SetFields(started, after)
             over == [started.turns[r] EXCEPT !.at = "returned", !.attempt = 0]
             on == [k.turns[r] EXCEPT !.at = "starting"]
  <2>1. \/ Begin(started, r) = SetTurn(started, r, over)
        \/ Begin(started, r) = SetTurn(k, r, on)
    <3>1. started.turns[r].task = t
      BY <1>2, <1>5
    <3>2. Begin(started, r) = Returned(started, r) \/ Begin(started, r) = Waiting(k, r, "starting")
      BY <3>1 DEF Begin, SetFields
    <3>3. Returned(started, r) = SetTurn(started, r, over)
      BY DEF Returned, SetTurn
    <3> HIDE DEF k
    <3>4. Waiting(k, r, "starting") = SetTurn(k, r, on)
      BY DEF Waiting, SetTurn
    <3> QED BY <3>2, <3>3, <3>4
  <2>2. started.runner.session = None /\ started.runner \in Fields
    BY <1>3, <1>4, <1>8
  <2>3. after \in Fields /\ after.session = started.runner.session
    <3>1. (started.state.tasks[t].state = "pause_requested") \in BOOLEAN
      OBVIOUS
    <3> QED BY <2>2, <3>1 DEF Fields
  <2> HIDE DEF after
  <2>4. Calm(started, k) /\ k.turns = started.turns /\ k.state = m.state
    BY <1>4, <1>5, <2>3, SetFieldsCalm DEF Calm
  <2>5. Ordered(k) /\ k.runner.session = None
    BY <1>5, <2>2, <2>4, CalmOrdered DEF Calm
  <2> HIDE DEF k
  <2>6. over \in Turn /\ over.task = t /\ over.at = "returned"
    <3>1. 0 \in 0..MaxAttempts
      BY MaxAttemptsAssumption
    <3> QED BY <1>2, <1>5, <3>1 DEF Turn
  <2>7. on \in Turn /\ on.task = t /\ on.at = "starting"
    BY <1>2, <1>5, <2>4 DEF Turn, Waits
  <2>8. \A x \in RunIds : x # r => started.turns[x] = m.turns[x]
    BY <1>1, <1>4
  <2> HIDE DEF over, on
  <2>9. Begun(m, SetTurn(started, r, over), r)
    BY <1>5, <1>7, <2>2, <2>6, <2>8
  <2>10. Begun(m, SetTurn(k, r, on), r)
    BY <1>5, <1>7, <2>4, <2>5, <2>7, <2>8
  <2> QED BY <1>6, <1>8, <2>1, <2>9, <2>10
<1>9. CASE m.runner.session # None
  <2> DEFINE k == TakeSession(started)
             turn == [k.turns[r] EXCEPT !.at = "disposing"]
  <2>1. Ordered(k) /\ k.state = m.state /\ k.turns = started.turns /\ k.runner.session = None
    BY <1>5, TakeSessionOrdered
  <2> HIDE DEF k
  <2>2. turn \in Turn /\ turn.task = t /\ turn.at = "disposing"
    BY <1>2, <1>5, <2>1 DEF Turn, Waits
  <2>3. \A x \in RunIds : x # r => k.turns[x] = m.turns[x]
    BY <1>1, <1>4, <2>1
  <2>4. Waiting(k, r, "disposing") = SetTurn(k, r, turn)
    BY DEF Waiting, SetTurn
  <2> HIDE DEF turn
  <2>5. Begun(m, SetTurn(k, r, turn), r)
    BY <1>5, <1>7, <2>1, <2>2, <2>3
  <2> QED BY <1>6, <1>9, <2>4, <2>5 DEF k
<1> QED BY <1>8, <1>9

\* #resumeTask
LEMMA ResumeTaskBegins ==
    ASSUME NEW m, Ordered(m), NEW r \in RunIds, m.turns[r].at = "none",
           m.state.runs[r].state # "none", m.state.runs[r].taskId \in TaskIds
    PROVE  Begun(m, ResumeTask(m, r), r)
<1> DEFINE t == m.state.runs[r].taskId
           turn == [m.turns[r] EXCEPT !.task = t, !.at = "resuming"]
           fields == [m.runner EXCEPT !.generation = r, !.pauseRequested = FALSE,
                                      !.pauseAcknowledged = FALSE]
           k == SetFields(m, fields)
           n == SetTurn(k, r, turn)
<1>1. m \in Machines /\ m.runner \in Fields /\ m.turns[r] \in Turn /\ m.turns \in [RunIds -> Turn]
  BY MachineFields DEF Ordered
<1>2. turn \in Turn /\ turn.at = "resuming" /\ turn.task = t
  BY <1>1 DEF Turn, Waits
<1>3. fields \in Fields /\ fields.session = m.runner.session
  BY <1>1 DEF Fields
<1>4. \/ ResumeTask(m, r) = StartTask(m, r)
      \/ ResumeTask(m, r) = n
  BY <1>1 DEF ResumeTask, Waiting, SetTurn, SetFields, Machines
<1> HIDE DEF turn, fields
<1>5. Calm(m, k) /\ k.turns = m.turns
  BY <1>1, <1>3, SetFieldsCalm
<1>6. Ordered(k) /\ k.state = m.state
  BY <1>5, CalmOrdered DEF Calm
<1> HIDE DEF k
<1>7. Ordered(n) /\ n.state = k.state /\ n.turns = [k.turns EXCEPT ![r] = turn]
  BY <1>2, <1>6, BegunOrdered DEF Opening
<1> HIDE DEF n
<1>8. Begun(m, n, r)
  BY <1>1, <1>2, <1>5, <1>6, <1>7 DEF Begun
<1> QED BY <1>4, <1>8, StartTaskBegins

\* #stopCurrent begins.
LEMMA StopCurrentOrdered ==
    ASSUME NEW m, Ordered(m), NEW t \in TaskIds
    PROVE  LET n == StopCurrent(m, t)
           IN  Ordered(n) /\ n.state = m.state /\ n.turns = m.turns
<1> DEFINE s == m.runner.session
           fields == [m.runner EXCEPT !.generation = None]
           k == SetFields(m, fields)
           n == StopCurrent(m, t)
<1>1. /\ m \in Machines /\ m.runner \in Fields /\ s \in RunIds \cup {None}
      /\ m.stops \in [TaskIds -> Stops]
  BY MachineFields DEF Ordered
<1>2. fields \in Fields /\ fields.session = s
  BY <1>1 DEF Fields
<1>3. n = IF Streams(k, s)
          THEN SetStop(Abort(k, s), t, "aborting")
          ELSE IF s = None THEN Release(k)
          ELSE SetStop(TakeSession(k), t, "disposing")
  BY DEF StopCurrent, Streams, Abort, SetFields, SetStop
<1> HIDE DEF fields
<1>4. Calm(m, k) /\ k.turns = m.turns /\ k \in Machines
  BY <1>1, <1>2, SetFieldsCalm DEF Calm
<1>5. Ordered(k) /\ k.state = m.state
  BY <1>4, CalmOrdered DEF Calm
<1> HIDE DEF k, n
<1>6. CASE Streams(k, s)
  <2> DEFINE j == Abort(k, s)
  <2>1. s \in RunIds
    BY <1>1, <1>6 DEF Streams
  <2>2. Calm(k, j) /\ j \in Machines /\ j.turns = k.turns
    BY <1>4, <2>1, AbortCalm DEF Calm
  <2> HIDE DEF j
  <2>3. Calm(j, SetStop(j, t, "aborting")) /\ SetStop(j, t, "aborting").turns = j.turns
    BY <2>2, SetStopCalm DEF Stops
  <2>4. Calm(k, n) /\ n.turns = m.turns
    BY <1>3, <1>4, <1>6, <2>2, <2>3, CalmTransitive DEF j
  <2> QED BY <1>5, <2>4, CalmOrdered DEF Calm, n
<1>7. CASE s = None
  <2>1. ~Streams(k, s)
    BY <1>7 DEF Streams
  <2>2. Calm(k, n) /\ n.turns = m.turns
    BY <1>3, <1>4, <1>7, <2>1, ReleaseCalm
  <2> QED BY <1>5, <2>2, CalmOrdered DEF Calm, n
<1>8. CASE s # None /\ ~Streams(k, s)
  <2> DEFINE j == TakeSession(k)
  <2>1. Ordered(j) /\ j.state = m.state /\ j.turns = m.turns /\ j \in Machines
    BY <1>4, <1>5, TakeSessionOrdered DEF Ordered
  <2> HIDE DEF j
  <2>2. Calm(j, SetStop(j, t, "disposing")) /\ SetStop(j, t, "disposing").turns = j.turns
    BY <2>1, SetStopCalm DEF Stops
  <2>3. Calm(j, n) /\ n.turns = m.turns
    BY <1>3, <1>8, <2>1, <2>2 DEF j
  <2> QED BY <2>1, <2>3, CalmOrdered DEF Calm, n
<1> QED BY <1>6, <1>7, <1>8

-----------------------------------------------------------------------------
(* Decisions.                                                              *)

\* No activation begins, goes on or ends, and no run is lost.
Still(m, n) ==
    /\ Ordered(n)
    /\ n.turns = m.turns
    /\ RunsRemain(m.state, n.state)

\* Nothing at all, and one after another.
LEMMA StillItself == ASSUME NEW m, Ordered(m) PROVE Still(m, m)
BY DEF Still, RunsRemain

\* One after another.
LEMMA StillTransitive ==
    ASSUME NEW m, NEW n, NEW k, Still(m, n), Still(n, k)
    PROVE  Still(m, k)
BY DEF Still, RunsRemain

\* A calm function that leaves the activations.
LEMMA CalmStill ==
    ASSUME NEW m, Ordered(m), NEW n, Calm(m, n), n.turns = m.turns
    PROVE  Still(m, n)
<1>1. Ordered(n)
  BY CalmOrdered
<1> QED BY <1>1 DEF Still, Calm, RunsRemain

\* The decision is applied: a run that enters the slot has no activation yet.
LEMMA CommitStill ==
    ASSUME NEW m, Ordered(m), NEW events, Deliberate(events)
    PROVE  LET n == Commit(m, events)
               memory == ApplyDecision([state |-> m.state, ok |-> TRUE], events)
           IN  /\ Still(m, n)
               /\ n.state = memory.state /\ (n.wedged <=> ~memory.ok)
               /\ n.runner = m.runner /\ n.sessions = m.sessions
               /\ SlotRunIsNew(m.state, n.state)
<1> DEFINE n == Commit(m, events)
           memory == ApplyDecision([state |-> m.state, ok |-> TRUE], events)
<1>1. m \in Machines /\ m.state \in ControllerStates
  BY MachineFields DEF Ordered
<1>2. memory \in [state : ControllerStates, ok : BOOLEAN] /\ RunsRemain(m.state, memory.state)
  BY <1>1, DecisionRuns DEF Deliberate
<1>3. SlotRunIsNew(m.state, memory.state)
  BY <1>1, DecisionSlotRun DEF Deliberate
<1>4. n = [m EXCEPT !.state = memory.state, !.wedged = ~memory.ok]
  BY DEF Commit
<1> HIDE DEF memory, n
<1>5. /\ n \in Machines /\ n.state = memory.state /\ (n.wedged <=> ~memory.ok)
      /\ n.runner = m.runner /\ n.turns = m.turns /\ n.sessions = m.sessions
  BY <1>1, <1>2, <1>4 DEF Machines
<1>6. ActivationsAreRuns(n)
  BY <1>2, <1>5 DEF Ordered, ActivationsAreRuns, RunsRemain
<1>7. SessionsHaveTasks(n) /\ OneLive(n)
  BY <1>5 DEF Ordered, SessionsHaveTasks, OneLive
<1>8. NoSessionYet(n)
  <2> SUFFICES ASSUME NEW r \in RunIds, n.turns[r].at \in Opening, SlotRun(n.state) = r
               PROVE  n.runner.session = None
    BY DEF NoSessionYet
  <2>1. m.turns[r].at \in Opening /\ m.turns[r].at # "none"
    BY <1>5 DEF Opening
  <2>2. m.state.runs[r].state # "none"
    BY <2>1 DEF Ordered, ActivationsAreRuns
  <2>3. SlotRun(m.state) = r
    BY <1>3, <1>5, <2>2 DEF SlotRunIsNew
  <2> QED BY <1>5, <2>1, <2>3 DEF Ordered, NoSessionYet
<1> QED BY <1>2, <1>3, <1>5, <1>6, <1>7, <1>8 DEF Ordered, Still, n, memory

\* #acknowledgePause
LEMMA AcknowledgePauseStill ==
    ASSUME NEW m, Ordered(m)
    PROVE  Still(m, AcknowledgePause(m))
<1> DEFINE t == m.runner.taskId
           fields == [m.runner EXCEPT !.pauseAcknowledged = TRUE]
           k == SetFields(m, fields)
<1>1. /\ m \in Machines /\ m.state \in ControllerStates /\ m.runner \in Fields
      /\ t \in TaskIds \cup {None}
  BY MachineFields DEF Ordered
<1>2. fields \in Fields /\ fields.session = m.runner.session
  BY <1>1 DEF Fields
<1>3. \/ AcknowledgePause(m) = m
      \/ /\ t # None /\ CanPauseAtSafeBoundary(m.state, t)
         /\ AcknowledgePause(m) = Commit(k, PauseAtSafeBoundaryEvents(m.state, t))
  BY DEF AcknowledgePause, SetFields
<1> HIDE DEF fields
<1>4. Calm(m, k) /\ k.turns = m.turns
  BY <1>1, <1>2, SetFieldsCalm
<1> HIDE DEF k
<1>5. Still(m, k) /\ Ordered(k)
  BY <1>4, CalmStill DEF Still
<1>6. CASE t # None /\ CanPauseAtSafeBoundary(m.state, t)
  <2>1. Deliberate(PauseAtSafeBoundaryEvents(m.state, t))
    BY <1>1, <1>6, RunnerIsDeliberate
  <2>2. Still(k, Commit(k, PauseAtSafeBoundaryEvents(m.state, t)))
    BY <1>5, <2>1, CommitStill
  <2>3. Still(m, Commit(k, PauseAtSafeBoundaryEvents(m.state, t)))
    BY <1>5, <2>2, StillTransitive
  <2> QED BY <1>3, <2>3, StillItself
<1> QED BY <1>3, <1>6, StillItself

\* handleEvents, task.pauseRequested
LEMMA PauseRequestedStill ==
    ASSUME NEW m, Ordered(m), NEW t
    PROVE  Still(m, PauseRequested(m, t))
<1> DEFINE fields == [m.runner EXCEPT !.pauseRequested = TRUE, !.pauseAcknowledged = FALSE]
           k == SetFields(m, fields)
<1>1. m \in Machines /\ m.runner \in Fields
  BY MachineFields DEF Ordered
<1>2. fields \in Fields /\ fields.session = m.runner.session
  BY <1>1 DEF Fields
<1>3. PauseRequested(m, t) \in {m, k, AcknowledgePause(k)}
  BY DEF PauseRequested, SetFields
<1> HIDE DEF fields
<1>4. Calm(m, k) /\ k.turns = m.turns
  BY <1>1, <1>2, SetFieldsCalm
<1> HIDE DEF k
<1>5. Still(m, k) /\ Ordered(k)
  BY <1>4, CalmStill DEF Still
<1>6. Still(m, AcknowledgePause(k))
  BY <1>5, AcknowledgePauseStill, StillTransitive
<1> QED BY <1>3, <1>5, <1>6, StillItself

\* An event that starts nothing moves no activation.
LEMMA QuietlyHandled ==
    ASSUME NEW m, Ordered(m), NEW e \in Events, e.type \notin StartTypes
    PROVE  Still(m, HandleEvent(m, e))
<1>1. CASE e.type = "task.pauseRequested"
  BY <1>1, PauseRequestedStill DEF HandleEvent
<1>2. CASE e.type = "task.cancelled" /\ e.taskId = m.runner.taskId
  <2> DEFINE n == StopCurrent(m, e.taskId)
  <2>1. e.taskId \in TaskIds
    BY <1>2, EventTypes DEF TaskTypes, TaskIsRequired
  <2>2. Ordered(n) /\ n.state = m.state /\ n.turns = m.turns
    BY <2>1, StopCurrentOrdered
  <2>3. HandleEvent(m, e) = n
    BY <1>2 DEF HandleEvent
  <2> HIDE DEF n
  <2> QED BY <2>2, <2>3 DEF Still, RunsRemain
<1>3. CASE e.type # "task.pauseRequested" /\ ~(e.type = "task.cancelled" /\ e.taskId = m.runner.taskId)
  <2>1. HandleEvent(m, e) = m
    BY <1>3 DEF HandleEvent, StartTypes
  <2> QED BY <2>1, StillItself
<1> QED BY <1>1, <1>2, <1>3

\* An event that starts or resumes a run begins its activation.
LEMMA StartHandled ==
    ASSUME NEW m, Ordered(m), NEW e, e.type \in StartTypes, e.runId \in RunIds,
           m.turns[e.runId].at = "none",
           m.state.runs[e.runId].state # "none", m.state.runs[e.runId].taskId \in TaskIds
    PROVE  Begun(m, HandleEvent(m, e), e.runId)
<1>1. HandleEvent(m, e) \in {StartTask(m, e.runId), ResumeTask(m, e.runId)}
  BY DEF HandleEvent, StartTypes
<1> QED BY <1>1, StartTaskBegins, ResumeTaskBegins

-----------------------------------------------------------------------------
(* The events of a decision, one by one.                                   *)

\* Nothing follows a decision whose application throws.
Handled(m, e) == IF m.wedged THEN m ELSE HandleEvent(m, e)

\* The first n events of a decision, handled by machine m.
Handling(g, m, events, n) ==
    /\ g = [i \in 0..n |-> g[i]] /\ g[0] = m
    /\ \A i \in 1..n : g[i] = Handled(g[i - 1], events[i])

\* They can be handled, one by one.
LEMMA HandlingExists ==
    ASSUME NEW m, NEW events, NEW len \in Nat
    PROVE  \E g : Handling(g, m, events, len)
<1> DEFINE Bad == {n \in 0..len : ~ \E g : Handling(g, m, events, n)}
<1>1. SUFFICES ASSUME Bad # {} PROVE FALSE
  <2>1. len \in 0..len
    OBVIOUS
  <2>2. Bad = {} => \E g : Handling(g, m, events, len)
    BY <2>1
  <2> QED BY <2>2
<1>2. PICK n \in Bad : \A k \in Bad : n <= k
  <2>1. Bad \in SUBSET Nat
    OBVIOUS
  <2> HIDE DEF Bad
  <2> QED BY <1>1, <2>1, SmallestNat
<1>3. n \in 0..len /\ ~ \E g : Handling(g, m, events, n)
  OBVIOUS
<1>4. CASE n = 0
  <2> DEFINE g == [i \in 0..0 |-> m]
  <2>1. g = [i \in 0..0 |-> g[i]] /\ g[0] = m /\ \A i \in 1..0 : FALSE
    OBVIOUS
  <2> HIDE DEF g
  <2>2. Handling(g, m, events, 0)
    BY <2>1 DEF Handling
  <2> QED BY <1>3, <1>4, <2>2
<1>5. CASE n # 0
  <2>1. n - 1 \in 0..len /\ n - 1 \in Nat /\ n \in Nat /\ ~(n <= n - 1)
    BY <1>3, <1>5
  <2>2. n - 1 \notin Bad
    BY <1>2, <2>1
  <2>3. PICK g : Handling(g, m, events, n - 1)
    BY <2>1, <2>2
  <2> DEFINE k == Handled(g[n - 1], events[n])
             h == [i \in 0..n |-> IF i = n THEN k ELSE g[i]]
  <2>4. /\ h = [i \in 0..n |-> h[i]] /\ h[n] = k /\ h[0] = g[0]
        /\ \A i \in 1..(n - 1) : h[i] = g[i]
        /\ \A i \in 1..n : h[i - 1] = g[i - 1]
    BY <1>5, <2>1
  <2>5. k = Handled(g[n - 1], events[n])
    OBVIOUS
  <2> HIDE DEF h, k
  <2>6. \A i \in 1..n : h[i] = Handled(h[i - 1], events[i])
    <3> TAKE i \in 1..n
    <3>1. CASE i = n
      BY <2>4, <2>5, <3>1
    <3>2. CASE i # n
      <4>1. i \in 1..(n - 1)
        BY <2>1, <3>2
      <4>2. g[i] = Handled(g[i - 1], events[i])
        BY <2>3, <4>1 DEF Handling
      <4> QED BY <2>4, <4>1, <4>2
    <3> QED BY <3>1, <3>2
  <2>7. Handling(h, m, events, n)
    BY <2>3, <2>4, <2>6 DEF Handling
  <2> QED BY <1>3, <2>7
<1> QED BY <1>4, <1>5

\* The handling of a decision leaves what that of its last event leaves.
LEMMA HandledIsLast ==
    ASSUME NEW m, NEW events, NEW len \in Nat, Len(events) = len
    PROVE  \E f : Handling(f, m, events, len) /\ HandleEvents(m, events) = f[len]
<1> DEFINE Is(f) == f = [i \in 0..len |-> IF i = 0 THEN m
                                          ELSE IF f[i - 1].wedged THEN f[i - 1]
                                          ELSE HandleEvent(f[i - 1], events[i])]
           f == CHOOSE h : Is(h)
<1>1. HandleEvents(m, events) = f[len]
  BY DEF HandleEvents
<1>2. PICK g : Handling(g, m, events, len)
  BY HandlingExists
<1>3. Is(g)
  <2>1. /\ g = [i \in 0..len |-> g[i]] /\ g[0] = m
        /\ \A i \in 1..len : g[i] = Handled(g[i - 1], events[i])
    BY <1>2 DEF Handling
  <2>2. \A i \in 0..len : i = 0 \/ i \in 1..len
    OBVIOUS
  <2>3. [i \in 0..len |-> g[i]] = [i \in 0..len |-> IF i = 0 THEN m
                                          ELSE Handled(g[i - 1], events[i])]
    BY <2>1, <2>2
  <2> QED BY <2>1, <2>3 DEF Handled
<1>4. Is(f)
  <2> HIDE DEF Is
  <2> QED BY <1>3
<1> HIDE DEF f
<1>5. f = [i \in 0..len |-> IF i = 0 THEN m ELSE Handled(f[i - 1], events[i])]
  BY <1>4 DEF Handled
<1>6. Handling(f, m, events, len)
  <2> DEFINE k(i) == Handled(f[i - 1], events[i])
  <2>1. f = [i \in 0..len |-> IF i = 0 THEN m ELSE k(i)]
    BY <1>5
  <2>2. f[0] = m /\ \A i \in 1..len : f[i] = k(i)
    <3> HIDE DEF k
    <3> QED BY <2>1
  <2>3. f = [i \in 0..len |-> f[i]]
    <3> HIDE DEF k
    <3> QED BY <2>1
  <2> QED BY <2>2, <2>3 DEF Handling
<1> QED BY <1>1, <1>6

\* The runner is given at most the first, the second and the third event of a decision.
HandleNth(m, events, i) == IF i \in DOMAIN events THEN Handled(m, events[i]) ELSE m
\* A decision has no more than three.
LEMMA FewHandled ==
    ASSUME NEW m, NEW events \in Seq(Events), Len(events) \in 1..3
    PROVE  HandleEvents(m, events)
             = HandleNth(HandleNth(HandleNth(m, events, 1), events, 2), events, 3)
<1> DEFINE len == Len(events)
           m1 == HandleNth(m, events, 1)
           m2 == HandleNth(m1, events, 2)
           m3 == HandleNth(m2, events, 3)
<1>1. len \in Nat /\ (len = 1 \/ len = 2 \/ len = 3) /\ len = Len(events)
      /\ DOMAIN events = 1..len
  OBVIOUS
<1> HIDE DEF len
<1>2. PICK f : Handling(f, m, events, len) /\ HandleEvents(m, events) = f[len]
  BY <1>1, HandledIsLast
<1>3. f[1] = m1
  <2>1. 1 \in 1..len /\ 1 - 1 = 0
    BY <1>1
  <2> QED BY <1>1, <1>2, <2>1 DEF Handling, HandleNth
<1> HIDE DEF m1
<1>4. f[len] = m3
  <2>1. CASE len = 1
    <3>1. m2 = m1
      BY <1>1, <2>1 DEF HandleNth
    <3> HIDE DEF m2
    <3>2. m3 = m2
      BY <1>1, <2>1 DEF HandleNth
    <3> HIDE DEF m3
    <3> QED BY <1>3, <2>1, <3>1, <3>2
  <2>2. CASE len > 1
    <3>1. f[2] = m2
      <4>1. 2 \in 1..len /\ 2 - 1 = 1
        BY <1>1, <2>2
      <4>2. f[2] = Handled(f[1], events[2])
        BY <1>2, <4>1 DEF Handling
      <4> QED BY <1>1, <1>3, <4>1, <4>2 DEF HandleNth
    <3> HIDE DEF m2
    <3>2. CASE len = 2
      <4>1. m3 = m2
        BY <1>1, <3>2 DEF HandleNth
      <4> HIDE DEF m3
      <4> QED BY <3>1, <3>2, <4>1
    <3>3. CASE len = 3
      <4>1. 3 \in 1..len /\ 3 - 1 = 2
        BY <1>1, <3>3
      <4>2. f[3] = Handled(f[2], events[3])
        BY <1>2, <4>1 DEF Handling
      <4>3. f[3] = m3
        BY <1>1, <3>1, <4>1, <4>2 DEF HandleNth
      <4> HIDE DEF m3
      <4> QED BY <3>3, <4>3
    <3> QED BY <1>1, <2>2, <3>2, <3>3
  <2> QED BY <1>1, <2>1, <2>2
<1> HIDE DEF m2, m3
<1>5. HandleEvents(m, events) = m3
  BY <1>2, <1>4
<1> QED BY <1>5 DEF m1, m2, m3

\* What a function may do: it keeps the invariant, and an activation that has begun
\* does not begin again.
Fine(m, n) ==
    /\ Ordered(n)
    /\ \A r \in RunIds : m.turns[r].at # "none" =>
          n.turns[r].at # "none" /\ n.turns[r].task = m.turns[r].task

\* A decision leaves the activations where they are; the run that it starts had none.
Decided(m, n) ==
    /\ Ordered(n)
    /\ \A r \in RunIds : m.turns[r].at # "none" => n.turns[r] = m.turns[r]

\* So a decision of the controller, with what the runner does about it, keeps the invariant.
LEMMA DecideOrdered ==
    ASSUME NEW m, Ordered(m), NEW events, Deliberate(events)
    PROVE  Decided(m, Decide(m, events))
<1> DEFINE a == Commit(m, events)
           memory == ApplyDecision([state |-> m.state, ok |-> TRUE], events)
           last == events[Len(events)]
           n == Decide(m, events)
<1>1. m \in Machines /\ m.state \in ControllerStates
  BY MachineFields DEF Ordered
<1>2. events \in Seq(Events) /\ Len(events) \in 1..3 /\ StartsLast(events)
      /\ DOMAIN events = 1..Len(events)
  BY DEF Deliberate
<1>3. (memory.ok /\ last.type \in StartTypes) =>
          /\ last.taskId \in TaskIds /\ last.runId \in RunIds
          /\ m.state.runs[last.runId].state = "none"
          /\ memory.state.runs[last.runId].state # "none"
          /\ memory.state.runs[last.runId].taskId = last.taskId
  BY <1>1, <1>2, DecisionRuns
<1>4. Still(m, a) /\ a.state = memory.state /\ (a.wedged <=> ~memory.ok)
  BY CommitStill
<1>5. n = HandleNth(HandleNth(HandleNth(a, events, 1), events, 2), events, 3)
  <2>1. n = HandleEvents(a, events)
    BY DEF Decide
  <2> HIDE DEF n, a
  <2> QED BY <1>2, <2>1, FewHandled
<1> HIDE DEF memory, last, n, a
<1>6. CASE a.wedged
  <2>1. \A i : HandleNth(a, events, i) = a
    BY <1>6 DEF HandleNth, Handled
  <2>2. n = a
    BY <1>5, <2>1
  <2> QED BY <1>4, <2>2 DEF Decided, Still, n
<1>7. CASE ~a.wedged
  <2> DEFINE Good(k) == Still(a, k)
  <2>1. ASSUME NEW k, Good(k), NEW i, i \in DOMAIN events => events[i].type \notin StartTypes
        PROVE  Good(HandleNth(k, events, i))
    <3>1. Ordered(k)
      BY <2>1 DEF Still
    <3>2. i \in DOMAIN events => events[i] \in Events
      BY <1>2
    <3>3. Still(k, HandleNth(k, events, i))
      BY <2>1, <3>1, <3>2, QuietlyHandled, StillItself DEF HandleNth, Handled
    <3> QED BY <2>1, <3>3, StillTransitive
  <2>2. \A i \in DOMAIN events : i # Len(events) => events[i].type \notin StartTypes
    BY <1>2 DEF StartsLast
  <2>3. ASSUME NEW k, Good(k)
        PROVE  Decided(m, k)
    BY <1>4, <2>3 DEF Still, Decided
  <2>4. ASSUME NEW k, Good(k)
        PROVE  Decided(m, HandleNth(k, events, Len(events)))
    <3> DEFINE j == HandleNth(k, events, Len(events))
    <3>1. CASE last.type \notin StartTypes \/ k.wedged
      <4>1. j = k \/ Good(j)
        BY <2>1, <2>4, <3>1 DEF last, HandleNth, Handled
      <4> QED BY <2>3, <2>4, <4>1
    <3>2. CASE last.type \in StartTypes /\ ~k.wedged
      <4> DEFINE r == last.runId
      <4>1. /\ r \in RunIds /\ last.taskId \in TaskIds
            /\ m.state.runs[r].state = "none"
            /\ a.state.runs[r].state # "none" /\ a.state.runs[r].taskId = last.taskId
        BY <1>3, <1>4, <1>7, <3>2
      <4>2. m.turns[r].at = "none" /\ k.turns[r].at = "none" /\ k.turns = m.turns
        BY <1>4, <2>4, <4>1 DEF Ordered, ActivationsAreRuns, Still
      <4>3. Ordered(k) /\ k.state.runs[r].state # "none" /\ k.state.runs[r].taskId \in TaskIds
        BY <2>4, <4>1 DEF Still, RunsRemain
      <4>4. Begun(k, HandleEvent(k, last), r)
        BY <3>2, <4>1, <4>2, <4>3, StartHandled
      <4>5. j = HandleEvent(k, last)
        BY <1>2, <3>2 DEF HandleNth, Handled, last
      <4> HIDE DEF j, r
      <4>6. Begun(k, j, r)
        BY <4>4, <4>5 DEF r
      <4>7. Decided(m, j)
        BY <4>2, <4>6 DEF Begun, Decided
      <4> QED BY <4>7 DEF j
    <3> QED BY <3>1, <3>2
  <2>5. \A k : \A i : i \notin DOMAIN events => HandleNth(k, events, i) = k
    BY DEF HandleNth
  <2>6. Good(a)
    BY <1>4, StillItself DEF Still
  <2> DEFINE k1 == HandleNth(a, events, 1)
             k2 == HandleNth(k1, events, 2)
             k3 == HandleNth(k2, events, 3)
  <2>7. n = k3
    BY <1>5
  <2> HIDE DEF Good
  <2>8. CASE Len(events) = 1
    <3>1. Decided(m, k1)
      BY <2>4, <2>6, <2>8
    <3> HIDE DEF k1
    <3>2. k2 = k1
      BY <1>2, <2>5, <2>8
    <3> HIDE DEF k2
    <3>3. k3 = k2
      BY <1>2, <2>5, <2>8
    <3> QED BY <2>7, <3>1, <3>2, <3>3 DEF n
  <2>9. CASE Len(events) = 2
    <3>1. Good(k1)
      BY <1>2, <2>1, <2>2, <2>6, <2>9
    <3> HIDE DEF k1
    <3>2. Decided(m, k2)
      BY <2>4, <2>9, <3>1
    <3> HIDE DEF k2
    <3>3. k3 = k2
      BY <1>2, <2>5, <2>9
    <3> QED BY <2>7, <3>2, <3>3 DEF n
  <2>10. CASE Len(events) = 3
    <3>1. Good(k1)
      BY <1>2, <2>1, <2>2, <2>6, <2>10
    <3> HIDE DEF k1
    <3>2. Good(k2)
      BY <1>2, <2>1, <2>2, <2>10, <3>1
    <3> HIDE DEF k2
    <3>3. Decided(m, k3)
      BY <2>4, <2>10, <3>2
    <3> HIDE DEF k3
    <3> QED BY <2>7, <3>3 DEF n
  <2> QED BY <1>2, <2>8, <2>9, <2>10
<1> QED BY <1>6, <1>7

-----------------------------------------------------------------------------
(* Ends of an activation.                                                  *)

\* One function after another, and the functions that are fine.
LEMMA FineTransitive ==
    ASSUME NEW m, NEW n, NEW k, Fine(m, n), Fine(n, k)
    PROVE  Fine(m, k)
BY DEF Fine

\* One function after another, and the functions that are fine.
LEMMA SomeAreFine ==
    ASSUME NEW m, Ordered(m), NEW n
    PROVE  /\ n = m => Fine(m, n)
           /\ Calm(m, n) => Fine(m, n)
           /\ Still(m, n) => Fine(m, n)
           /\ Decided(m, n) => Fine(m, n)
<1>1. Calm(m, n) => Ordered(n)
  BY CalmOrdered
<1>2. Calm(m, n) => Fine(m, n)
  BY <1>1 DEF Calm, TurnKept, Fine
<1> QED BY <1>2 DEF Still, Decided, Fine

\* An activation is of a task.
LEMMA TaskOfTurn ==
    ASSUME NEW m, Ordered(m), NEW r \in RunIds, m.turns[r].at # "none"
    PROVE  m.turns[r].task \in TaskIds
BY DEF Ordered, ActivationsAreRuns

\* So is a session that is occupied.
LEMMA TaskOfSession ==
    ASSUME NEW m, Ordered(m), NEW s \in RunIds, Occupied(m.sessions[s])
    PROVE  TaskOf(m, s) \in TaskIds /\ m.turns[s].at # "none"
BY DEF Ordered, ActivationsAreRuns, SessionsHaveTasks, TaskOf

\* #disposeSession, and the fields are cleared.
LEMMA CleanUpFine ==
    ASSUME NEW m, Ordered(m), NEW r \in RunIds, m.turns[r].at # "none"
    PROVE  Fine(m, CleanUp(m, r))
<1>1. m \in Machines
  BY DEF Ordered
<1>2. Fine(m, Returned(Release(m), r))
  <2> DEFINE k == Release(m)
  <2>1. Calm(m, k) /\ k.turns = m.turns /\ k \in Machines
    BY <1>1, ReleaseCalm DEF Calm
  <2> HIDE DEF k
  <2>2. Calm(k, Returned(k, r))
    BY <2>1, ReturnedCalm
  <2>3. Calm(m, Returned(k, r))
    BY <2>1, <2>2, CalmTransitive
  <2> QED BY <2>3, SomeAreFine DEF k
<1>3. Fine(m, Waiting(TakeSession(m), r, "cleaning"))
  <2> DEFINE k == TakeSession(m)
  <2>1. Ordered(k) /\ k.turns = m.turns /\ k \in Machines
    BY TakeSessionOrdered DEF Ordered
  <2> HIDE DEF k
  <2>2. Calm(k, Waiting(k, r, "cleaning"))
    BY <2>1, WaitingCalm DEF Waits, Opening
  <2>3. Fine(m, k) /\ Fine(k, Waiting(k, r, "cleaning"))
    BY <2>1, <2>2, SomeAreFine DEF Fine
  <2> QED BY <2>3, FineTransitive DEF k
<1> QED BY <1>2, <1>3 DEF CleanUp

\* The activation returns.
LEMMA ReturnedFine ==
    ASSUME NEW m, Ordered(m), NEW r \in RunIds, m.turns[r].at # "none"
    PROVE  Fine(m, Returned(m, r))
BY ReturnedCalm, SomeAreFine DEF Ordered

\* The activation goes on.
LEMMA WaitingFine ==
    ASSUME NEW m, Ordered(m), NEW r \in RunIds, m.turns[r].at # "none",
           NEW wait \in Waits \ Opening
    PROVE  Fine(m, Waiting(m, r, wait))
BY WaitingCalm, SomeAreFine DEF Ordered

\* The end of #runTask.
LEMMA FinishTurnFine ==
    ASSUME NEW m, Ordered(m), NEW r \in RunIds, m.turns[r].at # "none"
    PROVE  Fine(m, FinishTurn(m, r))
BY CleanUpFine, ReturnedFine DEF FinishTurn

\* onFail
LEMMA OnFailDecided ==
    ASSUME NEW m, Ordered(m), NEW t \in TaskIds
    PROVE  Decided(m, OnFail(m, t))
<1>1. m.state \in ControllerStates
  BY MachineFields DEF Ordered
<1>2. CASE CanFinish(m.state, t)
  <2>1. Deliberate(FailEvents(m.state, t))
    BY <1>1, <1>2, RunnerIsDeliberate
  <2>2. OnFail(m, t) = Decide(m, FailEvents(m.state, t))
    BY <1>2 DEF OnFail, Signal
  <2> QED BY <2>1, <2>2, DecideOrdered
<1>3. CASE ~CanFinish(m.state, t)
  BY <1>3 DEF OnFail, Signal, Decided
<1> QED BY <1>2, <1>3

\* onComplete
LEMMA OnCompleteDecided ==
    ASSUME NEW m, Ordered(m), NEW t \in TaskIds
    PROVE  Decided(m, OnComplete(m, t))
<1>1. m.state \in ControllerStates
  BY MachineFields DEF Ordered
<1>2. CASE CanFinish(m.state, t)
  <2>1. Deliberate(CompleteEvents(m.state, t))
    BY <1>1, <1>2, RunnerIsDeliberate
  <2>2. OnComplete(m, t) = Decide(m, CompleteEvents(m.state, t))
    BY <1>2 DEF OnComplete, Signal
  <2> QED BY <2>1, <2>2, DecideOrdered
<1>3. CASE ~CanFinish(m.state, t)
  BY <1>3 DEF OnComplete, Signal, Decided
<1> QED BY <1>2, <1>3

\* The failure is followed by the end of an activation.
LEMMA FailedFine ==
    ASSUME NEW m, Ordered(m), NEW r \in RunIds, m.turns[r].at # "none"
    PROVE  /\ Fine(m, CleanUp(OnFail(m, m.turns[r].task), r))
           /\ Fine(m, FinishTurn(OnFail(m, m.turns[r].task), r))
<1> DEFINE k == OnFail(m, m.turns[r].task)
<1>1. Decided(m, k)
  BY TaskOfTurn, OnFailDecided
<1> HIDE DEF k
<1>2. Fine(m, k) /\ Ordered(k) /\ k.turns[r].at # "none"
  BY <1>1, SomeAreFine DEF Fine
<1>3. Fine(k, CleanUp(k, r)) /\ Fine(k, FinishTurn(k, r))
  BY <1>2, CleanUpFine, FinishTurnFine
<1> QED BY <1>2, <1>3, FineTransitive DEF k

\* the catch branch of #startTask
LEMMA StartThrowsFine ==
    ASSUME NEW m, Ordered(m), NEW r \in RunIds, m.turns[r].at # "none"
    PROVE  Fine(m, StartThrows(m, r))
BY ReturnedFine, FailedFine DEF StartThrows

\* #runTask, up to the end of the agent's turn
LEMMA RunTaskCalm ==
    ASSUME NEW m \in Machines, NEW r \in RunIds, m.turns[r].at # "none"
    PROVE  Calm(m, RunTask(m, r)) /\ RunTask(m, r).turns[r].at \notin Opening
<1> DEFINE s == m.runner.session
           turn == [m.turns[r] EXCEPT !.session = s, !.at = "prompted"]
           session == [m.sessions[s] EXCEPT !.streaming = TRUE, !.aborted = FALSE]
           k == SetSession(m, s, session)
           n == SetTurn(k, r, turn)
<1>1. /\ m.turns[r] \in Turn /\ s \in RunIds \cup {None}
      /\ m.turns \in [RunIds -> Turn]
  BY MachineFields
<1>2. CASE s = None \/ m.turns[r].task # m.runner.taskId
  <2>1. RunTask(m, r) = Returned(m, r)
    BY <1>2 DEF RunTask
  <2>2. Returned(m, r).turns[r].at = "returned"
    BY <1>1 DEF Returned, Machines, Turn
  <2> QED BY <2>1, <2>2, ReturnedCalm DEF Opening
<1>3. CASE ~(s = None \/ m.turns[r].task # m.runner.taskId)
  <2>1. s \in RunIds /\ m.sessions[s] \in Session
    BY <1>1, <1>3, MachineFields
  <2>2. session \in Session
    BY <2>1 DEF Session
  <2>3. session.at = m.sessions[s].at /\ (Occupied(session) => Occupied(m.sessions[s]))
    BY <2>1 DEF Session, Occupied
  <2>4. turn \in Turn
    BY <1>1, <2>1 DEF Turn, Waits
  <2>5. turn.at = "prompted" /\ turn.task = m.turns[r].task
    BY <1>1 DEF Turn
  <2>6. RunTask(m, r) = n
    BY <1>1, <1>3 DEF RunTask, Waiting, SetTurn, SetSession, Machines
  <2> HIDE DEF session, turn
  <2>7. Calm(m, k) /\ k \in Machines /\ k.turns = m.turns
    <3> HIDE DEF s
    <3>1. Calm(m, k) /\ k.turns = m.turns
      BY <2>1, <2>2, <2>3, SetSessionCalm
    <3> HIDE DEF k
    <3> QED BY <3>1 DEF Calm
  <2> HIDE DEF k
  <2>8. TurnKept(k.turns[r], turn)
    BY <2>5, <2>7 DEF TurnKept, Opening
  <2>9. Calm(k, n) /\ n.turns = [m.turns EXCEPT ![r] = turn]
    BY <2>4, <2>7, <2>8, SetTurnCalm
  <2> HIDE DEF n
  <2>10. Calm(m, n)
    BY <2>7, <2>9, CalmTransitive
  <2>11. n.turns[r].at = "prompted"
    BY <1>1, <2>5, <2>9
  <2> QED BY <2>6, <2>10, <2>11 DEF Opening
<1> QED BY <1>2, <1>3

\* It keeps the invariant.
LEMMA RunTaskFine ==
    ASSUME NEW m, Ordered(m), NEW r \in RunIds, m.turns[r].at # "none"
    PROVE  Fine(m, RunTask(m, r))
BY RunTaskCalm, SomeAreFine DEF Ordered

\* #reportWorkspaceConflict
LEMMA ReportConflictFine ==
    ASSUME NEW m, Ordered(m), NEW t \in TaskIds
    PROVE  Fine(m, ReportConflict(m, t))
<1> DEFINE fields == [m.runner EXCEPT !.pauseRequested = TRUE, !.pauseAcknowledged = TRUE]
           k == SetFields(m, fields)
           events == ReportWorkspaceConflictEvents(m.state, t)
<1>1. m \in Machines /\ m.runner \in Fields /\ m.state \in ControllerStates
  BY MachineFields DEF Ordered
<1>2. fields \in Fields /\ fields.session = m.runner.session
  BY <1>1 DEF Fields
<1>3. ReportConflict(m, t) = IF CanReportWorkspaceConflict(m.state, t) THEN Decide(k, events)
                             ELSE k
  <2>1. k = [m EXCEPT !.runner.pauseRequested = TRUE, !.runner.pauseAcknowledged = TRUE]
    BY DEF SetFields
  <2> HIDE DEF k
  <2> QED BY <2>1 DEF ReportConflict, Signal
<1> HIDE DEF fields
<1>4. Calm(m, k)
  BY <1>1, <1>2, SetFieldsCalm
<1> HIDE DEF k
<1>5. Fine(m, k) /\ Ordered(k)
  BY <1>4, SomeAreFine DEF Fine
<1>6. CASE CanReportWorkspaceConflict(m.state, t)
  <2>1. Deliberate(events)
    BY <1>1, <1>6, RunnerIsDeliberate
  <2> HIDE DEF events
  <2>2. Fine(k, Decide(k, events))
    BY <1>5, <2>1, DecideOrdered, SomeAreFine
  <2> QED BY <1>3, <1>5, <1>6, <2>2, FineTransitive
<1>7. CASE ~CanReportWorkspaceConflict(m.state, t)
  BY <1>3, <1>5, <1>7
<1> QED BY <1>6, <1>7

-----------------------------------------------------------------------------
(* Binding a session.                                                      *)

\* Of most events the runner is told nothing.
LEMMA QuietIsCommit ==
    ASSUME NEW m, NEW events \in Seq(Events), Len(events) = 1,
           events[1].type \notin StartTypes \cup {"task.pauseRequested", "task.cancelled"}
    PROVE  Decide(m, events) = Commit(m, events)
<1> DEFINE a == Commit(m, events)
<1>1. DOMAIN events = {1} /\ Len(events) \in 1..3
  OBVIOUS
<1>2. Decide(m, events) = HandleEvents(a, events)
  BY DEF Decide
<1> HIDE DEF a
<1>3. HandleEvents(a, events)
         = HandleNth(HandleNth(HandleNth(a, events, 1), events, 2), events, 3)
  BY <1>1, FewHandled
<1>4. HandleNth(a, events, 1) = a
  BY <1>1 DEF HandleNth, Handled, HandleEvent, StartTypes
<1>5. HandleNth(a, events, 2) = a /\ HandleNth(a, events, 3) = a
  BY <1>1 DEF HandleNth
<1> QED BY <1>2, <1>3, <1>4, <1>5 DEF a

\* It is told nothing of a session that is bound ...
LEMMA RecordIsCommit ==
    ASSUME NEW m, NEW t \in TaskIds, NEW r \in RunIds
    PROVE  LET events == RecordCoderSessionEvents(t, r)
           IN  Deliberate(events) /\ Decide(m, events) = Commit(m, events)
<1> DEFINE events == RecordCoderSessionEvents(t, r)
<1>1. Deliberate(events)
  <2>1. EmptyState \in ControllerStates
    BY EmptyStateTyped
  <2> QED BY <2>1, RunnerIsDeliberate
<1>2. Len(events) = 1 /\ events[1].type = "coder.sessionBound"
  BY DEF RecordCoderSessionEvents
<1> HIDE DEF events
<1>3. Decide(m, events) = Commit(m, events)
  BY <1>1, <1>2, QuietIsCommit DEF Deliberate, StartTypes
<1> QED BY <1>1, <1>3 DEF events

\* ... and nothing of an approval that is consumed.
LEMMA ConsumeIsCommit ==
    ASSUME NEW m, NEW c \in ConfirmationIds, NEW t \in TaskIds
    PROVE  LET events == ConsumeApprovalEvents(c)
           IN  Deliberate(events) /\ Decide(m, events) = Commit(m, events)
<1> DEFINE events == ConsumeApprovalEvents(c)
<1>1. Deliberate(events)
  <2>1. EmptyState \in ControllerStates
    BY EmptyStateTyped
  <2> QED BY <2>1, RunnerIsDeliberate
<1>2. Len(events) = 1 /\ events[1].type = "approval.consumed"
  BY DEF ConsumeApprovalEvents
<1> HIDE DEF events
<1>3. Decide(m, events) = Commit(m, events)
  BY <1>1, <1>2, QuietIsCommit DEF Deliberate, StartTypes
<1> QED BY <1>1, <1>3 DEF events

\* The invariant, but for the activation of run r.
OrderedBut(m, r) ==
    /\ m \in Machines
    /\ ActivationsAreRuns(m)
    /\ SessionsHaveTasks(m)
    /\ OneLive(m)
    /\ \A x \in RunIds \ {r} :
          (m.turns[x].at \in Opening /\ SlotRun(m.state) = x) => m.runner.session = None

\* It holds again once that activation goes on.
LEMMA OrderedAgain ==
    ASSUME NEW m, NEW r \in RunIds, OrderedBut(m, r), NEW n, Calm(m, n),
           n.turns[r].at \notin Opening
    PROVE  Fine(m, n)
<1>1. n \in Machines /\ n.state = m.state /\ n.runner.session = m.runner.session
  BY DEF Calm
<1>2. \A x \in RunIds : TurnKept(m.turns[x], n.turns[x])
  BY DEF Calm
<1>3. \A s \in RunIds : /\ n.sessions[s].at = m.sessions[s].at
                        /\ Occupied(n.sessions[s]) => Occupied(m.sessions[s])
  BY DEF Calm
<1>4. ActivationsAreRuns(n)
  BY <1>1, <1>2 DEF OrderedBut, ActivationsAreRuns, TurnKept
<1>5. SessionsHaveTasks(n)
  BY <1>2, <1>3 DEF OrderedBut, SessionsHaveTasks, TurnKept
<1>6. OneLive(n)
  BY <1>1, <1>3 DEF OrderedBut, OneLive
<1>7. NoSessionYet(n)
  BY <1>1, <1>2 DEF OrderedBut, NoSessionYet, TurnKept, Opening
<1>8. Ordered(n)
  BY <1>1, <1>4, <1>5, <1>6, <1>7 DEF Ordered
<1> QED BY <1>2, <1>8 DEF Fine, TurnKept

\* The session of run r becomes #session.
WithSession(m, r) == [m EXCEPT !.runner.session = r, !.sessions[r].at = "live"]

\* There was none, and no activation of the run in the slot is to bind another.
LEMMA BoundOrdered ==
    ASSUME NEW m, Ordered(m), NEW r \in RunIds, m.turns[r].at # "none",
           m.runner.session = None,
           \A x \in RunIds \ {r} : m.turns[x].at \in Opening => SlotRun(m.state) # x
    PROVE  LET n == WithSession(m, r)
           IN  OrderedBut(n, r) /\ n.turns = m.turns
<1> DEFINE fields == [m.runner EXCEPT !.session = r]
           session == [m.sessions[r] EXCEPT !.at = "live"]
           k == SetSession(m, r, session)
           n == SetFields(k, fields)
<1>1. /\ m \in Machines /\ m.runner \in Fields
      /\ m.sessions \in [RunIds -> Session] /\ m.sessions[r] \in Session
  BY MachineFields DEF Ordered
<1>2. fields \in Fields /\ fields.session = r
  BY <1>1 DEF Fields
<1>3. session \in Session /\ session.at = "live"
  BY <1>1 DEF Session
<1>4. WithSession(m, r) = n
  BY DEF WithSession, SetFields, SetSession
<1> HIDE DEF fields, session
<1>5. /\ k \in Machines /\ k.state = m.state /\ k.turns = m.turns
      /\ k.sessions = [m.sessions EXCEPT ![r] = session]
  BY <1>1, <1>3 DEF SetSession, Machines
<1> HIDE DEF k
<1>6. /\ n \in Machines /\ n.state = m.state /\ n.turns = m.turns /\ n.sessions = k.sessions
      /\ n.runner = fields
  BY <1>2, <1>5 DEF SetFields, Machines
<1> HIDE DEF n
<1>7. \A x \in RunIds : n.sessions[x] = IF x = r THEN session ELSE m.sessions[x]
  BY <1>1, <1>5, <1>6
<1>8. ActivationsAreRuns(n)
  BY <1>6 DEF Ordered, ActivationsAreRuns
<1>9. SessionsHaveTasks(n)
  BY <1>6, <1>7 DEF Ordered, SessionsHaveTasks
<1>10. OneLive(n)
  <2>1. \A x \in RunIds : m.sessions[x].at # "live"
    BY NoneAssumption DEF Ordered, OneLive
  <2> QED BY <1>2, <1>3, <1>6, <1>7, <2>1 DEF OneLive
<1>11. OrderedBut(n, r)
  BY <1>6, <1>8, <1>9, <1>10 DEF OrderedBut
<1> QED BY <1>4, <1>6, <1>11

\* onSessionBound, and then the session becomes #session.
LEMMA BindFine ==
    ASSUME NEW m, Ordered(m), NEW r \in RunIds, m.turns[r].at \in Opening
    PROVE  Fine(m, Bind(m, r))
<1> DEFINE t == m.turns[r].task
           a == Commit(m, RecordCoderSessionEvents(t, r))
           b == WithSession(a, r)
           n == RunTask(b, r)
<1>1. m.turns[r].at # "none" /\ t \in TaskIds
  BY TaskOfTurn DEF Opening
<1>2. CASE ~CanRecordCoderSession(m.state, t, r)
  BY <1>1, <1>2, StartThrowsFine DEF Bind
<1>3. CASE CanRecordCoderSession(m.state, t, r)
  <2>1. Deliberate(RecordCoderSessionEvents(t, r))
        /\ Decide(m, RecordCoderSessionEvents(t, r)) = a
    BY <1>1, RecordIsCommit
  <2>2. Bind(m, r) = n
    BY <1>3, <2>1 DEF Bind, WithSession
  <2>3. SlotRun(m.state) = r
    BY <1>1, <1>3, NoneAssumption DEF CanRecordCoderSession, IsActive, SlotRun
  <2>4. /\ Still(m, a) /\ a.runner = m.runner
        /\ SlotRunIsNew(m.state, a.state)
    BY <2>1, CommitStill
  <2> HIDE DEF a
  <2>5. Ordered(a) /\ a.turns = m.turns /\ a.runner.session = None
    BY <2>3, <2>4 DEF Ordered, NoSessionYet, Still
  <2>6. ASSUME NEW x \in RunIds \ {r}, a.turns[x].at \in Opening
        PROVE  SlotRun(a.state) # x
    <3>1. m.state.runs[x].state # "none"
      BY <2>5, <2>6 DEF Ordered, ActivationsAreRuns, Opening
    <3> QED BY <2>3, <2>4, <3>1 DEF SlotRunIsNew
  <2>7. OrderedBut(b, r) /\ b.turns = m.turns
    BY <1>1, <2>5, <2>6, BoundOrdered
  <2> HIDE DEF b
  <2>8. Calm(b, n) /\ n.turns[r].at \notin Opening
    BY <1>1, <2>7, RunTaskCalm DEF OrderedBut
  <2> HIDE DEF n
  <2>9. Fine(b, n)
    BY <2>7, <2>8, OrderedAgain
  <2> QED BY <2>2, <2>7, <2>9 DEF Fine
<1> QED BY <1>2, <1>3

-----------------------------------------------------------------------------
(* From functions to steps.                                                *)

\* machine is the record of the variables.
LEMMA MachineIs ==
    /\ machine.state = state /\ machine.runner = runner /\ machine.turns = turns
    /\ machine.sessions = sessions /\ machine.stops = stops
    /\ machine'.state = state' /\ machine'.runner = runner' /\ machine'.turns = turns'
    /\ machine'.sessions = sessions' /\ machine'.stops = stops'
BY DEF machine

\* A step makes a machine of the fields that it assigns.
LEMMA BecomesIs ==
    ASSUME NEW n \in Machines, Becomes(n)
    PROVE  machine' = n
<1>1. n = [state |-> n.state, wedged |-> n.wedged, runner |-> n.runner, turns |-> n.turns,
           sessions |-> n.sessions, stops |-> n.stops]
  BY DEF Machines
<1>2. machine' = [state |-> state', wedged |-> wedged', runner |-> runner', turns |-> turns',
                  sessions |-> sessions', stops |-> stops']
  BY DEF machine
<1> QED BY <1>1, <1>2 DEF Becomes

\* A step by a function that is fine.
LEMMA FineStep ==
    ASSUME NEW n, Fine(machine, n), Becomes(n)
    PROVE  Ordered(machine')
<1>1. n \in Machines /\ Ordered(n)
  BY DEF Fine, Ordered
<1> QED BY <1>1, BecomesIs

-----------------------------------------------------------------------------
(* Activations, from one wait to the next.                                 *)

\* The guard's attribution is replaced.
LEMMA AttributionCalm ==
    ASSUME NEW m \in Machines, NEW s \in RunIds \cup {None}
    PROVE  LET n == [m EXCEPT !.runner.attribution = s]
           IN  Calm(m, n) /\ n.turns = m.turns /\ n.sessions = m.sessions
<1> DEFINE fields == [m.runner EXCEPT !.attribution = s]
           n == [m EXCEPT !.runner.attribution = s]
<1>1. m.runner \in Fields
  BY MachineFields
<1>2. fields \in Fields /\ fields.session = m.runner.session
  BY <1>1 DEF Fields
<1>3. n = SetFields(m, fields)
  BY DEF SetFields
<1> HIDE DEF fields, n
<1>4. /\ Calm(m, SetFields(m, fields)) /\ SetFields(m, fields).turns = m.turns
      /\ SetFields(m, fields).sessions = m.sessions
  BY <1>2, SetFieldsCalm
<1> QED BY <1>3, <1>4 DEF n

\* The last session is disposed of.
LEMMA DisposedOrdered ==
    ASSUME Ordered(machine), NEW r \in RunIds, Disposed(r)
    PROVE  Ordered(machine')
<1>1. machine.turns[r].at \in Opening /\ machine.turns[r].at # "none" /\ Becomes(Begin(machine, r))
  BY MachineIs DEF Disposed, Opening
<1>2. Calm(machine, Begin(machine, r))
  BY <1>1, TaskOfTurn, BeginCalm DEF Ordered
<1> QED BY <1>1, <1>2, SomeAreFine, FineStep

\* A session is created, or that throws.
LEMMA SessionCreatedOrdered ==
    ASSUME Ordered(machine), NEW r \in RunIds, SessionCreated(r)
    PROVE  Ordered(machine')
<1> DEFINE k == IF runner.generation # r THEN Returned(machine, r)
                ELSE Waiting(machine, r, "binding")
           n == [k EXCEPT !.runner.attribution = None]
<1>1. /\ machine.turns[r].at \in Opening /\ machine.turns[r].at # "none"
      /\ machine \in Machines
  BY MachineIs DEF SessionCreated, Opening, Ordered
<1>2. Calm(machine, k)
  BY <1>1, ReturnedCalm, WaitingCalm DEF Opening, Waits
<1>3. Becomes(StartThrows(machine, r)) \/ Becomes(n)
  BY DEF SessionCreated
<1> HIDE DEF k
<1>4. Calm(k, n)
  BY <1>2, AttributionCalm DEF Calm
<1> HIDE DEF n
<1>5. Fine(machine, n)
  BY <1>2, <1>4, CalmTransitive, SomeAreFine
<1>6. Fine(machine, StartThrows(machine, r))
  BY <1>1, StartThrowsFine
<1> QED BY <1>3, <1>5, <1>6, FineStep

\* The session's file is there.
LEMMA SessionOnDiskOrdered ==
    ASSUME Ordered(machine), NEW r \in RunIds, SessionOnDisk(r)
    PROVE  Ordered(machine')
<1>1. machine.turns[r].at \in Opening /\ machine.turns[r].at # "none"
  BY MachineIs DEF SessionOnDisk, Opening
<1>2. Fine(machine, StartThrows(machine, r)) /\ Fine(machine, Bind(machine, r))
  BY <1>1, StartThrowsFine, BindFine
<1> QED BY <1>2, FineStep DEF SessionOnDisk

\* A prompt is rejected.
LEMMA PromptThrowsOrdered ==
    ASSUME Ordered(machine), NEW r \in RunIds, PromptThrows(r)
    PROVE  Ordered(machine')
<1> DEFINE session == [sessions[r] EXCEPT !.streaming = FALSE, !.call = "none"]
           k == [machine EXCEPT !.sessions[r].streaming = FALSE, !.sessions[r].call = "none"]
<1>1. machine.turns[r].at # "none" /\ machine \in Machines /\ sessions[r] \in Session
  BY MachineIs, MachineFields DEF PromptThrows, Ordered
<1>2. session \in Session
  BY <1>1 DEF Session
<1>3. session.at = sessions[r].at /\ (Occupied(session) => Occupied(sessions[r]))
  BY <1>1 DEF Session, Occupied
<1>4. k = SetSession(machine, r, session)
  BY MachineIs DEF SetSession
<1>5. Becomes(StartThrows(k, r))
  BY DEF PromptThrows
<1> HIDE DEF session, k
<1>6. Calm(machine, SetSession(machine, r, session))
      /\ SetSession(machine, r, session).turns = machine.turns
  BY <1>1, <1>2, <1>3, SetSessionCalm, MachineIs
<1>7. Fine(machine, k) /\ Ordered(k) /\ k.turns = machine.turns
  BY <1>4, <1>6, SomeAreFine DEF Fine
<1>8. Fine(k, StartThrows(k, r))
  BY <1>1, <1>7, StartThrowsFine
<1> QED BY <1>5, <1>7, <1>8, FineTransitive, FineStep

\* #resumeTask goes on.
LEMMA RebindFine ==
    ASSUME NEW m, Ordered(m), NEW r \in RunIds, m.turns[r].at # "none"
    PROVE  Fine(m, Rebind(m, r))
<1> DEFINE t == m.turns[r].task
           a == Decide(m, RecordCoderSessionEvents(t, r))
<1>1. t \in TaskIds
  BY TaskOfTurn
<1>2. Fine(m, a)
  BY <1>1, RecordIsCommit, DecideOrdered, SomeAreFine
<1>3. \/ Rebind(m, r) = Returned(m, r)
      \/ Rebind(m, r) = Waiting(a, r, "reconciling")
      \/ Rebind(m, r) = CleanUp(OnFail(m, m.turns[r].task), r)
  BY DEF Rebind
<1> HIDE DEF a
<1>4. Fine(a, Waiting(a, r, "reconciling"))
  BY <1>2, WaitingFine DEF Waits, Opening, Fine
<1>5. Fine(m, Waiting(a, r, "reconciling"))
  BY <1>2, <1>4, FineTransitive
<1> QED BY <1>3, <1>5, ReturnedFine, FailedFine

\* The session is idle.
LEMMA SessionIsIdleOrdered ==
    ASSUME Ordered(machine), NEW r \in RunIds, SessionIsIdle(r)
    PROVE  Ordered(machine')
<1>1. machine.turns[r].at # "none"
  BY MachineIs DEF SessionIsIdle
<1>2. Fine(machine, Rebind(machine, r))
  BY <1>1, RebindFine
<1> QED BY <1>2, FineStep DEF SessionIsIdle

\* The guard's scan is over, or has thrown.
LEMMA ReconciledOrdered ==
    ASSUME Ordered(machine), NEW r \in RunIds, Reconciled(r)
    PROVE  Ordered(machine')
<1> DEFINE clear == [machine EXCEPT !.runner.attribution = None]
<1>1. machine.turns[r].at # "none" /\ machine \in Machines
  BY MachineIs DEF Reconciled, Ordered
<1>2. Calm(machine, clear) /\ clear.turns = machine.turns
  BY <1>1, AttributionCalm
<1>3. \/ Becomes(Returned(machine, r))
      \/ Becomes(RunTask(clear, r))
      \/ Becomes(Returned(clear, r))
  BY DEF Reconciled
<1> HIDE DEF clear
<1>4. Fine(machine, clear) /\ Ordered(clear)
  BY <1>2, SomeAreFine DEF Fine
<1>5. Fine(clear, RunTask(clear, r)) /\ Fine(clear, Returned(clear, r))
  BY <1>1, <1>2, <1>4, RunTaskFine, ReturnedFine
<1>6. Fine(machine, Returned(machine, r))
  BY <1>1, ReturnedFine
<1>7. Fine(machine, RunTask(clear, r)) /\ Fine(machine, Returned(clear, r))
  BY <1>4, <1>5, FineTransitive
<1> QED BY <1>3, <1>6, <1>7, FineStep

\* A function that is fine, and then the activation returns, or its turn ends.
LEMMA ThenEnds ==
    ASSUME NEW m, Ordered(m), NEW r \in RunIds, m.turns[r].at # "none", NEW n, Fine(m, n)
    PROVE  Fine(m, Returned(n, r)) /\ Fine(m, FinishTurn(n, r))
<1>1. Ordered(n) /\ n.turns[r].at # "none"
  BY DEF Fine
<1>2. Fine(n, Returned(n, r)) /\ Fine(n, FinishTurn(n, r))
  BY <1>1, ReturnedFine, FinishTurnFine
<1> QED BY <1>2, FineTransitive

\* onNeedInput
LEMMA NeedInputFine ==
    ASSUME NEW m, Ordered(m), NEW r \in RunIds, m.turns[r].at # "none", NEW q \in QuestionIds
    PROVE  Fine(m, NeedInput(m, r, q))
<1> DEFINE t == m.turns[r].task
           events == AwaitUserInputEvents(m.state, t, q)
<1>1. t \in TaskIds /\ m.state \in ControllerStates
  BY TaskOfTurn, MachineFields DEF Ordered
<1>2. CASE CanAwaitUserInput(m.state, t, q)
  <2>1. Deliberate(events)
    BY <1>1, <1>2, RunnerIsDeliberate
  <2>2. NeedInput(m, r, q) = Returned(Decide(m, events), r)
    BY <1>2 DEF NeedInput
  <2> HIDE DEF events
  <2>3. Fine(m, Decide(m, events))
    BY <2>1, DecideOrdered, SomeAreFine
  <2> QED BY <2>2, <2>3, ThenEnds
<1>3. CASE ~CanAwaitUserInput(m.state, t, q)
  BY <1>3, FailedFine DEF NeedInput
<1> QED BY <1>2, <1>3

\* The evidence is refused: the agent is asked again, a bounded number of times.
LEMMA TryAgainFine ==
    ASSUME NEW m, Ordered(m), NEW r \in RunIds, m.turns[r].at # "none"
    PROVE  Fine(m, TryAgain(m, r))
<1> DEFINE turn == [m.turns[r] EXCEPT !.attempt = @ + 1]
           k == SetTurn(m, r, turn)
<1>1. m \in Machines /\ m.turns[r] \in Turn
  BY MachineFields DEF Ordered
<1>2. CASE m.turns[r].attempt = MaxAttempts
  BY <1>2, FailedFine DEF TryAgain
<1>3. CASE m.turns[r].attempt # MaxAttempts
  <2>1. m.turns[r].attempt + 1 \in 0..MaxAttempts
    BY <1>1, <1>3, MaxAttemptsAssumption DEF Turn
  <2>2. turn \in Turn
    BY <1>1, <2>1 DEF Turn
  <2>3. turn.at = m.turns[r].at /\ turn.task = m.turns[r].task
    BY <1>1 DEF Turn
  <2>4. TryAgain(m, r) = RunTask(k, r)
    BY <1>3 DEF TryAgain, SetTurn
  <2> HIDE DEF turn
  <2>5. TurnKept(m.turns[r], turn)
    BY <2>3 DEF TurnKept
  <2>6. Calm(m, k)
    BY <1>1, <2>2, <2>5, SetTurnCalm
  <2> HIDE DEF k
  <2>7. Fine(m, k)
    BY <2>6, SomeAreFine
  <2>8. Fine(k, RunTask(k, r))
    BY <2>7, RunTaskFine DEF Fine
  <2> QED BY <2>4, <2>7, <2>8, FineTransitive
<1> QED BY <1>2, <1>3

\* The evidence that was pending is recorded: the end of #runTask's turn.
LEMMA GatheredOrdered ==
    ASSUME Ordered(machine), NEW r \in RunIds, Gathered(r)
    PROVE  Ordered(machine')
<1> DEFINE t == turns[r].task
<1>1. /\ machine.turns[r].at # "none" /\ t = machine.turns[r].task /\ t \in TaskIds
      /\ machine.state = state /\ state \in ControllerStates
  <2>1. machine.turns[r].at # "none"
    BY MachineIs DEF Gathered
  <2> QED BY <2>1, TaskOfTurn, MachineIs, MachineFields DEF Ordered
<1>2. Fine(machine, Returned(machine, r))
  BY <1>1, ReturnedFine
<1>3. Fine(machine, Returned(AcknowledgePause(machine), r))
  <2>1. Fine(machine, AcknowledgePause(machine))
    BY AcknowledgePauseStill, SomeAreFine
  <2> QED BY <1>1, <2>1, ThenEnds
<1>4. Fine(machine, FinishTurn(OnFail(machine, t), r)) /\ Fine(machine, TryAgain(machine, r))
  BY <1>1, FailedFine, TryAgainFine
<1>5. \A q \in QuestionIds : Fine(machine, NeedInput(machine, r, q))
  BY <1>1, NeedInputFine
<1>6. CASE state.tasks[t].state = "running" /\ IsCurrent(machine, r) /\ Outcome(r)
  <2>1. Fine(machine, FinishTurn(OnComplete(machine, t), r))
    <3>1. Fine(machine, OnComplete(machine, t))
      BY <1>1, OnCompleteDecided, SomeAreFine
    <3> QED BY <1>1, <3>1, ThenEnds
  <2> QED BY <1>4, <1>5, <1>6, <2>1, FineStep DEF Outcome
<1> QED BY <1>2, <1>3, <1>6, FineStep DEF Gathered

\* The disposal at the end is over.
LEMMA CleanedUpOrdered ==
    ASSUME Ordered(machine), NEW r \in RunIds, CleanedUp(r)
    PROVE  Ordered(machine')
<1>1. machine.turns[r].at # "none" /\ machine \in Machines
  BY MachineIs DEF CleanedUp, Ordered
<1>2. Fine(machine, Release(machine))
  BY <1>1, ReleaseCalm, SomeAreFine
<1>3. Fine(machine, Returned(Release(machine), r))
  BY <1>1, <1>2, ThenEnds
<1> QED BY <1>3, FineStep DEF CleanedUp

\* #stopCurrent goes on.
LEMMA StoppedOrdered ==
    ASSUME Ordered(machine), NEW t \in TaskIds, Stopped(t)
    PROVE  Ordered(machine')
<1> DEFINE Set(stop) == [machine EXCEPT !.stops[t] = stop]
<1>1. ASSUME NEW stop \in Stops
      PROVE  Calm(machine, Set(stop)) /\ Set(stop) \in Machines
  <2>1. Set(stop) = SetStop(machine, t, stop)
    BY DEF SetStop
  <2>2. Calm(machine, SetStop(machine, t, stop))
    BY SetStopCalm DEF Ordered
  <2> QED BY <2>1, <2>2 DEF Calm
<1>2. \/ Becomes(Release(Set("done")))
      \/ Becomes(TakeSession(Set("disposing")))
  BY DEF Stopped
<1> HIDE DEF Set
<1>3. Fine(machine, Release(Set("done")))
  <2>1. Calm(machine, Set("done")) /\ Set("done") \in Machines
    BY <1>1 DEF Stops
  <2>2. Calm(Set("done"), Release(Set("done")))
    BY <2>1, ReleaseCalm
  <2> QED BY <2>1, <2>2, CalmTransitive, SomeAreFine
<1>4. Fine(machine, TakeSession(Set("disposing")))
  <2>1. Fine(machine, Set("disposing"))
    BY <1>1, SomeAreFine DEF Stops
  <2> DEFINE k == Set("disposing")
  <2>2. Ordered(k)
    BY <2>1 DEF Fine
  <2> HIDE DEF k
  <2>3. Ordered(TakeSession(k)) /\ TakeSession(k).turns = k.turns
    BY <2>2, TakeSessionOrdered
  <2>4. Fine(k, TakeSession(k))
    BY <2>3 DEF Fine
  <2> QED BY <2>1, <2>4, FineTransitive DEF k
<1> QED BY <1>2, <1>3, <1>4, FineStep

-----------------------------------------------------------------------------
(* The agent and its tools.                                                *)

\* A free session lives, and is of a task.
LEMMA FreeSession ==
    ASSUME Ordered(machine), NEW s \in RunIds, Free(s)
    PROVE  /\ machine.sessions[s].at = "live" /\ Occupied(machine.sessions[s])
           /\ TaskOf(machine, s) \in TaskIds
<1>1. machine.sessions[s].at = "live"
  BY MachineIs DEF Free
<1>2. Occupied(machine.sessions[s])
  BY <1>1 DEF Occupied
<1> QED BY <1>1, <1>2, TaskOfSession

\* A routine call, or one that a requested pause stops.
LEMMA RoutineCallOrdered ==
    ASSUME Ordered(machine), NEW s \in RunIds, RoutineCall(s)
    PROVE  Ordered(machine')
<1> DEFINE k == Abort(machine, s)
<1>1. machine.sessions[s].at = "live" /\ machine \in Machines
  BY FreeSession DEF RoutineCall, Ordered
<1>2. Fine(machine, BeforeTool(machine, s))
  BY <1>1, BeforeToolCalm, SomeAreFine
<1>3. Becomes(AcknowledgePause(k)) \/ Becomes(BeforeTool(machine, s))
  BY DEF RoutineCall
<1>4. Fine(machine, k) /\ Ordered(k)
  BY <1>1, AbortCalm, SomeAreFine DEF Fine
<1> HIDE DEF k
<1>5. Fine(k, AcknowledgePause(k))
  BY <1>4, AcknowledgePauseStill, SomeAreFine
<1>6. Fine(machine, AcknowledgePause(k))
  BY <1>4, <1>5, FineTransitive
<1> QED BY <1>2, <1>3, <1>6, FineStep

\* A call that needs approval.
LEMMA SensitiveCallOrdered ==
    ASSUME Ordered(machine), NEW s \in RunIds, NEW fingerprint \in Fingerprints,
           SensitiveCall(s, fingerprint)
    PROVE  Ordered(machine')
<1> DEFINE t == TaskOf(machine, s)
<1>1. /\ machine.sessions[s].at = "live" /\ t \in TaskIds
      /\ machine \in Machines /\ state \in ControllerStates /\ machine.state = state
  BY FreeSession, MachineIs, MachineFields DEF SensitiveCall, Ordered
<1>2. ASSUME NEW c \in Confirmations(state, t, fingerprint, "approved"),
             Becomes(BeforeTool(Decide(machine, ConsumeApprovalEvents(c)), s))
      PROVE  Ordered(machine')
  <2> DEFINE a == Commit(machine, ConsumeApprovalEvents(c))
  <2>1. c \in ConfirmationIds
    BY <1>2 DEF Confirmations
  <2>2. Deliberate(ConsumeApprovalEvents(c)) /\ Decide(machine, ConsumeApprovalEvents(c)) = a
    BY <1>1, <2>1, ConsumeIsCommit
  <2>3. Still(machine, a) /\ a.sessions = machine.sessions
    BY <2>2, CommitStill
  <2> HIDE DEF a
  <2>4. Fine(machine, a) /\ Ordered(a) /\ a \in Machines
    BY <2>3, SomeAreFine DEF Still, Ordered
  <2>5. Fine(a, BeforeTool(a, s))
    BY <1>1, <2>3, <2>4, BeforeToolCalm, SomeAreFine
  <2>6. Fine(machine, BeforeTool(a, s)) /\ Becomes(BeforeTool(a, s))
    BY <1>2, <2>2, <2>4, <2>5, FineTransitive
  <2> QED BY <2>6, FineStep
<1>3. ASSUME CanRequestApproval(state, t, fingerprint),
             Becomes(Abort(Decide(machine, RequestApprovalEvents(state, t, fingerprint)), s))
      PROVE  Ordered(machine')
  <2> DEFINE k == Decide(machine, RequestApprovalEvents(state, t, fingerprint))
  <2>1. Deliberate(RequestApprovalEvents(state, t, fingerprint))
    BY <1>1, <1>3, RunnerIsDeliberate
  <2>2. Fine(machine, k)
    BY <2>1, DecideOrdered, SomeAreFine
  <2>3. Becomes(Abort(k, s))
    BY <1>3
  <2> HIDE DEF k
  <2>4. Ordered(k) /\ k \in Machines
    BY <2>2 DEF Fine, Ordered
  <2>5. Fine(k, Abort(k, s))
    BY <2>4, AbortCalm, SomeAreFine
  <2>6. Fine(machine, Abort(k, s))
    BY <2>2, <2>5, FineTransitive
  <2> QED BY <2>3, <2>6, FineStep
<1> QED BY <1>2, <1>3 DEF SensitiveCall

\* The agent asks.
LEMMA AskCoderOrdered ==
    ASSUME Ordered(machine), NEW s \in RunIds, NEW q \in QuestionIds, AskCoder(s, q)
    PROVE  Ordered(machine')
<1> DEFINE events == AwaitUserInputEvents(state, TaskOf(machine, s), q)
<1>1. TaskOf(machine, s) \in TaskIds /\ state \in ControllerStates
  BY FreeSession, MachineIs, MachineFields DEF AskCoder, Ordered
<1>2. Deliberate(events)
  BY <1>1, RunnerIsDeliberate DEF AskCoder
<1>3. Fine(machine, Decide(machine, events))
  BY <1>2, DecideOrdered, SomeAreFine
<1> QED BY <1>3, FineStep DEF AskCoder

\* The guard lets a tool begin, or not.
LEMMA GuardDecidesOrdered ==
    ASSUME Ordered(machine), NEW s \in RunIds, GuardDecides(s)
    PROVE  Ordered(machine')
<1>1. /\ Occupied(machine.sessions[s]) /\ machine \in Machines
      /\ TaskOf(machine, s) \in TaskIds
  <2>1. Occupied(machine.sessions[s])
    BY MachineIs DEF GuardDecides, Occupied
  <2> QED BY <2>1, TaskOfSession DEF Ordered
<1>2. \A call \in {"none", "checking", "executing"} : Fine(machine, OnCall(machine, s, call))
  BY <1>1, OnCallCalm, SomeAreFine
<1>3. Fine(machine, ReportConflict(OnCall(Abort(machine, s), s, "none"), TaskOf(machine, s)))
  <2> DEFINE j == Abort(machine, s)
             k == OnCall(j, s, "none")
  <2>1. Calm(machine, j) /\ j \in Machines
    BY <1>1, AbortCalm DEF Calm
  <2> HIDE DEF j
  <2>2. Calm(j, k)
    BY <2>1, OnCallCalm
  <2> HIDE DEF k
  <2>3. Fine(machine, k) /\ Ordered(k)
    BY <2>1, <2>2, CalmTransitive, SomeAreFine DEF Fine
  <2>4. Fine(k, ReportConflict(k, TaskOf(machine, s)))
    BY <1>1, <2>3, ReportConflictFine
  <2> QED BY <2>3, <2>4, FineTransitive DEF j, k
<1> QED BY <1>2, <1>3, FineStep DEF GuardDecides

\* A tool is over, and the guard's attribution begins.
LEMMA ToolEndsOrdered ==
    ASSUME Ordered(machine), NEW s \in RunIds, ToolEnds(s)
    PROVE  Ordered(machine')
<1> DEFINE idle == OnCall(machine, s, "none")
           run == state.tasks[TaskOf(machine, s)].activeRunId
           session == [idle.sessions[s] EXCEPT !.evidence = run, !.attribution = "pending"]
           k == SetSession(idle, s, session)
           n == [k EXCEPT !.runner.attribution = s]
<1>1. machine \in Machines /\ state \in ControllerStates
  BY MachineIs, MachineFields DEF Ordered
<1>2. Calm(machine, idle) /\ idle.runner = machine.runner /\ idle \in Machines
  BY <1>1, OnCallCalm DEF Calm
<1>3. \/ Becomes(idle)
      \/ s = runner.session /\ TaskOf(machine, s) = runner.taskId /\ Becomes(n)
  <2>1. n = [idle EXCEPT !.sessions[s].evidence = run,
                         !.sessions[s].attribution = "pending",
                         !.runner.attribution = s]
    <3> HIDE DEF idle, run
    <3> QED BY DEF SetSession
  <2> HIDE DEF n
  <2> QED BY <2>1 DEF ToolEnds
<1>4. Fine(machine, idle)
  BY <1>2, SomeAreFine
<1>5. CASE s = runner.session /\ TaskOf(machine, s) = runner.taskId /\ Becomes(n)
  <2>1. machine.sessions[s].at = "live"
    BY <1>5, MachineIs DEF Ordered, OneLive
  <2>2. TaskOf(machine, s) \in TaskIds
    BY <2>1, TaskOfSession DEF Occupied
  <2>3. run \in RunIds \cup {None}
    BY <1>1, <1>5, <2>2, FieldsTyped DEF Task
  <2>4. idle.sessions[s] \in Session /\ idle.sessions[s].at = "live"
    BY <1>2, <2>1, MachineFields DEF Calm
  <2> HIDE DEF idle, run
  <2>5. session \in Session
    BY <2>3, <2>4 DEF Session
  <2>6. session.at = idle.sessions[s].at
    BY <2>4 DEF Session
  <2>7. Occupied(idle.sessions[s])
    BY <2>4 DEF Occupied
  <2> HIDE DEF session
  <2>8. Calm(idle, k)
    BY <1>2, <2>5, <2>6, <2>7, SetSessionCalm
  <2> HIDE DEF k
  <2>9. Calm(k, n)
    BY <2>8, AttributionCalm DEF Calm
  <2> HIDE DEF n
  <2>10. Calm(machine, k)
    BY <1>2, <2>8, CalmTransitive
  <2>11. Calm(machine, n)
    BY <2>9, <2>10, CalmTransitive
  <2> QED BY <1>5, <2>11, SomeAreFine, FineStep
<1> QED BY <1>3, <1>4, <1>5, FineStep

\* A session whose tool is being attributed, and one whose evidence is recorded.
LEMMA EvidenceCalm ==
    ASSUME NEW m \in Machines, NEW s \in RunIds,
           NEW attribution \in {"clear", "conflict", "failed"}
    PROVE  /\ Calm(m, [m EXCEPT !.sessions[s].attribution = attribution])
           /\ [m EXCEPT !.sessions[s].attribution = attribution].turns = m.turns
           /\ Calm(m, [m EXCEPT !.sessions[s].evidence = None])
           /\ [m EXCEPT !.sessions[s].evidence = None].turns = m.turns
<1> DEFINE found == [m.sessions[s] EXCEPT !.attribution = attribution]
           done == [m.sessions[s] EXCEPT !.evidence = None]
<1>1. m.sessions[s] \in Session
  BY MachineFields
<1>2. found \in Session /\ done \in Session
  BY <1>1 DEF Session
<1>3. /\ found.at = m.sessions[s].at /\ (Occupied(found) => Occupied(m.sessions[s]))
      /\ done.at = m.sessions[s].at /\ (Occupied(done) => Occupied(m.sessions[s]))
  BY <1>1 DEF Session, Occupied
<1>4. /\ [m EXCEPT !.sessions[s].attribution = attribution] = SetSession(m, s, found)
      /\ [m EXCEPT !.sessions[s].evidence = None] = SetSession(m, s, done)
  BY DEF SetSession
<1> HIDE DEF found, done
<1>5. /\ Calm(m, SetSession(m, s, found)) /\ SetSession(m, s, found).turns = m.turns
      /\ Calm(m, SetSession(m, s, done)) /\ SetSession(m, s, done).turns = m.turns
  BY <1>2, <1>3, SetSessionCalm
<1> QED BY <1>4, <1>5

\* onRecordEvidence
LEMMA RecordEvidenceFine ==
    ASSUME NEW m, Ordered(m), NEW s \in RunIds, m.turns[s].at # "none"
    PROVE  Fine(m, RecordEvidence(m, s))
<1> DEFINE t == TaskOf(m, s)
           done == [m EXCEPT !.sessions[s].evidence = None]
<1>1. t \in TaskIds
  BY TaskOfTurn DEF TaskOf
<1>2. Calm(m, done)
  BY EvidenceCalm DEF Ordered
<1>3. RecordEvidence(m, s) = done \/ RecordEvidence(m, s) = OnFail(done, t)
  BY DEF RecordEvidence
<1> HIDE DEF done, t
<1>4. Fine(m, done) /\ Ordered(done)
  BY <1>2, SomeAreFine DEF Fine
<1>5. Fine(done, OnFail(done, t))
  BY <1>1, <1>4, OnFailDecided, SomeAreFine
<1> QED BY <1>3, <1>4, <1>5, FineTransitive

\* afterTool is over.
LEMMA AttributedOrdered ==
    ASSUME Ordered(machine), NEW s \in RunIds, Attributed(s)
    PROVE  Ordered(machine')
<1> DEFINE t == TaskOf(machine, s)
           Found(attribution) == [machine EXCEPT !.sessions[s].attribution = attribution]
<1>1. t \in TaskIds /\ machine.turns[s].at # "none"
  <2>1. Occupied(machine.sessions[s])
    BY MachineIs DEF Attributed, Occupied
  <2> QED BY <2>1, TaskOfSession
<1>2. \A a \in {"clear", "conflict", "failed"} : Calm(machine, Found(a)) /\ Found(a).turns = machine.turns
  BY EvidenceCalm DEF Ordered
<1>3. \/ Becomes(RecordEvidence(Found("clear"), s))
      \/ Becomes(RecordEvidence(ReportConflict(Found("conflict"), t), s))
      \/ Becomes(OnFail([Found("failed") EXCEPT !.sessions[s].evidence = None], t))
  BY DEF Attributed
<1> HIDE DEF Found, t
<1>4. \A a \in {"clear", "conflict", "failed"} : Fine(machine, Found(a)) /\ Ordered(Found(a))
  BY <1>2, SomeAreFine DEF Fine
<1>5. Fine(machine, RecordEvidence(Found("clear"), s))
  <2> DEFINE k == Found("clear")
  <2>1. Fine(machine, k) /\ Ordered(k) /\ k.turns[s].at # "none"
    BY <1>1, <1>4 DEF Fine
  <2> HIDE DEF k
  <2>2. Fine(k, RecordEvidence(k, s))
    BY <2>1, RecordEvidenceFine
  <2> QED BY <2>1, <2>2, FineTransitive DEF k
<1>6. Fine(machine, RecordEvidence(ReportConflict(Found("conflict"), t), s))
  <2> DEFINE j == Found("conflict")
             k == ReportConflict(j, t)
  <2>1. Fine(machine, j) /\ Ordered(j)
    BY <1>4
  <2> HIDE DEF j
  <2>2. Fine(j, k)
    BY <1>1, <2>1, ReportConflictFine
  <2> HIDE DEF k
  <2>3. Fine(machine, k) /\ Ordered(k) /\ k.turns[s].at # "none"
    BY <1>1, <2>1, <2>2, FineTransitive DEF Fine
  <2>4. Fine(k, RecordEvidence(k, s))
    BY <2>3, RecordEvidenceFine
  <2> QED BY <2>3, <2>4, FineTransitive DEF j, k
<1>7. Fine(machine, OnFail([Found("failed") EXCEPT !.sessions[s].evidence = None], t))
  <2> DEFINE j == Found("failed")
             k == [j EXCEPT !.sessions[s].evidence = None]
  <2>1. Fine(machine, j) /\ j \in Machines /\ Ordered(j)
    BY <1>4 DEF Ordered
  <2> HIDE DEF j
  <2>2. Calm(j, k)
    BY <2>1, EvidenceCalm
  <2> HIDE DEF k
  <2>3. Fine(j, k)
    BY <2>1, <2>2, SomeAreFine
  <2>4. Fine(k, OnFail(k, t))
    BY <1>1, <2>3, OnFailDecided, SomeAreFine DEF Fine
  <2> QED BY <2>1, <2>3, <2>4, FineTransitive DEF j, k
<1> QED BY <1>3, <1>5, <1>6, <1>7, FineStep

\* The agent's turn is over.
LEMMA TurnEndsOrdered ==
    ASSUME Ordered(machine), NEW s \in RunIds, TurnEnds(s)
    PROVE  Ordered(machine')
<1>1. PICK aborted \in {sessions[s].aborted, TRUE} :
         LET idle == [machine EXCEPT !.sessions[s].streaming = FALSE,
                                     !.sessions[s].aborted = aborted]
             ended == IF s = runner.session /\ TaskOf(machine, s) = runner.taskId
                      THEN AcknowledgePause(idle) ELSE idle
             r == CHOOSE q \in RunIds : turns[q].at = "prompted" /\ turns[q].session = s
         IN  Becomes(IF \E q \in RunIds : turns[q].at = "prompted" /\ turns[q].session = s
                     THEN IF IsCurrent(ended, r) THEN Waiting(ended, r, "gathering")
                          ELSE Returned(ended, r)
                     ELSE ended)
  BY DEF TurnEnds
<1> DEFINE session == [sessions[s] EXCEPT !.streaming = FALSE, !.aborted = aborted]
           idle == [machine EXCEPT !.sessions[s].streaming = FALSE,
                                   !.sessions[s].aborted = aborted]
           ended == IF s = runner.session /\ TaskOf(machine, s) = runner.taskId
                    THEN AcknowledgePause(idle) ELSE idle
           Waits4(q) == turns[q].at = "prompted" /\ turns[q].session = s
           r == CHOOSE q \in RunIds : Waits4(q)
<1>2. /\ machine \in Machines /\ sessions[s] \in Session /\ machine.sessions = sessions
      /\ machine.turns = turns
  BY MachineIs, MachineFields DEF Ordered
<1>3. sessions[s].aborted \in BOOLEAN
  BY <1>2 DEF Session
<1>4. session \in Session
  BY <1>2, <1>3 DEF Session
<1>5. session.at = sessions[s].at /\ (Occupied(session) => Occupied(sessions[s]))
  BY <1>2 DEF Session, Occupied
<1>6. idle = SetSession(machine, s, session)
  BY <1>2 DEF SetSession
<1>7. Becomes(IF \E q \in RunIds : Waits4(q)
              THEN IF IsCurrent(ended, r) THEN Waiting(ended, r, "gathering")
                   ELSE Returned(ended, r)
              ELSE ended)
  BY <1>1
<1> HIDE DEF session, idle
<1>8. Calm(machine, SetSession(machine, s, session))
      /\ SetSession(machine, s, session).turns = machine.turns
  BY <1>2, <1>4, <1>5, SetSessionCalm
<1>9. Still(machine, idle) /\ Ordered(idle)
  BY <1>6, <1>8, CalmStill DEF Still
<1>10. Still(machine, AcknowledgePause(idle))
  BY <1>9, AcknowledgePauseStill, StillTransitive
<1>11. Still(machine, ended)
  BY <1>9, <1>10
<1> HIDE DEF ended
<1>12. Fine(machine, ended)
  BY <1>11, SomeAreFine
<1>13. ASSUME \E q \in RunIds : Waits4(q)
       PROVE  Fine(machine, Waiting(ended, r, "gathering")) /\ Fine(machine, Returned(ended, r))
  <2>1. r \in RunIds /\ Waits4(r)
    BY <1>13
  <2> HIDE DEF r
  <2>2. ended.turns[r].at # "none" /\ Ordered(ended)
    BY <1>2, <1>11, <2>1 DEF Still
  <2>3. Fine(ended, Waiting(ended, r, "gathering")) /\ Fine(ended, Returned(ended, r))
    BY <2>1, <2>2, WaitingFine, ReturnedFine DEF Waits, Opening
  <2> QED BY <1>12, <2>3, FineTransitive
<1> HIDE DEF r, Waits4
<1> QED BY <1>7, <1>12, <1>13, FineStep

-----------------------------------------------------------------------------
(* Every step.                                                             *)

\* A command of the user.
LEMMA UserOrdered ==
    ASSUME Ordered(machine), UserStep
    PROVE  Ordered(machine')
<1>1. machine.state = state /\ state \in ControllerStates
  BY MachineIs, MachineFields DEF Ordered
<1>2. ASSUME NEW events, Deliberate(events), Becomes(Decide(machine, events))
      PROVE  Ordered(machine')
  <2>1. Fine(machine, Decide(machine, events))
    BY <1>2, DecideOrdered, SomeAreFine
  <2> QED BY <1>2, <2>1, FineStep
<1>3. CASE Submit
  <2>1. \A t \in TaskIds : CanSubmit(state) => Deliberate(SubmitEvents(state, "fast"))
    BY <1>1, UserIsDeliberate
  <2>2. PICK t \in TaskIds : state.tasks[t].state = "none"
    BY <1>3 DEF Submit, CanSubmit, TaskLeft
  <2> QED BY <1>2, <1>3, <2>1, <2>2 DEF Submit
<1>4. ASSUME NEW t \in TaskIds, RequestPause(t)
      PROVE  Ordered(machine')
  <2>1. Deliberate(RequestPauseEvents(t))
    BY <1>1, UserIsDeliberate
  <2> QED BY <1>2, <1>4, <2>1 DEF RequestPause
<1>5. ASSUME NEW t \in TaskIds, Resume(t)
      PROVE  Ordered(machine')
  <2>1. Deliberate(ResumeEvents(state, t))
    BY <1>1, <1>5, UserIsDeliberate DEF Resume
  <2> QED BY <1>2, <1>5, <2>1 DEF Resume
<1>6. ASSUME NEW t \in TaskIds, Cancel(t)
      PROVE  Ordered(machine')
  <2>1. Deliberate(CancelEvents(state, t))
    BY <1>1, <1>6, UserIsDeliberate DEF Cancel
  <2> QED BY <1>2, <1>6, <2>1 DEF Cancel
<1>7. ASSUME NEW t \in TaskIds, NEW q \in QuestionIds, AnswerQuestion(t, q)
      PROVE  Ordered(machine')
  <2>1. Deliberate(AnswerQuestionEvents(state, t, q))
    BY <1>1, <1>7, UserIsDeliberate DEF AnswerQuestion
  <2> QED BY <1>2, <1>7, <2>1 DEF AnswerQuestion
<1>8. ASSUME NEW c \in ConfirmationIds, NEW decision \in {"approve", "reject"},
             ResolveApproval(c, decision)
      PROVE  Ordered(machine')
  <2> DEFINE t == state.confirmations[c].taskId
  <2>1. t \in TaskIds
    <3>1. state.confirmations[c] \in Confirmation /\ t # None
      BY <1>1, <1>8, FieldsTyped DEF ResolveApproval
    <3> QED BY <3>1 DEF Confirmation, NoConfirmation
  <2>2. CanResolveApproval(state, c, decision, Revision(t))
    BY <1>8 DEF ResolveApproval
  <2>3. Deliberate(ResolveApprovalEvents(state, c, decision))
    BY <1>1, <2>1, <2>2, UserIsDeliberate
  <2> QED BY <1>2, <1>8, <2>3 DEF ResolveApproval
<1> QED BY <1>3, <1>4, <1>5, <1>6, <1>7, <1>8 DEF UserStep

\* There is no session and no activation at first.
LEMMA InitOrdered ==
    ASSUME Init
    PROVE  Ordered(machine)
<1>1. machine \in Machines
  <2>1. state \in ControllerStates
    BY EmptyStateTyped DEF Init
  <2>2. runner \in Fields
    BY DEF Init, Fields
  <2>3. turns \in [RunIds -> Turn]
    <3>1. 0 \in 0..MaxAttempts
      BY MaxAttemptsAssumption
    <3> QED BY <3>1 DEF Init, Turn
  <2>4. sessions \in [RunIds -> Session]
    BY DEF Init, Session
  <2>5. stops \in [TaskIds -> Stops]
    BY DEF Init, Stops
  <2>6. wedged \in BOOLEAN
    BY DEF Init
  <2> QED BY <2>1, <2>2, <2>3, <2>4, <2>5, <2>6 DEF machine, Machines
<1>2. \A r \in RunIds : /\ machine.turns[r].at = "none"
                        /\ machine.sessions[r].at = "none" /\ ~Occupied(machine.sessions[r])
  BY MachineIs DEF Init, Occupied
<1>3. machine.runner.session = None
  BY MachineIs DEF Init
<1>4. ActivationsAreRuns(machine) /\ SessionsHaveTasks(machine)
  BY <1>2 DEF ActivationsAreRuns, SessionsHaveTasks
<1>5. OneLive(machine) /\ NoSessionYet(machine)
  BY <1>2, <1>3, NoneAssumption DEF OneLive, NoSessionYet
<1> QED BY <1>1, <1>4, <1>5 DEF Ordered

\* Every step keeps the invariant.
LEMMA StepOrdered ==
    ASSUME Ordered(machine), [Next]_vars
    PROVE  Ordered(machine')
<1>1. CASE UNCHANGED vars
  <2>1. machine' = machine
    BY <1>1 DEF vars, machine
  <2> QED BY <2>1
<1>2. CASE UserStep
  BY <1>2, UserOrdered
<1>3. ASSUME NEW r \in RunIds, Proceeds(r)
      PROVE  Ordered(machine')
  BY <1>3, DisposedOrdered, SessionCreatedOrdered, SessionOnDiskOrdered, SessionIsIdleOrdered,
     ReconciledOrdered, GatheredOrdered, CleanedUpOrdered DEF Proceeds
<1>4. ASSUME NEW r \in RunIds, PromptThrows(r)
      PROVE  Ordered(machine')
  BY <1>4, PromptThrowsOrdered
<1>5. ASSUME NEW s \in RunIds, AgentCalls(s)
      PROVE  Ordered(machine')
  BY <1>5, RoutineCallOrdered, SensitiveCallOrdered, AskCoderOrdered DEF AgentCalls
<1>6. ASSUME NEW s \in RunIds, ToolProceeds(s)
      PROVE  Ordered(machine')
  BY <1>6, GuardDecidesOrdered, ToolEndsOrdered, AttributedOrdered DEF ToolProceeds
<1>7. ASSUME NEW s \in RunIds, TurnEnds(s)
      PROVE  Ordered(machine')
  BY <1>7, TurnEndsOrdered
<1>8. ASSUME NEW t \in TaskIds, Stopped(t)
      PROVE  Ordered(machine')
  BY <1>8, StoppedOrdered
<1> QED BY <1>1, <1>2, <1>3, <1>4, <1>5, <1>6, <1>7, <1>8 DEF Next

-----------------------------------------------------------------------------
(* The theorems.                                                           *)

\* The invariant holds in every reachable state: in particular the session that nobody
\* has disposed of is #session, and there is none while the activation of the run in
\* the slot has not bound its own.
THEOREM AlwaysOrdered == Spec => []Ordered(machine)
<1>1. Init => Ordered(machine)
  BY InitOrdered
<1>2. Ordered(machine) /\ [Next]_vars => Ordered(machine)'
  <2>1. Ordered(machine') <=> Ordered(machine)'
    BY DEF Ordered, ActivationsAreRuns, SessionsHaveTasks, OneLive, NoSessionYet, Occupied,
           SlotRun
  <2> QED BY <2>1, StepOrdered
<1> QED BY <1>1, <1>2, PTL DEF Spec

\* One mutating job: two sessions that nobody has told to stop never stream.
THEOREM OneSession == Spec => []OneSessionAtWork
<1>1. Ordered(machine) => OneSessionAtWork
  BY MachineIs DEF Ordered, OneLive, OneSessionAtWork
<1> QED BY <1>1, AlwaysOrdered, PTL

-----------------------------------------------------------------------------
(* Losses.  A run is in good hands while its activation holds it, and what *)
(* a function may do about that can be said of each function by itself.    *)

\* An activation of the agent's turn knows the session it prompted.
Prepared(turn) == turn.at \in {"prompted", "gathering"} => turn.session # None

\* The invariant, with the slot and what an activation remembers.
Known(m) ==
    /\ Ordered(m)
    /\ Slotted(m.state)
    /\ \A r \in RunIds : /\ m.turns[r].at # "none" => m.turns[r].task = m.state.runs[r].taskId
                         /\ Prepared(m.turns[r])

\* The runner knows of the pause that was asked of its task.
PauseKnown(m) ==
    (m.runner.taskId \in TaskIds /\ m.state.tasks[m.runner.taskId].state = "pause_requested")
        => m.runner.pauseRequested

\* The activation of run r will go on with task t.
Holds(m, t, r) ==
    /\ AtWork(m.state, t, r)
    /\ m.turns[r].at \in Waits /\ m.runner.generation = r
    /\ m.turns[r].at # "disposing" => m.runner.taskId = t

\* What a function may do that ends no activation but that of x: a run at work was at
\* work, and one in good hands stays there unless #taskId is cleared.
Spares(m, n, x) ==
    /\ Known(n)
    /\ PauseKnown(m) => PauseKnown(n)
    /\ \A r \in RunIds : m.turns[r].at # "none" => n.turns[r].at # "none"
    /\ \A t \in TaskIds, r \in RunIds :
          (m.turns[r].at # "none" /\ AtWork(n.state, t, r)) =>
              /\ AtWork(m.state, t, r)
              /\ m.runner.taskId = None => n.runner.taskId = None
              /\ (Holds(m, t, r) /\ r # x) => (Holds(n, t, r) \/ n.runner.taskId = None)

\* One after another.
LEMMA SparesTransitive ==
    ASSUME NEW m, NEW n, NEW k, NEW x, Spares(m, n, x), Spares(n, k, x)
    PROVE  Spares(m, k, x)
BY DEF Spares

\* Nothing at all.
LEMMA SparesItself ==
    ASSUME NEW m, Known(m), NEW x
    PROVE  Spares(m, m, x)
BY DEF Spares

\* What ends no activation ends none but that of x.
LEMMA SparesMore ==
    ASSUME NEW m, NEW n, Spares(m, n, None), NEW x
    PROVE  Spares(m, n, x)
BY NoneAssumption DEF Spares

\* What ends none but that of x ends none, if x held nothing or is not given up.
LEMMA SparesAll ==
    ASSUME NEW m, NEW n, NEW x, Spares(m, n, x),
           \A t \in TaskIds : (Holds(m, t, x) /\ AtWork(n.state, t, x))
                                 => (Holds(n, t, x) \/ n.runner.taskId = None)
    PROVE  Spares(m, n, None)
BY DEF Spares

\* An activation that holds its run is of the task, and current once it has begun.
LEMMA HolderIsCurrent ==
    ASSUME NEW m, Known(m), NEW t \in TaskIds, NEW r \in RunIds, Holds(m, t, r)
    PROVE  /\ m.turns[r].at # "none" /\ m.turns[r].task = t /\ Working(m.state.tasks[t])
           /\ m.turns[r].at # "disposing" => IsCurrent(m, r)
<1>1. m.turns[r].at # "none"
  BY DEF Holds, Waits
<1>2. m.state.runs[r].taskId = t
  BY NoneAssumption DEF Known, Slotted, Holds, AtWork
<1> QED BY <1>1, <1>2 DEF Known, Holds, AtWork, IsCurrent

-----------------------------------------------------------------------------
(* Losses: functions that leave the state and the generation.              *)

\* #taskId stays or is cleared, a pause stays requested, and of the activations only
\* that of x changes.
Light(m, n, x) ==
    /\ n.state = m.state
    /\ n.runner.generation = m.runner.generation
    /\ n.runner.taskId \in {m.runner.taskId, None}
    /\ m.runner.pauseRequested => n.runner.pauseRequested
    /\ \A r \in RunIds : r # x => n.turns[r] = m.turns[r]
    /\ \A r \in RunIds : m.turns[r].at # "none" =>
          n.turns[r].at # "none" /\ n.turns[r].task = m.turns[r].task
    /\ \A r \in RunIds : Prepared(m.turns[r]) => Prepared(n.turns[r])
    /\ \A r \in RunIds : m.turns[r].at = "none" => n.turns[r].at = "none"

\* One after another, and those that change no activation.
LEMMA LightTransitive ==
    ASSUME NEW m, NEW n, NEW k, NEW x, Light(m, n, x), Light(n, k, x)
    PROVE  Light(m, k, x)
BY DEF Light

\* One that changes no activation.
LEMMA LightMore ==
    ASSUME NEW m, NEW n, Light(m, n, None), NEW x
    PROVE  Light(m, n, x)
BY NoneAssumption DEF Light

\* So is one that touches sessions and cancellations only.
LEMMA QuietIsLight ==
    ASSUME NEW m, NEW n, n.state = m.state, n.runner = m.runner, n.turns = m.turns, NEW x
    PROVE  Light(m, n, x)
BY DEF Light

\* They spare the other activations.
LEMMA LightSpares ==
    ASSUME NEW m, Known(m), NEW n, Ordered(n), NEW x, Light(m, n, x)
    PROVE  Spares(m, n, x)
<1>1. Known(n)
  BY DEF Known, Light
<1>2. PauseKnown(m) => PauseKnown(n)
  BY NoneAssumption DEF PauseKnown, Light
<1>3. ASSUME NEW t \in TaskIds, NEW r \in RunIds, Holds(m, t, r), r # x
      PROVE  Holds(n, t, r) \/ n.runner.taskId = None
  BY <1>3 DEF Holds, Light
<1> QED BY <1>1, <1>2, <1>3 DEF Spares, Light

\* They spare all if x goes on, returns without its run, or #taskId is cleared.
LEMMA LightSparesAll ==
    ASSUME NEW m, Known(m), NEW n, Ordered(n), NEW x \in RunIds, Light(m, n, x),
           \/ n.turns[x].at \in Waits /\ m.turns[x].at # "disposing"
           \/ \A t \in TaskIds : ~Holds(m, t, x)
           \/ n.runner.taskId = None
    PROVE  Spares(m, n, None)
<1>1. Spares(m, n, x)
  BY LightSpares
<1>2. ASSUME NEW t \in TaskIds, Holds(m, t, x)
      PROVE  Holds(n, t, x) \/ n.runner.taskId = None
  BY <1>2 DEF Holds, Light
<1> QED BY <1>1, <1>2, SparesAll

\* workspaceGuard.finish, #taskId = null.
LEMMA ReleaseLight ==
    ASSUME NEW m \in Machines
    PROVE  Light(m, Release(m), None) /\ Release(m).runner.taskId = None
<1> DEFINE n == Release(m)
<1>1. m.runner \in Fields
  BY MachineFields
<1>2. /\ n.state = m.state /\ n.turns = m.turns
      /\ n.runner = [m.runner EXCEPT !.taskId = None]
  BY DEF Release, Machines
<1>3. /\ n.runner.taskId = None /\ n.runner.generation = m.runner.generation
      /\ n.runner.pauseRequested = m.runner.pauseRequested
  BY <1>1, <1>2 DEF Fields
<1> QED BY <1>2, <1>3 DEF Light

\* One turn is replaced.
LEMMA TurnLight ==
    ASSUME NEW m \in Machines, NEW r \in RunIds, NEW turn,
           m.turns[r].at # "none", turn.at # "none", turn.task = m.turns[r].task,
           Prepared(m.turns[r]) => Prepared(turn)
    PROVE  LET n == SetTurn(m, r, turn)
           IN  Light(m, n, r) /\ n.turns[r] = turn /\ n.runner = m.runner
<1> DEFINE n == SetTurn(m, r, turn)
<1>1. m.turns \in [RunIds -> Turn]
  BY MachineFields
<1>2. /\ n.state = m.state /\ n.runner = m.runner
      /\ n.turns = [m.turns EXCEPT ![r] = turn]
  BY DEF SetTurn, Machines
<1> HIDE DEF n
<1>3. n.turns[r] = turn /\ \A x \in RunIds : x # r => n.turns[x] = m.turns[x]
  BY <1>1, <1>2
<1>4. Light(m, n, r)
  BY <1>2, <1>3 DEF Light
<1> QED BY <1>2, <1>3, <1>4 DEF n

\* An activation returns.
LEMMA ReturnedLight ==
    ASSUME NEW m \in Machines, NEW r \in RunIds, m.turns[r].at # "none"
    PROVE  LET n == Returned(m, r)
           IN  Light(m, n, r) /\ n.turns[r].at = "returned" /\ n.runner = m.runner
<1> DEFINE turn == [m.turns[r] EXCEPT !.at = "returned", !.attempt = 0]
<1>1. turn.at = "returned" /\ turn.task = m.turns[r].task
  BY MachineFields DEF Turn
<1>2. Returned(m, r) = SetTurn(m, r, turn)
  BY DEF Returned, SetTurn
<1> HIDE DEF turn
<1> QED BY <1>1, <1>2, TurnLight DEF Prepared

\* An activation waits for something else.
LEMMA WaitingLight ==
    ASSUME NEW m \in Machines, NEW r \in RunIds, m.turns[r].at # "none", NEW wait \in Waits,
           wait \in {"prompted", "gathering"} => m.turns[r].session # None
    PROVE  LET n == Waiting(m, r, wait)
           IN  Light(m, n, r) /\ n.turns[r].at = wait /\ n.runner = m.runner
<1> DEFINE turn == [m.turns[r] EXCEPT !.at = wait]
<1>1. turn.at = wait /\ turn.task = m.turns[r].task /\ turn.session = m.turns[r].session
  BY MachineFields DEF Turn
<1>2. Waiting(m, r, wait) = SetTurn(m, r, turn)
  BY DEF Waiting, SetTurn
<1> HIDE DEF turn
<1>3. turn.at # "none" /\ Prepared(turn)
  BY <1>1 DEF Prepared, Waits
<1> QED BY <1>1, <1>2, <1>3, TurnLight

\* #disposeSession
LEMMA TakeSessionLight ==
    ASSUME NEW m \in Machines
    PROVE  LET n == TakeSession(m)
           IN  /\ Light(m, n, None) /\ n.turns = m.turns
               /\ n.runner.taskId = m.runner.taskId /\ n.runner.generation = m.runner.generation
               /\ n.runner.pauseRequested = m.runner.pauseRequested
<1> DEFINE n == TakeSession(m)
<1>1. CASE m.runner.session = None
  BY <1>1, QuietIsLight DEF TakeSession
<1>2. CASE m.runner.session # None
  <2>1. m.runner \in Fields
    BY MachineFields
  <2>2. /\ n.state = m.state /\ n.turns = m.turns
        /\ n.runner = [m.runner EXCEPT !.session = None]
    BY <1>2 DEF TakeSession, Machines
  <2>3. /\ n.runner.taskId = m.runner.taskId /\ n.runner.generation = m.runner.generation
        /\ n.runner.pauseRequested = m.runner.pauseRequested
    BY <2>1, <2>2 DEF Fields
  <2> QED BY <2>2, <2>3 DEF Light
<1> QED BY <1>1, <1>2

\* The runner's fields but for #taskId, the generation and the request.
LEMMA FieldsLight ==
    ASSUME NEW m \in Machines, NEW fields \in Fields,
           fields.generation = m.runner.generation, fields.taskId = m.runner.taskId,
           m.runner.pauseRequested => fields.pauseRequested
    PROVE  LET n == SetFields(m, fields)
           IN  Light(m, n, None) /\ n.turns = m.turns /\ n.runner = fields
<1> DEFINE n == SetFields(m, fields)
<1>1. n.state = m.state /\ n.turns = m.turns /\ n.runner = fields
  BY DEF SetFields, Machines
<1> HIDE DEF n
<1> QED BY <1>1 DEF Light, n

-----------------------------------------------------------------------------
(* Losses: what a decision does.                                           *)

\* No run that has an activation is at work in n without being so in m.
LEMMA WorkOfActivations ==
    ASSUME NEW m, Known(m), NEW s, WorkIsNew(m.state, s), NEW t \in TaskIds, NEW r \in RunIds,
           m.turns[r].at # "none", AtWork(s, t, r)
    PROVE  AtWork(m.state, t, r)
BY DEF Known, Ordered, ActivationsAreRuns, WorkIsNew

\* The decision is applied.
LEMMA CommitKnown ==
    ASSUME NEW m, Known(m), NEW events, Deliberate(events),
           AsksNoPause(events) \/ (Len(events) = 1 /\ Heeds(m.state, events[1]))
    PROVE  LET n == Commit(m, events)
               e == events[Len(events)]
           IN  /\ Known(n) /\ Still(m, n) /\ n.runner = m.runner
               /\ WorkIsNew(m.state, n.state)
               /\ (~n.wedged /\ e.type \in StartTypes) =>
                     /\ e.taskId \in TaskIds /\ e.runId \in RunIds
                     /\ m.state.runs[e.runId].state = "none"
                     /\ n.state.runs[e.runId].state # "none"
                     /\ n.state.runs[e.runId].taskId = e.taskId
                     /\ Running(n.state, e.taskId, e.runId)
               /\ \A i \in DOMAIN events :
                     (~n.wedged /\ events[i].type = "task.cancelled")
                        => Idle(m.state, n.state, events[i].taskId)
               /\ AsksNoPause(events) => AsksNothing(m.state, n.state)
<1> DEFINE n == Commit(m, events)
           memory == ApplyDecision([state |-> m.state, ok |-> TRUE], events)
           e == events[Len(events)]
<1>1. Ordered(m) /\ m.state \in ControllerStates /\ Slotted(m.state)
  BY MachineFields DEF Known, Ordered
<1>2. events \in Seq(Events) /\ Len(events) \in 1..3 /\ StartsLast(events)
  BY DEF Deliberate
<1>3. /\ Still(m, n) /\ n.state = memory.state /\ (n.wedged <=> ~memory.ok)
      /\ n.runner = m.runner
  BY <1>1, CommitStill
<1>4. /\ (memory.ok /\ e.type \in StartTypes) =>
            /\ e.taskId \in TaskIds /\ e.runId \in RunIds
            /\ m.state.runs[e.runId].state = "none"
            /\ memory.state.runs[e.runId].state # "none"
            /\ memory.state.runs[e.runId].taskId = e.taskId
      /\ AsksNoPause(events) => AsksNothing(m.state, memory.state)
  BY <1>1, <1>2, DecisionRuns
<1>5. /\ Slotted(memory.state) /\ WorkIsNew(m.state, memory.state)
      /\ (memory.ok /\ e.type \in StartTypes) => Running(memory.state, e.taskId, e.runId)
      /\ \A i \in DOMAIN events : (memory.ok /\ events[i].type = "task.cancelled")
                                     => Idle(m.state, memory.state, events[i].taskId)
  BY <1>1, <1>2, DecisionSlots
<1> HIDE DEF n, memory, e
<1>6. Known(n)
  BY <1>3, <1>5 DEF Known, Still, Ordered, ActivationsAreRuns, RunsRemain
<1> QED BY <1>3, <1>4, <1>5, <1>6 DEF n, memory, e

\* It takes no run out of the hands of its activation.
LEMMA CommitSpares ==
    ASSUME NEW m, Known(m), NEW events, Deliberate(events), AsksNoPause(events)
    PROVE  Spares(m, Commit(m, events), None)
<1> DEFINE n == Commit(m, events)
<1>1. /\ Known(n) /\ n.turns = m.turns /\ n.runner = m.runner
      /\ WorkIsNew(m.state, n.state) /\ AsksNothing(m.state, n.state)
  BY CommitKnown DEF Still
<1> HIDE DEF n
<1>2. PauseKnown(m) => PauseKnown(n)
  BY <1>1 DEF PauseKnown, AsksNothing
<1>3. \A t \in TaskIds, r \in RunIds :
         (m.turns[r].at # "none" /\ AtWork(n.state, t, r)) => AtWork(m.state, t, r)
  BY <1>1, WorkOfActivations
<1> QED BY <1>1, <1>2, <1>3 DEF Spares, Holds, n

\* #acknowledgePause
LEMMA AcknowledgePauseSpares ==
    ASSUME NEW m, Known(m)
    PROVE  LET n == AcknowledgePause(m)
           IN  Spares(m, n, None) /\ n.turns = m.turns
<1> DEFINE t == m.runner.taskId
           fields == [m.runner EXCEPT !.pauseAcknowledged = TRUE]
           k == SetFields(m, fields)
           events == PauseAtSafeBoundaryEvents(m.state, t)
<1>1. /\ Ordered(m) /\ m \in Machines /\ m.state \in ControllerStates /\ m.runner \in Fields
      /\ t \in TaskIds \cup {None}
  BY MachineFields DEF Known, Ordered
<1>2. /\ fields \in Fields /\ fields.session = m.runner.session
      /\ fields.generation = m.runner.generation /\ fields.taskId = t
      /\ fields.pauseRequested = m.runner.pauseRequested
  BY <1>1 DEF Fields
<1>3. \/ AcknowledgePause(m) = m
      \/ /\ t # None /\ CanPauseAtSafeBoundary(m.state, t)
         /\ AcknowledgePause(m) = Commit(k, events)
  BY DEF AcknowledgePause, SetFields
<1> HIDE DEF fields
<1>4. Calm(m, k) /\ Light(m, k, None) /\ k.turns = m.turns
  BY <1>1, <1>2, SetFieldsCalm, FieldsLight
<1> HIDE DEF k
<1>5. Spares(m, k, None) /\ Known(k)
  BY <1>1, <1>4, CalmOrdered, LightSpares DEF Spares
<1>6. CASE t # None /\ CanPauseAtSafeBoundary(m.state, t)
  <2>1. Deliberate(events) /\ AsksNoPause(events)
    BY <1>1, <1>6, RunnerIsDeliberate, OnlyRequestPauseAsks
  <2> HIDE DEF events
  <2>2. Spares(k, Commit(k, events), None) /\ Still(k, Commit(k, events))
    BY <1>5, <2>1, CommitSpares, CommitKnown
  <2>3. Spares(m, Commit(k, events), None) /\ Commit(k, events).turns = m.turns
    BY <1>4, <1>5, <2>2, SparesTransitive DEF Still
  <2> QED BY <1>3, <2>3, SparesItself
<1> QED BY <1>3, <1>6, SparesItself

\* #stopCurrent begins.
LEMMA StopCurrentFields ==
    ASSUME NEW m \in Machines, NEW t
    PROVE  LET n == StopCurrent(m, t)
           IN  /\ n.runner.taskId \in {m.runner.taskId, None}
               /\ m.runner.session = None => n.runner.taskId = None
               /\ n.runner.pauseRequested = m.runner.pauseRequested
<1> DEFINE fields == [m.runner EXCEPT !.generation = None]
           k == SetFields(m, fields)
           n == StopCurrent(m, t)
<1>1. m.runner \in Fields
  BY MachineFields
<1>2. /\ fields \in Fields /\ fields.session = m.runner.session
      /\ fields.taskId = m.runner.taskId /\ fields.pauseRequested = m.runner.pauseRequested
  BY <1>1 DEF Fields
<1>3. n = IF Streams(k, m.runner.session)
          THEN SetStop(Abort(k, m.runner.session), t, "aborting")
          ELSE IF m.runner.session = None THEN Release(k)
          ELSE SetStop(TakeSession(k), t, "disposing")
  BY DEF StopCurrent, Streams, Abort, SetFields, SetStop
<1> HIDE DEF fields
<1>4. k \in Machines /\ k.runner = fields
  BY <1>2, SetFieldsCalm DEF Calm
<1> HIDE DEF k, n
<1>5. SetStop(Abort(k, m.runner.session), t, "aborting").runner = fields
  BY <1>4 DEF SetStop, Abort, Machines
<1>6. /\ Release(k).runner.taskId = None
      /\ Release(k).runner.pauseRequested = fields.pauseRequested
  BY <1>2, <1>4 DEF Release, Machines, Fields
<1>7. /\ SetStop(TakeSession(k), t, "disposing").runner.taskId = fields.taskId
      /\ SetStop(TakeSession(k), t, "disposing").runner.pauseRequested = fields.pauseRequested
  <2> DEFINE j == TakeSession(k)
  <2>1. SetStop(j, t, "disposing").runner = j.runner
    <3>1. j = k \/ j = [k EXCEPT !.sessions[k.runner.session].at = "stopped",
                                 !.runner.session = None]
      BY DEF TakeSession
    <3> QED BY <1>4, <3>1 DEF SetStop, Machines
  <2> QED BY <1>4, <2>1, TakeSessionLight
<1>8. Streams(k, m.runner.session) => m.runner.session # None
  BY DEF Streams
<1> QED BY <1>2, <1>3, <1>5, <1>6, <1>7, <1>8 DEF n

\* What #startTask does after the disposal.
LEMMA BeginFields ==
    ASSUME NEW m \in Machines, NEW r \in RunIds
    PROVE  LET n == Begin(m, r)
               t == m.turns[r].task
           IN  /\ n.state = m.state /\ n.runner.generation = m.runner.generation
               /\ \A x \in RunIds : x # r => n.turns[x] = m.turns[x]
               /\ n.turns[r].task = t
               /\ \/ ~Working(m.state.tasks[t]) /\ n = Returned(m, r)
                     /\ n.runner = m.runner /\ n.turns[r].at = "returned"
                  \/ /\ Working(m.state.tasks[t])
                     /\ n.turns[r].at = "starting" /\ n.runner.taskId = t
                     /\ n.runner.pauseRequested = (m.state.tasks[t].state = "pause_requested")
<1> DEFINE t == m.turns[r].task
           fields == [m.runner EXCEPT
                         !.taskId = t,
                         !.pauseRequested = m.state.tasks[t].state = "pause_requested",
                         !.pauseAcknowledged = FALSE]
           over == [m.turns[r] EXCEPT !.at = "returned", !.attempt = 0]
           on == [m.turns[r] EXCEPT !.at = "starting"]
           n == Begin(m, r)
<1>1. /\ m.runner \in Fields /\ m.turns[r] \in Turn /\ m.turns \in [RunIds -> Turn]
  BY MachineFields
<1>2. /\ over.at = "returned" /\ over.task = t
      /\ on.at = "starting" /\ on.task = t
  BY <1>1 DEF Turn
<1>3. /\ fields.generation = m.runner.generation /\ fields.taskId = t
      /\ fields.pauseRequested = (m.state.tasks[t].state = "pause_requested")
  BY <1>1 DEF Fields
<1>4. CASE ~Working(m.state.tasks[t])
  <2>1. n = Returned(m, r)
    BY <1>4 DEF Begin, Working
  <2>2. /\ n.state = m.state /\ n.runner = m.runner
        /\ n.turns = [m.turns EXCEPT ![r] = over]
    BY <2>1 DEF Returned, Machines
  <2> HIDE DEF over, n
  <2>3. n.turns[r] = over /\ \A x \in RunIds : x # r => n.turns[x] = m.turns[x]
    BY <1>1, <2>2
  <2> QED BY <1>2, <1>4, <2>1, <2>2, <2>3 DEF n
<1>5. CASE Working(m.state.tasks[t])
  <2>1. n = Waiting(SetFields(m, fields), r, "starting")
    BY <1>5 DEF Begin, Working, SetFields
  <2> HIDE DEF fields
  <2>2. /\ n.state = m.state /\ n.runner = fields
        /\ n.turns = [m.turns EXCEPT ![r] = on]
    <3> DEFINE k == SetFields(m, fields)
    <3>1. k = [m EXCEPT !.runner = fields] /\ k.turns = m.turns /\ k.state = m.state
          /\ k.runner = fields
      BY DEF SetFields, Machines
    <3>2. n = [k EXCEPT !.turns = [k.turns EXCEPT ![r] = [k.turns[r] EXCEPT !.at = "starting"]]]
      <4> HIDE DEF k
      <4> QED BY <2>1 DEF Waiting, k
    <3> HIDE DEF n
    <3>3. /\ [k EXCEPT !.turns = [m.turns EXCEPT ![r] = on]].turns = [m.turns EXCEPT ![r] = on]
          /\ [k EXCEPT !.turns = [m.turns EXCEPT ![r] = on]].state = m.state
          /\ [k EXCEPT !.turns = [m.turns EXCEPT ![r] = on]].runner = fields
      BY DEF SetFields, Machines
    <3> QED BY <3>1, <3>2, <3>3
  <2> HIDE DEF on, n
  <2>3. n.turns[r] = on /\ \A x \in RunIds : x # r => n.turns[x] = m.turns[x]
    BY <1>1, <2>2
  <2> QED BY <1>2, <1>3, <1>5, <2>2, <2>3 DEF n
<1> QED BY <1>4, <1>5

\* A new activation is of its run's task and has prompted nothing, and the pause that its
\* task was asked for is known.
LEMMA StartTaskKnown ==
    ASSUME NEW m, Known(m), NEW r \in RunIds, m.turns[r].at = "none",
           m.state.runs[r].state # "none", m.state.runs[r].taskId \in TaskIds
    PROVE  LET n == StartTask(m, r)
           IN  Known(n) /\ (PauseKnown(m) => PauseKnown(n))
<1> DEFINE t == m.state.runs[r].taskId
           first == [m.turns[r] EXCEPT !.task = t]
           fields == [m.runner EXCEPT !.generation = r]
           started == [m EXCEPT !.runner = fields, !.turns = [m.turns EXCEPT ![r] = first]]
           n == StartTask(m, r)
<1>1. /\ Ordered(m) /\ m \in Machines /\ m.runner \in Fields /\ m.turns[r] \in Turn
      /\ m.turns \in [RunIds -> Turn]
  BY MachineFields DEF Known, Ordered
<1>2. first \in Turn /\ first.task = t
  BY <1>1 DEF Turn
<1>3. /\ fields \in Fields /\ fields.taskId = m.runner.taskId
      /\ fields.pauseRequested = m.runner.pauseRequested
  BY <1>1 DEF Fields
<1>4. n = IF m.runner.session = None THEN Begin(started, r)
          ELSE Waiting(TakeSession(started), r, "disposing")
  BY <1>1 DEF StartTask, Machines
<1> HIDE DEF first, fields, n
<1>5. /\ started \in Machines /\ started.state = m.state /\ started.runner = fields
      /\ started.turns = [m.turns EXCEPT ![r] = first]
  BY <1>1, <1>2, <1>3 DEF Machines
<1> HIDE DEF started
<1>6. /\ started.turns[r] = first
      /\ \A x \in RunIds : x # r => started.turns[x] = m.turns[x]
  BY <1>1, <1>5
<1>7. Begun(m, n, r)
  BY <1>1, StartTaskBegins DEF n
<1>8. /\ n.turns[r].task = t /\ n.turns[r].at \notin {"prompted", "gathering"}
      /\ PauseKnown(m) => PauseKnown(n)
  <2>1. CASE m.runner.session = None
    <3>1. n = Begin(started, r)
      BY <1>4, <2>1
    <3> DEFINE u == started.turns[r].task
    <3>4. u = t
      BY <1>2, <1>6
    <3>5. /\ n.turns[r].task = u
          /\ \/ n.runner = started.runner /\ n.turns[r].at = "returned"
             \/ /\ n.turns[r].at = "starting" /\ n.runner.taskId = u
                /\ n.runner.pauseRequested = (started.state.tasks[u].state = "pause_requested")
      BY <1>5, <3>1, BeginFields
    <3>2. /\ n.turns[r].task = t
          /\ \/ n.runner = started.runner /\ n.turns[r].at = "returned"
             \/ /\ n.turns[r].at = "starting" /\ n.runner.taskId = t
                /\ n.runner.pauseRequested = (started.state.tasks[t].state = "pause_requested")
      BY <3>4, <3>5
    <3>3. PauseKnown(m) => PauseKnown(n)
      BY <1>3, <1>5, <1>7, <3>2 DEF PauseKnown, Begun
    <3> QED BY <3>2, <3>3
  <2>2. CASE m.runner.session # None
    <3> DEFINE k == TakeSession(started)
    <3>1. n = Waiting(k, r, "disposing")
      BY <1>4, <2>2
    <3>2. /\ k.turns = started.turns /\ k.runner.taskId = started.runner.taskId
          /\ k.runner.pauseRequested = started.runner.pauseRequested
      BY <1>5, TakeSessionLight
    <3>3. k = [k EXCEPT !.turns = k.turns] /\ DOMAIN k = DOMAIN started
      BY <1>5 DEF TakeSession, Machines
    <3> HIDE DEF k
    <3>4. n.runner = k.runner /\ n.turns = [k.turns EXCEPT ![r] = [k.turns[r] EXCEPT !.at = "disposing"]]
      BY <1>5, <3>1, <3>3 DEF Waiting, Machines
    <3>5. n.turns[r].task = t /\ n.turns[r].at = "disposing"
      BY <1>1, <1>2, <1>5, <1>6, <3>2, <3>4 DEF Turn
    <3>6. PauseKnown(m) => PauseKnown(n)
      BY <1>3, <1>5, <1>7, <3>2, <3>4 DEF PauseKnown, Begun
    <3> QED BY <3>5, <3>6
  <2> QED BY <2>1, <2>2
<1>9. Known(n)
  BY <1>7, <1>8 DEF Known, Begun, Prepared
<1> QED BY <1>8, <1>9 DEF n

\* #resumeTask clears a request that the task's new run does not have.
LEMMA ResumeTaskKnown ==
    ASSUME NEW m, Known(m), NEW r \in RunIds, m.turns[r].at = "none",
           m.state.runs[r].state # "none", m.state.runs[r].taskId \in TaskIds,
           m.state.tasks[m.state.runs[r].taskId].state = "running"
    PROVE  LET n == ResumeTask(m, r)
           IN  Known(n) /\ (PauseKnown(m) => PauseKnown(n))
<1> DEFINE t == m.state.runs[r].taskId
           turn == [m.turns[r] EXCEPT !.task = t, !.at = "resuming"]
           fields == [m.runner EXCEPT !.generation = r, !.pauseRequested = FALSE,
                                      !.pauseAcknowledged = FALSE]
           k == SetFields(m, fields)
           n == ResumeTask(m, r)
<1>1. /\ Ordered(m) /\ m \in Machines /\ m.runner \in Fields /\ m.turns[r] \in Turn
      /\ m.turns \in [RunIds -> Turn]
  BY MachineFields DEF Known, Ordered
<1>2. turn.at = "resuming" /\ turn.task = t
  BY <1>1 DEF Turn
<1>3. fields.taskId = m.runner.taskId
  BY <1>1 DEF Fields
<1>4. \/ n = StartTask(m, r)
      \/ t = m.runner.taskId /\ n = SetTurn(k, r, turn)
  BY <1>1 DEF ResumeTask, Waiting, SetTurn, SetFields, Machines
<1>5. Begun(m, n, r)
  BY <1>1, ResumeTaskBegins
<1> HIDE DEF turn, fields, n
<1>6. CASE t = m.runner.taskId /\ n = SetTurn(k, r, turn)
  <2>1. n.runner = fields /\ n.turns = [m.turns EXCEPT ![r] = turn]
    BY <1>1, <1>6 DEF SetTurn, SetFields, Machines
  <2>2. n.turns[r] = turn
    BY <1>1, <2>1
  <2>3. Known(n)
    BY <1>2, <1>5, <2>2 DEF Known, Begun, Prepared
  <2>4. PauseKnown(n)
    BY <1>3, <1>5, <1>6, <2>1 DEF PauseKnown, Begun
  <2> QED BY <2>3, <2>4 DEF n
<1> QED BY <1>4, <1>6, StartTaskKnown DEF n

\* The task is cancelled: no run of it is at work, and who works for another has lost
\* #taskId with the session, or waits for the disposal of the one before.
LEMMA CancelledSpares ==
    ASSUME NEW m, Known(m), NEW k, Spares(m, k, None), k.turns = m.turns,
           k.runner.taskId \in TaskIds, Idle(m.state, k.state, k.runner.taskId)
    PROVE  LET n == StopCurrent(k, k.runner.taskId)
           IN  Spares(m, n, None) /\ n.state = k.state /\ n.turns = k.turns
<1> DEFINE u == k.runner.taskId
           n == StopCurrent(k, u)
<1>1. Known(k) /\ Ordered(k) /\ k \in Machines
  BY DEF Spares, Known, Ordered
<1>2. Ordered(n) /\ n.state = k.state /\ n.turns = k.turns
  BY <1>1, StopCurrentOrdered
<1>3. /\ n.runner.taskId \in {u, None}
      /\ k.runner.session = None => n.runner.taskId = None
      /\ n.runner.pauseRequested = k.runner.pauseRequested
  BY <1>1, StopCurrentFields
<1> HIDE DEF n
<1>4. Known(n)
  BY <1>1, <1>2 DEF Known
<1>5. PauseKnown(m) => PauseKnown(n)
  BY <1>2, <1>3, NoneAssumption DEF Spares, PauseKnown
<1>6. ASSUME NEW t \in TaskIds, NEW r \in RunIds, m.turns[r].at # "none", AtWork(n.state, t, r)
      PROVE  /\ AtWork(m.state, t, r)
             /\ m.runner.taskId = None => n.runner.taskId = None
             /\ Holds(m, t, r) => (Holds(n, t, r) \/ n.runner.taskId = None)
  <2>1. /\ AtWork(m.state, t, r) /\ AtWork(k.state, t, r)
        /\ m.runner.taskId = None => u = None
        /\ Holds(m, t, r) => (Holds(k, t, r) \/ u = None)
    BY <1>2, <1>6, NoneAssumption DEF Spares
  <2>2. m.state.runs[r].state # "none"
    BY <1>6 DEF Known, Ordered, ActivationsAreRuns
  <2>3. t # u
    BY <2>1, <2>2 DEF Idle
  <2>4. ASSUME Holds(k, t, r)
        PROVE  n.runner.taskId = None
    <3>1. k.turns[r].at = "disposing"
      BY <2>3, <2>4 DEF Holds
    <3>2. SlotRun(k.state) = r
      BY <1>1, <2>1, NoneAssumption DEF Known, Slotted, AtWork, SlotRun
    <3>3. k.runner.session = None
      BY <1>1, <3>1, <3>2 DEF Ordered, NoSessionYet, Opening
    <3> QED BY <1>3, <3>3
  <2> QED BY <1>3, <2>1, <2>4
<1>7. \A r \in RunIds : m.turns[r].at # "none" => n.turns[r].at # "none"
  BY <1>2
<1>8. Spares(m, n, None)
  BY <1>4, <1>5, <1>6, <1>7 DEF Spares
<1> QED BY <1>2, <1>8 DEF n

\* A run is started or resumed: it has the slot, and nothing else is at work.
LEMMA StartedSpares ==
    ASSUME NEW m, Known(m), NEW k, Spares(m, k, None), k.turns = m.turns,
           NEW e, e.type \in StartTypes, e.taskId \in TaskIds, e.runId \in RunIds,
           m.turns[e.runId].at = "none", k.state.runs[e.runId].state # "none",
           k.state.runs[e.runId].taskId = e.taskId, Running(k.state, e.taskId, e.runId)
    PROVE  Spares(m, HandleEvent(k, e), None)
<1> DEFINE n == HandleEvent(k, e)
           r == e.runId
<1>1. Known(k) /\ Ordered(k)
  BY DEF Spares, Known
<1>2. n \in {StartTask(k, r), ResumeTask(k, r)}
  BY DEF HandleEvent, StartTypes
<1>3. Begun(k, n, r)
  BY <1>1, StartHandled
<1>4. Known(n) /\ (PauseKnown(k) => PauseKnown(n))
  BY <1>1, <1>2, StartTaskKnown, ResumeTaskKnown DEF Running
<1> HIDE DEF n
<1>5. ASSUME NEW t \in TaskIds, NEW x \in RunIds, m.turns[x].at # "none", AtWork(n.state, t, x)
      PROVE  FALSE
  <2>1. Working(k.state.tasks[e.taskId]) /\ k.state.tasks[e.taskId].activeRunId = r
    BY DEF Running, Working
  <2>2. Working(k.state.tasks[t]) /\ k.state.tasks[t].activeRunId = x
    BY <1>3, <1>5 DEF Begun, AtWork
  <2>3. t = e.taskId
    BY <1>1, <2>1, <2>2 DEF Known, Slotted
  <2> QED BY <1>5, <2>1, <2>2, <2>3
<1>6. \A x \in RunIds : m.turns[x].at # "none" => n.turns[x].at # "none"
  BY <1>3 DEF Begun
<1> QED BY <1>4, <1>5, <1>6 DEF Spares, n

\* So a decision that asks for no pause takes no run out of the hands of its activation.
LEMMA DecideSpares ==
    ASSUME NEW m, Known(m), NEW events, Deliberate(events), AsksNoPause(events)
    PROVE  Spares(m, Decide(m, events), None)
<1> DEFINE a == Commit(m, events)
           last == events[Len(events)]
           n == Decide(m, events)
<1>1. events \in Seq(Events) /\ Len(events) \in 1..3 /\ StartsLast(events)
      /\ DOMAIN events = 1..Len(events)
  BY DEF Deliberate
<1>2. Spares(m, a, None)
  BY CommitSpares
<1>3. /\ Known(a) /\ a.turns = m.turns
      /\ (~a.wedged /\ last.type \in StartTypes) =>
            /\ last.taskId \in TaskIds /\ last.runId \in RunIds
            /\ m.state.runs[last.runId].state = "none"
            /\ a.state.runs[last.runId].state # "none"
            /\ a.state.runs[last.runId].taskId = last.taskId
            /\ Running(a.state, last.taskId, last.runId)
      /\ \A i \in DOMAIN events :
            (~a.wedged /\ events[i].type = "task.cancelled")
               => Idle(m.state, a.state, events[i].taskId)
  BY CommitKnown DEF Still
<1>4. n = HandleNth(HandleNth(HandleNth(a, events, 1), events, 2), events, 3)
  <2>1. n = HandleEvents(a, events)
    BY DEF Decide
  <2> HIDE DEF n, a
  <2> QED BY <1>1, <2>1, FewHandled
<1> HIDE DEF last, n, a
<1>5. CASE a.wedged
  <2>1. \A i : HandleNth(a, events, i) = a
    BY <1>5 DEF HandleNth, Handled
  <2>2. n = a
    BY <1>4, <2>1
  <2> QED BY <1>2, <2>2 DEF n
<1>6. CASE ~a.wedged
  <2> DEFINE Good(k) == Spares(m, k, None) /\ k.state = a.state /\ k.turns = m.turns
  <2>1. ASSUME NEW k, Good(k), NEW i, i \in DOMAIN events => events[i].type \notin StartTypes
        PROVE  Good(HandleNth(k, events, i))
    <3>1. CASE /\ i \in DOMAIN events /\ ~k.wedged /\ events[i].type = "task.cancelled"
               /\ events[i].taskId = k.runner.taskId
      <4>1. events[i] \in Events
        BY <1>1, <3>1
      <4>2. k.runner.taskId \in TaskIds
        BY <3>1, <4>1, EventTypes DEF TaskTypes, TaskIsRequired
      <4>3. Idle(m.state, k.state, k.runner.taskId)
        BY <1>3, <1>6, <2>1, <3>1
      <4>4. HandleNth(k, events, i) = StopCurrent(k, k.runner.taskId)
        BY <3>1 DEF HandleNth, Handled, HandleEvent
      <4> QED BY <2>1, <4>2, <4>3, <4>4, CancelledSpares
    <3>2. CASE ~(/\ i \in DOMAIN events /\ ~k.wedged /\ events[i].type = "task.cancelled"
                 /\ events[i].taskId = k.runner.taskId)
      <4>1. i \in DOMAIN events => events[i].type # "task.pauseRequested"
        BY DEF AsksNoPause
      <4>2. HandleNth(k, events, i) = k
        BY <2>1, <3>2, <4>1 DEF HandleNth, Handled, HandleEvent, StartTypes
      <4> QED BY <2>1, <4>2
    <3> QED BY <3>1, <3>2
  <2>2. \A i \in DOMAIN events : i # Len(events) => events[i].type \notin StartTypes
    BY <1>1 DEF StartsLast
  <2>3. ASSUME NEW k, Good(k)
        PROVE  Spares(m, HandleNth(k, events, Len(events)), None)
    <3> DEFINE j == HandleNth(k, events, Len(events))
    <3>1. CASE last.type \notin StartTypes
      BY <2>1, <2>3, <3>1 DEF last
    <3>2. CASE k.wedged
      BY <2>3, <3>2 DEF HandleNth, Handled
    <3>3. CASE last.type \in StartTypes /\ ~k.wedged
      <4>1. m.turns[last.runId].at = "none"
        BY <1>3, <1>6, <3>3 DEF Known, Ordered, ActivationsAreRuns
      <4>2. j = HandleEvent(k, last)
        BY <1>1, <3>3 DEF HandleNth, Handled, last
      <4> HIDE DEF j
      <4> QED BY <1>3, <1>6, <2>3, <3>3, <4>1, <4>2, StartedSpares DEF j
    <3> QED BY <3>1, <3>2, <3>3
  <2>4. \A k : \A i : i \notin DOMAIN events => HandleNth(k, events, i) = k
    BY DEF HandleNth
  <2>5. Good(a)
    BY <1>2, <1>3
  <2> DEFINE k1 == HandleNth(a, events, 1)
             k2 == HandleNth(k1, events, 2)
             k3 == HandleNth(k2, events, 3)
  <2>6. n = k3
    BY <1>4
  <2> HIDE DEF Good
  <2>7. CASE Len(events) = 1
    <3>1. Spares(m, k1, None)
      BY <2>3, <2>5, <2>7
    <3> HIDE DEF k1
    <3>2. k2 = k1
      BY <1>1, <2>4, <2>7
    <3> HIDE DEF k2
    <3>3. k3 = k2
      BY <1>1, <2>4, <2>7
    <3> QED BY <2>6, <3>1, <3>2, <3>3 DEF n
  <2>8. CASE Len(events) = 2
    <3>1. Good(k1)
      BY <1>1, <2>1, <2>2, <2>5, <2>8
    <3> HIDE DEF k1
    <3>2. Spares(m, k2, None)
      BY <2>3, <2>8, <3>1
    <3> HIDE DEF k2
    <3>3. k3 = k2
      BY <1>1, <2>4, <2>8
    <3> QED BY <2>6, <3>2, <3>3 DEF n
  <2>9. CASE Len(events) = 3
    <3>1. Good(k1)
      BY <1>1, <2>1, <2>2, <2>5, <2>9
    <3> HIDE DEF k1
    <3>2. Good(k2)
      BY <1>1, <2>1, <2>2, <2>9, <3>1
    <3> HIDE DEF k2
    <3>3. Spares(m, k3, None)
      BY <2>3, <2>9, <3>2
    <3> QED BY <2>6, <3>3 DEF n
  <2> QED BY <1>1, <2>7, <2>8, <2>9
<1> QED BY <1>5, <1>6

\* A pause is asked for: the runner knows, unless the decision is wedged, and every
\* activation goes on.
LEMMA RequestPauseSpares ==
    ASSUME NEW m, Known(m), NEW t \in TaskIds, m.state.tasks[t].state = "running"
    PROVE  LET n == Decide(m, RequestPauseEvents(t))
           IN  \/ Spares(m, n, None)
               \/ /\ Known(n) /\ n.wedged
                  /\ \A u \in TaskIds, r \in RunIds :
                        (Holds(m, u, r) /\ AtWork(n.state, u, r)) => Holds(n, u, r)
<1> DEFINE events == RequestPauseEvents(t)
           e == [type |-> "task.pauseRequested", taskId |-> t]
           a == Commit(m, events)
           n == Decide(m, events)
<1>1. Deliberate(events) /\ m.state \in ControllerStates
  BY UserIsDeliberate, MachineFields DEF Known, Ordered
<1>2. Len(events) = 1 /\ events[1] = e /\ events = <<e>> /\ DOMAIN events = {1}
  BY DEF RequestPauseEvents
<1>3. Heeds(m.state, events[1])
  BY <1>2 DEF Heeds, Working
<1>4. /\ Known(a) /\ a.turns = m.turns /\ a.runner = m.runner
      /\ WorkIsNew(m.state, a.state)
  BY <1>1, <1>2, <1>3, CommitKnown DEF Still
<1>5. \A u \in TaskIds : u # t => a.state.tasks[u] = m.state.tasks[u]
  <2> DEFINE memory == ApplyDecision([state |-> m.state, ok |-> TRUE], events)
  <2>1. a.state = memory.state
    BY <1>1, CommitStill DEF Known
  <2>2. memory = ApplyChecked([state |-> m.state, ok |-> TRUE], e)
    BY <1>2, DecisionOfOne
  <2>3. memory.state \in {m.state, Apply(m.state, e)}
    BY <2>2 DEF ApplyChecked
  <2>4. e \in Events /\ e.type \in TaskTypes /\ e.taskId = t
    BY <1>1, <1>2 DEF Deliberate, TaskTypes, TaskIsRequired
  <2>5. \A u \in TaskIds : u # t => Apply(m.state, e).tasks[u] = m.state.tasks[u]
    BY <1>1, <2>4, TaskEffect
  <2> HIDE DEF memory, a, e
  <2> QED BY <2>1, <2>3, <2>5
<1>6. n = Handled(a, e)
  <2>1. n = HandleEvents(a, events)
    BY DEF Decide
  <2> HIDE DEF n, a, e
  <2>2. n = HandleNth(HandleNth(HandleNth(a, events, 1), events, 2), events, 3)
    BY <1>1, <2>1, FewHandled DEF Deliberate
  <2>3. \A k : HandleNth(k, events, 2) = k /\ HandleNth(k, events, 3) = k
    BY <1>2 DEF HandleNth
  <2>4. HandleNth(a, events, 1) = Handled(a, e)
    BY <1>2 DEF HandleNth
  <2> QED BY <2>2, <2>3, <2>4
<1> HIDE DEF a, n, events
<1>7. \A u \in TaskIds, r \in RunIds :
         (m.turns[r].at # "none" /\ AtWork(a.state, u, r)) => AtWork(m.state, u, r)
  BY <1>4, WorkOfActivations
<1>8. \A u \in TaskIds, r \in RunIds :
         (Holds(m, u, r) /\ AtWork(a.state, u, r)) => Holds(a, u, r)
  BY <1>4 DEF Holds
<1>9. CASE a.wedged
  <2>1. n = a
    BY <1>6, <1>9 DEF Handled
  <2> QED BY <1>4, <1>8, <1>9, <2>1 DEF n, events
<1>10. CASE ~a.wedged /\ t # a.runner.taskId
  <2>1. n = a
    BY <1>6, <1>10 DEF Handled, HandleEvent, PauseRequested
  <2>2. PauseKnown(m) => PauseKnown(a)
    BY <1>4, <1>5, <1>10 DEF PauseKnown
  <2>3. Spares(m, a, None)
    BY <1>4, <1>7, <1>8, <2>2 DEF Spares
  <2> QED BY <2>1, <2>3 DEF n, events
<1>11. CASE ~a.wedged /\ t = a.runner.taskId
  <2> DEFINE fields == [a.runner EXCEPT !.pauseRequested = TRUE, !.pauseAcknowledged = FALSE]
             j == SetFields(a, fields)
  <2>1. a \in Machines /\ a.runner \in Fields /\ Ordered(a)
    BY <1>4, MachineFields DEF Known, Ordered
  <2>2. /\ fields \in Fields /\ fields.session = a.runner.session
        /\ fields.generation = a.runner.generation /\ fields.taskId = a.runner.taskId
        /\ fields.pauseRequested
    BY <2>1 DEF Fields
  <2>3. n \in {j, AcknowledgePause(j)}
    BY <1>6, <1>11 DEF Handled, HandleEvent, PauseRequested, SetFields
  <2> HIDE DEF fields
  <2>4. Calm(a, j) /\ Light(a, j, None) /\ j.runner = fields
    BY <2>1, <2>2, SetFieldsCalm, FieldsLight
  <2> HIDE DEF j
  <2>5. Spares(a, j, None) /\ Known(j)
    BY <1>4, <2>1, <2>4, CalmOrdered, LightSpares DEF Spares
  <2>6. PauseKnown(j) /\ j.state = a.state
    BY <2>2, <2>4 DEF PauseKnown, Light
  <2>7. Spares(m, j, None)
    BY <1>4, <1>7, <1>8, <2>5, <2>6 DEF Spares
  <2>8. Spares(m, AcknowledgePause(j), None)
    BY <2>5, <2>7, AcknowledgePauseSpares, SparesTransitive
  <2> QED BY <2>3, <2>7, <2>8 DEF n, events
<1> QED BY <1>9, <1>10, <1>11

-----------------------------------------------------------------------------
(* Losses: the functions of an activation.                                 *)

\* Whoever has returned from a run that is not in its hands gives up nothing.
LEMMA ReturnedSpares ==
    ASSUME NEW m, Known(m), NEW r \in RunIds, m.turns[r].at # "none"
    PROVE  /\ Spares(m, Returned(m, r), r)
           /\ (\A t \in TaskIds : ~Holds(m, t, r)) => Spares(m, Returned(m, r), None)
<1>1. Ordered(m) /\ m \in Machines
  BY DEF Known, Ordered
<1>2. Ordered(Returned(m, r))
  BY <1>1, ReturnedFine DEF Fine
<1>3. Light(m, Returned(m, r), r)
  BY <1>1, ReturnedLight
<1> QED BY <1>2, <1>3, LightSpares, LightSparesAll

\* Who is not current, or not of the generation, has nothing in hand.
LEMMA OthersHoldNothing ==
    ASSUME NEW m, Known(m), NEW r \in RunIds,
           \/ m.runner.generation # r
           \/ m.turns[r].at # "disposing" /\ ~IsCurrent(m, r)
    PROVE  \A t \in TaskIds : ~Holds(m, t, r)
BY HolderIsCurrent DEF Holds

\* An activation that was waiting goes on to wait for something else.
LEMMA WaitingSpares ==
    ASSUME NEW m, Known(m), NEW r \in RunIds, m.turns[r].at \notin {"none", "disposing"},
           NEW wait \in Waits \ Opening,
           wait \in {"prompted", "gathering"} => m.turns[r].session # None
    PROVE  Spares(m, Waiting(m, r, wait), None)
<1>1. Ordered(m) /\ m \in Machines
  BY DEF Known, Ordered
<1>2. Ordered(Waiting(m, r, wait))
  BY <1>1, WaitingFine DEF Fine
<1>3. Light(m, Waiting(m, r, wait), r) /\ Waiting(m, r, wait).turns[r].at = wait
  BY <1>1, WaitingLight
<1> QED BY <1>2, <1>3, LightSparesAll

\* #disposeSession, and the fields are cleared: the run keeps its activation meanwhile.
LEMMA CleanUpSpares ==
    ASSUME NEW m, Known(m), NEW r \in RunIds, m.turns[r].at \notin {"none", "disposing"}
    PROVE  Spares(m, CleanUp(m, r), None)
<1> DEFINE n == CleanUp(m, r)
<1>1. Ordered(m) /\ m \in Machines
  BY DEF Known, Ordered
<1>2. Ordered(n)
  BY <1>1, CleanUpFine DEF Fine
<1>3. CASE m.runner.session = None
  <2> DEFINE k == Release(m)
  <2>1. /\ Light(m, k, r) /\ k.runner.taskId = None
        /\ k \in Machines /\ k.turns = m.turns
    BY <1>1, ReleaseLight, LightMore, ReleaseCalm DEF Calm
  <2> HIDE DEF k
  <2>2. Light(k, Returned(k, r), r) /\ Returned(k, r).runner = k.runner
    BY <2>1, ReturnedLight
  <2>3. n = Returned(k, r)
    BY <1>3 DEF CleanUp, k
  <2>4. Light(m, n, r) /\ n.runner.taskId = None
    BY <2>1, <2>2, <2>3, LightTransitive
  <2> HIDE DEF n
  <2> QED BY <1>2, <2>4, LightSparesAll DEF n
<1>4. CASE m.runner.session # None
  <2> DEFINE k == TakeSession(m)
  <2>1. Light(m, k, r) /\ k \in Machines /\ k.turns = m.turns
    BY <1>1, TakeSessionLight, LightMore, TakeSessionOrdered DEF Ordered
  <2> HIDE DEF k
  <2>2. Light(k, Waiting(k, r, "cleaning"), r) /\ Waiting(k, r, "cleaning").turns[r].at = "cleaning"
    BY <2>1, WaitingLight DEF Waits
  <2>3. n = Waiting(k, r, "cleaning")
    BY <1>4 DEF CleanUp, k
  <2>4. Light(m, n, r) /\ n.turns[r].at \in Waits
    BY <2>1, <2>2, <2>3, LightTransitive DEF Waits
  <2> HIDE DEF n
  <2> QED BY <1>2, <2>4, LightSparesAll DEF n
<1> QED BY <1>3, <1>4

\* The end of #runTask.
LEMMA FinishTurnSpares ==
    ASSUME NEW m, Known(m), NEW r \in RunIds, m.turns[r].at \notin {"none", "disposing"}
    PROVE  Spares(m, FinishTurn(m, r), None)
<1>1. ~IsCurrent(m, r) => Spares(m, Returned(m, r), None)
  BY ReturnedSpares, OthersHoldNothing
<1> QED BY <1>1, CleanUpSpares DEF FinishTurn

\* onFail, onComplete
LEMMA SignalSpares ==
    ASSUME NEW m, Known(m), NEW t \in TaskIds
    PROVE  /\ Spares(m, OnFail(m, t), None) /\ Decided(m, OnFail(m, t))
           /\ Spares(m, OnComplete(m, t), None) /\ Decided(m, OnComplete(m, t))
<1>1. Ordered(m) /\ m.state \in ControllerStates
  BY MachineFields DEF Known, Ordered
<1>2. CanFinish(m.state, t) =>
         /\ Deliberate(FailEvents(m.state, t)) /\ Deliberate(CompleteEvents(m.state, t))
         /\ AsksNoPause(FailEvents(m.state, t)) /\ AsksNoPause(CompleteEvents(m.state, t))
  BY <1>1, RunnerIsDeliberate, OnlyRequestPauseAsks
<1>3. CASE CanFinish(m.state, t)
  <2>1. /\ OnFail(m, t) = Decide(m, FailEvents(m.state, t))
        /\ OnComplete(m, t) = Decide(m, CompleteEvents(m.state, t))
    BY <1>3 DEF OnFail, OnComplete, Signal
  <2> QED BY <1>1, <1>2, <1>3, <2>1, DecideSpares, DecideOrdered
<1>4. CASE ~CanFinish(m.state, t)
  <2>1. OnFail(m, t) = m /\ OnComplete(m, t) = m
    BY <1>4 DEF OnFail, OnComplete, Signal
  <2> QED BY <1>1, <2>1, SparesItself DEF Decided
<1> QED BY <1>3, <1>4

\* A signal, and then the activation ends.
LEMMA ThenEndsSparing ==
    ASSUME NEW m, Known(m), NEW r \in RunIds, m.turns[r].at \notin {"none", "disposing"},
           NEW n, Spares(m, n, None), Decided(m, n)
    PROVE  Spares(m, CleanUp(n, r), None) /\ Spares(m, FinishTurn(n, r), None)
<1>1. Known(n) /\ n.turns[r] = m.turns[r]
  BY DEF Spares, Decided
<1>2. Spares(n, CleanUp(n, r), None) /\ Spares(n, FinishTurn(n, r), None)
  BY <1>1, CleanUpSpares, FinishTurnSpares
<1> QED BY <1>2, SparesTransitive

\* the catch branch of #startTask
LEMMA StartThrowsSpares ==
    ASSUME NEW m, Known(m), NEW r \in RunIds, m.turns[r].at \notin {"none", "disposing"}
    PROVE  Spares(m, StartThrows(m, r), None)
<1>1. m.runner.generation # r => Spares(m, Returned(m, r), None)
  BY ReturnedSpares, OthersHoldNothing
<1>2. m.turns[r].task \in TaskIds
  BY TaskOfTurn DEF Known
<1>3. Spares(m, CleanUp(OnFail(m, m.turns[r].task), r), None)
  BY <1>2, SignalSpares, ThenEndsSparing
<1> QED BY <1>1, <1>3 DEF StartThrows

\* The guard's attribution is replaced.
LEMMA AttributionLight ==
    ASSUME NEW m \in Machines, NEW s \in RunIds \cup {None}
    PROVE  LET n == [m EXCEPT !.runner.attribution = s]
           IN  /\ Light(m, n, None) /\ n.turns = m.turns
               /\ n.runner.session = m.runner.session /\ n.runner.taskId = m.runner.taskId
               /\ n.runner.generation = m.runner.generation
<1> DEFINE fields == [m.runner EXCEPT !.attribution = s]
           n == [m EXCEPT !.runner.attribution = s]
<1>1. m.runner \in Fields
  BY MachineFields
<1>2. /\ fields \in Fields /\ fields.session = m.runner.session
      /\ fields.generation = m.runner.generation /\ fields.taskId = m.runner.taskId
      /\ fields.pauseRequested = m.runner.pauseRequested
  BY <1>1 DEF Fields
<1>3. n = SetFields(m, fields)
  BY DEF SetFields
<1> HIDE DEF fields, n
<1>4. Light(m, n, None) /\ n.turns = m.turns /\ n.runner = fields
  BY <1>2, <1>3, FieldsLight
<1> QED BY <1>2, <1>4 DEF n

\* #runTask, up to the end of the agent's turn: it returns without a session, or because
\* another task is current.
LEMMA RunTaskLight ==
    ASSUME NEW m \in Machines, NEW r \in RunIds, m.turns[r].at # "none"
    PROVE  LET n == RunTask(m, r)
           IN  /\ Light(m, n, r) /\ n.runner = m.runner
               /\ \/ n.turns[r].at = "prompted"
                  \/ /\ n.turns[r].at = "returned"
                     /\ m.runner.session = None \/ m.turns[r].task # m.runner.taskId
<1> DEFINE s == m.runner.session
           n == RunTask(m, r)
           first == [m EXCEPT !.sessions[s].streaming = TRUE, !.sessions[s].aborted = FALSE]
           turn == [m.turns[r] EXCEPT !.session = s, !.at = "prompted"]
<1>1. m.turns[r] \in Turn /\ s \in RunIds \cup {None} /\ m.turns \in [RunIds -> Turn]
  BY MachineFields
<1>2. CASE s = None \/ m.turns[r].task # m.runner.taskId
  <2>1. n = Returned(m, r)
    BY <1>2 DEF RunTask
  <2> QED BY <1>2, <2>1, ReturnedLight
<1>3. CASE ~(s = None \/ m.turns[r].task # m.runner.taskId)
  <2>1. /\ turn.at = "prompted" /\ turn.task = m.turns[r].task /\ turn.session = s
    BY <1>1 DEF Turn
  <2>2. n.turns = [m.turns EXCEPT ![r] = turn] /\ n.state = m.state /\ n.runner = m.runner
    BY <1>1, <1>3 DEF RunTask, Waiting, Machines
  <2> HIDE DEF turn, n
  <2>3. n.turns[r] = turn /\ \A x \in RunIds : x # r => n.turns[x] = m.turns[x]
    BY <1>1, <2>2
  <2>4. Prepared(turn)
    BY <1>3, <2>1 DEF Prepared
  <2>5. Light(m, n, r)
    BY <2>1, <2>2, <2>3, <2>4 DEF Light
  <2> QED BY <2>1, <2>2, <2>3, <2>5 DEF n
<1> QED BY <1>2, <1>3

-----------------------------------------------------------------------------
(* Losses: from functions to steps.                                        *)

\* The activation of run r has returned, and the property says why it may.
Excused(m, n, r) ==
    LET session == m.turns[r].session
    IN  /\ n.turns[r].at = "returned"
        /\ \/ m.turns[r].at \in {"resuming", "reconciling"}
           \/ m.runner.pauseRequested \/ m.runner.session = None
           \/ session # None /\ m.sessions[session].aborted

\* What a step may do.
Spared(m, n) ==
    /\ Known(n)
    /\ n.wedged \/ PauseKnown(n)
    /\ \A t \in TaskIds, r \in RunIds :
          (Holds(m, t, r) /\ AtWork(n.state, t, r)) =>
              (Holds(n, t, r) \/ n.runner.taskId = None \/ Excused(m, n, r))

\* A step by a function that gives up no run, or only the excused one of x.
LEMMA SparedStep ==
    ASSUME Known(machine), PauseKnown(machine), NEW n, Becomes(n), NEW x,
           Spares(machine, n, x), x # None => Excused(machine, n, x)
    PROVE  Spared(machine, machine')
<1>1. Known(n) /\ n \in Machines
  BY DEF Spares, Known, Ordered
<1>2. ASSUME NEW t \in TaskIds, NEW r \in RunIds, Holds(machine, t, r), AtWork(n.state, t, r)
      PROVE  Holds(n, t, r) \/ n.runner.taskId = None \/ Excused(machine, n, r)
  <2>1. machine.turns[r].at # "none"
    BY <1>2 DEF Holds, Waits
  <2> QED BY <1>2, <2>1, NoneAssumption DEF Spares
<1>3. Spared(machine, n)
  BY <1>1, <1>2 DEF Spares, Spared
<1> QED BY <1>1, <1>3, BecomesIs

\* A function that touches sessions and cancellations only.
LEMMA QuietSpares ==
    ASSUME NEW m, Known(m), NEW n, Ordered(n),
           n.state = m.state, n.runner = m.runner, n.turns = m.turns
    PROVE  Spares(m, n, None)
BY QuietIsLight, LightSpares

\* A command of the user.
LEMMA UserSpares ==
    ASSUME Known(machine), PauseKnown(machine), UserStep
    PROVE  Spared(machine, machine')
<1>1. machine.state = state /\ state \in ControllerStates
  BY MachineIs, MachineFields DEF Known, Ordered
<1>2. ASSUME NEW events, Deliberate(events), AsksNoPause(events),
             Becomes(Decide(machine, events))
      PROVE  Spared(machine, machine')
  BY <1>2, DecideSpares, SparedStep
<1>3. CASE Submit
  <2>1. \A t \in TaskIds : CanSubmit(state) => Deliberate(SubmitEvents(state, "fast"))
    BY <1>1, UserIsDeliberate
  <2>2. PICK t \in TaskIds : state.tasks[t].state = "none"
    BY <1>3 DEF Submit, CanSubmit, TaskLeft
  <2>3. AsksNoPause(SubmitEvents(state, "fast"))
    BY OnlyRequestPauseAsks
  <2> QED BY <1>2, <1>3, <2>1, <2>2, <2>3 DEF Submit
<1>4. ASSUME NEW t \in TaskIds, RequestPause(t)
      PROVE  Spared(machine, machine')
  <2> DEFINE n == Decide(machine, RequestPauseEvents(t))
  <2>1. machine.state.tasks[t].state = "running" /\ Becomes(n)
    BY <1>1, <1>4 DEF RequestPause, CanRequestPause
  <2>2. \/ Spares(machine, n, None)
        \/ /\ Known(n) /\ n.wedged
           /\ \A u \in TaskIds, r \in RunIds :
                 (Holds(machine, u, r) /\ AtWork(n.state, u, r)) => Holds(n, u, r)
    BY <2>1, RequestPauseSpares
  <2> HIDE DEF n
  <2>3. CASE Spares(machine, n, None)
    BY <2>1, <2>3, SparedStep
  <2>4. CASE /\ Known(n) /\ n.wedged
             /\ \A u \in TaskIds, r \in RunIds :
                   (Holds(machine, u, r) /\ AtWork(n.state, u, r)) => Holds(n, u, r)
    <3>1. Spared(machine, n) /\ n \in Machines
      BY <2>4 DEF Spared, Known, Ordered
    <3> QED BY <2>1, <3>1, BecomesIs
  <2> QED BY <2>2, <2>3, <2>4
<1>5. ASSUME NEW t \in TaskIds, Resume(t)
      PROVE  Spared(machine, machine')
  <2>1. Deliberate(ResumeEvents(state, t)) /\ AsksNoPause(ResumeEvents(state, t))
    BY <1>1, <1>5, UserIsDeliberate, OnlyRequestPauseAsks DEF Resume
  <2> QED BY <1>2, <1>5, <2>1 DEF Resume
<1>6. ASSUME NEW t \in TaskIds, Cancel(t)
      PROVE  Spared(machine, machine')
  <2>1. Deliberate(CancelEvents(state, t)) /\ AsksNoPause(CancelEvents(state, t))
    BY <1>1, <1>6, UserIsDeliberate, OnlyRequestPauseAsks DEF Cancel
  <2> QED BY <1>2, <1>6, <2>1 DEF Cancel
<1>7. ASSUME NEW t \in TaskIds, NEW q \in QuestionIds, AnswerQuestion(t, q)
      PROVE  Spared(machine, machine')
  <2>1. /\ Deliberate(AnswerQuestionEvents(state, t, q))
        /\ AsksNoPause(AnswerQuestionEvents(state, t, q))
    BY <1>1, <1>7, UserIsDeliberate, OnlyRequestPauseAsks DEF AnswerQuestion
  <2> QED BY <1>2, <1>7, <2>1 DEF AnswerQuestion
<1>8. ASSUME NEW c \in ConfirmationIds, NEW decision \in {"approve", "reject"},
             ResolveApproval(c, decision)
      PROVE  Spared(machine, machine')
  <2> DEFINE t == state.confirmations[c].taskId
  <2>1. t \in TaskIds
    <3>1. state.confirmations[c] \in Confirmation /\ t # None
      BY <1>1, <1>8, FieldsTyped DEF ResolveApproval
    <3> QED BY <3>1 DEF Confirmation, NoConfirmation
  <2>2. CanResolveApproval(state, c, decision, Revision(t))
    BY <1>8 DEF ResolveApproval
  <2>3. /\ Deliberate(ResolveApprovalEvents(state, c, decision))
        /\ AsksNoPause(ResolveApprovalEvents(state, c, decision))
    BY <1>1, <2>1, <2>2, UserIsDeliberate, OnlyRequestPauseAsks
  <2> QED BY <1>2, <1>8, <2>3 DEF ResolveApproval
<1> QED BY <1>3, <1>4, <1>5, <1>6, <1>7, <1>8 DEF UserStep

\* The last session is disposed of: nobody else is at work when the activation's task is.
LEMMA DisposedSpares ==
    ASSUME Known(machine), PauseKnown(machine), NEW r \in RunIds, Disposed(r)
    PROVE  Spared(machine, machine')
<1> DEFINE m == machine
           n == Begin(m, r)
           u == m.turns[r].task
<1>1. /\ m.turns[r].at \in Opening /\ m.turns[r].at # "none" /\ Becomes(n)
      /\ m \in Machines /\ Ordered(m)
  BY MachineIs DEF Disposed, Opening, Known, Ordered
<1> HIDE DEF m
<1>2. u \in TaskIds /\ Ordered(n)
  BY <1>1, TaskOfTurn, BeginCalm, CalmOrdered
<1>3. /\ n.state = m.state /\ n.runner.generation = m.runner.generation
      /\ \A x \in RunIds : x # r => n.turns[x] = m.turns[x]
      /\ n.turns[r].task = u
      /\ \/ n.runner = m.runner /\ n.turns[r].at = "returned" /\ ~Working(m.state.tasks[u])
         \/ /\ Working(m.state.tasks[u])
            /\ n.turns[r].at = "starting" /\ n.runner.taskId = u
            /\ n.runner.pauseRequested = (m.state.tasks[u].state = "pause_requested")
  BY <1>1, BeginFields
<1> HIDE DEF n
<1>4. Known(m) /\ PauseKnown(m)
  BY DEF m
<1>5. Known(n)
  BY <1>1, <1>2, <1>3, <1>4 DEF Known, Prepared
<1>6. PauseKnown(n)
  BY <1>3, <1>4 DEF PauseKnown
<1>7. ASSUME NEW t \in TaskIds, NEW x \in RunIds, Holds(m, t, x)
      PROVE  Holds(n, t, x)
  <2>1. Working(m.state.tasks[t]) /\ m.turns[x].task = t
    BY <1>4, <1>7, HolderIsCurrent
  <2>2. Working(m.state.tasks[u]) => t = u
    BY <1>2, <1>4, <2>1 DEF Known, Slotted
  <2> QED BY <1>3, <1>7, <2>1, <2>2 DEF Holds, Waits
<1>8. Spared(m, n) /\ n \in Machines
  BY <1>2, <1>5, <1>6, <1>7 DEF Spared, Ordered
<1> QED BY <1>1, <1>8, BecomesIs DEF m

\* A session is created, or that throws.
LEMMA SessionCreatedSpares ==
    ASSUME Known(machine), PauseKnown(machine), NEW r \in RunIds, SessionCreated(r)
    PROVE  Spared(machine, machine')
<1> DEFINE m == machine
           k == IF m.runner.generation # r THEN Returned(m, r) ELSE Waiting(m, r, "binding")
           n == [k EXCEPT !.runner.attribution = None]
<1>1. /\ m.turns[r].at = "starting" /\ m \in Machines /\ Ordered(m)
      /\ Becomes(StartThrows(m, r)) \/ Becomes(n)
  BY MachineIs DEF SessionCreated, Known, Ordered
<1> HIDE DEF m
<1>2. Known(m) /\ PauseKnown(m)
  BY DEF m
<1>3. Spares(m, StartThrows(m, r), None)
  BY <1>1, <1>2, StartThrowsSpares
<1>4. Calm(m, k) /\ Light(m, k, r) /\ (m.runner.generation = r => k.turns[r].at = "binding")
  BY <1>1, ReturnedCalm, WaitingCalm, ReturnedLight, WaitingLight DEF Opening, Waits
<1> HIDE DEF k
<1>5. Calm(k, n) /\ Light(k, n, r) /\ n.turns = k.turns
  BY <1>4, AttributionCalm, AttributionLight, LightMore DEF Calm
<1> HIDE DEF n
<1>6. Ordered(n) /\ Light(m, n, r)
  BY <1>1, <1>4, <1>5, CalmOrdered, CalmTransitive, LightTransitive
<1>7. m.runner.generation # r => \A t \in TaskIds : ~Holds(m, t, r)
  BY <1>2, OthersHoldNothing
<1>8. Spares(m, n, None)
  BY <1>1, <1>2, <1>4, <1>5, <1>6, <1>7, LightSparesAll DEF Waits
<1> QED BY <1>1, <1>2, <1>3, <1>8, SparedStep DEF m

\* onSessionBound, and then the session becomes #session.
LEMMA BindSpares ==
    ASSUME NEW m, Known(m), NEW r \in RunIds, m.turns[r].at = "binding"
    PROVE  Spares(m, Bind(m, r), None)
<1> DEFINE t == m.turns[r].task
           events == RecordCoderSessionEvents(t, r)
           a == Commit(m, events)
           b == WithSession(a, r)
           n == RunTask(b, r)
<1>1. Ordered(m) /\ t \in TaskIds
  BY TaskOfTurn DEF Known
<1>2. CASE ~CanRecordCoderSession(m.state, t, r)
  BY <1>2, StartThrowsSpares DEF Bind
<1>3. CASE CanRecordCoderSession(m.state, t, r)
  <2>1. /\ Deliberate(events) /\ AsksNoPause(events) /\ Decide(m, events) = a
    BY <1>1, RecordIsCommit, OnlyRequestPauseAsks
  <2>2. Bind(m, r) = n
    BY <1>3, <2>1 DEF Bind, WithSession
  <2>3. Ordered(n)
    BY <1>1, <2>2, BindFine DEF Opening, Fine
  <2>4. Spares(m, a, None) /\ a.turns = m.turns
    BY <1>1, <2>1, CommitSpares, CommitStill DEF Still
  <2> HIDE DEF a, events
  <2>5. Known(a) /\ a \in Machines
    BY <2>4 DEF Spares, Known, Ordered
  <2>6. Light(a, b, r) /\ b \in Machines /\ b.turns = a.turns
        /\ b.runner.session = r /\ b.runner.taskId = a.runner.taskId
    <3> DEFINE fields == [a.runner EXCEPT !.session = r]
               session == [a.sessions[r] EXCEPT !.at = "live"]
    <3>1. a.runner \in Fields /\ a.sessions[r] \in Session /\ a.sessions \in [RunIds -> Session]
      BY <2>5, MachineFields
    <3>2. /\ fields \in Fields /\ fields.session = r /\ fields.taskId = a.runner.taskId
          /\ fields.generation = a.runner.generation
          /\ fields.pauseRequested = a.runner.pauseRequested
      BY <3>1 DEF Fields
    <3>3. session \in Session
      BY <3>1 DEF Session
    <3> HIDE DEF fields, session
    <3>4. b = [a EXCEPT !.runner = fields, !.sessions = [a.sessions EXCEPT ![r] = session]]
      BY DEF WithSession, fields, session
    <3> HIDE DEF b
    <3>5. b.runner = fields /\ b.turns = a.turns /\ b.state = a.state /\ b \in Machines
      BY <2>5, <3>1, <3>2, <3>3, <3>4 DEF Machines
    <3> QED BY <3>2, <3>5 DEF Light
  <2> HIDE DEF b
  <2>7. /\ Light(b, n, r)
        /\ \/ n.turns[r].at = "prompted"
           \/ b.runner.session = None \/ b.turns[r].task # b.runner.taskId
    BY <2>4, <2>6, RunTaskLight
  <2> HIDE DEF n
  <2>8. Light(a, n, r)
    BY <2>6, <2>7, LightTransitive
  <2>9. n.turns[r].at = "prompted" \/ \A u \in TaskIds : ~Holds(a, u, r)
    BY <2>4, <2>5, <2>6, <2>7, OthersHoldNothing, NoneAssumption DEF IsCurrent
  <2>10. Spares(a, n, None)
    BY <2>3, <2>4, <2>5, <2>8, <2>9, LightSparesAll DEF Waits
  <2> QED BY <2>2, <2>4, <2>10, SparesTransitive
<1> QED BY <1>2, <1>3

\* The session's file is there.
LEMMA SessionOnDiskSpares ==
    ASSUME Known(machine), PauseKnown(machine), NEW r \in RunIds, SessionOnDisk(r)
    PROVE  Spared(machine, machine')
<1>1. machine.turns[r].at = "binding"
  BY MachineIs DEF SessionOnDisk
<1>2. Spares(machine, StartThrows(machine, r), None) /\ Spares(machine, Bind(machine, r), None)
  BY <1>1, StartThrowsSpares, BindSpares
<1> QED BY <1>2, SparedStep DEF SessionOnDisk

\* A prompt is rejected.
LEMMA PromptThrowsSpares ==
    ASSUME Known(machine), PauseKnown(machine), NEW r \in RunIds, PromptThrows(r)
    PROVE  Spared(machine, machine')
<1> DEFINE m == machine
           session == [m.sessions[r] EXCEPT !.streaming = FALSE, !.call = "none"]
           k == SetSession(m, r, session)
<1>1. /\ m.turns[r].at = "prompted" /\ m \in Machines /\ Ordered(m) /\ m.sessions[r] \in Session
  BY MachineIs, MachineFields DEF PromptThrows, Known, Ordered
<1>2. Becomes(StartThrows(k, r))
  BY DEF PromptThrows, SetSession
<1> HIDE DEF m
<1>3. session \in Session
  BY <1>1 DEF Session
<1>4. session.at = m.sessions[r].at /\ (Occupied(session) => Occupied(m.sessions[r]))
  BY <1>1 DEF Session, Occupied
<1> HIDE DEF session
<1>5. Calm(m, k) /\ k.turns = m.turns /\ k.runner = m.runner
  BY <1>1, <1>3, <1>4, SetSessionCalm
<1> HIDE DEF k
<1>6. Spares(m, k, None)
  BY <1>1, <1>5, CalmOrdered, QuietSpares DEF Calm, m
<1>7. Spares(k, StartThrows(k, r), None)
  BY <1>1, <1>5, <1>6, StartThrowsSpares DEF Spares
<1>8. Spares(m, StartThrows(k, r), None)
  BY <1>6, <1>7, SparesTransitive
<1> QED BY <1>2, <1>8, SparedStep DEF m

\* The session is idle: the resumption goes on, fails, or throws, which is excused.
LEMMA SessionIsIdleSpares ==
    ASSUME Known(machine), PauseKnown(machine), NEW r \in RunIds, SessionIsIdle(r)
    PROVE  Spared(machine, machine')
<1> DEFINE m == machine
           t == m.turns[r].task
           events == RecordCoderSessionEvents(t, r)
           a == Commit(m, events)
<1>1. m.turns[r].at = "resuming" /\ Becomes(Rebind(m, r)) /\ m \in Machines /\ Ordered(m)
  BY MachineIs DEF SessionIsIdle, Known, Ordered
<1> HIDE DEF m
<1>2. Known(m) /\ t \in TaskIds
  BY <1>1, TaskOfTurn DEF m
<1>3. /\ Deliberate(events) /\ AsksNoPause(events) /\ Decide(m, events) = a
  BY <1>2, RecordIsCommit, OnlyRequestPauseAsks
<1>4. \/ Rebind(m, r) = Returned(m, r)
      \/ Rebind(m, r) = Waiting(a, r, "reconciling")
      \/ Rebind(m, r) = CleanUp(OnFail(m, t), r)
  BY <1>3 DEF Rebind
<1>5. Spares(m, a, None) /\ a.turns = m.turns
  BY <1>1, <1>2, <1>3, CommitSpares, CommitStill DEF Still
<1> HIDE DEF a, events
<1>6. Spares(a, Waiting(a, r, "reconciling"), None)
  BY <1>1, <1>5, WaitingSpares DEF Spares, Waits, Opening
<1>7. Spares(m, Waiting(a, r, "reconciling"), None)
  BY <1>5, <1>6, SparesTransitive
<1>8. Spares(m, CleanUp(OnFail(m, t), r), None)
  BY <1>1, <1>2, SignalSpares, ThenEndsSparing
<1>9. Spares(m, Returned(m, r), r) /\ Returned(m, r).turns[r].at = "returned"
  BY <1>1, <1>2, ReturnedSpares, ReturnedLight
<1>10. Excused(m, Returned(m, r), r)
  BY <1>1, <1>9 DEF Excused
<1> QED BY <1>1, <1>4, <1>7, <1>8, <1>9, <1>10, SparedStep DEF m

\* The guard's scan is over, or has thrown.
LEMMA ReconciledSpares ==
    ASSUME Known(machine), PauseKnown(machine), NEW r \in RunIds, Reconciled(r)
    PROVE  Spared(machine, machine')
<1> DEFINE m == machine
           clear == [m EXCEPT !.runner.attribution = None]
<1>1. m.turns[r].at = "reconciling" /\ m \in Machines /\ Ordered(m)
  BY MachineIs DEF Reconciled, Known, Ordered
<1>2. \/ Becomes(Returned(m, r))
      \/ Becomes(RunTask(clear, r))
      \/ Becomes(Returned(clear, r))
  BY DEF Reconciled
<1> HIDE DEF m
<1>3. Known(m)
  BY DEF m
<1>4. /\ Calm(m, clear) /\ Light(m, clear, r) /\ clear.turns = m.turns
      /\ clear \in Machines /\ Ordered(clear)
  BY <1>1, AttributionCalm, AttributionLight, LightMore, CalmOrdered DEF Calm
<1> HIDE DEF clear
<1>5. /\ Light(clear, Returned(clear, r), r) /\ Ordered(Returned(clear, r))
      /\ Returned(clear, r).turns[r].at = "returned"
  BY <1>1, <1>4, ReturnedLight, ReturnedFine DEF Fine
<1>6. /\ Light(clear, RunTask(clear, r), r) /\ Ordered(RunTask(clear, r))
      /\ RunTask(clear, r).turns[r].at \in {"returned", "prompted"}
  BY <1>1, <1>4, RunTaskLight, RunTaskFine DEF Fine
<1>7. /\ Light(m, Returned(m, r), r) /\ Ordered(Returned(m, r))
      /\ Returned(m, r).turns[r].at = "returned"
  BY <1>1, ReturnedLight, ReturnedFine DEF Fine
<1>8. ASSUME NEW n, Light(m, n, r), Ordered(n), n.turns[r].at \in {"returned", "prompted"},
             Becomes(n)
      PROVE  Spared(m, machine')
  <2>1. CASE n.turns[r].at = "returned"
    <3>1. Spares(m, n, r) /\ Excused(m, n, r)
      BY <1>1, <1>3, <1>8, <2>1, LightSpares DEF Excused
    <3> QED BY <1>8, <3>1, SparedStep DEF m
  <2>2. CASE n.turns[r].at = "prompted"
    <3>1. Spares(m, n, None)
      BY <1>1, <1>3, <1>8, <2>2, LightSparesAll DEF Waits
    <3> QED BY <1>8, <3>1, SparedStep DEF m
  <2> QED BY <1>8, <2>1, <2>2
<1>9. Light(m, RunTask(clear, r), r) /\ Light(m, Returned(clear, r), r)
  BY <1>4, <1>5, <1>6, LightTransitive
<1> QED BY <1>2, <1>5, <1>6, <1>7, <1>8, <1>9 DEF m

\* The task that asks no longer works.
LEMMA AskedIsIdle ==
    ASSUME NEW m, Known(m), NEW t \in TaskIds, NEW q \in QuestionIds,
           CanAwaitUserInput(m.state, t, q)
    PROVE  LET n == Decide(m, AwaitUserInputEvents(m.state, t, q))
           IN  /\ Spares(m, n, None) /\ Decided(m, n)
               /\ ~Working(n.state.tasks[t])
<1> DEFINE events == AwaitUserInputEvents(m.state, t, q)
           e == [type |-> "task.questionAsked", taskId |-> t, questionId |-> q,
                 runId |-> m.state.tasks[t].activeRunId, revision |-> m.state.tasks[t].revision]
           s == m.state
           a == Commit(m, events)
           memory == ApplyDecision([state |-> s, ok |-> TRUE], events)
<1>1. Ordered(m) /\ s \in ControllerStates /\ Slotted(s)
  BY MachineFields DEF Known, Ordered
<1>2. Deliberate(events) /\ AsksNoPause(events) /\ events \in Seq(Events)
  BY <1>1, RunnerIsDeliberate, OnlyRequestPauseAsks DEF Deliberate
<1>3. events = <<e>> /\ Len(events) = 1 /\ events[1] = e
  BY DEF AwaitUserInputEvents
<1>4. /\ e.type = "task.questionAsked" /\ e.taskId = t /\ e.questionId = q
      /\ e.runId = s.tasks[t].activeRunId
  OBVIOUS
<1>5. e \in Events
  BY <1>2, <1>3
<1> HIDE DEF e, events
<1>6. Decide(m, events) = a
  BY <1>2, <1>3, <1>4, QuietIsCommit DEF StartTypes
<1>7. /\ s.tasks[t].state = "running" /\ s.tasks[t].activeRunId # None
      /\ s.questions[q].state = "none"
  BY DEF CanAwaitUserInput, InRun
<1>8. Fits(s, e)
  <2>1. s.runs[s.tasks[t].activeRunId].state # "none"
    BY <1>1, <1>7, ActiveRuns
  <2> QED BY <1>4, <1>7, <2>1 DEF Fits
<1>9. memory = ApplyChecked([state |-> s, ok |-> TRUE], e)
  BY <1>3, DecisionOfOne
<1>10. memory.state = Apply(s, e)
  BY <1>8, <1>9 DEF ApplyChecked
<1>11. Apply(s, e).tasks[t].state = "awaiting_user"
  BY <1>1, <1>4, <1>5, TaskEffect DEF After, TaskTypes, TaskIsRequired
<1>12. a.state = memory.state
  BY <1>1, <1>2, CommitStill
<1> HIDE DEF memory, a
<1>13. ~Working(a.state.tasks[t])
  BY <1>10, <1>11, <1>12 DEF Working
<1>14. Spares(m, Decide(m, events), None) /\ Decided(m, Decide(m, events))
  BY <1>1, <1>2, DecideSpares, DecideOrdered
<1> QED BY <1>6, <1>13, <1>14 DEF events

\* onNeedInput: the activation returns from a run that is over, or its turn ends.
LEMMA NeedInputSpares ==
    ASSUME NEW m, Known(m), NEW r \in RunIds, m.turns[r].at \notin {"none", "disposing"},
           NEW q \in QuestionIds
    PROVE  Spares(m, NeedInput(m, r, q), None)
<1> DEFINE t == m.turns[r].task
           a == Decide(m, AwaitUserInputEvents(m.state, t, q))
           n == Returned(a, r)
<1>1. t \in TaskIds
  BY TaskOfTurn DEF Known
<1>2. CASE CanAwaitUserInput(m.state, t, q)
  <2>1. Spares(m, a, None) /\ Decided(m, a) /\ ~Working(a.state.tasks[t])
    BY <1>1, <1>2, AskedIsIdle
  <2>2. NeedInput(m, r, q) = n
    BY <1>2 DEF NeedInput
  <2> HIDE DEF a
  <2>3. Known(a) /\ a \in Machines /\ a.turns[r] = m.turns[r]
    BY <2>1 DEF Spares, Decided, Known, Ordered
  <2>4. \A u \in TaskIds : ~Holds(a, u, r)
    BY <2>1, <2>3, HolderIsCurrent
  <2>5. Spares(a, n, None)
    BY <2>3, <2>4, ReturnedSpares
  <2> QED BY <2>1, <2>2, <2>5, SparesTransitive
<1>3. CASE ~CanAwaitUserInput(m.state, t, q)
  BY <1>1, <1>3, SignalSpares, ThenEndsSparing DEF NeedInput
<1> QED BY <1>2, <1>3

\* The agent is asked again, unless its session is gone.
LEMMA TryAgainSpares ==
    ASSUME NEW m, Known(m), NEW r \in RunIds, m.turns[r].at \notin {"none", "disposing"},
           IsCurrent(m, r)
    PROVE  LET n == TryAgain(m, r)
           IN  \/ Spares(m, n, None)
               \/ Spares(m, n, r) /\ n.turns[r].at = "returned" /\ m.runner.session = None
<1> DEFINE turn == [m.turns[r] EXCEPT !.attempt = @ + 1]
           k == SetTurn(m, r, turn)
           n == TryAgain(m, r)
<1>1. m \in Machines /\ m.turns[r] \in Turn /\ Ordered(m) /\ m.turns[r].task \in TaskIds
  BY MachineFields, TaskOfTurn DEF Known, Ordered
<1>2. CASE m.turns[r].attempt = MaxAttempts
  BY <1>1, <1>2, SignalSpares, ThenEndsSparing DEF TryAgain
<1>3. CASE m.turns[r].attempt # MaxAttempts
  <2>1. m.turns[r].attempt + 1 \in 0..MaxAttempts
    BY <1>1, <1>3, MaxAttemptsAssumption DEF Turn
  <2>2. turn \in Turn
    BY <1>1, <2>1 DEF Turn
  <2>3. /\ turn.at = m.turns[r].at /\ turn.task = m.turns[r].task
        /\ turn.session = m.turns[r].session
    BY <1>1 DEF Turn
  <2>4. n = RunTask(k, r)
    BY <1>3 DEF TryAgain, SetTurn
  <2>5. Ordered(n)
    BY <1>1, TryAgainFine DEF Fine
  <2> HIDE DEF turn, n
  <2>6. TurnKept(m.turns[r], turn) /\ (Prepared(m.turns[r]) => Prepared(turn))
    BY <2>3 DEF TurnKept, Prepared
  <2>7. /\ Calm(m, k) /\ k \in Machines /\ Light(m, k, r)
        /\ k.runner = m.runner /\ k.turns[r] = turn
    <3>1. Calm(m, k)
      BY <1>1, <2>2, <2>6, SetTurnCalm
    <3>2. turn.at # "none"
      BY <2>3
    <3>3. Light(m, k, r) /\ k.runner = m.runner /\ k.turns[r] = turn
      BY <1>1, <2>3, <2>6, <3>2, TurnLight
    <3>4. k \in Machines
      <4> HIDE DEF k
      <4> QED BY <3>1 DEF Calm
    <3> QED BY <3>1, <3>3, <3>4
  <2> HIDE DEF k
  <2>8. /\ Light(k, n, r)
        /\ \/ n.turns[r].at = "prompted"
           \/ n.turns[r].at = "returned" /\ m.runner.session = None
    BY <2>3, <2>4, <2>7, RunTaskLight DEF IsCurrent
  <2>9. Light(m, n, r)
    BY <2>7, <2>8, LightTransitive
  <2>10. n.turns[r].at = "prompted" => Spares(m, n, None)
    BY <2>5, <2>9, LightSparesAll DEF Waits
  <2> QED BY <2>5, <2>8, <2>9, <2>10, LightSpares DEF n
<1> QED BY <1>2, <1>3

\* The evidence that was pending is recorded: the end of #runTask's turn.
LEMMA GatheredSpares ==
    ASSUME Known(machine), PauseKnown(machine), NEW r \in RunIds, Gathered(r)
    PROVE  Spared(machine, machine')
<1> DEFINE m == machine
           t == m.turns[r].task
           asked == m.runner.pauseRequested \/ m.sessions[m.turns[r].session].aborted
<1>1. /\ m.turns[r].at = "gathering" /\ m \in Machines /\ Ordered(m)
      /\ m.state \in ControllerStates /\ t \in TaskIds
  <2>1. m.turns[r].at = "gathering"
    BY MachineIs DEF Gathered
  <2> QED BY <2>1, TaskOfTurn, MachineFields DEF Known, Ordered
<1>2. \/ (~IsCurrent(m, r) \/ m.state.tasks[t].state = "awaiting_user") /\ Becomes(Returned(m, r))
      \/ asked /\ Becomes(Returned(AcknowledgePause(m), r))
      \/ /\ IsCurrent(m, r) /\ ~asked /\ m.state.tasks[t].state # "running"
         /\ Becomes(Returned(m, r))
      \/ /\ IsCurrent(m, r)
         /\ \/ Becomes(FinishTurn(OnFail(m, t), r))
            \/ Becomes(FinishTurn(OnComplete(m, t), r))
            \/ Becomes(TryAgain(m, r))
            \/ \E q \in QuestionIds : Becomes(NeedInput(m, r, q))
  BY MachineIs DEF Gathered, Outcome
<1>3. m.turns[r].at \notin {"none", "disposing"}
  BY <1>1
<1>4. Known(m) /\ PauseKnown(m)
  OBVIOUS
<1> HIDE DEF m
<1>5. CASE /\ \/ ~IsCurrent(m, r) \/ m.state.tasks[t].state = "awaiting_user"
              \/ IsCurrent(m, r) /\ ~asked /\ m.state.tasks[t].state # "running"
           /\ Becomes(Returned(m, r))
  <2>1. \A u \in TaskIds : ~Holds(m, u, r)
    <3> SUFFICES ASSUME NEW u \in TaskIds, Holds(m, u, r) PROVE FALSE
      OBVIOUS
    <3>1. IsCurrent(m, r) /\ t = u /\ Working(m.state.tasks[t])
      BY <1>3, <1>4, HolderIsCurrent
    <3>2. ~asked /\ m.state.tasks[t].state = "pause_requested" /\ m.runner.taskId = t
      BY <1>5, <3>1 DEF Working, IsCurrent
    <3> QED BY <1>1, <1>4, <3>2 DEF PauseKnown
  <2>2. Spares(m, Returned(m, r), None)
    BY <1>3, <1>4, <2>1, ReturnedSpares
  <2> QED BY <1>5, <2>2, SparedStep DEF m
<1>6. CASE asked /\ Becomes(Returned(AcknowledgePause(m), r))
  <2> DEFINE k == AcknowledgePause(m)
             n == Returned(k, r)
  <2>1. Spares(m, k, None) /\ k.turns = m.turns
    BY <1>4, AcknowledgePauseSpares
  <2> HIDE DEF k
  <2>2. Known(k) /\ k \in Machines
    BY <2>1 DEF Spares, Known, Ordered
  <2>3. Spares(k, n, r) /\ n.turns[r].at = "returned"
    BY <1>3, <2>1, <2>2, ReturnedSpares, ReturnedLight
  <2> HIDE DEF n
  <2>4. Spares(m, n, r)
    BY <2>1, <2>3, SparesMore, SparesTransitive
  <2>5. m.turns[r].session # None
    BY <1>1, <1>4 DEF Known, Prepared
  <2>6. Excused(m, n, r)
    BY <1>6, <2>3, <2>5 DEF Excused
  <2>7. Becomes(n)
    BY <1>6 DEF n, k
  <2> QED BY <2>4, <2>6, <2>7, SparedStep DEF m
<1>7. CASE Becomes(FinishTurn(OnFail(m, t), r)) \/ Becomes(FinishTurn(OnComplete(m, t), r))
  <2>1. /\ Spares(m, FinishTurn(OnFail(m, t), r), None)
        /\ Spares(m, FinishTurn(OnComplete(m, t), r), None)
    BY <1>1, <1>3, <1>4, SignalSpares, ThenEndsSparing
  <2> QED BY <1>7, <2>1, SparedStep DEF m
<1>8. CASE IsCurrent(m, r) /\ Becomes(TryAgain(m, r))
  <2> DEFINE n == TryAgain(m, r)
  <2>1. \/ Spares(m, n, None)
        \/ Spares(m, n, r) /\ n.turns[r].at = "returned" /\ m.runner.session = None
    BY <1>3, <1>4, <1>8, TryAgainSpares
  <2> HIDE DEF n
  <2>2. Spares(m, n, None) \/ (Spares(m, n, r) /\ Excused(m, n, r))
    BY <2>1 DEF Excused
  <2> QED BY <1>8, <2>2, SparedStep DEF m, n
<1>9. ASSUME NEW q \in QuestionIds, Becomes(NeedInput(m, r, q))
      PROVE  Spared(m, machine')
  <2>1. Spares(m, NeedInput(m, r, q), None)
    BY <1>3, <1>4, NeedInputSpares
  <2> QED BY <1>9, <2>1, SparedStep DEF m
<1> QED BY <1>2, <1>5, <1>6, <1>7, <1>8, <1>9 DEF m

\* The disposal at the end is over.
LEMMA CleanedUpSpares ==
    ASSUME Known(machine), PauseKnown(machine), NEW r \in RunIds, CleanedUp(r)
    PROVE  Spared(machine, machine')
<1> DEFINE m == machine
           k == Release(m)
           n == Returned(k, r)
<1>1. m.turns[r].at = "cleaning" /\ m \in Machines /\ Ordered(m) /\ Becomes(n)
  BY MachineIs DEF CleanedUp, Known, Ordered
<1>2. Known(m)
  OBVIOUS
<1> HIDE DEF m
<1>3. /\ Calm(m, k) /\ Light(m, k, r) /\ k.runner.taskId = None
      /\ k.turns = m.turns /\ k \in Machines
  BY <1>1, ReleaseCalm, ReleaseLight, LightMore DEF Calm
<1> HIDE DEF k
<1>4. Calm(k, n) /\ Light(k, n, r) /\ n.runner = k.runner
  BY <1>1, <1>3, ReturnedCalm, ReturnedLight
<1> HIDE DEF n
<1>5. Ordered(n) /\ Light(m, n, r) /\ n.runner.taskId = None
  BY <1>1, <1>3, <1>4, CalmTransitive, CalmOrdered, LightTransitive
<1>6. Spares(m, n, None)
  BY <1>2, <1>5, LightSparesAll
<1> QED BY <1>1, <1>6, SparedStep DEF m

\* #stopCurrent goes on.
LEMMA StoppedSpares ==
    ASSUME Known(machine), PauseKnown(machine), NEW t \in TaskIds, Stopped(t)
    PROVE  Spared(machine, machine')
<1> DEFINE m == machine
           Set(stop) == SetStop(m, t, stop)
<1>1. m \in Machines /\ Known(m) /\ Ordered(m)
  BY DEF Known, Ordered
<1>2. Becomes(Release(Set("done"))) \/ Becomes(TakeSession(Set("disposing")))
  BY DEF Stopped, SetStop
<1> HIDE DEF m
<1>3. ASSUME NEW stop \in {"done", "disposing"}
      PROVE  /\ Calm(m, Set(stop)) /\ Set(stop) \in Machines /\ Ordered(Set(stop))
             /\ Light(m, Set(stop), None)
  <2> DEFINE k == Set(stop)
  <2>1. Calm(m, k) /\ k.runner = m.runner /\ k.turns = m.turns
    BY <1>1, SetStopCalm DEF Stops
  <2> HIDE DEF k
  <2> QED BY <1>1, <2>1, CalmOrdered, QuietIsLight DEF Calm, k
<1> HIDE DEF Set
<1>4. Spares(m, Release(Set("done")), None)
  <2> DEFINE k == Set("done")
             n == Release(k)
  <2>1. Calm(m, k) /\ k \in Machines /\ Light(m, k, None)
    BY <1>3
  <2> HIDE DEF k
  <2>2. Calm(k, n) /\ Light(k, n, None)
    BY <2>1, ReleaseCalm, ReleaseLight
  <2> HIDE DEF n
  <2>3. Ordered(n) /\ Light(m, n, None)
    BY <1>1, <2>1, <2>2, CalmTransitive, CalmOrdered, LightTransitive
  <2>4. Spares(m, n, None)
    BY <1>1, <2>3, LightSpares
  <2> QED BY <2>4 DEF n, k
<1>5. Spares(m, TakeSession(Set("disposing")), None)
  <2> DEFINE k == Set("disposing")
             n == TakeSession(k)
  <2>1. Ordered(k) /\ k \in Machines /\ Light(m, k, None)
    BY <1>3
  <2> HIDE DEF k
  <2>2. Ordered(n) /\ Light(k, n, None)
    BY <2>1, TakeSessionOrdered, TakeSessionLight
  <2> HIDE DEF n
  <2>3. Light(m, n, None)
    BY <2>1, <2>2, LightTransitive
  <2>4. Spares(m, n, None)
    BY <1>1, <2>2, <2>3, LightSpares
  <2> QED BY <2>4 DEF n, k
<1> QED BY <1>2, <1>4, <1>5, SparedStep DEF m

\* A function that is calm and touches sessions only.
LEMMA CalmSpares ==
    ASSUME NEW m, Known(m), NEW n, Calm(m, n), n.runner = m.runner, n.turns = m.turns
    PROVE  Spares(m, n, None) /\ Known(n) /\ n \in Machines
<1>1. Ordered(n)
  BY CalmOrdered DEF Known
<1> QED BY <1>1, QuietSpares DEF Calm, Spares

\* workspaceGuard.beforeTool begins.
LEMMA BeforeToolSpares ==
    ASSUME NEW m, Known(m), NEW s \in RunIds, m.sessions[s].at = "live"
    PROVE  Spares(m, BeforeTool(m, s), None)
<1> DEFINE n == BeforeTool(m, s)
<1>1. m \in Machines
  BY DEF Known, Ordered
<1>2. Calm(m, n)
  BY <1>1, BeforeToolCalm
<1>3. n.runner = m.runner /\ n.turns = m.turns
  BY <1>1 DEF BeforeTool, Machines
<1> HIDE DEF n
<1> QED BY <1>2, <1>3, CalmSpares DEF n

\* #reportWorkspaceConflict
LEMMA ReportConflictSpares ==
    ASSUME NEW m, Known(m), NEW t \in TaskIds
    PROVE  Spares(m, ReportConflict(m, t), None)
<1> DEFINE fields == [m.runner EXCEPT !.pauseRequested = TRUE, !.pauseAcknowledged = TRUE]
           k == SetFields(m, fields)
           events == ReportWorkspaceConflictEvents(m.state, t)
<1>1. m \in Machines /\ m.runner \in Fields /\ m.state \in ControllerStates /\ Ordered(m)
  BY MachineFields DEF Known, Ordered
<1>2. /\ fields \in Fields /\ fields.session = m.runner.session
      /\ fields.generation = m.runner.generation /\ fields.taskId = m.runner.taskId
      /\ fields.pauseRequested
  BY <1>1 DEF Fields
<1>3. ReportConflict(m, t) = IF CanReportWorkspaceConflict(m.state, t) THEN Decide(k, events)
                             ELSE k
  <2>1. k = [m EXCEPT !.runner.pauseRequested = TRUE, !.runner.pauseAcknowledged = TRUE]
    BY DEF SetFields
  <2> HIDE DEF k
  <2>2. k.state = m.state
    BY <1>1, <2>1 DEF Machines
  <2> QED BY <2>1, <2>2 DEF ReportConflict, Signal
<1> HIDE DEF fields
<1>4. Calm(m, k) /\ Light(m, k, None)
  BY <1>1, <1>2, SetFieldsCalm, FieldsLight
<1> HIDE DEF k
<1>5. Spares(m, k, None) /\ Known(k)
  BY <1>1, <1>4, CalmOrdered, LightSpares DEF Spares
<1>6. CASE CanReportWorkspaceConflict(m.state, t)
  <2>1. Deliberate(events) /\ AsksNoPause(events)
    BY <1>1, <1>6, RunnerIsDeliberate, OnlyRequestPauseAsks
  <2> HIDE DEF events
  <2>2. Spares(k, Decide(k, events), None)
    BY <1>5, <2>1, DecideSpares
  <2> QED BY <1>3, <1>5, <1>6, <2>2, SparesTransitive
<1> QED BY <1>3, <1>5, <1>6

\* A routine call, or one that a requested pause stops.
LEMMA RoutineCallSpares ==
    ASSUME Known(machine), PauseKnown(machine), NEW s \in RunIds, RoutineCall(s)
    PROVE  Spared(machine, machine')
<1> DEFINE m == machine
           k == Abort(m, s)
<1>1. m.sessions[s].at = "live" /\ m \in Machines
  BY FreeSession DEF RoutineCall, Known, Ordered
<1>2. Spares(m, BeforeTool(m, s), None)
  BY <1>1, BeforeToolSpares
<1>3. Becomes(AcknowledgePause(k)) \/ Becomes(BeforeTool(m, s))
  BY DEF RoutineCall
<1>4. Spares(m, k, None) /\ Known(k)
  <2>1. Calm(m, k) /\ k.runner = m.runner /\ k.turns = m.turns
    BY <1>1, AbortCalm
  <2> HIDE DEF k, m
  <2> QED BY <2>1, CalmSpares DEF m
<1> HIDE DEF k, m
<1>5. Spares(m, AcknowledgePause(k), None)
  BY <1>4, AcknowledgePauseSpares, SparesTransitive
<1> QED BY <1>2, <1>3, <1>5, SparedStep DEF m

\* A call that needs approval.
LEMMA SensitiveCallSpares ==
    ASSUME Known(machine), PauseKnown(machine), NEW s \in RunIds, NEW fingerprint \in Fingerprints,
           SensitiveCall(s, fingerprint)
    PROVE  Spared(machine, machine')
<1> DEFINE t == TaskOf(machine, s)
<1>1. /\ machine.sessions[s].at = "live" /\ t \in TaskIds /\ Ordered(machine)
      /\ machine \in Machines /\ state \in ControllerStates /\ machine.state = state
  BY FreeSession, MachineIs, MachineFields DEF SensitiveCall, Known, Ordered
<1>2. ASSUME NEW c \in Confirmations(state, t, fingerprint, "approved"),
             Becomes(BeforeTool(Decide(machine, ConsumeApprovalEvents(c)), s))
      PROVE  Spared(machine, machine')
  <2> DEFINE a == Commit(machine, ConsumeApprovalEvents(c))
  <2>1. c \in ConfirmationIds
    BY <1>2 DEF Confirmations
  <2>2. Deliberate(ConsumeApprovalEvents(c)) /\ Decide(machine, ConsumeApprovalEvents(c)) = a
        /\ AsksNoPause(ConsumeApprovalEvents(c))
    BY <1>1, <2>1, ConsumeIsCommit, OnlyRequestPauseAsks
  <2>3. Spares(machine, a, None) /\ a.sessions = machine.sessions
    BY <1>1, <2>2, CommitStill, CommitSpares
  <2> HIDE DEF a
  <2>4. Spares(a, BeforeTool(a, s), None)
    BY <1>1, <2>3, BeforeToolSpares DEF Spares
  <2>5. Spares(machine, BeforeTool(a, s), None) /\ Becomes(BeforeTool(a, s))
    BY <1>2, <2>2, <2>3, <2>4, SparesTransitive
  <2> QED BY <2>5, SparedStep
<1>3. ASSUME CanRequestApproval(state, t, fingerprint),
             Becomes(Abort(Decide(machine, RequestApprovalEvents(state, t, fingerprint)), s))
      PROVE  Spared(machine, machine')
  <2> DEFINE events == RequestApprovalEvents(state, t, fingerprint)
             k == Decide(machine, events)
             n == Abort(k, s)
  <2>1. Deliberate(events) /\ AsksNoPause(events)
    BY <1>1, <1>3, RunnerIsDeliberate, OnlyRequestPauseAsks
  <2>2. Spares(machine, k, None)
    BY <2>1, DecideSpares
  <2>3. Becomes(n)
    BY <1>3
  <2> HIDE DEF k
  <2>4. Known(k) /\ k \in Machines
    BY <2>2 DEF Spares, Known, Ordered
  <2>5. Calm(k, n) /\ n.runner = k.runner /\ n.turns = k.turns
    BY <2>4, AbortCalm
  <2> HIDE DEF n
  <2>6. Spares(machine, n, None)
    BY <2>2, <2>4, <2>5, CalmSpares, SparesTransitive
  <2> QED BY <2>3, <2>6, SparedStep
<1> QED BY <1>2, <1>3 DEF SensitiveCall

\* The agent asks.
LEMMA AskCoderSpares ==
    ASSUME Known(machine), PauseKnown(machine), NEW s \in RunIds, NEW q \in QuestionIds,
           AskCoder(s, q)
    PROVE  Spared(machine, machine')
<1> DEFINE events == AwaitUserInputEvents(state, TaskOf(machine, s), q)
<1>1. TaskOf(machine, s) \in TaskIds /\ state \in ControllerStates
  BY FreeSession, MachineIs, MachineFields DEF AskCoder, Known, Ordered
<1>2. Deliberate(events) /\ AsksNoPause(events)
  BY <1>1, RunnerIsDeliberate, OnlyRequestPauseAsks DEF AskCoder
<1>3. Spares(machine, Decide(machine, events), None)
  BY <1>2, DecideSpares
<1> QED BY <1>3, SparedStep DEF AskCoder

\* The guard lets a tool begin, or not.
LEMMA GuardDecidesSpares ==
    ASSUME Known(machine), PauseKnown(machine), NEW s \in RunIds, GuardDecides(s)
    PROVE  Spared(machine, machine')
<1> DEFINE m == machine
<1>1. Occupied(m.sessions[s]) /\ m \in Machines /\ TaskOf(m, s) \in TaskIds
  <2>1. Occupied(machine.sessions[s])
    BY MachineIs DEF GuardDecides, Occupied
  <2> QED BY <2>1, TaskOfSession DEF Known, Ordered
<1>2. \/ \E call \in {"none", "executing"} : Becomes(OnCall(m, s, call))
      \/ Becomes(ReportConflict(OnCall(Abort(m, s), s, "none"), TaskOf(m, s)))
  BY DEF GuardDecides
<1> HIDE DEF m
<1>3. \A call \in {"none", "executing"} : Spares(m, OnCall(m, s, call), None)
  BY <1>1, OnCallCalm, CalmSpares DEF m
<1>4. Spares(m, ReportConflict(OnCall(Abort(m, s), s, "none"), TaskOf(m, s)), None)
  <2> DEFINE j == Abort(m, s)
             k == OnCall(j, s, "none")
  <2>1. Spares(m, j, None) /\ Known(j) /\ j \in Machines
    <3>1. Calm(m, j) /\ j.runner = m.runner /\ j.turns = m.turns
      BY <1>1, AbortCalm
    <3> HIDE DEF j
    <3> QED BY <3>1, CalmSpares DEF m
  <2> HIDE DEF j
  <2>2. Calm(j, k) /\ k.runner = j.runner /\ k.turns = j.turns
    BY <2>1, OnCallCalm
  <2> HIDE DEF k
  <2>3. Spares(m, k, None) /\ Known(k)
    BY <2>1, <2>2, CalmSpares, SparesTransitive
  <2>4. Spares(m, ReportConflict(k, TaskOf(m, s)), None)
    BY <1>1, <2>3, ReportConflictSpares, SparesTransitive
  <2> QED BY <2>4 DEF j, k
<1> QED BY <1>2, <1>3, <1>4, SparedStep DEF m

\* A tool is over, and the guard's attribution begins.
LEMMA ToolEndsSpares ==
    ASSUME Known(machine), PauseKnown(machine), NEW s \in RunIds, ToolEnds(s)
    PROVE  Spared(machine, machine')
<1> DEFINE m == machine
           idle == OnCall(m, s, "none")
           run == state.tasks[TaskOf(m, s)].activeRunId
           session == [idle.sessions[s] EXCEPT !.evidence = run, !.attribution = "pending"]
           k == SetSession(idle, s, session)
           n == [k EXCEPT !.runner.attribution = s]
<1>1. m \in Machines /\ state \in ControllerStates /\ m.state = state
  BY MachineIs, MachineFields DEF Known, Ordered
<1>2. Calm(m, idle) /\ idle.runner = m.runner /\ idle.turns = m.turns /\ idle \in Machines
  BY <1>1, OnCallCalm DEF Calm
<1>3. \/ Becomes(idle)
      \/ s = m.runner.session /\ TaskOf(m, s) = m.runner.taskId /\ Becomes(n)
  <2>1. n = [idle EXCEPT !.sessions[s].evidence = run,
                         !.sessions[s].attribution = "pending",
                         !.runner.attribution = s]
    <3> HIDE DEF idle, run
    <3> QED BY DEF SetSession
  <2>2. runner = m.runner
    BY MachineIs
  <2> HIDE DEF n
  <2> QED BY <2>1, <2>2 DEF ToolEnds
<1>4. Spares(m, idle, None)
  <2> HIDE DEF idle
  <2> QED BY <1>2, CalmSpares
<1>5. CASE s = m.runner.session /\ TaskOf(m, s) = m.runner.taskId /\ Becomes(n)
  <2>1. m.sessions[s].at = "live"
    BY <1>5 DEF Known, Ordered, OneLive
  <2>2. TaskOf(m, s) \in TaskIds
    BY <2>1, TaskOfSession DEF Occupied, Known
  <2>3. run \in RunIds \cup {None}
    BY <1>1, <1>5, <2>2, FieldsTyped DEF Task
  <2>4. idle.sessions[s] \in Session /\ idle.sessions[s].at = "live"
    BY <1>2, <2>1, MachineFields DEF Calm
  <2>5. Ordered(idle) /\ Ordered(m)
    BY <1>2, CalmOrdered DEF Known
  <2> HIDE DEF idle, run
  <2>6. session \in Session
    BY <2>3, <2>4 DEF Session
  <2>7. session.at = idle.sessions[s].at
    BY <2>4 DEF Session
  <2>8. Occupied(idle.sessions[s])
    BY <2>4 DEF Occupied
  <2> HIDE DEF session
  <2>9. Calm(idle, k) /\ k.runner = idle.runner /\ k.turns = idle.turns
    BY <1>2, <2>6, <2>7, <2>8, SetSessionCalm
  <2> HIDE DEF k
  <2>10. k \in Machines /\ Ordered(k) /\ Light(m, k, None)
    BY <1>2, <2>5, <2>9, CalmOrdered, QuietIsLight DEF Calm
  <2>11. Calm(k, n) /\ Light(k, n, None)
    BY <2>10, AttributionCalm, AttributionLight
  <2> HIDE DEF n
  <2>12. Ordered(n) /\ Light(m, n, None)
    BY <2>10, <2>11, CalmOrdered, LightTransitive
  <2>13. Spares(m, n, None)
    BY <2>12, LightSpares
  <2> QED BY <1>5, <2>13, SparedStep
<1> HIDE DEF idle
<1> QED BY <1>3, <1>4, <1>5, SparedStep

\* onRecordEvidence
LEMMA RecordEvidenceSpares ==
    ASSUME NEW m, Known(m), NEW s \in RunIds, m.turns[s].at # "none"
    PROVE  Spares(m, RecordEvidence(m, s), None)
<1> DEFINE t == TaskOf(m, s)
           done == [m EXCEPT !.sessions[s].evidence = None]
<1>1. t \in TaskIds /\ m \in Machines
  BY TaskOfTurn DEF TaskOf, Known, Ordered
<1>2. Calm(m, done) /\ done.turns = m.turns /\ done.runner = m.runner
  BY <1>1, EvidenceCalm DEF Machines
<1>3. RecordEvidence(m, s) = done \/ RecordEvidence(m, s) = OnFail(done, t)
  BY DEF RecordEvidence
<1> HIDE DEF done, t
<1>4. Spares(m, done, None) /\ Known(done)
  BY <1>2, CalmSpares
<1>5. Spares(m, OnFail(done, t), None)
  BY <1>1, <1>4, SignalSpares, SparesTransitive
<1> QED BY <1>3, <1>4, <1>5

\* afterTool is over.
LEMMA AttributedSpares ==
    ASSUME Known(machine), PauseKnown(machine), NEW s \in RunIds, Attributed(s)
    PROVE  Spared(machine, machine')
<1> DEFINE m == machine
           t == TaskOf(m, s)
           Found(attribution) == [m EXCEPT !.sessions[s].attribution = attribution]
<1>1. t \in TaskIds /\ m.turns[s].at # "none" /\ m \in Machines
  <2>1. Occupied(machine.sessions[s])
    BY MachineIs DEF Attributed, Occupied
  <2> QED BY <2>1, TaskOfSession DEF Known, Ordered
<1>2. \/ Becomes(RecordEvidence(Found("clear"), s))
      \/ Becomes(RecordEvidence(ReportConflict(Found("conflict"), t), s))
      \/ Becomes(OnFail([Found("failed") EXCEPT !.sessions[s].evidence = None], t))
  BY DEF Attributed
<1> HIDE DEF m
<1>3. ASSUME NEW a \in {"clear", "conflict", "failed"}
      PROVE  /\ Spares(m, Found(a), None) /\ Known(Found(a)) /\ Found(a) \in Machines
             /\ Found(a).turns[s].at # "none"
  <2> DEFINE k == Found(a)
  <2>1. Calm(m, k) /\ k.turns = m.turns /\ k.runner = m.runner
    BY <1>1, EvidenceCalm DEF Machines
  <2> HIDE DEF k
  <2> QED BY <1>1, <2>1, CalmSpares DEF k, m
<1> HIDE DEF Found, t
<1>4. Spares(m, RecordEvidence(Found("clear"), s), None)
  BY <1>3, RecordEvidenceSpares, SparesTransitive
<1>5. Spares(m, RecordEvidence(ReportConflict(Found("conflict"), t), s), None)
  <2> DEFINE j == Found("conflict")
             k == ReportConflict(j, t)
  <2>1. Spares(m, j, None) /\ Known(j) /\ j.turns[s].at # "none"
    BY <1>3
  <2> HIDE DEF j
  <2>2. Spares(j, k, None)
    BY <1>1, <2>1, ReportConflictSpares
  <2> HIDE DEF k
  <2>3. Spares(m, k, None) /\ Known(k) /\ k.turns[s].at # "none"
    BY <2>1, <2>2, SparesTransitive DEF Spares
  <2>4. Spares(m, RecordEvidence(k, s), None)
    BY <2>3, RecordEvidenceSpares, SparesTransitive
  <2> QED BY <2>4 DEF j, k
<1>6. Spares(m, OnFail([Found("failed") EXCEPT !.sessions[s].evidence = None], t), None)
  <2> DEFINE j == Found("failed")
             k == [j EXCEPT !.sessions[s].evidence = None]
  <2>1. Spares(m, j, None) /\ Known(j) /\ j \in Machines
    BY <1>3
  <2> HIDE DEF j
  <2>2. Calm(j, k) /\ k.turns = j.turns /\ k.runner = j.runner
    BY <2>1, EvidenceCalm DEF Machines
  <2> HIDE DEF k
  <2>3. Spares(m, k, None) /\ Known(k)
    BY <2>1, <2>2, CalmSpares, SparesTransitive
  <2>4. Spares(m, OnFail(k, t), None)
    BY <1>1, <2>3, SignalSpares, SparesTransitive
  <2> QED BY <2>4 DEF j, k
<1> QED BY <1>2, <1>4, <1>5, <1>6, SparedStep DEF m

\* The agent's turn is over: its activation, if it is current, gathers the evidence.
LEMMA TurnEndsSpares ==
    ASSUME Known(machine), PauseKnown(machine), NEW s \in RunIds, TurnEnds(s)
    PROVE  Spared(machine, machine')
<1>1. PICK aborted \in {sessions[s].aborted, TRUE} :
         LET idle == [machine EXCEPT !.sessions[s].streaming = FALSE,
                                     !.sessions[s].aborted = aborted]
             ended == IF s = runner.session /\ TaskOf(machine, s) = runner.taskId
                      THEN AcknowledgePause(idle) ELSE idle
             r == CHOOSE q \in RunIds : turns[q].at = "prompted" /\ turns[q].session = s
         IN  Becomes(IF \E q \in RunIds : turns[q].at = "prompted" /\ turns[q].session = s
                     THEN IF IsCurrent(ended, r) THEN Waiting(ended, r, "gathering")
                          ELSE Returned(ended, r)
                     ELSE ended)
  BY DEF TurnEnds
<1> DEFINE session == [sessions[s] EXCEPT !.streaming = FALSE, !.aborted = aborted]
           idle == [machine EXCEPT !.sessions[s].streaming = FALSE,
                                   !.sessions[s].aborted = aborted]
           ended == IF s = runner.session /\ TaskOf(machine, s) = runner.taskId
                    THEN AcknowledgePause(idle) ELSE idle
           Waits4(q) == turns[q].at = "prompted" /\ turns[q].session = s
           r == CHOOSE q \in RunIds : Waits4(q)
<1>2. /\ machine \in Machines /\ sessions[s] \in Session /\ machine.sessions = sessions
      /\ machine.turns = turns
  BY MachineIs, MachineFields DEF Known, Ordered
<1>3. sessions[s].aborted \in BOOLEAN
  BY <1>2 DEF Session
<1>4. session \in Session
  BY <1>2, <1>3 DEF Session
<1>5. session.at = sessions[s].at /\ (Occupied(session) => Occupied(sessions[s]))
  BY <1>2 DEF Session, Occupied
<1>6. idle = SetSession(machine, s, session)
  BY <1>2 DEF SetSession
<1>7. Becomes(IF \E q \in RunIds : Waits4(q)
              THEN IF IsCurrent(ended, r) THEN Waiting(ended, r, "gathering")
                   ELSE Returned(ended, r)
              ELSE ended)
  BY <1>1
<1> HIDE DEF session, idle
<1>8. Calm(machine, idle) /\ idle.turns = machine.turns /\ idle.runner = machine.runner
  BY <1>2, <1>4, <1>5, <1>6, SetSessionCalm
<1>9. Spares(machine, idle, None) /\ Known(idle)
  BY <1>8, CalmSpares
<1>10. Spares(machine, AcknowledgePause(idle), None) /\ AcknowledgePause(idle).turns = idle.turns
  BY <1>9, AcknowledgePauseSpares, SparesTransitive
<1>11. Spares(machine, ended, None) /\ ended.turns = turns
  BY <1>2, <1>8, <1>9, <1>10
<1> HIDE DEF ended
<1>12. ASSUME \E q \in RunIds : Waits4(q)
       PROVE  /\ Spares(machine, Waiting(ended, r, "gathering"), None)
              /\ ~IsCurrent(ended, r) => Spares(machine, Returned(ended, r), None)
  <2>1. r \in RunIds /\ Waits4(r)
    BY <1>12
  <2> HIDE DEF r
  <2>2. Known(ended) /\ ended.turns[r].at = "prompted" /\ ended.turns[r].session # None
    BY <1>11, <2>1, NoneAssumption DEF Spares
  <2>3. Spares(ended, Waiting(ended, r, "gathering"), None)
    BY <2>1, <2>2, WaitingSpares DEF Waits, Opening
  <2>4. ~IsCurrent(ended, r) => Spares(ended, Returned(ended, r), None)
    BY <2>1, <2>2, ReturnedSpares, OthersHoldNothing
  <2> QED BY <1>11, <2>3, <2>4, SparesTransitive
<1> HIDE DEF r, Waits4
<1> QED BY <1>7, <1>11, <1>12, SparedStep

\* Nothing works at first.
LEMMA InitKnown ==
    ASSUME Init
    PROVE  Known(machine) /\ PauseKnown(machine)
<1>1. Ordered(machine)
  BY InitOrdered
<1>2. machine.state = EmptyState /\ machine.turns = turns /\ machine.runner = runner
  BY MachineIs DEF Init
<1>3. \A t \in TaskIds : /\ ~Working(EmptyState.tasks[t])
                         /\ EmptyState.tasks[t].activeRunId = None
  BY DEF EmptyState, NoTask, Working
<1>4. Slotted(EmptyState)
  BY <1>3 DEF Slotted
<1>5. \A r \in RunIds : turns[r].at = "none"
  BY DEF Init
<1>6. runner.taskId = None
  BY DEF Init
<1> QED BY <1>1, <1>2, <1>4, <1>5, <1>6, NoneAssumption DEF Known, PauseKnown, Prepared

\* Every step spares the runs at work, but for the excused ones.
LEMMA StepSpares ==
    ASSUME Known(machine), PauseKnown(machine), Next
    PROVE  Spared(machine, machine')
<1>1. CASE UserStep
  BY <1>1, UserSpares
<1>2. ASSUME NEW r \in RunIds, Proceeds(r)
      PROVE  Spared(machine, machine')
  BY <1>2, DisposedSpares, SessionCreatedSpares, SessionOnDiskSpares, SessionIsIdleSpares,
     ReconciledSpares, GatheredSpares, CleanedUpSpares DEF Proceeds
<1>3. ASSUME NEW r \in RunIds, PromptThrows(r)
      PROVE  Spared(machine, machine')
  BY <1>3, PromptThrowsSpares
<1>4. ASSUME NEW s \in RunIds, AgentCalls(s)
      PROVE  Spared(machine, machine')
  BY <1>4, RoutineCallSpares, SensitiveCallSpares, AskCoderSpares DEF AgentCalls
<1>5. ASSUME NEW s \in RunIds, ToolProceeds(s)
      PROVE  Spared(machine, machine')
  BY <1>5, GuardDecidesSpares, ToolEndsSpares, AttributedSpares DEF ToolProceeds
<1>6. ASSUME NEW s \in RunIds, TurnEnds(s)
      PROVE  Spared(machine, machine')
  BY <1>6, TurnEndsSpares
<1>7. ASSUME NEW t \in TaskIds, Stopped(t)
      PROVE  Spared(machine, machine')
  BY <1>7, StoppedSpares
<1> QED BY <1>1, <1>2, <1>3, <1>4, <1>5, <1>6, <1>7 DEF Next

\* What is known, as long as no decision's application has thrown.
KnownPauses == Known(machine) /\ (wedged \/ PauseKnown(machine))

\* One step, of an invariant over variables.
LEMMA StepKnows ==
    ASSUME KnownPauses, [Next]_vars
    PROVE  Known(machine') /\ (wedged' \/ PauseKnown(machine'))
<1>1. CASE UNCHANGED vars
  <2>1. machine' = machine /\ wedged' = wedged
    BY <1>1 DEF vars, machine
  <2> QED BY <2>1 DEF KnownPauses
<1>2. CASE Next
  <2>1. Spared(machine, machine')
    BY <1>2, StepSpares DEF KnownPauses, Next
  <2>2. machine'.wedged = wedged'
    BY DEF machine
  <2> QED BY <2>1, <2>2 DEF Spared
<1> QED BY <1>1, <1>2

\* The slot has one task, an activation of the agent's turn knows its session, and the
\* runner knows of every pause that was asked of its task.
THEOREM PausesAreKnown == Spec => []KnownPauses
<1>1. Init => KnownPauses
  BY InitKnown DEF KnownPauses
<1>2. KnownPauses /\ [Next]_vars => KnownPauses'
  <2>1. KnownPauses' <=> Known(machine') /\ (wedged' \/ PauseKnown(machine'))
    BY DEF KnownPauses, Known, PauseKnown, Ordered, ActivationsAreRuns, SessionsHaveTasks,
           OneLive, NoSessionYet, Occupied, SlotRun, Slotted, Working, Prepared
  <2> QED BY <2>1, StepKnows
<1> QED BY <1>1, <1>2, PTL DEF Spec

\* A run that is being worked on is given up only where #taskId is cleared, or where its
\* own activation returns for a reason: no other task's start, cancellation or turn takes
\* its generation.
THEOREM LossesReleased == Spec => LossesAreReleases
<1> DEFINE Lost(t) ==
              LET r == state.tasks[t].activeRunId
                  session == turns[r].session
              IN  (WorkedOn(t) /\ ~WorkedOn(t)' /\ Works(t)' /\ state'.tasks[t].activeRunId = r)
                    => \/ runner'.taskId = None
                       \/ /\ turns'[r].at = "returned"
                          /\ \/ turns[r].at \in {"resuming", "reconciling"}
                             \/ runner.pauseRequested \/ runner.session = None
                             \/ session # None /\ sessions[session].aborted
<1>1. KnownPauses /\ [Next]_vars => [\A t \in TaskIds : Lost(t)]_vars
  <2> SUFFICES ASSUME KnownPauses, Next, NEW t \in TaskIds
               PROVE  Lost(t)
    OBVIOUS
  <2> DEFINE r == state.tasks[t].activeRunId
  <2>1. Spared(machine, machine') /\ Known(machine)
    BY StepSpares DEF KnownPauses, Next
  <2>2. SUFFICES ASSUME WorkedOn(t), ~WorkedOn(t)', Works(t)', state'.tasks[t].activeRunId = r
                 PROVE  \/ runner'.taskId = None
                        \/ Excused(machine, machine', r)
    BY MachineIs DEF Excused
  <2>3. r \in RunIds
    <3>1. machine.state = state /\ state \in ControllerStates
      BY <2>1, MachineIs, MachineFields DEF Known, Ordered
    <3>2. r # None
      BY <2>2 DEF WorkedOn
    <3> QED BY <3>1, <3>2, TaskFields
  <2>4. Holds(machine, t, r)
    BY <2>2, MachineIs DEF WorkedOn, Works, StateOf, Holds, AtWork, Working
  <2>5. AtWork(machine'.state, t, r)
    BY <2>2, MachineIs DEF Works, StateOf, AtWork, Working
  <2>6. ~Holds(machine', t, r)
    BY <2>2, <2>3, MachineIs, NoneAssumption DEF WorkedOn, Works, StateOf, Holds, AtWork, Working
  <2> QED BY <2>1, <2>3, <2>4, <2>5, <2>6, MachineIs DEF Spared
<1>2. KnownPauses /\ [Next]_vars => [\A t \in TaskIds : Lost(t)]_vars
  BY <1>1
<1> QED BY <1>2, PausesAreKnown, PTL DEF Spec, LossesAreReleases
=============================================================================
