------------------------ MODULE ExternalRunnerProofs ------------------------
(***************************************************************************)
(* The runner of the external agents, for every set of ids, any number of  *)
(* turns and any interleaving of activations, children and user commands.  *)
(*                                                                         *)
(* A step of the model is a composition of a few functions on machines.    *)
(* Each is shown to keep Orderly, the inductive invariant: all but the     *)
(* start of a task and the spawn of a child only take away from the        *)
(* runner (Keeps).                                                         *)
(*                                                                         *)
(* From what a step may do to the controller (Signals, Authorizes, Orders) *)
(* follows that the controller under the runner is a TaskController, and   *)
(* from what that guarantees and what a step leaves alone (Undisturbed),   *)
(* how a run can lose its activation (LossesAreReleases).                  *)
(***************************************************************************)
EXTENDS ExternalRunner, ControllerStateProofs, TLAPS

Turn == [at : Waits \cup {"none", "returned"}, task : TaskIds \cup {None},
         child : {"none", "live", "stopping", "exited"},
         attempt : 0..MaxAttempts, late : BOOLEAN]
Runner == [generation : RunIds \cup {None}, taskId : TaskIds \cup {None},
           process : RunIds \cup {None}, policyServer : RunIds \cup {None},
           pauseRequested : BOOLEAN, policyPause : BOOLEAN,
           session : BOOLEAN, killTimers : SUBSET RunIds]
Machines == [state : ControllerStates, wedged : BOOLEAN, runner : Runner,
             turns : [RunIds -> Turn]]

\* The fields of a machine.
LEMMA MachineFields ==
    ASSUME NEW m \in Machines
    PROVE  /\ m.state \in ControllerStates /\ m.wedged \in BOOLEAN /\ m.runner \in Runner
           /\ m.turns \in [RunIds -> Turn]
           /\ \A r \in RunIds : m.turns[r] \in Turn
BY DEF Machines

-----------------------------------------------------------------------------
(* What a function on machines that starts and spawns nothing may do.  x   *)
(* is the run whose activation goes on or returns.                         *)

\* A turn that is not the one of a live child may go on; a child may be told to stop.
TurnKept(before, after, moves) ==
    /\ after.task = before.task /\ after.late = before.late
    /\ after.child = before.child \/ (before.child = "live" /\ after.child = "stopping")
    /\ \/ after.at = before.at
       \/ moves /\ before.at \notin {"none", "running", "returned"} /\ after.at # "none"
                /\ after.at # "running"

Keeps(m, n, x) ==
    /\ n \in Machines
    /\ n.state = m.state /\ (n.wedged <=> m.wedged)
    /\ n.runner.generation \in {m.runner.generation, None}
    /\ n.runner.taskId \in {m.runner.taskId, None}
    /\ n.runner.process \in {m.runner.process, None}
    /\ n.runner.process # None => n.runner.generation = m.runner.generation
    /\ (m.runner.process # None /\ n.runner.process = None) =>
          n.turns[m.runner.process].child # "live"
    /\ m.runner.pauseRequested => n.runner.pauseRequested
    /\ n.runner.policyServer \in {m.runner.policyServer, None}
    /\ \A r \in RunIds : TurnKept(m.turns[r], n.turns[r], r = x)

\* One function after another.
LEMMA KeepsTransitive ==
    ASSUME NEW m \in Machines, NEW n, NEW k, NEW x, Keeps(m, n, x), Keeps(n, k, x)
    PROVE  Keeps(m, k, x)
<1>1. /\ m.runner.process \in RunIds \cup {None}
      /\ n.runner.process \in RunIds \cup {None}
      /\ m.turns \in [RunIds -> Turn] /\ n.turns \in [RunIds -> Turn]
  BY DEF Keeps, Machines, Runner
<1>2. \A r \in RunIds : TurnKept(m.turns[r], k.turns[r], r = x)
  BY DEF Keeps, TurnKept
<1>3. (m.runner.process # None /\ k.runner.process = None) =>
          k.turns[m.runner.process].child # "live"
  BY <1>1, NoneAssumption DEF Keeps, TurnKept
<1> QED BY <1>2, <1>3 DEF Keeps

\* Nothing at all.
LEMMA KeepsItself ==
    ASSUME NEW m \in Machines, NEW x
    PROVE  Keeps(m, m, x)
BY NoneAssumption DEF Keeps, TurnKept

-----------------------------------------------------------------------------
(* The functions on machines.                                              *)

\* Replacing one turn, or the fields of the runner.
SetTurn(m, r, turn) == [m EXCEPT !.turns = [m.turns EXCEPT ![r] = turn]]
SetRunner(m, fields) == [m EXCEPT !.runner = fields]

\* They keep a machine well formed and change nothing else.
LEMMA SetTurnEffect ==
    ASSUME NEW m \in Machines, NEW r \in RunIds, NEW turn \in Turn
    PROVE  LET n == SetTurn(m, r, turn)
           IN  /\ n \in Machines
               /\ n.state = m.state /\ n.wedged = m.wedged /\ n.runner = m.runner
               /\ \A x \in RunIds : n.turns[x] = IF x = r THEN turn ELSE m.turns[x]
BY DEF SetTurn, Machines

\* The fields of the runner are all that changes.
LEMMA SetRunnerEffect ==
    ASSUME NEW m \in Machines, NEW fields \in Runner
    PROVE  LET n == SetRunner(m, fields)
           IN  /\ n \in Machines
               /\ n.state = m.state /\ n.wedged = m.wedged
               /\ n.runner = fields /\ n.turns = m.turns
BY DEF SetRunner, Machines

\* A child that lives is told to stop.
LEMMA KillEffect ==
    ASSUME NEW m \in Machines, NEW r \in RunIds \cup {None}
    PROVE  LET n == Kill(m, r)
           IN  /\ n \in Machines
               /\ n.state = m.state /\ n.wedged = m.wedged /\ n.runner = m.runner
               /\ \A x \in RunIds :
                     n.turns[x] = IF x = r /\ m.turns[r].child = "live"
                                  THEN [m.turns[x] EXCEPT !.child = "stopping"]
                                  ELSE m.turns[x]
<1> DEFINE turn == [m.turns[r] EXCEPT !.child = "stopping"]
<1>1. CASE r = None \/ m.turns[r].child # "live"
  BY <1>1, NoneAssumption DEF Kill
<1>2. CASE r # None /\ m.turns[r].child = "live"
  <2>1. Kill(m, r) = SetTurn(m, r, turn)
    BY <1>2 DEF Kill, SetTurn
  <2>2. turn \in Turn
    BY <1>2, MachineFields DEF Turn
  <2> QED BY <1>2, <2>1, <2>2, SetTurnEffect
<1> QED BY <1>1, <1>2

\* A child that is told to stop.
LEMMA KillKeeps ==
    ASSUME NEW m \in Machines, NEW r \in RunIds \cup {None}, NEW x
    PROVE  /\ Keeps(m, Kill(m, r), x)
           /\ Kill(m, r).runner = m.runner
           /\ r # None => Kill(m, r).turns[r].child # "live"
<1> DEFINE n == Kill(m, r)
<1>1. /\ n \in Machines
      /\ n.state = m.state /\ n.wedged = m.wedged /\ n.runner = m.runner
      /\ \A y \in RunIds :
            n.turns[y] = IF y = r /\ m.turns[r].child = "live"
                         THEN [m.turns[y] EXCEPT !.child = "stopping"]
                         ELSE m.turns[y]
  BY KillEffect
<1>2. \A y \in RunIds : m.turns[y] \in Turn
  BY MachineFields
<1> HIDE DEF n
<1>3. \A y \in RunIds : TurnKept(m.turns[y], n.turns[y], y = x)
  <2> TAKE y \in RunIds
  <2> DEFINE before == m.turns[y]
             after == n.turns[y]
  <2>1. before \in Turn
    BY <1>2
  <2>2. CASE after = before
    BY <2>2 DEF TurnKept
  <2>3. CASE after # before
    <3>1. before.child = "live" /\ after = [before EXCEPT !.child = "stopping"]
      BY <1>1, <2>3
    <3> HIDE DEF before, after
    <3>2. /\ after.at = before.at /\ after.task = before.task /\ after.late = before.late
          /\ after.child = "stopping"
      BY <2>1, <3>1 DEF Turn
    <3>3. TurnKept(before, after, y = x)
      BY <3>1, <3>2 DEF TurnKept
    <3> QED BY <3>3 DEF before, after
  <2> QED BY <2>2, <2>3
<1>4. r # None => n.turns[r].child # "live"
  BY <1>1, <1>2, Zenon DEF Turn
<1> QED BY <1>1, <1>3, <1>4 DEF Keeps, n

\* The fields may lose what they refer to, once the child is not live.
LEMMA RunnerKeeps ==
    ASSUME NEW m \in Machines, NEW fields \in Runner, NEW x,
           fields.generation \in {m.runner.generation, None},
           fields.taskId \in {m.runner.taskId, None},
           fields.process \in {m.runner.process, None},
           fields.process # None => fields.generation = m.runner.generation,
           (m.runner.process # None /\ fields.process = None) =>
              m.turns[m.runner.process].child # "live",
           m.runner.pauseRequested => fields.pauseRequested,
           fields.policyServer \in {m.runner.policyServer, None}
    PROVE  Keeps(m, SetRunner(m, fields), x)
<1> DEFINE n == SetRunner(m, fields)
<1>1. /\ n \in Machines
      /\ n.state = m.state /\ n.wedged = m.wedged
      /\ n.runner = fields /\ n.turns = m.turns
  BY SetRunnerEffect
<1> HIDE DEF n
<1> QED BY <1>1, KeepsItself DEF Keeps, TurnKept, n

\* The child in #process is told to stop, and forgotten.
LEMMA KillCurrentKeeps ==
    ASSUME NEW m \in Machines, NEW x
    PROVE  LET n == KillCurrent(m)
           IN  /\ Keeps(m, n, x)
               /\ n.runner = [m.runner EXCEPT !.process = None]
               /\ m.runner.process # None => n.turns[m.runner.process].child # "live"
               /\ \A r \in RunIds : n.turns[r].at = m.turns[r].at
<1> DEFINE k == Kill(m, m.runner.process)
           fields == [m.runner EXCEPT !.process = None]
           n == SetRunner(k, fields)
<1>1. m.runner \in Runner /\ m.runner.process \in RunIds \cup {None}
  BY MachineFields DEF Runner
<1>2. /\ k \in Machines
      /\ k.runner = m.runner
      /\ Keeps(m, k, x)
      /\ m.runner.process # None => k.turns[m.runner.process].child # "live"
      /\ \A r \in RunIds : k.turns[r].at = m.turns[r].at
  <2>1. /\ \A r \in RunIds : k.turns[r] \in {m.turns[r], [m.turns[r] EXCEPT !.child = "stopping"]}
        /\ \A r \in RunIds : m.turns[r] \in Turn
    BY <1>1, KillEffect, MachineFields
  <2>2. \A r \in RunIds : k.turns[r].at = m.turns[r].at
    BY <2>1 DEF Turn
  <2> QED BY <1>1, <2>2, KillKeeps DEF Keeps
<1>3. fields \in Runner
  BY <1>1 DEF Runner
<1>4. KillCurrent(m) = n
  <2>1. KillCurrent(m) = [k EXCEPT !.runner.process = None]
    BY DEF KillCurrent
  <2> HIDE DEF k
  <2> QED BY <1>2, <2>1 DEF SetRunner
<1>5. Keeps(k, n, x)
  <2>1. /\ fields.generation = k.runner.generation /\ fields.taskId = k.runner.taskId
        /\ fields.process = None /\ fields.policyServer = k.runner.policyServer
        /\ fields.pauseRequested = k.runner.pauseRequested
    BY <1>1, <1>2 DEF Runner
  <2> HIDE DEF fields, k
  <2> QED BY <1>2, <1>3, <2>1, RunnerKeeps
<1>6. n.runner = fields /\ n.turns = k.turns
  BY <1>2, <1>3, SetRunnerEffect
<1> HIDE DEF k, fields, n
<1>7. Keeps(m, n, x)
  BY <1>2, <1>5, KeepsTransitive
<1> QED BY <1>2, <1>4, <1>6, <1>7 DEF fields

\* workspaceGuard.finish() and the task is forgotten.
LEMMA ReleaseKeeps ==
    ASSUME NEW m \in Machines, NEW x
    PROVE  LET n == Release(m)
           IN  /\ Keeps(m, n, x)
               /\ n.runner = [m.runner EXCEPT !.taskId = None] /\ n.turns = m.turns
<1> DEFINE fields == [m.runner EXCEPT !.taskId = None]
           n == SetRunner(m, fields)
<1>1. m.runner \in Runner
  BY MachineFields
<1>2. fields \in Runner
  BY <1>1 DEF Runner
<1>3. Release(m) = n
  BY DEF Release, SetRunner
<1>4. /\ fields.generation = m.runner.generation /\ fields.taskId = None
      /\ fields.process = m.runner.process /\ fields.policyServer = m.runner.policyServer
      /\ fields.pauseRequested = m.runner.pauseRequested
  BY <1>1 DEF Runner
<1>5. n.runner = fields /\ n.turns = m.turns
  BY <1>2, SetRunnerEffect
<1> HIDE DEF fields
<1>6. Keeps(m, n, x)
  BY <1>2, <1>4, RunnerKeeps
<1> QED BY <1>3, <1>5, <1>6 DEF fields

\* A cancellation: everything is let go.
LEMMA StopCurrentKeeps ==
    ASSUME NEW m \in Machines, NEW x
    PROVE  LET n == StopCurrent(m)
           IN  /\ Keeps(m, n, x)
               /\ n.runner.process = None /\ n.runner.taskId = None
               /\ \A r \in RunIds : n.turns[r].at = m.turns[r].at
<1> DEFINE k == KillCurrent(m)
           j == Release(k)
           fields == [j.runner EXCEPT !.generation = None]
           n == SetRunner(j, fields)
<1>1. m.runner \in Runner
  BY MachineFields
<1>2. /\ Keeps(m, k, x) /\ k \in Machines
      /\ k.runner = [m.runner EXCEPT !.process = None]
      /\ m.runner.process # None => k.turns[m.runner.process].child # "live"
      /\ \A r \in RunIds : k.turns[r].at = m.turns[r].at
  BY KillCurrentKeeps DEF Keeps
<1> HIDE DEF k
<1>3. /\ Keeps(k, j, x) /\ j \in Machines
      /\ j.runner = [k.runner EXCEPT !.taskId = None] /\ j.turns = k.turns
  BY <1>2, ReleaseKeeps DEF Keeps
<1> HIDE DEF j
<1>4. /\ j.runner \in Runner
      /\ j.runner.process = None /\ j.runner.taskId = None
  BY <1>1, <1>2, <1>3 DEF Runner
<1>5. /\ fields \in Runner /\ fields.generation = None
      /\ fields.process = None /\ fields.taskId = None
      /\ fields.policyServer = j.runner.policyServer
      /\ fields.pauseRequested = j.runner.pauseRequested
  BY <1>4 DEF Runner
<1>6. StopCurrent(m) = n
  BY DEF StopCurrent, SetRunner, j, k
<1>7. n.runner = fields /\ n.turns = j.turns
  BY <1>3, <1>5, SetRunnerEffect
<1> HIDE DEF fields
<1>8. Keeps(j, n, x)
  <2>1. /\ j \in Machines /\ fields \in Runner
        /\ fields.generation = None /\ fields.taskId = None /\ fields.process = None
        /\ j.runner.process = None
        /\ fields.policyServer \in {j.runner.policyServer, None}
        /\ j.runner.pauseRequested => fields.pauseRequested
    BY <1>3, <1>4, <1>5
  <2> QED BY <2>1, RunnerKeeps
<1> HIDE DEF n
<1>9. Keeps(m, n, x)
  BY <1>2, <1>3, <1>8, KeepsTransitive
<1> QED BY <1>2, <1>3, <1>5, <1>6, <1>7, <1>9

\* A turn that has no child goes on or returns.
LEMMA TurnKeeps ==
    ASSUME NEW m \in Machines, NEW r \in RunIds, NEW turn \in Turn,
           m.turns[r].at \notin {"none", "running"},
           turn.at = m.turns[r].at \/ (m.turns[r].at # "returned" /\ turn.at \notin {"none", "running"}),
           turn.task = m.turns[r].task, turn.late = m.turns[r].late,
           turn.child = m.turns[r].child
    PROVE  Keeps(m, SetTurn(m, r, turn), r)
<1> DEFINE n == SetTurn(m, r, turn)
<1>1. /\ n \in Machines
      /\ n.state = m.state /\ n.wedged = m.wedged /\ n.runner = m.runner
      /\ \A x \in RunIds : n.turns[x] = IF x = r THEN turn ELSE m.turns[x]
  BY SetTurnEffect
<1> HIDE DEF n
<1>2. \A x \in RunIds : TurnKept(m.turns[x], n.turns[x], x = r)
  BY <1>1 DEF TurnKept
<1>3. n.turns[m.runner.process].child = m.turns[m.runner.process].child \/ m.runner.process = None
  BY <1>1, MachineFields DEF Runner
<1> QED BY <1>1, <1>2 DEF Keeps, n

\* The activation ends.
LEMMA ReturnedKeeps ==
    ASSUME NEW m \in Machines, NEW r \in RunIds, m.turns[r].at \notin {"none", "running"}
    PROVE  LET n == Returned(m, r)
           IN  /\ Keeps(m, n, r)
               /\ n.runner = m.runner /\ n.turns[r].at = "returned"
<1> DEFINE turn == [m.turns[r] EXCEPT !.at = "returned", !.attempt = 0]
           n == SetTurn(m, r, turn)
<1>1. m.turns[r] \in Turn /\ m.turns \in [RunIds -> Turn]
  BY MachineFields
<1>2. turn \in Turn
  <2>1. 0 \in 0..MaxAttempts
    BY MaxAttemptsAssumption
  <2> QED BY <1>1, <2>1 DEF Turn
<1>3. /\ turn.at = "returned" /\ turn.task = m.turns[r].task
      /\ turn.late = m.turns[r].late /\ turn.child = m.turns[r].child
  BY <1>1 DEF Turn
<1>4. Returned(m, r) = n
  BY <1>1 DEF Returned, SetTurn, Machines, Turn
<1>5. n.runner = m.runner /\ n.turns[r] = turn
  BY <1>2, SetTurnEffect
<1> HIDE DEF turn
<1>6. Keeps(m, n, r)
  BY <1>2, <1>3, TurnKeeps
<1> QED BY <1>3, <1>4, <1>5, <1>6

-----------------------------------------------------------------------------
(* What a function that ends no activation leaves alone: the controller's  *)
(* part, and which activation is current.  x is the run whose activation   *)
(* goes on.                                                                *)

Unmoved(m, n) == n.state = m.state /\ (n.wedged <=> m.wedged)

Undisturbed(m, n, x) ==
    /\ n.runner.generation = m.runner.generation /\ n.runner.taskId = m.runner.taskId
    /\ \A r \in RunIds :
          /\ m.turns[r].at # "none" => n.turns[r].task = m.turns[r].task
          /\ m.turns[r].at # "none" =>
                n.turns[r].at = m.turns[r].at \/ (r = x /\ n.turns[r].at \in Waits)

\* One function after another.
LEMMA UndisturbedTransitive ==
    ASSUME NEW m, NEW n, NEW k, NEW x, Undisturbed(m, n, x), Undisturbed(n, k, x)
    PROVE  Undisturbed(m, k, x)
BY DEF Undisturbed, Waits

\* A function that only takes away, and takes neither the task nor the generation.
LEMMA KeepsUndisturbed ==
    ASSUME NEW m, NEW n, Keeps(m, n, None),
           n.runner.generation = m.runner.generation, n.runner.taskId = m.runner.taskId,
           NEW x
    PROVE  Unmoved(m, n) /\ Undisturbed(m, n, x)
BY NoneAssumption DEF Keeps, TurnKept, Unmoved, Undisturbed

-----------------------------------------------------------------------------
(* The inductive invariant.                                                *)

\* #process is a child that has not exited.
ProcessIsAlive(m) ==
    m.runner.process # None => m.turns[m.runner.process].child \in {"live", "stopping"}

\* An activation is one of a run that the controller has started.
ActivationsAreRuns(m) ==
    \A r \in RunIds : m.turns[r].at # "none" =>
        /\ m.turns[r].task \in TaskIds
        /\ m.state.runs[r].state # "none"
        /\ m.state.runs[r].taskId = m.turns[r].task

\* A superseded activation that has spawned a child is not current again, and spawns
\* no other.
LateIsOut(m) ==
    \A r \in RunIds : m.turns[r].late =>
        m.turns[r].at \in {"running", "returned"} /\ ~IsCurrent(m, r)

\* Until then the only child that nobody told to stop is that of the current
\* activation, in #process.
CurrentHasTheChild(m) ==
    (\A r \in RunIds : ~m.turns[r].late) =>
        /\ m.runner.process # None =>
              /\ m.runner.generation = m.runner.process
              /\ m.runner.policyServer \in {m.runner.process, None}
              /\ m.turns[m.runner.process].at = "running"
        /\ \A r \in RunIds : m.turns[r].child = "live" => m.runner.process = r

\* The task at work is the one that the current activation has begun with.
TaskMatches(m) ==
    (m.runner.generation # None /\ m.runner.taskId # None) =>
        m.turns[m.runner.generation].task = m.runner.taskId

\* A pause request is remembered for as long as its task is at work.
PauseIsKnown(m) ==
    ~m.wedged => \A t \in TaskIds :
        (m.runner.taskId = t /\ m.state.tasks[t].state = "pause_requested") =>
            m.runner.pauseRequested

Ordered(m) ==
    /\ m \in Machines
    /\ ProcessIsAlive(m)
    /\ ActivationsAreRuns(m)
    /\ LateIsOut(m)
    /\ CurrentHasTheChild(m)
    /\ TaskMatches(m)
    /\ ~m.wedged => StateInvariants(m.state)
Orderly(m) == Ordered(m) /\ PauseIsKnown(m)

\* A function that only takes away keeps all of it.
LEMMA KeepsOrderly ==
    ASSUME NEW m, Ordered(m), NEW n, NEW x, Keeps(m, n, x)
    PROVE  Ordered(n) /\ (PauseIsKnown(m) => PauseIsKnown(n))
<1>1. /\ m \in Machines /\ n \in Machines /\ n.state = m.state /\ (n.wedged <=> m.wedged)
      /\ \A r \in RunIds : TurnKept(m.turns[r], n.turns[r], r = x)
  BY DEF Ordered, Keeps
<1>2. /\ m.runner.process \in RunIds \cup {None} /\ n.runner.process \in {m.runner.process, None}
      /\ n.runner.process # None => n.runner.generation = m.runner.generation
  BY <1>1 DEF Keeps, Machines, Runner
<1>3. ProcessIsAlive(n)
  BY <1>1, <1>2 DEF Ordered, ProcessIsAlive, TurnKept
<1>4. ActivationsAreRuns(n)
  BY <1>1 DEF Ordered, ActivationsAreRuns, TurnKept
<1>5. LateIsOut(n)
  <2> SUFFICES ASSUME NEW r \in RunIds, n.turns[r].late
               PROVE  n.turns[r].at \in {"running", "returned"} /\ ~IsCurrent(n, r)
    BY DEF LateIsOut
  <2>1. /\ m.turns[r].late
        /\ n.turns[r].task = m.turns[r].task
        /\ m.turns[r].at \in {"running", "returned"} => n.turns[r].at = m.turns[r].at
    BY <1>1 DEF TurnKept
  <2>2. m.turns[r].at \in {"running", "returned"} /\ ~IsCurrent(m, r)
    BY <2>1 DEF Ordered, LateIsOut
  <2>3. m.turns[r].task \in TaskIds
    BY <2>2 DEF Ordered, ActivationsAreRuns
  <2> QED BY <2>1, <2>2, <2>3, NoneAssumption DEF IsCurrent, Keeps
<1>6. CurrentHasTheChild(n)
  <2> SUFFICES ASSUME \A r \in RunIds : ~n.turns[r].late
               PROVE  /\ n.runner.process # None =>
                            /\ n.runner.generation = n.runner.process
                            /\ n.runner.policyServer \in {n.runner.process, None}
                            /\ n.turns[n.runner.process].at = "running"
                      /\ \A r \in RunIds : n.turns[r].child = "live" => n.runner.process = r
    BY DEF CurrentHasTheChild
  <2>1. \A r \in RunIds : ~m.turns[r].late
    BY <1>1 DEF TurnKept
  <2>2. /\ m.runner.process # None =>
              /\ m.runner.generation = m.runner.process
              /\ m.runner.policyServer \in {m.runner.process, None}
              /\ m.turns[m.runner.process].at = "running"
        /\ \A r \in RunIds : m.turns[r].child = "live" => m.runner.process = r
    BY <2>1 DEF Ordered, CurrentHasTheChild
  <2>3. \A r \in RunIds : n.turns[r].child = "live" => m.turns[r].child = "live"
    BY <1>1 DEF TurnKept
  <2>4. (m.runner.process # None /\ n.runner.process = None) =>
           n.turns[m.runner.process].child # "live"
    BY DEF Keeps
  <2>5. \A r \in RunIds : m.turns[r].at = "running" => n.turns[r].at = "running"
    BY <1>1 DEF TurnKept
  <2>6. n.runner.policyServer \in {m.runner.policyServer, None}
    BY DEF Keeps
  <2> QED BY <1>2, <2>2, <2>3, <2>4, <2>5, <2>6, NoneAssumption
<1>7. PauseIsKnown(m) => PauseIsKnown(n)
  BY <1>1, NoneAssumption DEF PauseIsKnown, Keeps
<1>8. TaskMatches(n)
  <2>1. n.runner.generation \in {m.runner.generation, None}
        /\ n.runner.taskId \in {m.runner.taskId, None} /\ m.runner.generation \in RunIds \cup {None}
    BY <1>1 DEF Keeps, Machines, Runner
  <2> QED BY <1>1, <2>1 DEF Ordered, TaskMatches, TurnKept
<1> QED BY <1>1, <1>3, <1>4, <1>5, <1>6, <1>7, <1>8 DEF Ordered

\* The fields of the runner are replaced, and a turn.
LEMMA SetBothEffect ==
    ASSUME NEW m \in Machines, NEW fields \in Runner, NEW r \in RunIds, NEW turn \in Turn,
           NEW n, n = [m EXCEPT !.runner = fields, !.turns[r] = turn]
    PROVE  /\ n \in Machines
           /\ n.state = m.state /\ n.wedged = m.wedged /\ n.runner = fields
           /\ \A x \in RunIds : n.turns[x] = IF x = r THEN turn ELSE m.turns[x]
BY DEF Machines

\* A run that had no activation gets one.
LEMMA StartTaskOrderly ==
    ASSUME NEW m, Ordered(m), NEW t \in TaskIds, NEW r \in RunIds, m.turns[r].at = "none",
           m.state.runs[r].state # "none", m.state.runs[r].taskId = t
    PROVE  LET n == StartTask(m, t, r)
           IN  /\ Orderly(n)
               /\ n.state = m.state /\ (n.wedged <=> m.wedged)
               /\ n.runner.generation = r /\ n.runner.taskId = t
               /\ \A x \in RunIds : x # r => n.turns[x].at = m.turns[x].at
                                             /\ n.turns[x].task = m.turns[x].task
               /\ n.turns[r].at = "starting" /\ n.turns[r].task = t
<1> DEFINE k == KillCurrent(m)
           asked == m.state.tasks[t].state = "pause_requested"
           known == m.state.tasks[t].session # None
           fields == [k.runner EXCEPT !.generation = r, !.taskId = t, !.policyPause = FALSE,
                                      !.session = known, !.pauseRequested = asked]
           turn == [k.turns[r] EXCEPT !.at = "starting", !.task = t]
           n == StartTask(m, t, r)
<1>1. m \in Machines /\ m.runner \in Runner
  BY MachineFields DEF Ordered
<1>2. /\ Keeps(m, k, r) /\ k \in Machines /\ k.state = m.state /\ (k.wedged <=> m.wedged)
      /\ k.runner = [m.runner EXCEPT !.process = None]
      /\ \A x \in RunIds : k.turns[x].at = m.turns[x].at /\ k.turns[x].task = m.turns[x].task
  BY <1>1, KillCurrentKeeps DEF Keeps, TurnKept
<1>3. Ordered(k)
  BY <1>2, KeepsOrderly
<1>4. /\ k.runner.process = None
      /\ k.runner \in Runner /\ k.turns[r] \in Turn
  BY <1>1, <1>2, MachineFields DEF Runner
<1>5. n = [k EXCEPT !.runner = fields, !.turns[r] = turn]
  BY DEF StartTask
<1>6. asked \in BOOLEAN /\ known \in BOOLEAN
  OBVIOUS
<1> HIDE DEF asked, known, n, k
<1>7. /\ fields \in Runner
      /\ fields.process = None /\ fields.generation = r /\ fields.taskId = t
      /\ fields.pauseRequested = asked
  BY <1>4, <1>6 DEF Runner
<1>20. /\ turn \in Turn
      /\ turn.late = k.turns[r].late /\ turn.child = k.turns[r].child
      /\ turn.at = "starting" /\ turn.task = t
  BY <1>4 DEF Turn, Waits
<1> HIDE DEF fields, turn
<1>21. /\ n \in Machines
      /\ n.state = k.state /\ n.wedged = k.wedged /\ n.runner = fields
      /\ \A x \in RunIds : n.turns[x] = IF x = r THEN turn ELSE k.turns[x]
  <2>1. k \in Machines /\ fields \in Runner /\ turn \in Turn
    BY <1>2, <1>7, <1>20
  <2> QED BY <1>5, <2>1 DEF Machines
<1>8. ~k.turns[r].late
  BY <1>2, <1>3 DEF Ordered, LateIsOut
<1>9. ActivationsAreRuns(n)
  BY <1>2, <1>3, <1>20, <1>21 DEF Ordered, ActivationsAreRuns
<1>10. LateIsOut(n)
  BY <1>3, <1>7, <1>8, <1>20, <1>21 DEF Ordered, LateIsOut, IsCurrent
<1>11. CurrentHasTheChild(n)
  <2>1. \A x \in RunIds : n.turns[x].late = k.turns[x].late /\ n.turns[x].child = k.turns[x].child
    BY <1>20, <1>21
  <2> QED BY <1>3, <1>4, <1>7, <1>21, <2>1 DEF Ordered, CurrentHasTheChild
<1>12. ProcessIsAlive(n)
  BY <1>7, <1>21 DEF ProcessIsAlive
<1>13. PauseIsKnown(n)
  <2>1. n.runner.taskId = t /\ n.state = m.state /\ n.runner.pauseRequested = asked
    BY <1>2, <1>7, <1>21
  <2>2. m.state.tasks[t].state = "pause_requested" => asked
    BY DEF asked
  <2> QED BY <2>1, <2>2 DEF PauseIsKnown
<1>14. ~n.wedged => StateInvariants(n.state)
  BY <1>3, <1>21 DEF Ordered
<1>22. TaskMatches(n)
  BY <1>7, <1>20, <1>21 DEF TaskMatches
<1>15. Orderly(n)
  BY <1>9, <1>10, <1>11, <1>12, <1>13, <1>14, <1>21, <1>22 DEF Orderly, Ordered
<1> QED BY <1>2, <1>7, <1>15, <1>20, <1>21 DEF n

-----------------------------------------------------------------------------
(* The events that the runner is handed.                                   *)

\* An event that starts nothing only takes away; a request to pause the task at work
\* is remembered.
LEMMA QuietlyHandled ==
    ASSUME NEW m \in Machines, NEW e, e.type \notin StartTypes, NEW x
    PROVE  LET n == HandleEvent(m, e)
           IN  /\ Keeps(m, n, x)
               /\ \A r \in RunIds : n.turns[r].at = m.turns[r].at
               /\ (e.type = "task.pauseRequested" /\ e.taskId = m.runner.taskId) =>
                     n.runner.pauseRequested
               /\ ~(e.type = "task.cancelled" /\ e.taskId = m.runner.taskId) =>
                     Undisturbed(m, n, None)
<1> DEFINE n == HandleEvent(m, e)
           asked == e.type = "task.pauseRequested" /\ e.taskId = m.runner.taskId
           cancelled == e.type = "task.cancelled" /\ e.taskId = m.runner.taskId
<1>1. CASE asked
  <2> DEFINE k == Kill(m, m.runner.process)
             fields == [k.runner EXCEPT !.pauseRequested = TRUE]
  <2>1. m.runner \in Runner /\ m.runner.process \in RunIds \cup {None}
    BY MachineFields DEF Runner
  <2>2. /\ k \in Machines /\ k.runner = m.runner
        /\ Keeps(m, k, x)
        /\ \A r \in RunIds : k.turns[r].at = m.turns[r].at
    <3>1. /\ \A r \in RunIds : k.turns[r] \in {m.turns[r], [m.turns[r] EXCEPT !.child = "stopping"]}
          /\ \A r \in RunIds : m.turns[r] \in Turn
      BY <2>1, KillEffect, MachineFields
    <3>2. \A r \in RunIds : k.turns[r].at = m.turns[r].at
      BY <3>1 DEF Turn
    <3> QED BY <2>1, <3>2, KillKeeps DEF Keeps
  <2>3. n = SetRunner(k, fields)
    <3>1. n = [k EXCEPT !.runner.pauseRequested = TRUE]
      BY <1>1 DEF HandleEvent, StartTypes
    <3> HIDE DEF k
    <3> QED BY <2>2, <3>1 DEF SetRunner
  <2> HIDE DEF k
  <2>4. /\ fields \in Runner /\ fields.pauseRequested
        /\ fields.generation = k.runner.generation /\ fields.taskId = k.runner.taskId
        /\ fields.process = k.runner.process /\ fields.policyServer = k.runner.policyServer
    BY <2>1, <2>2 DEF Runner
  <2> HIDE DEF fields
  <2>5. Keeps(k, SetRunner(k, fields), x)
    BY <2>2, <2>4, RunnerKeeps
  <2>6. Keeps(m, SetRunner(k, fields), x)
    BY <2>2, <2>5, KeepsTransitive
  <2>9. \A r \in RunIds : k.turns[r].task = m.turns[r].task
    BY <2>2 DEF Keeps, TurnKept
  <2>7. SetRunner(k, fields).runner = fields /\ SetRunner(k, fields).turns = k.turns
    BY <2>2, <2>4, SetRunnerEffect
  <2> HIDE DEF n
  <2>8. Undisturbed(m, n, None)
    BY <2>2, <2>3, <2>4, <2>7, <2>9 DEF Undisturbed
  <2> QED BY <2>2, <2>3, <2>4, <2>6, <2>7, <2>8 DEF n
<1>2. CASE cancelled
  <2>1. n = StopCurrent(m)
    BY <1>2 DEF HandleEvent, StartTypes
  <2> HIDE DEF n
  <2> QED BY <1>2, <2>1, StopCurrentKeeps DEF n
<1>3. CASE ~asked /\ ~cancelled
  <2>1. n = m
    BY <1>3 DEF HandleEvent, StartTypes
  <2> HIDE DEF n
  <2> QED BY <1>3, <2>1, KeepsItself DEF n, Undisturbed
<1> QED BY <1>1, <1>2, <1>3

\* An event that starts a task begins the activation of its run.
LEMMA StartHandled ==
    ASSUME NEW m, NEW e, e.type \in StartTypes
    PROVE  HandleEvent(m, e) = StartTask(m, e.taskId, e.runId)
BY DEF HandleEvent, StartTypes

\* m after a decision has been applied, before the runner is handed its events.
Applied(m, memory) == [m EXCEPT !.state = memory.state, !.wedged = ~memory.ok]

\* It is in order, whether the runner is told of the decision or not.
LEMMA AppliedOrdered ==
    ASSUME NEW m, Ordered(m), NEW memory \in [state : ControllerStates, ok : BOOLEAN],
           RunsRemain(m.state, memory.state), memory.ok => StateInvariants(memory.state)
    PROVE  LET a == Applied(m, memory)
           IN  /\ Ordered(a)
               /\ a.state = memory.state /\ (a.wedged <=> ~memory.ok)
               /\ a.runner = m.runner /\ a.turns = m.turns
<1> DEFINE a == Applied(m, memory)
<1>1. m \in Machines
  BY DEF Ordered
<1>2. /\ a \in Machines
      /\ a.state = memory.state /\ (a.wedged <=> ~memory.ok)
      /\ a.runner = m.runner /\ a.turns = m.turns
  BY <1>1 DEF Machines, Applied
<1> HIDE DEF a
<1>3. ActivationsAreRuns(a)
  BY <1>2 DEF Ordered, ActivationsAreRuns, RunsRemain
<1>4. ProcessIsAlive(a) /\ LateIsOut(a) /\ CurrentHasTheChild(a) /\ TaskMatches(a)
  BY <1>2 DEF Ordered, ProcessIsAlive, LateIsOut, CurrentHasTheChild, IsCurrent, TaskMatches
<1> QED BY <1>2, <1>3, <1>4 DEF Ordered, a

\* The first n events of a decision, handled by machine m.
Handling(g, m, events, n) ==
    /\ g = [i \in 0..n |-> g[i]] /\ g[0] = m
    /\ \A i \in 1..n : g[i] = HandleEvent(g[i - 1], events[i])

\* They can be handled, one by one.
LEMMA HandlingExists ==
    ASSUME NEW m, NEW events, NEW len \in Nat
    PROVE  \E g : Handling(g, m, events, len)
<1> DEFINE Bad == {n \in 0..len : ~ \E g : Handling(g, m, events, n)}
<1>1. SUFFICES ASSUME Bad # {} PROVE FALSE
  <2>1. len \in 0..len
    OBVIOUS
  <2>2. Bad = {} => \E g : Handling(g, m, events, len)
    BY <2>1
  <2> QED BY <2>2
<1>2. PICK n \in Bad : \A k \in Bad : n <= k
  <2>1. Bad \in SUBSET Nat
    OBVIOUS
  <2> HIDE DEF Bad
  <2> QED BY <1>1, <2>1, SmallestNat
<1>3. n \in 0..len /\ ~ \E g : Handling(g, m, events, n)
  OBVIOUS
<1>4. CASE n = 0
  <2> DEFINE g == [i \in 0..0 |-> m]
  <2>1. g = [i \in 0..0 |-> g[i]] /\ g[0] = m /\ \A i \in 1..0 : FALSE
    OBVIOUS
  <2> HIDE DEF g
  <2>2. Handling(g, m, events, 0)
    BY <2>1 DEF Handling
  <2> QED BY <1>3, <1>4, <2>2
<1>5. CASE n # 0
  <2>1. n - 1 \in 0..len /\ n - 1 \in Nat /\ n \in Nat /\ ~(n <= n - 1)
    BY <1>3, <1>5
  <2>2. n - 1 \notin Bad
    BY <1>2, <2>1
  <2>3. PICK g : Handling(g, m, events, n - 1)
    BY <2>1, <2>2
  <2> DEFINE e == HandleEvent(g[n - 1], events[n])
             h == [i \in 0..n |-> IF i = n THEN e ELSE g[i]]
  <2>4. /\ h = [i \in 0..n |-> h[i]] /\ h[n] = e /\ h[0] = g[0]
        /\ \A i \in 1..(n - 1) : h[i] = g[i]
        /\ \A i \in 1..n : h[i - 1] = g[i - 1]
    BY <1>5, <2>1
  <2>5. e = HandleEvent(g[n - 1], events[n])
    OBVIOUS
  <2> HIDE DEF h, e
  <2>6. \A i \in 1..n : h[i] = HandleEvent(h[i - 1], events[i])
    <3> TAKE i \in 1..n
    <3>1. CASE i = n
      BY <2>4, <2>5, <3>1
    <3>2. CASE i # n
      <4>1. i \in 1..(n - 1)
        BY <2>1, <3>2
      <4>2. g[i] = HandleEvent(g[i - 1], events[i])
        BY <2>3, <4>1 DEF Handling
      <4> QED BY <2>4, <4>1, <4>2
    <3> QED BY <3>1, <3>2
  <2>7. Handling(h, m, events, n)
    BY <2>3, <2>4, <2>6 DEF Handling
  <2> QED BY <1>3, <2>7
<1> QED BY <1>4, <1>5

\* The handling of a decision leaves what that of its last event leaves.
LEMMA HandledIsLast ==
    ASSUME NEW m, NEW events, NEW len \in Nat, Len(events) = len
    PROVE  \E f : Handling(f, m, events, len) /\ HandleEvents(m, events) = f[len]
<1> DEFINE Is(f) == f = [i \in 0..len |-> IF i = 0 THEN m
                                          ELSE HandleEvent(f[i - 1], events[i])]
           f == CHOOSE h : Is(h)
<1>1. HandleEvents(m, events) = f[len]
  BY DEF HandleEvents
<1>2. PICK g : Handling(g, m, events, len)
  BY HandlingExists
<1>3. Is(g)
  <2>1. /\ g = [i \in 0..len |-> g[i]] /\ g[0] = m
        /\ \A i \in 1..len : g[i] = HandleEvent(g[i - 1], events[i])
    BY <1>2 DEF Handling
  <2>2. \A i \in 0..len : i = 0 \/ i \in 1..len
    OBVIOUS
  <2>3. [i \in 0..len |-> g[i]] = [i \in 0..len |-> IF i = 0 THEN m
                                          ELSE HandleEvent(g[i - 1], events[i])]
    BY <2>1, <2>2
  <2> QED BY <2>1, <2>3
<1>4. Is(f)
  <2> HIDE DEF Is
  <2> QED BY <1>3
<1> HIDE DEF f
<1>5. f = [i \in 0..len |-> IF i = 0 THEN m ELSE HandleEvent(f[i - 1], events[i])]
  BY <1>4
<1>6. Handling(f, m, events, len)
  <2> DEFINE e(i) == HandleEvent(f[i - 1], events[i])
  <2>1. f = [i \in 0..len |-> IF i = 0 THEN m ELSE e(i)]
    BY <1>5
  <2>2. f[0] = m /\ \A i \in 1..len : f[i] = e(i)
    <3> HIDE DEF e
    <3> QED BY <2>1
  <2>3. f = [i \in 0..len |-> f[i]]
    <3> HIDE DEF e
    <3> QED BY <2>1
  <2> QED BY <2>2, <2>3 DEF Handling
<1> QED BY <1>1, <1>6

\* The runner is given at most the first, the second and the third event of a decision.
HandleNth(m, events, i) == IF i \in DOMAIN events THEN HandleEvent(m, events[i]) ELSE m
\* A decision has no more than three.
LEMMA FewHandled ==
    ASSUME NEW m, NEW events \in Seq(Events), Len(events) \in 1..3
    PROVE  HandleEvents(m, events)
             = HandleNth(HandleNth(HandleNth(m, events, 1), events, 2), events, 3)
<1> DEFINE len == Len(events)
           m1 == HandleNth(m, events, 1)
           m2 == HandleNth(m1, events, 2)
           m3 == HandleNth(m2, events, 3)
<1>1. len \in Nat /\ (len = 1 \/ len = 2 \/ len = 3) /\ len = Len(events)
      /\ DOMAIN events = 1..len
  OBVIOUS
<1> HIDE DEF len
<1>2. PICK f : Handling(f, m, events, len) /\ HandleEvents(m, events) = f[len]
  BY <1>1, HandledIsLast
<1>3. f[1] = m1
  <2>1. 1 \in 1..len /\ 1 - 1 = 0
    BY <1>1
  <2> QED BY <1>1, <1>2, <2>1 DEF Handling, HandleNth
<1> HIDE DEF m1
<1>4. f[len] = m3
  <2>1. CASE len = 1
    <3>1. m2 = m1
      BY <1>1, <2>1 DEF HandleNth
    <3> HIDE DEF m2
    <3>2. m3 = m2
      BY <1>1, <2>1 DEF HandleNth
    <3> HIDE DEF m3
    <3> QED BY <1>3, <2>1, <3>1, <3>2
  <2>2. CASE len > 1
    <3>1. f[2] = m2
      <4>1. 2 \in 1..len /\ 2 - 1 = 1
        BY <1>1, <2>2
      <4>2. f[2] = HandleEvent(f[1], events[2])
        BY <1>2, <4>1 DEF Handling
      <4> QED BY <1>1, <1>3, <4>1, <4>2 DEF HandleNth
    <3> HIDE DEF m2
    <3>2. CASE len = 2
      <4>1. m3 = m2
        BY <1>1, <3>2 DEF HandleNth
      <4> HIDE DEF m3
      <4> QED BY <3>1, <3>2, <4>1
    <3>3. CASE len = 3
      <4>1. 3 \in 1..len /\ 3 - 1 = 2
        BY <1>1, <3>3
      <4>2. f[3] = HandleEvent(f[2], events[3])
        BY <1>2, <4>1 DEF Handling
      <4>3. f[3] = m3
        BY <1>1, <3>1, <4>1, <4>2 DEF HandleNth
      <4> HIDE DEF m3
      <4> QED BY <3>3, <4>3
    <3> QED BY <1>1, <2>2, <3>2, <3>3
  <2> QED BY <1>1, <2>1, <2>2
<1> HIDE DEF m2, m3
<1>5. HandleEvents(m, events) = m3
  BY <1>2, <1>4
<1> QED BY <1>5 DEF m1, m2, m3

\* What a decision that the controller commits makes of its state and of wedged.
Commits(m, n, events) ==
    LET memory == ApplyDecision([state |-> m.state, ok |-> TRUE], events)
    IN  n.state = memory.state /\ (n.wedged <=> ~memory.ok)

\* A decision keeps the machine orderly, and the activations where they are; the
\* run that it starts had none.
LEMMA DecideOrderly ==
    ASSUME NEW m, Orderly(m), ~m.wedged, NEW events \in Seq(Events), Len(events) \in 1..3,
           StartsLast(events),
           AsksNoPause(events) \/ \E t : events = RequestPauseEvents(t)
    PROVE  LET n == Decide(m, events)
           IN  /\ Orderly(n)
               /\ Commits(m, n, events)
               /\ \A r \in RunIds : m.turns[r].at # "none" =>
                     n.turns[r].at = m.turns[r].at /\ n.turns[r].task = m.turns[r].task
<1> DEFINE memory == ApplyDecision([state |-> m.state, ok |-> TRUE], events)
           last == events[Len(events)]
           a == Applied(m, memory)
           n == Decide(m, events)
           Good(k) == /\ Ordered(k) /\ k.state = memory.state /\ (k.wedged <=> ~memory.ok)
                      /\ (AsksNoPause(events) => PauseIsKnown(k))
                      /\ \A r \in RunIds : k.turns[r].at = m.turns[r].at
                                           /\ k.turns[r].task = m.turns[r].task
           Fine(k) == /\ Orderly(k) /\ k.state = memory.state /\ (k.wedged <=> ~memory.ok)
                      /\ \A r \in RunIds : m.turns[r].at # "none" =>
                            k.turns[r].at = m.turns[r].at /\ k.turns[r].task = m.turns[r].task
<1>1. m \in Machines /\ m.state \in ControllerStates
  BY MachineFields DEF Orderly, Ordered
<1>2. /\ memory \in [state : ControllerStates, ok : BOOLEAN]
      /\ RunsRemain(m.state, memory.state)
      /\ memory.ok => StateInvariants(memory.state)
      /\ (memory.ok /\ last.type \in StartTypes) =>
            /\ last.taskId \in TaskIds /\ last.runId \in RunIds
            /\ m.state.runs[last.runId].state = "none"
            /\ memory.state.runs[last.runId].state # "none"
            /\ memory.state.runs[last.runId].taskId = last.taskId
      /\ AsksNoPause(events) => AsksNothing(m.state, memory.state)
  BY <1>1, DecisionRuns
<1>3. n = IF ~memory.ok THEN a
          ELSE HandleNth(HandleNth(HandleNth(a, events, 1), events, 2), events, 3)
  <2>1. n = IF memory.ok THEN HandleEvents(a, events) ELSE a
    BY DEF Decide, Applied
  <2> HIDE DEF n, memory, a
  <2> QED BY <2>1, FewHandled
<1> HIDE DEF memory, last, n
<1>4. /\ Ordered(a)
      /\ a.state = memory.state /\ (a.wedged <=> ~memory.ok)
      /\ a.runner = m.runner /\ a.turns = m.turns
  BY <1>2, AppliedOrdered DEF Orderly
<1> HIDE DEF a
<1>5. Good(a)
  BY <1>2, <1>4 DEF Orderly, PauseIsKnown, AsksNothing
<1>6. CASE ~memory.ok
  <2>1. n = a /\ a.wedged
    BY <1>3, <1>4, <1>6
  <2>2. Fine(n)
    BY <1>5, <2>1 DEF Orderly, PauseIsKnown
  <2> HIDE DEF Fine
  <2>3. Fine(n)
    BY <2>2
  <2> QED BY <2>3 DEF Fine, n, memory, Commits
<1>7. CASE memory.ok
  <2>1. ASSUME NEW k, Good(k), NEW i, i \in DOMAIN events => events[i].type \notin StartTypes
        PROVE  Good(HandleNth(k, events, i))
    <3>1. CASE i \in DOMAIN events
      <4> DEFINE j == HandleEvent(k, events[i])
      <4>1. Keeps(k, j, None) /\ \A r \in RunIds : j.turns[r].at = k.turns[r].at
        BY <2>1, <3>1, QuietlyHandled DEF Ordered
      <4>2. HandleNth(k, events, i) = j
        BY <3>1 DEF HandleNth
      <4> HIDE DEF j
      <4>3. Ordered(j) /\ (PauseIsKnown(k) => PauseIsKnown(j))
        BY <2>1, <4>1, KeepsOrderly
      <4> QED BY <2>1, <4>1, <4>2, <4>3 DEF Keeps, TurnKept
    <3>2. CASE i \notin DOMAIN events
      BY <2>1, <3>2 DEF HandleNth
    <3> QED BY <3>1, <3>2
  <2>2. DOMAIN events = 1..Len(events)
    OBVIOUS
  <2>3. \A i \in DOMAIN events : i # Len(events) => events[i].type \notin StartTypes
    BY DEF StartsLast
  <2>4. ASSUME NEW k, Good(k), last.type \in StartTypes
        PROVE  Fine(HandleNth(k, events, Len(events)))
    <3>1. k.turns[last.runId].at = "none" /\ last.runId \in RunIds
      BY <1>2, <1>7, <2>4 DEF Orderly, Ordered, ActivationsAreRuns
    <3>2. HandleNth(k, events, Len(events)) = StartTask(k, last.taskId, last.runId)
      BY <2>2, <2>4, StartHandled DEF HandleNth, last
    <3> DEFINE j == StartTask(k, last.taskId, last.runId)
    <3>3. /\ Orderly(j)
          /\ j.state = k.state /\ (j.wedged <=> k.wedged)
          /\ \A y \in RunIds : y # last.runId => j.turns[y].at = k.turns[y].at
                                                 /\ j.turns[y].task = k.turns[y].task
      BY <1>2, <1>7, <2>4, <3>1, StartTaskOrderly
    <3> HIDE DEF j
    <3>4. m.turns[last.runId].at = "none"
      BY <2>4, <3>1
    <3> QED BY <2>4, <3>2, <3>3, <3>4 DEF j
  <2>5. CASE AsksNoPause(events)
    <3>1. ASSUME NEW k, Good(k)
          PROVE  Fine(k)
      BY <2>5, <3>1 DEF Orderly
    <3>2. \A k : \A i : i \notin DOMAIN events => HandleNth(k, events, i) = k
      BY DEF HandleNth
    <3>3. ASSUME NEW k, Good(k)
          PROVE  Fine(HandleNth(k, events, Len(events)))
      BY <2>1, <2>4, <3>1, <3>3 DEF last
    <3> DEFINE k1 == HandleNth(a, events, 1)
               k2 == HandleNth(k1, events, 2)
               k3 == HandleNth(k2, events, 3)
    <3>4. n = k3
      BY <1>3, <1>7
    <3>5. CASE Len(events) = 1
      <4>1. Fine(k1)
        BY <1>5, <3>3, <3>5
      <4> HIDE DEF k1
      <4>2. k2 = k1
        BY <2>2, <3>2, <3>5
      <4> HIDE DEF k2
      <4>3. k3 = k2
        BY <2>2, <3>2, <3>5
      <4> HIDE DEF Fine
      <4>4. Fine(n)
        BY <3>4, <4>1, <4>2, <4>3
      <4> QED BY <4>4 DEF Fine, n, memory, Commits
    <3>6. CASE Len(events) = 2
      <4>1. Good(k1)
        BY <1>5, <2>1, <2>2, <2>3, <3>6
      <4> HIDE DEF k1
      <4>2. Fine(k2)
        BY <3>3, <3>6, <4>1
      <4> HIDE DEF k2
      <4>3. k3 = k2
        BY <2>2, <3>2, <3>6
      <4> HIDE DEF Fine
      <4>4. Fine(n)
        BY <3>4, <4>2, <4>3
      <4> QED BY <4>4 DEF Fine, n, memory, Commits
    <3>7. CASE Len(events) = 3
      <4>1. Good(k1)
        BY <1>5, <2>1, <2>2, <2>3, <3>7
      <4> HIDE DEF k1
      <4>2. Good(k2)
        BY <2>1, <2>2, <2>3, <3>7, <4>1
      <4> HIDE DEF k2
      <4>3. Fine(k3)
        BY <3>3, <3>7, <4>2
      <4> HIDE DEF Fine
      <4>4. Fine(n)
        BY <3>4, <4>3
      <4> QED BY <4>4 DEF Fine, n, memory, Commits
    <3> QED BY <3>5, <3>6, <3>7
  <2>6. CASE \E t : events = RequestPauseEvents(t)
    <3>1. PICK t : events = RequestPauseEvents(t)
      BY <2>6
    <3> DEFINE e == [type |-> "task.pauseRequested", taskId |-> t]
               j == HandleEvent(a, e)
    <3>2. events = <<e>>
      BY <3>1 DEF RequestPauseEvents
    <3>3. DOMAIN events = {1} /\ events[1] = e /\ events[1] \in Events
      BY <2>2, <3>2
    <3>4. n = j
      BY <1>3, <1>7, <3>3 DEF HandleNth
    <3>5. e.type = "task.pauseRequested" /\ e.type \notin StartTypes /\ e.taskId = t
      BY DEF StartTypes
    <3> HIDE DEF e
    <3>6. /\ Keeps(a, j, None)
          /\ \A r \in RunIds : j.turns[r].at = a.turns[r].at
          /\ t = a.runner.taskId => j.runner.pauseRequested
      BY <1>4, <3>5, QuietlyHandled DEF Ordered
    <3> HIDE DEF j
    <3>7. Ordered(j)
      BY <1>4, <3>6, KeepsOrderly
    <3>8. \A u \in TaskIds : u # t => memory.state.tasks[u] = m.state.tasks[u]
      <4>1. memory = ApplyChecked([state |-> m.state, ok |-> TRUE], e)
        BY <3>2, DecisionOfOne DEF memory
      <4> DEFINE start == [state |-> m.state, ok |-> TRUE]
      <4>2. start \in [state : ControllerStates, ok : BOOLEAN] /\ start.state = m.state
        BY <1>1
      <4>3. e \in Events /\ e.type = "task.pauseRequested" /\ e.taskId = t
        BY <3>3, <3>5
      <4> HIDE DEF start
      <4>4. \A u \in TaskIds : u # t => ApplyChecked(start, e).state.tasks[u] = start.state.tasks[u]
        BY <4>2, <4>3, CheckedRuns
      <4> QED BY <4>1, <4>2, <4>4 DEF start
    <3>9. PauseIsKnown(j)
      <4> SUFFICES ASSUME NEW u \in TaskIds, j.runner.taskId = u,
                          j.state.tasks[u].state = "pause_requested"
                   PROVE  j.runner.pauseRequested
        BY DEF PauseIsKnown
      <4>1. a.runner.taskId = u
        BY <3>6, NoneAssumption DEF Keeps
      <4>2. CASE u = t
        BY <3>6, <4>1, <4>2
      <4>3. CASE u # t
        <5>1. m.state.tasks[u].state = "pause_requested"
          BY <1>4, <3>6, <3>8, <4>3 DEF Keeps
        <5>2. m.runner.pauseRequested
          BY <1>4, <4>1, <5>1 DEF Orderly, PauseIsKnown
        <5> QED BY <1>4, <3>6, <5>2 DEF Keeps
      <4> QED BY <4>2, <4>3
    <3>10. Fine(n)
      BY <1>4, <3>4, <3>6, <3>7, <3>9 DEF Orderly, Keeps, TurnKept
    <3> QED BY <3>10 DEF n, memory, Commits
  <2> QED BY <2>5, <2>6
<1> QED BY <1>6, <1>7

-----------------------------------------------------------------------------
(* What a step of the machine may do: move no activation but that of x,    *)
(* and those that begin.                                                   *)

Tame(m, n, x) ==
    /\ Orderly(n)
    /\ \A r \in RunIds : (r # x /\ m.turns[r].at # "none") => n.turns[r].at = m.turns[r].at

\* One step after another.
LEMMA TameTransitive ==
    ASSUME NEW m, NEW n, NEW k, NEW x, Tame(m, n, x), Tame(n, k, x)
    PROVE  Tame(m, k, x)
BY DEF Tame

\* A function that only takes away is tame.
LEMMA KeepsTame ==
    ASSUME NEW m, Orderly(m), NEW n, NEW x, Keeps(m, n, x)
    PROVE  Tame(m, n, x)
<1>1. Orderly(n)
  BY KeepsOrderly DEF Orderly
<1> QED BY <1>1 DEF Tame, Keeps, TurnKept

\* So is a decision, which moves no activation.
LEMMA DecideTame ==
    ASSUME NEW m, Orderly(m), ~m.wedged, NEW events, Deliberate(events), NEW x
    PROVE  LET n == Decide(m, events)
           IN  /\ Tame(m, n, x)
               /\ Commits(m, n, events)
               /\ \A r \in RunIds : m.turns[r].at # "none" =>
                     n.turns[r].at = m.turns[r].at /\ n.turns[r].task = m.turns[r].task
<1> DEFINE n == Decide(m, events)
<1>1. /\ events \in Seq(Events) /\ Len(events) \in 1..3
      /\ StartsLast(events)
      /\ AsksNoPause(events) \/ \E t : events = RequestPauseEvents(t)
  BY DEF Deliberate
<1>2. /\ Orderly(n)
      /\ Commits(m, n, events)
      /\ \A r \in RunIds : m.turns[r].at # "none" =>
            n.turns[r].at = m.turns[r].at /\ n.turns[r].task = m.turns[r].task
  BY <1>1, DecideOrderly
<1> HIDE DEF n
<1> QED BY <1>2 DEF Tame, n

\* The events that leave the current activation alone: they start nothing, and do not
\* cancel the task it works on.
LeavesCurrent(m, events) ==
    \A i \in DOMAIN events :
        /\ events[i].type \notin StartTypes
        /\ ~(events[i].type = "task.cancelled" /\ events[i].taskId = m.runner.taskId)

\* A decision of such events leaves every activation alone.
LEMMA DecideUndisturbed ==
    ASSUME NEW m, Orderly(m), NEW events, Deliberate(events), LeavesCurrent(m, events)
    PROVE  Undisturbed(m, Decide(m, events), None)
<1> DEFINE memory == ApplyDecision([state |-> m.state, ok |-> TRUE], events)
           a == Applied(m, memory)
           n == Decide(m, events)
<1>1. m \in Machines /\ m.state \in ControllerStates
  BY MachineFields DEF Orderly, Ordered
<1>2. events \in Seq(Events) /\ Len(events) \in 1..3 /\ StartsLast(events)
  BY DEF Deliberate
<1>3. /\ memory \in [state : ControllerStates, ok : BOOLEAN]
      /\ RunsRemain(m.state, memory.state)
      /\ memory.ok => StateInvariants(memory.state)
  BY <1>1, <1>2, DecisionRuns
<1>4. n = IF ~memory.ok THEN a
          ELSE HandleNth(HandleNth(HandleNth(a, events, 1), events, 2), events, 3)
  <2>1. n = IF memory.ok THEN HandleEvents(a, events) ELSE a
    BY DEF Decide, Applied
  <2> HIDE DEF n, memory, a
  <2> QED BY <1>2, <2>1, FewHandled
<1> HIDE DEF memory, n
<1>5. a \in Machines /\ a.runner = m.runner /\ a.turns = m.turns
  BY <1>3, AppliedOrdered DEF Orderly, Ordered
<1> DEFINE Good(k) == k \in Machines /\ Undisturbed(m, k, None)
<1>6. Good(a)
  BY <1>5 DEF Undisturbed
<1> HIDE DEF a
<1>7. ASSUME NEW k, Good(k), NEW i
      PROVE  Good(HandleNth(k, events, i))
  <2>1. CASE i \in DOMAIN events
    <3> DEFINE j == HandleEvent(k, events[i])
    <3>1. events[i].type \notin StartTypes
          /\ ~(events[i].type = "task.cancelled" /\ events[i].taskId = k.runner.taskId)
      BY <1>7, <2>1 DEF LeavesCurrent, Undisturbed
    <3>2. Keeps(k, j, None) /\ Undisturbed(k, j, None)
      BY <1>7, <3>1, QuietlyHandled
    <3>3. HandleNth(k, events, i) = j
      BY <2>1 DEF HandleNth
    <3> HIDE DEF j
    <3>4. Undisturbed(m, j, None)
      BY <1>7, <3>2, UndisturbedTransitive
    <3> QED BY <3>2, <3>3, <3>4 DEF Keeps
  <2>2. CASE i \notin DOMAIN events
    BY <1>7, <2>2 DEF HandleNth
  <2> QED BY <2>1, <2>2
<1>8. Good(n)
  <2> HIDE DEF Good
  <2> QED BY <1>4, <1>6, <1>7
<1> QED BY <1>8 DEF n

\* And a signal that may be refused.
LEMMA SignalTame ==
    ASSUME NEW m, Orderly(m), ~m.wedged, NEW accepted \in BOOLEAN, NEW events,
           accepted => Deliberate(events), NEW x
    PROVE  LET n == Signal(m, accepted, events)
           IN  /\ Tame(m, n, x)
               /\ ~accepted => n = m
               /\ accepted => Commits(m, n, events)
               /\ \A r \in RunIds : m.turns[r].at # "none" =>
                     n.turns[r].at = m.turns[r].at /\ n.turns[r].task = m.turns[r].task
<1>1. CASE accepted
  <2>1. Signal(m, accepted, events) = Decide(m, events)
    BY <1>1 DEF Signal
  <2> DEFINE n == Decide(m, events)
  <2>2. Deliberate(events)
    BY <1>1
  <2>3. /\ Tame(m, n, x)
        /\ Commits(m, n, events)
        /\ \A r \in RunIds : m.turns[r].at # "none" =>
              n.turns[r].at = m.turns[r].at /\ n.turns[r].task = m.turns[r].task
    BY <2>2, DecideTame
  <2> HIDE DEF n
  <2> QED BY <1>1, <2>1, <2>3 DEF n
<1>2. CASE ~accepted
  <2>1. Signal(m, accepted, events) = m
    BY <1>2 DEF Signal
  <2> QED BY <1>2, <2>1 DEF Tame
<1> QED BY <1>1, <1>2

-----------------------------------------------------------------------------
(* What the activations do.                                                *)

\* The activation of r is past its start and has no child at work.
Settled(m, r) == m.turns[r].at \notin {"none", "running"}

\* The task of such an activation exists.
LEMMA SettledTask ==
    ASSUME NEW m, Orderly(m), NEW r \in RunIds, m.turns[r].at # "none"
    PROVE  /\ m \in Machines /\ m.state \in ControllerStates
           /\ m.turns[r].task \in TaskIds
BY MachineFields DEF Orderly, Ordered, ActivationsAreRuns

\* The end of every way out: the task is forgotten and the activation returns.
LEMMA ReleasedTame ==
    ASSUME NEW m, NEW n, NEW r \in RunIds, Tame(m, n, r), Settled(n, r)
    PROVE  LET k == Returned(Release(n), r)
           IN  /\ Tame(m, k, r) /\ k.state = n.state /\ (k.wedged <=> n.wedged)
               /\ k.turns[r].at = "returned" /\ k.runner.taskId = None
<1> DEFINE j == Release(n)
           k == Returned(j, r)
<1>1. n \in Machines /\ Orderly(n)
  BY DEF Tame, Orderly, Ordered
<1>2. /\ Keeps(n, j, r) /\ j.turns = n.turns /\ j \in Machines
      /\ j.runner = [n.runner EXCEPT !.taskId = None]
  BY <1>1, ReleaseKeeps DEF Keeps
<1>8. j.runner.taskId = None
  <2>1. n.runner \in Runner
    BY <1>1, MachineFields
  <2> QED BY <1>2, <2>1 DEF Runner
<1> HIDE DEF j
<1>3. j.turns[r].at \notin {"none", "running"}
  BY <1>2 DEF Settled
<1>4. Keeps(j, k, r) /\ k.turns[r].at = "returned" /\ k.runner = j.runner
  BY <1>2, <1>3, ReturnedKeeps
<1> HIDE DEF k
<1>5. Keeps(n, k, r)
  BY <1>1, <1>2, <1>4, KeepsTransitive
<1>6. Tame(n, k, r)
  BY <1>1, <1>5, KeepsTame
<1>7. Tame(m, k, r)
  BY <1>6, TameTransitive
<1> QED BY <1>4, <1>5, <1>7, <1>8 DEF Keeps, j, k

\* The signals with which an activation of task t reports the end of its turn.
Reports(s, t, events) ==
    \/ CanFinish(s, t) /\ events \in {CompleteEvents(s, t), FailEvents(s, t)}
    \/ CanPauseAtSafeBoundary(s, t) /\ events = PauseAtSafeBoundaryEvents(s, t)
    \/ CanReportWorkspaceConflict(s, t) /\ events = ReportWorkspaceConflictEvents(s, t)
    \/ \E q \in QuestionIds : CanAwaitUserInput(s, t, q) /\ events = AwaitUserInputEvents(s, t, q)

\* Such a signal has been committed, and the task is forgotten; or nothing.
Signals(m, n, t) ==
    \/ Unmoved(m, n)
    \/ /\ \E events : Reports(m.state, t, events) /\ Commits(m, n, events)
       /\ n.runner.taskId = None

\* What comes before it does not touch the controller.
LEMMA UnmovedThenSignals ==
    ASSUME NEW m, NEW n, NEW k, NEW t,
           Unmoved(m, n), Signals(n, k, t)
    PROVE  Signals(m, k, t)
BY DEF Signals, Unmoved, Commits

\* #fail
LEMMA FailTame ==
    ASSUME NEW m, Orderly(m), ~m.wedged, NEW r \in RunIds, Settled(m, r)
    PROVE  LET n == Fail(m, r)
           IN  Tame(m, n, r) /\ Signals(m, n, m.turns[r].task) /\ n.turns[r].at = "returned"
<1> DEFINE t == m.turns[r].task
           failed == Signal(m, CanFinish(m.state, t), FailEvents(m.state, t))
           k == KillCurrent(failed)
<1>1. m.state \in ControllerStates /\ t \in TaskIds
  BY SettledTask DEF Settled
<1>2. CanFinish(m.state, t) => Deliberate(FailEvents(m.state, t))
  BY <1>1, RunnerIsDeliberate
<1>3. CanFinish(m.state, t) \in BOOLEAN
  BY DEF CanFinish
<1>4. /\ Tame(m, failed, r) /\ failed.turns[r].at = m.turns[r].at
      /\ ~CanFinish(m.state, t) => failed = m
      /\ CanFinish(m.state, t) => Commits(m, failed, FailEvents(m.state, t))
  BY <1>2, <1>3, SignalTame DEF Settled
<1>5. Fail(m, r) = Returned(Release(k), r)
  BY DEF Fail
<1> HIDE DEF failed
<1>6. failed \in Machines /\ Orderly(failed)
  BY <1>4 DEF Tame, Orderly, Ordered
<1>7. Keeps(failed, k, r) /\ k.turns[r].at = failed.turns[r].at
  BY <1>6, KillCurrentKeeps
<1> HIDE DEF k
<1>8. Tame(m, k, r)
  BY <1>4, <1>6, <1>7, KeepsTame, TameTransitive
<1>9. Settled(k, r)
  BY <1>4, <1>7 DEF Settled
<1> DEFINE n == Returned(Release(k), r)
<1>11. /\ Tame(m, n, r) /\ n.state = k.state /\ (n.wedged <=> k.wedged)
       /\ n.turns[r].at = "returned" /\ n.runner.taskId = None
  BY <1>8, <1>9, ReleasedTame
<1> HIDE DEF n
<1>12. Unmoved(failed, n)
  BY <1>7, <1>11 DEF Unmoved, Keeps
<1>13. Signals(m, n, t)
  BY <1>4, <1>11, <1>12 DEF Signals, Unmoved, Reports, Commits
<1> QED BY <1>5, <1>11, <1>13 DEF n

\* Any other way out of a turn that a signal decides: the conflict that the guard found,
\* the safe boundary of a pause, the question of the agent, the end of the task.
LEMMA SignalledTame ==
    ASSUME NEW m, Orderly(m), ~m.wedged, NEW r \in RunIds, Settled(m, r),
           NEW accepted \in BOOLEAN, NEW events, accepted => Deliberate(events)
    PROVE  LET n == Returned(Release(Signal(m, accepted, events)), r)
           IN  /\ Tame(m, n, r) /\ n.turns[r].at = "returned" /\ n.runner.taskId = None
               /\ ~accepted => Unmoved(m, n)
               /\ accepted => Commits(m, n, events)
<1> DEFINE k == Signal(m, accepted, events)
           n == Returned(Release(k), r)
<1>1. /\ Tame(m, k, r)
      /\ ~accepted => k = m
      /\ accepted => Commits(m, k, events)
      /\ k.turns[r].at = m.turns[r].at
  BY SignalTame DEF Settled
<1> HIDE DEF k
<1>2. Settled(k, r)
  BY <1>1 DEF Settled
<1>3. /\ Tame(m, n, r) /\ n.state = k.state /\ (n.wedged <=> k.wedged)
      /\ n.turns[r].at = "returned" /\ n.runner.taskId = None
  BY <1>1, <1>2, ReleasedTame
<1> HIDE DEF n
<1> QED BY <1>1, <1>3 DEF n, k, Unmoved, Commits

\* A conflict is reported to a task that runs, and only to such a one.
LEMMA ReportConflictTame ==
    ASSUME NEW m, Orderly(m), ~m.wedged, NEW r \in RunIds, Settled(m, r)
    PROVE  /\ Tame(m, ReportConflict(m, r), r)
           /\ m.state.tasks[m.turns[r].task].state # "running" =>
                 ReportConflict(m, r).state = m.state
           /\ Signals(m, ReportConflict(m, r), m.turns[r].task)
           /\ ReportConflict(m, r).turns[r].at = "returned"
<1> DEFINE t == m.turns[r].task
           accepted == CanReportWorkspaceConflict(m.state, t)
           events == ReportWorkspaceConflictEvents(m.state, t)
<1>1. m.state \in ControllerStates /\ t \in TaskIds
  BY SettledTask DEF Settled
<1>2. accepted => Deliberate(events)
  BY <1>1, RunnerIsDeliberate
<1>3. accepted \in BOOLEAN /\ (accepted => m.state.tasks[t].state = "running")
  BY DEF CanReportWorkspaceConflict, InRun
<1>4. ReportConflict(m, r) = Returned(Release(Signal(m, accepted, events)), r)
  BY DEF ReportConflict
<1>6. accepted => Reports(m.state, t, events)
  BY DEF Reports
<1> HIDE DEF accepted, events
<1>5. /\ Tame(m, ReportConflict(m, r), r)
      /\ ~accepted => ReportConflict(m, r).state = m.state
      /\ Signals(m, ReportConflict(m, r), t)
      /\ ReportConflict(m, r).turns[r].at = "returned"
  <2> DEFINE n == Returned(Release(Signal(m, accepted, events)), r)
  <2>1. accepted \in BOOLEAN /\ (accepted => Deliberate(events))
    BY <1>2, <1>3
  <2>2. /\ Tame(m, n, r) /\ n.turns[r].at = "returned" /\ n.runner.taskId = None
        /\ ~accepted => Unmoved(m, n)
        /\ accepted => Commits(m, n, events)
    BY <2>1, SignalledTame
  <2> HIDE DEF n
  <2>3. Signals(m, n, t)
    BY <1>6, <2>2 DEF Signals
  <2> QED BY <1>4, <2>2, <2>3 DEF n, Unmoved
<1> QED BY <1>3, <1>5

\* The pause at the safe boundary pauses the task that was asked to.
LEMMA SafePauseTame ==
    ASSUME NEW m, Orderly(m), ~m.wedged, NEW r \in RunIds, Settled(m, r)
    PROVE  LET t == m.turns[r].task
           IN  /\ Tame(m, SafePause(m, r), r)
               /\ Signals(m, SafePause(m, r), t)
               /\ SafePause(m, r).turns[r].at = "returned"
               /\ \A u \in TaskIds :
                     \/ SafePause(m, r).state.tasks[u] = m.state.tasks[u]
                     \/ SafePause(m, r).state.tasks[u].state = "paused"
<1> DEFINE t == m.turns[r].task
           accepted == CanPauseAtSafeBoundary(m.state, t)
           events == PauseAtSafeBoundaryEvents(m.state, t)
           e == [type |-> "task.paused", taskId |-> t, runId |-> m.state.tasks[t].activeRunId]
           start == [state |-> m.state, ok |-> TRUE]
           n == SafePause(m, r)
<1>1. m.state \in ControllerStates /\ t \in TaskIds
  BY SettledTask DEF Settled
<1>2. accepted => Deliberate(events)
  BY <1>1, RunnerIsDeliberate
<1>3. accepted \in BOOLEAN
  BY DEF CanPauseAtSafeBoundary
<1>4. n = Returned(Release(Signal(m, accepted, events)), r)
  BY DEF SafePause
<1>5. events = <<e>> /\ e.type = "task.paused" /\ e.taskId = t
  BY DEF PauseAtSafeBoundaryEvents
<1>6. accepted => e \in Events
  <2>1. accepted => events \in Seq(Events)
    BY <1>2 DEF Deliberate
  <2> HIDE DEF e, events, accepted
  <2> QED BY <1>5, <2>1
<1>12. accepted => Reports(m.state, t, events)
  BY DEF Reports
<1> HIDE DEF accepted, events, n, e
<1>13. /\ Tame(m, n, r) /\ n.turns[r].at = "returned" /\ n.runner.taskId = None
       /\ ~accepted => Unmoved(m, n)
       /\ accepted => Commits(m, n, events)
  BY <1>2, <1>3, <1>4, SignalledTame
<1>7. /\ Tame(m, n, r)
      /\ ~accepted => n.state = m.state
      /\ accepted => n.state = ApplyDecision(start, events).state
  BY <1>13 DEF Unmoved, Commits
<1>14. Signals(m, n, t)
  BY <1>3, <1>12, <1>13 DEF Signals
<1>8. accepted => n.state = ApplyChecked(start, e).state
  BY <1>5, <1>7, DecisionOfOne
<1>9. ApplyChecked(start, e).state \in {m.state, Apply(m.state, e)}
  BY DEF ApplyChecked
<1>10. accepted => \A u \in TaskIds :
           \/ Apply(m.state, e).tasks[u] = m.state.tasks[u]
           \/ Apply(m.state, e).tasks[u].state = "paused"
  <2> SUFFICES ASSUME accepted
               PROVE  \A u \in TaskIds : \/ Apply(m.state, e).tasks[u] = m.state.tasks[u]
                                         \/ Apply(m.state, e).tasks[u].state = "paused"
    OBVIOUS
  <2>1. e \in Events /\ e.type \in TaskTypes
    BY <1>5, <1>6 DEF TaskTypes, TaskIsRequired
  <2>2. /\ \A u \in TaskIds : u # e.taskId => Apply(m.state, e).tasks[u] = m.state.tasks[u]
        /\ After(e, m.state.tasks[e.taskId], Apply(m.state, e).tasks[e.taskId])
    BY <1>1, <2>1, TaskEffect
  <2>3. Apply(m.state, e).tasks[e.taskId].state = "paused"
    BY <1>5, <2>2 DEF After
  <2> QED BY <2>2, <2>3
<1>11. \A u \in TaskIds : n.state.tasks[u] = m.state.tasks[u] \/ n.state.tasks[u].state = "paused"
  <2>1. n.state = m.state \/ (accepted /\ n.state = Apply(m.state, e))
    BY <1>3, <1>7, <1>8, <1>9
  <2> QED BY <1>10, <2>1
<1> QED BY <1>11, <1>13, <1>14 DEF n

\* A completion, or a question, that the controller takes ends the turn; otherwise the
\* agent has failed.
LEMMA CompleteTame ==
    ASSUME NEW m, Orderly(m), ~m.wedged, NEW r \in RunIds, Settled(m, r)
    PROVE  LET n == Complete(m, r)
           IN  Tame(m, n, r) /\ Signals(m, n, m.turns[r].task) /\ n.turns[r].at = "returned"
<1> DEFINE t == m.turns[r].task
           events == CompleteEvents(m.state, t)
           accepted == CanFinish(m.state, t)
<1>1. CASE accepted
  <2>1. m.state \in ControllerStates /\ t \in TaskIds
    BY SettledTask DEF Settled
  <2>2. Deliberate(events)
    BY <1>1, <2>1, RunnerIsDeliberate
  <2>3. Complete(m, r) = Returned(Release(Signal(m, TRUE, events)), r)
    BY <1>1 DEF Complete, Signal
  <2>4. Reports(m.state, t, events)
    BY <1>1 DEF Reports
  <2> HIDE DEF events
  <2>5. /\ Tame(m, Complete(m, r), r) /\ Commits(m, Complete(m, r), events)
        /\ Complete(m, r).turns[r].at = "returned" /\ Complete(m, r).runner.taskId = None
    BY <2>2, <2>3, SignalledTame
  <2> QED BY <2>4, <2>5 DEF Signals
<1>2. CASE ~accepted
  <2>1. Complete(m, r) = Fail(m, r)
    BY <1>2 DEF Complete
  <2> QED BY <2>1, FailTame
<1> QED BY <1>1, <1>2
\* A question leaves the machine in order, accepted or not.
LEMMA AskUserTame ==
    ASSUME NEW m, Orderly(m), ~m.wedged, NEW r \in RunIds, Settled(m, r), NEW q \in QuestionIds
    PROVE  LET n == AskUser(m, r, q)
           IN  Tame(m, n, r) /\ Signals(m, n, m.turns[r].task) /\ n.turns[r].at = "returned"
<1> DEFINE t == m.turns[r].task
           events == AwaitUserInputEvents(m.state, t, q)
           accepted == CanAwaitUserInput(m.state, t, q)
<1>1. CASE accepted
  <2>1. m.state \in ControllerStates /\ t \in TaskIds
    BY SettledTask DEF Settled
  <2>2. Deliberate(events)
    BY <1>1, <2>1, RunnerIsDeliberate
  <2>3. AskUser(m, r, q) = Returned(Release(Signal(m, TRUE, events)), r)
    BY <1>1 DEF AskUser, Signal
  <2>4. Reports(m.state, t, events)
    BY <1>1 DEF Reports
  <2> HIDE DEF events
  <2>5. /\ Tame(m, AskUser(m, r, q), r) /\ Commits(m, AskUser(m, r, q), events)
        /\ AskUser(m, r, q).turns[r].at = "returned" /\ AskUser(m, r, q).runner.taskId = None
    BY <2>2, <2>3, SignalledTame
  <2> QED BY <2>4, <2>5 DEF Signals
<1>2. CASE ~accepted
  <2>1. AskUser(m, r, q) = Fail(m, r)
    BY <1>2 DEF AskUser
  <2> QED BY <2>1, FailTame
<1> QED BY <1>1, <1>2

\* The activation returns, and nothing else.
LEMMA ReturnedTame ==
    ASSUME NEW m, Orderly(m), NEW r \in RunIds, Settled(m, r)
    PROVE  LET n == Returned(m, r)
           IN  Tame(m, n, r) /\ Unmoved(m, n) /\ n.turns[r].at = "returned"
<1>1. m \in Machines
  BY DEF Orderly, Ordered
<1>2. Keeps(m, Returned(m, r), r) /\ Returned(m, r).turns[r].at = "returned"
  BY <1>1, ReturnedKeeps DEF Settled
<1> QED BY <1>2, KeepsTame DEF Keeps, Unmoved

\* The completion is refused: the turn is tried again, if the task still runs.
LEMMA TryAgainTame ==
    ASSUME NEW m, Orderly(m), ~m.wedged, NEW r \in RunIds, m.turns[r].at = "ending"
    PROVE  LET n == TryAgain(m, r)
           IN  /\ Tame(m, n, r) /\ Signals(m, n, m.turns[r].task)
               /\ (Unmoved(m, n) /\ Undisturbed(m, n, r)) \/ n.turns[r].at = "returned"
<1>1. m \in Machines /\ m.turns[r] \in Turn /\ Settled(m, r)
  BY MachineFields DEF Orderly, Ordered, Settled
<1>2. CASE m.turns[r].attempt = MaxAttempts
  <2>1. TryAgain(m, r) = Fail(m, r)
    BY <1>2 DEF TryAgain
  <2> QED BY <1>1, <2>1, FailTame
<1>3. CASE m.turns[r].attempt # MaxAttempts /\ m.state.tasks[m.turns[r].task].state = "running"
  <2> DEFINE turn == [m.turns[r] EXCEPT !.at = "reconciling", !.attempt = @ + 1]
  <2>1. TryAgain(m, r) = SetTurn(m, r, turn)
    BY <1>1, <1>3 DEF TryAgain, SetTurn, Machines, Turn
  <2>2. /\ turn \in Turn /\ turn.at = "reconciling" /\ turn.task = m.turns[r].task
        /\ turn.late = m.turns[r].late /\ turn.child = m.turns[r].child
    <3>1. m.turns[r].attempt + 1 \in 0..MaxAttempts
      BY <1>1, <1>3, MaxAttemptsAssumption DEF Turn
    <3> QED BY <1>1, <3>1 DEF Turn, Waits
  <2> HIDE DEF turn
  <2> DEFINE n == SetTurn(m, r, turn)
  <2>3. Keeps(m, n, r)
    BY <1>1, <2>2, TurnKeeps
  <2>4. n.runner = m.runner /\ n.turns[r].at = "reconciling"
    BY <1>1, <2>2, SetTurnEffect
  <2> HIDE DEF n
  <2>5. Unmoved(m, n) /\ Undisturbed(m, n, r)
    BY <2>3, <2>4 DEF Keeps, TurnKept, Unmoved, Undisturbed, Waits
  <2> QED BY <2>1, <2>3, <2>5, KeepsTame DEF n, Signals
<1>4. CASE m.turns[r].attempt # MaxAttempts /\ m.state.tasks[m.turns[r].task].state # "running"
  <2>1. TryAgain(m, r) = Returned(Release(m), r)
    BY <1>4 DEF TryAgain
  <2>2. Tame(m, m, r)
    BY DEF Tame
  <2> QED BY <1>1, <2>1, <2>2, ReleasedTame DEF Signals, Unmoved
<1> QED BY <1>2, <1>3, <1>4

\* A turn begins, unless the activation is superseded.
LEMMA RunTurnTame ==
    ASSUME NEW m, Orderly(m), NEW r \in RunIds, m.turns[r].at \in {"starting", "reconciling"}
    PROVE  LET n == RunTurn(m, r)
           IN  /\ Tame(m, n, r) /\ Unmoved(m, n)
               /\ Undisturbed(m, n, r) \/ (~IsCurrent(m, r) /\ n.turns[r].at = "returned")
<1>1. m \in Machines /\ m.turns[r] \in Turn /\ m.runner \in Runner /\ Settled(m, r)
  BY MachineFields DEF Orderly, Ordered, Settled
<1>2. CASE ~IsCurrent(m, r)
  <2>1. RunTurn(m, r) = Returned(m, r)
    BY <1>2 DEF RunTurn
  <2> QED BY <1>1, <1>2, <2>1, ReturnedTame
<1>3. CASE IsCurrent(m, r)
  <2> DEFINE fields == [m.runner EXCEPT !.policyPause = FALSE]
             turn == [m.turns[r] EXCEPT !.at = "beginning"]
             k == SetRunner(m, fields)
             n == SetTurn(k, r, turn)
  <2>1. RunTurn(m, r) = n
    <3>1. RunTurn(m, r) = [m EXCEPT !.runner = fields, !.turns[r] = turn]
      BY <1>1, <1>3 DEF RunTurn, Machines, Runner, Turn
    <3> HIDE DEF fields, turn
    <3> QED BY <1>1, <3>1 DEF SetTurn, SetRunner, Machines
  <2>2. /\ fields \in Runner
        /\ fields.generation = m.runner.generation /\ fields.taskId = m.runner.taskId
        /\ fields.process = m.runner.process
        /\ fields.policyServer = m.runner.policyServer
        /\ fields.pauseRequested = m.runner.pauseRequested
    BY <1>1 DEF Runner
  <2>3. /\ turn \in Turn /\ turn.at = "beginning" /\ turn.task = m.turns[r].task
        /\ turn.late = m.turns[r].late /\ turn.child = m.turns[r].child
    BY <1>1 DEF Turn, Waits
  <2> HIDE DEF fields, turn
  <2>4. Keeps(m, k, r)
    <3>1. fields.policyServer \in {m.runner.policyServer, None}
      BY <2>2
    <3> QED BY <1>1, <2>2, <3>1, RunnerKeeps
  <2>5. k \in Machines /\ k.turns = m.turns /\ k.runner = fields
    BY <1>1, <2>2, SetRunnerEffect
  <2> HIDE DEF k
  <2>6. Keeps(k, n, r)
    BY <2>3, <2>5, TurnKeeps
  <2>8. n.runner = fields /\ n.turns[r].at = "beginning"
    BY <2>3, <2>5, SetTurnEffect
  <2> HIDE DEF n
  <2>7. Keeps(m, n, r)
    BY <1>1, <2>4, <2>6, KeepsTransitive
  <2>9. Unmoved(m, n) /\ Undisturbed(m, n, r)
    BY <2>2, <2>7, <2>8 DEF Keeps, TurnKept, Unmoved, Undisturbed, Waits
  <2> QED BY <2>1, <2>7, <2>9, KeepsTame
<1> QED BY <1>2, <1>3

\* The hook server may be stopped.
LEMMA ServerTame ==
    ASSUME NEW m, Orderly(m), NEW server \in {m.runner.policyServer, None}, NEW x
    PROVE  LET n == [m EXCEPT !.runner.policyServer = server]
           IN  Tame(m, n, x) /\ n.state = m.state /\ n.wedged = m.wedged /\ n.turns = m.turns
<1> DEFINE fields == [m.runner EXCEPT !.policyServer = server]
           n == SetRunner(m, fields)
<1>1. m \in Machines /\ m.runner \in Runner
  BY MachineFields DEF Orderly, Ordered
<1>2. [m EXCEPT !.runner.policyServer = server] = n
  BY DEF SetRunner
<1>3. /\ fields \in Runner
      /\ fields.generation = m.runner.generation /\ fields.taskId = m.runner.taskId
      /\ fields.process = m.runner.process /\ fields.policyServer = server
      /\ fields.pauseRequested = m.runner.pauseRequested
  BY <1>1 DEF Runner
<1> HIDE DEF fields
<1>4. n.state = m.state /\ n.wedged = m.wedged /\ n.turns = m.turns
  BY <1>1, <1>3, SetRunnerEffect
<1>5. Keeps(m, n, x)
  <2>1. fields.policyServer \in {m.runner.policyServer, None}
    BY <1>3
  <2> QED BY <1>1, <1>3, <2>1, RunnerKeeps
<1> HIDE DEF n
<1> QED BY <1>2, <1>4, <1>5, KeepsTame

\* The evidence is refused: the hook server is stopped and the turn fails, if it is current.
LEMMA EvidenceIsRefusedTame ==
    ASSUME NEW m, Orderly(m), ~m.wedged, NEW r \in RunIds, Settled(m, r)
    PROVE  LET n == EvidenceIsRefused(m, r)
           IN  Tame(m, n, r) /\ Signals(m, n, m.turns[r].task) /\ n.turns[r].at = "returned"
<1> DEFINE stopped == [m EXCEPT !.runner.policyServer = None]
<1>1. /\ Tame(m, stopped, r) /\ Settled(stopped, r) /\ ~stopped.wedged
      /\ Unmoved(m, stopped) /\ stopped.turns = m.turns
  BY ServerTame DEF Settled, Unmoved
<1>2. EvidenceIsRefused(m, r) \in {Fail(stopped, r), Returned(stopped, r)}
  BY DEF EvidenceIsRefused
<1> HIDE DEF stopped
<1>3. /\ Tame(stopped, Fail(stopped, r), r) /\ Tame(stopped, Returned(stopped, r), r)
      /\ Signals(stopped, Fail(stopped, r), m.turns[r].task)
      /\ Signals(stopped, Returned(stopped, r), m.turns[r].task)
      /\ Fail(stopped, r).turns[r].at = "returned"
      /\ Returned(stopped, r).turns[r].at = "returned"
  BY <1>1, FailTame, ReturnedTame DEF Tame, Signals
<1>4. /\ Signals(m, Fail(stopped, r), m.turns[r].task)
      /\ Signals(m, Returned(stopped, r), m.turns[r].task)
  BY <1>1, <1>3, UnmovedThenSignals
<1> QED BY <1>1, <1>2, <1>3, <1>4, TameTransitive

-----------------------------------------------------------------------------
(* What the agents and their children do.                                  *)

\* Fields that concern neither a process nor the task at work.
LEMMA FieldsTame ==
    ASSUME NEW m, Orderly(m), NEW fields \in Runner, NEW x,
           fields.generation = m.runner.generation, fields.taskId = m.runner.taskId,
           fields.process = m.runner.process, fields.pauseRequested = m.runner.pauseRequested,
           fields.policyServer \in {m.runner.policyServer, None}
    PROVE  LET n == SetRunner(m, fields)
           IN  Tame(m, n, x) /\ Unmoved(m, n) /\ Undisturbed(m, n, x)
<1> DEFINE n == SetRunner(m, fields)
<1>1. m \in Machines
  BY DEF Orderly, Ordered
<1>2. Keeps(m, n, x) /\ Keeps(m, n, None)
  BY <1>1, RunnerKeeps
<1>3. n.runner = fields
  BY <1>1, SetRunnerEffect
<1> HIDE DEF n
<1> QED BY <1>2, <1>3, KeepsTame, KeepsUndisturbed DEF n

\* A call that is refused.
LEMMA RefusedTame ==
    ASSUME NEW m, Orderly(m), NEW r \in RunIds, NEW x
    PROVE  LET n == Refused(m, r)
           IN  Tame(m, n, x) /\ Unmoved(m, n) /\ Undisturbed(m, n, x)
<1> DEFINE fields == [m.runner EXCEPT !.policyPause = TRUE, !.killTimers = @ \cup {r}]
<1>1. m \in Machines /\ m.runner \in Runner
  BY MachineFields DEF Orderly, Ordered
<1>2. Refused(m, r) = SetRunner(m, fields)
  BY <1>1 DEF Refused, SetRunner, Machines, Runner
<1>3. /\ fields \in Runner
      /\ fields.generation = m.runner.generation /\ fields.taskId = m.runner.taskId
      /\ fields.process = m.runner.process /\ fields.policyServer = m.runner.policyServer
      /\ fields.pauseRequested = m.runner.pauseRequested
  BY <1>1 DEF Runner
<1> HIDE DEF fields
<1> QED BY <1>2, <1>3, FieldsTame

\* A child that is told to stop.
LEMMA KillTame ==
    ASSUME NEW m, Orderly(m), NEW r \in RunIds \cup {None}, NEW x
    PROVE  LET n == Kill(m, r)
           IN  Tame(m, n, x) /\ n.runner = m.runner /\ Unmoved(m, n) /\ Undisturbed(m, n, x)
<1> DEFINE n == Kill(m, r)
<1>1. m \in Machines
  BY DEF Orderly, Ordered
<1>2. Keeps(m, n, x) /\ Keeps(m, n, None) /\ n.runner = m.runner
  BY <1>1, KillKeeps
<1> HIDE DEF n
<1> QED BY <1>2, KeepsTame, KeepsUndisturbed DEF n

\* The timer of a refused call stops the child in #process, whosever it is by then.
LEMMA KillTimerTame ==
    ASSUME NEW m, Orderly(m), NEW r \in RunIds, NEW x
    PROVE  LET n == [Kill(m, m.runner.process) EXCEPT !.runner.killTimers = @ \ {r}]
           IN  Tame(m, n, x) /\ Unmoved(m, n) /\ Undisturbed(m, n, x)
<1> DEFINE k == Kill(m, m.runner.process)
           fields == [k.runner EXCEPT !.killTimers = @ \ {r}]
<1>1. m.runner \in Runner /\ m.runner.process \in RunIds \cup {None}
  BY MachineFields DEF Orderly, Ordered, Runner
<1>2. Tame(m, k, x) /\ k.runner = m.runner /\ Unmoved(m, k) /\ Undisturbed(m, k, x)
  BY <1>1, KillTame
<1>3. [k EXCEPT !.runner.killTimers = @ \ {r}] = SetRunner(k, fields)
  BY DEF SetRunner
<1> HIDE DEF k
<1>4. /\ fields \in Runner
      /\ fields.generation = k.runner.generation /\ fields.taskId = k.runner.taskId
      /\ fields.process = k.runner.process /\ fields.policyServer = k.runner.policyServer
      /\ fields.pauseRequested = k.runner.pauseRequested
  BY <1>1, <1>2 DEF Runner
<1> HIDE DEF fields
<1> DEFINE n == SetRunner(k, fields)
<1>5. Tame(k, n, x) /\ Unmoved(k, n) /\ Undisturbed(k, n, x)
  <2>1. Orderly(k)
    BY <1>2 DEF Tame
  <2> QED BY <1>4, <2>1, FieldsTame
<1> HIDE DEF n
<1>6. Tame(m, n, x) /\ Unmoved(m, n) /\ Undisturbed(m, n, x)
  BY <1>2, <1>5, TameTransitive, UndisturbedTransitive DEF Unmoved
<1> QED BY <1>3, <1>6 DEF k, n

\* A turn that started a tool without authorization.
TurnStopped(m, r) ==
    [Kill(Kill(m, m.runner.process), r) EXCEPT !.runner.policyPause = TRUE]

\* It is told to stop.
LEMMA TurnStoppedTame ==
    ASSUME NEW m, Orderly(m), NEW r \in RunIds, NEW x
    PROVE  LET n == TurnStopped(m, r)
           IN  Tame(m, n, x) /\ Unmoved(m, n) /\ Undisturbed(m, n, x)
<1> DEFINE k == Kill(m, m.runner.process)
           j == Kill(k, r)
           told == [j.runner EXCEPT !.policyPause = TRUE]
           n == SetRunner(j, told)
<1>1. m.runner \in Runner /\ m.runner.process \in RunIds \cup {None}
  BY MachineFields DEF Orderly, Ordered, Runner
<1>2. Tame(m, k, x) /\ Unmoved(m, k) /\ Undisturbed(m, k, x) /\ k.runner = m.runner
  BY <1>1, KillTame
<1> HIDE DEF k
<1>3. Tame(k, j, x) /\ Unmoved(k, j) /\ Undisturbed(k, j, x) /\ j.runner = k.runner
  <2>1. Orderly(k)
    BY <1>2 DEF Tame
  <2> QED BY <2>1, KillTame
<1>4. TurnStopped(m, r) = n
  BY DEF TurnStopped, SetRunner, k
<1> HIDE DEF j
<1>5. /\ told \in Runner
      /\ told.generation = j.runner.generation /\ told.taskId = j.runner.taskId
      /\ told.process = j.runner.process /\ told.policyServer = j.runner.policyServer
      /\ told.pauseRequested = j.runner.pauseRequested
  BY <1>1, <1>2, <1>3 DEF Runner
<1> HIDE DEF told
<1>6. Tame(j, n, x) /\ Unmoved(j, n) /\ Undisturbed(j, n, x)
  <2>1. Orderly(j)
    BY <1>3 DEF Tame
  <2> QED BY <1>5, <2>1, FieldsTame
<1> HIDE DEF n
<1>7. Tame(m, n, x) /\ Unmoved(m, n) /\ Undisturbed(m, n, x)
  BY <1>2, <1>3, <1>6, TameTransitive, UndisturbedTransitive DEF Unmoved
<1> QED BY <1>4, <1>7

\* A child is spawned.  While no superseded activation has spawned one, nobody else has a
\* child that was not told to stop.
LEMMA SpawnTame ==
    ASSUME NEW m, Orderly(m), NEW r \in RunIds, m.turns[r].at = "beginning",
           NEW n, n = [m EXCEPT !.runner = [@ EXCEPT !.policyServer = r, !.process = r],
                                !.turns[r] = [@ EXCEPT !.at = "running", !.child = "live",
                                                       !.late = ~IsCurrent(m, r)]]
    PROVE  Tame(m, n, r) /\ Unmoved(m, n) /\ Undisturbed(m, n, r)
<1> DEFINE late == ~IsCurrent(m, r)
           fields == [m.runner EXCEPT !.policyServer = r, !.process = r]
           turn == [m.turns[r] EXCEPT !.at = "running", !.child = "live", !.late = late]
           k == SetRunner(m, fields)
           j == SetTurn(k, r, turn)
<1>1. /\ m \in Machines /\ m.turns[r] \in Turn /\ m.runner \in Runner
      /\ m.turns \in [RunIds -> Turn]
  BY MachineFields DEF Orderly, Ordered
<1>2. late \in BOOLEAN
  BY DEF IsCurrent
<1>3. n = j
  <2>1. n = [m EXCEPT !.runner = fields, !.turns[r] = turn]
    BY DEF late, fields, turn
  <2> HIDE DEF fields, turn
  <2> QED BY <1>1, <2>1 DEF SetTurn, SetRunner, Machines
<1>4. /\ fields \in Runner
      /\ fields.generation = m.runner.generation /\ fields.taskId = m.runner.taskId
      /\ fields.process = r /\ fields.policyServer = r
      /\ fields.pauseRequested = m.runner.pauseRequested
  BY <1>1 DEF Runner
<1> HIDE DEF late
<1>5. /\ turn \in Turn /\ turn.at = "running" /\ turn.task = m.turns[r].task
      /\ turn.child = "live" /\ (turn.late <=> late)
  BY <1>1, <1>2 DEF Turn, Waits
<1> HIDE DEF fields, turn
<1>6. /\ k \in Machines
      /\ k.state = m.state /\ k.wedged = m.wedged
      /\ k.runner = fields /\ k.turns = m.turns
  BY <1>1, <1>4, SetRunnerEffect
<1> HIDE DEF k
<1>7. /\ j \in Machines
      /\ j.state = k.state /\ j.wedged = k.wedged /\ j.runner = k.runner
      /\ \A x \in RunIds : j.turns[x] = IF x = r THEN turn ELSE k.turns[x]
  BY <1>5, <1>6, SetTurnEffect
<1> HIDE DEF j
<1>8. /\ n \in Machines
      /\ n.state = m.state /\ n.wedged = m.wedged /\ n.runner = fields
      /\ \A x \in RunIds : n.turns[x] = IF x = r THEN turn ELSE m.turns[x]
  BY <1>3, <1>6, <1>7
<1>9. ProcessIsAlive(n)
  BY <1>4, <1>5, <1>8 DEF ProcessIsAlive
<1>10. ActivationsAreRuns(n)
  BY <1>5, <1>8 DEF Orderly, Ordered, ActivationsAreRuns
<1>11. LateIsOut(n)
  <2>1. late => ~IsCurrent(n, r)
    BY <1>4, <1>5, <1>8 DEF IsCurrent, late
  <2>2. ASSUME NEW x \in RunIds, x # r, n.turns[x].late
        PROVE  n.turns[x].at \in {"running", "returned"} /\ ~IsCurrent(n, x)
    BY <1>4, <1>8, <2>2 DEF Orderly, Ordered, LateIsOut, IsCurrent
  <2> QED BY <1>5, <1>8, <2>1, <2>2 DEF LateIsOut
<1>12. CurrentHasTheChild(n)
  <2> SUFFICES ASSUME \A x \in RunIds : ~n.turns[x].late
               PROVE  /\ n.runner.process # None =>
                            /\ n.runner.generation = n.runner.process
                            /\ n.runner.policyServer \in {n.runner.process, None}
                            /\ n.turns[n.runner.process].at = "running"
                      /\ \A x \in RunIds : n.turns[x].child = "live" => n.runner.process = x
    BY DEF CurrentHasTheChild
  <2>1. IsCurrent(m, r)
    BY <1>5, <1>8 DEF late
  <2>2. \A x \in RunIds : ~m.turns[x].late
    BY <1>8 DEF Orderly, Ordered, LateIsOut
  <2>3. /\ m.runner.process # None =>
              /\ m.runner.generation = m.runner.process
              /\ m.runner.policyServer \in {m.runner.process, None}
              /\ m.turns[m.runner.process].at = "running"
        /\ \A x \in RunIds : m.turns[x].child = "live" => m.runner.process = x
    BY <2>2 DEF Orderly, Ordered, CurrentHasTheChild
  <2>4. m.runner.generation = r
    BY <2>1 DEF IsCurrent
  <2>5. m.runner.process = None
    BY <2>3, <2>4
  <2>6. \A x \in RunIds : x # r => n.turns[x].child # "live"
    BY <1>8, <2>3, <2>5, NoneAssumption
  <2> QED BY <1>4, <1>5, <1>8, <2>4, <2>6
<1>13. PauseIsKnown(n)
  BY <1>4, <1>8 DEF Orderly, PauseIsKnown
<1>14. ~n.wedged => StateInvariants(n.state)
  BY <1>8 DEF Orderly, Ordered
<1>17. TaskMatches(n)
  <2>1. m.runner.generation \in RunIds \cup {None}
    BY <1>1 DEF Runner
  <2> QED BY <1>4, <1>5, <1>8, <2>1 DEF Orderly, Ordered, TaskMatches
<1>15. Orderly(n)
  BY <1>8, <1>9, <1>10, <1>11, <1>12, <1>13, <1>14, <1>17 DEF Orderly, Ordered
<1>16. Unmoved(m, n) /\ Undisturbed(m, n, r)
  BY <1>4, <1>5, <1>8 DEF Unmoved, Undisturbed, Waits
<1> QED BY <1>4, <1>8, <1>15, <1>16 DEF Tame

\* A child exits: #process forgets it, and its activation goes on if it is current.
LEMMA ExitTame ==
    ASSUME NEW m, Orderly(m), NEW r \in RunIds, m.turns[r].at = "running",
           NEW n, n = ForgetChild([m EXCEPT !.runner.policyServer = None,
                                            !.turns[r].child = "exited"], r)
    PROVE  LET k == IF IsCurrent(n, r) THEN [n EXCEPT !.turns[r].at = "ending"]
                    ELSE Returned(n, r)
           IN  /\ Tame(m, k, r) /\ Unmoved(m, k)
               /\ Undisturbed(m, k, r) \/ k.turns[r].at = "returned"
<1> DEFINE fields == [m.runner EXCEPT !.policyServer = None,
                                      !.process = IF m.runner.process = r THEN None
                                                  ELSE m.runner.process]
           exited == [m.turns[r] EXCEPT !.child = "exited"]
           k == IF IsCurrent(n, r) THEN [n EXCEPT !.turns[r].at = "ending"] ELSE Returned(n, r)
           turn == IF IsCurrent(n, r) THEN [exited EXCEPT !.at = "ending"]
                   ELSE [exited EXCEPT !.at = "returned", !.attempt = 0]
<1>1. /\ m \in Machines /\ m.turns[r] \in Turn /\ m.runner \in Runner
      /\ m.turns \in [RunIds -> Turn]
  BY MachineFields DEF Orderly, Ordered
<1>2. /\ fields \in Runner
      /\ fields.generation = m.runner.generation /\ fields.taskId = m.runner.taskId
      /\ fields.process = (IF m.runner.process = r THEN None ELSE m.runner.process)
      /\ fields.policyServer = None
      /\ fields.pauseRequested = m.runner.pauseRequested
  BY <1>1 DEF Runner
<1>3. /\ exited \in Turn /\ exited.at = "running" /\ exited.task = m.turns[r].task
      /\ exited.child = "exited" /\ exited.late = m.turns[r].late
  BY <1>1 DEF Turn
<1>4. /\ n \in Machines
      /\ n.state = m.state /\ n.wedged = m.wedged /\ n.runner = fields
      /\ \A x \in RunIds : n.turns[x] = IF x = r THEN exited ELSE m.turns[x]
  <2> DEFINE served == [m.runner EXCEPT !.policyServer = None]
             j == [m EXCEPT !.runner = served, !.turns[r] = exited]
  <2>1. [m EXCEPT !.runner.policyServer = None, !.turns[r].child = "exited"] = j
    BY <1>1 DEF Machines
  <2>2. served \in Runner /\ served.process = m.runner.process
        /\ (m.runner.process = r => [served EXCEPT !.process = None] = fields)
        /\ (m.runner.process # r => served = fields)
    BY <1>1 DEF Runner
  <2> HIDE DEF served, fields, exited
  <2>3. /\ j \in Machines
        /\ j.state = m.state /\ j.wedged = m.wedged /\ j.runner = served
        /\ \A x \in RunIds : j.turns[x] = IF x = r THEN exited ELSE m.turns[x]
    BY <1>1, <1>3, <2>2 DEF Machines
  <2> HIDE DEF j
  <2>4. n = IF m.runner.process = r THEN SetRunner(j, fields) ELSE j
    <3>1. n = ForgetChild(j, r)
      BY <2>1
    <3>2. CASE m.runner.process = r
      BY <2>2, <2>3, <3>1, <3>2 DEF ForgetChild, SetRunner
    <3>3. CASE m.runner.process # r
      BY <2>2, <2>3, <3>1, <3>3 DEF ForgetChild
    <3> QED BY <3>2, <3>3
  <2>5. /\ SetRunner(j, fields) \in Machines
        /\ SetRunner(j, fields).state = j.state /\ SetRunner(j, fields).wedged = j.wedged
        /\ SetRunner(j, fields).runner = fields /\ SetRunner(j, fields).turns = j.turns
    BY <1>2, <2>3, SetRunnerEffect
  <2> QED BY <2>2, <2>3, <2>4, <2>5
<1> HIDE DEF fields, exited
<1>5. n.turns[r] = exited
  BY <1>4
<1>6. k = SetTurn(n, r, turn)
  <2>1. n.turns \in [RunIds -> Turn]
    BY <1>4 DEF Machines
  <2>2. CASE IsCurrent(n, r)
    BY <1>4, <1>5, <2>1, <2>2 DEF SetTurn, Machines
  <2>3. CASE ~IsCurrent(n, r)
    <3>1. k = Returned(n, r) /\ turn = [n.turns[r] EXCEPT !.at = "returned", !.attempt = 0]
      BY <1>5, <2>3
    <3> HIDE DEF k, turn
    <3> QED BY <3>1 DEF SetTurn, Returned
  <2> QED BY <2>2, <2>3
<1>7. /\ turn \in Turn /\ turn.task = m.turns[r].task /\ turn.child = "exited"
      /\ turn.late = m.turns[r].late /\ turn.at \in {"ending", "returned"}
      /\ turn.at = "ending" => IsCurrent(n, r)
  <2>1. 0 \in 0..MaxAttempts
    BY MaxAttemptsAssumption
  <2> QED BY <1>3, <2>1 DEF Turn, Waits
<1>8. IsCurrent(n, r) <=> IsCurrent(m, r)
  BY <1>2, <1>3, <1>4, <1>5 DEF IsCurrent
<1> HIDE DEF turn, k
<1>9. /\ k \in Machines
      /\ k.state = m.state /\ k.wedged = m.wedged /\ k.runner = fields
      /\ \A x \in RunIds : k.turns[x] = IF x = r THEN turn ELSE m.turns[x]
  BY <1>4, <1>6, <1>7, SetTurnEffect
<1>10. ProcessIsAlive(k)
  <2>1. m.runner.process \in RunIds \cup {None}
    BY <1>1 DEF Runner
  <2> QED BY <1>2, <1>9, <2>1 DEF Orderly, Ordered, ProcessIsAlive
<1>11. ActivationsAreRuns(k)
  BY <1>7, <1>9 DEF Orderly, Ordered, ActivationsAreRuns
<1>12. LateIsOut(k)
  <2>1. \A x \in RunIds : IsCurrent(k, x) <=> IsCurrent(m, x)
    BY <1>2, <1>7, <1>9 DEF IsCurrent
  <2> QED BY <1>7, <1>8, <1>9, <2>1 DEF Orderly, Ordered, LateIsOut
<1>13. CurrentHasTheChild(k)
  <2> SUFFICES ASSUME \A x \in RunIds : ~k.turns[x].late
               PROVE  /\ k.runner.process # None =>
                            /\ k.runner.generation = k.runner.process
                            /\ k.runner.policyServer \in {k.runner.process, None}
                            /\ k.turns[k.runner.process].at = "running"
                      /\ \A x \in RunIds : k.turns[x].child = "live" => k.runner.process = x
    BY DEF CurrentHasTheChild
  <2>1. \A x \in RunIds : ~m.turns[x].late
    BY <1>7, <1>9
  <2>2. /\ m.runner.process # None =>
              /\ m.runner.generation = m.runner.process
              /\ m.runner.policyServer \in {m.runner.process, None}
              /\ m.turns[m.runner.process].at = "running"
        /\ \A x \in RunIds : m.turns[x].child = "live" => m.runner.process = x
    BY <2>1 DEF Orderly, Ordered, CurrentHasTheChild
  <2>3. m.runner.process \in RunIds \cup {None}
    BY <1>1 DEF Runner
  <2>4. \A x \in RunIds : k.turns[x].child = "live" => x # r /\ m.turns[x].child = "live"
    BY <1>7, <1>9
  <2> QED BY <1>2, <1>9, <2>2, <2>3, <2>4
<1>14. PauseIsKnown(k)
  BY <1>2, <1>9 DEF Orderly, PauseIsKnown
<1>15. ~k.wedged => StateInvariants(k.state)
  BY <1>9 DEF Orderly, Ordered
<1>18. TaskMatches(k)
  <2>1. m.runner.generation \in RunIds \cup {None}
    BY <1>1 DEF Runner
  <2> QED BY <1>2, <1>7, <1>9, <2>1 DEF Orderly, Ordered, TaskMatches
<1>16. Orderly(k)
  BY <1>9, <1>10, <1>11, <1>12, <1>13, <1>14, <1>15, <1>18 DEF Orderly, Ordered
<1>17. Unmoved(m, k) /\ (Undisturbed(m, k, r) \/ k.turns[r].at = "returned")
  BY <1>2, <1>7, <1>9 DEF Unmoved, Undisturbed, Waits
<1> QED BY <1>2, <1>9, <1>16, <1>17 DEF Tame, k

-----------------------------------------------------------------------------
(* The steps.                                                              *)

\* The fields of the machine, by their names in the module.
LEMMA MachineIs ==
    /\ machine.state = state /\ (machine.wedged <=> wedged)
    /\ machine.runner = runner /\ machine.turns = turns
    /\ machine'.state = state' /\ (machine'.wedged <=> wedged')
    /\ machine'.runner = runner' /\ machine'.turns = turns'
BY DEF machine

\* A step makes a machine of the fields that it assigns.
LEMMA BecomesIs ==
    ASSUME NEW n \in Machines, Becomes(n)
    PROVE  machine' = n
<1>1. n = [state |-> n.state, wedged |-> n.wedged, runner |-> n.runner, turns |-> n.turns]
  BY DEF Machines
<1>2. machine' = [state |-> state', wedged |-> wedged', runner |-> runner', turns |-> turns']
  BY DEF machine
<1> QED BY <1>1, <1>2 DEF Becomes

\* A tame step.
LEMMA BecomesTame ==
    ASSUME NEW n, NEW x, Tame(machine, n, x), Becomes(n)
    PROVE  machine' = n /\ Tame(machine, machine', x)
<1>1. n \in Machines
  BY DEF Tame, Orderly, Ordered
<1> QED BY <1>1, BecomesIs

\* The runner has nothing at first.
LEMMA InitOrderly ==
    ASSUME Init
    PROVE  Orderly(machine)
<1>1. /\ state = EmptyState /\ wedged = FALSE
      /\ runner = [generation |-> None, taskId |-> None, session |-> FALSE, process |-> None,
                   policyServer |-> None, pauseRequested |-> FALSE, policyPause |-> FALSE,
                   killTimers |-> {}]
      /\ \A r \in RunIds : turns[r] = [at |-> "none", task |-> None, child |-> "none",
                                       attempt |-> 0, late |-> FALSE]
      /\ turns = [r \in RunIds |-> [at |-> "none", task |-> None, child |-> "none",
                                    attempt |-> 0, late |-> FALSE]]
  BY DEF Init
<1>2. machine \in Machines
  <2>1. state \in ControllerStates
    BY <1>1, EmptyStateTyped
  <2>2. runner \in Runner
    BY <1>1 DEF Runner
  <2>3. 0 \in 0..MaxAttempts
    BY MaxAttemptsAssumption
  <2>4. turns \in [RunIds -> Turn]
    BY <1>1, <2>3 DEF Turn
  <2> QED BY <1>1, <2>1, <2>2, <2>4 DEF machine, Machines
<1>3. StateInvariants(state)
  BY <1>1, EmptyStateInvariants
<1>4. ProcessIsAlive(machine) /\ PauseIsKnown(machine)
  BY <1>1, NoneAssumption, MachineIs DEF ProcessIsAlive, PauseIsKnown
<1>5. \A r \in RunIds : machine.turns[r].at = "none" /\ ~machine.turns[r].late
                        /\ machine.turns[r].child = "none"
  BY <1>1, MachineIs
<1>6. ActivationsAreRuns(machine) /\ LateIsOut(machine)
  BY <1>5 DEF ActivationsAreRuns, LateIsOut
<1>7. CurrentHasTheChild(machine)
  BY <1>1, <1>5, MachineIs DEF CurrentHasTheChild
<1>8. TaskMatches(machine)
  BY <1>1, MachineIs DEF TaskMatches
<1> QED BY <1>2, <1>3, <1>4, <1>6, <1>7, <1>8, MachineIs DEF Orderly, Ordered

\* The commands of the user that are accepted, with the events they commit.
Orders(s, events) ==
    \/ CanSubmit(s) /\ events = SubmitEvents(s, "fast")
    \/ \E t \in TaskIds :
          LET expected == s.tasks[t].revision
          IN  \/ CanRequestPause(s, t, expected) /\ events = RequestPauseEvents(t)
              \/ CanResume(s, t, expected) /\ events = ResumeEvents(s, t)
              \/ /\ OpenQuestions(s, t) = {} /\ CanCancel(s, t, expected)
                 /\ events = CancelEvents(s, t)
              \/ \E q \in QuestionIds : /\ CanAnswerQuestion(s, t, q, expected)
                                        /\ events = AnswerQuestionEvents(s, t, q)
    \/ \E c \in ConfirmationIds, decision \in {"approve", "reject"} :
          LET t == s.confirmations[c].taskId
          IN  /\ t \in TaskIds /\ CanResolveApproval(s, c, decision, s.tasks[t].revision)
              /\ events = ResolveApprovalEvents(s, c, decision)

\* They are deliberate.
LEMMA OrdersAreDeliberate ==
    ASSUME NEW s \in ControllerStates, NEW events, Orders(s, events)
    PROVE  Deliberate(events)
<1>1. ASSUME NEW t \in TaskIds, CanSubmit(s), events = SubmitEvents(s, "fast")
      PROVE  Deliberate(events)
  BY <1>1, UserIsDeliberate
<1>2. CASE CanSubmit(s) /\ events = SubmitEvents(s, "fast")
  BY <1>1, <1>2 DEF CanSubmit, TaskLeft
<1>3. ASSUME NEW t \in TaskIds, NEW expected,
             \/ CanRequestPause(s, t, expected) /\ events = RequestPauseEvents(t)
             \/ CanResume(s, t, expected) /\ events = ResumeEvents(s, t)
             \/ CanCancel(s, t, expected) /\ events = CancelEvents(s, t)
             \/ \E q \in QuestionIds : /\ CanAnswerQuestion(s, t, q, expected)
                                       /\ events = AnswerQuestionEvents(s, t, q)
      PROVE  Deliberate(events)
  BY <1>3, UserIsDeliberate
<1>4. ASSUME NEW c \in ConfirmationIds, NEW decision \in {"approve", "reject"},
             NEW t \in TaskIds, NEW expected, CanResolveApproval(s, c, decision, expected),
             events = ResolveApprovalEvents(s, c, decision)
      PROVE  Deliberate(events)
  BY <1>4, UserIsDeliberate
<1> QED BY <1>2, <1>3, <1>4 DEF Orders

\* A step of the user is one of them.
LEMMA UserOrders ==
    ASSUME state \in ControllerStates, UserStep
    PROVE  \E events : Orders(state, events) /\ Becomes(Decide(machine, events))
<1>1. ASSUME NEW c \in ConfirmationIds, NEW decision \in {"approve", "reject"},
             ResolveApproval(c, decision)
      PROVE  \E events : Orders(state, events) /\ Becomes(Decide(machine, events))
  <2>1. state.confirmations[c] \in Confirmation
    BY FieldsTyped
  <2>2. state.confirmations[c].taskId \in TaskIds
    BY <1>1, <2>1 DEF ResolveApproval, Confirmation, NoConfirmation
  <2> QED BY <1>1, <2>2 DEF ResolveApproval, Orders, Revision
<1>2. ASSUME Submit
      PROVE  \E events : Orders(state, events) /\ Becomes(Decide(machine, events))
  BY <1>2 DEF Submit, Orders
<1>3. ASSUME NEW t \in TaskIds,
             \/ RequestPause(t) \/ Resume(t) \/ Cancel(t)
             \/ \E q \in QuestionIds : AnswerQuestion(t, q)
      PROVE  \E events : Orders(state, events) /\ Becomes(Decide(machine, events))
  BY <1>3 DEF RequestPause, Resume, Cancel, AnswerQuestion, Orders, Revision
<1> QED BY <1>1, <1>2, <1>3 DEF UserStep

\* A command of the user.
LEMMA UserTame ==
    ASSUME Orderly(machine), ~wedged, UserStep, NEW x
    PROVE  /\ Tame(machine, machine', x)
           /\ \E events : /\ Orders(state, events) /\ Deliberate(events)
                          /\ machine' = Decide(machine, events)
                          /\ Commits(machine, machine', events)
<1>1. ~machine.wedged /\ machine.state = state /\ state \in ControllerStates
  BY MachineIs, MachineFields DEF Orderly, Ordered
<1>2. PICK events : Orders(state, events) /\ Becomes(Decide(machine, events))
  BY <1>1, UserOrders
<1>3. Deliberate(events)
  BY <1>1, <1>2, OrdersAreDeliberate
<1> DEFINE n == Decide(machine, events)
<1>4. Tame(machine, n, x) /\ Commits(machine, n, events)
  BY <1>1, <1>3, DecideTame
<1>5. Becomes(n)
  BY <1>2
<1> HIDE DEF n
<1>6. machine' = n /\ Tame(machine, machine', x)
  BY <1>4, <1>5, BecomesTame
<1> QED BY <1>2, <1>3, <1>4, <1>6 DEF n

\* What the policy decides for a call of the agent, and the session that a run binds.
Asks(s, t, events) ==
    \/ \E f \in Fingerprints :
          \/ CanRequestApproval(s, t, f) /\ events = RequestApprovalEvents(s, t, f)
          \/ \E c \in ConfirmationIds :
                CanConsumeApproval(s, t, c, f) /\ events = ConsumeApprovalEvents(c)
    \/ \E r \in RunIds :
          CanRecordCoderSession(s, t, r) /\ events = RecordCoderSessionEvents(t, r)

\* Such a decision has been committed, or none.
Authorizes(m, n) ==
    \/ Unmoved(m, n)
    \/ \E t \in TaskIds : \E events : Asks(m.state, t, events) /\ Commits(m, n, events)

\* It starts nothing and cancels nothing.
LEMMA AsksLeaveCurrent ==
    ASSUME NEW m, NEW s, NEW t, NEW events, Asks(s, t, events)
    PROVE  LeavesCurrent(m, events)
BY DEF Asks, LeavesCurrent, RequestApprovalEvents, AwaitEvent, ConsumeApprovalEvents,
       RecordCoderSessionEvents, StartTypes

\* Run r has bound its session.
Binds(m, n, r) ==
    LET t == m.turns[r].task
    IN  CanRecordCoderSession(m.state, t, r) /\ Commits(m, n, RecordCoderSessionEvents(t, r))

\* That moves nothing else.
LEMMA BindTame ==
    ASSUME NEW m, Orderly(m), ~m.wedged, NEW r \in RunIds, m.turns[r].at # "none",
           CanBind(m, r), NEW x
    PROVE  LET n == Bind(m, r)
           IN  /\ Tame(m, n, x) /\ Undisturbed(m, n, x)
               /\ Binds(m, n, r) /\ Authorizes(m, n)
               /\ n.turns[r].at = m.turns[r].at /\ n.turns[r].task = m.turns[r].task
<1> DEFINE t == m.turns[r].task
           events == RecordCoderSessionEvents(t, r)
           n == Decide(m, events)
<1>1. m.state \in ControllerStates /\ t \in TaskIds
  BY SettledTask
<1>2. Deliberate(events)
  BY <1>1, RunnerIsDeliberate
<1>3. Asks(m.state, t, events)
  BY DEF Asks, CanBind
<1>4. LeavesCurrent(m, events)
  BY <1>3, AsksLeaveCurrent
<1>5. /\ Tame(m, n, x) /\ Commits(m, n, events)
      /\ \A q \in RunIds : m.turns[q].at # "none" =>
            n.turns[q].at = m.turns[q].at /\ n.turns[q].task = m.turns[q].task
  BY <1>2, DecideTame
<1>6. Undisturbed(m, n, None)
  BY <1>2, <1>4, DecideUndisturbed
<1>7. Bind(m, r) = n
  BY DEF Bind
<1>8. Binds(m, n, r)
  BY <1>5 DEF Binds, CanBind
<1>9. Authorizes(m, n)
  BY <1>1, <1>3, <1>5 DEF Authorizes
<1> HIDE DEF n
<1>10. Undisturbed(m, n, x)
  BY <1>5, <1>6 DEF Undisturbed
<1> QED BY <1>5, <1>7, <1>8, <1>9, <1>10

\* What an agent may do to the machine.
Fine(m, n) == Tame(m, n, None) /\ Undisturbed(m, n, None) /\ Authorizes(m, n)

\* What follows it does not touch the controller.
LEMMA FineThenUnmoved ==
    ASSUME NEW m, NEW n, NEW k, Fine(m, n),
           Tame(n, k, None), Unmoved(n, k), Undisturbed(n, k, None)
    PROVE  Fine(m, k)
<1>1. Tame(m, k, None) /\ Undisturbed(m, k, None)
  BY TameTransitive, UndisturbedTransitive DEF Fine
<1>2. Authorizes(m, k)
  BY DEF Fine, Authorizes, Unmoved, Commits
<1> QED BY <1>1, <1>2 DEF Fine

\* The agent names its session: it is bound, or the child is told to stop.
LEMMA SessionNamedFine ==
    ASSUME NEW m, Orderly(m), ~m.wedged, NEW r \in RunIds, m.turns[r].at # "none"
    PROVE  Fine(m, SessionNamed(m, r)) /\ Fine(m, Kill(SessionNamed(m, r), r))
<1> DEFINE k == IF CanBind(m, r) THEN Bind(m, r) ELSE Kill(m, m.runner.process)
           named == [k.runner EXCEPT !.session = TRUE]
           n == SetRunner(k, named)
<1>1. m.runner.process \in RunIds \cup {None}
  BY MachineFields DEF Orderly, Ordered, Runner
<1>2. Fine(m, k)
  <2>1. CASE CanBind(m, r)
    BY <2>1, BindTame DEF Fine
  <2>2. CASE ~CanBind(m, r)
    BY <1>1, <2>2, KillTame DEF Fine, Authorizes
  <2> QED BY <2>1, <2>2
<1>3. SessionNamed(m, r) = n
  BY DEF SessionNamed, SetRunner
<1> HIDE DEF k
<1>4. Orderly(k) /\ k.runner \in Runner
  BY <1>2, MachineFields DEF Fine, Tame, Orderly, Ordered
<1>5. /\ named \in Runner
      /\ named.generation = k.runner.generation /\ named.taskId = k.runner.taskId
      /\ named.process = k.runner.process /\ named.policyServer = k.runner.policyServer
      /\ named.pauseRequested = k.runner.pauseRequested
  BY <1>4 DEF Runner
<1> HIDE DEF named
<1>6. Tame(k, n, None) /\ Unmoved(k, n) /\ Undisturbed(k, n, None)
  BY <1>4, <1>5, FieldsTame
<1> HIDE DEF n
<1>7. Fine(m, n) /\ Orderly(n)
  BY <1>2, <1>6, FineThenUnmoved DEF Tame
<1>8. Fine(m, Kill(n, r))
  BY <1>7, KillTame, FineThenUnmoved
<1> QED BY <1>3, <1>7, <1>8

\* A call of the agent, or a line of its output, moves no activation.
LEMMA AgentOrderly ==
    ASSUME Orderly(machine), ~wedged, NEW r \in RunIds, AgentStep(r)
    PROVE  /\ Orderly(machine')
           /\ \A q \in RunIds : turns[q].at # "none" => turns'[q].at = turns[q].at
           /\ Undisturbed(machine, machine', None) /\ Authorizes(machine, machine')
<1> DEFINE Calm == /\ Orderly(machine')
                   /\ \A q \in RunIds : turns[q].at # "none" => turns'[q].at = turns[q].at
                   /\ Undisturbed(machine, machine', None) /\ Authorizes(machine, machine')
<1>1. /\ ~machine.wedged /\ machine.state = state /\ state \in ControllerStates
      /\ machine.turns = turns /\ machine.runner = runner
  BY MachineIs, MachineFields DEF Orderly, Ordered
<1>2. ASSUME NEW n, Fine(machine, n), Becomes(n)
      PROVE  Calm
  <2>1. machine' = n /\ Tame(machine, machine', None)
    BY <1>2, BecomesTame DEF Fine
  <2> QED BY <1>2, <2>1, MachineIs, NoneAssumption DEF Tame, Fine
<1>3. Fine(machine, machine)
  BY DEF Fine, Tame, Undisturbed, Unmoved, Authorizes
<1>4. ASSUME NEW m, Fine(machine, m)
      PROVE  Fine(machine, Refused(m, r))
  <2>1. Orderly(m)
    BY <1>4 DEF Fine, Tame
  <2>2. Tame(m, Refused(m, r), None) /\ Unmoved(m, Refused(m, r))
        /\ Undisturbed(m, Refused(m, r), None)
    BY <2>1, RefusedTame
  <2> QED BY <1>4, <2>2, FineThenUnmoved
<1>5. ASSUME NEW t \in TaskIds, NEW events, Asks(state, t, events), Deliberate(events)
      PROVE  Fine(machine, Decide(machine, events))
  <2> DEFINE m == Decide(machine, events)
  <2>1. Tame(machine, m, None) /\ Commits(machine, m, events)
    BY <1>1, <1>5, DecideTame
  <2>2. LeavesCurrent(machine, events)
    BY <1>5, AsksLeaveCurrent
  <2>3. Undisturbed(machine, m, None)
    BY <1>5, <2>2, DecideUndisturbed
  <2> HIDE DEF m
  <2>4. Authorizes(machine, m)
    BY <1>1, <1>5, <2>1 DEF Authorizes
  <2> QED BY <2>1, <2>3, <2>4 DEF m, Fine
<1> HIDE DEF Calm
<1>6. CASE RoutineCall(r)
  <2>1. Becomes(machine) \/ Becomes(Refused(machine, r))
    BY <1>6 DEF RoutineCall
  <2>2. Calm
    BY <1>2, <1>3, <1>4, <2>1
  <2> QED BY <2>2 DEF Calm
<1>7. CASE ForbiddenCall(r)
  <2>1. Calm
    BY <1>2, <1>3, <1>4, <1>7 DEF ForbiddenCall
  <2> QED BY <2>1 DEF Calm
<1>8. ASSUME NEW fingerprint \in Fingerprints, SensitiveCall(r, fingerprint)
      PROVE  Calm
  <2> DEFINE t == HookTask(r)
  <2>1. t \in TaskIds
    <3>1. turns[r].at = "running"
      BY <1>8 DEF SensitiveCall, Alive
    <3> QED BY <1>1, <3>1, SettledTask DEF HookTask
  <2>2. ASSUME InRun(state, t), NEW c \in Confirmations(state, t, fingerprint, "approved"),
               Becomes(Decide(machine, ConsumeApprovalEvents(c)))
        PROVE  Calm
    <3>1. c \in ConfirmationIds
      BY <2>2 DEF Confirmations
    <3>2. Deliberate(ConsumeApprovalEvents(c))
      BY <1>1, <2>1, <3>1, RunnerIsDeliberate
    <3>3. Asks(state, t, ConsumeApprovalEvents(c))
      BY <2>2, <3>1 DEF Asks, CanConsumeApproval
    <3>4. Fine(machine, Decide(machine, ConsumeApprovalEvents(c)))
      <4> HIDE DEF t
      <4> QED BY <1>5, <2>1, <3>2, <3>3
    <3> QED BY <1>2, <2>2, <3>4
  <2>3. ASSUME CanRequestApproval(state, t, fingerprint),
               Becomes(Refused(Decide(machine, RequestApprovalEvents(state, t, fingerprint)), r))
        PROVE  Calm
    <3>1. Deliberate(RequestApprovalEvents(state, t, fingerprint))
      BY <1>1, <2>1, <2>3, RunnerIsDeliberate
    <3>2. Asks(state, t, RequestApprovalEvents(state, t, fingerprint))
      BY <2>3 DEF Asks
    <3>3. Fine(machine, Decide(machine, RequestApprovalEvents(state, t, fingerprint)))
      <4> HIDE DEF t
      <4> QED BY <1>5, <2>1, <3>1, <3>2
    <3> QED BY <1>2, <1>4, <2>3, <3>3
  <2>4. CASE Becomes(Refused(machine, r))
    BY <1>2, <1>3, <1>4, <2>4
  <2> QED BY <1>8, <2>2, <2>3, <2>4 DEF SensitiveCall
<1>9. CASE OutputLine(r)
  <2>1. turns[r].at # "none"
    BY <1>9 DEF OutputLine, Alive
  <2>2. Fine(machine, TurnStopped(machine, r)) /\ Fine(machine, Kill(machine, r))
    BY TurnStoppedTame, KillTame DEF Fine, Authorizes
  <2>3. Fine(machine, SessionNamed(machine, r)) /\ Fine(machine, Kill(SessionNamed(machine, r), r))
    BY <1>1, <2>1, SessionNamedFine
  <2>4. \/ Becomes(TurnStopped(machine, r)) \/ Becomes(Kill(machine, r))
        \/ Becomes(SessionNamed(machine, r)) \/ Becomes(Kill(SessionNamed(machine, r), r))
    BY <1>1, <1>9 DEF OutputLine, TurnStopped
  <2>5. Calm
    BY <1>2, <2>2, <2>3, <2>4
  <2> QED BY <2>5 DEF Calm
<1> QED BY <1>6, <1>7, <1>8, <1>9 DEF AgentStep, Calm

\* The activation of r goes on, or it returns; then it has made at most one signal.  It
\* may bind its session and find that it is superseded.
Goes(m, n, r) ==
    /\ Tame(m, n, r)
    /\ \/ /\ Signals(m, n, m.turns[r].task)
          /\ \/ Unmoved(m, n) /\ Undisturbed(m, n, r)
             \/ m.turns[r].at # "returned" /\ n.turns[r].at = "returned"
       \/ /\ Binds(m, n, r)
          /\ \/ Undisturbed(m, n, r)
             \/ /\ m.turns[r].at # "returned" /\ n.turns[r].at = "returned"
                /\ ~IsCurrent(m, r)

\* That is what each of its steps does.
LEMMA ProceedsTame ==
    ASSUME Orderly(machine), ~wedged, NEW r \in RunIds, Proceeds(r)
    PROVE  Tame(machine, machine', r) /\ Goes(machine, machine', r)
<1>1. ~machine.wedged /\ machine.state = state /\ machine.runner = runner /\ machine.turns = turns
  BY MachineIs
<1>2. runner \in Runner
  BY <1>1, MachineFields DEF Orderly, Ordered
<1>3. turns[r].at # "returned"
  BY <1>1 DEF Proceeds, GuardStarted, TurnBegins, ChildExits, Alive, TurnEnds, Reconciled
<1>4. ASSUME NEW n, Becomes(n), Tame(machine, n, r), Signals(machine, n, turns[r].task),
             \/ Unmoved(machine, n) /\ Undisturbed(machine, n, r)
             \/ n.turns[r].at = "returned"
      PROVE  Tame(machine, machine', r) /\ Goes(machine, machine', r)
  <2>1. machine' = n /\ Tame(machine, machine', r)
    BY <1>4, BecomesTame
  <2> QED BY <1>1, <1>3, <1>4, <2>1 DEF Goes
<1>5. ASSUME turns[r].at \in {"starting", "reconciling"}, Becomes(RunTurn(machine, r))
      PROVE  Tame(machine, machine', r) /\ Goes(machine, machine', r)
  <2> DEFINE n == RunTurn(machine, r)
  <2>1. /\ Tame(machine, n, r) /\ Unmoved(machine, n)
        /\ Undisturbed(machine, n, r) \/ n.turns[r].at = "returned"
    BY <1>1, <1>5, RunTurnTame
  <2>2. Becomes(n)
    BY <1>5
  <2> HIDE DEF n
  <2> QED BY <1>4, <2>1, <2>2 DEF Signals
<1>9. ASSUME turns[r].at = "starting", CanBind(machine, r),
             Becomes(RunTurn(Bind(machine, r), r))
      PROVE  Tame(machine, machine', r) /\ Goes(machine, machine', r)
  <2> DEFINE m == Bind(machine, r)
             n == RunTurn(m, r)
  <2>1. /\ Tame(machine, m, r) /\ Undisturbed(machine, m, r) /\ Binds(machine, m, r)
        /\ m.turns[r].at = "starting" /\ m.turns[r].task = turns[r].task
    BY <1>1, <1>9, BindTame
  <2>2. Orderly(m)
    BY <2>1 DEF Tame
  <2> HIDE DEF m
  <2>3. /\ Tame(m, n, r) /\ Unmoved(m, n)
        /\ Undisturbed(m, n, r) \/ (~IsCurrent(m, r) /\ n.turns[r].at = "returned")
    BY <2>1, <2>2, RunTurnTame
  <2>4. IsCurrent(m, r) <=> IsCurrent(machine, r)
    BY <1>1, <2>1 DEF IsCurrent, Undisturbed
  <2>5. Becomes(n)
    BY <1>9 DEF m
  <2> HIDE DEF n
  <2>6. Binds(machine, n, r)
    BY <2>1, <2>3 DEF Binds, Commits, Unmoved
  <2>7. Tame(machine, n, r)
    BY <2>1, <2>3, TameTransitive
  <2>8. Undisturbed(machine, n, r) \/ (~IsCurrent(machine, r) /\ n.turns[r].at = "returned")
    BY <2>1, <2>3, <2>4, UndisturbedTransitive
  <2>9. machine' = n /\ Tame(machine, machine', r)
    BY <2>5, <2>7, BecomesTame
  <2> QED BY <1>1, <1>3, <2>6, <2>8, <2>9 DEF Goes
<1>10. CASE GuardStarted(r)
  <2>1. turns[r].at = "starting" /\ Settled(machine, r)
    BY <1>1, <1>10 DEF GuardStarted, Settled
  <2>2. CASE Becomes(Fail(machine, r))
    <3> DEFINE n == Fail(machine, r)
    <3>1. Tame(machine, n, r) /\ Signals(machine, n, turns[r].task) /\ n.turns[r].at = "returned"
      BY <1>1, <2>1, FailTame
    <3>2. Becomes(n)
      BY <2>2
    <3> HIDE DEF n
    <3> QED BY <1>4, <3>1, <3>2
  <2> QED BY <1>5, <1>9, <1>10, <2>1, <2>2 DEF GuardStarted
<1>11. CASE Reconciled(r)
  BY <1>5, <1>11 DEF Reconciled
<1>6. CASE TurnBegins(r)
  <2>1. turns[r].at = "beginning" /\ Settled(machine, r)
    BY <1>1, <1>6 DEF TurnBegins, Settled
  <2>2. CASE Becomes(ReportConflict(machine, r))
    <3> DEFINE n == ReportConflict(machine, r)
    <3>1. /\ Tame(machine, n, r) /\ Signals(machine, n, machine.turns[r].task)
          /\ n.turns[r].at = "returned"
      BY <1>1, <2>1, ReportConflictTame
    <3> HIDE DEF n
    <3> QED BY <1>1, <1>4, <2>2, <3>1 DEF n
  <2>3. ASSUME NEW server \in {runner.policyServer, None},
               Becomes(Fail([machine EXCEPT !.runner.policyServer = server], r))
        PROVE  Tame(machine, machine', r) /\ Goes(machine, machine', r)
    <3> DEFINE m == [machine EXCEPT !.runner.policyServer = server]
               n == Fail(m, r)
    <3>1. server \in {machine.runner.policyServer, None}
      BY <1>1, <2>3
    <3>2. /\ Tame(machine, m, r) /\ m.state = machine.state /\ m.wedged = machine.wedged
          /\ m.turns = machine.turns
      BY <3>1, ServerTame
    <3> HIDE DEF m
    <3>3. Orderly(m) /\ ~m.wedged /\ Settled(m, r)
      BY <1>1, <2>1, <3>2 DEF Tame, Settled
    <3>4. Tame(m, n, r) /\ Signals(m, n, m.turns[r].task) /\ n.turns[r].at = "returned"
      BY <3>3, FailTame
    <3>5. Becomes(n)
      BY <2>3 DEF m
    <3> HIDE DEF n
    <3>6. Tame(machine, n, r)
      BY <3>2, <3>4, TameTransitive
    <3>7. Unmoved(machine, m)
      BY <3>2 DEF Unmoved
    <3>8. Signals(machine, n, turns[r].task)
      BY <1>1, <3>2, <3>4, <3>7, UnmovedThenSignals
    <3> QED BY <1>4, <3>4, <3>5, <3>6, <3>8
  <2> DEFINE n == [machine EXCEPT
                      !.runner = [@ EXCEPT !.policyServer = r, !.process = r],
                      !.turns[r] = [@ EXCEPT !.at = "running", !.child = "live",
                                             !.late = ~IsCurrent(machine, r)]]
  <2>4. CASE Becomes(n)
    <3>1. Tame(machine, n, r) /\ Unmoved(machine, n) /\ Undisturbed(machine, n, r)
      BY <1>1, <2>1, SpawnTame
    <3> HIDE DEF n
    <3> QED BY <1>4, <2>4, <3>1 DEF Signals
  <2> QED BY <1>6, <2>2, <2>3, <2>4 DEF TurnBegins
<1>7. CASE ChildExits(r)
  <2> DEFINE m == ForgetChild([machine EXCEPT !.runner.policyServer = None,
                                              !.turns[r].child = "exited"], r)
             n == IF IsCurrent(m, r) THEN [m EXCEPT !.turns[r].at = "ending"] ELSE Returned(m, r)
  <2>1. machine.turns[r].at = "running"
    BY <1>1, <1>7 DEF ChildExits, Alive
  <2>2. /\ Tame(machine, n, r) /\ Unmoved(machine, n)
        /\ Undisturbed(machine, n, r) \/ n.turns[r].at = "returned"
    BY <2>1, ExitTame
  <2>3. Becomes(n)
    BY <1>7 DEF ChildExits
  <2> HIDE DEF n
  <2> QED BY <1>4, <2>2, <2>3 DEF Signals
<1>8. CASE TurnEnds(r)
  <2> DEFINE GoneOut(n) == /\ Tame(machine, n, r) /\ Signals(machine, n, turns[r].task)
                           /\ \/ Unmoved(machine, n) /\ Undisturbed(machine, n, r)
                              \/ n.turns[r].at = "returned"
  <2>1. turns[r].at = "ending" /\ Settled(machine, r)
    BY <1>1, <1>8 DEF TurnEnds, Settled
  <2>2. GoneOut(ReportConflict(machine, r)) /\ GoneOut(SafePause(machine, r))
    BY <1>1, <2>1, ReportConflictTame, SafePauseTame
  <2>3. GoneOut(EvidenceIsRefused(machine, r)) /\ GoneOut(Fail(machine, r))
    BY <1>1, <2>1, EvidenceIsRefusedTame, FailTame
  <2>4. GoneOut(Complete(machine, r)) /\ GoneOut(TryAgain(machine, r))
    BY <1>1, <2>1, CompleteTame, TryAgainTame
  <2>5. \A q \in QuestionIds : GoneOut(AskUser(machine, r, q))
    BY <1>1, <2>1, AskUserTame
  <2> HIDE DEF GoneOut
  <2>6. \E n : GoneOut(n) /\ Becomes(n)
    BY <1>8, <2>2, <2>3, <2>4, <2>5 DEF TurnEnds
  <2> QED BY <1>4, <2>6 DEF GoneOut
<1> QED BY <1>6, <1>7, <1>8, <1>10, <1>11 DEF Proceeds

\* The timer of a refused call.
LEMMA TimerTame ==
    ASSUME Orderly(machine), NEW r \in RunIds, KillTimerFires(r)
    PROVE  /\ Tame(machine, machine', None) /\ Unmoved(machine, machine')
           /\ Undisturbed(machine, machine', None)
<1> DEFINE n == [Kill(machine, runner.process) EXCEPT !.runner.killTimers = @ \ {r}]
<1>1. Tame(machine, n, None) /\ Unmoved(machine, n) /\ Undisturbed(machine, n, None)
  BY KillTimerTame, MachineIs
<1>2. Becomes(n)
  BY DEF KillTimerFires
<1> HIDE DEF n
<1> QED BY <1>1, <1>2, BecomesTame

\* Every step keeps the machine orderly.
LEMMA StepOrderly ==
    ASSUME Orderly(machine), [Next]_vars
    PROVE  Orderly(machine')
<1>1. CASE UNCHANGED vars
  <2>1. machine' = machine
    BY <1>1 DEF vars, machine
  <2> QED BY <2>1
<1>2. CASE UserStep /\ ~wedged
  BY <1>2, UserTame DEF Tame
<1>3. ASSUME NEW r \in RunIds, ~wedged, AgentStep(r)
      PROVE  Orderly(machine')
  BY <1>3, AgentOrderly
<1>4. ASSUME NEW r \in RunIds, ~wedged, Proceeds(r)
      PROVE  Orderly(machine')
  <2>1. Tame(machine, machine', r)
    BY <1>4, ProceedsTame
  <2> QED BY <2>1 DEF Tame
<1>5. ASSUME NEW r \in RunIds, KillTimerFires(r)
      PROVE  Orderly(machine')
  <2>1. Tame(machine, machine', None)
    BY <1>5, TimerTame
  <2> QED BY <2>1 DEF Tame
<1> QED BY <1>1, <1>2, <1>3, <1>4, <1>5 DEF Next

\* A step other than one of the agent of r, or of its activation, moves no activation but
\* that of q; and only a call of an agent authorizes.
LEMMA OtherSteps ==
    ASSUME Orderly(machine), Next
    PROVE  \/ \E r \in RunIds : AgentStep(r)
           \/ \E x \in RunIds \cup {None} : Tame(machine, machine', x) /\ (x = None \/ Proceeds(x))
<1>1. ~wedged
  BY DEF Next
<1>2. CASE UserStep
  BY <1>1, <1>2, UserTame
<1>3. ASSUME NEW r \in RunIds, Proceeds(r)
      PROVE  Tame(machine, machine', r)
  BY <1>1, <1>3, ProceedsTame
<1>4. ASSUME NEW r \in RunIds, KillTimerFires(r)
      PROVE  Tame(machine, machine', None)
  BY <1>4, TimerTame
<1> QED BY <1>2, <1>3, <1>4 DEF Next

-----------------------------------------------------------------------------
(* The theorems.                                                           *)

\* The machine is orderly in every reachable state.
THEOREM AlwaysOrderly == Spec => []Orderly(machine)
<1>1. Init => Orderly(machine)
  BY InitOrderly
<1>2. Orderly(machine) /\ [Next]_vars => Orderly(machine)'
  <2>1. Orderly(machine') <=> Orderly(machine)'
    BY DEF Orderly, Ordered, ProcessIsAlive, ActivationsAreRuns, LateIsOut, CurrentHasTheChild,
           TaskMatches, PauseIsKnown, IsCurrent
  <2> QED BY <2>1, StepOrderly
<1> QED BY <1>1, <1>2, PTL DEF Spec

\* The fields of the runner are well formed, and #process is never a child that has exited.
THEOREM TypeCorrect == Spec => []TypeOK
<1>1. Orderly(machine) => TypeOK
  <2> SUFFICES ASSUME Orderly(machine)
               PROVE  TypeOK
    OBVIOUS
  <2>1. /\ state \in ControllerStates /\ wedged \in BOOLEAN /\ runner \in Runner
        /\ turns \in [RunIds -> Turn]
    <3>1. machine \in Machines /\ machine.wedged \in BOOLEAN
      BY MachineFields DEF Orderly, Ordered
    <3>2. machine.wedged = wedged
      BY Zenon DEF machine
    <3>3. wedged \in BOOLEAN
      BY <3>1, <3>2, Zenon
    <3> QED BY <3>1, <3>3, MachineFields, MachineIs
  <2>2. runner.process # None => turns[runner.process].child \in {"live", "stopping"}
    BY MachineIs DEF Orderly, Ordered, ProcessIsAlive
  <2> QED BY <2>1, <2>2 DEF TypeOK, Runner, Turn
<1> QED BY <1>1, AlwaysOrderly, PTL

\* One mutating job, for as long as no superseded activation has spawned a child.
THEOREM OneCoder == Spec => []AtMostOneCoder
<1>1. Orderly(machine) => AtMostOneCoder
  BY MachineIs DEF Orderly, Ordered, CurrentHasTheChild, AtMostOneCoder
<1> QED BY <1>1, AlwaysOrderly, PTL

\* The turn that a pause interrupts neither fails nor completes the task.
THEOREM PausesAreNotFailures == Spec => PauseIsNotFailure
<1> DEFINE Interrupted(t) ==
               LET r == state.tasks[t].activeRunId
               IN  StateOf(t) = "pause_requested" /\ WorkedOn(t) /\ turns[r].at = "ending"
                      /\ turns'[r].at # "ending"
           Kept == \A t \in TaskIds : Interrupted(t) => StateOf(t)' \notin {"failed", "completed"}
<1>1. Orderly(machine) /\ [Next]_vars => [Kept]_vars
  <2> SUFFICES ASSUME Orderly(machine), Next, NEW t \in TaskIds, Interrupted(t)
               PROVE  StateOf(t)' \notin {"failed", "completed"}
    OBVIOUS
  <2> DEFINE r == state.tasks[t].activeRunId
  <2>1. /\ state.tasks[t].state = "pause_requested" /\ r # None
        /\ IsCurrent(machine, r) /\ turns[r].at = "ending" /\ turns'[r].at # "ending"
    BY DEF StateOf, WorkedOn
  <2>2. ~wedged /\ ~machine.wedged /\ state \in ControllerStates /\ StateInvariants(state)
    BY MachineIs, MachineFields DEF Next, Orderly, Ordered
  <2>3. r \in RunIds
    BY <2>1, <2>2, FieldsTyped DEF Task
  <2>4. turns[r].task = t
    <3>1. state.runs[r].taskId = t
      BY <2>1, <2>2 DEF StateInvariants
    <3> QED BY <2>1, <2>3, <3>1, MachineIs DEF Orderly, Ordered, ActivationsAreRuns
  <2>5. runner.pauseRequested
    <3>1. runner.taskId = t
      BY <2>1, <2>4, MachineIs DEF IsCurrent
    <3> QED BY <2>1, <2>2, <3>1, MachineIs DEF Orderly, PauseIsKnown
  <2>6. TurnEnds(r)
    <3> HIDE DEF r
    <3>1. ASSUME NEW q \in RunIds, AgentStep(q)
          PROVE  FALSE
      BY <2>1, <2>2, <2>3, <3>1, AgentOrderly
    <3>2. ASSUME NEW x, Tame(machine, machine', x)
          PROVE  x = r
      BY <2>1, <2>3, <3>2, MachineIs DEF Tame
    <3>3. Proceeds(r)
      BY <2>1, <3>1, <3>2, OtherSteps
    <3> QED BY <2>1, <3>3 DEF Proceeds, GuardStarted, TurnBegins, ChildExits, Alive, Reconciled
  <2>7. Settled(machine, r)
    BY <2>1, MachineIs DEF Settled
  <2> HIDE DEF r
  <2>8. CASE Becomes(ReportConflict(machine, r))
    <3>1. ReportConflict(machine, r).state = machine.state
      BY <2>1, <2>2, <2>3, <2>4, <2>7, ReportConflictTame, MachineIs
    <3>2. state' = state
      BY <2>8, <3>1, MachineIs DEF Becomes
    <3> QED BY <2>1, <3>2 DEF StateOf
  <2>9. CASE Becomes(SafePause(machine, r))
    <3>1. \/ SafePause(machine, r).state.tasks[t] = machine.state.tasks[t]
          \/ SafePause(machine, r).state.tasks[t].state = "paused"
      BY <2>2, <2>3, <2>7, SafePauseTame
    <3>2. state'.tasks[t] = state.tasks[t] \/ state'.tasks[t].state = "paused"
      BY <2>9, <3>1, MachineIs DEF Becomes
    <3> QED BY <2>1, <3>2 DEF StateOf
  <2> QED BY <2>5, <2>6, <2>8, <2>9 DEF TurnEnds
<1> QED BY <1>1, AlwaysOrderly, PTL DEF Spec, PauseIsNotFailure, Kept
-----------------------------------------------------------------------------
(* The controller under the runner is the TaskController, of which no      *)
(* bound is left: any revision can be expected, and runs are interrupted   *)
(* whatever ids remain.                                                    *)

Controller == INSTANCE TaskControllerProofs WITH
    Revisions <- Nat, Revisable <- Nat, SparesRuns <- FALSE

(* The operators of the instance are those of this module: the constants   *)
(* they take are the same.                                                 *)

\* The queue.
LEMMA SameQueue ==
    /\ \A q, t : Controller!RemoveFromQueue(q, t) = RemoveFromQueue(q, t)
    /\ \A q, t, p : Controller!InsertInQueue(q, t, p) = InsertInQueue(q, t, p)
BY DEF Controller!RemoveFromQueue, RemoveFromQueue, Controller!InsertInQueue,
       InsertInQueue, Controller!RemoveAt, RemoveAt, Controller!InsertAt, InsertAt

\* What the events are made of.
LEMMA SameParts ==
    /\ \A s, t, task : Controller!SetTask(s, t, task) = SetTask(s, t, task)
    /\ \A s, r, x : Controller!EndRun(s, r, x) = EndRun(s, r, x)
    /\ \A s, c, x : Controller!SetConfirmation(s, c, x) = SetConfirmation(s, c, x)
BY DEF Controller!SetTask, SetTask, Controller!EndRun, EndRun,
       Controller!SetConfirmation, SetConfirmation

\* The end of a task.
LEMMA SameRetire ==
    ASSUME NEW s, NEW t, NEW x
    PROVE  Controller!Retire(s, t, x) = Retire(s, t, x)
<1> DEFINE task == [s.tasks[t] EXCEPT !.state = x, !.activeRunId = None,
                                      !.pendingQuestion = FALSE]
<1>1. Controller!SetTask(s, t, task) = SetTask(s, t, task)
  BY SameParts
<1>2. Controller!RemoveFromQueue(s.queue, t) = RemoveFromQueue(s.queue, t)
  BY SameQueue
<1> QED BY <1>1, <1>2 DEF Controller!Retire, Retire

\* A change of a task's specification is the same in both.
LEMMA SameRevised ==
    ASSUME NEW s, NEW e
    PROVE  Controller!TaskSpecRevised(s, e) = TaskSpecRevised(s, e)
BY SameParts DEF Controller!TaskSpecRevised, TaskSpecRevised

\* applyEvent.
LEMMA SameApply ==
    ASSUME NEW s, NEW e
    PROVE  Controller!Apply(s, e) = Apply(s, e)
<1>1. Controller!TaskCreated(s, e) = TaskCreated(s, e)
  BY SameParts DEF Controller!TaskCreated, TaskCreated, Controller!NoTask, NoTask
<1>2. Controller!TaskEnqueued(s, e) = TaskEnqueued(s, e)
  BY SameQueue, SameParts DEF Controller!TaskEnqueued, TaskEnqueued
<1>3. Controller!TaskStarted(s, e) = TaskStarted(s, e)
  BY SameQueue, SameParts DEF Controller!TaskStarted, TaskStarted
<1>4. Controller!TaskPauseRequested(s, e) = TaskPauseRequested(s, e)
  BY SameParts DEF Controller!TaskPauseRequested, TaskPauseRequested
<1>5. Controller!TaskPaused(s, e) = TaskPaused(s, e)
  BY SameParts DEF Controller!TaskPaused, TaskPaused
<1>6. Controller!TaskAwaitingUser(s, e) = TaskAwaitingUser(s, e)
  BY SameParts DEF Controller!TaskAwaitingUser, TaskAwaitingUser
<1>7. Controller!TaskQuestionAsked(s, e) = TaskQuestionAsked(s, e)
  BY <1>6 DEF Controller!TaskQuestionAsked, TaskQuestionAsked
<1>8. Controller!TaskQuestionAnswered(s, e) = TaskQuestionAnswered(s, e)
  BY DEF Controller!TaskQuestionAnswered, TaskQuestionAnswered
<1>9. Controller!CoderSessionBound(s, e) = CoderSessionBound(s, e)
  BY SameParts DEF Controller!CoderSessionBound, CoderSessionBound
<1>10. Controller!CoderRecoveryBoundary(s, e) = CoderRecoveryBoundary(s, e)
  BY SameParts DEF Controller!CoderRecoveryBoundary, CoderRecoveryBoundary
<1>11. Controller!TaskSpecRevised(s, e) = TaskSpecRevised(s, e)
  BY SameRevised
<1>12. Controller!TaskCompleted(s, e) = TaskCompleted(s, e)
  BY SameParts, SameRetire DEF Controller!TaskCompleted, TaskCompleted
<1>13. Controller!TaskFailed(s, e) = TaskFailed(s, e)
  BY SameParts, SameRetire DEF Controller!TaskFailed, TaskFailed
<1>14. Controller!TaskCancelled(s, e) = TaskCancelled(s, e)
  BY SameParts, SameRetire DEF Controller!TaskCancelled, TaskCancelled
<1>15. Controller!RunInterrupted(s, e) = RunInterrupted(s, e)
  BY SameParts DEF Controller!RunInterrupted, RunInterrupted
<1>16. Controller!WorkspaceConflictDetected(s, e) = WorkspaceConflictDetected(s, e)
  BY SameParts DEF Controller!WorkspaceConflictDetected, WorkspaceConflictDetected
<1>17. Controller!WorkspaceConflictResolved(s, e) = WorkspaceConflictResolved(s, e)
  BY SameParts DEF Controller!WorkspaceConflictResolved, WorkspaceConflictResolved
<1>18. Controller!ApprovalRequested(s, e) = ApprovalRequested(s, e)
  BY DEF Controller!ApprovalRequested, ApprovalRequested
<1>19. Controller!ApprovalResolved(s, e) = ApprovalResolved(s, e)
  BY SameParts DEF Controller!ApprovalResolved, ApprovalResolved
<1>20. Controller!ApprovalConsumed(s, e) = ApprovalConsumed(s, e)
  BY SameParts DEF Controller!ApprovalConsumed, ApprovalConsumed
<1>21. Controller!QueueReordered(s, e) = QueueReordered(s, e)
  BY DEF Controller!QueueReordered, QueueReordered
<1> QED BY <1>1, <1>2, <1>3, <1>4, <1>5, <1>6, <1>7, <1>8, <1>9, <1>10, <1>11,
           <1>12, <1>13, <1>14, <1>15, <1>16, <1>17, <1>18, <1>19, <1>20, <1>21
           DEF Controller!Apply, Apply

\* ... with what makes it throw.
LEMMA SameChecked ==
    ASSUME NEW m, NEW e
    PROVE  Controller!ApplyChecked(m, e) = ApplyChecked(m, e)
<1>1. Controller!Apply(m.state, e) = Apply(m.state, e)
  BY SameApply
<1>2. Controller!Fits(m.state, e) = Fits(m.state, e)
  BY DEF Controller!Fits, Fits, Controller!TaskIsRequired, TaskIsRequired,
         Controller!RunIsRequired, RunIsRequired
<1>3. Controller!StateInvariants(Apply(m.state, e)) = StateInvariants(Apply(m.state, e))
  BY DEF Controller!StateInvariants, StateInvariants, Controller!LiveStates, LiveStates,
         Controller!OpenQuestions, OpenQuestions
<1> QED BY <1>1, <1>2, <1>3, Zenon DEF Controller!ApplyChecked, ApplyChecked

\* A decision as a whole.
LEMMA SameApplyDecision ==
    ASSUME NEW m, NEW events, Len(events) \in 1..3
    PROVE  Controller!ApplyDecision(m, events) = ApplyDecision(m, events)
<1>1. Controller!ApplyDecision(m, events) = Controller!LoopOfThree(m, events)
  BY Controller!FewSteps, NoneAssumption, ProfilesAssumption
<1>2. Controller!LoopOfThree(m, events) = LoopOfThree(m, events)
  BY SameChecked DEF Controller!LoopOfThree, LoopOfThree
<1> QED BY <1>1, <1>2, FewSteps

\* The state that the daemon starts from.
LEMMA SameEmptyState == Controller!EmptyState = EmptyState
BY DEF Controller!EmptyState, EmptyState, Controller!NoTask, NoTask, Controller!NoRun,
       NoRun, Controller!NoConfirmation, NoConfirmation, Controller!NoQuestion, NoQuestion

\* The conditions of the commands of the user.
LEMMA SameUserGuards ==
    /\ \A s : Controller!CanSubmit(s) <=> CanSubmit(s)
    /\ \A s, t, n : Controller!CanRequestPause(s, t, n) <=> CanRequestPause(s, t, n)
    /\ \A s, t, n : Controller!CanResume(s, t, n) <=> CanResume(s, t, n)
    /\ \A s, t, n : Controller!CanCancel(s, t, n) <=> CanCancel(s, t, n)
    /\ \A s, t, x, n : Controller!CanAnswerQuestion(s, t, x, n) <=> CanAnswerQuestion(s, t, x, n)
    /\ \A s, t, x, n : Controller!CanResolveApproval(s, t, x, n) <=> CanResolveApproval(s, t, x, n)
<1>1. \A s : Controller!CanSubmit(s) <=> CanSubmit(s)
  BY DEF Controller!CanSubmit, CanSubmit, Controller!TaskLeft, TaskLeft,
         Controller!RunLeft, RunLeft
<1>2. \A s, t, n : Controller!CanRequestPause(s, t, n) <=> CanRequestPause(s, t, n)
  BY DEF Controller!CanRequestPause, CanRequestPause, Controller!Exists, Exists,
         Controller!CheckRevision, CheckRevision, Controller!IsActive, IsActive
<1>3. \A s, t, n : Controller!CanResume(s, t, n) <=> CanResume(s, t, n)
  BY DEF Controller!CanResume, CanResume, Controller!Exists, Exists,
         Controller!CheckRevision, CheckRevision, Controller!Resumable, Resumable,
         Controller!IsActive, IsActive, Controller!OpenQuestions, OpenQuestions,
         Controller!PendingConfirmations, PendingConfirmations, Controller!RunLeft,
         RunLeft
<1>4. \A s, t, n : Controller!CanCancel(s, t, n) <=> CanCancel(s, t, n)
  BY DEF Controller!CanCancel, CanCancel, Controller!Exists, Exists,
         Controller!CheckRevision, CheckRevision, Controller!TerminalStates,
         TerminalStates, Controller!IsActive, IsActive, Controller!RunLeft, RunLeft
<1>5. \A s, t, x, n : Controller!CanAnswerQuestion(s, t, x, n) <=> CanAnswerQuestion(s, t, x, n)
  BY DEF Controller!CanAnswerQuestion, CanAnswerQuestion, Controller!Exists, Exists,
         Controller!CheckRevision, CheckRevision, Controller!IsActive, IsActive,
         Controller!RunLeft, RunLeft
<1>6. \A s, t, x, n : Controller!CanResolveApproval(s, t, x, n) <=> CanResolveApproval(s, t, x, n)
  BY DEF Controller!CanResolveApproval, CanResolveApproval, Controller!CheckRevision,
         CheckRevision, Controller!IsActive, IsActive, Controller!RunLeft, RunLeft
<1> QED BY <1>1, <1>2, <1>3, <1>4, <1>5, <1>6

\* The conditions of the signals of the coder.
LEMMA SameCoderGuards ==
    /\ \A s, t : Controller!CanPauseAtSafeBoundary(s, t) <=> CanPauseAtSafeBoundary(s, t)
    /\ \A s, t, x : Controller!CanAwaitUserInput(s, t, x) <=> CanAwaitUserInput(s, t, x)
    /\ \A s, t, x, y : Controller!CanConsumeApproval(s, t, x, y) <=> CanConsumeApproval(s, t, x, y)
    /\ \A s, t, x : Controller!CanRequestApproval(s, t, x) <=> CanRequestApproval(s, t, x)
    /\ \A s, t : Controller!CanReportWorkspaceConflict(s, t) <=> CanReportWorkspaceConflict(s, t)
    /\ \A s, t : Controller!CanFinish(s, t) <=> CanFinish(s, t)
    /\ \A s, t, x : Controller!CanRecordCoderSession(s, t, x) <=> CanRecordCoderSession(s, t, x)
<1>1. \A s, t : Controller!CanPauseAtSafeBoundary(s, t) <=> CanPauseAtSafeBoundary(s, t)
  BY DEF Controller!CanPauseAtSafeBoundary, CanPauseAtSafeBoundary
<1>2. \A s, t, x : Controller!CanAwaitUserInput(s, t, x) <=> CanAwaitUserInput(s, t, x)
  BY DEF Controller!CanAwaitUserInput, CanAwaitUserInput, Controller!InRun, InRun,
         Controller!IsActive, IsActive, Controller!OpenQuestions, OpenQuestions
<1>3. \A s, t, x, y : Controller!CanConsumeApproval(s, t, x, y) <=> CanConsumeApproval(s, t, x, y)
  BY DEF Controller!CanConsumeApproval, CanConsumeApproval, Controller!InRun, InRun,
         Controller!IsActive, IsActive, Controller!Confirmations, Confirmations
<1>4. \A s, t, x : Controller!CanRequestApproval(s, t, x) <=> CanRequestApproval(s, t, x)
  BY DEF Controller!CanRequestApproval, CanRequestApproval, Controller!InRun, InRun,
         Controller!IsActive, IsActive, Controller!Confirmations, Confirmations,
         Controller!ConfirmationLeft, ConfirmationLeft
<1>5. \A s, t : Controller!CanReportWorkspaceConflict(s, t) <=> CanReportWorkspaceConflict(s, t)
  BY DEF Controller!CanReportWorkspaceConflict, CanReportWorkspaceConflict,
         Controller!InRun, InRun, Controller!IsActive, IsActive
<1>6. \A s, t : Controller!CanFinish(s, t) <=> CanFinish(s, t)
  BY DEF Controller!CanFinish, CanFinish, Controller!IsActive, IsActive,
         Controller!RunLeft, RunLeft
<1>7. \A s, t, x : Controller!CanRecordCoderSession(s, t, x) <=> CanRecordCoderSession(s, t, x)
  BY DEF Controller!CanRecordCoderSession, CanRecordCoderSession, Controller!IsActive, IsActive
<1> QED BY <1>1, <1>2, <1>3, <1>4, <1>5, <1>6, <1>7

\* The events of the commands of the user.
LEMMA SameUserEvents ==
    /\ \A s, x : Controller!SubmitEvents(s, x) = SubmitEvents(s, x)
    /\ \A t : Controller!RequestPauseEvents(t) = RequestPauseEvents(t)
    /\ \A s, t : Controller!ResumeEvents(s, t) = ResumeEvents(s, t)
    /\ \A s, t : Controller!CancelEvents(s, t) = CancelEvents(s, t)
    /\ \A s, t, x : Controller!AnswerQuestionEvents(s, t, x) = AnswerQuestionEvents(s, t, x)
    /\ \A s, t, x : Controller!ResolveApprovalEvents(s, t, x) = ResolveApprovalEvents(s, t, x)
<1>1. \A s, x : Controller!SubmitEvents(s, x) = SubmitEvents(s, x)
  BY DEF Controller!SubmitEvents, SubmitEvents, Controller!NewTask, NewTask,
         Controller!QueuePosition, QueuePosition, Controller!NewRun, NewRun
<1>2. \A t : Controller!RequestPauseEvents(t) = RequestPauseEvents(t)
  BY DEF Controller!RequestPauseEvents, RequestPauseEvents
<1>3. \A s, t : Controller!ResumeEvents(s, t) = ResumeEvents(s, t)
  BY DEF Controller!ResumeEvents, ResumeEvents, Controller!ResumeEvent, ResumeEvent,
         Controller!NewRun, NewRun
<1>4. \A s, t : Controller!CancelEvents(s, t) = CancelEvents(s, t)
  BY DEF Controller!CancelEvents, CancelEvents, Controller!IsActive, IsActive,
         Controller!AndStartNext, AndStartNext, Controller!StartEvent, StartEvent,
         Controller!NewRun, NewRun
<1>5. \A s, t, x : Controller!AnswerQuestionEvents(s, t, x) = AnswerQuestionEvents(s, t, x)
  BY DEF Controller!AnswerQuestionEvents, AnswerQuestionEvents, Controller!ResumeEvent,
         ResumeEvent, Controller!NewRun, NewRun
<1>6. \A s, t, x : Controller!ResolveApprovalEvents(s, t, x) = ResolveApprovalEvents(s, t, x)
  BY DEF Controller!ResolveApprovalEvents, ResolveApprovalEvents, Controller!ResumeEvent,
         ResumeEvent, Controller!NewRun, NewRun
<1> QED BY <1>1, <1>2, <1>3, <1>4, <1>5, <1>6

\* The events of the signals of the coder.
LEMMA SameCoderEvents ==
    ASSUME NEW s, NEW t, NEW x
    PROVE  /\ Controller!PauseAtSafeBoundaryEvents(s, t) = PauseAtSafeBoundaryEvents(s, t)
           /\ Controller!AwaitUserInputEvents(s, t, x) = AwaitUserInputEvents(s, t, x)
           /\ Controller!ConsumeApprovalEvents(t) = ConsumeApprovalEvents(t)
           /\ Controller!RequestApprovalEvents(s, t, x) = RequestApprovalEvents(s, t, x)
           /\ Controller!ReportWorkspaceConflictEvents(s, t) = ReportWorkspaceConflictEvents(s, t)
           /\ Controller!CompleteEvents(s, t) = CompleteEvents(s, t)
           /\ Controller!FailEvents(s, t) = FailEvents(s, t)
           /\ Controller!RecordCoderSessionEvents(t, x) = RecordCoderSessionEvents(t, x)
<1>1. Controller!PauseAtSafeBoundaryEvents(s, t) = PauseAtSafeBoundaryEvents(s, t)
  BY DEF Controller!PauseAtSafeBoundaryEvents, PauseAtSafeBoundaryEvents
<1>2. Controller!AwaitUserInputEvents(s, t, x) = AwaitUserInputEvents(s, t, x)
  BY DEF Controller!AwaitUserInputEvents, AwaitUserInputEvents
<1>3. Controller!ConsumeApprovalEvents(t) = ConsumeApprovalEvents(t)
  BY DEF Controller!ConsumeApprovalEvents, ConsumeApprovalEvents
<1>4. Controller!RequestApprovalEvents(s, t, x) = RequestApprovalEvents(s, t, x)
  BY DEF Controller!RequestApprovalEvents, RequestApprovalEvents,
         Controller!NewConfirmation, NewConfirmation, Controller!AwaitEvent, AwaitEvent
<1>5. Controller!ReportWorkspaceConflictEvents(s, t) = ReportWorkspaceConflictEvents(s, t)
  BY DEF Controller!ReportWorkspaceConflictEvents, ReportWorkspaceConflictEvents,
         Controller!AwaitEvent, AwaitEvent
<1>6. Controller!CompleteEvents(s, t) = CompleteEvents(s, t)
  BY DEF Controller!CompleteEvents, CompleteEvents, Controller!AndStartNext,
         AndStartNext, Controller!StartEvent, StartEvent, Controller!NewRun, NewRun
<1>7. Controller!FailEvents(s, t) = FailEvents(s, t)
  BY DEF Controller!FailEvents, FailEvents, Controller!AndStartNext, AndStartNext,
         Controller!StartEvent, StartEvent, Controller!NewRun, NewRun
<1>8. Controller!RecordCoderSessionEvents(t, x) = RecordCoderSessionEvents(t, x)
  BY DEF Controller!RecordCoderSessionEvents, RecordCoderSessionEvents
<1> QED BY <1>1, <1>2, <1>3, <1>4, <1>5, <1>6, <1>7, <1>8

\* What a decision makes of the machine is a commit of the controller.
LEMMA CommitsIsCommit ==
    ASSUME Orderly(machine'), ~wedged, NEW events, Deliberate(events),
           Commits(machine, machine', events)
    PROVE  Controller!Commit(events)
<1> DEFINE memory == ApplyDecision([state |-> state, ok |-> TRUE], events)
           same == Controller!ApplyDecision([state |-> state, ok |-> TRUE], events)
<1>1. same = memory
  BY SameApplyDecision DEF Deliberate
<1>2. state' = memory.state /\ (wedged' <=> ~memory.ok)
  BY MachineIs DEF Commits
<1>3. wedged' \in BOOLEAN
  <2>1. machine'.wedged \in BOOLEAN
    BY MachineFields DEF Orderly, Ordered
  <2>2. machine'.wedged = wedged'
    BY Zenon DEF machine
  <2> QED BY <2>1, <2>2, Zenon
<1> HIDE DEF memory, same
<1>4. (~memory.ok) \in BOOLEAN
  OBVIOUS
<1>5. wedged' = ~memory.ok
  BY <1>2, <1>3, <1>4, Zenon
<1>6. state' = same.state /\ wedged' = ~same.ok
  BY <1>1, <1>2, <1>5, Zenon
<1> QED BY <1>6, Zenon DEF Controller!Commit, same

\* What leaves the controller's part alone leaves its variables alone.
LEMMA UnmovedStutters ==
    ASSUME Orderly(machine), Orderly(machine'), Unmoved(machine, machine')
    PROVE  UNCHANGED Controller!vars
<1>1. machine.wedged \in BOOLEAN /\ machine'.wedged \in BOOLEAN
  BY MachineFields DEF Orderly, Ordered
<1>2. machine.wedged = wedged /\ machine'.wedged = wedged'
  BY Zenon DEF machine
<1>3. wedged' = wedged
  <2>1. wedged' <=> wedged
    BY MachineIs DEF Unmoved
  <2> QED BY <1>1, <1>2, <2>1, Zenon
<1>4. state' = state
  BY MachineIs DEF Unmoved
<1> QED BY <1>3, <1>4 DEF Controller!vars

\* A command of the user is one of the controller's.
LEMMA OrdersAreControllers ==
    ASSUME state \in ControllerStates, NEW events, Orders(state, events),
           Controller!Commit(events)
    PROVE  Controller!UserStep
<1>1. ASSUME CanSubmit(state), events = SubmitEvents(state, "fast")
      PROVE  Controller!UserStep
  <2>1. Controller!Submit("fast")
    BY <1>1, SameUserGuards, SameUserEvents DEF Controller!Submit
  <2> QED BY <2>1, ProfilesAssumption DEF Controller!UserStep
<1>2. ASSUME NEW t \in TaskIds, NEW expected \in Nat,
             CanRequestPause(state, t, expected), events = RequestPauseEvents(t)
      PROVE  Controller!UserStep
  <2>1. Controller!RequestPause(t, expected)
    BY <1>2, SameUserGuards, SameUserEvents DEF Controller!RequestPause, Controller!SpareRun
  <2> QED BY <2>1 DEF Controller!UserStep
<1>3. ASSUME NEW t \in TaskIds, NEW expected \in Nat,
             CanResume(state, t, expected), events = ResumeEvents(state, t)
      PROVE  Controller!UserStep
  <2>1. Controller!Resume(t, expected)
    BY <1>3, SameUserGuards, SameUserEvents DEF Controller!Resume
  <2> QED BY <2>1 DEF Controller!UserStep
<1>4. ASSUME NEW t \in TaskIds, NEW expected \in Nat,
             CanCancel(state, t, expected), events = CancelEvents(state, t)
      PROVE  Controller!UserStep
  <2>1. Controller!Cancel(t, expected)
    BY <1>4, SameUserGuards, SameUserEvents DEF Controller!Cancel
  <2> QED BY <2>1 DEF Controller!UserStep
<1>5. ASSUME NEW t \in TaskIds, NEW expected \in Nat, NEW q \in QuestionIds,
             CanAnswerQuestion(state, t, q, expected),
             events = AnswerQuestionEvents(state, t, q)
      PROVE  Controller!UserStep
  <2>1. Controller!AnswerQuestion(t, q, expected)
    BY <1>5, SameUserGuards, SameUserEvents DEF Controller!AnswerQuestion
  <2> QED BY <2>1 DEF Controller!UserStep
<1>6. ASSUME NEW c \in ConfirmationIds, NEW decision \in {"approve", "reject"},
             NEW expected \in Nat, CanResolveApproval(state, c, decision, expected),
             events = ResolveApprovalEvents(state, c, decision)
      PROVE  Controller!UserStep
  <2>1. Controller!ResolveApproval(c, decision, expected)
    BY <1>6, SameUserGuards, SameUserEvents DEF Controller!ResolveApproval
  <2> QED BY <2>1 DEF Controller!UserStep
<1>7. \A t \in TaskIds : state.tasks[t].revision \in Nat
  BY TaskFields
<1> QED BY <1>1, <1>2, <1>3, <1>4, <1>5, <1>6, <1>7 DEF Orders

\* So is a signal of an activation ...
LEMMA ReportsAreControllers ==
    ASSUME NEW t \in TaskIds, NEW events, Reports(state, t, events),
           Controller!Commit(events)
    PROVE  Controller!CoderStep
<1>1. ASSUME CanFinish(state, t), events = CompleteEvents(state, t)
      PROVE  Controller!CoderStep
  <2>1. Controller!CompleteTask(t)
    BY <1>1, SameCoderGuards, SameCoderEvents DEF Controller!CompleteTask
  <2> QED BY <2>1 DEF Controller!CoderStep
<1>2. ASSUME CanFinish(state, t), events = FailEvents(state, t)
      PROVE  Controller!CoderStep
  <2>1. Controller!FailTask(t)
    BY <1>2, SameCoderGuards, SameCoderEvents DEF Controller!FailTask
  <2> QED BY <2>1 DEF Controller!CoderStep
<1>3. ASSUME CanPauseAtSafeBoundary(state, t), events = PauseAtSafeBoundaryEvents(state, t)
      PROVE  Controller!CoderStep
  <2>1. Controller!PauseAtSafeBoundary(t)
    BY <1>3, SameCoderGuards, SameCoderEvents DEF Controller!PauseAtSafeBoundary
  <2> QED BY <2>1 DEF Controller!CoderStep
<1>4. ASSUME CanReportWorkspaceConflict(state, t),
             events = ReportWorkspaceConflictEvents(state, t)
      PROVE  Controller!CoderStep
  <2>1. Controller!ReportWorkspaceConflict(t)
    BY <1>4, SameCoderGuards, SameCoderEvents
       DEF Controller!ReportWorkspaceConflict, Controller!SpareRun
  <2> QED BY <2>1 DEF Controller!CoderStep
<1>5. ASSUME NEW q \in QuestionIds, CanAwaitUserInput(state, t, q),
             events = AwaitUserInputEvents(state, t, q)
      PROVE  Controller!CoderStep
  <2>1. Controller!AwaitUserInput(t, q)
    BY <1>5, SameCoderGuards, SameCoderEvents DEF Controller!AwaitUserInput, Controller!SpareRun
  <2> QED BY <2>1 DEF Controller!CoderStep
<1> QED BY <1>1, <1>2, <1>3, <1>4, <1>5 DEF Reports

\* ... and what the policy decides for a call of the agent.
LEMMA AsksAreControllers ==
    ASSUME NEW t \in TaskIds, NEW events, Asks(state, t, events),
           Controller!Commit(events)
    PROVE  Controller!CoderStep
<1>1. ASSUME NEW f \in Fingerprints, CanRequestApproval(state, t, f),
             events = RequestApprovalEvents(state, t, f)
      PROVE  Controller!CoderStep
  <2>1. Controller!RequestApproval(t, f)
    BY <1>1, SameCoderGuards, SameCoderEvents
       DEF Controller!RequestApproval, Controller!SpareRun
  <2> QED BY <2>1 DEF Controller!CoderStep
<1>2. ASSUME NEW f \in Fingerprints, NEW c \in ConfirmationIds,
             CanConsumeApproval(state, t, c, f), events = ConsumeApprovalEvents(c)
      PROVE  Controller!CoderStep
  <2>1. Controller!ConsumeApproval(t, c, f)
    BY <1>2, SameCoderGuards, SameCoderEvents DEF Controller!ConsumeApproval
  <2> QED BY <2>1 DEF Controller!CoderStep
<1>3. ASSUME NEW r \in RunIds, CanRecordCoderSession(state, t, r),
             events = RecordCoderSessionEvents(t, r)
      PROVE  Controller!CoderStep
  <2>1. Controller!RecordCoderSession(t, r)
    BY <1>3, SameCoderGuards, SameCoderEvents DEF Controller!RecordCoderSession
  <2> QED BY <2>1 DEF Controller!CoderStep
<1> QED BY <1>1, <1>2, <1>3 DEF Asks

\* Both are deliberate.
LEMMA SignalsAreDeliberate ==
    ASSUME NEW s \in ControllerStates, NEW t \in TaskIds, NEW events,
           Reports(s, t, events) \/ Asks(s, t, events)
    PROVE  Deliberate(events)
<1>1. CASE Reports(s, t, events)
  BY <1>1, RunnerIsDeliberate DEF Reports
<1>2. CASE Asks(s, t, events)
  BY <1>2, RunnerIsDeliberate DEF Asks
<1> QED BY <1>1, <1>2

\* Every step of the runner is a step of the controller, or none of its business.
LEMMA StepOfTheController ==
    ASSUME Orderly(machine), [Next]_vars
    PROVE  Controller!Next \/ UNCHANGED Controller!vars
<1>1. Orderly(machine')
  BY StepOrderly
<1>2. state \in ControllerStates /\ machine.state = state
  BY MachineIs, MachineFields DEF Orderly, Ordered
<1>3. Unmoved(machine, machine') => UNCHANGED Controller!vars
  BY <1>1, UnmovedStutters
<1>4. ASSUME NEW t \in TaskIds, NEW events, ~wedged, Commits(machine, machine', events),
             Reports(state, t, events) \/ Asks(state, t, events)
      PROVE  Controller!Next
  <2>1. Controller!Commit(events)
    BY <1>1, <1>2, <1>4, SignalsAreDeliberate, CommitsIsCommit
  <2> QED BY <1>4, <2>1, ReportsAreControllers, AsksAreControllers DEF Controller!Next
<1>5. CASE UNCHANGED vars
  BY <1>5 DEF vars, Controller!vars
<1>6. CASE UserStep /\ ~wedged
  <2>1. PICK events : /\ Orders(state, events) /\ Deliberate(events)
                      /\ Commits(machine, machine', events)
    BY <1>6, UserTame
  <2>2. Controller!Commit(events)
    BY <1>1, <1>6, <2>1, CommitsIsCommit
  <2> QED BY <1>2, <2>1, <2>2, OrdersAreControllers DEF Controller!Next
<1>7. ASSUME NEW r \in RunIds, ~wedged, AgentStep(r)
      PROVE  Controller!Next \/ UNCHANGED Controller!vars
  <2>1. Authorizes(machine, machine')
    BY <1>7, AgentOrderly
  <2> QED BY <1>2, <1>3, <1>4, <1>7, <2>1 DEF Authorizes
<1>8. ASSUME NEW r \in RunIds, ~wedged, Proceeds(r)
      PROVE  Controller!Next \/ UNCHANGED Controller!vars
  <2>1. \/ Signals(machine, machine', machine.turns[r].task)
        \/ Binds(machine, machine', r)
    BY <1>8, ProceedsTame DEF Goes
  <2>2. machine.turns[r].at # "none"
    BY <1>8, MachineIs DEF Proceeds, GuardStarted, TurnBegins, ChildExits, Alive, TurnEnds,
       Reconciled
  <2>3. machine.turns[r].task \in TaskIds
    BY <2>2, SettledTask
  <2>4. CASE Signals(machine, machine', machine.turns[r].task)
    BY <1>2, <1>3, <1>4, <1>8, <2>3, <2>4 DEF Signals
  <2>5. CASE Binds(machine, machine', r)
    BY <1>2, <1>4, <1>8, <2>3, <2>5 DEF Binds, Asks
  <2> QED BY <2>1, <2>4, <2>5
<1>9. ASSUME NEW r \in RunIds, KillTimerFires(r)
      PROVE  UNCHANGED Controller!vars
  BY <1>3, <1>9, TimerTame
<1> QED BY <1>5, <1>6, <1>7, <1>8, <1>9 DEF Next

\* The state under the runner is a TaskController: no interleaving of activations,
\* children, timers and commands makes it do anything else.
THEOREM RunnerIsAController == Spec => Controller!Spec
<1>1. Init => Controller!Init
  BY SameEmptyState DEF Init, Controller!Init
<1>2. Orderly(machine) /\ [Next]_vars => [Controller!Next]_Controller!vars
  <2> SUFFICES ASSUME Orderly(machine), [Next]_vars
               PROVE  Controller!Next \/ UNCHANGED Controller!vars
    OBVIOUS
  <2> QED BY StepOfTheController
<1> QED BY <1>1, <1>2, AlwaysOrderly, PTL DEF Spec, Controller!Spec

-----------------------------------------------------------------------------
(* The run of a task at work loses its activation to another activation    *)
(* only, or to a last signal that is refused.                              *)

\* The controller under the runner is calm until one of its decisions has thrown.
LEMMA CalmUnderRunner == Spec => []Controller!CalmInvariant
<1>1. Controller!Spec => []Controller!CalmInvariant
  BY Controller!CalmInvariantHolds, NoneAssumption, ProfilesAssumption
<1> QED BY <1>1, RunnerIsAController, PTL

\* A task that works has the slot.
LEMMA WorkerHasSlot ==
    ASSUME Controller!Calm, NEW t \in TaskIds, Works(t)
    PROVE  state.activeTaskId = t
<1>1. Controller!SlotDiscipline(state)
  BY DEF Controller!Calm, Controller!Steady
<1> QED BY <1>1 DEF Controller!SlotDiscipline, Controller!LiveStates, Works, StateOf

\* A signal of the activation, or the cancellation, takes its task from its work.
LEMMA SignalsStop ==
    ASSUME Controller!Calm, Orderly(machine'), ~wedged, state \in ControllerStates,
           NEW t \in TaskIds, NEW events, Commits(machine, machine', events),
           \/ Reports(state, t, events)
           \/ \E expected : CanCancel(state, t, expected) /\ events = CancelEvents(state, t)
    PROVE  ~Works(t)'
<1>1. Deliberate(events)
  <2>1. CASE Reports(state, t, events)
    BY <2>1, SignalsAreDeliberate
  <2>2. CASE \E expected : CanCancel(state, t, expected) /\ events = CancelEvents(state, t)
    BY <2>2, UserIsDeliberate
  <2> QED BY <2>1, <2>2
<1>2. Controller!Commit(events)
  BY <1>1, CommitsIsCommit
<1>3. \/ Controller!CompleteTask(t) \/ Controller!FailTask(t)
      \/ Controller!PauseAtSafeBoundary(t) \/ Controller!ReportWorkspaceConflict(t)
      \/ \E q \in QuestionIds : Controller!AwaitUserInput(t, q)
      \/ \E expected : Controller!Cancel(t, expected)
  <2>1. CASE Reports(state, t, events)
    BY <1>2, <2>1, SameCoderGuards, SameCoderEvents
       DEF Reports, Controller!CompleteTask, Controller!FailTask,
           Controller!PauseAtSafeBoundary, Controller!ReportWorkspaceConflict,
           Controller!AwaitUserInput, Controller!SpareRun
  <2>2. CASE \E expected : CanCancel(state, t, expected) /\ events = CancelEvents(state, t)
    BY <1>2, <2>2, SameUserGuards, SameUserEvents DEF Controller!Cancel
  <2> QED BY <2>1, <2>2
<1>4. ~Controller!Works(state'.tasks[t])
  BY <1>3, Controller!SignalsStopTask, NoneAssumption, ProfilesAssumption
<1> QED BY <1>4 DEF Controller!Works, Works, StateOf

\* Task t works, in run r.
WorksIn(s, t, r) ==
    s.tasks[t].state \in {"running", "pause_requested"} /\ s.tasks[t].activeRunId = r

\* An event of another task, or one that leaves task t in its run.
LeavesRun(e, t) ==
    e.type \in TaskTypes => e.taskId # t \/ e.type \in {"task.pauseRequested", "coder.sessionBound"}

\* A command of the user leaves the activation of a task at work alone, or takes the
\* task from its work.
LEMMA OrdersLeaveCurrent ==
    ASSUME NEW t \in TaskIds, state.activeTaskId = t, Works(t), runner.taskId = t,
           NEW events, Orders(state, events)
    PROVE  \/ /\ LeavesCurrent(machine, events)
              /\ \A i \in DOMAIN events : LeavesRun(events[i], t)
           \/ \E expected : CanCancel(state, t, expected) /\ events = CancelEvents(state, t)
<1> DEFINE Leaves == /\ LeavesCurrent(machine, events)
                     /\ \A i \in DOMAIN events : LeavesRun(events[i], t)
<1>1. state.tasks[t].state \notin {"paused", "awaiting_user"} /\ machine.runner.taskId = t
  BY MachineIs DEF Works, StateOf
<1>2. CASE CanSubmit(state) /\ events = SubmitEvents(state, "fast")
  <2>1. NewTask(state) # t
    BY <1>2, NewIds DEF CanSubmit, Works, StateOf
  <2>2. LeavesCurrent(machine, events)
    BY <1>2, NoneAssumption DEF SubmitEvents, LeavesCurrent, StartTypes
  <2>3. \A i \in DOMAIN events : LeavesRun(events[i], t)
    BY <1>2, <2>1, NoneAssumption DEF SubmitEvents, LeavesRun
  <2> QED BY <2>2, <2>3
<1>3. ASSUME NEW u \in TaskIds, NEW expected,
             CanRequestPause(state, u, expected), events = RequestPauseEvents(u)
      PROVE  Leaves
  BY <1>3 DEF RequestPauseEvents, LeavesCurrent, LeavesRun, StartTypes
<1>4. ASSUME NEW u \in TaskIds, NEW expected, CanResume(state, u, expected)
      PROVE  FALSE
  BY <1>1, <1>4 DEF CanResume, Resumable, IsActive
<1>5. ASSUME NEW u \in TaskIds, NEW expected,
             CanCancel(state, u, expected), events = CancelEvents(state, u), u # t
      PROVE  Leaves
  BY <1>1, <1>5 DEF CancelEvents, IsActive, LeavesCurrent, LeavesRun, StartTypes
<1>6. ASSUME NEW u \in TaskIds, NEW expected, NEW q, CanAnswerQuestion(state, u, q, expected)
      PROVE  FALSE
  BY <1>1, <1>6 DEF CanAnswerQuestion, IsActive
<1>7. ASSUME NEW c, NEW decision, NEW expected, CanResolveApproval(state, c, decision, expected)
      PROVE  FALSE
  BY <1>1, <1>7 DEF CanResolveApproval, IsActive
<1> QED BY <1>2, <1>3, <1>4, <1>5, <1>6, <1>7 DEF Orders

\* Of a task that is worked on, and works on in the same run, the activation is still the
\* current one, or an activation has just returned: another, or this one without a signal.
LEMMA StepReleases ==
    ASSUME Orderly(machine), Controller!CalmInvariant, Next, NEW t \in TaskIds,
           WorkedOn(t), ~WorkedOn(t)', Works(t)',
           state'.tasks[t].activeRunId = state.tasks[t].activeRunId
    PROVE  \E q \in RunIds : /\ turns[q].at # "returned" /\ turns'[q].at = "returned"
                             /\ q # state.tasks[t].activeRunId \/ state' = state
<1> DEFINE r == state.tasks[t].activeRunId
           Released == \E q \in RunIds : /\ turns[q].at # "returned" /\ turns'[q].at = "returned"
                                         /\ q # r \/ state' = state
<1>1. /\ ~wedged /\ ~machine.wedged /\ Controller!Calm
      /\ state \in ControllerStates /\ machine.state = state /\ StateInvariants(state)
  BY MachineIs, MachineFields DEF Next, Orderly, Ordered, Controller!CalmInvariant
<1>2. Works(t) /\ r # None /\ IsCurrent(machine, r) /\ turns[r].at \in Waits
  BY DEF WorkedOn
<1>3. r \in RunIds
  BY <1>1, <1>2, FieldsTyped DEF Task
<1>4. turns[r].task = t
  <2>1. state.runs[r].taskId = t
    BY <1>1, <1>2 DEF StateInvariants
  <2> QED BY <1>2, <1>3, <2>1, MachineIs DEF Orderly, Ordered, ActivationsAreRuns, Waits
<1>5. runner.generation = r /\ runner.taskId = t
  BY <1>2, <1>4, MachineIs DEF IsCurrent
<1>6. state.activeTaskId = t
  BY <1>1, <1>2, WorkerHasSlot
<1>7. Orderly(machine')
  BY StepOrderly
<1>8. state'.tasks[t].activeRunId = r
  OBVIOUS
<1> HIDE DEF r
<1>9. ASSUME NEW x, Undisturbed(machine, machine', x)
      PROVE  FALSE
  <2>1. /\ runner'.generation = r /\ runner'.taskId = t
        /\ turns'[r].task = t /\ turns'[r].at \in Waits
    BY <1>2, <1>3, <1>4, <1>5, <1>9, MachineIs DEF Undisturbed, Waits
  <2>2. IsCurrent(machine', r)
    BY <2>1, MachineIs DEF IsCurrent
  <2> QED BY <1>2, <1>8, <2>1, <2>2 DEF WorkedOn, IsCurrent
<1>10. ASSUME UserStep
       PROVE  FALSE
  <2>1. PICK events : /\ Orders(state, events) /\ Deliberate(events)
                      /\ machine' = Decide(machine, events)
                      /\ Commits(machine, machine', events)
    BY <1>1, <1>10, UserTame
  <2>2. CASE LeavesCurrent(machine, events)
    <3>1. Undisturbed(machine, machine', None)
      BY <2>1, <2>2, DecideUndisturbed
    <3> QED BY <1>9, <3>1
  <2>3. CASE \E expected : CanCancel(state, t, expected) /\ events = CancelEvents(state, t)
    BY <1>1, <1>7, <2>1, <2>3, SignalsStop
  <2> QED BY <1>2, <1>5, <1>6, <2>1, <2>2, <2>3, OrdersLeaveCurrent
<1>11. ASSUME NEW q \in RunIds, AgentStep(q)
       PROVE  FALSE
  <2>1. Undisturbed(machine, machine', None)
    BY <1>1, <1>11, AgentOrderly
  <2> QED BY <1>9, <2>1
<1>12. ASSUME NEW q \in RunIds, KillTimerFires(q)
       PROVE  FALSE
  <2>1. Undisturbed(machine, machine', None)
    BY <1>12, TimerTame
  <2> QED BY <1>9, <2>1
<1>13. ASSUME NEW q \in RunIds, Proceeds(q)
       PROVE  Released
  <2>1. Goes(machine, machine', q)
    BY <1>1, <1>13, ProceedsTame
  <2>2. CASE Undisturbed(machine, machine', q)
    BY <1>9, <2>2
  <2>3. CASE machine.turns[q].at # "returned" /\ machine'.turns[q].at = "returned"
    <3>1. turns[q].at # "returned" /\ turns'[q].at = "returned"
      BY <2>3, MachineIs
    <3>2. CASE q # r
      BY <3>1, <3>2
    <3>3. CASE q = r
      <4>4. ~(Binds(machine, machine', q) /\ ~IsCurrent(machine, q))
        BY <1>2, <3>3
      <4>1. \/ Unmoved(machine, machine')
            \/ \E events : Reports(state, t, events) /\ Commits(machine, machine', events)
        BY <1>1, <1>4, <1>9, <2>1, <3>3, <4>4, MachineIs DEF Goes, Signals
      <4>2. ~\E events : Reports(state, t, events) /\ Commits(machine, machine', events)
        BY <1>1, <1>7, SignalsStop
      <4>3. state' = state
        BY <4>1, <4>2, MachineIs DEF Unmoved
      <4> QED BY <3>1, <4>3
    <3> QED BY <3>2, <3>3
  <2> QED BY <2>1, <2>2, <2>3 DEF Goes
<1>14. Released
  BY <1>10, <1>11, <1>12, <1>13 DEF Next
<1> QED BY <1>14 DEF r

\* A run loses its activation in two ways only: to another activation, or to a last signal
\* that the controller refuses.
THEOREM LossesReleased == Spec => LossesAreReleases
<1> DEFINE Lost(t) == LET r == state.tasks[t].activeRunId
                      IN  WorkedOn(t) /\ ~WorkedOn(t)' /\ Works(t)'
                            /\ state'.tasks[t].activeRunId = r
           Released(t) == LET r == state.tasks[t].activeRunId
                          IN  \E q \in RunIds : /\ turns[q].at # "returned"
                                                /\ turns'[q].at = "returned"
                                                /\ q # r \/ state' = state
           Kept == \A t \in TaskIds : Lost(t) => Released(t)
<1>1. Orderly(machine) /\ Controller!CalmInvariant /\ [Next]_vars => [Kept]_vars
  <2> SUFFICES ASSUME Orderly(machine), Controller!CalmInvariant, Next, NEW t \in TaskIds, Lost(t)
               PROVE  Released(t)
    OBVIOUS
  <2> QED BY StepReleases
<1> QED BY <1>1, AlwaysOrderly, CalmUnderRunner, PTL DEF Spec, LossesAreReleases, Kept

-----------------------------------------------------------------------------
(* The run of a live child ends with the child told to stop.               *)

\* Such an event ends no run of t.
LEMMA EventLeavesRun ==
    ASSUME NEW m \in [state : ControllerStates, ok : BOOLEAN], NEW e \in Events,
           NEW t \in TaskIds, NEW r, WorksIn(m.state, t, r), LeavesRun(e, t)
    PROVE  WorksIn(ApplyChecked(m, e).state, t, r)
<1> DEFINE n == Apply(m.state, e)
<1>1. m.state \in ControllerStates
  OBVIOUS
<1>2. WorksIn(n, t, r)
  <2>1. CASE e.type \notin TaskTypes
    <3>1. n.tasks = m.state.tasks
      BY <1>1, <2>1, OtherFrame
    <3> QED BY <3>1 DEF WorksIn
  <2>2. CASE e.type \in TaskTypes
    <3>1. /\ e.taskId # t => n.tasks[t] = m.state.tasks[t]
          /\ After(e, m.state.tasks[e.taskId], n.tasks[e.taskId])
      BY <1>1, <2>2, TaskEffect
    <3> HIDE DEF n
    <3>2. CASE e.taskId # t
      BY <3>1, <3>2 DEF WorksIn
    <3>3. CASE e.taskId = t /\ e.type = "task.pauseRequested"
      BY <3>1, <3>3 DEF WorksIn, After, StartTypes, StopTypes
    <3>4. CASE e.taskId = t /\ e.type = "coder.sessionBound"
      BY <3>1, <3>4 DEF WorksIn, After, StartTypes, StopTypes, KeepsState
    <3> QED BY <2>2, <3>2, <3>3, <3>4 DEF LeavesRun
  <2> QED BY <2>1, <2>2
<1>3. \/ ApplyChecked(m, e).state = m.state
      \/ ApplyChecked(m, e).state = n
  BY DEF ApplyChecked
<1> QED BY <1>2, <1>3

\* Nor does a decision of such events.
LEMMA DecisionLeavesRun ==
    ASSUME NEW m, m.state \in ControllerStates, NEW n, NEW events, Deliberate(events),
           Commits(m, n, events), NEW t \in TaskIds, NEW r, WorksIn(m.state, t, r),
           \A i \in DOMAIN events : LeavesRun(events[i], t)
    PROVE  WorksIn(n.state, t, r)
<1> DEFINE start == [state |-> m.state, ok |-> TRUE]
           m1 == ApplyChecked(start, events[1])
           m2 == ApplyChecked(m1, events[2])
           m3 == ApplyChecked(m2, events[3])
           Good(k) == k \in [state : ControllerStates, ok : BOOLEAN] /\ WorksIn(k.state, t, r)
<1>1. events \in Seq(Events) /\ Len(events) \in 1..3 /\ DOMAIN events = 1..Len(events)
  BY DEF Deliberate
<1>2. ASSUME NEW k, Good(k), NEW i \in DOMAIN events
      PROVE  Good(ApplyChecked(k, events[i]))
  <2>1. events[i] \in Events /\ LeavesRun(events[i], t)
    BY <1>1
  <2> QED BY <1>2, <2>1, EventLeavesRun, ApplyCheckedTyped
<1>3. Good(start)
  OBVIOUS
<1>4. n.state = ApplyDecision(start, events).state
  BY DEF Commits
<1> HIDE DEF start, Good
<1>8. ApplyDecision(start, events) = LoopOfThree(start, events)
  BY <1>1, FewSteps
<1>5. Good(m1)
  BY <1>1, <1>2, <1>3
<1> HIDE DEF m1
<1>6. Len(events) >= 2 => Good(m2)
  BY <1>1, <1>2, <1>5
<1> HIDE DEF m2
<1>7. Len(events) >= 3 => Good(m3)
  BY <1>1, <1>2, <1>6
<1> HIDE DEF m3
<1>9. CASE Len(events) = 1
  <2>1. LoopOfThree(start, events) = m1
    BY <1>9 DEF LoopOfThree, m1
  <2> QED BY <1>4, <1>5, <1>8, <2>1 DEF Good
<1>10. CASE Len(events) = 2
  <2>1. LoopOfThree(start, events) = m2
    BY <1>10 DEF LoopOfThree, m1, m2
  <2> QED BY <1>4, <1>6, <1>8, <1>10, <2>1 DEF Good
<1>11. CASE Len(events) = 3
  <2>1. LoopOfThree(start, events) = m3
    BY <1>11 DEF LoopOfThree, m1, m2, m3
  <2> QED BY <1>4, <1>7, <1>8, <1>11, <2>1 DEF Good
<1> QED BY <1>1, <1>9, <1>10, <1>11

\* Starting a task starts no child.
LEMMA StartLeavesStopped ==
    ASSUME NEW m \in Machines, NEW t \in TaskIds, NEW q \in RunIds, NEW r \in RunIds,
           m.turns[r].child # "live"
    PROVE  StartTask(m, t, q).turns[r].child # "live"
<1> DEFINE k == KillCurrent(m)
           asked == m.state.tasks[t].state = "pause_requested"
           known == m.state.tasks[t].session # None
           fields == [k.runner EXCEPT !.generation = q, !.taskId = t, !.policyPause = FALSE,
                                      !.session = known, !.pauseRequested = asked]
           turn == [k.turns[q] EXCEPT !.at = "starting", !.task = t]
           n == [k EXCEPT !.runner = fields, !.turns[q] = turn]
<1>1. Keeps(m, k, None)
  BY KillCurrentKeeps
<1>2. k \in Machines /\ TurnKept(m.turns[r], k.turns[r], r = None) /\ k.turns[q] \in Turn
  BY <1>1, MachineFields DEF Keeps
<1>3. StartTask(m, t, q) = n
  BY DEF StartTask
<1> HIDE DEF k
<1>4. turn.child = k.turns[q].child
  BY <1>2 DEF Turn
<1>5. n.turns[r] = IF r = q THEN turn ELSE k.turns[r]
  BY <1>2 DEF Machines
<1>6. k.turns[r].child # "live"
  BY <1>2 DEF TurnKept
<1> QED BY <1>3, <1>4, <1>5, <1>6

\* When the cancellation of the task at work is applied, its child is told to stop.
LEMMA CancelStopsChild ==
    ASSUME NEW m, Orderly(m), NEW t \in TaskIds, NEW r \in RunIds, m.runner.taskId = t,
           m.runner.process = r, NEW expected, CanCancel(m.state, t, expected),
           NEW n, n = Decide(m, CancelEvents(m.state, t)), ~n.wedged,
           Commits(m, n, CancelEvents(m.state, t))
    PROVE  n.turns[r].child # "live"
<1> DEFINE events == CancelEvents(m.state, t)
           memory == ApplyDecision([state |-> m.state, ok |-> TRUE], events)
           a == Applied(m, memory)
           k == StopCurrent(a)
<1>1. m \in Machines /\ m.state \in ControllerStates
  BY MachineFields DEF Orderly, Ordered
<1>2. Deliberate(events)
  BY <1>1, UserIsDeliberate
<1>3. events \in Seq(Events) /\ Len(events) \in 1..3 /\ StartsLast(events)
  BY <1>2 DEF Deliberate
<1>4. /\ memory \in [state : ControllerStates, ok : BOOLEAN]
      /\ RunsRemain(m.state, memory.state)
      /\ memory.ok => StateInvariants(memory.state)
      /\ (memory.ok /\ events[Len(events)].type \in StartTypes) =>
            events[Len(events)].taskId \in TaskIds /\ events[Len(events)].runId \in RunIds
  BY <1>1, <1>3, DecisionRuns
<1>5. memory.ok
  BY <1>4 DEF Commits
<1>6. n = HandleNth(HandleNth(HandleNth(a, events, 1), events, 2), events, 3)
  <2>1. n = HandleEvents(a, events)
    BY <1>5 DEF Decide, Applied
  <2> HIDE DEF memory, a
  <2> QED BY <1>3, <2>1, FewHandled
<1> HIDE DEF memory
<1>7. a \in Machines /\ a.runner = m.runner /\ a.turns = m.turns
  BY <1>4, AppliedOrdered DEF Orderly, Ordered
<1> HIDE DEF a
<1>8. k \in Machines /\ k.turns[r].child # "live"
  <2>1. Keeps(a, k, None) /\ k.runner.process = None
    BY <1>7, StopCurrentKeeps
  <2> QED BY <1>7, <2>1, NoneAssumption DEF Keeps
<1>9. HandleNth(a, events, 1) = k
  <2>1. 1 \in DOMAIN events
    BY <1>3
  <2>2. events[1].type = "task.cancelled" /\ events[1].taskId = t
    BY DEF CancelEvents, AndStartNext
  <2> QED BY <1>7, <2>1, <2>2 DEF HandleNth, HandleEvent
<1> HIDE DEF k
<1>10. CASE Len(events) = 1
  <2>1. 2 \notin DOMAIN events /\ 3 \notin DOMAIN events
    BY <1>3, <1>10
  <2> QED BY <1>6, <1>8, <1>9, <2>1 DEF HandleNth
<1>11. CASE Len(events) # 1
  <2> DEFINE e == StartEvent(m.state, Head(m.state.queue))
  <2>1. events = <<[type |-> "task.cancelled", taskId |-> t], e>>
    BY <1>11 DEF CancelEvents, AndStartNext
  <2>2. /\ 2 \in DOMAIN events /\ 3 \notin DOMAIN events
        /\ events[2] = e /\ events[Len(events)] = e
    BY <2>1
  <2>3. e.type \in StartTypes
    BY DEF StartEvent, StartTypes
  <2>4. e.taskId \in TaskIds /\ e.runId \in RunIds
    BY <1>4, <1>5, <2>2, <2>3
  <2> HIDE DEF e
  <2>5. n = StartTask(k, e.taskId, e.runId)
    BY <1>6, <1>9, <2>2, <2>3, StartHandled DEF HandleNth
  <2> QED BY <1>8, <2>4, <2>5, StartLeavesStopped
<1> QED BY <1>10, <1>11

\* The agent names its session: nothing comes of it but that it is bound.
LEMMA NamedBinds ==
    ASSUME NEW m, Orderly(m), ~m.wedged, NEW r \in RunIds, m.turns[r].at # "none"
    PROVE  /\ Unmoved(m, SessionNamed(m, r)) \/ Binds(m, SessionNamed(m, r), r)
           /\ Unmoved(SessionNamed(m, r), Kill(SessionNamed(m, r), r))
<1> DEFINE k == IF CanBind(m, r) THEN Bind(m, r) ELSE Kill(m, m.runner.process)
           named == [k.runner EXCEPT !.session = TRUE]
           n == SetRunner(k, named)
<1>1. m.runner.process \in RunIds \cup {None}
  BY MachineFields DEF Orderly, Ordered, Runner
<1>2. Orderly(k) /\ (Unmoved(m, k) \/ Binds(m, k, r))
  <2>1. CASE CanBind(m, r)
    BY <2>1, BindTame DEF Tame
  <2>2. CASE ~CanBind(m, r)
    BY <1>1, <2>2, KillTame DEF Tame
  <2> QED BY <2>1, <2>2
<1>3. SessionNamed(m, r) = n
  BY DEF SessionNamed, SetRunner
<1> HIDE DEF k
<1>4. k \in Machines /\ named \in Runner
  BY <1>2, MachineFields DEF Orderly, Ordered, Runner
<1> HIDE DEF named
<1>5. n.state = k.state /\ n.wedged = k.wedged
  BY <1>4, SetRunnerEffect
<1> HIDE DEF n
<1>6. Unmoved(m, n) \/ Binds(m, n, r)
  BY <1>2, <1>5 DEF Unmoved, Binds, Commits
<1>7. Orderly(n)
  BY <1>3, SessionNamedFine DEF Fine, Tame
<1>8. Unmoved(n, Kill(n, r))
  BY <1>7, KillTame
<1> QED BY <1>3, <1>6, <1>8

\* Of the current child and its run, until a superseded activation spawns another.
LEMMA LiveChildIsCurrent ==
    ASSUME Orderly(machine), \A x \in RunIds : ~turns[x].late,
           NEW r \in RunIds, turns[r].child = "live"
    PROVE  /\ runner.process = r /\ runner.generation = r /\ turns[r].at = "running"
           /\ runner.policyServer \in {r, None}
           /\ turns[r].task \in TaskIds
           /\ state.runs[r].state # "none" /\ state.runs[r].taskId = turns[r].task
           /\ runner.taskId # None => runner.taskId = turns[r].task
<1>1. r # None
  BY NoneAssumption
<1>2. /\ runner.process = r /\ runner.generation = r /\ turns[r].at = "running"
      /\ runner.policyServer \in {r, None}
  BY <1>1, MachineIs DEF Orderly, Ordered, CurrentHasTheChild
<1>3. /\ turns[r].task \in TaskIds
      /\ state.runs[r].state # "none" /\ state.runs[r].taskId = turns[r].task
  BY <1>2, MachineIs DEF Orderly, Ordered, ActivationsAreRuns
<1>4. runner.taskId # None => runner.taskId = turns[r].task
  BY <1>1, <1>2, MachineIs DEF Orderly, Ordered, TaskMatches
<1> QED BY <1>2, <1>3, <1>4

\* A step that ends the run of the live child tells the child to stop, or its refused
\* call will.
LEMMA StepEndsRuns ==
    ASSUME Orderly(machine), Controller!CalmInvariant, Next, NEW r \in RunIds,
           turns[r].child = "live", Serves(r), ~Serves(r)',
           None \notin {runner.taskId, runner'.taskId}, \A x \in RunIds : ~turns[x].late
    PROVE  turns'[r].child # "live" \/ r \in runner'.killTimers
<1> DEFINE t == turns[r].task
           Stops == turns'[r].child # "live" \/ r \in runner'.killTimers
<1>1. /\ ~wedged /\ ~machine.wedged /\ Controller!Calm
      /\ state \in ControllerStates /\ machine.state = state
      /\ machine.runner = runner /\ machine.turns = turns
  BY MachineIs, MachineFields DEF Next, Orderly, Ordered, Controller!CalmInvariant
<1>2. /\ runner.process = r /\ turns[r].at = "running"
      /\ runner.policyServer \in {r, None}
      /\ t \in TaskIds
      /\ state.runs[r].state # "none" /\ state.runs[r].taskId = t
      /\ runner.taskId = t
  BY LiveChildIsCurrent
<1>3. WorksIn(state, t, r) /\ Works(t)
  BY DEF Serves, Works, StateOf, WorksIn
<1>4. state.activeTaskId = t
  BY <1>1, <1>2, <1>3, WorkerHasSlot
<1>5. Orderly(machine')
  BY StepOrderly
<1>6. ASSUME WorksIn(state', t, r), RunsRemain(state, state'), turns'[r].at # "none"
      PROVE  FALSE
  <2>1. turns'[r].task = state'.runs[r].taskId
    BY <1>5, <1>6, MachineIs DEF Orderly, Ordered, ActivationsAreRuns
  <2>2. turns'[r].task = t
    BY <1>2, <1>6, <2>1 DEF RunsRemain
  <2> QED BY <1>6, <2>2 DEF WorksIn, Serves, Works, StateOf
<1>7. turns'[r].at # "none" /\ Unmoved(machine, machine') => FALSE
  BY <1>3, <1>6, MachineIs DEF Unmoved, RunsRemain
<1>8. ASSUME NEW events, Deliberate(events), Commits(machine, machine', events),
             turns'[r].at # "none", \A i \in DOMAIN events : LeavesRun(events[i], t)
      PROVE  FALSE
  <2>1. RunsRemain(state, state')
    BY <1>1, <1>8, DecisionRuns, MachineIs DEF Deliberate, Commits
  <2>2. WorksIn(state', t, r)
    <3> HIDE DEF t
    <3>1. machine.state \in ControllerStates /\ WorksIn(machine.state, t, r) /\ t \in TaskIds
      BY <1>1, <1>2, <1>3
    <3>2. WorksIn(machine'.state, t, r)
      BY <1>8, <3>1, DecisionLeavesRun
    <3> QED BY <3>2, MachineIs
  <2> QED BY <1>6, <1>8, <2>1, <2>2
<1>9. ASSUME NEW q \in RunIds, Binds(machine, machine', q), turns[q].at # "none",
             turns'[r].at # "none"
      PROVE  FALSE
  <2> DEFINE u == turns[q].task
             events == RecordCoderSessionEvents(u, q)
  <2>1. u \in TaskIds
    BY <1>1, <1>9, SettledTask
  <2>2. Deliberate(events)
    BY <1>1, <2>1, RunnerIsDeliberate
  <2>3. Commits(machine, machine', events)
    BY <1>1, <1>9 DEF Binds
  <2>4. \A i \in DOMAIN events : LeavesRun(events[i], t)
    BY DEF RecordCoderSessionEvents, LeavesRun
  <2> HIDE DEF events
  <2> QED BY <1>8, <1>9, <2>2, <2>3, <2>4
<1>10. ASSUME UserStep
       PROVE  Stops
  <2>1. PICK events : /\ Orders(state, events) /\ Deliberate(events)
                      /\ machine' = Decide(machine, events)
                      /\ Commits(machine, machine', events)
    BY <1>1, <1>10, UserTame
  <2>2. turns'[r].at # "none"
    <3>1. Tame(machine, machine', None)
      BY <1>1, <1>10, UserTame
    <3> QED BY <1>2, <3>1, MachineIs, NoneAssumption DEF Tame
  <2>3. CASE \E expected : CanCancel(state, t, expected) /\ events = CancelEvents(state, t)
    <3>1. PICK expected : CanCancel(state, t, expected)
      BY <2>3
    <3>2. Controller!Commit(events)
      BY <1>1, <1>5, <2>1, CommitsIsCommit
    <3>3. Controller!Cancel(t, expected)
      BY <2>3, <3>1, <3>2, SameUserGuards, SameUserEvents DEF Controller!Cancel
    <3>4. Controller!Works(state.tasks[t])
      BY <1>3 DEF Controller!Works, Works, StateOf
    <3>5. ~wedged'
      <4> HIDE DEF t
      <4> QED BY <1>1, <1>2, <3>3, <3>4, Controller!WorkerIsCancelled, NoneAssumption,
                 ProfilesAssumption
    <3>6. machine'.turns[r].child # "live"
      <4> HIDE DEF t
      <4> QED BY <1>1, <1>2, <2>1, <2>3, <3>1, <3>5, MachineIs, CancelStopsChild
    <3> QED BY <3>6, MachineIs
  <2>4. CASE \A i \in DOMAIN events : LeavesRun(events[i], t)
    BY <1>8, <2>1, <2>2, <2>4
  <2> QED BY <1>2, <1>3, <1>4, <2>1, <2>3, <2>4, OrdersLeaveCurrent
<1>11. ASSUME NEW q \in RunIds, AgentStep(q)
       PROVE  Stops
  <2>1. turns'[r].at # "none"
    BY <1>1, <1>2, <1>11, AgentOrderly
  <2>2. ASSUME NEW n, Orderly(n), Becomes(Refused(n, q)), runner.policyServer = q
        PROVE  Stops
    <3>1. q = r
      BY <1>2, <2>2, NoneAssumption
    <3>2. runner' = Refused(n, q).runner
      BY <2>2 DEF Becomes
    <3>3. n \in Machines /\ n.runner \in Runner
      BY <2>2, MachineFields DEF Orderly, Ordered
    <3>4. Refused(n, q).runner.killTimers = n.runner.killTimers \cup {q}
      BY <3>3 DEF Refused, Runner, Machines
    <3> QED BY <3>1, <3>2, <3>4
  <2>3. ASSUME Becomes(machine)
        PROVE  FALSE
    BY <1>7, <2>1, <2>3, MachineIs DEF Becomes, Unmoved
  <2>4. CASE RoutineCall(q) \/ ForbiddenCall(q)
    BY <2>2, <2>3, <2>4 DEF RoutineCall, ForbiddenCall
  <2>5. ASSUME NEW f \in Fingerprints, SensitiveCall(q, f)
        PROVE  Stops
    <3>1. ASSUME NEW c \in ConfirmationIds, Becomes(Decide(machine, ConsumeApprovalEvents(c)))
          PROVE  FALSE
      <4> DEFINE events == ConsumeApprovalEvents(c)
                 n == Decide(machine, events)
      <4>1. Deliberate(events)
        BY <1>1, <1>2, <3>1, RunnerIsDeliberate
      <4>2. Tame(machine, n, None) /\ Commits(machine, n, events)
        BY <1>1, <4>1, DecideTame
      <4>3. \A i \in DOMAIN events : LeavesRun(events[i], t)
        BY DEF ConsumeApprovalEvents, LeavesRun, TaskTypes, TaskIsRequired
      <4>4. Becomes(n)
        BY <3>1
      <4> HIDE DEF n, events
      <4>5. machine' = n
        BY <4>2, <4>4, BecomesTame
      <4> QED BY <1>8, <2>1, <4>1, <4>2, <4>3, <4>5
    <3>2. Deliberate(RequestApprovalEvents(state, HookTask(q), f))
             => Orderly(Decide(machine, RequestApprovalEvents(state, HookTask(q), f)))
      BY <1>1, DecideTame DEF Tame
    <3>3. CanRequestApproval(state, HookTask(q), f)
             => Deliberate(RequestApprovalEvents(state, HookTask(q), f))
      <4>1. HookTask(q) \in TaskIds
        BY <1>1, <2>5, SettledTask DEF SensitiveCall, Alive, HookTask
      <4> QED BY <1>1, <4>1, RunnerIsDeliberate
    <3> QED BY <2>2, <2>5, <3>1, <3>2, <3>3 DEF SensitiveCall, Confirmations
  <2>6. CASE OutputLine(q)
    <3>1. turns[q].at # "none"
      BY <2>6 DEF OutputLine, Alive
    <3>2. /\ Tame(machine, TurnStopped(machine, q), None) /\ Unmoved(machine, TurnStopped(machine, q))
          /\ Tame(machine, Kill(machine, q), None) /\ Unmoved(machine, Kill(machine, q))
      BY TurnStoppedTame, KillTame
    <3>3. /\ Tame(machine, SessionNamed(machine, q), None)
          /\ Tame(machine, Kill(SessionNamed(machine, q), q), None)
      BY <1>1, <3>1, SessionNamedFine DEF Fine
    <3>4. /\ \/ Unmoved(machine, SessionNamed(machine, q))
             \/ Binds(machine, SessionNamed(machine, q), q)
          /\ Unmoved(SessionNamed(machine, q), Kill(SessionNamed(machine, q), q))
      BY <1>1, <3>1, NamedBinds
    <3>5. \/ Becomes(TurnStopped(machine, q)) \/ Becomes(Kill(machine, q))
          \/ Becomes(SessionNamed(machine, q)) \/ Becomes(Kill(SessionNamed(machine, q), q))
      BY <1>1, <2>6 DEF OutputLine, TurnStopped
    <3>6. PICK n : /\ Becomes(n) /\ Tame(machine, n, None)
                   /\ Unmoved(machine, n) \/ Binds(machine, n, q)
      <4>1. \/ Unmoved(machine, Kill(SessionNamed(machine, q), q))
            \/ Binds(machine, Kill(SessionNamed(machine, q), q), q)
        BY <3>4 DEF Unmoved, Binds, Commits
      <4> QED BY <3>2, <3>3, <3>4, <3>5, <4>1
    <3>7. machine' = n
      BY <3>6, BecomesTame
    <3> QED BY <1>7, <1>9, <2>1, <3>1, <3>6, <3>7
  <2> QED BY <1>11, <2>4, <2>5, <2>6 DEF AgentStep
<1>12. ASSUME NEW q \in RunIds, Proceeds(q)
       PROVE  FALSE
  <2>1. Tame(machine, machine', q) /\ Goes(machine, machine', q)
    BY <1>1, <1>12, ProceedsTame
  <2>2. turns[q].at # "none"
    BY <1>12 DEF Proceeds, GuardStarted, TurnBegins, ChildExits, Alive, TurnEnds, Reconciled
  <2>3. turns'[r].at # "none"
    <3>1. CASE q # r
      BY <1>2, <2>1, <3>1, MachineIs DEF Tame
    <3>2. CASE Undisturbed(machine, machine', q)
      BY <1>2, <3>2, MachineIs DEF Undisturbed, Waits
    <3>3. CASE q = r /\ machine'.turns[q].at = "returned"
      BY <3>3, MachineIs
    <3> QED BY <2>1, <3>1, <3>2, <3>3 DEF Goes
  <2>4. machine'.runner.taskId # None
    BY MachineIs
  <2> QED BY <1>7, <1>9, <2>1, <2>2, <2>3, <2>4 DEF Goes, Signals
<1>13. ASSUME NEW q \in RunIds, KillTimerFires(q)
       PROVE  FALSE
  <2>1. Unmoved(machine, machine') /\ Undisturbed(machine, machine', None)
    BY <1>13, TimerTame
  <2>2. turns'[r].at # "none"
    BY <1>2, <2>1, MachineIs DEF Undisturbed, Waits
  <2> QED BY <1>7, <2>1, <2>2
<1>14. Stops
  BY <1>10, <1>11, <1>12, <1>13 DEF Next
<1> QED BY <1>14

\* The run of a live child ends only with the child told to stop, or by its own refused
\* call; but for the two exceptions that the property names.
THEOREM EndedRunsAreStopped == Spec => EndedRunsStopTheirChild
<1> DEFINE Stopped == \A r \in RunIds :
              (turns[r].child = "live" /\ Serves(r) /\ ~Serves(r)') =>
                  \/ turns'[r].child # "live" \/ r \in runner'.killTimers
                  \/ None \in {runner.taskId, runner'.taskId}
                  \/ \E x \in RunIds : turns[x].late
<1>1. Orderly(machine) /\ Controller!CalmInvariant /\ [Next]_vars => [Stopped]_vars
  <2> SUFFICES ASSUME Orderly(machine), Controller!CalmInvariant, Next, NEW r \in RunIds,
                      turns[r].child = "live", Serves(r), ~Serves(r)',
                      None \notin {runner.taskId, runner'.taskId},
                      \A x \in RunIds : ~turns[x].late
               PROVE  turns'[r].child # "live" \/ r \in runner'.killTimers
    BY MachineIs
  <2> QED BY StepEndsRuns
<1> QED BY <1>1, AlwaysOrderly, CalmUnderRunner, PTL DEF Spec, EndedRunsStopTheirChild, Stopped
=============================================================================
