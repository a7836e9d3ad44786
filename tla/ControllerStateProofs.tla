----------------------- MODULE ControllerStateProofs -----------------------
(***************************************************************************)
(* Facts about the reducer and the decisions, for the proofs about whoever *)
(* commits them: what removing from and inserting into the queue does, that *)
(* every event keeps the controller state well formed, that every decision *)
(* commits well formed events, and what each event changes and leaves      *)
(* alone, field by field.                                                  *)
(***************************************************************************)
EXTENDS ControllerDecisions, SequenceTheorems, WellFoundedInduction, TLAPS

\* Taking an element out of a sequence, and putting one in.
LEMMA RemoveAtProperties ==
    ASSUME NEW S, NEW s \in Seq(S), NEW i \in 1..Len(s)
    PROVE  /\ RemoveAt(s, i) \in Seq(S)
           /\ Len(RemoveAt(s, i)) = Len(s) - 1
           /\ \A j \in 1..(Len(s) - 1) :
                 RemoveAt(s, i)[j] = IF j < i THEN s[j] ELSE s[j + 1]
<1>1. /\ SubSeq(s, 1, i - 1) \in Seq(S)
      /\ Len(SubSeq(s, 1, i - 1)) = i - 1
      /\ \A j \in 1..(i - 1) : SubSeq(s, 1, i - 1)[j] = s[j]
  OBVIOUS
<1>2. /\ SubSeq(s, i + 1, Len(s)) \in Seq(S)
      /\ Len(SubSeq(s, i + 1, Len(s))) = Len(s) - i
      /\ \A j \in 1..(Len(s) - i) : SubSeq(s, i + 1, Len(s))[j] = s[i + j]
  OBVIOUS
<1>3. ASSUME NEW a \in Seq(S), NEW b \in Seq(S),
             Len(a) = i - 1, \A j \in 1..(i - 1) : a[j] = s[j],
             Len(b) = Len(s) - i, \A j \in 1..(Len(s) - i) : b[j] = s[i + j]
      PROVE  /\ a \o b \in Seq(S)
             /\ Len(a \o b) = Len(s) - 1
             /\ \A j \in 1..(Len(s) - 1) :
                   (a \o b)[j] = IF j < i THEN s[j] ELSE s[j + 1]
  BY <1>3
<1> QED BY <1>1, <1>2, <1>3 DEF RemoveAt

\* Putting an element into a sequence shifts what follows it by one.
LEMMA InsertAtProperties ==
    ASSUME NEW S, NEW s \in Seq(S), NEW i \in 1..(Len(s) + 1), NEW e \in S
    PROVE  /\ InsertAt(s, i, e) \in Seq(S)
           /\ Len(InsertAt(s, i, e)) = Len(s) + 1
           /\ \A j \in 1..(Len(s) + 1) :
                 InsertAt(s, i, e)[j] = IF j < i THEN s[j]
                                        ELSE IF j = i THEN e ELSE s[j - 1]
<1>1. /\ SubSeq(s, 1, i - 1) \in Seq(S)
      /\ Len(SubSeq(s, 1, i - 1)) = i - 1
      /\ \A j \in 1..(i - 1) : SubSeq(s, 1, i - 1)[j] = s[j]
  OBVIOUS
<1>2. /\ SubSeq(s, i, Len(s)) \in Seq(S)
      /\ Len(SubSeq(s, i, Len(s))) = Len(s) - i + 1
      /\ \A j \in 1..(Len(s) - i + 1) : SubSeq(s, i, Len(s))[j] = s[i + j - 1]
  OBVIOUS
<1>3. ASSUME NEW a \in Seq(S), NEW b \in Seq(S),
             Len(a) = i - 1, \A j \in 1..(i - 1) : a[j] = s[j],
             Len(b) = Len(s) - i + 1, \A j \in 1..(Len(s) - i + 1) : b[j] = s[i + j - 1]
      PROVE  /\ a \o <<e>> \o b \in Seq(S)
             /\ Len(a \o <<e>> \o b) = Len(s) + 1
             /\ \A j \in 1..(Len(s) + 1) :
                   (a \o <<e>> \o b)[j] = IF j < i THEN s[j]
                                          ELSE IF j = i THEN e ELSE s[j - 1]
  <2>1. /\ a \o <<e>> \in Seq(S)
        /\ Len(a \o <<e>>) = i
        /\ \A j \in 1..i : (a \o <<e>>)[j] = IF j < i THEN s[j] ELSE e
    BY <1>3
  <2>2. ASSUME NEW c \in Seq(S), Len(c) = i,
               \A j \in 1..i : c[j] = IF j < i THEN s[j] ELSE e
        PROVE  /\ c \o b \in Seq(S)
               /\ Len(c \o b) = Len(s) + 1
               /\ \A j \in 1..(Len(s) + 1) :
                     (c \o b)[j] = IF j < i THEN s[j]
                                   ELSE IF j = i THEN e ELSE s[j - 1]
    <3>1. /\ c \o b \in Seq(S)
          /\ Len(c \o b) = Len(s) + 1
          /\ \A j \in 1..(Len(s) + 1) : (c \o b)[j] = IF j <= i THEN c[j] ELSE b[j - i]
      BY <1>3, <2>2
    <3>2. ASSUME NEW j \in 1..(Len(s) + 1), j > i
          PROVE  b[j - i] = s[j - 1]
      <4>1. j - i \in 1..(Len(s) - i + 1) /\ i + (j - i) - 1 = j - 1
        BY <3>2
      <4> QED BY <4>1, <1>3
    <3> QED BY <2>2, <3>1, <3>2
  <2> QED BY <2>1, <2>2
<1> QED BY <1>1, <1>2, <1>3 DEF InsertAt

\* A set of numbers has a least one (indexOf and findIndex return it).
LEMMA SmallestNat ==
    ASSUME NEW S, S \subseteq Nat, S # {}
    PROVE  \E i \in S : \A j \in S : i <= j
<1> DEFINE R == OpToRel(<, Nat)
<1>1. IsWellFoundedOn(R, Nat)
  BY NatLessThanWellFounded
<1>2. \A i, j \in Nat : <<j, i>> \notin R => i <= j
  BY DEF OpToRel
<1> HIDE DEF R
<1>3. PICK i \in S : \A j \in S : <<j, i>> \notin R
  BY <1>1, WFMin
<1>4. \A j \in S : i <= j
  BY <1>2, <1>3
<1> QED BY <1>4

\* removeFromQueue keeps every other task.
LEMMA RemoveFromQueueProperties ==
    ASSUME NEW q \in Seq(TaskIds), NEW t \in TaskIds
    PROVE  /\ RemoveFromQueue(q, t) \in Seq(TaskIds)
           /\ \A i \in DOMAIN q : q[i] # t =>
                 \E j \in DOMAIN RemoveFromQueue(q, t) : RemoveFromQueue(q, t)[j] = q[i]
           /\ \A j \in DOMAIN RemoveFromQueue(q, t) :
                 \E i \in DOMAIN q : RemoveFromQueue(q, t)[j] = q[i]
<1> DEFINE found == {i \in DOMAIN q : q[i] = t}
           first == CHOOSE i \in found : \A j \in found : i <= j
<1>1. CASE found = {}
  BY <1>1 DEF RemoveFromQueue
<1>2. CASE found # {}
  <2>1. \E i \in found : \A j \in found : i <= j
    <3>1. found \subseteq Nat /\ found # {}
      BY <1>2
    <3> QED BY <3>1, SmallestNat
  <2>2. first \in 1..Len(q) /\ q[first] = t
    BY <2>1
  <2>3. RemoveFromQueue(q, t) = RemoveAt(q, first)
    BY <1>2 DEF RemoveFromQueue
  <2> HIDE DEF first
  <2>4. /\ RemoveAt(q, first) \in Seq(TaskIds)
        /\ Len(RemoveAt(q, first)) = Len(q) - 1
        /\ \A j \in 1..(Len(q) - 1) :
              RemoveAt(q, first)[j] = IF j < first THEN q[j] ELSE q[j + 1]
    BY <2>2, RemoveAtProperties
  <2>5. ASSUME NEW i \in DOMAIN q, q[i] # t
        PROVE  \E j \in DOMAIN RemoveAt(q, first) : RemoveAt(q, first)[j] = q[i]
    <3>1. CASE i < first
      BY <3>1, <2>2, <2>4
    <3>2. CASE i > first
      <4>1. i - 1 \in 1..(Len(q) - 1) /\ ~(i - 1 < first)
        BY <3>2, <2>2
      <4>2. RemoveAt(q, first)[i - 1] = q[(i - 1) + 1]
        BY <4>1, <2>4
      <4> QED BY <4>1, <4>2, <2>4
    <3> QED BY <2>2, <2>5, <3>1, <3>2
  <2>6. ASSUME NEW j \in DOMAIN RemoveAt(q, first)
        PROVE  \E i \in DOMAIN q : RemoveAt(q, first)[j] = q[i]
    BY <2>2, <2>4
  <2> QED BY <2>3, <2>4, <2>5, <2>6
<1> QED BY <1>1, <1>2

\* Splicing a task into the queue, at any position clamped to its length.
LEMMA InsertInQueueProperties ==
    ASSUME NEW q \in Seq(TaskIds), NEW t \in TaskIds, NEW position \in Nat
    PROVE  /\ InsertInQueue(q, t, position) \in Seq(TaskIds)
           /\ \A i \in DOMAIN q :
                 \E j \in DOMAIN InsertInQueue(q, t, position) :
                    InsertInQueue(q, t, position)[j] = q[i]
           /\ \E j \in DOMAIN InsertInQueue(q, t, position) :
                 InsertInQueue(q, t, position)[j] = t
           /\ \A j \in DOMAIN InsertInQueue(q, t, position) :
                 \/ InsertInQueue(q, t, position)[j] = t
                 \/ \E i \in DOMAIN q : InsertInQueue(q, t, position)[j] = q[i]
<1> DEFINE at == (IF position < Len(q) THEN position ELSE Len(q)) + 1
<1>1. at \in 1..(Len(q) + 1)
  OBVIOUS
<1>2. InsertInQueue(q, t, position) = InsertAt(q, at, t)
  BY DEF InsertInQueue
<1> HIDE DEF at
<1>3. InsertAt(q, at, t) \in Seq(TaskIds) /\ Len(InsertAt(q, at, t)) = Len(q) + 1
  BY <1>1, InsertAtProperties
<1>4. \A j \in 1..(Len(q) + 1) :
         InsertAt(q, at, t)[j] = IF j < at THEN q[j] ELSE IF j = at THEN t ELSE q[j - 1]
  BY <1>1, InsertAtProperties
<1>5. ASSUME NEW i \in DOMAIN q
      PROVE  \E j \in DOMAIN InsertAt(q, at, t) : InsertAt(q, at, t)[j] = q[i]
  <2>1. CASE i < at
    BY <2>1, <1>1, <1>3, <1>4
  <2>2. CASE ~(i < at)
    <3>1. i + 1 \in 1..(Len(q) + 1) /\ ~(i + 1 < at) /\ i + 1 # at /\ (i + 1) - 1 = i
      BY <2>2, <1>1
    <3>2. InsertAt(q, at, t)[i + 1] = q[i]
      BY <3>1, <1>4
    <3> QED BY <3>1, <3>2, <1>3
  <2> QED BY <2>1, <2>2
<1>6. InsertAt(q, at, t)[at] = t /\ at \in DOMAIN InsertAt(q, at, t)
  BY <1>1, <1>3, <1>4
<1>7. ASSUME NEW j \in DOMAIN InsertAt(q, at, t), InsertAt(q, at, t)[j] # t
      PROVE  \E i \in DOMAIN q : InsertAt(q, at, t)[j] = q[i]
  BY <1>1, <1>3, <1>4, <1>7
<1> QED BY <1>2, <1>3, <1>5, <1>6, <1>7

-----------------------------------------------------------------------------
(* Every event keeps the state well formed.                                *)

\* createEmptyState is well formed.
LEMMA EmptyStateTyped == EmptyState \in ControllerStates
BY NoneAssumption, ProfilesAssumption
   DEF EmptyState, ControllerStates, Task, Run, Confirmation, Question,
       NoTask, NoRun, NoConfirmation, NoQuestion, TaskStates

\* And assertInvariants accepts it.
LEMMA EmptyStateInvariants == StateInvariants(EmptyState)
BY DEF EmptyState, StateInvariants, OpenQuestions, NoTask, NoQuestion

\* The fields of a well formed state, and what may be put in their place.
LEMMA FieldsTyped ==
    ASSUME NEW s \in ControllerStates
    PROVE  /\ s.activeTaskId \in TaskIds \cup {None}
           /\ s.queue \in Seq(TaskIds)
           /\ s.tasks \in [TaskIds -> Task]
           /\ s.runs \in [RunIds -> Run]
           /\ s.confirmations \in [ConfirmationIds -> Confirmation]
           /\ s.questions \in [QuestionIds -> Question]
BY DEF ControllerStates

\* A field replaced by a value of its type leaves the state well formed.
LEMMA FieldsReplaced ==
    ASSUME NEW s \in ControllerStates
    PROVE  /\ \A a \in TaskIds \cup {None} :
                 [s EXCEPT !.activeTaskId = a] \in ControllerStates
           /\ \A q \in Seq(TaskIds) : [s EXCEPT !.queue = q] \in ControllerStates
           /\ \A f \in [TaskIds -> Task] : [s EXCEPT !.tasks = f] \in ControllerStates
           /\ \A f \in [RunIds -> Run] : [s EXCEPT !.runs = f] \in ControllerStates
           /\ \A f \in [ConfirmationIds -> Confirmation] :
                 [s EXCEPT !.confirmations = f] \in ControllerStates
           /\ \A f \in [QuestionIds -> Question] :
                 [s EXCEPT !.questions = f] \in ControllerStates
BY DEF ControllerStates

\* The updates the events make to a task keep it a task.
LEMMA TaskUpdates ==
    ASSUME NEW task \in Task, NEW r \in RunIds, NEW n \in Nat, NEW p \in Profiles
    PROVE  /\ [task EXCEPT !.state = "queued"] \in Task
           /\ [task EXCEPT !.state = "running", !.pendingQuestion = FALSE,
                           !.activeRunId = r, !.lastRunId = r] \in Task
           /\ [task EXCEPT !.state = "pause_requested"] \in Task
           /\ [task EXCEPT !.state = "paused", !.activeRunId = None] \in Task
           /\ [task EXCEPT !.state = "awaiting_user", !.pendingQuestion = TRUE,
                           !.activeRunId = None] \in Task
           /\ [task EXCEPT !.session = r, !.boundary = FALSE] \in Task
           /\ [task EXCEPT !.boundary = TRUE] \in Task
           /\ [task EXCEPT !.revision = n, !.profile = p,
                           !.pendingQuestion = FALSE] \in Task
           /\ [task EXCEPT !.conflict = TRUE] \in Task
           /\ [task EXCEPT !.conflict = FALSE] \in Task
           /\ \A x \in TerminalStates :
                 [task EXCEPT !.state = x, !.activeRunId = None,
                              !.pendingQuestion = FALSE] \in Task
BY DEF Task, TaskStates, LiveStates

\* So does replacing one task by a task.
LEMMA SetTaskTyped ==
    ASSUME NEW s \in ControllerStates, NEW t \in TaskIds, NEW task \in Task
    PROVE  SetTask(s, t, task) \in ControllerStates
<1>1. [s.tasks EXCEPT ![t] = task] \in [TaskIds -> Task]
  BY FieldsTyped
<1> QED BY <1>1, FieldsReplaced DEF SetTask

\* A run that the state holds can be ended with any of the run states.
LEMMA EndRunTyped ==
    ASSUME NEW s \in ControllerStates, NEW r \in RunIds,
           s.runs[r].state # "none", NEW x \in RunStates \ {"none"}
    PROVE  EndRun(s, r, x) \in ControllerStates
<1>1. s.runs[r] \in Run /\ s.runs[r] # NoRun
  BY FieldsTyped DEF NoRun
<1>2. s.runs[r] \in [taskId : TaskIds, taskRevision : Nat, state : RunStates \ {"none"}]
  BY <1>1 DEF Run
<1>3. [s.runs[r] EXCEPT !.state = x] \in Run
  BY <1>2 DEF Run
<1>4. [s.runs EXCEPT ![r] = [s.runs[r] EXCEPT !.state = x]] \in [RunIds -> Run]
  BY <1>3, FieldsTyped
<1> QED BY <1>4, FieldsReplaced DEF EndRun

\* A permission card that the state holds can be given any of its states.
LEMMA SetConfirmationTyped ==
    ASSUME NEW s \in ControllerStates, NEW c \in ConfirmationIds,
           s.confirmations[c].state # "none", NEW x \in ConfirmationStates \ {"none"}
    PROVE  SetConfirmation(s, c, x) \in ControllerStates
<1>1. s.confirmations[c] \in Confirmation /\ s.confirmations[c] # NoConfirmation
  BY FieldsTyped DEF NoConfirmation
<1>2. [s.confirmations[c] EXCEPT !.state = x] \in Confirmation
  BY <1>1 DEF Confirmation
<1>3. [s.confirmations EXCEPT ![c] = [s.confirmations[c] EXCEPT !.state = x]]
          \in [ConfirmationIds -> Confirmation]
  BY <1>2, FieldsTyped
<1> QED BY <1>3, FieldsReplaced DEF SetConfirmation

\* An ended question stays a question.
LEMMA QuestionUpdated ==
    ASSUME NEW s \in ControllerStates, NEW q \in QuestionIds,
           s.questions[q].state # "none", NEW x \in QuestionStates \ {"none"}
    PROVE  [s.questions[q] EXCEPT !.state = x] \in Question
<1>1. s.questions[q] \in Question /\ s.questions[q] # NoQuestion
  BY FieldsTyped DEF NoQuestion
<1> QED BY <1>1 DEF Question

\* Ending a task, whatever the outcome, leaves the state well formed.
LEMMA RetireTyped ==
    ASSUME NEW s \in ControllerStates, NEW t \in TaskIds, NEW x \in TerminalStates
    PROVE  Retire(s, t, x) \in ControllerStates
<1> DEFINE task == [s.tasks[t] EXCEPT !.state = x, !.activeRunId = None,
                                      !.pendingQuestion = FALSE]
           s1 == SetTask(s, t, task)
           s2 == [s1 EXCEPT !.queue = RemoveFromQueue(s.queue, t)]
           slot == IF s.activeTaskId = t THEN None ELSE s.activeTaskId
<1>1. task \in Task
  <2>1. s.tasks[t] \in Task
    BY FieldsTyped
  <2> QED BY <2>1 DEF Task, TaskStates
<1>2. s1 \in ControllerStates
  BY <1>1, SetTaskTyped
<1>3. RemoveFromQueue(s.queue, t) \in Seq(TaskIds)
  BY FieldsTyped, RemoveFromQueueProperties
<1>4. s2 \in ControllerStates
  <2> HIDE DEF s1
  <2> QED BY <1>2, <1>3, FieldsReplaced
<1>5. s2.activeTaskId = s.activeTaskId
  BY DEF SetTask, ControllerStates
<1>6. slot \in TaskIds \cup {None}
  BY FieldsTyped
<1>7. [s2 EXCEPT !.activeTaskId = slot] \in ControllerStates
  <2> HIDE DEF s2, slot
  <2> QED BY <1>4, <1>6, FieldsReplaced
<1>8. Retire(s, t, x) = [s2 EXCEPT !.activeTaskId = slot]
  BY <1>5 DEF Retire, SetTask, ControllerStates
<1> QED BY <1>7, <1>8

\* Suspending a task for a question, or for an answer in free text.
LEMMA TaskAwaitingUserTyped ==
    ASSUME NEW s \in ControllerStates, NEW e, e.taskId \in TaskIds, e.runId \in RunIds,
           s.runs[e.runId].state # "none"
    PROVE  /\ TaskAwaitingUser(s, e) \in ControllerStates
           /\ TaskAwaitingUser(s, e).questions = s.questions
<1>1. [s.tasks[e.taskId] EXCEPT !.state = "awaiting_user", !.pendingQuestion = TRUE,
                                !.activeRunId = None] \in Task
  <2>1. s.tasks[e.taskId] \in Task
    BY FieldsTyped
  <2> QED BY <2>1 DEF Task, TaskStates, LiveStates
<1>2. EndRun(s, e.runId, "paused") \in ControllerStates
  BY EndRunTyped DEF RunStates
<1>3. TaskAwaitingUser(s, e) \in ControllerStates
  BY <1>1, <1>2, SetTaskTyped DEF TaskAwaitingUser
<1>4. TaskAwaitingUser(s, e).questions = s.questions
  BY DEF TaskAwaitingUser, SetTask, EndRun, ControllerStates
<1> QED BY <1>3, <1>4

\* task.enqueued keeps the state well formed.
LEMMA TaskEnqueuedTyped ==
    ASSUME NEW s \in ControllerStates, NEW e, e.taskId \in TaskIds, e.position \in Nat
    PROVE  TaskEnqueued(s, e) \in ControllerStates
<1>1. [s.tasks[e.taskId] EXCEPT !.state = "queued"] \in Task
  <2>1. s.tasks[e.taskId] \in Task
    BY FieldsTyped
  <2> QED BY <2>1 DEF Task, TaskStates
<1>2. InsertInQueue(RemoveFromQueue(s.queue, e.taskId), e.taskId, e.position)
          \in Seq(TaskIds)
  BY FieldsTyped, RemoveFromQueueProperties, InsertInQueueProperties
<1>3. SetTask(s, e.taskId, [s.tasks[e.taskId] EXCEPT !.state = "queued"])
          \in ControllerStates
  BY <1>1, SetTaskTyped
<1> QED BY <1>2, <1>3, FieldsReplaced DEF TaskEnqueued

\* task.started and task.resumed keep the state well formed.
LEMMA TaskStartedTyped ==
    ASSUME NEW s \in ControllerStates, NEW e, e.taskId \in TaskIds, e.runId \in RunIds,
           e.revision \in Nat
    PROVE  TaskStarted(s, e) \in ControllerStates
<1> DEFINE task == [s.tasks[e.taskId] EXCEPT !.state = "running",
                        !.pendingQuestion = FALSE, !.activeRunId = e.runId,
                        !.lastRunId = e.runId]
           run == [taskId |-> e.taskId, taskRevision |-> e.revision, state |-> "running"]
           s1 == SetTask(s, e.taskId, task)
           queue == RemoveFromQueue(s.queue, e.taskId)
           runs == [s.runs EXCEPT ![e.runId] = run]
<1>1. s1 \in ControllerStates
  <2>1. s.tasks[e.taskId] \in Task
    BY FieldsTyped
  <2>2. task \in Task
    BY <2>1 DEF Task, TaskStates, LiveStates
  <2> QED BY <2>2, SetTaskTyped
<1>2. queue \in Seq(TaskIds)
  BY FieldsTyped, RemoveFromQueueProperties
<1>3. runs \in [RunIds -> Run]
  <2>1. run \in Run
    BY DEF Run, RunStates
  <2> QED BY <2>1, FieldsTyped
<1>4. TaskStarted(s, e) =
          [s1 EXCEPT !.queue = queue, !.runs = runs, !.activeTaskId = e.taskId]
  BY DEF TaskStarted
<1> HIDE DEF s1, queue, runs
<1> QED BY <1>1, <1>2, <1>3, <1>4 DEF ControllerStates

\* task.specRevised, with the questions it supersedes, keeps it well formed.
LEMMA TaskSpecRevisedTyped ==
    ASSUME NEW s \in ControllerStates, NEW e, e.taskId \in TaskIds, e.revision \in Nat,
           e.profile \in Profiles
    PROVE  TaskSpecRevised(s, e) \in ControllerStates
<1> DEFINE task == [s.tasks[e.taskId] EXCEPT !.revision = e.revision,
                        !.profile = e.profile, !.pendingQuestion = FALSE]
           s1 == SetTask(s, e.taskId, task)
           questions == [q \in QuestionIds |->
                IF s.questions[q].taskId = e.taskId /\ s.questions[q].state = "open"
                THEN [s.questions[q] EXCEPT !.state = "superseded"]
                ELSE s.questions[q]]
<1>1. s1 \in ControllerStates
  <2>1. s.tasks[e.taskId] \in Task
    BY FieldsTyped
  <2>2. task \in Task
    BY <2>1 DEF Task
  <2> QED BY <2>2, SetTaskTyped
<1>2. questions \in [QuestionIds -> Question]
  <2>1. ASSUME NEW q \in QuestionIds, s.questions[q].state = "open"
        PROVE  [s.questions[q] EXCEPT !.state = "superseded"] \in Question
    BY <2>1, QuestionUpdated DEF QuestionStates
  <2> QED BY <2>1, FieldsTyped
<1>3. TaskSpecRevised(s, e) = [s1 EXCEPT !.questions = questions]
  BY DEF TaskSpecRevised
<1> HIDE DEF s1, questions
<1> QED BY <1>1, <1>2, <1>3, FieldsReplaced

\* Which operator stands for which event.
LEMMA ApplyCases ==
    ASSUME NEW s, NEW e
    PROVE  /\ e.type = "task.created" => Apply(s, e) = TaskCreated(s, e)
           /\ e.type = "task.enqueued" => Apply(s, e) = TaskEnqueued(s, e)
           /\ e.type \in {"task.started", "task.resumed"} =>
                 Apply(s, e) = TaskStarted(s, e)
           /\ e.type = "task.pauseRequested" => Apply(s, e) = TaskPauseRequested(s, e)
           /\ e.type = "task.paused" => Apply(s, e) = TaskPaused(s, e)
           /\ e.type = "task.awaitingUser" => Apply(s, e) = TaskAwaitingUser(s, e)
           /\ e.type = "task.questionAsked" => Apply(s, e) = TaskQuestionAsked(s, e)
           /\ e.type = "task.questionAnswered" =>
                 Apply(s, e) = TaskQuestionAnswered(s, e)
           /\ e.type = "coder.sessionBound" => Apply(s, e) = CoderSessionBound(s, e)
           /\ e.type = "coder.recoveryBoundary" =>
                 Apply(s, e) = CoderRecoveryBoundary(s, e)
           /\ e.type = "task.specRevised" => Apply(s, e) = TaskSpecRevised(s, e)
           /\ e.type = "task.completed" => Apply(s, e) = TaskCompleted(s, e)
           /\ e.type = "task.failed" => Apply(s, e) = TaskFailed(s, e)
           /\ e.type = "task.cancelled" => Apply(s, e) = TaskCancelled(s, e)
           /\ e.type = "run.interrupted" => Apply(s, e) = RunInterrupted(s, e)
           /\ e.type = "workspace.conflictDetected" =>
                 Apply(s, e) = WorkspaceConflictDetected(s, e)
           /\ e.type = "workspace.conflictResolved" =>
                 Apply(s, e) = WorkspaceConflictResolved(s, e)
           /\ e.type = "approval.requested" => Apply(s, e) = ApprovalRequested(s, e)
           /\ e.type = "approval.resolved" => Apply(s, e) = ApprovalResolved(s, e)
           /\ e.type = "approval.consumed" => Apply(s, e) = ApprovalConsumed(s, e)
           /\ e.type = "queue.reordered" => Apply(s, e) = QueueReordered(s, e)
BY DEF Apply

\* What an event that fits says about the records it names.
LEMMA FitsRecords ==
    ASSUME NEW s, NEW e, Fits(s, e)
    PROVE  /\ e.type \in RunIsRequired => s.runs[e.runId].state # "none"
           /\ e.type = "task.cancelled" =>
                 \/ s.tasks[e.taskId].activeRunId = None
                 \/ s.runs[s.tasks[e.taskId].activeRunId].state # "none"
           /\ e.type = "task.questionAnswered" => s.questions[e.questionId].state # "none"
           /\ e.type \in {"approval.resolved", "approval.consumed"} =>
                 s.confirmations[e.confirmationId].state # "none"
BY DEF Fits

\* The events about a task and nothing else.
LEMMA TaskEventsTyped ==
    ASSUME NEW s \in ControllerStates, NEW e \in TaskEvents, Fits(s, e)
    PROVE  Apply(s, e) \in ControllerStates
<1> DEFINE t == e.taskId
           task == s.tasks[t]
<1>1. t \in TaskIds /\ e.type \in TaskOnly
  BY DEF TaskEvents
<1>2. task \in Task
  BY <1>1, FieldsTyped
<1>3. CASE e.type = "task.pauseRequested"
  <2>1. [task EXCEPT !.state = "pause_requested"] \in Task
    BY <1>2 DEF Task, TaskStates, LiveStates
  <2> QED BY <1>1, <1>3, <2>1, ApplyCases, SetTaskTyped DEF TaskPauseRequested
<1>4. CASE e.type = "task.cancelled"
  <2> DEFINE r == task.activeRunId
             ended == IF r = None THEN s ELSE EndRun(s, r, "cancelled")
  <2>1. r \in RunIds \cup {None}
    BY <1>2 DEF Task
  <2>2. r = None \/ s.runs[r].state # "none"
    BY <1>4, FitsRecords
  <2>3. ended \in ControllerStates
    BY <2>1, <2>2, EndRunTyped DEF RunStates
  <2>4. Apply(s, e) = Retire(ended, t, "cancelled")
    BY <1>4, ApplyCases DEF TaskCancelled
  <2> HIDE DEF ended
  <2> QED BY <1>1, <2>3, <2>4, RetireTyped DEF TerminalStates
<1>5. CASE e.type = "workspace.conflictDetected"
  <2>1. [task EXCEPT !.conflict = TRUE] \in Task
    BY <1>2 DEF Task
  <2> QED BY <1>1, <1>5, <2>1, ApplyCases, SetTaskTyped DEF WorkspaceConflictDetected
<1>6. CASE e.type = "workspace.conflictResolved"
  <2>1. [task EXCEPT !.conflict = FALSE] \in Task
    BY <1>2 DEF Task
  <2> QED BY <1>1, <1>6, <2>1, ApplyCases, SetTaskTyped DEF WorkspaceConflictResolved
<1> QED BY <1>1, <1>3, <1>4, <1>5, <1>6 DEF TaskOnly

\* The events about a task and one of its runs.
LEMMA RunEventsTyped ==
    ASSUME NEW s \in ControllerStates, NEW e \in RunEvents, Fits(s, e)
    PROVE  Apply(s, e) \in ControllerStates
<1> DEFINE t == e.taskId
           r == e.runId
           task == s.tasks[t]
<1>1. t \in TaskIds /\ r \in RunIds /\ e.type \in TaskAndRun
  BY DEF RunEvents
<1>2. task \in Task
  BY <1>1, FieldsTyped
<1>3. e.type \in RunIsRequired => s.runs[r].state # "none"
  BY FitsRecords
<1>4. CASE e.type = "task.paused"
  <2>1. [task EXCEPT !.state = "paused", !.activeRunId = None] \in Task
    BY <1>2 DEF Task, TaskStates, LiveStates
  <2>2. EndRun(s, r, "paused") \in ControllerStates
    BY <1>1, <1>3, <1>4, EndRunTyped DEF RunIsRequired, RunStates
  <2> QED BY <1>1, <1>4, <2>1, <2>2, ApplyCases, SetTaskTyped DEF TaskPaused
<1>5. CASE e.type = "task.awaitingUser"
  BY <1>1, <1>3, <1>5, ApplyCases, TaskAwaitingUserTyped DEF RunIsRequired
<1>6. CASE e.type = "coder.sessionBound"
  <2>1. [task EXCEPT !.session = r, !.boundary = FALSE] \in Task
    BY <1>1, <1>2 DEF Task
  <2> QED BY <1>1, <1>6, <2>1, ApplyCases, SetTaskTyped DEF CoderSessionBound
<1>7. CASE e.type = "coder.recoveryBoundary"
  <2>1. [task EXCEPT !.boundary = TRUE] \in Task
    BY <1>2 DEF Task
  <2> QED BY <1>1, <1>7, <2>1, ApplyCases, SetTaskTyped DEF CoderRecoveryBoundary
<1>8. CASE e.type = "task.completed"
  <2>1. EndRun(s, r, "completed") \in ControllerStates
    BY <1>1, <1>3, <1>8, EndRunTyped DEF RunIsRequired, RunStates
  <2> QED BY <1>1, <1>8, <2>1, ApplyCases, RetireTyped DEF TaskCompleted, TerminalStates
<1>9. CASE e.type = "task.failed"
  <2>1. EndRun(s, r, "failed") \in ControllerStates
    BY <1>1, <1>3, <1>9, EndRunTyped DEF RunIsRequired, RunStates
  <2> QED BY <1>1, <1>9, <2>1, ApplyCases, RetireTyped DEF TaskFailed, TerminalStates
<1>10. CASE e.type = "run.interrupted"
  <2>1. EndRun(s, r, "interrupted") \in ControllerStates
    BY <1>1, <1>3, <1>10, EndRunTyped DEF RunIsRequired, RunStates
  <2> QED BY <1>10, <2>1, ApplyCases DEF RunInterrupted
<1> QED BY <1>1, <1>4, <1>5, <1>6, <1>7, <1>8, <1>9, <1>10 DEF TaskAndRun

\* Every event that fits turns a well formed state into a well formed state.
THEOREM ApplyTyped ==
    ASSUME NEW s \in ControllerStates, NEW e \in Events, Fits(s, e)
    PROVE  Apply(s, e) \in ControllerStates
<1>1. CASE e \in CreatedEvents
  <2>1. [NoTask EXCEPT !.state = "queued", !.profile = e.profile,
                       !.revision = e.revision] \in Task
    BY <1>1 DEF CreatedEvents, NoTask, Task, TaskStates
  <2> QED BY <1>1, <2>1, ApplyCases, SetTaskTyped DEF TaskCreated, CreatedEvents
<1>2. CASE e \in EnqueuedEvents
  BY <1>2, ApplyCases, TaskEnqueuedTyped DEF EnqueuedEvents
<1>3. CASE e \in StartedEvents
  BY <1>3, ApplyCases, TaskStartedTyped DEF StartedEvents
<1>4. CASE e \in TaskEvents
  BY <1>4, TaskEventsTyped
<1>5. CASE e \in RunEvents
  BY <1>5, RunEventsTyped
<1>6. CASE e \in AskedEvents
  <2> DEFINE question == [taskId |-> e.taskId, taskRevision |-> e.revision,
                          runId |-> e.runId, state |-> "open"]
             suspended == TaskAwaitingUser(s, e)
  <2>1. /\ e.type = "task.questionAsked" /\ e.taskId \in TaskIds
        /\ e.runId \in RunIds /\ e.questionId \in QuestionIds /\ e.revision \in Nat
    BY <1>6 DEF AskedEvents
  <2>2. s.runs[e.runId].state # "none"
    BY <2>1, FitsRecords DEF RunIsRequired
  <2>3. suspended \in ControllerStates /\ suspended.questions = s.questions
    BY <2>1, <2>2, TaskAwaitingUserTyped
  <2>4. [s.questions EXCEPT ![e.questionId] = question] \in [QuestionIds -> Question]
    <3>1. question \in Question
      BY <2>1 DEF Question, QuestionStates
    <3> QED BY <3>1, FieldsTyped
  <2>5. Apply(s, e) = [suspended EXCEPT !.questions =
                          [s.questions EXCEPT ![e.questionId] = question]]
    BY <2>1, ApplyCases DEF TaskQuestionAsked
  <2> HIDE DEF suspended, question
  <2> QED BY <2>3, <2>4, <2>5, FieldsReplaced
<1>7. CASE e \in AnsweredEvents
  <2>1. e.type = "task.questionAnswered" /\ e.questionId \in QuestionIds
    BY <1>7 DEF AnsweredEvents
  <2>2. [s.questions[e.questionId] EXCEPT !.state = "answered"] \in Question
    BY <2>1, FitsRecords, QuestionUpdated DEF QuestionStates
  <2>3. [s.questions EXCEPT ![e.questionId] =
            [s.questions[e.questionId] EXCEPT !.state = "answered"]]
            \in [QuestionIds -> Question]
    BY <2>2, FieldsTyped
  <2>4. Apply(s, e) = TaskQuestionAnswered(s, e)
    BY <2>1, ApplyCases
  <2> QED BY <2>3, <2>4, FieldsReplaced DEF TaskQuestionAnswered
<1>8. CASE e \in RevisedEvents
  BY <1>8, ApplyCases, TaskSpecRevisedTyped DEF RevisedEvents
<1>9. CASE e \in RequestedEvents
  <2> DEFINE card == [taskId |-> e.taskId, taskRevision |-> e.revision,
                      fingerprint |-> e.fingerprint, state |-> "pending"]
  <2>1. card \in Confirmation
    BY <1>9 DEF RequestedEvents, Confirmation, ConfirmationStates
  <2>2. [s.confirmations EXCEPT ![e.confirmationId] = card]
            \in [ConfirmationIds -> Confirmation]
    BY <2>1, FieldsTyped
  <2>3. Apply(s, e) = ApprovalRequested(s, e)
    BY <1>9, ApplyCases DEF RequestedEvents
  <2> QED BY <2>2, <2>3, FieldsReplaced DEF ApprovalRequested
<1>10. CASE e \in ResolvedEvents
  <2>1. /\ e.type = "approval.resolved" /\ e.confirmationId \in ConfirmationIds
        /\ s.confirmations[e.confirmationId].state # "none"
    BY <1>10, FitsRecords DEF ResolvedEvents
  <2> QED BY <2>1, ApplyCases, SetConfirmationTyped
          DEF ApprovalResolved, ConfirmationStates
<1>11. CASE e \in ConsumedEvents
  <2>1. /\ e.type = "approval.consumed" /\ e.confirmationId \in ConfirmationIds
        /\ s.confirmations[e.confirmationId].state # "none"
    BY <1>11, FitsRecords DEF ConsumedEvents
  <2> QED BY <2>1, ApplyCases, SetConfirmationTyped
          DEF ApprovalConsumed, ConfirmationStates
<1>12. CASE e \in ReorderedEvents
  BY <1>12, ApplyCases, FieldsReplaced DEF QueueReordered, ReorderedEvents
<1> QED BY <1>1, <1>2, <1>3, <1>4, <1>5, <1>6, <1>7, <1>8, <1>9, <1>10, <1>11, <1>12
        DEF Events

\* The memory of the controller, whatever it is asked to apply, stays well formed.
LEMMA ApplyCheckedTyped ==
    ASSUME NEW m \in [state : ControllerStates, ok : BOOLEAN], NEW e \in Events
    PROVE  ApplyChecked(m, e) \in [state : ControllerStates, ok : BOOLEAN]
<1>1. m.state \in ControllerStates
  OBVIOUS
<1>2. CASE ~m.ok
  BY <1>2 DEF ApplyChecked
<1>3. CASE m.ok /\ ~Fits(m.state, e)
  BY <1>3 DEF ApplyChecked
<1>4. CASE m.ok /\ Fits(m.state, e)
  <2>1. Apply(m.state, e) \in ControllerStates
    BY <1>1, <1>4, ApplyTyped
  <2>2. StateInvariants(Apply(m.state, e)) \in BOOLEAN
    BY DEF StateInvariants
  <2> QED BY <1>4, <2>1, <2>2 DEF ApplyChecked
<1> QED BY <1>2, <1>3, <1>4

\* The first n steps of a decision from memory m.
Steps(g, m, events, n) ==
    /\ g = [i \in 0..n |-> g[i]] /\ g[0] = m
    /\ \A i \in 1..n : g[i] = ApplyChecked(g[i - 1], events[i])

\* There are such steps, event by event.
LEMMA StepsExist ==
    ASSUME NEW m, NEW events, NEW len \in Nat
    PROVE  \E g : Steps(g, m, events, len)
<1> DEFINE Bad == {n \in 0..len : ~ \E g : Steps(g, m, events, n)}
<1>1. SUFFICES ASSUME Bad # {} PROVE FALSE
  <2>1. len \in 0..len
    OBVIOUS
  <2>2. Bad = {} => \E g : Steps(g, m, events, len)
    BY <2>1
  <2> QED BY <2>2
<1>2. PICK n \in Bad : \A k \in Bad : n <= k
  <2>1. Bad \in SUBSET Nat
    OBVIOUS
  <2> HIDE DEF Bad
  <2> QED BY <1>1, <2>1, SmallestNat
<1>3. n \in 0..len /\ ~ \E g : Steps(g, m, events, n)
  OBVIOUS
<1>4. CASE n = 0
  <2> DEFINE g == [i \in 0..0 |-> m]
  <2>1. g = [i \in 0..0 |-> g[i]] /\ g[0] = m /\ \A i \in 1..0 : FALSE
    OBVIOUS
  <2> HIDE DEF g
  <2>2. Steps(g, m, events, 0)
    BY <2>1 DEF Steps
  <2> QED BY <1>3, <1>4, <2>2
<1>5. CASE n # 0
  <2>1. n - 1 \in 0..len /\ n - 1 \in Nat /\ n \in Nat /\ ~(n <= n - 1)
    BY <1>3, <1>5
  <2>2. n - 1 \notin Bad
    BY <1>2, <2>1
  <2>3. PICK g : Steps(g, m, events, n - 1)
    BY <2>1, <2>2
  <2> DEFINE e == ApplyChecked(g[n - 1], events[n])
             h == [i \in 0..n |-> IF i = n THEN e ELSE g[i]]
  <2>4. /\ h = [i \in 0..n |-> h[i]] /\ h[n] = e /\ h[0] = g[0]
        /\ \A i \in 1..(n - 1) : h[i] = g[i]
        /\ \A i \in 1..n : h[i - 1] = g[i - 1]
    BY <1>5, <2>1
  <2>5. e = ApplyChecked(g[n - 1], events[n])
    OBVIOUS
  <2> HIDE DEF h, e
  <2>6. \A i \in 1..n : h[i] = ApplyChecked(h[i - 1], events[i])
    <3> TAKE i \in 1..n
    <3>1. CASE i = n
      BY <2>4, <2>5, <3>1
    <3>2. CASE i # n
      <4>1. i \in 1..(n - 1)
        BY <2>1, <3>2
      <4>2. g[i] = ApplyChecked(g[i - 1], events[i])
        BY <2>3, <4>1 DEF Steps
      <4> QED BY <2>4, <4>1, <4>2
    <3> QED BY <3>1, <3>2
  <2>7. Steps(h, m, events, n)
    BY <2>3, <2>4, <2>6 DEF Steps
  <2> QED BY <1>3, <2>7
<1> QED BY <1>4, <1>5

\* A decision leaves what the last of its steps leaves.
LEMMA DecisionSteps ==
    ASSUME NEW m, NEW events, NEW len \in Nat, Len(events) = len
    PROVE  \E f : Steps(f, m, events, len) /\ ApplyDecision(m, events) = f[len]
<1> DEFINE Is(f) == f = [i \in 0..len |-> IF i = 0 THEN m
                                          ELSE ApplyChecked(f[i - 1], events[i])]
           f == CHOOSE h : Is(h)
<1>1. ApplyDecision(m, events) = f[len]
  BY DEF ApplyDecision
<1>2. PICK g : Steps(g, m, events, len)
  BY StepsExist
<1>3. Is(g)
  <2>1. /\ g = [i \in 0..len |-> g[i]] /\ g[0] = m
        /\ \A i \in 1..len : g[i] = ApplyChecked(g[i - 1], events[i])
    BY <1>2 DEF Steps
  <2>2. \A i \in 0..len : i = 0 \/ i \in 1..len
    OBVIOUS
  <2>3. [i \in 0..len |-> g[i]] = [i \in 0..len |-> IF i = 0 THEN m
                                          ELSE ApplyChecked(g[i - 1], events[i])]
    BY <2>1, <2>2
  <2> QED BY <2>1, <2>3
<1>4. Is(f)
  <2> HIDE DEF Is
  <2> QED BY <1>3
<1> HIDE DEF f
<1>5. f = [i \in 0..len |-> IF i = 0 THEN m ELSE ApplyChecked(f[i - 1], events[i])]
  BY <1>4
<1>6. Steps(f, m, events, len)
  <2> DEFINE e(i) == ApplyChecked(f[i - 1], events[i])
  <2>1. f = [i \in 0..len |-> IF i = 0 THEN m ELSE e(i)]
    BY <1>5
  <2>2. f[0] = m /\ \A i \in 1..len : f[i] = e(i)
    <3> HIDE DEF e
    <3> QED BY <2>1
  <2>3. f = [i \in 0..len |-> f[i]]
    <3> HIDE DEF e
    <3> QED BY <2>1
  <2> QED BY <2>2, <2>3 DEF Steps
<1> QED BY <1>1, <1>6

\* The loop written out for the first three events.
LoopOfThree(m, events) ==
    LET m1 == ApplyChecked(m, events[1])
        m2 == IF Len(events) < 2 THEN m1 ELSE ApplyChecked(m1, events[2])
    IN  IF Len(events) < 3 THEN m2 ELSE ApplyChecked(m2, events[3])

\* No decision has more: applying a decision is the loop written out.
LEMMA FewSteps ==
    ASSUME NEW m, NEW events, Len(events) \in 1..3
    PROVE  ApplyDecision(m, events) = LoopOfThree(m, events)
<1> DEFINE m1 == ApplyChecked(m, events[1])
           m2 == ApplyChecked(m1, events[2])
           m3 == ApplyChecked(m2, events[3])
           len == Len(events)
<1>1. len \in Nat /\ (len = 1 \/ len = 2 \/ len = 3) /\ len = Len(events)
  OBVIOUS
<1> HIDE DEF len
<1>2. PICK f : Steps(f, m, events, len) /\ ApplyDecision(m, events) = f[len]
  BY <1>1, DecisionSteps
<1>3. f[1] = m1
  <2>1. 1 \in 1..len /\ 1 - 1 = 0
    BY <1>1
  <2> QED BY <1>2, <2>1 DEF Steps
<1>4. len > 1 => f[2] = m2
  <2> HAVE len > 1
  <2>1. 2 \in 1..len /\ 2 - 1 = 1
    BY <1>1
  <2> QED BY <1>2, <1>3, <2>1 DEF Steps
<1>5. len > 2 => f[3] = m3
  <2> HAVE len > 2
  <2>1. 3 \in 1..len /\ 3 - 1 = 2 /\ len > 1
    BY <1>1
  <2> QED BY <1>2, <1>4, <2>1 DEF Steps
<1>6. f[len] = IF len = 1 THEN m1 ELSE IF len = 2 THEN m2 ELSE m3
  <2> HIDE DEF m1, m2, m3
  <2> QED BY <1>1, <1>3, <1>4, <1>5
<1>7. LoopOfThree(m, events) = IF len < 3 THEN (IF len < 2 THEN m1 ELSE m2)
                               ELSE ApplyChecked(IF len < 2 THEN m1 ELSE m2, events[3])
  BY DEF LoopOfThree, len
<1>8. m3 = ApplyChecked(m2, events[3])
  OBVIOUS
<1> HIDE DEF m1, m2, m3
<1> QED BY <1>1, <1>2, <1>6, <1>7, <1>8

\* A decision of one event, ...
LEMMA DecisionOfOne ==
    ASSUME NEW m, NEW e
    PROVE  ApplyDecision(m, <<e>>) = ApplyChecked(m, e)
<1>1. <<e>>[1] = e /\ Len(<<e>>) = 1
  OBVIOUS
<1> QED BY <1>1, FewSteps DEF LoopOfThree

\* ... of two, ...
LEMMA DecisionOfTwo ==
    ASSUME NEW m, NEW e, NEW f
    PROVE  ApplyDecision(m, <<e, f>>) = ApplyChecked(ApplyChecked(m, e), f)
<1>1. <<e, f>>[1] = e /\ <<e, f>>[2] = f /\ Len(<<e, f>>) = 2
  OBVIOUS
<1> QED BY <1>1, FewSteps DEF LoopOfThree

\* ... and of three events.
LEMMA DecisionOfThree ==
    ASSUME NEW m, NEW e, NEW f, NEW g
    PROVE  ApplyDecision(m, <<e, f, g>>)
             = ApplyChecked(ApplyChecked(ApplyChecked(m, e), f), g)
<1>1. /\ <<e, f, g>>[1] = e /\ <<e, f, g>>[2] = f /\ <<e, f, g>>[3] = g
      /\ Len(<<e, f, g>>) = 3
  OBVIOUS
<1> QED BY <1>1, FewSteps DEF LoopOfThree

\* Applying a whole decision, to the end or up to the event that throws, leaves
\* the memory of the controller well formed.
THEOREM ApplyDecisionTyped ==
    ASSUME NEW m \in [state : ControllerStates, ok : BOOLEAN],
           NEW events \in Seq(Events)
    PROVE  ApplyDecision(m, events) \in [state : ControllerStates, ok : BOOLEAN]
<1> DEFINE M == [state : ControllerStates, ok : BOOLEAN]
           len == Len(events)
<1>1. len \in Nat /\ \A i \in 1..len : events[i] \in Events
  OBVIOUS
<1>2. PICK f : Steps(f, m, events, len) /\ ApplyDecision(m, events) = f[len]
  BY <1>1, DecisionSteps
<1> HIDE DEF len
<1> DEFINE Bad == {n \in 0..len : f[n] \notin M}
<1>3. Bad = {}
  <2>1. SUFFICES ASSUME Bad # {} PROVE FALSE
    OBVIOUS
  <2>2. PICK n \in Bad : \A k \in Bad : n <= k
    <3>1. Bad \in SUBSET Nat
      OBVIOUS
    <3> HIDE DEF Bad
    <3> QED BY <2>1, <3>1, SmallestNat
  <2>3. n \in 0..len /\ f[n] \notin M
    OBVIOUS
  <2>4. n # 0
    BY <1>2, <2>3 DEF Steps
  <2>5. n - 1 \in 0..len /\ n \in 1..len /\ ~(n <= n - 1)
    BY <1>1, <2>3, <2>4
  <2>6. f[n - 1] \in M
    BY <2>2, <2>5
  <2>7. f[n] = ApplyChecked(f[n - 1], events[n]) /\ events[n] \in Events
    BY <1>1, <1>2, <2>5 DEF Steps
  <2> QED BY <2>3, <2>6, <2>7, ApplyCheckedTyped
<1>4. f[len] \in M
  <2>1. len \in 0..len
    BY <1>1
  <2> QED BY <1>3, <2>1
<1> QED BY <1>2, <1>4
-----------------------------------------------------------------------------
(* What the decisions pick.                                                *)

\* The ids that a decision creates are unused ones, when one is left.
LEMMA NewIds ==
    ASSUME NEW s
    PROVE  /\ TaskLeft(s) =>
                 NewTask(s) \in TaskIds /\ s.tasks[NewTask(s)].state = "none"
           /\ RunLeft(s) => NewRun(s) \in RunIds /\ s.runs[NewRun(s)].state = "none"
           /\ ConfirmationLeft(s) =>
                 /\ NewConfirmation(s) \in ConfirmationIds
                 /\ s.confirmations[NewConfirmation(s)].state = "none"
<1>1. ASSUME TaskLeft(s)
      PROVE  NewTask(s) \in {x \in TaskIds : s.tasks[x].state = "none"}
  BY <1>1 DEF TaskLeft, NewTask
<1>2. ASSUME RunLeft(s)
      PROVE  NewRun(s) \in {x \in RunIds : s.runs[x].state = "none"}
  BY <1>2 DEF RunLeft, NewRun
<1>3. ASSUME ConfirmationLeft(s)
      PROVE  NewConfirmation(s) \in {x \in ConfirmationIds : s.confirmations[x].state = "none"}
  BY <1>3 DEF ConfirmationLeft, NewConfirmation
<1> QED BY <1>1, <1>2, <1>3

\* A new task is put at a position, before the first queued "fast" one.
LEMMA QueuePositionTyped ==
    ASSUME NEW s \in ControllerStates, NEW profile \in Profiles
    PROVE  QueuePosition(s, profile) \in Nat
<1> DEFINE fast == {i \in DOMAIN s.queue : s.tasks[s.queue[i]].profile = "fast"}
           first == CHOOSE i \in fast : \A j \in fast : i <= j
<1>1. s.queue \in Seq(TaskIds)
  BY FieldsTyped
<1>2. CASE profile = "fast" \/ fast = {}
  BY <1>1, <1>2 DEF QueuePosition
<1>3. CASE ~(profile = "fast" \/ fast = {})
  <2>1. fast \subseteq Nat \ {0} /\ fast # {}
    BY <1>1, <1>3
  <2>2. \E i \in fast : \A j \in fast : i <= j
    BY <2>1, SmallestNat
  <2>3. first \in Nat \ {0}
    BY <2>1, <2>2
  <2>4. QueuePosition(s, profile) = first - 1
    BY <1>3 DEF QueuePosition
  <2> HIDE DEF first
  <2> QED BY <2>3, <2>4
<1> QED BY <1>2, <1>3

\* The events, by kind.
LEMMA EventKinds ==
    /\ CreatedEvents \subseteq Events   /\ EnqueuedEvents \subseteq Events
    /\ StartedEvents \subseteq Events   /\ TaskEvents \subseteq Events
    /\ RunEvents \subseteq Events       /\ AskedEvents \subseteq Events
    /\ AnsweredEvents \subseteq Events  /\ RevisedEvents \subseteq Events
    /\ RequestedEvents \subseteq Events /\ ResolvedEvents \subseteq Events
    /\ ConsumedEvents \subseteq Events  /\ ReorderedEvents \subseteq Events
BY DEF Events

\* The parts of a task the decisions read.
LEMMA TaskFields ==
    ASSUME NEW s \in ControllerStates, NEW t \in TaskIds
    PROVE  /\ s.tasks[t].revision \in Nat
           /\ s.tasks[t].profile \in Profiles
           /\ s.tasks[t].activeRunId \in RunIds \cup {None}
           /\ s.tasks[t].lastRunId \in RunIds \cup {None}
           /\ s.tasks[t].state \in TaskStates
<1>1. s.tasks[t] \in Task
  BY FieldsTyped
<1> QED BY <1>1 DEF Task

\* The events that start a task and resume it are well formed.
LEMMA StartAndResumeTyped ==
    ASSUME NEW s \in ControllerStates, NEW t \in TaskIds, RunLeft(s)
    PROVE  StartEvent(s, t) \in Events /\ ResumeEvent(s, t) \in Events
<1>1. NewRun(s) \in RunIds /\ s.tasks[t].revision \in Nat
  BY NewIds, TaskFields
<1>2. StartEvent(s, t) \in StartedEvents /\ ResumeEvent(s, t) \in StartedEvents
  BY <1>1 DEF StartEvent, ResumeEvent, StartedEvents
<1> QED BY <1>2, EventKinds

\* The event that suspends a task is well formed.
LEMMA AwaitTyped ==
    ASSUME NEW s \in ControllerStates, NEW t \in TaskIds, s.tasks[t].activeRunId # None
    PROVE  AwaitEvent(s, t) \in Events
<1>1. s.tasks[t].activeRunId \in RunIds
  BY TaskFields
<1>2. AwaitEvent(s, t) \in RunEvents
  BY <1>1 DEF AwaitEvent, RunEvents, TaskAndRun
<1> QED BY <1>2, EventKinds

\* Handing the slot to the head of the queue adds a well formed event.
LEMMA AndStartNextTyped ==
    ASSUME NEW s \in ControllerStates, NEW event \in Events,
           s.queue # <<>> => RunLeft(s)
    PROVE  AndStartNext(s, event) \in Seq(Events) \ {<<>>}
<1>1. CASE s.queue = <<>>
  BY <1>1 DEF AndStartNext
<1>2. CASE s.queue # <<>>
  <2>1. Head(s.queue) \in TaskIds
    BY <1>2, FieldsTyped
  <2>2. StartEvent(s, Head(s.queue)) \in Events
    BY <1>2, <2>1, StartAndResumeTyped
  <2> QED BY <1>2, <2>2 DEF AndStartNext
<1> QED BY <1>1, <1>2

-----------------------------------------------------------------------------
(* Every decision commits at least one event, and well formed ones.        *)

\* task.submit: a new id, a position in the queue, and a run when the slot is free.
LEMMA SubmitTyped ==
    ASSUME NEW s \in ControllerStates, NEW profile \in Profiles, CanSubmit(s)
    PROVE  SubmitEvents(s, profile) \in Seq(Events) \ {<<>>}
<1> DEFINE t == NewTask(s)
           created  == [type |-> "task.created", taskId |-> t,
                        profile |-> profile, revision |-> 1]
           enqueued == [type |-> "task.enqueued", taskId |-> t,
                        position |-> QueuePosition(s, profile)]
           started  == [type |-> "task.started", taskId |-> t,
                        runId |-> NewRun(s), revision |-> 1]
<1>1. t \in TaskIds /\ (s.activeTaskId = None => NewRun(s) \in RunIds)
  BY NewIds DEF CanSubmit
<1>2. created \in Events
  <2>1. created \in CreatedEvents
    BY <1>1 DEF CreatedEvents
  <2> QED BY <2>1, EventKinds
<1>3. enqueued \in Events
  <2>1. enqueued \in EnqueuedEvents
    BY <1>1, QueuePositionTyped DEF EnqueuedEvents
  <2> QED BY <2>1, EventKinds
<1>4. ASSUME s.activeTaskId = None
      PROVE  started \in Events
  <2>1. started \in StartedEvents
    BY <1>1, <1>4 DEF StartedEvents
  <2> QED BY <2>1, EventKinds
<1>5. SubmitEvents(s, profile) = IF s.activeTaskId = None
                                 THEN <<created, enqueued, started>>
                                 ELSE <<created, enqueued>>
  BY DEF SubmitEvents
<1> HIDE DEF created, enqueued, started
<1> QED BY <1>2, <1>3, <1>4, <1>5

\* queue.move writes a queue of the same tasks.
LEMMA MoveQueueTyped ==
    ASSUME NEW s \in ControllerStates, NEW t \in TaskIds, NEW operation \in MoveOperations,
           NEW anchor \in TaskIds \cup {None}, CanMoveQueue(s, t, operation, anchor)
    PROVE  MoveQueueEvents(s, t, operation, anchor) \in Seq(Events) \ {<<>>}
<1> DEFINE rest == RemoveFromQueue(s.queue, t)
           index == CHOOSE i \in DOMAIN rest : rest[i] = anchor
           moved == CASE operation = "move_first"  -> <<t>> \o rest
                      [] operation = "move_last"   -> rest \o <<t>>
                      [] operation = "move_before" -> InsertAt(rest, index, t)
                      [] operation = "move_after"  -> InsertAt(rest, index + 1, t)
<1>1. s.queue \in Seq(TaskIds)
  BY FieldsTyped
<1>2. rest \in Seq(TaskIds)
  BY <1>1, RemoveFromQueueProperties
<1>3. ASSUME operation = "move_first"
      PROVE  moved \in Seq(TaskIds)
  <2>1. <<t>> \o rest \in Seq(TaskIds)
    <3> HIDE DEF rest
    <3> QED BY <1>2
  <2>2. moved = <<t>> \o rest
    BY <1>3
  <2> QED BY <2>1, <2>2
<1>4. ASSUME operation = "move_last"
      PROVE  moved \in Seq(TaskIds)
  <2>1. rest \o <<t>> \in Seq(TaskIds)
    <3> HIDE DEF rest
    <3> QED BY <1>2
  <2>2. moved = rest \o <<t>>
    BY <1>4
  <2> QED BY <2>1, <2>2
<1>5. ASSUME operation \in {"move_before", "move_after"}
      PROVE  moved \in Seq(TaskIds)
  <2>1. PICK i \in DOMAIN s.queue : s.queue[i] = anchor /\ anchor # t
    BY <1>5, <1>1 DEF CanMoveQueue, Contains
  <2>2. \E j \in DOMAIN rest : rest[j] = anchor
    BY <1>1, <2>1, RemoveFromQueueProperties
  <2>3. index \in DOMAIN rest
    BY <2>2
  <2>4. index \in 1..(Len(rest) + 1) /\ index + 1 \in 1..(Len(rest) + 1)
    <3> HIDE DEF rest, index
    <3> QED BY <1>2, <2>3
  <2>5. InsertAt(rest, index, t) \in Seq(TaskIds) /\ InsertAt(rest, index + 1, t) \in Seq(TaskIds)
    <3> HIDE DEF rest, index
    <3> QED BY <1>2, <2>4, InsertAtProperties
  <2>6. moved = InsertAt(rest, index, t) \/ moved = InsertAt(rest, index + 1, t)
    <3> HIDE DEF rest, index
    <3> QED BY <1>5
  <2> QED BY <2>5, <2>6
<1>6. moved \in Seq(TaskIds)
  BY <1>3, <1>4, <1>5 DEF MoveOperations
<1>7. MoveQueueEvents(s, t, operation, anchor) =
          <<[type |-> "queue.reordered", taskId |-> t, taskIds |-> moved]>>
  BY DEF MoveQueueEvents
<1>8. [type |-> "queue.reordered", taskId |-> t, taskIds |-> moved] \in Events
  <2> HIDE DEF moved
  <2>1. [type |-> "queue.reordered", taskId |-> t, taskIds |-> moved] \in ReorderedEvents
    BY <1>6 DEF ReorderedEvents
  <2> QED BY <2>1, EventKinds
<1> HIDE DEF moved
<1> QED BY <1>7, <1>8

\* approval.resolve: the task of a card that exists is a task, and a rejection
\* names a run the task has had.
LEMMA ResolveApprovalTyped ==
    ASSUME NEW s \in ControllerStates, NEW c \in ConfirmationIds,
           NEW decision \in {"approve", "reject"}, NEW expected,
           CanResolveApproval(s, c, decision, expected)
    PROVE  ResolveApprovalEvents(s, c, decision) \in Seq(Events) \ {<<>>}
<1> DEFINE t == s.confirmations[c].taskId
           resolved == [type |-> "approval.resolved", confirmationId |-> c,
                        decision |-> decision]
           paused == [type |-> "task.paused", taskId |-> t,
                      runId |-> s.tasks[t].lastRunId]
<1>1. t \in TaskIds
  <2>1. s.confirmations[c] \in Confirmation /\ s.confirmations[c] # NoConfirmation
    BY FieldsTyped DEF CanResolveApproval, NoConfirmation
  <2> QED BY <2>1 DEF Confirmation
<1>2. resolved \in Events
  <2>1. resolved \in ResolvedEvents
    BY DEF ResolvedEvents
  <2> QED BY <2>1, EventKinds
<1>3. CASE decision = "approve"
  <2>1. ResumeEvent(s, t) \in Events
    BY <1>1, <1>3, StartAndResumeTyped DEF CanResolveApproval
  <2>2. ResolveApprovalEvents(s, c, decision) = <<resolved, ResumeEvent(s, t)>>
    BY <1>3 DEF ResolveApprovalEvents
  <2> HIDE DEF resolved, t
  <2> QED BY <1>2, <2>1, <2>2
<1>4. CASE decision = "reject"
  <2>1. s.tasks[t].lastRunId \in RunIds
    BY <1>1, <1>4, TaskFields DEF CanResolveApproval
  <2>2. paused \in RunEvents
    BY <1>1, <2>1 DEF RunEvents, TaskAndRun
  <2>3. paused \in Events
    BY <2>2, EventKinds
  <2>4. ResolveApprovalEvents(s, c, decision) = <<resolved, paused>>
    BY <1>4 DEF ResolveApprovalEvents
  <2> HIDE DEF resolved, paused
  <2> QED BY <1>2, <2>3, <2>4
<1> QED BY <1>3, <1>4

\* task.cancel, with or without a handoff.
LEMMA CancelTyped ==
    ASSUME NEW s \in ControllerStates, NEW t \in TaskIds, NEW expected,
           CanCancel(s, t, expected)
    PROVE  CancelEvents(s, t) \in Seq(Events) \ {<<>>}
<1> DEFINE cancelled == [type |-> "task.cancelled", taskId |-> t]
<1>1. cancelled \in Events
  <2>1. cancelled \in TaskEvents
    BY DEF TaskEvents, TaskOnly
  <2> QED BY <2>1, EventKinds
<1>2. CancelEvents(s, t) = IF IsActive(s, t) THEN AndStartNext(s, cancelled)
                           ELSE <<cancelled>>
  BY DEF CancelEvents
<1>3. ASSUME IsActive(s, t)
      PROVE  AndStartNext(s, cancelled) \in Seq(Events) \ {<<>>}
  BY <1>1, <1>3, AndStartNextTyped DEF CanCancel
<1> HIDE DEF cancelled
<1> QED BY <1>1, <1>2, <1>3

\* completeTask and failTask
LEMMA FinishTyped ==
    ASSUME NEW s \in ControllerStates, NEW t \in TaskIds, CanFinish(s, t)
    PROVE  /\ CompleteEvents(s, t) \in Seq(Events) \ {<<>>}
           /\ FailEvents(s, t) \in Seq(Events) \ {<<>>}
<1> DEFINE r == s.tasks[t].activeRunId
<1>1. r \in RunIds
  BY TaskFields DEF CanFinish
<1>2. /\ [type |-> "task.completed", taskId |-> t, runId |-> r] \in RunEvents
      /\ [type |-> "task.failed", taskId |-> t, runId |-> r] \in RunEvents
  BY <1>1 DEF RunEvents, TaskAndRun
<1> QED BY <1>2, EventKinds, AndStartNextTyped DEF CanFinish, CompleteEvents, FailEvents

\* The other commands of the user.
LEMMA UserDecisionsTyped ==
    ASSUME NEW s \in ControllerStates, NEW t \in TaskIds, NEW expected
    PROVE  /\ RequestPauseEvents(t) \in Seq(Events) \ {<<>>}
           /\ \A profile \in Profiles :
                 ReviseEvents(s, t, profile) \in Seq(Events) \ {<<>>}
           /\ CanResume(s, t, expected) => ResumeEvents(s, t) \in Seq(Events) \ {<<>>}
           /\ \A q \in QuestionIds : CanAnswerQuestion(s, t, q, expected) =>
                 AnswerQuestionEvents(s, t, q) \in Seq(Events) \ {<<>>}
<1>1. RequestPauseEvents(t) \in Seq(Events) \ {<<>>}
  <2>1. [type |-> "task.pauseRequested", taskId |-> t] \in TaskEvents
    BY DEF TaskEvents, TaskOnly
  <2> QED BY <2>1, EventKinds DEF RequestPauseEvents
<1>2. ASSUME NEW profile \in Profiles
      PROVE  ReviseEvents(s, t, profile) \in Seq(Events) \ {<<>>}
  <2>1. [type |-> "task.specRevised", taskId |-> t, profile |-> profile,
         revision |-> s.tasks[t].revision + 1] \in RevisedEvents
    BY TaskFields DEF RevisedEvents
  <2> QED BY <2>1, EventKinds DEF ReviseEvents
<1>3. ASSUME CanResume(s, t, expected)
      PROVE  ResumeEvents(s, t) \in Seq(Events) \ {<<>>}
  <2>1. ResumeEvent(s, t) \in Events
    BY <1>3, StartAndResumeTyped DEF CanResume
  <2>2. [type |-> "workspace.conflictResolved", taskId |-> t] \in TaskEvents
    BY DEF TaskEvents, TaskOnly
  <2> QED BY <2>1, <2>2, EventKinds DEF ResumeEvents
<1>4. ASSUME NEW q \in QuestionIds, CanAnswerQuestion(s, t, q, expected)
      PROVE  AnswerQuestionEvents(s, t, q) \in Seq(Events) \ {<<>>}
  <2>1. ResumeEvent(s, t) \in Events
    BY <1>4, StartAndResumeTyped DEF CanAnswerQuestion
  <2>2. [type |-> "task.questionAnswered", taskId |-> t, questionId |-> q] \in AnsweredEvents
    BY DEF AnsweredEvents
  <2> QED BY <2>1, <2>2, EventKinds DEF AnswerQuestionEvents
<1> QED BY <1>1, <1>2, <1>3, <1>4

\* The signals of the coding runner, and the recovery at boot.
LEMMA CoderDecisionsTyped ==
    ASSUME NEW s \in ControllerStates, NEW t \in TaskIds
    PROVE  /\ CanPauseAtSafeBoundary(s, t) =>
                 PauseAtSafeBoundaryEvents(s, t) \in Seq(Events) \ {<<>>}
           /\ \A q \in QuestionIds : CanAwaitUserInput(s, t, q) =>
                 AwaitUserInputEvents(s, t, q) \in Seq(Events) \ {<<>>}
           /\ \A r \in RunIds :
                 RecordCoderSessionEvents(t, r) \in Seq(Events) \ {<<>>}
           /\ \A c \in ConfirmationIds :
                 ConsumeApprovalEvents(c) \in Seq(Events) \ {<<>>}
           /\ \A f \in Fingerprints : CanRequestApproval(s, t, f) =>
                 RequestApprovalEvents(s, t, f) \in Seq(Events) \ {<<>>}
           /\ CanReportWorkspaceConflict(s, t) =>
                 ReportWorkspaceConflictEvents(s, t) \in Seq(Events) \ {<<>>}
<1> DEFINE r == s.tasks[t].activeRunId
<1>1. r # None => r \in RunIds
  BY TaskFields
<1>2. ASSUME CanPauseAtSafeBoundary(s, t)
      PROVE  PauseAtSafeBoundaryEvents(s, t) \in Seq(Events) \ {<<>>}
  <2>1. [type |-> "task.paused", taskId |-> t, runId |-> r] \in RunEvents
    BY <1>1, <1>2 DEF CanPauseAtSafeBoundary, RunEvents, TaskAndRun
  <2> QED BY <2>1, EventKinds DEF PauseAtSafeBoundaryEvents
<1>3. ASSUME NEW q \in QuestionIds, CanAwaitUserInput(s, t, q)
      PROVE  AwaitUserInputEvents(s, t, q) \in Seq(Events) \ {<<>>}
  <2>1. r \in RunIds /\ s.tasks[t].revision \in Nat
    BY <1>1, <1>3, TaskFields DEF CanAwaitUserInput, InRun
  <2>2. [type |-> "task.questionAsked", taskId |-> t, questionId |-> q,
         runId |-> r, revision |-> s.tasks[t].revision] \in AskedEvents
    BY <2>1 DEF AskedEvents
  <2> QED BY <2>2, EventKinds DEF AwaitUserInputEvents
<1>4. ASSUME NEW run \in RunIds
      PROVE  RecordCoderSessionEvents(t, run) \in Seq(Events) \ {<<>>}
  <2>1. [type |-> "coder.sessionBound", taskId |-> t, runId |-> run] \in RunEvents
    BY DEF RunEvents, TaskAndRun
  <2> QED BY <2>1, EventKinds DEF RecordCoderSessionEvents
<1>5. ASSUME NEW c \in ConfirmationIds
      PROVE  ConsumeApprovalEvents(c) \in Seq(Events) \ {<<>>}
  <2>1. [type |-> "approval.consumed", confirmationId |-> c] \in ConsumedEvents
    BY DEF ConsumedEvents
  <2> QED BY <2>1, EventKinds DEF ConsumeApprovalEvents
<1>6. ASSUME NEW f \in Fingerprints, CanRequestApproval(s, t, f)
      PROVE  RequestApprovalEvents(s, t, f) \in Seq(Events) \ {<<>>}
  <2>1. NewConfirmation(s) \in ConfirmationIds /\ s.tasks[t].revision \in Nat
    BY <1>6, NewIds, TaskFields DEF CanRequestApproval
  <2>2. [type |-> "approval.requested", taskId |-> t,
         confirmationId |-> NewConfirmation(s), revision |-> s.tasks[t].revision,
         fingerprint |-> f] \in RequestedEvents
    BY <2>1 DEF RequestedEvents
  <2>3. AwaitEvent(s, t) \in Events
    BY <1>6, AwaitTyped DEF CanRequestApproval, InRun
  <2> QED BY <2>2, <2>3, EventKinds DEF RequestApprovalEvents
<1>7. ASSUME CanReportWorkspaceConflict(s, t)
      PROVE  ReportWorkspaceConflictEvents(s, t) \in Seq(Events) \ {<<>>}
  <2>1. [type |-> "workspace.conflictDetected", taskId |-> t] \in TaskEvents
    BY DEF TaskEvents, TaskOnly
  <2>2. AwaitEvent(s, t) \in Events
    BY <1>7, AwaitTyped DEF CanReportWorkspaceConflict, InRun
  <2> QED BY <2>1, <2>2, EventKinds DEF ReportWorkspaceConflictEvents
<1> QED BY <1>2, <1>3, <1>4, <1>5, <1>6, <1>7

\* The recovery at boot names the task in the slot and its run.
LEMMA RecoverTyped ==
    ASSUME NEW s \in ControllerStates, CanRecover(s)
    PROVE  RecoverEvents(s) \in Seq(Events) \ {<<>>}
<1> DEFINE t == s.activeTaskId
           r == s.tasks[t].activeRunId
<1>1. t \in TaskIds
  BY FieldsTyped DEF CanRecover
<1>2. r \in RunIds
  BY <1>1, TaskFields DEF CanRecover
<1>3. /\ [type |-> "run.interrupted", taskId |-> t, runId |-> r] \in RunEvents
      /\ [type |-> "coder.recoveryBoundary", taskId |-> t, runId |-> r] \in RunEvents
      /\ [type |-> "task.paused", taskId |-> t, runId |-> r] \in RunEvents
  <2> HIDE DEF t, r
  <2> QED BY <1>1, <1>2 DEF RunEvents, TaskAndRun
<1> QED BY <1>3, EventKinds DEF RecoverEvents

-----------------------------------------------------------------------------
(* What the events do, field by field.                                     *)

\* Replacing a task touches the tasks only.
LEMMA SetTaskEffect ==
    ASSUME NEW s \in ControllerStates, NEW t \in TaskIds, NEW task \in Task
    PROVE  LET n == SetTask(s, t, task)
           IN  /\ n.activeTaskId = s.activeTaskId
               /\ n.queue = s.queue
               /\ n.tasks = [s.tasks EXCEPT ![t] = task]
               /\ n.runs = s.runs
BY DEF SetTask, ControllerStates

\* Ending a run touches the runs only.
LEMMA EndRunEffect ==
    ASSUME NEW s \in ControllerStates, NEW r \in RunIds, NEW x \in RunStates
    PROVE  LET n == EndRun(s, r, x)
           IN  /\ n.activeTaskId = s.activeTaskId
               /\ n.queue = s.queue
               /\ n.tasks = s.tasks
               /\ n.runs = [s.runs EXCEPT ![r] = [s.runs[r] EXCEPT !.state = x]]
BY DEF EndRun, ControllerStates

\* Ending a run leaves the other runs as they are.
LEMMA EndRunRuns ==
    ASSUME NEW s \in ControllerStates, NEW r \in RunIds, NEW x \in RunStates
    PROVE  \A q \in RunIds :
              /\ EndRun(s, r, x).runs[q].taskId = s.runs[q].taskId
              /\ EndRun(s, r, x).runs[q].taskRevision = s.runs[q].taskRevision
              /\ EndRun(s, r, x).runs[q].state = IF q = r THEN x ELSE s.runs[q].state
<1>1. s.runs \in [RunIds -> Run]
  BY FieldsTyped
<1>2. EndRun(s, r, x).runs = [s.runs EXCEPT ![r] = [s.runs[r] EXCEPT !.state = x]]
  BY EndRunEffect
<1>3. \A q \in RunIds : s.runs[q] \in Run
  BY <1>1
<1>4. ASSUME NEW q \in RunIds
      PROVE  /\ [s.runs[q] EXCEPT !.state = x].taskId = s.runs[q].taskId
             /\ [s.runs[q] EXCEPT !.state = x].taskRevision = s.runs[q].taskRevision
             /\ [s.runs[q] EXCEPT !.state = x].state = x
  BY <1>3 DEF Run, NoRun
<1> QED BY <1>1, <1>2, <1>4

\* Ending a task frees the slot if it had it, and takes it out of the queue.
LEMMA RetireEffect ==
    ASSUME NEW s \in ControllerStates, NEW t \in TaskIds, NEW x \in TerminalStates
    PROVE  LET n == Retire(s, t, x)
           IN  /\ n.activeTaskId = IF s.activeTaskId = t THEN None ELSE s.activeTaskId
               /\ n.queue = RemoveFromQueue(s.queue, t)
               /\ n.tasks = [s.tasks EXCEPT ![t] = [s.tasks[t] EXCEPT
                                !.state = x, !.activeRunId = None,
                                !.pendingQuestion = FALSE]]
               /\ n.runs = s.runs
BY DEF Retire, SetTask, ControllerStates

\* Events about questions, cards, sessions and conflicts.
QuietTypes == {"task.questionAnswered", "coder.sessionBound", "coder.recoveryBoundary",
               "workspace.conflictDetected", "workspace.conflictResolved",
               "approval.requested", "approval.resolved", "approval.consumed"}

\* What one update of a task that is not about its state changes.
LEMMA QuietTask ==
    ASSUME NEW s \in ControllerStates, NEW t \in TaskIds, NEW task \in Task,
           task.state = s.tasks[t].state, task.activeRunId = s.tasks[t].activeRunId,
           task.revision = s.tasks[t].revision
    PROVE  LET n == SetTask(s, t, task)
           IN  /\ n.activeTaskId = s.activeTaskId /\ n.queue = s.queue /\ n.runs = s.runs
               /\ \A u \in TaskIds : /\ n.tasks[u].state = s.tasks[u].state
                                     /\ n.tasks[u].activeRunId = s.tasks[u].activeRunId
                                     /\ n.tasks[u].revision = s.tasks[u].revision
<1> DEFINE n == SetTask(s, t, task)
<1>1. /\ n.activeTaskId = s.activeTaskId /\ n.queue = s.queue /\ n.runs = s.runs
      /\ n.tasks = [s.tasks EXCEPT ![t] = task]
  BY SetTaskEffect
<1>2. \A u \in TaskIds : n.tasks[u] = IF u = t THEN task ELSE s.tasks[u]
  <2> HIDE DEF n
  <2> QED BY <1>1, FieldsTyped
<1> QED BY <1>1, <1>2

\* What the quiet events leave alone.
LEMMA QuietEffect ==
    ASSUME NEW s \in ControllerStates, NEW e \in Events, e.type \in QuietTypes
    PROVE  LET n == Apply(s, e)
           IN  /\ n.activeTaskId = s.activeTaskId /\ n.queue = s.queue /\ n.runs = s.runs
               /\ \A u \in TaskIds : /\ n.tasks[u].state = s.tasks[u].state
                                     /\ n.tasks[u].activeRunId = s.tasks[u].activeRunId
                                     /\ n.tasks[u].revision = s.tasks[u].revision
<1> DEFINE task == s.tasks[e.taskId]
<1>1. CASE e.type \in {"workspace.conflictDetected", "workspace.conflictResolved"}
  <2>1. e.taskId \in TaskIds
    BY <1>1 DEF Events, CreatedEvents, EnqueuedEvents, StartedEvents, TaskEvents, RunEvents,
                AskedEvents, AnsweredEvents, RevisedEvents, RequestedEvents, ResolvedEvents,
                ConsumedEvents, ReorderedEvents
  <2>2. task \in Task
    BY <2>1, FieldsTyped
  <2>3. PICK b \in BOOLEAN : Apply(s, e) = SetTask(s, e.taskId, [task EXCEPT !.conflict = b])
    BY <1>1, ApplyCases DEF WorkspaceConflictDetected, WorkspaceConflictResolved
  <2> DEFINE marked == [task EXCEPT !.conflict = b]
  <2>4. /\ marked \in Task /\ marked.state = task.state
        /\ marked.activeRunId = task.activeRunId /\ marked.revision = task.revision
    BY <2>2 DEF Task
  <2>5. Apply(s, e) = SetTask(s, e.taskId, marked)
    BY <2>3
  <2> HIDE DEF marked
  <2> QED BY <2>1, <2>4, <2>5, QuietTask
<1>2. CASE e.type = "coder.sessionBound"
  <2> DEFINE bound == [task EXCEPT !.session = e.runId, !.boundary = FALSE]
  <2>1. e.taskId \in TaskIds /\ e.runId \in RunIds
    BY <1>2 DEF Events, CreatedEvents, EnqueuedEvents, StartedEvents, TaskEvents, RunEvents,
                AskedEvents, AnsweredEvents, RevisedEvents, RequestedEvents, ResolvedEvents,
                ConsumedEvents, ReorderedEvents, TaskOnly
  <2>2. task \in Task
    BY <2>1, FieldsTyped
  <2>3. /\ bound \in Task /\ bound.state = task.state
        /\ bound.activeRunId = task.activeRunId /\ bound.revision = task.revision
    BY <2>1, <2>2 DEF Task
  <2>4. Apply(s, e) = SetTask(s, e.taskId, bound)
    BY <1>2, ApplyCases DEF CoderSessionBound
  <2> HIDE DEF bound
  <2> QED BY <2>1, <2>3, <2>4, QuietTask
<1>3. CASE e.type = "coder.recoveryBoundary"
  <2> DEFINE bound == [task EXCEPT !.boundary = TRUE]
  <2>1. e.taskId \in TaskIds
    BY <1>3 DEF Events, CreatedEvents, EnqueuedEvents, StartedEvents, TaskEvents, RunEvents,
                AskedEvents, AnsweredEvents, RevisedEvents, RequestedEvents, ResolvedEvents,
                ConsumedEvents, ReorderedEvents, TaskOnly
  <2>2. task \in Task
    BY <2>1, FieldsTyped
  <2>3. /\ bound \in Task /\ bound.state = task.state
        /\ bound.activeRunId = task.activeRunId /\ bound.revision = task.revision
    BY <2>2 DEF Task
  <2>4. Apply(s, e) = s \/ Apply(s, e) = SetTask(s, e.taskId, bound)
    BY <1>3, ApplyCases DEF CoderRecoveryBoundary
  <2> HIDE DEF bound
  <2> QED BY <2>1, <2>3, <2>4, QuietTask
<1>4. CASE e.type = "task.questionAnswered"
  <2>1. Apply(s, e) = TaskQuestionAnswered(s, e)
    BY <1>4, ApplyCases
  <2> QED BY <2>1 DEF TaskQuestionAnswered, ControllerStates
<1>5. CASE e.type = "approval.requested"
  <2>1. Apply(s, e) = ApprovalRequested(s, e)
    BY <1>5, ApplyCases
  <2> QED BY <2>1 DEF ApprovalRequested, ControllerStates
<1>6. CASE e.type = "approval.resolved"
  <2>1. Apply(s, e) = ApprovalResolved(s, e)
    BY <1>6, ApplyCases
  <2> QED BY <2>1 DEF ApprovalResolved, SetConfirmation, ControllerStates
<1>7. CASE e.type = "approval.consumed"
  <2>1. Apply(s, e) = ApprovalConsumed(s, e)
    BY <1>7, ApplyCases
  <2> QED BY <2>1 DEF ApprovalConsumed, SetConfirmation, ControllerStates
<1> QED BY <1>1, <1>2, <1>3, <1>4, <1>5, <1>6, <1>7 DEF QuietTypes

-----------------------------------------------------------------------------
(* What the events change, and what they leave alone.                      *)

CardTypes == {"approval.requested", "approval.resolved", "approval.consumed"}
QuestionTypes == {"task.questionAsked", "task.questionAnswered", "task.specRevised"}
TaskTypes == TaskIsRequired \cup {"task.created"}

\* The type of an event, and the ids of a task that it names.
LEMMA EventTypes ==
    ASSUME NEW e \in Events
    PROVE  /\ e.type \in TaskTypes \cup CardTypes
                  \cup {"task.questionAnswered", "run.interrupted", "queue.reordered"}
           /\ e.type \in TaskTypes => e.taskId \in TaskIds
BY DEF Events, CreatedEvents, EnqueuedEvents, StartedEvents, TaskEvents, RunEvents,
       AskedEvents, AnsweredEvents, RevisedEvents, RequestedEvents, ResolvedEvents,
       ConsumedEvents, ReorderedEvents, TaskOnly, TaskAndRun, TaskTypes, TaskIsRequired,
       CardTypes

\* A record with the fields of a controller state.
Shape(s) == s = [activeTaskId |-> s.activeTaskId, queue |-> s.queue, tasks |-> s.tasks,
                 runs |-> s.runs, confirmations |-> s.confirmations,
                 questions |-> s.questions]

\* A controller state has them.
LEMMA StatesHaveShape == ASSUME NEW s \in ControllerStates PROVE Shape(s)
BY DEF ControllerStates, Shape

\* An event changes no task, no card and no question; or it changes one task.
SameRecords(s, n) ==
    /\ n.tasks = s.tasks
    /\ n.confirmations = s.confirmations
    /\ n.questions = s.questions
TaskBecomes(s, n, t, task) ==
    /\ n.tasks = [s.tasks EXCEPT ![t] = task]
    /\ n.confirmations = s.confirmations
    /\ n.questions = s.questions

\* A task in another state, and the task a finish or a cancellation leaves.
InState(task, x) == [task EXCEPT !.state = x]
Ended(task, x) == [task EXCEPT !.state = x, !.activeRunId = None, !.pendingQuestion = FALSE]

\* Updating a run comes before updating a task without a trace.
LEMMA SameThenBecomes ==
    ASSUME NEW s, NEW s1, SameRecords(s, s1), NEW n, NEW t, NEW task, TaskBecomes(s1, n, t, task)
    PROVE  TaskBecomes(s, n, t, task)
BY DEF SameRecords, TaskBecomes

\* An update of one task leaves the others, the cards and the questions alone.
LEMMA SetTaskFrame ==
    ASSUME NEW s, Shape(s), NEW t, NEW task
    PROVE  Shape(SetTask(s, t, task)) /\ TaskBecomes(s, SetTask(s, t, task), t, task)
BY DEF SetTask, Shape, TaskBecomes

\* An update of a run leaves all tasks, cards and questions alone.
LEMMA EndRunFrame ==
    ASSUME NEW s, Shape(s), NEW r, NEW x
    PROVE  Shape(EndRun(s, r, x)) /\ SameRecords(s, EndRun(s, r, x))
BY DEF EndRun, Shape, SameRecords

\* What follows the update of a task without touching a record.
LEMMA BecomesThenSame ==
    ASSUME NEW s, NEW s1, NEW n, NEW t, NEW task, TaskBecomes(s, s1, t, task), SameRecords(s1, n)
    PROVE  TaskBecomes(s, n, t, task)
BY DEF SameRecords, TaskBecomes

\* The end of a task.
LEMMA RetireFrame ==
    ASSUME NEW s, Shape(s), NEW t, NEW x
    PROVE  TaskBecomes(s, Retire(s, t, x), t, Ended(s.tasks[t], x))
<1> DEFINE s1 == SetTask(s, t, Ended(s.tasks[t], x))
           s2 == [s1 EXCEPT !.queue = RemoveFromQueue(s.queue, t)]
           slot == IF s2.activeTaskId = t THEN None ELSE s2.activeTaskId
           n == [s2 EXCEPT !.activeTaskId = slot]
<1>1. Retire(s, t, x) = n
  BY DEF Retire, Ended
<1>2. Shape(s1) /\ TaskBecomes(s, s1, t, Ended(s.tasks[t], x))
  BY SetTaskFrame
<1> HIDE DEF s1
<1>3. Shape(s2) /\ SameRecords(s1, s2)
  BY <1>2 DEF Shape, SameRecords
<1> HIDE DEF s2
<1>4. SameRecords(s2, n)
  BY <1>3 DEF Shape, SameRecords
<1> HIDE DEF n
<1> QED BY <1>1, <1>2, <1>3, <1>4, BecomesThenSame

\* The events that create, enqueue and start a task.
Created(e) == [NoTask EXCEPT !.state = "queued", !.profile = e.profile, !.revision = e.revision]
Started(task, r) == [task EXCEPT !.state = "running", !.pendingQuestion = FALSE,
                                 !.activeRunId = r, !.lastRunId = r]

\* Each of them changes its task so, and nothing else.
LEMMA StartFrames ==
    ASSUME NEW s, Shape(s), NEW e
    PROVE  LET t == e.taskId
           IN  /\ TaskBecomes(s, TaskCreated(s, e), t, Created(e))
               /\ TaskBecomes(s, TaskEnqueued(s, e), t, InState(s.tasks[t], "queued"))
               /\ TaskBecomes(s, TaskStarted(s, e), t, Started(s.tasks[t], e.runId))
<1> DEFINE t == e.taskId
           queued == InState(s.tasks[t], "queued")
           s1 == SetTask(s, t, Started(s.tasks[t], e.runId))
           s2 == [s1 EXCEPT !.queue = RemoveFromQueue(s.queue, t)]
           s3 == [s2 EXCEPT !.runs = [s.runs EXCEPT ![e.runId] = [taskId |-> t,
                               taskRevision |-> e.revision, state |-> "running"]]]
           s4 == [s3 EXCEPT !.activeTaskId = t]
           q1 == SetTask(s, t, queued)
           q2 == [q1 EXCEPT !.queue = InsertInQueue(RemoveFromQueue(s.queue, t), t, e.position)]
<1>1. TaskStarted(s, e) = s4
  BY DEF TaskStarted, Started
<1>2. Shape(s1) /\ TaskBecomes(s, s1, t, Started(s.tasks[t], e.runId))
  BY SetTaskFrame
<1> HIDE DEF s1
<1>3. Shape(s2) /\ SameRecords(s1, s2)
  BY <1>2 DEF Shape, SameRecords
<1> HIDE DEF s2
<1>4. Shape(s3) /\ SameRecords(s2, s3)
  BY <1>3 DEF Shape, SameRecords
<1> HIDE DEF s3
<1>5. SameRecords(s3, s4)
  BY <1>4 DEF Shape, SameRecords
<1> HIDE DEF s4
<1>6. TaskBecomes(s, TaskStarted(s, e), t, Started(s.tasks[t], e.runId))
  BY <1>1, <1>2, <1>3, <1>4, <1>5, BecomesThenSame
<1>7. TaskBecomes(s, TaskCreated(s, e), t, Created(e))
  BY SetTaskFrame DEF TaskCreated, Created
<1>8. TaskEnqueued(s, e) = q2
  BY DEF TaskEnqueued, InState
<1> HIDE DEF queued
<1>9. Shape(q1) /\ TaskBecomes(s, q1, t, queued)
  BY SetTaskFrame
<1> HIDE DEF q1
<1>10. SameRecords(q1, q2)
  BY <1>9 DEF Shape, SameRecords
<1> HIDE DEF q2
<1>11. TaskBecomes(s, TaskEnqueued(s, e), t, queued)
  BY <1>8, <1>9, <1>10, BecomesThenSame
<1> QED BY <1>6, <1>7, <1>11 DEF queued

\* The events that suspend a task, or end its run or itself.
Paused(task) == [task EXCEPT !.state = "paused", !.activeRunId = None]
Awaiting(task) == [task EXCEPT !.state = "awaiting_user", !.pendingQuestion = TRUE,
                               !.activeRunId = None]

\* Each of these changes its task so, and nothing else.
LEMMA StopFrames ==
    ASSUME NEW s, Shape(s), NEW e
    PROVE  LET t == e.taskId
               task == s.tasks[t]
           IN  /\ TaskBecomes(s, TaskPauseRequested(s, e), t, InState(task, "pause_requested"))
               /\ TaskBecomes(s, TaskPaused(s, e), t, Paused(task))
               /\ TaskBecomes(s, TaskAwaitingUser(s, e), t, Awaiting(task))
               /\ TaskBecomes(s, TaskCompleted(s, e), t, Ended(task, "completed"))
               /\ TaskBecomes(s, TaskFailed(s, e), t, Ended(task, "failed"))
               /\ TaskBecomes(s, TaskCancelled(s, e), t, Ended(task, "cancelled"))
<1> DEFINE t == e.taskId
           task == s.tasks[t]
<1>1. TaskBecomes(s, TaskPauseRequested(s, e), t, InState(task, "pause_requested"))
  BY SetTaskFrame DEF TaskPauseRequested, InState
<1>2. ASSUME NEW s1, Shape(s1), SameRecords(s, s1)
      PROVE  /\ \A x : TaskBecomes(s, SetTask(s1, t, x), t, x)
             /\ \A x : TaskBecomes(s, Retire(s1, t, x), t, Ended(task, x))
  <2>1. s1.tasks[t] = task
    BY <1>2 DEF SameRecords
  <2> HIDE DEF task
  <2> QED BY <1>2, <2>1, SetTaskFrame, RetireFrame, SameThenBecomes
<1>3. \A r, x : Shape(EndRun(s, r, x)) /\ SameRecords(s, EndRun(s, r, x))
  BY EndRunFrame
<1>4. Shape(s) /\ SameRecords(s, s)
  BY DEF SameRecords
<1>5. TaskBecomes(s, TaskPaused(s, e), t, Paused(task))
  BY <1>2, <1>3, <1>4 DEF TaskPaused, Paused
<1>6. TaskBecomes(s, TaskAwaitingUser(s, e), t, Awaiting(task))
  BY <1>2, <1>3 DEF TaskAwaitingUser, Awaiting
<1> HIDE DEF task
<1>7. /\ TaskBecomes(s, TaskCompleted(s, e), t, Ended(task, "completed"))
      /\ TaskBecomes(s, TaskFailed(s, e), t, Ended(task, "failed"))
      /\ TaskBecomes(s, TaskCancelled(s, e), t, Ended(task, "cancelled"))
  BY <1>2, <1>3, <1>4 DEF TaskCompleted, TaskFailed, TaskCancelled
<1> QED BY <1>1, <1>5, <1>6, <1>7 DEF task

\* The notes taken of a task: its session, its boundary, its conflict.
Bound(task, r) == [task EXCEPT !.session = r, !.boundary = FALSE]
Bounded(task) == [task EXCEPT !.boundary = TRUE]
Conflicted(task, b) == [task EXCEPT !.conflict = b]
Revised(task, e) == [task EXCEPT !.revision = e.revision, !.profile = e.profile,
                                 !.pendingQuestion = FALSE]

\* The events that only note something change its task so, or nothing.
LEMMA NoteFrames ==
    ASSUME NEW s, Shape(s), NEW e
    PROVE  LET t == e.taskId
               task == s.tasks[t]
           IN  /\ TaskBecomes(s, CoderSessionBound(s, e), t, Bound(task, e.runId))
               /\ \/ CoderRecoveryBoundary(s, e) = s
                  \/ TaskBecomes(s, CoderRecoveryBoundary(s, e), t, Bounded(task))
               /\ TaskBecomes(s, WorkspaceConflictDetected(s, e), t, Conflicted(task, TRUE))
               /\ TaskBecomes(s, WorkspaceConflictResolved(s, e), t, Conflicted(task, FALSE))
<1>1. \A x : TaskBecomes(s, SetTask(s, e.taskId, x), e.taskId, x)
  BY SetTaskFrame
<1> QED
  BY <1>1 DEF CoderSessionBound, CoderRecoveryBoundary, WorkspaceConflictDetected,
              WorkspaceConflictResolved, Bound, Bounded, Conflicted

\* A question is stored, and its task waits for the answer.
LEMMA AskedFrame ==
    ASSUME NEW s, Shape(s), NEW e
    PROVE  LET t == e.taskId
               n == TaskQuestionAsked(s, e)
           IN  /\ n.tasks = [s.tasks EXCEPT ![t] = Awaiting(s.tasks[t])]
               /\ n.confirmations = s.confirmations
               /\ n.questions = [s.questions EXCEPT ![e.questionId] =
                     [taskId |-> t, taskRevision |-> e.revision,
                      runId |-> e.runId, state |-> "open"]]
<1> DEFINE s1 == TaskAwaitingUser(s, e)
           n == TaskQuestionAsked(s, e)
           task == [s.tasks[e.taskId] EXCEPT !.state = "awaiting_user",
                        !.pendingQuestion = TRUE, !.activeRunId = None]
           questions == [s.questions EXCEPT ![e.questionId] =
               [taskId |-> e.taskId, taskRevision |-> e.revision,
                runId |-> e.runId, state |-> "open"]]
<1>1. Shape(s1) /\ TaskBecomes(s, s1, e.taskId, Awaiting(s.tasks[e.taskId]))
  <2>1. s1 = SetTask(EndRun(s, e.runId, "paused"), e.taskId, task)
    BY DEF TaskAwaitingUser
  <2>2. Shape(EndRun(s, e.runId, "paused"))
    BY EndRunFrame
  <2> HIDE DEF s1, task
  <2> QED BY <2>1, <2>2, SetTaskFrame, StopFrames DEF s1
<1>2. n = [s1 EXCEPT !.questions = questions]
  BY DEF TaskQuestionAsked
<1> HIDE DEF s1, questions
<1>3. n.tasks = s1.tasks /\ n.confirmations = s1.confirmations /\ n.questions = questions
  BY <1>1, <1>2 DEF Shape
<1> HIDE DEF n
<1> QED BY <1>1, <1>3 DEF TaskBecomes, n, questions

\* A revision supersedes the open question of its task.
Superseded(question) == [question EXCEPT !.state = "superseded"]
QuestionsLeft(s, t) ==
    [q \in QuestionIds |->
        IF s.questions[q].taskId = t /\ s.questions[q].state = "open"
        THEN Superseded(s.questions[q]) ELSE s.questions[q]]

\* A revision changes its task and supersedes the task's open questions.
LEMMA RevisedFrame ==
    ASSUME NEW s, Shape(s), NEW e
    PROVE  LET t == e.taskId
               n == TaskSpecRevised(s, e)
           IN  /\ n.tasks = [s.tasks EXCEPT ![t] = Revised(s.tasks[t], e)]
               /\ n.confirmations = s.confirmations
               /\ n.questions = QuestionsLeft(s, t)
<1> DEFINE s1 == SetTask(s, e.taskId, Revised(s.tasks[e.taskId], e))
           n == TaskSpecRevised(s, e)
           questions == QuestionsLeft(s, e.taskId)
<1>1. Shape(s1) /\ TaskBecomes(s, s1, e.taskId, Revised(s.tasks[e.taskId], e))
  BY SetTaskFrame
<1>2. n = [s1 EXCEPT !.questions = questions]
  BY DEF TaskSpecRevised, Revised, QuestionsLeft, Superseded
<1> HIDE DEF s1, questions
<1>3. n.tasks = s1.tasks /\ n.confirmations = s1.confirmations /\ n.questions = questions
  BY <1>1, <1>2 DEF Shape
<1> HIDE DEF n
<1> QED BY <1>1, <1>3 DEF TaskBecomes, n, questions

-----------------------------------------------------------------------------
(* The same, field by field.                                               *)

StartTypes == {"task.started", "task.resumed"}
StopTypes == {"task.created", "task.paused", "task.awaitingUser", "task.questionAsked",
              "task.completed", "task.failed", "task.cancelled"}
KeepsState == {"coder.sessionBound", "coder.recoveryBoundary", "task.specRevised",
               "workspace.conflictDetected", "workspace.conflictResolved"}

\* What event e makes of the task it names.
After(e, before, after) ==
    /\ e.type \in {"task.created", "task.enqueued"} => after.state = "queued"
    /\ e.type \in StartTypes => after.state = "running" /\ after.activeRunId = e.runId
    /\ e.type = "task.pauseRequested" => after.state = "pause_requested"
    /\ e.type = "task.paused" => after.state = "paused"
    /\ e.type \in {"task.awaitingUser", "task.questionAsked"} => after.state = "awaiting_user"
    /\ e.type = "task.completed" => after.state = "completed"
    /\ e.type = "task.failed" => after.state = "failed"
    /\ e.type = "task.cancelled" => after.state = "cancelled"
    /\ e.type \in KeepsState => after.state = before.state
    /\ e.type \in StopTypes => after.activeRunId = None
    /\ e.type \notin StartTypes \cup StopTypes => after.activeRunId = before.activeRunId
    /\ after.revision = IF e.type \in {"task.created", "task.specRevised"}
                        THEN e.revision ELSE before.revision
    /\ after.conflict = CASE e.type \in {"task.created", "workspace.conflictResolved"} -> FALSE
                          [] e.type = "workspace.conflictDetected" -> TRUE
                          [] OTHER -> before.conflict
    /\ after.lastRunId = CASE e.type \in StartTypes    -> e.runId
                           [] e.type = "task.created" -> None
                           [] OTHER -> before.lastRunId

\* The records that the events make of a task have these fields.
LEMMA AfterFields ==
    ASSUME NEW e \in Events, NEW task \in Task
    PROVE  /\ e.type = "task.created" => After(e, task, Created(e))
           /\ e.type = "task.enqueued" => After(e, task, InState(task, "queued"))
           /\ e.type \in StartTypes => After(e, task, Started(task, e.runId))
           /\ e.type = "task.pauseRequested" =>
                 After(e, task, InState(task, "pause_requested"))
           /\ e.type = "task.paused" => After(e, task, Paused(task))
           /\ e.type \in {"task.awaitingUser", "task.questionAsked"} =>
                 After(e, task, Awaiting(task))
           /\ e.type = "task.completed" => After(e, task, Ended(task, "completed"))
           /\ e.type = "task.failed" => After(e, task, Ended(task, "failed"))
           /\ e.type = "task.cancelled" => After(e, task, Ended(task, "cancelled"))
           /\ e.type = "coder.sessionBound" => After(e, task, Bound(task, e.runId))
           /\ e.type = "coder.recoveryBoundary" =>
                 After(e, task, task) /\ After(e, task, Bounded(task))
           /\ e.type = "task.specRevised" => After(e, task, Revised(task, e))
           /\ e.type = "workspace.conflictDetected" => After(e, task, Conflicted(task, TRUE))
           /\ e.type = "workspace.conflictResolved" => After(e, task, Conflicted(task, FALSE))
BY DEF After, StartTypes, StopTypes, KeepsState, Task, NoTask, InState, Created, Started, Paused,
       Awaiting, Ended, Bound, Bounded, Revised, Conflicted

\* An event changes the task it names and no other.
LEMMA TaskFrame ==
    ASSUME NEW s \in ControllerStates, NEW e \in Events, e.type \in TaskTypes
    PROVE  LET n == Apply(s, e)
           IN  /\ \E task : /\ n.tasks = [s.tasks EXCEPT ![e.taskId] = task]
                            /\ After(e, s.tasks[e.taskId], task)
               /\ n.confirmations = s.confirmations
               /\ e.type \notin QuestionTypes => n.questions = s.questions
<1> DEFINE n == Apply(s, e)
           t == e.taskId
           task == s.tasks[t]
           Result(x) == n.tasks = [s.tasks EXCEPT ![t] = x] /\ After(e, task, x)
           Goal == /\ \E x : Result(x)
                   /\ n.confirmations = s.confirmations
                   /\ e.type \notin QuestionTypes => n.questions = s.questions
<1> SUFFICES Goal
  OBVIOUS
<1>1. t \in TaskIds /\ Shape(s)
  BY EventTypes, StatesHaveShape
<1>2. task \in Task /\ s.tasks = [s.tasks EXCEPT ![t] = task]
  BY <1>1, FieldsTyped
<1> HIDE DEF t, task
<1>3. ASSUME NEW x, TaskBecomes(s, n, t, x), After(e, task, x)
      PROVE  Goal
  BY <1>3 DEF TaskBecomes
<1> HIDE DEF Goal
<1>4. CASE e.type \in {"task.created", "task.enqueued"} \cup StartTypes
  <2>1. \/ e.type = "task.created" /\ TaskBecomes(s, n, t, Created(e))
        \/ e.type = "task.enqueued" /\ TaskBecomes(s, n, t, InState(task, "queued"))
        \/ e.type \in StartTypes /\ TaskBecomes(s, n, t, Started(task, e.runId))
    <3>1. /\ TaskBecomes(s, TaskCreated(s, e), t, Created(e))
          /\ TaskBecomes(s, TaskEnqueued(s, e), t, InState(task, "queued"))
          /\ TaskBecomes(s, TaskStarted(s, e), t, Started(task, e.runId))
      BY <1>1, StartFrames DEF t, task
    <3> QED BY <1>4, <3>1, ApplyCases DEF StartTypes
  <2> HIDE DEF n
  <2> QED BY <1>2, <1>3, <2>1, AfterFields
<1>5. CASE e.type \in {"task.pauseRequested", "task.paused", "task.awaitingUser",
                       "task.completed", "task.failed", "task.cancelled"}
  <2>1. \/ e.type = "task.pauseRequested"
              /\ TaskBecomes(s, n, t, InState(task, "pause_requested"))
        \/ e.type = "task.paused" /\ TaskBecomes(s, n, t, Paused(task))
        \/ e.type = "task.awaitingUser" /\ TaskBecomes(s, n, t, Awaiting(task))
        \/ e.type = "task.completed" /\ TaskBecomes(s, n, t, Ended(task, "completed"))
        \/ e.type = "task.failed" /\ TaskBecomes(s, n, t, Ended(task, "failed"))
        \/ e.type = "task.cancelled" /\ TaskBecomes(s, n, t, Ended(task, "cancelled"))
    <3>1. /\ TaskBecomes(s, TaskPauseRequested(s, e), t, InState(task, "pause_requested"))
          /\ TaskBecomes(s, TaskPaused(s, e), t, Paused(task))
          /\ TaskBecomes(s, TaskAwaitingUser(s, e), t, Awaiting(task))
          /\ TaskBecomes(s, TaskCompleted(s, e), t, Ended(task, "completed"))
          /\ TaskBecomes(s, TaskFailed(s, e), t, Ended(task, "failed"))
          /\ TaskBecomes(s, TaskCancelled(s, e), t, Ended(task, "cancelled"))
      BY <1>1, StopFrames DEF t, task
    <3> QED BY <1>5, <3>1, ApplyCases
  <2> HIDE DEF n
  <2> QED BY <1>2, <1>3, <2>1, AfterFields
<1>6. CASE e.type \in KeepsState \ {"task.specRevised"}
  <2>1. \/ e.type = "coder.sessionBound" /\ TaskBecomes(s, n, t, Bound(task, e.runId))
        \/ e.type = "coder.recoveryBoundary" /\ n = s
        \/ e.type = "coder.recoveryBoundary" /\ TaskBecomes(s, n, t, Bounded(task))
        \/ e.type = "workspace.conflictDetected" /\ TaskBecomes(s, n, t, Conflicted(task, TRUE))
        \/ e.type = "workspace.conflictResolved" /\ TaskBecomes(s, n, t, Conflicted(task, FALSE))
    <3>1. /\ TaskBecomes(s, CoderSessionBound(s, e), t, Bound(task, e.runId))
          /\ \/ CoderRecoveryBoundary(s, e) = s
             \/ TaskBecomes(s, CoderRecoveryBoundary(s, e), t, Bounded(task))
          /\ TaskBecomes(s, WorkspaceConflictDetected(s, e), t, Conflicted(task, TRUE))
          /\ TaskBecomes(s, WorkspaceConflictResolved(s, e), t, Conflicted(task, FALSE))
      BY <1>1, NoteFrames DEF t, task
    <3> QED BY <1>6, <3>1, ApplyCases DEF KeepsState
  <2>2. n = s => TaskBecomes(s, n, t, task)
    BY <1>2 DEF TaskBecomes
  <2> HIDE DEF n
  <2> QED BY <1>2, <1>3, <2>1, <2>2, AfterFields
<1>7. CASE e.type \in {"task.questionAsked", "task.specRevised"}
  <2>1. /\ \/ /\ e.type = "task.questionAsked"
              /\ n.tasks = [s.tasks EXCEPT ![t] = Awaiting(task)]
           \/ /\ e.type = "task.specRevised"
              /\ n.tasks = [s.tasks EXCEPT ![t] = Revised(task, e)]
        /\ n.confirmations = s.confirmations
    <3>1. /\ TaskQuestionAsked(s, e).tasks = [s.tasks EXCEPT ![t] = Awaiting(task)]
          /\ TaskQuestionAsked(s, e).confirmations = s.confirmations
      BY <1>1, AskedFrame DEF t, task
    <3>2. /\ TaskSpecRevised(s, e).tasks = [s.tasks EXCEPT ![t] = Revised(task, e)]
          /\ TaskSpecRevised(s, e).confirmations = s.confirmations
      BY <1>1, RevisedFrame DEF t, task
    <3> QED BY <1>7, <3>1, <3>2, ApplyCases
  <2>2. \E y : Result(y)
    BY <1>2, <2>1, AfterFields
  <2> QED BY <1>7, <2>1, <2>2 DEF QuestionTypes, Goal
<1>8. \/ e.type \in {"task.created", "task.enqueued"} \cup StartTypes
      \/ e.type \in {"task.pauseRequested", "task.paused", "task.awaitingUser",
                     "task.completed", "task.failed", "task.cancelled"}
      \/ e.type \in KeepsState \ {"task.specRevised"}
      \/ e.type \in {"task.questionAsked", "task.specRevised"}
  BY DEF TaskTypes, TaskIsRequired, StartTypes, KeepsState
<1> QED BY <1>4, <1>5, <1>6, <1>7, <1>8

\* What the other events leave alone: all tasks, and the cards or the questions.
LEMMA OtherFrame ==
    ASSUME NEW s \in ControllerStates, NEW e \in Events, e.type \notin TaskTypes
    PROVE  LET n == Apply(s, e)
           IN  /\ n.tasks = s.tasks
               /\ e.type \notin CardTypes => n.confirmations = s.confirmations
               /\ e.type # "task.questionAnswered" => n.questions = s.questions
<1>1. e.type \in CardTypes \cup {"task.questionAnswered", "run.interrupted", "queue.reordered"}
  BY EventTypes
<1>2. Shape(s)
  BY StatesHaveShape
<1>3. CASE e.type = "task.questionAnswered"
  <2>1. Apply(s, e) = TaskQuestionAnswered(s, e)
    BY <1>3, ApplyCases
  <2> QED BY <1>2, <1>3, <2>1 DEF TaskQuestionAnswered, Shape
<1>4. CASE e.type \in CardTypes
  <2>1. \/ Apply(s, e) = ApprovalRequested(s, e)
        \/ Apply(s, e) = ApprovalResolved(s, e)
        \/ Apply(s, e) = ApprovalConsumed(s, e)
    BY <1>4, ApplyCases DEF CardTypes
  <2>2. \A x : /\ [s EXCEPT !.confirmations = x].tasks = s.tasks
               /\ [s EXCEPT !.confirmations = x].questions = s.questions
    BY <1>2 DEF Shape
  <2>3. \E x : Apply(s, e) = [s EXCEPT !.confirmations = x]
    BY <2>1 DEF ApprovalRequested, ApprovalResolved, ApprovalConsumed, SetConfirmation
  <2> QED BY <1>4, <2>2, <2>3
<1>5. CASE e.type = "run.interrupted"
  <2>1. Apply(s, e) = EndRun(s, e.runId, "interrupted")
    BY <1>5, ApplyCases DEF RunInterrupted
  <2> QED BY <1>2, <2>1, EndRunFrame DEF SameRecords
<1>6. CASE e.type = "queue.reordered"
  <2>1. Apply(s, e) = QueueReordered(s, e)
    BY <1>6, ApplyCases
  <2> QED BY <1>2, <2>1 DEF QueueReordered, Shape
<1> QED BY <1>1, <1>3, <1>4, <1>5, <1>6

\* Card updates: a new card, or a card in another state.
LEMMA CardFrame ==
    ASSUME NEW s \in ControllerStates, NEW e \in Events, e.type \in CardTypes
    PROVE  LET n == Apply(s, e)
               c == e.confirmationId
           IN  /\ c \in ConfirmationIds
               /\ \A d \in ConfirmationIds \ {c} : n.confirmations[d] = s.confirmations[d]
               /\ e.type = "approval.requested" =>
                     /\ e.taskId \in TaskIds
                     /\ n.confirmations[c] = [taskId |-> e.taskId, taskRevision |-> e.revision,
                                              fingerprint |-> e.fingerprint, state |-> "pending"]
               /\ e.type # "approval.requested" =>
                     /\ n.confirmations[c].taskId = s.confirmations[c].taskId
                     /\ n.confirmations[c].taskRevision = s.confirmations[c].taskRevision
                     /\ n.confirmations[c].fingerprint = s.confirmations[c].fingerprint
                     /\ n.confirmations[c].state =
                           IF e.type = "approval.consumed" THEN "consumed"
                           ELSE IF e.decision = "approve" THEN "approved" ELSE "rejected"
<1> DEFINE n == Apply(s, e)
           c == e.confirmationId
           card == s.confirmations[c]
<1>1. c \in ConfirmationIds /\ (e.type = "approval.requested" => e.taskId \in TaskIds)
  BY DEF Events, CreatedEvents, EnqueuedEvents, StartedEvents, TaskEvents, RunEvents,
         AskedEvents, AnsweredEvents, RevisedEvents, RequestedEvents, ResolvedEvents,
         ConsumedEvents, ReorderedEvents, TaskOnly, TaskAndRun, CardTypes
<1>2. Shape(s) /\ s.confirmations \in [ConfirmationIds -> Confirmation]
  BY StatesHaveShape, FieldsTyped
<1>3. card \in Confirmation
  BY <1>1, <1>2
<1> HIDE DEF c
<1>4. CASE e.type = "approval.requested"
  <2>1. Apply(s, e) = ApprovalRequested(s, e)
    BY <1>4, ApplyCases
  <2>2. n.confirmations = [s.confirmations EXCEPT ![c] =
            [taskId |-> e.taskId, taskRevision |-> e.revision,
             fingerprint |-> e.fingerprint, state |-> "pending"]]
    BY <1>2, <2>1 DEF ApprovalRequested, Shape, c
  <2> HIDE DEF n
  <2> QED BY <1>1, <1>2, <1>4, <2>2 DEF n, c
<1>5. CASE e.type # "approval.requested"
  <2> DEFINE to == IF e.type = "approval.consumed" THEN "consumed"
                   ELSE IF e.decision = "approve" THEN "approved" ELSE "rejected"
             after == [card EXCEPT !.state = to]
  <2>1. n = SetConfirmation(s, c, to)
    BY <1>5, ApplyCases DEF CardTypes, ApprovalResolved, ApprovalConsumed, c
  <2>2. n.confirmations = [s.confirmations EXCEPT ![c] = after]
    BY <1>2, <2>1 DEF SetConfirmation, Shape
  <2>3. /\ after.taskId = card.taskId /\ after.taskRevision = card.taskRevision
        /\ after.fingerprint = card.fingerprint /\ after.state = to
    BY <1>3 DEF Confirmation, NoConfirmation
  <2> HIDE DEF n, after, to
  <2>4. n.confirmations[c] = after
        /\ \A d \in ConfirmationIds \ {c} : n.confirmations[d] = s.confirmations[d]
    BY <1>1, <1>2, <2>2
  <2> QED BY <1>1, <1>5, <2>3, <2>4 DEF n, c, to
<1> QED BY <1>4, <1>5

\* A new question is open and its task's; the other questions stay.
LEMMA AskedQuestion ==
    ASSUME NEW s \in ControllerStates, NEW e \in Events, e.type = "task.questionAsked"
    PROVE  /\ e.questionId \in QuestionIds
           /\ Apply(s, e).questions = [s.questions EXCEPT ![e.questionId] =
                  [taskId |-> e.taskId, taskRevision |-> e.revision,
                   runId |-> e.runId, state |-> "open"]]
<1>1. e.questionId \in QuestionIds
  BY DEF Events, CreatedEvents, EnqueuedEvents, StartedEvents, TaskEvents, RunEvents,
         AskedEvents, AnsweredEvents, RevisedEvents, RequestedEvents, ResolvedEvents,
         ConsumedEvents, ReorderedEvents, TaskOnly, TaskAndRun
<1>2. Shape(s)
  BY StatesHaveShape
<1>3. Apply(s, e) = TaskQuestionAsked(s, e)
  BY ApplyCases
<1>4. TaskQuestionAsked(s, e).questions = [s.questions EXCEPT ![e.questionId] =
          [taskId |-> e.taskId, taskRevision |-> e.revision,
           runId |-> e.runId, state |-> "open"]]
  BY <1>2, AskedFrame
<1> QED BY <1>1, <1>3, <1>4

\* An answer and a revision open no question: they close one, or those of a task.
LEMMA QuestionFrame ==
    ASSUME NEW s \in ControllerStates, NEW e \in Events,
           e.type \in {"task.questionAnswered", "task.specRevised"}
    PROVE  \A q \in QuestionIds : Apply(s, e).questions[q].state = "open" =>
              /\ Apply(s, e).questions[q] = s.questions[q]
              /\ e.type = "task.specRevised" => s.questions[q].taskId # e.taskId
              /\ e.type = "task.questionAnswered" => q # e.questionId
<1> DEFINE n == Apply(s, e)
<1>1. e.type = "task.questionAnswered" => e.questionId \in QuestionIds
  BY DEF Events, CreatedEvents, EnqueuedEvents, StartedEvents, TaskEvents, RunEvents,
         AskedEvents, AnsweredEvents, RevisedEvents, RequestedEvents, ResolvedEvents,
         ConsumedEvents, ReorderedEvents, TaskOnly, TaskAndRun
<1>2. Shape(s) /\ s.questions \in [QuestionIds -> Question]
  BY StatesHaveShape, FieldsTyped
<1>3. CASE e.type = "task.questionAnswered"
  <2> DEFINE r == e.questionId
             after == [s.questions[r] EXCEPT !.state = "answered"]
  <2>1. Apply(s, e) = TaskQuestionAnswered(s, e)
    BY <1>3, ApplyCases
  <2>2. n.questions = [s.questions EXCEPT ![r] = after]
    BY <1>2, <2>1 DEF TaskQuestionAnswered, Shape
  <2>3. after.state = "answered"
    BY <1>1, <1>2, <1>3 DEF Question, NoQuestion
  <2> HIDE DEF n, after
  <2>4. \A q \in QuestionIds : n.questions[q] = IF q = r THEN after ELSE s.questions[q]
    BY <1>2, <2>2
  <2> QED BY <1>3, <2>3, <2>4 DEF n
<1>4. CASE e.type = "task.specRevised"
  <2>1. Apply(s, e) = TaskSpecRevised(s, e)
    BY <1>4, ApplyCases
  <2>2. n.questions = QuestionsLeft(s, e.taskId)
    BY <1>2, <2>1, RevisedFrame
  <2> HIDE DEF n
  <2>3. ASSUME NEW q \in QuestionIds, n.questions[q].state = "open"
        PROVE  n.questions[q] = s.questions[q] /\ s.questions[q].taskId # e.taskId
    <3>1. s.questions[q] \in Question
      BY <1>2
    <3>2. Superseded(s.questions[q]).state = "superseded"
      BY <3>1 DEF Question, NoQuestion, Superseded
    <3> QED BY <2>2, <2>3, <3>2 DEF QuestionsLeft
  <2> QED BY <1>4, <2>3 DEF n
<1> QED BY <1>3, <1>4

\* The runs stay with their tasks from s to n; some of them have ended.
RunsKept(s, n) ==
    \A q \in RunIds :
        /\ n.runs[q].taskId = s.runs[q].taskId
        /\ n.runs[q].state \in {s.runs[q].state, "paused", "completed", "failed", "cancelled"}

\* The events that do nothing to a run.
Runless == {"task.created", "task.enqueued", "task.pauseRequested", "task.specRevised",
            "queue.reordered"} \cup QuietTypes

\* Only the start of a task makes a run, and only an interruption interrupts one.
LEMMA RunFrame ==
    ASSUME NEW s \in ControllerStates, NEW e \in Events
    PROVE  LET n == Apply(s, e)
           IN  /\ e.type \in StartTypes => n.runs = [s.runs EXCEPT ![e.runId] =
                     [taskId |-> e.taskId, taskRevision |-> e.revision, state |-> "running"]]
               /\ e.type \notin StartTypes \cup {"run.interrupted"} => RunsKept(s, n)
               /\ e.type \in Runless => n.runs = s.runs
<1> DEFINE n == Apply(s, e)
<1>1. Shape(s)
  BY StatesHaveShape
<1>2. /\ e.type \in StartTypes \cup TaskAndRun \cup {"task.questionAsked"} => e.runId \in RunIds
      /\ e.type \in TaskTypes => e.taskId \in TaskIds
  BY EventTypes DEF Events, CreatedEvents, EnqueuedEvents, StartedEvents, TaskEvents, RunEvents,
         AskedEvents, AnsweredEvents, RevisedEvents, RequestedEvents, ResolvedEvents,
         ConsumedEvents, ReorderedEvents, TaskOnly, TaskAndRun, StartTypes
<1>3. ASSUME NEW m, Shape(m)
      PROVE  /\ \A t, x : SetTask(m, t, x).runs = m.runs
             /\ \A t, x : Retire(m, t, x).runs = m.runs
             /\ \A x : [m EXCEPT !.queue = x].runs = m.runs
             /\ \A x : [m EXCEPT !.questions = x].runs = m.runs
  <2>1. \A t, x : SetTask(m, t, x).runs = m.runs /\ Shape(SetTask(m, t, x))
    BY <1>3, SetTaskFrame DEF SetTask, Shape
  <2>2. \A t, x : Retire(m, t, x).runs = m.runs
    <3> SUFFICES ASSUME NEW t, NEW x
                 PROVE  Retire(m, t, x).runs = m.runs
      OBVIOUS
    <3> DEFINE m1 == SetTask(m, t, Ended(m.tasks[t], x))
    <3>1. Retire(m, t, x) = [m1 EXCEPT !.queue = RemoveFromQueue(m.queue, t),
                                       !.activeTaskId = IF @ = t THEN None ELSE @]
      BY DEF Retire, Ended
    <3>2. Shape(m1) /\ m1.runs = m.runs
      BY <2>1
    <3> HIDE DEF m1
    <3> QED BY <3>1, <3>2 DEF Shape
  <2> QED BY <1>3, <2>1, <2>2 DEF Shape
<1>4. ASSUME NEW r \in RunIds, NEW x \in {"paused", "completed", "failed", "cancelled"}
      PROVE  Shape(EndRun(s, r, x)) /\ RunsKept(s, EndRun(s, r, x))
  BY <1>1, EndRunFrame, EndRunRuns DEF RunsKept, RunStates
<1>5. Runless \cap StartTypes = {}
  BY DEF Runless, StartTypes, QuietTypes
<1>6. CASE e.type \in StartTypes
  <2> DEFINE m == SetTask(s, e.taskId, Started(s.tasks[e.taskId], e.runId))
             runs == [s.runs EXCEPT ![e.runId] = [taskId |-> e.taskId,
                         taskRevision |-> e.revision, state |-> "running"]]
             queue == RemoveFromQueue(s.queue, e.taskId)
  <2>1. Shape(m)
    BY <1>1, SetTaskFrame
  <2>2. Apply(s, e) = TaskStarted(s, e)
    BY <1>6, ApplyCases DEF StartTypes
  <2>3. TaskStarted(s, e) = [m EXCEPT !.queue = queue, !.runs = runs, !.activeTaskId = e.taskId]
    BY DEF TaskStarted, Started
  <2> HIDE DEF m, runs, queue
  <2>4. n.runs = runs
    BY <2>1, <2>2, <2>3 DEF Shape
  <2> QED BY <1>5, <1>6, <2>4 DEF runs
<1>7. CASE e.type \in Runless
  <2>1. n.runs = s.runs
    <3>1. CASE e.type \in QuietTypes
      BY <3>1, QuietEffect
    <3>2. CASE e.type = "queue.reordered"
      <4>1. n = [s EXCEPT !.queue = e.taskIds]
        BY <3>2, ApplyCases DEF QueueReordered
      <4> QED BY <1>1, <4>1 DEF Shape
    <3>3. CASE e.type \in {"task.created", "task.pauseRequested"}
      <4>1. \E x : n = SetTask(s, e.taskId, x)
        <5>1. /\ \E x : TaskCreated(s, e) = SetTask(s, e.taskId, x)
              /\ \E x : TaskPauseRequested(s, e) = SetTask(s, e.taskId, x)
          BY DEF TaskCreated, TaskPauseRequested
        <5> QED BY <3>3, <5>1, ApplyCases
      <4> HIDE DEF n
      <4> QED BY <1>1, <1>3, <4>1
    <3>4. CASE e.type = "task.enqueued"
      <4> DEFINE m == SetTask(s, e.taskId, InState(s.tasks[e.taskId], "queued"))
      <4>1. \E x : n = [m EXCEPT !.queue = x]
        BY <3>4, ApplyCases DEF TaskEnqueued, InState
      <4>2. Shape(m) /\ m.runs = s.runs
        BY <1>1, <1>3, SetTaskFrame
      <4> HIDE DEF m, n
      <4> QED BY <1>3, <4>1, <4>2
    <3>5. CASE e.type = "task.specRevised"
      <4> DEFINE m == SetTask(s, e.taskId, Revised(s.tasks[e.taskId], e))
      <4>1. \E x : n = [m EXCEPT !.questions = x]
        <5>1. \E x : TaskSpecRevised(s, e) = [m EXCEPT !.questions = x]
          BY DEF TaskSpecRevised, Revised
        <5> HIDE DEF m
        <5> QED BY <3>5, <5>1, ApplyCases
      <4>2. Shape(m) /\ m.runs = s.runs
        BY <1>1, <1>3, SetTaskFrame
      <4> HIDE DEF m, n
      <4> QED BY <1>3, <4>1, <4>2
    <3> QED BY <1>7, <3>1, <3>2, <3>3, <3>4, <3>5 DEF Runless
  <2>2. e.type \notin StartTypes
    BY <1>5, <1>7
  <2> HIDE DEF n
  <2> QED BY <1>7, <2>1, <2>2 DEF RunsKept, n
<1>8. CASE e.type \in {"task.paused", "task.awaitingUser", "task.questionAsked",
                       "task.completed", "task.failed", "task.cancelled"}
  <2>1. ASSUME NEW m, Shape(m), RunsKept(s, m)
        PROVE  /\ \A t, x : RunsKept(s, SetTask(m, t, x))
               /\ \A t, x : RunsKept(s, Retire(m, t, x))
    BY <1>3, <2>1 DEF RunsKept
  <2>2. Shape(s) /\ RunsKept(s, s)
    BY <1>1 DEF RunsKept
  <2>3. CASE e.type \in {"task.paused", "task.awaitingUser", "task.completed", "task.failed"}
    <3>1. e.runId \in RunIds
      BY <1>2, <2>3 DEF TaskAndRun
    <3>2. \A x \in {"paused", "completed", "failed"} :
             Shape(EndRun(s, e.runId, x)) /\ RunsKept(s, EndRun(s, e.runId, x))
      BY <1>4, <3>1
    <3>3. /\ \E x : TaskPaused(s, e) \in {SetTask(s, e.taskId, x),
                         SetTask(EndRun(s, e.runId, "paused"), e.taskId, x)}
          /\ \E x : TaskAwaitingUser(s, e) =
                         SetTask(EndRun(s, e.runId, "paused"), e.taskId, x)
          /\ TaskCompleted(s, e) =
                Retire(EndRun(s, e.runId, "completed"), e.taskId, "completed")
          /\ TaskFailed(s, e) = Retire(EndRun(s, e.runId, "failed"), e.taskId, "failed")
      BY DEF TaskPaused, TaskAwaitingUser, TaskCompleted, TaskFailed
    <3>4. n \in {TaskPaused(s, e), TaskAwaitingUser(s, e), TaskCompleted(s, e),
                 TaskFailed(s, e)}
      BY <2>3, ApplyCases
    <3> HIDE DEF n
    <3>5. RunsKept(s, n)
      BY <2>1, <2>2, <3>2, <3>3, <3>4
    <3> QED BY <2>3, <3>5 DEF StartTypes, Runless, QuietTypes, n
  <2>4. CASE e.type = "task.questionAsked"
    <3> DEFINE m == TaskAwaitingUser(s, e)
               ended == EndRun(s, e.runId, "paused")
    <3>1. e.runId \in RunIds
      BY <1>2, <2>4
    <3>2. Shape(ended) /\ RunsKept(s, ended)
      BY <1>4, <3>1
    <3>3. \E x : m = SetTask(ended, e.taskId, x)
      BY DEF TaskAwaitingUser
    <3> HIDE DEF ended, m
    <3>4. Shape(m) /\ RunsKept(s, m)
      BY <2>1, <3>2, <3>3, SetTaskFrame
    <3>5. \E x : TaskQuestionAsked(s, e) = [m EXCEPT !.questions = x]
      BY DEF TaskQuestionAsked, m
    <3>6. n = TaskQuestionAsked(s, e)
      BY <2>4, ApplyCases
    <3> HIDE DEF n
    <3>7. n.runs = m.runs
      BY <1>3, <3>4, <3>5, <3>6
    <3> QED BY <2>4, <3>4, <3>7 DEF StartTypes, RunsKept, Runless, QuietTypes, n
  <2>5. CASE e.type = "task.cancelled"
    <3> DEFINE r == s.tasks[e.taskId].activeRunId
               m == IF r = None THEN s ELSE EndRun(s, r, "cancelled")
    <3>1. r # None => r \in RunIds
      BY <1>2, <2>5, TaskFields DEF TaskTypes, TaskIsRequired
    <3>2. Shape(m) /\ RunsKept(s, m)
      BY <1>4, <2>2, <3>1
    <3>3. n = Retire(m, e.taskId, "cancelled")
      BY <2>5, ApplyCases DEF TaskCancelled
    <3> HIDE DEF m
    <3> QED BY <2>1, <2>5, <3>2, <3>3 DEF StartTypes, Runless, QuietTypes
  <2> QED BY <1>8, <2>3, <2>4, <2>5
<1>9. \/ e.type = "run.interrupted"
      \/ e.type \in StartTypes
      \/ e.type \in Runless
      \/ e.type \in {"task.paused", "task.awaitingUser", "task.questionAsked",
                     "task.completed", "task.failed", "task.cancelled"}
  BY EventTypes DEF TaskTypes, TaskIsRequired, CardTypes, StartTypes, QuietTypes,
                    Runless
<1> QED BY <1>6, <1>7, <1>8, <1>9

\* An event that names a task changes that task only.
LEMMA TaskEffect ==
    ASSUME NEW s \in ControllerStates, NEW e \in Events, e.type \in TaskTypes
    PROVE  LET n == Apply(s, e)
           IN  /\ e.taskId \in TaskIds
               /\ \A u \in TaskIds : u # e.taskId => n.tasks[u] = s.tasks[u]
               /\ After(e, s.tasks[e.taskId], n.tasks[e.taskId])
               /\ n.confirmations = s.confirmations
               /\ e.type \notin QuestionTypes => n.questions = s.questions
<1> DEFINE n == Apply(s, e)
<1>1. PICK task : /\ n.tasks = [s.tasks EXCEPT ![e.taskId] = task]
                  /\ After(e, s.tasks[e.taskId], task)
  BY TaskFrame
<1>2. /\ n.confirmations = s.confirmations
      /\ e.type \notin QuestionTypes => n.questions = s.questions
  BY TaskFrame
<1>3. s.tasks \in [TaskIds -> Task] /\ e.taskId \in TaskIds
  BY FieldsTyped, EventTypes
<1> HIDE DEF n
<1>4. n.tasks[e.taskId] = task /\ \A u \in TaskIds : u # e.taskId => n.tasks[u] = s.tasks[u]
  BY <1>1, <1>3
<1> QED BY <1>1, <1>2, <1>3, <1>4 DEF n

\* An event that was applied without a throw fitted, and left a state that
\* passes the assertion.
LEMMA CheckedApplied ==
    ASSUME NEW m \in [state : ControllerStates, ok : BOOLEAN], NEW e \in Events,
           ApplyChecked(m, e).ok
    PROVE  /\ m.ok /\ Fits(m.state, e)
           /\ ApplyChecked(m, e).state = Apply(m.state, e)
           /\ Apply(m.state, e) \in ControllerStates
           /\ StateInvariants(Apply(m.state, e))
<1>1. m.ok
  BY DEF ApplyChecked
<1>2. Fits(m.state, e)
  BY <1>1 DEF ApplyChecked
<1>3. ApplyChecked(m, e) =
          [state |-> Apply(m.state, e), ok |-> StateInvariants(Apply(m.state, e))]
  BY <1>1, <1>2 DEF ApplyChecked
<1>4. StateInvariants(Apply(m.state, e)) /\ ApplyChecked(m, e).state = Apply(m.state, e)
  BY <1>3
<1>5. Apply(m.state, e) \in ControllerStates
  BY <1>2, ApplyTyped
<1> QED BY <1>1, <1>2, <1>4, <1>5

-----------------------------------------------------------------------------
(* What a decision is made of.                                             *)

\* The decisions that ask no coder to pause: all but requestPause.
AsksNoPause(events) == \A i \in DOMAIN events : events[i].type # "task.pauseRequested"

\* requestPause aside, no decision has a task.pauseRequested in it.
LEMMA OnlyRequestPauseAsks ==
    ASSUME NEW s, NEW t, NEW x, NEW y, NEW z
    PROVE  /\ AsksNoPause(SubmitEvents(s, x))
           /\ AsksNoPause(ReviseEvents(s, t, x))
           /\ AsksNoPause(ResumeEvents(s, t))
           /\ AsksNoPause(AnswerQuestionEvents(s, t, x))
           /\ AsksNoPause(CancelEvents(s, t))
           /\ AsksNoPause(MoveQueueEvents(s, t, x, y))
           /\ AsksNoPause(ResolveApprovalEvents(s, x, y))
           /\ AsksNoPause(PauseAtSafeBoundaryEvents(s, t))
           /\ AsksNoPause(AwaitUserInputEvents(s, t, x))
           /\ AsksNoPause(RecordCoderSessionEvents(t, x))
           /\ AsksNoPause(ConsumeApprovalEvents(x))
           /\ AsksNoPause(RequestApprovalEvents(s, t, x))
           /\ AsksNoPause(ReportWorkspaceConflictEvents(s, t))
           /\ AsksNoPause(CompleteEvents(s, t))
           /\ AsksNoPause(FailEvents(s, t))
           /\ AsksNoPause(RecoverEvents(s))
<1> DEFINE asks == "task.pauseRequested"
<1>1. \A e, f, g :
         /\ e.type # asks => AsksNoPause(<<e>>)
         /\ e.type # asks /\ f.type # asks => AsksNoPause(<<e, f>>)
         /\ e.type # asks /\ f.type # asks /\ g.type # asks => AsksNoPause(<<e, f, g>>)
  <2> TAKE e, f, g
  <2>1. e.type # asks => AsksNoPause(<<e>>)
    BY DEF AsksNoPause
  <2>2. e.type # asks /\ f.type # asks => AsksNoPause(<<e, f>>)
    BY DEF AsksNoPause
  <2>3. e.type # asks /\ f.type # asks /\ g.type # asks => AsksNoPause(<<e, f, g>>)
    BY DEF AsksNoPause
  <2> QED BY <2>1, <2>2, <2>3
<1>2. ASSUME NEW e, e.type # asks
      PROVE  AsksNoPause(AndStartNext(s, e))
  BY <1>1, <1>2 DEF AndStartNext, StartEvent
<1>3. AsksNoPause(SubmitEvents(s, x)) /\ AsksNoPause(RecoverEvents(s))
  BY <1>1 DEF SubmitEvents, RecoverEvents
<1>4. /\ AsksNoPause(ReviseEvents(s, t, x))
      /\ AsksNoPause(ResumeEvents(s, t))
      /\ AsksNoPause(AnswerQuestionEvents(s, t, x))
  BY <1>1 DEF ReviseEvents, ResumeEvents, AnswerQuestionEvents, ResumeEvent
<1>5. AsksNoPause(MoveQueueEvents(s, t, x, y)) /\ AsksNoPause(ResolveApprovalEvents(s, x, y))
  BY <1>1 DEF MoveQueueEvents, ResolveApprovalEvents, ResumeEvent
<1>6. /\ AsksNoPause(PauseAtSafeBoundaryEvents(s, t))
      /\ AsksNoPause(AwaitUserInputEvents(s, t, x))
      /\ AsksNoPause(RecordCoderSessionEvents(t, x))
      /\ AsksNoPause(ConsumeApprovalEvents(x))
  BY <1>1 DEF PauseAtSafeBoundaryEvents, AwaitUserInputEvents, RecordCoderSessionEvents,
              ConsumeApprovalEvents
<1>7. /\ AsksNoPause(RequestApprovalEvents(s, t, x))
      /\ AsksNoPause(ReportWorkspaceConflictEvents(s, t))
  BY <1>1 DEF RequestApprovalEvents, ReportWorkspaceConflictEvents, AwaitEvent
<1>8. /\ AsksNoPause(CancelEvents(s, t))
      /\ AsksNoPause(CompleteEvents(s, t))
      /\ AsksNoPause(FailEvents(s, t))
  BY <1>1, <1>2 DEF CancelEvents, CompleteEvents, FailEvents
<1> QED BY <1>3, <1>4, <1>5, <1>6, <1>7, <1>8

\* A run is started by the last event of a decision or by none.
StartsLast(events) == \A i \in DOMAIN events : events[i].type \in StartTypes => i = Len(events)

\* That is so of every decision.
LEMMA DecisionsStartLast ==
    ASSUME NEW s, NEW t, NEW x, NEW y, NEW z
    PROVE  /\ StartsLast(SubmitEvents(s, x))
           /\ StartsLast(RequestPauseEvents(t))
           /\ StartsLast(ReviseEvents(s, t, x))
           /\ StartsLast(ResumeEvents(s, t))
           /\ StartsLast(AnswerQuestionEvents(s, t, x))
           /\ StartsLast(CancelEvents(s, t))
           /\ StartsLast(MoveQueueEvents(s, t, x, y))
           /\ StartsLast(ResolveApprovalEvents(s, x, y))
           /\ StartsLast(PauseAtSafeBoundaryEvents(s, t))
           /\ StartsLast(AwaitUserInputEvents(s, t, x))
           /\ StartsLast(RecordCoderSessionEvents(t, x))
           /\ StartsLast(ConsumeApprovalEvents(x))
           /\ StartsLast(RequestApprovalEvents(s, t, x))
           /\ StartsLast(ReportWorkspaceConflictEvents(s, t))
           /\ StartsLast(CompleteEvents(s, t))
           /\ StartsLast(FailEvents(s, t))
           /\ StartsLast(RecoverEvents(s))
<1>1. \A e, f, g :
         /\ StartsLast(<<e>>)
         /\ e.type \notin StartTypes => StartsLast(<<e, f>>)
         /\ e.type \notin StartTypes /\ f.type \notin StartTypes => StartsLast(<<e, f, g>>)
  <2> TAKE e, f, g
  <2>1. StartsLast(<<e>>)
    BY DEF StartsLast
  <2>2. e.type \notin StartTypes => StartsLast(<<e, f>>)
    BY DEF StartsLast
  <2>3. e.type \notin StartTypes /\ f.type \notin StartTypes => StartsLast(<<e, f, g>>)
    BY DEF StartsLast
  <2> QED BY <2>1, <2>2, <2>3
<1>2. ASSUME NEW e, e.type \notin StartTypes
      PROVE  StartsLast(AndStartNext(s, e))
  BY <1>1, <1>2 DEF AndStartNext
<1>3. StartsLast(SubmitEvents(s, x)) /\ StartsLast(RecoverEvents(s))
  BY <1>1 DEF SubmitEvents, RecoverEvents, StartTypes
<1>4. /\ StartsLast(RequestPauseEvents(t))
      /\ StartsLast(ReviseEvents(s, t, x))
      /\ StartsLast(ResumeEvents(s, t))
      /\ StartsLast(AnswerQuestionEvents(s, t, x))
  BY <1>1 DEF RequestPauseEvents, ReviseEvents, ResumeEvents, AnswerQuestionEvents, StartTypes
<1>5. StartsLast(MoveQueueEvents(s, t, x, y)) /\ StartsLast(ResolveApprovalEvents(s, x, y))
  BY <1>1 DEF MoveQueueEvents, ResolveApprovalEvents, StartTypes
<1>6. /\ StartsLast(PauseAtSafeBoundaryEvents(s, t))
      /\ StartsLast(AwaitUserInputEvents(s, t, x))
      /\ StartsLast(RecordCoderSessionEvents(t, x))
      /\ StartsLast(ConsumeApprovalEvents(x))
  BY <1>1 DEF PauseAtSafeBoundaryEvents, AwaitUserInputEvents, RecordCoderSessionEvents,
              ConsumeApprovalEvents
<1>7. /\ StartsLast(RequestApprovalEvents(s, t, x))
      /\ StartsLast(ReportWorkspaceConflictEvents(s, t))
  BY <1>1 DEF RequestApprovalEvents, ReportWorkspaceConflictEvents, StartTypes
<1>8. /\ StartsLast(CancelEvents(s, t))
      /\ StartsLast(CompleteEvents(s, t))
      /\ StartsLast(FailEvents(s, t))
  BY <1>1, <1>2 DEF CancelEvents, CompleteEvents, FailEvents, StartTypes
<1> QED BY <1>3, <1>4, <1>5, <1>6, <1>7, <1>8

-----------------------------------------------------------------------------
(* What the events of a decision, taken together, leave of the runs and of *)
(* a pause request.                                                        *)

\* The runs of s are there in n, of the same tasks.
RunsRemain(s, n) ==
    \A r \in RunIds : s.runs[r].state # "none" =>
        n.runs[r].state # "none" /\ n.runs[r].taskId = s.runs[r].taskId

\* No task is asked to pause.
AsksNothing(s, n) ==
    \A t \in TaskIds : n.tasks[t].state = "pause_requested" => s.tasks[t].state = "pause_requested"

\* An event that fits leaves the runs, and makes one only if it starts a task.
LEMMA EventRuns ==
    ASSUME NEW s \in ControllerStates, NEW e \in Events, Fits(s, e)
    PROVE  LET n == Apply(s, e)
           IN  /\ RunsRemain(s, n)
               /\ e.type \in StartTypes => /\ e.taskId \in TaskIds /\ e.runId \in RunIds
                                           /\ s.runs[e.runId].state = "none"
                                           /\ n.runs[e.runId].state # "none"
                                           /\ n.runs[e.runId].taskId = e.taskId
<1> DEFINE n == Apply(s, e)
<1>1. s.runs \in [RunIds -> Run]
  BY FieldsTyped
<1>2. CASE e.type \in StartTypes
  <2>1. e.runId \in RunIds /\ e.taskId \in TaskIds
    BY <1>2 DEF Events, CreatedEvents, EnqueuedEvents, StartedEvents, TaskEvents, RunEvents,
           AskedEvents, AnsweredEvents, RevisedEvents, RequestedEvents, ResolvedEvents,
           ConsumedEvents, ReorderedEvents, TaskOnly, TaskAndRun, StartTypes
  <2>2. n.runs = [s.runs EXCEPT ![e.runId] = [taskId |-> e.taskId,
                     taskRevision |-> e.revision, state |-> "running"]]
    BY <1>2, RunFrame
  <2>3. s.runs[e.runId].state = "none"
    BY <1>2 DEF Fits, StartTypes
  <2> HIDE DEF n
  <2> QED BY <1>1, <2>1, <2>2, <2>3 DEF RunsRemain, n
<1>3. CASE e.type = "run.interrupted"
  <2>1. e.runId \in RunIds
    BY <1>3 DEF Events, CreatedEvents, EnqueuedEvents, StartedEvents, TaskEvents, RunEvents,
           AskedEvents, AnsweredEvents, RevisedEvents, RequestedEvents, ResolvedEvents,
           ConsumedEvents, ReorderedEvents, TaskOnly, TaskAndRun
  <2>2. n = EndRun(s, e.runId, "interrupted")
    BY <1>3, ApplyCases DEF RunInterrupted
  <2>3. \A q \in RunIds : /\ n.runs[q].taskId = s.runs[q].taskId
                          /\ n.runs[q].state = IF q = e.runId THEN "interrupted"
                                               ELSE s.runs[q].state
    BY <2>1, <2>2, EndRunRuns DEF RunStates
  <2> HIDE DEF n
  <2> QED BY <1>3, <2>3 DEF RunsRemain, StartTypes, n
<1>4. CASE e.type \notin StartTypes \cup {"run.interrupted"}
  <2>1. RunsKept(s, n)
    BY <1>4, RunFrame
  <2> HIDE DEF n
  <2> QED BY <1>4, <2>1 DEF RunsKept, RunsRemain, n
<1> QED BY <1>2, <1>3, <1>4

\* Only task.pauseRequested makes a task pause_requested, and that of its task only.
LEMMA EventAsks ==
    ASSUME NEW s \in ControllerStates, NEW e \in Events
    PROVE  LET n == Apply(s, e)
           IN  /\ e.type # "task.pauseRequested" => AsksNothing(s, n)
               /\ e.type = "task.pauseRequested" =>
                     /\ e.taskId \in TaskIds
                     /\ \A t \in TaskIds : t # e.taskId => n.tasks[t] = s.tasks[t]
<1> DEFINE n == Apply(s, e)
<1>1. CASE e.type \in TaskTypes
  <2>1. /\ e.taskId \in TaskIds
        /\ \A u \in TaskIds : u # e.taskId => n.tasks[u] = s.tasks[u]
        /\ After(e, s.tasks[e.taskId], n.tasks[e.taskId])
    BY <1>1, TaskEffect
  <2>2. (e.type # "task.pauseRequested" /\ n.tasks[e.taskId].state = "pause_requested") =>
           s.tasks[e.taskId].state = "pause_requested"
    BY <1>1, <2>1 DEF After, TaskTypes, TaskIsRequired, StartTypes, KeepsState
  <2> HIDE DEF n
  <2> QED BY <2>1, <2>2 DEF AsksNothing, n
<1>2. CASE e.type \notin TaskTypes
  <2>1. n.tasks = s.tasks /\ e.type # "task.pauseRequested"
    BY <1>2, OtherFrame DEF TaskTypes, TaskIsRequired
  <2> QED BY <2>1 DEF AsksNothing
<1> QED BY <1>1, <1>2

\* One applyEvent.
LEMMA CheckedRuns ==
    ASSUME NEW m \in [state : ControllerStates, ok : BOOLEAN], NEW e \in Events
    PROVE  LET n == ApplyChecked(m, e)
           IN  /\ n \in [state : ControllerStates, ok : BOOLEAN]
               /\ RunsRemain(m.state, n.state)
               /\ n.ok => m.ok
               /\ (n.ok /\ e.type \in StartTypes) =>
                     /\ e.taskId \in TaskIds /\ e.runId \in RunIds
                     /\ m.state.runs[e.runId].state = "none"
                     /\ n.state.runs[e.runId].state # "none"
                     /\ n.state.runs[e.runId].taskId = e.taskId
               /\ n.ok => StateInvariants(n.state)
               /\ e.type # "task.pauseRequested" => AsksNothing(m.state, n.state)
               /\ e.type = "task.pauseRequested" =>
                     \A t \in TaskIds : t # e.taskId => n.state.tasks[t] = m.state.tasks[t]
<1> DEFINE n == ApplyChecked(m, e)
<1>1. n \in [state : ControllerStates, ok : BOOLEAN]
  BY ApplyCheckedTyped
<1>2. CASE ~m.ok \/ ~Fits(m.state, e)
  <2>1. n.state = m.state /\ ~n.ok
    BY <1>2 DEF ApplyChecked
  <2> HIDE DEF n
  <2> QED BY <1>1, <2>1 DEF RunsRemain, AsksNothing, n
<1>3. CASE m.ok /\ Fits(m.state, e)
  <2>1. n = [state |-> Apply(m.state, e), ok |-> StateInvariants(Apply(m.state, e))]
    BY <1>3 DEF ApplyChecked
  <2>2. n.state = Apply(m.state, e) /\ (n.ok => StateInvariants(n.state))
    BY <2>1
  <2> HIDE DEF n
  <2> QED BY <1>1, <1>3, <2>2, EventRuns, EventAsks DEF n
<1> QED BY <1>2, <1>3

\* A decision leaves the runs, makes the one that it starts, and leaves the assertion
\* true when nothing throws.
LEMMA DecisionRuns ==
    ASSUME NEW s \in ControllerStates, NEW events \in Seq(Events), Len(events) \in 1..3,
           StartsLast(events)
    PROVE  LET n == ApplyDecision([state |-> s, ok |-> TRUE], events)
               e == events[Len(events)]
           IN  /\ n \in [state : ControllerStates, ok : BOOLEAN]
               /\ RunsRemain(s, n.state)
               /\ n.ok => StateInvariants(n.state)
               /\ (n.ok /\ e.type \in StartTypes) =>
                     /\ e.taskId \in TaskIds /\ e.runId \in RunIds
                     /\ s.runs[e.runId].state = "none"
                     /\ n.state.runs[e.runId].state # "none"
                     /\ n.state.runs[e.runId].taskId = e.taskId
               /\ AsksNoPause(events) => AsksNothing(s, n.state)
<1> DEFINE Memories == [state : ControllerStates, ok : BOOLEAN]
           m0 == [state |-> s, ok |-> TRUE]
           m1 == ApplyChecked(m0, events[1])
           m2 == IF Len(events) < 2 THEN m1 ELSE ApplyChecked(m1, events[2])
           m3 == IF Len(events) < 3 THEN m2 ELSE ApplyChecked(m2, events[3])
           BeginsRun(k, n, e) ==
              (n.ok /\ e.type \in StartTypes) =>
                     /\ e.taskId \in TaskIds /\ e.runId \in RunIds
                     /\ k.runs[e.runId].state = "none"
                     /\ n.state.runs[e.runId].state # "none"
                     /\ n.state.runs[e.runId].taskId = e.taskId
           Done(n, i) == /\ n \in Memories /\ RunsRemain(s, n.state)
                         /\ n.ok => StateInvariants(n.state)
                         /\ BeginsRun(s, n, events[i])
                         /\ AsksNoPause(events) => AsksNothing(s, n.state)
<1>1. \A i \in 1..Len(events) : events[i] \in Events
  OBVIOUS
<1>2. m0 \in Memories /\ m0.state = s
  OBVIOUS
<1>3. ASSUME NEW n \in Memories, RunsRemain(s, n.state),
             AsksNoPause(events) => AsksNothing(s, n.state),
             NEW i \in 1..Len(events)
      PROVE  Done(ApplyChecked(n, events[i]), i)
  <2> DEFINE k == ApplyChecked(n, events[i])
             e == events[i]
  <2>1. /\ k \in Memories
        /\ RunsRemain(n.state, k.state)
        /\ k.ok => StateInvariants(k.state)
        /\ BeginsRun(n.state, k, e)
        /\ e.type # "task.pauseRequested" => AsksNothing(n.state, k.state)
    BY <1>1, <1>3, CheckedRuns
  <2>2. AsksNoPause(events) => e.type # "task.pauseRequested"
    BY DEF AsksNoPause
  <2> HIDE DEF k, e
  <2>3. RunsRemain(s, k.state)
    BY <1>3, <2>1 DEF RunsRemain
  <2>4. BeginsRun(s, k, e)
    BY <1>3, <2>1 DEF RunsRemain
  <2>5. AsksNoPause(events) => AsksNothing(s, k.state)
    BY <1>3, <2>1, <2>2 DEF AsksNothing
  <2> QED BY <2>1, <2>3, <2>4, <2>5 DEF k, e
<1>4. RunsRemain(s, s) /\ AsksNothing(s, s)
  BY DEF RunsRemain, AsksNothing
<1> HIDE DEF m0
<1>5. Done(m1, 1)
  BY <1>2, <1>3, <1>4
<1> HIDE DEF m1
<1>6. Len(events) < 2 \/ Done(m2, 2)
  BY <1>3, <1>5
<1>7. Len(events) < 2 => Done(m2, 1)
  BY <1>5
<1> HIDE DEF m2
<1>8. Len(events) < 3 \/ Done(m3, 3)
  BY <1>3, <1>6
<1>9. Done(m3, Len(events))
  <2>1. CASE Len(events) = 3
    BY <1>8, <2>1
  <2>2. CASE Len(events) = 2
    BY <1>6, <2>2
  <2>3. CASE Len(events) = 1
    BY <1>7, <2>3
  <2> QED BY <2>1, <2>2, <2>3
<1>10. ApplyDecision([state |-> s, ok |-> TRUE], events) = m3
  BY FewSteps DEF LoopOfThree, m0, m1, m2
<1> HIDE DEF m3
<1> QED BY <1>9, <1>10

-----------------------------------------------------------------------------
(* The decisions that a coding runner is told of or asks for.              *)

\* A few events, of which the last may start a task, or one that asks for a pause.
Deliberate(events) ==
    /\ events \in Seq(Events) /\ Len(events) \in 1..3
    /\ StartsLast(events)
    /\ AsksNoPause(events) \/ \E t : events = RequestPauseEvents(t)

\* The decisions of the user that the runner is told of are such decisions ...
LEMMA UserIsDeliberate ==
    ASSUME NEW s \in ControllerStates, NEW t \in TaskIds, NEW expected
    PROVE  /\ CanSubmit(s) => Deliberate(SubmitEvents(s, "fast"))
           /\ Deliberate(RequestPauseEvents(t))
           /\ CanResume(s, t, expected) => Deliberate(ResumeEvents(s, t))
           /\ \A q \in QuestionIds : CanAnswerQuestion(s, t, q, expected) =>
                 Deliberate(AnswerQuestionEvents(s, t, q))
           /\ CanCancel(s, t, expected) => Deliberate(CancelEvents(s, t))
           /\ \A c \in ConfirmationIds, decision \in {"approve", "reject"} :
                 CanResolveApproval(s, c, decision, expected) =>
                    Deliberate(ResolveApprovalEvents(s, c, decision))
<1>1. ASSUME NEW x, NEW y, NEW z
      PROVE  /\ Len(SubmitEvents(s, x)) \in 1..3
             /\ Len(RequestPauseEvents(t)) \in 1..3
             /\ Len(ResumeEvents(s, t)) \in 1..3
             /\ Len(AnswerQuestionEvents(s, t, x)) \in 1..3
             /\ Len(CancelEvents(s, t)) \in 1..3
             /\ Len(ResolveApprovalEvents(s, x, y)) \in 1..3
  BY DEF SubmitEvents, RequestPauseEvents, ResumeEvents, AnswerQuestionEvents, CancelEvents,
         ResolveApprovalEvents, AndStartNext
<1>2. CanSubmit(s) => Deliberate(SubmitEvents(s, "fast"))
  BY <1>1, SubmitTyped, DecisionsStartLast, OnlyRequestPauseAsks, ProfilesAssumption DEF Deliberate
<1>3. Deliberate(RequestPauseEvents(t))
  BY <1>1, UserDecisionsTyped, DecisionsStartLast DEF Deliberate
<1>4. CanResume(s, t, expected) => Deliberate(ResumeEvents(s, t))
  BY <1>1, UserDecisionsTyped, DecisionsStartLast, OnlyRequestPauseAsks DEF Deliberate
<1>5. ASSUME NEW q \in QuestionIds, CanAnswerQuestion(s, t, q, expected)
      PROVE  Deliberate(AnswerQuestionEvents(s, t, q))
  BY <1>1, <1>5, UserDecisionsTyped, DecisionsStartLast, OnlyRequestPauseAsks DEF Deliberate
<1>6. CanCancel(s, t, expected) => Deliberate(CancelEvents(s, t))
  BY <1>1, CancelTyped, DecisionsStartLast, OnlyRequestPauseAsks DEF Deliberate
<1>7. ASSUME NEW c \in ConfirmationIds, NEW decision \in {"approve", "reject"},
             CanResolveApproval(s, c, decision, expected)
      PROVE  Deliberate(ResolveApprovalEvents(s, c, decision))
  BY <1>1, <1>7, ResolveApprovalTyped, DecisionsStartLast, OnlyRequestPauseAsks DEF Deliberate
<1> QED BY <1>2, <1>3, <1>4, <1>5, <1>6, <1>7

\* ... and so are the ones that the runner asks for.
LEMMA RunnerIsDeliberate ==
    ASSUME NEW s \in ControllerStates, NEW t \in TaskIds
    PROVE  /\ CanFinish(s, t) => Deliberate(CompleteEvents(s, t)) /\ Deliberate(FailEvents(s, t))
           /\ CanPauseAtSafeBoundary(s, t) => Deliberate(PauseAtSafeBoundaryEvents(s, t))
           /\ CanReportWorkspaceConflict(s, t) => Deliberate(ReportWorkspaceConflictEvents(s, t))
           /\ \A q \in QuestionIds : CanAwaitUserInput(s, t, q) =>
                 Deliberate(AwaitUserInputEvents(s, t, q))
           /\ \A c \in ConfirmationIds : Deliberate(ConsumeApprovalEvents(c))
           /\ \A f \in Fingerprints : CanRequestApproval(s, t, f) =>
                 Deliberate(RequestApprovalEvents(s, t, f))
           /\ \A r \in RunIds : Deliberate(RecordCoderSessionEvents(t, r))
<1>1. ASSUME NEW x
      PROVE  /\ Len(CompleteEvents(s, t)) \in 1..3
             /\ Len(FailEvents(s, t)) \in 1..3
             /\ Len(PauseAtSafeBoundaryEvents(s, t)) \in 1..3
             /\ Len(ReportWorkspaceConflictEvents(s, t)) \in 1..3
             /\ Len(AwaitUserInputEvents(s, t, x)) \in 1..3
             /\ Len(ConsumeApprovalEvents(x)) \in 1..3
             /\ Len(RequestApprovalEvents(s, t, x)) \in 1..3
             /\ Len(RecordCoderSessionEvents(t, x)) \in 1..3
  BY DEF CompleteEvents, FailEvents, PauseAtSafeBoundaryEvents, ReportWorkspaceConflictEvents,
         AwaitUserInputEvents, ConsumeApprovalEvents, RequestApprovalEvents,
         RecordCoderSessionEvents, AndStartNext
<1>2. CanFinish(s, t) => Deliberate(CompleteEvents(s, t)) /\ Deliberate(FailEvents(s, t))
  BY <1>1, FinishTyped, DecisionsStartLast, OnlyRequestPauseAsks DEF Deliberate
<1>3. CanPauseAtSafeBoundary(s, t) => Deliberate(PauseAtSafeBoundaryEvents(s, t))
  BY <1>1, CoderDecisionsTyped, DecisionsStartLast, OnlyRequestPauseAsks DEF Deliberate
<1>4. CanReportWorkspaceConflict(s, t) => Deliberate(ReportWorkspaceConflictEvents(s, t))
  BY <1>1, CoderDecisionsTyped, DecisionsStartLast, OnlyRequestPauseAsks DEF Deliberate
<1>5. ASSUME NEW q \in QuestionIds, CanAwaitUserInput(s, t, q)
      PROVE  Deliberate(AwaitUserInputEvents(s, t, q))
  BY <1>1, <1>5, CoderDecisionsTyped, DecisionsStartLast, OnlyRequestPauseAsks DEF Deliberate
<1>6. ASSUME NEW c \in ConfirmationIds
      PROVE  Deliberate(ConsumeApprovalEvents(c))
  BY <1>1, CoderDecisionsTyped, DecisionsStartLast, OnlyRequestPauseAsks DEF Deliberate
<1>7. ASSUME NEW f \in Fingerprints, CanRequestApproval(s, t, f)
      PROVE  Deliberate(RequestApprovalEvents(s, t, f))
  BY <1>1, <1>7, CoderDecisionsTyped, DecisionsStartLast, OnlyRequestPauseAsks DEF Deliberate
<1>8. ASSUME NEW r \in RunIds
      PROVE  Deliberate(RecordCoderSessionEvents(t, r))
  BY <1>1, CoderDecisionsTyped, DecisionsStartLast, OnlyRequestPauseAsks DEF Deliberate
<1> QED BY <1>2, <1>3, <1>4, <1>5, <1>6, <1>7, <1>8

-----------------------------------------------------------------------------
(* The run of the task in the slot.                                        *)

SlotRun(s) == IF s.activeTaskId = None THEN None ELSE s.tasks[s.activeTaskId].activeRunId

\* Whatever run that is in n was there before, or is one that was made in between.
SlotRunIsNew(s, n) ==
    \A r \in RunIds : SlotRun(n) = r => SlotRun(s) = r \/ s.runs[r].state = "none"

\* An update of a task or a run leaves the slot alone.
LEMMA UpdatesKeepSlot ==
    ASSUME NEW s, Shape(s), NEW t, NEW task, NEW r, NEW x
    PROVE  /\ SetTask(s, t, task).activeTaskId = s.activeTaskId
           /\ EndRun(s, r, x).activeTaskId = s.activeTaskId
BY DEF SetTask, EndRun, Shape

\* So does one of queue, questions or cards.
WithQueue(s, x) == [s EXCEPT !.queue = x]
WithQuestions(s, x) == [s EXCEPT !.questions = x]
WithCards(s, x) == [s EXCEPT !.confirmations = x]

\* None of these assignments touches the slot.
LEMMA FieldsKeepSlot ==
    ASSUME NEW s, Shape(s), NEW x
    PROVE  /\ WithQueue(s, x).activeTaskId = s.activeTaskId
           /\ WithQuestions(s, x).activeTaskId = s.activeTaskId
           /\ WithCards(s, x).activeTaskId = s.activeTaskId
BY DEF WithQueue, WithQuestions, WithCards, Shape

\* The end of a task frees the slot if the task was in it.
LEMMA RetireSlot ==
    ASSUME NEW s, Shape(s), NEW t, NEW x
    PROVE  Retire(s, t, x).activeTaskId = IF s.activeTaskId = t THEN None ELSE s.activeTaskId
<1> DEFINE s1 == SetTask(s, t, Ended(s.tasks[t], x))
           s2 == [s1 EXCEPT !.queue = RemoveFromQueue(s.queue, t)]
           slot == IF s2.activeTaskId = t THEN None ELSE s2.activeTaskId
           n == [s2 EXCEPT !.activeTaskId = slot]
<1>1. Retire(s, t, x) = n
  BY DEF Retire, Ended
<1>2. Shape(s1) /\ s1.activeTaskId = s.activeTaskId
  BY SetTaskFrame, UpdatesKeepSlot
<1> HIDE DEF s1
<1>3. Shape(s2) /\ s2.activeTaskId = s1.activeTaskId
  BY <1>2 DEF Shape
<1> HIDE DEF s2
<1>4. n.activeTaskId = slot
  BY <1>3 DEF Shape
<1> QED BY <1>1, <1>2, <1>3, <1>4

EndTypes == {"task.completed", "task.failed", "task.cancelled"}

\* Only the start of a task gives it the slot, and only its end takes it away.
LEMMA SlotMoves ==
    ASSUME NEW s, Shape(s), NEW e, e.type \in TaskTypes
    PROVE  LET n == Apply(s, e)
           IN  /\ e.type \in StartTypes => n.activeTaskId = e.taskId
               /\ e.type \notin StartTypes => n.activeTaskId \in {s.activeTaskId, None}
               /\ (e.type \notin StartTypes \cup EndTypes
                     \/ (e.type \in EndTypes /\ s.activeTaskId # e.taskId))
                        => n.activeTaskId = s.activeTaskId
<1> DEFINE n == Apply(s, e)
<1>1. CASE e.type \in StartTypes
  <2>1. n = TaskStarted(s, e)
    BY <1>1, ApplyCases DEF StartTypes, EndTypes
  <2> DEFINE task == Started(s.tasks[e.taskId], e.runId)
             s1 == SetTask(s, e.taskId, task)
  <2>2. Shape(s1)
    BY SetTaskFrame
  <2>3. \A queue, runs : [s1 EXCEPT !.queue = queue, !.runs = runs,
                                    !.activeTaskId = e.taskId].activeTaskId = e.taskId
    <3> HIDE DEF s1
    <3> QED BY <2>2 DEF Shape
  <2>4. n.activeTaskId = e.taskId
    BY <2>1, <2>3 DEF TaskStarted, Started
  <2> QED BY <1>1, <2>4 DEF StartTypes, EndTypes
<1>2. CASE e.type \in {"task.completed", "task.failed"}
  <2>1. \E x, r : n = Retire(EndRun(s, r, x), e.taskId, x)
    BY <1>2, ApplyCases DEF TaskCompleted, TaskFailed
  <2>2. PICK x, r : n = Retire(EndRun(s, r, x), e.taskId, x)
    BY <2>1
  <2>3. Shape(EndRun(s, r, x)) /\ EndRun(s, r, x).activeTaskId = s.activeTaskId
    BY EndRunFrame, UpdatesKeepSlot
  <2>4. n.activeTaskId = IF s.activeTaskId = e.taskId THEN None ELSE s.activeTaskId
    BY <2>2, <2>3, RetireSlot
  <2> QED BY <1>2, <2>4 DEF StartTypes, EndTypes
<1>3. CASE e.type = "task.cancelled"
  <2> DEFINE r == s.tasks[e.taskId].activeRunId
             s1 == IF r = None THEN s ELSE EndRun(s, r, "cancelled")
  <2>1. n = Retire(s1, e.taskId, "cancelled")
    BY <1>3, ApplyCases DEF TaskCancelled
  <2>2. Shape(s1) /\ s1.activeTaskId = s.activeTaskId
    BY EndRunFrame, UpdatesKeepSlot
  <2> HIDE DEF s1
  <2>3. n.activeTaskId = IF s.activeTaskId = e.taskId THEN None ELSE s.activeTaskId
    BY <2>1, <2>2, RetireSlot
  <2> QED BY <1>3, <2>3 DEF StartTypes, EndTypes
<1>4. CASE e.type \in {"task.paused", "task.awaitingUser", "task.questionAsked"}
  <2> DEFINE task == IF e.type = "task.paused" THEN Paused(s.tasks[e.taskId])
                     ELSE Awaiting(s.tasks[e.taskId])
             s1 == IF e.type = "task.paused" /\ s.runs[e.runId].state = "interrupted" THEN s
                   ELSE EndRun(s, e.runId, "paused")
             s2 == SetTask(s1, e.taskId, task)
  <2>1. Shape(s1) /\ s1.activeTaskId = s.activeTaskId
    BY EndRunFrame, UpdatesKeepSlot
  <2>2. Shape(s2) /\ s2.activeTaskId = s.activeTaskId
    <3> HIDE DEF s1
    <3> QED BY <2>1, SetTaskFrame, UpdatesKeepSlot
  <2>3. e.type # "task.questionAsked" => n = s2
    BY <1>4, ApplyCases DEF TaskPaused, TaskAwaitingUser, Paused, Awaiting
  <2>4. \A questions : [s2 EXCEPT !.questions = questions].activeTaskId = s2.activeTaskId
    <3> HIDE DEF s2
    <3> QED BY <2>2 DEF Shape
  <2>5. e.type = "task.questionAsked" => n.activeTaskId = s2.activeTaskId
    <3>1. e.type = "task.questionAsked" =>
             /\ n = TaskQuestionAsked(s, e)
             /\ s2 = TaskAwaitingUser(s, e)
      BY <1>4, ApplyCases DEF TaskAwaitingUser, Awaiting
    <3> HIDE DEF s2
    <3> QED BY <2>4, <3>1 DEF TaskQuestionAsked
  <2> QED BY <1>4, <2>2, <2>3, <2>5 DEF StartTypes, EndTypes
<1>5. CASE e.type \in {"task.created", "task.enqueued", "task.pauseRequested"} \cup KeepsState
  <2> DEFINE t == e.taskId
             Set(task) == SetTask(s, t, task)
  <2>1. \A task, x : /\ Set(task).activeTaskId = s.activeTaskId
                     /\ WithQueue(Set(task), x).activeTaskId = s.activeTaskId
                     /\ WithQuestions(Set(task), x).activeTaskId = s.activeTaskId
    <3> TAKE task, x
    <3>1. Shape(Set(task)) /\ Set(task).activeTaskId = s.activeTaskId
      BY SetTaskFrame, UpdatesKeepSlot
    <3> HIDE DEF Set
    <3> QED BY <3>1, FieldsKeepSlot
  <2>2. n.activeTaskId = s.activeTaskId
    <3>1. CASE e.type = "task.created"
      <4>1. n = Set(Created(e))
        BY <3>1, ApplyCases DEF TaskCreated, Created
      <4> QED BY <2>1, <4>1
    <3>2. CASE e.type = "task.enqueued"
      <4>1. n = WithQueue(Set(InState(s.tasks[t], "queued")),
                          InsertInQueue(RemoveFromQueue(s.queue, t), t, e.position))
        BY <3>2, ApplyCases DEF TaskEnqueued, InState, WithQueue
      <4> HIDE DEF Set, n
      <4> QED BY <2>1, <4>1
    <3>3. CASE e.type = "task.pauseRequested"
      <4>1. n = Set(InState(s.tasks[t], "pause_requested"))
        BY <3>3, ApplyCases DEF TaskPauseRequested, InState
      <4> QED BY <2>1, <4>1
    <3>4. CASE e.type = "coder.sessionBound"
      <4>1. n = Set(Bound(s.tasks[t], e.runId))
        BY <3>4, ApplyCases DEF CoderSessionBound, Bound
      <4> QED BY <2>1, <4>1
    <3>5. CASE e.type = "coder.recoveryBoundary"
      <4>1. n = s \/ n = Set(Bounded(s.tasks[t]))
        BY <3>5, ApplyCases DEF CoderRecoveryBoundary, Bounded
      <4> QED BY <2>1, <4>1
    <3>6. CASE e.type = "task.specRevised"
      <4>1. n = WithQuestions(Set(Revised(s.tasks[t], e)), QuestionsLeft(s, t))
        BY <3>6, ApplyCases DEF TaskSpecRevised, Revised, QuestionsLeft, Superseded, WithQuestions
      <4> HIDE DEF Set, n
      <4> QED BY <2>1, <4>1
    <3>7. CASE e.type \in {"workspace.conflictDetected", "workspace.conflictResolved"}
      <4>1. n = Set(Conflicted(s.tasks[t], TRUE)) \/ n = Set(Conflicted(s.tasks[t], FALSE))
        BY <3>7, ApplyCases DEF WorkspaceConflictDetected, WorkspaceConflictResolved, Conflicted
      <4>2. Set(Conflicted(s.tasks[t], TRUE)).activeTaskId = s.activeTaskId
        BY <2>1
      <4>3. Set(Conflicted(s.tasks[t], FALSE)).activeTaskId = s.activeTaskId
        BY <2>1
      <4> HIDE DEF Set, n
      <4> QED BY <4>1, <4>2, <4>3
    <3> QED BY <1>5, <3>1, <3>2, <3>3, <3>4, <3>5, <3>6, <3>7 DEF KeepsState
  <2> QED BY <1>5, <2>2 DEF StartTypes, EndTypes, KeepsState
<1> QED BY <1>1, <1>2, <1>3, <1>4, <1>5 DEF TaskTypes, TaskIsRequired, StartTypes, KeepsState

\* The others do not touch it.
LEMMA SlotStays ==
    ASSUME NEW s, Shape(s), NEW e \in Events, e.type \notin TaskTypes
    PROVE  Apply(s, e).activeTaskId = s.activeTaskId
<1>1. e.type \in CardTypes \cup {"task.questionAnswered", "run.interrupted", "queue.reordered"}
  BY EventTypes
<1>2. CASE e.type = "run.interrupted"
  <2>1. Apply(s, e) = EndRun(s, e.runId, "interrupted")
    BY <1>2, ApplyCases DEF RunInterrupted
  <2> QED BY <2>1, UpdatesKeepSlot
<1>3. CASE e.type = "queue.reordered"
  <2>1. Apply(s, e) = WithQueue(s, e.taskIds)
    BY <1>3, ApplyCases DEF QueueReordered, WithQueue
  <2> QED BY <2>1, FieldsKeepSlot
<1>4. CASE e.type = "task.questionAnswered"
  <2>1. Apply(s, e) = WithQuestions(s, [s.questions EXCEPT ![e.questionId] =
                         [s.questions[e.questionId] EXCEPT !.state = "answered"]])
    BY <1>4, ApplyCases DEF TaskQuestionAnswered, WithQuestions
  <2> QED BY <2>1, FieldsKeepSlot
<1>5. CASE e.type \in CardTypes
  <2> DEFINE c == e.confirmationId
             Moved(to) == WithCards(s, [s.confirmations EXCEPT ![c] =
                                           [s.confirmations[c] EXCEPT !.state = to]])
  <2>1. \A to : Moved(to).activeTaskId = s.activeTaskId
    BY FieldsKeepSlot
  <2>2. CASE e.type = "approval.requested"
    <3>1. Apply(s, e) = WithCards(s, [s.confirmations EXCEPT ![c] =
                           [taskId |-> e.taskId, taskRevision |-> e.revision,
                            fingerprint |-> e.fingerprint, state |-> "pending"]])
      BY <2>2, ApplyCases DEF ApprovalRequested, WithCards
    <3> QED BY <3>1, FieldsKeepSlot
  <2>3. CASE e.type = "approval.resolved"
    <3>1. Apply(s, e) = Moved(IF e.decision = "approve" THEN "approved" ELSE "rejected")
      BY <2>3, ApplyCases DEF ApprovalResolved, SetConfirmation, WithCards
    <3> QED BY <2>1, <3>1
  <2>4. CASE e.type = "approval.consumed"
    <3>1. Apply(s, e) = Moved("consumed")
      BY <2>4, ApplyCases DEF ApprovalConsumed, SetConfirmation, WithCards
    <3> QED BY <2>1, <3>1
  <2> QED BY <1>5, <2>2, <2>3, <2>4 DEF CardTypes
<1> QED BY <1>1, <1>2, <1>3, <1>4, <1>5

\* One event.
LEMMA EventSlotRun ==
    ASSUME NEW s \in ControllerStates, NEW e \in Events, Fits(s, e)
    PROVE  SlotRunIsNew(s, Apply(s, e))
<1> DEFINE n == Apply(s, e)
<1>1. Shape(s) /\ s.activeTaskId \in TaskIds \cup {None}
  BY StatesHaveShape DEF ControllerStates
<1>2. CASE e.type \in StartTypes
  <2>1. e.runId \in RunIds /\ s.runs[e.runId].state = "none"
    BY <1>2, EventRuns
  <2>2. e.type \in TaskTypes
    BY <1>2 DEF StartTypes, TaskTypes, TaskIsRequired
  <2>3. n.activeTaskId = e.taskId
    BY <1>1, <1>2, <2>2, SlotMoves
  <2>4. e.taskId \in TaskIds /\ After(e, s.tasks[e.taskId], n.tasks[e.taskId])
    BY <2>2, TaskEffect
  <2>5. n.tasks[e.taskId].activeRunId = e.runId
    BY <1>2, <2>4 DEF After
  <2> HIDE DEF n
  <2> QED BY <2>1, <2>3, <2>4, <2>5, NoneAssumption DEF SlotRunIsNew, SlotRun, n
<1>3. CASE e.type \in TaskTypes \ StartTypes
  <2>1. n.activeTaskId \in {s.activeTaskId, None}
    BY <1>1, <1>3, SlotMoves
  <2>2. \A u \in TaskIds : n.tasks[u].activeRunId \in {s.tasks[u].activeRunId, None}
    <3>1. /\ \A u \in TaskIds : u # e.taskId => n.tasks[u] = s.tasks[u]
          /\ After(e, s.tasks[e.taskId], n.tasks[e.taskId])
      BY <1>3, TaskEffect
    <3>2. n.tasks[e.taskId].activeRunId \in {s.tasks[e.taskId].activeRunId, None}
      BY <1>3, <3>1 DEF After
    <3> HIDE DEF n
    <3> QED BY <3>1, <3>2
  <2> HIDE DEF n
  <2> QED BY <1>1, <2>1, <2>2, NoneAssumption DEF SlotRunIsNew, SlotRun, n
<1>4. CASE e.type \notin TaskTypes
  <2>1. n.activeTaskId = s.activeTaskId
    BY <1>1, <1>4, SlotStays
  <2>2. n.tasks = s.tasks
    BY <1>4, OtherFrame
  <2> HIDE DEF n
  <2> QED BY <2>1, <2>2 DEF SlotRunIsNew, SlotRun, n
<1> QED BY <1>2, <1>3, <1>4

\* One applyEvent.
LEMMA CheckedSlotRun ==
    ASSUME NEW m \in [state : ControllerStates, ok : BOOLEAN], NEW e \in Events
    PROVE  SlotRunIsNew(m.state, ApplyChecked(m, e).state)
<1>1. CASE ~m.ok \/ ~Fits(m.state, e)
  <2>1. ApplyChecked(m, e).state = m.state
    BY <1>1 DEF ApplyChecked
  <2> QED BY <2>1 DEF SlotRunIsNew
<1>2. CASE m.ok /\ Fits(m.state, e)
  <2>1. ApplyChecked(m, e).state = Apply(m.state, e)
    BY <1>2 DEF ApplyChecked
  <2> QED BY <1>2, <2>1, EventSlotRun
<1> QED BY <1>1, <1>2

\* A whole decision.
LEMMA DecisionSlotRun ==
    ASSUME NEW s \in ControllerStates, NEW events \in Seq(Events), Len(events) \in 1..3
    PROVE  SlotRunIsNew(s, ApplyDecision([state |-> s, ok |-> TRUE], events).state)
<1> DEFINE Memories == [state : ControllerStates, ok : BOOLEAN]
           m0 == [state |-> s, ok |-> TRUE]
           m1 == ApplyChecked(m0, events[1])
           m2 == IF Len(events) < 2 THEN m1 ELSE ApplyChecked(m1, events[2])
           m3 == IF Len(events) < 3 THEN m2 ELSE ApplyChecked(m2, events[3])
           Done(n) == n \in Memories /\ RunsRemain(s, n.state) /\ SlotRunIsNew(s, n.state)
<1>1. \A i \in 1..Len(events) : events[i] \in Events
  OBVIOUS
<1>2. Done(m0)
  BY DEF RunsRemain, SlotRunIsNew
<1>3. ASSUME NEW n, Done(n), NEW i \in 1..Len(events)
      PROVE  Done(ApplyChecked(n, events[i]))
  <2> DEFINE k == ApplyChecked(n, events[i])
  <2>1. k \in Memories /\ RunsRemain(n.state, k.state)
    BY <1>1, <1>3, CheckedRuns
  <2>2. SlotRunIsNew(n.state, k.state)
    BY <1>1, <1>3, CheckedSlotRun
  <2> HIDE DEF k
  <2> QED BY <1>3, <2>1, <2>2 DEF RunsRemain, SlotRunIsNew, k
<1> HIDE DEF m0
<1>4. Done(m1)
  BY <1>2, <1>3
<1> HIDE DEF m1
<1>5. Done(m2)
  BY <1>3, <1>4
<1> HIDE DEF m2
<1>6. Done(m3)
  BY <1>3, <1>5
<1>7. ApplyDecision([state |-> s, ok |-> TRUE], events) = m3
  BY FewSteps DEF LoopOfThree, m0, m1, m2
<1> HIDE DEF m3
<1> QED BY <1>6, <1>7

-----------------------------------------------------------------------------
(* Who works: the task in the slot, in a run of its own.                   *)

Working(task) == task.state \in {"running", "pause_requested"}

\* Task t is at work in run r.
AtWork(s, t, r) == Working(s.tasks[t]) /\ s.tasks[t].activeRunId = r
Running(s, t, r) == s.tasks[t].state = "running" /\ s.tasks[t].activeRunId = r

\* A task that works has the slot, and the run that a task is in is of that task.
Slotted(s) ==
    \A t \in TaskIds :
        /\ Working(s.tasks[t]) => s.activeTaskId = t
        /\ s.tasks[t].activeRunId # None => s.runs[s.tasks[t].activeRunId].taskId = t

\* Of the runs that s has, none is at work in n that is not in s.
WorkIsNew(s, n) ==
    \A t \in TaskIds, r \in RunIds :
        (s.runs[r].state # "none" /\ AtWork(n, t, r)) => AtWork(s, t, r)

\* A run that is a task's has been made.
LEMMA RunsOfTasks ==
    ASSUME NEW s \in ControllerStates, NEW r \in RunIds, s.runs[r].taskId \in TaskIds
    PROVE  s.runs[r].state # "none"
<1>1. s.runs[r] \in Run
  BY FieldsTyped
<1> QED BY <1>1, NoneAssumption DEF Run, NoRun

\* The run that a task of a slotted state is in has been made.
LEMMA ActiveRuns ==
    ASSUME NEW s \in ControllerStates, Slotted(s), NEW t \in TaskIds,
           s.tasks[t].activeRunId # None
    PROVE  /\ s.tasks[t].activeRunId \in RunIds
           /\ s.runs[s.tasks[t].activeRunId].state # "none"
           /\ s.runs[s.tasks[t].activeRunId].taskId = t
<1>1. s.tasks[t].activeRunId \in RunIds
  BY TaskFields
<1> QED BY <1>1, RunsOfTasks DEF Slotted

\* One event.
LEMMA EventSlots ==
    ASSUME NEW s \in ControllerStates, NEW e \in Events, Fits(s, e), Slotted(s),
           e.type = "task.pauseRequested" => Working(s.tasks[e.taskId])
    PROVE  LET n == Apply(s, e)
           IN  /\ Slotted(n)
               /\ WorkIsNew(s, n)
               /\ e.type \in StartTypes => Running(n, e.taskId, e.runId)
               /\ e.type = "task.cancelled" => ~Working(n.tasks[e.taskId])
<1> DEFINE n == Apply(s, e)
           t0 == e.taskId
<1>1. Shape(s) /\ s.activeTaskId \in TaskIds \cup {None}
  BY StatesHaveShape DEF ControllerStates
<1>2. RunsRemain(s, n)
  BY EventRuns
<1>3. ASSUME NEW t \in TaskIds, s.tasks[t].activeRunId # None
      PROVE  n.runs[s.tasks[t].activeRunId].taskId = t
  BY <1>2, <1>3, ActiveRuns DEF RunsRemain
<1>4. CASE e.type \in StartTypes
  <2>1. /\ t0 \in TaskIds /\ e.runId \in RunIds
        /\ s.runs[e.runId].state = "none" /\ n.runs[e.runId].taskId = t0
    BY <1>4, EventRuns
  <2>2. e.type \in TaskTypes /\ e.type # "task.cancelled"
    BY <1>4 DEF StartTypes, TaskTypes, TaskIsRequired
  <2>3. n.activeTaskId = t0
    BY <1>1, <1>4, <2>2, SlotMoves
  <2>4. /\ n.tasks[t0].state = "running" /\ n.tasks[t0].activeRunId = e.runId
        /\ \A u \in TaskIds : u # t0 => n.tasks[u] = s.tasks[u]
    BY <1>4, <2>2, TaskEffect DEF After
  <2>5. s.activeTaskId \in {None, t0}
    BY <1>4 DEF Fits, StartTypes
  <2> HIDE DEF n, t0
  <2>6. \A u \in TaskIds : u # t0 => ~Working(n.tasks[u])
    BY <2>4, <2>5, NoneAssumption DEF Slotted
  <2>7. Slotted(n)
    BY <1>3, <2>1, <2>3, <2>4, <2>6 DEF Slotted
  <2>8. WorkIsNew(s, n)
    BY <2>1, <2>4, <2>6 DEF WorkIsNew, AtWork
  <2>9. Running(n, t0, e.runId)
    BY <2>4 DEF Running
  <2> QED BY <2>2, <2>7, <2>8, <2>9 DEF n, t0
<1>5. CASE e.type \in TaskTypes \ StartTypes
  <2>1. /\ t0 \in TaskIds
        /\ \A u \in TaskIds : u # t0 => n.tasks[u] = s.tasks[u]
        /\ After(e, s.tasks[t0], n.tasks[t0])
    BY <1>5, TaskEffect
  <2>2. \/ n.tasks[t0].activeRunId = None
        \/ n.tasks[t0].activeRunId = s.tasks[t0].activeRunId
    BY <1>5, <2>1 DEF After
  <2>3. Working(n.tasks[t0]) => Working(s.tasks[t0]) /\ e.type \notin EndTypes
                                /\ n.tasks[t0].activeRunId = s.tasks[t0].activeRunId
    BY <1>5, <2>1
       DEF After, Working, TaskTypes, TaskIsRequired, StartTypes, StopTypes, KeepsState, EndTypes
  <2>4. /\ e.type \notin EndTypes => n.activeTaskId = s.activeTaskId
        /\ s.activeTaskId # t0 => n.activeTaskId = s.activeTaskId
    BY <1>1, <1>5, SlotMoves DEF EndTypes
  <2>5. e.type = "task.cancelled" => e.type \in EndTypes
    BY DEF EndTypes
  <2> HIDE DEF n, t0
  <2>6. Slotted(n)
    <3> SUFFICES ASSUME NEW t \in TaskIds
                 PROVE  /\ Working(n.tasks[t]) => n.activeTaskId = t
                        /\ n.tasks[t].activeRunId # None =>
                              n.runs[n.tasks[t].activeRunId].taskId = t
      BY DEF Slotted
    <3>1. n.tasks[t].activeRunId # None => n.tasks[t].activeRunId = s.tasks[t].activeRunId
      BY <2>1, <2>2
    <3>2. Working(n.tasks[t]) => Working(s.tasks[t]) /\ (t = t0 => e.type \notin EndTypes)
      BY <2>1, <2>3
    <3>3. Working(n.tasks[t]) => n.activeTaskId = t
      BY <2>4, <3>2 DEF Slotted
    <3> QED BY <1>3, <3>1, <3>3 DEF n
  <2>7. WorkIsNew(s, n)
    BY <2>1, <2>3 DEF WorkIsNew, AtWork
  <2> QED BY <1>5, <2>3, <2>5, <2>6, <2>7 DEF n, t0
<1>6. CASE e.type \notin TaskTypes
  <2>1. n.activeTaskId = s.activeTaskId /\ n.tasks = s.tasks
    BY <1>1, <1>6, SlotStays, OtherFrame
  <2>2. e.type \notin StartTypes /\ e.type # "task.cancelled"
    BY <1>6 DEF TaskTypes, TaskIsRequired, StartTypes
  <2> HIDE DEF n
  <2>3. Slotted(n)
    BY <1>3, <2>1 DEF Slotted, n
  <2>4. WorkIsNew(s, n)
    BY <2>1 DEF WorkIsNew, AtWork
  <2> QED BY <2>2, <2>3, <2>4 DEF n
<1> QED BY <1>4, <1>5, <1>6

\* A pause is asked of a task that works.
Heeds(s, e) == e.type = "task.pauseRequested" => Working(s.tasks[e.taskId])

\* No run of s is at work for task t in n.
Idle(s, n, t) == \A r \in RunIds : s.runs[r].state # "none" => ~AtWork(n, t, r)

\* One applyEvent.
LEMMA CheckedSlots ==
    ASSUME NEW m \in [state : ControllerStates, ok : BOOLEAN], NEW e \in Events,
           Slotted(m.state), Heeds(m.state, e)
    PROVE  LET n == ApplyChecked(m, e)
           IN  /\ Slotted(n.state)
               /\ WorkIsNew(m.state, n.state)
               /\ (n.ok /\ e.type \in StartTypes) => Running(n.state, e.taskId, e.runId)
               /\ (n.ok /\ e.type = "task.cancelled") => ~Working(n.state.tasks[e.taskId])
<1> DEFINE n == ApplyChecked(m, e)
<1>1. CASE ~m.ok \/ ~Fits(m.state, e)
  <2>1. n.state = m.state /\ ~n.ok
    BY <1>1 DEF ApplyChecked
  <2> HIDE DEF n
  <2> QED BY <2>1 DEF WorkIsNew, n
<1>2. CASE m.ok /\ Fits(m.state, e)
  <2>1. n.state = Apply(m.state, e)
    BY <1>2 DEF ApplyChecked
  <2> HIDE DEF n
  <2> QED BY <1>2, <2>1, EventSlots DEF Heeds, n
<1> QED BY <1>1, <1>2

\* A decision that asks for no pause, or only for one of a task that works, keeps the slot
\* to one task, starts its last event's run, and leaves no run of a task it cancels at work.
LEMMA DecisionSlots ==
    ASSUME NEW s \in ControllerStates, Slotted(s),
           NEW events \in Seq(Events), Len(events) \in 1..3, StartsLast(events),
           AsksNoPause(events) \/ (Len(events) = 1 /\ Heeds(s, events[1]))
    PROVE  LET n == ApplyDecision([state |-> s, ok |-> TRUE], events)
               e == events[Len(events)]
           IN  /\ Slotted(n.state)
               /\ WorkIsNew(s, n.state)
               /\ (n.ok /\ e.type \in StartTypes) => Running(n.state, e.taskId, e.runId)
               /\ \A i \in DOMAIN events :
                     (n.ok /\ events[i].type = "task.cancelled")
                        => Idle(s, n.state, events[i].taskId)
<1> DEFINE Memories == [state : ControllerStates, ok : BOOLEAN]
           m0 == [state |-> s, ok |-> TRUE]
           m1 == ApplyChecked(m0, events[1])
           m2 == IF Len(events) < 2 THEN m1 ELSE ApplyChecked(m1, events[2])
           m3 == IF Len(events) < 3 THEN m2 ELSE ApplyChecked(m2, events[3])
           Starts(n, e) ==
              (n.ok /\ e.type \in StartTypes) => Running(n.state, e.taskId, e.runId)
           Stops(n, e) ==
              (n.ok /\ e.type = "task.cancelled") => Idle(s, n.state, e.taskId)
           Done(n, i) == /\ n \in Memories /\ RunsRemain(s, n.state)
                         /\ Slotted(n.state) /\ WorkIsNew(s, n.state)
                         /\ i > 0 => Starts(n, events[i])
                         /\ \A j \in 1..i : Stops(n, events[j])
<1>1. \A i \in 1..Len(events) : events[i] \in Events
  OBVIOUS
<1>2. Done(m0, 0) /\ m0.state = s
  BY DEF RunsRemain, WorkIsNew
<1>3. ASSUME NEW n, NEW i \in 0..2, Done(n, i), i < Len(events), i = 0 => n.state = s
      PROVE  Done(ApplyChecked(n, events[i + 1]), i + 1)
  <2> DEFINE e == events[i + 1]
             k == ApplyChecked(n, e)
  <2>1. i + 1 \in 1..Len(events) /\ i + 1 \in DOMAIN events
    BY <1>3
  <2>2. Heeds(n.state, e)
    <3>1. CASE AsksNoPause(events)
      BY <2>1, <3>1 DEF AsksNoPause, Heeds
    <3>2. CASE Len(events) = 1 /\ Heeds(s, events[1])
      <4>1. i = 0 /\ n.state = s /\ i + 1 = 1
        BY <1>3, <3>2
      <4> QED BY <3>2, <4>1
    <3> QED BY <3>1, <3>2
  <2>3. /\ k \in Memories /\ RunsRemain(n.state, k.state)
        /\ k.ok => n.ok
        /\ Slotted(k.state) /\ WorkIsNew(n.state, k.state)
        /\ Starts(k, e)
        /\ (k.ok /\ e.type = "task.cancelled") => ~Working(k.state.tasks[e.taskId])
    BY <1>1, <1>3, <2>1, <2>2, CheckedRuns, CheckedSlots
  <2>4. \A j \in 1..(i + 1) : events[j].type = "task.cancelled" => events[j].taskId \in TaskIds
    <3>1. \A j \in 1..(i + 1) : events[j] \in Events
      BY <1>1, <1>3
    <3> QED BY <3>1, EventTypes DEF TaskTypes, TaskIsRequired
  <2> HIDE DEF k
  <2>5. RunsRemain(s, k.state)
    BY <1>3, <2>3 DEF RunsRemain
  <2>6. WorkIsNew(s, k.state)
    BY <1>3, <2>3 DEF RunsRemain, WorkIsNew
  <2>7. \A j \in 1..(i + 1) : Stops(k, events[j])
    <3> SUFFICES ASSUME NEW j \in 1..(i + 1), k.ok, events[j].type = "task.cancelled"
                 PROVE  Idle(s, k.state, events[j].taskId)
      OBVIOUS
    <3>1. CASE j = i + 1
      BY <2>3, <3>1 DEF Idle, AtWork
    <3>2. CASE j # i + 1
      <4>1. j \in 1..i
        BY <1>3, <3>2
      <4>2. Idle(s, n.state, events[j].taskId)
        BY <1>3, <2>3, <4>1
      <4> QED BY <1>3, <2>3, <2>4, <4>2 DEF Idle, WorkIsNew, RunsRemain
    <3> QED BY <3>1, <3>2
  <2> HIDE DEF Starts, Stops
  <2>8. i + 1 > 0 => Starts(k, events[i + 1])
    BY <2>3
  <2>9. Done(k, i + 1)
    BY <2>3, <2>5, <2>6, <2>7, <2>8
  <2> QED BY <2>9 DEF k
<1> HIDE DEF m0, Done
<1>4. Done(m1, 1)
  <2>1. Done(ApplyChecked(m0, events[0 + 1]), 0 + 1)
    BY <1>2, <1>3
  <2> QED BY <2>1
<1> HIDE DEF m1
<1>5. /\ Len(events) < 2 => Done(m2, 1)
      /\ Len(events) >= 2 => Done(m2, 2)
  <2>1. ASSUME Len(events) >= 2 PROVE Done(ApplyChecked(m1, events[1 + 1]), 1 + 1)
    BY <1>3, <1>4, <2>1
  <2> QED BY <1>4, <2>1
<1> HIDE DEF m2
<1>6. Done(m3, Len(events))
  <2>1. ASSUME Len(events) = 3 PROVE Done(ApplyChecked(m2, events[2 + 1]), 2 + 1)
    BY <1>3, <1>5, <2>1
  <2>2. CASE Len(events) = 3
    <3>1. m3 = ApplyChecked(m2, events[2 + 1]) /\ Len(events) = 2 + 1
      BY <2>2
    <3> HIDE DEF m3
    <3> QED BY <2>1, <2>2, <3>1
  <2>3. CASE Len(events) = 2
    <3>1. m3 = m2
      BY <2>3
    <3> HIDE DEF m3
    <3> QED BY <1>5, <2>3, <3>1
  <2>4. CASE Len(events) = 1
    <3>1. m3 = m2
      BY <2>4
    <3> HIDE DEF m3
    <3> QED BY <1>5, <2>4, <3>1
  <2> QED BY <2>2, <2>3, <2>4
<1>7. ApplyDecision([state |-> s, ok |-> TRUE], events) = m3
  BY FewSteps DEF LoopOfThree, m0, m1, m2
<1> HIDE DEF m3
<1>8. DOMAIN events = 1..Len(events) /\ Len(events) > 0
  OBVIOUS
<1> QED BY <1>6, <1>7, <1>8 DEF Done
=============================================================================
