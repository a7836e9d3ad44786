------------------------------ MODULE GuardProofs ------------------------------
(***************************************************************************)
(* What EvidenceGate and WorkspaceGuard promise, for any number of files,  *)
(* tool calls, changes and runs: a completion was verified, and no edit of *)
(* the user is overwritten unseen.                                         *)
(*                                                                         *)
(* One inductive invariant carries both: which contents a call has         *)
(* scanned, in which order the rows were stored, what the runner offers,   *)
(* and where an edit nobody has told the user of is still known.           *)
(***************************************************************************)
EXTENDS EvidenceGate, SequenceTheorems, TLAPS

Contents == [Files -> Nat]
Buffers == [version : Nat, dirty : BOOLEAN, saved : BOOLEAN, past : Nat]
Guards ==
    [at : {"scanning", "starting", "ready", "reconciling", "finished"},
     knownFiles : Contents, preExistingChanges : SUBSET Files,
     externalChanges : SUBSET Files, pendingAttribution : Calls \cup {None}, held : BOOLEAN]
ToolCalls ==
    [at : {"none", "waiting", "checking", "executing", "attributing", "scanned", "blocked", "done"},
     kind : Kinds \cup {None}, target : Files \cup {None}, run : Nat, awaits : Calls \cup {None},
     files : Contents, versions : Contents, now : Contents, ok : BOOLEAN, conflict : BOOLEAN,
     changed : SUBSET Files, wrote : SUBSET Files, before : SUBSET Calls]

Typed ==
    /\ disk \in Contents /\ writes \in Nat /\ run \in Nat \ {0}
    /\ editor \in [Files -> Buffers]
    /\ guard \in Guards
    /\ calls \in [Calls -> ToolCalls]
    /\ unseen \in SUBSET Files
    /\ rows \in Seq(Calls)

\* No content is newer than the last write.
Old(scan) == \A f \in Files : scan[f] <= writes
ContentsAreOld ==
    /\ Old(disk) /\ Old(guard.knownFiles)
    /\ \A c \in Calls : Old(calls[c].files) /\ Old(calls[c].now)

\* What the coder has written in the time of a call differs from its baseline.
WritesShow ==
    \A c \in Calls :
        /\ calls[c].at = "waiting" => calls[c].wrote = {}
        /\ Executes(c) => \A f \in calls[c].wrote : calls[c].files[f] < disk[f]
        /\ calls[c].at = "scanned" => \A f \in calls[c].wrote : calls[c].files[f] # calls[c].now[f]

\* The rows are the calls that are over, each once, in an order that goes on from the
\* calls that were over before.
RowsAreInOrder ==
    /\ \A i, j \in DOMAIN rows : rows[i] = rows[j] => i = j
    /\ \A c \in Calls : calls[c].at = "done" <=> \E i \in DOMAIN rows : rows[i] = c
    /\ \A c \in Calls : AtWork(c) => \A d \in calls[c].before : calls[d].at = "done"
    /\ \A j \in DOMAIN rows : \A d \in calls[rows[j]].before :
          \E i \in DOMAIN rows : i < j /\ rows[i] = d

\* While no conflict is open, the runner offers every row of its run, and what the
\* coder has written is in them.
RowsAreOffered ==
    /\ \A c \in Calls : calls[c].run <= run
    /\ \A c \in Calls :
          (calls[c].at = "done" /\ calls[c].run = run /\ ~guard.held)
              => c \in offered /\ (calls[c].wrote # {} => calls[c].changed # {})
    /\ guard.at # "ready" => \A c \in Calls : ~AtWork(c)
    /\ guard.at = "reconciling" => guard.held /\ \A c \in Calls : calls[c].run < run

\* An edit that the user has not been told of is what every baseline shows; it is
\* among the external changes, or the last scan that counts is older and no call that
\* could bring a newer one was let through.
EditsAreKnown ==
    /\ \A f \in unseen, c \in Calls :
          /\ Executes(c) => calls[c].files[f] = disk[f]
          /\ calls[c].at = "scanned" /\ calls[c].now[f] = disk[f]
                => calls[c].files[f] = disk[f]
          /\ f \notin guard.externalChanges =>
                /\ calls[c].at \notin {"executing", "attributing"}
                /\ calls[c].at = "scanned" => calls[c].now[f] # disk[f]
    /\ \A f \in unseen :
          f \notin guard.externalChanges \/ guard.at \in {"starting", "reconciling"}
              => guard.knownFiles[f] # disk[f]

\* Turns come one at a time, and start only on a tree the guard knows.
TurnsAlone ==
    /\ \A c, d \in Calls :
          /\ calls[c].at # "none" /\ calls[d].at # "none"
                => (calls[c].kind = "turn" <=> calls[d].kind = "turn")
          /\ calls[c].kind = "turn" /\ AtWork(c) /\ AtWork(d) => c = d
    /\ (\A c \in Calls : calls[c].at = "none" \/ calls[c].kind = "turn")
          => \A f \in unseen : guard.knownFiles[f] # disk[f]
    /\ \A c \in Calls : calls[c].kind = "turn" =>
          /\ calls[c].at \in {"executing", "attributing"} => unseen = {}
          /\ calls[c].at = "scanned" => \A f \in unseen : calls[c].now[f] # disk[f]

GuardInvariant ==
    /\ Typed /\ ContentsAreOld /\ WritesShow /\ RowsAreInOrder /\ RowsAreOffered
    /\ EditsAreKnown /\ TurnsAlone /\ CompletionIsVerified

-----------------------------------------------------------------------------
(* The user, the start of the task and the reconciliation.                 *)

\* The guard starts before any call, on whatever the user had in the tree.
LEMMA InitHolds == ASSUME GateInit PROVE GuardInvariant
<1>1. Typed
  <2>1. disk \in Contents /\ NoScan \in Contents
    BY DEF GateInit, Init, Contents, NoScan
  <2>2. NoCall \in ToolCalls
    BY <2>1 DEF NoCall, ToolCalls
  <2>3. guard \in Guards
    BY <2>1 DEF GateInit, Init, Guards
  <2>4. editor \in [Files -> Buffers]
    BY DEF GateInit, Init, NotOpen, Buffers
  <2> HIDE DEF NoScan, NoCall
  <2> QED BY <2>1, <2>2, <2>3, <2>4 DEF Typed, GateInit, Init
<1>2. /\ writes = 1 /\ unseen = {} /\ rows = <<>> /\ guard.at = "scanning"
      /\ \A f \in Files : disk[f] <= 1 /\ guard.knownFiles[f] = 0
      /\ \A c \in Calls : /\ calls[c].at = "none" /\ calls[c].run = 0
                          /\ \A f \in Files : calls[c].files[f] = 0 /\ calls[c].now[f] = 0
  <2>1. ASSUME NEW c \in Calls
        PROVE  calls[c].at = "none" /\ calls[c].run = 0 /\ calls[c].files = NoScan
               /\ calls[c].now = NoScan
    BY DEF GateInit, Init, NoCall
  <2>2. guard.knownFiles = NoScan /\ guard.at = "scanning"
    BY DEF GateInit, Init
  <2>3. \A f \in Files : NoScan[f] = 0 /\ disk[f] <= 1
    BY DEF GateInit, Init, NoScan
  <2>4. writes = 1 /\ unseen = {} /\ rows = <<>>
    BY DEF GateInit, Init
  <2> QED BY <2>1, <2>2, <2>3, <2>4
<1>3. ContentsAreOld /\ WritesShow
  BY <1>2 DEF ContentsAreOld, Old, WritesShow, Executes
<1>4. RowsAreInOrder /\ RowsAreOffered
  BY <1>1, <1>2 DEF RowsAreInOrder, RowsAreOffered, AtWork, Typed
<1>5. EditsAreKnown /\ TurnsAlone /\ CompletionIsVerified
  BY <1>2 DEF EditsAreKnown, TurnsAlone, CompletionIsVerified, AtWork
<1> QED BY <1>1, <1>3, <1>4, <1>5 DEF GuardInvariant

\* The part of the invariant that is about the calls alone is kept by what changes
\* neither the calls nor the runner.
CallsStay == calls' = calls /\ rows' = rows /\ offered' = offered /\ run' = run

\* A write of the user: the new content is in no scan.
LEMMA UserWritesFresh ==
    ASSUME Typed, ContentsAreOld, NEW f \in Files, UserWrites(f)
    PROVE  /\ disk' \in Contents /\ writes' = writes + 1 /\ unseen' \in SUBSET Files
           /\ disk'[f] = writes + 1
           /\ \A g \in Files : (g # f => disk'[g] = disk[g]) /\ disk'[g] <= writes'
           /\ IF \E c \in Calls : Executes(c) THEN unseen' = unseen \ {f}
              ELSE unseen' = unseen \cup {f}
<1> USE DEF Typed, ContentsAreOld, Old, Contents, UserWrites, Write
<1> QED OBVIOUS

\* What the user does at the editor or on the disk.
LEMMA UserKeeps ==
    ASSUME GuardInvariant, CallsStay, editor' \in [Files -> Buffers], guard' \in Guards,
           guard'.at = guard.at, guard'.held = guard.held, guard'.knownFiles = guard.knownFiles,
           guard.externalChanges \subseteq guard'.externalChanges,
           UNCHANGED tree \/ \E f \in Files : UserWrites(f)
    PROVE  GuardInvariant'
<1>1. /\ Typed /\ ContentsAreOld /\ WritesShow /\ RowsAreInOrder /\ RowsAreOffered
      /\ EditsAreKnown /\ TurnsAlone /\ CompletionIsVerified
  BY DEF GuardInvariant
<1>2. /\ disk' \in Contents /\ writes' \in Nat /\ writes <= writes' /\ unseen' \in SUBSET Files
      /\ \A g \in Files : /\ disk[g] <= disk'[g] /\ disk'[g] <= writes'
                          /\ g \in unseen' /\ (g \notin unseen \/ disk'[g] # disk[g])
                                => disk'[g] > writes /\ \A c \in Calls : ~Executes(c)
  <2>1. CASE UNCHANGED tree
    BY <1>1, <2>1 DEF tree, Typed, ContentsAreOld, Old, Contents
  <2>2. CASE \E f \in Files : UserWrites(f)
    <3>1. PICK f \in Files : UserWrites(f)
      BY <2>2
    <3>2. /\ disk' \in Contents /\ writes' = writes + 1 /\ unseen' \in SUBSET Files
          /\ disk'[f] = writes + 1
          /\ \A g \in Files : (g # f => disk'[g] = disk[g]) /\ disk'[g] <= writes'
          /\ IF \E c \in Calls : Executes(c) THEN unseen' = unseen \ {f}
             ELSE unseen' = unseen \cup {f}
      BY <1>1, <3>1, UserWritesFresh
    <3> QED BY <1>1, <3>2 DEF Typed, ContentsAreOld, Old, Contents
  <2> QED BY <2>1, <2>2
<1>3. Typed' /\ ContentsAreOld'
  BY <1>1, <1>2 DEF Typed, ContentsAreOld, Old, CallsStay, Contents, Guards, ToolCalls
<1>4. WritesShow'
  BY <1>1, <1>2 DEF WritesShow, Executes, CallsStay, Typed, ToolCalls, Contents
<1>5. RowsAreInOrder' /\ RowsAreOffered' /\ CompletionIsVerified'
  BY <1>1 DEF RowsAreInOrder, RowsAreOffered, CompletionIsVerified, AtWork, CallsStay
<1>6. \A f \in unseen' :
          \/ f \in unseen /\ disk'[f] = disk[f]
          \/ /\ guard'.knownFiles[f] # disk'[f]
             /\ \A c \in Calls : calls[c].now[f] # disk'[f] /\ ~Executes(c)
  <2>1. SUFFICES ASSUME NEW f \in unseen', ~(f \in unseen /\ disk'[f] = disk[f])
                 PROVE  /\ guard'.knownFiles[f] # disk'[f]
                        /\ \A c \in Calls : calls[c].now[f] # disk'[f] /\ ~Executes(c)
    OBVIOUS
  <2>2. f \in Files /\ disk'[f] > writes /\ \A c \in Calls : ~Executes(c)
    BY <1>2, <2>1
  <2>3. guard.knownFiles[f] \in Nat /\ guard.knownFiles[f] <= writes /\ disk'[f] \in Nat
        /\ writes \in Nat
    BY <1>1, <1>2, <2>2 DEF Typed, ContentsAreOld, Old, Guards, Contents
  <2>4. ASSUME NEW c \in Calls PROVE calls[c].now[f] # disk'[f]
    <3>1. calls[c].now[f] \in Nat /\ calls[c].now[f] <= writes
      BY <1>1, <2>2 DEF Typed, ContentsAreOld, Old, ToolCalls, Contents
    <3> QED BY <2>2, <2>3, <3>1
  <2> QED BY <2>2, <2>3, <2>4
<1>7. EditsAreKnown'
  <2>1. ASSUME NEW f \in unseen', NEW c \in Calls
        PROVE  /\ Executes(c)' => calls'[c].files[f] = disk'[f]
               /\ calls'[c].at = "scanned" /\ calls'[c].now[f] = disk'[f]
                     => calls'[c].files[f] = disk'[f]
               /\ f \notin guard'.externalChanges =>
                     /\ calls'[c].at \notin {"executing", "attributing"}
                     /\ calls'[c].at = "scanned" => calls'[c].now[f] # disk'[f]
    BY <1>1, <1>6, <2>1 DEF EditsAreKnown, CallsStay, Executes
  <2>2. ASSUME NEW f \in unseen',
               f \notin guard'.externalChanges \/ guard'.at \in {"starting", "reconciling"}
        PROVE  guard'.knownFiles[f] # disk'[f]
    BY <1>1, <1>6, <2>2 DEF EditsAreKnown
  <2> QED BY <2>1, <2>2 DEF EditsAreKnown
<1>8. TurnsAlone'
  <2>1. ASSUME NEW c \in Calls, NEW d \in Calls
        PROVE  /\ calls'[c].at # "none" /\ calls'[d].at # "none"
                     => (calls'[c].kind = "turn" <=> calls'[d].kind = "turn")
               /\ calls'[c].kind = "turn" /\ AtWork(c)' /\ AtWork(d)' => c = d
    BY <1>1 DEF TurnsAlone, CallsStay, AtWork
  <2>2. ASSUME \A c \in Calls : calls'[c].at = "none" \/ calls'[c].kind = "turn",
               NEW f \in unseen'
        PROVE  guard'.knownFiles[f] # disk'[f]
    BY <1>1, <1>6, <2>2 DEF TurnsAlone, CallsStay
  <2>3. ASSUME NEW c \in Calls, calls'[c].kind = "turn"
        PROVE  /\ calls'[c].at \in {"executing", "attributing"} => unseen' = {}
               /\ calls'[c].at = "scanned" => \A f \in unseen' : calls'[c].now[f] # disk'[f]
    BY <1>1, <1>6, <2>3 DEF TurnsAlone, CallsStay, Executes
  <2> QED BY <2>1, <2>2, <2>3 DEF TurnsAlone
<1> QED BY <1>3, <1>4, <1>5, <1>7, <1>8 DEF GuardInvariant

\* What the editor reports adds to the external changes and to nothing else.
LEMMA ReportsAdd ==
    ASSUME Typed, NEW f \in Files, NEW buffer \in Buffers, UpdateEditorState(f, buffer)
    PROVE  /\ editor' \in [Files -> Buffers] /\ guard' \in Guards
           /\ guard'.at = guard.at /\ guard'.held = guard.held
           /\ guard'.knownFiles = guard.knownFiles
           /\ guard.externalChanges \subseteq guard'.externalChanges
<1> DEFINE more == guard.externalChanges \cup EditedByUser(f, buffer.dirty)
<1>1. guard \in Guards /\ editor \in [Files -> Buffers]
  BY DEF Typed
<1>2. more \in SUBSET Files
  BY <1>1 DEF Guards, EditedByUser
<1>3. guard' = [guard EXCEPT !.externalChanges = more] /\ editor' = [editor EXCEPT ![f] = buffer]
  BY DEF UpdateEditorState
<1>4. guard.externalChanges \subseteq more
  OBVIOUS
<1> HIDE DEF more
<1> QED BY <1>1, <1>2, <1>3, <1>4 DEF Guards

\* No step of the user or of the editor breaks the invariant of the guard.
LEMMA UserStepKeeps ==
    ASSUME GuardInvariant, UserStep, UNCHANGED <<rows, offered>>
    PROVE  GuardInvariant'
<1>1. Typed
  BY DEF GuardInvariant
<1>2. PICK f \in Files : \/ \E dirty \in BOOLEAN : Type(f, dirty)
                         \/ Save(f) \/ SaveReported(f) \/ CloseReported(f) \/ EditElsewhere(f)
  BY DEF UserStep
<1>3. CallsStay
  BY <1>2 DEF CallsStay, Type, Save, SaveReported, CloseReported, EditElsewhere
<1>4. editor[f] \in Buffers
  BY <1>1 DEF Typed
<1>5. CASE (\E dirty \in BOOLEAN : Type(f, dirty)) \/ SaveReported(f) \/ CloseReported(f)
  <2>1. \E buffer \in Buffers : UpdateEditorState(f, buffer)
    <3>1. /\ editor[f].version \in Nat /\ editor[f].version + 1 \in Nat
          /\ editor[f].past + editor[f].version \in Nat
      BY <1>4 DEF Buffers
    <3>2. CASE \E dirty \in BOOLEAN : Type(f, dirty)
      <4>1. PICK dirty \in BOOLEAN :
               UpdateEditorState(f, [editor[f] EXCEPT !.version = @ + 1, !.dirty = dirty])
        BY <3>2, Zenon DEF Type
      <4>2. [editor[f] EXCEPT !.version = @ + 1, !.dirty = dirty] \in Buffers
        BY <1>4, <3>1 DEF Buffers
      <4> QED BY <4>1, <4>2, Zenon
    <3>3. CASE SaveReported(f)
      <4>1. PICK v \in {editor[f].version, editor[f].version + 1} :
                UpdateEditorState(f, [editor[f] EXCEPT !.version = v, !.dirty = FALSE,
                                                       !.saved = FALSE])
        BY <3>3, Zenon DEF SaveReported
      <4>2. [editor[f] EXCEPT !.version = v, !.dirty = FALSE, !.saved = FALSE] \in Buffers
        BY <1>4, <3>1 DEF Buffers
      <4> QED BY <4>1, <4>2, Zenon
    <3>4. CASE CloseReported(f)
      <4>1. UpdateEditorState(f, [NotOpen EXCEPT !.past = editor[f].past + editor[f].version])
        BY <3>4, Zenon DEF CloseReported
      <4>2. [NotOpen EXCEPT !.past = editor[f].past + editor[f].version] \in Buffers
        BY <3>1 DEF Buffers, NotOpen
      <4> QED BY <4>1, <4>2, Zenon
    <3> QED BY <1>5, <3>2, <3>3, <3>4
  <2>2. UNCHANGED tree
    BY <1>5 DEF Type, SaveReported, CloseReported
  <2> QED BY <1>1, <1>3, <2>1, <2>2, ReportsAdd, UserKeeps
<1>6. CASE Save(f) \/ EditElsewhere(f)
  <2>1. UserWrites(f) /\ guard' = guard
    BY <1>6 DEF Save, EditElsewhere
  <2>2. editor' \in [Files -> Buffers]
    BY <1>1, <1>6 DEF Save, EditElsewhere, Typed, Buffers
  <2>3. guard' \in Guards
    BY <1>1, <2>1 DEF Typed
  <2> QED BY <1>3, <2>1, <2>2, <2>3, UserKeeps
<1> QED BY <1>2, <1>5, <1>6

\* start and reconcile: the guard learns the tree, or ends what it began.
LEMMA ScanKeeps ==
    ASSUME GuardInvariant, StartScanned \/ ReconcileScanned, UNCHANGED <<rows, offered>>
    PROVE  GuardInvariant'
<1>1. /\ Typed /\ ContentsAreOld /\ WritesShow /\ RowsAreInOrder /\ RowsAreOffered
      /\ EditsAreKnown /\ TurnsAlone /\ CompletionIsVerified
  BY DEF GuardInvariant
<1>2. /\ unseen' = {} /\ disk' = disk /\ writes' = writes /\ editor' = editor /\ calls' = calls
      /\ rows' = rows /\ offered' = offered
      /\ \A c \in Calls : ~AtWork(c)
  BY <1>1 DEF StartScanned, ReconcileScanned, RowsAreOffered
<1>3. /\ guard' \in Guards /\ guard'.knownFiles = disk /\ guard'.held = guard.held
      /\ \/ guard'.at = "starting" /\ run' = run
         \/ guard'.at = "reconciling" /\ guard.held /\ run' = run + 1
  <2>1. CASE StartScanned
    BY <1>1, <2>1 DEF StartScanned, Typed, Guards
  <2>2. CASE ReconcileScanned
    BY <1>1, <2>2 DEF ReconcileScanned, Typed, Guards
  <2> QED BY <2>1, <2>2
<1>4. Typed' /\ ContentsAreOld' /\ WritesShow'
  BY <1>1, <1>2, <1>3 DEF Typed, ContentsAreOld, Old, WritesShow, Executes
<1>5. RowsAreInOrder'
  BY <1>1, <1>2 DEF RowsAreInOrder, AtWork
<1>6. RowsAreOffered'
  <2>1. \A c \in Calls : calls[c].run \in Nat /\ calls[c].run <= run
    BY <1>1 DEF RowsAreOffered, Typed, ToolCalls
  <2> QED BY <1>1, <1>2, <1>3, <2>1 DEF RowsAreOffered, AtWork, Typed
<1>7. EditsAreKnown' /\ TurnsAlone' /\ CompletionIsVerified'
  BY <1>1, <1>2, <1>3 DEF EditsAreKnown, TurnsAlone, CompletionIsVerified, AtWork
<1> QED BY <1>4, <1>5, <1>6, <1>7 DEF GuardInvariant

\* What was found is forgotten, and the tree was read after it.
LEMMA EndOfScanKeeps ==
    ASSUME GuardInvariant, (Started /\ offered' = offered) \/ Resumed, UNCHANGED rows
    PROVE  GuardInvariant'
<1>1. /\ Typed /\ ContentsAreOld /\ WritesShow /\ RowsAreInOrder /\ RowsAreOffered
      /\ EditsAreKnown /\ TurnsAlone /\ CompletionIsVerified
  BY DEF GuardInvariant
<1>2. /\ unseen' = unseen /\ disk' = disk /\ writes' = writes /\ editor' = editor
      /\ calls' = calls /\ rows' = rows /\ run' = run
      /\ \A c \in Calls : ~AtWork(c)
      /\ guard.at \in {"starting", "reconciling"}
  BY <1>1 DEF Started, Resumed, Reconciled, RowsAreOffered, tree
<1>3. /\ guard' \in Guards /\ guard'.knownFiles = guard.knownFiles /\ guard'.at = "ready"
      /\ \/ guard'.held = guard.held /\ offered' = offered
         \/ \A c \in Calls : calls[c].run < run
  <2>1. CASE Started /\ offered' = offered
    <3> DEFINE dirty == ChangedPaths(NoScan, disk)
    <3>1. dirty \in SUBSET Files
      BY DEF ChangedPaths
    <3>2. guard' = [guard EXCEPT !.at = "ready", !.preExistingChanges = dirty,
                                 !.externalChanges = {}, !.pendingAttribution = None]
      BY <2>1 DEF Started
    <3> HIDE DEF dirty
    <3> QED BY <1>1, <2>1, <3>1, <3>2 DEF Typed, Guards
  <2>2. CASE Resumed
    <3>1. \A c \in Calls : calls[c].run < run
      BY <1>1, <2>2 DEF Resumed, Reconciled, RowsAreOffered
    <3> QED BY <1>1, <2>2, <3>1 DEF Resumed, Reconciled, Typed, Guards
  <2> QED BY <2>1, <2>2
<1>4. Typed' /\ ContentsAreOld' /\ WritesShow'
  BY <1>1, <1>2, <1>3 DEF Typed, ContentsAreOld, Old, WritesShow, Executes
<1>5. RowsAreInOrder'
  BY <1>1, <1>2 DEF RowsAreInOrder, AtWork
<1>6. RowsAreOffered'
  <2>1. \A c \in Calls : calls[c].run \in Nat /\ calls[c].run <= run /\ run \in Nat
    BY <1>1 DEF RowsAreOffered, Typed, ToolCalls
  <2> QED BY <1>1, <1>2, <1>3, <2>1 DEF RowsAreOffered, AtWork
<1>7. EditsAreKnown'
  BY <1>1, <1>2, <1>3 DEF EditsAreKnown, Executes, AtWork
<1>8. TurnsAlone' /\ CompletionIsVerified'
  BY <1>1, <1>2, <1>3 DEF TurnsAlone, CompletionIsVerified, AtWork
<1> QED BY <1>4, <1>5, <1>6, <1>7, <1>8 DEF GuardInvariant

\* A row that another row's call went on from has the smaller ordinal.
LEMMA OrdinalsFollow ==
    ASSUME Typed, RowsAreInOrder, NEW c \in Calls, NEW d \in Calls,
           calls[c].at = "done", d \in calls[c].before
    PROVE  ~(Ordinal(d) > Ordinal(c))
<1>1. PICK j \in DOMAIN rows : rows[j] = c
  BY DEF RowsAreInOrder
<1>2. PICK i \in DOMAIN rows : i < j /\ rows[i] = d
  BY <1>1 DEF RowsAreInOrder
<1>3. Ordinal(c) = j /\ Ordinal(d) = i
  BY <1>1, <1>2 DEF Ordinal, RowsAreInOrder
<1>4. i \in Nat /\ j \in Nat
  BY DEF Typed
<1> QED BY <1>2, <1>3, <1>4

\* An accepted completion: every change of the run is offered, and a verification with
\* a larger ordinal was let through after none of them was over.
LEMMA CompleteKeeps ==
    ASSUME GuardInvariant, Complete
    PROVE  GuardInvariant'
<1>1. /\ Typed /\ ContentsAreOld /\ WritesShow /\ RowsAreInOrder /\ RowsAreOffered
      /\ EditsAreKnown /\ TurnsAlone
  BY DEF GuardInvariant
<1>2. /\ unseen' = unseen /\ disk' = disk /\ writes' = writes /\ editor' = editor
      /\ calls' = calls /\ rows' = rows /\ run' = run /\ offered' = offered
      /\ \A c \in Calls : ~AtWork(c)
      /\ guard.at = "ready" /\ ~guard.held /\ ValidateCompletion
      /\ guard' = [guard EXCEPT !.at = "finished"]
  BY DEF Complete, tree
<1>3. /\ guard' \in Guards /\ guard'.knownFiles = guard.knownFiles /\ guard'.at = "finished"
      /\ guard'.externalChanges = guard.externalChanges /\ guard'.held = guard.held
  BY <1>1, <1>2 DEF Typed, Guards
<1>4. Typed' /\ ContentsAreOld' /\ WritesShow'
  BY <1>1, <1>2, <1>3 DEF Typed, ContentsAreOld, Old, WritesShow, Executes
<1>5. RowsAreInOrder' /\ RowsAreOffered'
  BY <1>1, <1>2, <1>3 DEF RowsAreInOrder, RowsAreOffered, AtWork
<1>6. EditsAreKnown' /\ TurnsAlone'
  BY <1>1, <1>2, <1>3 DEF EditsAreKnown, TurnsAlone, AtWork, Executes
<1>7. CompletionIsVerified'
  <2>1. SUFFICES ASSUME NEW c \in Calls, calls[c].run = run, calls[c].at = "done", calls[c].ok,
                        calls[c].wrote # {}
                 PROVE  \E v \in Calls : /\ calls[v].run = run /\ calls[v].kind = "test"
                                         /\ calls[v].ok /\ v \notin calls[c].before
    BY <1>2 DEF CompletionIsVerified
  <2>2. c \in Successful("file_change")
    BY <1>1, <1>2, <2>1 DEF RowsAreOffered, Successful, EvidenceKind
  <2>3. PICK v \in Successful("verification") : Ordinal(v) > Ordinal(c)
    BY <1>2, <2>2 DEF ValidateCompletion, VerificationComplete
  <2>4. v \in offered /\ calls[v].ok /\ calls[v].kind = "test"
    BY <2>3 DEF Successful, EvidenceKind
  <2>5. v \in Calls /\ calls[v].run = run
    <3>1. v \in ToSet(rows) /\ calls[v].run = run
      BY <1>2, <2>4 DEF ValidateCompletion
    <3>2. ToSet(rows) \subseteq Calls
      BY <1>1 DEF Typed, ToSet
    <3> QED BY <3>1, <3>2
  <2>6. v \notin calls[c].before
    BY <1>1, <2>1, <2>3, <2>5, OrdinalsFollow
  <2> QED BY <2>4, <2>5, <2>6
<1> QED BY <1>4, <1>5, <1>6, <1>7 DEF GuardInvariant

-----------------------------------------------------------------------------
(* The tool calls.                                                         *)

\* What the invariant asks of one call that is not over: of its scans, of what was
\* written in its time, of the calls before it, and of the edits nobody was told of.
Fits(call) ==
    /\ call \in ToolCalls /\ call.at # "done" /\ call.run <= run
    /\ Old(call.files) /\ Old(call.now)
    /\ call.at = "waiting" => call.wrote = {}
    /\ call.at \in {"checking", "executing", "attributing"} =>
          /\ \A f \in call.wrote : call.files[f] < disk[f]
          /\ \A f \in unseen : call.files[f] = disk[f]
    /\ call.at = "scanned" =>
          /\ \A f \in call.wrote : call.files[f] # call.now[f]
          /\ \A f \in unseen : call.now[f] = disk[f] => call.files[f] = disk[f]
    /\ \A d \in call.before : calls[d].at = "done"

\* An edit that is not among the external changes is under no call that was let through.
Unscanned(call, external) ==
    \A f \in unseen \ external :
        /\ call.at \notin {"executing", "attributing"}
        /\ call.at = "scanned" => call.now[f] # disk[f]

\* A call at work fits as it is.
LEMMA CallFits ==
    ASSUME GuardInvariant, NEW c \in Calls, calls[c].at # "done", AtWork(c)
    PROVE  Fits(calls[c]) /\ Unscanned(calls[c], guard.externalChanges)
<1>1. /\ Typed /\ ContentsAreOld /\ WritesShow /\ RowsAreInOrder /\ RowsAreOffered /\ EditsAreKnown
  BY DEF GuardInvariant
<1>2. calls[c] \in ToolCalls
  BY <1>1 DEF Typed
<1>3. Unscanned(calls[c], guard.externalChanges)
  BY <1>1 DEF EditsAreKnown, Unscanned
<1> QED BY <1>1, <1>2, <1>3
        DEF Fits, ContentsAreOld, WritesShow, RowsAreInOrder, RowsAreOffered, EditsAreKnown, Executes

\* A step of one call that ends no call, on the same tree.
OneCallMoves(c, call) ==
    /\ calls' = [calls EXCEPT ![c] = call]
    /\ UNCHANGED <<tree, editor, run, rows, offered>>
    /\ guard.at = "ready" /\ calls[c].at # "done"
    /\ guard' \in Guards /\ guard'.at = "ready" /\ guard'.knownFiles = guard.knownFiles
    /\ guard.externalChanges \subseteq guard'.externalChanges
    /\ guard.held => guard'.held

\* A step that moves one call to a record that fits keeps the invariant of the guard.
LEMMA OneCallKeeps ==
    ASSUME GuardInvariant, NEW c \in Calls, NEW call, OneCallMoves(c, call), Fits(call),
           Unscanned(call, guard'.externalChanges), TurnsAlone'
    PROVE  GuardInvariant'
<1>1. /\ Typed /\ ContentsAreOld /\ WritesShow /\ RowsAreInOrder /\ RowsAreOffered
      /\ EditsAreKnown /\ CompletionIsVerified
  BY DEF GuardInvariant
<1>2. /\ unseen' = unseen /\ disk' = disk /\ writes' = writes /\ editor' = editor
      /\ rows' = rows /\ run' = run /\ offered' = offered /\ guard' \in Guards
      /\ guard.at = "ready" /\ guard'.at = "ready" /\ guard'.knownFiles = guard.knownFiles
      /\ guard.externalChanges \subseteq guard'.externalChanges /\ (guard.held => guard'.held)
      /\ calls[c].at # "done"
  BY DEF OneCallMoves, tree
<1>3. /\ calls' \in [Calls -> ToolCalls] /\ calls'[c] = call
      /\ \A d \in Calls : d # c => calls'[d] = calls[d]
  BY <1>1 DEF OneCallMoves, Fits, Typed
<1>4. Typed'
  BY <1>1, <1>2, <1>3 DEF Typed
<1>5. ContentsAreOld' /\ WritesShow'
  <2>1. ASSUME NEW d \in Calls
        PROVE  /\ \A f \in Files : calls'[d].files[f] <= writes /\ calls'[d].now[f] <= writes
               /\ calls'[d].at = "waiting" => calls'[d].wrote = {}
               /\ Executes(d)' => \A f \in calls'[d].wrote : calls'[d].files[f] < disk'[f]
               /\ calls'[d].at = "scanned"
                     => \A f \in calls'[d].wrote : calls'[d].files[f] # calls'[d].now[f]
    BY <1>1, <1>2, <1>3 DEF Fits, ContentsAreOld, WritesShow, Old, Executes
  <2>2. ContentsAreOld'
    BY <1>1, <1>2, <2>1 DEF ContentsAreOld, Old
  <2>3. WritesShow'
    BY <2>1 DEF WritesShow
  <2> QED BY <2>2, <2>3
<1>6. RowsAreInOrder'
  <2>1. \A d \in Calls : calls'[d].at = "done" <=> calls[d].at = "done"
    BY <1>2, <1>3 DEF Fits
  <2>2. \A d \in Calls : calls[d].at = "done" => calls'[d].before = calls[d].before
    BY <1>2, <1>3
  <2>3. \A d \in Calls : AtWork(d)' => \A e \in calls'[d].before : calls'[e].at = "done"
    <3>1. \A d \in Calls : calls'[d].before \subseteq Calls
      BY <1>3 DEF ToolCalls
    <3> QED BY <1>1, <1>3, <2>1, <3>1 DEF Fits, RowsAreInOrder, AtWork
  <2>4. \A j \in DOMAIN rows : calls[rows[j]].at = "done" /\ rows[j] \in Calls
    BY <1>1 DEF Typed, RowsAreInOrder
  <2> QED BY <1>1, <1>2, <2>1, <2>2, <2>3, <2>4 DEF RowsAreInOrder
<1>7. RowsAreOffered' /\ CompletionIsVerified'
  BY <1>1, <1>2, <1>3 DEF RowsAreOffered, CompletionIsVerified, Fits
<1>8. EditsAreKnown'
  <2>1. ASSUME NEW d \in Calls, NEW f \in unseen
        PROVE  /\ Executes(d)' => calls'[d].files[f] = disk[f]
               /\ calls'[d].at = "scanned" /\ calls'[d].now[f] = disk[f]
                     => calls'[d].files[f] = disk[f]
               /\ f \notin guard'.externalChanges =>
                     /\ calls'[d].at \notin {"executing", "attributing"}
                     /\ calls'[d].at = "scanned" => calls'[d].now[f] # disk[f]
    BY <1>1, <1>2, <1>3 DEF EditsAreKnown, Fits, Unscanned, Executes
  <2>2. \A f \in unseen : f \notin guard'.externalChanges => guard'.knownFiles[f] # disk[f]
    BY <1>1, <1>2 DEF EditsAreKnown
  <2> QED BY <1>2, <2>1, <2>2 DEF EditsAreKnown
<1> QED BY <1>4, <1>5, <1>6, <1>7, <1>8 DEF GuardInvariant

\* What such a step keeps of the rule about turns, when the call is of the kind it was
\* and no further than its rule allows.
LEMMA TurnsStayAlone ==
    ASSUME GuardInvariant, NEW c \in Calls, NEW call, OneCallMoves(c, call), call \in ToolCalls,
           call.kind = calls[c].kind, AtWork(c), call.at # "none",
           call.kind = "turn" =>
              /\ call.at \in {"executing", "attributing"} => unseen = {}
              /\ call.at = "scanned" => \A f \in unseen : call.now[f] # disk[f]
    PROVE  TurnsAlone'
<1>1. Typed /\ TurnsAlone
  BY DEF GuardInvariant
<1>2. /\ unseen' = unseen /\ disk' = disk /\ guard'.knownFiles = guard.knownFiles
      /\ calls'[c] = call /\ \A d \in Calls : d # c => calls'[d] = calls[d]
  BY <1>1 DEF OneCallMoves, Typed, tree
<1>3. \A d \in Calls : /\ calls'[d].kind = calls[d].kind /\ (AtWork(d)' => AtWork(d))
                       /\ calls'[d].at # "none" <=> calls[d].at # "none"
  BY <1>2 DEF AtWork
<1>4. ASSUME NEW d \in Calls, NEW e \in Calls
      PROVE  /\ calls'[d].at # "none" /\ calls'[e].at # "none"
                   => (calls'[d].kind = "turn" <=> calls'[e].kind = "turn")
             /\ calls'[d].kind = "turn" /\ AtWork(d)' /\ AtWork(e)' => d = e
  BY <1>1, <1>3 DEF TurnsAlone
<1>5. (\A d \in Calls : calls'[d].at = "none" \/ calls'[d].kind = "turn")
          => \A f \in unseen' : guard'.knownFiles[f] # disk'[f]
  BY <1>1, <1>2, <1>3 DEF TurnsAlone
<1>6. ASSUME NEW d \in Calls, calls'[d].kind = "turn"
      PROVE  /\ calls'[d].at \in {"executing", "attributing"} => unseen' = {}
             /\ calls'[d].at = "scanned" => \A f \in unseen' : calls'[d].now[f] # disk'[f]
  BY <1>1, <1>2, <1>6 DEF TurnsAlone
<1> QED BY <1>4, <1>5, <1>6 DEF TurnsAlone

\* A call that was not made has read and written nothing.
LEMMA NoCallTyped ==
    /\ NoCall \in ToolCalls /\ NoScan \in Contents
    /\ NoCall.wrote = {} /\ NoCall.before = {} /\ NoCall.files = NoScan /\ NoCall.now = NoScan
    /\ \A f \in Files : NoScan[f] = 0
<1>1. NoScan \in Contents /\ \A f \in Files : NoScan[f] = 0
  BY DEF NoScan, Contents
<1> HIDE DEF NoScan
<1> QED BY <1>1 DEF NoCall, ToolCalls

\* A call without its baseline keeps what it was and what it did.
LEMMA WithoutBaselineTyped ==
    ASSUME NEW call \in ToolCalls
    PROVE  LET n == WithoutBaseline(call)
           IN  /\ n \in ToolCalls /\ n.files = NoScan /\ n.now = NoScan
               /\ n.at = call.at /\ n.kind = call.kind /\ n.run = call.run
               /\ n.ok = call.ok /\ n.wrote = call.wrote /\ n.before = call.before
<1> DEFINE m == [call EXCEPT !.files = NoScan, !.versions = NoScan, !.now = NoScan]
           n == [m EXCEPT !.awaits = None, !.target = None]
<1>1. NoScan \in Contents
  BY NoCallTyped
<1>2. WithoutBaseline(call) = n
  BY DEF WithoutBaseline
<1>3. m \in ToolCalls
  BY <1>1 DEF ToolCalls
<1>4. m.files = NoScan /\ m.now = NoScan /\ m.at = call.at /\ m.kind = call.kind
      /\ m.run = call.run /\ m.ok = call.ok /\ m.wrote = call.wrote /\ m.before = call.before
  BY DEF ToolCalls
<1> HIDE DEF m
<1>5. n \in ToolCalls
  BY <1>3 DEF ToolCalls
<1>6. n.files = m.files /\ n.now = m.now /\ n.at = m.at /\ n.kind = m.kind
      /\ n.run = m.run /\ n.ok = m.ok /\ n.wrote = m.wrote /\ n.before = m.before
  BY <1>3 DEF ToolCalls
<1> HIDE DEF n
<1> QED BY <1>2, <1>4, <1>5, <1>6

\* A call that the guard blocks.
Blocked(call) == [WithoutBaseline(call) EXCEPT !.at = "blocked"]

\* A call that is blocked fits: it has no baseline that could be stale.
LEMMA BlockedFits ==
    ASSUME GuardInvariant, NEW c \in Calls, AtWork(c), NEW external
    PROVE  /\ Fits(Blocked(calls[c])) /\ Unscanned(Blocked(calls[c]), external)
           /\ Blocked(calls[c]).kind = calls[c].kind /\ Blocked(calls[c]).at = "blocked"
<1> DEFINE m == WithoutBaseline(calls[c])
           n == [m EXCEPT !.at = "blocked"]
<1>1. Typed /\ ContentsAreOld /\ RowsAreInOrder /\ RowsAreOffered
  BY DEF GuardInvariant
<1>2. /\ m \in ToolCalls /\ m.files = NoScan /\ m.now = NoScan /\ m.kind = calls[c].kind
      /\ m.run = calls[c].run /\ m.before = calls[c].before
  BY <1>1, WithoutBaselineTyped DEF Typed
<1> HIDE DEF m
<1>3. /\ n \in ToolCalls /\ n.files = NoScan /\ n.now = NoScan /\ n.kind = calls[c].kind
      /\ n.run = calls[c].run /\ n.before = calls[c].before /\ n.at = "blocked"
  BY <1>2 DEF ToolCalls
<1>4. Blocked(calls[c]) = n
  BY DEF Blocked, m
<1> HIDE DEF n
<1>5. Old(NoScan)
  BY <1>1, NoCallTyped DEF Old, Typed
<1> QED BY <1>1, <1>3, <1>4, <1>5 DEF Fits, Unscanned, RowsAreInOrder, RowsAreOffered

\* A tool is called.
LEMMA CallKeeps ==
    ASSUME GuardInvariant, NEW c \in Calls, NEW kind \in Kinds, NEW target \in Files \cup {None},
           Call(c, kind, target), UNCHANGED <<rows, offered>>
    PROVE  GuardInvariant'
<1> DEFINE call == [NoCall EXCEPT !.at = "waiting", !.kind = kind, !.target = target,
                                  !.run = run, !.awaits = guard.pendingAttribution]
<1>1. Typed /\ TurnsAlone
  BY DEF GuardInvariant
<1>2. /\ call \in ToolCalls /\ call.at = "waiting" /\ call.kind = kind /\ call.run = run
      /\ call.files = NoScan /\ call.now = NoScan /\ call.wrote = {} /\ call.before = {}
  <2>1. guard.pendingAttribution \in Calls \cup {None} /\ run \in Nat
    BY <1>1 DEF Typed, Guards
  <2>2. NoCall \in ToolCalls /\ NoCall.files = NoScan /\ NoCall.now = NoScan
        /\ NoCall.wrote = {} /\ NoCall.before = {}
    BY NoCallTyped
  <2> QED BY <2>1, <2>2 DEF ToolCalls
<1>3. OneCallMoves(c, call)
  BY <1>1 DEF Call, OneCallMoves, Typed
<1>4. /\ calls[c].at = "none" /\ calls' = [calls EXCEPT ![c] = call]
      /\ \A d \in Calls : /\ kind = "turn" => ~AtWork(d)
                          /\ calls[d].at # "none" => (calls[d].kind = "turn") = (kind = "turn")
      /\ unseen' = unseen /\ disk' = disk /\ guard' = guard
  BY DEF Call, tree
<1> HIDE DEF call
<1>5. Fits(call) /\ Unscanned(call, guard'.externalChanges)
  BY <1>1, <1>2, NoCallTyped DEF Fits, Unscanned, Old, Typed
<1>6. TurnsAlone'
  <2>1. calls'[c] = call /\ \A d \in Calls : d # c => calls'[d] = calls[d]
    BY <1>1, <1>4 DEF Typed
  <2>2. ASSUME NEW d \in Calls, NEW e \in Calls
        PROVE  /\ calls'[d].at # "none" /\ calls'[e].at # "none"
                     => (calls'[d].kind = "turn" <=> calls'[e].kind = "turn")
               /\ calls'[d].kind = "turn" /\ AtWork(d)' /\ AtWork(e)' => d = e
    BY <1>1, <1>2, <1>4, <2>1 DEF TurnsAlone, AtWork
  <2>3. (\A d \in Calls : calls'[d].at = "none" \/ calls'[d].kind = "turn")
            => \A f \in unseen' : guard'.knownFiles[f] # disk'[f]
    BY <1>1, <1>2, <1>4, <2>1 DEF TurnsAlone
  <2>4. ASSUME NEW d \in Calls, calls'[d].kind = "turn"
        PROVE  /\ calls'[d].at \in {"executing", "attributing"} => unseen' = {}
               /\ calls'[d].at = "scanned" => \A f \in unseen' : calls'[d].now[f] # disk'[f]
    BY <1>1, <1>2, <1>4, <2>1, <2>4 DEF TurnsAlone
  <2> QED BY <2>2, <2>3, <2>4 DEF TurnsAlone
<1> QED BY <1>3, <1>5, <1>6, OneCallKeeps

\* beforeTool, up to its scan.
LEMMA AwaitedKeeps ==
    ASSUME GuardInvariant, NEW c \in Calls, Awaited(c), UNCHANGED <<rows, offered>>
    PROVE  GuardInvariant'
<1>1. Typed /\ ContentsAreOld /\ RowsAreOffered
  BY DEF GuardInvariant
<1>2. calls[c].at = "waiting" /\ AtWork(c) /\ UNCHANGED <<tree, editor, run>>
  BY DEF Awaited, AtWork
<1>3. guard.at = "ready" /\ guard \in Guards
  BY <1>1, <1>2 DEF RowsAreOffered, Typed
<1>4. CASE calls' = [calls EXCEPT ![c] = Blocked(@)] /\ guard' = [guard EXCEPT !.held = TRUE]
  <2> DEFINE call == Blocked(calls[c])
  <2>1. OneCallMoves(c, call)
    BY <1>2, <1>3, <1>4 DEF OneCallMoves, Guards
  <2>2. /\ Fits(call) /\ Unscanned(call, guard'.externalChanges)
        /\ call.kind = calls[c].kind /\ call.at = "blocked"
    BY <1>2, BlockedFits
  <2> HIDE DEF call
  <2>3. TurnsAlone'
    BY <1>2, <2>1, <2>2, TurnsStayAlone DEF Fits
  <2> QED BY <2>1, <2>2, <2>3, OneCallKeeps
<1>5. CASE calls' = [calls EXCEPT ![c].at = "checking", ![c].files = disk] /\ guard' = guard
  <2> DEFINE call == [calls[c] EXCEPT !.at = "checking", !.files = disk]
  <2>1. /\ call \in ToolCalls /\ call.at = "checking" /\ call.files = disk
        /\ call.now = calls[c].now /\ call.kind = calls[c].kind /\ call.run = calls[c].run
        /\ call.wrote = calls[c].wrote /\ call.before = calls[c].before
        /\ calls' = [calls EXCEPT ![c] = call]
    <3>1. calls[c] \in ToolCalls /\ calls \in [Calls -> ToolCalls] /\ disk \in Contents
      BY <1>1 DEF Typed
    <3>2. /\ call \in ToolCalls /\ call.at = "checking" /\ call.files = disk
          /\ call.now = calls[c].now /\ call.kind = calls[c].kind /\ call.run = calls[c].run
          /\ call.wrote = calls[c].wrote /\ call.before = calls[c].before
      BY <3>1 DEF ToolCalls
    <3>3. calls' = [calls EXCEPT ![c] = call]
      BY <1>5, <3>1
    <3> QED BY <3>2, <3>3
  <2> HIDE DEF call
  <2>2. OneCallMoves(c, call)
    BY <1>2, <1>3, <1>5, <2>1 DEF OneCallMoves
  <2>3. Fits(calls[c])
    BY <1>2, CallFits
  <2>4. Fits(call) /\ Unscanned(call, guard'.externalChanges)
    BY <1>1, <1>2, <2>1, <2>3 DEF Fits, Unscanned, ContentsAreOld
  <2>5. TurnsAlone'
    BY <1>2, <2>1, <2>2, TurnsStayAlone
  <2> QED BY <2>2, <2>4, <2>5, OneCallKeeps
<1>6. \/ calls' = [calls EXCEPT ![c] = Blocked(@)] /\ guard' = [guard EXCEPT !.held = TRUE]
      \/ calls' = [calls EXCEPT ![c].at = "checking", ![c].files = disk] /\ guard' = guard
  BY DEF Awaited, Block, Blocked
<1> QED BY <1>4, <1>5, <1>6

\* A call that is let through.
LetThrough(call) ==
    [call EXCEPT !.at = "executing", !.versions = Versions, !.awaits = None,
                 !.before = {d \in Calls : calls[d].at = "done"}]

\* The record of a call that is let through, field by field.
LEMMA LetThroughTyped ==
    ASSUME Typed, NEW call \in ToolCalls
    PROVE  LET n == LetThrough(call)
           IN  /\ n \in ToolCalls /\ n.at = "executing" /\ n.files = call.files
               /\ n.now = call.now /\ n.kind = call.kind /\ n.run = call.run /\ n.ok = call.ok
               /\ n.wrote = call.wrote /\ n.before = {d \in Calls : calls[d].at = "done"}
<1> DEFINE over == {d \in Calls : calls[d].at = "done"}
           scan == Versions
<1>1. over \in SUBSET Calls /\ scan \in Contents
  BY DEF Versions, Typed, Contents, Buffers
<1>2. LetThrough(call) = [call EXCEPT !.at = "executing", !.versions = scan, !.awaits = None,
                                      !.before = over]
  BY DEF LetThrough
<1> HIDE DEF over, scan
<1>3. LET n == [call EXCEPT !.at = "executing", !.versions = scan, !.awaits = None, !.before = over]
      IN  /\ n \in ToolCalls /\ n.at = "executing" /\ n.files = call.files
          /\ n.now = call.now /\ n.kind = call.kind /\ n.run = call.run /\ n.ok = call.ok
          /\ n.wrote = call.wrote /\ n.before = over
  BY <1>1 DEF ToolCalls
<1> QED BY <1>2, <1>3 DEF over

\* When a call is decided, every edit nobody was told of is among the external changes.
LEMMA EditsAreFound ==
    ASSUME GuardInvariant, NEW c \in Calls, calls[c].at = "checking"
    PROVE  /\ unseen \subseteq ExternalChanges(c)
           /\ \A f \in unseen : calls[c].kind = "turn" => f \in ChangedPaths(guard.knownFiles, calls[c].files)
<1>1. Typed /\ EditsAreKnown /\ TurnsAlone
  BY DEF GuardInvariant
<1>2. ASSUME NEW f \in unseen
      PROVE  f \in Files /\ calls[c].files[f] = disk[f]
             /\ (f \notin guard.externalChanges => guard.knownFiles[f] # disk[f])
  BY <1>1 DEF Typed, EditsAreKnown, Executes
<1>3. ASSUME NEW f \in unseen, calls[c].kind = "turn"
      PROVE  guard.knownFiles[f] # disk[f]
  BY <1>1, <1>3 DEF TurnsAlone
<1> QED BY <1>2, <1>3 DEF ExternalChanges, ChangedPaths

\* What the guard lets through overwrites no such edit.
LEMMA LetThroughIsSeen ==
    ASSUME GuardInvariant, NEW c \in Calls, calls[c].at = "checking",
           CanMutate(calls[c].kind), Overlaps(c, ExternalChanges(c)) = {}
    PROVE  IF calls[c].kind \in Targeted THEN calls[c].target \notin unseen ELSE unseen = {}
<1>1. /\ unseen \subseteq ExternalChanges(c) /\ unseen \subseteq Files
      /\ \A f \in unseen : calls[c].kind = "turn" => f \in ChangedPaths(guard.knownFiles, calls[c].files)
  BY EditsAreFound DEF GuardInvariant, Typed
<1>2. CASE calls[c].kind = "turn"
  BY <1>1, <1>2 DEF Overlaps, Targeted
<1>3. CASE calls[c].kind # "turn"
  <2> DEFINE targets == IF calls[c].kind \in Targeted THEN {calls[c].target} ELSE Files
  <2>1. ExternalChanges(c) \cap targets = {}
    BY <1>3 DEF Overlaps
  <2> QED BY <1>1, <2>1
<1> QED BY <1>2, <1>3

\* The end of beforeTool.
LEMMA DecidedKeeps ==
    ASSUME GuardInvariant, NEW c \in Calls, Decided(c), UNCHANGED <<rows, offered>>
    PROVE  GuardInvariant'
<1> DEFINE external == ExternalChanges(c)
           overlap == Overlaps(c, external) # {}
<1>1. Typed /\ RowsAreInOrder /\ RowsAreOffered
  BY DEF GuardInvariant
<1>2. calls[c].at = "checking" /\ AtWork(c) /\ UNCHANGED <<tree, editor, run>>
  BY DEF Decided, AtWork
<1>3. guard.at = "ready" /\ guard \in Guards /\ calls[c] \in ToolCalls
  BY <1>1, <1>2 DEF RowsAreOffered, Typed
<1>4. unseen \subseteq external /\ external \in SUBSET Files /\ guard.externalChanges \subseteq external
  BY <1>2, <1>3, EditsAreFound DEF ExternalChanges, ChangedPaths, Guards
<1>5. /\ guard' = [guard EXCEPT !.externalChanges = external, !.held = @ \/ overlap]
      /\ calls' = [calls EXCEPT ![c] = IF overlap THEN Blocked(@) ELSE LetThrough(@)]
  BY DEF Decided, Blocked, LetThrough
<1>6. CanMutate(calls[c].kind) /\ ~overlap /\ calls[c].kind = "turn" => unseen = {}
  BY <1>2, LetThroughIsSeen DEF Targeted
<1> HIDE DEF external, overlap
<1>7. /\ guard' \in Guards /\ guard'.at = "ready" /\ guard'.knownFiles = guard.knownFiles
      /\ guard'.externalChanges = external /\ (guard.held => guard'.held)
  <2>1. overlap \in BOOLEAN
    BY DEF overlap
  <2> QED BY <1>3, <1>4, <1>5, <2>1 DEF Guards
<1>8. CASE overlap
  <2> DEFINE call == Blocked(calls[c])
  <2>1. OneCallMoves(c, call)
    BY <1>2, <1>3, <1>4, <1>5, <1>7, <1>8 DEF OneCallMoves
  <2>2. /\ Fits(call) /\ Unscanned(call, guard'.externalChanges)
        /\ call.kind = calls[c].kind /\ call.at = "blocked"
    BY <1>2, BlockedFits
  <2> HIDE DEF call
  <2>3. TurnsAlone'
    BY <1>2, <2>1, <2>2, TurnsStayAlone DEF Fits
  <2> QED BY <2>1, <2>2, <2>3, OneCallKeeps
<1>9. CASE ~overlap
  <2> DEFINE call == LetThrough(calls[c])
  <2>1. OneCallMoves(c, call)
    BY <1>2, <1>3, <1>4, <1>5, <1>7, <1>9 DEF OneCallMoves
  <2>2. /\ call \in ToolCalls /\ call.at = "executing" /\ call.files = calls[c].files
        /\ call.now = calls[c].now /\ call.kind = calls[c].kind /\ call.run = calls[c].run
        /\ call.wrote = calls[c].wrote /\ call.before = {d \in Calls : calls[d].at = "done"}
    BY <1>1, <1>3, LetThroughTyped
  <2> HIDE DEF call
  <2>3. Fits(calls[c])
    BY <1>2, CallFits
  <2>4. Fits(call) /\ Unscanned(call, guard'.externalChanges)
    BY <1>2, <1>4, <1>7, <2>2, <2>3 DEF Fits, Unscanned
  <2>5. calls[c].kind = "turn" => unseen = {}
    BY <1>6, <1>9 DEF CanMutate
  <2>6. TurnsAlone'
    BY <1>2, <2>1, <2>2, <2>5, TurnsStayAlone
  <2> QED BY <2>1, <2>4, <2>6, OneCallKeeps
<1> QED BY <1>8, <1>9

\* The tool is over.
LEMMA ToolEndsKeeps ==
    ASSUME GuardInvariant, NEW c \in Calls, NEW ok \in BOOLEAN, ToolEnds(c, ok),
           UNCHANGED <<rows, offered>>
    PROVE  GuardInvariant'
<1> DEFINE call == [calls[c] EXCEPT !.at = "attributing", !.ok = ok]
<1>1. Typed /\ RowsAreOffered /\ TurnsAlone
  BY DEF GuardInvariant
<1>2. /\ calls[c].at = "executing" /\ AtWork(c) /\ UNCHANGED <<tree, editor, run>>
      /\ guard' = [guard EXCEPT !.pendingAttribution = c]
  BY DEF ToolEnds, AtWork
<1>3. guard.at = "ready" /\ guard \in Guards
  BY <1>1, <1>2 DEF RowsAreOffered, Typed
<1>4. /\ call \in ToolCalls /\ call.at = "attributing" /\ call.files = calls[c].files
      /\ call.now = calls[c].now /\ call.kind = calls[c].kind /\ call.run = calls[c].run
      /\ call.wrote = calls[c].wrote /\ call.before = calls[c].before
      /\ calls' = [calls EXCEPT ![c] = call]
  BY <1>1 DEF ToolEnds, Typed, ToolCalls
<1> HIDE DEF call
<1>5. OneCallMoves(c, call)
  BY <1>2, <1>3, <1>4 DEF OneCallMoves, Guards
<1>6. Fits(calls[c]) /\ Unscanned(calls[c], guard.externalChanges)
  BY <1>2, CallFits
<1>7. guard'.externalChanges = guard.externalChanges
  BY <1>2, <1>3 DEF Guards
<1>8. Fits(call) /\ Unscanned(call, guard'.externalChanges)
  BY <1>2, <1>4, <1>6, <1>7 DEF Fits, Unscanned
<1>9. calls[c].kind = "turn" => unseen = {}
  BY <1>1, <1>2 DEF TurnsAlone
<1>10. TurnsAlone'
  BY <1>2, <1>4, <1>5, <1>9, TurnsStayAlone
<1> QED BY <1>5, <1>8, <1>10, OneCallKeeps

\* The scan of afterTool.
LEMMA AfterToolScannedKeeps ==
    ASSUME GuardInvariant, NEW c \in Calls, AfterToolScanned(c), UNCHANGED <<rows, offered>>
    PROVE  GuardInvariant'
<1> DEFINE call == [calls[c] EXCEPT !.at = "scanned", !.now = disk]
<1>1. Typed /\ ContentsAreOld /\ RowsAreOffered /\ TurnsAlone
  BY DEF GuardInvariant
<1>2. calls[c].at = "attributing" /\ AtWork(c) /\ UNCHANGED <<tree, editor, guard, run>>
  BY DEF AfterToolScanned, AtWork
<1>3. guard.at = "ready" /\ guard \in Guards
  BY <1>1, <1>2 DEF RowsAreOffered, Typed
<1>4. /\ call \in ToolCalls /\ call.at = "scanned" /\ call.files = calls[c].files
      /\ call.now = disk /\ call.kind = calls[c].kind /\ call.run = calls[c].run
      /\ call.wrote = calls[c].wrote /\ call.before = calls[c].before
      /\ calls' = [calls EXCEPT ![c] = call]
  BY <1>1 DEF AfterToolScanned, Typed, ToolCalls
<1> HIDE DEF call
<1>5. OneCallMoves(c, call)
  BY <1>2, <1>3, <1>4 DEF OneCallMoves
<1>6. Fits(calls[c]) /\ Unscanned(calls[c], guard.externalChanges)
  BY <1>2, CallFits
<1>7. Fits(call)
  <2>1. \A f \in call.wrote : call.files[f] \in Nat /\ disk[f] \in Nat /\ call.files[f] < disk[f]
    BY <1>1, <1>2, <1>4, <1>6 DEF Fits, Typed, ToolCalls, Contents
  <2> QED BY <1>1, <1>2, <1>4, <1>6, <2>1 DEF Fits, ContentsAreOld
<1>8. Unscanned(call, guard'.externalChanges)
  BY <1>2, <1>4, <1>6 DEF Unscanned
<1>9. calls[c].kind = "turn" => unseen = {}
  BY <1>1, <1>2 DEF TurnsAlone
<1>10. TurnsAlone'
  BY <1>2, <1>4, <1>5, <1>9, TurnsStayAlone
<1> QED BY <1>5, <1>7, <1>8, <1>10, OneCallKeeps

\* What a write of the coder adds to a call.
LEMMA WroteTyped ==
    ASSUME NEW call \in ToolCalls, NEW f \in Files
    PROVE  LET n == [call EXCEPT !.wrote = @ \cup {f}]
           IN  /\ n \in ToolCalls /\ n.at = call.at /\ n.kind = call.kind /\ n.run = call.run
               /\ n.files = call.files /\ n.now = call.now /\ n.ok = call.ok
               /\ n.changed = call.changed /\ n.before = call.before
               /\ n.wrote = call.wrote \cup {f}
BY DEF ToolCalls

\* The tool writes a file: every call that is let through counts it as its own.
LEMMA CoderWritesKeeps ==
    ASSUME GuardInvariant, NEW c \in Calls, NEW f \in Files, CoderWrites(c, f),
           UNCHANGED <<rows, offered>>
    PROVE  GuardInvariant'
<1>1. /\ Typed /\ ContentsAreOld /\ WritesShow /\ RowsAreInOrder /\ RowsAreOffered
      /\ EditsAreKnown /\ TurnsAlone /\ CompletionIsVerified
  BY DEF GuardInvariant
<1>2. /\ calls[c].at = "executing" /\ guard' = guard /\ editor' = editor /\ run' = run
      /\ unseen' = unseen \ {f} /\ rows' = rows /\ offered' = offered
      /\ writes' = writes + 1 /\ disk' = [disk EXCEPT ![f] = writes + 1]
      /\ calls' = [d \in Calls |-> IF Executes(d) THEN [calls[d] EXCEPT !.wrote = @ \cup {f}]
                                   ELSE calls[d]]
  BY DEF CoderWrites, Write
<1>3. guard.at = "ready"
  BY <1>1, <1>2 DEF RowsAreOffered, AtWork
<1>4. \A d \in Calls :
          /\ calls'[d] \in ToolCalls /\ calls'[d].at = calls[d].at /\ calls'[d].kind = calls[d].kind
          /\ calls'[d].run = calls[d].run /\ calls'[d].files = calls[d].files
          /\ calls'[d].now = calls[d].now /\ calls'[d].ok = calls[d].ok
          /\ calls'[d].changed = calls[d].changed /\ calls'[d].before = calls[d].before
          /\ calls'[d].wrote = IF Executes(d) THEN calls[d].wrote \cup {f} ELSE calls[d].wrote
  BY <1>1, <1>2, WroteTyped DEF Typed
<1>5. /\ disk' \in Contents /\ writes' \in Nat /\ disk'[f] = writes + 1
      /\ \A g \in Files : (g # f => disk'[g] = disk[g])
  BY <1>1, <1>2 DEF Typed, Contents
<1>6. calls' \in [Calls -> ToolCalls]
  BY <1>2, <1>4
<1>7. Typed'
  BY <1>1, <1>2, <1>5, <1>6 DEF Typed
<1>8. ContentsAreOld'
  <2>1. \A g \in Files : disk[g] \in Nat /\ guard.knownFiles[g] \in Nat /\ disk[g] <= writes
                         /\ guard.knownFiles[g] <= writes /\ writes \in Nat
    BY <1>1 DEF Typed, ContentsAreOld, Old, Guards, Contents
  <2>2. \A d \in Calls, g \in Files :
            /\ calls[d].files[g] \in Nat /\ calls[d].files[g] <= writes
            /\ calls[d].now[g] \in Nat /\ calls[d].now[g] <= writes
    BY <1>1 DEF Typed, ContentsAreOld, Old, ToolCalls, Contents
  <2> QED BY <1>2, <1>4, <1>5, <2>1, <2>2 DEF ContentsAreOld, Old
<1>9. WritesShow'
  <2>1. ASSUME NEW d \in Calls
        PROVE  /\ calls'[d].at = "waiting" => calls'[d].wrote = {}
               /\ Executes(d)' => \A g \in calls'[d].wrote : calls'[d].files[g] < disk'[g]
               /\ calls'[d].at = "scanned"
                     => \A g \in calls'[d].wrote : calls'[d].files[g] # calls'[d].now[g]
    <3>1. calls[d].files[f] \in Nat /\ calls[d].files[f] <= writes /\ writes \in Nat
      BY <1>1 DEF Typed, ContentsAreOld, Old, ToolCalls, Contents
    <3>2. calls[d].wrote \subseteq Files
      BY <1>1 DEF Typed, ToolCalls
    <3>3. /\ Executes(d)' <=> Executes(d)
          /\ calls'[d].at = calls[d].at /\ calls'[d].files = calls[d].files
          /\ calls'[d].now = calls[d].now
          /\ calls'[d].wrote = IF Executes(d) THEN calls[d].wrote \cup {f} ELSE calls[d].wrote
      BY <1>4 DEF Executes
    <3>4. /\ calls[d].at = "waiting" => calls[d].wrote = {}
          /\ Executes(d) => \A g \in calls[d].wrote : calls[d].files[g] < disk[g]
          /\ calls[d].at = "scanned" => \A g \in calls[d].wrote : calls[d].files[g] # calls[d].now[g]
      BY <1>1 DEF WritesShow
    <3>5. ASSUME Executes(d), NEW g \in calls'[d].wrote
          PROVE  calls'[d].files[g] < disk'[g]
      <4>1. CASE g = f
        BY <1>5, <3>1, <3>3, <4>1
      <4>2. CASE g # f
        BY <1>5, <3>2, <3>3, <3>4, <3>5, <4>2
      <4> QED BY <4>1, <4>2
    <3>6. ~Executes(d) => calls'[d].wrote = calls[d].wrote
      BY <3>3
    <3>7. calls[d].at \in {"waiting", "scanned"} => ~Executes(d)
      BY DEF Executes
    <3> QED BY <3>3, <3>4, <3>5, <3>6, <3>7
  <2> QED BY <2>1 DEF WritesShow
<1>10. RowsAreInOrder'
  <2>1. \A j \in DOMAIN rows : rows[j] \in Calls
    BY <1>1 DEF Typed
  <2>2. \A d \in Calls : calls[d].before \subseteq Calls
    BY <1>1 DEF Typed, ToolCalls
  <2> QED BY <1>1, <1>2, <1>4, <2>1, <2>2 DEF RowsAreInOrder, AtWork
<1>11. RowsAreOffered' /\ CompletionIsVerified'
  BY <1>1, <1>2, <1>3, <1>4 DEF RowsAreOffered, CompletionIsVerified, AtWork, Executes
<1>12. \A g \in unseen' : g \in unseen /\ g \in Files /\ disk'[g] = disk[g]
  BY <1>1, <1>2, <1>5 DEF Typed
<1>13. EditsAreKnown'
  BY <1>1, <1>2, <1>3, <1>4, <1>12 DEF EditsAreKnown, Executes
<1>14. TurnsAlone'
  <2>1. ASSUME NEW d \in Calls, NEW e \in Calls
        PROVE  /\ calls'[d].at # "none" /\ calls'[e].at # "none"
                     => (calls'[d].kind = "turn" <=> calls'[e].kind = "turn")
               /\ calls'[d].kind = "turn" /\ AtWork(d)' /\ AtWork(e)' => d = e
    <3>1. /\ calls'[d].at = calls[d].at /\ calls'[d].kind = calls[d].kind
          /\ calls'[e].at = calls[e].at /\ calls'[e].kind = calls[e].kind
      BY <1>4
    <3>2. /\ calls[d].at # "none" /\ calls[e].at # "none"
                => (calls[d].kind = "turn" <=> calls[e].kind = "turn")
          /\ calls[d].kind = "turn" /\ AtWork(d) /\ AtWork(e) => d = e
      BY <1>1 DEF TurnsAlone
    <3> QED BY <3>1, <3>2 DEF AtWork
  <2>2. (\A d \in Calls : calls'[d].at = "none" \/ calls'[d].kind = "turn")
            => \A g \in unseen' : guard'.knownFiles[g] # disk'[g]
    BY <1>1, <1>2, <1>4, <1>12 DEF TurnsAlone
  <2>3. ASSUME NEW d \in Calls, calls'[d].kind = "turn"
        PROVE  /\ calls'[d].at \in {"executing", "attributing"} => unseen' = {}
               /\ calls'[d].at = "scanned" => \A g \in unseen' : calls'[d].now[g] # disk'[g]
    <3>1. calls'[d].at = calls[d].at /\ calls[d].kind = "turn" /\ calls'[d].now = calls[d].now
      BY <1>4, <2>3
    <3>2. /\ calls[d].at \in {"executing", "attributing"} => unseen = {}
          /\ calls[d].at = "scanned" => \A g \in unseen : calls[d].now[g] # disk[g]
      BY <1>1, <3>1 DEF TurnsAlone
    <3> QED BY <1>12, <3>1, <3>2
  <2> QED BY <2>1, <2>2, <2>3 DEF TurnsAlone
<1> QED BY <1>7, <1>8, <1>9, <1>10, <1>11, <1>13, <1>14 DEF GuardInvariant

\* A row is stored after the others.
LEMMA RowStored ==
    ASSUME NEW s \in Seq(Calls), NEW c \in Calls
    PROVE  LET t == Append(s, c)
           IN  /\ t \in Seq(Calls) /\ DOMAIN t = 1..(Len(s) + 1) /\ DOMAIN s = 1..Len(s)
               /\ Len(s) \in Nat /\ t[Len(s) + 1] = c
               /\ \A i \in DOMAIN s : t[i] = s[i]
OBVIOUS

\* A call whose attribution is over.
Ended(call, attributed, conflict) ==
    [WithoutBaseline(call) EXCEPT !.at = "done", !.changed = attributed, !.conflict = conflict]

\* The record of a call whose attribution is over, field by field.
LEMMA EndedTyped ==
    ASSUME NEW call \in ToolCalls, NEW attributed \in SUBSET Files, NEW conflict \in BOOLEAN
    PROVE  LET n == Ended(call, attributed, conflict)
           IN  /\ n \in ToolCalls /\ n.at = "done" /\ n.changed = attributed
               /\ n.files = NoScan /\ n.now = NoScan /\ n.kind = call.kind /\ n.run = call.run
               /\ n.ok = call.ok /\ n.wrote = call.wrote /\ n.before = call.before
<1> DEFINE m == WithoutBaseline(call)
<1>1. /\ m \in ToolCalls /\ m.files = NoScan /\ m.now = NoScan /\ m.kind = call.kind
      /\ m.run = call.run /\ m.ok = call.ok /\ m.wrote = call.wrote /\ m.before = call.before
  BY WithoutBaselineTyped
<1>2. Ended(call, attributed, conflict)
        = [m EXCEPT !.at = "done", !.changed = attributed, !.conflict = conflict]
  BY DEF Ended
<1> HIDE DEF m
<1> QED BY <1>1, <1>2 DEF ToolCalls

\* The end of afterTool, and the row: what the coder wrote is in it or a conflict is
\* open, and the row comes after those of all the calls before it.
LEMMA AttributedKeeps ==
    ASSUME GuardInvariant, NEW c \in Calls, Attributed(c)
    PROVE  GuardInvariant'
<1> DEFINE concurrent == ConcurrentEditorChanges(c)
           attributed == ChangedPaths(calls[c].files, calls[c].now) \ concurrent
           call == Ended(calls[c], attributed, concurrent # {})
           external == (guard.externalChanges \ attributed) \cup concurrent
           held == guard.held \/ concurrent # {}
<1>1. /\ Typed /\ ContentsAreOld /\ WritesShow /\ RowsAreInOrder /\ RowsAreOffered
      /\ EditsAreKnown /\ TurnsAlone /\ CompletionIsVerified
  BY DEF GuardInvariant
<1>2. /\ calls[c].at = "scanned" /\ AtWork(c)
      /\ disk' = disk /\ writes' = writes /\ editor' = editor /\ run' = run
      /\ unseen' = unseen \ (attributed \cap guard.externalChanges)
      /\ rows' = Append(rows, c)
      /\ offered' = IF ~guard'.held /\ calls[c].run = run THEN offered \cup {c} ELSE offered
      /\ calls' = [calls EXCEPT ![c] = call]
      /\ guard' = [guard EXCEPT !.externalChanges = external, !.knownFiles = calls[c].now,
                                !.held = held]
  BY DEF Attributed, Attribute, AtWork, Ended
<1>3. /\ concurrent \in SUBSET Files /\ attributed \in SUBSET Files /\ external \in SUBSET Files
      /\ held \in BOOLEAN /\ (concurrent # {}) \in BOOLEAN /\ calls[c] \in ToolCalls
  <2>1. guard \in Guards /\ calls[c] \in ToolCalls
    BY <1>1 DEF Typed
  <2>2. concurrent \in SUBSET Files /\ attributed \in SUBSET Files
    BY DEF ConcurrentEditorChanges, ChangedPaths
  <2> QED BY <2>1, <2>2 DEF Guards
<1>4. /\ guard.at = "ready" /\ guard' \in Guards /\ guard'.at = "ready"
      /\ guard'.knownFiles = calls[c].now /\ guard'.externalChanges = external
      /\ guard'.held = held
  <2>1. guard.at = "ready" /\ guard \in Guards /\ calls[c].now \in Contents
    BY <1>1, <1>2, <1>3 DEF RowsAreOffered, Typed, ToolCalls
  <2> HIDE DEF external, held
  <2> QED BY <1>2, <1>3, <2>1 DEF Guards
<1>5. /\ call \in ToolCalls /\ call.at = "done" /\ call.changed = attributed
      /\ call.files = NoScan /\ call.now = NoScan /\ call.kind = calls[c].kind
      /\ call.run = calls[c].run /\ call.ok = calls[c].ok /\ call.wrote = calls[c].wrote
      /\ call.before = calls[c].before
  BY <1>3, EndedTyped
<1> HIDE DEF call
<1>6. /\ calls' \in [Calls -> ToolCalls] /\ calls'[c] = call
      /\ \A d \in Calls : d # c => calls'[d] = calls[d]
  BY <1>1, <1>2, <1>5 DEF Typed
<1>7. /\ rows' \in Seq(Calls) /\ DOMAIN rows' = 1..(Len(rows) + 1) /\ DOMAIN rows = 1..Len(rows)
      /\ Len(rows) \in Nat /\ rows'[Len(rows) + 1] = c
      /\ \A i \in DOMAIN rows : rows'[i] = rows[i] /\ rows[i] \in Calls
  BY <1>1, <1>2, RowStored DEF Typed
<1>8. Typed' /\ ContentsAreOld'
  <2>1. Typed'
    BY <1>1, <1>2, <1>4, <1>6, <1>7 DEF Typed
  <2>2. \A d \in Calls, f \in Files : calls'[d].files[f] <= writes /\ calls'[d].now[f] <= writes
    BY <1>1, <1>5, <1>6, NoCallTyped DEF ContentsAreOld, Old, Typed
  <2> QED BY <1>1, <1>2, <1>4, <2>1, <2>2 DEF ContentsAreOld, Old
<1>9. WritesShow'
  BY <1>1, <1>2, <1>5, <1>6 DEF WritesShow, Executes
<1>10. RowsAreInOrder'
  <2>1. \A d \in Calls : calls'[d].at = "done" <=> (calls[d].at = "done" \/ d = c)
    BY <1>5, <1>6
  <2>2. \A d \in Calls : /\ calls'[d].before = calls[d].before /\ calls[d].before \subseteq Calls
                         /\ AtWork(d)' => AtWork(d)
    BY <1>1, <1>2, <1>5, <1>6 DEF AtWork, Typed, ToolCalls
  <2>3. \A i \in DOMAIN rows : rows[i] # c
    BY <1>1, <1>2 DEF RowsAreInOrder
  <2>4. \A i, j \in DOMAIN rows' : rows'[i] = rows'[j] => i = j
    BY <1>1, <1>7, <2>3 DEF RowsAreInOrder
  <2>5. \A d \in Calls : calls'[d].at = "done" <=> \E i \in DOMAIN rows' : rows'[i] = d
    <3>1. \A d \in Calls : calls[d].at = "done" <=> \E i \in DOMAIN rows : rows[i] = d
      BY <1>1 DEF RowsAreInOrder
    <3>2. \A d \in Calls : (\E i \in DOMAIN rows' : rows'[i] = d)
                              <=> (d = c \/ \E i \in DOMAIN rows : rows[i] = d)
      BY <1>7
    <3> QED BY <2>1, <3>1, <3>2
  <2>6. \A d \in Calls : AtWork(d)' => \A e \in calls'[d].before : calls'[e].at = "done"
    BY <1>1, <2>1, <2>2 DEF RowsAreInOrder
  <2>7. ASSUME NEW j \in DOMAIN rows', NEW d \in calls'[rows'[j]].before
        PROVE  \E i \in DOMAIN rows' : i < j /\ rows'[i] = d
    <3>1. CASE j \in DOMAIN rows
      <4>1. d \in calls[rows[j]].before
        BY <1>7, <2>2, <2>7, <3>1
      <4>2. PICK i \in DOMAIN rows : i < j /\ rows[i] = d
        BY <1>1, <3>1, <4>1 DEF RowsAreInOrder
      <4> QED BY <1>7, <4>2
    <3>2. CASE j = Len(rows) + 1
      <4>1. d \in calls[c].before /\ d \in Calls
        BY <1>7, <2>2, <2>7, <3>2
      <4>2. calls[d].at = "done"
        BY <1>1, <1>2, <4>1 DEF RowsAreInOrder
      <4>3. PICK i \in DOMAIN rows : rows[i] = d
        BY <1>1, <4>1, <4>2 DEF RowsAreInOrder
      <4> QED BY <1>7, <3>2, <4>3
    <3> QED BY <1>7, <3>1, <3>2
  <2> QED BY <2>4, <2>5, <2>6, <2>7 DEF RowsAreInOrder
<1>11. RowsAreOffered'
  <2>1. ASSUME ~guard'.held, calls[c].run = run
        PROVE  c \in offered' /\ (call.wrote # {} => call.changed # {})
    <3>1. concurrent = {} /\ attributed = ChangedPaths(calls[c].files, calls[c].now)
      BY <1>4, <2>1
    <3>2. \A f \in calls[c].wrote : f \in Files /\ calls[c].files[f] # calls[c].now[f]
      BY <1>1, <1>2, <1>3 DEF WritesShow, ToolCalls
    <3> QED BY <1>2, <1>5, <2>1, <3>1, <3>2 DEF ChangedPaths
  <2>2. offered \subseteq offered' /\ (~guard'.held => ~guard.held)
    BY <1>2, <1>4
  <2>3. ASSUME NEW d \in Calls, calls'[d].at = "done", calls'[d].run = run', ~guard'.held
        PROVE  d \in offered' /\ (calls'[d].wrote # {} => calls'[d].changed # {})
    BY <1>1, <1>2, <1>5, <1>6, <2>1, <2>2, <2>3 DEF RowsAreOffered
  <2>4. \A d \in Calls : calls'[d].run <= run'
    BY <1>1, <1>2, <1>5, <1>6 DEF RowsAreOffered
  <2> QED BY <1>4, <2>3, <2>4 DEF RowsAreOffered
<1>12. CompletionIsVerified'
  BY <1>4 DEF CompletionIsVerified
<1>13. \A f \in unseen' : /\ f \in unseen /\ f \in Files
                          /\ f \notin external => f \notin guard.externalChanges
  BY <1>1, <1>2 DEF Typed
<1>14. EditsAreKnown'
  <2>1. ASSUME NEW f \in unseen', NEW d \in Calls
        PROVE  /\ Executes(d)' => calls'[d].files[f] = disk'[f]
               /\ calls'[d].at = "scanned" /\ calls'[d].now[f] = disk'[f]
                     => calls'[d].files[f] = disk'[f]
               /\ f \notin guard'.externalChanges =>
                     /\ calls'[d].at \notin {"executing", "attributing"}
                     /\ calls'[d].at = "scanned" => calls'[d].now[f] # disk'[f]
    <3>1. CASE d = c
      BY <1>5, <1>6, <3>1 DEF Executes
    <3>2. CASE d # c
      <4>1. calls'[d] = calls[d] /\ f \in unseen /\ disk' = disk
            /\ (f \notin guard'.externalChanges => f \notin guard.externalChanges)
        BY <1>2, <1>4, <1>6, <1>13, <3>2
      <4> QED BY <1>1, <4>1 DEF EditsAreKnown, Executes
    <3> QED BY <3>1, <3>2
  <2>2. \A f \in unseen' : f \notin guard'.externalChanges => guard'.knownFiles[f] # disk'[f]
    BY <1>1, <1>2, <1>4, <1>13 DEF EditsAreKnown
  <2> QED BY <1>4, <2>1, <2>2 DEF EditsAreKnown
<1>15. TurnsAlone'
  <2>1. \A d \in Calls : /\ calls'[d].kind = calls[d].kind /\ (AtWork(d)' => AtWork(d))
                         /\ calls'[d].at # "none" <=> calls[d].at # "none"
    BY <1>2, <1>5, <1>6 DEF AtWork
  <2>2. ASSUME NEW d \in Calls, NEW e \in Calls
        PROVE  /\ calls'[d].at # "none" /\ calls'[e].at # "none"
                     => (calls'[d].kind = "turn" <=> calls'[e].kind = "turn")
               /\ calls'[d].kind = "turn" /\ AtWork(d)' /\ AtWork(e)' => d = e
    BY <1>1, <2>1 DEF TurnsAlone
  <2>3. (\A d \in Calls : calls'[d].at = "none" \/ calls'[d].kind = "turn")
            => \A f \in unseen' : guard'.knownFiles[f] # disk'[f]
    BY <1>1, <1>2, <1>4, <1>13, <2>1 DEF TurnsAlone
  <2>4. ASSUME NEW d \in Calls, calls'[d].kind = "turn"
        PROVE  /\ calls'[d].at \in {"executing", "attributing"} => unseen' = {}
               /\ calls'[d].at = "scanned" => \A f \in unseen' : calls'[d].now[f] # disk'[f]
    BY <1>1, <1>2, <1>5, <1>6, <1>13, <2>4 DEF TurnsAlone
  <2> QED BY <2>2, <2>3, <2>4 DEF TurnsAlone
<1> QED BY <1>8, <1>9, <1>10, <1>11, <1>12, <1>14, <1>15 DEF GuardInvariant

-----------------------------------------------------------------------------
(* The theorems.                                                           *)

\* Every step keeps the invariant.
LEMMA NextKeeps == ASSUME GuardInvariant, [GateNext]_vars PROVE GuardInvariant'
<1>1. CASE UNCHANGED vars
  <2>1. CallsStay /\ UNCHANGED <<tree, editor, guard>>
    BY <1>1 DEF vars, guardVars, tree, CallsStay
  <2>2. editor' \in [Files -> Buffers] /\ guard' \in Guards
    BY <2>1 DEF GuardInvariant, Typed
  <2> QED BY <2>1, <2>2, UserKeeps
<1>2. CASE Resumed
  BY <1>2, EndOfScanKeeps DEF Resumed
<1>3. CASE Complete
  BY <1>3, CompleteKeeps
<1>4. CASE \E c \in Calls : Attributed(c)
  BY <1>4, AttributedKeeps
<1>5. CASE UserStep /\ UNCHANGED <<rows, offered>>
  BY <1>5, UserStepKeeps
<1>6. CASE StartScanned /\ UNCHANGED <<rows, offered>>
  BY <1>6, ScanKeeps
<1>7. CASE Started /\ UNCHANGED <<rows, offered>>
  BY <1>7, EndOfScanKeeps
<1>8. CASE ReconcileScanned /\ UNCHANGED <<rows, offered>>
  BY <1>8, ScanKeeps
<1>9. CASE CallStep /\ UNCHANGED <<rows, offered>>
  BY <1>9, AwaitedKeeps, DecidedKeeps, AfterToolScannedKeeps DEF CallStep
<1>10. CASE CoderStep /\ UNCHANGED <<rows, offered>>
  BY <1>10, CallKeeps, CoderWritesKeeps, ToolEndsKeeps DEF CoderStep
<1> QED BY <1>1, <1>2, <1>3, <1>4, <1>5, <1>6, <1>7, <1>8, <1>9, <1>10 DEF GateNext

\* The invariant holds in every reachable state: what the scans of each call say of the
\* tree, the rows of evidence in their order, and where an edit of the user is known.
THEOREM GuardInvariantHolds == GateSpec => []GuardInvariant
<1>1. GateInit => GuardInvariant
  BY InitHolds
<1>2. GuardInvariant /\ [GateNext]_vars => GuardInvariant'
  BY NextKeeps
<1> QED BY <1>1, <1>2, PTL DEF GateSpec

\* A completion is accepted only over a run in which every successful tool that changed
\* a file has a successful verification that was not stored before it was let through
\* (validateCompletion, artifact-store.ts).
THEOREM CompletionsAreVerified == GateSpec => []CompletionIsVerified
<1>1. GuardInvariant => CompletionIsVerified
  BY DEF GuardInvariant
<1> QED BY <1>1, GuardInvariantHolds, PTL

\* A call that is let through was decided in that step.
LEMMA OnlyDecidedLetsThrough ==
    ASSUME Typed, GateNext, NEW c \in Calls, calls[c].at = "checking", calls'[c].at = "executing"
    PROVE  Decided(c)
<1>1. calls \in [Calls -> ToolCalls]
  BY DEF Typed
<1>2. calls' # calls
  OBVIOUS
<1>3. \/ \E d \in Calls : Attributed(d) \/ Awaited(d) \/ Decided(d) \/ AfterToolScanned(d)
                          \/ (\E f \in Files : CoderWrites(d, f))
                          \/ (\E ok \in BOOLEAN : ToolEnds(d, ok))
                          \/ (\E kind \in Kinds, target \in Files \cup {None} : Call(d, kind, target))
  <2>1. ~Resumed /\ ~Complete /\ ~UserStep /\ ~StartScanned /\ ~Started /\ ~ReconcileScanned
    BY <1>2 DEF Resumed, Reconciled, Complete, UserStep, Type, Save, SaveReported, CloseReported, EditElsewhere,
                StartScanned, Started, ReconcileScanned
  <2> QED BY <2>1 DEF GateNext, CallStep, CoderStep
<1>4. PICK d \in Calls :
          \/ Attributed(d) \/ Awaited(d) \/ Decided(d) \/ AfterToolScanned(d)
          \/ (\E f \in Files : CoderWrites(d, f)) \/ (\E ok \in BOOLEAN : ToolEnds(d, ok))
          \/ (\E kind \in Kinds, target \in Files \cup {None} : Call(d, kind, target))
  BY <1>3
<1>5. ~(\E f \in Files : CoderWrites(d, f))
  <2>1. ASSUME NEW f \in Files, CoderWrites(d, f) PROVE calls'[c].at = calls[c].at
    <3>1. calls'[c] = IF Executes(c) THEN [calls[c] EXCEPT !.wrote = @ \cup {f}] ELSE calls[c]
      BY <2>1 DEF CoderWrites
    <3> QED BY <1>1, <3>1 DEF ToolCalls
  <2> QED BY <2>1
<1>6. c = d
  <2>1. ASSUME c # d PROVE calls'[c] = calls[c]
    BY <1>1, <1>4, <1>5, <2>1 DEF Attributed, Attribute, Awaited, Block, Decided, AfterToolScanned,
                                  ToolEnds, Call
  <2> QED BY <2>1
<1>7. ~Attributed(c) /\ ~AfterToolScanned(c) /\ ~(\E ok \in BOOLEAN : ToolEnds(c, ok))
      /\ ~(\E kind \in Kinds, target \in Files \cup {None} : Call(c, kind, target))
      /\ ~Awaited(c)
  BY DEF Attributed, Attribute, AfterToolScanned, ToolEnds, Call, Awaited
<1> QED BY <1>4, <1>5, <1>6, <1>7

\* Every call that is let through is let through on a tree in which it overwrites no
\* edit that the user made while no tool was at work (beforeTool and beginExternalTurn,
\* workspace-guard.ts).
THEOREM EditsAreNotOverwritten == GateSpec => UserEditsAreSeen
<1>1. ASSUME GuardInvariant, [GateNext]_vars
      PROVE  [\A c \in Calls :
                 (calls[c].at = "checking" /\ calls'[c].at = "executing" /\ CanMutate(calls[c].kind))
                    => IF calls[c].kind \in Targeted THEN calls[c].target \notin unseen
                       ELSE unseen = {}]_guardVars
  <2>1. CASE UNCHANGED vars
    BY <2>1 DEF vars, guardVars
  <2>2. CASE GateNext
    <3>1. SUFFICES ASSUME NEW c \in Calls, calls[c].at = "checking", calls'[c].at = "executing",
                          CanMutate(calls[c].kind)
                   PROVE  IF calls[c].kind \in Targeted THEN calls[c].target \notin unseen
                          ELSE unseen = {}
      OBVIOUS
    <3>2. Decided(c) /\ Typed
      BY <1>1, <2>2, <3>1, OnlyDecidedLetsThrough DEF GuardInvariant
    <3>3. calls'[c] = IF Overlaps(c, ExternalChanges(c)) # {} THEN Blocked(calls[c])
                      ELSE LetThrough(calls[c])
      BY <3>2 DEF Decided, Blocked, LetThrough, Typed
    <3>4. Blocked(calls[c]).at = "blocked"
      BY <1>1, <3>1, BlockedFits DEF AtWork
    <3>5. Overlaps(c, ExternalChanges(c)) = {}
      BY <3>1, <3>3, <3>4
    <3> QED BY <1>1, <3>1, <3>5, LetThroughIsSeen
  <2> QED BY <1>1, <2>1, <2>2
<1> QED BY <1>1, GuardInvariantHolds, PTL DEF GateSpec, UserEditsAreSeen
=============================================================================
