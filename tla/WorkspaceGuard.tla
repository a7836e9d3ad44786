---------------------------- MODULE WorkspaceGuard ----------------------------
(***************************************************************************)
(* Who changed which file (packages/core/src/workspace-guard.ts): the      *)
(* guard scans the working tree before and after every tool of the coder   *)
(* and hears from the editor which buffers are dirty, while the user edits *)
(* the same tree.                                                          *)
(*                                                                         *)
(* A content of a file is a number, new with every write to the disk; 0 is *)
(* the committed one.  A scan has two steps: it reads the tree at one      *)
(* moment, and it is used at a later one.  The editor's buffer of a file   *)
(* changes here when the report of it arrives; a save is on the disk       *)
(* before its report is.                                                   *)
(*                                                                         *)
(* The guard serves one task: start, its tools, and reconcile when the     *)
(* user has been told of a conflict and the task goes on in a new run.     *)
(* Left out: finish and the start of the next task (see OmpRunner for the  *)
(* start that comes too late), links and modes, several repositories.      *)
(***************************************************************************)
EXTENDS Integers, FiniteSets, FiniteSetsExt, Sequences

CONSTANTS
    Files,
    Calls,        \* Bound: the tool calls of the task, each made once
    None,
    MaxChanges,   \* Bound: contents written to the disk, by anyone, and buffers changed
    MaxRuns       \* Bound: runs of the task

VARIABLES
    disk,      \* content of each file
    writes,    \* contents so far
    editor,    \* the buffer of each file; one that is not open has version 0
    guard,     \* the guard's fields
    calls,     \* the tool calls
    run,       \* the run the task is in
    unseen     \* for the properties: the files the user has changed on the disk while
               \* no tool was at work, whose content is still that one, and which no
               \* attribution has taken back from #externalChanges

tree == <<disk, writes, unseen>>
guardVars == <<disk, writes, editor, guard, calls, run, unseen>>

\* edit and write have a target; test is a verification command, mutator a command
\* with a mutation keyword, turn a whole turn of an external coder
Kinds == {"edit", "write", "test", "mutator", "turn"}
Targeted == {"edit", "write"}
CanMutate(kind) == kind # "test"
MayMutateUnknownFiles(kind) == kind \notin Targeted
ReplacesWholeFile(kind) == kind = "write"

NoScan == [f \in Files |-> 0]
NoCall == [at |-> "none", kind |-> None, target |-> None, run |-> 0,
           awaits |-> None,            \* the attribution it waits for first
           files |-> NoScan,           \* the scan before it: its baseline
           versions |-> NoScan,        \* of the buffers, 0 for none
           now |-> NoScan,             \* the scan after it
           ok |-> FALSE, conflict |-> FALSE,
           changed |-> {},             \* the files attributed to it
           \* for the properties: what the coder wrote in its time, and the calls whose
           \* attribution was over when it was let through
           wrote |-> {}, before |-> {}]

NotOpen == [version |-> 0, dirty |-> FALSE, saved |-> FALSE,
            past |-> 0]                \* Bound: the versions of the file's earlier buffers

Init ==
    /\ disk \in [Files -> {0, 1}]      \* the user's work before the task
    /\ writes = 1
    /\ editor = [f \in Files |-> NotOpen]
    /\ guard = [at |-> "scanning", knownFiles |-> NoScan, preExistingChanges |-> {},
                externalChanges |-> {}, pendingAttribution |-> None,
                held |-> FALSE]        \* the user has been told of a conflict
    /\ calls = [c \in Calls |-> NoCall]
    /\ run = 1
    /\ unseen = {}

-----------------------------------------------------------------------------
ChangedPaths(before, after) == {f \in Files : before[f] # after[f]}
DirtyFiles == {f \in Files : editor[f].dirty}
Versions == [f \in Files |-> editor[f].version]

AtWork(c) == calls[c].at \notin {"none", "blocked", "done"}
\* its baseline is taken and its last scan is not
Executes(c) == calls[c].at \in {"checking", "executing", "attributing"}

\* The changes so far: contents after the first, and versions of the buffers.
Changes == writes - 1 + FoldFunction(LAMBDA b, n : b.past + b.version + n, 0, editor)

Write(f) == /\ Changes < MaxChanges
            /\ writes' = writes + 1
            /\ disk' = [disk EXCEPT ![f] = writes + 1]
UserWrites(f) ==
    /\ Write(f)
    /\ unseen' = IF \E c \in Calls : Executes(c) THEN unseen \ {f} ELSE unseen \cup {f}

-----------------------------------------------------------------------------
(* The user and the editor.                                                *)

\* updateEditorState: what it adds to #externalChanges
EditedByUser(f, dirty) == IF dirty \/ editor[f].dirty THEN {f} ELSE {}

UpdateEditorState(f, buffer) ==
    /\ editor' = [editor EXCEPT ![f] = buffer]
    /\ guard' = [guard EXCEPT !.externalChanges = @ \cup EditedByUser(f, buffer.dirty)]

\* a buffer is opened or becomes dirty; more typing is not reported
Type(f, dirty) ==
    /\ ~editor[f].dirty /\ Changes < MaxChanges
    /\ UpdateEditorState(f, [editor[f] EXCEPT !.version = @ + 1, !.dirty = dirty])
    /\ UNCHANGED <<tree, calls, run>>

\* a buffer is saved, and then reported; what was typed meanwhile is in its version
Save(f) ==
    /\ editor[f].dirty /\ ~editor[f].saved
    /\ UserWrites(f)
    /\ editor' = [editor EXCEPT ![f].saved = TRUE]
    /\ UNCHANGED <<guard, calls, run>>
SaveReported(f) ==
    /\ editor[f].saved
    /\ \E version \in {editor[f].version, editor[f].version + 1} :
          UpdateEditorState(f, [editor[f] EXCEPT !.version = version, !.dirty = FALSE,
                                                 !.saved = FALSE])
    /\ UNCHANGED <<tree, calls, run>>

\* a buffer is closed, and what is not saved in it is lost; its versions begin again
CloseReported(f) ==
    /\ editor[f].version > 0
    /\ UpdateEditorState(f, [NotOpen EXCEPT !.past = editor[f].past + editor[f].version])
    /\ UNCHANGED <<tree, calls, run>>

\* the user changes a file without the editor
EditElsewhere(f) ==
    /\ UserWrites(f)
    /\ UNCHANGED <<editor, guard, calls, run>>

-----------------------------------------------------------------------------
(* start and reconcile.                                                    *)

\* scanFiles of start; editorStates is what the editor has reported already
StartScanned ==
    /\ guard.at = "scanning"
    /\ guard' = [guard EXCEPT !.at = "starting", !.knownFiles = disk]
    /\ unseen' = {}
    /\ UNCHANGED <<disk, writes, editor, calls, run>>

\* git status, and the end of start
Started ==
    /\ guard.at = "starting"
    /\ guard' = [guard EXCEPT !.at = "ready", !.preExistingChanges = ChangedPaths(NoScan, disk),
                              !.externalChanges = {}, !.pendingAttribution = None]
    /\ UNCHANGED <<tree, editor, calls, run>>

\* reconcile awaits the pending attribution: the coder is idle by then
ReconcileScanned ==
    /\ guard.at = "ready" /\ guard.held /\ run < MaxRuns
    /\ \A c \in Calls : ~AtWork(c)
    /\ guard' = [guard EXCEPT !.at = "reconciling", !.knownFiles = disk]
    /\ run' = run + 1
    /\ unseen' = {}
    /\ UNCHANGED <<disk, writes, editor, calls>>
Reconciled ==
    /\ guard.at = "reconciling"
    /\ guard' = [guard EXCEPT !.at = "ready", !.externalChanges = {},
                              !.pendingAttribution = None, !.held = FALSE]
    /\ UNCHANGED <<tree, editor, calls, run>>

-----------------------------------------------------------------------------
(* A tool call.                                                            *)

Call(c, kind, target) ==
    /\ calls[c].at = "none" /\ guard.at = "ready" /\ ~guard.held
    /\ (kind \in Targeted) = (target # None)
    /\ \A d \in Calls : /\ kind = "turn" => ~AtWork(d)
                        /\ calls[d].at # "none" => (calls[d].kind = "turn") = (kind = "turn")
    /\ calls' = [calls EXCEPT ![c] = [NoCall EXCEPT !.at = "waiting", !.kind = kind,
                    !.target = target, !.run = run, !.awaits = guard.pendingAttribution]]
    /\ UNCHANGED <<tree, editor, guard, run>>

\* the baseline is deleted, its scope with it
WithoutBaseline(call) ==
    [call EXCEPT !.files = NoScan, !.versions = NoScan, !.now = NoScan, !.awaits = None,
                 !.target = None]

Block(c) ==
    /\ calls' = [calls EXCEPT ![c] = [WithoutBaseline(@) EXCEPT !.at = "blocked"]]
    /\ guard' = [guard EXCEPT !.held = TRUE]

\* beforeTool after the attribution it awaits: a conflict, or the scan reads the tree
Awaited(c) ==
    LET last == calls[c].awaits
    IN  /\ calls[c].at = "waiting"
        /\ last # None => calls[last].at = "done"
        /\ IF last # None /\ calls[last].conflict
           THEN Block(c)
           ELSE /\ calls' = [calls EXCEPT ![c].at = "checking", ![c].files = disk]
                /\ UNCHANGED guard
        /\ UNCHANGED <<tree, editor, run>>

\* beforeTool and beginExternalTurn: the user's changes that the call may overwrite
Overlaps(c, external) ==
    LET call == calls[c]
        owned == IF ReplacesWholeFile(call.kind) \/ MayMutateUnknownFiles(call.kind)
                 THEN guard.preExistingChanges ELSE {}
    IN  IF call.kind = "turn" THEN DirtyFiles \cup ChangedPaths(guard.knownFiles, call.files)
        ELSE IF ~CanMutate(call.kind) THEN {}
        ELSE (external \cup DirtyFiles \cup owned)
                \cap (IF call.kind \in Targeted THEN {call.target} ELSE Files)

\* Mutant: what an earlier scan has found is forgotten.
MutantOnlyTheLastScan(c) == ChangedPaths(guard.knownFiles, calls[c].files)

\* #externalChanges with what the scan of the call adds
ExternalChanges(c) ==
    guard.externalChanges \cup ChangedPaths(guard.knownFiles, calls[c].files)

\* the end of beforeTool
Decided(c) ==
    LET external == ExternalChanges(c)
        overlap == Overlaps(c, external) # {}
    IN  /\ calls[c].at = "checking"
        /\ guard' = [guard EXCEPT !.externalChanges = external, !.held = @ \/ overlap]
        /\ calls' = [calls EXCEPT ![c] =
               IF overlap THEN [WithoutBaseline(@) EXCEPT !.at = "blocked"]
               ELSE [@ EXCEPT !.at = "executing", !.versions = Versions, !.awaits = None,
                              !.before = {d \in Calls : calls[d].at = "done"}]]
        /\ UNCHANGED <<tree, editor, run>>

\* the tool writes a file
CoderWrites(c, f) ==
    /\ calls[c].at = "executing"
    /\ calls[c].kind \in Targeted => f = calls[c].target
    /\ Write(f)
    /\ unseen' = unseen \ {f}
    /\ calls' = [d \in Calls |-> IF Executes(d) THEN [calls[d] EXCEPT !.wrote = @ \cup {f}]
                                 ELSE calls[d]]
    /\ UNCHANGED <<editor, guard, run>>

\* the tool is over: afterTool, endExternalTurn
ToolEnds(c, ok) ==
    /\ calls[c].at = "executing"
    /\ calls' = [calls EXCEPT ![c].at = "attributing", ![c].ok = ok]
    /\ guard' = [guard EXCEPT !.pendingAttribution = c]
    /\ UNCHANGED <<tree, editor, run>>

AfterToolScanned(c) ==
    /\ calls[c].at = "attributing"
    /\ calls' = [calls EXCEPT ![c].at = "scanned", ![c].now = disk]
    /\ UNCHANGED <<tree, editor, guard, run>>

\* the files whose buffer has changed since the call began
ConcurrentEditorChanges(c) ==
    {f \in Files : /\ MayMutateUnknownFiles(calls[c].kind) \/ calls[c].target = f
                   /\ editor[f].version > 0
                   /\ calls[c].versions[f] # editor[f].version}

\* the end of #attributeTool; a conflict is reported to the controller
Attribute(c) ==
    LET concurrent == ConcurrentEditorChanges(c)
        attributed == ChangedPaths(calls[c].files, calls[c].now) \ concurrent
    IN  /\ calls[c].at = "scanned"
        /\ guard' = [guard EXCEPT !.externalChanges = (@ \ attributed) \cup concurrent,
                                  !.knownFiles = calls[c].now,
                                  !.held = @ \/ concurrent # {}]
        /\ calls' = [calls EXCEPT ![c] =
               [WithoutBaseline(@) EXCEPT !.at = "done", !.changed = attributed,
                                          !.conflict = concurrent # {}]]
        /\ unseen' = unseen \ (attributed \cap guard.externalChanges)
        /\ UNCHANGED <<disk, writes, editor, run>>
-----------------------------------------------------------------------------
UserStep ==
    \E f \in Files : \/ \E dirty \in BOOLEAN : Type(f, dirty)
                    \/ Save(f) \/ SaveReported(f) \/ CloseReported(f) \/ EditElsewhere(f)
CallStep == \E c \in Calls : Awaited(c) \/ Decided(c) \/ AfterToolScanned(c)
CoderStep ==
    \E c \in Calls : \/ \E kind \in Kinds, target \in Files \cup {None} : Call(c, kind, target)
                    \/ \E f \in Files : CoderWrites(c, f)
                    \/ \E ok \in BOOLEAN : ToolEnds(c, ok)

-----------------------------------------------------------------------------
\* A change that the user has made on the disk while no tool was at work is never
\* overwritten unseen: the guard allows no edit, write, mutating command or turn on
\* top of it before the user was told and the coder has reread the tree.  What the
\* user changes during a tool, with no report of a new version, is taken for the
\* tool's; and when two calls overlap, what the scan of one has found is taken for
\* the other's if that one has changed the same file before: its attribution
\* removes the file from #externalChanges, and nothing finds it again.
UserEditsAreSeen ==
    [][\A c \in Calls :
          (calls[c].at = "checking" /\ calls'[c].at = "executing" /\ CanMutate(calls[c].kind))
              => IF calls[c].kind \in Targeted THEN calls[c].target \notin unseen
                 ELSE unseen = {}]_guardVars
=============================================================================
