----------------------------- MODULE EvidenceGate -----------------------------
(***************************************************************************)
(* What the coder may call complete (packages/core/src/artifact-store.ts): *)
(* every tool call leaves a row of evidence, which names the files that    *)
(* the workspace guard attributes to it, and a completion is accepted only *)
(* over rows of the run that show a verification after the last change.    *)
(*                                                                         *)
(* Composed with WorkspaceGuard: a row is stored when the call's           *)
(* attribution is over, in the order in which these end.  The runner       *)
(* offers the rows that the controller has accepted in this run.           *)
(***************************************************************************)
EXTENDS WorkspaceGuard, SequencesExt

VARIABLES
    rows,       \* the artifacts table: the calls, in the order of their rows
    offered     \* #evidenceIds of the runner

vars == <<guardVars, rows, offered>>

GateInit == Init /\ rows = <<>> /\ offered = {}

-----------------------------------------------------------------------------
\* Mutant: only the tools that write files are taken to change one.
MutantKindOfTheTool(c) ==
    IF calls[c].changed # {} /\ calls[c].kind \in Targeted THEN "file_change"
    ELSE IF calls[c].kind = "test" THEN "verification" ELSE "tool_result"

\* recordToolEvidence: the kind of a row
EvidenceKind(c) ==
    IF calls[c].changed # {} THEN "file_change"
    ELSE IF calls[c].kind = "test" THEN "verification" ELSE "tool_result"

Ordinal(c) == CHOOSE i \in DOMAIN rows : rows[i] = c
Successful(kind) == {c \in offered : calls[c].ok /\ EvidenceKind(c) = kind}

\* validateCompletion: a verification after the last change, if there is a change
VerificationComplete ==
    \/ Successful("file_change") = {}
    \/ \E v \in Successful("verification") :
          \A c \in Successful("file_change") : Ordinal(v) > Ordinal(c)

ValidateCompletion ==
    /\ offered # {}
    /\ \A c \in offered : c \in ToSet(rows) /\ calls[c].run = run
    /\ \E c \in offered : calls[c].ok
    /\ VerificationComplete

-----------------------------------------------------------------------------
\* The end of afterTool, and what its caller does with it: the row is stored before
\* the controller accepts it, which it does while the task is in the call's run.
\* A conflict ends that run first.
Attributed(c) ==
    /\ Attribute(c)
    /\ rows' = Append(rows, c)
    /\ offered' = IF ~guard'.held /\ calls[c].run = run THEN offered \cup {c} ELSE offered

\* the coder offers its summary: only an accepted one ends the task
Complete ==
    /\ guard.at = "ready" /\ ~guard.held
    /\ \A c \in Calls : ~AtWork(c)
    /\ ValidateCompletion
    /\ guard' = [guard EXCEPT !.at = "finished"]
    /\ UNCHANGED <<tree, editor, calls, run, rows, offered>>

\* #resumeTask clears #evidenceIds after reconcile
Resumed == Reconciled /\ offered' = {} /\ UNCHANGED rows

GateNext ==
    \/ Resumed \/ Complete
    \/ \E c \in Calls : Attributed(c)
    \/ (UserStep \/ StartScanned \/ Started \/ ReconcileScanned \/ CallStep \/ CoderStep)
          /\ UNCHANGED <<rows, offered>>

GateSpec == GateInit /\ [][GateNext]_vars

-----------------------------------------------------------------------------
\* What is complete was verified: a tool of the accepted run that succeeded and in
\* whose time the coder changed a file has a successful verification.  One whose
\* evidence was stored before that tool was let through does not count.
CompletionIsVerified ==
    guard.at = "finished" =>
        \A c \in Calls :
            (calls[c].run = run /\ calls[c].at = "done" /\ calls[c].ok /\ calls[c].wrote # {})
                => \E v \in Calls : /\ calls[v].run = run /\ calls[v].kind = "test"
                                    /\ calls[v].ok /\ v \notin calls[c].before
=============================================================================
