---------------------------- MODULE EditorReports -----------------------------
(***************************************************************************)
(* The VS Code extension's reports of its documents (extension.ts): each   *)
(* open, first change, save and close puts the document's state in         *)
(* desiredEditorStates, and flushEditorState sends it through the bridge   *)
(* of EventSync, one request per document at a time.  The daemon's guard   *)
(* judges by them which files the user is editing.                         *)
(***************************************************************************)
EXTENDS EventSync

VARIABLES
    document,        \* the editor's documents: open, dirty
    dirtyDocuments,  \* those last reported dirty
    desired,         \* desiredEditorStates: the state to report, or None
    renewed,         \* those whose desired state is later than their request
    inFlight         \* editorStateInFlight

extensionVars == <<document, dirtyDocuments, desired, renewed, inFlight>>
reportVars == <<syncVars, extensionVars>>

\* A document's reports go by the name of its caller.
Documents == Callers \ {Focus}

OpenClean == [open |-> TRUE, dirty |-> FALSE]
OpenDirty == [open |-> TRUE, dirty |-> TRUE]
NotOpen == [open |-> FALSE, dirty |-> FALSE]

(***************************************************************************)
(* reportEditorState: the state becomes the desired one, and is sent       *)
(* unless a request for the document is in hand.                           *)
(***************************************************************************)
Desire(states) ==
    /\ desired' = [d \in Documents |-> IF d \in DOMAIN states THEN states[d] ELSE desired[d]]
    /\ renewed' = renewed \cup (DOMAIN states \cap inFlight)
    /\ inFlight' = inFlight \cup DOMAIN states
    /\ dirtyDocuments' = {d \in Documents : IF d \in DOMAIN states THEN states[d].dirty
                                            ELSE d \in dirtyDocuments}

Report(d, state) ==
    /\ document' = [document EXCEPT ![d] = state]
    /\ Desire(d :> state)
    /\ IF d \in inFlight THEN Runs /\ UNCHANGED syncVars ELSE Ask({d})

\* onDidOpenTextDocument, onDidSaveTextDocument, onDidCloseTextDocument.
OpenDocument(d) == ~document[d].open /\ Report(d, OpenClean)
SaveDocument(d) == document[d] = OpenDirty /\ Report(d, OpenClean)
CloseDocument(d) == document[d].open /\ Report(d, NotOpen)

\* onDidChangeTextDocument: a document already reported dirty is passed over.
ChangeDocument(d) ==
    /\ document[d].open
    /\ IF d \in dirtyDocuments
       THEN /\ Runs /\ document[d] # OpenDirty
            /\ document' = [document EXCEPT ![d] = OpenDirty]
            /\ UNCHANGED <<syncVars, dirtyDocuments, desired, renewed, inFlight>>
       ELSE Report(d, OpenDirty)

(***************************************************************************)
(* flushEditorState goes on after its request.                             *)
(***************************************************************************)
\* Answered: the state is no longer desired unless it was renewed; then the
\* loop sends the new one.
FlushAnswered(d) ==
    /\ d \in inFlight /\ call[d] = "answered"
    /\ IF d \in renewed
       THEN /\ Ask({d})
            /\ UNCHANGED <<desired, inFlight>>
       ELSE /\ Runs
            /\ desired' = [desired EXCEPT ![d] = None]
            /\ inFlight' = inFlight \ {d}
            /\ call' = [call EXCEPT ![d] = "none"]
            /\ UNCHANGED <<stores, daemon, link, bridge, view, stopped, faults>>
    /\ renewed' = renewed \ {d}
    /\ UNCHANGED <<document, dirtyDocuments>>

\* Failed: the catch leaves the state desired.
FlushFailed(d) ==
    /\ Runs /\ d \in inFlight /\ call[d] = "failed"
    /\ inFlight' = inFlight \ {d}
    /\ renewed' = renewed \ {d}
    /\ call' = [call EXCEPT ![d] = "none"]
    /\ UNCHANGED <<stores, daemon, link, bridge, view, stopped, faults,
                   document, dirtyDocuments, desired>>

(***************************************************************************)
(* Steps of EventSync that concern the documents.                          *)
(***************************************************************************)
\* onReady: focus, and a report of every open document without a desired state.
Ready ==
    LET anew == {d \in Documents : document[d].open /\ desired[d] = None /\ d \notin inFlight}
    IN  /\ Synchronize({Focus} \cup anew)
        /\ Desire([d \in anew |-> document[d]])
        /\ UNCHANGED document

(***************************************************************************)
(* The specification.                                                      *)
(***************************************************************************)
ReportsInit ==
    /\ Init
    /\ document \in [Documents -> {OpenClean, NotOpen}]
    /\ dirtyDocuments = {}
    /\ desired = [d \in Documents |-> None]
    /\ renewed = {}
    /\ inFlight = {}

ReportsNext ==
    \/ (DaemonNext \/ BridgeNext) /\ UNCHANGED extensionVars
    \/ Idle(Focus) /\ Ask({Focus}) /\ UNCHANGED extensionVars
    \/ Ready
    \/ \E d \in Documents :
           OpenDocument(d) \/ ChangeDocument(d) \/ SaveDocument(d) \/ CloseDocument(d)
    \/ \E d \in Documents : FlushAnswered(d) \/ FlushFailed(d)

\* Nothing is assumed of the user's edits.
ReportsSpec ==
    /\ ReportsInit /\ [][ReportsNext]_reportVars
    /\ SyncFairness
    /\ WF_reportVars(Ready)
    /\ \A d \in Documents : WF_reportVars(FlushAnswered(d)) /\ WF_reportVars(FlushFailed(d))

\* extension.ts:91: "The latest state remains queued and is retried by
\* onReady."  When the bridge is connected again and onReady has run, no
\* desired state is left without a request.
QueuedStateIsRetried ==
    [][bridge.state # "connected" /\ bridge'.state = "connected"
           => \A d \in Documents : desired'[d] # None => d \in inFlight']_reportVars
================================================================================
