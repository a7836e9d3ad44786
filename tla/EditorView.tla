------------------------------ MODULE EditorView ------------------------------
(***************************************************************************)
(* What the VS Code bridge promises its consumer: the events it has        *)
(* applied are the first events of one database of the daemon, without a   *)
(* gap or a repetition; they only grow, or start again from a newer        *)
(* database; and unless the extension stops, they catch up with the log.   *)
(* EventSync implements it with sockets, snapshots and buffered events.    *)
(***************************************************************************)
EXTENDS Integers, Sequences

VARIABLES
    stores,  \* the length of the event log in each database the daemon had
    view,    \* the database the bridge follows and the events it has applied
    stopped  \* the extension no longer runs

viewVars == <<stores, view, stopped>>

FirstEvents(d, n) == [i \in 1..n |-> <<d, i>>]

ViewOf(d, n) == [store |-> d, events |-> FirstEvents(d, n)]

Init ==
    /\ stores = <<0>>
    /\ view = ViewOf(1, 0)
    /\ stopped = FALSE

Log ==
    /\ stores' = [stores EXCEPT ![Len(stores)] = @ + 1]
    /\ UNCHANGED <<view, stopped>>

NewStore ==
    /\ stores' = stores \o <<0>>
    /\ UNCHANGED <<view, stopped>>

\* The bridge moves on in its database, or to a newer one.
Follow ==
    \E d \in DOMAIN stores : \E n \in 0..stores[d] :
        /\ d > view.store \/ (d = view.store /\ n > Len(view.events))
        /\ view' = ViewOf(d, n)

Stop ==
    /\ ~stopped
    /\ stopped' = TRUE
    /\ UNCHANGED <<stores, view>>

Next ==
    \/ Log
    \/ NewStore
    \/ Follow /\ UNCHANGED stores /\ stopped' \in {stopped, TRUE}
    \/ Stop

Spec == Init /\ [][Next]_viewVars /\ WF_view(Follow /\ ~stopped)
================================================================================
