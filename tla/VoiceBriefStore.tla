---------------------------- MODULE VoiceBriefStore ----------------------------
(***************************************************************************)
(* voice-brief-store.ts: one row per task in voice_briefs, its latest      *)
(* brief and whether that one was delivered, and with it what is known of  *)
(* each task's news: the brief last queued and what has been put before a  *)
(* model.  Briefs are numbered in the order their events happen.           *)
(***************************************************************************)
EXTENDS Naturals

CONSTANTS
    Tasks,
    MaxNews   \* bound on the events that are announced

ASSUME NewsAssumption == MaxNews \in Nat

VARIABLES
    rows,    \* voice_briefs: the brief of each task, 0 where there is no row
    queued,  \* the number of the brief last saved for each task, for the properties
    told     \* the news that a provider's conversation holds, for the properties

briefVars == <<rows, queued, told>>

Numbers == 0 .. MaxNews
NoBriefs == [t \in Tasks |-> 0]
Some(queue) == {t \in Tasks : queue[t] # 0}

\* The upsert leaves a delivered row as it was delivered.
MutantKeepsDelivered(t, n) ==
    /\ rows' = [rows EXCEPT ![t].brief = n, ![t].delivered = @ /\ rows[t].brief # 0]
    /\ queued' = [queued EXCEPT ![t] = n]
    /\ UNCHANGED told

Save(t, n) ==
    /\ rows' = [rows EXCEPT ![t] = [brief |-> n, delivered |-> FALSE]]
    /\ queued' = [queued EXCEPT ![t] = n]
    /\ UNCHANGED told

\* pending(), as the map a bridge is built with
Pending == [t \in Tasks |-> IF rows[t].delivered THEN 0 ELSE rows[t].brief]

\* The row is found by its task: what brief it holds by now is not compared.
MarkDelivered(delivered) ==
    /\ rows' = [t \in Tasks |-> IF t \in Some(delivered)
                                THEN [rows[t] EXCEPT !.delivered = TRUE] ELSE rows[t]]
    /\ told' = told \cup {delivered[t] : t \in Some(delivered)}
    /\ UNCHANGED queued

\* An event that is told at once leaves the table alone.
TellNow(n) == told' = told \cup {n} /\ UNCHANGED <<rows, queued>>

StoreInit ==
    /\ rows = [t \in Tasks |-> [brief |-> 0, delivered |-> FALSE]]
    /\ queued = NoBriefs
    /\ told = {}
================================================================================
