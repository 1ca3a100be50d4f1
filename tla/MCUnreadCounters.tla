-------------------------- MODULE MCUnreadCounters --------------------------
(* solo: one request at a time, never beside the worker, nothing fails;     *)
(* three users, two messages.  Otherwise two requests, or a request and the *)
(* worker, overlap and one call may raise; two users, one message.          *)
EXTENDS UnreadCounters

CONSTANTS alice, bob, carol, m1, m2, r1, r2

VARIABLE solo

mcVars == <<vars, solo>>

MCInit == Init /\ solo \in BOOLEAN /\ (~solo => carol \notin members)

\* What is running: requests, and the worker beside them.
Running ==
    Cardinality({r \in Requests : Pc(r) # "free"}) + (IF worker.pc = "rest" THEN 0 ELSE 1)

Fits ==
    IF solo THEN Running' <= 1 /\ Pc(r2)' = "free" /\ faults' = 0
    ELSE Running' <= 2 /\ carol \notin members' /\ msg'[m2] = Unsent

MCNext == Next /\ Fits /\ UNCHANGED solo

MCSpec == MCInit /\ [][MCNext]_mcVars /\ WF_mcVars(Reconcile /\ Fits /\ UNCHANGED solo)

-----------------------------------------------------------------------------
(* What holds only while nothing overlaps *)

\* One request at a time: incremental adjustments are exact.
SoloExactWhenIdle == solo => ExactWhenIdle
=============================================================================
