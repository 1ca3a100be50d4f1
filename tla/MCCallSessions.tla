--------------------------- MODULE MCCallSessions ---------------------------
(* The owner and a member of one room.  solo: one request at a time, none   *)
(* fails, up to MaxCalls calls in a row; otherwise requests overlap and     *)
(* fail, about a single call.                                               *)
EXTENDS CallSessions, FiniteSets, TLC

CONSTANTS alice, bob

VARIABLE solo

mcVars == <<vars, solo>>

RequestSymmetry == Permutations(Requests)

MCInit == Init /\ solo \in BOOLEAN

OneRequest ==
    /\ solo
    /\ \/ \E r \in Requests : Arrive(r) \/ Proceed(r)
       \/ \E u \in Users : AddMember(u)
    /\ Cardinality({r \in Requests : req'[r].pc # "free"}) <= 1
    /\ UNCHANGED solo

ManyRequests == ~solo /\ Next /\ Len(calls') <= 1 /\ UNCHANGED solo

MCSpec == MCInit /\ [][OneRequest \/ ManyRequests]_mcVars

-----------------------------------------------------------------------------
(* What holds only while requests do not overlap *)

\* One request at a time: a call that everybody left is over.
SoloAbandonedCallEnds == solo => AbandonedCallEnds

\* One request at a time: an ended call is never live again.
SoloEndedIsFinal == [][solo => StaysEnded]_mcVars
=============================================================================
