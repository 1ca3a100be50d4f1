-------------------------- MODULE MCRefreshSessions --------------------------
(* solo: one request at a time, and sessions reach their expires_at;        *)
(* otherwise requests overlap.                                              *)
EXTENDS RefreshSessions

VARIABLE solo

mcVars == <<vars, solo>>

RequestSymmetry == Permutations(Requests)

MCInit == Init /\ solo \in BOOLEAN

OneRequest ==
    /\ solo /\ Next
    /\ Cardinality({r \in Requests : req'[r].pc # "free"}) <= 1
    /\ UNCHANGED solo

ManyRequests ==
    /\ ~solo
    /\ \/ \E r \in Requests :
            Login(r) \/ Present(r) \/ Proceed(r) \/ Fail(r) \/ Crash(r)
       \/ \E s \in Sids : LockExpires(s)
    /\ UNCHANGED solo

MCSpec == MCInit /\ [][OneRequest \/ ManyRequests]_mcVars

-----------------------------------------------------------------------------
\* One request at a time: logout-all leaves no working descendant of a
\* session it saw, whatever failed before and however sessions expire.
SoloLogoutAllIsComplete == solo => LogoutAllIsComplete
=============================================================================
