------------------------------ MODULE MCFanout ------------------------------
(* One room with two sockets in it, alice's and bob's, and a user socket of  *)
(* bob's, who loses his rights while an event is fanned out.                 *)
EXTENDS WsConnections, TLC

CONSTANTS alice, bob, sa, sb, ub

MCUserOf == sa :> alice @@ sb :> bob @@ ub :> bob

\* What happens to rights, cached decisions and connections happens to bob's;
\* alice is there to be served.
MCNext ==
    /\ FanNext
    /\ alice \in members' /\ alice \notin loaded' /\ cache'[alice] = "none"
    /\ sa \in valid' /\ handler'[sa] # "closing" /\ sa \notin fan'.bad

\* The event loop resumes every handler and the listener; a cached decision has
\* a TTL.
MCSpec ==
    /\ FanInit /\ [][MCNext]_fanVars
    /\ WF_fanVars(Listen /\ cache'[alice] = "none")
    /\ \A s \in Sockets : WF_fanVars(RegisterSocket(s) \/ Expel(s) \/ Unregister(s))
    /\ WF_fanVars(CacheExpires(bob))
=============================================================================
