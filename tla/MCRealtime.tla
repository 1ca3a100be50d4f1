----------------------------- MODULE MCRealtime -----------------------------
(* Three instances in one run: "send", the deliveries of an idempotent      *)
(* event; "tokens", the access tokens of a user; "presence", two            *)
(* connections of a user.                                                   *)
EXTENDS WsIdempotency, AccessTokens, WsPresence, TLC

VARIABLE mode

mcVars == <<sendVars, tokenVars, presVars, mode>>

MCInit ==
    /\ SendInit /\ TokenInit /\ PresInit
    /\ mode \in {"send", "tokens", "presence"}

Only(m, A, others) == mode = m /\ A /\ UNCHANGED others /\ UNCHANGED mode

SendStep(A) == Only("send", A, <<tokenVars, presVars>>)
TokenStep(A) == Only("tokens", A, <<sendVars, presVars>>)
PresStep(A) == Only("presence", A, <<sendVars, tokenVars>>)

\* Calls fail for one of the connections.
OneFails == \E c \in Conns : \A d \in Conns \ {c} : failing[d] = "no"

MCNext ==
    \/ SendStep(SendNext) \/ TokenStep(TokenNext)
    \/ PresStep(PresNext /\ OneFails')

\* The event loop resumes every handler; time passes, and with it what lives
\* by a TTL.
MCSpec ==
    /\ MCInit /\ [][MCNext]_mcVars
    /\ \A d \in Deliveries : WF_mcVars(SendStep(Handle(d)))
    /\ WF_mcVars(SendStep(KeyLockExpires))
    /\ \A c \in Conns : WF_mcVars(PresStep(HandlerStep(c)))
    /\ WF_mcVars(PresStep(TimePasses))
=============================================================================
