---------------------------- MODULE AccessTokens ----------------------------
(***************************************************************************)
(* The access tokens of one user: issued with whole-second time stamps,    *)
(* revoked one by one (logout) or all at once by a cutoff (logout-all).    *)
(* Revocations are Dragonfly keys with a TTL.  Several things may happen   *)
(* within one second of the clock.                                         *)
(***************************************************************************)
EXTENDS Naturals

CONSTANTS
    Tokens,         \* ids of tokens
    TokenTtl,       \* access_token_ttl_minutes
    CutoffTtl,      \* user_cutoff_ttl_seconds
    MaxTime         \* bound on the clock

ASSUME TokensAssumption ==
    /\ TokenTtl \in Nat \ {0} /\ MaxTime \in Nat \ {0}
    /\ CutoffTtl \in Nat /\ CutoffTtl >= TokenTtl   \* 3600 seconds by default

VARIABLES
    clock,          \* whole seconds
    iat,            \* [Tokens -> second of issue; Never before]
    jtis,           \* [Tokens -> second the revocation key expires; 0: none]
    cutoff,         \* the cutoff, with the second its key expires
    logout,         \* tokens whose logout-all has revoked the token itself only
    stamp,          \* [Tokens -> the second that their logout-all has read off
                    \*  the clock and is about to store; 0: none]
    dead,           \* history: tokens that a completed logout was about
    overtaken       \* history: those of them that only a cutoff revoked which an
                    \*  older one has replaced since

tokenVars == <<clock, iat, jtis, cutoff, logout, stamp, dead, overtaken>>

Never == MaxTime + 1
NoCutoff == [at |-> 0, until |-> 0]
Issued(t) == iat[t] # Never

TokenInit ==
    /\ clock = 1
    /\ iat = [t \in Tokens |-> Never]
    /\ jtis = [t \in Tokens |-> 0]
    /\ cutoff = NoCutoff
    /\ logout = {}
    /\ stamp = [t \in Tokens |-> 0]
    /\ dead = {} /\ overtaken = {}

\* Mutant: a token of the second of the cutoff passes.
BeforeCutoffStrict(t) == clock < cutoff.until /\ iat[t] < cutoff.at

BeforeCutoff(t) == clock < cutoff.until /\ iat[t] <= cutoff.at

\* validate_access_token and _is_token_authorized.
Accepted(t) ==
    /\ Issued(t)
    /\ clock < iat[t] + TokenTtl
    /\ ~(clock < jtis[t])
    /\ ~BeforeCutoff(t)

\* login, register and refresh.
Issue(t) ==
    /\ ~Issued(t)
    /\ iat' = [iat EXCEPT ![t] = clock]
    /\ UNCHANGED <<clock, jtis, cutoff, logout, stamp, dead, overtaken>>

\* revoke_access_token: at least one second, else what is left of the token.
JtiTtl(t) == IF iat[t] + TokenTtl > clock THEN iat[t] + TokenTtl - clock ELSE 1

RevokeJti(t) == jtis' = [jtis EXCEPT ![t] = clock + JtiTtl(t)]

LogoutToken(t) ==
    /\ Accepted(t)
    /\ RevokeJti(t)
    /\ dead' = dead \cup {t} /\ overtaken' = overtaken \ {t}
    /\ UNCHANGED <<clock, iat, cutoff, logout, stamp>>

\* logout-all revokes the token it came with, ...
LogoutAllToken(t) ==
    /\ Accepted(t)
    /\ RevokeJti(t)
    /\ logout' = logout \cup {t}
    /\ UNCHANGED <<clock, iat, cutoff, stamp, dead, overtaken>>

\* ... reads the clock for the cutoff, ...
StampCutoff(t) ==
    /\ t \in logout
    /\ stamp' = [stamp EXCEPT ![t] = clock]
    /\ logout' = logout \ {t}
    /\ UNCHANGED <<clock, iat, jtis, cutoff, dead, overtaken>>

UpTo(second) == {u \in Tokens : iat[u] <= second}

\* ... and stores it, whatever another logout-all has stored since.
StoreCutoff(t) ==
    /\ cutoff' = [at |-> stamp[t], until |-> clock + CutoffTtl]
    /\ overtaken' = {u \in dead \ UpTo(stamp[t]) : jtis[u] = 0}

SetCutoff(t) ==
    /\ stamp[t] # 0
    /\ StoreCutoff(t)
    /\ dead' = dead \cup UpTo(stamp[t])
    /\ stamp' = [stamp EXCEPT ![t] = 0]
    /\ UNCHANGED <<clock, iat, jtis, logout>>

\* The call fails, closed, with or without effect, and logout-all is not
\* confirmed; or its process dies.
SetCutoffFails(t) ==
    /\ stamp[t] # 0
    /\ StoreCutoff(t) \/ UNCHANGED <<cutoff, overtaken>>
    /\ stamp' = [stamp EXCEPT ![t] = 0]
    /\ UNCHANGED <<clock, iat, jtis, logout, dead>>

Tick ==
    /\ clock < MaxTime
    /\ clock' = clock + 1
    /\ UNCHANGED <<iat, jtis, cutoff, logout, stamp, dead, overtaken>>

\* The clock stands still at its bound.
TokenNext ==
    \/ Tick \/ (clock = MaxTime /\ UNCHANGED tokenVars)
    \/ \E t \in Tokens :
        \/ Issue(t) \/ LogoutToken(t)
        \/ LogoutAllToken(t) \/ StampCutoff(t) \/ SetCutoff(t) \/ SetCutoffFails(t)

TokenSpec == TokenInit /\ [][TokenNext]_tokenVars

-----------------------------------------------------------------------------
\* A token that a completed logout or logout-all was about is never accepted
\* again: the cutoff reaches tokens issued in its own second, and no
\* revocation key expires before the tokens it is about
\* (test_websocket_disconnects_after_logout_all_revokes_access_token).  There
\* is one exception: a logout-all that read the clock earlier and stores its
\* cutoff later takes back what a younger cutoff, and nothing else, revoked.
LoggedOutIsRefused == \A t \in dead \ overtaken : ~Accepted(t)
=============================================================================
