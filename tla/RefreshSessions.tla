--------------------------- MODULE RefreshSessions ---------------------------
(***************************************************************************)
(* The refresh sessions of one user: the session records and the user's    *)
(* set of session ids in Dragonfly, and the requests of AuthService that   *)
(* create, rotate and revoke them.  A step is one backend call, so         *)
(* requests interleave between the calls, a call may raise (auth_state is  *)
(* fail-closed, the default of settings.py) and the process may die.       *)
(*                                                                         *)
(* A record is modelled by whether it is still good: "revoked" stands for  *)
(* a record with revoked_at set or past its expires_at, which refresh      *)
(* treats alike.  revoke_all reads and rewrites a record in one step: it   *)
(* writes a revoked record whatever it read.                               *)
(***************************************************************************)
EXTENDS Naturals, FiniteSets, TLC

CONSTANTS
    MaxSessions,    \* bound: sessions ever created
    Requests,       \* slots for concurrent requests
    NoOne,          \* an unlocked refresh lock
    SlowRequests,   \* a request may outlive the TTL of its refresh lock
    Aging           \* sessions may reach their expires_at

ASSUME SessionsAssumption ==
    /\ MaxSessions \in Nat /\ NoOne \notin Requests /\ IsFiniteSet(Requests)
    /\ SlowRequests \in BOOLEAN /\ Aging \in BOOLEAN

Sids == 1..MaxSessions

VARIABLES
    record,      \* [Sids -> "none", "valid", "revoked" or "gone" (TTL)]
    userSet,     \* the ids in the user's session set
    last,        \* the id created last
    lock,        \* [Sids -> the request that holds the refresh lock]
    req,         \* [Requests -> where the request is]
    issued,      \* ids whose token a client received
    child,       \* [Sids -> ids handed out in exchange for the session]
    root,        \* [Sids -> the login the session descends from]
    cut          \* ids that a completed logout-all had found in the set

history == <<issued, child, root, cut>>
vars == <<record, userSet, last, lock, req, issued, child, root, cut>>

\* In the critical section of refresh, between acquiring and releasing.
Locked == {"read", "create", "add", "save", "rollback", "reply", "release"}
Steps == {"free", "login_add", "logout", "smembers", "sweep"} \cup Locked

\* sid: the session presented (0: none); new: the session created, or the
\* cookie of a logout-all; todo and seen: what revoke_all still has to visit
\* and what smembers returned.
At(pc, s, n) == [pc |-> pc, sid |-> s, new |-> n, todo |-> {}, seen |-> {}]
Free == At("free", 0, 0)

Init ==
    /\ record = [s \in Sids |-> "none"]
    /\ userSet = {}
    /\ last = 0
    /\ lock = [s \in Sids |-> NoOne]
    /\ req = [r \in Requests |-> Free]
    /\ issued = {}
    /\ child = [s \in Sids |-> {}]
    /\ root = [s \in Sids |-> s]
    /\ cut = {}

Pc(r) == req[r].pc
Goto(r, state) == req' = [req EXCEPT ![r] = state]
Write(s, value) == record' = [record EXCEPT ![s] = value]

-----------------------------------------------------------------------------
(* create_refresh_session: the record, then the set *)

Create(r, pc, s) ==
    LET n == last + 1
    IN  /\ n \in Sids
        /\ last' = n
        /\ Write(n, "valid")
        /\ root' = [root EXCEPT ![n] = IF s = 0 THEN n ELSE root[s]]
        /\ Goto(r, At(pc, s, n))
        /\ UNCHANGED <<userSet, lock, issued, child, cut>>

\* register and login.
Login(r) == Pc(r) = "free" /\ Create(r, "login_add", 0)

LoginAdd(r) ==
    /\ Pc(r) = "login_add"
    /\ userSet' = userSet \cup {req[r].new}
    /\ issued' = issued \cup {req[r].new}
    /\ Goto(r, Free)
    /\ UNCHANGED <<record, last, lock, child, root, cut>>

-----------------------------------------------------------------------------
(* refresh *)

\* Mutant: the lock is taken over from whoever holds it.
RefreshUnlocked(r, s) ==
    /\ Pc(r) = "free"
    /\ lock' = [lock EXCEPT ![s] = r]
    /\ Goto(r, At("read", s, 0))
    /\ UNCHANGED <<record, userSet, last, history>>

\* acquire_lock is SET NX: a second refresh of the session gets 429.
Refresh(r, s) ==
    /\ Pc(r) = "free"
    /\ lock[s] = NoOne
    /\ lock' = [lock EXCEPT ![s] = r]
    /\ Goto(r, At("read", s, 0))
    /\ UNCHANGED <<record, userSet, last, history>>

\* A revoked session is presented again: every session of the user goes.
AfterRead(s) ==
    CASE record[s] = "valid"   -> "create"
      [] record[s] = "revoked" -> "smembers"
      [] OTHER                 -> "release"

Read(r) ==
    /\ Pc(r) = "read"
    /\ Goto(r, At(AfterRead(req[r].sid), req[r].sid, 0))
    /\ UNCHANGED <<record, userSet, last, lock, history>>

RefreshCreate(r) == Pc(r) = "create" /\ Create(r, "add", req[r].sid)

\* Mutant: the rotated session is not put in the user's set.
RefreshAddForgotten(r) ==
    /\ Pc(r) = "add"
    /\ Goto(r, At("save", req[r].sid, req[r].new))
    /\ UNCHANGED <<record, userSet, last, lock, history>>

RefreshAdd(r) ==
    /\ Pc(r) = "add"
    /\ userSet' = userSet \cup {req[r].new}
    /\ Goto(r, At("save", req[r].sid, req[r].new))
    /\ UNCHANGED <<record, last, lock, history>>

\* Mutant: the save only stamps last_used_at on the copy it read.
RefreshSaveUnrevoked(r) ==
    /\ Pc(r) = "save"
    /\ Write(req[r].sid, "valid")
    /\ Goto(r, At("reply", req[r].sid, req[r].new))
    /\ UNCHANGED <<userSet, last, lock, history>>

\* The rotated session is saved as revoked before the new token is returned.
RefreshSave(r) ==
    /\ Pc(r) = "save"
    /\ Write(req[r].sid, "revoked")
    /\ Goto(r, At("reply", req[r].sid, req[r].new))
    /\ UNCHANGED <<userSet, last, lock, history>>

\* Mutant: a failed save is logged and the new token returned all the same.
RefreshSaveIgnored(r) ==
    /\ Pc(r) = "save"
    /\ Goto(r, At("reply", req[r].sid, req[r].new))
    /\ UNCHANGED <<record, userSet, last, lock, history>>

\* The save raised; it may have been applied.
RefreshSaveFails(r) ==
    /\ Pc(r) = "save"
    /\ Write(req[r].sid, "revoked") \/ UNCHANGED record
    /\ Goto(r, At("rollback", req[r].sid, req[r].new))
    /\ UNCHANGED <<userSet, last, lock, history>>

Rollback(r) ==
    /\ Pc(r) = "rollback"
    /\ Write(req[r].new, "revoked")
    /\ Goto(r, At("release", req[r].sid, 0))
    /\ UNCHANGED <<userSet, last, lock, history>>

\* Mutant: the release leaves a tombstone in the key.
UnlockTombstone(r, s) == lock' = [lock EXCEPT ![s] = 0]

\* release_lock deletes the key only if it still holds this request's token.
Unlock(r, s) == lock' = IF lock[s] = r THEN [lock EXCEPT ![s] = NoOne] ELSE lock

Release(r) ==
    /\ Pc(r) = "release"
    /\ Unlock(r, req[r].sid)
    /\ Goto(r, Free)
    /\ UNCHANGED <<record, userSet, last, history>>

RefreshReply(r) ==
    /\ Pc(r) = "reply"
    /\ Unlock(r, req[r].sid)
    /\ issued' = issued \cup {req[r].new}
    /\ child' = [child EXCEPT ![req[r].sid] = @ \cup {req[r].new}]
    /\ Goto(r, Free)
    /\ UNCHANGED <<record, userSet, last, root, cut>>

-----------------------------------------------------------------------------
(* logout, and revoke_all for logout-all, change-password and reuse *)

Usable(s) == s \in Sids /\ record[s] = "valid"

Logout(r, s) ==
    /\ Pc(r) = "free"
    /\ Usable(s)
    /\ Goto(r, At("logout", s, 0))
    /\ UNCHANGED <<record, userSet, last, lock, history>>

LogoutSave(r) ==
    /\ Pc(r) = "logout"
    /\ Write(req[r].sid, "revoked")
    /\ Goto(r, Free)
    /\ cut' = cut \cup req[r].seen
    /\ UNCHANGED <<userSet, last, lock, issued, child, root>>

\* logout-all with a refresh cookie or without one, and change-password.
LogoutAll(r, cookie) ==
    /\ Pc(r) = "free"
    /\ Goto(r, At("smembers", 0, cookie))
    /\ UNCHANGED <<record, userSet, last, lock, history>>

Smembers(r) ==
    /\ Pc(r) = "smembers"
    /\ Goto(r, [req[r] EXCEPT !.pc = "sweep", !.todo = userSet, !.seen = userSet])
    /\ UNCHANGED <<record, userSet, last, lock, history>>

\* Mutant: revoke_all writes back what it read.
SweptAsRead(s) == record[s]

\* An expired record is skipped.
Swept(s) == IF record[s] \in {"none", "gone"} THEN record[s] ELSE "revoked"

Sweep(r, s) ==
    /\ Pc(r) = "sweep" /\ s \in req[r].todo
    /\ Write(s, Swept(s))
    /\ req' = [req EXCEPT ![r].todo = @ \ {s}]
    /\ UNCHANGED <<userSet, last, lock, history>>

\* revoke_all returns: to the refresh that found the reuse, or to logout-all,
\* which then logs its cookie out.
SweepDone(r) ==
    /\ Pc(r) = "sweep" /\ req[r].todo = {}
    /\ \/ /\ req[r].sid # 0
          /\ Goto(r, At("release", req[r].sid, 0)) /\ UNCHANGED cut
       \/ /\ req[r].sid = 0 /\ Usable(req[r].new)
          /\ Goto(r, [At("logout", req[r].new, 0) EXCEPT !.seen = req[r].seen])
          /\ UNCHANGED cut
       \/ /\ req[r].sid = 0 /\ ~Usable(req[r].new)
          /\ Goto(r, Free) /\ cut' = cut \cup req[r].seen
    /\ UNCHANGED <<record, userSet, last, lock, issued, child, root>>

-----------------------------------------------------------------------------
(* Failures and time *)

\* A call raises; what it wrote may stay.  Inside the lock the finally clause
\* still releases it; when it is the release that raises, no token is returned.
Fail(r) ==
    /\ Pc(r) \notin {"free", "save"}
    /\ IF req[r].sid # 0 /\ Pc(r) \notin {"logout", "release", "reply"}
       THEN Goto(r, At("release", req[r].sid, 0)) ELSE Goto(r, Free)
    /\ \/ UNCHANGED userSet
       \/ Pc(r) \in {"login_add", "add"} /\ userSet' = userSet \cup {req[r].new}
    /\ UNCHANGED <<record, last, lock, history>>

Crash(r) ==
    /\ Pc(r) # "free"
    /\ Goto(r, Free)
    /\ UNCHANGED <<record, userSet, last, lock, history>>

Holds(r, s) == req[r].sid = s /\ Pc(r) \in Locked \cup {"smembers", "sweep"}

\* The lock's TTL (5 seconds) passes.
LockExpires(s) ==
    /\ lock[s] # NoOne
    /\ SlowRequests \/ ~Holds(lock[s], s)
    /\ lock' = [lock EXCEPT ![s] = NoOne]
    /\ UNCHANGED <<record, userSet, last, req, history>>

\* expires_at (30 days) passes, before or together with the key's TTL.
RecordExpires(s) ==
    /\ Aging
    /\ record[s] \in {"valid", "revoked"}
    /\ Write(s, "gone") \/ Write(s, "revoked")
    /\ UNCHANGED <<userSet, last, lock, req, history>>

-----------------------------------------------------------------------------
\* A client presents tokens it received.  A dead cookie stays dead
\* (NeverRevalidated), so logout-all treats it like none.
Present(r) ==
    \/ \E s \in issued : Refresh(r, s) \/ Logout(r, s)
    \/ \E s \in {t \in issued : Usable(t)} \cup {0} : LogoutAll(r, s)

\* The bound on sessions may leave a refresh only with the failing create.
Proceed(r) ==
    \/ LoginAdd(r) \/ Read(r) \/ RefreshCreate(r) \/ (Pc(r) = "create" /\ Fail(r))
    \/ RefreshAdd(r) \/ RefreshSave(r)
    \/ RefreshSaveFails(r) \/ Rollback(r) \/ Release(r) \/ RefreshReply(r)
    \/ LogoutSave(r) \/ Smembers(r) \/ (\E s \in Sids : Sweep(r, s)) \/ SweepDone(r)

Next ==
    \/ \E r \in Requests :
        Login(r) \/ Present(r) \/ Proceed(r) \/ Fail(r) \/ Crash(r)
    \/ \E s \in Sids : LockExpires(s) \/ RecordExpires(s)

Spec == Init /\ [][Next]_vars

-----------------------------------------------------------------------------
\* Records, locks and requests stay in their types.
TypeOK ==
    /\ record \in [Sids -> {"none", "valid", "revoked", "gone"}]
    /\ userSet \subseteq Sids /\ last \in 0..MaxSessions
    /\ lock \in [Sids -> Requests \cup {NoOne}]
    /\ req \in [Requests -> [pc : Steps, sid : 0..MaxSessions, new : 0..MaxSessions,
                             todo : SUBSET Sids, seen : SUBSET Sids]]
    /\ issued \subseteq Sids
    /\ child \in [Sids -> SUBSET Sids] /\ root \in [Sids -> Sids] /\ cut \subseteq Sids

\* Rotation is one-to-one: however many requests present the same refresh
\* token at once, at most one of them gets a new one, as long as a request
\* does not outlive its lock ("Refresh already in progress", auth/service.py:141).
SingleSuccessor == ~SlowRequests => \A s \in Sids : Cardinality(child[s]) <= 1

\* Once a client holds the successor of a session, the session itself can
\* never be used again, whatever saves, sweeps and failures were under way.
RotatedIsDead == \A s \in Sids : child[s] # {} => record[s] # "valid"

\* No write brings a revoked or expired session back: stale copies are only
\* ever saved as revoked.
NeverRevalidated ==
    [][\A s \in Sids : record[s] \in {"revoked", "gone"} => record'[s] # "valid"]_vars

\* Every session that a completed logout-all saw is dead for good.
SweptIsDead == \A s \in cut : record[s] # "valid"

\* "logout all revokes every refresh session" (tests/api/test_auth.py:88): no
\* client is left with a working token that descends from a login the
\* completed logout-all had seen.
LogoutAllIsComplete ==
    \A s \in issued, c \in cut : root[s] = root[c] => record[s] # "valid"
=============================================================================
