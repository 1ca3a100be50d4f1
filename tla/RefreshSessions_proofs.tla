----------------------- MODULE RefreshSessions_proofs -----------------------
(***************************************************************************)
(* Rotation and revocation of refresh sessions, for any number of sessions *)
(* and of concurrent requests, with failures and crashes at every call.    *)
(*                                                                         *)
(* The argument rests on two facts.  A record is written "valid" only when *)
(* its id is fresh, so what is dead stays dead (Known, Dead).  And, while  *)
(* no request outlives its lock, the requests inside the critical section  *)
(* of a session are its lock's holder, so a session found valid by its     *)
(* holder has no successor yet (Exclusion).                                *)
(***************************************************************************)
EXTENDS MCRefreshSessions, FiniteSetTheorems, TLAPS

Request == [pc : Steps, sid : 0..MaxSessions, new : 0..MaxSessions,
            todo : SUBSET Sids, seen : SUBSET Sids]

\* What the steps taken so far established for a request.
Sane(q) ==
    /\ q.sid <= last /\ q.new <= last
    /\ q.todo \subseteq 1..last /\ q.seen \subseteq 1..last
    /\ q.pc \in Locked \cup {"logout"} => q.sid # 0
    /\ q.pc = "login_add" => q.sid = 0
    /\ q.pc = "logout" => q.todo = {}
    /\ q.pc \in {"login_add", "add", "save", "rollback", "reply"} => q.new # 0
    /\ q.pc = "reply" => record[q.sid] # "valid"
    /\ \A s \in q.seen \ q.todo : record[s] # "valid"

Known ==
    /\ userSet \subseteq 1..last /\ issued \subseteq 1..last /\ cut \subseteq 1..last
    /\ \A s \in Sids : s > last => record[s] = "none" /\ child[s] = {}

Dead == RotatedIsDead /\ SweptIsDead

Exclusion ==
    ~SlowRequests =>
        /\ \A r \in Requests, s \in Sids : Holds(r, s) => lock[s] = r
        /\ \A r \in Requests :
            Pc(r) \in {"create", "add", "save", "reply"} => child[req[r].sid] = {}
        /\ \A s \in Sids : \A a, b \in child[s] : a = b

IInv ==
    /\ TypeOK
    /\ Known
    /\ Dead
    /\ \A r \in Requests : Sane(req[r])
    /\ Exclusion

\* No record becomes valid but that of a fresh id.
Monotone ==
    /\ last' \in 0..MaxSessions /\ last <= last'
    /\ record' \in [Sids -> {"none", "valid", "revoked", "gone"}]
    /\ \A s \in 1..last : record'[s] = "valid" => record[s] = "valid"
    /\ \A s \in Sids : s > last' => record'[s] = "none"

-----------------------------------------------------------------------------
(* Steps of one request *)

\* A request that does not move keeps what it knows.
LEMMA SaneKept ==
    ASSUME TypeOK, Monotone, NEW q \in Request, Sane(q)
    PROVE  Sane(q)'
<1> USE SessionsAssumption
<1>1. last \in Nat /\ last <= MaxSessions /\ last' \in Nat
  BY DEF TypeOK, Monotone
<1>2. /\ q.sid \in Nat /\ q.new \in Nat /\ q.pc \in Steps
      /\ q.todo \subseteq 1..last /\ q.seen \subseteq 1..last
  BY DEF Request, Sane
<1>3. q.sid <= last' /\ q.new <= last' /\ q.todo \subseteq 1..last' /\ q.seen \subseteq 1..last'
  BY <1>1, <1>2 DEF Sane, Monotone
<1>4. q.pc = "reply" => record'[q.sid] # "valid"
  BY <1>1, <1>2 DEF Sane, Monotone, Locked
<1>5. \A s \in q.seen \ q.todo : record'[s] # "valid"
  BY <1>1, <1>2 DEF Sane, Monotone
<1> QED BY <1>3, <1>4, <1>5 DEF Sane

\* A step that moves request r to q, given what it does to the rest.
LEMMA Moved ==
    ASSUME IInv, Monotone, NEW r \in Requests, NEW q \in Request,
           req' = [req EXCEPT ![r] = q], Sane(q)'
    PROVE  /\ req' \in [Requests -> Request]
           /\ req'[r] = q
           /\ \A x \in Requests : x # r => req'[x] = req[x]
           /\ \A x \in Requests : Sane(req[x])'
<1>1. req \in [Requests -> Request]
  BY DEF IInv, TypeOK, Request
<1>2. req'[r] = q /\ \A x \in Requests : x # r => req'[x] = req[x]
  BY <1>1
<1>3. \A x \in Requests : x # r => Sane(req[x])'
  <2> TAKE x \in Requests
  <2>1. req[x] \in Request /\ Sane(req[x])
    BY <1>1 DEF IInv
  <2> HAVE x # r
  <2>2. req'[x] = req[x]
    BY <1>2
  <2> QED BY <2>1, <2>2, SaneKept DEF IInv
<1>4. Sane(req[r])'
  BY <1>2
<1> QED BY <1>1, <1>2, <1>3, <1>4

\* Such a step keeps the critical sections apart when request r gets into
\* one only with the lock, and child and the lock change only by its hand.
LEMMA ExclusionKept ==
    ASSUME IInv, NEW r \in Requests,
           \A x \in Requests : x # r => req'[x] = req[x],
           ~SlowRequests =>
             /\ \A s \in Sids : Holds(r, s)' => lock'[s] = r
             /\ Pc(r)' \in {"create", "add", "save", "reply"} => child'[req'[r].sid] = {},
           \A s \in Sids : lock'[s] = lock[s] \/ lock[s] = r \/ lock[s] = NoOne,
           child' = child
    PROVE  Exclusion'
<1> SUFFICES ASSUME ~SlowRequests PROVE Exclusion'
  BY DEF Exclusion
<1>1. ASSUME NEW x \in Requests, NEW s \in Sids, Holds(x, s)' PROVE lock'[s] = x
  <2>1. CASE x = r
    BY <1>1, <2>1
  <2>2. CASE x # r
    BY <1>1, <2>2, SessionsAssumption DEF IInv, Exclusion, Holds, Pc
  <2> QED BY <2>1, <2>2
<1>2. ASSUME NEW x \in Requests, Pc(x)' \in {"create", "add", "save", "reply"}
      PROVE  child'[req'[x].sid] = {}
  BY <1>2 DEF IInv, Exclusion, Pc
<1> QED BY <1>1, <1>2 DEF IInv, Exclusion

\* A step of request r that hands out no successor.
LEMMA StepKeeps ==
    ASSUME IInv, Monotone, NEW r \in Requests, NEW q \in Request,
           req' = [req EXCEPT ![r] = q], Sane(q)',
           child' = child, root' \in [Sids -> Sids],
           userSet' \subseteq 1..last', issued' \subseteq 1..last', cut' \subseteq 1..last',
           \A s \in cut' : record'[s] # "valid",
           lock' \in [Sids -> Requests \cup {NoOne}],
           \A s \in Sids : lock'[s] = lock[s] \/ lock[s] = r \/ lock[s] = NoOne,
           ~SlowRequests =>
             /\ \A s \in Sids :
                  q.sid = s /\ q.pc \in Locked \cup {"smembers", "sweep"} => lock'[s] = r
             /\ q.pc \in {"create", "add", "save", "reply"} => child[q.sid] = {}
    PROVE  IInv'
<1> USE SessionsAssumption
<1>1. /\ req' \in [Requests -> Request] /\ req'[r] = q
      /\ \A x \in Requests : x # r => req'[x] = req[x]
      /\ \A x \in Requests : Sane(req[x])'
  BY Moved
<1>2. last \in Nat /\ last' \in Nat /\ last <= last' /\ last' <= MaxSessions
  BY DEF IInv, TypeOK, Monotone
<1>3. TypeOK'
  <2>1. 1..last' \subseteq Sids
    BY <1>2 DEF Sids
  <2>2. userSet' \subseteq Sids /\ issued' \subseteq Sids /\ cut' \subseteq Sids
    BY <2>1
  <2>3. child' \in [Sids -> SUBSET Sids]
    BY DEF IInv, TypeOK
  <2> QED BY <1>1, <2>2, <2>3 DEF TypeOK, Monotone, Request
<1>4. Known'
  BY <1>2 DEF IInv, Known, Monotone, Sids
<1>5. Dead'
  <2>1. ASSUME NEW s \in Sids, child[s] # {} PROVE record'[s] # "valid"
    <3>1. ~(s > last) /\ record[s] # "valid"
      BY <2>1 DEF IInv, Known, Dead, RotatedIsDead
    <3>2. s \in 1..last
      BY <1>2, <3>1 DEF Sids
    <3> QED BY <3>1, <3>2 DEF Monotone
  <2> QED BY <2>1 DEF Dead, RotatedIsDead, SweptIsDead
<1>6. Exclusion'
  <2>1. \A s \in Sids : Holds(r, s)' => q.sid = s /\ q.pc \in Locked \cup {"smembers", "sweep"}
    BY <1>1 DEF Holds, Pc
  <2>2. Pc(r)' = q.pc
    BY <1>1 DEF Pc
  <2> QED BY <1>1, <2>1, <2>2, ExclusionKept
<1> QED BY <1>1, <1>3, <1>4, <1>5, <1>6 DEF IInv

\* The requests that At makes.
LEMMA AtRequest ==
    ASSUME NEW pc \in Steps, NEW s \in 0..MaxSessions, NEW n \in 0..MaxSessions
    PROVE  /\ At(pc, s, n) \in Request
           /\ At(pc, s, n).pc = pc /\ At(pc, s, n).sid = s /\ At(pc, s, n).new = n
           /\ At(pc, s, n).todo = {} /\ At(pc, s, n).seen = {}
BY DEF At, Request

\* A request outside the critical section that carries nothing.
LEMMA FreeRequest ==
    /\ Free \in Request /\ Free.pc = "free"
    /\ Free.sid = 0 /\ Free.new = 0 /\ Free.todo = {} /\ Free.seen = {}
BY SessionsAssumption, AtRequest DEF Free, Steps

-----------------------------------------------------------------------------
(* The steps that write no record *)

\* A request moves to q and leaves every variable alone but the lock, the
\* user's set and the history.
LEMMA QuietKeeps ==
    ASSUME IInv, NEW r \in Requests, NEW q \in Request,
           req' = [req EXCEPT ![r] = q], Sane(q),
           UNCHANGED <<record, last, child, root>>,
           userSet' \subseteq 1..last, issued' \subseteq 1..last, cut' \subseteq 1..last,
           \A s \in cut' : record[s] # "valid",
           lock' \in [Sids -> Requests \cup {NoOne}],
           \A s \in Sids : lock'[s] = lock[s] \/ lock[s] = r \/ lock[s] = NoOne,
           ~SlowRequests =>
             /\ \A s \in Sids :
                  q.sid = s /\ q.pc \in Locked \cup {"smembers", "sweep"} => lock'[s] = r
             /\ q.pc \in {"create", "add", "save", "reply"} => child[q.sid] = {}
    PROVE  IInv'
<1> USE SessionsAssumption
<1>1. Monotone
  BY DEF Monotone, IInv, TypeOK, Known
<1>2. Sane(q)'
  BY <1>1, SaneKept DEF IInv
<1>3. root' \in [Sids -> Sids]
  BY DEF IInv, TypeOK
<1> QED BY <1>1, <1>2, <1>3, StepKeeps

\* The facts about a request r that every case below starts from.
LEMMA Standing ==
    ASSUME IInv, NEW r \in Requests
    PROVE  /\ last \in Nat /\ last <= MaxSessions /\ 1..last \subseteq Sids
           /\ req[r] \in Request /\ Sane(req[r])
           /\ userSet \subseteq 1..last /\ issued \subseteq 1..last /\ cut \subseteq 1..last
           /\ \A s \in cut : record[s] # "valid"
           /\ lock \in [Sids -> Requests \cup {NoOne}]
           /\ \A s \in Sids : ~SlowRequests /\ Holds(r, s) => lock[s] = r
           /\ ~SlowRequests /\ Pc(r) \in {"create", "add", "save", "reply"}
                => child[req[r].sid] = {}
<1>1. last \in Nat /\ last <= MaxSessions /\ 1..last \subseteq Sids
  BY SessionsAssumption DEF IInv, TypeOK, Sids
<1>2. req[r] \in Request /\ Sane(req[r]) /\ lock \in [Sids -> Requests \cup {NoOne}]
  BY DEF IInv, TypeOK, Request
<1>3. /\ userSet \subseteq 1..last /\ issued \subseteq 1..last /\ cut \subseteq 1..last
      /\ \A s \in cut : record[s] # "valid"
  BY DEF IInv, Known, Dead, SweptIsDead
<1>4. /\ \A s \in Sids : ~SlowRequests /\ Holds(r, s) => lock[s] = r
      /\ ~SlowRequests /\ Pc(r) \in {"create", "add", "save", "reply"}
           => child[req[r].sid] = {}
  BY DEF IInv, Exclusion
<1> QED BY <1>1, <1>2, <1>3, <1>4

\* Releasing a lock frees it only when the request still owns it.
LEMMA UnlockKeeps ==
    ASSUME IInv, NEW r \in Requests, NEW s \in Sids, Unlock(r, s)
    PROVE  /\ lock' \in [Sids -> Requests \cup {NoOne}]
           /\ \A t \in Sids : lock'[t] = lock[t] \/ lock[t] = r
BY DEF IInv, TypeOK, Unlock

\* A step of r that ends its request, in whatever way the lock is left.
LEMMA FreeKeeps ==
    ASSUME IInv, NEW r \in Requests, Goto(r, Free),
           UNCHANGED <<record, last, child, root>>,
           userSet' \subseteq 1..last, issued' \subseteq 1..last, cut' \subseteq 1..last,
           \A s \in cut' : record[s] # "valid",
           lock' \in [Sids -> Requests \cup {NoOne}],
           \A s \in Sids : lock'[s] = lock[s] \/ lock[s] = r
    PROVE  IInv'
<1>1. last \in Nat
  BY Standing
<1>2. Sane(Free)
  BY <1>1, FreeRequest DEF Sane, Locked
<1> QED BY <1>2, FreeRequest, QuietKeeps DEF Goto, Locked

\* Adding the new id to the user's set keeps the invariant.
LEMMA LoginAddKeeps == ASSUME IInv, NEW r \in Requests, LoginAdd(r) PROVE IInv'
<1>1. req[r].new \in 1..last
  BY Standing, SessionsAssumption DEF LoginAdd, Pc, Sane, Request
<1> QED BY <1>1, Standing, FreeKeeps DEF LoginAdd

\* Taking the lock of a presented session keeps the invariant: it was nobody's.
LEMMA RefreshKeeps ==
    ASSUME IInv, NEW r \in Requests, NEW s \in issued, Refresh(r, s)
    PROVE  IInv'
<1> DEFINE q == At("read", s, 0)
<1>1. s \in Sids /\ s \in 1..last /\ s \in 0..MaxSessions /\ "read" \in Steps
  BY Standing, SessionsAssumption DEF Sids, Steps, Locked
<1>2. /\ q \in Request /\ q.pc = "read" /\ q.sid = s /\ q.new = 0
      /\ q.todo = {} /\ q.seen = {}
  BY <1>1, AtRequest, SessionsAssumption
<1> HIDE DEF q
<1>3. Sane(q)
  BY <1>1, <1>2, Standing DEF Sane
<1>4. lock' \in [Sids -> Requests \cup {NoOne}] /\ lock'[s] = r
      /\ \A t \in Sids : lock'[t] = lock[t] \/ lock[t] = NoOne
  BY <1>1, Standing DEF Refresh
<1>5. req' = [req EXCEPT ![r] = q] /\ UNCHANGED <<record, last, userSet, issued, cut, child, root>>
  BY DEF Refresh, Goto, q, history
<1> QED BY <1>2, <1>3, <1>4, <1>5, Standing, QuietKeeps

\* The steps inside the critical section that only move the request.
LEMMA WithinKeeps ==
    ASSUME IInv, NEW r \in Requests, req[r].sid # 0, Pc(r) \in Locked \cup {"smembers", "sweep"},
           NEW pc \in Locked \cup {"smembers"}, NEW n \in 0..last,
           pc \in {"add", "save", "rollback", "reply"} => n # 0,
           pc # "reply",
           ~SlowRequests /\ pc \in {"create", "add", "save"} => child[req[r].sid] = {},
           Goto(r, At(pc, req[r].sid, n)),
           UNCHANGED <<record, last, lock, issued, child, root, cut>>,
           userSet' \subseteq 1..last
    PROVE  IInv'
<1> DEFINE q == At(pc, req[r].sid, n)
<1>1. /\ req[r].sid \in 0..MaxSessions /\ req[r].sid \in Sids /\ req[r].sid <= last
      /\ n \in 0..MaxSessions /\ n <= last /\ pc \in Steps
  BY Standing, SessionsAssumption DEF Request, Sane, Sids, Steps
<1>2. /\ q \in Request /\ q.pc = pc /\ q.sid = req[r].sid /\ q.new = n
      /\ q.todo = {} /\ q.seen = {}
  BY <1>1, AtRequest
<1> HIDE DEF q
<1>3. Sane(q)
  BY <1>1, <1>2 DEF Sane, Locked
<1>4. ~SlowRequests => lock[req[r].sid] = r
  BY <1>1, Standing DEF Holds
<1>5. req' = [req EXCEPT ![r] = q]
  BY DEF Goto, q
<1>6. ~SlowRequests /\ pc \in {"create", "add", "save", "reply"} => child[q.sid] = {}
  BY <1>2
<1> QED BY <1>2, <1>3, <1>4, <1>5, <1>6, Standing, QuietKeeps

\* The read under the lock keeps the invariant: a session found valid has no successor.
LEMMA ReadKeeps == ASSUME IInv, NEW r \in Requests, Read(r) PROVE IInv'
<1> DEFINE s == req[r].sid
<1>1. s # 0 /\ s \in Sids /\ Pc(r) \in Locked
  BY Standing, SessionsAssumption DEF Read, Pc, Sane, Request, Sids, Locked
<1>2. AfterRead(s) \in Locked \cup {"smembers"} /\ AfterRead(s) \in {"create", "smembers", "release"}
  BY DEF AfterRead, Locked
<1>3. AfterRead(s) = "create" => child[s] = {}
  BY <1>1 DEF AfterRead, IInv, Dead, RotatedIsDead
<1>4. UNCHANGED <<record, last, lock, issued, child, root, cut>> /\ userSet' = userSet
      /\ Goto(r, At(AfterRead(s), s, 0))
  BY DEF Read, history
<1>5. 0 \in 0..last
  BY Standing
<1> HIDE DEF s
<1> QED BY <1>1, <1>2, <1>3, <1>4, <1>5, Standing, WithinKeeps DEF s

\* Adding the successor to the user's set keeps the invariant.
LEMMA RefreshAddKeeps == ASSUME IInv, NEW r \in Requests, RefreshAdd(r) PROVE IInv'
<1>1. req[r].sid # 0 /\ Pc(r) \in Locked /\ req[r].new \in 1..last /\ req[r].new \in 0..last
  BY Standing, SessionsAssumption DEF RefreshAdd, Pc, Sane, Request, Locked
<1>2. ~SlowRequests => child[req[r].sid] = {}
  BY Standing DEF RefreshAdd
<1>3. UNCHANGED <<record, last, lock, issued, child, root, cut>> /\ userSet' \subseteq 1..last
      /\ Goto(r, At("save", req[r].sid, req[r].new)) /\ "save" \in Locked
  BY <1>1, Standing DEF RefreshAdd, history, Locked
<1> QED BY <1>1, <1>2, <1>3, WithinKeeps

\* The release that ends a refresh keeps the invariant.
LEMMA ReleaseKeeps == ASSUME IInv, NEW r \in Requests, Release(r) PROVE IInv'
<1>1. req[r].sid \in Sids
  BY Standing, SessionsAssumption DEF Release, Pc, Sane, Request, Sids, Locked
<1>2. UNCHANGED <<record, last, issued, child, root, cut>> /\ userSet' = userSet /\ Goto(r, Free)
  BY DEF Release, history
<1> QED BY <1>1, <1>2, Standing, UnlockKeeps, FreeKeeps DEF Release

\* A logout that finds its session keeps the invariant.
LEMMA LogoutKeeps ==
    ASSUME IInv, NEW r \in Requests, NEW s \in issued, Logout(r, s)
    PROVE  IInv'
<1> DEFINE q == At("logout", s, 0)
<1>1. s \in 1..last /\ s \in 0..MaxSessions /\ "logout" \in Steps
  BY Standing, SessionsAssumption DEF Sids, Steps
<1>2. /\ q \in Request /\ q.pc = "logout" /\ q.sid = s /\ q.new = 0
      /\ q.todo = {} /\ q.seen = {}
  BY <1>1, AtRequest, SessionsAssumption
<1> HIDE DEF q
<1>3. Sane(q)
  BY <1>1, <1>2, Standing DEF Sane
<1>4. req' = [req EXCEPT ![r] = q]
      /\ UNCHANGED <<record, last, lock, userSet, issued, cut, child, root>>
  BY DEF Logout, Goto, q, history
<1> QED BY <1>2, <1>3, <1>4, Standing, QuietKeeps DEF Locked

\* The start of a logout from all sessions keeps the invariant.
LEMMA LogoutAllKeeps ==
    ASSUME IInv, NEW r \in Requests, NEW s \in issued \cup {0}, LogoutAll(r, s)
    PROVE  IInv'
<1> DEFINE q == At("smembers", 0, s)
<1>1. s \in 0..last /\ s \in 0..MaxSessions /\ "smembers" \in Steps
  BY Standing, SessionsAssumption DEF Sids, Steps
<1>2. /\ q \in Request /\ q.pc = "smembers" /\ q.sid = 0 /\ q.new = s
      /\ q.todo = {} /\ q.seen = {}
  BY <1>1, AtRequest, SessionsAssumption
<1> HIDE DEF q
<1>3. Sane(q)
  BY <1>1, <1>2, Standing DEF Sane, Locked
<1>4. req' = [req EXCEPT ![r] = q]
      /\ UNCHANGED <<record, last, lock, userSet, issued, cut, child, root>>
  BY DEF LogoutAll, Goto, q, history
<1>5. \A t \in Sids : q.sid # t
  BY <1>2 DEF Sids
<1> QED BY <1>2, <1>3, <1>4, <1>5, Standing, QuietKeeps

\* The snapshot of the user's set keeps the invariant: it holds known ids only.
LEMMA SmembersKeeps == ASSUME IInv, NEW r \in Requests, Smembers(r) PROVE IInv'
<1> DEFINE q == [req[r] EXCEPT !.pc = "sweep", !.todo = userSet, !.seen = userSet]
<1>1. /\ q \in Request /\ q.pc = "sweep" /\ q.sid = req[r].sid /\ q.new = req[r].new
      /\ q.todo = userSet /\ q.seen = userSet
  BY Standing DEF Request, Steps
<1>2. req' = [req EXCEPT ![r] = q]
      /\ UNCHANGED <<record, last, lock, userSet, issued, cut, child, root>>
  BY DEF Smembers, Goto, history
<1> HIDE DEF q
<1>3. Sane(q)
  BY <1>1, Standing DEF Sane, Locked
<1>4. \A s \in Sids : ~SlowRequests /\ q.sid = s => lock[s] = r
  BY <1>1, Standing DEF Smembers, Holds
<1> QED BY <1>1, <1>2, <1>3, <1>4, Standing, QuietKeeps

\* The end of the sweep keeps the invariant: every id of the snapshot is dead.
LEMMA SweepDoneKeeps == ASSUME IInv, NEW r \in Requests, SweepDone(r) PROVE IInv'
<1>1. /\ UNCHANGED <<record, last, lock, userSet, issued, child, root>>
      /\ Pc(r) = "sweep" /\ req[r].todo = {}
  BY DEF SweepDone
<1>2. \A s \in req[r].seen : record[s] # "valid"
  BY <1>1, Standing DEF Sane
<1>3. req[r].seen \subseteq 1..last /\ req[r].seen \subseteq Sids
  BY Standing DEF Sane
<1>4. CASE req[r].sid # 0 /\ Goto(r, At("release", req[r].sid, 0)) /\ UNCHANGED cut
  <2>1. "release" \in Locked /\ 0 \in 0..last
    BY Standing DEF Locked
  <2> QED BY <1>1, <1>4, <2>1, Standing, WithinKeeps
<1>5. CASE /\ Usable(req[r].new) /\ UNCHANGED cut
           /\ Goto(r, [At("logout", req[r].new, 0) EXCEPT !.seen = req[r].seen])
  <2> DEFINE p == At("logout", req[r].new, 0)
             q == [p EXCEPT !.seen = req[r].seen]
  <2>1. req[r].new \in 1..last /\ req[r].new \in 0..MaxSessions /\ "logout" \in Steps
    BY <1>5, Standing, SessionsAssumption DEF Usable, Sids, Steps, Sane, Request
  <2>2. /\ p \in Request /\ p.pc = "logout" /\ p.sid = req[r].new /\ p.new = 0 /\ p.todo = {}
    BY <2>1, AtRequest, SessionsAssumption
  <2> HIDE DEF p
  <2>3. /\ q \in Request /\ q.pc = "logout" /\ q.sid = req[r].new /\ q.new = 0 /\ q.todo = {}
        /\ q.seen = req[r].seen
    BY <1>3, <2>2 DEF Request
  <2>4. req' = [req EXCEPT ![r] = q]
    BY <1>5 DEF Goto, p
  <2> HIDE DEF q
  <2>5. Sane(q)
    BY <1>2, <1>3, <2>1, <2>3, Standing DEF Sane
  <2> QED BY <1>1, <1>5, <2>3, <2>4, <2>5, Standing, QuietKeeps DEF Locked
<1>6. CASE Goto(r, Free) /\ cut' = cut \cup req[r].seen
  BY <1>1, <1>2, <1>3, <1>6, Standing, FreeKeeps
<1> QED BY <1>4, <1>5, <1>6 DEF SweepDone

\* A call that raises keeps the invariant, with or without the release that follows.
LEMMA FailKeeps == ASSUME IInv, NEW r \in Requests, Fail(r) PROVE IInv'
<1>1. UNCHANGED <<record, last, lock, issued, child, root, cut>>
  BY DEF Fail, history
<1>2. userSet' \subseteq 1..last
  BY Standing, SessionsAssumption DEF Fail, Pc, Sane, Request
<1>3. CASE /\ req[r].sid # 0 /\ Pc(r) \notin {"logout", "release", "reply"}
           /\ Goto(r, At("release", req[r].sid, 0))
  <2>1. Pc(r) \in Steps /\ Pc(r) \notin {"free", "save", "logout"}
    BY <1>3, Standing DEF Fail, Pc, Request
  <2>2. Pc(r) # "login_add"
    BY <1>3, Standing DEF Pc, Sane
  <2>3. Pc(r) \in Locked \cup {"smembers", "sweep"}
    BY <2>1, <2>2 DEF Steps
  <2>4. "release" \in Locked /\ 0 \in 0..last
    BY Standing DEF Locked
  <2> QED BY <1>1, <1>2, <1>3, <2>3, <2>4, WithinKeeps
<1>4. CASE Goto(r, Free)
  BY <1>1, <1>2, <1>4, Standing, FreeKeeps
<1> QED BY <1>3, <1>4 DEF Fail

\* A crash keeps the invariant: the lock is left to expire.
LEMMA CrashKeeps == ASSUME IInv, NEW r \in Requests, Crash(r) PROVE IInv'
<1>1. UNCHANGED <<record, last, lock, userSet, issued, child, root, cut>> /\ Goto(r, Free)
  BY DEF Crash, history
<1> QED BY <1>1, Standing, FreeKeeps

-----------------------------------------------------------------------------
(* The steps that write a record *)

\* A record other than a fresh one is written, and not as valid.
LEMMA WriteMonotone ==
    ASSUME IInv, NEW s \in 1..last, NEW v \in {"none", "revoked", "gone"}, Write(s, v),
           last' = last
    PROVE  Monotone /\ record'[s] = v /\ \A t \in Sids : t # s => record'[t] = record[t]
<1>1. last \in Nat /\ last <= MaxSessions /\ s \in Sids /\ last \in 0..MaxSessions
  BY SessionsAssumption DEF IInv, TypeOK, Sids
<1>2. /\ record' \in [Sids -> {"none", "valid", "revoked", "gone"}] /\ record'[s] = v
      /\ \A t \in Sids : t # s => record'[t] = record[t]
  BY <1>1 DEF Write, IInv, TypeOK
<1>3. \A t \in Sids : t > last => record'[t] = "none"
  BY <1>1, <1>2 DEF IInv, Known
<1>4. \A t \in 1..last : record'[t] = "valid" => record[t] = "valid"
  <2>1. 1..last \subseteq Sids
    BY <1>1, SessionsAssumption DEF Sids
  <2> QED BY <1>2, <2>1
<1>5. last <= last' /\ last' \in 0..MaxSessions /\ \A t \in Sids : t > last' => record'[t] = "none"
  BY <1>1, <1>3
<1> QED BY <1>2, <1>4, <1>5 DEF Monotone

\* Request r writes the record of s as revoked and moves on to q, within the
\* critical section or out of it.
Revokes(r, s, q) ==
    /\ Write(s, "revoked")
    /\ req' = [req EXCEPT ![r] = q]
    /\ q.sid <= last /\ q.new <= last /\ q.todo = {} /\ q.seen = {}
    /\ q.pc \in {"reply", "rollback", "release", "free"}
    /\ q.pc # "free" => q.sid # 0 /\ q.sid = req[r].sid /\ Pc(r) \in Locked
    /\ q.pc \in {"rollback", "reply"} => q.new # 0
    /\ q.pc = "reply" => q.sid = s
    /\ ~SlowRequests /\ q.pc = "reply" => child[q.sid] = {}
    /\ UNCHANGED <<userSet, last, lock, issued, child, root>>
    /\ cut' \subseteq 1..last
    /\ \A t \in cut' : record[t] # "valid"

\* Revoking a record known to exist keeps the invariant.
LEMMA RevokeKeeps ==
    ASSUME IInv, NEW r \in Requests, NEW s \in 1..last, NEW q \in Request, Revokes(r, s, q)
    PROVE  IInv'
<1>1. Monotone /\ record'[s] = "revoked" /\ \A t \in Sids : t # s => record'[t] = record[t]
  BY WriteMonotone DEF Revokes
<1>2. Sane(q)'
  BY <1>1 DEF Sane, Locked, Revokes
<1>3. \A t \in cut' : record'[t] # "valid"
  BY <1>1, Standing DEF Revokes
<1>4. ~SlowRequests =>
        /\ \A t \in Sids :
             q.sid = t /\ q.pc \in Locked \cup {"smembers", "sweep"} => lock'[t] = r
        /\ q.pc \in {"create", "add", "save", "reply"} => child[q.sid] = {}
  BY Standing DEF Holds, Locked, Revokes
<1>5. /\ root' \in [Sids -> Sids] /\ child' = child /\ req' = [req EXCEPT ![r] = q]
      /\ userSet' \subseteq 1..last' /\ issued' \subseteq 1..last' /\ cut' \subseteq 1..last'
      /\ lock' \in [Sids -> Requests \cup {NoOne}]
      /\ \A t \in Sids : lock'[t] = lock[t]
  BY Standing DEF IInv, TypeOK, Revokes
<1> QED BY <1>1, <1>2, <1>3, <1>4, <1>5, StepKeeps

\* Saving the rotated session as revoked keeps the invariant.
LEMMA RefreshSaveKeeps == ASSUME IInv, NEW r \in Requests, RefreshSave(r) PROVE IInv'
<1> DEFINE q == At("reply", req[r].sid, req[r].new)
<1>1. /\ req[r].sid \in 1..last /\ req[r].sid \in 0..MaxSessions /\ Pc(r) \in Locked
      /\ req[r].new \in 1..last /\ req[r].new \in 0..MaxSessions /\ "reply" \in Steps
      /\ last \in Nat
  BY Standing, SessionsAssumption DEF RefreshSave, Pc, Sane, Request, Locked, Steps
<1>2. /\ q \in Request /\ q.pc = "reply" /\ q.sid = req[r].sid /\ q.new = req[r].new
      /\ q.todo = {} /\ q.seen = {}
  BY <1>1, AtRequest
<1>3. req' = [req EXCEPT ![r] = q] /\ Write(req[r].sid, "revoked")
      /\ UNCHANGED <<userSet, last, lock, issued, child, root, cut>>
  BY DEF RefreshSave, Goto, history
<1>4. ~SlowRequests => child[q.sid] = {}
  BY <1>2, Standing DEF RefreshSave
<1> HIDE DEF q
<1>5. Revokes(r, req[r].sid, q)
  BY <1>1, <1>2, <1>3, <1>4, Standing DEF Revokes
<1> QED BY <1>1, <1>2, <1>5, RevokeKeeps

\* A save that raises, done or not, keeps the invariant.
LEMMA RefreshSaveFailsKeeps == ASSUME IInv, NEW r \in Requests, RefreshSaveFails(r) PROVE IInv'
<1> DEFINE q == At("rollback", req[r].sid, req[r].new)
<1>1. /\ req[r].sid \in 1..last /\ req[r].sid \in 0..MaxSessions /\ Pc(r) \in Locked
      /\ req[r].new \in 1..last /\ req[r].new \in 0..MaxSessions /\ "rollback" \in Steps
      /\ req[r].new \in 0..last /\ last \in Nat
  BY Standing, SessionsAssumption DEF RefreshSaveFails, Pc, Sane, Request, Locked, Steps
<1>2. /\ q \in Request /\ q.pc = "rollback" /\ q.sid = req[r].sid /\ q.new = req[r].new
      /\ q.todo = {} /\ q.seen = {}
  BY <1>1, AtRequest
<1>3. req' = [req EXCEPT ![r] = q] /\ Goto(r, q)
      /\ UNCHANGED <<userSet, last, lock, issued, child, root, cut>>
  BY DEF RefreshSaveFails, Goto, history
<1>4. CASE UNCHANGED record
  <2>1. "rollback" \in Locked
    BY DEF Locked
  <2> QED BY <1>1, <1>3, <1>4, <2>1, Standing, WithinKeeps
<1>5. CASE Write(req[r].sid, "revoked")
  <2> HIDE DEF q
  <2>1. Revokes(r, req[r].sid, q)
    BY <1>1, <1>2, <1>3, <1>5, Standing DEF Revokes
  <2> QED BY <1>1, <1>2, <2>1, RevokeKeeps
<1> QED BY <1>4, <1>5 DEF RefreshSaveFails

\* Revoking the successor after a failed save keeps the invariant.
LEMMA RollbackKeeps == ASSUME IInv, NEW r \in Requests, Rollback(r) PROVE IInv'
<1> DEFINE q == At("release", req[r].sid, 0)
<1>1. /\ req[r].sid \in 1..last /\ req[r].sid \in 0..MaxSessions /\ Pc(r) \in Locked
      /\ req[r].new \in 1..last /\ "release" \in Steps /\ last \in Nat
  BY Standing, SessionsAssumption DEF Rollback, Pc, Sane, Request, Locked, Steps
<1>2. /\ q \in Request /\ q.pc = "release" /\ q.sid = req[r].sid /\ q.new = 0
      /\ q.todo = {} /\ q.seen = {}
  BY <1>1, AtRequest, SessionsAssumption
<1>3. req' = [req EXCEPT ![r] = q] /\ Write(req[r].new, "revoked")
      /\ UNCHANGED <<userSet, last, lock, issued, child, root, cut>>
  BY DEF Rollback, Goto, history
<1> HIDE DEF q
<1>4. Revokes(r, req[r].new, q)
  BY <1>1, <1>2, <1>3, Standing DEF Revokes
<1> QED BY <1>1, <1>2, <1>4, RevokeKeeps

\* Saving the logged-out session as revoked keeps the invariant.
LEMMA LogoutSaveKeeps == ASSUME IInv, NEW r \in Requests, LogoutSave(r) PROVE IInv'
<1>1. /\ req[r].sid \in 1..last /\ last \in Nat
      /\ req[r].seen \subseteq 1..last
  BY Standing, SessionsAssumption DEF LogoutSave, Pc, Sane, Request
<1>2. \A s \in cut' : record[s] # "valid"
  BY Standing DEF LogoutSave, Pc, Sane
<1>3. req' = [req EXCEPT ![r] = Free] /\ Write(req[r].sid, "revoked")
      /\ UNCHANGED <<userSet, last, lock, issued, child, root>> /\ cut' \subseteq 1..last
  BY <1>1, Standing DEF LogoutSave, Goto, history
<1>4. Revokes(r, req[r].sid, Free)
  BY <1>1, <1>2, <1>3, FreeRequest DEF Revokes
<1> QED BY <1>1, <1>4, FreeRequest, RevokeKeeps

\* Revoking one id of the snapshot keeps the invariant.
LEMMA SweepKeeps ==
    ASSUME IInv, NEW r \in Requests, NEW s \in Sids, Sweep(r, s)
    PROVE  IInv'
<1>0. PICK q \in Request : q = [req[r] EXCEPT !.todo = @ \ {s}]
  BY Standing DEF Request
<1>1. /\ s \in 1..last /\ Swept(s) \in {"none", "revoked", "gone"} /\ Write(s, Swept(s))
      /\ last' = last
  BY Standing DEF Sweep, Sane, Swept
<1>2. Monotone /\ record'[s] # "valid" /\ \A t \in Sids : t # s => record'[t] = record[t]
  BY <1>1, WriteMonotone
<1>3. /\ q \in Request /\ q.pc = "sweep" /\ q.sid = req[r].sid /\ q.new = req[r].new
      /\ q.todo = req[r].todo \ {s} /\ q.seen = req[r].seen
  BY <1>0, Standing DEF Sweep, Pc, Request
<1>4. req' = [req EXCEPT ![r] = q]
  BY <1>0 DEF Sweep, IInv, TypeOK
<1>5. Sane(q)'
  <2>1. \A t \in q.seen \ q.todo : record'[t] # "valid"
    BY <1>2, <1>3, Standing DEF Sane, Request
  <2>2. /\ q.sid <= last' /\ q.new <= last'
        /\ q.todo \subseteq 1..last' /\ q.seen \subseteq 1..last'
    BY <1>1, <1>3, Standing DEF Sane
  <2> QED BY <1>3, <2>1, <2>2 DEF Sane, Locked
<1>6. \A t \in cut' : record'[t] # "valid"
  BY <1>2, Standing DEF Sweep, history
<1>7. \A t \in Sids : ~SlowRequests /\ q.sid = t => lock'[t] = r
  <2>1. lock' = lock /\ Pc(r) = "sweep"
    BY DEF Sweep
  <2>2. \A t \in Sids : q.sid = t => Holds(r, t)
    BY <1>3, <2>1 DEF Holds
  <2> QED BY <2>1, <2>2, Standing
<1>8. /\ root' \in [Sids -> Sids] /\ child' = child
      /\ userSet' \subseteq 1..last' /\ issued' \subseteq 1..last' /\ cut' \subseteq 1..last'
      /\ lock' \in [Sids -> Requests \cup {NoOne}]
      /\ \A t \in Sids : lock'[t] = lock[t]
  BY Standing DEF IInv, TypeOK, Sweep, history
<1>9. q.pc \notin {"create", "add", "save", "reply"}
  BY <1>3
<1> QED BY <1>2, <1>3, <1>4, <1>5, <1>6, <1>7, <1>8, <1>9, StepKeeps

\* create_refresh_session writes a valid record, under a fresh id.
LEMMA CreateKeeps ==
    ASSUME IInv, NEW r \in Requests, NEW pc \in {"login_add", "add"}, NEW s \in 0..last,
           Create(r, pc, s),
           pc = "login_add" <=> s = 0,
           pc = "add" => Pc(r) = "create" /\ s = req[r].sid
    PROVE  IInv'
<1> DEFINE n == last + 1
<1>1. /\ last \in Nat /\ n \in Sids /\ n \in 0..MaxSessions /\ s \in 0..MaxSessions
      /\ pc \in Steps /\ last' = n /\ n > last
  BY Standing, SessionsAssumption DEF Create, Sids, Steps, Locked
<1>2. /\ record' \in [Sids -> {"none", "valid", "revoked", "gone"}]
      /\ \A t \in Sids : t # n => record'[t] = record[t]
  BY <1>1 DEF Create, Write, IInv, TypeOK
<1>3. Monotone
  <2>1. \A t \in 1..last : t \in Sids /\ t # n
    BY Standing
  <2>2. \A t \in Sids : t > n => record'[t] = "none"
    BY <1>1, <1>2 DEF IInv, Known, Sids
  <2> QED BY <1>1, <1>2, <2>1, <2>2 DEF Monotone
<1>0. PICK q \in Request : q = At(pc, s, n)
  BY <1>1, AtRequest
<1>4. /\ q \in Request /\ q.pc = pc /\ q.sid = s /\ q.new = n
      /\ q.todo = {} /\ q.seen = {}
  BY <1>0, <1>1, AtRequest
<1>5. /\ req' = [req EXCEPT ![r] = q]
      /\ UNCHANGED <<userSet, lock, issued, child, cut>>
  BY <1>0 DEF Create, Goto
<1>6. root' \in [Sids -> Sids]
  <2>1. (IF s = 0 THEN n ELSE root[s]) \in Sids
    BY <1>1 DEF IInv, TypeOK, Sids
  <2> QED BY <1>1, <2>1 DEF Create, IInv, TypeOK
<1> HIDE DEF n
<1>7. Sane(q)'
  <2>1. q.sid <= last' /\ q.new <= last' /\ q.new # 0
    BY <1>1, <1>4 DEF n
  <2> QED BY <1>4, <2>1 DEF Sane, Locked
<1>8. \A t \in cut' : record'[t] # "valid"
  BY <1>1, <1>3, <1>5, Standing DEF Monotone
<1>9. ~SlowRequests =>
        /\ \A t \in Sids :
             q.sid = t /\ q.pc \in Locked \cup {"smembers", "sweep"} => lock'[t] = r
        /\ q.pc \in {"create", "add", "save", "reply"} => child[q.sid] = {}
  BY <1>4, <1>5, Standing DEF Holds, Locked
<1>10. /\ userSet' \subseteq 1..last' /\ issued' \subseteq 1..last' /\ cut' \subseteq 1..last'
       /\ lock' \in [Sids -> Requests \cup {NoOne}]
       /\ \A t \in Sids : lock'[t] = lock[t]
  BY <1>1, <1>5, Standing
<1> QED BY <1>3, <1>4, <1>5, <1>6, <1>7, <1>8, <1>9, <1>10, StepKeeps

\* Creating a session at login keeps the invariant.
LEMMA LoginKeeps == ASSUME IInv, NEW r \in Requests, Login(r) PROVE IInv'
BY Standing, CreateKeeps DEF Login

\* Creating the successor under the lock keeps the invariant.
LEMMA RefreshCreateKeeps == ASSUME IInv, NEW r \in Requests, RefreshCreate(r) PROVE IInv'
<1>1. req[r].sid \in 0..last /\ req[r].sid # 0
  BY Standing DEF RefreshCreate, Pc, Sane, Request, Locked
<1> QED BY <1>1, CreateKeeps DEF RefreshCreate

-----------------------------------------------------------------------------
(* Handing out the successor, and the passing of time *)

\* The holder replies: the session it rotated had no successor.
LEMMA RefreshReplyKeeps == ASSUME IInv, NEW r \in Requests, RefreshReply(r) PROVE IInv'
<1> DEFINE s == req[r].sid
           n == req[r].new
<1>1. /\ s \in Sids /\ s \in 1..last /\ n \in Sids /\ n \in 1..last /\ record[s] # "valid"
      /\ last \in Nat /\ Pc(r) = "reply"
  BY Standing, SessionsAssumption DEF RefreshReply, Pc, Sane, Request, Sids, Locked
<1>2. /\ UNCHANGED <<record, userSet, last, root, cut>> /\ req' = [req EXCEPT ![r] = Free]
      /\ issued' = issued \cup {n} /\ child' = [child EXCEPT ![s] = @ \cup {n}]
      /\ Unlock(r, s)
  BY DEF RefreshReply, Goto
<1>3. /\ child' \in [Sids -> SUBSET Sids] /\ child'[s] = child[s] \cup {n}
      /\ \A t \in Sids : t # s => child'[t] = child[t]
  BY <1>1, <1>2 DEF IInv, TypeOK
<1>4. ~SlowRequests => child[s] = {} /\ lock[s] = r
  BY <1>1, Standing DEF Holds, Locked
<1>5. lock' \in [Sids -> Requests \cup {NoOne}] /\ \A t \in Sids : lock'[t] = lock[t] \/ lock[t] = r
  BY <1>1, <1>2, UnlockKeeps
<1>6. Monotone
  BY <1>2, SessionsAssumption DEF Monotone, IInv, TypeOK, Known
<1>7. Sane(Free)'
  BY <1>1, <1>2, FreeRequest DEF Sane, Locked
<1>8. /\ req' \in [Requests -> Request] /\ req'[r] = Free
      /\ \A x \in Requests : x # r => req'[x] = req[x]
      /\ \A x \in Requests : Sane(req[x])'
  BY <1>2, <1>6, <1>7, FreeRequest, Moved
<1> HIDE DEF s, n
<1>9. TypeOK'
  BY <1>1, <1>2, <1>3, <1>5, <1>8 DEF IInv, TypeOK, Request
<1>10. Known'
  BY <1>1, <1>2, <1>3 DEF IInv, Known
<1>11. Dead'
  BY <1>1, <1>2, <1>3 DEF IInv, Dead, RotatedIsDead, SweptIsDead
<1>12. Exclusion'
  <2> SUFFICES ASSUME ~SlowRequests PROVE Exclusion'
    BY DEF Exclusion
  <2>1. ASSUME NEW x \in Requests, NEW t \in Sids, Holds(x, t)' PROVE lock'[t] = x
    <3>1. x # r
      BY <1>8, <2>1, FreeRequest DEF Holds, Pc, Locked
    <3>2. lock[t] = x
      BY <1>8, <2>1, <3>1 DEF IInv, Exclusion, Holds, Pc
    <3> QED BY <1>5, <3>1, <3>2
  <2>2. ASSUME NEW x \in Requests, Pc(x)' \in {"create", "add", "save", "reply"}
        PROVE  child'[req'[x].sid] = {}
    <3>1. x # r /\ req'[x] = req[x]
      BY <1>8, <2>2, FreeRequest DEF Pc
    <3>0. Pc(x) \in {"create", "add", "save", "reply"} /\ Pc(x) \in Locked
      BY <2>2, <3>1 DEF Pc, Locked
    <3>2. req[x].sid \in Sids /\ child[req[x].sid] = {} /\ Holds(x, req[x].sid)
      <4>1. req[x] \in Request /\ Sane(req[x]) /\ child[req[x].sid] = {}
        BY <3>0, Standing
      <4>2. req[x].sid # 0 /\ Holds(x, req[x].sid)
        BY <3>0, <4>1 DEF Sane, Pc, Holds
      <4> QED BY <4>1, <4>2, SessionsAssumption DEF Request, Sids
    <3>3. req[x].sid # s
      BY <1>4, <3>1, <3>2, Standing
    <3> QED BY <1>3, <3>1, <3>2, <3>3
  <2>3. ASSUME NEW t \in Sids PROVE \A a, b \in child'[t] : a = b
    BY <1>3, <1>4 DEF IInv, Exclusion
  <2> QED BY <2>1, <2>2, <2>3 DEF Exclusion
<1> QED BY <1>8, <1>9, <1>10, <1>11, <1>12 DEF IInv

\* The lock's expiry keeps the invariant: it frees only what no punctual request holds.
LEMMA LockExpiresKeeps ==
    ASSUME IInv, NEW s \in Sids, LockExpires(s)
    PROVE  IInv'
<1>1. /\ UNCHANGED <<record, userSet, last, req, issued, child, root, cut>>
      /\ lock' = [lock EXCEPT ![s] = NoOne]
  BY DEF LockExpires, history
<1>2. TypeOK'
  BY <1>1 DEF IInv, TypeOK
<1>3. Known' /\ Dead' /\ \A r \in Requests : Sane(req[r])'
  BY <1>1 DEF IInv, Known, Dead, RotatedIsDead, SweptIsDead, Sane
<1>4. Exclusion'
  <2> SUFFICES ASSUME ~SlowRequests PROVE Exclusion'
    BY DEF Exclusion
  <2>1. ASSUME NEW r \in Requests, NEW t \in Sids, Holds(r, t)' PROVE lock'[t] = r
    <3>1. Holds(r, t)
      BY <1>1, <2>1 DEF Holds, Pc
    <3>2. lock[t] = r
      BY <3>1 DEF IInv, Exclusion
    <3>3. t # s
      BY <3>1, <3>2 DEF LockExpires
    <3> QED BY <1>1, <3>2, <3>3 DEF IInv, TypeOK
  <2> QED BY <1>1, <2>1 DEF IInv, Exclusion, Pc
<1> QED BY <1>2, <1>3, <1>4 DEF IInv

\* The record's expiry keeps the invariant: nothing becomes valid.
LEMMA RecordExpiresKeeps ==
    ASSUME IInv, NEW s \in Sids, RecordExpires(s)
    PROVE  IInv'
<1>1. /\ UNCHANGED <<userSet, last, lock, req, issued, child, root, cut>>
      /\ Write(s, "gone") \/ Write(s, "revoked")
  BY DEF RecordExpires, history
<1>2. s \in 1..last
  BY SessionsAssumption DEF RecordExpires, IInv, Known, TypeOK, Sids
<1>3. Monotone /\ \A t \in Sids : record'[t] = "valid" => record[t] = "valid"
  BY <1>1, <1>2, WriteMonotone
<1>4. TypeOK'
  BY <1>1, <1>3 DEF IInv, TypeOK, Monotone
<1>5. Known'
  BY <1>1, <1>3 DEF IInv, Known, Monotone
<1>6. Dead'
  BY <1>1, <1>3 DEF IInv, TypeOK, Dead, RotatedIsDead, SweptIsDead
<1>7. \A r \in Requests : Sane(req[r])'
  <2> TAKE r \in Requests
  <2>1. req[r] \in Request /\ Sane(req[r]) /\ req'[r] = req[r]
    BY <1>1, Standing
  <2> QED BY <1>3, <2>1, SaneKept DEF IInv
<1>8. Exclusion'
  BY <1>1 DEF IInv, Exclusion, Holds, Pc
<1> QED BY <1>4, <1>5, <1>6, <1>7, <1>8 DEF IInv

-----------------------------------------------------------------------------
(* The invariant *)

\* The invariant holds before any login.
LEMMA InitIInv == Init => IInv
<1> SUFFICES ASSUME Init PROVE IInv
  OBVIOUS
<1> USE SessionsAssumption DEF Init
<1>1. \A r \in Requests : req[r] = Free
  OBVIOUS
<1>2. TypeOK
  BY FreeRequest DEF TypeOK, Request, Sids
<1>3. Known /\ Dead
  BY DEF Known, Dead, RotatedIsDead, SweptIsDead
<1>4. \A r \in Requests : Sane(req[r])
  BY <1>1, FreeRequest DEF Sane, Locked
<1>5. Exclusion
  <2>1. \A r \in Requests : ~(Pc(r) \in Locked \cup {"smembers", "sweep"})
    BY <1>1, FreeRequest DEF Pc, Locked
  <2> QED BY <2>1 DEF Exclusion, Holds, Locked
<1> QED BY <1>2, <1>3, <1>4, <1>5 DEF IInv

\* Every step keeps the invariant.
LEMMA NextIInv == IInv /\ [Next]_vars => IInv'
<1> SUFFICES ASSUME IInv, [Next]_vars PROVE IInv'
  OBVIOUS
<1>1. CASE UNCHANGED vars
  BY <1>1 DEF vars, IInv, TypeOK, Known, Dead, RotatedIsDead, SweptIsDead, Sane,
              Exclusion, Holds, Pc
<1>2. ASSUME NEW r \in Requests, Login(r) \/ Present(r) PROVE IInv'
  <2>1. CASE Login(r)
    BY <2>1, LoginKeeps
  <2>2. ASSUME NEW s \in issued, Refresh(r, s) \/ Logout(r, s) PROVE IInv'
    BY <2>2, RefreshKeeps, LogoutKeeps
  <2>3. ASSUME NEW s \in issued \cup {0}, LogoutAll(r, s) PROVE IInv'
    BY <2>3, LogoutAllKeeps
  <2> QED BY <1>2, <2>1, <2>2, <2>3 DEF Present
<1>3. ASSUME NEW r \in Requests, Proceed(r) PROVE IInv'
  <2>1. CASE LoginAdd(r) \/ Read(r) \/ RefreshCreate(r) \/ RefreshAdd(r)
    BY <2>1, LoginAddKeeps, ReadKeeps, RefreshCreateKeeps, RefreshAddKeeps
  <2>2. CASE RefreshSave(r) \/ RefreshSaveFails(r) \/ Rollback(r)
    BY <2>2, RefreshSaveKeeps, RefreshSaveFailsKeeps, RollbackKeeps
  <2>3. CASE Release(r) \/ RefreshReply(r)
    BY <2>3, ReleaseKeeps, RefreshReplyKeeps
  <2>4. CASE LogoutSave(r) \/ Smembers(r) \/ SweepDone(r)
    BY <2>4, LogoutSaveKeeps, SmembersKeeps, SweepDoneKeeps
  <2>5. ASSUME NEW s \in Sids, Sweep(r, s) PROVE IInv'
    BY <2>5, SweepKeeps
  <2>6. CASE Fail(r)
    BY <2>6, FailKeeps
  <2> QED BY <1>3, <2>1, <2>2, <2>3, <2>4, <2>5, <2>6 DEF Proceed
<1>4. ASSUME NEW r \in Requests, Fail(r) \/ Crash(r) PROVE IInv'
  BY <1>4, FailKeeps, CrashKeeps
<1>5. ASSUME NEW s \in Sids, LockExpires(s) \/ RecordExpires(s) PROVE IInv'
  BY <1>5, LockExpiresKeeps, RecordExpiresKeeps
<1> QED BY <1>1, <1>2, <1>3, <1>4, <1>5 DEF Next

\* The inductive invariant holds in every reachable state.
THEOREM Invariance == Spec => []IInv
<1>1. Init => IInv
  BY InitIInv
<1>2. IInv /\ [Next]_vars => IInv'
  BY NextIInv
<1> QED BY <1>1, <1>2, PTL DEF Spec

\* Every variable keeps its type.
THEOREM TypeCorrect == Spec => []TypeOK
<1>1. IInv => TypeOK
  BY DEF IInv
<1> QED BY <1>1, Invariance, PTL

\* A session whose successor a client holds is dead, whatever saves, sweeps
\* and failures were under way, and even when requests outlive their locks.
THEOREM Rotated == Spec => []RotatedIsDead
<1>1. IInv => RotatedIsDead
  BY DEF IInv, Dead
<1> QED BY <1>1, Invariance, PTL

\* What a completed logout-all found in the user's set is dead for good.
THEOREM SweptStaysDead == Spec => []SweptIsDead
<1>1. IInv => SweptIsDead
  BY DEF IInv, Dead
<1> QED BY <1>1, Invariance, PTL

\* A refresh token is exchanged at most once, however many requests present
\* it, as long as none outlives its lock.
THEOREM OneSuccessor == Spec => []SingleSuccessor
<1>1. IInv => SingleSuccessor
  <2> SUFFICES ASSUME IInv, ~SlowRequests, NEW s \in Sids PROVE Cardinality(child[s]) <= 1
    BY DEF SingleSuccessor
  <2>1. \A a, b \in child[s] : a = b
    BY DEF IInv, Exclusion
  <2>2. CASE child[s] = {}
    BY <2>2, FS_EmptySet
  <2>3. CASE child[s] # {}
    <3>1. PICK a \in child[s] : TRUE
      BY <2>3
    <3>2. child[s] = {a}
      BY <2>1, <3>1
    <3>3. Cardinality({a}) = 1
      BY FS_Singleton
    <3> QED BY <3>2, <3>3
  <2> QED BY <2>2, <2>3
<1> QED BY <1>1, Invariance, PTL

-----------------------------------------------------------------------------
(* Nothing dead comes back *)

\* What a step may do to the records.
NoRevival == \A s \in Sids : record[s] \in {"revoked", "gone"} => record'[s] # "valid"

\* Writing anything but a valid record revives nothing.
LEMMA WriteNoRevival ==
    ASSUME IInv, NEW s, NEW v \in {"none", "revoked", "gone"}, Write(s, v)
    PROVE  NoRevival
BY DEF IInv, TypeOK, Write, NoRevival

\* A record is created valid under a fresh id, so creation revives nothing.
LEMMA CreateNoRevival ==
    ASSUME IInv, NEW r \in Requests, NEW pc, NEW s, Create(r, pc, s)
    PROVE  NoRevival
<1>1. /\ last + 1 \in Sids /\ last \in Nat /\ Write(last + 1, "valid")
  BY SessionsAssumption DEF IInv, TypeOK, Create, Sids
<1>2. record[last + 1] = "none"
  BY <1>1 DEF IInv, Known
<1> QED BY <1>1, <1>2 DEF IInv, TypeOK, Write, NoRevival

\* No step makes a revoked or removed record valid.
LEMMA NextNoRevival == IInv /\ [Next]_vars => NoRevival
<1> SUFFICES ASSUME IInv, [Next]_vars PROVE NoRevival
  OBVIOUS
<1>1. CASE UNCHANGED record
  BY <1>1 DEF NoRevival
<1>2. ASSUME NEW r \in Requests, Login(r) \/ RefreshCreate(r) PROVE NoRevival
  BY <1>2, CreateNoRevival DEF Login, RefreshCreate
<1>3. ASSUME NEW r \in Requests,
             RefreshSave(r) \/ RefreshSaveFails(r) \/ Rollback(r) \/ LogoutSave(r)
      PROVE  NoRevival
  BY <1>1, <1>3, WriteNoRevival DEF RefreshSave, RefreshSaveFails, Rollback, LogoutSave
<1>4. ASSUME NEW r \in Requests, NEW s \in Sids, Sweep(r, s) PROVE NoRevival
  <2>1. Swept(s) \in {"none", "revoked", "gone"}
    BY DEF Swept
  <2> QED BY <1>4, <2>1, WriteNoRevival DEF Sweep
<1>5. ASSUME NEW s \in Sids, RecordExpires(s) PROVE NoRevival
  BY <1>5, WriteNoRevival DEF RecordExpires
<1>6. ASSUME NEW r \in Requests,
             \/ LoginAdd(r) \/ Read(r) \/ RefreshAdd(r) \/ Release(r) \/ RefreshReply(r)
             \/ Smembers(r) \/ SweepDone(r) \/ Fail(r) \/ Crash(r) \/ Present(r)
      PROVE  UNCHANGED record
  BY <1>6 DEF LoginAdd, Read, RefreshAdd, Release, RefreshReply, Smembers, SweepDone,
              Fail, Crash, Present, Refresh, Logout, LogoutAll
<1>7. ASSUME NEW s \in Sids, LockExpires(s) PROVE UNCHANGED record
  BY <1>7 DEF LockExpires
<1>8. CASE UNCHANGED vars
  BY <1>1, <1>8 DEF vars
<1>9. ASSUME NEW r \in Requests, Proceed(r) PROVE NoRevival
  BY <1>1, <1>2, <1>3, <1>4, <1>6, <1>9 DEF Proceed
<1> QED BY <1>1, <1>2, <1>5, <1>6, <1>7, <1>8, <1>9 DEF Next

\* No step brings a revoked or expired session back to life: stale copies
\* are only ever written as revoked, and new records only under fresh ids.
THEOREM Irrevocable == Spec => NeverRevalidated
<1>1. IInv /\ [Next]_vars =>
        [\A s \in Sids : record[s] \in {"revoked", "gone"} => record'[s] # "valid"]_vars
  BY NextNoRevival DEF NoRevival
<1> QED BY <1>1, Invariance, PTL DEF Spec, NeverRevalidated

-----------------------------------------------------------------------------
(* Logout-all, when requests do not overlap *)

\* No completed logout-all saw a session of the login that s descends from.
Clear(s, ct, rt) == \A c \in ct : rt[c] # rt[s]

\* What the only request, in state q, relies on: the session it rotates was
\* not logged out, the one it created is in the user's set before anybody gets
\* it, and revoke_all saw every session that a client holds.
Lone(q, is, us, ct, rt) ==
    /\ q.pc = "read" => q.sid \in is
    /\ q.pc = "create" => Clear(q.sid, ct, rt)
    /\ q.pc \in {"login_add", "add", "save", "reply"} => Clear(q.new, ct, rt)
    /\ q.pc \in {"save", "reply"} => q.new \in us
    /\ q.seen # {} => is \subseteq q.seen

\* What clients hold is in the set, sessions descend from older ones, and what
\* works was not logged out.
Orderly(rec, is, us, ct, rt) ==
    /\ is \subseteq us
    /\ \A s \in Sids : rt[s] <= s
    /\ \A s \in is : rec[s] = "valid" => Clear(s, ct, rt)

SoloSessionInv ==
    /\ IInv
    /\ solo =>
        /\ \A q, r \in Requests : Pc(q) # "free" /\ Pc(r) # "free" => q = r
        /\ \A r \in Requests : Pc(r) # "free" => Lone(req[r], issued, userSet, cut, root)
        /\ Orderly(record, issued, userSet, cut, root)

\* Nothing that a client holds comes back to life.
Fading == \A s \in issued : record'[s] = "valid" => record[s] = "valid"

\* Records that lapse and ids that join the set leave everything in order.
LEMMA OrderlyFades ==
    ASSUME Orderly(record, issued, userSet, cut, root), Fading, userSet \subseteq userSet',
           UNCHANGED <<issued, cut, root>>
    PROVE  Orderly(record', issued', userSet', cut', root')
  BY DEF Orderly, Fading

\* Writing anything but a valid record revives nothing.
LEMMA WriteFades ==
    ASSUME IInv, NEW s, NEW v, v # "valid", Write(s, v) PROVE Fading
  BY DEF IInv, TypeOK, Write, Fading

\* A request that carries nothing any more.
LEMMA IdleIsLone ==
    ASSUME NEW q, q.pc \in {"free", "release", "rollback", "logout", "smembers"}, q.seen = {},
           NEW is, NEW us, NEW ct, NEW rt
    PROVE  Lone(q, is, us, ct, rt)
  BY DEF Lone

\* The fields of a request that has not read the set.
LEMMA AtIs ==
    ASSUME NEW pc, NEW s, NEW n
    PROVE  At(pc, s, n).pc = pc /\ At(pc, s, n).sid = s /\ At(pc, s, n).new = n /\ At(pc, s, n).seen = {}
  BY DEF At

\* A free request carries nothing.
LEMMA FreeIs == Free.pc = "free" /\ Free.seen = {}
  BY AtIs DEF Free

\* The effect of a step of request r, when r is the only one.
Moves(r) ==
    /\ \E q : /\ req' = [req EXCEPT ![r] = q]
              /\ Pc(r) # "free" \/ q.pc # "free"
              /\ Lone(q, issued', userSet', cut', root')
    /\ Orderly(record', issued', userSet', cut', root')

\* A login starts a family of its own, and a rotation stays in one that was
\* not logged out.
LEMMA CreateMoves ==
    ASSUME IInv, Orderly(record, issued, userSet, cut, root), NEW r \in Requests,
           NEW pc \in {"login_add", "add"}, NEW s \in 0..last, Create(r, pc, s),
           s # 0 => Clear(s, cut, root)
    PROVE  Moves(r)
<1>1. PICK n : n = last + 1
  OBVIOUS
<1>2. /\ n \in Sids /\ last \in Nat /\ last <= MaxSessions /\ cut \subseteq 1..last /\ issued \subseteq 1..last
      /\ root \in [Sids -> Sids] /\ record \in [Sids -> {"none", "valid", "revoked", "gone"}]
  BY <1>1, SessionsAssumption DEF Create, IInv, TypeOK, Known
<1>3. /\ record' = [record EXCEPT ![n] = "valid"] /\ UNCHANGED <<userSet, issued, cut>>
      /\ root' = [root EXCEPT ![n] = IF s = 0 THEN n ELSE root[s]]
      /\ Goto(r, At(pc, s, n))
  BY <1>1 DEF Create, Write
<1>4. \A c \in 1..last : c \in Sids /\ c # n /\ c < n /\ root'[c] = root[c]
  BY <1>1, <1>2, <1>3, SessionsAssumption DEF Sids
<1>5. Clear(n, cut, root')
  <2> SUFFICES ASSUME NEW c \in cut PROVE root'[c] # root'[n]
    BY DEF Clear
  <2>1. c \in Sids /\ c < n /\ root'[c] = root[c] /\ root[c] \in Nat /\ c \in Nat /\ n \in Nat
    BY <1>2, <1>4, SessionsAssumption DEF Sids
  <2>2. CASE s = 0
    <3>1. root'[n] = n /\ root[c] <= c
      BY <1>2, <1>3, <2>1, <2>2 DEF Orderly
    <3> QED BY <2>1, <3>1
  <2>3. CASE s # 0
    <3>1. root'[n] = root[s] /\ root[c] # root[s]
      BY <1>2, <1>3, <2>3 DEF Clear
    <3> QED BY <2>1, <3>1
  <2> QED BY <2>2, <2>3
<1>6. Orderly(record', issued', userSet', cut', root')
  <2>1. \A t \in Sids : root'[t] <= t
    <3> SUFFICES ASSUME NEW t \in Sids PROVE root'[t] <= t
      OBVIOUS
    <3>1. CASE t # n
      BY <1>2, <1>3, <3>1 DEF Orderly
    <3>2. CASE t = n /\ s = 0
      BY <1>2, <1>3, <3>2, SessionsAssumption DEF Sids
    <3>3. CASE t = n /\ s # 0
      <4>1. s \in Sids /\ s < n /\ root[s] <= s /\ root'[n] = root[s]
        BY <1>1, <1>2, <1>3, <3>3, SessionsAssumption DEF Orderly, Sids
      <4>2. root[s] \in Nat /\ s \in Nat /\ n \in Nat
        BY <1>2, <4>1, SessionsAssumption DEF Sids
      <4> QED BY <3>3, <4>1, <4>2
    <3> QED BY <3>1, <3>2, <3>3
  <2>2. ASSUME NEW t \in issued, record'[t] = "valid" PROVE Clear(t, cut, root')
    <3>1. t \in 1..last /\ record[t] = "valid"
      BY <1>2, <1>3, <1>4, <2>2
    <3>2. Clear(t, cut, root)
      BY <3>1 DEF Orderly
    <3> QED BY <1>2, <1>4, <3>1, <3>2 DEF Clear
  <2> QED BY <1>3, <2>1, <2>2 DEF Orderly
<1>7. PICK q : q = At(pc, s, n)
  OBVIOUS
<1>8. q.pc = pc /\ q.new = n /\ q.seen = {}
  BY <1>7, AtIs
<1>9. Lone(q, issued', userSet', cut', root')
  BY <1>3, <1>5, <1>8 DEF Lone
<1> QED BY <1>3, <1>6, <1>7, <1>8, <1>9 DEF Moves, Goto

\* A login, or a client presenting a token it holds.
LEMMA ArriveMoves ==
    ASSUME IInv, Orderly(record, issued, userSet, cut, root), NEW r \in Requests,
           Login(r) \/ Present(r)
    PROVE  Moves(r)
<1>1. CASE Login(r)
  BY <1>1, CreateMoves, SessionsAssumption DEF Login, IInv, TypeOK
<1>2. ASSUME NEW pc \in {"read", "logout", "smembers"}, NEW s, NEW n, Goto(r, At(pc, s, n)),
             pc = "read" => s \in issued, UNCHANGED <<record, issued, userSet, cut, root>>
      PROVE  Moves(r)
  <2>1. PICK q : q = At(pc, s, n)
    OBVIOUS
  <2>2. q.pc = pc /\ q.sid = s /\ q.seen = {}
    BY <2>1, AtIs
  <2>3. Lone(q, issued, userSet, cut, root)
    BY <1>2, <2>2 DEF Lone
  <2> QED BY <1>2, <2>1, <2>2, <2>3 DEF Moves, Goto
<1>3. ASSUME NEW s \in issued, Refresh(r, s) \/ Logout(r, s) PROVE Moves(r)
  BY <1>2, <1>3 DEF Refresh, Logout, history
<1>4. ASSUME NEW s \in issued \cup {0}, LogoutAll(r, s) PROVE Moves(r)
  BY <1>2, <1>4 DEF LogoutAll, history
<1> QED BY <1>1, <1>3, <1>4 DEF Present

\* A step of a running request that issues nothing and logs nothing out.
LEMMA QuietMoves ==
    ASSUME Orderly(record, issued, userSet, cut, root), Fading, NEW r \in Requests, NEW q,
           Pc(r) # "free", Goto(r, q), UNCHANGED <<issued, cut, root>>, userSet \subseteq userSet',
           Lone(q, issued, userSet', cut, root)
    PROVE  Moves(r)
<1>1. Orderly(record', issued', userSet', cut', root')
  BY OrderlyFades
<1> QED BY <1>1 DEF Moves, Goto

\* The token of a session that is in the set and was not logged out is issued.
LEMMA IssueMoves ==
    ASSUME Orderly(record, issued, userSet, cut, root), NEW r \in Requests, NEW n,
           Pc(r) # "free", Goto(r, Free), UNCHANGED <<record, cut, root>>,
           Clear(n, cut, root), userSet \subseteq userSet', n \in userSet',
           issued' = issued \cup {n}
    PROVE  Moves(r)
<1>1. Orderly(record', issued', userSet', cut', root')
  BY DEF Orderly
<1>2. PICK q : q = Free
  OBVIOUS
<1>3. Lone(q, issued', userSet', cut', root')
  BY <1>2, FreeIs, IdleIsLone
<1> QED BY <1>1, <1>2, <1>3 DEF Moves, Goto

\* A logout-all completes: what a client holds was in the set it swept.
LEMMA CutMoves ==
    ASSUME IInv, Orderly(record, issued, userSet, cut, root), Fading, NEW r \in Requests,
           Lone(req[r], issued, userSet, cut, root), Pc(r) # "free", req[r].todo = {},
           Goto(r, Free), UNCHANGED <<issued, userSet, root>>, cut' = cut \cup req[r].seen
    PROVE  Moves(r)
<1>1. PICK q : q = Free
  OBVIOUS
<1>2. Lone(q, issued', userSet', cut', root')
  BY <1>1, FreeIs, IdleIsLone
<1>3. CASE req[r].seen = {}
  BY <1>1, <1>2, <1>3, QuietMoves
<1>4. CASE req[r].seen # {}
  <2>1. \A s \in issued : record[s] # "valid"
    BY <1>4, Standing DEF Lone, Sane
  <2>2. \A s \in issued : record'[s] # "valid"
    BY <2>1 DEF Fading
  <2>3. Orderly(record', issued', userSet', cut', root')
    BY <2>2 DEF Orderly
  <2> QED BY <1>1, <1>2, <2>3 DEF Moves, Goto
<1> QED BY <1>3, <1>4

\* A step that writes no record revives nothing.
LEMMA SameFades == ASSUME UNCHANGED record PROVE Fading
  BY DEF Fading

\* The steps of a refresh.
LEMMA RefreshMoves ==
    ASSUME IInv, Orderly(record, issued, userSet, cut, root), NEW r \in Requests,
           Lone(req[r], issued, userSet, cut, root),
           \/ LoginAdd(r) \/ Read(r) \/ RefreshCreate(r) \/ RefreshAdd(r) \/ RefreshSave(r)
           \/ RefreshSaveFails(r) \/ Rollback(r) \/ Release(r) \/ RefreshReply(r)
    PROVE  Moves(r)
<1>1. CASE LoginAdd(r)
  BY <1>1, IssueMoves DEF LoginAdd, Lone, Pc
<1>2. CASE Read(r)
  <2>1. PICK s : s = req[r].sid
    OBVIOUS
  <2>2. PICK pc : pc = AfterRead(s)
    OBVIOUS
  <2>3. pc \in {"create", "smembers", "release"} /\ (pc = "create" => record[s] = "valid")
    BY <2>2 DEF AfterRead
  <2>4. pc = "create" => Clear(s, cut, root)
    BY <1>2, <2>1, <2>3 DEF Read, Pc, Lone, Orderly
  <2>5. PICK q : q = At(pc, s, 0)
    OBVIOUS
  <2>6. q.pc = pc /\ q.sid = s /\ q.seen = {}
    BY <2>5, AtIs
  <2>7. Lone(q, issued, userSet, cut, root)
    BY <2>3, <2>4, <2>6 DEF Lone
  <2>8. Goto(r, q) /\ UNCHANGED <<record, userSet, issued, cut, root>> /\ Pc(r) # "free"
    BY <1>2, <2>1, <2>2, <2>5 DEF Read, history
  <2> QED BY <2>7, <2>8, SameFades, QuietMoves
<1>3. CASE RefreshCreate(r)
  <2>1. Pc(r) = "create" /\ Create(r, "add", req[r].sid)
    BY <1>3 DEF RefreshCreate
  <2>2. req[r].sid \in 0..last /\ Clear(req[r].sid, cut, root)
    BY <2>1, Standing, SessionsAssumption DEF Lone, Pc, Sane, Request
  <2> QED BY <2>1, <2>2, CreateMoves
<1>4. CASE RefreshAdd(r)
  <2>1. PICK q : q = At("save", req[r].sid, req[r].new)
    OBVIOUS
  <2>2. q.pc = "save" /\ q.new = req[r].new /\ q.seen = {}
    BY <2>1, AtIs
  <2>3. /\ Pc(r) = "add" /\ userSet' = userSet \cup {req[r].new} /\ Goto(r, q)
        /\ UNCHANGED <<record, issued, cut, root>>
    BY <1>4, <2>1 DEF RefreshAdd, history
  <2>4. Lone(q, issued, userSet', cut, root)
    BY <2>2, <2>3 DEF Lone, Pc
  <2> QED BY <2>3, <2>4, SameFades, QuietMoves
<1>5. CASE RefreshSave(r)
  <2>1. PICK q : q = At("reply", req[r].sid, req[r].new)
    OBVIOUS
  <2>2. q.pc = "reply" /\ q.new = req[r].new /\ q.seen = {}
    BY <2>1, AtIs
  <2>3. /\ Pc(r) = "save" /\ Goto(r, q) /\ UNCHANGED <<userSet, issued, cut, root>>
        /\ Write(req[r].sid, "revoked")
    BY <1>5, <2>1 DEF RefreshSave, history
  <2>4. Lone(q, issued, userSet', cut, root)
    BY <2>2, <2>3 DEF Lone, Pc
  <2>5. Fading
    BY <2>3, WriteFades
  <2> QED BY <2>3, <2>4, <2>5, QuietMoves
<1>6. CASE RefreshSaveFails(r)
  <2>1. PICK q : q = At("rollback", req[r].sid, req[r].new)
    OBVIOUS
  <2>2. q.pc = "rollback" /\ q.seen = {}
    BY <2>1, AtIs
  <2>3. /\ Pc(r) = "save" /\ Goto(r, q) /\ UNCHANGED <<userSet, issued, cut, root>>
        /\ Write(req[r].sid, "revoked") \/ UNCHANGED record
    BY <1>6, <2>1 DEF RefreshSaveFails, history
  <2>4. Lone(q, issued, userSet', cut, root)
    BY <2>2, IdleIsLone
  <2>5. Fading
    BY <2>3, WriteFades, SameFades
  <2> QED BY <2>3, <2>4, <2>5, QuietMoves
<1>7. CASE Rollback(r)
  <2>1. PICK q : q = At("release", req[r].sid, 0)
    OBVIOUS
  <2>2. q.pc = "release" /\ q.seen = {}
    BY <2>1, AtIs
  <2>3. /\ Pc(r) = "rollback" /\ Goto(r, q) /\ UNCHANGED <<userSet, issued, cut, root>>
        /\ Write(req[r].new, "revoked")
    BY <1>7, <2>1 DEF Rollback, history
  <2>4. Lone(q, issued, userSet', cut, root)
    BY <2>2, IdleIsLone
  <2>5. Fading
    BY <2>3, WriteFades
  <2> QED BY <2>3, <2>4, <2>5, QuietMoves
<1>8. CASE Release(r)
  <2>1. Lone(Free, issued, userSet', cut, root)
    BY FreeIs, IdleIsLone
  <2>2. /\ Pc(r) = "release" /\ Goto(r, Free) /\ UNCHANGED <<record, userSet, issued, cut, root>>
    BY <1>8 DEF Release, history
  <2> QED BY <2>1, <2>2, SameFades, QuietMoves
<1>9. CASE RefreshReply(r)
  BY <1>9, IssueMoves DEF RefreshReply, Lone, Pc
<1> QED BY <1>1, <1>2, <1>3, <1>4, <1>5, <1>6, <1>7, <1>8, <1>9

\* The steps of logout and of revoke_all.
LEMMA RevokeMoves ==
    ASSUME IInv, Orderly(record, issued, userSet, cut, root), NEW r \in Requests,
           Lone(req[r], issued, userSet, cut, root),
           LogoutSave(r) \/ Smembers(r) \/ (\E s \in Sids : Sweep(r, s)) \/ SweepDone(r)
    PROVE  Moves(r)
<1>0. req[r] \in Request /\ req \in [Requests -> Request]
  BY DEF IInv, TypeOK, Request
<1>1. CASE LogoutSave(r)
  <2>1. Fading
    BY <1>1, WriteFades DEF LogoutSave
  <2>2. req[r].todo = {}
    BY <1>1, Standing DEF LogoutSave, Pc, Sane
  <2> QED BY <1>1, <2>1, <2>2, CutMoves DEF LogoutSave
<1>2. CASE Smembers(r)
  <2>1. PICK q : q = [req[r] EXCEPT !.pc = "sweep", !.todo = userSet, !.seen = userSet]
    OBVIOUS
  <2>2. q.pc = "sweep" /\ q.seen = userSet
    BY <1>0, <2>1 DEF Request
  <2>3. Pc(r) = "smembers" /\ Goto(r, q) /\ UNCHANGED <<record, userSet, issued, cut, root>>
    BY <1>2, <2>1 DEF Smembers, history
  <2>4. Lone(q, issued, userSet', cut, root)
    BY <2>2, <2>3 DEF Lone, Orderly
  <2> QED BY <2>3, <2>4, SameFades, QuietMoves
<1>3. ASSUME NEW s \in Sids, Sweep(r, s) PROVE Moves(r)
  <2>1. PICK q : q = [req[r] EXCEPT !.todo = @ \ {s}]
    OBVIOUS
  <2>2. q.pc = "sweep" /\ q.seen = req[r].seen
    BY <1>0, <1>3, <2>1 DEF Request, Sweep, Pc
  <2>3. /\ Pc(r) = "sweep" /\ UNCHANGED <<userSet, issued, cut, root>>
        /\ Write(s, Swept(s))
    BY <1>3 DEF Sweep, history
  <2>4. Goto(r, q)
    BY <1>0, <1>3, <2>1 DEF Sweep, Goto, Request
  <2>5. Lone(q, issued, userSet', cut, root)
    BY <2>2, <2>3 DEF Lone, Orderly
  <2>6. Swept(s) # "valid"
    BY DEF Swept
  <2>7. Fading
    BY <2>3, <2>6, WriteFades
  <2> QED BY <2>3, <2>4, <2>5, <2>7, QuietMoves
<1>4. CASE SweepDone(r)
  <2>0. /\ Pc(r) = "sweep" /\ req[r].todo = {} /\ UNCHANGED <<record, userSet, issued, root>>
    BY <1>4 DEF SweepDone
  <2>1. CASE Goto(r, At("release", req[r].sid, 0)) /\ UNCHANGED cut
    <3>1. PICK q : q = At("release", req[r].sid, 0)
      OBVIOUS
    <3>2. Lone(q, issued, userSet', cut, root)
      BY <3>1, AtIs, IdleIsLone
    <3> QED BY <2>0, <2>1, <3>1, <3>2, SameFades, QuietMoves
  <2>2. CASE Goto(r, [At("logout", req[r].new, 0) EXCEPT !.seen = req[r].seen]) /\ UNCHANGED cut
    <3>1. PICK q : q = [At("logout", req[r].new, 0) EXCEPT !.seen = req[r].seen]
      OBVIOUS
    <3>2. q.pc = "logout" /\ q.seen = req[r].seen
      BY <3>1 DEF At
    <3>3. Lone(q, issued, userSet', cut, root)
      BY <3>2 DEF Lone
    <3> QED BY <2>0, <2>2, <3>1, <3>3, SameFades, QuietMoves
  <2>3. CASE Goto(r, Free) /\ cut' = cut \cup req[r].seen
    BY <2>0, <2>3, SameFades, CutMoves
  <2> QED BY <1>4, <2>1, <2>2, <2>3 DEF SweepDone
<1> QED BY <1>1, <1>2, <1>3, <1>4

\* A request that fails or dies leaves nothing but an id in the set.
LEMMA FailMoves ==
    ASSUME IInv, Orderly(record, issued, userSet, cut, root), NEW r \in Requests,
           Fail(r) \/ Crash(r)
    PROVE  Moves(r)
<1>1. PICK q : q \in {Free, At("release", req[r].sid, 0)} /\ Goto(r, q)
  BY DEF Fail, Crash
<1>2. q.pc \in {"free", "release"} /\ q.seen = {}
  BY <1>1, AtIs, FreeIs
<1>3. Lone(q, issued, userSet', cut, root)
  BY <1>2, IdleIsLone
<1>4. /\ Pc(r) # "free" /\ userSet \subseteq userSet' /\ UNCHANGED <<record, issued, cut, root>>
  BY DEF Fail, Crash, history
<1> QED BY <1>1, <1>3, <1>4, SameFades, QuietMoves

\* At most one request runs.
LEMMA OneRuns ==
    Cardinality({r \in Requests : req[r].pc # "free"}) <= 1
        => \A q, r \in Requests : req[q].pc # "free" /\ req[r].pc # "free" => q = r
<1> DEFINE S == {r \in Requests : req[r].pc # "free"}
<1> SUFFICES ASSUME Cardinality(S) <= 1, NEW q \in S, NEW r \in S, q # r PROVE FALSE
  OBVIOUS
<1>1. IsFiniteSet(S) /\ Cardinality(S) \in Nat
  BY SessionsAssumption, FS_Subset, FS_CardinalityType
<1>2. Cardinality({r}) = 1 /\ IsFiniteSet({r})
  BY FS_Singleton
<1>3. Cardinality({r} \cup {q}) = 2
  <2>1. q \notin {r}
    OBVIOUS
  <2>2. Cardinality({r} \cup {q}) = Cardinality({r}) + 1
    BY <1>2, <2>1, FS_AddElement
  <2> QED BY <1>2, <2>2
<1>4. Cardinality({r} \cup {q}) <= Cardinality(S)
  BY <1>1, FS_Subset
<1> QED BY <1>1, <1>3, <1>4

\* The only request moves.
LEMMA SoloSessionMoves ==
    ASSUME SoloSessionInv, NEW r \in Requests, Moves(r), IInv',
           \A x, y \in Requests : Pc(x)' # "free" /\ Pc(y)' # "free" => x = y,
           Pc(r) # "free" => \A x \in Requests \ {r} : Pc(x) = "free"
    PROVE  SoloSessionInv'
<1>1. PICK q : /\ req' = [req EXCEPT ![r] = q]
               /\ Pc(r) # "free" \/ q.pc # "free"
               /\ Lone(q, issued', userSet', cut', root')
  BY DEF Moves
<1>2. req'[r] = q /\ \A x \in Requests \ {r} : req'[x] = req[x]
  BY <1>1 DEF SoloSessionInv, IInv, TypeOK
<1>3. \A x \in Requests : Pc(x)' # "free" => x = r
  BY <1>1, <1>2 DEF Pc
<1>4. \A x \in Requests : Pc(x)' # "free" => Lone(req'[x], issued', userSet', cut', root')
  BY <1>1, <1>2, <1>3
<1> QED BY <1>4 DEF SoloSessionInv, Moves

\* Every step keeps the invariant of requests that do not overlap.
LEMMA SoloSessionStep ==
    SoloSessionInv /\ [OneRequest \/ ManyRequests]_mcVars => SoloSessionInv'
<1> SUFFICES ASSUME SoloSessionInv, [OneRequest \/ ManyRequests]_mcVars PROVE SoloSessionInv'
  OBVIOUS
<1>1. IInv'
  BY NextIInv DEF SoloSessionInv, OneRequest, ManyRequests, Next, mcVars
<1>2. ASSUME UNCHANGED <<req, userSet, issued, cut, root, solo>>, solo => Fading PROVE SoloSessionInv'
  <2>1. solo => Orderly(record', issued', userSet', cut', root')
    BY <1>2, OrderlyFades DEF SoloSessionInv
  <2> QED BY <1>1, <1>2, <2>1 DEF SoloSessionInv, Pc
<1>3. CASE UNCHANGED mcVars
  BY <1>2, <1>3, SameFades DEF mcVars, vars
<1>4. CASE ManyRequests
  BY <1>1, <1>4 DEF ManyRequests, SoloSessionInv
<1>5. CASE OneRequest
  <2>1. /\ solo /\ solo' /\ IInv
        /\ Orderly(record, issued, userSet, cut, root)
        /\ \A x, y \in Requests : Pc(x) # "free" /\ Pc(y) # "free" => x = y
        /\ \A r \in Requests : Pc(r) # "free" => Lone(req[r], issued, userSet, cut, root)
    BY <1>5 DEF OneRequest, SoloSessionInv
  <2>2. \A x, y \in Requests : Pc(x)' # "free" /\ Pc(y)' # "free" => x = y
    <3>1. (Cardinality({r \in Requests : req[r].pc # "free"}) <= 1)'
      BY <1>5 DEF OneRequest
    <3>2. (Cardinality({r \in Requests : req[r].pc # "free"}) <= 1
           => \A q, r \in Requests : req[q].pc # "free" /\ req[r].pc # "free" => q = r)'
      BY OneRuns, PTL
    <3> QED BY <3>1, <3>2 DEF Pc
  <2>3. ASSUME NEW r \in Requests, Moves(r) PROVE SoloSessionInv'
    BY <1>1, <2>1, <2>2, <2>3, SoloSessionMoves
  <2>4. ASSUME NEW r \in Requests, Login(r) \/ Present(r) PROVE SoloSessionInv'
    BY <2>1, <2>3, <2>4, ArriveMoves
  <2>5. ASSUME NEW r \in Requests, Fail(r) \/ Crash(r) PROVE SoloSessionInv'
    BY <2>1, <2>3, <2>5, FailMoves
  <2>6. ASSUME NEW r \in Requests, Proceed(r) PROVE SoloSessionInv'
    <3>1. CASE Fail(r)
      BY <2>5, <3>1
    <3>2. CASE \/ LoginAdd(r) \/ Read(r) \/ RefreshCreate(r) \/ RefreshAdd(r) \/ RefreshSave(r)
               \/ RefreshSaveFails(r) \/ Rollback(r) \/ Release(r) \/ RefreshReply(r)
      <4>1. Pc(r) # "free"
        BY <3>2 DEF LoginAdd, Read, RefreshCreate, RefreshAdd, RefreshSave, RefreshSaveFails,
                    Rollback, Release, RefreshReply
      <4> QED BY <2>1, <2>3, <3>2, <4>1, RefreshMoves
    <3>3. CASE LogoutSave(r) \/ Smembers(r) \/ (\E s \in Sids : Sweep(r, s)) \/ SweepDone(r)
      <4>1. Pc(r) # "free"
        BY <3>3 DEF LogoutSave, Smembers, Sweep, SweepDone
      <4> QED BY <2>1, <2>3, <3>3, <4>1, RevokeMoves
    <3> QED BY <2>6, <3>1, <3>2, <3>3 DEF Proceed
  <2>7. ASSUME NEW s \in Sids, LockExpires(s) PROVE SoloSessionInv'
    BY <1>2, <1>5, <2>7, SameFades DEF LockExpires, history, OneRequest
  <2>8. ASSUME NEW s \in Sids, RecordExpires(s) PROVE SoloSessionInv'
    <3>1. Fading
      BY <2>1, <2>8, WriteFades DEF RecordExpires
    <3> QED BY <1>2, <1>5, <2>8, <3>1 DEF RecordExpires, history, OneRequest
  <2> QED BY <1>5, <2>4, <2>5, <2>6, <2>7, <2>8 DEF OneRequest, Next
<1> QED BY <1>3, <1>4, <1>5

\* Before any login nothing is held, logged out or under way.
LEMMA SoloSessionInit == MCInit => SoloSessionInv
<1> SUFFICES ASSUME MCInit PROVE SoloSessionInv
  OBVIOUS
<1>1. Init /\ IInv
  BY InitIInv DEF MCInit
<1>2. \A r \in Requests : Pc(r) = "free"
  BY <1>1, FreeIs DEF Init, Pc
<1>3. Orderly(record, issued, userSet, cut, root)
  BY <1>1, SessionsAssumption DEF Init, Orderly, Sids
<1> QED BY <1>1, <1>2, <1>3 DEF SoloSessionInv

\* While requests do not overlap, whatever failed before and however sessions
\* expire, no client is left with a working token that descends from a login a
\* completed logout-all had seen.
THEOREM LogoutAllAlone == MCSpec => []SoloLogoutAllIsComplete
<1>1. SoloSessionInv => SoloLogoutAllIsComplete
  <2> SUFFICES ASSUME SoloSessionInv, solo, NEW s \in issued, NEW c \in cut, root[s] = root[c]
               PROVE  record[s] # "valid"
    BY DEF SoloLogoutAllIsComplete, LogoutAllIsComplete
  <2> QED BY DEF SoloSessionInv, Orderly, Clear
<1> QED BY <1>1, SoloSessionInit, SoloSessionStep, PTL DEF MCSpec
====
