---------------------------- MODULE Unread_proofs ----------------------------
(* Theorems about the unread counters: type correctness of every            *)
(* interleaving, and exactness of the incremental counters while nothing     *)
(* overlaps, for any users, messages and request slots.                      *)
EXTENDS MCUnreadCounters, FiniteSetTheorems, TLAPS

-----------------------------------------------------------------------------
(* Types *)

ReqPcs == {"free", "insert", "index", "increment", "mark", "decrement", "rewrite", "room",
           "uncount", "delete", "count", "set", "drop"}
Slot == [pc : ReqPcs, user : Users \cup {NoUser}, msg : Msgs \cup {NoMsg}, copy : Doc,
         todo : SUBSET (Users \cup Msgs), n : Nat]
Run == [pc : {"rest", "count", "set", "list", "purge"}, user : Users \cup {NoUser},
        valid : SUBSET Users, todo : SUBSET Users, n : Nat]

\* A request that will write about a user or a message knows it.
Informed(s) ==
    /\ s.pc \in {"insert", "mark", "decrement", "count", "set", "drop"} => s.user \in Users
    /\ s.pc \in {"index", "increment", "rewrite", "room", "uncount", "delete"} => s.msg \in Msgs
    /\ s.pc = "mark" => s.todo \subseteq Msgs

ReqTyped == req \in [Requests -> Slot] /\ \A r \in Requests : Informed(req[r])
WorkerTyped == worker \in Run /\ (worker.pc = "set" => worker.user \in Users)
StoreTyped ==
    /\ members \in SUBSET Users /\ Owner \in members
    /\ msg \in [Msgs -> Doc]
    /\ counter \in [Users -> Nat \cup {NoDoc}]

TypeInv == StoreTyped /\ ReqTyped /\ WorkerTyped /\ faults \in 0..MaxFaults

\* What stands for a message that was not sent is a document.
LEMMA UnsentIsDoc == Unsent \in Doc
  BY DEF Unsent, Doc

\* A request that has loaded nothing.
LEMMA AtIsSlot ==
    ASSUME NEW pc \in ReqPcs, NEW u \in Users \cup {NoUser}
    PROVE  /\ At(pc, u) \in Slot
           /\ At(pc, u) = [pc |-> pc, user |-> u, msg |-> NoMsg, copy |-> Unsent, todo |-> {}, n |-> 0]
  BY UnsentIsDoc DEF At, Slot

\* A free slot is well-typed and knows nothing.
LEMMA FreeIsSlot == Free \in Slot /\ Free.pc = "free" /\ Informed(Free)
  BY AtIsSlot DEF Free, ReqPcs, Informed

\* A worker at rest is well-typed.
LEMMA RestIsRun == Rest \in Run /\ Rest.pc = "rest"
  BY DEF Rest, Run

\* The number of messages with some property is a natural number.
LEMMA Counts ==
    ASSUME NEW S \in SUBSET Msgs PROVE IsFiniteSet(S) /\ Cardinality(S) \in Nat
  BY UnreadAssumption, FS_Subset, FS_CardinalityType

\* The number of unread messages is a number: messages are finitely many.
LEMMA UnreadIsNat == \A u : Unread(u) \in Nat
  BY Counts DEF Unread

\* A request moves on to a state that it can be in.
LEMMA Moves ==
    ASSUME ReqTyped, NEW r \in Requests, NEW s \in Slot, Informed(s), Goto(r, s)
    PROVE  ReqTyped'
  BY DEF ReqTyped, Goto

\* The operations of UnreadCounterService keep counters natural numbers.
LEMMA CountersTyped ==
    ASSUME StoreTyped, NEW u \in Users, NEW n \in Nat, UNCHANGED <<members, msg>>,
           Increment(u) \/ Decrement(u, n) \/ SetExact(u, n)
    PROVE  StoreTyped'
<1> USE UnreadAssumption DEF StoreTyped
<1>1. CASE Increment(u)
  BY <1>1 DEF Increment
<1>2. CASE Decrement(u, n)
  BY <1>2 DEF Decrement
<1>3. CASE SetExact(u, n)
  BY <1>3 DEF SetExact
<1> QED BY <1>1, <1>2, <1>3

\* Dropping a counter keeps the types.
LEMMA RemoveTyped ==
    ASSUME StoreTyped, WorkerTyped, NEW u \in Users, UNCHANGED <<members, msg>>, RemoveForUser(u)
    PROVE  StoreTyped' /\ WorkerTyped'
  BY DEF StoreTyped, WorkerTyped, RemoveForUser, Run

\* Initially everything is well-typed.
LEMMA TypeInit == Init => TypeInv
  BY FreeIsSlot, RestIsRun, UnsentIsDoc, UnreadAssumption
  DEF Init, TypeInv, StoreTyped, ReqTyped, WorkerTyped

\* The inductive invariant contains the type invariant.
LEMMA TypeImplied == TypeInv => TypeOK
  BY DEF TypeInv, StoreTyped, ReqTyped, WorkerTyped, TypeOK, Slot, Run

\* Steps of requests.  Every state a request goes on to is one that it can be
\* in, and what it writes has the type of what it overwrites.
LEMMA ArriveTyped == ASSUME TypeInv, NEW r \in Requests, Arrive(r) PROVE TypeInv'
<1> USE DEF TypeInv
<1>1. ASSUME NEW s \in Slot, Informed(s), Begin(r, s), UNCHANGED <<msg, counter, worker, faults>>,
             StoreTyped'
      PROVE  TypeInv'
  BY <1>1, Moves DEF Begin, WorkerTyped
<1>2. ASSUME NEW u \in Users, Send(r, u) PROVE TypeInv'
  <2> DEFINE s == [At("insert", u) EXCEPT !.todo = members \ {u}]
  <2>1. s \in Slot /\ Informed(s)
    BY AtIsSlot DEF StoreTyped, Slot, ReqPcs, Informed
  <2> QED BY <1>1, <1>2, <2>1 DEF Send, store, StoreTyped
<1>3. ASSUME NEW u \in Users, AddMember(r, u) PROVE TypeInv'
  <2>1. At("count", u) \in Slot /\ Informed(At("count", u))
    BY AtIsSlot DEF ReqPcs, Informed
  <2> QED BY <1>1, <1>3, <2>1 DEF AddMember, StoreTyped
<1>4. ASSUME NEW u \in Users, RemoveMember(r, u) PROVE TypeInv'
  <2>1. At("drop", u) \in Slot /\ Informed(At("drop", u))
    BY AtIsSlot DEF ReqPcs, Informed
  <2> QED BY <1>1, <1>4, <2>1 DEF RemoveMember, StoreTyped
<1>5. ASSUME NEW u \in Users, NEW S \in SUBSET Msgs, MarkRead(r, u, S) PROVE TypeInv'
  <2> DEFINE s == [At("mark", u) EXCEPT !.todo = S]
  <2>1. s \in Slot /\ Informed(s)
    BY AtIsSlot DEF Slot, ReqPcs, Informed
  <2> QED BY <1>1, <1>5, <2>1 DEF MarkRead, store, StoreTyped
<1>6. ASSUME NEW m \in Msgs, NEW pc \in {"rewrite", "room"}, Load(r, pc, m),
             UNCHANGED <<store, worker, faults>>
      PROVE  TypeInv'
  <2> DEFINE s == [At(pc, NoUser) EXCEPT !.msg = m, !.copy = msg[m]]
  <2>1. msg[m] \in Doc
    BY DEF StoreTyped
  <2>2. s \in Slot /\ Informed(s)
    BY <2>1, UnsentIsDoc DEF At, Slot, ReqPcs, Informed
  <2> QED BY <1>1, <1>6, <2>2 DEF Load, store, StoreTyped
<1> QED BY <1>2, <1>3, <1>4, <1>5, <1>6 DEF Arrive, Rewrite, Delete

\* Every call of a request keeps the types.
LEMMA ProceedTyped == ASSUME TypeInv, NEW r \in Requests, Proceed(r) PROVE TypeInv'
<1> USE DEF TypeInv
<1>0. req[r] \in Slot /\ Informed(req[r]) /\ Pc(r) = req[r].pc
  BY DEF ReqTyped, Pc
<1>1. ASSUME NEW s \in Slot, Informed(s), Goto(r, s), UNCHANGED <<worker, faults>>, StoreTyped'
      PROVE  TypeInv'
  BY <1>1, Moves DEF WorkerTyped
<1>2. ASSUME NEW x, NEW s \in Slot, Informed(s), Visited(r, x, s), StoreTyped',
             Pc(r) # "mark", UNCHANGED <<worker, faults>>
      PROVE  TypeInv'
  <2> DEFINE t == [req[r] EXCEPT !.todo = req[r].todo \ {x}]
  <2>1. t \in Slot /\ Informed(t)
    BY <1>0, <1>2 DEF Slot, Informed
  <2> QED BY <1>1, <1>2, <2>1 DEF Visited
<1>3. ASSUME NEW m \in Msgs, Insert(r, m) PROVE TypeInv'
  <2> DEFINE s == [req[r] EXCEPT !.pc = "index", !.msg = m]
  <2>1. s \in Slot /\ Informed(s)
    BY <1>0 DEF Slot, ReqPcs, Informed
  <2>2. req[r].user \in Users
    BY <1>0, <1>3 DEF Insert, Informed
  <2>3. StoreTyped'
    BY <1>3, <2>2 DEF Insert, StoreTyped, Doc
  <2> QED BY <1>1, <1>3, <2>1, <2>3 DEF Insert
<1>4. CASE Index(r)
  <2> DEFINE s == [req[r] EXCEPT !.pc = "increment"]
  <2>1. s \in Slot /\ Informed(s)
    BY <1>0, <1>4 DEF Index, Slot, ReqPcs, Informed
  <2> QED BY <1>1, <1>4, <2>1, FreeIsSlot DEF Index, store, StoreTyped
<1>5. CASE MarkUpdate(r)
  <2> DEFINE u == req[r].user
             hit == {m \in req[r].todo : IsUnread(u, m)}
             s == [At("decrement", u) EXCEPT !.n = Cardinality(hit)]
  <2>1. u \in Users /\ req[r].todo \subseteq Msgs
    BY <1>0, <1>5 DEF MarkUpdate, Informed
  <2>2. Cardinality(hit) \in Nat
    BY <2>1, Counts
  <2>3. s \in Slot /\ Informed(s)
    BY <2>1, <2>2, AtIsSlot DEF Slot, ReqPcs, Informed
  <2>4. StoreTyped'
    BY <1>5, <2>1 DEF MarkUpdate, StoreTyped, Doc
  <2> QED BY <1>1, <1>5, <2>3, <2>4, FreeIsSlot DEF MarkUpdate
<1>6. CASE MarkDecrement(r)
  <2>1. StoreTyped'
    BY <1>0, <1>6, CountersTyped DEF MarkDecrement, Informed, Slot
  <2> QED BY <1>1, <1>6, <2>1, FreeIsSlot DEF MarkDecrement
<1>7. CASE RewriteSave(r)
  <2>1. StoreTyped'
    BY <1>0, <1>7 DEF RewriteSave, Save, StoreTyped, Informed, Slot
  <2> QED BY <1>1, <1>7, <2>1, FreeIsSlot DEF RewriteSave
<1>8. CASE DeleteRoomLoad(r)
  <2> DEFINE todo == members \ ({req[r].copy.by} \cup req[r].copy.read)
             s == [req[r] EXCEPT !.pc = IF todo = {} THEN "delete" ELSE "uncount", !.todo = todo]
  <2>1. s \in Slot /\ Informed(s)
    <3>1. todo \in SUBSET (Users \cup Msgs)
      BY DEF StoreTyped
    <3> HIDE DEF todo
    <3> QED BY <1>0, <1>8, <3>1 DEF DeleteRoomLoad, Slot, ReqPcs, Informed
  <2> QED BY <1>1, <1>8, <2>1 DEF DeleteRoomLoad, store, StoreTyped
<1>9. CASE DeleteSave(r)
  <2> DEFINE doc == [req[r].copy EXCEPT !.st = "deleted"]
  <2>1. doc \in Doc /\ req[r].msg \in Msgs
    BY <1>0, <1>9 DEF DeleteSave, Slot, Doc, Informed
  <2>2. StoreTyped'
    BY <1>9, <2>1 DEF DeleteSave, Save, StoreTyped
  <2> QED BY <1>1, <1>9, <2>2, FreeIsSlot DEF DeleteSave
<1>10. CASE CountUnread(r)
  <2> DEFINE s == [req[r] EXCEPT !.pc = "set", !.n = Unread(req[r].user)]
  <2>1. s \in Slot /\ Informed(s)
    BY <1>0, <1>10, UnreadIsNat DEF CountUnread, Slot, ReqPcs, Informed
  <2> QED BY <1>1, <1>10, <2>1 DEF CountUnread, store, StoreTyped
<1>11. CASE SetUnread(r)
  <2>1. StoreTyped'
    BY <1>0, <1>11, CountersTyped DEF SetUnread, Informed, Slot
  <2> QED BY <1>1, <1>11, <2>1, FreeIsSlot DEF SetUnread
<1>12. CASE DropCounter(r)
  <2>1. StoreTyped' /\ WorkerTyped'
    BY <1>0, <1>12, RemoveTyped DEF DropCounter, Informed
  <2> QED BY <1>12, <2>1, Moves, FreeIsSlot DEF DropCounter
<1>13. ASSUME NEW u \in Users, IncrementOne(r, u) PROVE TypeInv'
  <2>1. StoreTyped'
    BY <1>13, CountersTyped DEF IncrementOne
  <2> QED BY <1>2, <1>13, <2>1, FreeIsSlot DEF IncrementOne
<1>14. ASSUME NEW u \in Users, DeleteDecrement(r, u) PROVE TypeInv'
  <2> DEFINE s == [req[r] EXCEPT !.pc = "delete", !.todo = {}]
  <2>1. s \in Slot /\ Informed(s)
    BY <1>0, <1>14 DEF DeleteDecrement, Slot, ReqPcs, Informed
  <2>2. StoreTyped'
    BY <1>14, CountersTyped DEF DeleteDecrement
  <2> QED BY <1>2, <1>14, <2>1, <2>2 DEF DeleteDecrement
<1> QED
  BY <1>3, <1>4, <1>5, <1>6, <1>7, <1>8, <1>9, <1>10, <1>11, <1>12, <1>13, <1>14 DEF Proceed

\* So do the failures.
LEMMA FailuresTyped ==
    ASSUME TypeInv, NEW r \in Requests, SendFails(r) \/ EditFails(r) \/ Abort(r) PROVE TypeInv'
<1> USE UnreadAssumption DEF TypeInv
<1>0. req[r] \in Slot /\ Informed(req[r]) /\ Pc(r) = req[r].pc
  BY DEF ReqTyped, Pc
<1>1. CASE SendFails(r)
  <2>1. StoreTyped'
    BY <1>0, <1>1 DEF SendFails, StoreTyped, Informed, Doc
  <2> QED BY <1>1, <2>1, Moves, FreeIsSlot DEF SendFails, WorkerTyped
<1>2. CASE EditFails(r)
  <2>1. StoreTyped'
    BY <1>0, <1>2 DEF EditFails, Save, StoreTyped, Informed, Slot
  <2> QED BY <1>2, <2>1 DEF EditFails, WorkerTyped, ReqTyped
<1>3. CASE Abort(r)
  BY <1>3, Moves, FreeIsSlot DEF Abort, store, StoreTyped, WorkerTyped
<1> QED BY <1>1, <1>2, <1>3

\* So do the steps of the worker.
LEMMA WorkerStepTyped == ASSUME TypeInv, Reconcile \/ RunFails PROVE TypeInv'
<1> USE UnreadAssumption, RestIsRun DEF TypeInv
<1>1. ASSUME UNCHANGED <<store, req, faults>>, WorkerTyped' PROVE TypeInv'
  BY <1>1 DEF store, StoreTyped, ReqTyped
<1>2. CASE ListRooms
  BY <1>1, <1>2 DEF ListRooms, WorkerTyped, StoreTyped, Run, Rest
<1>3. CASE WorkerSet
  <2>1. worker.user \in Users /\ worker.n \in Nat
    BY <1>3 DEF WorkerSet, WorkerTyped, Run
  <2>2. StoreTyped'
    BY <1>3, <2>1, CountersTyped DEF WorkerSet
  <2>3. WorkerTyped'
    BY <1>3 DEF WorkerSet, WorkerTyped, Run
  <2> QED BY <1>3, <2>2, <2>3 DEF WorkerSet, ReqTyped
<1>4. CASE ListCounters
  BY <1>1, <1>4 DEF ListCounters, WorkerTyped, Run, Rest
<1>5. CASE RunDone
  BY <1>1, <1>5 DEF RunDone, WorkerTyped
<1>6. ASSUME NEW u \in Users, WorkerCount(u) PROVE TypeInv'
  BY <1>1, <1>6, UnreadIsNat DEF WorkerCount, WorkerTyped, Run
<1>7. ASSUME NEW u \in Users, DeleteStale(u) PROVE TypeInv'
  BY <1>7, RemoveTyped DEF DeleteStale, ReqTyped
<1>8. CASE RunFails
  BY <1>8 DEF RunFails, store, StoreTyped, ReqTyped, WorkerTyped
<1> QED BY <1>2, <1>3, <1>4, <1>5, <1>6, <1>7, <1>8 DEF Reconcile

\* Every step keeps the types.
LEMMA TypeStep == TypeInv /\ [Next]_vars => TypeInv'
<1>1. TypeInv /\ UNCHANGED vars => TypeInv'
  BY DEF vars, TypeInv, StoreTyped, ReqTyped, WorkerTyped
<1> QED BY <1>1, ArriveTyped, ProceedTyped, FailuresTyped, WorkerStepTyped DEF Next

\* Whatever requests and the worker do between each other's calls, and
\* wherever they fail, messages and counters stay in their types: in
\* particular the floor of decrement keeps every counter from going negative.
THEOREM TypeCorrect == Spec => []TypeOK
  BY TypeInit, TypeStep, TypeImplied, PTL DEF Spec

-----------------------------------------------------------------------------
(* Exactness *)

\* The members whose counters a deletion decrements.
Unreaders(r) == members \ ({req[r].copy.by} \cup req[r].copy.read)

\* By how much the counter of u is still behind the messages, on account of
\* what the request has done to the one and not yet to the other.
Due(r, u) ==
    IF Pc(r) \in {"index", "increment"} THEN (IF u \in req[r].todo THEN 1 ELSE 0)
    ELSE IF Pc(r) = "decrement" THEN (IF u = req[r].user THEN 0 - req[r].n ELSE 0)
    ELSE IF Pc(r) \in {"uncount", "delete"}
         THEN (IF u \in Unreaders(r) \ req[r].todo THEN 1 ELSE 0)
    ELSE 0

\* The counters are right but for what the request still has to do.
Balanced(r) ==
    /\ \A u \in members : \/ Pc(r) \in {"count", "set"} /\ u = req[r].user
                          \/ Shown(u) + Due(r, u) = Unread(u)
    /\ \A u \in Users \ members : \/ Pc(r) = "drop" /\ u = req[r].user
                                  \/ counter[u] = NoDoc

\* What the request has loaded is still true.
Current(r) ==
    /\ Pc(r) \in {"insert", "mark", "decrement", "count", "set"} => req[r].user \in members
    /\ Pc(r) = "insert" => req[r].todo = members \ {req[r].user}
    /\ Pc(r) \in {"index", "increment"} => req[r].todo \subseteq members
    /\ Pc(r) \in {"rewrite", "room", "uncount", "delete"}
        => req[r].copy = msg[req[r].msg] /\ req[r].copy.st = "live"
    /\ Pc(r) = "uncount" => req[r].todo \subseteq Unreaders(r)
    /\ Pc(r) = "delete" => req[r].todo = {}
    /\ Pc(r) = "set" => req[r].n = Unread(req[r].user)
    /\ Pc(r) = "drop" => req[r].user \notin members

WorkerCurrent ==
    /\ worker.pc \in {"count", "set", "list"} => worker.valid = members /\ worker.todo \subseteq members
    /\ worker.pc = "set" => worker.user \in members /\ worker.n = Unread(worker.user)
    /\ worker.pc = "purge" => worker.todo \cap members = {}

\* Nothing runs beside the request.
Sole(r) == worker.pc = "rest" /\ \A q \in Requests \ {r} : Pc(q) = "free"

SoloInv ==
    /\ TypeInv
    /\ solo =>
        /\ \A r \in Requests : Pc(r) # "free" => Sole(r)
        /\ \A r \in Requests : Sole(r) => Balanced(r) /\ Current(r)
        /\ Idle => Exact /\ WorkerCurrent

\* How many messages are unread, when one or several become unread or read.
LEMMA UnreadSame ==
    ASSUME NEW u, \A m \in Msgs : IsUnread(u, m)' = IsUnread(u, m) PROVE Unread(u)' = Unread(u)
<1>1. {m \in Msgs : IsUnread(u, m)}' = {m \in Msgs : IsUnread(u, m)}
  OBVIOUS
<1> QED BY <1>1 DEF Unread

\* One more unread message raises the count by one.
LEMMA UnreadMore ==
    ASSUME NEW u, NEW k \in Msgs, ~IsUnread(u, k), IsUnread(u, k)',
           \A m \in Msgs \ {k} : IsUnread(u, m)' = IsUnread(u, m)
    PROVE  Unread(u)' = Unread(u) + 1
<1> DEFINE S == {m \in Msgs : IsUnread(u, m)}
<1>1. S' = S \cup {k} /\ k \notin S /\ IsFiniteSet(S)
  BY Counts
<1>2. Cardinality(S \cup {k}) = Cardinality(S) + 1
  BY <1>1, FS_AddElement
<1> QED BY <1>1, <1>2 DEF Unread

\* A set of messages that become read lowers the count by its size.
LEMMA UnreadFewer ==
    ASSUME NEW u, NEW T \in SUBSET Msgs, \A m \in T : IsUnread(u, m) /\ ~IsUnread(u, m)',
           \A m \in Msgs \ T : IsUnread(u, m)' = IsUnread(u, m)
    PROVE  Unread(u)' = Unread(u) - Cardinality(T)
<1> DEFINE S == {m \in Msgs : IsUnread(u, m)}
<1>1. S' = S \ T /\ S \cap T = T /\ IsFiniteSet(S)
  BY Counts
<1>2. Cardinality(S \ T) = Cardinality(S) - Cardinality(S \cap T)
  BY <1>1, FS_Difference
<1> QED BY <1>1, <1>2 DEF Unread

\* What a user is shown, when the counter changes.
LEMMA ShownIsNat == ASSUME StoreTyped, NEW u \in Users PROVE Shown(u) \in Nat
  BY DEF StoreTyped, Shown

\* What the counter operations do to the number shown.
LEMMA ShownAfter ==
    ASSUME StoreTyped, NEW u \in Users, NEW n \in Nat
    PROVE  /\ Increment(u) => Shown(u)' = Shown(u) + 1
           /\ Decrement(u, n) /\ n <= Shown(u) => Shown(u)' = Shown(u) - n
           /\ SetExact(u, n) => Shown(u)' = n
           /\ Increment(u) \/ Decrement(u, n) \/ SetExact(u, n)
                => \A v \in Users \ {u} : counter'[v] = counter[v] /\ Shown(v)' = Shown(v)
<1> USE UnreadAssumption DEF StoreTyped, Shown
<1>1. ASSUME Increment(u)
      PROVE  Shown(u)' = Shown(u) + 1 /\ \A v \in Users \ {u} : counter'[v] = counter[v]
  BY <1>1 DEF Increment
<1>2. ASSUME Decrement(u, n)
      PROVE  /\ n <= Shown(u) => Shown(u)' = Shown(u) - n
             /\ \A v \in Users \ {u} : counter'[v] = counter[v]
  BY <1>2 DEF Decrement
<1>3. ASSUME SetExact(u, n)
      PROVE  Shown(u)' = n /\ \A v \in Users \ {u} : counter'[v] = counter[v]
  BY <1>3 DEF SetExact
<1> QED BY <1>1, <1>2, <1>3

\* No more than one runs at a time.
LEMMA OneRuns == Running <= 1 => \A r \in Requests : Pc(r) # "free" => Sole(r)
<1> DEFINE S == {r \in Requests : Pc(r) # "free"}
<1>1. IsFiniteSet(S) /\ Cardinality(S) \in Nat
  BY UnreadAssumption, FS_Subset, FS_CardinalityType
<1> SUFFICES ASSUME Running <= 1, NEW r \in S PROVE Sole(r)
  OBVIOUS
<1>2. Cardinality({r}) = 1 /\ IsFiniteSet({r})
  BY FS_Singleton
<1>3. Cardinality({r}) <= Cardinality(S)
  BY <1>1, FS_Subset
<1>4. worker.pc = "rest"
  BY <1>1, <1>2, <1>3 DEF Running
<1>5. ASSUME NEW q \in S, q # r PROVE FALSE
  <2>1. Cardinality({r} \cup {q}) = 2
    BY <1>2, <1>5, FS_AddElement
  <2>2. Cardinality({r} \cup {q}) <= Cardinality(S)
    BY <1>1, FS_Subset
  <2> QED BY <1>1, <1>4, <2>1, <2>2 DEF Running
<1> QED BY <1>4, <1>5 DEF Sole

\* A request that changes neither messages nor counters nor members, and owes
\* nothing before or after, stays balanced.
LEMMA StaysBalanced ==
    ASSUME NEW r \in Requests, Balanced(r), UNCHANGED store,
           \A u \in members : Due(r, u)' = Due(r, u),
           Pc(r) \in {"count", "set"} => Pc(r)' \in {"count", "set"} /\ req'[r].user = req[r].user,
           Pc(r) # "drop"
    PROVE  Balanced(r)'
<1>1. \A u \in members : Unread(u)' = Unread(u)
  BY UnreadSame DEF store, IsUnread
<1> QED BY <1>1 DEF Balanced, Shown, store

\* A request that starts owes the counters nothing yet.
LEMMA ArriveBalanced ==
    ASSUME TypeInv, NEW r \in Requests, Balanced(r), Arrive(r) PROVE Balanced(r)' /\ Current(r)'
<1> USE DEF TypeInv
<1>0. req[r] \in Slot /\ req \in [Requests -> Slot] /\ Pc(r) = req[r].pc
  BY DEF ReqTyped, Pc
<1>1. Pc(r) = "free" /\ \A u : Due(r, u) = 0
  <2>1. Pc(r) = "free"
    BY DEF Arrive, Send, AddMember, RemoveMember, MarkRead, Rewrite, Delete, Load, Begin
  <2> QED BY <2>1 DEF Due
<1>2. ASSUME NEW s, Begin(r, s) PROVE req'[r] = s /\ Pc(r)' = s.pc
  BY <1>0, <1>2 DEF Begin, Goto, Pc
<1>3. ASSUME UNCHANGED store, Pc(r)' \in {"insert", "mark", "rewrite", "room"} PROVE Balanced(r)'
  BY <1>1, <1>3, StaysBalanced DEF Due
<1>4. ASSUME NEW u \in Users, Send(r, u) PROVE Balanced(r)' /\ Current(r)'
  <2>1. /\ Pc(r)' = "insert" /\ req'[r].user = u /\ req'[r].todo = members \ {u}
        /\ u \in members /\ UNCHANGED store
    BY <1>2, <1>4 DEF Send, At
  <2> QED BY <1>3, <2>1 DEF Current, store
<1>5. ASSUME NEW u \in Users, NEW S, MarkRead(r, u, S) PROVE Balanced(r)' /\ Current(r)'
  <2>1. Pc(r)' = "mark" /\ req'[r].user = u /\ u \in members /\ UNCHANGED store
    BY <1>2, <1>5 DEF MarkRead, At
  <2> QED BY <1>3, <2>1 DEF Current, store
<1>6. ASSUME NEW m \in Msgs, Rewrite(r, m) \/ Delete(r, m) PROVE Balanced(r)' /\ Current(r)'
  <2>1. PICK pc \in {"rewrite", "room"} : Load(r, pc, m) /\ msg[m].st = "live" /\ UNCHANGED store
    BY <1>6 DEF Rewrite, Delete
  <2>2. Pc(r)' = pc /\ req'[r].msg = m /\ req'[r].copy = msg[m]
    <3> DEFINE s == [At(pc, NoUser) EXCEPT !.msg = m, !.copy = msg[m]]
    <3>1. s.pc = pc /\ s.msg = m /\ s.copy = msg[m]
      BY DEF At
    <3> HIDE DEF s
    <3> QED BY <1>2, <2>1, <3>1 DEF Load, s
  <2> QED BY <1>3, <2>1, <2>2 DEF Current, store
<1>7. ASSUME NEW u \in Users, AddMember(r, u) PROVE Balanced(r)' /\ Current(r)'
  <2>1. /\ Pc(r)' = "count" /\ req'[r].user = u /\ members' = members \cup {u}
        /\ UNCHANGED <<msg, counter>>
    BY <1>2, <1>7 DEF AddMember, At
  <2>2. \A v : Unread(v)' = Unread(v) /\ Due(r, v)' = 0
    BY <2>1, UnreadSame DEF IsUnread, Due
  <2> QED BY <1>1, <2>1, <2>2 DEF Balanced, Current, Shown
<1>8. ASSUME NEW u \in Users, RemoveMember(r, u) PROVE Balanced(r)' /\ Current(r)'
  <2>1. /\ Pc(r)' = "drop" /\ req'[r].user = u /\ members' = members \ {u}
        /\ UNCHANGED <<msg, counter>>
    BY <1>2, <1>8 DEF RemoveMember, At
  <2>2. \A v : Unread(v)' = Unread(v) /\ Due(r, v)' = 0
    BY <2>1, UnreadSame DEF IsUnread, Due
  <2> QED BY <1>1, <2>1, <2>2 DEF Balanced, Current, Shown
<1> QED BY <1>4, <1>5, <1>6, <1>7, <1>8 DEF Arrive

\* Each call keeps counters plus what the request still owes equal to the
\* unread messages.
LEMMA ProceedBalanced ==
    ASSUME TypeInv, NEW r \in Requests, Balanced(r), Current(r), Proceed(r)
    PROVE  Balanced(r)' /\ Current(r)'
<1> USE DEF TypeInv
<1>0. req[r] \in Slot /\ req \in [Requests -> Slot] /\ Pc(r) = req[r].pc /\ Informed(req[r])
  BY DEF ReqTyped, Pc
<1>1. ASSUME NEW s, Goto(r, s) PROVE req'[r] = s /\ Pc(r)' = s.pc
  BY <1>0, <1>1 DEF Goto, Pc
<1>2. ASSUME Pc(r)' = "free" PROVE Current(r)' /\ \A u : Due(r, u)' = 0
  BY <1>2 DEF Current, Due
<1>3. \A u \in members : u \in Users /\ Shown(u) \in Nat /\ Unread(u) \in Nat
  BY ShownIsNat, UnreadIsNat DEF StoreTyped
<1>4. Free.pc = "free"
  BY FreeIsSlot
<1>5. ASSUME UNCHANGED msg PROVE \A u : Unread(u)' = Unread(u)
  BY <1>5, UnreadSame DEF IsUnread
<1>6. ASSUME NEW m \in Msgs, Insert(r, m) PROVE Balanced(r)' /\ Current(r)'
  <2> DEFINE a == req[r].user
  <2>1. /\ Pc(r)' = "index" /\ req'[r].todo = members \ {a} /\ UNCHANGED <<members, counter>>
        /\ Pc(r) = "insert"
    <3> DEFINE s == [req[r] EXCEPT !.pc = "index", !.msg = m]
    <3>1. s.pc = "index" /\ s.todo = req[r].todo
      BY <1>0 DEF Slot
    <3> HIDE DEF s
    <3> QED BY <1>1, <1>6, <3>1 DEF Insert, Current, s
  <2>2. ASSUME NEW u \in members PROVE Unread(u)' = Unread(u) + Due(r, u)'
    <3>1. /\ msg'[m].st = "live" /\ msg'[m].by = a /\ msg'[m].read = {a} /\ msg[m].st = "none"
          /\ \A k \in Msgs \ {m} : msg'[k] = msg[k]
      BY <1>6 DEF Insert, StoreTyped
    <3>2. CASE u = a
      BY <2>1, <3>1, <3>2, <1>3, UnreadSame DEF IsUnread, Due
    <3>3. CASE u # a
      <4>1. ~IsUnread(u, m) /\ IsUnread(u, m)' /\ \A k \in Msgs \ {m} : IsUnread(u, k)' = IsUnread(u, k)
        BY <3>1, <3>3 DEF IsUnread
      <4> QED BY <2>1, <3>3, <4>1, UnreadMore DEF Due
    <3> QED BY <3>2, <3>3
  <2>3. \A u \in members : Shown(u) = Unread(u)
    BY <1>3, <2>1 DEF Balanced, Due
  <2> QED BY <2>1, <2>2, <2>3, <1>3 DEF Balanced, Current, Shown
<1>7. CASE Index(r)
  <2>1. UNCHANGED store /\ Pc(r) = "index"
    BY <1>7 DEF Index
  <2>2. CASE req[r].todo = {}
    BY <1>1, <1>2, <1>4, <1>7, <2>1, <2>2, StaysBalanced DEF Index, Due
  <2>3. CASE req[r].todo # {}
    <3>1. Pc(r)' = "increment" /\ req'[r].todo = req[r].todo
      BY <1>0, <1>1, <1>7, <2>3 DEF Index, Slot
    <3> QED BY <2>1, <3>1, StaysBalanced DEF Due, Current, store
  <2> QED BY <2>2, <2>3
<1>8. CASE MarkUpdate(r)
  <2>0. PICK a, hit : a = req[r].user /\ hit = {m \in req[r].todo : IsUnread(a, m)}
    OBVIOUS
  <2>1. a \in Users /\ a \in members /\ hit \subseteq Msgs /\ UNCHANGED <<members, counter>>
        /\ Pc(r) = "mark"
    BY <1>0, <1>8, <2>0 DEF MarkUpdate, Informed, Current
  <2>2. \A u \in members : Shown(u) = Unread(u) /\ Shown(u)' = Shown(u)
    BY <1>3, <2>1 DEF Balanced, Due, Shown
  <2>3. /\ Cardinality(hit) \in Nat
        /\ \A m \in Msgs : msg'[m] = IF m \in hit THEN [msg[m] EXCEPT !.read = @ \cup {a}] ELSE msg[m]
    BY <1>8, <2>0, <2>1, Counts DEF MarkUpdate
  <2>4. \A m \in Msgs : /\ msg'[m].st = msg[m].st /\ msg'[m].by = msg[m].by
                        /\ msg'[m].read = IF m \in hit THEN msg[m].read \cup {a} ELSE msg[m].read
    BY <2>3 DEF StoreTyped, Doc
  <2>5. Unread(a)' = Unread(a) - Cardinality(hit)
    <3>1. /\ \A m \in hit : IsUnread(a, m) /\ ~IsUnread(a, m)'
          /\ \A m \in Msgs \ hit : IsUnread(a, m)' = IsUnread(a, m)
      BY <2>0, <2>1, <2>4 DEF IsUnread
    <3> QED BY <2>1, <3>1, UnreadFewer
  <2>6. \A u \in members \ {a} : Unread(u)' = Unread(u)
    BY <2>4, UnreadSame DEF IsUnread
  <2>7. CASE hit = {}
    <3>1. Pc(r)' = "free" /\ Cardinality(hit) = 0
      BY <1>1, <1>4, <1>8, <2>0, <2>7, FS_EmptySet DEF MarkUpdate
    <3> QED BY <1>2, <1>3, <2>1, <2>2, <2>5, <2>6, <3>1 DEF Balanced
  <2>8. CASE hit # {}
    <3>1. Pc(r)' = "decrement" /\ req'[r].user = a /\ req'[r].n = Cardinality(hit)
      <4> DEFINE s == [At("decrement", a) EXCEPT !.n = Cardinality(hit)]
      <4>1. s.pc = "decrement" /\ s.user = a /\ s.n = Cardinality(hit)
        BY DEF At
      <4>2. Goto(r, IF hit = {} THEN Free ELSE s)
        BY <1>8, <2>0 DEF MarkUpdate
      <4>3. Goto(r, s)
        BY <2>8, <4>2
      <4> HIDE DEF s
      <4> QED BY <1>1, <4>1, <4>3
    <3>2. Due(r, a)' = 0 - Cardinality(hit) /\ \A u \in members \ {a} : Due(r, u)' = 0
      BY <3>1 DEF Due
    <3>3. \A u \in members : Shown(u)' + Due(r, u)' = Unread(u)'
      BY <1>3, <2>2, <2>3, <2>5, <2>6, <3>2
    <3> QED BY <2>1, <3>1, <3>3 DEF Balanced, Current
  <2> QED BY <2>7, <2>8
<1>9. CASE MarkDecrement(r)
  <2>0. PICK a, n : a = req[r].user /\ n = req[r].n
    OBVIOUS
  <2>1. /\ a \in members /\ a \in Users /\ n \in Nat /\ Decrement(a, n)
        /\ UNCHANGED <<members, msg>> /\ Pc(r) = "decrement" /\ Pc(r)' = "free"
    BY <1>0, <1>1, <1>4, <1>9, <2>0 DEF MarkDecrement, Current, Informed, Slot
  <2>2. Shown(a) - n = Unread(a) /\ \A u \in members \ {a} : Shown(u) = Unread(u)
    BY <1>3, <2>0, <2>1 DEF Balanced, Due
  <2>3. /\ Shown(a)' = Shown(a) - n
        /\ \A v \in Users \ {a} : counter'[v] = counter[v] /\ Shown(v)' = Shown(v)
    BY <1>3, <2>1, <2>2, ShownAfter
  <2> QED BY <1>2, <1>3, <1>5, <2>1, <2>2, <2>3 DEF Balanced
<1>10. CASE RewriteSave(r)
  <2>1. req[r].copy = msg[req[r].msg] /\ Pc(r) = "rewrite"
    BY <1>10 DEF RewriteSave, Current
  <2>2. UNCHANGED store /\ Pc(r)' = "free"
    BY <1>0, <1>1, <1>4, <1>10, <2>1 DEF RewriteSave, Save, store, StoreTyped, Informed
  <2> QED BY <1>2, <2>1, <2>2, StaysBalanced DEF Due
<1>11. CASE DeleteRoomLoad(r)
  <2>0. PICK todo : todo = Unreaders(r)
    OBVIOUS
  <2>1. /\ Pc(r) = "room" /\ Pc(r)' = IF todo = {} THEN "delete" ELSE "uncount"
        /\ req'[r].todo = todo /\ req'[r].copy = req[r].copy /\ req'[r].msg = req[r].msg
        /\ UNCHANGED store
    <3> DEFINE s == [req[r] EXCEPT !.pc = IF todo = {} THEN "delete" ELSE "uncount", !.todo = todo]
    <3>1. /\ s.pc = (IF todo = {} THEN "delete" ELSE "uncount") /\ s.todo = todo
          /\ s.copy = req[r].copy /\ s.msg = req[r].msg
      BY <1>0 DEF Slot
    <3>2. Goto(r, s) /\ Pc(r) = "room" /\ UNCHANGED store
      BY <1>11, <2>0 DEF DeleteRoomLoad, Unreaders
    <3> HIDE DEF s
    <3> QED BY <1>1, <3>1, <3>2
  <2>2. Unreaders(r)' = Unreaders(r)
    BY <2>1 DEF Unreaders, store
  <2>3. Current(r)'
    BY <2>0, <2>1, <2>2 DEF Current, store
  <2>4. \A u \in members : Due(r, u)' = 0 /\ Due(r, u) = 0
    BY <2>0, <2>1, <2>2 DEF Due
  <2> QED BY <2>1, <2>3, <2>4, StaysBalanced
<1>12. CASE DeleteSave(r)
  <2> DEFINE m == req[r].msg
  <2>1. /\ m \in Msgs /\ Pc(r) = "delete" /\ Pc(r)' = "free" /\ UNCHANGED <<members, counter>>
        /\ req[r].copy = msg[m] /\ msg[m].st = "live" /\ req[r].todo = {} /\ msg[m] \in Doc
    BY <1>0, <1>1, <1>4, <1>12 DEF DeleteSave, Current, Informed, StoreTyped
  <2>2. msg'[m].st = "deleted" /\ \A k \in Msgs \ {m} : msg'[k] = msg[k]
    BY <1>12, <2>1 DEF DeleteSave, Save, StoreTyped, Doc
  <2>3. ASSUME NEW u \in members PROVE Unread(u)' = Unread(u) - Due(r, u)
    <3>1. CASE u \in Unreaders(r)
      <4>1. \A k \in {m} : IsUnread(u, k) /\ ~IsUnread(u, k)'
        BY <2>1, <2>2, <3>1 DEF IsUnread, Unreaders
      <4>2. \A k \in Msgs \ {m} : IsUnread(u, k)' = IsUnread(u, k)
        BY <2>2 DEF IsUnread
      <4>3. Cardinality({m}) = 1
        BY FS_Singleton
      <4>4. Unread(u)' = Unread(u) - 1
        BY <2>1, <4>1, <4>2, <4>3, UnreadFewer
      <4> QED BY <2>1, <3>1, <4>4 DEF Due
    <3>2. CASE u \notin Unreaders(r)
      <4>1. \A k \in Msgs : IsUnread(u, k)' = IsUnread(u, k)
        BY <2>1, <2>2, <3>2 DEF IsUnread, Unreaders
      <4>2. Unread(u)' = Unread(u)
        BY <4>1, UnreadSame
      <4> QED BY <1>3, <2>1, <3>2, <4>2 DEF Due
    <3> QED BY <3>1, <3>2
  <2>4. \A u \in members : Shown(u)' = Shown(u) /\ Shown(u) + Due(r, u) = Unread(u) /\ Due(r, u) \in {0, 1}
    BY <2>1 DEF Balanced, Shown, Due
  <2>5. \A u \in members : Shown(u)' = Unread(u)'
    BY <1>3, <2>3, <2>4
  <2> QED BY <1>2, <1>3, <2>1, <2>4, <2>5 DEF Balanced
<1>13. CASE CountUnread(r)
  <2>1. /\ Pc(r) = "count" /\ Pc(r)' = "set" /\ req'[r].user = req[r].user
        /\ req'[r].n = Unread(req[r].user) /\ UNCHANGED store
    <3> DEFINE s == [req[r] EXCEPT !.pc = "set", !.n = Unread(req[r].user)]
    <3>1. s.pc = "set" /\ s.user = req[r].user /\ s.n = Unread(req[r].user)
      BY <1>0 DEF Slot
    <3>2. Goto(r, s) /\ Pc(r) = "count" /\ UNCHANGED store
      BY <1>13 DEF CountUnread
    <3> HIDE DEF s
    <3> QED BY <1>1, <3>1, <3>2
  <2>2. Unread(req[r].user)' = Unread(req[r].user)
    BY <1>5, <2>1 DEF store
  <2>3. Current(r)'
    BY <1>5, <2>1 DEF Current, store
  <2> QED BY <2>1, <2>3, StaysBalanced DEF Due
<1>14. CASE SetUnread(r)
  <2>0. PICK a : a = req[r].user
    OBVIOUS
  <2>1. /\ a \in members /\ a \in Users /\ req[r].n = Unread(a) /\ SetExact(a, req[r].n)
        /\ UNCHANGED <<members, msg>> /\ Pc(r) = "set" /\ Pc(r)' = "free"
    BY <1>0, <1>1, <1>4, <1>14, <2>0 DEF SetUnread, Current, Informed
  <2>2. /\ Shown(a)' = Unread(a)
        /\ \A v \in Users \ {a} : counter'[v] = counter[v] /\ Shown(v)' = Shown(v)
    BY <1>3, <2>1, ShownAfter
  <2>3. \A u \in members \ {a} : Shown(u) = Unread(u)
    BY <1>3, <2>0, <2>1 DEF Balanced, Due
  <2> QED BY <1>2, <1>3, <1>5, <2>1, <2>2, <2>3 DEF Balanced
<1>15. CASE DropCounter(r)
  <2>0. PICK a : a = req[r].user
    OBVIOUS
  <2>1. /\ a \notin members /\ a \in Users /\ counter' = [counter EXCEPT ![a] = NoDoc]
        /\ UNCHANGED <<members, msg>> /\ Pc(r) = "drop" /\ Pc(r)' = "free"
    BY <1>0, <1>1, <1>4, <1>15, <2>0 DEF DropCounter, RemoveForUser, Current, Informed
  <2>2. /\ counter'[a] = NoDoc
        /\ \A v \in Users \ {a} : counter'[v] = counter[v] /\ Shown(v)' = Shown(v)
    BY <2>1 DEF StoreTyped, Shown
  <2>3. \A u \in members : Shown(u) = Unread(u)
    BY <1>3, <2>1 DEF Balanced, Due
  <2> QED BY <1>2, <1>3, <1>5, <2>0, <2>1, <2>2, <2>3 DEF Balanced
<1>16. ASSUME NEW u \in Users, IncrementOne(r, u) PROVE Balanced(r)' /\ Current(r)'
  <2>0. PICK left : left = req[r].todo \ {u}
    OBVIOUS
  <2>1. /\ Pc(r) = "increment" /\ u \in req[r].todo /\ req[r].todo \subseteq members /\ Increment(u)
        /\ UNCHANGED <<members, msg>> /\ Goto(r, IF left = {} THEN Free ELSE [req[r] EXCEPT !.todo = left])
    BY <1>16, <2>0 DEF IncrementOne, Visited, Current
  <2>2. /\ left # {} => Pc(r)' = "increment" /\ req'[r].todo = left
        /\ left = {} => Pc(r)' = "free"
    <3> DEFINE s == [req[r] EXCEPT !.todo = left]
    <3>1. s.pc = "increment" /\ s.todo = left
      BY <1>0, <2>1 DEF Slot
    <3> HIDE DEF s
    <3> QED BY <1>1, <1>4, <2>1, <3>1 DEF s
  <2>3. /\ Shown(u)' = Shown(u) + 1
        /\ \A v \in Users \ {u} : counter'[v] = counter[v] /\ Shown(v)' = Shown(v)
    BY <2>1, ShownAfter
  <2>4. /\ Due(r, u) = 1 /\ Due(r, u)' = 0
        /\ \A v \in members \ {u} : Due(r, v)' = Due(r, v) /\ Due(r, v) \in {0, 1}
    BY <2>0, <2>1, <2>2 DEF Due
  <2>5. \A v \in members : Shown(v) + Due(r, v) = Unread(v)
    BY <2>1 DEF Balanced
  <2>6. \A v \in members : Shown(v)' + Due(r, v)' = Unread(v)'
    BY <1>3, <1>5, <2>1, <2>3, <2>4, <2>5
  <2>7. Current(r)'
    BY <1>2, <2>0, <2>1, <2>2 DEF Current
  <2> QED BY <2>1, <2>3, <2>6, <2>7 DEF Balanced
<1>17. ASSUME NEW u \in Users, DeleteDecrement(r, u) PROVE Balanced(r)' /\ Current(r)'
  <2>0. PICK left : left = req[r].todo \ {u}
    OBVIOUS
  <2>1. /\ Pc(r) = "uncount" /\ u \in req[r].todo /\ req[r].todo \subseteq Unreaders(r)
        /\ u \in members /\ req[r].copy = msg[req[r].msg] /\ req[r].copy.st = "live"
        /\ Decrement(u, 1) /\ UNCHANGED <<members, msg>> /\ req[r].msg \in Msgs
        /\ Goto(r, IF left = {} THEN [req[r] EXCEPT !.pc = "delete", !.todo = {}]
                   ELSE [req[r] EXCEPT !.todo = left])
    BY <1>0, <1>17, <2>0 DEF DeleteDecrement, Visited, Current, Unreaders, Informed
  <2>2. /\ Pc(r)' \in {"uncount", "delete"} /\ (Pc(r)' = "delete" => left = {})
        /\ req'[r].todo = left /\ req'[r].copy = req[r].copy /\ req'[r].msg = req[r].msg
    <3> DEFINE s == [req[r] EXCEPT !.todo = left]
               t == [req[r] EXCEPT !.pc = "delete", !.todo = {}]
    <3>1. s.pc = "uncount" /\ s.todo = left /\ s.copy = req[r].copy /\ s.msg = req[r].msg
      BY <1>0, <2>1 DEF Slot
    <3>2. t.pc = "delete" /\ t.todo = {} /\ t.copy = req[r].copy /\ t.msg = req[r].msg
      BY <1>0 DEF Slot
    <3> HIDE DEF s, t
    <3>3. req'[r] = (IF left = {} THEN t ELSE s) /\ Pc(r)' = req'[r].pc
      <4>1. Goto(r, IF left = {} THEN t ELSE s)
        BY <2>1 DEF s, t
      <4> QED BY <1>1, <4>1 DEF Pc
    <3> QED BY <3>1, <3>2, <3>3
  <2>3. Unreaders(r)' = Unreaders(r)
    BY <2>1, <2>2 DEF Unreaders
  <2>4. Shown(u) >= 1
    <3>1. IsUnread(u, req[r].msg)
      BY <2>1 DEF IsUnread, Unreaders
    <3>2. Unread(u) # 0
      BY <2>1, <3>1, Counts, FS_EmptySet DEF Unread
    <3> QED BY <1>3, <2>1, <3>2 DEF Balanced, Due
  <2>5. /\ Shown(u)' = Shown(u) - 1
        /\ \A v \in Users \ {u} : counter'[v] = counter[v] /\ Shown(v)' = Shown(v)
    BY <1>3, <2>1, <2>4, ShownAfter
  <2>6. /\ Due(r, u) = 0 /\ Due(r, u)' = 1
        /\ \A v \in members \ {u} : Due(r, v)' = Due(r, v) /\ Due(r, v) \in {0, 1}
    BY <2>0, <2>1, <2>2, <2>3 DEF Due
  <2>7. \A v \in members : Shown(v) + Due(r, v) = Unread(v)
    BY <2>1 DEF Balanced
  <2>8. \A v \in members : Shown(v)' + Due(r, v)' = Unread(v)'
    BY <1>3, <1>5, <2>1, <2>5, <2>6, <2>7
  <2>9. Current(r)'
    BY <2>0, <2>1, <2>2, <2>3 DEF Current
  <2> QED BY <2>1, <2>2, <2>5, <2>8, <2>9 DEF Balanced
<1> QED
  BY <1>6, <1>7, <1>8, <1>9, <1>10, <1>11, <1>12, <1>13, <1>14, <1>15, <1>16, <1>17 DEF Proceed

\* Between requests the worker finds the counters exact, and leaves them so.
LEMMA WorkerExact ==
    ASSUME TypeInv, Exact, WorkerCurrent, Reconcile PROVE Exact' /\ WorkerCurrent'
<1> USE DEF TypeInv
<1>0. worker \in Run /\ \A u \in members : u \in Users
  BY DEF WorkerTyped, StoreTyped
<1>1. \A u : Unread(u)' = Unread(u)
  <2>1. UNCHANGED msg
    BY DEF Reconcile, ListRooms, WorkerCount, WorkerSet, ListCounters, DeleteStale, RunDone, store
  <2> QED BY <2>1, UnreadSame DEF IsUnread
<1>2. ASSUME UNCHANGED store PROVE Exact'
  BY <1>1, <1>2 DEF Exact, Shown, store
<1>3. CASE ListRooms
  BY <1>2, <1>3 DEF ListRooms, WorkerCurrent, Rest, store
<1>4. CASE ListCounters
  BY <1>2, <1>4 DEF ListCounters, WorkerCurrent, Rest, store
<1>5. CASE RunDone
  BY <1>2, <1>5 DEF RunDone, WorkerCurrent, Rest, store
<1>6. ASSUME NEW u \in Users, WorkerCount(u) PROVE Exact' /\ WorkerCurrent'
  <2>1. /\ worker'.pc = "set" /\ worker'.user = u /\ worker'.n = Unread(u)
        /\ worker'.valid = worker.valid /\ worker'.todo = worker.todo
    BY <1>0, <1>6 DEF WorkerCount, Run
  <2> QED BY <1>1, <1>2, <1>6, <2>1 DEF WorkerCount, WorkerCurrent, store
<1>7. ASSUME NEW u \in Users, DeleteStale(u) PROVE Exact' /\ WorkerCurrent'
  <2>1. /\ u \notin members /\ worker'.pc = "purge" /\ worker'.todo = worker.todo \ {u}
        /\ counter' = [counter EXCEPT ![u] = NoDoc] /\ UNCHANGED members
    BY <1>0, <1>7 DEF DeleteStale, RemoveForUser, WorkerCurrent, Run
  <2>2. counter' = counter
    BY <2>1 DEF Exact, StoreTyped
  <2>3. Exact'
    BY <1>1, <2>1, <2>2 DEF Exact, Shown
  <2>4. WorkerCurrent'
    BY <1>7, <2>1 DEF DeleteStale, WorkerCurrent
  <2> QED BY <2>3, <2>4
<1>8. CASE WorkerSet
  <2>0. PICK a, n : a = worker.user /\ n = worker.n
    OBVIOUS
  <2>1. a \in members /\ a \in Users /\ n = Unread(a) /\ n \in Nat /\ SetExact(a, n) /\ UNCHANGED members
    BY <1>0, <1>8, <2>0, UnreadIsNat DEF WorkerSet, WorkerCurrent
  <2>2. /\ Shown(a)' = n
        /\ \A v \in Users \ {a} : counter'[v] = counter[v] /\ Shown(v)' = Shown(v)
    BY <2>1, ShownAfter
  <2>3. Exact'
    BY <1>0, <1>1, <2>1, <2>2 DEF Exact
  <2>4. worker'.pc \in {"list", "count"} /\ worker'.valid = worker.valid /\ worker'.todo \subseteq worker.todo
    BY <1>0, <1>8 DEF WorkerSet, Run
  <2> QED BY <1>8, <2>1, <2>3, <2>4 DEF WorkerSet, WorkerCurrent
<1> QED BY <1>3, <1>4, <1>5, <1>6, <1>7, <1>8 DEF Reconcile

\* When no request is under way nothing is owed: the counters are exact.
LEMMA BalancedIsExact ==
    TypeInv => \A r \in Requests : Pc(r) = "free" => (Balanced(r) <=> Exact) /\ Current(r)
  BY ShownIsNat, UnreadIsNat DEF Balanced, Exact, Due, TypeInv, StoreTyped, Current

\* Initially all counters are exact.
LEMMA SoloInit == MCInit => SoloInv
<1> SUFFICES ASSUME Init PROVE SoloInv
  BY DEF MCInit
<1>1. TypeInv
  BY TypeInit
<1>2. \A r \in Requests : Pc(r) = "free"
  BY FreeIsSlot DEF Init, Pc
<1>3. Exact
  <2>1. \A u : {m \in Msgs : IsUnread(u, m)} = {}
    BY DEF Init, IsUnread, Unsent
  <2> QED BY <2>1, FS_EmptySet DEF Init, Exact, Shown, Unread
<1>4. WorkerCurrent
  BY RestIsRun DEF Init, WorkerCurrent
<1> QED BY <1>1, <1>2, <1>3, <1>4, BalancedIsExact DEF SoloInv, Current

\* Every step keeps the invariant of requests that do not overlap.
LEMMA SoloStep == SoloInv /\ [MCNext]_mcVars => SoloInv'
<1> SUFFICES ASSUME SoloInv, [MCNext]_mcVars PROVE SoloInv'
  OBVIOUS
<1>1. TypeInv /\ TypeInv'
  BY TypeStep DEF SoloInv, MCNext, mcVars
<1>2. CASE UNCHANGED mcVars
  <2>1. \A u : Unread(u)' = Unread(u)
    BY <1>2, UnreadSame DEF mcVars, vars, IsUnread
  <2>2. UNCHANGED <<members, msg, counter, req, worker, solo>>
    BY <1>2 DEF mcVars, vars
  <2>3. \A r, u : Due(r, u)' = Due(r, u)
    BY <2>2 DEF Due, Pc, Unreaders
  <2>4. \A r \in Requests : Balanced(r) /\ Current(r) => Balanced(r)' /\ Current(r)'
    BY <2>1, <2>2, <2>3 DEF Balanced, Current, Shown, Pc, Unreaders
  <2>6. Exact /\ WorkerCurrent => Exact' /\ WorkerCurrent'
    BY <2>1, <2>2 DEF Exact, WorkerCurrent, Shown
  <2> QED BY <1>1, <2>2, <2>4, <2>6 DEF SoloInv, Sole, Idle, Pc
<1>3. ASSUME MCNext, solo, solo' PROVE SoloInv'
  <2>1. Running' <= 1 /\ faults' = 0 /\ Next
    BY <1>3 DEF MCNext, Fits
  <2>2. \A r \in Requests : Pc(r)' # "free" => Sole(r)'
    <3>1. (Running <= 1 => \A r \in Requests : Pc(r) # "free" => Sole(r))'
      BY OneRuns, PTL
    <3> QED BY <2>1, <3>1
  <2>3. \A r \in Requests : ~SendFails(r) /\ ~EditFails(r) /\ ~Abort(r)
    BY <1>1, <2>1, UnreadAssumption DEF TypeInv, SendFails, EditFails, Abort
  <2>4. ~RunFails
    BY <1>1, <2>1, UnreadAssumption DEF TypeInv, RunFails
  <2>5. \A r \in Requests : Pc(r)' = "free" => (Balanced(r)' <=> Exact') /\ Current(r)'
    <3>1. (TypeInv => \A r \in Requests : Pc(r) = "free" => (Balanced(r) <=> Exact) /\ Current(r))'
      BY BalancedIsExact, PTL
    <3> QED BY <1>1, <3>1
  <2>6. ASSUME NEW r \in Requests, Arrive(r) \/ Proceed(r) PROVE SoloInv'
    <3>1. \A q \in Requests \ {r} : req'[q] = req[q]
      <4>1. PICK s : Goto(r, s)
        BY <2>6 DEF Arrive, Proceed, Send, AddMember, RemoveMember, MarkRead, Rewrite, Delete, Load,
           Begin, Insert, Index, MarkUpdate, MarkDecrement, RewriteSave, DeleteRoomLoad, DeleteSave,
           CountUnread, SetUnread, DropCounter, IncrementOne, DeleteDecrement, Visited
      <4> QED BY <1>1, <4>1 DEF Goto, TypeInv, ReqTyped
    <3>2. worker.pc = "rest" => worker' = worker
      BY <2>6 DEF Arrive, Proceed, Send, AddMember, RemoveMember, MarkRead, Rewrite, Delete,
         Insert, Index, MarkUpdate, MarkDecrement, RewriteSave, DeleteRoomLoad, DeleteSave,
         CountUnread, SetUnread, DropCounter, RemoveForUser, IncrementOne, DeleteDecrement
    <3>3. Sole(r)
      <4>1. CASE Proceed(r)
        <5>1. Pc(r) # "free"
          BY <4>1 DEF Proceed, Insert, Index, MarkUpdate, MarkDecrement, RewriteSave,
             DeleteRoomLoad, DeleteSave, CountUnread, SetUnread, DropCounter, IncrementOne,
             DeleteDecrement
        <5> QED BY <1>3, <5>1 DEF SoloInv
      <4>2. CASE Arrive(r)
        <5>1. Pc(r)' # "free" /\ worker' = worker
          <6>1. ASSUME NEW s, Begin(r, s), s.pc # "free" PROVE Pc(r)' # "free"
            BY <1>1, <6>1 DEF Begin, Goto, Pc, TypeInv, ReqTyped
          <6>2. ASSUME NEW u, Send(r, u) PROVE Pc(r)' # "free"
            BY <6>1, <6>2 DEF Send, At
          <6>3. ASSUME NEW u, AddMember(r, u) \/ RemoveMember(r, u) PROVE Pc(r)' # "free"
            BY <6>1, <6>3 DEF AddMember, RemoveMember, At
          <6>4. ASSUME NEW u, NEW S, MarkRead(r, u, S) PROVE Pc(r)' # "free"
            BY <6>1, <6>4 DEF MarkRead, At
          <6>5. ASSUME NEW m, NEW pc \in {"rewrite", "room"}, Load(r, pc, m) PROVE Pc(r)' # "free"
            <7> DEFINE s == [At(pc, NoUser) EXCEPT !.msg = m, !.copy = msg[m]]
            <7>1. s.pc = pc
              BY DEF At
            <7> HIDE DEF s
            <7> QED BY <6>1, <6>5, <7>1 DEF Load, s
          <6>6. worker' = worker
            BY <4>2 DEF Arrive, Send, AddMember, RemoveMember, MarkRead, Rewrite, Delete
          <6> QED BY <4>2, <6>2, <6>3, <6>4, <6>6, <6>5 DEF Arrive, Rewrite, Delete
        <5> QED BY <2>2, <3>1, <5>1 DEF Sole, Pc
      <4> QED BY <2>6, <4>1, <4>2
    <3>4. Balanced(r)' /\ Current(r)' /\ Sole(r)'
      <4>1. Balanced(r) /\ Current(r)
        BY <1>3, <3>3 DEF SoloInv
      <4>2. Balanced(r)' /\ Current(r)'
        BY <1>1, <2>6, <4>1, ArriveBalanced, ProceedBalanced
      <4>3. Sole(r)'
        BY <3>1, <3>2, <3>3 DEF Sole, Pc
      <4> QED BY <4>2, <4>3
    <3>5. Pc(r)' = "free" => Exact' /\ WorkerCurrent'
      BY <1>1, <2>5, <3>4 DEF Sole, WorkerCurrent
    <3>6. \A q \in Requests : Sole(q)' => Balanced(q)' /\ Current(q)'
      <4> SUFFICES ASSUME NEW q \in Requests, Sole(q)', q # r PROVE Balanced(q)' /\ Current(q)'
        BY <3>4
      <4>1. Pc(r)' = "free" /\ Pc(q)' = "free"
        BY <3>4 DEF Sole
      <4> QED BY <1>1, <2>5, <3>5, <4>1
    <3>7. Idle' => Exact' /\ WorkerCurrent'
      BY <3>5 DEF Idle
    <3> QED BY <1>1, <2>2, <3>6, <3>7 DEF SoloInv
  <2>7. CASE Reconcile
    <3>1. UNCHANGED req /\ (worker.pc # "rest" \/ worker'.pc # "rest")
      BY <2>7 DEF Reconcile, ListRooms, WorkerCount, WorkerSet, ListCounters, DeleteStale, RunDone, Rest
    <3>2. Idle /\ Idle'
      BY <1>3, <2>2, <3>1 DEF SoloInv, Sole, Idle, Pc
    <3>3. Exact' /\ WorkerCurrent'
      BY <1>1, <1>3, <2>7, <3>2, WorkerExact DEF SoloInv
    <3> QED BY <1>1, <2>2, <2>5, <3>2, <3>3 DEF SoloInv, Idle
  <2> QED BY <2>1, <2>3, <2>4, <2>6, <2>7 DEF Next
<1> QED BY <1>1, <1>2, <1>3 DEF SoloInv, MCNext

\* Requests that do not overlap, in any order and about any users and
\* messages, adjust the counters exactly: what send and delete add and take
\* away one by one, what mark_read subtracts and what joining counts, comes to
\* the number of unread messages, and who left has no counter.
THEOREM ExactAlone == MCSpec => []SoloExactWhenIdle
<1>1. SoloInv => SoloExactWhenIdle
  BY DEF SoloInv, SoloExactWhenIdle, ExactWhenIdle, AtRest
<1> QED BY <1>1, SoloInit, SoloStep, PTL DEF MCSpec
====
