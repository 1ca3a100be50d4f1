--------------------------- MODULE UnreadCounters ---------------------------
(***************************************************************************)
(* The messages of one group room, who has read them, and the stored       *)
(* unread counter of every user (RoomUnreadCounter), which the handlers of *)
(* MessageService and RoomService adjust incrementally and a worker        *)
(* recomputes.  A step is one database call: requests interleave between   *)
(* the calls, and a call may raise.                                        *)
(*                                                                         *)
(* message.save() writes the whole document it loaded, is_deleted and      *)
(* read_by included.                                                       *)
(***************************************************************************)
EXTENDS Integers, FiniteSets, TLC

CONSTANTS
    Users,
    Owner,        \* created_by: a member that cannot be removed
    Msgs,         \* bound: the messages that may be sent
    Requests,     \* slots for concurrent requests
    NoUser,       \* no user
    NoMsg,        \* no message
    NoDoc,        \* no counter document
    Overlap,      \* the worker may run while requests are in flight
    MaxFaults     \* bound: calls that raise

ASSUME UnreadAssumption ==
    /\ Owner \in Users /\ NoUser \notin Users /\ NoMsg \notin Msgs /\ NoDoc \notin Nat
    /\ IsFiniteSet(Msgs) /\ IsFiniteSet(Requests)
    /\ Overlap \in BOOLEAN /\ MaxFaults \in Nat

VARIABLES
    members,      \* _member_ids of the room: its members and its creator
    msg,          \* [Msgs -> the message document]
    counter,      \* [Users -> unread_count, or NoDoc]
    req,          \* [Requests -> where the request is]
    worker,       \* where the reconciliation is
    faults

vars == <<members, msg, counter, req, worker, faults>>
store == <<members, msg, counter>>

Doc == [st : {"none", "live", "deleted", "gone"}, by : Users \cup {NoUser}, read : SUBSET Users]
Unsent == [st |-> "none", by |-> NoUser, read |-> {}]

\* msg and copy: the message a handler loaded; todo: the users, or the
\* messages, its loop has still to visit; n: a number of messages it computed.
At(pc, u) == [pc |-> pc, user |-> u, msg |-> NoMsg, copy |-> Unsent, todo |-> {}, n |-> 0]
Free == At("free", NoUser)
Rest == [pc |-> "rest", user |-> NoUser, valid |-> {}, todo |-> {}, n |-> 0]

Init ==
    /\ members \in {S \in SUBSET Users : Owner \in S}
    /\ msg = [m \in Msgs |-> Unsent]
    /\ counter = [u \in Users |-> NoDoc]
    /\ req = [r \in Requests |-> Free]
    /\ worker = Rest
    /\ faults = 0

\* The query of mark_read, mark_room_read and count_documents.
IsUnread(u, m) == msg[m].st = "live" /\ msg[m].by # u /\ u \notin msg[m].read
Unread(u) == Cardinality({m \in Msgs : IsUnread(u, m)})

Pc(r) == req[r].pc
Goto(r, state) == req' = [req EXCEPT ![r] = state]
Begin(r, state) == Pc(r) = "free" /\ (Overlap \/ worker.pc = "rest") /\ Goto(r, state)

\* The request has visited x; after the last visit it goes on to state.
Visited(r, x, state) ==
    LET left == req[r].todo \ {x}
    IN  Goto(r, IF left = {} THEN state ELSE [req[r] EXCEPT !.todo = left])

-----------------------------------------------------------------------------
(* UnreadCounterService *)

Increment(u) == counter' = [counter EXCEPT ![u] = IF @ = NoDoc THEN 1 ELSE @ + 1]

\* Mutant: the counter is not floored at zero.
DecrementUnfloored(u, n) == counter' = [counter EXCEPT ![u] = IF @ = NoDoc THEN @ ELSE @ - n]

Decrement(u, n) ==
    counter' = [counter EXCEPT ![u] =
        IF @ = NoDoc THEN @ ELSE IF @ > n THEN @ - n ELSE 0]

SetExact(u, n) == counter' = [counter EXCEPT ![u] = n]

\* The worker deletes the documents it listed, not their successors.
RemoveForUser(u) ==
    /\ counter' = [counter EXCEPT ![u] = NoDoc]
    /\ worker' = IF worker.pc = "purge" THEN [worker EXCEPT !.todo = @ \ {u}] ELSE worker

-----------------------------------------------------------------------------
(* send *)

\* The bound on messages leaves one for every send under way.
Send(r, u) ==
    /\ u \in members
    /\ Cardinality({q \in Requests : Pc(q) = "insert"}) < Cardinality({m \in Msgs : msg[m].st = "none"})
    /\ Begin(r, [At("insert", u) EXCEPT !.todo = members \ {u}])
    /\ UNCHANGED <<store, worker, faults>>

Insert(r, m) ==
    /\ Pc(r) = "insert" /\ msg[m].st = "none"
    /\ msg' = [msg EXCEPT ![m] = [st |-> "live", by |-> req[r].user, read |-> {req[r].user}]]
    /\ Goto(r, [req[r] EXCEPT !.pc = "index", !.msg = m])
    /\ UNCHANGED <<members, counter, worker, faults>>

Index(r) ==
    /\ Pc(r) = "index"
    /\ Goto(r, IF req[r].todo = {} THEN Free ELSE [req[r] EXCEPT !.pc = "increment"])
    /\ UNCHANGED <<store, worker, faults>>

\* increment_for_new_message, for the members loaded before the insert.
IncrementOne(r, u) ==
    /\ Pc(r) = "increment" /\ u \in req[r].todo
    /\ Increment(u)
    /\ Visited(r, u, Free)
    /\ UNCHANGED <<members, msg, worker, faults>>

\* _rollback_send_after_insert: the counters already incremented stay so.
SendFails(r) ==
    /\ Pc(r) \in {"index", "increment"} /\ faults < MaxFaults
    /\ faults' = faults + 1
    /\ msg' = [msg EXCEPT ![req[r].msg].st = "gone"] \/ UNCHANGED msg
    /\ Goto(r, Free)
    /\ UNCHANGED <<members, counter, worker>>

-----------------------------------------------------------------------------
(* mark_read and mark_room_read *)

\* S: the one message, or all messages of the room.
MarkRead(r, u, S) ==
    /\ u \in members
    /\ Begin(r, [At("mark", u) EXCEPT !.todo = S])
    /\ UNCHANGED <<store, worker, faults>>

MarkUpdate(r) ==
    LET u == req[r].user
        hit == {m \in req[r].todo : IsUnread(u, m)}
    IN  /\ Pc(r) = "mark"
        /\ msg' = [m \in Msgs |-> IF m \in hit THEN [msg[m] EXCEPT !.read = @ \cup {u}] ELSE msg[m]]
        /\ Goto(r, IF hit = {} THEN Free ELSE [At("decrement", u) EXCEPT !.n = Cardinality(hit)])
        /\ UNCHANGED <<members, counter, worker, faults>>

MarkDecrement(r) ==
    /\ Pc(r) = "decrement"
    /\ Decrement(req[r].user, req[r].n)
    /\ Goto(r, Free)
    /\ UNCHANGED <<members, msg, worker, faults>>

-----------------------------------------------------------------------------
(* delete, and the handlers that load a message and save it *)

Save(r, doc) == msg' = [msg EXCEPT ![req[r].msg] = doc]

Load(r, pc, m) == Begin(r, [At(pc, NoUser) EXCEPT !.msg = m, !.copy = msg[m]])

\* edit, add_attachment, get_audio_message_transcription, update_reaction.
Rewrite(r, m) ==
    /\ msg[m].st = "live"
    /\ Load(r, "rewrite", m)
    /\ UNCHANGED <<store, worker, faults>>

RewriteSave(r) ==
    /\ Pc(r) = "rewrite"
    /\ Save(r, req[r].copy)
    /\ Goto(r, Free)
    /\ UNCHANGED <<members, counter, worker, faults>>

\* The index of an edit fails: _rollback_edit_after_index_failure saves again.
EditFails(r) ==
    /\ Pc(r) = "rewrite" /\ faults < MaxFaults
    /\ faults' = faults + 1
    /\ Save(r, req[r].copy)
    /\ UNCHANGED <<members, counter, req, worker>>

\* A message already deleted is left as it is.
Delete(r, m) ==
    /\ msg[m].st = "live"
    /\ Load(r, "room", m)
    /\ UNCHANGED <<store, worker, faults>>

\* Mutant: whoever has read the message is decremented too.
DeleteReadersToo(r) ==
    LET todo == members \ {req[r].copy.by}
    IN  /\ Pc(r) = "room"
        /\ Goto(r, [req[r] EXCEPT !.pc = IF todo = {} THEN "delete" ELSE "uncount", !.todo = todo])
        /\ UNCHANGED <<store, worker, faults>>

DeleteRoomLoad(r) ==
    LET todo == members \ ({req[r].copy.by} \cup req[r].copy.read)
    IN  /\ Pc(r) = "room"
        /\ Goto(r, [req[r] EXCEPT !.pc = IF todo = {} THEN "delete" ELSE "uncount", !.todo = todo])
        /\ UNCHANGED <<store, worker, faults>>

DeleteDecrement(r, u) ==
    /\ Pc(r) = "uncount" /\ u \in req[r].todo
    /\ Decrement(u, 1)
    /\ Visited(r, u, [req[r] EXCEPT !.pc = "delete", !.todo = {}])
    /\ UNCHANGED <<members, msg, worker, faults>>

DeleteSave(r) ==
    /\ Pc(r) = "delete"
    /\ Save(r, [req[r].copy EXCEPT !.st = "deleted"])
    /\ Goto(r, Free)
    /\ UNCHANGED <<members, counter, worker, faults>>

-----------------------------------------------------------------------------
(* add_group_member, join_by_invite; remove_group_member, leave_group *)

AddMember(r, u) ==
    /\ Begin(r, At("count", u))
    /\ members' = members \cup {u}
    /\ UNCHANGED <<msg, counter, worker, faults>>

CountUnread(r) ==
    /\ Pc(r) = "count"
    /\ Goto(r, [req[r] EXCEPT !.pc = "set", !.n = Unread(req[r].user)])
    /\ UNCHANGED <<store, worker, faults>>

SetUnread(r) ==
    /\ Pc(r) = "set"
    /\ SetExact(req[r].user, req[r].n)
    /\ Goto(r, Free)
    /\ UNCHANGED <<members, msg, worker, faults>>

RemoveMember(r, u) ==
    /\ u # Owner
    /\ Begin(r, At("drop", u))
    /\ members' = members \ {u}
    /\ UNCHANGED <<msg, counter, worker, faults>>

DropCounter(r) ==
    /\ Pc(r) = "drop"
    /\ RemoveForUser(req[r].user)
    /\ Goto(r, Free)
    /\ UNCHANGED <<members, msg, faults>>

\* A call raises, or the process dies: the request ends where it is.
Abort(r) ==
    /\ Pc(r) # "free" /\ faults < MaxFaults
    /\ faults' = faults + 1
    /\ Goto(r, Free)
    /\ UNCHANGED <<store, worker>>

-----------------------------------------------------------------------------
(* UnreadCounterReconciliationWorker.run_once *)

Idle == \A r \in Requests : Pc(r) = "free"

ListRooms ==
    /\ worker.pc = "rest"
    /\ Overlap \/ Idle
    /\ worker' = [Rest EXCEPT !.pc = "count", !.valid = members, !.todo = members]
    /\ UNCHANGED <<store, req, faults>>

WorkerCount(u) ==
    /\ worker.pc = "count" /\ u \in worker.todo
    /\ worker' = [worker EXCEPT !.pc = "set", !.user = u, !.n = Unread(u)]
    /\ UNCHANGED <<store, req, faults>>

WorkerSet ==
    LET left == worker.todo \ {worker.user}
    IN  /\ worker.pc = "set"
        /\ SetExact(worker.user, worker.n)
        /\ worker' = [worker EXCEPT !.pc = IF left = {} THEN "list" ELSE "count", !.todo = left]
        /\ UNCHANGED <<members, msg, req, faults>>

\* Mutant: the counters of the rooms just processed are taken for stale.
ListCountersInverted ==
    /\ worker.pc = "list"
    /\ worker' = [Rest EXCEPT !.pc = "purge",
                              !.todo = {u \in worker.valid : counter[u] # NoDoc}]
    /\ UNCHANGED <<store, req, faults>>

ListCounters ==
    /\ worker.pc = "list"
    /\ worker' = [Rest EXCEPT !.pc = "purge",
                              !.todo = {u \in Users \ worker.valid : counter[u] # NoDoc}]
    /\ UNCHANGED <<store, req, faults>>

DeleteStale(u) ==
    /\ worker.pc = "purge" /\ u \in worker.todo
    /\ RemoveForUser(u)
    /\ UNCHANGED <<members, msg, req, faults>>

RunDone ==
    /\ worker.pc = "purge" /\ worker.todo = {}
    /\ worker' = Rest
    /\ UNCHANGED <<store, req, faults>>

\* run_once raises: _run logs it and sleeps again.
RunFails ==
    /\ worker.pc # "rest" /\ faults < MaxFaults
    /\ faults' = faults + 1
    /\ worker' = Rest
    /\ UNCHANGED <<store, req>>

-----------------------------------------------------------------------------
Arrive(r) ==
    \/ \E u \in Users : Send(r, u) \/ AddMember(r, u) \/ RemoveMember(r, u)
    \/ \E u \in Users, S \in {{m} : m \in Msgs} \cup {Msgs} : MarkRead(r, u, S)
    \/ \E m \in Msgs : Rewrite(r, m) \/ Delete(r, m)

Proceed(r) ==
    \/ (\E m \in Msgs : Insert(r, m)) \/ Index(r)
    \/ MarkUpdate(r) \/ MarkDecrement(r) \/ RewriteSave(r)
    \/ DeleteRoomLoad(r) \/ DeleteSave(r)
    \/ CountUnread(r) \/ SetUnread(r) \/ DropCounter(r)
    \/ \E u \in Users : IncrementOne(r, u) \/ DeleteDecrement(r, u)

Reconcile ==
    \/ ListRooms \/ WorkerSet \/ ListCounters \/ RunDone
    \/ \E u \in Users : WorkerCount(u) \/ DeleteStale(u)

Next ==
    \/ \E r \in Requests : Arrive(r) \/ Proceed(r) \/ SendFails(r) \/ EditFails(r) \/ Abort(r)
    \/ Reconcile \/ RunFails

Spec == Init /\ [][Next]_vars

\* The worker's loop goes on for as long as the application runs.
FairSpec == Spec /\ WF_vars(Reconcile)

-----------------------------------------------------------------------------
\* Messages, counters and requests stay in their types: a counter is never
\* negative.
TypeOK ==
    /\ members \in SUBSET Users /\ Owner \in members
    /\ msg \in [Msgs -> Doc]
    /\ counter \in [Users -> Nat \cup {NoDoc}]
    /\ \A r \in Requests : req[r].copy \in Doc /\ req[r].n \in Nat
    /\ worker.valid \in SUBSET Users /\ worker.todo \in SUBSET Users /\ worker.n \in Nat
    /\ faults \in 0..MaxFaults

\* get_counts_for_user shows no document as zero.
Shown(u) == IF counter[u] = NoDoc THEN 0 ELSE counter[u]

Exact ==
    /\ \A u \in members : Shown(u) = Unread(u)
    /\ \A u \in Users \ members : counter[u] = NoDoc

AtRest == Idle /\ worker.pc = "rest"

\* When nothing is in flight, every member is shown exactly the number of
\* messages it has not read, and no counter of a former member is left.
ExactWhenIdle == AtRest => Exact

\* A deleted message never comes back ("Deleted messages cannot be edited",
\* messages/service.py:737).
DeletedIsFinal ==
    [][\A m \in Msgs : msg[m].st = "deleted" => msg'[m].st = "deleted"]_vars

\* "The worker periodically recomputes the counters and corrects the drift"
\* (README.md:88): whatever the requests left behind, once they stop the
\* counters become exact and stay so.
DriftIsRepaired == <>[]Idle => <>[]Exact
=============================================================================
