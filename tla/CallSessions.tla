---------------------------- MODULE CallSessions ----------------------------
(***************************************************************************)
(* Audio calls of one chat room: the call_sessions collection, the         *)
(* requests of CallService and the room operations that clean up after     *)
(* themselves by calling it (rooms/router.py).                             *)
(*                                                                         *)
(* A request loads a call document, awaits (access check, user lookup,     *)
(* LiveKit) and saves the whole document it holds, so another request's    *)
(* save in between is overwritten.  The reads a request makes before its   *)
(* first write are one step.  A time stamp is modelled by whether it is    *)
(* set; calls are numbered in the order of created_at.  The decision of    *)
(* room_service.get_for_user is taken from the room document (the cache in *)
(* front of it belongs to the room component).                             *)
(***************************************************************************)
EXTENDS Naturals, SequencesExt

CONSTANTS
    Users,
    Owner,         \* room.created_by
    Requests,      \* slots for concurrent requests
    MaxCalls,      \* bound: calls created
    Failures       \* LiveKit, the database or the process may fail a request

ASSUME UsersAssumption == Owner \in Users
ASSUME CallBoundAssumption == MaxCalls \in Nat /\ Failures \in BOOLEAN /\ IsFiniteSet(Requests)

VARIABLES
    members,       \* room.members; {} once the room is deleted
    roomExists,
    calls,         \* sequence of call documents
    req            \* [Requests -> the request in the slot]

vars == <<members, roomExists, calls, req>>

-----------------------------------------------------------------------------
(* Documents *)

\* CallParticipantState; `in' tells whether the user is in call.participants.
Participant == [in : BOOLEAN, rang : BOOLEAN, joined : BOOLEAN,
                left : BOOLEAN, missed : BOOLEAN, acked : BOOLEAN]
State(in) == [in |-> in, rang |-> FALSE, joined |-> FALSE,
              left |-> FALSE, missed |-> FALSE, acked |-> FALSE]

Reasons == {"none", "ended", "cancelled", "room_deleted", "member_removed"}
CallDoc == [status : {"ringing", "active", "ended"}, initiator : Users,
            answered : BOOLEAN, reason : Reasons, parts : [Users -> Participant]]

NewCall(u, invited) ==
    [status |-> "ringing", initiator |-> u, answered |-> FALSE, reason |-> "none",
     parts |-> [v \in Users |-> State(v \in invited)]]

Present(p) == p.joined /\ ~p.left
Pending(p) == p.in /\ ~p.left

\* Mutant: whoever was invited counts as pending, departed or not.
PendingInvited(d) == \E u \in Users \ {d.initiator} : d.parts[u].in

HasJoinedNonInitiator(d) == \E u \in Users \ {d.initiator} : Present(d.parts[u])
HasPendingNonInitiator(d) == \E u \in Users \ {d.initiator} : Pending(d.parts[u])

\* join, on the loaded document.
Joined(d, u) ==
    LET parts == [d.parts EXCEPT ![u].in = TRUE, ![u].joined = TRUE, ![u].left = FALSE]
        answer == \E v \in Users \ {d.initiator} : Present(parts[v])
    IN  [d EXCEPT !.parts = parts,
                  !.status = IF answer THEN "active" ELSE @,
                  !.answered = @ \/ answer]

\* mark_ringing.
Rang(d, u) == [d EXCEPT !.parts[u].in = TRUE, !.parts[u].rang = TRUE]

\* leave and remove_participant.
Left(d, u) == [d EXCEPT !.parts[u].left = TRUE]

\* Mutant: a participant who declined is marked as having missed the call.
ClosedDeclinedIsMissed(d, u) ==
    LET p == d.parts[u]
    IN  [p EXCEPT !.left = @ \/ p.joined,
                  !.missed = @ \/ (p.in /\ u # d.initiator /\ ~p.joined)]

\* _close_joined_participants and _mark_missed_participants for one user.
Closed(d, u) ==
    LET p == d.parts[u]
    IN  [p EXCEPT !.left = @ \/ p.joined,
                  !.missed = @ \/ (p.in /\ u # d.initiator /\ ~p.joined /\ ~p.left)]

\* _end_call.
Ended(d, reason) ==
    [d EXCEPT !.status = "ended", !.reason = reason,
              !.parts = [u \in Users |-> Closed(d, u)]]

\* acknowledge_missed_call.
Acked(d, u) == [d EXCEPT !.parts[u].acked = TRUE]

\* Mutant: a reason that is not a CallEndedReason.
EndReasonDeclined(d) == IF d.answered THEN "ended" ELSE "declined"

\* ended_reason of leave and end.
EndReason(d) == IF d.answered THEN "ended" ELSE "cancelled"

\* should_end of leave, and the same test in remove_participant.
NobodyElse(d) == ~HasJoinedNonInitiator(d) /\ ~HasPendingNonInitiator(d)
ShouldEnd(d, u) == IF u = d.initiator THEN ~HasJoinedNonInitiator(d) ELSE NobodyElse(d)

-----------------------------------------------------------------------------
(* Requests *)

Steps == {"free", "insert", "join", "ring", "leave", "kick", "end", "ack",
          "member_removed", "room_deleted"}

\* A field that a request no longer needs holds Owner, 0, NoDoc or "none".
NoDoc == NewCall(Owner, {})
Request(pc, u, t, c, d, reason) ==
    [pc |-> pc, user |-> u, target |-> t, call |-> c, doc |-> d, reason |-> reason]
Free == Request("free", Owner, Owner, 0, NoDoc, "none")

Init ==
    /\ members \in SUBSET Users
    /\ Owner \in members
    /\ roomExists = TRUE
    /\ calls = <<>>
    /\ req = [r \in Requests |-> Free]

Live(c) == calls[c].status # "ended"
LiveCalls == {c \in DOMAIN calls : Live(c)}

\* room_service.get_for_user.
Access(u) == roomExists /\ (u = Owner \/ u \in members)

\* _ensure_call_manager.
Manages(u, c) == u \in {Owner, calls[c].initiator}

Begin(r, request) ==
    /\ req[r].pc = "free"
    /\ req' = [req EXCEPT ![r] = request]

LoadOnly == UNCHANGED <<members, roomExists, calls>>

\* invite up to the insert: 409 when a live call is found.
Invite(r, u) ==
    /\ Access(u)
    /\ LiveCalls = {}
    /\ Begin(r, Request("insert", Owner, Owner, 0, NewCall(u, members \cup {Owner}), "none"))
    /\ LoadOnly

\* Mutant: join without the status check.
LoadJoinUnchecked(r, u, c) ==
    /\ Access(u)
    /\ Begin(r, Request("join", u, Owner, c, calls[c], "none"))
    /\ LoadOnly

\* The loads of the requests on one call; early returns and errors leave
\* nothing to do and are no step.
LoadJoin(r, u, c) ==
    /\ Access(u) /\ Live(c)
    /\ Begin(r, Request("join", u, Owner, c, calls[c], "none"))
    /\ LoadOnly

LoadRinging(r, u, c) ==
    /\ Access(u) /\ Live(c) /\ ~calls[c].parts[u].rang
    /\ Begin(r, Request("ring", u, Owner, c, calls[c], "none"))
    /\ LoadOnly

LoadLeave(r, u, c) ==
    /\ Access(u) /\ Live(c) /\ Pending(calls[c].parts[u])
    /\ Begin(r, Request("leave", u, Owner, c, calls[c], "none"))
    /\ LoadOnly

LoadEnd(r, u, c) ==
    /\ Access(u) /\ Live(c) /\ Manages(u, c)
    /\ Begin(r, Request("end", Owner, Owner, c, calls[c], EndReason(calls[c])))
    /\ LoadOnly

LoadKick(r, u, t, c) ==
    /\ Access(u) /\ Live(c) /\ Manages(u, c) /\ calls[c].parts[t].in
    /\ Begin(r, Request("kick", Owner, t, c, calls[c], "none"))
    /\ LoadOnly

\* No room access is needed to acknowledge.
LoadAck(r, u, c) ==
    /\ calls[c].parts[u].missed /\ ~calls[c].parts[u].acked
    /\ Begin(r, Request("ack", u, Owner, c, calls[c], "none"))
    /\ LoadOnly

-----------------------------------------------------------------------------
(* The writes *)

Save(r, d) == calls' = [calls EXCEPT ![req[r].call] = d]
Reply(r) == req' = [req EXCEPT ![r] = Free]
RoomSame == UNCHANGED <<members, roomExists>>

InsertCall(r) ==
    /\ req[r].pc = "insert"
    /\ Len(calls) < MaxCalls
    /\ calls' = Append(calls, req[r].doc)
    /\ Reply(r) /\ RoomSame

Join(r) == req[r].pc = "join" /\ Save(r, Joined(req[r].doc, req[r].user)) /\ Reply(r) /\ RoomSame
MarkRinging(r) == req[r].pc = "ring" /\ Save(r, Rang(req[r].doc, req[r].user)) /\ Reply(r) /\ RoomSame
Acknowledge(r) == req[r].pc = "ack" /\ Save(r, Acked(req[r].doc, req[r].user)) /\ Reply(r) /\ RoomSame

\* Both save the departure first and then go on to _end_call with the
\* document they hold.
Depart(r, d, end, reason) ==
    /\ Save(r, d)
    /\ IF end THEN req' = [req EXCEPT ![r] = Request("end", Owner, Owner, @.call, d, reason)]
              ELSE Reply(r)
    /\ RoomSame

Leave(r) ==
    LET d == Left(req[r].doc, req[r].user)
    IN  req[r].pc = "leave" /\ Depart(r, d, ShouldEnd(d, req[r].user), EndReason(d))

RemoveParticipant(r) ==
    LET d == Left(req[r].doc, req[r].target)
    IN  req[r].pc = "kick" /\ Depart(r, d, NobodyElse(d), "member_removed")

\* _end_call after LiveKit deleted its room.
EndCall(r) ==
    /\ req[r].pc = "end"
    /\ Save(r, Ended(req[r].doc, req[r].reason))
    /\ Reply(r) /\ RoomSame

\* LiveKit raises (503), the database raises, or the request is cancelled.
Fail(r) ==
    /\ Failures
    /\ req[r].pc # "free"
    /\ Reply(r)
    /\ UNCHANGED <<members, roomExists, calls>>

-----------------------------------------------------------------------------
(* Room operations and the call clean-up that follows them *)

AddMember(u) ==
    /\ roomExists
    /\ members' = members \cup {u}
    /\ UNCHANGED <<roomExists, calls, req>>

\* remove_group_member by an admin, leave_group by the member itself.  The
\* owner may have made any member an admin.
RemoveMember(r, u, t) ==
    /\ roomExists
    /\ t # Owner
    /\ u = Owner \/ u \in members
    /\ members' = members \ {t}
    /\ Begin(r, Request("member_removed", u, t, 0, NoDoc, "none"))
    /\ UNCHANGED <<roomExists, calls>>

\* What _get_live_call_for_room returns.
Newest(c) == c \in LiveCalls /\ \A b \in LiveCalls : b <= c

\* handle_room_member_removed goes through remove_participant, with the
\* actor's own access and call permissions.
Removable(u, t, c) == Newest(c) /\ Access(u) /\ Manages(u, c) /\ calls[c].parts[t].in

HandleMemberRemoved(r) ==
    LET u == req[r].user
        t == req[r].target
    IN  /\ req[r].pc = "member_removed"
        /\ \/ /\ \A c \in DOMAIN calls : ~Removable(u, t, c)
              /\ Reply(r)
           \/ \E c \in DOMAIN calls :
                /\ Removable(u, t, c)
                /\ req' = [req EXCEPT ![r] = Request("kick", Owner, t, c, calls[c], "none")]
        /\ LoadOnly

\* delete_room by the owner; for a room that is already gone it returns
\* without asking who calls, and the clean-up runs again.
DeleteRoom(r, u) ==
    /\ roomExists => u = Owner
    /\ roomExists' = FALSE /\ members' = {}
    /\ Begin(r, Request("room_deleted", Owner, Owner, 0, NoDoc, "none"))
    /\ UNCHANGED calls

HandleRoomDeleted(r) ==
    /\ req[r].pc = "room_deleted"
    /\ \/ LiveCalls = {} /\ Reply(r)
       \/ \E c \in DOMAIN calls :
            /\ Newest(c)
            /\ req' = [req EXCEPT ![r] =
                        Request("end", Owner, Owner, c, calls[c], "room_deleted")]
    /\ LoadOnly

-----------------------------------------------------------------------------
Arrive(r) ==
    \E u \in Users :
        \/ Invite(r, u) \/ DeleteRoom(r, u)
        \/ \E t \in Users : RemoveMember(r, u, t)
        \/ \E c \in DOMAIN calls :
            \/ LoadJoin(r, u, c) \/ LoadRinging(r, u, c) \/ LoadLeave(r, u, c)
            \/ LoadEnd(r, u, c) \/ LoadAck(r, u, c)
            \/ \E t \in Users : LoadKick(r, u, t, c)

Proceed(r) ==
    \/ InsertCall(r) \/ Join(r) \/ MarkRinging(r) \/ Acknowledge(r) \/ Leave(r)
    \/ RemoveParticipant(r) \/ EndCall(r)
    \/ HandleMemberRemoved(r) \/ HandleRoomDeleted(r)

Next ==
    \/ \E r \in Requests : Arrive(r) \/ Proceed(r) \/ Fail(r)
    \/ \E u \in Users : AddMember(u)

Spec == Init /\ [][Next]_vars

\* The event loop resumes every request; nobody has to send one.
FairSpec == Spec /\ \A r \in Requests : WF_vars(Proceed(r))

-----------------------------------------------------------------------------
\* Call documents keep the fields of CallSession, with the status and the
\* ended_reason of its model.
TypeOK ==
    /\ members \subseteq Users /\ roomExists \in BOOLEAN
    /\ calls \in Seq(CallDoc)
    /\ req \in [Requests -> [pc : Steps, user : Users, target : Users, call : Nat,
                             doc : CallDoc, reason : Reasons]]

\* What every reader of a call document relies on: the end is recorded
\* completely or not at all, the status tells whether anybody answered, and
\* nobody is both missed and a party to the call.
Coherent(d) ==
    LET others == Users \ {d.initiator}
    IN  /\ d.status = "ended" <=> d.reason # "none"
        /\ d.status = "active" => d.answered
        /\ d.status = "ringing" => ~d.answered
        /\ d.answered <=> \E u \in others : d.parts[u].joined
        /\ d.reason = "ended" => d.answered
        /\ d.reason = "cancelled" => ~d.answered
        /\ \A u \in Users :
            LET p == d.parts[u]
            IN  /\ p.rang \/ p.joined \/ p.left \/ p.missed => p.in
                /\ p.missed => d.status = "ended" /\ u \in others /\ ~p.joined /\ ~p.left
                /\ p.acked => p.missed
                /\ d.status = "ended" /\ p.joined => p.left
                /\ d.status = "ended" /\ p.in /\ u \in others => p.joined \/ p.left \/ p.missed

\* Every stored call document is coherent, however stale the copies were
\* that concurrent requests saved over each other.
DocumentsCoherent == \A c \in DOMAIN calls : Coherent(calls[c])

\* "Call has already ended" (calls/service.py:308): an ended call is never
\* ringing or active again.
StaysEnded == \A c \in DOMAIN calls : ~Live(c) => ~Live(c)'
EndedIsFinal == [][StaysEnded]_vars

Quiet == \A r \in Requests : req[r].pc = "free"

\* No zombie call: when no request is under way, a live call has a
\* participant who did not leave.  A live call without one would turn away
\* every invite of the room.
AbandonedCallEnds ==
    Quiet => \A c \in LiveCalls : \E u \in Users : Pending(calls[c].parts[u])

\* "call cleanup runs on member removal" (tests/api/test_calls.py:262): when no
\* request is under way, nobody outside the room is present in a live call.
RemovedMemberIsOut ==
    Quiet => \A c \in LiveCalls, u \in Users : Present(calls[c].parts[u]) => Access(u)
=============================================================================
