----------------------------- MODULE RoomAccess -----------------------------
(***************************************************************************)
(* One group room: its document, the access cache in front of it, and the  *)
(* requests of RoomService that read, change, pin in and delete it.        *)
(*                                                                         *)
(* A step is one database or cache call; the checks a handler makes on a   *)
(* document belong to the step that loaded it.  Most handlers change the   *)
(* document with an update operator, which does nothing when the document  *)
(* is gone.  pin and unpin save the whole document they loaded, and        *)
(* Beanie's save is an upsert.  The cache fails open, the default.         *)
(***************************************************************************)
EXTENDS Naturals, SequencesExt

CONSTANTS
    Users,
    Owner,          \* room.created_by
    Msgs,           \* messages of the room
    Requests,       \* slots for concurrent requests
    NoRoom,         \* no document
    PinLimit,       \* _PIN_LIMIT
    MaxFaults       \* bound: calls that fail

Room == [members : SUBSET Users, admins : SUBSET Users,
         invite : BOOLEAN, pins : Seq(Msgs)]

ASSUME RoomAssumption ==
    /\ Owner \in Users /\ Msgs # {} /\ NoRoom \notin Room /\ IsFiniteSet(Requests)
    /\ PinLimit \in Nat \ {0} /\ MaxFaults \in Nat

VARIABLES
    room,           \* the document, or NoRoom
    cache,          \* [Users -> "none", "yes" or "no"], TTL 60 seconds
    deleted,        \* messages with is_deleted
    req,            \* [Requests -> the request in the slot]
    queued,         \* the room's cleanup job was enqueued
    faults,         \* calls that failed so far
    everMember,     \* history: users who were members at some time
    lost            \* history: a deletion ended between its writes

vars == <<room, cache, deleted, req, queued, faults, everMember, lost>>

-----------------------------------------------------------------------------
(* Documents and requests *)

Exists == room # NoRoom
IsAdmin(u) == Exists /\ (u = Owner \/ u \in room.admins)
Allowed(u) == u = Owner \/ u \in room.members

\* who: the user whose access is checked, added, removed, ...; msg: the
\* message pinned or deleted; ok: what the loaded document says about the
\* user; copy: the loaded document, where it is written back.
Accessing == {"read", "pin", "unpin", "leave"}
Deleting == {"snapshot", "unlink", "purge", "restore", "clean"}
Steps == {"free", "check", "fill", "message", "save", "add", "pull", "invalidate",
          "promote", "demote", "invite", "revoke", "unpin_deleted"} \cup Deleting
Request == [pc : Steps, op : Accessing \cup {"none"}, who : Users, msg : Msgs,
            ok : BOOLEAN, copy : Room \cup {NoRoom}]

NoMsg == CHOOSE m \in Msgs : TRUE
At(pc, u) == [pc |-> pc, op |-> "none", who |-> u, msg |-> NoMsg,
              ok |-> FALSE, copy |-> NoRoom]
Free == At("free", Owner)

Pc(r) == req[r].pc
Who(r) == req[r].who
Goto(r, state) == req' = [req EXCEPT ![r] = state]

\* update_one({"_id": ...}, ...)
Update(doc) == room' = IF Exists THEN doc ELSE NoRoom
Admit(S) == everMember' = everMember \cup S

\* create_group has inserted the room.
Init ==
    /\ \E M \in SUBSET Users :
        /\ room = [members |-> M \cup {Owner}, admins |-> {}, invite |-> FALSE, pins |-> <<>>]
        /\ everMember = M \cup {Owner}
    /\ cache = [u \in Users |-> "none"]
    /\ deleted = {}
    /\ req = [r \in Requests |-> Free]
    /\ queued = FALSE
    /\ faults = 0
    /\ lost = FALSE

-----------------------------------------------------------------------------
(* get_for_user and _ensure_room_access *)

\* The document is loaded, 404 when there is none.  `read' stands for every
\* handler that only asks for access; leave is refused to the owner.
Load(r, op, u, m) ==
    /\ Pc(r) = "free" /\ Exists
    /\ op = "leave" => u # Owner
    /\ Goto(r, [At("check", u) EXCEPT !.op = op, !.msg = m, !.ok = Allowed(u),
                    !.copy = IF op \in {"pin", "unpin"} THEN room ELSE NoRoom])
    /\ UNCHANGED <<room, cache, deleted, queued, faults, everMember, lost>>

AfterAccess(r) ==
    CASE req[r].op = "pin"   -> "message"
      [] req[r].op = "unpin" -> "save"
      [] req[r].op = "leave" -> "pull"
      [] OTHER               -> "free"

Grant(r) ==
    LET pc == AfterAccess(r)
    IN  Goto(r, IF pc = "free" THEN Free ELSE [req[r] EXCEPT !.pc = pc, !.ok = TRUE])

\* Mutant: any cached value lets the user in.
CheckAnyHit(r) ==
    /\ Pc(r) = "check"
    /\ IF cache[Who(r)] # "none" THEN Grant(r) ELSE Goto(r, [req[r] EXCEPT !.pc = "fill"])
    /\ UNCHANGED <<room, cache, deleted, queued, faults, everMember, lost>>

\* A cached decision is final; 403 when it is "no".
Check(r) ==
    /\ Pc(r) = "check"
    /\ CASE cache[Who(r)] = "yes"  -> Grant(r)
         [] cache[Who(r)] = "no"   -> Goto(r, Free)
         [] cache[Who(r)] = "none" -> Goto(r, [req[r] EXCEPT !.pc = "fill"])
    /\ UNCHANGED <<room, cache, deleted, queued, faults, everMember, lost>>

\* The decision of the document loaded earlier is cached, whatever happened
\* to the room since.
Fill(r) ==
    /\ Pc(r) = "fill"
    /\ cache' = [cache EXCEPT ![Who(r)] = IF req[r].ok THEN "yes" ELSE "no"]
    /\ IF req[r].ok THEN Grant(r) ELSE Goto(r, Free)
    /\ UNCHANGED <<room, deleted, queued, faults, everMember, lost>>

\* Mutant: entries are set without a TTL.
CacheWithoutTtl(u) == FALSE /\ UNCHANGED vars

CacheExpires(u) ==
    /\ cache[u] # "none"
    /\ cache' = [cache EXCEPT ![u] = "none"]
    /\ UNCHANGED <<room, deleted, req, queued, faults, everMember, lost>>

-----------------------------------------------------------------------------
(* Members and admins *)

\* add_group_member by the owner or an admin.
LoadAdd(r, a, u) ==
    /\ Pc(r) = "free" /\ IsAdmin(a)
    /\ Goto(r, At("add", u))
    /\ UNCHANGED <<room, cache, deleted, queued, faults, everMember, lost>>

\* join_by_invite: the room is looked up by its active token.
Join(r, u) ==
    /\ Pc(r) = "free" /\ Exists
    /\ room.invite /\ u \notin room.members
    /\ Goto(r, At("add", u))
    /\ UNCHANGED <<room, cache, deleted, queued, faults, everMember, lost>>

\* $addToSet
Add(r) ==
    /\ Pc(r) = "add"
    /\ Update([room EXCEPT !.members = @ \cup {Who(r)}])
    /\ Admit(IF Exists THEN {Who(r)} ELSE {})
    /\ Goto(r, At("invalidate", Who(r)))
    /\ UNCHANGED <<cache, deleted, queued, faults, lost>>

\* remove_group_member: never the creator.
LoadRemove(r, a, u) ==
    /\ Pc(r) = "free" /\ IsAdmin(a)
    /\ u # Owner
    /\ Goto(r, At("pull", u))
    /\ UNCHANGED <<room, cache, deleted, queued, faults, everMember, lost>>

\* Mutant: only the membership is taken away.
PullMembersOnly(r) ==
    /\ Pc(r) = "pull"
    /\ Update([room EXCEPT !.members = @ \ {Who(r)}])
    /\ Goto(r, At("invalidate", Who(r)))
    /\ UNCHANGED <<cache, deleted, queued, faults, everMember, lost>>

\* $pull from members and admins, for remove_group_member and leave_group.
Pull(r) ==
    /\ Pc(r) = "pull"
    /\ Update([room EXCEPT !.members = @ \ {Who(r)}, !.admins = @ \ {Who(r)}])
    /\ Goto(r, At("invalidate", Who(r)))
    /\ UNCHANGED <<cache, deleted, queued, faults, everMember, lost>>

\* Mutant: only the entry of the owner is deleted.
InvalidateOwnerOnly(r) ==
    /\ Pc(r) = "invalidate"
    /\ cache' = [cache EXCEPT ![Owner] = "none"]
    /\ Goto(r, Free)
    /\ UNCHANGED <<room, deleted, queued, faults, everMember, lost>>

\* All entries of the room are deleted, after the document was changed.
Invalidate(r) ==
    /\ Pc(r) = "invalidate"
    /\ cache' = [u \in Users |-> "none"]
    /\ Goto(r, Free)
    /\ UNCHANGED <<room, deleted, queued, faults, everMember, lost>>

\* promote_admin and demote_admin, by the owner only.
LoadPromote(r, u) ==
    /\ Pc(r) = "free" /\ Exists
    /\ u # Owner /\ u \in room.members
    /\ Goto(r, At("promote", u))
    /\ UNCHANGED <<room, cache, deleted, queued, faults, everMember, lost>>

Promote(r) ==
    /\ Pc(r) = "promote"
    /\ Update([room EXCEPT !.admins = @ \cup {Who(r)}])
    /\ Goto(r, Free)
    /\ UNCHANGED <<cache, deleted, queued, faults, everMember, lost>>

LoadDemote(r, u) ==
    /\ Pc(r) = "free" /\ Exists
    /\ u # Owner
    /\ Goto(r, At("demote", u))
    /\ UNCHANGED <<room, cache, deleted, queued, faults, everMember, lost>>

Demote(r) ==
    /\ Pc(r) = "demote"
    /\ Update([room EXCEPT !.admins = @ \ {Who(r)}])
    /\ Goto(r, Free)
    /\ UNCHANGED <<cache, deleted, queued, faults, everMember, lost>>

-----------------------------------------------------------------------------
(* Invite links *)

\* create_or_get_invite_link: an active link is returned as it is.
LoadInvite(r, a) ==
    /\ Pc(r) = "free" /\ IsAdmin(a)
    /\ ~room.invite
    /\ Goto(r, At("invite", Owner))
    /\ UNCHANGED <<room, cache, deleted, queued, faults, everMember, lost>>

SetInvite(r) ==
    /\ Pc(r) = "invite"
    /\ Update([room EXCEPT !.invite = TRUE])
    /\ Goto(r, Free)
    /\ UNCHANGED <<cache, deleted, queued, faults, everMember, lost>>

LoadRevoke(r, a) ==
    /\ Pc(r) = "free" /\ IsAdmin(a)
    /\ Goto(r, At("revoke", Owner))
    /\ UNCHANGED <<room, cache, deleted, queued, faults, everMember, lost>>

Revoke(r) ==
    /\ Pc(r) = "revoke"
    /\ Update([room EXCEPT !.invite = FALSE])
    /\ Goto(r, Free)
    /\ UNCHANGED <<cache, deleted, queued, faults, everMember, lost>>

-----------------------------------------------------------------------------
(* Pins *)

\* The message must not be deleted.
PinMessage(r) ==
    /\ Pc(r) = "message"
    /\ Goto(r, IF req[r].msg \in deleted THEN Free ELSE [req[r] EXCEPT !.pc = "save"])
    /\ UNCHANGED <<room, cache, deleted, queued, faults, everMember, lost>>

Without(s, m) ==
    LET kept[i \in 0..Len(s)] ==
            IF i = 0 THEN <<>> ELSE IF s[i] = m THEN kept[i - 1] ELSE Append(kept[i - 1], s[i])
    IN  kept[Len(s)]
Newest(s) == SubSeq(s, 1, IF Len(s) < PinLimit THEN Len(s) ELSE PinLimit)

\* Newest first, each message once, at most PinLimit.
Pinned(r) ==
    LET rest == Without(req[r].copy.pins, req[r].msg)
    IN  IF req[r].op = "pin" THEN Newest(<<req[r].msg>> \o rest) ELSE rest

\* room.save(): the document of the load with new pins, inserted again when
\* the room was deleted in between.
Save(r) ==
    /\ Pc(r) = "save"
    /\ room' = [req[r].copy EXCEPT !.pins = Pinned(r)]
    /\ Goto(r, Free)
    /\ UNCHANGED <<cache, deleted, queued, faults, everMember, lost>>

\* MessageService.delete: the message, then its pin.
DeleteMessage(r, m) ==
    /\ Pc(r) = "free"
    /\ m \notin deleted
    /\ deleted' = deleted \cup {m}
    /\ Goto(r, [At("unpin_deleted", Owner) EXCEPT !.msg = m])
    /\ UNCHANGED <<room, cache, queued, faults, everMember, lost>>

UnpinDeleted(r) ==
    /\ Pc(r) = "unpin_deleted"
    /\ Update([room EXCEPT !.pins = Without(@, req[r].msg)])
    /\ Goto(r, Free)
    /\ UNCHANGED <<cache, deleted, queued, faults, everMember, lost>>

-----------------------------------------------------------------------------
(* delete_room, by the owner *)

\* Without a room the request succeeds at once.
DeleteAgain(r) ==
    /\ Pc(r) = "free" /\ ~Exists
    /\ UNCHANGED vars

LoadDelete(r) ==
    /\ Pc(r) = "free" /\ Exists
    /\ Goto(r, At("snapshot", Owner))
    /\ UNCHANGED <<room, cache, deleted, queued, faults, everMember, lost>>

Snapshot(r) ==
    /\ Pc(r) = "snapshot"
    /\ Goto(r, IF Exists THEN [At("unlink", Owner) EXCEPT !.copy = room] ELSE Free)
    /\ UNCHANGED <<room, cache, deleted, queued, faults, everMember, lost>>

\* delete_one: who deletes nothing leaves the rest to who did.
Unlink(r) ==
    /\ Pc(r) = "unlink"
    /\ room' = NoRoom
    /\ Goto(r, IF Exists THEN [req[r] EXCEPT !.pc = "purge"] ELSE Free)
    /\ UNCHANGED <<cache, deleted, queued, faults, everMember, lost>>

\* delete_many
Purge(r) ==
    /\ Pc(r) = "purge"
    /\ Goto(r, At("clean", Owner))
    /\ UNCHANGED <<room, cache, deleted, queued, faults, everMember, lost>>

\* Mutant: the request gives up without restoring the room.
PurgeFailsForGood(r) ==
    /\ Pc(r) = "purge" /\ faults < MaxFaults
    /\ faults' = faults + 1
    /\ Goto(r, Free)
    /\ UNCHANGED <<room, cache, deleted, queued, everMember, lost>>

\* delete_many raises: the compensation begins.
PurgeFails(r) ==
    /\ Pc(r) = "purge" /\ faults < MaxFaults
    /\ faults' = faults + 1
    /\ Goto(r, [req[r] EXCEPT !.pc = "restore"])
    /\ UNCHANGED <<room, cache, deleted, queued, everMember, lost>>

\* insert_one of the snapshot; a duplicate key is an error like any other.
Restore(r) ==
    /\ Pc(r) = "restore"
    /\ room' = IF Exists THEN room ELSE req[r].copy
    /\ Goto(r, Free)
    /\ UNCHANGED <<cache, deleted, queued, faults, everMember, lost>>

\* Avatar, preferences, counters, and the cleanup job, which invalidates the
\* cache later (module CleanupJobs).
Clean(r) ==
    /\ Pc(r) = "clean"
    /\ queued' = TRUE
    /\ Goto(r, Free)
    /\ UNCHANGED <<room, cache, deleted, faults, everMember, lost>>

-----------------------------------------------------------------------------
(* Failures *)

\* The cache cannot be invalidated; the policy is open, so the request goes on.
InvalidateFails(r) ==
    /\ Pc(r) = "invalidate" /\ faults < MaxFaults
    /\ faults' = faults + 1
    /\ Goto(r, Free)
    /\ UNCHANGED <<room, cache, deleted, queued, everMember, lost>>

\* A database call raises, or the process dies.
Fail(r) ==
    /\ Pc(r) # "free" /\ faults < MaxFaults
    /\ faults' = faults + 1
    /\ lost' = (lost \/ Pc(r) \in {"purge", "restore", "clean"})
    /\ Goto(r, Free)
    /\ UNCHANGED <<room, cache, deleted, queued, everMember>>

-----------------------------------------------------------------------------
Begin(r) ==
    \/ \E op \in Accessing, u \in Users, m \in Msgs :
        /\ op \in {"pin", "unpin"} \/ m = NoMsg
        /\ Load(r, op, u, m)
    \/ \E a \in Users, u \in Users : LoadAdd(r, a, u) \/ LoadRemove(r, a, u)
    \/ \E u \in Users : LoadPromote(r, u) \/ LoadDemote(r, u) \/ Join(r, u)
    \/ \E a \in Users : LoadInvite(r, a) \/ LoadRevoke(r, a)
    \/ \E m \in Msgs : DeleteMessage(r, m)
    \/ LoadDelete(r) \/ DeleteAgain(r)

Proceed(r) ==
    \/ Check(r) \/ Fill(r) \/ Add(r) \/ Pull(r) \/ Invalidate(r)
    \/ Promote(r) \/ Demote(r) \/ SetInvite(r) \/ Revoke(r)
    \/ PinMessage(r) \/ Save(r) \/ UnpinDeleted(r)
    \/ Snapshot(r) \/ Unlink(r) \/ Purge(r) \/ Restore(r) \/ Clean(r)

Break(r) == PurgeFails(r) \/ InvalidateFails(r) \/ Fail(r)

Next ==
    \/ \E r \in Requests : Begin(r) \/ Proceed(r) \/ Break(r)
    \/ \E u \in Users : CacheExpires(u)

Spec == Init /\ [][Next]_vars

-----------------------------------------------------------------------------
\* Documents, cache and requests stay in their types.
TypeOK ==
    /\ room \in Room \cup {NoRoom}
    /\ cache \in [Users -> {"none", "yes", "no"}]
    /\ deleted \subseteq Msgs /\ everMember \subseteq Users
    /\ faults \in 0..MaxFaults
    /\ req \in [Requests -> Request]
    /\ queued \in BOOLEAN /\ lost \in BOOLEAN

Idle == \A r \in Requests : Pc(r) = "free"
InAccess(r) == Pc(r) \in {"message", "save"} \/ (Pc(r) = "pull" /\ req[r].op = "leave")

\* Stale decisions may let a former member in for a while, but nobody who was
\* never a member: neither a cache entry nor a request that passed
\* _ensure_room_access speaks for a stranger.
StrangersStayOut ==
    /\ \A u \in Users : cache[u] = "yes" => u \in everMember
    /\ \A r \in Requests : InAccess(r) => Who(r) \in everMember

\* A room that is gone was cleaned up after, or a request is about to do so
\* or to restore it: of two overlapping deletions exactly the one that deleted
\* the document does the rest, and a failed delete_many brings the room back
\* (test_room_delete_restores_room_when_message_delete_fails).  Excepted is
\* the deletion that died in between or could not restore (compensation_failed).
DeletedIsCleaned ==
    ~Exists => \/ queued \/ lost
               \/ \E r \in Requests : Pc(r) \in {"purge", "restore", "clean"}

\* Between requests, and while no call has failed, the cache agrees with the
\* document: every change of membership takes effect at once
\* (test_group_owner_can_add_and_remove_members_and_invalidate_access_cache).
CacheIsExact ==
    Idle /\ Exists /\ faults = 0 =>
        \A u \in Users : /\ cache[u] = "yes" => Allowed(u)
                         /\ cache[u] = "no" => ~Allowed(u)

\* Who manages the room is in it, and its pins are distinct, at most
\* _PIN_LIMIT and of messages that are not deleted.
RoomIsCoherent ==
    Idle /\ Exists =>
        /\ room.admins \subseteq room.members
        /\ IsInjective(room.pins) /\ Len(room.pins) <= PinLimit
        /\ \A m \in deleted : ~Contains(room.pins, m)

\* A user who stays out of the room loses the access that stale requests may
\* have cached, however they overlapped the removal: every entry expires and
\* no new request renews it.
AccessIsLost ==
    \A u \in Users \ {Owner} :
        <>[](~Exists \/ u \notin room.members) => <>[](cache[u] # "yes")
=============================================================================
