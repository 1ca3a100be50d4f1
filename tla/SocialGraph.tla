----------------------------- MODULE SocialGraph -----------------------------
(***************************************************************************)
(* Friend requests, friendships and blocks of a pair of users              *)
(* (SocialService).  A friendship is a request with status "accepted".     *)
(* Every check is a query of its own, so requests overlap between their    *)
(* checks and their writes; save() writes a loaded document whole, and     *)
(* inserts it again when it was deleted meanwhile.                         *)
(***************************************************************************)
EXTENDS Notifications

CONSTANTS
    FriendReqs,     \* ids of friend requests
    Handlers,       \* slots for requests to the service
    NoReq           \* no id, no document

Statuses == {"pending", "accepted", "rejected"}
Doc(u, status) == [from |-> u, status |-> status]

ASSUME FriendReqsAssumption ==
    /\ NoReq \notin FriendReqs
    /\ \A u \in Pair, status \in Statuses : NoReq # Doc(u, status)

VARIABLES
    friendReqs,     \* [FriendReqs -> [from, status] or NoReq]
    blocks,         \* users who block the other one
    social,         \* [Handlers -> the request in the slot]
    parted          \* history: remove_friend succeeded, nothing accepted since

graphVars == <<friendReqs, blocks, social, parted>>
socialVars == <<graphVars, noteVars>>

Other(u) == CHOOSE v \in Pair : v # u
Stored(u, status) == {i \in FriendReqs : friendReqs[i] = Doc(u, status)}

\* by: the user who calls; req: the document loaded; status: the answer.
SocialAt(pc, u) == [pc |-> pc, by |-> u, req |-> NoReq, status |-> "pending"]
Vacant(h) == social[h].pc = "free"
SPc(h) == social[h].pc
By(h) == social[h].by
GoOn(h, pc) == social' = [social EXCEPT ![h].pc = pc]
Vacated == SocialAt("free", CHOOSE u \in Pair : TRUE)
End(h) == social' = [social EXCEPT ![h] = Vacated]
Enter(h, state) == Vacant(h) /\ social' = [social EXCEPT ![h] = state]

SocInit ==
    /\ NoteInit
    /\ friendReqs = [i \in FriendReqs |-> NoReq]
    /\ blocks = {}
    /\ social = [h \in Handlers |-> Vacated]
    /\ parted = FALSE

-----------------------------------------------------------------------------
(* Sending a request *)

AreFriends == \E u \in Pair : Stored(u, "accepted") # {}
IsBlocked == blocks # {}

Refused(pc, u) ==
    CASE pc = "friends" -> AreFriends
      [] pc = "blocked" -> IsBlocked
      [] pc = "pending" -> Stored(u, "pending") # {}
      [] pc = "reverse" -> Stored(Other(u), "pending") # {}

After == [friends |-> "blocked", blocked |-> "pending",
          pending |-> "reverse", reverse |-> "insert"]

SendRequest(h, u) ==
    /\ Enter(h, SocialAt("friends", u))
    /\ UNCHANGED <<friendReqs, blocks, parted, noteVars>>

SendCheck(h) ==
    /\ SPc(h) \in DOMAIN After
    /\ IF Refused(SPc(h), By(h)) THEN End(h) ELSE GoOn(h, After[SPc(h)])
    /\ UNCHANGED <<friendReqs, blocks, parted, noteVars>>

\* The unique index on from, to and status.
Taken(i, doc) == \E j \in FriendReqs \ {i} : friendReqs[j] = doc

\* Ids neither stored nor known to a request: which one is new is no matter.
Unused == {i \in FriendReqs : friendReqs[i] = NoReq /\ \A h \in Handlers : social[h].req # i}

SendInsert(h) ==
    LET new == CHOOSE i \in Unused : TRUE IN
    /\ SPc(h) = "insert" /\ Unused # {}
    /\ IF Taken(new, Doc(By(h), "pending")) THEN End(h) /\ UNCHANGED friendReqs
       ELSE /\ friendReqs' = [friendReqs EXCEPT ![new] = Doc(By(h), "pending")]
            /\ GoOn(h, "notify")
    /\ UNCHANGED <<blocks, parted, noteVars>>

\* The events, then the notification of the other user.
Notify(h) ==
    /\ SPc(h) = "notify"
    /\ CreateNote(Other(By(h)))
    /\ End(h)
    /\ UNCHANGED <<friendReqs, blocks, parted>>

-----------------------------------------------------------------------------
(* Answering, removing *)

\* The addressee; the status of the document is not looked at.
Respond(h, u, i, answer) ==
    /\ friendReqs[i] # NoReq /\ friendReqs[i].from = Other(u)
    /\ Enter(h, [SocialAt("respond", u) EXCEPT !.req = i, !.status = answer])
    /\ UNCHANGED <<friendReqs, blocks, parted, noteVars>>

\* save, refused by the unique index when an earlier request of the same user
\* was answered the same way.
RespondSave(h) ==
    LET doc == Doc(Other(By(h)), social[h].status) IN
    /\ SPc(h) = "respond"
    /\ IF Taken(social[h].req, doc) THEN End(h) /\ UNCHANGED <<friendReqs, parted>>
       ELSE /\ friendReqs' = [friendReqs EXCEPT ![social[h].req] = doc]
            /\ IF doc.status = "accepted"
               THEN social' = [social EXCEPT ![h] = SocialAt("notify", By(h))] /\ parted' = FALSE
               ELSE End(h) /\ UNCHANGED parted
    /\ UNCHANGED <<blocks, noteVars>>

\* remove_friend finds one accepted request ...
RemoveLoad(h, u) ==
    /\ \E i \in FriendReqs :
        /\ friendReqs[i] # NoReq /\ friendReqs[i].status = "accepted"
        /\ Enter(h, [SocialAt("remove", u) EXCEPT !.req = i])
    /\ UNCHANGED <<friendReqs, blocks, parted, noteVars>>

\* ... and deletes it.
RemoveDelete(h) ==
    /\ SPc(h) = "remove"
    /\ friendReqs' = [friendReqs EXCEPT ![social[h].req] = NoReq]
    /\ parted' = TRUE
    /\ End(h)
    /\ UNCHANGED <<blocks, noteVars>>

-----------------------------------------------------------------------------
(* Blocks *)

BlockUser(h, u) ==
    /\ u \notin blocks
    /\ Enter(h, SocialAt("unlink", u))
    /\ UNCHANGED <<friendReqs, blocks, parted, noteVars>>

\* Mutant: only what the blocking user sent is deleted.
UnlinkedOwn(u) ==
    [i \in FriendReqs |-> IF friendReqs[i] # NoReq /\ friendReqs[i].from = u
                          THEN NoReq ELSE friendReqs[i]]

\* Requests of both directions and every status.
Unlinked(u) == [i \in FriendReqs |-> NoReq]

BlockUnlink(h) ==
    /\ SPc(h) = "unlink"
    /\ friendReqs' = Unlinked(By(h))
    /\ GoOn(h, "block")
    /\ UNCHANGED <<blocks, parted, noteVars>>

\* insert; a second block of the same user is refused by the unique index.
BlockInsert(h) ==
    /\ SPc(h) = "block"
    /\ blocks' = blocks \cup {By(h)}
    /\ End(h)
    /\ UNCHANGED <<friendReqs, parted, noteVars>>

\* unblock_user deletes the document it found.
Unblock(u) ==
    /\ u \in blocks
    /\ blocks' = blocks \ {u}
    /\ UNCHANGED <<friendReqs, social, parted, noteVars>>

\* The request ends with an error, or its process dies.
SocialFails(h) ==
    /\ ~Vacant(h)
    /\ End(h)
    /\ UNCHANGED <<friendReqs, blocks, parted, noteVars>>

GraphNext ==
    \/ \E h \in Handlers :
        \/ SendCheck(h) \/ SendInsert(h) \/ Notify(h) \/ RespondSave(h) \/ RemoveDelete(h)
        \/ BlockUnlink(h) \/ BlockInsert(h) \/ SocialFails(h)
        \/ \E u \in Pair : SendRequest(h, u) \/ RemoveLoad(h, u) \/ BlockUser(h, u)
        \/ \E u \in Pair, i \in FriendReqs, answer \in {"accepted", "rejected"} :
            Respond(h, u, i, answer)
    \/ \E u \in Pair : Unblock(u)

SocNext == GraphNext \/ (NoteNext /\ UNCHANGED graphVars)

SocSpec == SocInit /\ [][SocNext]_socialVars

-----------------------------------------------------------------------------
\* While requests do not overlap, fail as they may, no friendship and no
\* request stands between users one of whom blocks the other
\* (test_blocking_user_clears_friendship_and_pending_requests,
\* test_blocked_users_cannot_become_friends).
NothingAcrossBlock == IsBlocked => \A i \in FriendReqs : friendReqs[i] = NoReq

\* "Verify not friends anymore" (test_remove_friend, tests/api/test_social.py:185):
\* who removed a friend is no friend until a request is accepted again.
RemovedIsNotFriend == parted => ~AreFriends
=============================================================================
