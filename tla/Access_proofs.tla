---------------------------- MODULE Access_proofs ----------------------------
(* Theorems about the modules that MCAccess composes, except the room's      *)
(* (Rooms_proofs): direct rooms, subscriptions, the social graph and         *)
(* notifications, for any number of clients and requests.                    *)
EXTENDS DirectRooms, Subscriptions, SocialGraph, TLAPS

-----------------------------------------------------------------------------
(* Direct rooms *)

DmTypeOK ==
    /\ arrivals \in Nat
    /\ dm \in [Clients -> [pc : {"new", "find", "insert", "done", "failed"},
                           try : Nat, since : Nat]]

\* A client that is about to insert and finds a document there has missed its
\* arrival, so its attempt is paid for before it fails.
Paid ==
    \A c \in Clients :
        /\ dm[c].pc # "new" => dm[c].try + dm[c].since <= arrivals + 1
        /\ dm[c].pc = "insert" /\ rooms # {} => dm[c].try + dm[c].since <= arrivals

DmInv == DmTypeOK /\ Paid

\* Before any client asks nothing was stored and nobody retries.
LEMMA DmInitInv == DmInit => DmInv
  BY DEF DmInit, DmInv, DmTypeOK, Paid, Fresh, DmAt

\* What is stored after a step was stored before it or is an arrival: this is
\* all that the requests about an existing room do to the retries.
Accounted == (rooms' \subseteq rooms /\ arrivals' = arrivals) \/ arrivals' = arrivals + 1

\* Deletions, compensations and saves keep the account.
LEMMA EditAccounted ==
  ASSUME NEW x \in Editors,
         \/ \E op \in {"unlink", "save"}, i \in rooms : LoadDirect(x, op, i)
         \/ DropDirect(x) \/ PurgeDirect(x) \/ PurgeDirectFails(x) \/ RestoreDirect(x)
         \/ SaveDirect(x) \/ QuitDirect(x)
  PROVE  Accounted /\ UNCHANGED dm
  BY DEF LoadDirect, DropDirect, PurgeDirect, PurgeDirectFails, RestoreDirect, SaveDirect,
         QuitDirect, EditGoes, Arrive, Accounted

\* Finding, inserting and losing the insert, while documents come and go, keep
\* the retries paid for.
LEMMA DmStepInv == DmInv /\ [DmNext]_dmVars => DmInv'
<1> SUFFICES ASSUME DmInv, [DmNext]_dmVars PROVE DmInv'
  OBVIOUS
<1> USE DirectAssumption DEF DmInv, DmTypeOK, Paid, DmAt, Fresh
<1>1. ASSUME NEW c \in Clients, Open(c) PROVE DmInv'
  BY <1>1 DEF Open
<1>2. ASSUME NEW c \in Clients, Find(c) PROVE DmInv'
  BY <1>2 DEF Find
<1>3. ASSUME NEW c \in Clients, Insert(c) PROVE DmInv'
  BY <1>3 DEF Insert, Unique, Arrive
<1>4. ASSUME NEW c \in Clients, Duplicate(c) PROVE DmInv'
  BY <1>4 DEF Duplicate, Unique
<1>5. ASSUME NEW c \in Clients, Answer(c) PROVE DmInv'
  BY <1>5 DEF Answer
<1>6. ASSUME Accounted, UNCHANGED dm PROVE DmInv'
  BY <1>6 DEF Accounted
<1>7. CASE UNCHANGED dmVars
  BY <1>7 DEF dmVars
<1> QED BY <1>1, <1>2, <1>3, <1>4, <1>5, <1>6, <1>7, EditAccounted DEF DmNext

\* get_or_create_dm gives up only after the pair's document arrived under it as
\* often as it tries, for any number of clients, retries and overlapping
\* deletions, compensations and saves.
THEOREM DirectRetries == DmSpec => []RetriesAreEarned
<1>1. DmInv => RetriesAreEarned
  <2> SUFFICES ASSUME DmInv, NEW c \in Clients, dm[c].pc # "new"
               PROVE dm[c].try - 1 <= arrivals - dm[c].since
    BY DEF RetriesAreEarned
  <2>1. arrivals \in Nat /\ dm[c].try \in Nat /\ dm[c].since \in Nat
    BY DEF DmInv, DmTypeOK
  <2>2. dm[c].try + dm[c].since <= arrivals + 1
    BY DEF DmInv, Paid
  <2> QED BY <2>1, <2>2
<1> QED BY <1>1, DmInitInv, DmStepInv, PTL DEF DmSpec

-----------------------------------------------------------------------------
(* Subscriptions *)

Documents == [status : {"active", "expired", "canceled"}, end : Nat]
Earned(d) == d # NoSub /\ d.status = "expired" => d.end <= today

\* Not only the stored document but everything a request will still save is
\* marked expired rightly, and time does not take that back.
SubInv ==
    /\ today \in Nat
    /\ sub \in Documents \cup {NoSub}
    /\ subReq \in [Readers -> [pc : {"free", "expire", "cancel", "renew", "insert"},
                               doc : Documents \cup {NoSub}]]
    /\ Earned(sub)
    /\ \A h \in Readers : Earned(subReq[h].doc)

\* Initially nothing is stored and no request holds a copy.
LEMMA SubInitInv == SubInit => SubInv
  BY DEF SubInit, SubInv, Waiting, Earned

\* Neither the saves of copies nor the passing of days makes an expiry wrong.
LEMMA SubStepInv == SubInv /\ [SubNext]_subVars => SubInv'
<1> SUFFICES ASSUME SubInv, [SubNext]_subVars PROVE SubInv'
  OBVIOUS
<1> USE DaysAssumption DEF SubInv, Documents, Earned, Waiting
<1>1. ASSUME NEW h \in Readers, LoadLapsed(h) PROVE SubInv'
  BY <1>1 DEF LoadLapsed, Lapsed, Active, Pending, Sub
<1>2. ASSUME NEW h \in Readers, LoadCancel(h) PROVE SubInv'
  BY <1>2 DEF LoadCancel, Lapsed, Active, Pending, Sub
<1>3. ASSUME NEW h \in Readers, NEW d \in Days, LoadActivate(h, d) PROVE SubInv'
  BY <1>3 DEF LoadActivate, Pending, Sub
<1>4. ASSUME NEW h \in Readers, SubSave(h) PROVE SubInv'
  BY <1>4 DEF SubSave, StoreDoc, Finish
<1>5. ASSUME NEW h \in Readers, SubInsert(h) PROVE SubInv'
  BY <1>5 DEF SubInsert, Finish
<1>6. ASSUME NEW h \in Readers, SubFails(h) PROVE SubInv'
  BY <1>6 DEF SubFails, Finish
<1>7. CASE DayPasses
  BY <1>7 DEF DayPasses
<1>8. CASE UNCHANGED subVars
  BY <1>8 DEF subVars
<1> QED BY <1>1, <1>2, <1>3, <1>4, <1>5, <1>6, <1>7, <1>8 DEF SubNext

\* Whatever activations, cancellations and lazy expiries overwrite each other,
\* a document marked expired is past its own period.
THEOREM ExpiredRightly == SubSpec => []ExpiryIsEarned
<1>1. SubInv => ExpiryIsEarned
  BY DEF SubInv, Earned, ExpiryIsEarned
<1> QED BY <1>1, SubInitInv, SubStepInv, PTL DEF SubSpec

-----------------------------------------------------------------------------
(* Friend requests and blocks *)

\* Requests to the service do not overlap.
Sequential == \A g, h \in Handlers : g = h

SocialPcs == {"free", "friends", "blocked", "pending", "reverse", "insert",
              "notify", "respond", "remove", "unlink", "block"}
GraphTypeOK ==
    /\ friendReqs \in [FriendReqs -> [from : Pair, status : Statuses] \cup {NoReq}]
    /\ blocks \subseteq Pair
    /\ social \in [Handlers -> [pc : SocialPcs, by : Pair, req : FriendReqs \cup {NoReq},
                                status : Statuses]]

\* What a request has found out still holds when it acts on it: nobody blocks,
\* or everything was deleted.
Found(h) ==
    /\ SPc(h) \in {"pending", "reverse", "insert", "respond"} => blocks = {}
    /\ SPc(h) \in {"respond", "remove"} => social[h].req \in FriendReqs
    /\ SPc(h) = "block" => \A i \in FriendReqs : friendReqs[i] = NoReq

GraphInv ==
    /\ GraphTypeOK
    /\ NothingAcrossBlock
    /\ \A h \in Handlers : Found(h)

\* The other user is the only other one of the pair.
LEMMA OtherUser == \A u \in Pair : Other(u) \in Pair /\ Pair = {u, Other(u)}
  BY PairAssumption DEF Other

\* The slot that a finished or failed request leaves behind is free.
LEMMA VacatedIsFree == Vacated \in [pc : {"free"}, by : Pair, req : {NoReq}, status : {"pending"}]
  BY PairAssumption DEF Vacated, SocialAt

\* Before any request nobody is blocked.
LEMMA GraphInitInv == SocInit => GraphInv
  BY VacatedIsFree, FriendReqsAssumption
  DEF SocInit, GraphInv, GraphTypeOK, NothingAcrossBlock, IsBlocked, Found, SPc, By,
      SocialPcs, Statuses, Doc

\* Without overlap, every call of a handler keeps block and requests apart.
LEMMA GraphStepInv == ASSUME Sequential PROVE GraphInv /\ [SocNext]_socialVars => GraphInv'
<1> SUFFICES ASSUME GraphInv, [SocNext]_socialVars PROVE GraphInv'
  OBVIOUS
<1> USE FriendReqsAssumption, VacatedIsFree
        DEF GraphInv, GraphTypeOK, SocialPcs, Statuses
<1>1. ASSUME NEW h \in Handlers, social' = [social EXCEPT ![h] = Vacated],
             UNCHANGED <<friendReqs, blocks>>
      PROVE GraphInv'
  BY <1>1 DEF Sequential, NothingAcrossBlock, IsBlocked, Found, SPc, By
<1>2. ASSUME NEW h \in Handlers, NEW u \in Pair, SendRequest(h, u) PROVE GraphInv'
  BY <1>2 DEF Sequential, SendRequest, Enter, SocialAt, NothingAcrossBlock, IsBlocked,
     Found, SPc, By
<1>3. ASSUME NEW h \in Handlers, SendCheck(h) PROVE GraphInv'
  <2>1. CASE Refused(SPc(h), By(h))
    BY <1>1, <1>3, <2>1 DEF SendCheck, End
  <2>2. CASE ~Refused(SPc(h), By(h))
    <3>1. SPc(h) \in {"friends", "blocked", "pending", "reverse"} /\ GoOn(h, After[SPc(h)])
      BY <1>3, <2>2 DEF SendCheck, After
    <3>2. social'[h] = [social[h] EXCEPT !.pc = After[SPc(h)]]
          /\ UNCHANGED <<friendReqs, blocks>>
      BY <1>3, <3>1 DEF SendCheck, GoOn
    <3>3. GraphTypeOK'
      BY <1>3, <3>1, <3>2 DEF SendCheck, GoOn, After
    <3>4. SPc(h) = "blocked" => blocks = {}
      BY <2>2 DEF Refused, IsBlocked
    <3>5. By(h)' = By(h) /\ SPc(h)' = After[SPc(h)]
      BY <3>2 DEF By, SPc
    <3>6. Found(h)'
      BY <3>1, <3>2, <3>4, <3>5 DEF Found, After
    <3> QED BY <3>2, <3>3, <3>6 DEF Sequential, NothingAcrossBlock, IsBlocked
  <2> QED BY <2>1, <2>2
<1>4. ASSUME NEW h \in Handlers, SendInsert(h) PROVE GraphInv'
  <2> DEFINE new == CHOOSE i \in Unused : TRUE
  <2>1. new \in Unused /\ new \in FriendReqs /\ SPc(h) = "insert" /\ By(h) \in Pair
    BY <1>4 DEF SendInsert, Unused, By
  <2>2. CASE End(h) /\ UNCHANGED friendReqs
    BY <1>1, <1>4, <2>2 DEF SendInsert, End
  <2>3. CASE friendReqs' = [friendReqs EXCEPT ![new] = Doc(By(h), "pending")] /\ GoOn(h, "notify")
    <3> HIDE DEF new
    <3>1. blocks = {} /\ blocks' = {}
      BY <1>4, <2>1 DEF Found, SendInsert
    <3>2. GraphTypeOK' /\ SPc(h)' = "notify"
      BY <1>4, <2>1, <2>3 DEF SendInsert, GoOn, SPc, Doc
    <3> QED BY <3>1, <3>2 DEF Sequential, Found, NothingAcrossBlock, IsBlocked
  <2> QED BY <1>4, <2>2, <2>3 DEF SendInsert
<1>5. ASSUME NEW h \in Handlers, Notify(h) PROVE GraphInv'
  BY <1>1, <1>5 DEF Notify, End
<1>6. ASSUME NEW h \in Handlers, NEW u \in Pair, NEW i \in FriendReqs,
             NEW answer \in {"accepted", "rejected"}, Respond(h, u, i, answer)
      PROVE GraphInv'
  <2> DEFINE new == [SocialAt("respond", u) EXCEPT !.req = i, !.status = answer]
  <2>1. blocks = {} /\ UNCHANGED <<friendReqs, blocks>> /\ social' = [social EXCEPT ![h] = new]
    BY <1>6 DEF Respond, Enter, NothingAcrossBlock, IsBlocked
  <2>2. /\ new \in [pc : SocialPcs, by : Pair, req : FriendReqs \cup {NoReq}, status : Statuses]
        /\ new.pc = "respond" /\ new.req = i /\ new.status = answer
    BY DEF SocialAt
  <2> HIDE DEF new
  <2>3. GraphTypeOK' /\ Found(h)'
    BY <2>1, <2>2 DEF Found, SPc
  <2> QED BY <2>1, <2>3 DEF Sequential, NothingAcrossBlock, IsBlocked
<1>7. ASSUME NEW h \in Handlers, RespondSave(h) PROVE GraphInv'
  <2> DEFINE doc == Doc(Other(By(h)), social[h].status)
  <2>1. /\ social[h].req \in FriendReqs /\ blocks = {} /\ blocks' = {}
        /\ By(h) \in Pair /\ Other(By(h)) \in Pair
    BY <1>7, OtherUser DEF RespondSave, Found, SPc, By
  <2>2. CASE End(h) /\ UNCHANGED friendReqs
    BY <1>1, <1>7, <2>2 DEF RespondSave, End
  <2>3. CASE /\ friendReqs' = [friendReqs EXCEPT ![social[h].req] = doc]
             /\ social' \in {[social EXCEPT ![h] = SocialAt("notify", By(h))],
                             [social EXCEPT ![h] = Vacated]}
    <3>1. GraphTypeOK' /\ SPc(h)' \in {"notify", "free"}
      BY <1>7, <2>1, <2>3 DEF RespondSave, SocialAt, SPc, Doc
    <3> QED BY <2>1, <3>1 DEF Sequential, Found, NothingAcrossBlock, IsBlocked
  <2> QED BY <1>7, <2>2, <2>3 DEF RespondSave, End
<1>8. ASSUME NEW h \in Handlers, NEW u \in Pair, RemoveLoad(h, u) PROVE GraphInv'
  BY <1>8 DEF Sequential, RemoveLoad, Enter, SocialAt, NothingAcrossBlock, IsBlocked,
     Found, SPc, By
<1>9. ASSUME NEW h \in Handlers, RemoveDelete(h) PROVE GraphInv'
  <2>1. social[h].req \in FriendReqs
    BY <1>9 DEF RemoveDelete, Found, SPc
  <2>2. GraphTypeOK' /\ NothingAcrossBlock' /\ SPc(h)' = "free"
    BY <1>9, <2>1 DEF RemoveDelete, End, NothingAcrossBlock, IsBlocked, SPc
  <2> QED BY <2>2 DEF Sequential, Found
<1>10. ASSUME NEW h \in Handlers, NEW u \in Pair, BlockUser(h, u) PROVE GraphInv'
  BY <1>10 DEF Sequential, BlockUser, Enter, SocialAt, NothingAcrossBlock, IsBlocked,
     Found, SPc, By
<1>11. ASSUME NEW h \in Handlers, BlockUnlink(h) PROVE GraphInv'
  <2>1. GraphTypeOK' /\ SPc(h)' = "block" /\ \A i \in FriendReqs : friendReqs'[i] = NoReq
    BY <1>11 DEF BlockUnlink, Unlinked, GoOn, SPc
  <2> QED BY <2>1 DEF Sequential, Found, NothingAcrossBlock
<1>12. ASSUME NEW h \in Handlers, BlockInsert(h) PROVE GraphInv'
  <2>1. \A i \in FriendReqs : friendReqs'[i] = NoReq
    BY <1>12 DEF BlockInsert, Found
  <2>2. GraphTypeOK' /\ SPc(h)' = "free"
    BY <1>12 DEF BlockInsert, End, SPc, By
  <2> QED BY <2>1, <2>2 DEF Sequential, Found, NothingAcrossBlock
<1>13. ASSUME NEW u \in Pair, Unblock(u) PROVE GraphInv'
  BY <1>13 DEF Unblock, NothingAcrossBlock, IsBlocked, Found, SPc, By
<1>14. ASSUME NEW h \in Handlers, SocialFails(h) PROVE GraphInv'
  BY <1>1, <1>14 DEF SocialFails, End
<1>15. CASE UNCHANGED graphVars
  BY <1>15 DEF graphVars, NothingAcrossBlock, IsBlocked, Found, SPc, By
<1> QED
  BY <1>2, <1>3, <1>4, <1>5, <1>6, <1>7, <1>8, <1>9, <1>10, <1>11, <1>12, <1>13, <1>14, <1>15
  DEF SocNext, GraphNext, socialVars

\* However requests that do not overlap follow on one another, fail and die
\* between their steps, nothing is left between users one of whom blocks the
\* other: send_friend_request looks for blocks before it inserts, and
\* block_user deletes before it blocks.
THEOREM BlockSeparates == ASSUME Sequential PROVE SocSpec => []NothingAcrossBlock
<1>1. GraphInv => NothingAcrossBlock
  BY DEF GraphInv
<1> QED BY <1>1, GraphInitInv, GraphStepInv, PTL DEF SocSpec

-----------------------------------------------------------------------------
(* Notifications *)

\* Every step is about the notifications and slots there are: what it does to
\* one leaves the others alone.
NoteInv ==
    /\ notes = [n \in Notes |-> notes[n]]
    /\ marking = [h \in Markers |-> marking[h]]

\* Before anything happens there are no notifications.
LEMMA NoteInitInv == NoteInit => NoteInv
  BY DEF NoteInit, NoteInv

\* No step adds to the ids and slots.
LEMMA NoteStepInv == NoteInv /\ [NoteNext]_noteVars => NoteInv'
<1> SUFFICES ASSUME NoteInv, [NoteNext]_noteVars PROVE NoteInv'
  OBVIOUS
<1> USE DEF NoteInv
<1>1. ASSUME NEW u \in Pair, CreateNote(u) PROVE NoteInv'
  BY <1>1 DEF CreateNote
<1>2. ASSUME NEW h \in Markers, NEW n \in Notes, MarkLoad(h, n) PROVE NoteInv'
  BY <1>2 DEF MarkLoad
<1>3. ASSUME NEW h \in Markers, MarkSave(h) \/ MarkFails(h) PROVE NoteInv'
  BY <1>3 DEF MarkSave, MarkFails
<1>4. ASSUME NEW u \in Pair, MarkAllRead(u) PROVE NoteInv'
  BY <1>4 DEF MarkAllRead
<1>5. ASSUME NEW n \in Notes, DeleteNote(n) PROVE NoteInv'
  BY <1>5 DEF DeleteNote
<1>6. ASSUME NEW u \in Pair, UpdatePreferences(u) PROVE NoteInv'
  BY <1>6 DEF UpdatePreferences
<1>7. CASE UNCHANGED noteVars
  BY <1>7 DEF noteVars
<1> QED BY <1>1, <1>2, <1>3, <1>4, <1>5, <1>6, <1>7 DEF NoteNext

\* A notification that is deleted while nobody holds a copy stays so: mark_read
\* loads only what exists, and saves only what it loaded.
THEOREM NotesStayDeleted == NoteSpec => DeletedNoteStays
<1> DEFINE Final(n) == Has(n, "gone") /\ n \notin Marked
<1>1. NoteInv /\ [NoteNext]_noteVars => [\A n \in Notes : Final(n) => Final(n)']_noteVars
  <2> SUFFICES ASSUME NoteInv, NoteNext, NEW n \in Notes, Final(n) PROVE Final(n)'
    OBVIOUS
  <2> USE PairAssumption DEF NoteInv, Note, Has, Marked
  <2>1. ASSUME NEW u \in Pair, CreateNote(u) PROVE Final(n)'
    BY <2>1 DEF CreateNote
  <2>2. ASSUME NEW h \in Markers, NEW m \in Notes, MarkLoad(h, m) PROVE Final(n)'
    BY <2>2 DEF MarkLoad
  <2>3. ASSUME NEW h \in Markers, MarkSave(h) \/ MarkFails(h) PROVE Final(n)'
    BY <2>3 DEF MarkSave, MarkFails
  <2>4. ASSUME NEW u \in Pair, MarkAllRead(u) PROVE Final(n)'
    BY <2>4 DEF MarkAllRead
  <2>5. ASSUME NEW m \in Notes, DeleteNote(m) PROVE Final(n)'
    BY <2>5 DEF DeleteNote
  <2>6. ASSUME NEW u \in Pair, UpdatePreferences(u) PROVE Final(n)'
    BY <2>6 DEF UpdatePreferences
  <2> QED BY <2>1, <2>2, <2>3, <2>4, <2>5, <2>6 DEF NoteNext
<1> QED BY <1>1, NoteInitInv, NoteStepInv, PTL DEF NoteSpec, DeletedNoteStays
=============================================================================
