------------------------- MODULE CallSessions_proofs -------------------------
(***************************************************************************)
(* Call documents stay coherent for any users, any number of calls and any *)
(* number of concurrent requests saving stale copies.  The argument: every *)
(* copy a request holds was coherent when it was loaded, carries what the  *)
(* checks made on loading established, and every write is one of a few     *)
(* transformations that keep such a copy coherent.                         *)
(***************************************************************************)
EXTENDS MCCallSessions, FiniteSetTheorems, TLAPS

\* What the checks on loading established about the copy a request holds.
Warranted(q) ==
    /\ Coherent(q.doc)
    /\ q.pc \in {"join", "ring", "leave", "kick", "end"} => q.doc.status # "ended"
    /\ q.pc = "leave" => q.doc.parts[q.user].in
    /\ q.pc = "kick" => q.doc.parts[q.target].in
    /\ q.pc = "ack" => q.doc.parts[q.user].missed
    /\ q.pc = "end" =>
        /\ q.reason # "none"
        /\ q.reason = "ended" => q.doc.answered
        /\ q.reason = "cancelled" => ~q.doc.answered
    /\ q.pc \in {"join", "ring", "leave", "kick", "end", "ack"} => q.call \in DOMAIN calls

IInv ==
    /\ TypeOK
    /\ DocumentsCoherent
    /\ \A r \in Requests : Warranted(req[r])

-----------------------------------------------------------------------------
(* The transformations *)

\* A document as create_session builds it agrees with itself.
LEMMA NewCallCoherent ==
    ASSUME NEW u \in Users, NEW S
    PROVE  NewCall(u, S) \in CallDoc /\ Coherent(NewCall(u, S))
<1> DEFINE d == NewCall(u, S)
<1>1. \A v \in Users : State(v \in S) \in Participant
  BY DEF State, Participant
<1>2. /\ d.status = "ringing" /\ d.initiator = u /\ d.answered = FALSE /\ d.reason = "none"
      /\ \A v \in Users : d.parts[v] = State(v \in S)
  BY DEF NewCall
<1>3. d \in CallDoc
  BY <1>1 DEF NewCall, CallDoc, Reasons
<1>4. \A v \in Users : LET p == State(v \in S)
                      IN  ~p.rang /\ ~p.joined /\ ~p.left /\ ~p.missed /\ ~p.acked
  BY DEF State
<1> HIDE DEF d
<1>5. Coherent(d)
  BY <1>2, <1>4 DEF Coherent
<1> QED BY <1>3, <1>5 DEF d

\* join_session keeps a live document coherent, whether or not it answers it.
LEMMA JoinedCoherent ==
    ASSUME NEW d \in CallDoc, NEW u \in Users, Coherent(d), d.status # "ended"
    PROVE  Joined(d, u) \in CallDoc /\ Coherent(Joined(d, u))
<1> DEFINE p == [d.parts[u] EXCEPT !.in = TRUE, !.joined = TRUE, !.left = FALSE]
           parts == [d.parts EXCEPT ![u].in = TRUE, ![u].joined = TRUE, ![u].left = FALSE]
           answer == \E v \in Users \ {d.initiator} : Present(parts[v])
           e == Joined(d, u)
<1>1. /\ p \in Participant
      /\ p.in /\ p.joined /\ ~p.left
      /\ p.missed = d.parts[u].missed /\ p.acked = d.parts[u].acked
  BY ZenonT(60) DEF CallDoc, Participant
<1>2. /\ parts \in [Users -> Participant]
      /\ parts[u] = p
      /\ \A v \in Users \ {u} : parts[v] = d.parts[v]
  BY <1>1 DEF CallDoc
<1>3. answer \in BOOLEAN
  OBVIOUS
<1> HIDE DEF p, parts, answer
<1>4. /\ e \in CallDoc
      /\ e.status = IF answer THEN "active" ELSE d.status
      /\ e.initiator = d.initiator /\ e.reason = d.reason
      /\ e.answered = (d.answered \/ answer) /\ e.parts = parts
  BY <1>2, <1>3 DEF Joined, CallDoc, parts, answer
<1>5. u # d.initiator => answer
  BY <1>1, <1>2 DEF answer, Present
<1>6. u = d.initiator /\ answer => d.answered
  BY <1>2 DEF answer, Present, Coherent, CallDoc
<1>7. e.answered <=> \E v \in Users \ {e.initiator} : e.parts[v].joined
  BY <1>1, <1>2, <1>4, <1>5, <1>6 DEF Coherent, CallDoc, Participant
<1> HIDE DEF e
<1>8. Coherent(e)
  BY <1>1, <1>2, <1>4, <1>5, <1>6, <1>7 DEF Coherent, CallDoc, Participant
<1> QED BY <1>4, <1>8 DEF e

\* A write that changes one participant's state and nothing else.
LEMMA OneParticipant ==
    ASSUME NEW d \in CallDoc, NEW u \in Users, NEW p \in Participant
    PROVE  LET e == [d EXCEPT !.parts = [@ EXCEPT ![u] = p]]
           IN  /\ e \in CallDoc
               /\ e.status = d.status /\ e.initiator = d.initiator
               /\ e.answered = d.answered /\ e.reason = d.reason
               /\ e.parts[u] = p /\ \A v \in Users \ {u} : e.parts[v] = d.parts[v]
<1> DEFINE parts == [d.parts EXCEPT ![u] = p]
<1>1. parts \in [Users -> Participant] /\ parts[u] = p /\ \A v \in Users \ {u} : parts[v] = d.parts[v]
  BY DEF CallDoc
<1> HIDE DEF parts
<1>2. LET e == [d EXCEPT !.parts = parts]
      IN  /\ e \in CallDoc
          /\ e.status = d.status /\ e.initiator = d.initiator
          /\ e.answered = d.answered /\ e.reason = d.reason /\ e.parts = parts
  BY <1>1 DEF CallDoc
<1> QED BY <1>1, <1>2 DEF parts

\* mark_ringing keeps a live document coherent.
LEMMA RangCoherent ==
    ASSUME NEW d \in CallDoc, NEW u \in Users, Coherent(d), d.status # "ended"
    PROVE  Rang(d, u) \in CallDoc /\ Coherent(Rang(d, u))
<1> DEFINE p == [d.parts[u] EXCEPT !.in = TRUE, !.rang = TRUE]
           e == Rang(d, u)
<1>1. /\ p \in Participant /\ p.in
      /\ p.joined = d.parts[u].joined /\ p.left = d.parts[u].left
      /\ p.missed = d.parts[u].missed /\ p.acked = d.parts[u].acked
  BY ZenonT(60) DEF CallDoc, Participant
<1>2. e = [d EXCEPT !.parts = [@ EXCEPT ![u] = p]]
  BY DEF Rang, CallDoc
<1> HIDE DEF p, e
<1>3. /\ e \in CallDoc
      /\ e.status = d.status /\ e.initiator = d.initiator
      /\ e.answered = d.answered /\ e.reason = d.reason
      /\ e.parts[u] = p /\ \A v \in Users \ {u} : e.parts[v] = d.parts[v]
  BY <1>1, <1>2, OneParticipant
<1>4. Coherent(e)
  BY <1>1, <1>3 DEF Coherent, CallDoc, Participant
<1> QED BY <1>3, <1>4 DEF e

\* leave_session keeps a live document coherent, and neither ends nor answers it.
LEMMA LeftCoherent ==
    ASSUME NEW d \in CallDoc, NEW u \in Users, Coherent(d), d.status # "ended", d.parts[u].in
    PROVE  /\ Left(d, u) \in CallDoc /\ Coherent(Left(d, u))
           /\ Left(d, u).status # "ended" /\ Left(d, u).answered = d.answered
<1> DEFINE p == [d.parts[u] EXCEPT !.left = TRUE]
           e == Left(d, u)
<1>1. /\ p \in Participant /\ p.in /\ p.left
      /\ p.joined = d.parts[u].joined
      /\ p.missed = d.parts[u].missed /\ p.acked = d.parts[u].acked
  BY DEF CallDoc, Participant
<1>2. e = [d EXCEPT !.parts = [@ EXCEPT ![u] = p]]
  BY DEF Left, CallDoc
<1> HIDE DEF p, e
<1>3. /\ e \in CallDoc
      /\ e.status = d.status /\ e.initiator = d.initiator
      /\ e.answered = d.answered /\ e.reason = d.reason
      /\ e.parts[u] = p /\ \A v \in Users \ {u} : e.parts[v] = d.parts[v]
  BY <1>1, <1>2, OneParticipant
<1>4. Coherent(e)
  BY <1>1, <1>3 DEF Coherent, CallDoc, Participant
<1> QED BY <1>3, <1>4 DEF e

\* Acknowledging a missed call keeps the document coherent.
LEMMA AckedCoherent ==
    ASSUME NEW d \in CallDoc, NEW u \in Users, Coherent(d), d.parts[u].missed
    PROVE  Acked(d, u) \in CallDoc /\ Coherent(Acked(d, u))
<1> DEFINE p == [d.parts[u] EXCEPT !.acked = TRUE]
           e == Acked(d, u)
<1>1. /\ p \in Participant /\ p.acked
      /\ p.in = d.parts[u].in /\ p.rang = d.parts[u].rang
      /\ p.joined = d.parts[u].joined /\ p.left = d.parts[u].left
      /\ p.missed = d.parts[u].missed
  BY DEF CallDoc, Participant
<1>2. e = [d EXCEPT !.parts = [@ EXCEPT ![u] = p]]
  BY DEF Acked, CallDoc
<1> HIDE DEF p, e
<1>3. /\ e \in CallDoc
      /\ e.status = d.status /\ e.initiator = d.initiator
      /\ e.answered = d.answered /\ e.reason = d.reason
      /\ e.parts[u] = p /\ \A v \in Users \ {u} : e.parts[v] = d.parts[v]
  BY <1>1, <1>2, OneParticipant
<1>4. \A v \in Users : e.parts[v].joined = d.parts[v].joined
  BY <1>1, <1>3
<1>5. e.answered <=> \E v \in Users \ {e.initiator} : e.parts[v].joined
  BY <1>3, <1>4 DEF Coherent
<1>6. \A v \in Users :
        LET q == e.parts[v]
        IN  /\ q.rang \/ q.joined \/ q.left \/ q.missed => q.in
            /\ q.missed => e.status = "ended" /\ v # e.initiator /\ ~q.joined /\ ~q.left
            /\ q.acked => q.missed
            /\ e.status = "ended" /\ q.joined => q.left
            /\ e.status = "ended" /\ q.in /\ v # e.initiator => q.joined \/ q.left \/ q.missed
  BY <1>1, <1>3, ZenonT(60) DEF Coherent
<1>7. Coherent(e)
  BY <1>3, <1>5, <1>6 DEF Coherent
<1> QED BY <1>3, <1>7 DEF e

\* Ending a live document with a reason that its answer warrants keeps it coherent.
LEMMA EndedCoherent ==
    ASSUME NEW d \in CallDoc, NEW reason \in Reasons, Coherent(d), d.status # "ended",
           reason # "none", reason = "ended" => d.answered, reason = "cancelled" => ~d.answered
    PROVE  Ended(d, reason) \in CallDoc /\ Coherent(Ended(d, reason))
<1> DEFINE e == Ended(d, reason)
<1>1. \A u \in Users : LET p == d.parts[u]  q == Closed(d, u)
                      IN  /\ q \in Participant
                          /\ q.in = p.in /\ q.rang = p.rang /\ q.joined = p.joined
                          /\ q.left = (p.left \/ p.joined) /\ q.acked = p.acked
                          /\ q.missed = (p.missed \/ (p.in /\ u # d.initiator /\ ~p.joined /\ ~p.left))
  BY ZenonT(60) DEF Closed, CallDoc, Participant
<1> DEFINE parts == [u \in Users |-> Closed(d, u)]
<1>2. parts \in [Users -> Participant] /\ \A u \in Users : parts[u] = Closed(d, u)
  BY <1>1
<1> HIDE DEF parts
<1>3. /\ e \in CallDoc
      /\ e.status = "ended" /\ e.initiator = d.initiator
      /\ e.answered = d.answered /\ e.reason = reason /\ e.parts = parts
  BY <1>2 DEF Ended, CallDoc, parts
<1> HIDE DEF e
<1>4. e.answered <=> \E u \in Users \ {e.initiator} : e.parts[u].joined
  BY <1>1, <1>2, <1>3 DEF Coherent, CallDoc
<1>5. Coherent(e)
  BY <1>1, <1>2, <1>3, <1>4 DEF Coherent, CallDoc, Participant
<1> QED BY <1>3, <1>5 DEF e

-----------------------------------------------------------------------------
(* Steps *)

RequestType == [pc : Steps, user : Users, target : Users, call : Nat,
                doc : CallDoc, reason : Reasons]

\* A request takes its next step, with or without a write that only adds to
\* the collection or replaces documents by coherent ones.
LEMMA Stepped ==
    ASSUME IInv, NEW r \in Requests, NEW q \in RequestType,
           req' = [req EXCEPT ![r] = q],
           Warranted(q)',
           members' \subseteq Users, roomExists' \in BOOLEAN,
           calls' \in Seq(CallDoc), DOMAIN calls \subseteq DOMAIN calls',
           \A c \in DOMAIN calls' : Coherent(calls'[c])
    PROVE  IInv'
<1>1. TypeOK'
  BY DEF IInv, TypeOK, RequestType
<1>2. DocumentsCoherent'
  BY DEF DocumentsCoherent
<1>3. ASSUME NEW s \in Requests PROVE Warranted(req[s])'
  <2>1. CASE s = r
    <3>1. req'[s] = q
      BY <2>1 DEF IInv, TypeOK
    <3> QED BY <3>1 DEF Warranted
  <2>2. CASE s # r
    <3>1. req'[s] = req[s] /\ Warranted(req[s])
      BY <2>2 DEF IInv, TypeOK
    <3> QED BY <3>1 DEF Warranted
  <2> QED BY <2>1, <2>2
<1> QED BY <1>1, <1>2, <1>3 DEF IInv

\* A slot with no request in it has nothing to warrant.
LEMMA FreeWarranted == Free \in RequestType /\ Warranted(Free) /\ Warranted(Free)'
<1>1. NoDoc \in CallDoc /\ Coherent(NoDoc)
  BY NewCallCoherent, UsersAssumption DEF NoDoc
<1>2. Free \in RequestType /\ Free.pc = "free" /\ Free.doc = NoDoc
  BY <1>1, UsersAssumption DEF Free, Request, RequestType, Steps, Reasons
<1> QED BY <1>1, <1>2 DEF Warranted

\* A request that only reads.
LEMMA Loaded ==
    ASSUME IInv, NEW r \in Requests, NEW q \in RequestType,
           req' = [req EXCEPT ![r] = q], Warranted(q),
           members' \subseteq Users, roomExists' \in BOOLEAN, UNCHANGED calls
    PROVE  IInv'
<1>1. Warranted(q)'
  BY DEF Warranted
<1>2. /\ calls' \in Seq(CallDoc) /\ DOMAIN calls \subseteq DOMAIN calls'
      /\ \A c \in DOMAIN calls' : Coherent(calls'[c])
  BY DEF IInv, TypeOK, DocumentsCoherent
<1> QED BY <1>1, <1>2, Stepped

\* A request that saves its copy, d, and either replies or goes on to end it.
LEMMA Saved ==
    ASSUME IInv, NEW r \in Requests, NEW d \in CallDoc, Coherent(d),
           req[r].call \in DOMAIN calls, Save(r, d),
           NEW q \in RequestType, req' = [req EXCEPT ![r] = q], Warranted(q),
           UNCHANGED <<members, roomExists>>
    PROVE  IInv'
<1>1. /\ calls' \in Seq(CallDoc) /\ DOMAIN calls' = DOMAIN calls
      /\ \A c \in DOMAIN calls : calls'[c] = IF c = req[r].call THEN d ELSE calls[c]
  BY DEF Save, IInv, TypeOK
<1>2. Warranted(q)'
  BY <1>1 DEF Warranted
<1>3. \A c \in DOMAIN calls' : Coherent(calls'[c])
  BY <1>1 DEF IInv, DocumentsCoherent
<1>4. members' \subseteq Users /\ roomExists' \in BOOLEAN
  BY DEF IInv, TypeOK
<1> QED BY <1>1, <1>2, <1>3, <1>4, Stepped

\* A request that arrives, reads its call and decides keeps the invariant.
LEMMA ArriveIInv ==
    ASSUME IInv, NEW r \in Requests, Arrive(r)
    PROVE  IInv'
<1> PICK u \in Users :
        \/ Invite(r, u) \/ DeleteRoom(r, u)
        \/ \E t \in Users : RemoveMember(r, u, t)
        \/ \E c \in DOMAIN calls :
            \/ LoadJoin(r, u, c) \/ LoadRinging(r, u, c) \/ LoadLeave(r, u, c)
            \/ LoadEnd(r, u, c) \/ LoadAck(r, u, c)
            \/ \E t \in Users : LoadKick(r, u, t, c)
  BY DEF Arrive
<1>0. Owner \in Users /\ 0 \in Nat /\ NoDoc \in CallDoc /\ Coherent(NoDoc)
  BY UsersAssumption, NewCallCoherent DEF NoDoc
<1>t. members \subseteq Users /\ roomExists \in BOOLEAN
  BY DEF IInv, TypeOK
<1> USE DEF Begin, LoadOnly
<1>1. CASE Invite(r, u)
  <2> DEFINE d == NewCall(u, members \cup {Owner})
             q == Request("insert", Owner, Owner, 0, d, "none")
  <2>1. d \in CallDoc /\ Coherent(d)
    BY NewCallCoherent
  <2> HIDE DEF d
  <2>2. q \in RequestType /\ Warranted(q)
    BY <1>0, <2>1 DEF Request, RequestType, Steps, Reasons, Warranted
  <2>3. req' = [req EXCEPT ![r] = q] /\ UNCHANGED <<members, roomExists, calls>>
    BY <1>1 DEF Invite, d
  <2> QED BY <1>t, <2>2, <2>3, Loaded
<1>2. CASE DeleteRoom(r, u) \/ \E t \in Users : RemoveMember(r, u, t)
  <2>1. PICK t \in Users, pc \in {"room_deleted", "member_removed"}, v \in Users :
            req' = [req EXCEPT ![r] = Request(pc, v, t, 0, NoDoc, "none")]
    BY <1>0, <1>2 DEF DeleteRoom, RemoveMember
  <2>2. members' \subseteq Users /\ roomExists' \in BOOLEAN /\ UNCHANGED calls
    BY <1>2, <1>t DEF DeleteRoom, RemoveMember
  <2> DEFINE q == Request(pc, v, t, 0, NoDoc, "none")
  <2>3. q \in RequestType /\ Warranted(q)
    BY <1>0 DEF Request, RequestType, Steps, Reasons, Warranted
  <2> QED BY <2>1, <2>2, <2>3, Loaded
<1>3. ASSUME NEW c \in DOMAIN calls, NEW t \in Users,
             \/ LoadJoin(r, u, c) \/ LoadRinging(r, u, c) \/ LoadLeave(r, u, c)
             \/ LoadEnd(r, u, c) \/ LoadAck(r, u, c) \/ LoadKick(r, u, t, c)
      PROVE  IInv'
  <2>1. calls[c] \in CallDoc /\ Coherent(calls[c]) /\ c \in Nat
    BY DEF IInv, TypeOK, DocumentsCoherent
  <2>2. UNCHANGED <<members, roomExists, calls>>
    BY <1>3 DEF LoadJoin, LoadRinging, LoadLeave, LoadEnd, LoadAck, LoadKick
  <2>3. CASE LoadJoin(r, u, c)
    <3> DEFINE q == Request("join", u, Owner, c, calls[c], "none")
    <3>1. q \in RequestType /\ Warranted(q) /\ req' = [req EXCEPT ![r] = q]
      BY <1>0, <2>1, <2>3 DEF LoadJoin, Live, Request, RequestType, Steps, Reasons, Warranted
    <3> QED BY <1>t, <2>2, <3>1, Loaded
  <2>4. CASE LoadRinging(r, u, c)
    <3> DEFINE q == Request("ring", u, Owner, c, calls[c], "none")
    <3>1. q \in RequestType /\ Warranted(q) /\ req' = [req EXCEPT ![r] = q]
      BY <1>0, <2>1, <2>4 DEF LoadRinging, Live, Request, RequestType, Steps, Reasons, Warranted
    <3> QED BY <1>t, <2>2, <3>1, Loaded
  <2>5. CASE LoadLeave(r, u, c)
    <3> DEFINE q == Request("leave", u, Owner, c, calls[c], "none")
    <3>1. q \in RequestType /\ Warranted(q) /\ req' = [req EXCEPT ![r] = q]
      BY <1>0, <2>1, <2>5
         DEF LoadLeave, Live, Pending, Request, RequestType, Steps, Reasons, Warranted
    <3> QED BY <1>t, <2>2, <3>1, Loaded
  <2>6. CASE LoadEnd(r, u, c)
    <3> DEFINE q == Request("end", Owner, Owner, c, calls[c], EndReason(calls[c]))
    <3>1. q \in RequestType /\ Warranted(q) /\ req' = [req EXCEPT ![r] = q]
      BY <1>0, <2>1, <2>6
         DEF LoadEnd, Live, EndReason, Request, RequestType, Steps, Reasons, Warranted
    <3> QED BY <1>t, <2>2, <3>1, Loaded
  <2>7. CASE LoadAck(r, u, c)
    <3> DEFINE q == Request("ack", u, Owner, c, calls[c], "none")
    <3>1. q \in RequestType /\ Warranted(q) /\ req' = [req EXCEPT ![r] = q]
      BY <1>0, <2>1, <2>7 DEF LoadAck, Request, RequestType, Steps, Reasons, Warranted
    <3> QED BY <1>t, <2>2, <3>1, Loaded
  <2>8. CASE LoadKick(r, u, t, c)
    <3> DEFINE q == Request("kick", Owner, t, c, calls[c], "none")
    <3>1. q \in RequestType /\ Warranted(q) /\ req' = [req EXCEPT ![r] = q]
      BY <1>0, <2>1, <2>8 DEF LoadKick, Live, Request, RequestType, Steps, Reasons, Warranted
    <3> QED BY <1>t, <2>2, <3>1, Loaded
  <2> QED BY <1>3, <2>3, <2>4, <2>5, <2>6, <2>7, <2>8
<1> QED BY <1>1, <1>2, <1>3

\* The hooks that room changes call keep the invariant.
LEMMA HandleIInv ==
    ASSUME IInv, NEW r \in Requests, HandleMemberRemoved(r) \/ HandleRoomDeleted(r)
    PROVE  IInv'
<1>0. /\ members' \subseteq Users /\ roomExists' \in BOOLEAN /\ UNCHANGED calls
      /\ req[r].target \in Users /\ Owner \in Users
  BY UsersAssumption DEF HandleMemberRemoved, HandleRoomDeleted, LoadOnly, IInv, TypeOK
<1>1. CASE Reply(r)
  BY <1>0, <1>1, FreeWarranted, Loaded DEF Reply
<1>2. ASSUME NEW c \in DOMAIN calls, NEW q,
             c \in LiveCalls,
             \/ q = Request("end", Owner, Owner, c, calls[c], "room_deleted")
             \/ /\ q = Request("kick", Owner, req[r].target, c, calls[c], "none")
                /\ calls[c].parts[req[r].target].in,
             req' = [req EXCEPT ![r] = q]
      PROVE  IInv'
  <2>1. calls[c] \in CallDoc /\ Coherent(calls[c]) /\ c \in Nat
    BY DEF IInv, TypeOK, DocumentsCoherent
  <2>2. q \in RequestType
    BY <1>0, <1>2, <2>1 DEF Request, RequestType, Steps, Reasons
  <2>3. Warranted(q)
    BY <1>2, <2>1 DEF Request, LiveCalls, Live, Warranted
  <2> QED BY <1>0, <1>2, <2>2, <2>3, Loaded
<1>3. CASE HandleMemberRemoved(r)
  BY <1>1, <1>2, <1>3 DEF HandleMemberRemoved, Removable, Newest
<1>4. CASE HandleRoomDeleted(r)
  BY <1>1, <1>2, <1>4 DEF HandleRoomDeleted, Newest
<1> QED BY <1>3, <1>4

\* A whole-document save keeps the invariant: what is saved is what was warranted when it was read.
LEMMA WriteIInv ==
    ASSUME IInv, NEW r \in Requests,
           \/ InsertCall(r) \/ Join(r) \/ MarkRinging(r) \/ Acknowledge(r)
           \/ Leave(r) \/ RemoveParticipant(r) \/ EndCall(r)
    PROVE  IInv'
<1> DEFINE q == req[r]
           d == req[r].doc
<1>0. /\ q \in RequestType /\ d \in CallDoc /\ q.user \in Users /\ q.target \in Users
      /\ Coherent(d) /\ Warranted(q) /\ Owner \in Users
  BY UsersAssumption DEF IInv, TypeOK, RequestType, Warranted
<1>1. CASE InsertCall(r)
  <2>1. /\ req' = [req EXCEPT ![r] = Free] /\ calls' = Append(calls, d)
        /\ members' \subseteq Users /\ roomExists' \in BOOLEAN
    BY <1>1 DEF InsertCall, Reply, RoomSame, IInv, TypeOK
  <2>2. /\ calls' \in Seq(CallDoc) /\ DOMAIN calls \subseteq DOMAIN calls'
        /\ \A c \in DOMAIN calls' : Coherent(calls'[c])
    BY <1>0, <2>1 DEF IInv, TypeOK, DocumentsCoherent
  <2> QED BY <2>1, <2>2, FreeWarranted, Stepped
<1>2. ASSUME NEW e \in CallDoc, Coherent(e), Save(r, e), Reply(r), RoomSame,
             q.pc \in {"join", "ring", "ack", "leave", "kick", "end"}
      PROVE  IInv'
  <2>1. req[r].call \in DOMAIN calls
    BY <1>0, <1>2 DEF Warranted
  <2> QED BY <1>2, <2>1, FreeWarranted, Saved DEF Reply, RoomSame
<1>3. CASE Join(r)
  <2>1. q.pc = "join" /\ d.status # "ended"
    BY <1>0, <1>3 DEF Join, Warranted
  <2> QED BY <1>0, <1>2, <1>3, <2>1, JoinedCoherent DEF Join
<1>4. CASE MarkRinging(r)
  <2>1. q.pc = "ring" /\ d.status # "ended"
    BY <1>0, <1>4 DEF MarkRinging, Warranted
  <2> QED BY <1>0, <1>2, <1>4, <2>1, RangCoherent DEF MarkRinging
<1>5. CASE Acknowledge(r)
  <2>1. q.pc = "ack" /\ d.parts[q.user].missed
    BY <1>0, <1>5 DEF Acknowledge, Warranted
  <2> QED BY <1>0, <1>2, <1>5, <2>1, AckedCoherent DEF Acknowledge
<1>6. CASE EndCall(r)
  <2>1. /\ q.pc = "end" /\ d.status # "ended" /\ q.reason \in Reasons
        /\ q.reason # "none"
        /\ q.reason = "ended" => d.answered
        /\ q.reason = "cancelled" => ~d.answered
    BY <1>0, <1>6 DEF EndCall, Warranted, RequestType
  <2> QED BY <1>0, <1>2, <1>6, <2>1, EndedCoherent DEF EndCall
<1>7. ASSUME NEW u \in Users, NEW end, NEW reason \in Reasons \ {"none"},
             q.pc \in {"leave", "kick"}, d.parts[u].in, d.status # "ended",
             Depart(r, Left(d, u), end, reason),
             reason = "ended" => d.answered, reason = "cancelled" => ~d.answered
      PROVE  IInv'
  <2> DEFINE e == Left(d, u)
             n == Request("end", Owner, Owner, q.call, e, reason)
  <2>1. e \in CallDoc /\ Coherent(e) /\ e.status # "ended" /\ e.answered = d.answered
    BY <1>0, <1>7, LeftCoherent
  <2>2. Save(r, e) /\ RoomSame /\ (Reply(r) \/ req' = [req EXCEPT ![r] = n])
    BY <1>7 DEF Depart
  <2>3. q.call \in DOMAIN calls /\ q.call \in Nat
    BY <1>0, <1>7 DEF Warranted, RequestType
  <2> HIDE DEF e
  <2>4. n \in RequestType /\ Warranted(n)
    BY <1>0, <1>7, <2>1, <2>3 DEF Request, RequestType, Steps, Warranted
  <2>5. CASE Reply(r)
    BY <1>2, <1>7, <2>1, <2>2, <2>5
  <2>6. CASE req' = [req EXCEPT ![r] = n]
    BY <2>1, <2>2, <2>3, <2>4, <2>6, Saved DEF RoomSame
  <2> QED BY <2>2, <2>5, <2>6
<1>8. CASE Leave(r)
  <2>1. q.pc = "leave" /\ d.status # "ended" /\ d.parts[q.user].in
    BY <1>0, <1>8 DEF Leave, Warranted
  <2> DEFINE e == Left(d, q.user)
  <2>2. e.answered = d.answered
    BY <1>0, <2>1, LeftCoherent
  <2>3. /\ EndReason(e) \in Reasons \ {"none"}
        /\ EndReason(e) = "ended" => d.answered
        /\ EndReason(e) = "cancelled" => ~d.answered
    BY <2>2 DEF EndReason, Reasons
  <2>4. Depart(r, e, ShouldEnd(e, q.user), EndReason(e))
    BY <1>8 DEF Leave
  <2> QED BY <1>0, <1>7, <2>1, <2>3, <2>4
<1>9. CASE RemoveParticipant(r)
  <2>1. q.pc = "kick" /\ d.status # "ended" /\ d.parts[q.target].in
    BY <1>0, <1>9 DEF RemoveParticipant, Warranted
  <2>2. "member_removed" \in Reasons \ {"none"}
    BY DEF Reasons
  <2>3. Depart(r, Left(d, q.target), NobodyElse(Left(d, q.target)), "member_removed")
    BY <1>9 DEF RemoveParticipant
  <2> QED BY <1>0, <1>7, <2>1, <2>2, <2>3
<1> QED BY <1>1, <1>3, <1>4, <1>5, <1>6, <1>8, <1>9

-----------------------------------------------------------------------------
\* The invariant holds when there is no call and no request.
LEMMA InitIInv == Init => IInv
<1> SUFFICES ASSUME Init PROVE IInv
  OBVIOUS
<1>1. TypeOK
  BY FreeWarranted DEF Init, TypeOK, RequestType
<1>2. \A r \in Requests : Warranted(req[r])
  BY FreeWarranted DEF Init
<1>3. DocumentsCoherent
  BY DEF Init, DocumentsCoherent
<1> QED BY <1>1, <1>2, <1>3 DEF IInv

\* Every step keeps the invariant.
LEMMA NextIInv == IInv /\ [Next]_vars => IInv'
<1> SUFFICES ASSUME IInv, [Next]_vars PROVE IInv'
  OBVIOUS
<1>1. CASE UNCHANGED vars
  BY <1>1 DEF vars, IInv, TypeOK, DocumentsCoherent, Warranted
<1>2. ASSUME NEW r \in Requests, Arrive(r) \/ Proceed(r) \/ Fail(r) PROVE IInv'
  <2>1. CASE Arrive(r)
    BY <2>1, ArriveIInv
  <2>2. CASE Proceed(r)
    BY <2>2, HandleIInv, WriteIInv DEF Proceed
  <2>3. CASE Fail(r)
    BY <2>3, FreeWarranted, Loaded DEF Fail, Reply, IInv, TypeOK
  <2> QED BY <1>2, <2>1, <2>2, <2>3
<1>3. ASSUME NEW u \in Users, AddMember(u) PROVE IInv'
  BY <1>3 DEF AddMember, IInv, TypeOK, DocumentsCoherent, Warranted
<1> QED BY <1>1, <1>2, <1>3 DEF Next

\* The inductive invariant holds in every reachable state.
THEOREM Invariance == Spec => []IInv
BY InitIInv, NextIInv, PTL DEF Spec

\* Type correctness: in particular only the reasons of CallEndedReason are
\* ever stored.
THEOREM TypeCorrect == Spec => []TypeOK
<1>1. IInv => TypeOK
  BY DEF IInv
<1> QED BY <1>1, Invariance, PTL

\* Every stored call document is coherent, for any number of concurrent
\* requests that save stale copies over each other (calls/service.py).
THEOREM Coherence == Spec => []DocumentsCoherent
<1>1. IInv => DocumentsCoherent
  BY DEF IInv
<1> QED BY <1>1, Invariance, PTL

-----------------------------------------------------------------------------
(* Requests that do not overlap *)

\* Somebody in the call did not leave it.
Kept(d) == \E u \in Users : Pending(d.parts[u])

\* What the only request, in state s, has found out and may rely on, and which
\* call it still has to end.
Carrying == {"join", "ring", "leave", "kick", "end", "ack"}
Lone(C, s) ==
    /\ \A b, c \in DOMAIN C : C[b].status # "ended" /\ C[c].status # "ended" => b = c
    /\ s.pc = "insert" => Kept(s.doc) /\ \A c \in DOMAIN C : C[c].status = "ended"
    /\ s.pc \in Carrying => s.call \in DOMAIN C /\ s.doc = C[s.call]
    /\ \A c \in DOMAIN C : C[c].status # "ended" => Kept(C[c]) \/ (s.pc = "end" /\ s.call = c)

SoloCallInv ==
    /\ IInv
    /\ solo =>
        /\ \A q, r \in Requests : req[q].pc # "free" /\ req[r].pc # "free" => q = r
        /\ \A r \in Requests : req[r].pc # "free" => Lone(calls, req[r])
        /\ Quiet => Lone(calls, Free)

\* What is ended in C is ended in D.
Final(C, D) == \A c \in DOMAIN C : c \in DOMAIN D /\ (C[c].status = "ended" => D[c].status = "ended")

\* A save by the only request, which then replies or goes on to end the call.
LEMMA SaveLone ==
    ASSUME NEW C \in Seq(CallDoc), NEW s, NEW q, NEW d, Lone(C, s), s.pc \in Carrying,
           C[s.call].status = "ended" => d.status = "ended",
           \/ q.pc = "free" /\ (d.status = "ended" \/ Kept(d))
           \/ q.pc = "end" /\ q.call = s.call /\ q.doc = d
    PROVE  Lone([C EXCEPT ![s.call] = d], q) /\ Final(C, [C EXCEPT ![s.call] = d])
<1>1. PICK D : D = [C EXCEPT ![s.call] = d]
  OBVIOUS
<1>2. s.call \in DOMAIN C
  BY DEF Lone
<1>3. DOMAIN D = DOMAIN C /\ D[s.call] = d /\ \A c \in DOMAIN C : c # s.call => D[c] = C[c]
  BY <1>1, <1>2
<1>4. \A c \in DOMAIN C : C[c].status = "ended" => D[c].status = "ended"
  BY <1>3
<1>5. \A b, c \in DOMAIN D : D[b].status # "ended" /\ D[c].status # "ended" => b = c
  BY <1>3, <1>4 DEF Lone
<1>6. q.pc \in Carrying => q.call \in DOMAIN D /\ q.doc = D[q.call]
  BY <1>2, <1>3 DEF Carrying
<1>7. \A c \in DOMAIN D : D[c].status # "ended" => Kept(D[c]) \/ (q.pc = "end" /\ q.call = c)
  <2> SUFFICES ASSUME NEW c \in DOMAIN D, D[c].status # "ended"
               PROVE  Kept(D[c]) \/ (q.pc = "end" /\ q.call = c)
    OBVIOUS
  <2>1. CASE c = s.call
    BY <1>3, <2>1
  <2>2. CASE c # s.call
    BY <1>3, <2>2 DEF Lone
  <2> QED BY <2>1, <2>2
<1>8. Lone(D, q)
  BY <1>5, <1>6, <1>7 DEF Lone
<1> QED BY <1>1, <1>3, <1>4, <1>8 DEF Final

\* A step that leaves the calls alone revives none.
LEMMA SameIsFinal == \A C : Final(C, C)
  BY DEF Final

\* A request that carries nothing, and one that carries a stored document.
LEMMA PlainLone ==
    ASSUME NEW C, NEW s, NEW q, Lone(C, s), s.pc # "end",
           q.pc \notin Carrying \cup {"insert"}
    PROVE  Lone(C, q)
  BY DEF Lone, Carrying

\* A request that takes up a copy of the stored document, like another, knows
\* what is stored.
LEMMA CarryLone ==
    ASSUME NEW C, NEW s, NEW q, Lone(C, s), s.pc # "end",
           q.pc \in Carrying, q.call \in DOMAIN C, q.doc = C[q.call]
    PROVE  Lone(C, q)
  BY DEF Lone, Carrying

\* A free slot is a constant.
LEMMA FreeIsFree == Free.pc = "free" /\ Free' = Free
  BY DEF Free, Request, NoDoc, NewCall, State

\* The fields of a request that later steps rely on.
LEMMA RequestIs ==
    ASSUME NEW pc, NEW u, NEW t, NEW c, NEW d, NEW reason
    PROVE  LET q == Request(pc, u, t, c, d, reason) IN q.pc = pc /\ q.call = c /\ q.doc = d
  BY DEF Request

\* Nobody has left a new call.
LEMMA NewCallKept ==
    ASSUME NEW u, NEW S, Owner \in S PROVE Kept(NewCall(u, S))
<1>1. NewCall(u, S).parts = [v \in Users |-> State(v \in S)]
  BY DEF NewCall
<1>2. NewCall(u, S).parts[Owner] = State(Owner \in S)
  BY <1>1, UsersAssumption
<1>3. Pending(State(Owner \in S))
  BY DEF State, Pending
<1> QED BY <1>2, <1>3, UsersAssumption DEF Kept

\* A request arrives in a free slot; if no other is under way, it relies on
\* what it read.
LEMMA ArriveLone ==
    ASSUME NEW r \in Requests, Arrive(r)
    PROVE  /\ req[r].pc = "free" /\ UNCHANGED calls
           /\ \E q : /\ req' = [req EXCEPT ![r] = q] /\ q.pc # "free"
                     /\ Lone(calls, Free) => Lone(calls, q)
<1> PICK u \in Users :
        \/ Invite(r, u) \/ DeleteRoom(r, u)
        \/ \E t \in Users : RemoveMember(r, u, t)
        \/ \E c \in DOMAIN calls :
            \/ LoadJoin(r, u, c) \/ LoadRinging(r, u, c) \/ LoadLeave(r, u, c)
            \/ LoadEnd(r, u, c) \/ LoadAck(r, u, c)
            \/ \E t \in Users : LoadKick(r, u, t, c)
  BY DEF Arrive
<1> DEFINE Goal == /\ req[r].pc = "free" /\ UNCHANGED calls
                   /\ \E q : /\ req' = [req EXCEPT ![r] = q] /\ q.pc # "free"
                             /\ Lone(calls, Free) => Lone(calls, q)
<1>1. CASE Invite(r, u)
  <2>1. PICK d, q : d = NewCall(u, members \cup {Owner}) /\ q = Request("insert", Owner, Owner, 0, d, "none")
    OBVIOUS
  <2>2. q.pc = "insert" /\ q.doc = d /\ Kept(d)
    BY <2>1, RequestIs, NewCallKept
  <2>3. \A c \in DOMAIN calls : calls[c].status = "ended"
    BY <1>1 DEF Invite, LiveCalls, Live
  <2>4. Lone(calls, Free) => Lone(calls, q)
    BY <2>2, <2>3 DEF Lone, Carrying
  <2>5. req' = [req EXCEPT ![r] = q] /\ UNCHANGED calls /\ req[r].pc = "free"
    BY <1>1, <2>1 DEF Invite, Begin, LoadOnly
  <2> QED BY <2>2, <2>4, <2>5
<1>2. CASE DeleteRoom(r, u) \/ \E t \in Users : RemoveMember(r, u, t)
  <2>1. /\ req[r].pc = "free" /\ UNCHANGED calls
        /\ \E t, v : \E pc \in {"room_deleted", "member_removed"} :
                req' = [req EXCEPT ![r] = Request(pc, v, t, 0, NoDoc, "none")]
    BY <1>2 DEF DeleteRoom, RemoveMember, Begin
  <2>2. PICK t, v : \E pc \in {"room_deleted", "member_removed"} :
                req' = [req EXCEPT ![r] = Request(pc, v, t, 0, NoDoc, "none")]
    BY <2>1
  <2>3. PICK pc \in {"room_deleted", "member_removed"} :
                req' = [req EXCEPT ![r] = Request(pc, v, t, 0, NoDoc, "none")]
    BY <2>2
  <2>4. PICK q : q = Request(pc, v, t, 0, NoDoc, "none")
    OBVIOUS
  <2>5. q.pc \notin Carrying \cup {"insert"} /\ q.pc # "free"
    BY <2>4, RequestIs DEF Carrying
  <2>6. Lone(calls, Free) => Lone(calls, q)
    BY <2>5, FreeIsFree, PlainLone
  <2> QED BY <2>1, <2>3, <2>4, <2>5, <2>6
<1>3. ASSUME NEW c \in DOMAIN calls, NEW t \in Users,
             \/ LoadJoin(r, u, c) \/ LoadRinging(r, u, c) \/ LoadLeave(r, u, c)
             \/ LoadEnd(r, u, c) \/ LoadAck(r, u, c) \/ LoadKick(r, u, t, c)
      PROVE  Goal
  <2>1. /\ req[r].pc = "free" /\ UNCHANGED calls
        /\ \E pc \in Carrying : \E v, w, reason :
             req' = [req EXCEPT ![r] = Request(pc, v, w, c, calls[c], reason)]
    <3> USE DEF Begin, LoadOnly, Carrying
    <3>1. CASE LoadJoin(r, u, c)
      BY <3>1 DEF LoadJoin
    <3>2. CASE LoadRinging(r, u, c)
      BY <3>2 DEF LoadRinging
    <3>3. CASE LoadLeave(r, u, c)
      BY <3>3 DEF LoadLeave
    <3>4. CASE LoadEnd(r, u, c)
      BY <3>4 DEF LoadEnd
    <3>5. CASE LoadAck(r, u, c)
      BY <3>5 DEF LoadAck
    <3>6. CASE LoadKick(r, u, t, c)
      BY <3>6 DEF LoadKick
    <3> QED BY <1>3, <3>1, <3>2, <3>3, <3>4, <3>5, <3>6
  <2>2. PICK pc \in Carrying : \E v, w, reason :
             req' = [req EXCEPT ![r] = Request(pc, v, w, c, calls[c], reason)]
    BY <2>1
  <2>3. PICK v, w, reason : req' = [req EXCEPT ![r] = Request(pc, v, w, c, calls[c], reason)]
    BY <2>2
  <2>4. PICK q : q = Request(pc, v, w, c, calls[c], reason)
    OBVIOUS
  <2>5. q.pc = pc /\ q.call = c /\ q.doc = calls[c] /\ q.pc # "free"
    BY <2>4, RequestIs DEF Carrying
  <2>6. Lone(calls, Free) => Lone(calls, q)
    BY <2>5, FreeIsFree, CarryLone
  <2> QED BY <2>1, <2>3, <2>4, <2>5, <2>6
<1> QED BY <1>1, <1>2, <1>3

\* Who joins is in the call; a mark of ringing takes nobody out.
LEMMA JoinedKept == ASSUME NEW d \in CallDoc, NEW u \in Users PROVE Kept(Joined(d, u))
<1> DEFINE parts == [d.parts EXCEPT ![u].in = TRUE, ![u].joined = TRUE, ![u].left = FALSE]
           p == [d.parts[u] EXCEPT !.in = TRUE, !.joined = TRUE, !.left = FALSE]
<1>1. p.in /\ ~p.left
  BY ZenonT(60) DEF CallDoc, Participant
<1>2. parts[u] = p
  BY DEF CallDoc
<1> HIDE DEF p, parts
<1>3. Joined(d, u).parts = parts
  BY DEF Joined, CallDoc, parts
<1> QED BY <1>1, <1>2, <1>3 DEF Kept, Pending

\* Ringing makes nobody leave.
LEMMA RangKept ==
    ASSUME NEW d \in CallDoc, NEW u \in Users, Kept(d)
    PROVE  Kept(Rang(d, u))
<1> DEFINE p == [d.parts[u] EXCEPT !.in = TRUE, !.rang = TRUE]
           e == Rang(d, u)
<1>1. p \in Participant /\ p.in /\ p.left = d.parts[u].left
  BY ZenonT(60) DEF CallDoc, Participant
<1>2. e = [d EXCEPT !.parts = [@ EXCEPT ![u] = p]]
  BY DEF Rang, CallDoc
<1> HIDE DEF p, e
<1>3. e.parts[u] = p /\ \A v \in Users \ {u} : e.parts[v] = d.parts[v]
  BY <1>1, <1>2, OneParticipant
<1>4. Kept(e)
  BY <1>1, <1>3 DEF Kept, Pending
<1> QED BY <1>4 DEF e

\* Whoever acknowledges leaves the status alone.
LEMMA AckedStatus ==
    ASSUME NEW d \in CallDoc, NEW u \in Users PROVE Acked(d, u).status = d.status
<1> DEFINE p == [d.parts[u] EXCEPT !.acked = TRUE]
           e == Acked(d, u)
<1>1. p \in Participant
  BY DEF CallDoc, Participant
<1>2. e = [d EXCEPT !.parts = [@ EXCEPT ![u] = p]]
  BY DEF Acked, CallDoc
<1> HIDE DEF p, e
<1>3. e.status = d.status
  BY <1>1, <1>2, OneParticipant
<1> QED BY <1>3 DEF e

\* _finalize_call ends the call.
LEMMA EndedStatus == ASSUME NEW d \in CallDoc, NEW reason PROVE Ended(d, reason).status = "ended"
<1>1. PICK parts : parts = [u \in Users |-> Closed(d, u)]
  OBVIOUS
<1>2. Ended(d, reason) = [d EXCEPT !.status = "ended", !.reason = reason, !.parts = parts]
  BY <1>1 DEF Ended
<1>3. [d EXCEPT !.status = "ended", !.reason = reason, !.parts = parts].status = "ended"
  BY DEF CallDoc
<1> QED BY <1>2, <1>3

\* Who leaves ends the call unless somebody else is in it.
LEMMA SomebodyElse ==
    ASSUME NEW d \in CallDoc, Coherent(d), NEW u, ~ShouldEnd(d, u) \/ ~NobodyElse(d)
    PROVE  Kept(d)
<1>1. PICK v \in Users : Present(d.parts[v]) \/ Pending(d.parts[v])
  BY DEF ShouldEnd, NobodyElse, HasJoinedNonInitiator, HasPendingNonInitiator
<1>2. d.parts[v].joined => d.parts[v].in
  BY DEF Coherent
<1> QED BY <1>1, <1>2 DEF Kept, Present, Pending

\* Each write of the only request starts from the stored document, so it
\* revives no ended call and leaves none without anybody.
LEMMA ProceedLone ==
    ASSUME IInv, NEW r \in Requests, Proceed(r), Lone(calls, req[r])
    PROVE  /\ req[r].pc # "free" /\ Final(calls, calls')
           /\ \E q : req' = [req EXCEPT ![r] = q] /\ Lone(calls', q)
<1> DEFINE Goal == /\ req[r].pc # "free" /\ Final(calls, calls')
                   /\ \E q : req' = [req EXCEPT ![r] = q] /\ Lone(calls', q)
<1>0. PICK s, d : s = req[r] /\ d = req[r].doc
  OBVIOUS
<1>1. /\ d \in CallDoc /\ s.user \in Users /\ s.target \in Users /\ Coherent(d) /\ Warranted(s)
      /\ calls \in Seq(CallDoc) /\ Lone(calls, s) /\ s.doc = d
  BY <1>0 DEF IInv, TypeOK, Warranted
<1>2. s.pc \in Carrying => d = calls[s.call]
  BY <1>1 DEF Lone
<1>3. ASSUME NEW e, NEW q, s.pc \in Carrying, Save(r, e), req' = [req EXCEPT ![r] = q],
             d.status = "ended" => e.status = "ended",
             \/ q.pc = "free" /\ (e.status = "ended" \/ Kept(e))
             \/ q.pc = "end" /\ q.call = s.call /\ q.doc = e
      PROVE  Goal
  <2>1. calls' = [calls EXCEPT ![s.call] = e]
    BY <1>0, <1>3 DEF Save
  <2>2. calls[s.call].status = "ended" => e.status = "ended"
    BY <1>2, <1>3
  <2>3. Lone(calls', q) /\ Final(calls, calls')
    BY <1>1, <1>3, <2>1, <2>2, SaveLone
  <2>4. req[r].pc # "free"
    BY <1>0, <1>3 DEF Carrying
  <2> QED BY <1>3, <2>3, <2>4
<1>4. CASE InsertCall(r)
  <2>1. s.pc = "insert" /\ calls' = Append(calls, d) /\ req' = [req EXCEPT ![r] = Free]
    BY <1>0, <1>4 DEF InsertCall, Reply
  <2>2. Kept(d) /\ \A c \in DOMAIN calls : calls[c].status = "ended"
    BY <1>1, <2>1 DEF Lone
  <2>3. PICK D, n : D = Append(calls, d) /\ n = Len(calls) + 1
    OBVIOUS
  <2>4. /\ DOMAIN calls = 1..Len(calls) /\ Len(calls) \in Nat
        /\ DOMAIN D = 1..n /\ D[n] = d /\ \A c \in 1..Len(calls) : D[c] = calls[c]
    BY <1>1, <2>3
  <2>5. \A c \in DOMAIN D : c # n => c \in DOMAIN calls /\ D[c] = calls[c]
    BY <2>3, <2>4
  <2>6. Lone(D, Free)
    BY <2>2, <2>4, <2>5, FreeIsFree DEF Lone, Carrying
  <2>7. Final(calls, D)
    BY <2>3, <2>4 DEF Final
  <2>8. req[r].pc # "free"
    BY <1>0, <2>1
  <2> QED BY <2>1, <2>3, <2>6, <2>7, <2>8
<1>5. CASE Join(r)
  <2>1. s.pc = "join" /\ Save(r, Joined(d, s.user)) /\ req' = [req EXCEPT ![r] = Free]
    BY <1>0, <1>5 DEF Join, Reply
  <2>2. Kept(Joined(d, s.user)) /\ d.status # "ended"
    BY <1>1, <2>1, JoinedKept DEF Warranted
  <2>3. s.pc \in Carrying
    BY <2>1 DEF Carrying
  <2> QED BY <1>3, <2>1, <2>2, <2>3, FreeIsFree
<1>6. CASE MarkRinging(r)
  <2>1. s.pc = "ring" /\ Save(r, Rang(d, s.user)) /\ req' = [req EXCEPT ![r] = Free]
    BY <1>0, <1>6 DEF MarkRinging, Reply
  <2>2. s.pc \in Carrying /\ d.status # "ended"
    BY <1>1, <2>1 DEF Carrying, Warranted
  <2>3. Kept(d)
    BY <1>1, <1>2, <2>1, <2>2 DEF Lone
  <2>4. Kept(Rang(d, s.user))
    BY <1>1, <2>3, RangKept
  <2> QED BY <1>3, <2>1, <2>2, <2>4, FreeIsFree
<1>7. CASE Acknowledge(r)
  <2>1. s.pc = "ack" /\ Save(r, Acked(d, s.user)) /\ req' = [req EXCEPT ![r] = Free]
    BY <1>0, <1>7 DEF Acknowledge, Reply
  <2>2. d.status = "ended"
    BY <1>1, <2>1 DEF Warranted, Coherent
  <2>3. Acked(d, s.user).status = "ended" /\ s.pc \in Carrying
    BY <1>1, <2>1, <2>2, AckedStatus DEF Carrying
  <2> QED BY <1>3, <2>1, <2>3, FreeIsFree
<1>8. CASE EndCall(r)
  <2>1. s.pc = "end" /\ Save(r, Ended(d, s.reason)) /\ req' = [req EXCEPT ![r] = Free]
    BY <1>0, <1>8 DEF EndCall, Reply
  <2>2. Ended(d, s.reason).status = "ended" /\ s.pc \in Carrying
    BY <1>1, <2>1, EndedStatus DEF Carrying
  <2> QED BY <1>3, <2>1, <2>2, FreeIsFree
<1>9. ASSUME NEW u \in Users, NEW end, NEW reason, s.pc \in {"leave", "kick"}, d.parts[u].in,
             Depart(r, Left(d, u), end, reason), ~end => Kept(Left(d, u))
      PROVE  Goal
  <2>1. PICK e : e = Left(d, u)
    OBVIOUS
  <2>2. s.pc \in Carrying /\ d.status # "ended"
    BY <1>1, <1>9 DEF Carrying, Warranted
  <2>3. CASE end
    <3>1. PICK q : q = Request("end", Owner, Owner, s.call, e, reason)
      OBVIOUS
    <3>2. q.pc = "end" /\ q.call = s.call /\ q.doc = e
      BY <3>1, RequestIs
    <3>3. req' = [req EXCEPT ![r] = q] /\ Save(r, e)
      BY <1>0, <1>9, <2>1, <2>3, <3>1 DEF Depart
    <3> QED BY <1>3, <2>2, <3>2, <3>3
  <2>4. CASE ~end
    <3>1. req' = [req EXCEPT ![r] = Free] /\ Save(r, e) /\ Kept(e)
      BY <1>9, <2>1, <2>4 DEF Depart, Reply
    <3> QED BY <1>3, <2>2, <3>1, FreeIsFree
  <2> QED BY <2>3, <2>4
<1>10. CASE Leave(r)
  <2>1. PICK e : e = Left(d, s.user)
    OBVIOUS
  <2>2. s.pc = "leave" /\ Depart(r, e, ShouldEnd(e, s.user), EndReason(e))
    BY <1>0, <1>10, <2>1 DEF Leave
  <2>3. d.parts[s.user].in /\ d.status # "ended"
    BY <1>1, <2>2 DEF Warranted
  <2>4. e \in CallDoc /\ Coherent(e)
    BY <1>1, <2>1, <2>3, LeftCoherent
  <2>5. ~ShouldEnd(e, s.user) => Kept(e)
    BY <2>4, SomebodyElse
  <2> QED BY <1>1, <1>9, <2>1, <2>2, <2>3, <2>5
<1>11. CASE RemoveParticipant(r)
  <2>1. PICK e : e = Left(d, s.target)
    OBVIOUS
  <2>2. s.pc = "kick" /\ Depart(r, e, NobodyElse(e), "member_removed")
    BY <1>0, <1>11, <2>1 DEF RemoveParticipant
  <2>3. d.parts[s.target].in /\ d.status # "ended"
    BY <1>1, <2>2 DEF Warranted
  <2>4. e \in CallDoc /\ Coherent(e)
    BY <1>1, <2>1, <2>3, LeftCoherent
  <2>5. ~NobodyElse(e) => Kept(e)
    BY <2>4, SomebodyElse
  <2> QED BY <1>1, <1>9, <2>1, <2>2, <2>3, <2>5
<1>12. CASE HandleMemberRemoved(r) \/ HandleRoomDeleted(r)
  <2>1. s.pc \in {"member_removed", "room_deleted"} /\ calls' = calls
    BY <1>0, <1>12 DEF HandleMemberRemoved, HandleRoomDeleted, LoadOnly
  <2>2. CASE Reply(r)
    <3>1. Lone(calls, Free)
      BY <1>1, <2>1, FreeIsFree, PlainLone DEF Carrying
    <3> QED BY <1>0, <2>1, <2>2, <3>1, SameIsFinal DEF Reply
  <2>3. ASSUME NEW c \in DOMAIN calls, NEW pc \in {"kick", "end"}, NEW t, NEW reason,
               req' = [req EXCEPT ![r] = Request(pc, Owner, t, c, calls[c], reason)]
        PROVE  Goal
    <3>1. PICK q : q = Request(pc, Owner, t, c, calls[c], reason)
      OBVIOUS
    <3>2. q.pc \in Carrying /\ q.call = c /\ q.doc = calls[c]
      BY <3>1, RequestIs DEF Carrying
    <3>3. Lone(calls, q)
      BY <1>1, <2>1, <3>2, CarryLone
    <3> QED BY <1>0, <2>1, <2>3, <3>1, <3>3, SameIsFinal
  <2>4. CASE HandleMemberRemoved(r)
    BY <2>2, <2>3, <2>4 DEF HandleMemberRemoved
  <2>5. CASE HandleRoomDeleted(r)
    BY <2>2, <2>3, <2>5 DEF HandleRoomDeleted
  <2> QED BY <1>12, <2>4, <2>5
<1> QED BY <1>4, <1>5, <1>6, <1>7, <1>8, <1>10, <1>11, <1>12 DEF Proceed

\* At most one slot in use means that two used slots are the same.
LEMMA OneRuns ==
    Cardinality({r \in Requests : req[r].pc # "free"}) <= 1
        => \A q, r \in Requests : req[q].pc # "free" /\ req[r].pc # "free" => q = r
<1> DEFINE S == {r \in Requests : req[r].pc # "free"}
<1> SUFFICES ASSUME Cardinality(S) <= 1, NEW q \in S, NEW r \in S, q # r PROVE FALSE
  OBVIOUS
<1>1. IsFiniteSet(S) /\ Cardinality(S) \in Nat
  BY CallBoundAssumption, FS_Subset, FS_CardinalityType
<1>2. Cardinality({r}) = 1 /\ IsFiniteSet({r})
  BY FS_Singleton
<1>3. Cardinality({r} \cup {q}) = 2
  BY <1>2, FS_AddElement
<1>4. Cardinality({r} \cup {q}) <= Cardinality(S)
  BY <1>1, FS_Subset
<1> QED BY <1>1, <1>3, <1>4

\* The only request moves.
LEMMA SoloMoves ==
    ASSUME SoloCallInv, NEW r \in Requests, NEW q, req' = [req EXCEPT ![r] = q], Lone(calls', q),
           \A x \in Requests \ {r} : req[x].pc = "free", IInv'
    PROVE  SoloCallInv'
<1>1. req'[r] = q /\ \A x \in Requests \ {r} : req'[x].pc = "free"
  BY DEF SoloCallInv, IInv, TypeOK
<1>2. q.pc = "free" => Lone(calls', Free)
  BY FreeIsFree, PlainLone DEF Carrying
<1>3. \A x, y \in Requests : req'[x].pc # "free" /\ req'[y].pc # "free" => x = y
  BY <1>1
<1>4. \A x \in Requests : req'[x].pc # "free" => Lone(calls', req'[x])
  BY <1>1
<1>5. Quiet' => Lone(calls', Free')
  <2>1. Quiet' => req'[r].pc = "free"
    BY DEF Quiet
  <2> QED BY <1>1, <1>2, <2>1, FreeIsFree
<1> QED BY <1>3, <1>4, <1>5 DEF SoloCallInv

\* Steps of the only request, and of nobody.
LEMMA SoloCallStep ==
    SoloCallInv /\ [OneRequest \/ ManyRequests]_mcVars => SoloCallInv' /\ (solo => Final(calls, calls'))
<1> SUFFICES ASSUME SoloCallInv, [OneRequest \/ ManyRequests]_mcVars
             PROVE  SoloCallInv' /\ (solo => Final(calls, calls'))
  OBVIOUS
<1>0. IInv /\ req \in [Requests -> RequestType]
  BY DEF SoloCallInv, IInv, TypeOK, RequestType
<1>1. ASSUME UNCHANGED <<calls, req, solo>>, IInv' PROVE SoloCallInv' /\ (solo => Final(calls, calls'))
  BY <1>1, SameIsFinal, FreeIsFree DEF SoloCallInv, Quiet
<1>2. CASE ManyRequests
  <2>1. IInv' /\ solo' = solo /\ ~solo
    BY <1>0, <1>2, NextIInv DEF ManyRequests
  <2> QED BY <2>1 DEF SoloCallInv
<1>3. CASE OneRequest
  <2>1. solo /\ solo' = solo
    BY <1>3 DEF OneRequest
  <2>2. \A x, y \in Requests : req'[x].pc # "free" /\ req'[y].pc # "free" => x = y
    <3>1. (Cardinality({r \in Requests : req[r].pc # "free"}) <= 1)'
      BY <1>3 DEF OneRequest
    <3>2. (Cardinality({r \in Requests : req[r].pc # "free"}) <= 1
            => \A q, r \in Requests : req[q].pc # "free" /\ req[r].pc # "free" => q = r)'
      BY OneRuns, PTL
    <3> QED BY <3>1, <3>2
  <2>3. IInv'
    <3>1. Next
      BY <1>3 DEF OneRequest, Next
    <3> QED BY <1>0, <3>1, NextIInv
  <2>4. ASSUME NEW u \in Users, AddMember(u) PROVE SoloCallInv' /\ (solo => Final(calls, calls'))
    BY <1>1, <2>1, <2>3, <2>4 DEF AddMember
  <2>5. ASSUME NEW r \in Requests, Proceed(r) PROVE SoloCallInv' /\ (solo => Final(calls, calls'))
    <3>1. req[r].pc # "free"
      BY <2>5 DEF Proceed, InsertCall, Join, MarkRinging, Acknowledge, Leave, RemoveParticipant, EndCall,
         HandleMemberRemoved, HandleRoomDeleted
    <3>2. Lone(calls, req[r]) /\ \A x \in Requests \ {r} : req[x].pc = "free"
      BY <2>1, <3>1 DEF SoloCallInv
    <3> QED BY <1>0, <2>3, <2>5, <3>2, ProceedLone, SoloMoves
  <2>6. ASSUME NEW r \in Requests, Arrive(r) PROVE SoloCallInv' /\ (solo => Final(calls, calls'))
    <3>0. req[r].pc = "free" /\ UNCHANGED calls
      BY <2>6, ArriveLone
    <3>1. PICK t : /\ req' = [req EXCEPT ![r] = t] /\ t.pc # "free"
                   /\ Lone(calls, Free) => Lone(calls, t)
      BY <2>6, ArriveLone
    <3>2. req'[r] = t /\ \A x \in Requests \ {r} : req'[x] = req[x]
      BY <1>0, <3>1
    <3>3. \A x \in Requests \ {r} : req[x].pc = "free"
      BY <2>2, <3>1, <3>2
    <3>4. Lone(calls, Free)
      BY <2>1, <3>0, <3>3 DEF SoloCallInv, Quiet
    <3> QED BY <2>3, <3>0, <3>1, <3>3, <3>4, SoloMoves, SameIsFinal
  <2> QED BY <1>3, <2>4, <2>5, <2>6 DEF OneRequest
<1>4. CASE UNCHANGED mcVars
  <2>1. UNCHANGED <<calls, req, solo>> /\ UNCHANGED vars
    BY <1>4 DEF mcVars, vars
  <2>2. IInv'
    BY <1>0, <2>1, NextIInv
  <2> QED BY <1>1, <2>1, <2>2
<1> QED BY <1>2, <1>3, <1>4

\* Initially there is no call and no request.
LEMMA SoloCallInit == MCInit => SoloCallInv
<1> SUFFICES ASSUME MCInit PROVE SoloCallInv
  OBVIOUS
<1>1. Init /\ IInv
  BY InitIInv DEF MCInit
<1>2. calls = <<>> /\ \A r \in Requests : req[r].pc = "free"
  BY <1>1, FreeIsFree DEF Init
<1>3. DOMAIN calls = {}
  BY <1>2
<1>4. Lone(calls, Free)
  BY <1>3, FreeIsFree DEF Lone, Carrying
<1> QED BY <1>1, <1>2, <1>4 DEF SoloCallInv

\* While requests do not overlap and none fails, a call that everybody left is
\* over once the request that left last has replied.
THEOREM NoZombieAlone == MCSpec => []SoloAbandonedCallEnds
<1>1. SoloCallInv => SoloAbandonedCallEnds
  <2> SUFFICES ASSUME SoloCallInv, solo, Quiet, NEW c \in LiveCalls
               PROVE  \E u \in Users : Pending(calls[c].parts[u])
    BY DEF SoloAbandonedCallEnds, AbandonedCallEnds
  <2>1. Lone(calls, Free)
    BY DEF SoloCallInv
  <2> QED BY <2>1, FreeIsFree DEF Lone, LiveCalls, Live, Kept
<1> QED BY <1>1, SoloCallInit, SoloCallStep, PTL DEF MCSpec

\* While requests do not overlap, no step makes an ended call ringing or
\* active again: who saves a document saves the stored one, changed.
THEOREM FinalAlone == MCSpec => SoloEndedIsFinal
<1>1. SoloCallInv /\ [OneRequest \/ ManyRequests]_mcVars => [solo => StaysEnded]_mcVars
  <2> SUFFICES ASSUME SoloCallInv, [OneRequest \/ ManyRequests]_mcVars, solo PROVE StaysEnded
    OBVIOUS
  <2>1. Final(calls, calls')
    BY SoloCallStep
  <2> QED BY <2>1 DEF Final, StaysEnded, Live
<1> QED BY <1>1, SoloCallInit, SoloCallStep, PTL DEF MCSpec, SoloEndedIsFinal
====
