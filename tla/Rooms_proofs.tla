---------------------------- MODULE Rooms_proofs ----------------------------
(* Theorems about a group room: for any users, messages, pin limit and       *)
(* number of overlapping and failing requests, and, where the code promises  *)
(* it only between requests, for requests that do not overlap.               *)
EXTENDS MCAccess, FiniteSetTheorems, WellFoundedInduction, TLAPS

-----------------------------------------------------------------------------
(* Pins: what the list comprehension of pin and unpin leaves *)

\* Induction over the natural numbers, for a set.
LEMMA SetInduction ==
    ASSUME NEW P, 0 \in P, \A n \in Nat : n \in P => n + 1 \in P PROVE \A n \in Nat : n \in P
<1> DEFINE T == Nat \ P
<1> SUFFICES ASSUME T # {} PROVE FALSE
  OBVIOUS
<1>1. PICK x \in T : \A y \in T : ~(<<y, x>> \in OpToRel(<, Nat))
  BY WFMin, NatLessThanWellFounded, Zenon
<1>2. \A y \in T : ~(y < x)
  BY <1>1 DEF OpToRel
<1>3. x # 0 /\ x - 1 \in Nat /\ x - 1 < x /\ (x - 1) + 1 = x
  OBVIOUS
<1> QED BY <1>2, <1>3

\* The function that defines Without, up to n.
IsKept(f, s, m, n) ==
    f = [i \in 0..n |-> IF i = 0 THEN <<>> ELSE IF s[i] = m THEN f[i - 1] ELSE Append(f[i - 1], s[i])]

\* The recursive function in Without exists, by induction on its bound.
LEMMA KeptExists == \A s, m : \A n \in Nat : \E f : IsKept(f, s, m, n)
<1> SUFFICES ASSUME NEW s, NEW m PROVE \A n \in Nat : \E f : IsKept(f, s, m, n)
  OBVIOUS
<1> DEFINE P == {n \in Nat : \E f : IsKept(f, s, m, n)}
<1>1. 0 \in P
  <2>1. IsKept([i \in 0..0 |-> <<>>], s, m, 0)
    BY DEF IsKept
  <2> QED BY <2>1
<1>2. ASSUME NEW n \in Nat, n \in P PROVE n + 1 \in P
  <2>1. PICK f : IsKept(f, s, m, n)
    BY <1>2
  <2> DEFINE last == IF s[n + 1] = m THEN f[n] ELSE Append(f[n], s[n + 1])
             g == [i \in 0..(n + 1) |-> IF i = n + 1 THEN last ELSE f[i]]
  <2>2. IsKept(g, s, m, n + 1)
    <3>1. \A i \in 0..n : f[i] = IF i = 0 THEN <<>> ELSE IF s[i] = m THEN f[i - 1] ELSE Append(f[i - 1], s[i])
      BY <2>1 DEF IsKept
    <3> HIDE DEF last
    <3>2. \A i \in 0..n : g[i] = f[i]
      OBVIOUS
    <3>3. g[n + 1] = last
      OBVIOUS
    <3> DEFINE h(i) == IF i = 0 THEN <<>> ELSE IF s[i] = m THEN g[i - 1] ELSE Append(g[i - 1], s[i])
    <3>4. ASSUME NEW i \in 0..(n + 1) PROVE g[i] = h(i)
      <4> HIDE DEF g
      <4>1. CASE i = n + 1
        BY <3>2, <3>3, <4>1 DEF last
      <4>2. CASE i \in 0..n
        BY <3>1, <3>2, <4>2
      <4> QED BY <4>1, <4>2
    <3>5. g = [i \in 0..(n + 1) |-> h(i)]
      <4> HIDE DEF h
      <4> QED BY <3>4
    <3> QED BY <3>5 DEF IsKept
  <2> QED BY <2>2
<1> HIDE DEF P
<1>3. \A n \in Nat : n \in P
  BY <1>1, <1>2, SetInduction
<1> QED BY <1>3 DEF P

\* Without is the value of that function at the length of the sequence.
LEMMA WithoutKept ==
    ASSUME NEW s, Len(s) \in Nat, NEW m PROVE \E f : IsKept(f, s, m, Len(s)) /\ Without(s, m) = f[Len(s)]
<1> DEFINE f == CHOOSE f : IsKept(f, s, m, Len(s))
<1>1. IsKept(f, s, m, Len(s))
  BY KeptExists
<1>2. Without(s, m) = f[Len(s)]
  BY DEF Without, IsKept
<1> QED BY <1>1, <1>2

Distinct(s) == \A a, b \in 1..Len(s) : s[a] = s[b] => a = b

\* Without drops the message, invents nothing and keeps distinct pins
\* distinct.
LEMMA WithoutIs ==
    ASSUME NEW T, NEW s \in Seq(T), NEW m
    PROVE  /\ Without(s, m) \in Seq(T)
           /\ Len(Without(s, m)) <= Len(s)
           /\ \A j \in 1..Len(Without(s, m)) :
                 Without(s, m)[j] # m /\ \E k \in 1..Len(s) : Without(s, m)[j] = s[k]
           /\ Distinct(s) => Distinct(Without(s, m))
<1>0. Len(s) \in Nat
  OBVIOUS
<1>1. PICK f : IsKept(f, s, m, Len(s)) /\ Without(s, m) = f[Len(s)]
  BY <1>0, WithoutKept
<1>2. \A i \in 0..Len(s) :
        f[i] = IF i = 0 THEN <<>> ELSE IF s[i] = m THEN f[i - 1] ELSE Append(f[i - 1], s[i])
  BY <1>1 DEF IsKept
<1> DEFINE Good(i) == /\ f[i] \in Seq(T) /\ Len(f[i]) <= i
                      /\ \A j \in 1..Len(f[i]) : f[i][j] # m /\ \E k \in 1..i : f[i][j] = s[k]
                      /\ Distinct(s) => Distinct(f[i])
           P == {i \in Nat : i <= Len(s) => Good(i)}
<1>3. 0 \in P
  <2>1. f[0] = <<>>
    BY <1>0, <1>2
  <2>2. <<>> \in Seq(T) /\ Len(<<>>) = 0 /\ 1..0 = {}
    OBVIOUS
  <2>3. f[0] \in Seq(T) /\ Len(f[0]) = 0 /\ 1..Len(f[0]) = {}
    BY <2>1, <2>2
  <2> QED BY <2>3 DEF Distinct
<1>4. ASSUME NEW n \in Nat, n \in P PROVE n + 1 \in P
  <2> SUFFICES ASSUME n + 1 <= Len(s) PROVE Good(n + 1)
    OBVIOUS
  <2>1. Good(n)
    BY <1>0, <1>4
  <2>2. f[n + 1] = IF s[n + 1] = m THEN f[n] ELSE Append(f[n], s[n + 1])
    BY <1>0, <1>2
  <2>3. CASE s[n + 1] = m
    <3>1. f[n + 1] = f[n]
      BY <2>2, <2>3
    <3> QED BY <2>1, <3>1
  <2>4. CASE s[n + 1] # m
    <3>0. PICK g, x : g = f[n] /\ x = s[n + 1]
      OBVIOUS
    <3>1. x \in T /\ g \in Seq(T) /\ Len(g) \in Nat /\ f[n + 1] = Append(g, x)
      BY <2>1, <2>2, <2>4, <3>0, <1>0
    <3>2. /\ Append(g, x) \in Seq(T) /\ Len(Append(g, x)) = Len(g) + 1
          /\ \A j \in 1..Len(g) : Append(g, x)[j] = g[j]
          /\ Append(g, x)[Len(g) + 1] = x
      BY <3>1
    <3>3. \A j \in 1..Len(g) : g[j] # m /\ \E k \in 1..n : g[j] = s[k]
      BY <2>1, <3>0
    <3>4. Distinct(s) => Distinct(Append(g, x))
      <4> SUFFICES ASSUME Distinct(s), NEW a \in 1..Len(g) + 1, NEW b \in 1..Len(g) + 1,
                          Append(g, x)[a] = Append(g, x)[b]
                   PROVE  a = b
        BY <3>2 DEF Distinct
      <4>1. Distinct(g)
        BY <2>1, <3>0
      <4>2. \A j \in 1..Len(g) : g[j] # x
        <5> SUFFICES ASSUME NEW j \in 1..Len(g), g[j] = x PROVE FALSE
          OBVIOUS
        <5>1. PICK k \in 1..n : g[j] = s[k]
          BY <3>3
        <5>2. s[k] = s[n + 1] /\ k \in 1..Len(s) /\ n + 1 \in 1..Len(s) /\ k # n + 1
          BY <1>0, <3>0, <5>1
        <5> QED BY <5>2 DEF Distinct
      <4>3. CASE a \in 1..Len(g) /\ b \in 1..Len(g)
        BY <3>2, <4>1, <4>3 DEF Distinct
      <4>4. CASE a = Len(g) + 1 /\ b = Len(g) + 1
        BY <4>4
      <4>5. CASE a = Len(g) + 1 /\ b \in 1..Len(g)
        BY <3>2, <4>2, <4>5
      <4>6. CASE a \in 1..Len(g) /\ b = Len(g) + 1
        BY <3>2, <4>2, <4>6
      <4> QED BY <3>1, <4>3, <4>4, <4>5, <4>6
    <3>5. Len(g) <= n
      BY <2>1, <3>0
    <3>6. ASSUME NEW j \in 1..Len(g) + 1
          PROVE  Append(g, x)[j] # m /\ \E k \in 1..n + 1 : Append(g, x)[j] = s[k]
      <4>1. CASE j \in 1..Len(g)
        BY <3>2, <3>3, <4>1
      <4>2. CASE j = Len(g) + 1
        BY <2>4, <3>0, <3>2, <4>2
      <4> QED BY <3>1, <4>1, <4>2
    <3> QED BY <3>1, <3>2, <3>4, <3>5, <3>6
  <2> QED BY <2>3, <2>4
<1> HIDE DEF Good, P
<1>5. \A n \in Nat : n \in P
  BY <1>3, <1>4, SetInduction
<1>6. Good(Len(s))
  BY <1>0, <1>5 DEF P
<1> QED BY <1>1, <1>6 DEF Good
-----------------------------------------------------------------------------
(* Overlapping and failing requests *)

\* A request that will write a document back has one.
Furnished(s) ==
    /\ s.pc \in {"message", "save"} => s.op \in {"pin", "unpin"}
    /\ s.pc \in {"check", "fill", "message", "save"} /\ s.op \in {"pin", "unpin"} => s.copy \in Room
    /\ s.pc \in {"unlink", "purge", "restore"} => s.copy \in Room

\* A request lets in, and writes back as members, only those who were members.
Honest(s, E) ==
    /\ s.pc \in {"check", "fill"} /\ s.ok => s.who \in E
    /\ s.pc \in {"message", "save"} \/ (s.pc = "pull" /\ s.op = "leave") => s.who \in E
    /\ s.copy \in Room => s.copy.members \subseteq E

RoomInv ==
    /\ TypeOK
    /\ Owner \in everMember
    /\ Exists => room.members \subseteq everMember
    /\ \A u \in Users : cache[u] = "yes" => u \in everMember
    /\ \A r \in Requests : Furnished(req[r]) /\ Honest(req[r], everMember)

\* A request that has not loaded anything.
LEMMA AtIs ==
    ASSUME NEW pc \in Steps, NEW u \in Users
    PROVE  /\ At(pc, u) \in Request
           /\ At(pc, u) = [pc |-> pc, op |-> "none", who |-> u, msg |-> NoMsg, ok |-> FALSE, copy |-> NoRoom]
           /\ NoMsg \in Msgs
<1>1. NoMsg \in Msgs
  BY RoomAssumption DEF NoMsg
<1> QED BY <1>1 DEF At, Request, Accessing

\* A free slot holds no document and no decision.
LEMMA FreeIs == Free \in Request /\ Free.pc = "free" /\ Furnished(Free) /\ \A E : Honest(Free, E)
<1>1. Free = [pc |-> "free", op |-> "none", who |-> Owner, msg |-> NoMsg, ok |-> FALSE, copy |-> NoRoom]
      /\ Free \in Request
  BY AtIs, RoomAssumption DEF Free, Steps
<1> QED BY <1>1, RoomAssumption DEF Furnished, Honest

\* A request without a copy that is not about to let anybody in.
LEMMA AtIsPlain ==
    ASSUME NEW pc \in Steps \ {"message", "save", "unlink", "purge", "restore"}, NEW u \in Users
    PROVE  At(pc, u) \in Request /\ Furnished(At(pc, u)) /\ \A E : Honest(At(pc, u), E)
<1>1. At(pc, u) \in Request
      /\ At(pc, u) = [pc |-> pc, op |-> "none", who |-> u, msg |-> NoMsg, ok |-> FALSE, copy |-> NoRoom]
  BY AtIs
<1> QED BY <1>1, RoomAssumption DEF Furnished, Honest

\* A step of one request keeps the invariant if what it holds and writes
\* speaks for people who were members.
LEMMA RoomMoves ==
    ASSUME RoomInv, NEW r \in Requests, NEW s \in Request, Goto(r, s), Furnished(s),
           Honest(s, everMember'),
           everMember \subseteq everMember', everMember' \subseteq Users,
           room' \in Room \cup {NoRoom}, room' # NoRoom => room'.members \subseteq everMember',
           cache' \in [Users -> {"none", "yes", "no"}],
           \A u \in Users : cache'[u] = "yes" => u \in everMember',
           deleted' \subseteq Msgs, faults' \in 0..MaxFaults, queued' \in BOOLEAN, lost' \in BOOLEAN
    PROVE  RoomInv'
<1>1. req \in [Requests -> Request] /\ req' = [req EXCEPT ![r] = s]
  BY DEF RoomInv, TypeOK, Goto
<1>2. req' \in [Requests -> Request] /\ \A q \in Requests : req'[q] = IF q = r THEN s ELSE req[q]
  BY <1>1
<1>3. \A q \in Requests : Furnished(req'[q])
  BY <1>2 DEF RoomInv
<1>4. \A q \in Requests : Honest(req'[q], everMember')
  <2> SUFFICES ASSUME NEW q \in Requests, q # r PROVE Honest(req[q], everMember')
    BY <1>2
  <2>1. Honest(req[q], everMember)
    BY DEF RoomInv
  <2> QED BY <2>1 DEF Honest
<1>5. TypeOK'
  BY <1>2 DEF TypeOK
<1> QED BY <1>3, <1>4, <1>5 DEF RoomInv, Exists

\* The same for a request that changes nothing else, and for one that only
\* changes the document.
LEMMA OnlyMoves ==
    ASSUME RoomInv, NEW r \in Requests, NEW s \in Request, Goto(r, s), Furnished(s),
           Honest(s, everMember), UNCHANGED <<room, cache, deleted, queued, faults, everMember, lost>>
    PROVE  RoomInv'
<1>1. /\ room \in Room \cup {NoRoom} /\ cache \in [Users -> {"none", "yes", "no"}]
      /\ deleted \subseteq Msgs /\ everMember \subseteq Users /\ faults \in 0..MaxFaults
      /\ queued \in BOOLEAN /\ lost \in BOOLEAN
      /\ room # NoRoom => room.members \subseteq everMember
      /\ \A u \in Users : cache[u] = "yes" => u \in everMember
  BY DEF RoomInv, TypeOK, Exists
<1> QED BY <1>1, RoomMoves

\* The same for a step that writes the room document only.
LEMMA RoomChanges ==
    ASSUME RoomInv, NEW r \in Requests, NEW s \in Request, Goto(r, s), Furnished(s),
           Honest(s, everMember), UNCHANGED <<cache, deleted, queued, faults, everMember, lost>>,
           room' \in Room \cup {NoRoom}, room' # NoRoom => room'.members \subseteq everMember
    PROVE  RoomInv'
<1>1. /\ cache \in [Users -> {"none", "yes", "no"}]
      /\ deleted \subseteq Msgs /\ everMember \subseteq Users /\ faults \in 0..MaxFaults
      /\ queued \in BOOLEAN /\ lost \in BOOLEAN
      /\ \A u \in Users : cache[u] = "yes" => u \in everMember
  BY DEF RoomInv, TypeOK
<1> QED BY <1>1, RoomMoves

\* The invariant holds of the new room.
LEMMA RoomInitInv == Init => RoomInv
<1> SUFFICES ASSUME Init PROVE RoomInv
  OBVIOUS
<1>1. PICK M \in SUBSET Users :
        /\ room = [members |-> M \cup {Owner}, admins |-> {}, invite |-> FALSE, pins |-> <<>>]
        /\ everMember = M \cup {Owner}
  BY DEF Init
<1>2. room \in Room /\ room.members = everMember /\ everMember \subseteq Users
  BY <1>1, RoomAssumption DEF Room
<1>3. \A r \in Requests : req[r] = Free
  BY DEF Init
<1>4. TypeOK
  <2>1. /\ room \in Room \cup {NoRoom} /\ cache \in [Users -> {"none", "yes", "no"}]
        /\ deleted \subseteq Msgs /\ everMember \subseteq Users
        /\ req \in [Requests -> Request]
    BY <1>2, FreeIs DEF Init
  <2>2. faults \in 0..MaxFaults
    BY RoomAssumption DEF Init
  <2>3. queued \in BOOLEAN /\ lost \in BOOLEAN
    BY DEF Init
  <2> QED BY <2>1, <2>2, <2>3 DEF TypeOK
<1>5. \A u \in Users : cache[u] # "yes"
  BY DEF Init
<1> QED BY <1>1, <1>2, <1>3, <1>4, <1>5, FreeIs DEF RoomInv

\* A request that starts keeps the invariant.
LEMMA BeginInv == ASSUME RoomInv, NEW r \in Requests, Begin(r) PROVE RoomInv'
<1>0. room \in Room \cup {NoRoom} /\ everMember \subseteq Users
  BY DEF RoomInv, TypeOK
<1>1. ASSUME NEW pc \in {"add", "pull", "promote", "demote", "invite", "revoke", "snapshot"},
             NEW u \in Users, Goto(r, At(pc, u)),
             UNCHANGED <<room, cache, deleted, queued, faults, everMember, lost>>
      PROVE  RoomInv'
  <2>1. pc \in Steps \ {"message", "save", "unlink", "purge", "restore"}
    BY DEF Steps, Deleting
  <2> QED BY <1>1, <2>1, AtIsPlain, OnlyMoves
<1>2. ASSUME NEW op \in Accessing, NEW u \in Users, NEW m \in Msgs, Load(r, op, u, m) PROVE RoomInv'
  <2>1. PICK c, a, s : /\ c = (IF op \in {"pin", "unpin"} THEN room ELSE NoRoom) /\ a = Allowed(u)
                       /\ s = [At("check", u) EXCEPT !.op = op, !.msg = m, !.ok = a, !.copy = c]
    OBVIOUS
  <2>2. /\ s.pc = "check" /\ s.op = op /\ s.who = u /\ s.ok = a /\ s.copy = c
        /\ s \in [pc : {"check"}, op : {op}, who : {u}, msg : {m}, ok : {a}, copy : {c}]
    <3> DEFINE t == [At("check", u) EXCEPT !.op = op, !.msg = m, !.ok = a, !.copy = c]
    <3>1. t.pc = "check" /\ t.op = op /\ t.who = u /\ t.msg = m
      BY DEF At
    <3>2. t.ok = a /\ t.copy = c
      BY DEF At
    <3>3. t \in [pc : {"check"}, op : {op}, who : {u}, msg : {m}, ok : {a}, copy : {c}]
      BY DEF At
    <3> QED BY <2>1, <3>1, <3>2, <3>3
  <2>3. Exists /\ room \in Room /\ a \in BOOLEAN /\ (a => u \in everMember)
        /\ c \in Room \cup {NoRoom} /\ (c \in Room => c.members \subseteq everMember)
        /\ (op \in {"pin", "unpin"} => c \in Room)
    <3>1. Exists /\ room \in Room /\ Owner \in everMember /\ room.members \subseteq everMember
      BY <1>0, <1>2 DEF Load, Exists, RoomInv
    <3>2. a \in BOOLEAN /\ (a => Allowed(u))
      BY <2>1, Zenon DEF Allowed
    <3>3. Allowed(u) => u \in everMember
      BY <3>1 DEF Allowed
    <3>4. /\ c \in Room \cup {NoRoom} /\ (c \in Room => c.members \subseteq everMember)
          /\ (op \in {"pin", "unpin"} => c \in Room)
      BY <2>1, <3>1, RoomAssumption
    <3> QED BY <3>1, <3>2, <3>3, <3>4
  <2>4. s \in Request
    BY <2>2, <2>3 DEF Request, Steps
  <2>5. Furnished(s) /\ Honest(s, everMember)
    BY <2>2, <2>3 DEF Furnished, Honest
  <2>6. Goto(r, s) /\ UNCHANGED <<room, cache, deleted, queued, faults, everMember, lost>>
    BY <1>2, <2>1 DEF Load
  <2> QED BY <2>4, <2>5, <2>6, OnlyMoves
<1>3. ASSUME NEW a \in Users, NEW u \in Users, LoadAdd(r, a, u) \/ LoadRemove(r, a, u) PROVE RoomInv'
  BY <1>1, <1>3 DEF LoadAdd, LoadRemove
<1>4. ASSUME NEW u \in Users, LoadPromote(r, u) \/ LoadDemote(r, u) \/ Join(r, u) PROVE RoomInv'
  BY <1>1, <1>4 DEF LoadPromote, LoadDemote, Join
<1>5. ASSUME NEW a \in Users, LoadInvite(r, a) \/ LoadRevoke(r, a) PROVE RoomInv'
  BY <1>1, <1>5, RoomAssumption DEF LoadInvite, LoadRevoke
<1>6. ASSUME NEW m \in Msgs, DeleteMessage(r, m) PROVE RoomInv'
  <2>1. PICK s : s = [At("unpin_deleted", Owner) EXCEPT !.msg = m]
    OBVIOUS
  <2>2. /\ s.pc = "unpin_deleted" /\ s.op = "none" /\ s.copy = NoRoom
        /\ s \in [pc : {"unpin_deleted"}, op : {"none"}, who : {Owner}, msg : {m}, ok : {FALSE},
                  copy : {NoRoom}]
    BY <2>1 DEF At
  <2>3. s \in Request /\ Furnished(s) /\ Honest(s, everMember)
    BY <2>2, RoomAssumption DEF Request, Steps, Furnished, Honest
  <2>4. /\ Goto(r, s) /\ deleted' \subseteq Msgs
        /\ UNCHANGED <<room, cache, queued, faults, everMember, lost>>
    BY <1>6, <2>1 DEF DeleteMessage, RoomInv, TypeOK
  <2>5. /\ cache \in [Users -> {"none", "yes", "no"}] /\ faults \in 0..MaxFaults
        /\ queued \in BOOLEAN /\ lost \in BOOLEAN
        /\ room # NoRoom => room.members \subseteq everMember
        /\ \A u \in Users : cache[u] = "yes" => u \in everMember
    BY DEF RoomInv, TypeOK, Exists
  <2> QED BY <1>0, <2>3, <2>4, <2>5, RoomMoves
<1>7. CASE LoadDelete(r)
  BY <1>1, <1>7, RoomAssumption DEF LoadDelete
<1>8. CASE DeleteAgain(r)
  BY <1>8 DEF DeleteAgain, vars, RoomInv, TypeOK, Exists
<1> QED BY <1>2, <1>3, <1>4, <1>5, <1>6, <1>7, <1>8 DEF Begin

\* The cut to the pin limit keeps a prefix.
LEMMA NewestIs ==
    ASSUME NEW T, NEW s \in Seq(T)
    PROVE  /\ Newest(s) \in Seq(T) /\ Len(Newest(s)) <= PinLimit /\ Len(Newest(s)) <= Len(s)
           /\ \A i \in 1..Len(Newest(s)) : Newest(s)[i] = s[i]
<1> DEFINE n == IF Len(s) < PinLimit THEN Len(s) ELSE PinLimit
<1>1. n \in 0..Len(s) /\ n <= PinLimit /\ Len(s) \in Nat
  BY RoomAssumption
<1> HIDE DEF n
<1>2. SubSeq(s, 1, n) \in Seq(T) /\ Len(SubSeq(s, 1, n)) = n /\ \A i \in 1..n : SubSeq(s, 1, n)[i] = s[i]
  BY <1>1
<1>3. Newest(s) = SubSeq(s, 1, n)
  BY DEF Newest, n
<1> QED BY <1>1, <1>2, <1>3

\* A message is pinned at the front.
LEMMA PushIs ==
    ASSUME NEW T, NEW s \in Seq(T), NEW x \in T
    PROVE  /\ <<x>> \o s \in Seq(T) /\ Len(<<x>> \o s) = Len(s) + 1
           /\ (<<x>> \o s)[1] = x
           /\ \A i \in 2..Len(s) + 1 : (<<x>> \o s)[i] = s[i - 1]
  OBVIOUS

\* The pins after pin_message are messages.
LEMMA PinnedTyped ==
    ASSUME NEW r, req[r].copy \in Room, req[r].msg \in Msgs PROVE Pinned(r) \in Seq(Msgs)
<1> DEFINE rest == Without(req[r].copy.pins, req[r].msg)
<1>1. rest \in Seq(Msgs)
  BY WithoutIs DEF Room
<1>2. <<req[r].msg>> \o rest \in Seq(Msgs)
  BY <1>1, PushIs
<1>3. Newest(<<req[r].msg>> \o rest) \in Seq(Msgs)
  BY <1>2, NewestIs
<1> HIDE DEF rest
<1> QED BY <1>1, <1>3 DEF Pinned, rest

\* A decision in favour of somebody who was a member is an honest one.
LEMMA GrantInv ==
    ASSUME RoomInv, NEW r \in Requests, Pc(r) \in {"check", "fill"}, Who(r) \in everMember, Grant(r)
    PROVE  \E s \in Request : Goto(r, s) /\ Furnished(s) /\ Honest(s, everMember)
<1>1. req[r] \in Request /\ Furnished(req[r]) /\ Honest(req[r], everMember)
  BY DEF RoomInv, TypeOK
<1>2. PICK pc : pc = AfterAccess(r)
  OBVIOUS
<1>3. /\ pc \in {"message", "save", "pull", "free"}
      /\ pc \in {"message", "save"} => req[r].op \in {"pin", "unpin"}
      /\ pc = "pull" => req[r].op = "leave"
  <2>1. CASE req[r].op = "pin"
    BY <1>2, <2>1 DEF AfterAccess
  <2>2. CASE req[r].op = "unpin"
    BY <1>2, <2>2 DEF AfterAccess
  <2>3. CASE req[r].op = "leave"
    BY <1>2, <2>3 DEF AfterAccess
  <2>4. CASE req[r].op \notin {"pin", "unpin", "leave"}
    BY <1>2, <2>4 DEF AfterAccess
  <2> QED BY <2>1, <2>2, <2>3, <2>4
<1>4. Goto(r, IF pc = "free" THEN Free ELSE [req[r] EXCEPT !.pc = pc, !.ok = TRUE])
  BY <1>2 DEF Grant
<1>5. CASE pc = "free"
  BY <1>4, <1>5, FreeIs
<1>6. CASE pc # "free"
  <2>1. PICK s : s = [req[r] EXCEPT !.pc = pc, !.ok = TRUE]
    OBVIOUS
  <2>2. s \in Request
    BY <1>1, <1>3, <2>1 DEF Request, Steps
  <2>3. s.pc = pc /\ s.op = req[r].op /\ s.who = req[r].who /\ s.copy = req[r].copy
    BY <1>1, <2>1 DEF Request
  <2>4. Furnished(s) /\ Honest(s, everMember)
    BY <1>1, <1>3, <2>3 DEF Furnished, Honest, Pc, Who
  <2>5. Goto(r, s)
    BY <1>4, <1>6, <2>1
  <2> QED BY <2>2, <2>4, <2>5
<1> QED BY <1>5, <1>6

\* Every call of a request under way keeps the invariant, stale documents
\* written back included.
LEMMA ProceedInv == ASSUME RoomInv, NEW r \in Requests, Proceed(r) PROVE RoomInv'
<1>0. /\ room \in Room \cup {NoRoom} /\ everMember \subseteq Users
      /\ req[r] \in Request /\ Furnished(req[r]) /\ Honest(req[r], everMember) /\ Pc(r) = req[r].pc
      /\ Who(r) = req[r].who /\ Who(r) \in Users
      /\ room # NoRoom => room \in Room /\ room.members \subseteq everMember
  BY DEF RoomInv, TypeOK, Pc, Who, Exists, Request
<1>1. /\ cache \in [Users -> {"none", "yes", "no"}] /\ deleted \subseteq Msgs
      /\ faults \in 0..MaxFaults /\ queued \in BOOLEAN /\ lost \in BOOLEAN
      /\ \A u \in Users : cache[u] = "yes" => u \in everMember
  BY DEF RoomInv, TypeOK
<1>2. ASSUME Goto(r, Free), UNCHANGED <<room, cache, deleted, queued, faults, everMember, lost>>
      PROVE  RoomInv'
  BY <1>2, FreeIs, OnlyMoves
<1>3. CASE Check(r)
  <2>1. UNCHANGED <<room, cache, deleted, queued, faults, everMember, lost>> /\ Pc(r) = "check"
    BY <1>3 DEF Check
  <2>2. CASE cache[Who(r)] = "yes"
    <3>1. Grant(r) /\ Who(r) \in everMember
      BY <1>0, <1>1, <1>3, <2>2 DEF Check
    <3> QED BY <2>1, <3>1, GrantInv, OnlyMoves
  <2>3. CASE cache[Who(r)] = "no"
    BY <1>2, <1>3, <2>1, <2>3 DEF Check
  <2>4. CASE cache[Who(r)] = "none"
    <3>1. PICK s : s = [req[r] EXCEPT !.pc = "fill"]
      OBVIOUS
    <3>2. s \in Request
      BY <1>0, <3>1 DEF Request, Steps
    <3>3. s.pc = "fill" /\ s.op = req[r].op /\ s.who = req[r].who /\ s.ok = req[r].ok /\ s.copy = req[r].copy
      BY <1>0, <3>1 DEF Request
    <3>4. Furnished(s) /\ Honest(s, everMember)
      BY <1>0, <2>1, <3>3 DEF Furnished, Honest
    <3>5. Goto(r, s)
      BY <1>3, <2>4, <3>1 DEF Check
    <3> QED BY <2>1, <3>2, <3>4, <3>5, OnlyMoves
  <2> QED BY <1>0, <1>1, <2>2, <2>3, <2>4
<1>4. CASE Fill(r)
  <2>1. /\ UNCHANGED <<room, deleted, queued, faults, everMember, lost>> /\ Pc(r) = "fill"
        /\ cache' = [cache EXCEPT ![Who(r)] = IF req[r].ok THEN "yes" ELSE "no"]
    BY <1>4 DEF Fill
  <2>2. req[r].ok => Who(r) \in everMember
    BY <1>0, <2>1 DEF Honest
  <2>3. /\ cache' \in [Users -> {"none", "yes", "no"}]
        /\ \A u \in Users : cache'[u] = "yes" => u \in everMember
    BY <1>0, <1>1, <2>1, <2>2
  <2>4. \E s \in Request : Goto(r, s) /\ Furnished(s) /\ Honest(s, everMember)
    <3>1. CASE req[r].ok
      BY <1>4, <2>1, <2>2, <3>1, GrantInv DEF Fill
    <3>2. CASE ~req[r].ok
      BY <1>4, <3>2, FreeIs DEF Fill
    <3> QED BY <3>1, <3>2
  <2> QED BY <1>0, <1>1, <2>1, <2>3, <2>4, RoomMoves
<1>5. CASE Add(r)
  <2>1. PICK s : s = At("invalidate", Who(r))
    OBVIOUS
  <2>2. s \in Request /\ Furnished(s) /\ Honest(s, everMember')
    BY <1>0, <2>1, AtIsPlain DEF Steps, Deleting
  <2>3. everMember' = everMember \cup (IF Exists THEN {Who(r)} ELSE {})
    BY <1>5 DEF Add, Admit
  <2>4. room' \in Room \cup {NoRoom} /\ (room' # NoRoom => room'.members \subseteq everMember')
    BY <1>0, <1>5, <2>3 DEF Add, Update, Exists, Room
  <2>5. Goto(r, s) /\ UNCHANGED <<cache, deleted, queued, faults, lost>>
    BY <1>5, <2>1 DEF Add
  <2>6. everMember \subseteq everMember' /\ everMember' \subseteq Users
    BY <1>0, <2>3
  <2> QED BY <1>1, <2>2, <2>4, <2>5, <2>6, RoomMoves
<1>6. CASE Pull(r)
  <2>1. PICK s : s = At("invalidate", Who(r))
    OBVIOUS
  <2>2. s \in Request /\ Furnished(s) /\ Honest(s, everMember)
    BY <1>0, <2>1, AtIsPlain DEF Steps, Deleting
  <2>3. room' \in Room \cup {NoRoom} /\ (room' # NoRoom => room'.members \subseteq everMember)
    <3> DEFINE d == [room EXCEPT !.members = @ \ {Who(r)}, !.admins = @ \ {Who(r)}]
    <3>1. room \in Room => d \in Room /\ d.members = room.members \ {Who(r)}
      BY DEF Room
    <3>2. room' = IF Exists THEN d ELSE NoRoom
      BY <1>6 DEF Pull, Update
    <3> HIDE DEF d
    <3> QED BY <1>0, <3>1, <3>2 DEF Exists
  <2>4. Goto(r, s) /\ UNCHANGED <<cache, deleted, queued, faults, everMember, lost>>
    BY <1>6, <2>1 DEF Pull
  <2> QED BY <2>2, <2>3, <2>4, RoomChanges
<1>7. CASE Invalidate(r)
  <2>1. /\ cache' \in [Users -> {"none", "yes", "no"}] /\ \A u \in Users : cache'[u] # "yes"
        /\ Goto(r, Free) /\ UNCHANGED <<room, deleted, queued, faults, everMember, lost>>
    BY <1>7 DEF Invalidate
  <2> QED BY <1>0, <1>1, <2>1, FreeIs, RoomMoves
<1>8. ASSUME Goto(r, Free), UNCHANGED <<cache, deleted, queued, faults, everMember, lost>>,
             room' \in Room \cup {NoRoom}, room' # NoRoom => room'.members \subseteq everMember
      PROVE  RoomInv'
  BY <1>8, FreeIs, RoomChanges
<1>9. CASE Promote(r)
  <2>1. room' \in Room \cup {NoRoom} /\ (room' # NoRoom => room'.members \subseteq everMember)
    BY <1>0, <1>9 DEF Promote, Update, Exists, Room
  <2> QED BY <1>8, <1>9, <2>1 DEF Promote
<1>10. CASE Demote(r)
  <2>1. room' \in Room \cup {NoRoom} /\ (room' # NoRoom => room'.members \subseteq everMember)
    BY <1>0, <1>10 DEF Demote, Update, Exists, Room
  <2> QED BY <1>8, <1>10, <2>1 DEF Demote
<1>11. CASE SetInvite(r)
  <2>1. room' \in Room \cup {NoRoom} /\ (room' # NoRoom => room'.members \subseteq everMember)
    BY <1>0, <1>11 DEF SetInvite, Update, Exists, Room
  <2> QED BY <1>8, <1>11, <2>1 DEF SetInvite
<1>12. CASE Revoke(r)
  <2>1. room' \in Room \cup {NoRoom} /\ (room' # NoRoom => room'.members \subseteq everMember)
    BY <1>0, <1>12 DEF Revoke, Update, Exists, Room
  <2> QED BY <1>8, <1>12, <2>1 DEF Revoke
<1>13. CASE PinMessage(r)
  <2>1. CASE req[r].msg \in deleted
    BY <1>2, <1>13, <2>1 DEF PinMessage
  <2>2. CASE req[r].msg \notin deleted
    <3>1. PICK s : s = [req[r] EXCEPT !.pc = "save"]
      OBVIOUS
    <3>2. s \in Request
      BY <1>0, <3>1 DEF Request, Steps
    <3>3. s.pc = "save" /\ s.op = req[r].op /\ s.who = req[r].who /\ s.copy = req[r].copy
      BY <1>0, <3>1 DEF Request
    <3>4. Furnished(s) /\ Honest(s, everMember)
      BY <1>0, <1>13, <3>3 DEF PinMessage, Furnished, Honest
    <3>5. Goto(r, s)
      BY <1>13, <2>2, <3>1 DEF PinMessage
    <3> QED BY <1>13, <3>2, <3>4, <3>5, OnlyMoves DEF PinMessage
  <2> QED BY <2>1, <2>2
<1>14. CASE Save(r)
  <2>1. req[r].copy \in Room /\ req[r].copy.members \subseteq everMember /\ req[r].msg \in Msgs
    BY <1>0, <1>14 DEF Save, Furnished, Honest, Request
  <2>2. Pinned(r) \in Seq(Msgs)
    BY <2>1, PinnedTyped
  <2>3. room' \in Room /\ room'.members \subseteq everMember
    BY <1>14, <2>1, <2>2 DEF Save, Room
  <2> QED BY <1>8, <1>14, <2>3 DEF Save
<1>15. CASE UnpinDeleted(r)
  <2>1. room \in Room => Without(room.pins, req[r].msg) \in Seq(Msgs)
    BY WithoutIs DEF Room
  <2>2. room' \in Room \cup {NoRoom} /\ (room' # NoRoom => room'.members \subseteq everMember)
    BY <1>0, <1>15, <2>1 DEF UnpinDeleted, Update, Exists, Room
  <2> QED BY <1>8, <1>15, <2>2 DEF UnpinDeleted
<1>16. CASE Snapshot(r)
  <2>1. CASE ~Exists
    BY <1>2, <1>16, <2>1 DEF Snapshot
  <2>2. CASE Exists
    <3>1. PICK s : s = [At("unlink", Owner) EXCEPT !.copy = room]
      OBVIOUS
    <3>2. /\ s.pc = "unlink" /\ s.op = "none" /\ s.copy = room
          /\ s \in [pc : {"unlink"}, op : {"none"}, who : {Owner}, msg : {NoMsg}, ok : {FALSE},
                    copy : {room}]
      BY <3>1 DEF At
    <3>3. NoMsg \in Msgs /\ room \in Room
      BY <1>0, <2>2, RoomAssumption DEF NoMsg, Exists
    <3>4. s \in Request /\ Furnished(s) /\ Honest(s, everMember)
      BY <1>0, <2>2, <3>2, <3>3, RoomAssumption DEF Request, Steps, Deleting, Furnished, Honest, Exists
    <3>5. Goto(r, s)
      BY <1>16, <2>2, <3>1 DEF Snapshot
    <3> QED BY <1>16, <3>4, <3>5, OnlyMoves DEF Snapshot
  <2> QED BY <2>1, <2>2
<1>17. CASE Unlink(r)
  <2>1. room' = NoRoom /\ UNCHANGED <<cache, deleted, queued, faults, everMember, lost>>
    BY <1>17 DEF Unlink
  <2>2. CASE ~Exists
    BY <1>8, <1>17, <2>1, <2>2 DEF Unlink
  <2>3. CASE Exists
    <3>1. PICK s : s = [req[r] EXCEPT !.pc = "purge"]
      OBVIOUS
    <3>2. s \in Request
      BY <1>0, <3>1 DEF Request, Steps, Deleting
    <3>3. s.pc = "purge" /\ s.op = req[r].op /\ s.who = req[r].who /\ s.copy = req[r].copy
      BY <1>0, <3>1 DEF Request
    <3>4. Furnished(s) /\ Honest(s, everMember)
      BY <1>0, <1>17, <3>3 DEF Unlink, Furnished, Honest
    <3>5. Goto(r, s)
      BY <1>17, <2>3, <3>1 DEF Unlink
    <3> QED BY <2>1, <3>2, <3>4, <3>5, RoomChanges
  <2> QED BY <2>2, <2>3
<1>18. CASE Purge(r)
  <2>1. At("clean", Owner) \in Request /\ Furnished(At("clean", Owner)) /\ Honest(At("clean", Owner), everMember)
    BY AtIsPlain, RoomAssumption DEF Steps, Deleting
  <2> QED BY <1>18, <2>1, OnlyMoves DEF Purge
<1>19. CASE Restore(r)
  <2>1. req[r].copy \in Room /\ req[r].copy.members \subseteq everMember
    BY <1>0, <1>19 DEF Restore, Furnished, Honest
  <2>2. room' \in Room \cup {NoRoom} /\ (room' # NoRoom => room'.members \subseteq everMember)
    BY <1>0, <1>19, <2>1 DEF Restore, Exists
  <2> QED BY <1>8, <1>19, <2>2 DEF Restore
<1>20. CASE Clean(r)
  <2>1. queued' \in BOOLEAN /\ Goto(r, Free) /\ UNCHANGED <<room, cache, deleted, faults, everMember, lost>>
    BY <1>20 DEF Clean
  <2> QED BY <1>0, <1>1, <2>1, FreeIs, RoomMoves
<1> QED
  BY <1>3, <1>4, <1>5, <1>6, <1>7, <1>9, <1>10, <1>11, <1>12, <1>13, <1>14, <1>15, <1>16, <1>17, <1>18,
     <1>19, <1>20
  DEF Proceed

\* A call that raises or a request that dies keeps the invariant.
LEMMA BreakInv == ASSUME RoomInv, NEW r \in Requests, Break(r) PROVE RoomInv'
<1>0. /\ room \in Room \cup {NoRoom} /\ everMember \subseteq Users
      /\ req[r] \in Request /\ Furnished(req[r]) /\ Honest(req[r], everMember) /\ Pc(r) = req[r].pc
      /\ room # NoRoom => room.members \subseteq everMember
      /\ cache \in [Users -> {"none", "yes", "no"}] /\ deleted \subseteq Msgs
      /\ queued \in BOOLEAN /\ \A u \in Users : cache[u] = "yes" => u \in everMember
  BY DEF RoomInv, TypeOK, Pc, Exists
<1>1. faults' \in 0..MaxFaults
  BY RoomAssumption DEF RoomInv, TypeOK, Break, PurgeFails, InvalidateFails, Fail
<1>2. lost' \in BOOLEAN
  BY Zenon DEF RoomInv, TypeOK, Break, PurgeFails, InvalidateFails, Fail
<1>3. \E s \in Request : Goto(r, s) /\ Furnished(s) /\ Honest(s, everMember)
  <2>1. CASE PurgeFails(r)
    <3>1. PICK s : s = [req[r] EXCEPT !.pc = "restore"]
      OBVIOUS
    <3>2. s \in Request
      BY <1>0, <3>1 DEF Request, Steps, Deleting
    <3>3. s.pc = "restore" /\ s.op = req[r].op /\ s.who = req[r].who /\ s.copy = req[r].copy
      BY <1>0, <3>1 DEF Request
    <3>4. Furnished(s) /\ Honest(s, everMember)
      BY <1>0, <2>1, <3>3 DEF PurgeFails, Furnished, Honest
    <3> QED BY <2>1, <3>1, <3>2, <3>4 DEF PurgeFails
  <2>2. CASE InvalidateFails(r) \/ Fail(r)
    BY <2>2, FreeIs DEF InvalidateFails, Fail
  <2> QED BY <2>1, <2>2 DEF Break
<1>4. UNCHANGED <<room, cache, deleted, queued, everMember>>
  BY DEF Break, PurgeFails, InvalidateFails, Fail
<1> QED BY <1>0, <1>1, <1>2, <1>3, <1>4, RoomMoves

\* Every step keeps the invariant.
LEMMA RoomStepInv == RoomInv /\ [Next]_vars => RoomInv'
<1> SUFFICES ASSUME RoomInv, [Next]_vars PROVE RoomInv'
  OBVIOUS
<1>1. ASSUME NEW u \in Users, CacheExpires(u) PROVE RoomInv'
  BY <1>1 DEF CacheExpires, RoomInv, TypeOK, Exists
<1>2. CASE UNCHANGED vars
  BY <1>2 DEF vars, RoomInv, TypeOK, Exists
<1> QED BY <1>1, <1>2, BeginInv, ProceedInv, BreakInv DEF Next

\* Whatever interleavings and failures do, documents, cache and requests stay
\* in their types: a request that writes a document back has loaded one.
THEOREM TypeCorrect == Spec => []TypeOK
<1>1. RoomInv => TypeOK
  BY DEF RoomInv
<1> QED BY <1>1, RoomInitInv, RoomStepInv, PTL DEF Spec

\* However requests overlap, fail and write stale documents and decisions
\* back, nobody who never was a member has a cached access or passes
\* _ensure_room_access.
THEOREM Strangers == Spec => []StrangersStayOut
<1>1. RoomInv => StrangersStayOut
  BY DEF RoomInv, StrangersStayOut, Honest, InAccess, Pc, Who
<1> QED BY <1>1, RoomInitInv, RoomStepInv, PTL DEF Spec

\* Who has deleted the document and is not done yet.
Cleaners == {r \in Requests : Pc(r) \in {"purge", "restore", "clean"}}

\* Every step leaves a deleted room cleaned up after, or with somebody who
\* will do so.
LEMMA CleanedStep ==
    RoomInv /\ DeletedIsCleaned /\ [Next]_vars => DeletedIsCleaned'
<1> SUFFICES ASSUME RoomInv, DeletedIsCleaned, [Next]_vars, room' = NoRoom
             PROVE  queued' \/ lost' \/ \E q \in Requests : Pc(q)' \in {"purge", "restore", "clean"}
  BY DEF DeletedIsCleaned, Exists
<1>0. req \in [Requests -> Request] /\ room \in Room \cup {NoRoom}
  BY DEF RoomInv, TypeOK
\* Requests that are none of the cleaners leave them alone.
<1>1. ASSUME NEW r \in Requests, r \notin Cleaners, NEW s, Goto(r, s), room = NoRoom,
             queued => queued', lost => lost'
      PROVE  queued' \/ lost' \/ Cleaners' # {}
  <2>1. \A q \in Requests \ {r} : Pc(q)' = Pc(q)
    BY <1>0, <1>1 DEF Goto, Pc
  <2> QED BY <1>1, <2>1 DEF DeletedIsCleaned, Exists, Cleaners
<1>2. ASSUME NEW r \in Requests, NEW s, Goto(r, s), s.pc \in {"purge", "restore", "clean"}
      PROVE  Cleaners' # {}
  <2>1. Pc(r)' = s.pc
    BY <1>0, <1>2 DEF Goto, Pc
  <2> QED BY <1>2, <2>1 DEF Cleaners
<1>3. ASSUME NEW r \in Requests, Begin(r) PROVE queued' \/ lost' \/ Cleaners' # {}
  <2>1. CASE DeleteAgain(r)
    BY <2>1 DEF DeleteAgain, vars, DeletedIsCleaned, Exists, Cleaners, Pc
  <2>2. CASE ~DeleteAgain(r)
    <3>1. Pc(r) = "free" /\ UNCHANGED <<room, queued, lost>> /\ \E s : Goto(r, s)
      BY <1>3, <2>2 DEF Begin, Load, LoadAdd, LoadRemove, LoadPromote, LoadDemote, Join, LoadInvite,
         LoadRevoke, DeleteMessage, LoadDelete
    <3> QED BY <1>1, <3>1 DEF Cleaners
  <2> QED BY <2>1, <2>2
<1>4. ASSUME NEW r \in Requests, Proceed(r) PROVE queued' \/ lost' \/ Cleaners' # {}
  <2>1. CASE Check(r) \/ Fill(r) \/ Invalidate(r) \/ PinMessage(r) \/ Snapshot(r)
    <3>1. Pc(r) \notin {"purge", "restore", "clean"} /\ UNCHANGED <<room, queued, lost>>
      BY <2>1 DEF Check, Fill, Invalidate, PinMessage, Snapshot
    <3>2. \E s : Goto(r, s)
      <4>1. Grant(r) => \E s : Goto(r, s)
        BY DEF Grant
      <4>2. CASE Check(r)
        <5>1. cache[Who(r)] \in {"yes", "no", "none"}
          BY DEF RoomInv, TypeOK, Request, Who
        <5> QED BY <4>1, <4>2, <5>1 DEF Check
      <4> QED BY <2>1, <4>1, <4>2 DEF Fill, Invalidate, PinMessage, Snapshot
    <3> QED BY <1>1, <3>1, <3>2 DEF Cleaners
  <2>2. CASE Add(r) \/ Pull(r) \/ Promote(r) \/ Demote(r) \/ SetInvite(r) \/ Revoke(r) \/ UnpinDeleted(r)
    <3>1. Pc(r) \notin {"purge", "restore", "clean"} /\ UNCHANGED <<queued, lost>> /\ \E s : Goto(r, s)
      BY <2>2 DEF Add, Pull, Promote, Demote, SetInvite, Revoke, UnpinDeleted
    <3>2. room \in Room => room' \in Room
      <4> SUFFICES ASSUME room \in Room PROVE room' \in Room
        OBVIOUS
      <4>1. Exists /\ Who(r) \in Users
        BY <1>0, RoomAssumption DEF Exists, Who, Request
      <4>2. CASE Add(r)
        BY <4>1, <4>2 DEF Add, Update, Room
      <4>3. CASE Pull(r)
        <5> DEFINE d == [room EXCEPT !.members = @ \ {Who(r)}, !.admins = @ \ {Who(r)}]
        <5>1. d \in Room
          BY DEF Room
        <5> QED BY <4>1, <4>3, <5>1 DEF Pull, Update
      <4>4. CASE Promote(r)
        BY <4>1, <4>4 DEF Promote, Update, Room
      <4>5. CASE Demote(r)
        BY <4>1, <4>5 DEF Demote, Update, Room
      <4>6. CASE SetInvite(r)
        BY <4>1, <4>6 DEF SetInvite, Update, Room
      <4>7. CASE Revoke(r)
        BY <4>1, <4>7 DEF Revoke, Update, Room
      <4>8. CASE UnpinDeleted(r)
        <5>1. Without(room.pins, req[r].msg) \in Seq(Msgs)
          BY WithoutIs DEF Room
        <5> QED BY <4>1, <4>8, <5>1 DEF UnpinDeleted, Update, Room
      <4> QED BY <2>2, <4>2, <4>3, <4>4, <4>5, <4>6, <4>7, <4>8
    <3>3. room = NoRoom
      BY <1>0, <3>2, RoomAssumption
    <3> QED BY <1>1, <3>1, <3>3 DEF Cleaners
  <2>3. CASE Save(r)
    <3>1. req[r].copy \in Room /\ req[r].msg \in Msgs
      BY <1>0, <2>3 DEF Save, RoomInv, Furnished, Request, Pc
    <3>2. room' \in Room
      BY <2>3, <3>1, PinnedTyped DEF Save, Room
    <3> QED BY <3>2, RoomAssumption
  <2>4. CASE Unlink(r)
    <3>1. CASE Exists
      <4>1. PICK s : s = [req[r] EXCEPT !.pc = "purge"]
        OBVIOUS
      <4>2. s.pc = "purge"
        BY <1>0, <4>1 DEF Request
      <4> QED BY <1>2, <2>4, <3>1, <4>1, <4>2 DEF Unlink
    <3>2. CASE ~Exists
      BY <1>1, <2>4, <3>2 DEF Unlink, Exists, Cleaners
    <3> QED BY <3>1, <3>2
  <2>5. CASE Purge(r)
    <3>1. At("clean", Owner).pc = "clean"
      BY DEF At
    <3> QED BY <1>2, <2>5, <3>1 DEF Purge
  <2>6. CASE Restore(r)
    <3>1. req[r].copy \in Room
      BY <2>6 DEF Restore, RoomInv, Furnished, Pc
    <3> QED BY <2>6, <3>1, RoomAssumption DEF Restore, Exists
  <2>7. CASE Clean(r)
    BY <2>7 DEF Clean
  <2> QED BY <1>4, <2>1, <2>2, <2>3, <2>4, <2>5, <2>6, <2>7 DEF Proceed
<1>5. ASSUME NEW r \in Requests, Break(r) PROVE queued' \/ lost' \/ Cleaners' # {}
  <2>1. CASE PurgeFails(r)
    <3>1. PICK s : s = [req[r] EXCEPT !.pc = "restore"]
      OBVIOUS
    <3>2. s.pc = "restore"
      BY <1>0, <3>1 DEF Request
    <3> QED BY <1>2, <2>1, <3>1, <3>2 DEF PurgeFails
  <2>2. CASE InvalidateFails(r)
    BY <1>1, <2>2 DEF InvalidateFails, Cleaners
  <2>3. CASE Fail(r) /\ r \in Cleaners
    BY <2>3 DEF Fail, Cleaners
  <2>4. CASE Fail(r) /\ r \notin Cleaners
    <3>1. Pc(r) \notin {"purge", "restore", "clean"}
      BY <2>4 DEF Cleaners
    <3>2. room = NoRoom /\ Goto(r, Free) /\ (queued => queued') /\ (lost => lost')
      BY <2>4 DEF Fail
    <3> QED BY <1>1, <2>4, <3>2
  <2> QED BY <1>5, <2>1, <2>2, <2>3, <2>4 DEF Break
<1>6. ASSUME NEW u \in Users, CacheExpires(u) PROVE queued' \/ lost' \/ Cleaners' # {}
  BY <1>6 DEF CacheExpires, DeletedIsCleaned, Exists, Cleaners, Pc
<1>7. ASSUME UNCHANGED vars PROVE queued' \/ lost' \/ Cleaners' # {}
  <2>1. UNCHANGED <<room, req, queued, lost>>
    BY <1>7 DEF vars
  <2>2. Cleaners' = Cleaners
    BY <2>1 DEF Cleaners, Pc
  <2>3. queued \/ lost \/ Cleaners # {}
    BY <2>1 DEF DeletedIsCleaned, Exists, Cleaners
  <2> QED BY <2>1, <2>2, <2>3
<1>8. queued' \/ lost' \/ Cleaners' # {}
  BY <1>3, <1>4, <1>5, <1>6, <1>7 DEF Next
<1> QED BY <1>8 DEF Cleaners

\* However deletions overlap each other and other requests, and wherever they
\* fail, a room that is gone was cleaned up after, or somebody is about to do
\* that or to restore it, unless the deletion itself died: the delete that
\* removed the document is the one that goes on.
THEOREM Cleaned == Spec => []DeletedIsCleaned
<1>1. Init => DeletedIsCleaned
  <2> SUFFICES ASSUME Init PROVE Exists
    BY DEF DeletedIsCleaned
  <2>1. room \in Room
    BY RoomAssumption DEF Init, Room
  <2> QED BY <2>1, RoomAssumption DEF Exists
<1> QED BY <1>1, RoomInitInv, RoomStepInv, CleanedStep, PTL DEF Spec

-----------------------------------------------------------------------------
(* Requests that do not overlap *)

\* Cache c agrees with document d.
Agrees(d, c) ==
    \A u \in Users : /\ c[u] = "yes" => u = Owner \/ u \in d.members
                     /\ c[u] = "no" => u # Owner /\ u \notin d.members

\* Admins are members, and the pins are distinct, not too many and none of
\* them gone.
Orderly(pins, gone) ==
    /\ Distinct(pins) /\ Len(pins) <= PinLimit
    /\ \A i \in 1..Len(pins) : pins[i] \notin gone
Ordered(d, gone) == d.admins \subseteq d.members /\ Orderly(d.pins, gone)

\* What the only request, in state s, still has to put in order, and what it
\* has found out and may rely on.
Settled(d, c, gone, s) ==
    /\ d # NoRoom /\ s.pc # "invalidate" => Agrees(d, c)
    /\ d # NoRoom /\ s.pc # "unpin_deleted" => Ordered(d, gone)
    /\ d # NoRoom /\ s.pc = "unpin_deleted" => Ordered(d, gone \ {s.msg})
    /\ s.pc \in {"check", "fill"} => d # NoRoom
    /\ s.pc \in {"check", "fill"} /\ s.ok => s.who = Owner \/ s.who \in d.members
    /\ s.pc \in {"check", "fill"} /\ ~s.ok => s.who # Owner /\ s.who \notin d.members
    /\ s.pc \in {"check", "fill", "message", "save"} /\ s.op \in {"pin", "unpin"} => s.copy = d
    /\ s.pc = "message" => s.op = "pin"
    /\ s.pc = "save" /\ s.op = "pin" => s.msg \notin gone
    /\ s.pc = "promote" /\ d # NoRoom => s.who \in d.members
    /\ s.pc # "restore"

SoloRoomInv ==
    /\ RoomInv
    /\ mode = "room" =>
        /\ \A q, r \in Requests : Pc(q) # "free" /\ Pc(r) # "free" => q = r
        /\ \A r \in Requests : Pc(r) # "free" => Settled(room, cache, deleted, req[r])
        /\ Idle => Settled(room, cache, deleted, Free)

\* A request that goes on without relying on anything.
Quiet == {"free", "add", "pull", "invalidate", "demote", "invite", "revoke", "snapshot", "unlink",
          "purge", "clean"}

\* A request that has nothing left to repair can turn into one that promises
\* nothing.
LEMMA StaysSettled ==
    ASSUME NEW d, NEW c, NEW gone, NEW s, NEW t, Settled(d, c, gone, s),
           s.pc \notin {"invalidate", "unpin_deleted"}, t.pc \in Quiet
    PROVE  Settled(d, c, gone, t)
  BY DEF Settled, Quiet

\* Where cache and document agree, a request has nothing to repair.
LEMMA FreshIsSettled ==
    ASSUME NEW d, NEW c, NEW gone, NEW t, t.pc \in Quiet,
           d # NoRoom => Agrees(d, c) /\ Ordered(d, gone)
    PROVE  Settled(d, c, gone, t)
  BY DEF Settled, Quiet

\* Requests made by At promise nothing.
LEMMA AtIsQuiet == \A pc \in Quiet, u \in Users : At(pc, u).pc \in Quiet /\ Free.pc \in Quiet
  BY DEF At, Free, Quiet

\* What pin and unpin save.
LEMMA PinnedOrderly ==
    ASSUME NEW r, NEW gone, req[r].copy \in Room, req[r].msg \in Msgs, Orderly(req[r].copy.pins, gone),
           req[r].op = "pin" => req[r].msg \notin gone
    PROVE  Orderly(Pinned(r), gone)
<1>1. PICK p, m, rest : p = req[r].copy.pins /\ m = req[r].msg /\ rest = Without(p, m)
  OBVIOUS
<1>2. p \in Seq(Msgs) /\ m \in Msgs /\ Orderly(p, gone)
  BY <1>1 DEF Room
<1>3. /\ rest \in Seq(Msgs) /\ Len(rest) <= Len(p)
      /\ \A j \in 1..Len(rest) : rest[j] # m /\ \E k \in 1..Len(p) : rest[j] = p[k]
      /\ Distinct(rest)
  BY <1>1, <1>2, WithoutIs DEF Orderly
<1>4. \A j \in 1..Len(rest) : rest[j] \notin gone
  BY <1>2, <1>3 DEF Orderly
<1>5. Len(rest) \in Nat /\ Len(p) \in Nat /\ PinLimit \in Nat /\ Len(rest) <= PinLimit
  BY <1>2, <1>3, RoomAssumption DEF Orderly
<1>6. CASE req[r].op = "pin"
  <2>1. PICK t : t = <<m>> \o rest
    OBVIOUS
  <2>2. /\ t \in Seq(Msgs) /\ Len(t) = Len(rest) + 1 /\ t[1] = m
        /\ \A i \in 2..Len(rest) + 1 : t[i] = rest[i - 1]
    BY <1>2, <1>3, <2>1, PushIs
  <2>3. ASSUME NEW i \in 1..Len(t), i # 1 PROVE i - 1 \in 1..Len(rest) /\ t[i] = rest[i - 1]
    BY <1>5, <2>2, <2>3
  <2>4. \A i \in 1..Len(t) : t[i] \notin gone
    BY <1>1, <1>4, <1>6, <2>2, <2>3
  <2>5. ASSUME NEW a \in 1..Len(t), NEW b \in 1..Len(t), t[a] = t[b] PROVE a = b
    <3>1. CASE a = 1 \/ b = 1
      BY <1>3, <2>2, <2>3, <2>5, <3>1
    <3>2. CASE a # 1 /\ b # 1
      <4>1. PICK x, y : x = a - 1 /\ y = b - 1
        OBVIOUS
      <4>2. x \in 1..Len(rest) /\ y \in 1..Len(rest) /\ t[a] = rest[x] /\ t[b] = rest[y]
        BY <2>3, <3>2, <4>1
      <4>3. x = y
        BY <1>3, <2>5, <4>2 DEF Distinct
      <4> QED BY <4>1, <4>3
    <3> QED BY <3>1, <3>2
  <2>6. PICK w : w = Newest(t)
    OBVIOUS
  <2>7. /\ Len(w) \in Nat /\ Len(w) <= PinLimit /\ Len(w) <= Len(t)
        /\ \A i \in 1..Len(w) : w[i] = t[i]
    BY <2>2, <2>6, NewestIs
  <2>8. \A i \in 1..Len(w) : i \in 1..Len(t)
    BY <1>5, <2>2, <2>7
  <2>9. Orderly(w, gone)
    BY <2>4, <2>5, <2>7, <2>8 DEF Orderly, Distinct
  <2> QED BY <1>1, <1>6, <2>1, <2>6, <2>9 DEF Pinned
<1>7. CASE req[r].op # "pin"
  <2>1. Pinned(r) = rest
    BY <1>1, <1>7 DEF Pinned
  <2> QED BY <1>3, <1>4, <1>5, <2>1 DEF Orderly
<1> QED BY <1>6, <1>7

\* Without overlap, starting a request leaves cache and pins settled.
LEMMA BeginSettled ==
    ASSUME RoomInv, NEW r \in Requests, Begin(r), ~DeleteAgain(r), Settled(room, cache, deleted, Free)
    PROVE  \E s : Goto(r, s) /\ Settled(room', cache', deleted', s)
<1>0. room \in Room \cup {NoRoom} /\ Free.pc = "free"
  BY FreeIs DEF RoomInv, TypeOK
<1>1. ASSUME NEW pc \in {"add", "pull", "demote", "invite", "revoke", "snapshot"},
             NEW u \in Users, Goto(r, At(pc, u)), UNCHANGED <<room, cache, deleted>>
      PROVE  \E s : Goto(r, s) /\ Settled(room', cache', deleted', s)
  <2>1. At(pc, u).pc \in Quiet
    BY AtIsQuiet DEF Quiet
  <2> QED BY <1>0, <1>1, <2>1, StaysSettled
<1>2. ASSUME NEW op \in Accessing, NEW u \in Users, NEW m \in Msgs, Load(r, op, u, m)
      PROVE  \E s : Goto(r, s) /\ Settled(room', cache', deleted', s)
  <2>1. PICK c, a, s : /\ c = (IF op \in {"pin", "unpin"} THEN room ELSE NoRoom) /\ a = Allowed(u)
                       /\ s = [At("check", u) EXCEPT !.op = op, !.msg = m, !.ok = a, !.copy = c]
    OBVIOUS
  <2>2. s.pc = "check" /\ s.op = op /\ s.who = u /\ s.ok = a /\ s.copy = c
    BY <2>1 DEF At
  <2>3. Goto(r, s) /\ UNCHANGED <<room, cache, deleted>> /\ room # NoRoom
    BY <1>2, <2>1 DEF Load, Exists
  <2>4. /\ s.ok => s.who = Owner \/ s.who \in room.members
        /\ ~s.ok => s.who # Owner /\ s.who \notin room.members
    <3>1. a = (u = Owner \/ u \in room.members)
      BY <2>1 DEF Allowed
    <3> QED BY <2>2, <3>1
  <2>5. op \in {"pin", "unpin"} => c = room
    BY <2>1
  <2>6. Agrees(room, cache) /\ Ordered(room, deleted)
    BY <1>0, <2>3 DEF Settled
  <2>7. Settled(room, cache, deleted, s)
    BY <2>2, <2>3, <2>4, <2>5, <2>6 DEF Settled
  <2> QED BY <2>3, <2>7
<1>3. ASSUME NEW a \in Users, NEW u \in Users, LoadAdd(r, a, u) \/ LoadRemove(r, a, u)
      PROVE  \E s : Goto(r, s) /\ Settled(room', cache', deleted', s)
  BY <1>1, <1>3 DEF LoadAdd, LoadRemove
<1>4. ASSUME NEW u \in Users, LoadDemote(r, u) \/ Join(r, u)
      PROVE  \E s : Goto(r, s) /\ Settled(room', cache', deleted', s)
  BY <1>1, <1>4 DEF LoadDemote, Join
<1>5. ASSUME NEW a \in Users, LoadInvite(r, a) \/ LoadRevoke(r, a)
      PROVE  \E s : Goto(r, s) /\ Settled(room', cache', deleted', s)
  BY <1>1, <1>5, RoomAssumption DEF LoadInvite, LoadRevoke
<1>6. ASSUME NEW u \in Users, LoadPromote(r, u)
      PROVE  \E s : Goto(r, s) /\ Settled(room', cache', deleted', s)
  <2>1. PICK s : s = At("promote", u)
    OBVIOUS
  <2>2. s.pc = "promote" /\ s.who = u
    BY <2>1 DEF At
  <2>3. Goto(r, s) /\ UNCHANGED <<room, cache, deleted>> /\ u \in room.members
    BY <1>6, <2>1 DEF LoadPromote
  <2>4. Settled(room, cache, deleted, s)
    BY <1>0, <2>2, <2>3 DEF Settled
  <2> QED BY <2>3, <2>4
<1>7. ASSUME NEW m \in Msgs, DeleteMessage(r, m)
      PROVE  \E s : Goto(r, s) /\ Settled(room', cache', deleted', s)
  <2>1. PICK s : s = [At("unpin_deleted", Owner) EXCEPT !.msg = m]
    OBVIOUS
  <2>2. s.pc = "unpin_deleted" /\ s.msg = m
    BY <2>1 DEF At
  <2>3. /\ Goto(r, s) /\ UNCHANGED <<room, cache>> /\ m \notin deleted
        /\ deleted' \ {m} = deleted
    BY <1>7, <2>1 DEF DeleteMessage
  <2>4. Settled(room, cache, deleted', s)
    BY <1>0, <2>2, <2>3 DEF Settled
  <2> QED BY <2>3, <2>4
<1>8. CASE LoadDelete(r)
  BY <1>1, <1>8, RoomAssumption DEF LoadDelete
<1> QED BY <1>2, <1>3, <1>4, <1>5, <1>6, <1>7, <1>8 DEF Begin

\* A request that passed the check with the document it loaded.
LEMMA GrantSettled ==
    ASSUME RoomInv, NEW r \in Requests, Pc(r) \in {"check", "fill"}, Grant(r), NEW c, NEW gone,
           room # NoRoom, Agrees(room, c), Ordered(room, gone), Settled(room, cache, gone, req[r])
    PROVE  \E s : Goto(r, s) /\ Settled(room, c, gone, s)
<1>1. req[r] \in Request /\ Pc(r) = req[r].pc
  BY DEF RoomInv, TypeOK, Pc
<1>2. PICK pc : pc = AfterAccess(r)
  OBVIOUS
<1>3. /\ pc \in {"message", "save", "pull", "free"}
      /\ pc = "message" => req[r].op = "pin"
      /\ pc = "save" => req[r].op = "unpin"
  <2>1. CASE req[r].op = "pin"
    BY <1>2, <2>1 DEF AfterAccess
  <2>2. CASE req[r].op = "unpin"
    BY <1>2, <2>2 DEF AfterAccess
  <2>3. CASE req[r].op = "leave"
    BY <1>2, <2>3 DEF AfterAccess
  <2>4. CASE req[r].op \notin {"pin", "unpin", "leave"}
    BY <1>2, <2>4 DEF AfterAccess
  <2> QED BY <2>1, <2>2, <2>3, <2>4
<1>4. Goto(r, IF pc = "free" THEN Free ELSE [req[r] EXCEPT !.pc = pc, !.ok = TRUE])
  BY <1>2 DEF Grant
<1>5. CASE pc = "free"
  <2>1. Free.pc \in Quiet
    BY AtIsQuiet, FreeIs DEF Quiet
  <2> QED BY <1>4, <1>5, <2>1, FreshIsSettled
<1>6. CASE pc # "free"
  <2>1. PICK s : s = [req[r] EXCEPT !.pc = pc, !.ok = TRUE]
    OBVIOUS
  <2>2. s.pc = pc /\ s.op = req[r].op /\ s.copy = req[r].copy
    BY <1>1, <2>1 DEF Request
  <2>3. req[r].op \in {"pin", "unpin"} => req[r].copy = room
    BY <1>1 DEF Settled
  <2>4. Settled(room, c, gone, s)
    BY <1>3, <1>6, <2>2, <2>3 DEF Settled
  <2> QED BY <1>4, <1>6, <2>1, <2>4
<1> QED BY <1>5, <1>6

\* Without overlap and failures, each call leaves cache and pins settled or
\* itself about to settle them.
LEMMA ProceedSettled ==
    ASSUME RoomInv, NEW r \in Requests, Proceed(r), Settled(room, cache, deleted, req[r])
    PROVE  \E s : Goto(r, s) /\ Settled(room', cache', deleted', s)
<1>0. /\ room \in Room \cup {NoRoom} /\ req[r] \in Request /\ Pc(r) = req[r].pc
      /\ Who(r) = req[r].who /\ Who(r) \in Users /\ req[r].msg \in Msgs /\ Furnished(req[r])
      /\ cache \in [Users -> {"none", "yes", "no"}]
      /\ room # NoRoom => room \in Room
  BY DEF RoomInv, TypeOK, Pc, Who, Request
<1>1. Free.pc \in Quiet /\ Free.pc = "free"
  BY FreeIs DEF Quiet
<1>2. room # NoRoom /\ Pc(r) \notin {"invalidate", "unpin_deleted"} => Agrees(room, cache) /\ Ordered(room, deleted)
  BY <1>0 DEF Settled
<1>3. ASSUME UNCHANGED <<room, cache, deleted>>, Goto(r, Free), Pc(r) \notin {"invalidate", "unpin_deleted"}
      PROVE  \E s : Goto(r, s) /\ Settled(room', cache', deleted', s)
  BY <1>0, <1>1, <1>3, StaysSettled
<1>4. CASE Check(r)
  <2>1. UNCHANGED <<room, cache, deleted>> /\ Pc(r) = "check" /\ room # NoRoom
    BY <1>0, <1>4 DEF Check, Settled
  <2>2. CASE cache[Who(r)] = "yes"
    <3>1. Grant(r)
      BY <1>4, <2>2 DEF Check
    <3> QED BY <1>2, <2>1, <3>1, GrantSettled
  <2>3. CASE cache[Who(r)] = "no"
    BY <1>3, <1>4, <2>1, <2>3 DEF Check
  <2>4. CASE cache[Who(r)] = "none"
    <3>1. PICK s : s = [req[r] EXCEPT !.pc = "fill"]
      OBVIOUS
    <3>2. /\ s.pc = "fill" /\ s.op = req[r].op /\ s.who = req[r].who /\ s.ok = req[r].ok
          /\ s.copy = req[r].copy
      BY <1>0, <3>1 DEF Request
    <3>3. Goto(r, s)
      BY <1>4, <2>4, <3>1 DEF Check
    <3>4. Settled(room, cache, deleted, s)
      BY <1>0, <2>1, <3>2 DEF Settled
    <3> QED BY <2>1, <3>3, <3>4
  <2> QED BY <1>0, <2>2, <2>3, <2>4
<1>5. CASE Fill(r)
  <2>1. /\ UNCHANGED <<room, deleted>> /\ Pc(r) = "fill" /\ room # NoRoom
        /\ cache' = [cache EXCEPT ![Who(r)] = IF req[r].ok THEN "yes" ELSE "no"]
    BY <1>0, <1>5 DEF Fill, Settled
  <2>2. Agrees(room, cache')
    <3>1. /\ req[r].ok => Who(r) = Owner \/ Who(r) \in room.members
          /\ ~req[r].ok => Who(r) # Owner /\ Who(r) \notin room.members
      BY <1>0, <2>1 DEF Settled
    <3>2. /\ \A u \in Users : u # Who(r) => cache'[u] = cache[u]
          /\ req[r].ok => cache'[Who(r)] = "yes"
          /\ ~req[r].ok => cache'[Who(r)] = "no"
      BY <1>0, <2>1
    <3>3. Agrees(room, cache)
      BY <1>2, <2>1
    <3> QED BY <3>1, <3>2, <3>3 DEF Agrees
  <2>3. CASE req[r].ok
    <3>1. Grant(r)
      BY <1>5, <2>3 DEF Fill
    <3> QED BY <1>2, <2>1, <2>2, <3>1, GrantSettled
  <2>4. CASE ~req[r].ok
    <3>1. Goto(r, Free)
      BY <1>5, <2>4 DEF Fill
    <3> QED BY <1>1, <1>2, <2>1, <2>2, <3>1, FreshIsSettled
  <2> QED BY <2>3, <2>4
<1>6. ASSUME Add(r) \/ Pull(r)
      PROVE  \E s : Goto(r, s) /\ Settled(room', cache', deleted', s)
  <2>1. PICK s : s = At("invalidate", Who(r))
    OBVIOUS
  <2>2. s.pc = "invalidate"
    BY <2>1 DEF At
  <2>3. Goto(r, s) /\ UNCHANGED <<cache, deleted>> /\ Pc(r) \in {"add", "pull"}
    BY <1>6, <2>1 DEF Add, Pull
  <2>4. room' # NoRoom => Ordered(room', deleted)
    <3> SUFFICES ASSUME room' # NoRoom PROVE Ordered(room', deleted)
      OBVIOUS
    <3>1. room # NoRoom /\ room \in Room
      BY <1>0, <1>6 DEF Add, Pull, Update, Exists
    <3>2. Ordered(room, deleted)
      BY <1>2, <2>3, <3>1
    <3>3. CASE Add(r)
      <4>1. PICK d : d = [room EXCEPT !.members = @ \cup {Who(r)}]
        OBVIOUS
      <4>2. d.members = room.members \cup {Who(r)} /\ d.admins = room.admins /\ d.pins = room.pins
        BY <3>1, <4>1 DEF Room
      <4>3. room' = d
        BY <3>1, <3>3, <4>1 DEF Add, Update, Exists
      <4> QED BY <3>2, <4>2, <4>3 DEF Ordered
    <3>4. CASE Pull(r)
      <4>1. PICK d : d = [room EXCEPT !.members = @ \ {Who(r)}, !.admins = @ \ {Who(r)}]
        OBVIOUS
      <4>2. /\ d.members = room.members \ {Who(r)} /\ d.admins = room.admins \ {Who(r)}
            /\ d.pins = room.pins
        BY <3>1, <4>1 DEF Room
      <4>3. room' = d
        BY <3>1, <3>4, <4>1 DEF Pull, Update, Exists
      <4> QED BY <3>2, <4>2, <4>3 DEF Ordered
    <3> QED BY <1>6, <3>3, <3>4
  <2>5. Settled(room', cache', deleted', s)
    BY <2>2, <2>3, <2>4 DEF Settled
  <2> QED BY <2>3, <2>5
<1>7. CASE Invalidate(r)
  <2>1. Goto(r, Free) /\ UNCHANGED <<room, deleted>> /\ \A u \in Users : cache'[u] = "none"
    BY <1>7 DEF Invalidate
  <2>2. Agrees(room, cache')
    BY <2>1 DEF Agrees
  <2>3. room # NoRoom => Ordered(room, deleted)
    BY <1>0, <1>7 DEF Invalidate, Settled
  <2> QED BY <1>1, <2>1, <2>2, <2>3, FreshIsSettled
\* One field of the document changes.
<1>8. ASSUME NEW d, room' = IF Exists THEN d ELSE NoRoom, d.members = room.members, Goto(r, Free),
             room # NoRoom => Ordered(d, deleted), UNCHANGED <<cache, deleted>>, Pc(r) # "invalidate"
      PROVE  \E s : Goto(r, s) /\ Settled(room', cache', deleted', s)
  <2>1. room # NoRoom => Agrees(room, cache)
    BY <1>0, <1>8 DEF Settled
  <2>2. room' # NoRoom => Agrees(room', cache') /\ Ordered(room', deleted')
    BY <1>8, <2>1 DEF Agrees, Exists
  <2> QED BY <1>1, <1>8, <2>2, FreshIsSettled
<1>9. ASSUME Promote(r) \/ Demote(r) \/ SetInvite(r) \/ Revoke(r)
      PROVE  \E s : Goto(r, s) /\ Settled(room', cache', deleted', s)
  <2>0. Pc(r) \in {"promote", "demote", "invite", "revoke"} /\ Goto(r, Free) /\ UNCHANGED <<cache, deleted>>
    BY <1>9 DEF Promote, Demote, SetInvite, Revoke
  <2>1. CASE room = NoRoom
    <3>1. room' = NoRoom
      BY <1>9, <2>1 DEF Promote, Demote, SetInvite, Revoke, Update, Exists
    <3> QED BY <1>1, <2>0, <3>1, FreshIsSettled
  <2>2. CASE room # NoRoom
    <3>0. room \in Room /\ Exists /\ Ordered(room, deleted)
      BY <1>0, <1>2, <2>0, <2>2 DEF Exists
    <3>1. CASE Promote(r)
      <4>1. PICK d : d = [room EXCEPT !.admins = @ \cup {Who(r)}]
        OBVIOUS
      <4>2. d.members = room.members /\ d.admins = room.admins \cup {Who(r)} /\ d.pins = room.pins
        BY <3>0, <4>1 DEF Room
      <4>3. Who(r) \in room.members
        BY <1>0, <2>2, <3>1 DEF Promote, Settled
      <4>4. Ordered(d, deleted)
        BY <3>0, <4>2, <4>3 DEF Ordered
      <4>5. room' = IF Exists THEN d ELSE NoRoom
        BY <3>1, <4>1 DEF Promote, Update
      <4> QED BY <1>8, <2>0, <4>2, <4>4, <4>5
    <3>2. CASE Demote(r)
      <4>1. PICK d : d = [room EXCEPT !.admins = @ \ {Who(r)}]
        OBVIOUS
      <4>2. d.members = room.members /\ d.admins = room.admins \ {Who(r)} /\ d.pins = room.pins
        BY <3>0, <4>1 DEF Room
      <4>3. Ordered(d, deleted)
        BY <3>0, <4>2 DEF Ordered
      <4>4. room' = IF Exists THEN d ELSE NoRoom
        BY <3>2, <4>1 DEF Demote, Update
      <4> QED BY <1>8, <2>0, <4>2, <4>3, <4>4
    <3>3. ASSUME NEW b, room' = IF Exists THEN [room EXCEPT !.invite = b] ELSE NoRoom
          PROVE  \E s : Goto(r, s) /\ Settled(room', cache', deleted', s)
      <4>1. PICK d : d = [room EXCEPT !.invite = b]
        OBVIOUS
      <4>2. d.members = room.members /\ d.admins = room.admins /\ d.pins = room.pins
        BY <3>0, <4>1 DEF Room
      <4>3. Ordered(d, deleted)
        BY <3>0, <4>2 DEF Ordered
      <4> QED BY <1>8, <2>0, <3>3, <4>1, <4>2, <4>3
    <3> QED BY <1>9, <3>1, <3>2, <3>3 DEF SetInvite, Revoke, Update
  <2> QED BY <2>1, <2>2
<1>10. CASE PinMessage(r)
  <2>1. UNCHANGED <<room, cache, deleted>> /\ Pc(r) = "message"
    BY <1>10 DEF PinMessage
  <2>2. CASE req[r].msg \in deleted
    BY <1>3, <1>10, <2>1, <2>2 DEF PinMessage
  <2>3. CASE req[r].msg \notin deleted
    <3>1. PICK s : s = [req[r] EXCEPT !.pc = "save"]
      OBVIOUS
    <3>2. s.pc = "save" /\ s.op = req[r].op /\ s.msg = req[r].msg /\ s.copy = req[r].copy
      BY <1>0, <3>1 DEF Request
    <3>3. Goto(r, s)
      BY <1>10, <2>3, <3>1 DEF PinMessage
    <3>4. Settled(room, cache, deleted, s)
      BY <1>0, <2>1, <2>3, <3>2 DEF Settled
    <3> QED BY <2>1, <3>3, <3>4
  <2> QED BY <2>2, <2>3
<1>11. CASE Save(r)
  <2>1. /\ Pc(r) = "save" /\ Goto(r, Free) /\ UNCHANGED <<cache, deleted>>
        /\ room' = [req[r].copy EXCEPT !.pins = Pinned(r)]
    BY <1>11 DEF Save
  <2>2. req[r].copy = room /\ req[r].copy \in Room /\ room # NoRoom
        /\ (req[r].op = "pin" => req[r].msg \notin deleted)
    BY <1>0, <2>1, RoomAssumption DEF Settled, Furnished
  <2>3. Agrees(room, cache) /\ Ordered(room, deleted)
    BY <1>2, <2>1, <2>2
  <2>4. Orderly(Pinned(r), deleted)
    BY <1>0, <2>2, <2>3, PinnedOrderly DEF Ordered
  <2>5. room'.members = room.members /\ room'.admins = room.admins /\ room'.pins = Pinned(r)
    BY <2>1, <2>2 DEF Room
  <2>6. Ordered(room', deleted)
    BY <2>3, <2>4, <2>5 DEF Ordered
  <2>7. Exists
    BY <2>2 DEF Exists
  <2> QED BY <1>8, <2>1, <2>5, <2>6, <2>7
<1>12. CASE UnpinDeleted(r)
  <2>1. /\ Pc(r) = "unpin_deleted" /\ Goto(r, Free) /\ UNCHANGED <<cache, deleted>>
        /\ room' = IF Exists THEN [room EXCEPT !.pins = Without(@, req[r].msg)] ELSE NoRoom
    BY <1>12 DEF UnpinDeleted, Update
  <2>2. CASE room = NoRoom
    <3>1. room' = NoRoom
      BY <2>1, <2>2 DEF Exists
    <3> QED BY <1>1, <2>1, <3>1, FreshIsSettled
  <2>3. CASE room # NoRoom
    <3>1. PICK m, p, rest : m = req[r].msg /\ p = room.pins /\ rest = Without(p, m)
      OBVIOUS
    <3>2. p \in Seq(Msgs) /\ room \in Room
      BY <1>0, <2>3, <3>1 DEF Room
    <3>3. room.admins \subseteq room.members /\ Orderly(p, deleted \ {m})
      BY <1>0, <2>1, <2>3, <3>1 DEF Settled, Ordered
    <3>4. /\ Len(rest) \in Nat /\ Len(p) \in Nat /\ Len(rest) <= Len(p)
          /\ \A j \in 1..Len(rest) : rest[j] # m /\ \E k \in 1..Len(p) : rest[j] = p[k]
          /\ Distinct(rest)
      BY <3>1, <3>2, <3>3, WithoutIs DEF Orderly
    <3>5. Orderly(rest, deleted)
      BY <3>3, <3>4, RoomAssumption DEF Orderly
    <3>6. PICK d : d = [room EXCEPT !.pins = rest]
      OBVIOUS
    <3>7. d.members = room.members /\ d.admins = room.admins /\ d.pins = rest
      BY <3>2, <3>6 DEF Room
    <3>8. Ordered(d, deleted)
      BY <3>3, <3>5, <3>7 DEF Ordered
    <3>9. room' = IF Exists THEN d ELSE NoRoom
      BY <2>1, <3>1, <3>6
    <3> QED BY <1>8, <2>1, <3>7, <3>8, <3>9
  <2> QED BY <2>2, <2>3
<1>13. CASE Snapshot(r)
  <2>1. UNCHANGED <<room, cache, deleted>> /\ Pc(r) = "snapshot"
    BY <1>13 DEF Snapshot
  <2>2. CASE ~Exists
    BY <1>3, <1>13, <2>1, <2>2 DEF Snapshot
  <2>3. CASE Exists
    <3>1. PICK s : s = [At("unlink", Owner) EXCEPT !.copy = room]
      OBVIOUS
    <3>2. s.pc \in Quiet
      BY <3>1 DEF At, Quiet
    <3>3. Goto(r, s)
      BY <1>13, <2>3, <3>1 DEF Snapshot
    <3> QED BY <1>0, <2>1, <3>2, <3>3, StaysSettled
  <2> QED BY <2>2, <2>3
<1>14. CASE Unlink(r)
  <2>1. room' = NoRoom
    BY <1>14 DEF Unlink
  <2>2. CASE ~Exists
    BY <1>1, <1>14, <2>1, <2>2, FreshIsSettled DEF Unlink
  <2>3. CASE Exists
    <3>1. PICK s : s = [req[r] EXCEPT !.pc = "purge"]
      OBVIOUS
    <3>2. s.pc \in Quiet
      BY <1>0, <3>1 DEF Request, Quiet
    <3>3. Goto(r, s)
      BY <1>14, <2>3, <3>1 DEF Unlink
    <3> QED BY <2>1, <3>2, <3>3, FreshIsSettled
  <2> QED BY <2>2, <2>3
<1>15. CASE Purge(r)
  <2>1. At("clean", Owner).pc \in Quiet
    BY AtIsQuiet, RoomAssumption DEF Quiet
  <2>2. Goto(r, At("clean", Owner)) /\ UNCHANGED <<room, cache, deleted>> /\ Pc(r) = "purge"
    BY <1>15 DEF Purge
  <2> QED BY <1>0, <2>1, <2>2, StaysSettled
<1>16. CASE Restore(r)
  BY <1>0, <1>16 DEF Restore, Settled
<1>17. CASE Clean(r)
  BY <1>3, <1>17 DEF Clean
<1> QED BY <1>4, <1>5, <1>6, <1>7, <1>9, <1>10, <1>11, <1>12, <1>13, <1>14, <1>15, <1>16, <1>17 DEF Proceed

\* At most one slot in use means that two used slots are the same.
LEMMA OneRuns ==
    Cardinality({r \in Requests : Pc(r) # "free"}) <= 1
        => \A q, r \in Requests : Pc(q) # "free" /\ Pc(r) # "free" => q = r
<1> DEFINE S == {r \in Requests : Pc(r) # "free"}
<1> SUFFICES ASSUME Cardinality(S) <= 1, NEW q \in S, NEW r \in S, q # r PROVE FALSE
  OBVIOUS
<1>1. IsFiniteSet(S) /\ Cardinality(S) \in Nat
  BY RoomAssumption, FS_Subset, FS_CardinalityType
<1>2. Cardinality({r}) = 1 /\ IsFiniteSet({r})
  BY FS_Singleton
<1>3. Cardinality({r} \cup {q}) = 2
  BY <1>2, FS_AddElement
<1>4. Cardinality({r} \cup {q}) <= Cardinality(S)
  BY <1>1, FS_Subset
<1> QED BY <1>1, <1>3, <1>4

\* Starting a request fills a free slot.
LEMMA Begins ==
    ASSUME NEW r \in Requests, Begin(r), ~DeleteAgain(r)
    PROVE  Pc(r) = "free" /\ \E s : Goto(r, s) /\ s.pc # "free"
<1>1. ASSUME NEW op \in Accessing, NEW u \in Users, NEW m \in Msgs, Load(r, op, u, m)
      PROVE  Pc(r) = "free" /\ \E s : Goto(r, s) /\ s.pc # "free"
  <2>1. PICK c, a, s : /\ c = (IF op \in {"pin", "unpin"} THEN room ELSE NoRoom) /\ a = Allowed(u)
                       /\ s = [At("check", u) EXCEPT !.op = op, !.msg = m, !.ok = a, !.copy = c]
    OBVIOUS
  <2>2. s.pc = "check"
    BY <2>1 DEF At
  <2> QED BY <1>1, <2>1, <2>2 DEF Load
<1>2. ASSUME NEW m \in Msgs, DeleteMessage(r, m)
      PROVE  Pc(r) = "free" /\ \E s : Goto(r, s) /\ s.pc # "free"
  <2>1. PICK s : s = [At("unpin_deleted", Owner) EXCEPT !.msg = m]
    OBVIOUS
  <2>2. s.pc = "unpin_deleted"
    BY <2>1 DEF At
  <2> QED BY <1>2, <2>1, <2>2 DEF DeleteMessage
<1>3. \A pc, u : At(pc, u).pc = pc
  BY DEF At
<1>4. ASSUME NEW a \in Users, NEW u \in Users,
             \/ LoadAdd(r, a, u) \/ LoadRemove(r, a, u) \/ LoadPromote(r, u) \/ LoadDemote(r, u)
             \/ Join(r, u) \/ LoadInvite(r, a) \/ LoadRevoke(r, a) \/ LoadDelete(r)
      PROVE  Pc(r) = "free" /\ \E s : Goto(r, s) /\ s.pc # "free"
  BY <1>3, <1>4 DEF LoadAdd, LoadRemove, LoadPromote, LoadDemote, Join, LoadInvite, LoadRevoke, LoadDelete
<1> QED BY <1>1, <1>2, <1>4, RoomAssumption DEF Begin

\* Only a request under way proceeds.
LEMMA Proceeds == ASSUME NEW r \in Requests, Proceed(r) PROVE Pc(r) # "free"
  BY DEF Proceed, Check, Fill, Add, Pull, Invalidate, Promote, Demote, SetInvite, Revoke,
     PinMessage, Save, UnpinDeleted, Snapshot, Unlink, Purge, Restore, Clean

\* The only request moves.
LEMMA SoloMoves ==
    ASSUME SoloRoomInv, mode = "room", NEW r \in Requests, NEW s, Goto(r, s),
           Settled(room', cache', deleted', s), \A q \in Requests \ {r} : Pc(q) = "free",
           RoomInv'
    PROVE  SoloRoomInv'
<1>1. req \in [Requests -> Request]
  BY DEF SoloRoomInv, RoomInv, TypeOK
<1>2. req'[r] = s /\ \A q \in Requests \ {r} : req'[q].pc = "free"
  BY <1>1 DEF Goto, Pc
<1>3. s.pc = "free" => Settled(room', cache', deleted', Free)
  <2>1. Free.pc \in Quiet
    BY FreeIs DEF Quiet
  <2> QED BY <2>1, StaysSettled
<1>4. \A p, q \in Requests : req'[p].pc # "free" /\ req'[q].pc # "free" => p = q
  BY <1>2
<1>5. \A q \in Requests : req'[q].pc # "free" => Settled(room', cache', deleted', req'[q])
  BY <1>2
<1>6. Idle' => Settled(room', cache', deleted', Free')
  <2>1. Free' = Free
    BY DEF Free, At
  <2>2. Idle' => req'[r].pc = "free"
    BY DEF Idle, Pc
  <2> QED BY <1>2, <1>3, <2>1, <2>2
<1> QED BY <1>4, <1>5, <1>6 DEF SoloRoomInv, Pc

\* Every step keeps the invariant of requests that do not overlap.
LEMMA SoloRoomStep == SoloRoomInv /\ [MCNext]_mcVars => SoloRoomInv'
<1> SUFFICES ASSUME SoloRoomInv, [MCNext]_mcVars PROVE SoloRoomInv'
  OBVIOUS
<1>0. RoomInv /\ req \in [Requests -> Request] /\ faults \in Nat
  BY RoomAssumption DEF SoloRoomInv, RoomInv, TypeOK
<1>1. ASSUME UNCHANGED <<vars, mode>> PROVE SoloRoomInv'
  <2>1. RoomInv'
    BY <1>0, <1>1, RoomStepInv
  <2>2. UNCHANGED <<room, cache, deleted, req, mode>>
    BY <1>1 DEF vars
  <2> QED BY <2>1, <2>2 DEF SoloRoomInv, Idle, Pc
<1>2. CASE RoomRequests
  <2>1. RoomInv' /\ mode' = "rooms"
    BY <1>0, <1>2, RoomStepInv DEF RoomRequests, RoomStep
  <2> QED BY <2>1 DEF SoloRoomInv
<1>3. CASE OneRoomRequest
  <2>1. RoomInv' /\ mode = "room" /\ mode' = "room" /\ Next /\ faults' = 0
    BY <1>0, <1>3, RoomStepInv DEF OneRoomRequest, RoomStep
  <2>2. \A p, q \in Requests : Pc(p)' # "free" /\ Pc(q)' # "free" => p = q
    <3>1. (Cardinality({r \in Requests : Pc(r) # "free"}) <= 1)'
      BY <1>3 DEF OneRoomRequest, Pc
    <3>2. (Cardinality({r \in Requests : Pc(r) # "free"}) <= 1
            => \A q, r \in Requests : Pc(q) # "free" /\ Pc(r) # "free" => q = r)'
      BY OneRuns, PTL
    <3> QED BY <3>1, <3>2
  <2>3. ASSUME NEW u \in Users, CacheExpires(u) PROVE SoloRoomInv'
    <3>1. UNCHANGED <<room, deleted, req>> /\ cache' = [cache EXCEPT ![u] = "none"]
      BY <2>3 DEF CacheExpires
    <3>2. \A d : Agrees(d, cache) => Agrees(d, cache')
      BY <1>0, <3>1 DEF Agrees, RoomInv, TypeOK
    <3>3. \A s : Settled(room, cache, deleted, s) => Settled(room, cache', deleted, s)
      BY <3>2 DEF Settled
    <3> QED BY <2>1, <2>2, <3>1, <3>3 DEF SoloRoomInv, Idle, Pc
  <2>4. ASSUME NEW r \in Requests, Proceed(r) PROVE SoloRoomInv'
    <3>1. Pc(r) # "free"
      BY <2>4, Proceeds
    <3>2. /\ \A q \in Requests \ {r} : Pc(q) = "free"
          /\ Settled(room, cache, deleted, req[r])
      BY <2>1, <3>1 DEF SoloRoomInv
    <3>3. PICK s : Goto(r, s) /\ Settled(room', cache', deleted', s)
      BY <1>0, <2>4, <3>2, ProceedSettled
    <3> QED BY <2>1, <3>2, <3>3, SoloMoves
  <2>5. ASSUME NEW r \in Requests, Begin(r), ~DeleteAgain(r) PROVE SoloRoomInv'
    <3>1. PICK t : Pc(r) = "free" /\ Goto(r, t) /\ t.pc # "free"
      BY <2>5, Begins
    <3>2. Pc(r)' = t.pc /\ \A q \in Requests \ {r} : Pc(q)' = Pc(q)
      BY <1>0, <3>1 DEF Goto, Pc
    <3>3. \A q \in Requests \ {r} : Pc(q) = "free"
      BY <2>2, <3>1, <3>2
    <3>4. Settled(room, cache, deleted, Free)
      BY <2>1, <3>1, <3>3 DEF SoloRoomInv, Idle
    <3>5. PICK s : Goto(r, s) /\ Settled(room', cache', deleted', s)
      BY <1>0, <2>5, <3>4, BeginSettled
    <3> QED BY <2>1, <3>3, <3>5, SoloMoves
  <2>6. ASSUME NEW r \in Requests, DeleteAgain(r) PROVE SoloRoomInv'
    BY <1>1, <2>1, <2>6 DEF DeleteAgain
  <2>7. ASSUME NEW r \in Requests, Break(r) PROVE FALSE
    BY <1>0, <2>1, <2>7 DEF Break, PurgeFails, InvalidateFails, Fail
  <2> QED BY <2>1, <2>3, <2>4, <2>5, <2>6, <2>7 DEF Next
<1>4. CASE Direct \/ FriendRequests \/ NoteRequests \/ SubRequests \/ UNCHANGED mcVars
  BY <1>1, <1>4 DEF Direct, FriendRequests, NoteRequests, SubRequests, mcVars
<1> QED BY <1>2, <1>3, <1>4 DEF MCNext

\* The new room is settled and nobody is using it.
LEMMA SoloRoomInit == MCInit => SoloRoomInv
<1> SUFFICES ASSUME MCInit PROVE SoloRoomInv
  OBVIOUS
<1>1. Init /\ RoomInv
  BY RoomInitInv DEF MCInit
<1>2. /\ room.admins = {} /\ room.pins = <<>> /\ deleted = {}
      /\ \A u \in Users : cache[u] = "none"
      /\ \A r \in Requests : Pc(r) = "free"
  BY <1>1, FreeIs DEF Init, Pc
<1>3. Agrees(room, cache)
  BY <1>2 DEF Agrees
<1>4. Ordered(room, deleted)
  <2>1. Len(room.pins) = 0 /\ 1..Len(room.pins) = {}
    BY <1>2
  <2> QED BY <1>2, <2>1, RoomAssumption DEF Ordered, Orderly, Distinct
<1>5. Settled(room, cache, deleted, Free)
  <2>1. Free.pc \in Quiet
    BY FreeIs DEF Quiet
  <2> QED BY <1>3, <1>4, <2>1, FreshIsSettled
<1> QED BY <1>1, <1>2, <1>5 DEF SoloRoomInv

\* Between requests, cache and document agree and the room is in order.
LEMMA SoloRoomIsSettled ==
    SoloRoomInv /\ mode = "room" /\ Idle /\ Exists => Agrees(room, cache) /\ Ordered(room, deleted)
  BY FreeIs DEF SoloRoomInv, Settled, Exists

\* While the requests of a room do not overlap and no call fails, every change
\* of membership takes effect at once: between requests no cached decision
\* contradicts the document, for any number of users.
THEOREM CacheAlone == MCSpec => []SoloCacheIsExact
<1>1. SoloRoomInv => SoloCacheIsExact
  BY SoloRoomIsSettled DEF SoloCacheIsExact, CacheIsExact, Agrees, Allowed
<1> QED BY <1>1, SoloRoomInit, SoloRoomStep, PTL DEF MCSpec

\* While the requests of a room do not overlap, between requests its admins
\* are members and its pins are distinct, at most _PIN_LIMIT, and of messages
\* that are not deleted, for any number of messages and any limit.
THEOREM CoherentAlone == MCSpec => []SoloRoomIsCoherent
<1>1. SoloRoomInv => SoloRoomIsCoherent
  <2> SUFFICES ASSUME SoloRoomInv, mode = "room", Idle, Exists
               PROVE  /\ room.admins \subseteq room.members
                      /\ IsInjective(room.pins) /\ Len(room.pins) <= PinLimit
                      /\ \A m \in deleted : ~Contains(room.pins, m)
    BY DEF SoloRoomIsCoherent, RoomIsCoherent
  <2>1. Ordered(room, deleted)
    BY SoloRoomIsSettled
  <2>2. room.pins \in Seq(Msgs)
    BY DEF SoloRoomInv, RoomInv, TypeOK, Exists, Room
  <2>3. DOMAIN room.pins = 1..Len(room.pins)
    BY <2>2
  <2> QED BY <2>1, <2>3 DEF Ordered, Orderly, Distinct, IsInjective, Contains
<1> QED BY <1>1, SoloRoomInit, SoloRoomStep, PTL DEF MCSpec
====
