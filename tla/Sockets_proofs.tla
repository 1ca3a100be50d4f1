--------------------------- MODULE Sockets_proofs ---------------------------
(* Theorems about connections, for any number of users, sockets, events and  *)
(* any time-outs: presence (WsPresence) and the fan-out (WsConnections).     *)
EXTENDS WsPresence, WsConnections, TLAPS

-----------------------------------------------------------------------------
(* Presence *)

\* Presence keeps to its types.
PresTypeOK ==
    /\ conn \in [Conns -> {"none", "accepted", "open", "touching", "closing", "gone"}]
    /\ contexts \subseteq Conns
    /\ clearing \in [Conns -> {"no", "keys", "scan"}]
    /\ key \in [Conns -> Nat] /\ entry \in [Conns -> Nat] /\ quiet \in [Conns -> Nat]
    /\ failing \in [Conns -> {"no", "now", "past", "clear"}]
    /\ lastSeen \in BOOLEAN /\ ghosts \in BOOLEAN /\ crashed \in BOOLEAN

\* A context lives from the accept to whoever pops it, once.
Lives(c) ==
    /\ conn[c] = "none" => c \notin contexts /\ clearing[c] = "no" /\ failing[c] = "no"
    /\ conn[c] = "gone" => c \notin contexts
    /\ conn[c] = "accepted" /\ c \in contexts => failing[c] = "no"
    /\ failing[c] = "clear" => c \notin contexts
    /\ c \in contexts => clearing[c] = "no"
    /\ conn[c] \in {"none", "accepted"} => quiet[c] = 0

\* While the client is quiet, its presence has at least the rest of the TTL
\* left; when an event has just come in, it has not lapsed yet.
Fresh(c) ==
    c \in contexts \ noisy =>
        /\ conn[c] = "open" =>
            /\ failing[c] = "no" => key[c] + quiet[c] >= Ttl
            /\ failing[c] # "now" => entry[c] + quiet[c] >= Ttl
            /\ quiet[c] <= Idle
        /\ conn[c] = "touching" => (failing[c] = "no" => key[c] > 0) /\ quiet[c] = 0

OnlineInv == PresTypeOK /\ \A c \in Conns : Lives(c) /\ Fresh(c)

\* Initially there are no connections and no keys.
LEMMA OnlineInit == PresInit => OnlineInv
<1> SUFFICES ASSUME PresInit PROVE OnlineInv
  OBVIOUS
<1>1. Zero \in [Conns -> Nat] /\ \A c \in Conns : Zero[c] = 0
  BY DEF Zero
<1>2. PresTypeOK
  BY <1>1 DEF PresInit, PresTypeOK
<1> QED BY <1>1, <1>2 DEF PresInit, OnlineInv, Lives, Fresh

\* A unit of time costs every lifetime at most one.
LEMMA LessIsLess ==
  ASSUME NEW f \in [Conns -> Nat]
  PROVE  /\ Less(f) \in [Conns -> Nat]
         /\ \A c \in Conns : Less(f)[c] + 1 >= f[c] /\ (f[c] = 0 => Less(f)[c] = 0)
  BY DEF Less

\* Every step keeps the presence of open connections alive beyond their idle
\* time.
LEMMA OnlineStep == OnlineInv /\ [PresNext]_presVars => OnlineInv'
<1> SUFFICES ASSUME OnlineInv, [PresNext]_presVars PROVE OnlineInv'
  OBVIOUS
<1> USE PresenceAssumption DEF OnlineInv, PresTypeOK, Lives, Fresh, ConnStep
<1>1. ASSUME NEW c \in Conns, Connect(c) PROVE OnlineInv'
  BY <1>1 DEF Connect
<1>2. ASSUME NEW c \in Conns, SetPresence(c) PROVE OnlineInv'
  BY <1>2 DEF SetPresence, Haunt
<1>14. ASSUME NEW c \in Conns, SetPresenceFails(c) \/ TouchFails(c) PROVE OnlineInv'
  <2>1. Renewed(c) \in Nat /\ Ttl \in Nat
    BY DEF Renewed
  <2>2. /\ key' \in [Conns -> Nat] /\ entry' \in [Conns -> Nat]
        /\ \A d \in Conns \ {c} : key'[d] = key[d] /\ entry'[d] = entry[d]
    BY <1>14, <2>1 DEF SetPresenceFails, TouchFails, Partly
  <2>3. /\ conn[c] \in {"accepted", "touching"} /\ conn' = [conn EXCEPT ![c] = "open"]
        /\ failing' = [failing EXCEPT ![c] = IF @ = "clear" THEN @ ELSE "now"]
        /\ ghosts' \in BOOLEAN
        /\ UNCHANGED <<contexts, clearing, quiet, lastSeen, noisy, crashed>>
    BY <1>14 DEF SetPresenceFails, TouchFails, CallFails, Haunt
  <2>4. failing' \in [Conns -> {"no", "now", "past", "clear"}]
        /\ (c \in contexts => failing'[c] = "now")
        /\ (failing'[c] = "clear" => failing[c] = "clear")
        /\ \A d \in Conns \ {c} : failing'[d] = failing[d]
    BY <2>3
  <2> QED BY <2>2, <2>3, <2>4
<1>3. ASSUME NEW c \in Conns, Receive(c) PROVE OnlineInv'
  BY <1>3 DEF Receive
<1>4. ASSUME NEW c \in Conns, ReceiveInvalid(c) PROVE OnlineInv'
  BY <1>4 DEF ReceiveInvalid
<1>5. ASSUME NEW c \in Conns, Touch(c) PROVE OnlineInv'
  <2>1. /\ key' \in [Conns -> Nat] /\ entry' \in [Conns -> Nat]
        /\ entry'[c] = Ttl /\ (key[c] > 0 => key'[c] = Ttl)
        /\ failing' \in [Conns -> {"no", "now", "past", "clear"}]
        /\ failing'[c] # "now" /\ (failing'[c] \in {"no", "clear"} => failing[c] = failing'[c])
        /\ \A d \in Conns \ {c} : failing'[d] = failing[d]
        /\ \A d \in Conns \ {c} : key'[d] = key[d] /\ entry'[d] = entry[d]
    BY <1>5 DEF Touch, Renewed
  <2>2. /\ conn[c] = "touching" /\ conn' = [conn EXCEPT ![c] = "open"]
        /\ ghosts' \in BOOLEAN
        /\ UNCHANGED <<contexts, clearing, quiet, lastSeen, noisy, crashed>>
    BY <1>5 DEF Touch, Haunt
  <2> QED BY <2>1, <2>2
<1>6. ASSUME NEW c \in Conns, Leave(c) PROVE OnlineInv'
  BY <1>6 DEF Leave
<1>7. ASSUME NEW c \in Conns, Disconnect(c) PROVE OnlineInv'
  BY <1>7 DEF Disconnect, PopContext
<1>8. ASSUME NEW c \in Conns, Kick(c) PROVE OnlineInv'
  BY <1>8 DEF Kick, PopContext
<1>9. ASSUME NEW c \in Conns, ClearKeys(c) PROVE OnlineInv'
  BY <1>9 DEF ClearKeys
<1>10. ASSUME NEW c \in Conns, ScanRemaining(c) PROVE OnlineInv'
  BY <1>10 DEF ScanRemaining
<1>15. ASSUME NEW c \in Conns, ClearFails(c) PROVE OnlineInv'
  <2>1. /\ key' \in [Conns -> Nat] /\ entry' \in [Conns -> Nat]
        /\ \A d \in Conns \ {c} : key'[d] = key[d] /\ entry'[d] = entry[d]
        /\ c \notin contexts /\ conn[c] # "none"
    BY <1>15 DEF ClearFails, Partly
  <2>2. /\ clearing' = [clearing EXCEPT ![c] = "no"] /\ failing' = [failing EXCEPT ![c] = "clear"]
        /\ UNCHANGED <<conn, contexts, quiet, noisy, ghosts, crashed>>
    BY <1>15 DEF ClearFails
  <2>3. lastSeen' \in BOOLEAN
    <3>1. lastSeen' = lastSeen \/ lastSeen' = (lastSeen \/ key = Zero)
      BY <1>15, Zenon DEF ClearFails
    <3> QED BY <3>1
  <2> QED BY <2>1, <2>2, <2>3
<1>11. CASE CrashAll
  BY <1>11 DEF CrashAll
<1>12. CASE TimePasses
  <2>1. key' = Less(key) /\ entry' = Less(entry)
    BY <1>12 DEF TimePasses, EntriesAge
  <2>2. /\ key' \in [Conns -> Nat] /\ entry' \in [Conns -> Nat]
        /\ \A c \in Conns : key'[c] + 1 >= key[c] /\ entry'[c] + 1 >= entry[c]
    BY <2>1, LessIsLess
  <2>3. /\ quiet' \in [Conns -> Nat]
        /\ \A c \in Conns : IF conn[c] = "open" THEN quiet'[c] = quiet[c] + 1 /\ quiet[c] < Idle
                                                ELSE quiet'[c] = quiet[c]
    BY <1>12 DEF TimePasses
  <2>4. \A c \in Conns : conn[c] # "touching"
    BY <1>12 DEF TimePasses
  <2>5. UNCHANGED <<conn, contexts, clearing, lastSeen, failing, noisy, ghosts, crashed>>
    BY <1>12 DEF TimePasses
  <2> QED BY <2>2, <2>3, <2>4, <2>5
<1>13. CASE UNCHANGED presVars
  BY <1>13 DEF presVars
<1> QED BY <1>1, <1>2, <1>3, <1>4, <1>5, <1>6, <1>7, <1>8, <1>9, <1>10, <1>11, <1>12, <1>13,
           <1>14, <1>15 DEF PresNext, HandlerStep

\* Whatever the number of connections and the lengths of idle time-out and
\* TTL, as long as the TTL is longer, a client that keeps its connection alive
\* with valid events is never shown as offline.
THEOREM Online == PresSpec => []ConnectedIsOnline
<1>1. OnlineInv => ConnectedIsOnline
  BY PresenceAssumption DEF OnlineInv, PresTypeOK, Fresh, ConnectedIsOnline
<1> QED BY <1>1, OnlineInit, OnlineStep, PTL DEF PresSpec

\* The presence of c was deleted, and c will not be scanned for any more.
Over(c) == conn[c] # "none" /\ c \notin contexts /\ clearing[c] = "no"

\* As long as nothing wrote presence without a context: a connection whose
\* keys were cleared, or which has none yet, has no key, so the last one to
\* scan finds nothing.
Cleared(c) ==
    \/ conn[c] \in {"none", "accepted"}
    \/ c \notin contexts /\ clearing[c] \in {"no", "scan"}

SeenInv ==
    ~crashed /\ ~ghosts /\ (\A c \in Conns : failing[c] # "clear") =>
        /\ \A c \in Conns : Cleared(c) => key[c] = 0
        /\ lastSeen \/ \E c \in Conns : ~Over(c)

\* Initially nobody was connected.
LEMMA SeenInit == PresInit => SeenInv
  BY PresenceAssumption DEF PresInit, SeenInv, Cleared, Over, Zero

\* Every step leaves last_seen written or a connection that is not over, and no
\* key of a connection that is cleared.
LEMMA SeenStep == OnlineInv /\ SeenInv /\ [PresNext]_presVars => SeenInv'
<1> SUFFICES ASSUME OnlineInv, SeenInv, [PresNext]_presVars, ~crashed', ~ghosts',
                    \A c \in Conns : failing'[c] # "clear"
             PROVE  SeenInv'
  BY DEF SeenInv
<1> USE DEF OnlineInv, PresTypeOK, Lives, SeenInv, Cleared, Over, ConnStep
<1>1. ASSUME NEW c \in Conns, Connect(c) PROVE SeenInv'
  BY <1>1 DEF Connect
<1>2. ASSUME NEW c \in Conns, SetPresence(c) PROVE SeenInv'
  BY <1>2 DEF SetPresence, Haunt
<1>14. ASSUME NEW c \in Conns, SetPresenceFails(c) \/ TouchFails(c) PROVE SeenInv'
  <2>1. /\ c \in contexts /\ conn[c] # "none" /\ conn' = [conn EXCEPT ![c] = "open"]
        /\ \A d \in Conns : failing[d] # "clear"
        /\ UNCHANGED <<contexts, clearing, lastSeen, crashed>> /\ ~ghosts
    BY <1>14 DEF SetPresenceFails, TouchFails, CallFails, Haunt
  <2>2. \A d \in Conns \ {c} : key'[d] = key[d]
    BY <1>14 DEF SetPresenceFails, TouchFails, Partly
  <2> QED BY <2>1, <2>2
<1>3. ASSUME NEW c \in Conns, Receive(c) PROVE SeenInv'
  BY <1>3 DEF Receive
<1>4. ASSUME NEW c \in Conns, ReceiveInvalid(c) PROVE SeenInv'
  BY <1>4 DEF ReceiveInvalid
<1>5. ASSUME NEW c \in Conns, Touch(c) PROVE SeenInv'
  <2>1. /\ c \in contexts /\ conn[c] = "touching" /\ conn' = [conn EXCEPT ![c] = "open"]
        /\ \A d \in Conns : failing[d] # "clear"
        /\ UNCHANGED <<contexts, clearing, lastSeen, crashed>> /\ ~ghosts
    BY <1>5 DEF Touch, Haunt
  <2>2. \A d \in Conns \ {c} : key'[d] = key[d]
    BY <1>5 DEF Touch
  <2> QED BY <2>1, <2>2
<1>6. ASSUME NEW c \in Conns, Leave(c) PROVE SeenInv'
  BY <1>6 DEF Leave
<1>7. ASSUME NEW c \in Conns, Disconnect(c) PROVE SeenInv'
  BY <1>7 DEF Disconnect, PopContext
<1>8. ASSUME NEW c \in Conns, Kick(c) PROVE SeenInv'
  BY <1>8 DEF Kick, PopContext
<1>9. ASSUME NEW c \in Conns, ClearKeys(c) PROVE SeenInv'
  BY <1>9 DEF ClearKeys
<1>10. ASSUME NEW c \in Conns, ScanRemaining(c) PROVE SeenInv'
  <2>1. \A d \in Conns : Cleared(d)' => key'[d] = 0
    BY <1>10 DEF ScanRemaining
  <2>2. CASE \A d \in Conns : Over(d)'
    <3>1. \A d \in Conns : key[d] = 0
      BY <1>10, <2>1, <2>2 DEF ScanRemaining
    <3>2. key = Zero
      BY <3>1 DEF Zero
    <3> QED BY <1>10, <2>1, <3>2 DEF ScanRemaining
  <2> QED BY <2>1, <2>2
<1>15. ASSUME NEW c \in Conns, ClearFails(c) PROVE SeenInv'
  BY <1>15 DEF ClearFails
<1>11. CASE CrashAll
  BY <1>11 DEF CrashAll
<1>12. CASE TimePasses
  <2>1. /\ UNCHANGED <<conn, contexts, clearing, lastSeen, failing, ghosts, crashed>>
        /\ key' = Less(key)
    BY <1>12 DEF TimePasses
  <2>2. \A c \in Conns : key[c] = 0 => key'[c] = 0
    BY <2>1, LessIsLess
  <2> QED BY <2>1, <2>2
<1>13. CASE UNCHANGED presVars
  BY <1>13 DEF presVars
<1> QED BY <1>1, <1>2, <1>3, <1>4, <1>5, <1>6, <1>7, <1>8, <1>9, <1>10, <1>11, <1>12, <1>13,
           <1>14, <1>15 DEF PresNext, HandlerStep

\* Of any number of connections that close in any order, some found itself the
\* last: when all are gone, last_seen was written.
THEOREM LastSeen == PresSpec => []LastSeenIsKept
<1>1. OnlineInv /\ SeenInv => LastSeenIsKept
  BY PresenceAssumption DEF OnlineInv, Lives, SeenInv, Over, LastSeenIsKept
<1> QED BY <1>1, OnlineInit, OnlineStep, SeenInit, SeenStep, PTL DEF PresSpec

-----------------------------------------------------------------------------
(* Fan-out *)

Phases == {"idle", "rooms", "users", "close"}
FanRecord == [pc : Phases, todo : SUBSET Sockets, cur : SUBSET Sockets,
              step : {"load", "read", "fill", "send"}, says : {"yes", "no"},
              bad : SUBSET Sockets, sent : SUBSET Sockets, banned : SUBSET People,
              owed : SUBSET Sockets]
Event == [banned : SUBSET People, owed : SUBSET Sockets]

\* Sockets, events and the listener keep to their types.
FanTypeOK ==
    /\ members \subseteq People /\ removed \subseteq People
    /\ cache \in [People -> {"none", "yes", "no"}]
    /\ valid \subseteq Sockets /\ registered \subseteq Sockets
    /\ handler \in [Sockets -> {"new", "admitted", "open", "closing", "closed"}]
    /\ queue \in Seq(Event)
    /\ fan \in FanRecord

\* A decision that is cached is the right one, but for a yes that outlived the
\* removal.
Cached ==
    /\ removed \cap members = {}
    /\ \A u \in removed \ stale : cache[u] # "yes"
    /\ \A u \in members : cache[u] # "no"

\* Whoever was removed when an event was published is not about to be served,
\* and what the room as loaded denies a user, the user has lost.
Barred ==
    /\ \A i \in 1..Len(queue) : queue[i].banned \subseteq removed
    /\ fan.banned \subseteq removed
    /\ \A s \in fan.cur :
        /\ UserOf[s] \in fan.banned \ stale => fan.step # "send" /\ fan.says = "no"
        /\ fan.step \in {"read", "fill"} /\ fan.says = "no" => UserOf[s] \notin members
    /\ \A s \in fan.sent : UserOf[s] \in fan.banned => UserOf[s] \in stale

\* Who is owed an event has every right to it ...
Entitled ==
    /\ \A i \in 1..Len(queue) : \A s \in queue[i].owed : Rightful(s)
    /\ \A s \in fan.owed : Rightful(s)

\* ... and was served, or is still to be visited by the loop.
Reached == fan.todo \cup fan.cur \cup fan.sent
Awaited ==
    /\ \A s, t \in fan.cur : s = t
    /\ fan.pc = "rooms" => fan.owed \cap RoomSockets \subseteq Reached
    /\ fan.pc = "users" => fan.owed \subseteq Reached
    /\ fan.pc = "close" => fan.owed \subseteq fan.sent

FanInv == FanTypeOK /\ Cached /\ Barred /\ Entitled /\ Awaited

\* Initially no socket is open and no event published.
LEMMA FanInitInv == FanInit => FanInv
  BY DEF FanInit, FanInv, FanTypeOK, Cached, Barred, Entitled, Awaited, Reached, Resting, FanRecord,
         Phases, Event, Rightful, Sockets, People

\* A function on an initial segment of the naturals is a sequence.
LEMMA FunctionIsSeq ==
  ASSUME NEW n \in Nat, NEW T, NEW f \in [1..n -> T]
  PROVE  f \in Seq(T) /\ Len(f) = n
  OBVIOUS

\* Debts to S taken off every event in the queue change nothing else of it.
LEMMA QueueSettled ==
  ASSUME FanTypeOK, NEW S,
         queue' = [i \in 1..Len(queue) |-> [queue[i] EXCEPT !.owed = @ \ S]]
  PROVE  /\ queue' \in Seq(Event) /\ Len(queue') = Len(queue)
         /\ \A i \in 1..Len(queue) : /\ queue'[i].banned = queue[i].banned
                                     /\ queue'[i].owed = queue[i].owed \ S
<1>1. Len(queue) \in Nat /\ \A i \in 1..Len(queue) : queue[i] \in Event
  BY DEF FanTypeOK
<1> DEFINE e(i) == [queue[i] EXCEPT !.owed = @ \ S]
<1>2. \A i \in 1..Len(queue) :
          e(i) \in Event /\ e(i).banned = queue[i].banned /\ e(i).owed = queue[i].owed \ S
  BY <1>1 DEF Event
<1>3. queue' = [i \in 1..Len(queue) |-> e(i)]
  OBVIOUS
<1> HIDE DEF e
<1>4. queue' \in [1..Len(queue) -> Event] /\ \A i \in 1..Len(queue) : queue'[i] = e(i)
  BY <1>2, <1>3
<1> QED BY <1>1, <1>2, <1>4, FunctionIsSeq

\* Whoever loses a right, or the connection, loses what it was owed with it.
LEMMA SettledInv ==
  ASSUME FanInv, NEW S, Settle(S),
         members' \subseteq members, UNCHANGED <<removed, cache, stale>>,
         valid' \subseteq Sockets, registered' \subseteq Sockets,
         handler' \in [Sockets -> {"new", "admitted", "open", "closing", "closed"}],
         \A s \in Sockets : Rightful(s) /\ s \notin S => Rightful(s)'
  PROVE  FanInv'
<1> USE DEF FanInv
<1>1. /\ queue' \in Seq(Event) /\ Len(queue') = Len(queue)
      /\ \A i \in 1..Len(queue) : /\ queue'[i].banned = queue[i].banned
                                  /\ queue'[i].owed = queue[i].owed \ S
  BY QueueSettled DEF Settle
<1>2. fan' \in FanRecord /\ fan'.owed = fan.owed \ S
      /\ fan'.pc = fan.pc /\ fan'.todo = fan.todo /\ fan'.cur = fan.cur /\ fan'.sent = fan.sent
      /\ fan'.banned = fan.banned /\ fan'.step = fan.step /\ fan'.says = fan.says
  BY DEF Settle, FanTypeOK, FanRecord
<1>3. FanTypeOK'
  BY <1>1, <1>2 DEF FanTypeOK
<1>4. Cached' /\ Barred'
  BY <1>1, <1>2 DEF Cached, Barred
<1>5. \A i \in 1..Len(queue) : queue[i] \in Event
  BY DEF FanTypeOK
<1>6. Entitled'
  <2>1. ASSUME NEW i \in 1..Len(queue), NEW s \in queue[i].owed \ S PROVE Rightful(s)'
    BY <1>5 DEF Entitled, Event
  <2>2. ASSUME NEW s \in fan.owed \ S PROVE Rightful(s)'
    BY DEF Entitled, FanTypeOK, FanRecord
  <2> QED BY <1>1, <1>2, <2>1, <2>2 DEF Entitled
<1>7. Awaited'
  BY <1>2 DEF Awaited, Reached
<1> QED BY <1>3, <1>4, <1>6, <1>7

\* Handshakes, removals, publications and the steps of a fan-out keep the
\* invariant.
LEMMA FanStepInv == FanInv /\ [FanNext]_fanVars => FanInv'
<1> SUFFICES ASSUME FanInv, [FanNext]_fanVars PROVE FanInv'
  OBVIOUS
<1> USE DEF FanInv
<1>t. /\ fan \in FanRecord
      /\ \A i \in 1..Len(queue) : queue[i] \in Event
  BY DEF FanTypeOK
<1>p. \A s \in Sockets : UserOf[s] \in People
  BY DEF People
\* The handlers: queue, listener and rights are left alone.
<1>h. ASSUME UNCHANGED <<members, removed, cache, stale, valid, queue, fan>>,
             registered' \subseteq Sockets,
             handler' \in [Sockets -> {"new", "admitted", "open", "closing", "closed"}],
             \A s \in Sockets : Rightful(s) => Rightful(s)'
      PROVE  FanInv'
  <2>1. FanTypeOK'
    BY <1>h DEF FanTypeOK
  <2>2. Cached' /\ Barred' /\ Awaited'
    BY <1>h DEF Cached, Barred, Awaited, Reached
  <2>3. Entitled'
    BY <1>h, <1>t DEF Entitled, FanRecord, Event
  <2> QED BY <2>1, <2>2, <2>3
\* Removals and the cache: the sockets are left alone.
<1>a. ASSUME UNCHANGED <<members, queue, fan, restVars>>,
             removed \subseteq removed', removed' \subseteq People, stale \subseteq stale',
             cache' \in [People -> {"none", "yes", "no"}], Cached'
      PROVE  FanInv'
  <2>1. UNCHANGED <<valid, handler, registered>>
    BY <1>a DEF restVars
  <2>2. FanTypeOK' /\ Barred' /\ Awaited'
    BY <1>a, <2>1 DEF FanTypeOK, Barred, Awaited, Reached
  <2>3. \A s \in Sockets : Rightful(s)' <=> Rightful(s)
    BY <1>a, <2>1 DEF Rightful
  <2>4. Entitled'
    BY <1>a, <1>t, <2>3 DEF Entitled, FanRecord, Event
  <2> QED BY <1>a, <2>2, <2>4
<1>1. ASSUME NEW s \in Sockets, Handshake(s) PROVE FanInv'
  BY <1>1, <1>h DEF Handshake, HandlerStepTo, Rightful, FanTypeOK, accessVars
<1>2. ASSUME NEW s \in Sockets, RegisterSocket(s) PROVE FanInv'
  BY <1>2, <1>h DEF RegisterSocket, HandlerStepTo, Rightful, FanTypeOK, accessVars
<1>3. ASSUME NEW s \in Sockets, Expel(s) PROVE FanInv'
  <2>1. ~Rightful(s)
    BY <1>3, <1>p DEF Expel, MayStay, HasAccess, Answer, Decision, Rightful, Cached, FanTypeOK
  <2> QED BY <1>3, <1>h, <2>1 DEF Expel, HandlerStepTo, Rightful, FanTypeOK, accessVars
<1>4. ASSUME NEW s \in Sockets, HangUp(s) PROVE FanInv'
  BY <1>4, SettledInv DEF HangUp, HandlerStepTo, Rightful, FanTypeOK, accessVars
<1>5. ASSUME NEW s \in Sockets, Unregister(s) PROVE FanInv'
  BY <1>5, <1>h DEF Unregister, HandlerStepTo, Rightful, FanTypeOK, accessVars
<1>6. ASSUME NEW u \in People, Pull(u) PROVE FanInv'
  BY <1>6, SettledInv DEF Pull, Rightful, FanTypeOK, restVars
<1>7. ASSUME NEW u \in People, Revoke(u) PROVE FanInv'
  BY <1>7, SettledInv DEF Revoke, Rightful, FanTypeOK, accessVars
<1>19. ASSUME NEW s \in Sockets, FanoutUser(s) PROVE FanInv'
  BY <1>19, SettledInv DEF FanoutUser, Rightful, FanTypeOK, accessVars
<1>20. ASSUME NEW u \in People, Invalidate(u) \/ InvalidateFails(u) PROVE FanInv'
  <2>1. /\ u \notin members /\ removed' = removed \cup {u}
        /\ UNCHANGED <<members, queue, fan, restVars>>
    BY <1>20 DEF Invalidate, InvalidateFails
  <2>2. CASE Invalidate(u)
    <3>1. cache' = [v \in People |-> "none"] /\ stale' = stale
      BY <2>2 DEF Invalidate
    <3> QED BY <1>a, <2>1, <3>1 DEF Cached, FanTypeOK
  <2>3. CASE InvalidateFails(u)
    <3>1. cache' = cache /\ stale' = stale \cup {u}
      BY <2>3 DEF InvalidateFails
    <3> QED BY <1>a, <2>1, <3>1 DEF Cached, FanTypeOK
  <2> QED BY <1>20, <2>2, <2>3
<1>21. ASSUME NEW u \in People, LoadRoom(u) PROVE FanInv'
  BY <1>21, <1>a DEF LoadRoom, Cached, FanTypeOK
<1>22. ASSUME NEW u \in People, FillYes(u) PROVE FanInv'
  BY <1>22, <1>a DEF FillYes, Outlives, Cached, FanTypeOK
<1>23. ASSUME NEW u \in People, FillNo(u) PROVE FanInv'
  BY <1>23, <1>a DEF FillNo, Cached, FanTypeOK
<1>24. ASSUME NEW u \in People, CacheExpires(u) PROVE FanInv'
  BY <1>24, <1>a DEF CacheExpires, Cached, FanTypeOK
<1>8. CASE Publish
  <2> DEFINE ev == [banned |-> removed, owed |-> {s \in Sockets : Rightful(s)}]
  <2>1. ev \in Event /\ queue' = Append(queue, ev)
    BY <1>8 DEF Publish, Event, FanTypeOK
  <2>2. queue' \in Seq(Event) /\ Len(queue') = Len(queue) + 1
        /\ \A i \in 1..Len(queue') : queue'[i] = IF i <= Len(queue) THEN queue[i] ELSE ev
    BY <2>1 DEF FanTypeOK
  <2>3. UNCHANGED <<members, removed, cache, stale, valid, handler, registered, fan>>
    BY <1>8 DEF Publish, accessVars
  <2>4. FanTypeOK'
    BY <2>2, <2>3 DEF FanTypeOK
  <2>5. \A i \in 1..Len(queue') : queue'[i].banned \subseteq removed
    BY <2>2 DEF Barred, FanTypeOK
  <2>6. Cached' /\ Barred' /\ Awaited'
    BY <2>3, <2>5 DEF Cached, Barred, Awaited, Reached
  <2>7. \A s \in Sockets : Rightful(s)' <=> Rightful(s)
    BY <2>3 DEF Rightful
  <2>8. \A i \in 1..Len(queue') : \A s \in queue'[i].owed : s \in Sockets /\ Rightful(s)
    BY <1>t, <2>2 DEF Entitled, FanTypeOK, Event
  <2>9. Entitled'
    BY <1>t, <2>3, <2>7, <2>8 DEF Entitled, FanRecord
  <2> QED BY <2>4, <2>6, <2>9
<1>9. CASE FanStart
  <2>1. queue # <<>> /\ queue' = Tail(queue) /\ Head(queue) = queue[1] /\ 1 \in 1..Len(queue)
    BY <1>9 DEF FanStart, FanTypeOK
  <2>2. queue' \in Seq(Event) /\ Len(queue') = Len(queue) - 1
        /\ \A i \in 1..Len(queue') : i + 1 \in 1..Len(queue) /\ queue'[i] = queue[i + 1]
    BY <2>1 DEF FanTypeOK
  <2>3. queue[1] \in Event
    BY <1>t, <2>1
  <2>4. /\ fan'.pc = "rooms" /\ fan'.todo = registered \cap RoomSockets /\ fan'.cur = {}
        /\ fan'.sent = {} /\ fan'.bad = {}
        /\ fan'.banned = queue[1].banned /\ fan'.owed = queue[1].owed
        /\ fan' \in FanRecord
    BY <1>9, <2>1, <2>3 DEF FanStart, Resting, FanRecord, Phases, Event, Sockets
  <2>5. UNCHANGED <<members, removed, cache, stale, valid, handler, registered>>
    BY <1>9 DEF FanStart, accessVars
  <2>6. FanTypeOK' /\ Cached' /\ Barred'
    BY <2>1, <2>2, <2>4, <2>5 DEF FanTypeOK, Cached, Barred
  <2>7. \A s \in Sockets : Rightful(s)' <=> Rightful(s)
    BY <2>5 DEF Rightful
  <2>8. Entitled'
    BY <1>t, <2>1, <2>2, <2>3, <2>4, <2>7 DEF Entitled, Event
  <2>9. \A s \in queue[1].owed : s \in registered
    BY <2>1 DEF Entitled, Rightful
  <2>10. Awaited'
    BY <2>4, <2>9 DEF Awaited, Reached
  <2> QED BY <2>6, <2>8, <2>10
\* The listener between two events: only fan and the cache change.
<1>f. ASSUME UNCHANGED <<members, removed, valid, handler, registered, queue>>,
             cache' \in [People -> {"none", "yes", "no"}], stale \subseteq stale', Cached',
             fan' \in FanRecord, fan'.banned = fan.banned, fan'.owed \subseteq fan.owed,
             \A s \in fan'.cur :
                 /\ UserOf[s] \in fan.banned \ stale' => fan'.step # "send" /\ fan'.says = "no"
                 /\ fan'.step \in {"read", "fill"} /\ fan'.says = "no" => UserOf[s] \notin members,
             \A s \in fan'.sent : UserOf[s] \in fan.banned => UserOf[s] \in stale',
             Awaited'
      PROVE  FanInv'
  <2>1. FanTypeOK' /\ Barred'
    BY <1>f DEF FanTypeOK, Barred
  <2>2. \A s \in Sockets : Rightful(s)' <=> Rightful(s)
    BY <1>f DEF Rightful
  <2>3. Entitled'
    BY <1>f, <1>t, <2>2 DEF Entitled, FanRecord, Event
  <2> QED BY <1>f, <2>1, <2>3
\* A step that leaves the cache alone.
<1>g. ASSUME UNCHANGED <<accessVars, valid, handler, registered, queue>>
      PROVE  /\ UNCHANGED <<members, removed, cache, stale, valid, handler, registered, queue>>
             /\ Cached' /\ cache' \in [People -> {"none", "yes", "no"}]
  BY <1>g DEF accessVars, Cached, FanTypeOK
\* Whoever is refused was owed nothing.
<1>r. ASSUME NEW s \in Sockets, s \notin fan.owed, fan' = Refused(s),
             fan.pc \in {"rooms", "users"}, fan.cur \subseteq {s}
      PROVE  /\ fan' \in FanRecord /\ fan'.banned = fan.banned /\ fan'.owed = fan.owed
             /\ fan'.cur = {} /\ fan'.sent = fan.sent /\ Awaited'
  <2>1. /\ fan' \in FanRecord /\ fan'.banned = fan.banned /\ fan'.owed = fan.owed
        /\ fan'.cur = {} /\ fan'.sent = fan.sent /\ fan'.todo = fan.todo \ {s}
        /\ fan'.pc = fan.pc
    BY <1>r, <1>t DEF Refused, FanRecord
  <2> QED BY <1>r, <2>1 DEF Awaited, Reached
\* Whoever is granted access is sent to next.
<1>s. ASSUME fan' = Granted
      PROVE  /\ fan' \in FanRecord /\ fan'.banned = fan.banned /\ fan'.owed = fan.owed
             /\ fan'.cur = fan.cur /\ fan'.sent = fan.sent /\ fan'.step = "send" /\ Awaited'
  <2>1. /\ fan' \in FanRecord /\ fan'.banned = fan.banned /\ fan'.owed = fan.owed
        /\ fan'.cur = fan.cur /\ fan'.sent = fan.sent /\ fan'.todo = fan.todo
        /\ fan'.pc = fan.pc /\ fan'.step = "send"
    BY <1>s, <1>t DEF Granted, FanRecord
  <2> QED BY <2>1 DEF Awaited, Reached
<1>10. ASSUME NEW s \in Sockets, FanLoad(s) PROVE FanInv'
  <2>1. /\ UNCHANGED <<accessVars, valid, handler, registered, queue>>
        /\ fan.pc \in {"rooms", "users"} /\ fan.cur = {}
    BY <1>10 DEF FanLoad
  <2>2. CASE s \in registered \cap valid
    <3>1. fan' = [fan EXCEPT !.todo = @ \ {s}, !.cur = {s}, !.step = "read",
                      !.says = Decision(UserOf[s])]
      BY <1>10, <2>2 DEF FanLoad
    <3>2. /\ fan' \in FanRecord /\ fan'.banned = fan.banned /\ fan'.owed = fan.owed
          /\ fan'.cur = {s} /\ fan'.sent = fan.sent /\ fan'.todo = fan.todo \ {s}
          /\ fan'.pc = fan.pc /\ fan'.step = "read" /\ fan'.says = Decision(UserOf[s])
      BY <1>t, <3>1 DEF FanRecord, Decision
    <3>3. Awaited'
      BY <2>1, <3>2 DEF Awaited, Reached
    <3>4. UserOf[s] \in fan.banned => UserOf[s] \notin members
      BY DEF Barred, Cached
    <3>5. Decision(UserOf[s]) = "no" <=> UserOf[s] \notin members
      BY DEF Decision
    <3> QED BY <1>f, <1>g, <2>1, <3>2, <3>3, <3>4, <3>5 DEF Barred
  <2>3. CASE s \notin registered \cap valid
    <3>1. fan' = Refused(s)
      BY <1>10, <2>3 DEF FanLoad
    <3>2. s \notin fan.owed
      BY <2>3 DEF Entitled, Rightful
    <3> QED BY <1>f, <1>g, <1>r, <2>1, <3>1, <3>2 DEF Barred
  <2> QED BY <2>2, <2>3
\* The socket that is being checked is the only one.
<1>o. ASSUME NEW s \in Sockets, NEW x, At(s, x)
      PROVE  fan.cur = {s} /\ fan.pc \in {"rooms", "users"} /\ fan.step = x /\ s \in fan.cur
  BY <1>o DEF At, Awaited
<1>25. ASSUME NEW s \in Sockets, FanHit(s) PROVE FanInv'
  <2>1. UNCHANGED <<accessVars, valid, handler, registered, queue>> /\ At(s, "read")
    BY <1>25 DEF FanHit
  <2>2. fan.cur = {s} /\ fan.pc \in {"rooms", "users"} /\ fan.step = "read"
    BY <1>o, <2>1
  <2>3. CASE cache[UserOf[s]] = "yes" /\ fan' = Granted
    <3>1. UserOf[s] \in fan.banned => UserOf[s] \in stale
      BY <2>3 DEF Barred, Cached
    <3> QED BY <1>f, <1>g, <1>s, <2>1, <2>2, <2>3, <3>1 DEF Barred
  <2>4. CASE cache[UserOf[s]] = "no" /\ fan' = Refused(s)
    <3>1. s \notin fan.owed
      BY <2>4 DEF Entitled, Rightful, Cached
    <3> QED BY <1>f, <1>g, <1>r, <2>1, <2>2, <2>4, <3>1 DEF Barred
  <2> QED BY <1>25, <2>3, <2>4 DEF FanHit
<1>26. ASSUME NEW s \in Sockets, FanMiss(s) PROVE FanInv'
  <2>1. UNCHANGED <<accessVars, valid, handler, registered, queue>> /\ At(s, "read")
    BY <1>26 DEF FanMiss
  <2>2. fan.cur = {s} /\ fan.pc \in {"rooms", "users"} /\ fan.step = "read"
    BY <1>o, <2>1
  <2>3. /\ fan' \in FanRecord /\ fan'.banned = fan.banned /\ fan'.owed = fan.owed
        /\ fan'.cur = fan.cur /\ fan'.sent = fan.sent /\ fan'.todo = fan.todo
        /\ fan'.pc = fan.pc /\ fan'.step = "fill" /\ fan'.says = fan.says
    BY <1>26, <1>t DEF FanMiss, FanRecord
  <2>4. Awaited'
    BY <2>3 DEF Awaited, Reached
  <2> QED BY <1>f, <1>g, <2>1, <2>2, <2>3, <2>4 DEF Barred
<1>27. ASSUME NEW s \in Sockets, FanFill(s) PROVE FanInv'
  <2> DEFINE u == UserOf[s]
  <2>1. /\ UNCHANGED <<members, removed, valid, handler, registered, queue>> /\ At(s, "fill")
        /\ fan' = IF fan.says = "yes" THEN Granted ELSE Refused(s)
        /\ \/ /\ cache' = [cache EXCEPT ![u] = fan.says]
              /\ stale' = IF fan.says = "yes" THEN Outlives(u) ELSE stale
           \/ UNCHANGED <<cache, stale>>
    BY <1>27 DEF FanFill
  <2>2. fan.cur = {s} /\ fan.pc \in {"rooms", "users"} /\ fan.step = "fill"
    BY <1>o, <2>1
  <2>3. fan.says \in {"yes", "no"} /\ u \in People
    BY <1>t, <1>p DEF FanRecord
  <2>4. fan.says = "no" => u \notin members
    BY <2>2 DEF Barred
  <2>5. /\ cache' \in [People -> {"none", "yes", "no"}] /\ stale \subseteq stale'
        /\ Cached'
    BY <2>1, <2>3, <2>4 DEF Cached, FanTypeOK, Outlives
  <2>6. CASE fan.says = "yes"
    <3>1. u \in fan.banned => u \in stale
      BY <2>2, <2>6 DEF Barred
    <3> QED BY <1>f, <1>s, <2>1, <2>2, <2>5, <2>6, <3>1 DEF Barred
  <2>7. CASE fan.says = "no"
    <3>1. s \notin fan.owed
      BY <2>4, <2>7 DEF Entitled, Rightful
    <3> QED BY <1>f, <1>r, <2>1, <2>2, <2>5, <2>7, <3>1 DEF Barred
  <2> QED BY <2>3, <2>6, <2>7
<1>11. ASSUME NEW s \in Sockets, FanCheckFails(s) PROVE FanInv'
  <2>1. /\ fan' \in FanRecord /\ fan'.banned = fan.banned /\ fan'.owed = fan.owed \ {s}
        /\ fan.cur = {} /\ fan'.cur = {} /\ fan'.sent = fan.sent /\ fan'.todo = fan.todo \ {s}
        /\ fan'.pc = fan.pc /\ fan.pc \in {"rooms", "users"}
    BY <1>11, <1>t DEF FanCheckFails, FanRecord
  <2>2. Awaited'
    BY <2>1 DEF Awaited, Reached
  <2> QED BY <1>11, <1>f, <1>g, <2>1, <2>2 DEF FanCheckFails, Barred
<1>12. ASSUME NEW s \in Sockets, FanSend(s) PROVE FanInv'
  <2>1. UNCHANGED <<accessVars, valid, handler, registered, queue>> /\ At(s, "send")
    BY <1>12 DEF FanSend
  <2>2. fan.cur = {s} /\ fan.pc \in {"rooms", "users"} /\ fan.step = "send"
    BY <1>o, <2>1
  <2>3. UserOf[s] \in fan.banned => UserOf[s] \in stale
    BY <2>2 DEF Barred
  <2>4. CASE handler[s] = "open"
    <3>1. fan' = [fan EXCEPT !.cur = {}, !.step = "load", !.sent = @ \cup {s}]
      BY <1>12, <2>4 DEF FanSend
    <3>2. /\ fan' \in FanRecord /\ fan'.cur = {} /\ fan'.sent = fan.sent \cup {s}
          /\ fan'.pc = fan.pc /\ fan'.todo = fan.todo /\ fan'.banned = fan.banned
          /\ fan'.owed = fan.owed
      BY <1>t, <3>1 DEF FanRecord
    <3>3. Awaited'
      BY <2>2, <3>2 DEF Awaited, Reached
    <3> QED BY <1>f, <1>g, <2>1, <2>3, <3>2, <3>3 DEF Barred
  <2>5. CASE handler[s] # "open"
    <3>1. fan' = [fan EXCEPT !.cur = {}, !.step = "load", !.bad = @ \cup {s}]
      BY <1>12, <2>5 DEF FanSend, AfterDead
    <3>2. s \notin fan.owed
      BY <2>5 DEF Entitled, Rightful
    <3>3. /\ fan' \in FanRecord /\ fan'.cur = {} /\ fan'.sent = fan.sent
          /\ fan'.pc = fan.pc /\ fan'.todo = fan.todo /\ fan'.banned = fan.banned
          /\ fan'.owed = fan.owed
      BY <1>t, <3>1 DEF FanRecord
    <3>4. Awaited'
      BY <2>2, <3>2, <3>3 DEF Awaited, Reached
    <3> QED BY <1>f, <1>g, <2>1, <3>3, <3>4 DEF Barred
  <2> QED BY <2>4, <2>5
<1>13. CASE FanUsers
  <2>1. fan' = [fan EXCEPT !.pc = "users", !.todo = registered \cap UserSockets]
    BY <1>13 DEF FanUsers
  <2>2. fan.owed \subseteq registered /\ fan.owed \subseteq RoomSockets \cup UserSockets
    BY <1>t DEF Entitled, Rightful, FanRecord, Sockets
  <2>3. /\ fan' \in FanRecord /\ fan'.pc = "users" /\ fan'.todo = registered \cap UserSockets
        /\ fan.cur = {} /\ fan'.cur = {} /\ fan'.sent = fan.sent /\ fan'.banned = fan.banned
        /\ fan'.owed = fan.owed
    BY <1>13, <1>t, <2>1 DEF FanUsers, FanRecord, Phases, Sockets
  <2>4. Awaited'
    BY <1>13, <2>2, <2>3 DEF FanUsers, Awaited, Reached
  <2> QED BY <1>13, <1>f, <1>g, <2>3, <2>4 DEF FanUsers, Barred
<1>14. CASE FanClose
  <2>1. /\ fan' \in FanRecord /\ fan'.banned = fan.banned /\ fan'.owed = fan.owed
        /\ fan.cur = {} /\ fan'.cur = {} /\ fan'.sent = fan.sent /\ fan.todo = {}
        /\ fan'.pc = "close" /\ fan.pc = "users"
    BY <1>14, <1>t DEF FanClose, FanRecord, Phases
  <2>2. Awaited'
    BY <2>1 DEF Awaited, Reached
  <2> QED BY <1>14, <1>f, <1>g, <2>1, <2>2 DEF FanClose, Barred
<1>15. ASSUME NEW s \in Sockets, FanDrop(s) PROVE FanInv'
  <2>1. /\ queue' \in Seq(Event) /\ Len(queue') = Len(queue)
        /\ \A i \in 1..Len(queue) : /\ queue'[i].banned = queue[i].banned
                                    /\ queue'[i].owed = queue[i].owed \ {s}
    BY <1>15, QueueSettled DEF FanDrop
  <2>2. /\ fan' \in FanRecord /\ fan'.owed = fan.owed \ {s} /\ fan'.pc = fan.pc
        /\ fan'.cur = fan.cur /\ fan'.sent = fan.sent /\ fan'.banned = fan.banned
        /\ fan'.step = fan.step /\ fan'.says = fan.says /\ fan.pc = "close"
    BY <1>15, <1>t DEF FanDrop, FanRecord
  <2>3. UNCHANGED <<members, removed, cache, stale, valid>> /\ registered' = registered \ {s}
        /\ handler' \in [Sockets -> {"new", "admitted", "open", "closing", "closed"}]
        /\ \A t \in Sockets \ {s} : handler'[t] = handler[t]
    BY <1>15 DEF FanDrop, FanTypeOK, accessVars
  <2>4. \A t \in Sockets : Rightful(t) /\ t # s => Rightful(t)'
    BY <2>3 DEF Rightful
  <2>5. FanTypeOK' /\ Cached' /\ Barred' /\ Awaited'
    BY <2>1, <2>2, <2>3 DEF FanTypeOK, Cached, Barred, Awaited, Reached
  <2>6. Entitled'
    BY <1>t, <2>1, <2>2, <2>4 DEF Entitled, FanRecord, Event
  <2> QED BY <2>5, <2>6
<1>16. CASE FanDone
  <2>1. /\ fan' = Resting /\ Resting \in FanRecord
        /\ UNCHANGED <<members, removed, cache, stale, valid, handler, registered, queue>>
    BY <1>16 DEF FanDone, Resting, FanRecord, Phases, accessVars
  <2> QED BY <1>t, <2>1
          DEF FanTypeOK, Cached, Barred, Entitled, Awaited, Reached, Resting, Rightful, Event
<1>17. CASE ListenerRestarts
  <2>1. queue' = <<>> /\ UNCHANGED <<members, removed, cache, stale, valid, handler, registered, fan>>
    BY <1>17 DEF ListenerRestarts, accessVars
  <2> QED BY <2>1 DEF FanTypeOK, Cached, Barred, Entitled, Awaited, Reached, Rightful
<1>18. CASE UNCHANGED fanVars
  BY <1>18 DEF fanVars, accessVars, FanTypeOK, Cached, Barred, Entitled, Awaited, Reached, Rightful
<1> QED BY <1>1, <1>2, <1>3, <1>4, <1>5, <1>6, <1>7, <1>8, <1>9, <1>10, <1>11, <1>12, <1>13,
           <1>14, <1>15, <1>16, <1>17, <1>18, <1>19, <1>20, <1>21, <1>22, <1>23, <1>24, <1>25,
           <1>26, <1>27
        DEF FanNext, Listen

\* Whatever handshakes, checks, removals and fan-outs overlap, an event
\* published after a user's removal reaches a socket of that user only by a yes
\* that was cached too late, or that the removal could not delete.
THEOREM OnlyStaleLeaks == FanSpec => []LeaksAreStale
<1>1. FanInv => LeaksAreStale
  BY DEF FanInv, Barred, LeaksAreStale
<1> QED BY <1>1, FanInitInv, FanStepInv, PTL DEF FanSpec

\* Whatever sockets close or are expelled during a fan-out, all that had and
\* kept the right to the event are served.
THEOREM AllAreServed == FanSpec => []EveryoneIsServed
<1>1. FanInv => EveryoneIsServed
  BY DEF FanInv, Awaited, EveryoneIsServed
<1> QED BY <1>1, FanInitInv, FanStepInv, PTL DEF FanSpec
=============================================================================
