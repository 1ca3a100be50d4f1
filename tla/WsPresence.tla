----------------------------- MODULE WsPresence -----------------------------
(***************************************************************************)
(* Presence of one user in one room: the handler of each of the user's     *)
(* connections, the manager's contexts, and in Dragonfly per connection a  *)
(* key (what get_user_presence scans) and an entry in the room's sorted    *)
(* set (what list_room_online_users lists), both with a lifetime.  Another *)
(* task, the fan-out of room events, may close a connection that has lost  *)
(* its rights at any time.                                                 *)
(*                                                                         *)
(* Time passes in units; backend calls take less than one.                 *)
(***************************************************************************)
EXTENDS Naturals

CONSTANTS
    Conns,          \* connections of the user
    Idle,           \* idle_timeout_seconds, in units
    Ttl             \* presence_ttl_seconds, in units

ASSUME PresenceAssumption ==
    Conns # {} /\ Idle \in Nat \ {0} /\ Ttl \in Nat /\ Ttl > Idle

VARIABLES
    conn,           \* [Conns -> where the handler is]
    contexts,       \* connections with a context in the manager
    clearing,       \* [Conns -> how far clear_ws_presence is]
    key,            \* [Conns -> units left of the presence key]
    entry,          \* [Conns -> units left of the sorted-set entry]
    quiet,          \* [Conns -> units since the last event received]
    lastSeen,       \* last_seen is set
    failing,        \* history: [Conns -> "no"; "now", the last set or touch failed;
                    \*  "past", an earlier one did; "clear", the clearing failed]
    noisy,          \* history: connections that sent events of no known type
    ghosts,         \* history: presence was written without a context
    crashed         \* history: the process died

presVars == <<conn, contexts, clearing, key, entry, quiet, lastSeen,
             failing, noisy, ghosts, crashed>>

Zero == [c \in Conns |-> 0]

PresInit ==
    /\ conn = [c \in Conns |-> "none"]
    /\ contexts = {}
    /\ clearing = [c \in Conns |-> "no"]
    /\ key = Zero /\ entry = Zero /\ quiet = Zero
    /\ lastSeen = FALSE
    /\ failing = [c \in Conns |-> "no"]
    /\ noisy = {} /\ ghosts = FALSE /\ crashed = FALSE

ConnStep(c, from, to) == conn[c] = from /\ conn' = [conn EXCEPT ![c] = to]
Haunt(c) == ghosts' = (ghosts \/ c \notin contexts)

\* manager.connect: accepted and registered, presence follows.
Connect(c) ==
    /\ ConnStep(c, "none", "accepted")
    /\ contexts' = contexts \cup {c}
    /\ UNCHANGED <<clearing, key, entry, quiet, lastSeen, noisy, ghosts, crashed, failing>>

\* set_ws_presence: the keys, then the entry.
SetPresence(c) ==
    /\ ConnStep(c, "accepted", "open")
    /\ key' = [key EXCEPT ![c] = Ttl]
    /\ entry' = [entry EXCEPT ![c] = Ttl]
    /\ Haunt(c)
    /\ UNCHANGED <<contexts, clearing, quiet, lastSeen, noisy, crashed, failing>>

\* A call that fails has done the first of its writes or none, each with or
\* without being told; the policy is open, so the connection goes on.
Partly(c, k, e) ==
    \/ UNCHANGED <<key, entry>>
    \/ key' = [key EXCEPT ![c] = k] /\ entry' \in {entry, [entry EXCEPT ![c] = e]}

CallFails(c) == failing' = [failing EXCEPT ![c] = IF @ = "clear" THEN @ ELSE "now"]

SetPresenceFails(c) ==
    /\ ConnStep(c, "accepted", "open")
    /\ Partly(c, Ttl, Ttl)
    /\ CallFails(c)
    /\ Haunt(c)
    /\ UNCHANGED <<contexts, clearing, quiet, lastSeen, noisy, crashed>>

\* Mutant: an event of the client does not lead to a touch.
ReceiveOnly(c) ==
    /\ conn[c] = "open" /\ c \in contexts /\ quiet[c] > 0
    /\ quiet' = [quiet EXCEPT ![c] = 0]
    /\ UNCHANGED <<conn, contexts, clearing, key, entry, lastSeen, noisy, ghosts, crashed, failing>>

\* A valid event: the handler has found the context and goes on to touch.
\* Events within one unit count as one.
Receive(c) ==
    /\ c \in contexts /\ quiet[c] > 0
    /\ ConnStep(c, "open", "touching")
    /\ quiet' = [quiet EXCEPT ![c] = 0]
    /\ UNCHANGED <<contexts, clearing, key, entry, lastSeen, noisy, ghosts, crashed, failing>>

\* An event of no known type counts as activity, but nothing is touched.
ReceiveInvalid(c) ==
    /\ conn[c] = "open" /\ c \in contexts
    /\ quiet' = [quiet EXCEPT ![c] = 0]
    /\ noisy' = noisy \cup {c}
    /\ UNCHANGED <<conn, contexts, clearing, key, entry, lastSeen, ghosts, crashed, failing>>

\* EXPIRE renews an existing key, ZADD adds the entry in any case.
Renewed(c) == IF key[c] > 0 THEN Ttl ELSE 0

Touch(c) ==
    /\ ConnStep(c, "touching", "open")
    /\ key' = [key EXCEPT ![c] = Renewed(c)]
    /\ entry' = [entry EXCEPT ![c] = Ttl]
    /\ failing' = [failing EXCEPT ![c] = IF @ = "now" THEN "past" ELSE @]
    /\ Haunt(c)
    /\ UNCHANGED <<contexts, clearing, quiet, lastSeen, noisy, crashed>>

TouchFails(c) ==
    /\ ConnStep(c, "touching", "open")
    /\ Partly(c, Renewed(c), Ttl)
    /\ CallFails(c)
    /\ Haunt(c)
    /\ UNCHANGED <<contexts, clearing, quiet, lastSeen, noisy, crashed>>

\* The client disconnects, the idle time-out passes, or the socket was closed
\* by the fan-out: the loop ends.
Leave(c) ==
    /\ ConnStep(c, "open", "closing")
    /\ UNCHANGED <<contexts, clearing, key, entry, quiet, lastSeen, noisy, ghosts, crashed, failing>>

\* disconnect: whoever pops the context clears presence.
PopContext(c) ==
    /\ contexts' = contexts \ {c}
    /\ clearing' = IF c \in contexts THEN [clearing EXCEPT ![c] = "keys"] ELSE clearing

\* The finally clause of the handler.
Disconnect(c) ==
    /\ ConnStep(c, "closing", "gone")
    /\ PopContext(c)
    /\ UNCHANGED <<key, entry, quiet, lastSeen, noisy, ghosts, crashed, failing>>

\* _close_unauthorized_socket, by the fan-out.
Kick(c) ==
    /\ c \in contexts
    /\ PopContext(c)
    /\ UNCHANGED <<conn, key, entry, quiet, lastSeen, noisy, ghosts, crashed, failing>>

\* Mutant: the scan comes before the deletion.
ClearKeysLate(c) ==
    /\ clearing[c] = "keys"
    /\ clearing' = [clearing EXCEPT ![c] = "no"]
    /\ lastSeen' = (lastSeen \/ key = Zero)
    /\ key' = [key EXCEPT ![c] = 0]
    /\ entry' = [entry EXCEPT ![c] = 0]
    /\ UNCHANGED <<conn, contexts, quiet, noisy, ghosts, crashed, failing>>

\* clear_ws_presence: first the key and the entry ...
ClearKeys(c) ==
    /\ clearing[c] = "keys"
    /\ clearing' = [clearing EXCEPT ![c] = "scan"]
    /\ key' = [key EXCEPT ![c] = 0]
    /\ entry' = [entry EXCEPT ![c] = 0]
    /\ UNCHANGED <<conn, contexts, quiet, lastSeen, noisy, ghosts, crashed, failing>>

\* ... then the scan for remaining keys, which decides on last_seen.
ScanRemaining(c) ==
    /\ clearing[c] = "scan"
    /\ clearing' = [clearing EXCEPT ![c] = "no"]
    /\ lastSeen' = (lastSeen \/ key = Zero)
    /\ UNCHANGED <<conn, contexts, key, entry, quiet, noisy, ghosts, crashed, failing>>

\* One of these calls fails: what is left of the clearing is not done, and the
\* failure is logged.  last_seen may have been written all the same.
ClearFails(c) ==
    /\ \/ clearing[c] = "keys" /\ Partly(c, 0, 0) /\ UNCHANGED lastSeen
       \/ /\ clearing[c] = "scan" /\ UNCHANGED <<key, entry>>
          /\ lastSeen' \in {lastSeen, lastSeen \/ key = Zero}
    /\ clearing' = [clearing EXCEPT ![c] = "no"]
    /\ failing' = [failing EXCEPT ![c] = "clear"]
    /\ UNCHANGED <<conn, contexts, quiet, noisy, ghosts, crashed>>

\* The process dies; what is in Dragonfly stays.
CrashAll ==
    /\ ~crashed
    /\ crashed' = TRUE
    /\ conn' = [c \in Conns |-> IF conn[c] = "none" THEN "none" ELSE "gone"]
    /\ contexts' = {}
    /\ clearing' = [c \in Conns |-> "no"]
    /\ UNCHANGED <<key, entry, quiet, lastSeen, noisy, ghosts, failing>>

Less(f) == [c \in Conns |-> IF f[c] = 0 THEN 0 ELSE f[c] - 1]

\* Mutant: entries of the sorted set are never dropped.
EntriesStay == entry

\* list_room_online_users drops the entries whose time has come.
EntriesAge == Less(entry)

\* No call is under way, and no connection is past its idle time-out.
TimePasses ==
    /\ \A c \in Conns : conn[c] \in {"none", "gone"} \/ (conn[c] = "open" /\ quiet[c] < Idle)
    /\ \A c \in Conns : clearing[c] = "no"
    /\ key' = Less(key)
    /\ entry' = EntriesAge
    /\ quiet' = [c \in Conns |-> IF conn[c] = "open" THEN quiet[c] + 1 ELSE quiet[c]]
    /\ UNCHANGED <<conn, contexts, clearing, lastSeen, noisy, ghosts, crashed, failing>>

\* What the handler of a connection, or the fan-out for it, does next.
HandlerStep(c) ==
    \/ SetPresence(c) \/ SetPresenceFails(c) \/ Touch(c) \/ TouchFails(c)
    \/ (quiet[c] >= Idle /\ Leave(c)) \/ Disconnect(c)
    \/ ClearKeys(c) \/ ScanRemaining(c) \/ ClearFails(c)

PresNext ==
    \/ \E c \in Conns :
        \/ Connect(c) \/ Receive(c) \/ ReceiveInvalid(c) \/ Leave(c) \/ Kick(c)
        \/ HandlerStep(c)
    \/ CrashAll \/ TimePasses

PresSpec == PresInit /\ [][PresNext]_presVars

-----------------------------------------------------------------------------
\* A client that keeps its connection, answering pings with chat.pong or
\* sending other valid events, is online in the room and as a user: the idle
\* time-out closes a connection before its presence can lapse.  Failed calls
\* are the exception: the room lists the client again after the next touch
\* that succeeds, but a key that was not written, or lapsed, stays away.
ConnectedIsOnline ==
    \A c \in contexts \ noisy : conn[c] = "open" =>
        /\ failing[c] # "now" => entry[c] > 0
        /\ failing[c] = "no" => key[c] > 0

\* A user whose connections are all closed has a last_seen, unless the process
\* died, a clearing failed, or a write of presence raced the end of its
\* connection: of several connections that close at once, one finds that it
\* was the last.
LastSeenIsKept ==
    ~crashed /\ ~ghosts /\ (\A c \in Conns : conn[c] = "gone" /\ clearing[c] = "no")
        => lastSeen \/ \E c \in Conns : failing[c] = "clear"

\* Presence does not outlive its connection for good, though a touch that
\* races the end of the connection, or a crash, leaves it behind.
GhostsVanish == \A c \in Conns : conn[c] = "gone" ~> key[c] = 0 /\ entry[c] = 0
=============================================================================
