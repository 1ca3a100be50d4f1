---------------------------- MODULE WsConnections ----------------------------
(***************************************************************************)
(* The sockets of one process and the fan-out of one room's events to      *)
(* them (ConnectionManager): sockets of the room, and the per-user event   *)
(* sockets, which also get the events of every room their user can access. *)
(* Rights are lost while handshakes and fan-outs are under way.            *)
(***************************************************************************)
EXTENDS Naturals, Sequences, FiniteSets

CONSTANTS
    RoomSockets, UserSockets,
    UserOf,         \* the user of each socket
    MaxEvents       \* bound: events published

Sockets == RoomSockets \cup UserSockets
People == {UserOf[s] : s \in Sockets}

ASSUME SocketsAssumption == RoomSockets \cap UserSockets = {} /\ MaxEvents \in Nat

VARIABLES
    members,        \* users the room's document has
    removed,        \* users whose removal is past the invalidation of the cache
    cache,          \* [People -> the cached decision: "none", "yes" or "no"]
    loaded,         \* users some other check read the room with, before it fills the cache
    stale,          \* history: users for whom a yes outlived the removal
    valid,          \* sockets whose token is still accepted
    handler,        \* [Sockets -> where its handler is]
    registered,     \* sockets with a context and in their list
    queue,          \* events published and not yet fanned out
    published,      \* number of events published
    fan             \* the listener: the fan-out under way

accessVars == <<members, removed, cache, loaded, stale>>
fanVars == <<accessVars, valid, handler, registered, queue, published, fan>>

\* todo: sockets not yet visited; cur: the one being checked or sent to, with
\* the step it is at and what the room as loaded says of its user; bad: found
\* unauthorised or dead; sent: served.  An event remembers the users removed
\* before it was published (banned) and the sockets that had, and kept, every
\* right to it (owed).
Resting == [pc |-> "idle", todo |-> {}, cur |-> {}, step |-> "load", says |-> "no",
            bad |-> {}, sent |-> {}, banned |-> {}, owed |-> {}]

FanInit ==
    /\ members = People /\ removed = {} /\ loaded = {} /\ stale = {}
    /\ cache = [u \in People |-> "none"]
    /\ valid = Sockets
    /\ handler = [s \in Sockets |-> "new"]
    /\ registered = {}
    /\ queue = <<>>
    /\ published = 0
    /\ fan = Resting

HandlerStepTo(s, from, to) == handler[s] = from /\ handler' = [handler EXCEPT ![s] = to]

\* Whoever drops out is owed nothing any more.
Settle(S) ==
    /\ queue' = [i \in 1..Len(queue) |-> [queue[i] EXCEPT !.owed = @ \ S]]
    /\ fan' = [fan EXCEPT !.owed = @ \ S]

-----------------------------------------------------------------------------
(* Handlers *)

\* _user_has_room_access on a room loaded now: a cached decision is believed.
Decision(u) == IF u \in members THEN "yes" ELSE "no"
Answer(u) == IF cache[u] = "none" THEN Decision(u) ELSE cache[u]
HasAccess(s) == Answer(UserOf[s]) = "yes"

\* handle_room_chat and handle_user_events up to the last check.
Handshake(s) ==
    /\ s \in valid
    /\ s \in RoomSockets => HasAccess(s)
    /\ HandlerStepTo(s, "new", "admitted")
    /\ UNCHANGED <<accessVars, valid, registered, queue, published, fan>>

\* connect, connect_user: after the accept, whatever happened meanwhile.
RegisterSocket(s) ==
    /\ HandlerStepTo(s, "admitted", "open")
    /\ registered' = registered \cup {s}
    /\ UNCHANGED <<accessVars, valid, queue, published, fan>>

\* Mutant: only the token is looked at.
MayStayToken(s) == s \in registered /\ s \in valid

\* ensure_connection_authorized, on every event a client sends.
MayStay(s) == s \in registered /\ s \in valid /\ (s \in RoomSockets => HasAccess(s))

\* A client that may not stay is closed with 1008 when it sends something,
\* and closed for idleness when it does not.
Expel(s) ==
    /\ ~MayStay(s)
    /\ HandlerStepTo(s, "open", "closing")
    /\ UNCHANGED <<accessVars, valid, registered, queue, published, fan>>

\* The client goes away, or stays silent too long.
HangUp(s) ==
    /\ HandlerStepTo(s, "open", "closing")
    /\ Settle({s})
    /\ UNCHANGED <<accessVars, valid, registered, published>>

\* The finally clause.
Unregister(s) ==
    /\ HandlerStepTo(s, "closing", "closed")
    /\ registered' = registered \ {s}
    /\ UNCHANGED <<accessVars, valid, queue, published, fan>>

-----------------------------------------------------------------------------
(* Rights *)

restVars == <<valid, handler, registered, published>>

\* remove_group_member: the document first ...
Pull(u) ==
    /\ u \in members
    /\ members' = members \ {u}
    /\ Settle({s \in Sockets : UserOf[s] = u})
    /\ UNCHANGED <<removed, cache, loaded, stale, restVars>>

\* Mutant: the update of the room may come after.
InvalidateEarly(u) ==
    /\ u \notin removed
    /\ removed' = removed \cup {u}
    /\ cache' = [v \in People |-> "none"]
    /\ UNCHANGED <<members, loaded, stale, queue, fan, restVars>>

\* ... then the cached decisions of the room, all users', ...
Invalidate(u) ==
    /\ u \notin members \cup removed
    /\ removed' = removed \cup {u}
    /\ cache' = [v \in People |-> "none"]
    /\ UNCHANGED <<members, loaded, stale, queue, fan, restVars>>

\* ... which stay when Dragonfly fails: its policy for them is open.
InvalidateFails(u) ==
    /\ u \notin members \cup removed
    /\ removed' = removed \cup {u}
    /\ stale' = stale \cup {u}
    /\ UNCHANGED <<members, cache, loaded, queue, fan, restVars>>

\* logout-all, or the token expires.
Revoke(u) ==
    /\ \E s \in valid : UserOf[s] = u
    /\ valid' = {s \in valid : UserOf[s] # u}
    /\ Settle({s \in Sockets : UserOf[s] = u})
    /\ UNCHANGED <<accessVars, handler, registered, published>>

-----------------------------------------------------------------------------
(* The cache of decisions, as the other checks use it: those of handshakes,   *)
(* of events received, of API requests, of other processes                    *)

\* The room is read, with the user in it ...
LoadRoom(u) ==
    /\ u \in members
    /\ loaded' = loaded \cup {u}
    /\ UNCHANGED <<members, removed, cache, stale, queue, fan, restVars>>

\* A yes that is written when the removal has already emptied the cache.
Outlives(u) == IF u \in removed \ members THEN stale \cup {u} ELSE stale

\* ... and later the decision is cached, whatever happened meanwhile.
FillYes(u) ==
    /\ u \in loaded
    /\ loaded' = loaded \ {u}
    /\ cache' = [cache EXCEPT ![u] = "yes"]
    /\ stale' = Outlives(u)
    /\ UNCHANGED <<members, removed, queue, fan, restVars>>

FillNo(u) ==
    /\ u \notin members
    /\ cache' = [cache EXCEPT ![u] = "no"]
    /\ UNCHANGED <<members, removed, loaded, stale, queue, fan, restVars>>

CacheExpires(u) ==
    /\ cache[u] # "none"
    /\ cache' = [cache EXCEPT ![u] = "none"]
    /\ UNCHANGED <<members, removed, loaded, stale, queue, fan, restVars>>

-----------------------------------------------------------------------------
(* Events *)

Rightful(s) ==
    s \in registered /\ s \in valid /\ UserOf[s] \in members /\ handler[s] = "open"

Publish ==
    /\ published < MaxEvents
    /\ published' = published + 1
    /\ queue' = Append(queue, [banned |-> removed,
                               owed |-> {s \in Sockets : Rightful(s)}])
    /\ UNCHANGED <<accessVars, valid, handler, registered, fan>>

\* _fanout_local: first the sockets of the room ...
FanStart ==
    /\ fan.pc = "idle" /\ queue # <<>>
    /\ queue' = Tail(queue)
    /\ fan' = [Resting EXCEPT !.pc = "rooms", !.todo = registered \cap RoomSockets,
                   !.banned = Head(queue).banned, !.owed = Head(queue).owed]
    /\ UNCHANGED <<accessVars, valid, handler, registered, published>>

At(s, step) == fan.pc \in {"rooms", "users"} /\ fan.step = step /\ s \in fan.cur

\* The socket is not sent to, and closed when the loops are over.
Refused(s) ==
    [fan EXCEPT !.todo = @ \ {s}, !.cur = {}, !.step = "load", !.says = "no", !.bad = @ \cup {s}]

Granted == [fan EXCEPT !.step = "send", !.says = "no"]

\* For sockets of both kinds: the context, the token, then the room.
FanLoad(s) ==
    /\ fan.pc \in {"rooms", "users"} /\ fan.cur = {} /\ s \in fan.todo
    /\ fan' = IF s \in registered \cap valid
              THEN [fan EXCEPT !.todo = @ \ {s}, !.cur = {s}, !.step = "read",
                        !.says = Decision(UserOf[s])]
              ELSE Refused(s)
    /\ UNCHANGED <<accessVars, valid, handler, registered, queue, published>>

\* A cached decision is believed ...
FanHit(s) ==
    /\ At(s, "read")
    /\ \/ cache[UserOf[s]] = "yes" /\ fan' = Granted
       \/ cache[UserOf[s]] = "no" /\ fan' = Refused(s)
    /\ UNCHANGED <<accessVars, valid, handler, registered, queue, published>>

\* ... and without one, or when Dragonfly fails (its policy is open), the room
\* as it was loaded decides ...
FanMiss(s) ==
    /\ At(s, "read")
    /\ fan' = [fan EXCEPT !.step = "fill"]
    /\ UNCHANGED <<accessVars, valid, handler, registered, queue, published>>

\* ... and is cached, unless Dragonfly fails.
FanFill(s) ==
    /\ At(s, "fill")
    /\ \/ /\ cache' = [cache EXCEPT ![UserOf[s]] = fan.says]
          /\ stale' = IF fan.says = "yes" THEN Outlives(UserOf[s]) ELSE stale
       \/ UNCHANGED <<cache, stale>>
    /\ fan' = IF fan.says = "yes" THEN Granted ELSE Refused(s)
    /\ UNCHANGED <<members, removed, loaded, valid, handler, registered, queue, published>>

\* What is stored of the tokens cannot be read (auth_state fails closed): the
\* socket counts as unauthorised.
FanCheckFails(s) ==
    /\ fan.pc \in {"rooms", "users"} /\ fan.cur = {} /\ s \in fan.todo
    /\ fan' = [fan EXCEPT !.todo = @ \ {s}, !.bad = @ \cup {s}, !.owed = @ \ {s}]
    /\ UNCHANGED <<accessVars, valid, handler, registered, queue, published>>

\* Mutant: one socket that cannot be sent to ends the loop.
AfterDeadStops(s) == [fan EXCEPT !.cur = {}, !.step = "load", !.todo = {}]

\* A socket that is gone is dropped and the loop goes on.
AfterDead(s) == [fan EXCEPT !.cur = {}, !.step = "load", !.bad = @ \cup {s}]

\* send_json after the awaits of the check.
FanSend(s) ==
    /\ At(s, "send")
    /\ fan' = IF handler[s] = "open"
              THEN [fan EXCEPT !.cur = {}, !.step = "load", !.sent = @ \cup {s}]
              ELSE AfterDead(s)
    /\ UNCHANGED <<accessVars, valid, handler, registered, queue, published>>

\* ... then those of all users; one that joins in between may miss the event.
FanUsers ==
    /\ fan.pc = "rooms" /\ fan.cur = {} /\ fan.todo = {}
    /\ fan' = [fan EXCEPT !.pc = "users", !.todo = registered \cap UserSockets]
    /\ UNCHANGED <<accessVars, valid, handler, registered, queue, published>>

FanClose ==
    /\ fan.pc = "users" /\ fan.cur = {} /\ fan.todo = {}
    /\ fan' = [fan EXCEPT !.pc = "close"]
    /\ UNCHANGED <<accessVars, valid, handler, registered, queue, published>>

\* Unauthorised sockets are closed and dropped, dead ones dropped.
FanDrop(s) ==
    /\ fan.pc = "close" /\ s \in fan.bad
    /\ registered' = registered \ {s}
    /\ handler' = [handler EXCEPT ![s] = IF @ = "open" THEN "closing" ELSE @]
    /\ queue' = [i \in 1..Len(queue) |-> [queue[i] EXCEPT !.owed = @ \ {s}]]
    /\ fan' = [fan EXCEPT !.bad = @ \ {s}, !.owed = @ \ {s}]
    /\ UNCHANGED <<accessVars, valid, published>>

FanDone ==
    /\ fan.pc = "close" /\ fan.bad = {}
    /\ fan' = Resting
    /\ UNCHANGED <<accessVars, valid, handler, registered, queue, published>>

\* The subscription breaks; until it is renewed, events pass unheard.
ListenerRestarts ==
    /\ fan.pc = "idle" /\ queue # <<>>
    /\ queue' = <<>>
    /\ UNCHANGED <<accessVars, valid, handler, registered, published, fan>>

\* _fanout_user: an event of the user's own finds the token refused, what is
\* stored of it unreadable, or the connection gone, and the socket is dropped.
FanoutUser(s) ==
    /\ s \in registered \cap UserSockets
    /\ registered' = registered \ {s}
    /\ handler' = [handler EXCEPT ![s] = IF @ = "open" THEN "closing" ELSE @]
    /\ Settle({s})
    /\ UNCHANGED <<accessVars, valid, published>>

Listen == FanStart \/ FanUsers \/ FanClose \/ FanDone
          \/ \E s \in Sockets :
                FanLoad(s) \/ FanHit(s) \/ FanMiss(s) \/ FanFill(s) \/ FanSend(s) \/ FanDrop(s)

FanNext ==
    \/ \E s \in Sockets :
        Handshake(s) \/ RegisterSocket(s) \/ Expel(s) \/ HangUp(s) \/ Unregister(s)
    \/ \E u \in People : Pull(u) \/ Invalidate(u) \/ InvalidateFails(u) \/ Revoke(u)
    \/ \E u \in People : LoadRoom(u) \/ FillYes(u) \/ FillNo(u) \/ CacheExpires(u)
    \/ \E s \in Sockets : FanCheckFails(s) \/ FanoutUser(s)
    \/ Publish \/ Listen \/ ListenerRestarts

\* The loop of a handler and the listener go on, and cached decisions expire.
FanSpec ==
    /\ FanInit /\ [][FanNext]_fanVars
    /\ WF_fanVars(Listen)
    /\ \A s \in Sockets : WF_fanVars(RegisterSocket(s) \/ Expel(s) \/ Unregister(s))
    /\ \A u \in People : WF_fanVars(CacheExpires(u))

-----------------------------------------------------------------------------
\* An event published after a user's removal reaches a socket of that user,
\* whatever handshakes and fan-outs were under way, only if a check that had
\* read the room before the removal cached its yes after it, or the removal
\* could not empty the cache: it updates the room first and the cache then.
LeaksAreStale ==
    \A s \in fan.sent : UserOf[s] \in fan.banned => UserOf[s] \in stale

\* When a fan-out is over, every socket that had the right to the event when
\* it was published, and kept it and its connection, was served: sockets that
\* close or are expelled meanwhile take nothing from the others.
EveryoneIsServed == fan.pc = "close" => fan.owed \subseteq fan.sent

\* A socket whose token was revoked, or whose user lost the room it is for, is
\* closed, even when no event is published any more: a stale yes keeps it only
\* until it expires.
RevokedIsClosed ==
    \A s \in Sockets :
        s \in registered /\ (s \notin valid \/ (s \in RoomSockets /\ UserOf[s] \notin members))
            ~> s \notin registered
=============================================================================
