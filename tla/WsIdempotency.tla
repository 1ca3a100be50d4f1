---------------------------- MODULE WsIdempotency ----------------------------
(***************************************************************************)
(* chat.message.create events of one user in one room that carry the same  *)
(* idempotency key: a client that got no answer sends the event again, on  *)
(* the same or another connection, to the same or another process.  Each   *)
(* delivery takes the key's lock, looks the key up, sends, stores the      *)
(* message id under the key, and releases the lock.  Dragonfly fails open  *)
(* here (ws_pubsub, the default): a delivery goes on without the lock,     *)
(* without the stored id, or without storing it.                           *)
(***************************************************************************)
EXTENDS Naturals

CONSTANTS
    Deliveries,     \* slots for concurrent deliveries of the event
    Unlocked,       \* no holder
    MaxSent,        \* bound: messages sent
    MaxMishaps      \* bound: failures and time-outs

ASSUME DeliveriesAssumption ==
    Unlocked \notin Deliveries /\ MaxSent \in Nat /\ MaxMishaps \in Nat

VARIABLES
    keyLock,        \* the delivery that holds the lock, TTL 5 seconds
    stored,         \* the message id under the key, 0 for none, TTL 300 seconds
    sent,           \* messages sent for the key; also the id of the last
    delivery,       \* [Deliveries -> where the delivery is]
    mishaps         \* history: failures and time-outs that weaken the key

sendVars == <<keyLock, stored, sent, delivery, mishaps>>

DeliveryAt(pc, id) == [pc |-> pc, id |-> id]
Ready == DeliveryAt("free", 0)
DPc(d) == delivery[d].pc
Move(d, state) == delivery' = [delivery EXCEPT ![d] = state]
Mishap == mishaps < MaxMishaps /\ mishaps' = mishaps + 1

SendInit ==
    /\ keyLock = Unlocked
    /\ stored = 0
    /\ sent = 0
    /\ delivery = [d \in Deliveries |-> Ready]
    /\ mishaps = 0

\* SET NX; a second delivery is answered "idempotency_in_progress".
Acquire(d) ==
    /\ DPc(d) = "free"
    /\ keyLock = Unlocked
    /\ keyLock' = d
    /\ Move(d, DeliveryAt("lookup", 0))
    /\ UNCHANGED <<stored, sent, mishaps>>

\* The backend fails: the bypass token, which no lock carries.
Bypass(d) ==
    /\ DPc(d) = "free" /\ keyLock # d
    /\ Mishap
    /\ Move(d, DeliveryAt("lookup", 0))
    /\ UNCHANGED <<keyLock, stored, sent>>

\* Mutant: a stored id is not looked at.
LookupBlind(d) ==
    /\ DPc(d) = "lookup"
    /\ Move(d, DeliveryAt("send", 0))
    /\ UNCHANGED <<keyLock, stored, sent, mishaps>>

\* A stored id is answered with the message it names.
Lookup(d) ==
    /\ DPc(d) = "lookup"
    /\ Move(d, DeliveryAt(IF stored # 0 THEN "release" ELSE "send", 0))
    /\ UNCHANGED <<keyLock, stored, sent, mishaps>>

LookupFails(d) ==
    /\ DPc(d) = "lookup"
    /\ Mishap
    /\ Move(d, DeliveryAt("send", 0))
    /\ UNCHANGED <<keyLock, stored, sent>>

SendMessage(d) ==
    /\ DPc(d) = "send" /\ sent < MaxSent
    /\ sent' = sent + 1
    /\ Move(d, DeliveryAt("store", sent'))
    /\ UNCHANGED <<keyLock, stored, mishaps>>

\* The service raises and has undone what it did; the client gets an error.
SendRaises(d) ==
    /\ DPc(d) = "send"
    /\ Move(d, DeliveryAt("release", 0))
    /\ UNCHANGED <<keyLock, stored, sent, mishaps>>

\* set_ws_idempotency_message_id, then the delivery events.
Store(d) ==
    /\ DPc(d) = "store"
    /\ stored' = delivery[d].id
    /\ Move(d, DeliveryAt("release", 0))
    /\ UNCHANGED <<keyLock, sent, mishaps>>

\* The message is in, but a later call of send raises, or the backend fails:
\* the id is not stored.
StoreFails(d) ==
    /\ DPc(d) = "store"
    /\ Mishap
    /\ Move(d, DeliveryAt("release", 0))
    /\ UNCHANGED <<keyLock, stored, sent>>

\* The finally clause: the script deletes the lock of this delivery only.
ReleaseKey(d) ==
    /\ DPc(d) = "release"
    /\ keyLock' = IF keyLock = d THEN Unlocked ELSE keyLock
    /\ Move(d, Ready)
    /\ UNCHANGED <<stored, sent, mishaps>>

\* The process dies; the lock stays.
Die(d) ==
    /\ DPc(d) # "free"
    /\ IF DPc(d) = "store" THEN Mishap ELSE UNCHANGED mishaps
    /\ Move(d, Ready)
    /\ UNCHANGED <<keyLock, stored, sent>>

\* Mutant: the lock has no TTL.
KeyLockForever == keyLock # Unlocked /\ UNCHANGED sendVars

\* The TTL of the lock passes, under a delivery that is still busy or not.
KeyLockExpires ==
    /\ keyLock # Unlocked
    /\ IF DPc(keyLock) = "free" THEN UNCHANGED mishaps ELSE Mishap
    /\ keyLock' = Unlocked
    /\ UNCHANGED <<stored, sent, delivery>>

StoredExpires ==
    /\ stored # 0
    /\ Mishap
    /\ stored' = 0
    /\ UNCHANGED <<keyLock, sent, delivery>>

Handle(d) ==
    \/ Lookup(d) \/ SendMessage(d) \/ SendRaises(d) \/ Store(d) \/ ReleaseKey(d)

SendNext ==
    \/ \E d \in Deliveries :
        \/ Acquire(d) \/ Handle(d)
        \/ Bypass(d) \/ LookupFails(d) \/ StoreFails(d) \/ Die(d)
    \/ KeyLockExpires \/ StoredExpires

SendSpec == SendInit /\ [][SendNext]_sendVars

-----------------------------------------------------------------------------
\* Deliveries, lock and key stay in their types.
SendTypeOK ==
    /\ keyLock \in Deliveries \cup {Unlocked}
    /\ stored \in 0..MaxSent /\ sent \in 0..MaxSent /\ mishaps \in 0..MaxMishaps
    /\ delivery \in [Deliveries ->
           [pc : {"free", "lookup", "send", "store", "release"}, id : 0..MaxSent]]

\* "idempotency prevents duplicate messages" (tests/api/test_websocket.py:528):
\* however often and however concurrently the event is delivered, a key sends
\* one message, and every failure, death, lapsed lock or lapsed key adds at
\* most one more.
DuplicatesAreMishaps == sent <= 1 + mishaps

\* The key is not blocked for good by a delivery that died: its lock is given
\* up or expires, so a retry is not answered "idempotency_in_progress" for ever.
KeyIsFreed == keyLock # Unlocked ~> keyLock = Unlocked
=============================================================================
