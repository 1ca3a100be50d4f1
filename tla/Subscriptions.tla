---------------------------- MODULE Subscriptions ----------------------------
(***************************************************************************)
(* The subscription document of one user (SubscriptionService): activated  *)
(* for a number of days, cancelled, and expired by whoever reads it after  *)
(* its period.  Every write saves a whole document loaded before.          *)
(***************************************************************************)
EXTENDS Naturals

CONSTANTS
    Readers,        \* slots for requests
    NoSub,          \* no document
    Days,           \* lengths of a period
    MaxDay          \* bound on the clock

ASSUME DaysAssumption == Days \subseteq Nat \ {0} /\ MaxDay \in Nat

VARIABLES
    today,          \* the clock, in days
    sub,            \* the document
    subReq          \* [Readers -> [pc, doc]: what the request will save]

subVars == <<today, sub, subReq>>

Sub(status, end) == [status |-> status, end |-> end]
Waiting == [pc |-> "free", doc |-> NoSub]
Pending(h, pc, doc) ==
    /\ subReq[h] = Waiting
    /\ subReq' = [subReq EXCEPT ![h] = [pc |-> pc, doc |-> doc]]
Finish(h) == subReq' = [subReq EXCEPT ![h] = Waiting]

SubInit ==
    /\ today = 1
    /\ sub = NoSub
    /\ subReq = [h \in Readers |-> Waiting]

Active == sub # NoSub /\ sub.status = "active"
Lapsed == Active /\ sub.end <= today

\* get_active_subscription of a period that is over, from any caller.
LoadLapsed(h) ==
    /\ Lapsed
    /\ Pending(h, "expire", Sub("expired", sub.end))
    /\ UNCHANGED <<today, sub>>

\* cancel_subscription of one that is not.
LoadCancel(h) ==
    /\ Active /\ ~Lapsed
    /\ Pending(h, "cancel", Sub("canceled", sub.end))
    /\ UNCHANGED <<today, sub>>

\* activate_subscription.
LoadActivate(h, d) ==
    /\ Pending(h, IF sub = NoSub THEN "insert" ELSE "renew", Sub("active", today + d))
    /\ UNCHANGED <<today, sub>>

\* Mutant: expiry updates the status alone.
StoreDocStatus(h) ==
    sub' = IF subReq[h].pc = "expire" THEN [sub EXCEPT !.status = "expired"] ELSE subReq[h].doc

StoreDoc(h) == sub' = subReq[h].doc

\* save: the whole document, whatever has happened to the stored one.
SubSave(h) ==
    /\ subReq[h].pc \in {"expire", "cancel", "renew"}
    /\ StoreDoc(h)
    /\ Finish(h)
    /\ UNCHANGED today

\* insert: the unique index on user_id refuses a second document.
SubInsert(h) ==
    /\ subReq[h].pc = "insert"
    /\ sub' = IF sub = NoSub THEN subReq[h].doc ELSE sub
    /\ Finish(h)
    /\ UNCHANGED today

\* The request ends before its save.
SubFails(h) == subReq[h] # Waiting /\ Finish(h) /\ UNCHANGED <<today, sub>>

DayPasses == today < MaxDay /\ today' = today + 1 /\ UNCHANGED <<sub, subReq>>

SubNext ==
    \/ \E h \in Readers :
        \/ LoadLapsed(h) \/ LoadCancel(h) \/ SubSave(h) \/ SubInsert(h) \/ SubFails(h)
        \/ \E d \in Days : LoadActivate(h, d)
    \/ DayPasses

SubSpec == SubInit /\ [][SubNext]_subVars

-----------------------------------------------------------------------------
\* A document is marked expired only when its own period is over, however
\* expiry, renewal and cancellation overlap: a late expiry may undo a renewal,
\* but never leaves a running period marked expired
\* (test_get_active_subscription_expires_past_subscription).
ExpiryIsEarned == sub # NoSub /\ sub.status = "expired" => sub.end <= today
=============================================================================
