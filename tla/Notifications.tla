---------------------------- MODULE Notifications ----------------------------
(***************************************************************************)
(* The notifications of a pair of users (NotificationService): created for *)
(* friend requests, mentions and invitations, read one by one or all at    *)
(* once, deleted.  mark_read loads a document and saves it whole, which    *)
(* inserts it again when it was deleted meanwhile.                         *)
(***************************************************************************)
EXTENDS Naturals, FiniteSets

CONSTANTS
    Pair,           \* the two users
    Notes,          \* ids of notifications; the bound on their number
    Markers,        \* slots for mark_read requests
    NoNote          \* no id, no document

ASSUME PairAssumption ==
    /\ \E u, v \in Pair : u # v /\ Pair = {u, v}
    /\ NoNote \notin Notes

VARIABLES
    notes,          \* [Notes -> [to, state] or NoNote]
    notify,         \* [Pair -> BOOLEAN], notify_friend_requests and the like
    marking         \* [Markers -> the id whose document was loaded, or NoNote]

noteVars == <<notes, notify, marking>>

NoteStates == {"unread", "read", "gone"}
Note(u, state) == [to |-> u, state |-> state]
Has(n, state) == notes[n] # NoNote /\ notes[n].state = state
Marked == {marking[h] : h \in Markers}

NoteInit ==
    /\ notes = [n \in Notes |-> NoNote]
    /\ notify \in [Pair -> BOOLEAN]
    /\ marking = [h \in Markers |-> NoNote]

\* create: nothing when the preference is off, and nothing beyond the bound.
CreateNote(u) ==
    /\ \/ notify[u] /\ \E n \in Notes :
            notes[n] = NoNote /\ notes' = [notes EXCEPT ![n] = Note(u, "unread")]
       \/ (notify[u] => \A n \in Notes : notes[n] # NoNote) /\ UNCHANGED notes
    /\ UNCHANGED <<notify, marking>>

\* Mutant: the document of an id is used although it was deleted.
MarkLoadGone(h, n) ==
    /\ marking[h] = NoNote /\ notes[n] # NoNote
    /\ marking' = [marking EXCEPT ![h] = n]
    /\ UNCHANGED <<notes, notify>>

\* mark_read: a notification that is read already is answered as it is.
MarkLoad(h, n) ==
    /\ marking[h] = NoNote /\ Has(n, "unread")
    /\ marking' = [marking EXCEPT ![h] = n]
    /\ UNCHANGED <<notes, notify>>

MarkSave(h) ==
    /\ marking[h] # NoNote
    /\ notes' = [notes EXCEPT ![marking[h]].state = "read"]
    /\ marking' = [marking EXCEPT ![h] = NoNote]
    /\ UNCHANGED notify

\* The request ends before its save.
MarkFails(h) ==
    /\ marking[h] # NoNote
    /\ marking' = [marking EXCEPT ![h] = NoNote]
    /\ UNCHANGED <<notes, notify>>

MarkAllRead(u) ==
    /\ notes' = [n \in Notes |-> IF notes[n] = Note(u, "unread")
                                 THEN Note(u, "read") ELSE notes[n]]
    /\ UNCHANGED <<notify, marking>>

DeleteNote(n) ==
    /\ Has(n, "unread") \/ Has(n, "read")
    /\ notes' = [notes EXCEPT ![n].state = "gone"]
    /\ UNCHANGED <<notify, marking>>

\* update_preferences, as far as notifications look at it.
UpdatePreferences(u) ==
    /\ notify' = [notify EXCEPT ![u] = ~@]
    /\ UNCHANGED <<notes, marking>>

NoteNext ==
    \/ \E h \in Markers : MarkSave(h) \/ MarkFails(h) \/ \E n \in Notes : MarkLoad(h, n)
    \/ \E n \in Notes : DeleteNote(n)
    \/ \E u \in Pair : CreateNote(u) \/ MarkAllRead(u) \/ UpdatePreferences(u)

NoteSpec == NoteInit /\ [][NoteNext]_noteVars

-----------------------------------------------------------------------------
\* A notification that is deleted while no mark_read holds a copy of it is never
\* listed again, whatever is read or deleted later: only the save of a copy
\* loaded before the deletion brings it back (mark_read, delete).
DeletedNoteStays ==
    [][\A n \in Notes : Has(n, "gone") /\ n \notin Marked
                           => (Has(n, "gone") /\ n \notin Marked)']_noteVars
=============================================================================
