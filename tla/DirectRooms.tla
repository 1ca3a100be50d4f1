----------------------------- MODULE DirectRooms -----------------------------
(***************************************************************************)
(* get_or_create_dm for one pair of users: find the pair's room, insert it *)
(* when there is none, and start over when the unique index on dm_key says *)
(* that somebody else was faster.  Meanwhile the room may be deleted, put  *)
(* back by the compensation of a deletion that failed, or saved by a pin   *)
(* or unpin that loaded it before, which inserts it again.                 *)
(***************************************************************************)
EXTENDS Naturals

CONSTANTS
    Clients,        \* concurrent requests to open the direct room
    Editors,        \* slots for deletions, pins and unpins of a direct room
    MaxRetries,     \* _DM_CREATE_MAX_RETRIES
    MaxRooms        \* bound: documents that ever arrive

ASSUME DirectAssumption == MaxRetries \in Nat \ {0} /\ MaxRooms \in Nat

VARIABLES
    rooms,          \* the documents with the pair's dm_key
    created,        \* rooms created so far; also the id of the last one
    arrivals,       \* history: documents stored in any way while there was none
    dm,             \* [Clients -> the request]
    edit            \* [Editors -> the request in the slot]

dmVars == <<rooms, created, arrivals, dm, edit>>

\* try: which attempt it is; since: arrivals when it started.
DmAt(pc, try, since) == [pc |-> pc, try |-> try, since |-> since]
Fresh == DmAt("new", 1, 0)

\* room: the id of the document that was loaded.
EditAt(pc, i) == [pc |-> pc, room |-> i]
NoEdit == EditAt("free", 0)

DmInit ==
    /\ rooms = {} /\ created = 0 /\ arrivals = 0
    /\ dm = [c \in Clients |-> Fresh]
    /\ edit = [x \in Editors |-> NoEdit]

-----------------------------------------------------------------------------
(* get_or_create_dm *)

Open(c) ==
    /\ dm[c].pc = "new"
    /\ dm' = [dm EXCEPT ![c] = DmAt("find", 1, arrivals)]
    /\ UNCHANGED <<rooms, created, arrivals, edit>>

\* Mutant: only a room this client created is found.
FindOwn(c) ==
    /\ dm[c].pc = "find"
    /\ dm' = [dm EXCEPT ![c].pc = "insert"]
    /\ UNCHANGED <<rooms, created, arrivals, edit>>

Find(c) ==
    /\ dm[c].pc = "find"
    /\ dm' = [dm EXCEPT ![c].pc = IF rooms # {} THEN "done" ELSE "insert"]
    /\ UNCHANGED <<rooms, created, arrivals, edit>>

\* The sparse unique index on dm_key.
Unique == rooms = {}

\* A document with the key is stored where there was none.
Arrive(i) == rooms' = {i} /\ arrivals' = arrivals + 1

Insert(c) ==
    /\ dm[c].pc = "insert" /\ Unique
    /\ created' = created + 1
    /\ Arrive(created')
    /\ dm' = [dm EXCEPT ![c].pc = "done"]
    /\ UNCHANGED edit

\* DuplicateKeyError: start over, or give up with 503.
Duplicate(c) ==
    /\ dm[c].pc = "insert" /\ ~Unique
    /\ dm' = [dm EXCEPT ![c] = DmAt(IF @.try < MaxRetries THEN "find" ELSE "failed",
                                    @.try + 1, @.since)]
    /\ UNCHANGED <<rooms, created, arrivals, edit>>

\* The answer, or the end of the request by another error.
Answer(c) ==
    /\ dm[c].pc # "new"
    /\ dm' = [dm EXCEPT ![c] = Fresh]
    /\ UNCHANGED <<rooms, created, arrivals, edit>>

-----------------------------------------------------------------------------
(* Requests about the room that exists *)

EditGoes(x, state) == edit' = [edit EXCEPT ![x] = state] /\ UNCHANGED <<created, dm>>

\* delete_room takes its snapshot; pin_message and unpin_message load.
LoadDirect(x, op, i) ==
    /\ edit[x].pc = "free" /\ i \in rooms
    /\ EditGoes(x, EditAt(op, i))
    /\ UNCHANGED <<rooms, arrivals>>

\* delete_one; nothing more is done when it finds nothing.  The last document
\* within the bound stays.
DropDirect(x) ==
    LET i == edit[x].room IN
    /\ edit[x].pc = "unlink"
    /\ \/ /\ i \in rooms /\ arrivals < MaxRooms
          /\ rooms' = rooms \ {i}
          /\ EditGoes(x, EditAt("purge", i))
       \/ /\ i \notin rooms
          /\ EditGoes(x, NoEdit) /\ UNCHANGED rooms
    /\ UNCHANGED arrivals

\* delete_many succeeds, and the rest of the deletion leaves the key alone ...
PurgeDirect(x) ==
    /\ edit[x].pc = "purge"
    /\ EditGoes(x, NoEdit)
    /\ UNCHANGED <<rooms, arrivals>>

\* ... or fails, and the snapshot is put back ...
PurgeDirectFails(x) ==
    /\ edit[x].pc = "purge"
    /\ EditGoes(x, EditAt("restore", edit[x].room))
    /\ UNCHANGED <<rooms, arrivals>>

\* ... if the index lets it.
RestoreDirect(x) ==
    /\ edit[x].pc = "restore"
    /\ IF Unique THEN Arrive(edit[x].room) ELSE UNCHANGED <<rooms, arrivals>>
    /\ EditGoes(x, NoEdit)

\* save() upserts by id, so it inserts a document that is gone, if the index
\* lets it.
SaveDirect(x) ==
    /\ edit[x].pc = "save"
    /\ IF Unique THEN Arrive(edit[x].room) ELSE UNCHANGED <<rooms, arrivals>>
    /\ EditGoes(x, NoEdit)

\* The request ends with another error, or its process dies.
QuitDirect(x) ==
    /\ edit[x].pc # "free"
    /\ EditGoes(x, NoEdit)
    /\ UNCHANGED <<rooms, arrivals>>

DmNext ==
    \/ \E c \in Clients : Open(c) \/ Find(c) \/ Insert(c) \/ Duplicate(c) \/ Answer(c)
    \/ \E x \in Editors :
        \/ \E op \in {"unlink", "save"}, i \in rooms : LoadDirect(x, op, i)
        \/ DropDirect(x) \/ PurgeDirect(x) \/ PurgeDirectFails(x) \/ RestoreDirect(x)
        \/ SaveDirect(x) \/ QuitDirect(x)

DmSpec == DmInit /\ [][DmNext]_dmVars

-----------------------------------------------------------------------------
\* A retry is always somebody else's success: a client on its n-th attempt has
\* seen the pair's document arrive n - 1 times since it started, be it created,
\* put back by a failed deletion or saved again by a pin.  So "Temporary direct
\* message creation failure" takes MaxRetries arrivals, and as many deletions,
\* under one request.
RetriesAreEarned ==
    \A c \in Clients : dm[c].try - 1 <= arrivals - dm[c].since \/ dm[c].pc = "new"
=============================================================================
