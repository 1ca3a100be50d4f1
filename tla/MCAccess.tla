------------------------------ MODULE MCAccess ------------------------------
(* Who may reach whom: six instances in one run.                            *)
(*   room       one room request at a time, nothing fails, two messages     *)
(*   rooms      two of them and failing calls; one message, no promotions   *)
(*              and links, and the owner, whose access never changes, does  *)
(*              not ask for it                                              *)
(*   direct     the direct room of a pair: two clients that open it, two    *)
(*              requests that delete it or save a copy                      *)
(*   friends    the requests of two users to the social service, one at a   *)
(*              time; they may fail                                         *)
(*   notes      the notifications of the two, read and deleted              *)
(*   payers     two requests about a subscription                           *)
EXTENDS RoomAccess, DirectRooms, SocialGraph, Subscriptions

CONSTANTS alice, bob

VARIABLE mode

mcVars == <<vars, dmVars, graphVars, noteVars, subVars, mode>>

Modes == {"room", "rooms", "direct", "friends", "notes", "payers"}

MCInit ==
    /\ Init /\ DmInit /\ SocInit /\ SubInit
    /\ mode \in Modes
    /\ mode \notin {"room", "rooms"} => everMember = {Owner}
    /\ mode # "friends" => notify = [u \in Pair |-> TRUE]

RoomStep(A) == A /\ UNCHANGED <<dmVars, graphVars, noteVars, subVars, mode>>

OneRoomRequest ==
    /\ mode = "room" /\ RoomStep(Next)
    /\ Cardinality({r \in Requests : req'[r].pc # "free"}) <= 1
    /\ faults' = 0

RoomRequests ==
    /\ mode = "rooms" /\ RoomStep(Next)
    /\ \A r \in Requests : /\ req'[r].msg = NoMsg
                           /\ req'[r].pc = "check" => req'[r].who # Owner
                           /\ req'[r].pc \notin {"promote", "invite"}

Direct ==
    /\ mode = "direct" /\ DmNext
    /\ UNCHANGED <<vars, graphVars, noteVars, subVars, mode>>

FriendRequests ==
    /\ mode = "friends" /\ GraphNext
    /\ UNCHANGED <<vars, dmVars, subVars, mode>>

NoteRequests ==
    /\ mode = "notes" /\ NoteNext
    /\ UNCHANGED <<vars, dmVars, graphVars, subVars, mode>>

SubRequests ==
    /\ mode = "payers" /\ SubNext
    /\ UNCHANGED <<vars, dmVars, graphVars, noteVars, mode>>

MCNext ==
    \/ OneRoomRequest \/ RoomRequests \/ Direct
    \/ FriendRequests \/ NoteRequests \/ SubRequests

\* The event loop resumes every request, and cache entries expire.
MCSpec ==
    /\ MCInit /\ [][MCNext]_mcVars
    /\ \A r \in Requests : WF_mcVars(RoomStep(Proceed(r)))
    /\ \A u \in Users : WF_mcVars(RoomStep(CacheExpires(u)))

-----------------------------------------------------------------------------
(* What holds only while room requests do not overlap *)

\* Between requests the cache agrees with the document.
SoloCacheIsExact == mode = "room" => CacheIsExact

\* Between requests admins are members and pins are in order.
SoloRoomIsCoherent == mode = "room" => RoomIsCoherent
=============================================================================
