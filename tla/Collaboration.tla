----------------------------- MODULE Collaboration -----------------------------
(***************************************************************************)
(* A conversation and its people: meetings, the room's members, messages   *)
(* and presence.  The four share no row and no request, and each takes     *)
(* its steps whatever the others do.                                       *)
(***************************************************************************)
EXTENDS Meetings, Rooms, Messages, Presence

CollabInit == MeetingsInit /\ RoomsInit /\ MessagesInit /\ PresenceInit
CollabSpec == MeetingsSpec /\ RoomsSpec /\ MessagesSpec /\ PresenceSpec

\* Every row, request and entry of the four keeps its type and relationships.
CollabTypeOK == MeetingsTypeOK /\ RoomsTypeOK /\ MessagesTypeOK /\ PresenceTypeOK
=============================================================================
