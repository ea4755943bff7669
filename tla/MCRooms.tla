------------------------------ MODULE MCRooms ------------------------------
(***************************************************************************)
(* Instances of Rooms for TLC.  Each configuration turns on the controls   *)
(* its question is about.                                                  *)
(***************************************************************************)
EXTENDS RoomsViews

CONSTANTS p1, p2, s1, s2, a1, a2

Queueing == {"session/prompt", "rooms/queue_prompt", "rooms/unqueue_prompt"}
Steering ==
    {"session/prompt", "rooms/queue_prompt", "rooms/steer_active_turn",
     "rooms/cancel_active_turn", "rooms/unqueue_prompt", "session/detach"}
Rotating ==
    {"session/new", "session/load", "session/prompt", "rooms/queue_prompt",
     "rooms/cancel_active_turn"}

OnlyS1 == {s1}
NoSession == {None}

PeerSymmetry == Permutations({p1, p2})
=============================================================================
