----------------------------- MODULE RoomsViews -----------------------------
(***************************************************************************)
(* The attach views of the logs that rooms produce: what a client that     *)
(* attaches in any state of Rooms is shown of the past.                    *)
(***************************************************************************)
EXTENDS Rooms, AttachViews

FullView == replay_history(replay_log, Len(segments), active_rooms_turn_id, FALSE)
Lineage == replay_history(replay_log, Len(segments), active_rooms_turn_id, TRUE)

\* A turn that ends, or is cancelled, in the full view also starts there, and
\* the active turn does, however many segments ago it was: "a mid-rotation
\* turn is never left with an unmatched complete" (attach_views.rs:9).
FullViewBracketsTurns ==
    LET view == FullView
        Starts(k, turn) == view[k].frame.method = "turn_started" /\ view[k].frame.turn = turn
    IN /\ \A k \in DOMAIN view :
            view[k].frame.method \in {"turn_complete", "turn_cancelled"} =>
                \E j \in 1 .. k - 1 : Starts(j, view[k].frame.turn)
       /\ active_rooms_turn_id # 0 => \E k \in DOMAIN view : Starts(k, active_rooms_turn_id)

\* A streamed newest_turn_first replay is the history that the response
\* would have held: the phases, one after the other, are the same frames in
\* the same order, also in the middle of a turn, though the history is
\* divided into turns again; and no frame of the view is lost or repeated.
PhasesAreTheHistory ==
    \A view \in {FullView, Lineage} :
        LET history == newest_turn_first_history(view)
            phases == replay_stream_phases("newest_turn_first", history)
        IN /\ FlattenSeq([k \in DOMAIN phases |-> phases[k].frames]) = history
           /\ Len(history) = Len(view) /\ ToSet(history) = ToSet(view)
=============================================================================
