----------------------------- MODULE AttachViews -----------------------------
(***************************************************************************)
(* What a session/attach returns of the replay log                         *)
(* (crates/rooms/src/extension/attach_views.rs): the full and full_lineage *)
(* views, newest_turn_first, and the phases of a streamed replay.          *)
(*                                                                         *)
(* A log is a sequence of records with fields tag and frame; a frame has a *)
(* method and a turn.  A line of the agent that is not JSON-RPC is in the  *)
(* log as a frame with method "raw".                                       *)
(***************************************************************************)
EXTENDS SequencesExt, Filters

PRE_SEGMENT_TAG == 0

\* turn_lifecycle_turn_id returns the turn of these frames, None of others.
IsBookend(entry) == entry.frame.method \in {"turn_started", "turn_complete", "turn_cancelled"}

\* Mutant of cross_segment_turn_carry: only the active turn is carried.
carry_active_turn(log, active, turn) == {turn}

\* active: the active segment, 0 for None; turn: the active turn, or 0.
cross_segment_turn_carry(log, active, turn) ==
    LET Shown(entry) == IsBookend(entry) /\ entry.tag \in {PRE_SEGMENT_TAG, active}
    IN {log[k].frame.turn : k \in {k \in DOMAIN log : Shown(log[k])}} \cup ({turn} \ {0})

should_include_replay_entry(entry, log, active, turn) ==
    \/ entry.tag \in {PRE_SEGMENT_TAG, active}
    \/ IsBookend(entry) /\ entry.frame.turn \in cross_segment_turn_carry(log, active, turn)

\* history_entry_from_replay drops what is not JSON-RPC.
replay_history(log, active, turn, full_lineage) ==
    Kept(log, {k \in DOMAIN log :
        /\ log[k].frame.method # "raw"
        /\ full_lineage \/ should_include_replay_entry(log[k], log, active, turn)})

\* The group that is open when the history ends.
StillOpen(group) == IF group = <<>> THEN <<>> ELSE <<group>>

\* A turn_started opens a group, which ends with the first complete or
\* cancelled; what lies outside of every group is the prefix.
file_entry(filed, entry) ==
    CASE entry.frame.method = "turn_started" ->
            [filed EXCEPT !.groups = @ \o StillOpen(filed.current), !.current = <<entry>>]
      [] entry.frame.method # "turn_started" /\ filed.current = <<>> ->
            [filed EXCEPT !.prefix = Append(@, entry)]
      [] entry.frame.method \in {"turn_complete", "turn_cancelled"} /\ filed.current # <<>> ->
            [filed EXCEPT !.groups = Append(@, Append(filed.current, entry)), !.current = <<>>]
      [] OTHER ->
            [filed EXCEPT !.current = Append(@, entry)]

\* The entries of the history, filed one after the other.
Filed(history) ==
    LET filed[n \in 0..Len(history)] ==
            IF n = 0 THEN [prefix |-> <<>>, groups |-> <<>>, current |-> <<>>]
            ELSE file_entry(filed[n - 1], history[n])
    IN filed[Len(history)]

turn_groups(history) ==
    LET filed == Filed(history)
    IN [prefix |-> filed.prefix, groups |-> filed.groups \o StillOpen(filed.current)]

newest_turn_first_history(history) ==
    LET filed == turn_groups(history)
    IN filed.prefix \o FlattenSeq(Reverse(filed.groups))

\* The history as on_attach orders it.
Ordered(order, history) ==
    IF order = "newest_turn_first" THEN newest_turn_first_history(history) ELSE history

\* Mutant of Older: the backfill starts with the group after the next.
older_but_one(groups) == IF Len(groups) < 2 THEN <<>> ELSE SubSeq(groups, 3, Len(groups))

\* The groups behind the latest one.
Older(groups) == Tail(groups)

replay_phase(name, entries) == [phase |-> name, frames |-> entries]

\* history is ordered already, and is divided into groups a second time.
replay_stream_phases(order, history) ==
    LET filed == turn_groups(history)
        groups == filed.groups
        backfill == FlattenSeq(Older(groups))
    IN IF order # "newest_turn_first" THEN <<replay_phase("backfill", history)>>
       ELSE IF groups = <<>> THEN <<replay_phase("latest_segment", filed.prefix)>>
       ELSE <<replay_phase("latest_segment", filed.prefix \o Head(groups))>>
            \o IF backfill = <<>> THEN <<>> ELSE <<replay_phase("backfill", backfill)>>
=============================================================================
