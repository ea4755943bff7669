----------------------------- MODULE AttachStreams -----------------------------
(***************************************************************************)
(* session/attach with a history, by a client that comes, goes and comes   *)
(* back under the same peer id, against the frames that are broadcast      *)
(* meanwhile and the room being opened again (crates/rooms/src/extension:  *)
(* on_attach and on_wake of mod.rs).                                       *)
(*                                                                         *)
(* A streamed history is computed when the client attaches and is sent by  *)
(* wakes, messages that the extension schedules for the actor, while live  *)
(* frames go on.  A wake names the client by its peer id.                  *)
(*                                                                         *)
(* What is broadcast is one turn after another, with lines of the agent    *)
(* that are JSON-RPC or not, and switches of the session; handlers that    *)
(* broadcast several frames are the subject of Rooms.  The client joins    *)
(* with skipReplay: what it gets by joining is the subject of MuxCore.     *)
(***************************************************************************)
EXTENDS ReplayStore, AttachViews

CONSTANTS
    AgentLines,     \* what the agent says: a subset of AgentMethods
    MaxSegments,    \* bound: segments of a run
    MaxConns,       \* bound: connections, one at a time
    MaxAttaches     \* bound: session/attach requests

AgentMethods == {"session/update", "raw"}
ReplayOrders == {"chronological", "newest_turn_first"}
HistoryPolicies == {"full", "full_lineage", "pending_only"}

ASSUME AttachStreamsConstantsOK ==
    /\ AgentLines \subseteq AgentMethods
    /\ MaxSegments \in Nat /\ MaxConns \in Nat /\ MaxAttaches \in Nat

VARIABLES
    active_rooms_turn_id,   \* 0 for None
    next_rooms_turn_id,
    active_segment_id,      \* 0 for None
    permission,             \* the agent's request: "none", "open" or "resolved"
    conn,                   \* the client's connection, 0 while it is away
    conns_so_far,
    live,                   \* what was broadcast to its connection
    permission_seen,        \* its connection was sent the request
    attaches,               \* every session/attach of the run, and what came of it
    wakes                   \* scheduled and not handled yet

turnVars == <<active_rooms_turn_id, next_rooms_turn_id>>
roomVars == <<turnVars, active_segment_id, permission>>
clientVars == <<conn, conns_so_far, attaches, wakes>>
streamVars == <<storeVars, roomVars, clientVars, live, permission_seen>>

Frame ==
    [method : {"turn_started", "turn_complete", "turn_cancelled"}, turn : Nat \ {0}]
    \cup [method : AgentMethods \cup {"peer_joined", "peer_left", "agent_request_opened",
                                      "agent_request_resolved"}, turn : {0}]

\* boundary: the replayBoundarySeq it was told; history: what it is to get;
\* got: what it was sent so far.
Attach ==
    [conn : 1..MaxConns, policy : HistoryPolicies, boundary : Nat,
     history : Seq(Nat), got : Seq(Nat)]

\* The permission frames go out in one piece, so their wake has no phases.
Wake == [attach : 1..MaxAttaches, phases : Seq(Seq(Nat))]

StreamsTypeOK ==
    /\ StoreTypeOK(Frame)
    /\ next_rooms_turn_id \in Nat \ {0} /\ active_rooms_turn_id \in 0..next_rooms_turn_id - 1
    /\ active_segment_id \in 0..MaxSegments
    /\ permission \in {"none", "open", "resolved"}
    /\ conns_so_far \in 0..MaxConns /\ conn \in {0, conns_so_far}
    /\ live \in Seq(1..MaxSeq) /\ permission_seen \in BOOLEAN
    /\ attaches \in Seq(Attach) /\ Len(attaches) <= MaxAttaches
    /\ \A n \in DOMAIN attaches : Len(attaches[n].got) <= Len(attaches[n].history)
    /\ wakes \subseteq Wake

StreamsInit ==
    /\ StoreInit
    /\ active_rooms_turn_id = 0 /\ next_rooms_turn_id = 1
    /\ active_segment_id = 0
    /\ permission = "none"
    /\ conn = 0 /\ conns_so_far = 0
    /\ live = <<>> /\ permission_seen = FALSE
    /\ attaches = <<>>
    /\ wakes = {}

-----------------------------------------------------------------------------
(* What is broadcast.                                                     *)

\* MuxCore::broadcast.
broadcast(method, turn) ==
    /\ record([method |-> method, turn |-> turn])
    /\ live' = IF conn = 0 THEN live ELSE Append(live, next_replay_seq)
    /\ UNCHANGED replay_tag

turn_starts ==
    /\ active_rooms_turn_id = 0
    /\ broadcast("turn_started", next_rooms_turn_id)
    /\ active_rooms_turn_id' = next_rooms_turn_id
    /\ next_rooms_turn_id' = next_rooms_turn_id + 1
    /\ UNCHANGED <<active_segment_id, permission, permission_seen, clientVars>>

cancel_active_turn ==
    /\ active_rooms_turn_id # 0
    /\ broadcast("turn_cancelled", active_rooms_turn_id)
    /\ UNCHANGED <<roomVars, permission_seen, clientVars>>

\* Any request of the agent is resolved before.
turn_completes ==
    /\ active_rooms_turn_id # 0 /\ permission # "open"
    /\ broadcast("turn_complete", active_rooms_turn_id)
    /\ active_rooms_turn_id' = 0
    /\ UNCHANGED <<next_rooms_turn_id, active_segment_id, permission, permission_seen,
                   clientVars>>

handle_agent_line(method) ==
    /\ broadcast(method, 0)
    /\ UNCHANGED <<roomVars, permission_seen, clientVars>>

\* With --emit-segment-frames=false the tag moves and nothing is broadcast.
rotate_segment ==
    /\ active_segment_id < MaxSegments
    /\ active_segment_id' = active_segment_id + 1
    /\ replay_tag' = active_segment_id + 1
    /\ UNCHANGED <<runs, replay_log, next_replay_seq, replay_store, file, turnVars,
                   permission, clientVars, live, permission_seen>>

\* The request is fanned out behind agent_request_opened; it is in no log.
permission_opens ==
    /\ permission = "none" /\ active_rooms_turn_id # 0
    /\ permission' = "open"
    /\ broadcast("agent_request_opened", 0)
    /\ permission_seen' = (permission_seen \/ conn # 0)
    /\ UNCHANGED <<turnVars, active_segment_id, clientVars>>

permission_resolves ==
    /\ permission = "open"
    /\ permission' = "resolved"
    /\ broadcast("agent_request_resolved", 0)
    /\ UNCHANGED <<turnVars, active_segment_id, permission_seen, clientVars>>

-----------------------------------------------------------------------------
(* The client.                                                            *)

\* peer_joined is broadcast before the newcomer is a subscriber.
join ==
    /\ conn = 0 /\ conns_so_far < MaxConns
    /\ broadcast("peer_joined", 0)
    /\ conns_so_far' = conns_so_far + 1 /\ conn' = conns_so_far'
    /\ permission_seen' = FALSE
    /\ UNCHANGED <<roomVars, attaches, wakes>>

\* live is of no use any more.
leave ==
    /\ conn # 0
    /\ conn' = 0 /\ live' = <<>> /\ permission_seen' = FALSE
    /\ record([method |-> "peer_left", turn |-> 0]) /\ UNCHANGED replay_tag
    /\ UNCHANGED <<roomVars, conns_so_far, attaches, wakes>>

Seqs(entries) == [k \in DOMAIN entries |-> entries[k].seq]

\* Mutant of replay_boundary_seq: the next sequence number.
boundary_is_next == next_replay_seq

\* The last entry of the log, 0 when there is none.
replay_boundary_seq == IF replay_log = <<>> THEN 0 ELSE Last(replay_log).seq

asked(policy, history, got) ==
    attaches' = Append(attaches, [conn |-> conn, policy |-> policy, got |-> got,
                                  boundary |-> replay_boundary_seq, history |-> Seqs(history)])

schedule_wake(phases) ==
    wakes' = wakes \cup {[attach |-> Len(attaches) + 1,
                          phases |-> [k \in DOMAIN phases |-> Seqs(phases[k].frames)]]}

\* A history in the response is complete at once; one that is streamed
\* comes with the wakes.
on_attach(policy, order) ==
    LET history == Ordered(order, replay_history(replay_log, active_segment_id,
                                                 active_rooms_turn_id, policy = "full_lineage"))
    IN \/ asked(policy, history, Seqs(history)) /\ UNCHANGED wakes
       \/ asked(policy, history, <<>>) /\ schedule_wake(replay_stream_phases(order, history))

\* The requests that are open at this moment are sent by a wake, as they
\* are: the response has them without their ids, which nobody can answer.
attach_pending_only ==
    /\ asked("pending_only", <<>>, <<>>)
    /\ IF permission = "open" THEN schedule_wake(<<>>) ELSE UNCHANGED wakes

handle_attach_request ==
    /\ conn # 0 /\ Len(attaches) < MaxAttaches
    /\ \/ \E policy \in {"full", "full_lineage"}, order \in ReplayOrders : on_attach(policy, order)
       \/ attach_pending_only
    /\ UNCHANGED <<storeVars, roomVars, conn, conns_so_far, live, permission_seen>>

-----------------------------------------------------------------------------
(* Wakes.                                                                 *)

\* Mutant of rescheduled: the phase just sent stays.
rescheduled_whole(wake) == {wake}

\* The wake for the phases behind the first one.
rescheduled(wake) ==
    IF Len(wake.phases) < 2 THEN {} ELSE {[wake EXCEPT !.phases = Tail(@)]}

\* send_replay_phase: to whoever has the peer id.  A later connection gets
\* the phases of an earlier one; got is what the one that asked gets.
send_replay_phase(wake) ==
    /\ attaches' = IF attaches[wake.attach].conn = conn
                   THEN [attaches EXCEPT ![wake.attach].got = @ \o Head(wake.phases)]
                   ELSE attaches
    /\ UNCHANGED permission_seen

\* Mutant of send_pending: the frames are not sent.
send_nothing == UNCHANGED <<attaches, permission_seen>>

send_pending ==
    /\ permission_seen' = (permission_seen \/ conn # 0)
    /\ UNCHANGED attaches

on_wake(wake) ==
    /\ wake \in wakes
    /\ wakes' = (wakes \ {wake}) \cup rescheduled(wake)
    /\ IF wake.phases = <<>> THEN send_pending ELSE send_replay_phase(wake)
    /\ UNCHANGED <<storeVars, roomVars, conn, conns_so_far, live>>

\* The run ends, and the next client opens the room again: the actor, what
\* it knew and its wakes are new.
room_reopens ==
    /\ hydrate_replay_store
    /\ active_rooms_turn_id' = 0 /\ next_rooms_turn_id' = 1
    /\ active_segment_id' = 0
    /\ permission' = "none"
    /\ conn' = 0 /\ live' = <<>> /\ permission_seen' = FALSE
    /\ attaches' = <<>> /\ wakes' = {}
    /\ UNCHANGED conns_so_far

-----------------------------------------------------------------------------

StreamsNext ==
    \/ turn_starts \/ cancel_active_turn \/ turn_completes
    \/ \E method \in AgentLines : handle_agent_line(method)
    \/ rotate_segment
    \/ permission_opens \/ permission_resolves
    \/ join \/ leave \/ handle_attach_request
    \/ \E wake \in wakes : on_wake(wake)
    \/ room_reopens

StreamsSpec == StreamsInit /\ [][StreamsNext]_streamVars

Outstanding(n) == \E wake \in wakes : wake.attach = n
Times(seqs, seq) == Cardinality({k \in DOMAIN seqs : seqs[k] = seq})

\* Once a history has arrived, its boundary divides the log: up to it every
\* frame of the history came once, and what is broadcast after it came
\* once, live, and not in the history, though the phases are sent later.
StreamMeetsLive ==
    \A n \in DOMAIN attaches :
        LET a == attaches[n]
        IN a.conn = conn /\ ~Outstanding(n) /\ a.policy # "pending_only" =>
            /\ a.got = a.history
            /\ \A entry \in ToSet(replay_log) :
                IF entry.seq > a.boundary
                THEN Times(live, entry.seq) = 1 /\ Times(a.got, entry.seq) = 0
                ELSE Times(a.got, entry.seq) <= 1
                     /\ (a.policy = "full_lineage" /\ entry.frame.method # "raw"
                         => Times(a.got, entry.seq) = 1)

\* A client that attached with pending_only has been sent every request
\* that is open: by the wake those it found, live those that came later.
PendingReachesTheClient ==
    conn # 0 /\ permission = "open" =>
        \A n \in DOMAIN attaches :
            attaches[n].conn = conn /\ attaches[n].policy = "pending_only" /\ ~Outstanding(n)
                => permission_seen
=============================================================================
