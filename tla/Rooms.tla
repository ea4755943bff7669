-------------------------------- MODULE Rooms --------------------------------
(***************************************************************************)
(* RoomsExtension (crates/rooms/src/extension): turns, the prompt queue,   *)
(* hard steering, segments, presence and the session-list index of one     *)
(* room, as hooks called by the mux actor.                                 *)
(*                                                                         *)
(* A hook runs inside the handler of one actor message, so one action here *)
(* is one handler of the actor with everything the hooks do in it: the     *)
(* frames they broadcast, in order, the next prompt they submit, and what  *)
(* is written to the agent when the handler is over.                       *)
(*                                                                         *)
(* Of the actor (module MuxCore) only what the hooks read or change is     *)
(* kept: the prompt slot, pending, canonical_session_id, the subscribers,  *)
(* agent_pending and the replay log.  Delivery to clients is MuxCore's     *)
(* subject, so the log alone stands for what is broadcast.  Requests that  *)
(* are answered with an error change nothing, except for "session busy",   *)
(* which is broadcast: they are stuttering steps.  Each peer uses one      *)
(* connection at a time.                                                   *)
(***************************************************************************)
EXTENDS SequencesExt

CONSTANTS
    Peers, Sessions, AskIds,
    Controls,       \* the requests clients make: a subset of ClientRequests
    ClientSessions, \* sessionId in the clients' prompts and controls, or None
    Switches,       \* sessionId of the agent's notifications, or None
    EmitSegmentFrames,      \* --emit-segment-frames
    MAX_MUX_QUEUE_PROMPTS,
    MaxFrames,      \* bound: frames in the replay log
    MaxStdin,       \* bound: frames written to the agent's stdin
    None

ClientRequests ==
    {"session/prompt", "session/new", "session/load", "session/detach",
     "rooms/queue_prompt", "rooms/unqueue_prompt", "rooms/steer_active_turn",
     "rooms/cancel_active_turn"}

ASSUME RoomsConstantsOK ==
    /\ Controls \subseteq ClientRequests
    /\ None \notin Sessions /\ None \notin Peers
    /\ ClientSessions \subseteq Sessions \cup {None}
    /\ Switches \subseteq Sessions \cup {None}
    /\ EmitSegmentFrames \in BOOLEAN
    /\ MAX_MUX_QUEUE_PROMPTS \in Nat /\ MaxFrames \in Nat /\ MaxStdin \in Nat

VARIABLES
    conns,                  \* the connection of each peer
    subscribers,            \* the peers the actor sends to
    canonical_session_id,
    next_mux_id,
    pending,                \* requests at the agent, by mux id
    prompt_in_flight,       \* mux id of the prompt, 0 for None
    agent_pending,          \* the agent's requests: InFlight or Consumed
    agent_stdin,            \* every frame written to the agent
    replay_log,             \* every frame broadcast, with its segment tag
    replay_tag,
    active_rooms_turn_id,   \* 0 for None
    active_turn_session_id,
    next_rooms_turn_id,
    per_request,            \* RoomsRequestData by mux id
    queued_prompts,
    next_queue_item_id,
    segments,               \* ids are 1, 2, ...; the last one is active
    driving_subscriber_peer_id,
    session_list_index      \* what the shared index says of this room

connVars == <<conns, subscribers>>
slotVars == <<next_mux_id, pending, prompt_in_flight, per_request>>
turnVars == <<active_rooms_turn_id, active_turn_session_id, next_rooms_turn_id>>
queueVars == <<queued_prompts, next_queue_item_id>>
segmentVars == <<canonical_session_id, segments, replay_tag>>
listVars == <<driving_subscriber_peer_id, session_list_index>>
vars == <<connVars, slotVars, turnVars, queueVars, segmentVars, listVars,
          agent_pending, agent_stdin, replay_log>>

MaybeSession == Sessions \cup {None}
MaybePeer == Peers \cup {None}
NotListed == [count |-> 0, driver |-> None]

\* id = 0: a steer, which has no queue item id; supersedes = 0: not a hard steer.
QueuedPrompt ==
    [id : Nat, peer : Peers, session : MaybeSession,
     kind : {"prompt", "queue", "hard_steer"}, supersedes : Nat]

TurnFrames == {"turn_started", "turn_complete", "turn_cancelled"}
QueueFrames == {"queue_item_added", "queue_item_submitted", "queue_item_completed",
                "queue_item_removed", "queue_item_orphaned"}

\* A rooms/* frame: its method, the peer, item, ask or segment it is about
\* (for turn_started: the turn it supersedes, or 0) and its turn, or 0.  The
\* mode of a control_submitted is part of the method here.
Frame ==
    [method : {"peer_joined", "peer_left", "session_busy", "turn_cancelled",
               "idle_steer_submitted", "hard_steer_submitted"},
     of : Peers, turn : Nat]
    \cup [method : {"turn_started", "turn_complete", "segment_started", "segment_ended"}
                   \cup QueueFrames, of : Nat, turn : Nat]
    \cup [method : {"agent_request_opened", "agent_request_resolved", "agent_cancel"},
          of : AskIds, turn : Nat]
    \cup [method : {"agent_notification"}, of : MaybeSession, turn : Nat]

\* turn: for a prompt the turn it starts, for a session/cancel the turn
\* that was active when it was made; history, as for the ask of a reply.
AgentFrame ==
    [type : {"prompt", "request", "session/cancel"}, turn : Nat, session : MaybeSession]
    \cup [type : {"reply"}, ask : AskIds]

TypeOK ==
    /\ conns \in [Peers -> {"out", "open", "closing"}]
    /\ subscribers \subseteq {p \in Peers : conns[p] # "out"}
    /\ canonical_session_id \in MaybeSession
    /\ next_mux_id \in Nat \ {0} /\ next_rooms_turn_id \in Nat \ {0}
    /\ next_queue_item_id \in Nat \ {0}
    /\ DOMAIN pending \subseteq 1..(next_mux_id - 1)
    /\ \A m \in DOMAIN pending :
        pending[m] \in [peer : Peers, method : ClientRequests, session : MaybeSession]
    /\ prompt_in_flight \in {0} \cup DOMAIN pending
    /\ DOMAIN agent_pending \subseteq AskIds
    /\ \A a \in DOMAIN agent_pending : agent_pending[a] \in {"InFlight", "Consumed"}
    /\ agent_stdin \in Seq(AgentFrame)
    /\ replay_log \in Seq([frame : Frame, tag : Nat])
    /\ replay_tag \in Nat
    /\ active_rooms_turn_id \in Nat /\ active_turn_session_id \in MaybeSession
    /\ DOMAIN per_request \subseteq 1..(next_mux_id - 1)
    /\ \A m \in DOMAIN per_request : per_request[m] \in [turn : Nat, item : Nat]
    /\ queued_prompts \in Seq(QueuedPrompt)
    /\ segments \in Seq([acp : Sessions, opened : Nat, closed : Nat])
    /\ driving_subscriber_peer_id \in MaybePeer
    /\ session_list_index \in [Sessions -> [count : Nat, driver : MaybePeer]]

Init ==
    /\ conns = [p \in Peers |-> "out"]
    /\ subscribers = {}
    /\ canonical_session_id = None
    /\ next_mux_id = 1
    /\ pending = <<>>
    /\ prompt_in_flight = 0
    /\ agent_pending = <<>>
    /\ agent_stdin = <<>>
    /\ replay_log = <<>>
    /\ replay_tag = 0
    /\ active_rooms_turn_id = 0
    /\ active_turn_session_id = None
    /\ next_rooms_turn_id = 1
    /\ per_request = <<>>
    /\ queued_prompts = <<>>
    /\ next_queue_item_id = 1
    /\ segments = <<>>
    /\ driving_subscriber_peer_id = None
    /\ session_list_index = [s \in Sessions |-> NotListed]

-----------------------------------------------------------------------------
(***************************************************************************)
(* What the hooks are built from.                                          *)
(***************************************************************************)

frame(method, of, turn) == [method |-> method, of |-> of, turn |-> turn]

With(f, x, v) == [y \in DOMAIN f \cup {x} |-> IF y = x THEN v ELSE f[y]]
Without(f, x) == Restrict(f, DOMAIN f \ {x})

Tagged(frames, tag) == [k \in DOMAIN frames |-> [frame |-> frames[k], tag |-> tag]]

\* MuxCtx::broadcast of these frames, one after the other.
broadcast(frames) ==
    /\ replay_log' = replay_log \o Tagged(frames, replay_tag)
    /\ Len(replay_log') <= MaxFrames

ToAgent(f) ==
    /\ agent_stdin' = Append(agent_stdin, f)
    /\ Len(agent_stdin') <= MaxStdin

CanSend(p, request) == request \in Controls /\ conns[p] \in {"open", "closing"}

\* The index after publish_session_list_metadata; with nobody left this is
\* clear_session_list_metadata.
publish_session_list_metadata(session, subs, driver) ==
    IF session = None THEN session_list_index
    ELSE [session_list_index EXCEPT ![session] =
            IF subs = {} THEN NotListed
            ELSE [count |-> Cardinality(subs), driver |-> driver]]

\* Mutant of note_driving_subscriber: the new driver is not published.
note_driving_quietly(p) ==
    /\ driving_subscriber_peer_id' =
        IF p \in subscribers THEN p ELSE driving_subscriber_peer_id
    /\ UNCHANGED session_list_index

note_driving_subscriber(p) ==
    IF p \in subscribers /\ driving_subscriber_peer_id # p
    THEN /\ driving_subscriber_peer_id' = p
         /\ session_list_index' =
                publish_session_list_metadata(canonical_session_id, subscribers, p)
    ELSE UNCHANGED listVars

\* Mutant of allocate_mux_id: the queue item is not remembered.
allocate_without_item(p, method, session, others, data, turn, item) ==
    /\ next_mux_id' = next_mux_id + 1
    /\ pending' = With(others, next_mux_id,
                       [peer |-> p, method |-> method, session |-> session])
    /\ per_request' = With(data, next_mux_id, [turn |-> turn, item |-> 0])
    /\ ToAgent([type |-> IF method = "session/prompt" THEN "prompt" ELSE "request",
                turn |-> turn, session |-> session])

\* A request takes the next mux id and goes to the agent.
allocate_mux_id(p, method, session, others, data, turn, item) ==
    /\ next_mux_id' = next_mux_id + 1
    /\ pending' = With(others, next_mux_id,
                       [peer |-> p, method |-> method, session |-> session])
    /\ per_request' = With(data, next_mux_id, [turn |-> turn, item |-> item])
    /\ ToAgent([type |-> IF method = "session/prompt" THEN "prompt" ELSE "request",
                turn |-> turn, session |-> session])

\* Mutant of start_turn: the counter is not advanced.
start_turn_unnumbered(session) ==
    /\ prompt_in_flight' = next_mux_id
    /\ next_rooms_turn_id' = next_rooms_turn_id
    /\ active_rooms_turn_id' = next_rooms_turn_id
    /\ active_turn_session_id' = session

\* The prompt just sent starts the next turn.
start_turn(session) ==
    /\ prompt_in_flight' = next_mux_id
    /\ next_rooms_turn_id' = next_rooms_turn_id + 1
    /\ active_rooms_turn_id' = next_rooms_turn_id
    /\ active_turn_session_id' = session

\* submit_next_queued_prompt: the front of queue becomes the next turn; the
\* frames of before are broadcast first.  others and data are what pending
\* and per_request hold besides.
submit_next_queued_prompt(queue, before, others, data) ==
    LET item == Head(queue)
        turn == next_rooms_turn_id
    IN /\ queued_prompts' = Tail(queue)
       /\ note_driving_subscriber(item.peer)
       /\ allocate_mux_id(item.peer, "session/prompt", item.session, others, data,
                          turn, item.id)
       /\ start_turn(item.session)
       /\ broadcast(before
            \o <<frame("turn_started", item.supersedes, turn)>>
            \o IF item.id = 0 THEN <<>>
               ELSE <<frame("queue_item_submitted", item.id, turn)>>)

-----------------------------------------------------------------------------
(***************************************************************************)
(* Presence.                                                               *)
(***************************************************************************)

\* peer_joined is broadcast before the newcomer is a subscriber.
attach(p) ==
    /\ conns[p] = "out" /\ p \notin subscribers
    /\ broadcast(<<frame("peer_joined", p, 0)>>)
    /\ conns' = [conns EXCEPT ![p] = "open"]
    /\ subscribers' = subscribers \cup {p}
    /\ session_list_index' =
        publish_session_list_metadata(canonical_session_id, subscribers',
                                      driving_subscriber_peer_id)
    /\ UNCHANGED <<slotVars, turnVars, queueVars, segmentVars,
                   driving_subscriber_peer_id, agent_pending, agent_stdin>>

\* The WebSocket ends; its frames and then its Detach are still to be handled.
ws_closes(p) ==
    /\ conns[p] = "open"
    /\ conns' = [conns EXCEPT ![p] = "closing"]
    /\ UNCHANGED <<subscribers, slotVars, turnVars, queueVars, segmentVars,
                   listVars, agent_pending, agent_stdin, replay_log>>

\* Mutant of orphans: only the first of the peer's items is announced.
first_orphan(p) ==
    LET own == SelectSeq(queued_prompts, LAMBDA item : item.peer = p /\ item.id # 0)
    IN IF own = <<>> THEN <<>> ELSE <<frame("queue_item_orphaned", own[1].id, 0)>>

\* queue_item_orphaned for every item the peer has in the queue, from the
\* front to the back.
orphans(p) ==
    LET announced[n \in 0..Len(queued_prompts)] ==
            IF n = 0 THEN <<>>
            ELSE LET item == queued_prompts[n]
                 IN IF item.peer = p /\ item.id # 0
                    THEN Append(announced[n - 1], frame("queue_item_orphaned", item.id, 0))
                    ELSE announced[n - 1]
    IN announced[Len(queued_prompts)]

\* Mutant of on_subscriber_detached: nobody is told that the peer left.
detached_silently(p) == UNCHANGED <<listVars, replay_log>>

on_subscriber_detached(p) ==
    /\ broadcast(<<frame("peer_left", p, 0)>> \o orphans(p))
    /\ driving_subscriber_peer_id' =
        IF driving_subscriber_peer_id = p THEN None ELSE driving_subscriber_peer_id
    /\ session_list_index' =
        publish_session_list_metadata(canonical_session_id, subscribers',
                                      driving_subscriber_peer_id')

\* Mutant of detach: the peer stays in the map.
detach_forgotten(p) == UNCHANGED <<subscribers, listVars, replay_log>>

\* MuxCore::detach: the hook is called only if the peer was a subscriber.
detach(p) ==
    /\ subscribers' = subscribers \ {p}
    /\ IF p \in subscribers THEN on_subscriber_detached(p)
                            ELSE UNCHANGED <<listVars, replay_log>>

\* The Detach of a closed connection.
handle_detach(p) ==
    /\ conns[p] = "closing"
    /\ conns' = [conns EXCEPT ![p] = "out"]
    /\ detach(p)
    /\ UNCHANGED <<slotVars, turnVars, queueVars, segmentVars, agent_pending, agent_stdin>>

\* A session/detach request: the channel closes with the subscriber.
handle_detach_request(p) ==
    /\ CanSend(p, "session/detach")
    /\ conns' = [conns EXCEPT ![p] = "closing"]
    /\ detach(p)
    /\ UNCHANGED <<slotVars, turnVars, queueVars, segmentVars, agent_pending, agent_stdin>>

-----------------------------------------------------------------------------
(***************************************************************************)
(* Requests for the agent.                                                 *)
(***************************************************************************)

\* on_subscriber_request, on_request_translating and on_request_forwarded
\* of a session/prompt while no turn is active.
forward_prompt(p, requested) ==
    LET session == IF requested # None THEN requested ELSE canonical_session_id
    IN /\ CanSend(p, "session/prompt") /\ prompt_in_flight = 0
       /\ note_driving_subscriber(p)
       /\ allocate_mux_id(p, "session/prompt", session, pending, per_request,
                          next_rooms_turn_id, 0)
       /\ start_turn(session)
       /\ broadcast(<<frame("turn_started", 0, next_rooms_turn_id)>>)
       /\ UNCHANGED <<connVars, queueVars, segmentVars, agent_pending>>

\* Another turn is active: told to everybody, and the request is rejected.
session_busy(p) ==
    /\ CanSend(p, "session/prompt") /\ prompt_in_flight # 0
    /\ broadcast(<<frame("session_busy", pending[prompt_in_flight].peer, 0)>>)
    /\ UNCHANGED <<connVars, slotVars, turnVars, queueVars, segmentVars, listVars,
                   agent_pending, agent_stdin>>

\* session/new is answered from the cache once there is a session.
forward_handshake(p, method, session) ==
    /\ CanSend(p, method)
    /\ \/ method = "session/new" /\ session = None /\ canonical_session_id = None
       \/ method = "session/load" /\ session # None
    /\ note_driving_subscriber(p)
    /\ allocate_mux_id(p, method, session, pending, per_request, 0, 0)
    /\ UNCHANGED <<connVars, prompt_in_flight, turnVars, queueVars, segmentVars,
                   agent_pending, replay_log>>

-----------------------------------------------------------------------------
(***************************************************************************)
(* Controls: queue, unqueue, steer, cancel.                                *)
(***************************************************************************)

ActiveSession ==
    IF active_turn_session_id # None THEN active_turn_session_id ELSE canonical_session_id

ControlSession(requested) == IF requested # None THEN requested ELSE ActiveSession

\* parse_rooms_active_turn_control_params accepts the request.
ControlAccepted(requested) ==
    /\ ControlSession(requested) # None
    /\ ActiveSession # None => ControlSession(requested) = ActiveSession

pending_queue_prompt_count ==
    Len(SelectSeq(queued_prompts, LAMBDA item : item.kind = "queue"))

\* Mutant of Enqueued: queued in front of those that wait already.
enqueued_in_front(item) == Cons(item, queued_prompts)

\* VecDeque::push_back.
Enqueued(item) == Append(queued_prompts, item)

\* Mutant of submit_immediately: the item waits even when no turn is active.
never_immediately == FALSE

submit_immediately == prompt_in_flight = 0

handle_rooms_queue_prompt_request(p, requested) ==
    LET id == next_queue_item_id
        queue == Enqueued([id |-> id, peer |-> p, session |-> ControlSession(requested),
                           kind |-> "queue", supersedes |-> 0])
        added == <<frame("queue_item_added", id, 0)>>
    IN /\ CanSend(p, "rooms/queue_prompt") /\ ControlAccepted(requested)
       /\ pending_queue_prompt_count < MAX_MUX_QUEUE_PROMPTS
       /\ next_queue_item_id' = id + 1
       /\ IF submit_immediately
          THEN submit_next_queued_prompt(queue, added, pending, per_request)
          ELSE /\ queued_prompts' = queue
               /\ broadcast(added)
               /\ UNCHANGED <<slotVars, turnVars, listVars, agent_stdin>>
       /\ UNCHANGED <<connVars, segmentVars, agent_pending>>

\* Any client may remove any item that still waits.
handle_rooms_unqueue_prompt_request(p) ==
    /\ CanSend(p, "rooms/unqueue_prompt")
    /\ \E position \in DOMAIN queued_prompts :
        /\ queued_prompts[position].id # 0
        /\ queued_prompts' = RemoveAt(queued_prompts, position)
        /\ broadcast(<<frame("queue_item_removed", queued_prompts[position].id, 0)>>)
    /\ UNCHANGED <<connVars, slotVars, turnVars, next_queue_item_id, segmentVars,
                   listVars, agent_pending, agent_stdin>>

\* Mutant of send_session_cancel: cancels the canonical session instead.
cancel_canonical_session ==
    ToAgent([type |-> "session/cancel", turn |-> active_rooms_turn_id,
             session |-> canonical_session_id])

\* build_session_cancel for the session of the active turn.
send_session_cancel ==
    ToAgent([type |-> "session/cancel", turn |-> active_rooms_turn_id,
             session |-> active_turn_session_id])

turn_cancelled ==
    frame("turn_cancelled", pending[prompt_in_flight].peer, active_rooms_turn_id)

has_pending_hard_steer ==
    \E k \in DOMAIN queued_prompts : queued_prompts[k].kind = "hard_steer"

\* Mutant of PutFirst: the steer waits its turn behind the queue.
put_last(item) == Append(queued_prompts, item)

\* VecDeque::push_front.
PutFirst(item) == Cons(item, queued_prompts)

\* Hard steer: cancel the active turn and be the next one.
handle_rooms_steer_request(p, requested) ==
    /\ CanSend(p, "rooms/steer_active_turn") /\ ControlAccepted(requested)
    /\ prompt_in_flight # 0 /\ ~has_pending_hard_steer
    /\ active_rooms_turn_id # 0 /\ active_turn_session_id # None
    /\ broadcast(<<frame("hard_steer_submitted", p, active_rooms_turn_id), turn_cancelled>>)
    /\ queued_prompts' =
        PutFirst([id |-> 0, peer |-> p, session |-> ControlSession(requested),
                  kind |-> "hard_steer", supersedes |-> active_rooms_turn_id])
    /\ send_session_cancel
    /\ UNCHANGED <<connVars, slotVars, turnVars, next_queue_item_id, segmentVars,
                   listVars, agent_pending>>

\* With no active turn the steer is submitted at once.
handle_rooms_idle_steer_request(p, requested) ==
    /\ CanSend(p, "rooms/steer_active_turn") /\ ControlAccepted(requested)
    /\ prompt_in_flight = 0
    /\ submit_next_queued_prompt(
            PutFirst([id |-> 0, peer |-> p, session |-> ControlSession(requested),
                      kind |-> "prompt", supersedes |-> 0]),
            <<frame("idle_steer_submitted", p, next_rooms_turn_id)>>, pending, per_request)
    /\ UNCHANGED <<connVars, next_queue_item_id, segmentVars, agent_pending>>

\* Request or notification, from any client.
cancel_active_turn(p) ==
    /\ CanSend(p, "rooms/cancel_active_turn")
    /\ active_rooms_turn_id # 0 /\ active_turn_session_id # None
    /\ broadcast(<<turn_cancelled>>)
    /\ send_session_cancel
    /\ UNCHANGED <<connVars, slotVars, turnVars, queueVars, segmentVars, listVars,
                   agent_pending>>

-----------------------------------------------------------------------------
(***************************************************************************)
(* The agent's answers, notifications and requests.                        *)
(***************************************************************************)

\* on_agent_request and on_agent_request_resolved.
opened(a) == frame("agent_request_opened", a, active_rooms_turn_id)
resolved(a) == frame("agent_request_resolved", a, 0)

Unresolved == {a \in DOMAIN agent_pending : agent_pending[a] = "InFlight"}

\* Mutant of sweep_stale_agent_pending: the turn ends over them.
no_sweep == {<<>>}

\* The requests to be given up, in any order of the HashMap.
sweep_stale_agent_pending == SetToSeqs(Unresolved)

\* The answer to the prompt in flight: what is still open of the agent's
\* requests is given up, the turn is complete, and the next
\* queued prompt is submitted.  on_prompt_settled does not look at whether
\* the answer is an error.
prompt_settles ==
    LET turn == active_rooms_turn_id
        item == per_request[prompt_in_flight].item
        others == Without(pending, prompt_in_flight)
        data == Without(per_request, prompt_in_flight)
        complete ==
            <<frame("turn_complete", 0, turn)>>
            \o IF item = 0 THEN <<>> ELSE <<frame("queue_item_completed", item, turn)>>
    IN /\ prompt_in_flight # 0
       /\ agent_pending' = [a \in DOMAIN agent_pending |-> "Consumed"]
       /\ \E stale \in sweep_stale_agent_pending :
            LET swept == [k \in DOMAIN stale |-> resolved(stale[k])]
            IN IF queued_prompts # <<>>
               THEN submit_next_queued_prompt(queued_prompts, swept \o complete, others, data)
               ELSE /\ broadcast(swept \o complete)
                    /\ prompt_in_flight' = 0
                    /\ pending' = others /\ per_request' = data
                    /\ active_rooms_turn_id' = 0 /\ active_turn_session_id' = None
                    /\ UNCHANGED <<next_mux_id, next_rooms_turn_id, queued_prompts,
                                   listVars, agent_stdin>>
       /\ UNCHANGED <<connVars, next_queue_item_id, segmentVars>>

\* Mutant of close_segment: closed at the next frame, which is not its own.
close_segment_late(log) ==
    IF segments = <<>> THEN segments
    ELSE [segments EXCEPT ![Len(segments)].closed = Len(log) + 1]

\* The active segment ends with the last frame of the log.
close_segment(log) ==
    IF segments = <<>> THEN segments
    ELSE [segments EXCEPT ![Len(segments)].closed = Len(log)]

\* Mutant of retarget: queued prompts keep their session.
retarget_nothing(session) == queued_prompts

\* Queued prompts follow a rotation; the first segment is not one.
retarget(session) ==
    IF segments = <<>> THEN queued_prompts
    ELSE [k \in DOMAIN queued_prompts |-> [queued_prompts[k] EXCEPT !.session = session]]

\* rotate_segment: what the log, the segments and the queue become.
rotate_segment(session) ==
    LET last == Len(segments)
        ended == IF EmitSegmentFrames /\ last # 0
                 THEN Tagged(<<frame("segment_ended", last, 0)>>, last) ELSE <<>>
        started == IF EmitSegmentFrames
                   THEN Tagged(<<frame("segment_started", last + 1, 0)>>, last + 1) ELSE <<>>
        log == replay_log \o ended
    IN [log |-> log \o started,
        segments |-> Append(close_segment(log),
                            [acp |-> session, opened |-> Len(log) + 1, closed |-> 0]),
        queue |-> retarget(session),
        tag |-> last + 1]

\* Mutant of segment_follows: only a session/load opens a segment.
segment_follows_load(session, via_load) == via_load

segment_follows(session, via_load) ==
    segments = <<>> \/ Last(segments).acp # session

unmoved == [log |-> replay_log, segments |-> segments, queue |-> queued_prompts,
            tag |-> replay_tag]

\* Rotate, unless the active segment is of that session already.
on_canonical_session_id(session, via_load) ==
    IF segment_follows(session, via_load) THEN rotate_segment(session) ELSE unmoved

\* set_canonical_session_id, and the frames broadcast after it.  The hook is
\* called when the id changes, and for every session/load.
set_canonical_session_id(session, via_load, frames) ==
    LET heard == canonical_session_id # session \/ via_load
        r == IF heard THEN on_canonical_session_id(session, via_load) ELSE unmoved
    IN /\ canonical_session_id' = session
       /\ segments' = r.segments /\ queued_prompts' = r.queue /\ replay_tag' = r.tag
       /\ replay_log' = r.log \o Tagged(frames, r.tag)
       /\ Len(replay_log') <= MaxFrames
       /\ session_list_index' =
            IF heard THEN publish_session_list_metadata(session, subscribers,
                                                        driving_subscriber_peer_id)
            ELSE session_list_index

\* The answer to request m, a session/new or session/load.
handshake_succeeds(m) ==
    /\ pending[m].method \in {"session/new", "session/load"}
    /\ \E session \in IF pending[m].method = "session/new" THEN Sessions
                      ELSE {pending[m].session} :
        set_canonical_session_id(session, pending[m].method = "session/load", <<>>)
    /\ pending' = Without(pending, m)
    /\ UNCHANGED <<connVars, next_mux_id, prompt_in_flight, per_request, turnVars,
                   next_queue_item_id, driving_subscriber_peer_id, agent_pending,
                   agent_stdin>>

handshake_fails(m) ==
    /\ pending[m].method \in {"session/new", "session/load"}
    /\ pending' = Without(pending, m)
    /\ UNCHANGED <<connVars, next_mux_id, prompt_in_flight, per_request, turnVars,
                   queueVars, segmentVars, listVars, agent_pending, agent_stdin,
                   replay_log>>

\* A notification that names another session than the canonical one moves it.
handle_agent_notification(session) ==
    /\ IF canonical_session_id # None /\ session \notin {None, canonical_session_id}
       THEN set_canonical_session_id(session, FALSE,
                                     <<frame("agent_notification", session, 0)>>)
       ELSE /\ broadcast(<<frame("agent_notification", session, 0)>>)
            /\ UNCHANGED <<segmentVars, queued_prompts, session_list_index>>
    /\ UNCHANGED <<connVars, slotVars, turnVars, next_queue_item_id,
                   driving_subscriber_peer_id, agent_pending, agent_stdin>>

\* Opened is broadcast, then the request fanned out; fanout forgets the
\* subscribers whose channel is closed, without on_subscriber_detached.
handle_agent_request(a) ==
    /\ a \notin DOMAIN agent_pending
    /\ agent_pending' = With(agent_pending, a, "InFlight")
    /\ broadcast(<<opened(a)>>)
    /\ subscribers' = {p \in subscribers : conns[p] = "open"}
    /\ UNCHANGED <<conns, slotVars, turnVars, queueVars, segmentVars, listVars, agent_stdin>>

\* The first reply to a request resolves it; later ones are dropped.
gate_subscriber_response(p, a) ==
    /\ conns[p] \in {"open", "closing"} /\ a \in Unresolved
    /\ agent_pending' = With(agent_pending, a, "Consumed")
    /\ broadcast(<<resolved(a)>>)
    /\ ToAgent([type |-> "reply", ask |-> a])
    /\ UNCHANGED <<connVars, slotVars, turnVars, queueVars, segmentVars, listVars>>

\* The agent withdraws a request, answered or not.
handle_agent_cancel(a) ==
    /\ a \in DOMAIN agent_pending
    /\ agent_pending' = With(agent_pending, a, "Consumed")
    /\ broadcast(<<frame("agent_cancel", a, 0), resolved(a)>>)
    /\ UNCHANGED <<connVars, slotVars, turnVars, queueVars, segmentVars, listVars,
                   agent_stdin>>

-----------------------------------------------------------------------------

PeerStep(p) ==
    \/ attach(p) \/ ws_closes(p) \/ handle_detach(p) \/ handle_detach_request(p)
    \/ \E s \in ClientSessions :
        \/ forward_prompt(p, s)
        \/ handle_rooms_queue_prompt_request(p, s)
        \/ handle_rooms_steer_request(p, s)
        \/ handle_rooms_idle_steer_request(p, s)
    \/ session_busy(p)
    \/ forward_handshake(p, "session/new", None)
    \/ \E s \in Sessions : forward_handshake(p, "session/load", s)
    \/ handle_rooms_unqueue_prompt_request(p)
    \/ cancel_active_turn(p)
    \/ \E a \in AskIds : gate_subscriber_response(p, a)

AgentStep ==
    \/ prompt_settles
    \/ \E m \in DOMAIN pending : handshake_succeeds(m) \/ handshake_fails(m)
    \/ \E s \in Switches : handle_agent_notification(s)
    \/ \E a \in AskIds : handle_agent_request(a) \/ handle_agent_cancel(a)

Next == AgentStep \/ \E p \in Peers : PeerStep(p)

Spec == Init /\ [][Next]_vars

-----------------------------------------------------------------------------
(***************************************************************************)
(* What the rooms promise.                                                 *)
(***************************************************************************)

FrameAt(k) == replay_log[k].frame
Positions(method) == {k \in DOMAIN replay_log : FrameAt(k).method = method}
PositionsOf(method, x) == {k \in Positions(method) : FrameAt(k).of = x}

\* Clients fold turn_started and turn_complete into turns: the turns are
\* numbered 1, 2, ..., each starts once, completes at most once and before
\* the next one starts, and the one that is still open is the active one,
\* which holds the prompt slot.
TurnsAlternate ==
    LET bookends == Positions("turn_started") \cup Positions("turn_complete")
        Has(method, t) == \E k \in Positions(method) : FrameAt(k).turn = t
    IN /\ \A k \in bookends : FrameAt(k).turn \in 1 .. next_rooms_turn_id - 1
       /\ \A j, k \in bookends : j < k =>
            \/ FrameAt(j).turn < FrameAt(k).turn
            \/ /\ FrameAt(j).turn = FrameAt(k).turn
               /\ FrameAt(j).method = "turn_started" /\ FrameAt(k).method = "turn_complete"
       /\ \A t \in 1 .. next_rooms_turn_id - 1 :
            Has("turn_started", t) /\ (Has("turn_complete", t) <=> t # active_rooms_turn_id)
       /\ active_rooms_turn_id \in {0, next_rooms_turn_id - 1}
       /\ (prompt_in_flight # 0) = (active_rooms_turn_id # 0)

\* A queue nobody works on would be forgotten: prompts only wait while a
\* turn is active, whose end submits the first of them.
QueueWaitsForTheTurn == queued_prompts # <<>> => prompt_in_flight # 0

\* Queue items are submitted in the order they were added, whatever steers
\* and removals came between.
QueueIsFifo ==
    \A j, k \in Positions("queue_item_submitted") :
        j < k => FrameAt(j).of < FrameAt(k).of

\* The documented life of a queue item: announced once, then it waits, or
\* was removed, or was submitted and is completed exactly with its turn.
ItemLifecycle ==
    \A i \in 1..(next_queue_item_id - 1) :
        LET waiting == {k \in DOMAIN queued_prompts : queued_prompts[k].id = i}
            submitted == PositionsOf("queue_item_submitted", i)
            Complete(t) == \E k \in Positions("turn_complete") : FrameAt(k).turn = t
        IN /\ Cardinality(PositionsOf("queue_item_added", i)) = 1
           /\ Cardinality(waiting) + Cardinality(submitted)
                + Cardinality(PositionsOf("queue_item_removed", i)) = 1
           /\ \A k \in PositionsOf("queue_item_completed", i) :
                \E j \in submitted : FrameAt(j).turn = FrameAt(k).turn
           /\ \A j \in submitted :
                Cardinality(PositionsOf("queue_item_completed", i))
                    = IF Complete(FrameAt(j).turn) THEN 1 ELSE 0

\* A hard steer supersedes the turn it interrupted: its prompt is the very
\* next turn, before anything queued, and there is one per turn.
SteerIsNext ==
    /\ \A k \in Positions("hard_steer_submitted") :
        \A j \in Positions("turn_started") :
            FrameAt(j).turn = FrameAt(k).turn + 1 => FrameAt(j).of = FrameAt(k).turn
    /\ \A j, k \in Positions("hard_steer_submitted") :
        FrameAt(j).turn = FrameAt(k).turn => j = k

\* A session/cancel reaches the agent while the turn it was meant for is the
\* last one submitted, and names that turn's session: it can hit neither
\* the replacement prompt nor a queued one.
CancelHitsItsTurn ==
    \A k \in DOMAIN agent_stdin : agent_stdin[k].type = "session/cancel" =>
        \E j \in 1..k : /\ agent_stdin[j].type = "prompt"
                        /\ agent_stdin[j].turn = agent_stdin[k].turn
                        /\ agent_stdin[j].session = agent_stdin[k].session
                        /\ \A i \in j + 1 .. k : agent_stdin[i].type # "prompt"

\* Late joiners get the frames of the active segment by their tag: segments
\* follow one another without a gap, and a frame lies in the segment of its
\* tag, with tag 0 before the first.
SegmentsPartitionLog ==
    LET start(n) == IF n <= Len(segments) THEN segments[n].opened ELSE Len(replay_log) + 1
    IN /\ \A n \in 1..(Len(segments) - 1) : segments[n].closed + 1 = segments[n + 1].opened
       /\ \A k \in DOMAIN replay_log :
            LET tag == replay_log[k].tag
            IN /\ tag \in 0..Len(segments)
               /\ tag # 0 => segments[tag].opened <= k
               /\ tag = Len(segments) \/ k < start(tag + 1)

\* The active segment is the one of the canonical session.
SegmentIsCanonical ==
    canonical_session_id = IF segments = <<>> THEN None ELSE Last(segments).acp

\* When the session rotates, every prompt that waits is sent to the new one.
RotationRetargets ==
    [][canonical_session_id' # canonical_session_id /\ canonical_session_id # None
        => \A k \in DOMAIN queued_prompts' : queued_prompts'[k].session = canonical_session_id']_vars

\* No turn completes over a request of the agent that is still open: by
\* then a client's reply, the agent or the sweep has resolved it.
AsksEndWithTheTurn ==
    \A k \in Positions("turn_complete") : \A j \in Positions("agent_request_opened") :
        j < k => \E i \in PositionsOf("agent_request_resolved", FrameAt(j).of) : j < i /\ i < k

\* The log tells who is in the room.  Present: the last frame about the
\* peer is peer_joined.  That is so of every subscriber, and no longer of a
\* peer whose connection has been taken down altogether.
PresenceInLog ==
    \A p \in Peers :
        LET Present == \E k \in PositionsOf("peer_joined", p) :
                        \A j \in PositionsOf("peer_left", p) : j < k
        IN (p \in subscribers => Present) /\ (conns[p] = "out" => ~Present)

\* Whenever a peer leaves, each of its items that goes on waiting is
\* announced as orphaned, after the peer_left (on_subscriber_detached).
OrphansAnnounced ==
    \A i \in DOMAIN queued_prompts :
        LET item == queued_prompts[i]
        IN \A added \in PositionsOf("queue_item_added", item.id) :
            \A left \in PositionsOf("peer_left", item.peer) :
                added < left =>
                    \E k \in PositionsOf("queue_item_orphaned", item.id) : left < k

\* While somebody is attached, the index lists the canonical session with
\* the right count and a driver who is there.
IndexIsCurrent ==
    canonical_session_id # None /\ subscribers # {} =>
        /\ session_list_index[canonical_session_id] =
            [count |-> Cardinality(subscribers), driver |-> driving_subscriber_peer_id]
        /\ driving_subscriber_peer_id \in subscribers \cup {None}

\* The index lists a room under no session any more once everybody has left:
\* session/list decorates live sessions and leaves non-live entries unchanged
\* (CHANGELOG.md:208).
EmptyRoomIsUnlisted ==
    subscribers = {} => \A s \in Sessions : session_list_index[s] = NotListed

=============================================================================
