--------------------------- MODULE RoomsLogProofs ---------------------------
(***************************************************************************)
(* Proofs about the Rooms extension for every set of peers, sessions and   *)
(* asks and every value of the bounds: its types, and what it writes to    *)
(* the replay log.                                                         *)
(*                                                                         *)
(* The log only grows.  What a handler broadcasts is taken apart into the  *)
(* pieces the code broadcasts one after the other, and each property is a  *)
(* predicate of a log and of what else it depends on, with one lemma for   *)
(* each kind of piece.                                                     *)
(***************************************************************************)
EXTENDS RoomsViews, AttachViewsProofs

-----------------------------------------------------------------------------
(***************************************************************************)
(* What orphans computes.                                                  *)
(***************************************************************************)

\* The body of its recursion, of the function g computed so far.
Announced(g, n, p) ==
    IF n = 0 THEN <<>>
    ELSE IF queued_prompts[n].peer = p /\ queued_prompts[n].id # 0
         THEN Append(g[n - 1], frame("queue_item_orphaned", queued_prompts[n].id, 0))
         ELSE g[n - 1]

LEMMA OrphansComputed ==
    ASSUME NEW p, Len(queued_prompts) \in Nat
    PROVE  \E g : /\ g = [n \in 0..Len(queued_prompts) |-> Announced(g, n, p)]
                  /\ orphans(p) = g[Len(queued_prompts)]
<1> DEFINE Computes(g, m) == g = [n \in 0..m |-> Announced(g, n, p)]
           S == {m \in Nat : \E g : Computes(g, m)}
<1>1. 0 \in S
    <2> DEFINE g == [n \in 0..0 |-> <<>>]
    <2>1. Computes(g, 0)
        BY DEF Announced
    <2>2. QED
        BY <2>1
<1>2. ASSUME NEW m \in Nat, m \in S
      PROVE  m + 1 \in S
    <2>1. PICK g : Computes(g, m)
        BY <1>2
    <2> DEFINE h == [n \in 0..m + 1 |-> Announced(g, n, p)]
    <2>2. \A n \in 0..m : h[n] = g[n]
        BY <2>1
    <2>3. \A n \in 0..m + 1 : n # 0 => n - 1 \in 0..m
        OBVIOUS
    <2>4. \A n \in 0..m + 1 : Announced(g, n, p) = Announced(h, n, p)
        BY <2>2, <2>3 DEF Announced
    <2> HIDE DEF h
    <2>5. h = [n \in 0..m + 1 |-> Announced(g, n, p)]
        BY DEF h
    <2>6. Computes(h, m + 1)
        BY <2>4, <2>5
    <2>7. QED
        BY <2>6
<1>3. Len(queued_prompts) \in S
    BY <1>1, <1>2, SetInduction
<1> DEFINE f == CHOOSE g : Computes(g, Len(queued_prompts))
<1>4. Computes(f, Len(queued_prompts))
    BY <1>3
<1>5. orphans(p) = f[Len(queued_prompts)]
    BY DEF orphans, Announced
<1>6. QED
    BY <1>4, <1>5

OrphanFrame == [method : {"queue_item_orphaned"}, of : Nat, turn : {0}]

\* It is a sequence of queue_item_orphaned frames, whatever waits.
LEMMA OrphansType ==
    ASSUME NEW p, queued_prompts \in Seq(QueuedPrompt)
    PROVE  orphans(p) \in Seq(OrphanFrame)
<1> DEFINE N == Len(queued_prompts)
<1>1. N \in Nat
    OBVIOUS
<1>2. PICK g : /\ g = [n \in 0..N |-> Announced(g, n, p)]
               /\ orphans(p) = g[N]
    BY <1>1, OrphansComputed
<1> DEFINE S == {m \in Nat : m <= N => g[m] \in Seq(OrphanFrame)}
<1>3. 0 \in S
    <2>1. g[0] = <<>>
        BY <1>1, <1>2 DEF Announced
    <2>2. <<>> \in Seq(OrphanFrame)
        OBVIOUS
    <2>3. QED
        BY <2>1, <2>2
<1>4. ASSUME NEW m \in Nat, m \in S, m + 1 <= N
      PROVE  g[m + 1] \in Seq(OrphanFrame)
    <2>1. g[m] \in Seq(OrphanFrame)
        BY <1>1, <1>4
    <2>2. m + 1 \in 1..N /\ m + 1 # 0 /\ (m + 1) - 1 = m
        BY <1>1, <1>4
    <2>3. queued_prompts[m + 1] \in QueuedPrompt
        BY <2>2
    <2>4. frame("queue_item_orphaned", queued_prompts[m + 1].id, 0) \in OrphanFrame
        BY <2>3 DEF QueuedPrompt, frame, OrphanFrame
    <2>5. g[m + 1] = Announced(g, m + 1, p)
        BY <1>1, <1>2, <2>2
    <2>6. QED
        BY <2>1, <2>2, <2>4, <2>5 DEF Announced
<1>5. N \in S
    <2>1. \A m \in Nat : m \in S => m + 1 \in S
        BY <1>4
    <2> HIDE DEF S
    <2>2. QED
        BY <1>1, <1>3, <2>1, SetInduction
<1>6. QED
    BY <1>1, <1>2, <1>5

-----------------------------------------------------------------------------
(***************************************************************************)
(* The type invariant, by the groups of variables that handlers leave      *)
(* alone, with what it needs to be inductive: subscribers and the agent's  *)
(* requests are finite, a prompt in flight is a prompt and has its turn    *)
(* and its data, and a session/load names a session.                       *)
(***************************************************************************)

Entry == [frame : Frame, tag : Nat]
Requests == [peer : Peers, method : ClientRequests, session : MaybeSession]
Listing == [Sessions -> [count : Nat, driver : MaybePeer]]

PendingType(map) ==
    /\ DOMAIN map \subseteq 1..(next_mux_id - 1)
    /\ \A m \in DOMAIN map :
        map[m] \in Requests /\ (map[m].method = "session/load" => map[m].session \in Sessions)

DataType(map) ==
    /\ DOMAIN map \subseteq 1..(next_mux_id - 1)
    /\ \A m \in DOMAIN map : map[m] \in [turn : Nat, item : Nat]

ConnsType ==
    /\ conns \in [Peers -> {"out", "open", "closing"}]
    /\ subscribers \subseteq {p \in Peers : conns[p] # "out"}
    /\ IsFiniteSet(subscribers)

SlotType ==
    /\ next_mux_id \in Nat \ {0}
    /\ PendingType(pending) /\ DataType(per_request)
    /\ DOMAIN pending \subseteq DOMAIN per_request
    /\ prompt_in_flight \in {0} \cup DOMAIN pending
    /\ prompt_in_flight # 0 => pending[prompt_in_flight].method = "session/prompt"

TurnType ==
    /\ next_rooms_turn_id \in Nat \ {0}
    /\ active_rooms_turn_id \in Nat /\ active_turn_session_id \in MaybeSession

SlotIsTurn == (prompt_in_flight # 0) = (active_rooms_turn_id # 0)

QueueType == queued_prompts \in Seq(QueuedPrompt) /\ next_queue_item_id \in Nat \ {0}

SegmentType ==
    /\ canonical_session_id \in MaybeSession
    /\ segments \in Seq([acp : Sessions, opened : Nat, closed : Nat])
    /\ replay_tag \in Nat

ListType == driving_subscriber_peer_id \in MaybePeer /\ session_list_index \in Listing

AsksType ==
    /\ DOMAIN agent_pending \subseteq AskIds /\ IsFiniteSet(DOMAIN agent_pending)
    /\ \A a \in DOMAIN agent_pending : agent_pending[a] \in {"InFlight", "Consumed"}

StdinType == agent_stdin \in Seq(AgentFrame)
LogType == replay_log \in Seq(Entry)

TypeInv ==
    /\ ConnsType /\ SlotType /\ TurnType /\ SlotIsTurn /\ QueueType /\ SegmentType
    /\ ListType /\ AsksType /\ StdinType /\ LogType

LEMMA TypeInvImpliesType == TypeInv => TypeOK
BY DEF TypeInv, ConnsType, SlotType, PendingType, DataType, Requests, TurnType, QueueType,
       SegmentType, ListType, Listing, AsksType, StdinType, LogType, Entry, TypeOK

\* What a handler leaves alone keeps its type.
LEMMA GroupsUnchanged ==
    /\ ConnsType /\ UNCHANGED connVars => ConnsType'
    /\ SlotType /\ UNCHANGED slotVars => SlotType'
    /\ TurnType /\ UNCHANGED turnVars => TurnType'
    /\ SlotIsTurn /\ UNCHANGED <<slotVars, turnVars>> => SlotIsTurn'
    /\ QueueType /\ UNCHANGED queueVars => QueueType'
    /\ SegmentType /\ UNCHANGED segmentVars => SegmentType'
    /\ ListType /\ UNCHANGED listVars => ListType'
    /\ AsksType /\ UNCHANGED agent_pending => AsksType'
    /\ StdinType /\ UNCHANGED agent_stdin => StdinType'
    /\ LogType /\ UNCHANGED replay_log => LogType'
BY DEF connVars, slotVars, turnVars, queueVars, segmentVars, listVars, ConnsType, SlotType,
       PendingType, DataType, TurnType, SlotIsTurn, QueueType, SegmentType, ListType,
       AsksType, StdinType, LogType

LEMMA InitTypeInv == Init => TypeInv
<1> SUFFICES ASSUME Init
             PROVE  TypeInv
    OBVIOUS
<1>1. ConnsType /\ AsksType
    BY FS_EmptySet DEF Init, ConnsType, AsksType
<1>2. SlotType /\ TurnType /\ SlotIsTurn /\ QueueType /\ SegmentType /\ StdinType /\ LogType
    BY DEF Init, SlotType, PendingType, DataType, TurnType, SlotIsTurn, QueueType,
           SegmentType, StdinType, LogType, MaybeSession
<1>3. ListType
    BY DEF Init, ListType, Listing, NotListed, MaybePeer
<1>4. QED
    BY <1>1, <1>2, <1>3 DEF TypeInv

-----------------------------------------------------------------------------
(***************************************************************************)
(* Lemmas about the helpers.                                               *)
(***************************************************************************)

\* Inserting an entry in a map sets it and leaves the others alone.
LEMMA WithEntry ==
    ASSUME NEW f, NEW x, NEW v
    PROVE  /\ DOMAIN With(f, x, v) = DOMAIN f \cup {x}
           /\ With(f, x, v)[x] = v
           /\ \A y \in DOMAIN f \ {x} : With(f, x, v)[y] = f[y]
BY DEF With

LEMMA WithoutEntry ==
    ASSUME NEW f, NEW x
    PROVE  /\ DOMAIN Without(f, x) = DOMAIN f \ {x}
           /\ \A y \in DOMAIN f \ {x} : Without(f, x)[y] = f[y]
BY DEF Without, Restrict

LEMMA BroadcastType ==
    ASSUME LogType, SegmentType, NEW frames \in Seq(Frame), broadcast(frames)
    PROVE  LogType'
<1> DEFINE new == Tagged(frames, replay_tag)
<1>1. \A k \in 1..Len(frames) : [frame |-> frames[k], tag |-> replay_tag] \in Entry
    BY DEF Entry, SegmentType
<1>2. new = [k \in 1..Len(frames) |-> [frame |-> frames[k], tag |-> replay_tag]]
    BY DEF Tagged
<1> HIDE DEF new
<1>3. new \in Seq(Entry)
    BY <1>1, <1>2
<1>4. QED
    BY <1>3 DEF broadcast, LogType, new

LEMMA ToAgentType ==
    ASSUME StdinType, NEW f \in AgentFrame, ToAgent(f)
    PROVE  StdinType'
BY DEF StdinType, ToAgent

LEMMA IndexType ==
    ASSUME session_list_index \in Listing, NEW session \in MaybeSession, NEW subs,
           IsFiniteSet(subs), NEW driver \in MaybePeer
    PROVE  publish_session_list_metadata(session, subs, driver) \in Listing
<1>1. Cardinality(subs) \in Nat
    BY FS_CardinalityType
<1>2. NotListed \in [count : Nat, driver : MaybePeer]
    BY DEF NotListed, MaybePeer
<1>3. [count |-> Cardinality(subs), driver |-> driver] \in [count : Nat, driver : MaybePeer]
    BY <1>1
<1>4. QED
    BY <1>2, <1>3 DEF publish_session_list_metadata, Listing

LEMMA DriverType ==
    ASSUME ConnsType, ListType, SegmentType, NEW p \in Peers, note_driving_subscriber(p)
    PROVE  ListType'
<1>1. p \in MaybePeer
    BY DEF MaybePeer
<1>2. publish_session_list_metadata(canonical_session_id, subscribers, p) \in Listing
    BY <1>1, IndexType DEF ConnsType, ListType, SegmentType
<1>3. QED
    BY <1>1, <1>2 DEF note_driving_subscriber, ListType, listVars

\* A request of a known kind takes the next mux id.  others and data are what
\* pending and per_request are without the prompt that settled, if any.
LEMMA AllocateType ==
    ASSUME SlotType, StdinType, NEW p \in Peers, NEW method \in ClientRequests,
           NEW session \in MaybeSession, method = "session/load" => session \in Sessions,
           NEW others, PendingType(others), NEW data, DataType(data),
           DOMAIN others \subseteq DOMAIN data, NEW turn \in Nat, NEW item \in Nat,
           allocate_mux_id(p, method, session, others, data, turn, item)
    PROVE  /\ next_mux_id' \in Nat \ {0} /\ next_mux_id' = next_mux_id + 1
           /\ PendingType(pending)' /\ DataType(per_request)'
           /\ DOMAIN pending' \subseteq DOMAIN per_request'
           /\ next_mux_id \in DOMAIN pending' /\ pending'[next_mux_id].method = method
           /\ \A m \in DOMAIN others : m \in DOMAIN pending' /\ pending'[m] = others[m]
           /\ StdinType'
<1> DEFINE request == [peer |-> p, method |-> method, session |-> session]
           entry == [turn |-> turn, item |-> item]
<1>1. pending' = With(others, next_mux_id, request) /\ per_request' = With(data, next_mux_id, entry)
    BY DEF allocate_mux_id
<1>2. next_mux_id \in Nat \ {0} /\ next_mux_id' = next_mux_id + 1
    BY DEF SlotType, allocate_mux_id
<1>3. /\ DOMAIN pending' = DOMAIN others \cup {next_mux_id}
      /\ pending'[next_mux_id] = request
      /\ \A m \in DOMAIN others \ {next_mux_id} : pending'[m] = others[m]
      /\ DOMAIN per_request' = DOMAIN data \cup {next_mux_id}
      /\ per_request'[next_mux_id] = entry
      /\ \A m \in DOMAIN data \ {next_mux_id} : per_request'[m] = data[m]
    <2> HIDE DEF request, entry
    <2>1. QED
        BY <1>1 DEF With
<1>4. request \in Requests /\ request.method = method /\ request.session = session
    BY DEF Requests
<1>5. next_mux_id \notin DOMAIN others /\ next_mux_id \notin DOMAIN data
    BY <1>2 DEF PendingType, DataType
<1>6. 1..(next_mux_id - 1) \cup {next_mux_id} \subseteq 1..(next_mux_id' - 1)
    BY <1>2
<1>7. entry \in [turn : Nat, item : Nat]
    OBVIOUS
<1> HIDE DEF request, entry
<1>8. PendingType(pending)'
    BY <1>3, <1>4, <1>5, <1>6 DEF PendingType
<1>9. DataType(per_request)'
    BY <1>3, <1>5, <1>6, <1>7 DEF DataType
<1>10. StdinType'
    <2> DEFINE f == [type |-> IF method = "session/prompt" THEN "prompt" ELSE "request",
                     turn |-> turn, session |-> session]
    <2>1. f \in AgentFrame
        BY DEF AgentFrame
    <2>2. ToAgent(f)
        BY DEF allocate_mux_id
    <2>3. QED
        BY <2>1, <2>2, ToAgentType
<1>11. QED
    BY <1>2, <1>3, <1>4, <1>5, <1>8, <1>9, <1>10

\* A prompt starts the next turn.
LEMMA PromptType ==
    ASSUME SlotType, TurnType, StdinType, NEW p \in Peers, NEW session \in MaybeSession,
           NEW others, PendingType(others), NEW data, DataType(data),
           DOMAIN others \subseteq DOMAIN data, NEW item \in Nat,
           allocate_mux_id(p, "session/prompt", session, others, data, next_rooms_turn_id, item),
           start_turn(session)
    PROVE  SlotType' /\ TurnType' /\ SlotIsTurn' /\ StdinType'
<1>1. next_rooms_turn_id \in Nat \ {0}
    BY DEF TurnType
<1>2. "session/prompt" \in ClientRequests
    BY DEF ClientRequests
<1>3. /\ next_mux_id' \in Nat \ {0} /\ next_mux_id' = next_mux_id + 1
      /\ PendingType(pending)' /\ DataType(per_request)'
      /\ DOMAIN pending' \subseteq DOMAIN per_request'
      /\ next_mux_id \in DOMAIN pending' /\ pending'[next_mux_id].method = "session/prompt"
      /\ StdinType'
    BY <1>1, <1>2, AllocateType
<1>4. TurnType'
    BY <1>1 DEF TurnType, start_turn
<1>5. SlotType'
    BY <1>3 DEF SlotType, start_turn
<1>6. SlotIsTurn'
    BY <1>1 DEF SlotType, SlotIsTurn, start_turn
<1>7. QED
    BY <1>3, <1>4, <1>5, <1>6

LEMMA TailType ==
    ASSUME NEW S, NEW s \in Seq(S), s # <<>>
    PROVE  Head(s) \in S /\ Tail(s) \in Seq(S)
OBVIOUS

\* The front of the queue becomes the next turn.
LEMMA SubmitType ==
    ASSUME TypeInv, NEW queue \in Seq(QueuedPrompt), queue # <<>>,
           NEW before \in Seq(Frame), NEW others, PendingType(others), NEW data,
           DataType(data), DOMAIN others \subseteq DOMAIN data,
           submit_next_queued_prompt(queue, before, others, data)
    PROVE  /\ SlotType' /\ TurnType' /\ SlotIsTurn' /\ StdinType' /\ ListType' /\ LogType'
           /\ queued_prompts' \in Seq(QueuedPrompt)
<1> DEFINE item == Head(queue)
           turn == next_rooms_turn_id
           submitted == IF item.id = 0 THEN <<>>
                        ELSE <<frame("queue_item_submitted", item.id, turn)>>
<1>1. item \in QueuedPrompt /\ Tail(queue) \in Seq(QueuedPrompt)
    BY TailType
<1>2. /\ item.peer \in Peers /\ item.session \in MaybeSession /\ item.id \in Nat
      /\ item.supersedes \in Nat
    BY <1>1 DEF QueuedPrompt
<1>3. SlotType' /\ TurnType' /\ SlotIsTurn' /\ StdinType'
    BY <1>2, PromptType DEF TypeInv, submit_next_queued_prompt
<1>4. ListType'
    BY <1>2, DriverType DEF TypeInv, submit_next_queued_prompt
<1>5. turn \in Nat
    BY DEF TypeInv, TurnType
<1>6. frame("turn_started", item.supersedes, turn) \in Frame
    BY <1>2, <1>5 DEF frame, Frame
<1>7. frame("queue_item_submitted", item.id, turn) \in Frame
    BY <1>2, <1>5 DEF frame, Frame, QueueFrames
<1>8. broadcast(before \o <<frame("turn_started", item.supersedes, turn)>> \o submitted)
    BY DEF submit_next_queued_prompt
<1>9. queued_prompts' = Tail(queue)
    BY DEF submit_next_queued_prompt
<1> HIDE DEF item, turn
<1>10. before \o <<frame("turn_started", item.supersedes, turn)>> \o submitted \in Seq(Frame)
    BY <1>6, <1>7
<1>11. LogType'
    BY <1>8, <1>10, BroadcastType DEF TypeInv
<1>12. QED
    BY <1>1, <1>3, <1>4, <1>9, <1>11

\* The session of a prompt and of a control.
LEMMA SessionTypes ==
    ASSUME TypeInv, NEW requested \in ClientSessions
    PROVE  /\ requested \in MaybeSession /\ ActiveSession \in MaybeSession
           /\ ControlSession(requested) \in MaybeSession
BY RoomsConstantsOK
DEF TypeInv, TurnType, SegmentType, MaybeSession, ActiveSession, ControlSession

\* A turn that can be cancelled has a prompt whose peer is known.
LEMMA CancelledFrame ==
    ASSUME TypeInv, prompt_in_flight # 0
    PROVE  /\ pending[prompt_in_flight].peer \in Peers
           /\ turn_cancelled \in Frame
<1>1. pending[prompt_in_flight] \in Requests /\ active_rooms_turn_id \in Nat
    BY DEF TypeInv, SlotType, PendingType, TurnType
<1>2. pending[prompt_in_flight].peer \in Peers
    BY <1>1 DEF Requests
<1>3. QED
    BY <1>1, <1>2 DEF turn_cancelled, frame, Frame

LEMMA SendCancelType ==
    ASSUME TypeInv, send_session_cancel
    PROVE  StdinType'
<1> DEFINE f == [type |-> "session/cancel", turn |-> active_rooms_turn_id,
                 session |-> active_turn_session_id]
<1>1. f \in AgentFrame
    BY DEF TypeInv, TurnType, AgentFrame
<1>2. QED
    BY <1>1, ToAgentType DEF TypeInv, send_session_cancel

-----------------------------------------------------------------------------
(***************************************************************************)
(* Every handler keeps the type invariant.                                 *)
(***************************************************************************)

LEMMA AttachTypes ==
    ASSUME TypeInv, NEW p \in Peers, attach(p)
    PROVE  TypeInv'
<1>1. ConnsType'
    BY FS_AddElement DEF TypeInv, ConnsType, attach
<1>2. LogType'
    <2>1. frame("peer_joined", p, 0) \in Frame
        BY DEF frame, Frame
    <2>2. <<frame("peer_joined", p, 0)>> \in Seq(Frame)
        BY <2>1
    <2>3. QED
        BY <2>2, BroadcastType DEF TypeInv, attach
<1>3. ListType'
    <2>1. IsFiniteSet(subscribers')
        BY <1>1 DEF ConnsType
    <2>2. publish_session_list_metadata(canonical_session_id, subscribers',
                                        driving_subscriber_peer_id) \in Listing
        BY <2>1, IndexType DEF TypeInv, SegmentType, ListType
    <2>3. QED
        BY <2>2 DEF TypeInv, ListType, attach
<1>4. QED
    BY <1>1, <1>2, <1>3, GroupsUnchanged DEF TypeInv, attach

\* Either road of a client that leaves.
LEMMA DetachTypes ==
    ASSUME TypeInv, NEW p \in Peers, handle_detach(p) \/ handle_detach_request(p)
    PROVE  TypeInv'
<1> DEFINE told == <<frame("peer_left", p, 0)>> \o orphans(p)
<1>1. detach(p)
    BY DEF handle_detach, handle_detach_request
<1>2. ConnsType'
    <2>1. IsFiniteSet(subscribers \ {p})
        BY FS_Subset DEF TypeInv, ConnsType
    <2>2. QED
        BY <1>1, <2>1 DEF TypeInv, ConnsType, detach, handle_detach, handle_detach_request
<1>3. told \in Seq(Frame)
    <2>1. OrphanFrame \subseteq Frame /\ frame("peer_left", p, 0) \in Frame
        BY DEF OrphanFrame, frame, Frame, QueueFrames
    <2>2. orphans(p) \in Seq(OrphanFrame)
        BY OrphansType DEF TypeInv, QueueType
    <2>3. orphans(p) \in Seq(Frame)
        BY <2>1, <2>2
    <2>4. QED
        BY <2>1, <2>3
<1>4. LogType'
    <2>1. CASE p \in subscribers
        BY <1>1, <1>3, <2>1, BroadcastType DEF TypeInv, detach, on_subscriber_detached
    <2>2. CASE p \notin subscribers
        BY <1>1, <2>2, GroupsUnchanged DEF TypeInv, detach
    <2>3. QED
        BY <2>1, <2>2
<1>5. ListType'
    <2>1. CASE p \in subscribers
        <3>1. driving_subscriber_peer_id' \in MaybePeer
            BY <1>1, <2>1 DEF TypeInv, ListType, MaybePeer, detach, on_subscriber_detached
        <3>2. IsFiniteSet(subscribers')
            BY <1>2 DEF ConnsType
        <3>3. publish_session_list_metadata(canonical_session_id, subscribers',
                                            driving_subscriber_peer_id') \in Listing
            BY <3>1, <3>2, IndexType DEF TypeInv, SegmentType, ListType
        <3>4. QED
            BY <1>1, <2>1, <3>1, <3>3 DEF ListType, detach, on_subscriber_detached
    <2>2. CASE p \notin subscribers
        BY <1>1, <2>2, GroupsUnchanged DEF TypeInv, detach
    <2>3. QED
        BY <2>1, <2>2
<1>6. QED
    BY <1>2, <1>4, <1>5, GroupsUnchanged DEF TypeInv, handle_detach, handle_detach_request

LEMMA ForwardTypes ==
    ASSUME TypeInv, NEW p \in Peers, NEW session \in MaybeSession,
           NEW method \in {"session/new", "session/load"},
           (session \in ClientSessions /\ forward_prompt(p, session))
                \/ forward_handshake(p, method, session)
    PROVE  TypeInv'
<1>1. CASE session \in ClientSessions /\ forward_prompt(p, session)
    <2> DEFINE asked == IF session # None THEN session ELSE canonical_session_id
    <2>1. asked \in MaybeSession
        BY DEF TypeInv, SegmentType
    <2>2. /\ allocate_mux_id(p, "session/prompt", asked, pending, per_request,
                             next_rooms_turn_id, 0)
          /\ start_turn(asked) /\ note_driving_subscriber(p)
        BY <1>1 DEF forward_prompt
    <2> HIDE DEF asked
    <2>3. SlotType' /\ TurnType' /\ SlotIsTurn' /\ StdinType'
        BY <2>1, <2>2, PromptType DEF TypeInv, SlotType
    <2>4. ListType'
        BY <2>2, DriverType DEF TypeInv
    <2>5. frame("turn_started", 0, next_rooms_turn_id) \in Frame
        BY DEF TypeInv, TurnType, frame, Frame
    <2>6. LogType'
        <3>1. <<frame("turn_started", 0, next_rooms_turn_id)>> \in Seq(Frame)
            BY <2>5
        <3>2. QED
            BY <1>1, <3>1, BroadcastType DEF TypeInv, forward_prompt
    <2>7. QED
        BY <1>1, <2>3, <2>4, <2>6, GroupsUnchanged DEF TypeInv, forward_prompt
<1>2. CASE forward_handshake(p, method, session)
    <2>1. method \in ClientRequests /\ method # "session/prompt"
        BY DEF ClientRequests
    <2>2. method = "session/load" => session \in Sessions
        BY <1>2 DEF forward_handshake, MaybeSession
    <2>3. /\ next_mux_id' \in Nat \ {0} /\ next_mux_id' = next_mux_id + 1
          /\ PendingType(pending)' /\ DataType(per_request)'
          /\ DOMAIN pending' \subseteq DOMAIN per_request'
          /\ \A m \in DOMAIN pending : m \in DOMAIN pending' /\ pending'[m] = pending[m]
          /\ StdinType'
        BY <1>2, <2>1, <2>2, AllocateType DEF TypeInv, SlotType, forward_handshake
    <2>4. SlotType' /\ SlotIsTurn'
        BY <1>2, <2>3 DEF TypeInv, SlotType, SlotIsTurn, forward_handshake, turnVars
    <2>5. ListType'
        BY <1>2, DriverType DEF TypeInv, forward_handshake
    <2>6. QED
        BY <1>2, <2>3, <2>4, <2>5, GroupsUnchanged DEF TypeInv, forward_handshake
<1>3. QED
    BY <1>1, <1>2

LEMMA QueueTypes ==
    ASSUME TypeInv, NEW p \in Peers, NEW requested \in ClientSessions,
           handle_rooms_queue_prompt_request(p, requested)
    PROVE  TypeInv'
<1> DEFINE item == [id |-> next_queue_item_id, peer |-> p, session |-> ControlSession(requested),
                    kind |-> "queue", supersedes |-> 0]
           queue == Enqueued(item)
           added == <<frame("queue_item_added", next_queue_item_id, 0)>>
<1>1. next_queue_item_id \in Nat \ {0} /\ next_queue_item_id' = next_queue_item_id + 1
    BY DEF TypeInv, QueueType, handle_rooms_queue_prompt_request
<1>2. item \in QueuedPrompt
    BY <1>1, SessionTypes DEF QueuedPrompt
<1>3. added \in Seq(Frame)
    <2>1. frame("queue_item_added", next_queue_item_id, 0) \in Frame
        BY <1>1 DEF frame, Frame, QueueFrames
    <2>2. QED
        BY <2>1
<1>4. queue \in Seq(QueuedPrompt) /\ queue # <<>>
    <2> HIDE DEF item
    <2>1. QED
        BY <1>2, AppendProperties DEF Enqueued, TypeInv, QueueType
<1>5. /\ submit_immediately => submit_next_queued_prompt(queue, added, pending, per_request)
      /\ ~submit_immediately => /\ queued_prompts' = queue /\ broadcast(added)
                                /\ UNCHANGED <<slotVars, turnVars, listVars, agent_stdin>>
      /\ UNCHANGED <<connVars, segmentVars, agent_pending>>
    BY DEF handle_rooms_queue_prompt_request
<1> HIDE DEF item, queue, added
<1>6. CASE submit_immediately
    <2>1. /\ SlotType' /\ TurnType' /\ SlotIsTurn' /\ StdinType' /\ ListType' /\ LogType'
          /\ queued_prompts' \in Seq(QueuedPrompt)
        BY <1>3, <1>4, <1>5, <1>6, SubmitType DEF TypeInv, SlotType
    <2>2. QED
        BY <1>1, <1>5, <2>1, GroupsUnchanged DEF TypeInv, QueueType
<1>7. CASE ~submit_immediately
    <2>1. LogType'
        BY <1>3, <1>5, <1>7, BroadcastType DEF TypeInv
    <2>2. QueueType'
        BY <1>1, <1>4, <1>5, <1>7 DEF QueueType
    <2>3. QED
        BY <1>5, <1>7, <2>1, <2>2, GroupsUnchanged DEF TypeInv
<1>8. QED
    BY <1>6, <1>7

LEMMA UnqueueTypes ==
    ASSUME TypeInv, NEW p \in Peers, handle_rooms_unqueue_prompt_request(p)
    PROVE  TypeInv'
<1>1. PICK k \in DOMAIN queued_prompts :
        /\ queued_prompts' = RemoveAt(queued_prompts, k)
        /\ broadcast(<<frame("queue_item_removed", queued_prompts[k].id, 0)>>)
    BY DEF handle_rooms_unqueue_prompt_request
<1>2. queued_prompts \in Seq(QueuedPrompt) /\ queued_prompts[k] \in QueuedPrompt
    BY DEF TypeInv, QueueType
<1>3. QueueType'
    <2>1. /\ SubSeq(queued_prompts, 1, k - 1) \in Seq(QueuedPrompt)
          /\ SubSeq(queued_prompts, k + 1, Len(queued_prompts)) \in Seq(QueuedPrompt)
        BY <1>2
    <2>2. queued_prompts' \in Seq(QueuedPrompt)
        BY <1>1, <2>1 DEF RemoveAt
    <2>3. QED
        BY <2>2 DEF TypeInv, QueueType, handle_rooms_unqueue_prompt_request
<1>4. LogType'
    <2>1. frame("queue_item_removed", queued_prompts[k].id, 0) \in Frame
        BY <1>2 DEF QueuedPrompt, frame, Frame, QueueFrames
    <2>2. <<frame("queue_item_removed", queued_prompts[k].id, 0)>> \in Seq(Frame)
        BY <2>1
    <2>3. QED
        BY <1>1, <2>2, BroadcastType DEF TypeInv
<1>5. QED
    BY <1>3, <1>4, GroupsUnchanged DEF TypeInv, handle_rooms_unqueue_prompt_request

LEMMA SteerTypes ==
    ASSUME TypeInv, NEW p \in Peers, NEW requested \in ClientSessions,
           handle_rooms_steer_request(p, requested)
                \/ handle_rooms_idle_steer_request(p, requested)
    PROVE  TypeInv'
<1>1. active_rooms_turn_id \in Nat /\ next_rooms_turn_id \in Nat /\ ControlSession(requested) \in MaybeSession
    BY SessionTypes DEF TypeInv, TurnType
<1>2. CASE handle_rooms_steer_request(p, requested)
    <2> DEFINE steer == [id |-> 0, peer |-> p, session |-> ControlSession(requested),
                         kind |-> "hard_steer", supersedes |-> active_rooms_turn_id]
    <2>1. steer \in QueuedPrompt
        BY <1>1 DEF QueuedPrompt
    <2>2. queued_prompts' = PutFirst(steer)
        BY <1>2 DEF handle_rooms_steer_request
    <2> HIDE DEF steer
    <2>3. QueueType'
        BY <1>2, <2>1, <2>2 DEF TypeInv, QueueType, PutFirst, Cons, handle_rooms_steer_request
    <2>4. LogType'
        <3>1. frame("hard_steer_submitted", p, active_rooms_turn_id) \in Frame
            BY <1>1 DEF frame, Frame
        <3>2. turn_cancelled \in Frame
            BY <1>2, CancelledFrame DEF handle_rooms_steer_request
        <3>3. <<frame("hard_steer_submitted", p, active_rooms_turn_id), turn_cancelled>> \in Seq(Frame)
            BY <3>1, <3>2
        <3>4. QED
            BY <1>2, <3>3, BroadcastType DEF TypeInv, handle_rooms_steer_request
    <2>5. StdinType'
        BY <1>2, SendCancelType DEF handle_rooms_steer_request
    <2>6. QED
        BY <1>2, <2>3, <2>4, <2>5, GroupsUnchanged DEF TypeInv, handle_rooms_steer_request
<1>3. CASE handle_rooms_idle_steer_request(p, requested)
    <2> DEFINE steer == [id |-> 0, peer |-> p, session |-> ControlSession(requested),
                         kind |-> "prompt", supersedes |-> 0]
               told == <<frame("idle_steer_submitted", p, next_rooms_turn_id)>>
    <2>1. steer \in QueuedPrompt
        BY <1>1 DEF QueuedPrompt
    <2>2. told \in Seq(Frame)
        <3>1. frame("idle_steer_submitted", p, next_rooms_turn_id) \in Frame
            BY <1>1 DEF frame, Frame
        <3>2. QED
            BY <3>1
    <2>3. submit_next_queued_prompt(PutFirst(steer), told, pending, per_request)
        BY <1>3 DEF handle_rooms_idle_steer_request
    <2> HIDE DEF steer, told
    <2>4. PutFirst(steer) \in Seq(QueuedPrompt) /\ PutFirst(steer) # <<>>
        BY <2>1 DEF TypeInv, QueueType, PutFirst, Cons
    <2>5. /\ SlotType' /\ TurnType' /\ SlotIsTurn' /\ StdinType' /\ ListType' /\ LogType'
          /\ queued_prompts' \in Seq(QueuedPrompt)
        BY <2>2, <2>3, <2>4, SubmitType DEF TypeInv, SlotType
    <2>6. QED
        BY <1>3, <2>5, GroupsUnchanged DEF TypeInv, QueueType, handle_rooms_idle_steer_request
<1>4. QED
    BY <1>2, <1>3

LEMMA CancelTypes ==
    ASSUME TypeInv, NEW p \in Peers, cancel_active_turn(p) \/ session_busy(p)
    PROVE  TypeInv'
<1>1. CASE cancel_active_turn(p)
    <2>1. turn_cancelled \in Frame
        BY <1>1, CancelledFrame DEF TypeInv, SlotIsTurn, cancel_active_turn
    <2>2. <<turn_cancelled>> \in Seq(Frame)
        BY <2>1
    <2>3. LogType'
        BY <1>1, <2>2, BroadcastType DEF TypeInv, cancel_active_turn
    <2>4. StdinType'
        BY <1>1, SendCancelType DEF cancel_active_turn
    <2>5. QED
        BY <1>1, <2>3, <2>4, GroupsUnchanged DEF TypeInv, cancel_active_turn
<1>2. CASE session_busy(p)
    <2>1. frame("session_busy", pending[prompt_in_flight].peer, 0) \in Frame
        BY <1>2, CancelledFrame DEF session_busy, frame, Frame
    <2>2. <<frame("session_busy", pending[prompt_in_flight].peer, 0)>> \in Seq(Frame)
        BY <2>1
    <2>3. LogType'
        BY <1>2, <2>2, BroadcastType DEF TypeInv, session_busy
    <2>4. QED
        BY <1>2, <2>3, GroupsUnchanged DEF TypeInv, session_busy
<1>3. QED
    BY <1>1, <1>2

LEMMA AskFrames ==
    ASSUME TypeInv, NEW a \in AskIds
    PROVE  opened(a) \in Frame /\ resolved(a) \in Frame /\ frame("agent_cancel", a, 0) \in Frame
BY DEF TypeInv, TurnType, opened, resolved, frame, Frame

LEMMA AskRecorded ==
    ASSUME AsksType, NEW a \in AskIds, NEW state \in {"InFlight", "Consumed"},
           agent_pending' = With(agent_pending, a, state)
    PROVE  AsksType'
<1>1. /\ DOMAIN agent_pending' = DOMAIN agent_pending \cup {a}
      /\ agent_pending'[a] = state
      /\ \A b \in DOMAIN agent_pending \ {a} : agent_pending'[b] = agent_pending[b]
    BY DEF With
<1>2. IsFiniteSet(DOMAIN agent_pending \cup {a})
    BY FS_AddElement DEF AsksType
<1>3. QED
    BY <1>1, <1>2 DEF AsksType

LEMMA AskTypes ==
    ASSUME TypeInv, NEW a \in AskIds,
           \/ \E p \in Peers : gate_subscriber_response(p, a)
           \/ handle_agent_request(a) \/ handle_agent_cancel(a)
    PROVE  TypeInv'
<1>1. AsksType'
    BY AskRecorded
    DEF TypeInv, gate_subscriber_response, handle_agent_request, handle_agent_cancel
<1>2. ASSUME NEW p \in Peers, gate_subscriber_response(p, a)
      PROVE  TypeInv'
    <2>1. <<resolved(a)>> \in Seq(Frame)
        BY AskFrames
    <2>2. LogType'
        BY <1>2, <2>1, BroadcastType DEF TypeInv, gate_subscriber_response
    <2>3. [type |-> "reply", ask |-> a] \in AgentFrame
        BY DEF AgentFrame
    <2>4. StdinType'
        BY <1>2, <2>3, ToAgentType DEF TypeInv, gate_subscriber_response
    <2>5. QED
        BY <1>1, <1>2, <2>2, <2>4, GroupsUnchanged DEF TypeInv, gate_subscriber_response
<1>3. CASE handle_agent_request(a)
    <2>1. <<opened(a)>> \in Seq(Frame)
        BY AskFrames
    <2>2. LogType'
        BY <1>3, <2>1, BroadcastType DEF TypeInv, handle_agent_request
    <2>3. IsFiniteSet({q \in subscribers : conns[q] = "open"})
        BY FS_Subset DEF TypeInv, ConnsType
    <2>4. ConnsType'
        BY <1>3, <2>3 DEF TypeInv, ConnsType, handle_agent_request
    <2>5. QED
        BY <1>1, <1>3, <2>2, <2>4, GroupsUnchanged DEF TypeInv, handle_agent_request
<1>4. CASE handle_agent_cancel(a)
    <2>1. <<frame("agent_cancel", a, 0), resolved(a)>> \in Seq(Frame)
        BY AskFrames
    <2>2. LogType'
        BY <1>4, <2>1, BroadcastType DEF TypeInv, handle_agent_cancel
    <2>3. QED
        BY <1>1, <1>4, <2>2, GroupsUnchanged DEF TypeInv, handle_agent_cancel
<1>5. QED
    BY <1>2, <1>3, <1>4

\* Any order in which the sweep gives up the agent's requests.
LEMMA SweepType ==
    ASSUME TypeInv, NEW stale \in sweep_stale_agent_pending
    PROVE  /\ [k \in DOMAIN stale |-> resolved(stale[k])] \in Seq(Frame)
           /\ stale \in Seq(Unresolved)
<1>1. IsFiniteSet(Unresolved) /\ Unresolved \subseteq AskIds
    BY FS_Subset DEF TypeInv, AsksType, Unresolved
<1>2. Cardinality(Unresolved) \in Nat
    BY <1>1, FS_CardinalityType
<1>3. stale \in [1..Cardinality(Unresolved) -> Unresolved]
    BY DEF sweep_stale_agent_pending, SetToSeqs
<1>4. \A k \in DOMAIN stale : resolved(stale[k]) \in Frame
    BY <1>1, <1>3, AskFrames
<1>5. DOMAIN stale = 1..Cardinality(Unresolved)
    BY <1>3
<1>6. QED
    BY <1>2, <1>3, <1>4, <1>5

LEMMA WithoutTypes ==
    ASSUME SlotType, NEW m
    PROVE  /\ PendingType(Without(pending, m)) /\ DataType(Without(per_request, m))
           /\ DOMAIN Without(pending, m) \subseteq DOMAIN Without(per_request, m)
           /\ DOMAIN Without(pending, m) \subseteq DOMAIN per_request
<1>1. /\ DOMAIN Without(pending, m) = DOMAIN pending \ {m}
      /\ \A n \in DOMAIN pending \ {m} : Without(pending, m)[n] = pending[n]
    BY WithoutEntry
<1>2. /\ DOMAIN Without(per_request, m) = DOMAIN per_request \ {m}
      /\ \A n \in DOMAIN per_request \ {m} : Without(per_request, m)[n] = per_request[n]
    BY WithoutEntry
<1>3. PendingType(Without(pending, m))
    BY <1>1 DEF SlotType, PendingType
<1>4. DataType(Without(per_request, m))
    BY <1>2 DEF SlotType, DataType
<1>5. QED
    BY <1>1, <1>2, <1>3, <1>4 DEF SlotType

LEMMA SettleTypes ==
    ASSUME TypeInv, prompt_settles
    PROVE  TypeInv'
<1> DEFINE turn == active_rooms_turn_id
           item == per_request[prompt_in_flight].item
           others == Without(pending, prompt_in_flight)
           data == Without(per_request, prompt_in_flight)
           complete == <<frame("turn_complete", 0, turn)>>
                \o IF item = 0 THEN <<>> ELSE <<frame("queue_item_completed", item, turn)>>
<1>1. PICK stale \in sweep_stale_agent_pending :
        LET swept == [k \in DOMAIN stale |-> resolved(stale[k])]
        IN IF queued_prompts # <<>>
           THEN submit_next_queued_prompt(queued_prompts, swept \o complete, others, data)
           ELSE /\ broadcast(swept \o complete)
                /\ prompt_in_flight' = 0
                /\ pending' = others /\ per_request' = data
                /\ active_rooms_turn_id' = 0 /\ active_turn_session_id' = None
                /\ UNCHANGED <<next_mux_id, next_rooms_turn_id, queued_prompts,
                               listVars, agent_stdin>>
    BY DEF prompt_settles
<1> DEFINE swept == [k \in DOMAIN stale |-> resolved(stale[k])]
<1>2. swept \in Seq(Frame)
    BY SweepType
<1>3. prompt_in_flight \in DOMAIN per_request
    BY DEF prompt_settles, TypeInv, SlotType
<1>4. item \in Nat /\ turn \in Nat
    BY <1>3 DEF TypeInv, SlotType, DataType, TurnType
<1>5. complete \in Seq(Frame)
    <2>1. frame("turn_complete", 0, turn) \in Frame
        BY <1>4 DEF frame, Frame
    <2>2. frame("queue_item_completed", item, turn) \in Frame
        BY <1>4 DEF frame, Frame, QueueFrames
    <2> HIDE DEF item, turn
    <2>3. QED
        BY <2>1, <2>2
<1>6. PendingType(others) /\ DataType(data) /\ DOMAIN others \subseteq DOMAIN data
    BY WithoutTypes DEF TypeInv
<1>7. AsksType'
    BY DEF TypeInv, AsksType, prompt_settles
<1>8. UNCHANGED <<connVars, next_queue_item_id, segmentVars>>
    BY DEF prompt_settles
<1> HIDE DEF turn, item, others, data, complete, swept
<1>9. swept \o complete \in Seq(Frame)
    BY <1>2, <1>5
<1>10. CASE queued_prompts # <<>>
    <2>1. submit_next_queued_prompt(queued_prompts, swept \o complete, others, data)
        BY <1>1, <1>10 DEF swept
    <2>2. /\ SlotType' /\ TurnType' /\ SlotIsTurn' /\ StdinType' /\ ListType' /\ LogType'
          /\ queued_prompts' \in Seq(QueuedPrompt)
        BY <1>6, <1>9, <1>10, <2>1, SubmitType DEF TypeInv, QueueType
    <2>3. QED
        BY <1>7, <1>8, <2>2, GroupsUnchanged DEF TypeInv, QueueType
<1>11. CASE queued_prompts = <<>>
    <2>1. /\ broadcast(swept \o complete)
          /\ prompt_in_flight' = 0 /\ pending' = others /\ per_request' = data
          /\ active_rooms_turn_id' = 0 /\ active_turn_session_id' = None
          /\ UNCHANGED <<next_mux_id, next_rooms_turn_id, queued_prompts, listVars, agent_stdin>>
        BY <1>1, <1>11 DEF swept
    <2>2. LogType'
        BY <1>9, <2>1, BroadcastType DEF TypeInv
    <2>3. SlotType'
        BY <1>6, <2>1 DEF TypeInv, SlotType, PendingType, DataType
    <2>4. TurnType' /\ SlotIsTurn'
        BY <2>1 DEF TypeInv, TurnType, SlotIsTurn, MaybeSession
    <2>5. QueueType'
        BY <1>8, <2>1 DEF TypeInv, QueueType
    <2>6. QED
        BY <1>7, <1>8, <2>1, <2>2, <2>3, <2>4, <2>5, GroupsUnchanged DEF TypeInv
<1>12. QED
    BY <1>10, <1>11

\* What a rotation makes of log, segments, queue and tag.
LEMMA RotationTypes ==
    ASSUME TypeInv, NEW session \in Sessions
    PROVE  LET r == rotate_segment(session)
           IN /\ r.log \in Seq(Entry)
              /\ r.segments \in Seq([acp : Sessions, opened : Nat, closed : Nat])
              /\ r.queue \in Seq(QueuedPrompt)
              /\ r.tag \in Nat
<1> DEFINE last == Len(segments)
           ended == IF EmitSegmentFrames /\ last # 0
                    THEN Tagged(<<frame("segment_ended", last, 0)>>, last) ELSE <<>>
           started == IF EmitSegmentFrames
                      THEN Tagged(<<frame("segment_started", last + 1, 0)>>, last + 1) ELSE <<>>
           log == replay_log \o ended
           Segments == [acp : Sessions, opened : Nat, closed : Nat]
           new == [acp |-> session, opened |-> Len(log) + 1, closed |-> 0]
<1>1. last \in Nat /\ segments \in Seq(Segments)
    BY DEF TypeInv, SegmentType
<1>2. /\ frame("segment_ended", last, 0) \in Frame
      /\ frame("segment_started", last + 1, 0) \in Frame
    BY <1>1 DEF frame, Frame
<1>3. /\ ended \in Seq(Entry) /\ started \in Seq(Entry)
    <2>1. \A f \in Frame, t \in Nat : Tagged(<<f>>, t) \in Seq(Entry)
        <3>1. TAKE f \in Frame, t \in Nat
        <3> DEFINE e == [frame |-> f, tag |-> t]
        <3>2. Tagged(<<f>>, t) = <<e>>
            BY DEF Tagged
        <3>3. e \in Entry
            BY DEF Entry
        <3> HIDE DEF e
        <3>4. <<e>> \in Seq(Entry)
            BY <3>3
        <3>5. QED
            BY <3>2, <3>4
    <2> HIDE DEF last
    <2>2. QED
        BY <1>1, <1>2, <2>1
<1>4. log \in Seq(Entry) /\ log \o started \in Seq(Entry)
    <2> HIDE DEF ended, started
    <2>1. QED
        BY <1>3 DEF TypeInv, LogType
<1>5. new \in Segments /\ Len(log) \in Nat
    <2> HIDE DEF log
    <2>1. QED
        BY <1>4
<1>6. close_segment(log) \in Seq(Segments)
    <2>1. CASE segments = <<>>
        BY <1>1, <2>1 DEF close_segment
    <2>2. CASE segments # <<>>
        <3> DEFINE n == Len(segments)
                   x == [segments[n] EXCEPT !.closed = Len(log)]
        <3>1. close_segment(log) = [segments EXCEPT ![n] = x]
            BY <1>1, <2>2 DEF close_segment
        <3>2. n \in 1..Len(segments) /\ segments[n] \in Segments
            <4> HIDE DEF Segments
            <4>1. QED
                BY <1>1, <2>2
        <3>3. x \in Segments
            BY <1>5, <3>2
        <3> HIDE DEF n, x, Segments
        <3>4. QED
            BY <1>1, <3>1, <3>2, <3>3
    <2>3. QED
        BY <2>1, <2>2
<1>7. Append(close_segment(log), new) \in Seq(Segments)
    <2> HIDE DEF log, new, Segments
    <2>1. QED
        BY <1>5, <1>6, AppendProperties
<1>8. retarget(session) \in Seq(QueuedPrompt)
    <2>1. \A k \in DOMAIN queued_prompts :
            [queued_prompts[k] EXCEPT !.session = session] \in QueuedPrompt
        <3>1. session \in MaybeSession
            BY DEF MaybeSession
        <3>2. \A k \in DOMAIN queued_prompts : queued_prompts[k] \in QueuedPrompt
            BY DEF TypeInv, QueueType
        <3>3. \A q \in QueuedPrompt : [q EXCEPT !.session = session] \in QueuedPrompt
            BY <3>1 DEF QueuedPrompt
        <3>4. QED
            BY <3>2, <3>3
    <2>2. QED
        BY <2>1 DEF retarget, TypeInv, QueueType
<1>9. /\ rotate_segment(session).log = log \o started
      /\ rotate_segment(session).segments = Append(close_segment(log), new)
      /\ rotate_segment(session).queue = retarget(session)
      /\ rotate_segment(session).tag = last + 1
    BY DEF rotate_segment
<1> HIDE DEF log, started, new
<1>10. QED
    BY <1>1, <1>4, <1>7, <1>8, <1>9

LEMMA SessionMoveTypes ==
    ASSUME TypeInv, NEW session \in Sessions, NEW via_load \in BOOLEAN,
           NEW frames \in Seq(Frame), set_canonical_session_id(session, via_load, frames)
    PROVE  /\ SegmentType' /\ LogType' /\ queued_prompts' \in Seq(QueuedPrompt)
           /\ session_list_index' \in Listing
<1> DEFINE heard == canonical_session_id # session \/ via_load
           r == IF heard THEN on_canonical_session_id(session, via_load) ELSE unmoved
<1>1. /\ r.log \in Seq(Entry)
      /\ r.segments \in Seq([acp : Sessions, opened : Nat, closed : Nat])
      /\ r.queue \in Seq(QueuedPrompt)
      /\ r.tag \in Nat
    <2>1. /\ unmoved.log \in Seq(Entry)
          /\ unmoved.segments \in Seq([acp : Sessions, opened : Nat, closed : Nat])
          /\ unmoved.queue \in Seq(QueuedPrompt)
          /\ unmoved.tag \in Nat
        BY DEF unmoved, TypeInv, LogType, SegmentType, QueueType
    <2>2. CASE heard /\ segment_follows(session, via_load)
        <3>1. r = rotate_segment(session)
            BY <2>2 DEF on_canonical_session_id
        <3>2. QED
            BY <3>1, RotationTypes
    <2>3. CASE ~(heard /\ segment_follows(session, via_load))
        <3>1. r = unmoved
            BY <2>3 DEF on_canonical_session_id
        <3>2. QED
            BY <2>1, <3>1
    <2>4. QED
        BY <2>2, <2>3
<1>2. /\ canonical_session_id' = session
      /\ segments' = r.segments /\ queued_prompts' = r.queue /\ replay_tag' = r.tag
      /\ replay_log' = r.log \o Tagged(frames, r.tag)
      /\ session_list_index' =
            IF heard THEN publish_session_list_metadata(session, subscribers,
                                                        driving_subscriber_peer_id)
            ELSE session_list_index
    BY DEF set_canonical_session_id
<1> HIDE DEF r, heard
<1>3. Tagged(frames, r.tag) \in Seq(Entry)
    <2>1. \A k \in 1..Len(frames) : [frame |-> frames[k], tag |-> r.tag] \in Entry
        BY <1>1 DEF Entry
    <2>2. Tagged(frames, r.tag) = [k \in 1..Len(frames) |-> [frame |-> frames[k], tag |-> r.tag]]
        BY DEF Tagged
    <2>3. QED
        BY <2>1, <2>2
<1>4. session \in MaybeSession
    BY DEF MaybeSession
<1>5. publish_session_list_metadata(session, subscribers, driving_subscriber_peer_id) \in Listing
    BY <1>4, IndexType DEF TypeInv, ConnsType, ListType
<1>6. session_list_index \in Listing
    BY DEF TypeInv, ListType
<1>7. QED
    BY <1>1, <1>2, <1>3, <1>4, <1>5, <1>6 DEF SegmentType, LogType

LEMMA SessionTypesKept ==
    ASSUME TypeInv,
           \/ \E m \in DOMAIN pending : handshake_succeeds(m) \/ handshake_fails(m)
           \/ \E s \in Switches : handle_agent_notification(s)
    PROVE  TypeInv'
<1>1. ASSUME NEW m \in DOMAIN pending, pending[m].method \in {"session/new", "session/load"},
             pending' = Without(pending, m),
             UNCHANGED <<next_mux_id, prompt_in_flight, per_request, turnVars>>
      PROVE  SlotType' /\ TurnType' /\ SlotIsTurn'
    <2>1. /\ PendingType(Without(pending, m))
          /\ DOMAIN Without(pending, m) \subseteq DOMAIN per_request
        BY WithoutTypes DEF TypeInv
    <2>2. m # prompt_in_flight
        BY <1>1 DEF TypeInv, SlotType, PendingType
    <2>3. /\ DOMAIN pending' = DOMAIN pending \ {m}
          /\ \A n \in DOMAIN pending \ {m} : pending'[n] = pending[n]
        BY <1>1, WithoutEntry
    <2>4. SlotType'
        BY <1>1, <2>1, <2>2, <2>3 DEF TypeInv, SlotType, PendingType, DataType
    <2>5. QED
        BY <1>1, <2>4 DEF TypeInv, TurnType, SlotIsTurn, turnVars
<1>2. ASSUME NEW m \in DOMAIN pending, handshake_succeeds(m)
      PROVE  TypeInv'
    <2>1. PICK session \in Sessions :
            set_canonical_session_id(session, pending[m].method = "session/load", <<>>)
        BY <1>2 DEF handshake_succeeds, TypeInv, SlotType, PendingType
    <2>2. <<>> \in Seq(Frame) /\ (pending[m].method = "session/load") \in BOOLEAN
        OBVIOUS
    <2>3. /\ SegmentType' /\ LogType' /\ queued_prompts' \in Seq(QueuedPrompt)
          /\ session_list_index' \in Listing
        BY <2>1, <2>2, SessionMoveTypes
    <2>4. SlotType' /\ TurnType' /\ SlotIsTurn'
        BY <1>1, <1>2 DEF handshake_succeeds
    <2>5. QED
        BY <1>2, <2>3, <2>4, GroupsUnchanged DEF TypeInv, QueueType, ListType, handshake_succeeds
<1>3. ASSUME NEW m \in DOMAIN pending, handshake_fails(m)
      PROVE  TypeInv'
    <2>1. SlotType' /\ TurnType' /\ SlotIsTurn'
        BY <1>1, <1>3 DEF handshake_fails
    <2>2. QED
        BY <1>3, <2>1, GroupsUnchanged DEF TypeInv, handshake_fails
<1>4. ASSUME NEW s \in Switches, handle_agent_notification(s)
      PROVE  TypeInv'
    <2> DEFINE told == <<frame("agent_notification", s, 0)>>
    <2>1. s \in MaybeSession
        BY RoomsConstantsOK DEF MaybeSession
    <2>2. told \in Seq(Frame)
        <3>1. frame("agent_notification", s, 0) \in Frame
            BY <2>1 DEF frame, Frame
        <3>2. QED
            BY <3>1
    <2>3. CASE canonical_session_id # None /\ s \notin {None, canonical_session_id}
        <3>1. s \in Sessions /\ set_canonical_session_id(s, FALSE, told)
            BY <1>4, <2>1, <2>3 DEF handle_agent_notification, MaybeSession
        <3>2. /\ SegmentType' /\ LogType' /\ queued_prompts' \in Seq(QueuedPrompt)
              /\ session_list_index' \in Listing
            BY <2>2, <3>1, SessionMoveTypes
        <3>3. QED
            BY <1>4, <3>2, GroupsUnchanged
            DEF TypeInv, QueueType, ListType, handle_agent_notification
    <2>4. CASE ~(canonical_session_id # None /\ s \notin {None, canonical_session_id})
        <3>1. broadcast(told) /\ UNCHANGED <<segmentVars, queued_prompts, session_list_index>>
            BY <1>4, <2>4 DEF handle_agent_notification
        <3>2. LogType'
            BY <2>2, <3>1, BroadcastType DEF TypeInv
        <3>3. QED
            BY <1>4, <3>1, <3>2, GroupsUnchanged
            DEF TypeInv, QueueType, ListType, handle_agent_notification
    <2>5. QED
        BY <2>3, <2>4
<1>5. QED
    BY <1>2, <1>3, <1>4

-----------------------------------------------------------------------------

LEMMA TypesKept == TypeInv /\ [Next]_vars => TypeInv'
<1> SUFFICES ASSUME TypeInv, [Next]_vars
             PROVE  TypeInv'
    OBVIOUS
<1>1. ASSUME NEW p \in Peers, PeerStep(p)
      PROVE  TypeInv'
    <2>1. CASE ws_closes(p)
        <3>1. ConnsType'
            BY <2>1 DEF TypeInv, ConnsType, ws_closes
        <3>2. QED
            BY <2>1, <3>1, GroupsUnchanged DEF TypeInv, ws_closes
    <2>2. ASSUME NEW s \in ClientSessions,
                 forward_prompt(p, s) \/ handle_rooms_queue_prompt_request(p, s)
                    \/ handle_rooms_steer_request(p, s) \/ handle_rooms_idle_steer_request(p, s)
          PROVE  TypeInv'
        <3>1. s \in MaybeSession
            BY SessionTypes
        <3>2. QED
            BY <2>2, <3>1, ForwardTypes, QueueTypes, SteerTypes
    <2>3. CASE \/ forward_handshake(p, "session/new", None)
               \/ \E s \in Sessions : forward_handshake(p, "session/load", s)
        BY <2>3, ForwardTypes DEF MaybeSession
    <2>4. QED
        BY <1>1, <2>1, <2>2, <2>3, AttachTypes, DetachTypes, UnqueueTypes, CancelTypes, AskTypes
        DEF PeerStep
<1>2. CASE AgentStep
    BY <1>2, SettleTypes, SessionTypesKept, AskTypes DEF AgentStep
<1>3. CASE UNCHANGED vars
    BY <1>3, GroupsUnchanged DEF TypeInv, vars
<1>4. QED
    BY <1>1, <1>2, <1>3 DEF Next

LEMMA TypesHold == Spec => []TypeInv
BY InitTypeInv, TypesKept, PTL DEF Spec

\* Every variable keeps its type in every handler.  To be inductive it needs
\* that a session/load names its session, that the prompt in flight is known
\* to pending and has its request data, which on_prompt_settled relies on,
\* and that the agent's open requests are finitely many, so that the sweep
\* at the end of a turn can list them.
THEOREM RoomsTypeCorrect == Spec => []TypeOK
BY TypesHold, TypeInvImpliesType, PTL

-----------------------------------------------------------------------------
(***************************************************************************)
(* Growing logs.                                                           *)
(***************************************************************************)

\* The positions of a log with one of these methods.
At(log, methods) == {k \in DOMAIN log : log[k].frame.method \in methods}

\* No frame of a piece has one of these methods.
Without_(new, methods) == \A k \in DOMAIN new : new[k].frame.method \notin methods

LEMMA Grown ==
    ASSUME NEW log \in Seq(Entry), NEW new \in Seq(Entry)
    PROVE  /\ log \o new \in Seq(Entry)
           /\ Len(log) \in Nat /\ Len(new) \in Nat /\ Len(log \o new) = Len(log) + Len(new)
           /\ DOMAIN log = 1..Len(log) /\ DOMAIN new = 1..Len(new)
           /\ DOMAIN (log \o new) = 1..Len(log) + Len(new)
           /\ \A k \in 1..Len(log) : (log \o new)[k] = log[k]
           /\ \A k \in 1..Len(new) : (log \o new)[Len(log) + k] = new[k]
           /\ \A k \in DOMAIN (log \o new) :
                k \in 1..Len(log) \/ (k - Len(log) \in 1..Len(new) /\ k > Len(log)
                                      /\ (log \o new)[k] = new[k - Len(log)])
<1>1. /\ log \o new \in Seq(Entry)
      /\ Len(log \o new) = Len(log) + Len(new)
      /\ \A k \in 1..Len(log) + Len(new) :
            (log \o new)[k] = IF k <= Len(log) THEN log[k] ELSE new[k - Len(log)]
    BY ConcatProperties
<1>2. QED
    BY <1>1

\* Without frames of these methods, their positions stay.
LEMMA PositionsStay ==
    ASSUME NEW log \in Seq(Entry), NEW new \in Seq(Entry), NEW methods, Without_(new, methods)
    PROVE  /\ At(log \o new, methods) = At(log, methods)
           /\ \A k \in At(log, methods) : (log \o new)[k] = log[k]
BY Grown DEF At, Without_

\* A piece of one frame.
LEMMA One ==
    ASSUME NEW f \in Frame, NEW tag \in Nat
    PROVE  /\ Tagged(<<f>>, tag) \in Seq(Entry)
           /\ Tagged(<<f>>, tag) = <<[frame |-> f, tag |-> tag]>>
           /\ Len(Tagged(<<f>>, tag)) = 1 /\ Tagged(<<f>>, tag)[1] = [frame |-> f, tag |-> tag]
           /\ DOMAIN Tagged(<<f>>, tag) = {1} /\ Tagged(<<f>>, tag)[1].frame = f
<1> DEFINE e == [frame |-> f, tag |-> tag]
<1>1. Tagged(<<f>>, tag) = <<e>>
    BY DEF Tagged
<1>2. e \in Entry
    BY DEF Entry
<1> HIDE DEF e
<1>3. <<e>> \in Seq(Entry) /\ Len(<<e>>) = 1 /\ <<e>>[1] = e /\ DOMAIN <<e>> = {1}
    BY <1>2
<1>4. e.frame = f
    BY DEF e
<1>5. QED
    BY <1>1, <1>3, <1>4 DEF e

LEMMA TaggedType ==
    ASSUME NEW frames \in Seq(Frame), NEW tag \in Nat
    PROVE  /\ Tagged(frames, tag) \in Seq(Entry)
           /\ DOMAIN Tagged(frames, tag) = 1..Len(frames)
           /\ Len(Tagged(frames, tag)) = Len(frames) /\ Len(frames) \in Nat
           /\ \A k \in 1..Len(frames) :
                Tagged(frames, tag)[k].frame = frames[k] /\ Tagged(frames, tag)[k].tag = tag
<1>1. \A k \in 1..Len(frames) : [frame |-> frames[k], tag |-> tag] \in Entry
    BY DEF Entry
<1>2. Tagged(frames, tag) = [k \in 1..Len(frames) |-> [frame |-> frames[k], tag |-> tag]]
    BY DEF Tagged
<1>3. QED
    BY <1>1, <1>2

Associates(a, b, c) == (a \o b) \o c = a \o (b \o c)

LEMMA EntriesAssociate ==
    ASSUME NEW a \in Seq(Entry), NEW b \in Seq(Entry), NEW c \in Seq(Entry)
    PROVE  Associates(a, b, c)
BY ConcatAssociative DEF Associates

\* What is broadcast in one go is broadcast in pieces.
LEMMA Pieces ==
    ASSUME NEW log \in Seq(Entry), NEW tag \in Nat, NEW f \in Seq(Frame), NEW g \in Seq(Frame)
    PROVE  log \o Tagged(f \o g, tag) = (log \o Tagged(f, tag)) \o Tagged(g, tag)
<1> DEFINE a == Tagged(f, tag)
           b == Tagged(g, tag)
<1>1. a \in Seq(Entry) /\ b \in Seq(Entry) /\ Len(a) = Len(f) /\ Len(b) = Len(g)
    BY TaggedType
<1>2. Tagged(f \o g, tag) = a \o b
    <2> DEFINE c == Tagged(f \o g, tag)
    <2>1. f \o g \in Seq(Frame) /\ Len(f \o g) = Len(f) + Len(g)
        OBVIOUS
    <2>2. c \in Seq(Entry) /\ Len(c) = Len(f) + Len(g)
        <3> HIDE DEF c
        <3>1. Tagged(f \o g, tag) \in Seq(Entry) /\ Len(Tagged(f \o g, tag)) = Len(f \o g)
            BY <2>1, TaggedType
        <3>2. QED
            BY <2>1, <3>1 DEF c
    <2>3. a \o b \in Seq(Entry) /\ Len(a \o b) = Len(f) + Len(g)
        <3> HIDE DEF a, b, c
        <3>1. a \in Seq(Entry) /\ b \in Seq(Entry)
            BY <1>1
        <3>2. a \o b \in Seq(Entry) /\ Len(a \o b) = Len(a) + Len(b)
            BY <3>1, ConcatProperties
        <3>3. QED
            BY <1>1, <3>2
    <2>4. ASSUME NEW k \in 1..Len(f) + Len(g)
          PROVE  c[k] = (a \o b)[k]
        <3>1. c[k] = [frame |-> (f \o g)[k], tag |-> tag]
            BY <2>1 DEF Tagged
        <3>2. CASE k <= Len(f)
            <4>1. k \in 1..Len(f) /\ (f \o g)[k] = f[k]
                BY <3>2
            <4>2. a[k] = [frame |-> f[k], tag |-> tag]
                BY <4>1 DEF Tagged
            <4> HIDE DEF a, b, c
            <4>3. (a \o b)[k] = a[k]
                BY <1>1, <3>2, ConcatProperties
            <4>4. QED
                BY <3>1, <4>1, <4>2, <4>3
        <3>3. CASE k > Len(f)
            <4>1. k - Len(f) \in 1..Len(g) /\ (f \o g)[k] = g[k - Len(f)]
                BY <3>3
            <4>2. b[k - Len(f)] = [frame |-> g[k - Len(f)], tag |-> tag]
                BY <4>1 DEF Tagged
            <4> HIDE DEF a, b, c
            <4>3. (a \o b)[k] = b[k - Len(f)]
                BY <1>1, <3>3, ConcatProperties
            <4>4. QED
                BY <3>1, <4>1, <4>2, <4>3
        <3>4. k <= Len(f) \/ k > Len(f)
            OBVIOUS
        <3> HIDE DEF a, b, c
        <3>5. QED
            BY <3>2, <3>3, <3>4
    <2> HIDE DEF a, b, c
    <2>5. a \o b = c
        BY <2>2, <2>3, <2>4, SeqEqual
    <2>6. QED
        BY <2>5 DEF c
<1> HIDE DEF a, b
<1>3. log \o (a \o b) = (log \o a) \o b
    <2>1. Associates(log, a, b)
        BY <1>1, EntriesAssociate
    <2>2. QED
        BY <2>1 DEF Associates
<1>4. QED
    BY <1>2, <1>3 DEF a, b

InPieces(log, f, g, tag) ==
    log \o Tagged(f \o g, tag) = (log \o Tagged(f, tag)) \o Tagged(g, tag)

LEMMA PiecesJoin ==
    ASSUME NEW log \in Seq(Entry), NEW tag \in Nat, NEW f \in Seq(Frame), NEW g \in Seq(Frame)
    PROVE  InPieces(log, f, g, tag)
BY Pieces DEF InPieces

LEMMA BroadcastPieces ==
    ASSUME TypeInv, NEW f \in Seq(Frame), NEW g \in Seq(Frame), broadcast(f \o g)
    PROVE  /\ replay_log \o Tagged(f, replay_tag) \in Seq(Entry)
           /\ Tagged(f, replay_tag) \in Seq(Entry) /\ Tagged(g, replay_tag) \in Seq(Entry)
           /\ replay_log' = (replay_log \o Tagged(f, replay_tag)) \o Tagged(g, replay_tag)
<1>1. replay_log \in Seq(Entry) /\ replay_tag \in Nat
    BY DEF TypeInv, LogType, SegmentType
<1>2. Tagged(f, replay_tag) \in Seq(Entry) /\ Tagged(g, replay_tag) \in Seq(Entry)
    BY <1>1, TaggedType
<1>3. replay_log' = (replay_log \o Tagged(f, replay_tag)) \o Tagged(g, replay_tag)
    BY <1>1, Pieces DEF broadcast
<1>4. QED
    BY <1>1, <1>2, <1>3, Grown

\* The frames of a submission: what comes before, the start of the turn, and
\* the submission of the item, if it is one.
TurnStarted(item) == frame("turn_started", item.supersedes, next_rooms_turn_id)
Submitted(item) ==
    IF item.id = 0 THEN <<>> ELSE <<frame("queue_item_submitted", item.id, next_rooms_turn_id)>>

LEMMA SubmitPieces ==
    ASSUME TypeInv, NEW queue \in Seq(QueuedPrompt), queue # <<>>, NEW before \in Seq(Frame),
           NEW others, NEW data, submit_next_queued_prompt(queue, before, others, data)
    PROVE  LET item == Head(queue)
               first == replay_log \o Tagged(before, replay_tag)
               second == first \o Tagged(<<TurnStarted(item)>>, replay_tag)
           IN /\ item \in QueuedPrompt
              /\ TurnStarted(item) \in Frame /\ Submitted(item) \in Seq(Frame)
              /\ Tagged(before, replay_tag) \in Seq(Entry)
              /\ Tagged(<<TurnStarted(item)>>, replay_tag) \in Seq(Entry)
              /\ Tagged(Submitted(item), replay_tag) \in Seq(Entry)
              /\ first \in Seq(Entry) /\ second \in Seq(Entry)
              /\ replay_log' = second \o Tagged(Submitted(item), replay_tag)
<1> DEFINE item == Head(queue)
           first == replay_log \o Tagged(before, replay_tag)
           second == first \o Tagged(<<TurnStarted(item)>>, replay_tag)
<1>1. item \in QueuedPrompt
    BY TailType
<1>2. next_rooms_turn_id \in Nat /\ replay_tag \in Nat /\ replay_log \in Seq(Entry)
    BY DEF TypeInv, TurnType, SegmentType, LogType
<1>3. item.supersedes \in Nat /\ item.id \in Nat
    BY <1>1 DEF QueuedPrompt
<1>4. TurnStarted(item) \in Frame
    BY <1>2, <1>3 DEF TurnStarted, frame, Frame
<1>5. frame("queue_item_submitted", item.id, next_rooms_turn_id) \in Frame
    BY <1>2, <1>3 DEF frame, Frame, QueueFrames
<1>6. broadcast(before \o <<TurnStarted(item)>> \o Submitted(item))
    BY DEF submit_next_queued_prompt, TurnStarted, Submitted
<1> HIDE DEF item
<1>7. Submitted(item) \in Seq(Frame)
    <2>1. <<frame("queue_item_submitted", item.id, next_rooms_turn_id)>> \in Seq(Frame)
        BY <1>5
    <2>2. QED
        BY <2>1 DEF Submitted
<1>8. before \o <<TurnStarted(item)>> \in Seq(Frame) /\ <<TurnStarted(item)>> \in Seq(Frame)
    BY <1>4
<1>9. replay_log' = (replay_log \o Tagged(before \o <<TurnStarted(item)>>, replay_tag))
                        \o Tagged(Submitted(item), replay_tag)
    BY <1>6, <1>7, <1>8, BroadcastPieces
<1>10. replay_log \o Tagged(before \o <<TurnStarted(item)>>, replay_tag) = second
    BY <1>2, <1>8, Pieces
<1>11. /\ Tagged(before, replay_tag) \in Seq(Entry)
       /\ Tagged(<<TurnStarted(item)>>, replay_tag) \in Seq(Entry)
       /\ Tagged(Submitted(item), replay_tag) \in Seq(Entry)
    BY <1>2, <1>7, <1>8, TaggedType
<1>12. first \in Seq(Entry)
    BY <1>2, <1>11, Grown
<1>13. second \in Seq(Entry)
    <2> HIDE DEF first
    <2>1. QED
        BY <1>11, <1>12, Grown
<1> HIDE DEF first, second
<1>14. QED
    BY <1>1, <1>4, <1>7, <1>9, <1>10, <1>11, <1>12, <1>13 DEF item, first, second

-----------------------------------------------------------------------------
(***************************************************************************)
(* Which frames each handler broadcasts.                                   *)
(***************************************************************************)

\* Every frame of a piece has one of these methods.
Within(new, methods) == \A k \in DOMAIN new : new[k].frame.method \in methods

\* Frames of these methods are broadcast, under the tag of the active segment
\* unless another segment starts.
Logs(methods) ==
    \E new \in Seq(Entry) :
        /\ replay_log' = replay_log \o new
        /\ Within(new, methods)
        /\ "segment_started" \notin methods => \A k \in DOMAIN new : new[k].tag = replay_tag

\* The same items wait; their session may be another one.
SameItems(queue, other) ==
    /\ DOMAIN other = DOMAIN queue
    /\ \A i \in DOMAIN queue :
        /\ other[i].id = queue[i].id /\ other[i].peer = queue[i].peer
        /\ other[i].kind = queue[i].kind /\ other[i].supersedes = queue[i].supersedes

LEMMA NothingLogged ==
    ASSUME LogType, UNCHANGED replay_log
    PROVE  Logs({})
<1>1. /\ <<>> \in Seq(Entry) /\ DOMAIN <<>> = {}
      /\ replay_log \o <<>> = replay_log
    BY DEF LogType
<1>2. QED
    BY <1>1 DEF Logs, Within

LEMMA FramesLogged ==
    ASSUME TypeInv, NEW frames \in Seq(Frame), broadcast(frames), NEW methods,
           \A k \in 1..Len(frames) : frames[k].method \in methods
    PROVE  Logs(methods)
<1> DEFINE new == Tagged(frames, replay_tag)
<1>1. /\ new \in Seq(Entry) /\ DOMAIN new = 1..Len(frames)
      /\ \A k \in 1..Len(frames) : new[k].frame = frames[k] /\ new[k].tag = replay_tag
    BY TaggedType DEF TypeInv, SegmentType
<1>2. replay_log' = replay_log \o new
    BY DEF broadcast
<1> HIDE DEF new
<1>3. QED
    BY <1>1, <1>2 DEF Logs, Within

LEMMA FrameLogged ==
    ASSUME TypeInv, NEW f \in Frame, broadcast(<<f>>)
    PROVE  Logs({f.method})
<1>1. <<f>> \in Seq(Frame) /\ \A k \in 1..Len(<<f>>) : <<f>>[k] = f
    OBVIOUS
<1>2. QED
    BY <1>1, FramesLogged

LEMMA SameItemsUnchanged == UNCHANGED queued_prompts => SameItems(queued_prompts, queued_prompts')
BY DEF SameItems

LEMMA Retargeted ==
    ASSUME TypeInv, NEW session
    PROVE  SameItems(queued_prompts, retarget(session))
<1>1. \A i \in DOMAIN queued_prompts : queued_prompts[i] \in QueuedPrompt
    BY DEF TypeInv, QueueType
<1>2. \A q \in QueuedPrompt : LET r == [q EXCEPT !.session = session]
                             IN /\ r.id = q.id /\ r.peer = q.peer /\ r.kind = q.kind
                                /\ r.supersedes = q.supersedes
    BY DEF QueuedPrompt
<1>3. QED
    BY <1>1, <1>2 DEF SameItems, retarget

\* Moving the session logs segment frames, and what is broadcast after them.
LEMMA SessionMoveLogs ==
    ASSUME TypeInv, NEW session \in Sessions, NEW via_load \in BOOLEAN,
           NEW frames \in Seq(Frame), set_canonical_session_id(session, via_load, frames),
           NEW methods,
           {"segment_started", "segment_ended"} \subseteq methods,
           \A k \in 1..Len(frames) : frames[k].method \in methods
    PROVE  Logs(methods) /\ SameItems(queued_prompts, queued_prompts')
<1> DEFINE heard == canonical_session_id # session \/ via_load
           r == IF heard THEN on_canonical_session_id(session, via_load) ELSE unmoved
           told == Tagged(frames, r.tag)
<1>1. /\ queued_prompts' = r.queue /\ replay_tag' = r.tag /\ replay_log' = r.log \o told
    BY DEF set_canonical_session_id
<1>2. r = unmoved \/ r = rotate_segment(session)
    BY DEF on_canonical_session_id
<1>3. SameItems(queued_prompts, queued_prompts')
    <2>1. rotate_segment(session).queue = retarget(session) /\ unmoved.queue = queued_prompts
        BY DEF rotate_segment, unmoved
    <2>2. SameItems(queued_prompts, queued_prompts)
        BY DEF SameItems
    <2>3. QED
        BY <1>1, <1>2, <2>1, <2>2, Retargeted
<1>4. \E a \in Seq(Entry) : r.log = replay_log \o a /\ Within(a, methods)
    <2>1. CASE r = unmoved
        <3>1. /\ <<>> \in Seq(Entry) /\ Within(<<>>, methods)
              /\ replay_log \o <<>> = replay_log
            BY DEF TypeInv, LogType, Within
        <3>2. unmoved.log = replay_log
            BY DEF unmoved
        <3>3. QED
            BY <2>1, <3>1, <3>2
    <2>2. CASE r = rotate_segment(session)
        <3> DEFINE last == Len(segments)
                   ended == IF EmitSegmentFrames /\ last # 0
                            THEN Tagged(<<frame("segment_ended", last, 0)>>, last) ELSE <<>>
                   started == IF EmitSegmentFrames
                              THEN Tagged(<<frame("segment_started", last + 1, 0)>>, last + 1)
                              ELSE <<>>
        <3>1. rotate_segment(session).log = (replay_log \o ended) \o started
            BY DEF rotate_segment
        <3>2. last \in Nat
            BY DEF TypeInv, SegmentType
        <3>3. /\ frame("segment_ended", last, 0) \in Frame
              /\ frame("segment_started", last + 1, 0) \in Frame
              /\ frame("segment_ended", last, 0).method = "segment_ended"
              /\ frame("segment_started", last + 1, 0).method = "segment_started"
            BY <3>2 DEF frame, Frame
        <3>4. <<>> \in Seq(Entry) /\ Within(<<>>, methods)
            BY DEF Within
        <3>5. ended \in Seq(Entry) /\ Within(ended, methods)
            <4> DEFINE f == frame("segment_ended", last, 0)
                       tag == last
            <4>1. f \in Frame /\ f.method = "segment_ended" /\ tag \in Nat
                BY <3>2, <3>3
            <4>2. ended = IF EmitSegmentFrames /\ last # 0 THEN Tagged(<<f>>, tag) ELSE <<>>
                OBVIOUS
            <4> HIDE DEF f, tag, ended
            <4>3. /\ Tagged(<<f>>, tag) \in Seq(Entry) /\ Len(Tagged(<<f>>, tag)) = 1
                  /\ Tagged(<<f>>, tag)[1].frame = f
                BY <4>1, One
            <4>4. Within(Tagged(<<f>>, tag), methods)
                BY <4>1, <4>3 DEF Within
            <4>5. QED
                BY <3>4, <4>2, <4>3, <4>4
        <3>6. started \in Seq(Entry) /\ Within(started, methods)
            <4> DEFINE f == frame("segment_started", last + 1, 0)
                       tag == last + 1
            <4>1. f \in Frame /\ f.method = "segment_started" /\ tag \in Nat
                BY <3>2, <3>3
            <4>2. started = IF EmitSegmentFrames THEN Tagged(<<f>>, tag) ELSE <<>>
                OBVIOUS
            <4> HIDE DEF f, tag, started
            <4>3. /\ Tagged(<<f>>, tag) \in Seq(Entry) /\ Len(Tagged(<<f>>, tag)) = 1
                  /\ Tagged(<<f>>, tag)[1].frame = f
                BY <4>1, One
            <4>4. Within(Tagged(<<f>>, tag), methods)
                BY <4>1, <4>3 DEF Within
            <4>5. QED
                BY <3>4, <4>2, <4>3, <4>4
        <3> HIDE DEF ended, started
        <3>7. Associates(replay_log, ended, started)
            BY <3>5, <3>6, EntriesAssociate DEF TypeInv, LogType
        <3>8. ended \o started \in Seq(Entry) /\ Within(ended \o started, methods)
            BY <3>5, <3>6, Grown DEF Within
        <3>9. QED
            BY <2>2, <3>1, <3>7, <3>8 DEF Associates
    <2>3. QED
        BY <1>2, <2>1, <2>2
<1>5. r.tag \in Nat
    <2>1. replay_tag' \in Nat
        BY SessionMoveTypes DEF SegmentType
    <2>2. QED
        BY <1>1, <2>1
<1>6. PICK a \in Seq(Entry) : r.log = replay_log \o a /\ Within(a, methods)
    BY <1>4
<1>7. told \in Seq(Entry) /\ Within(told, methods)
    <2> HIDE DEF r
    <2>1. QED
        BY <1>5, TaggedType DEF Within
<1> HIDE DEF told, r
<1>8. Associates(replay_log, a, told)
    BY <1>7, EntriesAssociate DEF TypeInv, LogType
<1>9. a \o told \in Seq(Entry) /\ Within(a \o told, methods)
    BY <1>6, <1>7, Grown DEF Within
<1>10. Logs(methods)
    BY <1>1, <1>6, <1>8, <1>9 DEF Logs, Associates
<1>11. QED
    BY <1>3, <1>10

LEMMA SubmitLogs ==
    ASSUME TypeInv, NEW queue \in Seq(QueuedPrompt), queue # <<>>, NEW before \in Seq(Frame),
           NEW others, NEW data, submit_next_queued_prompt(queue, before, others, data),
           NEW methods, \A k \in 1..Len(before) : before[k].method \in methods
    PROVE  Logs(methods \cup {"turn_started", "queue_item_submitted"})
<1> DEFINE item == Head(queue)
           told == before \o <<TurnStarted(item)>> \o Submitted(item)
<1>1. TurnStarted(item) \in Frame /\ Submitted(item) \in Seq(Frame)
    BY SubmitPieces
<1>2. broadcast(told)
    BY DEF submit_next_queued_prompt, TurnStarted, Submitted
<1>3. TurnStarted(item).method = "turn_started"
    BY DEF TurnStarted, frame
<1>4. \A k \in 1..Len(Submitted(item)) : Submitted(item)[k].method = "queue_item_submitted"
    BY DEF Submitted, frame
<1> DEFINE f == TurnStarted(item)
           last == Submitted(item)
<1> HIDE DEF item, f, last
<1>5. /\ before \o <<f>> \o last \in Seq(Frame)
      /\ \A k \in 1..Len(before \o <<f>> \o last) :
            (before \o <<f>> \o last)[k].method \in methods \cup {"turn_started", "queue_item_submitted"}
    BY <1>1, <1>3, <1>4 DEF f, last
<1> HIDE DEF told
<1>6. told = before \o <<f>> \o last
    BY DEF told, f, last
<1>7. QED
    BY <1>2, <1>5, <1>6, FramesLogged

LEMMA PeerLogs ==
    ASSUME TypeInv, NEW p \in Peers
    PROVE  /\ attach(p) => Logs({"peer_joined"})
           /\ ws_closes(p) => Logs({})
           /\ session_busy(p) => Logs({"session_busy"})
           /\ cancel_active_turn(p) => Logs({"turn_cancelled"})
           /\ handle_detach(p) \/ handle_detach_request(p)
                => Logs({"peer_left", "queue_item_orphaned"})
           /\ \A a \in AskIds : gate_subscriber_response(p, a) => Logs({"agent_request_resolved"})
<1>1. ASSUME attach(p)
      PROVE  Logs({"peer_joined"})
    <2>1. frame("peer_joined", p, 0) \in Frame /\ frame("peer_joined", p, 0).method = "peer_joined"
        BY DEF frame, Frame
    <2>2. QED
        BY <1>1, <2>1, FrameLogged DEF attach
<1>2. ASSUME ws_closes(p)
      PROVE  Logs({})
    BY <1>2, NothingLogged DEF ws_closes, TypeInv
<1>3. ASSUME session_busy(p)
      PROVE  Logs({"session_busy"})
    <2> DEFINE f == frame("session_busy", pending[prompt_in_flight].peer, 0)
    <2>1. f \in Frame /\ f.method = "session_busy"
        BY <1>3, CancelledFrame DEF session_busy, frame, Frame
    <2>2. broadcast(<<f>>)
        BY <1>3 DEF session_busy
    <2> HIDE DEF f
    <2>3. QED
        BY <2>1, <2>2, FrameLogged
<1>4. ASSUME cancel_active_turn(p)
      PROVE  Logs({"turn_cancelled"})
    <2>1. turn_cancelled \in Frame /\ turn_cancelled.method = "turn_cancelled"
        BY <1>4, CancelledFrame DEF TypeInv, SlotIsTurn, cancel_active_turn, turn_cancelled, frame
    <2>2. QED
        BY <1>4, <2>1, FrameLogged DEF cancel_active_turn
<1>5. ASSUME handle_detach(p) \/ handle_detach_request(p)
      PROVE  Logs({"peer_left", "queue_item_orphaned"})
    <2>1. detach(p)
        BY <1>5 DEF handle_detach, handle_detach_request
    <2>2. CASE p \notin subscribers
        <3>1. Logs({})
            BY <2>1, <2>2, NothingLogged DEF detach, TypeInv
        <3>2. QED
            BY <3>1 DEF Logs, Within
    <2>3. CASE p \in subscribers
        <3> DEFINE told == <<frame("peer_left", p, 0)>> \o orphans(p)
                   Told == {f \in Frame : f.method \in {"peer_left", "queue_item_orphaned"}}
        <3>1. orphans(p) \in Seq(OrphanFrame)
            BY OrphansType DEF TypeInv, QueueType
        <3>2. OrphanFrame \subseteq Told
            BY DEF OrphanFrame, Frame, QueueFrames
        <3>3. frame("peer_left", p, 0) \in Told
            BY DEF frame, Frame
        <3> HIDE DEF Told
        <3>4. told \in Seq(Told)
            BY <3>1, <3>2, <3>3
        <3>5. \A f \in Told : f \in Frame /\ f.method \in {"peer_left", "queue_item_orphaned"}
            BY DEF Told
        <3>6. broadcast(told)
            BY <2>1, <2>3 DEF detach, on_subscriber_detached
        <3> HIDE DEF told
        <3>7. /\ told \in Seq(Frame)
              /\ \A k \in 1..Len(told) : told[k].method \in {"peer_left", "queue_item_orphaned"}
            BY <3>4, <3>5
        <3>8. QED
            BY <3>6, <3>7, FramesLogged
    <2>4. QED
        BY <2>2, <2>3
<1>6. ASSUME NEW a \in AskIds, gate_subscriber_response(p, a)
      PROVE  Logs({"agent_request_resolved"})
    <2>1. resolved(a) \in Frame /\ resolved(a).method = "agent_request_resolved"
        BY AskFrames DEF resolved, frame
    <2>2. QED
        BY <1>6, <2>1, FrameLogged DEF gate_subscriber_response
<1>7. QED
    BY <1>1, <1>2, <1>3, <1>4, <1>5, <1>6

LEMMA AgentLogs ==
    ASSUME TypeInv
    PROVE  /\ \A m \in DOMAIN pending :
                /\ handshake_succeeds(m) => /\ Logs({"segment_started", "segment_ended"})
                                            /\ SameItems(queued_prompts, queued_prompts')
                /\ handshake_fails(m) => Logs({}) /\ SameItems(queued_prompts, queued_prompts')
           /\ \A s \in Switches : handle_agent_notification(s) =>
                /\ Logs({"segment_started", "segment_ended", "agent_notification"})
                /\ SameItems(queued_prompts, queued_prompts')
           /\ \A a \in AskIds :
                /\ handle_agent_request(a) => /\ Logs({"agent_request_opened"})
                                              /\ SameItems(queued_prompts, queued_prompts')
                /\ handle_agent_cancel(a) => /\ Logs({"agent_cancel", "agent_request_resolved"})
                                             /\ SameItems(queued_prompts, queued_prompts')
<1>1. ASSUME NEW m \in DOMAIN pending, handshake_succeeds(m)
      PROVE  /\ Logs({"segment_started", "segment_ended"})
             /\ SameItems(queued_prompts, queued_prompts')
    <2>1. PICK session \in Sessions :
            set_canonical_session_id(session, pending[m].method = "session/load", <<>>)
        BY <1>1 DEF handshake_succeeds, TypeInv, SlotType, PendingType
    <2>2. /\ <<>> \in Seq(Frame) /\ (pending[m].method = "session/load") \in BOOLEAN
          /\ \A k \in 1..Len(<<>>) : <<>>[k].method \in {"segment_started", "segment_ended"}
        OBVIOUS
    <2>3. QED
        BY <2>1, <2>2, SessionMoveLogs
<1>2. ASSUME NEW m \in DOMAIN pending, handshake_fails(m)
      PROVE  Logs({}) /\ SameItems(queued_prompts, queued_prompts')
    BY <1>2, NothingLogged, SameItemsUnchanged DEF handshake_fails, TypeInv, queueVars
<1>3. ASSUME NEW s \in Switches, handle_agent_notification(s)
      PROVE  /\ Logs({"segment_started", "segment_ended", "agent_notification"})
             /\ SameItems(queued_prompts, queued_prompts')
    <2> DEFINE f == frame("agent_notification", s, 0)
               methods == {"segment_started", "segment_ended", "agent_notification"}
    <2>1. s \in MaybeSession
        BY RoomsConstantsOK DEF MaybeSession
    <2>2. f \in Frame /\ f.method = "agent_notification"
        BY <2>1 DEF frame, Frame
    <2>3. CASE canonical_session_id # None /\ s \notin {None, canonical_session_id}
        <3>1. s \in Sessions /\ set_canonical_session_id(s, FALSE, <<f>>)
            BY <1>3, <2>1, <2>3 DEF handle_agent_notification, MaybeSession
        <3> HIDE DEF f
        <3>2. <<f>> \in Seq(Frame) /\ \A k \in 1..Len(<<f>>) : <<f>>[k].method \in methods
            BY <2>2
        <3>3. {"segment_started", "segment_ended"} \subseteq methods
            OBVIOUS
        <3> HIDE DEF methods
        <3>4. Logs(methods) /\ SameItems(queued_prompts, queued_prompts')
            BY <3>1, <3>2, <3>3, SessionMoveLogs
        <3>5. QED
            BY <3>4 DEF methods
    <2>4. CASE ~(canonical_session_id # None /\ s \notin {None, canonical_session_id})
        <3>1. broadcast(<<f>>) /\ UNCHANGED queued_prompts
            BY <1>3, <2>4 DEF handle_agent_notification
        <3> HIDE DEF f
        <3>2. Logs({"agent_notification"})
            BY <2>2, <3>1, FrameLogged
        <3>3. QED
            BY <3>1, <3>2, SameItemsUnchanged DEF Logs, Within
    <2>5. QED
        BY <2>3, <2>4
<1>4. ASSUME NEW a \in AskIds, handle_agent_request(a)
      PROVE  Logs({"agent_request_opened"}) /\ SameItems(queued_prompts, queued_prompts')
    <2>1. opened(a) \in Frame /\ opened(a).method = "agent_request_opened"
        BY AskFrames DEF opened, frame
    <2>2. QED
        BY <1>4, <2>1, FrameLogged, SameItemsUnchanged DEF handle_agent_request, queueVars
<1>5. ASSUME NEW a \in AskIds, handle_agent_cancel(a)
      PROVE  /\ Logs({"agent_cancel", "agent_request_resolved"})
             /\ SameItems(queued_prompts, queued_prompts')
    <2> DEFINE f == frame("agent_cancel", a, 0)
               told == <<f, resolved(a)>>
    <2>1. /\ f \in Frame /\ f.method = "agent_cancel"
          /\ resolved(a) \in Frame /\ resolved(a).method = "agent_request_resolved"
        BY AskFrames DEF resolved, frame
    <2>2. broadcast(told) /\ UNCHANGED queued_prompts
        BY <1>5 DEF handle_agent_cancel, queueVars
    <2> HIDE DEF f
    <2>3. /\ told \in Seq(Frame)
          /\ \A k \in 1..Len(told) : told[k].method \in {"agent_cancel", "agent_request_resolved"}
        BY <2>1
    <2> HIDE DEF told
    <2>4. QED
        BY <2>2, <2>3, FramesLogged, SameItemsUnchanged
<1>6. QED
    BY <1>1, <1>2, <1>3, <1>4, <1>5

LEMMA QueueLogs ==
    ASSUME TypeInv, NEW p \in Peers
    PROVE  /\ \A s \in ClientSessions :
                /\ forward_prompt(p, s) => Logs({"turn_started"})
                /\ handle_rooms_queue_prompt_request(p, s)
                    => Logs({"queue_item_added", "turn_started", "queue_item_submitted"})
                /\ handle_rooms_steer_request(p, s)
                    => Logs({"hard_steer_submitted", "turn_cancelled"})
                /\ handle_rooms_idle_steer_request(p, s)
                    => Logs({"idle_steer_submitted", "turn_started", "queue_item_submitted"})
           /\ handle_rooms_unqueue_prompt_request(p) => Logs({"queue_item_removed"})
<1>1. /\ next_queue_item_id \in Nat \ {0} /\ queued_prompts \in Seq(QueuedPrompt)
      /\ next_rooms_turn_id \in Nat \ {0} /\ active_rooms_turn_id \in Nat
    BY DEF TypeInv, QueueType, TurnType
<1>2. \A s \in ClientSessions : ControlSession(s) \in MaybeSession
    BY SessionTypes
<1>3. ASSUME NEW s \in ClientSessions, forward_prompt(p, s)
      PROVE  Logs({"turn_started"})
    <2> DEFINE f == frame("turn_started", 0, next_rooms_turn_id)
    <2>1. f \in Frame /\ f.method = "turn_started"
        BY <1>1 DEF frame, Frame
    <2>2. broadcast(<<f>>)
        BY <1>3 DEF forward_prompt
    <2> HIDE DEF f
    <2>3. QED
        BY <2>1, <2>2, FrameLogged
<1>4. ASSUME NEW s \in ClientSessions, handle_rooms_queue_prompt_request(p, s)
      PROVE  Logs({"queue_item_added", "turn_started", "queue_item_submitted"})
    <2> DEFINE item == [id |-> next_queue_item_id, peer |-> p, session |-> ControlSession(s),
                        kind |-> "queue", supersedes |-> 0]
               queue == Enqueued(item)
               f == frame("queue_item_added", next_queue_item_id, 0)
    <2>1. \/ submit_next_queued_prompt(queue, <<f>>, pending, per_request)
          \/ broadcast(<<f>>)
        BY <1>4 DEF handle_rooms_queue_prompt_request
    <2>2. item \in QueuedPrompt
        BY <1>1, <1>2 DEF QueuedPrompt
    <2>3. f \in Frame /\ f.method = "queue_item_added"
        BY <1>1 DEF frame, Frame, QueueFrames
    <2> HIDE DEF item, f
    <2>4. queue \in Seq(QueuedPrompt) /\ queue # <<>>
        BY <1>1, <2>2, AppendProperties DEF Enqueued
    <2>5. <<f>> \in Seq(Frame) /\ \A k \in 1..Len(<<f>>) : <<f>>[k].method \in {"queue_item_added"}
        BY <2>3
    <2> HIDE DEF queue
    <2>6. Logs({"queue_item_added"} \cup {"turn_started", "queue_item_submitted"}) \/ Logs({"queue_item_added"})
        BY <2>1, <2>3, <2>4, <2>5, SubmitLogs, FrameLogged
    <2>7. QED
        BY <2>6 DEF Logs, Within
<1>5. ASSUME NEW s \in ClientSessions, handle_rooms_steer_request(p, s)
      PROVE  Logs({"hard_steer_submitted", "turn_cancelled"})
    <2> DEFINE f == frame("hard_steer_submitted", p, active_rooms_turn_id)
               told == <<f, turn_cancelled>>
    <2>1. broadcast(told) /\ prompt_in_flight # 0
        BY <1>5 DEF handle_rooms_steer_request
    <2>2. f \in Frame /\ f.method = "hard_steer_submitted"
        BY <1>1 DEF frame, Frame
    <2>3. turn_cancelled \in Frame /\ turn_cancelled.method = "turn_cancelled"
        BY <2>1, CancelledFrame DEF turn_cancelled, frame
    <2> HIDE DEF f
    <2>4. /\ told \in Seq(Frame)
          /\ \A k \in 1..Len(told) : told[k].method \in {"hard_steer_submitted", "turn_cancelled"}
        BY <2>2, <2>3
    <2> HIDE DEF told
    <2>5. QED
        BY <2>1, <2>4, FramesLogged
<1>6. ASSUME NEW s \in ClientSessions, handle_rooms_idle_steer_request(p, s)
      PROVE  Logs({"idle_steer_submitted", "turn_started", "queue_item_submitted"})
    <2> DEFINE steer == [id |-> 0, peer |-> p, session |-> ControlSession(s),
                         kind |-> "prompt", supersedes |-> 0]
               f == frame("idle_steer_submitted", p, next_rooms_turn_id)
    <2>1. submit_next_queued_prompt(PutFirst(steer), <<f>>, pending, per_request)
        BY <1>6 DEF handle_rooms_idle_steer_request
    <2>2. steer \in QueuedPrompt
        BY <1>2 DEF QueuedPrompt
    <2>3. f \in Frame /\ f.method = "idle_steer_submitted"
        BY <1>1 DEF frame, Frame
    <2> HIDE DEF steer, f
    <2>4. PutFirst(steer) \in Seq(QueuedPrompt) /\ PutFirst(steer) # <<>>
        BY <1>1, <2>2 DEF PutFirst, Cons
    <2>5. <<f>> \in Seq(Frame) /\ \A k \in 1..Len(<<f>>) : <<f>>[k].method \in {"idle_steer_submitted"}
        BY <2>3
    <2>6. Logs({"idle_steer_submitted"} \cup {"turn_started", "queue_item_submitted"})
        BY <2>1, <2>4, <2>5, SubmitLogs
    <2>7. QED
        BY <2>6 DEF Logs, Within
<1>7. ASSUME handle_rooms_unqueue_prompt_request(p)
      PROVE  Logs({"queue_item_removed"})
    <2>1. PICK gone \in DOMAIN queued_prompts :
            broadcast(<<frame("queue_item_removed", queued_prompts[gone].id, 0)>>)
        BY <1>7 DEF handle_rooms_unqueue_prompt_request
    <2> DEFINE f == frame("queue_item_removed", queued_prompts[gone].id, 0)
    <2>2. queued_prompts[gone] \in QueuedPrompt
        BY <1>1
    <2>3. queued_prompts[gone].id \in Nat
        BY <2>2 DEF QueuedPrompt
    <2>4. f \in Frame /\ f.method = "queue_item_removed"
        BY <2>3 DEF frame, Frame, QueueFrames
    <2> HIDE DEF f
    <2>5. QED
        BY <2>1, <2>4, FrameLogged DEF f
<1>8. QED
    BY <1>3, <1>4, <1>5, <1>6, <1>7

\* How the end of a turn is told: after what the sweep resolves.
TurnCompleted == frame("turn_complete", 0, active_rooms_turn_id)
ItemCompleted ==
    LET item == per_request[prompt_in_flight].item
    IN IF item = 0 THEN <<>> ELSE <<frame("queue_item_completed", item, active_rooms_turn_id)>>

LEMMA SettleParts ==
    ASSUME TypeInv, prompt_settles
    PROVE  /\ prompt_in_flight # 0 /\ prompt_in_flight \in DOMAIN per_request
           /\ active_rooms_turn_id \in Nat \ {0} /\ per_request[prompt_in_flight].item \in Nat
           /\ TurnCompleted \in Frame /\ ItemCompleted \in Seq(Frame)
           /\ \E swept \in Seq(Frame) :
                /\ \A k \in 1..Len(swept) : swept[k].method = "agent_request_resolved"
                /\ \E stale \in sweep_stale_agent_pending :
                        swept = [k \in DOMAIN stale |-> resolved(stale[k])]
                /\ swept \o (<<TurnCompleted>> \o ItemCompleted) \in Seq(Frame)
                /\ \/ /\ queued_prompts # <<>>
                      /\ submit_next_queued_prompt(queued_prompts,
                            swept \o (<<TurnCompleted>> \o ItemCompleted),
                            Without(pending, prompt_in_flight),
                            Without(per_request, prompt_in_flight))
                   \/ /\ queued_prompts = <<>>
                      /\ broadcast(swept \o (<<TurnCompleted>> \o ItemCompleted))
                      /\ prompt_in_flight' = 0 /\ active_rooms_turn_id' = 0
                      /\ UNCHANGED <<next_rooms_turn_id, queued_prompts>>
<1>1. /\ prompt_in_flight # 0 /\ prompt_in_flight \in DOMAIN per_request
      /\ active_rooms_turn_id \in Nat \ {0}
    BY DEF prompt_settles, TypeInv, SlotType, SlotIsTurn, TurnType
<1>2. per_request[prompt_in_flight].item \in Nat
    BY <1>1 DEF TypeInv, SlotType, DataType
<1>3. TurnCompleted \in Frame
    BY <1>1 DEF TurnCompleted, frame, Frame
<1>4. ItemCompleted \in Seq(Frame)
    <2> DEFINE f == frame("queue_item_completed", per_request[prompt_in_flight].item,
                          active_rooms_turn_id)
    <2>1. f \in Frame
        BY <1>1, <1>2 DEF frame, Frame, QueueFrames
    <2>2. ItemCompleted = IF per_request[prompt_in_flight].item = 0 THEN <<>> ELSE <<f>>
        BY DEF ItemCompleted
    <2> HIDE DEF f
    <2>3. QED
        BY <2>1, <2>2
<1> DEFINE complete == <<TurnCompleted>> \o ItemCompleted
<1>5. PICK stale \in sweep_stale_agent_pending :
        LET swept == [k \in DOMAIN stale |-> resolved(stale[k])]
        IN IF queued_prompts # <<>>
           THEN submit_next_queued_prompt(queued_prompts, swept \o complete,
                                          Without(pending, prompt_in_flight),
                                          Without(per_request, prompt_in_flight))
           ELSE /\ broadcast(swept \o complete)
                /\ prompt_in_flight' = 0 /\ active_rooms_turn_id' = 0
                /\ UNCHANGED <<next_rooms_turn_id, queued_prompts>>
    BY DEF prompt_settles, TurnCompleted, ItemCompleted
<1> DEFINE swept == [k \in DOMAIN stale |-> resolved(stale[k])]
<1>6. swept \in Seq(Frame)
    BY SweepType
<1>7. \A k \in 1..Len(swept) : swept[k].method = "agent_request_resolved"
    <2>1. \A k \in DOMAIN swept : swept[k].method = "agent_request_resolved"
        BY DEF resolved, frame
    <2> HIDE DEF swept
    <2>2. QED
        BY <1>6, <2>1
<1>8. complete \in Seq(Frame)
    BY <1>3, <1>4
<1>9. /\ \E other \in sweep_stale_agent_pending :
            swept = [k \in DOMAIN other |-> resolved(other[k])]
      /\ \/ /\ queued_prompts # <<>>
            /\ submit_next_queued_prompt(queued_prompts, swept \o complete,
                                         Without(pending, prompt_in_flight),
                                         Without(per_request, prompt_in_flight))
         \/ /\ queued_prompts = <<>>
            /\ broadcast(swept \o complete)
            /\ prompt_in_flight' = 0 /\ active_rooms_turn_id' = 0
            /\ UNCHANGED <<next_rooms_turn_id, queued_prompts>>
    BY <1>5
<1> HIDE DEF swept, complete
<1>10. swept \o complete \in Seq(Frame)
    BY <1>6, <1>8
<1>11. QED
    BY <1>1, <1>2, <1>3, <1>4, <1>6, <1>7, <1>9, <1>10 DEF complete

LEMMA SettleLogs ==
    ASSUME TypeInv, prompt_settles
    PROVE  Logs({"agent_request_resolved", "turn_complete", "queue_item_completed"} \cup
                    {"turn_started", "queue_item_submitted"})
<1> DEFINE told == {"agent_request_resolved", "turn_complete", "queue_item_completed"}
           complete == <<TurnCompleted>> \o ItemCompleted
<1>1. TurnCompleted \in Frame /\ ItemCompleted \in Seq(Frame) /\ queued_prompts \in Seq(QueuedPrompt)
    BY SettleParts DEF TypeInv, QueueType
<1>2. PICK swept \in Seq(Frame) :
        /\ \A k \in 1..Len(swept) : swept[k].method = "agent_request_resolved"
        /\ swept \o complete \in Seq(Frame)
        /\ \/ /\ queued_prompts # <<>>
              /\ submit_next_queued_prompt(queued_prompts, swept \o complete,
                    Without(pending, prompt_in_flight), Without(per_request, prompt_in_flight))
           \/ broadcast(swept \o complete)
    BY SettleParts
<1>3. complete \in Seq(Frame) /\ \A k \in 1..Len(complete) : complete[k].method \in told
    <2>1. TurnCompleted.method = "turn_complete"
        BY DEF TurnCompleted, frame
    <2>2. \A k \in 1..Len(ItemCompleted) : ItemCompleted[k].method = "queue_item_completed"
        BY DEF ItemCompleted, frame
    <2>3. QED
        BY <1>1, <2>1, <2>2
<1> DEFINE frames == swept \o complete
<1> HIDE DEF complete
<1>4. frames \in Seq(Frame) /\ \A k \in 1..Len(frames) : frames[k].method \in told
    BY <1>2, <1>3
<1> HIDE DEF frames
<1>5. CASE broadcast(frames)
    <2>1. Logs(told)
        BY <1>4, <1>5, FramesLogged
    <2>2. QED
        BY <2>1 DEF Logs, Within
<1>6. CASE /\ queued_prompts # <<>>
           /\ submit_next_queued_prompt(queued_prompts, frames, Without(pending, prompt_in_flight),
                                        Without(per_request, prompt_in_flight))
    <2> HIDE DEF told
    <2>1. Logs(told \cup {"turn_started", "queue_item_submitted"})
        BY <1>1, <1>4, <1>6, SubmitLogs
    <2>2. QED
        BY <2>1 DEF told
<1>7. QED
    BY <1>2, <1>5, <1>6 DEF frames

-----------------------------------------------------------------------------
(***************************************************************************)
(* Handlers that leave turns and queue alone.                              *)
(***************************************************************************)

TurnMethods == {"turn_started", "turn_complete", "hard_steer_submitted"}
ItemMethods == {"queue_item_added", "queue_item_submitted", "queue_item_completed",
                "queue_item_removed"}

LogsOther(methods) ==
    \E new \in Seq(Entry) : replay_log' = replay_log \o new /\ Without_(new, methods)

Aside ==
    /\ LogsOther(TurnMethods \cup ItemMethods)
    /\ SameItems(queued_prompts, queued_prompts')
    /\ UNCHANGED <<prompt_in_flight, turnVars, next_queue_item_id>>
    /\ prompt_in_flight # 0 => per_request'[prompt_in_flight] = per_request[prompt_in_flight]

LEMMA OtherLogged ==
    ASSUME TypeInv, NEW frames \in Seq(Frame), broadcast(frames), NEW methods,
           \A k \in 1..Len(frames) : frames[k].method \notin methods
    PROVE  LogsOther(methods)
<1> DEFINE new == Tagged(frames, replay_tag)
<1>1. /\ new \in Seq(Entry) /\ DOMAIN new = 1..Len(frames)
      /\ \A k \in 1..Len(frames) : new[k].frame = frames[k]
    BY TaggedType DEF TypeInv, SegmentType
<1>2. replay_log' = replay_log \o new
    BY DEF broadcast
<1> HIDE DEF new
<1>3. QED
    BY <1>1, <1>2 DEF LogsOther, Without_

KeptMethods == TurnMethods \cup ItemMethods

LEMMA OthersLogged ==
    ASSUME NEW methods, NEW others, Logs(methods), methods \cap others = {}
    PROVE  LogsOther(others)
BY DEF Logs, Within, LogsOther, Without_

LEMMA AsidePeers ==
    ASSUME TypeInv, NEW p \in Peers,
           \/ attach(p) \/ ws_closes(p) \/ session_busy(p) \/ cancel_active_turn(p)
           \/ handle_detach(p) \/ handle_detach_request(p)
           \/ \E a \in AskIds : gate_subscriber_response(p, a)
    PROVE  Aside
<1>1. /\ UNCHANGED <<slotVars, turnVars, queueVars>>
      /\ SameItems(queued_prompts, queued_prompts')
    BY SameItemsUnchanged DEF attach, ws_closes, session_busy, cancel_active_turn, handle_detach,
           handle_detach_request, gate_subscriber_response, queueVars
<1>2. \/ Logs({"peer_joined"}) \/ Logs({}) \/ Logs({"session_busy"}) \/ Logs({"turn_cancelled"})
      \/ Logs({"peer_left", "queue_item_orphaned"}) \/ Logs({"agent_request_resolved"})
    BY PeerLogs
<1>3. LogsOther(KeptMethods)
    BY <1>2, OthersLogged DEF KeptMethods, TurnMethods, ItemMethods
<1>4. QED
    BY <1>1, <1>3 DEF Aside, KeptMethods, slotVars, queueVars

\* A handshake request takes a mux id of its own.
LEMMA AsideForward ==
    ASSUME TypeInv, NEW p \in Peers, NEW method, NEW session, forward_handshake(p, method, session)
    PROVE  Aside
<1>1. /\ UNCHANGED <<prompt_in_flight, turnVars, queueVars, replay_log>>
      /\ \E entry : per_request' = With(per_request, next_mux_id, entry)
    BY DEF forward_handshake, allocate_mux_id
<1>2. prompt_in_flight # 0 => prompt_in_flight \in DOMAIN per_request \ {next_mux_id}
    BY DEF TypeInv, SlotType, DataType
<1>3. prompt_in_flight # 0 => per_request'[prompt_in_flight] = per_request[prompt_in_flight]
    BY <1>1, <1>2 DEF With
<1>4. LogsOther(KeptMethods)
    BY <1>1, NothingLogged, OthersLogged DEF TypeInv
<1>5. QED
    BY <1>1, <1>3, <1>4, SameItemsUnchanged DEF Aside, KeptMethods, queueVars

LEMMA AsideAgent ==
    ASSUME TypeInv,
           \/ \E m \in DOMAIN pending : handshake_succeeds(m) \/ handshake_fails(m)
           \/ \E s \in Switches : handle_agent_notification(s)
           \/ \E a \in AskIds : handle_agent_request(a) \/ handle_agent_cancel(a)
    PROVE  Aside
<1>1. UNCHANGED <<prompt_in_flight, per_request, turnVars, next_queue_item_id>>
    BY DEF handshake_succeeds, handshake_fails, handle_agent_notification, handle_agent_request,
           handle_agent_cancel, slotVars, queueVars
<1>2. /\ \/ Logs({"segment_started", "segment_ended"}) \/ Logs({})
         \/ Logs({"segment_started", "segment_ended", "agent_notification"})
         \/ Logs({"agent_request_opened"}) \/ Logs({"agent_cancel", "agent_request_resolved"})
      /\ SameItems(queued_prompts, queued_prompts')
    BY AgentLogs
<1>3. LogsOther(KeptMethods)
    BY <1>2, OthersLogged DEF KeptMethods, TurnMethods, ItemMethods
<1>4. QED
    BY <1>1, <1>2, <1>3 DEF Aside, KeptMethods

\* What is left are the handlers that submit, queue, remove or steer.
WorksOnQueue(p) ==
    \/ \E s \in ClientSessions :
        \/ forward_prompt(p, s)
        \/ handle_rooms_queue_prompt_request(p, s)
        \/ handle_rooms_steer_request(p, s)
        \/ handle_rooms_idle_steer_request(p, s)
    \/ handle_rooms_unqueue_prompt_request(p)

LEMMA AsideOrNot ==
    ASSUME TypeInv, [Next]_vars
    PROVE  Aside \/ prompt_settles \/ \E p \in Peers : WorksOnQueue(p)
<1>1. CASE UNCHANGED vars
    <2>1. LogsOther(KeptMethods)
        BY <1>1, NothingLogged, OthersLogged DEF vars, TypeInv
    <2>2. QED
        BY <1>1, <2>1, SameItemsUnchanged DEF Aside, KeptMethods, vars, slotVars, queueVars
<1>2. CASE AgentStep
    BY <1>2, AsideAgent DEF AgentStep
<1>3. ASSUME NEW p \in Peers, PeerStep(p)
      PROVE  Aside \/ WorksOnQueue(p)
    BY <1>3, AsidePeers, AsideForward DEF PeerStep, WorksOnQueue
<1>4. QED
    BY <1>1, <1>2, <1>3 DEF Next

-----------------------------------------------------------------------------
(***************************************************************************)
(* Queue items are submitted in the order they were added.                 *)
(***************************************************************************)

Submissions(log) == At(log, {"queue_item_submitted"})

\* The items that wait are newer than those submitted, and wait in order;
\* steers, whose id is 0, stand between them without counting.
InOrder(log, queue, next) ==
    /\ \A j, k \in Submissions(log) : j < k => log[j].frame.of < log[k].frame.of
    /\ \A k \in Submissions(log) :
        /\ log[k].frame.of \in 1 .. next - 1
        /\ \A i \in DOMAIN queue : queue[i].id # 0 => log[k].frame.of < queue[i].id
    /\ \A i, j \in DOMAIN queue :
        i < j /\ queue[i].id # 0 /\ queue[j].id # 0 => queue[i].id < queue[j].id
    /\ \A i \in DOMAIN queue : queue[i].id < next

FifoInv == TypeInv /\ InOrder(replay_log, queued_prompts, next_queue_item_id)

\* Frames that are no submissions do not matter.
LEMMA OrderIgnores ==
    ASSUME NEW log \in Seq(Entry), NEW new \in Seq(Entry), NEW queue, NEW next,
           InOrder(log, queue, next), Without_(new, {"queue_item_submitted"})
    PROVE  InOrder(log \o new, queue, next)
<1> DEFINE longer == log \o new
<1>1. /\ Submissions(longer) = Submissions(log)
      /\ \A k \in Submissions(log) : longer[k] = log[k]
    BY PositionsStay DEF Submissions
<1> HIDE DEF longer
<1>2. InOrder(longer, queue, next)
    BY <1>1 DEF InOrder
<1>3. QED
    BY <1>2 DEF longer

\* A new item goes behind those that wait, under the next id.
LEMMA OrderAppends ==
    ASSUME NEW log \in Seq(Entry), NEW queue \in Seq(QueuedPrompt), NEW next \in Nat \ {0},
           NEW item \in QueuedPrompt, item.id = next, InOrder(log, queue, next)
    PROVE  InOrder(log, Append(queue, item), next + 1)
<1> DEFINE longer == Append(queue, item)
<1>1. /\ DOMAIN longer = 1 .. Len(queue) + 1 /\ DOMAIN queue = 1 .. Len(queue)
      /\ Len(queue) \in Nat
      /\ \A i \in 1 .. Len(queue) : longer[i] = queue[i]
      /\ longer[Len(queue) + 1] = item
    BY AppendProperties
<1>2. \A i \in 1 .. Len(queue) : queue[i] \in QueuedPrompt
    OBVIOUS
<1>3. \A i \in 1 .. Len(queue) : queue[i].id \in Nat
    BY <1>2 DEF QueuedPrompt
<1> HIDE DEF longer
<1>4. \A k \in Submissions(log) :
        /\ log[k].frame.of \in 1 .. next + 1 - 1
        /\ \A i \in DOMAIN longer : longer[i].id # 0 => log[k].frame.of < longer[i].id
    <2>1. TAKE k \in Submissions(log)
    <2>2. log[k].frame.of \in 1 .. next - 1
        BY DEF InOrder
    <2>3. \A i \in 1 .. Len(queue) : longer[i].id # 0 => log[k].frame.of < longer[i].id
        BY <1>1 DEF InOrder
    <2>4. QED
        BY <1>1, <2>2, <2>3
<1>5. \A i, j \in DOMAIN longer :
        i < j /\ longer[i].id # 0 /\ longer[j].id # 0 => longer[i].id < longer[j].id
    BY <1>1, <1>3 DEF InOrder
<1>6. \A i \in DOMAIN longer : longer[i].id < next + 1
    BY <1>1, <1>3 DEF InOrder
<1>7. InOrder(log, longer, next + 1)
    BY <1>4, <1>5, <1>6 DEF InOrder
<1>8. QED
    BY <1>7 DEF longer

\* A queue with the ids of another one's positions, in their order, with
\* steers or without.
LEMMA OrderThins ==
    ASSUME NEW log, NEW queue, NEW next, InOrder(log, queue, next), NEW other,
           NEW place \in [DOMAIN other -> Int],
           \A i \in DOMAIN other : other[i].id # 0 =>
                place[i] \in DOMAIN queue /\ other[i].id = queue[place[i]].id,
           \A i, j \in DOMAIN other : i < j => place[i] < place[j],
           next \in Nat \ {0}
    PROVE  InOrder(log, other, next)
BY DEF InOrder

\* The front of the queue is submitted.
LEMMA OrderSubmits ==
    ASSUME NEW log \in Seq(Entry), NEW queue \in Seq(QueuedPrompt), queue # <<>>,
           NEW next \in Nat \ {0}, InOrder(log, queue, next), NEW new \in Seq(Entry),
           \/ Head(queue).id = 0 /\ new = <<>>
           \/ /\ Head(queue).id # 0 /\ Len(new) = 1
              /\ new[1].frame.method = "queue_item_submitted"
              /\ new[1].frame.of = Head(queue).id
    PROVE  InOrder(log \o new, Tail(queue), next)
<1> DEFINE rest == Tail(queue)
           place == [i \in DOMAIN rest |-> i + 1]
<1>1. /\ Len(queue) \in Nat \ {0} /\ DOMAIN queue = 1 .. Len(queue) /\ Head(queue) = queue[1]
      /\ rest \in Seq(QueuedPrompt)
      /\ DOMAIN rest = 1 .. Len(queue) - 1
      /\ \A i \in DOMAIN rest : rest[i] = queue[i + 1]
    OBVIOUS
<1>2. \A i \in DOMAIN rest : place[i] \in Int /\ place[i] \in DOMAIN queue /\ rest[i] = queue[place[i]]
    BY <1>1
<1>3. place \in [DOMAIN rest -> Int] /\ \A i, j \in DOMAIN rest : i < j => place[i] < place[j]
    BY <1>1, <1>2
<1> HIDE DEF place, rest
<1>4. InOrder(log, rest, next)
    <2>1. \A i \in DOMAIN rest : rest[i].id # 0 =>
            place[i] \in DOMAIN queue /\ rest[i].id = queue[place[i]].id
        BY <1>2
    <2>2. QED
        BY <1>3, <2>1, OrderThins
<1> USE DEF rest
<1>5. CASE new = <<>>
    BY <1>4, <1>5, OrderIgnores DEF Without_
<1>6. CASE Head(queue).id # 0 /\ Len(new) = 1 /\ new[1].frame.method = "queue_item_submitted"
            /\ new[1].frame.of = Head(queue).id
    <2> DEFINE n == Len(log) + 1
               longer == log \o new
    <2>1. /\ DOMAIN longer = 1 .. n /\ Len(log) \in Nat /\ DOMAIN log = 1 .. Len(log)
          /\ \A k \in 1 .. Len(log) : longer[k] = log[k]
        <3>1. /\ DOMAIN longer = 1 .. Len(log) + Len(new)
              /\ Len(log) \in Nat /\ DOMAIN log = 1 .. Len(log)
              /\ \A k \in 1 .. Len(log) : longer[k] = log[k]
            BY Grown
        <3> HIDE DEF longer
        <3>2. QED
            BY <1>6, <3>1
    <2>2. longer[n] = new[1]
        BY <1>6, Grown
    <2> HIDE DEF longer, rest
    <2>3. Submissions(longer) = Submissions(log) \cup {n}
        BY <1>6, <2>1, <2>2 DEF Submissions, At
    <2>4. 1 \in DOMAIN queue /\ queue[1] \in QueuedPrompt /\ queue[1].id # 0
        BY <1>1, <1>6
    <2>5. \A k \in Submissions(log) :
            k \in 1 .. Len(log) /\ longer[k] = log[k] /\ log[k].frame.of < queue[1].id
        BY <2>1, <2>4 DEF Submissions, At, InOrder
    <2>6. queue[1].id \in 1 .. next - 1
        BY <2>4 DEF InOrder, QueuedPrompt
    <2>7. \A i \in DOMAIN rest : rest[i].id # 0 => queue[1].id < rest[i].id
        <3>1. \A i \in DOMAIN rest : i + 1 \in DOMAIN queue /\ 1 < i + 1 /\ rest[i] = queue[i + 1]
            BY <1>1
        <3>2. QED
            BY <2>4, <3>1 DEF InOrder
    <2>8. longer[n].frame.of = queue[1].id
        BY <1>1, <1>6, <2>2
    <2>9. \A k \in Submissions(log) : ~(n < k)
        BY <2>1, <2>5
    <2>10. ASSUME NEW j \in Submissions(longer), NEW k \in Submissions(longer), j < k
           PROVE  longer[j].frame.of < longer[k].frame.of
        <3>1. j \in Submissions(log) /\ k \in Submissions(log) \cup {n}
            BY <2>1, <2>3, <2>9, <2>10
        <3>2. CASE k = n
            BY <2>5, <2>8, <3>1, <3>2
        <3>3. CASE k \in Submissions(log)
            <4>1. log[j].frame.of < log[k].frame.of
                BY <2>10, <3>1, <3>3 DEF InOrder
            <4>2. QED
                BY <2>5, <3>1, <3>3, <4>1
        <3>4. QED
            BY <3>1, <3>2, <3>3
    <2>11. \A k \in Submissions(longer) :
            /\ longer[k].frame.of \in 1 .. next - 1
            /\ \A i \in DOMAIN rest : rest[i].id # 0 => longer[k].frame.of < rest[i].id
        BY <1>4, <2>3, <2>5, <2>6, <2>7, <2>8 DEF InOrder
    <2>12. InOrder(longer, rest, next)
        BY <1>4, <2>10, <2>11 DEF InOrder
    <2>13. QED
        BY <2>12 DEF longer, rest
<1>7. QED
    BY <1>5, <1>6

\* A submission keeps the order, whatever is broadcast before it.
LEMMA SubmitOrdered ==
    ASSUME TypeInv, NEW queue \in Seq(QueuedPrompt), queue # <<>>, NEW before \in Seq(Frame),
           \A k \in 1..Len(before) : before[k].method # "queue_item_submitted",
           NEW others, NEW data, submit_next_queued_prompt(queue, before, others, data),
           NEW next \in Nat \ {0}, InOrder(replay_log, queue, next)
    PROVE  InOrder(replay_log', queued_prompts', next)
<1> DEFINE item == Head(queue)
           a == Tagged(before, replay_tag)
           b == Tagged(<<TurnStarted(item)>>, replay_tag)
           c == Tagged(Submitted(item), replay_tag)
           first == replay_log \o a
           second == first \o b
           Submits == {"queue_item_submitted"}
<1>1. /\ item \in QueuedPrompt
      /\ TurnStarted(item) \in Frame /\ Submitted(item) \in Seq(Frame)
      /\ a \in Seq(Entry) /\ b \in Seq(Entry) /\ c \in Seq(Entry)
      /\ first \in Seq(Entry) /\ second \in Seq(Entry)
      /\ replay_log' = second \o c
    BY SubmitPieces
<1>2. replay_log \in Seq(Entry) /\ replay_tag \in Nat
    BY DEF TypeInv, LogType, SegmentType
<1>3. queued_prompts' = Tail(queue)
    BY DEF submit_next_queued_prompt
<1>4. Without_(a, Submits)
    BY <1>2, TaggedType DEF Without_
<1>5. Without_(b, Submits)
    <2> DEFINE f == TurnStarted(item)
    <2>1. f \in Frame /\ f.method = "turn_started"
        BY <1>1 DEF TurnStarted, frame
    <2> HIDE DEF f
    <2>2. DOMAIN Tagged(<<f>>, replay_tag) = {1} /\ Tagged(<<f>>, replay_tag)[1].frame = f
        BY <1>2, <2>1, One
    <2>3. b = Tagged(<<f>>, replay_tag)
        BY DEF f
    <2> HIDE DEF b
    <2>4. QED
        BY <2>1, <2>2, <2>3 DEF Without_
<1>6. \/ item.id = 0 /\ c = <<>>
      \/ /\ item.id # 0 /\ Len(c) = 1
         /\ c[1].frame.method = "queue_item_submitted" /\ c[1].frame.of = item.id
    <2>1. CASE item.id = 0
        BY <2>1 DEF Submitted, Tagged
    <2>2. CASE item.id # 0
        <3> DEFINE f == frame("queue_item_submitted", item.id, next_rooms_turn_id)
        <3>1. f \in Frame /\ f.method = "queue_item_submitted" /\ f.of = item.id
            BY <1>1 DEF TypeInv, TurnType, frame, Frame, QueueFrames, QueuedPrompt
        <3>2. Submitted(item) = <<f>>
            BY <2>2 DEF Submitted
        <3> HIDE DEF f
        <3>3. Len(Tagged(<<f>>, replay_tag)) = 1 /\ Tagged(<<f>>, replay_tag)[1].frame = f
            <4>1. f \in Frame /\ replay_tag \in Nat
                BY <1>2, <3>1
            <4>2. QED
                BY <4>1, One, Zenon
        <3>4. c = Tagged(<<f>>, replay_tag)
            BY <3>2
        <3> HIDE DEF c, item
        <3>5. QED
            BY <2>2, <3>1, <3>3, <3>4
    <2>3. QED
        BY <2>1, <2>2
<1> HIDE DEF a, b, c, first, second
<1>7. InOrder(first, queue, next)
    BY <1>1, <1>2, <1>4, OrderIgnores DEF first
<1>8. InOrder(second, queue, next)
    BY <1>1, <1>5, <1>7, OrderIgnores DEF second
<1>9. InOrder(second \o c, Tail(queue), next)
    <2>1. \/ Head(queue).id = 0 /\ c = <<>>
          \/ /\ Head(queue).id # 0 /\ Len(c) = 1
             /\ c[1].frame.method = "queue_item_submitted" /\ c[1].frame.of = Head(queue).id
        BY <1>6
    <2>2. QED
        BY <1>1, <1>8, <2>1, OrderSubmits
<1>10. QED
    BY <1>1, <1>3, <1>9

LEMMA OrderInit == Init => FifoInv
<1>1. Init => InOrder(replay_log, queued_prompts, next_queue_item_id)
    BY DEF Init, InOrder, Submissions, At
<1>2. QED
    BY <1>1, InitTypeInv DEF FifoInv

\* Other positions, other methods.
LEMMA OrderAside ==
    ASSUME FifoInv, Aside
    PROVE  InOrder(replay_log', queued_prompts', next_queue_item_id')
<1>1. PICK new \in Seq(Entry) : replay_log' = replay_log \o new /\ Without_(new, KeptMethods)
    BY DEF Aside, LogsOther, KeptMethods
<1>2. Without_(new, {"queue_item_submitted"})
    BY <1>1 DEF Without_, KeptMethods, ItemMethods
<1>3. InOrder(replay_log, queued_prompts', next_queue_item_id)
    BY DEF FifoInv, Aside, SameItems, InOrder
<1>4. InOrder(replay_log \o new, queued_prompts', next_queue_item_id)
    BY <1>2, <1>3, OrderIgnores DEF FifoInv, TypeInv, LogType
<1>5. QED
    BY <1>1, <1>4 DEF Aside

\* A steer goes in front.
LEMMA OrderSteers ==
    ASSUME FifoInv, NEW steer \in QueuedPrompt, steer.id = 0
    PROVE  /\ PutFirst(steer) \in Seq(QueuedPrompt) /\ PutFirst(steer) # <<>>
           /\ InOrder(replay_log, PutFirst(steer), next_queue_item_id)
<1> DEFINE queue == queued_prompts
           longer == PutFirst(steer)
           place == [i \in DOMAIN longer |-> i - 1]
<1>1. queue \in Seq(QueuedPrompt)
    BY DEF FifoInv, TypeInv, QueueType
<1>2. /\ longer \in Seq(QueuedPrompt) /\ longer # <<>> /\ Len(queue) \in Nat
      /\ DOMAIN longer = 1 .. Len(queue) + 1 /\ DOMAIN queue = 1 .. Len(queue)
      /\ longer[1] = steer
      /\ \A i \in 1 .. Len(queue) : longer[i + 1] = queue[i]
    BY <1>1 DEF PutFirst, Cons
<1>3. /\ InOrder(replay_log, queue, next_queue_item_id)
      /\ next_queue_item_id \in Nat \ {0}
    BY DEF FifoInv, TypeInv, QueueType
<1> HIDE DEF longer, queue
<1>4. \A i \in DOMAIN longer : i # 1 => i - 1 \in 1 .. Len(queue) /\ longer[i] = queue[i - 1]
    <2>1. \A i \in DOMAIN longer : i # 1 => i - 1 \in 1 .. Len(queue) /\ (i - 1) + 1 = i
        BY <1>2
    <2>2. QED
        BY <1>2, <2>1
<1>5. /\ place \in [DOMAIN longer -> Int]
      /\ \A i \in DOMAIN longer : place[i] = i - 1
      /\ \A i, j \in DOMAIN longer : i < j => place[i] < place[j]
    BY <1>2
<1> HIDE DEF place
<1>6. \A i \in DOMAIN longer : longer[i].id # 0 =>
            place[i] \in DOMAIN queue /\ longer[i].id = queue[place[i]].id
    BY <1>2, <1>4, <1>5
<1>7. InOrder(replay_log, longer, next_queue_item_id)
    BY <1>3, <1>5, <1>6, OrderThins
<1>8. QED
    BY <1>2, <1>7 DEF longer

\* What is left when an item is removed.
LEMMA Removed ==
    ASSUME NEW queue \in Seq(QueuedPrompt), NEW gone \in 1..Len(queue)
    PROVE  /\ RemoveAt(queue, gone) \in Seq(QueuedPrompt)
           /\ DOMAIN RemoveAt(queue, gone) = 1 .. Len(queue) - 1
           /\ \A i \in 1 .. Len(queue) - 1 :
                RemoveAt(queue, gone)[i] = queue[IF i < gone THEN i ELSE i + 1]
<1> DEFINE rest == RemoveAt(queue, gone)
           a == SubSeq(queue, 1, gone - 1)
           b == SubSeq(queue, gone + 1, Len(queue))
<1>1. rest = a \o b /\ Len(queue) \in Nat
    BY DEF RemoveAt
<1>2. /\ a \in Seq(QueuedPrompt) /\ Len(a) = gone - 1
      /\ \A i \in 1 .. gone - 1 : a[i] = queue[i]
    OBVIOUS
<1>3. /\ b \in Seq(QueuedPrompt) /\ Len(b) = Len(queue) - gone
      /\ \A i \in 1 .. Len(queue) - gone : b[i] = queue[gone + i]
    OBVIOUS
<1> HIDE DEF rest, a, b
<1>4. /\ Len(rest) = Len(queue) - 1 /\ rest \in Seq(QueuedPrompt)
      /\ \A i \in 1 .. Len(queue) - 1 :
            rest[i] = IF i <= gone - 1 THEN a[i] ELSE b[i - (gone - 1)]
    <2>1. /\ a \o b \in Seq(QueuedPrompt)
          /\ Len(a \o b) = Len(a) + Len(b)
          /\ \A i \in 1 .. Len(a) + Len(b) :
                (a \o b)[i] = IF i <= Len(a) THEN a[i] ELSE b[i - Len(a)]
        BY <1>2, <1>3, ConcatProperties
    <2>2. Len(a) + Len(b) = Len(queue) - 1
        BY <1>1, <1>2, <1>3
    <2>3. QED
        BY <1>1, <1>2, <2>1, <2>2
<1>5. ASSUME NEW i \in 1 .. Len(queue) - 1
      PROVE  rest[i] = queue[IF i < gone THEN i ELSE i + 1]
    <2>1. CASE i < gone
        BY <1>1, <1>2, <1>4, <2>1
    <2>2. CASE ~(i < gone)
        <3>1. i - (gone - 1) \in 1 .. Len(queue) - gone /\ gone + (i - (gone - 1)) = i + 1
            BY <1>1, <2>2
        <3>2. ~(i <= gone - 1)
            BY <1>1, <2>2
        <3>3. QED
            BY <1>3, <1>4, <2>2, <3>1, <3>2
    <2>3. QED
        BY <2>1, <2>2
<1>6. DOMAIN rest = 1 .. Len(queue) - 1
    BY <1>1, <1>4
<1>7. QED
    BY <1>4, <1>5, <1>6 DEF rest

LEMMA OrderUnqueues ==
    ASSUME FifoInv, NEW p, handle_rooms_unqueue_prompt_request(p)
    PROVE  InOrder(replay_log', queued_prompts', next_queue_item_id')
<1> DEFINE queue == queued_prompts
<1>1. PICK gone \in DOMAIN queue :
        /\ queued_prompts' = RemoveAt(queue, gone)
        /\ broadcast(<<frame("queue_item_removed", queue[gone].id, 0)>>)
    BY DEF handle_rooms_unqueue_prompt_request
<1>2. queue \in Seq(QueuedPrompt) /\ gone \in 1..Len(queue) /\ Len(queue) \in Nat
    BY DEF FifoInv, TypeInv, QueueType
<1> DEFINE rest == RemoveAt(queue, gone)
           place == [i \in DOMAIN rest |-> IF i < gone THEN i ELSE i + 1]
<1>3. /\ DOMAIN rest = 1 .. Len(queue) - 1
      /\ \A i \in 1 .. Len(queue) - 1 : rest[i] = queue[IF i < gone THEN i ELSE i + 1]
    BY <1>2, Removed
<1>4. /\ InOrder(replay_log, queue, next_queue_item_id)
      /\ next_queue_item_id \in Nat \ {0}
    BY DEF FifoInv, TypeInv, QueueType
<1> HIDE DEF rest, queue
<1>5. /\ \A i \in DOMAIN rest : /\ place[i] \in Int /\ place[i] \in 1 .. Len(queue)
                              /\ rest[i] = queue[place[i]]
      /\ \A i, j \in DOMAIN rest : i < j => place[i] < place[j]
    BY <1>2, <1>3
<1>6. place \in [DOMAIN rest -> Int]
    BY <1>2, <1>3
<1> HIDE DEF place
<1>7. \A i \in DOMAIN rest : rest[i].id # 0 =>
            place[i] \in DOMAIN queue /\ rest[i].id = queue[place[i]].id
    BY <1>2, <1>5
<1>8. InOrder(replay_log, rest, next_queue_item_id)
    BY <1>4, <1>5, <1>6, <1>7, OrderThins
<1>9. \E new \in Seq(Entry) : replay_log' = replay_log \o new
                            /\ Without_(new, {"queue_item_submitted"})
    <2> DEFINE f == frame("queue_item_removed", queue[gone].id, 0)
    <2>1. f \in Frame /\ f.method = "queue_item_removed"
        <3>1. queue[gone] \in QueuedPrompt
            BY <1>2
        <3>2. queue[gone].id \in Nat
            BY <3>1 DEF QueuedPrompt
        <3>3. QED
            BY <3>2 DEF frame, Frame, QueueFrames
    <2> HIDE DEF f
    <2>2. <<f>> \in Seq(Frame) /\ \A k \in 1..Len(<<f>>) : <<f>>[k].method \notin {"queue_item_submitted"}
        BY <2>1
    <2>3. LogsOther({"queue_item_submitted"})
        BY <1>1, <2>2, OtherLogged DEF FifoInv, f
    <2>4. QED
        BY <2>3 DEF LogsOther
<1>10. PICK new \in Seq(Entry) : replay_log' = replay_log \o new
                              /\ Without_(new, {"queue_item_submitted"})
    BY <1>9
<1>11. InOrder(replay_log \o new, rest, next_queue_item_id)
    BY <1>8, <1>10, OrderIgnores DEF FifoInv, TypeInv, LogType
<1>12. QED
    BY <1>1, <1>10, <1>11 DEF rest, handle_rooms_unqueue_prompt_request

LEMMA OrderQueues ==
    ASSUME FifoInv, NEW p \in Peers, NEW s \in ClientSessions,
           \/ forward_prompt(p, s)
           \/ handle_rooms_queue_prompt_request(p, s)
           \/ handle_rooms_steer_request(p, s)
           \/ handle_rooms_idle_steer_request(p, s)
    PROVE  InOrder(replay_log', queued_prompts', next_queue_item_id')
<1>1. /\ TypeInv /\ InOrder(replay_log, queued_prompts, next_queue_item_id)
      /\ next_queue_item_id \in Nat \ {0} /\ queued_prompts \in Seq(QueuedPrompt)
      /\ replay_log \in Seq(Entry) /\ ControlSession(s) \in MaybeSession
      /\ next_rooms_turn_id \in Nat /\ active_rooms_turn_id \in Nat
    BY SessionTypes DEF FifoInv, TypeInv, QueueType, LogType, TurnType
<1>2. \A queue : \A frames \in Seq(Frame) :
        /\ InOrder(replay_log, queue, next_queue_item_id')
        /\ broadcast(frames)
        /\ \A k \in 1..Len(frames) : frames[k].method # "queue_item_submitted"
        => InOrder(replay_log', queue, next_queue_item_id')
    <2>1. TAKE queue
    <2> TAKE frames \in Seq(Frame)
    <2>2. SUFFICES ASSUME /\ InOrder(replay_log, queue, next_queue_item_id')
                          /\ broadcast(frames)
                          /\ \A k \in 1..Len(frames) : frames[k].method # "queue_item_submitted"
                   PROVE  InOrder(replay_log', queue, next_queue_item_id')
        OBVIOUS
    <2>3. PICK new \in Seq(Entry) : replay_log' = replay_log \o new
                                 /\ Without_(new, {"queue_item_submitted"})
        BY <1>1, <2>2, OtherLogged DEF LogsOther
    <2>4. QED
        BY <1>1, <2>2, <2>3, OrderIgnores
<1>3. CASE forward_prompt(p, s)
    <2> DEFINE f == frame("turn_started", 0, next_rooms_turn_id)
    <2>1. f \in Frame /\ f.method = "turn_started"
        BY <1>1 DEF frame, Frame
    <2>2. broadcast(<<f>>) /\ UNCHANGED queueVars
        BY <1>3 DEF forward_prompt
    <2> HIDE DEF f
    <2>3. <<f>> \in Seq(Frame) /\ \A k \in 1..Len(<<f>>) : <<f>>[k].method # "queue_item_submitted"
        BY <2>1
    <2>4. QED
        BY <1>1, <1>2, <2>2, <2>3 DEF queueVars
<1>4. CASE handle_rooms_queue_prompt_request(p, s)
    <2> DEFINE item == [id |-> next_queue_item_id, peer |-> p, session |-> ControlSession(s),
                        kind |-> "queue", supersedes |-> 0]
               queue == Enqueued(item)
               f == frame("queue_item_added", next_queue_item_id, 0)
               added == <<f>>
    <2>1. /\ next_queue_item_id' = next_queue_item_id + 1
          /\ \/ submit_next_queued_prompt(queue, added, pending, per_request)
             \/ queued_prompts' = queue /\ broadcast(added)
        BY <1>4 DEF handle_rooms_queue_prompt_request
    <2>2. item \in QueuedPrompt /\ item.id = next_queue_item_id
        BY <1>1 DEF QueuedPrompt
    <2>3. f \in Frame /\ f.method = "queue_item_added"
        BY <1>1 DEF frame, Frame, QueueFrames
    <2> HIDE DEF item, f
    <2>4. queue \in Seq(QueuedPrompt) /\ queue # <<>>
        BY <1>1, <2>2, AppendProperties DEF Enqueued
    <2>5. InOrder(replay_log, queue, next_queue_item_id')
        BY <1>1, <2>1, <2>2, OrderAppends DEF Enqueued
    <2>6. added \in Seq(Frame) /\ \A k \in 1..Len(added) : added[k].method # "queue_item_submitted"
        BY <2>3
    <2>7. next_queue_item_id' \in Nat \ {0}
        BY <1>1, <2>1
    <2> HIDE DEF queue, added
    <2>8. CASE queued_prompts' = queue /\ broadcast(added)
        BY <1>2, <2>5, <2>6, <2>8
    <2>9. CASE submit_next_queued_prompt(queue, added, pending, per_request)
        BY <1>1, <2>4, <2>5, <2>6, <2>7, <2>9, SubmitOrdered
    <2>10. QED
        BY <2>1, <2>8, <2>9
<1>5. CASE handle_rooms_steer_request(p, s)
    <2> DEFINE steer == [id |-> 0, peer |-> p, session |-> ControlSession(s),
                         kind |-> "hard_steer", supersedes |-> active_rooms_turn_id]
               f == frame("hard_steer_submitted", p, active_rooms_turn_id)
               told == <<f, turn_cancelled>>
    <2>1. /\ queued_prompts' = PutFirst(steer) /\ broadcast(told)
          /\ UNCHANGED next_queue_item_id /\ prompt_in_flight # 0
        BY <1>5 DEF handle_rooms_steer_request
    <2>2. steer \in QueuedPrompt /\ steer.id = 0
        BY <1>1 DEF QueuedPrompt
    <2>3. f \in Frame /\ f.method = "hard_steer_submitted"
        BY <1>1 DEF frame, Frame
    <2>4. turn_cancelled \in Frame /\ turn_cancelled.method = "turn_cancelled"
        BY <1>1, <2>1, CancelledFrame DEF turn_cancelled, frame
    <2> HIDE DEF steer, f
    <2>5. told \in Seq(Frame) /\ \A k \in 1..Len(told) : told[k].method # "queue_item_submitted"
        BY <2>3, <2>4
    <2>6. InOrder(replay_log, PutFirst(steer), next_queue_item_id)
        BY <2>2, OrderSteers
    <2> HIDE DEF told
    <2>7. QED
        BY <1>2, <2>1, <2>5, <2>6
<1>6. CASE handle_rooms_idle_steer_request(p, s)
    <2> DEFINE steer == [id |-> 0, peer |-> p, session |-> ControlSession(s),
                         kind |-> "prompt", supersedes |-> 0]
               f == frame("idle_steer_submitted", p, next_rooms_turn_id)
               told == <<f>>
    <2>1. /\ submit_next_queued_prompt(PutFirst(steer), told, pending, per_request)
          /\ UNCHANGED next_queue_item_id
        BY <1>6 DEF handle_rooms_idle_steer_request
    <2>2. steer \in QueuedPrompt /\ steer.id = 0
        BY <1>1 DEF QueuedPrompt
    <2>3. f \in Frame /\ f.method = "idle_steer_submitted"
        BY <1>1 DEF frame, Frame
    <2> HIDE DEF steer, f
    <2>4. told \in Seq(Frame) /\ \A k \in 1..Len(told) : told[k].method # "queue_item_submitted"
        BY <2>3
    <2>5. /\ PutFirst(steer) \in Seq(QueuedPrompt) /\ PutFirst(steer) # <<>>
          /\ InOrder(replay_log, PutFirst(steer), next_queue_item_id)
        BY <2>2, OrderSteers
    <2> HIDE DEF told
    <2>6. QED
        BY <1>1, <2>1, <2>4, <2>5, SubmitOrdered
<1>7. QED
    BY <1>3, <1>4, <1>5, <1>6

LEMMA OrderSettles ==
    ASSUME FifoInv, prompt_settles
    PROVE  InOrder(replay_log', queued_prompts', next_queue_item_id')
<1>1. /\ TypeInv /\ InOrder(replay_log, queued_prompts, next_queue_item_id)
      /\ next_queue_item_id \in Nat \ {0} /\ queued_prompts \in Seq(QueuedPrompt)
      /\ replay_log \in Seq(Entry)
    BY DEF FifoInv, TypeInv, QueueType, LogType
<1>2. /\ TurnCompleted \in Frame /\ ItemCompleted \in Seq(Frame)
      /\ UNCHANGED next_queue_item_id
    BY <1>1, SettleParts DEF prompt_settles
<1> DEFINE complete == <<TurnCompleted>> \o ItemCompleted
<1>3. PICK swept \in Seq(Frame) :
        /\ \A k \in 1..Len(swept) : swept[k].method = "agent_request_resolved"
        /\ swept \o complete \in Seq(Frame)
        /\ \/ /\ queued_prompts # <<>>
              /\ submit_next_queued_prompt(queued_prompts, swept \o complete,
                    Without(pending, prompt_in_flight), Without(per_request, prompt_in_flight))
           \/ /\ queued_prompts = <<>> /\ broadcast(swept \o complete)
              /\ UNCHANGED queued_prompts
    BY <1>1, SettleParts
<1>4. complete \in Seq(Frame) /\ \A k \in 1..Len(complete) : complete[k].method # "queue_item_submitted"
    <2>1. TurnCompleted.method = "turn_complete"
        BY DEF TurnCompleted, frame
    <2>2. \A k \in 1..Len(ItemCompleted) : ItemCompleted[k].method = "queue_item_completed"
        BY DEF ItemCompleted, frame
    <2>3. QED
        BY <1>2, <2>1, <2>2
<1> DEFINE told == swept \o complete
<1> HIDE DEF complete
<1>5. told \in Seq(Frame) /\ \A k \in 1..Len(told) : told[k].method # "queue_item_submitted"
    BY <1>3, <1>4
<1> HIDE DEF told
<1>6. CASE /\ queued_prompts # <<>>
           /\ submit_next_queued_prompt(queued_prompts, told, Without(pending, prompt_in_flight),
                                        Without(per_request, prompt_in_flight))
    BY <1>1, <1>2, <1>5, <1>6, SubmitOrdered
<1>7. CASE broadcast(told) /\ UNCHANGED queued_prompts
    <2>1. PICK new \in Seq(Entry) : replay_log' = replay_log \o new
                                 /\ Without_(new, {"queue_item_submitted"})
        BY <1>1, <1>5, <1>7, OtherLogged DEF LogsOther
    <2>2. QED
        BY <1>1, <1>2, <1>7, <2>1, OrderIgnores
<1>8. QED
    BY <1>3, <1>6, <1>7 DEF told

LEMMA OrderKept == FifoInv /\ [Next]_vars => FifoInv'
<1> SUFFICES ASSUME FifoInv, [Next]_vars
             PROVE  FifoInv'
    OBVIOUS
<1>1. TypeInv'
    BY TypesKept DEF FifoInv
<1>2. InOrder(replay_log', queued_prompts', next_queue_item_id')
    BY AsideOrNot, OrderAside, OrderSettles, OrderQueues, OrderUnqueues DEF FifoInv, WorksOnQueue
<1>3. QED
    BY <1>1, <1>2 DEF FifoInv

LEMMA OrderImpliesFifo == FifoInv => QueueIsFifo
BY DEF FifoInv, InOrder, QueueIsFifo, Positions, FrameAt, Submissions, At

\* Queue items are submitted in the order they were added
\* (submit_next_queued_prompt, enqueue and unqueue of extension/queue.rs), for
\* any number of peers, items, steers and removals.  Inductive because the
\* items that wait are newer than all that were submitted and wait in the
\* order of their ids.
THEOREM QueueInOrder == Spec => []QueueIsFifo
BY OrderInit, OrderKept, OrderImpliesFifo, PTL DEF Spec

-----------------------------------------------------------------------------
(***************************************************************************)
(* Turns start and complete in turn.                                       *)
(***************************************************************************)

Bookends == {"turn_started", "turn_complete"}

Alternate(log, next, active) ==
    /\ \A k \in At(log, Bookends) : log[k].frame.turn \in 1 .. next - 1
    /\ \A j, k \in At(log, Bookends) : j < k =>
        \/ log[j].frame.turn < log[k].frame.turn
        \/ /\ log[j].frame.turn = log[k].frame.turn
           /\ log[j].frame.method = "turn_started" /\ log[k].frame.method = "turn_complete"
    /\ \A t \in 1 .. next - 1 :
        /\ \E k \in At(log, {"turn_started"}) : log[k].frame.turn = t
        /\ (\E k \in At(log, {"turn_complete"}) : log[k].frame.turn = t) <=> t # active
    /\ active \in {0, next - 1}

TurnInv == TypeInv /\ Alternate(replay_log, next_rooms_turn_id, active_rooms_turn_id)

\* One more frame, at position n, at the end of the log.
OneLonger(longer, log, f, n) ==
    /\ n \in Nat /\ longer[n].frame = f
    /\ DOMAIN longer = DOMAIN log \cup {n}
    /\ \A k \in DOMAIN log : k \in Nat /\ k < n /\ longer[k] = log[k]

LEMMA OneMore ==
    ASSUME NEW log \in Seq(Entry), NEW f \in Frame, NEW tag \in Nat
    PROVE  OneLonger(log \o Tagged(<<f>>, tag), log, f, Len(log) + 1)
<1> DEFINE new == Tagged(<<f>>, tag)
           longer == log \o new
           n == Len(log) + 1
<1>1. new \in Seq(Entry) /\ Len(new) = 1 /\ new[1].frame = f
    BY One
<1> HIDE DEF new
<1>2. /\ Len(log) \in Nat
      /\ DOMAIN log = 1..Len(log) /\ DOMAIN longer = 1..Len(log) + Len(new)
      /\ \A k \in 1..Len(log) : longer[k] = log[k]
      /\ \A k \in 1..Len(new) : longer[Len(log) + k] = new[k]
    BY <1>1, Grown
<1> HIDE DEF longer
<1>3. longer[Len(log) + 1] = new[1] /\ DOMAIN longer = 1..Len(log) + 1
    BY <1>1, <1>2
<1>4. OneLonger(longer, log, f, n)
    BY <1>1, <1>2, <1>3 DEF OneLonger
<1>5. QED
    BY <1>4 DEF longer, new

LEMMA OneMoreAt ==
    ASSUME NEW longer, NEW log, NEW f, NEW n, OneLonger(longer, log, f, n), NEW methods
    PROVE  /\ f.method \in methods => At(longer, methods) = At(log, methods) \cup {n}
           /\ f.method \notin methods => At(longer, methods) = At(log, methods)
           /\ \A k \in At(log, methods) : k \in Nat /\ k < n /\ longer[k] = log[k]
BY DEF OneLonger, At

LEMMA TurnsIgnore ==
    ASSUME NEW log \in Seq(Entry), NEW new \in Seq(Entry), NEW next, NEW active,
           Alternate(log, next, active), Without_(new, Bookends)
    PROVE  Alternate(log \o new, next, active)
<1> DEFINE longer == log \o new
<1>1. Without_(new, {"turn_started"}) /\ Without_(new, {"turn_complete"})
    BY DEF Without_, Bookends
<1>2. /\ At(longer, Bookends) = At(log, Bookends)
      /\ At(longer, {"turn_started"}) = At(log, {"turn_started"})
      /\ At(longer, {"turn_complete"}) = At(log, {"turn_complete"})
      /\ \A k \in At(log, Bookends) : longer[k] = log[k]
      /\ \A k \in At(log, {"turn_started"}) : longer[k] = log[k]
      /\ \A k \in At(log, {"turn_complete"}) : longer[k] = log[k]
    BY <1>1, PositionsStay
<1> HIDE DEF longer
<1>3. \A j, k \in At(longer, Bookends) : j < k =>
        \/ longer[j].frame.turn < longer[k].frame.turn
        \/ /\ longer[j].frame.turn = longer[k].frame.turn
           /\ longer[j].frame.method = "turn_started" /\ longer[k].frame.method = "turn_complete"
    BY <1>2 DEF Alternate
<1>4. \A k \in At(longer, Bookends) : longer[k].frame.turn \in 1 .. next - 1
    BY <1>2 DEF Alternate
<1>5. \A t \in 1 .. next - 1 :
        /\ \E k \in At(longer, {"turn_started"}) : longer[k].frame.turn = t
        /\ (\E k \in At(longer, {"turn_complete"}) : longer[k].frame.turn = t) <=> t # active
    BY <1>2 DEF Alternate
<1>6. QED
    BY <1>3, <1>4, <1>5 DEF Alternate, longer

\* The active turn completes.
LEMMA TurnsComplete ==
    ASSUME NEW log \in Seq(Entry), NEW f \in Frame, NEW tag \in Nat, NEW next \in Nat \ {0},
           NEW active \in Nat \ {0}, Alternate(log, next, active),
           f.method = "turn_complete", f.turn = active
    PROVE  Alternate(log \o Tagged(<<f>>, tag), next, 0)
<1> DEFINE longer == log \o Tagged(<<f>>, tag)
           n == Len(log) + 1
           Ends == {"turn_complete"}
           Starts == {"turn_started"}
<1>1. OneLonger(longer, log, f, n) /\ f.method \in Bookends
    BY OneMore DEF Bookends
<1> HIDE DEF longer, n
<1>2. /\ n \in Nat /\ longer[n].frame = f
      /\ At(longer, Bookends) = At(log, Bookends) \cup {n}
      /\ At(longer, Ends) = At(log, Ends) \cup {n}
      /\ At(longer, Starts) = At(log, Starts)
      /\ \A k \in At(log, Bookends) : k \in Nat /\ k < n /\ longer[k] = log[k]
      /\ \A k \in At(log, Ends) : k \in Nat /\ k < n /\ longer[k] = log[k]
      /\ \A k \in At(log, Starts) : k \in Nat /\ k < n /\ longer[k] = log[k]
    <2>1. /\ n \in Nat /\ longer[n].frame = f
          /\ At(longer, Bookends) = At(log, Bookends) \cup {n}
          /\ \A k \in At(log, Bookends) : k \in Nat /\ k < n /\ longer[k] = log[k]
        BY <1>1, OneMoreAt DEF OneLonger
    <2>2. /\ At(longer, Ends) = At(log, Ends) \cup {n}
          /\ \A k \in At(log, Ends) : k \in Nat /\ k < n /\ longer[k] = log[k]
        <3>1. f.method \in Ends
            OBVIOUS
        <3>2. QED
            BY <1>1, <3>1, OneMoreAt
    <2>3. /\ At(longer, Starts) = At(log, Starts)
          /\ \A k \in At(log, Starts) : k \in Nat /\ k < n /\ longer[k] = log[k]
        <3>1. f.method \notin Starts
            OBVIOUS
        <3>2. QED
            BY <1>1, <3>1, OneMoreAt
    <2>4. QED
        BY <2>1, <2>2, <2>3
<1>3. active = next - 1 /\ active \in 1 .. next - 1
    BY DEF Alternate
<1>4. \A k \in At(log, Bookends) :
        /\ log[k].frame.turn \in 1 .. next - 1
        /\ log[k].frame.turn < active \/ (log[k].frame.turn = active /\ log[k].frame.method = "turn_started")
    <2>1. TAKE k \in At(log, Bookends)
    <2>2. log[k].frame.turn \in 1 .. next - 1
        BY DEF Alternate
    <2>3. log[k].frame.method # "turn_started" => k \in At(log, Ends)
        BY DEF At, Bookends
    <2>4. log[k].frame.turn = active => k \notin At(log, Ends)
        BY <1>3 DEF Alternate
    <2>5. QED
        BY <1>3, <2>2, <2>3, <2>4
<1>5. \A k \in At(longer, Bookends) : longer[k].frame.turn \in 1 .. next - 1
    BY <1>2, <1>3, <1>4
<1>6. ASSUME NEW j \in At(longer, Bookends), NEW k \in At(longer, Bookends), j < k
      PROVE  \/ longer[j].frame.turn < longer[k].frame.turn
             \/ /\ longer[j].frame.turn = longer[k].frame.turn
                /\ longer[j].frame.method = "turn_started"
                /\ longer[k].frame.method = "turn_complete"
    <2>1. j \in At(log, Bookends)
        <3>1. k = n \/ (k \in Nat /\ k < n)
            BY <1>2
        <3>2. j # n
            BY <1>2, <1>6, <3>1
        <3>3. QED
            BY <1>2, <3>2
    <2>2. CASE k = n
        BY <1>2, <1>4, <2>1, <2>2
    <2>3. CASE k \in At(log, Bookends)
        <3>1. longer[j] = log[j] /\ longer[k] = log[k]
            BY <1>2, <2>1, <2>3
        <3>2. QED
            BY <1>6, <2>1, <2>3, <3>1 DEF Alternate
    <2>4. QED
        BY <1>2, <2>2, <2>3
<1>7. ASSUME NEW t \in 1 .. next - 1
      PROVE  /\ \E k \in At(longer, Starts) : longer[k].frame.turn = t
             /\ \E k \in At(longer, Ends) : longer[k].frame.turn = t
    <2>1. /\ \E k \in At(log, Starts) : log[k].frame.turn = t
          /\ t # active => \E k \in At(log, Ends) : log[k].frame.turn = t
        BY DEF Alternate
    <2>2. QED
        BY <1>1, <1>2, <2>1
<1>8. Alternate(longer, next, 0)
    BY <1>5, <1>6, <1>7 DEF Alternate
<1>9. QED
    BY <1>8 DEF longer

\* The next turn starts.
LEMMA TurnsStart ==
    ASSUME NEW log \in Seq(Entry), NEW f \in Frame, NEW tag \in Nat, NEW next \in Nat \ {0},
           Alternate(log, next, 0), f.method = "turn_started", f.turn = next
    PROVE  Alternate(log \o Tagged(<<f>>, tag), next + 1, next)
<1> DEFINE longer == log \o Tagged(<<f>>, tag)
           n == Len(log) + 1
           Ends == {"turn_complete"}
           Starts == {"turn_started"}
<1>1. OneLonger(longer, log, f, n) /\ f.method \in Bookends
    BY OneMore DEF Bookends
<1> HIDE DEF longer, n
<1>2. /\ n \in Nat /\ longer[n].frame = f
      /\ At(longer, Bookends) = At(log, Bookends) \cup {n}
      /\ At(longer, Ends) = At(log, Ends)
      /\ At(longer, Starts) = At(log, Starts) \cup {n}
      /\ \A k \in At(log, Bookends) : k \in Nat /\ k < n /\ longer[k] = log[k]
      /\ \A k \in At(log, Ends) : k \in Nat /\ k < n /\ longer[k] = log[k]
      /\ \A k \in At(log, Starts) : k \in Nat /\ k < n /\ longer[k] = log[k]
    <2>1. /\ n \in Nat /\ longer[n].frame = f
          /\ At(longer, Bookends) = At(log, Bookends) \cup {n}
          /\ \A k \in At(log, Bookends) : k \in Nat /\ k < n /\ longer[k] = log[k]
        BY <1>1, OneMoreAt DEF OneLonger
    <2>2. /\ At(longer, Ends) = At(log, Ends)
          /\ \A k \in At(log, Ends) : k \in Nat /\ k < n /\ longer[k] = log[k]
        <3>1. f.method \notin Ends
            OBVIOUS
        <3>2. QED
            BY <1>1, <3>1, OneMoreAt
    <2>3. /\ At(longer, Starts) = At(log, Starts) \cup {n}
          /\ \A k \in At(log, Starts) : k \in Nat /\ k < n /\ longer[k] = log[k]
        <3>1. f.method \in Starts
            OBVIOUS
        <3>2. QED
            BY <1>1, <3>1, OneMoreAt
    <2>4. QED
        BY <2>1, <2>2, <2>3
<1>3. \A k \in At(log, Bookends) : log[k].frame.turn \in 1 .. next - 1 /\ log[k].frame.turn < next
    BY DEF Alternate
<1>4. \A k \in At(log, Ends) : k \in At(log, Bookends)
    BY DEF At, Bookends
<1>5. \A k \in At(longer, Bookends) : longer[k].frame.turn \in 1 .. next + 1 - 1
    <2>1. \A k \in At(log, Bookends) : longer[k].frame.turn \in 1 .. next
        BY <1>2, <1>3
    <2>2. longer[n].frame.turn \in 1 .. next
        BY <1>2
    <2>3. QED
        BY <1>2, <2>1, <2>2
<1>6. ASSUME NEW j \in At(longer, Bookends), NEW k \in At(longer, Bookends), j < k
      PROVE  \/ longer[j].frame.turn < longer[k].frame.turn
             \/ /\ longer[j].frame.turn = longer[k].frame.turn
                /\ longer[j].frame.method = "turn_started"
                /\ longer[k].frame.method = "turn_complete"
    <2>1. j \in At(log, Bookends)
        <3>1. k = n \/ (k \in Nat /\ k < n)
            BY <1>2
        <3>2. j # n
            BY <1>2, <1>6, <3>1
        <3>3. QED
            BY <1>2, <3>2
    <2>2. CASE k = n
        BY <1>2, <1>3, <2>1, <2>2
    <2>3. CASE k \in At(log, Bookends)
        <3>1. longer[j] = log[j] /\ longer[k] = log[k]
            BY <1>2, <2>1, <2>3
        <3>2. QED
            BY <1>6, <2>1, <2>3, <3>1 DEF Alternate
    <2>4. QED
        BY <1>2, <2>2, <2>3
<1>7. ASSUME NEW t \in 1 .. next + 1 - 1
      PROVE  /\ \E k \in At(longer, Starts) : longer[k].frame.turn = t
             /\ (\E k \in At(longer, Ends) : longer[k].frame.turn = t) <=> t # next
    <2>1. CASE t = next
        <3>1. \A k \in At(log, Ends) : longer[k] = log[k] /\ log[k].frame.turn # next
            BY <1>2, <1>3, <1>4
        <3>2. QED
            BY <1>2, <2>1, <3>1
    <2>2. CASE t # next
        <3>1. t \in 1 .. next - 1 /\ t # 0
            BY <2>2
        <3>2. /\ \E k \in At(log, Starts) : log[k].frame.turn = t
              /\ \E k \in At(log, Ends) : log[k].frame.turn = t
            BY <3>1 DEF Alternate
        <3>3. QED
            BY <1>2, <2>2, <3>2
    <2>3. QED
        BY <2>1, <2>2
<1>8. next \in {0, next + 1 - 1}
    OBVIOUS
<1>9. Alternate(longer, next + 1, next)
    BY <1>5, <1>6, <1>7, <1>8 DEF Alternate
<1>10. QED
    BY <1>9 DEF longer

\* What is broadcast without bookends.
LEMMA TurnsIgnoreTagged ==
    ASSUME NEW log \in Seq(Entry), NEW frames \in Seq(Frame), NEW tag \in Nat,
           \A k \in 1..Len(frames) : frames[k].method \notin Bookends,
           NEW next, NEW active, Alternate(log, next, active)
    PROVE  Alternate(log \o Tagged(frames, tag), next, active)
<1> DEFINE new == Tagged(frames, tag)
<1>1. new \in Seq(Entry) /\ Without_(new, Bookends)
    BY TaggedType DEF Without_
<1> HIDE DEF new
<1>2. Alternate(log \o new, next, active)
    BY <1>1, TurnsIgnore
<1>3. QED
    BY <1>2 DEF new

\* A submission once the last turn has completed.
LEMMA SubmitTurns ==
    ASSUME TypeInv, NEW queue \in Seq(QueuedPrompt), queue # <<>>, NEW before \in Seq(Frame),
           NEW others, NEW data, submit_next_queued_prompt(queue, before, others, data),
           Alternate(replay_log \o Tagged(before, replay_tag), next_rooms_turn_id, 0)
    PROVE  Alternate(replay_log', next_rooms_turn_id', active_rooms_turn_id')
<1> DEFINE item == Head(queue)
           first == replay_log \o Tagged(before, replay_tag)
           f == TurnStarted(item)
           second == first \o Tagged(<<f>>, replay_tag)
<1>1. /\ item \in QueuedPrompt /\ f \in Frame /\ Submitted(item) \in Seq(Frame)
      /\ first \in Seq(Entry) /\ second \in Seq(Entry)
      /\ replay_log' = second \o Tagged(Submitted(item), replay_tag)
    BY SubmitPieces
<1>2. /\ next_rooms_turn_id \in Nat \ {0} /\ replay_tag \in Nat
      /\ next_rooms_turn_id' = next_rooms_turn_id + 1
      /\ active_rooms_turn_id' = next_rooms_turn_id
    BY DEF TypeInv, TurnType, SegmentType, submit_next_queued_prompt, start_turn
<1>3. f.method = "turn_started" /\ f.turn = next_rooms_turn_id
    BY DEF TurnStarted, frame
<1>4. \A k \in 1..Len(Submitted(item)) : Submitted(item)[k].method \notin Bookends
    BY DEF Submitted, frame, Bookends
<1>5. Alternate(first, next_rooms_turn_id, 0)
    OBVIOUS
<1> HIDE DEF item, first, f
<1>6. Alternate(second, next_rooms_turn_id + 1, next_rooms_turn_id)
    BY <1>1, <1>2, <1>3, <1>5, TurnsStart
<1> HIDE DEF second
<1>7. Alternate(second \o Tagged(Submitted(item), replay_tag), next_rooms_turn_id + 1,
                next_rooms_turn_id)
    BY <1>1, <1>2, <1>4, <1>6, TurnsIgnoreTagged
<1>8. QED
    BY <1>1, <1>2, <1>7

\* The frames that end a turn.
LEMMA SettleTurns ==
    ASSUME TurnInv, prompt_in_flight # 0, active_rooms_turn_id \in Nat \ {0},
           NEW swept \in Seq(Frame),
           \A k \in 1..Len(swept) : swept[k].method = "agent_request_resolved",
           TurnCompleted \in Frame, ItemCompleted \in Seq(Frame)
    PROVE  Alternate(replay_log \o Tagged(swept \o (<<TurnCompleted>> \o ItemCompleted), replay_tag),
                     next_rooms_turn_id, 0)
<1> DEFINE f == TurnCompleted
           first == replay_log \o Tagged(swept, replay_tag)
           second == first \o Tagged(<<f>>, replay_tag)
<1>1. /\ replay_log \in Seq(Entry) /\ replay_tag \in Nat
      /\ next_rooms_turn_id \in Nat \ {0} /\ <<f>> \in Seq(Frame)
    BY DEF TurnInv, TypeInv, TurnType, SegmentType, LogType
<1>2. f.method = "turn_complete" /\ f.turn = active_rooms_turn_id
    BY DEF TurnCompleted, frame
<1>3. \A k \in 1..Len(ItemCompleted) : ItemCompleted[k].method \notin Bookends
    BY DEF ItemCompleted, frame, Bookends
<1>4. \A k \in 1..Len(swept) : swept[k].method \notin Bookends
    BY DEF Bookends
<1>5. Alternate(first, next_rooms_turn_id, active_rooms_turn_id)
    BY <1>1, <1>4, TurnsIgnoreTagged DEF TurnInv
<1>6. Tagged(swept, replay_tag) \in Seq(Entry) /\ Tagged(<<f>>, replay_tag) \in Seq(Entry)
    BY <1>1, TaggedType
<1>7. first \in Seq(Entry)
    BY <1>1, <1>6, Grown
<1> HIDE DEF f, first
<1>8. second \in Seq(Entry)
    BY <1>6, <1>7, Grown
<1>9. Alternate(second, next_rooms_turn_id, 0)
    BY <1>1, <1>2, <1>5, <1>7, TurnsComplete DEF f
<1> HIDE DEF second
<1>10. Alternate(second \o Tagged(ItemCompleted, replay_tag), next_rooms_turn_id, 0)
    BY <1>1, <1>3, <1>8, <1>9, TurnsIgnoreTagged
<1>11. replay_log \o Tagged(swept \o (<<f>> \o ItemCompleted), replay_tag)
        = second \o Tagged(ItemCompleted, replay_tag)
    <2>1. <<f>> \o ItemCompleted \in Seq(Frame)
        BY <1>1
    <2>2. InPieces(replay_log, swept, <<f>> \o ItemCompleted, replay_tag)
        BY <1>1, <2>1, PiecesJoin
    <2>3. InPieces(first, <<f>>, ItemCompleted, replay_tag)
        BY <1>1, <1>7, PiecesJoin
    <2>4. QED
        BY <2>2, <2>3 DEF InPieces, first, second
<1>12. QED
    BY <1>10, <1>11 DEF f

LEMMA TurnInit == Init => TurnInv
<1>1. Init => Alternate(replay_log, next_rooms_turn_id, active_rooms_turn_id)
    BY DEF Init, Alternate, At
<1>2. QED
    BY <1>1, InitTypeInv DEF TurnInv

LEMMA TurnAside ==
    ASSUME TurnInv, Aside
    PROVE  Alternate(replay_log', next_rooms_turn_id', active_rooms_turn_id')
<1>1. PICK new \in Seq(Entry) : replay_log' = replay_log \o new /\ Without_(new, KeptMethods)
    BY DEF Aside, LogsOther, KeptMethods
<1>2. Without_(new, Bookends)
    BY <1>1 DEF Without_, KeptMethods, TurnMethods, Bookends
<1>3. Alternate(replay_log \o new, next_rooms_turn_id, active_rooms_turn_id)
    BY <1>2, TurnsIgnore DEF TurnInv, TypeInv, LogType
<1>4. QED
    BY <1>1, <1>3 DEF Aside, turnVars

LEMMA TurnEnds ==
    ASSUME TurnInv, prompt_settles
    PROVE  Alternate(replay_log', next_rooms_turn_id', active_rooms_turn_id')
<1>1. TypeInv /\ queued_prompts \in Seq(QueuedPrompt)
    BY DEF TurnInv, TypeInv, QueueType
<1>2. /\ prompt_in_flight # 0 /\ active_rooms_turn_id \in Nat \ {0}
      /\ TurnCompleted \in Frame /\ ItemCompleted \in Seq(Frame)
    BY <1>1, SettleParts
<1> DEFINE complete == <<TurnCompleted>> \o ItemCompleted
<1>3. PICK swept \in Seq(Frame) :
        /\ \A k \in 1..Len(swept) : swept[k].method = "agent_request_resolved"
        /\ swept \o complete \in Seq(Frame)
        /\ \/ /\ queued_prompts # <<>>
              /\ submit_next_queued_prompt(queued_prompts, swept \o complete,
                    Without(pending, prompt_in_flight), Without(per_request, prompt_in_flight))
           \/ /\ broadcast(swept \o complete)
              /\ active_rooms_turn_id' = 0 /\ UNCHANGED next_rooms_turn_id
    BY <1>1, SettleParts
<1>4. Alternate(replay_log \o Tagged(swept \o complete, replay_tag), next_rooms_turn_id, 0)
    BY <1>2, <1>3, SettleTurns
<1> DEFINE told == swept \o complete
<1> HIDE DEF complete, told
<1>5. CASE broadcast(told) /\ active_rooms_turn_id' = 0 /\ UNCHANGED next_rooms_turn_id
    BY <1>4, <1>5 DEF broadcast, told
<1>6. CASE /\ queued_prompts # <<>>
           /\ submit_next_queued_prompt(queued_prompts, told, Without(pending, prompt_in_flight),
                                        Without(per_request, prompt_in_flight))
    <2>1. told \in Seq(Frame)
        BY <1>3 DEF told
    <2>2. Alternate(replay_log \o Tagged(told, replay_tag), next_rooms_turn_id, 0)
        BY <1>4 DEF told
    <2>3. QED
        BY <1>1, <1>6, <2>1, <2>2, SubmitTurns
<1>7. QED
    BY <1>3, <1>5, <1>6 DEF told

LEMMA TurnQueues ==
    ASSUME TurnInv, NEW p \in Peers, WorksOnQueue(p)
    PROVE  Alternate(replay_log', next_rooms_turn_id', active_rooms_turn_id')
<1>1. /\ TypeInv /\ Alternate(replay_log, next_rooms_turn_id, active_rooms_turn_id)
      /\ next_queue_item_id \in Nat \ {0} /\ queued_prompts \in Seq(QueuedPrompt)
      /\ replay_log \in Seq(Entry) /\ replay_tag \in Nat
      /\ next_rooms_turn_id \in Nat \ {0} /\ active_rooms_turn_id \in Nat
      /\ prompt_in_flight = 0 => active_rooms_turn_id = 0
    BY DEF TurnInv, TypeInv, QueueType, LogType, TurnType, SegmentType, SlotIsTurn
<1>2. \A s \in ClientSessions : ControlSession(s) \in MaybeSession
    BY <1>1, SessionTypes
<1>3. \A frames \in Seq(Frame) :
        /\ broadcast(frames) /\ UNCHANGED turnVars
        /\ \A k \in 1..Len(frames) : frames[k].method \notin Bookends
        => Alternate(replay_log', next_rooms_turn_id', active_rooms_turn_id')
    BY <1>1, TurnsIgnoreTagged DEF broadcast, turnVars
<1>4. ASSUME NEW s \in ClientSessions, forward_prompt(p, s)
      PROVE  Alternate(replay_log', next_rooms_turn_id', active_rooms_turn_id')
    <2> DEFINE f == frame("turn_started", 0, next_rooms_turn_id)
    <2>1. f \in Frame /\ f.method = "turn_started" /\ f.turn = next_rooms_turn_id
        BY <1>1 DEF frame, Frame
    <2>2. /\ broadcast(<<f>>) /\ prompt_in_flight = 0
          /\ next_rooms_turn_id' = next_rooms_turn_id + 1
          /\ active_rooms_turn_id' = next_rooms_turn_id
        BY <1>4 DEF forward_prompt, start_turn
    <2> HIDE DEF f
    <2>3. Alternate(replay_log \o Tagged(<<f>>, replay_tag), next_rooms_turn_id + 1,
                    next_rooms_turn_id)
        BY <1>1, <2>1, <2>2, TurnsStart
    <2>4. QED
        BY <2>2, <2>3 DEF broadcast
<1>5. ASSUME NEW s \in ClientSessions, handle_rooms_queue_prompt_request(p, s)
      PROVE  Alternate(replay_log', next_rooms_turn_id', active_rooms_turn_id')
    <2> DEFINE item == [id |-> next_queue_item_id, peer |-> p, session |-> ControlSession(s),
                        kind |-> "queue", supersedes |-> 0]
               queue == Enqueued(item)
               f == frame("queue_item_added", next_queue_item_id, 0)
               added == <<f>>
    <2>1. \/ /\ prompt_in_flight = 0
             /\ submit_next_queued_prompt(queue, added, pending, per_request)
          \/ broadcast(added) /\ UNCHANGED turnVars
        BY <1>5 DEF handle_rooms_queue_prompt_request, submit_immediately
    <2>2. item \in QueuedPrompt
        BY <1>1, <1>2 DEF QueuedPrompt
    <2>3. f \in Frame /\ f.method \notin Bookends
        BY <1>1 DEF frame, Frame, QueueFrames, Bookends
    <2> HIDE DEF item, f
    <2>4. queue \in Seq(QueuedPrompt) /\ queue # <<>>
        BY <1>1, <2>2, AppendProperties DEF Enqueued
    <2>5. added \in Seq(Frame) /\ \A k \in 1..Len(added) : added[k].method \notin Bookends
        BY <2>3
    <2> HIDE DEF queue, added
    <2>6. Alternate(replay_log \o Tagged(added, replay_tag), next_rooms_turn_id,
                    active_rooms_turn_id)
        BY <1>1, <2>5, TurnsIgnoreTagged
    <2>7. QED
        BY <1>1, <1>3, <2>1, <2>4, <2>5, <2>6, SubmitTurns
<1>6. ASSUME NEW s \in ClientSessions, handle_rooms_steer_request(p, s)
      PROVE  Alternate(replay_log', next_rooms_turn_id', active_rooms_turn_id')
    <2> DEFINE f == frame("hard_steer_submitted", p, active_rooms_turn_id)
               told == <<f, turn_cancelled>>
    <2>1. broadcast(told) /\ UNCHANGED turnVars /\ prompt_in_flight # 0
        BY <1>6 DEF handle_rooms_steer_request
    <2>2. f \in Frame /\ f.method \notin Bookends
        BY <1>1 DEF frame, Frame, Bookends
    <2>3. turn_cancelled \in Frame /\ turn_cancelled.method \notin Bookends
        BY <1>1, <2>1, CancelledFrame DEF turn_cancelled, frame, Bookends
    <2> HIDE DEF f
    <2>4. told \in Seq(Frame) /\ \A k \in 1..Len(told) : told[k].method \notin Bookends
        BY <2>2, <2>3
    <2> HIDE DEF told
    <2>5. QED
        BY <1>3, <2>1, <2>4
<1>7. ASSUME NEW s \in ClientSessions, handle_rooms_idle_steer_request(p, s)
      PROVE  Alternate(replay_log', next_rooms_turn_id', active_rooms_turn_id')
    <2> DEFINE steer == [id |-> 0, peer |-> p, session |-> ControlSession(s),
                         kind |-> "prompt", supersedes |-> 0]
               f == frame("idle_steer_submitted", p, next_rooms_turn_id)
               told == <<f>>
    <2>1. /\ prompt_in_flight = 0
          /\ submit_next_queued_prompt(PutFirst(steer), told, pending, per_request)
        BY <1>7 DEF handle_rooms_idle_steer_request
    <2>2. steer \in QueuedPrompt
        BY <1>2 DEF QueuedPrompt
    <2>3. f \in Frame /\ f.method \notin Bookends
        BY <1>1 DEF frame, Frame, Bookends
    <2> HIDE DEF steer, f
    <2>4. PutFirst(steer) \in Seq(QueuedPrompt) /\ PutFirst(steer) # <<>>
        BY <1>1, <2>2 DEF PutFirst, Cons
    <2>5. told \in Seq(Frame) /\ \A k \in 1..Len(told) : told[k].method \notin Bookends
        BY <2>3
    <2> HIDE DEF told
    <2>6. Alternate(replay_log \o Tagged(told, replay_tag), next_rooms_turn_id, 0)
        BY <1>1, <2>1, <2>5, TurnsIgnoreTagged
    <2>7. QED
        BY <1>1, <2>1, <2>4, <2>5, <2>6, SubmitTurns
<1>8. CASE handle_rooms_unqueue_prompt_request(p)
    <2>1. PICK gone \in DOMAIN queued_prompts :
            broadcast(<<frame("queue_item_removed", queued_prompts[gone].id, 0)>>)
        BY <1>8 DEF handle_rooms_unqueue_prompt_request
    <2> DEFINE f == frame("queue_item_removed", queued_prompts[gone].id, 0)
    <2>2. queued_prompts[gone] \in QueuedPrompt
        BY <1>1
    <2>3. queued_prompts[gone].id \in Nat
        BY <2>2 DEF QueuedPrompt
    <2>4. f \in Frame /\ f.method \notin Bookends
        BY <2>3 DEF frame, Frame, QueueFrames, Bookends
    <2>5. broadcast(<<f>>) /\ UNCHANGED turnVars
        BY <1>8, <2>1 DEF handle_rooms_unqueue_prompt_request
    <2> HIDE DEF f
    <2>6. <<f>> \in Seq(Frame) /\ \A k \in 1..Len(<<f>>) : <<f>>[k].method \notin Bookends
        BY <2>4
    <2>7. QED
        BY <1>3, <2>5, <2>6
<1>9. QED
    BY <1>4, <1>5, <1>6, <1>7, <1>8 DEF WorksOnQueue

LEMMA TurnsKept == TurnInv /\ [Next]_vars => TurnInv'
<1> SUFFICES ASSUME TurnInv, [Next]_vars
             PROVE  TurnInv'
    OBVIOUS
<1>1. TypeInv'
    BY TypesKept DEF TurnInv
<1>2. Alternate(replay_log', next_rooms_turn_id', active_rooms_turn_id')
    BY AsideOrNot, TurnAside, TurnEnds, TurnQueues DEF TurnInv
<1>3. QED
    BY <1>1, <1>2 DEF TurnInv

LEMMA TurnInvImplies == TurnInv => TurnsAlternate
<1> SUFFICES ASSUME TurnInv
             PROVE  TurnsAlternate
    OBVIOUS
<1>1. /\ Positions("turn_started") = At(replay_log, {"turn_started"})
      /\ Positions("turn_complete") = At(replay_log, {"turn_complete"})
      /\ Positions("turn_started") \cup Positions("turn_complete") = At(replay_log, Bookends)
    BY DEF Positions, FrameAt, At, Bookends
<1>2. Alternate(replay_log, next_rooms_turn_id, active_rooms_turn_id) /\ SlotIsTurn
    BY DEF TurnInv, TypeInv
<1>3. QED
    BY <1>1, <1>2 DEF TurnsAlternate, Alternate, FrameAt, SlotIsTurn

\* Clients can fold turn_started and turn_complete into numbered turns
\* (on_request_forwarded, on_prompt_settled and submit_next_queued_prompt),
\* for any number of peers, prompts, steers and sessions.  Inductive because
\* only the last turn can be without its turn_complete, and then it is the
\* active one.
THEOREM TurnsInTurn == Spec => []TurnsAlternate
BY TurnInit, TurnsKept, TurnInvImplies, PTL DEF Spec
=============================================================================
