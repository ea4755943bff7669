--------------------------- MODULE RoomsTurnProofs ---------------------------
(***************************************************************************)
(* Proofs about the end of a turn, for every set of peers, sessions and    *)
(* asks and every value of the bounds: the next turn is that of the hard   *)
(* steer, if there was one; no request of the agent stays open over it;    *)
(* and the queue item it was for, if any, is completed with it.            *)
(***************************************************************************)
EXTENDS RoomsLogProofs

-----------------------------------------------------------------------------
(***************************************************************************)
(* A hard steer's prompt is the next turn.                                 *)
(***************************************************************************)

SteerMethods == {"turn_started", "hard_steer_submitted"}
Starts(log) == At(log, {"turn_started"})
Steers(log) == At(log, {"hard_steer_submitted"})

\* The first prompt that waits replaces turn t.
FirstSupersedes(queue, t) ==
    /\ 1 \in DOMAIN queue
    /\ queue[1].kind = "hard_steer" /\ queue[1].supersedes = t

\* Only the last turn can have a steer whose prompt still waits; then that
\* prompt is the first one, and the turn has not ended.
SteersStarted(log, next) ==
    /\ \A j \in Starts(log) \cup Steers(log) : log[j].frame.turn \in 1 .. next - 1
    /\ \A k \in Steers(log) : \A j \in Starts(log) :
        log[j].frame.turn = log[k].frame.turn + 1 => log[j].frame.of = log[k].frame.turn
    /\ \A j, k \in Steers(log) : log[j].frame.turn = log[k].frame.turn => j = k

SteersWait(log, queue, next, active) ==
    /\ \A k \in Steers(log) : log[k].frame.turn = next - 1 =>
        active = next - 1 /\ FirstSupersedes(queue, next - 1)
    /\ \A i \in DOMAIN queue : queue[i].kind = "hard_steer" => queue[i].id = 0

Steered(log, queue, next, active) ==
    SteersStarted(log, next) /\ SteersWait(log, queue, next, active)

SteerInv == TurnInv /\ Steered(replay_log, queued_prompts, next_rooms_turn_id, active_rooms_turn_id)

LEMMA SteersIgnore ==
    ASSUME NEW log \in Seq(Entry), NEW new \in Seq(Entry), NEW queue, NEW next, NEW active,
           Steered(log, queue, next, active), Without_(new, SteerMethods)
    PROVE  Steered(log \o new, queue, next, active)
<1> DEFINE longer == log \o new
<1>1. Without_(new, {"turn_started"}) /\ Without_(new, {"hard_steer_submitted"})
    BY DEF Without_, SteerMethods
<1>2. /\ Starts(longer) = Starts(log) /\ Steers(longer) = Steers(log)
      /\ \A k \in Starts(log) : longer[k] = log[k]
      /\ \A k \in Steers(log) : longer[k] = log[k]
    BY <1>1, PositionsStay DEF Starts, Steers
<1> HIDE DEF longer
<1>3. SteersStarted(longer, next)
    <2>1. \A j \in Starts(longer) \cup Steers(longer) : longer[j].frame.turn \in 1 .. next - 1
        BY <1>2 DEF Steered, SteersStarted
    <2>2. ASSUME NEW k \in Steers(longer), NEW j \in Starts(longer),
                 longer[j].frame.turn = longer[k].frame.turn + 1
          PROVE  longer[j].frame.of = longer[k].frame.turn
        <3>1. k \in Steers(log) /\ j \in Starts(log) /\ longer[k] = log[k] /\ longer[j] = log[j]
            BY <1>2
        <3>2. QED
            BY <2>2, <3>1 DEF Steered, SteersStarted
    <2>3. \A j, k \in Steers(longer) : longer[j].frame.turn = longer[k].frame.turn => j = k
        BY <1>2 DEF Steered, SteersStarted
    <2>4. QED
        BY <2>1, <2>2, <2>3 DEF SteersStarted
<1>4. SteersWait(longer, queue, next, active)
    BY <1>2 DEF Steered, SteersWait
<1>5. QED
    BY <1>3, <1>4 DEF Steered, longer

LEMMA SteersIgnoreTagged ==
    ASSUME NEW log \in Seq(Entry), NEW frames \in Seq(Frame), NEW tag \in Nat,
           \A k \in 1..Len(frames) : frames[k].method \notin SteerMethods,
           NEW queue, NEW next, NEW active, Steered(log, queue, next, active)
    PROVE  Steered(log \o Tagged(frames, tag), queue, next, active)
<1> DEFINE new == Tagged(frames, tag)
<1>1. /\ new \in Seq(Entry) /\ DOMAIN new = 1..Len(frames)
      /\ \A k \in 1..Len(frames) : new[k].frame = frames[k]
    BY TaggedType
<1> HIDE DEF new
<1>2. Without_(new, SteerMethods)
    BY <1>1 DEF Without_
<1>3. Steered(log \o new, queue, next, active)
    BY <1>1, <1>2, SteersIgnore
<1>4. QED
    BY <1>3 DEF new

\* Another queue whose first prompt replaces what the first one's did.
LEMMA SteersKeepWaiting ==
    ASSUME NEW log, NEW queue, NEW other, NEW next, NEW active,
           Steered(log, queue, next, active),
           \A t : FirstSupersedes(queue, t) => FirstSupersedes(other, t),
           \A i \in DOMAIN other : other[i].kind = "hard_steer" => other[i].id = 0
    PROVE  Steered(log, other, next, active)
BY DEF Steered, SteersWait

\* With no turn active no steer waits.
LEMMA NoneWaits ==
    ASSUME NEW log, NEW queue, NEW other, NEW next \in Nat \ {0}, Steered(log, queue, next, 0),
           \A i \in DOMAIN other : other[i].kind = "hard_steer" => other[i].id = 0
    PROVE  Steered(log, other, next, 0) /\ \A k \in Steers(log) : log[k].frame.turn # next - 1
BY DEF Steered, SteersStarted, SteersWait

\* The next turn starts: that of the steer that waits, if one does.
LEMMA SteersStart ==
    ASSUME NEW log \in Seq(Entry), NEW f \in Frame, NEW tag \in Nat, NEW next \in Nat \ {0},
           NEW queue, NEW other, NEW active, Steered(log, queue, next, active),
           f.method = "turn_started", f.turn = next,
           \A k \in Steers(log) : log[k].frame.turn = next - 1 => f.of = next - 1,
           \A i \in DOMAIN other : other[i].kind = "hard_steer" => other[i].id = 0
    PROVE  Steered(log \o Tagged(<<f>>, tag), other, next + 1, next)
<1> DEFINE longer == log \o Tagged(<<f>>, tag)
           n == Len(log) + 1
<1>1. OneLonger(longer, log, f, n)
    BY OneMore
<1> HIDE DEF longer, n
<1>2. /\ n \in Nat /\ longer[n].frame = f
      /\ Starts(longer) = Starts(log) \cup {n} /\ Steers(longer) = Steers(log)
      /\ \A k \in Starts(log) : k \in Nat /\ k < n /\ longer[k] = log[k]
      /\ \A k \in Steers(log) : k \in Nat /\ k < n /\ longer[k] = log[k]
    BY <1>1, OneMoreAt DEF OneLonger, Starts, Steers
<1>3. SteersStarted(longer, next + 1)
    <2>1. \A j \in Starts(longer) \cup Steers(longer) : longer[j].frame.turn \in 1 .. next + 1 - 1
        BY <1>2 DEF Steered, SteersStarted
    <2>2. ASSUME NEW k \in Steers(longer), NEW j \in Starts(longer),
                 longer[j].frame.turn = longer[k].frame.turn + 1
          PROVE  longer[j].frame.of = longer[k].frame.turn
        <3>1. k \in Steers(log) /\ longer[k] = log[k] /\ log[k].frame.turn \in 1 .. next - 1
            BY <1>2 DEF Steered, SteersStarted
        <3>2. CASE j = n
            BY <1>2, <2>2, <3>1, <3>2
        <3>3. CASE j \in Starts(log)
            BY <1>2, <2>2, <3>1, <3>3 DEF Steered, SteersStarted
        <3>4. QED
            BY <1>2, <3>2, <3>3
    <2>3. \A j, k \in Steers(longer) : longer[j].frame.turn = longer[k].frame.turn => j = k
        BY <1>2 DEF Steered, SteersStarted
    <2>4. QED
        BY <2>1, <2>2, <2>3 DEF SteersStarted
<1>4. SteersWait(longer, other, next + 1, next)
    BY <1>2 DEF Steered, SteersStarted, SteersWait
<1>5. QED
    BY <1>3, <1>4 DEF Steered, longer

\* A steer of the active turn, when none waits.
LEMMA SteersSteer ==
    ASSUME NEW log \in Seq(Entry), NEW f \in Frame, NEW tag \in Nat, NEW next \in Nat \ {0},
           NEW queue, NEW other, NEW active \in Nat \ {0}, Steered(log, queue, next, active),
           active = next - 1, ~FirstSupersedes(queue, active),
           f.method = "hard_steer_submitted", f.turn = active,
           FirstSupersedes(other, active),
           \A i \in DOMAIN other : other[i].kind = "hard_steer" => other[i].id = 0
    PROVE  Steered(log \o Tagged(<<f>>, tag), other, next, active)
<1> DEFINE longer == log \o Tagged(<<f>>, tag)
           n == Len(log) + 1
<1>1. OneLonger(longer, log, f, n)
    BY OneMore
<1> HIDE DEF longer, n
<1>2. /\ n \in Nat /\ longer[n].frame = f
      /\ Starts(longer) = Starts(log) /\ Steers(longer) = Steers(log) \cup {n}
      /\ \A k \in Starts(log) : k \in Nat /\ k < n /\ longer[k] = log[k]
      /\ \A k \in Steers(log) : k \in Nat /\ k < n /\ longer[k] = log[k]
    BY <1>1, OneMoreAt DEF OneLonger, Starts, Steers
<1>3. \A k \in Steers(log) : log[k].frame.turn # active
    BY DEF Steered, SteersWait
<1>4. SteersStarted(longer, next)
    <2>1. \A j \in Starts(longer) \cup Steers(longer) : longer[j].frame.turn \in 1 .. next - 1
        BY <1>2 DEF Steered, SteersStarted
    <2>2. ASSUME NEW k \in Steers(longer), NEW j \in Starts(longer),
                 longer[j].frame.turn = longer[k].frame.turn + 1
          PROVE  longer[j].frame.of = longer[k].frame.turn
        <3>1. j \in Starts(log) /\ longer[j] = log[j] /\ log[j].frame.turn \in 1 .. next - 1
            BY <1>2 DEF Steered, SteersStarted
        <3>2. CASE k = n
            <4>1. longer[j].frame.turn = active + 1
                BY <1>2, <2>2, <3>2
            <4>2. FALSE
                BY <3>1, <4>1
            <4>3. QED
                BY <4>2
        <3>3. CASE k \in Steers(log)
            BY <1>2, <2>2, <3>1, <3>3 DEF Steered, SteersStarted
        <3>4. QED
            BY <1>2, <3>2, <3>3
    <2>3. ASSUME NEW j \in Steers(longer), NEW k \in Steers(longer),
                 longer[j].frame.turn = longer[k].frame.turn
          PROVE  j = k
        <3>1. CASE j = n \/ k = n
            BY <1>2, <1>3, <2>3, <3>1
        <3>2. CASE j \in Steers(log) /\ k \in Steers(log)
            BY <1>2, <2>3, <3>2 DEF Steered, SteersStarted
        <3>3. QED
            BY <1>2, <3>1, <3>2
    <2>4. QED
        BY <2>1, <2>2, <2>3 DEF SteersStarted
<1>5. SteersWait(longer, other, next, active)
    BY DEF SteersWait
<1>6. QED
    BY <1>4, <1>5 DEF Steered, longer

\* Hard steers have no queue item id.
SteersAreNoItems(queue) == \A i \in DOMAIN queue : queue[i].kind = "hard_steer" => queue[i].id = 0

\* A submission: from what the frames before it leave.
LEMMA SubmitSteered ==
    ASSUME TypeInv, NEW queue \in Seq(QueuedPrompt), queue # <<>>, NEW before \in Seq(Frame),
           \A k \in 1..Len(before) : before[k].method \notin SteerMethods,
           NEW others, NEW data, submit_next_queued_prompt(queue, before, others, data),
           NEW active, Steered(replay_log, queue, next_rooms_turn_id, active)
    PROVE  Steered(replay_log', queued_prompts', next_rooms_turn_id', active_rooms_turn_id')
<1> DEFINE item == Head(queue)
           first == replay_log \o Tagged(before, replay_tag)
           f == TurnStarted(item)
           second == first \o Tagged(<<f>>, replay_tag)
<1>1. /\ item \in QueuedPrompt /\ f \in Frame /\ Submitted(item) \in Seq(Frame)
      /\ first \in Seq(Entry) /\ second \in Seq(Entry)
      /\ replay_log' = second \o Tagged(Submitted(item), replay_tag)
    BY SubmitPieces
<1>2. /\ next_rooms_turn_id \in Nat \ {0} /\ replay_tag \in Nat /\ replay_log \in Seq(Entry)
      /\ next_rooms_turn_id' = next_rooms_turn_id + 1
      /\ active_rooms_turn_id' = next_rooms_turn_id
      /\ queued_prompts' = Tail(queue)
    BY DEF TypeInv, TurnType, SegmentType, LogType, submit_next_queued_prompt, start_turn
<1>3. f.method = "turn_started" /\ f.turn = next_rooms_turn_id /\ f.of = item.supersedes
    BY DEF TurnStarted, frame
<1>4. \A k \in 1..Len(Submitted(item)) : Submitted(item)[k].method \notin SteerMethods
    BY DEF Submitted, frame, SteerMethods
<1>5. Steered(first, queue, next_rooms_turn_id, active)
    BY <1>2, SteersIgnoreTagged
<1>6. item = queue[1] /\ \A i \in DOMAIN Tail(queue) : i + 1 \in DOMAIN queue /\ Tail(queue)[i] = queue[i + 1]
    OBVIOUS
<1> HIDE DEF item, first, f
<1>7. \A k \in Steers(first) : first[k].frame.turn = next_rooms_turn_id - 1
            => f.of = next_rooms_turn_id - 1
    BY <1>3, <1>5, <1>6 DEF Steered, SteersWait, FirstSupersedes
<1> DEFINE rest == Tail(queue)
<1>8. \A i \in DOMAIN rest : rest[i].kind = "hard_steer" => rest[i].id = 0
    BY <1>5, <1>6 DEF Steered, SteersWait
<1> HIDE DEF rest
<1>9. Steered(second, rest, next_rooms_turn_id + 1, next_rooms_turn_id)
    BY <1>1, <1>2, <1>3, <1>5, <1>7, <1>8, SteersStart
<1> HIDE DEF second
<1>10. Steered(second \o Tagged(Submitted(item), replay_tag), rest, next_rooms_turn_id + 1,
               next_rooms_turn_id)
    BY <1>1, <1>2, <1>4, <1>9, SteersIgnoreTagged
<1>11. QED
    BY <1>1, <1>2, <1>10 DEF rest

LEMMA SteerInit == Init => SteerInv
<1>1. Init => Steered(replay_log, queued_prompts, next_rooms_turn_id, active_rooms_turn_id)
    BY DEF Init, Steered, SteersStarted, SteersWait, Starts, Steers, At
<1>2. QED
    BY <1>1, TurnInit DEF SteerInv

LEMMA SteerAside ==
    ASSUME SteerInv, Aside
    PROVE  Steered(replay_log', queued_prompts', next_rooms_turn_id', active_rooms_turn_id')
<1>1. PICK new \in Seq(Entry) : replay_log' = replay_log \o new /\ Without_(new, KeptMethods)
    BY DEF Aside, LogsOther, KeptMethods
<1>2. Without_(new, SteerMethods)
    BY <1>1 DEF Without_, KeptMethods, TurnMethods, SteerMethods
<1>3. Steered(replay_log, queued_prompts', next_rooms_turn_id, active_rooms_turn_id)
    BY DEF SteerInv, Aside, SameItems, Steered, SteersWait, FirstSupersedes
<1>4. Steered(replay_log \o new, queued_prompts', next_rooms_turn_id, active_rooms_turn_id)
    BY <1>2, <1>3, SteersIgnore DEF SteerInv, TurnInv, TypeInv, LogType
<1>5. QED
    BY <1>1, <1>4 DEF Aside, turnVars

\* The turn of a steer that waits ends: the steer is submitted.
LEMMA SteerSettles ==
    ASSUME SteerInv, prompt_settles
    PROVE  Steered(replay_log', queued_prompts', next_rooms_turn_id', active_rooms_turn_id')
<1>1. /\ TypeInv /\ queued_prompts \in Seq(QueuedPrompt)
      /\ replay_log \in Seq(Entry) /\ replay_tag \in Nat
      /\ Steered(replay_log, queued_prompts, next_rooms_turn_id, active_rooms_turn_id)
    BY DEF SteerInv, TurnInv, TypeInv, QueueType, LogType, SegmentType
<1>2. TurnCompleted \in Frame /\ ItemCompleted \in Seq(Frame)
    BY <1>1, SettleParts
<1> DEFINE complete == <<TurnCompleted>> \o ItemCompleted
<1>3. PICK swept \in Seq(Frame) :
        /\ \A k \in 1..Len(swept) : swept[k].method = "agent_request_resolved"
        /\ swept \o complete \in Seq(Frame)
        /\ \/ /\ queued_prompts # <<>>
              /\ submit_next_queued_prompt(queued_prompts, swept \o complete,
                    Without(pending, prompt_in_flight), Without(per_request, prompt_in_flight))
           \/ /\ queued_prompts = <<>> /\ broadcast(swept \o complete)
              /\ active_rooms_turn_id' = 0
              /\ UNCHANGED <<next_rooms_turn_id, queued_prompts>>
    BY <1>1, SettleParts
<1>4. complete \in Seq(Frame) /\ \A k \in 1..Len(complete) : complete[k].method \notin SteerMethods
    <2>1. TurnCompleted.method = "turn_complete"
        BY DEF TurnCompleted, frame
    <2>2. \A k \in 1..Len(ItemCompleted) : ItemCompleted[k].method = "queue_item_completed"
        BY DEF ItemCompleted, frame
    <2>3. QED
        BY <1>2, <2>1, <2>2 DEF SteerMethods
<1> DEFINE told == swept \o complete
<1> HIDE DEF complete
<1>5. told \in Seq(Frame) /\ \A k \in 1..Len(told) : told[k].method \notin SteerMethods
    BY <1>3, <1>4 DEF SteerMethods
<1> HIDE DEF told
<1>6. CASE /\ queued_prompts # <<>>
           /\ submit_next_queued_prompt(queued_prompts, told, Without(pending, prompt_in_flight),
                                        Without(per_request, prompt_in_flight))
    BY <1>1, <1>5, <1>6, SubmitSteered
<1>7. CASE /\ queued_prompts = <<>> /\ broadcast(told) /\ active_rooms_turn_id' = 0
           /\ UNCHANGED <<next_rooms_turn_id, queued_prompts>>
    <2>1. Steered(replay_log, queued_prompts, next_rooms_turn_id, 0)
        BY <1>1, <1>7 DEF Steered, SteersWait, FirstSupersedes
    <2>2. Steered(replay_log \o Tagged(told, replay_tag), queued_prompts, next_rooms_turn_id, 0)
        BY <1>1, <1>5, <2>1, SteersIgnoreTagged
    <2>3. QED
        BY <1>7, <2>2 DEF broadcast
<1>8. QED
    BY <1>3, <1>6, <1>7 DEF told

\* What a peer asks of the queue, with a turn active or without.
LEMMA SteerQueues ==
    ASSUME SteerInv, NEW p \in Peers, WorksOnQueue(p)
    PROVE  Steered(replay_log', queued_prompts', next_rooms_turn_id', active_rooms_turn_id')
<1>1. /\ TypeInv
      /\ Steered(replay_log, queued_prompts, next_rooms_turn_id, active_rooms_turn_id)
      /\ next_queue_item_id \in Nat \ {0} /\ queued_prompts \in Seq(QueuedPrompt)
      /\ replay_log \in Seq(Entry) /\ replay_tag \in Nat
      /\ next_rooms_turn_id \in Nat \ {0} /\ active_rooms_turn_id \in Nat
      /\ active_rooms_turn_id # 0 => active_rooms_turn_id = next_rooms_turn_id - 1
      /\ prompt_in_flight = 0 => active_rooms_turn_id = 0
      /\ SteersAreNoItems(queued_prompts)
    BY DEF SteerInv, TurnInv, Alternate, TypeInv, QueueType, LogType, TurnType, SegmentType,
           SlotIsTurn, Steered, SteersWait, SteersAreNoItems
<1>2. \A s \in ClientSessions : ControlSession(s) \in MaybeSession
    BY <1>1, SessionTypes
<1>3. \A queue : \A frames \in Seq(Frame) :
        /\ Steered(replay_log, queue, next_rooms_turn_id, active_rooms_turn_id)
        /\ queued_prompts' = queue /\ broadcast(frames) /\ UNCHANGED turnVars
        /\ \A k \in 1..Len(frames) : frames[k].method \notin SteerMethods
        => Steered(replay_log', queued_prompts', next_rooms_turn_id', active_rooms_turn_id')
    BY <1>1, SteersIgnoreTagged DEF broadcast, turnVars
<1>4. ASSUME NEW s \in ClientSessions, forward_prompt(p, s)
      PROVE  Steered(replay_log', queued_prompts', next_rooms_turn_id', active_rooms_turn_id')
    <2> DEFINE f == frame("turn_started", 0, next_rooms_turn_id)
    <2>1. f \in Frame /\ f.method = "turn_started" /\ f.turn = next_rooms_turn_id
        BY <1>1 DEF frame, Frame
    <2>2. /\ broadcast(<<f>>) /\ prompt_in_flight = 0 /\ UNCHANGED queued_prompts
          /\ next_rooms_turn_id' = next_rooms_turn_id + 1
          /\ active_rooms_turn_id' = next_rooms_turn_id
        BY <1>4 DEF forward_prompt, start_turn, queueVars
    <2> HIDE DEF f
    <2>3. /\ Steered(replay_log, queued_prompts, next_rooms_turn_id, 0)
          /\ \A k \in Steers(replay_log) : replay_log[k].frame.turn # next_rooms_turn_id - 1
        BY <1>1, <2>2, NoneWaits DEF SteersAreNoItems
    <2>4. Steered(replay_log \o Tagged(<<f>>, replay_tag), queued_prompts, next_rooms_turn_id + 1,
                  next_rooms_turn_id)
        BY <1>1, <2>1, <2>3, SteersStart DEF SteersAreNoItems
    <2>5. QED
        BY <2>2, <2>4 DEF broadcast
<1>5. ASSUME NEW s \in ClientSessions, handle_rooms_queue_prompt_request(p, s)
      PROVE  Steered(replay_log', queued_prompts', next_rooms_turn_id', active_rooms_turn_id')
    <2> DEFINE item == [id |-> next_queue_item_id, peer |-> p, session |-> ControlSession(s),
                        kind |-> "queue", supersedes |-> 0]
               queue == Append(queued_prompts, item)
               f == frame("queue_item_added", next_queue_item_id, 0)
               added == <<f>>
    <2>1. \/ submit_next_queued_prompt(queue, added, pending, per_request)
          \/ queued_prompts' = queue /\ broadcast(added) /\ UNCHANGED turnVars
        BY <1>5 DEF handle_rooms_queue_prompt_request, Enqueued
    <2>2. item \in QueuedPrompt /\ item.kind = "queue"
        BY <1>1, <1>2 DEF QueuedPrompt
    <2>3. f \in Frame /\ f.method \notin SteerMethods
        BY <1>1 DEF frame, Frame, QueueFrames, SteerMethods
    <2> HIDE DEF item, f
    <2>4. /\ queue \in Seq(QueuedPrompt) /\ queue # <<>>
          /\ DOMAIN queue = DOMAIN queued_prompts \cup {Len(queued_prompts) + 1}
          /\ \A i \in DOMAIN queued_prompts : queue[i] = queued_prompts[i]
          /\ queue[Len(queued_prompts) + 1] = item
        BY <1>1, <2>2, AppendProperties
    <2>5. added \in Seq(Frame) /\ \A k \in 1..Len(added) : added[k].method \notin SteerMethods
        BY <2>3
    <2> HIDE DEF queue, added
    <2>6. Steered(replay_log, queue, next_rooms_turn_id, active_rooms_turn_id)
        <3>1. \A t : FirstSupersedes(queued_prompts, t) => FirstSupersedes(queue, t)
            BY <2>4 DEF FirstSupersedes
        <3>2. \A i \in DOMAIN queue : queue[i].kind = "hard_steer" => queue[i].id = 0
            BY <1>1, <2>2, <2>4 DEF SteersAreNoItems
        <3>3. QED
            BY <1>1, <3>1, <3>2, SteersKeepWaiting
    <2>7. QED
        BY <1>1, <1>3, <2>1, <2>4, <2>5, <2>6, SubmitSteered
<1>6. ASSUME NEW steer \in QueuedPrompt, steer.id = 0
      PROVE  /\ PutFirst(steer) \in Seq(QueuedPrompt) /\ PutFirst(steer) # <<>>
             /\ 1 \in DOMAIN PutFirst(steer) /\ PutFirst(steer)[1] = steer
             /\ SteersAreNoItems(PutFirst(steer))
    <2> DEFINE longer == PutFirst(steer)
    <2>1. /\ longer \in Seq(QueuedPrompt) /\ longer # <<>> /\ Len(queued_prompts) \in Nat
          /\ DOMAIN longer = 1 .. Len(queued_prompts) + 1
          /\ longer[1] = steer
          /\ \A i \in 1 .. Len(queued_prompts) : longer[i + 1] = queued_prompts[i]
        BY <1>1 DEF PutFirst, Cons
    <2> HIDE DEF longer
    <2>2. \A i \in DOMAIN longer : i # 1 =>
            i - 1 \in DOMAIN queued_prompts /\ longer[i] = queued_prompts[i - 1]
        <3>1. \A i \in DOMAIN longer : i # 1 => i - 1 \in 1 .. Len(queued_prompts) /\ (i - 1) + 1 = i
            BY <2>1
        <3>2. QED
            BY <1>1, <2>1, <3>1
    <2>3. SteersAreNoItems(longer)
        <3> SUFFICES ASSUME NEW i \in DOMAIN longer, longer[i].kind = "hard_steer"
                     PROVE  longer[i].id = 0
            BY DEF SteersAreNoItems
        <3>1. CASE i = 1
            BY <1>6, <2>1, <3>1
        <3>2. CASE i # 1
            BY <1>1, <2>2, <3>2 DEF SteersAreNoItems
        <3>3. QED
            BY <3>1, <3>2
    <2>4. QED
        BY <2>1, <2>3 DEF longer
<1>7. ASSUME NEW s \in ClientSessions, handle_rooms_steer_request(p, s)
      PROVE  Steered(replay_log', queued_prompts', next_rooms_turn_id', active_rooms_turn_id')
    <2> DEFINE steer == [id |-> 0, peer |-> p, session |-> ControlSession(s),
                         kind |-> "hard_steer", supersedes |-> active_rooms_turn_id]
               f == frame("hard_steer_submitted", p, active_rooms_turn_id)
               other == PutFirst(steer)
    <2>1. /\ queued_prompts' = other /\ broadcast(<<f, turn_cancelled>>)
          /\ UNCHANGED turnVars /\ prompt_in_flight # 0 /\ active_rooms_turn_id # 0
          /\ ~has_pending_hard_steer
        BY <1>7 DEF handle_rooms_steer_request
    <2>2. /\ steer \in QueuedPrompt /\ steer.id = 0
          /\ steer.kind = "hard_steer" /\ steer.supersedes = active_rooms_turn_id
        BY <1>1, <1>2 DEF QueuedPrompt
    <2>3. /\ f \in Frame /\ f.method = "hard_steer_submitted" /\ f.turn = active_rooms_turn_id
        BY <1>1 DEF frame, Frame
    <2> DEFINE g == turn_cancelled
    <2>4. g \in Frame /\ g.method \notin SteerMethods
        BY <1>1, <2>1, CancelledFrame DEF turn_cancelled, frame, SteerMethods
    <2> HIDE DEF steer, f
    <2>5. SteersAreNoItems(other) /\ FirstSupersedes(other, active_rooms_turn_id)
        BY <1>6, <2>2 DEF FirstSupersedes
    <2>6. ~FirstSupersedes(queued_prompts, active_rooms_turn_id)
        BY <2>1 DEF FirstSupersedes, has_pending_hard_steer
    <2> HIDE DEF other
    <2>7. Steered(replay_log \o Tagged(<<f>>, replay_tag), other, next_rooms_turn_id,
                  active_rooms_turn_id)
        BY <1>1, <2>1, <2>3, <2>5, <2>6, SteersSteer DEF SteersAreNoItems
    <2> HIDE DEF g
    <2>8. broadcast(<<f>> \o <<g>>)
        <3>1. broadcast(<<f, g>>)
            BY <2>1 DEF g
        <3>2. <<f, g>> = <<f>> \o <<g>>
            OBVIOUS
        <3>3. QED
            BY <3>1, <3>2
    <2>9. /\ <<f>> \in Seq(Frame) /\ <<g>> \in Seq(Frame)
          /\ \A k \in 1..Len(<<g>>) : <<g>>[k].method \notin SteerMethods
        BY <2>3, <2>4
    <2> DEFINE first == replay_log \o Tagged(<<f>>, replay_tag)
    <2>10. first \in Seq(Entry) /\ replay_log' = first \o Tagged(<<g>>, replay_tag)
        BY <1>1, <2>8, <2>9, BroadcastPieces
    <2>11. Steered(first, other, next_rooms_turn_id, active_rooms_turn_id)
        BY <2>7
    <2> DEFINE G == <<g>>
    <2>12. G \in Seq(Frame) /\ \A k \in 1..Len(G) : G[k].method \notin SteerMethods
        BY <2>9
    <2> HIDE DEF first, G
    <2>13. Steered(first \o Tagged(G, replay_tag), other, next_rooms_turn_id, active_rooms_turn_id)
        BY <1>1, <2>10, <2>11, <2>12, SteersIgnoreTagged
    <2>14. QED
        BY <2>1, <2>10, <2>13 DEF G, turnVars
<1>8. ASSUME NEW s \in ClientSessions, handle_rooms_idle_steer_request(p, s)
      PROVE  Steered(replay_log', queued_prompts', next_rooms_turn_id', active_rooms_turn_id')
    <2> DEFINE steer == [id |-> 0, peer |-> p, session |-> ControlSession(s),
                         kind |-> "prompt", supersedes |-> 0]
               f == frame("idle_steer_submitted", p, next_rooms_turn_id)
               told == <<f>>
    <2>1. /\ prompt_in_flight = 0
          /\ submit_next_queued_prompt(PutFirst(steer), told, pending, per_request)
        BY <1>8 DEF handle_rooms_idle_steer_request
    <2>2. steer \in QueuedPrompt /\ steer.id = 0
        BY <1>2 DEF QueuedPrompt
    <2>3. f \in Frame /\ f.method \notin SteerMethods
        BY <1>1 DEF frame, Frame, SteerMethods
    <2> HIDE DEF steer, f
    <2>4. told \in Seq(Frame) /\ \A k \in 1..Len(told) : told[k].method \notin SteerMethods
        BY <2>3
    <2> HIDE DEF told
    <2>5. /\ PutFirst(steer) \in Seq(QueuedPrompt) /\ PutFirst(steer) # <<>>
          /\ SteersAreNoItems(PutFirst(steer))
        BY <1>6, <2>2
    <2>6. Steered(replay_log, PutFirst(steer), next_rooms_turn_id, 0)
        BY <1>1, <2>1, <2>5, NoneWaits DEF SteersAreNoItems
    <2>7. QED
        BY <1>1, <2>1, <2>4, <2>5, <2>6, SubmitSteered
<1>9. CASE handle_rooms_unqueue_prompt_request(p)
    <2>1. PICK gone \in DOMAIN queued_prompts :
            /\ queued_prompts[gone].id # 0 /\ queued_prompts' = RemoveAt(queued_prompts, gone)
            /\ broadcast(<<frame("queue_item_removed", queued_prompts[gone].id, 0)>>)
        BY <1>9 DEF handle_rooms_unqueue_prompt_request
    <2> DEFINE f == frame("queue_item_removed", queued_prompts[gone].id, 0)
               rest == RemoveAt(queued_prompts, gone)
    <2>2. queued_prompts[gone] \in QueuedPrompt
        BY <1>1
    <2>3. queued_prompts[gone].id \in Nat
        BY <2>2 DEF QueuedPrompt
    <2>4. f \in Frame /\ f.method \notin SteerMethods
        BY <2>3 DEF frame, Frame, QueueFrames, SteerMethods
    <2>5. broadcast(<<f>>) /\ UNCHANGED turnVars
        BY <1>9, <2>1 DEF handle_rooms_unqueue_prompt_request
    <2>6. /\ gone \in 1 .. Len(queued_prompts) /\ Len(queued_prompts) \in Nat
          /\ DOMAIN queued_prompts = 1 .. Len(queued_prompts)
          /\ DOMAIN rest = 1 .. Len(queued_prompts) - 1
          /\ \A i \in 1 .. Len(queued_prompts) - 1 :
                rest[i] = queued_prompts[IF i < gone THEN i ELSE i + 1]
        BY <1>1, Removed
    <2> HIDE DEF f, rest
    <2>7. SteersAreNoItems(rest)
        <3>1. \A i \in DOMAIN rest : \E j \in DOMAIN queued_prompts : rest[i] = queued_prompts[j]
            <4>1. \A i \in 1 .. Len(queued_prompts) - 1 :
                    i \in DOMAIN queued_prompts /\ i + 1 \in DOMAIN queued_prompts
                BY <2>6
            <4>2. QED
                BY <2>6, <4>1
        <3>2. QED
            BY <1>1, <3>1 DEF SteersAreNoItems
    <2>8. \A t : FirstSupersedes(queued_prompts, t) => FirstSupersedes(rest, t)
        <3>1. \A t : FirstSupersedes(queued_prompts, t) => gone # 1
            BY <1>1, <2>1 DEF FirstSupersedes, SteersAreNoItems
        <3>2. gone # 1 => 1 \in DOMAIN rest /\ rest[1] = queued_prompts[1]
            BY <2>6
        <3>3. QED
            BY <3>1, <3>2 DEF FirstSupersedes
    <2>9. Steered(replay_log, rest, next_rooms_turn_id, active_rooms_turn_id)
        BY <1>1, <2>7, <2>8, SteersKeepWaiting DEF SteersAreNoItems
    <2>10. <<f>> \in Seq(Frame) /\ \A k \in 1..Len(<<f>>) : <<f>>[k].method \notin SteerMethods
        BY <2>4
    <2>11. queued_prompts' = rest
        BY <2>1 DEF rest
    <2>12. QED
        BY <1>3, <2>5, <2>9, <2>10, <2>11
<1>10. QED
    BY <1>4, <1>5, <1>7, <1>8, <1>9 DEF WorksOnQueue

LEMMA SteersKept == SteerInv /\ [Next]_vars => SteerInv'
<1> SUFFICES ASSUME SteerInv, [Next]_vars
             PROVE  SteerInv'
    OBVIOUS
<1>1. TurnInv'
    BY TurnsKept DEF SteerInv
<1>2. Steered(replay_log', queued_prompts', next_rooms_turn_id', active_rooms_turn_id')
    BY AsideOrNot, SteerAside, SteerSettles, SteerQueues DEF SteerInv, TurnInv
<1>3. QED
    BY <1>1, <1>2 DEF SteerInv

LEMMA SteerInvImplies == SteerInv => SteerIsNext
<1>1. /\ Positions("turn_started") = Starts(replay_log)
      /\ Positions("hard_steer_submitted") = Steers(replay_log)
    BY DEF Positions, FrameAt, At, Starts, Steers
<1>2. QED
    BY <1>1 DEF SteerInv, Steered, SteersStarted, SteerIsNext, FrameAt

\* A hard steer is followed by its own prompt, however many prompts are
\* queued, removed or cancelled before the turn it supersedes has ended, and
\* a turn is superseded once (handle_rooms_steer_request and
\* submit_next_queued_prompt), for any number of peers.
THEOREM SteersGoFirst == Spec => []SteerIsNext
BY SteerInit, SteersKept, SteerInvImplies, PTL DEF Spec

-----------------------------------------------------------------------------
(***************************************************************************)
(* The agent's requests are settled when a turn completes.                 *)
(***************************************************************************)

AskMethods == {"agent_request_opened", "agent_request_resolved", "turn_complete"}
Opened(log) == At(log, {"agent_request_opened"})
Resolutions(log) == At(log, {"agent_request_resolved"})
Ends(log) == At(log, {"turn_complete"})

\* Every request in the log is resolved later on, or still one of asks; those
\* that were opened before a turn_complete were resolved before it.
Settled(log, asks) ==
    /\ \A j \in Opened(log) :
        \/ log[j].frame.of \in asks
        \/ \E i \in Resolutions(log) : j < i /\ log[i].frame.of = log[j].frame.of
    /\ \A k \in Ends(log) : \A j \in Opened(log) : j < k =>
        \E i \in Resolutions(log) : j < i /\ i < k /\ log[i].frame.of = log[j].frame.of

AskInv == TypeInv /\ Settled(replay_log, Unresolved)

LEMMA AsksIgnore ==
    ASSUME NEW log \in Seq(Entry), NEW new \in Seq(Entry), NEW asks, Settled(log, asks),
           Without_(new, AskMethods)
    PROVE  Settled(log \o new, asks)
<1> DEFINE longer == log \o new
<1>1. /\ Without_(new, {"agent_request_opened"}) /\ Without_(new, {"agent_request_resolved"})
      /\ Without_(new, {"turn_complete"})
    BY DEF Without_, AskMethods
<1>2. /\ Opened(longer) = Opened(log) /\ Resolutions(longer) = Resolutions(log)
      /\ Ends(longer) = Ends(log)
      /\ \A k \in Opened(log) : longer[k] = log[k]
      /\ \A k \in Resolutions(log) : longer[k] = log[k]
    BY <1>1, PositionsStay DEF Opened, Resolutions, Ends
<1> HIDE DEF longer
<1>3. Settled(longer, asks)
    BY <1>2 DEF Settled
<1>4. QED
    BY <1>3 DEF longer

LEMMA AsksIgnoreTagged ==
    ASSUME NEW log \in Seq(Entry), NEW frames \in Seq(Frame), NEW tag \in Nat,
           \A k \in 1..Len(frames) : frames[k].method \notin AskMethods,
           NEW asks, Settled(log, asks)
    PROVE  Settled(log \o Tagged(frames, tag), asks)
<1> DEFINE new == Tagged(frames, tag)
<1>1. /\ new \in Seq(Entry) /\ DOMAIN new = 1..Len(frames)
      /\ \A k \in 1..Len(frames) : new[k].frame = frames[k]
    BY TaggedType
<1> HIDE DEF new
<1>2. Without_(new, AskMethods)
    BY <1>1 DEF Without_
<1>3. Settled(log \o new, asks)
    BY <1>1, <1>2, AsksIgnore
<1>4. QED
    BY <1>3 DEF new

\* A request is opened.
LEMMA AsksOpen ==
    ASSUME NEW log \in Seq(Entry), NEW f \in Frame, NEW tag \in Nat, NEW asks, Settled(log, asks),
           f.method = "agent_request_opened"
    PROVE  Settled(log \o Tagged(<<f>>, tag), asks \cup {f.of})
<1> DEFINE longer == log \o Tagged(<<f>>, tag)
           n == Len(log) + 1
<1>1. OneLonger(longer, log, f, n)
    BY OneMore
<1> HIDE DEF longer, n
<1>2. /\ n \in Nat /\ longer[n].frame = f
      /\ Opened(longer) = Opened(log) \cup {n} /\ Resolutions(longer) = Resolutions(log)
      /\ Ends(longer) = Ends(log)
      /\ \A k \in Opened(log) : k \in Nat /\ k < n /\ longer[k] = log[k]
      /\ \A k \in Resolutions(log) : k \in Nat /\ k < n /\ longer[k] = log[k]
      /\ \A k \in Ends(log) : k \in Nat /\ k < n
    BY <1>1, OneMoreAt DEF OneLonger, Opened, Resolutions, Ends
<1>3. \A j \in Opened(longer) :
        \/ longer[j].frame.of \in asks \cup {f.of}
        \/ \E i \in Resolutions(longer) : j < i /\ longer[i].frame.of = longer[j].frame.of
    BY <1>2 DEF Settled
<1>4. \A k \in Ends(longer) : \A j \in Opened(longer) : j < k =>
        \E i \in Resolutions(longer) :
            j < i /\ i < k /\ longer[i].frame.of = longer[j].frame.of
    BY <1>2 DEF Settled
<1>5. QED
    BY <1>3, <1>4 DEF Settled, longer

\* Requests are resolved, each that is in asks but not in others at least once.
LEMMA AsksResolve ==
    ASSUME NEW log \in Seq(Entry), NEW new \in Seq(Entry), NEW asks, NEW others,
           Settled(log, asks),
           \A k \in 1..Len(new) : new[k].frame.method = "agent_request_resolved",
           \A a \in asks \ others : \E k \in 1..Len(new) : new[k].frame.of = a
    PROVE  Settled(log \o new, others)
<1> DEFINE longer == log \o new
<1>1. /\ Len(log) \in Nat /\ Len(new) \in Nat
      /\ DOMAIN log = 1..Len(log) /\ DOMAIN longer = 1..Len(log) + Len(new)
      /\ \A k \in 1..Len(log) : longer[k] = log[k]
      /\ \A k \in 1..Len(new) : longer[Len(log) + k] = new[k]
    BY Grown
<1>2. Without_(new, {"agent_request_opened"}) /\ Without_(new, {"turn_complete"})
    <2>1. DOMAIN new = 1..Len(new)
        OBVIOUS
    <2>2. QED
        BY <2>1 DEF Without_
<1>3. Opened(longer) = Opened(log) /\ Ends(longer) = Ends(log)
    BY <1>2, PositionsStay DEF Opened, Ends
<1> HIDE DEF longer
<1>4. \A i \in Resolutions(log) : i \in Resolutions(longer) /\ longer[i] = log[i]
    BY <1>1 DEF Resolutions, At
<1>5. \A a \in asks \ others : \E i \in Resolutions(longer) :
        longer[i].frame.of = a /\ i \in Nat /\ i > Len(log)
    <2>1. TAKE a \in asks \ others
    <2>2. PICK k \in 1..Len(new) : new[k].frame.of = a
        OBVIOUS
    <2>3. /\ Len(log) + k \in DOMAIN longer /\ longer[Len(log) + k] = new[k]
          /\ Len(log) + k \in Nat /\ Len(log) + k > Len(log)
        BY <1>1
    <2>4. Len(log) + k \in Resolutions(longer)
        BY <2>3 DEF Resolutions, At
    <2>5. QED
        BY <2>2, <2>3, <2>4
<1>6. \A j \in Opened(log) : j \in 1..Len(log) /\ longer[j] = log[j]
    BY <1>1 DEF Opened, At
<1>7. ASSUME NEW j \in Opened(longer), longer[j].frame.of \notin others
      PROVE  \E i \in Resolutions(longer) : j < i /\ longer[i].frame.of = longer[j].frame.of
    <2>1. j \in Opened(log) /\ j \in 1..Len(log) /\ longer[j] = log[j]
        BY <1>3, <1>6
    <2>2. CASE log[j].frame.of \in asks
        <3>1. log[j].frame.of \in asks \ others
            BY <1>7, <2>1, <2>2
        <3>2. PICK i \in Resolutions(longer) :
                longer[i].frame.of = log[j].frame.of /\ i \in Nat /\ i > Len(log)
            BY <1>5, <3>1
        <3>3. QED
            BY <1>1, <2>1, <3>2
    <2>3. CASE \E i \in Resolutions(log) : j < i /\ log[i].frame.of = log[j].frame.of
        BY <1>4, <2>1, <2>3
    <2>4. QED
        BY <2>1, <2>2, <2>3 DEF Settled
<1>8. \A k \in Ends(longer) : \A j \in Opened(longer) : j < k =>
        \E i \in Resolutions(longer) :
            j < i /\ i < k /\ longer[i].frame.of = longer[j].frame.of
    BY <1>3, <1>4, <1>6 DEF Settled
<1>9. Settled(longer, others)
    BY <1>7, <1>8 DEF Settled
<1>10. QED
    BY <1>9 DEF longer

\* A turn completes and nothing is open.
LEMMA AsksEnd ==
    ASSUME NEW log \in Seq(Entry), NEW f \in Frame, NEW tag \in Nat, Settled(log, {}),
           f.method = "turn_complete"
    PROVE  Settled(log \o Tagged(<<f>>, tag), {})
<1> DEFINE longer == log \o Tagged(<<f>>, tag)
           n == Len(log) + 1
<1>1. OneLonger(longer, log, f, n)
    BY OneMore
<1> HIDE DEF longer, n
<1>2. /\ n \in Nat /\ longer[n].frame = f
      /\ Opened(longer) = Opened(log) /\ Resolutions(longer) = Resolutions(log)
      /\ Ends(longer) = Ends(log) \cup {n}
      /\ \A k \in Opened(log) : k \in Nat /\ k < n /\ longer[k] = log[k]
      /\ \A k \in Resolutions(log) : k \in Nat /\ k < n /\ longer[k] = log[k]
    BY <1>1, OneMoreAt DEF OneLonger, Opened, Resolutions, Ends
<1>3. \A j \in Opened(longer) :
        \E i \in Resolutions(longer) :
            j < i /\ i < n /\ longer[i].frame.of = longer[j].frame.of
    BY <1>2 DEF Settled
<1>4. \A k \in Ends(log) : \A j \in Opened(longer) : j < k =>
        \E i \in Resolutions(longer) :
            j < i /\ i < k /\ longer[i].frame.of = longer[j].frame.of
    BY <1>2 DEF Settled
<1>5. \A k \in Ends(longer) : \A j \in Opened(longer) : j < k =>
        \E i \in Resolutions(longer) :
            j < i /\ i < k /\ longer[i].frame.of = longer[j].frame.of
    BY <1>2, <1>3, <1>4
<1>6. QED
    BY <1>3, <1>5 DEF Settled, longer

\* The sweep names every request that is open: a sequence as long as a finite
\* set, without repetition, has all its elements.
LEMMA SweepIsComplete ==
    ASSUME TypeInv, NEW stale \in sweep_stale_agent_pending
    PROVE  \A a \in Unresolved : \E k \in DOMAIN stale : stale[k] = a
<1> DEFINE D == 1..Cardinality(Unresolved)
<1>1. IsFiniteSet(Unresolved)
    BY FS_Subset DEF TypeInv, AsksType, Unresolved
<1>2. Cardinality(Unresolved) \in Nat
    BY <1>1, FS_CardinalityType
<1>3. stale \in [D -> Unresolved] /\ \A i, j \in D : i # j => stale[i] # stale[j]
    BY DEF sweep_stale_agent_pending, SetToSeqs
<1>4. stale \in Injection(D, Unresolved)
    BY <1>3 DEF Injection, IsInjective
<1>5. Cardinality(D) = Cardinality(Unresolved)
    BY <1>2, FS_Interval
<1>6. stale \in Surjection(D, Unresolved)
    BY <1>1, <1>4, <1>5, FS_Injection
<1>7. QED
    BY <1>3, <1>6 DEF Surjection

LEMMA AskInit == Init => AskInv
<1>1. Init => Settled(replay_log, Unresolved)
    BY DEF Init, Settled, Opened, Ends, At
<1>2. QED
    BY <1>1, InitTypeInv DEF AskInv

\* Handlers that log nothing of the kind and leave the agent's requests alone.
LEMMA AskAside ==
    ASSUME AskInv, LogsOther(AskMethods), UNCHANGED agent_pending
    PROVE  Settled(replay_log', Unresolved')
<1>1. Unresolved' = Unresolved
    BY DEF Unresolved
<1>2. PICK new \in Seq(Entry) : replay_log' = replay_log \o new /\ Without_(new, AskMethods)
    BY DEF LogsOther
<1>3. QED
    BY <1>1, <1>2, AsksIgnore DEF AskInv, TypeInv, LogType

LEMMA AskPeers ==
    ASSUME AskInv, NEW p \in Peers, PeerStep(p),
           \A a \in AskIds : ~gate_subscriber_response(p, a)
    PROVE  LogsOther(AskMethods) /\ UNCHANGED agent_pending
<1>1. \/ Logs({"peer_joined"}) \/ Logs({}) \/ Logs({"session_busy"}) \/ Logs({"turn_cancelled"})
      \/ Logs({"peer_left", "queue_item_orphaned"}) \/ Logs({"turn_started"})
      \/ Logs({"queue_item_added", "turn_started", "queue_item_submitted"})
      \/ Logs({"hard_steer_submitted", "turn_cancelled"})
      \/ Logs({"idle_steer_submitted", "turn_started", "queue_item_submitted"})
      \/ Logs({"queue_item_removed"})
    <2>1. \A method, session : forward_handshake(p, method, session) => Logs({})
        BY NothingLogged DEF AskInv, TypeInv, forward_handshake
    <2>2. QED
        BY <2>1, PeerLogs, QueueLogs DEF AskInv, PeerStep
<1>2. UNCHANGED agent_pending
    BY DEF PeerStep, attach, ws_closes, handle_detach, handle_detach_request, forward_prompt,
           handle_rooms_queue_prompt_request, handle_rooms_steer_request,
           handle_rooms_idle_steer_request, session_busy, forward_handshake,
           handle_rooms_unqueue_prompt_request, cancel_active_turn
<1>3. LogsOther(AskMethods)
    BY <1>1, OthersLogged DEF AskMethods
<1>4. QED
    BY <1>2, <1>3

LEMMA AskAgent ==
    ASSUME AskInv,
           \/ \E m \in DOMAIN pending : handshake_succeeds(m) \/ handshake_fails(m)
           \/ \E s \in Switches : handle_agent_notification(s)
           \/ UNCHANGED vars
    PROVE  LogsOther(AskMethods) /\ UNCHANGED agent_pending
<1>1. \/ Logs({"segment_started", "segment_ended"}) \/ Logs({})
      \/ Logs({"segment_started", "segment_ended", "agent_notification"})
    BY AgentLogs, NothingLogged DEF AskInv, TypeInv, vars
<1>2. UNCHANGED agent_pending
    BY DEF handshake_succeeds, handshake_fails, handle_agent_notification, vars
<1>3. QED
    BY <1>1, <1>2, OthersLogged DEF AskMethods

\* Frames that resolve what is open no more.
LEMMA AsksResolveTagged ==
    ASSUME NEW log \in Seq(Entry), NEW frames \in Seq(Frame), NEW tag \in Nat,
           NEW asks, NEW others, Settled(log, asks),
           \A k \in 1..Len(frames) : frames[k].method = "agent_request_resolved",
           \A a \in asks \ others : \E k \in 1..Len(frames) : frames[k].of = a
    PROVE  Settled(log \o Tagged(frames, tag), others)
<1> DEFINE new == Tagged(frames, tag)
<1>1. /\ new \in Seq(Entry) /\ Len(new) = Len(frames)
      /\ \A k \in 1..Len(frames) : new[k].frame = frames[k]
    BY TaggedType
<1> HIDE DEF new
<1>2. /\ \A k \in 1..Len(new) : new[k].frame.method = "agent_request_resolved"
      /\ \A a \in asks \ others : \E k \in 1..Len(new) : new[k].frame.of = a
    BY <1>1
<1>3. Settled(log \o new, others)
    BY <1>1, <1>2, AsksResolve
<1>4. QED
    BY <1>3 DEF new

\* The agent asks, a client replies, the agent withdraws.
LEMMA AskMoves ==
    ASSUME AskInv, NEW a \in AskIds,
           \/ handle_agent_request(a) \/ handle_agent_cancel(a)
           \/ \E p \in Peers : gate_subscriber_response(p, a)
    PROVE  Settled(replay_log', Unresolved')
<1>1. /\ TypeInv /\ Settled(replay_log, Unresolved)
      /\ replay_log \in Seq(Entry) /\ replay_tag \in Nat
    BY DEF AskInv, TypeInv, LogType, SegmentType
<1>2. opened(a) \in Frame /\ resolved(a) \in Frame /\ frame("agent_cancel", a, 0) \in Frame
    BY <1>1, AskFrames
<1>3. /\ opened(a).method = "agent_request_opened" /\ opened(a).of = a
      /\ resolved(a).method = "agent_request_resolved" /\ resolved(a).of = a
      /\ frame("agent_cancel", a, 0).method = "agent_cancel"
    BY DEF opened, resolved, frame
<1> DEFINE f == opened(a)
           g == resolved(a)
           h == frame("agent_cancel", a, 0)
<1>4. handle_agent_request(a) => broadcast(<<f>>) /\ Unresolved' = Unresolved \cup {a}
    BY DEF handle_agent_request, With, Unresolved
<1>5. ASSUME agent_pending' = With(agent_pending, a, "Consumed")
      PROVE  Unresolved' = Unresolved \ {a}
    BY <1>5 DEF With, Unresolved
<1>6. handle_agent_cancel(a) => broadcast(<<h, g>>) /\ Unresolved' = Unresolved \ {a}
    BY <1>5 DEF handle_agent_cancel
<1>7. (\E p \in Peers : gate_subscriber_response(p, a))
        => broadcast(<<g>>) /\ Unresolved' = Unresolved \ {a}
    BY <1>5 DEF gate_subscriber_response
<1> HIDE DEF f, g, h
<1>8. <<f>> \in Seq(Frame) /\ <<g>> \in Seq(Frame) /\ <<h>> \in Seq(Frame) /\ <<h, g>> = <<h>> \o <<g>>
    BY <1>2 DEF f, g, h
<1> DEFINE G == <<g>>
           H == <<h>>
<1>9. /\ G \in Seq(Frame) /\ \A k \in 1..Len(G) : G[k].method = "agent_request_resolved"
      /\ \A b \in Unresolved \ (Unresolved \ {a}) : \E k \in 1..Len(G) : G[k].of = b
      /\ H \in Seq(Frame) /\ \A k \in 1..Len(H) : H[k].method \notin AskMethods
    BY <1>3, <1>8 DEF g, h, AskMethods
<1>10. CASE handle_agent_request(a)
    <2>1. Settled(replay_log \o Tagged(<<f>>, replay_tag), Unresolved \cup {f.of})
        BY <1>1, <1>2, <1>3, AsksOpen DEF f
    <2>2. QED
        BY <1>3, <1>4, <1>10, <2>1 DEF broadcast, f
<1> HIDE DEF G, H
<1>11. CASE \E p \in Peers : gate_subscriber_response(p, a)
    <2>1. Settled(replay_log \o Tagged(G, replay_tag), Unresolved \ {a})
        BY <1>1, <1>9, AsksResolveTagged
    <2>2. QED
        BY <1>7, <1>11, <2>1 DEF broadcast, G
<1>12. CASE handle_agent_cancel(a)
    <2>1. broadcast(H \o G)
        BY <1>6, <1>8, <1>12 DEF G, H
    <2> DEFINE first == replay_log \o Tagged(H, replay_tag)
    <2>2. first \in Seq(Entry) /\ replay_log' = first \o Tagged(G, replay_tag)
        BY <1>1, <1>9, <2>1, BroadcastPieces
    <2>3. Settled(first, Unresolved)
        BY <1>1, <1>9, AsksIgnoreTagged
    <2> HIDE DEF first
    <2>4. Settled(first \o Tagged(G, replay_tag), Unresolved \ {a})
        BY <1>1, <1>9, <2>2, <2>3, AsksResolveTagged
    <2>5. QED
        BY <1>6, <1>12, <2>2, <2>4
<1>13. QED
    BY <1>10, <1>11, <1>12

\* What is left of a submission after the frames before it.
LEMMA SubmitSettled ==
    ASSUME TypeInv, NEW queue \in Seq(QueuedPrompt), queue # <<>>, NEW before \in Seq(Frame),
           NEW others, NEW data, submit_next_queued_prompt(queue, before, others, data),
           Settled(replay_log \o Tagged(before, replay_tag), {})
    PROVE  Settled(replay_log', {})
<1> DEFINE item == Head(queue)
           first == replay_log \o Tagged(before, replay_tag)
           f == TurnStarted(item)
           second == first \o Tagged(<<f>>, replay_tag)
<1>1. /\ f \in Frame /\ Submitted(item) \in Seq(Frame)
      /\ first \in Seq(Entry) /\ second \in Seq(Entry) /\ replay_tag \in Nat
      /\ replay_log' = second \o Tagged(Submitted(item), replay_tag)
    BY SubmitPieces DEF TypeInv, SegmentType
<1>2. f.method \notin AskMethods
    BY DEF TurnStarted, frame, AskMethods
<1>3. \A k \in 1..Len(Submitted(item)) : Submitted(item)[k].method \notin AskMethods
    BY DEF Submitted, frame, AskMethods
<1>4. Settled(first, {})
    OBVIOUS
<1> HIDE DEF item, first, f
<1> DEFINE F == <<f>>
<1>5. F \in Seq(Frame) /\ \A k \in 1..Len(F) : F[k].method \notin AskMethods
    BY <1>1, <1>2
<1> HIDE DEF F
<1>6. Settled(first \o Tagged(F, replay_tag), {})
    BY <1>1, <1>4, <1>5, AsksIgnoreTagged
<1>7. Settled(second, {})
    BY <1>6 DEF F
<1> HIDE DEF second
<1>8. Settled(second \o Tagged(Submitted(item), replay_tag), {})
    BY <1>1, <1>3, <1>7, AsksIgnoreTagged
<1>9. QED
    BY <1>1, <1>8

\* The turn ends, after the sweep.
LEMMA AskSettles ==
    ASSUME AskInv, prompt_settles
    PROVE  Settled(replay_log', Unresolved')
<1>1. /\ TypeInv /\ queued_prompts \in Seq(QueuedPrompt)
      /\ replay_log \in Seq(Entry) /\ replay_tag \in Nat
      /\ Settled(replay_log, Unresolved)
    BY DEF AskInv, TypeInv, QueueType, LogType, SegmentType
<1>2. TurnCompleted \in Frame /\ ItemCompleted \in Seq(Frame)
    BY <1>1, SettleParts
<1>3. Unresolved' = {}
    BY DEF prompt_settles, Unresolved
<1> DEFINE complete == <<TurnCompleted>> \o ItemCompleted
<1>4. PICK swept \in Seq(Frame) :
        /\ \A k \in 1..Len(swept) : swept[k].method = "agent_request_resolved"
        /\ \E stale \in sweep_stale_agent_pending :
                swept = [k \in DOMAIN stale |-> resolved(stale[k])]
        /\ swept \o complete \in Seq(Frame)
        /\ \/ /\ queued_prompts # <<>>
              /\ submit_next_queued_prompt(queued_prompts, swept \o complete,
                    Without(pending, prompt_in_flight), Without(per_request, prompt_in_flight))
           \/ broadcast(swept \o complete)
    BY <1>1, SettleParts
<1>5. \A a \in Unresolved \ {} : \E k \in 1..Len(swept) : swept[k].of = a
    <2>1. PICK stale \in sweep_stale_agent_pending :
            swept = [k \in DOMAIN stale |-> resolved(stale[k])]
        BY <1>4
    <2>2. DOMAIN swept = DOMAIN stale /\ \A k \in DOMAIN stale : swept[k].of = stale[k]
        BY <2>1 DEF resolved, frame
    <2>3. DOMAIN swept = 1..Len(swept)
        OBVIOUS
    <2>4. \A a \in Unresolved : \E k \in DOMAIN stale : stale[k] = a
        BY <1>1, SweepIsComplete
    <2>5. QED
        BY <2>2, <2>3, <2>4
<1> DEFINE f == TurnCompleted
           first == replay_log \o Tagged(swept, replay_tag)
           second == first \o Tagged(<<f>>, replay_tag)
<1>6. Settled(first, {})
    BY <1>1, <1>4, <1>5, AsksResolveTagged
<1>7. <<f>> \in Seq(Frame) /\ <<f>> \o ItemCompleted \in Seq(Frame)
    BY <1>2
<1>8. Tagged(swept, replay_tag) \in Seq(Entry) /\ Tagged(<<f>>, replay_tag) \in Seq(Entry)
    BY <1>1, <1>7, TaggedType
<1>9. first \in Seq(Entry)
    BY <1>1, <1>8, Grown
<1>10. f.method = "turn_complete"
    BY DEF TurnCompleted, frame
<1>11. \A k \in 1..Len(ItemCompleted) : ItemCompleted[k].method \notin AskMethods
    BY DEF ItemCompleted, frame, AskMethods
<1>12. replay_log \o Tagged(swept \o (<<f>> \o ItemCompleted), replay_tag)
        = second \o Tagged(ItemCompleted, replay_tag)
    <2> HIDE DEF f
    <2>1. InPieces(replay_log, swept, <<f>> \o ItemCompleted, replay_tag)
        BY <1>1, <1>7, PiecesJoin
    <2>2. InPieces(first, <<f>>, ItemCompleted, replay_tag)
        BY <1>1, <1>2, <1>7, <1>9, PiecesJoin
    <2>3. QED
        BY <2>1, <2>2 DEF InPieces, first, second
<1> HIDE DEF f, first
<1>13. Settled(second, {}) /\ second \in Seq(Entry)
    BY <1>1, <1>2, <1>6, <1>8, <1>9, <1>10, AsksEnd, Grown DEF f
<1> HIDE DEF second
<1>14. Settled(second \o Tagged(ItemCompleted, replay_tag), {})
    BY <1>1, <1>2, <1>11, <1>13, AsksIgnoreTagged
<1> DEFINE told == swept \o complete
<1>15. Settled(replay_log \o Tagged(told, replay_tag), {})
    BY <1>12, <1>14 DEF f
<1>16. told \in Seq(Frame)
    BY <1>4
<1> HIDE DEF told, complete
<1>17. CASE broadcast(told)
    BY <1>3, <1>15, <1>17 DEF broadcast
<1>18. CASE /\ queued_prompts # <<>>
            /\ submit_next_queued_prompt(queued_prompts, told, Without(pending, prompt_in_flight),
                                         Without(per_request, prompt_in_flight))
    BY <1>1, <1>3, <1>15, <1>16, <1>18, SubmitSettled
<1>19. QED
    BY <1>4, <1>17, <1>18 DEF told

LEMMA AsksKept == AskInv /\ [Next]_vars => AskInv'
<1> SUFFICES ASSUME AskInv, [Next]_vars
             PROVE  AskInv'
    OBVIOUS
<1>1. TypeInv'
    BY TypesKept DEF AskInv
<1>2. ASSUME UNCHANGED vars
      PROVE  Settled(replay_log', Unresolved')
    BY <1>2, AskAgent, AskAside
<1>3. ASSUME AgentStep
      PROVE  Settled(replay_log', Unresolved')
    BY <1>3, AskAgent, AskAside, AskMoves, AskSettles DEF AgentStep
<1>4. ASSUME NEW p \in Peers, PeerStep(p)
      PROVE  Settled(replay_log', Unresolved')
    BY <1>4, AskPeers, AskAside, AskMoves
<1>5. Settled(replay_log', Unresolved')
    BY <1>2, <1>3, <1>4 DEF Next, AskInv
<1>6. QED
    BY <1>1, <1>5 DEF AskInv

LEMMA AskInvImplies == AskInv => AsksEndWithTheTurn
<1> SUFFICES ASSUME AskInv
             PROVE  AsksEndWithTheTurn
    OBVIOUS
<1>1. /\ Positions("turn_complete") = Ends(replay_log)
      /\ Positions("agent_request_opened") = Opened(replay_log)
      /\ \A x : PositionsOf("agent_request_resolved", x)
            = {i \in Resolutions(replay_log) : replay_log[i].frame.of = x}
    BY DEF Positions, PositionsOf, FrameAt, At, Ends, Opened, Resolutions
<1>2. QED
    BY <1>1 DEF AskInv, Settled, AsksEndWithTheTurn, FrameAt

\* No turn completes over an open request of the agent
\* (sweep_stale_agent_pending, called before on_prompt_settled), however many
\* there are and whoever else settles them.
THEOREM NothingStaysOpen == Spec => []AsksEndWithTheTurn
BY AskInit, AsksKept, AskInvImplies, PTL DEF Spec
-----------------------------------------------------------------------------
(***************************************************************************)
(* The life of a queue item.                                               *)
(***************************************************************************)

Additions(log) == At(log, {"queue_item_added"})
Goings(log) == At(log, {"queue_item_submitted", "queue_item_removed"})
Completions(log) == At(log, {"queue_item_completed"})

\* The ids that wait; steers have none.
Waiting(queue) == {queue[i].id : i \in DOMAIN queue} \ {0}

Distinct(queue) ==
    \A i, j \in DOMAIN queue : queue[i].id # 0 /\ queue[i].id = queue[j].id => i = j

\* The item of the prompt that holds the slot.
CurrentItem == IF prompt_in_flight = 0 THEN 0 ELSE per_request[prompt_in_flight].item

\* Every id that was handed out is announced once.
AddedOnce(log, next) ==
    /\ \A k \in Additions(log) : log[k].frame.of \in 1 .. next - 1
    /\ \A j, k \in Additions(log) : log[j].frame.of = log[k].frame.of => j = k
    /\ \A i \in 1 .. next - 1 : \E k \in Additions(log) : log[k].frame.of = i

\* Every item waits, or was submitted or removed, one of these and once.
GoneOnce(log, waiting, next) ==
    /\ waiting \subseteq 1 .. next - 1
    /\ \A k \in Goings(log) : log[k].frame.of \in (1 .. next - 1) \ waiting
    /\ \A j, k \in Goings(log) : log[j].frame.of = log[k].frame.of => j = k
    /\ \A i \in (1 .. next - 1) \ waiting : \E k \in Goings(log) : log[k].frame.of = i

\* Every item that was submitted is completed once and with its turn, but for
\* the one whose turn is active.
CompletedOnce(log, next, active, item) ==
    /\ \A k \in Submissions(log) : log[k].frame.of # 0 /\ log[k].frame.turn \in 1 .. next - 1
    /\ \A k \in Submissions(log) :
        IF log[k].frame.turn = active THEN log[k].frame.of = item
        ELSE \E j \in Completions(log) : log[j].frame.of = log[k].frame.of
    /\ item # 0 => \E k \in Submissions(log) :
                        log[k].frame.of = item /\ log[k].frame.turn = active
    /\ \A k \in Completions(log) :
        /\ log[k].frame.turn # active
        /\ \E j \in Submissions(log) :
            log[j].frame.of = log[k].frame.of /\ log[j].frame.turn = log[k].frame.turn
    /\ \A j, k \in Completions(log) : log[j].frame.of = log[k].frame.of => j = k

Lived(log, waiting, next_item, next, active, item) ==
    /\ AddedOnce(log, next_item)
    /\ GoneOnce(log, waiting, next_item)
    /\ CompletedOnce(log, next, active, item)

\* Logs with the same frames about submission and completion.
LEMMA CompletedSame ==
    ASSUME NEW log, NEW longer, NEW next, NEW active, NEW item,
           CompletedOnce(log, next, active, item),
           Submissions(longer) = Submissions(log), Completions(longer) = Completions(log),
           \A k \in Submissions(log) : longer[k] = log[k],
           \A k \in Completions(log) : longer[k] = log[k]
    PROVE  CompletedOnce(longer, next, active, item)
<1> DEFINE S == Submissions(log)
           C == Completions(log)
<1>1. /\ \A k \in S : log[k].frame.of # 0 /\ log[k].frame.turn \in 1 .. next - 1
      /\ \A k \in S : IF log[k].frame.turn = active THEN log[k].frame.of = item
                      ELSE \E j \in C : log[j].frame.of = log[k].frame.of
      /\ item # 0 => \E k \in S : log[k].frame.of = item /\ log[k].frame.turn = active
      /\ \A k \in C : /\ log[k].frame.turn # active
                      /\ \E j \in S : /\ log[j].frame.of = log[k].frame.of
                                      /\ log[j].frame.turn = log[k].frame.turn
      /\ \A j, k \in C : log[j].frame.of = log[k].frame.of => j = k
    BY DEF CompletedOnce
<1>2. Submissions(longer) = S /\ Completions(longer) = C
    OBVIOUS
<1>3. /\ \A k \in S : longer[k] = log[k]
      /\ \A k \in C : longer[k] = log[k]
    OBVIOUS
<1> HIDE DEF S, C
<1>4. \A k \in S : longer[k].frame.of # 0 /\ longer[k].frame.turn \in 1 .. next - 1
    BY <1>1, <1>3
<1>5. ASSUME NEW k \in S
      PROVE  IF longer[k].frame.turn = active THEN longer[k].frame.of = item
             ELSE \E j \in C : longer[j].frame.of = longer[k].frame.of
    <2>1. longer[k] = log[k]
        BY <1>3
    <2>2. CASE log[k].frame.turn = active
        BY <1>1, <2>1, <2>2
    <2>3. CASE log[k].frame.turn # active
        <3>1. PICK j \in C : log[j].frame.of = log[k].frame.of
            BY <1>1, <2>3
        <3>2. longer[j].frame.of = longer[k].frame.of
            BY <1>3, <2>1, <3>1
        <3>3. QED
            BY <2>1, <2>3, <3>2
    <2>4. QED
        BY <2>2, <2>3
<1>6. item # 0 => \E k \in S : longer[k].frame.of = item /\ longer[k].frame.turn = active
    BY <1>1, <1>3
<1>7. ASSUME NEW k \in C
      PROVE  /\ longer[k].frame.turn # active
             /\ \E j \in S : /\ longer[j].frame.of = longer[k].frame.of
                             /\ longer[j].frame.turn = longer[k].frame.turn
    <2>1. longer[k] = log[k]
        BY <1>3
    <2>2. PICK j \in S : log[j].frame.of = log[k].frame.of /\ log[j].frame.turn = log[k].frame.turn
        BY <1>1
    <2>3. longer[j] = log[j]
        BY <1>3
    <2>4. QED
        BY <1>1, <2>1, <2>2, <2>3
<1>8. \A j, k \in C : longer[j].frame.of = longer[k].frame.of => j = k
    BY <1>1, <1>3
<1>9. QED
    BY <1>2, <1>4, <1>5, <1>6, <1>7, <1>8 DEF CompletedOnce

\* One more item is gone.
LEMMA OneMoreGone ==
    ASSUME NEW log, NEW longer, NEW waiting, NEW next \in Nat \ {0}, NEW n, NEW id \in waiting,
           GoneOnce(log, waiting, next), longer[n].frame.of = id,
           Goings(longer) = Goings(log) \cup {n},
           \A k \in Goings(log) : longer[k] = log[k]
    PROVE  GoneOnce(longer, waiting \ {id}, next)
<1>1. id \in 1 .. next - 1 /\ waiting \ {id} \subseteq 1 .. next - 1
    BY DEF GoneOnce
<1>2. \A k \in Goings(log) : longer[k].frame.of \in (1 .. next - 1) \ waiting
    BY DEF GoneOnce
<1>3. \A k \in Goings(longer) : longer[k].frame.of \in (1 .. next - 1) \ (waiting \ {id})
    BY <1>1, <1>2
<1>4. \A j, k \in Goings(log) : longer[j].frame.of = longer[k].frame.of => j = k
    BY DEF GoneOnce
<1>5. \A j, k \in Goings(longer) : longer[j].frame.of = longer[k].frame.of => j = k
    BY <1>2, <1>4
<1>6. ASSUME NEW i \in (1 .. next - 1) \ (waiting \ {id})
      PROVE  \E k \in Goings(longer) : longer[k].frame.of = i
    <2>1. CASE i = id
        BY <2>1
    <2>2. CASE i \notin waiting
        <3>1. PICK k \in Goings(log) : log[k].frame.of = i
            BY <2>2 DEF GoneOnce
        <3>2. k \in Goings(longer) /\ longer[k] = log[k]
            OBVIOUS
        <3>3. QED
            BY <3>1, <3>2
    <2>3. QED
        BY <2>1, <2>2
<1>7. QED
    BY <1>1, <1>3, <1>5, <1>6 DEF GoneOnce

LEMMA LivedIgnores ==
    ASSUME NEW log \in Seq(Entry), NEW new \in Seq(Entry), NEW waiting, NEW next_item, NEW next,
           NEW active, NEW item, Lived(log, waiting, next_item, next, active, item),
           Without_(new, ItemMethods)
    PROVE  Lived(log \o new, waiting, next_item, next, active, item)
<1> DEFINE longer == log \o new
<1>1. /\ Without_(new, {"queue_item_added"}) /\ Without_(new, {"queue_item_completed"})
      /\ Without_(new, {"queue_item_submitted", "queue_item_removed"})
      /\ Without_(new, {"queue_item_submitted"})
    BY DEF Without_, ItemMethods
<1>2. Additions(longer) = Additions(log) /\ \A k \in Additions(log) : longer[k] = log[k]
    BY <1>1, PositionsStay DEF Additions
<1>3. Goings(longer) = Goings(log) /\ \A k \in Goings(log) : longer[k] = log[k]
    BY <1>1, PositionsStay DEF Goings
<1>4. Completions(longer) = Completions(log) /\ \A k \in Completions(log) : longer[k] = log[k]
    BY <1>1, PositionsStay DEF Completions
<1>5. Submissions(longer) = Submissions(log) /\ \A k \in Submissions(log) : longer[k] = log[k]
    BY <1>1, PositionsStay DEF Submissions
<1> HIDE DEF longer
<1>6. AddedOnce(longer, next_item)
    BY <1>2 DEF Lived, AddedOnce
<1>7. GoneOnce(longer, waiting, next_item)
    BY <1>3 DEF Lived, GoneOnce
<1>8. CompletedOnce(longer, next, active, item)
    BY <1>4, <1>5, CompletedSame DEF Lived
<1>9. QED
    BY <1>6, <1>7, <1>8 DEF Lived, longer

LEMMA LivedIgnoresTagged ==
    ASSUME NEW log \in Seq(Entry), NEW frames \in Seq(Frame), NEW tag \in Nat,
           \A k \in 1..Len(frames) : frames[k].method \notin ItemMethods,
           NEW waiting, NEW next_item, NEW next,
           NEW active, NEW item, Lived(log, waiting, next_item, next, active, item)
    PROVE  Lived(log \o Tagged(frames, tag), waiting, next_item, next, active, item)
<1> DEFINE new == Tagged(frames, tag)
<1>1. /\ new \in Seq(Entry) /\ DOMAIN new = 1..Len(frames)
      /\ \A k \in 1..Len(frames) : new[k].frame = frames[k]
    BY TaggedType
<1> HIDE DEF new
<1>2. Without_(new, ItemMethods)
    BY <1>1 DEF Without_
<1>3. Lived(log \o new, waiting, next_item, next, active, item)
    BY <1>1, <1>2, LivedIgnores
<1>4. QED
    BY <1>3 DEF new

\* Where the frames about items are in a log that is one frame longer.
OneItemFrame(longer, log, f, n) ==
    /\ n \in Nat /\ longer[n].frame = f
    /\ Additions(longer) = Additions(log) \cup (IF f.method = "queue_item_added" THEN {n} ELSE {})
    /\ Goings(longer) = Goings(log) \cup
            (IF f.method \in {"queue_item_submitted", "queue_item_removed"} THEN {n} ELSE {})
    /\ Submissions(longer) = Submissions(log) \cup
            (IF f.method = "queue_item_submitted" THEN {n} ELSE {})
    /\ Completions(longer) = Completions(log) \cup
            (IF f.method = "queue_item_completed" THEN {n} ELSE {})
    /\ \A k \in Additions(log) : k \in Nat /\ k < n /\ longer[k] = log[k]
    /\ \A k \in Goings(log) : k \in Nat /\ k < n /\ longer[k] = log[k]
    /\ \A k \in Submissions(log) : k \in Nat /\ k < n /\ longer[k] = log[k]
    /\ \A k \in Completions(log) : k \in Nat /\ k < n /\ longer[k] = log[k]

LEMMA OneItemMore ==
    ASSUME NEW log \in Seq(Entry), NEW f \in Frame, NEW tag \in Nat
    PROVE  \E n : OneItemFrame(log \o Tagged(<<f>>, tag), log, f, n)
<1> DEFINE longer == log \o Tagged(<<f>>, tag)
           n == Len(log) + 1
<1>1. OneLonger(longer, log, f, n)
    BY OneMore
<1> HIDE DEF longer, n
<1>2. n \in Nat /\ longer[n].frame = f
    BY <1>1 DEF OneLonger
<1>3. \A methods :
        /\ At(longer, methods) = At(log, methods) \cup (IF f.method \in methods THEN {n} ELSE {})
        /\ \A k \in At(log, methods) : k \in Nat /\ k < n /\ longer[k] = log[k]
    BY <1>1, OneMoreAt
<1>4. /\ f.method = "queue_item_added" <=> f.method \in {"queue_item_added"}
      /\ f.method = "queue_item_submitted" <=> f.method \in {"queue_item_submitted"}
      /\ f.method = "queue_item_completed" <=> f.method \in {"queue_item_completed"}
    OBVIOUS
<1>5. OneItemFrame(longer, log, f, n)
    BY <1>2, <1>3, <1>4 DEF OneItemFrame, Additions, Goings, Submissions, Completions
<1>6. QED
    BY <1>5 DEF longer

\* An item is added.
LEMMA LivedAdds ==
    ASSUME NEW log \in Seq(Entry), NEW f \in Frame, NEW tag \in Nat, NEW waiting,
           NEW next_item \in Nat \ {0}, NEW next, NEW active, NEW item,
           Lived(log, waiting, next_item, next, active, item),
           f.method = "queue_item_added", f.of = next_item
    PROVE  Lived(log \o Tagged(<<f>>, tag), waiting \cup {next_item}, next_item + 1, next, active, item)
<1> DEFINE longer == log \o Tagged(<<f>>, tag)
<1>1. PICK n : OneItemFrame(longer, log, f, n)
    BY OneItemMore
<1> HIDE DEF longer
<1>2. /\ n \in Nat /\ longer[n].frame = f
      /\ Additions(longer) = Additions(log) \cup {n}
      /\ \A k \in Additions(log) : k \in Nat /\ k < n /\ longer[k] = log[k]
    BY <1>1 DEF OneItemFrame
<1>3. /\ Goings(longer) = Goings(log) /\ Submissions(longer) = Submissions(log)
      /\ Completions(longer) = Completions(log)
      /\ \A k \in Goings(log) : longer[k] = log[k]
      /\ \A k \in Submissions(log) : longer[k] = log[k]
      /\ \A k \in Completions(log) : longer[k] = log[k]
    BY <1>1 DEF OneItemFrame
<1>4. 1 .. (next_item + 1) - 1 = (1 .. next_item - 1) \cup {next_item} /\ next_item \notin 1 .. next_item - 1
    OBVIOUS
<1>5. AddedOnce(longer, next_item + 1)
    <2>1. \A k \in Additions(log) : longer[k].frame.of \in 1 .. next_item - 1
        BY <1>2 DEF Lived, AddedOnce
    <2>2. n \in Additions(longer) /\ longer[n].frame.of = next_item
        BY <1>2
    <2>3. \A k \in Additions(longer) : longer[k].frame.of \in 1 .. (next_item + 1) - 1
        BY <1>2, <1>4, <2>1
    <2>4. \A j, k \in Additions(log) : longer[j].frame.of = longer[k].frame.of => j = k
        BY <1>2 DEF Lived, AddedOnce
    <2>5. \A j, k \in Additions(longer) : longer[j].frame.of = longer[k].frame.of => j = k
        BY <1>2, <1>4, <2>1, <2>2, <2>4
    <2>6. \A i \in 1 .. next_item - 1 : \E k \in Additions(longer) : longer[k].frame.of = i
        BY <1>2 DEF Lived, AddedOnce
    <2>7. QED
        BY <1>4, <2>2, <2>3, <2>5, <2>6 DEF AddedOnce
<1>6. GoneOnce(longer, waiting \cup {next_item}, next_item + 1)
    BY <1>3, <1>4 DEF Lived, GoneOnce
<1>7. CompletedOnce(longer, next, active, item)
    BY <1>3, CompletedSame DEF Lived
<1>8. QED
    BY <1>5, <1>6, <1>7 DEF Lived, longer

\* An item is removed.
LEMMA LivedRemoves ==
    ASSUME NEW log \in Seq(Entry), NEW f \in Frame, NEW tag \in Nat, NEW waiting,
           NEW next_item \in Nat \ {0}, NEW next, NEW active, NEW item,
           Lived(log, waiting, next_item, next, active, item),
           f.method = "queue_item_removed", f.of \in waiting
    PROVE  Lived(log \o Tagged(<<f>>, tag), waiting \ {f.of}, next_item, next, active, item)
<1> DEFINE longer == log \o Tagged(<<f>>, tag)
<1>1. PICK n : OneItemFrame(longer, log, f, n)
    BY OneItemMore
<1> HIDE DEF longer
<1>2. /\ n \in Nat /\ longer[n].frame = f
      /\ Goings(longer) = Goings(log) \cup {n}
      /\ \A k \in Goings(log) : k \in Nat /\ k < n /\ longer[k] = log[k]
    BY <1>1 DEF OneItemFrame
<1>3. /\ Additions(longer) = Additions(log) /\ Submissions(longer) = Submissions(log)
      /\ Completions(longer) = Completions(log)
      /\ \A k \in Additions(log) : longer[k] = log[k]
      /\ \A k \in Submissions(log) : longer[k] = log[k]
      /\ \A k \in Completions(log) : longer[k] = log[k]
    BY <1>1 DEF OneItemFrame
<1>4. AddedOnce(longer, next_item)
    BY <1>3 DEF Lived, AddedOnce
<1>5. GoneOnce(longer, waiting \ {f.of}, next_item)
    BY <1>2, OneMoreGone DEF Lived
<1>6. CompletedOnce(longer, next, active, item)
    BY <1>3, CompletedSame DEF Lived
<1>7. QED
    BY <1>4, <1>5, <1>6 DEF Lived, longer

\* A turn starts with no item, ...
LEMMA LivedStarts ==
    ASSUME NEW log, NEW waiting, NEW next_item, NEW next \in Nat \ {0},
           Lived(log, waiting, next_item, next, 0, 0)
    PROVE  Lived(log, waiting, next_item, next + 1, next, 0)
<1>1. CompletedOnce(log, next + 1, next, 0)
    BY DEF Lived, CompletedOnce
<1>2. QED
    BY <1>1 DEF Lived

\* ... and then one is submitted for it.
LEMMA LivedSubmits ==
    ASSUME NEW log \in Seq(Entry), NEW f \in Frame, NEW tag \in Nat, NEW waiting,
           NEW next_item \in Nat \ {0}, NEW next \in Nat \ {0},
           Lived(log, waiting, next_item, next + 1, next, 0),
           f.method = "queue_item_submitted", f.of \in waiting, f.turn = next
    PROVE  Lived(log \o Tagged(<<f>>, tag), waiting \ {f.of}, next_item, next + 1, next, f.of)
<1> DEFINE longer == log \o Tagged(<<f>>, tag)
<1>1. PICK n : OneItemFrame(longer, log, f, n)
    BY OneItemMore
<1> HIDE DEF longer
<1>2. /\ n \in Nat /\ longer[n].frame = f
      /\ Goings(longer) = Goings(log) \cup {n}
      /\ \A k \in Goings(log) : k \in Nat /\ k < n /\ longer[k] = log[k]
    BY <1>1 DEF OneItemFrame
<1>3. /\ Submissions(longer) = Submissions(log) \cup {n}
      /\ \A k \in Submissions(log) : k \in Nat /\ k < n /\ longer[k] = log[k]
    BY <1>1 DEF OneItemFrame
<1>4. /\ Additions(longer) = Additions(log) /\ Completions(longer) = Completions(log)
      /\ \A k \in Additions(log) : longer[k] = log[k]
      /\ \A k \in Completions(log) : longer[k] = log[k]
    BY <1>1 DEF OneItemFrame
<1>5. f.of \in 1 .. next_item - 1
    BY DEF Lived, GoneOnce
<1>6. AddedOnce(longer, next_item)
    <2>1. AddedOnce(log, next_item)
        BY DEF Lived
    <2>2. QED
        BY <1>4, <2>1 DEF AddedOnce
<1>7. GoneOnce(longer, waiting \ {f.of}, next_item)
    BY <1>2, OneMoreGone DEF Lived
<1>8. CompletedOnce(longer, next + 1, next, f.of)
    <2>1. \A k \in Submissions(log) : log[k].frame.turn # next
        BY DEF Lived, CompletedOnce
    <2>2. \A k \in Submissions(longer) :
            longer[k].frame.of # 0 /\ longer[k].frame.turn \in 1 .. (next + 1) - 1
        BY <1>2, <1>3, <1>5 DEF Lived, CompletedOnce
    <2>3. ASSUME NEW k \in Submissions(longer)
          PROVE  IF longer[k].frame.turn = next THEN longer[k].frame.of = f.of
                 ELSE \E j \in Completions(longer) : longer[j].frame.of = longer[k].frame.of
        <3>1. CASE k = n
            BY <1>2, <3>1
        <3>2. CASE k \in Submissions(log)
            <4>1. longer[k] = log[k] /\ log[k].frame.turn # next
                BY <1>3, <2>1, <3>2
            <4>2. PICK j \in Completions(log) : log[j].frame.of = log[k].frame.of
                BY <3>2, <4>1 DEF Lived, CompletedOnce
            <4>3. QED
                BY <1>4, <4>1, <4>2
        <3>3. QED
            BY <1>3, <3>1, <3>2
    <2>4. n \in Submissions(longer) /\ longer[n].frame.of = f.of /\ longer[n].frame.turn = next
        BY <1>2, <1>3
    <2>5. ASSUME NEW k \in Completions(longer)
          PROVE  /\ longer[k].frame.turn # next
                 /\ \E j \in Submissions(longer) :
                        /\ longer[j].frame.of = longer[k].frame.of
                        /\ longer[j].frame.turn = longer[k].frame.turn
        <3>1. k \in Completions(log) /\ longer[k] = log[k]
            BY <1>4
        <3>2. PICK j \in Submissions(log) : /\ log[j].frame.of = log[k].frame.of
                                           /\ log[j].frame.turn = log[k].frame.turn
            BY <3>1 DEF Lived, CompletedOnce
        <3>3. log[k].frame.turn # next
            BY <3>1 DEF Lived, CompletedOnce
        <3>4. QED
            BY <1>3, <3>1, <3>2, <3>3
    <2>6. \A j, k \in Completions(longer) : longer[j].frame.of = longer[k].frame.of => j = k
        BY <1>4 DEF Lived, CompletedOnce
    <2>7. QED
        BY <2>2, <2>3, <2>4, <2>5, <2>6 DEF CompletedOnce
<1>9. QED
    BY <1>6, <1>7, <1>8 DEF Lived, longer

\* The turn ends: without an item, ...
LEMMA LivedEnds ==
    ASSUME NEW log, NEW waiting, NEW next_item, NEW next \in Nat \ {0}, NEW active,
           Lived(log, waiting, next_item, next, active, 0)
    PROVE  Lived(log, waiting, next_item, next, 0, 0)
<1>1. CompletedOnce(log, next, 0, 0)
    BY DEF Lived, CompletedOnce
<1>2. QED
    BY <1>1 DEF Lived

\* ... or with one.
LEMMA LivedCompletes ==
    ASSUME NEW log \in Seq(Entry), NEW f \in Frame, NEW tag \in Nat, NEW waiting,
           NEW next_item, NEW next \in Nat \ {0}, NEW active \in Nat \ {0}, NEW item, item # 0,
           Lived(log, waiting, next_item, next, active, item),
           f.method = "queue_item_completed", f.of = item, f.turn = active
    PROVE  Lived(log \o Tagged(<<f>>, tag), waiting, next_item, next, 0, 0)
<1> DEFINE longer == log \o Tagged(<<f>>, tag)
<1>1. PICK n : OneItemFrame(longer, log, f, n)
    BY OneItemMore
<1> HIDE DEF longer
<1>2. /\ n \in Nat /\ longer[n].frame = f
      /\ Completions(longer) = Completions(log) \cup {n}
      /\ \A k \in Completions(log) : k \in Nat /\ k < n /\ longer[k] = log[k]
    BY <1>1 DEF OneItemFrame
<1>3. /\ Additions(longer) = Additions(log) /\ Goings(longer) = Goings(log)
      /\ Submissions(longer) = Submissions(log)
      /\ \A k \in Additions(log) : longer[k] = log[k]
      /\ \A k \in Goings(log) : longer[k] = log[k]
      /\ \A k \in Submissions(log) : longer[k] = log[k]
    BY <1>1 DEF OneItemFrame
<1>4. AddedOnce(longer, next_item)
    BY <1>3 DEF Lived, AddedOnce
<1>5. GoneOnce(longer, waiting, next_item)
    BY <1>3 DEF Lived, GoneOnce
<1>6. \A j, k \in Submissions(log) : log[j].frame.of = log[k].frame.of => j = k
    <2>1. Submissions(log) \subseteq Goings(log)
        BY DEF Submissions, Goings, At
    <2>2. QED
        BY <2>1 DEF Lived, GoneOnce
<1>7. PICK s \in Submissions(log) : log[s].frame.of = item /\ log[s].frame.turn = active
    BY DEF Lived, CompletedOnce
<1>8. \A k \in Completions(log) : log[k].frame.of # item
    BY <1>6, <1>7 DEF Lived, CompletedOnce
<1>9. CompletedOnce(longer, next, 0, 0)
    <2>1. \A k \in Submissions(longer) :
            longer[k].frame.of # 0 /\ longer[k].frame.turn \in 1 .. next - 1
        BY <1>3 DEF Lived, CompletedOnce
    <2>2. ASSUME NEW k \in Submissions(longer)
          PROVE  IF longer[k].frame.turn = 0 THEN longer[k].frame.of = 0
                 ELSE \E j \in Completions(longer) : longer[j].frame.of = longer[k].frame.of
        <3>1. k \in Submissions(log) /\ longer[k] = log[k] /\ log[k].frame.turn # 0
            BY <1>3, <2>1
        <3>2. CASE log[k].frame.turn = active
            <4>1. log[k].frame.of = item
                BY <3>1, <3>2 DEF Lived, CompletedOnce
            <4>2. n \in Completions(longer) /\ longer[n].frame.of = item
                BY <1>2
            <4>3. QED
                BY <3>1, <4>1, <4>2
        <3>3. CASE log[k].frame.turn # active
            <4>1. PICK j \in Completions(log) : log[j].frame.of = log[k].frame.of
                BY <3>1, <3>3 DEF Lived, CompletedOnce
            <4>2. QED
                BY <1>2, <3>1, <4>1
        <3>4. QED
            BY <3>2, <3>3
    <2>3. ASSUME NEW k \in Completions(longer)
          PROVE  /\ longer[k].frame.turn # 0
                 /\ \E j \in Submissions(longer) :
                        /\ longer[j].frame.of = longer[k].frame.of
                        /\ longer[j].frame.turn = longer[k].frame.turn
        <3>1. \E j \in Submissions(longer) : /\ longer[j].frame.of = longer[k].frame.of
                                             /\ longer[j].frame.turn = longer[k].frame.turn
            <4>1. CASE k = n
                BY <1>2, <1>3, <1>7, <4>1
            <4>2. CASE k \in Completions(log)
                <5>1. PICK j \in Submissions(log) : /\ log[j].frame.of = log[k].frame.of
                                                   /\ log[j].frame.turn = log[k].frame.turn
                    BY <4>2 DEF Lived, CompletedOnce
                <5>2. longer[j] = log[j] /\ longer[k] = log[k]
                    BY <1>2, <1>3, <4>2
                <5>3. QED
                    BY <1>3, <5>1, <5>2
            <4>3. QED
                BY <1>2, <4>1, <4>2
        <3>2. QED
            BY <2>1, <3>1
    <2>4. \A j, k \in Completions(longer) : longer[j].frame.of = longer[k].frame.of => j = k
        BY <1>2, <1>8 DEF Lived, CompletedOnce
    <2>5. QED
        BY <2>1, <2>2, <2>3, <2>4 DEF CompletedOnce
<1>10. QED
    BY <1>4, <1>5, <1>9 DEF Lived, longer

-----------------------------------------------------------------------------

ItemInv ==
    /\ FifoInv /\ TurnInv
    /\ Lived(replay_log, Waiting(queued_prompts), next_queue_item_id, next_rooms_turn_id,
             active_rooms_turn_id, CurrentItem)

LEMMA OrderedDistinct ==
    ASSUME NEW log, NEW queue \in Seq(QueuedPrompt), NEW next, InOrder(log, queue, next)
    PROVE  Distinct(queue)
<1>1. DOMAIN queue = 1..Len(queue) /\ Len(queue) \in Nat
    OBVIOUS
<1>2. \A i \in DOMAIN queue : queue[i].id \in Nat
    <2>1. \A i \in DOMAIN queue : queue[i] \in QueuedPrompt
        OBVIOUS
    <2>2. QED
        BY <2>1 DEF QueuedPrompt
<1>3. ASSUME NEW i \in DOMAIN queue, NEW j \in DOMAIN queue, queue[i].id # 0, queue[i].id = queue[j].id
      PROVE  i = j
    <2>1. ~(i < j) /\ ~(j < i)
        BY <1>2, <1>3 DEF InOrder
    <2>2. QED
        BY <1>1, <2>1
<1>4. QED
    BY <1>3 DEF Distinct

LEMMA WaitingSame ==
    ASSUME NEW queue, NEW other, SameItems(queue, other)
    PROVE  Waiting(other) = Waiting(queue)
BY DEF SameItems, Waiting

LEMMA WaitingTail ==
    ASSUME NEW queue \in Seq(QueuedPrompt), queue # <<>>, Distinct(queue)
    PROVE  /\ Waiting(Tail(queue)) = Waiting(queue) \ {Head(queue).id}
           /\ Head(queue).id # 0 => Head(queue).id \in Waiting(queue)
<1> DEFINE rest == Tail(queue)
<1>1. /\ Len(queue) \in Nat \ {0} /\ DOMAIN queue = 1 .. Len(queue) /\ Head(queue) = queue[1]
      /\ DOMAIN rest = 1 .. Len(queue) - 1
      /\ \A i \in DOMAIN rest : rest[i] = queue[i + 1]
    OBVIOUS
<1> HIDE DEF rest
<1>2. \A i \in DOMAIN rest : i + 1 \in DOMAIN queue /\ i + 1 # 1
    BY <1>1
<1>3. \A i \in DOMAIN queue : i # 1 => i - 1 \in DOMAIN rest /\ (i - 1) + 1 = i
    BY <1>1
<1>4. 1 \in DOMAIN queue
    BY <1>1
<1>5. Waiting(rest) \subseteq Waiting(queue) \ {Head(queue).id}
    BY <1>1, <1>2, <1>4 DEF Waiting, Distinct
<1>6. Waiting(queue) \ {Head(queue).id} \subseteq Waiting(rest)
    <2>1. \A i \in DOMAIN queue : i # 1 => \E j \in DOMAIN rest : rest[j] = queue[i]
        BY <1>1, <1>3
    <2>2. QED
        BY <1>1, <2>1 DEF Waiting
<1>7. QED
    BY <1>1, <1>4, <1>5, <1>6 DEF Waiting, rest

LEMMA WaitingSteer ==
    ASSUME NEW queue \in Seq(QueuedPrompt), NEW steer \in QueuedPrompt, steer.id = 0
    PROVE  Waiting(Cons(steer, queue)) = Waiting(queue)
<1> DEFINE longer == Cons(steer, queue)
<1>1. /\ Len(queue) \in Nat /\ DOMAIN longer = 1 .. Len(queue) + 1 /\ DOMAIN queue = 1 .. Len(queue)
      /\ longer[1] = steer
      /\ \A i \in 1 .. Len(queue) : longer[i + 1] = queue[i]
    BY DEF Cons
<1> HIDE DEF longer
<1>2. \A i \in DOMAIN longer : i = 1 \/ \E j \in DOMAIN queue : longer[i] = queue[j]
    <2>1. \A i \in DOMAIN longer : i # 1 => i - 1 \in 1 .. Len(queue) /\ (i - 1) + 1 = i
        BY <1>1
    <2>2. QED
        BY <1>1, <2>1
<1>3. \A j \in DOMAIN queue : \E i \in DOMAIN longer : longer[i] = queue[j]
    <2>1. \A j \in DOMAIN queue : j + 1 \in DOMAIN longer
        BY <1>1
    <2>2. QED
        BY <1>1, <2>1
<1>4. Waiting(longer) = Waiting(queue)
    BY <1>1, <1>2, <1>3 DEF Waiting
<1>5. QED
    BY <1>4 DEF longer

LEMMA WaitingAppend ==
    ASSUME NEW queue \in Seq(QueuedPrompt), NEW item \in QueuedPrompt, item.id # 0
    PROVE  Waiting(Append(queue, item)) = Waiting(queue) \cup {item.id}
<1> DEFINE longer == Append(queue, item)
           n == Len(queue) + 1
<1>1. /\ Len(queue) \in Nat /\ DOMAIN longer = 1 .. n /\ DOMAIN queue = 1 .. Len(queue)
      /\ \A i \in 1 .. Len(queue) : longer[i] = queue[i]
      /\ longer[n] = item
    BY AppendProperties
<1>2. DOMAIN longer = DOMAIN queue \cup {n}
    BY <1>1
<1> HIDE DEF longer, n
<1>3. /\ \A j \in DOMAIN queue : j \in DOMAIN longer /\ longer[j] = queue[j]
      /\ n \in DOMAIN longer
    BY <1>1, <1>2
<1>4. Waiting(longer) = Waiting(queue) \cup {item.id}
    <2>1. Waiting(longer) \subseteq Waiting(queue) \cup {item.id}
        BY <1>1, <1>2, <1>3 DEF Waiting
    <2>2. Waiting(queue) \cup {item.id} \subseteq Waiting(longer)
        BY <1>1, <1>3 DEF Waiting
    <2>3. QED
        BY <2>1, <2>2
<1>5. QED
    BY <1>4 DEF longer

LEMMA WaitingRemoved ==
    ASSUME NEW queue \in Seq(QueuedPrompt), NEW gone \in DOMAIN queue, queue[gone].id # 0,
           Distinct(queue)
    PROVE  /\ Waiting(RemoveAt(queue, gone)) = Waiting(queue) \ {queue[gone].id}
           /\ queue[gone].id \in Waiting(queue)
<1> DEFINE rest == RemoveAt(queue, gone)
           P(i) == IF i < gone THEN i ELSE i + 1
<1>1. gone \in 1..Len(queue) /\ Len(queue) \in Nat /\ DOMAIN queue = 1..Len(queue)
    OBVIOUS
<1>2. /\ DOMAIN rest = 1 .. Len(queue) - 1
      /\ \A i \in 1 .. Len(queue) - 1 : rest[i] = queue[P(i)]
    BY <1>1, Removed
<1> HIDE DEF rest
<1>3. \A i \in DOMAIN rest : P(i) \in DOMAIN queue /\ P(i) # gone
    BY <1>1, <1>2
<1>4. ASSUME NEW j \in DOMAIN queue, j # gone
      PROVE  \E i \in DOMAIN rest : rest[i] = queue[j]
    <2>1. CASE j < gone
        <3>1. j \in DOMAIN rest /\ P(j) = j
            BY <1>1, <1>2, <2>1
        <3>2. QED
            BY <1>2, <3>1
    <2>2. CASE ~(j < gone)
        <3>1. j - 1 \in DOMAIN rest /\ P(j - 1) = j
            BY <1>1, <1>2, <1>4, <2>2
        <3>2. QED
            BY <1>2, <3>1
    <2>3. QED
        BY <2>1, <2>2
<1> HIDE DEF P
<1>5. \A i \in DOMAIN rest : \E j \in DOMAIN queue : j # gone /\ rest[i] = queue[j]
    BY <1>2, <1>3
<1>6. Waiting(rest) \subseteq Waiting(queue) \ {queue[gone].id}
    BY <1>5 DEF Waiting, Distinct
<1>7. Waiting(queue) \ {queue[gone].id} \subseteq Waiting(rest)
    BY <1>4 DEF Waiting
<1>8. QED
    BY <1>6, <1>7 DEF Waiting, rest

\* A turn starts with the first item of the queue, or with a steer.
LEMMA SubmitLived ==
    ASSUME TypeInv, NEW queue \in Seq(QueuedPrompt), queue # <<>>, NEW before \in Seq(Frame),
           NEW others, NEW data, submit_next_queued_prompt(queue, before, others, data),
           Distinct(queue), NEW next_item \in Nat \ {0},
           Lived(replay_log \o Tagged(before, replay_tag), Waiting(queue), next_item,
                 next_rooms_turn_id, 0, 0)
    PROVE  Lived(replay_log', Waiting(queued_prompts'), next_item, next_rooms_turn_id',
                 active_rooms_turn_id', CurrentItem')
<1> DEFINE item == Head(queue)
           waiting == Waiting(queue)
           next == next_rooms_turn_id
           first == replay_log \o Tagged(before, replay_tag)
           f == TurnStarted(item)
           second == first \o Tagged(<<f>>, replay_tag)
<1>1. /\ item \in QueuedPrompt /\ f \in Frame /\ Submitted(item) \in Seq(Frame)
      /\ first \in Seq(Entry) /\ second \in Seq(Entry)
      /\ replay_log' = second \o Tagged(Submitted(item), replay_tag)
    BY SubmitPieces
<1>2. /\ next \in Nat \ {0} /\ replay_tag \in Nat /\ next_mux_id \in Nat \ {0}
      /\ next_rooms_turn_id' = next + 1
      /\ active_rooms_turn_id' = next
      /\ queued_prompts' = Tail(queue)
    BY DEF TypeInv, TurnType, SegmentType, SlotType, submit_next_queued_prompt, start_turn
<1>3. CurrentItem' = item.id
    <2>1. /\ prompt_in_flight' = next_mux_id
          /\ per_request' = With(data, next_mux_id, [turn |-> next, item |-> item.id])
        BY DEF submit_next_queued_prompt, start_turn, allocate_mux_id
    <2>2. next_mux_id # 0
        BY <1>2
    <2> HIDE DEF item, next
    <2>3. per_request'[next_mux_id] = [turn |-> next, item |-> item.id]
        BY <2>1 DEF With
    <2>4. QED
        BY <2>1, <2>2, <2>3 DEF CurrentItem
<1>4. Waiting(Tail(queue)) = waiting \ {item.id} /\ (item.id # 0 => item.id \in waiting)
    BY WaitingTail
<1>5. f.method \notin ItemMethods
    BY DEF TurnStarted, frame, ItemMethods
<1>6. Lived(first, waiting, next_item, next + 1, next, 0)
    BY <1>2, LivedStarts
<1>7. \/ item.id = 0 /\ Submitted(item) = <<>>
      \/ /\ item.id # 0
         /\ \E last \in Frame : /\ Submitted(item) = <<last>> /\ last.of = item.id
                                /\ last.method = "queue_item_submitted" /\ last.turn = next
    <2>1. CASE item.id = 0
        BY <2>1 DEF Submitted
    <2>2. CASE item.id # 0
        <3> DEFINE last == frame("queue_item_submitted", item.id, next)
        <3>1. /\ last \in Frame /\ last.of = item.id
              /\ last.method = "queue_item_submitted" /\ last.turn = next
            BY <1>1, <1>2 DEF frame, Frame, QueueFrames, QueuedPrompt
        <3>2. Submitted(item) = <<last>>
            BY <2>2 DEF Submitted
        <3> HIDE DEF last, item, next
        <3>3. QED
            BY <2>2, <3>1, <3>2
    <2>3. QED
        BY <2>1, <2>2
<1>8. 0 \notin waiting
    BY DEF Waiting
<1> DEFINE told == Submitted(item)
<1> HIDE DEF item, first, f, waiting, next
<1>9. Lived(second, waiting, next_item, next + 1, next, 0)
    <2>1. <<f>> \in Seq(Frame) /\ \A k \in 1..Len(<<f>>) : <<f>>[k].method \notin ItemMethods
        BY <1>1, <1>5
    <2> DEFINE one == <<f>>
    <2> HIDE DEF one
    <2>2. Lived(first \o Tagged(one, replay_tag), waiting, next_item, next + 1, next, 0)
        BY <1>1, <1>2, <1>6, <2>1, LivedIgnoresTagged DEF one
    <2>3. QED
        BY <2>2 DEF one
<1> HIDE DEF second, told
<1>10. Lived(second \o Tagged(told, replay_tag), waiting \ {item.id}, next_item, next + 1, next, item.id)
    <2>1. CASE item.id = 0 /\ told = <<>>
        <3>1. waiting \ {item.id} = waiting
            BY <1>8, <2>1
        <3>2. told \in Seq(Frame) /\ \A k \in 1..Len(told) : told[k].method \notin ItemMethods
            BY <2>1
        <3>3. Lived(second \o Tagged(told, replay_tag), waiting, next_item, next + 1, next, 0)
            BY <1>1, <1>2, <1>9, <3>2, LivedIgnoresTagged
        <3>4. QED
            BY <2>1, <3>1, <3>3
    <2>2. ASSUME item.id # 0, NEW last \in Frame, told = <<last>>, last.of = item.id,
                 last.method = "queue_item_submitted", last.turn = next
          PROVE  Lived(second \o Tagged(told, replay_tag), waiting \ {item.id}, next_item,
                       next + 1, next, item.id)
        <3>1. last.of \in waiting
            BY <1>4, <2>2
        <3>2. Lived(second \o Tagged(<<last>>, replay_tag), waiting \ {last.of}, next_item,
                    next + 1, next, last.of)
            BY <1>1, <1>2, <1>9, <2>2, <3>1, LivedSubmits
        <3>3. QED
            BY <2>2, <3>2
    <2>3. QED
        BY <1>7, <2>1, <2>2 DEF told
<1>11. QED
    BY <1>1, <1>2, <1>3, <1>4, <1>10 DEF told

\* The frames that end a turn.
LEMMA SettleLived ==
    ASSUME ItemInv, prompt_in_flight # 0, active_rooms_turn_id \in Nat \ {0},
           NEW swept \in Seq(Frame),
           \A k \in 1..Len(swept) : swept[k].method = "agent_request_resolved",
           TurnCompleted \in Frame, ItemCompleted \in Seq(Frame)
    PROVE  Lived(replay_log \o Tagged(swept \o (<<TurnCompleted>> \o ItemCompleted), replay_tag),
                 Waiting(queued_prompts), next_queue_item_id, next_rooms_turn_id, 0, 0)
<1> DEFINE waiting == Waiting(queued_prompts)
           next == next_rooms_turn_id
           next_item == next_queue_item_id
           active == active_rooms_turn_id
           item == CurrentItem
           f == TurnCompleted
           first == replay_log \o Tagged(swept, replay_tag)
           second == first \o Tagged(<<f>>, replay_tag)
<1>1. /\ replay_log \in Seq(Entry) /\ replay_tag \in Nat /\ next_item \in Nat \ {0}
      /\ next \in Nat \ {0} /\ <<f>> \in Seq(Frame) /\ f \in Frame
    BY DEF ItemInv, TurnInv, TypeInv, TurnType, SegmentType, LogType, QueueType
<1>2. f.method \notin ItemMethods
    BY DEF TurnCompleted, frame, ItemMethods
<1>3. \A k \in 1..Len(swept) : swept[k].method \notin ItemMethods
    BY DEF ItemMethods
<1>4. Lived(replay_log, waiting, next_item, next, active, item)
    BY DEF ItemInv
<1>5. Lived(first, waiting, next_item, next, active, item)
    BY <1>1, <1>3, <1>4, LivedIgnoresTagged
<1>6. Tagged(swept, replay_tag) \in Seq(Entry) /\ Tagged(<<f>>, replay_tag) \in Seq(Entry)
    BY <1>1, TaggedType
<1>7. first \in Seq(Entry)
    BY <1>1, <1>6, Grown
<1>8. \/ item = 0 /\ ItemCompleted = <<>>
      \/ /\ item # 0
         /\ \E last \in Frame : /\ ItemCompleted = <<last>> /\ last.of = item
                                /\ last.method = "queue_item_completed" /\ last.turn = active
    <2>1. item = per_request[prompt_in_flight].item
        BY DEF CurrentItem
    <2>2. CASE item = 0
        BY <2>1, <2>2 DEF ItemCompleted
    <2>3. CASE item # 0
        <3> DEFINE last == frame("queue_item_completed", item, active)
        <3>1. last.of = item /\ last.method = "queue_item_completed" /\ last.turn = active
            BY DEF frame
        <3>2. ItemCompleted = <<last>>
            BY <2>1, <2>3 DEF ItemCompleted
        <3> HIDE DEF last, item, active
        <3>3. last \in Frame
            <4>1. <<last>> \in Seq(Frame) /\ <<last>>[1] = last /\ Len(<<last>>) = 1
                BY <3>2
            <4>2. QED
                BY <4>1
        <3>4. QED
            BY <2>3, <3>1, <3>2, <3>3
    <2>4. QED
        BY <2>2, <2>3
<1> HIDE DEF f, first, item, waiting
<1>9. second \in Seq(Entry)
    BY <1>6, <1>7, Grown
<1>10. Lived(second, waiting, next_item, next, active, item)
    <2> DEFINE one == <<f>>
    <2>1. one \in Seq(Frame) /\ \A k \in 1..Len(one) : one[k].method \notin ItemMethods
        BY <1>1, <1>2
    <2> HIDE DEF one
    <2>2. Lived(first \o Tagged(one, replay_tag), waiting, next_item, next, active, item)
        BY <1>1, <1>5, <1>7, <2>1, LivedIgnoresTagged
    <2>3. QED
        BY <2>2 DEF one
<1> DEFINE told == ItemCompleted
<1> HIDE DEF second, next, next_item, active, told
<1>11. Lived(second \o Tagged(told, replay_tag), waiting, next_item, next, 0, 0)
    <2>1. CASE item = 0 /\ told = <<>>
        <3>1. told \in Seq(Frame) /\ \A k \in 1..Len(told) : told[k].method \notin ItemMethods
            BY <2>1
        <3>2. Lived(second \o Tagged(told, replay_tag), waiting, next_item, next, active, 0)
            BY <1>1, <1>9, <1>10, <2>1, <3>1, LivedIgnoresTagged
        <3>3. QED
            BY <1>1, <3>2, LivedEnds
    <2>2. ASSUME item # 0, NEW last \in Frame, told = <<last>>, last.of = item,
                 last.method = "queue_item_completed", last.turn = active
          PROVE  Lived(second \o Tagged(told, replay_tag), waiting, next_item, next, 0, 0)
        <3>1. active \in Nat \ {0}
            BY DEF active
        <3>2. Lived(second \o Tagged(<<last>>, replay_tag), waiting, next_item, next, 0, 0)
            BY <1>1, <1>9, <1>10, <2>2, <3>1, LivedCompletes
        <3>3. QED
            BY <2>2, <3>2
    <2>3. QED
        BY <1>8, <2>1, <2>2 DEF told, active
<1>12. replay_log \o Tagged(swept \o (<<f>> \o ItemCompleted), replay_tag)
        = second \o Tagged(ItemCompleted, replay_tag)
    <2>1. <<f>> \o ItemCompleted \in Seq(Frame)
        BY <1>1
    <2>2. InPieces(replay_log, swept, <<f>> \o ItemCompleted, replay_tag)
        BY <1>1, <2>1, PiecesJoin
    <2>3. InPieces(first, <<f>>, ItemCompleted, replay_tag)
        BY <1>1, <1>7, PiecesJoin
    <2>4. QED
        BY <2>2, <2>3 DEF InPieces, first, second
<1>13. QED
    BY <1>11, <1>12 DEF f, told, waiting, next, next_item

-----------------------------------------------------------------------------

LEMMA LifeInit == Init => ItemInv
<1>1. Init => Lived(replay_log, Waiting(queued_prompts), next_queue_item_id, next_rooms_turn_id,
                    active_rooms_turn_id, CurrentItem)
    BY DEF Init, Lived, AddedOnce, GoneOnce, CompletedOnce, Waiting, CurrentItem, Additions, Goings,
           Submissions, Completions, At
<1>2. QED
    BY <1>1, OrderInit, TurnInit DEF ItemInv

LEMMA LifeAside ==
    ASSUME ItemInv, Aside
    PROVE  Lived(replay_log', Waiting(queued_prompts'), next_queue_item_id', next_rooms_turn_id',
                 active_rooms_turn_id', CurrentItem')
<1>1. PICK new \in Seq(Entry) :
        replay_log' = replay_log \o new /\ Without_(new, TurnMethods \cup ItemMethods)
    BY DEF Aside, LogsOther
<1>2. Without_(new, ItemMethods)
    BY <1>1 DEF Without_
<1>3. Waiting(queued_prompts') = Waiting(queued_prompts)
    BY WaitingSame DEF Aside
<1>4. CurrentItem' = CurrentItem
    BY DEF Aside, CurrentItem
<1>5. Lived(replay_log \o new, Waiting(queued_prompts), next_queue_item_id, next_rooms_turn_id,
            active_rooms_turn_id, CurrentItem)
    BY <1>2, LivedIgnores DEF ItemInv, FifoInv, TypeInv, LogType
<1>6. QED
    BY <1>1, <1>3, <1>4, <1>5 DEF Aside, turnVars

LEMMA LifeSettles ==
    ASSUME ItemInv, prompt_settles
    PROVE  Lived(replay_log', Waiting(queued_prompts'), next_queue_item_id', next_rooms_turn_id',
                 active_rooms_turn_id', CurrentItem')
<1>1. /\ TypeInv /\ queued_prompts \in Seq(QueuedPrompt) /\ next_queue_item_id \in Nat \ {0}
      /\ Distinct(queued_prompts) /\ next_queue_item_id' = next_queue_item_id
    BY OrderedDistinct DEF ItemInv, FifoInv, TypeInv, QueueType, prompt_settles
<1>2. /\ prompt_in_flight # 0 /\ active_rooms_turn_id \in Nat \ {0}
      /\ TurnCompleted \in Frame /\ ItemCompleted \in Seq(Frame)
    BY <1>1, SettleParts
<1> DEFINE complete == <<TurnCompleted>> \o ItemCompleted
<1>3. PICK swept \in Seq(Frame) :
        /\ \A k \in 1..Len(swept) : swept[k].method = "agent_request_resolved"
        /\ swept \o complete \in Seq(Frame)
        /\ \/ /\ queued_prompts # <<>>
              /\ submit_next_queued_prompt(queued_prompts, swept \o complete,
                    Without(pending, prompt_in_flight), Without(per_request, prompt_in_flight))
           \/ /\ broadcast(swept \o complete)
              /\ prompt_in_flight' = 0 /\ active_rooms_turn_id' = 0
              /\ UNCHANGED <<next_rooms_turn_id, queued_prompts>>
    BY <1>1, SettleParts
<1>4. Lived(replay_log \o Tagged(swept \o complete, replay_tag), Waiting(queued_prompts),
            next_queue_item_id, next_rooms_turn_id, 0, 0)
    BY <1>2, <1>3, SettleLived
<1> DEFINE told == swept \o complete
<1> HIDE DEF complete, told
<1>5. CASE /\ broadcast(told) /\ prompt_in_flight' = 0 /\ active_rooms_turn_id' = 0
           /\ UNCHANGED <<next_rooms_turn_id, queued_prompts>>
    <2>1. CurrentItem' = 0
        BY <1>5 DEF CurrentItem
    <2>2. QED
        BY <1>1, <1>4, <1>5, <2>1 DEF broadcast, told
<1>6. CASE /\ queued_prompts # <<>>
           /\ submit_next_queued_prompt(queued_prompts, told, Without(pending, prompt_in_flight),
                                        Without(per_request, prompt_in_flight))
    <2>1. told \in Seq(Frame)
        BY <1>3 DEF told
    <2>2. Lived(replay_log \o Tagged(told, replay_tag), Waiting(queued_prompts),
                next_queue_item_id, next_rooms_turn_id, 0, 0)
        BY <1>4 DEF told
    <2>3. QED
        BY <1>1, <1>6, <2>1, <2>2, SubmitLived
<1>7. QED
    BY <1>3, <1>5, <1>6 DEF told

LEMMA LifeWorks ==
    ASSUME ItemInv, NEW p \in Peers, WorksOnQueue(p)
    PROVE  Lived(replay_log', Waiting(queued_prompts'), next_queue_item_id', next_rooms_turn_id',
                 active_rooms_turn_id', CurrentItem')
<1> DEFINE LivedNext == Lived(replay_log', Waiting(queued_prompts'), next_queue_item_id',
                              next_rooms_turn_id', active_rooms_turn_id', CurrentItem')
           waiting == Waiting(queued_prompts)
<1>1. /\ TypeInv /\ queued_prompts \in Seq(QueuedPrompt) /\ next_queue_item_id \in Nat \ {0}
      /\ replay_log \in Seq(Entry) /\ replay_tag \in Nat /\ next_mux_id \in Nat \ {0}
      /\ next_rooms_turn_id \in Nat \ {0} /\ active_rooms_turn_id \in Nat
      /\ InOrder(replay_log, queued_prompts, next_queue_item_id)
      /\ \A s \in ClientSessions : ControlSession(s) \in MaybeSession
    BY SessionTypes DEF ItemInv, FifoInv, TypeInv, QueueType, LogType, TurnType, SegmentType, SlotType
<1>2. Distinct(queued_prompts)
    BY <1>1, OrderedDistinct
<1>3. /\ Lived(replay_log, waiting, next_queue_item_id, next_rooms_turn_id, active_rooms_turn_id, CurrentItem)
      /\ prompt_in_flight = 0 =>
            Lived(replay_log, waiting, next_queue_item_id, next_rooms_turn_id, 0, 0)
    BY <1>1 DEF ItemInv, CurrentItem, TypeInv, SlotIsTurn
<1>4. ASSUME NEW s \in ClientSessions, forward_prompt(p, s)
      PROVE  LivedNext
    <2> DEFINE f == frame("turn_started", 0, next_rooms_turn_id)
               one == <<f>>
               session == IF s # None THEN s ELSE canonical_session_id
    <2>1. f \in Frame /\ f.method \notin ItemMethods
        BY <1>1 DEF frame, Frame, ItemMethods
    <2>2. /\ broadcast(one) /\ prompt_in_flight = 0 /\ UNCHANGED queueVars
          /\ next_rooms_turn_id' = next_rooms_turn_id + 1
          /\ active_rooms_turn_id' = next_rooms_turn_id
          /\ prompt_in_flight' = next_mux_id
          /\ per_request' = With(per_request, next_mux_id, [turn |-> next_rooms_turn_id, item |-> 0])
        BY <1>4 DEF forward_prompt, start_turn, allocate_mux_id
    <2>3. CurrentItem' = 0
        BY <1>1, <2>2 DEF CurrentItem, With
    <2> HIDE DEF f
    <2>4. one \in Seq(Frame) /\ \A k \in 1..Len(one) : one[k].method \notin ItemMethods
        BY <2>1
    <2> HIDE DEF one, waiting
    <2>5. Lived(replay_log, waiting, next_queue_item_id, next_rooms_turn_id + 1, next_rooms_turn_id, 0)
        BY <1>1, <1>3, <2>2, LivedStarts
    <2>6. Lived(replay_log \o Tagged(one, replay_tag), waiting, next_queue_item_id,
                next_rooms_turn_id + 1, next_rooms_turn_id, 0)
        BY <1>1, <2>4, <2>5, LivedIgnoresTagged
    <2>7. QED
        BY <2>2, <2>3, <2>6 DEF broadcast, queueVars, waiting
<1>5. ASSUME NEW s \in ClientSessions, handle_rooms_queue_prompt_request(p, s)
      PROVE  LivedNext
    <2> DEFINE item == [id |-> next_queue_item_id, peer |-> p, session |-> ControlSession(s),
                        kind |-> "queue", supersedes |-> 0]
               queue == Append(queued_prompts, item)
               f == frame("queue_item_added", next_queue_item_id, 0)
               first == replay_log \o Tagged(<<f>>, replay_tag)
    <2>1. /\ next_queue_item_id' = next_queue_item_id + 1
          /\ \/ /\ prompt_in_flight = 0
                /\ submit_next_queued_prompt(queue, <<f>>, pending, per_request)
             \/ queued_prompts' = queue /\ broadcast(<<f>>) /\ UNCHANGED <<slotVars, turnVars>>
        BY <1>5 DEF handle_rooms_queue_prompt_request, Enqueued, submit_immediately
    <2>2. item \in QueuedPrompt /\ item.id = next_queue_item_id
        BY <1>1 DEF QueuedPrompt
    <2>3. f \in Frame /\ f.method = "queue_item_added" /\ f.of = next_queue_item_id
        BY <1>1 DEF frame, Frame, QueueFrames
    <2> HIDE DEF item, f
    <2>4. queue \in Seq(QueuedPrompt) /\ queue # <<>>
        BY <1>1, <2>2, AppendProperties
    <2>5. Waiting(queue) = waiting \cup {next_queue_item_id}
        BY <1>1, <2>2, WaitingAppend
    <2>6. Distinct(queue)
        <3>1. InOrder(replay_log, queue, next_queue_item_id + 1)
            BY <1>1, <2>2, OrderAppends
        <3>2. QED
            BY <2>4, <3>1, OrderedDistinct
    <2>7. <<f>> \in Seq(Frame) /\ next_queue_item_id' \in Nat \ {0}
        BY <1>1, <2>1, <2>3
    <2> HIDE DEF queue, waiting
    <2>8. CASE queued_prompts' = queue /\ broadcast(<<f>>) /\ UNCHANGED <<slotVars, turnVars>>
        <3>1. CurrentItem' = CurrentItem
            BY <2>8 DEF CurrentItem, slotVars
        <3>2. Lived(first, Waiting(queue), next_queue_item_id + 1, next_rooms_turn_id,
                    active_rooms_turn_id, CurrentItem)
            BY <1>1, <1>3, <2>3, <2>5, LivedAdds
        <3>3. QED
            BY <2>1, <2>8, <3>1, <3>2 DEF broadcast, turnVars
    <2>9. CASE /\ prompt_in_flight = 0
               /\ submit_next_queued_prompt(queue, <<f>>, pending, per_request)
        <3>1. Lived(first, Waiting(queue), next_queue_item_id', next_rooms_turn_id, 0, 0)
            BY <1>1, <1>3, <2>1, <2>3, <2>5, <2>9, LivedAdds
        <3>2. QED
            BY <1>1, <2>4, <2>6, <2>7, <2>9, <3>1, SubmitLived
    <2>10. QED
        BY <2>1, <2>8, <2>9
<1>6. ASSUME NEW s \in ClientSessions, handle_rooms_steer_request(p, s)
      PROVE  LivedNext
    <2> DEFINE steer == [id |-> 0, peer |-> p, session |-> ControlSession(s),
                         kind |-> "hard_steer", supersedes |-> active_rooms_turn_id]
               f == frame("hard_steer_submitted", p, active_rooms_turn_id)
               told == <<f, turn_cancelled>>
    <2>1. /\ queued_prompts' = Cons(steer, queued_prompts) /\ broadcast(told)
          /\ UNCHANGED <<next_queue_item_id, slotVars, turnVars>> /\ prompt_in_flight # 0
        BY <1>6 DEF handle_rooms_steer_request, PutFirst
    <2>2. steer \in QueuedPrompt /\ steer.id = 0
        BY <1>1 DEF QueuedPrompt
    <2>3. f \in Frame /\ f.method = "hard_steer_submitted"
        BY <1>1 DEF frame, Frame
    <2>4. turn_cancelled \in Frame /\ turn_cancelled.method = "turn_cancelled"
        BY <1>1, <2>1, CancelledFrame DEF turn_cancelled, frame
    <2> HIDE DEF steer, f
    <2>5. told \in Seq(Frame) /\ \A k \in 1..Len(told) : told[k].method \notin ItemMethods
        BY <2>3, <2>4 DEF ItemMethods
    <2>6. Waiting(queued_prompts') = waiting /\ CurrentItem' = CurrentItem
        BY <1>1, <2>1, <2>2, WaitingSteer DEF CurrentItem, slotVars
    <2> HIDE DEF told, waiting
    <2>7. Lived(replay_log \o Tagged(told, replay_tag), waiting, next_queue_item_id, next_rooms_turn_id,
                active_rooms_turn_id, CurrentItem)
        BY <1>1, <1>3, <2>5, LivedIgnoresTagged
    <2>8. QED
        BY <2>1, <2>6, <2>7 DEF broadcast, turnVars
<1>7. ASSUME NEW s \in ClientSessions, handle_rooms_idle_steer_request(p, s)
      PROVE  LivedNext
    <2> DEFINE steer == [id |-> 0, peer |-> p, session |-> ControlSession(s),
                         kind |-> "prompt", supersedes |-> 0]
               f == frame("idle_steer_submitted", p, next_rooms_turn_id)
               told == <<f>>
               queue == PutFirst(steer)
    <2>1. /\ submit_next_queued_prompt(queue, told, pending, per_request)
          /\ next_queue_item_id' = next_queue_item_id /\ prompt_in_flight = 0
        BY <1>7 DEF handle_rooms_idle_steer_request
    <2>2. steer \in QueuedPrompt /\ steer.id = 0
        BY <1>1 DEF QueuedPrompt
    <2>3. f \in Frame /\ f.method = "idle_steer_submitted"
        BY <1>1 DEF frame, Frame
    <2> HIDE DEF steer, f
    <2>4. told \in Seq(Frame) /\ \A k \in 1..Len(told) : told[k].method \notin ItemMethods
        BY <2>3 DEF ItemMethods
    <2>5. /\ queue \in Seq(QueuedPrompt) /\ queue # <<>>
          /\ InOrder(replay_log, queue, next_queue_item_id)
        BY <2>2, OrderSteers DEF ItemInv
    <2>6. Waiting(queue) = waiting
        BY <1>1, <2>2, WaitingSteer DEF PutFirst
    <2> HIDE DEF told, queue, waiting
    <2>7. Lived(replay_log \o Tagged(told, replay_tag), waiting, next_queue_item_id,
                next_rooms_turn_id, 0, 0)
        BY <1>1, <1>3, <2>1, <2>4, LivedIgnoresTagged
    <2>8. Distinct(queue)
        BY <2>5, OrderedDistinct
    <2>9. QED
        BY <1>1, <2>1, <2>4, <2>5, <2>6, <2>7, <2>8, SubmitLived
<1>8. ASSUME handle_rooms_unqueue_prompt_request(p)
      PROVE  LivedNext
    <2>1. PICK gone \in DOMAIN queued_prompts :
            /\ queued_prompts[gone].id # 0
            /\ queued_prompts' = RemoveAt(queued_prompts, gone)
            /\ broadcast(<<frame("queue_item_removed", queued_prompts[gone].id, 0)>>)
        BY <1>8 DEF handle_rooms_unqueue_prompt_request
    <2> DEFINE f == frame("queue_item_removed", queued_prompts[gone].id, 0)
    <2>2. UNCHANGED <<slotVars, turnVars, next_queue_item_id>> /\ CurrentItem' = CurrentItem
        BY <1>8 DEF handle_rooms_unqueue_prompt_request, CurrentItem, slotVars
    <2>3. f \in Frame /\ f.method = "queue_item_removed" /\ f.of = queued_prompts[gone].id
        <3>1. queued_prompts[gone] \in QueuedPrompt
            BY <1>1
        <3>2. queued_prompts[gone].id \in Nat
            BY <3>1 DEF QueuedPrompt
        <3>3. QED
            BY <3>2 DEF frame, Frame, QueueFrames
    <2>4. broadcast(<<f>>)
        BY <2>1
    <2>5. /\ Waiting(queued_prompts') = waiting \ {queued_prompts[gone].id}
          /\ queued_prompts[gone].id \in waiting
        BY <1>1, <1>2, <2>1, WaitingRemoved
    <2> HIDE DEF f, waiting
    <2>6. Lived(replay_log \o Tagged(<<f>>, replay_tag), waiting \ {f.of}, next_queue_item_id,
                next_rooms_turn_id, active_rooms_turn_id, CurrentItem)
        BY <1>1, <1>3, <2>3, <2>5, LivedRemoves
    <2>7. QED
        BY <2>2, <2>3, <2>4, <2>5, <2>6 DEF broadcast, turnVars
<1>9. QED
    BY <1>4, <1>5, <1>6, <1>7, <1>8 DEF WorksOnQueue

LEMMA LifeKept == ItemInv /\ [Next]_vars => ItemInv'
<1> SUFFICES ASSUME ItemInv, [Next]_vars
             PROVE  ItemInv'
    OBVIOUS
<1>1. FifoInv' /\ TurnInv'
    BY OrderKept, TurnsKept DEF ItemInv
<1>2. Aside \/ prompt_settles \/ \E p \in Peers : WorksOnQueue(p)
    BY AsideOrNot DEF ItemInv, FifoInv
<1>3. Lived(replay_log', Waiting(queued_prompts'), next_queue_item_id', next_rooms_turn_id',
            active_rooms_turn_id', CurrentItem')
    BY <1>2, LifeAside, LifeSettles, LifeWorks
<1>4. QED
    BY <1>1, <1>3 DEF ItemInv, Waiting

\* Sets with at most one member.
LEMMA AtMostOne ==
    ASSUME NEW S, \A x, y \in S : x = y
    PROVE  Cardinality(S) = IF S = {} THEN 0 ELSE 1
<1>1. CASE S = {}
    BY <1>1, FS_EmptySet
<1>2. CASE S # {}
    <2>1. PICK x \in S : S = {x}
        BY <1>2
    <2>2. QED
        BY <1>2, <2>1, FS_Singleton
<1>3. QED
    BY <1>1, <1>2

LEMMA ItemInvImplies == ItemInv => ItemLifecycle
<1> SUFFICES ASSUME ItemInv, NEW i \in 1 .. next_queue_item_id - 1
             PROVE  LET waiting == {k \in DOMAIN queued_prompts : queued_prompts[k].id = i}
                        submitted == PositionsOf("queue_item_submitted", i)
                        Complete(t) == \E k \in Positions("turn_complete") : FrameAt(k).turn = t
                    IN /\ Cardinality(PositionsOf("queue_item_added", i)) = 1
                       /\ Cardinality(waiting) + Cardinality(submitted)
                            + Cardinality(PositionsOf("queue_item_removed", i)) = 1
                       /\ \A k \in PositionsOf("queue_item_completed", i) :
                            \E j \in submitted : FrameAt(j).turn = FrameAt(k).turn
                       /\ \A j \in submitted :
                            Cardinality(PositionsOf("queue_item_completed", i))
                                = IF Complete(FrameAt(j).turn) THEN 1 ELSE 0
    BY DEF ItemLifecycle
<1> DEFINE log == replay_log
           next == next_rooms_turn_id
           active == active_rooms_turn_id
           added == PositionsOf("queue_item_added", i)
           waiting == {k \in DOMAIN queued_prompts : queued_prompts[k].id = i}
           submitted == PositionsOf("queue_item_submitted", i)
           removed == PositionsOf("queue_item_removed", i)
           completed == PositionsOf("queue_item_completed", i)
           Complete(t) == \E k \in Positions("turn_complete") : FrameAt(k).turn = t
<1>1. i # 0 /\ next_queue_item_id \in Nat \ {0}
    BY DEF ItemInv, FifoInv, TypeInv, QueueType
<1>2. Distinct(queued_prompts)
    BY OrderedDistinct DEF ItemInv, FifoInv, TypeInv, QueueType
<1>3. /\ AddedOnce(log, next_queue_item_id)
      /\ GoneOnce(log, Waiting(queued_prompts), next_queue_item_id)
      /\ CompletedOnce(log, next, active, CurrentItem)
    BY DEF ItemInv, Lived
<1>4. /\ added = {k \in Additions(log) : log[k].frame.of = i}
      /\ submitted = {k \in Submissions(log) : log[k].frame.of = i}
      /\ completed = {k \in Completions(log) : log[k].frame.of = i}
      /\ submitted \cup removed = {k \in Goings(log) : log[k].frame.of = i}
      /\ submitted \cap removed = {}
      /\ \A k : FrameAt(k) = log[k].frame
    BY DEF PositionsOf, Positions, FrameAt, Additions, Submissions, Completions, Goings, At
<1>5. \A t \in 1 .. next - 1 : Complete(t) <=> t # active
    BY DEF ItemInv, TurnInv, Alternate, Positions, FrameAt, At
<1> HIDE DEF log, added, submitted, removed, completed, Complete
<1>6. Cardinality(added) = 1
    <2>1. added # {} /\ \A x, y \in added : x = y
        BY <1>3, <1>4 DEF AddedOnce
    <2>2. QED
        BY <2>1, AtMostOne
<1>7. Cardinality(waiting) + Cardinality(submitted) + Cardinality(removed) = 1
    <2>1. \A x, y \in waiting : x = y
        BY <1>1, <1>2 DEF Distinct
    <2>2. \A x, y \in submitted \cup removed : x = y
        BY <1>3, <1>4 DEF GoneOnce
    <2>3. /\ Cardinality(waiting) = IF waiting = {} THEN 0 ELSE 1
          /\ Cardinality(submitted) = IF submitted = {} THEN 0 ELSE 1
          /\ Cardinality(removed) = IF removed = {} THEN 0 ELSE 1
        BY <2>1, <2>2, AtMostOne
    <2>4. waiting # {} <=> i \in Waiting(queued_prompts)
        BY <1>1 DEF Waiting
    <2> HIDE DEF waiting
    <2>5. waiting # {} <=> submitted \cup removed = {}
        BY <1>3, <1>4, <2>4 DEF GoneOnce
    <2>6. submitted = {} \/ removed = {}
        BY <1>4, <2>2
    <2>7. QED
        BY <2>3, <2>5, <2>6
<1>8. \A k \in completed : \E j \in submitted : FrameAt(j).turn = FrameAt(k).turn
    BY <1>3, <1>4 DEF CompletedOnce
<1>9. ASSUME NEW j \in submitted
      PROVE  Cardinality(completed) = IF Complete(FrameAt(j).turn) THEN 1 ELSE 0
    <2>1. \A x, y \in completed : x = y
        BY <1>3, <1>4 DEF CompletedOnce
    <2>2. \A x \in submitted : x = j
        BY <1>3, <1>4 DEF GoneOnce
    <2>3. j \in Submissions(log) /\ log[j].frame.of = i /\ FrameAt(j).turn = log[j].frame.turn
        BY <1>4
    <2>4. log[j].frame.turn \in 1 .. next - 1
        BY <1>3, <2>3 DEF CompletedOnce
    <2>5. completed # {} <=> log[j].frame.turn # active
        <3>1. ASSUME log[j].frame.turn # active
              PROVE  completed # {}
            BY <1>3, <1>4, <2>3, <3>1 DEF CompletedOnce
        <3>2. ASSUME NEW k \in completed
              PROVE  log[j].frame.turn # active
            <4>1. k \in Completions(log) /\ log[k].frame.turn # active
                BY <1>3, <1>4 DEF CompletedOnce
            <4>2. log[j].frame.turn = log[k].frame.turn
                BY <1>4, <1>8, <2>2
            <4>3. QED
                BY <4>1, <4>2
        <3>3. QED
            BY <3>1, <3>2
    <2>6. Complete(log[j].frame.turn) <=> log[j].frame.turn # active
        BY <1>5, <2>4
    <2>7. Cardinality(completed) = IF completed = {} THEN 0 ELSE 1
        BY <2>1, AtMostOne
    <2>8. QED
        BY <2>3, <2>5, <2>6, <2>7
<1>10. QED
    BY <1>6, <1>7, <1>8, <1>9 DEF added, submitted, removed, completed, Complete

\* The documented life of a queue item (extension/queue.rs): it is announced
\* once; then it waits, or was removed, or was submitted; and if it was, it is
\* completed once its turn is, and only then.
THEOREM LifeOfAnItem == Spec => []ItemLifecycle
BY LifeInit, LifeKept, ItemInvImplies, PTL DEF Spec

=============================================================================
