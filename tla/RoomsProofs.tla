----------------------------- MODULE RoomsProofs -----------------------------
(***************************************************************************)
(* Proofs about the Rooms extension, for every set of peers, sessions and  *)
(* asks, with or without segment frames, and every value of the bounds:    *)
(* the queue and the prompt slot; the segments, which divide the log, and  *)
(* the rotations, which take every waiting prompt along; and who is in the *)
(* room, where the items of a peer who leaves are announced as orphaned    *)
(* and, with an agent that asks nothing, the log and the session list tell *)
(* who is there; and the views of the log, where turns are bracketed and   *)
(* a streamed history loses nothing.                                       *)
(***************************************************************************)
EXTENDS RoomsLogProofs

-----------------------------------------------------------------------------
(***************************************************************************)
(* Who touches what: the queue, the prompt slot and the counters change in *)
(* a few handlers only.                                                    *)
(***************************************************************************)

\* A turn begins: by submitting a prompt, queued or not.
Starts == /\ prompt_in_flight' = next_mux_id
          /\ next_mux_id' = next_mux_id + 1

LEMMA SubmitStarts ==
    ASSUME NEW queue, NEW before, NEW others, NEW data,
           submit_next_queued_prompt(queue, before, others, data)
    PROVE  Starts
BY DEF submit_next_queued_prompt, allocate_mux_id, start_turn, Starts

\* What every queue invariant needs to know of a step: it starts a turn, or
\* frees the slot with nothing waiting, or leaves the slot alone; and in the
\* last case prompts only come to wait while the slot is taken.
QueueStep ==
    \/ Starts
    \/ prompt_in_flight' = 0 /\ queued_prompts' = <<>> /\ UNCHANGED next_mux_id
    \/ /\ prompt_in_flight' = prompt_in_flight
       /\ next_mux_id' \in {next_mux_id, next_mux_id + 1}
       /\ \/ prompt_in_flight # 0
          \/ queued_prompts = <<>> => queued_prompts' = <<>>

\* A rotation leaves an empty queue empty.
LEMMA RotationKeepsEmpty ==
    ASSUME NEW session, NEW via_load, NEW frames,
           set_canonical_session_id(session, via_load, frames),
           queued_prompts = <<>>
    PROVE  queued_prompts' = <<>>
<1>1. retarget(session) = <<>>
    BY DEF retarget
<1>2. rotate_segment(session).queue = <<>>
    BY <1>1 DEF rotate_segment
<1>3. unmoved.queue = <<>>
    BY DEF unmoved
<1>4. QED
    BY <1>2, <1>3 DEF set_canonical_session_id, on_canonical_session_id

LEMMA PeerQueueStep ==
    ASSUME NEW p \in Peers, PeerStep(p), next_mux_id \in Nat \ {0}
    PROVE  QueueStep
<1> USE DEF slotVars, turnVars, queueVars
<1>1. CASE attach(p) \/ ws_closes(p) \/ handle_detach(p) \/ handle_detach_request(p)
    BY <1>1 DEF attach, ws_closes, handle_detach, handle_detach_request, QueueStep
<1>2. CASE session_busy(p) \/ cancel_active_turn(p)
            \/ \E a \in AskIds : gate_subscriber_response(p, a)
    BY <1>2 DEF session_busy, cancel_active_turn, gate_subscriber_response, QueueStep
<1>3. ASSUME NEW s, forward_prompt(p, s)
      PROVE  QueueStep
    BY <1>3 DEF forward_prompt, allocate_mux_id, start_turn, QueueStep, Starts
<1>4. ASSUME NEW s, NEW method, forward_handshake(p, method, s)
      PROVE  QueueStep
    BY <1>4 DEF forward_handshake, allocate_mux_id, QueueStep
<1>5. ASSUME NEW s, handle_rooms_queue_prompt_request(p, s)
      PROVE  QueueStep
    <2>1. CASE submit_immediately
        BY <1>5, <2>1, SubmitStarts DEF handle_rooms_queue_prompt_request, QueueStep
    <2>2. CASE ~submit_immediately
        BY <1>5, <2>2
        DEF handle_rooms_queue_prompt_request, submit_immediately, QueueStep
    <2>3. QED
        BY <2>1, <2>2
<1>6. ASSUME NEW s, handle_rooms_idle_steer_request(p, s)
      PROVE  QueueStep
    BY <1>6, SubmitStarts DEF handle_rooms_idle_steer_request, QueueStep
<1>7. ASSUME NEW s, handle_rooms_steer_request(p, s)
      PROVE  QueueStep
    BY <1>7 DEF handle_rooms_steer_request, QueueStep
<1>8. CASE handle_rooms_unqueue_prompt_request(p)
    <2>1. queued_prompts # <<>>
        BY <1>8 DEF handle_rooms_unqueue_prompt_request
    <2>2. QED
        BY <1>8, <2>1 DEF handle_rooms_unqueue_prompt_request, QueueStep
<1>9. QED
    BY <1>1, <1>2, <1>3, <1>4, <1>5, <1>6, <1>7, <1>8 DEF PeerStep

LEMMA AgentQueueStep ==
    ASSUME AgentStep, next_mux_id \in Nat \ {0}
    PROVE  QueueStep
<1> USE DEF slotVars, turnVars, queueVars
<1>1. CASE prompt_settles
    <2>1. CASE queued_prompts # <<>>
        BY <1>1, <2>1, SubmitStarts DEF prompt_settles, QueueStep
    <2>2. CASE queued_prompts = <<>>
        BY <1>1, <2>2 DEF prompt_settles, QueueStep
    <2>3. QED
        BY <2>1, <2>2
<1>2. ASSUME NEW m \in DOMAIN pending, handshake_succeeds(m)
      PROVE  QueueStep
    BY <1>2, RotationKeepsEmpty DEF handshake_succeeds, QueueStep
<1>3. ASSUME NEW m \in DOMAIN pending, handshake_fails(m)
      PROVE  QueueStep
    BY <1>3 DEF handshake_fails, QueueStep
<1>4. ASSUME NEW s \in Switches, handle_agent_notification(s)
      PROVE  QueueStep
    BY <1>4, RotationKeepsEmpty DEF handle_agent_notification, QueueStep
<1>5. ASSUME NEW a \in AskIds, handle_agent_request(a) \/ handle_agent_cancel(a)
      PROVE  QueueStep
    BY <1>5 DEF handle_agent_request, handle_agent_cancel, QueueStep
<1>6. QED
    BY <1>1, <1>2, <1>3, <1>4, <1>5 DEF AgentStep

LEMMA NextQueueStep ==
    ASSUME [Next]_vars, next_mux_id \in Nat \ {0}
    PROVE  QueueStep
<1>1. CASE Next
    BY <1>1, PeerQueueStep, AgentQueueStep DEF Next
<1>2. CASE UNCHANGED vars
    BY <1>2 DEF vars, slotVars, queueVars, QueueStep
<1>3. QED
    BY <1>1, <1>2

-----------------------------------------------------------------------------
(***************************************************************************)
(* The queue is never left without a turn.                                 *)
(***************************************************************************)

\* Mux ids start at 1, so a slot that has just been filled is not empty.
QueueInv == next_mux_id \in Nat \ {0} /\ QueueWaitsForTheTurn

\* A prompt waits only while a turn is active, whose end submits the front
\* of the queue (on_prompt_settled): no interleaving of queueing, removals,
\* steers, rotations and detaches strands a prompt.
THEOREM QueueNeverStranded == Spec => []QueueWaitsForTheTurn
<1>1. Init => QueueInv
    BY DEF Init, QueueInv, QueueWaitsForTheTurn
<1>2. QueueInv /\ [Next]_vars => QueueInv'
    BY NextQueueStep DEF QueueInv, QueueWaitsForTheTurn, QueueStep, Starts
<1>3. QueueInv => QueueWaitsForTheTurn
    BY DEF QueueInv
<1>4. QED
    BY <1>1, <1>2, <1>3, PTL DEF Spec

-----------------------------------------------------------------------------
(***************************************************************************)
(* The active segment is the one of the canonical session.                 *)
(***************************************************************************)

IsSequence(s) == \E S : s \in Seq(S)

SegmentInv == IsSequence(segments) /\ SegmentIsCanonical

LEMMA CloseIsSequence ==
    ASSUME NEW log, IsSequence(segments), segments # <<>>
    PROVE  IsSequence(close_segment(log))
<1>1. PICK S : segments \in Seq(S)
    BY DEF IsSequence
<1>2. DEFINE x == [segments[Len(segments)] EXCEPT !.closed = Len(log)]
<1>3. close_segment(log) = [segments EXCEPT ![Len(segments)] = x]
    BY <1>1 DEF close_segment
<1> HIDE DEF x
<1>4. [segments EXCEPT ![Len(segments)] = x] \in Seq(S \cup {x})
    BY <1>1
<1>5. QED
    BY <1>3, <1>4 DEF IsSequence

\* A rotation opens a segment of the session it was called for.
LEMMA RotationOpensSegment ==
    ASSUME NEW session, IsSequence(segments)
    PROVE  LET opened_segments == rotate_segment(session).segments
           IN /\ IsSequence(opened_segments)
              /\ opened_segments # <<>>
              /\ Last(opened_segments).acp = session
<1> DEFINE opened_segments == rotate_segment(session).segments
<1>1. PICK log, closed, new :
        /\ opened_segments = Append(close_segment(log), [acp |-> session, opened |-> new, closed |-> closed])
    BY DEF rotate_segment
<1>2. IsSequence(close_segment(log))
    BY CloseIsSequence DEF close_segment
<1>3. PICK S : close_segment(log) \in Seq(S)
    BY <1>2 DEF IsSequence
<1> DEFINE s == close_segment(log)
           x == [acp |-> session, opened |-> new, closed |-> closed]
<1>4. x.acp = session
    OBVIOUS
<1> HIDE DEF s, x
<1>5. s \in Seq(S) /\ opened_segments = Append(s, x)
    BY <1>1, <1>3 DEF s, x
<1> HIDE DEF opened_segments
<1>6. s \in Seq(S \cup {x})
    BY <1>5
<1>7. Append(s, x) \in Seq(S \cup {x}) /\ Append(s, x) # <<>>
    <2>1. x \in S \cup {x}
        OBVIOUS
    <2>2. QED
        BY <1>6, <2>1, AppendProperties
<1>8. Last(Append(s, x)) = x
    BY <1>6 DEF Last
<1>9. QED
    BY <1>4, <1>5, <1>7, <1>8 DEF IsSequence, opened_segments

LEMMA SessionMovesSegment ==
    ASSUME NEW session, NEW via_load, NEW frames, SegmentInv,
           set_canonical_session_id(session, via_load, frames)
    PROVE  SegmentInv'
<1>1. canonical_session_id' = session
    BY DEF set_canonical_session_id
<1>2. CASE /\ canonical_session_id # session \/ via_load
           /\ segment_follows(session, via_load)
    <2>1. segments' = rotate_segment(session).segments
        BY <1>2 DEF set_canonical_session_id, on_canonical_session_id
    <2>2. QED
        BY <1>1, <2>1, RotationOpensSegment
        DEF SegmentInv, SegmentIsCanonical, IsSequence
<1>3. CASE /\ canonical_session_id # session \/ via_load
           /\ ~segment_follows(session, via_load)
    <2>1. segments' = segments
        BY <1>3 DEF set_canonical_session_id, on_canonical_session_id, unmoved
    <2>2. segments # <<>> /\ Last(segments).acp = session
        BY <1>3 DEF segment_follows
    <2>3. QED
        BY <1>1, <2>1, <2>2 DEF SegmentInv, SegmentIsCanonical, IsSequence
<1>4. CASE ~(canonical_session_id # session \/ via_load)
    <2>1. segments' = segments
        BY <1>4 DEF set_canonical_session_id, unmoved
    <2>2. QED
        BY <1>1, <1>4, <2>1 DEF SegmentInv, SegmentIsCanonical, IsSequence
<1>5. QED
    BY <1>2, <1>3, <1>4

LEMMA PeersKeepSegments ==
    ASSUME NEW p \in Peers, PeerStep(p)
    PROVE  UNCHANGED segmentVars
BY DEF PeerStep, attach, ws_closes, handle_detach, handle_detach_request,
       forward_prompt, handle_rooms_queue_prompt_request, handle_rooms_steer_request,
       handle_rooms_idle_steer_request, session_busy, forward_handshake,
       handle_rooms_unqueue_prompt_request, cancel_active_turn,
       gate_subscriber_response

\* New sessions, loads and switches by the agent move the canonical id in the
\* actor and the segment in the extension, and the two never part.
THEOREM SegmentFollowsSession == Spec => []SegmentIsCanonical
<1>1. Init => SegmentInv
    <2>1. <<>> \in Seq({})
        OBVIOUS
    <2>2. QED
        BY <2>1 DEF Init, SegmentInv, SegmentIsCanonical, IsSequence
<1>2. SegmentInv /\ [Next]_vars => SegmentInv'
    <2> SUFFICES ASSUME SegmentInv, [Next]_vars
                 PROVE  SegmentInv'
        OBVIOUS
    <2>1. CASE UNCHANGED segmentVars
        BY <2>1 DEF segmentVars, SegmentInv, SegmentIsCanonical, IsSequence
    <2>2. ASSUME NEW m \in DOMAIN pending, handshake_succeeds(m)
          PROVE  SegmentInv'
        BY <2>2, SessionMovesSegment DEF handshake_succeeds
    <2>3. ASSUME NEW session \in Switches, handle_agent_notification(session)
          PROVE  SegmentInv'
        BY <2>1, <2>3, SessionMovesSegment DEF handle_agent_notification
    <2>4. CASE prompt_settles \/ (\E m \in DOMAIN pending : handshake_fails(m))
                \/ (\E a \in AskIds : handle_agent_request(a) \/ handle_agent_cancel(a))
        BY <2>1, <2>4 DEF prompt_settles, handshake_fails, handle_agent_request,
                          handle_agent_cancel
    <2>5. CASE AgentStep
        BY <2>2, <2>3, <2>4, <2>5 DEF AgentStep
    <2>6. CASE \E p \in Peers : PeerStep(p)
        BY <2>1, <2>6, PeersKeepSegments
    <2>7. CASE UNCHANGED vars
        BY <2>1, <2>7 DEF vars
    <2>8. QED
        BY <2>5, <2>6, <2>7 DEF Next
<1>3. SegmentInv => SegmentIsCanonical
    BY DEF SegmentInv
<1>4. QED
    BY <1>1, <1>2, <1>3, PTL DEF Spec

-----------------------------------------------------------------------------
(***************************************************************************)
(* A session/cancel hits the turn it was meant for.                        *)
(***************************************************************************)

IsPrompt(f) == f.type = "prompt"
IsCancel(f) == f.type = "session/cancel"

\* The frame at position j of this stdin is the prompt of the turn, and no
\* other prompt follows up to position k.
LastPrompt(stdin, j, k, turn, session) ==
    /\ IsPrompt(stdin[j]) /\ stdin[j].turn = turn /\ stdin[j].session = session
    /\ \A i \in j + 1 .. k : ~IsPrompt(stdin[i])

\* While a turn is active, the last prompt the agent was sent is its own.
ActivePrompt ==
    active_rooms_turn_id # 0 =>
        \E j \in 1 .. Len(agent_stdin) :
            LastPrompt(agent_stdin, j, Len(agent_stdin),
                       active_rooms_turn_id, active_turn_session_id)

CancelInv == IsSequence(agent_stdin) /\ CancelHitsItsTurn /\ ActivePrompt

\* What a step writes to the agent, and what it does to the active turn.
SubmitsTurn(f) ==
    /\ IsPrompt(f) /\ ~IsCancel(f)
    /\ agent_stdin' = Append(agent_stdin, f)
    /\ active_rooms_turn_id' = f.turn /\ active_turn_session_id' = f.session

CancelsTurn(f) ==
    /\ IsCancel(f) /\ ~IsPrompt(f)
    /\ active_rooms_turn_id # 0
    /\ f.turn = active_rooms_turn_id /\ f.session = active_turn_session_id
    /\ agent_stdin' = Append(agent_stdin, f)
    /\ UNCHANGED <<active_rooms_turn_id, active_turn_session_id>>

WritesOther(f) ==
    /\ ~IsPrompt(f) /\ ~IsCancel(f)
    /\ agent_stdin' = Append(agent_stdin, f)
    /\ UNCHANGED <<active_rooms_turn_id, active_turn_session_id>>

WritesNothing ==
    /\ UNCHANGED agent_stdin
    /\ \/ active_rooms_turn_id' = 0
       \/ UNCHANGED <<active_rooms_turn_id, active_turn_session_id>>

StdinStep ==
    WritesNothing \/ \E f : SubmitsTurn(f) \/ CancelsTurn(f) \/ WritesOther(f)

LEMMA TurnSubmitted ==
    ASSUME NEW p, NEW session, NEW others, NEW data, NEW item,
           allocate_mux_id(p, "session/prompt", session, others, data,
                           next_rooms_turn_id, item),
           start_turn(session)
    PROVE  StdinStep
<1> DEFINE f == [type |-> "prompt", turn |-> next_rooms_turn_id, session |-> session]
<1>1. SubmitsTurn(f)
    BY DEF allocate_mux_id, start_turn, ToAgent, SubmitsTurn, IsPrompt, IsCancel
<1>2. QED
    BY <1>1 DEF StdinStep

LEMMA QueuedTurnSubmitted ==
    ASSUME NEW queue, NEW before, NEW others, NEW data,
           submit_next_queued_prompt(queue, before, others, data)
    PROVE  StdinStep
BY TurnSubmitted DEF submit_next_queued_prompt

LEMMA CancelSent ==
    ASSUME send_session_cancel, active_rooms_turn_id # 0, UNCHANGED turnVars
    PROVE  StdinStep
<1> DEFINE f == [type |-> "session/cancel", turn |-> active_rooms_turn_id,
                 session |-> active_turn_session_id]
<1>1. CancelsTurn(f)
    BY DEF send_session_cancel, ToAgent, CancelsTurn, IsPrompt, IsCancel, turnVars
<1>2. QED
    BY <1>1 DEF StdinStep

LEMMA PeerStdinStep ==
    ASSUME NEW p \in Peers, PeerStep(p)
    PROVE  StdinStep
<1>1. CASE attach(p) \/ ws_closes(p) \/ handle_detach(p) \/ handle_detach_request(p)
            \/ session_busy(p) \/ handle_rooms_unqueue_prompt_request(p)
    BY <1>1 DEF attach, ws_closes, handle_detach, handle_detach_request, session_busy,
                handle_rooms_unqueue_prompt_request, turnVars, StdinStep, WritesNothing
<1>2. ASSUME NEW s, forward_prompt(p, s)
      PROVE  StdinStep
    BY <1>2, TurnSubmitted DEF forward_prompt
<1>3. ASSUME NEW s, handle_rooms_queue_prompt_request(p, s)
      PROVE  StdinStep
    <2>1. CASE submit_immediately
        BY <1>3, <2>1, QueuedTurnSubmitted DEF handle_rooms_queue_prompt_request
    <2>2. CASE ~submit_immediately
        BY <1>3, <2>2
        DEF handle_rooms_queue_prompt_request, turnVars, StdinStep, WritesNothing
    <2>3. QED
        BY <2>1, <2>2
<1>4. ASSUME NEW s, handle_rooms_idle_steer_request(p, s)
      PROVE  StdinStep
    BY <1>4, QueuedTurnSubmitted DEF handle_rooms_idle_steer_request
<1>5. ASSUME NEW s, handle_rooms_steer_request(p, s) \/ cancel_active_turn(p)
      PROVE  StdinStep
    BY <1>5, CancelSent DEF handle_rooms_steer_request, cancel_active_turn
<1>6. ASSUME NEW s, NEW method \in {"session/new", "session/load"},
             forward_handshake(p, method, s)
      PROVE  StdinStep
    <2> DEFINE f == [type |-> "request", turn |-> 0, session |-> s]
    <2>1. WritesOther(f)
        BY <1>6 DEF forward_handshake, allocate_mux_id, ToAgent, WritesOther,
                    IsPrompt, IsCancel, turnVars
    <2>2. QED
        BY <2>1 DEF StdinStep
<1>7. ASSUME NEW a \in AskIds, gate_subscriber_response(p, a)
      PROVE  StdinStep
    <2> DEFINE f == [type |-> "reply", ask |-> a]
    <2>1. WritesOther(f)
        BY <1>7 DEF gate_subscriber_response, ToAgent, WritesOther, IsPrompt,
                    IsCancel, turnVars
    <2>2. QED
        BY <2>1 DEF StdinStep
<1>8. QED
    BY <1>1, <1>2, <1>3, <1>4, <1>5, <1>6, <1>7 DEF PeerStep

LEMMA AgentStdinStep ==
    ASSUME AgentStep
    PROVE  StdinStep
<1>1. CASE prompt_settles
    <2>1. CASE queued_prompts # <<>>
        BY <1>1, <2>1, QueuedTurnSubmitted DEF prompt_settles
    <2>2. CASE queued_prompts = <<>>
        BY <1>1, <2>2 DEF prompt_settles, StdinStep, WritesNothing
    <2>3. QED
        BY <2>1, <2>2
<1>2. ASSUME NEW m \in DOMAIN pending, handshake_succeeds(m) \/ handshake_fails(m)
      PROVE  StdinStep
    BY <1>2 DEF handshake_succeeds, handshake_fails, turnVars, StdinStep, WritesNothing
<1>3. ASSUME NEW s \in Switches, handle_agent_notification(s)
      PROVE  StdinStep
    BY <1>3 DEF handle_agent_notification, turnVars, StdinStep, WritesNothing
<1>4. ASSUME NEW a \in AskIds, handle_agent_request(a) \/ handle_agent_cancel(a)
      PROVE  StdinStep
    BY <1>4 DEF handle_agent_request, handle_agent_cancel, turnVars, StdinStep,
                WritesNothing
<1>5. QED
    BY <1>1, <1>2, <1>3, <1>4 DEF AgentStep

\* Appending to a sequence, in the terms of the invariant.
LEMMA Appended ==
    ASSUME NEW s, NEW f, IsSequence(s)
    PROVE  /\ IsSequence(Append(s, f))
           /\ Len(s) \in Nat /\ Len(Append(s, f)) = Len(s) + 1
           /\ DOMAIN s = 1 .. Len(s) /\ DOMAIN Append(s, f) = 1 .. Len(s) + 1
           /\ \A i \in 1 .. Len(s) : Append(s, f)[i] = s[i]
           /\ Append(s, f)[Len(s) + 1] = f
<1>1. PICK S : s \in Seq(S)
    BY DEF IsSequence
<1>2. s \in Seq(S \cup {f}) /\ f \in S \cup {f}
    BY <1>1
<1>3. Append(s, f) \in Seq(S \cup {f})
    BY <1>2, AppendProperties
<1>4. QED
    BY <1>2, <1>3, AppendProperties DEF IsSequence

\* A frame further on, with a longer stdin, the same prompt is the last one.
LEMMA LastPromptStays ==
    ASSUME NEW s, NEW f, IsSequence(s), NEW k \in 0 .. Len(s), NEW j \in 1 .. k,
           NEW turn, NEW session, LastPrompt(s, j, k, turn, session)
    PROVE  LastPrompt(Append(s, f), j, k, turn, session)
<1>1. \A i \in 1 .. k : Append(s, f)[i] = s[i]
    BY Appended
<1>2. j + 1 .. k \subseteq 1 .. k
    BY Appended
<1>3. QED
    BY <1>1, <1>2 DEF LastPrompt

\* The old cancels are where they were.
LEMMA OldCancelsStay ==
    ASSUME NEW f, CancelInv, agent_stdin' = Append(agent_stdin, f),
           IsCancel(f) =>
               \E j \in 1 .. Len(agent_stdin) + 1 :
                   LastPrompt(Append(agent_stdin, f), j, Len(agent_stdin) + 1, f.turn, f.session)
    PROVE  IsSequence(agent_stdin') /\ CancelHitsItsTurn'
<1> DEFINE s == agent_stdin
           t == Append(agent_stdin, f)
<1>1. IsSequence(s)
    BY DEF CancelInv
<1>2. IsSequence(t)
    BY <1>1, Appended
<1>3. ASSUME NEW k \in DOMAIN t, IsCancel(t[k])
      PROVE  \E j \in 1 .. k : LastPrompt(t, j, k, t[k].turn, t[k].session)
    <2>1. CASE k = Len(s) + 1
        BY <1>1, <1>3, <2>1, Appended
    <2>2. CASE k \in 1 .. Len(s)
        <3>1. t[k] = s[k] /\ k \in DOMAIN s /\ k \in 0 .. Len(s)
            BY <1>1, <2>2, Appended
        <3>2. PICK j \in 1 .. k : LastPrompt(s, j, k, s[k].turn, s[k].session)
            BY <1>3, <3>1 DEF CancelInv, CancelHitsItsTurn, LastPrompt, IsPrompt, IsCancel
        <3>3. LastPrompt(t, j, k, t[k].turn, t[k].session)
            BY <1>1, <3>1, <3>2, LastPromptStays
        <3>4. QED
            BY <3>3
    <2>3. QED
        BY <1>1, <1>3, <2>1, <2>2, Appended
<1>4. CancelHitsItsTurn'
    BY <1>3 DEF CancelHitsItsTurn, LastPrompt, IsPrompt, IsCancel
<1>5. QED
    BY <1>2, <1>4

\* The active turn keeps its prompt when anything but a prompt is written.
LEMMA ActivePromptStays ==
    ASSUME NEW f, CancelInv, ~IsPrompt(f), active_rooms_turn_id # 0
    PROVE  \E j \in 1 .. Len(agent_stdin) + 1 :
               LastPrompt(Append(agent_stdin, f), j, Len(agent_stdin) + 1,
                          active_rooms_turn_id, active_turn_session_id)
<1> DEFINE s == agent_stdin
           n == Len(agent_stdin)
<1>1. IsSequence(s) /\ n \in Nat
    BY Appended DEF CancelInv
<1>2. PICK j \in 1 .. n :
        LastPrompt(s, j, n, active_rooms_turn_id, active_turn_session_id)
    BY DEF CancelInv, ActivePrompt
<1>3. LastPrompt(Append(s, f), j, n, active_rooms_turn_id, active_turn_session_id)
    BY <1>1, <1>2, LastPromptStays
<1>4. \A i \in j + 1 .. n + 1 : i \in j + 1 .. n \/ i = n + 1
    BY <1>1
<1>5. ~IsPrompt(Append(s, f)[n + 1])
    BY <1>1, Appended
<1>6. LastPrompt(Append(s, f), j, n + 1, active_rooms_turn_id, active_turn_session_id)
    BY <1>3, <1>4, <1>5 DEF LastPrompt
<1>7. j \in 1 .. n + 1
    BY <1>1
<1>8. QED
    BY <1>6, <1>7

LEMMA StdinStepKeepsCancels ==
    ASSUME CancelInv, StdinStep
    PROVE  CancelInv'
<1>1. IsSequence(agent_stdin) /\ Len(agent_stdin) \in Nat
    BY Appended DEF CancelInv
<1>2. CASE WritesNothing
    BY <1>2 DEF WritesNothing, CancelInv, CancelHitsItsTurn, ActivePrompt, IsSequence
<1>3. ASSUME NEW f, SubmitsTurn(f)
      PROVE  CancelInv'
    <2>1. IsSequence(agent_stdin') /\ CancelHitsItsTurn'
        BY <1>3, OldCancelsStay DEF SubmitsTurn
    <2>2. Len(agent_stdin') = Len(agent_stdin) + 1 /\ agent_stdin'[Len(agent_stdin) + 1] = f
        BY <1>1, <1>3, Appended DEF SubmitsTurn
    <2>3. LastPrompt(agent_stdin', Len(agent_stdin'), Len(agent_stdin'), f.turn, f.session)
        BY <1>1, <1>3, <2>2 DEF SubmitsTurn, LastPrompt
    <2>4. Len(agent_stdin') \in 1 .. Len(agent_stdin')
        BY <1>1, <2>2
    <2>5. ActivePrompt'
        BY <1>3, <2>3, <2>4 DEF SubmitsTurn, ActivePrompt
    <2>6. QED
        BY <2>1, <2>5 DEF CancelInv
<1>4. ASSUME NEW f, CancelsTurn(f) \/ WritesOther(f)
      PROVE  CancelInv'
    <2>1. /\ agent_stdin' = Append(agent_stdin, f) /\ ~IsPrompt(f)
          /\ UNCHANGED <<active_rooms_turn_id, active_turn_session_id>>
        BY <1>4 DEF CancelsTurn, WritesOther
    <2>2. IsCancel(f) => /\ active_rooms_turn_id # 0
                         /\ f.turn = active_rooms_turn_id
                         /\ f.session = active_turn_session_id
        BY <1>4 DEF CancelsTurn, WritesOther
    <2>3. IsSequence(agent_stdin') /\ CancelHitsItsTurn'
        BY <2>1, <2>2, ActivePromptStays, OldCancelsStay
    <2>4. Len(agent_stdin') = Len(agent_stdin) + 1
        BY <1>1, <2>1, Appended
    <2>5. ActivePrompt'
        BY <2>1, <2>4, ActivePromptStays DEF ActivePrompt
    <2>6. QED
        BY <2>3, <2>5 DEF CancelInv
<1>5. QED
    BY <1>2, <1>3, <1>4 DEF StdinStep

\* A session/cancel names a session, not a prompt.  Whatever is queued,
\* steered, settled or rotated meanwhile, when it is written the last prompt
\* the agent was sent is the one of the turn it was meant for, in its session.
THEOREM CancelsHit == Spec => []CancelHitsItsTurn
<1>1. Init => CancelInv
    <2>1. <<>> \in Seq({}) /\ DOMAIN <<>> = {}
        OBVIOUS
    <2>2. QED
        BY <2>1 DEF Init, CancelInv, CancelHitsItsTurn, ActivePrompt, IsSequence
<1>2. CancelInv /\ [Next]_vars => CancelInv'
    <2> SUFFICES ASSUME CancelInv, [Next]_vars
                 PROVE  CancelInv'
        OBVIOUS
    <2>1. CASE Next
        BY <2>1, PeerStdinStep, AgentStdinStep, StdinStepKeepsCancels DEF Next
    <2>2. CASE UNCHANGED vars
        BY <2>2, StdinStepKeepsCancels DEF vars, turnVars, StdinStep, WritesNothing
    <2>3. QED
        BY <2>1, <2>2
<1>3. CancelInv => CancelHitsItsTurn
    BY DEF CancelInv
<1>4. QED
    BY <1>1, <1>2, <1>3, PTL DEF Spec

-----------------------------------------------------------------------------
(***************************************************************************)
(* A rotation retargets the queue.                                         *)
(***************************************************************************)

\* The only way to another session is set_canonical_session_id, which finds
\* an active segment of the old session and rotates.
LEMMA MoveRetargets ==
    ASSUME TypeInv, SegmentIsCanonical, NEW session, NEW via_load, NEW frames,
           set_canonical_session_id(session, via_load, frames),
           canonical_session_id # None, canonical_session_id' # canonical_session_id
    PROVE  \A k \in DOMAIN queued_prompts' : queued_prompts'[k].session = canonical_session_id'
<1>1. canonical_session_id' = session /\ canonical_session_id # session
    BY DEF set_canonical_session_id
<1>2. segments # <<>> /\ Last(segments).acp = canonical_session_id
    BY DEF SegmentIsCanonical
<1>3. on_canonical_session_id(session, via_load) = rotate_segment(session)
    BY <1>1, <1>2 DEF on_canonical_session_id, segment_follows
<1>4. queued_prompts' = retarget(session)
    BY <1>1, <1>3 DEF set_canonical_session_id, rotate_segment
<1>5. \A k \in DOMAIN queued_prompts : queued_prompts[k] \in QueuedPrompt
    BY DEF TypeInv, QueueType
<1>6. \A q \in QueuedPrompt : [q EXCEPT !.session = session].session = session
    BY DEF QueuedPrompt
<1>7. QED
    BY <1>1, <1>2, <1>4, <1>5, <1>6 DEF retarget

LEMMA StepRetargets ==
    ASSUME TypeInv, SegmentIsCanonical, [Next]_vars
    PROVE  canonical_session_id' # canonical_session_id /\ canonical_session_id # None
            => \A k \in DOMAIN queued_prompts' : queued_prompts'[k].session = canonical_session_id'
<1>1. SUFFICES ASSUME canonical_session_id' # canonical_session_id, canonical_session_id # None
               PROVE  \A k \in DOMAIN queued_prompts' :
                        queued_prompts'[k].session = canonical_session_id'
    OBVIOUS
<1>2. AgentStep
    BY <1>1, PeersKeepSegments DEF Next, vars, segmentVars
<1>3. \/ \E m \in DOMAIN pending : handshake_succeeds(m)
      \/ \E s \in Switches : handle_agent_notification(s)
    BY <1>1, <1>2 DEF AgentStep, prompt_settles, handshake_fails, handle_agent_request,
           handle_agent_cancel, segmentVars
<1>4. \E session, via_load, frames : set_canonical_session_id(session, via_load, frames)
    BY <1>1, <1>3 DEF handshake_succeeds, handle_agent_notification, segmentVars
<1>5. QED
    BY <1>1, <1>4, MoveRetargets

\* When the agent's session moves, every prompt that waits is sent to the new
\* one (rotate_segment and retarget_queued_prompts_to_session), for any number
\* of queued prompts, steers and sessions.
THEOREM RotationTakesTheQueueAlong == Spec => RotationRetargets
<1>1. Spec => []TypeInv
    BY TypesHold
<1>2. Spec => []SegmentIsCanonical
    BY SegmentFollowsSession
<1>3. QED
    BY <1>1, <1>2, StepRetargets, PTL DEF Spec, RotationRetargets

-----------------------------------------------------------------------------
(***************************************************************************)
(* The segments divide the log.                                            *)
(***************************************************************************)

Segment == [acp : Sessions, opened : Nat, closed : Nat]

Partition(log, segs, tag) ==
    /\ tag = Len(segs)
    /\ \A n \in 1 .. Len(segs) - 1 : segs[n].closed + 1 = segs[n + 1].opened
    /\ Len(segs) # 0 => segs[Len(segs)].opened <= Len(log) + 1
    /\ \A k \in DOMAIN log :
        /\ log[k].tag \in 0 .. tag
        /\ log[k].tag # 0 => segs[log[k].tag].opened <= k
        /\ log[k].tag = tag \/ k < segs[log[k].tag + 1].opened

PartitionInv == TypeInv /\ Partition(replay_log, segments, replay_tag)

\* Frames under the tag of the active segment.
LEMMA PartitionGrows ==
    ASSUME NEW log \in Seq(Entry), NEW new \in Seq(Entry), NEW segs \in Seq(Segment), NEW tag,
           Partition(log, segs, tag), \A k \in DOMAIN new : new[k].tag = tag
    PROVE  Partition(log \o new, segs, tag)
<1> DEFINE longer == log \o new
<1>1. /\ Len(log) \in Nat /\ Len(new) \in Nat /\ Len(longer) = Len(log) + Len(new)
      /\ DOMAIN log = 1..Len(log) /\ DOMAIN new = 1..Len(new)
      /\ \A k \in 1..Len(log) : longer[k] = log[k]
      /\ \A k \in DOMAIN longer :
            k \in 1..Len(log) \/ (k - Len(log) \in 1..Len(new) /\ k > Len(log)
                                  /\ longer[k] = new[k - Len(log)])
    BY Grown
<1>2. DOMAIN longer \subseteq Nat
    BY Grown
<1>3. Len(segs) \in Nat /\ \A n \in 1 .. Len(segs) : segs[n].opened \in Nat
    <2>1. \A n \in 1 .. Len(segs) : segs[n] \in Segment
        OBVIOUS
    <2>2. QED
        BY <2>1 DEF Segment
<1> HIDE DEF longer
<1>4. ASSUME NEW k \in DOMAIN longer
      PROVE  /\ longer[k].tag \in 0 .. tag
             /\ longer[k].tag # 0 => segs[longer[k].tag].opened <= k
             /\ longer[k].tag = tag \/ k < segs[longer[k].tag + 1].opened
    <2>1. CASE k \in 1..Len(log)
        BY <1>1, <2>1 DEF Partition
    <2>2. CASE k - Len(log) \in 1..Len(new) /\ k > Len(log) /\ longer[k] = new[k - Len(log)]
        <3>1. longer[k].tag = tag /\ k \in Nat
            BY <1>1, <1>2, <2>2
        <3>2. tag = Len(segs) /\ (tag # 0 => segs[tag].opened <= Len(log) + 1)
            BY DEF Partition
        <3>3. tag # 0 => tag \in 1 .. Len(segs) /\ segs[tag].opened \in Nat
            BY <1>3, <3>2
        <3>4. QED
            BY <1>1, <1>3, <2>2, <3>1, <3>2, <3>3
    <2>3. QED
        BY <1>1, <2>1, <2>2
<1>5. Len(segs) # 0 => segs[Len(segs)].opened <= Len(longer) + 1
    <2>1. Len(segs) # 0 => Len(segs) \in 1 .. Len(segs)
        BY <1>3
    <2>2. QED
        BY <1>1, <1>3, <2>1 DEF Partition
<1>6. Partition(longer, segs, tag)
    BY <1>4, <1>5 DEF Partition
<1>7. QED
    BY <1>6 DEF longer

\* The active segment ends with the log, and another one begins.
LEMMA PartitionRotates ==
    ASSUME NEW log \in Seq(Entry), NEW segs \in Seq(Segment), NEW tag, Partition(log, segs, tag),
           NEW ended \in Seq(Segment), Len(ended) = Len(segs),
           \A n \in 1 .. Len(segs) : ended[n].opened = segs[n].opened,
           \A n \in 1 .. Len(segs) - 1 : ended[n].closed = segs[n].closed,
           Len(segs) # 0 => ended[Len(segs)].closed = Len(log),
           NEW next \in Segment, next.opened = Len(log) + 1
    PROVE  Partition(log, Append(ended, next), tag + 1)
<1> DEFINE longer == Append(ended, next)
           last == Len(segs)
<1>1. /\ Len(longer) = last + 1 /\ last \in Nat
      /\ \A n \in 1 .. last : longer[n] = ended[n]
      /\ longer[last + 1] = next
    BY AppendProperties
<1>2. Len(log) \in Nat /\ DOMAIN log = 1 .. Len(log)
    OBVIOUS
<1>3. tag = last
    BY DEF Partition
<1> HIDE DEF longer, last
<1>4. ASSUME NEW n \in 1 .. last
      PROVE  longer[n].closed + 1 = longer[n + 1].opened
    <2>1. CASE n = last
        <3>1. ended[n].closed = Len(log)
            BY <1>1, <2>1 DEF last
        <3>2. QED
            BY <1>1, <2>1, <3>1
    <2>2. CASE n # last
        <3>1. n \in 1 .. last - 1 /\ n + 1 \in 1 .. last
            BY <1>1, <2>2
        <3>2. ended[n].closed = segs[n].closed /\ ended[n + 1].opened = segs[n + 1].opened
            BY <3>1 DEF last
        <3>3. segs[n].closed + 1 = segs[n + 1].opened
            BY <3>1 DEF Partition, last
        <3>4. QED
            BY <1>1, <3>1, <3>2, <3>3
    <2>3. QED
        BY <2>1, <2>2
<1>5. ASSUME NEW k \in DOMAIN log
      PROVE  /\ log[k].tag \in 0 .. tag + 1
             /\ log[k].tag # 0 => longer[log[k].tag].opened <= k
             /\ log[k].tag = tag + 1 \/ k < longer[log[k].tag + 1].opened
    <2>1. /\ log[k].tag \in 0 .. last /\ k \in Nat /\ k <= Len(log)
          /\ log[k].tag # 0 => segs[log[k].tag].opened <= k
          /\ log[k].tag = last \/ k < segs[log[k].tag + 1].opened
        BY <1>2, <1>3 DEF Partition
    <2>2. log[k].tag # 0 => longer[log[k].tag].opened <= k
        <3>1. log[k].tag # 0 => log[k].tag \in 1 .. last
            BY <1>1, <2>1
        <3>2. QED
            BY <1>1, <2>1, <3>1 DEF last
    <2>3. CASE log[k].tag = last
        BY <1>1, <1>2, <1>3, <2>1, <2>2, <2>3
    <2>4. CASE log[k].tag # last
        <3>1. log[k].tag + 1 \in 1 .. last
            BY <1>1, <2>1, <2>4
        <3>2. longer[log[k].tag + 1].opened = segs[log[k].tag + 1].opened
            BY <1>1, <3>1 DEF last
        <3>3. QED
            BY <1>1, <1>3, <2>1, <2>2, <2>4, <3>2
    <2>5. QED
        BY <2>3, <2>4
<1>6. QED
    <2>1. Partition(log, longer, tag + 1)
        BY <1>1, <1>2, <1>3, <1>4, <1>5 DEF Partition
    <2>2. QED
        BY <2>1 DEF longer

\* What close_segment does.
LEMMA SegmentCloses ==
    ASSUME NEW log \in Seq(Entry), segments \in Seq(Segment)
    PROVE  LET ended == close_segment(log)
           IN /\ ended \in Seq(Segment) /\ Len(ended) = Len(segments)
              /\ \A n \in 1 .. Len(segments) : ended[n].opened = segments[n].opened
              /\ \A n \in 1 .. Len(segments) - 1 : ended[n].closed = segments[n].closed
              /\ Len(segments) # 0 => ended[Len(segments)].closed = Len(log)
<1> DEFINE last == Len(segments)
           x == [segments[last] EXCEPT !.closed = Len(log)]
<1>1. last \in Nat /\ Len(log) \in Nat
    OBVIOUS
<1>2. CASE segments = <<>>
    BY <1>2 DEF close_segment
<1>3. CASE segments # <<>>
    <2>1. last \in 1 .. last /\ segments[last] \in Segment
        BY <1>3
    <2>2. x \in Segment /\ x.opened = segments[last].opened /\ x.closed = Len(log)
        BY <1>1, <2>1 DEF Segment
    <2>3. close_segment(log) = [segments EXCEPT ![last] = x]
        BY <1>3 DEF close_segment
    <2> HIDE DEF x
    <2>4. /\ [segments EXCEPT ![last] = x] \in Seq(Segment)
          /\ Len([segments EXCEPT ![last] = x]) = last
          /\ \A n \in 1 .. last : [segments EXCEPT ![last] = x][n] = IF n = last THEN x ELSE segments[n]
        BY <2>1, <2>2
    <2>5. \A n \in 1 .. last - 1 : n \in 1 .. last /\ n # last
        BY <1>1
    <2> HIDE DEF last
    <2>6. QED
        BY <2>1, <2>2, <2>3, <2>4, <2>5 DEF last
<1>4. QED
    BY <1>2, <1>3

\* A new segment, with its frames if they are configured, and the frames
\* broadcast after it.
LEMMA MovePartitions ==
    ASSUME PartitionInv, NEW session \in Sessions, NEW via_load \in BOOLEAN,
           NEW frames \in Seq(Frame), set_canonical_session_id(session, via_load, frames)
    PROVE  Partition(replay_log', segments', replay_tag')
<1> DEFINE heard == canonical_session_id # session \/ via_load
           r == IF heard THEN on_canonical_session_id(session, via_load) ELSE unmoved
           told == Tagged(frames, r.tag)
<1>1. /\ segments' = r.segments /\ replay_tag' = r.tag /\ replay_log' = r.log \o told
    BY DEF set_canonical_session_id
<1>2. r = unmoved \/ r = rotate_segment(session)
    BY DEF on_canonical_session_id
<1>3. /\ replay_log \in Seq(Entry) /\ segments \in Seq(Segment) /\ replay_tag \in Nat
      /\ Partition(replay_log, segments, replay_tag) /\ TypeInv
    BY DEF PartitionInv, TypeInv, LogType, SegmentType, Segment
<1>4. /\ r.log \in Seq(Entry) /\ r.segments \in Seq(Segment) /\ r.tag \in Nat
      /\ Partition(r.log, r.segments, r.tag)
    <2>1. CASE r = unmoved
        BY <1>3, <2>1 DEF unmoved
    <2>2. CASE r = rotate_segment(session)
        <3> DEFINE last == Len(segments)
                   f == frame("segment_ended", last, 0)
                   g == frame("segment_started", last + 1, 0)
                   ended == IF EmitSegmentFrames /\ last # 0 THEN Tagged(<<f>>, last) ELSE <<>>
                   started == IF EmitSegmentFrames THEN Tagged(<<g>>, last + 1) ELSE <<>>
                   log == replay_log \o ended
                   next == [acp |-> session, opened |-> Len(log) + 1, closed |-> 0]
        <3>1. /\ rotate_segment(session).log = log \o started
              /\ rotate_segment(session).segments = Append(close_segment(log), next)
              /\ rotate_segment(session).tag = last + 1
            BY DEF rotate_segment
        <3>2. last \in Nat /\ last = replay_tag
            BY <1>3 DEF Partition
        <3>3. f \in Frame /\ g \in Frame
            BY <3>2 DEF frame, Frame
        <3> HIDE DEF f, g
        <3>4. /\ Tagged(<<f>>, last) \in Seq(Entry) /\ Tagged(<<g>>, last + 1) \in Seq(Entry)
              /\ \A k \in DOMAIN Tagged(<<f>>, last) : Tagged(<<f>>, last)[k].tag = last
              /\ \A k \in DOMAIN Tagged(<<g>>, last + 1) : Tagged(<<g>>, last + 1)[k].tag = last + 1
            <4>1. <<f>> \in Seq(Frame) /\ <<g>> \in Seq(Frame) /\ last + 1 \in Nat
                BY <3>2, <3>3
            <4> DEFINE F == <<f>>
                       G == <<g>>
            <4>2. F \in Seq(Frame) /\ G \in Seq(Frame)
                BY <4>1
            <4> HIDE DEF last, F, G
            <4>3. /\ Tagged(F, last) \in Seq(Entry)
                  /\ \A k \in DOMAIN Tagged(F, last) : Tagged(F, last)[k].tag = last
                BY <3>2, <4>2, TaggedType
            <4>4. /\ Tagged(G, last + 1) \in Seq(Entry)
                  /\ \A k \in DOMAIN Tagged(G, last + 1) : Tagged(G, last + 1)[k].tag = last + 1
                BY <4>1, <4>2, TaggedType
            <4>5. QED
                BY <4>3, <4>4 DEF F, G
        <3> HIDE DEF last
        <3>5. /\ ended \in Seq(Entry) /\ \A k \in DOMAIN ended : ended[k].tag = last
              /\ started \in Seq(Entry) /\ \A k \in DOMAIN started : started[k].tag = last + 1
            <4>1. <<>> \in Seq(Entry) /\ DOMAIN <<>> = {}
                OBVIOUS
            <4> DEFINE E == Tagged(<<f>>, last)
                       S == Tagged(<<g>>, last + 1)
            <4>2. /\ E \in Seq(Entry) /\ \A k \in DOMAIN E : E[k].tag = last
                  /\ S \in Seq(Entry) /\ \A k \in DOMAIN S : S[k].tag = last + 1
                BY <3>4
            <4>3. (ended = E \/ ended = <<>>) /\ (started = S \/ started = <<>>)
                OBVIOUS
            <4> HIDE DEF E, S, ended, started
            <4>4. QED
                BY <4>1, <4>2, <4>3
        <3> HIDE DEF ended, started
        <3>6. log \in Seq(Entry) /\ Partition(log, segments, last)
            BY <1>3, <3>2, <3>5, Grown, PartitionGrows
        <3> HIDE DEF log
        <3>7. next \in Segment /\ next.opened = Len(log) + 1
            BY <3>6 DEF Segment
        <3> HIDE DEF next
        <3> DEFINE closed == close_segment(log)
        <3>8. /\ closed \in Seq(Segment) /\ Len(closed) = Len(segments)
              /\ \A n \in 1 .. Len(segments) : closed[n].opened = segments[n].opened
              /\ \A n \in 1 .. Len(segments) - 1 : closed[n].closed = segments[n].closed
              /\ Len(segments) # 0 => closed[Len(segments)].closed = Len(log)
            BY <1>3, <3>6, SegmentCloses
        <3> HIDE DEF closed
        <3>9. Partition(log, Append(closed, next), last + 1)
            BY <1>3, <3>6, <3>7, <3>8, PartitionRotates
        <3>10. Append(closed, next) \in Seq(Segment) /\ last + 1 \in Nat
            BY <3>2, <3>7, <3>8, AppendProperties
        <3>11. /\ log \o started \in Seq(Entry)
               /\ Partition(log \o started, Append(closed, next), last + 1)
            BY <3>5, <3>6, <3>9, <3>10, Grown, PartitionGrows
        <3>12. QED
            BY <2>2, <3>1, <3>10, <3>11 DEF closed
    <2>3. QED
        BY <1>2, <2>1, <2>2
<1> HIDE DEF r
<1>5. told \in Seq(Entry) /\ \A k \in DOMAIN told : told[k].tag = r.tag
    BY <1>4, TaggedType
<1> HIDE DEF told
<1>6. Partition(r.log \o told, r.segments, r.tag)
    BY <1>4, <1>5, PartitionGrows
<1>7. QED
    BY <1>1, <1>6

LEMMA PartitionBroadcast ==
    ASSUME PartitionInv, NEW methods, Logs(methods), "segment_started" \notin methods,
           UNCHANGED <<segments, replay_tag>>
    PROVE  Partition(replay_log', segments', replay_tag')
<1>1. PICK new \in Seq(Entry) : replay_log' = replay_log \o new
                            /\ \A k \in DOMAIN new : new[k].tag = replay_tag
    BY DEF Logs
<1>2. replay_log \in Seq(Entry) /\ segments \in Seq(Segment)
    BY DEF PartitionInv, TypeInv, LogType, SegmentType, Segment
<1>3. Partition(replay_log \o new, segments, replay_tag)
    BY <1>1, <1>2, PartitionGrows DEF PartitionInv
<1>4. QED
    BY <1>1, <1>3

\* Whatever a client does is broadcast in the active segment.
LEMMA PeersPartition ==
    ASSUME PartitionInv, NEW p \in Peers, PeerStep(p)
    PROVE  Partition(replay_log', segments', replay_tag')
<1>1. TypeInv /\ UNCHANGED <<segments, replay_tag>>
    BY PeersKeepSegments DEF PartitionInv, segmentVars
<1>2. \E methods : Logs(methods) /\ "segment_started" \notin methods
    <2>1. ASSUME NEW method, NEW session, forward_handshake(p, method, session)
          PROVE  Logs({})
        BY <1>1, <2>1, NothingLogged DEF forward_handshake, TypeInv
    <2>2. \/ Logs({"peer_joined"}) \/ Logs({}) \/ Logs({"session_busy"}) \/ Logs({"turn_cancelled"})
          \/ Logs({"peer_left", "queue_item_orphaned"}) \/ Logs({"agent_request_resolved"})
          \/ Logs({"turn_started"}) \/ Logs({"hard_steer_submitted", "turn_cancelled"})
          \/ Logs({"queue_item_added", "turn_started", "queue_item_submitted"})
          \/ Logs({"idle_steer_submitted", "turn_started", "queue_item_submitted"})
          \/ Logs({"queue_item_removed"})
        BY <1>1, <2>1, PeerLogs, QueueLogs DEF PeerStep
    <2>3. QED
        BY <2>2
<1>3. QED
    BY <1>1, <1>2, PartitionBroadcast

LEMMA SettlePartitions ==
    ASSUME PartitionInv, prompt_settles
    PROVE  Partition(replay_log', segments', replay_tag')
<1>1. TypeInv /\ queued_prompts \in Seq(QueuedPrompt) /\ UNCHANGED <<segments, replay_tag>>
    BY DEF PartitionInv, TypeInv, QueueType, prompt_settles, segmentVars
<1>2. Logs({"agent_request_resolved", "turn_complete", "queue_item_completed"} \cup
                {"turn_started", "queue_item_submitted"})
    BY <1>1, SettleLogs
<1>3. QED
    BY <1>1, <1>2, PartitionBroadcast

LEMMA PartitionKept == PartitionInv /\ [Next]_vars => PartitionInv'
<1> SUFFICES ASSUME PartitionInv, [Next]_vars
             PROVE  PartitionInv'
    OBVIOUS
<1>1. TypeInv /\ TypeInv'
    BY TypesKept DEF PartitionInv
<1>2. SUFFICES Partition(replay_log', segments', replay_tag')
    BY <1>1 DEF PartitionInv
<1>3. CASE UNCHANGED vars
    BY <1>3 DEF vars, segmentVars, PartitionInv
<1>4. CASE \E p \in Peers : PeerStep(p)
    BY <1>4, PeersPartition
<1>5. CASE prompt_settles
    BY <1>5, SettlePartitions
<1>6. ASSUME NEW m \in DOMAIN pending, handshake_succeeds(m)
      PROVE  Partition(replay_log', segments', replay_tag')
    <2>1. PICK session \in Sessions :
            set_canonical_session_id(session, pending[m].method = "session/load", <<>>)
        BY <1>1, <1>6 DEF handshake_succeeds, TypeInv, SlotType, PendingType
    <2>2. <<>> \in Seq(Frame) /\ (pending[m].method = "session/load") \in BOOLEAN
        OBVIOUS
    <2>3. QED
        BY <2>1, <2>2, MovePartitions
<1>7. ASSUME NEW m \in DOMAIN pending, handshake_fails(m)
      PROVE  Partition(replay_log', segments', replay_tag')
    BY <1>7 DEF handshake_fails, segmentVars, PartitionInv
<1>8. ASSUME NEW s \in Switches, handle_agent_notification(s)
      PROVE  Partition(replay_log', segments', replay_tag')
    <2> DEFINE f == frame("agent_notification", s, 0)
    <2>1. s \in MaybeSession
        BY RoomsConstantsOK DEF MaybeSession
    <2>2. f \in Frame /\ f.method = "agent_notification"
        BY <2>1 DEF frame, Frame
    <2>3. \/ s \in Sessions /\ set_canonical_session_id(s, FALSE, <<f>>)
          \/ broadcast(<<f>>) /\ UNCHANGED segmentVars
        BY <1>8, <2>1 DEF handle_agent_notification, MaybeSession
    <2> HIDE DEF f
    <2>4. <<f>> \in Seq(Frame)
        BY <2>2
    <2>5. CASE s \in Sessions /\ set_canonical_session_id(s, FALSE, <<f>>)
        BY <2>4, <2>5, MovePartitions
    <2>6. CASE broadcast(<<f>>) /\ UNCHANGED segmentVars
        BY <1>1, <2>2, <2>6, FrameLogged, PartitionBroadcast DEF segmentVars
    <2>7. QED
        BY <2>3, <2>5, <2>6
<1>9. ASSUME NEW a \in AskIds, handle_agent_request(a) \/ handle_agent_cancel(a)
      PROVE  Partition(replay_log', segments', replay_tag')
    <2>1. UNCHANGED <<segments, replay_tag>>
        BY <1>9 DEF handle_agent_request, handle_agent_cancel, segmentVars
    <2>2. Logs({"agent_request_opened"}) \/ Logs({"agent_cancel", "agent_request_resolved"})
        BY <1>1, <1>9, AgentLogs
    <2>3. QED
        BY <2>1, <2>2, PartitionBroadcast
<1>10. QED
    BY <1>3, <1>4, <1>5, <1>6, <1>7, <1>8, <1>9 DEF Next, AgentStep

\* A late joiner who is sent the frames of a segment gets exactly its stretch
\* of the log: rotate_segment leaves no frame between two segments or in two
\* of them, for any number of segments and frames.
THEOREM LogIsPartitioned == Spec => []SegmentsPartitionLog
<1>1. Init => PartitionInv
    <2>1. Init => Partition(replay_log, segments, replay_tag)
        BY DEF Init, Partition
    <2>2. QED
        BY <2>1, InitTypeInv DEF PartitionInv
<1>2. PartitionInv => SegmentsPartitionLog
    <2>1. SUFFICES ASSUME PartitionInv
                   PROVE  SegmentsPartitionLog
        OBVIOUS
    <2>2. Partition(replay_log, segments, replay_tag)
        BY <2>1 DEF PartitionInv
    <2>3. segments \in Seq(Segment)
        BY <2>1 DEF PartitionInv, TypeInv, SegmentType, Segment
    <2>4. Len(segments) \in Nat
        BY <2>3
    <2>5. QED
        BY <2>2, <2>4 DEF SegmentsPartitionLog, Partition
<1>3. QED
    BY <1>1, <1>2, PartitionKept, PTL DEF Spec

-----------------------------------------------------------------------------
(***************************************************************************)
(* What is announced when a peer leaves.                                   *)
(***************************************************************************)

\* Frame k of the sequence is about this item.
IsAbout(frames, id) == \E k \in 1..Len(frames) : frames[k].of = id

\* Every item of the peer among the first n of the queue is announced.
AllAnnounced(frames, n, p) ==
    \A i \in 1..n : queued_prompts[i].peer = p /\ queued_prompts[i].id # 0 =>
        IsAbout(frames, queued_prompts[i].id)

LEMMA AboutMore ==
    ASSUME NEW frames \in Seq(OrphanFrame), NEW f \in OrphanFrame
    PROVE  /\ Append(frames, f) \in Seq(OrphanFrame)
           /\ IsAbout(Append(frames, f), f.of)
           /\ \A id : IsAbout(frames, id) => IsAbout(Append(frames, f), id)
<1> DEFINE more == Append(frames, f)
<1>1. /\ more \in Seq(OrphanFrame) /\ Len(frames) \in Nat /\ Len(more) = Len(frames) + 1
      /\ more[Len(more)] = f
      /\ \A k \in 1..Len(frames) : more[k] = frames[k]
    BY AppendProperties
<1> HIDE DEF more
<1>2. Len(more) \in 1..Len(more) /\ \A k \in 1..Len(frames) : k \in 1..Len(more)
    BY <1>1
<1>3. IsAbout(more, f.of)
    BY <1>1, <1>2 DEF IsAbout
<1>4. \A id : IsAbout(frames, id) => IsAbout(more, id)
    BY <1>1, <1>2 DEF IsAbout
<1>5. QED
    BY <1>1, <1>3, <1>4 DEF more

LEMMA OrphansComplete ==
    ASSUME NEW p, queued_prompts \in Seq(QueuedPrompt)
    PROVE  AllAnnounced(orphans(p), Len(queued_prompts), p)
<1> DEFINE N == Len(queued_prompts)
<1>1. N \in Nat
    OBVIOUS
<1>2. PICK g : /\ g = [n \in 0..N |-> Announced(g, n, p)]
               /\ orphans(p) = g[N]
    BY <1>1, OrphansComputed
<1> DEFINE S == {m \in Nat : m <= N =>
                    g[m] \in Seq(OrphanFrame) /\ AllAnnounced(g[m], m, p)}
<1>3. 0 \in S
    <2>1. g[0] = <<>>
        BY <1>1, <1>2 DEF Announced
    <2>2. <<>> \in Seq(OrphanFrame) /\ AllAnnounced(<<>>, 0, p)
        BY DEF AllAnnounced
    <2>3. QED
        BY <2>1, <2>2
<1>4. ASSUME NEW m \in Nat, m \in S, m + 1 <= N
      PROVE  g[m + 1] \in Seq(OrphanFrame) /\ AllAnnounced(g[m + 1], m + 1, p)
    <2>1. g[m] \in Seq(OrphanFrame) /\ AllAnnounced(g[m], m, p)
        BY <1>1, <1>4
    <2>2. m + 1 \in 1..N /\ m + 1 # 0 /\ (m + 1) - 1 = m /\ \A i \in 1..m + 1 : i = m + 1 \/ i \in 1..m
        BY <1>1, <1>4
    <2> DEFINE item == queued_prompts[m + 1]
               f == frame("queue_item_orphaned", item.id, 0)
    <2>3. item \in QueuedPrompt
        BY <2>2
    <2>4. f \in OrphanFrame /\ f.of = item.id
        BY <2>3 DEF QueuedPrompt, frame, OrphanFrame
    <2>5. g[m + 1] = IF item.peer = p /\ item.id # 0 THEN Append(g[m], f) ELSE g[m]
        <3>1. g[m + 1] = Announced(g, m + 1, p)
            BY <1>1, <1>2, <2>2
        <3>2. QED
            BY <2>2, <3>1 DEF Announced
    <2>6. \A i \in 1..m + 1 : queued_prompts[i] = item \/ i \in 1..m
        BY <2>2
    <2> HIDE DEF item, f
    <2>7. CASE item.peer = p /\ item.id # 0
        <3> DEFINE more == Append(g[m], f)
        <3>1. /\ more \in Seq(OrphanFrame) /\ IsAbout(more, item.id)
              /\ \A id : IsAbout(g[m], id) => IsAbout(more, id)
            BY <2>1, <2>4, AboutMore
        <3> HIDE DEF more
        <3>2. AllAnnounced(more, m + 1, p)
            BY <2>1, <2>6, <3>1 DEF AllAnnounced
        <3>3. QED
            BY <2>5, <2>7, <3>1, <3>2 DEF more
    <2>8. CASE ~(item.peer = p /\ item.id # 0)
        <3>1. AllAnnounced(g[m], m + 1, p)
            BY <2>1, <2>6, <2>8 DEF AllAnnounced
        <3>2. QED
            BY <2>1, <2>5, <2>8, <3>1
    <2>9. QED
        BY <2>7, <2>8
<1>5. N \in S
    <2>1. \A m \in Nat : m \in S => m + 1 \in S
        BY <1>4
    <2> HIDE DEF S
    <2>2. QED
        BY <1>1, <1>3, <2>1, SetInduction
<1>6. QED
    BY <1>1, <1>2, <1>5

-----------------------------------------------------------------------------
(***************************************************************************)
(* Items of peers who have left are announced as orphaned.                 *)
(***************************************************************************)

OrphanMethods == {"queue_item_added", "peer_left", "queue_item_orphaned"}
Additions(log) == At(log, {"queue_item_added"})
Departures(log) == At(log, {"peer_left"})
Orphanings(log) == At(log, {"queue_item_orphaned"})

\* The item is announced after every departure of its peer.
OrphanTold(log, id, peer) ==
    \A added \in Additions(log) : \A left \in Departures(log) :
        log[added].frame.of = id /\ log[left].frame.of = peer /\ added < left =>
            \E k \in Orphanings(log) : left < k /\ log[k].frame.of = id

\* An item is waiting, or it is a steer, or it waited before.
Carried(queue, other) ==
    \A i \in DOMAIN other :
        \/ other[i].id = 0
        \/ \E j \in DOMAIN queue : other[i].id = queue[j].id /\ other[i].peer = queue[j].peer

Told(log, queue, next) ==
    /\ \A k \in Additions(log) : log[k].frame.of \in 1 .. next - 1
    /\ \A i \in DOMAIN queue :
        queue[i].id < next /\ OrphanTold(log, queue[i].id, queue[i].peer)

OrphanInv == TypeInv /\ Told(replay_log, queued_prompts, next_queue_item_id)

LEMMA ToldCarried ==
    ASSUME NEW log, NEW queue, NEW other, NEW next \in Nat \ {0}, Told(log, queue, next),
           Carried(queue, other)
    PROVE  Told(log, other, next)
<1>1. \A peer : OrphanTold(log, 0, peer)
    BY DEF Told, OrphanTold
<1>2. ASSUME NEW i \in DOMAIN other
      PROVE  other[i].id < next /\ OrphanTold(log, other[i].id, other[i].peer)
    <2>1. CASE other[i].id = 0
        BY <1>1, <2>1
    <2>2. ASSUME NEW j \in DOMAIN queue, other[i].id = queue[j].id, other[i].peer = queue[j].peer
          PROVE  other[i].id < next /\ OrphanTold(log, other[i].id, other[i].peer)
        BY <2>2 DEF Told
    <2>3. QED
        BY <2>1, <2>2 DEF Carried
<1>3. QED
    BY <1>2 DEF Told

LEMMA ToldIgnores ==
    ASSUME NEW log \in Seq(Entry), NEW new \in Seq(Entry), NEW queue, NEW next,
           Told(log, queue, next), Without_(new, OrphanMethods)
    PROVE  Told(log \o new, queue, next)
<1> DEFINE longer == log \o new
<1>1. /\ Without_(new, {"queue_item_added"}) /\ Without_(new, {"peer_left"})
      /\ Without_(new, {"queue_item_orphaned"})
    BY DEF Without_, OrphanMethods
<1>2. /\ Additions(longer) = Additions(log) /\ Departures(longer) = Departures(log)
      /\ Orphanings(longer) = Orphanings(log)
      /\ \A k \in Additions(log) : longer[k] = log[k]
      /\ \A k \in Departures(log) : longer[k] = log[k]
      /\ \A k \in Orphanings(log) : longer[k] = log[k]
    BY <1>1, PositionsStay DEF Additions, Departures, Orphanings
<1> HIDE DEF longer
<1>3. \A id, peer : OrphanTold(log, id, peer) => OrphanTold(longer, id, peer)
    BY <1>2 DEF OrphanTold
<1>4. Told(longer, queue, next)
    BY <1>2, <1>3 DEF Told
<1>5. QED
    BY <1>4 DEF longer

\* An item is added: nobody can have left since.
LEMMA ToldAdds ==
    ASSUME NEW log \in Seq(Entry), NEW f \in Frame, NEW tag \in Nat, NEW next \in Nat \ {0},
           NEW queue \in Seq(QueuedPrompt), NEW item \in QueuedPrompt, Told(log, queue, next),
           f.method = "queue_item_added", f.of = next, item.id = next
    PROVE  Told(log \o Tagged(<<f>>, tag), Append(queue, item), next + 1)
<1> DEFINE longer == log \o Tagged(<<f>>, tag)
           n == Len(log) + 1
           more == Append(queue, item)
<1>1. OneLonger(longer, log, f, n)
    BY OneMore
<1>2. /\ DOMAIN queue = 1..Len(queue) /\ Len(queue) \in Nat
      /\ \A i \in DOMAIN more : more[i] = item \/ (i \in DOMAIN queue /\ more[i] = queue[i])
    BY AppendProperties
<1> HIDE DEF longer, n, more
<1>3. n \in Nat /\ longer[n].frame = f
    BY <1>1 DEF OneLonger
<1>4. /\ Additions(longer) = Additions(log) \cup {n}
      /\ \A k \in Additions(log) : k \in Nat /\ k < n /\ longer[k] = log[k]
    BY <1>1, OneMoreAt DEF Additions
<1>5. /\ Departures(longer) = Departures(log)
      /\ \A k \in Departures(log) : k \in Nat /\ k < n /\ longer[k] = log[k]
    BY <1>1, OneMoreAt DEF Departures
<1>6. /\ Orphanings(longer) = Orphanings(log)
      /\ \A k \in Orphanings(log) : k \in Nat /\ k < n /\ longer[k] = log[k]
    BY <1>1, OneMoreAt DEF Orphanings
<1>7. \A k \in Additions(log) : longer[k].frame.of \in 1 .. next - 1
    BY <1>4 DEF Told
<1>8. \A k \in Additions(longer) : longer[k].frame.of \in 1 .. (next + 1) - 1
    BY <1>3, <1>4, <1>7
<1>9. \A peer : OrphanTold(longer, next, peer)
    BY <1>3, <1>4, <1>5, <1>7 DEF OrphanTold
<1>10. ASSUME NEW i \in DOMAIN queue
       PROVE  queue[i].id < next + 1 /\ OrphanTold(longer, queue[i].id, queue[i].peer)
    <2> DEFINE id == queue[i].id
               peer == queue[i].peer
    <2>1. id \in Nat
        <3>1. queue[i] \in QueuedPrompt
            BY <1>2
        <3>2. QED
            BY <3>1 DEF QueuedPrompt
    <2>2. id < next /\ OrphanTold(log, id, peer)
        BY DEF Told
    <2> HIDE DEF id, peer
    <2>3. longer[n].frame.of # id
        BY <1>3, <2>1, <2>2
    <2>4. OrphanTold(longer, id, peer)
        BY <1>4, <1>5, <1>6, <2>2, <2>3 DEF OrphanTold
    <2>5. QED
        BY <2>1, <2>2, <2>4 DEF id, peer
<1>11. Told(longer, more, next + 1)
    BY <1>2, <1>8, <1>9, <1>10 DEF Told
<1>12. QED
    BY <1>11 DEF longer, more

\* A peer leaves, and its items are announced.
LEMMA ToldLeaves ==
    ASSUME NEW log \in Seq(Entry), NEW f \in Frame, NEW told \in Seq(Frame), NEW tag \in Nat,
           NEW queue, NEW next, Told(log, queue, next), f.method = "peer_left",
           \A k \in 1..Len(told) : told[k].method = "queue_item_orphaned",
           \A i \in DOMAIN queue : queue[i].peer = f.of /\ queue[i].id # 0 =>
                IsAbout(told, queue[i].id), next \in Nat \ {0}
    PROVE  Told((log \o Tagged(<<f>>, tag)) \o Tagged(told, tag), queue, next)
<1> DEFINE first == log \o Tagged(<<f>>, tag)
           new == Tagged(told, tag)
           longer == first \o new
           n == Len(log) + 1
<1>1. OneLonger(first, log, f, n)
    BY OneMore
<1>2. /\ new \in Seq(Entry) /\ Len(new) = Len(told) /\ DOMAIN new = 1..Len(told)
      /\ Len(told) \in Nat
      /\ \A k \in 1..Len(told) : new[k].frame = told[k]
    BY TaggedType
<1>3. first \in Seq(Entry) /\ Len(first) = n /\ n \in Nat
    <2> DEFINE one == Tagged(<<f>>, tag)
    <2>1. one \in Seq(Entry) /\ Len(one) = 1
        BY One
    <2> HIDE DEF one
    <2>2. log \o one \in Seq(Entry)
        BY <2>1, Grown
    <2>3. Len(log) \in Nat /\ Len(log \o one) = Len(log) + Len(one)
        BY <2>1, Grown
    <2>4. Len(log \o one) = n /\ n \in Nat
        BY <2>1, <2>3
    <2>5. QED
        BY <2>2, <2>4 DEF one
<1> HIDE DEF first, new, n
<1>4. /\ Without_(new, {"queue_item_added"}) /\ Without_(new, {"peer_left"})
    BY <1>2 DEF Without_
<1>5. /\ \A k \in 1..n : longer[k] = first[k]
      /\ \A k \in 1..Len(new) : longer[n + k] = new[k]
      /\ DOMAIN longer = 1..n + Len(new) /\ DOMAIN first = 1..n
    <2>1. /\ DOMAIN longer = 1..Len(first) + Len(new) /\ DOMAIN first = 1..Len(first)
          /\ \A k \in 1..Len(first) : longer[k] = first[k]
          /\ \A k \in 1..Len(new) : longer[Len(first) + k] = new[k]
        BY <1>2, <1>3, Grown
    <2> HIDE DEF longer
    <2>2. QED
        BY <1>3, <2>1
<1>6. /\ Additions(longer) = Additions(first) /\ Departures(longer) = Departures(first)
      /\ \A k \in Additions(first) : longer[k] = first[k]
      /\ \A k \in Departures(first) : longer[k] = first[k]
    <2>1. /\ Additions(longer) = Additions(first)
          /\ \A k \in Additions(first) : longer[k] = first[k]
        BY <1>2, <1>3, <1>4, PositionsStay DEF Additions
    <2>2. /\ Departures(longer) = Departures(first)
          /\ \A k \in Departures(first) : longer[k] = first[k]
        BY <1>2, <1>3, <1>4, PositionsStay DEF Departures
    <2>3. QED
        BY <2>1, <2>2
<1> HIDE DEF longer
<1>7. first[n].frame = f
    BY <1>1 DEF OneLonger
<1>8. /\ Additions(first) = Additions(log)
      /\ \A k \in Additions(log) : k \in Nat /\ k < n /\ first[k] = log[k]
    BY <1>1, OneMoreAt DEF Additions
<1>9. /\ Departures(first) = Departures(log) \cup {n}
      /\ \A k \in Departures(log) : k \in Nat /\ k < n /\ first[k] = log[k]
    BY <1>1, OneMoreAt DEF Departures
<1>10. \A k \in Orphanings(log) : k \in Orphanings(longer) /\ longer[k] = log[k]
    BY <1>1, <1>2, <1>3, <1>5 DEF Orphanings, At, OneLonger
<1>11. \A k \in 1..Len(told) :
        n + k \in Orphanings(longer) /\ n < n + k /\ longer[n + k].frame = told[k]
    <2>1. TAKE k \in 1..Len(told)
    <2>2. n + k \in DOMAIN longer /\ n < n + k /\ longer[n + k] = new[k]
        BY <1>2, <1>3, <1>5
    <2>3. longer[n + k].frame = told[k]
        BY <1>2, <2>2
    <2>4. QED
        BY <2>2, <2>3 DEF Orphanings, At
<1>12. /\ Additions(longer) = Additions(log)
       /\ \A k \in Additions(log) : k \in Nat /\ longer[k] = log[k]
       /\ Departures(longer) = Departures(log) \cup {n}
       /\ \A k \in Departures(log) : k \in Nat /\ longer[k] = log[k] /\ k < n
       /\ longer[n].frame = f
    BY <1>6, <1>7, <1>8, <1>9
<1>13. ASSUME NEW id, NEW peer, OrphanTold(log, id, peer), peer # f.of
       PROVE  OrphanTold(longer, id, peer)
    <2>1. SUFFICES ASSUME NEW added \in Additions(longer), NEW left \in Departures(longer),
                          longer[added].frame.of = id, longer[left].frame.of = peer, added < left
                   PROVE  \E k \in Orphanings(longer) : left < k /\ longer[k].frame.of = id
        BY DEF OrphanTold
    <2>2. left # n
        BY <1>12, <1>13, <2>1
    <2>3. /\ added \in Additions(log) /\ left \in Departures(log)
          /\ log[added].frame.of = id /\ log[left].frame.of = peer
        BY <1>12, <2>1, <2>2
    <2>4. PICK k \in Orphanings(log) : left < k /\ log[k].frame.of = id
        BY <1>13, <2>1, <2>3 DEF OrphanTold
    <2>5. QED
        BY <1>10, <2>4
<1>14. ASSUME NEW id, NEW peer, IsAbout(told, id)
       PROVE  OrphanTold(longer, id, peer)
    <2>1. PICK k \in 1..Len(told) : told[k].of = id
        BY <1>14 DEF IsAbout
    <2>2. n + k \in Orphanings(longer) /\ n < n + k /\ longer[n + k].frame.of = id /\ n + k \in Nat
        BY <1>2, <1>3, <1>11, <2>1
    <2>3. \A left \in Departures(longer) : left < n + k
        BY <1>2, <1>3, <1>12, <2>2
    <2>4. QED
        BY <2>2, <2>3 DEF OrphanTold
<1>15. \A peer : OrphanTold(longer, 0, peer)
    BY <1>12 DEF OrphanTold, Told
<1>16. ASSUME NEW i \in DOMAIN queue
       PROVE  queue[i].id < next /\ OrphanTold(longer, queue[i].id, queue[i].peer)
    <2>1. queue[i].id < next /\ OrphanTold(log, queue[i].id, queue[i].peer)
        BY DEF Told
    <2>2. CASE queue[i].id = 0
        BY <1>15, <2>1, <2>2
    <2>3. CASE queue[i].id # 0 /\ queue[i].peer = f.of
        BY <1>14, <2>1, <2>3
    <2>4. CASE queue[i].peer # f.of
        BY <1>13, <2>1, <2>4
    <2>5. QED
        BY <2>2, <2>3, <2>4
<1>17. \A k \in Additions(longer) : longer[k].frame.of \in 1 .. next - 1
    BY <1>12 DEF Told
<1>18. Told(longer, queue, next)
    BY <1>16, <1>17 DEF Told
<1>19. QED
    BY <1>18 DEF longer, first, new

-----------------------------------------------------------------------------

LEMMA OrphanInit == Init => OrphanInv
<1>1. Init => Told(replay_log, queued_prompts, next_queue_item_id)
    BY DEF Init, Told, Additions, At
<1>2. QED
    BY <1>1, InitTypeInv DEF OrphanInv

\* Handlers that log nothing of the kind and add no item.
Bystander ==
    LogsOther(OrphanMethods) /\ Carried(queued_prompts, queued_prompts') /\ UNCHANGED next_queue_item_id

LEMMA ToldBystander ==
    ASSUME OrphanInv, Bystander
    PROVE  Told(replay_log', queued_prompts', next_queue_item_id')
<1>1. PICK new \in Seq(Entry) : replay_log' = replay_log \o new /\ Without_(new, OrphanMethods)
    BY DEF Bystander, LogsOther
<1>2. Told(replay_log, queued_prompts', next_queue_item_id)
    BY ToldCarried DEF OrphanInv, TypeInv, QueueType, Bystander
<1>3. Told(replay_log \o new, queued_prompts', next_queue_item_id)
    BY <1>1, <1>2, ToldIgnores DEF OrphanInv, TypeInv, LogType
<1>4. QED
    BY <1>1, <1>3 DEF Bystander

LEMMA SameCarried ==
    ASSUME NEW queue, NEW other, SameItems(queue, other)
    PROVE  Carried(queue, other)
BY DEF SameItems, Carried

\* The first item is taken off; a steer is put in front.
LEMMA TailCarried ==
    ASSUME NEW queue \in Seq(QueuedPrompt), queue # <<>>
    PROVE  Carried(queue, Tail(queue))
<1>1. \A i \in DOMAIN Tail(queue) : i + 1 \in DOMAIN queue /\ Tail(queue)[i] = queue[i + 1]
    OBVIOUS
<1>2. QED
    BY <1>1 DEF Carried

LEMMA SteerCarried ==
    ASSUME TypeInv, NEW steer \in QueuedPrompt, steer.id = 0
    PROVE  /\ PutFirst(steer) \in Seq(QueuedPrompt) /\ PutFirst(steer) # <<>>
           /\ Carried(queued_prompts, PutFirst(steer))
           /\ Carried(queued_prompts, Tail(PutFirst(steer)))
<1> DEFINE queue == queued_prompts
           longer == PutFirst(steer)
<1>1. queue \in Seq(QueuedPrompt)
    BY DEF TypeInv, QueueType
<1>2. /\ longer \in Seq(QueuedPrompt) /\ longer # <<>> /\ Len(queue) \in Nat
      /\ DOMAIN longer = 1 .. Len(queue) + 1 /\ DOMAIN queue = 1 .. Len(queue)
      /\ longer[1] = steer
      /\ \A i \in 1 .. Len(queue) : longer[i + 1] = queue[i]
    BY <1>1 DEF PutFirst, Cons
<1> HIDE DEF longer, queue
<1>3. \A i \in DOMAIN longer : longer[i] = steer \/ \E j \in DOMAIN queue : longer[i] = queue[j]
    <2>1. \A i \in DOMAIN longer : i = 1 \/ (i - 1 \in 1 .. Len(queue) /\ (i - 1) + 1 = i)
        BY <1>2
    <2>2. QED
        BY <1>2, <2>1
<1>4. \A i \in DOMAIN Tail(longer) : i + 1 \in DOMAIN longer /\ Tail(longer)[i] = longer[i + 1]
    BY <1>2
<1>5. Carried(queue, longer)
    BY <1>3 DEF Carried
<1>6. Carried(queue, Tail(longer))
    BY <1>4, <1>5 DEF Carried
<1>7. QED
    BY <1>2, <1>5, <1>6 DEF longer, queue

LEMMA ToldPeers ==
    ASSUME OrphanInv, NEW p \in Peers, PeerStep(p),
           p \in subscribers => ~handle_detach(p) /\ ~handle_detach_request(p),
           \A s \in ClientSessions : ~handle_rooms_queue_prompt_request(p, s)
    PROVE  Bystander
<1>1. LogsOther(OrphanMethods)
    <2>1. \A method, session : forward_handshake(p, method, session) => Logs({})
        BY NothingLogged DEF OrphanInv, TypeInv, forward_handshake
    <2>2. handle_detach(p) \/ handle_detach_request(p) => Logs({})
        BY NothingLogged DEF OrphanInv, TypeInv, handle_detach, handle_detach_request, detach
    <2>3. \/ Logs({"peer_joined"}) \/ Logs({}) \/ Logs({"session_busy"}) \/ Logs({"turn_cancelled"})
          \/ Logs({"turn_started"}) \/ Logs({"agent_request_resolved"})
          \/ Logs({"hard_steer_submitted", "turn_cancelled"})
          \/ Logs({"idle_steer_submitted", "turn_started", "queue_item_submitted"})
          \/ Logs({"queue_item_removed"})
        BY <2>1, <2>2, PeerLogs, QueueLogs DEF OrphanInv, PeerStep
    <2>4. QED
        BY <2>3, OthersLogged DEF OrphanMethods
<1>2. /\ queued_prompts \in Seq(QueuedPrompt) /\ TypeInv
      /\ active_rooms_turn_id \in Nat
      /\ \A s \in ClientSessions : ControlSession(s) \in MaybeSession
    BY SessionTypes DEF OrphanInv, TypeInv, QueueType, TurnType
<1>3. UNCHANGED next_queue_item_id
    BY DEF PeerStep, attach, ws_closes, handle_detach, handle_detach_request, forward_prompt,
           handle_rooms_steer_request, handle_rooms_idle_steer_request, session_busy,
           forward_handshake, handle_rooms_unqueue_prompt_request, cancel_active_turn,
           gate_subscriber_response, queueVars
<1>4. ASSUME NEW s \in ClientSessions, handle_rooms_steer_request(p, s)
      PROVE  Carried(queued_prompts, queued_prompts')
    <2> DEFINE steer == [id |-> 0, peer |-> p, session |-> ControlSession(s),
                         kind |-> "hard_steer", supersedes |-> active_rooms_turn_id]
    <2>1. queued_prompts' = PutFirst(steer)
        BY <1>4 DEF handle_rooms_steer_request
    <2>2. steer \in QueuedPrompt /\ steer.id = 0
        BY <1>2 DEF QueuedPrompt
    <2> HIDE DEF steer
    <2>3. QED
        BY <1>2, <2>1, <2>2, SteerCarried
<1>5. ASSUME NEW s \in ClientSessions, handle_rooms_idle_steer_request(p, s)
      PROVE  Carried(queued_prompts, queued_prompts')
    <2> DEFINE steer == [id |-> 0, peer |-> p, session |-> ControlSession(s),
                         kind |-> "prompt", supersedes |-> 0]
    <2>1. queued_prompts' = Tail(PutFirst(steer))
        BY <1>5 DEF handle_rooms_idle_steer_request, submit_next_queued_prompt
    <2>2. steer \in QueuedPrompt /\ steer.id = 0
        BY <1>2 DEF QueuedPrompt
    <2> HIDE DEF steer
    <2>3. QED
        BY <1>2, <2>1, <2>2, SteerCarried
<1>6. ASSUME handle_rooms_unqueue_prompt_request(p)
      PROVE  Carried(queued_prompts, queued_prompts')
    <2>1. PICK gone \in DOMAIN queued_prompts : queued_prompts' = RemoveAt(queued_prompts, gone)
        BY <1>6 DEF handle_rooms_unqueue_prompt_request
    <2> DEFINE queue == queued_prompts
               rest == RemoveAt(queue, gone)
    <2>2. gone \in 1..Len(queue) /\ Len(queue) \in Nat /\ DOMAIN queue = 1..Len(queue)
        BY <1>2
    <2>3. /\ DOMAIN rest = 1 .. Len(queue) - 1
          /\ \A i \in 1 .. Len(queue) - 1 : rest[i] = queue[IF i < gone THEN i ELSE i + 1]
        BY <1>2, <2>2, Removed
    <2> HIDE DEF rest, queue
    <2>4. \A i \in DOMAIN rest : \E j \in DOMAIN queue : rest[i] = queue[j]
        <3>1. \A i \in DOMAIN rest : (IF i < gone THEN i ELSE i + 1) \in DOMAIN queue
            BY <2>2, <2>3
        <3>2. QED
            BY <2>3, <3>1
    <2>5. Carried(queue, rest)
        BY <2>4 DEF Carried
    <2>6. QED
        BY <2>1, <2>5 DEF rest, queue
<1>7. Carried(queued_prompts, queued_prompts')
    <2>1. \/ UNCHANGED queued_prompts
          \/ \E s \in ClientSessions :
                handle_rooms_steer_request(p, s) \/ handle_rooms_idle_steer_request(p, s)
          \/ handle_rooms_unqueue_prompt_request(p)
        BY DEF PeerStep, attach, ws_closes, handle_detach, handle_detach_request, forward_prompt,
               session_busy, forward_handshake, cancel_active_turn, gate_subscriber_response,
               queueVars
    <2>2. QED
        BY <1>4, <1>5, <1>6, <2>1, SameItemsUnchanged, SameCarried
<1>8. QED
    BY <1>1, <1>3, <1>7 DEF Bystander

LEMMA ToldAgent ==
    ASSUME OrphanInv, AgentStep \/ UNCHANGED vars
    PROVE  Bystander
<1>1. TypeInv
    BY DEF OrphanInv
<1>2. CASE prompt_settles
    <2>1. LogsOther(OrphanMethods)
        BY <1>1, <1>2, SettleLogs, OthersLogged DEF OrphanMethods
    <2>2. queued_prompts' = queued_prompts \/ (queued_prompts # <<>> /\ queued_prompts' = Tail(queued_prompts))
        BY <1>2 DEF prompt_settles, submit_next_queued_prompt
    <2>3. Carried(queued_prompts, queued_prompts')
        BY <1>1, <2>2, TailCarried, SameItemsUnchanged, SameCarried DEF TypeInv, QueueType
    <2>4. QED
        BY <1>2, <2>1, <2>3 DEF Bystander, prompt_settles
<1>3. CASE UNCHANGED vars
    <2>1. LogsOther(OrphanMethods)
        BY <1>1, <1>3, NothingLogged, OthersLogged DEF vars, TypeInv
    <2>2. QED
        BY <1>3, <2>1, SameItemsUnchanged, SameCarried DEF Bystander, vars, queueVars
<1>4. CASE AgentStep /\ ~prompt_settles
    <2>1. UNCHANGED next_queue_item_id
        BY <1>4 DEF AgentStep, handshake_succeeds, handshake_fails, handle_agent_notification,
               handle_agent_request, handle_agent_cancel, queueVars
    <2>2. /\ \/ Logs({"segment_started", "segment_ended"}) \/ Logs({})
             \/ Logs({"segment_started", "segment_ended", "agent_notification"})
             \/ Logs({"agent_request_opened"}) \/ Logs({"agent_cancel", "agent_request_resolved"})
          /\ SameItems(queued_prompts, queued_prompts')
        BY <1>1, <1>4, AgentLogs DEF AgentStep
    <2>3. LogsOther(OrphanMethods)
        BY <2>2, OthersLogged DEF OrphanMethods
    <2>4. QED
        BY <2>1, <2>2, <2>3, SameCarried DEF Bystander
<1>5. QED
    BY <1>2, <1>3, <1>4

LEMMA ToldDetaches ==
    ASSUME OrphanInv, NEW p \in Peers, detach(p), p \in subscribers, UNCHANGED queueVars
    PROVE  Told(replay_log', queued_prompts', next_queue_item_id')
<1> DEFINE f == frame("peer_left", p, 0)
           told == orphans(p)
<1>1. broadcast(<<f>> \o told)
    BY DEF detach, on_subscriber_detached
<1>2. /\ TypeInv /\ queued_prompts \in Seq(QueuedPrompt) /\ next_queue_item_id \in Nat \ {0}
      /\ replay_log \in Seq(Entry) /\ replay_tag \in Nat
      /\ Told(replay_log, queued_prompts, next_queue_item_id)
    BY DEF OrphanInv, TypeInv, QueueType, LogType, SegmentType
<1>3. f \in Frame /\ f.method = "peer_left" /\ f.of = p
    BY DEF frame, Frame
<1>4. /\ told \in Seq(Frame)
      /\ \A k \in 1..Len(told) : told[k].method = "queue_item_orphaned"
    <2>1. told \in Seq(OrphanFrame)
        BY <1>2, OrphansType
    <2>2. \A o \in OrphanFrame : o \in Frame /\ o.method = "queue_item_orphaned"
        BY DEF OrphanFrame, Frame, QueueFrames
    <2> HIDE DEF told
    <2>3. QED
        BY <2>1, <2>2
<1>5. AllAnnounced(told, Len(queued_prompts), p)
    BY <1>2, OrphansComplete
<1> HIDE DEF f, told
<1>6. \A i \in DOMAIN queued_prompts :
            queued_prompts[i].peer = f.of /\ queued_prompts[i].id # 0 => IsAbout(told, queued_prompts[i].id)
    BY <1>2, <1>3, <1>5 DEF AllAnnounced
<1>7. <<f>> \in Seq(Frame)
    BY <1>3
<1>8. replay_log' = (replay_log \o Tagged(<<f>>, replay_tag)) \o Tagged(told, replay_tag)
    BY <1>1, <1>2, <1>4, <1>7, BroadcastPieces
<1>9. Told((replay_log \o Tagged(<<f>>, replay_tag)) \o Tagged(told, replay_tag),
           queued_prompts, next_queue_item_id)
    BY <1>2, <1>3, <1>4, <1>6, ToldLeaves
<1>10. QED
    BY <1>8, <1>9 DEF queueVars

LEMMA ToldQueues ==
    ASSUME OrphanInv, NEW p \in Peers, NEW s \in ClientSessions,
           handle_rooms_queue_prompt_request(p, s)
    PROVE  Told(replay_log', queued_prompts', next_queue_item_id')
<1>1. /\ TypeInv /\ queued_prompts \in Seq(QueuedPrompt) /\ next_queue_item_id \in Nat \ {0}
      /\ replay_log \in Seq(Entry) /\ replay_tag \in Nat
      /\ Told(replay_log, queued_prompts, next_queue_item_id)
      /\ ControlSession(s) \in MaybeSession
    BY SessionTypes DEF OrphanInv, TypeInv, QueueType, LogType, SegmentType
<1> DEFINE item == [id |-> next_queue_item_id, peer |-> p, session |-> ControlSession(s),
                    kind |-> "queue", supersedes |-> 0]
           queue == Append(queued_prompts, item)
           f == frame("queue_item_added", next_queue_item_id, 0)
           first == replay_log \o Tagged(<<f>>, replay_tag)
<1>2. /\ next_queue_item_id' = next_queue_item_id + 1
      /\ \/ submit_next_queued_prompt(queue, <<f>>, pending, per_request)
         \/ queued_prompts' = queue /\ broadcast(<<f>>)
    BY DEF handle_rooms_queue_prompt_request, Enqueued
<1>3. item \in QueuedPrompt /\ item.id = next_queue_item_id
    BY <1>1 DEF QueuedPrompt
<1>4. f \in Frame /\ f.method = "queue_item_added" /\ f.of = next_queue_item_id
    BY <1>1 DEF frame, Frame, QueueFrames
<1> HIDE DEF item, f
<1>5. queue \in Seq(QueuedPrompt) /\ queue # <<>>
    BY <1>1, <1>3, AppendProperties
<1>6. Told(first, queue, next_queue_item_id')
    BY <1>1, <1>2, <1>3, <1>4, ToldAdds
<1>7. <<f>> \in Seq(Frame)
    BY <1>4
<1> HIDE DEF queue
<1>8. CASE queued_prompts' = queue /\ broadcast(<<f>>)
    BY <1>6, <1>8 DEF broadcast
<1>9. CASE submit_next_queued_prompt(queue, <<f>>, pending, per_request)
    <2> DEFINE g == TurnStarted(Head(queue))
               last == Submitted(Head(queue))
               a == Tagged(<<g>>, replay_tag)
               b == Tagged(last, replay_tag)
    <2>1. /\ g \in Frame /\ last \in Seq(Frame) /\ a \in Seq(Entry) /\ b \in Seq(Entry)
          /\ first \in Seq(Entry) /\ first \o a \in Seq(Entry)
          /\ replay_log' = (first \o a) \o b
        BY <1>1, <1>5, <1>7, <1>9, SubmitPieces
    <2>2. Without_(a, OrphanMethods)
        <3>1. g.method = "turn_started"
            BY DEF TurnStarted, frame
        <3> HIDE DEF g
        <3>2. DOMAIN a = {1} /\ a[1].frame = g
            BY <1>1, <2>1, One
        <3>3. QED
            BY <3>1, <3>2 DEF Without_, OrphanMethods
    <2>3. Without_(b, OrphanMethods)
        <3>1. \A k \in 1..Len(last) : last[k].method = "queue_item_submitted"
            BY DEF Submitted, frame
        <3> HIDE DEF last
        <3>2. DOMAIN b = 1..Len(last) /\ \A k \in 1..Len(last) : b[k].frame = last[k]
            BY <1>1, <2>1, TaggedType
        <3>3. QED
            BY <3>1, <3>2 DEF Without_, OrphanMethods
    <2> HIDE DEF a, b, first
    <2>4. Told(first \o a, queue, next_queue_item_id')
        BY <1>6, <2>1, <2>2, ToldIgnores
    <2> DEFINE second == first \o a
    <2> HIDE DEF second
    <2>5. Told(second \o b, queue, next_queue_item_id')
        BY <2>1, <2>3, <2>4, ToldIgnores DEF second
    <2>6. Carried(queue, queued_prompts')
        BY <1>5, <1>9, TailCarried DEF submit_next_queued_prompt
    <2>7. next_queue_item_id' \in Nat \ {0}
        BY <1>1, <1>2
    <2>8. QED
        BY <2>1, <2>5, <2>6, <2>7, ToldCarried DEF second
<1>10. QED
    BY <1>2, <1>8, <1>9

LEMMA OrphansKept == OrphanInv /\ [Next]_vars => OrphanInv'
<1> SUFFICES ASSUME OrphanInv, [Next]_vars
             PROVE  OrphanInv'
    OBVIOUS
<1>1. TypeInv'
    BY TypesKept DEF OrphanInv
<1>2. ASSUME NEW p \in Peers, PeerStep(p)
      PROVE  Told(replay_log', queued_prompts', next_queue_item_id')
    <2>1. CASE p \in subscribers /\ (handle_detach(p) \/ handle_detach_request(p))
        BY <2>1, ToldDetaches DEF handle_detach, handle_detach_request
    <2>2. CASE \E s \in ClientSessions : handle_rooms_queue_prompt_request(p, s)
        BY <2>2, ToldQueues
    <2>3. QED
        BY <1>2, <2>1, <2>2, ToldPeers, ToldBystander
<1>3. ASSUME AgentStep \/ UNCHANGED vars
      PROVE  Told(replay_log', queued_prompts', next_queue_item_id')
    BY <1>3, ToldAgent, ToldBystander
<1>4. Told(replay_log', queued_prompts', next_queue_item_id')
    BY <1>2, <1>3 DEF Next
<1>5. QED
    BY <1>1, <1>4 DEF OrphanInv

LEMMA OrphanInvImplies == OrphanInv => OrphansAnnounced
<1> SUFFICES ASSUME OrphanInv
             PROVE  OrphansAnnounced
    OBVIOUS
<1>1. \A i \in DOMAIN queued_prompts :
            OrphanTold(replay_log, queued_prompts[i].id, queued_prompts[i].peer)
    BY DEF OrphanInv, Told
<1>2. QED
    BY <1>1 DEF OrphanTold, OrphansAnnounced, PositionsOf, Positions, FrameAt, Additions,
                Departures, Orphanings, At

\* Whenever a peer leaves, each of its items that goes on waiting is announced
\* as orphaned (on_subscriber_detached), however many there are and wherever
\* they stand.  Inductive because an item that is added is newer than every
\* departure in the log.
THEOREM OrphansAreAnnounced == Spec => []OrphansAnnounced
BY OrphanInit, OrphansKept, OrphanInvImplies, PTL DEF Spec

-----------------------------------------------------------------------------
(***************************************************************************)
(* With an agent that asks nothing nobody is dropped without a word: what  *)
(* fanout forgets is the only way out that is not told (RoomsDropped).     *)
(***************************************************************************)

PresenceMethods == {"peer_joined", "peer_left"}
Arrivals(log) == At(log, {"peer_joined"})

\* The last the log says of the peer is that it joined.
Present(log, p) ==
    \E k \in Arrivals(log) :
        /\ log[k].frame.of = p
        /\ \A j \in Departures(log) : log[j].frame.of = p => j < k

PresentAre(log, subs) == \A p \in Peers : Present(log, p) <=> p \in subs

PresenceInv == TypeInv /\ PresentAre(replay_log, subscribers)

LEMMA PresenceIgnores ==
    ASSUME NEW log \in Seq(Entry), NEW new \in Seq(Entry), NEW subs, PresentAre(log, subs),
           Without_(new, PresenceMethods)
    PROVE  PresentAre(log \o new, subs)
<1> DEFINE longer == log \o new
<1>1. Without_(new, {"peer_joined"}) /\ Without_(new, {"peer_left"})
    BY DEF Without_, PresenceMethods
<1>2. /\ Arrivals(longer) = Arrivals(log) /\ \A k \in Arrivals(log) : longer[k] = log[k]
      /\ Departures(longer) = Departures(log) /\ \A k \in Departures(log) : longer[k] = log[k]
    <2>1. Arrivals(longer) = Arrivals(log) /\ \A k \in Arrivals(log) : longer[k] = log[k]
        BY <1>1, PositionsStay DEF Arrivals
    <2>2. Departures(longer) = Departures(log) /\ \A k \in Departures(log) : longer[k] = log[k]
        BY <1>1, PositionsStay DEF Departures
    <2>3. QED
        BY <2>1, <2>2
<1> HIDE DEF longer
<1>3. \A p : Present(longer, p) <=> Present(log, p)
    BY <1>2 DEF Present
<1>4. QED
    BY <1>3 DEF PresentAre, longer

\* A peer joins, or leaves.
LEMMA PresenceTold ==
    ASSUME NEW log \in Seq(Entry), NEW f \in Frame, NEW tag \in Nat, NEW subs, PresentAre(log, subs),
           f.method \in PresenceMethods
    PROVE  PresentAre(log \o Tagged(<<f>>, tag),
                      IF f.method = "peer_joined" THEN subs \cup {f.of} ELSE subs \ {f.of})
<1> DEFINE longer == log \o Tagged(<<f>>, tag)
           n == Len(log) + 1
<1>1. OneLonger(longer, log, f, n)
    BY OneMore
<1> HIDE DEF longer, n
<1>2. n \in Nat /\ longer[n].frame = f
    BY <1>1 DEF OneLonger
<1>3. /\ f.method = "peer_joined" => Arrivals(longer) = Arrivals(log) \cup {n}
      /\ f.method # "peer_joined" => Arrivals(longer) = Arrivals(log)
      /\ \A k \in Arrivals(log) : k \in Nat /\ k < n /\ longer[k] = log[k]
    BY <1>1, OneMoreAt DEF Arrivals
<1>4. /\ f.method = "peer_left" => Departures(longer) = Departures(log) \cup {n}
      /\ f.method # "peer_left" => Departures(longer) = Departures(log)
      /\ \A k \in Departures(log) : k \in Nat /\ k < n /\ longer[k] = log[k]
    BY <1>1, OneMoreAt DEF Departures
<1>5. ASSUME NEW p \in Peers, p # f.of
      PROVE  Present(longer, p) <=> Present(log, p)
    <2>1. ASSUME NEW k
          PROVE  /\ k \in Arrivals(longer) /\ longer[k].frame.of = p
                    <=> k \in Arrivals(log) /\ log[k].frame.of = p
                 /\ k \in Departures(longer) /\ longer[k].frame.of = p
                    <=> k \in Departures(log) /\ log[k].frame.of = p
        BY <1>2, <1>3, <1>4, <1>5 DEF PresenceMethods
    <2>2. QED
        BY <2>1 DEF Present
<1>6. CASE f.method = "peer_joined"
    <2>1. Present(longer, f.of)
        <3>1. n \in Arrivals(longer) /\ longer[n].frame.of = f.of
            BY <1>2, <1>3, <1>6
        <3>2. \A j \in Departures(longer) : j < n
            BY <1>4, <1>6
        <3>3. QED
            BY <3>1, <3>2 DEF Present
    <2>2. PresentAre(longer, subs \cup {f.of})
        BY <1>5, <2>1 DEF PresentAre
    <2>3. QED
        BY <1>6, <2>2 DEF longer
<1>7. CASE f.method = "peer_left"
    <2>1. ~Present(longer, f.of)
        <3>1. n \in Departures(longer) /\ longer[n].frame.of = f.of
            BY <1>2, <1>4, <1>7
        <3>2. \A k \in Arrivals(longer) : ~(n < k)
            BY <1>2, <1>3, <1>7
        <3>3. QED
            BY <3>1, <3>2 DEF Present
    <2>2. PresentAre(longer, subs \ {f.of})
        BY <1>5, <2>1 DEF PresentAre
    <2>3. QED
        BY <1>7, <2>2 DEF longer
<1>8. QED
    BY <1>6, <1>7 DEF PresenceMethods

LEMMA PresenceInit == Init => PresenceInv
<1>1. Init => PresentAre(replay_log, subscribers)
    BY DEF Init, PresentAre, Present, Arrivals, At
<1>2. QED
    BY <1>1, InitTypeInv DEF PresenceInv

\* Handlers that attach and detach nobody.
LEMMA OthersStay ==
    ASSUME TypeInv, AskIds = {},
           \/ AgentStep \/ UNCHANGED vars
           \/ \E p \in Peers : /\ PeerStep(p) /\ ~attach(p)
                               /\ p \in subscribers => ~handle_detach(p) /\ ~handle_detach_request(p)
    PROVE  LogsOther(PresenceMethods) /\ UNCHANGED subscribers
<1>1. ASSUME UNCHANGED vars
      PROVE  LogsOther(PresenceMethods) /\ UNCHANGED subscribers
    BY <1>1, NothingLogged, OthersLogged DEF vars, connVars, TypeInv
<1>2. ASSUME AgentStep
      PROVE  LogsOther(PresenceMethods) /\ UNCHANGED subscribers
    <2>1. \/ prompt_settles
          \/ \E m \in DOMAIN pending : handshake_succeeds(m) \/ handshake_fails(m)
          \/ \E s \in Switches : handle_agent_notification(s)
        BY <1>2 DEF AgentStep
    <2>2. \/ Logs({"agent_request_resolved", "turn_complete", "queue_item_completed"} \cup
                    {"turn_started", "queue_item_submitted"})
          \/ Logs({"segment_started", "segment_ended"}) \/ Logs({})
          \/ Logs({"segment_started", "segment_ended", "agent_notification"})
        BY <2>1, SettleLogs, AgentLogs
    <2>3. LogsOther(PresenceMethods)
        BY <2>2, OthersLogged DEF PresenceMethods
    <2>4. UNCHANGED subscribers
        BY <2>1 DEF prompt_settles, handshake_succeeds, handshake_fails, handle_agent_notification,
               connVars
    <2>5. QED
        BY <2>3, <2>4
<1>3. ASSUME NEW p \in Peers, PeerStep(p), ~attach(p),
             p \in subscribers => ~handle_detach(p) /\ ~handle_detach_request(p)
      PROVE  LogsOther(PresenceMethods) /\ UNCHANGED subscribers
    <2>1. \A method, session : forward_handshake(p, method, session) => Logs({})
        BY NothingLogged DEF TypeInv, forward_handshake
    <2>2. handle_detach(p) \/ handle_detach_request(p) => Logs({})
        BY <1>3, NothingLogged DEF TypeInv, handle_detach, handle_detach_request, detach
    <2>3. \/ Logs({}) \/ Logs({"session_busy"}) \/ Logs({"turn_cancelled"})
          \/ Logs({"turn_started"}) \/ Logs({"agent_request_resolved"})
          \/ Logs({"queue_item_added", "turn_started", "queue_item_submitted"})
          \/ Logs({"hard_steer_submitted", "turn_cancelled"})
          \/ Logs({"idle_steer_submitted", "turn_started", "queue_item_submitted"})
          \/ Logs({"queue_item_removed"})
        BY <1>3, <2>1, <2>2, PeerLogs, QueueLogs DEF PeerStep
    <2>4. LogsOther(PresenceMethods)
        BY <2>3, OthersLogged DEF PresenceMethods
    <2>5. UNCHANGED subscribers
        BY <1>3 DEF PeerStep, ws_closes, handle_detach, handle_detach_request, detach, forward_prompt,
               handle_rooms_queue_prompt_request, handle_rooms_steer_request,
               handle_rooms_idle_steer_request, session_busy, forward_handshake,
               handle_rooms_unqueue_prompt_request, cancel_active_turn, gate_subscriber_response,
               connVars
    <2>6. QED
        BY <2>4, <2>5
<1>4. QED
    BY <1>1, <1>2, <1>3

LEMMA PresenceKept ==
    ASSUME AskIds = {}
    PROVE  PresenceInv /\ [Next]_vars => PresenceInv'
<1> SUFFICES ASSUME PresenceInv, [Next]_vars
             PROVE  PresenceInv'
    OBVIOUS
<1>1. TypeInv /\ TypeInv' /\ replay_log \in Seq(Entry) /\ replay_tag \in Nat
      /\ PresentAre(replay_log, subscribers)
    BY TypesKept DEF PresenceInv, TypeInv, LogType, SegmentType
<1>2. ASSUME LogsOther(PresenceMethods), UNCHANGED subscribers
      PROVE  PresentAre(replay_log', subscribers')
    BY <1>1, <1>2, PresenceIgnores DEF LogsOther
<1>3. ASSUME NEW p \in Peers, attach(p)
      PROVE  PresentAre(replay_log', subscribers')
    <2> DEFINE f == frame("peer_joined", p, 0)
    <2>1. f \in Frame /\ f.method = "peer_joined" /\ f.of = p
        BY DEF frame, Frame
    <2>2. broadcast(<<f>>) /\ subscribers' = subscribers \cup {f.of}
        BY <1>3, <2>1 DEF attach
    <2> HIDE DEF f
    <2>3. PresentAre(replay_log \o Tagged(<<f>>, replay_tag), subscribers \cup {f.of})
        BY <1>1, <2>1, PresenceTold DEF PresenceMethods
    <2>4. QED
        BY <2>2, <2>3 DEF broadcast
<1>4. ASSUME NEW p \in Peers, p \in subscribers, handle_detach(p) \/ handle_detach_request(p)
      PROVE  PresentAre(replay_log', subscribers')
    <2> DEFINE f == frame("peer_left", p, 0)
               told == orphans(p)
               first == replay_log \o Tagged(<<f>>, replay_tag)
    <2>1. broadcast(<<f>> \o told) /\ subscribers' = subscribers \ {p}
        BY <1>4 DEF handle_detach, handle_detach_request, detach, on_subscriber_detached
    <2>2. f \in Frame /\ f.method = "peer_left" /\ f.of = p
        BY DEF frame, Frame
    <2>3. told \in Seq(Frame) /\ \A k \in 1..Len(told) : told[k].method \notin PresenceMethods
        <3>1. told \in Seq(OrphanFrame)
            BY <1>1, OrphansType DEF TypeInv, QueueType
        <3>2. \A o \in OrphanFrame : o \in Frame /\ o.method \notin PresenceMethods
            BY DEF OrphanFrame, Frame, QueueFrames, PresenceMethods
        <3> HIDE DEF told
        <3>3. QED
            BY <3>1, <3>2
    <2> HIDE DEF f, told
    <2>4. <<f>> \in Seq(Frame)
        BY <2>2
    <2>5. /\ replay_log' = first \o Tagged(told, replay_tag)
          /\ first \in Seq(Entry) /\ Tagged(told, replay_tag) \in Seq(Entry)
        BY <1>1, <2>1, <2>3, <2>4, BroadcastPieces
    <2>6. PresentAre(first, subscribers \ {f.of})
        BY <1>1, <2>2, PresenceTold DEF PresenceMethods
    <2>7. Without_(Tagged(told, replay_tag), PresenceMethods)
        BY <1>1, <2>3, TaggedType DEF Without_
    <2> HIDE DEF first
    <2> DEFINE new == Tagged(told, replay_tag)
    <2> HIDE DEF new
    <2>8. PresentAre(first \o new, subscribers \ {f.of})
        BY <2>5, <2>6, <2>7, PresenceIgnores DEF new
    <2>9. QED
        BY <2>1, <2>2, <2>5, <2>8 DEF new
<1>5. PresentAre(replay_log', subscribers')
    BY <1>1, <1>2, <1>3, <1>4, OthersStay DEF Next
<1>6. QED
    BY <1>1, <1>5 DEF PresenceInv

LEMMA PresenceInvImplies == PresenceInv => PresenceInLog
<1> SUFFICES ASSUME PresenceInv, NEW p \in Peers
             PROVE  LET Here == \E k \in PositionsOf("peer_joined", p) :
                                    \A j \in PositionsOf("peer_left", p) : j < k
                    IN (p \in subscribers => Here) /\ (conns[p] = "out" => ~Here)
    BY DEF PresenceInLog
<1>1. (\E k \in PositionsOf("peer_joined", p) : \A j \in PositionsOf("peer_left", p) : j < k)
        <=> Present(replay_log, p)
    BY DEF Present, PositionsOf, Positions, FrameAt, Arrivals, Departures, At
<1>2. Present(replay_log, p) <=> p \in subscribers
    BY DEF PresenceInv, PresentAre
<1>3. conns[p] = "out" => p \notin subscribers
    BY DEF PresenceInv, TypeInv, ConnsType
<1>4. QED
    BY <1>1, <1>2, <1>3

\* The log tells who is in the room: the last it says of a subscriber is that
\* it joined, and of a peer whose connection is gone that it left, as long as
\* the agent asks nothing (on_subscriber_attached, on_subscriber_detached).
THEOREM LogTellsPresence ==
    ASSUME AskIds = {}
    PROVE  Spec => []PresenceInLog
BY PresenceInit, PresenceKept, PresenceInvImplies, PTL DEF Spec

-----------------------------------------------------------------------------
(***************************************************************************)
(* The session list.                                                       *)
(***************************************************************************)

\* What the index says of this room's canonical session.
Current(index, session, subs, driver) ==
    /\ session # None /\ subs # {} =>
            index[session] = [count |-> Cardinality(subs), driver |-> driver]
    /\ driver \in subs \cup {None}

IndexInv ==
    /\ TypeInv
    /\ Current(session_list_index, canonical_session_id, subscribers, driving_subscriber_peer_id)

\* Published is current.
LEMMA PublishedIsCurrent ==
    ASSUME TypeInv, NEW session \in MaybeSession, NEW subs, NEW driver \in subs \cup {None}
    PROVE  Current(publish_session_list_metadata(session, subs, driver), session, subs, driver)
<1>1. session # None => session \in DOMAIN session_list_index
    BY DEF TypeInv, ListType, Listing, MaybeSession
<1>2. QED
    BY <1>1 DEF publish_session_list_metadata, Current

CurrentNext ==
    Current(session_list_index', canonical_session_id', subscribers', driving_subscriber_peer_id')

LEMMA NotedIsCurrent ==
    ASSUME IndexInv, NEW p, note_driving_subscriber(p), UNCHANGED <<subscribers, canonical_session_id>>
    PROVE  CurrentNext
<1>1. CASE p \in subscribers /\ driving_subscriber_peer_id # p
    <2>1. /\ driving_subscriber_peer_id' = p
          /\ session_list_index' = publish_session_list_metadata(canonical_session_id, subscribers, p)
        BY <1>1 DEF note_driving_subscriber
    <2>2. canonical_session_id \in MaybeSession
        BY DEF IndexInv, TypeInv, SegmentType
    <2>3. QED
        BY <1>1, <2>1, <2>2, PublishedIsCurrent DEF IndexInv, CurrentNext
<1>2. CASE ~(p \in subscribers /\ driving_subscriber_peer_id # p)
    BY <1>2 DEF note_driving_subscriber, IndexInv, CurrentNext, listVars
<1>3. QED
    BY <1>1, <1>2

LEMMA MovedIsCurrent ==
    ASSUME IndexInv, NEW session \in Sessions, NEW via_load, NEW frames,
           set_canonical_session_id(session, via_load, frames),
           UNCHANGED <<subscribers, driving_subscriber_peer_id>>
    PROVE  CurrentNext
<1>1. /\ canonical_session_id' = session
      /\ session_list_index' =
            IF canonical_session_id # session \/ via_load
            THEN publish_session_list_metadata(session, subscribers, driving_subscriber_peer_id)
            ELSE session_list_index
    BY DEF set_canonical_session_id
<1>2. driving_subscriber_peer_id \in subscribers \cup {None} /\ session \in MaybeSession
    BY DEF IndexInv, Current, MaybeSession
<1>3. QED
    BY <1>1, <1>2, PublishedIsCurrent DEF IndexInv, CurrentNext

LEMMA IndexPeers ==
    ASSUME IndexInv, NEW p \in Peers, PeerStep(p)
    PROVE  CurrentNext
<1>1. /\ TypeInv /\ canonical_session_id \in MaybeSession
      /\ driving_subscriber_peer_id \in subscribers \cup {None}
    BY DEF IndexInv, TypeInv, SegmentType, Current
<1>2. CASE attach(p)
    <2>1. /\ subscribers' = subscribers \cup {p}
          /\ session_list_index' = publish_session_list_metadata(canonical_session_id, subscribers',
                                                                 driving_subscriber_peer_id)
          /\ UNCHANGED <<canonical_session_id, driving_subscriber_peer_id>>
        BY <1>2 DEF attach, segmentVars
    <2>2. driving_subscriber_peer_id \in subscribers' \cup {None}
        BY <1>1, <2>1
    <2>3. QED
        BY <1>1, <2>1, <2>2, PublishedIsCurrent DEF CurrentNext
<1>3. CASE handle_detach(p) \/ handle_detach_request(p)
    <2>1. detach(p) /\ UNCHANGED canonical_session_id
        BY <1>3 DEF handle_detach, handle_detach_request, segmentVars
    <2>2. CASE p \in subscribers
        <3>1. /\ subscribers' = subscribers \ {p}
              /\ driving_subscriber_peer_id' =
                    IF driving_subscriber_peer_id = p THEN None ELSE driving_subscriber_peer_id
              /\ session_list_index' = publish_session_list_metadata(canonical_session_id, subscribers',
                                                                     driving_subscriber_peer_id')
            BY <2>1, <2>2 DEF detach, on_subscriber_detached
        <3>2. driving_subscriber_peer_id' \in subscribers' \cup {None}
            BY <1>1, <3>1
        <3>3. QED
            BY <1>1, <2>1, <3>1, <3>2, PublishedIsCurrent DEF CurrentNext
    <2>3. CASE p \notin subscribers
        <3>1. subscribers' = subscribers /\ UNCHANGED listVars
            BY <2>1, <2>3 DEF detach
        <3>2. QED
            BY <2>1, <3>1 DEF listVars, IndexInv, CurrentNext
    <2>4. QED
        BY <2>2, <2>3
<1>4. CASE UNCHANGED <<subscribers, canonical_session_id>> /\ \E q : note_driving_subscriber(q)
    BY <1>4, NotedIsCurrent
<1>5. CASE UNCHANGED <<subscribers, canonical_session_id, listVars>>
    BY <1>5 DEF listVars, IndexInv, CurrentNext
<1> DEFINE Moves == UNCHANGED <<subscribers, canonical_session_id>> /\ \E q : note_driving_subscriber(q)
           Rests == UNCHANGED <<subscribers, canonical_session_id, listVars>>
<1>6. \A s \in ClientSessions :
        /\ forward_prompt(p, s) => Moves
        /\ handle_rooms_queue_prompt_request(p, s) => Moves \/ Rests
        /\ handle_rooms_idle_steer_request(p, s) => Moves
        /\ handle_rooms_steer_request(p, s) => Rests
    <2> SUFFICES ASSUME NEW s \in ClientSessions
                 PROVE  /\ forward_prompt(p, s) => Moves
                        /\ handle_rooms_queue_prompt_request(p, s) => Moves \/ Rests
                        /\ handle_rooms_idle_steer_request(p, s) => Moves
                        /\ handle_rooms_steer_request(p, s) => Rests
        OBVIOUS
    <2>1. \A queue, before, others, data :
            submit_next_queued_prompt(queue, before, others, data) =>
                \E q : note_driving_subscriber(q)
        BY DEF submit_next_queued_prompt
    <2>2. forward_prompt(p, s) => Moves
        BY DEF forward_prompt, connVars, segmentVars
    <2>3. handle_rooms_queue_prompt_request(p, s) => Moves \/ Rests
        BY <2>1 DEF handle_rooms_queue_prompt_request, connVars, segmentVars
    <2>4. handle_rooms_idle_steer_request(p, s) => Moves
        BY <2>1 DEF handle_rooms_idle_steer_request, connVars, segmentVars
    <2>5. handle_rooms_steer_request(p, s) => Rests
        BY DEF handle_rooms_steer_request, connVars, segmentVars
    <2>6. QED
        BY <2>2, <2>3, <2>4, <2>5
<1>7. \A method, session : forward_handshake(p, method, session) => Moves
    BY DEF forward_handshake, connVars, segmentVars
<1>8. ws_closes(p) \/ session_busy(p) \/ handle_rooms_unqueue_prompt_request(p) => Rests
    BY DEF ws_closes, session_busy, handle_rooms_unqueue_prompt_request, connVars, segmentVars
<1>9. cancel_active_turn(p) \/ (\E a \in AskIds : gate_subscriber_response(p, a)) => Rests
    BY DEF cancel_active_turn, gate_subscriber_response, connVars, segmentVars
<1>10. \/ attach(p) \/ handle_detach(p) \/ handle_detach_request(p)
       \/ Moves \/ Rests
    BY <1>6, <1>7, <1>8, <1>9 DEF PeerStep
<1>11. QED
    BY <1>2, <1>3, <1>4, <1>5, <1>10

LEMMA IndexAgent ==
    ASSUME IndexInv, AskIds = {}, AgentStep
    PROVE  CurrentNext
<1>1. CASE prompt_settles
    <2>1. /\ UNCHANGED <<subscribers, canonical_session_id>>
          /\ UNCHANGED listVars \/ \E q : note_driving_subscriber(q)
        BY <1>1 DEF prompt_settles, submit_next_queued_prompt, connVars, segmentVars, listVars
    <2>2. QED
        BY <2>1, NotedIsCurrent DEF listVars, IndexInv, CurrentNext
<1>2. ASSUME NEW m \in DOMAIN pending, handshake_succeeds(m)
      PROVE  CurrentNext
    <2>1. pending[m].method = "session/load" => pending[m].session \in Sessions
        BY DEF IndexInv, TypeInv, SlotType, PendingType
    <2>2. \E session \in Sessions :
            set_canonical_session_id(session, pending[m].method = "session/load", <<>>)
        BY <1>2, <2>1 DEF handshake_succeeds
    <2>3. UNCHANGED <<subscribers, driving_subscriber_peer_id>>
        BY <1>2 DEF handshake_succeeds, connVars
    <2>4. QED
        BY <2>2, <2>3, MovedIsCurrent
<1>3. ASSUME NEW m \in DOMAIN pending, handshake_fails(m)
      PROVE  CurrentNext
    BY <1>3 DEF handshake_fails, connVars, segmentVars, listVars, IndexInv, CurrentNext
<1>4. ASSUME NEW s \in Switches, handle_agent_notification(s)
      PROVE  CurrentNext
    <2>1. UNCHANGED <<subscribers, driving_subscriber_peer_id>>
        BY <1>4 DEF handle_agent_notification, connVars
    <2>2. CASE canonical_session_id # None /\ s \notin {None, canonical_session_id}
        <3>1. s \in Sessions
            BY <2>2, RoomsConstantsOK DEF MaybeSession
        <3>2. set_canonical_session_id(s, FALSE, <<frame("agent_notification", s, 0)>>)
            BY <1>4, <2>2 DEF handle_agent_notification
        <3>3. QED
            BY <2>1, <3>1, <3>2, MovedIsCurrent
    <2>3. CASE ~(canonical_session_id # None /\ s \notin {None, canonical_session_id})
        <3>1. UNCHANGED <<canonical_session_id, session_list_index>>
            BY <1>4, <2>3 DEF handle_agent_notification, segmentVars
        <3>2. QED
            BY <2>1, <3>1 DEF IndexInv, CurrentNext
    <2>4. QED
        BY <2>2, <2>3
<1>5. QED
    BY <1>1, <1>2, <1>3, <1>4 DEF AgentStep

LEMMA IndexInit == Init => IndexInv
<1>1. Init => Current(session_list_index, canonical_session_id, subscribers, driving_subscriber_peer_id)
    BY DEF Init, Current
<1>2. QED
    BY <1>1, InitTypeInv DEF IndexInv

LEMMA IndexKept ==
    ASSUME AskIds = {}
    PROVE  IndexInv /\ [Next]_vars => IndexInv'
<1> SUFFICES ASSUME IndexInv, [Next]_vars
             PROVE  IndexInv'
    OBVIOUS
<1>1. TypeInv'
    BY TypesKept DEF IndexInv
<1>2. ASSUME UNCHANGED vars
      PROVE  CurrentNext
    BY <1>2 DEF vars, connVars, segmentVars, listVars, IndexInv, CurrentNext
<1>3. CurrentNext
    BY <1>2, IndexPeers, IndexAgent DEF Next
<1>4. QED
    BY <1>1, <1>3 DEF IndexInv, CurrentNext

LEMMA IndexInvImplies == IndexInv => IndexIsCurrent
BY DEF IndexInv, Current, IndexIsCurrent

\* While somebody is attached the session list has the canonical session with
\* the right count and a driver who is there, as long as the agent asks
\* nothing (publish_session_list_metadata and its callers).
THEOREM SessionListIsCurrent ==
    ASSUME AskIds = {}
    PROVE  Spec => []IndexIsCurrent
BY IndexInit, IndexKept, IndexInvImplies, PTL DEF Spec

-----------------------------------------------------------------------------
(***************************************************************************)
(* What an attach is shown of the log.                                     *)
(***************************************************************************)

LEMMA ViewType ==
    ASSUME TypeOK, NEW full_lineage
    PROVE  replay_history(replay_log, Len(segments), active_rooms_turn_id, full_lineage) \in Seq(Entry)
BY KeptPositions DEF replay_history, TypeOK, Entry

\* A streamed newest_turn_first replay of any log is what the response would
\* have held (newest_turn_first_history and replay_stream_phases): the
\* history is in the order in which filing it again leaves it, so that its
\* groups are the same ones, and it rearranges the view.
THEOREM PhasesMakeTheHistory == Spec => []PhasesAreTheHistory
<1>1. TypeOK => PhasesAreTheHistory
    <2> SUFFICES ASSUME TypeOK PROVE PhasesAreTheHistory
        OBVIOUS
    <2>1. FullView \in Seq(Entry) /\ Lineage \in Seq(Entry)
        BY ViewType DEF FullView, Lineage
    <2>2. ASSUME NEW view \in Seq(Entry)
          PROVE  LET history == newest_turn_first_history(view)
                     phases == replay_stream_phases("newest_turn_first", history)
                 IN /\ FlattenSeq([k \in DOMAIN phases |-> phases[k].frames]) = history
                    /\ Len(history) = Len(view) /\ ToSet(history) = ToSet(view)
        <3> DEFINE history == newest_turn_first_history(view)
        <3>1. history \in Stable(Entry) /\ history \in Seq(Entry)
            BY NewestIsInOrder, NewestTurnFirst
        <3>2. Len(history) = Len(view) /\ ToSet(history) = ToSet(view)
            BY NewestTurnFirst DEF SameEntries
        <3> HIDE DEF history
        <3> DEFINE phases == replay_stream_phases("newest_turn_first", history)
        <3>3. FlattenSeq([k \in DOMAIN phases |-> phases[k].frames]) = history
            BY <3>1, PhasesInOrder
        <3>4. QED
            BY <3>2, <3>3 DEF history
    <2>3. QED
        BY <2>1, <2>2 DEF PhasesAreTheHistory
<1>2. QED
    BY <1>1, RoomsTypeCorrect, PTL

\* What a step broadcasts cancels no turn but the active one.
CancelsTheActive ==
    \E new \in Seq(Entry) :
        /\ replay_log' = replay_log \o new
        /\ \A k \in DOMAIN new : new[k].frame.method = "turn_cancelled" =>
            active_rooms_turn_id # 0 /\ new[k].frame.turn = active_rooms_turn_id

LEMMA CancelsNone ==
    ASSUME NEW methods, Logs(methods), "turn_cancelled" \notin methods
    PROVE  CancelsTheActive
BY DEF Logs, Within, CancelsTheActive

LEMMA CancelsLast ==
    ASSUME TypeInv, prompt_in_flight # 0, NEW before \in Seq(Frame),
           \A k \in 1..Len(before) : before[k].method # "turn_cancelled",
           broadcast(Append(before, turn_cancelled))
    PROVE  CancelsTheActive
<1> DEFINE told == Append(before, turn_cancelled)
           new == Tagged(told, replay_tag)
<1>1. turn_cancelled \in Frame /\ turn_cancelled.turn = active_rooms_turn_id
    BY CancelledFrame DEF turn_cancelled, frame
<1>2. active_rooms_turn_id # 0 /\ replay_tag \in Nat
    BY DEF TypeInv, SlotIsTurn, SegmentType
<1>3. told \in Seq(Frame) /\ \A k \in 1..Len(told) : told[k].method = "turn_cancelled" =>
        told[k].turn = active_rooms_turn_id
    BY <1>1
<1>4. replay_log' = replay_log \o new
    BY DEF broadcast
<1> HIDE DEF told
<1>5. /\ new \in Seq(Entry) /\ DOMAIN new = 1..Len(told)
      /\ \A k \in 1..Len(told) : new[k].frame = told[k]
    BY <1>2, <1>3, TaggedType
<1> HIDE DEF new
<1>6. \A k \in DOMAIN new : new[k].frame.method = "turn_cancelled" =>
        active_rooms_turn_id # 0 /\ new[k].frame.turn = active_rooms_turn_id
    BY <1>2, <1>3, <1>5
<1>7. QED
    BY <1>4, <1>5, <1>6 DEF CancelsTheActive

LEMMA StepCancelsTheActive == TypeInv /\ [Next]_vars => CancelsTheActive
<1> SUFFICES ASSUME TypeInv, [Next]_vars
             PROVE  CancelsTheActive
    OBVIOUS
<1>1. ASSUME UNCHANGED vars
      PROVE  CancelsTheActive
    <2>1. Logs({})
        BY <1>1, NothingLogged DEF vars, TypeInv
    <2>2. QED
        BY <2>1, CancelsNone
<1>2. ASSUME AgentStep
      PROVE  CancelsTheActive
    <2>1. CASE prompt_settles
        BY <2>1, SettleLogs, CancelsNone
    <2>2. CASE ~prompt_settles
        <3>1. \/ Logs({"segment_started", "segment_ended"}) \/ Logs({})
              \/ Logs({"segment_started", "segment_ended", "agent_notification"})
              \/ Logs({"agent_request_opened"}) \/ Logs({"agent_cancel", "agent_request_resolved"})
            BY <1>2, <2>2, AgentLogs DEF AgentStep
        <3>2. QED
            BY <3>1, CancelsNone
    <2>3. QED
        BY <2>1, <2>2
<1>3. ASSUME NEW p \in Peers, cancel_active_turn(p)
      PROVE  CancelsTheActive
    <2>1. prompt_in_flight # 0 /\ broadcast(Append(<<>>, turn_cancelled))
        BY <1>3 DEF TypeInv, SlotIsTurn, cancel_active_turn
    <2>2. QED
        BY <2>1, CancelsLast, <<>> \in Seq(Frame), \A k \in 1..Len(<<>>) : FALSE
<1>4. ASSUME NEW p \in Peers, NEW s \in ClientSessions, handle_rooms_steer_request(p, s)
      PROVE  CancelsTheActive
    <2> DEFINE f == frame("hard_steer_submitted", p, active_rooms_turn_id)
    <2>1. prompt_in_flight # 0 /\ broadcast(<<f, turn_cancelled>>)
        BY <1>4 DEF handle_rooms_steer_request
    <2>2. f \in Frame /\ f.method # "turn_cancelled"
        BY DEF frame, Frame, TypeInv, TurnType
    <2> HIDE DEF f
    <2>3. /\ <<f>> \in Seq(Frame) /\ <<f, turn_cancelled>> = Append(<<f>>, turn_cancelled)
          /\ \A k \in 1..Len(<<f>>) : <<f>>[k].method # "turn_cancelled"
        BY <2>2
    <2>4. QED
        BY <2>1, <2>3, CancelsLast
<1>5. ASSUME NEW p \in Peers, PeerStep(p), ~cancel_active_turn(p),
             \A s \in ClientSessions : ~handle_rooms_steer_request(p, s)
      PROVE  CancelsTheActive
    <2>1. ASSUME NEW method, NEW session, forward_handshake(p, method, session)
          PROVE  Logs({})
        BY <2>1, NothingLogged DEF forward_handshake, TypeInv
    <2>2. \/ Logs({"peer_joined"}) \/ Logs({}) \/ Logs({"session_busy"})
          \/ Logs({"peer_left", "queue_item_orphaned"}) \/ Logs({"agent_request_resolved"})
          \/ Logs({"turn_started"})
          \/ Logs({"queue_item_added", "turn_started", "queue_item_submitted"})
          \/ Logs({"idle_steer_submitted", "turn_started", "queue_item_submitted"})
          \/ Logs({"queue_item_removed"})
        BY <1>5, <2>1, PeerLogs, QueueLogs DEF PeerStep
    <2>3. QED
        BY <2>2, CancelsNone
<1>6. QED
    BY <1>1, <1>2, <1>3, <1>4, <1>5 DEF Next

\* A cancelled turn was active, and had started before.
CancelledWasStarted(log) ==
    \A k \in At(log, {"turn_cancelled"}) :
        \E j \in At(log, {"turn_started"}) : j < k /\ log[j].frame.turn = log[k].frame.turn

StartInv == TurnInv /\ CancelledWasStarted(replay_log)

LEMMA ActiveWasStarted ==
    ASSUME TurnInv, active_rooms_turn_id # 0
    PROVE  \E j \in At(replay_log, {"turn_started"}) : replay_log[j].frame.turn = active_rooms_turn_id
BY DEF TurnInv, Alternate, TypeInv, TurnType

LEMMA StartKept == StartInv /\ [Next]_vars => StartInv'
<1> SUFFICES ASSUME StartInv, [Next]_vars
             PROVE  StartInv'
    OBVIOUS
<1>1. TurnInv' /\ replay_log \in Seq(Entry)
    BY TurnsKept DEF StartInv, TurnInv, TypeInv, LogType
<1>2. PICK new \in Seq(Entry) :
        /\ replay_log' = replay_log \o new
        /\ \A k \in DOMAIN new : new[k].frame.method = "turn_cancelled" =>
            active_rooms_turn_id # 0 /\ new[k].frame.turn = active_rooms_turn_id
    BY StepCancelsTheActive DEF StartInv, TurnInv, CancelsTheActive
<1> DEFINE log == replay_log
           longer == replay_log \o new
<1>3. /\ Len(log) \in Nat /\ Len(new) \in Nat
      /\ DOMAIN log = 1..Len(log) /\ DOMAIN new = 1..Len(new)
      /\ DOMAIN longer = 1..Len(log) + Len(new)
      /\ \A k \in 1..Len(log) : longer[k] = log[k]
      /\ \A k \in DOMAIN longer :
            k \in 1..Len(log) \/ (k - Len(log) \in 1..Len(new) /\ k > Len(log)
                                  /\ longer[k] = new[k - Len(log)])
    BY <1>1, Grown
<1>4. CancelledWasStarted(log) /\ log = replay_log
    BY DEF StartInv
<1>5. active_rooms_turn_id # 0 =>
        \E j \in At(log, {"turn_started"}) : log[j].frame.turn = active_rooms_turn_id
    BY ActiveWasStarted DEF StartInv
<1> HIDE DEF log, longer
<1>6. At(log, {"turn_started"}) \subseteq At(longer, {"turn_started"})
    BY <1>3 DEF At
<1>7. \A j \in At(log, {"turn_started"}) : j \in 1..Len(log) /\ longer[j] = log[j]
    BY <1>3 DEF At
<1>8. ASSUME NEW k \in At(longer, {"turn_cancelled"})
      PROVE  \E j \in At(longer, {"turn_started"}) : j < k /\ longer[j].frame.turn = longer[k].frame.turn
    <2>1. k \in DOMAIN longer /\ longer[k].frame.method = "turn_cancelled"
        BY <1>8 DEF At
    <2>2. CASE k \in 1..Len(log)
        <3>1. longer[k] = log[k] /\ k \in At(log, {"turn_cancelled"})
            BY <1>3, <2>1, <2>2 DEF At
        <3>2. PICK j \in At(log, {"turn_started"}) : j < k /\ log[j].frame.turn = log[k].frame.turn
            BY <1>4, <3>1 DEF CancelledWasStarted
        <3>3. QED
            BY <1>6, <1>7, <3>1, <3>2
    <2>3. CASE k - Len(log) \in 1..Len(new) /\ k > Len(log) /\ longer[k] = new[k - Len(log)]
        <3>1. active_rooms_turn_id # 0 /\ longer[k].frame.turn = active_rooms_turn_id
            BY <1>2, <1>3, <2>1, <2>3
        <3>2. PICK j \in At(log, {"turn_started"}) : log[j].frame.turn = active_rooms_turn_id
            BY <1>5, <3>1
        <3>3. j \in 1..Len(log) /\ k \in Nat /\ j < k
            BY <1>3, <1>7, <2>1, <2>3
        <3>4. QED
            BY <1>6, <1>7, <3>1, <3>2, <3>3
    <2>4. QED
        BY <1>3, <2>1, <2>2, <2>3
<1>9. longer = replay_log'
    BY <1>2 DEF longer
<1>10. CancelledWasStarted(replay_log')
    BY <1>8, <1>9 DEF CancelledWasStarted
<1>11. QED
    BY <1>1, <1>10 DEF StartInv

LEMMA ClosedWasStarted ==
    ASSUME StartInv, NEW k \in At(replay_log, {"turn_complete", "turn_cancelled"})
    PROVE  \E j \in At(replay_log, {"turn_started"}) :
                j < k /\ replay_log[j].frame.turn = replay_log[k].frame.turn
<1>1. CASE replay_log[k].frame.method = "turn_cancelled"
    <2>1. k \in At(replay_log, {"turn_cancelled"})
        BY <1>1 DEF At
    <2>2. QED
        BY <2>1 DEF StartInv, CancelledWasStarted
<1>2. CASE replay_log[k].frame.method = "turn_complete"
    <2>1. replay_log \in Seq(Entry) /\ next_rooms_turn_id \in Nat
        BY DEF StartInv, TurnInv, TypeInv, LogType, TurnType
    <2>2. k \in At(replay_log, Bookends) /\ k \in Nat
        BY <1>2, <2>1 DEF At, Bookends
    <2>3. Alternate(replay_log, next_rooms_turn_id, active_rooms_turn_id)
        BY DEF StartInv, TurnInv
    <2>4. replay_log[k].frame.turn \in 1..next_rooms_turn_id - 1
        BY <2>2, <2>3 DEF Alternate
    <2>5. PICK j \in At(replay_log, {"turn_started"}) : replay_log[j].frame.turn = replay_log[k].frame.turn
        BY <2>3, <2>4 DEF Alternate
    <2>6. j \in At(replay_log, Bookends) /\ j \in Nat /\ replay_log[j].frame.method = "turn_started"
        BY <2>1, <2>5 DEF At, Bookends
    <2>7. j # k
        BY <1>2, <2>6
    <2>8. ~(k < j)
        <3>1. k < j => \/ replay_log[k].frame.turn < replay_log[j].frame.turn
                       \/ replay_log[k].frame.method = "turn_started"
            BY <2>2, <2>3, <2>6 DEF Alternate
        <3>2. QED
            BY <1>2, <2>4, <2>5, <3>1
    <2>9. QED
        BY <2>2, <2>5, <2>6, <2>7, <2>8
<1>3. QED
    BY <1>1, <1>2 DEF At

LEMMA StartInvImplies == StartInv => FullViewBracketsTurns
<1> SUFFICES ASSUME StartInv PROVE FullViewBracketsTurns
    OBVIOUS
<1> DEFINE log == replay_log
           active == Len(segments)
           turn == active_rooms_turn_id
           carry == cross_segment_turn_carry(log, active, turn)
           at == {k \in DOMAIN log :
                    /\ log[k].frame.method # "raw"
                    /\ FALSE \/ should_include_replay_entry(log[k], log, active, turn)}
           view == Kept(log, at)
<1>1. FullView = view
    BY DEF FullView, replay_history
<1>2. log \in Seq(Entry)
    BY DEF StartInv, TurnInv, TypeInv, LogType
<1>3. PICK pos \in Seq(Nat) : view \in Seq(Entry) /\ Enumerates(pos, view, log, at, Len(log))
    <2> HIDE DEF at, log
    <2>1. QED
        BY <1>2, KeptPositions
<1>4. \A j \in DOMAIN log : log[j].frame.method = "turn_started" /\ log[j].frame.turn \in carry => j \in at
    BY DEF should_include_replay_entry, IsBookend
<1>5. \A k \in at : k \in DOMAIN log /\ (IsBookend(log[k]) => log[k].frame.turn \in carry)
    BY DEF should_include_replay_entry, cross_segment_turn_carry
<1>6. turn # 0 => turn \in carry
    BY DEF cross_segment_turn_carry
<1>7. \A k \in At(log, {"turn_complete", "turn_cancelled"}) :
        \E j \in At(log, {"turn_started"}) : j < k /\ log[j].frame.turn = log[k].frame.turn
    BY ClosedWasStarted
<1>8. turn # 0 => \E j \in At(log, {"turn_started"}) : log[j].frame.turn = turn
    BY ActiveWasStarted DEF StartInv
<1> HIDE DEF at, carry, view
<1>9. DOMAIN log = 1..Len(log) /\ Len(log) \in Nat
    BY <1>2
<1>10. /\ DOMAIN view = 1..Len(pos) /\ Len(pos) \in Nat
       /\ \A j \in 1..Len(pos) : pos[j] \in at \cap 1..Len(log) /\ view[j] = log[pos[j]]
       /\ \A i, j \in 1..Len(pos) : i < j => pos[i] < pos[j]
       /\ \A k \in at \cap 1..Len(log) : \E j \in 1..Len(pos) : pos[j] = k
    BY <1>3 DEF Enumerates
<1> HIDE DEF log, turn
<1>11. ASSUME NEW k \in DOMAIN view, view[k].frame.method \in {"turn_complete", "turn_cancelled"}
       PROVE  \E j \in 1 .. k - 1 :
                view[j].frame.method = "turn_started" /\ view[j].frame.turn = view[k].frame.turn
    <2>1. k \in 1..Len(pos) /\ pos[k] \in at \cap 1..Len(log) /\ view[k] = log[pos[k]]
        BY <1>10
    <2>2. pos[k] \in At(log, {"turn_complete", "turn_cancelled"}) /\ IsBookend(log[pos[k]])
        BY <1>9, <1>11, <2>1 DEF At, IsBookend
    <2>3. PICK s \in At(log, {"turn_started"}) : s < pos[k] /\ log[s].frame.turn = log[pos[k]].frame.turn
        BY <1>7, <2>2
    <2>4. s \in at \cap 1..Len(log) /\ log[s].frame.method = "turn_started"
        BY <1>4, <1>5, <1>9, <2>1, <2>2, <2>3 DEF At
    <2>5. PICK j \in 1..Len(pos) : pos[j] = s
        BY <1>10, <2>4
    <2>6. view[j] = log[s] /\ pos[j] < pos[k]
        BY <1>10, <2>3, <2>5
    <2>7. j \in 1..k - 1
        <3>1. ~(pos[k] < pos[j]) /\ pos[k] # pos[j]
            BY <1>9, <2>1, <2>4, <2>5, <2>6
        <3>2. j # k /\ ~(k < j)
            BY <1>10, <2>1, <3>1
        <3>3. QED
            BY <1>10, <2>1, <3>2
    <2>8. QED
        BY <2>1, <2>3, <2>4, <2>6, <2>7
<1>12. ASSUME turn # 0
       PROVE  \E k \in DOMAIN view : view[k].frame.method = "turn_started" /\ view[k].frame.turn = turn
    <2>1. PICK s \in At(log, {"turn_started"}) : log[s].frame.turn = turn
        BY <1>8, <1>12
    <2>2. s \in at \cap 1..Len(log) /\ log[s].frame.method = "turn_started"
        BY <1>4, <1>6, <1>9, <1>12, <2>1 DEF At
    <2>3. PICK j \in 1..Len(pos) : pos[j] = s
        BY <1>10, <2>2
    <2>4. QED
        BY <1>10, <2>1, <2>2, <2>3
<1>13. QED
    BY <1>1, <1>11, <1>12 DEF FullViewBracketsTurns, turn

LEMMA StartInit == Init => StartInv
<1>1. Init => CancelledWasStarted(replay_log)
    BY DEF Init, CancelledWasStarted, At
<1>2. QED
    BY <1>1, TurnInit DEF StartInv

\* In the full view every turn that ends or is cancelled starts before, and
\* the active turn starts (cross_segment_turn_carry), for any number of
\* segments, turns and clients.
THEOREM FullViewIsBracketed == Spec => []FullViewBracketsTurns
BY StartInit, StartKept, StartInvImplies, PTL DEF Spec
=============================================================================
