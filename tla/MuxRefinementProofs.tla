------------------------- MODULE MuxRefinementProofs -------------------------
(***************************************************************************)
(* MuxCore implements MuxService, for every set of connections, request    *)
(* ids and asks and every bound, as long as no two connections share a     *)
(* peer id and the agent uses each of its request ids once.                *)
(***************************************************************************)
EXTENDS MuxCoreProofs, MuxRefinement

RefinementInv == TypeOK /\ PromptInv /\ ReplyInv /\ AskInv /\ RequestInv

Requests == Conns \X ReqIds

-----------------------------------------------------------------------------
(***************************************************************************)
(* The mapping.                                                            *)
(***************************************************************************)

LEMMA ChooseOnly == \A x : (CHOOSE y \in {x} : TRUE) = x
OBVIOUS

\* What the mapping reads, in terms of the invariant.
LEMMA RequestStateIs ==
    ASSUME TypeOK, NEW c \in Conns, NEW i
    PROVE  /\ Answered(c, i) <=> AnswersTo(c, i) # {}
           /\ Asked(c, i, ClientMethods) <=> HasAsked(c, i)
<1>1. Answered(c, i) <=> AnswersTo(c, i) # {}
    BY DEF Answered, AnswersTo
<1>2. \A r \in sent[c] : r.method \in ClientMethods
    BY DEF TypeOK
<1>3. QED
    BY <1>1, <1>2 DEF Asked, HasAsked

\* The same after a step.
LEMMA RequestStateWillBe ==
    ASSUME TypeOK', NEW c \in Conns, NEW i
    PROVE  RequestState(c, i)' =
                IF AnswersTo(c, i)' # {} THEN "answered"
                ELSE IF ~HasAsked(c, i)' THEN "unsent"
                ELSE IF c \in Reached(Peers)' THEN "waiting" ELSE "unheard"
<1>1. Answered(c, i)' <=> AnswersTo(c, i)' # {}
    BY DEF Answered, AnswersTo
<1>2. \A r \in sent'[c] : r.method \in ClientMethods
    BY DEF TypeOK
<1>3. Asked(c, i, ClientMethods)' <=> HasAsked(c, i)'
    BY <1>2 DEF Asked, HasAsked
<1>4. QED
    BY <1>1, <1>3 DEF RequestState

LEMMA RequestStateNow ==
    ASSUME TypeOK, NEW c \in Conns, NEW i
    PROVE  RequestState(c, i) =
                IF AnswersTo(c, i) # {} THEN "answered"
                ELSE IF ~HasAsked(c, i) THEN "unsent"
                ELSE IF c \in Reached(Peers) THEN "waiting" ELSE "unheard"
BY RequestStateIs DEF RequestState

\* Whoever holds the slot is one request.
LEMMA TurnIs ==
    ASSUME ForwardedOnce, prompt_in_flight # 0,
           NEW c \in Conns, NEW i \in ReqIds, Forwarded(prompt_in_flight, c, i)
    PROVE  TurnHolder = <<c, i>>
<1>1. Holders(prompt_in_flight) = {<<c, i>>}
    <2>1. \A r \in Holders(prompt_in_flight) : r = <<c, i>>
        BY DEF Holders, ForwardedOnce
    <2>2. <<c, i>> \in Holders(prompt_in_flight)
        BY DEF Holders
    <2>3. QED
        BY <2>1, <2>2
<1>2. QED
    BY <1>1, ChooseOnly DEF TurnHolder

\* The slot's prompt is forwarded.
LEMMA SlotHasARequest ==
    ASSUME RefinementInv, prompt_in_flight # 0
    PROVE  /\ prompt_in_flight \in DOMAIN pending
           /\ \E c \in Conns, i \in ReqIds :
                /\ Forwarded(prompt_in_flight, c, i) /\ TurnHolder = <<c, i>>
<1>1. prompt_in_flight \in DOMAIN pending
    BY DEF RefinementInv, PromptInv
<1>2. PICK c \in Conns : Forwarded(prompt_in_flight, c, pending[prompt_in_flight].original_id)
    BY <1>1 DEF RefinementInv, RequestInv, PendingForwarded
<1>3. pending[prompt_in_flight].original_id \in ReqIds
    BY <1>1 DEF RefinementInv, TypeOK, PendingRequest
<1>4. QED
    BY <1>1, <1>2, <1>3, TurnIs DEF RefinementInv, RequestInv

\* Nobody has the turn exactly when the slot is empty.
LEMMA NoTurnIs ==
    ASSUME RefinementInv
    PROVE  TurnHolder = NoTurn <=> prompt_in_flight = 0
<1>1. CASE prompt_in_flight = 0
    BY <1>1 DEF TurnHolder
<1>2. CASE prompt_in_flight # 0
    <2>1. PICK c \in Conns, i \in ReqIds : TurnHolder = <<c, i>>
        BY <1>2, SlotHasARequest
    <2>2. <<c, i>> # NoTurn
        BY DEF NoTurn
    <2>3. QED
        BY <1>2, <2>1, <2>2
<1>3. QED
    BY <1>1, <1>2

\* The turn stays with whoever has it.
LEMMA TurnStays ==
    ASSUME RefinementInv, UNCHANGED prompt_in_flight,
           prompt_in_flight # 0 => \A c, i : Forwarded(prompt_in_flight, c, i)'
                                                <=> Forwarded(prompt_in_flight, c, i)
    PROVE  TurnHolder' = TurnHolder
<1>1. CASE prompt_in_flight = 0
    BY <1>1 DEF TurnHolder
<1>2. CASE prompt_in_flight # 0
    <2>1. Holders(prompt_in_flight)' = Holders(prompt_in_flight)
        BY <1>2 DEF Holders
    <2>2. QED
        BY <1>2, <2>1 DEF TurnHolder
<1>3. QED
    BY <1>1, <1>2

-----------------------------------------------------------------------------
(***************************************************************************)
(* Steps that leave the requests to themselves, but for those that leave.  *)
(***************************************************************************)

\* The requests of these connections are unheard from now on.
LeavesAlone ==
    \A c \in Conns, i \in ReqIds :
        RequestState(c, i)' =
            IF c \notin Reached(Peers)' /\ RequestState(c, i) = "waiting"
            THEN "unheard" ELSE RequestState(c, i)

LEMMA AsideRequests ==
    ASSUME RefinementInv, TypeOK', AsideStep
    PROVE  LeavesAlone
<1> SUFFICES ASSUME NEW c \in Conns, NEW i \in ReqIds
             PROVE  RequestState(c, i)' =
                        IF c \notin Reached(Peers)' /\ RequestState(c, i) = "waiting"
                        THEN "unheard" ELSE RequestState(c, i)
    BY DEF LeavesAlone
<1>1. NothingFor(c) /\ TypeOK /\ RequestInv
    BY DEF AsideStep, RefinementInv
<1>2. HasAsked(c, i)' <=> HasAsked(c, i)
    BY <1>1 DEF NothingFor, HasAsked
<1>3. CASE \/ outbound'[c] = outbound[c]
           \/ \E f \in Frame : ~IsAnswer(f) /\ outbound'[c] = Append(outbound[c], f)
    <2>1. AnswersTo(c, i)' = AnswersTo(c, i)
        <3>1. CASE outbound'[c] = outbound[c]
            BY <3>1, AnswersSame
        <3>2. ASSUME NEW f \in Frame, ~IsAnswer(f), outbound'[c] = Append(outbound[c], f)
              PROVE  AnswersTo(c, i)' = AnswersTo(c, i)
            <4>1. AnswersTo(c, i)' = AnswersTo(c, i) \cup
                        IF IsAnswer(f) /\ f.id = i THEN {Len(outbound[c]) + 1} ELSE {}
                BY <1>1, <3>2, AnswersMore
            <4>2. QED
                BY <3>2, <4>1
        <3>3. QED
            BY <1>3, <3>1, <3>2
    <2>2. CASE c \in Reached(Peers)' => c \in Reached(Peers)
        BY <1>2, <2>1, <2>2, <1>1, RequestStateNow, RequestStateWillBe
    <2>3. CASE sent[c] = {}
        <3>1. ~HasAsked(c, i)
            BY <2>3 DEF HasAsked
        <3>2. QED
            BY <1>2, <2>1, <3>1, <1>1, RequestStateNow, RequestStateWillBe
    <2>4. QED
        BY <1>1, <2>2, <2>3 DEF NothingFor
<1>4. CASE sent[c] = {} /\ \A k \in DOMAIN outbound'[c] : ~IsAnswer(outbound'[c][k])
    <2>1. ~HasAsked(c, i)
        BY <1>4 DEF HasAsked
    <2>2. AnswersTo(c, i)' = {}
        BY <1>4 DEF AnswersTo
    <2>3. AnswersTo(c, i) = {}
        BY <1>1, <2>1 DEF RequestInv
    <2>4. QED
        BY <1>1, <1>2, <2>1, <2>2, <2>3, RequestStateNow, RequestStateWillBe
<1>5. QED
    BY <1>1, <1>3, <1>4 DEF NothingFor

LEMMA AsideTurn ==
    ASSUME RefinementInv, AsideStep
    PROVE  TurnHolder' = TurnHolder
<1>1. \A m, c, i : Forwarded(m, c, i)' <=> Forwarded(m, c, i)
    BY ForwardedSame DEF AsideStep, StdinAside, RefinementInv
<1>2. UNCHANGED prompt_in_flight
    BY DEF AsideStep, requestVars
<1>3. QED
    BY <1>1, <1>2, TurnStays

\* With the asks unchanged this is a step Leave of the service.
LEMMA AsideLeaves ==
    ASSUME RefinementInv, TypeOK', AsideStep, UNCHANGED AskStates
    PROVE  Service!Next
<1> DEFINE C == {c \in Conns : c \notin Reached(Peers)'}
<1>1. LeavesAlone /\ TurnHolder' = TurnHolder
    BY AsideRequests, AsideTurn
<1>2. RequestStates' = [r \in Requests |->
            IF r \in {} THEN "answered"
            ELSE IF r[1] \in C /\ RequestStates[r] = "waiting" THEN "unheard"
            ELSE RequestStates[r]]
    <2>1. \A r \in Requests : r[1] \in Conns /\ r[2] \in ReqIds
        BY DEF Requests
    <2>2. QED
        BY <1>1, <2>1 DEF RequestStates, LeavesAlone, Requests
<1>3. {} \in {{}} \cup {{r} : r \in C \X ReqIds}
    OBVIOUS
<1>4. Service!Leave(C)
    BY <1>1, <1>2, <1>3 DEF Service!Leave, Service!Requests, Requests
<1>5. C \in SUBSET Conns
    OBVIOUS
<1>6. QED
    BY <1>4, <1>5 DEF Service!Next

-----------------------------------------------------------------------------
(***************************************************************************)
(* Steps of a request.                                                     *)
(***************************************************************************)

\* One request moves to state s, the others stay.
Moves(c, i, s) ==
    \A d \in Conns, j \in ReqIds :
        RequestState(d, j)' = IF d = c /\ j = i THEN s ELSE RequestState(d, j)

LEMMA MovesIs ==
    ASSUME NEW c \in Conns, NEW i \in ReqIds, NEW s, Moves(c, i, s)
    PROVE  RequestStates' = [RequestStates EXCEPT ![<<c, i>>] = s]
<1>1. \A r \in Requests : r[1] \in Conns /\ r[2] \in ReqIds /\ r = <<r[1], r[2]>>
    BY DEF Requests
<1>2. \A r \in Requests : RequestStates'[r] = IF r = <<c, i>> THEN s ELSE RequestStates[r]
    BY <1>1 DEF Moves, RequestStates, Requests
<1>3. QED
    BY <1>2 DEF RequestStates, Requests

LEMMA RequestStatesAt ==
    ASSUME NEW c \in Conns, NEW i \in ReqIds
    PROVE  <<c, i>> \in Requests /\ RequestStates[<<c, i>>] = RequestState(c, i)
BY DEF Requests, RequestStates

\* A request that is answered on the spot.  The answer to a detach request is
\* sent while the client still is a subscriber.
LEMMA ToldRequests ==
    ASSUME PeersApart, RefinementInv, TypeOK',
           NEW c \in Conns, NEW i \in ReqIds, NEW method, NEW f, Told(c, i, method, f)
    PROVE  /\ RequestState(c, i) = "unsent"
           /\ RequestState(c, i)' = IF c \in Reached(Peers) THEN "answered" ELSE "unheard"
           /\ \A d \in Conns, j \in ReqIds : d # c \/ j # i =>
                RequestState(d, j)' =
                    IF d \notin Reached(Peers)' /\ RequestState(d, j) = "waiting"
                    THEN "unheard" ELSE RequestState(d, j)
<1> USE DEF Told
<1>1. TypeOK /\ RequestInv /\ SubscribersOwn /\ Reached(Peers)' \subseteq Reached(Peers)
    BY DEF RefinementInv, RequestInv
<1>2. /\ ~HasAsked(c, i) /\ HasAsked(c, i)' /\ AnswersTo(c, i) = {}
      /\ \A d \in Conns : \A j : d # c \/ j # i => (HasAsked(d, j)' <=> HasAsked(d, j))
    BY <1>1, NewIsFresh
<1>3. /\ c \in Reached({PeerOf[c]}) <=> c \in Reached(Peers)
      /\ \A d \in Conns : d # c => d \notin Reached({PeerOf[c]})
    BY <1>1, ReachedUnder, ReachedOnly
<1>4. \A d \in Conns : outbound'[d] = IF d = c /\ c \in Reached(Peers) THEN Append(outbound[c], f)
                                      ELSE outbound[d]
    BY <1>3 DEF send_to, Deliver
<1>5. AnswersTo(c, i)' # {} <=> c \in Reached(Peers)
    <2>1. CASE c \in Reached(Peers)
        <3>1. outbound'[c] = Append(outbound[c], f)
            BY <1>4, <2>1
        <3>2. AnswersTo(c, i)' = AnswersTo(c, i) \cup {Len(outbound[c]) + 1}
            BY <1>1, <3>1, AnswersMore
        <3>3. QED
            BY <2>1, <3>2
    <2>2. CASE c \notin Reached(Peers)
        <3>1. outbound'[c] = outbound[c]
            BY <1>4, <2>2
        <3>2. AnswersTo(c, i)' = AnswersTo(c, i)
            BY <3>1, AnswersSame
        <3>3. QED
            BY <1>2, <2>2, <3>2
    <2>3. QED
        BY <2>1, <2>2
<1>6. ASSUME NEW d \in Conns, NEW j \in ReqIds, d # c \/ j # i
      PROVE  RequestState(d, j)' =
                IF d \notin Reached(Peers)' /\ RequestState(d, j) = "waiting"
                THEN "unheard" ELSE RequestState(d, j)
    <2>1. AnswersTo(d, j)' = AnswersTo(d, j)
        <3>1. CASE outbound'[d] = outbound[d]
            BY <3>1, AnswersSame
        <3>2. CASE d = c /\ outbound'[c] = Append(outbound[c], f)
            <4>1. AnswersTo(c, j)' = AnswersTo(c, j) \cup
                        IF IsAnswer(f) /\ f.id = j THEN {Len(outbound[c]) + 1} ELSE {}
                BY <1>1, <3>2, AnswersMore
            <4>2. QED
                BY <1>6, <3>2, <4>1
        <3>3. QED
            BY <1>4, <3>1, <3>2
    <2>2. HasAsked(d, j)' <=> HasAsked(d, j)
        BY <1>2, <1>6
    <2>3. QED
        BY <1>1, <2>1, <2>2, RequestStateNow, RequestStateWillBe
<1>7. RequestState(c, i) = "unsent"
    BY <1>1, <1>2, RequestStateNow
<1>8. RequestState(c, i)' = IF c \in Reached(Peers) THEN "answered" ELSE "unheard"
    BY <1>1, <1>2, <1>5, RequestStateWillBe
<1>9. QED
    BY <1>6, <1>7, <1>8

\* Nobody but the sender leaves.
LEMMA ToldIsServed ==
    ASSUME PeersApart, RefinementInv, TypeOK', UNCHANGED AskStates,
           NEW c \in Conns, NEW i \in ReqIds, NEW method, NEW f, Told(c, i, method, f),
           \A d \in Reached(Peers) : d # c => d \in Reached(Peers)'
    PROVE  Service!Next
<1>0. /\ RequestState(c, i) = "unsent"
      /\ RequestState(c, i)' = IF c \in Reached(Peers) THEN "answered" ELSE "unheard"
      /\ \A d \in Conns, j \in ReqIds : d # c \/ j # i =>
            RequestState(d, j)' =
                IF d \notin Reached(Peers)' /\ RequestState(d, j) = "waiting"
                THEN "unheard" ELSE RequestState(d, j)
    BY ToldRequests
<1>1. TurnHolder' = TurnHolder
    <2>1. UNCHANGED <<prompt_in_flight, agent_stdin>>
        BY DEF Told, requestVars
    <2>2. \A m, d, j : Forwarded(m, d, j)' <=> Forwarded(m, d, j)
        BY <2>1 DEF Forwarded
    <2>3. QED
        BY <2>1, <2>2, TurnStays
<1>2. \A d \in Conns, j \in ReqIds : RequestState(d, j) = "waiting" => d \in Reached(Peers)
    BY RequestStateNow DEF RefinementInv
<1>3. /\ <<c, i>> \in Requests /\ RequestStates[<<c, i>>] = "unsent"
      /\ RequestState(c, i) = "unsent"
    BY <1>0, RequestStatesAt
<1>4. CASE c \in Reached(Peers)' \/ c \notin Reached(Peers)
    <2>1. \A d \in Conns, j \in ReqIds : RequestState(d, j) = "waiting" => d \in Reached(Peers)'
        BY <1>2, <1>4
    <2>2. PICK s \in {"answered", "unheard"} : RequestState(c, i)' = s
        BY <1>0
    <2>3. Moves(c, i, s)
        BY <2>1, <2>2, <1>0 DEF Moves
    <2>4. RequestStates' = [RequestStates EXCEPT ![<<c, i>>] = s]
        BY <2>3, MovesIs
    <2>5. Service!Send(<<c, i>>)
        BY <1>1, <1>3, <2>4 DEF Service!Send
    <2>6. QED
        BY <1>3, <2>5 DEF Service!Next, Service!Requests, Requests
<1>5. CASE c \in Reached(Peers) /\ c \notin Reached(Peers)'
    <2> DEFINE told == {<<c, i>>}
    <2>1. \A d \in Conns, j \in ReqIds :
            RequestState(d, j)' =
                IF <<d, j>> \in told THEN "answered"
                ELSE IF d \in {c} /\ RequestState(d, j) = "waiting" THEN "unheard"
                ELSE RequestState(d, j)
        BY <1>0, <1>2, <1>5
    <2>2. RequestStates' = [r \in Requests |->
            IF r \in told THEN "answered"
            ELSE IF r[1] \in {c} /\ RequestStates[r] = "waiting" THEN "unheard"
            ELSE RequestStates[r]]
        <3>1. \A r \in Requests : r[1] \in Conns /\ r[2] \in ReqIds /\ r = <<r[1], r[2]>>
            BY DEF Requests
        <3> HIDE DEF told
        <3>2. QED
            BY <2>1, <3>1 DEF RequestStates, Requests
    <2>3. told \in {{}} \cup {{r} : r \in {c} \X ReqIds}
        OBVIOUS
    <2>4. \A r \in told : RequestStates[r] = "unsent"
        BY <1>3
    <2>5. Service!Leave({c})
        BY <1>1, <2>2, <2>3, <2>4 DEF Service!Leave, Service!Requests, Requests
    <2>6. {c} \in SUBSET Conns
        OBVIOUS
    <2>7. QED
        BY <2>5, <2>6 DEF Service!Next
<1>6. QED
    BY <1>4, <1>5

\* A request that is handed to the agent.
LEMMA ForwardIsServed ==
    ASSUME RefinementInv, TypeOK', UNCHANGED AskStates,
           NEW c \in Conns, NEW i \in ReqIds, NEW method \in ClientMethods,
           NEW param \in MaybeSession, forward_request(c, i, method, param)
    PROVE  Service!Next
<1> DEFINE f == [type |-> "request", mux_id |-> next_mux_id, method |-> method,
                 conn |-> c, id |-> i]
<1>1. TypeOK /\ RequestInv /\ PromptInv /\ ForwardedOnce
    BY DEF RefinementInv, RequestInv
<1>2. /\ f \in AgentFrame /\ f.type = "request" /\ f.mux_id = next_mux_id
      /\ f.conn = c /\ f.id = i
    BY <1>1 DEF AgentFrame, TypeOK
<1>3. agent_stdin' = Append(agent_stdin, f)
    BY DEF forward_request, ToAgent
<1> HIDE DEF f
<1>4. \A m, d, j : Forwarded(m, d, j)'
            <=> Forwarded(m, d, j) \/ (next_mux_id = m /\ c = d /\ i = j)
    BY <1>1, <1>2, <1>3, ForwardedMore
<1>5. UNCHANGED <<conns, subscribers, outbound>>
    BY DEF forward_request, connVars
<1>6. /\ ~HasAsked(c, i) /\ HasAsked(c, i)' /\ AnswersTo(c, i) = {}
      /\ \A d \in Conns : \A j : d # c \/ j # i => (HasAsked(d, j)' <=> HasAsked(d, j))
    BY <1>1, NewIsFresh DEF forward_request
<1>7. Reached(Peers)' = Reached(Peers)
    BY <1>5 DEF Reached
<1>8. \A d \in Conns, j \in ReqIds : AnswersTo(d, j)' = AnswersTo(d, j)
    BY <1>5, AnswersSame
<1>9. PICK s \in {"waiting", "unheard"} : s = IF c \in Reached(Peers) THEN "waiting" ELSE "unheard"
    OBVIOUS
<1>10. Moves(c, i, s)
    <2>1. RequestState(c, i)' = s
        BY <1>6, <1>7, <1>8, <1>9, RequestStateWillBe
    <2>2. \A d \in Conns, j \in ReqIds : d # c \/ j # i => RequestState(d, j)' = RequestState(d, j)
        <3> SUFFICES ASSUME NEW d \in Conns, NEW j \in ReqIds, d # c \/ j # i
                     PROVE  RequestState(d, j)' = RequestState(d, j)
            OBVIOUS
        <3>1. AnswersTo(d, j)' = AnswersTo(d, j) /\ (HasAsked(d, j)' <=> HasAsked(d, j))
            BY <1>6, <1>8
        <3>2. QED
            BY <1>1, <1>7, <3>1, RequestStateNow, RequestStateWillBe
    <2>3. QED
        BY <2>1, <2>2 DEF Moves
<1>11. RequestStates' = [RequestStates EXCEPT ![<<c, i>>] = s]
    BY <1>10, MovesIs
<1>12. <<c, i>> \in Requests /\ RequestStates[<<c, i>>] = "unsent"
    BY <1>1, <1>6, RequestStateNow, RequestStatesAt
<1>13. \/ TurnHolder' = TurnHolder
       \/ TurnHolder = NoTurn /\ TurnHolder' = <<c, i>>
    <2>1. CASE method = "session/prompt"
        <3>1. prompt_in_flight = 0 /\ prompt_in_flight' = next_mux_id
            BY <2>1 DEF forward_request, PromptBusy
        <3>2. next_mux_id # 0
            BY <1>1 DEF TypeOK, MuxIds
        <3>3. \A d, j : ~Forwarded(next_mux_id, d, j)
            <4>1. \A d, j : Forwarded(next_mux_id, d, j) => next_mux_id < next_mux_id
                BY <1>1 DEF ForwardedOnce
            <4>2. next_mux_id \in Nat
                BY <1>1 DEF TypeOK, MuxIds
            <4>3. QED
                BY <4>1, <4>2
        <3>4. Holders(prompt_in_flight)' = {<<c, i>>}
            <4>1. Holders(prompt_in_flight)' =
                    {r \in Conns \X ReqIds : r[1] = c /\ r[2] = i}
                BY <1>4, <3>1, <3>3 DEF Holders
            <4>2. \A r \in Conns \X ReqIds : r[1] = c /\ r[2] = i <=> r = <<c, i>>
                OBVIOUS
            <4>3. <<c, i>> \in Conns \X ReqIds
                OBVIOUS
            <4>4. QED
                BY <4>1, <4>2, <4>3
        <3>5. TurnHolder' = <<c, i>>
            BY <3>1, <3>2, <3>4, ChooseOnly DEF TurnHolder
        <3>6. TurnHolder = NoTurn
            BY <3>1 DEF TurnHolder
        <3>7. QED
            BY <3>5, <3>6
    <2>2. CASE method # "session/prompt"
        <3>1. UNCHANGED prompt_in_flight
            BY <2>2 DEF forward_request
        <3>2. prompt_in_flight # 0 => prompt_in_flight # next_mux_id
            <4>1. prompt_in_flight # 0 => prompt_in_flight < next_mux_id
                BY <1>1 DEF PromptInv
            <4>2. prompt_in_flight \in Nat /\ next_mux_id \in Nat
                BY <1>1 DEF TypeOK, MuxIds
            <4>3. QED
                BY <4>1, <4>2
        <3>3. QED
            BY <1>4, <3>1, <3>2, TurnStays
    <2>3. QED
        BY <2>1, <2>2
<1>14. RequestStates'[<<c, i>>] # "answered"
    BY <1>10, <1>9, RequestStatesAt, <1>12 DEF Moves, RequestStates, Requests
<1>15. Service!Send(<<c, i>>)
    BY <1>9, <1>11, <1>12, <1>13, <1>14 DEF Service!Send
<1>16. QED
    BY <1>12, <1>15 DEF Service!Next, Service!Requests, Requests

\* The request that mux id m stands for, and its answer on the way.
LEMMA RouteRequests ==
    ASSUME PeersApart, RefinementInv, TypeOK', NEW m \in DOMAIN pending,
           NEW ok \in BOOLEAN, NEW sid \in MaybeSession \cup {NullResult},
           route_agent_response(m, ok, sid)
    PROVE  \E c \in Conns, i \in ReqIds :
                /\ Forwarded(m, c, i)
                /\ Moves(c, i, IF RequestState(c, i) = "waiting" THEN "answered"
                               ELSE RequestState(c, i))
<1> DEFINE f == Response(pending[m].original_id, ok, m, IF sid = NullResult THEN None ELSE sid)
           i == pending[m].original_id
<1>1. TypeOK /\ RequestInv /\ SubscribersOwn
    BY DEF RefinementInv, RequestInv
<1>2. PICK c \in Conns : PeerOf[c] = pending[m].peer_id /\ Forwarded(m, c, i)
    BY <1>1 DEF RequestInv, PendingForwarded
<1>3. i \in ReqIds
    BY <1>1 DEF TypeOK, PendingRequest
<1>4. f \in Frame /\ IsAnswer(f) /\ f.id = i
    <2>1. m \in Nat
        BY <1>1 DEF TypeOK, MuxIds
    <2>2. (IF sid = NullResult THEN None ELSE sid) \in MaybeSession
        BY DEF MaybeSession
    <2>3. QED
        BY <1>3, <2>1, <2>2 DEF Frame, Response, IsAnswer
<1>5. send_to(PeerOf[c], f)
    BY <1>2 DEF route_agent_response
<1>6. UNCHANGED <<conns, subscribers, sent>>
    BY DEF route_agent_response, connVars
<1> HIDE DEF f, i
<1>7. /\ c \in Reached({PeerOf[c]}) <=> c \in Reached(Peers)
      /\ \A d \in Conns : d # c => d \notin Reached({PeerOf[c]})
    BY <1>1, ReachedUnder, ReachedOnly
<1>8. \A d \in Conns : outbound'[d] = IF d = c /\ c \in Reached(Peers) THEN Append(outbound[c], f)
                                      ELSE outbound[d]
    BY <1>5, <1>7 DEF send_to, Deliver
<1>9. Reached(Peers)' = Reached(Peers)
    BY <1>6 DEF Reached
<1>10. \A d \in Conns : \A j : HasAsked(d, j)' <=> HasAsked(d, j)
    BY <1>6 DEF HasAsked
<1>11. HasAsked(c, i)
    BY <1>1, <1>2 DEF RequestInv, ForwardedOnce
<1>12. c \in Reached(Peers) => AnswersTo(c, i) = {}
    <2>1. m \in WaitingFor(c, i)
        BY <1>2 DEF WaitingFor
    <2>2. QED
        BY <1>1, <1>3, <1>11, <2>1 DEF RequestInv, Balanced
<1>13. \A d \in Conns, j \in ReqIds :
            AnswersTo(d, j)' # {} <=>
                AnswersTo(d, j) # {} \/ (d = c /\ j = i /\ c \in Reached(Peers))
    <2> SUFFICES ASSUME NEW d \in Conns, NEW j \in ReqIds
                 PROVE  AnswersTo(d, j)' # {} <=>
                            AnswersTo(d, j) # {} \/ (d = c /\ j = i /\ c \in Reached(Peers))
        OBVIOUS
    <2>1. CASE d = c /\ c \in Reached(Peers)
        <3>1. outbound'[c] = Append(outbound[c], f)
            BY <1>8, <2>1
        <3>2. AnswersTo(c, j)' = AnswersTo(c, j) \cup
                    IF IsAnswer(f) /\ f.id = j THEN {Len(outbound[c]) + 1} ELSE {}
            BY <1>1, <1>4, <3>1, AnswersMore
        <3>3. QED
            BY <1>4, <2>1, <3>2
    <2>2. CASE ~(d = c /\ c \in Reached(Peers))
        <3>1. outbound'[d] = outbound[d]
            BY <1>8, <2>2
        <3>2. AnswersTo(d, j)' = AnswersTo(d, j)
            BY <3>1, AnswersSame
        <3>3. QED
            BY <2>2, <3>2
    <2>3. QED
        BY <2>1, <2>2
<1>14. ASSUME NEW d \in Conns, NEW j \in ReqIds
       PROVE  RequestState(d, j)' =
                IF d = c /\ j = i
                THEN IF RequestState(c, i) = "waiting" THEN "answered" ELSE RequestState(c, i)
                ELSE RequestState(d, j)
    <2> DEFINE now == RequestState(d, j)
               next == RequestState(d, j)'
    <2>a. now = IF AnswersTo(d, j) # {} THEN "answered"
                ELSE IF ~HasAsked(d, j) THEN "unsent"
                ELSE IF d \in Reached(Peers) THEN "waiting" ELSE "unheard"
        BY <1>1, RequestStateNow
    <2>b. next = IF AnswersTo(d, j) # {} \/ (d = c /\ j = i /\ c \in Reached(Peers)) THEN "answered"
                 ELSE IF ~HasAsked(d, j) THEN "unsent"
                 ELSE IF d \in Reached(Peers) THEN "waiting" ELSE "unheard"
        BY <1>9, <1>10, <1>13, RequestStateWillBe
    <2> HIDE DEF now, next
    <2>1. CASE d = c /\ j = i
        <3>1. next = IF now = "waiting" THEN "answered" ELSE now
            BY <1>11, <1>12, <2>1, <2>a, <2>b
        <3>2. QED
            BY <2>1, <3>1 DEF now, next
    <2>2. CASE ~(d = c /\ j = i)
        <3>1. next = now
            BY <2>2, <2>a, <2>b
        <3>2. QED
            BY <2>2, <3>1 DEF now, next
    <2>3. QED
        BY <2>1, <2>2
<1>15. Moves(c, i, IF RequestState(c, i) = "waiting" THEN "answered" ELSE RequestState(c, i))
    BY <1>14 DEF Moves
<1>16. QED
    BY <1>2, <1>3, <1>15

-----------------------------------------------------------------------------
(***************************************************************************)
(* Steps of the asks.                                                      *)
(***************************************************************************)

LEMMA RepliedSame ==
    ASSUME TypeOK, NoReply
    PROVE  \A a : Replied(a)' <=> Replied(a)
<1>1. CASE UNCHANGED agent_stdin
    BY <1>1 DEF Replied
<1>2. ASSUME NEW f \in AgentFrame, f.type # "reply", agent_stdin' = Append(agent_stdin, f)
      PROVE  \A a : Replied(a)' <=> Replied(a)
    <2>1. /\ DOMAIN agent_stdin' = DOMAIN agent_stdin \cup {Len(agent_stdin) + 1}
          /\ \A k \in DOMAIN agent_stdin : agent_stdin'[k] = agent_stdin[k]
          /\ agent_stdin'[Len(agent_stdin) + 1] = f
        BY <1>2 DEF TypeOK
    <2>2. QED
        BY <1>2, <2>1 DEF Replied
<1>3. QED
    BY <1>1, <1>2 DEF NoReply

LEMMA RepliedMore ==
    ASSUME TypeOK, NEW f \in AgentFrame, f.type = "reply", agent_stdin' = Append(agent_stdin, f)
    PROVE  \A a : Replied(a)' <=> Replied(a) \/ a = f.id
<1>1. /\ DOMAIN agent_stdin' = DOMAIN agent_stdin \cup {Len(agent_stdin) + 1}
      /\ \A k \in DOMAIN agent_stdin : agent_stdin'[k] = agent_stdin[k]
      /\ agent_stdin'[Len(agent_stdin) + 1] = f
    BY DEF TypeOK
<1>2. QED
    BY <1>1 DEF Replied

\* Nothing that the mapping reads changes.
LEMMA AsksUntouched ==
    ASSUME TypeOK, NoReply, UNCHANGED <<asked, open_asks>>
    PROVE  UNCHANGED AskStates
<1>1. \A a : Replied(a)' <=> Replied(a)
    BY RepliedSame
<1>2. QED
    BY <1>1 DEF AskStates, AskState

\* An ask that is open or was never asked has no reply.
LEMMA NoReplyYet ==
    ASSUME RefinementInv, NEW a \in AskIds, asked[a] = 0 \/ Unresolved(a)
    PROVE  ~Replied(a)
<1>1. \/ a \notin DOMAIN agent_pending
      \/ a \in DOMAIN agent_pending /\ agent_pending[a] = "InFlight"
    BY DEF RefinementInv, AskInv, Unresolved
<1>2. QED
    BY <1>1 DEF RefinementInv, ReplyInv, RepliesConsume, Replied

\* An ask in the service's sense moves to state s.
AskMoves(a, s) ==
    \A b \in Answerable : AskState(b)' = IF b = a THEN s ELSE AskState(b)

LEMMA AskMovesIs ==
    ASSUME NEW a, NEW s, AskMoves(a, s)
    PROVE  AskStates' = [AskStates EXCEPT ![a] = s]
BY DEF AskMoves, AskStates

\* The agent asks.
LEMMA AskIsServed ==
    ASSUME MaxAsks <= 1, RefinementInv, NEW a \in AskIds, handle_agent_request(a)
    PROVE  a \in Answerable /\ AskState(a) = "never" /\ AskMoves(a, "open")
<1>1. TypeOK /\ a \in Answerable /\ asked[a] = 0
    <2>1. asked[a] \in Nat /\ asked[a] < MaxAsks /\ MaxAsks \in Nat
        BY ConstantsOK DEF RefinementInv, TypeOK, handle_agent_request, AgentAsks
    <2>2. QED
        BY <2>1 DEF RefinementInv, handle_agent_request, Answerable
<1>2. \A b : Replied(b)' <=> Replied(b)
    BY <1>1, RepliedSame DEF NoReply, handle_agent_request
<1>3. ~Replied(a)
    BY <1>1, NoReplyYet
<1>4. /\ asked'[a] = 1 /\ \A b \in AskIds : b # a => asked'[b] = asked[b]
      /\ open_asks' = open_asks \cup {a}
    BY <1>1 DEF TypeOK, handle_agent_request, AgentAsks
<1>5. ASSUME NEW b \in Answerable
      PROVE  AskState(b)' = IF b = a THEN "open" ELSE AskState(b)
    <2>1. b \in AskIds
        BY DEF Answerable
    <2>2. CASE b = a
        BY <1>2, <1>3, <1>4, <2>2 DEF AskState
    <2>3. CASE b # a
        BY <1>2, <1>4, <2>1, <2>3 DEF AskState
    <2>4. QED
        BY <2>2, <2>3
<1>6. QED
    BY <1>1, <1>5 DEF AskState, AskMoves

\* An ask that is open for a client.
LEMMA UnresolvedIsOpen ==
    ASSUME RefinementInv, NEW a \in AskIds, Unresolved(a)
    PROVE  AskState(a) = "open" /\ asked[a] # 0 /\ ~Replied(a) /\ a \in open_asks
<1>1. asked[a] # 0 /\ a \in open_asks
    BY DEF RefinementInv, AskInv, Unresolved
<1>2. ~Replied(a)
    BY NoReplyYet
<1>3. QED
    BY <1>1, <1>2 DEF AskState

\* A client replies: the ask was open, or it was none.
LEMMA ReplyIsServed ==
    ASSUME RefinementInv, NEW c \in Conns, NEW a \in AskIds \cup StrayIds,
           gate_subscriber_response(c, a)
    PROVE  \/ UNCHANGED AskStates
           \/ a \in Answerable /\ AskState(a) = "open" /\ AskMoves(a, "replied")
<1> DEFINE f == [type |-> "reply", id |-> a, conn |-> c]
<1>1. f \in AgentFrame /\ f.type = "reply" /\ f.id = a
    BY DEF AgentFrame
<1>2. agent_stdin' = Append(agent_stdin, f) /\ UNCHANGED asked
    BY DEF gate_subscriber_response, ToAgent
<1> HIDE DEF f
<1>3. TypeOK
    BY DEF RefinementInv
<1>4. \A b : Replied(b)' <=> Replied(b) \/ b = a
    BY <1>1, <1>2, <1>3, RepliedMore
<1>5. CASE a \in AskIds
    <2>1. a \in DOMAIN agent_pending
        <3>1. PICK k \in DOMAIN outbound[c] : outbound[c][k] = [type |-> "ask", id |-> a]
            BY <1>5, ConstantsOK DEF gate_subscriber_response, MayReply
        <3>2. outbound[c][k].type = "ask" /\ outbound[c][k].id = a
            BY <3>1
        <3>3. QED
            BY <3>2 DEF RefinementInv, ReplyInv, AsksSeen
    <2>2. Unresolved(a) /\ open_asks' = open_asks \ {a}
        BY <2>1 DEF gate_subscriber_response
    <2>3. AskState(a) = "open" /\ asked[a] # 0
        BY <1>5, <2>2, UnresolvedIsOpen
    <2>4. \A b : AskState(b)' = IF b = a THEN "replied" ELSE AskState(b)
        BY <1>2, <1>4, <2>2, <2>3 DEF AskState
    <2>5. QED
        BY <2>3, <2>4, <1>5 DEF AskMoves, AskStates, Answerable
<1>6. CASE a \notin AskIds
    <2>1. a \notin DOMAIN agent_pending
        BY <1>3, <1>6 DEF TypeOK
    <2>2. UNCHANGED open_asks
        BY <2>1 DEF gate_subscriber_response, Unresolved
    <2>3. \A b \in Answerable : Replied(b)' <=> Replied(b)
        BY <1>4, <1>6 DEF Answerable
    <2>4. QED
        BY <1>2, <2>2, <2>3 DEF AskStates, AskState
<1>7. QED
    BY <1>5, <1>6

\* The agent withdraws an ask, which is open or has been settled before.
LEMMA CancelIsServed ==
    ASSUME RefinementInv, NEW a \in AskIds, handle_agent_cancel(a)
    PROVE  \/ UNCHANGED AskStates
           \/ a \in Answerable /\ AskState(a) = "open" /\ AskMoves(a, "withdrawn")
<1>1. UNCHANGED <<asked, agent_stdin>> /\ open_asks' = open_asks \ {a}
    BY DEF handle_agent_cancel
<1>2. \A b : Replied(b)' <=> Replied(b)
    BY <1>1 DEF Replied
<1>3. CASE Unresolved(a)
    <2>1. AskState(a) = "open" /\ asked[a] # 0 /\ ~Replied(a)
        BY <1>3, UnresolvedIsOpen
    <2>2. \A b : AskState(b)' = IF b = a THEN "withdrawn" ELSE AskState(b)
        BY <1>1, <1>2, <2>1 DEF AskState
    <2>3. QED
        BY <2>1, <2>2 DEF AskMoves, AskStates, Answerable
<1>4. CASE ~Unresolved(a)
    <2>1. UNCHANGED open_asks
        BY <1>1, <1>4 DEF RefinementInv, AskInv
    <2>2. QED
        BY <1>1, <1>2, <2>1 DEF AskStates, AskState
<1>5. QED
    BY <1>3, <1>4

-----------------------------------------------------------------------------
(***************************************************************************)
(* Every step is one of the service, or none.                              *)
(***************************************************************************)

Served == Service!Next \/ UNCHANGED <<RequestStates, TurnHolder, AskStates>>

\* An ask moves, and nobody leaves.
LEMMA AskStepServed ==
    ASSUME RefinementInv, TypeOK', AsideStep, Reached(Peers)' = Reached(Peers),
           NEW a \in Answerable,
           \/ AskState(a) = "never" /\ AskMoves(a, "open")
           \/ AskState(a) = "open" /\ (AskMoves(a, "replied") \/ AskMoves(a, "withdrawn"))
    PROVE  Service!Next
<1>1. UNCHANGED TurnHolder
    BY AsideTurn
<1>2. UNCHANGED RequestStates
    <2>1. \A c \in Conns, i \in ReqIds : RequestState(c, i) = "waiting" => c \in Reached(Peers)
        BY RequestStateNow DEF RefinementInv
    <2>2. \A c \in Conns, i \in ReqIds : RequestState(c, i)' = RequestState(c, i)
        BY <2>1, AsideRequests DEF LeavesAlone
    <2>3. QED
        BY <2>2 DEF RequestStates
<1>3. AskStates[a] = AskState(a)
    BY DEF AskStates
<1>4. CASE AskState(a) = "never" /\ AskMoves(a, "open")
    <2>1. Service!Ask(a)
        BY <1>1, <1>2, <1>3, <1>4, AskMovesIs DEF Service!Ask
    <2>2. QED
        BY <2>1 DEF Service!Next
<1>5. ASSUME NEW s \in {"replied", "withdrawn"}, AskState(a) = "open", AskMoves(a, s)
      PROVE  Service!Next
    <2>1. Service!Resolve(a)
        BY <1>1, <1>2, <1>3, <1>5, AskMovesIs DEF Service!Resolve
    <2>2. QED
        BY <2>1 DEF Service!Next
<1>6. QED
    BY <1>4, <1>5

LEMMA ConnectionServed ==
    ASSUME RefinementInv, TypeOK', ConnectionStep
    PROVE  Served
<1>1. UNCHANGED <<agent_stdin, asked, open_asks>>
    BY DEF ConnectionStep, attach, attach_refused, ws_closes, detach, ws_handler_exits, agentVars
<1>2. UNCHANGED AskStates
    BY <1>1, AsksUntouched DEF RefinementInv, NoReply
<1>3. QED
    BY <1>2, ConnectionAside, AsideLeaves DEF RefinementInv, Served

LEMMA EndServed ==
    ASSUME RefinementInv, TypeOK', agent_dies \/ mux_ttl_expires
    PROVE  Served
<1>1. UNCHANGED <<agent_stdin, asked, open_asks>>
    BY DEF agent_dies, mux_ttl_expires, agentVars
<1>2. UNCHANGED AskStates
    BY <1>1, AsksUntouched DEF RefinementInv, NoReply
<1>3. QED
    BY <1>2, EndAside, AsideLeaves DEF RefinementInv, Served

\* What a client sends, other than a reply, changes no ask, and takes only
\* the client itself out of the subscribers.
LEMMA InboundKeepsAsks ==
    ASSUME PeersApart, RefinementInv, NEW c \in Conns,
           \/ \E i \in ReqIds :
                translate_outbound_request(c, i) \/ handle_subscriber_cancel(c, i)
           \/ handle_subscriber_notification(c)
    PROVE  /\ UNCHANGED AskStates
           /\ \A d \in Reached(Peers) : d # c => d \in Reached(Peers)'
<1>1. TypeOK /\ SubscribersOwn
    BY DEF RefinementInv, RequestInv
<1>2. ASSUME UNCHANGED agentVars, NoReply
      PROVE  UNCHANGED AskStates
    BY <1>1, <1>2, AsksUntouched DEF agentVars
<1>3. ASSUME UNCHANGED conns,
             subscribers' = subscribers \/ subscribers' = Without(subscribers, PeerOf[c])
      PROVE  \A d \in Reached(Peers) : d # c => d \in Reached(Peers)'
    <2> SUFFICES ASSUME NEW d \in Reached(Peers), d # c
                 PROVE  d \in Reached(Peers)'
        OBVIOUS
    <2>1. PICK p \in Peers \cap DOMAIN subscribers : subscribers[p] = d
        BY DEF Reached
    <2>2. d \in Conns /\ conns[d] = "open" /\ PeerOf[d] = p
        BY <1>1, <2>1 DEF Reached, SubscribersOwn
    <2>3. p # PeerOf[c]
        BY <2>2 DEF PeersApart
    <2>4. p \in DOMAIN subscribers' /\ subscribers'[p] = d
        <3>1. CASE subscribers' = Without(subscribers, PeerOf[c])
            BY <2>1, <2>3, <3>1 DEF Without
        <3>2. QED
            BY <1>3, <2>1, <3>1
    <2>5. QED
        BY <1>3, <2>1, <2>2, <2>4 DEF Reached
<1>4. ASSUME NEW f \in AgentFrame, f.type # "reply", ToAgent(f)
      PROVE  NoReply
    BY <1>4 DEF ToAgent, NoReply
<1>5. ASSUME NEW i \in ReqIds, translate_outbound_request(c, i)
      PROVE  /\ UNCHANGED agentVars /\ NoReply /\ UNCHANGED conns
             /\ subscribers' = subscribers \/ subscribers' = Without(subscribers, PeerOf[c])
    <2>1. ASSUME NEW param \in MaybeSession, NEW policy, handle_attach_request(c, i, param, policy)
          PROVE  UNCHANGED <<agentVars, agent_stdin, conns, subscribers>>
        BY <2>1 DEF handle_attach_request, connVars
    <2>2. ASSUME NEW param \in MaybeSession, handle_detach_request(c, i, param)
          PROVE  /\ UNCHANGED <<agentVars, agent_stdin, conns>>
                 /\ subscribers' = subscribers \/ subscribers' = Without(subscribers, PeerOf[c])
        BY <2>2 DEF handle_detach_request
    <2>3. ASSUME NEW method, answer_from_cache(c, i, method) \/ reject_busy(c, i, method)
          PROVE  UNCHANGED <<agentVars, agent_stdin, conns, subscribers>>
        BY <2>3 DEF answer_from_cache, reject_busy, connVars
    <2>4. ASSUME NEW method, NEW param, forward_request(c, i, method, param)
          PROVE  UNCHANGED <<agentVars, conns, subscribers>> /\ NoReply
        <3> DEFINE f == [type |-> "request", mux_id |-> next_mux_id, method |-> method,
                         conn |-> c, id |-> i]
        <3>1. next_mux_id \in MuxIds /\ method \in ClientMethods
            BY <1>1, <2>4, ConstantsOK DEF TypeOK, forward_request, NewRequest
        <3>2. f \in AgentFrame /\ f.type # "reply" /\ ToAgent(f)
            BY <2>4, <3>1 DEF AgentFrame, forward_request
        <3> HIDE DEF f
        <3>3. NoReply
            BY <1>4, <3>2
        <3>4. QED
            BY <2>4, <3>3 DEF forward_request, connVars
    <2>5. QED
        BY <1>5, <2>1, <2>2, <2>3, <2>4 DEF translate_outbound_request, NoReply
<1>6. ASSUME NEW i \in ReqIds, handle_subscriber_cancel(c, i)
      PROVE  UNCHANGED <<agentVars, conns, subscribers>> /\ NoReply
    <2>1. PICK m \in DOMAIN pending :
            ToAgent([type |-> "cancel", mux_id |-> m, method |-> "$/cancel_request",
                     conn |-> c, id |-> i])
        BY <1>6 DEF handle_subscriber_cancel
    <2> DEFINE f == [type |-> "cancel", mux_id |-> m, method |-> "$/cancel_request",
                     conn |-> c, id |-> i]
    <2>2. m \in MuxIds /\ "$/cancel_request" \in ClientMethods
        BY <1>1 DEF TypeOK, ClientMethods
    <2>3. f \in AgentFrame /\ f.type # "reply" /\ ToAgent(f)
        BY <2>1, <2>2 DEF AgentFrame
    <2> HIDE DEF f
    <2>4. QED
        BY <1>4, <1>6, <2>3 DEF handle_subscriber_cancel, connVars
<1>7. ASSUME handle_subscriber_notification(c)
      PROVE  UNCHANGED <<agentVars, conns, subscribers>> /\ NoReply
    <2> DEFINE f == [type |-> "notification", conn |-> c]
    <2>1. f \in AgentFrame /\ f.type # "reply" /\ ToAgent(f)
        BY <1>7 DEF AgentFrame, handle_subscriber_notification
    <2> HIDE DEF f
    <2>2. QED
        BY <1>4, <1>7, <2>1 DEF handle_subscriber_notification, connVars
<1>8. QED
    BY <1>2, <1>3, <1>5, <1>6, <1>7

LEMMA ReplyAside ==
    ASSUME RefinementInv, NEW c \in Conns, NEW a \in AskIds \cup StrayIds,
           gate_subscriber_response(c, a)
    PROVE  AsideStep /\ Reached(Peers)' = Reached(Peers)
<1> DEFINE f == [type |-> "reply", id |-> a, conn |-> c]
<1>1. f \in AgentFrame /\ ~IsRequest(f) /\ f.type # "cancel"
    BY DEF AgentFrame, IsRequest
<1>2. agent_stdin' = Append(agent_stdin, f)
    BY DEF gate_subscriber_response, ToAgent
<1> HIDE DEF f
<1>3. StdinAside
    BY <1>1, <1>2 DEF StdinAside
<1>4. AsideStep
    BY <1>3, SilentAside DEF gate_subscriber_response, RefinementInv
<1>5. QED
    BY <1>4 DEF gate_subscriber_response, connVars, Reached

LEMMA InboundServed ==
    ASSUME PeersApart, RefinementInv, TypeOK', handle_inbound
    PROVE  Served
<1>1. PICK c \in Conns :
        \/ \E i \in ReqIds :
            translate_outbound_request(c, i) \/ handle_subscriber_cancel(c, i)
        \/ handle_subscriber_notification(c)
        \/ \E a \in AskIds \cup StrayIds : gate_subscriber_response(c, a)
    BY DEF handle_inbound
<1>2. CASE \/ \E i \in ReqIds :
                translate_outbound_request(c, i) \/ handle_subscriber_cancel(c, i)
           \/ handle_subscriber_notification(c)
    <2>1. /\ UNCHANGED AskStates
          /\ \A d \in Reached(Peers) : d # c => d \in Reached(Peers)'
        BY <1>2, InboundKeepsAsks
    <2>2. \/ AsideStep
          \/ \E i \in ReqIds, method \in ClientMethods, f \in Frame : Told(c, i, method, f)
          \/ \E i \in ReqIds, method \in ClientMethods, param \in MaybeSession :
                forward_request(c, i, method, param)
        BY <1>1, InboundSteps DEF RefinementInv
    <2>3. CASE AsideStep
        BY <2>1, <2>3, AsideLeaves DEF Served
    <2>4. CASE \E i \in ReqIds, method \in ClientMethods, f \in Frame : Told(c, i, method, f)
        BY <2>1, <2>4, ToldIsServed DEF Served
    <2>5. CASE \E i \in ReqIds, method \in ClientMethods, param \in MaybeSession :
                forward_request(c, i, method, param)
        BY <2>1, <2>5, ForwardIsServed DEF Served
    <2>6. QED
        BY <2>2, <2>3, <2>4, <2>5
<1>3. ASSUME NEW a \in AskIds \cup StrayIds, gate_subscriber_response(c, a)
      PROVE  Served
    <2>1. AsideStep /\ Reached(Peers)' = Reached(Peers)
        BY <1>3, ReplyAside
    <2>2. CASE UNCHANGED AskStates
        BY <2>1, <2>2, AsideLeaves DEF Served
    <2>3. CASE a \in Answerable /\ AskState(a) = "open" /\ AskMoves(a, "replied")
        BY <2>1, <2>3, AskStepServed DEF Served
    <2>4. QED
        BY <1>3, <2>2, <2>3, ReplyIsServed
<1>4. QED
    BY <1>1, <1>2, <1>3

\* The answer to a prompt ends the turn, with everything asked in it; any
\* other answer is one of a request that waits, or nobody hears it.
LEMMA RouteServed ==
    ASSUME PeersApart, RefinementInv, TypeOK', NEW m \in DOMAIN pending,
           NEW ok \in BOOLEAN, NEW sid \in MaybeSession \cup {NullResult},
           route_agent_response(m, ok, sid)
    PROVE  Served
<1> DEFINE Outcome(c, i) == IF RequestState(c, i) = "waiting" THEN "answered" ELSE RequestState(c, i)
<1>1. PICK c \in Conns, i \in ReqIds : Forwarded(m, c, i) /\ Moves(c, i, Outcome(c, i))
    BY RouteRequests
<1>2. RequestStates' = [RequestStates EXCEPT ![<<c, i>>] = Outcome(c, i)]
    <2>1. ASSUME NEW s, Moves(c, i, s)
          PROVE  RequestStates' = [RequestStates EXCEPT ![<<c, i>>] = s]
        BY <2>1, MovesIs
    <2>2. QED
        BY <1>1, <2>1
<1>3. <<c, i>> \in Requests /\ RequestStates[<<c, i>>] = RequestState(c, i)
    BY RequestStatesAt
<1>4. UNCHANGED <<agent_stdin, asked>>
    BY DEF route_agent_response
<1>5. TypeOK /\ ForwardedOnce /\ m # 0
    BY DEF RefinementInv, RequestInv, TypeOK, MuxIds
<1>6. CASE prompt_in_flight = m
    <2>1. TurnHolder = <<c, i>> /\ <<c, i>> # NoTurn
        BY <1>1, <1>5, <1>6, TurnIs DEF NoTurn
    <2>2. TurnHolder' = NoTurn
        BY <1>6 DEF route_agent_response, TurnHolder
    <2>3. open_asks' = {}
        BY <1>6 DEF route_agent_response, sweep_stale_agent_pending
    <2>4. \A a : Replied(a)' <=> Replied(a)
        BY <1>4 DEF Replied
    <2>5. \A a : AskState(a)' = IF AskState(a) = "open" THEN "withdrawn" ELSE AskState(a)
        BY <1>4, <2>3, <2>4 DEF AskState
    <2>6. AskStates' = [a \in Answerable |->
                            IF AskStates[a] = "open" THEN "withdrawn" ELSE AskStates[a]]
        BY <2>5 DEF AskStates
    <2>7. RequestStates' = [RequestStates EXCEPT ![TurnHolder] =
                                IF @ = "waiting" THEN "answered" ELSE @]
        BY <1>2, <1>3, <2>1
    <2>8. Service!EndTurn
        BY <2>1, <2>2, <2>6, <2>7 DEF Service!EndTurn
    <2>9. QED
        BY <2>8 DEF Service!Next, Served
<1>7. CASE prompt_in_flight # m
    <2>1. UNCHANGED <<prompt_in_flight, open_asks>>
        BY <1>7 DEF route_agent_response
    <2>2. UNCHANGED AskStates
        BY <1>4, <1>5, <2>1, AsksUntouched DEF NoReply
    <2>3. UNCHANGED TurnHolder
        <3>1. \A n, d, j : Forwarded(n, d, j)' <=> Forwarded(n, d, j)
            BY <1>4 DEF Forwarded
        <3>2. QED
            BY <2>1, <3>1, TurnStays
    <2>4. TurnHolder # <<c, i>>
        <3>1. CASE prompt_in_flight = 0
            <4>1. TurnHolder = <<>>
                BY <3>1 DEF TurnHolder, NoTurn
            <4>2. QED
                BY <4>1
        <3>2. CASE prompt_in_flight # 0
            <4>1. PICK d \in Conns, j \in ReqIds :
                    Forwarded(prompt_in_flight, d, j) /\ TurnHolder = <<d, j>>
                BY <3>2, SlotHasARequest
            <4>2. d # c \/ j # i
                BY <1>1, <1>5, <1>7, <4>1 DEF ForwardedOnce
            <4>3. QED
                BY <4>1, <4>2
        <3>3. QED
            BY <3>1, <3>2
    <2>5. CASE RequestState(c, i) = "waiting"
        <3>1. RequestStates' = [RequestStates EXCEPT ![<<c, i>>] = "answered"]
            BY <1>2, <2>5
        <3>2. Service!Answer(<<c, i>>)
            BY <1>3, <2>2, <2>3, <2>4, <2>5, <3>1 DEF Service!Answer
        <3>3. QED
            BY <1>3, <3>2 DEF Service!Next, Service!Requests, Requests, Served
    <2>6. CASE RequestState(c, i) # "waiting"
        <3>1. \A d \in Conns, j \in ReqIds : RequestState(d, j)' = RequestState(d, j)
            BY <1>1, <2>6 DEF Moves
        <3>2. UNCHANGED RequestStates
            BY <3>1 DEF RequestStates
        <3>3. QED
            BY <2>2, <2>3, <3>2 DEF Served
    <2>7. QED
        BY <2>5, <2>6
<1>8. QED
    BY <1>6, <1>7

LEMMA AgentLineServed ==
    ASSUME PeersApart, MaxAsks <= 1, RefinementInv, TypeOK', handle_agent_line
    PROVE  Served
<1>1. TypeOK /\ RequestInv
    BY DEF RefinementInv
<1>2. ASSUME NEW method \in {"notification", "raw"}, NEW sid,
             handle_agent_notification(method, sid)
      PROVE  Served
    <2>1. UNCHANGED AskStates
        BY <1>1, <1>2, AsksUntouched DEF handle_agent_notification, agentVars, NoReply
    <2>2. AsideStep
        BY <1>1, <1>2, BroadcastAside DEF handle_agent_notification
    <2>3. QED
        BY <2>1, <2>2, AsideLeaves DEF Served
<1>3. ASSUME NEW a \in AskIds, block_agent_request(a)
      PROVE  Served
    <2>1. AsideStep
        BY <1>1, <1>3, AgentAsksAside
    <2>2. NoReply
        <3> DEFINE f == [type |-> "blocked", id |-> a]
        <3>1. f \in AgentFrame /\ f.type # "reply" /\ ToAgent(f)
            BY <1>3 DEF AgentFrame, block_agent_request
        <3> HIDE DEF f
        <3>2. QED
            BY <3>1 DEF ToAgent, NoReply
    <2>3. \A b : Replied(b)' <=> Replied(b)
        BY <1>1, <2>2, RepliedSame
    <2>4. UNCHANGED open_asks /\ \A b \in Answerable : asked'[b] = asked[b]
        BY <1>1, <1>3 DEF block_agent_request, AgentAsks, TypeOK, Answerable
    <2>5. UNCHANGED AskStates
        BY <2>3, <2>4 DEF AskStates, AskState
    <2>6. QED
        BY <2>1, <2>5, AsideLeaves DEF Served
<1>4. ASSUME NEW a \in AskIds, handle_agent_request(a)
      PROVE  Served
    <2>1. AsideStep
        BY <1>1, <1>4, AgentAsksAside
    <2>2. Reached(Peers)' = Reached(Peers)
        <3>1. /\ UNCHANGED conns
              /\ DOMAIN subscribers' = {p \in DOMAIN subscribers : conns[subscribers[p]] = "open"}
              /\ \A p \in DOMAIN subscribers' : subscribers'[p] = subscribers[p]
            BY <1>4 DEF handle_agent_request, fanout
        <3>2. QED
            BY <3>1 DEF Reached
    <2>3. a \in Answerable /\ AskState(a) = "never" /\ AskMoves(a, "open")
        BY <1>4, AskIsServed
    <2>4. QED
        BY <2>1, <2>2, <2>3, AskStepServed DEF Served
<1>5. ASSUME NEW a \in AskIds, handle_agent_cancel(a)
      PROVE  Served
    <2>1. AsideStep
        BY <1>1, <1>5, AgentAsksAside
    <2>2. Reached(Peers)' = Reached(Peers)
        BY <1>5 DEF handle_agent_cancel, connVars, Reached
    <2>3. CASE UNCHANGED AskStates
        BY <2>1, <2>3, AsideLeaves DEF Served
    <2>4. CASE a \in Answerable /\ AskState(a) = "open" /\ AskMoves(a, "withdrawn")
        BY <2>1, <2>2, <2>4, AskStepServed DEF Served
    <2>5. QED
        BY <1>5, <2>3, <2>4, CancelIsServed
<1>6. QED
    BY <1>2, <1>3, <1>4, <1>5, RouteServed DEF handle_agent_line

LEMMA InitServed == Init => Service!Init
<1> SUFFICES ASSUME Init PROVE Service!Init
    OBVIOUS
<1>1. \A c \in Conns, i \in ReqIds : RequestState(c, i) = "unsent"
    BY DEF Init, RequestState, Answered, Asked
<1>2. RequestStates = [r \in Requests |-> "unsent"]
    BY <1>1 DEF RequestStates, Requests
<1>3. TurnHolder = NoTurn
    BY DEF Init, TurnHolder
<1>4. AskStates = [a \in Answerable |-> "never"]
    BY DEF Init, AskStates, AskState, Answerable
<1>5. QED
    BY <1>2, <1>3, <1>4 DEF Service!Init, Service!Requests, Requests

\* A mux keeps the promise of MuxService: a request of a connected client is
\* answered once, the agent has at most one prompt, a request of the agent is
\* replied to at most once or else withdrawn; as long as no two connections
\* share a peer id and the agent uses each request id once.
THEOREM MuxImplementsService ==
    ASSUME PeersApart, MaxAsks <= 1
    PROVE  Spec => ImplementsMuxService
<1>1. RefinementInv /\ TypeOK' /\ [Next]_vars => [Service!Next]_Service!serviceVars
    <2>1. RefinementInv /\ TypeOK' /\ Next => Served
        BY ConnectionServed, InboundServed, AgentLineServed, EndServed DEF Next
    <2>2. UNCHANGED vars => UNCHANGED <<RequestStates, TurnHolder, AskStates>>
        BY DEF vars, connVars, requestVars, agentVars, RequestStates, RequestState, Answered,
               Asked, Reached, TurnHolder, Holders, Forwarded, AskStates, AskState, Replied
    <2>3. QED
        BY <2>1, <2>2 DEF Served, Service!serviceVars
<1>2. Spec => []RefinementInv
    <2>1. TypeOK /\ PromptInv /\ ReplyInv /\ AskInv /\ RequestInv => RefinementInv
        BY DEF RefinementInv
    <2>2. QED
        BY TypeCorrect, PromptsAlways, RepliesAlways, AsksAlways, RequestsAlways, <2>1, PTL
<1>3. QED
    BY InitServed, TypeCorrect, <1>1, <1>2, PTL DEF Spec, ImplementsMuxService, Service!Spec
=============================================================================
