---------------------------- MODULE MuxCoreProofs ----------------------------
(***************************************************************************)
(* Proofs about the mux actor, for every set of connections, peers,        *)
(* request ids and sessions and every value of the bounds.                 *)
(***************************************************************************)
EXTENDS MuxCore, TLAPS, FiniteSetTheorems

-----------------------------------------------------------------------------
(***************************************************************************)
(* Lemmas about the helpers.                                               *)
(***************************************************************************)

\* Sending keeps every channel a sequence of frames.
LEMMA DeliverType ==
    ASSUME outbound \in [Conns -> Seq(Frame)], NEW C, NEW f \in Frame, Deliver(C, f)
    PROVE  outbound' \in [Conns -> Seq(Frame)]
BY DEF Deliver

LEMMA ReachedSubset == \A P : Reached(P) \subseteq Conns
BY DEF Reached

\* Removing an entry of a map leaves the others alone.
LEMMA WithoutEntry ==
    ASSUME NEW f, NEW x
    PROVE  /\ DOMAIN Without(f, x) = DOMAIN f \ {x}
           /\ \A y \in DOMAIN f \ {x} : Without(f, x)[y] = f[y]
BY DEF Without

\* Inserting one sets it and leaves the others alone.
LEMMA WithEntry ==
    ASSUME NEW f, NEW x, NEW v
    PROVE  /\ DOMAIN With(f, x, v) = DOMAIN f \cup {x}
           /\ With(f, x, v)[x] = v
           /\ \A y \in DOMAIN f \ {x} : With(f, x, v)[y] = f[y]
BY DEF With

\* A subscribers map from peers to connections stays one when an entry goes.
LEMMA SubscribersType ==
    ASSUME TypeOK, NEW p
    PROVE  LET s == Without(subscribers, p)
           IN DOMAIN s \subseteq Peers /\ \A q \in DOMAIN s : s[q] \in Conns
BY DEF TypeOK, Without

-----------------------------------------------------------------------------
(***************************************************************************)
(* Type correctness.                                                       *)
(***************************************************************************)

LEMMA InitType == Init => TypeOK
<1> SUFFICES ASSUME Init PROVE TypeOK
    OBVIOUS
<1>1. NoResult \in CachedResult
    BY DEF NoResult, CachedResult, MaybeSession
<1>2. QED
    BY <1>1 DEF Init, TypeOK, MuxIds, MaybeSession

LEMMA ConnectionType == TypeOK /\ ConnectionStep => TypeOK'
<1> SUFFICES ASSUME TypeOK, NEW c \in Conns,
                    attach(c) \/ attach_refused(c) \/ ws_closes(c) \/ detach(c)
                        \/ ws_handler_exits(c)
             PROVE  TypeOK'
    BY DEF ConnectionStep
<1> USE ConstantsOK
<1>1. CASE attach(c)
    <2>1. replay_log \in Seq(Frame)
        BY DEF TypeOK, Frame
    <2>2. outbound' \in [Conns -> Seq(Frame)]
        BY <1>1, <2>1 DEF TypeOK, attach
    <2>3. /\ DOMAIN subscribers' \subseteq Peers
          /\ \A p \in DOMAIN subscribers' : subscribers'[p] \in Conns
        BY <1>1 DEF TypeOK, attach, With
    <2>4. QED
        BY <1>1, <2>2, <2>3
        DEF TypeOK, attach, requestVars, handshakeVars, agentVars
<1>2. CASE attach_refused(c)
    <2>1. [type |-> "close"] \in Frame
        BY DEF Frame
    <2>2. outbound' \in [Conns -> Seq(Frame)]
        BY <1>2, <2>1 DEF TypeOK, attach_refused
    <2>3. QED
        BY <1>2, <2>2 DEF TypeOK, attach_refused, requestVars, handshakeVars, agentVars
<1>3. CASE ws_closes(c)
    BY <1>3 DEF TypeOK, ws_closes, requestVars, handshakeVars, agentVars
<1>4. CASE detach(c)
    <2>1. /\ DOMAIN subscribers' \subseteq Peers
          /\ \A p \in DOMAIN subscribers' : subscribers'[p] \in Conns
        BY <1>4, SubscribersType DEF detach
    <2>2. QED
        BY <1>4, <2>1 DEF TypeOK, detach, requestVars, handshakeVars, agentVars
<1>5. CASE ws_handler_exits(c)
    BY <1>5 DEF TypeOK, ws_handler_exits, requestVars, handshakeVars, agentVars
<1>6. QED
    BY <1>1, <1>2, <1>3, <1>4, <1>5

\* Writing to the agent keeps its stdin a sequence of frames.
LEMMA ToAgentType ==
    ASSUME agent_stdin \in Seq(AgentFrame), NEW f \in AgentFrame, ToAgent(f)
    PROVE  agent_stdin' \in Seq(AgentFrame)
BY DEF ToAgent

LEMMA SendToType ==
    ASSUME outbound \in [Conns -> Seq(Frame)], NEW p, NEW f \in Frame, send_to(p, f)
    PROVE  outbound' \in [Conns -> Seq(Frame)]
BY DeliverType DEF send_to

LEMMA NewRequestType ==
    ASSUME TypeOK, NEW c \in Conns, NEW i \in ReqIds, NEW method, NewRequest(c, i, method)
    PROVE  /\ sent' \in [Conns -> SUBSET [id : ReqIds, method : ClientMethods]]
           /\ method \in ClientMethods
BY ConstantsOK DEF TypeOK, NewRequest

LEMMA LocalRequestType ==
    ASSUME TypeOK, NEW c \in Conns, NEW i \in ReqIds, NEW param \in MaybeSession,
           NEW method, NEW policy \in {"none", "full", "pending_only"},
           \/ handle_attach_request(c, i, param, policy)
           \/ handle_detach_request(c, i, param)
           \/ answer_from_cache(c, i, method)
           \/ reject_busy(c, i, method)
    PROVE  TypeOK'
<1>1. CASE handle_attach_request(c, i, param, policy)
    <2> DEFINE resolved == ResolvedSession(param)
               history == CASE policy = "none" -> {}
                            [] policy = "full" -> history_full
                            [] policy = "pending_only" -> history_pending_only
               f == IF session_id_mismatch(param, resolved)
                    THEN Response(i, FALSE, 0, None)
                    ELSE [type |-> "attached", id |-> i, sid |-> resolved,
                          history |-> history]
    <2>1. resolved \in MaybeSession
        BY DEF ResolvedSession, TypeOK
    <2>2. history_full \subseteq Nat /\ history_pending_only \subseteq AskIds
        BY DEF history_full, history_pending_only, TypeOK
    <2>3. history \in SUBSET (Nat \cup AskIds)
        BY <2>2
    <2> HIDE DEF resolved, history
    <2>4. f \in Frame
        BY <2>1, <2>3 DEF Frame, Response, MaybeSession
    <2>5. send_to(PeerOf[c], f) /\ NewRequest(c, i, "session/attach")
        BY <1>1 DEF handle_attach_request, resolved, history
    <2>6. outbound' \in [Conns -> Seq(Frame)]
        BY <2>4, <2>5, SendToType DEF TypeOK
    <2>7. QED
        BY <1>1, <2>5, <2>6, NewRequestType
        DEF TypeOK, handle_attach_request, connVars, requestVars, handshakeVars, agentVars
<1>2. CASE handle_detach_request(c, i, param)
    <2> DEFINE mismatch == session_id_mismatch(param, canonical_session_id)
               f == Response(i, ~mismatch, 0, IF mismatch THEN None
                                              ELSE canonical_session_id)
    <2>1. f \in Frame
        BY DEF Frame, Response, TypeOK, MaybeSession
    <2>2. send_to(PeerOf[c], f) /\ NewRequest(c, i, "session/detach")
        BY <1>2 DEF handle_detach_request
    <2>3. outbound' \in [Conns -> Seq(Frame)]
        BY <2>1, <2>2, SendToType DEF TypeOK
    <2>4. /\ DOMAIN subscribers' \subseteq Peers
          /\ \A p \in DOMAIN subscribers' : subscribers'[p] \in Conns
        BY <1>2, SubscribersType DEF handle_detach_request, TypeOK
    <2>5. QED
        BY <1>2, <2>2, <2>3, <2>4, NewRequestType
        DEF TypeOK, handle_detach_request, requestVars, handshakeVars, agentVars
<1>3. CASE answer_from_cache(c, i, method)
    <2> DEFINE f == IF method = "initialize"
                    THEN Response(i, TRUE, initialize_cache, None)
                    ELSE Response(i, TRUE, session_new_cache.by, session_new_cache.sid)
    <2>1. f \in Frame
        BY DEF Frame, Response, TypeOK, MaybeSession, CachedResult
    <2>2. send_to(PeerOf[c], f) /\ NewRequest(c, i, method)
        BY <1>3 DEF answer_from_cache
    <2>3. outbound' \in [Conns -> Seq(Frame)]
        BY <2>1, <2>2, SendToType DEF TypeOK
    <2>4. QED
        BY <1>3, <2>2, <2>3, NewRequestType
        DEF TypeOK, answer_from_cache, connVars, requestVars, handshakeVars, agentVars
<1>4. CASE reject_busy(c, i, method)
    <2>1. Response(i, FALSE, 0, None) \in Frame
        BY DEF Frame, Response, MaybeSession
    <2>2. send_to(PeerOf[c], Response(i, FALSE, 0, None)) /\ NewRequest(c, i, method)
        BY <1>4 DEF reject_busy
    <2>3. outbound' \in [Conns -> Seq(Frame)]
        BY <2>1, <2>2, SendToType DEF TypeOK
    <2>4. QED
        BY <1>4, <2>2, <2>3, NewRequestType
        DEF TypeOK, reject_busy, connVars, requestVars, handshakeVars, agentVars
<1>5. QED
    BY <1>1, <1>2, <1>3, <1>4

LEMMA ForwardedType ==
    ASSUME TypeOK, NEW c \in Conns, NEW i \in ReqIds, NEW method,
           NEW param \in MaybeSession, forward_request(c, i, method, param)
    PROVE  TypeOK'
<1> DEFINE r == [peer_id |-> PeerOf[c], original_id |-> i,
                 handshake |-> handshake_kind(method, param),
                 loaded_session_id |-> param]
           f == [type |-> "request", mux_id |-> next_mux_id, method |-> method,
                 conn |-> c, id |-> i]
<1>1. /\ NewRequest(c, i, method) /\ ToAgent(f)
      /\ pending' = With(pending, next_mux_id, r)
    BY DEF forward_request
<1>2. r \in PendingRequest
    BY ConstantsOK DEF PendingRequest, handshake_kind, Handshakes
<1>3. f \in AgentFrame
    BY <1>1, NewRequestType DEF AgentFrame, TypeOK
<1> HIDE DEF r, f
<1>4. agent_stdin' \in Seq(AgentFrame)
    BY <1>1, <1>3, ToAgentType DEF TypeOK
<1>5. /\ DOMAIN pending' \subseteq MuxIds
      /\ \A m \in DOMAIN pending' : pending'[m] \in PendingRequest
    BY <1>1, <1>2 DEF TypeOK, With
<1>6. next_mux_id' \in MuxIds /\ prompt_in_flight' \in Nat
    BY DEF forward_request, TypeOK, MuxIds
<1>7. QED
    BY <1>1, <1>4, <1>5, <1>6, NewRequestType
    DEF TypeOK, forward_request, connVars, handshakeVars, agentVars

LEMMA SubscriberFrameType ==
    ASSUME TypeOK, NEW c \in Conns,
           \/ \E i \in ReqIds : handle_subscriber_cancel(c, i)
           \/ handle_subscriber_notification(c)
           \/ \E a \in AskIds \cup StrayIds : gate_subscriber_response(c, a)
    PROVE  TypeOK'
<1>1. ASSUME NEW i \in ReqIds, handle_subscriber_cancel(c, i) PROVE TypeOK'
    <2>1. PICK m \in DOMAIN pending :
                ToAgent([type |-> "cancel", mux_id |-> m, method |-> "$/cancel_request",
                         conn |-> c, id |-> i])
        BY <1>1 DEF handle_subscriber_cancel
    <2>2. [type |-> "cancel", mux_id |-> m, method |-> "$/cancel_request",
           conn |-> c, id |-> i] \in AgentFrame
        BY DEF AgentFrame, ClientMethods, TypeOK
    <2>3. agent_stdin' \in Seq(AgentFrame)
        BY <2>1, <2>2, ToAgentType DEF TypeOK
    <2>4. QED
        BY <1>1, <2>3 DEF TypeOK, handle_subscriber_cancel, connVars, requestVars,
                          handshakeVars, agentVars
<1>2. CASE handle_subscriber_notification(c)
    <2>1. [type |-> "notification", conn |-> c] \in AgentFrame
        BY DEF AgentFrame
    <2>2. agent_stdin' \in Seq(AgentFrame)
        BY <1>2, <2>1, ToAgentType DEF TypeOK, handle_subscriber_notification
    <2>3. QED
        BY <1>2, <2>2 DEF TypeOK, handle_subscriber_notification, connVars,
                          requestVars, handshakeVars, agentVars
<1>3. ASSUME NEW a \in AskIds \cup StrayIds, gate_subscriber_response(c, a) PROVE TypeOK'
    <2>1. [type |-> "reply", id |-> a, conn |-> c] \in AgentFrame
        BY DEF AgentFrame
    <2>2. agent_stdin' \in Seq(AgentFrame)
        BY <1>3, <2>1, ToAgentType DEF TypeOK, gate_subscriber_response
    <2>3. /\ DOMAIN agent_pending' \subseteq AskIds
          /\ \A b \in DOMAIN agent_pending' : agent_pending'[b] \in {"InFlight", "Consumed"}
          /\ pending_permissions' \subseteq [id : AskIds, use : Nat]
          /\ open_asks' \subseteq AskIds
        BY <1>3 DEF TypeOK, gate_subscriber_response, RetainExcept
    <2>4. QED
        BY <1>3, <2>2, <2>3 DEF TypeOK, gate_subscriber_response, connVars,
                                requestVars, handshakeVars
<1>4. QED
    BY <1>1, <1>2, <1>3

LEMMA InboundType == TypeOK /\ handle_inbound => TypeOK'
<1> SUFFICES ASSUME TypeOK, handle_inbound PROVE TypeOK'
    OBVIOUS
<1>1. PICK c \in Conns :
        \/ \E i \in ReqIds :
            translate_outbound_request(c, i) \/ handle_subscriber_cancel(c, i)
        \/ handle_subscriber_notification(c)
        \/ \E a \in AskIds \cup StrayIds : gate_subscriber_response(c, a)
    BY DEF handle_inbound
<1>2. ASSUME NEW i \in ReqIds, translate_outbound_request(c, i) PROVE TypeOK'
    <2>1. None \in MaybeSession
        BY DEF MaybeSession
    <2>2. QED
        BY <1>2, <2>1, LocalRequestType, ForwardedType DEF translate_outbound_request
<1>3. QED
    BY <1>1, <1>2, SubscriberFrameType

\* A broadcast is recorded and sent as one frame.
LEMMA BroadcastType ==
    ASSUME TypeOK, NEW method \in {"notification", "cancel", "raw"}, broadcast(method)
    PROVE  replay_log' \in Seq(BroadcastFrame) /\ outbound' \in [Conns -> Seq(Frame)]
<1> DEFINE f == [type |-> "broadcast", method |-> method, seq |-> Len(replay_log) + 1]
<1>1. f \in BroadcastFrame
    BY DEF TypeOK, BroadcastFrame
<1>2. f \in Frame
    BY <1>1 DEF Frame
<1>3. replay_log' = Append(replay_log, f) /\ Deliver(Reached(Peers), f)
    BY DEF broadcast, BroadcastOf
<1> HIDE DEF f
<1>4. QED
    BY <1>1, <1>2, <1>3, DeliverType DEF TypeOK

LEMMA AgentRequestType ==
    ASSUME TypeOK, NEW a \in AskIds,
           block_agent_request(a) \/ handle_agent_request(a) \/ handle_agent_cancel(a)
    PROVE  TypeOK'
<1>1. CASE block_agent_request(a)
    <2>1. [type |-> "blocked", id |-> a] \in AgentFrame
        BY DEF AgentFrame
    <2>2. agent_stdin' \in Seq(AgentFrame)
        BY <1>1, <2>1, ToAgentType DEF TypeOK, block_agent_request
    <2>3. asked' \in [AskIds -> Nat]
        BY <1>1 DEF TypeOK, block_agent_request, AgentAsks
    <2>4. QED
        BY <1>1, <2>2, <2>3 DEF TypeOK, block_agent_request, connVars, requestVars,
                                handshakeVars
<1>2. CASE handle_agent_request(a)
    <2>1. [type |-> "ask", id |-> a] \in Frame
        BY DEF Frame
    <2>2. outbound' \in [Conns -> Seq(Frame)]
        BY <1>2, <2>1, DeliverType DEF TypeOK, handle_agent_request, fanout
    <2>3. asked' \in [AskIds -> Nat]
        BY <1>2 DEF TypeOK, handle_agent_request, AgentAsks
    <2>4. /\ DOMAIN agent_pending' \subseteq AskIds
          /\ \A b \in DOMAIN agent_pending' : agent_pending'[b] \in {"InFlight", "Consumed"}
        BY <1>2 DEF TypeOK, handle_agent_request, or_insert_in_flight, With
    <2>5. pending_permissions' \subseteq [id : AskIds, use : Nat]
        BY <1>2, <2>3 DEF TypeOK, handle_agent_request
    <2>6. /\ DOMAIN subscribers' \subseteq Peers
          /\ \A p \in DOMAIN subscribers' : subscribers'[p] \in Conns
        BY <1>2 DEF TypeOK, handle_agent_request, fanout
    <2>7. QED
        BY <1>2, <2>2, <2>3, <2>4, <2>5, <2>6
        DEF TypeOK, handle_agent_request, requestVars, handshakeVars
<1>3. CASE handle_agent_cancel(a)
    <2>1. replay_log' \in Seq(BroadcastFrame) /\ outbound' \in [Conns -> Seq(Frame)]
        BY <1>3, BroadcastType DEF handle_agent_cancel
    <2>2. /\ DOMAIN agent_pending' \subseteq AskIds
          /\ \A b \in DOMAIN agent_pending' : agent_pending'[b] \in {"InFlight", "Consumed"}
          /\ pending_permissions' \subseteq [id : AskIds, use : Nat]
          /\ open_asks' \subseteq AskIds
        BY <1>3 DEF TypeOK, handle_agent_cancel, Unresolved, RetainExcept
    <2>3. QED
        BY <1>3, <2>1, <2>2 DEF TypeOK, handle_agent_cancel, connVars, requestVars,
                                handshakeVars
<1>4. QED
    BY <1>1, <1>2, <1>3

\* What a settled handshake leaves behind is a session, or none, and a result.
LEMMA HandshakeType ==
    ASSUME TypeOK, NEW m \in DOMAIN pending, NEW sid \in ResultsOf(pending[m].handshake),
           apply_successful_handshake(m, sid)
    PROVE  /\ initialize_cache' \in Nat
           /\ canonical_session_id' \in MaybeSession
           /\ session_new_cache' \in CachedResult
<1> DEFINE h == pending[m].handshake
<1>1. /\ m \in Nat
      /\ h \in Handshakes \cup {"none"}
      /\ pending[m].loaded_session_id \in MaybeSession
    BY DEF TypeOK, PendingRequest, MuxIds
<1>2. initialize_cache' \in Nat
    BY <1>1 DEF apply_successful_handshake, TypeOK
<1>3. CASE h = "session/new"
    <2>1. sid \in MaybeSession
        BY <1>3, ConstantsOK DEF ResultsOf, MaybeSession
    <2>2. QED
        BY <1>1, <1>2, <1>3, <2>1 DEF apply_successful_handshake, canonical_after, TypeOK, CachedResult
<1>4. CASE h = "session/load"
    <2>1. sid \in MaybeSession \cup {NullResult}
        BY <1>4, ConstantsOK DEF ResultsOf, MaybeSession
    <2>2. QED
        BY <1>1, <1>2, <1>4, <2>1 DEF apply_successful_handshake, canonical_after, TypeOK, CachedResult
<1>5. CASE h \notin {"session/new", "session/load"}
    BY <1>2, <1>5 DEF apply_successful_handshake, canonical_after, TypeOK
<1>6. QED
    BY <1>3, <1>4, <1>5

LEMMA AgentResponseType ==
    ASSUME TypeOK, NEW m \in DOMAIN pending, NEW ok \in BOOLEAN,
           NEW sid \in MaybeSession \cup {NullResult}, route_agent_response(m, ok, sid)
    PROVE  TypeOK'
<1> DEFINE f == Response(pending[m].original_id, ok, m,
                         IF sid = NullResult THEN None ELSE sid)
<1>1. f \in Frame
    BY DEF TypeOK, Frame, Response, PendingRequest, MuxIds, MaybeSession
<1>2. send_to(pending[m].peer_id, f)
    BY DEF route_agent_response
<1> HIDE DEF f
<1>3. outbound' \in [Conns -> Seq(Frame)]
    BY <1>1, <1>2, SendToType DEF TypeOK
<1>4. /\ DOMAIN pending' \subseteq MuxIds
      /\ \A n \in DOMAIN pending' : pending'[n] \in PendingRequest
    BY DEF route_agent_response, Without, TypeOK
<1>5. /\ prompt_in_flight' \in Nat
      /\ DOMAIN agent_pending' \subseteq AskIds
      /\ \A b \in DOMAIN agent_pending' : agent_pending'[b] \in {"InFlight", "Consumed"}
      /\ pending_permissions' \subseteq [id : AskIds, use : Nat]
      /\ open_asks' \subseteq AskIds
    BY DEF route_agent_response, sweep_stale_agent_pending, RetainExcept, TypeOK
<1>6. /\ initialize_cache' \in Nat
      /\ canonical_session_id' \in MaybeSession
      /\ session_new_cache' \in CachedResult
    BY HandshakeType DEF route_agent_response, handshakeVars, TypeOK
<1>7. QED
    BY <1>3, <1>4, <1>5, <1>6 DEF TypeOK, route_agent_response, connVars

LEMMA AgentLineType == TypeOK /\ handle_agent_line => TypeOK'
<1> SUFFICES ASSUME TypeOK, handle_agent_line PROVE TypeOK'
    OBVIOUS
<1>1. ASSUME NEW method \in {"notification", "raw"}, NEW sid \in Switches,
             handle_agent_notification(method, sid)
      PROVE  TypeOK'
    <2>1. replay_log' \in Seq(BroadcastFrame) /\ outbound' \in [Conns -> Seq(Frame)]
        BY <1>1, BroadcastType DEF handle_agent_notification
    <2>2. canonical_session_id' \in MaybeSession
        BY <1>1, ConstantsOK DEF handle_agent_notification, TypeOK, MaybeSession
    <2>3. QED
        BY <1>1, <2>1, <2>2 DEF TypeOK, handle_agent_notification, connVars,
                                requestVars, agentVars
<1>2. QED
    BY <1>1, AgentRequestType, AgentResponseType DEF handle_agent_line

LEMMA EndType == TypeOK /\ (agent_dies \/ mux_ttl_expires) => TypeOK'
<1> SUFFICES ASSUME TypeOK, agent_dies \/ mux_ttl_expires PROVE TypeOK'
    OBVIOUS
<1>1. CASE agent_dies
    <2>1. [type |-> "close"] \in Frame
        BY DEF Frame
    <2>2. outbound' \in [Conns -> Seq(Frame)]
        BY <1>1, <2>1, DeliverType DEF TypeOK, agent_dies
    <2>3. QED
        BY <1>1, <2>2 DEF TypeOK, agent_dies, requestVars, handshakeVars, agentVars
<1>2. CASE mux_ttl_expires
    BY <1>2 DEF TypeOK, mux_ttl_expires, requestVars, handshakeVars, agentVars
<1>3. QED
    BY <1>1, <1>2

\* The actor's state and every frame it sends have the types of the code's
\* structs, in every behaviour.
THEOREM TypeCorrect == Spec => []TypeOK
<1>1. TypeOK /\ [Next]_vars => TypeOK'
    <2>1. TypeOK /\ UNCHANGED vars => TypeOK'
        BY DEF TypeOK, vars, connVars, requestVars, handshakeVars, agentVars
    <2>2. QED
        BY <2>1, ConnectionType, InboundType, AgentLineType, EndType DEF Next
<1>2. QED
    BY InitType, <1>1, PTL DEF Spec

-----------------------------------------------------------------------------
(***************************************************************************)
(* The prompt slot.  OnePromptAtTheAgent is not inductive: that the prompt *)
(* just forwarded is the only unanswered one needs that no earlier request *)
(* carries its mux id, and that the slot is only held by a pending one.    *)
(***************************************************************************)

IsRequest(f) == f.type = "request"
IsPrompt(f) == f.type = "request" /\ f.method = "session/prompt"

PromptInv ==
    /\ \A k \in DOMAIN agent_stdin :
        IsRequest(agent_stdin[k]) => agent_stdin[k].mux_id < next_mux_id
    /\ \A m \in DOMAIN pending : m < next_mux_id
    /\ prompt_in_flight # 0 => prompt_in_flight \in DOMAIN pending
    /\ OnePromptAtTheAgent

\* Only a request or a cancel carries a mux id.
LEMMA RequestFrameType ==
    ASSUME TypeOK
    PROVE  \A k \in DOMAIN agent_stdin :
                IsRequest(agent_stdin[k]) => agent_stdin[k].mux_id \in Nat \ {0}
<1>1. ASSUME NEW f \in AgentFrame, IsRequest(f) PROVE f.mux_id \in Nat \ {0}
    BY <1>1 DEF AgentFrame, IsRequest, MuxIds
<1>2. \A k \in DOMAIN agent_stdin : agent_stdin[k] \in AgentFrame
    BY DEF TypeOK
<1>3. QED
    BY <1>1, <1>2

\* The steps that neither forward a request nor settle one.
Quiet ==
    /\ UNCHANGED requestVars
    /\ \/ UNCHANGED agent_stdin
       \/ \E f \in AgentFrame : ~IsRequest(f) /\ agent_stdin' = Append(agent_stdin, f)

\* What a step may do to the requests: nothing, forward one, settle one.
LEMMA RequestSteps ==
    ASSUME TypeOK, Next
    PROVE  \/ Quiet
           \/ \E c \in Conns, i \in ReqIds, method \in ClientMethods, param \in MaybeSession :
                forward_request(c, i, method, param)
           \/ \E m \in DOMAIN pending, ok \in BOOLEAN, sid \in MaybeSession \cup {NullResult} :
                route_agent_response(m, ok, sid)
<1>1. CASE ConnectionStep
    BY <1>1 DEF ConnectionStep, attach, attach_refused, ws_closes, detach,
                ws_handler_exits, Quiet
<1>2. CASE handle_inbound
    <2>1. PICK c \in Conns :
            \/ \E i \in ReqIds :
                translate_outbound_request(c, i) \/ handle_subscriber_cancel(c, i)
            \/ handle_subscriber_notification(c)
            \/ \E a \in AskIds \cup StrayIds : gate_subscriber_response(c, a)
        BY <1>2 DEF handle_inbound
    <2>2. ASSUME NEW i \in ReqIds, translate_outbound_request(c, i)
          PROVE  \/ Quiet
                 \/ \E method \in ClientMethods, param \in MaybeSession :
                        forward_request(c, i, method, param)
        <3>1. Methods \subseteq ClientMethods /\ "session/load" \in ClientMethods
            BY ConstantsOK DEF ClientMethods
        <3>2. None \in MaybeSession
            BY DEF MaybeSession
        <3>3. QED
            BY <2>2, <3>1, <3>2
            DEF translate_outbound_request, handle_attach_request,
                handle_detach_request, answer_from_cache, reject_busy, Quiet
    <2>3. ASSUME NEW i \in ReqIds, handle_subscriber_cancel(c, i) PROVE Quiet
        <3>1. PICK m \in DOMAIN pending :
                ToAgent([type |-> "cancel", mux_id |-> m, method |-> "$/cancel_request",
                         conn |-> c, id |-> i])
            BY <2>3 DEF handle_subscriber_cancel
        <3>2. [type |-> "cancel", mux_id |-> m, method |-> "$/cancel_request",
               conn |-> c, id |-> i] \in AgentFrame
            BY DEF AgentFrame, ClientMethods, TypeOK
        <3>3. QED
            BY <2>3, <3>1, <3>2 DEF handle_subscriber_cancel, ToAgent, IsRequest, Quiet
    <2>4. ASSUME handle_subscriber_notification(c) PROVE Quiet
        <3>1. [type |-> "notification", conn |-> c] \in AgentFrame
            BY DEF AgentFrame
        <3>2. QED
            BY <2>4, <3>1 DEF handle_subscriber_notification, ToAgent, IsRequest, Quiet
    <2>5. ASSUME NEW a \in AskIds \cup StrayIds, gate_subscriber_response(c, a) PROVE Quiet
        <3>1. [type |-> "reply", id |-> a, conn |-> c] \in AgentFrame
            BY DEF AgentFrame
        <3>2. QED
            BY <2>5, <3>1 DEF gate_subscriber_response, ToAgent, IsRequest, Quiet
    <2>6. QED
        BY <2>1, <2>2, <2>3, <2>4, <2>5
<1>3. CASE handle_agent_line
    <2>1. ASSUME NEW a \in AskIds, block_agent_request(a) PROVE Quiet
        <3>1. [type |-> "blocked", id |-> a] \in AgentFrame
            BY DEF AgentFrame
        <3>2. QED
            BY <2>1, <3>1 DEF block_agent_request, ToAgent, IsRequest, Quiet
    <2>2. ASSUME NEW a \in AskIds, handle_agent_request(a) \/ handle_agent_cancel(a)
          PROVE  Quiet
        BY <2>2 DEF handle_agent_request, handle_agent_cancel, Quiet
    <2>3. ASSUME NEW method, NEW sid, handle_agent_notification(method, sid)
          PROVE  Quiet
        BY <2>3 DEF handle_agent_notification, Quiet
    <2>4. QED
        BY <1>3, <2>1, <2>2, <2>3 DEF handle_agent_line
<1>4. CASE agent_dies \/ mux_ttl_expires
    BY <1>4 DEF agent_dies, mux_ttl_expires, Quiet
<1>5. QED
    BY <1>1, <1>2, <1>3, <1>4 DEF Next

LEMMA QuietKeepsPrompts ==
    ASSUME TypeOK, PromptInv, Quiet
    PROVE  PromptInv'
<1> USE DEF PromptInv, OnePromptAtTheAgent, IsRequest
<1>1. CASE UNCHANGED agent_stdin
    BY <1>1 DEF Quiet, requestVars
<1>2. ASSUME NEW f \in AgentFrame, f.type # "request",
             agent_stdin' = Append(agent_stdin, f)
      PROVE  PromptInv'
    <2>1. /\ DOMAIN agent_stdin' = DOMAIN agent_stdin \cup {Len(agent_stdin) + 1}
          /\ \A k \in DOMAIN agent_stdin : agent_stdin'[k] = agent_stdin[k]
          /\ agent_stdin'[Len(agent_stdin) + 1] = f
        BY <1>2 DEF TypeOK
    <2>2. QED
        BY <1>2, <2>1 DEF Quiet, requestVars
<1>3. QED
    BY <1>1, <1>2 DEF Quiet

LEMMA ForwardKeepsPrompts ==
    ASSUME TypeOK, PromptInv, NEW c \in Conns, NEW i \in ReqIds,
           NEW method \in ClientMethods, NEW param \in MaybeSession,
           forward_request(c, i, method, param)
    PROVE  PromptInv'
<1> DEFINE f == [type |-> "request", mux_id |-> next_mux_id, method |-> method,
                 conn |-> c, id |-> i]
           last == Len(agent_stdin) + 1
<1>1. /\ agent_stdin' = Append(agent_stdin, f)
      /\ next_mux_id' = next_mux_id + 1
      /\ prompt_in_flight' = IF method = "session/prompt" THEN next_mux_id
                                                          ELSE prompt_in_flight
      /\ method = "session/prompt" => prompt_in_flight = 0
    BY DEF forward_request, ToAgent, PromptBusy
<1>2. DOMAIN pending' = DOMAIN pending \cup {next_mux_id}
    BY DEF forward_request, With
<1>3. /\ DOMAIN agent_stdin' = DOMAIN agent_stdin \cup {last}
      /\ \A k \in DOMAIN agent_stdin : agent_stdin'[k] = agent_stdin[k]
      /\ agent_stdin'[last] = f
    BY <1>1 DEF TypeOK
<1>4. next_mux_id \in Nat \ {0} /\ DOMAIN pending \subseteq Nat /\ prompt_in_flight \in Nat
    BY DEF TypeOK, MuxIds
<1>5. \A k \in DOMAIN agent_stdin :
        IsRequest(agent_stdin[k]) => agent_stdin[k].mux_id \in Nat \ {0}
    BY RequestFrameType
<1>6. f.type = "request" /\ f.mux_id = next_mux_id /\ f.method = method
    OBVIOUS
<1> HIDE DEF f, last
<1>7. /\ \A k \in DOMAIN agent_stdin' :
            IsRequest(agent_stdin'[k]) => agent_stdin'[k].mux_id < next_mux_id'
      /\ \A m \in DOMAIN pending' : m < next_mux_id'
      /\ prompt_in_flight' # 0 => prompt_in_flight' \in DOMAIN pending'
    BY <1>1, <1>2, <1>3, <1>4, <1>5, <1>6 DEF PromptInv, IsRequest
<1>8. ASSUME NEW k \in DOMAIN agent_stdin', IsPrompt(agent_stdin'[k])
      PROVE  agent_stdin'[k].mux_id \in DOMAIN pending'
                <=> agent_stdin'[k].mux_id = prompt_in_flight'
    <2>1. CASE k = last
        BY <1>1, <1>2, <1>3, <1>6, <1>8, <2>1 DEF IsPrompt
    <2>2. CASE k # last
        <3>1. /\ k \in DOMAIN agent_stdin /\ IsPrompt(agent_stdin[k])
              /\ agent_stdin'[k] = agent_stdin[k]
            BY <1>3, <1>8, <2>2
        <3>2. /\ agent_stdin[k].mux_id # next_mux_id /\ agent_stdin[k].mux_id # 0
              /\ agent_stdin[k].mux_id \in DOMAIN pending
                    <=> agent_stdin[k].mux_id = prompt_in_flight
            BY <1>4, <1>5, <3>1 DEF PromptInv, OnePromptAtTheAgent, IsPrompt, IsRequest
        <3>3. QED
            BY <1>1, <1>2, <3>1, <3>2
    <2>3. QED
        BY <2>1, <2>2
<1>9. ASSUME prompt_in_flight' # 0
      PROVE  \E k \in DOMAIN agent_stdin' :
                IsPrompt(agent_stdin'[k]) /\ agent_stdin'[k].mux_id = prompt_in_flight'
    <2>1. CASE method = "session/prompt"
        BY <1>1, <1>3, <1>6, <2>1 DEF IsPrompt
    <2>2. CASE method # "session/prompt"
        BY <1>1, <1>3, <1>9, <2>2 DEF PromptInv, OnePromptAtTheAgent, IsPrompt
    <2>3. QED
        BY <2>1, <2>2
<1>10. QED
    BY <1>7, <1>8, <1>9 DEF PromptInv, OnePromptAtTheAgent, IsPrompt

LEMMA ResponseKeepsPrompts ==
    ASSUME TypeOK, PromptInv, NEW m \in DOMAIN pending, NEW ok, NEW sid,
           route_agent_response(m, ok, sid)
    PROVE  PromptInv'
<1>1. /\ DOMAIN pending' = DOMAIN pending \ {m}
      /\ prompt_in_flight' = IF prompt_in_flight = m THEN 0 ELSE prompt_in_flight
      /\ UNCHANGED <<next_mux_id, agent_stdin>>
    BY DEF route_agent_response, Without
<1>2. m \in Nat \ {0}
    BY DEF TypeOK, MuxIds
<1>3. \A k \in DOMAIN agent_stdin :
        IsRequest(agent_stdin[k]) => agent_stdin[k].mux_id \in Nat \ {0}
    BY RequestFrameType
<1>4. /\ \A k \in DOMAIN agent_stdin' :
            IsRequest(agent_stdin'[k]) => agent_stdin'[k].mux_id < next_mux_id'
      /\ \A n \in DOMAIN pending' : n < next_mux_id'
      /\ prompt_in_flight' # 0 => prompt_in_flight' \in DOMAIN pending'
    BY <1>1 DEF PromptInv
<1>5. ASSUME NEW k \in DOMAIN agent_stdin, IsPrompt(agent_stdin[k])
      PROVE  agent_stdin[k].mux_id \in DOMAIN pending'
                <=> agent_stdin[k].mux_id = prompt_in_flight'
    BY <1>1, <1>3, <1>5 DEF PromptInv, OnePromptAtTheAgent, IsPrompt, IsRequest
<1>6. QED
    BY <1>1, <1>4, <1>5 DEF PromptInv, OnePromptAtTheAgent, IsPrompt

LEMMA PromptsAlways == Spec => []PromptInv
<1>1. Init => PromptInv
    BY DEF Init, PromptInv, OnePromptAtTheAgent
<1>2. TypeOK /\ PromptInv /\ [Next]_vars => PromptInv'
    <2>1. TypeOK /\ PromptInv /\ UNCHANGED vars => PromptInv'
        BY DEF vars, requestVars, PromptInv, OnePromptAtTheAgent
    <2>2. QED
        BY <2>1, RequestSteps, QuietKeepsPrompts, ForwardKeepsPrompts, ResponseKeepsPrompts
<1>3. QED
    BY TypeCorrect, <1>1, <1>2, PTL DEF Spec

\* The agent is never given a prompt before the response to the previous one
\* was routed, and the slot is freed by that response and by nothing else.
THEOREM PromptSlot == Spec => []OnePromptAtTheAgent
<1>1. PromptInv => OnePromptAtTheAgent
    BY DEF PromptInv
<1>2. QED
    BY PromptsAlways, <1>1, PTL

-----------------------------------------------------------------------------
(***************************************************************************)
(* First writer wins.  A second reply is dropped because the first left    *)
(* its id Consumed for good; and no reply slips through as one to an       *)
(* unknown id, because an ask is recorded before any subscriber sees it.   *)
(***************************************************************************)

AsksSeen ==
    \A c \in Conns : \A k \in DOMAIN outbound[c] :
        outbound[c][k].type = "ask" => outbound[c][k].id \in DOMAIN agent_pending

RepliesConsume ==
    \A k \in DOMAIN agent_stdin :
        LET f == agent_stdin[k]
        IN f.type = "reply" /\ f.id \in AskIds =>
            f.id \in DOMAIN agent_pending /\ agent_pending[f.id] = "Consumed"

ReplyInv == AsksSeen /\ RepliesConsume /\ OneReplyPerAsk

\* An id is never forgotten, and once consumed it stays so.
RecordsGrow ==
    /\ DOMAIN agent_pending \subseteq DOMAIN agent_pending'
    /\ \A a \in DOMAIN agent_pending :
        agent_pending[a] = "Consumed" => agent_pending'[a] = "Consumed"

NoReply ==
    \/ UNCHANGED agent_stdin
    \/ \E f \in AgentFrame : f.type # "reply" /\ agent_stdin' = Append(agent_stdin, f)

\* Sending anything but an ask, or an ask that is recorded, keeps AsksSeen.
LEMMA DeliverKeepsAsks ==
    ASSUME TypeOK, AsksSeen, RecordsGrow, NEW C, NEW f \in Frame, Deliver(C, f),
           f.type = "ask" => f.id \in DOMAIN agent_pending'
    PROVE  AsksSeen'
<1> SUFFICES ASSUME NEW c \in Conns, NEW k \in DOMAIN outbound'[c],
                    outbound'[c][k].type = "ask"
             PROVE  outbound'[c][k].id \in DOMAIN agent_pending'
    BY DEF AsksSeen
<1>1. outbound[c] \in Seq(Frame)
    BY DEF TypeOK
<1>2. outbound'[c] = Append(outbound[c], f) \/ outbound'[c] = outbound[c]
    BY DEF Deliver
<1>3. \/ k \in DOMAIN outbound[c] /\ outbound'[c][k] = outbound[c][k]
      \/ outbound'[c][k] = f
    BY <1>1, <1>2
<1>4. QED
    BY <1>3 DEF AsksSeen, RecordsGrow

\* A step that forwards no reply keeps what is known of the replies.
LEMMA NoReplyKeepsReplies ==
    ASSUME TypeOK, RepliesConsume, OneReplyPerAsk, RecordsGrow, NoReply
    PROVE  RepliesConsume' /\ OneReplyPerAsk'
<1> USE DEF RepliesConsume, OneReplyPerAsk, RecordsGrow
<1>1. CASE UNCHANGED agent_stdin
    BY <1>1
<1>2. ASSUME NEW f \in AgentFrame, f.type # "reply", agent_stdin' = Append(agent_stdin, f)
      PROVE  RepliesConsume' /\ OneReplyPerAsk'
    <2>1. \A k \in DOMAIN agent_stdin' :
            agent_stdin'[k].type = "reply" =>
                k \in DOMAIN agent_stdin /\ agent_stdin'[k] = agent_stdin[k]
        BY <1>2 DEF TypeOK
    <2>2. QED
        BY <2>1
<1>3. QED
    BY <1>1, <1>2 DEF NoReply

LEMMA ConnectionKeepsReplies ==
    ASSUME TypeOK, ReplyInv, ConnectionStep
    PROVE  ReplyInv'
<1>1. PICK c \in Conns :
        attach(c) \/ attach_refused(c) \/ ws_closes(c) \/ detach(c) \/ ws_handler_exits(c)
    BY DEF ConnectionStep
<1>2. UNCHANGED <<agent_pending, agent_stdin>>
    BY <1>1 DEF attach, attach_refused, ws_closes, detach, ws_handler_exits, agentVars
<1>3. AsksSeen'
    <2>1. CASE attach(c)
        <3>1. \A k \in DOMAIN replay_log : replay_log[k].type = "broadcast"
            <4>1. \A f \in BroadcastFrame : f.type = "broadcast"
                BY DEF BroadcastFrame
            <4>2. QED
                BY <4>1 DEF TypeOK
        <3>2. outbound' = [outbound EXCEPT ![c] = IF c \in SkipReplay THEN <<>> ELSE replay_log]
            BY <2>1 DEF attach
        <3>3. \A k \in DOMAIN outbound'[c] : outbound'[c][k].type = "broadcast"
            BY <3>1, <3>2 DEF TypeOK
        <3>4. \A d \in Conns \ {c} : outbound'[d] = outbound[d]
            BY <3>2 DEF TypeOK
        <3>5. QED
            BY <1>2, <3>3, <3>4 DEF ReplyInv, AsksSeen
    <2>2. CASE attach_refused(c)
        BY <1>2, <2>2 DEF attach_refused, ReplyInv, AsksSeen, TypeOK
    <2>3. CASE ws_closes(c) \/ detach(c) \/ ws_handler_exits(c)
        BY <1>2, <2>3 DEF ws_closes, detach, ws_handler_exits, ReplyInv, AsksSeen
    <2>4. QED
        BY <1>1, <2>1, <2>2, <2>3
<1>4. QED
    BY <1>2, <1>3 DEF ReplyInv, RepliesConsume, OneReplyPerAsk

LEMMA RequestKeepsReplies ==
    ASSUME TypeOK, ReplyInv, NEW c \in Conns, NEW i \in ReqIds,
           translate_outbound_request(c, i)
    PROVE  ReplyInv'
<1>1. UNCHANGED agent_pending
    BY DEF translate_outbound_request, handle_attach_request, handle_detach_request,
           answer_from_cache, reject_busy, forward_request, agentVars
<1>2. RecordsGrow
    BY <1>1 DEF RecordsGrow
<1>3. AsksSeen'
    <2>1. CASE UNCHANGED outbound
        BY <1>1, <2>1 DEF ReplyInv, AsksSeen
    <2>2. ASSUME NEW f, f.type # "ask", send_to(PeerOf[c], f) PROVE AsksSeen'
        <3>1. \A d \in Conns : \A k \in DOMAIN outbound'[d] :
                outbound'[d][k].type = "ask" =>
                    k \in DOMAIN outbound[d] /\ outbound'[d][k] = outbound[d][k]
            BY <2>2 DEF send_to, Deliver, TypeOK
        <3>2. QED
            BY <1>1, <3>1 DEF ReplyInv, AsksSeen
    <2>3. \/ UNCHANGED outbound
          \/ \E f : f.type # "ask" /\ send_to(PeerOf[c], f)
        <3>1. \A id, ok, by, sid : Response(id, ok, by, sid).type # "ask"
            BY DEF Response
        <3>2. ASSUME NEW param, NEW policy, handle_attach_request(c, i, param, policy)
              PROVE  \E f : f.type # "ask" /\ send_to(PeerOf[c], f)
            BY <3>1, <3>2 DEF handle_attach_request
        <3>3. ASSUME NEW param, handle_detach_request(c, i, param)
              PROVE  \E f : f.type # "ask" /\ send_to(PeerOf[c], f)
            BY <3>1, <3>3 DEF handle_detach_request
        <3>4. ASSUME NEW method, answer_from_cache(c, i, method) \/ reject_busy(c, i, method)
              PROVE  \E f : f.type # "ask" /\ send_to(PeerOf[c], f)
            BY <3>1, <3>4 DEF answer_from_cache, reject_busy
        <3>5. ASSUME NEW method, NEW param, forward_request(c, i, method, param)
              PROVE  UNCHANGED outbound
            BY <3>5 DEF forward_request
        <3>6. QED
            BY <3>2, <3>3, <3>4, <3>5 DEF translate_outbound_request
    <2>4. QED
        BY <2>1, <2>2, <2>3
<1>4. NoReply
    <2>1. ASSUME NEW method, NEW param \in MaybeSession, forward_request(c, i, method, param)
          PROVE  NoReply
        <3>1. NewRequest(c, i, method) /\ next_mux_id \in MuxIds
            BY <2>1 DEF forward_request, TypeOK
        <3>2. [type |-> "request", mux_id |-> next_mux_id, method |-> method,
               conn |-> c, id |-> i] \in AgentFrame
            BY <3>1, NewRequestType DEF AgentFrame
        <3>3. QED
            BY <2>1, <3>2 DEF forward_request, ToAgent, NoReply
    <2>2. None \in MaybeSession
        BY DEF MaybeSession
    <2>3. QED
        BY <2>1, <2>2 DEF translate_outbound_request, handle_attach_request,
            handle_detach_request, answer_from_cache, reject_busy, NoReply
<1>5. QED
    BY <1>2, <1>3, <1>4, NoReplyKeepsReplies DEF ReplyInv

LEMMA SubscriberFrameKeepsReplies ==
    ASSUME TypeOK, ReplyInv, NEW c \in Conns,
           \/ \E i \in ReqIds : handle_subscriber_cancel(c, i)
           \/ handle_subscriber_notification(c)
           \/ \E a \in AskIds \cup StrayIds : gate_subscriber_response(c, a)
    PROVE  ReplyInv'
<1>1. ASSUME NEW i \in ReqIds, handle_subscriber_cancel(c, i) PROVE ReplyInv'
    <2>1. PICK m \in DOMAIN pending :
                ToAgent([type |-> "cancel", mux_id |-> m, method |-> "$/cancel_request",
                         conn |-> c, id |-> i])
        BY <1>1 DEF handle_subscriber_cancel
    <2>2. [type |-> "cancel", mux_id |-> m, method |-> "$/cancel_request",
           conn |-> c, id |-> i] \in AgentFrame
        BY DEF AgentFrame, ClientMethods, TypeOK
    <2>3. NoReply
        BY <2>1, <2>2 DEF ToAgent, NoReply
    <2>4. RecordsGrow /\ AsksSeen'
        BY <1>1 DEF handle_subscriber_cancel, agentVars, RecordsGrow, ReplyInv, AsksSeen
    <2>5. QED
        BY <2>3, <2>4, NoReplyKeepsReplies DEF ReplyInv
<1>2. ASSUME handle_subscriber_notification(c) PROVE ReplyInv'
    <2>1. [type |-> "notification", conn |-> c] \in AgentFrame
        BY DEF AgentFrame
    <2>2. NoReply
        BY <1>2, <2>1 DEF handle_subscriber_notification, ToAgent, NoReply
    <2>3. RecordsGrow /\ AsksSeen'
        BY <1>2 DEF handle_subscriber_notification, agentVars, RecordsGrow, ReplyInv, AsksSeen
    <2>4. QED
        BY <2>2, <2>3, NoReplyKeepsReplies DEF ReplyInv
<1>3. ASSUME NEW a \in AskIds \cup StrayIds, gate_subscriber_response(c, a)
      PROVE  ReplyInv'
    <2> DEFINE f == [type |-> "reply", id |-> a, conn |-> c]
               last == Len(agent_stdin) + 1
    <2>1. /\ DOMAIN agent_stdin' = DOMAIN agent_stdin \cup {last}
          /\ \A k \in DOMAIN agent_stdin : agent_stdin'[k] = agent_stdin[k]
          /\ agent_stdin'[last] = f
        BY <1>3 DEF gate_subscriber_response, ToAgent, TypeOK
    <2>2. f.type = "reply" /\ f.id = a
        OBVIOUS
    <2> HIDE DEF f, last
    \* Nobody replied before: the id is in flight, or it is a stray one.
    <2>3. \A k \in DOMAIN agent_stdin :
            agent_stdin[k].type = "reply" /\ agent_stdin[k].id \in AskIds =>
                agent_stdin[k].id # a
        <3>1. a \in AskIds => Unresolved(a)
            <4>1. ASSUME a \in AskIds PROVE a \in DOMAIN agent_pending
                BY <1>3, <4>1, ConstantsOK
                DEF gate_subscriber_response, MayReply, ReplyInv, AsksSeen
            <4>2. QED
                BY <1>3, <4>1 DEF gate_subscriber_response
        <3>2. QED
            BY <3>1 DEF Unresolved, ReplyInv, RepliesConsume
    <2>4. RecordsGrow
        BY <1>3 DEF gate_subscriber_response, Unresolved, RecordsGrow
    <2>5. AsksSeen'
        BY <1>3, <2>4 DEF gate_subscriber_response, ReplyInv, AsksSeen, RecordsGrow
    <2>6. a \in AskIds => a \in DOMAIN agent_pending' /\ agent_pending'[a] = "Consumed"
        <3>1. ASSUME a \in AskIds PROVE a \in DOMAIN agent_pending
            BY <1>3, <3>1, ConstantsOK
            DEF gate_subscriber_response, MayReply, ReplyInv, AsksSeen
        <3>2. QED
            BY <1>3, <3>1 DEF gate_subscriber_response, Unresolved
    <2>7. RepliesConsume'
        BY <2>1, <2>2, <2>4, <2>6 DEF ReplyInv, RepliesConsume, RecordsGrow
    <2>8. OneReplyPerAsk'
        BY <2>1, <2>2, <2>3 DEF ReplyInv, OneReplyPerAsk
    <2>9. QED
        BY <2>5, <2>7, <2>8 DEF ReplyInv
<1>4. QED
    BY <1>1, <1>2, <1>3

LEMMA InboundKeepsReplies ==
    ASSUME TypeOK, ReplyInv, handle_inbound
    PROVE  ReplyInv'
BY RequestKeepsReplies, SubscriberFrameKeepsReplies DEF handle_inbound

\* A broadcast is no ask.
LEMMA BroadcastKeepsAsks ==
    ASSUME TypeOK, AsksSeen, RecordsGrow,
           NEW method \in {"notification", "cancel", "raw"}, broadcast(method)
    PROVE  AsksSeen'
<1> DEFINE f == [type |-> "broadcast", method |-> method, seq |-> Len(replay_log) + 1]
<1>1. f \in Frame /\ f.type # "ask"
    BY DEF TypeOK, Frame, BroadcastFrame
<1>2. Deliver(Reached(Peers), f)
    BY DEF broadcast, BroadcastOf
<1> HIDE DEF f
<1>3. QED
    BY <1>1, <1>2, DeliverKeepsAsks

LEMMA AgentLineKeepsReplies ==
    ASSUME TypeOK, ReplyInv, handle_agent_line
    PROVE  ReplyInv'
<1>1. ASSUME NEW method \in {"notification", "raw"}, NEW sid,
             handle_agent_notification(method, sid)
      PROVE  RecordsGrow /\ AsksSeen' /\ NoReply
    <2>1. RecordsGrow /\ NoReply
        BY <1>1 DEF handle_agent_notification, agentVars, RecordsGrow, NoReply
    <2>2. QED
        BY <1>1, <2>1, BroadcastKeepsAsks DEF handle_agent_notification, ReplyInv
<1>2. ASSUME NEW a \in AskIds, block_agent_request(a)
      PROVE  RecordsGrow /\ AsksSeen' /\ NoReply
    <2>1. [type |-> "blocked", id |-> a] \in AgentFrame
        BY DEF AgentFrame
    <2>2. QED
        BY <1>2, <2>1
        DEF block_agent_request, ToAgent, RecordsGrow, NoReply, ReplyInv, AsksSeen
<1>3. ASSUME NEW a \in AskIds, handle_agent_request(a)
      PROVE  RecordsGrow /\ AsksSeen' /\ NoReply
    <2> DEFINE f == [type |-> "ask", id |-> a]
    <2>1. RecordsGrow /\ NoReply /\ a \in DOMAIN agent_pending'
        BY <1>3 DEF handle_agent_request, or_insert_in_flight, With, RecordsGrow, NoReply
    <2>2. f \in Frame /\ Deliver(Reached(Peers), f) /\ f.id = a
        BY <1>3 DEF handle_agent_request, fanout, Frame
    <2> HIDE DEF f
    <2>3. QED
        BY <2>1, <2>2, DeliverKeepsAsks DEF ReplyInv
<1>4. ASSUME NEW a \in AskIds, handle_agent_cancel(a)
      PROVE  RecordsGrow /\ AsksSeen' /\ NoReply
    <2>1. RecordsGrow /\ NoReply
        BY <1>4 DEF handle_agent_cancel, Unresolved, RecordsGrow, NoReply
    <2>2. QED
        BY <1>4, <2>1, BroadcastKeepsAsks DEF handle_agent_cancel, ReplyInv
<1>5. ASSUME NEW m \in DOMAIN pending, NEW ok \in BOOLEAN,
             NEW sid \in MaybeSession \cup {NullResult}, route_agent_response(m, ok, sid)
      PROVE  RecordsGrow /\ AsksSeen' /\ NoReply
    <2> DEFINE f == Response(pending[m].original_id, ok, m,
                             IF sid = NullResult THEN None ELSE sid)
    <2>1. f \in Frame /\ f.type # "ask"
        BY DEF TypeOK, Frame, Response, PendingRequest, MuxIds, MaybeSession
    <2>2. Deliver(Reached({pending[m].peer_id}), f)
        BY <1>5 DEF route_agent_response, send_to
    <2> HIDE DEF f
    <2>3. RecordsGrow /\ NoReply
        BY <1>5 DEF route_agent_response, sweep_stale_agent_pending, RecordsGrow, NoReply
    <2>4. QED
        BY <2>1, <2>2, <2>3, DeliverKeepsAsks DEF ReplyInv
<1>6. RecordsGrow /\ AsksSeen' /\ NoReply
    BY <1>1, <1>2, <1>3, <1>4, <1>5 DEF handle_agent_line
<1>7. QED
    BY <1>6, NoReplyKeepsReplies DEF ReplyInv

LEMMA EndKeepsReplies ==
    ASSUME TypeOK, ReplyInv, agent_dies \/ mux_ttl_expires
    PROVE  ReplyInv'
<1>1. RecordsGrow /\ NoReply
    BY DEF agent_dies, mux_ttl_expires, agentVars, RecordsGrow, NoReply
<1>2. CASE agent_dies
    <2> DEFINE f == [type |-> "close"]
    <2>1. f \in Frame /\ f.type # "ask"
        BY DEF Frame
    <2>2. Deliver(Reached(Peers), f)
        BY <1>2 DEF agent_dies
    <2> HIDE DEF f
    <2>3. QED
        BY <1>1, <2>1, <2>2, DeliverKeepsAsks, NoReplyKeepsReplies DEF ReplyInv
<1>3. CASE mux_ttl_expires
    BY <1>3 DEF mux_ttl_expires, agentVars, ReplyInv, AsksSeen, RepliesConsume, OneReplyPerAsk
<1>4. QED
    BY <1>2, <1>3

LEMMA RepliesAlways == Spec => []ReplyInv
<1>1. Init => ReplyInv
    BY DEF Init, ReplyInv, AsksSeen, RepliesConsume, OneReplyPerAsk
<1>2. TypeOK /\ ReplyInv /\ [Next]_vars => ReplyInv'
    <2>1. TypeOK /\ ReplyInv /\ UNCHANGED vars => ReplyInv'
        BY DEF vars, agentVars, ReplyInv, AsksSeen, RepliesConsume, OneReplyPerAsk
    <2>2. QED
        BY <2>1, ConnectionKeepsReplies, InboundKeepsReplies, AgentLineKeepsReplies,
           EndKeepsReplies DEF Next
<1>3. QED
    BY TypeCorrect, <1>1, <1>2, PTL DEF Spec

\* However many subscribers answer the same request of the agent, and in
\* whatever order their answers, its cancel and the end of the turn are
\* handled, at most one answer is written to the agent's stdin.
THEOREM FirstWriterWins == Spec => []OneReplyPerAsk
<1>1. ReplyInv => OneReplyPerAsk
    BY DEF ReplyInv
<1>2. QED
    BY RepliesAlways, <1>1, PTL

-----------------------------------------------------------------------------
(***************************************************************************)
(* The agent's requests, as long as it uses each request id once.          *)
(***************************************************************************)

AskInv ==
    /\ \A a \in AskIds : asked[a] = 0 => a \notin DOMAIN agent_pending
    /\ \A a \in AskIds : Unresolved(a) <=> a \in open_asks
    /\ PermissionsAreOpen

\* What is asked, and what is still open, is the same.
AsksStay == UNCHANGED <<agent_pending, pending_permissions, open_asks, asked>>

\* These requests are settled.
AsksSettle(S) ==
    /\ S \subseteq DOMAIN agent_pending
    /\ DOMAIN agent_pending' = DOMAIN agent_pending
    /\ \A a \in DOMAIN agent_pending :
        agent_pending'[a] = IF a \in S THEN "Consumed" ELSE agent_pending[a]
    /\ pending_permissions' = RetainExcept(S)
    /\ open_asks' = open_asks \ S
    /\ UNCHANGED asked

\* What a step may do to the agent's requests.
LEMMA AskSteps ==
    ASSUME TypeOK, AskInv, Next
    PROVE  \/ AsksStay
           \/ \E S \in SUBSET AskIds : AsksSettle(S)
           \/ \E a \in AskIds : block_agent_request(a) \/ handle_agent_request(a)
<1>1. CASE ConnectionStep
    BY <1>1 DEF ConnectionStep, attach, attach_refused, ws_closes, detach, ws_handler_exits,
                agentVars, AsksStay
<1>2. CASE handle_inbound
    <2>1. ASSUME NEW c \in Conns, NEW i \in ReqIds, translate_outbound_request(c, i)
          PROVE  AsksStay
        BY <2>1 DEF translate_outbound_request, handle_attach_request, handle_detach_request,
                    answer_from_cache, reject_busy, forward_request, agentVars, AsksStay
    <2>2. ASSUME NEW c \in Conns, NEW i \in ReqIds,
                 handle_subscriber_cancel(c, i)
          PROVE  AsksStay
        BY <2>2 DEF handle_subscriber_cancel, agentVars, AsksStay
    <2>3. ASSUME NEW c \in Conns, handle_subscriber_notification(c)
          PROVE  AsksStay
        BY <2>3 DEF handle_subscriber_notification, agentVars, AsksStay
    <2>4. ASSUME NEW c \in Conns, NEW a \in AskIds \cup StrayIds, gate_subscriber_response(c, a)
          PROVE  AsksStay \/ \E S \in SUBSET AskIds : AsksSettle(S)
        <3>1. CASE a \notin DOMAIN agent_pending
            BY <2>4, <3>1 DEF gate_subscriber_response, Unresolved, AsksStay
        <3>2. CASE a \in DOMAIN agent_pending
            <4>1. AsksSettle({a})
                BY <2>4, <3>2 DEF gate_subscriber_response, AsksSettle
            <4>2. {a} \in SUBSET AskIds
                BY <3>2 DEF TypeOK
            <4>3. QED
                BY <4>1, <4>2
        <3>3. QED
            BY <3>1, <3>2
    <2>5. QED
        BY <1>2, <2>1, <2>2, <2>3, <2>4 DEF handle_inbound
<1>3. ASSUME NEW a \in AskIds, handle_agent_cancel(a)
      PROVE  AsksStay \/ \E S \in SUBSET AskIds : AsksSettle(S)
    <2>1. CASE Unresolved(a)
        <3>1. AsksSettle({a})
            BY <1>3, <2>1 DEF handle_agent_cancel, Unresolved, AsksSettle
        <3>2. QED
            BY <3>1
    <2>2. CASE ~Unresolved(a)
        <3>1. open_asks \ {a} = open_asks
            BY <2>2 DEF AskInv
        <3>2. QED
            BY <1>3, <2>2, <3>1 DEF handle_agent_cancel, AsksStay
    <2>3. QED
        BY <2>1, <2>2
<1>4. ASSUME NEW m \in DOMAIN pending, NEW ok, NEW sid, route_agent_response(m, ok, sid)
      PROVE  AsksStay \/ \E S \in SUBSET AskIds : AsksSettle(S)
    <2> DEFINE stale == {a \in DOMAIN agent_pending : agent_pending[a] = "InFlight"}
    <2>1. CASE prompt_in_flight = m
        <3>1. sweep_stale_agent_pending /\ UNCHANGED asked
            BY <1>4, <2>1 DEF route_agent_response
        <3>2. stale \in SUBSET AskIds /\ open_asks \ stale = {}
            BY DEF TypeOK, AskInv, Unresolved
        <3>3. \A a \in DOMAIN agent_pending : a \notin stale => agent_pending[a] = "Consumed"
            BY DEF TypeOK
        <3>4. AsksSettle(stale)
            BY <3>1, <3>2, <3>3 DEF sweep_stale_agent_pending, AsksSettle
        <3>5. QED
            BY <3>2, <3>4
    <2>2. CASE prompt_in_flight # m
        BY <1>4, <2>2 DEF route_agent_response, AsksStay
    <2>3. QED
        BY <2>1, <2>2
<1>5. ASSUME NEW method, NEW sid, handle_agent_notification(method, sid)
      PROVE  AsksStay
    BY <1>5 DEF handle_agent_notification, agentVars, AsksStay
<1>6. CASE handle_agent_line
    BY <1>3, <1>4, <1>5, <1>6 DEF handle_agent_line
<1>7. CASE agent_dies \/ mux_ttl_expires
    BY <1>7 DEF agent_dies, mux_ttl_expires, agentVars, AsksStay
<1>8. QED
    BY <1>1, <1>2, <1>6, <1>7 DEF Next

LEMMA AsksKept ==
    ASSUME MaxAsks <= 1, TypeOK, AskInv, [Next]_vars
    PROVE  AskInv'
<1>1. CASE UNCHANGED vars \/ AsksStay
    BY <1>1 DEF vars, agentVars, AsksStay, AskInv, Unresolved, PermissionsAreOpen
<1>2. ASSUME NEW S \in SUBSET AskIds, AsksSettle(S)
      PROVE  AskInv'
    <2>1. \A a \in AskIds : Unresolved(a)' <=> Unresolved(a) /\ a \notin S
        BY <1>2 DEF AsksSettle, Unresolved
    <2>2. PermissionsAreOpen'
        BY <1>2 DEF AsksSettle, RetainExcept, AskInv, PermissionsAreOpen
    <2>3. QED
        BY <1>2, <2>1, <2>2 DEF AsksSettle, AskInv
<1>3. ASSUME NEW a \in AskIds, block_agent_request(a)
      PROVE  AskInv'
    <2>1. /\ a \notin Permissions /\ asked \in [AskIds -> Nat]
          /\ asked' = [asked EXCEPT ![a] = @ + 1]
          /\ UNCHANGED <<agent_pending, pending_permissions, open_asks>>
        BY <1>3, ConstantsOK DEF block_agent_request, AgentAsks, TypeOK
    <2>2. asked'[a] # 0 /\ \A b \in AskIds \ {a} : asked'[b] = asked[b]
        BY <2>1
    <2>3. PermissionsAreOpen'
        <3>1. \A b \in open_asks \cap Permissions : b \in AskIds /\ asked'[b] = asked[b]
            BY <2>1, <2>2 DEF TypeOK
        <3>2. {[id |-> b, use |-> asked'[b]] : b \in open_asks \cap Permissions}
                = {[id |-> b, use |-> asked[b]] : b \in open_asks \cap Permissions}
            BY <3>1
        <3>3. QED
            BY <2>1, <3>2 DEF AskInv, PermissionsAreOpen
    <2>4. QED
        BY <2>1, <2>2, <2>3 DEF AskInv, Unresolved
<1>4. ASSUME NEW a \in AskIds, handle_agent_request(a)
      PROVE  AskInv'
    <2>1. /\ a \notin open_asks /\ asked \in [AskIds -> Nat] /\ asked[a] < MaxAsks
          /\ asked' = [asked EXCEPT ![a] = @ + 1]
        BY <1>4 DEF handle_agent_request, AgentAsks, TypeOK
    <2>2. /\ asked[a] = 0 /\ asked'[a] = 1
          /\ \A b \in AskIds \ {a} : asked'[b] = asked[b]
        BY <2>1, ConstantsOK
    <2>3. /\ DOMAIN agent_pending' = DOMAIN agent_pending \cup {a} /\ agent_pending'[a] = "InFlight"
          /\ \A b \in DOMAIN agent_pending \ {a} : agent_pending'[b] = agent_pending[b]
        <3>1. a \notin DOMAIN agent_pending
            BY <2>2 DEF AskInv
        <3>2. agent_pending' = With(agent_pending, a, "InFlight")
            BY <1>4, <3>1 DEF handle_agent_request, or_insert_in_flight
        <3>3. QED
            BY <3>2 DEF With
    <2>4. \A b \in AskIds : Unresolved(b)' <=> Unresolved(b) \/ b = a
        BY <2>3 DEF Unresolved
    <2>5. open_asks' = open_asks \cup {a}
        BY <1>4 DEF handle_agent_request
    <2>6. PermissionsAreOpen'
        <3> DEFINE Use(b) == [id |-> b, use |-> asked[b]]
                   Used(b) == [id |-> b, use |-> asked'[b]]
        <3>1. \A b \in open_asks : b \in AskIds \ {a} /\ asked'[b] = asked[b]
            BY <2>1, <2>2 DEF TypeOK
        <3>2. \A b \in open_asks : Used(b) = Use(b)
            BY <3>1
        <3>3. pending_permissions = {Use(b) : b \in open_asks \cap Permissions}
            BY DEF AskInv, PermissionsAreOpen
        <3>4. pending_permissions' =
                pending_permissions \cup IF a \in Permissions THEN {Used(a)} ELSE {}
            BY <1>4 DEF handle_agent_request
        <3> HIDE DEF Use, Used
        <3>5. pending_permissions' = {Used(b) : b \in open_asks' \cap Permissions}
            BY <2>5, <3>2, <3>3, <3>4
        <3>6. QED
            BY <3>5 DEF PermissionsAreOpen, Used
    <2>7. QED
        BY <2>2, <2>3, <2>4, <2>5, <2>6 DEF AskInv
<1>5. QED
    BY <1>1, <1>2, <1>3, <1>4, AskSteps

LEMMA AsksAlways ==
    ASSUME MaxAsks <= 1
    PROVE  Spec => []AskInv
<1>1. Init => AskInv
    BY DEF Init, AskInv, Unresolved, PermissionsAreOpen
<1>2. TypeOK /\ AskInv /\ [Next]_vars => AskInv'
    BY AsksKept
<1>3. QED
    BY TypeCorrect, <1>1, <1>2, PTL DEF Spec

\* As long as the agent uses each of its request ids once, a request it waits
\* for can always be answered: it is in flight in the map, so that the first
\* reply goes through (or_insert, gate_subscriber_response and the sweep).
THEOREM OpenAsksStayAnswerable ==
    ASSUME MaxAsks <= 1
    PROVE  Spec => []OpenAsksAnswerable
<1>1. TypeOK /\ AskInv => OpenAsksAnswerable
    BY DEF TypeOK, AskInv, OpenAsksAnswerable
<1>2. QED
    BY TypeCorrect, AsksAlways, <1>1, PTL

\* Under the same assumption the list that a pending_only attach is shown is
\* exact: a permission request is in it until it is answered, withdrawn or
\* swept away, and no longer (pending_permissions and its retain calls).
THEOREM PermissionListIsExact ==
    ASSUME MaxAsks <= 1
    PROVE  Spec => []PermissionsAreOpen
<1>1. AskInv => PermissionsAreOpen
    BY DEF AskInv
<1>2. QED
    BY AsksAlways, <1>1, PTL

-----------------------------------------------------------------------------
(***************************************************************************)
(* Requests and their answers, as long as no two connections share a peer  *)
(* id.                                                                     *)
(***************************************************************************)

PeersApart == \A c, d \in Conns : PeerOf[c] = PeerOf[d] => c = d

AnswersTo(c, i) ==
    {k \in DOMAIN outbound[c] : IsAnswer(outbound[c][k]) /\ outbound[c][k].id = i}
WaitingFor(c, i) == {m \in DOMAIN pending : Forwarded(m, c, i)}
HasAsked(c, i) == \E r \in sent[c] : r.id = i

\* A request has one answer, or one entry in pending.
Balanced(c, i) ==
    /\ \A j, k \in AnswersTo(c, i) : j = k
    /\ \A m, n \in WaitingFor(c, i) : m = n
    /\ AnswersTo(c, i) = {} <=> WaitingFor(c, i) # {}

SubscribersOwn == \A p \in DOMAIN subscribers : PeerOf[subscribers[p]] = p

\* Mux ids and the requests they stand for correspond.
ForwardedOnce ==
    /\ \A m, c, i : Forwarded(m, c, i) =>
        c \in Conns /\ HasAsked(c, i) /\ m \in MuxIds /\ m < next_mux_id
    /\ \A m, n, c, i : Forwarded(m, c, i) /\ Forwarded(n, c, i) => m = n
    /\ \A m, c, d, i, j : Forwarded(m, c, i) /\ Forwarded(m, d, j) => c = d /\ i = j

PendingForwarded ==
    \A m \in DOMAIN pending :
        /\ m < next_mux_id
        /\ \E c \in Conns : /\ PeerOf[c] = pending[m].peer_id
                            /\ Forwarded(m, c, pending[m].original_id)

RequestInv ==
    /\ SubscribersOwn /\ ForwardedOnce /\ PendingForwarded /\ AnswersAreTheirOwn
    /\ \A c \in Conns : conns[c] = "idle" => sent[c] = {}
    /\ \A c \in Conns, i \in ReqIds : AnswersTo(c, i) # {} => HasAsked(c, i)
    /\ \A c \in Reached(Peers), i \in ReqIds : HasAsked(c, i) => Balanced(c, i)

-----------------------------------------------------------------------------

\* Who is reached under a peer id.
LEMMA ReachedUnder ==
    ASSUME TypeOK, SubscribersOwn
    PROVE  /\ \A p : \A d \in Reached({p}) : PeerOf[d] = p /\ d \in Reached(Peers)
           /\ \A d \in Reached(Peers) : d \in Reached({PeerOf[d]})
<1>1. DOMAIN subscribers \subseteq Peers /\ \A p \in DOMAIN subscribers : PeerOf[subscribers[p]] = p
    BY DEF TypeOK, SubscribersOwn
<1>2. ASSUME NEW p, NEW d \in Reached({p})
      PROVE  PeerOf[d] = p /\ d \in Reached(Peers)
    BY <1>1, <1>2 DEF Reached
<1>3. ASSUME NEW d \in Reached(Peers)
      PROVE  d \in Reached({PeerOf[d]})
    <2>1. PICK p \in Peers \cap DOMAIN subscribers : subscribers[p] = d
        BY <1>3 DEF Reached
    <2>2. p = PeerOf[d]
        BY <1>1, <2>1
    <2>3. QED
        BY <1>3, <2>1, <2>2 DEF Reached
<1>4. QED
    BY <1>2, <1>3

LEMMA ReachedOnly ==
    ASSUME PeersApart, TypeOK, SubscribersOwn, NEW c \in Conns
    PROVE  \A d \in Conns : d \in Reached({PeerOf[c]}) => d = c
<1>1. \A d \in Reached({PeerOf[c]}) : PeerOf[d] = PeerOf[c]
    BY ReachedUnder
<1>2. QED
    BY <1>1 DEF PeersApart

\* One frame more: one answer more, or none.
LEMMA AnswersMore ==
    ASSUME TypeOK, NEW c \in Conns, NEW f \in Frame, outbound'[c] = Append(outbound[c], f)
    PROVE  \A i : /\ AnswersTo(c, i)' = AnswersTo(c, i) \cup
                        IF IsAnswer(f) /\ f.id = i THEN {Len(outbound[c]) + 1} ELSE {}
                  /\ Len(outbound[c]) + 1 \notin AnswersTo(c, i)
<1>1. outbound[c] \in Seq(Frame)
    BY DEF TypeOK
<1> DEFINE old == outbound[c]
           new == outbound'[c]
           last == Len(old) + 1
<1>2. /\ DOMAIN new = DOMAIN old \cup {last} /\ last \notin DOMAIN old
      /\ \A k \in DOMAIN old : new[k] = old[k]
      /\ new[last] = f
    BY <1>1
<1>3. \A i : /\ AnswersTo(c, i) = {k \in DOMAIN old : IsAnswer(old[k]) /\ old[k].id = i}
             /\ AnswersTo(c, i)' = {k \in DOMAIN new : IsAnswer(new[k]) /\ new[k].id = i}
    BY DEF AnswersTo
<1> HIDE DEF old, new, last
<1>4. \A i : /\ AnswersTo(c, i)' = AnswersTo(c, i) \cup
                    IF IsAnswer(f) /\ f.id = i THEN {last} ELSE {}
             /\ last \notin AnswersTo(c, i)
    BY <1>2, <1>3
<1>5. QED
    BY <1>4 DEF last, old

LEMMA AnswersSame ==
    ASSUME NEW c, outbound'[c] = outbound[c]
    PROVE  \A i : AnswersTo(c, i)' = AnswersTo(c, i)
BY DEF AnswersTo

\* Nothing is forwarded ...
LEMMA ForwardedSame ==
    ASSUME TypeOK,
           \/ UNCHANGED agent_stdin
           \/ \E f \in AgentFrame : ~IsRequest(f) /\ agent_stdin' = Append(agent_stdin, f)
    PROVE  \A m, c, i : Forwarded(m, c, i)' <=> Forwarded(m, c, i)
<1>1. CASE UNCHANGED agent_stdin
    BY <1>1 DEF Forwarded
<1>2. ASSUME NEW f \in AgentFrame, ~IsRequest(f), agent_stdin' = Append(agent_stdin, f)
      PROVE  \A m, c, i : Forwarded(m, c, i)' <=> Forwarded(m, c, i)
    <2>1. /\ DOMAIN agent_stdin' = DOMAIN agent_stdin \cup {Len(agent_stdin) + 1}
          /\ \A k \in DOMAIN agent_stdin : agent_stdin'[k] = agent_stdin[k]
          /\ agent_stdin'[Len(agent_stdin) + 1] = f
        BY <1>2 DEF TypeOK
    <2>2. QED
        BY <1>2, <2>1 DEF Forwarded, IsRequest
<1>3. QED
    BY <1>1, <1>2

\* ... or one request is.
LEMMA ForwardedMore ==
    ASSUME TypeOK, NEW f \in AgentFrame, f.type = "request", agent_stdin' = Append(agent_stdin, f)
    PROVE  \A m, c, i : Forwarded(m, c, i)'
                <=> Forwarded(m, c, i) \/ (f.mux_id = m /\ f.conn = c /\ f.id = i)
<1>1. /\ DOMAIN agent_stdin' = DOMAIN agent_stdin \cup {Len(agent_stdin) + 1}
      /\ \A k \in DOMAIN agent_stdin : agent_stdin'[k] = agent_stdin[k]
      /\ agent_stdin'[Len(agent_stdin) + 1] = f
    BY DEF TypeOK
<1>2. QED
    BY <1>1 DEF Forwarded

-----------------------------------------------------------------------------

\* The frame, if one is written to the agent, is no request, and a cancel only
\* of a request of the canceller.
StdinAside ==
    \/ UNCHANGED agent_stdin
    \/ \E f \in AgentFrame :
        /\ ~IsRequest(f) /\ agent_stdin' = Append(agent_stdin, f)
        /\ f.type = "cancel" => Forwarded(f.mux_id, f.conn, f.id)

\* Connection c gets no answer, and does not become a subscriber unless it has
\* asked for nothing yet.
NothingFor(c) ==
    /\ UNCHANGED <<sent[c]>>
    /\ conns'[c] = "idle" => conns[c] = "idle"
    /\ \/ /\ c \in Reached(Peers)' => c \in Reached(Peers)
          /\ \/ outbound'[c] = outbound[c]
             \/ \E f \in Frame : ~IsAnswer(f) /\ outbound'[c] = Append(outbound[c], f)
       \/ /\ sent[c] = {}
          /\ \A k \in DOMAIN outbound'[c] : ~IsAnswer(outbound'[c][k])

\* A step that neither takes a request nor answers one.
AsideStep ==
    /\ UNCHANGED requestVars /\ StdinAside
    /\ SubscribersOwn'
    /\ \A c \in Conns : NothingFor(c)

\* A request that is answered on the spot.
Told(c, i, method, f) ==
    /\ NewRequest(c, i, method) /\ send_to(PeerOf[c], f)
    /\ f \in Frame /\ IsAnswer(f) /\ f.id = i
    /\ f.type = "response" /\ f.by # 0 => method \in {"initialize", "session/new"}
    /\ SubscribersOwn' /\ Reached(Peers)' \subseteq Reached(Peers)
    /\ UNCHANGED <<conns, requestVars, agent_stdin>>

\* What a delivery of something other than an answer does.
LEMMA DeliverNothing ==
    ASSUME TypeOK, NEW C, NEW f \in Frame, ~IsAnswer(f), Deliver(C, f),
           UNCHANGED <<sent, conns>>, Reached(Peers)' \subseteq Reached(Peers)
    PROVE  \A c \in Conns : NothingFor(c)
BY DEF Deliver, NothingFor

LEMMA ReachedFewer ==
    ASSUME UNCHANGED conns, DOMAIN subscribers' \subseteq DOMAIN subscribers,
           \A p \in DOMAIN subscribers' : subscribers'[p] = subscribers[p]
    PROVE  /\ Reached(Peers)' \subseteq Reached(Peers)
           /\ SubscribersOwn => SubscribersOwn'
BY DEF Reached, SubscribersOwn

LEMMA ConnectionAside ==
    ASSUME TypeOK, RequestInv, ConnectionStep
    PROVE  AsideStep
<1>1. PICK c \in Conns :
        attach(c) \/ attach_refused(c) \/ ws_closes(c) \/ detach(c) \/ ws_handler_exits(c)
    BY DEF ConnectionStep
<1>2. UNCHANGED <<requestVars, agent_stdin, sent>>
    BY <1>1 DEF attach, attach_refused, ws_closes, detach, ws_handler_exits
<1>3. /\ conns \in [Conns -> {"idle", "open", "closing", "gone"}]
      /\ outbound \in [Conns -> Seq(Frame)] /\ replay_log \in Seq(BroadcastFrame)
    BY DEF TypeOK
<1>4. CASE attach(c)
    <2>1. /\ conns[c] = "idle" /\ conns' = [conns EXCEPT ![c] = "open"]
          /\ subscribers' = With(subscribers, PeerOf[c], c)
          /\ outbound' = [outbound EXCEPT ![c] = IF c \in SkipReplay THEN <<>> ELSE replay_log]
        BY <1>4 DEF attach
    <2>2. SubscribersOwn'
        BY <2>1 DEF RequestInv, SubscribersOwn, With
    <2>3. NothingFor(c)
        <3>1. \A k \in DOMAIN outbound'[c] : outbound'[c][k] \in BroadcastFrame
            BY <1>3, <2>1
        <3>2. \A f \in BroadcastFrame : ~IsAnswer(f)
            BY DEF BroadcastFrame, IsAnswer
        <3>3. sent[c] = {}
            BY <2>1 DEF RequestInv
        <3>4. conns'[c] # "idle"
            BY <1>3, <2>1
        <3>5. QED
            BY <1>2, <3>1, <3>2, <3>3, <3>4 DEF NothingFor
    <2>4. ASSUME NEW d \in Conns \ {c}
          PROVE  NothingFor(d)
        <3>1. outbound'[d] = outbound[d] /\ conns'[d] = conns[d]
            BY <1>3, <2>1
        <3>2. d \in Reached(Peers)' => d \in Reached(Peers)
            BY <2>1, <3>1 DEF Reached, With
        <3>3. QED
            BY <1>2, <3>1, <3>2 DEF NothingFor
    <2>5. QED
        BY <1>2, <2>2, <2>3, <2>4 DEF AsideStep, StdinAside
<1>5. CASE attach_refused(c)
    <2>1. /\ conns[c] = "idle" /\ conns' = [conns EXCEPT ![c] = "gone"]
          /\ UNCHANGED subscribers
          /\ outbound' = [outbound EXCEPT ![c] = <<[type |-> "close"]>>]
        BY <1>5 DEF attach_refused
    <2>2. SubscribersOwn'
        BY <2>1 DEF RequestInv, SubscribersOwn
    <2>3. NothingFor(c)
        <3>1. outbound'[c] = <<[type |-> "close"]>>
            BY <1>3, <2>1
        <3>2. \A k \in DOMAIN outbound'[c] : outbound'[c][k].type = "close"
            BY <3>1
        <3>3. sent[c] = {}
            BY <2>1 DEF RequestInv
        <3>4. conns'[c] # "idle"
            BY <1>3, <2>1
        <3>5. QED
            BY <1>2, <3>2, <3>3, <3>4 DEF NothingFor, IsAnswer
    <2>4. ASSUME NEW d \in Conns \ {c}
          PROVE  NothingFor(d)
        <3>1. outbound'[d] = outbound[d] /\ conns'[d] = conns[d]
            BY <1>3, <2>1
        <3>2. d \in Reached(Peers)' => d \in Reached(Peers)
            BY <2>1, <3>1 DEF Reached
        <3>3. QED
            BY <1>2, <3>1, <3>2 DEF NothingFor
    <2>5. QED
        BY <1>2, <2>2, <2>3, <2>4 DEF AsideStep, StdinAside
<1>6. CASE ws_closes(c) \/ detach(c) \/ ws_handler_exits(c)
    <2>1. UNCHANGED outbound /\ conns' \in {[conns EXCEPT ![c] = "closing"], [conns EXCEPT ![c] = "gone"]}
        BY <1>6 DEF ws_closes, detach, ws_handler_exits
    <2>2. UNCHANGED subscribers \/ subscribers' = Without(subscribers, PeerOf[c])
        BY <1>6 DEF ws_closes, detach, ws_handler_exits
    <2>3. /\ DOMAIN subscribers' \subseteq DOMAIN subscribers
          /\ \A p \in DOMAIN subscribers' : subscribers'[p] = subscribers[p]
        BY <2>2 DEF Without
    <2>4. SubscribersOwn'
        BY <2>3 DEF RequestInv, SubscribersOwn
    <2>5. \A d \in Conns : /\ conns'[d] = "idle" => conns[d] = "idle"
                           /\ conns'[d] = "open" => conns[d] = "open"
        BY <1>3, <2>1
    <2>6. \A d \in Reached(Peers)' : d \in Reached(Peers)
        BY <2>3, <2>5 DEF Reached
    <2>7. QED
        BY <1>2, <2>1, <2>4, <2>5, <2>6 DEF AsideStep, StdinAside, NothingFor
<1>7. QED
    BY <1>1, <1>4, <1>5, <1>6

LEMMA LocalTold ==
    ASSUME TypeOK, RequestInv, NEW c \in Conns, NEW i \in ReqIds, NEW param \in MaybeSession,
           NEW method \in Methods, NEW policy \in {"none", "full", "pending_only"},
           \/ handle_attach_request(c, i, param, policy)
           \/ handle_detach_request(c, i, param)
           \/ answer_from_cache(c, i, method)
           \/ reject_busy(c, i, method)
    PROVE  \E any \in ClientMethods, f \in Frame : Told(c, i, any, f)
<1>1. ClientMethods \cap {"session/attach", "session/detach"} = {"session/attach", "session/detach"}
      /\ method \in ClientMethods
    BY ConstantsOK DEF ClientMethods
<1>2. ASSUME UNCHANGED connVars
      PROVE  SubscribersOwn' /\ Reached(Peers)' \subseteq Reached(Peers) /\ UNCHANGED conns
    BY <1>2 DEF connVars, RequestInv, SubscribersOwn, Reached
<1>3. CASE handle_attach_request(c, i, param, policy)
    <2> DEFINE resolved == ResolvedSession(param)
               history == CASE policy = "none" -> {}
                            [] policy = "full" -> history_full
                            [] policy = "pending_only" -> history_pending_only
               f == IF session_id_mismatch(param, resolved)
                    THEN Response(i, FALSE, 0, None)
                    ELSE [type |-> "attached", id |-> i, sid |-> resolved,
                          history |-> history]
    <2>1. resolved \in MaybeSession
        BY DEF ResolvedSession, TypeOK
    <2>2. history_full \subseteq Nat /\ history_pending_only \subseteq AskIds
        BY DEF history_full, history_pending_only, TypeOK
    <2>3. history \in SUBSET (Nat \cup AskIds)
        BY <2>2
    <2> HIDE DEF resolved, history
    <2>4. f \in Frame
        BY <2>1, <2>3 DEF Frame, Response, MaybeSession
    <2>5. IsAnswer(f) /\ f.id = i /\ (f.type = "response" => f.by = 0)
        BY DEF IsAnswer, Response
    <2>6. /\ send_to(PeerOf[c], f) /\ NewRequest(c, i, "session/attach")
          /\ UNCHANGED <<connVars, requestVars, agent_stdin>>
        BY <1>3 DEF handle_attach_request, resolved, history
    <2> HIDE DEF f
    <2>7. Told(c, i, "session/attach", f)
        BY <1>2, <2>4, <2>5, <2>6 DEF Told
    <2>8. QED
        BY <1>1, <2>4, <2>7
<1>4. CASE handle_detach_request(c, i, param)
    <2> DEFINE mismatch == session_id_mismatch(param, canonical_session_id)
               f == Response(i, ~mismatch, 0, IF mismatch THEN None
                                              ELSE canonical_session_id)
    <2>1. f \in Frame
        BY DEF Frame, Response, TypeOK, MaybeSession
    <2>2. IsAnswer(f) /\ f.id = i /\ f.by = 0
        BY DEF IsAnswer, Response
    <2>3. /\ send_to(PeerOf[c], f) /\ NewRequest(c, i, "session/detach")
          /\ UNCHANGED <<conns, requestVars, agent_stdin>>
          /\ subscribers' = IF mismatch THEN subscribers ELSE Without(subscribers, PeerOf[c])
        BY <1>4 DEF handle_detach_request
    <2> HIDE DEF f, mismatch
    <2>4. /\ DOMAIN subscribers' \subseteq DOMAIN subscribers
          /\ \A p \in DOMAIN subscribers' : subscribers'[p] = subscribers[p]
        BY <2>3 DEF Without
    <2>5. SubscribersOwn' /\ Reached(Peers)' \subseteq Reached(Peers)
        BY <2>3, <2>4, ReachedFewer DEF RequestInv
    <2>6. Told(c, i, "session/detach", f)
        BY <2>1, <2>2, <2>3, <2>5 DEF Told
    <2>7. QED
        BY <1>1, <2>1, <2>6
<1>5. CASE answer_from_cache(c, i, method)
    <2> DEFINE f == IF method = "initialize"
                    THEN Response(i, TRUE, initialize_cache, None)
                    ELSE Response(i, TRUE, session_new_cache.by, session_new_cache.sid)
    <2>1. f \in Frame
        BY DEF Frame, Response, TypeOK, MaybeSession, CachedResult
    <2>2. IsAnswer(f) /\ f.id = i
        BY DEF IsAnswer, Response
    <2>3. /\ send_to(PeerOf[c], f) /\ NewRequest(c, i, method)
          /\ UNCHANGED <<connVars, requestVars, agent_stdin>>
          /\ method \in {"initialize", "session/new"}
        BY <1>5 DEF answer_from_cache, Cached
    <2> HIDE DEF f
    <2>4. Told(c, i, method, f)
        BY <1>2, <2>1, <2>2, <2>3 DEF Told
    <2>5. QED
        BY <1>1, <2>1, <2>4
<1>6. CASE reject_busy(c, i, method)
    <2> DEFINE f == Response(i, FALSE, 0, None)
    <2>1. f \in Frame
        BY DEF Frame, Response, MaybeSession
    <2>2. IsAnswer(f) /\ f.id = i /\ f.by = 0
        BY DEF IsAnswer, Response
    <2>3. /\ send_to(PeerOf[c], f) /\ NewRequest(c, i, method)
          /\ UNCHANGED <<connVars, requestVars, agent_stdin>>
        BY <1>6 DEF reject_busy
    <2> HIDE DEF f
    <2>4. Told(c, i, method, f)
        BY <1>2, <2>1, <2>2, <2>3 DEF Told
    <2>5. QED
        BY <1>1, <2>1, <2>4
<1>7. QED
    BY <1>3, <1>4, <1>5, <1>6

LEMMA SilentAside ==
    ASSUME TypeOK, RequestInv, UNCHANGED <<connVars, outbound, requestVars, sent>>, StdinAside
    PROVE  AsideStep
BY DEF connVars, RequestInv, SubscribersOwn, Reached, AsideStep, NothingFor

LEMMA InboundSteps ==
    ASSUME PeersApart, TypeOK, RequestInv, NEW c \in Conns,
           \/ \E i \in ReqIds :
                translate_outbound_request(c, i) \/ handle_subscriber_cancel(c, i)
           \/ handle_subscriber_notification(c)
           \/ \E a \in AskIds \cup StrayIds : gate_subscriber_response(c, a)
    PROVE  \/ AsideStep
           \/ \E i \in ReqIds, method \in ClientMethods, f \in Frame : Told(c, i, method, f)
           \/ \E i \in ReqIds, method \in ClientMethods, param \in MaybeSession :
                forward_request(c, i, method, param)
<1>1. ASSUME NEW i \in ReqIds, translate_outbound_request(c, i)
      PROVE  \/ \E method \in ClientMethods, f \in Frame : Told(c, i, method, f)
             \/ \E method \in ClientMethods, param \in MaybeSession :
                    forward_request(c, i, method, param)
    <2>1. /\ Methods \subseteq ClientMethods /\ "session/load" \in ClientMethods
          /\ None \in MaybeSession
        BY ConstantsOK DEF ClientMethods, MaybeSession
    <2>2. ASSUME NEW param \in MaybeSession, NEW policy \in {"none", "full", "pending_only"},
                 handle_attach_request(c, i, param, policy)
          PROVE  \E method \in Methods : method \in Methods
        BY <2>2, ConstantsOK DEF handle_attach_request, NewRequest
    <2>3. ASSUME NEW param \in MaybeSession, handle_detach_request(c, i, param)
          PROVE  \E method \in Methods : method \in Methods
        BY <2>3 DEF handle_detach_request, NewRequest
    <2>4. ASSUME NEW method \in Methods \ NotificationMethods,
                 method # "session/load" /\ forward_request(c, i, method, None)
          PROVE  \E any \in ClientMethods, param \in MaybeSession : forward_request(c, i, any, param)
        BY <2>1, <2>4
    <2>5. ASSUME NEW method \in Methods \ NotificationMethods,
                 answer_from_cache(c, i, method) \/ reject_busy(c, i, method)
          PROVE  \E any \in ClientMethods, f \in Frame : Told(c, i, any, f)
        BY <2>1, <2>5, LocalTold
    <2>6. ASSUME NEW param \in MaybeSession, NEW policy \in {"none", "full", "pending_only"},
                 handle_attach_request(c, i, param, policy)
          PROVE  \E any \in ClientMethods, f \in Frame : Told(c, i, any, f)
        BY <2>2, <2>6, LocalTold
    <2>7. ASSUME NEW param \in MaybeSession, handle_detach_request(c, i, param)
          PROVE  \E any \in ClientMethods, f \in Frame : Told(c, i, any, f)
        BY <2>3, <2>7, LocalTold
    <2>8. ASSUME NEW param \in MaybeSession, forward_request(c, i, "session/load", param)
          PROVE  \E any \in ClientMethods, p \in MaybeSession : forward_request(c, i, any, p)
        BY <2>1, <2>8
    <2>9. QED
        BY <1>1, <2>4, <2>5, <2>6, <2>7, <2>8 DEF translate_outbound_request
<1>2. ASSUME NEW i \in ReqIds, handle_subscriber_cancel(c, i)
      PROVE  AsideStep
    <2> DEFINE Cancel(m) == [type |-> "cancel", mux_id |-> m, method |-> "$/cancel_request",
                             conn |-> c, id |-> i]
    <2>1. PICK m \in DOMAIN pending :
                /\ pending[m].peer_id = PeerOf[c] /\ pending[m].original_id = i
                /\ agent_stdin' = Append(agent_stdin, Cancel(m))
        BY <1>2 DEF handle_subscriber_cancel, ToAgent
    <2>2. /\ Cancel(m) \in AgentFrame /\ ~IsRequest(Cancel(m))
          /\ Cancel(m).mux_id = m /\ Cancel(m).conn = c /\ Cancel(m).id = i
        BY DEF AgentFrame, ClientMethods, TypeOK, IsRequest
    <2> HIDE DEF Cancel
    <2>3. Forwarded(m, c, i)
        <3>1. PICK d \in Conns :
                PeerOf[d] = pending[m].peer_id /\ Forwarded(m, d, pending[m].original_id)
            BY <2>1 DEF RequestInv, PendingForwarded
        <3>2. QED
            BY <2>1, <3>1 DEF PeersApart
    <2>4. StdinAside
        BY <2>1, <2>2, <2>3 DEF StdinAside
    <2>5. QED
        BY <1>2, <2>4, SilentAside DEF handle_subscriber_cancel
<1>3. ASSUME handle_subscriber_notification(c)
      PROVE  AsideStep
    <2> DEFINE f == [type |-> "notification", conn |-> c]
    <2>1. f \in AgentFrame /\ ~IsRequest(f) /\ f.type # "cancel"
        BY DEF AgentFrame, IsRequest
    <2>2. agent_stdin' = Append(agent_stdin, f)
        BY <1>3 DEF handle_subscriber_notification, ToAgent
    <2> HIDE DEF f
    <2>3. StdinAside
        BY <2>1, <2>2 DEF StdinAside
    <2>4. QED
        BY <1>3, <2>3, SilentAside DEF handle_subscriber_notification
<1>4. ASSUME NEW a \in AskIds \cup StrayIds, gate_subscriber_response(c, a)
      PROVE  AsideStep
    <2> DEFINE f == [type |-> "reply", id |-> a, conn |-> c]
    <2>1. f \in AgentFrame /\ ~IsRequest(f) /\ f.type # "cancel"
        BY DEF AgentFrame, IsRequest
    <2>2. agent_stdin' = Append(agent_stdin, f)
        BY <1>4 DEF gate_subscriber_response, ToAgent
    <2> HIDE DEF f
    <2>3. StdinAside
        BY <2>1, <2>2 DEF StdinAside
    <2>4. QED
        BY <1>4, <2>3, SilentAside DEF gate_subscriber_response
<1>5. QED
    BY <1>1, <1>2, <1>3, <1>4

\* A frame that is no answer goes to some subscribers, and nobody joins.
LEMMA DeliverAside ==
    ASSUME TypeOK, RequestInv, NEW C, NEW f \in Frame, ~IsAnswer(f), Deliver(C, f),
           UNCHANGED <<sent, conns, requestVars, agent_stdin>>,
           DOMAIN subscribers' \subseteq DOMAIN subscribers,
           \A p \in DOMAIN subscribers' : subscribers'[p] = subscribers[p]
    PROVE  AsideStep
<1>1. Reached(Peers)' \subseteq Reached(Peers) /\ SubscribersOwn'
    BY ReachedFewer DEF RequestInv
<1>2. \A c \in Conns : NothingFor(c)
    BY <1>1, DeliverNothing
<1>3. QED
    BY <1>1, <1>2 DEF AsideStep, StdinAside

LEMMA BroadcastAside ==
    ASSUME TypeOK, RequestInv, NEW method \in {"notification", "cancel", "raw"}, broadcast(method),
           UNCHANGED <<connVars, requestVars, agent_stdin, sent>>
    PROVE  AsideStep
<1> DEFINE f == [type |-> "broadcast", method |-> method, seq |-> Len(replay_log) + 1]
<1>1. f \in Frame /\ ~IsAnswer(f)
    BY DEF TypeOK, Frame, BroadcastFrame, IsAnswer
<1>2. Deliver(Reached(Peers), f)
    BY DEF broadcast, BroadcastOf
<1> HIDE DEF f
<1>3. QED
    BY <1>1, <1>2, DeliverAside DEF connVars

LEMMA AgentAsksAside ==
    ASSUME TypeOK, RequestInv, NEW a \in AskIds,
           block_agent_request(a) \/ handle_agent_request(a) \/ handle_agent_cancel(a)
    PROVE  AsideStep
<1>1. CASE block_agent_request(a)
    <2> DEFINE f == [type |-> "blocked", id |-> a]
    <2>1. f \in AgentFrame /\ ~IsRequest(f) /\ f.type # "cancel"
        BY DEF AgentFrame, IsRequest
    <2>2. agent_stdin' = Append(agent_stdin, f)
        BY <1>1 DEF block_agent_request, ToAgent
    <2> HIDE DEF f
    <2>3. StdinAside
        BY <2>1, <2>2 DEF StdinAside
    <2>4. QED
        BY <1>1, <2>3, SilentAside DEF block_agent_request
<1>2. CASE handle_agent_request(a)
    <2> DEFINE f == [type |-> "ask", id |-> a]
    <2>1. f \in Frame /\ ~IsAnswer(f) /\ Deliver(Reached(Peers), f)
        BY <1>2 DEF Frame, IsAnswer, handle_agent_request, fanout
    <2> HIDE DEF f
    <2>2. /\ DOMAIN subscribers' \subseteq DOMAIN subscribers
          /\ \A p \in DOMAIN subscribers' : subscribers'[p] = subscribers[p]
        BY <1>2 DEF handle_agent_request, fanout
    <2>3. QED
        BY <1>2, <2>1, <2>2, DeliverAside DEF handle_agent_request
<1>3. CASE handle_agent_cancel(a)
    BY <1>3, BroadcastAside DEF handle_agent_cancel
<1>4. QED
    BY <1>1, <1>2, <1>3

LEMMA AgentLineSteps ==
    ASSUME TypeOK, RequestInv, handle_agent_line
    PROVE  \/ AsideStep
           \/ \E m \in DOMAIN pending, ok \in BOOLEAN, sid \in MaybeSession \cup {NullResult} :
                route_agent_response(m, ok, sid)
<1>1. ASSUME NEW method \in {"notification", "raw"}, NEW sid,
             handle_agent_notification(method, sid)
      PROVE  AsideStep
    BY <1>1, BroadcastAside DEF handle_agent_notification
<1>2. QED
    BY <1>1, AgentAsksAside DEF handle_agent_line

LEMMA EndAside ==
    ASSUME TypeOK, RequestInv, agent_dies \/ mux_ttl_expires
    PROVE  AsideStep
<1>1. CASE agent_dies
    <2> DEFINE f == [type |-> "close"]
    <2>1. f \in Frame /\ ~IsAnswer(f) /\ Deliver(Reached(Peers), f)
        BY <1>1 DEF Frame, IsAnswer, agent_dies
    <2> HIDE DEF f
    <2>2. DOMAIN subscribers' = {}
        BY <1>1 DEF agent_dies
    <2>3. QED
        BY <1>1, <2>1, <2>2, DeliverAside DEF agent_dies
<1>2. CASE mux_ttl_expires
    <2>1. UNCHANGED <<subscribers, conns, outbound, requestVars, sent, agent_stdin>>
        BY <1>2 DEF mux_ttl_expires
    <2>2. QED
        BY <2>1 DEF StdinAside, RequestInv, SubscribersOwn, Reached, AsideStep, NothingFor
<1>3. QED
    BY <1>1, <1>2

\* Every step is of one of four kinds.
LEMMA AnswerSteps ==
    ASSUME PeersApart, TypeOK, RequestInv, Next
    PROVE  \/ AsideStep
           \/ \E c \in Conns, i \in ReqIds, method \in ClientMethods, f \in Frame :
                Told(c, i, method, f)
           \/ \E c \in Conns, i \in ReqIds, method \in ClientMethods, param \in MaybeSession :
                forward_request(c, i, method, param)
           \/ \E m \in DOMAIN pending, ok \in BOOLEAN, sid \in MaybeSession \cup {NullResult} :
                route_agent_response(m, ok, sid)
<1>1. CASE ConnectionStep
    BY <1>1, ConnectionAside
<1>2. CASE handle_inbound
    BY <1>2, InboundSteps DEF handle_inbound
<1>3. CASE handle_agent_line
    BY <1>3, AgentLineSteps
<1>4. CASE agent_dies \/ mux_ttl_expires
    BY <1>4, EndAside
<1>5. QED
    BY <1>1, <1>2, <1>3, <1>4 DEF Next

-----------------------------------------------------------------------------

OwnFrame(c, f) ==
    f.type = "response" /\ f.by # 0 =>
        Forwarded(f.by, c, f.id) \/ Asked(c, f.id, {"initialize", "session/new"})

\* What is forwarded and asked only grows, and so do the frames' owners.
LEMMA OwnKept ==
    ASSUME TypeOK, AnswersAreTheirOwn,
           \A m, c, i : Forwarded(m, c, i) => Forwarded(m, c, i)',
           \A c \in Conns : sent[c] \subseteq sent'[c],
           \A c \in Conns : \A k \in DOMAIN outbound'[c] : \A f : f = outbound'[c][k] =>
                (k \in DOMAIN outbound[c] /\ outbound[c][k] = f) \/ OwnFrame(c, f)',
           \/ UNCHANGED agent_stdin
           \/ \E f \in AgentFrame :
                /\ agent_stdin' = Append(agent_stdin, f)
                /\ f.type = "cancel" => Forwarded(f.mux_id, f.conn, f.id)'
    PROVE  AnswersAreTheirOwn'
<1>1. ASSUME NEW c \in Conns, NEW f, OwnFrame(c, f)
      PROVE  OwnFrame(c, f)'
    <2>1. Asked(c, f.id, {"initialize", "session/new"}) => Asked(c, f.id, {"initialize", "session/new"})'
        BY DEF Asked
    <2>2. Forwarded(f.by, c, f.id) => Forwarded(f.by, c, f.id)'
        OBVIOUS
    <2>3. QED
        BY <1>1, <2>1, <2>2 DEF OwnFrame
<1>2. ASSUME NEW c \in Conns, NEW k \in DOMAIN outbound'[c], NEW f, f = outbound'[c][k]
      PROVE  OwnFrame(c, f)'
    <2>1. CASE k \in DOMAIN outbound[c] /\ outbound[c][k] = f
        <3>1. OwnFrame(c, f)
            BY <2>1 DEF AnswersAreTheirOwn, OwnFrame
        <3>2. QED
            BY <1>1, <3>1
    <2>2. QED
        BY <1>2, <2>1
<1>3. ASSUME NEW k \in DOMAIN agent_stdin', NEW g, g = agent_stdin'[k], g.type = "cancel"
      PROVE  Forwarded(g.mux_id, g.conn, g.id)'
    <2>1. ASSUME k \in DOMAIN agent_stdin, agent_stdin[k] = g
          PROVE  Forwarded(g.mux_id, g.conn, g.id)'
        <3>1. Forwarded(g.mux_id, g.conn, g.id)
            BY <1>3, <2>1 DEF AnswersAreTheirOwn
        <3>2. QED
            BY <3>1
    <2>2. ASSUME NEW f \in AgentFrame, agent_stdin' = Append(agent_stdin, f),
                 f.type = "cancel" => Forwarded(f.mux_id, f.conn, f.id)'
          PROVE  Forwarded(g.mux_id, g.conn, g.id)'
        <3>1. g = f \/ (k \in DOMAIN agent_stdin /\ agent_stdin[k] = g)
            BY <1>3, <2>2 DEF TypeOK
        <3>2. QED
            BY <1>3, <2>1, <2>2, <3>1
    <2>3. QED
        BY <1>3, <2>1, <2>2
<1>4. QED
    BY <1>2, <1>3 DEF AnswersAreTheirOwn, OwnFrame, Forwarded, Asked

LEMMA AsideKeeps ==
    ASSUME TypeOK, RequestInv, AsideStep
    PROVE  RequestInv'
<1>1. \A m, c, i : Forwarded(m, c, i)' <=> Forwarded(m, c, i)
    BY ForwardedSame DEF AsideStep, StdinAside
<1>2. /\ UNCHANGED <<next_mux_id, pending>> /\ SubscribersOwn'
      /\ \A c \in Conns : sent'[c] = sent[c] /\ (conns'[c] = "idle" => conns[c] = "idle")
    BY DEF AsideStep, requestVars, NothingFor
<1>3. \A c \in Conns : \A i : HasAsked(c, i)' <=> HasAsked(c, i)
    BY <1>2 DEF HasAsked
<1>4. \A c, i : WaitingFor(c, i)' = WaitingFor(c, i)
    BY <1>1, <1>2 DEF WaitingFor
<1>5. ASSUME NEW c \in Conns
      PROVE  \/ /\ c \in Reached(Peers)' => c \in Reached(Peers)
                /\ \A i : AnswersTo(c, i)' = AnswersTo(c, i)
             \/ sent[c] = {} /\ \A i : AnswersTo(c, i)' = {}
    <2>1. NothingFor(c)
        BY DEF AsideStep
    <2>2. CASE outbound'[c] = outbound[c] /\ (c \in Reached(Peers)' => c \in Reached(Peers))
        BY <2>2, AnswersSame
    <2>3. ASSUME c \in Reached(Peers)' => c \in Reached(Peers), NEW f \in Frame, ~IsAnswer(f),
                 outbound'[c] = Append(outbound[c], f)
          PROVE  \A i : AnswersTo(c, i)' = AnswersTo(c, i)
        <3>1. \A i : AnswersTo(c, i)' = AnswersTo(c, i) \cup
                        IF IsAnswer(f) /\ f.id = i THEN {Len(outbound[c]) + 1} ELSE {}
            BY <2>3, AnswersMore
        <3>2. QED
            BY <2>3, <3>1
    <2>4. CASE sent[c] = {} /\ \A k \in DOMAIN outbound'[c] : ~IsAnswer(outbound'[c][k])
        BY <2>4 DEF AnswersTo
    <2>5. QED
        BY <2>1, <2>2, <2>3, <2>4 DEF NothingFor
<1>6. ForwardedOnce'
    <2>1. /\ \A m, c, i : Forwarded(m, c, i) =>
                c \in Conns /\ HasAsked(c, i)' /\ m \in MuxIds /\ m < next_mux_id
          /\ \A m, n, c, i : Forwarded(m, c, i) /\ Forwarded(n, c, i) => m = n
          /\ \A m, c, d, i, j : Forwarded(m, c, i) /\ Forwarded(m, d, j) => c = d /\ i = j
        BY <1>3 DEF RequestInv, ForwardedOnce
    <2>2. QED
        BY <1>1, <1>2, <2>1 DEF ForwardedOnce
<1>7. PendingForwarded'
    BY <1>1, <1>2 DEF RequestInv, PendingForwarded
<1>8. AnswersAreTheirOwn'
    <2>1. ASSUME NEW c \in Conns, NEW k \in DOMAIN outbound'[c]
          PROVE  \/ k \in DOMAIN outbound[c] /\ outbound'[c][k] = outbound[c][k]
                 \/ ~IsAnswer(outbound'[c][k])
        <3>1. NothingFor(c)
            BY DEF AsideStep
        <3>2. ASSUME NEW f \in Frame, ~IsAnswer(f), outbound'[c] = Append(outbound[c], f)
              PROVE  \/ k \in DOMAIN outbound[c] /\ outbound'[c][k] = outbound[c][k]
                     \/ ~IsAnswer(outbound'[c][k])
            BY <2>1, <3>2 DEF TypeOK
        <3>3. QED
            BY <2>1, <3>1, <3>2 DEF NothingFor
    <2>2. \A c, f : ~IsAnswer(f) => OwnFrame(c, f)'
        BY DEF IsAnswer, OwnFrame
    <2>3. \/ UNCHANGED agent_stdin
          \/ \E f \in AgentFrame :
                /\ agent_stdin' = Append(agent_stdin, f)
                /\ f.type = "cancel" => Forwarded(f.mux_id, f.conn, f.id)'
        BY <1>1 DEF AsideStep, StdinAside
    <2>4. AnswersAreTheirOwn /\ \A c \in Conns : sent[c] \subseteq sent'[c]
        BY <1>2 DEF RequestInv
    <2>5. QED
        BY <1>1, <2>1, <2>2, <2>3, <2>4, OwnKept
<1>9. \A c \in Conns : conns'[c] = "idle" => sent'[c] = {}
    BY <1>2 DEF RequestInv
<1>10. \A c \in Conns, i \in ReqIds : AnswersTo(c, i)' # {} => HasAsked(c, i)'
    BY <1>3, <1>5 DEF RequestInv
<1>11. ASSUME NEW c \in Conns, c \in Reached(Peers)', NEW i \in ReqIds, HasAsked(c, i)'
       PROVE  Balanced(c, i)'
    <2>1. sent[c] # {} /\ HasAsked(c, i)
        BY <1>3, <1>11 DEF HasAsked
    <2>2. c \in Reached(Peers) /\ AnswersTo(c, i)' = AnswersTo(c, i)
        BY <1>5, <1>11, <2>1
    <2>3. Balanced(c, i)
        BY <2>1, <2>2 DEF RequestInv
    <2>4. QED
        BY <1>4, <2>2, <2>3 DEF Balanced
<1>12. Reached(Peers)' \subseteq Conns
    BY DEF Reached
<1>13. QED
    BY <1>2, <1>6, <1>7, <1>8, <1>9, <1>10, <1>11, <1>12 DEF RequestInv

\* A request that is new has no answer and is not forwarded yet.
LEMMA NewIsFresh ==
    ASSUME TypeOK, RequestInv, NEW c \in Conns, NEW i \in ReqIds, NEW method,
           NewRequest(c, i, method)
    PROVE  /\ conns[c] # "idle" /\ ~HasAsked(c, i)
           /\ AnswersTo(c, i) = {} /\ \A m : ~Forwarded(m, c, i)
           /\ \A d \in Conns : sent'[d] = IF d = c THEN sent[c] \cup {[id |-> i, method |-> method]}
                                                   ELSE sent[d]
           /\ \A d \in Conns : \A j : HasAsked(d, j)' <=> HasAsked(d, j) \/ (d = c /\ j = i)
<1>1. conns[c] # "idle" /\ ~HasAsked(c, i)
    BY DEF NewRequest, CanSend, HasAsked
<1>2. \A d \in Conns : sent'[d] = IF d = c THEN sent[c] \cup {[id |-> i, method |-> method]}
                                           ELSE sent[d]
    BY DEF NewRequest, TypeOK
<1>3. \A d \in Conns : \A j : HasAsked(d, j)' <=> HasAsked(d, j) \/ (d = c /\ j = i)
    <2>1. \A d \in Conns \ {c} : \A j : HasAsked(d, j)' <=> HasAsked(d, j)
        BY <1>2 DEF HasAsked
    <2> DEFINE r == [id |-> i, method |-> method]
    <2>2. sent'[c] = sent[c] \cup {r} /\ r.id = i
        BY <1>2
    <2> HIDE DEF r
    <2>3. \A j : HasAsked(c, j)' <=> HasAsked(c, j) \/ j = i
        BY <2>2 DEF HasAsked
    <2>4. QED
        BY <2>1, <2>3
<1>4. AnswersTo(c, i) = {} /\ \A m : ~Forwarded(m, c, i)
    BY <1>1 DEF RequestInv, ForwardedOnce
<1>5. QED
    BY <1>1, <1>2, <1>3, <1>4

LEMMA ToldKeeps ==
    ASSUME PeersApart, TypeOK, RequestInv, NEW c \in Conns, NEW i \in ReqIds,
           NEW method \in ClientMethods, NEW f \in Frame, Told(c, i, method, f)
    PROVE  RequestInv'
<1>1. /\ conns[c] # "idle" /\ ~HasAsked(c, i)
      /\ AnswersTo(c, i) = {} /\ \A m : ~Forwarded(m, c, i)
      /\ \A d \in Conns : sent'[d] = IF d = c THEN sent[c] \cup {[id |-> i, method |-> method]}
                                              ELSE sent[d]
      /\ \A d \in Conns : \A j : HasAsked(d, j)' <=> HasAsked(d, j) \/ (d = c /\ j = i)
    <2>1. NewRequest(c, i, method)
        BY DEF Told
    <2>2. QED
        BY <2>1, NewIsFresh
<1>2. \A m, d, j : Forwarded(m, d, j)' <=> Forwarded(m, d, j)
    BY ForwardedSame DEF Told
<1>3. UNCHANGED <<conns, next_mux_id, pending>> /\ SubscribersOwn'
    BY DEF Told, requestVars
<1>4. \A d, j : WaitingFor(d, j)' = WaitingFor(d, j)
    BY <1>2, <1>3 DEF WaitingFor
<1>5. \A d \in Conns : outbound'[d] = IF d \in Reached({PeerOf[c]}) THEN Append(outbound[d], f)
                                                                     ELSE outbound[d]
    BY DEF Told, send_to, Deliver
<1>6. \A d \in Conns : d \in Reached({PeerOf[c]}) => d = c
    BY ReachedOnly DEF RequestInv
<1>7. \A d \in Conns : \A j : (d # c \/ j # i) => AnswersTo(d, j)' = AnswersTo(d, j)
    <2>1. ASSUME NEW d \in Conns, d # c
          PROVE  \A j : AnswersTo(d, j)' = AnswersTo(d, j)
        BY <1>5, <1>6, <2>1, AnswersSame
    <2>2. \A j : j # i => AnswersTo(c, j)' = AnswersTo(c, j)
        <3>1. CASE outbound'[c] = outbound[c]
            BY <3>1, AnswersSame
        <3>2. CASE outbound'[c] = Append(outbound[c], f)
            <4>1. \A j : AnswersTo(c, j)' = AnswersTo(c, j) \cup
                            IF IsAnswer(f) /\ f.id = j THEN {Len(outbound[c]) + 1} ELSE {}
                BY <3>2, AnswersMore
            <4>2. f.id = i
                BY DEF Told
            <4>3. QED
                BY <4>1, <4>2
        <3>3. QED
            BY <1>5, <3>1, <3>2
    <2>3. QED
        BY <2>1, <2>2
<1>8. ForwardedOnce'
    <2>1. /\ \A m, d, j : Forwarded(m, d, j) =>
                d \in Conns /\ HasAsked(d, j)' /\ m \in MuxIds /\ m < next_mux_id
          /\ \A m, n, d, j : Forwarded(m, d, j) /\ Forwarded(n, d, j) => m = n
          /\ \A m, d, e, j, k : Forwarded(m, d, j) /\ Forwarded(m, e, k) => d = e /\ j = k
        BY <1>1 DEF RequestInv, ForwardedOnce
    <2>2. QED
        BY <1>2, <1>3, <2>1 DEF ForwardedOnce
<1>9. PendingForwarded'
    BY <1>2, <1>3 DEF RequestInv, PendingForwarded
<1>10. AnswersAreTheirOwn'
    <2>1. \A d \in Conns : sent[d] \subseteq sent'[d]
        BY <1>1
    <2>2. f.id = i /\ (f.type = "response" /\ f.by # 0 => method \in {"initialize", "session/new"})
        BY DEF Told
    <2>3. method \in {"initialize", "session/new"} => Asked(c, i, {"initialize", "session/new"})'
        <3> DEFINE r == [id |-> i, method |-> method]
        <3>1. r \in sent'[c] /\ r.id = i /\ r.method = method
            BY <1>1
        <3> HIDE DEF r
        <3>2. QED
            BY <3>1 DEF Asked
    <2>4. OwnFrame(c, f)'
        BY <2>2, <2>3 DEF OwnFrame
    <2>5. ASSUME NEW d \in Conns, NEW k \in DOMAIN outbound'[d], NEW g, g = outbound'[d][k]
          PROVE  (k \in DOMAIN outbound[d] /\ outbound[d][k] = g) \/ OwnFrame(d, g)'
        <3>1. CASE outbound'[d] = outbound[d]
            BY <2>5, <3>1
        <3>2. CASE d = c /\ outbound'[d] = Append(outbound[d], f)
            <4>1. (k \in DOMAIN outbound[d] /\ outbound[d][k] = g) \/ g = f
                BY <2>5, <3>2 DEF TypeOK
            <4>2. QED
                BY <2>4, <3>2, <4>1
        <3>3. QED
            BY <1>5, <1>6, <3>1, <3>2
    <2>6. UNCHANGED agent_stdin /\ AnswersAreTheirOwn
        BY DEF Told, RequestInv
    <2>7. QED
        BY <1>2, <2>1, <2>5, <2>6, OwnKept
<1>11. \A d \in Conns : conns'[d] = "idle" => sent'[d] = {}
    BY <1>1, <1>3 DEF RequestInv
<1>12. \A d \in Conns, j \in ReqIds : AnswersTo(d, j)' # {} => HasAsked(d, j)'
    BY <1>1, <1>7 DEF RequestInv
<1>13. ASSUME NEW d \in Conns, d \in Reached(Peers)', NEW j \in ReqIds, HasAsked(d, j)'
       PROVE  Balanced(d, j)'
    <2>1. d \in Reached(Peers)
        BY <1>13 DEF Told
    <2>2. CASE d # c \/ j # i
        <3>1. Balanced(d, j)
            BY <1>1, <1>13, <2>1, <2>2 DEF RequestInv
        <3>2. QED
            BY <1>4, <1>7, <2>2, <3>1 DEF Balanced
    <2>3. CASE d = c /\ j = i
        <3>1. d \in Reached({PeerOf[c]})
            BY <2>1, <2>3, ReachedUnder DEF RequestInv
        <3>2. outbound'[c] = Append(outbound[c], f)
            BY <1>5, <2>3, <3>1
        <3>3. AnswersTo(c, i)' = {Len(outbound[c]) + 1}
            BY <1>1, <3>2, AnswersMore DEF Told
        <3>4. WaitingFor(c, i)' = {}
            BY <1>1, <1>4 DEF WaitingFor
        <3>5. QED
            BY <2>3, <3>3, <3>4 DEF Balanced
    <2>4. QED
        BY <2>2, <2>3
<1>14. Reached(Peers)' \subseteq Conns
    BY DEF Reached
<1>15. QED
    BY <1>3, <1>8, <1>9, <1>10, <1>11, <1>12, <1>13, <1>14 DEF RequestInv

LEMMA ForwardKeeps ==
    ASSUME PeersApart, TypeOK, RequestInv, NEW c \in Conns, NEW i \in ReqIds,
           NEW method \in ClientMethods, NEW param \in MaybeSession,
           forward_request(c, i, method, param)
    PROVE  RequestInv'
<1> DEFINE r == [peer_id |-> PeerOf[c], original_id |-> i,
                 handshake |-> handshake_kind(method, param),
                 loaded_session_id |-> param]
           f == [type |-> "request", mux_id |-> next_mux_id, method |-> method,
                 conn |-> c, id |-> i]
<1>1. /\ conns[c] # "idle" /\ ~HasAsked(c, i)
      /\ AnswersTo(c, i) = {} /\ \A m : ~Forwarded(m, c, i)
      /\ \A d \in Conns : sent'[d] = IF d = c THEN sent[c] \cup {[id |-> i, method |-> method]}
                                              ELSE sent[d]
      /\ \A d \in Conns : \A j : HasAsked(d, j)' <=> HasAsked(d, j) \/ (d = c /\ j = i)
    <2>1. NewRequest(c, i, method)
        BY DEF forward_request
    <2>2. QED
        BY <2>1, NewIsFresh
<1>2. /\ next_mux_id \in Nat \ {0} /\ next_mux_id' = next_mux_id + 1
      /\ UNCHANGED <<conns, subscribers, outbound>>
    BY DEF forward_request, connVars, TypeOK, MuxIds
<1>3. /\ f \in AgentFrame /\ f.type = "request"
      /\ f.mux_id = next_mux_id /\ f.conn = c /\ f.id = i
    BY <1>2 DEF AgentFrame, MuxIds
<1>4. agent_stdin' = Append(agent_stdin, f)
    BY DEF forward_request, ToAgent
<1>5. /\ DOMAIN pending' = DOMAIN pending \cup {next_mux_id}
      /\ pending'[next_mux_id].peer_id = PeerOf[c] /\ pending'[next_mux_id].original_id = i
      /\ \A m \in DOMAIN pending \ {next_mux_id} : pending'[m] = pending[m]
    <2>1. pending' = With(pending, next_mux_id, r)
        BY DEF forward_request
    <2>2. r.peer_id = PeerOf[c] /\ r.original_id = i
        OBVIOUS
    <2> HIDE DEF r
    <2>3. QED
        BY <2>1, <2>2 DEF With
<1> HIDE DEF f, r
<1>6. \A m, d, j : Forwarded(m, d, j)' <=>
            Forwarded(m, d, j) \/ (m = next_mux_id /\ d = c /\ j = i)
    BY <1>3, <1>4, ForwardedMore
<1>7. /\ \A m, d, j : Forwarded(m, d, j) =>
            d \in Conns /\ HasAsked(d, j) /\ m \in MuxIds /\ m < next_mux_id
      /\ \A m \in DOMAIN pending : m \in Nat /\ m < next_mux_id
    BY DEF RequestInv, ForwardedOnce, PendingForwarded, TypeOK, MuxIds
<1>8. /\ \A m, d, j : Forwarded(m, d, j) => m # next_mux_id
      /\ next_mux_id \notin DOMAIN pending
    BY <1>2, <1>7 DEF MuxIds
<1>9. ForwardedOnce'
    <2>1. \A m, d, j : Forwarded(m, d, j)' =>
            d \in Conns /\ HasAsked(d, j)' /\ m \in MuxIds /\ m < next_mux_id'
        BY <1>1, <1>2, <1>6, <1>7 DEF MuxIds
    <2>2. \A m, n, d, j : Forwarded(m, d, j)' /\ Forwarded(n, d, j)' => m = n
        BY <1>1, <1>6 DEF RequestInv, ForwardedOnce
    <2>3. \A m, d, e, j, k : Forwarded(m, d, j)' /\ Forwarded(m, e, k)' => d = e /\ j = k
        BY <1>6, <1>8 DEF RequestInv, ForwardedOnce
    <2>4. QED
        BY <2>1, <2>2, <2>3 DEF ForwardedOnce
<1>10. PendingForwarded'
    <2>1. ASSUME NEW m \in DOMAIN pending'
          PROVE  /\ m < next_mux_id'
                 /\ \E d \in Conns : /\ PeerOf[d] = pending'[m].peer_id
                                     /\ \E j : j = pending'[m].original_id /\ Forwarded(m, d, j)'
        <3>1. CASE m = next_mux_id
            BY <1>2, <1>5, <1>6, <3>1
        <3>2. CASE m # next_mux_id
            <4>1. m \in DOMAIN pending /\ pending'[m] = pending[m]
                BY <1>5, <2>1, <3>2
            <4>2. PICK d \in Conns :
                    PeerOf[d] = pending[m].peer_id /\ Forwarded(m, d, pending[m].original_id)
                BY <4>1 DEF RequestInv, PendingForwarded
            <4>3. \E j : j = pending'[m].original_id /\ Forwarded(m, d, j)'
                BY <1>6, <4>1, <4>2
            <4>4. m < next_mux_id'
                BY <1>2, <1>7, <4>1
            <4>5. QED
                BY <4>1, <4>2, <4>3, <4>4
        <3>3. QED
            BY <3>1, <3>2
    <2>2. QED
        BY <2>1 DEF PendingForwarded, Forwarded
<1>11. AnswersAreTheirOwn'
    <2>1. \A d \in Conns : sent[d] \subseteq sent'[d]
        BY <1>1
    <2>2. \A d \in Conns : \A k \in DOMAIN outbound'[d] : \A g : g = outbound'[d][k] =>
            (k \in DOMAIN outbound[d] /\ outbound[d][k] = g) \/ OwnFrame(d, g)'
        BY <1>2
    <2>3. AnswersAreTheirOwn
        BY DEF RequestInv
    <2>4. \A m, d, j : Forwarded(m, d, j) => Forwarded(m, d, j)'
        BY <1>6
    <2>5. \E g \in AgentFrame :
            /\ agent_stdin' = Append(agent_stdin, g)
            /\ g.type = "cancel" => Forwarded(g.mux_id, g.conn, g.id)'
        BY <1>3, <1>4
    <2>6. QED
        BY <2>1, <2>2, <2>3, <2>4, <2>5, OwnKept
<1>12. \A d \in Conns : conns'[d] = "idle" => sent'[d] = {}
    BY <1>1, <1>2 DEF RequestInv
<1>13. \A d \in Conns : \A j : AnswersTo(d, j)' = AnswersTo(d, j)
    BY <1>2 DEF AnswersTo
<1>14. \A d \in Conns, j \in ReqIds : AnswersTo(d, j)' # {} => HasAsked(d, j)'
    BY <1>1, <1>13 DEF RequestInv
<1>15. ASSUME NEW d \in Conns, d \in Reached(Peers), NEW j \in ReqIds, HasAsked(d, j)'
       PROVE  Balanced(d, j)'
    <2>1. CASE d # c \/ j # i
        <3>1. Balanced(d, j)
            BY <1>1, <1>15, <2>1 DEF RequestInv
        <3>2. \A m : Forwarded(m, d, j)' <=> Forwarded(m, d, j)
            BY <1>6, <2>1
        <3>3. WaitingFor(d, j)' = WaitingFor(d, j)
            BY <1>5, <1>8, <3>2 DEF WaitingFor
        <3>4. QED
            BY <1>13, <3>1, <3>3 DEF Balanced
    <2>2. CASE d = c /\ j = i
        <3>1. WaitingFor(c, i)' = {next_mux_id}
            BY <1>1, <1>5, <1>6 DEF WaitingFor
        <3>2. QED
            BY <1>1, <1>13, <2>2, <3>1 DEF Balanced
    <2>3. QED
        BY <2>1, <2>2
<1>16. Reached(Peers)' = Reached(Peers) /\ Reached(Peers) \subseteq Conns /\ SubscribersOwn'
    BY <1>2 DEF Reached, RequestInv, SubscribersOwn
<1>17. QED
    BY <1>9, <1>10, <1>11, <1>12, <1>14, <1>15, <1>16 DEF RequestInv

LEMMA RouteKeeps ==
    ASSUME PeersApart, TypeOK, RequestInv, NEW m \in DOMAIN pending, NEW ok \in BOOLEAN,
           NEW sid \in MaybeSession \cup {NullResult}, route_agent_response(m, ok, sid)
    PROVE  RequestInv'
<1>1. PICK c \in Conns, i \in {pending[m].original_id} :
        /\ i = pending[m].original_id
        /\ PeerOf[c] = pending[m].peer_id /\ Forwarded(m, c, i)
    BY DEF RequestInv, PendingForwarded
<1> DEFINE answer == Response(pending[m].original_id, ok, m, IF sid = NullResult THEN None ELSE sid)
<1>2. PICK f \in Frame : f = answer /\ f.type = "response" /\ f.id = i /\ f.by = m
    <2>1. answer \in Frame /\ answer.type = "response" /\ answer.id = i /\ answer.by = m
        BY <1>1 DEF TypeOK, Frame, Response, PendingRequest, MuxIds, MaybeSession
    <2>2. QED
        BY <2>1
<1>3. \A d \in Conns : outbound'[d] = IF d \in Reached({PeerOf[c]}) THEN Append(outbound[d], f)
                                                                     ELSE outbound[d]
    BY <1>1, <1>2 DEF route_agent_response, send_to, Deliver
<1> HIDE DEF answer
<1>4. \A d \in Conns : d \in Reached({PeerOf[c]}) => d = c
    BY ReachedOnly DEF RequestInv
<1>5. /\ UNCHANGED <<conns, subscribers, next_mux_id, agent_stdin, sent>>
      /\ DOMAIN pending' = DOMAIN pending \ {m}
      /\ \A n \in DOMAIN pending' : pending'[n] = pending[n]
    BY DEF route_agent_response, connVars, Without
<1>6. \A n, d, j : Forwarded(n, d, j)' <=> Forwarded(n, d, j)
    BY <1>5 DEF Forwarded
<1>7. \A d, j : HasAsked(d, j)' <=> HasAsked(d, j)
    BY <1>5 DEF HasAsked
<1>8. \A d, j : (d # c \/ j # i) => ~Forwarded(m, d, j)
    BY <1>1 DEF RequestInv, ForwardedOnce
<1>9. \A d, j : (d # c \/ j # i) => WaitingFor(d, j)' = WaitingFor(d, j)
    BY <1>5, <1>6, <1>8 DEF WaitingFor
<1>10. \A d \in Conns : \A j : (d # c \/ j # i) => AnswersTo(d, j)' = AnswersTo(d, j)
    <2>1. ASSUME NEW d \in Conns, d # c
          PROVE  \A j : AnswersTo(d, j)' = AnswersTo(d, j)
        BY <1>3, <1>4, <2>1, AnswersSame
    <2>2. \A j : j # i => AnswersTo(c, j)' = AnswersTo(c, j)
        <3>1. CASE outbound'[c] = outbound[c]
            BY <3>1, AnswersSame
        <3>2. CASE outbound'[c] = Append(outbound[c], f)
            <4>1. \A j : AnswersTo(c, j)' = AnswersTo(c, j) \cup
                            IF IsAnswer(f) /\ f.id = j THEN {Len(outbound[c]) + 1} ELSE {}
                BY <1>2, <3>2, AnswersMore
            <4>2. f.id = i
                BY <1>2
            <4>3. QED
                BY <4>1, <4>2
        <3>3. QED
            BY <1>3, <3>1, <3>2
    <2>3. QED
        BY <2>1, <2>2
<1>11. ForwardedOnce'
    <2>1. /\ \A n, d, j : Forwarded(n, d, j) =>
                d \in Conns /\ HasAsked(d, j)' /\ n \in MuxIds /\ n < next_mux_id
          /\ \A n, k, d, j : Forwarded(n, d, j) /\ Forwarded(k, d, j) => n = k
          /\ \A n, d, e, j, k : Forwarded(n, d, j) /\ Forwarded(n, e, k) => d = e /\ j = k
        BY <1>7 DEF RequestInv, ForwardedOnce
    <2>2. QED
        BY <1>5, <1>6, <2>1 DEF ForwardedOnce
<1>12. PendingForwarded'
    <2>1. \A n \in DOMAIN pending' :
            /\ n < next_mux_id
            /\ \E d \in Conns : /\ PeerOf[d] = pending'[n].peer_id
                                /\ Forwarded(n, d, pending[n].original_id)
        BY <1>5 DEF RequestInv, PendingForwarded
    <2>2. QED
        BY <1>5, <2>1 DEF PendingForwarded, Forwarded
<1>13. AnswersAreTheirOwn'
    <2>1. OwnFrame(c, f)'
        BY <1>1, <1>2, <1>6 DEF OwnFrame
    <2>2. ASSUME NEW d \in Conns, NEW k \in DOMAIN outbound'[d], NEW g, g = outbound'[d][k]
          PROVE  (k \in DOMAIN outbound[d] /\ outbound[d][k] = g) \/ OwnFrame(d, g)'
        <3>1. CASE outbound'[d] = outbound[d]
            BY <2>2, <3>1
        <3>2. CASE d = c /\ outbound'[d] = Append(outbound[d], f)
            <4>1. (k \in DOMAIN outbound[d] /\ outbound[d][k] = g) \/ g = f
                BY <1>2, <2>2, <3>2 DEF TypeOK
            <4>2. QED
                BY <2>1, <3>2, <4>1
        <3>3. QED
            BY <1>3, <1>4, <3>1, <3>2
    <2>3. AnswersAreTheirOwn /\ \A d \in Conns : sent[d] \subseteq sent'[d]
        BY <1>5 DEF RequestInv
    <2>4. QED
        BY <1>5, <1>6, <2>2, <2>3, OwnKept
<1>14. \A d \in Conns : conns'[d] = "idle" => sent'[d] = {}
    BY <1>5 DEF RequestInv
<1>15. HasAsked(c, i)
    BY <1>1 DEF RequestInv, ForwardedOnce
<1>16. \A d \in Conns, j \in ReqIds : AnswersTo(d, j)' # {} => HasAsked(d, j)'
    BY <1>7, <1>10, <1>15 DEF RequestInv
<1>17. Reached(Peers)' = Reached(Peers) /\ Reached(Peers) \subseteq Conns /\ SubscribersOwn'
    BY <1>5 DEF Reached, RequestInv, SubscribersOwn
<1>18. ASSUME NEW d \in Conns, d \in Reached(Peers), NEW j \in ReqIds, HasAsked(d, j)
       PROVE  Balanced(d, j)'
    <2>1. Balanced(d, j)
        BY <1>18 DEF RequestInv
    <2>2. CASE d # c \/ j # i
        BY <1>9, <1>10, <2>1, <2>2 DEF Balanced
    <2>3. CASE d = c /\ j = i
        <3>1. m \in WaitingFor(c, i)
            BY <1>1 DEF WaitingFor
        <3>2. AnswersTo(c, i) = {} /\ \A n \in WaitingFor(c, i) : n = m
            BY <2>1, <2>3, <3>1 DEF Balanced
        <3>3. WaitingFor(c, i)' = {}
            BY <1>5, <1>6, <3>2 DEF WaitingFor
        <3>4. c \in Reached({PeerOf[c]})
            BY <1>18, <2>3, ReachedUnder DEF RequestInv
        <3>5. outbound'[c] = Append(outbound[c], f)
            BY <1>3, <3>4
        <3>6. AnswersTo(c, i)' = {Len(outbound[c]) + 1}
            <4>1. AnswersTo(c, i)' = AnswersTo(c, i) \cup
                        IF IsAnswer(f) /\ f.id = i THEN {Len(outbound[c]) + 1} ELSE {}
                BY <1>2, <3>5, AnswersMore
            <4>2. IsAnswer(f) /\ f.id = i
                BY <1>2 DEF IsAnswer
            <4>3. QED
                BY <3>2, <4>1, <4>2
        <3>7. QED
            BY <2>3, <3>3, <3>6 DEF Balanced
    <2>4. QED
        BY <2>2, <2>3
<1>19. QED
    BY <1>7, <1>11, <1>12, <1>13, <1>14, <1>16, <1>17, <1>18 DEF RequestInv

LEMMA RequestsAlways ==
    ASSUME PeersApart
    PROVE  Spec => []RequestInv
<1>1. Init => RequestInv
    <2> SUFFICES ASSUME Init PROVE RequestInv
        OBVIOUS
    <2>1. \A m, c, i : ~Forwarded(m, c, i)
        BY DEF Init, Forwarded
    <2>2. \A c \in Conns : \A i : AnswersTo(c, i) = {} /\ ~HasAsked(c, i)
        BY DEF Init, AnswersTo, HasAsked
    <2>3. SubscribersOwn /\ PendingForwarded /\ AnswersAreTheirOwn /\ Reached(Peers) \subseteq Conns
        BY DEF Init, SubscribersOwn, PendingForwarded, AnswersAreTheirOwn, Reached
    <2>4. QED
        BY <2>1, <2>2, <2>3 DEF Init, RequestInv, ForwardedOnce
<1>2. TypeOK /\ RequestInv /\ [Next]_vars => RequestInv'
    <2> SUFFICES ASSUME TypeOK, RequestInv, [Next]_vars PROVE RequestInv'
        OBVIOUS
    <2>1. CASE UNCHANGED vars
        <3>1. UNCHANGED <<connVars, outbound, requestVars, sent, agent_stdin>>
            BY <2>1 DEF vars
        <3>2. AsideStep
            BY <3>1, SilentAside DEF StdinAside
        <3>3. QED
            BY <3>2, AsideKeeps
    <2>2. CASE Next
        BY <2>2, AnswerSteps, AsideKeeps, ToldKeeps, ForwardKeeps, RouteKeeps
    <2>3. QED
        BY <2>1, <2>2
<1>3. QED
    BY TypeCorrect, <1>1, <1>2, PTL DEF Spec

\* An answer of the agent reaches the connection that asked, under its own
\* id, and a cancel reaches the agent for the canceller's request, as long as
\* no two connections ever share a peer id (route_agent_response,
\* handle_subscriber_cancel).
THEOREM AnswersReachTheirOwn ==
    ASSUME PeersApart
    PROVE  Spec => []AnswersAreTheirOwn
<1>1. RequestInv => AnswersAreTheirOwn
    BY DEF RequestInv
<1>2. QED
    BY RequestsAlways, <1>1, PTL

LEMMA AtMostOne ==
    ASSUME NEW S, \A x, y \in S : x = y
    PROVE  Cardinality(S) = IF S = {} THEN 0 ELSE 1
<1>1. CASE S = {}
    BY <1>1, FS_EmptySet
<1>2. ASSUME NEW x \in S
      PROVE  Cardinality(S) = 1
    <2>1. S = {x}
        BY <1>2
    <2>2. QED
        BY <2>1, FS_Singleton
<1>3. QED
    BY <1>1, <1>2

\* No request of a subscriber is lost and none is answered twice: it has one
\* answer or one entry in pending, for any number of clients and requests
\* (translate_outbound_request, route_agent_response).
THEOREM EveryRequestIsAnsweredOnce ==
    ASSUME PeersApart
    PROVE  Spec => []NoRequestForgotten
<1>1. TypeOK /\ RequestInv => NoRequestForgotten
    <2> SUFFICES ASSUME TypeOK, RequestInv, NEW c \in Reached(Peers), NEW r \in sent[c]
                 PROVE  Cardinality(AnswersTo(c, r.id)) + Cardinality(WaitingFor(c, r.id)) = 1
        BY DEF NoRequestForgotten, AnswersTo, WaitingFor
    <2>1. c \in Conns /\ r.id \in ReqIds /\ HasAsked(c, r.id)
        BY DEF Reached, TypeOK, HasAsked
    <2>2. Balanced(c, r.id)
        BY <2>1 DEF RequestInv
    <2>3. /\ Cardinality(AnswersTo(c, r.id)) = IF AnswersTo(c, r.id) = {} THEN 0 ELSE 1
          /\ Cardinality(WaitingFor(c, r.id)) = IF WaitingFor(c, r.id) = {} THEN 0 ELSE 1
        BY <2>2, AtMostOne DEF Balanced
    <2>4. QED
        BY <2>2, <2>3 DEF Balanced
<1>2. QED
    BY TypeCorrect, RequestsAlways, <1>1, PTL

-----------------------------------------------------------------------------
(***************************************************************************)
(* What subscribers see of the log.                                        *)
(***************************************************************************)

Seen(c) == {k \in DOMAIN outbound[c] : outbound[c][k].type = "broadcast"}
Seqs(c) == {outbound[c][k].seq : k \in Seen(c)}

\* What is on the channel of a connection agrees with the log.
SeesTheLog(c) ==
    /\ Seqs(c) \subseteq DOMAIN replay_log
    /\ \A k \in Seen(c) : outbound[c][k] = replay_log[outbound[c][k].seq]
    /\ \A j, k \in Seen(c) : j < k => outbound[c][j].seq < outbound[c][k].seq
    /\ \A s \in Seqs(c) : s .. Len(replay_log) \subseteq Seqs(c)
    /\ c \notin SkipReplay => Seqs(c) = DOMAIN replay_log

LogInv ==
    /\ \A k \in DOMAIN replay_log : replay_log[k].seq = k
    /\ \A c \in Reached(Peers) : SeesTheLog(c)

\* Connection c hears nothing new of the log, if it hears anything at all.
HearsNothing(c) ==
    c \in Reached(Peers)' =>
        /\ c \in Reached(Peers)
        /\ \/ outbound'[c] = outbound[c]
           \/ \E f \in Frame : f.type # "broadcast" /\ outbound'[c] = Append(outbound[c], f)

Unheard == UNCHANGED replay_log /\ \A c \in Conns : HearsNothing(c)

LEMMA UnheardKeeps ==
    ASSUME TypeOK, LogInv, UNCHANGED replay_log, NEW c \in Conns, HearsNothing(c),
           c \in Reached(Peers)'
    PROVE  SeesTheLog(c)'
<1>1. SeesTheLog(c)
    BY DEF LogInv, HearsNothing
<1>2. CASE outbound'[c] = outbound[c]
    <2>1. Seen(c)' = Seen(c)
        BY <1>2 DEF Seen
    <2>2. Seqs(c)' = Seqs(c)
        BY <1>2, <2>1 DEF Seqs
    <2>3. QED
        BY <1>1, <1>2, <2>1, <2>2 DEF SeesTheLog
<1>3. ASSUME NEW f \in Frame, f.type # "broadcast", outbound'[c] = Append(outbound[c], f)
      PROVE  SeesTheLog(c)'
    <2> DEFINE old == outbound[c]
               new == outbound'[c]
    <2>1. /\ \A k \in DOMAIN old : k \in DOMAIN new /\ new[k] = old[k]
          /\ \A k \in DOMAIN new : k \in DOMAIN old \/ new[k] = f
        BY <1>3 DEF TypeOK
    <2>2. Seen(c)' = Seen(c) /\ \A k \in Seen(c) : new[k] = old[k]
        BY <1>3, <2>1 DEF Seen
    <2>3. Seqs(c)' = Seqs(c)
        BY <2>2 DEF Seqs
    <2>4. QED
        BY <1>1, <2>2, <2>3 DEF SeesTheLog
<1>4. QED
    BY <1>2, <1>3 DEF HearsNothing

LEMMA AttachKeeps ==
    ASSUME TypeOK, LogInv, NEW c \in Conns, attach(c)
    PROVE  LogInv'
<1>1. /\ UNCHANGED replay_log /\ conns' = [conns EXCEPT ![c] = "open"]
      /\ subscribers' = With(subscribers, PeerOf[c], c)
      /\ outbound' = [outbound EXCEPT ![c] = IF c \in SkipReplay THEN <<>> ELSE replay_log]
      /\ outbound \in [Conns -> Seq(Frame)] /\ replay_log \in Seq(BroadcastFrame)
      /\ conns \in [Conns -> {"idle", "open", "closing", "gone"}]
    BY DEF attach, TypeOK
<1>2. ASSUME NEW d \in Conns, d # c, d \in Reached(Peers)'
      PROVE  SeesTheLog(d)'
    <2>1. d \in Reached(Peers)
        BY <1>1, <1>2 DEF Reached, With
    <2>2. outbound'[d] = outbound[d]
        BY <1>1, <1>2
    <2>3. HearsNothing(d)
        BY <2>1, <2>2 DEF HearsNothing
    <2>4. QED
        BY <1>1, <1>2, <2>3, UnheardKeeps
<1>3. SeesTheLog(c)'
    <2>1. CASE c \in SkipReplay
        <3>1. outbound'[c] = <<>>
            BY <1>1, <2>1
        <3>2. Seen(c)' = {}
            BY <3>1 DEF Seen
        <3>3. Seqs(c)' = {}
            BY <3>2 DEF Seqs
        <3>4. QED
            BY <2>1, <3>2, <3>3 DEF SeesTheLog
    <2>2. CASE c \notin SkipReplay
        <3>1. outbound'[c] = replay_log /\ Len(replay_log) \in Nat
              /\ DOMAIN replay_log = 1 .. Len(replay_log)
            BY <1>1, <2>2
        <3>2. \A k \in DOMAIN replay_log : replay_log[k].type = "broadcast" /\ replay_log[k].seq = k
            <4>1. \A f \in BroadcastFrame : f.type = "broadcast"
                BY DEF BroadcastFrame
            <4>2. QED
                BY <1>1, <4>1 DEF LogInv
        <3>3. Seen(c)' = DOMAIN replay_log /\ \A k \in Seen(c)' : outbound'[c][k] = replay_log[k]
            BY <3>1, <3>2 DEF Seen
        <3>4. Seqs(c)' = DOMAIN replay_log
            <4>1. Seqs(c)' = {outbound'[c][k].seq : k \in Seen(c)'}
                BY DEF Seqs
            <4>2. \A k \in Seen(c)' : outbound'[c][k].seq = k
                BY <3>2, <3>3
            <4>3. QED
                BY <3>3, <4>1, <4>2
        <3>5. QED
            BY <1>1, <3>1, <3>2, <3>3, <3>4 DEF SeesTheLog
    <2>3. QED
        BY <2>1, <2>2
<1>4. Reached(Peers)' \subseteq Conns
    BY DEF Reached
<1>5. QED
    BY <1>1, <1>2, <1>3, <1>4 DEF LogInv

LEMMA BroadcastKeeps ==
    ASSUME TypeOK, LogInv, NEW method \in {"notification", "cancel", "raw"}, broadcast(method),
           UNCHANGED connVars
    PROVE  LogInv'
<1> DEFINE next == Len(replay_log) + 1
<1>1. PICK f \in BroadcastFrame : f = BroadcastOf(method) /\ f.type = "broadcast" /\ f.seq = next
    <2>1. [type |-> "broadcast", method |-> method, seq |-> next] \in BroadcastFrame
        BY DEF TypeOK, BroadcastFrame
    <2>2. QED
        BY <2>1 DEF BroadcastOf
<1>2. replay_log' = Append(replay_log, f) /\ Deliver(Reached(Peers), f)
    BY <1>1 DEF broadcast
<1>3. Reached(Peers)' = Reached(Peers) /\ Reached(Peers) \subseteq Conns
    BY DEF connVars, Reached
<1>4. /\ DOMAIN replay_log' = DOMAIN replay_log \cup {next} /\ next \notin DOMAIN replay_log
      /\ \A k \in DOMAIN replay_log : replay_log'[k] = replay_log[k]
      /\ replay_log'[next] = f /\ next \in Nat /\ Len(replay_log') = next
      /\ DOMAIN replay_log = 1 .. Len(replay_log) /\ Len(replay_log) \in Nat
    BY <1>2 DEF TypeOK
<1>5. ASSUME NEW c \in Reached(Peers)
      PROVE  SeesTheLog(c)'
    <2> DEFINE old == outbound[c]
               new == outbound'[c]
               last == Len(old) + 1
    <2>1. /\ old \in Seq(Frame) /\ new = Append(old, f) /\ f \in Frame
        BY <1>1, <1>2, <1>3 DEF TypeOK, Deliver, Frame
    <2>2. /\ DOMAIN new = DOMAIN old \cup {last} /\ \A k \in DOMAIN old : k < last /\ k \in Nat
          /\ \A k \in DOMAIN old : new[k] = old[k]
          /\ new[last] = f /\ last \in Nat
        BY <2>1
    <2> HIDE DEF last
    <2>3. /\ Seen(c)' = Seen(c) \cup {last}
          /\ \A k \in Seen(c) : k \in Nat /\ k < last /\ new[k] = old[k]
        BY <1>1, <2>2 DEF Seen
    <2>4. Seqs(c)' = Seqs(c) \cup {next}
        <3>1. Seqs(c)' = {new[k].seq : k \in Seen(c)'}
            BY DEF Seqs
        <3>2. Seqs(c) = {new[k].seq : k \in Seen(c)}
            BY <2>3 DEF Seqs
        <3>3. new[last].seq = next
            BY <1>1, <2>2
        <3> HIDE DEF new, old, next
        <3>4. QED
            BY <2>3, <3>1, <3>2, <3>3
    <2>5. SeesTheLog(c)
        BY DEF LogInv
    <2> DEFINE told == new
    <2>6. \A k \in Seen(c) : /\ new[k].seq \in Seqs(c) /\ new[k].seq \in 1 .. Len(replay_log)
                             /\ new[k] = replay_log[new[k].seq]
        BY <1>4, <2>3, <2>5 DEF SeesTheLog, Seqs
    <2>7. \A k \in Seen(c)' : new[k] = replay_log'[new[k].seq]
        BY <1>1, <1>4, <2>2, <2>3, <2>6
    <2>8. ASSUME NEW j \in Seen(c)', NEW k \in Seen(c)', j < k
          PROVE  new[j].seq < new[k].seq
        <3>1. j \in Seen(c)
            BY <2>2, <2>3, <2>8
        <3>2. CASE k \in Seen(c)
            BY <2>3, <2>5, <2>8, <3>1, <3>2 DEF SeesTheLog
        <3>3. CASE k = last
            BY <1>1, <1>4, <2>2, <2>6, <3>1, <3>3
        <3>4. QED
            BY <2>3, <3>2, <3>3
    <2>9. ASSUME NEW s \in Seqs(c)'
          PROVE  s .. next \subseteq Seqs(c)'
        <3>1. CASE s = next
            BY <1>4, <2>4, <3>1
        <3>2. CASE s \in Seqs(c)
            <4>1. s .. Len(replay_log) \subseteq Seqs(c) /\ s \in Nat
                BY <1>4, <2>5, <3>2 DEF SeesTheLog
            <4>2. s .. next \subseteq (s .. Len(replay_log)) \cup {next}
                BY <1>4, <4>1
            <4>3. QED
                BY <2>4, <4>1, <4>2
        <3>3. QED
            BY <2>4, <3>1, <3>2
    <2>10. /\ Seqs(c)' \subseteq DOMAIN replay_log'
           /\ c \notin SkipReplay => Seqs(c)' = DOMAIN replay_log'
        BY <1>4, <2>4, <2>5 DEF SeesTheLog
    <2>11. QED
        BY <1>4, <2>7, <2>8, <2>9, <2>10 DEF SeesTheLog
<1>6. \A k \in DOMAIN replay_log' : replay_log'[k].seq = k
    BY <1>1, <1>4 DEF LogInv
<1>7. QED
    BY <1>3, <1>5, <1>6 DEF LogInv

-----------------------------------------------------------------------------

\* A frame that is no broadcast, or none, and nobody joins.
LEMMA DeliverUnheard ==
    ASSUME TypeOK, NEW C, NEW f \in Frame, f.type # "broadcast", Deliver(C, f),
           UNCHANGED <<conns, replay_log>>, DOMAIN subscribers' \subseteq DOMAIN subscribers,
           \A p \in DOMAIN subscribers' : subscribers'[p] = subscribers[p]
    PROVE  Unheard
<1>1. Reached(Peers)' \subseteq Reached(Peers)
    BY DEF Reached
<1>2. QED
    BY <1>1 DEF Deliver, Unheard, HearsNothing

LEMMA SilentUnheard ==
    ASSUME UNCHANGED <<conns, subscribers, outbound, replay_log>>
    PROVE  Unheard
BY DEF Unheard, HearsNothing, Reached

LEMMA ConnectionUnheard ==
    ASSUME TypeOK, NEW c \in Conns,
           attach_refused(c) \/ ws_closes(c) \/ detach(c) \/ ws_handler_exits(c)
    PROVE  Unheard
<1>1. /\ conns \in [Conns -> {"idle", "open", "closing", "gone"}]
      /\ outbound \in [Conns -> Seq(Frame)]
    BY DEF TypeOK
<1>2. /\ UNCHANGED replay_log
      /\ conns' \in {[conns EXCEPT ![c] = "closing"], [conns EXCEPT ![c] = "gone"]}
    BY DEF attach_refused, ws_closes, detach, ws_handler_exits
<1>3. /\ DOMAIN subscribers' \subseteq DOMAIN subscribers
      /\ \A p \in DOMAIN subscribers' : subscribers'[p] = subscribers[p]
    BY DEF attach_refused, ws_closes, detach, ws_handler_exits, Without
<1>4. \A d \in Conns : conns'[d] = "open" => conns[d] = "open" /\ d # c
    BY <1>1, <1>2
<1>5. \A d \in Conns : d \in Reached(Peers)' => d \in Reached(Peers) /\ d # c
    BY <1>3, <1>4 DEF Reached
<1>6. \A d \in Conns : d # c => outbound'[d] = outbound[d]
    BY <1>1 DEF attach_refused, ws_closes, detach, ws_handler_exits
<1>7. outbound'[c] = outbound[c] \/ conns[c] = "idle"
    BY DEF attach_refused, ws_closes, detach, ws_handler_exits
<1>8. QED
    BY <1>2, <1>5, <1>6, <1>7 DEF Unheard, HearsNothing

LEMMA InboundUnheard ==
    ASSUME TypeOK, NEW c \in Conns,
           \/ \E i \in ReqIds :
                translate_outbound_request(c, i) \/ handle_subscriber_cancel(c, i)
           \/ handle_subscriber_notification(c)
           \/ \E a \in AskIds \cup StrayIds : gate_subscriber_response(c, a)
    PROVE  Unheard
<1>1. ASSUME NEW i \in ReqIds, NEW param \in MaybeSession,
             NEW policy \in {"none", "full", "pending_only"},
             handle_attach_request(c, i, param, policy)
      PROVE  Unheard
    <2> DEFINE resolved == ResolvedSession(param)
               history == CASE policy = "none" -> {}
                            [] policy = "full" -> history_full
                            [] policy = "pending_only" -> history_pending_only
               f == IF session_id_mismatch(param, resolved)
                    THEN Response(i, FALSE, 0, None)
                    ELSE [type |-> "attached", id |-> i, sid |-> resolved,
                          history |-> history]
    <2>1. resolved \in MaybeSession
        BY DEF ResolvedSession, TypeOK
    <2>2. history_full \subseteq Nat /\ history_pending_only \subseteq AskIds
        BY DEF history_full, history_pending_only, TypeOK
    <2>3. history \in SUBSET (Nat \cup AskIds)
        BY <2>2
    <2> HIDE DEF resolved, history
    <2>4. f \in Frame /\ f.type # "broadcast"
        BY <2>1, <2>3 DEF Frame, Response, MaybeSession
    <2>5. send_to(PeerOf[c], f) /\ UNCHANGED <<conns, subscribers, replay_log>>
        BY <1>1 DEF handle_attach_request, connVars, resolved, history
    <2> HIDE DEF f
    <2>6. QED
        BY <2>4, <2>5, DeliverUnheard DEF send_to
<1>2. ASSUME NEW i \in ReqIds, NEW param, handle_detach_request(c, i, param)
      PROVE  Unheard
    <2> DEFINE mismatch == session_id_mismatch(param, canonical_session_id)
               f == Response(i, ~mismatch, 0, IF mismatch THEN None
                                              ELSE canonical_session_id)
    <2>1. f \in Frame /\ f.type # "broadcast"
        BY DEF Frame, Response, TypeOK, MaybeSession
    <2>2. /\ send_to(PeerOf[c], f) /\ UNCHANGED <<conns, replay_log>>
          /\ subscribers' = IF mismatch THEN subscribers ELSE Without(subscribers, PeerOf[c])
        BY <1>2 DEF handle_detach_request
    <2> HIDE DEF f, mismatch
    <2>3. /\ DOMAIN subscribers' \subseteq DOMAIN subscribers
          /\ \A p \in DOMAIN subscribers' : subscribers'[p] = subscribers[p]
        BY <2>2 DEF Without
    <2>4. QED
        BY <2>1, <2>2, <2>3, DeliverUnheard DEF send_to
<1>3. ASSUME NEW i \in ReqIds, NEW method, answer_from_cache(c, i, method)
      PROVE  Unheard
    <2> DEFINE f == IF method = "initialize"
                    THEN Response(i, TRUE, initialize_cache, None)
                    ELSE Response(i, TRUE, session_new_cache.by, session_new_cache.sid)
    <2>1. f \in Frame /\ f.type # "broadcast"
        BY DEF Frame, Response, TypeOK, MaybeSession, CachedResult
    <2>2. send_to(PeerOf[c], f) /\ UNCHANGED <<conns, subscribers, replay_log>>
        BY <1>3 DEF answer_from_cache, connVars
    <2> HIDE DEF f
    <2>3. QED
        BY <2>1, <2>2, DeliverUnheard DEF send_to
<1>4. ASSUME NEW i \in ReqIds, NEW method, reject_busy(c, i, method)
      PROVE  Unheard
    <2> DEFINE f == Response(i, FALSE, 0, None)
    <2>1. f \in Frame /\ f.type # "broadcast"
        BY DEF Frame, Response, MaybeSession
    <2>2. send_to(PeerOf[c], f) /\ UNCHANGED <<conns, subscribers, replay_log>>
        BY <1>4 DEF reject_busy, connVars
    <2> HIDE DEF f
    <2>3. QED
        BY <2>1, <2>2, DeliverUnheard DEF send_to
<1>5. ASSUME NEW i, NEW method, NEW param, forward_request(c, i, method, param)
      PROVE  Unheard
    BY <1>5, SilentUnheard DEF forward_request, connVars
<1>6. ASSUME NEW i \in ReqIds, translate_outbound_request(c, i)
      PROVE  Unheard
    BY <1>1, <1>2, <1>3, <1>4, <1>5, <1>6 DEF translate_outbound_request
<1>7. ASSUME NEW i, handle_subscriber_cancel(c, i)
      PROVE  Unheard
    BY <1>7, SilentUnheard DEF handle_subscriber_cancel, connVars
<1>8. ASSUME handle_subscriber_notification(c)
      PROVE  Unheard
    BY <1>8, SilentUnheard DEF handle_subscriber_notification, connVars
<1>9. ASSUME NEW a, gate_subscriber_response(c, a)
      PROVE  Unheard
    BY <1>9, SilentUnheard DEF gate_subscriber_response, connVars
<1>10. QED
    BY <1>6, <1>7, <1>8, <1>9

\* Every step attaches somebody, broadcasts, or is unheard.
LEMMA LogSteps ==
    ASSUME TypeOK, Next
    PROVE  \/ \E c \in Conns : attach(c)
           \/ /\ \E method \in {"notification", "cancel", "raw"} : broadcast(method)
              /\ UNCHANGED connVars
           \/ Unheard
<1>1. CASE ConnectionStep
    BY <1>1, ConnectionUnheard DEF ConnectionStep
<1>2. CASE handle_inbound
    BY <1>2, InboundUnheard DEF handle_inbound
<1>3. ASSUME NEW method \in {"notification", "raw"}, NEW sid, handle_agent_notification(method, sid)
      PROVE  (\E m \in {"notification", "cancel", "raw"} : broadcast(m)) /\ UNCHANGED connVars
    BY <1>3 DEF handle_agent_notification
<1>4. ASSUME NEW a, handle_agent_cancel(a)
      PROVE  (\E m \in {"notification", "cancel", "raw"} : broadcast(m)) /\ UNCHANGED connVars
    BY <1>4 DEF handle_agent_cancel
<1>5. ASSUME NEW a, block_agent_request(a)
      PROVE  Unheard
    BY <1>5, SilentUnheard DEF block_agent_request, connVars
<1>6. ASSUME NEW a \in AskIds, handle_agent_request(a)
      PROVE  Unheard
    <2> DEFINE f == [type |-> "ask", id |-> a]
    <2>1. f \in Frame /\ f.type # "broadcast" /\ Deliver(Reached(Peers), f)
        BY <1>6 DEF Frame, handle_agent_request, fanout
    <2> HIDE DEF f
    <2>2. /\ DOMAIN subscribers' \subseteq DOMAIN subscribers
          /\ \A p \in DOMAIN subscribers' : subscribers'[p] = subscribers[p]
          /\ UNCHANGED <<conns, replay_log>>
        BY <1>6 DEF handle_agent_request, fanout
    <2>3. QED
        BY <2>1, <2>2, DeliverUnheard
<1>7. ASSUME NEW m \in DOMAIN pending, NEW ok \in BOOLEAN,
             NEW sid \in MaybeSession \cup {NullResult}, route_agent_response(m, ok, sid)
      PROVE  Unheard
    <2> DEFINE f == Response(pending[m].original_id, ok, m,
                             IF sid = NullResult THEN None ELSE sid)
    <2>1. f \in Frame /\ f.type # "broadcast"
        BY DEF TypeOK, Frame, Response, PendingRequest, MuxIds, MaybeSession
    <2>2. Deliver(Reached({pending[m].peer_id}), f) /\ UNCHANGED <<conns, subscribers, replay_log>>
        BY <1>7 DEF route_agent_response, send_to, connVars
    <2> HIDE DEF f
    <2>3. QED
        BY <2>1, <2>2, DeliverUnheard
<1>8. CASE handle_agent_line
    BY <1>3, <1>4, <1>5, <1>6, <1>7, <1>8 DEF handle_agent_line
<1>9. CASE agent_dies
    <2> DEFINE f == [type |-> "close"]
    <2>1. f \in Frame /\ f.type # "broadcast" /\ Deliver(Reached(Peers), f)
        BY <1>9 DEF Frame, agent_dies
    <2> HIDE DEF f
    <2>2. DOMAIN subscribers' = {} /\ UNCHANGED <<conns, replay_log>>
        BY <1>9 DEF agent_dies
    <2>3. QED
        BY <2>1, <2>2, DeliverUnheard
<1>10. CASE mux_ttl_expires
    BY <1>10, SilentUnheard DEF mux_ttl_expires
<1>11. QED
    BY <1>1, <1>2, <1>8, <1>9, <1>10 DEF Next

\* Whenever it joins and whoever else comes and goes, a subscriber has the
\* broadcasts from its starting point on, each once and in the order of the
\* log; one that does not skip the replay has them all (attach, broadcast).
THEOREM SubscribersMissNothing == Spec => []SubscribersSeeTheLog
<1>1. Init => LogInv
    BY DEF Init, LogInv, Reached
<1>2. TypeOK /\ LogInv /\ [Next]_vars => LogInv'
    <2> SUFFICES ASSUME TypeOK, LogInv, [Next]_vars PROVE LogInv'
        OBVIOUS
    <2>1. ASSUME Unheard
          PROVE  LogInv'
        <3>1. Reached(Peers)' \subseteq Conns
            BY DEF Reached
        <3>2. \A c \in Conns : c \in Reached(Peers)' => SeesTheLog(c)'
            BY <2>1, UnheardKeeps DEF Unheard
        <3>3. QED
            BY <2>1, <3>1, <3>2 DEF Unheard, LogInv
    <2>2. CASE UNCHANGED vars
        <3>1. Unheard
            BY <2>2, SilentUnheard DEF vars, connVars
        <3>2. QED
            BY <2>1, <3>1
    <2>3. CASE Next
        BY <2>1, <2>3, LogSteps, AttachKeeps, BroadcastKeeps
    <2>4. QED
        BY <2>2, <2>3
<1>3. LogInv => SubscribersSeeTheLog
    BY DEF LogInv, SeesTheLog, Seqs, Seen, SubscribersSeeTheLog
<1>4. QED
    BY TypeCorrect, <1>1, <1>2, <1>3, PTL DEF Spec

-----------------------------------------------------------------------------
(***************************************************************************)
(* The handshake cache, with an agent that keeps to its session.           *)
(***************************************************************************)

\* What an agent does that answers a session/new with the session, a
\* session/load with null, and stays on that session.
AgentKeepsItsWord ==
    /\ NewResults \subseteq Sessions /\ LoadResults \subseteq {NullResult}
    /\ Switches \subseteq {None}

\* Only the answer to a handshake moves the canonical session or the cache.
LEMMA HandshakeSteps ==
    ASSUME AgentKeepsItsWord, Next
    PROVE  \/ UNCHANGED <<session_new_cache, canonical_session_id>>
           \/ \E m \in DOMAIN pending, sid \in MaybeSession \cup {NullResult} :
                sid \in ResultsOf(pending[m].handshake) /\ apply_successful_handshake(m, sid)
<1>1. CASE ConnectionStep
    BY <1>1 DEF ConnectionStep, attach, attach_refused, ws_closes, detach, ws_handler_exits,
                handshakeVars
<1>2. CASE handle_inbound
    <2>1. ASSUME NEW c \in Conns, NEW i \in ReqIds, translate_outbound_request(c, i)
          PROVE  UNCHANGED handshakeVars
        BY <2>1 DEF translate_outbound_request, handle_attach_request, handle_detach_request,
                    answer_from_cache, reject_busy, forward_request
    <2>2. ASSUME NEW c \in Conns, NEW i \in ReqIds, handle_subscriber_cancel(c, i)
          PROVE  UNCHANGED handshakeVars
        BY <2>2 DEF handle_subscriber_cancel
    <2>3. ASSUME NEW c \in Conns, handle_subscriber_notification(c)
          PROVE  UNCHANGED handshakeVars
        BY <2>3 DEF handle_subscriber_notification
    <2>4. ASSUME NEW c \in Conns, NEW a \in AskIds \cup StrayIds, gate_subscriber_response(c, a)
          PROVE  UNCHANGED handshakeVars
        BY <2>4 DEF gate_subscriber_response
    <2>5. QED
        BY <1>2, <2>1, <2>2, <2>3, <2>4 DEF handle_inbound, handshakeVars
<1>3. ASSUME NEW method, NEW sid \in Switches, handle_agent_notification(method, sid)
      PROVE  UNCHANGED <<session_new_cache, canonical_session_id>>
    BY <1>3 DEF handle_agent_notification, AgentKeepsItsWord
<1>4. ASSUME NEW a, block_agent_request(a) \/ handle_agent_request(a) \/ handle_agent_cancel(a)
      PROVE  UNCHANGED <<session_new_cache, canonical_session_id>>
    BY <1>4 DEF block_agent_request, handle_agent_request, handle_agent_cancel, handshakeVars
<1>5. ASSUME NEW m \in DOMAIN pending, NEW ok, NEW sid, route_agent_response(m, ok, sid)
      PROVE  \/ UNCHANGED <<session_new_cache, canonical_session_id>>
             \/ sid \in ResultsOf(pending[m].handshake) /\ apply_successful_handshake(m, sid)
    BY <1>5 DEF route_agent_response, handshakeVars
<1>6. CASE handle_agent_line
    BY <1>3, <1>4, <1>5, <1>6 DEF handle_agent_line
<1>7. CASE agent_dies \/ mux_ttl_expires
    BY <1>7 DEF agent_dies, mux_ttl_expires, handshakeVars
<1>8. QED
    BY <1>1, <1>2, <1>6, <1>7 DEF Next

\* With an agent that keeps its word a late session/new is always answered
\* with the session the mux is on, however the handshakes of several clients
\* overlap (apply_successful_handshake, set_canonical_session_id).
THEOREM CacheFollowsTheSession ==
    ASSUME AgentKeepsItsWord
    PROVE  Spec => []CachedSessionIsCanonical
<1>1. Init => CachedSessionIsCanonical
    BY DEF Init, NoResult, CachedSessionIsCanonical
<1>2. ASSUME NEW m \in DOMAIN pending, NEW sid \in ResultsOf(pending[m].handshake),
             CachedSessionIsCanonical, apply_successful_handshake(m, sid)
      PROVE  CachedSessionIsCanonical'
    <2>1. CASE pending[m].handshake = "session/new"
        <3>1. sid \in Sessions /\ sid # None
            BY <2>1, ConstantsOK DEF ResultsOf, AgentKeepsItsWord
        <3>2. QED
            BY <1>2, <2>1, <3>1 DEF apply_successful_handshake, canonical_after, CachedSessionIsCanonical
    <2>2. CASE pending[m].handshake = "session/load"
        <3>1. sid = NullResult
            BY <2>2 DEF ResultsOf, AgentKeepsItsWord
        <3>2. QED
            BY <1>2, <2>2, <3>1 DEF apply_successful_handshake, canonical_after, CachedSessionIsCanonical
    <2>3. CASE pending[m].handshake \notin {"session/new", "session/load"}
        BY <1>2, <2>3 DEF apply_successful_handshake, canonical_after, CachedSessionIsCanonical
    <2>4. QED
        BY <2>1, <2>2, <2>3
<1>3. CachedSessionIsCanonical /\ [Next]_vars => CachedSessionIsCanonical'
    <2>1. CachedSessionIsCanonical /\ UNCHANGED vars => CachedSessionIsCanonical'
        BY DEF vars, handshakeVars, CachedSessionIsCanonical
    <2>2. CachedSessionIsCanonical /\ UNCHANGED <<session_new_cache, canonical_session_id>>
            => CachedSessionIsCanonical'
        BY DEF CachedSessionIsCanonical
    <2>3. QED
        BY <1>2, <2>1, <2>2, HandshakeSteps
<1>4. QED
    BY <1>1, <1>3, PTL DEF Spec
=============================================================================
