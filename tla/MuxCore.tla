------------------------------- MODULE MuxCore -------------------------------
(***************************************************************************)
(* The actor behind one mux id: one agent subprocess shared by N WebSocket *)
(* subscribers (crates/acp-mux/src/mux/actor.rs, run with NoopExtension),  *)
(* with the WebSocket handlers that feed it (crates/acp-mux/src/server.rs).*)
(*                                                                         *)
(* The actor takes one message at a time from its mailbox, so every        *)
(* handler is one action, the drain of agent_outbox into the agent's stdin *)
(* included.  The mailbox itself is not a variable: each sender's messages *)
(* arrive in its own order and the senders interleave freely, which is     *)
(* what the interleaving of the actions of a connection (its inbound       *)
(* frames, then its Detach) and of the agent (its stdout lines) says.      *)
(*                                                                         *)
(* Connections and peer ids are kept apart on purpose.  The actor only     *)
(* knows the peer id; a client that drops and comes back is a new          *)
(* connection under an old peer id, while requests, responses and the      *)
(* Detach of the earlier connection may still be on their way.             *)
(***************************************************************************)
EXTENDS Naturals, Sequences, FiniteSets

CONSTANTS
    Conns,        \* WebSocket connections, each used once
    Peers,        \* peer ids
    PeerOf,       \* the ?peer_id= each connection attaches under
    SkipReplay,   \* the connections that attach with ?replay=skip
    ReqIds,       \* the JSON-RPC ids clients give their requests
    Methods,      \* what clients send: a subset of ClientMethods
    Sessions,     \* ACP session ids
    NewResults,   \* sessionId field of the agent's session/new results
    LoadResults,  \* the same of session/load results; NullResult: null
    Switches,     \* sessionId field of the agent's notifications
    AskIds,       \* ids of the requests the agent sends to its clients
    Permissions,  \* those asks whose method is session/request_permission
    Blocked,      \* those whose method ClientToolPolicy blocks (fs/*, terminal/*)
    StrayIds,     \* ids in responses clients send without having been asked
    MaxAsks,      \* bound: times the agent uses one request id
    MaxStdin,     \* bound: frames written to the agent's stdin
    MaxBroadcasts,\* bound: frames in the replay log
    None,         \* no session id; in a request, also the mux's own id
    NullResult    \* the JSON null result of session/load

ClientMethods ==
    {"initialize", "session/new", "session/load", "session/prompt", "other",
     "session/attach", "session/detach", "session/cancel", "$/cancel_request"}

LocalMethods == {"session/attach", "session/detach"}
NotificationMethods == {"session/cancel", "$/cancel_request"}
Handshakes == {"initialize", "session/new", "session/load"}

\* What the configurations may choose.
ASSUME ConstantsOK ==
    /\ PeerOf \in [Conns -> Peers] /\ SkipReplay \subseteq Conns
    /\ Methods \subseteq ClientMethods
    /\ None \notin Sessions /\ NullResult \notin Sessions \cup {None}
    /\ NewResults \subseteq Sessions \cup {None}
    /\ LoadResults \subseteq Sessions \cup {None, NullResult}
    /\ Switches \subseteq Sessions \cup {None}
    /\ Permissions \subseteq AskIds /\ Blocked \subseteq AskIds
    /\ Blocked \cap Permissions = {}
    /\ StrayIds \cap AskIds = {}
    /\ MaxAsks \in Nat /\ MaxStdin \in Nat /\ MaxBroadcasts \in Nat

-----------------------------------------------------------------------------
VARIABLES
    actor,              \* run_mux: "spawning", "running" or "stopped"
    conns,              \* the WebSocket handler of each connection
    outbound,           \* every frame sent to a connection, in order
    subscribers,        \* HashMap<peer id, Subscriber>: its connection
    next_mux_id,
    pending,            \* HashMap<mux id, PendingRequest>
    prompt_in_flight,   \* mux id of the prompt, 0 for None
    initialize_cache,   \* mux id of the request whose result is cached, or 0
    session_new_cache,  \* the cached result; by = 0 for None
    canonical_session_id,
    replay_log,         \* the sequence of broadcast frames
    agent_pending,      \* HashMap<request id, AgentReqState>
    pending_permissions,\* Vec<(request id, frame)>: which use of which id
    agent_stdin,        \* every frame written to the agent, in order
    sent,               \* history: the requests each connection has made
    asked,              \* history: how often the agent used each request id
    open_asks           \* history: the asks not yet replied to or withdrawn

agentVars == <<agent_pending, pending_permissions, asked, open_asks>>
handshakeVars == <<initialize_cache, session_new_cache, canonical_session_id>>
requestVars == <<next_mux_id, pending, prompt_in_flight>>
connVars == <<actor, conns, subscribers>>
vars == <<connVars, outbound, requestVars, handshakeVars, replay_log,
          agentVars, agent_stdin, sent>>

MuxIds == Nat \ {0}
MaybeSession == Sessions \cup {None}

PendingRequest ==
    [peer_id : Peers, original_id : ReqIds,
     handshake : Handshakes \cup {"none"}, loaded_session_id : MaybeSession]

\* A result of session/new or session/load: the request it answers and its
\* sessionId field.
CachedResult == [by : Nat, sid : MaybeSession]
NoResult == [by |-> 0, sid |-> None]

\* by = 0 marks a response made by the mux, otherwise the mux id of the
\* request the agent's result was for.
Response(id, ok, by, sid) ==
    [type |-> "response", id |-> id, ok |-> ok, by |-> by, sid |-> sid]

BroadcastFrame ==
    [type : {"broadcast"}, method : {"notification", "cancel", "raw"}, seq : Nat]

Frame ==
    [type : {"response"}, id : ReqIds, ok : BOOLEAN, by : Nat,
     sid : MaybeSession]
    \cup [type : {"attached"}, id : ReqIds, sid : MaybeSession,
          history : SUBSET (Nat \cup AskIds)]
    \cup BroadcastFrame
    \cup [type : {"ask"}, id : AskIds]
    \cup [type : {"close"}]

\* conn and id name the client request a frame stems from; they are history.
AgentFrame ==
    [type : {"request", "cancel"}, mux_id : MuxIds, method : ClientMethods,
     conn : Conns, id : ReqIds]
    \cup [type : {"notification"}, conn : Conns]
    \cup [type : {"reply"}, id : AskIds \cup StrayIds, conn : Conns]
    \cup [type : {"blocked"}, id : AskIds]

TypeOK ==
    /\ actor \in {"spawning", "running", "stopped"}
    /\ conns \in [Conns -> {"idle", "open", "closing", "gone"}]
    /\ outbound \in [Conns -> Seq(Frame)]
    /\ DOMAIN subscribers \subseteq Peers
    /\ \A p \in DOMAIN subscribers : subscribers[p] \in Conns
    /\ next_mux_id \in MuxIds
    /\ DOMAIN pending \subseteq MuxIds
    /\ \A m \in DOMAIN pending : pending[m] \in PendingRequest
    /\ prompt_in_flight \in Nat
    /\ initialize_cache \in Nat
    /\ session_new_cache \in CachedResult
    /\ canonical_session_id \in MaybeSession
    /\ replay_log \in Seq(BroadcastFrame)
    /\ DOMAIN agent_pending \subseteq AskIds
    /\ \A a \in DOMAIN agent_pending : agent_pending[a] \in {"InFlight", "Consumed"}
    /\ pending_permissions \subseteq [id : AskIds, use : Nat]
    /\ agent_stdin \in Seq(AgentFrame)
    /\ sent \in [Conns -> SUBSET [id : ReqIds, method : ClientMethods]]
    /\ asked \in [AskIds -> Nat]
    /\ open_asks \subseteq AskIds

Init ==
    /\ actor = "spawning"
    /\ conns = [c \in Conns |-> "idle"]
    /\ outbound = [c \in Conns |-> <<>>]
    /\ subscribers = [p \in {} |-> None]
    /\ next_mux_id = 1
    /\ pending = [m \in {} |-> None]
    /\ prompt_in_flight = 0
    /\ initialize_cache = 0
    /\ session_new_cache = NoResult
    /\ canonical_session_id = None
    /\ replay_log = <<>>
    /\ agent_pending = [a \in {} |-> None]
    /\ pending_permissions = {}
    /\ agent_stdin = <<>>
    /\ sent = [c \in Conns |-> {}]
    /\ asked = [a \in AskIds |-> 0]
    /\ open_asks = {}

-----------------------------------------------------------------------------
(***************************************************************************)
(* Frames to subscribers and to the agent.                                 *)
(***************************************************************************)

\* The connections of a set of peers that are subscribed and still read
\* their channel: sending to any other one fails and is ignored.
Reached(P) ==
    {c \in Conns : /\ conns[c] = "open"
                   /\ \E p \in P \cap DOMAIN subscribers : subscribers[p] = c}

Deliver(C, f) ==
    outbound' = [c \in Conns |-> IF c \in C THEN Append(outbound[c], f)
                                            ELSE outbound[c]]

\* Mutant of send_to: responses go to every subscriber, as notifications do.
send_to_everyone(p, f) == Deliver(Reached(Peers), f)

send_to(p, f) == Deliver(Reached({p}), f)

BroadcastOf(method) ==
    [type |-> "broadcast", method |-> method, seq |-> Len(replay_log) + 1]

\* Mutant of broadcast: the frame is sent but not recorded.
broadcast_unrecorded(method) ==
    /\ replay_log' = replay_log
    /\ Deliver(Reached(Peers), BroadcastOf(method))

\* Record the frame in the replay log and send it to every subscriber.
broadcast(method) ==
    LET f == BroadcastOf(method)
    IN /\ Len(replay_log) < MaxBroadcasts
       /\ replay_log' = Append(replay_log, f)
       /\ Deliver(Reached(Peers), f)

\* Send to every subscriber, unrecorded, and forget those that are gone.
fanout(f) ==
    /\ Deliver(Reached(Peers), f)
    /\ subscribers' =
        [p \in {q \in DOMAIN subscribers : conns[subscribers[q]] = "open"}
            |-> subscribers[p]]

ToAgent(f) ==
    /\ Len(agent_stdin) < MaxStdin
    /\ agent_stdin' = Append(agent_stdin, f)

Without(f, x) == [y \in DOMAIN f \ {x} |-> f[y]]
With(f, x, v) == [y \in DOMAIN f \cup {x} |-> IF y = x THEN v ELSE f[y]]

-----------------------------------------------------------------------------
(***************************************************************************)
(* Connections: the WebSocket upgrade, its end, Attach and Detach.         *)
(***************************************************************************)

\* MuxCore::attach.  The newcomer gets the whole replay log first, unless it
\* asked to skip it.
attach(c) ==
    /\ actor # "stopped" /\ conns[c] = "idle"
    /\ actor' = "running"
    /\ PeerOf[c] \notin DOMAIN subscribers
    /\ subscribers' = With(subscribers, PeerOf[c], c)
    /\ conns' = [conns EXCEPT ![c] = "open"]
    /\ outbound' = [outbound EXCEPT ![c] = IF c \in SkipReplay THEN <<>> ELSE replay_log]
    /\ UNCHANGED <<requestVars, handshakeVars, replay_log, agentVars, agent_stdin, sent>>

\* The peer id is taken: handle_attach closes the socket with code 4409.
attach_refused(c) ==
    /\ actor = "running" /\ conns[c] = "idle"
    /\ PeerOf[c] \in DOMAIN subscribers
    /\ conns' = [conns EXCEPT ![c] = "gone"]
    /\ outbound' = [outbound EXCEPT ![c] = <<[type |-> "close"]>>]
    /\ UNCHANGED <<actor, subscribers, requestVars, handshakeVars, replay_log,
                   agentVars, agent_stdin, sent>>

\* The WebSocket ends, or its outbound channel does: select! drops the
\* receiver, and the Detach queues behind the frames already sent to the
\* actor, so a closing connection may still have requests handled.
ws_closes(c) ==
    /\ conns[c] = "open"
    /\ conns' = [conns EXCEPT ![c] = "closing"]
    /\ UNCHANGED <<actor, subscribers, outbound, requestVars, handshakeVars,
                   replay_log, agentVars, agent_stdin, sent>>

\* MuxCore::detach by the Detach of a closing connection: it removes whoever
\* is attached under that peer id.
detach(c) ==
    /\ actor = "running" /\ conns[c] = "closing"
    /\ conns' = [conns EXCEPT ![c] = "gone"]
    /\ subscribers' = Without(subscribers, PeerOf[c])
    /\ UNCHANGED <<actor, outbound, requestVars, handshakeVars, replay_log,
                   agentVars, agent_stdin, sent>>

-----------------------------------------------------------------------------
(***************************************************************************)
(* Inbound frames of a subscriber (handle_inbound).  Nothing checks that   *)
(* the peer is still subscribed.                                           *)
(***************************************************************************)

CanSend(c) == actor = "running" /\ conns[c] \in {"open", "closing"}

\* A client gives each of its requests an id of its own.
NewRequest(c, i, method) ==
    /\ CanSend(c)
    /\ method \in Methods \ NotificationMethods
    /\ \A r \in sent[c] : r.id # i
    /\ sent' = [sent EXCEPT ![c] = @ \cup {[id |-> i, method |-> method]}]

session_id_mismatch(requested, resolved) == requested \notin {None, resolved}

ResolvedSession(requested) ==
    IF canonical_session_id # None THEN canonical_session_id ELSE requested

\* The recorded frames that carry a method, by their seq.
history_full == {k \in DOMAIN replay_log : replay_log[k].method # "raw"}
history_pending_only == {r.id : r \in pending_permissions}

handle_attach_request(c, i, requested, policy) ==
    LET resolved == ResolvedSession(requested)
        history == CASE policy = "none" -> {}
                     [] policy = "full" -> history_full
                     [] policy = "pending_only" -> history_pending_only
    IN /\ NewRequest(c, i, "session/attach")
       /\ send_to(PeerOf[c],
                  IF session_id_mismatch(requested, resolved)
                  THEN Response(i, FALSE, 0, None)
                  ELSE [type |-> "attached", id |-> i, sid |-> resolved,
                        history |-> history])
       /\ UNCHANGED <<connVars, requestVars, handshakeVars, replay_log,
                      agentVars, agent_stdin>>

\* The result is sent before the subscriber is removed; its channel closes
\* with it, and ws_closes(c) follows.
handle_detach_request(c, i, requested) ==
    LET mismatch == session_id_mismatch(requested, canonical_session_id)
    IN /\ NewRequest(c, i, "session/detach")
       /\ send_to(PeerOf[c], Response(i, ~mismatch, 0, IF mismatch THEN None
                                                      ELSE canonical_session_id))
       /\ subscribers' = IF mismatch THEN subscribers
                                     ELSE Without(subscribers, PeerOf[c])
       /\ UNCHANGED <<actor, conns, requestVars, handshakeVars, replay_log,
                      agentVars, agent_stdin>>

Cached(method) ==
    \/ method = "initialize" /\ initialize_cache # 0
    \/ method = "session/new" /\ session_new_cache.by # 0

\* initialize and session/new answered from the handshake cache.
answer_from_cache(c, i, method) ==
    /\ Cached(method)
    /\ NewRequest(c, i, method)
    /\ send_to(PeerOf[c],
               IF method = "initialize"
               THEN Response(i, TRUE, initialize_cache, None)
               ELSE Response(i, TRUE, session_new_cache.by, session_new_cache.sid))
    /\ UNCHANGED <<connVars, requestVars, handshakeVars, replay_log,
                   agentVars, agent_stdin>>

\* Mutant of PromptBusy: the "session busy" gate is missing.
NeverBusy(method) == FALSE

PromptBusy(method) == method = "session/prompt" /\ prompt_in_flight # 0

\* Mutant of reject_busy: the request is dropped without an answer.
drop_busy(c, i, method) ==
    /\ PromptBusy(method)
    /\ NewRequest(c, i, method)
    /\ UNCHANGED <<connVars, outbound, requestVars, handshakeVars, replay_log,
                   agentVars, agent_stdin>>

reject_busy(c, i, method) ==
    /\ PromptBusy(method)
    /\ NewRequest(c, i, method)
    /\ send_to(PeerOf[c], Response(i, FALSE, 0, None))
    /\ UNCHANGED <<connVars, requestVars, handshakeVars, replay_log,
                   agentVars, agent_stdin>>

\* handshake_kind: a session/load without a sessionId is no handshake.
handshake_kind(method, param) ==
    IF method \in Handshakes /\ ~(method = "session/load" /\ param = None)
    THEN method ELSE "none"

\* The rest of translate_outbound_request: allocate a mux id, remember who
\* asked, forward.
forward_request(c, i, method, param) ==
    /\ method \notin LocalMethods /\ ~Cached(method) /\ ~PromptBusy(method)
    /\ NewRequest(c, i, method)
    /\ next_mux_id' = next_mux_id + 1
    /\ pending' = With(pending, next_mux_id,
                       [peer_id |-> PeerOf[c], original_id |-> i,
                        handshake |-> handshake_kind(method, param),
                        loaded_session_id |-> param])
    /\ prompt_in_flight' = IF method = "session/prompt" THEN next_mux_id
                                                        ELSE prompt_in_flight
    /\ ToAgent([type |-> "request", mux_id |-> next_mux_id, method |-> method,
                conn |-> c, id |-> i])
    /\ UNCHANGED <<connVars, outbound, handshakeVars, replay_log, agentVars>>

\* handle_subscriber_cancel: find_pending_mux_id takes any entry of the
\* HashMap with this peer id and original id; without one nothing happens.
handle_subscriber_cancel(c, i) ==
    /\ CanSend(c) /\ "$/cancel_request" \in Methods
    /\ \E m \in DOMAIN pending :
        /\ pending[m].peer_id = PeerOf[c] /\ pending[m].original_id = i
        /\ ToAgent([type |-> "cancel", mux_id |-> m, method |-> "$/cancel_request",
                    conn |-> c, id |-> i])
    /\ UNCHANGED <<connVars, outbound, requestVars, handshakeVars, replay_log,
                   agentVars, sent>>

\* Any other notification, session/cancel for one, is passed through.
handle_subscriber_notification(c) ==
    /\ CanSend(c) /\ "session/cancel" \in Methods
    /\ ToAgent([type |-> "notification", conn |-> c])
    /\ UNCHANGED <<connVars, outbound, requestVars, handshakeVars, replay_log,
                   agentVars, sent>>

\* Mutant of Unresolved: a request is open as long as it is recorded at all.
Recorded(a) == a \in DOMAIN agent_pending

Unresolved(a) == a \in DOMAIN agent_pending /\ agent_pending[a] = "InFlight"

\* Mutant of RetainExcept: settled permission requests are not removed.
RetainAll(ids) == pending_permissions

\* Vec::retain over pending_permissions.
RetainExcept(ids) == {r \in pending_permissions : r.id \notin ids}

\* A client replies to what it was asked, or, for a stray id, unasked.
MayReply(c, a) ==
    a \in StrayIds \/ \E k \in DOMAIN outbound[c] : outbound[c][k] = [type |-> "ask", id |-> a]

\* The first reply to a request in flight goes to the agent and consumes it;
\* a later one is dropped; one to an unknown id is forwarded.
gate_subscriber_response(c, a) ==
    /\ CanSend(c) /\ MayReply(c, a)
    /\ \/ /\ Unresolved(a)
          /\ agent_pending' = [agent_pending EXCEPT ![a] = "Consumed"]
          /\ pending_permissions' = RetainExcept({a})
          /\ open_asks' = open_asks \ {a}
       \/ /\ a \notin DOMAIN agent_pending
          /\ UNCHANGED <<agent_pending, pending_permissions, open_asks>>
    /\ ToAgent([type |-> "reply", id |-> a, conn |-> c])
    /\ UNCHANGED <<connVars, outbound, requestVars, handshakeVars, replay_log,
                   asked, sent>>

-----------------------------------------------------------------------------
(***************************************************************************)
(* Lines from the agent's stdout (handle_agent_line).                      *)
(***************************************************************************)

\* A notification, or a line that is not JSON-RPC.  A notification for
\* another session than the established one moves the canonical id first.
handle_agent_notification(method, sid) ==
    /\ actor = "running"
    /\ method = "raw" => sid = None
    /\ canonical_session_id' =
        IF canonical_session_id # None /\ sid # None THEN sid ELSE canonical_session_id
    /\ broadcast(method)
    /\ UNCHANGED <<connVars, requestVars, initialize_cache, session_new_cache,
                   agentVars, agent_stdin, sent>>

\* The agent may use a request id again once that request is settled.
AgentAsks(a) ==
    /\ actor = "running" /\ a \notin open_asks /\ asked[a] < MaxAsks
    /\ asked' = [asked EXCEPT ![a] = @ + 1]

\* ClientToolPolicy answers the agent without involving a subscriber.
block_agent_request(a) ==
    /\ a \in Blocked
    /\ AgentAsks(a)
    /\ ToAgent([type |-> "blocked", id |-> a])
    /\ UNCHANGED <<connVars, outbound, requestVars, handshakeVars, replay_log,
                   agent_pending, pending_permissions, open_asks, sent>>

\* Mutant of or_insert_in_flight: a request nobody is there to hear is not
\* recorded.
insert_if_heard(a) ==
    IF DOMAIN subscribers = {} THEN agent_pending
    ELSE With(agent_pending, a, "InFlight")

\* entry(id).or_insert(InFlight): an id already in the map keeps its state.
or_insert_in_flight(a) ==
    IF a \in DOMAIN agent_pending THEN agent_pending
    ELSE With(agent_pending, a, "InFlight")

handle_agent_request(a) ==
    /\ a \notin Blocked
    /\ AgentAsks(a)
    /\ agent_pending' = or_insert_in_flight(a)
    /\ pending_permissions' = pending_permissions \cup
            IF a \in Permissions THEN {[id |-> a, use |-> asked'[a]]} ELSE {}
    /\ open_asks' = open_asks \cup {a}
    /\ fanout([type |-> "ask", id |-> a])
    /\ UNCHANGED <<actor, conns, requestVars, handshakeVars, replay_log,
                   agent_stdin, sent>>

\* $/cancel_request from the agent; broadcast whether or not it withdraws
\* anything.
handle_agent_cancel(a) ==
    /\ actor = "running"
    /\ agent_pending' = IF Unresolved(a) THEN [agent_pending EXCEPT ![a] = "Consumed"]
                        ELSE agent_pending
    /\ pending_permissions' = IF Unresolved(a) THEN RetainExcept({a})
                              ELSE pending_permissions
    /\ open_asks' = open_asks \ {a}
    /\ broadcast("cancel")
    /\ UNCHANGED <<connVars, requestVars, handshakeVars, asked, agent_stdin, sent>>

\* Mutant of sweep_stale_agent_pending: the end of the turn leaves them open.
no_sweep == UNCHANGED <<agent_pending, pending_permissions, open_asks>>

\* The prompt has settled: requests nobody answered are given up.
sweep_stale_agent_pending ==
    LET stale == {a \in DOMAIN agent_pending : agent_pending[a] = "InFlight"}
    IN /\ agent_pending' = [a \in DOMAIN agent_pending |-> "Consumed"]
       /\ pending_permissions' = RetainExcept(stale)
       /\ open_asks' = {}

\* Mutant of canonical_after: a session/load does not rebind the mux.
canonical_after_new(m, sid) ==
    IF pending[m].handshake = "session/new" /\ sid # None THEN sid
    ELSE canonical_session_id

\* set_canonical_session_id, when the result of request m has sessionId sid.
canonical_after(m, sid) ==
    CASE pending[m].handshake = "session/new" /\ sid # None -> sid
      [] pending[m].handshake = "session/load" -> pending[m].loaded_session_id
      [] OTHER -> canonical_session_id

\* What that result leaves in the caches.
apply_successful_handshake(m, sid) ==
    LET handshake == pending[m].handshake
        loaded == pending[m].loaded_session_id
    IN /\ initialize_cache' = IF handshake = "initialize" THEN m ELSE initialize_cache
       /\ canonical_session_id' = canonical_after(m, sid)
       /\ session_new_cache' =
            CASE handshake = "session/new" -> [by |-> m, sid |-> sid]
              [] handshake = "session/load" ->
                    [by |-> m, sid |-> IF sid = NullResult THEN loaded ELSE sid]
              [] OTHER -> session_new_cache

\* What the agent may put in a result, by the kind of the request.
ResultsOf(handshake) ==
    CASE handshake = "session/new" -> NewResults
      [] handshake = "session/load" -> LoadResults
      [] OTHER -> {None}

\* The agent answers request m.  A line whose id is not pending is dropped.
route_agent_response(m, ok, sid) ==
    /\ actor = "running"
    /\ pending' = Without(pending, m)
    /\ IF prompt_in_flight = m
       THEN prompt_in_flight' = 0 /\ sweep_stale_agent_pending
       ELSE UNCHANGED <<prompt_in_flight, agent_pending, pending_permissions, open_asks>>
    /\ IF ok THEN sid \in ResultsOf(pending[m].handshake)
                  /\ apply_successful_handshake(m, sid)
             ELSE sid = None /\ UNCHANGED handshakeVars
    /\ send_to(pending[m].peer_id,
               Response(pending[m].original_id, ok, m,
                        IF sid = NullResult THEN None ELSE sid))
    /\ UNCHANGED <<connVars, next_mux_id, replay_log, asked, agent_stdin, sent>>

-----------------------------------------------------------------------------
(***************************************************************************)
(* The end of the actor (run_mux).                                         *)
(***************************************************************************)

\* AgentDied, or a failed write to its stdin: close every subscriber.
agent_dies ==
    /\ actor = "running"
    /\ actor' = "stopped"
    /\ Deliver(Reached(Peers), [type |-> "close"])
    /\ subscribers' = [p \in {} |-> None]
    /\ UNCHANGED <<conns, requestVars, handshakeVars, replay_log, agentVars,
                   agent_stdin, sent>>

\* The TTL timer runs only while there is no subscriber.
mux_ttl_expires ==
    /\ actor = "running" /\ DOMAIN subscribers = {}
    /\ actor' = "stopped"
    /\ UNCHANGED <<conns, outbound, subscribers, requestVars, handshakeVars,
                   replay_log, agentVars, agent_stdin, sent>>

\* Mutant of ws_handler_exits: the handler waits for its Detach to be handled.
ws_handler_waits(c) == actor = "stopped" /\ detach(c)

\* With the actor gone the handler's Detach fails and it exits.
ws_handler_exits(c) ==
    /\ actor = "stopped" /\ conns[c] = "closing"
    /\ conns' = [conns EXCEPT ![c] = "gone"]
    /\ UNCHANGED <<actor, subscribers, outbound, requestVars, handshakeVars,
                   replay_log, agentVars, agent_stdin, sent>>

-----------------------------------------------------------------------------
ConnectionStep ==
    \E c \in Conns :
        attach(c) \/ attach_refused(c) \/ ws_closes(c) \/ detach(c) \/ ws_handler_exits(c)

translate_outbound_request(c, i) ==
    \/ \E param \in MaybeSession :
        \/ \E policy \in {"none", "full", "pending_only"} :
                handle_attach_request(c, i, param, policy)
        \/ handle_detach_request(c, i, param)
        \/ forward_request(c, i, "session/load", param)
    \/ \E method \in Methods \ NotificationMethods :
        \/ answer_from_cache(c, i, method)
        \/ reject_busy(c, i, method)
        \/ method # "session/load" /\ forward_request(c, i, method, None)

handle_inbound ==
    \E c \in Conns :
        \/ \E i \in ReqIds :
            translate_outbound_request(c, i) \/ handle_subscriber_cancel(c, i)
        \/ handle_subscriber_notification(c)
        \/ \E a \in AskIds \cup StrayIds : gate_subscriber_response(c, a)

handle_agent_line ==
    \/ \E method \in {"notification", "raw"}, sid \in Switches :
            handle_agent_notification(method, sid)
    \/ \E a \in AskIds :
            block_agent_request(a) \/ handle_agent_request(a) \/ handle_agent_cancel(a)
    \/ \E m \in DOMAIN pending, ok \in BOOLEAN, sid \in MaybeSession \cup {NullResult} :
            route_agent_response(m, ok, sid)

Next ==
    \/ ConnectionStep
    \/ handle_inbound
    \/ handle_agent_line
    \/ agent_dies
    \/ mux_ttl_expires

Spec == Init /\ [][Next]_vars

\* A connection whose channel the actor has dropped ends (ws_out_task returns
\* on recv() = None), its Detach is handled, and an armed timer fires.
Fairness ==
    /\ \A c \in Conns : /\ WF_vars(c \notin Reached(Peers) /\ ws_closes(c))
                        /\ WF_vars(detach(c))
                        /\ WF_vars(ws_handler_exits(c))
    /\ WF_vars(mux_ttl_expires)

FairSpec == Spec /\ Fairness

-----------------------------------------------------------------------------
(***************************************************************************)
(* Properties.                                                             *)
(***************************************************************************)

IsAnswer(f) == f.type \in {"response", "attached"}

\* Request i of connection c was forwarded under mux id m.
Forwarded(m, c, i) ==
    \E k \in DOMAIN agent_stdin :
        LET g == agent_stdin[k]
        IN g.type = "request" /\ g.mux_id = m /\ g.conn = c /\ g.id = i

Asked(c, i, methods) == \E r \in sent[c] : r.id = i /\ r.method \in methods

\* An agent response reaches the connection whose request it answers, under
\* the id that connection chose, unless it comes from the handshake cache;
\* and a cancel reaches the agent for the canceller's own request
\* (route_agent_response, handle_subscriber_cancel).
AnswersAreTheirOwn ==
    /\ \A c \in Conns : \A k \in DOMAIN outbound[c] :
        LET f == outbound[c][k]
        IN f.type = "response" /\ f.by # 0 =>
            Forwarded(f.by, c, f.id) \/ Asked(c, f.id, {"initialize", "session/new"})
    /\ \A k \in DOMAIN agent_stdin :
        LET g == agent_stdin[k]
        IN g.type = "cancel" => Forwarded(g.mux_id, g.conn, g.id)

\* Every request of a connection that is still subscribed has either exactly
\* one answer or an entry in pending that its answer will find: none is
\* lost, none is answered twice, whatever detaches, failures and busy
\* rejections went on meanwhile (translate_outbound_request).
NoRequestForgotten ==
    \A c \in Reached(Peers) : \A r \in sent[c] :
        LET answers == {k \in DOMAIN outbound[c] :
                            IsAnswer(outbound[c][k]) /\ outbound[c][k].id = r.id}
            waiting == {m \in DOMAIN pending : Forwarded(m, c, r.id)}
        IN Cardinality(answers) + Cardinality(waiting) = 1

\* The agent never works on two prompts: of the prompts written to its stdin
\* exactly the one in prompt_in_flight is unanswered, and the slot is never
\* held by anything else (the "session busy" gate and route_agent_response).
OnePromptAtTheAgent ==
    /\ \A k \in DOMAIN agent_stdin :
        LET g == agent_stdin[k]
        IN g.type = "request" /\ g.method = "session/prompt" =>
            (g.mux_id \in DOMAIN pending <=> g.mux_id = prompt_in_flight)
    /\ prompt_in_flight # 0 =>
        \E k \in DOMAIN agent_stdin :
            LET g == agent_stdin[k]
            IN g.type = "request" /\ g.method = "session/prompt"
               /\ g.mux_id = prompt_in_flight

\* First writer wins: however many subscribers reply, the agent gets at most
\* one reply to each request it sent (gate_subscriber_response).
OneReplyPerAsk ==
    \A j, k \in DOMAIN agent_stdin :
        LET f == agent_stdin[j]
            g == agent_stdin[k]
        IN f.type = "reply" /\ g.type = "reply" /\ f.id = g.id /\ f.id \in AskIds => j = k

\* While the agent waits for a reply, the first one a subscriber sends is
\* forwarded: the request is recorded as in flight.
OpenAsksAnswerable == \A a \in open_asks : Unresolved(a)

\* pending_permissions, what a pending_only attach and the extensions show,
\* is exactly the unanswered permission requests, through replies, cancels
\* and the end of the turn.
PermissionsAreOpen ==
    pending_permissions = {[id |-> a, use |-> asked[a]] : a \in open_asks \cap Permissions}

\* Each subscriber sees the broadcasts from its starting point on without a
\* gap, a duplicate or a reordering: a late joiner the whole log, one that
\* skips the replay those since it attached (attach, broadcast).
SubscribersSeeTheLog ==
    \A c \in Reached(Peers) :
        LET Seen == {k \in DOMAIN outbound[c] : outbound[c][k].type = "broadcast"}
            Seqs == {outbound[c][k].seq : k \in Seen}
        IN /\ Seqs \subseteq DOMAIN replay_log
           /\ \A k \in Seen : outbound[c][k] = replay_log[outbound[c][k].seq]
           /\ \A j, k \in Seen : j < k => outbound[c][j].seq < outbound[c][k].seq
           /\ \A s \in Seqs : s .. Len(replay_log) \subseteq Seqs
           /\ c \notin SkipReplay => Seqs = DOMAIN replay_log

\* What a late session/new is answered with names the session the mux is on.
CachedSessionIsCanonical ==
    session_new_cache.by # 0 => session_new_cache.sid = canonical_session_id

\* Once a mux has stopped, for want of clients or because its agent died, or
\* has dropped a client, no WebSocket handler stays behind.
NobodyLeftBehind ==
    \A c \in Conns : (conns[c] = "open" /\ c \notin Reached(Peers)) ~> conns[c] = "gone"

=============================================================================
