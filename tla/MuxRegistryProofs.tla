-------------------------- MODULE MuxRegistryProofs --------------------------
(***************************************************************************)
(* Proofs about the registry, the actors and the agents behind them, for   *)
(* any number of connections, peers, mux ids and actors, and any capacity  *)
(* of the mailbox and the pipes; and about the list of sessions of the     *)
(* control plane.                                                          *)
(***************************************************************************)
EXTENDS MCMuxRegistry, TLAPS

-----------------------------------------------------------------------------
(***************************************************************************)
(* Types.                                                                  *)
(***************************************************************************)

\* An actor that writes has a frame to write.
WritersHaveFrames == \A a \in Actors : actor[a] = "writing" => agent_outbox[a] > 0

TypeInv == TypeOK /\ WritersHaveFrames

LEMMA MsgTypes ==
    /\ \A c \in Conns : [type |-> "Attach", conn |-> c] \in Msg
    /\ \A c \in Conns : [type |-> "Detach", conn |-> c] \in Msg
    /\ [type |-> "InboundFromSubscriber"] \in Msg
    /\ [type |-> "AgentStdoutLine"] \in Msg
    /\ [type |-> "AgentStderrLine"] \in Msg
    /\ [type |-> "AgentDied"] \in Msg
    /\ [type |-> "Snapshot"] \in Msg
BY DEF Msg

LEMMA JoinsHaveConns ==
    ASSUME NEW msg \in Msg, msg.type \in {"Attach", "Detach"}
    PROVE  msg.conn \in Conns
BY DEF Msg

\* A message that is sent keeps the mailboxes well typed.
LEMMA SendTypeOK ==
    ASSUME mailbox \in [Actors -> Seq(Msg)], NEW a, NEW msg \in Msg, send(a, msg)
    PROVE  mailbox' \in [Actors -> Seq(Msg)]
<1>1. mailbox' = [mailbox EXCEPT ![a] = Append(mailbox[a], msg)]
    BY DEF send
<1>2. a \in Actors => Append(mailbox[a], msg) \in Seq(Msg)
    OBVIOUS
<1>3. QED
    BY <1>1, <1>2

LEMMA AgentFields ==
    ASSUME NEW agt \in Agent
    PROVE  /\ agt.stdin \in Nat /\ agt.stdout \in Nat
           /\ [agt EXCEPT !.state = "running"] \in Agent
           /\ [agt EXCEPT !.state = "exited", !.stdin = 0] \in Agent
           /\ [agt EXCEPT !.eof = TRUE] \in Agent
           /\ [NoAgent EXCEPT !.state = "exited"] \in Agent
           /\ \A n \in Nat : [agt EXCEPT !.stdin = n] \in Agent
           /\ \A n \in Nat : [agt EXCEPT !.stdout = n] \in Agent
BY DEF Agent, NoAgent

LEMMA InitTypes == Init => TypeInv
BY RegistryConstantsOK DEF Init, TypeInv, TypeOK, WritersHaveFrames, NoAgent, Agent, Snapshot, Answered

LEMMA HandlerTypes ==
    ASSUME TypeInv, NEW c \in Conns, HandlerStep(c)
    PROVE  TypeInv'
<1> USE DEF TypeInv, TypeOK, WritersHaveFrames, actorVars, Answered
<1>1. ASSUME NEW m \in MuxIds, attach(c, m)
      PROVE  TypeInv'
    BY <1>1 DEF attach, join_existing
<1>2. ASSUME NEW m \in MuxIds, get_or_spawn(c, m)
      PROVE  TypeInv'
    <2>1. CASE Live(m) /\ join_existing(c, m)
                /\ UNCHANGED <<muxes, spawned, actor, subscribers, agent>>
        BY <1>2, <2>1 DEF get_or_spawn, join_existing
    <2>2. ASSUME NEW a \in Actors, spawn_locked(c, m, a)
          PROVE  TypeInv'
        <3>1. [agent[a] EXCEPT !.state = "running"] \in Agent
            BY AgentFields
        <3>2. agent' \in [Actors -> Agent]
            BY <2>2, <3>1 DEF spawn_locked
        <3>3. spawned' \in Seq(MuxIds)
            BY <2>2 DEF spawn_locked
        <3>4. QED
            BY <1>2, <2>2, <3>2, <3>3 DEF get_or_spawn, spawn_locked
    <2>3. CASE spawn_fails(c, m)
        BY <1>2, <2>3 DEF get_or_spawn, spawn_fails
    <2>4. QED
        BY <1>2, <2>1, <2>2, <2>3 DEF get_or_spawn
<1>3. CASE try_join(c)
    BY <1>3, MsgTypes, SendTypeOK DEF try_join
<1>4. CASE actor_unreachable(c)
    BY <1>4 DEF actor_unreachable
<1>5. CASE client_sends(c)
    BY <1>5, MsgTypes, SendTypeOK DEF client_sends
<1>6. CASE ws_ends(c)
    BY <1>6 DEF ws_ends
<1>7. CASE ws_handler_exits(c)
    BY <1>7, MsgTypes, SendTypeOK DEF ws_handler_exits
<1>8. QED
    BY <1>1, <1>2, <1>3, <1>4, <1>5, <1>6, <1>7 DEF HandlerStep

\* What a handler of the actor does besides taking the message.
LEMMA RunMuxTypes ==
    ASSUME TypeInv, NEW a \in Actors, run_mux(a)
    PROVE  TypeInv'
<1> USE DEF TypeInv, TypeOK, WritersHaveFrames, actorVars, Answered
<1> DEFINE msg == Head(mailbox[a])
<1>1. msg \in Msg
    BY DEF run_mux
<1>2. mailbox' \in [Actors -> Seq(Msg)]
    BY DEF run_mux
<1>3. UNCHANGED <<muxes, peer, handle, spawned>>
    BY DEF run_mux
<1>4. CASE msg.type = "Attach" /\ handle_attach(a, msg.conn)
    <2>1. msg.conn \in Conns
        BY <1>1, <1>4, JoinsHaveConns
    <2>2. subscribers' \in [Actors -> SUBSET Conns]
        <3>1. subscribers[a] \cup {msg.conn} \in SUBSET Conns
            BY <2>1
        <3>2. \/ subscribers' = [subscribers EXCEPT ![a] = subscribers[a] \cup {msg.conn}]
              \/ subscribers' = subscribers
            BY <1>4 DEF handle_attach
        <3>3. QED
            BY <3>1, <3>2
    <2>3. pc' \in [Conns -> {"idle", "spawning", "joining", "waiting", "leaving", "done"}
                               \cup Answered]
        BY <1>4, <2>1 DEF handle_attach
    <2>4. UNCHANGED <<actor, agent_outbox, agent, snap>>
        BY <1>4 DEF handle_attach
    <2>5. QED
        BY <1>2, <1>3, <2>2, <2>3, <2>4
<1>5. CASE msg.type = "Detach" /\ handle_detach(a, msg.conn)
    BY <1>2, <1>3, <1>5 DEF handle_detach
<1>6. CASE handle_inbound(a) \/ handle_agent_line(a)
    <2>1. PICK n \in 0..1 : drain_later(a, n)
        BY <1>6 DEF handle_inbound, handle_agent_line
    <2>2. UNCHANGED <<pc, subscribers, agent, snap>>
        BY <1>6 DEF handle_inbound, handle_agent_line
    <2>3. QED
        BY <1>2, <1>3, <2>1, <2>2 DEF drain_later
<1>7. CASE handle_stderr_line
    BY <1>2, <1>3, <1>7 DEF handle_stderr_line
<1>8. CASE agent_died(a)
    BY <1>2, <1>3, <1>8 DEF agent_died, stop
<1>9. CASE build_snapshot(a)
    BY <1>2, <1>3, <1>9 DEF build_snapshot, Snapshot
<1>10. QED
    BY <1>4, <1>5, <1>6, <1>7, <1>8, <1>9 DEF run_mux

LEMMA ReturnTypes ==
    ASSUME TypeInv, NEW a \in Actors, returns(a),
           UNCHANGED <<muxes, handlerVars, spawned, snap>>
    PROVE  TypeInv'
<1> USE DEF TypeInv, TypeOK, WritersHaveFrames, handlerVars
<1>1. agent[a] \in Agent
    OBVIOUS
<1>2. agent' \in [Actors -> Agent]
    BY <1>1, AgentFields DEF returns
<1>3. mailbox' \in [Actors -> Seq(Msg)]
    BY DEF returns
<1>4. QED
    BY <1>2, <1>3 DEF returns

LEMMA ActorTypes ==
    ASSUME TypeInv, NEW a \in Actors, ActorStep(a)
    PROVE  TypeInv'
<1> USE DEF TypeInv, TypeOK, WritersHaveFrames, actorVars, handlerVars
<1>1. CASE run_mux(a)
    BY <1>1, RunMuxTypes
<1>2. CASE ttl_expires(a)
    BY <1>2 DEF ttl_expires, stop
<1>3. CASE drain_agent_outbox(a)
    <2>1. agent[a].stdin + 1 \in Nat
        <3>1. agent[a] \in Agent
            OBVIOUS
        <3>2. agent[a].stdin \in Nat /\ agent[a].stdout \in Nat
            BY <3>1, AgentFields
        <3>3. QED
            BY <3>2
    <2>2. [agent[a] EXCEPT !.stdin = @ + 1] \in Agent
        BY <2>1, AgentFields
    <2>3. agent' \in [Actors -> Agent]
        BY <1>3, <2>2 DEF drain_agent_outbox
    <2>4. agent_outbox[a] - 1 \in Nat
        BY <1>3 DEF drain_agent_outbox
    <2>5. QED
        BY <1>3, <2>3, <2>4 DEF drain_agent_outbox, drain_later
<1>4. CASE stdin_write_fails(a) \/ shutdown(a)
    BY <1>4, ReturnTypes DEF stdin_write_fails, shutdown
<1>5. CASE kill(a)
    BY <1>5, AgentFields DEF kill
<1>6. QED
    BY <1>1, <1>2, <1>3, <1>4, <1>5 DEF ActorStep

LEMMA AgentTypes ==
    ASSUME TypeInv, NEW a \in Actors, AgentStep(a)
    PROVE  TypeInv'
<1> USE DEF TypeInv, TypeOK, WritersHaveFrames, actorVars, handlerVars
<1>1. CASE agent_reads(a)
    <2>1. agent[a].stdin - 1 \in Nat
        <3>1. agent[a] \in Agent
            OBVIOUS
        <3>2. agent[a].stdin \in Nat /\ agent[a].stdout \in Nat
            BY <3>1, AgentFields
        <3>3. QED
            BY <3>2, <1>1 DEF agent_reads
    <2>2. [agent[a] EXCEPT !.stdin = @ - 1] \in Agent
        BY <2>1, AgentFields
    <2>3. QED
        BY <1>1, <2>2 DEF agent_reads
<1>2. CASE agent_writes(a)
    <2>1. agent[a].stdout + 1 \in Nat
        <3>1. agent[a] \in Agent
            OBVIOUS
        <3>2. agent[a].stdin \in Nat /\ agent[a].stdout \in Nat
            BY <3>1, AgentFields
        <3>3. QED
            BY <3>2
    <2>2. [agent[a] EXCEPT !.stdout = @ + 1] \in Agent
        BY <2>1, AgentFields
    <2>3. QED
        BY <1>2, <2>2 DEF agent_writes
<1>3. CASE agent_exits(a)
    BY <1>3, AgentFields DEF agent_exits
<1>4. CASE pump_stdout(a)
    <2>1. agent[a].stdout - 1 \in Nat
        <3>1. agent[a] \in Agent
            OBVIOUS
        <3>2. agent[a].stdin \in Nat /\ agent[a].stdout \in Nat
            BY <3>1, AgentFields
        <3>3. QED
            BY <3>2, <1>4 DEF pump_stdout
    <2>2. [agent[a] EXCEPT !.stdout = @ - 1] \in Agent
        BY <2>1, AgentFields
    <2>3. mailbox' \in [Actors -> Seq(Msg)]
        BY <1>4, MsgTypes, SendTypeOK DEF pump_stdout
    <2>4. QED
        BY <1>4, <2>2, <2>3 DEF pump_stdout
<1>5. CASE pump_eof(a)
    <2>1. mailbox' \in [Actors -> Seq(Msg)]
        BY <1>5, MsgTypes, SendTypeOK DEF pump_eof
    <2>2. QED
        BY <1>5, <2>1, AgentFields DEF pump_eof
<1>6. CASE pump_stderr(a)
    BY <1>6, MsgTypes, SendTypeOK DEF pump_stderr
<1>7. QED
    BY <1>1, <1>2, <1>3, <1>4, <1>5, <1>6 DEF AgentStep

LEMMA SnapshotTypes ==
    ASSUME TypeInv, SnapshotStep
    PROVE  TypeInv'
<1> USE DEF TypeInv, TypeOK, WritersHaveFrames, Snapshot, actorVars, handlerVars
<1>1. CASE snapshot_begins
    <2>1. {muxes[m] : m \in {n \in MuxIds : Live(n)}} \subseteq Actors
        BY DEF Live
    <2>2. QED
        BY <1>1, <2>1 DEF snapshot_begins
<1>2. CASE snapshot_timeout \/ snapshot_ends
    BY <1>2 DEF snapshot_timeout, snapshot_ends
<1>3. ASSUME NEW a \in Actors, snapshot_asks(a)
      PROVE  TypeInv'
    <2>1. CASE send(a, [type |-> "Snapshot"])
                /\ snap' = [pc |-> "waiting", todo |-> snap.todo \ {a}, at |-> a]
        <3>1. mailbox' \in [Actors -> Seq(Msg)]
            BY <2>1, MsgTypes, SendTypeOK
        <3>2. QED
            BY <1>3, <2>1, <3>1 DEF snapshot_asks
    <2>2. CASE snap' = [snap EXCEPT !.todo = @ \ {a}] /\ UNCHANGED mailbox
        BY <1>3, <2>2 DEF snapshot_asks
    <2>3. QED
        BY <1>3, <2>1, <2>2 DEF snapshot_asks
<1>4. QED
    BY <1>1, <1>2, <1>3 DEF SnapshotStep

LEMMA NextTypes ==
    ASSUME TypeInv, [Next]_vars
    PROVE  TypeInv'
<1>1. CASE Next
    BY <1>1, HandlerTypes, ActorTypes, AgentTypes, SnapshotTypes DEF Next
<1>2. CASE UNCHANGED vars
    BY <1>2 DEF vars, handlerVars, actorVars, TypeInv, TypeOK, WritersHaveFrames
<1>3. QED
    BY <1>1, <1>2

\* Every reachable state of the registry, the actors, their mailboxes, the
\* agents and the snapshot has the types of TypeOK.
THEOREM RegistryTypeCorrect == Spec => []TypeOK
<1>1. TypeInv => TypeOK
    BY DEF TypeInv
<1>2. QED
    BY <1>1, InitTypes, NextTypes, PTL DEF Spec

-----------------------------------------------------------------------------
(***************************************************************************)
(* The registry.                                                           *)
(***************************************************************************)

\* Actors are spawned in order, so those further on are absent and nothing
\* refers to them.
AbsentUnknown ==
    /\ \A a \in Actors : actor[a] # "absent" => a <= Len(spawned)
    /\ \A m \in MuxIds : muxes[m] <= Len(spawned)
    /\ \A c \in Conns : handle[c] <= Len(spawned)

\* A subprocess does not outlive its actor.
AgentsHaveActors == \A a \in Actors : agent[a].state = "running" => is_alive(a)

RegistryInv ==
    /\ TypeInv
    /\ AbsentUnknown
    /\ AgentsHaveActors
    /\ RegistryPointsToTheLiving

\* A step that spawns nobody, revives nobody and takes no entry of a living
\* actor out of the map.
Quiet ==
    /\ UNCHANGED <<muxes, spawned>>
    /\ \A a \in Actors :
        /\ is_alive(a)' => is_alive(a)
        /\ actor'[a] # "absent" => actor[a] # "absent"
        /\ agent'[a].state = "running" => agent[a].state = "running" /\ is_alive(a)'
    /\ \A c \in Conns : handle'[c] <= Len(spawned)

LEMMA QuietKeepsRegistry ==
    ASSUME RegistryInv, TypeInv', Quiet
    PROVE  RegistryInv'
BY DEF RegistryInv, TypeInv, TypeOK, AbsentUnknown, AgentsHaveActors, RegistryPointsToTheLiving,
       Quiet

LEMMA InitRegistry == Init => RegistryInv
<1> SUFFICES ASSUME Init PROVE RegistryInv
    OBVIOUS
<1>1. TypeInv
    BY InitTypes
<1>2. QED
    BY <1>1, RegistryConstantsOK
    DEF Init, RegistryInv, AbsentUnknown, AgentsHaveActors, RegistryPointsToTheLiving,
        is_alive, NoAgent

LEMMA KnownNumbers ==
    ASSUME RegistryInv
    PROVE  /\ \A m \in MuxIds : muxes[m] \in Nat /\ muxes[m] <= Len(spawned)
           /\ \A c \in Conns : handle[c] \in Nat /\ handle[c] <= Len(spawned)
<1>1. Actors \cup {0} \subseteq Nat
    BY RegistryConstantsOK
<1>2. muxes \in [MuxIds -> Actors \cup {0}] /\ handle \in [Conns -> Actors \cup {0}]
    BY DEF RegistryInv, TypeInv, TypeOK
<1>3. AbsentUnknown
    BY DEF RegistryInv
<1>4. QED
    BY <1>1, <1>2, <1>3 DEF AbsentUnknown

LEMMA HandlerRegistry ==
    ASSUME RegistryInv, NEW c \in Conns, HandlerStep(c)
    PROVE  RegistryInv'
<1>1. TypeInv'
    BY HandlerTypes DEF RegistryInv
<1>2. ASSUME NEW m \in MuxIds, attach(c, m)
      PROVE  RegistryInv'
    <2>1. CASE Live(m) /\ join_existing(c, m) /\ UNCHANGED muxes
        <3>1. Quiet
            BY <1>2, <2>1
            DEF attach, join_existing, Quiet, RegistryInv, TypeInv, TypeOK, AbsentUnknown,
                AgentsHaveActors, actorVars, is_alive
        <3>2. QED
            BY <1>1, <3>1, QuietKeepsRegistry
    <2>2. CASE ~Live(m) /\ muxes' = [muxes EXCEPT ![m] = 0] /\ UNCHANGED handle
        <3>1. \A a \in Actors : is_alive(a) => spawned[a] # m
            BY <2>2, RegistryConstantsOK DEF Live, RegistryInv, RegistryPointsToTheLiving
        <3>2. \A a \in Actors : is_alive(a) => a \in 1..Len(spawned) /\ spawned[a] \in MuxIds
            BY RegistryConstantsOK
            DEF RegistryInv, TypeInv, TypeOK, AbsentUnknown, is_alive
        <3>3. RegistryPointsToTheLiving'
            BY <1>2, <2>2, <3>1, <3>2
            DEF attach, actorVars, is_alive, RegistryInv, TypeInv, TypeOK,
                RegistryPointsToTheLiving
        <3>4. AbsentUnknown' /\ AgentsHaveActors'
            BY <1>2, <2>2
            DEF attach, actorVars, is_alive, RegistryInv, TypeInv, TypeOK, AbsentUnknown,
                AgentsHaveActors
        <3>5. QED
            BY <1>1, <3>3, <3>4 DEF RegistryInv
    <2>3. QED
        BY <1>2, <2>1, <2>2 DEF attach
<1>3. ASSUME NEW m \in MuxIds, get_or_spawn(c, m)
      PROVE  RegistryInv'
    <2>1. CASE Live(m) /\ join_existing(c, m)
                /\ UNCHANGED <<muxes, spawned, actor, subscribers, agent>>
        <3>1. Quiet
            BY <2>1
            DEF join_existing, Quiet, RegistryInv, TypeInv, TypeOK, AbsentUnknown,
                AgentsHaveActors, is_alive
        <3>2. QED
            BY <1>1, <3>1, QuietKeepsRegistry
    <2>2. \A a \in Actors : is_alive(a) => a \in 1..Len(spawned) /\ spawned[a] \in MuxIds
        BY RegistryConstantsOK
        DEF RegistryInv, TypeInv, TypeOK, AbsentUnknown, is_alive
    <2>3. ~Live(m) => \A a \in Actors : is_alive(a) => spawned[a] # m
        BY RegistryConstantsOK DEF Live, RegistryInv, RegistryPointsToTheLiving
    <2>4. ASSUME NEW a \in Actors, ~Live(m), spawn_locked(c, m, a)
          PROVE  RegistryInv'
        <3>1. /\ Len(spawned') = Len(spawned) + 1
              /\ spawned'[a] = m
              /\ \A b \in 1..Len(spawned) : spawned'[b] = spawned[b] /\ b # a
            BY <2>4 DEF spawn_locked, RegistryInv, TypeInv, TypeOK
        <3>2. \A b \in Actors : b # a => (is_alive(b)' <=> is_alive(b))
            BY <2>4 DEF spawn_locked, is_alive, RegistryInv, TypeInv, TypeOK
        <3>3. RegistryPointsToTheLiving'
            BY <2>2, <2>3, <2>4, <3>1, <3>2
            DEF spawn_locked, RegistryInv, TypeInv, TypeOK, RegistryPointsToTheLiving
        <3>4. AbsentUnknown'
            <4> USE DEF spawn_locked, RegistryInv, TypeInv, TypeOK, AbsentUnknown
            <4>1. Actors \subseteq Nat
                BY RegistryConstantsOK
            <4>2. Len(spawned) \in Nat /\ a = Len(spawned) + 1 /\ Len(spawned') = a
                BY <2>4, <3>1
            <4>3. \A b \in Actors : actor'[b] # "absent" => b <= Len(spawned')
                BY <2>4, <4>1, <4>2
            <4>4. ASSUME NEW k \in MuxIds
                  PROVE  muxes'[k] <= Len(spawned')
                <5>1. muxes[k] \in Nat /\ muxes[k] <= Len(spawned)
                    BY KnownNumbers
                <5>2. muxes'[k] \in {muxes[k], a}
                    BY <2>4
                <5>3. QED
                    BY <4>2, <5>1, <5>2
            <4>5. ASSUME NEW d \in Conns
                  PROVE  handle'[d] <= Len(spawned')
                <5>1. handle[d] \in Nat /\ handle[d] <= Len(spawned)
                    BY KnownNumbers
                <5>2. handle'[d] \in {handle[d], a}
                    BY <2>4
                <5>3. QED
                    BY <4>2, <5>1, <5>2
            <4>6. QED
                BY <4>3, <4>4, <4>5
        <3>5. AgentsHaveActors'
            BY <2>4 DEF spawn_locked, is_alive, RegistryInv, TypeInv, TypeOK, AgentsHaveActors
        <3>6. QED
            BY <1>1, <3>3, <3>4, <3>5 DEF RegistryInv
    <2>5. CASE ~Live(m) /\ spawn_fails(c, m)
        <3>1. RegistryPointsToTheLiving'
            BY <2>2, <2>3, <2>5
            DEF spawn_fails, is_alive, RegistryInv, TypeInv, TypeOK, RegistryPointsToTheLiving
        <3>2. AbsentUnknown' /\ AgentsHaveActors'
            BY <2>5
            DEF spawn_fails, is_alive, RegistryInv, TypeInv, TypeOK, AbsentUnknown,
                AgentsHaveActors
        <3>3. QED
            BY <1>1, <3>1, <3>2 DEF RegistryInv
    <2>6. QED
        BY <1>3, <2>1, <2>4, <2>5 DEF get_or_spawn
<1>4. CASE try_join(c) \/ actor_unreachable(c) \/ client_sends(c) \/ ws_ends(c)
            \/ ws_handler_exits(c)
    <2>1. Quiet
        BY <1>4
        DEF try_join, actor_unreachable, client_sends, ws_ends, ws_handler_exits, Quiet,
            RegistryInv, AbsentUnknown, AgentsHaveActors, actorVars, is_alive
    <2>2. QED
        BY <1>1, <2>1, QuietKeepsRegistry
<1>5. QED
    BY <1>2, <1>3, <1>4 DEF HandlerStep

LEMMA ActorRegistry ==
    ASSUME RegistryInv, NEW a \in Actors, ActorStep(a)
    PROVE  RegistryInv'
<1>1. TypeInv'
    BY ActorTypes DEF RegistryInv
<1>2. Quiet
    <2> USE DEF Quiet, RegistryInv, TypeInv, TypeOK, AbsentUnknown, AgentsHaveActors,
                actorVars, handlerVars, is_alive
    <2>1. CASE run_mux(a)
        <3>1. \/ UNCHANGED actor
              \/ actor' = [actor EXCEPT ![a] = "stopping"]
              \/ actor' = [actor EXCEPT ![a] = "running"]
              \/ actor' = [actor EXCEPT ![a] = "writing"]
            BY <2>1
            DEF run_mux, handle_attach, handle_detach, handle_inbound, handle_agent_line,
                handle_stderr_line, agent_died, build_snapshot, drain_later, stop
        <3>2. UNCHANGED <<muxes, spawned, handle, agent>> /\ actor[a] = "running"
            BY <2>1
            DEF run_mux, handle_attach, handle_detach, handle_inbound, handle_agent_line,
                handle_stderr_line, agent_died, build_snapshot
        <3>3. QED
            BY <3>1, <3>2
    <2>2. CASE ttl_expires(a)
        BY <2>2 DEF ttl_expires, stop
    <2>3. CASE drain_agent_outbox(a)
        <3>1. \A b \in Actors : agent'[b].state = agent[b].state
            BY <2>3 DEF drain_agent_outbox, Agent
        <3>2. QED
            BY <2>3, <3>1 DEF drain_agent_outbox, drain_later
    <2>4. CASE stdin_write_fails(a) \/ shutdown(a)
        <3>1. \A b \in Actors : agent'[b].state = "running" => b # a /\ agent'[b] = agent[b]
            BY <2>4 DEF stdin_write_fails, shutdown, returns, NoAgent
        <3>2. QED
            BY <2>4, <3>1 DEF stdin_write_fails, shutdown, returns
    <2>5. CASE kill(a)
        <3>1. \A b \in Actors : agent'[b].state = "running" => agent'[b] = agent[b]
            BY <2>5 DEF kill, Agent
        <3>2. QED
            BY <2>5, <3>1 DEF kill
    <2>6. QED
        BY <2>1, <2>2, <2>3, <2>4, <2>5 DEF ActorStep
<1>3. QED
    BY <1>1, <1>2, QuietKeepsRegistry

LEMMA AgentRegistry ==
    ASSUME RegistryInv, NEW a \in Actors, AgentStep(a)
    PROVE  RegistryInv'
<1>1. TypeInv'
    BY AgentTypes DEF RegistryInv
<1>2. \A b \in Actors : agent'[b].state = "running" => agent[b].state = "running"
    <2> USE DEF RegistryInv, TypeInv, TypeOK, Agent
    <2>1. CASE agent_reads(a) \/ agent_writes(a) \/ agent_exits(a)
        BY <2>1 DEF agent_reads, agent_writes, agent_exits
    <2>2. CASE pump_stdout(a)
        BY <2>2 DEF pump_stdout
    <2>3. CASE pump_eof(a)
        BY <2>3 DEF pump_eof
    <2>4. CASE pump_stderr(a)
        BY <2>4 DEF pump_stderr
    <2>5. QED
        BY <2>1, <2>2, <2>3, <2>4 DEF AgentStep
<1>3. UNCHANGED <<muxes, spawned, actor, handle>>
    BY DEF AgentStep, agent_reads, agent_writes, agent_exits, pump_stdout, pump_eof,
           pump_stderr, actorVars, handlerVars
<1>4. Quiet
    BY <1>2, <1>3 DEF Quiet, RegistryInv, AbsentUnknown, AgentsHaveActors, is_alive
<1>5. QED
    BY <1>1, <1>4, QuietKeepsRegistry

LEMMA SnapshotRegistry ==
    ASSUME RegistryInv, SnapshotStep
    PROVE  RegistryInv'
<1>1. TypeInv'
    BY SnapshotTypes DEF RegistryInv
<1>2. UNCHANGED <<muxes, spawned, actor, handle, agent>>
    BY DEF SnapshotStep, snapshot_begins, snapshot_timeout, snapshot_ends, snapshot_asks,
           actorVars, handlerVars
<1>3. Quiet
    BY <1>2 DEF Quiet, RegistryInv, AbsentUnknown, AgentsHaveActors, is_alive
<1>4. QED
    BY <1>1, <1>3, QuietKeepsRegistry

LEMMA NextRegistry ==
    ASSUME RegistryInv, [Next]_vars
    PROVE  RegistryInv'
<1>1. CASE Next
    BY <1>1, HandlerRegistry, ActorRegistry, AgentRegistry, SnapshotRegistry DEF Next
<1>2. CASE UNCHANGED vars
    <2>1. TypeInv'
        BY <1>2, NextTypes DEF RegistryInv
    <2>2. QED
        BY <1>2, <2>1
        DEF vars, handlerVars, actorVars, RegistryInv, AbsentUnknown, AgentsHaveActors,
            RegistryPointsToTheLiving, is_alive
<1>3. QED
    BY <1>1, <1>2

LEMMA SpecRegistry == Spec => []RegistryInv
BY InitRegistry, NextRegistry, PTL DEF Spec

\* An actor that still takes messages is the one the registry has for its mux
\* id: an entry is replaced only under the lock, by a handler that found
\* nobody alive there under that same lock.
THEOREM LivingActorsAreListed == Spec => []RegistryPointsToTheLiving
<1>1. RegistryInv => RegistryPointsToTheLiving
    BY DEF RegistryInv
<1>2. QED
    BY <1>1, SpecRegistry, PTL

\* At most one agent process per mux id: a running agent has a living actor,
\* and of those the registry has one for an id.
THEOREM OneAgent == Spec => []OneAgentPerMux
<1>1. RegistryInv => OneAgentPerMux
    BY DEF RegistryInv, AgentsHaveActors, RegistryPointsToTheLiving, OneAgentPerMux
<1>2. QED
    BY <1>1, SpecRegistry, PTL

-----------------------------------------------------------------------------
(***************************************************************************)
(* Subscribers.                                                            *)
(***************************************************************************)

\* Where connection c stands with actor a: it waits for the answer to its
\* Attach, is attached (perhaps about to leave), or is over.
Waits(c, a) == pc[c] = "waiting" /\ handle[c] = a
IsOn(c, a) == pc[c] \in {"attached", "leaving"} /\ handle[c] = a
IsOver(c, a) == pc[c] = "done" /\ handle[c] = a

QueuedAt(a, i, type, c) == mailbox[a][i].type = type /\ mailbox[a][i].conn = c

\* A client that has asked to join waits for the answer.
AttachIsAwaited(a) ==
    \A i \in 1..Len(mailbox[a]) : \A c \in Conns : QueuedAt(a, i, "Attach", c) => Waits(c, a)

\* A connection whose Detach is still to come is over and still subscribed.
DetachIsOfASubscriber(a) ==
    \A i \in 1..Len(mailbox[a]) : \A c \in Conns :
        QueuedAt(a, i, "Detach", c) => IsOver(c, a) /\ c \in subscribers[a]

\* Neither message is there twice.
OncePerConn(a) ==
    \A i, j \in 1..Len(mailbox[a]) : \A c \in Conns : \A type \in {"Attach", "Detach"} :
        QueuedAt(a, i, type, c) /\ QueuedAt(a, j, type, c) => i = j

OneSubscriberPerPeer(a) == \A c, d \in subscribers[a] : peer[c] = peer[d] => c = d

AllAttached(a) ==
    /\ \A c \in Conns : IsOn(c, a) => c \in subscribers[a]
    /\ \A c \in subscribers[a] : IsOn(c, a) \/ (IsOver(c, a) /\ DetachQueued(c, a))

\* What holds of an actor that takes messages, and of one that does not.
ActorInv(a) ==
    /\ is_alive(a) =>
        /\ AttachIsAwaited(a) /\ DetachIsOfASubscriber(a) /\ OncePerConn(a)
        /\ OneSubscriberPerPeer(a) /\ AllAttached(a)
    /\ ~is_alive(a) => mailbox[a] = <<>> /\ subscribers[a] = {}

\* Whoever deals with an actor has a handle of one.
HandlesKept ==
    \A c \in Conns : pc[c] \in {"joining", "waiting", "attached", "leaving"} => handle[c] \in Actors

SubscriberInv ==
    /\ RegistryInv
    /\ HandlesKept
    /\ \A a \in Actors : ActorInv(a)

LEMMA SubscriberTypes ==
    ASSUME RegistryInv
    PROVE  /\ pc \in [Conns -> {"idle", "spawning", "joining", "waiting", "leaving", "done"}
                                 \cup Answered]
           /\ handle \in [Conns -> Actors \cup {0}] /\ peer \in [Conns -> Peers]
           /\ actor \in [Actors -> {"absent", "running", "writing", "stopping", "gone"}]
           /\ subscribers \in [Actors -> SUBSET Conns]
           /\ mailbox \in [Actors -> Seq(Msg)]
BY DEF RegistryInv, TypeInv, TypeOK

\* Connections keep their standing with the actor.
Standing(a) ==
    \A c \in Conns :
        (Waits(c, a)' <=> Waits(c, a)) /\ (IsOn(c, a)' <=> IsOn(c, a))
            /\ (IsOver(c, a)' <=> IsOver(c, a))

\* A step that does nothing to an actor.
LEMMA Bystander ==
    ASSUME NEW a \in Actors, ActorInv(a), subscribers[a] \subseteq Conns,
           mailbox'[a] = mailbox[a], subscribers'[a] = subscribers[a], peer' = peer,
           is_alive(a)' <=> is_alive(a), is_alive(a) => Standing(a)
    PROVE  ActorInv(a)'
<1>1. CASE ~is_alive(a)
    BY <1>1 DEF ActorInv
<1>2. CASE is_alive(a)
    BY <1>2
    DEF ActorInv, Standing, AttachIsAwaited, DetachIsOfASubscriber, OncePerConn,
        OneSubscriberPerPeer, AllAttached, QueuedAt, DetachQueued
<1>3. QED
    BY <1>1, <1>2

\* A step after which the mailbox holds one message more, of no connection.
LEMMA OneMoreMessage ==
    ASSUME NEW a \in Actors, ActorInv(a), subscribers[a] \subseteq Conns,
           mailbox[a] \in Seq(Msg), NEW msg \in Msg, msg.type \notin {"Attach", "Detach"},
           mailbox'[a] = Append(mailbox[a], msg),
           subscribers'[a] = subscribers[a], peer' = peer,
           is_alive(a), is_alive(a)', Standing(a)
    PROVE  ActorInv(a)'
<1>1. /\ Len(mailbox'[a]) = Len(mailbox[a]) + 1
      /\ Len(mailbox[a]) \in Nat
      /\ \A i \in 1..Len(mailbox[a]) : mailbox'[a][i] = mailbox[a][i]
      /\ mailbox'[a][Len(mailbox[a]) + 1] = msg
    OBVIOUS
<1>2. \A i \in 1..Len(mailbox'[a]), c \in Conns, type \in {"Attach", "Detach"} :
        QueuedAt(a, i, type, c)' => i \in 1..Len(mailbox[a]) /\ QueuedAt(a, i, type, c)
    BY <1>1 DEF QueuedAt
<1>3. \A c \in Conns : DetachQueued(c, a) => DetachQueued(c, a)'
    BY <1>1 DEF DetachQueued
<1>4. QED
    BY <1>2, <1>3
    DEF ActorInv, Standing, AttachIsAwaited, DetachIsOfASubscriber, OncePerConn,
        OneSubscriberPerPeer, AllAttached

\* The first message taken, if it is of no connection.
LEMMA OneMessageLess ==
    ASSUME NEW a \in Actors, ActorInv(a), subscribers[a] \subseteq Conns,
           mailbox[a] \in Seq(Msg), mailbox[a] # <<>>,
           mailbox'[a] = Tail(mailbox[a]), Head(mailbox[a]).type \notin {"Attach", "Detach"},
           subscribers'[a] = subscribers[a], peer' = peer,
           is_alive(a), is_alive(a)', Standing(a)
    PROVE  ActorInv(a)'
<1>1. /\ Len(mailbox'[a]) = Len(mailbox[a]) - 1
      /\ Len(mailbox[a]) \in Nat
      /\ \A i \in 1..Len(mailbox'[a]) : mailbox'[a][i] = mailbox[a][i + 1]
      /\ Head(mailbox[a]) = mailbox[a][1]
    OBVIOUS
<1>2. \A i \in 1..Len(mailbox'[a]), c \in Conns, type \in {"Attach", "Detach"} :
        QueuedAt(a, i, type, c)' =>
            i + 1 \in 1..Len(mailbox[a]) /\ QueuedAt(a, i + 1, type, c)
    BY <1>1 DEF QueuedAt
<1>3. ASSUME NEW c \in Conns, DetachQueued(c, a)
      PROVE  DetachQueued(c, a)'
    <2>1. PICK i \in 1..Len(mailbox[a]) :
            mailbox[a][i].type = "Detach" /\ mailbox[a][i].conn = c
        BY <1>3 DEF DetachQueued
    <2>2. i # 1
        BY <1>1, <2>1
    <2>3. i - 1 \in 1..Len(mailbox'[a]) /\ mailbox'[a][i - 1] = mailbox[a][i]
        BY <1>1, <2>2
    <2>4. QED
        BY <2>1, <2>3 DEF DetachQueued
<1>4. AttachIsAwaited(a)' /\ DetachIsOfASubscriber(a)'
    BY <1>2
    DEF ActorInv, Standing, AttachIsAwaited, DetachIsOfASubscriber
<1>5. OncePerConn(a)'
    BY <1>1, <1>2 DEF ActorInv, OncePerConn
<1>6. OneSubscriberPerPeer(a)' /\ AllAttached(a)'
    BY <1>3 DEF ActorInv, Standing, OneSubscriberPerPeer, AllAttached
<1>7. QED
    BY <1>4, <1>5, <1>6 DEF ActorInv

\* What the Bystander needs to know of a step of the handler of c.
OnlyMoves(c) ==
    /\ peer' = peer
    /\ \A d \in Conns : d # c => pc'[d] = pc[d] /\ handle'[d] = handle[d]

LEMMA MoverStanding ==
    ASSUME NEW c \in Conns, NEW a \in Actors, OnlyMoves(c),
           Waits(c, a)' <=> Waits(c, a), IsOn(c, a)' <=> IsOn(c, a),
           IsOver(c, a)' <=> IsOver(c, a)
    PROVE  Standing(a)
BY DEF OnlyMoves, Standing, Waits, IsOn, IsOver

\* A step of a handler on its own: neither a mailbox nor an actor changes,
\* and the connection is in no relation to a living actor, or keeps its own.
LEMMA MoverAlone ==
    ASSUME SubscriberInv, NEW c \in Conns, OnlyMoves(c),
           UNCHANGED <<mailbox, subscribers, actor>>,
           \A a \in Actors : is_alive(a) =>
                /\ (Waits(c, a)' <=> Waits(c, a)) /\ (IsOn(c, a)' <=> IsOn(c, a))
                /\ (IsOver(c, a)' <=> IsOver(c, a))
    PROVE  \A a \in Actors : ActorInv(a)'
<1>1. ASSUME NEW a \in Actors
      PROVE  ActorInv(a)'
    <2>1. ActorInv(a) /\ subscribers[a] \subseteq Conns
        BY SubscriberTypes DEF SubscriberInv
    <2>2. is_alive(a) => Standing(a)
        BY MoverStanding
    <2>3. QED
        BY <2>1, <2>2, Bystander DEF OnlyMoves, is_alive
<1>2. QED
    BY <1>1

LEMMA AttachSubscribers ==
    ASSUME SubscriberInv, NEW c \in Conns, NEW m \in MuxIds, attach(c, m)
    PROVE  HandlesKept' /\ \A a \in Actors : ActorInv(a)'
<1> USE SubscriberTypes DEF SubscriberInv
<1>1. /\ pc[c] = "idle" /\ pc'[c] \in {"joining", "spawning"} /\ OnlyMoves(c)
      /\ UNCHANGED <<mailbox, subscribers, actor>>
      /\ pc'[c] = "joining" => handle'[c] \in Actors
    BY RegistryConstantsOK
    DEF attach, join_existing, Live, OnlyMoves, actorVars, RegistryInv, TypeInv, TypeOK
<1>2. HandlesKept'
    BY <1>1 DEF HandlesKept, OnlyMoves
<1>3. \A a \in Actors : ActorInv(a)'
    BY <1>1, MoverAlone DEF Waits, IsOn, IsOver
<1>4. QED
    BY <1>2, <1>3

LEMMA SpawnSubscribers ==
    ASSUME SubscriberInv, NEW c \in Conns, NEW m \in MuxIds, get_or_spawn(c, m)
    PROVE  HandlesKept' /\ \A a \in Actors : ActorInv(a)'
<1> USE SubscriberTypes DEF SubscriberInv
<1>1. CASE /\ Live(m) /\ join_existing(c, m)
           /\ UNCHANGED <<muxes, spawned, actor, subscribers, agent>>
    <2>1. /\ pc[c] = "spawning" /\ pc'[c] = "joining" /\ OnlyMoves(c)
          /\ UNCHANGED <<mailbox, subscribers, actor>> /\ handle'[c] \in Actors
        BY <1>1, RegistryConstantsOK
        DEF get_or_spawn, join_existing, Live, OnlyMoves, RegistryInv, TypeInv, TypeOK
    <2>2. HandlesKept'
        BY <2>1 DEF HandlesKept, OnlyMoves
    <2>3. \A a \in Actors : ActorInv(a)'
        BY <2>1, MoverAlone DEF Waits, IsOn, IsOver
    <2>4. QED
        BY <2>2, <2>3
<1>2. ASSUME NEW n \in Actors, spawn_locked(c, m, n)
      PROVE  HandlesKept' /\ \A a \in Actors : ActorInv(a)'
    <2>1. /\ pc[c] = "spawning" /\ pc'[c] = "attached" /\ handle'[c] = n /\ OnlyMoves(c)
          /\ mailbox' = mailbox
        BY <1>2 DEF get_or_spawn, spawn_locked, OnlyMoves
    <2>2. HandlesKept'
        BY <2>1 DEF HandlesKept, OnlyMoves
    <2>3. actor[n] = "absent" /\ n = Len(spawned) + 1 /\ Len(spawned) \in Nat
        BY <1>2, RegistryConstantsOK
        DEF spawn_locked, RegistryInv, TypeInv, TypeOK, AbsentUnknown
    <2>4. ActorInv(n)'
        <3>1. mailbox'[n] = <<>> /\ subscribers'[n] = {c} /\ is_alive(n)'
            BY <1>2, <2>1, <2>3 DEF spawn_locked, is_alive, ActorInv
        <3>2. \A d \in Conns : IsOn(d, n)' => d = c
            BY <2>1, <2>3, KnownNumbers DEF IsOn, OnlyMoves
        <3>3. IsOn(c, n)'
            BY <2>1 DEF IsOn
        <3>4. QED
            BY <3>1, <3>2, <3>3
            DEF ActorInv, AttachIsAwaited, DetachIsOfASubscriber, OncePerConn,
                OneSubscriberPerPeer, AllAttached
    <2>5. ASSUME NEW a \in Actors, a # n
          PROVE  ActorInv(a)'
        <3>1. Standing(a)
            BY <2>1, <2>5, MoverStanding DEF Waits, IsOn, IsOver
        <3>2. subscribers'[a] = subscribers[a] /\ actor'[a] = actor[a]
            BY <1>2, <2>5 DEF spawn_locked
        <3>3. QED
            BY <2>1, <3>1, <3>2, Bystander DEF OnlyMoves, is_alive
    <2>6. QED
        BY <2>2, <2>4, <2>5
<1>3. CASE spawn_fails(c, m)
    <2>1. /\ pc[c] = "spawning" /\ pc'[c] = "refused" /\ OnlyMoves(c)
          /\ UNCHANGED <<mailbox, subscribers, actor>>
        BY <1>3 DEF get_or_spawn, spawn_fails, OnlyMoves
    <2>2. HandlesKept'
        BY <2>1 DEF HandlesKept, OnlyMoves
    <2>3. \A a \in Actors : ActorInv(a)'
        BY <2>1, MoverAlone DEF Waits, IsOn, IsOver
    <2>4. QED
        BY <2>2, <2>3
<1>4. QED
    BY <1>1, <1>2, <1>3 DEF get_or_spawn

\* An Attach is put into the mailbox.
LEMMA AttachIsQueued ==
    ASSUME NEW a \in Actors, NEW c \in Conns, mailbox[a] \in Seq(Msg),
           mailbox'[a] = Append(mailbox[a], [type |-> "Attach", conn |-> c])
    PROVE  /\ \A i \in 1..Len(mailbox'[a]), d \in Conns, type \in {"Attach", "Detach"} :
                QueuedAt(a, i, type, d)' =>
                    \/ i \in 1..Len(mailbox[a]) /\ QueuedAt(a, i, type, d)
                    \/ i = Len(mailbox[a]) + 1 /\ d = c /\ type = "Attach"
           /\ \A d \in Conns : DetachQueued(d, a) => DetachQueued(d, a)'
           /\ OncePerConn(a) /\ (\A i \in 1..Len(mailbox[a]) : ~QueuedAt(a, i, "Attach", c))
                => OncePerConn(a)'
<1>1. /\ Len(mailbox'[a]) = Len(mailbox[a]) + 1
      /\ Len(mailbox[a]) \in Nat
      /\ \A i \in 1..Len(mailbox[a]) : mailbox'[a][i] = mailbox[a][i]
      /\ mailbox'[a][Len(mailbox[a]) + 1] = [type |-> "Attach", conn |-> c]
    OBVIOUS
<1>2. \A i \in 1..Len(mailbox'[a]), d \in Conns, type \in {"Attach", "Detach"} :
        QueuedAt(a, i, type, d)' =>
            \/ i \in 1..Len(mailbox[a]) /\ QueuedAt(a, i, type, d)
            \/ i = Len(mailbox[a]) + 1 /\ d = c /\ type = "Attach"
    BY <1>1 DEF QueuedAt
<1>3. \A d \in Conns : DetachQueued(d, a) => DetachQueued(d, a)'
    BY <1>1 DEF DetachQueued
<1>4. OncePerConn(a) /\ (\A i \in 1..Len(mailbox[a]) : ~QueuedAt(a, i, "Attach", c))
        => OncePerConn(a)'
    BY <1>1, <1>2 DEF OncePerConn
<1>5. QED
    BY <1>2, <1>3, <1>4

\* A Detach is put into the mailbox.
LEMMA DetachIsQueued ==
    ASSUME NEW a \in Actors, NEW c \in Conns, mailbox[a] \in Seq(Msg),
           mailbox'[a] = Append(mailbox[a], [type |-> "Detach", conn |-> c])
    PROVE  /\ \A i \in 1..Len(mailbox'[a]), d \in Conns, type \in {"Attach", "Detach"} :
                QueuedAt(a, i, type, d)' =>
                    \/ i \in 1..Len(mailbox[a]) /\ QueuedAt(a, i, type, d)
                    \/ i = Len(mailbox[a]) + 1 /\ d = c /\ type = "Detach"
           /\ DetachQueued(c, a)' /\ \A d \in Conns : DetachQueued(d, a) => DetachQueued(d, a)'
           /\ OncePerConn(a) /\ (\A i \in 1..Len(mailbox[a]) : ~QueuedAt(a, i, "Detach", c))
                => OncePerConn(a)'
<1>1. /\ Len(mailbox'[a]) = Len(mailbox[a]) + 1
      /\ Len(mailbox[a]) \in Nat
      /\ \A i \in 1..Len(mailbox[a]) : mailbox'[a][i] = mailbox[a][i]
      /\ mailbox'[a][Len(mailbox[a]) + 1] = [type |-> "Detach", conn |-> c]
    OBVIOUS
<1>2. \A i \in 1..Len(mailbox'[a]), d \in Conns, type \in {"Attach", "Detach"} :
        QueuedAt(a, i, type, d)' =>
            \/ i \in 1..Len(mailbox[a]) /\ QueuedAt(a, i, type, d)
            \/ i = Len(mailbox[a]) + 1 /\ d = c /\ type = "Detach"
    BY <1>1 DEF QueuedAt
<1>3. DetachQueued(c, a)' /\ \A d \in Conns : DetachQueued(d, a) => DetachQueued(d, a)'
    BY <1>1 DEF DetachQueued
<1>4. OncePerConn(a) /\ (\A i \in 1..Len(mailbox[a]) : ~QueuedAt(a, i, "Detach", c))
        => OncePerConn(a)'
    BY <1>1, <1>2 DEF OncePerConn
<1>5. QED
    BY <1>2, <1>3, <1>4

LEMMA TryJoinSubscribers ==
    ASSUME SubscriberInv, NEW c \in Conns, try_join(c)
    PROVE  HandlesKept' /\ \A a \in Actors : ActorInv(a)'
<1> USE SubscriberTypes DEF SubscriberInv
<1>1. PICK h \in Actors : h = handle[c]
    BY DEF try_join, HandlesKept
<1>2. /\ pc[c] = "joining" /\ pc'[c] = "waiting" /\ handle'[c] = h /\ handle[c] = h
      /\ OnlyMoves(c) /\ UNCHANGED <<subscribers, actor>> /\ is_alive(h)
      /\ mailbox' = [mailbox EXCEPT ![h] =
                        Append(mailbox[h], [type |-> "Attach", conn |-> c])]
    BY <1>1 DEF try_join, send, actorVars, OnlyMoves
<1>3. HandlesKept'
    BY <1>2 DEF HandlesKept, OnlyMoves
<1>4. ASSUME NEW a \in Actors, a # h
      PROVE  ActorInv(a)'
    <2>1. Standing(a)
        BY <1>2, <1>4, MoverStanding DEF Waits, IsOn, IsOver
    <2>2. QED
        BY <1>2, <1>4, <2>1, Bystander DEF OnlyMoves, is_alive
<1>5. ActorInv(h)'
    <2>1. /\ mailbox[h] \in Seq(Msg)
          /\ mailbox'[h] = Append(mailbox[h], [type |-> "Attach", conn |-> c])
        BY <1>2
    <2>2. /\ \A i \in 1..Len(mailbox'[h]), d \in Conns, type \in {"Attach", "Detach"} :
                QueuedAt(h, i, type, d)' =>
                    \/ i \in 1..Len(mailbox[h]) /\ QueuedAt(h, i, type, d)
                    \/ i = Len(mailbox[h]) + 1 /\ d = c /\ type = "Attach"
          /\ \A d \in Conns : DetachQueued(d, h) => DetachQueued(d, h)'
          /\ OncePerConn(h) /\ (\A i \in 1..Len(mailbox[h]) : ~QueuedAt(h, i, "Attach", c))
                => OncePerConn(h)'
        BY <2>1, AttachIsQueued
    <2>3. \A i \in 1..Len(mailbox[h]) : ~QueuedAt(h, i, "Attach", c)
        BY <1>2 DEF ActorInv, AttachIsAwaited, Waits
    <2>4. \A d \in Conns :
            /\ Waits(d, h)' <=> Waits(d, h) \/ d = c
            /\ IsOn(d, h)' <=> IsOn(d, h)
            /\ IsOver(d, h)' <=> IsOver(d, h)
        BY <1>2 DEF OnlyMoves, Waits, IsOn, IsOver
    <2>5. AttachIsAwaited(h)' /\ DetachIsOfASubscriber(h)'
        BY <1>2, <2>2, <2>4 DEF ActorInv, AttachIsAwaited, DetachIsOfASubscriber
    <2>6. OncePerConn(h)'
        BY <1>2, <2>2, <2>3 DEF ActorInv
    <2>7. OneSubscriberPerPeer(h)' /\ AllAttached(h)'
        BY <1>2, <2>2, <2>4 DEF ActorInv, OneSubscriberPerPeer, AllAttached, OnlyMoves
    <2>8. QED
        BY <1>2, <2>5, <2>6, <2>7 DEF ActorInv, is_alive
<1>6. QED
    BY <1>3, <1>4, <1>5

LEMMA UnreachableSubscribers ==
    ASSUME SubscriberInv, NEW c \in Conns, actor_unreachable(c)
    PROVE  HandlesKept' /\ \A a \in Actors : ActorInv(a)'
<1> USE SubscriberTypes DEF SubscriberInv
<1>1. /\ pc[c] \in {"joining", "waiting"} /\ pc'[c] = "unreachable" /\ OnlyMoves(c)
      /\ UNCHANGED <<mailbox, subscribers, actor>> /\ ~is_alive(handle[c])
    BY DEF actor_unreachable, OnlyMoves, actorVars
<1>2. HandlesKept'
    BY <1>1 DEF HandlesKept, OnlyMoves
<1>3. \A a \in Actors : ActorInv(a)'
    BY <1>1, MoverAlone DEF Waits, IsOn, IsOver
<1>4. QED
    BY <1>2, <1>3

LEMMA ExitSubscribers ==
    ASSUME SubscriberInv, NEW c \in Conns, ws_handler_exits(c)
    PROVE  HandlesKept' /\ \A a \in Actors : ActorInv(a)'
<1> USE SubscriberTypes DEF SubscriberInv
<1>1. PICK h \in Actors : h = handle[c]
    BY DEF ws_handler_exits, HandlesKept
<1>2. /\ pc[c] = "leaving" /\ pc'[c] = "done" /\ handle' = handle /\ handle[c] = h
      /\ OnlyMoves(c)
      /\ UNCHANGED <<subscribers, actor>>
    BY <1>1 DEF ws_handler_exits, actorVars, OnlyMoves
<1>3. HandlesKept'
    BY <1>2 DEF HandlesKept, OnlyMoves
<1>4. CASE ~is_alive(h) /\ UNCHANGED mailbox
    <2>1. \A a \in Actors : ActorInv(a)'
        BY <1>2, <1>4, MoverAlone DEF Waits, IsOn, IsOver
    <2>2. QED
        BY <1>3, <2>1
<1>5. CASE send(h, [type |-> "Detach", conn |-> c])
    <2>1. /\ is_alive(h)
          /\ mailbox' = [mailbox EXCEPT ![h] =
                            Append(mailbox[h], [type |-> "Detach", conn |-> c])]
        BY <1>5 DEF send
    <2>2. ASSUME NEW a \in Actors, a # h
          PROVE  ActorInv(a)'
        <3>1. Standing(a)
            BY <1>2, <2>2, MoverStanding DEF Waits, IsOn, IsOver
        <3>2. QED
            BY <1>2, <2>1, <2>2, <3>1, Bystander DEF OnlyMoves, is_alive
    <2>3. /\ mailbox[h] \in Seq(Msg)
          /\ mailbox'[h] = Append(mailbox[h], [type |-> "Detach", conn |-> c])
        BY <2>1
    <2>4. /\ \A i \in 1..Len(mailbox'[h]), d \in Conns, type \in {"Attach", "Detach"} :
                QueuedAt(h, i, type, d)' =>
                    \/ i \in 1..Len(mailbox[h]) /\ QueuedAt(h, i, type, d)
                    \/ i = Len(mailbox[h]) + 1 /\ d = c /\ type = "Detach"
          /\ DetachQueued(c, h)' /\ \A d \in Conns : DetachQueued(d, h) => DetachQueued(d, h)'
          /\ OncePerConn(h) /\ (\A i \in 1..Len(mailbox[h]) : ~QueuedAt(h, i, "Detach", c))
                => OncePerConn(h)'
        BY <2>3, DetachIsQueued
    <2>5. \A i \in 1..Len(mailbox[h]) : ~QueuedAt(h, i, "Detach", c)
        BY <1>2, <2>1 DEF ActorInv, DetachIsOfASubscriber, IsOver
    <2>6. \A d \in Conns :
            /\ Waits(d, h)' <=> Waits(d, h)
            /\ IsOn(d, h)' <=> IsOn(d, h) /\ d # c
            /\ IsOver(d, h)' <=> IsOver(d, h) \/ d = c
        BY <1>2 DEF OnlyMoves, Waits, IsOn, IsOver
    <2>7. c \in subscribers[h]
        BY <1>2, <2>1 DEF ActorInv, AllAttached, IsOn
    <2>8. AttachIsAwaited(h)' /\ DetachIsOfASubscriber(h)'
        BY <1>2, <2>1, <2>4, <2>6, <2>7 DEF ActorInv, AttachIsAwaited, DetachIsOfASubscriber
    <2>9. OncePerConn(h)'
        BY <2>1, <2>4, <2>5 DEF ActorInv
    <2>10. OneSubscriberPerPeer(h)' /\ AllAttached(h)'
        BY <1>2, <2>1, <2>4, <2>6 DEF ActorInv, OneSubscriberPerPeer, AllAttached, OnlyMoves
    <2>11. ActorInv(h)'
        BY <1>2, <2>1, <2>8, <2>9, <2>10 DEF ActorInv, is_alive
    <2>12. QED
        BY <1>3, <2>2, <2>11
<1>6. QED
    BY <1>1, <1>4, <1>5 DEF ws_handler_exits

\* One message more for an actor, of no connection, and nothing else.
LEMMA SentSubscribers ==
    ASSUME SubscriberInv, NEW h \in Actors, NEW msg \in Msg,
           msg.type \notin {"Attach", "Detach"}, send(h, msg),
           UNCHANGED <<handlerVars, subscribers, actor>>
    PROVE  HandlesKept' /\ \A a \in Actors : ActorInv(a)'
<1> USE SubscriberTypes DEF SubscriberInv
<1>1. /\ is_alive(h) /\ is_alive(h)'
      /\ mailbox' = [mailbox EXCEPT ![h] = Append(mailbox[h], msg)]
    BY DEF send, is_alive
<1>2. HandlesKept' /\ \A a \in Actors : Standing(a)
    BY DEF HandlesKept, Standing, Waits, IsOn, IsOver, handlerVars
<1>3. ASSUME NEW a \in Actors, a # h
      PROVE  ActorInv(a)'
    BY <1>1, <1>2, <1>3, Bystander DEF handlerVars, is_alive
<1>4. ActorInv(h)'
    BY <1>1, <1>2, OneMoreMessage DEF handlerVars
<1>5. QED
    BY <1>2, <1>3, <1>4

\* A step outside handlers, mailboxes and subscribers, which neither ends nor
\* begins an actor.
LEMMA OutsideSubscribers ==
    ASSUME SubscriberInv, UNCHANGED <<handlerVars, subscribers, mailbox>>,
           \A a \in Actors : is_alive(a)' <=> is_alive(a)
    PROVE  HandlesKept' /\ \A a \in Actors : ActorInv(a)'
<1> USE SubscriberTypes DEF SubscriberInv
<1>1. HandlesKept' /\ \A a \in Actors : Standing(a)
    BY DEF HandlesKept, Standing, Waits, IsOn, IsOver, handlerVars
<1>2. ASSUME NEW a \in Actors
      PROVE  ActorInv(a)'
    BY <1>1, Bystander DEF handlerVars
<1>3. QED
    BY <1>1, <1>2

LEMMA HandlerSubscribers ==
    ASSUME SubscriberInv, NEW c \in Conns, HandlerStep(c)
    PROVE  HandlesKept' /\ \A a \in Actors : ActorInv(a)'
<1>1. CASE client_sends(c)
    <2>1. PICK h \in Actors : h = handle[c]
        BY <1>1 DEF client_sends, SubscriberInv, HandlesKept
    <2>2. /\ send(h, [type |-> "InboundFromSubscriber"])
          /\ UNCHANGED <<handlerVars, subscribers, actor>>
        BY <1>1, <2>1 DEF client_sends, handlerVars, actorVars
    <2>3. QED
        BY <2>2, MsgTypes, SentSubscribers
<1>2. CASE ws_ends(c)
    <2> USE SubscriberTypes DEF SubscriberInv
    <2>1. /\ pc[c] = "attached" /\ pc'[c] = "leaving" /\ handle' = handle /\ OnlyMoves(c)
          /\ UNCHANGED <<mailbox, subscribers, actor>>
        BY <1>2 DEF ws_ends, OnlyMoves, actorVars
    <2>2. HandlesKept'
        BY <2>1 DEF HandlesKept, OnlyMoves
    <2>3. \A a \in Actors : ActorInv(a)'
        BY <2>1, MoverAlone DEF Waits, IsOn, IsOver
    <2>4. QED
        BY <2>2, <2>3
<1>3. QED
    BY <1>1, <1>2, AttachSubscribers, SpawnSubscribers, TryJoinSubscribers,
       UnreachableSubscribers, ExitSubscribers DEF HandlerStep

\* What is left in the mailbox when its first message is taken.
LEMMA Taken ==
    ASSUME NEW a \in Actors, mailbox[a] \in Seq(Msg), mailbox[a] # <<>>,
           mailbox'[a] = Tail(mailbox[a])
    PROVE  /\ 1 \in 1..Len(mailbox[a]) /\ Head(mailbox[a]) = mailbox[a][1]
           /\ \A i \in 1..Len(mailbox'[a]), d \in Conns, type \in {"Attach", "Detach"} :
                QueuedAt(a, i, type, d)' =>
                    i + 1 \in 1..Len(mailbox[a]) /\ QueuedAt(a, i + 1, type, d) /\ i + 1 # 1
           /\ \A d \in Conns : DetachQueued(d, a) =>
                DetachQueued(d, a)' \/ QueuedAt(a, 1, "Detach", d)
           /\ OncePerConn(a) => OncePerConn(a)'
<1>1. /\ Len(mailbox'[a]) = Len(mailbox[a]) - 1
      /\ Len(mailbox[a]) \in Nat /\ 1 \in 1..Len(mailbox[a])
      /\ \A i \in 1..Len(mailbox'[a]) : mailbox'[a][i] = mailbox[a][i + 1]
      /\ Head(mailbox[a]) = mailbox[a][1]
    OBVIOUS
<1>2. \A i \in 1..Len(mailbox'[a]), d \in Conns, type \in {"Attach", "Detach"} :
        QueuedAt(a, i, type, d)' =>
            i + 1 \in 1..Len(mailbox[a]) /\ QueuedAt(a, i + 1, type, d) /\ i + 1 # 1
    BY <1>1 DEF QueuedAt
<1>3. ASSUME NEW d \in Conns, DetachQueued(d, a), ~QueuedAt(a, 1, "Detach", d)
      PROVE  DetachQueued(d, a)'
    <2>1. PICK i \in 1..Len(mailbox[a]) :
            mailbox[a][i].type = "Detach" /\ mailbox[a][i].conn = d
        BY <1>3 DEF DetachQueued
    <2>2. i # 1
        BY <1>3, <2>1 DEF QueuedAt
    <2>3. i - 1 \in 1..Len(mailbox'[a]) /\ mailbox'[a][i - 1] = mailbox[a][i]
        BY <1>1, <2>2
    <2>4. QED
        BY <2>1, <2>3 DEF DetachQueued
<1>4. OncePerConn(a) => OncePerConn(a)'
    BY <1>1, <1>2 DEF OncePerConn
<1>5. QED
    BY <1>1, <1>2, <1>3, <1>4

LEMMA HandleAttachSubscribers ==
    ASSUME SubscriberInv, NEW a \in Actors, run_mux(a), NEW c \in Conns,
           Head(mailbox[a]).type = "Attach", Head(mailbox[a]).conn = c, handle_attach(a, c)
    PROVE  HandlesKept' /\ \A b \in Actors : ActorInv(b)'
<1> USE SubscriberTypes DEF SubscriberInv
<1>1. /\ mailbox[a] # <<>> /\ mailbox' = [mailbox EXCEPT ![a] = Tail(mailbox[a])]
      /\ UNCHANGED <<peer, handle, actor>> /\ is_alive(a) /\ OnlyMoves(c)
      /\ pc'[c] \in {"attached", "refused"}
    BY DEF run_mux, handle_attach, is_alive, OnlyMoves
<1>2. /\ mailbox[a] \in Seq(Msg) /\ mailbox'[a] = Tail(mailbox[a])
      /\ subscribers[a] \subseteq Conns
    BY <1>1
<1>3. QueuedAt(a, 1, "Attach", c) /\ 1 \in 1..Len(mailbox[a])
    BY <1>1, <1>2, Taken DEF QueuedAt
<1>4. pc[c] = "waiting" /\ handle[c] = a
    BY <1>1, <1>3 DEF ActorInv, AttachIsAwaited, Waits
<1>5. HandlesKept'
    BY <1>1, <1>4 DEF HandlesKept, OnlyMoves
<1>6. ASSUME NEW b \in Actors, b # a
      PROVE  ActorInv(b)'
    <2>1. Standing(b)
        BY <1>1, <1>4, <1>6, MoverStanding DEF Waits, IsOn, IsOver
    <2>2. mailbox'[b] = mailbox[b] /\ subscribers'[b] = subscribers[b]
        BY <1>1, <1>6 DEF handle_attach
    <2>3. QED
        BY <1>1, <2>1, <2>2, Bystander DEF is_alive
<1>7. \A i \in 1..Len(mailbox'[a]), d \in Conns, type \in {"Attach", "Detach"} :
        QueuedAt(a, i, type, d)' =>
            i + 1 \in 1..Len(mailbox[a]) /\ QueuedAt(a, i + 1, type, d) /\ i + 1 # 1
    BY <1>1, <1>2, Taken
<1>8. \A i \in 1..Len(mailbox'[a]) : ~QueuedAt(a, i, "Attach", c)'
    BY <1>1, <1>3, <1>7 DEF ActorInv, OncePerConn
<1>9. \A d \in Conns : DetachQueued(d, a) => DetachQueued(d, a)'
    <2>1. \A d \in Conns : ~QueuedAt(a, 1, "Detach", d)
        BY <1>3 DEF QueuedAt
    <2>2. QED
        BY <1>1, <1>2, <2>1, Taken
<1>10. \A d \in Conns :
        /\ Waits(d, a)' <=> Waits(d, a) /\ d # c
        /\ IsOver(d, a)' <=> IsOver(d, a)
        /\ IsOn(d, a)' <=> IsOn(d, a) \/ (d = c /\ pc'[c] = "attached")
    BY <1>1, <1>4 DEF OnlyMoves, Waits, IsOn, IsOver
<1>11. subscribers[a] \subseteq subscribers'[a]
    BY DEF handle_attach
<1>12. AttachIsAwaited(a)' /\ DetachIsOfASubscriber(a)'
    BY <1>1, <1>7, <1>8, <1>10, <1>11
    DEF ActorInv, AttachIsAwaited, DetachIsOfASubscriber
<1>13. OncePerConn(a)'
    BY <1>1, <1>2, Taken DEF ActorInv
<1>14. OneSubscriberPerPeer(a)' /\ AllAttached(a)'
    <2>1. CASE /\ SamePeer(a, c) = {} /\ pc'[c] = "attached"
               /\ subscribers'[a] = subscribers[a] \cup {c}
        <3>1. \A d \in subscribers[a] : peer[d] # peer[c]
            BY <2>1 DEF SamePeer
        <3>2. OneSubscriberPerPeer(a)'
            BY <1>1, <2>1, <3>1 DEF ActorInv, OneSubscriberPerPeer
        <3>3. AllAttached(a)'
            BY <1>1, <1>2, <1>9, <1>10, <2>1 DEF ActorInv, AllAttached
        <3>4. QED
            BY <3>2, <3>3
    <2>2. CASE pc'[c] = "refused" /\ subscribers' = subscribers
        BY <1>1, <1>2, <1>9, <1>10, <2>2 DEF ActorInv, OneSubscriberPerPeer, AllAttached
    <2>3. QED
        BY <2>1, <2>2 DEF handle_attach
<1>15. ActorInv(a)'
    BY <1>1, <1>12, <1>13, <1>14 DEF ActorInv, is_alive
<1>16. QED
    BY <1>5, <1>6, <1>15

LEMMA HandleDetachSubscribers ==
    ASSUME SubscriberInv, NEW a \in Actors, run_mux(a), NEW c \in Conns,
           Head(mailbox[a]).type = "Detach", Head(mailbox[a]).conn = c, handle_detach(a, c)
    PROVE  HandlesKept' /\ \A b \in Actors : ActorInv(b)'
<1> USE SubscriberTypes DEF SubscriberInv
<1>1. /\ mailbox[a] # <<>> /\ mailbox' = [mailbox EXCEPT ![a] = Tail(mailbox[a])]
      /\ UNCHANGED <<pc, peer, handle, actor>> /\ is_alive(a)
      /\ subscribers' = [subscribers EXCEPT ![a] = subscribers[a] \ SamePeer(a, c)]
    BY DEF run_mux, handle_detach, is_alive
<1>2. /\ mailbox[a] \in Seq(Msg) /\ mailbox'[a] = Tail(mailbox[a])
      /\ subscribers[a] \subseteq Conns
    BY <1>1
<1>3. QueuedAt(a, 1, "Detach", c) /\ 1 \in 1..Len(mailbox[a])
    BY <1>1, <1>2, Taken DEF QueuedAt
<1>4. IsOver(c, a) /\ c \in subscribers[a]
    BY <1>1, <1>3 DEF ActorInv, DetachIsOfASubscriber
<1>5. subscribers'[a] = subscribers[a] \ {c}
    <2>1. SamePeer(a, c) = {c}
        BY <1>1, <1>4 DEF SamePeer, ActorInv, OneSubscriberPerPeer
    <2>2. QED
        BY <1>1, <2>1
<1>6. HandlesKept' /\ \A b \in Actors : Standing(b)
    BY <1>1 DEF HandlesKept, Standing, Waits, IsOn, IsOver
<1>7. ASSUME NEW b \in Actors, b # a
      PROVE  ActorInv(b)'
    BY <1>1, <1>6, <1>7, Bystander DEF is_alive
<1>8. \A i \in 1..Len(mailbox'[a]), d \in Conns, type \in {"Attach", "Detach"} :
        QueuedAt(a, i, type, d)' =>
            i + 1 \in 1..Len(mailbox[a]) /\ QueuedAt(a, i + 1, type, d) /\ i + 1 # 1
    BY <1>1, <1>2, Taken
<1>9. \A i \in 1..Len(mailbox'[a]) : ~QueuedAt(a, i, "Detach", c)'
    BY <1>1, <1>3, <1>8 DEF ActorInv, OncePerConn
<1>10. \A d \in Conns : DetachQueued(d, a) => DetachQueued(d, a)' \/ d = c
    <2>1. \A d \in Conns : QueuedAt(a, 1, "Detach", d) => d = c
        BY <1>3 DEF QueuedAt
    <2>2. QED
        BY <1>1, <1>2, <2>1, Taken
<1>11. AttachIsAwaited(a)' /\ DetachIsOfASubscriber(a)'
    BY <1>1, <1>5, <1>6, <1>8, <1>9
    DEF ActorInv, Standing, AttachIsAwaited, DetachIsOfASubscriber
<1>12. OncePerConn(a)'
    BY <1>1, <1>2, Taken DEF ActorInv
<1>13. OneSubscriberPerPeer(a)'
    BY <1>1, <1>5 DEF ActorInv, OneSubscriberPerPeer
<1>14. AllAttached(a)'
    <2>1. ~IsOn(c, a)
        BY <1>4 DEF IsOn, IsOver
    <2>2. QED
        BY <1>1, <1>2, <1>5, <1>6, <1>10, <2>1 DEF ActorInv, Standing, AllAttached
<1>15. ActorInv(a)'
    BY <1>1, <1>11, <1>12, <1>13, <1>14 DEF ActorInv, is_alive
<1>16. QED
    BY <1>6, <1>7, <1>15

LEMMA RunMuxSubscribers ==
    ASSUME SubscriberInv, NEW a \in Actors, run_mux(a)
    PROVE  HandlesKept' /\ \A b \in Actors : ActorInv(b)'
<1> USE SubscriberTypes DEF SubscriberInv
<1> DEFINE msg == Head(mailbox[a])
<1>1. /\ mailbox[a] # <<>> /\ mailbox' = [mailbox EXCEPT ![a] = Tail(mailbox[a])]
      /\ UNCHANGED <<peer, handle>> /\ is_alive(a)
    BY DEF run_mux, is_alive
<1>2. mailbox[a] \in Seq(Msg) /\ msg \in Msg
    BY <1>1
<1>3. CASE msg.type = "Attach"
    <2>1. msg.conn \in Conns
        BY <1>2, <1>3, JoinsHaveConns
    <2>2. handle_attach(a, msg.conn)
        BY <1>3 DEF run_mux
    <2>3. QED
        BY <1>3, <2>1, <2>2, HandleAttachSubscribers
<1>4. CASE msg.type = "Detach"
    <2>1. msg.conn \in Conns
        BY <1>2, <1>4, JoinsHaveConns
    <2>2. handle_detach(a, msg.conn)
        BY <1>4 DEF run_mux
    <2>3. QED
        BY <1>4, <2>1, <2>2, HandleDetachSubscribers
<1>5. CASE msg.type \notin {"Attach", "Detach"}
    <2>1. \/ handle_inbound(a) \/ handle_agent_line(a) \/ handle_stderr_line
          \/ agent_died(a) \/ build_snapshot(a)
        BY <1>5 DEF run_mux
    <2>2. UNCHANGED <<pc, subscribers>>
        BY <2>1
        DEF handle_inbound, handle_agent_line, handle_stderr_line, agent_died,
            build_snapshot, actorVars
    <2>3. /\ actor'[a] \in {"running", "writing", "stopping"}
          /\ \A b \in Actors : b # a => actor'[b] = actor[b]
        BY <1>1, <2>1
        DEF run_mux, handle_inbound, handle_agent_line, handle_stderr_line, agent_died,
            build_snapshot, drain_later, stop, actorVars
    <2>4. HandlesKept' /\ \A b \in Actors : Standing(b)
        BY <1>1, <2>2 DEF HandlesKept, Standing, Waits, IsOn, IsOver
    <2>5. ASSUME NEW b \in Actors, b # a
          PROVE  ActorInv(b)'
        BY <1>1, <2>2, <2>3, <2>4, <2>5, Bystander DEF is_alive
    <2>6. ActorInv(a)'
        BY <1>1, <1>2, <1>5, <2>2, <2>3, <2>4, OneMessageLess DEF is_alive
    <2>7. QED
        BY <2>4, <2>5, <2>6
<1>6. QED
    BY <1>3, <1>4, <1>5

LEMMA ReturnSubscribers ==
    ASSUME SubscriberInv, NEW a \in Actors, returns(a), UNCHANGED handlerVars
    PROVE  HandlesKept' /\ \A b \in Actors : ActorInv(b)'
<1> USE SubscriberTypes DEF SubscriberInv
<1>1. HandlesKept' /\ \A b \in Actors : Standing(b)
    BY DEF HandlesKept, Standing, Waits, IsOn, IsOver, handlerVars
<1>2. ASSUME NEW b \in Actors, b # a
      PROVE  ActorInv(b)'
    <2>1. /\ mailbox'[b] = mailbox[b] /\ subscribers'[b] = subscribers[b]
          /\ actor'[b] = actor[b]
        BY <1>2 DEF returns
    <2>2. QED
        BY <1>1, <2>1, Bystander DEF handlerVars, is_alive
<1>3. ActorInv(a)'
    BY DEF returns, ActorInv, is_alive
<1>4. QED
    BY <1>1, <1>2, <1>3

LEMMA ActorSubscribers ==
    ASSUME SubscriberInv, NEW a \in Actors, ActorStep(a)
    PROVE  HandlesKept' /\ \A b \in Actors : ActorInv(b)'
<1>1. CASE run_mux(a)
    BY <1>1, RunMuxSubscribers
<1>2. CASE stdin_write_fails(a) \/ shutdown(a)
    BY <1>2, ReturnSubscribers DEF stdin_write_fails, shutdown
<1>3. CASE ttl_expires(a) \/ drain_agent_outbox(a) \/ kill(a)
    <2>1. \A b \in Actors : is_alive(b)' <=> is_alive(b)
        BY <1>3, SubscriberTypes
        DEF ttl_expires, drain_agent_outbox, kill, stop, drain_later, is_alive, actorVars,
            SubscriberInv
    <2>2. UNCHANGED <<handlerVars, subscribers, mailbox>>
        BY <1>3 DEF ttl_expires, drain_agent_outbox, kill, actorVars
    <2>3. QED
        BY <2>1, <2>2, OutsideSubscribers
<1>4. QED
    BY <1>1, <1>2, <1>3 DEF ActorStep

LEMMA AgentSubscribers ==
    ASSUME SubscriberInv, NEW a \in Actors, AgentStep(a)
    PROVE  HandlesKept' /\ \A b \in Actors : ActorInv(b)'
<1> USE DEF actorVars
<1>1. CASE agent_reads(a) \/ agent_writes(a) \/ agent_exits(a)
    BY <1>1, OutsideSubscribers DEF agent_reads, agent_writes, agent_exits, is_alive
<1>2. CASE pump_stdout(a)
    BY <1>2, MsgTypes, SentSubscribers DEF pump_stdout
<1>3. CASE pump_eof(a)
    BY <1>3, MsgTypes, SentSubscribers DEF pump_eof
<1>4. CASE pump_stderr(a)
    BY <1>4, MsgTypes, SentSubscribers DEF pump_stderr
<1>5. QED
    BY <1>1, <1>2, <1>3, <1>4 DEF AgentStep

LEMMA SnapshotSubscribers ==
    ASSUME SubscriberInv, SnapshotStep
    PROVE  HandlesKept' /\ \A b \in Actors : ActorInv(b)'
<1> USE DEF actorVars
<1>1. CASE snapshot_begins \/ snapshot_timeout \/ snapshot_ends
    BY <1>1, OutsideSubscribers DEF snapshot_begins, snapshot_timeout, snapshot_ends, is_alive
<1>2. ASSUME NEW a \in Actors, snapshot_asks(a)
      PROVE  HandlesKept' /\ \A b \in Actors : ActorInv(b)'
    <2>1. CASE send(a, [type |-> "Snapshot"])
        BY <1>2, <2>1, MsgTypes, SentSubscribers DEF snapshot_asks
    <2>2. CASE UNCHANGED mailbox
        BY <1>2, <2>2, OutsideSubscribers DEF snapshot_asks, is_alive
    <2>3. QED
        BY <1>2, <2>1, <2>2 DEF snapshot_asks
<1>3. QED
    BY <1>1, <1>2 DEF SnapshotStep

LEMMA InitSubscribers == Init => SubscriberInv
<1> SUFFICES ASSUME Init PROVE SubscriberInv
    OBVIOUS
<1>1. HandlesKept /\ \A a \in Actors : ActorInv(a)
    BY DEF Init, HandlesKept, ActorInv, is_alive
<1>2. QED
    BY <1>1, InitRegistry DEF SubscriberInv

LEMMA NextSubscribers ==
    ASSUME SubscriberInv, [Next]_vars
    PROVE  SubscriberInv'
<1>1. RegistryInv'
    BY NextRegistry DEF SubscriberInv
<1>2. CASE Next
    <2>1. HandlesKept' /\ \A a \in Actors : ActorInv(a)'
        BY <1>2, HandlerSubscribers, ActorSubscribers, AgentSubscribers, SnapshotSubscribers
        DEF Next
    <2>2. QED
        BY <1>1, <2>1 DEF SubscriberInv
<1>3. CASE UNCHANGED vars
    <2>1. HandlesKept' /\ \A a \in Actors : ActorInv(a)'
        BY <1>3, OutsideSubscribers DEF vars, actorVars, is_alive
    <2>2. QED
        BY <1>1, <2>1 DEF SubscriberInv
<1>4. QED
    BY <1>2, <1>3

\* A handler that was told it is attached has its subscriber, and a
\* subscriber has a handler or a Detach on its way: that Detach can only
\* find the subscriber it was sent for, because until it is handled nobody
\* else gets the peer id.
THEOREM AttachedIffSubscribed == Spec => []SubscribersAreAttached
<1>1. SubscriberInv => SubscribersAreAttached
    <2> SUFFICES ASSUME SubscriberInv,
                        NEW a \in Actors, actor[a] \in {"running", "writing"}
                 PROVE  /\ \A c \in Conns :
                            (pc[c] \in {"attached", "leaving"} /\ handle[c] = a)
                                => c \in subscribers[a]
                        /\ \A c \in subscribers[a] :
                            /\ handle[c] = a
                            /\ pc[c] \in {"attached", "leaving"} \/ DetachQueued(c, a)
        BY DEF SubscribersAreAttached
    <2>1. AllAttached(a)
        BY DEF SubscriberInv, ActorInv, is_alive
    <2>2. QED
        BY <2>1 DEF AllAttached, IsOn, IsOver
<1>2. QED
    BY <1>1, InitSubscribers, NextSubscribers, PTL DEF Spec

-----------------------------------------------------------------------------
(***************************************************************************)
(* The list of sessions of the control plane.                              *)
(***************************************************************************)

\* Unread lines and the result are what the agent answered; the second
\* request follows an answer to the first; no agent runs before or after.
ListingInv ==
    /\ ListingTypeOK
    /\ \A k \in 1..Len(out) : out[k] \in Response => out[k].kind = answered[out[k].id]
    /\ task = "session/list" => answered[1] = "ok"
    /\ task \in {"idle", "done"} => lister # "running"
    /\ result \in Response =>
        /\ result.kind = answered[result.id]
        /\ result.kind = "ok" => result.id = 2 /\ answered[1] = "ok"

LEMMA NotAResponse ==
    /\ \A error \in Errors : [kind |-> error, id |-> 0] \notin Response
    /\ \A error \in Errors : [kind |-> error, id |-> 0] \in [kind : {"none"} \cup Errors, id : {0}]
BY DEF Response, Ids, Errors

LEMMA InitListing == ListingInit => ListingInv
BY ControlPlaneConstantsOK
   DEF ListingInit, ListingInv, ListingTypeOK, Response, Ids, Errors, Line

\* A request that fails, or ends with an answer the agent gave.
LEMMA EndsListing ==
    ASSUME ListingInv, task \in {"initialize", "session/list"}, UNCHANGED <<lister, answered>>,
           out' \in Seq(Line), Len(out') <= ListStdout,
           \A k \in 1..Len(out') : out'[k] \in Response => out'[k].kind = answered[out'[k].id],
           \/ \E error \in Errors : fails(error)
           \/ \E res \in Response :
                /\ ends_with(res)
                /\ res.kind = answered[res.id]
                /\ res.kind = "ok" => res.id = 2 /\ answered[1] = "ok"
    PROVE  ListingInv'
<1>1. task' = "stopping" /\ lines' = lines
    BY DEF fails, ends_with
<1>2. /\ result' \in Response \cup [kind : {"none"} \cup Errors, id : {0}]
      /\ result' \in Response =>
            /\ result'.kind = answered[result'.id]
            /\ result'.kind = "ok" => result'.id = 2 /\ answered[1] = "ok"
    BY NotAResponse DEF fails, ends_with
<1>3. ListingTypeOK'
    BY <1>1, <1>2 DEF ListingInv, ListingTypeOK
<1>4. QED
    BY <1>1, <1>2, <1>3 DEF ListingInv

LEMMA NextListing == ListingInv /\ [ListingNext]_listingVars => ListingInv'
<1> SUFFICES ASSUME ListingInv, [ListingNext]_listingVars
             PROVE  ListingInv'
    OBVIOUS
<1>0. /\ out \in Seq(Line) /\ Len(out) <= ListStdout /\ lines \in 0..MaxLines - 1
      /\ MaxLines \in Nat \ {0} /\ ListStdout \in Nat \ {0}
    BY ControlPlaneConstantsOK DEF ListingInv, ListingTypeOK
<1>1. ASSUME list_sessions_control_plane PROVE ListingInv'
    BY <1>1, NotAResponse DEF list_sessions_control_plane, ListingInv, ListingTypeOK, Errors
<1>2. ASSUME request_transient_agent PROVE ListingInv'
    <2>1. /\ out # <<>> /\ out' = Tail(out) /\ UNCHANGED <<lister, answered>>
          /\ task \in {"initialize", "session/list"}
        BY <1>2 DEF request_transient_agent
    <2>2. /\ out' \in Seq(Line) /\ Len(out') <= ListStdout
          /\ Head(out) = out[1] /\ 1 \in 1..Len(out) /\ Head(out) \in Line
          /\ \A k \in 1..Len(out') : k + 1 \in 1..Len(out) /\ out'[k] = out[k + 1]
        BY <1>0, <2>1
    <2>3. \A k \in 1..Len(out') : out'[k] \in Response => out'[k].kind = answered[out'[k].id]
        BY <2>2 DEF ListingInv
    <2>4. Head(out) \in Response => Head(out).kind = answered[Head(out).id]
        BY <2>2 DEF ListingInv
    <2>5. ASSUME \E error \in Errors : fails(error) PROVE ListingInv'
        BY <2>1, <2>2, <2>3, <2>5, EndsListing
    <2>6. ASSUME IsAnswer(Head(out)), ends_with(Head(out)),
                 Head(out).kind = "ok" => task = "session/list"
          PROVE  ListingInv'
        <3>1. Head(out) \in Response
            BY <2>6 DEF IsAnswer
        <3>2. Head(out).kind = "ok" => Head(out).id = 2 /\ answered[1] = "ok"
            BY <2>6 DEF IsAnswer, ListingInv
        <3>3. QED
            BY <2>1, <2>2, <2>3, <2>4, <2>6, <3>1, <3>2, EndsListing
    <2>7. ASSUME IsAnswer(Head(out)), Head(out).kind = "ok", task = "initialize",
                 task' = "session/list", lines' = 0, UNCHANGED result
          PROVE  ListingInv'
        <3>1. answered[1] = "ok"
            BY <2>4, <2>7 DEF IsAnswer
        <3>2. ListingTypeOK'
            BY <1>0, <2>1, <2>2, <2>7 DEF ListingInv, ListingTypeOK
        <3>3. QED
            BY <2>1, <2>3, <2>7, <3>1, <3>2 DEF ListingInv
    <2>8. ASSUME ReadsOn, lines' = lines + 1, UNCHANGED <<task, result>> PROVE ListingInv'
        <3>1. ListingTypeOK'
            BY <1>0, <2>1, <2>2, <2>8 DEF ListingInv, ListingTypeOK, ReadsOn
        <3>2. QED
            BY <2>1, <2>3, <2>8, <3>1 DEF ListingInv
    <2>9. QED
        BY <1>2, <2>5, <2>6, <2>7, <2>8
           DEF request_transient_agent, asks_for_sessions, Errors
<1>3. ASSUME recv_line_fails PROVE ListingInv'
    <2>1. \E error \in Errors : fails(error)
        BY <1>3 DEF recv_line_fails, Errors
    <2>2. UNCHANGED <<lister, answered, out>> /\ task \in {"initialize", "session/list"}
        BY <1>3 DEF recv_line_fails
    <2>3. \A k \in 1..Len(out') : out'[k] \in Response => out'[k].kind = answered[out'[k].id]
        BY <2>2 DEF ListingInv
    <2>4. QED
        BY <1>0, <2>1, <2>2, <2>3, EndsListing
<1>4. ASSUME transient_shutdown PROVE ListingInv'
    BY <1>0, <1>4 DEF transient_shutdown, ListingInv, ListingTypeOK
<1>5. ASSUME lister_writes PROVE ListingInv'
    <2>1. PICK line \in Line :
            /\ out' = Append(out, line)
            /\ \/ line.kind \in {"other", "malformed"} /\ UNCHANGED answered
               \/ /\ line \in Response
                  /\ answered[line.id] = "none"
                  /\ answered' = [answered EXCEPT ![line.id] = line.kind]
        BY <1>5 DEF lister_writes
    <2>2. /\ lister = "running" /\ Len(out) < ListStdout
          /\ UNCHANGED <<task, lines, result, lister>>
        BY <1>5 DEF lister_writes
    <2>3. answered \in [Ids -> {"none", "ok", "AgentJsonRpc"}]
        BY DEF ListingInv, ListingTypeOK
    <2>4. \A res \in Response : res.id \in Ids /\ res.kind \in {"ok", "AgentJsonRpc"}
        BY DEF Response
    \* An id that was answered keeps its answer.
    <2>5. /\ answered' \in [Ids -> {"none", "ok", "AgentJsonRpc"}]
          /\ \A i \in Ids : answered[i] # "none" => answered'[i] = answered[i]
          /\ line \in Response => answered'[line.id] = line.kind
        BY <2>1, <2>3, <2>4
    <2>6. /\ out' \in Seq(Line) /\ Len(out') = Len(out) + 1
          /\ \A k \in 1..Len(out) : out'[k] = out[k]
          /\ out'[Len(out) + 1] = line
        BY <1>0, <2>1
    <2>7. ASSUME NEW k \in 1..Len(out'), out'[k] \in Response
          PROVE  out'[k].kind = answered'[out'[k].id]
        <3>1. CASE k = Len(out) + 1
            BY <2>5, <2>6, <2>7, <3>1
        <3>2. CASE k \in 1..Len(out)
            <4>1. out[k].kind = answered[out[k].id]
                BY <2>6, <2>7, <3>2 DEF ListingInv
            <4>2. QED
                BY <2>4, <2>5, <2>6, <2>7, <3>2, <4>1
        <3>3. QED
            BY <1>0, <2>6, <3>1, <3>2
    <2>8. ListingTypeOK'
        <3>1. Len(out') <= ListStdout
            BY <1>0, <2>2, <2>6
        <3>2. QED
            BY <2>2, <2>5, <2>6, <3>1 DEF ListingInv, ListingTypeOK
    <2>9. task = "session/list" => answered'[1] = "ok"
        BY <2>5 DEF ListingInv, Ids
    <2>10. result \in Response =>
            /\ result.kind = answered'[result.id]
            /\ result.kind = "ok" => result.id = 2 /\ answered'[1] = "ok"
        BY <2>4, <2>5 DEF ListingInv, Ids
    <2>11. QED
        BY <2>2, <2>7, <2>8, <2>9, <2>10 DEF ListingInv
<1>6. ASSUME lister_exits PROVE ListingInv'
    BY <1>6 DEF lister_exits, ListingInv, ListingTypeOK
<1>7. ASSUME UNCHANGED listingVars PROVE ListingInv'
    BY <1>7 DEF listingVars, ListingInv, ListingTypeOK
<1>8. QED
    BY <1>1, <1>2, <1>3, <1>4, <1>5, <1>6, <1>7 DEF ListingNext, ListingTask

\* GET /acp/sessions serves the agent's own answer to session/list, of an
\* agent that took the initialize, or the error the agent gave, and leaves
\* no agent behind: for any limit on the lines that are read and any pipe.
THEOREM SessionsAreTheAgents ==
    ListingInit /\ [][ListingNext]_listingVars => []ListingIsTheAnswer
<1>1. ListingInv => ListingIsTheAnswer
    BY DEF ListingInv, ListingIsTheAnswer
<1>2. QED
    BY <1>1, InitListing, NextListing, PTL

\* The registry with its actors, and the handler of GET /acp/sessions, which
\* shares no state with them, have the types of TypesOK.
THEOREM TypesCorrect == MCSpec => []TypesOK
<1>1. MCInit => TypeInv /\ ListingInv
    BY InitTypes, InitListing DEF MCInit
<1>2. TypeInv /\ ListingInv /\ [MCNext]_<<vars, listingVars>> => (TypeInv /\ ListingInv)'
    BY NextTypes, NextListing DEF MCNext
<1>3. TypeInv /\ ListingInv => TypesOK
    BY DEF TypeInv, ListingInv, TypesOK
<1>4. QED
    BY <1>1, <1>2, <1>3, PTL DEF MCSpec
=============================================================================
