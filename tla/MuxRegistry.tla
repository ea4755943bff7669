----------------------------- MODULE MuxRegistry -----------------------------
(***************************************************************************)
(* The registry of mux actors (crates/acp-mux/src/mux/registry.rs), the    *)
(* life of an actor from spawn_mux to the end of run_mux (mux/actor.rs),   *)
(* and the agent subprocess behind it (agent/process.rs) with its bounded  *)
(* pipes and channels.                                                     *)
(*                                                                         *)
(* What the actor does with a message is the subject of MuxCore; here a    *)
(* message only takes room in the mailbox and may leave frames for the     *)
(* agent.  Everything that waits for something is a state of its own: a    *)
(* handler for room in the mailbox or for an ack, the actor for room in    *)
(* the agent's stdin, the agent for room in its stdout.                    *)
(*                                                                         *)
(* A stdout line passes the OS pipe, the pump, a channel and the task that *)
(* forwards it to the mailbox; each keeps the order and waits for the      *)
(* next, so together they are one buffer, of STDOUT_CAPACITY lines here.   *)
(* Lines of stderr are dropped by their pump when the channel is full: the *)
(* agent never waits for them, but those kept do go through the mailbox.   *)
(***************************************************************************)
EXTENDS Integers, Sequences, FiniteSets

CONSTANTS
    Conns, Peers, MuxIds,
    PeerChoices,        \* the peer ids connections may ask for
    Actors,             \* 1..n: the actors that may be spawned, in that order
    MUX_QUEUE_CAPACITY, \* messages in a mailbox
    STDOUT_CAPACITY,    \* lines between the agent and the mailbox
    PIPE_CAPACITY,      \* frames in the agent's stdin
    ReadsWhileWriting   \* the agent reads stdin even when its stdout is full

ASSUME RegistryConstantsOK ==
    /\ PeerChoices \subseteq [Conns -> Peers]
    /\ Actors \subseteq Nat \ {0}
    /\ MUX_QUEUE_CAPACITY \in Nat \ {0}
    /\ STDOUT_CAPACITY \in Nat \ {0} /\ PIPE_CAPACITY \in Nat \ {0}
    /\ ReadsWhileWriting \in BOOLEAN

VARIABLES
    muxes,          \* the map: mux id to actor, 0 for no entry
    pc,             \* where the handler of each connection is
    peer,           \* the peer id each connection asked for
    handle,         \* the actor it holds a handle of, 0 for none
    spawned,        \* the mux id of every actor spawned so far, in order
    actor,          \* where run_mux of each actor is
    subscribers,    \* by actor: connections
    mailbox,        \* by actor: messages
    agent_outbox,   \* by actor: frames not yet written
    agent,          \* by actor: its subprocess
    snap            \* one request of GET /debug/sessions

handlerVars == <<pc, peer, handle>>
actorVars == <<actor, subscribers, agent_outbox>>
vars == <<muxes, handlerVars, spawned, actorVars, mailbox, agent, snap>>

Answered == {"attached", "refused", "unreachable"}

Msg ==
    [type : {"Attach", "Detach"}, conn : Conns]
    \cup [type : {"InboundFromSubscriber", "AgentStdoutLine", "AgentStderrLine",
                  "AgentDied", "Snapshot"}]

\* stdin: frames it has not read; stdout: lines on their way to the mailbox;
\* eof: AgentDied is sent.
Agent ==
    [state : {"absent", "running", "exited"}, stdin : Nat, stdout : Nat, eof : BOOLEAN]

\* todo: the actors not asked yet; at: the one it waits for.
Snapshot ==
    [pc : {"idle", "sending", "waiting", "done"}, todo : SUBSET Actors, at : Actors \cup {0}]

NoAgent == [state |-> "absent", stdin |-> 0, stdout |-> 0, eof |-> FALSE]

TypeOK ==
    /\ muxes \in [MuxIds -> Actors \cup {0}]
    /\ pc \in [Conns -> {"idle", "spawning", "joining", "waiting", "leaving", "done"}
                           \cup Answered]
    /\ peer \in [Conns -> Peers]
    /\ handle \in [Conns -> Actors \cup {0}]
    /\ spawned \in Seq(MuxIds)
    /\ actor \in [Actors -> {"absent", "running", "writing", "stopping", "gone"}]
    /\ subscribers \in [Actors -> SUBSET Conns]
    /\ mailbox \in [Actors -> Seq(Msg)]
    /\ agent_outbox \in [Actors -> Nat]
    /\ agent \in [Actors -> Agent]
    /\ snap \in Snapshot

Init ==
    /\ muxes = [m \in MuxIds |-> 0]
    /\ pc = [c \in Conns |-> "idle"]
    /\ peer \in PeerChoices
    /\ handle = [c \in Conns |-> 0]
    /\ spawned = <<>>
    /\ actor = [a \in Actors |-> "absent"]
    /\ subscribers = [a \in Actors |-> {}]
    /\ mailbox = [a \in Actors |-> <<>>]
    /\ agent_outbox = [a \in Actors |-> 0]
    /\ agent = [a \in Actors |-> NoAgent]
    /\ snap = [pc |-> "idle", todo |-> {}, at |-> 0]

-----------------------------------------------------------------------------
(* Handles.  A handle is alive until run_mux returns and drops rx, also   *)
(* while it waits for its agent to end.                                   *)

\* Mutant: a handle is dead as soon as the actor stops.
is_alive_until_stopping(a) == actor[a] \in {"running", "writing"}

is_alive(a) == actor[a] \in {"running", "writing", "stopping"}

\* Whoever sends waits for room; sending to an actor that is gone fails.
HasRoom(a) == Len(mailbox[a]) < MUX_QUEUE_CAPACITY

send(a, msg) ==
    /\ is_alive(a) /\ HasRoom(a)
    /\ mailbox' = [mailbox EXCEPT ![a] = Append(@, msg)]

-----------------------------------------------------------------------------
(* MuxRegistry::attach: two critical sections under the lock, with any    *)
(* number of other handlers' steps between them.                          *)

Live(m) == muxes[m] # 0 /\ is_alive(muxes[m])

join_existing(c, m) ==
    /\ pc' = [pc EXCEPT ![c] = "joining"]
    /\ handle' = [handle EXCEPT ![c] = muxes[m]]

attach(c, m) ==
    /\ pc[c] = "idle"
    /\ \/ /\ Live(m)
          /\ join_existing(c, m)
          /\ UNCHANGED muxes
       \/ /\ ~Live(m)
          /\ muxes' = [muxes EXCEPT ![m] = 0]
          /\ pc' = [pc EXCEPT ![c] = "spawning"]
          /\ UNCHANGED handle
    /\ UNCHANGED <<peer, spawned, actorVars, mailbox, agent, snap>>

\* The initial subscriber is in place before the actor takes a message.
spawn_locked(c, m, a) ==
    /\ a = Len(spawned) + 1
    /\ spawned' = Append(spawned, m)
    /\ muxes' = [muxes EXCEPT ![m] = a]
    /\ pc' = [pc EXCEPT ![c] = "attached"]
    /\ handle' = [handle EXCEPT ![c] = a]
    /\ actor' = [actor EXCEPT ![a] = "running"]
    /\ subscribers' = [subscribers EXCEPT ![a] = {c}]
    /\ agent' = [agent EXCEPT ![a].state = "running"]

spawn_fails(c, m) ==
    /\ muxes' = [muxes EXCEPT ![m] = 0]
    /\ pc' = [pc EXCEPT ![c] = "refused"]
    /\ UNCHANGED <<handle, spawned, actor, subscribers, agent>>

\* Mutant: the entry is not looked at again under the second lock.
spawn_unchecked(c, m) ==
    /\ pc[c] = "spawning"
    /\ \E a \in Actors : spawn_locked(c, m, a)
    /\ UNCHANGED <<peer, agent_outbox, mailbox, snap>>

get_or_spawn(c, m) ==
    /\ pc[c] = "spawning"
    /\ \/ /\ Live(m)
          /\ join_existing(c, m)
          /\ UNCHANGED <<muxes, spawned, actor, subscribers, agent>>
       \/ /\ ~Live(m)
          /\ \/ \E a \in Actors : spawn_locked(c, m, a)
             \/ spawn_fails(c, m)
    /\ UNCHANGED <<peer, agent_outbox, mailbox, snap>>

\* try_join: Attach with an ack.
try_join(c) ==
    /\ pc[c] = "joining"
    /\ send(handle[c], [type |-> "Attach", conn |-> c])
    /\ pc' = [pc EXCEPT ![c] = "waiting"]
    /\ UNCHANGED <<muxes, peer, handle, spawned, actorVars, agent, snap>>

\* Mutant: an ack that is dropped goes unnoticed.
send_unreachable(c) ==
    /\ pc[c] = "joining" /\ ~is_alive(handle[c])
    /\ pc' = [pc EXCEPT ![c] = "unreachable"]
    /\ UNCHANGED <<muxes, peer, handle, spawned, actorVars, mailbox, agent, snap>>

\* The send fails, or the ack is dropped with the mailbox it was in.
actor_unreachable(c) ==
    /\ pc[c] \in {"joining", "waiting"}
    /\ ~is_alive(handle[c])
    /\ pc' = [pc EXCEPT ![c] = "unreachable"]
    /\ UNCHANGED <<muxes, peer, handle, spawned, actorVars, mailbox, agent, snap>>

-----------------------------------------------------------------------------
(* The handler of a connection that is attached.                          *)

client_sends(c) ==
    /\ pc[c] = "attached"
    /\ send(handle[c], [type |-> "InboundFromSubscriber"])
    /\ UNCHANGED <<muxes, pc, peer, handle, spawned, actorVars, agent, snap>>

\* The client closes, or the actor has closed the outbound channel.
ws_ends(c) ==
    /\ pc[c] = "attached"
    /\ pc' = [pc EXCEPT ![c] = "leaving"]
    /\ UNCHANGED <<muxes, peer, handle, spawned, actorVars, mailbox, agent, snap>>

ws_handler_exits(c) ==
    /\ pc[c] = "leaving"
    /\ \/ send(handle[c], [type |-> "Detach", conn |-> c])
       \/ ~is_alive(handle[c]) /\ UNCHANGED mailbox
    /\ pc' = [pc EXCEPT ![c] = "done"]
    /\ UNCHANGED <<muxes, peer, handle, spawned, actorVars, agent, snap>>

-----------------------------------------------------------------------------
(* run_mux.                                                               *)

\* AgentProcess::shutdown closes stdin and waits for the child.
stop(a) == actor' = [actor EXCEPT ![a] = "stopping"]

\* Mutant: the last frame does not end the writing.
drain_later_forever(a, n) ==
    /\ agent_outbox' = [agent_outbox EXCEPT ![a] = n]
    /\ actor' = [actor EXCEPT ![a] = "writing"]

\* A handler leaves n frames for the agent, which are written before the
\* next message is taken.
drain_later(a, n) ==
    /\ agent_outbox' = [agent_outbox EXCEPT ![a] = n]
    /\ actor' = [actor EXCEPT ![a] = IF n = 0 THEN "running" ELSE "writing"]

SamePeer(a, c) == {d \in subscribers[a] : peer[d] = peer[c]}

\* Mutant: a new connection takes the peer id over.
handle_attach_takes_over(a, c) ==
    /\ subscribers' = [subscribers EXCEPT ![a] = (@ \ SamePeer(a, c)) \cup {c}]
    /\ pc' = [pc EXCEPT ![c] = "attached"]
    /\ UNCHANGED <<actor, agent_outbox, agent, snap>>

handle_attach(a, c) ==
    /\ \/ /\ SamePeer(a, c) = {}
          /\ subscribers' = [subscribers EXCEPT ![a] = @ \cup {c}]
          /\ pc' = [pc EXCEPT ![c] = "attached"]
       \/ /\ SamePeer(a, c) # {}
          /\ pc' = [pc EXCEPT ![c] = "refused"]
          /\ UNCHANGED subscribers
    /\ UNCHANGED <<actor, agent_outbox, agent, snap>>

handle_detach(a, c) ==
    /\ subscribers' = [subscribers EXCEPT ![a] = @ \ SamePeer(a, c)]
    /\ UNCHANGED <<pc, actor, agent_outbox, agent, snap>>

\* A frame to be forwarded, or one answered here.
handle_inbound(a) ==
    /\ \E n \in 0..1 : drain_later(a, n)
    /\ UNCHANGED <<pc, subscribers, agent, snap>>

\* A line for the clients, or a request the policy blocks, answered here.
handle_agent_line(a) ==
    /\ \E n \in 0..1 : drain_later(a, n)
    /\ UNCHANGED <<pc, subscribers, agent, snap>>

handle_stderr_line == UNCHANGED <<pc, actorVars, agent, snap>>

agent_died(a) ==
    /\ stop(a)
    /\ UNCHANGED <<pc, subscribers, agent_outbox, agent, snap>>

\* An ack nobody waits for any more is dropped.
build_snapshot(a) ==
    /\ snap' = IF snap.pc = "waiting" /\ snap.at = a
               THEN [snap EXCEPT !.pc = "sending", !.at = 0]
               ELSE snap
    /\ UNCHANGED <<pc, actorVars, agent>>

run_mux(a) ==
    /\ actor[a] = "running" /\ mailbox[a] # <<>>
    /\ LET msg == Head(mailbox[a]) IN
        \/ msg.type = "Attach" /\ handle_attach(a, msg.conn)
        \/ msg.type = "Detach" /\ handle_detach(a, msg.conn)
        \/ msg.type = "InboundFromSubscriber" /\ handle_inbound(a)
        \/ msg.type = "AgentStdoutLine" /\ handle_agent_line(a)
        \/ msg.type = "AgentStderrLine" /\ handle_stderr_line
        \/ msg.type = "AgentDied" /\ agent_died(a)
        \/ msg.type = "Snapshot" /\ build_snapshot(a)
    /\ mailbox' = [mailbox EXCEPT ![a] = Tail(@)]
    /\ UNCHANGED <<muxes, peer, handle, spawned>>

\* The timer runs exactly while nobody is subscribed.
ttl_expires(a) ==
    /\ actor[a] = "running" /\ subscribers[a] = {}
    /\ stop(a)
    /\ UNCHANGED <<muxes, handlerVars, spawned, subscribers, mailbox, agent_outbox, agent, snap>>

\* run_mux returns: rx and every ack in it are dropped, the outbound channels
\* of the subscribers, and what is left in the pipes with their tasks.
returns(a) ==
    /\ actor' = [actor EXCEPT ![a] = "gone"]
    /\ mailbox' = [mailbox EXCEPT ![a] = <<>>]
    /\ subscribers' = [subscribers EXCEPT ![a] = {}]
    /\ agent_outbox' = [agent_outbox EXCEPT ![a] = 0]
    /\ agent' = [agent EXCEPT ![a] = [NoAgent EXCEPT !.state = "exited"]]

\* AgentProcess::send, for one frame of the outbox.
drain_agent_outbox(a) ==
    /\ actor[a] = "writing"
    /\ agent[a].state = "running" /\ agent[a].stdin < PIPE_CAPACITY
    /\ agent' = [agent EXCEPT ![a].stdin = @ + 1]
    /\ drain_later(a, agent_outbox[a] - 1)
    /\ UNCHANGED <<muxes, handlerVars, spawned, subscribers, mailbox, snap>>

\* The write fails: return without shutdown; kill_on_drop takes the agent.
stdin_write_fails(a) ==
    /\ actor[a] = "writing" /\ agent[a].state = "exited"
    /\ returns(a)
    /\ UNCHANGED <<muxes, handlerVars, spawned, snap>>

\* Mutant: the wait for the child has no end.
kill_never(a) == FALSE /\ UNCHANGED vars

\* The end of AgentProcess::shutdown: the child has exited, by itself or
\* because it was killed after SHUTDOWN_TIMEOUT.
kill(a) ==
    /\ actor[a] = "stopping" /\ agent[a].state = "running"
    /\ agent' = [agent EXCEPT ![a].state = "exited", ![a].stdin = 0]
    /\ UNCHANGED <<muxes, handlerVars, spawned, actorVars, mailbox, snap>>

shutdown(a) ==
    /\ actor[a] = "stopping" /\ agent[a].state = "exited"
    /\ returns(a)
    /\ UNCHANGED <<muxes, handlerVars, spawned, snap>>

-----------------------------------------------------------------------------
(* The agent, and the tasks between its stdout and the mailbox.           *)

agent_reads(a) ==
    /\ agent[a].state = "running" /\ agent[a].stdin > 0
    /\ ReadsWhileWriting \/ agent[a].stdout < STDOUT_CAPACITY
    /\ agent' = [agent EXCEPT ![a].stdin = @ - 1]
    /\ UNCHANGED <<muxes, handlerVars, spawned, actorVars, mailbox, snap>>

\* An answer, a request or a notification.
agent_writes(a) ==
    /\ agent[a].state = "running"
    /\ agent[a].stdout < STDOUT_CAPACITY
    /\ agent' = [agent EXCEPT ![a].stdout = @ + 1]
    /\ UNCHANGED <<muxes, handlerVars, spawned, actorVars, mailbox, snap>>

\* By itself, or because its stdin was closed.
agent_exits(a) ==
    /\ agent[a].state = "running"
    /\ agent' = [agent EXCEPT ![a].state = "exited", ![a].stdin = 0]
    /\ UNCHANGED <<muxes, handlerVars, spawned, actorVars, mailbox, snap>>

pump_stdout(a) ==
    /\ agent[a].stdout > 0
    /\ send(a, [type |-> "AgentStdoutLine"])
    /\ agent' = [agent EXCEPT ![a].stdout = @ - 1]
    /\ UNCHANGED <<muxes, handlerVars, spawned, actorVars, snap>>

pump_eof(a) ==
    /\ agent[a].state = "exited" /\ agent[a].stdout = 0 /\ ~agent[a].eof
    /\ send(a, [type |-> "AgentDied"])
    /\ agent' = [agent EXCEPT ![a].eof = TRUE]
    /\ UNCHANGED <<muxes, handlerVars, spawned, actorVars, snap>>

\* A line of stderr that is not dropped for want of room.
pump_stderr(a) ==
    /\ agent[a].state = "running"
    /\ send(a, [type |-> "AgentStderrLine"])
    /\ UNCHANGED <<muxes, handlerVars, spawned, actorVars, agent, snap>>

-----------------------------------------------------------------------------
(* MuxRegistry::snapshot asks the actors alive at the start one by one.   *)

snapshot_begins ==
    /\ snap.pc = "idle"
    /\ snap' = [snap EXCEPT !.pc = "sending",
                            !.todo = {muxes[m] : m \in {n \in MuxIds : Live(n)}}]
    /\ UNCHANGED <<muxes, handlerVars, spawned, actorVars, mailbox, agent>>

\* Mutant: an actor that is gone is waited for.
snapshot_insists(a) ==
    /\ snap.pc = "sending" /\ a \in snap.todo
    /\ send(a, [type |-> "Snapshot"])
    /\ snap' = [pc |-> "waiting", todo |-> snap.todo \ {a}, at |-> a]
    /\ UNCHANGED <<muxes, handlerVars, spawned, actorVars, agent>>

snapshot_asks(a) ==
    /\ snap.pc = "sending" /\ a \in snap.todo
    /\ \/ /\ send(a, [type |-> "Snapshot"])
          /\ snap' = [pc |-> "waiting", todo |-> snap.todo \ {a}, at |-> a]
       \/ /\ ~is_alive(a)
          /\ snap' = [snap EXCEPT !.todo = @ \ {a}]
          /\ UNCHANGED mailbox
    /\ UNCHANGED <<muxes, handlerVars, spawned, actorVars, agent>>

\* After 200 ms, or at once when the actor is gone.
snapshot_timeout ==
    /\ snap.pc = "waiting"
    /\ snap' = [snap EXCEPT !.pc = "sending", !.at = 0]
    /\ UNCHANGED <<muxes, handlerVars, spawned, actorVars, mailbox, agent>>

snapshot_ends ==
    /\ snap.pc = "sending" /\ snap.todo = {}
    /\ snap' = [snap EXCEPT !.pc = "done"]
    /\ UNCHANGED <<muxes, handlerVars, spawned, actorVars, mailbox, agent>>

-----------------------------------------------------------------------------
HandlerStep(c) ==
    \/ \E m \in MuxIds : attach(c, m) \/ get_or_spawn(c, m)
    \/ try_join(c) \/ actor_unreachable(c)
    \/ client_sends(c) \/ ws_ends(c) \/ ws_handler_exits(c)

ActorStep(a) ==
    \/ run_mux(a) \/ ttl_expires(a)
    \/ drain_agent_outbox(a) \/ stdin_write_fails(a)
    \/ kill(a) \/ shutdown(a)

AgentStep(a) ==
    \/ agent_reads(a) \/ agent_writes(a) \/ agent_exits(a)
    \/ pump_stdout(a) \/ pump_eof(a) \/ pump_stderr(a)

SnapshotStep ==
    \/ snapshot_begins \/ snapshot_timeout \/ snapshot_ends
    \/ \E a \in Actors : snapshot_asks(a)

Next ==
    \/ \E c \in Conns : HandlerStep(c)
    \/ \E a \in Actors : ActorStep(a) \/ AgentStep(a)
    \/ SnapshotStep

Spec == Init /\ [][Next]_vars

-----------------------------------------------------------------------------
(* Fairness.  A task that can run is polled, tokio's mutex and channels   *)
(* are first come first served, and the timers fire.  Nothing is said of  *)
(* clients (they need not send, leave or join), of what the agent writes  *)
(* of its own accord or when it exits, or of stderr; but an agent that    *)
(* can read reads, which is ReadsWhileWriting when its stdout is full.    *)

HandlerTask(c) ==
    \/ \E m \in MuxIds : get_or_spawn(c, m)
    \/ try_join(c) \/ actor_unreachable(c) \/ ws_handler_exits(c)

ActorTask(a) ==
    \/ run_mux(a) \/ drain_agent_outbox(a) \/ stdin_write_fails(a)
    \/ kill(a) \/ shutdown(a)

SnapshotTask ==
    \/ snapshot_timeout \/ snapshot_ends
    \/ \E a \in Actors : snapshot_asks(a)

Fairness ==
    /\ \A c \in Conns : SF_vars(HandlerTask(c))
    /\ \A a \in Actors :
        /\ WF_vars(ActorTask(a)) /\ SF_vars(ttl_expires(a))
        /\ SF_vars(pump_stdout(a) \/ pump_eof(a)) /\ WF_vars(agent_reads(a))
    /\ SF_vars(SnapshotTask)

-----------------------------------------------------------------------------
(* Properties.                                                            *)

\* At any time at most one agent subprocess runs for a mux id, however joins,
\* the TTL, the agent's death and new spawns interleave (acp-mux/README.md:46).
OneAgentPerMux ==
    \A a, b \in Actors :
        (agent[a].state = "running" /\ agent[b].state = "running"
            /\ spawned[a] = spawned[b]) => a = b

\* No actor that still takes messages is lost from the registry: whoever asks
\* for its mux id gets its handle, and never a second actor.
RegistryPointsToTheLiving ==
    \A a \in Actors : is_alive(a) => muxes[spawned[a]] = a

DetachQueued(c, a) ==
    \E i \in 1..Len(mailbox[a]) :
        mailbox[a][i].type = "Detach" /\ mailbox[a][i].conn = c

\* Subscribers and connections agree, as long as the actor takes messages: a
\* handler that was told it is attached has its subscriber, which a late
\* Detach of an earlier connection with its peer id never removes; and no
\* subscriber outlives its handler by more than the Detach in the mailbox, so
\* none keeps the TTL from running.
SubscribersAreAttached ==
    \A a \in Actors : actor[a] \in {"running", "writing"} =>
        /\ \A c \in Conns :
            (pc[c] \in {"attached", "leaving"} /\ handle[c] = a) => c \in subscribers[a]
        /\ \A c \in subscribers[a] :
            handle[c] = a /\ (pc[c] \in {"attached", "leaving"} \/ DetachQueued(c, a))

\* A client that asks for a mux is answered: attached, refused, or told that
\* the mux is unreachable, also when it joins while the TTL expires, while the
\* agent is being stopped, or behind a full mailbox.
JoinAnswered ==
    \A c \in Conns :
        pc[c] \in {"spawning", "joining", "waiting"} ~>
            pc[c] \in Answered \cup {"leaving", "done"}

\* GET /debug/sessions ends, though its send has no timeout of its own.
SnapshotEnds == snap.pc # "idle" ~> snap.pc = "done"

\* Once every connection that held a handle of an actor is over and no other
\* comes, its agent does not stay behind: the TTL, the agent's own death or a
\* failed write end the actor, and the agent with it.
Held(a) == \E c \in Conns :
    handle[c] = a /\ pc[c] \in {"joining", "waiting", "attached", "leaving"}

AbandonedAgentEnds ==
    \A a \in Actors :
        agent[a].state = "running" /\ ~Held(a) ~> agent[a].state = "exited" \/ Held(a)
=============================================================================
