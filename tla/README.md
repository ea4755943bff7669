# Verification of acp-mux

TLA+ models, model-checking configurations and machine-checked proofs for
acp-mux: a multiplexer that lets several WebSocket clients share one ACP agent
subprocess, and its Rooms layer, which adds turns, a prompt queue and segments.
References such as `actor.rs` are to `src/crates/acp-mux/src/mux/actor.rs`;
`PROJECT.json` maps every definition to its lines.

## 1. The system

| Part | State it keeps | Operations | Correct when |
|---|---|---|---|
| mux actor (`mux/actor.rs`) | subscribers by peer id; pending requests by mux id; prompt slot; handshake cache; canonical session id; replay log; in-flight and consumed agent requests; pending permissions | attach, detach, inbound frame, agent line, agent death, TTL, snapshot, wake | each request is answered once and to its own client; one prompt at a time; one reply per agent request; late joiners see the whole log; an abandoned mux stops |
| WebSocket front end (`server.rs`) | one handler task per connection | upgrade, in task, out task, final Detach | every handler ends; a Detach removes the right subscriber |
| mux registry (`mux/registry.rs`) | mux id to handle, under a lock | get or spawn, join, snapshot, shutdown | one live actor per id; a join is acknowledged or fails; nobody waits forever |
| replay store (`replay_store.rs`) | one JSONL file per mux | append, load | an incomplete write costs its own record and the next, no other; sequence numbers go on |
| agent process (`agent/process.rs`) | pipes, pumps, bounded channels | spawn, send, pump, shutdown | no deadlock between stdin and stdout; stderr never blocks the agent |
| client tool policy (`cli.rs`) | a constant | block or broadcast `fs/*`, `terminal/*` | blocked requests never reach a client |
| control plane (`registry.rs`) | a transient agent | initialize, session/list under a time limit | it ends, with that agent's answer |
| Rooms extension (`rooms/src/extension/`) | active turn, queue, per-request data, segments, driving subscriber, session index | hooks called inside the actor's handlers | a turn starts and completes once; queue items are submitted or removed once; the active segment is the canonical session |
| Rooms attach views (`attach_views.rs`, `extension/mod.rs`) | wakes | filter, group and reorder history; send it in phases | a view brackets every turn; a streamed history joins the live frames without gap or repetition |
| framing, command line, presets, protocol constructors | none | parsing and formatting | not modelled |

Interactions.  A WebSocket handler asks the registry for a mux, which spawns
an agent and an actor or sends the living actor an Attach.  From then on the
handler sends the actor its client's frames, and at its end one Detach, through
a mailbox of 256 messages; the actor sends frames back through an unbounded
channel per subscriber.  A pump task turns the agent's stdout lines into
mailbox messages.  The actor handles one message at a time, collects frames for
the agent in an outbox and writes them to its stdin at the end of the handler.
The Rooms extension runs inside the handlers of the actor.

What is hard here is not parallelism inside a handler but time between
handlers: state recorded under a *peer id* that outlives the connection that
caused it, caches filled by answers that cross, agent requests that several
clients, the agent and the end of the turn settle at once, and clean-up that
must happen by whichever road a client leaves.  The hazards in `PROJECT.json`
list these at their lines.

## 2. Modules

| Module | What it is |
|---|---|
| `MuxCore` | the actor (with the no-op extension) and the handlers that feed it |
| `MuxService` | abstract: what a mux promises clients and agent |
| `MuxRegistry` | registry, handlers, actors and agents, and everything one of them waits for |
| `ControlPlane` | `GET /acp/sessions`: the transient agent |
| `Rooms` | the Rooms extension of one room, as hooks inside the actor's handlers |
| `AttachViews` | pure operators: which part of a log a session/attach returns, and in which order |
| `RoomsViews` | `Rooms` with the views of its logs |
| `Filters` | pure operator: what a loop over a sequence keeps of it |
| `ReplayStore` | the replay log and its file, incomplete writes, opening the room again |
| `AttachStreams` | a client that attaches with a history, wakes, live frames; composes `ReplayStore` and `AttachViews` |
| `MCMuxCore`, `MCRooms`, `MCMuxRegistry`, `MCAttachStreams` | constants, symmetries and compositions of the runs |
| `MuxRefinement`, `MCMuxRefinement` | MuxCore implements MuxService: the refinement mapping, and its instances for TLC |
| `MuxCoreProofs`, `MuxRefinementProofs` | proofs about the actor, and that it keeps the promise of MuxService |
| `MuxRegistryProofs` | proofs about the registry and the control plane |
| `RoomsLogProofs` | types of `Rooms`; what each handler logs; order of the queue and of the turns; segments and tags; presence |
| `RoomsTurnProofs` | the end of a turn: steers go first, requests are settled, items completed |
| `RoomsProofs` | slot and queue, sessions, cancels, rotations, orphans, the session list, the views |
| `AttachViewsProofs` | lemmas on the pure operators: what is filtered, grouped and rearranged |
| `AttachStreamsProofs` | the replay file through runs of the room; a streamed history and the live frames |

### MuxCore

Each variable is the field of the same name of `MuxCore` (`actor.rs`), except
`actor` (where run_mux is), `conns` (the handler task of each connection),
`outbound` (all frames sent to a connection, in order), `agent_stdin` (all
frames written to the agent, in order), and three history variables: `sent`
(requests each connection made), `asked` and `open_asks` (the agent's own
requests).  Each action is one handler, with the drain of the outbox included.

The mailbox is not a variable.  Messages of one sender arrive in order and
senders interleave freely, which is what the interleaving of actions says; that
a handler sends its Detach after the frames it has forwarded is the state
"closing" of a connection, in which its requests are still handled.  The
capacity of the mailbox, and with it backpressure, is the subject of
MuxRegistry.

A JSON value is what the properties tell apart: a request is its id and
method, a result its sessionId, a broadcast frame its position in the log.
Malformed frames from clients change no state and are left out; malformed lines
from the agent are broadcast and are in (`raw`).

Clients are assumed to give each request of one connection an id of its own
and to reply only to what they were asked, or under `StrayIds`.  The agent is
assumed to use a request id again only after the earlier use is settled.

### MuxService

Three variables: what became of each request (unsent, waiting, answered,
unheard), who has the turn, what became of each ask.  `MuxRefinement` computes
them from the channels, the prompt slot and the agent's stdin; asks the policy
blocks are not part of the service.  It is checked where peer ids are not taken
up again (`MuxCorePeerReuse` shows that it fails otherwise) and each ask id is
used once.

### MuxRegistry

Here a message only takes room.  `muxes` is the registry's map; `pc`, `peer`
and `handle` are the handler of each connection; `actor`, `subscribers`,
`mailbox` and `agent_outbox` belong to each actor ever spawned; `agent` is its
subprocess with the frames in its stdin and the lines on their way to the
mailbox; `snap` is one request of `GET /debug/sessions`.

Whatever waits is a state of its own, because what may go wrong is that
everybody does: a handler in "joining" waits for room in the mailbox, in
"waiting" for the ack; an actor in "writing" for room in the agent's stdin, in
"stopping" for the agent's end; the agent for room in its stdout.
`MuxRegistry::attach` is two critical sections with other steps between them;
in the first it looks for a living actor, in the second, if there was none, it
looks again and spawns.  A stdout line passes the pipe of the OS, the pump, a
channel and the forwarding task; each keeps the order and waits for the next, so
together they are one buffer.  The agent is external: it reads, writes and exits
as it likes, but `ReadsWhileWriting` says whether one that is stuck on its
stdout goes on reading its stdin.

### ControlPlane

One HTTP request and its own agent.  A line is its kind and id; the agent
writes anything at any time, and an answer under either id once.  What is in
the answer to session/list is opaque.

### Rooms

A hook of `RoomsExtension` runs inside the handler of one actor message, so an
action of `Rooms` is one such handler with everything its hooks do: the frames
broadcast, in order, the next prompt submitted, what the agent is sent.  The
variables are the fields of `RoomsExtension` and, of the actor, only what the
hooks read or change: prompt slot, pending, canonical session, subscribers,
agent_pending and the replay log with the segment tag of each frame.  `conns`
is the connection of each peer (one at a time; several under one peer id are
MuxCore's subject), `agent_stdin` what was written to the agent.  A turn id or
a queue item id of 0 is None; segments are numbered 1, 2, ... and the last one
is active, as `rotate_segment` leaves them.

A request that is answered with an error changes no state and is a stuttering
step, except `session_busy`, which is broadcast.  `on_prompt_settled` is called
for an answer that is an error as for one that is not, so there is one action
for both.  Prompts, steers and metadata are not in the frames; a frame is what
it is about and its turn.  `session_list_index` is what the shared index says of
this room.

`MuxCore` and `Rooms` describe the same handlers from two sides: MuxCore the
delivery to connections, Rooms the log and the extension's state.  They are
checked apart.

### AttachViews and RoomsViews

`replay_history`, `turn_groups`, `newest_turn_first_history` and
`replay_stream_phases` are the functions of `attach_views.rs` on sequences of
log entries.  RoomsViews evaluates them in every state of Rooms, on logs with
queues, cancels, steers and rotations in them that no test would write down.

### ReplayStore

`replay_log`, `next_replay_seq` and `replay_tag` are the actor's; `file` is the
sequence of the writes so far and how far each of them got: to its newline, to
the end of the record without it ("record"), to somewhere in the record
("part"), or to the middle of a character of several bytes ("character").  What
is appended next continues on the same line.  Such a write comes of a full disk,
after which the actor goes on, or of a process killed in the middle of it, which
is the same write and then `hydrate_replay_store`, the next opening of the room.
That the machine loses what the process had written is not modelled, and a write
that fails before its first byte only loses its own frame.  Lines of the agent
that are not JSON are in the log but not in the file.

### AttachStreams

One client and what happens around its session/attach: turns, agent lines, a
permission request, rotations, the client leaving and coming back under its peer
id, the room being opened again.  `attaches` records what each attach asked for,
was told and was sent; `wakes` is what `on_attach` scheduled.  A wake finds the
client by peer id, as the code does.  MCAttachStreams explores incomplete writes
only in rooms nobody has joined: clients see the log, not the file.

## 3. Runs

| Run | Question | Bounds |
|---|---|---|
| `MuxCoreRequests` | routing, prompt slot, no request lost; first writer wins, nothing unanswerable, permissions list; refinement of MuxService | 2 connections, 2 permission requests, 1 client request each, 2 frames to the agent, 1 broadcast |
| `MuxCorePeerReuse` (violation) | routing when a peer id is taken up again | 2 connections, 1 peer id |
| `MuxCoreHandshake` | cache and canonical session agree; subscribers see the log | 2 connections, the second skips the replay; 2 sessions; session/new, load, attach; 2 broadcasts |
| `MuxCoreLoad` (violation) | cache after a session/load without sessionId | results without sessionId |
| `MuxCoreLifecycle` | handlers exit | 3 connections, 2 under one peer id; a blocked ask and a stray reply; fairness |
| `RoomsQueue` | turns, queue order, life of an item, asks end with the turn | 1 peer, 1 ask, queue limit 2 (6 in the code), 11 frames in the log |
| `RoomsSteer` | hard steers and cancels hit their turn; presence and orphans; a streamed replay of any such log is its history | 2 peers, 1 session, 8 frames, no segment frames |
| `RoomsSegments` | segments partition the log and follow the session, with the queue; index; the full view brackets turns | 2 sessions, 1 peer, 7 frames, 3 to the agent |
| `RoomsDropped` (violation) | presence when the agent asks while a socket ends | 2 peers, 1 ask |
| `RoomsUnlisted` (violation) | the index of a room everybody has left | 2 sessions, 1 peer |
| `MuxRegistry` | one agent per mux; registry, actors and connections agree; joins, snapshots, abandoned agents and listings end | 2 connections with the same or distinct peer ids, 1 mux id, 2 actors in turn, room for 1 message, line and frame; listing: 2 lines per answer; fairness |
| `AttachStreams` | sequence numbers, incomplete writes, streamed histories against live frames | 5 sequence numbers, 2 incomplete writes, 2 runs of the room, 1 rotation, 2 connections, 1 attach |

Why the bounds are enough.  The handlers treat peers, ids and sessions
uniformly, and every interaction in the code is between at most two requests
(two prompts, two handshakes, a request and a detach) or between one ask and two
repliers.  Two connections, and two frames to the agent, produce all of
these; the third connection of the lifecycle run lets a peer id be taken up
while somebody else stays.  Eleven frames in the log of RoomsQueue hold three
turns with two items that waited behind the first, or an item removed from a
full queue.  Eight frames in RoomsSteer hold a turn that is cancelled, steered
and followed by its replacement, or a peer that leaves with two items waiting;
seven in RoomsSegments two rotations with prompts waiting.  In MuxRegistry
everything that can be full is full after one message, so that every wait
happens; two actors are one that ends and one that takes its place.  Five
sequence numbers in AttachStreams hold a join, a turn and a frame behind the
attach; with two incomplete writes one can follow the other.
`MaxStdin`, `MaxBroadcasts`, `MaxFrames`, `MaxAsks`, `MaxSeq` and the like are
guards on the actions that would pass them, so that a bounded model stops instead
of losing a step; hence CHECK_DEADLOCK FALSE.  The real system stops too, when
the actor has stopped and all connections are gone.

Conditions.  `CachedSessionIsCanonical` is checked with results that name a
session and without session switches by the agent (those are explored in Rooms):
no document says what the cache should hold after one.  `PresenceInLog` and
`IndexIsCurrent` are checked with an agent that asks nothing, and `RoomsDropped`
shows why.  `RotationRetargets` speaks of the prompts that wait when the session
rotates, as the documents do; one queued after a rotation in the middle of a turn
is addressed to the session the turn began in.  The liveness of MuxRegistry is
checked for agents that read while they write.  With `ReadsWhileWriting = FALSE`
TLC finds the deadlock: a client's first frame fills the agent's stdin and the
actor waits to write the second; the client leaves and its Detach fills the
mailbox; the agent, stuck on a line that waits for the mailbox, does not read.
The actor, its agent and the idle timer then wait forever.

Fairness.  MuxCore, all weak: a connection whose channel the actor dropped
ends, because `ws_out_task` returns when `recv()` is None; a handler whose tasks
have ended exits; a Detach in the mailbox is handled, because the actor's loop
takes every message; the TTL timer, once armed and not disarmed, fires.
MuxRegistry: weak for
the steps of the actor, whose loop takes every message; strong for each sender
into a mailbox, because tokio's channels and mutexes serve those that wait in the
order they came; strong for the TTL timer, which fires unless it is disarmed;
and an agent that can read reads.  ControlPlane: weak for the task of the
request; the agent owes it nothing.  Nobody is made to join, to leave, to send or
to answer.

Violations.  Four runs show where the code departs from what its documents
say; `findings` in `PROJECT.json` quotes both.  (1) Responses follow the peer
id, not the connection.  (2) A session/load result without sessionId wipes the
session id from the cached session/new result.  (3) A peer whose socket ends
just before the agent asks something is dropped by `fanout` without
on_subscriber_detached: nobody is told that it left.  (4) When a room moves to
another session, the entry of the first stays in the session-list index for good.

Divergences without a run of their own:

- `agent_pending` is never cleared, so a request id the agent uses a second time
  is broadcast but its every reply is dropped as a duplicate.  `MuxCoreRequests`
  with `MaxAsks = 2` violates `OpenAsksAnswerable`.
- Of two `initialize` or `session/new` requests forwarded before either is
  answered, the last result stays in the cache, not the first
  (`apply_successful_handshake`).
- `handle_agent_cancel` resolves a request whether or not it was in flight, so a
  withdrawal that crosses a reply broadcasts `agent_request_resolved` twice.
- An agent that dies while clients are attached ends the actor without a detach
  hook: the entry of its room stays in the index.
- `turn_groups` closes a turn at `turn_cancelled`, so the frames between it and
  `turn_complete`, the latter included, go into the prefix that
  newest_turn_first sends ahead of all turns, while
  `docs/design/rooms-namespace.md:133` promises "preserving frame order inside
  each turn".
- The wake of a pending_only attach sends the requests that were open at the
  attach, also one that was resolved in between, though
  `rooms-namespace.md:125` says "Only unresolved"; and the response holds them
  without their request ids, so only the wake makes them answerable.
- The phases of a streamed history go to whoever has the peer id when the wake
  comes (`extension/mod.rs:715`), also to a later connection that asked for
  none.
- A write torn in the middle of a character makes `load_existing` fail as a
  whole, and the room does without a store from then on, though malformed lines
  are meant to be skipped.
- After the room is opened again segment ids start at 1 while the reloaded log
  keeps its tags: `docs/design/rooms.md:207-230` documents that the full view is
  then not what it was.  Sequence numbers of frames that were lost or never
  persisted are used again.

## 4. Proofs

Every safety property that a passing run checks, and the refinement, is a theorem: for
all finite or infinite sets of connections, peers, ids and sessions and every
bound, from the ASSUME of its module.  Some assume more, because it is needed:

| Assumption | Meaning | Theorems | Without it |
|---|---|---|---|
| `PeersApart` | no two connections share a peer id | AnswersReachTheirOwn, EveryRequestIsAnsweredOnce, MuxImplementsService | run `MuxCorePeerReuse` |
| `MaxAsks <= 1` | the agent uses each request id once | OpenAsksStayAnswerable, PermissionListIsExact, MuxImplementsService | section 3: `agent_pending` is never cleared |
| `AgentKeepsItsWord` | session/new is answered with a session, session/load with null, and notifications name no other session | CacheFollowsTheSession | run `MuxCoreLoad` |
| `AskIds = {}` | the agent asks nothing | LogTellsPresence, SessionListIsCurrent | run `RoomsDropped` |

`MuxCoreProofs`:

- `TypeCorrect`: Spec => []TypeOK, one lemma per group of handlers.  No run
  needs to check it any more.
- `PromptSlot`: Spec => []OnePromptAtTheAgent.  The property is not inductive:
  that a forwarded prompt is unanswered exactly when it holds the slot needs to
  know that mux ids on the agent's stdin and in pending are below next_mux_id,
  that no two frames carry the same one, and that the slot's id is pending.
  `PromptInv` adds these.
- `FirstWriterWins`: Spec => []OneReplyPerAsk, also when ids are reused.
  `ReplyInv` adds that an id broadcast to a client is in agent_pending (a client
  replies to what it has been asked, so the branch for unknown ids is never
  taken for one) and that an id with a reply on stdin is Consumed, which nothing
  reverts.
- `OpenAsksStayAnswerable` and `PermissionListIsExact` share `AskInv`: an id that
  was not used is in no map, and a request is Inflight exactly while the agent
  waits for it.  Every step leaves the asks alone, opens one or settles a set of
  them (`AsksSettle`: a reply, the agent's own cancel, the sweep at the end of a
  turn); what each of the three does is shown once.
- `AnswersReachTheirOwn` and `EveryRequestIsAnsweredOnce` share `RequestInv`: an
  entry of pending stands for one frame forwarded to the agent, two frames never
  share a mux id, and a subscriber's request is in balance: it has one answer
  or one entry in pending.  A disconnect purges both sides of the balance.
- `SubscribersMissNothing`: Spec => []SubscribersSeeTheLog, with nothing assumed.
  `LogInv` adds that a frame is numbered by its place in the log.  All steps but
  join and broadcast are shown to tell nobody anything of the log (`Unheard`).
- `CacheFollowsTheSession`: inductive as it stands, since only the answer to a
  handshake moves the canonical session or the cache.

`MuxRefinementProofs`:

- `MuxImplementsService`: Spec => ImplementsMuxService.  The invariants above
  together say what the mapping reads: with them a request state changes only
  where a request is sent, answered or its client leaves, the turn's holder is the
  one frame forwarded under the slot's mux id, and an ask is replied to or
  withdrawn.  Each step of the actor is then taken to a step of the service: a
  request to Send, whether it is forwarded, answered from the cache or refused
  as busy; a detach, a closing or the end of the mux to Leave; the agent's answer
  to Answer, or with the sweep of its asks to EndTurn; an ask to Ask; a reply or
  a cancel to Resolve; everything else to a stutter.

`MuxRegistryProofs`:

- `RegistryTypeCorrect`: type correctness of registry, actors and mailboxes.
- `LivingActorsAreListed`: Spec => []RegistryPointsToTheLiving.  An entry is
  replaced only under the lock, by a handler that found its actor dead there,
  whatever it had seen in the first critical section.
- `OneAgent`: Spec => []OneAgentPerMux.  An agent that runs belongs to an actor
  that has not stopped; a new one is spawned only where none lives.
- `AttachedIffSubscribed`: Spec => []SubscribersAreAttached.  What makes it
  inductive: a peer id that has a subscriber, or whose Detach is still in the
  mailbox, is given to nobody else, so a late Detach finds its own subscriber.
- `SessionsAreTheAgents`: []ListingIsTheAnswer of the control plane, which shares no
  state with the registry.  Inductive (`ListingInv`) with: the lines nobody has
  read yet are what the agent answered; the task asks for the sessions only after
  an initialize that was accepted; no agent runs before or after it.
- `TypesCorrect`: MCSpec => []TypesOK, the types of both side by side.

`RoomsLogProofs`:

- `RoomsTypeCorrect`: Spec => []TypeOK.  Inductive (`TypeInv`) with: a session/load
  names its session; the prompt in flight is in pending and has its request
  data, which on_prompt_settled relies on; the slot is taken exactly while a turn
  is active; and the agent's open requests are finitely many, so that the sweep
  can list them.

After that comes a table: for each handler, which methods the frames have that it
logs and that they are added at the end of the log.  A property that is about
some methods then only concerns the handlers that log one of them.

- `QueueInOrder`: Spec => []QueueIsFifo.  Inductive with: the items that wait
  are in the order of their ids, and their ids are above those of all that were
  submitted.  A steer goes to the front of the queue, but has no item id.
- `TurnsInTurn`: Spec => []TurnsAlternate, for which only the last turn may lack
  its turn_complete, and does so while it is active.

`RoomsTurnProofs`:

- `SteersGoFirst`: Spec => []SteerIsNext.  Inductive with: only the last turn can
  have a hard steer whose prompt still waits; then the turn is active and that
  prompt is the first of the queue.  It has no item id, so it cannot be unqueued.
- `NothingStaysOpen`: Spec => []AsksEndWithTheTurn.  Inductive with: every request
  that was opened is resolved later in the log or still in flight.  The sweep at
  the end of a turn resolves every open one: a sequence without repetitions as
  long as a finite set lists the whole set.
- `LifeOfAnItem`: Spec => []ItemLifecycle.  Inductive (`Lived`, with the invariants
  of QueueInOrder and TurnsInTurn) with: every id handed out is added once, and
  waits or is gone, submitted or removed, once; every submission is completed
  except the one of the active turn, which is the item of the prompt in the
  slot.  Cardinalities appear only at the end, of sets with at most one member.

`RoomsProofs`:

- `QueueNeverStranded`: Spec => []QueueWaitsForTheTurn.  The inductive invariant
  adds that mux ids start at 1, so that a slot just filled is not empty.  The
  argument is a case analysis of what a step can do to queue and slot,
  `QueueStep`: it starts a turn, or frees the slot with nothing waiting, or
  leaves the slot alone and adds to an empty queue only when the slot is taken.
  One lemma shows it of the peers' steps, one of the agent's, and one that a
  rotation, which rewrites the queue, leaves an empty one empty.
- `SegmentFollowsSession`: Spec => []SegmentIsCanonical.  Only
  set_canonical_session_id touches either; it is split by whether the hook is
  called and whether the active segment is of that session already.
- `CancelsHit`: Spec => []CancelHitsItsTurn.  `CancelInv` adds that while a turn is
  active the last prompt on the agent's stdin has its turn and session; it is
  this that a session/cancel, written for the active turn, then finds.  Steps
  are classified by what they write (`StdinStep`) before the frames are counted.
- `LogIsPartitioned`: Spec => []SegmentsPartitionLog.  Inductive with: the tag of
  new frames is the active segment, which opened at most one past the end of the
  log, so that it has room for the frame that comes next.
- `RotationTakesTheQueueAlong`: Spec => RotationRetargets, from SegmentIsCanonical:
  a canonical session that changes is never that of the active segment.
- `OrphansAreAnnounced`: Spec => []OrphansAnnounced.  Inductive because an item
  that is added is newer than every departure in the log; that `orphans` lists
  every item of the peer is shown by `SetInduction`, below.
- `LogTellsPresence`: AskIds = {} => (Spec => []PresenceInLog), and
  `SessionListIsCurrent`: AskIds = {} => (Spec => []IndexIsCurrent).  The
  fanout of a request of the agent forgets subscribers whose socket has ended:
  the only way one goes without on_subscriber_detached.  The run RoomsDropped
  shows what that does to presence.
- `PhasesMakeTheHistory`: Spec => []PhasesAreTheHistory, of any log at all.  A
  rearranged history is `Stable`: filed into groups once more, it gives the same
  sequence.  That holds because what comes first, the prefix, has nothing that
  opens a group, and each group that follows is `Addable`: added to a stable
  history, it leaves a stable one.  `PhasesInOrder` then
  says that the phases are pieces of the history, also for a plain order.
- `FullViewIsBracketed`: Spec => []FullViewBracketsTurns.  A turn that ends was
  started (`TurnsInTurn`); so was one that is cancelled, since only the active
  turn is (`StartInv`).  If its end is in the view, its start passes the filter.

`AttachViewsProofs` has no theorem about states: it shows what `Kept`,
`turn_groups`, `newest_turn_first_history` and `replay_stream_phases` return, for
the two modules that use them.  `KeptPositions` says that a filter keeps the
positions it was given, in order and each once.

`AttachStreamsProofs`:

- `SeqsGrow` and `NoOtherRecordIsLost` share `StoreInv`, and in it `FileInv`: the
  numbers of the records in the file increase; while the file is written, the next
  number is above all of them; and a file that is not written is one that cannot
  be read, and stays so.  An append makes no earlier line a record, it can only
  spoil the last one.
- `StreamsTypeCorrect`, `HistoryMeetsLive` and `PendingIsSent` share `StreamsInv`.
  `WakeInv`: an attach has at most one wake, and what the client was sent followed
  by the phases still outstanding is its history, for a client that has not left.
  `HistoryInv`: a history has nothing above its boundary, nothing twice, and
  under full_lineage everything up to it.  `LiveInv`: what is logged above the
  boundary was sent live, in order.  `PendingInv`: a request open since the
  attach is in its wake or was seen.

They are theorems of StreamsSpec.  The run's MCSpec has the same steps but tears
writes only in rooms nobody has joined, so they hold of it too.

A recursive function (`orphans`, `Kept`, `Filed`) is handled without the library's
induction theorems, which no installed prover can instantiate: the set of lengths
at which the claim fails has no least element (`SetInduction`).

Only model-checked: the five liveness properties (`NobodyLeftBehind`,
`JoinAnswered`, `SnapshotEnds`, `AbandonedAgentEnds`, `ListingEnds`), because
fairness is beyond the prover, and `EmptyRoomIsUnlisted`, which a run refutes.

## 5. Not modelled, and what is left

Not modelled:

- parsing and formatting (`jsonrpc.rs`, `protocol/rooms.rs`), the command line and
  agent presets, start-up: functions without state, well within the reach of unit
  tests;
- `MuxRegistry::shutdown`: no binary calls it;
- the text of the HTTP endpoints and the wrapping of those of acp-mux by Rooms;
- several rooms that share the session-list index: `Rooms` models what one room
  writes into it;
- `mock_acp.rs` and the other test agents.

Left to prove: of what the runs check, nothing but liveness.  Two statements
would go further.  A room's turns and queue promise its clients something that
could be an abstract specification, as MuxService is for the actor, of which
QueueIsFifo, ItemLifecycle and TurnsAlternate are the parts.  And
CacheFollowsTheSession could cover an agent that answers session/load with the id
it was asked to load, if the model said which one that is.
