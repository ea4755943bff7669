----------------------------- MODULE ControlPlane -----------------------------
(***************************************************************************)
(* GET /acp/sessions: MuxRegistry::list_sessions_control_plane asks an     *)
(* agent of its own, started for this one request, for its sessions: an    *)
(* initialize with id 1, then a session/list with id 2, then a shutdown    *)
(* whatever came of them.  crates/acp-mux/src/mux/registry.rs.             *)
(***************************************************************************)
EXTENDS Integers, Sequences

CONSTANTS
    MaxLines,       \* lines read in wait of one answer (128 in the code)
    ListStdout      \* lines between the agent and the reader

ASSUME ControlPlaneConstantsOK == MaxLines \in Nat \ {0} /\ ListStdout \in Nat \ {0}

VARIABLES
    task,       \* where the handler of the HTTP request is
    lines,      \* lines read since the last request
    result,     \* what it will answer with
    lister,     \* the transient agent
    answered,   \* by id: how it answered
    out         \* its lines, not yet read

listingVars == <<task, lines, result, lister, answered, out>>

Ids == {1, 2}
Errors == {"AgentTimeout", "AgentEof", "AgentProcess", "Protocol"}
Response == [kind : {"ok", "AgentJsonRpc"}, id : Ids]
Line == Response \cup [kind : {"other", "malformed"}, id : {0}]

ListingTypeOK ==
    /\ task \in {"idle", "initialize", "session/list", "stopping", "done"}
    /\ lines \in 0..MaxLines - 1
    /\ result \in Response \cup [kind : {"none"} \cup Errors, id : {0}]
    /\ lister \in {"absent", "running", "exited"}
    /\ answered \in [Ids -> {"none", "ok", "AgentJsonRpc"}]
    /\ out \in Seq(Line) /\ Len(out) <= ListStdout

ListingInit ==
    /\ task = "idle" /\ lines = 0 /\ result = [kind |-> "none", id |-> 0] /\ lister = "absent"
    /\ answered = [i \in Ids |-> "none"] /\ out = <<>>

\* Mutant: the id is not compared.
IsAnyAnswer(line) == line \in Response

\* A response under the id of the request that waits.
IsAnswer(line) ==
    /\ line \in Response
    /\ line.id = IF task = "initialize" THEN 1 ELSE 2

ReadsOn == lines + 1 < MaxLines

-----------------------------------------------------------------------------
(* The request.                                                           *)

\* The first request fits the pipe, whatever the agent does.
list_sessions_control_plane ==
    /\ task = "idle"
    /\ \/ /\ lister' = "running"
          /\ task' = "initialize"
          /\ UNCHANGED result
       \/ /\ task' = "done" /\ result' = [kind |-> "AgentProcess", id |-> 0]
          /\ UNCHANGED lister
    /\ UNCHANGED <<lines, answered, out>>

ends_with(res) ==
    /\ task' = "stopping" /\ result' = res
    /\ UNCHANGED lines

fails(error) == ends_with([kind |-> error, id |-> 0])

\* The answer to initialize: ask for the sessions, if stdin is still open.
asks_for_sessions ==
    \/ /\ lister = "running"
       /\ task' = "session/list" /\ lines' = 0
       /\ UNCHANGED result
    \/ lister = "exited" /\ fails("AgentProcess")

request_transient_agent ==
    /\ task \in {"initialize", "session/list"} /\ out # <<>>
    /\ out' = Tail(out)
    /\ LET line == Head(out) IN
       \/ line.kind = "malformed" /\ fails("Protocol")
       \/ /\ IsAnswer(line)
          /\ \/ line.kind = "AgentJsonRpc" /\ ends_with(line)
             \/ line.kind = "ok" /\ task = "initialize" /\ asks_for_sessions
             \/ line.kind = "ok" /\ task = "session/list" /\ ends_with(line)
       \/ /\ line.kind # "malformed" /\ ~IsAnswer(line)
          /\ \/ ReadsOn /\ lines' = lines + 1 /\ UNCHANGED <<task, result>>
             \/ ~ReadsOn /\ fails("AgentTimeout")
    /\ UNCHANGED <<lister, answered>>

\* Mutant: no time limit.
recv_line_fails_at_eof ==
    /\ task \in {"initialize", "session/list"} /\ out = <<>>
    /\ lister = "exited" /\ fails("AgentEof")
    /\ UNCHANGED <<lister, answered, out>>

\* No line within CONTROL_PLANE_AGENT_TIMEOUT, or no line ever again.
recv_line_fails ==
    /\ task \in {"initialize", "session/list"} /\ out = <<>>
    /\ \/ fails("AgentTimeout")
       \/ lister = "exited" /\ fails("AgentEof")
    /\ UNCHANGED <<lister, answered, out>>

\* AgentProcess::shutdown: the agent has exited by now or is killed.
transient_shutdown ==
    /\ task = "stopping"
    /\ lister' = "exited" /\ task' = "done" /\ out' = <<>>
    /\ UNCHANGED <<lines, result, answered>>

-----------------------------------------------------------------------------
(* The agent writes an answer under either id once, asked for or not, and *)
(* anything else at any time.                                             *)

lister_writes ==
    /\ lister = "running" /\ Len(out) < ListStdout
    /\ \E line \in Line :
        /\ out' = Append(out, line)
        /\ \/ line.kind \in {"other", "malformed"} /\ UNCHANGED answered
           \/ /\ line \in Response
              /\ answered[line.id] = "none"
              /\ answered' = [answered EXCEPT ![line.id] = line.kind]
    /\ UNCHANGED <<task, lines, result, lister>>

lister_exits ==
    /\ lister = "running"
    /\ lister' = "exited"
    /\ UNCHANGED <<task, lines, result, answered, out>>

ListingTask == request_transient_agent \/ recv_line_fails \/ transient_shutdown

ListingNext ==
    \/ list_sessions_control_plane \/ ListingTask
    \/ lister_writes \/ lister_exits

\* The reader is polled and its timers fire; the agent owes nothing.
ListingFairness == WF_listingVars(ListingTask)

-----------------------------------------------------------------------------
\* GET /acp/sessions ends, however chatty, silent or dead its agent is.
ListingEnds == task # "idle" ~> task = "done"

\* What is served is the agent's answer to session/list, of an agent that took
\* the initialize, or the error it gave to either, however other lines fall
\* between; and no agent outlives the request it was started for.
ListingIsTheAnswer ==
    task = "done" =>
        /\ lister # "running"
        /\ result \in Response =>
            /\ result.kind = answered[result.id]
            /\ result.kind = "ok" => result.id = 2 /\ answered[1] = "ok"
=============================================================================
