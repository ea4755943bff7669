---------------------------- MODULE MuxRefinement ----------------------------
(***************************************************************************)
(* MuxCore implements MuxService: the refinement mapping, from what is on  *)
(* the channels of the connections, in the prompt slot and on the agent's  *)
(* stdin.                                                                  *)
(***************************************************************************)
EXTENDS MuxCore

NoTurn == <<>>

Answered(c, i) ==
    \E k \in DOMAIN outbound[c] : IsAnswer(outbound[c][k]) /\ outbound[c][k].id = i

\* What became of request i of connection c.
RequestState(c, i) ==
    IF Answered(c, i) THEN "answered"
    ELSE IF ~Asked(c, i, ClientMethods) THEN "unsent"
    ELSE IF c \in Reached(Peers) THEN "waiting"
    ELSE "unheard"

RequestStates == [r \in Conns \X ReqIds |-> RequestState(r[1], r[2])]

\* The requests forwarded under a mux id: there is one.
Holders(m) == {r \in Conns \X ReqIds : Forwarded(m, r[1], r[2])}

\* The request forwarded under the mux id in the prompt slot.
TurnHolder ==
    IF prompt_in_flight = 0 THEN NoTurn ELSE CHOOSE r \in Holders(prompt_in_flight) : TRUE

\* What the mux passes on to its clients.
Answerable == AskIds \ Blocked

Replied(a) ==
    \E k \in DOMAIN agent_stdin : agent_stdin[k].type = "reply" /\ agent_stdin[k].id = a

\* What became of an ask.
AskState(a) ==
    IF asked[a] = 0 THEN "never"
    ELSE IF Replied(a) THEN "replied"
    ELSE IF a \in open_asks THEN "open"
    ELSE "withdrawn"

AskStates == [a \in Answerable |-> AskState(a)]

Service == INSTANCE MuxService
    WITH AskIds <- Answerable, request <- RequestStates, turn <- TurnHolder, ask <- AskStates

\* The actor implements the promise: each of its steps is one of the
\* service's, or changes nothing a client or the agent could tell.
ImplementsMuxService == Service!Spec
=============================================================================
