----------------------------- MODULE MuxService -----------------------------
(***************************************************************************)
(* What one mux promises the clients that share an agent, and the agent,   *)
(* with nothing said of ids, mailboxes or maps:                            *)
(*   - a request of a connected client is answered exactly once;           *)
(*   - the agent holds at most one prompt, the turn;                       *)
(*   - a request of the agent is replied to at most once, and otherwise    *)
(*     withdrawn, by the agent itself or by the end of the turn.           *)
(* MuxCore implements it: MuxRefinement has the refinement mapping.        *)
(***************************************************************************)
CONSTANTS
    Conns,   \* the clients
    ReqIds,  \* ids of their requests
    AskIds,  \* requests of the agent
    NoTurn   \* not a request: nobody has the turn

VARIABLES request, turn, ask

serviceVars == <<request, turn, ask>>

Requests == Conns \X ReqIds

Init ==
    /\ request = [r \in Requests |-> "unsent"]
    /\ turn = NoTurn
    /\ ask = [a \in AskIds |-> "never"]

\* A request reaches the mux.  It is answered on the spot, handed to the
\* agent, or unheard, its client being gone; a prompt that is handed to the
\* agent takes the turn, which nobody else may hold.
Send(r) ==
    /\ request[r] = "unsent"
    /\ \E s \in {"waiting", "answered", "unheard"} :
        request' = [request EXCEPT ![r] = s]
    /\ \/ turn' = turn
       \/ turn = NoTurn /\ turn' = r /\ request'[r] # "answered"
    /\ UNCHANGED ask

\* The agent's answer arrives.
Answer(r) ==
    /\ request[r] = "waiting" /\ turn # r
    /\ request' = [request EXCEPT ![r] = "answered"]
    /\ UNCHANGED <<turn, ask>>

\* The agent answers the prompt: the turn is over, with everything asked in it.
EndTurn ==
    /\ turn # NoTurn
    /\ request' = [request EXCEPT ![turn] = IF @ = "waiting" THEN "answered" ELSE @]
    /\ turn' = NoTurn
    /\ ask' = [a \in AskIds |-> IF ask[a] = "open" THEN "withdrawn" ELSE ask[a]]

\* Some clients are gone, one of them perhaps with an answered detach request:
\* nobody waits for their answers any more.
Leave(C) ==
    /\ \E answered \in {{}} \cup {{r} : r \in C \X ReqIds} :
        /\ \A r \in answered : request[r] = "unsent"
        /\ request' = [r \in Requests |->
            IF r \in answered THEN "answered"
            ELSE IF r[1] \in C /\ request[r] = "waiting" THEN "unheard" ELSE request[r]]
    /\ UNCHANGED <<turn, ask>>

Ask(a) ==
    /\ ask[a] = "never"
    /\ ask' = [ask EXCEPT ![a] = "open"]
    /\ UNCHANGED <<request, turn>>

Resolve(a) ==
    /\ ask[a] = "open"
    /\ \E s \in {"replied", "withdrawn"} : ask' = [ask EXCEPT ![a] = s]
    /\ UNCHANGED <<request, turn>>

Next ==
    \/ \E r \in Requests : Send(r) \/ Answer(r)
    \/ EndTurn
    \/ \E C \in SUBSET Conns : Leave(C)
    \/ \E a \in AskIds : Ask(a) \/ Resolve(a)

Spec == Init /\ [][Next]_serviceVars
=============================================================================
