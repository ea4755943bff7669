------------------------------ MODULE MCMuxCore ------------------------------
(***************************************************************************)
(* Instances of MuxCore for TLC.  A configuration turns a part of the core *)
(* on by listing the methods clients use and the lines the agent emits.    *)
(***************************************************************************)
EXTENDS MuxCore, TLC

CONSTANTS c1, c2, c3, p1, p2, r1, r2, s1, s2, a1, a2, a3, none, null

\* Every connection under a peer id of its own, and c2 taking up c1's.
PeerPerConn == c1 :> p1 @@ c2 :> p2
PeerReused == c1 :> p1 @@ c2 :> p1
PeerReusedOf3 == c1 :> p1 @@ c2 :> p1 @@ c3 :> p2

\* Swapping c1 and c2 with their peer ids leaves the first of these unchanged;
\* the request ids and the sessions are interchangeable.
Swap(x, y) == {x :> x @@ y :> y, x :> y @@ y :> x}
SwapConns == {c1 :> c1 @@ c2 :> c2 @@ p1 :> p1 @@ p2 :> p2,
              c1 :> c2 @@ c2 :> c1 @@ p1 :> p2 @@ p2 :> p1}
ConnSymmetry == {f @@ g : f \in SwapConns, g \in Swap(r1, r2)}
AskSymmetry == {f @@ g : f \in ConnSymmetry, g \in Swap(a1, a2)}
SessionSymmetry == Swap(s1, s2)

\* What clients send, by the part of the core a run is about.
Routing == {"session/prompt", "other", "session/detach", "$/cancel_request"}
Handshaking == {"initialize", "session/new", "session/load"}
Opening == {"session/new", "session/load", "session/attach"}
Leaving == {"session/detach", "session/cancel"}

NullOnly == {null}
NoId == {none}
=============================================================================
