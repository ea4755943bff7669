---------------------------- MODULE MCMuxRegistry ----------------------------
(* Instances of MuxRegistry and ControlPlane for TLC.                     *)
EXTENDS MuxRegistry, ControlPlane, TLC

CONSTANTS c1, c2, p1, p2, m1

SameOrDistinct == {[c \in Conns |-> p1], c1 :> p1 @@ c2 :> p2}

\* The two share no state: TLC explores either of them from the start.
MCInit == Init /\ ListingInit
MCNext ==
    \/ Next /\ task = "idle" /\ UNCHANGED listingVars
    \/ ListingNext /\ snap.pc = "idle" /\ (\A c \in Conns : pc[c] = "idle") /\ UNCHANGED vars
MCSpec ==
    /\ MCInit /\ [][MCNext]_<<vars, listingVars>>
    /\ Fairness /\ ListingFairness

\* The types of both.
TypesOK == TypeOK /\ ListingTypeOK
=============================================================================
