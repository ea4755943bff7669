--------------------------- MODULE MCMuxRefinement ---------------------------
(* The instances of MCMuxCore that are checked against MuxService.         *)
EXTENDS MCMuxCore, MuxRefinement
=============================================================================
