--------------------------- MODULE MCAttachStreams ---------------------------
(***************************************************************************)
(* An instance of AttachStreams for TLC.  Clients see the log, not the     *)
(* file it came from: incomplete writes are explored in rooms that nobody  *)
(* has joined yet and where only turns and lines of the agent happen.      *)
(***************************************************************************)
EXTENDS AttachStreams

OnlyTurns == conns_so_far = 0 /\ permission = "none" /\ active_segment_id = 0

MCNext == StreamsNext /\ (Torn(file') = {} \/ OnlyTurns')

MCSpec == StreamsInit /\ [][MCNext]_streamVars
=============================================================================
