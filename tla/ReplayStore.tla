----------------------------- MODULE ReplayStore -----------------------------
(***************************************************************************)
(* The replay log of a mux and its file: MuxCore::broadcast (mux/actor.rs) *)
(* appends a frame to both, and hydrate_replay_store reads the file back   *)
(* when the room is opened again, by another actor of the same process or  *)
(* by another process.  crates/acp-mux/src/replay_store.rs.                *)
(*                                                                         *)
(* A line is written in one write_all.  When the disk is full or the       *)
(* process is killed, only a part of the line is in the file, and whatever *)
(* is appended next continues the same line.  A process that is killed in  *)
(* the middle of a line is such a write and then the end of the run.       *)
(***************************************************************************)
EXTENDS SequencesExt, Filters

CONSTANTS
    Tears,      \* how far an incomplete write gets: a subset of Incomplete
    MaxSeq,     \* bound: replay sequence numbers
    MaxTears,   \* bound: incomplete writes
    MaxRuns     \* bound: times the room is opened

\* The record without its newline, some of the record, or some of it up to
\* the middle of a character of more than one byte.
Incomplete == {"record", "part", "character"}

ASSUME ReplayStoreConstantsOK ==
    /\ Tears \subseteq Incomplete
    /\ MaxSeq \in Nat \ {0} /\ MaxTears \in Nat /\ MaxRuns \in Nat \ {0}

VARIABLES
    runs,               \* times the room was opened
    replay_log,
    next_replay_seq,
    replay_tag,
    replay_store,       \* the file is open for append
    file                \* what was written, and how far each write got

logVars == <<replay_log, next_replay_seq, replay_tag>>
storeVars == <<runs, logVars, replay_store, file>>

\* A frame with method "raw" is a line that is not JSON.
Entry(Frame) == [seq : Nat, tag : Nat, frame : Frame]
Written(Frame) == [entry : Entry(Frame), upto : {"newline"} \cup Incomplete]

StoreTypeOK(Frame) ==
    /\ runs \in 1..MaxRuns
    /\ replay_log \in Seq(Entry(Frame))
    /\ next_replay_seq \in 1..MaxSeq + 1
    /\ replay_tag \in Nat
    /\ replay_store \in BOOLEAN
    /\ file \in Seq(Written(Frame))

StoreInit ==
    /\ runs = 1
    /\ replay_log = <<>> /\ next_replay_seq = 1 /\ replay_tag = 0
    /\ replay_store = TRUE
    /\ file = <<>>

Torn(lines) == {k \in DOMAIN lines : lines[k].upto # "newline"}

\* The write is alone on its line, and the line is a whole record.
IsRecord(lines, k) ==
    /\ k = 1 \/ lines[k - 1].upto = "newline"
    /\ lines[k].upto = "newline" \/ (lines[k].upto = "record" /\ k = Len(lines))

\* A line that is not UTF-8 fails the whole load, not only this record.
Unreadable(lines) == \E k \in DOMAIN lines : lines[k].upto = "character"

\* Mutant of load_existing: what follows a malformed line is not read.
load_until_malformed(lines) ==
    LET good == {k \in DOMAIN lines : \A j \in 1..k : IsRecord(lines, j)}
    IN [k \in good |-> lines[k].entry]

\* Malformed lines are skipped.
load_existing(lines) ==
    LET records == Kept(lines, {k \in DOMAIN lines : IsRecord(lines, k)})
    IN [k \in DOMAIN records |-> records[k].entry]

append(entry) ==
    IF ~replay_store \/ entry.frame.method = "raw" THEN UNCHANGED file
    ELSE \E upto \in {"newline"} \cup Tears :
            /\ upto # "newline" => Cardinality(Torn(file)) < MaxTears
            /\ file' = Append(file, [entry |-> entry, upto |-> upto])

\* The log half of MuxCore::broadcast; an append that fails is ignored.
record(frame) ==
    LET entry == [seq |-> next_replay_seq, tag |-> replay_tag, frame |-> frame]
    IN /\ next_replay_seq <= MaxSeq
       /\ replay_log' = Append(replay_log, entry)
       /\ next_replay_seq' = next_replay_seq + 1
       /\ append(entry)
       /\ UNCHANGED <<runs, replay_store>>

\* Mutant of next_seq: counted, where records may have been skipped.
next_seq_by_count(log) == Len(log) + 1

\* One more than the largest of them.
next_seq(log) == Max({0} \cup {log[k].seq : k \in DOMAIN log}) + 1

\* When the file cannot be read, the room goes on without it.
hydrate_replay_store ==
    /\ runs < MaxRuns /\ runs' = runs + 1
    /\ replay_store' = ~Unreadable(file)
    /\ replay_log' = IF Unreadable(file) THEN <<>> ELSE load_existing(file)
    /\ next_replay_seq' = next_seq(replay_log')
    /\ replay_tag' = 0
    /\ UNCHANGED file

-----------------------------------------------------------------------------

Increasing(entries) ==
    \A j, k \in DOMAIN entries : j < k => entries[j].seq < entries[k].seq

\* Clients order and deduplicate by replaySeq: it grows along the log, and
\* along what can be read of the file, through runs of the room, frames that
\* are not persisted and records that were lost.
SeqsIncrease ==
    /\ Increasing(replay_log)
    /\ Increasing(load_existing(file))
    /\ \A k \in DOMAIN replay_log : replay_log[k].seq < next_replay_seq

\* An incomplete write loses its own record and the next one, no other: the
\* rest of the log is what another run of the room would read, as long as
\* the file can be read.
OnlyTheTornIsLost ==
    replay_store /\ ~Unreadable(file) =>
        LET reloaded == ToSet(load_existing(file))
            damaged == {file[k].entry : k \in {k \in DOMAIN file : {k - 1, k} \cap Torn(file) # {}}}
        IN \A entry \in ToSet(replay_log) :
            entry \in reloaded \/ entry \in damaged \/ entry.frame.method = "raw"
=============================================================================
