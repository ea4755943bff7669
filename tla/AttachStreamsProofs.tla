-------------------------- MODULE AttachStreamsProofs --------------------------
(***************************************************************************)
(* Proofs about session/attach and the replay file: for every size of the  *)
(* log, any number of incomplete writes, runs of the room, connections and *)
(* attaches, and every order of wakes and broadcasts.                      *)
(***************************************************************************)
EXTENDS AttachStreams, AttachViewsProofs

-----------------------------------------------------------------------------
(***************************************************************************)
(* What is read of a file.                                                 *)
(***************************************************************************)

ReplayEntry == Entry(Frame)
Line == Written(Frame)

LEMMA Fields ==
    /\ \A line \in Line : line.entry \in ReplayEntry /\ line.upto \in {"newline"} \cup Incomplete
    /\ \A entry \in ReplayEntry : entry.seq \in Nat /\ entry.frame \in Frame
BY DEF Line, Written, ReplayEntry, Entry

Records(lines) == {k \in DOMAIN lines : IsRecord(lines, k)}

\* The records, in the order of their lines.
LEMMA Loaded ==
    ASSUME NEW lines \in Seq(Line)
    PROVE  /\ load_existing(lines) \in Seq(ReplayEntry)
           /\ \E pos \in Seq(Nat) :
                /\ Len(pos) = Len(load_existing(lines))
                /\ \A j \in 1..Len(pos) : /\ pos[j] \in Records(lines)
                                          /\ load_existing(lines)[j] = lines[pos[j]].entry
                /\ \A i, j \in 1..Len(pos) : i < j => pos[i] < pos[j]
                /\ \A k \in Records(lines) : \E j \in 1..Len(pos) : pos[j] = k
<1> DEFINE records == Kept(lines, Records(lines))
<1>1. PICK pos \in Seq(Nat) :
        records \in Seq(Line) /\ Enumerates(pos, records, lines, Records(lines), Len(lines))
    BY KeptPositions
<1>2. load_existing(lines) = [k \in DOMAIN records |-> records[k].entry]
    BY DEF load_existing, Records
<1>3. Records(lines) \subseteq 1..Len(lines)
    BY DEF Records
<1> HIDE DEF records
<1>4. \A k \in DOMAIN records : records[k].entry \in ReplayEntry
    BY <1>1, Fields
<1>5. DOMAIN records = 1..Len(pos) /\ Len(pos) \in Nat
    BY <1>1 DEF Enumerates
<1>6. /\ load_existing(lines) \in Seq(ReplayEntry) /\ Len(load_existing(lines)) = Len(pos)
      /\ \A j \in 1..Len(pos) : load_existing(lines)[j] = records[j].entry
    BY <1>2, <1>4, <1>5
<1>7. /\ Len(pos) = Len(load_existing(lines))
      /\ \A j \in 1..Len(pos) : /\ pos[j] \in Records(lines)
                                /\ load_existing(lines)[j] = lines[pos[j]].entry
      /\ \A i, j \in 1..Len(pos) : i < j => pos[i] < pos[j]
      /\ \A k \in Records(lines) : \E j \in 1..Len(pos) : pos[j] = k
    BY <1>1, <1>3, <1>6 DEF Enumerates
<1>8. QED
    BY <1>6, <1>7

LEMMA ToSetAppended ==
    ASSUME NEW D, NEW s \in Seq(D), NEW e \in D
    PROVE  ToSet(Append(s, e)) = ToSet(s) \cup {e}
<1>1. /\ DOMAIN s = 1..Len(s) /\ Len(s) \in Nat /\ DOMAIN Append(s, e) = 1..Len(s) + 1
      /\ \A k \in 1..Len(s) : Append(s, e)[k] = s[k]
      /\ Append(s, e)[Len(s) + 1] = e
    OBVIOUS
<1>2. \A x \in ToSet(s) : x \in ToSet(Append(s, e))
    BY <1>1 DEF ToSet
<1>3. e \in ToSet(Append(s, e))
    BY <1>1 DEF ToSet
<1>4. \A x \in ToSet(Append(s, e)) : x \in ToSet(s) \cup {e}
    BY <1>1 DEF ToSet
<1>5. QED
    BY <1>2, <1>3, <1>4

LEMMA LoadedSet ==
    ASSUME NEW lines \in Seq(Line)
    PROVE  ToSet(load_existing(lines)) = {lines[k].entry : k \in Records(lines)}
<1>1. PICK pos \in Seq(Nat) :
        /\ Len(pos) = Len(load_existing(lines))
        /\ \A j \in 1..Len(pos) : /\ pos[j] \in Records(lines)
                                  /\ load_existing(lines)[j] = lines[pos[j]].entry
        /\ \A k \in Records(lines) : \E j \in 1..Len(pos) : pos[j] = k
    BY Loaded
<1>2. DOMAIN load_existing(lines) = 1..Len(pos)
    BY <1>1, Loaded
<1>3. ToSet(load_existing(lines)) = {load_existing(lines)[j] : j \in 1..Len(pos)}
    BY <1>2 DEF ToSet
<1>4. \A x \in ToSet(load_existing(lines)) : x \in {lines[k].entry : k \in Records(lines)}
    BY <1>1, <1>3
<1>5. ASSUME NEW k \in Records(lines)
      PROVE  lines[k].entry \in ToSet(load_existing(lines))
    BY <1>1, <1>3
<1>6. QED
    BY <1>4, <1>5

\* What is appended may make a line that was a record malformed, when it was
\* the last one and lacked its newline; no line becomes a record by it.
LEMMA Lengthened ==
    ASSUME NEW lines \in Seq(Line), NEW line \in Line
    PROVE  LET longer == Append(lines, line)
               last == Len(lines) + 1
           IN /\ longer \in Seq(Line) /\ last \in Nat
              /\ DOMAIN lines = 1..Len(lines) /\ DOMAIN longer = 1..last /\ longer[last] = line
              /\ \A k \in DOMAIN lines : longer[k] = lines[k]
              /\ \A k \in Records(longer) : k \in Records(lines) \/ k = last
              /\ \A k \in Records(lines) : k \in Records(longer) \/ lines[k].upto # "newline"
              /\ Unreadable(lines) => Unreadable(longer)
<1> DEFINE longer == Append(lines, line)
           last == Len(lines) + 1
<1>1. /\ longer \in Seq(Line) /\ Len(lines) \in Nat /\ last \in Nat /\ Len(longer) = last
      /\ DOMAIN lines = 1..Len(lines) /\ DOMAIN longer = 1..last /\ longer[last] = line
      /\ \A k \in 1..Len(lines) : longer[k] = lines[k]
    OBVIOUS
<1> HIDE DEF longer
<1>2. \A k \in Records(longer) : k \in Records(lines) \/ k = last
    BY <1>1 DEF Records, IsRecord
<1>3. \A k \in Records(lines) : k \in Records(longer) \/ lines[k].upto # "newline"
    BY <1>1 DEF Records, IsRecord
<1>4. Unreadable(lines) => Unreadable(longer)
    BY <1>1 DEF Unreadable
<1>5. QED
    BY <1>1, <1>2, <1>3, <1>4 DEF longer

\* The number that follows those of a log.
LEMMA NextSeq ==
    ASSUME NEW log \in Seq(ReplayEntry), Increasing(log)
    PROVE  /\ next_seq(log) \in Nat \ {0}
           /\ \A k \in DOMAIN log : log[k].seq < next_seq(log)
           /\ next_seq(log) = 1 \/ \E k \in DOMAIN log : next_seq(log) = log[k].seq + 1
<1> DEFINE S == {0} \cup {log[k].seq : k \in DOMAIN log}
           max == Max(S)
<1>1. /\ DOMAIN log = 1..Len(log) /\ Len(log) \in Nat
      /\ \A k \in DOMAIN log : log[k].seq \in Nat
    BY Fields
<1>2. \E x \in S : \A y \in S : x >= y
    <2>1. CASE Len(log) = 0
        BY <1>1, <2>1
    <2>2. CASE Len(log) # 0
        <3>1. Len(log) \in DOMAIN log
            BY <1>1, <2>2
        <3>2. \A k \in DOMAIN log : log[Len(log)].seq >= log[k].seq
            BY <1>1, <3>1 DEF Increasing
        <3>3. log[Len(log)].seq \in S /\ \A y \in S : log[Len(log)].seq >= y
            BY <1>1, <3>1, <3>2
        <3>4. QED
            BY <3>3
    <2>3. QED
        BY <2>1, <2>2
<1>3. max \in S /\ \A y \in S : max >= y
    BY <1>2 DEF Max
<1>4. S \subseteq Nat
    BY <1>1
<1>5. next_seq(log) = max + 1
    BY DEF next_seq
<1> HIDE DEF max
<1>6. QED
    BY <1>1, <1>3, <1>4, <1>5

-----------------------------------------------------------------------------
(***************************************************************************)
(* The log and the file agree.                                             *)
(***************************************************************************)

LogInv ==
    /\ Increasing(replay_log)
    /\ \A k \in DOMAIN replay_log : replay_log[k].seq \in 1..next_replay_seq - 1

\* The records have numbers that increase, which the next one continues as
\* long as the file is written; what is not a record may have any number, as
\* the numbers of lost records are given again.
FileInv ==
    /\ \A k \in DOMAIN file : file[k].entry.seq \in 1..MaxSeq
    /\ \A j, k \in Records(file) : j < k => file[j].entry.seq < file[k].entry.seq
    /\ replay_store => \A k \in Records(file) : file[k].entry.seq < next_replay_seq
    /\ ~replay_store => Unreadable(file)

\* The numbers of the log are those of the run.
StoreInv ==
    StoreTypeOK(Frame) /\ LogInv /\ FileInv /\ OnlyTheTornIsLost

LEMMA StoreInitInv == StreamsInit => StoreInv
<1> SUFFICES ASSUME StreamsInit PROVE StoreInv
    OBVIOUS
<1>1. /\ runs = 1 /\ replay_log = <<>> /\ next_replay_seq = 1 /\ replay_tag = 0
      /\ replay_store = TRUE /\ file = <<>>
    BY DEF StreamsInit, StoreInit
<1>2. StoreTypeOK(Frame)
    BY <1>1, ReplayStoreConstantsOK DEF StoreTypeOK
<1>3. LogInv /\ FileInv
    BY <1>1 DEF LogInv, FileInv, Increasing, Records
<1>4. OnlyTheTornIsLost
    BY <1>1 DEF OnlyTheTornIsLost, ToSet
<1>5. QED
    BY <1>2, <1>3, <1>4 DEF StoreInv

LEMMA RecordTypes ==
    ASSUME StoreInv, NEW frame \in Frame, record(frame), replay_tag' \in Nat
    PROVE  /\ StoreTypeOK(Frame)'
           /\ [seq |-> next_replay_seq, tag |-> replay_tag, frame |-> frame] \in ReplayEntry
           /\ file' = file \/ \E upto \in {"newline"} \cup Incomplete :
                /\ [entry |-> [seq |-> next_replay_seq, tag |-> replay_tag, frame |-> frame],
                    upto |-> upto] \in Line
                /\ file' = Append(file, [entry |-> [seq |-> next_replay_seq, tag |-> replay_tag,
                                                    frame |-> frame], upto |-> upto])
<1> DEFINE entry == [seq |-> next_replay_seq, tag |-> replay_tag, frame |-> frame]
<1>1. StoreTypeOK(Frame)
    BY DEF StoreInv
<1>2. entry \in ReplayEntry
    BY <1>1 DEF StoreTypeOK, ReplayEntry, Entry
<1>3. file' = file \/ \E upto \in {"newline"} \cup Tears : file' = Append(file, [entry |-> entry, upto |-> upto])
    BY DEF record, append
<1>4. \A upto \in {"newline"} \cup Incomplete : [entry |-> entry, upto |-> upto] \in Line
    BY <1>2 DEF Line, Written, ReplayEntry
<1>5. Tears \subseteq Incomplete /\ MaxSeq \in Nat \ {0}
    BY ReplayStoreConstantsOK
<1>6. /\ next_replay_seq <= MaxSeq /\ replay_log' = Append(replay_log, entry)
      /\ next_replay_seq' = next_replay_seq + 1 /\ UNCHANGED <<runs, replay_store>>
    BY DEF record
<1> HIDE DEF entry
<1>7. file' \in Seq(Line)
    <2>1. file \in Seq(Line)
        BY <1>1 DEF StoreTypeOK, Line
    <2>2. CASE file' = file
        BY <2>1, <2>2
    <2>3. ASSUME NEW upto \in {"newline"} \cup Tears, file' = Append(file, [entry |-> entry, upto |-> upto])
          PROVE  file' \in Seq(Line)
        BY <1>4, <1>5, <2>1, <2>3, AppendProperties
    <2>4. QED
        BY <1>3, <2>2, <2>3
<1>8. replay_log' \in Seq(ReplayEntry)
    BY <1>1, <1>2, <1>6 DEF StoreTypeOK, ReplayEntry
<1>9. StoreTypeOK(Frame)'
    BY <1>1, <1>5, <1>6, <1>7, <1>8 DEF StoreTypeOK, Line, ReplayEntry
<1>10. file' = file \/ \E upto \in {"newline"} \cup Incomplete :
            [entry |-> entry, upto |-> upto] \in Line /\ file' = Append(file, [entry |-> entry, upto |-> upto])
    BY <1>3, <1>4, <1>5
<1>11. QED
    BY <1>2, <1>9, <1>10 DEF entry

LEMMA RecordLogs ==
    ASSUME StoreInv, NEW frame \in Frame, record(frame), replay_tag' \in Nat
    PROVE  LogInv'
<1> DEFINE entry == [seq |-> next_replay_seq, tag |-> replay_tag, frame |-> frame]
<1>1. /\ replay_log \in Seq(ReplayEntry) /\ next_replay_seq \in 1..MaxSeq + 1 /\ MaxSeq \in Nat
    BY ReplayStoreConstantsOK DEF StoreInv, StoreTypeOK, ReplayEntry
<1>2. entry \in ReplayEntry /\ entry.seq = next_replay_seq
    BY RecordTypes
<1>3. replay_log' = Append(replay_log, entry) /\ next_replay_seq' = next_replay_seq + 1
    BY DEF record
<1> HIDE DEF entry
<1>4. /\ DOMAIN replay_log = 1..Len(replay_log) /\ Len(replay_log) \in Nat
      /\ DOMAIN replay_log' = 1..Len(replay_log) + 1
      /\ \A k \in 1..Len(replay_log) : replay_log'[k] = replay_log[k]
      /\ replay_log'[Len(replay_log) + 1] = entry
    BY <1>1, <1>2, <1>3
<1>5. \A k \in DOMAIN replay_log : replay_log[k].seq \in 1..next_replay_seq - 1
    BY DEF StoreInv, LogInv
<1>6. \A j, k \in 1..Len(replay_log) : j < k => replay_log[j].seq < replay_log[k].seq
    BY <1>4 DEF StoreInv, LogInv, Increasing
<1>7. \A k \in DOMAIN replay_log' : replay_log'[k].seq \in 1..next_replay_seq' - 1
    BY <1>1, <1>2, <1>3, <1>4, <1>5
<1>8. \A j, k \in DOMAIN replay_log' : j < k => replay_log'[j].seq < replay_log'[k].seq
    BY <1>1, <1>2, <1>4, <1>5, <1>6
<1>9. QED
    BY <1>7, <1>8 DEF LogInv, Increasing

LEMMA RecordFiles ==
    ASSUME StoreInv, NEW frame \in Frame, record(frame), replay_tag' \in Nat
    PROVE  FileInv'
<1> DEFINE entry == [seq |-> next_replay_seq, tag |-> replay_tag, frame |-> frame]
<1>1. /\ file \in Seq(Line) /\ next_replay_seq \in 1..MaxSeq + 1 /\ MaxSeq \in Nat
    BY ReplayStoreConstantsOK DEF StoreInv, StoreTypeOK, Line
<1>2. next_replay_seq <= MaxSeq /\ next_replay_seq' = next_replay_seq + 1 /\ UNCHANGED replay_store
    BY DEF record
<1>3. \/ file' = file
      \/ replay_store /\ \E line \in Line :
            line.entry.seq = next_replay_seq /\ file' = Append(file, line)
    <2>1. file' = file \/ \E upto \in {"newline"} \cup Incomplete :
                [entry |-> entry, upto |-> upto] \in Line
                /\ file' = Append(file, [entry |-> entry, upto |-> upto])
        BY RecordTypes
    <2>2. ~replay_store => file' = file
        BY DEF record, append
    <2>3. ASSUME NEW upto, [entry |-> entry, upto |-> upto] \in Line,
                 file' = Append(file, [entry |-> entry, upto |-> upto])
          PROVE  \E line \in Line : line.entry.seq = next_replay_seq /\ file' = Append(file, line)
        BY <2>3
    <2>4. QED
        BY <2>1, <2>2, <2>3
<1>4. CASE file' = file
    BY <1>1, <1>2, <1>4, Fields DEF StoreInv, FileInv, Records
<1>5. ASSUME NEW line \in Line, replay_store, line.entry.seq = next_replay_seq,
             file' = Append(file, line)
      PROVE  FileInv'
    <2> DEFINE last == Len(file) + 1
    <2>1. /\ last \in Nat /\ DOMAIN file = 1..Len(file) /\ DOMAIN file' = 1..last
          /\ file'[last] = line /\ Len(file) \in Nat
          /\ \A k \in DOMAIN file : file'[k] = file[k]
          /\ \A k \in Records(file') : k \in Records(file) \/ k = last
        <3>1. LET longer == Append(file, line)
              IN /\ last \in Nat /\ DOMAIN file = 1..Len(file) /\ DOMAIN longer = 1..last
                 /\ longer[last] = line
                 /\ \A k \in DOMAIN file : longer[k] = file[k]
                 /\ \A k \in Records(longer) : k \in Records(file) \/ k = last
            BY <1>1, Lengthened
        <3>2. Len(file) \in Nat
            BY <1>1
        <3>3. QED
            BY <1>5, <3>1, <3>2
    <2>2. \A k \in Records(file) : k \in DOMAIN file /\ k \in Nat /\ k < last
        BY <2>1 DEF Records
    <2>3. /\ \A k \in DOMAIN file : file[k].entry.seq \in 1..MaxSeq
          /\ \A j, k \in Records(file) : j < k => file[j].entry.seq < file[k].entry.seq
          /\ \A k \in Records(file) : file[k].entry.seq < next_replay_seq
        BY <1>5 DEF StoreInv, FileInv
    <2>4. \A k \in DOMAIN file' : file'[k].entry.seq \in 1..MaxSeq
        BY <1>1, <1>2, <1>5, <2>1, <2>3
    <2>5. \A j, k \in Records(file') : j < k => file'[j].entry.seq < file'[k].entry.seq
        <3>1. SUFFICES ASSUME NEW j \in Records(file'), NEW k \in Records(file'), j < k
                       PROVE  file'[j].entry.seq < file'[k].entry.seq
            OBVIOUS
        <3>2. k \in 1..last /\ j \in 1..last
            BY <2>1 DEF Records
        <3>3. j \in Records(file)
            BY <2>1, <3>1, <3>2
        <3>4. CASE k \in Records(file)
            BY <2>1, <2>2, <2>3, <3>1, <3>3, <3>4
        <3>5. CASE k = last
            BY <1>5, <2>1, <2>2, <2>3, <3>3, <3>5
        <3>6. QED
            BY <2>1, <3>4, <3>5
    <2>6. \A k \in Records(file') : file'[k].entry.seq < next_replay_seq'
        <3>1. SUFFICES ASSUME NEW k \in Records(file') PROVE file'[k].entry.seq < next_replay_seq'
            OBVIOUS
        <3>2. CASE k \in Records(file)
            <4>1. file'[k] = file[k] /\ file[k].entry.seq < next_replay_seq /\ file[k].entry.seq \in 1..MaxSeq
                BY <2>1, <2>2, <2>3, <3>2
            <4>2. QED
                BY <1>1, <1>2, <4>1
        <3>3. CASE k = last
            BY <1>1, <1>2, <1>5, <2>1, <3>3
        <3>4. QED
            BY <2>1, <3>2, <3>3
    <2>7. QED
        BY <1>2, <1>5, <2>4, <2>5, <2>6 DEF FileInv
<1>6. QED
    BY <1>3, <1>4, <1>5

\* The entries whose line is torn, or begins in a torn line.
Damaged(lines) == {lines[k].entry : k \in {k \in DOMAIN lines : {k - 1, k} \cap Torn(lines) # {}}}

LEMMA RecordLoses ==
    ASSUME StoreInv, NEW frame \in Frame, record(frame), replay_tag' \in Nat
    PROVE  OnlyTheTornIsLost'
<1> DEFINE entry == [seq |-> next_replay_seq, tag |-> replay_tag, frame |-> frame]
<1>1. file \in Seq(Line) /\ replay_log \in Seq(ReplayEntry)
    BY DEF StoreInv, StoreTypeOK, Line, ReplayEntry
<1>2. replay_log' = Append(replay_log, entry) /\ UNCHANGED replay_store /\ entry.frame = frame
    BY DEF record
<1>3. entry \in ReplayEntry
    BY RecordTypes
<1>4. \/ file' = file
      \/ \E line \in Line : line.entry = entry /\ file' = Append(file, line)
    <2>1. file' = file \/ \E upto \in {"newline"} \cup Incomplete :
                [entry |-> entry, upto |-> upto] \in Line
                /\ file' = Append(file, [entry |-> entry, upto |-> upto])
        BY RecordTypes
    <2>2. ASSUME NEW upto, [entry |-> entry, upto |-> upto] \in Line,
                 file' = Append(file, [entry |-> entry, upto |-> upto])
          PROVE  \E line \in Line : line.entry = entry /\ file' = Append(file, line)
        BY <2>2
    <2>3. QED
        BY <2>1, <2>2
<1>5. replay_store /\ frame.method # "raw" => \E line \in Line : line.entry = entry /\ file' = Append(file, line)
    <2>1. ASSUME replay_store, frame.method # "raw"
          PROVE  \E upto \in {"newline"} \cup Tears : file' = Append(file, [entry |-> entry, upto |-> upto])
        BY <2>1 DEF record, append
    <2>2. ASSUME NEW upto \in {"newline"} \cup Tears
          PROVE  [entry |-> entry, upto |-> upto] \in Line /\ [entry |-> entry, upto |-> upto].entry = entry
        BY <1>3, ReplayStoreConstantsOK DEF Line, Written, ReplayEntry
    <2>3. QED
        BY <2>1, <2>2
<1>6. ToSet(replay_log') = ToSet(replay_log) \cup {entry}
    <2> HIDE DEF entry
    <2>1. QED
        BY <1>1, <1>2, <1>3, ToSetAppended
<1> HIDE DEF entry
<1>7. SUFFICES ASSUME replay_store, ~Unreadable(file')
               PROVE  \A e \in ToSet(replay_log') :
                        \/ e \in {file'[k].entry : k \in Records(file')}
                        \/ e \in Damaged(file') \/ e.frame.method = "raw"
    <2>1. file' \in Seq(Line)
        BY RecordTypes DEF StoreTypeOK, Line
    <2>2. ToSet(load_existing(file')) = {file'[k].entry : k \in Records(file')}
        BY <2>1, LoadedSet
    <2>3. QED
        BY <1>2, <2>2 DEF OnlyTheTornIsLost, Damaged
<1>8. ~Unreadable(file)
    <2>1. ASSUME NEW line \in Line, file' = Append(file, line)
          PROVE  ~Unreadable(file)
        <3>1. LET longer == Append(file, line) IN Unreadable(file) => Unreadable(longer)
            BY <1>1, Lengthened
        <3>2. QED
            BY <1>7, <2>1, <3>1
    <2>2. QED
        BY <1>4, <1>7, <2>1
<1>9. \A e \in ToSet(replay_log) :
        e \in {file[k].entry : k \in Records(file)} \/ e \in Damaged(file) \/ e.frame.method = "raw"
    <2>1. ToSet(load_existing(file)) = {file[k].entry : k \in Records(file)}
        BY <1>1, LoadedSet
    <2>2. QED
        BY <1>7, <1>8, <2>1 DEF StoreInv, OnlyTheTornIsLost, Damaged
<1>10. CASE file' = file /\ entry.frame.method = "raw"
    BY <1>6, <1>9, <1>10
<1>11. ASSUME NEW line \in Line, line.entry = entry, file' = Append(file, line)
       PROVE  \A e \in ToSet(replay_log') :
                \/ e \in {file'[k].entry : k \in Records(file')}
                \/ e \in Damaged(file') \/ e.frame.method = "raw"
    <2> DEFINE last == Len(file) + 1
    <2>1. /\ last \in Nat /\ DOMAIN file = 1..Len(file) /\ DOMAIN file' = 1..last
          /\ file'[last] = line /\ Len(file) \in Nat
          /\ \A k \in DOMAIN file : file'[k] = file[k]
          /\ \A k \in Records(file) : k \in Records(file') \/ file[k].upto # "newline"
        <3>1. LET longer == Append(file, line)
              IN /\ last \in Nat /\ DOMAIN file = 1..Len(file) /\ DOMAIN longer = 1..last
                 /\ longer[last] = line
                 /\ \A k \in DOMAIN file : longer[k] = file[k]
                 /\ \A k \in Records(file) : k \in Records(longer) \/ file[k].upto # "newline"
            BY <1>1, Lengthened
        <3>2. Len(file) \in Nat
            BY <1>1
        <3>3. QED
            BY <1>11, <3>1, <3>2
    <2>2. Torn(file) \subseteq Torn(file')
        BY <2>1 DEF Torn
    <2>3. \A k \in DOMAIN file : k \in DOMAIN file'
        BY <2>1
    <2>4. \A e \in Damaged(file) : e \in Damaged(file')
        BY <2>1, <2>2, <2>3 DEF Damaged
    <2>5. ASSUME NEW k \in Records(file)
          PROVE  file[k].entry \in {file'[i].entry : i \in Records(file')} \/ file[k].entry \in Damaged(file')
        <3>1. k \in DOMAIN file /\ file'[k] = file[k]
            BY <2>1 DEF Records
        <3>2. CASE k \in Records(file')
            BY <3>1, <3>2
        <3>3. CASE file[k].upto # "newline"
            <4>1. k \in Torn(file) /\ k \in DOMAIN file'
                BY <2>3, <3>1, <3>3 DEF Torn
            <4>2. QED
                BY <2>2, <3>1, <4>1 DEF Damaged
        <3>4. QED
            BY <2>1, <3>2, <3>3
    <2>6. entry \in {file'[k].entry : k \in Records(file')} \/ entry \in Damaged(file')
        <3>1. last \in DOMAIN file' /\ file'[last].entry = entry
            BY <1>11, <2>1
        <3>2. CASE last \in Torn(file') \/ last - 1 \in Torn(file')
            BY <3>1, <3>2 DEF Damaged
        <3>3. CASE last \notin Torn(file') /\ last - 1 \notin Torn(file')
            <4>1. last \in Records(file')
                BY <2>1, <3>1, <3>3 DEF Records, IsRecord, Torn
            <4>2. QED
                BY <3>1, <4>1
        <3>4. QED
            BY <3>2, <3>3
    <2>7. QED
        BY <1>6, <1>9, <2>4, <2>5, <2>6
<1>12. QED
    BY <1>2, <1>4, <1>5, <1>7, <1>10, <1>11

LEMMA RecordKeepsStore ==
    ASSUME StoreInv, NEW frame \in Frame, record(frame), replay_tag' \in Nat
    PROVE  StoreInv'
BY RecordTypes, RecordLogs, RecordFiles, RecordLoses DEF StoreInv

LEMMA LoadedIncreases ==
    ASSUME FileInv, file \in Seq(Line)
    PROVE  /\ Increasing(load_existing(file))
           /\ \A k \in DOMAIN load_existing(file) : load_existing(file)[k].seq \in 1..MaxSeq
<1>1. PICK pos \in Seq(Nat) :
        /\ Len(pos) = Len(load_existing(file))
        /\ \A j \in 1..Len(pos) : /\ pos[j] \in Records(file)
                                  /\ load_existing(file)[j] = file[pos[j]].entry
        /\ \A i, j \in 1..Len(pos) : i < j => pos[i] < pos[j]
    BY Loaded
<1>2. DOMAIN load_existing(file) = 1..Len(pos)
    BY <1>1, Loaded
<1>3. Records(file) \subseteq DOMAIN file
    BY DEF Records
<1>4. \A k \in DOMAIN load_existing(file) : load_existing(file)[k].seq \in 1..MaxSeq
    BY <1>1, <1>2, <1>3 DEF FileInv
<1>5. ASSUME NEW i \in 1..Len(pos), NEW j \in 1..Len(pos), i < j
      PROVE  load_existing(file)[i].seq < load_existing(file)[j].seq
    BY <1>1, <1>3, <1>5 DEF FileInv
<1>6. QED
    BY <1>2, <1>4, <1>5 DEF Increasing

LEMMA ReopenKeepsStore ==
    ASSUME StoreInv, hydrate_replay_store
    PROVE  StoreInv'
<1>1. /\ file \in Seq(Line) /\ runs \in 1..MaxRuns /\ MaxRuns \in Nat /\ MaxSeq \in Nat \ {0}
    BY ReplayStoreConstantsOK DEF StoreInv, StoreTypeOK, Line
<1>2. /\ runs < MaxRuns /\ runs' = runs + 1
      /\ replay_store' = ~Unreadable(file)
      /\ replay_log' = IF Unreadable(file) THEN <<>> ELSE load_existing(file)
      /\ next_replay_seq' = next_seq(replay_log')
      /\ replay_tag' = 0 /\ file' = file
    BY DEF hydrate_replay_store
<1>3. /\ load_existing(file) \in Seq(ReplayEntry) /\ Increasing(load_existing(file))
      /\ \A k \in DOMAIN load_existing(file) : load_existing(file)[k].seq \in 1..MaxSeq
    BY <1>1, Loaded, LoadedIncreases DEF StoreInv
<1>4. /\ replay_log' \in Seq(ReplayEntry) /\ Increasing(replay_log')
      /\ \A k \in DOMAIN replay_log' : replay_log'[k].seq \in 1..MaxSeq
    <2>1. CASE Unreadable(file)
        BY <1>2, <2>1 DEF Increasing
    <2>2. CASE ~Unreadable(file)
        BY <1>2, <1>3, <2>2
    <2>3. QED
        BY <2>1, <2>2
<1> DEFINE log == replay_log'
           next == next_seq(log)
<1>5. /\ next \in Nat \ {0} /\ \A k \in DOMAIN log : log[k].seq < next
      /\ next = 1 \/ \E k \in DOMAIN log : next = log[k].seq + 1
    <2> HIDE DEF log
    <2>1. log \in Seq(ReplayEntry) /\ Increasing(log)
        BY <1>4 DEF log
    <2>2. QED
        BY <2>1, NextSeq
<1>6. next_replay_seq' = next
    BY <1>2
<1> HIDE DEF next
<1>7. next_replay_seq' \in 1..MaxSeq + 1 /\ LogInv'
    BY <1>1, <1>4, <1>5, <1>6 DEF LogInv
<1>8. StoreTypeOK(Frame)'
    BY <1>1, <1>2, <1>4, <1>7 DEF StoreTypeOK, Line, ReplayEntry
<1>9. FileInv'
    <2>1. ASSUME ~Unreadable(file), NEW k \in Records(file)
          PROVE  file[k].entry.seq < next_replay_seq'
        <3>1. ToSet(log) = {file[j].entry : j \in Records(file)}
            BY <1>1, <1>2, <2>1, LoadedSet
        <3>2. file[k].entry \in ToSet(log)
            BY <3>1
        <3>3. PICK j \in DOMAIN log : log[j] = file[k].entry
            BY <3>2 DEF ToSet
        <3>4. QED
            BY <1>5, <1>6, <3>3
    <2>2. FileInv
        BY DEF StoreInv
    <2>3. Records(file') = Records(file)
        BY <1>2
    <2>4. Unreadable(file') = Unreadable(file)
        BY <1>2
    <2>5. QED
        BY <1>2, <2>1, <2>2, <2>3, <2>4 DEF FileInv
<1>10. OnlyTheTornIsLost'
    BY <1>2 DEF OnlyTheTornIsLost
<1>11. QED
    BY <1>7, <1>8, <1>9, <1>10 DEF StoreInv

LEMMA RestKeepsStore ==
    ASSUME StoreInv, UNCHANGED <<runs, replay_log, next_replay_seq, replay_store, file>>, replay_tag' \in Nat
    PROVE  StoreInv'
<1>1. StoreTypeOK(Frame)'
    BY DEF StoreInv, StoreTypeOK
<1>2. LogInv' /\ OnlyTheTornIsLost'
    BY DEF StoreInv, LogInv, OnlyTheTornIsLost
<1>3. Records(file') = Records(file) /\ Unreadable(file') = Unreadable(file)
    OBVIOUS
<1>4. FileInv'
    BY <1>3 DEF StoreInv, FileInv
<1>5. QED
    BY <1>1, <1>2, <1>4 DEF StoreInv

-----------------------------------------------------------------------------
(***************************************************************************)
(* What the steps of a room do to its log.                                 *)
(***************************************************************************)

RoomType ==
    /\ next_rooms_turn_id \in Nat \ {0} /\ active_rooms_turn_id \in 0..next_rooms_turn_id - 1
    /\ active_segment_id \in 0..MaxSegments
    /\ permission \in {"none", "open", "resolved"}
    /\ conns_so_far \in 0..MaxConns /\ conn \in {0, conns_so_far}
    /\ permission_seen \in BOOLEAN

\* A frame is broadcast to whoever is there, and nobody attaches.
Broadcasts ==
    \E method, turn :
        /\ [method |-> method, turn |-> turn] \in Frame
        /\ broadcast(method, turn)
        /\ UNCHANGED <<attaches, wakes>>

Speaks ==
    \/ turn_starts \/ cancel_active_turn \/ turn_completes
    \/ \E method \in AgentLines : handle_agent_line(method)
    \/ permission_opens \/ permission_resolves

LEMMA SpeaksBroadcasts ==
    ASSUME RoomType, Speaks
    PROVE  Broadcasts /\ RoomType' /\ UNCHANGED <<conn, conns_so_far>>
<1>1. CASE turn_starts
    <2>1. [method |-> "turn_started", turn |-> next_rooms_turn_id] \in Frame
        BY DEF RoomType, Frame
    <2>2. QED
        BY <1>1, <2>1 DEF turn_starts, Broadcasts, clientVars, RoomType
<1>2. CASE cancel_active_turn
    <2>1. [method |-> "turn_cancelled", turn |-> active_rooms_turn_id] \in Frame
        BY <1>2 DEF RoomType, Frame, cancel_active_turn
    <2>2. QED
        BY <1>2, <2>1 DEF cancel_active_turn, Broadcasts, clientVars, roomVars, turnVars, RoomType
<1>3. CASE turn_completes
    <2>1. [method |-> "turn_complete", turn |-> active_rooms_turn_id] \in Frame
        BY <1>3 DEF RoomType, Frame, turn_completes
    <2>2. QED
        BY <1>3, <2>1 DEF turn_completes, Broadcasts, clientVars, RoomType
<1>4. ASSUME NEW method \in AgentLines, handle_agent_line(method)
      PROVE  Broadcasts /\ RoomType' /\ UNCHANGED <<conn, conns_so_far>>
    <2>1. [method |-> method, turn |-> 0] \in Frame
        BY AttachStreamsConstantsOK DEF Frame
    <2>2. QED
        BY <1>4, <2>1 DEF handle_agent_line, Broadcasts, clientVars, roomVars, turnVars, RoomType
<1>5. CASE permission_opens
    <2>1. [method |-> "agent_request_opened", turn |-> 0] \in Frame
        BY DEF Frame
    <2>2. permission_seen' \in BOOLEAN
        BY <1>5 DEF permission_opens, RoomType
    <2>3. QED
        BY <1>5, <2>1, <2>2 DEF permission_opens, Broadcasts, clientVars, turnVars, RoomType
<1>6. CASE permission_resolves
    <2>1. [method |-> "agent_request_resolved", turn |-> 0] \in Frame
        BY DEF Frame
    <2>2. QED
        BY <1>6, <2>1 DEF permission_resolves, Broadcasts, clientVars, turnVars, RoomType
<1>7. QED
    BY <1>1, <1>2, <1>3, <1>4, <1>5, <1>6 DEF Speaks

LEMMA RoomTypeKept == RoomType /\ [StreamsNext]_streamVars => RoomType'
<1> SUFFICES ASSUME RoomType, [StreamsNext]_streamVars
             PROVE  RoomType'
    OBVIOUS
<1> USE AttachStreamsConstantsOK
<1>1. CASE Speaks
    BY <1>1, SpeaksBroadcasts
<1>2. CASE rotate_segment
    BY <1>2 DEF rotate_segment, RoomType, turnVars, clientVars
<1>3. CASE join
    <2>1. /\ conns_so_far < MaxConns /\ conns_so_far' = conns_so_far + 1
          /\ conn' = conns_so_far' /\ permission_seen' = FALSE
          /\ UNCHANGED <<active_rooms_turn_id, next_rooms_turn_id, active_segment_id, permission>>
        BY <1>3 DEF join, roomVars, turnVars
    <2>2. conns_so_far' \in 0..MaxConns
        BY <2>1 DEF RoomType
    <2>3. QED
        BY <2>1, <2>2 DEF RoomType
<1>4. CASE leave
    BY <1>4 DEF leave, RoomType, roomVars, turnVars
<1>5. CASE handle_attach_request
    BY <1>5 DEF handle_attach_request, RoomType, roomVars, turnVars
<1>6. ASSUME NEW wake \in wakes, on_wake(wake)
      PROVE  RoomType'
    <2>1. permission_seen' \in BOOLEAN
        BY <1>6 DEF on_wake, send_pending, send_replay_phase, RoomType
    <2>2. QED
        BY <1>6, <2>1 DEF on_wake, RoomType, roomVars, turnVars
<1>7. CASE room_reopens
    <2>1. /\ active_rooms_turn_id' = 0 /\ next_rooms_turn_id' = 1 /\ active_segment_id' = 0
          /\ permission' = "none" /\ conn' = 0 /\ permission_seen' = FALSE
          /\ UNCHANGED conns_so_far
        BY <1>7 DEF room_reopens
    <2>2. 0 \in 0..1 - 1 /\ 1 \in Nat \ {0} /\ 0 \in 0..MaxSegments
        OBVIOUS
    <2>3. QED
        BY <2>1, <2>2 DEF RoomType
<1>8. CASE UNCHANGED streamVars
    BY <1>8 DEF streamVars, roomVars, turnVars, clientVars, RoomType
<1>9. QED
    BY <1>1, <1>2, <1>3, <1>4, <1>5, <1>6, <1>7, <1>8 DEF StreamsNext, Speaks

LEMMA StoreKept == RoomType /\ StoreInv /\ [StreamsNext]_streamVars => StoreInv'
<1> SUFFICES ASSUME RoomType, StoreInv, [StreamsNext]_streamVars
             PROVE  StoreInv'
    OBVIOUS
<1>1. replay_tag \in Nat
    BY DEF StoreInv, StoreTypeOK
<1>2. CASE Speaks
    <2>1. PICK method, turn : [method |-> method, turn |-> turn] \in Frame /\ broadcast(method, turn)
        BY <1>2, SpeaksBroadcasts DEF Broadcasts
    <2> DEFINE frame == [method |-> method, turn |-> turn]
    <2>2. frame \in Frame /\ record(frame) /\ replay_tag' = replay_tag
        BY <2>1 DEF broadcast
    <2> HIDE DEF frame
    <2>3. QED
        BY <1>1, <2>2, RecordKeepsStore
<1>3. CASE rotate_segment
    <2>1. replay_tag' \in Nat /\ UNCHANGED <<runs, replay_log, next_replay_seq, replay_store, file>>
        BY <1>3, AttachStreamsConstantsOK DEF rotate_segment, RoomType
    <2>2. QED
        BY <2>1, RestKeepsStore
<1>4. ASSUME join \/ leave
      PROVE  StoreInv'
    <2>1. PICK frame \in Frame : record(frame) /\ replay_tag' = replay_tag
        <3>1. [method |-> "peer_joined", turn |-> 0] \in Frame /\ [method |-> "peer_left", turn |-> 0] \in Frame
            BY DEF Frame
        <3>2. QED
            BY <1>4, <3>1 DEF join, leave, broadcast
    <2>2. QED
        BY <1>1, <2>1, RecordKeepsStore
<1>5. ASSUME \/ handle_attach_request \/ \E wake \in wakes : on_wake(wake)
             \/ UNCHANGED streamVars
      PROVE  StoreInv'
    <2>1. UNCHANGED storeVars
        BY <1>5 DEF handle_attach_request, on_wake, streamVars
    <2>2. QED
        BY <1>1, <2>1, RestKeepsStore DEF storeVars, logVars
<1>6. CASE room_reopens
    BY <1>6, ReopenKeepsStore DEF room_reopens
<1>7. QED
    BY <1>2, <1>3, <1>4, <1>5, <1>6 DEF StreamsNext, Speaks

LEMMA RoomTypeInit == StreamsInit => RoomType
<1> SUFFICES ASSUME StreamsInit PROVE RoomType
    OBVIOUS
<1>1. /\ active_rooms_turn_id = 0 /\ next_rooms_turn_id = 1 /\ active_segment_id = 0
      /\ permission = "none" /\ conn = 0 /\ conns_so_far = 0 /\ permission_seen = FALSE
    BY DEF StreamsInit
<1>2. 0 \in 0..1 - 1 /\ 1 \in Nat \ {0} /\ 0 \in 0..MaxSegments /\ 0 \in 0..MaxConns
    BY AttachStreamsConstantsOK
<1>3. QED
    BY <1>1, <1>2 DEF RoomType

\* Along the log and along the file the sequence numbers grow
\* (replay_store.rs and MuxCore::broadcast), through any number of runs of
\* the room and of incomplete writes.  Inductive because what is appended
\* never makes a record of a line that was none, and the next number is
\* beyond the records of the file as long as it is written.
THEOREM SeqsGrow == StreamsSpec => []SeqsIncrease
<1>1. StoreInv => SeqsIncrease
    <2> SUFFICES ASSUME StoreInv PROVE SeqsIncrease
        OBVIOUS
    <2>1. file \in Seq(Line) /\ next_replay_seq \in Nat
        BY ReplayStoreConstantsOK DEF StoreInv, StoreTypeOK, Line
    <2>2. QED
        BY <2>1, LoadedIncreases DEF StoreInv, LogInv, SeqsIncrease
<1>2. QED
    BY <1>1, StoreInitInv, StoreKept, RoomTypeInit, RoomTypeKept, PTL DEF StreamsSpec

\* An incomplete write loses its own record and the next one, no other
\* (append and load_existing), whatever was written before and after.
THEOREM NoOtherRecordIsLost == StreamsSpec => []OnlyTheTornIsLost
<1>1. StoreInv => OnlyTheTornIsLost
    BY DEF StoreInv
<1>2. QED
    BY <1>1, StoreInitInv, StoreKept, RoomTypeInit, RoomTypeKept, PTL DEF StreamsSpec

-----------------------------------------------------------------------------
(***************************************************************************)
(* The history of an attach.                                               *)
(***************************************************************************)

LEMMA SeqsType ==
    ASSUME NEW entries \in Seq(ReplayEntry)
    PROVE  /\ Seqs(entries) \in Seq(Nat) /\ Len(Seqs(entries)) = Len(entries)
           /\ DOMAIN Seqs(entries) = 1..Len(entries) /\ DOMAIN entries = 1..Len(entries)
           /\ Len(entries) \in Nat
           /\ \A k \in 1..Len(entries) : Seqs(entries)[k] = entries[k].seq
<1>1. \A k \in 1..Len(entries) : entries[k].seq \in Nat
    BY Fields
<1>2. Seqs(entries) = [k \in 1..Len(entries) |-> entries[k].seq]
    BY DEF Seqs
<1>3. QED
    BY <1>1, <1>2

\* A sequence with as many elements as another one, and the same ones, has
\* none of them twice if the other one does not.
LEMMA SameInjective ==
    ASSUME NEW D, NEW s \in Seq(D), NEW t \in Seq(D), SameEntries(s, t), IsInjective(t)
    PROVE  IsInjective(s)
<1> DEFINE n == Len(s)
           T == ToSet(t)
<1>1. /\ n \in Nat /\ DOMAIN s = 1..n /\ DOMAIN t = 1..n /\ ToSet(s) = T
    BY DEF SameEntries
<1>2. IsFiniteSet(1..n) /\ Cardinality(1..n) = n
    BY <1>1, FS_Interval
<1>3. t \in Surjection(1..n, T) /\ t \in Injection(1..n, T)
    <2>1. t \in [1..n -> T] /\ \A x \in T : \E k \in 1..n : t[k] = x
        BY <1>1 DEF ToSet
    <2>2. QED
        BY <2>1 DEF Surjection, Injection
<1>4. s \in Surjection(1..n, T)
    <2> HIDE DEF n, T
    <2>1. T = {s[k] : k \in 1..n}
        BY <1>1 DEF ToSet
    <2>2. s = [k \in 1..n |-> s[k]]
        BY <1>1
    <2>3. s \in [1..n -> T]
        BY <2>1, <2>2
    <2>4. \A x \in T : \E k \in 1..n : s[k] = x
        BY <2>1
    <2>5. QED
        BY <2>3, <2>4 DEF Surjection
<1> HIDE DEF n, T
<1>5. Cardinality(T) = Cardinality(1..n)
    BY <1>2, <1>3, FS_Surjection
<1>6. s \in Injection(1..n, T)
    BY <1>2, <1>4, <1>5, FS_SurjSameCardinalityImpliesInj
<1>7. QED
    BY <1>6 DEF Injection

\* No frame of the log is in the history twice, and a lineage has all of
\* them but those that are not JSON-RPC.
LEMMA HistoryOfLog ==
    ASSUME NEW log \in Seq(ReplayEntry), Increasing(log), NEW order, NEW active, NEW turn,
           NEW full
    PROVE  LET history == Ordered(order, replay_history(log, active, turn, full))
           IN /\ history \in Seq(ReplayEntry) /\ IsInjective(Seqs(history))
              /\ \A i \in DOMAIN history : \E k \in DOMAIN log : history[i] = log[k]
              /\ full => \A k \in DOMAIN log : log[k].frame.method # "raw" =>
                    \E i \in DOMAIN history : history[i] = log[k]
              /\ order = "newest_turn_first" => history \in Stable(ReplayEntry)
<1> DEFINE at == {k \in DOMAIN log :
                    /\ log[k].frame.method # "raw"
                    /\ full \/ should_include_replay_entry(log[k], log, active, turn)}
           view == Kept(log, at)
           history == Ordered(order, view)
<1>1. replay_history(log, active, turn, full) = view
    BY DEF replay_history
<1>2. PICK pos \in Seq(Nat) : view \in Seq(ReplayEntry) /\ Enumerates(pos, view, log, at, Len(log))
    <2> HIDE DEF at
    <2>1. QED
        BY KeptPositions
<1>3. full => \A k \in DOMAIN log : log[k].frame.method # "raw" => k \in at
    OBVIOUS
<1>4. at \subseteq DOMAIN log /\ DOMAIN log = 1..Len(log)
    OBVIOUS
<1> HIDE DEF at, view
<1>5. /\ DOMAIN view = 1..Len(pos) /\ Len(pos) \in Nat
      /\ \A j \in 1..Len(pos) : pos[j] \in at /\ pos[j] \in Nat /\ view[j] = log[pos[j]]
      /\ \A i, j \in 1..Len(pos) : i < j => pos[i] < pos[j]
      /\ \A k \in at : \E j \in 1..Len(pos) : pos[j] = k
    BY <1>2, <1>4 DEF Enumerates
<1>6. \A i, j \in 1..Len(pos) : view[i].seq = view[j].seq => i = j
    <2>1. ASSUME NEW i \in 1..Len(pos), NEW j \in 1..Len(pos), i < j
          PROVE  view[i].seq # view[j].seq
        <3>1. /\ pos[i] \in DOMAIN log /\ pos[j] \in DOMAIN log /\ pos[i] < pos[j]
              /\ view[i] = log[pos[i]] /\ view[j] = log[pos[j]]
            BY <1>4, <1>5, <2>1
        <3>2. log[pos[i]].seq < log[pos[j]].seq
            BY <3>1 DEF Increasing
        <3>3. log[pos[i]].seq \in Nat /\ log[pos[j]].seq \in Nat
            BY <3>1, Fields
        <3>4. QED
            BY <3>1, <3>2, <3>3
    <2>2. \A i, j \in 1..Len(pos) : i = j \/ i < j \/ j < i
        BY <1>5
    <2>3. QED
        BY <2>1, <2>2
<1>7. IsInjective(view)
    BY <1>5, <1>6 DEF IsInjective
<1>8. history \in Seq(ReplayEntry) /\ SameEntries(history, view)
      /\ (order = "newest_turn_first" => history \in Stable(ReplayEntry))
    <2>1. CASE order = "newest_turn_first"
        BY <1>2, <2>1, NewestTurnFirst, NewestIsInOrder DEF Ordered
    <2>2. CASE order # "newest_turn_first"
        BY <1>2, <2>2 DEF Ordered, SameEntries
    <2>3. QED
        BY <2>1, <2>2
<1> HIDE DEF history
<1>9. IsInjective(history)
    BY <1>2, <1>7, <1>8, SameInjective
<1>10. {history[i] : i \in DOMAIN history} = {view[j] : j \in 1..Len(pos)}
    BY <1>5, <1>8 DEF SameEntries, ToSet
<1>11. /\ \A i \in DOMAIN history : \E j \in 1..Len(pos) : history[i] = view[j]
       /\ \A j \in 1..Len(pos) : \E i \in DOMAIN history : history[i] = view[j]
    <2>1. \A i \in DOMAIN history : history[i] \in {view[j] : j \in 1..Len(pos)}
        BY <1>10
    <2>2. \A j \in 1..Len(pos) : view[j] \in {history[i] : i \in DOMAIN history}
        BY <1>10
    <2>3. QED
        BY <2>1, <2>2
<1>12. IsInjective(Seqs(history))
    <2>1. /\ DOMAIN Seqs(history) = DOMAIN history
          /\ \A k \in DOMAIN history : Seqs(history)[k] = history[k].seq
        BY <1>8, SeqsType
    <2>2. \A i, j \in DOMAIN history : history[i].seq = history[j].seq => history[i] = history[j]
        <3>1. SUFFICES ASSUME NEW i \in DOMAIN history, NEW j \in DOMAIN history,
                              history[i].seq = history[j].seq
                       PROVE  history[i] = history[j]
            OBVIOUS
        <3>2. PICK a \in 1..Len(pos) : history[i] = view[a]
            BY <1>11
        <3>3. PICK b \in 1..Len(pos) : history[j] = view[b]
            BY <1>11
        <3>4. QED
            BY <1>6, <3>1, <3>2, <3>3
    <2>3. QED
        BY <1>9, <2>1, <2>2 DEF IsInjective
<1>13. \A i \in DOMAIN history : \E k \in DOMAIN log : history[i] = log[k]
    BY <1>4, <1>5, <1>11
<1>14. full => \A k \in DOMAIN log : log[k].frame.method # "raw" =>
            \E i \in DOMAIN history : history[i] = log[k]
    <2>1. SUFFICES ASSUME full, NEW k \in DOMAIN log, log[k].frame.method # "raw"
                   PROVE  \E i \in DOMAIN history : history[i] = log[k]
        OBVIOUS
    <2>2. PICK j \in 1..Len(pos) : pos[j] = k
        BY <1>3, <1>5, <2>1
    <2>3. QED
        BY <1>5, <1>11, <2>2
<1>15. QED
    BY <1>1, <1>8, <1>12, <1>13, <1>14 DEF history

-----------------------------------------------------------------------------
(***************************************************************************)
(* Phases.                                                                 *)
(***************************************************************************)

Numbers(pieces) == [k \in DOMAIN pieces |-> Seqs(pieces[k])]

LEMMA SeqsConcat ==
    ASSUME NEW s \in Seq(ReplayEntry), NEW t \in Seq(ReplayEntry)
    PROVE  Seqs(s \o t) = Seqs(s) \o Seqs(t)
<1> DEFINE u == s \o t
           v == Seqs(s) \o Seqs(t)
<1>1. /\ u \in Seq(ReplayEntry) /\ Len(u) = Len(s) + Len(t)
      /\ \A k \in 1..Len(s) + Len(t) : u[k] = IF k <= Len(s) THEN s[k] ELSE t[k - Len(s)]
    BY ConcatProperties
<1>2. /\ v \in Seq(Nat) /\ Len(v) = Len(s) + Len(t)
      /\ \A k \in 1..Len(s) + Len(t) : v[k] = IF k <= Len(s) THEN Seqs(s)[k] ELSE Seqs(t)[k - Len(s)]
    <2> DEFINE x == Seqs(s)
               y == Seqs(t)
    <2>1. x \in Seq(Nat) /\ y \in Seq(Nat) /\ Len(x) = Len(s) /\ Len(y) = Len(t)
        BY SeqsType
    <2> HIDE DEF x, y, u, v
    <2>2. /\ x \o y \in Seq(Nat) /\ Len(x \o y) = Len(x) + Len(y)
          /\ \A k \in 1..Len(x) + Len(y) : (x \o y)[k] = IF k <= Len(x) THEN x[k] ELSE y[k - Len(x)]
        BY <2>1, ConcatProperties
    <2>3. v = x \o y
        BY DEF x, y, v
    <2>4. QED
        BY <2>1, <2>2, <2>3 DEF x, y
<1> HIDE DEF u, v
<1>3. /\ Len(s) \in Nat /\ \A k \in 1..Len(s) : Seqs(s)[k] = s[k].seq
      /\ Len(t) \in Nat /\ \A k \in 1..Len(t) : Seqs(t)[k] = t[k].seq
      /\ Seqs(u) \in Seq(Nat) /\ Len(Seqs(u)) = Len(u)
      /\ \A k \in 1..Len(u) : Seqs(u)[k] = u[k].seq
    BY <1>1, SeqsType
<1>4. \A k \in 1..Len(u) : Seqs(u)[k] = v[k]
    <2>1. TAKE k \in 1..Len(u)
    <2>2. CASE k <= Len(s)
        <3>1. k \in 1..Len(s) /\ k \in 1..Len(s) + Len(t)
            BY <1>1, <1>3, <2>2
        <3>2. u[k] = s[k] /\ v[k] = Seqs(s)[k]
            BY <1>1, <1>2, <2>2, <3>1
        <3>3. QED
            BY <1>3, <3>1, <3>2
    <2>3. CASE k > Len(s)
        <3>1. k - Len(s) \in 1..Len(t) /\ k \in 1..Len(s) + Len(t) /\ ~(k <= Len(s))
            BY <1>1, <1>3, <2>3
        <3>2. u[k] = t[k - Len(s)] /\ v[k] = Seqs(t)[k - Len(s)]
            BY <1>1, <1>2, <3>1
        <3>3. QED
            BY <1>3, <3>1, <3>2
    <2>4. QED
        BY <1>1, <1>3, <2>2, <2>3
<1>5. Seqs(u) = v
    BY <1>1, <1>2, <1>3, <1>4, SeqEqual
<1>6. QED
    BY <1>5 DEF u, v

LEMMA NumbersFlatten ==
    ASSUME NEW pieces \in Seq(Seq(ReplayEntry))
    PROVE  /\ Numbers(pieces) \in Seq(Seq(Nat)) /\ Len(Numbers(pieces)) = Len(pieces)
           /\ FlattenSeq(Numbers(pieces)) = Seqs(FlattenSeq(pieces))
<1> DEFINE S == {ps \in Seq(Seq(ReplayEntry)) :
                    /\ Numbers(ps) \in Seq(Seq(Nat)) /\ Len(Numbers(ps)) = Len(ps)
                    /\ FlattenSeq(Numbers(ps)) = Seqs(FlattenSeq(ps))}
<1>1. <<>> \in S
    <2>1. Numbers(<<>>) = <<>> /\ Seqs(<<>>) = <<>>
        BY DEF Numbers, Seqs
    <2>2. QED
        BY <2>1, FlattenEmpty, EmptySeq
<1>2. ASSUME NEW ps \in Seq(Seq(ReplayEntry)), NEW p \in Seq(ReplayEntry), ps \in S
      PROVE  Append(ps, p) \in S
    <2> DEFINE longer == Append(ps, p)
    <2>1. /\ longer \in Seq(Seq(ReplayEntry)) /\ Len(ps) \in Nat /\ Len(longer) = Len(ps) + 1
          /\ \A k \in 1..Len(ps) + 1 : longer[k] = IF k = Len(ps) + 1 THEN p ELSE ps[k]
        BY AppendProperties
    <2> HIDE DEF longer
    <2>2. Seqs(p) \in Seq(Nat) /\ \A k \in 1..Len(ps) : Seqs(ps[k]) \in Seq(Nat)
        BY SeqsType
    <2>3. /\ Numbers(longer) = [k \in 1..Len(ps) + 1 |-> Seqs(longer[k])]
          /\ Numbers(ps) = [k \in 1..Len(ps) |-> Seqs(ps[k])]
        BY <2>1 DEF Numbers
    <2>4. \A k \in 1..Len(ps) + 1 : Seqs(longer[k]) \in Seq(Nat)
        <3>1. \A k \in 1..Len(ps) + 1 : longer[k] \in Seq(ReplayEntry)
            BY <2>1
        <3>2. QED
            BY <3>1, SeqsType
    <2>5. Numbers(longer) \in Seq(Seq(Nat)) /\ Len(Numbers(longer)) = Len(ps) + 1
        BY <2>1, <2>3, <2>4
    <2>6. Numbers(ps) \in Seq(Seq(Nat)) /\ Len(Numbers(ps)) = Len(ps)
        BY <1>2
    <2>7. Numbers(longer) = Append(Numbers(ps), Seqs(p))
        <3> DEFINE other == Append(Numbers(ps), Seqs(p))
                   numbers == Numbers(ps)
                   last == Seqs(p)
        <3>1. /\ other \in Seq(Seq(Nat)) /\ Len(other) = Len(ps) + 1
              /\ \A k \in 1..Len(ps) + 1 : other[k] = IF k = Len(ps) + 1 THEN last ELSE numbers[k]
            <4> HIDE DEF numbers, last
            <4>1. numbers \in Seq(Seq(Nat)) /\ Len(numbers) = Len(ps) /\ last \in Seq(Nat)
                BY <2>2, <2>6 DEF numbers, last
            <4>2. other = Append(numbers, last)
                BY DEF numbers, last
            <4>3. QED
                BY <4>1, <4>2, AppendProperties
        <3>2. \A k \in 1..Len(ps) : numbers[k] = Seqs(ps[k])
            BY <2>3
        <3> HIDE DEF other, numbers
        <3>3. \A k \in 1..Len(ps) + 1 : Numbers(longer)[k] = other[k]
            <4>1. TAKE k \in 1..Len(ps) + 1
            <4>2. Numbers(longer)[k] = Seqs(longer[k])
                BY <2>3
            <4>3. CASE k = Len(ps) + 1
                BY <2>1, <3>1, <4>2, <4>3
            <4>4. CASE k # Len(ps) + 1
                <5>1. k \in 1..Len(ps)
                    BY <2>1, <4>4
                <5>2. QED
                    BY <2>1, <3>1, <3>2, <4>2, <4>4, <5>1
            <4>5. QED
                BY <4>3, <4>4
        <3>4. QED
            BY <2>1, <2>5, <3>1, <3>3, SeqEqual DEF other, numbers
    <2>8. FlattenSeq(Numbers(longer)) = FlattenSeq(Numbers(ps)) \o Seqs(p)
        BY <2>2, <2>6, <2>7, FlattenAppend
    <2>9. FlattenSeq(longer) = FlattenSeq(ps) \o p /\ FlattenSeq(ps) \in Seq(ReplayEntry)
        BY FlattenAppend, FlattenType DEF longer
    <2>10. Seqs(FlattenSeq(longer)) = Seqs(FlattenSeq(ps)) \o Seqs(p)
        BY <2>9, SeqsConcat
    <2>11. FlattenSeq(Numbers(longer)) = Seqs(FlattenSeq(longer))
        BY <1>2, <2>8, <2>10
    <2>12. QED
        BY <2>1, <2>5, <2>11 DEF longer
<1> HIDE DEF S
<1>3. Seq(Seq(ReplayEntry)) \subseteq S
    BY <1>1, <1>2, AppendInduction
<1>4. QED
    BY <1>3 DEF S

\* The phases of the wake that is scheduled.
LEMMA PhasesOfHistory ==
    ASSUME NEW history \in Seq(ReplayEntry), NEW order,
           order = "newest_turn_first" => history \in Stable(ReplayEntry)
    PROVE  LET phases == replay_stream_phases(order, history)
               sent == [k \in DOMAIN phases |-> Seqs(phases[k].frames)]
           IN sent \in Seq(Seq(Nat)) /\ sent # <<>> /\ FlattenSeq(sent) = Seqs(history)
<1> DEFINE phases == replay_stream_phases(order, history)
           pieces == [k \in DOMAIN phases |-> phases[k].frames]
           sent == [k \in DOMAIN phases |-> Seqs(phases[k].frames)]
<1>1. pieces \in Seq(Seq(ReplayEntry)) /\ pieces # <<>> /\ FlattenSeq(pieces) = history
    BY PhasesInOrder
<1> HIDE DEF phases
<1>2. sent = Numbers(pieces)
    BY DEF Numbers
<1> HIDE DEF pieces
<1>3. /\ Numbers(pieces) \in Seq(Seq(Nat)) /\ Len(Numbers(pieces)) = Len(pieces)
      /\ FlattenSeq(Numbers(pieces)) = Seqs(history)
    BY <1>1, NumbersFlatten
<1>4. Len(pieces) # 0
    BY <1>1
<1>5. Numbers(pieces) # <<>>
    BY <1>3, <1>4
<1> HIDE DEF sent
<1>6. QED
    BY <1>2, <1>3, <1>5 DEF sent, phases

LEMMA FlattenHead ==
    ASSUME NEW D, NEW pieces \in Seq(Seq(D)), pieces # <<>>
    PROVE  /\ Head(pieces) \in Seq(D) /\ Tail(pieces) \in Seq(Seq(D))
           /\ Len(Tail(pieces)) = Len(pieces) - 1 /\ Len(pieces) \in Nat \ {0}
           /\ FlattenSeq(pieces) = Head(pieces) \o FlattenSeq(Tail(pieces))
<1> DEFINE first == Head(pieces)
           rest == Tail(pieces)
<1>1. /\ first \in Seq(D) /\ rest \in Seq(Seq(D)) /\ pieces = Append(<<>>, first) \o rest
      /\ Len(rest) = Len(pieces) - 1 /\ Len(pieces) \in Nat \ {0}
    OBVIOUS
<1> HIDE DEF first, rest
<1>2. Append(<<>>, first) \in Seq(Seq(D)) /\ Append(<<>>, first) = <<first>>
    BY <1>1, EmptySeq, AppendProperties
<1>3. FlattenSeq(<<first>> \o rest) = FlattenSeq(<<first>>) \o FlattenSeq(rest)
    BY <1>1, <1>2, FlattenConcat
<1>4. FlattenSeq(<<first>>) = first
    BY <1>1, FlattenOne
<1>5. QED
    BY <1>1, <1>2, <1>3, <1>4 DEF first, rest

-----------------------------------------------------------------------------
(***************************************************************************)
(* The invariant of the attaches.                                          *)
(***************************************************************************)

AttachTypes ==
    /\ attaches \in Seq(Attach) /\ Len(attaches) <= MaxAttaches
    /\ wakes \subseteq Wake
    /\ live \in Seq(1..MaxSeq)

\* One wake at a time for an attach; it has phases but for pending_only.
OneWake ==
    /\ \A w \in wakes :
        /\ w.attach \in DOMAIN attaches
        /\ (w.phases = <<>>) = (attaches[w.attach].policy = "pending_only")
    /\ \A v, w \in wakes : v.attach = w.attach => v = w

\* What was sent, and what is outstanding, is the history, for a connection
\* that is still the one that asked.
Arrives(n) ==
    LET a == attaches[n]
    IN /\ a.conn <= conns_so_far
       /\ Len(a.got) <= Len(a.history)
       /\ a.conn = conn =>
            /\ \A w \in wakes : w.attach = n => a.got \o FlattenSeq(w.phases) = a.history
            /\ Outstanding(n) \/ a.got = a.history

WakeInv == AttachTypes /\ OneWake /\ \A n \in DOMAIN attaches : Arrives(n)

\* The history is of the log up to the boundary.
UpToBoundary(a, log) ==
    /\ IsInjective(a.history)
    /\ \A i \in DOMAIN a.history : a.history[i] <= a.boundary
    /\ a.policy = "full_lineage" =>
        \A k \in DOMAIN log : log[k].seq <= a.boundary /\ log[k].frame.method # "raw" =>
            \E i \in DOMAIN a.history : a.history[i] = log[k].seq

HistoryInv ==
    \A n \in DOMAIN attaches :
        attaches[n].boundary < next_replay_seq /\ UpToBoundary(attaches[n], replay_log)

\* What is broadcast behind the boundary comes live.
LiveInv ==
    /\ \A i, j \in DOMAIN live : i < j => live[i] < live[j]
    /\ \A i \in DOMAIN live : live[i] < next_replay_seq
    /\ \A n \in DOMAIN attaches : attaches[n].conn = conn =>
        \A k \in DOMAIN replay_log : replay_log[k].seq > attaches[n].boundary =>
            \E i \in DOMAIN live : live[i] = replay_log[k].seq

PendingInv ==
    \A n \in DOMAIN attaches :
        attaches[n].conn = conn /\ attaches[n].policy = "pending_only" /\ permission = "open"
            => permission_seen \/ Outstanding(n)

StreamsInv == RoomType /\ StoreInv /\ WakeInv /\ HistoryInv /\ LiveInv /\ PendingInv

LEMMA AttachFields ==
    /\ \A a \in Attach : /\ a.conn \in 1..MaxConns /\ a.policy \in HistoryPolicies
                         /\ a.boundary \in Nat /\ a.history \in Seq(Nat) /\ a.got \in Seq(Nat)
    /\ \A w \in Wake : w.attach \in 1..MaxAttaches /\ w.phases \in Seq(Seq(Nat))
BY DEF Attach, Wake

LEMMA AttachesInit == StreamsInit => WakeInv /\ HistoryInv /\ LiveInv /\ PendingInv
<1> SUFFICES ASSUME StreamsInit
             PROVE  WakeInv /\ HistoryInv /\ LiveInv /\ PendingInv
    OBVIOUS
<1>1. live = <<>> /\ attaches = <<>> /\ wakes = {}
    BY DEF StreamsInit
<1>2. DOMAIN <<>> = {} /\ Len(<<>>) = 0 /\ <<>> \in Seq(Attach) /\ <<>> \in Seq(1..MaxSeq)
    BY EmptySeq
<1>3. WakeInv
    BY <1>1, <1>2, AttachStreamsConstantsOK DEF WakeInv, AttachTypes, OneWake
<1>4. HistoryInv /\ LiveInv /\ PendingInv
    BY <1>1, <1>2 DEF HistoryInv, LiveInv, PendingInv
<1>5. QED
    BY <1>3, <1>4

LEMMA AttachesReopen ==
    ASSUME room_reopens
    PROVE  WakeInv' /\ HistoryInv' /\ LiveInv' /\ PendingInv'
<1>1. live' = <<>> /\ attaches' = <<>> /\ wakes' = {}
    BY DEF room_reopens
<1>2. DOMAIN <<>> = {} /\ Len(<<>>) = 0 /\ <<>> \in Seq(Attach) /\ <<>> \in Seq(1..MaxSeq)
    BY EmptySeq
<1>3. WakeInv'
    BY <1>1, <1>2, AttachStreamsConstantsOK DEF WakeInv, AttachTypes, OneWake
<1>4. HistoryInv' /\ LiveInv' /\ PendingInv'
    BY <1>1, <1>2 DEF HistoryInv, LiveInv, PendingInv
<1>5. QED
    BY <1>3, <1>4

\* The connection stays, or nobody is there, or a new one is.
OtherConn == conn' = 0 \/ conn' > conns_so_far

LEMMA NoneAsked ==
    ASSUME RoomType, WakeInv, OtherConn
    PROVE  \A n \in DOMAIN attaches : attaches[n].conn # conn'
<1>1. SUFFICES ASSUME NEW n \in DOMAIN attaches PROVE attaches[n].conn # conn'
    OBVIOUS
<1>2. attaches[n] \in Attach /\ Arrives(n)
    BY DEF WakeInv, AttachTypes
<1>3. attaches[n].conn \in 1..MaxConns /\ attaches[n].conn <= conns_so_far
    BY <1>2, AttachFields DEF Arrives
<1>4. conns_so_far \in Nat /\ MaxConns \in Nat
    BY AttachStreamsConstantsOK DEF RoomType
<1>5. QED
    BY <1>3, <1>4 DEF OtherConn

LEMMA SameAttaches ==
    ASSUME RoomType, RoomType', WakeInv, UNCHANGED <<attaches, wakes>>, live' \in Seq(1..MaxSeq),
           conns_so_far <= conns_so_far', conn' = conn \/ OtherConn
    PROVE  WakeInv'
<1>1. AttachTypes' /\ OneWake'
    BY DEF WakeInv, AttachTypes, OneWake
<1>2. ASSUME NEW n \in DOMAIN attaches
      PROVE  Arrives(n)'
    <2>1. Arrives(n) /\ attaches[n] \in Attach
        BY DEF WakeInv, AttachTypes
    <2>2. attaches[n].conn <= conns_so_far'
        <3>1. attaches[n].conn \in 1..MaxConns /\ attaches[n].conn <= conns_so_far
            BY <2>1, AttachFields DEF Arrives
        <3>2. conns_so_far \in Nat /\ conns_so_far' \in Nat /\ MaxConns \in Nat
            BY AttachStreamsConstantsOK DEF RoomType
        <3>3. QED
            BY <3>1, <3>2
    <2>3. Outstanding(n)' = Outstanding(n)
        BY DEF Outstanding
    <2>4. CASE conn' = conn
        BY <2>1, <2>2, <2>3, <2>4 DEF Arrives
    <2>5. CASE OtherConn
        <3>1. attaches[n].conn # conn'
            BY <2>5, NoneAsked
        <3>2. QED
            BY <2>1, <2>2, <3>1 DEF Arrives
    <2>6. QED
        BY <2>4, <2>5
<1>3. QED
    BY <1>1, <1>2 DEF WakeInv

LEMMA MoreHistory ==
    ASSUME StoreInv, WakeInv, HistoryInv, NEW frame \in Frame, record(frame), replay_tag' \in Nat,
           UNCHANGED attaches
    PROVE  HistoryInv'
<1> DEFINE entry == [seq |-> next_replay_seq, tag |-> replay_tag, frame |-> frame]
<1>1. replay_log \in Seq(ReplayEntry) /\ next_replay_seq \in Nat
    BY ReplayStoreConstantsOK DEF StoreInv, StoreTypeOK, ReplayEntry
<1>2. entry \in ReplayEntry /\ entry.seq = next_replay_seq
    BY RecordTypes
<1>3. replay_log' = Append(replay_log, entry) /\ next_replay_seq' = next_replay_seq + 1
    BY DEF record
<1> HIDE DEF entry
<1>4. /\ DOMAIN replay_log = 1..Len(replay_log) /\ Len(replay_log) \in Nat
      /\ DOMAIN replay_log' = 1..Len(replay_log) + 1
      /\ \A k \in 1..Len(replay_log) : replay_log'[k] = replay_log[k]
      /\ replay_log'[Len(replay_log) + 1].seq = next_replay_seq
    BY <1>1, <1>2, <1>3
<1>5. ASSUME NEW n \in DOMAIN attaches
      PROVE  attaches[n].boundary < next_replay_seq' /\ UpToBoundary(attaches[n], replay_log')
    <2> DEFINE a == attaches[n]
    <2>1. a.boundary < next_replay_seq /\ UpToBoundary(a, replay_log)
        BY DEF HistoryInv
    <2>2. a.boundary \in Nat
        BY AttachFields DEF WakeInv, AttachTypes
    <2> HIDE DEF a
    <2>3. a.boundary < next_replay_seq'
        BY <1>1, <1>3, <2>1, <2>2
    <2>4. \A k \in DOMAIN replay_log' : replay_log'[k].seq <= a.boundary =>
            k \in DOMAIN replay_log /\ replay_log'[k] = replay_log[k]
        <3>1. SUFFICES ASSUME NEW k \in DOMAIN replay_log', replay_log'[k].seq <= a.boundary
                       PROVE  k \in DOMAIN replay_log /\ replay_log'[k] = replay_log[k]
            OBVIOUS
        <3>2. k # Len(replay_log) + 1
            BY <1>1, <1>4, <2>1, <2>2, <3>1
        <3>3. QED
            BY <1>4, <3>2
    <2>5. UpToBoundary(a, replay_log')
        BY <2>1, <2>4 DEF UpToBoundary
    <2>6. QED
        BY <2>3, <2>5 DEF a
<1>6. QED
    BY <1>5 DEF HistoryInv

LEMMA MoreLive ==
    ASSUME StoreInv, AttachTypes, LiveInv, NEW frame \in Frame, record(frame), replay_tag' \in Nat,
           UNCHANGED attaches,
           \/ conn' = conn /\ live' = Append(live, next_replay_seq)
           \/ /\ \A n \in DOMAIN attaches : attaches[n].conn # conn'
              /\ live' \in {live, <<>>}
    PROVE  LiveInv'
<1> DEFINE entry == [seq |-> next_replay_seq, tag |-> replay_tag, frame |-> frame]
<1>1. /\ replay_log \in Seq(ReplayEntry) /\ next_replay_seq \in Nat
      /\ live \in Seq(1..MaxSeq) /\ MaxSeq \in Nat
    BY ReplayStoreConstantsOK DEF StoreInv, StoreTypeOK, ReplayEntry, AttachTypes
<1>2. entry \in ReplayEntry /\ entry.seq = next_replay_seq
    BY RecordTypes
<1>3. /\ replay_log' = Append(replay_log, entry) /\ next_replay_seq' = next_replay_seq + 1
      /\ next_replay_seq <= MaxSeq
    BY DEF record
<1> HIDE DEF entry
<1>4. /\ DOMAIN replay_log = 1..Len(replay_log) /\ Len(replay_log) \in Nat
      /\ DOMAIN replay_log' = 1..Len(replay_log) + 1
      /\ \A k \in 1..Len(replay_log) : replay_log'[k] = replay_log[k]
      /\ replay_log'[Len(replay_log) + 1].seq = next_replay_seq
    BY <1>1, <1>2, <1>3
<1>5. /\ \A i, j \in DOMAIN live : i < j => live[i] < live[j]
      /\ \A i \in DOMAIN live : live[i] < next_replay_seq /\ live[i] \in 1..MaxSeq
    BY <1>1 DEF LiveInv
<1>6. ASSUME conn' = conn, live' = Append(live, next_replay_seq)
      PROVE  LiveInv'
    <2> DEFINE last == Len(live) + 1
    <2>1. /\ DOMAIN live = 1..Len(live) /\ Len(live) \in Nat /\ DOMAIN live' = 1..last
          /\ \A i \in 1..Len(live) : live'[i] = live[i]
          /\ live'[last] = next_replay_seq
        BY <1>1, <1>6
    <2> HIDE DEF last
    <2>2. \A i \in DOMAIN live' : i \in 1..Len(live) \/ i = last
        BY <2>1 DEF last
    <2>3. \A i \in 1..Len(live) : /\ live'[i] < next_replay_seq /\ live'[i] \in Nat
                                  /\ i < last /\ i \in Nat
        BY <1>1, <1>5, <2>1 DEF last
    <2>4. last \in Nat /\ ~(last < last)
        BY <2>1 DEF last
    <2>5. \A i, j \in DOMAIN live' : i < j => live'[i] < live'[j]
        <3>1. SUFFICES ASSUME NEW i \in DOMAIN live', NEW j \in DOMAIN live', i < j
                       PROVE  live'[i] < live'[j]
            OBVIOUS
        <3>2. i \in 1..Len(live)
            BY <2>2, <2>3, <2>4, <3>1
        <3>3. CASE j \in 1..Len(live)
            BY <1>5, <2>1, <3>1, <3>2, <3>3
        <3>4. CASE j = last
            BY <2>1, <2>3, <3>2, <3>4
        <3>5. QED
            BY <2>2, <3>3, <3>4
    <2>6. \A i \in DOMAIN live' : live'[i] < next_replay_seq'
        <3>1. TAKE i \in DOMAIN live'
        <3>2. CASE i \in 1..Len(live)
            BY <1>1, <1>3, <2>3, <3>2
        <3>3. CASE i = last
            BY <1>1, <1>3, <2>1, <3>3
        <3>4. QED
            BY <2>2, <3>2, <3>3
    <2>7. ASSUME NEW n \in DOMAIN attaches, attaches[n].conn = conn, NEW k \in DOMAIN replay_log',
                 replay_log'[k].seq > attaches[n].boundary
          PROVE  \E i \in DOMAIN live' : live'[i] = replay_log'[k].seq
        <3>1. CASE k \in 1..Len(replay_log)
            <4>1. PICK i \in DOMAIN live : live[i] = replay_log[k].seq
                BY <1>4, <2>7, <3>1 DEF LiveInv
            <4>2. i \in DOMAIN live' /\ live'[i] = live[i]
                BY <2>1, <4>1 DEF last
            <4>3. QED
                BY <1>4, <3>1, <4>1, <4>2
        <3>2. CASE k = Len(replay_log) + 1
            <4>1. last \in DOMAIN live'
                BY <2>1, <2>4 DEF last
            <4>2. QED
                BY <1>4, <2>1, <3>2, <4>1
        <3>3. QED
            BY <1>4, <3>1, <3>2
    <2>8. QED
        BY <1>6, <2>5, <2>6, <2>7 DEF LiveInv
<1>7. ASSUME \A n \in DOMAIN attaches : attaches[n].conn # conn', live' \in {live, <<>>}
      PROVE  LiveInv'
    <2>1. /\ \A i, j \in DOMAIN live' : i < j => live'[i] < live'[j]
          /\ \A i \in DOMAIN live' : live'[i] < next_replay_seq'
        <3>1. CASE live' = live
            BY <1>1, <1>3, <1>5, <3>1
        <3>2. CASE live' = <<>>
            BY <3>2
        <3>3. QED
            BY <1>7, <3>1, <3>2
    <2>2. QED
        BY <1>7, <2>1 DEF LiveInv
<1>8. QED
    BY <1>6, <1>7

LEMMA SpeaksPermission ==
    ASSUME RoomType, Speaks, permission' = "open", conn # 0
    PROVE  (permission = "open" /\ permission_seen' = permission_seen) \/ permission_seen'
BY DEF Speaks, turn_starts, cancel_active_turn, turn_completes, handle_agent_line,
       permission_opens, permission_resolves, roomVars, turnVars

LEMMA SpeaksKeeps ==
    ASSUME StreamsInv, RoomType', Speaks
    PROVE  WakeInv' /\ HistoryInv' /\ LiveInv' /\ PendingInv'
<1>1. /\ RoomType /\ StoreInv /\ WakeInv /\ HistoryInv /\ LiveInv /\ PendingInv
      /\ attaches \in Seq(Attach) /\ live \in Seq(1..MaxSeq)
    BY DEF StreamsInv, WakeInv, AttachTypes
<1>2. /\ UNCHANGED <<conn, conns_so_far, attaches, wakes>>
      /\ \E method, turn : [method |-> method, turn |-> turn] \in Frame /\ broadcast(method, turn)
    BY <1>1, SpeaksBroadcasts DEF Broadcasts
<1>3. PICK frame \in Frame :
        /\ record(frame) /\ replay_tag' = replay_tag
        /\ live' = IF conn = 0 THEN live ELSE Append(live, next_replay_seq)
    BY <1>2 DEF broadcast
<1>4. replay_tag' \in Nat
    BY <1>1, <1>3 DEF StoreInv, StoreTypeOK
<1>5. next_replay_seq \in 1..MaxSeq
    BY <1>1, <1>3, ReplayStoreConstantsOK DEF StoreInv, StoreTypeOK, record
<1>6. live' \in Seq(1..MaxSeq)
    <2>1. Append(live, next_replay_seq) \in Seq(1..MaxSeq)
        BY <1>1, <1>5, AppendProperties
    <2>2. QED
        BY <1>1, <1>3, <2>1
<1>7. WakeInv'
    <2>1. conns_so_far <= conns_so_far'
        BY <1>1, <1>2 DEF RoomType
    <2>2. QED
        BY <1>1, <1>2, <1>6, <2>1, SameAttaches
<1>8. HistoryInv'
    BY <1>1, <1>2, <1>3, <1>4, MoreHistory
<1>9. LiveInv'
    <2>1. CASE conn # 0
        BY <1>1, <1>2, <1>3, <1>4, <2>1, MoreLive DEF WakeInv
    <2>2. CASE conn = 0
        <3>1. \A n \in DOMAIN attaches : attaches[n].conn # conn'
            BY <1>1, <1>2, <2>2, NoneAsked DEF OtherConn
        <3>2. live' \in {live, <<>>}
            BY <1>3, <2>2
        <3>3. QED
            BY <1>1, <1>2, <1>3, <1>4, <3>1, <3>2, MoreLive DEF WakeInv
    <2>3. QED
        BY <2>1, <2>2
<1>10. PendingInv'
    <2>1. SUFFICES ASSUME NEW n \in DOMAIN attaches, attaches[n].conn = conn,
                          attaches[n].policy = "pending_only", permission' = "open"
                   PROVE  permission_seen' \/ Outstanding(n)'
        BY <1>2 DEF PendingInv
    <2>2. conn # 0
        BY <1>1, <2>1, AttachFields
    <2>3. (permission = "open" /\ permission_seen' = permission_seen) \/ permission_seen'
        BY <1>1, <2>1, <2>2, SpeaksPermission
    <2>4. Outstanding(n)' = Outstanding(n)
        BY <1>2 DEF Outstanding
    <2>5. QED
        BY <1>1, <2>1, <2>3, <2>4 DEF PendingInv
<1>11. QED
    BY <1>7, <1>8, <1>9, <1>10

LEMMA ComesAndGoes ==
    ASSUME StreamsInv, RoomType', join \/ leave
    PROVE  WakeInv' /\ HistoryInv' /\ LiveInv' /\ PendingInv'
<1>1. /\ RoomType /\ StoreInv /\ WakeInv /\ HistoryInv /\ LiveInv
      /\ attaches \in Seq(Attach) /\ live \in Seq(1..MaxSeq)
    BY DEF StreamsInv, WakeInv, AttachTypes
<1>2. UNCHANGED <<attaches, wakes>>
    BY DEF join, leave
<1>3. \E frame \in Frame : record(frame) /\ replay_tag' = replay_tag
    <2>1. /\ [method |-> "peer_joined", turn |-> 0] \in Frame
          /\ [method |-> "peer_left", turn |-> 0] \in Frame
        BY DEF Frame
    <2>2. QED
        BY <2>1 DEF join, leave, broadcast
<1>4. live' \in {live, <<>>}
    BY DEF join, leave, broadcast
<1>5. OtherConn /\ conns_so_far <= conns_so_far'
    BY <1>1 DEF join, leave, OtherConn, RoomType
<1>6. PICK frame \in Frame : record(frame) /\ replay_tag' = replay_tag
    BY <1>3
<1>7. replay_tag' \in Nat
    BY <1>1, <1>6 DEF StoreInv, StoreTypeOK
<1>8. \A n \in DOMAIN attaches : attaches[n].conn # conn'
    BY <1>1, <1>5, NoneAsked
<1>9. WakeInv'
    <2>1. live' \in Seq(1..MaxSeq)
        BY <1>1, <1>4, EmptySeq
    <2>2. QED
        BY <1>1, <1>2, <1>5, <2>1, SameAttaches
<1>10. HistoryInv'
    BY <1>1, <1>2, <1>6, <1>7, MoreHistory
<1>11. LiveInv'
    BY <1>1, <1>2, <1>4, <1>6, <1>7, <1>8, MoreLive DEF WakeInv
<1>12. PendingInv'
    BY <1>2, <1>8 DEF PendingInv
<1>13. QED
    BY <1>9, <1>10, <1>11, <1>12

-----------------------------------------------------------------------------
(***************************************************************************)
(* A client asks.                                                          *)
(***************************************************************************)

\* The attach is added, complete, or with one wake whose phases, one after
\* the other, are its history.
Added(a, scheduled) ==
    /\ attaches' = Append(attaches, a) /\ a.conn = conn /\ a.boundary = replay_boundary_seq
    /\ wakes' = wakes \cup scheduled
    /\ \/ scheduled = {} /\ a.got = a.history
       \/ \E phases \in Seq(Seq(Nat)) :
            /\ scheduled = {[attach |-> Len(attaches) + 1, phases |-> phases]}
            /\ a.got = <<>> /\ FlattenSeq(phases) = a.history
            /\ (phases = <<>>) = (a.policy = "pending_only")
    /\ a.policy = "pending_only" /\ permission = "open" => scheduled # {}
    /\ IsInjective(a.history)
    /\ \A i \in DOMAIN a.history : \E k \in DOMAIN replay_log : a.history[i] = replay_log[k].seq
    /\ a.policy = "full_lineage" =>
        \A k \in DOMAIN replay_log : replay_log[k].frame.method # "raw" =>
            \E i \in DOMAIN a.history : a.history[i] = replay_log[k].seq

LEMMA Boundary ==
    ASSUME StoreInv
    PROVE  /\ replay_boundary_seq \in Nat /\ replay_boundary_seq < next_replay_seq
           /\ \A k \in DOMAIN replay_log : replay_log[k].seq <= replay_boundary_seq
<1>1. replay_log \in Seq(ReplayEntry) /\ next_replay_seq \in Nat \ {0}
    BY ReplayStoreConstantsOK DEF StoreInv, StoreTypeOK, ReplayEntry
<1>2. /\ Increasing(replay_log)
      /\ \A k \in DOMAIN replay_log : replay_log[k].seq \in 1..next_replay_seq - 1
    BY DEF StoreInv, LogInv
<1>3. CASE replay_log = <<>>
    BY <1>1, <1>3 DEF replay_boundary_seq
<1>4. CASE replay_log # <<>>
    <2>1. /\ DOMAIN replay_log = 1..Len(replay_log) /\ Len(replay_log) \in Nat
          /\ Len(replay_log) \in DOMAIN replay_log
        BY <1>1, <1>4
    <2>2. replay_boundary_seq = replay_log[Len(replay_log)].seq
        BY <1>4 DEF replay_boundary_seq, Last
    <2>3. \A k \in DOMAIN replay_log : k = Len(replay_log) \/ k < Len(replay_log)
        BY <2>1
    <2>4. QED
        BY <1>1, <1>2, <2>1, <2>2, <2>3 DEF Increasing
<1>5. QED
    BY <1>3, <1>4

LEMMA Asks ==
    ASSUME StreamsInv, handle_attach_request
    PROVE  \E a \in Attach, scheduled \in SUBSET Wake : Added(a, scheduled)
<1>1. /\ replay_log \in Seq(ReplayEntry) /\ Increasing(replay_log)
      /\ conn \in 1..MaxConns /\ Len(attaches) + 1 \in 1..MaxAttaches
      /\ replay_boundary_seq \in Nat
    <2>1. RoomType /\ StoreInv /\ attaches \in Seq(Attach)
        BY DEF StreamsInv, WakeInv, AttachTypes
    <2>2. conn # 0 /\ Len(attaches) < MaxAttaches
        BY DEF handle_attach_request
    <2>3. replay_log \in Seq(ReplayEntry) /\ Increasing(replay_log)
        BY <2>1 DEF StoreInv, StoreTypeOK, LogInv, ReplayEntry
    <2>4. conn \in 1..MaxConns /\ Len(attaches) + 1 \in 1..MaxAttaches
        BY <2>1, <2>2, AttachStreamsConstantsOK DEF RoomType
    <2>5. QED
        BY <2>1, <2>3, <2>4, Boundary
<1>2. ASSUME NEW policy \in {"full", "full_lineage"}, NEW order, on_attach(policy, order)
      PROVE  \E a \in Attach, scheduled \in SUBSET Wake : Added(a, scheduled)
    <2> DEFINE full == (policy = "full_lineage")
               history == Ordered(order, replay_history(replay_log, active_segment_id,
                                                        active_rooms_turn_id, full))
               seqs == Seqs(history)
               phases == replay_stream_phases(order, history)
               sent == [k \in DOMAIN phases |-> Seqs(phases[k].frames)]
    <2>1. /\ history \in Seq(ReplayEntry) /\ IsInjective(seqs)
          /\ \A i \in DOMAIN history : \E k \in DOMAIN replay_log : history[i] = replay_log[k]
          /\ full => \A k \in DOMAIN replay_log : replay_log[k].frame.method # "raw" =>
                \E i \in DOMAIN history : history[i] = replay_log[k]
          /\ order = "newest_turn_first" => history \in Stable(ReplayEntry)
        <3> HIDE DEF full
        <3>1. LET past == Ordered(order, replay_history(replay_log, active_segment_id,
                                                        active_rooms_turn_id, full))
              IN /\ past \in Seq(ReplayEntry) /\ IsInjective(Seqs(past))
                 /\ \A i \in DOMAIN past : \E k \in DOMAIN replay_log : past[i] = replay_log[k]
                 /\ full => \A k \in DOMAIN replay_log : replay_log[k].frame.method # "raw" =>
                        \E i \in DOMAIN past : past[i] = replay_log[k]
                 /\ order = "newest_turn_first" => past \in Stable(ReplayEntry)
            BY <1>1, HistoryOfLog
        <3>2. QED
            BY <3>1
    <2>2. \/ asked(policy, history, seqs) /\ UNCHANGED wakes
          \/ asked(policy, history, <<>>) /\ schedule_wake(phases)
        BY <1>2 DEF on_attach
    <2> HIDE DEF history
    <2>3. /\ seqs \in Seq(Nat) /\ DOMAIN seqs = DOMAIN history
          /\ \A i \in DOMAIN history : seqs[i] = history[i].seq
        BY <2>1, SeqsType
    <2>4. sent \in Seq(Seq(Nat)) /\ sent # <<>> /\ FlattenSeq(sent) = seqs
        BY <2>1, PhasesOfHistory
    <2> DEFINE asked_for(got) ==
                [conn |-> conn, policy |-> policy, got |-> got, boundary |-> replay_boundary_seq,
                 history |-> seqs]
               wake == [attach |-> Len(attaches) + 1, phases |-> sent]
    <2>5. schedule_wake(phases) => wakes' = wakes \cup {wake}
        BY DEF schedule_wake
    <2>6. ASSUME NEW got, asked(policy, history, got)
          PROVE  attaches' = Append(attaches, asked_for(got))
        BY <2>6 DEF asked
    <2> HIDE DEF seqs, phases, sent
    <2>7. wake \in Wake
        BY <1>1, <2>4 DEF Wake
    <2>8. \A got \in Seq(Nat) : asked_for(got) \in Attach
        BY <1>1, <2>3 DEF Attach, HistoryPolicies
    <2>9. /\ IsInjective(seqs)
          /\ \A i \in DOMAIN seqs : \E k \in DOMAIN replay_log : seqs[i] = replay_log[k].seq
          /\ policy = "full_lineage" =>
                \A k \in DOMAIN replay_log : replay_log[k].frame.method # "raw" =>
                    \E i \in DOMAIN seqs : seqs[i] = replay_log[k].seq
        BY <2>1, <2>3 DEF seqs
    <2>10. CASE asked(policy, history, seqs) /\ UNCHANGED wakes
        <3> DEFINE a == asked_for(seqs)
        <3>1. a \in Attach /\ attaches' = Append(attaches, a)
            BY <2>3, <2>6, <2>8, <2>10
        <3>2. Added(a, {})
            BY <2>9, <2>10, <3>1 DEF Added
        <3>3. QED
            BY <3>1, <3>2
    <2>11. CASE asked(policy, history, <<>>) /\ schedule_wake(phases)
        <3> DEFINE a == asked_for(<<>>)
        <3>1. a \in Attach /\ attaches' = Append(attaches, a)
            BY <2>6, <2>8, <2>11, EmptySeq
        <3>2. wakes' = wakes \cup {wake}
            BY <2>5, <2>11
        <3>3. Added(a, {wake})
            BY <2>4, <2>9, <3>1, <3>2 DEF Added
        <3>4. {wake} \in SUBSET Wake
            BY <2>7
        <3>5. QED
            BY <3>1, <3>3, <3>4
    <2>12. QED
        BY <2>2, <2>10, <2>11
<1>3. ASSUME attach_pending_only
      PROVE  \E a \in Attach, scheduled \in SUBSET Wake : Added(a, scheduled)
    <2> DEFINE a == [conn |-> conn, policy |-> "pending_only", got |-> <<>>,
                     boundary |-> replay_boundary_seq, history |-> <<>>]
               wake == [attach |-> Len(attaches) + 1, phases |-> <<>>]
    <2>1. Seqs(<<>>) = <<>>
        BY DEF Seqs
    <2>2. attaches' = Append(attaches, a)
        BY <1>3, <2>1 DEF attach_pending_only, asked
    <2>3. <<>> \in Seq(Nat) /\ <<>> \in Seq(Seq(Nat)) /\ FlattenSeq(<<>>) = <<>> /\ DOMAIN <<>> = {}
        BY EmptySeq, FlattenEmpty
    <2>4. a \in Attach
        BY <1>1, <2>3 DEF Attach, HistoryPolicies
    <2>5. wake \in Wake
        BY <1>1, <2>3 DEF Wake
    <2>6. IsInjective(<<>>)
        BY <2>3 DEF IsInjective
    <2>7. CASE permission = "open"
        <3>1. wakes' = wakes \cup {wake}
            BY <1>3, <2>7 DEF attach_pending_only, schedule_wake
        <3>2. Added(a, {wake})
            BY <2>2, <2>3, <2>6, <3>1 DEF Added
        <3>3. {wake} \in SUBSET Wake
            BY <2>5
        <3>4. QED
            BY <2>4, <3>2, <3>3
    <2>8. CASE permission # "open"
        <3>1. UNCHANGED wakes
            BY <1>3, <2>8 DEF attach_pending_only
        <3>2. Added(a, {})
            BY <2>2, <2>3, <2>6, <2>8, <3>1 DEF Added
        <3>3. QED
            BY <2>4, <3>2
    <2>9. QED
        BY <2>7, <2>8
<1>4. QED
    BY <1>2, <1>3 DEF handle_attach_request

LEMMA AskKeeps ==
    ASSUME StreamsInv, handle_attach_request
    PROVE  WakeInv' /\ HistoryInv' /\ LiveInv' /\ PendingInv'
<1>1. /\ RoomType /\ StoreInv /\ WakeInv /\ HistoryInv /\ LiveInv /\ PendingInv
      /\ attaches \in Seq(Attach) /\ AttachTypes /\ OneWake
    BY DEF StreamsInv, WakeInv, AttachTypes
<1>2. PICK a \in Attach, scheduled \in SUBSET Wake : Added(a, scheduled)
    BY Asks
<1>3. /\ UNCHANGED <<replay_log, next_replay_seq, conn, conns_so_far, live, permission, permission_seen>>
      /\ Len(attaches) < MaxAttaches /\ conn # 0
    BY DEF handle_attach_request, storeVars, logVars, roomVars
<1> DEFINE last == Len(attaches) + 1
<1>4. /\ attaches' = Append(attaches, a) /\ a.conn = conn /\ a.boundary = replay_boundary_seq
      /\ wakes' = wakes \cup scheduled
      /\ \/ scheduled = {} /\ a.got = a.history
         \/ \E phases \in Seq(Seq(Nat)) :
            /\ scheduled = {[attach |-> last, phases |-> phases]}
            /\ a.got = <<>> /\ FlattenSeq(phases) = a.history
            /\ (phases = <<>>) = (a.policy = "pending_only")
    BY <1>2 DEF Added
<1>5. /\ Len(attaches) \in Nat /\ last \in Nat /\ last \notin DOMAIN attaches
      /\ attaches' \in Seq(Attach) /\ Len(attaches') = last
      /\ DOMAIN attaches' = DOMAIN attaches \cup {last} /\ attaches'[last] = a
      /\ \A n \in DOMAIN attaches : attaches'[n] = attaches[n]
    BY <1>1, <1>4
<1> HIDE DEF last
<1>6. /\ a.conn \in 1..MaxConns /\ a.boundary \in Nat
      /\ a.history \in Seq(Nat) /\ a.got \in Seq(Nat)
    BY AttachFields
<1>7. \A w \in scheduled : w.attach = last
    BY <1>4
<1>8. \A w \in wakes : w.attach \in DOMAIN attaches
    BY <1>1 DEF OneWake
<1>9. \A n \in DOMAIN attaches : Outstanding(n)' = Outstanding(n)
    BY <1>4, <1>5, <1>7 DEF Outstanding
<1>10. AttachTypes'
    <2>1. last <= MaxAttaches
        BY <1>3, <1>5, AttachStreamsConstantsOK DEF last
    <2>2. wakes' \subseteq Wake /\ live' \in Seq(1..MaxSeq)
        BY <1>1, <1>3, <1>4 DEF AttachTypes
    <2>3. QED
        BY <1>5, <2>1, <2>2 DEF AttachTypes
<1>11. OneWake'
    <2>1. ASSUME NEW w \in wakes'
          PROVE  /\ w.attach \in DOMAIN attaches'
                 /\ (w.phases = <<>>) = (attaches'[w.attach].policy = "pending_only")
        <3>1. CASE w \in wakes
            BY <1>1, <1>5, <3>1 DEF OneWake
        <3>2. CASE w \in scheduled
            BY <1>4, <1>5, <3>2
        <3>3. QED
            BY <1>4, <3>1, <3>2
    <2>2. ASSUME NEW v \in wakes', NEW w \in wakes', v.attach = w.attach
          PROVE  v = w
        <3>1. CASE v \in wakes /\ w \in wakes
            BY <1>1, <2>2, <3>1 DEF OneWake
        <3>2. CASE v \in scheduled /\ w \in scheduled
            BY <1>4, <3>2
        <3>3. ~(v \in wakes /\ w \in scheduled) /\ ~(v \in scheduled /\ w \in wakes)
            BY <1>5, <1>7, <1>8, <2>2
        <3>4. QED
            BY <1>4, <3>1, <3>2, <3>3
    <2>3. QED
        BY <2>1, <2>2 DEF OneWake
<1>12. ASSUME NEW n \in DOMAIN attaches'
       PROVE  Arrives(n)'
    <2>1. CASE n \in DOMAIN attaches
        <3>1. Arrives(n) /\ attaches'[n] = attaches[n] /\ n # last
            BY <1>1, <1>5, <2>1 DEF WakeInv
        <3>2. \A w \in wakes' : w.attach = n => w \in wakes
            BY <1>4, <1>7, <3>1
        <3>3. Outstanding(n)' = Outstanding(n)
            BY <1>9, <2>1
        <3>4. QED
            BY <1>3, <3>1, <3>2, <3>3 DEF Arrives
    <2>2. CASE n = last
        <3>1. \A w \in wakes' : w.attach = last => w \in scheduled
            BY <1>4, <1>5, <1>8
        <3>2. a.conn <= conns_so_far'
            BY <1>1, <1>3, <1>4, <1>6, AttachStreamsConstantsOK DEF RoomType
        <3>3. CASE scheduled = {} /\ a.got = a.history
            <4>1. Len(a.got) <= Len(a.history)
                BY <1>6, <3>3
            <4>2. \A w \in wakes' : w.attach # n
                BY <2>2, <3>1, <3>3
            <4>3. attaches'[n] = a
                BY <1>5, <2>2
            <4>4. QED
                BY <3>2, <3>3, <4>1, <4>2, <4>3 DEF Arrives
        <3>4. ASSUME NEW phases \in Seq(Seq(Nat)),
                     scheduled = {[attach |-> last, phases |-> phases]},
                     a.got = <<>>, FlattenSeq(phases) = a.history
              PROVE  Arrives(n)'
            <4>1. Outstanding(n)' /\ attaches'[n] = a
                BY <1>4, <1>5, <2>2, <3>4 DEF Outstanding
            <4>2. a.got \o a.history = a.history /\ Len(a.got) <= Len(a.history)
                BY <1>6, <3>4, ConcatEmptySeq
            <4>3. \A w \in wakes' : w.attach = n => w.phases = phases
                BY <2>2, <3>1, <3>4
            <4>4. QED
                BY <3>2, <3>4, <4>1, <4>2, <4>3 DEF Arrives
        <3>5. QED
            BY <1>4, <3>3, <3>4
    <2>3. QED
        BY <1>5, <2>1, <2>2
<1>13. WakeInv'
    BY <1>10, <1>11, <1>12 DEF WakeInv
<1>14. HistoryInv'
    <2>1. a.boundary < next_replay_seq
        BY <1>1, <1>4, Boundary
    <2>2. UpToBoundary(a, replay_log)
        <3>1. \A i \in DOMAIN a.history : a.history[i] <= a.boundary
            <4>1. TAKE i \in DOMAIN a.history
            <4>2. PICK k \in DOMAIN replay_log : a.history[i] = replay_log[k].seq
                BY <1>2 DEF Added
            <4>3. QED
                BY <1>1, <1>4, <4>2, Boundary
        <3>2. QED
            BY <1>2, <3>1 DEF Added, UpToBoundary
    <2>3. \A n \in DOMAIN attaches' :
            attaches'[n].boundary < next_replay_seq /\ UpToBoundary(attaches'[n], replay_log)
        BY <1>1, <1>5, <2>1, <2>2 DEF HistoryInv
    <2>4. QED
        BY <1>3, <2>3 DEF HistoryInv
<1>15. LiveInv'
    <2>1. \A k \in DOMAIN replay_log : ~(replay_log[k].seq > a.boundary)
        <3>1. TAKE k \in DOMAIN replay_log
        <3>2. replay_log[k].seq <= a.boundary /\ replay_log[k].seq \in Int
            BY <1>1, <1>4, Boundary DEF StoreInv, LogInv
        <3>3. QED
            BY <1>6, <3>2
    <2>2. QED
        BY <1>1, <1>3, <1>5, <2>1 DEF LiveInv
<1>16. PendingInv'
    <2>1. SUFFICES ASSUME NEW n \in DOMAIN attaches', attaches'[n].conn = conn,
                          attaches'[n].policy = "pending_only", permission = "open"
                   PROVE  permission_seen \/ Outstanding(n)'
        BY <1>3 DEF PendingInv
    <2>2. CASE n \in DOMAIN attaches
        BY <1>1, <1>5, <1>9, <2>1, <2>2 DEF PendingInv
    <2>3. CASE n = last
        <3>1. scheduled # {}
            BY <1>2, <1>5, <2>1, <2>3 DEF Added
        <3>2. QED
            BY <1>4, <1>7, <2>3, <3>1 DEF Outstanding
    <2>4. QED
        BY <1>5, <2>2, <2>3
<1>17. QED
    BY <1>13, <1>14, <1>15, <1>16

-----------------------------------------------------------------------------
(***************************************************************************)
(* A wake.                                                                 *)
(***************************************************************************)

LEMMA NextWake ==
    ASSUME NEW wake \in Wake, NEW others \in Seq(Seq(Nat))
    PROVE  LET next == [wake EXCEPT !.phases = others]
           IN  next \in Wake /\ next.attach = wake.attach /\ next.phases = others
BY DEF Wake

\* The wake that follows has the other phases.
LEMMA Rescheduled ==
    ASSUME NEW wake \in Wake, wake.phases # <<>>
    PROVE  /\ Head(wake.phases) \in Seq(Nat)
           /\ \A v \in rescheduled(wake) :
                /\ v \in Wake /\ v.attach = wake.attach /\ v.phases # <<>>
                /\ FlattenSeq(wake.phases) = Head(wake.phases) \o FlattenSeq(v.phases)
           /\ \A u, v \in rescheduled(wake) : u = v
           /\ rescheduled(wake) = {} => FlattenSeq(wake.phases) = Head(wake.phases)
<1> DEFINE phases == wake.phases
           next == [wake EXCEPT !.phases = Tail(@)]
<1>1. phases \in Seq(Seq(Nat)) /\ phases # <<>> /\ wake.attach \in 1..MaxAttaches
    BY AttachFields
<1>3. rescheduled(wake) = IF Len(phases) < 2 THEN {} ELSE {next}
    BY DEF rescheduled
<1> HIDE DEF phases, next
<1>4. /\ Head(phases) \in Seq(Nat) /\ Tail(phases) \in Seq(Seq(Nat))
      /\ Len(Tail(phases)) = Len(phases) - 1 /\ Len(phases) \in Nat \ {0}
      /\ FlattenSeq(phases) = Head(phases) \o FlattenSeq(Tail(phases))
    BY <1>1, FlattenHead
<1>8. next \in Wake /\ next.attach = wake.attach /\ next.phases = Tail(phases)
    <2> DEFINE others == Tail(phases)
    <2> HIDE DEF others
    <2>1. others \in Seq(Seq(Nat)) /\ next = [wake EXCEPT !.phases = others]
        BY <1>4 DEF others, next, phases
    <2>2. next \in Wake /\ next.attach = wake.attach /\ next.phases = others
        BY <2>1, NextWake
    <2>3. QED
        BY <2>2 DEF others
<1>5. CASE Len(phases) < 2
    <2>1. Tail(phases) = <<>>
        BY <1>4, <1>5
    <2>2. Head(phases) \o <<>> = Head(phases)
        BY <1>4, ConcatEmptySeq
    <2>3. QED
        BY <1>3, <1>4, <1>5, <2>1, <2>2, FlattenEmpty DEF phases
<1>6. CASE ~(Len(phases) < 2)
    <2>1. Tail(phases) # <<>>
        <3> DEFINE others == Tail(phases)
        <3>1. Len(others) >= 1
            BY <1>4, <1>6
        <3>2. Len(<<>>) = 0
            OBVIOUS
        <3> HIDE DEF others
        <3>3. others # <<>>
            BY <3>1, <3>2
        <3>4. QED
            BY <3>3 DEF others
    <2>2. rescheduled(wake) = {next}
        BY <1>3, <1>6
    <2>3. QED
        BY <1>8, <1>4, <2>1, <2>2 DEF phases
<1>7. QED
    BY <1>5, <1>6

\* The wake is handled: what was asked stays, and what was sent grows.
LEMMA WakeAttaches ==
    ASSUME StreamsInv, NEW wake, on_wake(wake)
    PROVE  /\ wake \in wakes /\ wake \in Wake /\ wake.attach \in DOMAIN attaches
           /\ attaches' \in Seq(Attach) /\ DOMAIN attaches' = DOMAIN attaches
           /\ Len(attaches') = Len(attaches)
           /\ \A n \in DOMAIN attaches :
                /\ attaches'[n].conn = attaches[n].conn /\ attaches'[n].policy = attaches[n].policy
                /\ attaches'[n].boundary = attaches[n].boundary
                /\ attaches'[n].history = attaches[n].history
                /\ attaches'[n].got =
                    IF n = wake.attach /\ wake.phases # <<>> /\ attaches[n].conn = conn
                    THEN attaches[n].got \o Head(wake.phases) ELSE attaches[n].got
<1>1. /\ wake \in wakes /\ wakes \subseteq Wake /\ OneWake /\ attaches \in Seq(Attach)
    BY DEF on_wake, StreamsInv, WakeInv, AttachTypes
<1>2. wake \in Wake /\ wake.attach \in DOMAIN attaches
    BY <1>1 DEF OneWake
<1> DEFINE m == wake.attach
<1>3. CASE wake.phases # <<>> /\ attaches[m].conn = conn
    <2> DEFINE a == attaches[m]
               more == a.got \o Head(wake.phases)
               b == [a EXCEPT !.got = more]
    <2>1. attaches' = [attaches EXCEPT ![m] = b]
        BY <1>2, <1>3 DEF on_wake, send_replay_phase
    <2>2. a \in Attach /\ Head(wake.phases) \in Seq(Nat)
        <3>1. a \in Attach
            BY <1>1, <1>2
        <3>2. Head(wake.phases) \in Seq(Nat)
            BY <1>2, <1>3, Rescheduled
        <3>3. QED
            BY <3>1, <3>2
    <2>3. more \in Seq(Nat)
        BY <2>2, AttachFields, ConcatProperties
    <2> HIDE DEF more
    <2>4. /\ b \in Attach /\ b.conn = a.conn /\ b.policy = a.policy /\ b.boundary = a.boundary
          /\ b.history = a.history /\ b.got = more
        BY <2>2, <2>3 DEF Attach
    <2> HIDE DEF b
    <2>5. /\ attaches' \in Seq(Attach) /\ DOMAIN attaches' = DOMAIN attaches
          /\ Len(attaches') = Len(attaches) /\ attaches'[m] = b
          /\ \A n \in DOMAIN attaches : n # m => attaches'[n] = attaches[n]
        BY <1>1, <1>2, <2>1, <2>4
    <2>6. QED
        BY <1>1, <1>2, <1>3, <2>4, <2>5 DEF more
<1>4. CASE ~(wake.phases # <<>> /\ attaches[m].conn = conn)
    <2>1. attaches' = attaches
        BY <1>4 DEF on_wake, send_replay_phase, send_pending
    <2>2. QED
        BY <1>1, <1>2, <1>4, <2>1
<1>5. QED
    BY <1>3, <1>4

LEMMA NumbersAssociate ==
    ASSUME NEW r \in Seq(Nat), NEW s \in Seq(Nat), NEW t \in Seq(Nat)
    PROVE  (r \o s) \o t = r \o (s \o t)
BY ConcatAssociative, SMTT(30)

LEMMA WakeKeeps ==
    ASSUME StreamsInv, NEW wake, on_wake(wake)
    PROVE  WakeInv' /\ HistoryInv' /\ LiveInv' /\ PendingInv'
<1> DEFINE m == wake.attach
<1>1. /\ RoomType /\ StoreInv /\ WakeInv /\ HistoryInv /\ LiveInv /\ PendingInv
      /\ AttachTypes /\ OneWake
    BY DEF StreamsInv, WakeInv
<1>2. /\ wake \in wakes /\ wake \in Wake /\ m \in DOMAIN attaches
      /\ attaches' \in Seq(Attach) /\ DOMAIN attaches' = DOMAIN attaches
      /\ Len(attaches') = Len(attaches)
      /\ \A n \in DOMAIN attaches :
            /\ attaches'[n].conn = attaches[n].conn /\ attaches'[n].policy = attaches[n].policy
            /\ attaches'[n].boundary = attaches[n].boundary
            /\ attaches'[n].history = attaches[n].history
      /\ \A n \in DOMAIN attaches :
            attaches'[n].got =
                IF n = m /\ wake.phases # <<>> /\ attaches[n].conn = conn
                THEN attaches[n].got \o Head(wake.phases) ELSE attaches[n].got
    BY WakeAttaches
<1>3. /\ UNCHANGED <<replay_log, next_replay_seq, conn, conns_so_far, live, permission>>
      /\ wakes' = (wakes \ {wake}) \cup rescheduled(wake)
      /\ IF wake.phases = <<>> THEN send_pending ELSE send_replay_phase(wake)
    BY DEF on_wake, storeVars, logVars, roomVars
<1>4. \A v \in rescheduled(wake) :
        /\ v \in Wake /\ v.attach = m /\ wake.phases # <<>> /\ v.phases # <<>>
        /\ FlattenSeq(wake.phases) = Head(wake.phases) \o FlattenSeq(v.phases)
    <2>1. wake.phases = <<>> => rescheduled(wake) = {}
        BY DEF rescheduled
    <2>2. QED
        BY <1>2, <2>1, Rescheduled
<1>5. \A v \in wakes : v.attach = m => v = wake
    BY <1>1, <1>2 DEF OneWake
<1>6. \A u, v \in rescheduled(wake) : u = v
    BY DEF rescheduled
<1> HIDE DEF m
<1>7. \A n : n # m => Outstanding(n)' = Outstanding(n)
    <2>1. SUFFICES ASSUME NEW n, n # m PROVE Outstanding(n)' = Outstanding(n)
        OBVIOUS
    <2>2. \A v : v.attach = n => (v \in wakes' <=> v \in wakes)
        BY <1>3, <1>4, <2>1 DEF m
    <2>3. QED
        BY <2>2 DEF Outstanding
<1>8. AttachTypes'
    BY <1>1, <1>2, <1>3, <1>4 DEF AttachTypes
<1>9. OneWake'
    <2>1. \A v \in wakes : /\ v.attach \in DOMAIN attaches
                           /\ (v.phases = <<>>) = (attaches[v.attach].policy = "pending_only")
        BY <1>1 DEF OneWake
    <2>2. ASSUME NEW v \in wakes'
          PROVE  /\ v.attach \in DOMAIN attaches'
                 /\ (v.phases = <<>>) = (attaches'[v.attach].policy = "pending_only")
        <3>1. CASE v \in wakes
            BY <1>2, <2>1, <3>1
        <3>2. CASE v \in rescheduled(wake)
            <4>1. v.attach = m /\ wake.phases # <<>> /\ v.phases # <<>>
                BY <1>4, <3>2
            <4>2. (wake.phases = <<>>) = (attaches[m].policy = "pending_only")
                BY <1>2, <2>1 DEF m
            <4>3. attaches'[m].policy = attaches[m].policy
                BY <1>2
            <4>4. QED
                BY <1>2, <4>1, <4>2, <4>3
        <3>3. QED
            BY <1>3, <3>1, <3>2
    <2>3. ASSUME NEW u \in wakes', NEW v \in wakes', u.attach = v.attach
          PROVE  u = v
        <3>1. CASE u \in wakes \ {wake} /\ v \in wakes \ {wake}
            BY <1>1, <2>3, <3>1 DEF OneWake
        <3>2. CASE u \in rescheduled(wake) /\ v \in rescheduled(wake)
            BY <1>6, <3>2
        <3>3. /\ ~(u \in wakes \ {wake} /\ v \in rescheduled(wake))
              /\ ~(u \in rescheduled(wake) /\ v \in wakes \ {wake})
            BY <1>4, <1>5, <2>3
        <3>4. QED
            BY <1>3, <3>1, <3>2, <3>3
    <2>4. QED
        BY <2>2, <2>3 DEF OneWake
<1>10. ASSUME NEW n \in DOMAIN attaches
       PROVE  Arrives(n)'
    <2> DEFINE a == attaches[n]
               b == attaches'[n]
               gets == n = m /\ wake.phases # <<>> /\ a.conn = conn
    <2>1. Arrives(n) /\ a \in Attach
        BY <1>1 DEF WakeInv, AttachTypes
    <2>2. b.conn = a.conn /\ b.history = a.history /\ a.history \in Seq(Nat) /\ a.got \in Seq(Nat)
        BY <1>2, <2>1, AttachFields
    <2>3. b.got = IF gets THEN a.got \o Head(wake.phases) ELSE a.got
        BY <1>2
    <2> HIDE DEF b
    <2>4. CASE ~gets
        <3>1. b.got = a.got /\ Len(b.got) <= Len(b.history) /\ b.conn <= conns_so_far'
            BY <1>3, <2>1, <2>2, <2>3, <2>4 DEF Arrives
        <3>2. CASE n # m
            <4>1. Outstanding(n)' = Outstanding(n)
                BY <1>7, <3>2
            <4>2. \A w \in wakes' : w.attach = n => w \in wakes
                BY <1>3, <1>4, <3>2
            <4>3. QED
                BY <1>3, <2>1, <2>2, <3>1, <4>1, <4>2 DEF Arrives, b
        <3>3. CASE n = m /\ a.conn # conn
            BY <1>3, <2>2, <3>1, <3>3 DEF Arrives, b
        <3>4. CASE n = m /\ wake.phases = <<>> /\ a.conn = conn
            <4>1. a.got \o FlattenSeq(wake.phases) = a.history
                BY <1>2, <2>1, <3>4 DEF Arrives, m
            <4>2. a.got = a.history
                BY <2>2, <3>4, <4>1, FlattenEmpty, ConcatEmptySeq
            <4>3. \A w \in wakes' : w.attach # n
                BY <1>3, <1>4, <1>5, <3>4
            <4>4. QED
                BY <1>3, <2>2, <3>1, <4>2, <4>3 DEF Arrives, b
        <3>5. QED
            BY <2>4, <3>2, <3>3, <3>4
    <2>5. CASE gets
        <3> DEFINE first == Head(wake.phases)
        <3>1. first \in Seq(Nat) /\ wake.phases # <<>>
            BY <1>2, <2>5, Rescheduled
        <3>2. a.got \o FlattenSeq(wake.phases) = a.history
            BY <1>2, <2>1, <2>5 DEF Arrives, m
        <3>3. b.got = a.got \o first
            BY <2>3, <2>5
        <3>4. ASSUME NEW v \in rescheduled(wake)
              PROVE  /\ b.got \o FlattenSeq(v.phases) = b.history
                     /\ Len(b.got) <= Len(b.history)
            <4> DEFINE rest == FlattenSeq(v.phases)
                       got == a.got
            <4>1. rest \in Seq(Nat) /\ got \in Seq(Nat) /\ first \in Seq(Nat)
                BY <1>4, <2>2, <3>1, <3>4, AttachFields, FlattenType
            <4>2. FlattenSeq(wake.phases) = first \o rest
                BY <1>4, <3>4
            <4>3. got \o (first \o rest) = a.history
                BY <3>2, <4>2
            <4> HIDE DEF rest, first, got
            <4>4. (got \o first) \o rest = got \o (first \o rest)
                BY <4>1, NumbersAssociate
            <4>5. Len((got \o first) \o rest) >= Len(got \o first)
                BY <4>1
            <4>6. QED
                BY <2>2, <3>3, <4>3, <4>4, <4>5 DEF rest, got
        <3>5. CASE rescheduled(wake) = {}
            <4>1. FlattenSeq(wake.phases) = first
                BY <1>2, <3>1, <3>5, Rescheduled
            <4>2. b.got = b.history
                BY <2>2, <3>2, <3>3, <4>1
            <4>3. \A w \in wakes' : w.attach # n
                BY <1>3, <1>5, <2>5, <3>5
            <4>4. Len(b.got) <= Len(b.history)
                BY <2>2, <4>2
            <4>5. b.conn <= conns_so_far'
                BY <1>3, <2>1, <2>2 DEF Arrives
            <4>6. QED
                BY <4>2, <4>3, <4>4, <4>5 DEF Arrives, b
        <3>6. CASE rescheduled(wake) # {}
            <4>1. PICK next \in rescheduled(wake) : TRUE
                BY <3>6
            <4>2. next \in wakes' /\ next.attach = n
                BY <1>3, <1>4, <2>5, <4>1
            <4>3. Outstanding(n)'
                BY <4>2 DEF Outstanding
            <4>4. \A w \in wakes' : w.attach = n => w \in rescheduled(wake)
                BY <1>3, <1>5, <2>5
            <4>5. b.conn <= conns_so_far'
                BY <1>3, <2>1, <2>2 DEF Arrives
            <4>6. QED
                BY <3>4, <4>1, <4>3, <4>4, <4>5 DEF Arrives, b
        <3>7. QED
            BY <3>5, <3>6
    <2>6. QED
        BY <2>4, <2>5
<1>11. WakeInv'
    BY <1>2, <1>8, <1>9, <1>10 DEF WakeInv
<1>12. HistoryInv' /\ LiveInv'
    BY <1>1, <1>2, <1>3 DEF HistoryInv, LiveInv, UpToBoundary
<1>13. PendingInv'
    <2>1. SUFFICES ASSUME NEW n \in DOMAIN attaches, attaches[n].conn = conn,
                          attaches[n].policy = "pending_only", permission = "open"
                   PROVE  permission_seen' \/ Outstanding(n)'
        BY <1>2, <1>3 DEF PendingInv
    <2>2. conn # 0
        <3>1. attaches[n] \in Attach
            BY <1>1 DEF AttachTypes
        <3>2. QED
            BY <2>1, <3>1, AttachFields
    <2>3. CASE wake.phases = <<>>
        BY <1>3, <2>2, <2>3 DEF send_pending
    <2>4. CASE wake.phases # <<>>
        <3>1. n # m
            BY <1>1, <1>2, <2>1, <2>4 DEF OneWake, m
        <3>2. Outstanding(n)' = Outstanding(n)
            BY <1>7, <3>1
        <3>3. permission_seen' = permission_seen
            BY <1>3, <2>4 DEF send_replay_phase
        <3>4. QED
            BY <1>1, <2>1, <3>2, <3>3 DEF PendingInv
    <2>5. QED
        BY <2>3, <2>4
<1>14. QED
    BY <1>11, <1>12, <1>13

-----------------------------------------------------------------------------
(***************************************************************************)
(* What a client that attaches is promised.                                *)
(***************************************************************************)

LEMMA StreamsBegin == StreamsInit => StreamsInv
BY StoreInitInv, RoomTypeInit, AttachesInit DEF StreamsInv

LEMMA StreamsKept == StreamsInv /\ [StreamsNext]_streamVars => StreamsInv'
<1> SUFFICES ASSUME StreamsInv, [StreamsNext]_streamVars
             PROVE  StreamsInv'
    OBVIOUS
<1>1. RoomType' /\ StoreInv'
    BY RoomTypeKept, StoreKept DEF StreamsInv
<1>2. ASSUME UNCHANGED <<replay_log, next_replay_seq, conn, conns_so_far, live, attaches, wakes,
                         permission, permission_seen>>
      PROVE  WakeInv' /\ HistoryInv' /\ LiveInv' /\ PendingInv'
    <2>1. WakeInv /\ HistoryInv /\ LiveInv /\ PendingInv
        BY DEF StreamsInv
    <2>2. \A n : Outstanding(n)' = Outstanding(n)
        BY <1>2 DEF Outstanding
    <2>3. \A n : Arrives(n)' = Arrives(n)
        BY <1>2, <2>2 DEF Arrives
    <2>4. AttachTypes' /\ OneWake'
        BY <1>2, <2>1 DEF WakeInv, AttachTypes, OneWake
    <2>5. WakeInv'
        BY <1>2, <2>1, <2>3, <2>4 DEF WakeInv
    <2>6. HistoryInv' /\ LiveInv'
        BY <1>2, <2>1 DEF HistoryInv, LiveInv
    <2>7. PendingInv'
        BY <1>2, <2>1, <2>2 DEF PendingInv
    <2>8. QED
        BY <2>5, <2>6, <2>7
<1>3. CASE rotate_segment \/ UNCHANGED streamVars
    BY <1>1, <1>2, <1>3
    DEF StreamsInv, rotate_segment, streamVars, storeVars, logVars, roomVars, turnVars, clientVars
<1>4. CASE Speaks
    BY <1>1, <1>4, SpeaksKeeps DEF StreamsInv
<1>5. CASE join \/ leave
    BY <1>1, <1>5, ComesAndGoes DEF StreamsInv
<1>6. CASE handle_attach_request
    BY <1>1, <1>6, AskKeeps DEF StreamsInv
<1>7. CASE \E wake \in wakes : on_wake(wake)
    BY <1>1, <1>7, WakeKeeps DEF StreamsInv
<1>8. CASE room_reopens
    BY <1>1, <1>8, AttachesReopen DEF StreamsInv
<1>9. QED
    BY <1>3, <1>4, <1>5, <1>6, <1>7, <1>8 DEF StreamsNext, Speaks

\* The state of a room, its file and its client are what their declarations
\* say, and no attach is sent more than its history.
THEOREM StreamsTypeCorrect == StreamsSpec => []StreamsTypeOK
<1>1. StreamsInv => StreamsTypeOK
    <2> SUFFICES ASSUME StreamsInv PROVE StreamsTypeOK
        OBVIOUS
    <2>1. StoreTypeOK(Frame) /\ RoomType /\ AttachTypes /\ \A n \in DOMAIN attaches : Arrives(n)
        BY DEF StreamsInv, StoreInv, WakeInv
    <2>2. \A n \in DOMAIN attaches : Len(attaches[n].got) <= Len(attaches[n].history)
        BY <2>1 DEF Arrives
    <2>3. QED
        BY <2>1, <2>2 DEF StreamsTypeOK, RoomType, AttachTypes
<1>2. QED
    BY <1>1, StreamsBegin, StreamsKept, PTL DEF StreamsSpec

\* How often a number is in a sequence that has none twice.
LEMMA TimesOnce ==
    ASSUME NEW seqs \in Seq(Nat), IsInjective(seqs), NEW seq
    PROVE  /\ Times(seqs, seq) <= 1
           /\ (\E i \in DOMAIN seqs : seqs[i] = seq) => Times(seqs, seq) = 1
           /\ (\A i \in DOMAIN seqs : seqs[i] # seq) => Times(seqs, seq) = 0
<1>1. CASE \E i \in DOMAIN seqs : seqs[i] = seq
    <2>1. PICK i \in DOMAIN seqs : seqs[i] = seq
        BY <1>1
    <2>2. {k \in DOMAIN seqs : seqs[k] = seq} = {i}
        BY <2>1 DEF IsInjective
    <2>3. Times(seqs, seq) = 1
        BY <2>2, FS_Singleton DEF Times
    <2>4. QED
        BY <1>1, <2>3
<1>2. CASE \A i \in DOMAIN seqs : seqs[i] # seq
    <2>1. {k \in DOMAIN seqs : seqs[k] = seq} = {}
        BY <1>2
    <2>2. Times(seqs, seq) = 0
        BY <2>1, FS_EmptySet DEF Times
    <2>3. QED
        BY <1>2, <2>2
<1>3. QED
    BY <1>1, <1>2

\* The history of an attach arrives exactly, whatever is broadcast between
\* its wakes, and its boundary divides the log: up to it the history has
\* every frame at most once, and a full lineage all of them, and behind it
\* every frame came live, once (on_attach and on_wake).  Inductive because
\* what was sent and the phases that are left are the history at any time.
THEOREM HistoryMeetsLive == StreamsSpec => []StreamMeetsLive
<1>1. StreamsInv => StreamMeetsLive
    <2> SUFFICES ASSUME StreamsInv, NEW n \in DOMAIN attaches,
                        attaches[n].conn = conn, ~Outstanding(n), attaches[n].policy # "pending_only"
                 PROVE  /\ attaches[n].got = attaches[n].history
                        /\ \A entry \in ToSet(replay_log) :
                            IF entry.seq > attaches[n].boundary
                            THEN Times(live, entry.seq) = 1 /\ Times(attaches[n].got, entry.seq) = 0
                            ELSE Times(attaches[n].got, entry.seq) <= 1
                                 /\ (attaches[n].policy = "full_lineage" /\ entry.frame.method # "raw"
                                     => Times(attaches[n].got, entry.seq) = 1)
        BY DEF StreamMeetsLive
    <2> DEFINE a == attaches[n]
    <2>1. /\ a \in Attach /\ Arrives(n) /\ live \in Seq(1..MaxSeq) /\ MaxSeq \in Nat
          /\ UpToBoundary(a, replay_log) /\ LiveInv
          /\ replay_log \in Seq(ReplayEntry)
        BY ReplayStoreConstantsOK
        DEF StreamsInv, WakeInv, AttachTypes, HistoryInv, StoreInv, StoreTypeOK, ReplayEntry
    <2>2. a.got = a.history /\ a.history \in Seq(Nat) /\ a.boundary \in Nat
        BY <2>1, AttachFields DEF Arrives
    <2>3. live \in Seq(Nat) /\ IsInjective(live)
        <3>1. DOMAIN live = 1..Len(live) /\ Len(live) \in Nat /\ live \in Seq(Nat)
            BY <2>1
        <3>2. \A i, j \in DOMAIN live : i < j => live[i] < live[j]
            BY <2>1 DEF LiveInv
        <3>3. \A i \in DOMAIN live : live[i] \in Nat
            BY <3>1
        <3>4. ASSUME NEW i \in DOMAIN live, NEW j \in DOMAIN live, live[i] = live[j]
              PROVE  i = j
            <4>1. ~(live[i] < live[j]) /\ ~(live[j] < live[i])
                BY <3>3, <3>4
            <4>2. ~(i < j) /\ ~(j < i)
                BY <3>2, <4>1
            <4>3. QED
                BY <3>1, <4>2
        <3>5. QED
            BY <3>1, <3>4 DEF IsInjective
    <2>4. ASSUME NEW entry \in ToSet(replay_log)
          PROVE  IF entry.seq > a.boundary
                 THEN Times(live, entry.seq) = 1 /\ Times(a.got, entry.seq) = 0
                 ELSE Times(a.got, entry.seq) <= 1
                      /\ (a.policy = "full_lineage" /\ entry.frame.method # "raw"
                          => Times(a.got, entry.seq) = 1)
        <3>1. PICK k \in DOMAIN replay_log : replay_log[k] = entry
            BY DEF ToSet
        <3>2. entry.seq \in Nat
            BY <2>1, <3>1, Fields
        <3>3. CASE entry.seq > a.boundary
            <4>1. \E i \in DOMAIN live : live[i] = entry.seq
                BY <2>1, <3>1, <3>3 DEF LiveInv
            <4>2. \A i \in DOMAIN a.history : a.history[i] # entry.seq
                <5>1. TAKE i \in DOMAIN a.history
                <5>2. a.history[i] <= a.boundary /\ a.history[i] \in Nat
                    BY <2>1, <2>2 DEF UpToBoundary
                <5>3. QED
                    BY <2>2, <3>2, <3>3, <5>2
            <4>3. QED
                BY <2>1, <2>2, <2>3, <3>3, <4>1, <4>2, TimesOnce DEF UpToBoundary
        <3>4. CASE ~(entry.seq > a.boundary)
            <4>1. a.policy = "full_lineage" /\ entry.frame.method # "raw" =>
                    \E i \in DOMAIN a.history : a.history[i] = entry.seq
                BY <2>1, <2>2, <3>1, <3>2, <3>4 DEF UpToBoundary
            <4>2. QED
                BY <2>1, <2>2, <3>4, <4>1, TimesOnce DEF UpToBoundary
        <3>5. QED
            BY <3>3, <3>4
    <2>5. QED
        BY <2>2, <2>4
<1>2. QED
    BY <1>1, StreamsBegin, StreamsKept, PTL DEF StreamsSpec

\* A client that attached with pending_only was sent the request that is
\* open, by its wake or live (on_attach and on_wake), even if the request
\* was opened or answered, or other wakes came, in between.
THEOREM PendingIsSent == StreamsSpec => []PendingReachesTheClient
<1>1. StreamsInv => PendingReachesTheClient
    BY DEF StreamsInv, PendingInv, PendingReachesTheClient
<1>2. QED
    BY <1>1, StreamsBegin, StreamsKept, PTL DEF StreamsSpec
=============================================================================
