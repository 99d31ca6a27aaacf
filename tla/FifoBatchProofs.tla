-------------------------- MODULE FifoBatchProofs --------------------------
(***************************************************************************)
(* Theorems about the parser and the timestamps of a batch, for every size *)
(* of the arrays and of the FIFO, every range of the sensor counter and    *)
(* whatever the bus does to tags and timestamps.                           *)
(***************************************************************************)
EXTENDS FifoBatch, FiniteSetTheorems, SequenceTheorems, TLAPS

EntryType == [tag : Tags, at : Nat \ {0}]
ScanType == [gyro : Nat, accel : Nat, timestamp : Nat]
RawType == [raw : 0..Wrap - 1, at : Nat]
StampType ==
  [last_hw_timestamp : 0..Wrap - 1, hw_timestamp_valid : BOOLEAN,
   hw_timestamp_wraps : Nat, hw_timestamp_ref_ns : Nat,
   last_timestamp_ns : Nat, timestamp_valid : BOOLEAN]

(* The sensor, and what a read relies on: the entries are there.            *)
SensorInv ==
  /\ {time, origin, entries, credit, faults} \subseteq Nat
  /\ phase \in 0..2
  /\ phase # 0 => time > 0
  /\ fifo \in Seq(EntryType) /\ Len(fifo) <= Depth
  /\ pc = "read" => entries <= Len(fifo)
  /\ pc \in {"idle", "read", "parse", "stamp"}

Flags ==
  /\ running \in BOOLEAN /\ lost \in BOOLEAN /\ garbled \in BOOLEAN
  /\ fifo_faulted \in BOOLEAN /\ discontinuity \in BOOLEAN
  /\ malformed \in BOOLEAN

(* The parser accounts for every entry: it is in a scan, a timestamp, or    *)
(* waits for its partner, unless the batch is malformed.                    *)
Held == (IF pending["gyro"] # 0 THEN 1 ELSE 0) + (IF pending["accel"] # 0 THEN 1 ELSE 0)

(* A batch that is accepted is accounted for to its last entry: as many     *)
(* timestamps as scans, and nothing that is not part of one.                *)
Accounted == Len(batch) = EntriesPerScan * Len(scans) /\ Len(stamps) = Len(scans)

ParserInv ==
  /\ batch \in Seq(EntryType) /\ index \in 0..Len(batch)
  /\ pending \in [DataTags -> Nat]
  /\ scans \in Seq(ScanType) /\ Len(scans) <= MaxScans
  /\ stamps \in Seq(RawType) /\ Len(stamps) <= MaxScans
  /\ pc = "parse" /\ ~malformed => index = 2 * Len(scans) + Len(stamps) + Held
  /\ pc = "stamp" => index <= Len(scans) /\ Len(scans) > 0 /\ Accounted

(* The scans stamped so far follow one another and on the last one pushed,  *)
(* and a pause among them has been counted.                                 *)
Steps(s, t) == s < t /\ (t - s > 2 * Period => discontinuity)

OrderInv ==
  /\ stamp \in StampType
  /\ delivered \in [timestamp : Nat, sound : BOOLEAN]
  /\ stamp.timestamp_valid => stamp.last_timestamp_ns = delivered.timestamp
  /\ delivered # Nobody => discontinuity \/ stamp.timestamp_valid
  /\ pc = "stamp" =>
       /\ \A k \in 1..index - 1 : Steps(scans[k].timestamp, scans[k + 1].timestamp)
       /\ index > 0 /\ stamp.timestamp_valid
            => Steps(delivered.timestamp, scans[1].timestamp)

BatchInv == SensorInv /\ Flags /\ ParserInv /\ OrderInv

(* The assumption on the constants, one by one.                             *)
LEMMA Constants ==
  /\ MaxScans \in Nat /\ MaxScans > 0 /\ Period \in Nat /\ Period > 0
  /\ Depth \in Nat /\ Depth > 0 /\ Wrap \in Nat /\ Wrap > 1
  /\ Late \in Nat /\ MaxTime \in Nat /\ MaxFaults \in Nat
  BY BatchAssumption

(* A counter value, and the time reconstructed from one.                    *)
LEMMA RawRange == \A a, b \in Int : (a - b) % Wrap \in 0..Wrap - 1
  BY Constants

LEMMA ToNsNat == \A s \in StampType : ToNs(s) \in Nat
<1> SUFFICES ASSUME NEW s \in StampType PROVE ToNs(s) \in Nat
  OBVIOUS
<1>1. /\ s.hw_timestamp_ref_ns \in Nat /\ s.hw_timestamp_wraps \in Nat
      /\ s.last_hw_timestamp \in Nat
  BY Constants DEF StampType
<1>2. s.hw_timestamp_wraps * Wrap \in Nat
  BY <1>1, Constants
<1> QED
  BY <1>1, <1>2 DEF ToNs

LEMMA NoSeq == \A S : <<>> \in Seq(S) /\ Len(<<>>) = 0
  BY EmptySeq

LEMMA NoDataType == NoData \in [DataTags -> Nat]
  BY DEF NoData

(* The invariant holds when a session has just been opened.                 *)
LEMMA InitBatch == Init => BatchInv
<1> SUFFICES ASSUME Init PROVE BatchInv
  OBVIOUS
<1>1. SensorInv
  BY Constants, NoSeq DEF Init, SensorInv
<1>2. ParserInv
  BY Constants, NoSeq, NoDataType DEF Init, ParserInv
<1>3. OrderInv
  BY Constants DEF Init, OrderInv, NoStamp, Nobody, StampType
<1>4. Flags
  BY Zenon DEF Init, Flags
<1> QED
  BY <1>1, <1>2, <1>3, <1>4 DEF BatchInv

(* A recovery leaves an empty batch, and timelines on which no scan follows *)
(* without a discontinuity.                                                 *)
LEMMA ResetType ==
  ASSUME NEW s \in StampType, SensorInv
  PROVE  /\ Invalid(s) \in StampType /\ ~Invalid(s).timestamp_valid
         /\ Reset(Invalid(s)) \in StampType /\ ~Reset(Invalid(s)).timestamp_valid
  BY DEF StampType, Invalid, Reset, SensorInv

LEMMA NoLocalsInv ==
  ASSUME NoLocals, batch' = <<>>, pc' = "idle"
  PROVE  ParserInv'
  BY Constants, NoSeq, NoDataType DEF NoLocals, ParserInv

LEMMA RecoverInv ==
  ASSUME BatchInv, NEW s \in StampType, NEW rest \in Seq(EntryType),
         Len(rest) <= Depth, FifoRecover(s, rest)
  PROVE  BatchInv'
<1>1. pc' = "idle" /\ batch' = <<>> /\ NoLocals /\ UNCHANGED <<time, delivered>>
      /\ entries' = 0 /\ credit' = 0 /\ discontinuity' = TRUE
  BY DEF FifoRecover
<1>2. ParserInv'
  BY <1>1, NoLocalsInv
<1>3. faults' \in Nat
  BY DEF FifoRecover, Succeeds, Fails, Fault, BatchInv, SensorInv
<1>4. /\ fifo' = <<>> \/ fifo' = rest
      /\ phase' = 0 \/ phase' = phase
      /\ origin' = time \/ origin' = origin
  BY DEF FifoRecover, Restarted
<1>5. SensorInv'
  <2>1. fifo' \in Seq(EntryType) /\ Len(fifo') <= Depth
    <3>1. CASE fifo' = rest
      BY <3>1
    <3>2. CASE fifo' = <<>>
      BY <3>2, NoSeq, Constants
    <3> QED
      BY <3>1, <3>2, <1>4
  <2>2. origin' \in Nat /\ phase' \in 0..2 /\ (phase' # 0 => time' > 0)
    BY <1>1, <1>4 DEF BatchInv, SensorInv
  <2> QED
    BY <1>1, <1>3, <2>1, <2>2 DEF BatchInv, SensorInv
<1>6. stamp' \in StampType /\ ~stamp'.timestamp_valid
  <2>1. stamp' = Invalid(s) \/ stamp' = Reset(Invalid(s))
    BY DEF FifoRecover
  <2> QED
    BY <2>1, ResetType DEF BatchInv
<1>7. OrderInv'
  BY <1>1, <1>6 DEF BatchInv, OrderInv
<1>8. Flags'
  BY Zenon DEF FifoRecover, Restarted, NoLocals, BatchInv, Flags
<1> QED
  BY <1>2, <1>5, <1>7, <1>8 DEF BatchInv

(* The sensor writes an entry.                                              *)
LEMMA WriteInv == BatchInv /\ Write => BatchInv'
<1> SUFFICES ASSUME BatchInv, Write PROVE BatchInv'
  OBVIOUS
<1> DEFINE entry == [tag |-> TagOf(phase), at |-> time']
           more == Append(fifo, entry)
<1>1. time' \in Nat /\ time' > 0
  BY Constants DEF Write, BatchInv, SensorInv
<1>2. entry \in EntryType
  BY <1>1 DEF EntryType, TagOf, Tags, DataTags
<1>3. more \in Seq(EntryType) /\ Len(more) = Len(fifo) + 1 /\ more # <<>>
  BY <1>2, AppendProperties DEF BatchInv, SensorInv
<1>4. Tail(more) \in Seq(EntryType) /\ Len(Tail(more)) = Len(fifo)
  BY <1>3, HeadTailProperties DEF BatchInv, SensorInv
<1>5. Len(fifo) \in Nat
  BY LenProperties DEF BatchInv, SensorInv
<1>6. /\ fifo' \in Seq(EntryType) /\ Len(fifo') <= Depth
      /\ pc = "read" => entries <= Len(fifo')
  <2> HIDE DEF entry
  <2>1. fifo' = IF Len(fifo) < Depth THEN more ELSE Tail(more)
    BY DEF Write, entry
  <2> QED
    BY <2>1, <1>3, <1>4, <1>5, Constants DEF BatchInv, SensorInv
<1>7. SensorInv'
  BY <1>1, <1>6 DEF Write, BatchInv, SensorInv, EntriesPerScan
<1>8. Flags'
  BY Zenon DEF Write, BatchInv, Flags, locals
<1>9. ParserInv' /\ OrderInv'
  BY DEF Write, BatchInv, ParserInv, Held, Accounted, OrderInv, Steps, locals
<1> QED
  BY <1>7, <1>8, <1>9 DEF BatchInv

(* The handler reads the status.                                            *)
LEMMA StatusInv == BatchInv /\ Status => BatchInv'
<1> SUFFICES ASSUME BatchInv, Status PROVE BatchInv'
  OBVIOUS
<1>1. CASE FifoRecover(stamp, fifo)
  BY <1>1, RecoverInv DEF BatchInv, SensorInv, OrderInv
<1>2. CASE ~FifoRecover(stamp, fifo)
  <2>1. /\ entries' = Smaller(Len(fifo) \div EntriesPerScan, MaxScans) * EntriesPerScan
        /\ pc = "idle" /\ pc' = "read" /\ credit' = Late
        /\ UNCHANGED <<sensor, fifo_faulted, discontinuity, stamp, batch,
                       locals, faults, delivered>>
    BY <1>2 DEF Status
  <2>2. entries' \in Nat /\ entries' <= Len(fifo)
    <3>1. Len(fifo) \in Nat
      BY LenProperties DEF BatchInv, SensorInv
    <3> QED
      BY <2>1, <3>1, Constants DEF Smaller, EntriesPerScan
  <2>3. SensorInv'
    BY <2>1, <2>2, Constants DEF BatchInv, SensorInv, sensor
  <2>4. Flags'
    BY <2>1, Zenon DEF BatchInv, Flags, sensor, locals
  <2>5. ParserInv' /\ OrderInv'
    BY <2>1 DEF BatchInv, ParserInv, Held, Accounted, OrderInv, Steps, locals
  <2> QED
    BY <2>3, <2>4, <2>5 DEF BatchInv
<1> QED
  BY <1>1, <1>2

(* What remains in the FIFO, and what has been read.                        *)
LEMMA Parts ==
  ASSUME BatchInv, NEW n \in Nat, n <= Len(fifo)
  PROVE  /\ SubSeq(fifo, 1, n) \in Seq(EntryType)
         /\ SubSeq(fifo, n + 1, Len(fifo)) \in Seq(EntryType)
         /\ Len(SubSeq(fifo, n + 1, Len(fifo))) <= Depth
<1>1. fifo \in Seq(EntryType) /\ Len(fifo) \in Nat /\ Len(fifo) <= Depth
  BY LenProperties DEF BatchInv, SensorInv
<1>2. \A i \in 1..Len(fifo) : fifo[i] \in EntryType
  BY <1>1, ElementOfSeq
<1>3. SubSeq(fifo, 1, n) \in Seq(EntryType)
  <2>1. \A i \in 1..n : fifo[i] \in EntryType
    BY <1>1, <1>2
  <2> QED
    BY <2>1, SubSeqProperties
<1>4. /\ SubSeq(fifo, n + 1, Len(fifo)) \in Seq(EntryType)
      /\ Len(SubSeq(fifo, n + 1, Len(fifo))) =
           IF n + 1 <= Len(fifo) THEN Len(fifo) - (n + 1) + 1 ELSE 0
  <2>1. \A i \in n + 1..Len(fifo) : fifo[i] \in EntryType
    BY <1>1, <1>2
  <2>2. n + 1 \in Int /\ Len(fifo) \in Int
    BY <1>1
  <2> QED
    BY <2>1, <2>2, SubSeqProperties
<1> QED
  BY <1>1, <1>3, <1>4, Constants

(* Whatever the bus damages, a batch is a sequence of entries.              *)
LEMMA AlteredType ==
  ASSUME NEW b \in Seq(EntryType), NEW i \in 1..Len(b), NEW t \in Tags,
         NEW at \in Nat \ {0}
  PROVE  Altered(b, i, t, at) \in Seq(EntryType) /\ Len(Altered(b, i, t, at)) = Len(b)
<1>1. [tag |-> t, at |-> at] \in EntryType
  BY DEF EntryType
<1> QED
  BY <1>1, ExceptSeq DEF Altered

LEMMA RetaggedType ==
  ASSUME NEW b \in Seq(EntryType), NEW i \in 1..Len(b), NEW t \in Tags
  PROVE  Retagged(b, i, t) \in Seq(EntryType) /\ Len(Retagged(b, i, t)) = Len(b)
<1>1. b[i] \in EntryType
  BY ElementOfSeq
<1>2. b[i].at \in Nat \ {0}
  BY <1>1 DEF EntryType
<1> QED
  BY <1>2, AlteredType DEF Retagged

LEMMA DamagedType ==
  ASSUME BatchInv, NEW b \in Seq(EntryType), NEW d \in Damaged(b)
  PROVE  d \in Seq(EntryType) /\ Len(d) = Len(b)
<1>1. DOMAIN b = 1..Len(b)
  BY LenProperties
<1>2. CASE \E i \in DOMAIN b, j \in DOMAIN b, s \in Tags, t \in Tags :
             d = Retagged(Retagged(b, i, s), j, t)
  <2>1. PICK i \in DOMAIN b, j \in DOMAIN b, s \in Tags, t \in Tags :
             d = Retagged(Retagged(b, i, s), j, t)
    BY <1>2
  <2>2. /\ Retagged(b, i, s) \in Seq(EntryType) /\ Len(Retagged(b, i, s)) = Len(b)
        /\ j \in 1..Len(Retagged(b, i, s))
    BY <1>1, <2>1, RetaggedType
  <2> QED
    BY <2>1, <2>2, RetaggedType
<1>3. CASE \E i \in DOMAIN b, r \in 1..Wrap :
             d = Altered(b, i, "timestamp", origin + r)
  <2>1. PICK i \in DOMAIN b, r \in 1..Wrap :
             d = Altered(b, i, "timestamp", origin + r)
    BY <1>3
  <2>2. "timestamp" \in Tags /\ origin + r \in Nat \ {0}
    BY <2>1, Constants DEF BatchInv, SensorInv, Tags
  <2> QED
    BY <1>1, <2>1, <2>2, AlteredType
<1> QED
  BY <1>2, <1>3 DEF Damaged

(* The transfers succeed, with or without damage.                           *)
LEMMA ReadInv == BatchInv /\ Read => BatchInv'
<1> SUFFICES ASSUME BatchInv, Read PROVE BatchInv'
  OBVIOUS
<1>1. entries \in Nat /\ entries <= Len(fifo)
  BY DEF Read, BatchInv, SensorInv
<1>2. /\ SubSeq(fifo, 1, entries) \in Seq(EntryType)
      /\ SubSeq(fifo, entries + 1, Len(fifo)) \in Seq(EntryType)
      /\ Len(SubSeq(fifo, entries + 1, Len(fifo))) <= Depth
  BY <1>1, Parts
<1>3. batch' \in Seq(EntryType)
  BY <1>2, DamagedType DEF Read
<1>4. faults' \in Nat
  BY DEF Read, Succeeds, Fault, BatchInv, SensorInv
<1>5. SensorInv'
  BY <1>2, <1>4 DEF Read, BatchInv, SensorInv
<1>6. Flags'
  BY Zenon DEF Read, NoLocals, BatchInv, Flags
<1>7. ParserInv'
  <2>1. Len(batch') \in Nat
    BY <1>3, LenProperties
  <2>2. Held' = 0
    BY DEF Read, NoLocals, NoData, DataTags, Held
  <2> QED
    BY <1>3, <2>1, <2>2, NoSeq, NoDataType, Constants DEF Read, NoLocals, ParserInv
<1>8. OrderInv'
  BY DEF Read, BatchInv, OrderInv
<1> QED
  BY <1>5, <1>6, <1>7, <1>8 DEF BatchInv

(* A transfer fails.                                                        *)
LEMMA ReadFailsInv == BatchInv /\ ReadFails => BatchInv'
<1> SUFFICES ASSUME BatchInv, ReadFails PROVE BatchInv'
  OBVIOUS
<1>1. entries \in Nat /\ entries <= Len(fifo) /\ Len(fifo) \in Nat
  BY LenProperties DEF ReadFails, BatchInv, SensorInv
<1>2. PICK n \in 0..entries : FifoRecover(stamp, SubSeq(fifo, n + 1, Len(fifo)))
  BY DEF ReadFails
<1>3. n \in Nat /\ n <= Len(fifo)
  BY <1>1, <1>2
<1> QED
  BY <1>2, <1>3, Parts, RecoverInv DEF BatchInv, OrderInv

(* What every step of the parser leaves alone.                              *)
LEMMA ParsesInv ==
  ASSUME BatchInv, Parses
  PROVE  /\ SensorInv' /\ OrderInv'
         /\ index < Len(batch) /\ index' = index + 1 /\ index' \in 0..Len(batch')
         /\ pc = "parse" /\ pc' = "parse" /\ batch' = batch
         /\ Entry \in EntryType
         /\ Len(scans) \in Nat /\ Len(stamps) \in Nat
<1>1. SensorInv' /\ OrderInv'
  BY DEF Parses, BatchInv, SensorInv, OrderInv, sensor
<1>2. Len(batch) \in Nat /\ Len(scans) \in Nat /\ Len(stamps) \in Nat
  BY LenProperties DEF BatchInv, ParserInv
<1>3. index < Len(batch) /\ index + 1 \in 1..Len(batch)
  BY <1>2 DEF Parses, BatchInv, ParserInv
<1>4. Entry \in EntryType
  BY <1>3, ElementOfSeq DEF Entry, BatchInv, ParserInv
<1> QED
  BY <1>1, <1>2, <1>3, <1>4 DEF Parses

(* A gyro or accel entry.                                                   *)
LEMMA DataInv == BatchInv /\ DataEntry => BatchInv'
<1> SUFFICES ASSUME BatchInv, DataEntry PROVE BatchInv'
  OBVIOUS
<1>1. Parses /\ Entry.tag \in DataTags
  BY DEF DataEntry
<1> DEFINE pair == [pending EXCEPT ![Entry.tag] = Entry.at]
           complete == \A t \in DataTags : pair[t] # 0
           scan == [gyro |-> pair["gyro"], accel |-> pair["accel"], timestamp |-> 0]
<1>2. /\ malformed' = (malformed \/ Doubled(Entry.tag) \/ (complete /\ ~Room(scans)))
      /\ scans' = IF complete /\ Room(scans) THEN Append(scans, scan) ELSE scans
      /\ pending' = IF complete THEN NoData ELSE pair
      /\ stamps' = stamps
  BY DEF DataEntry
<1>3. Entry.at \in Nat \ {0}
  BY <1>1, ParsesInv DEF EntryType
<1>4. pair \in [DataTags -> Nat]
  BY <1>1, <1>3 DEF BatchInv, ParserInv
<1>5. scan \in ScanType
  BY <1>4 DEF ScanType, DataTags
<1>6. /\ Append(scans, scan) \in Seq(ScanType)
      /\ Len(Append(scans, scan)) = Len(scans) + 1
  BY <1>5, AppendProperties DEF BatchInv, ParserInv
<1>7. /\ complete <=> pair["gyro"] # 0 /\ pair["accel"] # 0
      /\ pair["gyro"] = IF Entry.tag = "gyro" THEN Entry.at ELSE pending["gyro"]
      /\ pair["accel"] = IF Entry.tag = "accel" THEN Entry.at ELSE pending["accel"]
      /\ Entry.tag \in {"gyro", "accel"}
  BY <1>1 DEF DataTags, BatchInv, ParserInv
<1>8. NoData["gyro"] = 0 /\ NoData["accel"] = 0
  BY DEF NoData, DataTags
<1> HIDE DEF pair, complete, scan
<1>9. scans' \in Seq(ScanType) /\ Len(scans') <= MaxScans
  BY <1>1, <1>2, <1>6, ParsesInv, Constants DEF Room, BatchInv, ParserInv
<1>10. ~malformed' => index' = 2 * Len(scans') + Len(stamps') + Held'
  <2> SUFFICES ASSUME ~malformed' PROVE index' = 2 * Len(scans') + Len(stamps') + Held'
    OBVIOUS
  <2>1. ~malformed /\ pending[Entry.tag] = 0 /\ (complete => Room(scans))
    BY <1>2 DEF Doubled
  <2>2. index = 2 * Len(scans) + Len(stamps) + Held
    BY <1>1, <2>1, ParsesInv DEF BatchInv, ParserInv
  <2>3. CASE complete
    <3>1. scans' = Append(scans, scan) /\ Held' = 0
      BY <1>2, <1>8, <2>1, <2>3 DEF Held
    <3>2. Held = 1
      BY <1>3, <1>7, <2>1, <2>3 DEF Held
    <3> QED
      BY <1>1, <1>2, <1>6, <2>2, <3>1, <3>2, ParsesInv
  <2>4. CASE ~complete
    <3>1. scans' = scans /\ pending' = pair
      BY <1>2, <2>4
    <3>2. Held = 0 /\ Held' = 1
      BY <1>3, <1>7, <2>1, <2>4, <3>1 DEF Held
    <3> QED
      BY <1>1, <1>2, <2>2, <3>1, <3>2, ParsesInv
  <2> QED
    BY <2>3, <2>4
<1>11. ParserInv'
  BY <1>1, <1>2, <1>4, <1>9, <1>10, ParsesInv, NoDataType DEF BatchInv, ParserInv
<1>12. Flags'
  <2>1. malformed' \in BOOLEAN
    BY <1>2, Zenon
  <2> QED
    BY <1>1, <2>1, Zenon DEF Parses, sensor, BatchInv, Flags
<1> QED
  BY <1>1, <1>11, <1>12, ParsesInv DEF BatchInv

(* A timestamp.                                                             *)
LEMMA TimestampInv == BatchInv /\ TimestampEntry => BatchInv'
<1> SUFFICES ASSUME BatchInv, TimestampEntry PROVE BatchInv'
  OBVIOUS
<1>1. Parses /\ scans' = scans /\ pending' = pending
  BY DEF TimestampEntry
<1> DEFINE new == [raw |-> Raw(Entry.at), at |-> Entry.at]
<1>2. \/ Room(stamps) /\ stamps' = Append(stamps, new) /\ malformed' = malformed
      \/ malformed' = TRUE /\ stamps' = stamps
  BY DEF TimestampEntry
<1>3. new \in RawType
  BY <1>1, ParsesInv, RawRange DEF EntryType, RawType, Raw, BatchInv, SensorInv
<1> HIDE DEF new
<1>4. Append(stamps, new) \in Seq(RawType) /\ Len(Append(stamps, new)) = Len(stamps) + 1
  BY <1>3, AppendProperties DEF BatchInv, ParserInv
<1>5. Held' = Held /\ Held \in Nat
  BY <1>1 DEF Held
<1>6. /\ stamps' \in Seq(RawType) /\ Len(stamps') <= MaxScans
      /\ ~malformed' => index' = 2 * Len(scans') + Len(stamps') + Held'
  <2>1. CASE Room(stamps) /\ stamps' = Append(stamps, new) /\ malformed' = malformed
    <3>1. stamps' \in Seq(RawType) /\ Len(stamps') = Len(stamps) + 1
      BY <2>1, <1>4
    <3>2. Len(stamps') <= MaxScans
      BY <1>1, <2>1, <3>1, ParsesInv, Constants DEF Room
    <3>3. ~malformed => index = 2 * Len(scans) + Len(stamps) + Held
      BY <1>1, ParsesInv DEF BatchInv, ParserInv
    <3>4. ~malformed => index' = 2 * Len(scans') + Len(stamps') + Held'
      BY <1>1, <1>5, <3>1, <3>3, ParsesInv
    <3> QED
      BY <2>1, <3>1, <3>2, <3>4
  <2>2. CASE malformed' = TRUE /\ stamps' = stamps
    BY <2>2 DEF BatchInv, ParserInv
  <2> QED
    BY <1>2, <2>1, <2>2
<1>7. ParserInv'
  BY <1>1, <1>6, ParsesInv DEF BatchInv, ParserInv
<1>8. Flags'
  BY <1>1, <1>2, Zenon DEF Parses, sensor, BatchInv, Flags
<1> QED
  BY <1>1, <1>7, <1>8, ParsesInv DEF BatchInv

(* An entry of another kind.                                                *)
LEMMA UnknownInv == BatchInv /\ UnknownEntry => BatchInv'
<1> SUFFICES ASSUME BatchInv, UnknownEntry PROVE BatchInv'
  OBVIOUS
<1>1. Parses /\ malformed' = TRUE /\ UNCHANGED <<pending, scans, stamps>>
  BY DEF UnknownEntry
<1>2. ParserInv'
  BY <1>1, ParsesInv DEF BatchInv, ParserInv
<1>3. Flags'
  BY <1>1, Zenon DEF Parses, sensor, BatchInv, Flags
<1> QED
  BY <1>1, <1>2, <1>3, ParsesInv DEF BatchInv

(* A recovery from any action that hands it the FIFO as it is.              *)
LEMMA RecoverNow ==
  ASSUME BatchInv, NEW s \in StampType, FifoRecover(s, fifo)
  PROVE  BatchInv'
  BY RecoverInv DEF BatchInv, SensorInv

(* The end of the batch: it is rejected, or nothing of it is dropped.       *)
LEMMA ParseEndInv == BatchInv /\ ParseEnd => BatchInv'
<1> SUFFICES ASSUME BatchInv, ParseEnd PROVE BatchInv'
  OBVIOUS
<1>1. CASE FifoRecover(stamp, fifo)
  BY <1>1, RecoverNow DEF BatchInv, OrderInv
<1>2. CASE ~FifoRecover(stamp, fifo)
  <2>1. /\ ~Rejected /\ pc = "parse" /\ index = Len(batch)
        /\ pc' = "stamp" /\ index' = 0
        /\ UNCHANGED <<sensor, fifo_faulted, discontinuity, stamp, entries,
                       credit, batch, pending, malformed, scans, stamps, faults,
                       delivered>>
    BY <1>2 DEF ParseEnd
  <2>2. SensorInv' /\ OrderInv'
    BY <2>1 DEF BatchInv, SensorInv, OrderInv, sensor
  <2>3. Flags'
    BY <2>1, Zenon DEF BatchInv, Flags, sensor
  <2>4. Held = 0
    BY <2>1 DEF Rejected, Held, NoData, DataTags
  <2>5. Len(scans) \in Nat /\ Len(stamps) \in Nat /\ Len(batch) \in Nat
    BY LenProperties DEF BatchInv, ParserInv
  <2>6. Len(scans) > 0 /\ Len(stamps) = Len(scans) /\ Len(batch) = 3 * Len(scans)
    <3>1. ~malformed /\ Len(scans) # 0 /\ Len(scans) = Len(stamps)
      BY <2>1 DEF Rejected
    <3>2. index = 2 * Len(scans) + Len(stamps) + Held
      BY <2>1, <3>1 DEF BatchInv, ParserInv
    <3> QED
      BY <2>1, <2>4, <2>5, <3>1, <3>2
  <2>7. ParserInv'
    BY <2>1, <2>5, <2>6 DEF BatchInv, ParserInv, Accounted, EntriesPerScan
  <2> QED
    BY <2>2, <2>3, <2>7 DEF BatchInv
<1> QED
  BY <1>1, <1>2

(* The timestamp fields after a counter value has been taken in.            *)
LEMMA ExtendedType ==
  ASSUME NEW s \in StampType, NEW raw \in 0..Wrap - 1
  PROVE  /\ Extended(s, raw) \in StampType
         /\ Extended(s, raw).timestamp_valid = s.timestamp_valid
         /\ Extended(s, raw).last_timestamp_ns = s.last_timestamp_ns
<1> DEFINE w == IF Wrapped(s, raw) THEN s.hw_timestamp_wraps + 1
                                   ELSE s.hw_timestamp_wraps
<1>1. w \in Nat
  BY DEF StampType
<1>2. Extended(s, raw) = [s EXCEPT !.hw_timestamp_wraps = w,
                !.last_hw_timestamp = raw, !.hw_timestamp_valid = TRUE]
  BY DEF Extended
<1> HIDE DEF w
<1> QED
  BY <1>1, <1>2 DEF StampType

(* A scan gets its timestamp.                                               *)
LEMMA StampInv == BatchInv /\ Stamp => BatchInv'
<1> SUFFICES ASSUME BatchInv, Stamp PROVE BatchInv'
  OBVIOUS
<1> DEFINE raw == stamps[index + 1].raw
           s == Extended(stamp, raw)
<1>1. /\ Len(scans) \in Nat /\ index \in Nat /\ index < Len(scans)
      /\ Len(stamps) = Len(scans) /\ pc = "stamp"
      /\ scans \in Seq(ScanType) /\ stamps \in Seq(RawType)
      /\ Len(scans) \in 1..MaxScans /\ Len(batch) = 3 * Len(scans)
  BY LenProperties, Constants DEF Stamp, BatchInv, ParserInv, Accounted,
     EntriesPerScan
<1>2. index + 1 \in 1..Len(scans)
  BY <1>1
<1>3. raw \in 0..Wrap - 1
  <2>1. stamps[index + 1] \in RawType
    BY <1>1, <1>2, ElementOfSeq
  <2> QED
    BY <2>1 DEF RawType
<1>4. stamp \in StampType /\ s \in StampType
  BY <1>3, ExtendedType DEF BatchInv, OrderInv
<1>5. CASE FifoRecover(stamp, fifo) \/ FifoRecover(s, fifo)
  <2> HIDE DEF s
  <2> QED
    BY <1>4, <1>5, RecoverNow
<1>6. CASE ~(FifoRecover(stamp, fifo) \/ FifoRecover(s, fifo))
  <2>1. /\ ~Backward(ToNs(s))
        /\ stamp' = s
        /\ discontinuity' = (discontinuity \/ Gap(ToNs(s)))
        /\ scans' = [scans EXCEPT ![index + 1].timestamp = ToNs(s)]
        /\ index' = index + 1
        /\ UNCHANGED <<sensor, fifo_faulted, pc, entries, credit, batch,
                       pending, malformed, stamps, faults, delivered>>
    BY <1>6 DEF Stamp
  <2> DEFINE now == ToNs(s)
             scan == [scans[index + 1] EXCEPT !.timestamp = now]
  <2>2. now \in Nat
    BY <1>4, ToNsNat
  <2>3. /\ s.timestamp_valid = stamp.timestamp_valid
        /\ s.last_timestamp_ns = stamp.last_timestamp_ns
    BY <1>3, <1>4, ExtendedType
  <2>4. scans[index + 1] \in ScanType
    BY <1>1, <1>2, ElementOfSeq
  <2>5. scan \in ScanType /\ scan.timestamp = now
    BY <2>2, <2>4 DEF ScanType
  <2>6. scans' = [scans EXCEPT ![index + 1] = scan]
    BY <2>1
  <2> HIDE DEF now, scan, s
  <2>7. /\ scans' \in Seq(ScanType) /\ Len(scans') = Len(scans)
        /\ \A k \in 1..Len(scans) :
             scans'[k] = IF k = index + 1 THEN scan ELSE scans[k]
    BY <1>1, <1>2, <2>5, <2>6, ExceptSeq
  <2>8. SensorInv'
    BY <2>1 DEF BatchInv, SensorInv, sensor
  <2>9. Flags'
    <3>1. discontinuity' \in BOOLEAN
      BY <2>1, Zenon
    <3> QED
      BY <2>1, <3>1, Zenon DEF BatchInv, Flags, sensor
  <2>10. ParserInv'
    BY <1>1, <2>1, <2>7 DEF BatchInv, ParserInv, Accounted, EntriesPerScan
  <2>11. discontinuity => discontinuity'
    BY <2>1
  <2>12. ASSUME Follows
         PROVE  Previous < now /\ (now - Previous > 2 * Period => discontinuity')
    <3>1. Previous \in Nat
      <4>1. CASE index > 0
        <5>1. scans[index] \in ScanType
          BY <1>1, <4>1, ElementOfSeq
        <5> QED
          BY <4>1, <5>1 DEF Previous, ScanType
      <4>2. CASE ~(index > 0)
        BY <4>2 DEF Previous, BatchInv, OrderInv, StampType
      <4> QED
        BY <4>1, <4>2
    <3>2. ~(now <= Previous)
      BY <2>1, <2>12 DEF Backward, now
    <3>3. now - Previous > 2 * Period => discontinuity'
      BY <2>1, <2>12 DEF Gap, now
    <3> QED
      BY <2>2, <3>1, <3>2, <3>3
  <2>13. ASSUME NEW k \in 1..index
         PROVE  /\ scans'[k].timestamp < scans'[k + 1].timestamp
                /\ scans'[k + 1].timestamp - scans'[k].timestamp > 2 * Period
                     => discontinuity'
    <3>1. CASE k = index
      <4>1. scans'[k] = scans[index] /\ scans'[k + 1].timestamp = now
        BY <1>1, <2>5, <2>7, <3>1
      <4>2. Follows /\ Previous = scans[index].timestamp
        BY <1>1, <3>1 DEF Follows, Previous
      <4> QED
        BY <2>12, <4>1, <4>2
    <3>2. CASE k # index
      <4>1. scans'[k] = scans[k] /\ scans'[k + 1] = scans[k + 1] /\ k \in 1..index - 1
        BY <1>1, <2>7, <3>2
      <4>2. Steps(scans[k].timestamp, scans[k + 1].timestamp)
        BY <1>1, <4>1 DEF BatchInv, OrderInv
      <4> QED
        BY <2>11, <4>1, <4>2 DEF Steps
    <3> QED
      BY <3>1, <3>2
  <2>14. ASSUME stamp.timestamp_valid
         PROVE  /\ delivered.timestamp < scans'[1].timestamp
                /\ scans'[1].timestamp - delivered.timestamp > 2 * Period
                     => discontinuity'
    <3>1. CASE index = 0
      <4>1. scans'[1].timestamp = now
        BY <1>1, <2>5, <2>7, <3>1
      <4>2. Follows /\ Previous = delivered.timestamp
        BY <2>14, <3>1 DEF Follows, Previous, BatchInv, OrderInv
      <4> QED
        BY <2>12, <4>1, <4>2
    <3>2. CASE index # 0
      <4>1. scans'[1] = scans[1]
        BY <1>1, <2>7, <3>2
      <4>2. Steps(delivered.timestamp, scans[1].timestamp)
        BY <1>1, <2>14, <3>2 DEF BatchInv, OrderInv
      <4> QED
        BY <2>11, <4>1, <4>2 DEF Steps
    <3> QED
      BY <3>1, <3>2
  <2>15. OrderInv'
    <3>1. /\ stamp' \in StampType /\ delivered' = delivered /\ index' - 1 = index
          /\ stamp'.timestamp_valid = stamp.timestamp_valid
          /\ stamp'.last_timestamp_ns = stamp.last_timestamp_ns
      BY <1>1, <1>4, <2>1, <2>3
    <3> QED
      BY <2>11, <2>13, <2>14, <3>1 DEF OrderInv, Steps, BatchInv
  <2> QED
    BY <2>8, <2>9, <2>10, <2>15 DEF BatchInv
<1> QED
  BY <1>5, <1>6

(* The scans are pushed.                                                    *)
LEMMA PushInv == BatchInv /\ Push => BatchInv'
<1> SUFFICES ASSUME BatchInv, Push PROVE BatchInv'
  OBVIOUS
<1>1. /\ pc' = "idle" /\ batch' = <<>> /\ NoLocals
      /\ UNCHANGED <<sensor, fifo_faulted, entries, credit, faults>>
      /\ discontinuity' = FALSE /\ pc = "stamp" /\ index = Len(scans)
      /\ stamp' = [stamp EXCEPT !.last_timestamp_ns = scans[Len(scans)].timestamp,
                                !.timestamp_valid = TRUE]
      /\ delivered' = [timestamp |-> scans[Len(scans)].timestamp,
                       sound |-> ~garbled /\ ~fifo_faulted]
  BY DEF Push, Ready
<1>2. ParserInv'
  BY <1>1, NoLocalsInv
<1>3. SensorInv'
  BY <1>1 DEF BatchInv, SensorInv, sensor
<1>4. Flags'
  BY <1>1, Zenon DEF BatchInv, Flags, sensor, NoLocals
<1>5. Len(scans) \in Nat /\ Len(scans) > 0 /\ scans \in Seq(ScanType)
  BY <1>1, LenProperties DEF BatchInv, ParserInv
<1>6. scans[Len(scans)].timestamp \in Nat
  <2>1. scans[Len(scans)] \in ScanType
    BY <1>5, ElementOfSeq
  <2> QED
    BY <2>1 DEF ScanType
<1>7. /\ stamp' \in StampType /\ stamp'.timestamp_valid
      /\ stamp'.last_timestamp_ns = scans[Len(scans)].timestamp
  BY <1>1, <1>6 DEF StampType, BatchInv, OrderInv
<1>8. /\ delivered' \in [timestamp : Nat, sound : BOOLEAN]
      /\ delivered'.timestamp = scans[Len(scans)].timestamp
  <2>1. (~garbled /\ ~fifo_faulted) \in BOOLEAN
    BY Zenon
  <2> QED
    BY <1>1, <1>6, <2>1
<1>9. OrderInv'
  BY <1>1, <1>7, <1>8 DEF OrderInv
<1> QED
  BY <1>2, <1>3, <1>4, <1>9 DEF BatchInv

(* A new session.                                                           *)
LEMMA ReopenInv == BatchInv /\ Reopen => BatchInv'
<1> SUFFICES ASSUME BatchInv, Reopen PROVE BatchInv'
  OBVIOUS
<1>1. SensorInv'
  BY NoSeq, Constants DEF Reopen, Restarted, BatchInv, SensorInv
<1>2. Flags'
  BY Zenon DEF Reopen, Restarted, BatchInv, Flags, locals
<1>3. ParserInv'
  BY DEF Reopen, BatchInv, ParserInv, Held, locals
<1>4. stamp' \in StampType /\ ~stamp'.timestamp_valid
  BY ResetType DEF Reopen, BatchInv, OrderInv
<1>5. OrderInv'
  BY <1>4 DEF Reopen, OrderInv, Nobody
<1> QED
  BY <1>1, <1>2, <1>3, <1>5 DEF BatchInv

LEMMA StutterInv == BatchInv /\ UNCHANGED vars => BatchInv'
<1> SUFFICES ASSUME BatchInv, UNCHANGED vars PROVE BatchInv'
  OBVIOUS
<1>1. SensorInv'
  BY DEF BatchInv, SensorInv, vars, sensor
<1>2. Flags'
  BY Zenon DEF BatchInv, Flags, vars, sensor, locals
<1>3. ParserInv' /\ OrderInv'
  BY DEF BatchInv, ParserInv, Held, Accounted, OrderInv, Steps, vars, locals
<1> QED
  BY <1>1, <1>2, <1>3 DEF BatchInv

LEMMA NextBatch == BatchInv /\ [Next]_vars => BatchInv'
  BY WriteInv, StatusInv, ReadInv, ReadFailsInv, DataInv, TimestampInv, UnknownInv,
     ParseEndInv, StampInv, PushInv, ReopenInv, StutterInv, Zenon DEF Next

(* The batch invariant holds in every state.                                *)
THEOREM Batches == Spec => []BatchInv
  BY InitBatch, NextBatch, PTL DEF Spec

(* Types, and the bounds of the arrays the parser fills, whatever tags the  *)
(* bus delivers: lsm6dsox_fifo_read_entries.                                *)
THEOREM TypeCorrect == Spec => []TypeOK
<1>1. BatchInv => TypeOK
  <2> SUFFICES ASSUME BatchInv PROVE TypeOK
    OBVIOUS
  <2>1. /\ {time, origin, entries, credit, index, faults} \subseteq Nat
        /\ phase \in 0..EntriesPerScan - 1
    BY DEF BatchInv, SensorInv, ParserInv, EntriesPerScan
  <2>2. /\ running \in BOOLEAN /\ lost \in BOOLEAN /\ garbled \in BOOLEAN
        /\ fifo_faulted \in BOOLEAN /\ discontinuity \in BOOLEAN
        /\ malformed \in BOOLEAN
    BY Zenon DEF BatchInv, Flags
  <2>3. /\ fifo \in Seq(EntryType) /\ batch \in Seq(EntryType) /\ stamp \in StampType
        /\ pc \in {"idle", "read", "parse", "stamp"}
        /\ pending \in [DataTags -> Nat]
        /\ scans \in Seq(ScanType) /\ stamps \in Seq(RawType)
        /\ Len(scans) <= MaxScans /\ Len(stamps) <= MaxScans
        /\ delivered \in [timestamp : Nat, sound : BOOLEAN]
    BY DEF BatchInv, SensorInv, ParserInv, OrderInv
  <2>4. index <= Len(batch)
    BY LenProperties DEF BatchInv, ParserInv
  <2> QED
    BY <2>1, <2>2, <2>3, <2>4, Zenon
       DEF TypeOK, EntryType, StampType, ScanType, RawType
<1> QED
  BY <1>1, Batches, PTL

(* Until a recovery the timestamps pushed strictly increase, whatever the   *)
(* bus does to them: the checks of lsm6dsox_fifo_read_entries suffice.      *)
THEOREM SegmentsRunForward == Spec => []SegmentForward
<1>1. BatchInv => SegmentForward
  <2> SUFFICES ASSUME BatchInv, Ready PROVE
        /\ \A k \in 1..Len(scans) - 1 : scans[k].timestamp < scans[k + 1].timestamp
        /\ stamp.timestamp_valid => delivered.timestamp < scans[1].timestamp
    BY DEF SegmentForward
  <2> QED
    BY DEF Ready, BatchInv, ParserInv, OrderInv, Steps
<1> QED
  BY <1>1, Batches, PTL

(* No pause in the timestamps of a session escapes fifo_discontinuity_count.*)
THEOREM NoPauseUnnoticed == Spec => []PausesCounted
<1>1. BatchInv => PausesCounted
  <2> SUFFICES ASSUME BatchInv, Ready, NEW k \in Pauses PROVE discontinuity
    BY DEF PausesCounted
  <2> DEFINE stamped == [i \in 1..Len(scans) |-> scans[i].timestamp]
             times == <<delivered.timestamp>> \o stamped
             first == IF delivered = Nobody THEN 2 ELSE 1
  <2>1. /\ Len(scans) \in Nat /\ Len(scans) > 0 /\ scans \in Seq(ScanType)
        /\ pc = "stamp" /\ index = Len(scans)
    BY LenProperties DEF Ready, BatchInv, ParserInv
  <2>2. stamped \in Seq(Nat) /\ Len(stamped) = Len(scans)
    <3>1. ASSUME NEW i \in 1..Len(scans) PROVE scans[i].timestamp \in Nat
      <4>1. scans[i] \in ScanType
        BY <2>1, ElementOfSeq
      <4> QED
        BY <4>1 DEF ScanType
    <3> QED
      BY <2>1, <3>1
  <2>3. delivered.timestamp \in Nat
    BY DEF BatchInv, OrderInv
  <2>4. /\ times[1] = delivered.timestamp
        /\ \A i \in 1..Len(scans) : times[i + 1] = scans[i].timestamp
    <3>1. /\ <<delivered.timestamp>> \in Seq(Nat) /\ Len(<<delivered.timestamp>>) = 1
          /\ <<delivered.timestamp>>[1] = delivered.timestamp
      BY <2>3
    <3> HIDE DEF stamped
    <3>2. \A i \in 1..1 + Len(stamped) :
            times[i] = IF i <= 1 THEN <<delivered.timestamp>>[i] ELSE stamped[i - 1]
      BY <2>2, <3>1, ConcatProperties
    <3>3. \A i \in 1..Len(scans) : stamped[i] = scans[i].timestamp
      BY DEF stamped
    <3> HIDE DEF times
    <3>4. times[1] = delivered.timestamp
      BY <2>1, <2>2, <3>1, <3>2
    <3>5. ASSUME NEW i \in 1..Len(scans) PROVE times[i + 1] = scans[i].timestamp
      <4>1. i + 1 \in 1..1 + Len(stamped) /\ ~(i + 1 <= 1) /\ (i + 1) - 1 = i
        BY <2>1, <2>2
      <4> QED
        BY <3>2, <3>3, <4>1
    <3> QED
      BY <3>4, <3>5
  <2>5. k \in first..Len(scans) /\ times[k + 1] - times[k] > 2 * Period
    BY DEF Pauses
  <2> HIDE DEF times, stamped
  <2>6. CASE k = 1
    <3>1. delivered # Nobody
      BY <2>5, <2>6
    <3>2. stamp.timestamp_valid => Steps(delivered.timestamp, scans[1].timestamp)
      BY <2>1 DEF BatchInv, OrderInv
    <3>3. scans[1].timestamp - delivered.timestamp > 2 * Period
      BY <2>1, <2>4, <2>5, <2>6
    <3> QED
      BY <3>1, <3>2, <3>3 DEF BatchInv, OrderInv, Steps
  <2>7. CASE k # 1
    <3>1. k - 1 \in 1..index - 1 /\ k - 1 \in 1..Len(scans) /\ k \in 1..Len(scans)
      BY <2>1, <2>5, <2>7
    <3>2. Steps(scans[k - 1].timestamp, scans[(k - 1) + 1].timestamp)
      BY <2>1, <3>1 DEF BatchInv, OrderInv
    <3>3. times[k] = scans[k - 1].timestamp /\ times[k + 1] = scans[k].timestamp
      BY <2>4, <3>1
    <3> QED
      BY <2>5, <3>1, <3>2, <3>3 DEF Steps
  <2> QED
    BY <2>6, <2>7
<1> QED
  BY <1>1, Batches, PTL
-----------------------------------------------------------------------------
(* What the parser has seen of a batch.  As long as it calls the batch well *)
(* formed, the counts of the entries agree with its arrays, and every pair  *)
(* is complete or begun; once it calls it malformed, there is a flaw that   *)
(* no later entry repairs.                                                  *)
Seen(tag) == Count(batch, tag, index)
One(condition) == IF condition THEN 1 ELSE 0

Flawless ==
  /\ Seen("other") = 0 /\ Seen("timestamp") = Len(stamps)
  /\ Seen("gyro") = Len(scans) + One(pending["gyro"] # 0)
  /\ Seen("accel") = Len(scans) + One(pending["accel"] # 0)
  /\ pending["gyro"] = 0 \/ pending["accel"] = 0
  /\ \A k \in 1..index : Paired(batch, k)

Flawed ==
  \/ Seen("other") > 0 \/ Seen("timestamp") > MaxScans \/ Seen("gyro") > MaxScans
  \/ \E k \in 1..index : ~Paired(batch, k)

CountInv ==
  /\ pc = "read" => entries <= 3 * MaxScans
  /\ Len(batch) <= 3 * MaxScans
  /\ pc = "parse" =>
       /\ Seen("gyro") + Seen("accel") + Seen("timestamp") + Seen("other") = index
       /\ malformed => Flawed
       /\ ~malformed => Flawless

(* One more entry counts for its own tag and for no other.                  *)
LEMMA CountStep ==
  ASSUME NEW b, NEW tag, NEW m \in Nat
  PROVE  /\ Count(b, tag, m) \in Nat
         /\ Count(b, tag, 0) = 0
         /\ Count(b, tag, m + 1) = Count(b, tag, m) + One(b[m + 1].tag = tag)
<1> DEFINE upto(k) == {i \in 1..k : b[i].tag = tag}
<1>1. IsFiniteSet(upto(m)) /\ Cardinality(upto(m)) \in Nat
  <2>1. IsFiniteSet(1..m)
    BY FS_Interval
  <2>2. upto(m) \in SUBSET (1..m)
    OBVIOUS
  <2>3. IsFiniteSet(upto(m))
    BY <2>1, <2>2, FS_Subset
  <2> QED
    BY <2>3, FS_CardinalityType
<1>2. upto(0) = {}
  OBVIOUS
<1>3. CASE b[m + 1].tag = tag
  <2>1. upto(m + 1) = upto(m) \cup {m + 1} /\ m + 1 \notin upto(m)
    BY <1>3
  <2>2. Cardinality(upto(m + 1)) = Cardinality(upto(m)) + 1
    BY <1>1, <2>1, FS_AddElement
  <2> QED
    BY <1>1, <1>2, <1>3, <2>2, FS_EmptySet DEF Count, One
<1>4. CASE b[m + 1].tag # tag
  <2>1. upto(m + 1) = upto(m)
    BY <1>4
  <2>2. Cardinality(upto(m + 1)) = Cardinality(upto(m)) + One(b[m + 1].tag = tag)
    BY <1>1, <1>4, <2>1 DEF One
  <2> QED
    BY <1>1, <1>2, <2>2, FS_EmptySet DEF Count
<1> QED
  BY <1>3, <1>4

(* A step of the parser has seen one entry more.                            *)
LEMMA SeenStep ==
  ASSUME BatchInv, Parses
  PROVE  /\ index \in Nat /\ index' = index + 1
         /\ \A t \in Tags : /\ Seen(t) \in Nat
                            /\ Seen(t)' = Seen(t) + One(Entry.tag = t)
         /\ Entry.tag \in Tags
<1>1. /\ index \in Nat /\ index' = index + 1 /\ batch' = batch
      /\ Entry.tag \in Tags
  BY ParsesInv DEF BatchInv, ParserInv, EntryType
<1>2. ASSUME NEW t \in Tags
      PROVE  Seen(t) \in Nat /\ Seen(t)' = Seen(t) + One(Entry.tag = t)
  <2>1. /\ Count(batch, t, index) \in Nat
        /\ Count(batch, t, index + 1) = Count(batch, t, index) + One(batch[index + 1].tag = t)
    BY <1>1, CountStep
  <2> QED
    BY <1>1, <2>1 DEF Seen, Entry
<1> QED
  BY <1>1, <1>2

(* The parser has read an entry: the counts still add up, and a flaw stays. *)
LEMMA CountsKept ==
  ASSUME BatchInv, CountInv, Parses
  PROVE  /\ pc' = "parse" /\ Len(batch') <= 3 * MaxScans
         /\ Seen("gyro")' + Seen("accel")' + Seen("timestamp")' + Seen("other")' = index'
         /\ malformed => Flawed'
<1>1. pc = "parse" /\ pc' = "parse" /\ batch' = batch
  BY ParsesInv
<1>2. /\ Seen("gyro") \in Nat /\ Seen("accel") \in Nat
      /\ Seen("timestamp") \in Nat /\ Seen("other") \in Nat
      /\ Seen("gyro")' = Seen("gyro") + One(Entry.tag = "gyro")
      /\ Seen("accel")' = Seen("accel") + One(Entry.tag = "accel")
      /\ Seen("timestamp")' = Seen("timestamp") + One(Entry.tag = "timestamp")
      /\ Seen("other")' = Seen("other") + One(Entry.tag = "other")
      /\ Entry.tag \in {"gyro", "accel", "timestamp", "other"}
      /\ index \in Nat /\ index' = index + 1
  BY SeenStep DEF Tags, DataTags
<1>3. Seen("gyro")' + Seen("accel")' + Seen("timestamp")' + Seen("other")' = index'
  <2>1. Seen("gyro") + Seen("accel") + Seen("timestamp") + Seen("other") = index
    BY <1>1 DEF CountInv
  <2> QED
    BY <1>2, <2>1 DEF One
<1>4. ASSUME malformed PROVE Flawed'
  <2>1. Flawed
    BY <1>1, <1>4 DEF CountInv
  <2>2. CASE \E k \in 1..index : ~Paired(batch, k)
    <3>1. PICK k \in 1..index : ~Paired(batch, k)
      BY <2>2
    <3>2. k \in 1..index' /\ ~Paired(batch', k)
      BY <1>1, <1>2, <3>1
    <3> QED
      BY <3>2 DEF Flawed
  <2>3. CASE Seen("other") > 0 \/ Seen("timestamp") > MaxScans \/ Seen("gyro") > MaxScans
    <3>1. Seen("other")' > 0 \/ Seen("timestamp")' > MaxScans \/ Seen("gyro")' > MaxScans
      BY <1>2, <2>3, Constants DEF One
    <3> QED
      BY <3>1 DEF Flawed
  <2> QED
    BY <2>1, <2>2, <2>3 DEF Flawed
<1> QED
  BY <1>1, <1>3, <1>4 DEF CountInv

(* A sum of two counts that differ by at most one is even only if they are  *)
(* equal; and one of two that differ by two is even as well.                *)
LEMMA Parity ==
  \A x \in Nat : /\ (x + x) % 2 = 0
                 /\ (x + (x + 1)) % 2 = 1 /\ ((x + 1) + x) % 2 = 1
                 /\ (x + (x + 2)) % 2 = 0 /\ ((x + 2) + x) % 2 = 0
  OBVIOUS

(* A gyro or accel entry.                                                   *)
LEMMA DataCounts == BatchInv /\ CountInv /\ DataEntry => CountInv'
<1> SUFFICES ASSUME BatchInv, CountInv, DataEntry PROVE CountInv'
  OBVIOUS
<1>1. Parses /\ Entry.tag \in DataTags /\ pc = "parse" /\ batch' = batch
  BY ParsesInv DEF DataEntry
<1> DEFINE pair == [pending EXCEPT ![Entry.tag] = Entry.at]
           complete == \A t \in DataTags : pair[t] # 0
           scan == [gyro |-> pair["gyro"], accel |-> pair["accel"], timestamp |-> 0]
<1>2. /\ malformed' = (malformed \/ Doubled(Entry.tag) \/ (complete /\ ~Room(scans)))
      /\ scans' = IF complete /\ Room(scans) THEN Append(scans, scan) ELSE scans
      /\ pending' = IF complete THEN NoData ELSE pair
      /\ stamps' = stamps
  BY DEF DataEntry
<1>3. Entry.at # 0
  BY <1>1, ParsesInv DEF EntryType
<1>4. /\ pair["gyro"] = IF Entry.tag = "gyro" THEN Entry.at ELSE pending["gyro"]
      /\ pair["accel"] = IF Entry.tag = "accel" THEN Entry.at ELSE pending["accel"]
      /\ complete <=> pair["gyro"] # 0 /\ pair["accel"] # 0
      /\ Entry.tag \in {"gyro", "accel"}
  BY <1>1 DEF DataTags, BatchInv, ParserInv
<1>5. NoData["gyro"] = 0 /\ NoData["accel"] = 0
  BY DEF NoData, DataTags
<1>6. /\ Len(scans) \in Nat
      /\ scans' = Append(scans, scan) => Len(scans') = Len(scans) + 1
  <2>1. scans \in Seq(ScanType) /\ pair \in [DataTags -> Nat]
    BY <1>1, ParsesInv DEF BatchInv, ParserInv, EntryType
  <2>2. scan \in ScanType
    BY <2>1 DEF ScanType, DataTags
  <2> QED
    BY <2>1, <2>2, LenProperties, AppendProperties
<1> HIDE DEF pair, complete, scan
<1>7. /\ Seen("gyro") \in Nat /\ Seen("accel") \in Nat
      /\ Seen("gyro")' = Seen("gyro") + One(Entry.tag = "gyro")
      /\ Seen("accel")' = Seen("accel") + One(Entry.tag = "accel")
      /\ Seen("timestamp")' = Seen("timestamp") /\ Seen("other")' = Seen("other")
      /\ index \in Nat /\ index' = index + 1
  <2>1. \A t \in {"gyro", "accel", "timestamp", "other"} :
          Seen(t) \in Nat /\ Seen(t)' = Seen(t) + One(Entry.tag = t)
    BY <1>1, SeenStep DEF Tags, DataTags
  <2>2. One(Entry.tag = "timestamp") = 0 /\ One(Entry.tag = "other") = 0
    BY <1>4 DEF One
  <2>3. /\ Seen("timestamp") \in Nat /\ Seen("other") \in Nat
        /\ Seen("timestamp")' = Seen("timestamp") + 0
        /\ Seen("other")' = Seen("other") + 0
    BY <2>1, <2>2
  <2> QED
    BY <1>1, <2>1, <2>3, SeenStep
<1>8. Paired(batch', index') <=>
        ((Seen("gyro")' + Seen("accel")') % 2 = 0 => Seen("gyro")' = Seen("accel")')
  BY DEF Paired, Seen
<1>9. ASSUME ~malformed, malformed'
      PROVE  Flawed'
  <2>1. Flawless
    BY <1>1, <1>9 DEF CountInv
  <2>2. CASE Doubled(Entry.tag)
    <3>1. \/ Seen("gyro")' = Len(scans) + 2 /\ Seen("accel")' = Len(scans)
          \/ Seen("accel")' = Len(scans) + 2 /\ Seen("gyro")' = Len(scans)
      BY <1>4, <1>6, <1>7, <2>1, <2>2 DEF Flawless, Doubled, One
    <3>2. ~Paired(batch', index')
      BY <1>6, <1>8, <3>1, Parity
    <3> QED
      BY <1>7, <3>2 DEF Flawed
  <2>3. CASE ~Doubled(Entry.tag) /\ complete /\ ~Room(scans)
    <3>1. Seen("gyro")' = Len(scans) + 1
      BY <1>3, <1>4, <1>6, <1>7, <2>1, <2>3 DEF Flawless, Doubled, One
    <3>2. Seen("gyro")' > MaxScans
      BY <1>6, <2>3, <3>1, Constants DEF Room
    <3> QED
      BY <3>2 DEF Flawed
  <2> QED
    BY <1>2, <1>9, <2>2, <2>3
<1>10. ASSUME ~malformed'
       PROVE  Flawless'
  <2>1. Flawless /\ ~Doubled(Entry.tag) /\ (complete => Room(scans))
    BY <1>1, <1>2, <1>10 DEF CountInv
  <2>2. /\ Seen("gyro")' = Len(scans') + One(pending'["gyro"] # 0)
        /\ Seen("accel")' = Len(scans') + One(pending'["accel"] # 0)
        /\ pending'["gyro"] = 0 \/ pending'["accel"] = 0
        /\ Len(scans') \in Nat
    <3>1. CASE complete
      <4>1. /\ Len(scans') = Len(scans) + 1
            /\ pending'["gyro"] = 0 /\ pending'["accel"] = 0
        BY <1>2, <1>5, <1>6, <2>1, <3>1
      <4>2. Seen("gyro")' = Len(scans) + 1 /\ Seen("accel")' = Len(scans) + 1
        BY <1>3, <1>4, <1>6, <1>7, <2>1, <3>1 DEF Flawless, Doubled, One
      <4> QED
        BY <1>6, <4>1, <4>2 DEF One
    <3>2. CASE ~complete
      <4>1. scans' = scans /\ pending' = pair
        BY <1>2, <3>2
      <4> QED
        BY <1>3, <1>4, <1>6, <1>7, <2>1, <3>2, <4>1 DEF Flawless, Doubled, One
    <3> QED
      BY <3>1, <3>2
  <2>3. Paired(batch', index')
    <3>1. \/ Seen("gyro")' = Len(scans') /\ Seen("accel")' = Len(scans')
          \/ Seen("gyro")' = Len(scans') + 1 /\ Seen("accel")' = Len(scans')
          \/ Seen("gyro")' = Len(scans') /\ Seen("accel")' = Len(scans') + 1
      BY <2>2 DEF One
    <3> QED
      BY <1>8, <2>2, <3>1, Parity
  <2>4. \A k \in 1..index' : Paired(batch', k)
    BY <1>1, <1>7, <2>1, <2>3 DEF Flawless
  <2> QED
    BY <1>2, <1>7, <2>1, <2>2, <2>4 DEF Flawless
<1> QED
  BY <1>1, <1>9, <1>10, CountsKept DEF CountInv

(* A timestamp entry.                                                       *)
LEMMA TimestampCounts == BatchInv /\ CountInv /\ TimestampEntry => CountInv'
<1> SUFFICES ASSUME BatchInv, CountInv, TimestampEntry PROVE CountInv'
  OBVIOUS
<1>1. /\ Parses /\ Entry.tag = "timestamp" /\ pc = "parse" /\ batch' = batch
      /\ scans' = scans /\ pending' = pending
  BY ParsesInv DEF TimestampEntry
<1> DEFINE new == [raw |-> Raw(Entry.at), at |-> Entry.at]
<1>2. \/ Room(stamps) /\ stamps' = Append(stamps, new) /\ malformed' = malformed
      \/ ~Room(stamps) /\ malformed'
  BY DEF TimestampEntry
<1>3. Len(stamps) \in Nat /\ Len(Append(stamps, new)) = Len(stamps) + 1
  <2>1. new \in RawType
    BY <1>1, ParsesInv, RawRange DEF EntryType, RawType, Raw, BatchInv, SensorInv
  <2>2. stamps \in Seq(RawType)
    BY DEF BatchInv, ParserInv
  <2> QED
    BY <2>1, <2>2, LenProperties, AppendProperties
<1> HIDE DEF new
<1>4. /\ Seen("gyro")' = Seen("gyro") /\ Seen("accel")' = Seen("accel")
      /\ Seen("timestamp")' = Seen("timestamp") + 1 /\ Seen("other")' = Seen("other")
      /\ Seen("gyro") \in Nat /\ Seen("accel") \in Nat
      /\ index \in Nat /\ index' = index + 1
  <2>1. /\ One(Entry.tag = "timestamp") = 1 /\ One(Entry.tag = "other") = 0
        /\ One(Entry.tag = "gyro") = 0 /\ One(Entry.tag = "accel") = 0
    BY <1>1 DEF One
  <2>2. \A t \in {"gyro", "accel", "timestamp", "other"} :
          Seen(t) \in Nat /\ Seen(t)' = Seen(t) + One(Entry.tag = t)
    BY <1>1, SeenStep DEF Tags, DataTags
  <2> QED
    BY <1>1, <2>1, <2>2, SeenStep
<1>5. ASSUME ~malformed
      PROVE  /\ Flawless /\ Paired(batch', index')
  <2>1. Flawless
    BY <1>1, <1>5 DEF CountInv
  <2>2. Paired(batch', index') <=>
          ((Seen("gyro") + Seen("accel")) % 2 = 0 => Seen("gyro") = Seen("accel"))
    BY <1>4 DEF Paired, Seen
  <2>3. \/ Seen("gyro") = Len(scans) /\ Seen("accel") = Len(scans)
        \/ Seen("gyro") = Len(scans) + 1 /\ Seen("accel") = Len(scans)
        \/ Seen("gyro") = Len(scans) /\ Seen("accel") = Len(scans) + 1
    BY <1>1, <2>1, ParsesInv DEF Flawless, One
  <2> QED
    BY <1>1, <2>1, <2>2, <2>3, ParsesInv, Parity
<1>6. ASSUME ~malformed, malformed'
      PROVE  Flawed'
  <2>1. ~Room(stamps) /\ Seen("timestamp") = Len(stamps)
    BY <1>2, <1>5, <1>6 DEF Flawless
  <2>2. Seen("timestamp")' > MaxScans
    BY <1>3, <1>4, <2>1, Constants DEF Room
  <2> QED
    BY <2>2 DEF Flawed
<1>7. ASSUME ~malformed'
      PROVE  Flawless'
  <2>1. ~malformed /\ Len(stamps') = Len(stamps) + 1
    BY <1>2, <1>3, <1>7
  <2>2. \A k \in 1..index' : Paired(batch', k)
    BY <1>1, <1>4, <1>5, <2>1 DEF Flawless
  <2> QED
    BY <1>1, <1>4, <1>5, <2>1, <2>2 DEF Flawless
<1> QED
  BY <1>6, <1>7, CountsKept, <1>1 DEF CountInv

(* An entry of another kind.                                                *)
LEMMA UnknownCounts == BatchInv /\ CountInv /\ UnknownEntry => CountInv'
<1> SUFFICES ASSUME BatchInv, CountInv, UnknownEntry PROVE CountInv'
  OBVIOUS
<1>1. Parses /\ Entry.tag = "other" /\ malformed'
  BY DEF UnknownEntry
<1>2. Seen("other") \in Nat /\ Seen("other")' = Seen("other") + 1
  BY <1>1, SeenStep DEF Tags, One
<1> QED
  BY <1>1, <1>2, CountsKept DEF CountInv, Flawed

(* The status bounds the batch, and a read takes no more than it says.      *)
LEMMA StatusCounts == BatchInv /\ CountInv /\ Status => CountInv'
<1> SUFFICES ASSUME BatchInv, CountInv, Status PROVE CountInv'
  OBVIOUS
<1>1. CASE FifoRecover(stamp, fifo)
  BY <1>1, Constants, NoSeq DEF FifoRecover, CountInv
<1>2. CASE ~FifoRecover(stamp, fifo)
  <2>1. /\ entries' = Smaller(Len(fifo) \div EntriesPerScan, MaxScans) * EntriesPerScan
        /\ pc' = "read" /\ batch' = batch
    BY <1>2 DEF Status
  <2>2. Len(fifo) \in Nat
    BY LenProperties DEF BatchInv, SensorInv
  <2>3. entries' <= 3 * MaxScans
    BY <2>1, <2>2, Constants DEF Smaller, EntriesPerScan
  <2> QED
    BY <2>1, <2>3 DEF CountInv
<1> QED
  BY <1>1, <1>2

LEMMA ReadCounts == BatchInv /\ CountInv /\ Read => CountInv'
<1> SUFFICES ASSUME BatchInv, CountInv, Read PROVE CountInv'
  OBVIOUS
<1>1. /\ pc = "read" /\ entries \in Nat /\ entries <= Len(fifo)
      /\ pc' = "parse" /\ NoLocals
  BY DEF Read, BatchInv, SensorInv
<1> DEFINE oldest == SubSeq(fifo, 1, entries)
<1>2. oldest \in Seq(EntryType) /\ Len(oldest) = entries
  <2>1. oldest \in Seq(EntryType)
    BY <1>1, Parts
  <2>2. \A i \in 1..entries : fifo[i] \in EntryType
    BY <1>1, LenProperties, ElementOfSeq DEF BatchInv, SensorInv
  <2> QED
    BY <1>1, <2>1, <2>2, SubSeqProperties
<1>3. batch' = oldest \/ batch' \in Damaged(oldest)
  BY DEF Read
<1> HIDE DEF oldest
<1>4. Len(batch') = entries
  BY <1>2, <1>3, DamagedType
<1>5. Len(batch') <= 3 * MaxScans
  BY <1>1, <1>4 DEF CountInv
<1>6. \A t \in Tags : Seen(t)' = 0
  BY <1>1, CountStep DEF NoLocals, Seen
<1>7. /\ index' = 0 /\ ~malformed' /\ Len(scans') = 0 /\ Len(stamps') = 0
      /\ pending'["gyro"] = 0 /\ pending'["accel"] = 0
  BY <1>1, NoSeq DEF NoLocals, NoData, DataTags
<1>8. /\ Seen("gyro")' = 0 /\ Seen("accel")' = 0
      /\ Seen("timestamp")' = 0 /\ Seen("other")' = 0
  BY <1>6 DEF Tags, DataTags
<1>9. Flawless'
  BY <1>7, <1>8 DEF Flawless, One
<1> QED
  BY <1>1, <1>5, <1>7, <1>8, <1>9 DEF CountInv

(* The other actions parse nothing.                                         *)
LEMMA RestCounts ==
  ASSUME BatchInv, CountInv,
         Write \/ ReadFails \/ ParseEnd \/ Stamp \/ Push \/ Reopen
  PROVE  CountInv'
<1>1. ASSUME NEW s, NEW rest, FifoRecover(s, rest)
      PROVE  CountInv'
  BY <1>1, Constants, NoSeq DEF FifoRecover, CountInv
<1>2. CASE Write
  BY <1>2 DEF Write, CountInv, locals
<1>3. CASE ReadFails
  BY <1>1, <1>3 DEF ReadFails
<1>4. CASE ParseEnd
  BY <1>1, <1>4 DEF ParseEnd, CountInv
<1>5. CASE Stamp
  BY <1>1, <1>5 DEF Stamp, CountInv
<1>6. CASE Push
  BY <1>6, Constants, NoSeq DEF Push, CountInv
<1>7. CASE Reopen
  BY <1>7 DEF Reopen, CountInv, locals
<1> QED
  BY <1>2, <1>3, <1>4, <1>5, <1>6, <1>7

LEMMA NextCounts == BatchInv /\ CountInv /\ [Next]_vars => CountInv'
<1>1. ASSUME BatchInv, CountInv, UNCHANGED vars PROVE CountInv'
  BY <1>1 DEF CountInv, Seen, Flawless, Flawed, vars, locals
<1> QED
  BY <1>1, DataCounts, TimestampCounts, UnknownCounts, StatusCounts, ReadCounts,
     RestCounts, Zenon DEF Next

(* The parser accepts exactly the batches that are well formed, whatever    *)
(* tags the bus delivers: lsm6dsox_fifo_read_entries.                       *)
THEOREM ParserExact == Spec => []AcceptsWellFormed
<1>1. Init => CountInv
  BY Constants, NoSeq DEF Init, CountInv
<1>2. BatchInv /\ CountInv => AcceptsWellFormed
  <2> SUFFICES ASSUME BatchInv, CountInv, pc = "parse", index = Len(batch)
               PROVE  ~Rejected <=> WellFormed(batch)
    BY DEF AcceptsWellFormed
  <2> DEFINE n == Len(batch) \div EntriesPerScan
             S == Len(scans)
             T == Len(stamps)
  <2>1. /\ index \in Nat /\ Len(batch) \in Nat /\ S \in Nat /\ T \in Nat
        /\ pending \in [DataTags -> Nat]
    BY LenProperties DEF BatchInv, ParserInv
  <2>2. /\ Seen("gyro") \in Nat /\ Seen("accel") \in Nat
        /\ Seen("timestamp") \in Nat /\ Seen("other") \in Nat
    BY <2>1, CountStep DEF Seen
  <2>3. Seen("gyro") + Seen("accel") + Seen("timestamp") + Seen("other") = Len(batch)
    BY DEF CountInv
  <2>4. pending = NoData <=> pending["gyro"] = 0 /\ pending["accel"] = 0
    BY <2>1 DEF NoData, DataTags
  <2>5. ASSUME ~Rejected PROVE WellFormed(batch)
    <3>1. /\ Flawless /\ S > 0 /\ S = T
          /\ pending["gyro"] = 0 /\ pending["accel"] = 0
      BY <2>1, <2>4, <2>5 DEF Rejected, CountInv
    <3>2. /\ Seen("gyro") = S /\ Seen("accel") = S
          /\ Seen("timestamp") = S /\ Seen("other") = 0
      BY <2>1, <3>1 DEF Flawless, One
    <3>3. Len(batch) = 3 * S /\ n = S
      <4>1. Len(batch) = 3 * S
        BY <2>1, <2>3, <3>2
      <4> HIDE DEF S
      <4>2. (3 * S) \div 3 = S
        BY <2>1
      <4> QED
        BY <4>1, <4>2 DEF EntriesPerScan
    <3>4. \A k \in 1..Len(batch) : Paired(batch, k)
      BY <3>1 DEF Flawless
    <3> QED
      BY <2>1, <3>1, <3>2, <3>3, <3>4 DEF WellFormed, Seen, EntriesPerScan
  <2>6. ASSUME WellFormed(batch) PROVE ~Rejected
    <3>1. /\ n \in Nat /\ n > 0 /\ Len(batch) = 3 * n
          /\ Seen("timestamp") = n /\ Seen("other") = 0
          /\ \A k \in 1..Len(batch) : Paired(batch, k)
      BY <2>1, <2>6 DEF WellFormed, Seen, EntriesPerScan
    <3> HIDE DEF n
    <3>2. n <= MaxScans
      BY <3>1, Constants DEF CountInv
    <3>3. Seen("gyro") = n /\ Seen("accel") = n
      <4>1. Seen("gyro") + Seen("accel") = n + n
        BY <2>2, <2>3, <3>1
      <4>2. Paired(batch, index) /\ (n + n) % 2 = 0
        BY <2>1, <3>1, Parity
      <4>3. Seen("gyro") = Seen("accel")
        BY <4>1, <4>2 DEF Paired, Seen
      <4> QED
        BY <2>2, <3>1, <4>1, <4>3
    <3>4. ~Flawed
      BY <3>1, <3>2, <3>3, Constants DEF Flawed
    <3>5. Flawless /\ ~malformed
      BY <3>4 DEF CountInv
    <3>6. T = n /\ S = n /\ pending["gyro"] = 0 /\ pending["accel"] = 0
      BY <2>1, <3>1, <3>3, <3>5 DEF Flawless, One
    <3> QED
      BY <2>4, <3>1, <3>5, <3>6 DEF Rejected
  <2> QED
    BY <2>5, <2>6
<1> QED
  BY <1>1, <1>2, NextCounts, Batches, PTL DEF Spec
=============================================================================
