------------------------------ MODULE FifoBatch ------------------------------
(***************************************************************************)
(* What becomes of the contents of the sensor FIFO in lsm6dsox_driver.c:   *)
(* lsm6dsox_fifo_read_entries sorts the tagged entries of a batch into     *)
(* scans and timestamps, lsm6dsox_hw_timestamp_to_ns extends the sensor's  *)
(* wrapping counter, gaps and backward steps are found, and the scans are  *)
(* pushed.  The sensor goes on writing, and overwriting, between the       *)
(* status read and the data read; after that the handler works on a copy.  *)
(* One tick of the sensor counter is the unit of time.                     *)
(***************************************************************************)
EXTENDS Integers, Sequences, FiniteSets

CONSTANTS
  MaxScans,   \* LSM6DSOX_FIFO_MAX_SCANS, length of fifo_scans, fifo_hw_timestamps
  Wrap,       \* the sensor counter counts modulo Wrap (2^32)
  Period,     \* ticks from one sample to the next
  Depth,      \* entries the sensor FIFO holds
  Late,       \* bound: entries that arrive between status and data read
  MaxTime,    \* bound: ticks a behaviour lasts
  MaxFaults   \* bound: failed transfers, recoveries and damaged batches

ASSUME BatchAssumption ==
  /\ {MaxScans, Period, Depth} \subseteq Nat \ {0}
  /\ Wrap \in Nat /\ Wrap > 1
  /\ {Late, MaxTime, MaxFaults} \subseteq Nat

EntriesPerScan == 3

VARIABLES
  time,        \* ticks since the start, which is also the host's clock
  origin,      \* when the sensor counter was last reset
  phase,       \* 0, 1, 2: the entry of a sample that is written next
  fifo,        \* entries in the FIFO: tag and time of the sample
  running,     \* the FIFO is in continuous mode
  lost,        \* entries were overwritten since the last flush
  garbled,     \* a tag was damaged since the last flush
  fifo_faulted,
  discontinuity,     \* fifo_discontinuity_count has moved since the last push
  stamp,       \* the timestamp fields of struct lsm6dsox_data
  pc,          \* the handler: "idle", "read", "parse", "stamp"
  entries,     \* entries to read; what may still arrive before the read
  credit,
  batch,       \* fifo_raw
  index, pending, malformed, scans, stamps,   \* locals of read_entries
  faults,      \* faults so far
  delivered    \* history: the last scan pushed in the session, and whether
               \* nothing was garbled or faulted by then

sensor == <<time, origin, phase, fifo, running, lost, garbled>>
locals == <<index, pending, malformed, scans, stamps>>
vars == <<sensor, fifo_faulted, discontinuity, stamp, pc, entries, credit,
          batch, locals, faults, delivered>>

DataTags == {"gyro", "accel"}
Tags == DataTags \cup {"timestamp", "other"}
TagOf(p) == IF p = 0 THEN "gyro" ELSE IF p = 1 THEN "accel" ELSE "timestamp"

NoData == [t \in DataTags |-> 0]
NoStamp(ref) ==
  [last_hw_timestamp |-> 0, hw_timestamp_valid |-> FALSE,
   hw_timestamp_wraps |-> 0, hw_timestamp_ref_ns |-> ref,
   last_timestamp_ns |-> 0, timestamp_valid |-> FALSE]
Nobody == [timestamp |-> 0, sound |-> TRUE]

NoLocals ==
  /\ index' = 0 /\ pending' = NoData /\ malformed' = FALSE
  /\ scans' = <<>> /\ stamps' = <<>>

(* A session has just been opened: lsm6dsox_buffer_postenable.              *)
Init ==
  /\ time = 0 /\ origin = 0 /\ phase = 0 /\ fifo = <<>> /\ running = TRUE
  /\ lost = FALSE /\ garbled = FALSE
  /\ fifo_faulted = FALSE /\ discontinuity = FALSE
  /\ stamp = NoStamp(0)
  /\ pc = "idle" /\ entries = 0 /\ credit = 0 /\ batch = <<>>
  /\ index = 0 /\ pending = NoData /\ malformed = FALSE
  /\ scans = <<>> /\ stamps = <<>>
  /\ faults = 0
  /\ delivered = Nobody
-----------------------------------------------------------------------------
(* The sensor writes the next entry of a sample; a full FIFO drops its      *)
(* oldest one.                                                              *)
Write ==
  /\ running /\ pc \in {"idle", "read"}
  /\ pc = "read" => credit > 0
  /\ time' = IF phase = 0 THEN time + Period ELSE time
  /\ time' <= MaxTime
  /\ LET more == Append(fifo, [tag |-> TagOf(phase), at |-> time'])
     IN  fifo' = IF Len(fifo) < Depth THEN more ELSE Tail(more)
  /\ lost' = (lost \/ Len(fifo) = Depth)
  /\ phase' = (phase + 1) % EntriesPerScan
  /\ credit' = IF pc = "read" THEN credit - 1 ELSE credit
  /\ UNCHANGED <<origin, running, garbled, fifo_faulted, discontinuity, stamp,
                 pc, entries, batch, locals, faults, delivered>>

(* lsm6dsox_reset_hw_timestamp after a flush, with the FIFO started again.  *)
Restarted ==
  /\ fifo' = <<>> /\ phase' = 0 /\ lost' = FALSE /\ garbled' = FALSE
  /\ origin' = time

KeepsWraps(s) == [s EXCEPT !.hw_timestamp_ref_ns = time,   \* Mutation: the
                           !.hw_timestamp_valid = FALSE]   \* wraps stay.
KeepsReference(s) == [s EXCEPT !.hw_timestamp_valid = FALSE,  \* Mutation: no
                               !.hw_timestamp_wraps = 0]  \* new reference.
Reset(s) == [s EXCEPT !.hw_timestamp_ref_ns = time,
                      !.hw_timestamp_valid = FALSE, !.hw_timestamp_wraps = 0]

(* The recovery from a damaged batch may fail too.                          *)
Succeeds == UNCHANGED faults
Fault == faults < MaxFaults /\ faults' = faults + 1
Fails == Fault \/ (garbled /\ UNCHANGED faults)

(* lsm6dsox_fifo_recover with the timestamp fields s: both timelines become *)
(* invalid and a discontinuity is counted.  It restarts the FIFO; or it     *)
(* fails and leaves it in bypass; or its clean-up fails too, after the      *)
(* restart or before the flush, when the entries "rest" stay.               *)
Invalid(s) == [s EXCEPT !.timestamp_valid = FALSE, !.hw_timestamp_valid = FALSE]

FifoRecover(s, rest) ==
  /\ discontinuity' = TRUE
  /\ \/ /\ Restarted /\ running' = TRUE
        /\ stamp' = Reset(Invalid(s))
        /\ \/ Succeeds /\ fifo_faulted' = FALSE
           \/ Fails /\ fifo_faulted' = TRUE
     \/ /\ Fails /\ fifo_faulted' = TRUE
        /\ \/ /\ Restarted /\ running' = FALSE
              /\ stamp' \in {Invalid(s), Reset(Invalid(s))}
           \/ /\ fifo' = rest
              /\ UNCHANGED <<phase, lost, garbled, origin, running>>
              /\ stamp' = Invalid(s)
  /\ pc' = "idle" /\ entries' = 0 /\ credit' = 0 /\ batch' = <<>> /\ NoLocals
  /\ UNCHANGED <<time, delivered>>

(* lsm6dsox_fifo_drain reads the status: too little, an overrun, or a       *)
(* number of whole scans within the budget.                                 *)
Smaller(a, b) == IF a < b THEN a ELSE b

Status ==
  /\ pc = "idle" /\ Len(fifo) >= EntriesPerScan
  /\ \/ /\ Len(fifo) = Depth
        /\ FifoRecover(stamp, fifo)
     \/ /\ Len(fifo) < Depth
        /\ entries' = Smaller(Len(fifo) \div EntriesPerScan, MaxScans) * EntriesPerScan
        /\ pc' = "read" /\ credit' = Late
        /\ UNCHANGED <<sensor, fifo_faulted, discontinuity, stamp, batch,
                       locals, faults, delivered>>

(* The tags of two entries of a batch are damaged, or a timestamp is.       *)
Altered(b, i, tag, at) == [b EXCEPT ![i] = [tag |-> tag, at |-> at]]
Retagged(b, i, tag) == Altered(b, i, tag, b[i].at)

Damaged(b) ==
  {Retagged(Retagged(b, i, s), j, t) :
     i \in DOMAIN b, j \in DOMAIN b, s \in Tags, t \in Tags}
    \cup {Altered(b, i, "timestamp", origin + r) : i \in DOMAIN b, r \in 1..Wrap}

(* The transfers of the batch.                                              *)
Read ==
  /\ pc = "read"
  /\ LET oldest == SubSeq(fifo, 1, entries)
     IN  \/ Succeeds /\ batch' = oldest /\ UNCHANGED garbled
         \/ Fault /\ batch' \in Damaged(oldest) /\ garbled' = TRUE
  /\ fifo' = SubSeq(fifo, entries + 1, Len(fifo))
  /\ pc' = "parse" /\ entries' = 0 /\ credit' = 0
  /\ NoLocals
  /\ UNCHANGED <<time, origin, phase, running, lost, fifo_faulted,
                 discontinuity, stamp, delivered>>

ReadStops ==               \* Mutation: no recovery, the rest is read later.
  /\ pc = "read" /\ Fault
  /\ \E n \in 0..entries : fifo' = SubSeq(fifo, n + 1, Len(fifo))
  /\ pc' = "idle" /\ entries' = 0 /\ credit' = 0 /\ batch' = <<>> /\ NoLocals
  /\ UNCHANGED <<time, origin, phase, running, lost, garbled, fifo_faulted,
                 discontinuity, stamp, delivered>>

ReadFails ==
  /\ pc = "read" /\ faults < MaxFaults
  /\ \E n \in 0..entries : FifoRecover(stamp, SubSeq(fifo, n + 1, Len(fifo)))
-----------------------------------------------------------------------------
(* The loop over the batch.  A second gyro or accel entry before the pair   *)
(* is complete makes the batch malformed, as does a tag that is unknown, or *)
(* more of a kind than the arrays hold.                                     *)
Entry == batch[index + 1]

RoomAndOne(array) == Len(array) <= MaxScans              \* Mutation.
Room(array) == Len(array) < MaxScans

DoubledGyro(tag) == tag = "gyro" /\ pending[tag] # 0     \* Mutation.
Doubled(tag) == pending[tag] # 0

Parses ==
  /\ pc = "parse" /\ index < Len(batch)
  /\ index' = index + 1
  /\ UNCHANGED <<sensor, fifo_faulted, discontinuity, stamp, pc, entries,
                 credit, batch, faults, delivered>>

DataEntry ==
  /\ Parses /\ Entry.tag \in DataTags
  /\ LET pair == [pending EXCEPT ![Entry.tag] = Entry.at]
         complete == \A t \in DataTags : pair[t] # 0
     IN  /\ malformed' = (malformed \/ Doubled(Entry.tag)
                                    \/ (complete /\ ~Room(scans)))
         /\ scans' = IF complete /\ Room(scans)
                     THEN Append(scans, [gyro |-> pair["gyro"],
                                         accel |-> pair["accel"],
                                         timestamp |-> 0])
                     ELSE scans
         /\ pending' = IF complete THEN NoData ELSE pair
  /\ UNCHANGED stamps

Raw(t) == (t - origin) % Wrap

TimestampEntry ==
  /\ Parses /\ Entry.tag = "timestamp"
  /\ IF Room(stamps)
     THEN /\ stamps' = Append(stamps, [raw |-> Raw(Entry.at), at |-> Entry.at])
          /\ UNCHANGED malformed
     ELSE malformed' = TRUE /\ UNCHANGED stamps
  /\ UNCHANGED <<scans, pending>>

UnknownEntry ==
  /\ Parses /\ Entry.tag = "other"
  /\ malformed' = TRUE
  /\ UNCHANGED <<pending, scans, stamps>>

(* A pair left incomplete, or counts that do not match, reject the batch.   *)
Rejected ==
  \/ malformed \/ pending # NoData
  \/ Len(scans) = 0 \/ Len(scans) # Len(stamps)

ParseEnd ==
  /\ pc = "parse" /\ index = Len(batch)
  /\ \/ Rejected /\ FifoRecover(stamp, fifo)
     \/ /\ ~Rejected
        /\ pc' = "stamp" /\ index' = 0
        /\ UNCHANGED <<sensor, fifo_faulted, discontinuity, stamp, entries,
                       credit, batch, pending, malformed, scans, stamps, faults,
                       delivered>>
-----------------------------------------------------------------------------
(* lsm6dsox_hw_timestamp_to_ns: a counter below the last one has wrapped if *)
(* it fell by more than half its range; otherwise it ran backwards.         *)
Behind(s, raw) == s.hw_timestamp_valid /\ raw < s.last_hw_timestamp
Wrapped(s, raw) == Behind(s, raw) /\ s.last_hw_timestamp - raw > Wrap \div 2

Extended(s, raw) ==
  [s EXCEPT !.hw_timestamp_wraps = IF Wrapped(s, raw) THEN @ + 1 ELSE @,
            !.last_hw_timestamp = raw, !.hw_timestamp_valid = TRUE]

ToNs(s) == s.hw_timestamp_ref_ns + s.hw_timestamp_wraps * Wrap + s.last_hw_timestamp

(* One scan gets its timestamp, unless time runs backwards; a distance of   *)
(* more than two periods is counted as a gap.                               *)
Previous == IF index > 0 THEN scans[index].timestamp ELSE stamp.last_timestamp_ns
Follows == index > 0 \/ stamp.timestamp_valid

BackwardInBatch(t) == index > 0 /\ t <= Previous         \* Mutation.
Backward(t) == Follows /\ t <= Previous

GapUnguarded(t) == t - Previous > 2 * Period             \* Mutation.
GapInBatch(t) == index > 0 /\ t - Previous > 2 * Period  \* Mutation.
Gap(t) == Follows /\ t - Previous > 2 * Period

Stamp ==
  /\ pc = "stamp" /\ index < Len(scans)
  /\ LET raw == stamps[index + 1].raw
         s == Extended(stamp, raw)
         jumped == Behind(stamp, raw) /\ ~Wrapped(stamp, raw)
     IN  \/ /\ jumped
            /\ FifoRecover(stamp, fifo)
         \/ /\ ~jumped /\ Backward(ToNs(s))
            /\ FifoRecover(s, fifo)
         \/ /\ ~jumped /\ ~Backward(ToNs(s))
            /\ stamp' = s
            /\ discontinuity' = (discontinuity \/ Gap(ToNs(s)))
            /\ scans' = [scans EXCEPT ![index + 1].timestamp = ToNs(s)]
            /\ index' = index + 1
            /\ UNCHANGED <<sensor, fifo_faulted, pc, entries, credit, batch,
                           pending, malformed, stamps, faults, delivered>>

(* All scans of the batch go to the IIO buffer.                             *)
Ready == pc = "stamp" /\ index = Len(scans)

Push ==
  /\ Ready
  /\ stamp' = [stamp EXCEPT !.last_timestamp_ns = scans[Len(scans)].timestamp,
                            !.timestamp_valid = TRUE]
  /\ delivered' = [timestamp |-> scans[Len(scans)].timestamp,
                   sound |-> ~garbled /\ ~fifo_faulted]
  /\ pc' = "idle" /\ batch' = <<>> /\ NoLocals
  /\ discontinuity' = FALSE
  /\ UNCHANGED <<sensor, fifo_faulted, entries, credit, faults>>

(* The buffer is disabled and enabled again: lsm6dsox_buffer_predisable,    *)
(* lsm6dsox_buffer_postenable.                                              *)
Reopen ==
  /\ pc = "idle"
  /\ Restarted /\ running' = TRUE
  /\ fifo_faulted' = FALSE /\ discontinuity' = FALSE
  /\ stamp' = Reset(Invalid(stamp))
  /\ delivered' = Nobody
  /\ UNCHANGED <<time, pc, entries, credit, batch, locals, faults>>

Next ==
  \/ Write \/ Status \/ Read \/ ReadFails
  \/ DataEntry \/ TimestampEntry \/ UnknownEntry \/ ParseEnd
  \/ Stamp \/ Push \/ Reopen

Spec == Init /\ [][Next]_vars
-----------------------------------------------------------------------------
(* Types.  The parser stays within fifo_scans and fifo_hw_timestamps,       *)
(* however many entries of a kind a batch holds.                            *)
TypeOK ==
  /\ {time, origin, entries, credit, index, faults} \subseteq Nat
  /\ phase \in 0..EntriesPerScan - 1
  /\ fifo \in Seq([tag : Tags, at : Nat \ {0}])
  /\ batch \in Seq([tag : Tags, at : Nat \ {0}])
  /\ running \in BOOLEAN /\ lost \in BOOLEAN /\ garbled \in BOOLEAN
  /\ fifo_faulted \in BOOLEAN /\ discontinuity \in BOOLEAN /\ malformed \in BOOLEAN
  /\ stamp \in [last_hw_timestamp : 0..Wrap - 1, hw_timestamp_valid : BOOLEAN,
                 hw_timestamp_wraps : Nat, hw_timestamp_ref_ns : Nat,
                 last_timestamp_ns : Nat, timestamp_valid : BOOLEAN]
  /\ pc \in {"idle", "read", "parse", "stamp"}
  /\ pending \in [DataTags -> Nat]
  /\ scans \in Seq([gyro : Nat, accel : Nat, timestamp : Nat])
  /\ stamps \in Seq([raw : 0..Wrap - 1, at : Nat])
  /\ Len(scans) <= MaxScans /\ Len(stamps) <= MaxScans
  /\ index <= Len(batch)
  /\ delivered \in [timestamp : Nat, sound : BOOLEAN]

Sound == ~garbled /\ ~fifo_faulted

(* The parser accepts exactly the batches that hold as many gyro, accel and *)
(* timestamp entries, nothing else, and whose gyro and accel entries come   *)
(* in pairs, in either order: whenever an even number of them has gone by,  *)
(* there were as many of one kind as of the other.                          *)
Count(b, tag, m) == Cardinality({i \in 1..m : b[i].tag = tag})

Paired(b, m) ==
  (Count(b, "gyro", m) + Count(b, "accel", m)) % 2 = 0
    => Count(b, "gyro", m) = Count(b, "accel", m)

WellFormed(b) ==
  LET n == Len(b) \div EntriesPerScan
  IN  /\ n > 0 /\ Len(b) = n * EntriesPerScan
      /\ Count(b, "timestamp", Len(b)) = n /\ Count(b, "other", Len(b)) = 0
      /\ \A m \in 1..Len(b) : Paired(b, m)

AcceptsWellFormed ==
  pc = "parse" /\ index = Len(batch) => (~Rejected <=> WellFormed(batch))

(* The reconstructed time of a scan is the time at which the sensor took    *)
(* its timestamp, through every wrap of the counter, wherever batches end,  *)
(* and after every restart of the counter.                                  *)
StampsTrue ==
  pc = "stamp" /\ Sound =>
    \A k \in 1..index : scans[k].timestamp = stamps[k].at

(* No false alarm: as long as the sensor has overwritten nothing, and the   *)
(* bus works and garbles nothing, every batch that was read is pushed, and  *)
(* no gap is counted in it.  Neither a late handler, a wrap, a reset of the *)
(* counter, nor the boundary of a batch or a session makes the parser or    *)
(* the timestamp checks object.                                             *)
NoFalseAlarm ==
  [][Sound /\ ~lost /\ pc \in {"parse", "stamp"} =>
       /\ pc' = "idle" => Ready
       /\ discontinuity' => discontinuity]_vars

(* Until a recovery, the timestamps of the scans pushed strictly increase,  *)
(* within a batch and from one to the next, even if the bus garbles them.   *)
SegmentForward ==
  Ready =>
    /\ \A k \in 1..Len(scans) - 1 : scans[k].timestamp < scans[k + 1].timestamp
    /\ stamp.timestamp_valid => delivered.timestamp < scans[1].timestamp

(* Time runs forward for the reader of a whole session, through overruns,   *)
(* recoveries and the counter resets they bring, if nothing is garbled.     *)
TimeForward ==
  Ready /\ Sound /\ delivered.sound => delivered.timestamp < scans[1].timestamp

(* Every pause of more than two periods a reader finds in the timestamps of *)
(* a session has moved fifo_discontinuity_count, whether it lies inside a   *)
(* batch, between two, or across a recovery.                                *)
Pauses ==
  LET times == <<delivered.timestamp>> \o
               [k \in 1..Len(scans) |-> scans[k].timestamp]
      first == IF delivered = Nobody THEN 2 ELSE 1
  IN  {k \in first..Len(scans) : times[k + 1] - times[k] > 2 * Period}

PausesCounted ==
  Ready /\ Pauses # {} => discontinuity

(* As long as the sensor has overwritten nothing, every scan pushed holds   *)
(* the accelerometer, the gyroscope and the time of one sample.             *)
WholeScans ==
  Ready /\ Sound /\ ~lost =>
    \A k \in 1..Len(scans) :
      scans[k].gyro = stamps[k].at /\ scans[k].accel = stamps[k].at
=============================================================================
