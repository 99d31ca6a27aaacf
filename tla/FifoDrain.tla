----------------------------- MODULE FifoDrain -----------------------------
(***************************************************************************)
(* One running FIFO stream of lsm6dsox_driver.c at the grain of I2C        *)
(* transactions: the sensor keeps writing tagged entries while the         *)
(* threaded handler reads the FIFO in several transfers, and INT1 is an    *)
(* edge-triggered line that rises when the level reaches the watermark.    *)
(* Programming errors of the registers are the business of FifoLifecycle;  *)
(* here a recovery restarts the FIFO, leaves it masked in bypass, or, when *)
(* its clean-up fails too, leaves it running with the fault reported.      *)
(***************************************************************************)
EXTENDS Naturals

CONSTANTS
  Watermark,   \* data->fifo_watermark, in scans
  Scans,       \* LSM6DSOX_FIFO_MAX_SCANS, the budget of one drain
  Chunk,       \* data->fifo_read_chunk, in entries
  Capacity,    \* entries the sensor FIFO holds
  Delay,       \* bound: entries that arrive before a woken handler runs
  Burst,       \* bound: entries that arrive between two handler steps
  Faults       \* whether a transfer may fail or deliver a bad tag or time

ASSUME DrainAssumption ==
  /\ {Watermark, Scans, Chunk, Capacity} \subseteq Nat \ {0}
  /\ Delay \in Nat /\ Burst \in Nat /\ Faults \in BOOLEAN

EntriesPerScan == 3

\* The threshold of FIFO_CTRL1/2 and the level at which INT1 rises, in entries.
fifo_hw_entries == Watermark * EntriesPerScan

VARIABLES
  level,       \* entries in the FIFO
  phase,       \* tag of its oldest entry: 0 gyro, 1 accel, 2 timestamp
  lost,        \* an overwritten entry has not been reported yet
  fifo_faulted,
  int1,        \* the FIFO runs and its watermark is routed to INT1
  pc,          \* the handler: "idle", "woken", "status", "read", "notify"
  total, scans, remaining, first_pass,   \* locals of fifo_drain, read_entries
  pushed,      \* the last batch handed to the IIO buffer
  credit       \* entries that may still arrive before the handler's next step

fifo == <<level, phase, lost>>
locals == <<total, scans, remaining, first_pass>>
vars == <<fifo, fifo_faulted, int1, pc, locals, pushed, credit>>

Levels ==
  /\ level \in 0..Capacity /\ phase \in 0..2
  /\ total \in 0..Scans /\ scans \in 0..Scans /\ remaining \in 0..Capacity
  /\ credit \in 0..(Delay + Burst)

Flags ==
  /\ lost \in BOOLEAN /\ fifo_faulted \in BOOLEAN /\ int1 \in BOOLEAN
  /\ first_pass \in BOOLEAN

TypeOK ==
  /\ Levels /\ Flags
  /\ pc \in {"idle", "woken", "status", "read", "notify"}
  /\ pushed \in {"nothing", "whole", "shifted"}

(* lsm6dsox_fifo_start_hw has just returned.                                *)
Init ==
  /\ level = 0 /\ phase = 0 /\ lost = FALSE
  /\ fifo_faulted = FALSE /\ int1 = TRUE
  /\ pc = "idle"
  /\ total = 0 /\ scans = 0 /\ remaining = 0 /\ first_pass = TRUE
  /\ pushed = "nothing"
  /\ credit = 0
-----------------------------------------------------------------------------
(* The sensor writes one entry; a full FIFO drops its oldest one.  The      *)
(* watermark signal rises when the level reaches the threshold.  An edge is *)
(* what wakes the handler, and lsm6dsox_irq_handler's iio_trigger_poll      *)
(* drops it while the handler has not called iio_trigger_notify_done.       *)
Arrive ==
  /\ int1
  /\ pc = "idle" \/ credit > 0
  /\ IF level < Capacity
     THEN level' = level + 1 /\ UNCHANGED <<phase, lost>>
     ELSE phase' = (phase + 1) % 3 /\ lost' = TRUE /\ UNCHANGED level
  /\ IF pc = "idle"
     THEN IF level + 1 = fifo_hw_entries
          THEN pc' = "woken" /\ credit' = Delay
          ELSE UNCHANGED <<pc, credit>>
     ELSE credit' = credit - 1 /\ UNCHANGED pc
  /\ UNCHANGED <<fifo_faulted, int1, locals, pushed>>

(* The handler's next step is at pc "to", after at most Burst more entries. *)
Goto(to) == pc' = to /\ credit' = Burst

(* lsm6dsox_fifo_recover, with l entries left of which the first has tag p: *)
(* bypass flushes the FIFO and it starts again; or the recovery fails, after *)
(* or before the flush, and the best-effort mask and bypass do or do not    *)
(* reach the sensor.                                                        *)
Flushed == level' = 0 /\ phase' = 0 /\ lost' = FALSE

FifoRecover(l, p) ==
  \/ Flushed /\ fifo_faulted' = FALSE /\ int1' = TRUE
  \/ /\ Faults /\ fifo_faulted' = TRUE
     /\ \/ Flushed /\ int1' \in BOOLEAN
        \/ level' = l /\ phase' = p /\ UNCHANGED <<lost, int1>>

(* lsm6dsox_trigger_handler takes the lock and enters lsm6dsox_fifo_drain.  *)
Enter ==
  /\ pc = "woken"
  /\ total' = 0 /\ first_pass' = TRUE /\ pushed' = "nothing"
  /\ pc' = "status"
  /\ UNCHANGED <<fifo, fifo_faulted, int1, scans, remaining, credit>>

Abandon(l, p) ==
  /\ FifoRecover(l, p)
  /\ Goto("notify")
  /\ UNCHANGED <<locals, pushed>>

(* lsm6dsox_fifo_read_status failed.                                        *)
StatusFails ==
  /\ pc = "status" /\ Faults
  /\ Abandon(level, phase)

(* The status says the FIFO has overrun.                                    *)
Overrun == level = Capacity

StatusOverrun ==
  /\ pc = "status" /\ Overrun
  /\ Abandon(level, phase)

ThresholdMissed == level <= fifo_hw_entries   \* Mutation: off by one.

(* Not one whole scan, or in a later pass less than the watermark.          *)
NothingToRead ==
  \/ level < EntriesPerScan
  \/ ~first_pass /\ level < fifo_hw_entries

StatusBreak ==
  /\ pc = "status" /\ ~Overrun /\ NothingToRead
  /\ Goto("notify")
  /\ UNCHANGED <<fifo, fifo_faulted, int1, locals, pushed>>

OneBatch(budget) == Watermark   \* Mutation: a late handler reads one batch.
PartScans(n) == level           \* Mutation: not cut to whole scans.
NoBudget(budget) == level \div EntriesPerScan   \* Mutation: all there is.

(* Whole scans only, and no more than the budget of this drain has left.    *)
Readable(budget) ==
  LET n == level \div EntriesPerScan IN IF n < budget THEN n ELSE budget

BatchEntries(n) == n * EntriesPerScan

StatusRead ==
  /\ pc = "status" /\ ~Overrun /\ ~NothingToRead
  /\ scans' = Readable(Scans - total)
  /\ remaining' = BatchEntries(scans')
  /\ Goto("read")
  /\ UNCHANGED <<fifo, fifo_faulted, int1, total, first_pass, pushed>>

(* One regmap_bulk_read of at most fifo_read_chunk entries takes the oldest *)
(* ones out of the FIFO.                                                    *)
PhaseAfter(n) == (phase + n) % EntriesPerScan

ReadChunk ==
  /\ pc = "read" /\ remaining > Chunk
  /\ level' = level - Chunk
  /\ phase' = PhaseAfter(Chunk)
  /\ remaining' = remaining - Chunk
  /\ Goto("read")
  /\ UNCHANGED <<lost, fifo_faulted, int1, total, scans, first_pass, pushed>>

(* The last transfer of the batch is followed by the parser.  Three times k *)
(* entries in a row hold k gyro, k accel and k timestamp entries wherever   *)
(* they start, so the parser accepts them and all k scans are pushed.       *)
recheck == scans >= Watermark * 2
NotAdded == total               \* Mutation: "total += ret" is missing.
Drained == total + scans

ReadLast ==
  /\ pc = "read" /\ remaining <= Chunk
  /\ level' = level - remaining
  /\ phase' = PhaseAfter(remaining)
  /\ pushed' = IF phase' = 0 THEN "whole" ELSE "shifted"
  /\ total' = Drained
  /\ remaining' = 0
  /\ IF recheck /\ total' < Scans
     THEN first_pass' = FALSE /\ Goto("status")
     ELSE UNCHANGED first_pass /\ Goto("notify")
  /\ UNCHANGED <<lost, fifo_faulted, int1, scans>>

(* A chunk read fails, or the batch has a tag the parser does not know or a *)
(* timestamp that runs backwards: what was read is dropped, and             *)
(* lsm6dsox_fifo_recover follows.                                           *)
ReadFails ==
  /\ pc = "read" /\ Faults
  /\ \E n \in 0..Chunk :
       n <= remaining /\ Abandon(level - n, PhaseAfter(n))

(* The lock is released and iio_trigger_notify_done lets edges through; the *)
(* locals are gone.                                                         *)
NotifyDone ==
  /\ pc = "notify"
  /\ pc' = "idle" /\ credit' = 0
  /\ total' = 0 /\ scans' = 0 /\ remaining' = 0 /\ first_pass' = TRUE
  /\ UNCHANGED <<fifo, fifo_faulted, int1, pushed>>
-----------------------------------------------------------------------------
Handler ==
  \/ Enter
  \/ StatusFails \/ StatusOverrun \/ StatusBreak \/ StatusRead
  \/ ReadChunk \/ ReadLast \/ ReadFails
  \/ NotifyDone

Next == Arrive \/ Handler

(* The woken handler thread runs, and the sensor goes on sampling.          *)
Fairness == WF_vars(Handler) /\ WF_vars(Arrive)

Spec == Init /\ [][Next]_vars
FairSpec == Spec /\ Fairness
-----------------------------------------------------------------------------
(* No lost wake-up: when the handler has gone back to sleep the watermark   *)
(* line is low, so that the next batch raises the edge that wakes it.  "A   *)
(* normal watermark batch is fully consumed by this read and will deassert  *)
(* INT1", and a larger one is followed by another look at the status.       *)
NoLostWakeup == pc = "idle" /\ ~fifo_faulted => level < fifo_hw_entries

(* Misaligned data never reaches user space ("whole batches are discarded   *)
(* ... misaligned data is never sent to user space").                       *)
NeverShifted == pushed # "shifted" \/ fifo_faulted

(* A batch that is out of step with the tags is pushed only after entries   *)
(* were overwritten behind the driver's back or while a fault is reported;  *)
(* never because of where a transfer, a pass or a batch ends, whatever      *)
(* chunk size the adapter imposes.                                          *)
ShiftedOnlyByLoss ==
  [][ReadLast /\ pushed' = "shifted" => lost \/ fifo_faulted]_vars

(* However fast entries arrive, the scan budget ends one drain, and the     *)
(* next edge is let through.                                                *)
DrainEnds == pc # "idle" ~> pc = "idle"

(* The stream does not dry up: a line that is high is lowered again by a    *)
(* drain or a recovery, unless the fault is reported.                       *)
KeepsDraining == level >= fifo_hw_entries ~> level < fifo_hw_entries \/ fifo_faulted
=============================================================================
