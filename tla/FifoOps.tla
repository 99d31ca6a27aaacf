------------------------------ MODULE FifoOps ------------------------------
(***************************************************************************)
(* The register programming of lsm6dsox_driver.c: what one call of a       *)
(* hardware helper may do to the sensor and to struct lsm6dsox_data.       *)
(* Every helper runs with data->lock held and is a sequence of I2C writes, *)
(* each of which succeeds or returns an error.  A helper is the SET of its *)
(* outcomes: the value it returns (ok), the driver fields (data) and the   *)
(* sensor features that are switched on (hw) when it returns.              *)
(***************************************************************************)
EXTENDS Naturals

CONSTANT BusFails   \* whether an I2C transfer may return an error

ASSUME BusAssumption == BusFails \in BOOLEAN

(***************************************************************************)
(* A feature is on when its register field holds the value that enables    *)
(* it: INT1_CTRL.FIFO_TH, FIFO_CTRL4 mode (continuous, else bypass),       *)
(* FIFO_CTRL3 batching rates, FIFO_CTRL4 timestamp decimation, the two     *)
(* output data rates and CTRL10_C.TIMESTAMP_EN.                            *)
(***************************************************************************)
Pipeline == {"INT1", "FIFO", "BDR", "TSB"}
Power    == {"XL", "G", "TSEN"}
Features == Pipeline \cup Power
Batching == {"FIFO", "BDR", "TSB"}

MaxScans == 170
EntriesPerScan == 3

Clamp(x, low, high) == IF x < low THEN low ELSE IF x > high THEN high ELSE x
Entries(watermark) == Clamp(watermark * EntriesPerScan, EntriesPerScan, 511)

Success(d, h) == [ok |-> TRUE, data |-> d, hw |-> h]
Failure(d, h) == [ok |-> FALSE, data |-> d, hw |-> h]

(* A write that returned an error may or may not have reached the sensor.  *)
Partial(before, after) == {before, after}

(* Best-effort clean-up of the features S: each write may fail unnoticed.  *)
Undo(S, hs) == UNION {{(h \ S) \cup kept : kept \in SUBSET (S \cap h)} : h \in hs}

Fail(ds, hs) ==
  IF BusFails THEN {Failure(d, h) : d \in ds, h \in hs} ELSE {}

NoTimeline(d) ==
  [d EXCEPT !.timestamp_valid = FALSE, !.hw_timestamp_valid = FALSE]

Programmed(d) == [d EXCEPT !.fifo_hw_entries = Entries(d.fifo_watermark)]

Discontinuity(d) ==
  [d EXCEPT !.fifo_discontinuity_count = d.fifo_discontinuity_count + 1]

-----------------------------------------------------------------------------
(* lsm6dsox_fifo_start_hw: bypass, batching rates, timestamp batching,      *)
(* watermark, timestamp reset, continuous mode, INT1; the error labels undo *)
(* what was switched on, except after the first two writes.                 *)
StartFailures(d, h) ==
  LET bypassed == h \ {"FIFO"}
      batching == bypassed \cup {"BDR"}
      stamped  == batching \cup {"TSB"}
      running  == stamped \cup {"FIFO"}
      reset    == [Programmed(d) EXCEPT !.hw_timestamp_valid = FALSE]
  IN  Fail({d}, Partial(h, bypassed) \cup Partial(bypassed, batching)
                \cup Undo({"BDR"}, Partial(batching, stamped)))
      \cup Fail({d, Programmed(d)}, Undo({"BDR", "TSB"}, {stamped}))
      \cup Fail({reset},
                Undo({"BDR", "TSB"}, Partial(stamped, running))
                \cup Undo(Batching, Partial(running, running \cup {"INT1"})))

Started(d) == [Programmed(d) EXCEPT !.hw_timestamp_valid = FALSE,
                                    !.fifo_running = TRUE]

FifoStartHw(d, h) ==
  IF d.fifo_running
  THEN {Success(d, h)}
  ELSE {Success(Started(d), h \cup Pipeline)} \cup StartFailures(d, h)

(* Mutation: the first error returns before fifo_running is cleared.        *)
StopReturnsEarly(d, h) ==
  {Success([d EXCEPT !.fifo_running = FALSE], h \ Pipeline)}
  \cup Fail({d}, Undo(Pipeline, {h}))

(* lsm6dsox_fifo_stop_hw: four best-effort writes, the first error is       *)
(* returned, fifo_running is cleared in any case.                           *)
FifoStopHw(d, h) ==
  LET stopped == [d EXCEPT !.fifo_running = FALSE]
  IN  {Success(stopped, h \ Pipeline)}
      \cup Fail({stopped}, Undo(Pipeline, {h}))

(* lsm6dsox_fifo_recover: mask, bypass, reprogram, restart; INT1 comes back *)
(* only for an enabled buffer.  A failure masks and bypasses best effort.   *)
KeepsLastTimestamp(d) ==   \* Mutation: last_timestamp_ns stays in force.
  [Discontinuity(d) EXCEPT !.fifo_faulted = TRUE, !.hw_timestamp_valid = FALSE]

Uncounted(d) ==            \* Mutation: no discontinuity is counted.
  [NoTimeline(d) EXCEPT !.fifo_faulted = TRUE]

Interrupted(d) ==
  [NoTimeline(Discontinuity(d)) EXCEPT !.fifo_faulted = TRUE]

RecoverFailures(d, h) ==
  LET masked   == h \ {"INT1"}
      bypassed == masked \ {"FIFO"}
      drained  == bypassed \ {"BDR", "TSB"}
      batching == drained \cup {"BDR", "TSB"}
      running  == batching \cup {"FIFO"}
      early == {h, masked, bypassed, bypassed \ {"BDR"}, drained}
      late  == {drained, drained \cup {"BDR"}, batching, running}
               \cup (IF d.buffer_enabled THEN {running \cup {"INT1"}} ELSE {})
      failed == [Interrupted(d) EXCEPT !.fifo_running = FALSE]
  IN  Fail({failed}, Undo({"INT1", "FIFO"}, early))
      \cup Fail({Programmed(failed)}, Undo({"INT1", "FIFO"}, late))

StillFaulted(d) ==         \* Mutation: a recovery that keeps the fault.
  [Programmed(Interrupted(d)) EXCEPT !.fifo_running = TRUE]

Recovered(d) ==
  [Programmed(Interrupted(d)) EXCEPT !.fifo_faulted = FALSE,
                                     !.fifo_running = TRUE]

FifoRecover(d, h) ==
  {Success(Recovered(d), IF d.buffer_enabled THEN h \cup Pipeline
                         ELSE (h \ {"INT1"}) \cup Batching)}
  \cup RecoverFailures(d, h)
-----------------------------------------------------------------------------
(* lsm6dsox_fifo_drain with lsm6dsox_fifo_read_entries, seen from outside:  *)
(* nothing to read; scans pushed; or, in any of its passes, an overrun, a   *)
(* malformed batch, a timestamp that goes backwards or a failed read, and a *)
(* recovery whose own result is not looked at.  Every gap found between two *)
(* scans is counted, also before a recovery counts once more.  In bypass    *)
(* mode the FIFO is empty, and only a failed read can start a recovery.     *)
GapsCounted(d, gaps) ==
  [d EXCEPT !.fifo_discontinuity_count = d.fifo_discontinuity_count + gaps]

Pushed(d) == [d EXCEPT !.timestamp_valid = TRUE, !.hw_timestamp_valid = TRUE]

FifoDrain(d, h, gaps) ==
  LET read == GapsCounted(d, gaps)
  IN  {Success(d, h)}
      \cup (IF "FIFO" \in h
            THEN {Success(Pushed(read), h)} \cup FifoRecover(read, h) ELSE {})
      \cup (IF BusFails THEN FifoRecover(d, h) ELSE {})
-----------------------------------------------------------------------------
(* lsm6dsox_restore_sensor_config: powers both sensors and the timestamp    *)
(* counter on and reads both control registers back.                        *)
RestoreSensorConfig(d, h) ==
  {Success(NoTimeline(d), h \cup Power)}
  \cup Fail({d}, {h, h \cup {"XL"}, h \cup {"XL", "G"}, h \cup Power})

(* Mutation: fifo_running is cleared before it is looked at.                *)
PowerDownLeavesFifo(d, h) ==
  LET down == [NoTimeline(d) EXCEPT !.fifo_running = FALSE]
  IN  {Success(down, h \ Power)} \cup Fail({down}, Undo(Power, {h}))

(* lsm6dsox_power_down: stops the FIFO only when fifo_running says so.      *)
PowerDown(d, h) ==
  LET off == IF d.fifo_running THEN Features ELSE Power
      down == [NoTimeline(d) EXCEPT !.fifo_running = FALSE]
  IN  {Success(down, h \ off)} \cup Fail({down}, Undo(off, {h}))

(* lsm6dsox_runtime_suspend: after a failed power-down the sensor and the   *)
(* FIFO are brought back, and the error is returned whatever became of it.  *)
RuntimeSuspend(d, h) ==
  LET before == IF d.buffer_enabled THEN Discontinuity(d) ELSE d
      Revived(p) == UNION {IF r.ok /\ d.fifo_running
                           THEN FifoStartHw(r.data, r.hw)
                           ELSE {r} : r \in RestoreSensorConfig(p.data, p.hw)}
  IN  UNION {IF p.ok THEN {p}
             ELSE {Failure(r.data, r.hw) : r \in Revived(p)} :
                p \in PowerDown(before, h)}

(* Mutation: the FIFO of an enabled buffer is not restarted.                *)
ResumeWithoutFifo(d, h) == RestoreSensorConfig([d EXCEPT !.fifo_faulted = FALSE], h)

(* lsm6dsox_runtime_resume: up to three attempts to restore the sensor      *)
(* (what three failures leave, one failure leaves), then the FIFO for an    *)
(* enabled buffer; giving up powers the sensor down again.                  *)
RuntimeResume(d, h) ==
  LET Restarted(r) == IF r.ok /\ d.buffer_enabled
                      THEN FifoStartHw(r.data, r.hw) ELSE {r}
      GiveUp(s) ==
        {Failure(p.data, p.hw) :
           p \in PowerDown([s.data EXCEPT !.fifo_faulted = d.buffer_enabled], s.hw)}
      Finish(s) ==
        IF s.ok THEN {Success([s.data EXCEPT !.fifo_faulted = FALSE], s.hw)}
                ELSE GiveUp(s)
  IN  UNION {UNION {Finish(s) : s \in Restarted(r)} :
               r \in RestoreSensorConfig(d, h)}
=============================================================================
