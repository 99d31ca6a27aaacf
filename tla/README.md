# TLA+ specifications of the LSM6DSOX IIO driver and its ROS 2 pipeline

The repository is a Linux IIO driver for the ST LSM6DSOX IMU
(`lsm6dsox_driver/lsm6dsox_driver.c`, called *the driver* below), a ROS 2
publisher that reads the IIO device, a systemd service with the scripts that
enable and disable the IIO buffer around the publisher, and small tools.
The heart of it is the driver: one sensor, one `struct lsm6dsox_data` and
one mutex shared by five parties, on an I2C bus on which any transfer may fail.
Around it, several processes share one buffer switch, one character device and
one queue.

## Inventory

| Component | State | Operations | Interacts with | Module |
|---|---|---|---|---|
| FIFO register programming | INT1_CTRL, FIFO_CTRL1-4, CTRL10_C; `fifo_running`, `fifo_faulted`, `fifo_hw_entries`, validity flags | `fifo_start_hw`, `fifo_stop_hw`, `fifo_recover`, `restore_sensor_config`, `power_down` | called under `data->lock` by every party below | FifoOps |
| Buffer life cycle | `buffer_enabled`, runtime-PM reference | `preenable`, `hwfifo_set_watermark`, `postenable`, `predisable`, `postdisable` | called by the IIO core in that order | FifoLifecycle |
| Runtime PM | PM status, usage, sticky `runtime_error` | `runtime_suspend`, `runtime_resume` | autosuspend worker, every direct access | FifoLifecycle |
| System sleep | `irq_disabled_for_suspend`, latched edge | `suspend`, `resume` | `pm_runtime_force_*`, `disable_irq`, `synchronize_irq` | FifoLifecycle |
| Interrupt and drain | FIFO level, locals of `fifo_drain` | `irq_handler`, `trigger_handler`, `fifo_drain` | INT1 edge, IIO trigger (`iio_trigger_poll`, `notify_done`) | FifoDrain |
| Tag parser, gap detection | locals of `fifo_read_entries` | one loop over a batch, one over its scans | output pushed to the IIO buffer | FifoBatch |
| Hardware timestamp | last value, wraps, reference time | `hw_timestamp_to_ns`, `reset_hw_timestamp` | reset by start and recover | FifoBatch |
| Sensor configuration | cached rates and scales; CTRL1_XL, CTRL2_G | `write_raw`, `set_odr`, `set_full_scale` | direct mode excludes a stream; restored by resume | SensorConfig |
| Probe, remove | how far the device is registered, PM references | `probe`, `remove`, the device-managed clean-up | IIO core, PM core, user space in every phase | DeviceBinding |
| ROS 2 publisher | process, reader thread, open file, level of the diagnostics | constructor, `read_loop`, `publish_diagnostics`, destructor | IIO character device, `hwfifo_*` attributes, SIGINT | ImuPublisher |
| Service and scripts | state of the unit, step of the enable script, start counter | enable, run, disable, stop, kill, restart | sysfs, the node's process | RosService |
| Raw reader | position in its loop, `stop_requested` | `read_full_frame`, `handle_signal` | IIO character device | RawReader |
| Tools, device tree, udev | none | sequential | none | not modelled |

What is hard in it:

* **I2C errors.** Every helper is a sequence of writes; an error stops it
  half-way, and a write that returned an error may have reached the sensor.
  Clean-up writes fail too. The driver's fields must not claim what the
  registers do not hold.
* **Interleaving.** Interrupt, threaded handler, buffer calls, autosuspend,
  system sleep, probe and remove interleave at every point where `data->lock`
  is free.
* **An edge that is lost.** INT1 is edge-triggered (the overlay says rising),
  and `iio_trigger_poll` drops an event while the handler has not called
  `iio_trigger_notify_done`. A FIFO that is at or above the watermark when the
  handler goes to sleep never wakes it again.
* **A FIFO that goes on filling** between the status read and the transfers,
  and overwrites what was counted.
* **A counter that wraps** and is reset by every recovery, while the times given
  to user space have to run forward.
* **Recovery** from all this, which may itself fail, while user space has to be
  able to see that data is missing (`hwfifo_discontinuity_count`,
  `hwfifo_faulted`).
* **Processes that end anywhere**: a stop in the middle of a script, a crash, a
  device unbound under an open file, a reader blocked in `read()`.

`PROJECT.json` lists each hazard at its line, with the properties that cover it.

## Modules

```
StreamSpec <- - refines - - FifoLifecycle <── FifoOps        (abstract promise)
                             │   │    └── MCFifoLifecycle
                             │   └─────── FifoLifecycleProofs ── FifoStreamProofs
                             └── DeviceBinding ─┬─ MCDeviceBinding       │
                                                └─ DeviceBindingProofs ──┘

FifoDrain ─┬─ MCFifoDrain        FifoBatch ─┬─ MCFifoBatch
           └─ FifoDrainProofs               └─ FifoBatchProofs ── FifoStampProofs
SensorConfig ─┬─ MCSensorConfig
              └─ SensorConfigProofs

IioDevice ─┬─ ImuPublisher ── RosService ─┬─ Pipeline ─┬─ MCPipeline
           └─ RawReader ──────────────────┘            └─ PipelineProofs
```

`FifoLifecycle` (which callback may run when), `FifoDrain` (how one drain meets
a FIFO that goes on filling) and `FifoBatch` (what is made of the entries) look at
the same handler with different parts of it worked out; what one of them works
out is a nondeterministic choice in the others.

### FifoOps: what a hardware helper may leave behind

Each helper of the driver is an operator that returns the *set of its
outcomes*: return code, driver fields and the set `hw` of sensor features that
are switched on (INT1, continuous FIFO, batching, timestamp batching, both
rates, timestamp counter). A failing write contributes both its "before" and
its "after"; a best-effort clean-up may leave any part of what it undoes. The
driver holds `data->lock` throughout, so that intermediate states are visible
to nobody but the interrupt line, whose edges `FifoLifecycle` allows before and
after. `BusFails = FALSE` removes the failures. The INT1 write with its three
retries is one write: three failures leave what one failure leaves. Only
`timestamp_valid` and `hw_timestamp_valid` are kept of the time mapping, and
of the parser only how many gaps a drain counts and whether it pushes or ends in a
recovery. One drain runs several passes over several scans each, so that it may
count any number of gaps, up to one for each scan of its budget (`Gaps`), push
what it has and still recover, which counts once more.

### FifoLifecycle: the life of the stream

One action per callback. `iio` says how far the IIO core has come with an
enable or a disable: `off`, `resumed` (after preenable), `attached` (poll
function attached, watermark set), `on`, `disabled` (after predisable, or a
failed postenable), `detached`. `handler` is the threaded trigger handler, `irq` the line,
`pm` the runtime-PM fields of the device, `sleep` the system-sleep phase.

| Action | Code |
|---|---|
| `Preenable`, `Postenable`, `Predisable`, `Postdisable` | the functions of `lsm6dsox_buffer_ops` |
| `Attach` | IIO core: `hwfifo_set_watermark` (its result is ignored), attach |
| `Detach` | IIO core: detach the poll function; a woken handler still runs |
| `DirectAccess` | `read_raw`, `write_raw` in direct mode, as far as PM and the equality of the cached rates go |
| `Edge` | a rising INT1 edge and `irq_handler`; latched while the line is disabled |
| `TriggerHandler` | `trigger_handler` with `fifo_drain` |
| `Autosuspend` | PM worker calling `runtime_suspend` |
| `SuspendIrq`, `ForceSuspend` | `lsm6dsox_suspend`, split where it waits for the handler |
| `Resume` | `lsm6dsox_resume` |

Outside the source and modelled from how the driver uses them (marked external
in the map): the PM core (sticky `runtime_error` refuses a resume, `-EAGAIN` is
retried, `pm_runtime_force_suspend`/`resume`), the attach and detach of the
IIO core, `disable_irq` replaying an edge at `enable_irq`. User tasks are frozen during a system
sleep, therefore no buffer call is in the middle when `SuspendIrq` happens.

### StreamSpec: what a reader of the buffer is promised

Five variables: a session is open or closed, the sensor is up or down, a
segment of samples on one timeline is under way, `hwfifo_faulted`, and the
discontinuity count. A segment ends only in a step that moves the count; a
fault is reported only when the bus may fail. `Deliver` raises the count by the
gaps between the samples it delivers, any number of them; `Interrupt` by those
and at least one more. `FifoLifecycle` instantiates it
(`Stream`) with the refinement mapping

    session <- IF data.buffer_enabled THEN "open" ELSE "closed"
    power   <- IF pm.status = "active" THEN "up" ELSE "down"
    segment <- timestamp_valid inside a session
    faulted <- fifo_faulted inside a session
    count   <- fifo_discontinuity_count inside a session
    Unreliable <- BusFails

and `KeepsThePromise`, the abstract specification as a property, is checked
with the working and with the failing bus.

### FifoDrain: one drain, transfer by transfer

Here the FIFO has a level, the tag of its oldest entry (`phase`) and a flag for
overwritten entries. The sensor adds an entry between any two I2C transactions
of the handler, at most `Burst` of them, and at most `Delay` before a woken
handler first runs. A full FIFO overwrites its oldest entry. `int1` is off
after a recovery that could not restore the interrupt. Faults (failed transfer,
bad tag or timestamp, failed recovery) are choices. Properties that depend on
whether the handler is in time are stated for the sizes that make it so.

### FifoBatch: from entries to scans with a time

The FIFO holds entries with their tag and the time of the sample they belong
to; the sensor writes gyro, accel and timestamp of a sample one by one. A
status read fixes the number of entries; more may arrive (at most `Late`) and
overwrite old ones before the transfer. Then `lsm6dsox_fifo_read_entries` runs
entry by entry, one step for each turn of its two loops, and pushes.

| Action | Code |
|---|---|
| `Write` | the sensor (external) |
| `Status` | the status read of `fifo_drain`: nothing, overrun and recovery, or a number of whole scans |
| `Read`, `ReadFails` | the transfers; a transfer that fails leaves the FIFO cut anywhere, and recovery follows |
| `DataEntry`, `TimestampEntry`, `UnknownEntry` | the cases of the tag switch with the array bounds |
| `ParseEnd` | the tests after the loop |
| `Stamp` | one turn of the second loop: `hw_timestamp_to_ns`, the test for backward time, the gap test |
| `Push` | the third loop and what follows |
| `FifoRecover` | `fifo_recover` as far as FIFO, mode and timeline go, with its partial failures |
| `Reopen` | `predisable` and `postenable` |

A sample is represented by its time, so that "this scan mixes two samples" can
be said. A damaged transfer alters up to two tags or one timestamp; damage to a
payload is not visible to the driver and is not modelled. `iio_get_time_ns` in
`reset_hw_timestamp` is the time of the reset: the reset write and the clock
read are one step.

### SensorConfig: rates and scales, cached and real

`cached` is what the driver keeps and reports, `reg` what the two control
registers hold. All failures and rollbacks of `write_raw`, the restore of a
resume and the zero rates of a power-down are there. `suspect` records that a
configuration call has failed since the last restore; it exists to state what
a caller who saw no error may rely on.

### DeviceBinding: probe and remove around the life cycle

The module extends `FifoLifecycle` and adds how far the driver is bound
(`stage`), the references probe and remove hold themselves (`held`), and `calm`:
since probe, no transfer failed and no write slipped in after the power-down of
remove. Each call of the life cycle is enabled in the stages in which the
kernel lets it through; the stages are separated where user space can tell the
difference.

| Action | Code |
|---|---|
| `Configure` | `probe` up to the first readings; an error leaves on what was on |
| `Register` | trigger, buffer, interrupt, IIO device: one step that may fail |
| `EnableRuntimePM`, `PutAutosuspend` | the end of `probe` |
| `BeginRemove`, `PowerDownOnRemove` | `lsm6dsox_remove`, before and after runtime PM is disabled |
| `Unlist`, `Release` | the device-managed clean-up: IIO device unregistered (an enabled buffer is disabled), interrupt freed |
| `LateWrite` | `write_raw` between the power-down and the unregistering |
| `UserCall`, `CallGoesOn`, `Handles`, `Rises`, `ManagesPower`, `Unregister` | the actions of `FifoLifecycle` |

Before `pm_runtime_enable` a resume request fails with `-EACCES`; after
`pm_runtime_disable` on an active device it succeeds. Both come from the 6.1
kernel the repository is built for.

### IioDevice, ImuPublisher, RosService, RawReader, Pipeline

`IioDevice` is what the programs share: whether the driver is bound (and for
the how-manieth time: a file opened before an unbind stays dead), the buffer
switch, the number of frames queued, who holds the character device. The IIO
core opens it for one process at a time; `read()` blocks on an empty queue
whether or not the buffer is enabled, `poll()` waits for the watermark, and
reports nothing of a device that is gone.

| Module | Action | Code |
|---|---|---|
| ImuPublisher | `RunScript` | `run_lsm6dsox_ros.sh` |
| | `Construct` | the constructor; anything it cannot find or open ends the process |
| | `Poll`, `Read`, `PollFails`, `LeaveLoop` | `read_loop`, cut between poll and read |
| | `PublishDiagnostics` | the timer callback |
| | `SpinReturns`, `Join` | `main` after SIGINT, the destructor |
| | `Crash` | an uncaught exception, a signal from elsewhere |
| RosService | `WriteZero`, `WriteLayout`, `WriteOne`, `CheckReadable`, `EnableFails` | `enable_lsm6dsox_buffer.sh`, write by write |
| | `StopPost` | `disable_lsm6dsox_buffer.sh` |
| | `Start`, `Stop`, `Signal`, `Kill`, `NodeExits`, `Restart`, `IntervalPasses` | systemd, as the unit file configures it |
| RawReader | `RawOpen`, `TestLoop`, `EnterRead`, `ReadFullFrame`, `RawSignal` | `main`, `read_full_frame`, `handle_signal` |

What the scripts are told to do by systemd (version 249, external): a failed
`ExecStartPre` leads to `ExecStopPost`; an explicit stop forbids a restart;
`KillSignal` goes to every process of the service; after `TimeoutStopSec` comes
SIGKILL. That timeout is a hundred poll timeouts, therefore it strikes only a node that
cannot go on (`Hangs`). The Makefile builds the raw reader with `-std=c11`, for
which glibc's `signal()` has the System V behaviour: `read()` is interrupted
and a second signal kills.

## Runs

| Run | Question | Bounds |
|---|---|---|
| LifecycleReliable | On a working bus, is an enabled, awake buffer always a complete stream; is a suspended sensor quiet; does no handler touch it; is `StreamSpec` implemented? | watermarks 2, 170 and the refused 171; up to 3 discontinuities in a session (`MaxDiscontinuities` 2) |
| LifecycleFaulty | With a failing bus, do fields, FIFO and counters stay consistent, and is the promise of `StreamSpec` for such a bus kept? | the same |
| LifecycleFaultyLive | Do a disable and a system suspend come to an end? | one watermark, `MaxDiscontinuities` 1 |
| DrainPrompt | Real sizes, handler less than one batch late: no lost wake-up, no shifted data, the stream goes on | watermark 4, chunk 16 entries, 512 entries, `Delay` 11, `Burst` 3 |
| DrainDelayed | Any delay, chunk 4 that is no multiple of a scan, budget smaller than the FIFO: shifts only after an overwrite, the drain ends | watermark 2, budget 6 scans, capacity 20, `Delay` 20, `Burst` 4 |
| ConfigFaulty | Failing writes and rollbacks: does the driver tell the truth? | two rates, two scales |
| BatchTimes | Which batches are accepted, which times do scans get, which pauses are counted; is anything thrown away or counted without a cause? | arrays of 2 scans, counter modulo 7, one tick a sample, FIFO of 7 entries, 7 late entries, 9 ticks, one fault |
| DeviceBinding | Do the promises of the life cycle survive probe, remove and rebinding; what is left afterwards? | failing bus, one watermark and the refused one, `MaxDiscontinuities` 1, any number of bindings |
| Pipeline | Does each end of the service clean up; do stops end; is a crash recovered from, a lost device reported? | watermark 2, queue of 3, two bindings, start limit 2, one change by hand |
| LifecycleReprograms, DrainRecheck, PipelineStuck | a statement of a comment or a document, violated (see *Divergences*) | as the run above it |

Why the bounds are enough. The life cycle uses a watermark only through its
threshold, so one accepted value besides the default and the boundary
on both sides are all the cases the code distinguishes; the discontinuity count
is only ever added to or reset, and `MaxDiscontinuities` cuts sessions by
forbidding one more drain or sleep that would pass it. A drain adds several gaps
and a recovery within the bound: 2 gaps, or 1 gap and a recovery. The drain is run
at the driver's real sizes and again at small ones where every boundary (chunk,
scan, budget, capacity) is crossed. Rates and scales are only compared for
equality, and a register can hold the cached value, the requested one or a
leftover of an earlier failure. In `BatchTimes` the counter wraps within a run
(7 < 9 ticks), batches of one and two scans meet arrays of two, the FIFO has room for
two scans and one entry more, and everything in it can be overwritten between
status and transfer. The time between two scans that follow one another stays
below half a turn of the counter, as it does in the driver (half a turn of 2^31 ticks is
fifteen hours). In `Pipeline` the queue can hold less and more than
`poll()` waits for, and the start limit is reached with one restart to spare.
The proofs below cover all other values.

Deadlock checking is off in the two drain runs that pass and in `BatchTimes`:
after a failed recovery whose clean-up masked INT1 and reached bypass the
stream has really stopped until user space disables the buffer, and
`BatchTimes` ends at `MaxTime`.

### Fairness

`FifoLifecycle`: weak fairness of the remaining steps of a buffer call that has
begun, of the woken handler thread, and of the two steps that end a system
sleep. The first two are kernel code that runs to its end; the third says the
machine wakes up. Nothing forces anyone to enable or disable a buffer, and no
edge and no autosuspend is forced. `FifoDrain`: weak fairness of the handler
thread and of the sensor, which goes on sampling while it is powered.
`DeviceBinding`: weak fairness of the steps of a removal that has begun, of the buffer call
and the handler it waits for; nothing forces a probe or a removal.
`Pipeline`: weak fairness of the node's own steps (its threads are scheduled,
`poll()` returns after 100 ms, the timer fires), of the scripts and of systemd's
reactions, and of the raw reader's system calls that can return. Nothing has to
fail, nobody has to start, stop, signal, bind, unbind or switch anything, and
the driver does not have to push a frame.

## Proofs

TLAPS proves for every value of the constants that satisfies the named
assumptions:

* **FifoLifecycleProofs**: `TypeCorrect`, `TimelineCorrect`, `RunningCorrect`,
  `FaultCorrect`, `CountedCorrect`. The first part of the module are lemmas on
  the helpers of `FifoOps`: every outcome is well typed, and which relation
  between fields and features it establishes or keeps. The inductive invariant
  `IInv` is `TypeOK`, the conjunction `Sound` of the three state properties, and
  that a device marked for a forced resume is suspended and asleep. The three
  are proved together because they lean on each other: a recovery, or a start
  that returns early, keeps `Batching` only if the flag it trusts was right
  before. The last conjunct is what `CountedCorrect` needs: a resume that ends
  the timeline finds the device suspended. The lemma `Invariant` goes through
  the actions once; the theorems follow from it.
* **FifoStreamProofs**: `StreamCorrect`, `QuietCorrect`, `NoLateDrain`,
  `PromiseKept`. The first three assume `~BusFails`, which is what the properties
  promise (`LifecycleReliable` checks them under it; on a failing bus they are
  false, and `LifecycleFaulty` does not ask for them). `SessionInv` ties the buffer
  call to the reference it holds, `WorkingInv` says that a suspended device is
  `Down` and an active one `Up`: stream or quiet, with INT1 as the fields say.
  It is inductive only with what a session that was forced to sleep owes:
  `needs_force_resume` while the buffer holds its reference, no runtime error, and
  a handler only while the buffer is on or going off. The helpers' lemmas speak
  of a call that *succeeds*, so that they serve the failing bus too.
  `PromiseKept` is the step simulation with `StreamSpec`, on both kinds of bus:
  one lemma per action says which step a reader sees, or that there is none, and
  `StepSeen` collects them. A drain is the case with several answers: it delivers
  (`SeesDeliver`) or recovers (`SeesInterrupt`), with any number of gaps counted before.
* **DeviceBindingProofs**: `BoundStreams`, `RemovedQuiet`, `RemovedClean`, for
  every number of bindings, on a bus that may fail at any time. `BInv` joins the
  invariants above, `StageInv` (what cannot exist yet or any more in a stage) and, while
  `calm`, `CalmInv`: `WorkingInv` as long as the driver is bound, and after the
  power-down of remove `Dark`, an active device of which the FIFO is the only thing
  that may still run, and only for an enabled buffer. The smooth steps are
  those of `FifoLifecycle` with `BusFails = FALSE`; the instance `W` of
  `FifoStreamProofs` brings the lemmas about them.
* **FifoDrainProofs**: `TypeCorrect` and `ShiftedCorrect` without any condition
  on the sizes; `WakeupCorrect` and `NeverShiftedCorrect` under `Prompt`, which
  says that the handler runs before a further batch has arrived
  (`Delay < 3 * Watermark`), that a batch with everything that arrived before it
  fits in two transfers, that what arrives during the last steps stays below
  the threshold, that nothing is overwritten, and that the budget holds two
  batches. `DrainPrompt.cfg` satisfies `Prompt`; `DrainRecheck.cfg`, with one
  more entry of delay, does not, and the property fails there. The invariant
  bounds the level at each point of the handler by the batch it is reading and
  what may still arrive.
* **SensorConfigProofs**: `TypeCorrect`, `TruthCorrect`, `OdrCorrect`. The
  conjunction of the three properties is inductive; the lemmas say what each
  helper may leave in the registers and in the cache.
* **FifoBatchProofs**: `TypeCorrect`, `ParserExact`,
  `SegmentsRunForward`, `NoPauseUnnoticed`, for every size of the arrays and of the FIFO, every range of
  the counter and any number of faults. `ParserInv` accounts for every entry
  parsed so far (two for each scan, one for each timestamp, one for a datum that
  waits for its partner), `OrderInv` says that the scans stamped so far follow one
  another and the last one pushed, and that a pause among them is counted.
  `ParserExact` says that the parser accepts the well-formed batches and no others.
  The parser looks at an entry once and goes on after a flaw, so `CountInv`
  compares it with the counts of the entries seen: while it has no objection they
  agree with its arrays and the pair begun (`Flawless`); once it has one, there is
  a reason in the entries seen that no later entry removes (`Flawed`), because
  counts only grow and a batch never holds more than the handler's budget.
* **FifoStampProofs**: `StampsCorrect`, `SessionsRunForward`, `NoAlarmWithoutCause`,
  `ScansCorrect`.
  `TrackInv(n, b, p)` says where everyone is in the history of the sensor since the
  last flush: it has written `n` entries, of which the FIFO holds the last; the batch
  follows the first `b`; the extended counter stands at sample `p`. The state has
  no such numbers, so that the invariant `ClockInv` quantifies over them, and each
  action has a lemma that finds the new ones. The lemma `Unwrap` is the arithmetic of
  `lsm6dsox_hw_timestamp_to_ns`. The first three theorems assume `ShortPause`: between
  two stamps the counter does not go all the way round (thirty hours), which no
  driver could notice; where it has gone more than half way, the driver takes it for a
  jump backwards and recovers, and the theorems cover that. `NoAlarmWithoutCause`
  also assumes that two periods are less than a turn of the counter. As long as nothing
  is overwritten or altered, `TrackInv` lets every batch begin and end with a whole
  sample and follow the last one without a hole, and `AlarmInv` lets the last timestamp
  given out be the one the mapping stands at. Therefore no entry is malformed
  (`EntryFits`), the arrays are complete at the end (`EndAccepts`), two stamps are one
  period apart (`OnePeriod`), and no test of either loop objects. `ScansCorrect` needs no condition.
* **PipelineProofs**: `TypeCorrect`, `CleanedCorrect`, `StopsCorrect`, for every
  watermark, queue length, start limit and number of bindings. `FileInv` is the
  argument for the two exclusions: whoever holds an open file on the present device owns it, so that
  nobody but the thread that polled takes the frames it was promised; `UnitInv`
  ties processes and script steps to the states of the unit.

Only model-checked: the liveness properties (`DisableCompletes`,
`SleepCompletes`, `DrainEnds`, `KeepsDraining`, `RemoveCompletes`,
`StopCompletes`, `FailureRecovers`, `LossReported`, `RawStops`), which are out
of TLAPS's reach. Every safety property a passing run checks is also a theorem.

## Divergences between code and documents

In three runs TLC shows how the code reaches the state.

1. *LifecycleReprograms*: `fifo_start_hw` returns early when `fifo_running` is
   set. If the FIFO and INT1 could not be switched off - in `predisable`, in a
   power-down, in a resume that failed, or after a failed start - a handler may still run
   while the buffer is off, and its recovery sets `fifo_running` with INT1
   masked; the next enable succeeds and delivers nothing. The run ends at the
   first such path TLC finds; the others lead to the same state. The comment in
   `predisable` promises a reprogramming.
2. *DrainRecheck*: when the handler is a batch late and the recheck finds less
   than a batch, entries that arrive before `notify_done` raise an edge that is
   dropped, and the stream stops. With `Watermark = 1` and `Delay = 0` in the
   same configuration it happens to a handler that is not late at all.
3. *PipelineStuck*: a failed `poll()` or `read()` ends the reader thread, not
   the node; the service stays active without publishing a sample, whereas
   `docs/systemd-deployment.md` lets every unexpected node failure restart it.

Noticed on the way, and visible as behaviours of the models, but not runs of
their own:

* A system suspend that fails and whose restore fails leaves a stopped stream
  that reports no fault; a failed resume lets the replayed edge bring the
  handler to a suspended device.
* An overwrite between status and data reads shifts the batch by an entry or
  two; the parser's counts still match, and accelerometer and gyroscope values
  of different samples are paired (`WholeScans` therefore speaks of `~lost`).
* After a failed scale write and rollback, asking for the cached scale returns
  0 and changes nothing. A rate write is not skipped like this.
* A `write_raw` between remove's power-down and the unregistering switches the
  sensor on again (`LateWrite`), and a failed probe leaves it on.
* `docs/iio-buffer-service-incident.md` lets `remove()` put the trigger reference; the
  code leaves that to the IIO core.
* A scan the IIO buffer has no room for is dropped without being counted.
* A single Ctrl-C between the loop test and the `read()` of the raw reader is
  noticed only at the next frame. `RawStops` leaves this outcome out, so no
  property catches it.

## Plan

Done: the driver in `FifoOps`, `FifoLifecycle`, `FifoDrain`, `FifoBatch`,
`SensorConfig`, `DeviceBinding`; the abstract promise `StreamSpec`; user space in
`IioDevice`, `ImuPublisher`, `RosService`, `RawReader`, `Pipeline`; the proofs
above.

Left, most important first:

1. The safety half of the liveness arguments as theorems: what each step of the handler,
   of `disable` and of `remove` decreases, so that only fairness is left to TLC.
2. The link between `FifoDrain` and `FifoBatch`: that the status, the read and the
   reset of the batch parser are steps the drain loop takes, as a mapping.

## Not modelled

Sensor values and their units, logging, attribute formatting, the calibration,
latency, validation and installation scripts, the device tree overlay and the udev rule: data or
sequential code without protocol state. The reads of the `hwfifo_*` attributes
change nothing; what the node makes of them is the level of its diagnostics.
The I2C retry delays are not timed. `INTERNAL_FREQ_FINE` is left out: one tick is
the unit of time. Two drivers on one sensor are not considered. In `probe` the
single allocations and registrations are one step, because no other party can
see the states between them.
