--------------------------- MODULE DeviceBinding ---------------------------
(***************************************************************************)
(* lsm6dsox_probe and lsm6dsox_remove around the life cycle of the FIFO    *)
(* stream.  User space sees the IIO device before runtime PM is enabled    *)
(* and still after remove has powered the sensor down; only then does the  *)
(* device-managed clean-up take the IIO device and the interrupt away.     *)
(***************************************************************************)
EXTENDS FifoLifecycle

VARIABLES
  stage,   \* how far the driver is bound: "gone", "configured", "registered",
           \* "enabled", "bound", and back: "removing", "down", "unlisted"
  held,    \* 0 or 1 runtime-PM reference of probe or remove themselves
  calm     \* since probe, no transfer failed and no write came after power-down

bvars == <<data, hw, iio, handler, irq, pm, sleep, stage, held, calm>>
stream == <<data, hw, iio, handler, irq, pm, sleep>>

NoReference == [status |-> "suspended", usage |-> 0, runtime_error |-> FALSE,
                needs_force_resume |-> FALSE]

(* struct lsm6dsox_data as devm_iio_device_alloc and probe fill it in.      *)
Fresh ==
  [buffer_enabled |-> FALSE, fifo_running |-> FALSE, fifo_faulted |-> FALSE,
   timestamp_valid |-> FALSE, hw_timestamp_valid |-> FALSE,
   fifo_watermark |-> DefaultWatermark, fifo_hw_entries |-> 0,
   fifo_discontinuity_count |-> 0, odrs_match |-> TRUE]

(* The sensor as power-on leaves it, and no driver.                         *)
BindingInit ==
  /\ data = Fresh /\ hw = {} /\ pm = NoReference
  /\ iio = "off" /\ handler = "idle" /\ sleep = "awake"
  /\ irq = [irq_disabled_for_suspend |-> FALSE, latched |-> FALSE]
  /\ stage = "gone" /\ held = 0 /\ calm = TRUE

(* In these stages user space finds the device, and runtime PM lets a call  *)
(* through: it is enabled, or was disabled while active.  A call in stage   *)
(* "registered" is refused (-EACCES) and changes nothing.                   *)
Usable == stage \in {"enabled", "bound", "removing", "down"}
-----------------------------------------------------------------------------
(* What an error of probe leaves on: SW_RESET was written or not; then the  *)
(* timestamp counter, the accelerometer and the gyroscope are switched on   *)
(* in this order.                                                           *)
SoftReset == {hw, {}}
SwitchedOn == {{"TSEN"}, {"TSEN", "XL"}, Power}

(* lsm6dsox_probe up to the first readings.                                 *)
Configure ==
  /\ stage = "gone"
  /\ data' = Fresh
  /\ \/ hw' = Power /\ stage' = "configured" /\ calm' = TRUE
     \/ /\ hw' \in SoftReset \cup SwitchedOn
        /\ calm' = FALSE /\ UNCHANGED stage
  /\ UNCHANGED <<iio, handler, irq, pm, sleep, held>>

(* Trigger, buffer, interrupt and at last the IIO device are registered.    *)
Register ==
  /\ stage = "configured"
  /\ \/ stage' = "registered" /\ UNCHANGED calm
     \/ stage' = "gone" /\ calm' = FALSE
  /\ UNCHANGED <<stream, held>>

EnablesInactive ==         \* Mutation: no pm_runtime_set_active.
  /\ stage = "registered"
  /\ pm' = NoReference /\ held' = 1
  /\ stage' = "enabled"
  /\ UNCHANGED <<data, hw, iio, handler, irq, sleep, calm>>

(* pm_runtime_set_active, which forgets an old error; a reference of its    *)
(* own keeps the device up until pm_runtime_enable is done with.            *)
EnableRuntimePM ==
  /\ stage = "registered"
  /\ pm' = [NoReference EXCEPT !.status = "active"] /\ held' = 1
  /\ stage' = "enabled"
  /\ UNCHANGED <<data, hw, iio, handler, irq, sleep, calm>>

PutAutosuspend ==
  /\ stage = "enabled"
  /\ stage' = "bound" /\ held' = 0
  /\ UNCHANGED <<stream, calm>>
-----------------------------------------------------------------------------
(* lsm6dsox_remove: resume the sensor and disable runtime PM; if it cannot  *)
(* be resumed, nothing else is done.  A system suspend waits for the device *)
(* lock and cannot fall in between.                                         *)
BeginRemove ==
  /\ stage = "bound" /\ sleep = "awake"
  /\ \E r \in ResumeAndGet :
       /\ Takes(r.o)
       /\ pm' = r.pm
       /\ IF r.o.ok THEN stage' = "removing" /\ held' = 1 /\ UNCHANGED calm
                    ELSE stage' = "unlisted" /\ calm' = FALSE /\ UNCHANGED held
  /\ UNCHANGED <<iio, handler, irq, sleep>>

KeepsReference ==          \* Mutation: an error returns before the put.
  /\ stage = "removing"
  /\ \E o \in PowerDown(data, hw) :
       Takes(o) /\ calm' = (calm /\ o.ok) /\ held' = IF o.ok THEN 0 ELSE 1
  /\ stage' = "down"
  /\ UNCHANGED <<iio, handler, irq, pm, sleep>>

LeavesStreamOn ==          \* Mutation: an enabled buffer is left to the core.
  /\ stage = "removing"
  /\ \E o \in IF data.buffer_enabled THEN {Success(data, hw)}
              ELSE PowerDown(data, hw) :
       Takes(o) /\ calm' = (calm /\ o.ok)
  /\ held' = 0
  /\ stage' = "down"
  /\ UNCHANGED <<iio, handler, irq, pm, sleep>>

(* Power down, also under an enabled buffer, then pm_runtime_put_noidle.    *)
PowerDownOnRemove ==
  /\ stage = "removing"
  /\ \E o \in PowerDown(data, hw) :
       Takes(o) /\ calm' = (calm /\ o.ok)
  /\ held' = 0
  /\ stage' = "down"
  /\ UNCHANGED <<iio, handler, irq, pm, sleep>>

(* lsm6dsox_write_raw on the powered-down sensor: runtime PM still calls it *)
(* active, so the write goes through and switches the output rates on.      *)
LateWrite ==
  /\ stage = "down" /\ iio = "off" /\ ~pm.runtime_error
  /\ hw' \in {hw \cup {"XL"}, hw \cup {"G"}, hw \cup {"XL", "G"}}
  /\ calm' = FALSE
  /\ UNCHANGED <<data, iio, handler, irq, pm, sleep, stage, held>>

(* Device-managed clean-up (external): iio_device_unregister takes sysfs    *)
(* away, so that no call begins any more; one under way runs to its end, an *)
(* enabled buffer is disabled; then the interrupt is freed.                 *)
Unlist ==
  /\ stage = "down"
  /\ stage' = "unlisted"
  /\ UNCHANGED <<stream, held, calm>>

Release ==
  /\ stage = "unlisted" /\ iio = "off"
  /\ stage' = "gone"
  /\ pm' = [pm EXCEPT !.status = "suspended"]
  /\ data' = Fresh
  /\ UNCHANGED <<hw, iio, handler, irq, sleep, held, calm>>
-----------------------------------------------------------------------------
(* The stream lives on around this.  A step of it that a working bus has    *)
(* too leaves the binding calm; on a bus that fails there are more.         *)
Smooth == INSTANCE FifoLifecycle WITH BusFails <- FALSE

Goes(smoothly, anyhow) ==
  /\ \/ smoothly /\ UNCHANGED calm
     \/ BusFails /\ anyhow /\ calm' = FALSE
  /\ UNCHANGED <<stage, held>>

UserCall == Usable /\
  Goes(Smooth!Preenable \/ Smooth!Predisable \/ Smooth!DirectAccess,
       Preenable \/ Predisable \/ DirectAccess)
Unregister == stage = "unlisted" /\ Goes(Smooth!Predisable, Predisable)
CallGoesOn == Goes(Smooth!BufferCall, BufferCall)
Handles == Goes(Smooth!TriggerHandler, TriggerHandler)
Rises ==
  /\ stage \notin {"gone", "configured"} /\ Edge
  /\ UNCHANGED <<stage, held, calm>>
ManagesPower == stage = "bound" /\
  Goes(Smooth!Autosuspend \/ Smooth!SuspendIrq \/ Smooth!ForceSuspend
         \/ Smooth!Resume,
       Autosuspend \/ SuspendIrq \/ ForceSuspend \/ Resume)

Binding ==
  \/ Configure \/ Register \/ EnableRuntimePM \/ PutAutosuspend
  \/ BeginRemove \/ PowerDownOnRemove \/ Unlist \/ Release
  \/ LateWrite

BindingNext ==
  \/ Binding
  \/ UserCall \/ Unregister \/ CallGoesOn \/ Handles \/ Rises \/ ManagesPower

(* remove and the clean-up after it run to their end, and so do the calls   *)
(* and the handler they may have to wait for.                               *)
Removes == PowerDownOnRemove \/ Unlist \/ Release

BindingFairness ==
  /\ WF_bvars(Removes) /\ WF_bvars(Unregister)
  /\ WF_bvars(CallGoesOn) /\ WF_bvars(Handles)

BindingSpec == BindingInit /\ [][BindingNext]_bvars /\ BindingFairness
-----------------------------------------------------------------------------
(* While the device is bound and no transfer has failed, the promises of    *)
(* the life cycle hold, also in the window in which user space sees the     *)
(* device and probe has not finished, and for a device bound again after a  *)
(* removal in the middle of a stream.                                       *)
BoundCorrect ==
  calm /\ stage \in {"registered", "enabled", "bound"} =>
    StreamAlive /\ NoDrainWhileDown /\ (stage # "registered" => QuietWhenDown)

(* remove leaves the sensor off, whatever stream it met, a buffer call that *)
(* began before, during or after its power_down and a late handler          *)
(* included.                                                                *)
RemovedIsQuiet == calm /\ stage = "gone" => hw = {}

(* When the driver is gone nothing of it is left running and every runtime- *)
(* PM reference has been returned, on a failing bus as well.                *)
NothingLeft ==
  stage = "gone" =>
    iio = "off" /\ handler = "idle" /\ pm.usage = 0 /\ held = 0

(* A removal that has begun ends: unregistering waits for calls under way   *)
(* and for the handler, and these for nobody who waits for the removal.     *)
RemoveCompletes == stage = "removing" ~> stage = "gone"
=============================================================================
