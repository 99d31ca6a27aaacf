--------------------------- MODULE FifoLifecycle ---------------------------
(***************************************************************************)
(* The life of the FIFO stream of lsm6dsox_driver.c.  Five parties share   *)
(* the sensor and struct lsm6dsox_data: the task that enables and disables *)
(* the IIO buffer, direct readers and writers, the watermark interrupt     *)
(* with its threaded handler, the runtime-PM worker that autosuspends the  *)
(* device, and system sleep.  data->lock makes each driver callback one    *)
(* step; what the kernel does between two callbacks is a step of its own,  *)
(* so that an interrupt, a late handler or a suspend can fall in between.  *)
(***************************************************************************)
EXTENDS FifoOps

CONSTANTS
  Watermarks,          \* the buffer watermarks user space asks for
  MaxDiscontinuities   \* bound: a drain or a system sleep that would count
                       \* more in the session is not explored

ASSUME LifecycleAssumption ==
  Watermarks \subseteq Nat /\ MaxDiscontinuities \in Nat

DefaultWatermark == 4

VARIABLES
  data,      \* struct lsm6dsox_data: the fields the stream depends on
  hw,        \* the sensor features that are switched on
  iio,       \* how far the buffer enable or disable call has come
  handler,   \* the threaded trigger handler: "idle" or "pending"
  irq,       \* client->irq: disabled by suspend, an edge latched meanwhile
  pm,        \* runtime PM of the device: status, usage, runtime_error, force
  sleep      \* "awake", "syncing" (irq off, handler flushed) or "asleep"

vars == <<data, hw, iio, handler, irq, pm, sleep>>

DataType ==
  [buffer_enabled : BOOLEAN, fifo_running : BOOLEAN, fifo_faulted : BOOLEAN,
   timestamp_valid : BOOLEAN, hw_timestamp_valid : BOOLEAN,
   fifo_watermark : 1..MaxScans, fifo_hw_entries : 0..511,
   fifo_discontinuity_count : Nat, odrs_match : BOOLEAN]

IrqType == [irq_disabled_for_suspend : BOOLEAN, latched : BOOLEAN]
PmType  == [status : {"active", "suspended"}, usage : 0..1,
            runtime_error : BOOLEAN, needs_force_resume : BOOLEAN]

TypeOK ==
  /\ data \in DataType
  /\ hw \subseteq Features
  /\ iio \in {"off", "resumed", "attached", "on", "disabled", "detached"}
  /\ handler \in {"idle", "pending"}
  /\ irq \in IrqType
  /\ pm \in PmType
  /\ sleep \in {"awake", "syncing", "asleep"}

(* lsm6dsox_probe has succeeded: sensor on at matching rates, no stream.    *)
Init ==
  /\ data = [buffer_enabled |-> FALSE, fifo_running |-> FALSE,
             fifo_faulted |-> FALSE, timestamp_valid |-> FALSE,
             hw_timestamp_valid |-> FALSE, fifo_watermark |-> DefaultWatermark,
             fifo_hw_entries |-> 0, fifo_discontinuity_count |-> 0,
             odrs_match |-> TRUE]
  /\ hw = Power
  /\ iio = "off"
  /\ handler = "idle"
  /\ irq = [irq_disabled_for_suspend |-> FALSE, latched |-> FALSE]
  /\ pm = [status |-> "active", usage |-> 0, runtime_error |-> FALSE,
           needs_force_resume |-> FALSE]
  /\ sleep = "awake"

(* One callback ran with outcome o.                                         *)
Takes(o) ==
  /\ data' = o.data
  /\ hw' = o.hw

(* pm_runtime_resume_and_get (external): a sticky runtime_error refuses it, *)
(* an active device is only referenced, a suspended one is resumed first.   *)
ResumeAndGet ==
  IF pm.runtime_error
  THEN {[o |-> Failure(data, hw), pm |-> pm]}
  ELSE IF pm.status = "active"
  THEN {[o |-> Success(data, hw), pm |-> pm]}
  ELSE {[o |-> o,
         pm |-> IF o.ok THEN [pm EXCEPT !.status = "active"]
                        ELSE [pm EXCEPT !.runtime_error = TRUE]] :
          o \in RuntimeResume(data, hw)}
-----------------------------------------------------------------------------
(* lsm6dsox_buffer_preenable; a failure leaves the buffer off.              *)
Preenable ==
  /\ iio = "off" /\ sleep = "awake"
  /\ \E r \in ResumeAndGet :
       /\ Takes(r.o)
       /\ pm' = [r.pm EXCEPT !.usage = IF r.o.ok THEN 1 ELSE 0]
       /\ iio' = IF r.o.ok THEN "resumed" ELSE "off"
  /\ UNCHANGED <<handler, irq, sleep>>

(* The IIO core sets the watermark, ignoring what the driver answers        *)
(* (lsm6dsox_hwfifo_set_watermark), and attaches the poll function.         *)
AcceptsOneMore(val) ==     \* Mutation: the upper bound is off by one.
  IF val < 1 \/ val > MaxScans + 1 \/ data.buffer_enabled
  THEN data ELSE [data EXCEPT !.fifo_watermark = val]

HwfifoSetWatermark(val) ==
  IF val < 1 \/ val > MaxScans \/ data.buffer_enabled
  THEN data ELSE [data EXCEPT !.fifo_watermark = val]

Attach ==
  /\ iio = "resumed"
  /\ \E val \in Watermarks : data' = HwfifoSetWatermark(val)
  /\ iio' = "attached"
  /\ UNCHANGED <<hw, handler, irq, pm, sleep>>

(* lsm6dsox_buffer_postenable.                                              *)
KeepsCount ==              \* Mutation: the last session's count stays.
  [NoTimeline(data) EXCEPT !.fifo_faulted = FALSE]

NewSession ==
  [NoTimeline(data) EXCEPT !.fifo_faulted = FALSE, !.fifo_discontinuity_count = 0]

Postenable ==
  /\ iio = "attached"
  /\ IF data.buffer_enabled
     THEN iio' = "on" /\ UNCHANGED <<data, hw>>
     ELSE \/ /\ ~data.odrs_match
             /\ iio' = "disabled" /\ UNCHANGED <<data, hw>>
          \/ /\ data.odrs_match
             /\ \E o \in FifoStartHw(NewSession, hw) :
                  /\ data' = [o.data EXCEPT !.buffer_enabled = o.ok]
                  /\ hw' = o.hw
                  /\ iio' = IF o.ok THEN "on" ELSE "disabled"
  /\ UNCHANGED <<handler, irq, pm, sleep>>

(* lsm6dsox_buffer_predisable: always reports success to the IIO core.      *)
Predisable ==
  /\ iio = "on" /\ sleep = "awake"
  /\ IF data.buffer_enabled
     THEN \E o \in FifoStopHw(data, hw) :
            /\ data' = [NoTimeline(o.data) EXCEPT !.buffer_enabled = FALSE,
                                                  !.fifo_faulted = FALSE]
            /\ hw' = o.hw
     ELSE UNCHANGED <<data, hw>>
  /\ iio' = "disabled"
  /\ UNCHANGED <<handler, irq, pm, sleep>>

(* The IIO core detaches the poll function: no new event reaches it, and a  *)
(* handler already woken runs a last time.  Then lsm6dsox_buffer_postdisable *)
(* returns the runtime-PM reference.  A failed postenable is unwound alike. *)
Detach ==
  /\ iio = "disabled"
  /\ iio' = "detached"
  /\ UNCHANGED <<data, hw, handler, irq, pm, sleep>>

Postdisable ==
  /\ iio = "detached"
  /\ handler = "idle"
  /\ iio' = "off"
  /\ pm' = [pm EXCEPT !.usage = 0]
  /\ UNCHANGED <<data, hw, handler, irq, sleep>>

(* lsm6dsox_read_raw and lsm6dsox_write_raw in direct mode: they hold their *)
(* reference only inside the call.  A sampling-frequency write whose        *)
(* rollback also fails can leave the two cached rates different.            *)
DirectAccess ==
  /\ iio = "off" /\ sleep = "awake"
  /\ \E r \in ResumeAndGet :
       /\ hw' = r.o.hw
       /\ pm' = r.pm
       /\ \E match \in {r.o.data.odrs_match} \cup
                       (IF r.o.ok THEN {TRUE} \cup {~BusFails} ELSE {}) :
            data' = [r.o.data EXCEPT !.odrs_match = match]
  /\ UNCHANGED <<iio, handler, irq, sleep>>
-----------------------------------------------------------------------------
Attached == iio \in {"attached", "on", "disabled"}

Poll == IF Attached /\ handler = "idle" THEN "pending" ELSE handler

(* A rising edge of INT1: the FIFO level has reached the watermark.         *)
(* lsm6dsox_irq_handler polls the trigger, which drops the event while the  *)
(* handler has not finished or nothing is attached; a disabled line latches *)
(* the edge.                                                                *)
Edge ==
  /\ {"INT1", "FIFO", "BDR"} \subseteq hw /\ {"XL", "G"} \cap hw # {}
  /\ IF irq.irq_disabled_for_suspend
     THEN irq' = [irq EXCEPT !.latched = TRUE] /\ UNCHANGED handler
     ELSE handler' = Poll /\ UNCHANGED irq
  /\ UNCHANGED <<data, hw, iio, pm, sleep>>

(* A drain reads MaxScans scans at most, each of which may follow a gap.    *)
Gaps == {gaps \in 0..MaxScans : gaps <= MaxDiscontinuities}

(* Mutation: after a failed drain iio_trigger_notify_done is not called.    *)
NotifiesOnSuccess ==
  /\ handler = "pending"
  /\ \E gaps \in Gaps : \E o \in FifoDrain(data, hw, gaps) :
       /\ o.data.fifo_discontinuity_count
            \in {data.fifo_discontinuity_count} \cup 0..MaxDiscontinuities
       /\ Takes(o)
       /\ handler' = IF o.data.fifo_faulted THEN "pending" ELSE "idle"
  /\ UNCHANGED <<iio, irq, pm, sleep>>

(* lsm6dsox_trigger_handler: drains under the lock, then notifies.          *)
TriggerHandler ==
  /\ handler = "pending"
  /\ \E gaps \in Gaps : \E o \in FifoDrain(data, hw, gaps) :
       /\ o.data.fifo_discontinuity_count
            \in {data.fifo_discontinuity_count} \cup 0..MaxDiscontinuities
       /\ Takes(o)
  /\ handler' = "idle"
  /\ UNCHANGED <<iio, irq, pm, sleep>>
-----------------------------------------------------------------------------
(* The autosuspend delay has passed with no reference held.  An error of    *)
(* lsm6dsox_runtime_suspend leaves the device active; unless it is one the  *)
(* PM core retries (-EAGAIN, lost arbitration), it also sticks.             *)
Autosuspend ==
  /\ sleep = "awake" /\ pm.status = "active" /\ pm.usage = 0
  /\ ~pm.runtime_error
  /\ \E o \in RuntimeSuspend(data, hw) :
       /\ Takes(o)
       /\ IF o.ok THEN pm' = [pm EXCEPT !.status = "suspended"]
          ELSE \E sticks \in BOOLEAN : pm' = [pm EXCEPT !.runtime_error = sticks]
  /\ UNCHANGED <<iio, handler, irq, sleep>>

(* lsm6dsox_suspend, first half: user tasks are frozen between two calls.   *)
SuspendIrq ==
  /\ sleep = "awake" /\ iio \in {"off", "on"}
  /\ data.fifo_discontinuity_count < MaxDiscontinuities
  /\ irq' = [irq EXCEPT !.irq_disabled_for_suspend = TRUE]
  /\ sleep' = "syncing"
  /\ UNCHANGED <<data, hw, iio, handler, pm>>

(* enable_irq replays an edge latched while the line was disabled.          *)
EnableIrqIfActive ==       \* Mutation: a failed resume leaves the line disabled.
  IF pm'.status = "active"
  THEN /\ irq' = [irq_disabled_for_suspend |-> FALSE, latched |-> FALSE]
       /\ handler' = IF irq.latched THEN Poll ELSE handler
  ELSE UNCHANGED <<irq, handler>>

EnableIrq ==
  /\ irq' = [irq_disabled_for_suspend |-> FALSE, latched |-> FALSE]
  /\ handler' = IF irq.latched THEN Poll ELSE handler

(* synchronize_irq on the poll function of an enabled buffer.               *)
NotSynchronized == TRUE    \* Mutation: synchronize_irq is not called.

Synchronized == data.buffer_enabled => handler = "idle"

(* lsm6dsox_suspend, second half: pm_runtime_force_suspend after the flush; *)
(* an error undoes the first half and aborts the sleep.                     *)
ForceSuspend ==
  /\ sleep = "syncing"
  /\ Synchronized
  /\ \/ /\ pm.status = "suspended"
        /\ sleep' = "asleep" /\ UNCHANGED <<data, hw, handler, irq, pm>>
     \/ /\ pm.status = "active"
        /\ \E o \in RuntimeSuspend(data, hw) :
             /\ Takes(o)
             /\ IF o.ok
                THEN /\ pm' = [pm EXCEPT !.status = "suspended",
                                 !.needs_force_resume = (pm.usage = 1),
                                 !.runtime_error = (@ /\ pm.usage = 1)]
                     /\ sleep' = "asleep" /\ UNCHANGED <<handler, irq>>
                ELSE sleep' = "awake" /\ UNCHANGED pm /\ EnableIrq
  /\ UNCHANGED iio

(* lsm6dsox_resume: pm_runtime_force_resume, for a device it did not have   *)
(* to resume an immediate resume as self-check, then enable_irq.            *)
Resume ==
  /\ sleep = "asleep"
  /\ \/ /\ pm.needs_force_resume
        /\ \E o \in RuntimeResume(data, hw) :
             /\ Takes(o)
             /\ pm' = [pm EXCEPT !.needs_force_resume = FALSE,
                         !.status = IF o.ok THEN "active" ELSE "suspended",
                         !.runtime_error = (@ /\ o.ok)]
     \/ /\ ~pm.needs_force_resume
        /\ \E r \in ResumeAndGet : Takes(r.o) /\ pm' = r.pm
  /\ EnableIrq
  /\ sleep' = "awake"
  /\ UNCHANGED iio
-----------------------------------------------------------------------------
Next ==
  \/ Preenable \/ Attach \/ Postenable \/ Predisable \/ Detach \/ Postdisable
  \/ DirectAccess
  \/ Edge \/ TriggerHandler
  \/ Autosuspend \/ SuspendIrq \/ ForceSuspend \/ Resume

(* A buffer call that has begun, a woken handler thread and a suspend that  *)
(* has begun run to their end; nobody has to start one, and a wake-up comes. *)
BufferCall == Attach \/ Postenable \/ Detach \/ Postdisable
SystemSleep == ForceSuspend \/ Resume

Fairness ==
  WF_vars(BufferCall) /\ WF_vars(TriggerHandler) /\ WF_vars(SystemSleep)

Spec == Init /\ [][Next]_vars
FairSpec == Spec /\ Fairness
-----------------------------------------------------------------------------
Streaming == data.buffer_enabled /\ sleep # "asleep"

(* On a bus that works, an enabled buffer that is not asleep is a stream:   *)
(* every feature on, INT1 unmasked, the threshold programmed from the       *)
(* current watermark and no fault reported, whatever enables, disables,     *)
(* overrun recoveries, autosuspends and system sleeps came before.          *)
StreamAlive ==
  Streaming =>
    /\ hw = Features
    /\ data.fifo_running /\ ~data.fifo_faulted
    /\ data.fifo_hw_entries = Entries(data.fifo_watermark)
    /\ pm.status = "active"

(* Runtime or system suspend leaves nothing on: INT1 masked, FIFO in        *)
(* bypass, batching, both sensors and the timestamp counter off.            *)
QuietWhenDown == pm.status = "suspended" => hw = {}

(* No woken handler is left to touch a suspended device: the reference the  *)
(* buffer holds keeps autosuspend away, disable_irq with synchronize_irq    *)
(* keeps system sleep away.                                                 *)
NoDrainWhileDown == handler = "pending" => pm.status = "active"

(* The host-side timeline and the hardware-counter mapping are valid        *)
(* together: no reset of the sensor counter leaves last_timestamp_ns of the *)
(* old counter to judge the new timestamps by.                              *)
TimelineAgrees == data.timestamp_valid <=> data.hw_timestamp_valid

(* fifo_running, which makes start_hw return early and power_down stop the  *)
(* FIFO, is never set over a FIFO that is not batching, even on a failing   *)
(* bus.                                                                     *)
RunningMeansBatching == data.fifo_running => Batching \subseteq hw

(* A reported fault has a stopped FIFO: the next start reprograms it all.   *)
FaultedMeansStopped == data.fifo_faulted => ~data.fifo_running

(* No silent hole in a stream: when the timeline of a session on a powered  *)
(* device is given up, fifo_discontinuity_count has moved.                  *)
DiscontinuityCounted ==
  [][/\ data.buffer_enabled /\ data'.buffer_enabled /\ pm.status = "active"
     /\ data.timestamp_valid /\ ~data'.timestamp_valid
     => data'.fifo_discontinuity_count > data.fifo_discontinuity_count]_vars

(* A disable comes to its end whatever the interrupt does meanwhile.        *)
DisableCompletes == iio = "disabled" ~> iio = "off"

(* A suspend that has begun does not wait for ever for the handler, and the *)
(* interrupt line is enabled again afterwards.                              *)
SleepCompletes == sleep = "syncing" ~> ~irq.irq_disabled_for_suspend
-----------------------------------------------------------------------------
(* What a reader of the buffer sees of all this.  Outside a session the     *)
(* leftovers of a late handler are nobody's business: postenable clears     *)
(* them.                                                                    *)
Open == data.buffer_enabled

Stream == INSTANCE StreamSpec WITH
  Unreliable <- BusFails,
  session <- IF Open THEN "open" ELSE "closed",
  power   <- IF pm.status = "active" THEN "up" ELSE "down",
  segment <- Open /\ data.timestamp_valid,
  faulted <- Open /\ data.fifo_faulted,
  count   <- IF Open THEN data.fifo_discontinuity_count ELSE 0

(* The life cycle keeps the promise of StreamSpec: samples are delivered    *)
(* and lost only inside a session, on a powered sensor unless the bus fails, *)
(* and no segment ends, nor does the sensor sleep in a session, uncounted.  *)
KeepsThePromise == Stream!Spec
-----------------------------------------------------------------------------
(* "force postenable() to reprogram it": a successful postenable has        *)
(* switched the whole pipeline on, with the threshold of this session.      *)
PostenableReprograms ==
  [][iio = "attached" /\ iio' = "on" =>
       /\ Pipeline \subseteq hw'
       /\ data'.fifo_hw_entries = Entries(data'.fifo_watermark)]_vars
=============================================================================
