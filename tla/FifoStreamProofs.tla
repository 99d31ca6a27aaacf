-------------------------- MODULE FifoStreamProofs --------------------------
(***************************************************************************)
(* What FifoLifecycle means for a reader of the IIO buffer: on any bus it  *)
(* implements StreamSpec, and on a bus that works an enabled buffer is a   *)
(* stream, a suspended sensor is quiet and no handler touches it.          *)
(***************************************************************************)
EXTENDS FifoLifecycleProofs

(* How the buffer call, the reference it holds and the flag of the driver   *)
(* go together on any bus.  A session that is being opened is on an active  *)
(* device: its reference keeps autosuspend away, and system sleep meets     *)
(* user space only between two calls.                                       *)
SessionInv ==
  /\ data.buffer_enabled <=> iio = "on"
  /\ pm.usage = 1 <=> iio # "off"
  /\ sleep # "awake" => iio \in {"off", "on"}
  /\ iio \in {"resumed", "attached"} => pm.status = "active"

AnyBus == IInv /\ SessionInv

(* The parts of the state the invariant speaks of.                          *)
LEMMA Parts ==
  ASSUME IInv
  PROVE  /\ data \in DataType /\ hw \in SUBSET Features /\ Sound(data, hw)
         /\ irq \in IrqType /\ pm \in PmType
         /\ data.buffer_enabled \in BOOLEAN /\ data.timestamp_valid \in BOOLEAN
         /\ data.fifo_faulted \in BOOLEAN /\ data.fifo_discontinuity_count \in Nat
         /\ data.fifo_running \in BOOLEAN
         /\ pm.status \in {"active", "suspended"} /\ pm.usage \in 0..1
BY DEF IInv, TypeOK, DataType, PmType

(* What a successful or failed lsm6dsox_runtime_resume leaves of a session. *)
Awoken(ok, d, e) ==
  /\ e.buffer_enabled = d.buffer_enabled
  /\ e.fifo_faulted <=> ~ok /\ d.buffer_enabled
  /\ e.fifo_discontinuity_count = d.fifo_discontinuity_count
  /\ ~e.timestamp_valid
  /\ ~ok => BusFails

(* pm_runtime_resume_and_get changes nothing, or it resumes a suspended     *)
(* device.                                                                  *)
LEMMA ResumedOrNot ==
  ASSUME IInv, NEW r \in ResumeAndGet
  PROVE  /\ r.pm \in PmType /\ r.pm.usage = pm.usage
         /\ r.o \in OutcomeType
         /\ r.o.ok => r.pm.status = "active"
         /\ \/ r.o.data = data /\ r.o.hw = hw /\ r.pm = pm
            \/ /\ pm.status = "suspended"
               /\ Awoken(r.o.ok, data, r.o.data)
               /\ ~r.o.ok => r.pm.status = "suspended"
<1>1. /\ data \in DataType /\ hw \in SUBSET Features
      /\ Sound(data, hw) /\ pm \in PmType
  BY Parts
<1>2. CASE \/ pm.runtime_error /\ r = [o |-> Failure(data, hw), pm |-> pm]
           \/ pm.status = "active" /\ r = [o |-> Success(data, hw), pm |-> pm]
  <2>1. /\ r.pm = pm /\ r.o \in {Failure(data, hw), Success(data, hw)}
        /\ pm.status = "active" \/ r.o = Failure(data, hw)
    BY <1>2
  <2>2. /\ r.o \in OutcomeType /\ r.o.data = data /\ r.o.hw = hw
        /\ r.o = Failure(data, hw) => ~r.o.ok
    BY <1>1, <2>1, OutcomeFields
  <2> QED BY <1>1, <2>1, <2>2
<1>3. ASSUME pm.status # "active",
             NEW o \in RuntimeResume(data, hw),
             r = [o |-> o,
                  pm |-> IF o.ok THEN [pm EXCEPT !.status = "active"]
                                 ELSE [pm EXCEPT !.runtime_error = TRUE]]
      PROVE  /\ r.pm \in PmType /\ r.pm.usage = pm.usage
             /\ r.o \in OutcomeType
             /\ r.o.ok => r.pm.status = "active"
             /\ pm.status = "suspended"
             /\ Awoken(r.o.ok, data, r.o.data)
             /\ ~r.o.ok => r.pm.status = "suspended"
  <2>1. r.o = o /\ r.pm = (IF o.ok THEN [pm EXCEPT !.status = "active"]
                                   ELSE [pm EXCEPT !.runtime_error = TRUE])
    BY <1>3
  <2>2. pm.status = "suspended"
    BY <1>1, <1>3 DEF PmType
  <2>3. /\ r.pm \in PmType /\ r.pm.usage = pm.usage
        /\ o.ok => r.pm.status = "active"
        /\ ~o.ok => r.pm.status = "suspended"
    BY <1>1, <2>1, <2>2 DEF PmType
  <2>4. o \in OutcomeType /\ Awoken(o.ok, data, o.data)
    BY <1>1, ResumeHw DEF Awoken
  <2> QED BY <2>1, <2>2, <2>3, <2>4
<1> QED BY <1>2, <1>3 DEF ResumeAndGet

(* No buffer call has begun when probe has succeeded.                       *)
LEMMA InitSession == Init => SessionInv
BY DEF Init, SessionInv

(* Only postenable and predisable change buffer_enabled, and they take iio  *)
(* along; no step but a buffer call moves the reference it holds.           *)
LEMMA NextSession == AnyBus /\ [Next]_vars => SessionInv'
<1> SUFFICES ASSUME AnyBus, [Next]_vars PROVE SessionInv'
  OBVIOUS
<1>0. /\ IInv /\ SessionInv /\ data \in DataType /\ hw \in SUBSET Features
      /\ Sound(data, hw) /\ pm \in PmType
  BY Parts DEF AnyBus
<1>1. CASE Preenable
  <2>1. PICK r \in ResumeAndGet :
          /\ data' = r.o.data
          /\ pm' = [r.pm EXCEPT !.usage = IF r.o.ok THEN 1 ELSE 0]
          /\ iio' = IF r.o.ok THEN "resumed" ELSE "off"
    BY <1>1 DEF Preenable, Takes
  <2>2. /\ r.pm \in PmType
        /\ r.o.ok => r.pm.status = "active"
        /\ data'.buffer_enabled = data.buffer_enabled
    BY <1>0, <2>1, ResumedOrNot DEF Awoken
  <2>3. /\ pm'.usage = IF r.o.ok THEN 1 ELSE 0
        /\ r.o.ok => pm'.status = "active"
    BY <2>1, <2>2 DEF PmType
  <2> QED BY <1>0, <1>1, <2>1, <2>2, <2>3 DEF Preenable, SessionInv
<1>2. CASE Attach
  <2>1. data'.buffer_enabled = data.buffer_enabled
    BY <1>0, <1>2 DEF Attach, HwfifoSetWatermark, DataType
  <2> QED BY <1>0, <1>2, <2>1 DEF Attach, SessionInv
<1>3. CASE Postenable
  <2>1. CASE ~data.odrs_match
    BY <1>0, <1>3, <2>1 DEF Postenable, SessionInv
  <2>2. ASSUME NEW o \in FifoStartHw(NewSession, hw),
               data' = [o.data EXCEPT !.buffer_enabled = o.ok],
               iio' = IF o.ok THEN "on" ELSE "disabled"
        PROVE  SessionInv'
    <3>1. data'.buffer_enabled <=> o.ok
      <4>1. data' \in DataType /\ o.data \in DataType /\ o.ok \in BOOLEAN
        BY <1>0, <2>2, NewSessionFields, StartHw DEF OutcomeType, DataType, Sound
      <4> QED BY <2>2, <4>1 DEF DataType
    <3> QED BY <1>0, <1>3, <2>2, <3>1 DEF Postenable, SessionInv
  <2> QED BY <1>0, <1>3, <2>1, <2>2 DEF Postenable, SessionInv
<1>4. CASE Predisable
  <2>1. PICK o \in FifoStopHw(data, hw) :
          data' = [NoTimeline(o.data) EXCEPT !.buffer_enabled = FALSE,
                                             !.fifo_faulted = FALSE]
    BY <1>0, <1>4 DEF Predisable, SessionInv
  <2>2. NoTimeline(o.data) \in DataType
    BY <1>0, StopHw, NoTimelineFields, ZenonT(30) DEF OutcomeType
  <2>3. ~data'.buffer_enabled
    BY <2>1, <2>2 DEF DataType
  <2> QED BY <1>0, <1>4, <2>3 DEF Predisable, SessionInv
<1>5. CASE Detach \/ SuspendIrq \/ Edge \/ UNCHANGED vars
  BY <1>0, <1>5 DEF Detach, SuspendIrq, Edge, vars, SessionInv
<1>6. CASE Postdisable
  <2>1. pm'.usage = 0
    BY <1>0, <1>6 DEF Postdisable, PmType
  <2> QED BY <1>0, <1>6, <2>1 DEF Postdisable, SessionInv
<1>7. CASE DirectAccess
  <2>1. PICK r \in ResumeAndGet :
          /\ pm' = r.pm
          /\ \E match : data' = [r.o.data EXCEPT !.odrs_match = match]
    BY <1>7 DEF DirectAccess
  <2>2. /\ r.o.data \in DataType /\ r.pm.usage = pm.usage
        /\ r.o.data.buffer_enabled = data.buffer_enabled
    BY <1>0, ResumedOrNot DEF Awoken, OutcomeType
  <2>3. data'.buffer_enabled = data.buffer_enabled
    BY <2>1, <2>2 DEF DataType
  <2> QED BY <1>0, <1>7, <2>1, <2>2, <2>3 DEF DirectAccess, SessionInv
<1>8. CASE TriggerHandler
  <2>1. data'.buffer_enabled = data.buffer_enabled
    BY <1>0, <1>8, DrainHw DEF TriggerHandler, Takes, Gaps
  <2> QED BY <1>0, <1>8, <2>1 DEF TriggerHandler, SessionInv
<1>9. CASE Autosuspend
  <2>1. data'.buffer_enabled = data.buffer_enabled
    BY <1>0, <1>9, SuspendHw DEF Autosuspend, Takes
  <2>2. iio = "off" /\ pm'.usage = pm.usage
    BY <1>0, <1>9 DEF Autosuspend, SessionInv, PmType, IInv, TypeOK
  <2> QED BY <1>0, <1>9, <2>1, <2>2 DEF Autosuspend, SessionInv
<1>10. CASE ForceSuspend
  <2>1. data'.buffer_enabled = data.buffer_enabled
    BY <1>0, <1>10, SuspendHw DEF ForceSuspend, Takes
  <2>2. iio \in {"off", "on"} /\ pm'.usage = pm.usage
    BY <1>0, <1>10 DEF ForceSuspend, SessionInv, PmType
  <2> QED BY <1>0, <1>10, <2>1, <2>2 DEF ForceSuspend, SessionInv
<1>11. CASE Resume
  <2>1. data'.buffer_enabled = data.buffer_enabled /\ pm'.usage = pm.usage
    <3>1. ASSUME NEW r \in ResumeAndGet, Takes(r.o), pm' = r.pm
          PROVE  data'.buffer_enabled = data.buffer_enabled /\ pm'.usage = pm.usage
      BY <1>0, <3>1, ResumedOrNot DEF Takes, Awoken
    <3>2. ASSUME NEW o \in RuntimeResume(data, hw), Takes(o),
                 pm' = [pm EXCEPT !.needs_force_resume = FALSE,
                           !.status = IF o.ok THEN "active" ELSE "suspended",
                           !.runtime_error = (@ /\ o.ok)]
          PROVE  data'.buffer_enabled = data.buffer_enabled /\ pm'.usage = pm.usage
      BY <1>0, <3>2, ResumeHw DEF Takes, PmType
    <3> QED BY <1>11, <3>1, <3>2 DEF Resume
  <2>2. iio \in {"off", "on"}
    BY <1>0, <1>11 DEF Resume, SessionInv
  <2> QED BY <1>0, <1>11, <2>1, <2>2 DEF Resume, SessionInv
<1> QED
  BY <1>1, <1>2, <1>3, <1>4, <1>5, <1>6, <1>7, <1>8, <1>9, <1>10, <1>11 DEF Next
-----------------------------------------------------------------------------
(* A bus that works: every helper has one outcome.                          *)

(* What the sensor and the driver record of it look like while samples are  *)
(* streamed, while the device is up without a stream, and while it is down. *)
Flowing(d, h) ==
  /\ h = Features /\ d.fifo_running /\ ~d.fifo_faulted
  /\ d.fifo_hw_entries = Entries(d.fifo_watermark)

Resting(d, h) == h = Power /\ ~d.fifo_running /\ ~d.fifo_faulted

Down(d, h) == h = {} /\ ~d.fifo_running /\ ~d.fifo_faulted

Up(d, h) == IF d.buffer_enabled THEN Flowing(d, h) ELSE Resting(d, h)

WorkingInv ==
  /\ IF pm.status = "suspended" THEN Down(data, hw) /\ handler = "idle"
                                ELSE Up(data, hw)
  /\ ~pm.runtime_error
  /\ pm.status = "suspended" /\ pm.usage = 1 => pm.needs_force_resume
  /\ handler = "pending" => iio \in {"on", "disabled", "detached"}
  /\ sleep = "asleep" => pm.status = "suspended"

(* No helper has a failing outcome.                                         *)
LEMMA NoFailure == ASSUME ~BusFails, NEW ds, NEW hs PROVE Fail(ds, hs) = {}
BY DEF Fail

(* The record of a FIFO that has been started.                              *)
LEMMA StartedFields ==
  ASSUME NEW d \in DataType
  PROVE  /\ Started(d) \in DataType
         /\ Started(d).fifo_running
         /\ Started(d).fifo_hw_entries = Entries(d.fifo_watermark)
         /\ Started(d).fifo_watermark = d.fifo_watermark
         /\ Started(d).fifo_faulted = d.fifo_faulted
         /\ Started(d).buffer_enabled = d.buffer_enabled
<1> DEFINE e == Programmed(d)
<1>1. /\ e \in DataType
      /\ e.fifo_hw_entries = Entries(d.fifo_watermark)
      /\ e.fifo_watermark = d.fifo_watermark
      /\ e.fifo_faulted = d.fifo_faulted
      /\ e.buffer_enabled = d.buffer_enabled
  <2>1. /\ e \in DataType /\ e.fifo_faulted = d.fifo_faulted
        /\ e.buffer_enabled = d.buffer_enabled
    BY ProgrammedFields
  <2>2. e.fifo_watermark = d.fifo_watermark
    BY DEF Programmed, DataType
  <2>3. e.fifo_hw_entries = Entries(d.fifo_watermark)
    BY DEF Programmed, DataType
  <2> QED BY <2>1, <2>2, <2>3
<1> HIDE DEF e
<1>2. Started(d) = [e EXCEPT !.hw_timestamp_valid = FALSE, !.fifo_running = TRUE]
  BY DEF Started, e
<1>3. Started(d) \in DataType /\ Started(d).fifo_running
  BY <1>1, <1>2, ZenonT(30) DEF DataType
<1>4. /\ Started(d).fifo_hw_entries = e.fifo_hw_entries
      /\ Started(d).fifo_watermark = e.fifo_watermark
      /\ Started(d).fifo_faulted = e.fifo_faulted
      /\ Started(d).buffer_enabled = e.buffer_enabled
  BY <1>1, <1>2 DEF DataType
<1> QED BY <1>1, <1>3, <1>4

(* A lsm6dsox_fifo_start_hw that succeeds has programmed this session's      *)
(* watermark and switched the whole pipeline on, unless it takes the FIFO   *)
(* for running.                                                             *)
LEMMA StartWorks ==
  ASSUME NEW d \in DataType, NEW h \in SUBSET Features,
         ~d.fifo_running, NEW o \in FifoStartHw(d, h), o.ok
  PROVE  /\ o.data \in DataType /\ o.hw = h \cup Pipeline
         /\ o.data.fifo_running
         /\ o.data.fifo_hw_entries = Entries(o.data.fifo_watermark)
         /\ o.data.fifo_faulted = d.fifo_faulted
         /\ o.data.buffer_enabled = d.buffer_enabled
<1>1. o \notin StartFailures(d, h)
  BY FailOutcome DEF StartFailures
<1>2. o = Success(Started(d), h \cup Pipeline)
  BY <1>1 DEF FifoStartHw
<1>3. h \cup Pipeline \in SUBSET Features
  BY DEF Features
<1>4. o.ok /\ o.data = Started(d) /\ o.hw = h \cup Pipeline
  BY <1>2, <1>3, StartedFields, OutcomeFields
<1> QED BY <1>4, StartedFields

(* A lsm6dsox_power_down that succeeds has turned off a stream or an idle   *)
(* sensor altogether.                                                       *)
LEMMA PowerDownWorks ==
  ASSUME NEW d \in DataType, NEW h \in SUBSET Features,
         h = (IF d.fifo_running THEN Features ELSE Power),
         NEW o \in PowerDown(d, h), o.ok
  PROVE  o.hw = {}
<1> DEFINE off == IF d.fifo_running THEN Features ELSE Power
           down == [NoTimeline(d) EXCEPT !.fifo_running = FALSE]
<1>1. o \in {Success(down, h \ off)} \cup Fail({down}, Undo(off, {h}))
  BY DEF PowerDown
<1> HIDE DEF off, down
<1>2. o = Success(down, h \ off)
  BY <1>1, FailOutcome
<1> QED BY <1>2 DEF Success, off

(* lsm6dsox_runtime_suspend leaves a sensor that is down.                   *)
LEMMA SuspendWorks ==
  ASSUME ~BusFails, NEW d \in DataType, NEW h \in SUBSET Features, Sound(d, h),
         Up(d, h), NEW o \in RuntimeSuspend(d, h)
  PROVE  o.ok /\ Down(o.data, o.hw)
<1> DEFINE before == IF d.buffer_enabled THEN Discontinuity(d) ELSE d
<1>1. /\ before \in DataType /\ before.fifo_running = d.fifo_running
      /\ before.fifo_faulted = d.fifo_faulted
  BY DiscontinuityFields
<1>2. ~d.fifo_faulted /\ h = (IF d.fifo_running THEN Features ELSE Power)
  BY DEF Up, Flowing, Resting
<1>3. PICK p \in PowerDown(before, h) : p.ok => o = p
  BY DEF RuntimeSuspend
<1> HIDE DEF before
<1>4. p.ok /\ ~p.data.fifo_running /\ ~p.data.fifo_faulted
  BY <1>1, <1>2, PowerOff
<1>5. p.hw = {}
  BY <1>1, <1>2, <1>4, PowerDownWorks
<1> QED BY <1>3, <1>4, <1>5 DEF Down

(* A lsm6dsox_runtime_resume that succeeds has brought a sensor that was    *)
(* down up again, with the stream if the buffer is enabled.                 *)
LEMMA ResumeWorks ==
  ASSUME NEW d \in DataType, NEW h \in SUBSET Features, Sound(d, h),
         Down(d, h), NEW o \in RuntimeResume(d, h), o.ok
  PROVE  Up(o.data, o.hw)
<1> DEFINE Restarted(r) == IF r.ok /\ d.buffer_enabled
                           THEN FifoStartHw(r.data, r.hw) ELSE {r}
           GiveUp(s) ==
             {Failure(p.data, p.hw) :
                p \in PowerDown([s.data EXCEPT !.fifo_faulted = d.buffer_enabled],
                                s.hw)}
           Finish(s) ==
             IF s.ok THEN {Success([s.data EXCEPT !.fifo_faulted = FALSE], s.hw)}
                     ELSE GiveUp(s)
<1>1. PICK r \in RestoreSensorConfig(d, h) :
        o \in UNION {Finish(s) : s \in Restarted(r)}
  BY DEF RuntimeResume
<1>2. PICK s \in Restarted(r) : o \in Finish(s)
  BY <1>1
<1>3. s.ok /\ r.ok
  <2>1. ~s.ok => \E p : o = Failure(p.data, p.hw)
    BY <1>2
  <2>2. s.ok
    BY <2>1 DEF Failure
  <2> QED BY <1>2, <2>2
<1> HIDE DEF Finish, Restarted
<1>4. /\ r.ok /\ r.data \in DataType /\ r.hw = Power /\ r.hw \in SUBSET Features
      /\ ~r.data.fifo_running /\ ~r.data.fifo_faulted
      /\ r.data.buffer_enabled = d.buffer_enabled
  <2>1. r = Success(NoTimeline(d), Power)
    BY <1>3, FailOutcome DEF RestoreSensorConfig, Down
  <2> QED BY <2>1, NoTimelineFields DEF Success, Features, Down
<1>5. /\ s.ok /\ s.data \in DataType /\ ~s.data.fifo_faulted
      /\ s.data.buffer_enabled = d.buffer_enabled
      /\ s.data.fifo_running <=> d.buffer_enabled
      /\ d.buffer_enabled => s.data.fifo_hw_entries = Entries(s.data.fifo_watermark)
      /\ s.hw = (IF d.buffer_enabled THEN Features ELSE Power)
  <2>1. CASE d.buffer_enabled
    <3>1. s \in FifoStartHw(r.data, r.hw)
      BY <1>2, <1>4, <2>1 DEF Restarted
    <3>2. Power \cup Pipeline = Features
      BY DEF Features
    <3>3. /\ s.data \in DataType /\ s.hw = r.hw \cup Pipeline
          /\ s.data.fifo_running
          /\ s.data.fifo_hw_entries = Entries(s.data.fifo_watermark)
          /\ s.data.fifo_faulted = r.data.fifo_faulted
          /\ s.data.buffer_enabled = r.data.buffer_enabled
      BY <1>3, <1>4, <3>1, StartWorks
    <3> QED BY <1>3, <1>4, <2>1, <3>2, <3>3
  <2>2. CASE ~d.buffer_enabled
    <3>1. s = r
      BY <1>2, <2>2 DEF Restarted
    <3> QED BY <1>4, <2>2, <3>1
  <2> QED BY <2>1, <2>2
<1> DEFINE e == [s.data EXCEPT !.fifo_faulted = FALSE]
<1>6. o = Success(e, s.hw)
  BY <1>2, <1>5 DEF Finish
<1>7. /\ e.fifo_running = s.data.fifo_running /\ ~e.fifo_faulted
      /\ e.fifo_hw_entries = s.data.fifo_hw_entries
      /\ e.fifo_watermark = s.data.fifo_watermark
      /\ e.buffer_enabled = s.data.buffer_enabled
  BY <1>5 DEF DataType
<1> HIDE DEF e
<1>8. o.data = e /\ o.hw = s.hw
  BY <1>6 DEF Success
<1> QED BY <1>5, <1>7, <1>8 DEF Up, Flowing, Resting

(* A recovery starts a flowing stream anew.                                 *)
LEMMA RecoverWorks ==
  ASSUME ~BusFails, NEW d \in DataType, NEW h \in SUBSET Features, Sound(d, h),
         Up(d, h), "FIFO" \in h, NEW o \in FifoRecover(d, h)
  PROVE  Up(o.data, o.hw)
<1>1. d.buffer_enabled /\ h = Features
  BY DEF Up, Flowing, Resting, Power
<1>2. RecoverFailures(d, h) = {}
  BY NoFailure DEF RecoverFailures
<1>3. o = Success(Recovered(d), h \cup Pipeline)
  BY <1>1, <1>2 DEF FifoRecover
<1>4. o.data = Recovered(d) /\ o.hw = Features
  BY <1>1, <1>3 DEF Success, Features
<1> DEFINE base == Interrupted(d)
           e == Programmed(base)
<1>5. base \in DataType /\ base.buffer_enabled = d.buffer_enabled
  <2>1. Discontinuity(d) \in DataType
    BY DiscontinuityFields
  <2>2. NoTimeline(Discontinuity(d)) \in DataType
    BY <2>1, NoTimelineFields
  <2>3. NoTimeline(Discontinuity(d)).buffer_enabled = d.buffer_enabled
    BY <2>1, DiscontinuityFields, NoTimelineFields
  <2>4. [NoTimeline(Discontinuity(d)) EXCEPT !.fifo_faulted = TRUE] \in DataType
    BY <2>2, ZenonT(30) DEF DataType
  <2>5. [NoTimeline(Discontinuity(d)) EXCEPT !.fifo_faulted = TRUE].buffer_enabled
          = d.buffer_enabled
    BY <2>2, <2>3 DEF DataType
  <2> QED BY <2>4, <2>5 DEF Interrupted
<1> HIDE DEF base
<1>6. /\ e \in DataType /\ e.buffer_enabled = d.buffer_enabled
      /\ e.fifo_hw_entries = Entries(e.fifo_watermark)
  <2>1. Entries(base.fifo_watermark) \in 0..511
    BY <1>5, EntriesType DEF DataType
  <2>2. e \in DataType /\ e.buffer_enabled = base.buffer_enabled
    BY <1>5, ProgrammedFields
  <2>3. /\ e.fifo_hw_entries = Entries(base.fifo_watermark)
        /\ e.fifo_watermark = base.fifo_watermark
    BY <1>5, <2>1 DEF Programmed, DataType
  <2> QED BY <1>5, <2>2, <2>3
<1> HIDE DEF e
<1>7. o.data = [e EXCEPT !.fifo_faulted = FALSE, !.fifo_running = TRUE]
  BY <1>4 DEF Recovered, e, base
<1>8. /\ ~o.data.fifo_faulted /\ o.data.fifo_running
      /\ o.data.buffer_enabled = d.buffer_enabled
  BY <1>6, <1>7 DEF DataType
<1>9. o.data.fifo_hw_entries = Entries(o.data.fifo_watermark)
  BY <1>6, <1>7 DEF DataType
<1> QED BY <1>1, <1>4, <1>8, <1>9 DEF Up, Flowing

(* A drain keeps a stream flowing and an idle sensor as it is.              *)
LEMMA DrainWorks ==
  ASSUME ~BusFails, NEW d \in DataType, NEW h \in SUBSET Features, Sound(d, h),
         Up(d, h), NEW gaps \in Nat, NEW o \in FifoDrain(d, h, gaps)
  PROVE  Up(o.data, o.hw)
<1> DEFINE read == GapsCounted(d, gaps)
<1>1. /\ read \in DataType /\ Sound(read, h) /\ Up(read, h)
  BY GapsCountedFields DEF Sound, Up, Flowing, Resting
<1> HIDE DEF read
<1>2. CASE o = Success(d, h)
  BY <1>2 DEF Success
<1>3. CASE o = Success(Pushed(read), h)
  <2>1. /\ Pushed(read).buffer_enabled = read.buffer_enabled
        /\ Pushed(read).fifo_running = read.fifo_running
        /\ Pushed(read).fifo_faulted = read.fifo_faulted
        /\ Pushed(read).fifo_hw_entries = read.fifo_hw_entries
        /\ Pushed(read).fifo_watermark = read.fifo_watermark
    BY <1>1 DEF Pushed, DataType
  <2>2. o.data = Pushed(read) /\ o.hw = h
    BY <1>3 DEF Success
  <2> QED BY <1>1, <2>1, <2>2 DEF Up, Flowing, Resting
<1>4. CASE "FIFO" \in h /\ o \in FifoRecover(read, h)
  BY <1>1, <1>4, RecoverWorks
<1> QED BY <1>2, <1>3, <1>4 DEF FifoDrain, read

(* A pm_runtime_resume_and_get that succeeds leaves the device up; no old   *)
(* runtime_error refuses it.                                                *)
LEMMA GetWorks ==
  ASSUME IInv, WorkingInv, NEW r \in ResumeAndGet, r.o.ok \/ ~BusFails
  PROVE  /\ r.o.ok /\ Up(r.o.data, r.o.hw)
         /\ r.o.data \in DataType /\ r.o.hw \in SUBSET Features
         /\ r.o.data.buffer_enabled = data.buffer_enabled
         /\ r.pm \in PmType /\ r.pm.status = "active"
         /\ r.pm.usage = pm.usage /\ ~r.pm.runtime_error
<1>1. /\ data \in DataType /\ hw \in SUBSET Features /\ Sound(data, hw)
      /\ pm \in PmType /\ ~pm.runtime_error
  BY Parts DEF WorkingInv
<1>2. CASE pm.status = "active"
  <2>1. r = [o |-> Success(data, hw), pm |-> pm]
    BY <1>1, <1>2 DEF ResumeAndGet
  <2>2. r.o = Success(data, hw) /\ r.pm = pm
    BY <2>1
  <2>3. r.o.ok /\ r.o.data = data /\ r.o.hw = hw
    BY <2>2 DEF Success
  <2> QED BY <1>1, <1>2, <2>2, <2>3 DEF WorkingInv
<1>3. CASE pm.status # "active"
  <2>1. PICK o \in RuntimeResume(data, hw) :
          r = [o |-> o,
               pm |-> IF o.ok THEN [pm EXCEPT !.status = "active"]
                              ELSE [pm EXCEPT !.runtime_error = TRUE]]
    BY <1>1, <1>3 DEF ResumeAndGet
  <2>2. Down(data, hw)
    BY <1>1, <1>3 DEF WorkingInv, PmType
  <2>3. o.ok /\ Up(o.data, o.hw)
    <3>1. o.ok
      BY <1>1, <2>1, ResumeHw
    <3> QED BY <1>1, <2>2, <3>1, ResumeWorks
  <2>4. r.o = o /\ r.pm = [pm EXCEPT !.status = "active"]
    BY <2>1, <2>3
  <2>5. /\ o.data \in DataType /\ o.hw \in SUBSET Features
        /\ o.data.buffer_enabled = data.buffer_enabled
    BY <1>1, ResumeHw DEF OutcomeType
  <2>6. /\ r.pm \in PmType /\ r.pm.status = "active"
        /\ r.pm.usage = pm.usage /\ ~r.pm.runtime_error
    BY <1>1, <2>4 DEF PmType
  <2> QED BY <2>3, <2>4, <2>5, <2>6
<1> QED BY <1>2, <1>3

(* probe leaves the sensor up and idle.                                     *)
LEMMA InitWorking == Init => WorkingInv
BY DEF Init, WorkingInv, Up, Resting

(* Every action of every party takes the sensor from one of the three       *)
(* conditions to the one that fits the new state of the device and buffer.  *)
LEMMA NextWorking ==
  ASSUME ~BusFails PROVE AnyBus /\ WorkingInv /\ [Next]_vars => WorkingInv'
<1> SUFFICES ASSUME AnyBus, WorkingInv, [Next]_vars PROVE WorkingInv'
  OBVIOUS
<1>0. /\ IInv /\ SessionInv /\ WorkingInv
      /\ data \in DataType /\ hw \in SUBSET Features
      /\ Sound(data, hw) /\ pm \in PmType
      /\ handler \in {"idle", "pending"}
  BY Parts DEF AnyBus, IInv, TypeOK
<1>1. CASE Preenable
  <2>1. PICK r \in ResumeAndGet :
          /\ data' = r.o.data /\ hw' = r.o.hw
          /\ pm' = [r.pm EXCEPT !.usage = IF r.o.ok THEN 1 ELSE 0]
    BY <1>1 DEF Preenable, Takes
  <2>2. /\ Up(data', hw')
        /\ pm' \in PmType /\ pm'.status = "active" /\ ~pm'.runtime_error
    BY <1>0, <2>1, GetWorks DEF PmType
  <2> QED BY <1>0, <1>1, <2>2 DEF Preenable, WorkingInv
<1>2. CASE Attach
  <2>1. PICK val \in Watermarks : data' = HwfifoSetWatermark(val)
    BY <1>2 DEF Attach
  <2>2. /\ data'.buffer_enabled = data.buffer_enabled
        /\ data'.fifo_running = data.fifo_running
        /\ data'.fifo_faulted = data.fifo_faulted
        /\ data.buffer_enabled => data' = data
    BY <1>0, <2>1 DEF HwfifoSetWatermark, DataType
  <2>3. pm.status = "active"
    BY <1>0, <1>2 DEF Attach, SessionInv
  <2>4. Up(data', hw)
    BY <1>0, <2>2, <2>3 DEF WorkingInv, Up, Flowing, Resting
  <2> QED BY <1>0, <1>2, <2>3, <2>4 DEF Attach, WorkingInv
<1>3. CASE Postenable
  <2>1. pm.status = "active" /\ ~data.buffer_enabled /\ Resting(data, hw)
    BY <1>0, <1>3 DEF Postenable, SessionInv, WorkingInv, Up
  <2>2. CASE UNCHANGED <<data, hw>>
    BY <1>0, <1>3, <2>1, <2>2 DEF Postenable, WorkingInv
  <2>3. ASSUME NEW o \in FifoStartHw(NewSession, hw),
               data' = [o.data EXCEPT !.buffer_enabled = o.ok], hw' = o.hw,
               iio' = IF o.ok THEN "on" ELSE "disabled"
        PROVE  WorkingInv'
    <3>1. /\ NewSession \in DataType /\ ~NewSession.fifo_running
          /\ ~NewSession.fifo_faulted
      BY <1>0, <2>1, NewSessionFields DEF Resting
    <3>2. /\ o.ok /\ o.data \in DataType /\ o.hw = hw \cup Pipeline
          /\ o.data.fifo_running /\ ~o.data.fifo_faulted
          /\ o.data.fifo_hw_entries = Entries(o.data.fifo_watermark)
      <4>1. o.ok
        BY <1>0, <2>3, <3>1, NewSessionFields, StartHw
      <4> QED BY <1>0, <2>3, <3>1, <4>1, StartWorks
    <3>3. hw' = Features
      BY <2>1, <2>3, <3>2 DEF Resting, Features
    <3>4. data' = [o.data EXCEPT !.buffer_enabled = TRUE]
      <4>1. o.ok = TRUE
        <5>1. o \in OutcomeType
          BY <1>0, <2>3, <3>1, NewSessionFields, StartHw DEF Sound
        <5> QED BY <3>2, <5>1 DEF OutcomeType
      <4> QED BY <2>3, <4>1
    <3>5. /\ data'.fifo_running /\ ~data'.fifo_faulted
          /\ data'.fifo_hw_entries = Entries(data'.fifo_watermark)
          /\ data'.buffer_enabled
      BY <3>2, <3>4 DEF DataType
    <3> QED BY <1>0, <1>3, <2>1, <2>3, <3>2, <3>3, <3>5
            DEF Postenable, WorkingInv, Up, Flowing
  <2> QED BY <1>3, <2>1, <2>2, <2>3 DEF Postenable
<1>4. CASE Predisable
  <2>1. /\ data.buffer_enabled /\ Flowing(data, hw) /\ pm.status = "active"
    <3>1. data.buffer_enabled /\ pm.usage = 1 /\ sleep = "awake"
      BY <1>0, <1>4 DEF Predisable, SessionInv
    <3>2. pm.status = "active"
      BY <1>0, <3>1 DEF WorkingInv, IInv, PmType
    <3> QED BY <1>0, <3>1, <3>2 DEF WorkingInv, Up
  <2>2. PICK o \in FifoStopHw(data, hw) :
          /\ data' = [NoTimeline(o.data) EXCEPT !.buffer_enabled = FALSE,
                                                !.fifo_faulted = FALSE]
          /\ hw' = o.hw
    BY <1>4, <2>1 DEF Predisable
  <2>3. o = Success([data EXCEPT !.fifo_running = FALSE], hw \ Pipeline)
    BY NoFailure DEF FifoStopHw
  <2>4. o.hw = hw \ Pipeline /\ o.data = [data EXCEPT !.fifo_running = FALSE]
    BY <2>3 DEF Success
  <2>5. hw' = Power
    BY <2>1, <2>2, <2>4 DEF Flowing, Features, Pipeline, Power
  <2>6. o.data \in DataType /\ ~o.data.fifo_running
    BY <1>0, <2>4, ZenonT(30) DEF DataType
  <2> DEFINE e == NoTimeline(o.data)
  <2>7. e \in DataType /\ ~e.fifo_running
    BY <2>6, NoTimelineFields
  <2> HIDE DEF e
  <2>8. data' = [e EXCEPT !.buffer_enabled = FALSE, !.fifo_faulted = FALSE]
    BY <2>2 DEF e
  <2>9. ~data'.buffer_enabled /\ ~data'.fifo_faulted /\ ~data'.fifo_running
    BY <2>7, <2>8 DEF DataType
  <2> QED BY <1>0, <1>4, <2>1, <2>5, <2>9 DEF Predisable, WorkingInv, Up, Resting
<1>5. CASE Detach
  BY <1>0, <1>5 DEF Detach, WorkingInv
<1>6. CASE Postdisable
  <2>1. /\ pm'.usage = 0 /\ pm'.status = pm.status
        /\ pm'.runtime_error = pm.runtime_error
    BY <1>0, <1>6 DEF Postdisable, PmType
  <2> QED BY <1>0, <1>6, <2>1 DEF Postdisable, WorkingInv
<1>7. CASE DirectAccess
  <2>1. PICK r \in ResumeAndGet :
          /\ hw' = r.o.hw /\ pm' = r.pm
          /\ \E match : data' = [r.o.data EXCEPT !.odrs_match = match]
    BY <1>7 DEF DirectAccess
  <2>2. /\ r.o.data \in DataType /\ Up(r.o.data, r.o.hw)
        /\ pm'.status = "active" /\ ~pm'.runtime_error
    BY <1>0, <2>1, GetWorks
  <2>3. /\ data'.buffer_enabled = r.o.data.buffer_enabled
        /\ data'.fifo_running = r.o.data.fifo_running
        /\ data'.fifo_faulted = r.o.data.fifo_faulted
        /\ data'.fifo_hw_entries = r.o.data.fifo_hw_entries
        /\ data'.fifo_watermark = r.o.data.fifo_watermark
    BY <2>1, <2>2 DEF DataType
  <2>4. Up(data', hw')
    BY <2>1, <2>2, <2>3 DEF Up, Flowing, Resting
  <2> QED BY <1>0, <1>7, <2>2, <2>4 DEF DirectAccess, WorkingInv
<1>8. CASE Edge
  <2>1. data.buffer_enabled /\ pm.status # "suspended"
    BY <1>0, <1>8 DEF Edge, WorkingInv, Up, Resting, Down, Power
  <2>2. iio = "on"
    BY <1>0, <2>1 DEF SessionInv
  <2> QED BY <1>0, <1>8, <2>1, <2>2 DEF Edge, Poll, WorkingInv
<1>9. CASE TriggerHandler
  <2>0. PICK gaps \in Nat : \E o \in FifoDrain(data, hw, gaps) :
         data' = o.data /\ hw' = o.hw
    BY <1>9 DEF TriggerHandler, Takes, Gaps
  <2>1. PICK o \in FifoDrain(data, hw, gaps) : data' = o.data /\ hw' = o.hw
    BY <2>0
  <2>2. pm.status # "suspended" /\ Up(data, hw)
    BY <1>0, <1>9 DEF TriggerHandler, WorkingInv
  <2>3. Up(data', hw')
    BY <1>0, <2>1, <2>2, DrainWorks
  <2> QED BY <1>0, <1>9, <2>2, <2>3 DEF TriggerHandler, WorkingInv
<1>10. CASE Autosuspend
  <2>1. /\ iio = "off" /\ handler = "idle" /\ pm.usage = 0 /\ Up(data, hw)
    BY <1>0, <1>10 DEF Autosuspend, SessionInv, WorkingInv, IInv, TypeOK
  <2>2. PICK o \in RuntimeSuspend(data, hw) :
          /\ data' = o.data /\ hw' = o.hw
          /\ o.ok => pm' = [pm EXCEPT !.status = "suspended"]
    BY <1>10 DEF Autosuspend, Takes
  <2>3. o.ok /\ Down(data', hw')
    BY <1>0, <2>1, <2>2, SuspendWorks
  <2>4. /\ pm'.status = "suspended" /\ pm'.usage = 0
        /\ pm'.runtime_error = pm.runtime_error
    BY <1>0, <2>1, <2>2, <2>3 DEF PmType
  <2> QED BY <1>0, <1>10, <2>1, <2>3, <2>4 DEF Autosuspend, WorkingInv
<1>11. CASE SuspendIrq
  BY <1>0, <1>11 DEF SuspendIrq, WorkingInv
<1>12. CASE ForceSuspend
  <2>1. handler = "idle"
    BY <1>0, <1>12 DEF ForceSuspend, Synchronized, SessionInv, WorkingInv
  <2>2. CASE pm.status = "suspended"
    <3>1. sleep' = "asleep" /\ UNCHANGED <<data, hw, handler, irq, pm, iio>>
      BY <1>12, <2>2 DEF ForceSuspend
    <3> QED BY <1>0, <2>2, <3>1 DEF WorkingInv
  <2>3. CASE pm.status # "suspended"
    <3>1. PICK o \in RuntimeSuspend(data, hw) :
            /\ data' = o.data /\ hw' = o.hw
            /\ o.ok => /\ pm' = [pm EXCEPT !.status = "suspended",
                                   !.needs_force_resume = (pm.usage = 1),
                                   !.runtime_error = (@ /\ pm.usage = 1)]
                       /\ UNCHANGED handler
      BY <1>12, <2>3 DEF ForceSuspend, Takes
    <3>2. o.ok /\ Down(data', hw')
      BY <1>0, <2>3, <3>1, SuspendWorks DEF WorkingInv
    <3>3. /\ pm'.status = "suspended" /\ pm'.usage = pm.usage
          /\ pm'.needs_force_resume = (pm.usage = 1)
          /\ ~pm'.runtime_error
      BY <1>0, <3>1, <3>2 DEF PmType, WorkingInv
    <3> QED BY <1>0, <1>12, <2>1, <3>1, <3>2, <3>3 DEF ForceSuspend, WorkingInv
  <2> QED BY <2>2, <2>3
<1>13. CASE Resume
  <2>1. Up(data', hw') /\ pm'.status = "active" /\ ~pm'.runtime_error
    <3>1. ASSUME pm.needs_force_resume,
                 NEW o \in RuntimeResume(data, hw), Takes(o),
                 pm' = [pm EXCEPT !.needs_force_resume = FALSE,
                           !.status = IF o.ok THEN "active" ELSE "suspended",
                           !.runtime_error = (@ /\ o.ok)]
          PROVE  Up(data', hw') /\ pm'.status = "active" /\ ~pm'.runtime_error
      <4>1. Down(data, hw)
        BY <1>0, <3>1 DEF IInv, WorkingInv
      <4>2. o.ok /\ Up(o.data, o.hw)
        BY <1>0, <4>1, ResumeHw, ResumeWorks
      <4>3. pm'.status = "active" /\ ~pm'.runtime_error
        BY <1>0, <3>1, <4>2 DEF PmType, WorkingInv
      <4> QED BY <3>1, <4>2, <4>3 DEF Takes
    <3>2. ASSUME NEW r \in ResumeAndGet, Takes(r.o), pm' = r.pm
          PROVE  Up(data', hw') /\ pm'.status = "active" /\ ~pm'.runtime_error
      BY <1>0, <3>2, GetWorks DEF Takes
    <3> QED BY <1>13, <3>1, <3>2 DEF Resume
  <2>2. iio \in {"off", "on"} /\ handler' \in {handler, Poll}
    BY <1>0, <1>13 DEF Resume, EnableIrq, SessionInv
  <2>3. handler' = "pending" => iio = "on"
    BY <1>0, <2>2 DEF Poll, Attached, WorkingInv
  <2> QED BY <1>0, <1>13, <2>1, <2>3 DEF Resume, WorkingInv
<1>14. CASE UNCHANGED vars
  BY <1>0, <1>14 DEF vars, WorkingInv
<1> QED
  BY <1>1, <1>2, <1>3, <1>4, <1>5, <1>6, <1>7, <1>8, <1>9, <1>10, <1>11,
     <1>12, <1>13, <1>14 DEF Next
-----------------------------------------------------------------------------
(* The stream of a sensor that lsm6dsox_remove has powered down: user space *)
(* still calls and the handler still runs, but nothing manages power.  Only *)
(* a FIFO that a late postenable has started can be on.                     *)
Dark(d, h) ==
  /\ d.fifo_running => d.buffer_enabled
  /\ h = IF d.fifo_running THEN Pipeline ELSE {}

Used == Preenable \/ Predisable \/ DirectAccess \/ BufferCall \/ TriggerHandler

(* While the device counts as active, pm_runtime_resume_and_get touches     *)
(* nothing.                                                                 *)
LEMMA GetNothing ==
  ASSUME pm.status = "active", NEW r \in ResumeAndGet
  PROVE  r.o.data = data /\ r.o.hw = hw /\ r.pm = pm
<1>1. \/ r = [o |-> Failure(data, hw), pm |-> pm]
      \/ r = [o |-> Success(data, hw), pm |-> pm]
  BY DEF ResumeAndGet
<1>2. r.o \in {Failure(data, hw), Success(data, hw)} /\ r.pm = pm
  BY <1>1
<1> QED BY <1>2 DEF Success, Failure

(* A user of the stream does not turn the device off.                       *)
LEMMA UsedAwake ==
  ASSUME IInv, Used
  PROVE  /\ sleep' = sleep
         /\ pm.status = "active" => pm'.status = "active"
<1>0. sleep' = sleep
  BY DEF Used, BufferCall, Preenable, Predisable, DirectAccess, Attach,
         Postenable, Detach, Postdisable, TriggerHandler
<1> SUFFICES ASSUME pm.status = "active" PROVE pm'.status = "active"
  BY <1>0
<1>1. pm \in PmType
  BY Parts
<1>2. CASE Preenable
  <2>1. PICK r \in ResumeAndGet :
          pm' = [r.pm EXCEPT !.usage = IF r.o.ok THEN 1 ELSE 0]
    BY <1>2 DEF Preenable
  <2>2. r.pm = pm
    BY <2>1, GetNothing
  <2> QED BY <1>1, <2>1, <2>2 DEF PmType
<1>3. CASE DirectAccess
  BY <1>3, GetNothing DEF DirectAccess
<1>4. CASE Predisable \/ Attach \/ Postenable \/ Detach \/ TriggerHandler
  BY <1>4 DEF Predisable, Attach, Postenable, Detach, TriggerHandler
<1>5. CASE Postdisable
  BY <1>1, <1>5 DEF Postdisable, PmType
<1> QED BY <1>2, <1>3, <1>4, <1>5 DEF Used, BufferCall

(* A recovery of a dark sensor leaves it dark.                              *)
LEMMA RecoverDark ==
  ASSUME ~BusFails, NEW d \in DataType, NEW h \in SUBSET Features, Sound(d, h),
         Dark(d, h), "FIFO" \in h, NEW o \in FifoRecover(d, h)
  PROVE  Dark(o.data, o.hw)
<1>1. d.buffer_enabled /\ h = Pipeline
  BY DEF Dark
<1>2. RecoverFailures(d, h) = {}
  BY NoFailure DEF RecoverFailures
<1>3. o = Success(Recovered(d), Pipeline)
  BY <1>1, <1>2 DEF FifoRecover
<1>4. o.hw = Pipeline
  BY <1>3 DEF Success
<1>5. o.data.buffer_enabled /\ o.data.fifo_running
  <2> DEFINE base == Programmed(Interrupted(d))
  <2>1. o.data = [base EXCEPT !.fifo_faulted = FALSE, !.fifo_running = TRUE]
    BY <1>3 DEF Success, Recovered
  <2>2. o.data \in DataType /\ o.data.buffer_enabled = d.buffer_enabled
    BY RecoverHw DEF OutcomeType
  <2>3. DOMAIN base = DOMAIN o.data /\ "fifo_running" \in DOMAIN o.data
    BY <2>1, <2>2 DEF DataType
  <2> HIDE DEF base
  <2>4. o.data.fifo_running
    BY <2>1, <2>3
  <2> QED BY <1>1, <2>2, <2>4
<1> QED BY <1>4, <1>5 DEF Dark

(* A drain of a dark sensor, also one that has to recover, leaves it dark.  *)
LEMMA DrainDark ==
  ASSUME ~BusFails, NEW d \in DataType, NEW h \in SUBSET Features, Sound(d, h),
         Dark(d, h), NEW gaps \in Nat, NEW o \in FifoDrain(d, h, gaps)
  PROVE  Dark(o.data, o.hw)
<1> DEFINE read == GapsCounted(d, gaps)
<1>1. /\ read \in DataType /\ Sound(read, h) /\ Dark(read, h)
  BY GapsCountedFields DEF Sound, Dark
<1> HIDE DEF read
<1>2. CASE o = Success(d, h)
  BY <1>2 DEF Success
<1>3. CASE o = Success(Pushed(read), h)
  <2>1. o.data = Pushed(read) /\ o.hw = h
    BY <1>3 DEF Success
  <2> QED BY <1>1, <2>1, PushedFields DEF Dark
<1>4. CASE "FIFO" \in h /\ o \in FifoRecover(read, h)
  BY <1>1, <1>4, RecoverDark
<1> QED BY <1>2, <1>3, <1>4 DEF FifoDrain, read

(* On a bus that works, whoever still uses the stream leaves it dark: a     *)
(* start switches the FIFO alone on, and the disable that must follow       *)
(* switches it off.                                                         *)
LEMMA UsedDark ==
  ASSUME ~BusFails, AnyBus, Dark(data, hw), pm.status = "active", Used
  PROVE  Dark(data', hw')
<1>0. /\ IInv /\ SessionInv /\ data \in DataType /\ hw \in SUBSET Features
      /\ Sound(data, hw)
  BY Parts DEF AnyBus
<1>1. CASE Preenable
  BY <1>1, GetNothing DEF Preenable, Takes
<1>2. CASE Predisable
  <2>1. data.buffer_enabled
    BY <1>0, <1>2 DEF Predisable, SessionInv
  <2>2. PICK o \in FifoStopHw(data, hw) :
          /\ data' = [NoTimeline(o.data) EXCEPT !.buffer_enabled = FALSE,
                                                !.fifo_faulted = FALSE]
          /\ hw' = o.hw
    BY <1>2, <2>1 DEF Predisable
  <2>3. o.data = [data EXCEPT !.fifo_running = FALSE] /\ o.hw = hw \ Pipeline
    <3>1. o = Success([data EXCEPT !.fifo_running = FALSE], hw \ Pipeline)
      BY NoFailure DEF FifoStopHw
    <3> QED BY <3>1 DEF Success
  <2>4. o.data \in DataType /\ ~o.data.fifo_running
    BY <1>0, <2>3, ZenonT(30) DEF DataType
  <2>5. NoTimeline(o.data) \in DataType /\ ~NoTimeline(o.data).fifo_running
    BY <2>4, NoTimelineFields
  <2>6. ~data'.fifo_running
    BY <2>2, <2>5 DEF DataType
  <2> QED BY <2>2, <2>3, <2>6 DEF Dark
<1>3. CASE DirectAccess
  <2>1. PICK r \in ResumeAndGet :
          /\ hw' = r.o.hw
          /\ \E match : data' = [r.o.data EXCEPT !.odrs_match = match]
    BY <1>3 DEF DirectAccess
  <2>2. r.o.data = data /\ r.o.hw = hw
    BY <2>1, GetNothing
  <2>3. /\ data'.fifo_running = data.fifo_running
        /\ data'.buffer_enabled = data.buffer_enabled
    BY <1>0, <2>1, <2>2 DEF DataType
  <2> QED BY <2>1, <2>2, <2>3 DEF Dark
<1>4. CASE Attach
  <2>1. PICK val \in Watermarks : data' = HwfifoSetWatermark(val)
    BY <1>4 DEF Attach
  <2>2. /\ data'.fifo_running = data.fifo_running
        /\ data'.buffer_enabled = data.buffer_enabled
    BY <1>0, <2>1 DEF HwfifoSetWatermark, DataType
  <2> QED BY <1>4, <2>2 DEF Attach, Dark
<1>5. CASE Postenable
  <2>1. ~data.buffer_enabled /\ ~data.fifo_running /\ hw = {}
    BY <1>0, <1>5 DEF Postenable, SessionInv, Dark
  <2>2. CASE UNCHANGED <<data, hw>>
    BY <2>2
  <2>3. ASSUME NEW o \in FifoStartHw(NewSession, hw),
               data' = [o.data EXCEPT !.buffer_enabled = o.ok], hw' = o.hw
        PROVE  Dark(data', hw')
    <3>1. NewSession \in DataType /\ ~NewSession.fifo_running
      BY <1>0, <2>1, NewSessionFields
    <3>2. o.ok /\ o \in OutcomeType
      BY <1>0, <2>3, <3>1, NewSessionFields, StartHw
    <3>3. o.hw = Pipeline /\ o.data \in DataType /\ o.data.fifo_running
      <4>1. /\ o.data \in DataType /\ o.hw = hw \cup Pipeline
            /\ o.data.fifo_running
        BY <1>0, <2>3, <3>1, <3>2, StartWorks
      <4>2. hw \cup Pipeline = Pipeline
        BY <2>1
      <4> QED BY <4>1, <4>2
    <3>4. data'.fifo_running /\ data'.buffer_enabled
      BY <2>3, <3>2, <3>3 DEF DataType
    <3> QED BY <2>3, <3>3, <3>4 DEF Dark
  <2> QED BY <1>5, <2>1, <2>2, <2>3 DEF Postenable
<1>6. CASE Detach \/ Postdisable
  BY <1>6 DEF Detach, Postdisable
<1>7. CASE TriggerHandler
  BY <1>0, <1>7, DrainDark DEF TriggerHandler, Takes, Gaps
<1> QED
  BY <1>1, <1>2, <1>3, <1>4, <1>5, <1>6, <1>7 DEF Used, BufferCall

(* A woken handler has a buffer call to answer to: only an attached poll    *)
(* function is woken, and postdisable waits for the handler.                *)
Answers == handler = "pending" => iio # "off"

LEMMA NextAnswers == Answers /\ [Next]_vars => Answers'
BY DEF Answers, Next, vars, Preenable, Attach, Postenable, Predisable, Detach,
       Postdisable, DirectAccess, Edge, TriggerHandler, Autosuspend, SuspendIrq,
       ForceSuspend, Resume, EnableIrq, Poll, Attached
-----------------------------------------------------------------------------
(* The invariants promise a live stream, a quiet sensor and no late drain.  *)
LEMMA WorkingPromises ==
  AnyBus /\ WorkingInv => StreamAlive /\ QuietWhenDown /\ NoDrainWhileDown
<1> SUFFICES ASSUME AnyBus, WorkingInv
             PROVE  StreamAlive /\ QuietWhenDown /\ NoDrainWhileDown
  OBVIOUS
<1>1. IInv /\ SessionInv /\ pm.status \in {"active", "suspended"}
  BY Parts DEF AnyBus
<1>2. ASSUME Streaming PROVE Flowing(data, hw) /\ pm.status = "active"
  <2>1. pm.usage = 1 /\ sleep # "asleep" /\ data.buffer_enabled
    BY <1>1, <1>2 DEF SessionInv, Streaming
  <2>2. pm.status = "active"
    BY <1>1, <2>1 DEF WorkingInv, IInv
  <2> QED BY <2>1, <2>2 DEF WorkingInv, Up
<1>3. StreamAlive
  BY <1>2 DEF StreamAlive, Flowing
<1>4. QuietWhenDown /\ NoDrainWhileDown
  BY <1>1 DEF WorkingInv, QuietWhenDown, NoDrainWhileDown, Down
<1> QED BY <1>3, <1>4

(* The invariants hold in every reachable state.                            *)
LEMMA Sessions == Spec => []AnyBus
<1>1. Init => AnyBus
  BY InitInv, InitSession DEF AnyBus
<1>2. AnyBus /\ [Next]_vars => AnyBus'
  BY NextInv, NextSession DEF AnyBus
<1> QED BY <1>1, <1>2, PTL DEF Spec

LEMMA Working == ASSUME ~BusFails PROVE Spec => [](AnyBus /\ WorkingInv)
<1>1. Init => WorkingInv
  BY InitWorking
<1>2. AnyBus /\ WorkingInv /\ [Next]_vars => WorkingInv'
  BY NextWorking
<1> QED BY <1>1, <1>2, Sessions, PTL DEF Spec

(* On a bus that works, an enabled buffer that is not asleep is a stream    *)
(* with the threshold of its watermark, whatever enables, disables,         *)
(* recoveries, autosuspends and system sleeps came before.                  *)
THEOREM StreamCorrect == ASSUME ~BusFails PROVE Spec => []StreamAlive
BY WorkingPromises, Working, PTL

(* On a bus that works, runtime and system suspend leave nothing on.        *)
THEOREM QuietCorrect == ASSUME ~BusFails PROVE Spec => []QuietWhenDown
BY WorkingPromises, Working, PTL

(* On a bus that works, no woken handler is left to drain a suspended       *)
(* device.                                                                  *)
THEOREM NoLateDrain == ASSUME ~BusFails PROVE Spec => []NoDrainWhileDown
BY WorkingPromises, Working, PTL
-----------------------------------------------------------------------------
(* The step simulation between FifoLifecycle and StreamSpec: which step a   *)
(* reader sees, said in terms of the driver's fields.                       *)
(* The types the steps of a reader are read off from.                       *)
Typed == data \in DataType /\ pm \in PmType

(* A step the reader does not see.                                          *)
LEMMA SeesNothing ==
  ASSUME Typed, Typed',
         data'.buffer_enabled = data.buffer_enabled,
         pm'.status = pm.status,
         data.buffer_enabled =>
           /\ data'.timestamp_valid = data.timestamp_valid
           /\ data'.fifo_faulted = data.fifo_faulted
           /\ data'.fifo_discontinuity_count = data.fifo_discontinuity_count
  PROVE  UNCHANGED Stream!vars
BY DEF Stream!vars, Open

(* postenable opens a session.                                              *)
LEMMA SeesOpen ==
  ASSUME Typed, Typed',
         ~data.buffer_enabled, data'.buffer_enabled,
         pm.status = "active", pm' = pm,
         ~data'.timestamp_valid, ~data'.fifo_faulted,
         data'.fifo_discontinuity_count = 0
  PROVE  Stream!Open
BY DEF Stream!Open, Stream!Nothing, Open

(* predisable closes it.                                                    *)
LEMMA SeesClose ==
  ASSUME Typed, Typed',
         data.buffer_enabled, ~data'.buffer_enabled, pm' = pm
  PROVE  Stream!Close
BY DEF Stream!Close, Stream!Nothing, Open

(* A drain delivers samples.                                                *)
LEMMA SeesDeliver ==
  ASSUME Typed, Typed',
         data.buffer_enabled, data'.buffer_enabled, pm' = pm,
         pm.status = "active" \/ BusFails,
         data'.timestamp_valid,
         data'.fifo_faulted = data.fifo_faulted,
         data'.fifo_discontinuity_count >= data.fifo_discontinuity_count
  PROVE  Stream!Deliver
BY DEF Stream!Deliver, Open, Typed, DataType

(* A recovery loses some, and counts.                                       *)
LEMMA SeesInterrupt ==
  ASSUME Typed, Typed',
         data.buffer_enabled, data'.buffer_enabled, pm' = pm,
         pm.status = "active" \/ BusFails,
         ~data'.timestamp_valid,
         data'.fifo_faulted => BusFails,
         data'.fifo_discontinuity_count > data.fifo_discontinuity_count
  PROVE  Stream!Interrupt
BY BusAssumption DEF Stream!Interrupt, Open, Typed, DataType

(* A suspend, or the attempt, counts in a session.                          *)
LEMMA SeesPowerDown ==
  ASSUME Typed, Typed',
         data'.buffer_enabled = data.buffer_enabled,
         pm.status = "active",
         pm'.status = "suspended" \/ BusFails,
         ~data'.timestamp_valid,
         data'.fifo_faulted = data.fifo_faulted,
         data.buffer_enabled =>
           data'.fifo_discontinuity_count = data.fifo_discontinuity_count + 1
  PROVE  Stream!PowerDown
BY DEF Stream!PowerDown, Open, Typed, DataType, PmType

(* A resume, or the attempt, reports the fault it ends with.                *)
LEMMA SeesPowerUp ==
  ASSUME Typed, Typed', NEW ok \in BOOLEAN,
         pm.status = "suspended",
         pm'.status = (IF ok THEN "active" ELSE "suspended"),
         Awoken(ok, data, data')
  PROVE  Stream!PowerUp
BY DEF Stream!PowerUp, Open, Typed, DataType, PmType, Awoken

(* Every step of the life cycle is one a reader of StreamSpec expects, or   *)
(* one that it does not see.                                                *)
LEMMA StepSeen ==
  ASSUME AnyBus, AnyBus', ~BusFails => WorkingInv, [Next]_vars
  PROVE  [Stream!Next]_(Stream!vars)
<1> USE DEF Stream!Next
<1>0. /\ IInv /\ SessionInv /\ SessionInv'
      /\ data \in DataType /\ hw \in SUBSET Features
      /\ Sound(data, hw) /\ pm \in PmType
      /\ Typed /\ Typed'
  BY DEF AnyBus, IInv, TypeOK, Typed
<1>1. CASE Preenable
  <2>1. PICK r \in ResumeAndGet :
          /\ data' = r.o.data
          /\ pm' = [r.pm EXCEPT !.usage = IF r.o.ok THEN 1 ELSE 0]
    BY <1>1 DEF Preenable, Takes
  <2>2. /\ r.pm \in PmType /\ r.o \in OutcomeType
        /\ r.o.ok => r.pm.status = "active"
        /\ \/ r.o.data = data /\ r.pm = pm
           \/ /\ pm.status = "suspended" /\ Awoken(r.o.ok, data, r.o.data)
              /\ ~r.o.ok => r.pm.status = "suspended"
    BY <1>0, ResumedOrNot
  <2>3. pm'.status = r.pm.status
    BY <2>1, <2>2 DEF PmType
  <2>4. CASE r.o.data = data /\ r.pm = pm
    BY <1>0, <2>1, <2>3, <2>4, SeesNothing
  <2>5. CASE /\ pm.status = "suspended" /\ Awoken(r.o.ok, data, r.o.data)
             /\ ~r.o.ok => r.pm.status = "suspended"
    <3>1. r.o.ok \in BOOLEAN
      BY <2>2 DEF OutcomeType
    <3> QED BY <1>0, <2>1, <2>2, <2>3, <2>5, <3>1, SeesPowerUp
  <2> QED BY <2>2, <2>4, <2>5
<1>2. CASE Attach
  <2>1. PICK val \in Watermarks : data' = HwfifoSetWatermark(val)
    BY <1>2 DEF Attach
  <2>2. /\ data'.buffer_enabled = data.buffer_enabled
        /\ data'.timestamp_valid = data.timestamp_valid
        /\ data'.fifo_faulted = data.fifo_faulted
        /\ data'.fifo_discontinuity_count = data.fifo_discontinuity_count
    BY <1>0, <2>1 DEF HwfifoSetWatermark, DataType
  <2> QED BY <1>0, <1>2, <2>2, SeesNothing DEF Attach
<1>3. CASE Postenable
  <2>1. pm' = pm /\ pm.status = "active" /\ ~data.buffer_enabled
    BY <1>0, <1>3 DEF Postenable, SessionInv
  <2>2. CASE UNCHANGED <<data, hw>>
    BY <1>0, <2>1, <2>2, SeesNothing
  <2>3. ASSUME NEW o \in FifoStartHw(NewSession, hw),
               data' = [o.data EXCEPT !.buffer_enabled = o.ok]
        PROVE  Stream!Open \/ UNCHANGED Stream!vars
    <3>1. /\ NewSession \in DataType
          /\ ~NewSession.timestamp_valid /\ ~NewSession.hw_timestamp_valid
          /\ ~NewSession.fifo_faulted
          /\ NewSession.fifo_discontinuity_count = 0
          /\ NewSession.fifo_running = data.fifo_running
      BY <1>0, NewSessionFields
    <3>2. /\ o \in OutcomeType /\ ~o.data.timestamp_valid
          /\ o.data.fifo_faulted = NewSession.fifo_faulted
          /\ o.data.fifo_discontinuity_count = NewSession.fifo_discontinuity_count
      BY <1>0, <2>3, <3>1, StartHw DEF Sound
    <3>3. /\ ~data'.timestamp_valid /\ ~data'.fifo_faulted
          /\ data'.fifo_discontinuity_count = 0
      BY <2>3, <3>1, <3>2 DEF OutcomeType, DataType
    <3>4. CASE data'.buffer_enabled
      BY <1>0, <2>1, <3>3, <3>4, SeesOpen
    <3>5. CASE ~data'.buffer_enabled
      BY <1>0, <2>1, <3>5, SeesNothing DEF Typed, DataType
    <3> QED BY <3>4, <3>5
  <2> QED BY <1>3, <2>1, <2>2, <2>3 DEF Postenable
<1>4. CASE Predisable
  <2>1. data.buffer_enabled /\ pm' = pm /\ iio' = "disabled"
    BY <1>0, <1>4 DEF Predisable, SessionInv
  <2>2. ~data'.buffer_enabled
    BY <1>0, <2>1 DEF SessionInv
  <2> QED BY <1>0, <2>1, <2>2, SeesClose
<1>5. CASE Detach \/ Edge \/ SuspendIrq \/ UNCHANGED vars
  <2>1. data' = data /\ pm' = pm
    BY <1>5 DEF Detach, Edge, SuspendIrq, vars
  <2> QED BY <1>0, <2>1, SeesNothing
<1>6. CASE Postdisable
  <2>1. data' = data /\ pm'.status = pm.status
    BY <1>0, <1>6 DEF Postdisable, PmType
  <2> QED BY <1>0, <2>1, SeesNothing
<1>7. CASE DirectAccess
  <2>1. PICK r \in ResumeAndGet :
          /\ pm' = r.pm
          /\ \E match : data' = [r.o.data EXCEPT !.odrs_match = match]
    BY <1>7 DEF DirectAccess
  <2>2. /\ r.o \in OutcomeType
        /\ r.o.ok => r.pm.status = "active"
        /\ \/ r.o.data = data /\ r.pm = pm
           \/ /\ pm.status = "suspended" /\ Awoken(r.o.ok, data, r.o.data)
              /\ ~r.o.ok => r.pm.status = "suspended"
    BY <1>0, ResumedOrNot
  <2>3. r.o.data \in DataType /\ r.o.ok \in BOOLEAN
    BY <2>2 DEF OutcomeType
  <2>4. /\ data'.buffer_enabled = r.o.data.buffer_enabled
        /\ data'.timestamp_valid = r.o.data.timestamp_valid
        /\ data'.fifo_faulted = r.o.data.fifo_faulted
        /\ data'.fifo_discontinuity_count = r.o.data.fifo_discontinuity_count
    BY <2>1, <2>3 DEF DataType
  <2>5. CASE r.o.data = data /\ r.pm = pm
    BY <1>0, <2>1, <2>4, <2>5, SeesNothing
  <2>6. CASE /\ pm.status = "suspended" /\ Awoken(r.o.ok, data, r.o.data)
             /\ ~r.o.ok => r.pm.status = "suspended"
    <3>1. Awoken(r.o.ok, data, data')
      BY <2>4, <2>6 DEF Awoken
    <3> QED BY <1>0, <2>1, <2>2, <2>3, <2>6, <3>1, SeesPowerUp
  <2> QED BY <2>2, <2>5, <2>6
<1>8. CASE TriggerHandler
  <2>0. PICK gaps \in Nat : \E o \in FifoDrain(data, hw, gaps) :
         data' = o.data /\ pm' = pm
    BY <1>8 DEF TriggerHandler, Takes, Gaps
  <2>1. PICK o \in FifoDrain(data, hw, gaps) : data' = o.data /\ pm' = pm
    BY <2>0
  <2>2. data'.buffer_enabled = data.buffer_enabled
    BY <1>0, <2>1, DrainHw
  <2>3. CASE ~data.buffer_enabled
    BY <1>0, <2>1, <2>2, <2>3, SeesNothing
  <2>4. CASE data.buffer_enabled
    <3>1. pm.status = "active" \/ BusFails
      BY <1>0, <1>8 DEF TriggerHandler, WorkingInv, PmType
    <3>2. CASE o = Success(data, hw)
      <4>1. data' = data
        BY <2>1, <3>2 DEF Success
      <4> QED BY <1>0, <2>1, <4>1, SeesNothing
    <3> DEFINE read == GapsCounted(data, gaps)
    <3>0. /\ read \in DataType
          /\ read.timestamp_valid = data.timestamp_valid
          /\ read.hw_timestamp_valid = data.hw_timestamp_valid
          /\ read.buffer_enabled = data.buffer_enabled
          /\ read.fifo_running = data.fifo_running
          /\ read.fifo_faulted = data.fifo_faulted
          /\ read.fifo_discontinuity_count = data.fifo_discontinuity_count + gaps
      BY <1>0, GapsCountedFields
    <3> HIDE DEF read
    <3>3. /\ Sound(read, hw)
          /\ data.fifo_discontinuity_count \in Nat
          /\ read.fifo_discontinuity_count \in Nat
          /\ read.fifo_discontinuity_count >= data.fifo_discontinuity_count
      <4>1. Sound(read, hw)
        BY <1>0, <3>0 DEF Sound
      <4>2. /\ data.fifo_discontinuity_count \in Nat
            /\ read.fifo_discontinuity_count \in Nat
        BY <1>0, <3>0 DEF DataType
      <4> QED BY <3>0, <4>1, <4>2
    <3>4. CASE o = Success(Pushed(read), hw)
      <4>1. data' = Pushed(read)
        BY <2>1, <3>4 DEF Success
      <4>2. /\ data'.timestamp_valid /\ data'.fifo_faulted = read.fifo_faulted
            /\ data'.fifo_discontinuity_count = read.fifo_discontinuity_count
        BY <3>0, <4>1, PushedFields
      <4> QED BY <1>0, <2>1, <2>2, <2>4, <3>0, <3>1, <3>3, <4>2, SeesDeliver
    <3>5. CASE o \in FifoRecover(data, hw) \cup FifoRecover(read, hw)
      <4>1. /\ ~data'.timestamp_valid
            /\ data'.fifo_faulted => BusFails
            /\ \/ data'.fifo_discontinuity_count
                    = data.fifo_discontinuity_count + 1
               \/ data'.fifo_discontinuity_count
                    = read.fifo_discontinuity_count + 1
        BY <1>0, <2>1, <3>0, <3>3, <3>5, RecoverHw
      <4>2. /\ data'.fifo_discontinuity_count \in Nat
            /\ data'.fifo_discontinuity_count > data.fifo_discontinuity_count
        BY <3>3, <4>1
      <4> QED BY <1>0, <2>1, <2>2, <2>4, <3>1, <4>1, <4>2, SeesInterrupt
    <3> QED BY <2>1, <3>2, <3>4, <3>5 DEF FifoDrain, read
  <2> QED BY <2>3, <2>4
<1>9. CASE Autosuspend \/ ForceSuspend
  <2>1. CASE pm.status = "suspended" /\ UNCHANGED <<data, pm>>
    BY <1>0, <2>1, SeesNothing
  <2>2. ASSUME pm.status = "active", NEW o \in RuntimeSuspend(data, hw),
               data' = o.data, o.ok => pm'.status = "suspended"
        PROVE  Stream!PowerDown
    <3>1. /\ data'.buffer_enabled = data.buffer_enabled
          /\ data'.fifo_faulted = data.fifo_faulted
          /\ ~data'.timestamp_valid
          /\ data.buffer_enabled =>
               data'.fifo_discontinuity_count = data.fifo_discontinuity_count + 1
          /\ ~o.ok => BusFails
      BY <1>0, <2>2, SuspendHw
    <3> QED BY <1>0, <2>2, <3>1, SeesPowerDown
  <2>3. CASE Autosuspend
    <3>1. PICK o \in RuntimeSuspend(data, hw) :
            data' = o.data /\ (o.ok => pm' = [pm EXCEPT !.status = "suspended"])
      BY <2>3 DEF Autosuspend, Takes
    <3>2. o.ok => pm'.status = "suspended"
      BY <1>0, <3>1 DEF PmType
    <3> QED BY <2>2, <2>3, <3>1, <3>2 DEF Autosuspend
  <2>4. CASE ForceSuspend /\ pm.status = "active"
    <3>1. PICK o \in RuntimeSuspend(data, hw) :
            /\ data' = o.data
            /\ o.ok => pm' = [pm EXCEPT !.status = "suspended",
                                !.needs_force_resume = (pm.usage = 1),
                                !.runtime_error = (@ /\ pm.usage = 1)]
      BY <2>4 DEF ForceSuspend, Takes
    <3>2. o.ok => pm'.status = "suspended"
      BY <1>0, <3>1 DEF PmType
    <3> QED BY <2>2, <2>4, <3>1, <3>2
  <2> QED BY <1>9, <2>1, <2>3, <2>4 DEF ForceSuspend
<1>10. CASE Resume
  <2>1. ASSUME pm.needs_force_resume,
               NEW o \in RuntimeResume(data, hw), Takes(o),
               pm' = [pm EXCEPT !.needs_force_resume = FALSE,
                         !.status = IF o.ok THEN "active" ELSE "suspended",
                         !.runtime_error = (@ /\ o.ok)]
        PROVE  Stream!PowerUp
    <3>1. o.ok \in BOOLEAN /\ Awoken(o.ok, data, data')
      BY <1>0, <2>1, ResumeHw DEF Takes, Awoken, OutcomeType
    <3>2. pm'.status = (IF o.ok THEN "active" ELSE "suspended")
      BY <1>0, <2>1 DEF PmType
    <3>3. pm.status = "suspended"
      BY <1>0, <2>1 DEF IInv
    <3> QED BY <1>0, <3>1, <3>2, <3>3, SeesPowerUp
  <2>2. ASSUME NEW r \in ResumeAndGet, Takes(r.o), pm' = r.pm
        PROVE  Stream!PowerUp \/ UNCHANGED Stream!vars
    <3>1. /\ r.o \in OutcomeType /\ data' = r.o.data
          /\ r.o.ok => r.pm.status = "active"
          /\ \/ r.o.data = data /\ r.pm = pm
             \/ /\ pm.status = "suspended" /\ Awoken(r.o.ok, data, r.o.data)
                /\ ~r.o.ok => r.pm.status = "suspended"
      BY <1>0, <2>2, ResumedOrNot DEF Takes
    <3>2. CASE r.o.data = data /\ r.pm = pm
      BY <1>0, <2>2, <3>1, <3>2, SeesNothing
    <3>3. CASE /\ pm.status = "suspended" /\ Awoken(r.o.ok, data, r.o.data)
               /\ ~r.o.ok => r.pm.status = "suspended"
      <4>1. r.o.ok \in BOOLEAN
        BY <3>1 DEF OutcomeType
      <4> QED BY <1>0, <2>2, <3>1, <3>3, <4>1, SeesPowerUp
    <3> QED BY <3>1, <3>2, <3>3
  <2> QED BY <1>10, <2>1, <2>2 DEF Resume
<1> QED
  BY <1>1, <1>2, <1>3, <1>4, <1>5, <1>6, <1>7, <1>8, <1>9, <1>10 DEF Next

(* The life cycle of the driver implements the promise to its readers, with *)
(* a bus that fails and with one that works.                                *)
THEOREM PromiseKept == Spec => KeepsThePromise
<1>1. Init => Stream!Init
  BY DEF Init, Stream!Init, Open
<1>2. CASE BusFails
  <2>1. AnyBus /\ AnyBus' /\ [Next]_vars => [Stream!Next]_(Stream!vars)
    BY <1>2, StepSeen
  <2> QED BY <1>1, <2>1, Sessions, PTL DEF Spec, KeepsThePromise, Stream!Spec
<1>3. CASE ~BusFails
  <2>1. AnyBus /\ WorkingInv /\ AnyBus' /\ [Next]_vars
          => [Stream!Next]_(Stream!vars)
    BY StepSeen
  <2>2. Spec => [](AnyBus /\ WorkingInv)
    BY <1>3, Working
  <2> QED BY <1>1, <2>1, <2>2, PTL DEF Spec, KeepsThePromise, Stream!Spec
<1> QED BY <1>2, <1>3
=============================================================================
