------------------------ MODULE DeviceBindingProofs ------------------------
(***************************************************************************)
(* Probe and remove around the stream: what holds of the life cycle while  *)
(* the device is bound, and what remove leaves behind, also when user      *)
(* space is in the middle of a stream.                                     *)
(***************************************************************************)
EXTENDS DeviceBinding, FifoStreamProofs

(* The life cycle on a bus that works, with the lemmas about it.            *)
W == INSTANCE FifoStreamProofs WITH BusFails <- FALSE

BindingTypeOK ==
  /\ stage \in {"gone", "configured", "registered", "enabled", "bound",
                "removing", "down", "unlisted"}
  /\ held \in {0, 1} /\ calm \in BOOLEAN

(* On any bus there is no buffer call, no woken handler and no reference    *)
(* before user space can see the device, and no system sleep but on a bound *)
(* one.                                                                     *)
StageInv ==
  /\ held = 1 <=> stage \in {"enabled", "removing"}
  /\ stage \in {"gone", "configured", "registered"} => iio = "off"
  /\ stage \in {"configured", "registered"} => hw = Power /\ data = Fresh
  /\ stage # "bound" => sleep = "awake"

(* With no transfer failed: the stream works while the driver is bound; from *)
(* power-down on the sensor is dark, and off when the driver is gone.       *)
CalmInv ==
  /\ stage \in {"enabled", "bound", "removing"} => WorkingInv
  /\ stage \in {"enabled", "removing", "down", "unlisted"} =>
       pm.status = "active"
  /\ stage \in {"down", "unlisted"} => Dark(data, hw)
  /\ stage = "gone" => hw = {}

BInv ==
  /\ AnyBus /\ Answers
  /\ BindingTypeOK /\ StageInv
  /\ calm => CalmInv
-----------------------------------------------------------------------------
(* The two instances of the life cycle agree: the steps of a working bus in *)
(* DeviceBinding are those the lemmas are about, and the invariants do not  *)
(* depend on the bus.                                                       *)
LEMMA SmoothSteps ==
  /\ Smooth!Preenable <=> W!Preenable
  /\ Smooth!Predisable <=> W!Predisable
  /\ Smooth!DirectAccess <=> W!DirectAccess
  /\ Smooth!BufferCall <=> W!BufferCall
  /\ Smooth!TriggerHandler <=> W!TriggerHandler
  /\ Smooth!Autosuspend <=> W!Autosuspend
  /\ Smooth!SuspendIrq <=> W!SuspendIrq
  /\ Smooth!ForceSuspend <=> W!ForceSuspend
  /\ Smooth!Resume <=> W!Resume
BY DEF Smooth!Preenable, W!Preenable, Smooth!Predisable, W!Predisable,
       Smooth!DirectAccess, W!DirectAccess, Smooth!BufferCall, W!BufferCall,
       Smooth!TriggerHandler, W!TriggerHandler, Smooth!Autosuspend,
       W!Autosuspend, Smooth!SuspendIrq, W!SuspendIrq, Smooth!ForceSuspend,
       W!ForceSuspend, Smooth!Resume, W!Resume, Smooth!Attach, W!Attach,
       Smooth!HwfifoSetWatermark, W!HwfifoSetWatermark, Smooth!NewSession,
       W!NewSession, Smooth!Postenable, W!Postenable, Smooth!Detach,
       W!Detach, Smooth!Postdisable, W!Postdisable, Smooth!Attached,
       W!Attached, Smooth!Poll, W!Poll, Smooth!EnableIrq, W!EnableIrq,
       Smooth!Synchronized, W!Synchronized, Smooth!Takes, W!Takes,
       Smooth!ResumeAndGet, W!ResumeAndGet, Smooth!Success, W!Success,
       Smooth!Failure, W!Failure, Smooth!Partial, W!Partial, Smooth!Undo,
       W!Undo, Smooth!Fail, W!Fail, Smooth!NoTimeline, W!NoTimeline,
       Smooth!Programmed, W!Programmed, Smooth!Discontinuity,
       W!Discontinuity, Smooth!StartFailures, W!StartFailures,
       Smooth!Started, W!Started, Smooth!FifoStartHw, W!FifoStartHw,
       Smooth!FifoStopHw, W!FifoStopHw, Smooth!Interrupted, W!Interrupted,
       Smooth!RecoverFailures, W!RecoverFailures, Smooth!Recovered,
       W!Recovered, Smooth!FifoRecover, W!FifoRecover, Smooth!Pushed,
       W!Pushed, Smooth!FifoDrain, W!FifoDrain, Smooth!GapsCounted,
       W!GapsCounted, Smooth!Gaps, W!Gaps, Smooth!RestoreSensorConfig,
       W!RestoreSensorConfig, Smooth!PowerDown, W!PowerDown,
       Smooth!RuntimeSuspend, W!RuntimeSuspend, Smooth!RuntimeResume,
       W!RuntimeResume, Smooth!Pipeline, W!Pipeline, Smooth!Power, W!Power,
       Smooth!Features, W!Features, Smooth!Batching, W!Batching,
       Smooth!MaxScans, W!MaxScans, Smooth!EntriesPerScan, W!EntriesPerScan,
       Smooth!Clamp, W!Clamp, Smooth!Entries, W!Entries

LEMMA SmoothEdge == Edge <=> W!Edge
BY DEF Edge, W!Edge, Poll, W!Poll, Attached, W!Attached

LEMMA SameInvariants ==
  /\ W!AnyBus <=> AnyBus
  /\ W!WorkingInv <=> WorkingInv
  /\ W!Answers <=> Answers
  /\ \A d, h : W!Dark(d, h) <=> Dark(d, h)
BY DEF AnyBus, W!AnyBus, IInv, W!IInv, SessionInv, W!SessionInv, WorkingInv,
       W!WorkingInv, Answers, W!Answers, Dark, W!Dark, TypeOK, W!TypeOK,
       DataType, W!DataType, IrqType, W!IrqType, PmType, W!PmType, Sound,
       W!Sound, Flowing, W!Flowing, Resting, W!Resting, Down, W!Down, Up,
       W!Up, Pipeline, W!Pipeline, Power, W!Power, Features, W!Features,
       Batching, W!Batching, MaxScans, W!MaxScans, EntriesPerScan,
       W!EntriesPerScan, Clamp, W!Clamp, Entries, W!Entries

LEMMA SameInvariantsNext ==
  /\ W!AnyBus' <=> AnyBus'
  /\ W!WorkingInv' <=> WorkingInv'
  /\ W!Answers' <=> Answers'
BY DEF AnyBus, W!AnyBus, IInv, W!IInv, SessionInv, W!SessionInv, WorkingInv,
       W!WorkingInv, Answers, W!Answers, Dark, W!Dark, TypeOK, W!TypeOK,
       DataType, W!DataType, IrqType, W!IrqType, PmType, W!PmType, Sound,
       W!Sound, Flowing, W!Flowing, Resting, W!Resting, Down, W!Down, Up,
       W!Up, Pipeline, W!Pipeline, Power, W!Power, Features, W!Features,
       Batching, W!Batching, MaxScans, W!MaxScans, EntriesPerScan,
       W!EntriesPerScan, Clamp, W!Clamp, Entries, W!Entries
-----------------------------------------------------------------------------
StreamNext ==
  UserCall \/ Unregister \/ CallGoesOn \/ Handles \/ Rises \/ ManagesPower

(* What a step of the stream is to the binding: one of a working bus, which *)
(* keeps it calm, or any other; on a device that is not bound, nobody but   *)
(* its users takes one.                                                     *)
Steps ==
  /\ stage' = stage /\ held' = held
  /\ \/ calm' = calm /\ W!Next
     \/ calm' = FALSE /\ Next
  /\ stage # "bound" =>
       /\ sleep' = sleep
       /\ calm' => \/ W!Used
                   \/ UNCHANGED <<data, hw, pm>>

LEMMA UsersStep ==
  ASSUME IInv, W!IInv, NEW A, NEW B,
         A => W!Used, B => Used, Goes(A, B)
  PROVE  Steps
<1>1. W!Used => W!Next
  BY DEF W!Used, W!BufferCall, W!Next
<1>2. Used => Next
  BY DEF Used, BufferCall, Next
<1>3. W!Used => sleep' = sleep
  BY W!UsedAwake, LifecycleAssumption
<1>4. Used => sleep' = sleep
  BY UsedAwake
<1> QED BY <1>1, <1>2, <1>3, <1>4 DEF Goes, Steps

LEMMA StreamSteps == IInv /\ W!IInv /\ StreamNext => Steps
<1> SUFFICES ASSUME IInv, W!IInv, StreamNext PROVE Steps
  OBVIOUS
<1>1. CASE UserCall
  <2> DEFINE A == Smooth!Preenable \/ Smooth!Predisable \/ Smooth!DirectAccess
             B == Preenable \/ Predisable \/ DirectAccess
  <2>1. A => W!Used
    BY SmoothSteps DEF W!Used
  <2>2. B => Used
    BY DEF Used
  <2>3. Goes(A, B)
    BY <1>1 DEF UserCall
  <2> HIDE DEF A, B
  <2> QED BY <2>1, <2>2, <2>3, UsersStep
<1>2. CASE Unregister
  <2>1. Smooth!Predisable => W!Used
    BY SmoothSteps DEF W!Used
  <2>2. Goes(Smooth!Predisable, Predisable)
    BY <1>2 DEF Unregister
  <2> QED BY <2>1, <2>2, UsersStep DEF Used
<1>3. CASE CallGoesOn
  <2>1. Smooth!BufferCall => W!Used
    BY SmoothSteps DEF W!Used
  <2>2. Goes(Smooth!BufferCall, BufferCall)
    BY <1>3 DEF CallGoesOn
  <2> QED BY <2>1, <2>2, UsersStep DEF Used
<1>4. CASE Handles
  <2>1. Smooth!TriggerHandler => W!Used
    BY SmoothSteps DEF W!Used
  <2>2. Goes(Smooth!TriggerHandler, TriggerHandler)
    BY <1>4 DEF Handles
  <2> QED BY <2>1, <2>2, UsersStep DEF Used
<1>5. CASE Rises
  <2>1. W!Next
    BY <1>5, SmoothEdge DEF Rises, W!Next
  <2> QED BY <1>5, <2>1 DEF Rises, Edge, Steps
<1>6. CASE ManagesPower
  <2> DEFINE A == Smooth!Autosuspend \/ Smooth!SuspendIrq
                    \/ Smooth!ForceSuspend \/ Smooth!Resume
             B == Autosuspend \/ SuspendIrq \/ ForceSuspend \/ Resume
  <2>1. A => W!Next
    BY SmoothSteps DEF W!Next
  <2>2. B => Next
    BY DEF Next
  <2>3. stage = "bound" /\ Goes(A, B)
    BY <1>6 DEF ManagesPower
  <2> HIDE DEF A, B
  <2> QED BY <2>1, <2>2, <2>3 DEF Goes, Steps
<1> QED BY <1>1, <1>2, <1>3, <1>4, <1>5, <1>6 DEF StreamNext

(* No step of the stream on a device that user space cannot have seen.      *)
LEMMA StreamSeen ==
  BInv /\ StreamNext => stage \notin {"gone", "configured", "registered"}
<1> SUFFICES ASSUME BInv, StreamNext,
                    stage \in {"gone", "configured", "registered"}
             PROVE  FALSE
  OBVIOUS
<1>1. iio = "off" /\ handler # "pending" /\ (stage = "registered" => hw = Power)
  BY DEF BInv, StageInv, Answers
<1>2. ~(UserCall \/ Unregister \/ ManagesPower)
  BY DEF UserCall, Usable, Unregister, ManagesPower
<1>3. ~CallGoesOn
  BY <1>1, SmoothSteps
     DEF CallGoesOn, Goes, BufferCall, Attach, Postenable, Detach, Postdisable,
         Smooth!BufferCall, Smooth!Attach, Smooth!Postenable, Smooth!Detach,
         Smooth!Postdisable
<1>4. ~Handles
  BY <1>1 DEF Handles, Goes, TriggerHandler, Smooth!TriggerHandler
<1>5. ~Rises
  BY <1>1 DEF Rises, Edge, Power
<1> QED BY <1>2, <1>3, <1>4, <1>5 DEF StreamNext

(* The stream keeps the invariant of the binding.                           *)
LEMMA StreamKeeps == BInv /\ StreamNext => BInv'
<1> SUFFICES ASSUME BInv, StreamNext PROVE BInv'
  OBVIOUS
<1>1. /\ AnyBus /\ Answers /\ W!AnyBus /\ W!Answers
      /\ IInv /\ W!IInv
      /\ BindingTypeOK /\ StageInv /\ (calm => CalmInv)
  BY SameInvariants DEF BInv, AnyBus, W!AnyBus
<1>2. Steps
  BY <1>1, StreamSteps
<1>3. AnyBus' /\ Answers'
  <2>1. ASSUME Next PROVE AnyBus' /\ Answers'
    BY <1>1, <2>1, NextInv, NextSession, NextAnswers DEF AnyBus
  <2>2. ASSUME W!Next PROVE W!AnyBus' /\ W!Answers'
    BY <1>1, <2>2, W!NextInv, W!NextSession, W!NextAnswers, LifecycleAssumption DEF W!AnyBus
  <2> QED BY <1>2, <2>1, <2>2, SameInvariantsNext DEF Steps
<1>4. BindingTypeOK'
  BY <1>1, <1>2 DEF BindingTypeOK, Steps
<1>5. StageInv'
  BY <1>1, <1>2, StreamSeen DEF StageInv, Steps
<1>6. ASSUME calm' PROVE CalmInv'
  <2>1. calm /\ W!Next /\ stage' = stage
    BY <1>2, <1>6 DEF Steps
  <2>2. CalmInv
    BY <1>1, <2>1
  <2>3. stage \in {"enabled", "bound", "removing"} => WorkingInv'
    BY <1>1, <2>1, <2>2, SameInvariants, SameInvariantsNext, W!NextWorking, LifecycleAssumption
    DEF CalmInv
  <2>4. stage \in {"enabled", "removing", "down", "unlisted"} =>
          pm'.status = "active"
    BY <1>1, <1>2, <1>6, <2>2, W!UsedAwake, LifecycleAssumption DEF CalmInv, Steps
  <2>5. stage \in {"down", "unlisted"} => Dark(data, hw)'
    <3> SUFFICES ASSUME stage \in {"down", "unlisted"} PROVE Dark(data', hw')
      OBVIOUS
    <3>1. Dark(data, hw) /\ pm.status = "active"
      BY <2>2 DEF CalmInv
    <3>2. W!Used \/ UNCHANGED <<data, hw>>
      BY <1>2, <1>6 DEF Steps
    <3>3. W!Used => W!Dark(data', hw')
      BY <1>1, <3>1, SameInvariants, W!UsedDark, LifecycleAssumption
    <3> QED BY <3>1, <3>2, <3>3, SameInvariants
  <2>6. stage # "gone"
    BY StreamSeen
  <2> QED BY <2>1, <2>3, <2>4, <2>5, <2>6 DEF CalmInv
<1> QED BY <1>3, <1>4, <1>5, <1>6 DEF BInv
-----------------------------------------------------------------------------
(* struct lsm6dsox_data as probe leaves it is sound on any sensor.          *)
LEMMA FreshSound ==
  /\ Fresh \in DataType /\ \A h : Sound(Fresh, h)
  /\ ~Fresh.buffer_enabled /\ ~Fresh.fifo_running /\ ~Fresh.fifo_faulted
BY DEF Fresh, DataType, Sound, DefaultWatermark, MaxScans

(* What a step of probe or remove has to show of the stream it touches.     *)
LEMMA StreamKept ==
  ASSUME AnyBus, Answers,
         data' \in DataType, hw' \in SUBSET Features, pm' \in PmType,
         Sound(data', hw'),
         data'.buffer_enabled = data.buffer_enabled \/
           (~data'.buffer_enabled /\ iio = "off"),
         pm'.usage = pm.usage,
         pm'.status = pm.status \/ pm'.status = "active" \/ iio = "off",
         ~pm'.needs_force_resume,
         UNCHANGED <<iio, handler, irq, sleep>>
  PROVE  AnyBus' /\ Answers'
<1>1. IInv /\ SessionInv
  BY DEF AnyBus
<1>2. IInv'
  BY <1>1 DEF IInv, TypeOK
<1>3. SessionInv'
  <2>1. data'.buffer_enabled <=> iio = "on"
    BY <1>1 DEF SessionInv
  <2>2. pm'.usage = 1 <=> iio # "off"
    BY <1>1 DEF SessionInv
  <2>3. iio \in {"resumed", "attached"} => pm'.status = "active"
    BY <1>1 DEF SessionInv
  <2> QED BY <1>1, <2>1, <2>2, <2>3 DEF SessionInv
<1> QED BY <1>2, <1>3 DEF AnyBus, Answers

(* Probe and remove keep the invariant of the binding.                      *)
LEMMA BindingKeeps == BInv /\ (Binding \/ UNCHANGED bvars) => BInv'
<1> SUFFICES ASSUME BInv, Binding \/ UNCHANGED bvars PROVE BInv'
  OBVIOUS
<1>0. /\ AnyBus /\ Answers /\ IInv /\ SessionInv
      /\ BindingTypeOK /\ StageInv /\ (calm => CalmInv)
      /\ data \in DataType /\ hw \in SUBSET Features /\ pm \in PmType
      /\ Sound(data, hw) /\ handler \in {"idle", "pending"}
      /\ sleep = "awake" => ~pm.needs_force_resume
  BY Parts DEF BInv, AnyBus, IInv, TypeOK
<1>1. ASSUME UNCHANGED stream PROVE AnyBus' /\ Answers'
  BY <1>0, <1>1, NextInv, NextSession, NextAnswers DEF stream, vars, AnyBus
<1>2. CASE Configure
  <2>1. stage = "gone" /\ iio = "off" /\ sleep = "awake"
    BY <1>0, <1>2 DEF Configure, StageInv
  <2>2. hw' \in SUBSET Features /\ data' = Fresh
    BY <1>0, <1>2 DEF Configure, SoftReset, SwitchedOn, Features, Power
  <2>3. AnyBus' /\ Answers'
    BY <1>0, <1>2, <2>1, <2>2, FreshSound, StreamKept DEF Configure
  <2>4. \/ hw' = Power /\ stage' = "configured" /\ calm' = TRUE
        \/ stage' = "gone" /\ calm' = FALSE
    BY <1>2, <2>1 DEF Configure
  <2> QED BY <1>0, <1>2, <2>1, <2>2, <2>3, <2>4
          DEF Configure, BInv, BindingTypeOK, StageInv, CalmInv
<1>3. CASE Register
  <2>1. AnyBus' /\ Answers'
    BY <1>1, <1>3 DEF Register
  <2> QED BY <1>0, <1>3, <2>1
          DEF Register, stream, BInv, BindingTypeOK, StageInv, CalmInv
<1>4. CASE EnableRuntimePM
  <2>1. /\ iio = "off" /\ handler = "idle" /\ sleep = "awake"
        /\ hw = Power /\ data = Fresh
    BY <1>0, <1>4 DEF EnableRuntimePM, StageInv, Answers
  <2>2. /\ pm' \in PmType /\ pm'.status = "active" /\ pm'.usage = 0
        /\ ~pm'.runtime_error /\ ~pm'.needs_force_resume
    <3>1. NoReference \in PmType /\ ~NoReference.runtime_error
          /\ NoReference.usage = 0 /\ ~NoReference.needs_force_resume
      BY DEF NoReference, PmType
    <3> QED BY <1>4, <3>1 DEF EnableRuntimePM, PmType
  <2>3. pm.usage = 0
    BY <1>0, <2>1 DEF SessionInv, PmType
  <2>4. AnyBus' /\ Answers'
    BY <1>0, <1>4, <2>1, <2>2, <2>3, StreamKept DEF EnableRuntimePM
  <2>5. WorkingInv'
    BY <1>4, <2>1, <2>2, FreshSound
    DEF EnableRuntimePM, WorkingInv, Up, Resting
  <2> QED BY <1>0, <1>4, <2>1, <2>2, <2>4, <2>5
          DEF EnableRuntimePM, BInv, BindingTypeOK, StageInv, CalmInv
<1>5. CASE PutAutosuspend
  <2>1. AnyBus' /\ Answers'
    BY <1>1, <1>5 DEF PutAutosuspend
  <2>2. WorkingInv => WorkingInv'
    BY <1>5 DEF PutAutosuspend, stream, WorkingInv
  <2> QED BY <1>0, <1>5, <2>1, <2>2
          DEF PutAutosuspend, stream, BInv, BindingTypeOK, StageInv, CalmInv
<1>6. CASE BeginRemove
  <2>1. PICK r \in ResumeAndGet :
          /\ data' = r.o.data /\ hw' = r.o.hw /\ pm' = r.pm
          /\ IF r.o.ok THEN stage' = "removing" /\ held' = 1 /\ UNCHANGED calm
             ELSE stage' = "unlisted" /\ calm' = FALSE /\ UNCHANGED held
    BY <1>6 DEF BeginRemove, Takes
  <2>2. /\ stage = "bound" /\ sleep = "awake" /\ held = 0
        /\ UNCHANGED <<iio, handler, irq, sleep>>
    BY <1>0, <1>6 DEF BeginRemove, StageInv, BindingTypeOK
  <2>3. /\ data' \in DataType /\ hw' \in SUBSET Features /\ Sound(data', hw')
        /\ pm' \in PmType /\ ~pm'.needs_force_resume
    BY <1>0, <2>1, <2>2, Resumed DEF OutcomeType
  <2>4. /\ pm'.usage = pm.usage
        /\ data'.buffer_enabled = data.buffer_enabled
        /\ pm'.status = pm.status \/ pm'.status = "active"
    <3>1. pm.status \in {"active", "suspended"}
      BY <1>0 DEF PmType
    <3>2. CASE pm.status = "active"
      BY <2>1, <3>2, GetNothing
    <3>3. CASE pm.status = "suspended"
      <4>1. r.pm \in PmType
        BY <1>0, <2>1, ResumedOrNot
      <4> QED BY <1>0, <2>1, <3>3, <4>1, ResumedOrNot DEF Awoken, PmType
    <3> QED BY <3>1, <3>2, <3>3
  <2>5. AnyBus' /\ Answers'
    BY <1>0, <2>2, <2>3, <2>4, StreamKept
  <2>6. ASSUME calm' PROVE r.o.ok /\ WorkingInv' /\ pm'.status = "active"
    <3>1. r.o.ok /\ WorkingInv
      BY <1>0, <2>1, <2>2, <2>6 DEF CalmInv
    <3>2. Up(data', hw') /\ pm'.status = "active" /\ ~pm'.runtime_error
      BY <1>0, <2>1, <3>1, GetWorks
    <3> QED BY <2>2, <3>1, <3>2 DEF WorkingInv
  <2> QED BY <1>0, <2>1, <2>2, <2>5, <2>6
          DEF BInv, BindingTypeOK, StageInv, CalmInv
<1>7. CASE PowerDownOnRemove
  <2>1. PICK o \in PowerDown(data, hw) :
          data' = o.data /\ hw' = o.hw /\ calm' = (calm /\ o.ok)
    BY <1>7 DEF PowerDownOnRemove, Takes
  <2>2. /\ stage = "removing" /\ stage' = "down" /\ held' = 0
        /\ sleep = "awake" /\ UNCHANGED <<iio, handler, irq, pm, sleep>>
    BY <1>0, <1>7 DEF PowerDownOnRemove, StageInv
  <2>3. /\ data' \in DataType /\ hw' \in SUBSET Features
        /\ ~data'.fifo_running /\ Sound(data', hw')
        /\ data'.buffer_enabled = data.buffer_enabled
    BY <1>0, <2>1, PowerOff DEF OutcomeType, Sound
  <2>4. AnyBus' /\ Answers'
    BY <1>0, <2>2, <2>3, StreamKept
  <2>5. ASSUME calm' PROVE Dark(data', hw') /\ pm'.status = "active"
    <3>1. calm /\ o.ok /\ WorkingInv /\ pm.status = "active"
      BY <1>0, <2>1, <2>2, <2>5 DEF CalmInv
    <3>2. hw = (IF data.fifo_running THEN Features ELSE Power)
      BY <3>1 DEF WorkingInv, Up, Flowing, Resting
    <3>3. hw' = {}
      BY <1>0, <2>1, <3>1, <3>2, PowerDownWorks
    <3> QED BY <2>2, <2>3, <3>1, <3>3 DEF Dark
  <2> QED BY <1>0, <2>1, <2>2, <2>4, <2>5
          DEF BInv, BindingTypeOK, StageInv, CalmInv
<1>8. CASE Unlist
  <2>1. AnyBus' /\ Answers'
    BY <1>1, <1>8 DEF Unlist
  <2> QED BY <1>0, <1>8, <2>1
          DEF Unlist, stream, BInv, BindingTypeOK, StageInv, CalmInv
<1>9. CASE Release
  <2>1. /\ stage = "unlisted" /\ stage' = "gone" /\ iio = "off"
        /\ sleep = "awake" /\ data' = Fresh
        /\ UNCHANGED <<hw, iio, handler, irq, sleep, held, calm>>
    BY <1>0, <1>9 DEF Release, StageInv
  <2>2. /\ pm' \in PmType /\ pm'.usage = pm.usage
        /\ pm'.needs_force_resume = pm.needs_force_resume
    BY <1>0, <1>9 DEF Release, PmType
  <2>3. AnyBus' /\ Answers'
    BY <1>0, <2>1, <2>2, FreshSound, StreamKept
  <2>4. calm => hw = {}
    BY <1>0, <2>1 DEF CalmInv, Dark, SessionInv
  <2> QED BY <1>0, <2>1, <2>3, <2>4
          DEF BInv, BindingTypeOK, StageInv, CalmInv
<1>10. CASE LateWrite
  <2>1. /\ hw' \in SUBSET Features /\ Sound(data, hw')
    BY <1>0, <1>10 DEF LateWrite, Features, Power, Sound
  <2>2. AnyBus' /\ Answers'
    BY <1>0, <1>10, <2>1, StreamKept DEF LateWrite, StageInv
  <2> QED BY <1>0, <1>10, <2>2
          DEF LateWrite, BInv, BindingTypeOK, StageInv, CalmInv
<1>11. CASE UNCHANGED bvars
  <2>1. AnyBus' /\ Answers'
    BY <1>1, <1>11 DEF bvars, stream
  <2> QED BY <1>0, <1>11, <2>1
          DEF bvars, BInv, BindingTypeOK, StageInv, CalmInv, WorkingInv
<1> QED
  BY <1>2, <1>3, <1>4, <1>5, <1>6, <1>7, <1>8, <1>9, <1>10, <1>11 DEF Binding

LEMMA BindingStarts == BindingInit => BInv
<1> SUFFICES ASSUME BindingInit PROVE BInv
  OBVIOUS
<1>1. IInv
  BY FreshSound
  DEF BindingInit, IInv, TypeOK, NoReference, PmType, IrqType
<1> QED BY <1>1, FreshSound
        DEF BindingInit, BInv, AnyBus, SessionInv, Answers, BindingTypeOK,
            StageInv, CalmInv, NoReference

LEMMA BindingInvariant == BindingSpec => []BInv
<1>1. BInv /\ [BindingNext]_bvars => BInv'
  BY StreamKeeps, BindingKeeps DEF BindingNext, StreamNext
<1> QED BY <1>1, BindingStarts, PTL DEF BindingSpec

(* While the driver is bound and no transfer has failed, the stream lives,  *)
(* the suspended sensor is quiet and no handler drains it late, for user    *)
(* space that comes before probe is done and after any number of removals.  *)
THEOREM BoundStreams == BindingSpec => []BoundCorrect
<1>1. BInv => BoundCorrect
  <2> SUFFICES ASSUME BInv, calm, stage \in {"registered", "enabled", "bound"}
               PROVE  /\ StreamAlive /\ NoDrainWhileDown
                      /\ stage # "registered" => QuietWhenDown
    BY DEF BoundCorrect
  <2>1. CASE stage = "registered"
    <3>1. iio = "off" /\ data = Fresh /\ handler # "pending"
      BY <2>1 DEF BInv, StageInv, Answers
    <3> QED BY <2>1, <3>1, FreshSound
            DEF StreamAlive, Streaming, NoDrainWhileDown
  <2>2. CASE stage # "registered"
    BY <2>2, WorkingPromises DEF BInv, CalmInv
  <2> QED BY <2>1, <2>2
<1> QED BY <1>1, BindingInvariant, PTL

(* If no transfer has failed and nobody wrote to the powered-down sensor,   *)
(* remove leaves everything off, whatever stream it met.                    *)
THEOREM RemovedQuiet == BindingSpec => []RemovedIsQuiet
<1>1. BInv => RemovedIsQuiet
  BY DEF BInv, CalmInv, RemovedIsQuiet
<1> QED BY <1>1, BindingInvariant, PTL

(* When the driver is gone, no buffer call, no handler and no runtime-PM    *)
(* reference is left, on a failing bus as well.                             *)
THEOREM RemovedClean == BindingSpec => []NothingLeft
<1>1. BInv => NothingLeft
  BY DEF BInv, AnyBus, IInv, TypeOK, PmType, SessionInv, Answers, StageInv,
         BindingTypeOK, NothingLeft
<1> QED BY <1>1, BindingInvariant, PTL
=============================================================================
