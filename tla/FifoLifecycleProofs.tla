------------------------ MODULE FifoLifecycleProofs ------------------------
(***************************************************************************)
(* What FifoLifecycle guarantees for every set of watermarks, every bound  *)
(* and on a bus that may fail at any transfer.                             *)
(***************************************************************************)
EXTENDS FifoLifecycle, TLAPS

OutcomeType == [ok : BOOLEAN, data : DataType, hw : SUBSET Features]

(* The part of the inductive invariant a driver callback maintains.         *)
Sound(d, h) ==
  /\ d.timestamp_valid <=> d.hw_timestamp_valid
  /\ d.fifo_running => Batching \subseteq h
  /\ d.fifo_faulted => ~d.fifo_running

IInv ==
  /\ TypeOK
  /\ Sound(data, hw)
  /\ pm.needs_force_resume => pm.status = "suspended" /\ sleep = "asleep"
-----------------------------------------------------------------------------
(* The programmed threshold always fits the nine-bit register field.        *)
LEMMA EntriesType ==
  ASSUME NEW w \in 1..MaxScans
  PROVE  Entries(w) \in 0..511
BY SMT DEF Entries, Clamp, EntriesPerScan, MaxScans

(* Clean-up only ever switches features off.                                *)
LEMMA UndoType ==
  ASSUME NEW S, NEW hs \in SUBSET SUBSET Features, NEW g \in Undo(S, hs)
  PROVE  g \in SUBSET Features
BY DEF Undo

(* The field updates the helpers are made of, each with what it changes.    *)
LEMMA NoTimelineFields ==
  ASSUME NEW d \in DataType
  PROVE  /\ NoTimeline(d) \in DataType
         /\ ~NoTimeline(d).timestamp_valid
         /\ ~NoTimeline(d).hw_timestamp_valid
         /\ NoTimeline(d).buffer_enabled = d.buffer_enabled
         /\ NoTimeline(d).fifo_running = d.fifo_running
         /\ NoTimeline(d).fifo_faulted = d.fifo_faulted
         /\ NoTimeline(d).fifo_discontinuity_count = d.fifo_discontinuity_count
         /\ NoTimeline(d).fifo_watermark = d.fifo_watermark
BY ZenonT(30) DEF DataType, NoTimeline

(* Setting fifo_faulted to a value of the code changes nothing else.        *)
LEMMA FaultedFields ==
  ASSUME NEW d \in DataType, NEW b \in BOOLEAN,
         NEW e, e = [d EXCEPT !.fifo_faulted = b]
  PROVE  /\ e \in DataType /\ e.fifo_faulted = b
         /\ e.fifo_running = d.fifo_running
         /\ e.timestamp_valid = d.timestamp_valid
         /\ e.hw_timestamp_valid = d.hw_timestamp_valid
         /\ e.buffer_enabled = d.buffer_enabled
         /\ e.fifo_discontinuity_count = d.fifo_discontinuity_count
BY DEF DataType

(* The same for clearing it.                                                *)
LEMMA ClearedFields ==
  ASSUME NEW d \in DataType,
         NEW e, e = [d EXCEPT !.fifo_faulted = FALSE]
  PROVE  /\ e \in DataType /\ ~e.fifo_faulted
         /\ e.fifo_running = d.fifo_running
         /\ e.timestamp_valid = d.timestamp_valid
         /\ e.hw_timestamp_valid = d.hw_timestamp_valid
         /\ e.buffer_enabled = d.buffer_enabled
         /\ e.fifo_discontinuity_count = d.fifo_discontinuity_count
<1>1. e \in DataType
  <2>1. [d EXCEPT !.fifo_faulted = FALSE] \in DataType
    BY DEF DataType
  <2> QED BY <2>1
<1>2. ~e.fifo_faulted
  BY DEF DataType
<1>3. /\ e.fifo_running = d.fifo_running
      /\ e.timestamp_valid = d.timestamp_valid
      /\ e.hw_timestamp_valid = d.hw_timestamp_valid
      /\ e.buffer_enabled = d.buffer_enabled
      /\ e.fifo_discontinuity_count = d.fifo_discontinuity_count
  BY DEF DataType
<1> QED BY <1>1, <1>2, <1>3

(* Programming the watermark changes fifo_hw_entries alone.                 *)
LEMMA ProgrammedFields ==
  ASSUME NEW d \in DataType
  PROVE  /\ Programmed(d) \in DataType
         /\ Programmed(d).timestamp_valid = d.timestamp_valid
         /\ Programmed(d).hw_timestamp_valid = d.hw_timestamp_valid
         /\ Programmed(d).buffer_enabled = d.buffer_enabled
         /\ Programmed(d).fifo_running = d.fifo_running
         /\ Programmed(d).fifo_faulted = d.fifo_faulted
         /\ Programmed(d).fifo_discontinuity_count = d.fifo_discontinuity_count
<1>1. Entries(d.fifo_watermark) \in 0..511
  BY EntriesType DEF DataType
<1> QED BY <1>1 DEF DataType, Programmed

(* Counting a discontinuity changes the counter alone.                      *)
LEMMA DiscontinuityFields ==
  ASSUME NEW d \in DataType
  PROVE  /\ Discontinuity(d) \in DataType
         /\ Discontinuity(d).timestamp_valid = d.timestamp_valid
         /\ Discontinuity(d).hw_timestamp_valid = d.hw_timestamp_valid
         /\ Discontinuity(d).buffer_enabled = d.buffer_enabled
         /\ Discontinuity(d).fifo_running = d.fifo_running
         /\ Discontinuity(d).fifo_faulted = d.fifo_faulted
         /\ Discontinuity(d).fifo_discontinuity_count
              = d.fifo_discontinuity_count + 1
BY DEF DataType, Discontinuity

(* Counting the gaps of a batch changes the counter alone.                  *)
LEMMA GapsCountedFields ==
  ASSUME NEW d \in DataType, NEW gaps \in Nat
  PROVE  /\ GapsCounted(d, gaps) \in DataType
         /\ GapsCounted(d, gaps).timestamp_valid = d.timestamp_valid
         /\ GapsCounted(d, gaps).hw_timestamp_valid = d.hw_timestamp_valid
         /\ GapsCounted(d, gaps).buffer_enabled = d.buffer_enabled
         /\ GapsCounted(d, gaps).fifo_running = d.fifo_running
         /\ GapsCounted(d, gaps).fifo_faulted = d.fifo_faulted
         /\ GapsCounted(d, gaps).fifo_hw_entries = d.fifo_hw_entries
         /\ GapsCounted(d, gaps).fifo_watermark = d.fifo_watermark
         /\ GapsCounted(d, gaps).fifo_discontinuity_count
              = d.fifo_discontinuity_count + gaps
BY DEF DataType, GapsCounted

(* Pushing a batch makes both timelines valid and changes nothing else.     *)
LEMMA PushedFields ==
  ASSUME NEW d \in DataType
  PROVE  /\ Pushed(d) \in DataType
         /\ Pushed(d).timestamp_valid /\ Pushed(d).hw_timestamp_valid
         /\ Pushed(d).buffer_enabled = d.buffer_enabled
         /\ Pushed(d).fifo_running = d.fifo_running
         /\ Pushed(d).fifo_faulted = d.fifo_faulted
         /\ Pushed(d).fifo_discontinuity_count = d.fifo_discontinuity_count
BY ZenonT(30) DEF DataType, Pushed

(* A record update of one flag, spelled out for the provers.                *)
LEMMA FlagFields ==
  ASSUME NEW d \in DataType, NEW b \in BOOLEAN
  PROVE  /\ LET e == [d EXCEPT !.fifo_running = b]
            IN  /\ e \in DataType /\ e.fifo_running = b
                /\ e.fifo_faulted = d.fifo_faulted
                /\ e.timestamp_valid = d.timestamp_valid
                /\ e.hw_timestamp_valid = d.hw_timestamp_valid
                /\ e.buffer_enabled = d.buffer_enabled
                /\ e.fifo_discontinuity_count = d.fifo_discontinuity_count
         /\ LET e == [d EXCEPT !.fifo_faulted = b]
            IN  /\ e \in DataType /\ e.fifo_faulted = b
                /\ e.fifo_running = d.fifo_running
                /\ e.timestamp_valid = d.timestamp_valid
                /\ e.hw_timestamp_valid = d.hw_timestamp_valid
                /\ e.buffer_enabled = d.buffer_enabled
                /\ e.fifo_discontinuity_count = d.fifo_discontinuity_count
BY DEF DataType

(* What a failing helper can return.                                        *)
LEMMA FailOutcome ==
  ASSUME NEW ds, NEW hs, NEW o \in Fail(ds, hs)
  PROVE  /\ ~o.ok /\ o.data \in ds /\ o.hw \in hs
         /\ o = Failure(o.data, o.hw)
         /\ BusFails
BY DEF Fail, Failure

(* The return code and the type of an outcome.                              *)
LEMMA OutcomeFields ==
  ASSUME NEW d \in DataType, NEW h \in SUBSET Features, NEW o
  PROVE  /\ o = Success(d, h) =>
              o \in OutcomeType /\ o.ok /\ o.data = d /\ o.hw = h
         /\ o = Failure(d, h) =>
              o \in OutcomeType /\ ~o.ok /\ o.data = d /\ o.hw = h
<1>1. ASSUME o = Success(d, h)
      PROVE  o \in OutcomeType /\ o.ok /\ o.data = d /\ o.hw = h
  <2>1. o \in OutcomeType
    BY <1>1 DEF Success, Failure, OutcomeType
  <2>2. o.ok /\ o.data = d /\ o.hw = h
    BY <1>1 DEF Success, Failure
  <2> QED BY <2>1, <2>2
<1>2. ASSUME o = Failure(d, h)
      PROVE  o \in OutcomeType /\ ~o.ok /\ o.data = d /\ o.hw = h
  <2>1. o \in OutcomeType
    BY <1>2 DEF Success, Failure, OutcomeType
  <2>2. ~o.ok /\ o.data = d /\ o.hw = h
    BY <1>2 DEF Success, Failure
  <2> QED BY <2>1, <2>2
<1> QED BY <1>1, <1>2
-----------------------------------------------------------------------------
(* Starting from a cleared timeline leaves it cleared, and fifo_running is  *)
(* set only over a batching FIFO.                                           *)
LEMMA StartHw ==
  ASSUME NEW d \in DataType, NEW h \in SUBSET Features,
         ~d.timestamp_valid, ~d.hw_timestamp_valid,
         d.fifo_running => Batching \subseteq h,
         NEW o \in FifoStartHw(d, h)
  PROVE  /\ o \in OutcomeType
         /\ ~o.data.timestamp_valid /\ ~o.data.hw_timestamp_valid
         /\ o.data.fifo_running => Batching \subseteq o.hw
         /\ o.data.fifo_faulted = d.fifo_faulted
         /\ o.data.buffer_enabled = d.buffer_enabled
         /\ o.data.fifo_discontinuity_count = d.fifo_discontinuity_count
         /\ ~o.ok => BusFails
<1>1. CASE d.fifo_running
  <2>1. o = Success(d, h)
    BY <1>1 DEF FifoStartHw
  <2>2. o.ok /\ o \in OutcomeType /\ o.data = d /\ o.hw = h
    BY <2>1, OutcomeFields
  <2> QED BY <2>2
<1>2. CASE ~d.fifo_running /\ o = Success(Started(d), h \cup Pipeline)
  <2>1. /\ Started(d) \in DataType
        /\ ~Started(d).timestamp_valid /\ ~Started(d).hw_timestamp_valid
        /\ Started(d).fifo_faulted = d.fifo_faulted
        /\ Started(d).buffer_enabled = d.buffer_enabled
        /\ Started(d).fifo_discontinuity_count = d.fifo_discontinuity_count
    <3>1. /\ Programmed(d) \in DataType
          /\ ~Programmed(d).timestamp_valid
          /\ Programmed(d).fifo_faulted = d.fifo_faulted
          /\ Programmed(d).buffer_enabled = d.buffer_enabled
          /\ Programmed(d).fifo_discontinuity_count = d.fifo_discontinuity_count
      BY ProgrammedFields
    <3> QED BY <3>1, ZenonT(30) DEF Started, DataType
  <2>2. h \cup Pipeline \in SUBSET Features /\ Batching \subseteq h \cup Pipeline
    BY DEF Pipeline, Features, Batching
  <2>3. o.ok /\ o \in OutcomeType /\ o.data = Started(d) /\ o.hw = h \cup Pipeline
    BY <1>2, <2>1, <2>2, OutcomeFields
  <2> QED BY <2>1, <2>2, <2>3
<1>3. CASE ~d.fifo_running /\ o \in StartFailures(d, h)
  <2> DEFINE reset == [Programmed(d) EXCEPT !.hw_timestamp_valid = FALSE]
  <2>1. o.data \in {d, Programmed(d), reset} /\ o.hw \in SUBSET Features
        /\ o = Failure(o.data, o.hw) /\ BusFails
    <3> DEFINE bypassed == h \ {"FIFO"}
               batching == bypassed \cup {"BDR"}
               stamped  == batching \cup {"TSB"}
               running  == stamped \cup {"FIFO"}
    <3>1. /\ h \in SUBSET Features /\ bypassed \in SUBSET Features
          /\ batching \in SUBSET Features /\ stamped \in SUBSET Features
          /\ running \in SUBSET Features
          /\ running \cup {"INT1"} \in SUBSET Features
      BY DEF Features, Pipeline, Power
    <3>2. /\ Undo({"BDR"}, Partial(batching, stamped)) \subseteq SUBSET Features
          /\ Undo({"BDR", "TSB"}, {stamped}) \subseteq SUBSET Features
          /\ Undo({"BDR", "TSB"}, Partial(stamped, running))
               \subseteq SUBSET Features
          /\ Undo(Batching, Partial(running, running \cup {"INT1"}))
               \subseteq SUBSET Features
      BY <3>1, UndoType DEF Partial
    <3>3. Partial(h, bypassed) \subseteq SUBSET Features
          /\ Partial(bypassed, batching) \subseteq SUBSET Features
      BY <3>1 DEF Partial
    <3> HIDE DEF bypassed, batching, stamped, running
    <3>4. o \in Fail({d}, Partial(h, bypassed) \cup Partial(bypassed, batching)
                          \cup Undo({"BDR"}, Partial(batching, stamped)))
          \/ o \in Fail({d, Programmed(d)}, Undo({"BDR", "TSB"}, {stamped}))
          \/ o \in Fail({reset},
                 Undo({"BDR", "TSB"}, Partial(stamped, running))
                 \cup Undo(Batching, Partial(running, running \cup {"INT1"})))
      BY <1>3 DEF StartFailures, bypassed, batching, stamped, running
    <3> HIDE DEF reset
    <3>5. BusFails /\ ~o.ok /\ o = Failure(o.data, o.hw) /\ o.data \in {d, Programmed(d), reset}
      BY <3>4, FailOutcome
    <3>6. o.hw \in SUBSET Features
      <4>1. \A ds, hs : o \in Fail(ds, hs) => o.hw \in hs
        BY FailOutcome
      <4> QED BY <3>2, <3>3, <3>4, <4>1
    <3> QED BY <3>5, <3>6
  <2>2. \A e \in {d, Programmed(d), reset} :
          /\ e \in DataType /\ ~e.fifo_running
          /\ ~e.timestamp_valid /\ ~e.hw_timestamp_valid
          /\ e.fifo_faulted = d.fifo_faulted
          /\ e.buffer_enabled = d.buffer_enabled
          /\ e.fifo_discontinuity_count = d.fifo_discontinuity_count
    <3>1. /\ Programmed(d) \in DataType /\ ~Programmed(d).fifo_running
          /\ ~Programmed(d).timestamp_valid
          /\ ~Programmed(d).hw_timestamp_valid
          /\ Programmed(d).fifo_faulted = d.fifo_faulted
          /\ Programmed(d).buffer_enabled = d.buffer_enabled
          /\ Programmed(d).fifo_discontinuity_count = d.fifo_discontinuity_count
      BY <1>3, ProgrammedFields
    <3>2. /\ reset \in DataType /\ ~reset.fifo_running
          /\ ~reset.timestamp_valid /\ ~reset.hw_timestamp_valid
          /\ reset.fifo_faulted = d.fifo_faulted
          /\ reset.buffer_enabled = d.buffer_enabled
          /\ reset.fifo_discontinuity_count = d.fifo_discontinuity_count
      BY <3>1, ZenonT(30) DEF DataType
    <3> HIDE DEF reset
    <3> QED BY <1>3, <3>1, <3>2
  <2> HIDE DEF reset
  <2> QED BY <2>1, <2>2, OutcomeFields
<1> QED BY <1>1, <1>2, <1>3 DEF FifoStartHw

(* Stopping clears fifo_running whatever the bus does.                      *)
LEMMA StopHw ==
  ASSUME NEW d \in DataType, NEW h \in SUBSET Features,
         NEW o \in FifoStopHw(d, h)
  PROVE  o \in OutcomeType /\ o.data = [d EXCEPT !.fifo_running = FALSE]
<1> DEFINE stopped == [d EXCEPT !.fifo_running = FALSE]
<1>1. stopped \in DataType
  BY FlagFields
<1>2. h \ Pipeline \in SUBSET Features /\ Undo(Pipeline, {h}) \subseteq SUBSET Features
  BY UndoType
<1> HIDE DEF stopped
<1>3. CASE o = Success(stopped, h \ Pipeline)
  BY <1>1, <1>2, <1>3, OutcomeFields DEF stopped
<1>4. CASE o \in Fail({stopped}, Undo(Pipeline, {h}))
  <2>1. o = Failure(stopped, o.hw) /\ o.hw \in SUBSET Features
    BY <1>2, <1>4, FailOutcome
  <2> QED BY <1>1, <2>1, OutcomeFields DEF stopped
<1> QED BY <1>3, <1>4 DEF FifoStopHw, stopped

(* A recovery ends with the timeline invalid and counted, and either with a *)
(* batching FIFO and no fault or with a stopped one and the fault reported. *)
LEMMA RecoverHw ==
  ASSUME NEW d \in DataType, NEW h \in SUBSET Features,
         NEW o \in FifoRecover(d, h)
  PROVE  /\ o \in OutcomeType
         /\ Sound(o.data, o.hw)
         /\ o.data.buffer_enabled = d.buffer_enabled
         /\ o.data.fifo_discontinuity_count = d.fifo_discontinuity_count + 1
         /\ ~o.data.timestamp_valid
         /\ o.data.fifo_faulted => BusFails
<1> DEFINE base == Interrupted(d)
           failed == [base EXCEPT !.fifo_running = FALSE]
           Given(e) == /\ e \in DataType
                       /\ ~e.timestamp_valid /\ ~e.hw_timestamp_valid
                       /\ e.buffer_enabled = d.buffer_enabled
                       /\ e.fifo_discontinuity_count
                            = d.fifo_discontinuity_count + 1
<1>1. Given(base)
  <2> DEFINE e == NoTimeline(Discontinuity(d))
  <2>1. Given(e)
    BY DiscontinuityFields, NoTimelineFields
  <2> HIDE DEF e
  <2>2. Given([e EXCEPT !.fifo_faulted = TRUE])
    BY <2>1, ZenonT(30) DEF DataType
  <2> QED BY <2>2 DEF Interrupted, e
<1> HIDE DEF base
<1>2. Given(failed) /\ ~failed.fifo_running
  BY <1>1, ZenonT(30) DEF DataType
<1> HIDE DEF failed
<1>3. Given(Programmed(failed)) /\ ~Programmed(failed).fifo_running
  BY <1>2, ProgrammedFields
<1>4. /\ Given(Recovered(d))
      /\ Recovered(d).fifo_running /\ ~Recovered(d).fifo_faulted
  <2> DEFINE e == Programmed(base)
  <2>1. Given(e)
    BY <1>1, ProgrammedFields
  <2> HIDE DEF e
  <2>2. /\ Given([e EXCEPT !.fifo_faulted = FALSE, !.fifo_running = TRUE])
        /\ [e EXCEPT !.fifo_faulted = FALSE, !.fifo_running = TRUE].fifo_running
        /\ ~[e EXCEPT !.fifo_faulted = FALSE, !.fifo_running = TRUE].fifo_faulted
    BY <2>1, ZenonT(30) DEF DataType
  <2> QED BY <2>2 DEF Recovered, e, base
<1>5. CASE o \in RecoverFailures(d, h)
  <2> DEFINE masked   == h \ {"INT1"}
             bypassed == masked \ {"FIFO"}
             drained  == bypassed \ {"BDR", "TSB"}
             batching == drained \cup {"BDR", "TSB"}
             running  == batching \cup {"FIFO"}
             early == {h, masked, bypassed, bypassed \ {"BDR"}, drained}
             late  == {drained, drained \cup {"BDR"}, batching, running}
                      \cup (IF d.buffer_enabled THEN {running \cup {"INT1"}}
                                               ELSE {})
  <2>1. early \in SUBSET SUBSET Features /\ late \in SUBSET SUBSET Features
    <3>1. masked \in SUBSET Features /\ bypassed \in SUBSET Features
          /\ drained \in SUBSET Features /\ bypassed \ {"BDR"} \in SUBSET Features
      OBVIOUS
    <3>2. drained \cup {"BDR"} \in SUBSET Features
          /\ batching \in SUBSET Features /\ running \in SUBSET Features
          /\ running \cup {"INT1"} \in SUBSET Features
      BY DEF Features, Pipeline, Power
    <3> HIDE DEF masked, bypassed, drained, batching, running
    <3> QED BY <3>1, <3>2
  <2>2. \/ o \in Fail({failed}, Undo({"INT1", "FIFO"}, early))
        \/ o \in Fail({Programmed(failed)}, Undo({"INT1", "FIFO"}, late))
    BY <1>5 DEF RecoverFailures, failed, base
  <2> HIDE DEF early, late
  <2>3. BusFails /\ o = Failure(o.data, o.hw) /\ o.data \in {failed, Programmed(failed)}
    BY <2>2, FailOutcome
  <2>4. o.hw \in SUBSET Features
    <3>1. \/ o.hw \in Undo({"INT1", "FIFO"}, early)
          \/ o.hw \in Undo({"INT1", "FIFO"}, late)
      BY <2>2, FailOutcome
    <3> QED BY <2>1, <3>1, UndoType
  <2>5. o.data \in DataType
    BY <1>2, <1>3, <2>3
  <2>6. o \in OutcomeType
    BY <2>5, <2>3, <2>4, OutcomeFields
  <2> QED BY <1>2, <1>3, <2>6, <2>3 DEF Sound
<1>6. CASE o = Success(Recovered(d), IF d.buffer_enabled THEN h \cup Pipeline
                                     ELSE (h \ {"INT1"}) \cup Batching)
  <2> DEFINE g == IF d.buffer_enabled THEN h \cup Pipeline
                  ELSE (h \ {"INT1"}) \cup Batching
  <2>1. g \in SUBSET Features /\ Batching \subseteq g
    BY DEF Features, Pipeline, Batching
  <2> HIDE DEF g
  <2>2. o \in OutcomeType /\ o.data = Recovered(d) /\ o.hw = g
    BY <1>4, <1>6, <2>1, OutcomeFields DEF g
  <2> QED BY <1>4, <2>1, <2>2 DEF Sound
<1> QED BY <1>5, <1>6 DEF FifoRecover

(* A drain gives the timeline up only in a recovery, which is counted.      *)
LEMMA DrainHw ==
  ASSUME NEW d \in DataType, NEW h \in SUBSET Features, Sound(d, h),
         NEW gaps \in Nat, NEW o \in FifoDrain(d, h, gaps)
  PROVE  /\ o \in OutcomeType
         /\ Sound(o.data, o.hw)
         /\ o.data.buffer_enabled = d.buffer_enabled
         /\ d.timestamp_valid /\ ~o.data.timestamp_valid =>
              o.data.fifo_discontinuity_count > d.fifo_discontinuity_count
<1> DEFINE read == GapsCounted(d, gaps)
<1>0. /\ read \in DataType
      /\ read.timestamp_valid = d.timestamp_valid
      /\ read.hw_timestamp_valid = d.hw_timestamp_valid
      /\ read.buffer_enabled = d.buffer_enabled
      /\ read.fifo_running = d.fifo_running /\ read.fifo_faulted = d.fifo_faulted
      /\ read.fifo_discontinuity_count = d.fifo_discontinuity_count + gaps
  BY GapsCountedFields
<1> HIDE DEF read
<1>1. /\ Sound(read, h)
      /\ read.fifo_discontinuity_count \in Nat
      /\ d.fifo_discontinuity_count \in Nat
      /\ read.fifo_discontinuity_count >= d.fifo_discontinuity_count
  <2>1. Sound(read, h)
    BY <1>0 DEF Sound
  <2>2. /\ d.fifo_discontinuity_count \in Nat
        /\ read.fifo_discontinuity_count \in Nat
    BY <1>0 DEF DataType
  <2> QED BY <1>0, <2>1, <2>2
<1>2. CASE o = Success(d, h)
  <2>1. o \in OutcomeType /\ o.data = d /\ o.hw = h
    BY <1>2, OutcomeFields
  <2> QED BY <2>1
<1>3. CASE o = Success(Pushed(read), h)
  <2>1. /\ Pushed(read) \in DataType
        /\ Pushed(read).timestamp_valid /\ Pushed(read).hw_timestamp_valid
        /\ Pushed(read).buffer_enabled = d.buffer_enabled
        /\ Pushed(read).fifo_running = d.fifo_running
        /\ Pushed(read).fifo_faulted = d.fifo_faulted
    BY <1>0, PushedFields
  <2>2. o \in OutcomeType /\ o.data = Pushed(read) /\ o.hw = h
    BY <1>3, <2>1, OutcomeFields
  <2> QED BY <2>1, <2>2 DEF Sound
<1>4. CASE o \in FifoRecover(d, h)
  BY <1>1, <1>4, RecoverHw
<1>5. CASE o \in FifoRecover(read, h)
  <2>1. /\ o \in OutcomeType /\ Sound(o.data, o.hw)
        /\ o.data.buffer_enabled = read.buffer_enabled
        /\ o.data.fifo_discontinuity_count = read.fifo_discontinuity_count + 1
    BY <1>0, <1>1, <1>5, RecoverHw
  <2> QED BY <1>0, <1>1, <2>1
<1> QED BY <1>2, <1>3, <1>4, <1>5 DEF FifoDrain, read

(* Restoring the configuration switches nothing off; success leaves no     *)
(* timeline.                                                                *)
LEMMA RestoreConfig ==
  ASSUME NEW d \in DataType, NEW h \in SUBSET Features,
         NEW o \in RestoreSensorConfig(d, h)
  PROVE  /\ o \in OutcomeType /\ h \subseteq o.hw
         /\ o.data = (IF o.ok THEN NoTimeline(d) ELSE d)
         /\ ~o.ok => BusFails
<1>1. h \cup {"XL"} \in SUBSET Features /\ h \cup {"XL", "G"} \in SUBSET Features
      /\ h \cup Power \in SUBSET Features
  BY DEF Features, Power
<1>2. NoTimeline(d) \in DataType
  BY NoTimelineFields
<1>3. CASE o = Success(NoTimeline(d), h \cup Power)
  <2>1. o \in OutcomeType /\ o.ok
        /\ o.data = NoTimeline(d) /\ o.hw = h \cup Power
    BY <1>1, <1>2, <1>3, OutcomeFields
  <2> QED BY <2>1
<1>4. CASE o \in Fail({d}, {h, h \cup {"XL"}, h \cup {"XL", "G"}, h \cup Power})
  <2>1. BusFails /\ ~o.ok /\ o = Failure(d, o.hw) /\ o.data = d
        /\ o.hw \in {h, h \cup {"XL"}, h \cup {"XL", "G"}, h \cup Power}
    BY <1>4, FailOutcome
  <2>2. o.hw \in SUBSET Features /\ h \subseteq o.hw
    BY <1>1, <2>1
  <2> QED BY <2>1, <2>2, OutcomeFields
<1> QED BY <1>3, <1>4 DEF RestoreSensorConfig

(* Powering down leaves a stopped FIFO and no timeline, even on an error.   *)
LEMMA PowerOff ==
  ASSUME NEW d \in DataType, NEW h \in SUBSET Features,
         NEW o \in PowerDown(d, h)
  PROVE  /\ o \in OutcomeType
         /\ ~o.data.fifo_running
         /\ ~o.data.timestamp_valid /\ ~o.data.hw_timestamp_valid
         /\ o.data.fifo_faulted = d.fifo_faulted
         /\ o.data.buffer_enabled = d.buffer_enabled
         /\ o.data.fifo_discontinuity_count = d.fifo_discontinuity_count
         /\ ~o.ok => BusFails
<1> DEFINE off == IF d.fifo_running THEN Features ELSE Power
           down == [NoTimeline(d) EXCEPT !.fifo_running = FALSE]
<1>1. /\ down \in DataType /\ ~down.fifo_running
      /\ ~down.timestamp_valid /\ ~down.hw_timestamp_valid
      /\ down.fifo_faulted = d.fifo_faulted
      /\ down.buffer_enabled = d.buffer_enabled
      /\ down.fifo_discontinuity_count = d.fifo_discontinuity_count
  <2> DEFINE e == NoTimeline(d)
  <2>1. /\ e \in DataType
        /\ ~e.timestamp_valid /\ ~e.hw_timestamp_valid
        /\ e.fifo_faulted = d.fifo_faulted
        /\ e.buffer_enabled = d.buffer_enabled
        /\ e.fifo_discontinuity_count = d.fifo_discontinuity_count
    BY NoTimelineFields
  <2> HIDE DEF e
  <2>2. /\ [e EXCEPT !.fifo_running = FALSE] \in DataType
        /\ ~[e EXCEPT !.fifo_running = FALSE].fifo_running
        /\ ~[e EXCEPT !.fifo_running = FALSE].timestamp_valid
        /\ ~[e EXCEPT !.fifo_running = FALSE].hw_timestamp_valid
        /\ [e EXCEPT !.fifo_running = FALSE].fifo_faulted = d.fifo_faulted
        /\ [e EXCEPT !.fifo_running = FALSE].buffer_enabled = d.buffer_enabled
        /\ [e EXCEPT !.fifo_running = FALSE].fifo_discontinuity_count
             = d.fifo_discontinuity_count
    BY <2>1, ZenonT(30) DEF DataType
  <2> QED BY <2>2 DEF e
<1>2. h \ off \in SUBSET Features /\ Undo(off, {h}) \subseteq SUBSET Features
  BY UndoType
<1> HIDE DEF off, down
<1>3. o = Success(down, h \ off) \/ o \in Fail({down}, Undo(off, {h}))
  BY DEF PowerDown, off, down
<1>4. CASE o = Success(down, h \ off)
  <2>1. o \in OutcomeType /\ o.data = down /\ o.ok
    BY <1>1, <1>2, <1>4, OutcomeFields
  <2> QED BY <1>1, <2>1
<1>5. CASE o \in Fail({down}, Undo(off, {h}))
  <2>1. BusFails /\ o = Failure(down, o.hw) /\ o.hw \in SUBSET Features
    BY <1>2, <1>5, FailOutcome
  <2>2. o \in OutcomeType /\ o.data = down
    BY <1>1, <2>1, OutcomeFields
  <2> QED BY <1>1, <2>1, <2>2
<1> QED BY <1>3, <1>4, <1>5

(* lsm6dsox_runtime_suspend keeps the record straight whether the sensor    *)
(* went down, came back or was left half way.                               *)
LEMMA SuspendHw ==
  ASSUME NEW d \in DataType, NEW h \in SUBSET Features, Sound(d, h),
         NEW o \in RuntimeSuspend(d, h)
  PROVE  /\ o \in OutcomeType
         /\ Sound(o.data, o.hw)
         /\ o.data.buffer_enabled = d.buffer_enabled
         /\ o.data.fifo_faulted = d.fifo_faulted
         /\ ~o.data.timestamp_valid
         /\ d.buffer_enabled =>
              o.data.fifo_discontinuity_count = d.fifo_discontinuity_count + 1
         /\ ~o.ok => BusFails
<1> DEFINE before == IF d.buffer_enabled THEN Discontinuity(d) ELSE d
           Counted(e) ==
             /\ ~e.timestamp_valid /\ ~e.hw_timestamp_valid
             /\ e.fifo_faulted = d.fifo_faulted
             /\ e.buffer_enabled = d.buffer_enabled
             /\ d.buffer_enabled =>
                  e.fifo_discontinuity_count = d.fifo_discontinuity_count + 1
           Revived(p) == UNION {IF r.ok /\ d.fifo_running
                                THEN FifoStartHw(r.data, r.hw)
                                ELSE {r} : r \in RestoreSensorConfig(p.data, p.hw)}
<1>1. /\ before \in DataType
      /\ before.fifo_faulted = d.fifo_faulted
      /\ before.buffer_enabled = d.buffer_enabled
      /\ d.buffer_enabled =>
           before.fifo_discontinuity_count = d.fifo_discontinuity_count + 1
  BY DiscontinuityFields DEF DataType
<1> HIDE DEF before
<1>2. ASSUME NEW p \in PowerDown(before, h)
      PROVE  /\ p \in OutcomeType /\ ~p.data.fifo_running /\ Counted(p.data)
             /\ ~p.ok => BusFails
  BY <1>1, PowerOff
<1>3. ASSUME NEW p \in PowerDown(before, h),
             NEW r \in RestoreSensorConfig(p.data, p.hw)
      PROVE  r \in OutcomeType /\ ~r.data.fifo_running /\ Counted(r.data)
  <2>1. p \in OutcomeType /\ ~p.data.fifo_running /\ Counted(p.data)
    BY <1>2
  <2>2. p.data \in DataType /\ p.hw \in SUBSET Features
    BY <2>1 DEF OutcomeType
  <2>3. r \in OutcomeType /\ (r.data = NoTimeline(p.data) \/ r.data = p.data)
    BY <2>2, RestoreConfig
  <2> QED BY <2>1, <2>2, <2>3, NoTimelineFields
<1>4. ASSUME NEW p \in PowerDown(before, h), NEW s \in Revived(p)
      PROVE  /\ s.data \in DataType /\ s.hw \in SUBSET Features
             /\ Sound(s.data, s.hw) /\ Counted(s.data)
  <2>1. PICK r \in RestoreSensorConfig(p.data, p.hw) :
          s \in (IF r.ok /\ d.fifo_running THEN FifoStartHw(r.data, r.hw) ELSE {r})
    BY <1>4
  <2>2. r \in OutcomeType /\ ~r.data.fifo_running /\ Counted(r.data)
    BY <1>3
  <2>3. r.data \in DataType /\ r.hw \in SUBSET Features
    BY <2>2 DEF OutcomeType
  <2>4. CASE s = r
    BY <2>2, <2>3, <2>4 DEF Sound
  <2>5. CASE d.fifo_running /\ s \in FifoStartHw(r.data, r.hw)
    <3>1. /\ s \in OutcomeType
          /\ ~s.data.timestamp_valid /\ ~s.data.hw_timestamp_valid
          /\ s.data.fifo_running => Batching \subseteq s.hw
          /\ s.data.fifo_faulted = r.data.fifo_faulted
          /\ s.data.buffer_enabled = r.data.buffer_enabled
          /\ s.data.fifo_discontinuity_count = r.data.fifo_discontinuity_count
      BY <2>2, <2>3, <2>5, StartHw
    <3>2. s.data \in DataType /\ s.hw \in SUBSET Features
      BY <3>1 DEF OutcomeType
    <3> QED BY <2>2, <2>5, <3>1, <3>2 DEF Sound
  <2> QED BY <2>1, <2>4, <2>5
<1> HIDE DEF Revived
<1>5. PICK p \in PowerDown(before, h) :
        o \in (IF p.ok THEN {p} ELSE {Failure(r.data, r.hw) : r \in Revived(p)})
  BY DEF RuntimeSuspend, before, Revived
<1>8. ~p.ok => BusFails
  BY <1>2
<1>6. CASE o = p
  <2>1. o.data \in DataType
    BY <1>2, <1>6 DEF OutcomeType
  <2> QED BY <1>2, <1>6, <1>8, <2>1 DEF Sound
<1>7. CASE ~p.ok /\ o \in {Failure(r.data, r.hw) : r \in Revived(p)}
  <2>1. PICK s \in Revived(p) : o = Failure(s.data, s.hw)
    BY <1>7
  <2>2. /\ s.data \in DataType /\ s.hw \in SUBSET Features
        /\ Sound(s.data, s.hw) /\ Counted(s.data)
    BY <1>4
  <2>3. o \in OutcomeType /\ o.data = s.data /\ o.hw = s.hw
    BY <2>1, <2>2, OutcomeFields
  <2> QED BY <1>7, <1>8, <2>2, <2>3
<1> QED BY <1>5, <1>6, <1>7, <1>8

(* lsm6dsox_runtime_resume reports a fault exactly when it gives up on an   *)
(* enabled buffer, and then the FIFO is stopped.                            *)
LEMMA ResumeHw ==
  ASSUME NEW d \in DataType, NEW h \in SUBSET Features, Sound(d, h),
         NEW o \in RuntimeResume(d, h)
  PROVE  /\ o \in OutcomeType
         /\ Sound(o.data, o.hw)
         /\ o.data.buffer_enabled = d.buffer_enabled
         /\ o.data.fifo_faulted <=> ~o.ok /\ d.buffer_enabled
         /\ o.data.fifo_discontinuity_count = d.fifo_discontinuity_count
         /\ ~o.data.timestamp_valid
         /\ ~o.ok => BusFails
<1> DEFINE Restarted(r) == IF r.ok /\ d.buffer_enabled
                           THEN FifoStartHw(r.data, r.hw) ELSE {r}
           Reported(s) == [s.data EXCEPT !.fifo_faulted = d.buffer_enabled]
           GiveUp(s) == {Failure(p.data, p.hw) : p \in PowerDown(Reported(s), s.hw)}
           Finish(s) ==
             IF s.ok THEN {Success([s.data EXCEPT !.fifo_faulted = FALSE], s.hw)}
                     ELSE GiveUp(s)
<1>1. ASSUME NEW r \in RestoreSensorConfig(d, h), NEW s \in Restarted(r)
      PROVE  /\ s \in OutcomeType
             /\ s.data.fifo_running => Batching \subseteq s.hw
             /\ s.data.timestamp_valid <=> s.data.hw_timestamp_valid
             /\ s.data.buffer_enabled = d.buffer_enabled
             /\ s.data.fifo_discontinuity_count = d.fifo_discontinuity_count
             /\ IF s.ok THEN ~s.data.timestamp_valid ELSE BusFails
  <2>1. /\ r \in OutcomeType /\ h \subseteq r.hw
        /\ r.data = (IF r.ok THEN NoTimeline(d) ELSE d)
        /\ ~r.ok => BusFails
    BY RestoreConfig
  <2>2. r.data \in DataType /\ r.hw \in SUBSET Features
    BY <2>1 DEF OutcomeType
  <2>3. /\ r.data.fifo_running => Batching \subseteq r.hw
        /\ r.data.timestamp_valid <=> r.data.hw_timestamp_valid
        /\ r.data.buffer_enabled = d.buffer_enabled
        /\ r.data.fifo_discontinuity_count = d.fifo_discontinuity_count
        /\ r.ok => ~r.data.timestamp_valid
    BY <2>1, NoTimelineFields DEF Sound
  <2>4. CASE s = r
    BY <2>1, <2>3, <2>4
  <2>5. CASE r.ok /\ s \in FifoStartHw(r.data, r.hw)
    <3>1. ~r.data.timestamp_valid /\ ~r.data.hw_timestamp_valid
      BY <2>1, <2>5, NoTimelineFields
    <3> QED BY <2>2, <2>3, <2>5, <3>1, StartHw
  <2> QED BY <1>1, <2>4, <2>5
<1> HIDE DEF Restarted
<1>0. PICK r \in RestoreSensorConfig(d, h) :
        o \in UNION {Finish(s) : s \in Restarted(r)}
  BY DEF RuntimeResume, Restarted
<1> HIDE DEF Finish
<1>2. PICK s \in Restarted(r) : o \in Finish(s)
  BY <1>0
<1> USE DEF Finish
<1>3. /\ s.data \in DataType /\ s.hw \in SUBSET Features
      /\ s.data.fifo_running => Batching \subseteq s.hw
      /\ s.data.timestamp_valid <=> s.data.hw_timestamp_valid
      /\ s.data.buffer_enabled = d.buffer_enabled
      /\ s.data.fifo_discontinuity_count = d.fifo_discontinuity_count
      /\ IF s.ok THEN ~s.data.timestamp_valid ELSE BusFails
  BY <1>1 DEF OutcomeType
<1>4. CASE s.ok
  <2> DEFINE e == [s.data EXCEPT !.fifo_faulted = FALSE]
  <2>1. /\ e \in DataType /\ ~e.fifo_faulted
        /\ e.fifo_running = s.data.fifo_running
        /\ e.timestamp_valid = s.data.timestamp_valid
        /\ e.hw_timestamp_valid = s.data.hw_timestamp_valid
        /\ e.buffer_enabled = d.buffer_enabled
        /\ e.fifo_discontinuity_count = d.fifo_discontinuity_count
    <3>1. e = [s.data EXCEPT !.fifo_faulted = FALSE]
      OBVIOUS
    <3> HIDE DEF e, Finish, Reported, GiveUp
    <3> QED BY <1>3, <3>1, ClearedFields
  <2> HIDE DEF e
  <2>2. o = Success(e, s.hw)
    BY <1>2, <1>4 DEF e
  <2>3. o \in OutcomeType /\ o.ok /\ o.data = e /\ o.hw = s.hw
    BY <1>3, <2>1, <2>2, OutcomeFields
  <2> QED BY <1>3, <1>4, <2>1, <2>3 DEF Sound
<1>5. CASE ~s.ok
  <2>1. /\ Reported(s) \in DataType
        /\ Reported(s).buffer_enabled = d.buffer_enabled
        /\ Reported(s).fifo_faulted = d.buffer_enabled
        /\ Reported(s).fifo_discontinuity_count = d.fifo_discontinuity_count
    <3> d.buffer_enabled \in BOOLEAN
      BY DEF DataType
    <3>1. Reported(s) = [s.data EXCEPT !.fifo_faulted = d.buffer_enabled]
      OBVIOUS
    <3> HIDE DEF Finish, GiveUp, Reported
    <3> QED BY <1>3, <3>1, FaultedFields
  <2> HIDE DEF Reported
  <2>2. PICK p \in PowerDown(Reported(s), s.hw) : o = Failure(p.data, p.hw)
    BY <1>2, <1>5
  <2>3. /\ p \in OutcomeType /\ ~p.data.fifo_running
        /\ ~p.data.timestamp_valid /\ ~p.data.hw_timestamp_valid
        /\ p.data.buffer_enabled = d.buffer_enabled
        /\ p.data.fifo_faulted = d.buffer_enabled
        /\ p.data.fifo_discontinuity_count = d.fifo_discontinuity_count
    BY <1>3, <2>1, PowerOff
  <2>4. p.data \in DataType /\ p.hw \in SUBSET Features
    BY <2>3 DEF OutcomeType
  <2>5. o \in OutcomeType /\ ~o.ok /\ o.data = p.data /\ o.hw = p.hw
    BY <2>2, <2>4, OutcomeFields
  <2> QED BY <1>3, <1>5, <2>3, <2>5 DEF Sound
<1> QED BY <1>4, <1>5

(* pm_runtime_resume_and_get keeps everything the invariant needs.          *)
LEMMA Resumed ==
  ASSUME IInv, NEW r \in ResumeAndGet
  PROVE  /\ r.o \in OutcomeType /\ Sound(r.o.data, r.o.hw)
         /\ r.pm \in PmType
         /\ r.pm.needs_force_resume = pm.needs_force_resume
         /\ pm.status = "active" => r.o.data = data
<1>1. data \in DataType /\ hw \in SUBSET Features /\ Sound(data, hw) /\ pm \in PmType
  BY DEF IInv, TypeOK
<1>2. CASE r = [o |-> Failure(data, hw), pm |-> pm]
  <2>1. r.o = Failure(data, hw) /\ r.pm = pm
    BY <1>2
  <2>2. r.o \in OutcomeType /\ r.o.data = data /\ r.o.hw = hw
    BY <1>1, <2>1, OutcomeFields
  <2> QED BY <1>1, <2>1, <2>2
<1>3. CASE r = [o |-> Success(data, hw), pm |-> pm]
  <2>1. r.o = Success(data, hw) /\ r.pm = pm
    BY <1>3
  <2>2. r.o \in OutcomeType /\ r.o.data = data /\ r.o.hw = hw
    BY <1>1, <2>1, OutcomeFields
  <2> QED BY <1>1, <2>1, <2>2
<1>4. ASSUME pm.status # "active",
             NEW o \in RuntimeResume(data, hw),
             r = [o |-> o,
                  pm |-> IF o.ok THEN [pm EXCEPT !.status = "active"]
                                 ELSE [pm EXCEPT !.runtime_error = TRUE]]
      PROVE  /\ r.o \in OutcomeType /\ Sound(r.o.data, r.o.hw)
             /\ r.pm \in PmType
             /\ r.pm.needs_force_resume = pm.needs_force_resume
  <2>1. r.o = o /\ r.pm = (IF o.ok THEN [pm EXCEPT !.status = "active"]
                                   ELSE [pm EXCEPT !.runtime_error = TRUE])
    BY <1>4
  <2>2. r.pm \in PmType /\ r.pm.needs_force_resume = pm.needs_force_resume
    BY <1>1, <2>1 DEF PmType
  <2>3. o \in OutcomeType /\ Sound(o.data, o.hw)
    BY <1>1, ResumeHw
  <2> QED BY <2>1, <2>2, <2>3
<1> QED BY <1>2, <1>3, <1>4 DEF ResumeAndGet

(* A new session starts from a clean record.                                *)
LEMMA NewSessionFields ==
  ASSUME data \in DataType
  PROVE  /\ NewSession \in DataType
         /\ ~NewSession.timestamp_valid /\ ~NewSession.hw_timestamp_valid
         /\ ~NewSession.fifo_faulted
         /\ NewSession.fifo_discontinuity_count = 0
         /\ NewSession.fifo_running = data.fifo_running
         /\ NewSession.buffer_enabled = data.buffer_enabled
         /\ NewSession.fifo_watermark = data.fifo_watermark
<1> DEFINE e == NoTimeline(data)
<1>1. /\ e \in DataType /\ ~e.timestamp_valid /\ ~e.hw_timestamp_valid
      /\ e.fifo_running = data.fifo_running
      /\ e.buffer_enabled = data.buffer_enabled
      /\ e.fifo_watermark = data.fifo_watermark
  BY NoTimelineFields
<1> HIDE DEF e
<1>2. NewSession = [e EXCEPT !.fifo_faulted = FALSE, !.fifo_discontinuity_count = 0]
  BY DEF NewSession, e
<1>3. NewSession \in DataType
  <2> DEFINE f == [e EXCEPT !.fifo_faulted = FALSE]
  <2>1. f \in DataType
    BY <1>1, ZenonT(30) DEF DataType
  <2> HIDE DEF f
  <2>2. [f EXCEPT !.fifo_discontinuity_count = 0] \in DataType
    BY <2>1 DEF DataType
  <2> QED BY <1>2, <2>2 DEF f
<1>4. /\ ~NewSession.timestamp_valid /\ ~NewSession.hw_timestamp_valid
      /\ ~NewSession.fifo_faulted /\ NewSession.fifo_discontinuity_count = 0
  BY <1>1, <1>2 DEF DataType
<1>5. /\ NewSession.fifo_running = data.fifo_running
      /\ NewSession.buffer_enabled = data.buffer_enabled
      /\ NewSession.fifo_watermark = data.fifo_watermark
  BY <1>1, <1>2 DEF DataType
<1> QED BY <1>3, <1>4, <1>5

(* What probe leaves satisfies the invariant.                               *)
LEMMA InitInv == Init => IInv
<1> SUFFICES ASSUME Init PROVE IInv
  OBVIOUS
<1>1. data \in DataType
  BY DEF Init, DataType, DefaultWatermark, MaxScans
<1>2. TypeOK
  BY <1>1 DEF Init, TypeOK, IrqType, PmType, Features
<1>3. Sound(data, hw)
  BY DEF Init, Sound
<1> QED BY <1>2, <1>3 DEF Init, IInv

(* Every action of every party keeps the invariant.                         *)
LEMMA NextInv == IInv /\ [Next]_vars => IInv'
<1> SUFFICES ASSUME IInv, [Next]_vars PROVE IInv'
  OBVIOUS
<1> USE DEF IInv
<1>0. /\ data \in DataType /\ hw \in SUBSET Features
      /\ irq \in IrqType /\ pm \in PmType
  BY DEF TypeOK
<1>1. CASE Preenable
  <2>1. PICK r \in ResumeAndGet :
          /\ Takes(r.o)
          /\ pm' = [r.pm EXCEPT !.usage = IF r.o.ok THEN 1 ELSE 0]
          /\ iio' = IF r.o.ok THEN "resumed" ELSE "off"
    BY <1>1 DEF Preenable
  <2>2. /\ r.o \in OutcomeType /\ Sound(r.o.data, r.o.hw)
        /\ r.pm \in PmType /\ ~r.pm.needs_force_resume
    BY <1>1, Resumed DEF Preenable
  <2>3. data' \in DataType /\ hw' \in SUBSET Features /\ Sound(data', hw')
    BY <2>1, <2>2 DEF Takes, OutcomeType
  <2>4. pm' \in PmType /\ ~pm'.needs_force_resume
    BY <2>1, <2>2 DEF PmType
  <2> QED BY <1>1, <2>1, <2>3, <2>4 DEF Preenable, TypeOK, Sound
<1>2. CASE Attach
  <2>1. PICK val \in Watermarks : data' = HwfifoSetWatermark(val)
    BY <1>2 DEF Attach
  <2>2. val \in Nat
    BY LifecycleAssumption
  <2>3. data' \in DataType /\ Sound(data', hw)
    BY <1>0, <2>1, <2>2 DEF HwfifoSetWatermark, DataType, MaxScans, Sound
  <2> QED BY <1>2, <2>3 DEF Attach, TypeOK, Sound
<1>3. CASE Postenable
  <2>1. CASE UNCHANGED <<data, hw>>
    BY <1>3, <2>1 DEF Postenable, TypeOK, Sound
  <2>2. ASSUME NEW o \in FifoStartHw(NewSession, hw),
               data' = [o.data EXCEPT !.buffer_enabled = o.ok], hw' = o.hw,
               iio' = IF o.ok THEN "on" ELSE "disabled"
        PROVE  IInv'
    <3> DEFINE n == NewSession
    <3>1. /\ n \in DataType
          /\ ~n.timestamp_valid /\ ~n.hw_timestamp_valid /\ ~n.fifo_faulted
          /\ n.fifo_running = data.fifo_running
      BY <1>0, NewSessionFields
    <3> HIDE DEF n
    <3>2. o \in FifoStartHw(n, hw)
      BY <2>2 DEF n
    <3>3. /\ o \in OutcomeType
          /\ ~o.data.timestamp_valid /\ ~o.data.hw_timestamp_valid
          /\ o.data.fifo_running => Batching \subseteq o.hw
          /\ ~o.data.fifo_faulted
      BY <1>0, <3>1, <3>2, StartHw DEF Sound
    <3>4. o.ok \in BOOLEAN /\ o.data \in DataType /\ o.hw \in SUBSET Features
      BY <3>3 DEF OutcomeType
    <3>5. /\ data' \in DataType
          /\ data'.timestamp_valid = o.data.timestamp_valid
          /\ data'.hw_timestamp_valid = o.data.hw_timestamp_valid
          /\ data'.fifo_running = o.data.fifo_running
          /\ data'.fifo_faulted = o.data.fifo_faulted
      BY <2>2, <3>4 DEF DataType
    <3>6. Sound(data', hw')
      BY <2>2, <3>3, <3>5 DEF Sound
    <3> QED BY <1>3, <2>2, <3>4, <3>5, <3>6 DEF Postenable, TypeOK, Sound
  <2> QED BY <1>3, <2>1, <2>2 DEF Postenable
<1>4. CASE Predisable
  <2>1. CASE UNCHANGED <<data, hw>>
    BY <1>4, <2>1 DEF Predisable, TypeOK, Sound
  <2>2. ASSUME NEW o \in FifoStopHw(data, hw),
               data' = [NoTimeline(o.data) EXCEPT !.buffer_enabled = FALSE,
                                                  !.fifo_faulted = FALSE],
               hw' = o.hw
        PROVE  IInv'
    <3>1. o \in OutcomeType /\ o.data = [data EXCEPT !.fifo_running = FALSE]
      BY <1>0, StopHw
    <3>2. o.data \in DataType /\ o.hw \in SUBSET Features /\ ~o.data.fifo_running
      BY <1>0, <3>1 DEF OutcomeType, DataType
    <3> DEFINE e == NoTimeline(o.data)
    <3>3. /\ e \in DataType /\ ~e.timestamp_valid /\ ~e.hw_timestamp_valid
          /\ ~e.fifo_running
      BY <3>2, NoTimelineFields
    <3> HIDE DEF e
    <3> DEFINE f == [e EXCEPT !.buffer_enabled = FALSE, !.fifo_faulted = FALSE]
    <3>4. /\ f \in DataType
          /\ ~f.timestamp_valid /\ ~f.hw_timestamp_valid
          /\ ~f.fifo_running /\ ~f.fifo_faulted
      BY <3>3, ZenonT(30) DEF DataType
    <3>5. data' = f
      BY <2>2 DEF e
    <3> HIDE DEF f
    <3>6. data' \in DataType /\ Sound(data', hw')
      BY <3>4, <3>5 DEF Sound
    <3> QED BY <1>4, <2>2, <3>2, <3>6 DEF Predisable, TypeOK, Sound
  <2> QED BY <1>4, <2>1, <2>2 DEF Predisable
<1>5. CASE Detach
  BY <1>5 DEF Detach, TypeOK, Sound
<1>6. CASE Postdisable
  BY <1>6 DEF Postdisable, TypeOK, PmType, Sound
<1>7. CASE DirectAccess
  <2>1. PICK r \in ResumeAndGet : 
          /\ hw' = r.o.hw /\ pm' = r.pm
          /\ \E match \in BOOLEAN : data' = [r.o.data EXCEPT !.odrs_match = match]
    <3>1. PICK r \in ResumeAndGet :
            /\ hw' = r.o.hw /\ pm' = r.pm
            /\ \E match \in {r.o.data.odrs_match} \cup
                            (IF r.o.ok THEN {TRUE} \cup {~BusFails} ELSE {}) :
                 data' = [r.o.data EXCEPT !.odrs_match = match]
      BY <1>7 DEF DirectAccess
    <3>2. r.o \in OutcomeType
      BY Resumed
    <3>3. r.o.data.odrs_match \in BOOLEAN
      BY <3>2 DEF OutcomeType, DataType
    <3> QED BY <3>1, <3>3, BusAssumption
  <2>2. /\ r.o \in OutcomeType /\ Sound(r.o.data, r.o.hw)
        /\ r.pm \in PmType /\ ~r.pm.needs_force_resume
    BY <1>7, Resumed DEF DirectAccess
  <2>3. r.o.data \in DataType /\ r.o.hw \in SUBSET Features
    BY <2>2 DEF OutcomeType
  <2>4. data' \in DataType /\ Sound(data', hw')
    BY <2>1, <2>2, <2>3 DEF DataType, Sound
  <2> QED BY <1>7, <2>1, <2>2, <2>3, <2>4 DEF DirectAccess, TypeOK, Sound
<1>8. CASE Edge
  BY <1>8 DEF Edge, Poll, TypeOK, IrqType, Sound
<1>9. CASE TriggerHandler
  <2>0. PICK gaps \in Nat : \E o \in FifoDrain(data, hw, gaps) : Takes(o)
    BY <1>9 DEF TriggerHandler, Gaps
  <2>1. PICK o \in FifoDrain(data, hw, gaps) : Takes(o)
    BY <2>0
  <2>2. o \in OutcomeType /\ Sound(o.data, o.hw)
    BY <1>0, DrainHw
  <2>3. data' \in DataType /\ hw' \in SUBSET Features /\ Sound(data', hw')
    BY <2>1, <2>2 DEF Takes, OutcomeType
  <2> QED BY <1>9, <2>3 DEF TriggerHandler, TypeOK, Sound
<1>10. CASE Autosuspend
  <2>1. PICK o \in RuntimeSuspend(data, hw) : 
          /\ Takes(o)
          /\ pm' = [pm EXCEPT !.status = "suspended"]
             \/ \E sticks \in BOOLEAN : pm' = [pm EXCEPT !.runtime_error = sticks]
    BY <1>10 DEF Autosuspend
  <2>2. o \in OutcomeType /\ Sound(o.data, o.hw)
    BY <1>0, SuspendHw
  <2>3. data' \in DataType /\ hw' \in SUBSET Features /\ Sound(data', hw')
    BY <2>1, <2>2 DEF Takes, OutcomeType
  <2>4. pm' \in PmType /\ pm'.needs_force_resume = pm.needs_force_resume
    BY <1>0, <2>1 DEF PmType
  <2> QED BY <1>10, <2>3, <2>4 DEF Autosuspend, TypeOK, Sound
<1>11. CASE SuspendIrq
  BY <1>0, <1>11 DEF SuspendIrq, TypeOK, IrqType, Sound
<1>12. CASE ForceSuspend
  <2>1. CASE UNCHANGED <<data, hw, handler, irq, pm>>
    BY <1>12, <2>1 DEF ForceSuspend, TypeOK, Sound
  <2>2. ASSUME NEW o \in RuntimeSuspend(data, hw), Takes(o),
               IF o.ok
               THEN /\ pm' = [pm EXCEPT !.status = "suspended",
                                !.needs_force_resume = (pm.usage = 1),
                                !.runtime_error = (@ /\ pm.usage = 1)]
                    /\ sleep' = "asleep" /\ UNCHANGED <<handler, irq>>
               ELSE sleep' = "awake" /\ UNCHANGED pm /\ EnableIrq
        PROVE  IInv'
    <3>1. o \in OutcomeType /\ Sound(o.data, o.hw)
      BY <1>0, SuspendHw
    <3>2. data' \in DataType /\ hw' \in SUBSET Features /\ Sound(data', hw')
      BY <2>2, <3>1 DEF Takes, OutcomeType
    <3>3. CASE o.ok
      <4>1. pm' \in PmType /\ pm'.status = "suspended"
        BY <1>0, <2>2, <3>3 DEF PmType
      <4> QED BY <1>12, <2>2, <3>2, <3>3, <4>1 DEF ForceSuspend, TypeOK, Sound
    <3>4. CASE ~o.ok
      <4>1. sleep' = "awake" /\ EnableIrq /\ UNCHANGED pm
        BY <2>2, <3>4
      <4>2. irq' \in IrqType /\ handler' \in {"idle", "pending"}
        BY <4>1 DEF EnableIrq, IrqType, Poll, TypeOK
      <4> QED BY <1>12, <3>2, <4>1, <4>2 DEF ForceSuspend, TypeOK, Sound
    <3> QED BY <3>3, <3>4
  <2> QED BY <1>12, <2>1, <2>2 DEF ForceSuspend
<1>13. CASE Resume
  <2>1. irq' \in IrqType /\ handler' \in {"idle", "pending"}
    BY <1>13 DEF Resume, EnableIrq, IrqType, Poll, TypeOK
  <2>2. ASSUME NEW o \in RuntimeResume(data, hw), Takes(o),
               pm' = [pm EXCEPT !.needs_force_resume = FALSE,
                         !.status = IF o.ok THEN "active" ELSE "suspended",
                         !.runtime_error = (@ /\ o.ok)]
        PROVE  IInv'
    <3>1. o \in OutcomeType /\ Sound(o.data, o.hw)
      BY <1>0, ResumeHw
    <3>2. data' \in DataType /\ hw' \in SUBSET Features /\ Sound(data', hw')
      BY <2>2, <3>1 DEF Takes, OutcomeType
    <3>3. pm' \in PmType /\ ~pm'.needs_force_resume
      BY <1>0, <2>2 DEF PmType
    <3> QED BY <1>13, <2>1, <3>2, <3>3 DEF Resume, TypeOK, Sound
  <2>3. ASSUME ~pm.needs_force_resume,
               NEW r \in ResumeAndGet, Takes(r.o), pm' = r.pm
        PROVE  IInv'
    <3>1. /\ r.o \in OutcomeType /\ Sound(r.o.data, r.o.hw)
          /\ r.pm \in PmType /\ ~r.pm.needs_force_resume
      BY <2>3, Resumed
    <3>2. data' \in DataType /\ hw' \in SUBSET Features /\ Sound(data', hw')
      BY <2>3, <3>1 DEF Takes, OutcomeType
    <3> QED BY <1>13, <2>1, <2>3, <3>1, <3>2 DEF Resume, TypeOK, Sound
  <2> QED BY <1>13, <2>2, <2>3 DEF Resume
<1>14. CASE UNCHANGED vars
  BY <1>14 DEF vars, TypeOK, Sound
<1> QED
  BY <1>1, <1>2, <1>3, <1>4, <1>5, <1>6, <1>7, <1>8, <1>9, <1>10, <1>11,
     <1>12, <1>13, <1>14 DEF Next
-----------------------------------------------------------------------------
(* The invariant holds in every reachable state.                            *)
LEMMA Invariant == Spec => []IInv
BY InitInv, NextInv, PTL DEF Spec

(* The fields, flags and phases keep their types through every callback,    *)
(* error path and interleaving.                                             *)
THEOREM TypeCorrect == Spec => []TypeOK
<1>1. IInv => TypeOK
  BY DEF IInv
<1> QED BY <1>1, Invariant, PTL

(* lsm6dsox_reset_hw_timestamp clears only hw_timestamp_valid, yet the two  *)
(* validity flags never part.                                               *)
THEOREM TimelineCorrect == Spec => []TimelineAgrees
<1>1. IInv => TimelineAgrees
  BY DEF IInv, Sound, TimelineAgrees
<1> QED BY <1>1, Invariant, PTL

(* fifo_running is only ever set over a batching FIFO, whatever transfers   *)
(* failed before.                                                           *)
THEOREM RunningCorrect == Spec => []RunningMeansBatching
<1>1. IInv => RunningMeansBatching
  BY DEF IInv, Sound, RunningMeansBatching
<1> QED BY <1>1, Invariant, PTL

(* A reported fault has a stopped FIFO, so that the next lsm6dsox_fifo_     *)
(* start_hw does not return early.                                          *)
THEOREM FaultCorrect == Spec => []FaultedMeansStopped
<1>1. IInv => FaultedMeansStopped
  BY DEF IInv, Sound, FaultedMeansStopped
<1> QED BY <1>1, Invariant, PTL

(* Every step that gives up the timeline of a running session counts a      *)
(* discontinuity.                                                           *)
THEOREM CountedCorrect == Spec => DiscontinuityCounted
<1> DEFINE Lost == /\ data.buffer_enabled /\ data'.buffer_enabled
                   /\ pm.status = "active"
                   /\ data.timestamp_valid /\ ~data'.timestamp_valid
           Counted == data'.fifo_discontinuity_count > data.fifo_discontinuity_count
<1>1. ASSUME IInv, [Next]_vars, Lost
      PROVE  Counted
  <2> USE DEF IInv
  <2>0. data \in DataType /\ hw \in SUBSET Features
    BY <1>1 DEF TypeOK
  <2>1. CASE TriggerHandler
    <3>0. PICK gaps \in Nat : \E o \in FifoDrain(data, hw, gaps) : Takes(o)
      BY <2>1 DEF TriggerHandler, Gaps
    <3>1. PICK o \in FifoDrain(data, hw, gaps) : Takes(o)
      BY <3>0
    <3> QED BY <1>1, <2>0, <3>1, DrainHw DEF Takes
  <2>2. CASE Autosuspend \/ ForceSuspend
    <3>1. PICK o \in RuntimeSuspend(data, hw) : Takes(o)
      BY <1>1, <2>2 DEF Autosuspend, ForceSuspend
    <3> QED BY <1>1, <2>0, <3>1, SuspendHw DEF Takes, DataType
  <2>3. CASE Preenable \/ DirectAccess \/ Resume
    <3>1. PICK r \in ResumeAndGet :
            data'.timestamp_valid = r.o.data.timestamp_valid
      <4>1. CASE Preenable \/ Resume
        BY <1>1, <2>3, <4>1 DEF Preenable, Resume, Takes
      <4>2. CASE DirectAccess
        <5>1. PICK r \in ResumeAndGet :
                \E match : data' = [r.o.data EXCEPT !.odrs_match = match]
          BY <4>2 DEF DirectAccess
        <5>2. r.o.data \in DataType
          BY <1>1, Resumed DEF OutcomeType
        <5> QED BY <5>1, <5>2 DEF DataType
      <4> QED BY <2>3, <4>1, <4>2
    <3> QED BY <1>1, <3>1, Resumed
  <2>4. CASE Postenable
    BY <1>1, <2>4 DEF Postenable
  <2>5. CASE Attach
    BY <1>1, <2>0, <2>5 DEF Attach, HwfifoSetWatermark, DataType
  <2>6. CASE Predisable
    <3>1. PICK o \in FifoStopHw(data, hw) :
            data' = [NoTimeline(o.data) EXCEPT !.buffer_enabled = FALSE,
                                               !.fifo_faulted = FALSE]
      BY <1>1, <2>6 DEF Predisable
    <3>2. o.data \in DataType
      BY <2>0, StopHw DEF OutcomeType
    <3>3. NoTimeline(o.data) \in DataType
      BY <3>2, NoTimelineFields
    <3>4. ~data'.buffer_enabled
      BY <3>1, <3>3 DEF DataType
    <3> QED BY <1>1, <3>4
  <2>7. CASE UNCHANGED data
    BY <1>1, <2>7
  <2> QED
    BY <1>1, <2>1, <2>2, <2>3, <2>4, <2>5, <2>6, <2>7
    DEF Next, vars, Detach, Postdisable, Edge, SuspendIrq
<1>2. IInv /\ [Next]_vars => [Lost => Counted]_vars
  BY <1>1
<1> QED BY <1>2, Invariant, PTL DEF Spec, DiscontinuityCounted
=============================================================================
