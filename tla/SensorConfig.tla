---------------------------- MODULE SensorConfig ----------------------------
(***************************************************************************)
(* The sensor configuration of lsm6dsox_driver.c: output data rate and     *)
(* full scale of accelerometer and gyroscope, as the driver caches them    *)
(* (and reports them to user space) and as the control registers hold      *)
(* them.  IIO direct mode and data->lock make each write, suspend and      *)
(* resume one step; a write holds a runtime-PM reference, so it finds the  *)
(* device active.  An I2C write that returned an error may or may not have *)
(* reached the sensor, so every helper is the SET of what it may leave.    *)
(***************************************************************************)
EXTENDS Naturals

CONSTANTS
  Rates,          \* the entries of lsm6dsox_odr_table
  Scales,         \* the entries of one full-scale table
  DefaultRate,    \* what probe configures: 104 Hz and the default scale
  DefaultScale,
  BusFails        \* whether an I2C transfer may return an error

ASSUME ConfigAssumption ==
  /\ Rates \subseteq Nat \ {0} /\ DefaultRate \in Rates
  /\ DefaultScale \in Scales
  /\ BusFails \in BOOLEAN

Sensors == {"XL", "G"}
Config  == [Sensors -> [odr : Rates, fs : Scales]]
Control == [Sensors -> [odr : Rates \cup {0}, fs : Scales]]

VARIABLES
  cached,   \* accel_odr, gyro_odr, accel_scale_nano, gyro_scale_nano
  reg,      \* ODR and FS fields of CTRL1_XL and CTRL2_G; rate 0 is off
  status,   \* runtime-PM status of the device
  stream,   \* the buffer is enabled
  suspect,  \* some configuration call has failed since the last restore
  answer    \* the last write: what was asked for, and whether it returned 0

vars == <<cached, reg, status, stream, suspect, answer>>

NoAnswer == [ask |-> "none", ok |-> FALSE]

Answers ==
  [ask : {"odr"}, value : Rates, ok : BOOLEAN]
    \cup [ask : {"scale"}, sensor : Sensors, value : Scales, ok : BOOLEAN]
    \cup {NoAnswer}

TypeOK ==
  /\ cached \in Config
  /\ reg \in Control
  /\ status \in {"active", "suspended"}
  /\ stream \in BOOLEAN /\ suspect \in BOOLEAN
  /\ answer \in Answers

(* lsm6dsox_config_accel and lsm6dsox_config_gyro have succeeded in probe.  *)
Init ==
  /\ cached = [s \in Sensors |-> [odr |-> DefaultRate, fs |-> DefaultScale]]
  /\ reg = cached
  /\ status = "active"
  /\ stream = FALSE /\ suspect = FALSE
  /\ answer = NoAnswer
-----------------------------------------------------------------------------
(* What a helper leaves: return code, cached values and registers.          *)
Success(c, r) == [ok |-> TRUE, cached |-> c, reg |-> r]
Failure(c, r) == [ok |-> FALSE, cached |-> c, reg |-> r]

Fail(c, rs) == IF BusFails THEN {Failure(c, r) : r \in rs} ELSE {}

(* lsm6dsox_set_odr: write, read back, then cache.                          *)
SetOdrUnlessCached(c, r, s, hz) ==   \* Mutation: returns early, as scales do.
  IF c[s].odr = hz THEN {Success(c, r)}
  ELSE LET written == [r EXCEPT ![s].odr = hz]
       IN  {Success([c EXCEPT ![s].odr = hz], written)} \cup Fail(c, {r, written})

SetOdr(c, r, s, hz) ==
  LET written == [r EXCEPT ![s].odr = hz]
  IN  {Success([c EXCEPT ![s].odr = hz], written)} \cup Fail(c, {r, written})

(* lsm6dsox_set_full_scale: nothing to do for the cached scale; an error    *)
(* writes the old scale back, and that write may fail too.                  *)
SetFullScale(c, r, s, fs) ==
  LET written == [r EXCEPT ![s].fs = fs]
      rolled  == [r EXCEPT ![s].fs = c[s].fs]
  IN  IF fs = c[s].fs
      THEN {Success(c, r)}
      ELSE {Success([c EXCEPT ![s].fs = fs], written)}
           \cup Fail(c, {r, written, rolled})

(* The sampling-frequency branch of lsm6dsox_write_raw: both sensors, and   *)
(* after an error both old rates again, whatever those writes return.       *)
SetBothOdr(c, r, hz) ==
  UNION {IF x.ok THEN SetOdr(x.cached, x.reg, "G", hz) ELSE {x} :
           x \in SetOdr(c, r, "XL", hz)}

RollBackOdr(c, r, old) ==
  UNION {SetOdr(x.cached, x.reg, "G", old["G"].odr) :
           x \in SetOdr(c, r, "XL", old["XL"].odr)}

WriteOdr(hz) ==
  UNION {IF o.ok THEN {o}
         ELSE {Failure(u.cached, u.reg) :
                 u \in RollBackOdr(o.cached, o.reg, cached)} :
           o \in SetBothOdr(cached, reg, hz)}

(* lsm6dsox_restore_sensor_config: both registers, each in one write, then  *)
(* both are read back.                                                      *)
RestoreOdrOnly(c, r) ==              \* Mutation: the scales are not restored.
  LET odrs == [s \in Sensors |-> [r[s] EXCEPT !.odr = c[s].odr]]
  IN  {Success(c, odrs)} \cup Fail(c, {r, [r EXCEPT !["XL"] = odrs["XL"]], odrs})

RestoreSensorConfig(c, r) ==
  {Success(c, c)} \cup Fail(c, {r, [r EXCEPT !["XL"] = c["XL"]], c})

PowerDownForgets(c, r) ==            \* Mutation: the cached rates are cleared.
  LET off(x) == [s \in Sensors |-> [x[s] EXCEPT !.odr = 0]]
  IN  {Success(off(c), off(r))} \cup Fail(off(c), {r, off(r)})

(* lsm6dsox_power_down writes rate 0 to both, each write best effort.       *)
PowerDown(c, r) ==
  LET Off(S) == [s \in Sensors |-> IF s \in S THEN [r[s] EXCEPT !.odr = 0] ELSE r[s]]
  IN  {Success(c, Off(Sensors))} \cup Fail(c, {Off(S) : S \in SUBSET Sensors})
-----------------------------------------------------------------------------
Takes(o) == cached' = o.cached /\ reg' = o.reg

(* A failed call leaves the registers open to doubt.                        *)
Doubts(o) == suspect' = (suspect \/ ~o.ok)

(* lsm6dsox_write_raw.  A streaming buffer refuses direct mode with -EBUSY. *)
WriteSampFreq ==
  /\ ~stream /\ status = "active"
  /\ \E hz \in Rates : \E o \in WriteOdr(hz) :
       /\ Takes(o) /\ Doubts(o)
       /\ answer' = [ask |-> "odr", value |-> hz, ok |-> o.ok]
  /\ UNCHANGED <<status, stream>>

WriteScale ==
  /\ ~stream /\ status = "active"
  /\ \E s \in Sensors, fs \in Scales : \E o \in SetFullScale(cached, reg, s, fs) :
       /\ Takes(o) /\ Doubts(o)
       /\ answer' = [ask |-> "scale", sensor |-> s, value |-> fs, ok |-> o.ok]
  /\ UNCHANGED <<status, stream>>

(* lsm6dsox_buffer_postenable: the cached rates have to match.              *)
StartStream ==
  /\ ~stream /\ status = "active"
  /\ cached["XL"].odr = cached["G"].odr
  /\ stream' = TRUE /\ answer' = NoAnswer
  /\ UNCHANGED <<cached, reg, status, suspect>>

StopStream ==
  /\ stream /\ status = "active"
  /\ stream' = FALSE
  /\ UNCHANGED <<cached, reg, status, suspect, answer>>

(* lsm6dsox_runtime_suspend: autosuspend of an unused device, or system     *)
(* sleep of any.  After a failed power-down the configuration is restored   *)
(* as far as the bus lets it, and the device stays active.                  *)
Suspend ==
  /\ status = "active"
  /\ answer' = NoAnswer
  /\ \E p \in PowerDown(cached, reg) :
       \/ /\ p.ok
          /\ Takes(p) /\ status' = "suspended" /\ UNCHANGED suspect
       \/ /\ ~p.ok
          /\ \E o \in RestoreSensorConfig(p.cached, p.reg) :
               Takes(o) /\ suspect' = ~o.ok
          /\ UNCHANGED status
  /\ UNCHANGED stream

(* lsm6dsox_runtime_resume: up to three attempts to restore, of which a     *)
(* failed one leaves what one attempt can leave; giving up powers down.     *)
Resume ==
  /\ status = "suspended"
  /\ \E o \in RestoreSensorConfig(cached, reg) :
       \/ /\ o.ok
          /\ Takes(o) /\ status' = "active" /\ suspect' = FALSE
       \/ /\ ~o.ok
          /\ \E p \in PowerDown(o.cached, o.reg) : Takes(p)
          /\ suspect' = TRUE /\ UNCHANGED status
  /\ answer' = NoAnswer
  /\ UNCHANGED stream

Next ==
  \/ WriteSampFreq \/ WriteScale \/ StartStream \/ StopStream
  \/ Suspend \/ Resume

Spec == Init /\ [][Next]_vars
-----------------------------------------------------------------------------
(* Scale and rate are true: user space converts raw samples with the cached *)
(* scale, so an active sensor runs with the cached configuration; only a    *)
(* call that returned an error can part the two, and the next restore (a    *)
(* resume, or the undoing of a failed suspend) joins them again.            *)
ReportsTheTruth == status = "active" /\ ~suspect => reg = cached

(* A sampling-frequency write that returns 0 has set both sensors to the    *)
(* rate, also when an earlier write failed half-way and its rollback too.   *)
OdrWriteApplied ==
  answer.ask = "odr" /\ answer.ok =>
    \A s \in Sensors : reg[s].odr = answer.value /\ cached[s].odr = answer.value
=============================================================================
