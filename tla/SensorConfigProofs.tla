------------------------- MODULE SensorConfigProofs -------------------------
(***************************************************************************)
(* Theorems about the sensor configuration, for every table of rates and   *)
(* scales, on a bus that works and on one that fails.                      *)
(***************************************************************************)
EXTENDS SensorConfig, TLAPS

Outcomes == [ok : BOOLEAN, cached : Config, reg : Control]

(* A configuration the driver caches is one the registers can hold.         *)
LEMMA ConfigIsControl == Config \subseteq Control
  BY DEF Config, Control

(* What a failing helper can leave.                                         *)
LEMMA FailOutcome ==
  ASSUME NEW c, NEW rs, NEW o \in Fail(c, rs)
  PROVE  \E r \in rs : o = Failure(c, r)
  BY DEF Fail

(* The return code and the type of an outcome.                              *)
LEMMA OutcomeFields ==
  ASSUME NEW c \in Config, NEW r \in Control, NEW o
  PROVE  /\ o = Success(c, r) =>
              o \in Outcomes /\ o.ok /\ o.cached = c /\ o.reg = r
         /\ o = Failure(c, r) =>
              o \in Outcomes /\ ~o.ok /\ o.cached = c /\ o.reg = r
<1>1. ASSUME o = Success(c, r)
      PROVE  o \in Outcomes /\ o.ok /\ o.cached = c /\ o.reg = r
  <2>1. o \in Outcomes
    BY <1>1 DEF Success, Outcomes
  <2> QED
    BY <1>1, <2>1 DEF Success
<1>2. ASSUME o = Failure(c, r)
      PROVE  o \in Outcomes /\ ~o.ok /\ o.cached = c /\ o.reg = r
  <2>1. o \in Outcomes
    BY <1>2 DEF Failure, Outcomes
  <2> QED
    BY <1>2, <2>1 DEF Failure
<1> QED
  BY <1>1, <1>2

(* Every helper leaves a configuration of the right type.  lsm6dsox_set_odr *)
(* that returns 0 has set one rate and no other, in cache and register.     *)
LEMMA SetOdrHelper ==
  ASSUME NEW c \in Config, NEW r \in Control, NEW s \in Sensors, NEW hz \in Rates,
         NEW o \in SetOdr(c, r, s, hz)
  PROVE  /\ o \in Outcomes
         /\ o.ok => \A t \in Sensors :
                      /\ o.cached[t].odr = IF t = s THEN hz ELSE c[t].odr
                      /\ o.reg[t].odr = IF t = s THEN hz ELSE r[t].odr
         /\ o.ok /\ r = c => o.reg = o.cached
<1> DEFINE cw == [c EXCEPT ![s].odr = hz]
           rw == [r EXCEPT ![s].odr = hz]
<1>1. /\ cw \in Config
      /\ \A t \in Sensors : cw[t].odr = IF t = s THEN hz ELSE c[t].odr
  BY DEF Config
<1>2. /\ rw \in Control
      /\ \A t \in Sensors : rw[t].odr = IF t = s THEN hz ELSE r[t].odr
  BY DEF Control
<1>3. r = c => rw = cw
  OBVIOUS
<1>4. o = Success(cw, rw) \/ o \in Fail(c, {r, rw})
  BY DEF SetOdr
<1> HIDE DEF cw, rw
<1>5. CASE o = Success(cw, rw)
  BY <1>1, <1>2, <1>3, <1>5, OutcomeFields
<1>6. CASE o \in Fail(c, {r, rw})
  BY <1>2, <1>6, FailOutcome, OutcomeFields
<1> QED
  BY <1>4, <1>5, <1>6

(* lsm6dsox_set_full_scale that returns 0 for a register that agreed with   *)
(* the cache leaves it in agreement.                                        *)
LEMMA SetFullScaleHelper ==
  ASSUME NEW c \in Config, NEW r \in Control, NEW s \in Sensors, NEW fs \in Scales,
         NEW o \in SetFullScale(c, r, s, fs)
  PROVE  /\ o \in Outcomes
         /\ o.ok /\ r = c => o.reg = o.cached
<1> c \in Control
  BY ConfigIsControl
<1>1. [c EXCEPT ![s].fs = fs] \in Config
  BY DEF Config
<1>2. /\ [r EXCEPT ![s].fs = fs] \in Control
      /\ [r EXCEPT ![s].fs = c[s].fs] \in Control
  BY DEF Control, Config
<1> QED
  <2> DEFINE written == [r EXCEPT ![s].fs = fs]
             rolled  == [r EXCEPT ![s].fs = c[s].fs]
  <2>1. CASE o = Success(c, r)
    BY <2>1, OutcomeFields
  <2>2. CASE o = Success([c EXCEPT ![s].fs = fs], written)
    <3>1. /\ o \in Outcomes
          /\ o.cached = [c EXCEPT ![s].fs = fs] /\ o.reg = [r EXCEPT ![s].fs = fs]
      BY <1>1, <1>2, <2>2, OutcomeFields
    <3> QED
      BY <3>1
  <2>3. CASE o \in Fail(c, {r, written, rolled})
    <3> HIDE DEF written, rolled
    <3>1. PICK q \in {r, written, rolled} : o = Failure(c, q)
      BY <2>3, FailOutcome
    <3>2. q \in Control
      BY <1>2, <3>1 DEF written, rolled
    <3> QED
      BY <3>1, <3>2, OutcomeFields
  <2> QED
    BY <2>1, <2>2, <2>3 DEF SetFullScale

(* A sampling-frequency write that returns 0 has set both sensors, in the   *)
(* cache and in the registers, whatever they held.                          *)
LEMMA WriteOdrHelper ==
  ASSUME TypeOK, NEW hz \in Rates, NEW o \in WriteOdr(hz)
  PROVE  /\ o \in Outcomes
         /\ o.ok => /\ \A s \in Sensors : o.reg[s].odr = hz /\ o.cached[s].odr = hz
                    /\ reg = cached => o.reg = o.cached
<1> USE DEF TypeOK
<1>1. ASSUME NEW p \in SetBothOdr(cached, reg, hz)
      PROVE  /\ p \in Outcomes
             /\ p.ok => /\ \A s \in Sensors : p.reg[s].odr = hz /\ p.cached[s].odr = hz
                        /\ reg = cached => p.reg = p.cached
  <2>1. PICK x \in SetOdr(cached, reg, "XL", hz) :
          p \in (IF x.ok THEN SetOdr(x.cached, x.reg, "G", hz) ELSE {x})
    BY <1>1 DEF SetBothOdr
  <2>2. "XL" \in Sensors /\ "G" \in Sensors
    BY DEF Sensors
  <2>3. /\ x \in Outcomes
        /\ x.ok => /\ x.cached["XL"].odr = hz /\ x.reg["XL"].odr = hz
                   /\ reg = cached => x.reg = x.cached
    BY <2>1, <2>2, SetOdrHelper
  <2>4. CASE ~x.ok
    BY <2>1, <2>3, <2>4
  <2>5. CASE x.ok
    <3>1. x.cached \in Config /\ x.reg \in Control /\ p \in SetOdr(x.cached, x.reg, "G", hz)
      BY <2>1, <2>3, <2>5 DEF Outcomes
    <3>2. /\ p \in Outcomes
          /\ p.ok => /\ \A t \in Sensors :
                          /\ p.cached[t].odr = IF t = "G" THEN hz ELSE x.cached[t].odr
                          /\ p.reg[t].odr = IF t = "G" THEN hz ELSE x.reg[t].odr
                     /\ x.reg = x.cached => p.reg = p.cached
      BY <2>2, <3>1, SetOdrHelper
    <3> QED
      BY <2>3, <2>5, <3>2 DEF Sensors
  <2> QED
    BY <2>4, <2>5
<1>2. ASSUME NEW p \in Outcomes, NEW u \in RollBackOdr(p.cached, p.reg, cached)
      PROVE  u.cached \in Config /\ u.reg \in Control
  <2>1. /\ p.cached \in Config /\ p.reg \in Control
        /\ cached["XL"].odr \in Rates /\ cached["G"].odr \in Rates
    BY <1>2 DEF Outcomes, Config, Sensors
  <2>2. PICK x \in SetOdr(p.cached, p.reg, "XL", cached["XL"].odr) :
          u \in SetOdr(x.cached, x.reg, "G", cached["G"].odr)
    BY <1>2 DEF RollBackOdr
  <2>3. "XL" \in Sensors /\ "G" \in Sensors
    BY DEF Sensors
  <2>4. x \in Outcomes
    BY <2>1, <2>2, <2>3, SetOdrHelper
  <2>5. x.cached \in Config /\ x.reg \in Control
    BY <2>4 DEF Outcomes
  <2>6. u \in Outcomes
    BY <2>1, <2>2, <2>3, <2>5, SetOdrHelper
  <2> QED
    BY <2>6 DEF Outcomes
<1>3. PICK p \in SetBothOdr(cached, reg, hz) :
        o \in (IF p.ok THEN {p}
               ELSE {Failure(u.cached, u.reg) :
                       u \in RollBackOdr(p.cached, p.reg, cached)})
  BY DEF WriteOdr
<1>4. CASE p.ok
  BY <1>1, <1>3, <1>4
<1>5. CASE ~p.ok
  <2>1. PICK u \in RollBackOdr(p.cached, p.reg, cached) :
          o = Failure(u.cached, u.reg)
    BY <1>3, <1>5
  <2> QED
    BY <1>1, <1>2, <2>1 DEF Failure, Outcomes
<1> QED
  BY <1>4, <1>5

(* lsm6dsox_restore_sensor_config that returns 0 makes the registers agree. *)
LEMMA RestoreHelper ==
  ASSUME NEW c \in Config, NEW r \in Control, NEW o \in RestoreSensorConfig(c, r)
  PROVE  o \in Outcomes /\ (o.ok => o.reg = o.cached)
<1>1. c \in Control /\ c["XL"] \in [odr : Rates \cup {0}, fs : Scales]
  BY DEF Config, Control, Sensors
<1>2. [r EXCEPT !["XL"] = c["XL"]] \in Control
  BY <1>1 DEF Control
<1> QED
  BY <1>1, <1>2, FailOutcome, OutcomeFields DEF RestoreSensorConfig

(* lsm6dsox_power_down leaves the cached configuration alone.               *)
LEMMA PowerDownHelper ==
  ASSUME NEW c \in Config, NEW r \in Control, NEW o \in PowerDown(c, r)
  PROVE  o \in Outcomes
<1> DEFINE Off(S) ==
      [s \in Sensors |-> IF s \in S THEN [r[s] EXCEPT !.odr = 0] ELSE r[s]]
<1>1. ASSUME NEW S PROVE Off(S) \in Control
  BY DEF Control
<1> HIDE DEF Off
<1>2. PowerDown(c, r) =
        {Success(c, Off(Sensors))} \cup Fail(c, {Off(S) : S \in SUBSET Sensors})
  BY DEF PowerDown, Off
<1> QED
  <2>1. CASE o = Success(c, Off(Sensors))
    BY <1>1, <2>1, OutcomeFields
  <2>2. CASE o \in Fail(c, {Off(S) : S \in SUBSET Sensors})
    BY <1>1, <2>2, FailOutcome, OutcomeFields
  <2> QED
    BY <1>2, <2>1, <2>2
-----------------------------------------------------------------------------
ConfigInv == TypeOK /\ ReportsTheTruth /\ OdrWriteApplied

(* What probe leaves satisfies the invariant.                               *)
LEMMA InitConfig == Init => ConfigInv
<1> SUFFICES ASSUME Init PROVE ConfigInv
  OBVIOUS
<1>1. cached \in Config /\ reg = cached
  BY ConfigAssumption DEF Init, Config
<1>2. reg \in Control
  BY <1>1, ConfigIsControl
<1>3. answer = NoAnswer /\ answer \in Answers
  BY DEF Init, Answers
<1>4. status \in {"active", "suspended"} /\ stream \in BOOLEAN /\ suspect \in BOOLEAN
  BY Zenon DEF Init
<1> QED
  BY <1>1, <1>2, <1>3, <1>4
     DEF ConfigInv, TypeOK, ReportsTheTruth, OdrWriteApplied, NoAnswer

(* Every write, suspend and resume keeps it.                                *)
LEMMA NextConfig == ConfigInv /\ [Next]_vars => ConfigInv'
<1> SUFFICES ASSUME ConfigInv, [Next]_vars PROVE ConfigInv'
  OBVIOUS
<1>0. TypeOK /\ cached \in Config /\ reg \in Control /\ NoAnswer \in Answers
  BY DEF ConfigInv, TypeOK, Answers
<1> USE <1>0 DEF ConfigInv, ReportsTheTruth, OdrWriteApplied
<1>1. CASE WriteSampFreq
  <2>1. PICK hz \in Rates : \E o \in WriteOdr(hz) :
          /\ Takes(o) /\ Doubts(o)
          /\ answer' = [ask |-> "odr", value |-> hz, ok |-> o.ok]
    BY <1>1 DEF WriteSampFreq
  <2>2. PICK o \in WriteOdr(hz) :
          /\ Takes(o) /\ Doubts(o)
          /\ answer' = [ask |-> "odr", value |-> hz, ok |-> o.ok]
    BY <2>1
  <2>3. o \in Outcomes
    BY <2>2, WriteOdrHelper
  <2>4. answer' \in Answers
    BY <2>2, <2>3 DEF Answers, Outcomes
  <2>5. TypeOK'
    BY <1>1, <2>2, <2>3, <2>4 DEF WriteSampFreq, TypeOK, Takes, Doubts, Outcomes
  <2>6. o.ok => /\ \A s \in Sensors : o.reg[s].odr = hz /\ o.cached[s].odr = hz
                /\ reg = cached => o.reg = o.cached
    BY <2>2, WriteOdrHelper
  <2>7. ReportsTheTruth'
    BY <1>1, <2>2, <2>6 DEF WriteSampFreq, Takes, Doubts
  <2>8. OdrWriteApplied'
    BY <2>2, <2>6 DEF Takes
  <2> QED
    BY <2>5, <2>7, <2>8
<1>2. CASE WriteScale
  <2>1. PICK s \in Sensors, fs \in Scales : \E o \in SetFullScale(cached, reg, s, fs) :
          /\ Takes(o) /\ Doubts(o)
          /\ answer' = [ask |-> "scale", sensor |-> s, value |-> fs, ok |-> o.ok]
    BY <1>2 DEF WriteScale
  <2>2. PICK o \in SetFullScale(cached, reg, s, fs) :
          /\ Takes(o) /\ Doubts(o)
          /\ answer' = [ask |-> "scale", sensor |-> s, value |-> fs, ok |-> o.ok]
    BY <2>1
  <2>3. o \in Outcomes /\ (o.ok /\ reg = cached => o.reg = o.cached)
    BY <2>2, SetFullScaleHelper
  <2>4. answer' \in Answers /\ answer'.ask = "scale"
    BY <2>2, <2>3 DEF Answers, Outcomes
  <2>5. TypeOK'
    BY <1>2, <2>2, <2>3, <2>4 DEF WriteScale, TypeOK, Takes, Doubts, Outcomes
  <2>6. ReportsTheTruth' /\ OdrWriteApplied'
    BY <1>2, <2>2, <2>3, <2>4 DEF WriteScale, Takes, Doubts
  <2> QED
    BY <2>5, <2>6
<1>3. CASE StartStream
  BY <1>3 DEF StartStream, TypeOK, NoAnswer
<1>4. CASE StopStream
  BY <1>4 DEF StopStream, TypeOK
<1>5. CASE Suspend
  <2>1. PICK p \in PowerDown(cached, reg) :
          \/ /\ p.ok
             /\ Takes(p) /\ status' = "suspended" /\ UNCHANGED suspect
          \/ /\ ~p.ok
             /\ \E o \in RestoreSensorConfig(p.cached, p.reg) :
                  Takes(o) /\ suspect' = ~o.ok
             /\ UNCHANGED status
    BY <1>5 DEF Suspend
  <2>2. p \in Outcomes /\ p.cached \in Config /\ p.reg \in Control
    BY <2>1, PowerDownHelper DEF Outcomes
  <2>3. answer' = NoAnswer /\ stream' = stream
    BY <1>5 DEF Suspend
  <2>4. CASE p.ok /\ Takes(p) /\ status' = "suspended" /\ UNCHANGED suspect
    BY <2>2, <2>3, <2>4 DEF TypeOK, Takes, NoAnswer
  <2>5. ASSUME NEW o \in RestoreSensorConfig(p.cached, p.reg),
               Takes(o), suspect' = ~o.ok, UNCHANGED status
        PROVE  ConfigInv'
    <3>1. o \in Outcomes /\ (o.ok => o.reg = o.cached)
      BY <2>2, <2>5, RestoreHelper
    <3> QED
      BY <2>3, <2>5, <3>1 DEF TypeOK, Takes, NoAnswer, Outcomes
  <2> QED
    BY <2>1, <2>4, <2>5
<1>6. CASE Resume
  <2>1. PICK o \in RestoreSensorConfig(cached, reg) :
          \/ /\ o.ok
             /\ Takes(o) /\ status' = "active" /\ suspect' = FALSE
          \/ /\ ~o.ok
             /\ \E p \in PowerDown(o.cached, o.reg) : Takes(p)
             /\ suspect' = TRUE /\ UNCHANGED status
    BY <1>6 DEF Resume
  <2>2. /\ o \in Outcomes /\ o.cached \in Config /\ o.reg \in Control
        /\ o.ok => o.reg = o.cached
    BY <2>1, RestoreHelper DEF Outcomes
  <2>3. answer' = NoAnswer /\ stream' = stream
    BY <1>6 DEF Resume
  <2>4. CASE o.ok /\ Takes(o) /\ status' = "active" /\ suspect' = FALSE
    BY <2>2, <2>3, <2>4 DEF TypeOK, Takes, NoAnswer
  <2>5. ASSUME NEW p \in PowerDown(o.cached, o.reg),
               Takes(p), suspect' = TRUE, UNCHANGED status
        PROVE  ConfigInv'
    <3>1. p \in Outcomes
      BY <2>2, <2>5, PowerDownHelper
    <3> QED
      BY <2>3, <2>5, <3>1 DEF TypeOK, Takes, NoAnswer, Outcomes
  <2> QED
    BY <2>1, <2>4, <2>5
<1>7. CASE UNCHANGED vars
  BY <1>7 DEF vars, TypeOK
<1> QED
  BY <1>1, <1>2, <1>3, <1>4, <1>5, <1>6, <1>7 DEF Next

(* The invariant holds in every reachable state.                            *)
LEMMA ConfigInvariant == Spec => []ConfigInv
  BY InitConfig, NextConfig, PTL DEF Spec

(* Cache and registers only ever hold supported rates and scales.           *)
THEOREM TypeCorrect == Spec => []TypeOK
  BY ConfigInvariant, PTL DEF ConfigInv

(* The scale and rate the driver reports are those of an active sensor,     *)
(* except between a call that returned an error and the next restore.       *)
THEOREM TruthCorrect == Spec => []ReportsTheTruth
  BY ConfigInvariant, PTL DEF ConfigInv

(* A sampling-frequency write that returned 0 is in force on both sensors.  *)
THEOREM OdrCorrect == Spec => []OdrWriteApplied
  BY ConfigInvariant, PTL DEF ConfigInv
=============================================================================
