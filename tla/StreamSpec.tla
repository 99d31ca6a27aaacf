----------------------------- MODULE StreamSpec -----------------------------
(***************************************************************************)
(* What lsm6dsox_driver.c promises to a reader of the IIO buffer.  Samples *)
(* come in sessions, from an enable of the buffer to its disable.  Within  *)
(* a session the samples of a segment are on one timeline; nothing but an  *)
(* event that moves hwfifo_discontinuity_count ends a segment.  A reader   *)
(* who compares the counter knows of every hole, and a fault is reported   *)
(* only when the bus has failed.                                           *)
(***************************************************************************)
EXTENDS Naturals

CONSTANT Unreliable    \* whether the bus below may fail

VARIABLES
  session,   \* "closed", or "open" from postenable to predisable
  power,     \* "up" or "down"
  segment,   \* samples were delivered and the next one follows on them
  faulted,   \* hwfifo_faulted
  count      \* hwfifo_discontinuity_count in this session

vars == <<session, power, segment, faulted, count>>

Nothing == segment' = FALSE /\ faulted' = FALSE /\ count' = 0

Init ==
  /\ session = "closed" /\ power = "up"
  /\ segment = FALSE /\ faulted = FALSE /\ count = 0

(* A session starts on a powered sensor with a clean record.                *)
Open ==
  /\ session = "closed" /\ power = "up"
  /\ session' = "open" /\ Nothing
  /\ UNCHANGED power

Close ==
  /\ session = "open"
  /\ session' = "closed" /\ Nothing
  /\ UNCHANGED power

(* Samples reach the reader; every gap between two of them is counted.      *)
Deliver ==
  /\ session = "open"
  /\ power = "up" \/ Unreliable
  /\ segment' = TRUE
  /\ count' \in Nat /\ count' >= count
  /\ UNCHANGED <<session, power, faulted>>

(* Samples are lost: the segment ends and the counter tells, of this loss   *)
(* and of any gap between the samples that came before it.                  *)
Interrupt ==
  /\ session = "open"
  /\ power = "up" \/ Unreliable
  /\ segment' = FALSE
  /\ count' \in Nat /\ count' > count
  /\ faulted' \in {FALSE, Unreliable}
  /\ UNCHANGED <<session, power>>

(* The sensor is put to sleep, or that is tried in vain.                    *)
PowerDown ==
  /\ power = "up"
  /\ power' = "down" \/ (Unreliable /\ UNCHANGED power)
  /\ segment' = FALSE
  /\ count' = IF session = "open" THEN count + 1 ELSE 0
  /\ UNCHANGED <<session, faulted>>

(* The sensor wakes up, or that is tried in vain; the sleep was counted     *)
(* when it began.                                                           *)
PowerUp ==
  /\ power = "down"
  /\ power' = "up" \/ (Unreliable /\ UNCHANGED power)
  /\ segment' = FALSE
  /\ faulted' = (session = "open" /\ power' = "down")
  /\ UNCHANGED <<session, count>>

Next == Open \/ Close \/ Deliver \/ Interrupt \/ PowerDown \/ PowerUp

Spec == Init /\ [][Next]_vars
=============================================================================
