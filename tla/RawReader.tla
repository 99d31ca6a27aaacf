----------------------------- MODULE RawReader -----------------------------
(***************************************************************************)
(* iio_buffer_reader.c: a command-line reader of single frames.  signal()  *)
(* of a program built with -std=c11 installs a handler for one signal: it  *)
(* does not restart read(), and the next signal has its default action.    *)
(***************************************************************************)
EXTENDS IioDevice

VARIABLE raw

RawTypeOK ==
  raw \in [at : {"none", "loop", "entering", "read"},  \* where main() is
           file : 0..MaxBinds,
           signals : 0..1]     \* stop_requested; at the second it dies

NotRunning == [at |-> "none", file |-> 0, signals |-> 0]
RawInit == raw = NotRunning

Quit == raw' = NotRunning /\ dev' = Closed(raw.file)

RawOpen ==
  /\ raw.at = "none" /\ dev.present /\ dev.owner = "none"
  /\ dev' = Opened("raw")
  /\ raw' = [at |-> "loop", file |-> dev.binds, signals |-> 0]

ForgetsToTest ==           \* Mutation: stop_requested is not looked at.
  /\ raw.at = "loop"
  /\ raw' = [raw EXCEPT !.at = "entering"] /\ UNCHANGED dev

(* The condition of the loop: asked to stop, or enough frames read.         *)
TestLoop ==
  /\ raw.at = "loop"
  /\ \/ raw.signals = 0 /\ raw' = [raw EXCEPT !.at = "entering"] /\ UNCHANGED dev
     \/ Quit

(* A signal between the test and the system call interrupts nothing.        *)
EnterRead ==
  /\ raw.at = "entering"
  /\ raw' = [raw EXCEPT !.at = "read"]
  /\ UNCHANGED dev

(* read_full_frame: a frame; an error; or the end of a device no layout was *)
(* ever chosen for.                                                         *)
ReadFullFrame ==
  /\ raw.at = "read" /\ ~ReadBlocks(raw.file)
  /\ IF Alive(raw.file) /\ dev.sized
     THEN dev' = [dev EXCEPT !.frames = @ - 1] /\ raw' = [raw EXCEPT !.at = "loop"]
     ELSE Quit

(* handle_signal: read() returns EINTR and read_full_frame 1; elsewhere the *)
(* flag waits for the next test.  A second signal kills.                    *)
RawSignal ==
  /\ raw.at # "none"
  /\ IF raw.signals = 1 \/ raw.at = "read"
     THEN Quit
     ELSE raw' = [raw EXCEPT !.signals = 1] /\ UNCHANGED dev

RawNext == RawOpen \/ TestLoop \/ EnterRead \/ ReadFullFrame \/ RawSignal
RawProgress == TestLoop \/ EnterRead \/ ReadFullFrame
=============================================================================
