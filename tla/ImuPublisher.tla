---------------------------- MODULE ImuPublisher ----------------------------
(***************************************************************************)
(* The ROS 2 node of imu_publisher.cpp as a process: the run script becomes *)
(* the node, a reader thread polls and reads frames, the main thread spins  *)
(* (diagnostics every second) until SIGINT, then joins the reader.  What is *)
(* published is left out, but for the level of the diagnostics.             *)
(***************************************************************************)
EXTENDS IioDevice

VARIABLE node

NodeTypeOK ==
  node \in [proc : {"none", "script", "starting", "spinning", "leaving", "exited"},
            asked : BOOLEAN,        \* SIGINT shut the rclcpp context down
            clean : BOOLEAN,        \* the exit status of an exited process
            reader : {"none", "polling", "reading", "ended", "failed"},
            file : 0..MaxBinds,     \* device_fd_
            diag : {"none", "OK", "WARN", "ERROR"}]   \* last level published

NoProcess == [proc |-> "none", asked |-> FALSE, clean |-> TRUE,
              reader |-> "none", file |-> 0, diag |-> "none"]
NodeInit == node = NoProcess

Launched == [NoProcess EXCEPT !.proc = "script"]
Exited(clean) == [NoProcess EXCEPT !.proc = "exited", !.clean = clean]
Dies(clean) == node' = Exited(clean) /\ dev' = Closed(node.file)

(* SIGINT kills the script; once rclcpp::init has run it only asks.         *)
Interrupted ==
  CASE node.proc = "script" -> Exited(TRUE)
    [] node.proc \in {"starting", "spinning", "leaving"} ->
         [node EXCEPT !.asked = TRUE]
    [] OTHER -> node
-----------------------------------------------------------------------------
(* run_lsm6dsox_ros.sh: a setup file that fails ends it (set -e), else it   *)
(* executes the node in its own place.                                      *)
RunScript ==
  /\ node.proc = "script"
  /\ node' \in {[node EXCEPT !.proc = "starting"], Exited(FALSE)}
  /\ UNCHANGED dev

(* find_iio_device looks for the name in sysfs; read_text, read_number and  *)
(* read_integer throw when a file of the device is not there.               *)
DeviceFound == dev.present
SysfsReadable == dev.present

(* The constructor: whatever cannot be found, read or opened (the device is *)
(* busy), or created in a context already shut down, throws out of main.    *)
Construct ==
  /\ node.proc = "starting"
  /\ \/ DeviceFound /\ SysfsReadable /\ dev.owner = "none"
        /\ dev' = Opened("node")
        /\ node' = [node EXCEPT !.proc = "spinning", !.reader = "polling",
                                !.file = dev.binds]
     \/ Dies(FALSE)
-----------------------------------------------------------------------------
(* read_loop: the condition of the loop, tested each time poll returns.     *)
LoopEnds == node.asked \/ node.proc = "leaving"

WaitsForData == PollIn(node.file)   \* Mutation: poll without a timeout.
PollReturns == TRUE                 \* after 100 ms if nothing else

LeaveLoop ==
  /\ node.reader = "polling" /\ LoopEnds /\ PollReturns
  /\ node' = [node EXCEPT !.reader = "ended"]
  /\ UNCHANGED dev

Poll ==
  /\ node.reader = "polling" /\ PollIn(node.file)
  /\ node' = [node EXCEPT !.reader = "reading"]
  /\ UNCHANGED dev

(* poll, or what it reports, is an error: the thread ends, nothing else.    *)
PollFails ==
  /\ node.reader = "polling"
  /\ node' = [node EXCEPT !.reader = "failed"]
  /\ UNCHANGED dev

(* A frame is read and published; read() of a device that is gone fails.    *)
Read ==
  /\ node.reader = "reading" /\ ~ReadBlocks(node.file)
  /\ IF Alive(node.file)
     THEN dev' = [dev EXCEPT !.frames = @ - 1]
          /\ node' = [node EXCEPT !.reader = IF LoopEnds THEN "ended"
                                                        ELSE "polling"]
     ELSE node' = [node EXCEPT !.reader = "failed"] /\ UNCHANGED dev
-----------------------------------------------------------------------------
(* publish_diagnostics: the counters give the level; a device that cannot   *)
(* be read is an error too.                                                 *)
KeepsLevel == IF SysfsReadable THEN {"OK", "WARN", "ERROR"}
              ELSE {"OK"}  \* Mutation: the exception leaves the level as it was.

Levels == IF SysfsReadable THEN {"OK", "WARN", "ERROR"} ELSE {"ERROR"}

PublishDiagnostics ==
  /\ node.proc = "spinning" /\ ~node.asked
  /\ \E level \in Levels : node' = [node EXCEPT !.diag = level]
  /\ UNCHANGED dev

(* spin returns when the context is shut down; the destructor clears        *)
(* running_, joins the reader and closes the file; main returns 0.          *)
SpinReturns ==
  /\ node.proc = "spinning" /\ node.asked
  /\ node' = [node EXCEPT !.proc = "leaving"]
  /\ UNCHANGED dev

Join ==
  /\ node.proc = "leaving" /\ node.reader \in {"ended", "failed"}
  /\ Dies(TRUE)

(* An exception nobody catches, a signal, the OOM killer.                   *)
Crash ==
  /\ node.proc \in {"starting", "spinning", "leaving"}
  /\ Dies(FALSE)

(* The node cannot end before something else happens.                       *)
Hangs ==
  \/ node.reader = "reading" /\ ReadBlocks(node.file)
  \/ node.reader = "polling" /\ ~PollReturns

NodeNext ==
  \/ RunScript \/ Construct
  \/ LeaveLoop \/ Poll \/ PollFails \/ Read
  \/ PublishDiagnostics \/ SpinReturns \/ Join
  \/ Crash

(* The threads of the node are scheduled and its timer fires; nothing has   *)
(* to fail.                                                                 *)
NodeFairness ==
  LET v == <<dev, node>>
  IN  /\ WF_v(RunScript) /\ WF_v(Construct)
      /\ WF_v(LeaveLoop) /\ WF_v(Poll) /\ WF_v(Read)
      /\ WF_v(PublishDiagnostics) /\ WF_v(SpinReturns) /\ WF_v(Join)
=============================================================================
