------------------------------ MODULE Pipeline ------------------------------
(***************************************************************************)
(* The programs of user space together: the service with the ROS 2 node,   *)
(* the raw reader and people with a shell, all on one IIO device whose     *)
(* driver may be unbound and bound again under them.                       *)
(***************************************************************************)
EXTENDS RosService, RawReader

pvars == <<dev, node, service, raw>>

PipelineTypeOK == DevTypeOK /\ NodeTypeOK /\ ServiceTypeOK /\ RawTypeOK

PipelineInit == DevInit /\ NodeInit /\ ServiceInit /\ RawInit

PipelineNext ==
  \/ DevNext /\ UNCHANGED <<node, service, raw>>
  \/ NodeNext /\ UNCHANGED <<service, raw>>
  \/ ServiceNext /\ UNCHANGED raw
  \/ RawNext /\ UNCHANGED <<node, service>>

PipelineSpec ==
  /\ PipelineInit /\ [][PipelineNext]_pvars
  /\ NodeFairness /\ ServiceFairness /\ WF_<<dev, raw>>(RawProgress)
-----------------------------------------------------------------------------
Down == service.unit \in {"dead", "failed", "auto-restart"}

(* "The cleanup step disables the IIO buffer in both cases": no end of the  *)
(* service - a stop in the middle of ExecStartPre, a half-run enable        *)
(* script, a crash, a kill - leaves the buffer on or a process behind,      *)
(* unless the disable script itself failed or someone switched by hand.     *)
CleanedUp ==
  Down =>
    /\ node.proc = "none"
    /\ service.cleaned /\ ~dev.byhand => ~dev.buffer

(* "poll() wakes every 100 ms, notices this flag, and leaves the read       *)
(* loop": a stop never needs SIGKILL, unless someone has emptied the queue  *)
(* by hand between poll and read.                                           *)
StopsInTime == service.killed => dev.byhand

(* An explicit stop comes to its end and is not undone by a restart.        *)
StopCompletes ==
  service.stopping ~> service.unit \in {"dead", "failed"}

(* After a crash of the node the service runs again, unless its start limit *)
(* is reached or somebody stops it.                                         *)
Crashed == service.unit = "running" /\ node.proc = "exited" /\ ~node.clean
Recovered == service.unit = "running" /\ node.proc = "script"
GivenUp == service.unit = "failed" /\ service.starts = StartLimit

FailureRecovers ==
  Crashed ~> Recovered \/ GivenUp \/ service.stopping

(* poll() says nothing of a device that is gone; the diagnostics do.        *)
LossReported ==
  node.proc = "spinning" /\ ~dev.present
    ~> node.diag = "ERROR" \/ dev.present \/ node.proc # "spinning"

(* Ctrl-C ends the raw reader, unless it comes just before a read that      *)
(* finds no frame.                                                          *)
RawStops ==
  raw.signals = 1 ~> raw.at = "none" \/ (raw.at = "read" /\ ReadBlocks(raw.file))
-----------------------------------------------------------------------------
(* "an unexpected node failure runs the buffer cleanup step, waits two      *)
(* seconds, then enables the buffer and starts the node again"; a node      *)
(* without its reader thread has failed.                                    *)
NodeFailureRestarts ==
  node.reader = "failed" ~> service.unit # "running"
=============================================================================
