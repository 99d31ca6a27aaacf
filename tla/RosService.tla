----------------------------- MODULE RosService -----------------------------
(***************************************************************************)
(* lsm6dsox-ros.service with the scripts it runs: ExecStartPre enables the *)
(* buffer, ExecStart is the node, ExecStopPost disables the buffer however *)
(* the service ended; Restart=on-failure two seconds later, at most        *)
(* StartLimit times in StartLimitIntervalSec.  systemd is external and     *)
(* modelled from what the unit file asks of it.                            *)
(***************************************************************************)
EXTENDS ImuPublisher

CONSTANT StartLimit   \* StartLimitBurst

ASSUME ServiceAssumption == StartLimit \in Nat

VARIABLE service

ServiceTypeOK ==
  service \in [unit : {"dead", "start-pre", "running", "stop-sigterm",
                       "stop-post", "auto-restart", "failed"},
               step : {"none", "zero", "layout", "one", "check"},
               failed : BOOLEAN,      \* the result of this run of the service
               stopping : BOOLEAN,    \* an explicit stop forbids a restart
               starts : 0..StartLimit,
               cleaned : BOOLEAN,     \* the last disable script succeeded
               killed : BOOLEAN]      \* a stop had to use SIGKILL

ServiceInit ==
  service = [unit |-> "dead", step |-> "none", failed |-> FALSE,
             stopping |-> FALSE, starts |-> 0, cleaned |-> TRUE, killed |-> FALSE]

(* ExecStartPre begins, unless the service was started too often.           *)
Begun ==
  IF service.starts = StartLimit
  THEN [service EXCEPT !.unit = "failed"]
  ELSE [service EXCEPT !.unit = "start-pre", !.step = "zero", !.failed = FALSE,
                       !.starts = @ + 1]

SkipsStopPost(s) ==        \* Mutation: nothing cleans up after a failed start.
  [s EXCEPT !.unit = IF s.step = "none" THEN "stop-post" ELSE "failed",
            !.step = "none"]

(* Every run ends with ExecStopPost, also one that failed to start.         *)
Ended(s) == [s EXCEPT !.unit = "stop-post", !.step = "none"]

Start ==
  /\ service.unit \in {"dead", "failed"}
  /\ service' = [Begun EXCEPT !.stopping = FALSE]
  /\ UNCHANGED <<dev, node>>
-----------------------------------------------------------------------------
(* enable_lsm6dsox_buffer.sh, one write to sysfs a step; any may fail, the  *)
(* layout cannot be changed under an enabled buffer, and even with the      *)
(* buffer on the script fails if the node could not read the device.        *)
Succeeds(next) == service' = [service EXCEPT !.step = next]

WriteZero ==
  /\ service.step = "zero" /\ dev.present
  /\ dev' = Disabled(dev) /\ Succeeds("layout")
  /\ UNCHANGED node

WriteLayout ==
  /\ service.step = "layout" /\ dev.present /\ ~dev.buffer
  /\ Succeeds("one")
  /\ UNCHANGED <<dev, node>>

WriteOne ==
  /\ service.step = "one" /\ dev.present
  /\ dev' = Enabled(dev) /\ Succeeds("check")
  /\ UNCHANGED node

(* ... then ExecStart.                                                      *)
CheckReadable ==
  /\ service.step = "check" /\ dev.present
  /\ service' = [service EXCEPT !.unit = "running", !.step = "none"]
  /\ node' = Launched
  /\ UNCHANGED dev

EnableFails ==
  /\ service.unit = "start-pre"
  /\ service' = Ended([service EXCEPT !.failed = TRUE])
  /\ UNCHANGED <<dev, node>>
-----------------------------------------------------------------------------
(* The main process has exited: on its own, or after SIGINT.                *)
NodeExits ==
  /\ service.unit \in {"running", "stop-sigterm"} /\ node.proc = "exited"
  /\ service' = Ended([service EXCEPT !.failed = @ \/ ~node.clean])
  /\ node' = NoProcess
  /\ UNCHANGED dev

(* systemctl stop; KillSignal=SIGINT goes to all processes of the service.  *)
Stop ==
  /\ service.unit \notin {"dead", "failed"} /\ ~service.stopping
  /\ LET s == [service EXCEPT !.stopping = TRUE]
     IN  CASE service.unit = "start-pre" -> service' = Ended(s) /\ UNCHANGED node
           [] service.unit = "running" ->
                /\ service' = [s EXCEPT !.unit = "stop-sigterm"]
                /\ node' = Interrupted
           [] service.unit = "stop-post" -> service' = s /\ UNCHANGED node
           [] OTHER -> service' = [s EXCEPT !.unit = "dead"] /\ UNCHANGED node
  /\ UNCHANGED dev

(* Ctrl-C or a signal from elsewhere, with no stop of the service.          *)
Signal ==
  /\ service.unit = "running" /\ Interrupted # node
  /\ node' = Interrupted
  /\ UNCHANGED <<dev, service>>

NeverKilled == FALSE       \* Mutation: TimeoutStopSec=infinity.

(* TimeoutStopSec is a hundred times the poll timeout: it strikes only a    *)
(* node that cannot go on.                                                  *)
TimesOut == service.unit = "stop-sigterm" /\ Hangs

Kill ==
  /\ TimesOut
  /\ Dies(FALSE)
  /\ service' = [service EXCEPT !.killed = TRUE, !.failed = TRUE]
-----------------------------------------------------------------------------
RestartsCleanExit(s) ==    \* Mutation: Restart=on-success.
  ~s.failed /\ ~s.stopping

(* Restart=on-failure                                                       *)
ShallRestart(s) == s.failed /\ ~s.stopping

(* disable_lsm6dsox_buffer.sh: it may fail too, for want of a device or     *)
(* else, and makes the run a failure.                                       *)
StopPost ==
  /\ service.unit = "stop-post"
  /\ \E ok \in {TRUE, FALSE} :
       LET s == [service EXCEPT !.failed = @ \/ ~ok, !.cleaned = ok]
       IN  /\ ok => dev.present
           /\ dev' = IF ok THEN Disabled(dev) ELSE dev
           /\ service' =
                [s EXCEPT !.unit = IF ShallRestart(s) THEN "auto-restart"
                                   ELSE IF s.failed THEN "failed" ELSE "dead"]
  /\ UNCHANGED node

Restart ==
  /\ service.unit = "auto-restart"
  /\ service' = Begun
  /\ UNCHANGED <<dev, node>>

(* StartLimitIntervalSec passes while the service is up or down for long.   *)
IntervalPasses ==
  /\ service.unit \in {"running", "dead", "failed"} /\ service.starts > 0
  /\ service' = [service EXCEPT !.starts = 0]
  /\ UNCHANGED <<dev, node>>

Script == WriteZero \/ WriteLayout \/ WriteOne \/ CheckReadable \/ EnableFails
ServiceNext ==
  \/ Script \/ StopPost \/ NodeExits \/ Restart \/ Kill
  \/ Start \/ Stop \/ Signal \/ IntervalPasses

(* Scripts end, systemd reacts; nobody has to start or stop the service.    *)
ServiceFairness ==
  LET v == <<dev, node, service>>
  IN  WF_v(Script) /\ WF_v(StopPost) /\ WF_v(NodeExits) /\ WF_v(Restart) /\ WF_v(Kill)
=============================================================================
