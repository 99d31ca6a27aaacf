--------------------------- MODULE PipelineProofs ---------------------------
(***************************************************************************)
(* Theorems about the programs of user space on one IIO device, for every  *)
(* watermark, every length of the queue, every start limit and any number  *)
(* of times the driver is bound.                                           *)
(***************************************************************************)
EXTENDS Pipeline, TLAPS

DevType ==
  [present : BOOLEAN, binds : 0..MaxBinds, buffer : BOOLEAN, sized : BOOLEAN,
   frames : 0..Length, owner : {"none", "node", "raw"}, byhand : BOOLEAN]

(* The queue is empty until a scan layout is in force, and a buffer cannot  *)
(* be enabled without.                                                      *)
DevInv ==
  /\ dev \in DevType
  /\ dev.binds > 0
  /\ dev.buffer => dev.sized
  /\ ~dev.sized => dev.frames = 0

(* The device belongs to the process whose file is alive, therefore no      *)
(* other takes the frames poll has promised to the reader thread.           *)
FileInv ==
  /\ node.file \in 0..dev.binds /\ raw.file \in 0..dev.binds
  /\ Alive(node.file) => dev.owner = "node"
  /\ Alive(raw.file) => dev.owner = "raw"
  /\ node.reader # "none" => node.proc \in {"spinning", "leaving"}
  /\ node.reader = "reading" /\ Alive(node.file)
       => dev.sized /\ (dev.byhand \/ dev.frames > 0)

(* A process runs, and a step of the enable script is due, only in the      *)
(* states of the unit that wait for them; SIGINT is sent by a stop.         *)
UnitInv ==
  /\ node.proc # "none" => service.unit \in {"running", "stop-sigterm"}
  /\ service.step # "none" => service.unit = "start-pre"
  /\ service.unit = "stop-sigterm" => service.stopping
  /\ Down /\ service.cleaned /\ ~dev.byhand => ~dev.buffer
  /\ StopsInTime

NodeType ==
  [proc : {"none", "script", "starting", "spinning", "leaving", "exited"},
   asked : BOOLEAN, clean : BOOLEAN,
   reader : {"none", "polling", "reading", "ended", "failed"},
   file : 0..MaxBinds, diag : {"none", "OK", "WARN", "ERROR"}]

ServiceType ==
  [unit : {"dead", "start-pre", "running", "stop-sigterm", "stop-post",
           "auto-restart", "failed"},
   step : {"none", "zero", "layout", "one", "check"},
   failed : BOOLEAN, stopping : BOOLEAN, starts : 0..StartLimit,
   cleaned : BOOLEAN, killed : BOOLEAN]

RawType ==
  [at : {"none", "loop", "entering", "read"}, file : 0..MaxBinds, signals : 0..1]

Others == node \in NodeType /\ service \in ServiceType /\ raw \in RawType

PipelineInv == DevInv /\ Others /\ FileInv /\ UnitInv

LEMMA Starts == PipelineInit => PipelineInv
<1> SUFFICES ASSUME PipelineInit PROVE PipelineInv
  OBVIOUS
<1> USE DeviceAssumption, ServiceAssumption
    DEF PipelineInit, DevInit, Bound, NodeInit, NoProcess, ServiceInit, RawInit, NotRunning
<1>1. DevInv
  BY DEF DevInv, DevType
<1>2. Others
  BY DEF Others, NodeType, ServiceType, RawType
<1>3. FileInv
  BY DEF FileInv, Alive
<1>4. UnitInv
  BY DEF UnitInv, Down, StopsInTime
<1> QED
  BY <1>1, <1>2, <1>3, <1>4 DEF PipelineInv

-----------------------------------------------------------------------------
(* What an update of the device record changes.                             *)
LEMMA Members ==
  /\ 0 \in 0..Length /\ TRUE \in BOOLEAN /\ FALSE \in BOOLEAN
  /\ {"none", "node", "raw"} = {"none"} \cup {"node"} \cup {"raw"}
  /\ Length \in Nat /\ MaxBinds \in Nat /\ Watermark \in Nat \ {0}
  /\ 1 \in 0..MaxBinds /\ StartLimit \in Nat
BY DeviceAssumption, ServiceAssumption

LEMMA DisabledFields ==
  ASSUME NEW d \in DevType
  PROVE  /\ Disabled(d) \in DevType /\ ~Disabled(d).buffer
         /\ Disabled(d).present = d.present /\ Disabled(d).binds = d.binds
         /\ Disabled(d).sized = d.sized /\ Disabled(d).frames = d.frames
         /\ Disabled(d).owner = d.owner /\ Disabled(d).byhand = d.byhand
<1>1. Disabled(d) \in DevType
  BY Members DEF DevType, Disabled
<1> QED
  BY <1>1 DEF DevType, Disabled

LEMMA EnabledFields ==
  ASSUME NEW d \in DevType, d.buffer => d.sized
  PROVE  /\ Enabled(d) \in DevType
         /\ Enabled(d).buffer /\ Enabled(d).sized
         /\ Enabled(d).present = d.present /\ Enabled(d).binds = d.binds
         /\ Enabled(d).owner = d.owner /\ Enabled(d).byhand = d.byhand
<1>1. CASE d.buffer
  BY <1>1 DEF Enabled
<1>2. CASE ~d.buffer
  <2> DEFINE e == [d EXCEPT !.buffer = TRUE, !.sized = TRUE, !.frames = 0]
  <2>1. e \in DevType
    BY Members DEF DevType
  <2>2. /\ e.buffer /\ e.sized
        /\ e.present = d.present /\ e.binds = d.binds
        /\ e.owner = d.owner /\ e.byhand = d.byhand
    BY DEF DevType
  <2>3. Enabled(d) = e
    BY <1>2 DEF Enabled
  <2> HIDE DEF e
  <2> QED
    BY <2>1, <2>2, <2>3
<1> QED
  BY <1>1, <1>2

(* Marking a device as switched by hand changes nothing else.               *)
LEMMA ByHandFields ==
  ASSUME NEW d \in DevType, NEW e, e = [d EXCEPT !.byhand = TRUE]
  PROVE  /\ e \in DevType /\ e.byhand
         /\ e.present = d.present /\ e.binds = d.binds /\ e.buffer = d.buffer
         /\ e.sized = d.sized /\ e.frames = d.frames /\ e.owner = d.owner
<1>1. [d EXCEPT !.byhand = TRUE] \in DevType
  BY Members DEF DevType
<1> QED
  BY <1>1 DEF DevType

(* Changing the owner changes nothing else.                                 *)
LEMMA OwnerFields ==
  ASSUME NEW d \in DevType, NEW o \in {"none", "node", "raw"},
         NEW e, e = [d EXCEPT !.owner = o]
  PROVE  /\ e \in DevType /\ e.owner = o
         /\ e.present = d.present /\ e.binds = d.binds /\ e.buffer = d.buffer
         /\ e.sized = d.sized /\ e.frames = d.frames /\ e.byhand = d.byhand
<1>1. [d EXCEPT !.owner = o] \in DevType
  BY DEF DevType
<1> QED
  BY <1>1 DEF DevType

(* Another number of frames is another number of frames.                    *)
LEMMA FramesFields ==
  ASSUME NEW d \in DevType, NEW n \in 0..Length, NEW e, e = [d EXCEPT !.frames = n]
  PROVE  /\ e \in DevType /\ e.frames = n
         /\ e.present = d.present /\ e.binds = d.binds /\ e.buffer = d.buffer
         /\ e.sized = d.sized /\ e.owner = d.owner /\ e.byhand = d.byhand
<1>1. [d EXCEPT !.frames = n] \in DevType
  BY DEF DevType
<1> QED
  BY <1>1 DEF DevType

LEMMA ClosedFields ==
  ASSUME dev \in DevType, NEW file, dev' = Closed(file)
  PROVE  /\ dev' \in DevType
         /\ dev'.present = dev.present /\ dev'.binds = dev.binds
         /\ dev'.buffer = dev.buffer /\ dev'.sized = dev.sized
         /\ dev'.frames = dev.frames /\ dev'.byhand = dev.byhand
         /\ dev'.owner = IF Alive(file) THEN "none" ELSE dev.owner
<1>1. CASE Alive(file)
  BY <1>1, OwnerFields DEF Closed
<1>2. CASE ~Alive(file)
  BY <1>2 DEF Closed
<1> QED
  BY <1>1, <1>2
-----------------------------------------------------------------------------
(* The device on its own, under programs that do nothing.                   *)
LEMMA DevSteps ==
  ASSUME PipelineInv, DevNext, UNCHANGED <<node, service, raw>>
  PROVE  PipelineInv'
<1> dev \in DevType /\ DevInv /\ FileInv /\ UnitInv /\ Others
  BY DEF PipelineInv, DevInv
<1>0. Others'
  BY DEF Others, NodeType, ServiceType, RawType
<1>1. CASE Push
  <2>1. dev.frames + 1 \in 0..Length /\ dev.buffer /\ dev.sized
    BY <1>1, Members DEF Push, DevInv, DevType
  <2>2. /\ dev' \in DevType /\ dev'.frames = dev.frames + 1
        /\ dev'.present = dev.present /\ dev'.binds = dev.binds
        /\ dev'.buffer = dev.buffer /\ dev'.sized = dev.sized
        /\ dev'.owner = dev.owner /\ dev'.byhand = dev.byhand
    <3> DEFINE n == dev.frames + 1
    <3>1. dev' = [dev EXCEPT !.frames = n]
      BY <1>1 DEF Push
    <3>2. n \in 0..Length
      BY <2>1
    <3> HIDE DEF n
    <3>3. /\ dev' \in DevType /\ dev'.frames = n
          /\ dev'.present = dev.present /\ dev'.binds = dev.binds
          /\ dev'.buffer = dev.buffer /\ dev'.sized = dev.sized
          /\ dev'.owner = dev.owner /\ dev'.byhand = dev.byhand
      BY <3>1, <3>2, FramesFields
    <3> QED
      BY <3>3 DEF n
  <2>3. DevInv'
    BY <2>1, <2>2 DEF DevInv, DevType
  <2>4. FileInv' /\ UnitInv'
    BY <2>1, <2>2 DEF DevType, FileInv, UnitInv, Alive, Down, StopsInTime
  <2> QED
    BY <1>0, <2>3, <2>4 DEF PipelineInv
<1>2. CASE Unbind
  <2>1. dev' \in DevType
    <3>1. [dev EXCEPT !.present = FALSE, !.buffer = FALSE, !.frames = 0,
                      !.owner = "none", !.sized = FALSE] \in DevType
      BY Members, "none" \in {"none", "node", "raw"} DEF DevType
    <3> QED
      BY <1>2, <3>1 DEF Unbind
  <2>2. /\ ~dev'.present /\ ~dev'.buffer /\ dev'.frames = 0 /\ ~dev'.sized
        /\ dev'.binds = dev.binds /\ dev'.byhand = dev.byhand
    BY <1>2 DEF Unbind, DevType
  <2>3. DevInv'
    BY <2>1, <2>2 DEF DevInv
  <2>4. FileInv' /\ UnitInv'
    BY <2>2 DEF FileInv, UnitInv, Alive, Down, StopsInTime
  <2> QED
    BY <1>0, <2>3, <2>4 DEF PipelineInv
<1>3. CASE Bind
  <2>1. dev.binds \in 0..MaxBinds /\ dev.binds + 1 \in 0..MaxBinds
    BY <1>3, Members DEF Bind, DevType
  <2>2. Bound(dev.binds + 1) \in DevType
    BY <2>1, Members DEF Bound, DevType
  <2>3. /\ dev' \in DevType /\ dev'.present /\ ~dev'.buffer /\ ~dev'.sized
        /\ dev'.frames = 0 /\ dev'.binds = dev.binds + 1
        /\ dev'.byhand = dev.byhand
    <3>1. dev.byhand \in BOOLEAN
      BY DEF DevType
    <3>2. [Bound(dev.binds + 1) EXCEPT !.byhand = dev.byhand] \in DevType
      BY <2>2, <3>1 DEF DevType
    <3>3. dev' \in DevType
      BY <1>3, <3>2 DEF Bind
    <3>4. /\ dev'.present /\ ~dev'.buffer /\ ~dev'.sized
          /\ dev'.frames = 0 /\ dev'.binds = dev.binds + 1
          /\ dev'.byhand = dev.byhand
      BY <1>3, <2>2 DEF Bind, DevType, Bound
    <3> QED
      BY <3>3, <3>4
  <2>4. DevInv'
    BY <2>1, <2>3 DEF DevInv
  <2>5. FileInv' /\ UnitInv'
    BY <2>1, <2>3 DEF FileInv, UnitInv, Alive, Down, StopsInTime
  <2> QED
    BY <1>0, <2>4, <2>5 DEF PipelineInv
<1>4. CASE SwitchByHand
  <2> DEFINE off == Disabled(dev)
  <2>1. /\ off \in DevType /\ ~off.buffer /\ off.present = dev.present
        /\ off.binds = dev.binds /\ off.sized = dev.sized
        /\ off.frames = dev.frames /\ off.owner = dev.owner
    BY DisabledFields
  <2>2. /\ Enabled(off) \in DevType /\ Enabled(off).sized
        /\ Enabled(off).present = dev.present /\ Enabled(off).binds = dev.binds
        /\ Enabled(off).owner = dev.owner
    BY <2>1, EnabledFields
  <2> HIDE DEF off
  <2>3. /\ dev' \in DevType /\ dev'.byhand
        /\ dev'.present = dev.present /\ dev'.binds = dev.binds
        /\ dev'.owner = dev.owner
        /\ \/ dev'.sized
           \/ ~dev'.buffer /\ dev'.sized = dev.sized /\ dev'.frames = dev.frames
    <3>1. CASE dev' = [Enabled(off) EXCEPT !.byhand = TRUE]
      BY <2>2, <3>1, ByHandFields
    <3>2. CASE dev' = [off EXCEPT !.byhand = TRUE]
      BY <2>1, <3>2, ByHandFields
    <3> QED
      BY <1>4, <3>1, <3>2 DEF SwitchByHand, off
  <2>4. DevInv'
    BY <2>3 DEF DevInv
  <2>5. FileInv' /\ UnitInv'
    BY <2>3 DEF FileInv, UnitInv, Alive, Down, StopsInTime, DevInv
  <2> QED
    BY <1>0, <2>4, <2>5 DEF PipelineInv
<1> QED
  BY <1>1, <1>2, <1>3, <1>4 DEF DevNext
-----------------------------------------------------------------------------
(* What an update of the node's record changes.                             *)
LEMMA ReaderFields ==
  ASSUME NEW p \in NodeType,
         NEW r \in {"none", "polling", "reading", "ended", "failed"},
         NEW q, q = [p EXCEPT !.reader = r]
  PROVE  q \in NodeType /\ q.reader = r /\ q.proc = p.proc /\ q.file = p.file
<1>1. [p EXCEPT !.reader = r] \in NodeType
  BY DEF NodeType
<1> QED
  BY <1>1 DEF NodeType

LEMMA ProcFields ==
  ASSUME NEW p \in NodeType,
         NEW r \in {"none", "script", "starting", "spinning", "leaving", "exited"},
         NEW q, q = [p EXCEPT !.proc = r]
  PROVE  q \in NodeType /\ q.proc = r /\ q.reader = p.reader /\ q.file = p.file
<1>1. [p EXCEPT !.proc = r] \in NodeType
  BY DEF NodeType
<1> QED
  BY <1>1 DEF NodeType

LEMMA NoProcessFields ==
  /\ NoProcess \in NodeType /\ NoProcess.proc = "none"
  /\ NoProcess.reader = "none" /\ NoProcess.file = 0
BY Members DEF NodeType, NoProcess

LEMMA LaunchedFields ==
  /\ Launched \in NodeType /\ Launched.proc = "script"
  /\ Launched.reader = "none" /\ Launched.file = 0
BY NoProcessFields, ProcFields DEF Launched

LEMMA ExitedFields ==
  ASSUME NEW clean \in BOOLEAN
  PROVE  /\ Exited(clean) \in NodeType /\ Exited(clean).proc = "exited"
         /\ Exited(clean).reader = "none" /\ Exited(clean).file = 0
<1>1. [NoProcess EXCEPT !.proc = "exited", !.clean = clean] \in NodeType
  BY Members, NoProcessFields,
     "exited" \in {"none", "script", "starting", "spinning", "leaving", "exited"}
  DEF NodeType
<1> QED
  BY <1>1, NoProcessFields DEF NodeType, Exited

(* SIGINT: the process is asked to end, or the script dies.                 *)
LEMMA InterruptedFields ==
  ASSUME node \in NodeType, node.reader # "none" => node.proc # "script"
  PROVE  /\ Interrupted \in NodeType
         /\ Interrupted.proc # "none" => node.proc # "none"
         /\ Interrupted.reader = node.reader
         /\ Interrupted.file = node.file \/ Interrupted.file = 0
         /\ Interrupted.proc = node.proc \/ Interrupted.reader = "none"
<1>1. CASE node.proc = "script"
  <2>1. Interrupted = Exited(TRUE)
    BY <1>1 DEF Interrupted
  <2> QED
    BY <1>1, <2>1, ExitedFields, Members
<1>2. CASE node.proc \in {"starting", "spinning", "leaving"}
  <2>1. Interrupted = [node EXCEPT !.asked = TRUE]
    BY <1>2 DEF Interrupted
  <2>2. [node EXCEPT !.asked = TRUE] \in NodeType
    BY Members DEF NodeType
  <2> QED
    BY <2>1, <2>2 DEF NodeType
<1>3. CASE node.proc \notin {"script", "starting", "spinning", "leaving"}
  BY <1>3 DEF Interrupted
<1> QED
  BY <1>1, <1>2, <1>3
-----------------------------------------------------------------------------
(* A step of the node that leaves the device alone.                         *)
LEMMA NodeAlone ==
  ASSUME PipelineInv, UNCHANGED <<dev, service, raw>>,
         node' \in NodeType, node'.file = node.file,
         node'.proc # "none" => node.proc # "none",
         node'.reader # "none" => node'.proc \in {"spinning", "leaving"},
         node'.reader = "reading" =>
           node.reader = "reading" \/ (dev.sized /\ dev.frames > 0)
  PROVE  PipelineInv'
<1>1. DevInv' /\ Others'
  BY DEF PipelineInv, DevInv, Others
<1>2. FileInv' /\ UnitInv'
  BY DEF PipelineInv, FileInv, UnitInv, Alive, Down, StopsInTime
<1> QED
  BY <1>1, <1>2 DEF PipelineInv

(* The node's process ends: its file is closed, and it was its own.         *)
LEMMA NodeDies ==
  ASSUME PipelineInv, NEW clean \in BOOLEAN, Dies(clean), node.proc # "none",
         UNCHANGED <<service, raw>>
  PROVE  PipelineInv'
<1> dev \in DevType /\ DevInv /\ FileInv /\ UnitInv /\ Others
  BY DEF PipelineInv, DevInv
<1>1. /\ node' \in NodeType /\ node'.proc = "exited"
      /\ node'.reader = "none" /\ node'.file = 0
  BY ExitedFields DEF Dies
<1>2. /\ dev' \in DevType
      /\ dev'.present = dev.present /\ dev'.binds = dev.binds
      /\ dev'.buffer = dev.buffer /\ dev'.sized = dev.sized
      /\ dev'.frames = dev.frames /\ dev'.byhand = dev.byhand
      /\ dev'.owner = IF Alive(node.file) THEN "none" ELSE dev.owner
  BY ClosedFields DEF Dies
<1>3. DevInv' /\ Others'
  BY <1>1, <1>2 DEF DevInv, Others
<1>4. FileInv'
  <2>1. dev.binds \in Nat /\ dev.binds > 0
    BY DEF DevInv, DevType
  <2> QED
    BY <1>1, <1>2, <2>1 DEF FileInv, Alive
<1>5. UnitInv'
  BY <1>1, <1>2 DEF UnitInv, Down, StopsInTime
<1> QED
  BY <1>3, <1>4, <1>5 DEF PipelineInv

LEMMA NodeSteps ==
  ASSUME PipelineInv, NodeNext, UNCHANGED <<service, raw>>
  PROVE  PipelineInv'
<1> dev \in DevType /\ DevInv /\ FileInv /\ UnitInv /\ Others /\ node \in NodeType
  BY DEF PipelineInv, DevInv, Others
<1>1. CASE RunScript
  <2>1. CASE node' = [node EXCEPT !.proc = "starting"]
    <3>1. node' \in NodeType /\ node'.reader = node.reader /\ node'.file = node.file
      BY <2>1, ProcFields
    <3>2. node.reader = "none"
      BY <1>1 DEF RunScript, FileInv
    <3> QED
      BY <1>1, <3>1, <3>2, NodeAlone DEF RunScript
  <2>2. CASE node' = Exited(FALSE)
    <3>1. /\ node' \in NodeType /\ node'.reader = "none" /\ node'.file = 0
      BY <2>2, ExitedFields, Members
    <3>2. UNCHANGED dev /\ node.proc # "none"
      BY <1>1 DEF RunScript
    <3>3. DevInv' /\ Others'
      BY <3>1, <3>2 DEF DevInv, Others
    <3>4. FileInv' /\ UnitInv'
      BY <3>1, <3>2 DEF FileInv, UnitInv, Alive, Down, StopsInTime, DevInv, DevType
    <3> QED
      BY <3>3, <3>4 DEF PipelineInv
  <2> QED
    BY <1>1, <2>1, <2>2 DEF RunScript
<1>2. CASE Construct
  <2>1. CASE Dies(FALSE)
    BY <1>2, <2>1, NodeDies, Members DEF Construct
  <2>2. CASE /\ dev.present /\ dev.owner = "none" /\ dev' = Opened("node")
             /\ node' = [node EXCEPT !.proc = "spinning", !.reader = "polling",
                                     !.file = dev.binds]
    <3>1. /\ dev' \in DevType /\ dev'.owner = "node"
          /\ dev'.present = dev.present /\ dev'.binds = dev.binds
          /\ dev'.buffer = dev.buffer /\ dev'.sized = dev.sized
          /\ dev'.frames = dev.frames /\ dev'.byhand = dev.byhand
      <4>1. dev' = [dev EXCEPT !.owner = "node"]
        BY <2>2 DEF Opened
      <4> QED
        BY <4>1, OwnerFields
    <3>2. dev.binds \in 0..MaxBinds
      BY DEF DevType
    <3>3. [node EXCEPT !.proc = "spinning", !.reader = "polling",
                       !.file = dev.binds] \in NodeType
      BY <3>2, "polling" \in {"none", "polling", "reading", "ended", "failed"},
         "spinning" \in {"none", "script", "starting", "spinning", "leaving", "exited"}
      DEF NodeType
    <3>4. /\ node' \in NodeType /\ node'.proc = "spinning"
          /\ node'.reader = "polling" /\ node'.file = dev.binds
      BY <2>2, <3>3 DEF NodeType
    <3>5. DevInv' /\ Others'
      BY <3>1, <3>4 DEF DevInv, Others
    <3>6. FileInv' /\ UnitInv'
      BY <1>2, <2>2, <3>1, <3>2, <3>4, Members
      DEF Construct, FileInv, UnitInv, Alive, Down, StopsInTime
    <3> QED
      BY <3>5, <3>6 DEF PipelineInv
  <2> QED
    BY <1>2, <2>1, <2>2 DEF Construct, DeviceFound, SysfsReadable
<1>3. CASE LeaveLoop
  <2>1. node' \in NodeType /\ node'.reader = "ended" /\ node'.proc = node.proc
        /\ node'.file = node.file
    BY <1>3, ReaderFields DEF LeaveLoop
  <2>2. node.proc \in {"spinning", "leaving"} /\ UNCHANGED dev
    BY <1>3 DEF LeaveLoop, FileInv
  <2> QED
    BY <2>1, <2>2, NodeAlone
<1>4. CASE Poll
  <2>1. node' \in NodeType /\ node'.reader = "reading" /\ node'.proc = node.proc
        /\ node'.file = node.file
    BY <1>4, ReaderFields DEF Poll
  <2>2. node.proc \in {"spinning", "leaving"} /\ UNCHANGED dev
    BY <1>4 DEF Poll, FileInv
  <2>3. dev.frames > 0
    BY <1>4, Members DEF Poll, PollIn, Ready, DevType
  <2>4. dev.sized
    BY <2>3 DEF DevInv
  <2> QED
    BY <2>1, <2>2, <2>3, <2>4, NodeAlone
<1>5. CASE PollFails
  <2>1. node' \in NodeType /\ node'.reader = "failed" /\ node'.proc = node.proc
        /\ node'.file = node.file
    BY <1>5, ReaderFields DEF PollFails
  <2>2. node.proc \in {"spinning", "leaving"} /\ UNCHANGED dev
    BY <1>5 DEF PollFails, FileInv
  <2> QED
    BY <2>1, <2>2, NodeAlone
<1>6. CASE Read
  <2>1. node.reader = "reading" /\ node.proc \in {"spinning", "leaving"}
    BY <1>6 DEF Read, FileInv
  <2>2. CASE ~Alive(node.file)
    <3>1. node' = [node EXCEPT !.reader = "failed"] /\ UNCHANGED dev
      BY <1>6, <2>2 DEF Read
    <3>2. node' \in NodeType /\ node'.reader = "failed" /\ node'.proc = node.proc
          /\ node'.file = node.file
      BY <3>1, ReaderFields
    <3> QED
      BY <2>1, <3>1, <3>2, NodeAlone
  <2>3. CASE Alive(node.file)
    <3> DEFINE n == dev.frames - 1
               r == IF LoopEnds THEN "ended" ELSE "polling"
    <3>1. dev' = [dev EXCEPT !.frames = n] /\ node' = [node EXCEPT !.reader = r]
      BY <1>6, <2>3 DEF Read
    <3>2. dev.sized
      BY <2>1, <2>3 DEF FileInv
    <3>3. n \in 0..Length
      BY <1>6, <2>3, <3>2, Members DEF Read, ReadBlocks, Ready, DevType
    <3>4. r \in {"ended", "polling"}
      OBVIOUS
    <3> HIDE DEF n, r
    <3>5. /\ dev' \in DevType /\ dev'.frames = n
          /\ dev'.present = dev.present /\ dev'.binds = dev.binds
          /\ dev'.buffer = dev.buffer /\ dev'.sized = dev.sized
          /\ dev'.owner = dev.owner /\ dev'.byhand = dev.byhand
      BY <3>1, <3>3, FramesFields
    <3>6. /\ node' \in NodeType /\ node'.reader = r
          /\ node'.proc = node.proc /\ node'.file = node.file
      BY <3>1, <3>4, ReaderFields
    <3>7. DevInv' /\ Others'
      BY <3>2, <3>5, <3>6 DEF DevInv, Others
    <3>8. FileInv' /\ UnitInv'
      BY <2>1, <3>4, <3>5, <3>6 DEF FileInv, UnitInv, Alive, Down, StopsInTime
    <3> QED
      BY <3>7, <3>8 DEF PipelineInv
  <2> QED
    BY <2>2, <2>3
<1>7. CASE PublishDiagnostics
  <2>1. PICK level \in Levels : node' = [node EXCEPT !.diag = level]
    BY <1>7 DEF PublishDiagnostics
  <2>2. level \in {"none", "OK", "WARN", "ERROR"}
    BY <2>1 DEF Levels
  <2>3. [node EXCEPT !.diag = level] \in NodeType
    BY <2>2 DEF NodeType
  <2>4. /\ node' \in NodeType /\ node'.reader = node.reader
        /\ node'.proc = node.proc /\ node'.file = node.file
    BY <2>1, <2>3 DEF NodeType
  <2> QED
    BY <1>7, <2>4, NodeAlone DEF PublishDiagnostics, FileInv
<1>8. CASE SpinReturns
  <2>1. node' \in NodeType /\ node'.proc = "leaving" /\ node'.reader = node.reader
        /\ node'.file = node.file
    BY <1>8, ProcFields DEF SpinReturns
  <2> QED
    BY <1>8, <2>1, NodeAlone DEF SpinReturns
<1>9. CASE Join
  BY <1>9, NodeDies, Members DEF Join
<1>10. CASE Crash
  BY <1>10, NodeDies, Members DEF Crash
<1> QED
  BY <1>1, <1>2, <1>3, <1>4, <1>5, <1>6, <1>7, <1>8, <1>9, <1>10 DEF NodeNext
-----------------------------------------------------------------------------
(* The raw reader closes the file, which was its own.                       *)
LEMMA RawQuits ==
  ASSUME PipelineInv, Quit, UNCHANGED <<node, service>>
  PROVE  PipelineInv'
<1> dev \in DevType /\ DevInv /\ FileInv /\ UnitInv /\ Others
  BY DEF PipelineInv, DevInv
<1>1. raw' \in RawType /\ raw'.file = 0
  BY Members DEF Quit, NotRunning, RawType
<1>2. /\ dev' \in DevType
      /\ dev'.present = dev.present /\ dev'.binds = dev.binds
      /\ dev'.buffer = dev.buffer /\ dev'.sized = dev.sized
      /\ dev'.frames = dev.frames /\ dev'.byhand = dev.byhand
      /\ dev'.owner = IF Alive(raw.file) THEN "none" ELSE dev.owner
  BY ClosedFields DEF Quit
<1>3. DevInv' /\ Others'
  BY <1>1, <1>2 DEF DevInv, Others
<1>4. FileInv'
  <2>1. dev.binds \in Nat /\ dev.binds > 0
    BY DEF DevInv, DevType
  <2> QED
    BY <1>1, <1>2, <2>1 DEF FileInv, Alive
<1>5. UnitInv'
  BY <1>2 DEF UnitInv, Down, StopsInTime
<1> QED
  BY <1>3, <1>4, <1>5 DEF PipelineInv

(* It takes a step without touching the device.                             *)
LEMMA RawAlone ==
  ASSUME PipelineInv, UNCHANGED <<dev, node, service>>,
         raw' \in RawType, raw'.file = raw.file
  PROVE  PipelineInv'
<1>1. DevInv' /\ Others'
  BY DEF PipelineInv, DevInv, Others
<1>2. FileInv' /\ UnitInv'
  BY DEF PipelineInv, FileInv, UnitInv, Alive, Down, StopsInTime
<1> QED
  BY <1>1, <1>2 DEF PipelineInv

LEMMA AtFields ==
  ASSUME NEW r \in RawType, NEW a \in {"none", "loop", "entering", "read"},
         NEW q, q = [r EXCEPT !.at = a]
  PROVE  q \in RawType /\ q.file = r.file
<1>1. [r EXCEPT !.at = a] \in RawType
  BY DEF RawType
<1> QED
  BY <1>1 DEF RawType

LEMMA RawSteps ==
  ASSUME PipelineInv, RawNext, UNCHANGED <<node, service>>
  PROVE  PipelineInv'
<1> dev \in DevType /\ DevInv /\ FileInv /\ UnitInv /\ Others /\ raw \in RawType
  BY DEF PipelineInv, DevInv, Others
<1>1. CASE RawOpen
  <2>1. /\ dev' \in DevType /\ dev'.owner = "raw"
        /\ dev'.present = dev.present /\ dev'.binds = dev.binds
        /\ dev'.buffer = dev.buffer /\ dev'.sized = dev.sized
        /\ dev'.frames = dev.frames /\ dev'.byhand = dev.byhand
    <3>1. dev' = [dev EXCEPT !.owner = "raw"]
      BY <1>1 DEF RawOpen, Opened
    <3> QED
      BY <3>1, OwnerFields
  <2>2. dev.binds \in 0..MaxBinds
    BY DEF DevType
  <2>3. raw' \in RawType /\ raw'.file = dev.binds
    BY <1>1, <2>2, Members DEF RawOpen, RawType
  <2>4. DevInv' /\ Others'
    BY <2>1, <2>3 DEF DevInv, Others
  <2>5. FileInv' /\ UnitInv'
    BY <1>1, <2>1, <2>2, <2>3, Members
    DEF RawOpen, FileInv, UnitInv, Alive, Down, StopsInTime
  <2> QED
    BY <2>4, <2>5 DEF PipelineInv
<1>2. CASE TestLoop
  <2>1. CASE Quit
    BY <2>1, RawQuits
  <2>2. CASE raw' = [raw EXCEPT !.at = "entering"] /\ UNCHANGED dev
    BY <2>2, AtFields, RawAlone
  <2> QED
    BY <1>2, <2>1, <2>2 DEF TestLoop
<1>3. CASE EnterRead
  BY <1>3, AtFields, RawAlone DEF EnterRead
<1>4. CASE ReadFullFrame
  <2>1. CASE Quit
    BY <2>1, RawQuits
  <2>2. CASE /\ Alive(raw.file) /\ dev.sized
             /\ dev' = [dev EXCEPT !.frames = @ - 1]
             /\ raw' = [raw EXCEPT !.at = "loop"]
    <3> DEFINE n == dev.frames - 1
    <3>1. dev' = [dev EXCEPT !.frames = n]
      BY <2>2
    <3>2. n \in 0..Length
      BY <1>4, <2>2, Members DEF ReadFullFrame, ReadBlocks, Ready, DevType
    <3> HIDE DEF n
    <3>3. /\ dev' \in DevType /\ dev'.frames = n
          /\ dev'.present = dev.present /\ dev'.binds = dev.binds
          /\ dev'.buffer = dev.buffer /\ dev'.sized = dev.sized
          /\ dev'.owner = dev.owner /\ dev'.byhand = dev.byhand
      BY <3>1, <3>2, FramesFields
    <3>4. raw' \in RawType /\ raw'.file = raw.file
      BY <2>2, AtFields
    <3>5. DevInv' /\ Others'
      BY <2>2, <3>3, <3>4 DEF DevInv, Others
    <3>6. ~Alive(node.file)
      BY <2>2 DEF FileInv
    <3>7. FileInv' /\ UnitInv'
      BY <3>3, <3>4, <3>6 DEF FileInv, UnitInv, Alive, Down, StopsInTime
    <3> QED
      BY <3>5, <3>7 DEF PipelineInv
  <2> QED
    BY <1>4, <2>1, <2>2 DEF ReadFullFrame
<1>5. CASE RawSignal
  <2>1. CASE Quit
    BY <2>1, RawQuits
  <2>2. CASE raw' = [raw EXCEPT !.signals = 1] /\ UNCHANGED dev
    <3>1. [raw EXCEPT !.signals = 1] \in RawType
      BY 1 \in 0..1 DEF RawType
    <3>2. raw' \in RawType /\ raw'.file = raw.file
      BY <2>2, <3>1 DEF RawType
    <3> QED
      BY <2>2, <3>2, RawAlone
  <2> QED
    BY <1>5, <2>1, <2>2 DEF RawSignal
<1> QED
  BY <1>1, <1>2, <1>3, <1>4, <1>5 DEF RawNext
-----------------------------------------------------------------------------
(* What an update of the record of the unit changes.                        *)
LEMMA StepFields ==
  ASSUME NEW s \in ServiceType, NEW x \in {"none", "zero", "layout", "one", "check"},
         NEW t, t = [s EXCEPT !.step = x]
  PROVE  /\ t \in ServiceType /\ t.step = x /\ t.unit = s.unit
         /\ t.cleaned = s.cleaned /\ t.killed = s.killed
<1>1. [s EXCEPT !.step = x] \in ServiceType
  BY DEF ServiceType
<1> QED
  BY <1>1 DEF ServiceType

LEMMA UnitFields ==
  ASSUME NEW s \in ServiceType,
         NEW u \in {"dead", "start-pre", "running", "stop-sigterm", "stop-post",
                    "auto-restart", "failed"},
         NEW t, t = [s EXCEPT !.unit = u]
  PROVE  /\ t \in ServiceType /\ t.unit = u /\ t.step = s.step
         /\ t.cleaned = s.cleaned /\ t.killed = s.killed
         /\ t.stopping = s.stopping
<1>1. [s EXCEPT !.unit = u] \in ServiceType
  BY DEF ServiceType
<1> QED
  BY <1>1 DEF ServiceType

LEMMA FailedFields ==
  ASSUME NEW s \in ServiceType, NEW b \in BOOLEAN, NEW t, t = [s EXCEPT !.failed = b]
  PROVE  /\ t \in ServiceType /\ t.unit = s.unit /\ t.step = s.step
         /\ t.cleaned = s.cleaned /\ t.killed = s.killed
<1>1. [s EXCEPT !.failed = b] \in ServiceType
  BY DEF ServiceType
<1> QED
  BY <1>1 DEF ServiceType

LEMMA StoppingFields ==
  ASSUME NEW s \in ServiceType, NEW b \in BOOLEAN, NEW t, t = [s EXCEPT !.stopping = b]
  PROVE  /\ t \in ServiceType /\ t.unit = s.unit /\ t.step = s.step
         /\ t.cleaned = s.cleaned /\ t.killed = s.killed /\ t.stopping = b
<1>1. [s EXCEPT !.stopping = b] \in ServiceType
  BY DEF ServiceType
<1> QED
  BY <1>1 DEF ServiceType

LEMMA EndedFields ==
  ASSUME NEW s \in ServiceType
  PROVE  /\ Ended(s) \in ServiceType
         /\ Ended(s).unit = "stop-post" /\ Ended(s).step = "none"
         /\ Ended(s).cleaned = s.cleaned /\ Ended(s).killed = s.killed
<1>1. [s EXCEPT !.unit = "stop-post", !.step = "none"] \in ServiceType
  BY DEF ServiceType
<1> QED
  BY <1>1 DEF ServiceType, Ended

(* A start begins with the first write of the enable script, or not at all. *)
LEMMA BegunFields ==
  ASSUME service \in ServiceType
  PROVE  /\ Begun \in ServiceType
         /\ Begun.cleaned = service.cleaned /\ Begun.killed = service.killed
         /\ \/ Begun.unit = "failed" /\ Begun.step = service.step
            \/ Begun.unit = "start-pre"
<1>1. CASE service.starts = StartLimit
  <2>1. Begun = [service EXCEPT !.unit = "failed"]
    BY <1>1 DEF Begun
  <2> QED
    BY <2>1, UnitFields
<1>2. CASE service.starts # StartLimit
  <2> DEFINE n == service.starts + 1
  <2>1. n \in 0..StartLimit
    BY <1>2, Members DEF ServiceType
  <2>2. Begun = [service EXCEPT !.unit = "start-pre", !.step = "zero",
                                !.failed = FALSE, !.starts = n]
    BY <1>2 DEF Begun
  <2> HIDE DEF n
  <2>3. [service EXCEPT !.unit = "start-pre", !.step = "zero",
                        !.failed = FALSE, !.starts = n] \in ServiceType
    BY <2>1, Members, "zero" \in {"none", "zero", "layout", "one", "check"},
       "start-pre" \in {"dead", "start-pre", "running", "stop-sigterm",
                        "stop-post", "auto-restart", "failed"}
    DEF ServiceType
  <2>4. Begun \in ServiceType
    BY <2>2, <2>3
  <2>5. /\ Begun.cleaned = service.cleaned /\ Begun.killed = service.killed
        /\ Begun.unit = "start-pre"
    BY <2>2 DEF ServiceType
  <2> QED
    BY <2>4, <2>5
<1> QED
  BY <1>1, <1>2
-----------------------------------------------------------------------------
(* systemd takes a step without touching the device, and the node's process *)
(* at most dies, is asked to end, or is forgotten.                          *)
LEMMA ServiceAlone ==
  ASSUME PipelineInv, UNCHANGED <<dev, raw>>, service' \in ServiceType,
         node' \in NodeType, node'.file \in {0, node.file},
         node'.reader # "none" => node'.reader = node.reader /\ node'.proc = node.proc,
         UnitInv'
  PROVE  PipelineInv'
<1> dev \in DevType /\ DevInv /\ FileInv /\ Others
  BY DEF PipelineInv, DevInv
<1>1. DevInv' /\ Others'
  BY DEF DevInv, Others
<1>2. dev.binds \in Nat /\ dev.binds > 0
  BY DEF DevInv, DevType
<1>3. FileInv'
  BY <1>2 DEF FileInv, Alive
<1> QED
  BY <1>1, <1>3 DEF PipelineInv

(* A script switches the buffer, while no process of the node is there.     *)
LEMMA Switches ==
  ASSUME PipelineInv, UNCHANGED <<node, raw>>, service' \in ServiceType,
         node.proc = "none", dev' \in {Enabled(dev), Disabled(dev)}, UnitInv'
  PROVE  PipelineInv'
<1> dev \in DevType /\ DevInv /\ FileInv /\ Others
  BY DEF PipelineInv, DevInv
<1>1. /\ dev' \in DevType /\ dev'.present = dev.present
      /\ dev'.binds = dev.binds /\ dev'.owner = dev.owner
      /\ \/ dev'.sized
         \/ ~dev'.buffer /\ dev'.sized = dev.sized /\ dev'.frames = dev.frames
  <2>1. CASE dev' = Enabled(dev)
    BY <2>1, EnabledFields DEF DevInv
  <2>2. CASE dev' = Disabled(dev)
    BY <2>2, DisabledFields
  <2> QED
    BY <2>1, <2>2
<1>2. DevInv' /\ Others'
  BY <1>1 DEF DevInv, Others
<1>3. FileInv'
  BY <1>1 DEF FileInv, Alive
<1> QED
  BY <1>2, <1>3 DEF PipelineInv

LEMMA ScriptSteps ==
  ASSUME PipelineInv, Script, UNCHANGED raw
  PROVE  PipelineInv'
<1> /\ dev \in DevType /\ DevInv /\ FileInv /\ UnitInv /\ Others
    /\ service \in ServiceType /\ node \in NodeType
  BY DEF PipelineInv, DevInv, Others
<1>1. service.unit = "start-pre" /\ node.proc = "none" /\ node.reader = "none"
  BY DEF Script, WriteZero, WriteLayout, WriteOne, CheckReadable, EnableFails,
         UnitInv, FileInv
<1>2. CASE WriteZero
  <2>1. /\ service' \in ServiceType /\ service'.unit = "start-pre"
        /\ service'.step = "layout" /\ service'.killed = service.killed
    BY <1>1, <1>2, StepFields DEF WriteZero, Succeeds
  <2>2. dev' = Disabled(dev) /\ dev'.byhand = dev.byhand /\ UNCHANGED node
    BY <1>2, DisabledFields DEF WriteZero
  <2>3. UnitInv'
    BY <1>1, <2>1, <2>2 DEF UnitInv, Down, StopsInTime
  <2> QED
    BY <1>1, <2>1, <2>2, <2>3, Switches
<1>3. CASE WriteLayout
  <2>1. /\ service' \in ServiceType /\ service'.unit = "start-pre"
        /\ service'.step = "one" /\ service'.killed = service.killed
    BY <1>1, <1>3, StepFields DEF WriteLayout, Succeeds
  <2>2. UnitInv'
    BY <1>1, <1>3, <2>1 DEF WriteLayout, UnitInv, Down, StopsInTime
  <2> QED
    BY <1>3, <2>1, <2>2, ServiceAlone DEF WriteLayout
<1>4. CASE WriteOne
  <2>1. /\ service' \in ServiceType /\ service'.unit = "start-pre"
        /\ service'.step = "check" /\ service'.killed = service.killed
    BY <1>1, <1>4, StepFields DEF WriteOne, Succeeds
  <2>2. dev' = Enabled(dev) /\ dev'.byhand = dev.byhand /\ UNCHANGED node
    BY <1>4, EnabledFields DEF WriteOne, DevInv
  <2>3. UnitInv'
    BY <1>1, <2>1, <2>2 DEF UnitInv, Down, StopsInTime
  <2> QED
    BY <1>1, <2>1, <2>2, <2>3, Switches
<1>5. CASE CheckReadable
  <2>1. [service EXCEPT !.unit = "running", !.step = "none"] \in ServiceType
    BY DEF ServiceType
  <2>2. /\ service' \in ServiceType /\ service'.unit = "running"
        /\ service'.step = "none" /\ service'.killed = service.killed
    BY <1>5, <2>1 DEF CheckReadable, ServiceType
  <2>3. node' = Launched /\ UNCHANGED dev
    BY <1>5 DEF CheckReadable
  <2>4. UnitInv'
    BY <2>2, <2>3 DEF UnitInv, Down, StopsInTime
  <2> QED
    BY <2>2, <2>3, <2>4, LaunchedFields, ServiceAlone
<1>6. CASE EnableFails
  <2> DEFINE s == [service EXCEPT !.failed = TRUE]
  <2>1. s \in ServiceType /\ s.killed = service.killed
    BY FailedFields, TRUE \in BOOLEAN
  <2>2. service' = Ended(s) /\ UNCHANGED <<dev, node>>
    BY <1>6 DEF EnableFails
  <2> HIDE DEF s
  <2>3. /\ service' \in ServiceType /\ service'.unit = "stop-post"
        /\ service'.step = "none" /\ service'.killed = service.killed
    BY <2>1, <2>2, EndedFields
  <2>4. UnitInv'
    BY <1>1, <2>2, <2>3 DEF UnitInv, Down, StopsInTime
  <2> QED
    BY <2>2, <2>3, <2>4, ServiceAlone
<1> QED
  BY <1>2, <1>3, <1>4, <1>5, <1>6 DEF Script

(* The clean-up: what it leaves on, it reports.                             *)
LEMMA StopPostStep ==
  ASSUME PipelineInv, StopPost, UNCHANGED raw
  PROVE  PipelineInv'
<1> /\ dev \in DevType /\ DevInv /\ FileInv /\ UnitInv /\ Others
    /\ service \in ServiceType /\ node \in NodeType
  BY DEF PipelineInv, DevInv, Others
<1>1. /\ service.unit = "stop-post" /\ service.step = "none" /\ node.proc = "none"
      /\ UNCHANGED node
  BY DEF StopPost, UnitInv
<1> DEFINE S(ok) == [service EXCEPT !.failed = @ \/ ~ok, !.cleaned = ok]
           U(ok) == IF ShallRestart(S(ok)) THEN "auto-restart"
                    ELSE IF S(ok).failed THEN "failed" ELSE "dead"
<1>2. PICK ok \in {TRUE, FALSE} :
        /\ dev' = IF ok THEN Disabled(dev) ELSE dev
        /\ service' = [S(ok) EXCEPT !.unit = U(ok)]
  BY DEF StopPost
<1>3. S(ok) \in ServiceType /\ S(ok).step = "none" /\ S(ok).cleaned = ok
      /\ S(ok).killed = service.killed
  <2>1. ok \in BOOLEAN /\ service.failed \in BOOLEAN
    BY DEF ServiceType
  <2>2. (service.failed \/ ~ok) \in BOOLEAN
    BY <2>1
  <2> DEFINE f == service.failed \/ ~ok
  <2>3. S(ok) = [service EXCEPT !.failed = f, !.cleaned = ok]
    OBVIOUS
  <2> HIDE DEF f, S
  <2>4. f \in BOOLEAN
    BY <2>2 DEF f
  <2>5. [service EXCEPT !.failed = f, !.cleaned = ok] \in ServiceType
    BY <2>1, <2>4 DEF ServiceType
  <2>6. S(ok) \in ServiceType
    BY <2>3, <2>5
  <2> QED
    BY <1>1, <2>3, <2>6 DEF ServiceType
<1>4. U(ok) \in {"auto-restart", "failed", "dead"}
  OBVIOUS
<1> HIDE DEF S, U
<1>5. /\ service' \in ServiceType /\ service'.unit = U(ok)
      /\ service'.step = "none" /\ service'.cleaned = ok
      /\ service'.killed = service.killed
  BY <1>2, <1>3, <1>4, UnitFields
<1>6. CASE ok
  <2>1. dev' = Disabled(dev) /\ ~dev'.buffer /\ dev'.byhand = dev.byhand
    BY <1>2, <1>6, DisabledFields
  <2>2. UnitInv'
    BY <1>1, <1>4, <1>5, <2>1 DEF UnitInv, Down, StopsInTime
  <2> QED
    BY <1>1, <1>5, <2>1, <2>2, Switches
<1>7. CASE ~ok
  <2>1. UNCHANGED dev
    BY <1>2, <1>7
  <2>2. UnitInv'
    BY <1>1, <1>4, <1>5, <1>7, <2>1 DEF UnitInv, Down, StopsInTime
  <2> QED
    BY <1>1, <1>5, <2>1, <2>2, ServiceAlone
<1> QED
  BY <1>6, <1>7
-----------------------------------------------------------------------------
(* A stop: of a starting, a running or a waiting unit.                      *)
LEMMA StopStep ==
  ASSUME PipelineInv, Stop, UNCHANGED raw
  PROVE  PipelineInv'
<1> /\ DevInv /\ FileInv /\ UnitInv /\ Others
    /\ service \in ServiceType /\ node \in NodeType /\ UNCHANGED dev
  BY DEF PipelineInv, Others, Stop
<1> DEFINE s == [service EXCEPT !.stopping = TRUE]
<1>1. /\ s \in ServiceType /\ s.unit = service.unit /\ s.step = service.step
      /\ s.cleaned = service.cleaned /\ s.killed = service.killed
      /\ s.stopping
  BY StoppingFields, TRUE \in BOOLEAN
<1>2. \/ service.unit = "start-pre" /\ service' = Ended(s) /\ UNCHANGED node
      \/ /\ service.unit = "running" /\ node' = Interrupted
         /\ service' = [s EXCEPT !.unit = "stop-sigterm"]
      \/ service.unit = "stop-post" /\ service' = s /\ UNCHANGED node
      \/ /\ service.unit \notin {"dead", "failed", "start-pre", "running", "stop-post"}
         /\ service' = [s EXCEPT !.unit = "dead"] /\ UNCHANGED node
  BY DEF Stop
<1> HIDE DEF s
<1>3. CASE service.unit = "start-pre" /\ service' = Ended(s) /\ UNCHANGED node
  <2>1. /\ service' \in ServiceType /\ service'.unit = "stop-post"
        /\ service'.step = "none" /\ service'.killed = service.killed
    BY <1>1, <1>3, EndedFields
  <2>2. UnitInv'
    BY <1>3, <2>1 DEF UnitInv, Down, StopsInTime
  <2> QED
    BY <1>3, <2>1, <2>2, ServiceAlone
<1>4. CASE /\ service.unit = "running" /\ node' = Interrupted
           /\ service' = [s EXCEPT !.unit = "stop-sigterm"]
  <2>1. /\ service' \in ServiceType /\ service'.unit = "stop-sigterm"
        /\ service'.step = service.step /\ service'.killed = service.killed
        /\ service'.stopping
    BY <1>1, <1>4, UnitFields
  <2>2. UnitInv'
    BY <1>4, <2>1 DEF UnitInv, Down, StopsInTime
  <2>3. /\ node' \in NodeType /\ node'.file \in {0, node.file}
        /\ node'.reader # "none"
             => node'.reader = node.reader /\ node'.proc = node.proc
    BY <1>4, InterruptedFields DEF FileInv
  <2> QED
    BY <2>1, <2>2, <2>3, ServiceAlone
<1>5. CASE service.unit = "stop-post" /\ service' = s /\ UNCHANGED node
  <2>1. UnitInv'
    BY <1>1, <1>5 DEF UnitInv, Down, StopsInTime
  <2> QED
    BY <1>1, <1>5, <2>1, ServiceAlone
<1>6. CASE /\ service.unit \notin {"dead", "failed", "start-pre", "running", "stop-post"}
           /\ service' = [s EXCEPT !.unit = "dead"] /\ UNCHANGED node
  <2>1. ~service.stopping
    BY DEF Stop
  <2>2. service.unit = "auto-restart"
    BY <1>6, <2>1 DEF ServiceType, UnitInv
  <2>3. /\ service' \in ServiceType /\ service'.unit = "dead"
        /\ service'.step = service.step /\ service'.killed = service.killed
        /\ service'.cleaned = service.cleaned
    BY <1>1, <1>6, UnitFields
  <2>4. UnitInv'
    BY <1>6, <2>2, <2>3 DEF UnitInv, Down, StopsInTime
  <2> QED
    BY <1>6, <2>3, <2>4, ServiceAlone
<1> QED
  BY <1>2, <1>3, <1>4, <1>5, <1>6

(* TimeoutStopSec: only a reader blocked on an empty queue is killed.       *)
LEMMA KillStep ==
  ASSUME PipelineInv, Kill, UNCHANGED raw
  PROVE  PipelineInv'
<1> /\ dev \in DevType /\ DevInv /\ FileInv /\ UnitInv /\ Others
    /\ service \in ServiceType /\ node \in NodeType
  BY DEF PipelineInv, DevInv, Others
<1>1. service.unit = "stop-sigterm" /\ node.reader = "reading" /\ ReadBlocks(node.file)
  BY DEF Kill, TimesOut, Hangs, PollReturns
<1>2. dev.byhand
  BY <1>1, Members DEF ReadBlocks, Ready, FileInv, DevType
<1>3. /\ dev' \in DevType
      /\ dev'.present = dev.present /\ dev'.binds = dev.binds
      /\ dev'.buffer = dev.buffer /\ dev'.sized = dev.sized
      /\ dev'.frames = dev.frames /\ dev'.byhand = dev.byhand
      /\ dev'.owner = IF Alive(node.file) THEN "none" ELSE dev.owner
  BY ClosedFields DEF Kill, Dies
<1>4. /\ node' \in NodeType /\ node'.proc = "exited"
      /\ node'.reader = "none" /\ node'.file = 0
  BY ExitedFields, Members DEF Kill, Dies
<1>5. /\ service' \in ServiceType /\ service'.unit = "stop-sigterm"
      /\ service'.step = service.step /\ service'.stopping
  <2>1. [service EXCEPT !.killed = TRUE, !.failed = TRUE] \in ServiceType
    BY TRUE \in BOOLEAN DEF ServiceType
  <2>2. service' = [service EXCEPT !.killed = TRUE, !.failed = TRUE]
    BY DEF Kill
  <2> QED
    BY <1>1, <2>1, <2>2 DEF ServiceType, UnitInv
<1>6. DevInv' /\ Others'
  BY <1>3, <1>4, <1>5 DEF DevInv, Others
<1>7. FileInv'
  <2>1. dev.binds \in Nat /\ dev.binds > 0
    BY DEF DevInv, DevType
  <2> QED
    BY <1>3, <1>4, <2>1 DEF FileInv, Alive
<1>8. UnitInv'
  BY <1>1, <1>2, <1>3, <1>5 DEF UnitInv, Down, StopsInTime
<1> QED
  BY <1>6, <1>7, <1>8 DEF PipelineInv

LEMMA ServiceSteps ==
  ASSUME PipelineInv, ServiceNext, UNCHANGED raw
  PROVE  PipelineInv'
<1> /\ DevInv /\ FileInv /\ UnitInv /\ Others
    /\ service \in ServiceType /\ node \in NodeType
  BY DEF PipelineInv, Others
<1>1. CASE NodeExits
  <2> DEFINE f == service.failed \/ ~node.clean
             s == [service EXCEPT !.failed = f]
  <2>1. f \in BOOLEAN
    OBVIOUS
  <2>2. service' = Ended(s) /\ node' = NoProcess /\ UNCHANGED dev
    BY <1>1 DEF NodeExits
  <2> HIDE DEF f
  <2>3. s \in ServiceType /\ s.killed = service.killed
    BY <2>1, FailedFields
  <2> HIDE DEF s
  <2>4. /\ service' \in ServiceType /\ service'.unit = "stop-post"
        /\ service'.step = "none" /\ service'.killed = service.killed
    BY <2>2, <2>3, EndedFields
  <2>5. UnitInv'
    BY <2>2, <2>4, NoProcessFields DEF UnitInv, Down, StopsInTime
  <2> QED
    BY <2>2, <2>4, <2>5, NoProcessFields, ServiceAlone
<1>2. CASE Restart
  <2>1. service' = Begun /\ UNCHANGED <<dev, node>> /\ service.unit = "auto-restart"
    BY <1>2 DEF Restart
  <2>2. UnitInv'
    BY <2>1, BegunFields DEF UnitInv, Down, StopsInTime
  <2> QED
    BY <2>1, <2>2, BegunFields, ServiceAlone
<1>3. CASE Start
  <2> DEFINE s == Begun
  <2>1. /\ service' = [s EXCEPT !.stopping = FALSE] /\ UNCHANGED <<dev, node>>
        /\ service.unit \in {"dead", "failed"}
    BY <1>3 DEF Start
  <2>2. /\ s \in ServiceType /\ s.cleaned = service.cleaned
        /\ s.killed = service.killed
        /\ \/ s.unit = "failed" /\ s.step = service.step
           \/ s.unit = "start-pre"
    BY BegunFields
  <2> HIDE DEF s
  <2>3. /\ service' \in ServiceType /\ service'.unit = s.unit
        /\ service'.step = s.step /\ service'.cleaned = s.cleaned
        /\ service'.killed = s.killed
    BY <2>1, <2>2, StoppingFields, FALSE \in BOOLEAN
  <2>4. UnitInv'
    BY <2>1, <2>2, <2>3 DEF UnitInv, Down, StopsInTime
  <2> QED
    BY <2>1, <2>3, <2>4, ServiceAlone
<1>4. CASE Signal
  <2>1. node' = Interrupted /\ UNCHANGED <<dev, service>> /\ service.unit = "running"
    BY <1>4 DEF Signal
  <2>2. /\ node' \in NodeType /\ node'.file \in {0, node.file}
        /\ node'.reader # "none"
             => node'.reader = node.reader /\ node'.proc = node.proc
    BY <2>1, InterruptedFields DEF FileInv
  <2>3. UnitInv'
    BY <2>1 DEF UnitInv, Down, StopsInTime
  <2> QED
    BY <2>1, <2>2, <2>3, ServiceAlone
<1>5. CASE IntervalPasses
  <2>1. /\ service' = [service EXCEPT !.starts = 0] /\ UNCHANGED <<dev, node>>
        /\ service.unit \in {"running", "dead", "failed"}
    BY <1>5 DEF IntervalPasses
  <2>2. [service EXCEPT !.starts = 0] \in ServiceType
    BY Members DEF ServiceType
  <2>3. /\ service' \in ServiceType /\ service'.unit = service.unit
        /\ service'.step = service.step /\ service'.cleaned = service.cleaned
        /\ service'.killed = service.killed
    BY <2>1, <2>2 DEF ServiceType
  <2>4. UnitInv'
    BY <2>1, <2>3 DEF UnitInv, Down, StopsInTime
  <2> QED
    BY <2>1, <2>3, <2>4, ServiceAlone
<1> QED
  BY <1>1, <1>2, <1>3, <1>4, <1>5, ScriptSteps, StopPostStep, StopStep, KillStep
  DEF ServiceNext
-----------------------------------------------------------------------------
LEMMA Invariant == PipelineSpec => []PipelineInv
<1>1. PipelineInit => PipelineInv
  BY Starts
<1>2. PipelineInv /\ [PipelineNext]_pvars => PipelineInv'
  <2> SUFFICES ASSUME PipelineInv, [PipelineNext]_pvars PROVE PipelineInv'
    OBVIOUS
  <2>1. CASE UNCHANGED pvars
    BY <2>1 DEF pvars, PipelineInv, DevInv, Others, FileInv, UnitInv, Alive, Down,
                StopsInTime
  <2>2. CASE PipelineNext
    BY <2>2, DevSteps, NodeSteps, ServiceSteps, RawSteps DEF PipelineNext
  <2> QED
    BY <2>1, <2>2
<1> QED
  BY <1>1, <1>2, PTL DEF PipelineSpec

(* Every reachable state of device, node, unit and raw reader is well       *)
(* typed: the queue never goes below empty, although two programs and the   *)
(* scripts take frames out of it, and the start counter keeps its limit.    *)
THEOREM TypeCorrect == PipelineSpec => []PipelineTypeOK
<1>1. PipelineInv => PipelineTypeOK
  BY DEF PipelineInv, DevInv, Others, DevType, NodeType, ServiceType, RawType,
         PipelineTypeOK, DevTypeOK, NodeTypeOK, ServiceTypeOK, RawTypeOK
<1> QED
  BY <1>1, Invariant, PTL

(* However the service ends - a stop in the middle of a script, a crash, a  *)
(* kill, a start limit - no process is left, and the buffer is off unless   *)
(* the clean-up has failed or someone has switched by hand.                 *)
THEOREM CleanedCorrect == PipelineSpec => []CleanedUp
<1>1. PipelineInv => CleanedUp
  BY DEF PipelineInv, UnitInv, Down, CleanedUp
<1> QED
  BY <1>1, Invariant, PTL

(* A stop reaches the end of TimeoutStopSec only if someone has emptied the *)
(* queue by hand, whatever else happens between poll and read.              *)
THEOREM StopsCorrect == PipelineSpec => []StopsInTime
<1>1. PipelineInv => StopsInTime
  BY DEF PipelineInv, UnitInv
<1> QED
  BY <1>1, Invariant, PTL
=============================================================================
