----------------------------- MODULE IioDevice -----------------------------
(***************************************************************************)
(* The IIO device as the programs in user space meet it: sysfs to switch   *)
(* the buffer, a character device for one reader at a time, a bounded queue *)
(* of frames in between.  The driver may be unbound under an open file and *)
(* bound again; the file then stays with the device that is gone.          *)
(***************************************************************************)
EXTENDS Naturals

CONSTANTS
  Watermark,   \* frames poll() waits for
  Length,      \* frames the queue holds
  MaxBinds     \* bound: how often the driver is bound

ASSUME DeviceAssumption == {Watermark, Length, MaxBinds} \subseteq Nat \ {0}

VARIABLE dev

DevTypeOK ==
  dev \in [present : BOOLEAN, binds : 0..MaxBinds,
           buffer : BOOLEAN,                   \* buffer/enable
           sized : BOOLEAN,                    \* a scan layout was in force
           frames : 0..Length,
           owner : {"none", "node", "raw"},    \* who holds the file open
           byhand : BOOLEAN]                   \* someone else ran the script

Bound(n) == [present |-> TRUE, binds |-> n, buffer |-> FALSE, sized |-> FALSE,
             frames |-> 0, owner |-> "none", byhand |-> FALSE]

DevInit == dev = Bound(1)

(* Enabling a disabled buffer empties the queue; a reader may still drain a *)
(* disabled one.                                                            *)
Enabled(d) ==
  IF d.buffer THEN d
  ELSE [d EXCEPT !.buffer = TRUE, !.sized = TRUE, !.frames = 0]
Disabled(d) == [d EXCEPT !.buffer = FALSE]

(* A file is the number of the binding it was opened in.                    *)
Alive(file) == dev.present /\ file = dev.binds

(* iio_buffer_ready: a disabled buffer gives what it still has.             *)
Ready(want) == dev.frames >= IF dev.buffer THEN want ELSE 1

(* poll() of a device that is gone reports nothing, read() does not block.  *)
PollIn(file) == Alive(file) /\ Ready(Watermark)
NeverBlocks(file) == FALSE \* Mutation: an empty queue is read as a frame.
ReadBlocks(file) == Alive(file) /\ dev.sized /\ ~Ready(1)

Opened(who) == [dev EXCEPT !.owner = who]
Closed(file) == IF Alive(file) THEN [dev EXCEPT !.owner = "none"] ELSE dev
-----------------------------------------------------------------------------
(* The driver pushes a scan; a full queue drops it.                         *)
Push ==
  /\ dev.present /\ dev.buffer /\ dev.frames < Length
  /\ dev' = [dev EXCEPT !.frames = @ + 1]

Unbind ==
  /\ dev.present
  /\ dev' = [dev EXCEPT !.present = FALSE, !.buffer = FALSE, !.frames = 0,
                        !.owner = "none", !.sized = FALSE]

Bind ==
  /\ ~dev.present /\ dev.binds < MaxBinds
  /\ dev' = [Bound(dev.binds + 1) EXCEPT !.byhand = dev.byhand]

(* Someone switches the buffer by hand, with the scripts or without; bound: *)
(* once.                                                                    *)
SwitchByHand ==
  /\ dev.present /\ ~dev.byhand
  /\ dev' \in {[Enabled(Disabled(dev)) EXCEPT !.byhand = TRUE],
               [Disabled(dev) EXCEPT !.byhand = TRUE]}

DevNext == Push \/ Unbind \/ Bind \/ SwitchByHand
=============================================================================
