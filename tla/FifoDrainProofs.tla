-------------------------- MODULE FifoDrainProofs --------------------------
(***************************************************************************)
(* Theorems about one running FIFO stream, for every watermark, scan       *)
(* budget, chunk size and FIFO capacity.                                   *)
(***************************************************************************)
EXTENDS FifoDrain, TLAPS

(* What a drain relies on between two of its steps: the entries it has      *)
(* decided to read are there, and the budget covers them.                   *)
Reading ==
  pc = "read" => remaining <= level /\ total + scans <= Scans

(* Unless something was overwritten or the fault is reported, the batch     *)
(* being read, or the next one, ends where a scan ends.                     *)
Aligned ==
  \/ lost \/ fifo_faulted
  \/ IF pc = "read" THEN (phase + remaining) % 3 = 0 ELSE phase = 0

DrainInv == TypeOK /\ Reading /\ Aligned

(* The assumption on the constants, one by one.                             *)
LEMMA Constants ==
  /\ Watermark \in Nat /\ Watermark > 0 /\ Scans \in Nat /\ Scans > 0
  /\ Chunk \in Nat /\ Chunk > 0 /\ Capacity \in Nat /\ Capacity > 0
  /\ Delay \in Nat /\ Burst \in Nat /\ Faults \in BOOLEAN
  BY DrainAssumption

(* The drain invariant holds when the FIFO has just been started.           *)
LEMMA InitDrain == Init => DrainInv
<1> SUFFICES ASSUME Init PROVE DrainInv
  OBVIOUS
<1>1. Levels
  BY Constants DEF Init, Levels
<1>2. Flags
  BY Zenon DEF Init, Flags
<1>3. Reading /\ Aligned
  BY DEF Init, Reading, Aligned
<1> QED
  BY <1>1, <1>2, <1>3 DEF Init, DrainInv, TypeOK

(* A recovery, from a FIFO left with l entries and phase p, ends the drain  *)
(* in a state the invariant describes.                                      *)
LEMMA AbandonInv ==
  ASSUME NEW l \in 0..Capacity, NEW p \in 0..2,
         DrainInv, pc # "notify", Abandon(l, p)
  PROVE  DrainInv'
<1> USE DEF Abandon, FifoRecover, Flushed, Goto, locals
<1>1. Levels'
  BY Constants DEF DrainInv, TypeOK, Levels
<1>2. Flags'
  BY Zenon DEF DrainInv, TypeOK, Flags
<1>3. Reading' /\ Aligned'
  BY DEF DrainInv, Reading, Aligned
<1> QED
  BY <1>1, <1>2, <1>3 DEF DrainInv, TypeOK

(* The numbers of the next state, given the old ones.                       *)
LEMMA NextLevels == DrainInv /\ [Next]_vars => Levels'
<1> SUFFICES ASSUME DrainInv, [Next]_vars PROVE Levels'
  OBVIOUS
<1> USE Constants DEF EntriesPerScan, DrainInv, TypeOK, Levels
<1>1. CASE Arrive
  BY <1>1 DEF Arrive, locals
<1>2. CASE Enter
  BY <1>2 DEF Enter, fifo
<1>3. CASE StatusFails \/ StatusOverrun
  BY <1>3, AbandonInv DEF StatusFails, StatusOverrun
<1>4. CASE StatusBreak
  BY <1>4 DEF StatusBreak, Goto, fifo, locals
<1>5. CASE StatusRead
  BY <1>5 DEF StatusRead, Readable, BatchEntries, Goto, fifo
<1>6. CASE ReadChunk
  BY <1>6 DEF ReadChunk, PhaseAfter, Goto, Reading
<1>7. CASE ReadLast
  BY <1>7 DEF ReadLast, PhaseAfter, Drained, Goto, Reading
<1>8. CASE ReadFails
  <2>1. PICK n \in 0..Chunk : n <= remaining /\ Abandon(level - n, PhaseAfter(n))
    BY <1>8 DEF ReadFails
  <2>2. level - n \in 0..Capacity /\ PhaseAfter(n) \in 0..2
    BY <1>8, <2>1 DEF ReadFails, PhaseAfter, Reading
  <2> QED
    BY <1>8, <2>1, <2>2, AbandonInv DEF ReadFails
<1>9. CASE NotifyDone
  BY <1>9 DEF NotifyDone, fifo
<1>10. CASE UNCHANGED vars
  BY <1>10 DEF vars, fifo, locals
<1> QED
  BY <1>1, <1>2, <1>3, <1>4, <1>5, <1>6, <1>7, <1>8, <1>9, <1>10 DEF Next, Handler

(* The rest of the type invariant: flags, program counter, last batch.      *)
LEMMA NextFlags ==
  DrainInv /\ [Next]_vars
    => /\ Flags'
       /\ pc' \in {"idle", "woken", "status", "read", "notify"}
       /\ pushed' \in {"nothing", "whole", "shifted"}
  BY Zenon DEF DrainInv, TypeOK, Flags, Next, Handler, vars, fifo, locals, Goto,
       Arrive, Enter, StatusFails, StatusOverrun, StatusBreak, StatusRead,
       ReadChunk, ReadLast, ReadFails, NotifyDone, Abandon, FifoRecover, Flushed

(* Every step of the sensor and of the handler keeps the invariant.         *)
LEMMA NextDrain == DrainInv /\ [Next]_vars => DrainInv'
<1> SUFFICES ASSUME DrainInv, [Next]_vars PROVE Reading' /\ Aligned'
  BY NextLevels, NextFlags DEF DrainInv, TypeOK
<1> USE Constants DEF EntriesPerScan, DrainInv, TypeOK, Levels, Reading, Aligned
<1>1. CASE Arrive
  BY <1>1 DEF Arrive, locals
<1>2. CASE Enter
  BY <1>2 DEF Enter, fifo
<1>3. CASE StatusFails \/ StatusOverrun
  BY <1>3, AbandonInv DEF StatusFails, StatusOverrun
<1>4. CASE StatusBreak
  BY <1>4 DEF StatusBreak, Goto, fifo, locals
<1>5. CASE StatusRead
  BY <1>5 DEF StatusRead, Readable, BatchEntries, Goto, fifo
<1>6. CASE ReadChunk
  BY <1>6 DEF ReadChunk, PhaseAfter, Goto
<1>7. CASE ReadLast
  BY <1>7 DEF ReadLast, PhaseAfter, Goto
<1>8. CASE ReadFails
  <2>1. PICK n \in 0..Chunk : n <= remaining /\ Abandon(level - n, PhaseAfter(n))
    BY <1>8 DEF ReadFails
  <2>2. level - n \in 0..Capacity /\ PhaseAfter(n) \in 0..2
    BY <1>8, <2>1 DEF ReadFails, PhaseAfter
  <2> QED
    BY <1>8, <2>1, <2>2, AbandonInv DEF ReadFails
<1>9. CASE NotifyDone
  BY <1>9 DEF NotifyDone, fifo
<1>10. CASE UNCHANGED vars
  BY <1>10 DEF vars, fifo, locals
<1> QED
  BY <1>1, <1>2, <1>3, <1>4, <1>5, <1>6, <1>7, <1>8, <1>9, <1>10 DEF Next, Handler

(* The drain invariant holds in every reachable state.                      *)
LEMMA DrainInvariant == Spec => []DrainInv
  BY InitDrain, NextDrain, PTL DEF Spec

(* The locals of fifo_drain and read_entries, and the FIFO level, stay in   *)
(* range: no pass reads more than the FIFO holds or the scan buffer takes.  *)
THEOREM TypeCorrect == Spec => []TypeOK
  BY DrainInvariant, PTL DEF DrainInv

(* Whatever the chunk size of the adapter, the batch boundaries chosen by   *)
(* fifo_drain never shift the data against their tags by themselves.        *)
THEOREM ShiftedCorrect == Spec => ShiftedOnlyByLoss
<1>1. DrainInv /\ [Next]_vars
      => [ReadLast /\ pushed' = "shifted" => lost \/ fifo_faulted]_vars
  <2> SUFFICES ASSUME DrainInv, ReadLast, pushed' = "shifted"
               PROVE  lost \/ fifo_faulted
    OBVIOUS
  <2>1. phase' = (phase + remaining) % 3 /\ phase' # 0 /\ pc = "read"
    BY DEF ReadLast, PhaseAfter, EntriesPerScan
  <2> QED
    BY <2>1 DEF DrainInv, Aligned
<1> QED
  BY <1>1, DrainInvariant, PTL DEF Spec, ShiftedOnlyByLoss
-----------------------------------------------------------------------------
(* The scheduling a stream needs to keep its promises: the handler runs     *)
(* before a second batch is complete, a drain takes at most two transfers,  *)
(* and what arrives during its last three steps is less than a batch.       *)
Prompt ==
  /\ Delay < fifo_hw_entries
  /\ fifo_hw_entries + Delay <= 2 * Chunk
  /\ 2 + 3 * Burst < fifo_hw_entries
  /\ fifo_hw_entries + Delay + 2 * Burst + 2 < Capacity
  /\ 2 * Watermark <= Scans

(* An edge finds the level at the threshold exactly, so that even a faulted *)
(* stream that wakes the handler has a bounded level until the batch is     *)
(* read, in one pass of one or two transfers.                               *)
Backlog ==
  /\ pc \in {"woken", "status"} => level + credit <= fifo_hw_entries + Delay
  /\ pc = "status" => first_pass /\ total = 0
  /\ pc = "read" =>
       /\ first_pass /\ total = 0
       /\ 3 * scans <= fifo_hw_entries + Delay
       /\ \/ remaining = 3 * scans /\ level + credit <= remaining + 2 + Burst
          \/ /\ remaining + Chunk = 3 * scans
             /\ level + credit <= remaining + 2 + 2 * Burst
  /\ pc = "notify" /\ ~fifo_faulted => level + credit <= 2 + 3 * Burst

(* Nothing is overwritten, and nothing shifted pushed, behind the driver's  *)
(* back.                                                                    *)
Honest ==
  /\ lost => fifo_faulted
  /\ pc \in {"status", "read"} => pushed = "nothing"
  /\ pushed = "shifted" => fifo_faulted

PromptInv == Backlog /\ NoLostWakeup /\ Honest

(* A recovery ends the drain with an empty FIFO or a reported fault.        *)
LEMMA AbandonPrompt ==
  ASSUME Prompt, DrainInv, PromptInv, pc \in {"status", "read"},
         NEW l, NEW p, Abandon(l, p)
  PROVE  PromptInv'
  BY Constants
     DEF Abandon, FifoRecover, Flushed, Goto, locals, PromptInv, Backlog,
         NoLostWakeup, Honest, fifo_hw_entries, EntriesPerScan

(* Under prompt scheduling every step keeps the backlog below a batch.      *)
LEMMA NextPrompt ==
  ASSUME Prompt PROVE DrainInv /\ PromptInv /\ [Next]_vars => PromptInv'
<1> SUFFICES ASSUME DrainInv, PromptInv, [Next]_vars PROVE PromptInv'
  OBVIOUS
<1> USE Constants DEF EntriesPerScan, fifo_hw_entries, Prompt
<1>1. CASE Arrive
  <2>1. Backlog'
    BY <1>1 DEF Arrive, PromptInv, Backlog, NoLostWakeup, DrainInv, TypeOK, Levels, locals
  <2>2. NoLostWakeup'
    BY <1>1 DEF Arrive, PromptInv, NoLostWakeup, DrainInv, TypeOK, Levels, locals
  <2>3. ~fifo_faulted => level < Capacity
    BY <1>1 DEF Arrive, PromptInv, Backlog, NoLostWakeup, DrainInv, TypeOK, Levels
  <2>4. Honest'
    BY <1>1, <2>3 DEF Arrive, PromptInv, Honest, Backlog, DrainInv, TypeOK, Levels, locals
  <2> QED
    BY <2>1, <2>2, <2>4 DEF PromptInv
<1>2. CASE Enter
  BY <1>2 DEF Enter, PromptInv, Backlog, NoLostWakeup, Honest, fifo
<1>3. CASE StatusFails
  BY <1>3, AbandonPrompt DEF StatusFails
<1>4. CASE StatusOverrun
  BY <1>4, AbandonPrompt DEF StatusOverrun
<1>5. CASE StatusBreak
  BY <1>5 DEF StatusBreak, NothingToRead, Goto, fifo, locals,
              PromptInv, Backlog, NoLostWakeup, Honest, DrainInv, TypeOK, Levels
<1>6. CASE StatusRead
  BY <1>6 DEF StatusRead, NothingToRead, Readable, BatchEntries, Goto, fifo,
              PromptInv, Backlog, NoLostWakeup, Honest, DrainInv, TypeOK, Levels
<1>7. CASE ReadChunk
  BY <1>7 DEF ReadChunk, Goto, PromptInv, Backlog, NoLostWakeup, Honest,
              DrainInv, TypeOK, Levels
<1>8. CASE ReadLast
  <2>1. ~recheck
    BY <1>8 DEF ReadLast, recheck, PromptInv, Backlog, DrainInv, TypeOK, Levels
  <2>2. pushed' = "shifted" => fifo_faulted
    <3>1. phase' = (phase + remaining) % 3 /\ pc = "read"
          /\ pushed' = IF phase' = 0 THEN "whole" ELSE "shifted"
      BY <1>8 DEF ReadLast, PhaseAfter
    <3> QED
      BY <3>1 DEF DrainInv, Aligned, PromptInv, Honest
  <2> QED
    BY <1>8, <2>1, <2>2 DEF ReadLast, Goto, PromptInv, Backlog, NoLostWakeup,
         Honest, DrainInv, TypeOK, Levels
<1>9. CASE ReadFails
  BY <1>9, AbandonPrompt DEF ReadFails
<1>10. CASE NotifyDone
  BY <1>10 DEF NotifyDone, PromptInv, Backlog, NoLostWakeup, Honest, DrainInv,
               TypeOK, Levels, fifo
<1>11. CASE UNCHANGED vars
  BY <1>11 DEF vars, fifo, locals, PromptInv, Backlog, NoLostWakeup, Honest
<1> QED
  BY <1>1, <1>2, <1>3, <1>4, <1>5, <1>6, <1>7, <1>8, <1>9, <1>10, <1>11
     DEF Next, Handler

(* The started stream satisfies the prompt invariant, which every step of a *)
(* promptly scheduled stream keeps.                                         *)
LEMMA PromptInvariant == ASSUME Prompt PROVE Spec => [](DrainInv /\ PromptInv)
<1>1. Init => PromptInv
  BY Constants DEF Init, PromptInv, Backlog, NoLostWakeup, Honest, Prompt,
                         fifo_hw_entries, EntriesPerScan
<1> QED
  BY <1>1, DrainInvariant, NextPrompt, PTL DEF Spec

(* A promptly scheduled handler never sleeps while the watermark line is    *)
(* high: the edge-triggered stream cannot stall, with or without I2C        *)
(* failures, unless the fault is reported.                                  *)
THEOREM WakeupCorrect == ASSUME Prompt PROVE Spec => []NoLostWakeup
  BY PromptInvariant, PTL DEF PromptInv

(* A promptly scheduled stream never hands misaligned data to user space    *)
(* without the fault being reported.                                        *)
THEOREM NeverShiftedCorrect == ASSUME Prompt PROVE Spec => []NeverShifted
<1>1. PromptInv => NeverShifted
  BY DEF PromptInv, Honest, NeverShifted
<1> QED
  BY <1>1, PromptInvariant, PTL
=============================================================================
