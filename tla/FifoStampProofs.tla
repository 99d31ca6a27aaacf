-------------------------- MODULE FifoStampProofs --------------------------
(***************************************************************************)
(* The times of the scans are true, and a scan holds one sample: theorems  *)
(* about what the sensor wrote, where the parser is in it, and where the   *)
(* reconstruction of its wrapping counter is.                              *)
(***************************************************************************)
EXTENDS FifoBatchProofs

(* Entries are numbered from 1 since the last flush, samples alike: three   *)
(* entries each, the sample m taken m periods after the counter started.    *)
At(m) == origin + Period * m
Sample(e) == (e + 2) \div 3
Wrote(e) == [tag |-> TagOf((e + 2) % 3), at |-> At(Sample(e))]

(* Between two stamps the driver sees, the counter does not go all the way  *)
(* round: at most Late entries are overwritten while a batch is read.  In   *)
(* the driver Wrap is 2^32 ticks, thirty hours.                             *)
ShortPause == Period * ((Late + 2) \div 3 + 1) < Wrap

(* The FIFO holds the last of the n entries written since the flush.        *)
Taken(n) == n - Len(fifo)

Written(n) ==
  /\ n \in Nat /\ Len(fifo) <= n
  /\ time = At(Sample(n)) /\ phase = n % 3
  /\ \A i \in 1..Len(fifo) : fifo[i] = Wrote(Taken(n) + i)
  /\ ShortPause /\ delivered.sound => delivered.timestamp <= time
  /\ pc = "read" => entries % 3 = 0 /\ credit <= Late

(* The mapping of the counter has come to sample p.                         *)
Mapped(p) == ShortPause =>
  /\ stamp.hw_timestamp_ref_ns = origin
  /\ IF stamp.hw_timestamp_valid
     THEN stamp.hw_timestamp_wraps * Wrap + stamp.last_hw_timestamp = Period * p
     ELSE stamp.hw_timestamp_wraps = 0 /\ p = 0

(* Where sample p is among the entries taken out of the FIFO, while nothing *)
(* is parsed.  A FIFO that is full when the drain begins is flushed.        *)
Between(n, p) ==
  /\ pc = "idle" => Len(fifo) = Depth \/ Taken(n) \div 3 = p
  /\ pc = "read" => 3 * p <= Taken(n) /\ Taken(n) <= 3 * p + 2 + Late - credit
  /\ pc = "read" /\ ~lost => Taken(n) = 3 * p
  /\ ShortPause /\ delivered.sound => delivered.timestamp <= At(p)

(* A batch follows the first b entries, and has its timestamps from sample  *)
(* b \div 3 on, wherever an overwrite has made it begin.                    *)
Parsing(b, p) ==
  /\ \A i \in 1..Len(batch) : batch[i] = Wrote(b + i)
  /\ ShortPause /\ delivered.sound => delivered.timestamp <= At(b \div 3)
  /\ pc = "parse" \/ index = 0 =>
       /\ p <= b \div 3 /\ b <= 3 * p + 2 + Late
       /\ ~lost => b = 3 * p
  /\ pc = "parse" /\ ~malformed =>
       Len(stamps) = (b + index) \div 3 - b \div 3
  /\ pc = "stamp" =>
       /\ b \div 3 + Len(stamps) = (b + Len(batch)) \div 3
       /\ index > 0 => p = b \div 3 + index
       /\ ShortPause =>
            \A k \in 1..index : scans[k].timestamp = stamps[k].at
  /\ pc = "stamp" \/ ~malformed =>
       \A k \in 1..Len(stamps) :
         stamps[k] = [raw |-> (Period * (b \div 3 + k)) % Wrap,
                      at |-> At(b \div 3 + k)]

(* A batch that begins with a sample is cut into samples.                   *)
Whole(b) ==
  /\ b % 3 = 0
  /\ pc = "parse" /\ ~malformed =>
       /\ Len(scans) = (index + 1) \div 3
       /\ pending = [NoData EXCEPT !["gyro"] =
                       IF index % 3 = 1 THEN At(Sample(b + index)) ELSE 0]
  /\ pc = "stamp" \/ ~malformed =>
       \A k \in 1..Len(scans) :
         /\ scans[k].gyro = At(b \div 3 + k)
         /\ scans[k].accel = At(b \div 3 + k)

(* Unless the bus or a fault has cut it off, the driver is where n entries   *)
(* written, a batch after the first b of them and p samples mapped put it.  *)
TrackInv(n, b, p) ==
  /\ Written(n)
  /\ Sound =>
       /\ Mapped(p)
       /\ pc \in {"idle", "read"} => Between(n, p)
       /\ pc \in {"parse", "stamp"} => b + Len(batch) = Taken(n) /\ Parsing(b, p)
       /\ ~lost => /\ Taken(n) % 3 = 0
                   /\ pc \in {"parse", "stamp"} => Whole(b)

Tracked == \E n, b, p \in Nat : TrackInv(n, b, p)
ClockInv == BatchInv /\ Tracked
-----------------------------------------------------------------------------
(* The times of samples, and how entries are numbered.                      *)
LEMMA Products ==
  \A a, b \in Int : a <= b => Period * a <= Period * b /\ a * Wrap <= b * Wrap
<1> SUFFICES ASSUME NEW a \in Int, NEW b \in Int, a <= b
             PROVE  Period * a <= Period * b /\ a * Wrap <= b * Wrap
  OBVIOUS
<1>1. \A x \in Nat, y \in Nat : x * y \in Nat
  OBVIOUS
<1>2. PICK d \in Nat : b = a + d
  <2>1. b - a \in Nat /\ b = a + (b - a)
    OBVIOUS
  <2> QED BY <2>1
<1>3. Period * b = Period * a + Period * d /\ b * Wrap = a * Wrap + d * Wrap
  BY <1>2, Constants
<1>4. Period * d \in Nat /\ d * Wrap \in Nat
  BY <1>1, Constants
<1>5. Period * a \in Int /\ a * Wrap \in Int
  BY Constants
<1> QED BY <1>3, <1>4, <1>5

LEMMA Times ==
  ASSUME origin \in Nat
  PROVE  /\ \A m \in Nat : At(m) \in Nat /\ At(m + 1) = At(m) + Period
         /\ \A m \in Nat : m > 0 => At(m) > 0
         /\ \A a, b \in Nat : a <= b => At(a) <= At(b)
<1>1. ASSUME NEW m \in Nat PROVE At(m) \in Nat /\ At(m + 1) = At(m) + Period
  BY Constants DEF At
<1>2. ASSUME NEW m \in Nat, m > 0 PROVE At(m) > 0
  <2>1. Period * 1 <= Period * m /\ Period * 1 = Period /\ Period * m \in Int
    BY <1>2, Products, Constants
  <2> QED BY <2>1, Constants DEF At
<1>3. ASSUME NEW a \in Nat, NEW b \in Nat, a <= b PROVE At(a) <= At(b)
  <2>1. Period * a <= Period * b /\ Period * a \in Int /\ Period * b \in Int
    BY <1>3, Products, Constants
  <2> QED BY <2>1 DEF At
<1> QED BY <1>1, <1>2, <1>3

LEMMA Numbers ==
  ASSUME NEW n \in Nat
  PROVE  /\ Sample(n) \in Nat /\ Sample(n + 1) \in Nat /\ n \div 3 <= Sample(n)
         /\ Sample(n + 1) = IF n % 3 = 0 THEN Sample(n) + 1 ELSE Sample(n)
         /\ Sample(n + 1) = n \div 3 + 1
         /\ (n + 1) % 3 = ((n % 3) + 1) % 3 /\ n % 3 \in 0..2
         /\ (n + 3) % 3 = n % 3
BY DEF Sample

(* A sample ends with its timestamp.                                        *)
LEMMA Ends ==
  ASSUME NEW e \in Nat
  PROVE  /\ e % 3 = 2 => /\ (e + 1) \div 3 = e \div 3 + 1
                         /\ Sample(e + 1) = (e + 1) \div 3
         /\ e % 3 # 2 => (e + 1) \div 3 = e \div 3
<1>1. e % 3 = 2 => (e + 1) \div 3 = e \div 3 + 1
  OBVIOUS
<1>2. e % 3 = 2 => (e + 1 + 2) \div 3 = (e + 1) \div 3
  OBVIOUS
<1>3. e % 3 # 2 => (e + 1) \div 3 = e \div 3
  OBVIOUS
<1> QED BY <1>1, <1>2, <1>3 DEF Sample

(* After whole samples an entry has the place it has in the batch.          *)
LEMMA Aligned ==
  ASSUME NEW b \in Nat, b % 3 = 0, NEW i \in Nat
  PROVE  /\ (b + i) % 3 = i % 3 /\ i % 3 \in 0..2
         /\ Sample(b + i) = b \div 3 + (i + 2) \div 3
         /\ i % 3 = 0 => (i + 2) \div 3 = (i + 1) \div 3 /\ (i + 1) % 3 = 1
         /\ i % 3 = 1 => (i + 2) \div 3 = (i + 1) \div 3 + 1 /\ (i + 1) % 3 = 2
         /\ i % 3 = 2 => (i + 2) \div 3 = (i + 1) \div 3 /\ (i + 1) % 3 = 0
<1>1. PICK c \in Nat : b = 3 * c
  <2>1. b \div 3 \in Nat /\ b = 3 * (b \div 3)
    OBVIOUS
  <2> QED BY <2>1
<1>2. b \div 3 = c
  BY <1>1
<1>3. (b + i) % 3 = i % 3 /\ (b + i + 2) \div 3 = c + (i + 2) \div 3
  BY <1>1
<1> QED BY <1>2, <1>3 DEF Sample

(* The kind of an entry says where in a sample it is.                       *)
LEMMA Kinds ==
  ASSUME NEW e \in Nat
  PROVE  /\ Wrote(e + 1).at = At(Sample(e + 1))
         /\ Wrote(e + 1).tag = TagOf(e % 3)
         /\ Wrote(e + 1).tag = "gyro" <=> e % 3 = 0
         /\ Wrote(e + 1).tag = "accel" <=> e % 3 = 1
         /\ Wrote(e + 1).tag = "timestamp" <=> e % 3 = 2
<1>1. ((e + 1) + 2) % 3 = e % 3 /\ e % 3 \in 0..2
  OBVIOUS
<1>2. Wrote(e + 1) = [tag |-> TagOf(e % 3), at |-> At(Sample(e + 1))]
  BY <1>1 DEF Wrote
<1>3. Wrote(e + 1).tag = TagOf(e % 3) /\ Wrote(e + 1).at = At(Sample(e + 1))
  BY <1>2
<1> QED BY <1>1, <1>3 DEF TagOf

(* A counter that has gone less than once round tells by how much.          *)
LEMMA Unwrap ==
  ASSUME NEW w \in Nat, NEW r \in 0..Wrap - 1, NEW y \in Nat, NEW raw,
         raw = y % Wrap, w * Wrap + r < y, y - (w * Wrap + r) < Wrap
  PROVE  /\ raw >= r => y = w * Wrap + raw
         /\ raw < r => y = (w + 1) * Wrap + raw
<1> DEFINE q == y \div Wrap
<1>1. y = q * Wrap + raw /\ raw \in 0..Wrap - 1 /\ q \in Int
  BY Constants
<1> HIDE DEF q
<1>2. /\ w * Wrap \in Int /\ q * Wrap \in Int
      /\ (w + 1) * Wrap = w * Wrap + Wrap /\ (w + 2) * Wrap = w * Wrap + 2 * Wrap
      /\ (q + 1) * Wrap = q * Wrap + Wrap
  BY <1>1, Constants
<1>3. ~(q >= w + 2)
  <2>1. SUFFICES ASSUME q >= w + 2 PROVE FALSE
    OBVIOUS
  <2>2. (w + 2) * Wrap <= q * Wrap
    BY <1>1, <2>1, Products
  <2> QED BY <1>1, <1>2, <2>2, Constants
<1>4. ~(q + 1 <= w)
  <2>1. SUFFICES ASSUME q + 1 <= w PROVE FALSE
    OBVIOUS
  <2>2. (q + 1) * Wrap <= w * Wrap
    BY <1>1, <2>1, Products
  <2> QED BY <1>1, <1>2, <2>2, Constants
<1>5. q = w \/ q = w + 1
  BY <1>1, <1>3, <1>4
<1>6. CASE q = w
  <2>1. y = w * Wrap + raw
    BY <1>1, <1>6
  <2>2. raw > r
    BY <1>1, <1>2, <2>1
  <2> QED BY <1>1, <2>1, <2>2
<1>7. CASE q = w + 1
  <2>1. y = (w + 1) * Wrap + raw
    BY <1>1, <1>7
  <2>2. y = w * Wrap + Wrap + raw
    BY <1>2, <2>1
  <2>3. raw < r
    BY <1>1, <1>2, <2>2, Constants
  <2> QED BY <1>1, <2>1, <2>3
<1> QED BY <1>5, <1>6, <1>7
-----------------------------------------------------------------------------
(* The facts about lengths the invariant gives.                             *)
LEMMA Lengths ==
  ASSUME BatchInv
  PROVE  /\ Len(fifo) \in Nat /\ Len(batch) \in Nat /\ Len(scans) \in Nat
         /\ Len(stamps) \in Nat /\ index \in Nat /\ index <= Len(batch)
         /\ entries \in Nat /\ credit \in Nat /\ time \in Nat /\ origin \in Nat
         /\ Len(fifo) <= Depth /\ (pc = "read" => entries <= Len(fifo))
         /\ delivered.timestamp \in Nat
BY LenProperties DEF BatchInv, SensorInv, ParserInv, OrderInv

(* A recovery starts the counting anew, or leaves the FIFO faulted with the *)
(* newest entries it held.                                                  *)
LEMMA RecoverTracks ==
  ASSUME BatchInv, NEW n \in Nat, Written(n), NEW s, NEW rest \in Seq(EntryType),
         Len(rest) <= Len(fifo),
         \A i \in 1..Len(rest) : rest[i] = fifo[Len(fifo) - Len(rest) + i],
         FifoRecover(s, rest)
  PROVE  Tracked'
<1>1. /\ pc' = "idle" /\ time' = time /\ delivered' = delivered
      /\ delivered.timestamp \in Nat /\ time \in Nat /\ origin \in Nat
  BY Lengths DEF FifoRecover
<1>2. CASE Restarted
  <2>1. Len(fifo') = 0 /\ phase' = 0 /\ origin' = time /\ time' = time
    BY <1>1, <1>2, NoSeq DEF Restarted
  <2>2. At(0)' = time /\ Sample(0) = 0
    BY <1>1, <2>1, Constants DEF At, Sample
  <2>3. Written(0)'
    BY <1>1, <2>1, <2>2 DEF Written
  <2>4. ASSUME Sound' PROVE Mapped(0)'
    <3>1. fifo_faulted' = FALSE
      BY <2>4 DEF Sound, FifoRecover
    <3>2. stamp' = Reset(Invalid(s))
      BY <3>1 DEF FifoRecover
    <3>3. /\ stamp'.hw_timestamp_ref_ns = time /\ ~stamp'.hw_timestamp_valid
          /\ stamp'.hw_timestamp_wraps = 0
      BY <3>2 DEF Reset
    <3> QED BY <2>1, <3>3 DEF Mapped
  <2>5. Taken(0)' = 0
    BY <2>1 DEF Taken
  <2>6. Between(0, 0)'
    BY <1>1, <2>1, <2>2, <2>5, <2>3 DEF Between, Written
  <2>7. TrackInv(0, 0, 0)'
    BY <1>1, <2>3, <2>4, <2>5, <2>6 DEF TrackInv
  <2> QED BY <2>7 DEF Tracked
<1>3. CASE ~Restarted
  <2>1. /\ fifo_faulted' = TRUE /\ fifo' = rest
        /\ UNCHANGED <<phase, origin>>
    BY <1>3 DEF FifoRecover
  <2>2. Len(fifo) \in Nat /\ Len(rest) \in Nat
    BY Lengths, LenProperties
  <2>3. ASSUME NEW i \in 1..Len(rest) PROVE rest[i] = Wrote(n - Len(rest) + i)
    <3>1. Len(fifo) - Len(rest) + i \in 1..Len(fifo)
      BY <2>2
    <3>2. fifo[Len(fifo) - Len(rest) + i]
            = Wrote(Taken(n) + (Len(fifo) - Len(rest) + i))
      BY <3>1 DEF Written
    <3>3. Taken(n) + (Len(fifo) - Len(rest) + i) = n - Len(rest) + i
      BY <2>2 DEF Taken
    <3> QED BY <3>2, <3>3
  <2>4. Written(n)'
    BY <1>1, <2>1, <2>2, <2>3 DEF Written, Taken, Wrote, At
  <2>5. TrackInv(n, 0, 0)'
    BY <2>1, <2>4 DEF TrackInv, Sound
  <2> QED BY <2>5 DEF Tracked
<1> QED BY <1>2, <1>3

(* A recovery in the course of a drain finds the whole FIFO.                *)
LEMMA RecoverNowTracks ==
  ASSUME BatchInv, NEW n \in Nat, Written(n), NEW s, FifoRecover(s, fifo)
  PROVE  Tracked'
<1>1. fifo \in Seq(EntryType) /\ Len(fifo) \in Nat
  BY Lengths DEF BatchInv, SensorInv
<1>2. \A i \in 1..Len(fifo) : fifo[i] = fifo[Len(fifo) - Len(fifo) + i]
  <2> TAKE i \in 1..Len(fifo)
  <2>1. Len(fifo) - Len(fifo) + i = i
    BY <1>1
  <2> QED BY <2>1
<1> QED BY <1>1, <1>2, RecoverTracks

(* The sensor writes entry n + 1.                                           *)
LEMMA WriteTracks ==
  ASSUME BatchInv, NEW n \in Nat, NEW b \in Nat, NEW p \in Nat,
         TrackInv(n, b, p), Write
  PROVE  Tracked'
<1> DEFINE entry == [tag |-> TagOf(phase), at |-> time']
           more == Append(fifo, entry)
<1>1. /\ pc \in {"idle", "read"} /\ (pc = "read" => credit > 0)
      /\ time' = IF phase = 0 THEN time + Period ELSE time
      /\ fifo' = IF Len(fifo) < Depth THEN more ELSE Tail(more)
      /\ lost' = (lost \/ Len(fifo) = Depth)
      /\ phase' = (phase + 1) % 3
      /\ credit' = IF pc = "read" THEN credit - 1 ELSE credit
      /\ UNCHANGED <<origin, garbled, fifo_faulted, stamp, pc, entries, delivered>>
  BY DEF Write, EntriesPerScan
<1>2. /\ Len(fifo) \in Nat /\ Len(fifo) <= Depth /\ credit \in Nat
      /\ time \in Nat /\ origin \in Nat /\ delivered.timestamp \in Nat
  BY Lengths
<1>3. Written(n) /\ phase = n % 3 /\ time = At(Sample(n)) /\ Len(fifo) <= n
  BY DEF TrackInv, Written
<1>4. time' = At(Sample(n + 1)) /\ time <= time' /\ time' \in Nat /\ time' > 0
  <2>1. /\ Sample(n) \in Nat /\ Sample(n + 1) \in Nat /\ Sample(n + 1) = n \div 3 + 1
        /\ Sample(n + 1) = IF n % 3 = 0 THEN Sample(n) + 1 ELSE Sample(n)
    BY Numbers
  <2>2. Sample(n + 1) > 0
    BY <2>1
  <2>3. /\ At(Sample(n)) \in Nat /\ At(Sample(n + 1)) \in Nat
        /\ At(Sample(n + 1)) > 0
        /\ At(Sample(n) + 1) = At(Sample(n)) + Period
    BY <1>2, <2>1, <2>2, Times
  <2>4. CASE phase = 0
    BY <1>1, <1>3, <2>1, <2>3, <2>4, Constants
  <2>5. CASE phase # 0
    BY <1>1, <1>3, <2>1, <2>3, <2>5
  <2> QED BY <2>4, <2>5
<1>5. entry = Wrote(n + 1)
  <2>1. ((n + 1) + 2) % 3 = phase
    BY <1>3
  <2> QED BY <1>4, <2>1 DEF Wrote
<1>6. entry \in EntryType
  <2>1. time' \in Nat \ {0}
    BY <1>4
  <2> QED BY <2>1 DEF EntryType, TagOf, Tags, DataTags
<1> HIDE DEF entry
<1>7. /\ more \in Seq(EntryType) /\ Len(more) = Len(fifo) + 1 /\ more # <<>>
      /\ \A i \in 1..Len(fifo) : more[i] = fifo[i]
      /\ more[Len(fifo) + 1] = entry
  BY <1>6, AppendProperties DEF BatchInv, SensorInv
<1>8. /\ Tail(more) \in Seq(EntryType) /\ Len(Tail(more)) = Len(fifo)
      /\ \A i \in 1..Len(fifo) : Tail(more)[i] = more[i + 1]
  BY <1>2, <1>7, HeadTailProperties
<1> HIDE DEF more
<1>9. \A i \in 1..Len(more) : more[i] = Wrote(Taken(n) + i)
  <2> TAKE i \in 1..Len(more)
  <2>1. CASE i = Len(fifo) + 1
    <3>1. Taken(n) + i = n + 1
      BY <1>2, <2>1 DEF Taken
    <3> QED BY <1>5, <1>7, <2>1, <3>1
  <2>2. CASE i # Len(fifo) + 1
    <3>1. i \in 1..Len(fifo)
      BY <1>2, <1>7, <2>2
    <3> QED BY <1>3, <1>7, <3>1 DEF Written
  <2> QED BY <2>1, <2>2
<1>10. /\ Len(fifo') = IF Len(fifo) < Depth THEN Len(fifo) + 1 ELSE Len(fifo)
       /\ Taken(n + 1)' = IF Len(fifo) < Depth THEN Taken(n) ELSE Taken(n) + 1
       /\ Taken(n) \in Nat
  BY <1>1, <1>2, <1>3, <1>7, <1>8 DEF Taken
<1>11. \A i \in 1..Len(fifo') : fifo'[i] = Wrote(Taken(n + 1)' + i)
  <2> TAKE i \in 1..Len(fifo')
  <2>1. CASE Len(fifo) < Depth
    BY <1>1, <1>7, <1>9, <1>10, <2>1
  <2>2. CASE ~(Len(fifo) < Depth)
    <3>1. fifo'[i] = more[i + 1] /\ i + 1 \in 1..Len(more)
      BY <1>1, <1>2, <1>7, <1>8, <1>10, <2>2
    <3>2. Taken(n) + (i + 1) = Taken(n + 1)' + i
      BY <1>10, <2>2
    <3> QED BY <1>9, <3>1, <3>2
  <2> QED BY <2>1, <2>2
<1>12. Written(n + 1)'
  <2>1. /\ n + 1 \in Nat /\ Len(fifo') <= n + 1 /\ phase' = (n + 1) % 3
        /\ time' = At(Sample(n + 1))' /\ At(Sample(n + 1))' = At(Sample(n + 1))
    <3>1. (n + 1) % 3 = ((n % 3) + 1) % 3
      OBVIOUS
    <3>2. At(Sample(n + 1))' = At(Sample(n + 1))
      BY <1>1 DEF At, Sample
    <3> QED BY <1>1, <1>2, <1>3, <1>4, <1>10, <3>1, <3>2
  <2>2. \A i \in 1..Len(fifo') : fifo'[i] = Wrote(Taken(n + 1) + i)'
    BY <1>1, <1>11 DEF Wrote, At
  <2>3. ShortPause /\ delivered'.sound => delivered'.timestamp <= time'
    <3>1. ShortPause /\ delivered.sound => delivered.timestamp <= time
      BY <1>3 DEF Written
    <3> QED BY <1>1, <1>2, <1>4, <3>1
  <2>4. pc' = "read" => entries' % 3 = 0 /\ credit' <= Late
    BY <1>1, <1>2, <1>3, Constants DEF Written
  <2> QED BY <2>1, <2>2, <2>3, <2>4 DEF Written
<1>13. ASSUME Sound' PROVE Mapped(p)' /\ Between(n + 1, p)'
  <2>1. Sound /\ Mapped(p) /\ Between(n, p)
    BY <1>1, <1>13 DEF Sound, TrackInv
  <2>2. Mapped(p)'
    BY <1>1, <2>1 DEF Mapped
  <2>3. pc = "idle" => Len(fifo') = Depth \/ Taken(n + 1)' \div 3 = p
    BY <1>2, <1>10, <2>1, Constants DEF Between
  <2>4. pc = "read" => /\ 3 * p <= Taken(n + 1)'
                       /\ Taken(n + 1)' <= 3 * p + 2 + Late - credit'
    BY <1>1, <1>2, <1>10, <2>1, Constants DEF Between
  <2>5. pc = "read" /\ ~lost' => Taken(n + 1)' = 3 * p
    <3>1. ~lost' => ~lost /\ Len(fifo) # Depth
      BY <1>1
    <3> QED BY <1>2, <1>10, <2>1, <3>1, Constants DEF Between
  <2>6. Between(n + 1, p)'
    BY <1>1, <2>1, <2>3, <2>4, <2>5 DEF Between, At
  <2> QED BY <2>2, <2>6
<1>14. ASSUME Sound', ~lost' PROVE (Taken(n + 1) % 3 = 0)'
  <2>1. Sound /\ ~lost /\ Len(fifo) # Depth
    BY <1>1, <1>14 DEF Sound
  <2> QED BY <1>2, <1>10, <2>1, Constants DEF TrackInv
<1>15. TrackInv(n + 1, 0, p)'
  BY <1>1, <1>12, <1>13, <1>14 DEF TrackInv
<1> QED BY <1>15 DEF Tracked

(* The status is read, with room left in the FIFO: nothing was overwritten  *)
(* since the last batch.                                                    *)
LEMMA StatusTracks ==
  ASSUME BatchInv, NEW n \in Nat, NEW b \in Nat, NEW p \in Nat,
         TrackInv(n, b, p), Status
  PROVE  Tracked'
<1>1. Written(n)
  BY DEF TrackInv
<1>2. CASE FifoRecover(stamp, fifo)
  BY <1>1, <1>2, RecoverNowTracks
<1>3. CASE ~FifoRecover(stamp, fifo)
  <2>1. /\ entries' = Smaller(Len(fifo) \div EntriesPerScan, MaxScans) * EntriesPerScan
        /\ Len(fifo) < Depth /\ pc = "idle" /\ pc' = "read" /\ credit' = Late
        /\ UNCHANGED <<time, origin, phase, fifo, running, lost, garbled,
                       fifo_faulted, stamp, delivered>>
    BY <1>3 DEF Status, sensor
  <2>2. Len(fifo) \in Nat /\ n - Len(fifo) \in Nat
    BY <1>1, Lengths DEF Written
  <2>3. entries' % 3 = 0
    <3>1. Smaller(Len(fifo) \div 3, MaxScans) \in Nat
      BY <2>2, Constants DEF Smaller
    <3>2. \A k \in Nat : (k * 3) % 3 = 0
      OBVIOUS
    <3> QED BY <2>1, <3>1, <3>2 DEF EntriesPerScan
  <2>4. Written(n)'
    BY <1>1, <2>1, <2>3, Constants DEF Written, Taken, Wrote, At
  <2>5. Taken(n)' = Taken(n) /\ Taken(n) \in Nat
    BY <2>1, <2>2 DEF Taken
  <2>6. ASSUME Sound' PROVE Mapped(p)' /\ Between(n, p)'
    <3>1. Sound /\ Mapped(p) /\ Between(n, p)
      BY <2>1, <2>6 DEF Sound, TrackInv
    <3>2. Mapped(p)'
      BY <2>1, <3>1 DEF Mapped
    <3>3. Taken(n) \div 3 = p
      BY <2>1, <2>2, <3>1 DEF Between
    <3>4. 3 * p <= Taken(n) /\ Taken(n) <= 3 * p + 2 + Late - credit'
      BY <2>1, <2>5, <3>3, Constants
    <3>5. ~lost => Taken(n) = 3 * p
      <4>1. ~lost => Taken(n) % 3 = 0
        BY <3>1 DEF TrackInv
      <4> QED BY <2>5, <3>3, <4>1
    <3>6. Between(n, p)'
      BY <2>1, <2>5, <3>1, <3>4, <3>5 DEF Between, At
    <3> QED BY <3>2, <3>6
  <2>7. ASSUME Sound', ~lost' PROVE Taken(n)' % 3 = 0
    <3>1. Sound /\ ~lost
      BY <2>1, <2>7 DEF Sound
    <3> QED BY <2>5, <3>1 DEF TrackInv
  <2>8. TrackInv(n, 0, p)'
    BY <2>1, <2>4, <2>6, <2>7 DEF TrackInv
  <2> QED BY <2>8 DEF Tracked
<1> QED BY <1>2, <1>3

(* What a part of the FIFO holds.                                           *)
LEMMA Cut ==
  ASSUME BatchInv, NEW n \in Nat, n <= Len(fifo)
  PROVE  /\ Len(SubSeq(fifo, 1, n)) = n
         /\ \A i \in 1..n : SubSeq(fifo, 1, n)[i] = fifo[i]
         /\ Len(SubSeq(fifo, n + 1, Len(fifo))) = Len(fifo) - n
         /\ \A i \in 1..Len(fifo) - n :
              SubSeq(fifo, n + 1, Len(fifo))[i] = fifo[n + i]
<1>1. fifo \in Seq(EntryType) /\ Len(fifo) \in Nat
  BY Lengths DEF BatchInv, SensorInv
<1>2. \A i \in 1..Len(fifo) : fifo[i] \in EntryType
  BY <1>1, ElementOfSeq
<1>3. /\ Len(SubSeq(fifo, 1, n)) = n
      /\ \A i \in 1..n : SubSeq(fifo, 1, n)[i] = fifo[i]
  <2>1. \A i \in 1..n : fifo[i] \in EntryType
    BY <1>1, <1>2
  <2>2. /\ Len(SubSeq(fifo, 1, n)) = IF 1 <= n THEN n - 1 + 1 ELSE 0
        /\ \A i \in 1..n - 1 + 1 : SubSeq(fifo, 1, n)[i] = fifo[1 + i - 1]
    BY <2>1, SubSeqProperties
  <2> QED BY <2>2
<1>4. /\ Len(SubSeq(fifo, n + 1, Len(fifo))) = Len(fifo) - n
      /\ \A i \in 1..Len(fifo) - n :
           SubSeq(fifo, n + 1, Len(fifo))[i] = fifo[n + i]
  <2>1. \A i \in n + 1..Len(fifo) : fifo[i] \in EntryType
    BY <1>1, <1>2
  <2>2. n + 1 \in Int /\ Len(fifo) \in Int
    BY <1>1
  <2>3. /\ Len(SubSeq(fifo, n + 1, Len(fifo)))
             = IF n + 1 <= Len(fifo) THEN Len(fifo) - (n + 1) + 1 ELSE 0
        /\ \A i \in 1..Len(fifo) - (n + 1) + 1 :
             SubSeq(fifo, n + 1, Len(fifo))[i] = fifo[(n + 1) + i - 1]
    BY <2>1, <2>2, SubSeqProperties
  <2> QED BY <1>1, <2>3
<1> QED BY <1>3, <1>4

(* The oldest entries are transferred.                                      *)
LEMMA ReadTracks ==
  ASSUME BatchInv, NEW n \in Nat, NEW b \in Nat, NEW p \in Nat,
         TrackInv(n, b, p), Read
  PROVE  Tracked'
<1>1. /\ Len(fifo) \in Nat /\ entries \in Nat /\ entries <= Len(fifo)
      /\ credit \in Nat /\ n - Len(fifo) \in Nat /\ Written(n) /\ pc = "read"
      /\ origin \in Nat /\ entries % 3 = 0 /\ delivered.timestamp \in Nat
  BY Lengths DEF Read, TrackInv, Written
<1> DEFINE oldest == SubSeq(fifo, 1, entries)
<1>2. /\ fifo' = SubSeq(fifo, entries + 1, Len(fifo))
      /\ pc' = "parse" /\ NoLocals
      /\ (batch' = oldest /\ UNCHANGED garbled) \/ garbled' = TRUE
      /\ UNCHANGED <<time, origin, phase, lost, fifo_faulted, stamp, delivered>>
  BY DEF Read
<1>3. /\ Len(oldest) = entries /\ Len(fifo') = Len(fifo) - entries
      /\ \A i \in 1..entries : oldest[i] = fifo[i]
      /\ \A i \in 1..Len(fifo') : fifo'[i] = fifo[entries + i]
  BY <1>1, <1>2, Cut
<1> HIDE DEF oldest
<1>4. /\ Taken(n)' = Taken(n) + entries /\ Taken(n) \in Nat
      /\ Taken(n) = n - Len(fifo)
  BY <1>1, <1>3 DEF Taken
<1>5. \A i \in 1..Len(fifo) : fifo[i] = Wrote(Taken(n) + i)
  BY <1>1 DEF Written
<1>6. Written(n)'
  <2>1. ASSUME NEW i \in 1..Len(fifo') PROVE fifo'[i] = Wrote(Taken(n)' + i)
    <3>1. entries + i \in 1..Len(fifo)
      BY <1>1, <1>3
    <3>2. Taken(n) + (entries + i) = Taken(n)' + i
      BY <1>1, <1>4
    <3> QED BY <1>3, <1>5, <3>1, <3>2
  <2>2. \A i \in 1..Len(fifo') : fifo'[i] = Wrote(Taken(n) + i)'
    BY <1>2, <2>1 DEF Wrote, At
  <2> QED BY <1>1, <1>2, <1>3, <2>2 DEF Written, At
<1>7. ASSUME Sound'
      PROVE  /\ Sound /\ Mapped(p)' /\ Between(n, p) /\ batch' = oldest
             /\ Taken(n) + Len(batch') = Taken(n)'
  <2>1. Sound /\ batch' = oldest
    BY <1>2, <1>7 DEF Sound
  <2>2. Mapped(p) /\ Between(n, p)
    BY <1>1, <2>1 DEF TrackInv
  <2>3. Mapped(p)'
    BY <1>2, <2>2 DEF Mapped
  <2>4. Taken(n) + Len(batch') = Taken(n)'
    BY <1>3, <1>4, <2>1
  <2> QED BY <2>1, <2>2, <2>3, <2>4
<1>8. PICK c \in Nat : c = Taken(n)
  BY <1>4
<1>9. /\ stamps' = <<>> /\ Len(stamps') = 0 /\ scans' = <<>> /\ Len(scans') = 0
      /\ index' = 0 /\ pending' = NoData
  BY <1>2, NoSeq DEF NoLocals
<1>10. ASSUME Sound' PROVE Parsing(c, p)'
  <2>1. Between(n, p) /\ batch' = oldest
    BY <1>7, <1>10
  <2>2. 3 * p <= c /\ c <= 3 * p + 2 + Late - credit
    BY <1>1, <1>8, <2>1 DEF Between
  <2>3. p <= c \div 3 /\ c <= 3 * p + 2 + Late /\ c \div 3 \in Nat
    BY <1>1, <2>2, Constants
  <2>4. ASSUME NEW i \in 1..Len(batch') PROVE batch'[i] = Wrote(c + i)'
    <3>1. i \in 1..entries /\ i \in 1..Len(fifo)
      BY <1>1, <1>3, <2>1
    <3>2. batch'[i] = Wrote(c + i)
      BY <1>3, <1>5, <1>8, <2>1, <3>1
    <3> QED BY <1>2, <3>2 DEF Wrote, At
  <2>5. ShortPause /\ delivered'.sound => delivered'.timestamp <= At(c \div 3)'
    <3>1. At(p) <= At(c \div 3) /\ At(p) \in Nat /\ At(c \div 3) \in Nat
      BY <1>1, <2>3, Times
    <3>2. ShortPause /\ delivered.sound => delivered.timestamp <= At(p)
      BY <2>1 DEF Between
    <3> QED BY <1>1, <1>2, <3>1, <3>2 DEF At
  <2>6. ~lost' => c = 3 * p
    BY <1>1, <1>2, <1>8, <2>1 DEF Between
  <2> QED BY <1>2, <1>9, <2>3, <2>4, <2>5, <2>6 DEF Parsing
<1>11. ASSUME Sound', ~lost' PROVE Taken(n)' % 3 = 0 /\ Whole(c)'
  <2>1. c % 3 = 0
    BY <1>2, <1>7, <1>8, <1>11 DEF TrackInv
  <2>2. Taken(n)' % 3 = 0
    BY <1>1, <1>4, <1>8, <2>1
  <2>3. NoData = [NoData EXCEPT !["gyro"] = 0]
    BY DEF NoData, DataTags
  <2>4. Whole(c)'
    BY <1>2, <1>9, <2>1, <2>3 DEF Whole
  <2> QED BY <2>2, <2>4
<1>12. TrackInv(n, c, p)'
  BY <1>2, <1>6, <1>7, <1>8, <1>10, <1>11 DEF TrackInv
<1> QED BY <1>12 DEF Tracked

(* A transfer fails.                                                        *)
LEMMA ReadFailsTracks ==
  ASSUME BatchInv, NEW n \in Nat, Written(n), ReadFails
  PROVE  Tracked'
<1>1. PICK k \in 0..entries : FifoRecover(stamp, SubSeq(fifo, k + 1, Len(fifo)))
  BY DEF ReadFails
<1>2. /\ Len(fifo) \in Nat /\ k \in Nat /\ k <= Len(fifo)
  BY Lengths DEF ReadFails
<1> DEFINE rest == SubSeq(fifo, k + 1, Len(fifo))
<1>3. /\ rest \in Seq(EntryType) /\ Len(rest) = Len(fifo) - k
      /\ \A i \in 1..Len(fifo) - k : rest[i] = fifo[k + i]
  BY <1>2, Parts, Cut
<1> HIDE DEF rest
<1>4. ASSUME NEW i \in 1..Len(rest)
      PROVE  rest[i] = fifo[Len(fifo) - Len(rest) + i]
  <2>1. Len(fifo) - Len(rest) + i = k + i /\ i \in 1..Len(fifo) - k
    BY <1>2, <1>3
  <2> QED BY <1>3, <2>1
<1>5. Len(rest) <= Len(fifo) /\ FifoRecover(stamp, rest)
  BY <1>1, <1>2, <1>3 DEF rest
<1> QED BY <1>3, <1>4, <1>5, RecoverTracks
-----------------------------------------------------------------------------
(* The parser moves to the next entry.  The entry is the one the sensor     *)
(* wrote there.                                                             *)
LEMMA EntryWritten ==
  ASSUME BatchInv, NEW n \in Nat, NEW b \in Nat, NEW p \in Nat,
         TrackInv(n, b, p), Parses, Sound
  PROVE  /\ Parsing(b, p) /\ index \in Nat /\ Len(batch) \in Nat
         /\ index < Len(batch)
         /\ Entry = Wrote(b + index + 1)
         /\ Entry.at = At(Sample(b + index + 1))
         /\ Entry.tag = "gyro" <=> (b + index) % 3 = 0
         /\ Entry.tag = "accel" <=> (b + index) % 3 = 1
         /\ Entry.tag = "timestamp" <=> (b + index) % 3 = 2
<1>1. /\ index \in Nat /\ Len(batch) \in Nat /\ index < Len(batch) /\ pc = "parse"
  BY Lengths DEF Parses
<1>2. Parsing(b, p)
  BY <1>1 DEF TrackInv
<1>3. index + 1 \in 1..Len(batch) /\ b + (index + 1) = b + index + 1
  BY <1>1
<1>4. Entry = Wrote(b + index + 1)
  BY <1>2, <1>3 DEF Parsing, Entry
<1>5. b + index \in Nat
  BY <1>1
<1> QED BY <1>1, <1>2, <1>4, <1>5, Kinds

(* What an entry has to show, besides that nothing else changes.            *)
LEMMA EntryTracks ==
  ASSUME BatchInv, NEW n \in Nat, NEW b \in Nat, NEW p \in Nat,
         TrackInv(n, b, p), Parses, malformed => malformed',
         Sound /\ ~malformed' =>
           /\ Len(stamps') = (b + index + 1) \div 3 - b \div 3
           /\ \A k \in 1..Len(stamps') :
                stamps'[k] = [raw |-> (Period * (b \div 3 + k)) % Wrap,
                              at |-> At(b \div 3 + k)],
         Sound /\ ~malformed' /\ ~lost =>
           /\ Len(scans') = (index + 1 + 1) \div 3
           /\ pending' = [NoData EXCEPT !["gyro"] =
                IF (index + 1) % 3 = 1 THEN At(Sample(b + index + 1)) ELSE 0]
           /\ \A k \in 1..Len(scans') :
                /\ scans'[k].gyro = At(b \div 3 + k)
                /\ scans'[k].accel = At(b \div 3 + k)
  PROVE  Tracked'
<1>1. /\ index' = index + 1 /\ pc = "parse" /\ pc' = "parse"
      /\ UNCHANGED <<time, origin, phase, fifo, running, lost, garbled,
                     fifo_faulted, stamp, batch, delivered>>
      /\ index \in Nat
  BY Lengths DEF Parses, sensor
<1>2. Taken(n)' = Taken(n)
  BY <1>1 DEF Taken
<1>3. Written(n)'
  BY <1>1 DEF TrackInv, Written, Taken, Wrote, At
<1>4. ASSUME Sound' PROVE /\ Sound /\ Parsing(b, p) /\ Mapped(p)'
                          /\ b + Len(batch) = Taken(n)
  BY <1>1, <1>4 DEF Sound, TrackInv, Mapped
<1>5. b + index' = b + index + 1 /\ b + index + 1 \in Nat
  BY <1>1
<1>6. ASSUME Sound' PROVE Parsing(b, p)'
  <2>1. \A i \in 1..Len(batch') : batch'[i] = Wrote(b + i)'
    BY <1>1, <1>4, <1>6 DEF Parsing, Wrote, At
  <2>2. ShortPause /\ delivered'.sound => delivered'.timestamp <= At(b \div 3)'
    BY <1>1, <1>4, <1>6 DEF Parsing, At
  <2>3. p <= b \div 3 /\ b <= 3 * p + 2 + Late /\ (~lost' => b = 3 * p)
    BY <1>1, <1>4, <1>6 DEF Parsing
  <2>4. ~malformed' => Len(stamps') = (b + index') \div 3 - b \div 3
    BY <1>4, <1>5, <1>6
  <2>5. ASSUME ~malformed', NEW k \in 1..Len(stamps')
        PROVE  stamps'[k] = [raw |-> (Period * (b \div 3 + k)) % Wrap,
                             at |-> At(b \div 3 + k)]'
    BY <1>1, <1>4, <1>6, <2>5 DEF At
  <2> QED BY <1>1, <2>1, <2>2, <2>3, <2>4, <2>5 DEF Parsing
<1>7. ASSUME Sound', ~lost' PROVE Taken(n)' % 3 = 0 /\ Whole(b)'
  <2>1. Sound /\ ~lost /\ Taken(n) % 3 = 0 /\ b % 3 = 0
    BY <1>1, <1>4, <1>7 DEF TrackInv, Whole
  <2>2. ASSUME ~malformed'
        PROVE  /\ Len(scans') = (index' + 1) \div 3
               /\ pending' = [NoData EXCEPT !["gyro"] =
                    IF index' % 3 = 1 THEN At(Sample(b + index))' ELSE 0]
               /\ \A k \in 1..Len(scans') :
                    /\ scans'[k].gyro = At(b \div 3 + k)'
                    /\ scans'[k].accel = At(b \div 3 + k)'
    <3>1. At(Sample(b + index))' = At(Sample(b + index + 1))
      BY <1>1 DEF At, Sample
    <3>2. /\ Len(scans') = (index' + 1) \div 3
          /\ pending' = [NoData EXCEPT !["gyro"] =
               IF index' % 3 = 1 THEN At(Sample(b + index + 1)) ELSE 0]
          /\ \A k \in 1..Len(scans') :
               /\ scans'[k].gyro = At(b \div 3 + k)
               /\ scans'[k].accel = At(b \div 3 + k)
      BY <1>1, <2>1, <2>2
    <3>3. \A k \in 1..Len(scans') : At(b \div 3 + k)' = At(b \div 3 + k)
      BY <1>1 DEF At
    <3> QED BY <3>1, <3>2, <3>3
  <2>3. Whole(b)'
    BY <1>1, <2>1, <2>2 DEF Whole
  <2> QED BY <1>2, <2>1, <2>3
<1>8. TrackInv(n, b, p)'
  BY <1>1, <1>2, <1>3, <1>4, <1>6, <1>7 DEF TrackInv
<1> QED BY <1>8 DEF Tracked

(* A gyro entry opens a scan, the accel entry after it completes it.        *)
LEMMA DataTracks ==
  ASSUME BatchInv, NEW n \in Nat, NEW b \in Nat, NEW p \in Nat,
         TrackInv(n, b, p), DataEntry
  PROVE  Tracked'
<1>1. Parses /\ Entry.tag \in {"gyro", "accel"}
  BY DEF DataEntry, DataTags
<1> DEFINE pair == [pending EXCEPT ![Entry.tag] = Entry.at]
           complete == \A t \in DataTags : pair[t] # 0
           scan == [gyro |-> pair["gyro"], accel |-> pair["accel"], timestamp |-> 0]
<1>2. /\ malformed' = (malformed \/ Doubled(Entry.tag) \/ (complete /\ ~Room(scans)))
      /\ scans' = IF complete /\ Room(scans) THEN Append(scans, scan) ELSE scans
      /\ pending' = IF complete THEN NoData ELSE pair
      /\ stamps' = stamps /\ pc = "parse"
  BY DEF DataEntry, Parses
<1>3. complete <=> pair["gyro"] # 0 /\ pair["accel"] # 0
  BY DEF DataTags
<1>4. /\ index \in Nat /\ Len(stamps) \in Nat /\ Len(scans) \in Nat
      /\ scans \in Seq(ScanType) /\ pending \in [DataTags -> Nat]
      /\ origin \in Nat /\ b + index \in Nat /\ b + index + 1 \in Nat
  BY Lengths DEF BatchInv, ParserInv
<1>5. malformed => malformed'
  BY <1>2
<1>6. ASSUME Sound
      PROVE  /\ Parsing(b, p) /\ Entry.at = At(Sample(b + index + 1))
             /\ Entry.tag = "gyro" <=> (b + index) % 3 = 0
             /\ Entry.tag = "accel" <=> (b + index) % 3 = 1
  BY <1>1, <1>6, EntryWritten
<1>7. ASSUME Sound, ~malformed'
      PROVE  /\ Len(stamps') = (b + index + 1) \div 3 - b \div 3
             /\ \A k \in 1..Len(stamps') :
                  stamps'[k] = [raw |-> (Period * (b \div 3 + k)) % Wrap,
                                at |-> At(b \div 3 + k)]
  <2>1. /\ Len(stamps) = (b + index) \div 3 - b \div 3
        /\ \A k \in 1..Len(stamps) :
             stamps[k] = [raw |-> (Period * (b \div 3 + k)) % Wrap,
                          at |-> At(b \div 3 + k)]
    BY <1>2, <1>6, <1>7 DEF Parsing
  <2>2. (b + index) % 3 # 2
    BY <1>1, <1>6, <1>7
  <2>3. (b + index + 1) \div 3 = (b + index) \div 3
    BY <1>4, <2>2, Ends, Zenon
  <2> QED BY <1>2, <2>1, <2>3
<1>8. ASSUME Sound, ~malformed', ~lost
      PROVE  /\ Len(scans') = (index + 1 + 1) \div 3
             /\ pending' = [NoData EXCEPT !["gyro"] =
                  IF (index + 1) % 3 = 1 THEN At(Sample(b + index + 1)) ELSE 0]
             /\ \A k \in 1..Len(scans') :
                  /\ scans'[k].gyro = At(b \div 3 + k)
                  /\ scans'[k].accel = At(b \div 3 + k)
  <2>1. /\ b % 3 = 0 /\ Len(scans) = (index + 1) \div 3
        /\ pending = [NoData EXCEPT !["gyro"] =
                        IF index % 3 = 1 THEN At(Sample(b + index)) ELSE 0]
        /\ \A k \in 1..Len(scans) : /\ scans[k].gyro = At(b \div 3 + k)
                                    /\ scans[k].accel = At(b \div 3 + k)
    BY <1>2, <1>8 DEF TrackInv, Whole
  <2>2. /\ pending["accel"] = 0
        /\ pending["gyro"] = IF index % 3 = 1 THEN At(Sample(b + index)) ELSE 0
    BY <2>1 DEF NoData, DataTags
  <2>5. /\ (b + index) % 3 = index % 3
        /\ Sample(b + index) = b \div 3 + (index + 2) \div 3
        /\ index % 3 = 0 =>
             (index + 2) \div 3 = (index + 1) \div 3 /\ (index + 1) % 3 = 1
        /\ index % 3 = 1 =>
             (index + 2) \div 3 = (index + 1) \div 3 + 1 /\ (index + 1) % 3 = 2
        /\ index % 3 = 2 =>
             (index + 2) \div 3 = (index + 1) \div 3 /\ (index + 1) % 3 = 0
    <3>1. b % 3 = 0 /\ index \in Nat
      BY <1>4, <2>1
    <3> QED BY <3>1, Aligned, Zenon
  <2>6. (b + index) % 3 # 0 => Sample(b + index + 1) = Sample(b + index)
    BY <1>4, Numbers
  <2>3. CASE Entry.tag = "gyro"
    <3>1. (b + index) % 3 = 0
      BY <1>6, <1>8, <2>3
    <3>2. /\ index % 3 = 0 /\ (index + 1) % 3 = 1
          /\ (index + 1 + 1) \div 3 = (index + 1) \div 3
      <4>1. index % 3 = 0 /\ index + 1 + 1 = index + 2
        BY <1>4, <2>5, <3>1
      <4> QED BY <2>5, <4>1
    <3>3. pair["accel"] = 0 /\ pair = [NoData EXCEPT !["gyro"] = Entry.at]
      BY <2>1, <2>2, <2>3 DEF NoData, DataTags
    <3>4. scans' = scans /\ pending' = pair
      BY <1>2, <1>3, <3>3
    <3> QED BY <1>6, <1>8, <2>1, <3>2, <3>3, <3>4
  <2>4. CASE Entry.tag = "accel"
    <3>1. (b + index) % 3 = 1
      BY <1>6, <1>8, <2>4
    <3>2. /\ index % 3 = 1 /\ (index + 1) % 3 # 1
          /\ (index + 1 + 1) \div 3 = (index + 1) \div 3 + 1
          /\ Sample(b + index) = b \div 3 + ((index + 1) \div 3 + 1)
          /\ Sample(b + index + 1) = Sample(b + index)
          /\ Sample(b + index) \in Nat /\ Sample(b + index) > 0
      <4>1. index % 3 = 1 /\ index + 1 + 1 = index + 2
        BY <1>4, <2>5, <3>1
      <4>2. /\ (index + 2) \div 3 = (index + 1) \div 3 + 1 /\ (index + 1) % 3 = 2
            /\ Sample(b + index) = b \div 3 + (index + 2) \div 3
        BY <2>5, <4>1
      <4>3. Sample(b + index + 1) = Sample(b + index)
        BY <2>6, <3>1
      <4>4. b \div 3 \in Nat /\ (index + 1) \div 3 \in Nat
        BY <1>4
      <4> QED BY <2>5, <4>1, <4>2, <4>3, <4>4
    <3>3. At(Sample(b + index)) > 0 /\ At(Sample(b + index)) \in Nat
      BY <1>4, <3>2, Times
    <3>4. /\ pair["gyro"] = At(b \div 3 + (Len(scans) + 1))
          /\ pair["accel"] = At(b \div 3 + (Len(scans) + 1))
          /\ pair["gyro"] # 0 /\ pair["accel"] # 0
      <4>1. pair["gyro"] = pending["gyro"] /\ pair["accel"] = Entry.at
        BY <1>4, <2>4 DEF DataTags
      <4>2. pending["gyro"] = At(Sample(b + index)) /\ Entry.at = At(Sample(b + index))
        BY <1>6, <1>8, <2>2, <3>2
      <4> QED BY <2>1, <3>2, <3>3, <4>1, <4>2
    <3>5. complete /\ Room(scans) /\ pending' = NoData
      BY <1>2, <1>3, <1>8, <3>4
    <3>6. scans' = Append(scans, scan)
      BY <1>2, <3>5
    <3>7. scan \in ScanType
      BY <1>1, <1>4, <1>6, <1>8, <3>2, <3>3, <3>4 DEF ScanType, DataTags
    <3>8. /\ scan.gyro = At(b \div 3 + (Len(scans) + 1))
          /\ scan.accel = At(b \div 3 + (Len(scans) + 1))
      BY <3>4
    <3> HIDE DEF pair, complete, scan
    <3>9. /\ Len(scans') = Len(scans) + 1
          /\ \A k \in 1..Len(scans) : scans'[k] = scans[k]
          /\ scans'[Len(scans) + 1] = scan
      BY <1>4, <3>6, <3>7, AppendProperties
    <3>10. ASSUME NEW k \in 1..Len(scans')
           PROVE  scans'[k].gyro = At(b \div 3 + k) /\ scans'[k].accel = At(b \div 3 + k)
      <4>1. CASE k = Len(scans) + 1
        BY <3>8, <3>9, <4>1
      <4>2. CASE k # Len(scans) + 1
        <5>1. k \in 1..Len(scans)
          BY <1>4, <3>9, <4>2
        <5> QED BY <2>1, <3>9, <5>1
      <4> QED BY <4>1, <4>2
    <3>11. NoData = [NoData EXCEPT !["gyro"] = 0]
      BY DEF NoData, DataTags
    <3> QED BY <2>1, <3>2, <3>5, <3>9, <3>10, <3>11
  <2> QED BY <1>1, <2>3, <2>4
<1> QED BY <1>1, <1>5, <1>7, <1>8, EntryTracks

(* A timestamp entry ends a sample.                                         *)
LEMMA TimestampTracks ==
  ASSUME BatchInv, NEW n \in Nat, NEW b \in Nat, NEW p \in Nat,
         TrackInv(n, b, p), TimestampEntry
  PROVE  Tracked'
<1>1. Parses /\ Entry.tag = "timestamp" /\ pc = "parse"
  BY DEF TimestampEntry, Parses
<1> DEFINE new == [raw |-> Raw(Entry.at), at |-> Entry.at]
<1>2. /\ scans' = scans /\ pending' = pending
      /\ malformed => malformed'
      /\ ~malformed' => ~malformed /\ stamps' = Append(stamps, new)
  BY DEF TimestampEntry
<1>3. /\ index \in Nat /\ Len(stamps) \in Nat /\ stamps \in Seq(RawType)
      /\ origin \in Nat /\ b + index \in Nat /\ b + index + 1 \in Nat
  BY Lengths DEF BatchInv, ParserInv
<1>4. ASSUME Sound
      PROVE  /\ Parsing(b, p) /\ Entry.at = At(Sample(b + index + 1))
             /\ (b + index) % 3 = 2
  BY <1>1, <1>4, EntryWritten
<1>5. ASSUME Sound, ~malformed'
      PROVE  /\ Len(stamps') = (b + index + 1) \div 3 - b \div 3
             /\ \A k \in 1..Len(stamps') :
                  stamps'[k] = [raw |-> (Period * (b \div 3 + k)) % Wrap,
                                at |-> At(b \div 3 + k)]
  <2>1. /\ Len(stamps) = (b + index) \div 3 - b \div 3
        /\ \A k \in 1..Len(stamps) :
             stamps[k] = [raw |-> (Period * (b \div 3 + k)) % Wrap,
                          at |-> At(b \div 3 + k)]
    BY <1>1, <1>2, <1>4, <1>5 DEF Parsing
  <2>2. /\ (b + index + 1) \div 3 = (b + index) \div 3 + 1
        /\ Sample(b + index + 1) = (b + index + 1) \div 3
    BY <1>3, <1>4, <1>5, Ends, Zenon
  <2>3. Sample(b + index + 1) = b \div 3 + (Len(stamps) + 1)
    <3> DEFINE first == b \div 3
               last == (b + index) \div 3
    <3>1. first \in Int /\ last \in Int
      BY <1>3
    <3>2. Len(stamps) = last - first /\ Sample(b + index + 1) = last + 1
      BY <2>1, <2>2
    <3> HIDE DEF first, last
    <3>3. Sample(b + index + 1) = first + (Len(stamps) + 1)
      BY <3>1, <3>2
    <3> QED BY <3>3 DEF first
  <2>4. /\ Entry.at = At(b \div 3 + (Len(stamps) + 1))
        /\ Raw(Entry.at) = (Period * (b \div 3 + (Len(stamps) + 1))) % Wrap
    <3>1. Entry.at = At(b \div 3 + (Len(stamps) + 1))
      BY <1>4, <1>5, <2>3
    <3>2. Period * (b \div 3 + (Len(stamps) + 1)) \in Int
      BY <1>3, Constants
    <3>3. Entry.at - origin = Period * (b \div 3 + (Len(stamps) + 1))
      BY <1>3, <3>1, <3>2 DEF At
    <3> QED BY <3>1, <3>3 DEF Raw
  <2>5. Entry.at \in Nat
    BY <1>1, ParsesInv DEF EntryType
  <2>6. new \in RawType
    BY <1>3, <2>5, RawRange DEF RawType, Raw
  <2>7. new = [raw |-> (Period * (b \div 3 + (Len(stamps) + 1))) % Wrap,
               at |-> At(b \div 3 + (Len(stamps) + 1))]
    BY <2>4
  <2> HIDE DEF new
  <2>8. /\ Len(stamps') = Len(stamps) + 1
        /\ \A k \in 1..Len(stamps) : stamps'[k] = stamps[k]
        /\ stamps'[Len(stamps) + 1] = new
    BY <1>2, <1>3, <1>5, <2>6, AppendProperties
  <2>9. ASSUME NEW k \in 1..Len(stamps')
        PROVE  stamps'[k] = [raw |-> (Period * (b \div 3 + k)) % Wrap,
                             at |-> At(b \div 3 + k)]
    <3>1. CASE k = Len(stamps) + 1
      BY <2>7, <2>8, <3>1
    <3>2. CASE k # Len(stamps) + 1
      <4>1. k \in 1..Len(stamps)
        BY <1>3, <2>8, <3>2
      <4> QED BY <2>1, <2>8, <4>1
    <3> QED BY <3>1, <3>2
  <2> QED BY <1>3, <2>1, <2>2, <2>8, <2>9
<1>6. ASSUME Sound, ~malformed', ~lost
      PROVE  /\ Len(scans') = (index + 1 + 1) \div 3
             /\ pending' = [NoData EXCEPT !["gyro"] =
                  IF (index + 1) % 3 = 1 THEN At(Sample(b + index + 1)) ELSE 0]
             /\ \A k \in 1..Len(scans') :
                  /\ scans'[k].gyro = At(b \div 3 + k)
                  /\ scans'[k].accel = At(b \div 3 + k)
  <2>1. /\ b % 3 = 0 /\ Len(scans) = (index + 1) \div 3
        /\ pending = [NoData EXCEPT !["gyro"] =
                        IF index % 3 = 1 THEN At(Sample(b + index)) ELSE 0]
        /\ \A k \in 1..Len(scans) : /\ scans[k].gyro = At(b \div 3 + k)
                                    /\ scans[k].accel = At(b \div 3 + k)
    BY <1>1, <1>2, <1>6 DEF TrackInv, Whole
  <2>2. /\ (b + index) % 3 = index % 3
        /\ Sample(b + index) = b \div 3 + (index + 2) \div 3
        /\ index % 3 = 0 =>
             (index + 2) \div 3 = (index + 1) \div 3 /\ (index + 1) % 3 = 1
        /\ index % 3 = 1 =>
             (index + 2) \div 3 = (index + 1) \div 3 + 1 /\ (index + 1) % 3 = 2
        /\ index % 3 = 2 =>
             (index + 2) \div 3 = (index + 1) \div 3 /\ (index + 1) % 3 = 0
    <3>1. b % 3 = 0 /\ index \in Nat
      BY <1>3, <2>1
    <3> QED BY <3>1, Aligned, Zenon
  <2>3. /\ index % 3 = 2 /\ (index + 1) % 3 = 0
        /\ (index + 2) \div 3 = (index + 1) \div 3
    BY <1>4, <1>6, <2>2
  <2>4. /\ index % 3 # 1 /\ (index + 1) % 3 # 1
        /\ index + 1 + 1 = index + 2
    BY <1>3, <2>3
  <2>5. pending' = [NoData EXCEPT !["gyro"] =
                  IF (index + 1) % 3 = 1 THEN At(Sample(b + index + 1)) ELSE 0]
    BY <1>2, <2>1, <2>4, Zenon
  <2>6. Len(scans') = (index + 1 + 1) \div 3
    BY <1>2, <2>1, <2>3, <2>4
  <2> QED BY <1>2, <2>1, <2>5, <2>6, Zenon
<1> QED BY <1>1, <1>2, <1>5, <1>6, EntryTracks

(* A tag that no sensor wrote rejects the batch.                            *)
LEMMA UnknownTracks ==
  ASSUME BatchInv, NEW n \in Nat, NEW b \in Nat, NEW p \in Nat,
         TrackInv(n, b, p), UnknownEntry
  PROVE  Tracked'
<1>1. Parses /\ malformed' = TRUE
  BY DEF UnknownEntry
<1> QED BY <1>1, EntryTracks

(* The batch is rejected, or its timestamps are counted.                    *)
LEMMA ParseEndTracks ==
  ASSUME BatchInv, NEW n \in Nat, NEW b \in Nat, NEW p \in Nat,
         TrackInv(n, b, p), ParseEnd
  PROVE  Tracked'
<1>1. Written(n) /\ pc = "parse" /\ index = Len(batch)
  BY DEF TrackInv, ParseEnd
<1>2. CASE FifoRecover(stamp, fifo)
  BY <1>1, <1>2, RecoverNowTracks
<1>3. CASE ~FifoRecover(stamp, fifo)
  <2>1. /\ ~malformed /\ pc' = "stamp" /\ index' = 0
        /\ UNCHANGED <<time, origin, phase, fifo, lost, garbled, fifo_faulted,
                       stamp, batch, malformed, scans, stamps, delivered>>
    BY <1>3 DEF ParseEnd, Rejected, sensor
  <2>2. Taken(n)' = Taken(n) /\ Written(n)'
    BY <1>1, <2>1 DEF Written, Taken, Wrote, At
  <2>3. /\ Len(batch) \in Nat /\ Len(stamps) \in Nat /\ b + Len(batch) \in Nat
    BY Lengths
  <2>4. ASSUME Sound'
        PROVE  /\ Sound /\ Mapped(p)' /\ Parsing(b, p) /\ b + Len(batch) = Taken(n)
    BY <1>1, <2>1, <2>4 DEF Sound, TrackInv, Mapped
  <2>5. ASSUME Sound' PROVE Parsing(b, p)'
    <3>1. /\ \A i \in 1..Len(batch) : batch[i] = Wrote(b + i)
          /\ ShortPause /\ delivered.sound => delivered.timestamp <= At(b \div 3)
          /\ p <= b \div 3 /\ b <= 3 * p + 2 + Late /\ (~lost => b = 3 * p)
          /\ Len(stamps) = (b + index) \div 3 - b \div 3
          /\ \A k \in 1..Len(stamps) :
               stamps[k] = [raw |-> (Period * (b \div 3 + k)) % Wrap,
                            at |-> At(b \div 3 + k)]
      BY <1>1, <2>1, <2>4, <2>5 DEF Parsing
    <3>2. b \div 3 + Len(stamps') = (b + Len(batch')) \div 3
      BY <1>1, <2>1, <2>3, <3>1
    <3>3. \A i \in 1..Len(batch') : batch'[i] = Wrote(b + i)'
      BY <2>1, <3>1 DEF Wrote, At
    <3>4. ShortPause /\ delivered'.sound => delivered'.timestamp <= At(b \div 3)'
      BY <2>1, <3>1 DEF At
    <3>5. \A k \in 1..Len(stamps') :
               stamps'[k] = [raw |-> (Period * (b \div 3 + k)) % Wrap,
                             at |-> At(b \div 3 + k)]'
      BY <2>1, <3>1 DEF At
    <3>6. ShortPause => \A k \in 1..index' : scans'[k].timestamp = stamps'[k].at
      BY <2>1
    <3> QED BY <2>1, <3>1, <3>2, <3>3, <3>4, <3>5, <3>6 DEF Parsing
  <2>6. ASSUME Sound', ~lost' PROVE Taken(n)' % 3 = 0 /\ Whole(b)'
    <3>1. Taken(n) % 3 = 0 /\ Whole(b)
      BY <1>1, <2>1, <2>4, <2>6 DEF TrackInv
    <3>2. Whole(b)'
      BY <2>1, <3>1 DEF Whole, At
    <3> QED BY <2>2, <3>1, <3>2
  <2>7. TrackInv(n, b, p)'
    BY <2>1, <2>2, <2>4, <2>5, <2>6 DEF TrackInv
  <2> QED BY <2>7 DEF Tracked
<1> QED BY <1>2, <1>3
-----------------------------------------------------------------------------
(* The mapping of the counter goes from sample p to a later sample q.       *)
LEMMA Maps ==
  ASSUME ShortPause, stamp \in StampType, NEW p \in Nat, NEW q \in Nat,
         Mapped(p), p < q,
         Period * (q - p) < Wrap, NEW raw \in 0..Wrap - 1,
         raw = (Period * q) % Wrap,
         Behind(stamp, raw) => Wrapped(stamp, raw)
  PROVE  /\ Extended(stamp, raw).hw_timestamp_valid
         /\ Extended(stamp, raw).hw_timestamp_ref_ns = origin
         /\ Extended(stamp, raw).hw_timestamp_wraps * Wrap
              + Extended(stamp, raw).last_hw_timestamp = Period * q
<1> DEFINE w == stamp.hw_timestamp_wraps
           r == stamp.last_hw_timestamp
           v == IF Wrapped(stamp, raw) THEN w + 1 ELSE w
<1>1. w \in Nat /\ r \in 0..Wrap - 1 /\ stamp.hw_timestamp_valid \in BOOLEAN
  BY DEF StampType
<1>2. v \in Nat
  BY <1>1
<1>3. Extended(stamp, raw) = [stamp EXCEPT !.hw_timestamp_wraps = v,
                !.last_hw_timestamp = raw, !.hw_timestamp_valid = TRUE]
  BY DEF Extended
<1>4. /\ Extended(stamp, raw).hw_timestamp_valid
      /\ Extended(stamp, raw).hw_timestamp_ref_ns = stamp.hw_timestamp_ref_ns
      /\ Extended(stamp, raw).hw_timestamp_wraps = v
      /\ Extended(stamp, raw).last_hw_timestamp = raw
  <2> HIDE DEF v
  <2> QED BY <1>3 DEF StampType
<1>5. /\ Period * p \in Nat /\ Period * q \in Nat
      /\ Period * (q - p) = Period * q - Period * p
      /\ Period * p < Period * q
  <2>1. Period * p \in Nat /\ Period * q \in Nat
    BY Constants
  <2>2. Period * (q - p) = Period * q - Period * p
    BY Constants
  <2>3. Period * 1 <= Period * (q - p) /\ Period * 1 = Period
    <3>1. 1 \in Int /\ q - p \in Int /\ 1 <= q - p
      OBVIOUS
    <3> QED BY <3>1, Products, Constants
  <2> QED BY <2>1, <2>2, <2>3, Constants
<1>6. CASE stamp.hw_timestamp_valid
  <2>1. w * Wrap + r = Period * p
    BY <1>6 DEF Mapped
  <2>2. /\ raw >= r => Period * q = w * Wrap + raw
        /\ raw < r => Period * q = (w + 1) * Wrap + raw
    BY <1>1, <1>5, <2>1, Unwrap
  <2>3. Wrapped(stamp, raw) <=> raw < r
    BY <1>6 DEF Wrapped, Behind
  <2>4. v * Wrap + raw = Period * q
    BY <1>1, <2>2, <2>3, Constants
  <2> QED BY <1>4, <2>4 DEF Mapped
<1>7. CASE ~stamp.hw_timestamp_valid
  <2>1. w = 0 /\ p = 0 /\ ~Wrapped(stamp, raw)
    BY <1>7 DEF Mapped, Wrapped, Behind
  <2>2. Period * q < Wrap
    BY <1>5, <2>1
  <2>3. raw = Period * q
    BY <1>5, <2>2, Constants
  <2>4. v * Wrap + raw = Period * q
    <3>1. v = 0 /\ 0 * Wrap = 0
      BY <2>1, Constants
    <3> QED BY <1>5, <2>3, <3>1
  <2> QED BY <1>4, <2>4 DEF Mapped
<1> QED BY <1>6, <1>7

(* A scan gets its timestamp: the mapping goes on to its sample.            *)
LEMMA StampTracks ==
  ASSUME BatchInv, NEW n \in Nat, NEW b \in Nat, NEW p \in Nat,
         TrackInv(n, b, p), Stamp
  PROVE  Tracked'
<1> DEFINE raw == stamps[index + 1].raw
           s == Extended(stamp, raw)
<1>1. /\ Written(n) /\ pc = "stamp" /\ index < Len(scans) /\ index \in Nat
      /\ Len(scans) \in Nat /\ Len(stamps) = Len(scans)
      /\ scans \in Seq(ScanType) /\ stamps \in Seq(RawType)
      /\ stamp \in StampType /\ origin \in Nat
  BY Lengths DEF TrackInv, Stamp, BatchInv, ParserInv, OrderInv, Accounted
<1> PICK q \in Nat : q = b \div 3 + (index + 1)
  <2>1. b \div 3 + (index + 1) \in Nat
    BY <1>1
  <2> QED BY <2>1
<1>2. raw \in 0..Wrap - 1
  <2>1. index + 1 \in 1..Len(stamps)
    BY <1>1
  <2>2. stamps[index + 1] \in RawType
    BY <1>1, <2>1, ElementOfSeq
  <2> QED BY <2>2 DEF RawType
<1>3. CASE FifoRecover(stamp, fifo) \/ FifoRecover(s, fifo)
  <2> HIDE DEF s
  <2> QED BY <1>1, <1>3, RecoverNowTracks
<1>4. CASE ~(FifoRecover(stamp, fifo) \/ FifoRecover(s, fifo))
  <2>1. /\ Behind(stamp, raw) => Wrapped(stamp, raw)
        /\ stamp' = s
        /\ scans' = [scans EXCEPT ![index + 1].timestamp = ToNs(s)]
        /\ index' = index + 1 /\ pc' = "stamp"
        /\ UNCHANGED <<time, origin, phase, fifo, lost, garbled, fifo_faulted,
                       entries, credit, batch, malformed, stamps, delivered>>
    BY <1>1, <1>4 DEF Stamp, sensor
  <2>2. Written(n)' /\ Taken(n)' = Taken(n)
    BY <1>1, <2>1 DEF Written, Taken, Wrote, At
  <2>3. /\ Len(scans') = Len(scans)
        /\ \A k \in 1..Len(scans) :
             /\ scans'[k].gyro = scans[k].gyro /\ scans'[k].accel = scans[k].accel
             /\ scans'[k].timestamp = IF k = index + 1 THEN ToNs(s)
                                                       ELSE scans[k].timestamp
    <3>1. scans[index + 1] \in ScanType
      BY <1>1, ElementOfSeq
    <3> HIDE DEF s
    <3> DEFINE scan == [scans[index + 1] EXCEPT !.timestamp = ToNs(s)]
    <3>2. /\ scan.gyro = scans[index + 1].gyro /\ scan.accel = scans[index + 1].accel
          /\ scan.timestamp = ToNs(s)
      BY <3>1 DEF ScanType
    <3>3. scans' = [scans EXCEPT ![index + 1] = scan]
      BY <2>1
    <3> HIDE DEF scan
    <3>4. DOMAIN scans' = DOMAIN scans /\ DOMAIN scans = 1..Len(scans)
      BY <1>1, <3>3
    <3>5. \A k \in 1..Len(scans) :
            scans'[k] = IF k = index + 1 THEN scan ELSE scans[k]
      BY <1>1, <3>3, <3>4
    <3>6. Len(scans') = Len(scans)
      BY <1>1, <3>3
    <3> QED BY <3>2, <3>5, <3>6
  <2>4. ASSUME Sound'
        PROVE  /\ Sound /\ Mapped(p) /\ Parsing(b, p) /\ b + Len(batch) = Taken(n)
    BY <1>1, <2>1, <2>4 DEF Sound, TrackInv
  <2>5. ASSUME Sound'
        PROVE  p < q /\ q - p <= (Late + 2) \div 3 + 1
    <3>1. CASE index = 0
      <4>1. p <= b \div 3 /\ b <= 3 * p + 2 + Late
        BY <2>4, <2>5, <3>1 DEF Parsing
      <4>2. b \div 3 <= p + (Late + 2) \div 3
        BY <4>1, Constants
      <4> QED BY <3>1, <4>1, <4>2, Constants
    <3>2. CASE index # 0
      <4>1. p = b \div 3 + index
        BY <1>1, <2>4, <2>5, <3>2 DEF Parsing
      <4>2. (Late + 2) \div 3 >= 0
        BY Constants
      <4> QED BY <1>1, <4>1, <4>2, Constants
    <3> QED BY <3>1, <3>2
  <2>6. ASSUME Sound', ShortPause PROVE Period * (q - p) < Wrap
    <3>1. q - p \in Int /\ (Late + 2) \div 3 + 1 \in Int
      BY <2>5, <2>6, Constants
    <3>2. Period * (q - p) <= Period * ((Late + 2) \div 3 + 1)
      BY <2>5, <2>6, <3>1, Products
    <3>3. Period * (q - p) \in Int /\ Period * ((Late + 2) \div 3 + 1) \in Int
      BY <3>1, Constants
    <3> QED BY <2>6, <3>2, <3>3, Constants DEF ShortPause
  <2>7. ASSUME Sound' PROVE raw = (Period * q) % Wrap /\ stamps[index + 1].at = At(q)
    <3>1. index + 1 \in 1..Len(stamps)
      BY <1>1
    <3>2. stamps[index + 1] = [raw |-> (Period * (b \div 3 + (index + 1))) % Wrap,
                               at |-> At(b \div 3 + (index + 1))]
      BY <1>1, <2>4, <2>7, <3>1 DEF Parsing
    <3> QED BY <3>2
  <2>8. ASSUME Sound', ShortPause
        PROVE  /\ s.hw_timestamp_valid /\ s.hw_timestamp_ref_ns = origin
               /\ s.hw_timestamp_wraps * Wrap + s.last_hw_timestamp = Period * q
    <3> HIDE DEF raw
    <3> QED BY <1>1, <1>2, <2>1, <2>4, <2>5, <2>6, <2>7, <2>8, Maps
  <2>9. ASSUME Sound', ShortPause PROVE ToNs(s) = At(q)
    <3>1. s \in StampType
      BY <1>1, <1>2, ExtendedType
    <3> HIDE DEF s
    <3>2. /\ s.hw_timestamp_wraps * Wrap \in Int /\ s.last_hw_timestamp \in Int
      BY <3>1, Constants DEF StampType
    <3> QED BY <1>1, <2>8, <2>9, <3>2 DEF ToNs, At
  <2> HIDE DEF s, raw
  <2>10. ASSUME Sound' PROVE Mapped(q)'
    BY <2>1, <2>8, <2>10 DEF Mapped
  <2>11. ASSUME Sound' PROVE Parsing(b, q)'
    <3>1. /\ \A i \in 1..Len(batch) : batch[i] = Wrote(b + i)
          /\ ShortPause /\ delivered.sound => delivered.timestamp <= At(b \div 3)
          /\ b \div 3 + Len(stamps) = (b + Len(batch)) \div 3
          /\ ShortPause =>
            \A k \in 1..index : scans[k].timestamp = stamps[k].at
          /\ \A k \in 1..Len(stamps) :
               stamps[k] = [raw |-> (Period * (b \div 3 + k)) % Wrap,
                            at |-> At(b \div 3 + k)]
      BY <1>1, <2>4, <2>11 DEF Parsing
    <3>2. \A i \in 1..Len(batch') : batch'[i] = Wrote(b + i)'
      BY <2>1, <3>1 DEF Wrote, At
    <3>3. ShortPause /\ delivered'.sound => delivered'.timestamp <= At(b \div 3)'
      BY <2>1, <3>1 DEF At
    <3>4. \A k \in 1..Len(stamps') :
               stamps'[k] = [raw |-> (Period * (b \div 3 + k)) % Wrap,
                             at |-> At(b \div 3 + k)]'
      BY <2>1, <3>1 DEF At
    <3>5. ASSUME ShortPause, NEW k \in 1..index' PROVE scans'[k].timestamp = stamps'[k].at
      <4>1. CASE k = index + 1
        BY <1>1, <2>1, <2>3, <2>7, <2>9, <2>11, <3>5, <4>1
      <4>2. CASE k # index + 1
        <5>1. k \in 1..index /\ k \in 1..Len(scans)
          BY <1>1, <2>1, <4>2
        <5> QED BY <2>1, <2>3, <3>1, <3>5, <4>2, <5>1
      <4> QED BY <4>1, <4>2
    <3>6. index' > 0 /\ q = b \div 3 + index'
      BY <1>1, <2>1
    <3> QED BY <2>1, <3>1, <3>2, <3>3, <3>4, <3>5, <3>6 DEF Parsing
  <2>12. ASSUME Sound', ~lost' PROVE Taken(n)' % 3 = 0 /\ Whole(b)'
    <3>1. Taken(n) % 3 = 0 /\ Whole(b)
      BY <1>1, <2>1, <2>4, <2>12 DEF TrackInv
    <3>2. /\ b % 3 = 0
          /\ \A k \in 1..Len(scans) : /\ scans[k].gyro = At(b \div 3 + k)
                                      /\ scans[k].accel = At(b \div 3 + k)
      BY <1>1, <3>1 DEF Whole
    <3>3. \A k \in 1..Len(scans') : /\ scans'[k].gyro = At(b \div 3 + k)'
                                   /\ scans'[k].accel = At(b \div 3 + k)'
      BY <2>1, <2>3, <3>2 DEF At
    <3>4. Whole(b)'
      BY <2>1, <3>2, <3>3 DEF Whole
    <3> QED BY <2>2, <3>1, <3>4
  <2>13. CASE Sound'
    <3>1. TrackInv(n, b, q)'
      BY <2>1, <2>2, <2>4, <2>10, <2>11, <2>12, <2>13 DEF TrackInv
    <3> QED BY <2>5, <2>13, <3>1 DEF Tracked
  <2>14. CASE ~Sound'
    <3>1. TrackInv(n, b, p)'
      BY <2>2, <2>14 DEF TrackInv
    <3> QED BY <3>1 DEF Tracked
  <2> QED BY <2>13, <2>14
<1> QED BY <1>3, <1>4

(* The scans are delivered: the mapping is at the last sample taken.        *)
LEMMA PushTracks ==
  ASSUME BatchInv, NEW n \in Nat, NEW b \in Nat, NEW p \in Nat,
         TrackInv(n, b, p), Push
  PROVE  Tracked'
<1>1. /\ pc = "stamp" /\ index = Len(scans) /\ pc' = "idle"
      /\ stamp' = [stamp EXCEPT !.last_timestamp_ns = scans[Len(scans)].timestamp,
                                !.timestamp_valid = TRUE]
      /\ delivered' = [timestamp |-> scans[Len(scans)].timestamp,
                       sound |-> ~garbled /\ ~fifo_faulted]
      /\ UNCHANGED <<time, origin, phase, fifo, lost, garbled, fifo_faulted>>
  BY DEF Push, Ready, sensor
<1>2. /\ Len(scans) \in Nat /\ Len(scans) > 0 /\ Len(stamps) = Len(scans)
      /\ stamp \in StampType /\ Written(n) /\ origin \in Nat /\ time \in Nat
      /\ Len(batch) \in Nat /\ Len(fifo) \in Nat /\ n - Len(fifo) \in Nat
  BY <1>1, Lengths
     DEF BatchInv, ParserInv, OrderInv, Accounted, TrackInv, Written
<1>3. delivered'.timestamp = scans[Len(scans)].timestamp
  BY <1>1
<1>4. delivered'.sound <=> Sound
  BY <1>1, Zenon DEF Sound
<1>5. Sound' <=> Sound
  BY <1>1, Zenon DEF Sound
<1>6. ASSUME Sound
      PROVE  /\ Mapped(p) /\ Taken(n) \div 3 = p /\ At(p) <= time
             /\ ShortPause => delivered'.timestamp = At(p)
  <2>1. Mapped(p) /\ Parsing(b, p) /\ b + Len(batch) = Taken(n)
    BY <1>1, <1>6 DEF TrackInv
  <2>2. /\ b \div 3 + Len(stamps) = (b + Len(batch)) \div 3
        /\ p = b \div 3 + index
        /\ ShortPause =>
            \A k \in 1..index : scans[k].timestamp = stamps[k].at
        /\ \A k \in 1..Len(stamps) :
             stamps[k] = [raw |-> (Period * (b \div 3 + k)) % Wrap,
                          at |-> At(b \div 3 + k)]
    BY <1>1, <1>2, <2>1 DEF Parsing
  <2>3. Taken(n) \div 3 = p
    BY <1>1, <1>2, <2>1, <2>2
  <2>4. ASSUME ShortPause PROVE scans[Len(scans)].timestamp = At(p)
    <3>1. Len(scans) \in 1..index /\ Len(scans) \in 1..Len(stamps)
      BY <1>1, <1>2
    <3>2. stamps[Len(scans)] = [raw |-> (Period * (b \div 3 + Len(scans))) % Wrap,
                                at |-> At(b \div 3 + Len(scans))]
      BY <2>2, <3>1, Zenon
    <3>3. stamps[Len(scans)].at = At(b \div 3 + Len(scans))
      BY <3>2
    <3> QED BY <1>1, <2>2, <2>4, <3>1, <3>3
  <2>5. p <= Sample(n) /\ Sample(n) \in Nat
    <3>1. Taken(n) <= n /\ Taken(n) \in Nat
      BY <1>2 DEF Taken
    <3> QED BY <1>2, <2>3, <3>1 DEF Sample
  <2>6. At(p) <= time
    BY <1>2, <2>5, Times DEF Written
  <2> QED BY <1>3, <2>1, <2>3, <2>4, <2>6
<1>7. Written(n)'
  <2>1. /\ n \in Nat /\ Len(fifo) <= n /\ time = At(Sample(n)) /\ phase = n % 3
        /\ \A i \in 1..Len(fifo) : fifo[i] = Wrote(Taken(n) + i)
    BY <1>2 DEF Written
  <2>2. ShortPause /\ delivered'.sound => delivered'.timestamp <= time'
    BY <1>1, <1>4, <1>6
  <2> QED BY <1>1, <2>1, <2>2 DEF Written, Taken, Wrote, At
<1>8. ASSUME Sound' PROVE Mapped(p)' /\ Between(n, p)'
  <2>1. Mapped(p)'
    <3>1. /\ stamp'.hw_timestamp_ref_ns = stamp.hw_timestamp_ref_ns
          /\ stamp'.hw_timestamp_valid = stamp.hw_timestamp_valid
          /\ stamp'.hw_timestamp_wraps = stamp.hw_timestamp_wraps
          /\ stamp'.last_hw_timestamp = stamp.last_hw_timestamp
      BY <1>1, <1>2 DEF StampType
    <3> QED BY <1>1, <1>5, <1>6, <1>8, <3>1 DEF Mapped
  <2>2. At(p)' = At(p) /\ Taken(n)' = Taken(n) /\ At(p) \in Nat
    BY <1>1, <1>2, Times DEF At, Taken
  <2>3. Between(n, p)'
    BY <1>1, <1>5, <1>6, <1>8, <2>2 DEF Between
  <2> QED BY <2>1, <2>3
<1>9. ASSUME Sound', ~lost' PROVE Taken(n)' % 3 = 0
  BY <1>1, <1>5, <1>9 DEF TrackInv, Taken
<1>10. TrackInv(n, b, p)'
  BY <1>1, <1>7, <1>8, <1>9 DEF TrackInv
<1> QED BY <1>10 DEF Tracked

(* A new session starts the counting anew.                                  *)
LEMMA ReopenTracks ==
  ASSUME BatchInv, Reopen
  PROVE  Tracked'
<1>1. /\ pc' = "idle" /\ fifo' = <<>> /\ phase' = 0
      /\ origin' = time /\ time' = time
      /\ stamp' = Reset(Invalid(stamp)) /\ delivered'.timestamp = 0
  BY DEF Reopen, Restarted, Nobody
<1>2. /\ time \in Nat /\ Len(fifo') = 0 /\ Sample(0) = 0 /\ At(0)' = time
  BY <1>1, Lengths, NoSeq, Constants DEF At, Sample
<1>3. Taken(0)' = 0
  BY <1>2 DEF Taken
<1>4. Written(0)'
  BY <1>1, <1>2 DEF Written
<1>5. Mapped(0)'
  <2>1. /\ stamp'.hw_timestamp_ref_ns = time /\ ~stamp'.hw_timestamp_valid
        /\ stamp'.hw_timestamp_wraps = 0
    BY <1>1 DEF Reset
  <2> QED BY <1>1, <2>1 DEF Mapped
<1>6. Between(0, 0)'
  BY <1>1, <1>2, <1>3 DEF Between
<1>7. TrackInv(0, 0, 0)'
  BY <1>1, <1>3, <1>4, <1>5, <1>6 DEF TrackInv
<1> QED BY <1>7 DEF Tracked

LEMMA StutterTracks == Tracked /\ UNCHANGED vars => Tracked'
<1> SUFFICES ASSUME NEW n \in Nat, NEW b \in Nat, NEW p \in Nat,
                    TrackInv(n, b, p), UNCHANGED vars
             PROVE  TrackInv(n, b, p)'
  BY DEF Tracked
<1>1. /\ UNCHANGED <<time, origin, phase, fifo, lost, garbled, fifo_faulted, stamp>>
      /\ UNCHANGED <<pc, entries, credit, batch, delivered>>
      /\ UNCHANGED <<index, pending, malformed, scans, stamps>>
  BY DEF vars, sensor, locals
<1>2. Written(n)' /\ Taken(n)' = Taken(n)
  BY <1>1 DEF TrackInv, Written, Taken, Wrote, At
<1>3. Mapped(p) => Mapped(p)'
  BY <1>1 DEF Mapped
<1>4. Between(n, p) => Between(n, p)'
  BY <1>1 DEF Between, Taken, At
<1>5. Parsing(b, p) => Parsing(b, p)'
  BY <1>1, Zenon DEF Parsing, Wrote, At
<1>6. Whole(b) => Whole(b)'
  BY <1>1, Zenon DEF Whole, Sample, At
<1> QED BY <1>1, <1>2, <1>3, <1>4, <1>5, <1>6 DEF TrackInv, Sound

LEMMA InitTracks == Init => Tracked
<1> SUFFICES ASSUME Init PROVE Tracked
  OBVIOUS
<1>1. /\ pc = "idle" /\ Len(fifo) = 0 /\ phase = 0 /\ origin = 0 /\ time = 0
      /\ delivered.timestamp = 0
      /\ stamp.hw_timestamp_ref_ns = 0 /\ ~stamp.hw_timestamp_valid
      /\ stamp.hw_timestamp_wraps = 0
  BY NoSeq DEF Init, Nobody, NoStamp
<1>2. Sample(0) = 0 /\ At(0) = 0 /\ Taken(0) = 0
  <2>1. Sample(0) = 0
    BY DEF Sample
  <2>3. Taken(0) = 0
    BY <1>1 DEF Taken
  <2>2. Period * 0 = 0
    BY Constants
  <2> QED BY <1>1, <2>1, <2>2, <2>3 DEF At
<1>3. Written(0) /\ Mapped(0) /\ Between(0, 0)
  BY <1>1, <1>2 DEF Written, Mapped, Between
<1>4. TrackInv(0, 0, 0)
  BY <1>1, <1>2, <1>3 DEF TrackInv
<1> QED BY <1>4 DEF Tracked

LEMMA NextTracks == ClockInv /\ [Next]_vars => Tracked'
<1> SUFFICES ASSUME BatchInv, Tracked, [Next]_vars PROVE Tracked'
  BY DEF ClockInv
<1>1. PICK n \in Nat, b \in Nat, p \in Nat : TrackInv(n, b, p)
  BY DEF Tracked
<1>2. Written(n)
  BY <1>1 DEF TrackInv
<1> QED
  BY <1>1, <1>2, WriteTracks, StatusTracks, ReadTracks, ReadFailsTracks,
     DataTracks, TimestampTracks, UnknownTracks, ParseEndTracks, StampTracks,
     PushTracks, ReopenTracks, StutterTracks, Zenon DEF Next

(* The history of the sensor and the mapping are known in every state.      *)
THEOREM ClocksAgree == Spec => []ClockInv
<1>1. Init => ClockInv
  BY InitBatch, InitTracks DEF ClockInv
<1>2. ClockInv /\ [Next]_vars => ClockInv'
  BY NextBatch, NextTracks DEF ClockInv
<1> QED BY <1>1, <1>2, PTL DEF Spec

(* Every timestamp delivered is the time of its sample, through every wrap  *)
(* of the counter, every batch boundary and every reset:                    *)
(* lsm6dsox_hw_timestamp_to_ns and lsm6dsox_reset_hw_timestamp.  Without    *)
(* ShortPause nobody could tell how often the counter went round.           *)
THEOREM StampsCorrect == ASSUME ShortPause PROVE Spec => []StampsTrue
<1>1. ClockInv => StampsTrue
  BY DEF ClockInv, Tracked, TrackInv, Parsing, StampsTrue
<1> QED BY <1>1, ClocksAgree, PTL

(* What a batch that is ready to be pushed holds.                           *)
LEMMA ReadyBatch ==
  ASSUME ClockInv, Ready, Sound
  PROVE  \E b \in Nat :
           /\ ShortPause /\ delivered.sound => delivered.timestamp <= At(b \div 3)
           /\ \A k \in 1..Len(scans) :
                /\ ShortPause => scans[k].timestamp = stamps[k].at
                /\ stamps[k].at = At(b \div 3 + k)
           /\ ~lost => \A k \in 1..Len(scans) :
                         /\ scans[k].gyro = At(b \div 3 + k)
                         /\ scans[k].accel = At(b \div 3 + k)
<1>1. PICK n \in Nat, b \in Nat, p \in Nat : TrackInv(n, b, p)
  BY DEF ClockInv, Tracked
<1>2. pc = "stamp" /\ index = Len(scans) /\ Len(stamps) = Len(scans)
  BY DEF Ready, ClockInv, BatchInv, ParserInv, Accounted
<1>3. Parsing(b, p) /\ (~lost => Whole(b))
  BY <1>1, <1>2 DEF TrackInv
<1>4. ASSUME NEW k \in 1..Len(scans)
      PROVE  /\ ShortPause => scans[k].timestamp = stamps[k].at
             /\ stamps[k].at = At(b \div 3 + k)
  <2>1. stamps[k] = [raw |-> (Period * (b \div 3 + k)) % Wrap,
                     at |-> At(b \div 3 + k)]
    BY <1>2, <1>3 DEF Parsing
  <2> QED BY <1>2, <1>3, <2>1 DEF Parsing
<1>5. ShortPause /\ delivered.sound => delivered.timestamp <= At(b \div 3)
  BY <1>3 DEF Parsing
<1>6. ~lost => \A k \in 1..Len(scans) :
                 scans[k].gyro = At(b \div 3 + k) /\ scans[k].accel = At(b \div 3 + k)
  BY <1>2, <1>3 DEF Whole
<1> QED BY <1>4, <1>5, <1>6

(* For the reader of a whole session time runs forward, through overruns    *)
(* and recoveries: lsm6dsox_fifo_recover takes a new reference.             *)
THEOREM SessionsRunForward == ASSUME ShortPause PROVE Spec => []TimeForward
<1>1. ClockInv => TimeForward
  <2> SUFFICES ASSUME ClockInv, Ready, Sound, delivered.sound
               PROVE  delivered.timestamp < scans[1].timestamp
    BY DEF TimeForward
  <2>1. /\ Len(scans) \in Nat /\ Len(scans) > 0 /\ origin \in Nat
        /\ delivered.timestamp \in Nat
    BY Lengths DEF ClockInv, Ready, BatchInv, ParserInv
  <2>2. PICK b \in Nat :
          /\ delivered.timestamp <= At(b \div 3)
          /\ \A k \in 1..Len(scans) : /\ scans[k].timestamp = stamps[k].at
                                      /\ stamps[k].at = At(b \div 3 + k)
    BY ReadyBatch
  <2>3. scans[1].timestamp = At(b \div 3 + 1)
    BY <2>1, <2>2
  <2>4. b \div 3 \in Nat
    OBVIOUS
  <2>5. At(b \div 3 + 1) = At(b \div 3) + Period /\ At(b \div 3) \in Nat
    BY <2>1, <2>4, Times
  <2> QED BY <2>1, <2>2, <2>3, <2>5, Constants
<1> QED BY <1>1, ClocksAgree, PTL

(* Unless the sensor has overwritten entries, a scan holds the accelerometer*)
(* and the gyroscope of one sample, and its time.                           *)
THEOREM ScansCorrect == Spec => []WholeScans
<1>1. ClockInv => WholeScans
  <2> SUFFICES ASSUME ClockInv, Ready, Sound, ~lost
               PROVE  \A k \in 1..Len(scans) : /\ scans[k].gyro = stamps[k].at
                                               /\ scans[k].accel = stamps[k].at
    BY DEF WholeScans
  <2> QED BY ReadyBatch
<1> QED BY <1>1, ClocksAgree, PTL
-----------------------------------------------------------------------------
(* A batch that was read is never empty, an entry the sensor wrote fits in, *)
(* and the last timestamp given out is where the mapping stands.            *)
AlarmInv ==
  /\ pc = "read" => entries > 0
  /\ pc = "parse" => Len(batch) > 0
  /\ pc = "parse" /\ Sound /\ ~lost => ~malformed
  /\ pc = "stamp" /\ index > 0 =>
       stamp.hw_timestamp_valid /\ scans[index].timestamp = ToNs(stamp)
  /\ (pc # "stamp" \/ index = 0) /\ stamp.timestamp_valid =>
       stamp.hw_timestamp_valid /\ stamp.last_timestamp_ns = ToNs(stamp)

QuietInv == ClockInv /\ CountInv /\ AlarmInv

(* An entry of a batch of whole samples makes nothing malformed: its pair   *)
(* is not open yet, and the arrays have room.                               *)
LEMMA EntryFits ==
  ASSUME ClockInv, CountInv, Parses, Sound, ~lost, ~malformed
  PROVE  /\ Entry.tag # "other"
         /\ Entry.tag \in DataTags => ~Doubled(Entry.tag)
         /\ Room(scans) \/ Entry.tag = "timestamp"
         /\ Entry.tag = "timestamp" => Room(stamps)
<1>1. PICK n \in Nat, b \in Nat, p \in Nat : TrackInv(n, b, p)
  BY DEF ClockInv, Tracked
<1>2. BatchInv /\ pc = "parse"
  BY DEF ClockInv, Parses
<1>3. /\ Parsing(b, p) /\ index \in Nat /\ Len(batch) \in Nat
      /\ index < Len(batch) /\ Len(batch) <= 3 * MaxScans
      /\ Entry.tag = TagOf((b + index) % 3)
  <2>1. Parsing(b, p) /\ Entry = Wrote(b + index + 1)
        /\ index \in Nat /\ Len(batch) \in Nat /\ index < Len(batch)
    BY <1>1, <1>2, EntryWritten
  <2>2. b + index \in Nat /\ b + index + 1 = (b + index) + 1
    BY <2>1
  <2> QED BY <2>1, <2>2, Kinds DEF CountInv
<1>4. /\ b % 3 = 0 /\ Len(scans) = (index + 1) \div 3
      /\ pending = [NoData EXCEPT !["gyro"] =
                      IF index % 3 = 1 THEN At(Sample(b + index)) ELSE 0]
  BY <1>1, <1>2 DEF TrackInv, Whole
<1>5. (b + index) % 3 = index % 3 /\ index % 3 \in 0..2
  BY <1>3, <1>4, Aligned, Zenon
<1>6. Entry.tag = TagOf(index % 3)
  BY <1>3, <1>5
<1>7. Entry.tag # "other"
  BY <1>5, <1>6 DEF TagOf
<1>8. Entry.tag \in DataTags => ~Doubled(Entry.tag)
  <2>1. CASE index % 3 = 0
    <3>1. Entry.tag = "gyro" /\ pending["gyro"] = 0
      BY <1>4, <1>6, <2>1 DEF TagOf, NoData, DataTags
    <3> QED BY <3>1 DEF Doubled
  <2>2. CASE index % 3 = 1
    <3>1. Entry.tag = "accel" /\ pending["accel"] = 0
      BY <1>4, <1>6, <2>2 DEF TagOf, NoData, DataTags
    <3> QED BY <3>1 DEF Doubled
  <2>3. CASE index % 3 = 2
    BY <1>6, <2>3 DEF TagOf, DataTags
  <2> QED BY <1>5, <2>1, <2>2, <2>3
<1>9. Room(scans) \/ Entry.tag = "timestamp"
  <2>1. CASE index % 3 = 2
    BY <1>6, <2>1 DEF TagOf
  <2>2. CASE index % 3 # 2
    <3>1. (index + 1) \div 3 = index \div 3
      BY <1>3, <2>2, Ends, Zenon
    <3>2. index \div 3 < MaxScans
      BY <1>3, Constants
    <3> QED BY <1>4, <3>1, <3>2 DEF Room
  <2> QED BY <2>1, <2>2
<1>10. ASSUME Entry.tag = "timestamp" PROVE Room(stamps)
  <2>1. Len(stamps) = (b + index) \div 3 - b \div 3
    BY <1>2, <1>3 DEF Parsing
  <2>2. PICK c \in Nat : b = 3 * c
    <3>1. b \div 3 \in Nat /\ b = 3 * (b \div 3)
      BY <1>4
    <3> QED BY <3>1
  <2>3. (b + index) \div 3 - b \div 3 = index \div 3
    BY <1>3, <2>2
  <2>4. index \div 3 < MaxScans
    BY <1>3, Constants
  <2> QED BY <2>1, <2>3, <2>4 DEF Room
<1> QED BY <1>7, <1>8, <1>9, <1>10

(* The whole samples of a batch pass the checks at its end.                 *)
LEMMA EndAccepts ==
  ASSUME QuietInv, pc = "parse", index = Len(batch), Sound, ~lost
  PROVE  ~Rejected
<1>1. PICK n \in Nat, b \in Nat, p \in Nat : TrackInv(n, b, p)
  BY DEF QuietInv, ClockInv, Tracked
<1>2. /\ BatchInv /\ ~malformed /\ Len(batch) \in Nat /\ Len(batch) > 0
      /\ Len(fifo) \in Nat /\ n - Len(fifo) \in Int
  BY Lengths DEF QuietInv, ClockInv, AlarmInv
<1>3. /\ b + Len(batch) = Taken(n) /\ Taken(n) % 3 = 0
      /\ Parsing(b, p) /\ Whole(b)
  BY <1>1 DEF TrackInv
<1>4. /\ b % 3 = 0 /\ Len(scans) = (Len(batch) + 1) \div 3
      /\ pending = [NoData EXCEPT !["gyro"] =
                      IF Len(batch) % 3 = 1 THEN At(Sample(b + Len(batch))) ELSE 0]
      /\ Len(stamps) = (b + Len(batch)) \div 3 - b \div 3
  BY <1>2, <1>3 DEF Whole, Parsing
<1>5. PICK c \in Nat : b = 3 * c
  <2>1. b \div 3 \in Nat /\ b = 3 * (b \div 3)
    BY <1>4
  <2> QED BY <2>1
<1>6. Len(batch) % 3 = 0
  <2>1. (b + Len(batch)) % 3 = 0
    BY <1>3
  <2> QED BY <1>2, <1>5, <2>1
<1>7. PICK d \in Nat : Len(batch) = 3 * d
  <2>1. Len(batch) \div 3 \in Nat /\ Len(batch) = 3 * (Len(batch) \div 3)
    BY <1>2, <1>6
  <2> QED BY <2>1
<1>8. Len(scans) = d /\ Len(stamps) = d /\ d > 0
  <2>1. (3 * d + 1) \div 3 = d /\ (3 * c + 3 * d) \div 3 - (3 * c) \div 3 = d
    OBVIOUS
  <2> QED BY <1>2, <1>4, <1>5, <1>7, <2>1
<1>9. pending = NoData
  <2>1. Len(batch) % 3 # 1
    BY <1>6
  <2>2. pending = [NoData EXCEPT !["gyro"] = 0]
    BY <1>4, <2>1, Zenon
  <2> QED BY <2>2 DEF NoData, DataTags
<1> QED BY <1>2, <1>8, <1>9 DEF Rejected

(* The next timestamp comes one period after the last one, whether or not   *)
(* the counter has wrapped in between.                                      *)
LEMMA OnePeriod ==
  ASSUME QuietInv, ShortPause, 2 * Period < Wrap, pc = "stamp",
         index < Len(scans), Sound, ~lost,
         NEW raw, raw = stamps[index + 1].raw
  PROVE  /\ Behind(stamp, raw) => Wrapped(stamp, raw)
         /\ Follows => ToNs(Extended(stamp, raw)) - Previous = Period
<1>1. PICK n \in Nat, b \in Nat, p \in Nat : TrackInv(n, b, p)
  BY DEF QuietInv, ClockInv, Tracked
<1>2. /\ BatchInv /\ index \in Nat /\ Len(scans) \in Nat
      /\ Len(stamps) = Len(scans) /\ stamps \in Seq(RawType)
      /\ stamp \in StampType /\ origin \in Nat
  BY Lengths DEF QuietInv, ClockInv, BatchInv, ParserInv, OrderInv, Accounted
<1>3. Mapped(p) /\ Parsing(b, p) /\ Whole(b)
  BY <1>1 DEF TrackInv
<1>4. p = b \div 3 + index
  <2>1. CASE index = 0
    <3>1. b = 3 * p
      BY <1>3, <2>1 DEF Parsing
    <3> QED BY <2>1, <3>1
  <2>2. CASE index # 0
    BY <1>2, <1>3, <2>2 DEF Parsing
  <2> QED BY <2>1, <2>2
<1> PICK q \in Nat : q = p + 1
  OBVIOUS
<1>5. raw = (Period * q) % Wrap /\ raw \in 0..Wrap - 1
  <2>1. index + 1 \in 1..Len(stamps)
    BY <1>2
  <2>2. stamps[index + 1] = [raw |-> (Period * (b \div 3 + (index + 1))) % Wrap,
                             at |-> At(b \div 3 + (index + 1))]
    BY <1>3, <2>1 DEF Parsing
  <2>3. b \div 3 + (index + 1) = q
    BY <1>2, <1>4
  <2>4. stamps[index + 1] \in RawType
    BY <1>2, <2>1, ElementOfSeq
  <2> QED BY <2>2, <2>3, <2>4 DEF RawType
<1>6. /\ Period * p \in Nat /\ Period * q \in Nat
      /\ Period * q = Period * p + Period
  BY Constants
<1> DEFINE w == stamp.hw_timestamp_wraps
           r == stamp.last_hw_timestamp
<1>7. w \in Nat /\ r \in 0..Wrap - 1
  BY <1>2 DEF StampType
<1>8. ASSUME stamp.hw_timestamp_valid PROVE w * Wrap + r = Period * p
  BY <1>3, <1>8 DEF Mapped
<1>9. ASSUME Behind(stamp, raw) PROVE Wrapped(stamp, raw)
  <2>1. raw < r /\ w * Wrap + r = Period * p
    BY <1>8, <1>9 DEF Behind
  <2>2. w * Wrap \in Int /\ (w + 1) * Wrap = w * Wrap + Wrap
    BY <1>7, Constants
  <2> HIDE DEF w, r
  <2>3. w * Wrap + r < Period * q /\ Period * q - (w * Wrap + r) < Wrap
    BY <1>6, <1>7, <2>1, <2>2, Constants
  <2>4. Period * q = (w + 1) * Wrap + raw
    BY <1>5, <1>6, <1>7, <2>1, <2>3, Unwrap
  <2>5. r - raw = Wrap - Period
    BY <1>5, <1>6, <1>7, <2>1, <2>2, <2>4, Constants
  <2>6. r - raw > Wrap \div 2
    BY <2>5, Constants
  <2> QED BY <1>9, <2>6 DEF Wrapped, r
<1>10. ASSUME Follows PROVE ToNs(Extended(stamp, raw)) - Previous = Period
  <2>1. stamp.hw_timestamp_valid /\ Previous = ToNs(stamp)
    BY <1>2, <1>10 DEF QuietInv, AlarmInv, Follows, Previous
  <2>2. ToNs(stamp) = origin + Period * p
    <3>1. stamp.hw_timestamp_ref_ns = origin /\ w * Wrap + r = Period * p
      BY <1>3, <1>8, <2>1 DEF Mapped
    <3>2. ToNs(stamp) = stamp.hw_timestamp_ref_ns + w * Wrap + r
      BY DEF ToNs
    <3>3. w * Wrap \in Int /\ r \in Int
      BY <1>7, Constants
    <3> HIDE DEF w, r
    <3> QED BY <1>2, <1>6, <3>1, <3>2, <3>3
  <2> DEFINE s == Extended(stamp, raw)
  <2>3. /\ s.hw_timestamp_ref_ns = origin
        /\ s.hw_timestamp_wraps * Wrap + s.last_hw_timestamp = Period * q
    <3>1. p < q /\ Period * (q - p) < Wrap
      <4>1. q - p = 1 /\ Period * 1 = Period
        BY Constants
      <4> QED BY <4>1, Constants
    <3> QED BY <1>2, <1>3, <1>5, <1>9, <3>1, Maps
  <2>4. s \in StampType
    BY <1>2, <1>5, ExtendedType
  <2> HIDE DEF s
  <2>5. s.hw_timestamp_wraps * Wrap \in Int /\ s.last_hw_timestamp \in Int
    BY <2>4, Constants DEF StampType
  <2>6. ToNs(s) = origin + Period * q
    BY <1>2, <2>3, <2>5 DEF ToNs
  <2> QED BY <1>2, <1>6, <2>1, <2>2, <2>6, Constants DEF s
<1> QED BY <1>9, <1>10

(* A recovery leaves no timestamp to follow.                                *)
LEMMA RecoverQuiet ==
  ASSUME SensorInv, NEW s \in StampType, NEW rest, FifoRecover(s, rest)
  PROVE  AlarmInv'
<1>1. pc' = "idle" /\ stamp' \in {Invalid(s), Reset(Invalid(s))}
  BY DEF FifoRecover
<1> QED BY <1>1, ResetType DEF AlarmInv

(* The parser goes on, and the timestamps are left alone.                   *)
LEMMA ParseQuiet ==
  ASSUME QuietInv, Parses, Sound /\ ~lost /\ ~malformed => ~malformed'
  PROVE  AlarmInv'
<1>1. /\ pc = "parse" /\ pc' = "parse"
      /\ UNCHANGED <<lost, garbled, fifo_faulted, stamp, batch>>
  BY DEF Parses, sensor
<1>2. AlarmInv
  BY DEF QuietInv
<1>3. Sound' <=> Sound
  BY <1>1, Zenon DEF Sound
<1> QED BY <1>1, <1>2, <1>3 DEF AlarmInv, ToNs

LEMMA NextQuiet == QuietInv /\ [Next]_vars => AlarmInv'
<1> SUFFICES ASSUME QuietInv, [Next]_vars PROVE AlarmInv'
  OBVIOUS
<1>0. /\ ClockInv /\ CountInv /\ BatchInv /\ SensorInv /\ AlarmInv
      /\ stamp \in StampType
  BY DEF QuietInv, ClockInv, BatchInv, OrderInv
<1>1. CASE Write
  <2>1. /\ UNCHANGED <<garbled, fifo_faulted, stamp, pc, entries, batch>>
        /\ UNCHANGED <<index, malformed, scans>> /\ pc \in {"idle", "read"}
    BY <1>1 DEF Write, locals
  <2> QED BY <1>0, <2>1 DEF AlarmInv, ToNs
<1>2. CASE Status
  <2>1. CASE FifoRecover(stamp, fifo)
    BY <1>0, <2>1, RecoverQuiet
  <2>2. CASE ~FifoRecover(stamp, fifo)
    <3>1. /\ entries' = Smaller(Len(fifo) \div EntriesPerScan, MaxScans) * EntriesPerScan
          /\ Len(fifo) >= EntriesPerScan /\ pc = "idle" /\ pc' = "read"
          /\ stamp' = stamp
      BY <1>2, <2>2 DEF Status
    <3>2. Len(fifo) \in Nat
      BY <1>0, Lengths
    <3>3. /\ Smaller(Len(fifo) \div 3, MaxScans) \in Nat
          /\ Smaller(Len(fifo) \div 3, MaxScans) > 0
      BY <3>1, <3>2, Constants DEF Smaller, EntriesPerScan
    <3>4. entries' > 0
      BY <3>1, <3>3 DEF EntriesPerScan
    <3> QED BY <1>0, <3>1, <3>4 DEF AlarmInv, ToNs
  <2> QED BY <2>1, <2>2
<1>3. CASE Read
  <2>1. /\ pc = "read" /\ pc' = "parse" /\ ~malformed' /\ stamp' = stamp
    BY <1>3 DEF Read, NoLocals
  <2>2. Len(batch') > 0
    <3>1. entries \in Nat /\ entries > 0 /\ entries <= Len(fifo)
      BY <1>0, <2>1, Lengths DEF AlarmInv
    <3> DEFINE oldest == SubSeq(fifo, 1, entries)
    <3>2. oldest \in Seq(EntryType) /\ Len(oldest) = entries
      BY <1>0, <3>1, Parts, Cut
    <3>3. batch' = oldest \/ batch' \in Damaged(oldest)
      BY <1>3 DEF Read
    <3> HIDE DEF oldest
    <3> QED BY <1>0, <3>1, <3>2, <3>3, DamagedType
  <2> QED BY <1>0, <2>1, <2>2 DEF AlarmInv, ToNs
<1>4. CASE ReadFails
  <2>1. PICK rest : FifoRecover(stamp, rest)
    BY <1>4 DEF ReadFails
  <2> QED BY <1>0, <2>1, RecoverQuiet
<1>5. CASE DataEntry
  <2>1. /\ Parses /\ Entry.tag \in DataTags /\ Entry.tag # "timestamp"
        /\ malformed' => malformed \/ Doubled(Entry.tag) \/ ~Room(scans)
    BY <1>5 DEF DataEntry, DataTags
  <2> QED BY <1>0, <2>1, EntryFits, ParseQuiet
<1>6. CASE TimestampEntry
  <2>1. /\ Parses /\ Entry.tag = "timestamp"
        /\ malformed' => malformed \/ ~Room(stamps)
    BY <1>6 DEF TimestampEntry
  <2> QED BY <1>0, <2>1, EntryFits, ParseQuiet
<1>7. CASE UnknownEntry
  <2>1. Parses /\ Entry.tag = "other"
    BY <1>7 DEF UnknownEntry
  <2> QED BY <1>0, <2>1, EntryFits, ParseQuiet
<1>8. CASE ParseEnd
  <2>1. CASE FifoRecover(stamp, fifo)
    BY <1>0, <2>1, RecoverQuiet
  <2>2. CASE ~FifoRecover(stamp, fifo)
    <3>1. pc = "parse" /\ pc' = "stamp" /\ index' = 0 /\ stamp' = stamp
      BY <1>8, <2>2 DEF ParseEnd
    <3> QED BY <1>0, <3>1 DEF AlarmInv, ToNs
  <2> QED BY <2>1, <2>2
<1>9. CASE Stamp
  <2> DEFINE raw == stamps[index + 1].raw
             s == Extended(stamp, raw)
  <2>1. /\ pc = "stamp" /\ index \in Nat /\ index < Len(scans)
        /\ Len(scans) \in Nat /\ scans \in Seq(ScanType)
        /\ stamps \in Seq(RawType) /\ Len(stamps) = Len(scans)
    BY <1>0, <1>9, Lengths DEF Stamp, BatchInv, ParserInv, Accounted
  <2>2. raw \in 0..Wrap - 1
    <3>1. stamps[index + 1] \in RawType
      BY <2>1, ElementOfSeq
    <3> QED BY <3>1 DEF RawType
  <2>3. s \in StampType /\ s.hw_timestamp_valid
    <3>1. s \in StampType
      BY <1>0, <2>2, ExtendedType
    <3>2. s.hw_timestamp_valid = TRUE
      <4> HIDE DEF raw
      <4> QED BY <1>0 DEF Extended, StampType
    <3> QED BY <3>1, <3>2
  <2>4. \/ FifoRecover(stamp, fifo) \/ FifoRecover(s, fifo)
        \/ /\ stamp' = s /\ pc' = pc /\ index' = index + 1
           /\ scans' = [scans EXCEPT ![index + 1].timestamp = ToNs(s)]
    BY <1>9 DEF Stamp
  <2> HIDE DEF s
  <2>5. CASE FifoRecover(stamp, fifo) \/ FifoRecover(s, fifo)
    BY <1>0, <2>3, <2>5, RecoverQuiet
  <2>6. CASE /\ stamp' = s /\ pc' = pc /\ index' = index + 1
             /\ scans' = [scans EXCEPT ![index + 1].timestamp = ToNs(s)]
    <3>1. scans[index + 1] \in ScanType /\ index + 1 \in DOMAIN scans
      BY <2>1, ElementOfSeq
    <3>2. scans'[index + 1] = [scans[index + 1] EXCEPT !.timestamp = ToNs(s)]
      BY <2>6, <3>1
    <3>3. scans'[index'].timestamp = ToNs(s)
      BY <2>6, <3>1, <3>2 DEF ScanType
    <3>4. ToNs(stamp)' = ToNs(s)
      BY <2>6 DEF ToNs
    <3>5. index' # 0 /\ pc' = "stamp"
      BY <2>1, <2>6
    <3> QED BY <2>3, <2>6, <3>3, <3>4, <3>5 DEF AlarmInv
  <2> QED BY <2>4, <2>5, <2>6
<1>10. CASE Push
  <2>1. /\ pc = "stamp" /\ index = Len(scans) /\ Len(scans) > 0 /\ pc' = "idle"
        /\ stamp' = [stamp EXCEPT !.last_timestamp_ns = scans[Len(scans)].timestamp,
                                  !.timestamp_valid = TRUE]
    BY <1>0, <1>10 DEF Push, Ready, BatchInv, ParserInv
  <2>2. stamp.hw_timestamp_valid /\ scans[Len(scans)].timestamp = ToNs(stamp)
    BY <1>0, <2>1 DEF AlarmInv
  <2>3. /\ stamp'.hw_timestamp_valid = stamp.hw_timestamp_valid
        /\ stamp'.hw_timestamp_ref_ns = stamp.hw_timestamp_ref_ns
        /\ stamp'.hw_timestamp_wraps = stamp.hw_timestamp_wraps
        /\ stamp'.last_hw_timestamp = stamp.last_hw_timestamp
        /\ stamp'.last_timestamp_ns = scans[Len(scans)].timestamp
    BY <1>0, <2>1 DEF StampType
  <2>4. ToNs(stamp)' = ToNs(stamp)
    BY <2>3 DEF ToNs
  <2> QED BY <2>1, <2>2, <2>3, <2>4 DEF AlarmInv
<1>11. CASE Reopen
  <2>1. pc' = "idle" /\ stamp' = Reset(Invalid(stamp))
    BY <1>11 DEF Reopen
  <2> QED BY <1>0, <2>1, ResetType DEF AlarmInv
<1>12. CASE UNCHANGED vars
  BY <1>0, <1>12 DEF AlarmInv, ToNs, Sound, vars, sensor, locals
<1> QED
  BY <1>1, <1>2, <1>3, <1>4, <1>5, <1>6, <1>7, <1>8, <1>9, <1>10, <1>11, <1>12
     DEF Next

(* No false alarm: while the sensor overwrites nothing and the bus works,   *)
(* lsm6dsox_fifo_read_entries pushes every batch it reads and counts no gap *)
(* in it, through every wrap and reset of the counter.  With two periods in *)
(* less than a turn of the counter, in the driver 30 hours, a wrap is told  *)
(* from a step backwards.                                                   *)
THEOREM NoAlarmWithoutCause ==
  ASSUME ShortPause, 2 * Period < Wrap
  PROVE  Spec => NoFalseAlarm
<1> DEFINE Calm == Sound /\ ~lost /\ pc \in {"parse", "stamp"}
           Quiet == /\ pc' = "idle" => Ready
                    /\ discontinuity' => discontinuity
<1>1. ASSUME QuietInv, [Next]_vars, Calm
      PROVE  Quiet
  <2>0. ClockInv /\ BatchInv /\ AlarmInv
    BY <1>1 DEF QuietInv, ClockInv
  <2>1. CASE Parses
    BY <2>1 DEF Parses
  <2>2. CASE ParseEnd
    <3>1. pc = "parse" /\ index = Len(batch)
      BY <2>2 DEF ParseEnd
    <3>2. ~Rejected
      BY <1>1, <3>1, EndAccepts
    <3> QED BY <2>2, <3>2 DEF ParseEnd
  <2>3. CASE Stamp
    <3> DEFINE raw == stamps[index + 1].raw
    <3>1. pc = "stamp" /\ index < Len(scans)
      BY <2>3 DEF Stamp
    <3>2. /\ Behind(stamp, raw) => Wrapped(stamp, raw)
          /\ Follows => ToNs(Extended(stamp, raw)) - Previous = Period
      BY <1>1, <3>1, OnePeriod
    <3>3. /\ ToNs(Extended(stamp, raw)) \in Int
          /\ Follows => Previous \in Int
      <4>1. /\ index \in Nat /\ Len(scans) \in Nat /\ scans \in Seq(ScanType)
            /\ stamp \in StampType /\ stamps \in Seq(RawType)
            /\ Len(stamps) = Len(scans)
        BY <2>0, <3>1, Lengths DEF BatchInv, ParserInv, OrderInv, Accounted
      <4>2. stamps[index + 1] \in RawType
        BY <3>1, <4>1, ElementOfSeq
      <4>3. raw \in 0..Wrap - 1
        BY <4>2 DEF RawType
      <4>4. ToNs(Extended(stamp, raw)) \in Int
        BY <4>1, <4>3, ExtendedType, ToNsNat
      <4>5. CASE index > 0
        <5>1. scans[index] \in ScanType
          BY <3>1, <4>1, <4>5, ElementOfSeq
        <5> QED BY <4>4, <4>5, <5>1 DEF Previous, ScanType
      <4>6. CASE ~(index > 0)
        BY <4>1, <4>4, <4>6 DEF Previous, StampType
      <4> QED BY <4>5, <4>6
    <3> DEFINE t == ToNs(Extended(stamp, raw))
    <3>4. Follows => t - Previous = Period /\ t \in Int /\ Previous \in Int
      BY <3>2, <3>3
    <3>5. ~Backward(t) /\ ~Gap(t)
      <4> HIDE DEF t
      <4> QED BY <3>4, Constants DEF Backward, Gap
    <3> QED BY <2>3, <3>1, <3>2, <3>5 DEF Stamp
  <2>4. CASE Push
    BY <2>4 DEF Push
  <2>5. CASE UNCHANGED vars
    BY <1>1, <2>5 DEF vars
  <2>6. CASE Write \/ Status \/ Read \/ ReadFails \/ Reopen
    BY <1>1, <2>6 DEF Write, Status, Read, ReadFails, Reopen
  <2> QED
    BY <1>1, <2>1, <2>2, <2>3, <2>4, <2>5, <2>6
       DEF Next, DataEntry, TimestampEntry, UnknownEntry
<1>2. Init => AlarmInv
  BY DEF Init, AlarmInv, NoStamp
<1>3. ClockInv => BatchInv
  BY DEF ClockInv
<1>4. Init => CountInv
  BY Constants, NoSeq DEF Init, CountInv
<1>5. ClockInv /\ CountInv /\ AlarmInv /\ [Next]_vars => AlarmInv'
  BY NextQuiet DEF QuietInv
<1>6. ClockInv /\ CountInv /\ AlarmInv /\ [Next]_vars => [Calm => Quiet]_vars
  BY <1>1 DEF QuietInv
<1> HIDE DEF Calm, Quiet
<1>7. Spec => [][Calm => Quiet]_vars
  BY <1>2, <1>3, <1>4, <1>5, <1>6, NextCounts, ClocksAgree, PTL DEF Spec
<1> QED BY <1>7 DEF NoFalseAlarm, Calm, Quiet
=============================================================================
