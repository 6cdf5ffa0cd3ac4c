--------------------------- MODULE FrameAccumulators ---------------------------
(***************************************************************************)
(* The operators that collect the frames of a scan: virtual bright field,  *)
(* diffraction pattern and direct ptychography.  Each keeps a              *)
(* FrameAccumulator for the scans it saw last.  Batches come through       *)
(* replicas and branches of the pipeline, so those of one scan come in any *)
(* order and between those of others; a source may send a scan again, and  *)
(* a batch whose data does not fit its header is refused half-way.         *)
(***************************************************************************)
EXTENDS Naturals, Sequences, FiniteSets, SequencesExt, FiniteSetsExt, Functions

CONSTANTS
  Consumer,    \* which of the operators this is
  Batches,     \* scan, frames by position, and the totals in the header
  Positions,
  MaxScans,    \* max_concurrent_scans
  Frequency,   \* calculation_frequency, update_frequency
  None

CONSTANTS MaxRepeats, MaxCorrupt   \* batches sent again, and damaged

Scans == {b.scan : b \in Batches}
AccumulatorAssumption ==
  /\ Consumer \in {"bright_field", "diffraction", "ptycho"}
  /\ \A b \in Batches : DOMAIN b.frames \subseteq Positions /\ DOMAIN b.frames # {}
  /\ {MaxScans, Frequency} \subseteq Nat \ {0} /\ {MaxRepeats, MaxCorrupt} \subseteq Nat

VARIABLES
  pending,       \* batches on their way
  order,         \* scans with an accumulator, least recently used first
  accumulators,  \* per scan, its FrameAccumulator
  emitted,       \* results sent
  repeats, corrupt,
  log            \* history: batches received, and whether they were whole

vars == <<pending, order, accumulators, emitted, repeats, corrupt, log>>

(* One frame slot per position, all empty.                                 *)
Fresh ==
  [data |-> [p \in Positions |-> <<None>>], count |-> [p \in Positions |-> 0],
   batches |-> 0, added |-> 0, totalBatches |-> None, totalFrames |-> None]

Slots(a) == Max({Len(a.data[p]) : p \in Positions})

(* expand_frame_dimension_if_needed: never fewer slots than before.        *)
Expanded(a, required) ==
  LET missing == IF required > Slots(a) THEN required - Slots(a) ELSE 0
  IN [a EXCEPT !.data = [p \in Positions |-> @[p] \o [i \in 1..missing |-> None]]]

(* add_batch before the data is validated: the totals of the header and    *)
(* the room for its frames.                                                *)
Prepared(a, b) ==
  Expanded([a EXCEPT !.totalBatches = b.batches, !.totalFrames = b.total],
           Max({a.count[p] + b.frames[p] : p \in DOMAIN b.frames}))

(* Mutant of Filled: frames go to the first slots of their position.       *)
FilledFirst(a, b) ==
  [a EXCEPT
     !.data = [p \in Positions |->
       [i \in DOMAIN @[p] |->
          IF p \in DOMAIN b.frames /\ i \in 1..b.frames[p] THEN b ELSE @[p][i]]],
     !.count = [p \in Positions |-> @[p] + (IF p \in DOMAIN b.frames THEN b.frames[p] ELSE 0)],
     !.added = @ + SumFunction(b.frames),
     !.batches = @ + 1]

(* ... and after: each frame goes to the next free slot of its position.   *)
Filled(a, b) ==
  [a EXCEPT
     !.data = [p \in Positions |->
       [i \in DOMAIN @[p] |->
          IF p \in DOMAIN b.frames /\ i \in a.count[p]+1..a.count[p]+b.frames[p]
          THEN b ELSE @[p][i]]],
     !.count = [p \in Positions |-> @[p] + (IF p \in DOMAIN b.frames THEN b.frames[p] ELSE 0)],
     !.added = @ + SumFunction(b.frames),
     !.batches = @ + 1]

Finished(a) == a.totalFrames # None /\ 100 * a.added >= 99 * a.totalFrames

(* completely_finished.                                                    *)
CompletelyFinished(a) ==
  /\ a.batches > 0 /\ a.totalBatches \notin {None, 0}
  /\ a.batches \div a.totalBatches = 1

(* Whether the kernel computes a result after a batch.                     *)
Emits(a) ==
  \/ Consumer = "bright_field" /\ (Finished(a) \/ a.batches % Frequency = 0)
  \/ Consumer = "diffraction" /\ a.added > 0 /\ a.added % Frequency = 0
  \/ Consumer = "ptycho" /\ CompletelyFinished(a)

(* A new scan takes the place of the one that was used least recently.     *)
Evicted(scan) ==
  IF scan \notin Range(order) /\ Len(order) >= MaxScans THEN Tail(order) ELSE order

(* The accumulator of a scan, made when there is none.                     *)
AccumulatorOf(scan) == IF scan \in Range(order) THEN accumulators[scan] ELSE Fresh

Init ==
  /\ pending = Batches /\ order = <<>> /\ accumulators = [s \in Scans |-> Fresh]
  /\ emitted = <<>> /\ repeats = 0 /\ corrupt = 0 /\ log = <<>>

(* The part of the kernel before the frames are added: the scan is the one *)
(* used last.                                                              *)
Uses(b, a) ==
  /\ order' = Append(SelectSeq(Evicted(b.scan), LAMBDA s : s # b.scan), b.scan)
  /\ accumulators' = [s \in Scans |->
       IF s = b.scan THEN a ELSE IF s \in Range(Evicted(b.scan)) THEN accumulators[s] ELSE Fresh]

Result(b, a) == [scan |-> b.scan, data |-> a.data]

Adds(b) ==
  LET a == Filled(Prepared(AccumulatorOf(b.scan), b), b)
  IN /\ Uses(b, a)
     /\ emitted' = IF Emits(a) THEN Append(emitted, Result(b, a)) ELSE emitted
     /\ log' = Append(log, [batch |-> b, whole |-> TRUE])

Delivers ==
  /\ \E b \in pending : Adds(b) /\ pending' = pending \ {b}
  /\ UNCHANGED <<repeats, corrupt>>

(* The source sends a scan again.                                          *)
Repeats ==
  /\ repeats < MaxRepeats
  /\ \E b \in Batches \ pending : Adds(b)
  /\ repeats' = repeats + 1
  /\ UNCHANGED <<pending, corrupt>>

(* A batch whose data is shorter or longer than its header says: the       *)
(* kernel raises when the accumulator is made and prepared.                *)
Damaged ==
  /\ corrupt < MaxCorrupt
  /\ \E b \in pending :
       /\ Uses(b, Prepared(AccumulatorOf(b.scan), b))
       /\ pending' = pending \ {b}
       /\ log' = Append(log, [batch |-> b, whole |-> FALSE])
  /\ corrupt' = corrupt + 1
  /\ UNCHANGED <<emitted, repeats>>

Next == Delivers \/ Repeats \/ Damaged

Spec == Init /\ [][Next]_vars

(* The scans of the last batches: those after whose last batch fewer than  *)
(* MaxScans other scans were seen.                                         *)
Recent(n) ==
  LET seen == {log[i].batch.scan : i \in 1..n}
      last(s) == Max({i \in 1..n : log[i].batch.scan = s})
  IN {s \in seen : Cardinality({t \in seen : last(t) > last(s)}) < MaxScans}

(* When a scan came into the cache for the last time.                      *)
Entered(s) == Max({n \in 0..Len(log) : s \notin Recent(n)}) + 1

(* The whole batches a cached scan got since.                              *)
Got(s) == SelectSeq(SubSeq(log, Entered(s), Len(log)), LAMBDA e : e.batch.scan = s /\ e.whole)

(* The scans kept are those of the latest batches, so that scans that come *)
(* interleaved do not drive each other out while there are no more than    *)
(* max_concurrent_scans.                                                   *)
KeepsRecent == Range(order) = Recent(Len(log))

(* An accumulator has every frame that came since its scan was taken in,   *)
(* each in a slot of its own, whatever came before at the same position    *)
(* and although a damaged batch was refused half-way.                      *)
HoldsWhatCame ==
  \A s \in Range(order) :
    LET a == accumulators[s]
        got == Got(s)
    IN /\ a.batches = Len(got)
       /\ \A b \in Batches, p \in Positions :
            Cardinality({i \in DOMAIN a.data[p] : a.data[p][i] = b}) =
              (IF p \in DOMAIN b.frames THEN b.frames[p] ELSE 0)
                * Cardinality({i \in DOMAIN got : got[i].batch = b})

FramesIn(data) == SumFunction([p \in Positions |-> Len(SelectSeq(data[p], LAMBDA f : f # None))])
Results(s) == SelectSeq(emitted, LAMBDA r : r.scan = s)

(* Virtual bright field: when a scan is there in full, an image of all of  *)
(* its frames was sent, although the last batches come in any order and    *)
(* 99 of 100 frames count as finished.                                     *)
EndsInFull ==
  \A s \in Range(order) :
    LET a == accumulators[s]
    IN a.totalFrames # None /\ a.added = a.totalFrames =>
         Results(s) # <<>> /\ FramesIn(Last(Results(s)).data) >= a.totalFrames

(* Direct ptychography: "Check if all expected frames have been added",    *)
(* before it reconstructs a scan.                                          *)
ReconstructsWhole ==
  \A r \in Range(emitted) :
    \E b \in Batches : b.scan = r.scan /\ FramesIn(r.data) >= b.total

(* ... and it reconstructs each scan that is there in full, once.          *)
ReconstructsOnce ==
  /\ \A s \in Scans : Len(Results(s)) <= 1
  /\ \A s \in Range(order) :
       Cardinality({b \in Batches : b.scan = s}) = accumulators[s].batches => Results(s) # <<>>

(* A result is sent by the time that so many frames were accumulated.      *)
(* Promised and not kept: see the README, further divergences.             *)
SentAtFrequency ==
  \A s \in Range(order) : accumulators[s].added >= Frequency => Results(s) # <<>>

(* Every position has the same number of slots, its first ones taken, and  *)
(* the counters agree with them.                                           *)
AccumulatorTypeOK ==
  /\ pending \subseteq Batches
  /\ Len(order) <= MaxScans /\ Cardinality(Range(order)) = Len(order)
  /\ \A s \in Scans :
       LET a == accumulators[s]
       IN /\ a.added = FramesIn(a.data)
          /\ \A p \in Positions :
               /\ Len(a.data[p]) = Slots(a)
               /\ \A i \in DOMAIN a.data[p] : i <= a.count[p] <=> a.data[p][i] # None
===============================================================================
