------------------------------ MODULE ScanReaders ------------------------------
(***************************************************************************)
(* Operators that read a scan from files and send it as if it came from    *)
(* the detector.  The reader of counted data sends one batch for each      *)
(* trigger of a user, who may change the parameters in between; the        *)
(* replayer of raw data sends one frame each time it is called.            *)
(***************************************************************************)
EXTENDS Naturals, Sequences, FiniteSets, SequencesExt, Functions

CONSTANTS
  Files,        \* records scan_id, suffix: the files that exist
  ScanIds, FileSuffixes,
  Batches,      \* batches that a file is sent in
  MaxTriggers, MaxChanges, MaxErrors,
  Positions,    \* of a raw scan
  None

ReadersAssumption ==
  /\ {Batches, Positions} \subseteq Nat \ {0}
  /\ {MaxTriggers, MaxChanges, MaxErrors} \subseteq Nat
  /\ None \notin [file : [scan_id : ScanIds, suffix : FileSuffixes],
                  number : Nat, next : Nat, pass : Nat]

VARIABLES
  parameters,   \* scan_id, file_suffix, cache_last_file
  reader,       \* current_scan_id, current_scan_number, active_emitter, cached_sparse_array
  sent,         \* batches sent: file, scan number, index, and the pass
  passes,       \* history: emitters made
  triggers, changes, errors,
  replay        \* scan, position of the cycle, and frames sent

vars == <<parameters, reader, sent, passes, triggers, changes, errors, replay>>

Parameters == [scan_id : ScanIds, suffix : FileSuffixes, cache : BOOLEAN]
Emitter(file, number, pass) == [file |-> file, number |-> number, next |-> 1, pass |-> pass]
Selected == [scan_id |-> parameters.scan_id, suffix |-> parameters.suffix]

Init ==
  /\ parameters \in Parameters
  /\ reader = [scan_id |-> None, number |-> 1, emitter |-> None, cached |-> None]
  /\ sent = <<>> /\ passes = 0
  /\ triggers = 0 /\ changes = 0 /\ errors = 0
  /\ replay = [scan |-> None, position |-> 0, sent |-> {}]

Changes ==
  /\ changes < MaxChanges /\ changes' = changes + 1
  /\ parameters' \in Parameters \ {parameters}
  /\ UNCHANGED <<reader, sent, passes, triggers, errors, replay>>

(* Mutant of Kept: the emitter of the scan before is kept.                 *)
KeptEmitter ==
  [reader EXCEPT !.scan_id = parameters.scan_id,
                 !.number = IF reader.scan_id = parameters.scan_id THEN @ ELSE 1,
                 !.cached = IF reader.scan_id = parameters.scan_id /\ parameters.cache THEN @ ELSE None]

(* What is kept from the last call: nothing for another scan, and no file  *)
(* unless the user wants so.                                               *)
Kept ==
  LET uncached == [reader EXCEPT !.cached = IF parameters.cache THEN @ ELSE None]
  IN IF reader.scan_id = parameters.scan_id THEN uncached
     ELSE [scan_id |-> parameters.scan_id, number |-> 1, emitter |-> None, cached |-> None]

(* The dataset that is kept is that of the scan id, if there is one.       *)
KeptFile(kept) ==
  IF parameters.cache /\ kept.cached # None /\ kept.cached.scan_id = parameters.scan_id
    THEN kept.cached ELSE Selected

Opened(kept) ==
  IF kept.emitter # None THEN kept
  ELSE [kept EXCEPT !.emitter = Emitter(KeptFile(kept), kept.number, passes),
                    !.cached = IF parameters.cache THEN KeptFile(kept) ELSE @]

(* A file that is not there or cannot be loaded.                           *)
Fails ==
  /\ triggers < MaxTriggers /\ triggers' = triggers + 1
  /\ (Selected \in Files => Kept.emitter = None /\ errors < MaxErrors)
  /\ errors' = IF Selected \in Files THEN errors + 1 ELSE errors
  /\ reader' = Kept
  /\ UNCHANGED <<parameters, sent, passes, changes, replay>>

Triggered ==
  /\ triggers < MaxTriggers /\ triggers' = triggers + 1
  /\ (Kept.emitter = None => Selected \in Files)
  /\ passes' = IF Kept.emitter = None THEN passes + 1 ELSE passes

(* A trigger sends the next batch ...                                      *)
Emits ==
  /\ Triggered
  /\ LET opened == Opened(Kept)
         e == opened.emitter
     IN /\ e.next <= Batches
        /\ sent' = Append(sent, [file |-> e.file, number |-> e.number, index |-> e.next, pass |-> e.pass])
        /\ reader' = [opened EXCEPT !.emitter.next = @ + 1]
  /\ UNCHANGED <<parameters, changes, errors, replay>>

(* ... or, after the last, ends the scan: the next has another number.     *)
Exhausted ==
  /\ Triggered
  /\ Opened(Kept).emitter.next > Batches
  /\ reader' = [Opened(Kept) EXCEPT !.emitter = None, !.number = @ + 1]
  /\ UNCHANGED <<parameters, sent, changes, errors, replay>>

(* A batch cannot be made: the dataset is begun anew with the same number. *)
EmissionFails ==
  /\ Triggered /\ errors < MaxErrors /\ errors' = errors + 1
  /\ reader' = [Opened(Kept) EXCEPT !.emitter = None]
  /\ UNCHANGED <<parameters, sent, changes, replay>>

(* data-replay: the header of a frame lacks fields that it must have, so   *)
(* that it cannot be made; the position was already taken.                 *)
Replays ==
  /\ replay' =
       IF replay.scan # parameters.scan_id THEN [scan |-> parameters.scan_id, position |-> 1 % Positions, sent |-> {}]
       ELSE [replay EXCEPT !.position = (@ + 1) % Positions]
  /\ UNCHANGED <<parameters, reader, sent, passes, triggers, changes, errors>>

Next == Changes \/ Fails \/ Emits \/ Exhausted \/ EmissionFails \/ Replays

Spec == Init /\ [][Next]_vars
(* The replayer, which has no input, is called again and again.            *)
FairSpec == Spec /\ WF_vars(Replays)

-----------------------------------------------------------------------------

(* Where the batches of the same pass are that were sent before.           *)
Before(i) == {j \in 1..i-1 : sent[j].pass = sent[i].pass}

(* Each pass sends its file from the first batch on without a gap, under   *)
(* one scan number.                                                        *)
PassesInOrder ==
  \A i \in DOMAIN sent :
    /\ sent[i].index = Cardinality(Before(i)) + 1
    /\ \A j \in Before(i) : sent[j].number = sent[i].number /\ sent[j].file = sent[i].file

(* A batch is of the scan that is selected when it is triggered, also when *)
(* the user selected another one in the middle of a pass or after its      *)
(* dataset was kept.                                                       *)
SendsSelected == Len(sent') > Len(sent) => Last(sent').file.scan_id = parameters.scan_id
SelectedIsSent == [][SendsSelected]_vars

(* As long as no scan is begun anew after an error, nor another selected,  *)
(* a scan number is that of one pass.                                      *)
NumbersNamePasses ==
  errors = 0 /\ changes = 0 =>
    \A b, c \in Range(sent) : b.number = c.number => b.pass = c.pass

(* A scan number is that of one dataset: what accumulates frames by scan   *)
(* number has those of a single scan.                                      *)
(* Promised and not kept: see the README, further divergences.             *)
NumbersNameScans ==
  \A b, c \in Range(sent) : b.number = c.number => b.file = c.file

(* Each trigger emits the next batch, unless there is an error.            *)
(* Promised and not kept: see the README, further divergences.             *)
TriggersEmit ==
  [][triggers' > triggers /\ Kept.emitter # None /\ errors' = errors => Len(sent') > Len(sent)]_vars

(* The file that was loaded last is kept to avoid reading it again, not to *)
(* be sent when another is selected.                                       *)
(* Promised and not kept: see the README, further divergences.             *)
LoadsSelected ==
  [][passes' > passes /\ Len(sent') > Len(sent) => Last(sent').file = Selected]_vars

(* The replayer sends the frames of its scan.                              *)
(* Promised and not kept: see the README, further divergences.             *)
ReplaySends == <>(replay.sent # {})

ReadersTypeOK ==
  /\ reader.emitter # None =>
       /\ reader.emitter.file \in Files /\ reader.emitter.next \in 1..(Batches + 1)
       /\ reader.emitter.file.scan_id = reader.scan_id /\ reader.emitter.number = reader.number
  /\ reader.cached # None => reader.cached.scan_id = reader.scan_id
===============================================================================
