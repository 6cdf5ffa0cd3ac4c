---------------------------- MODULE BeamCompensation ----------------------------
(***************************************************************************)
(* Beam compensation: the events of each frame are moved against the drift *)
(* of the beam at the frame's position, which a vacuum scan has measured   *)
(* once on a grid of its own.  The shifts of a scan are made when its      *)
(* first batch comes, with the method chosen then, and kept under the      *)
(* scan's number; batches of several scans may come in turns.  Pipelines   *)
(* may run the operator in replicas that share the batches; each is a      *)
(* process with shifts, a parameter and a container of its own.  An offset *)
(* is given as a whole number of pixels, relative to the mean of its scan, *)
(* and between two grid points as that of the lower one.                   *)
(***************************************************************************)
EXTENDS Integers, Sequences, FiniteSets, FiniteSetsExt

CONSTANTS
  Replicas,
  Batches,     \* scan number, scan shape, frames with position and events
  Files,       \* vacuum scans: grid, offsets on it, slopes of the fitted plane
  FrameShape,  \* pixels of a frame
  Parameters,  \* values of the parameter "method"
  MaxBatches, MaxChanges, MaxRestarts,
  None

Methods == {"interp", "plane"}
Scans == {b.scan : b \in Batches}

CompensationAssumption ==
  /\ {MaxBatches, MaxChanges, MaxRestarts} \subseteq Nat
  /\ FrameShape \in [rows : Nat, cols : Nat]
  /\ \A b \in Batches : b.shape \in [rows : Nat, cols : Nat]
  /\ \A b \in Batches : b.frames # <<>> /\ \A i \in DOMAIN b.frames :
       /\ b.frames[i].row \in 0..b.shape.rows - 1 /\ b.frames[i].col \in 0..b.shape.cols - 1
       /\ b.frames[i].events \subseteq [row : Int, col : Int]
  /\ \A f \in Files :
       /\ {f.rows, f.cols} \subseteq Nat \ {0} /\ f.slope \in Int \X Int
       /\ f.grid \in [(0..f.rows-1) \X (0..f.cols-1) -> Int \X Int]
  /\ None \notin [shape : {b.shape : b \in Batches}, method : Methods, file : Files]
  /\ \A b \in Batches :
       None \notin [DOMAIN b.frames -> [row : Nat, col : Nat, events : SUBSET [row : Int, col : Int]]]

VARIABLES
  given,     \* the method of the deployment
  method,    \* per replica, the parameter
  offsets,   \* offsets_data, read when the container of the replica starts
  cache,     \* scan_shifts_cache
  shifts,    \* row_shifts and column_shifts: those used last
  log,       \* history: batch, shifts used and what was sent, since the start
  taken, changes, restarts

vars == <<given, method, offsets, cache, shifts, log, taken, changes, restarts>>

(* Where the drift of a position is looked up: positions of the scan are   *)
(* scaled to the grid of the vacuum scan.                                  *)
Location(file, shape, frame) ==
  [y |-> (frame.row * file.cols) \div shape.rows, x |-> (frame.col * file.rows) \div shape.cols]

(* map_coordinates with mode "nearest", or the fitted plane.               *)
Offset(file, how, at) ==
  IF how = "plane" THEN <<file.slope[1] * at.y, file.slope[2] * at.x>>
  ELSE file.grid[<<Min({at.y, file.rows - 1}), Min({at.x, file.cols - 1})>>]

Chosen(w) == IF method[w] \in Methods THEN method[w] ELSE "interp"

(* generate_shifts: a table over the scan, told apart by what it is made   *)
(* from.                                                                   *)
Generated(w, shape) == [shape |-> shape, method |-> Chosen(w), file |-> offsets[w]]

ShiftAt(table, frame) ==
  Offset(table.file, table.method, Location(table.file, table.shape, frame))

InTable(table, frame) == frame.row < table.shape.rows /\ frame.col < table.shape.cols

(* Moved events: the first coordinate of an event is its column.  What     *)
(* leaves the frame is dropped, columns against the number of columns.     *)
Moved(events, shift) ==
  {e \in {[col |-> e.col - shift[2], row |-> e.row - shift[1]] : e \in events} :
     e.row \in 0..FrameShape.rows - 1 /\ e.col \in 0..FrameShape.cols - 1}

(* ravel_multi_index takes the first coordinate for a row, and raises when *)
(* it is out of range.                                                     *)
Ravels(events) == \A e \in events : e.col < FrameShape.rows /\ e.row < FrameShape.cols

(* _subtract_one.                                                          *)
Subtracted(table, frame) ==
  [row |-> frame.row, col |-> frame.col, events |-> Moved(frame.events, ShiftAt(table, frame))]

(* All frames of a batch, or nothing when the kernel raises at one of them:*)
(* it lies outside of the table, or an event outside of the frame.         *)
Compensated(table, b) ==
  IF \A i \in DOMAIN b.frames :
       InTable(table, b.frames[i]) /\ Ravels(Subtracted(table, b.frames[i]).events)
  THEN [i \in DOMAIN b.frames |-> Subtracted(table, b.frames[i])]
  ELSE None

Init ==
  /\ given \in Parameters /\ method = [w \in Replicas |-> given]
  /\ \E f \in Files : offsets = [w \in Replicas |-> f]
  /\ cache = [w \in Replicas |-> [s \in Scans |-> None]]
  /\ shifts = [w \in Replicas |-> None] /\ log = [w \in Replicas |-> <<>>]
  /\ taken = 0 /\ changes = 0 /\ restarts = 0

(* Mutant of Table: the shifts made last are taken for those of the scan.  *)
TableLast(w, b) == IF cache[w][b.scan] = None THEN Generated(w, b.shape) ELSE shifts[w]

(* The shifts for a batch: kept under the scan's number, or made now.      *)
Table(w, b) == IF cache[w][b.scan] = None THEN Generated(w, b.shape) ELSE cache[w][b.scan]

(* One call of the kernel, in the replica that takes the batch.            *)
Subtract(w, b) ==
  /\ taken < MaxBatches
  /\ shifts' = [shifts EXCEPT ![w] = Table(w, b)]
  /\ cache' = [cache EXCEPT ![w][b.scan] = Table(w, b)]
  /\ log' = [log EXCEPT ![w] =
       Append(@, [batch |-> b, table |-> Table(w, b), sent |-> Compensated(Table(w, b), b)])]
  /\ taken' = taken + 1
  /\ UNCHANGED <<given, method, offsets, changes, restarts>>

(* An update reaches the replicas at different times.                      *)
ChangesMethod(w) ==
  /\ changes < MaxChanges
  /\ \E v \in Parameters \ {method[w]} : method' = [method EXCEPT ![w] = v]
  /\ changes' = changes + 1
  /\ UNCHANGED <<given, offsets, cache, shifts, log, taken, restarts>>

(* Another vacuum scan is mounted: the agent starts the container anew,    *)
(* which begins with the method of the deployment.                         *)
Remounts(w) ==
  /\ restarts < MaxRestarts
  /\ \E f \in Files : offsets' = [offsets EXCEPT ![w] = f]
  /\ method' = [method EXCEPT ![w] = given]
  /\ cache' = [cache EXCEPT ![w] = [s \in Scans |-> None]]
  /\ shifts' = [shifts EXCEPT ![w] = None] /\ log' = [log EXCEPT ![w] = <<>>]
  /\ restarts' = restarts + 1
  /\ UNCHANGED <<given, taken, changes>>

Next == \E w \in Replicas : (\E b \in Batches : Subtract(w, b)) \/ ChangesMethod(w) \/ Remounts(w)

Spec == Init /\ [][Next]_vars

BeamTypeOK ==
  /\ method \in [Replicas -> Parameters] /\ offsets \in [Replicas -> Files]
  /\ \A w \in Replicas : \A s \in Scans : cache[w][s] # None =>
       cache[w][s].shape \in {b.shape : b \in Batches} /\ cache[w][s].method \in Methods
  /\ \A w \in Replicas : shifts[w] # None => \E s \in Scans : shifts[w] = cache[w][s]

(* The drift at a position, looked up in proportion: row by row over the   *)
(* rows of the vacuum scan, column by column over its columns.             *)
Drift(file, how, shape, frame) ==
  Offset(file, how, [y |-> (frame.row * file.rows) \div shape.rows,
                     x |-> (frame.col * file.cols) \div shape.cols])

(* "Compensates for beam movement inside of a frame using vacuum           *)
(* background": where frames and vacuum scans are square, every batch is   *)
(* sent with each of its frames, the events moved by the drift at the      *)
(* frame's position in its own scan, as the vacuum scan of the replica that*)
(* takes it has it, whichever scans come in between and whatever was kept  *)
(* for them.                                                               *)
CompensatedByDrift ==
  \A w \in Replicas : \A i \in DOMAIN log[w] :
    LET b == log[w][i].batch
    IN /\ log[w][i].sent # None
       /\ \E how \in Methods : \A k \in DOMAIN b.frames :
            LET d == Drift(offsets[w], how, b.shape, b.frames[k])
            IN log[w][i].sent[k].events =
                 {e \in [row : 0..FrameShape.rows - 1, col : 0..FrameShape.cols - 1] :
                    [row |-> e.row + d[1], col |-> e.col + d[2]] \in b.frames[k].events}

(* A replica compensates all that it takes of a scan by one method,        *)
(* although the user may change it in between.  Two replicas that share a  *)
(* scan are sure to use the same one only as long as no update came.       *)
OneMethodPerScan ==
  \A v, w \in Replicas : \A i \in DOMAIN log[v], j \in DOMAIN log[w] :
    log[v][i].batch.scan = log[w][j].batch.scan /\ (v = w \/ changes = 0)
      => log[v][i].table.method = log[w][j].table.method

(* ... and that is the method the replica has when it takes the first batch*)
(* of the scan, or interpolation when the choice is none of the two.       *)
BeginsAsChosen ==
  \A w \in Replicas : \A b \in Batches :
    Len(log'[w]) > Len(log[w]) /\ log'[w][Len(log'[w])].batch = b
      /\ b.scan \notin {log[w][i].batch.scan : i \in DOMAIN log[w]}
    => /\ method[w] \in Methods => log'[w][Len(log'[w])].table.method = method[w]
       /\ method[w] \notin Methods => log'[w][Len(log'[w])].table.method = "interp"
MethodAsChosen == [][BeginsAsChosen]_vars
===============================================================================
