--------------------------- MODULE PipelineRevisions ---------------------------
(***************************************************************************)
(* Pipelines of the app and their revisions.  Requests are served by a     *)
(* pool of threads, each in a transaction of its own on a database that    *)
(* isolates at the level read committed: a statement sees all that was     *)
(* committed before it, so other requests may commit between the           *)
(* statements of one.  A revision, once added, keeps its data; the         *)
(* pipeline has a copy of that of its current revision.                    *)
(***************************************************************************)
EXTENDS Naturals, FiniteSets, FiniteSetsExt

CONSTANTS
  Pipelines,     \* ids, each given once
  Owner, Guest,  \* users: the first has a pipeline, the second sees its own only
  Admin,         \* a superuser
  Operators,     \* canonical operators that data may have
  Places,        \* where an operator may be on the canvas
  Requests,      \* threads, each of which serves one request
  Kinds,         \* what the requests may ask for
  PageSize,
  None


VARIABLES
  pipelines,   \* table: owner, name, data and current revision, or None
  revisions,   \* table: per pipeline and revision id, data, tag, positions
  used,        \* pipeline ids there ever were
  lock,        \* the request that holds the row of a pipeline
  requests,    \* what each request does, and what it has read
  reader       \* someone who lists the revisions of a pipeline in pages

vars == <<pipelines, revisions, used, lock, requests, reader>>

Users == {Owner, Guest, Admin}
Data == (SUBSET Operators) \ {{}}
Rows == [owner : Users, name : Requests \cup {None}, data : Data, current : Nat]
RevisionsAssumption ==
  PageSize \in Nat \ {0} /\ None \notin Places \cup Requests /\ None \notin Rows

Positions == [Operators -> Places \cup {None}]
NoPositions == [o \in Operators |-> None]
Pipeline(owner, data, current) ==
  [owner |-> owner, name |-> None, data |-> data, current |-> current]
Revision(data, positions, tag) == [data |-> data, positions |-> positions, tag |-> tag]

Ids(p) == DOMAIN revisions[p]

Request(pc, kind, p, user, arg) ==
  [pc |-> pc, kind |-> kind, pipeline |-> p, user |-> user, arg |-> arg]
Is(r, pc, kind) == requests[r].pc = pc /\ requests[r].kind = kind
Goes(r, pc, arg) ==
  requests' = [requests EXCEPT ![r].pc = pc, ![r].arg = arg]
Answers(r, result) == Goes(r, result, None)
Finished(r) == requests[r].pc \in {"ok", "missing", "failed"}

(* check_present_and_authorized, after session.get.                        *)
PresentAndAuthorized(p, user) ==
  pipelines[p] # None /\ (user = Admin \/ pipelines[p].owner = user)

Init ==
  /\ \E p \in Pipelines, d \in Data :
       /\ pipelines = [q \in Pipelines |-> IF q = p THEN Pipeline(Owner, d, 0) ELSE None]
       /\ revisions = [q \in Pipelines |->
            IF q = p THEN [i \in {0} |-> Revision(d, NoPositions, None)] ELSE <<>>]
       /\ used = {p}
  /\ lock = [p \in Pipelines |-> None]
  /\ requests = [r \in Requests |-> Request("new", None, None, None, None)]
  /\ reader = None

-----------------------------------------------------------------------------

(* create_pipeline: one transaction that touches no row of another.        *)
Create(r) ==
  /\ requests[r].pc = "new" /\ "create" \in Kinds
  /\ \E p \in Pipelines \ used, u \in Users, d \in Data :
       /\ pipelines' = [pipelines EXCEPT ![p] = Pipeline(u, d, 0)]
       /\ revisions' = [revisions EXCEPT ![p] = [i \in {0} |-> Revision(d, NoPositions, None)]]
       /\ used' = used \cup {p}
       /\ requests' = [requests EXCEPT ![r] = Request("ok", "create", p, u, None)]
  /\ UNCHANGED <<lock, reader>>

(* add_pipeline_revision has valid data and asks for the row.              *)
StartsAdd(r) ==
  /\ requests[r].pc = "new" /\ "add" \in Kinds
  /\ \E p \in used, u \in Users, d \in Data :
       requests' = [requests EXCEPT ![r] = Request("asked", "add", p, u, d)]
  /\ UNCHANGED <<pipelines, revisions, used, lock, reader>>

(* The row is read with a lock, once no other request has it.              *)
AddLocks(r) ==
  /\ Is(r, "asked", "add") /\ lock[requests[r].pipeline] = None
  /\ LET q == requests[r] IN
       IF PresentAndAuthorized(q.pipeline, q.user)
         THEN lock' = [lock EXCEPT ![q.pipeline] = r] /\ Goes(r, "locked", q.arg)
         ELSE lock' = lock /\ Answers(r, "missing")
  /\ UNCHANGED <<pipelines, revisions, used, reader>>

NextId(p) == (IF Ids(p) = {} THEN 0 ELSE Max(Ids(p))) + 1

(* The positions of the last revision, for the operators that are left.    *)
Carried(p, data) ==
  IF Ids(p) = {} THEN NoPositions
  ELSE [o \in Operators |->
          IF o \in data THEN revisions[p][Max(Ids(p))].positions[o] ELSE None]

AddReads(r) ==
  /\ Is(r, "locked", "add")
  /\ LET p == requests[r].pipeline
         data == requests[r].arg
     IN Goes(r, "read", [id |-> NextId(p), revision |-> Revision(data, Carried(p, data), None)])
  /\ UNCHANGED <<pipelines, revisions, used, lock, reader>>

Added(p, new) ==
  [i \in Ids(p) \cup {new.id} |-> IF i = new.id THEN new.revision ELSE revisions[p][i]]

(* Mutant of AddCommits: the data of the pipeline stays as it was.         *)
AddCommitsApart(r) ==
  /\ Is(r, "read", "add")
  /\ LET p == requests[r].pipeline
         new == requests[r].arg
     IN /\ lock' = [lock EXCEPT ![p] = None]
        /\ revisions' = [revisions EXCEPT ![p] = Added(p, new)]
        /\ pipelines' = [pipelines EXCEPT ![p].current = new.id]
        /\ Answers(r, "ok")
  /\ UNCHANGED <<used, reader>>

(* Mutant of AddCommits: the row stays locked.                             *)
AddCommitsHolding(r) ==
  /\ Is(r, "read", "add")
  /\ LET p == requests[r].pipeline
         new == requests[r].arg
     IN /\ revisions' = [revisions EXCEPT ![p] = Added(p, new)]
        /\ pipelines' = [pipelines EXCEPT ![p].data = new.revision.data, ![p].current = new.id]
        /\ Answers(r, "ok")
  /\ UNCHANGED <<used, lock, reader>>

(* The revision and the pipeline are saved together, unless the id exists. *)
AddCommits(r) ==
  /\ Is(r, "read", "add")
  /\ LET p == requests[r].pipeline
         new == requests[r].arg
     IN /\ lock' = [lock EXCEPT ![p] = None]
        /\ IF new.id \in Ids(p)
             THEN UNCHANGED <<pipelines, revisions>> /\ Answers(r, "failed")
             ELSE /\ revisions' = [revisions EXCEPT ![p] = Added(p, new)]
                  /\ pipelines' = [pipelines EXCEPT ![p].data = new.revision.data, ![p].current = new.id]
                  /\ Answers(r, "ok")
  /\ UNCHANGED <<used, reader>>

(* session.get of a pipeline, to rename, delete or duplicate it.           *)
Reads(r, kind, args) ==
  /\ requests[r].pc = "new" /\ kind \in Kinds
  /\ \E p \in used, u \in Users, arg \in args :
       requests' = [requests EXCEPT ![r] =
         Request(IF PresentAndAuthorized(p, u) THEN "read" ELSE "missing", kind, p, u,
                 IF PresentAndAuthorized(p, u) THEN [name |-> arg, row |-> pipelines[p]] ELSE None)]
  /\ UNCHANGED <<pipelines, revisions, used, lock, reader>>

(* Only what was assigned is saved; a row that is gone is a failure.       *)
RenameCommits(r) ==
  /\ Is(r, "read", "rename") /\ lock[requests[r].pipeline] = None
  /\ LET p == requests[r].pipeline IN
       IF pipelines[p] = None THEN pipelines' = pipelines /\ Answers(r, "failed")
       ELSE pipelines' = [pipelines EXCEPT ![p].name = requests[r].arg.name] /\ Answers(r, "ok")
  /\ UNCHANGED <<revisions, used, lock, reader>>

(* The revisions go with their pipeline; to delete none is no failure.     *)
DeleteCommits(r) ==
  /\ Is(r, "read", "delete") /\ lock[requests[r].pipeline] = None
  /\ pipelines' = [pipelines EXCEPT ![requests[r].pipeline] = None]
  /\ revisions' = [revisions EXCEPT ![requests[r].pipeline] = <<>>]
  /\ Answers(r, "ok")
  /\ UNCHANGED <<used, lock, reader>>

(* duplicate_pipeline makes a row for the copy, which nobody else sees ... *)
DuplicateReads(r) ==
  /\ Is(r, "read", "duplicate")
  /\ \E p \in Pipelines \ used :
       used' = used \cup {p}
         /\ Goes(r, "flushed", [copy |-> p, row |-> requests[r].arg.row])
  /\ UNCHANGED <<pipelines, revisions, lock, reader>>

(* ... reads the revisions, and saves their copies with the row as it was  *)
(* read.                                                                   *)
DuplicateCommits(r) ==
  /\ Is(r, "flushed", "duplicate")
  /\ LET source == requests[r].pipeline
         row == requests[r].arg.row
         copy == requests[r].arg.copy
     IN /\ pipelines' = [pipelines EXCEPT ![copy] =
             [Pipeline(requests[r].user, row.data, row.current) EXCEPT !.name = row.name]]
        /\ revisions' = [revisions EXCEPT ![copy] = revisions[source]]
        /\ Answers(r, "ok")
  /\ UNCHANGED <<used, lock, reader>>

(* update_pipeline_revision and update_pipeline_revision_positions read    *)
(* the revision and its pipeline ...                                       *)
ReadsRevision(r) ==
  /\ requests[r].pc = "new"
  /\ \E p \in used, u \in Users, positions \in Positions, kind \in Kinds \cap {"tag", "move"} :
       \E id \in Ids(p) :
         requests' = [requests EXCEPT ![r] =
           IF PresentAndAuthorized(p, u)
             THEN Request("read", kind, p, u, [id |-> id, positions |-> positions])
             ELSE Request("missing", kind, p, u, None)]
  /\ UNCHANGED <<pipelines, revisions, used, lock, reader>>

(* ... and save one column of it, if it is still there.                    *)
PatchCommits(r) ==
  /\ requests[r].pc = "read" /\ requests[r].kind \in {"tag", "move"}
  /\ LET p == requests[r].pipeline
         arg == requests[r].arg
     IN IF arg.id \notin Ids(p) THEN revisions' = revisions /\ Answers(r, "failed")
        ELSE /\ Answers(r, "ok")
             /\ revisions' = [revisions EXCEPT ![p][arg.id] =
                  IF requests[r].kind = "tag" THEN [@ EXCEPT !.tag = r]
                  ELSE [@ EXCEPT !.positions = arg.positions]]
  /\ UNCHANGED <<pipelines, used, lock, reader>>

(* list_pipeline_revisions: newest first, from an offset, so many.         *)
Newer(p, id) == {i \in Ids(p) : i > id}
Page(p, offset) ==
  {id \in Ids(p) : Cardinality(Newer(p, id)) \in offset..(offset + PageSize - 1)}

StartsReading ==
  /\ reader = None /\ "read" \in Kinds
  /\ \E p \in used :
       pipelines[p] # None
         /\ reader' = [pipeline |-> p, offset |-> 0, seen |-> {}, there |-> Ids(p), done |-> FALSE]
  /\ UNCHANGED <<pipelines, revisions, used, lock, requests>>

ReadsPage ==
  /\ reader # None /\ ~reader.done
  /\ LET page == Page(reader.pipeline, reader.offset) IN
       reader' = [reader EXCEPT !.offset = @ + PageSize, !.seen = @ \cup page,
                                !.done = Cardinality(page) < PageSize]
  /\ UNCHANGED <<pipelines, revisions, used, lock, requests>>

Serves(r) ==
  \/ AddLocks(r) \/ AddReads(r) \/ AddCommits(r)
  \/ RenameCommits(r) \/ DeleteCommits(r)
  \/ DuplicateReads(r) \/ DuplicateCommits(r) \/ PatchCommits(r)

Starts(r) ==
  \/ Create(r) \/ StartsAdd(r) \/ ReadsRevision(r)
  \/ Reads(r, "rename", Requests) \/ Reads(r, "delete", {None}) \/ Reads(r, "duplicate", {None})

Next ==
  \/ \E r \in Requests : Starts(r) \/ Serves(r)
  \/ StartsReading \/ ReadsPage

Spec == Init /\ [][Next]_vars
(* A thread that serves a request goes on with it.                         *)
FairSpec == Spec /\ \A r \in Requests : WF_vars(Serves(r))

-----------------------------------------------------------------------------

(* Revisions of a pipeline are numbered without a gap, also when several   *)
(* are added at once, when the pipeline is a copy made while others were   *)
(* added to the source, or when it lost all of its revisions.              *)
NumberedWithoutGap ==
  \A p \in Pipelines :
    Ids(p) # {} => Ids(p) = Min(Ids(p)) .. Max(Ids(p)) /\ Min(Ids(p)) \in {0, 1}

(* The data of a pipeline, which is what is shown and deployed, is that of *)
(* its current revision, whatever was renamed, added or duplicated at the  *)
(* same time.                                                              *)
CurrentAgrees ==
  \A p \in Pipelines :
    pipelines[p] # None /\ Ids(p) # {} =>
      /\ pipelines[p].current \in Ids(p)
      /\ pipelines[p].data = revisions[p][pipelines[p].current].data

(* Nothing is left of a pipeline that was deleted: no request that began   *)
(* before brings a revision of it back.                                    *)
NoneWithoutPipeline == \A p \in Pipelines : pipelines[p] = None => Ids(p) = {}

(* Until a pipeline is deleted, its revisions stay and keep their data,    *)
(* and the current one never goes back to an earlier one: a request saves  *)
(* nothing that it had read before another added a revision.               *)
KeepsRevisions ==
  \A p \in Pipelines : pipelines[p] # None /\ pipelines'[p] # None =>
    /\ pipelines'[p].current >= pipelines[p].current
    /\ \A id \in Ids(p) : id \in Ids(p)' /\ revisions'[p][id].data = revisions[p][id].data

RevisionsStay == [][KeepsRevisions]_vars

(* Who got the row adds a revision: the row is locked to avoid a race.     *)
NoAddFails == \A r \in Requests : ~Is(r, "failed", "add")

(* Each request that began is answered, although some wait for the row.    *)
Answered(r) == requests[r].pc = "new" \/ Finished(r)
RequestsEnd == \A r \in Requests : []<>Answered(r)

(* Who lists the revisions in pages sees each that was there, although     *)
(* others are added in front, unless the pipeline is deleted.              *)
PagesShowAll ==
  reader # None /\ reader.done /\ pipelines[reader.pipeline] # None => reader.there \subseteq reader.seen

(* A pipeline has the revision that is its current one: it is duplicated   *)
(* with all its revisions.                                                 *)
(* Promised and not kept: see the README, further divergences.             *)
CurrentExists ==
  \A p \in Pipelines : pipelines[p] # None => pipelines[p].current \in Ids(p)

(* A revision is added with the positions that operators had in the last   *)
(* one.                                                                    *)
(* Promised and not kept: see the README, further divergences.             *)
PositionsCarried ==
  [][\A r \in Requests : Is(r, "read", "add") /\ requests'[r].pc = "ok" =>
       LET p == requests[r].pipeline
       IN requests[r].arg.revision.positions = Carried(p, requests[r].arg.revision.data)]_vars

RevisionsTypeOK ==
  /\ used \subseteq Pipelines /\ lock \in [Pipelines -> Requests \cup {None}]
  /\ \A p \in Pipelines :
       /\ pipelines[p] # None => p \in used /\ pipelines[p].owner \in Users
       /\ \A id \in Ids(p) : revisions[p][id].data \in Data /\ revisions[p][id].positions \in Positions
       /\ lock[p] # None => pipelines[p] # None /\ requests[lock[p]].kind = "add"
       /\ lock[p] # None => requests[lock[p]].pc \in {"locked", "read"}
===============================================================================
