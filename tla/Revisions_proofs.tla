-------------------------- MODULE Revisions_proofs --------------------------
(***************************************************************************)
(* The revisions of the pipelines, for all values of the constants.        *)
(***************************************************************************)
EXTENDS PipelineRevisions, FiniteSetTheorems, SequenceTheorems, TLAPS

------------------------------------------------------------------------------
Revisions ==
  [data : Data, positions : Positions, tag : Requests \cup {None}]
Wish == [name : Requests \cup {None}, row : Rows]
Answer ==
  {None} \cup Data \cup [id : Nat, revision : Revisions] \cup Wish
    \cup [copy : Pipelines, row : Rows]
    \cup [id : Nat, positions : Positions]
RevisionRequest ==
  [pc : {"new", "asked", "locked", "read", "flushed", "ok", "missing", "failed"},
   kind : Kinds \cup {None}, pipeline : Pipelines \cup {None},
   user : Users \cup {None},
   arg : Answer]

(* Where the revisions of a pipeline end: it may have lost those it had.   *)
Numbered(p) == \E start \in {0, 1}, last \in Nat : Ids(p) = start .. last

Stored ==
  /\ pipelines \in [Pipelines -> Rows \cup {None}]
  /\ DOMAIN revisions = Pipelines
  /\ \A p \in Pipelines :
       /\ Numbered(p) /\ \A id \in Ids(p) : revisions[p][id] \in Revisions
       /\ pipelines[p] = None => Ids(p) = {}
  /\ used \subseteq Pipelines
  /\ \A p \in Pipelines \ used : pipelines[p] = None
  /\ lock \in [Pipelines -> Requests \cup {None}]
RevisionTables ==
  /\ Stored
  /\ requests \in [Requests -> RevisionRequest]

(* A request that adds has the row, and the next number, until it commits. *)
Adds(r) == Is(r, "locked", "add") \/ Is(r, "read", "add")
RowsAreHeld ==
  /\ \A p \in Pipelines : lock[p] # None =>
       /\ pipelines[p] # None /\ Adds(lock[p])
       /\ requests[lock[p]].pipeline = p
  /\ \A r \in Requests : Adds(r) =>
       requests[r].pipeline \in Pipelines /\ lock[requests[r].pipeline] = r
  /\ \A r \in Requests : Is(r, "read", "add") =>
       /\ requests[r].arg \in [id : Nat, revision : Revisions]
       /\ requests[r].arg.id = NextId(requests[r].pipeline)

(* What the other requests have read; the copies that are not yet saved.   *)
Copies(r) == Is(r, "flushed", "duplicate")
RequestsHaveRead(r) ==
  LET q == requests[r] IN
  /\ q.pc \in {"asked", "locked", "read", "flushed"} =>
       q.pipeline \in used /\ q.user \in Users /\ q.kind \in Kinds
  /\ q.pc = "asked" => q.kind = "add" /\ q.arg \in Data
  /\ q.pc = "locked" => q.kind = "add" /\ q.arg \in Data
  /\ q.pc = "read" /\ q.kind \in {"rename", "delete", "duplicate"} => q.arg \in Wish
  /\ q.pc = "read" /\ q.kind \in {"tag", "move"} => q.arg \in [id : Nat, positions : Positions]
  /\ q.pc = "flushed" => 
       /\ q.kind = "duplicate" /\ q.arg \in [copy : used, row : Rows]
       /\ pipelines[q.arg.copy] = None
CopiesApart ==
  \A r, s \in Requests :
    Copies(r) /\ Copies(s) /\ r # s => requests[r].arg.copy # requests[s].arg.copy

RevisionsInv ==
  /\ RevisionTables /\ RowsAreHeld /\ CopiesApart
  /\ \A r \in Requests : RequestsHaveRead(r)

LEMMA NextIdIsNew ==
  ASSUME NEW p, Numbered(p)
  PROVE  \E start \in {0, 1}, last \in Nat :
           Ids(p) = start .. last /\ NextId(p) = last + 1
<1>1. PICK start \in {0, 1}, last \in Nat : Ids(p) = start .. last
  BY DEF Numbered
<1>2. CASE Ids(p) = {}
  <2>1. Ids(p) = 1 .. 0 /\ NextId(p) = 0 + 1
    BY <1>2 DEF NextId
  <2>2. QED
    BY <2>1
<1>3. CASE Ids(p) # {}
  <2>1. start <= last
    BY <1>1, <1>3
  <2>2. last \in Ids(p) /\ \A j \in Ids(p) : last >= j
    BY <1>1, <2>1
  <2>3. /\ Max(Ids(p)) \in Ids(p)
        /\ \A j \in Ids(p) : Max(Ids(p)) >= j
    BY <2>2 DEF Max
  <2>4. Max(Ids(p)) = last
    BY <1>1, <2>2, <2>3
  <2>5. QED
    BY <1>1, <1>3, <2>4 DEF NextId
<1>4. QED
  BY <1>2, <1>3

LEMMA RevisionRequestMoves ==
  ASSUME requests \in [Requests -> RevisionRequest],
         NEW r \in Requests, NEW q \in RevisionRequest,
         requests' = [requests EXCEPT ![r] = q]
  PROVE  /\ requests' \in [Requests -> RevisionRequest]
         /\ requests'[r] = q
         /\ \A s \in Requests \ {r} : requests'[s] = requests[s]
OBVIOUS

(* What one request leaves to the others.                                  *)
LEMMA OthersKeep ==
  ASSUME RevisionsAssumption, RevisionsInv, RevisionTables', NEW r \in Requests,
         used \subseteq used',
         \A s \in Requests \ {r} : requests'[s] = requests[s],
         \A p \in Pipelines : 
           /\ lock'[p] # lock[p] =>
                lock[p] \in {None, r} /\ lock'[p] \in {None, r}
           /\ lock[p] \notin {None, r} =>
                pipelines'[p] # None /\ NextId(p)' = NextId(p)
           /\ lock'[p] = r =>
                pipelines'[p] # None /\ Adds(r)' /\ requests'[r].pipeline = p,
         Adds(r)' => /\ requests'[r].pipeline \in Pipelines
                     /\ lock'[requests'[r].pipeline] = r,
         Is(r, "read", "add")' =>
           /\ requests'[r].arg \in [id : Nat, revision : Revisions]
           /\ requests'[r].arg.id = NextId(requests[r].pipeline)'
           /\ requests'[r].pipeline = requests[r].pipeline,
         RequestsHaveRead(r)',
         \A s \in Requests \ {r} : Copies(s) =>
           /\ pipelines'[requests[s].arg.copy] = None
           /\ Copies(r)' => requests'[r].arg.copy # requests[s].arg.copy
  PROVE  RevisionsInv'
<1>1. \A s \in Requests \ {r} :
        /\ Adds(s)' <=> Adds(s)
        /\ Copies(s)' <=> Copies(s)
        /\ Is(s, "read", "add")' <=> Is(s, "read", "add")
  BY DEF Adds, Copies, Is
<1>2. RowsAreHeld'
  <2>1. ASSUME NEW p \in Pipelines, lock'[p] # None
        PROVE  /\ pipelines'[p] # None
               /\ lock'[p] \in Requests /\ Adds(lock[p])'
               /\ requests'[lock'[p]].pipeline = p
    <3>1. CASE lock'[p] = r
      <4>1. Adds(r)' /\ requests'[r].pipeline = p /\ pipelines'[p] # None
        BY <2>1, <3>1
      <4>2. Adds(lock[p])' <=> Adds(r)'
        BY <3>1 DEF Adds, Is
      <4>3. QED
        BY <3>1, <4>1, <4>2
    <3>2. CASE lock'[p] # r
      <4>1. lock'[p] = lock[p] /\ lock[p] \in Requests \ {r}
        BY <2>1, <3>2 DEF RevisionsInv, RevisionTables, Stored
      <4>. DEFINE s == lock[p]
      <4>2. PICK t \in Requests \ {r} : t = s
        BY <4>1
      <4>3. Adds(t)' /\ requests'[t].pipeline = p
        BY <1>1, <2>1, <4>1, <4>2 DEF RevisionsInv, RowsAreHeld
      <4>4. Adds(lock[p])' <=> Adds(t)'
        BY <4>1, <4>2 DEF Adds, Is
      <4>5. pipelines'[p] # None
        BY <2>1, <3>2, <4>1 DEF RevisionsAssumption
      <4>6. QED
        BY <4>1, <4>2, <4>3, <4>4, <4>5
    <3>3. QED
      BY <3>1, <3>2
  <2>2. ASSUME NEW s \in Requests, Adds(s)'
        PROVE  /\ requests'[s].pipeline \in Pipelines
               /\ lock'[requests'[s].pipeline] = s
    <3>1. CASE s = r
      BY <2>2, <3>1
    <3>2. CASE s # r
      <4>1. Adds(s) /\ requests'[s] = requests[s]
        BY <1>1, <2>2, <3>2
      <4>2. requests[s].pipeline \in Pipelines /\ lock[requests[s].pipeline] = s
        BY <4>1 DEF RevisionsInv, RowsAreHeld
      <4>3. s \notin {None, r}
        BY <3>2 DEF RevisionsAssumption
      <4>4. QED
        BY <4>1, <4>2, <4>3
    <3>3. QED
      BY <3>1, <3>2
  <2>3. ASSUME NEW s \in Requests, Is(s, "read", "add")'
        PROVE  /\ requests'[s].arg \in [id : Nat, revision : Revisions]
               /\ requests'[s].arg.id = NextId(requests[s].pipeline)'
               /\ requests'[s].pipeline = requests[s].pipeline
    <3>1. CASE s = r
      BY <2>3, <3>1
    <3>2. CASE s # r
      <4>1. Is(s, "read", "add") /\ requests'[s] = requests[s]
        BY <1>1, <2>3, <3>2
      <4>2. /\ requests[s].arg \in [id : Nat, revision : Revisions]
            /\ requests[s].arg.id = NextId(requests[s].pipeline)
            /\ requests[s].pipeline \in Pipelines
            /\ lock[requests[s].pipeline] = s
        BY <4>1 DEF RevisionsInv, RowsAreHeld, Adds
      <4>3. s \notin {None, r}
        BY <3>2 DEF RevisionsAssumption
      <4>. DEFINE p == requests[s].pipeline
      <4>4. PICK t \in Pipelines : t = p
        BY <4>2
      <4>5. NextId(t)' = NextId(t)
        BY <4>2, <4>3, <4>4
      <4>6. QED
        BY <4>1, <4>2, <4>4, <4>5
    <3>3. QED
      BY <3>1, <3>2
  <2>4. QED
    BY <2>1, <2>2, <2>3 DEF RowsAreHeld
<1>3. \A s \in Requests \ {r} : RequestsHaveRead(s)'
  BY DEF RevisionsInv, RequestsHaveRead, RevisionTables, Stored, Copies, Is
<1>4. CopiesApart'
  BY <1>1 DEF RevisionsInv, CopiesApart
<1>5. QED
  BY <1>2, <1>3, <1>4 DEF RevisionsInv

LEMMA CreatesKeep ==
  ASSUME RevisionsAssumption, RevisionsInv, NEW r \in Requests, Create(r)
  PROVE  RevisionsInv'
<1>1. PICK p \in Pipelines \ used, u \in Users, d \in Data :
        /\ pipelines' = [pipelines EXCEPT ![p] = Pipeline(u, d, 0)]
        /\ revisions' = [revisions EXCEPT ![p] =
             [i \in {0} |-> Revision(d, NoPositions, None)]]
        /\ used' = used \cup {p}
        /\ requests' =
             [requests EXCEPT ![r] = Request("ok", "create", p, u, None)]
  BY DEF Create
<1>2. pipelines[p] = None /\ Ids(p) = {}
  BY DEF RevisionsInv, RevisionTables, Stored
<1>. DEFINE q == Request("ok", "create", p, u, None)
<1>3. q \in RevisionRequest /\ q.pc = "ok"
  BY DEF RevisionRequest, Answer, Request, Create
<1>. HIDE DEF q
<1>4. /\ requests' \in [Requests -> RevisionRequest]
      /\ requests'[r] = q
      /\ \A s \in Requests \ {r} : requests'[s] = requests[s]
  BY <1>1, <1>3, RevisionRequestMoves DEF RevisionsInv, RevisionTables, Stored, q
<1>5. lock' = lock /\ lock[p] = None
  BY <1>2 DEF Create, RevisionsInv, RowsAreHeld, RevisionTables, Stored
<1>6. \A s \in Pipelines \ {p} :
        revisions'[s] = revisions[s] /\ pipelines'[s] = pipelines[s]
  BY <1>1 DEF RevisionsInv, RevisionTables, Stored
<1>7. RevisionTables'
  <2>1. Pipeline(u, d, 0) \in Rows
    BY DEF Pipeline, Rows
  <2>2. Revision(d, NoPositions, None) \in Revisions
    BY DEF Revision, NoPositions, Revisions, Positions
  <2>3. Ids(p)' = 0 .. 0 /\ revisions'[p][0] \in Revisions
    BY <1>1, <2>2 DEF RevisionsInv, RevisionTables, Stored, Ids
  <2>4. Numbered(p)'
    BY <2>3 DEF Numbered
  <2>5. QED
    BY <1>1, <1>2, <1>4, <1>6, <2>1, <2>3, <2>4
    DEF RevisionsInv, RevisionTables, Stored, Create, Numbered, Ids, RevisionsAssumption
<1>8. \A s \in Pipelines \ {p} : NextId(s)' = NextId(s)
  BY <1>6 DEF NextId, Ids
<1>9. ~Adds(r)' /\ ~Adds(r) /\ ~Copies(r)' /\ RequestsHaveRead(r)' /\ ~Is(r, "read", "add")'
  BY <1>3, <1>4 DEF Create, Adds, Copies, RequestsHaveRead, Is
<1>10. \A s \in Requests : Copies(s) => requests[s].arg.copy \in used
                                     /\ pipelines[requests[s].arg.copy] = None
  BY DEF RevisionsInv, RequestsHaveRead, Copies, Is
<1>11. \A s \in Pipelines : lock[s] # None => pipelines[s] # None /\ lock[s] # r
  BY <1>9 DEF RevisionsInv, RowsAreHeld
<1>12. \A s \in Pipelines :
         /\ lock'[s] # lock[s] =>
              lock[s] \in {None, r} /\ lock'[s] \in {None, r}
         /\ lock[s] \notin {None, r} =>
              pipelines'[s] # None /\ NextId(s)' = NextId(s)
         /\ lock'[s] = r =>
              pipelines'[s] # None /\ Adds(r)' /\ requests'[r].pipeline = s
  BY <1>5, <1>6, <1>8, <1>11 DEF RevisionsAssumption
<1>13. \A s \in Requests \ {r} : Copies(s) =>
         /\ pipelines'[requests[s].arg.copy] = None
         /\ Copies(r)' => requests'[r].arg.copy # requests[s].arg.copy
  BY <1>6, <1>9, <1>10 DEF RevisionsInv, RevisionTables, Stored
<1>14. used \subseteq used'
  BY <1>1
<1>15. QED
  BY <1>4, <1>7, <1>9, <1>12, <1>13, <1>14, OthersKeep

(* What is so of the tables before a step.                                 *)
LEMMA RevisionFacts ==
  ASSUME RevisionsInv
  PROVE  /\ \A s \in Pipelines : lock[s] # None =>
              pipelines[s] # None /\ Adds(lock[s])
         /\ \A s \in Requests : Copies(s) =>
              /\ requests[s].arg.copy \in used
              /\ pipelines[requests[s].arg.copy] = None
              /\ requests[s].pipeline \in used
         /\ used \subseteq Pipelines
BY DEF RevisionsInv, RowsAreHeld, RequestsHaveRead, RevisionTables, Stored, Copies, Is

LEMMA RequestTurns ==
  ASSUME RevisionsAssumption, RevisionsInv, NEW r \in Requests,
         NEW q \in RevisionRequest, requests' = [requests EXCEPT ![r] = q],
         UNCHANGED <<pipelines, revisions, used, lock>>,
         ~Adds(r), q.pc # "flushed", q.pc # "locked", q.pc = "read" => q.kind # "add",
         RequestsHaveRead(r)'
  PROVE  RevisionsInv'
<1>1. /\ requests' \in [Requests -> RevisionRequest]
      /\ requests'[r] = q
      /\ \A s \in Requests \ {r} : requests'[s] = requests[s]
  BY RevisionRequestMoves DEF RevisionsInv, RevisionTables, Stored
<1>2. RevisionTables'
  BY <1>1 DEF RevisionsInv, RevisionTables, Stored, Numbered, Ids
<1>3. ~Adds(r)' /\ ~Copies(r)' /\ ~Is(r, "read", "add")'
  BY <1>1 DEF Adds, Copies, Is
<1>4. \A s \in Pipelines : NextId(s)' = NextId(s)
  BY DEF NextId, Ids
<1>5. \A s \in Pipelines :
         /\ lock'[s] # lock[s] =>
              lock[s] \in {None, r} /\ lock'[s] \in {None, r}
         /\ lock[s] \notin {None, r} =>
              pipelines'[s] # None /\ NextId(s)' = NextId(s)
         /\ lock'[s] = r =>
              pipelines'[s] # None /\ Adds(r)' /\ requests'[r].pipeline = s
  BY <1>4, RevisionFacts DEF RevisionsAssumption
<1>6. \A s \in Requests \ {r} : Copies(s) =>
         /\ pipelines'[requests[s].arg.copy] = None
         /\ Copies(r)' => requests'[r].arg.copy # requests[s].arg.copy
  BY <1>3, RevisionFacts
<1>7. QED
  BY <1>1, <1>2, <1>3, <1>5, <1>6, OthersKeep

LEMMA RevisionsStart ==
  ASSUME RevisionsAssumption, RevisionsInv, NEW r \in Requests, Starts(r)
  PROVE  RevisionsInv'
<1>1. CASE Create(r)
  BY <1>1, CreatesKeep
<1>2. CASE StartsAdd(r)
  <2>1. PICK p \in used, u \in Users, d \in Data :
          requests' =
            [requests EXCEPT ![r] = Request("asked", "add", p, u, d)]
    BY <1>2 DEF StartsAdd
  <2>. DEFINE q == Request("asked", "add", p, u, d)
  <2>2. q \in RevisionRequest /\ q.pc = "asked"
    BY <1>2 DEF StartsAdd, Request, RevisionRequest, Answer, RevisionsInv, RevisionTables, Stored
  <2>3. ~Adds(r) /\ RequestsHaveRead(r)'
    BY <1>2, <2>1 DEF StartsAdd, Adds, Is, RequestsHaveRead, RevisionsInv, RevisionTables, Stored, Request
  <2>4. QED
    BY <1>2, <2>1, <2>2, <2>3, RequestTurns DEF StartsAdd
<1>3. CASE ReadsRevision(r)
  <2>1. PICK p \in used, u \in Users, positions \in Positions,
             kind \in Kinds \cap {"tag", "move"} : \E id \in Ids(p) :
          requests' = [requests EXCEPT ![r] =
            IF PresentAndAuthorized(p, u)
              THEN Request("read", kind, p, u, [id |-> id, positions |-> positions])
              ELSE Request("missing", kind, p, u, None)]
    BY <1>3 DEF ReadsRevision
  <2>1a. PICK id \in Ids(p) :
          requests' = [requests EXCEPT ![r] =
            IF PresentAndAuthorized(p, u)
              THEN Request("read", kind, p, u, [id |-> id, positions |-> positions])
              ELSE Request("missing", kind, p, u, None)]
    BY <2>1
  <2>. DEFINE q == IF PresentAndAuthorized(p, u)
                     THEN Request("read", kind, p, u, [id |-> id, positions |-> positions])
                     ELSE Request("missing", kind, p, u, None)
  <2>2. id \in Nat /\ p \in Pipelines
    BY DEF RevisionsInv, RevisionTables, Stored, Numbered
  <2>3. q \in RevisionRequest /\ q.pc \in {"read", "missing"} /\ q.kind \in {"tag", "move"}
    BY <2>2 DEF Request, RevisionRequest, Answer
  <2>4. requests' = [requests EXCEPT ![r] = q] /\ ~Adds(r)
    BY <1>3, <2>1a DEF ReadsRevision, Adds, Is
  <2>5. q.pc = "read" => q.pipeline \in used /\ q.user \in Users
                         /\ q.kind \in Kinds
                         /\ q.arg \in [id : Nat, positions : Positions]
    BY <2>2 DEF Request
  <2>. HIDE DEF q
  <2>6. RequestsHaveRead(r)'
    BY <1>3, <2>3, <2>4, <2>5 DEF ReadsRevision, RequestsHaveRead, RevisionsInv, RevisionTables, Stored
  <2>7. QED
    BY <1>3, <2>3, <2>4, <2>6, RequestTurns DEF ReadsRevision
<1>4. ASSUME NEW kind \in {"rename", "delete", "duplicate"}, NEW args \in SUBSET (Requests \cup {None}),
             Reads(r, kind, args)
      PROVE  RevisionsInv'
  <2>1. PICK p \in used, u \in Users, arg \in args :
          requests' = [requests EXCEPT ![r] =
            Request(IF PresentAndAuthorized(p, u) THEN "read" ELSE "missing", kind, p, u,
              IF PresentAndAuthorized(p, u) THEN [name |-> arg, row |-> pipelines[p]] ELSE None)]
    BY <1>4 DEF Reads
  <2>. DEFINE q == 
         Request(IF PresentAndAuthorized(p, u) THEN "read" ELSE "missing", kind, p, u,
              IF PresentAndAuthorized(p, u) THEN [name |-> arg, row |-> pipelines[p]] ELSE None)
  <2>2. p \in Pipelines /\ (PresentAndAuthorized(p, u) => pipelines[p] \in Rows)
    BY DEF RevisionsInv, RevisionTables, Stored, PresentAndAuthorized
  <2>3. /\ q \in RevisionRequest /\ q.pc \in {"read", "missing"} /\ q.kind = kind
        /\ q.pc = "read" => q.arg \in Wish /\ q.pipeline \in used /\ q.user \in Users
    <3>1. CASE PresentAndAuthorized(p, u)
      <4>1. [name |-> arg, row |-> pipelines[p]] \in Wish
        BY <2>2, <3>1 DEF Wish
      <4>2. QED
        BY <1>4, <2>2, <3>1, <4>1 DEF Request, RevisionRequest, Answer, Reads, RevisionsInv, RevisionTables, Stored
    <3>2. CASE ~PresentAndAuthorized(p, u)
      BY <1>4, <2>2, <3>2 DEF Request, RevisionRequest, Answer, Reads, RevisionsInv, RevisionTables, Stored
    <3>3. QED
      BY <3>1, <3>2
  <2>4. requests' = [requests EXCEPT ![r] = q]
    BY <2>1
  <2>. HIDE DEF q
  <2>5. ~Adds(r) /\ RequestsHaveRead(r)'
    BY <1>4, <2>3, <2>4 DEF Reads, Adds, Is, RequestsHaveRead, RevisionsInv, RevisionTables, Stored
  <2>6. QED
    BY <1>4, <2>3, <2>4, <2>5, RequestTurns DEF Reads
<1>5. QED
  BY <1>1, <1>2, <1>3, <1>4 DEF Starts

LEMMA RevisionGoes ==
  ASSUME RevisionsInv, NEW r \in Requests, NEW arg \in Answer,
         NEW pc \in {"locked", "read", "flushed", "ok", "missing", "failed"},
         Goes(r, pc, arg)
  PROVE  \E q \in RevisionRequest :
           /\ requests' = [requests EXCEPT ![r] = q] /\ requests'[r] = q
           /\ q.pc = pc /\ q.arg = arg /\ q.kind = requests[r].kind
           /\ q.pipeline = requests[r].pipeline /\ q.user = requests[r].user
<1>. DEFINE q == [requests[r] EXCEPT !.pc = pc, !.arg = arg]
<1>1. requests[r] \in RevisionRequest
  BY DEF RevisionsInv, RevisionTables, Stored
<1>2. /\ q \in RevisionRequest
      /\ q.pc = pc /\ q.arg = arg /\ q.kind = requests[r].kind
      /\ q.pipeline = requests[r].pipeline /\ q.user = requests[r].user
  BY <1>1 DEF RevisionRequest
<1>3. requests' = [requests EXCEPT ![r] = q]
  BY DEF Goes, RevisionsInv, RevisionTables, Stored
<1>. HIDE DEF q
<1>4. requests'[r] = q
  BY <1>3 DEF RevisionsInv, RevisionTables, Stored
<1>5. QED
  BY <1>2, <1>3, <1>4

(* A request that ends, or goes on without the row.                        *)
LEMMA RequestAnswers ==
  ASSUME RevisionsAssumption, RevisionsInv, NEW r \in Requests,
         NEW result \in {"ok", "missing", "failed"}, Answers(r, result),
         UNCHANGED <<pipelines, revisions, used, lock>>, ~Adds(r)
  PROVE  RevisionsInv'
<1>1. None \in Answer
  BY DEF Answer
<1>2. PICK q \in RevisionRequest :
        /\ requests' = [requests EXCEPT ![r] = q] /\ requests'[r] = q
        /\ q.pc = result
  BY <1>1, RevisionGoes DEF Answers
<1>3. RequestsHaveRead(r)'
  BY <1>2 DEF RequestsHaveRead
<1>4. QED
  BY <1>2, <1>3, RequestTurns

LEMMA AddLocksKeeps ==
  ASSUME RevisionsAssumption, RevisionsInv, NEW r \in Requests, AddLocks(r)
  PROVE  RevisionsInv'
<1>. DEFINE p == requests[r].pipeline
<1>1. /\ p \in Pipelines /\ requests[r].arg \in Data
      /\ requests[r].kind = "add"
  BY DEF AddLocks, Is, RevisionsInv, RequestsHaveRead, RevisionTables, Stored
<1>2. ~Adds(r)
  BY DEF AddLocks, Is, Adds
<1>3. CASE ~PresentAndAuthorized(p, requests[r].user)
  BY <1>2, <1>3, RequestAnswers DEF AddLocks
<1>4. CASE PresentAndAuthorized(p, requests[r].user)
  <2>1. /\ lock[p] = None /\ lock' = [lock EXCEPT ![p] = r]
        /\ pipelines[p] # None /\ Goes(r, "locked", requests[r].arg)
        /\ UNCHANGED <<pipelines, revisions, used>>
    BY <1>4 DEF AddLocks, PresentAndAuthorized
  <2>2. requests[r].arg \in Answer
    BY <1>1 DEF Answer
  <2>3. PICK q \in RevisionRequest :
          /\ requests' = [requests EXCEPT ![r] = q] /\ requests'[r] = q
          /\ q.pc = "locked" /\ q.arg = requests[r].arg /\ q.kind = requests[r].kind
          /\ q.pipeline = requests[r].pipeline /\ q.user = requests[r].user
    BY <2>1, <2>2, RevisionGoes
  <2>4. /\ requests' \in [Requests -> RevisionRequest]
        /\ \A s \in Requests \ {r} : requests'[s] = requests[s]
    BY <2>3, RevisionRequestMoves DEF RevisionsInv, RevisionTables, Stored
  <2>5. RevisionTables'
    BY <1>1, <2>1, <2>4 DEF RevisionsInv, RevisionTables, Stored, Numbered, Ids
  <2>6. \A s \in Pipelines : NextId(s)' = NextId(s)
    BY <2>1 DEF NextId, Ids
  <2>7. /\ Adds(r)' /\ ~Copies(r)' /\ ~Is(r, "read", "add")'
        /\ requests'[r].pipeline = p
    BY <1>1, <2>3 DEF Adds, Copies, Is
  <2>8. RequestsHaveRead(r)'
    <3>1. p \in used /\ requests[r].user \in Users
          /\ requests[r].kind \in Kinds
      BY DEF RevisionsInv, RequestsHaveRead, AddLocks, Is
    <3>2. QED
      BY <1>1, <2>1, <2>3, <3>1 DEF RequestsHaveRead
  <2>9. lock'[p] = r /\ \A s \in Pipelines \ {p} : lock'[s] = lock[s]
    BY <1>1, <2>1 DEF RevisionsInv, RevisionTables, Stored
  <2>10. \A s \in Pipelines :
           /\ lock'[s] # lock[s] =>
                lock[s] \in {None, r} /\ lock'[s] \in {None, r}
           /\ lock[s] \notin {None, r} =>
                pipelines'[s] # None /\ NextId(s)' = NextId(s)
           /\ lock'[s] = r =>
                pipelines'[s] # None /\ Adds(r)' /\ requests'[r].pipeline = s
    BY <1>2, <2>1, <2>6, <2>7, <2>9, RevisionFacts DEF RevisionsAssumption
  <2>11. \A s \in Requests \ {r} : Copies(s) =>
           /\ pipelines'[requests[s].arg.copy] = None
           /\ Copies(r)' => requests'[r].arg.copy # requests[s].arg.copy
    BY <2>1, <2>7, RevisionFacts
  <2>12. QED
    BY <1>1, <2>1, <2>4, <2>5, <2>7, <2>8, <2>9, <2>10, <2>11, OthersKeep
<1>5. QED
  BY <1>3, <1>4

LEMMA AddReadsKeeps ==
  ASSUME RevisionsAssumption, RevisionsInv, NEW r \in Requests, AddReads(r)
  PROVE  RevisionsInv'
<1>. DEFINE p == requests[r].pipeline
            new == [id |-> NextId(p), 
                    revision |-> Revision(requests[r].arg,
                                   Carried(p, requests[r].arg), None)]
<1>1. /\ p \in Pipelines /\ requests[r].arg \in Data
      /\ lock[p] = r /\ Adds(r)
      /\ requests[r].kind = "add"
  BY DEF AddReads, Adds, Is, RevisionsInv, RequestsHaveRead, RevisionTables, Stored, RowsAreHeld
<1>2. Carried(p, requests[r].arg) \in Positions
  <2>1. NoPositions \in Positions
    BY DEF NoPositions, Positions
  <2>2. CASE Ids(p) = {}
    BY <2>1, <2>2 DEF Carried
  <2>3. CASE Ids(p) # {}
    <3>1. PICK start \in {0, 1}, last \in Nat :
            Ids(p) = start .. last /\ NextId(p) = last + 1
      BY <1>1, NextIdIsNew DEF RevisionsInv, RevisionTables, Stored
    <3>2. Max(Ids(p)) \in Ids(p)
      <4>1. last \in Ids(p) /\ \A j \in Ids(p) : last >= j
        BY <2>3, <3>1
      <4>2. QED
        BY <4>1 DEF Max
    <3>3. revisions[p][Max(Ids(p))].positions \in [Operators -> Places \cup {None}]
      BY <1>1, <3>2 DEF RevisionsInv, RevisionTables, Stored, Revisions, Positions
    <3>4. QED
      BY <2>3, <3>3 DEF Carried, Positions
  <2>4. QED
    BY <2>2, <2>3
<1>3. new \in [id : Nat, revision : Revisions]
  <2>1. NextId(p) \in Nat
    BY <1>1, NextIdIsNew DEF RevisionsInv, RevisionTables, Stored
  <2>2. QED
    BY <1>1, <1>2, <2>1 DEF Revision, Revisions
<1>4. Goes(r, "read", new) /\ UNCHANGED <<pipelines, revisions, used, lock>>
  BY DEF AddReads
<1>5. new.id = NextId(p)
  OBVIOUS
<1>. HIDE DEF new
<1>6. new \in Answer
  BY <1>3 DEF Answer
<1>7. PICK q \in RevisionRequest :
        /\ requests' = [requests EXCEPT ![r] = q] /\ requests'[r] = q
        /\ q.pc = "read" /\ q.arg = new /\ q.kind = requests[r].kind
        /\ q.pipeline = requests[r].pipeline /\ q.user = requests[r].user
  BY <1>4, <1>6, RevisionGoes
<1>8. /\ requests' \in [Requests -> RevisionRequest]
      /\ \A s \in Requests \ {r} : requests'[s] = requests[s]
  BY <1>7, RevisionRequestMoves DEF RevisionsInv, RevisionTables, Stored
<1>9. RevisionTables'
  BY <1>1, <1>4, <1>8 DEF RevisionsInv, RevisionTables, Stored, Numbered, Ids
<1>10. \A s \in Pipelines : NextId(s)' = NextId(s)
  BY <1>4 DEF NextId, Ids
<1>11. /\ Adds(r)' /\ ~Copies(r)' /\ Is(r, "read", "add")'
       /\ requests'[r].pipeline = p /\ requests'[r].arg = new
       /\ new.id = NextId(p)'
  BY <1>1, <1>5, <1>7, <1>10 DEF Adds, Copies, Is
<1>12. RequestsHaveRead(r)'
  <2>1. p \in used /\ requests[r].user \in Users
        /\ requests[r].kind \in Kinds
    BY DEF RevisionsInv, RequestsHaveRead, AddReads, Is
  <2>2. QED
    BY <1>1, <1>4, <1>7, <2>1 DEF RequestsHaveRead
<1>13. \A s \in Pipelines :
         /\ lock'[s] # lock[s] =>
              lock[s] \in {None, r} /\ lock'[s] \in {None, r}
         /\ lock[s] \notin {None, r} =>
              pipelines'[s] # None /\ NextId(s)' = NextId(s)
         /\ lock'[s] = r =>
              pipelines'[s] # None /\ Adds(r)' /\ requests'[r].pipeline = s
  BY <1>4, <1>10, <1>11, RevisionFacts DEF RevisionsAssumption, RevisionsInv, RowsAreHeld
<1>14. \A s \in Requests \ {r} : Copies(s) =>
         /\ pipelines'[requests[s].arg.copy] = None
         /\ Copies(r)' => requests'[r].arg.copy # requests[s].arg.copy
  BY <1>4, <1>11, RevisionFacts
<1>15. QED
  BY <1>1, <1>3, <1>4, <1>8, <1>9, <1>11, <1>12, <1>13, <1>14, OthersKeep

(* A request that commits, with or without the row.                        *)
LEMMA RequestCommits ==
  ASSUME RevisionsAssumption, RevisionsInv, NEW r \in Requests,
         NEW result \in {"ok", "failed"}, Answers(r, result),
         Stored', UNCHANGED used,
         \A p \in Pipelines :
           /\ lock'[p] # r
           /\ lock[p] # r => lock'[p] = lock[p]
           /\ lock[p] = r => lock'[p] = None
           /\ lock[p] \notin {None, r} =>
                pipelines'[p] # None /\ NextId(p)' = NextId(p),
         \A s \in Requests \ {r} :
           Copies(s) => pipelines'[requests[s].arg.copy] = None
  PROVE  RevisionsInv'
<1>1. None \in Answer
  BY DEF Answer
<1>2. PICK q \in RevisionRequest :
        /\ requests' = [requests EXCEPT ![r] = q] /\ requests'[r] = q
        /\ q.pc = result
  BY <1>1, RevisionGoes DEF Answers
<1>3. /\ requests' \in [Requests -> RevisionRequest]
      /\ \A s \in Requests \ {r} : requests'[s] = requests[s]
  BY <1>2, RevisionRequestMoves DEF RevisionsInv, RevisionTables
<1>4. RevisionTables'
  BY <1>3 DEF RevisionTables
<1>5. RequestsHaveRead(r)'
  BY <1>2 DEF RequestsHaveRead
<1>6. ~Adds(r)' /\ ~Copies(r)' /\ ~Is(r, "read", "add")'
  BY <1>2 DEF Adds, Copies, Is
<1>7. \A s \in Pipelines :
         /\ lock'[s] # lock[s] =>
              lock[s] \in {None, r} /\ lock'[s] \in {None, r}
         /\ lock[s] \notin {None, r} =>
              pipelines'[s] # None /\ NextId(s)' = NextId(s)
         /\ lock'[s] = r =>
              pipelines'[s] # None /\ Adds(r)' /\ requests'[r].pipeline = s
  OBVIOUS
<1>8. \A s \in Requests \ {r} : Copies(s) =>
         /\ pipelines'[requests[s].arg.copy] = None
         /\ Copies(r)' => requests'[r].arg.copy # requests[s].arg.copy
  BY <1>6
<1>9. QED
  BY <1>3, <1>4, <1>5, <1>6, <1>7, <1>8, OthersKeep

(* A pipeline changes its row and its revisions.                           *)
LEMMA StoredKeeps ==
  ASSUME Stored, NEW p \in used, NEW row \in Rows \cup {None}, NEW table,
         \E start \in {0, 1}, last \in Nat : DOMAIN table = start .. last,
         \A id \in DOMAIN table : table[id] \in Revisions,
         row = None => DOMAIN table = {},
         pipelines' = [pipelines EXCEPT ![p] = row],
         revisions' = [revisions EXCEPT ![p] = table],
         UNCHANGED used,
         lock' \in [Pipelines -> Requests \cup {None}]
  PROVE  Stored'
<1>1. /\ pipelines'[p] = row /\ revisions'[p] = table
      /\ \A s \in Pipelines \ {p} :
           revisions'[s] = revisions[s] /\ pipelines'[s] = pipelines[s]
  BY DEF Stored
<1>2. ASSUME NEW s \in Pipelines
      PROVE  /\ Numbered(s)' /\ \A id \in Ids(s)' : revisions'[s][id] \in Revisions
             /\ pipelines'[s] = None => Ids(s)' = {}
  <2>1. CASE s = p
    BY <1>1, <2>1 DEF Numbered, Ids
  <2>2. CASE s # p
    BY <1>1, <2>2 DEF Numbered, Ids, Stored
  <2>3. QED
    BY <2>1, <2>2
<1>3. \A s \in Pipelines \ used : pipelines'[s] = None
  BY <1>1 DEF Stored
<1>4. QED
  BY <1>2, <1>3 DEF Stored

LEMMA NextIdStays ==
  ASSUME Stored, NEW p \in Pipelines, NEW table,
         revisions' = [revisions EXCEPT ![p] = table]
  PROVE  \A s \in Pipelines \ {p} : NextId(s)' = NextId(s)
BY DEF Stored, NextId, Ids

LEMMA AddCommitsKeeps ==
  ASSUME RevisionsAssumption, RevisionsInv, NEW r \in Requests, AddCommits(r)
  PROVE  RevisionsInv' /\ requests'[r].pc = "ok"
<1>. DEFINE p == requests[r].pipeline
            new == requests[r].arg
<1>1. /\ p \in Pipelines /\ p \in used /\ new \in [id : Nat, revision : Revisions]
      /\ lock[p] = r /\ Adds(r) /\ pipelines[p] # None
      /\ new.id = NextId(p)
      /\ \A s \in Pipelines \ {p} : lock[s] # r
  BY DEF AddCommits, Adds, Is, RevisionsInv, RequestsHaveRead, RevisionTables, Stored, RowsAreHeld,
         RevisionsAssumption
<1>2. PICK start \in {0, 1}, last \in Nat :
        Ids(p) = start .. last /\ NextId(p) = last + 1
  BY <1>1, NextIdIsNew DEF RevisionsInv, RevisionTables, Stored
<1>3. new.id \notin Ids(p)
  BY <1>1, <1>2
<1>. DEFINE row == [pipelines[p] EXCEPT !.data = new.revision.data, !.current = new.id]
            table == Added(p, new)
<1>4. /\ lock' = [lock EXCEPT ![p] = None]
      /\ revisions' = [revisions EXCEPT ![p] = table]
      /\ pipelines' = [pipelines EXCEPT ![p].data = new.revision.data, ![p].current = new.id]
      /\ Answers(r, "ok") /\ UNCHANGED used
  BY <1>3 DEF AddCommits
<1>5. pipelines' = [pipelines EXCEPT ![p] = row]
  BY <1>1, <1>4 DEF RevisionsInv, RevisionTables, Stored
<1>6. row \in Rows
  <2>1. pipelines[p] \in Rows
    BY <1>1 DEF RevisionsInv, RevisionTables, Stored
  <2>2. new.revision.data \in Data
    BY <1>1 DEF Revisions
  <2>3. new.id \in Nat
    BY <1>1
  <2>4. QED
    BY <2>1, <2>2, <2>3 DEF Rows
<1>7. DOMAIN table = start .. (last + 1)
  BY <1>1, <1>2 DEF Added
<1>8. \A id \in DOMAIN table : table[id] \in Revisions
  BY <1>1, <1>2 DEF Added, RevisionsInv, RevisionTables, Stored
<1>. HIDE DEF row, table
<1>9. Stored'
  <2>1. Stored /\ lock' \in [Pipelines -> Requests \cup {None}]
    BY <1>4 DEF RevisionsInv, RevisionTables, Stored
  <2>2. row \in Rows \cup {None} /\ row # None
    BY <1>6 DEF RevisionsAssumption
  <2>3. \E i \in {0, 1}, j \in Nat : DOMAIN table = i .. j
    BY <1>7
  <2>4. QED
    BY <1>1, <1>4, <1>5, <1>8, <2>1, <2>2, <2>3, StoredKeeps
<1>10. \A s \in Pipelines \ {p} : /\ NextId(s)' = NextId(s)
                                          /\ pipelines'[s] = pipelines[s]
                                          /\ lock'[s] = lock[s]
  BY <1>1, <1>4, <1>5, NextIdStays DEF RevisionsInv, RevisionTables, Stored
<1>11. lock'[p] = None /\ pipelines'[p] = row
  BY <1>1, <1>4, <1>5 DEF RevisionsInv, RevisionTables, Stored
<1>12. \A s \in Pipelines :
           /\ lock'[s] # r
           /\ lock[s] # r => lock'[s] = lock[s]
           /\ lock[s] = r => lock'[s] = None
           /\ lock[s] \notin {None, r} =>
                pipelines'[s] # None /\ NextId(s)' = NextId(s)
  BY <1>1, <1>10, <1>11, RevisionFacts DEF RevisionsAssumption
<1>13. \A s \in Requests \ {r} :
           Copies(s) => pipelines'[requests[s].arg.copy] = None
  BY <1>1, <1>10, RevisionFacts
<1>14. requests'[r].pc = "ok"
  BY <1>4, RevisionGoes DEF Answers, Answer
<1>15. QED
  BY <1>4, <1>9, <1>12, <1>13, <1>14, RequestCommits

LEMMA RenameCommitsKeeps ==
  ASSUME RevisionsAssumption, RevisionsInv, NEW r \in Requests, RenameCommits(r)
  PROVE  RevisionsInv'
<1>. DEFINE p == requests[r].pipeline
            row == [pipelines[p] EXCEPT !.name = requests[r].arg.name]
<1>1. /\ p \in Pipelines /\ requests[r].arg \in Wish /\ ~Adds(r) /\ lock[p] = None
      /\ UNCHANGED <<revisions, used, lock>>
  BY DEF RenameCommits, Is, Adds, RevisionsInv, RequestsHaveRead, RevisionTables, Stored
<1>2. CASE pipelines[p] = None
  BY <1>1, <1>2, RequestAnswers DEF RenameCommits
<1>3. CASE pipelines[p] # None
  <2>1. Answers(r, "ok") /\ pipelines' = [pipelines EXCEPT ![p] = row]
    BY <1>1, <1>3 DEF RenameCommits, RevisionsInv, RevisionTables, Stored
  <2>2. row \in Rows
    <3>1. pipelines[p] \in Rows
      BY <1>1, <1>3 DEF RevisionsInv, RevisionTables, Stored
    <3>2. requests[r].arg.name \in Requests \cup {None}
      BY <1>1 DEF Wish
    <3>3. QED
      BY <3>1, <3>2 DEF Rows
  <2>. HIDE DEF row
  <2>3. pipelines'[p] = row /\ \A s \in Pipelines \ {p} : pipelines'[s] = pipelines[s]
    BY <1>1, <2>1 DEF RevisionsInv, RevisionTables, Stored
  <2>4. Stored'
    BY <1>1, <1>3, <2>1, <2>2, <2>3
    DEF RevisionsInv, RevisionTables, Stored, Numbered, Ids, RevisionsAssumption
  <2>5. \A s \in Pipelines : NextId(s)' = NextId(s) /\ lock[s] # r
    BY <1>1, RevisionFacts DEF NextId, Ids, RevisionsAssumption
  <2>6. \A s \in Pipelines :
           /\ lock'[s] # r
           /\ lock[s] # r => lock'[s] = lock[s]
           /\ lock[s] = r => lock'[s] = None
           /\ lock[s] \notin {None, r} =>
                pipelines'[s] # None /\ NextId(s)' = NextId(s)
    BY <1>1, <2>2, <2>3, <2>5, RevisionFacts DEF RevisionsAssumption
  <2>7. \A s \in Requests \ {r} :
           Copies(s) => pipelines'[requests[s].arg.copy] = None
    BY <1>3, <2>3, RevisionFacts
  <2>8. QED
    BY <1>1, <2>1, <2>4, <2>6, <2>7, RequestCommits
<1>4. QED
  BY <1>2, <1>3

LEMMA DeleteCommitsKeeps ==
  ASSUME RevisionsAssumption, RevisionsInv, NEW r \in Requests, DeleteCommits(r)
  PROVE  RevisionsInv'
<1>. DEFINE p == requests[r].pipeline
<1>1. /\ p \in Pipelines /\ p \in used /\ ~Adds(r) /\ lock[p] = None
      /\ UNCHANGED <<used, lock>>
      /\ pipelines' = [pipelines EXCEPT ![p] = None]
      /\ revisions' = [revisions EXCEPT ![p] = <<>>]
      /\ Answers(r, "ok")
  BY DEF DeleteCommits, Is, Adds, RevisionsInv, RequestsHaveRead, RevisionTables, Stored
<1>2. Stored'
  <2>1. Stored /\ lock' \in [Pipelines -> Requests \cup {None}]
    BY <1>1 DEF RevisionsInv, RevisionTables, Stored
  <2>2. DOMAIN <<>> = 1 .. 0 /\ DOMAIN <<>> = {}
    OBVIOUS
  <2>3. \E i \in {0, 1}, j \in Nat : DOMAIN <<>> = i .. j
    BY <2>2
  <2>4. None \in Rows \cup {None} /\ \A id \in DOMAIN <<>> : <<>>[id] \in Revisions
    BY <2>2
  <2>5. QED
    BY <1>1, <2>1, <2>2, <2>3, <2>4, StoredKeeps
<1>3. \A s \in Pipelines \ {p} : pipelines'[s] = pipelines[s]
  BY <1>1 DEF RevisionsInv, RevisionTables, Stored
<1>4. \A s \in Pipelines \ {p} : NextId(s)' = NextId(s)
  BY <1>1, NextIdStays DEF RevisionsInv, RevisionTables
<1>5. \A s \in Pipelines :
           /\ lock'[s] # r
           /\ lock[s] # r => lock'[s] = lock[s]
           /\ lock[s] = r => lock'[s] = None
           /\ lock[s] \notin {None, r} =>
                pipelines'[s] # None /\ NextId(s)' = NextId(s)
  BY <1>1, <1>3, <1>4, RevisionFacts DEF RevisionsAssumption
<1>6. \A s \in Requests \ {r} :
           Copies(s) => pipelines'[requests[s].arg.copy] = None
  BY <1>1, RevisionFacts DEF RevisionsInv, RevisionTables, Stored
<1>7. QED
  BY <1>1, <1>2, <1>5, <1>6, RequestCommits

LEMMA DuplicateReadsKeeps ==
  ASSUME RevisionsAssumption, RevisionsInv, NEW r \in Requests, DuplicateReads(r)
  PROVE  RevisionsInv'
<1>1. PICK p \in Pipelines \ used :
        /\ used' = used \cup {p}
        /\ Goes(r, "flushed", [copy |-> p, row |-> requests[r].arg.row])
  BY DEF DuplicateReads
<1>. DEFINE arg == [copy |-> p, row |-> requests[r].arg.row]
<1>2. /\ requests[r].arg.row \in Rows /\ requests[r].pipeline \in used
      /\ requests[r].user \in Users
      /\ ~Adds(r) /\ requests[r].kind = "duplicate" /\ "duplicate" \in Kinds
      /\ UNCHANGED <<pipelines, revisions, lock>>
  BY DEF DuplicateReads, Is, Adds, RevisionsInv, RequestsHaveRead, Wish
<1>3. arg \in Answer
  BY <1>2 DEF Answer
<1>4. PICK q \in RevisionRequest :
        /\ requests' = [requests EXCEPT ![r] = q] /\ requests'[r] = q
        /\ q.pc = "flushed" /\ q.arg = arg /\ q.kind = requests[r].kind
        /\ q.pipeline = requests[r].pipeline /\ q.user = requests[r].user
  BY <1>1, <1>3, RevisionGoes
<1>5. /\ requests' \in [Requests -> RevisionRequest]
      /\ \A s \in Requests \ {r} : requests'[s] = requests[s]
  BY <1>4, RevisionRequestMoves DEF RevisionsInv, RevisionTables
<1>6. RevisionTables'
  BY <1>1, <1>2, <1>5 DEF RevisionsInv, RevisionTables, Stored, Numbered, Ids
<1>7. pipelines[p] = None
  BY DEF RevisionsInv, RevisionTables, Stored
<1>8. RequestsHaveRead(r)'
  BY <1>1, <1>2, <1>4, <1>7 DEF RequestsHaveRead
<1>9. ~Adds(r)' /\ ~Is(r, "read", "add")' /\ requests'[r].arg.copy = p
  BY <1>4 DEF Adds, Is
<1>10. \A s \in Pipelines : NextId(s)' = NextId(s)
  BY <1>2 DEF NextId, Ids
<1>11. \A s \in Pipelines :
         /\ lock'[s] # lock[s] =>
              lock[s] \in {None, r} /\ lock'[s] \in {None, r}
         /\ lock[s] \notin {None, r} =>
              pipelines'[s] # None /\ NextId(s)' = NextId(s)
         /\ lock'[s] = r =>
              pipelines'[s] # None /\ Adds(r)' /\ requests'[r].pipeline = s
  BY <1>2, <1>10, RevisionFacts DEF RevisionsAssumption
<1>12. \A s \in Requests \ {r} : Copies(s) =>
         /\ pipelines'[requests[s].arg.copy] = None
         /\ Copies(r)' => requests'[r].arg.copy # requests[s].arg.copy
  BY <1>2, <1>9, RevisionFacts
<1>13. used \subseteq used'
  BY <1>1
<1>14. QED
  BY <1>5, <1>6, <1>8, <1>9, <1>11, <1>12, <1>13, OthersKeep

LEMMA DuplicateCommitsKeeps ==
  ASSUME RevisionsAssumption, RevisionsInv, NEW r \in Requests, DuplicateCommits(r)
  PROVE  RevisionsInv'
<1>. DEFINE source == requests[r].pipeline
            copy == requests[r].arg.copy
            row == [Pipeline(requests[r].user, requests[r].arg.row.data,
                      requests[r].arg.row.current) EXCEPT !.name = requests[r].arg.row.name]
            table == revisions[source]
<1>1. /\ copy \in used /\ copy \in Pipelines /\ source \in Pipelines
      /\ requests[r].arg.row \in Rows /\ requests[r].user \in Users
      /\ pipelines[copy] = None /\ ~Adds(r) /\ Copies(r)
  BY DEF DuplicateCommits, Is, Adds, Copies, RevisionsInv, RequestsHaveRead, RevisionTables, Stored
<1>2. /\ UNCHANGED <<used, lock>>
      /\ pipelines' = [pipelines EXCEPT ![copy] = row]
      /\ revisions' = [revisions EXCEPT ![copy] = table]
      /\ Answers(r, "ok")
  BY DEF DuplicateCommits
<1>3. row \in Rows
  BY <1>1 DEF Pipeline, Rows
<1>. HIDE DEF row
<1>4. Stored'
  <2>1. Stored /\ lock' \in [Pipelines -> Requests \cup {None}]
    BY <1>2 DEF RevisionsInv, RevisionTables, Stored
  <2>2. \E i \in {0, 1}, j \in Nat : DOMAIN table = i .. j
    BY <1>1 DEF RevisionsInv, RevisionTables, Stored, Numbered, Ids
  <2>3. \A id \in DOMAIN table : table[id] \in Revisions
    BY <1>1 DEF RevisionsInv, RevisionTables, Stored, Ids
  <2>4. row \in Rows \cup {None} /\ row # None
    BY <1>3 DEF RevisionsAssumption
  <2>. HIDE DEF table
  <2>5. QED
    BY <1>1, <1>2, <2>1, <2>2, <2>3, <2>4, StoredKeeps
<1>5. \A s \in Pipelines \ {copy} :
        NextId(s)' = NextId(s) /\ pipelines'[s] = pipelines[s]
  BY <1>1, <1>2, NextIdStays DEF RevisionsInv, RevisionTables, Stored
<1>6. \A s \in Pipelines :
           /\ lock'[s] # r
           /\ lock[s] # r => lock'[s] = lock[s]
           /\ lock[s] = r => lock'[s] = None
           /\ lock[s] \notin {None, r} =>
                pipelines'[s] # None /\ NextId(s)' = NextId(s)
  BY <1>1, <1>2, <1>5, RevisionFacts DEF RevisionsAssumption
<1>7. \A s \in Requests \ {r} : Copies(s) => 
        /\ requests[s].arg.copy # copy
        /\ pipelines'[requests[s].arg.copy] = None
  BY <1>1, <1>5, RevisionFacts DEF RevisionsInv, CopiesApart
<1>8. QED
  BY <1>1, <1>2, <1>4, <1>6, <1>7, RequestCommits

LEMMA PatchCommitsKeeps ==
  ASSUME RevisionsAssumption, RevisionsInv, NEW r \in Requests, PatchCommits(r)
  PROVE  RevisionsInv'
<1>. DEFINE p == requests[r].pipeline
            arg == requests[r].arg
            new == IF requests[r].kind = "tag" THEN [revisions[p][arg.id] EXCEPT !.tag = r]
                   ELSE [revisions[p][arg.id] EXCEPT !.positions = arg.positions]
            table == [revisions[p] EXCEPT ![arg.id] = new]
<1>1. /\ p \in Pipelines /\ p \in used /\ arg \in [id : Nat, positions : Positions]
      /\ ~Adds(r) /\ UNCHANGED <<pipelines, used, lock>>
  BY DEF PatchCommits, Is, Adds, RevisionsInv, RequestsHaveRead, RevisionTables, Stored
<1>2. CASE arg.id \notin Ids(p)
  BY <1>1, <1>2, RequestAnswers DEF PatchCommits
<1>3. CASE arg.id \in Ids(p)
  <2>1. Answers(r, "ok")
    BY <1>3 DEF PatchCommits
  <2>2. revisions' = [revisions EXCEPT ![p] = table]
    BY <1>1, <1>3 DEF PatchCommits, RevisionsInv, RevisionTables, Stored
  <2>3. new \in Revisions
    <3>1. revisions[p][arg.id] \in Revisions
      BY <1>1, <1>3 DEF RevisionsInv, RevisionTables, Stored
    <3>2. QED
      BY <1>1, <3>1 DEF Revisions
  <2>. HIDE DEF new
  <2>4. DOMAIN table = Ids(p) /\ \A id \in DOMAIN table : table[id] \in Revisions
    BY <1>1, <1>3, <2>3 DEF RevisionsInv, RevisionTables, Stored, Ids
  <2>. HIDE DEF table
  <2>5. Stored'
    <3>1. Stored /\ lock' \in [Pipelines -> Requests \cup {None}]
          /\ pipelines[p] \in Rows \cup {None}
          /\ pipelines' = [pipelines EXCEPT ![p] = pipelines[p]]
      BY <1>1 DEF RevisionsInv, RevisionTables, Stored
    <3>2. \E i \in {0, 1}, j \in Nat : DOMAIN table = i .. j
      BY <1>1, <2>4 DEF RevisionsInv, RevisionTables, Stored, Numbered
    <3>3. pipelines[p] = None => DOMAIN table = {}
      BY <1>1, <2>4 DEF RevisionsInv, RevisionTables, Stored
    <3>4. QED
      BY <1>1, <2>2, <2>4, <3>1, <3>2, <3>3, StoredKeeps
  <2>6. \A s \in Pipelines : NextId(s)' = NextId(s) /\ lock[s] # r
    <3>1. PICK t \in Pipelines : t = p
      BY <1>1
    <3>2. Ids(t)' = Ids(t)
      BY <1>1, <2>2, <2>4, <3>1 DEF RevisionsInv, RevisionTables, Stored, Ids
    <3>3. NextId(t)' = NextId(t)
      BY <3>2 DEF NextId
    <3>4. \A s \in Pipelines \ {t} : NextId(s)' = NextId(s)
      BY <2>2, <3>1, NextIdStays DEF RevisionsInv, RevisionTables
    <3>5. QED
      BY <1>1, <3>3, <3>4, RevisionFacts DEF RevisionsAssumption
  <2>7. \A s \in Pipelines :
           /\ lock'[s] # r
           /\ lock[s] # r => lock'[s] = lock[s]
           /\ lock[s] = r => lock'[s] = None
           /\ lock[s] \notin {None, r} =>
                pipelines'[s] # None /\ NextId(s)' = NextId(s)
    BY <1>1, <2>6, RevisionFacts DEF RevisionsAssumption
  <2>8. \A s \in Requests \ {r} :
           Copies(s) => pipelines'[requests[s].arg.copy] = None
    BY <1>1, RevisionFacts
  <2>9. QED
    BY <1>1, <2>1, <2>5, <2>7, <2>8, RequestCommits
<1>4. QED
  BY <1>2, <1>3

LEMMA RevisionsInit ==
  RevisionsAssumption /\ Init => RevisionsInv
<1>. SUFFICES ASSUME RevisionsAssumption, Init PROVE RevisionsInv
  OBVIOUS
<1>1. PICK p \in Pipelines, d \in Data :
        /\ pipelines =
             [s \in Pipelines |-> IF s = p THEN Pipeline(Owner, d, 0) ELSE None]
        /\ revisions = [s \in Pipelines |->
             IF s = p THEN [i \in {0} |-> Revision(d, NoPositions, None)] ELSE <<>>]
        /\ used = {p}
  BY DEF Init
<1>2. Pipeline(Owner, d, 0) \in Rows
  BY DEF Pipeline, Rows, Users
<1>3. Revision(d, NoPositions, None) \in Revisions
  BY DEF Revision, NoPositions, Revisions, Positions
<1>4. /\ lock = [s \in Pipelines |-> None]
      /\ requests = [r \in Requests |-> Request("new", None, None, None, None)]
  BY DEF Init
<1>5. Request("new", None, None, None, None) \in RevisionRequest
  BY DEF Request, RevisionRequest, Answer
<1>6. \A r \in Requests : requests[r].pc = "new"
  BY <1>4 DEF Request
<1>7. ASSUME NEW s \in Pipelines
      PROVE  /\ Numbered(s) /\ \A id \in Ids(s) : revisions[s][id] \in Revisions
             /\ pipelines[s] = None => Ids(s) = {}
  <2>1. CASE s = p
    <3>1. Ids(s) = 0 .. 0 /\ revisions[s][0] \in Revisions /\ pipelines[s] # None
      BY <1>1, <1>2, <1>3, <2>1 DEF Ids, RevisionsAssumption
    <3>2. QED
      BY <3>1 DEF Numbered
  <2>2. CASE s # p
    <3>1. revisions[s] = <<>>
      BY <1>1, <2>2
    <3>2. Ids(s) = 1 .. 0 /\ Ids(s) = {}
      BY <3>1 DEF Ids
    <3>3. QED
      BY <3>2 DEF Numbered
  <2>3. QED
    BY <2>1, <2>2
<1>8. RevisionTables
  BY <1>1, <1>2, <1>4, <1>5, <1>7 DEF RevisionTables, Stored
<1>9. QED
  BY <1>4, <1>6, <1>8
  DEF RevisionsInv, RowsAreHeld, CopiesApart, RequestsHaveRead, Adds, Copies, Is

LEMMA RevisionsServe ==
  ASSUME RevisionsAssumption, RevisionsInv, NEW r \in Requests, Serves(r)
  PROVE  RevisionsInv'
BY AddLocksKeeps, AddReadsKeeps, AddCommitsKeeps, RenameCommitsKeeps, DeleteCommitsKeeps,
   DuplicateReadsKeeps, DuplicateCommitsKeeps, PatchCommitsKeeps DEF Serves

LEMMA RevisionsRest ==
  ASSUME RevisionsInv,
         UNCHANGED <<pipelines, revisions, used, lock, requests>>
  PROVE  RevisionsInv'
BY DEF RevisionsInv, RevisionTables, Stored, RowsAreHeld, RequestsHaveRead, CopiesApart, Numbered,
       Adds, Copies, Is, Ids, NextId

LEMMA RevisionsNext ==
  ASSUME RevisionsAssumption, RevisionsInv, [Next]_(vars)
  PROVE  RevisionsInv'
<1>1. CASE UNCHANGED vars
  BY <1>1, RevisionsRest DEF vars
<1>2. CASE StartsReading \/ ReadsPage
  BY <1>2, RevisionsRest DEF StartsReading, ReadsPage
<1>3. CASE \E r \in Requests : Starts(r) \/ Serves(r)
  BY <1>3, RevisionsStart, RevisionsServe
<1>4. QED
  BY <1>1, <1>2, <1>3 DEF Next

LEMMA NumbersHaveNoGap ==
  RevisionsInv => NumberedWithoutGap /\ NoneWithoutPipeline
<1>. SUFFICES ASSUME RevisionsInv PROVE NumberedWithoutGap /\ NoneWithoutPipeline
  OBVIOUS
<1>1. ASSUME NEW p \in Pipelines, Ids(p) # {}
      PROVE  /\ Ids(p) = Min(Ids(p)) .. Max(Ids(p))
             /\ Min(Ids(p)) \in {0, 1}
  <2>. DEFINE ids == Ids(p)
  <2>1. PICK start \in {0, 1}, last \in Nat : ids = start .. last
    BY DEF RevisionsInv, RevisionTables, Stored, Numbered
  <2>. HIDE DEF ids
  <2>2. ids # {}
    BY <1>1 DEF ids
  <2>3. /\ last \in ids /\ \A j \in ids : last >= j
        /\ start \in ids /\ \A j \in ids : start =< j
    BY <2>1, <2>2
  <2>4. /\ Max(ids) \in ids /\ \A j \in ids : Max(ids) >= j
        /\ Min(ids) \in ids /\ \A j \in ids : Min(ids) =< j
    BY <2>3 DEF Max, Min
  <2>5. Max(ids) = last /\ Min(ids) = start
    BY <2>1, <2>3, <2>4
  <2>6. QED
    BY <2>1, <2>5 DEF ids
<1>2. NumberedWithoutGap
  BY <1>1 DEF NumberedWithoutGap
<1>3. NoneWithoutPipeline
  BY DEF RevisionsInv, RevisionTables, Stored, NoneWithoutPipeline
<1>4. QED
  BY <1>2, <1>3

(* What a step does to the requests.                                       *)
LEMMA OneRequestMoves ==
  ASSUME RevisionsInv, NEW r \in Requests, Starts(r) \/ Serves(r)
  PROVE  /\ \A s \in Requests \ {r} : requests'[s] = requests[s]
         /\ Starts(r) => requests'[r].pc # "failed"
         /\ Serves(r) => requests'[r].kind = requests[r].kind
<1>1. CASE Starts(r)
  <2>1. requests[r].pc = "new"
    BY <1>1 DEF Starts, Create, StartsAdd, ReadsRevision, Reads
  <2>2. ~Serves(r)
    BY <2>1 DEF Serves, AddLocks, AddReads, AddCommits,
         RenameCommits, DeleteCommits, DuplicateReads,
         DuplicateCommits, PatchCommits, Is
  <2>3. \E q : q.pc # "failed" /\ requests' = [requests EXCEPT ![r] = q]
    <3>1. CASE Create(r)
      BY <3>1 DEF Create, Request
    <3>2. CASE StartsAdd(r)
      BY <3>2 DEF StartsAdd, Request
    <3>3. CASE ReadsRevision(r)
      BY <3>3 DEF ReadsRevision, Request
    <3>4. ASSUME NEW kind, NEW args, Reads(r, kind, args)
          PROVE  \E q : q.pc # "failed" /\ requests' = [requests EXCEPT ![r] = q]
      BY <3>4 DEF Reads, Request
    <3>5. QED
      BY <1>1, <3>1, <3>2, <3>3, <3>4 DEF Starts
  <2>4. QED
    BY <2>2, <2>3 DEF RevisionsInv, RevisionTables
<1>2. CASE Serves(r)
  <2>1. requests[r].pc # "new"
    BY <1>2 DEF Serves, AddLocks, AddReads, AddCommits,
         RenameCommits, DeleteCommits, DuplicateReads,
         DuplicateCommits, PatchCommits, Is
  <2>2. ~Starts(r)
    BY <2>1 DEF Starts, Create, StartsAdd, ReadsRevision, Reads
  <2>3. \E pc, arg : Goes(r, pc, arg)
    BY <1>2 DEF Serves, AddLocks, AddReads, AddCommits,
         RenameCommits, DeleteCommits, DuplicateReads,
         DuplicateCommits, PatchCommits, Answers
  <2>4. PICK pc, arg : requests' = [requests EXCEPT ![r].pc = pc, ![r].arg = arg]
    BY <2>3 DEF Goes
  <2>5. requests[r] \in RevisionRequest
    BY DEF RevisionsInv, RevisionTables
  <2>6. requests' = [requests EXCEPT ![r] = [requests[r] EXCEPT !.pc = pc, !.arg = arg]]
    BY <2>4 DEF RevisionsInv, RevisionTables
  <2>7. [requests[r] EXCEPT !.pc = pc, !.arg = arg].kind = requests[r].kind
    BY <2>5 DEF RevisionRequest
  <2>8. QED
    BY <2>2, <2>6, <2>7 DEF RevisionsInv, RevisionTables
<1>3. QED
  BY <1>1, <1>2

LEMMA AddsSucceed ==
  ASSUME RevisionsAssumption, RevisionsInv, NoAddFails, [Next]_(vars)
  PROVE  NoAddFails'
<1>1. CASE UNCHANGED requests
  BY <1>1 DEF NoAddFails, Is
<1>2. ASSUME NEW r \in Requests, Starts(r) \/ Serves(r)
      PROVE  NoAddFails'
  <2>1. ~Is(r, "failed", "add")'
    <3>1. CASE Starts(r)
      BY <1>2, <3>1, OneRequestMoves DEF Is
    <3>2. CASE Serves(r) /\ requests[r].kind # "add"
      BY <1>2, <3>2, OneRequestMoves DEF Is
    <3>3. CASE Serves(r) /\ requests[r].kind = "add"
      <4>1. CASE AddLocks(r)
        <5>1. requests[r] \in RevisionRequest
          BY DEF RevisionsInv, RevisionTables
        <5>2. \E pc \in {"locked", "missing"} : \E arg \in Answer : Goes(r, pc, arg)
          BY <4>1, <5>1 DEF AddLocks, Answers, Answer, RevisionRequest
        <5>3. requests'[r].pc \in {"locked", "missing"}
          BY <5>2, RevisionGoes
        <5>4. QED
          BY <5>3 DEF Is
      <4>2. CASE AddReads(r)
        <5>1. requests'[r].pc = "read"
          BY <4>2 DEF AddReads, Goes, RevisionsInv, RevisionTables, RevisionRequest
        <5>2. QED
          BY <5>1 DEF Is
      <4>3. CASE AddCommits(r)
        BY <4>3, AddCommitsKeeps DEF Is
      <4>4. QED
        BY <3>3, <4>1, <4>2, <4>3 DEF Serves, RenameCommits, DeleteCommits,
             DuplicateReads, DuplicateCommits, PatchCommits, Is
    <3>4. QED
      BY <1>2, <3>1, <3>2, <3>3
  <2>2. \A s \in Requests \ {r} : ~Is(s, "failed", "add")'
    BY <1>2, OneRequestMoves DEF NoAddFails, Is
  <2>3. QED
    BY <2>1, <2>2 DEF NoAddFails
<1>3. QED
  BY <1>1, <1>2 DEF Next, vars, StartsReading, ReadsPage

(* As long as no pipeline is deleted, its data, and what a request that    *)
(* duplicates it has read, are those of a revision that is there.          *)
RowAgrees(row, p) == row.current \in Ids(p) /\ row.data = revisions[p][row.current].data
Duplicates(r) == Is(r, "read", "duplicate") \/ Copies(r)
RowsAgree ==
  /\ \A p \in Pipelines : pipelines[p] # None => RowAgrees(pipelines[p], p)
  /\ \A r \in Requests :
       Duplicates(r) => RowAgrees(requests[r].arg.row, requests[r].pipeline)

(* A step adds revisions and keeps the data of those that are there.       *)
Grows ==
  \A p \in Pipelines : \A id \in Ids(p) :
    id \in Ids(p)' /\ revisions'[p][id].data = revisions[p][id].data

LEMMA GrownAgree ==
  ASSUME NEW p \in Pipelines, NEW row, RowAgrees(row, p), Grows
  PROVE  row.current \in Ids(p)' /\ row.data = revisions'[p][row.current].data
BY DEF RowAgrees, Grows

LEMMA CreatesGrow ==
  ASSUME RevisionsInv, RowsAgree, NEW r \in Requests, Create(r)
  PROVE  Grows /\ KeepsRevisions
         /\ \A p \in Pipelines : pipelines'[p] # None =>
              pipelines'[p].current \in Ids(p)'
              /\ pipelines'[p].data = revisions'[p][pipelines'[p].current].data
<1>1. PICK p \in Pipelines \ used, u \in Users, d \in Data :
        /\ pipelines' = [pipelines EXCEPT ![p] = Pipeline(u, d, 0)]
        /\ revisions' = [revisions EXCEPT ![p] =
             [i \in {0} |-> Revision(d, NoPositions, None)]]
  BY DEF Create
<1>2. pipelines[p] = None /\ Ids(p) = {}
  BY DEF RevisionsInv, RevisionTables, Stored
<1>3. /\ pipelines'[p] = Pipeline(u, d, 0)
      /\ revisions'[p] = [i \in {0} |-> Revision(d, NoPositions, None)]
      /\ \A s \in Pipelines \ {p} :
           revisions'[s] = revisions[s] /\ pipelines'[s] = pipelines[s]
  BY <1>1 DEF RevisionsInv, RevisionTables, Stored
<1>4. /\ pipelines'[p].current = 0 /\ Ids(p)' = {0} /\ revisions'[p][0].data = d
      /\ pipelines'[p].data = d
  BY <1>3 DEF Pipeline, Revision, Ids
<1>5. \A s \in Pipelines \ {p} : Ids(s)' = Ids(s)
  BY <1>3 DEF Ids
<1>6. \A s \in Pipelines : pipelines[s] # None => pipelines[s].current \in Nat
  BY DEF RevisionsInv, RevisionTables, Stored, Rows
<1>7. Grows
  BY <1>2, <1>3, <1>5 DEF Grows
<1>8. QED
  BY <1>2, <1>3, <1>4, <1>5, <1>6, <1>7 DEF Grows, RowsAgree, RowAgrees, KeepsRevisions

LEMMA AddsGrow ==
  ASSUME RevisionsAssumption, RevisionsInv, RowsAgree, NEW r \in Requests, AddCommits(r)
  PROVE  Grows /\ KeepsRevisions
         /\ \A p \in Pipelines : pipelines'[p] # None =>
              pipelines'[p].current \in Ids(p)'
              /\ pipelines'[p].data = revisions'[p][pipelines'[p].current].data
<1>1. PICK p \in Pipelines, new \in [id : Nat, revision : Revisions] :
        /\ p = requests[r].pipeline /\ new = requests[r].arg
        /\ pipelines[p] # None
        /\ new.id = NextId(p)
  BY DEF AddCommits, Adds, Is, RevisionsInv, RequestsHaveRead, RevisionTables, Stored, RowsAreHeld,
         RevisionsAssumption
<1>2. PICK start \in {0, 1}, last \in Nat :
        Ids(p) = start .. last /\ NextId(p) = last + 1
  BY <1>1, NextIdIsNew DEF RevisionsInv, RevisionTables, Stored
<1>3. new.id \notin Ids(p) /\ \A id \in Ids(p) : new.id >= id
  BY <1>1, <1>2
<1>4. /\ revisions' = [revisions EXCEPT ![p] = Added(p, new)]
      /\ pipelines' = [pipelines EXCEPT ![p].data = new.revision.data, ![p].current = new.id]
  BY <1>1, <1>3 DEF AddCommits
<1>5. /\ pipelines'[p] = [pipelines[p] EXCEPT !.data = new.revision.data, !.current = new.id]
      /\ revisions'[p] = Added(p, new)
      /\ \A s \in Pipelines \ {p} :
           revisions'[s] = revisions[s] /\ pipelines'[s] = pipelines[s]
  BY <1>1, <1>4 DEF RevisionsInv, RevisionTables, Stored
<1>6. pipelines[p] \in Rows
  BY <1>1 DEF RevisionsInv, RevisionTables, Stored
<1>7. pipelines'[p].current = new.id /\ pipelines'[p].data = new.revision.data
  BY <1>5, <1>6 DEF Rows
<1>8. /\ Ids(p)' = Ids(p) \cup {new.id} /\ revisions'[p][new.id] = new.revision
      /\ \A id \in Ids(p) : revisions'[p][id] = revisions[p][id]
  BY <1>3, <1>5 DEF Added, Ids
<1>9. \A s \in Pipelines \ {p} : Ids(s)' = Ids(s)
  BY <1>5 DEF Ids
<1>10. \A s \in Pipelines : pipelines[s] # None => pipelines[s].current \in Nat
  BY DEF RevisionsInv, RevisionTables, Stored, Rows
<1>11. Grows
  BY <1>5, <1>8, <1>9 DEF Grows
<1>12. pipelines'[p].current >= pipelines[p].current
  BY <1>1, <1>3, <1>7 DEF RowsAgree, RowAgrees
<1>13. KeepsRevisions
  <2>1. ASSUME NEW s \in Pipelines, pipelines[s] # None
        PROVE  pipelines'[s].current >= pipelines[s].current
    <3>1. CASE s = p
      BY <1>12, <3>1
    <3>2. CASE s # p
      <4>1. pipelines'[s].current = pipelines[s].current
        BY <1>5, <3>2
      <4>2. pipelines[s].current \in Nat
        BY <1>10, <2>1
      <4>3. QED
        BY <4>1, <4>2
    <3>3. QED
      BY <3>1, <3>2
  <2>2. QED
    BY <1>11, <2>1 DEF Grows, KeepsRevisions
<1>14. ASSUME NEW s \in Pipelines, pipelines'[s] # None
      PROVE  /\ pipelines'[s].current \in Ids(s)'
             /\ pipelines'[s].data = revisions'[s][pipelines'[s].current].data
  <2>1. CASE s = p
    BY <1>7, <1>8, <2>1 DEF RowAgrees
  <2>2. CASE s # p
    BY <1>5, <1>9, <1>14, <2>2 DEF RowsAgree, RowAgrees
  <2>3. QED
    BY <2>1, <2>2
<1>15. QED
  BY <1>11, <1>13, <1>14

LEMMA RenamesGrow ==
  ASSUME RevisionsInv, RowsAgree, NEW r \in Requests, RenameCommits(r)
  PROVE  Grows /\ KeepsRevisions
         /\ \A p \in Pipelines : pipelines'[p] # None =>
              pipelines'[p].current \in Ids(p)'
              /\ pipelines'[p].data = revisions'[p][pipelines'[p].current].data
<1>1. revisions' = revisions
  BY DEF RenameCommits
<1>2. \A s \in Pipelines : Ids(s)' = Ids(s)
  BY <1>1 DEF Ids
<1>3. Grows
  BY <1>1, <1>2 DEF Grows
<1>4. \A s \in Pipelines : pipelines'[s] # None =>
        /\ pipelines[s] # None /\ pipelines'[s].current = pipelines[s].current
        /\ pipelines'[s].data = pipelines[s].data
  <2>1. PICK p \in Pipelines : p = requests[r].pipeline
    BY DEF RenameCommits, Is, RevisionsInv, RequestsHaveRead, RevisionTables, Stored
  <2>2. CASE pipelines[p] = None
    BY <2>1, <2>2 DEF RenameCommits
  <2>3. CASE pipelines[p] # None
    <3>1. /\ pipelines'[p] = [pipelines[p] EXCEPT !.name = requests[r].arg.name]
          /\ \A s \in Pipelines \ {p} : pipelines'[s] = pipelines[s]
      BY <2>1, <2>3 DEF RenameCommits, RevisionsInv, RevisionTables, Stored
    <3>2. pipelines[p] \in Rows
      BY <2>3 DEF RevisionsInv, RevisionTables, Stored
    <3>3. QED
      BY <2>3, <3>1, <3>2 DEF Rows
  <2>4. QED
    BY <2>2, <2>3
<1>5. \A s \in Pipelines : pipelines[s] # None => pipelines[s].current \in Nat
  BY DEF RevisionsInv, RevisionTables, Stored, Rows
<1>6. QED
  BY <1>1, <1>2, <1>3, <1>4, <1>5 DEF RowsAgree, RowAgrees, KeepsRevisions

LEMMA DuplicatesGrow ==
  ASSUME RevisionsInv, RowsAgree, NEW r \in Requests, DuplicateCommits(r)
  PROVE  Grows /\ KeepsRevisions
         /\ \A p \in Pipelines : pipelines'[p] # None =>
              pipelines'[p].current \in Ids(p)'
              /\ pipelines'[p].data = revisions'[p][pipelines'[p].current].data
<1>1. PICK copy \in Pipelines, source \in Pipelines, row \in Rows :
        /\ copy = requests[r].arg.copy /\ source = requests[r].pipeline
        /\ row = requests[r].arg.row
        /\ pipelines[copy] = None /\ Copies(r)
  BY DEF DuplicateCommits, Is, Copies, RevisionsInv, RequestsHaveRead, RevisionTables, Stored
<1>2. /\ pipelines'[copy] =
           [Pipeline(requests[r].user, row.data, row.current) EXCEPT !.name = row.name]
      /\ revisions'[copy] = revisions[source]
      /\ \A s \in Pipelines \ {copy} :
           revisions'[s] = revisions[s] /\ pipelines'[s] = pipelines[s]
  BY <1>1 DEF DuplicateCommits, RevisionsInv, RevisionTables, Stored
<1>3. pipelines'[copy].data = row.data /\ pipelines'[copy].current = row.current
  BY <1>2 DEF Pipeline
<1>4. RowAgrees(row, source)
  BY <1>1 DEF RowsAgree, Duplicates
<1>5. Ids(copy) = {} /\ Ids(copy)' = Ids(source)
  BY <1>1, <1>2 DEF RevisionsInv, RevisionTables, Stored, Ids
<1>6. \A s \in Pipelines \ {copy} : Ids(s)' = Ids(s)
  BY <1>2 DEF Ids
<1>7. Grows
  BY <1>2, <1>5, <1>6 DEF Grows
<1>8. \A s \in Pipelines : pipelines[s] # None => pipelines[s].current \in Nat
  BY DEF RevisionsInv, RevisionTables, Stored, Rows
<1>9. KeepsRevisions
  BY <1>1, <1>2, <1>7, <1>8 DEF Grows, KeepsRevisions
<1>10. ASSUME NEW s \in Pipelines, pipelines'[s] # None
      PROVE  /\ pipelines'[s].current \in Ids(s)'
             /\ pipelines'[s].data = revisions'[s][pipelines'[s].current].data
  <2>1. CASE s = copy
    BY <1>2, <1>3, <1>4, <1>5, <2>1 DEF RowAgrees
  <2>2. CASE s # copy
    BY <1>2, <1>6, <1>10, <2>2 DEF RowsAgree, RowAgrees
  <2>3. QED
    BY <2>1, <2>2
<1>11. QED
  BY <1>7, <1>9, <1>10

LEMMA PatchesGrow ==
  ASSUME RevisionsInv, RowsAgree, NEW r \in Requests, PatchCommits(r)
  PROVE  Grows /\ UNCHANGED pipelines
<1>1. PICK p \in Pipelines, arg \in [id : Nat, positions : Positions] :
        /\ p = requests[r].pipeline /\ arg = requests[r].arg
        /\ UNCHANGED pipelines
  BY DEF PatchCommits, Is, Adds, RevisionsInv, RequestsHaveRead, RevisionTables, Stored
<1>2. CASE arg.id \notin Ids(p)
  BY <1>1, <1>2 DEF PatchCommits, Grows, Ids
<1>3. CASE arg.id \in Ids(p)
  <2>. DEFINE new == IF requests[r].kind = "tag" THEN [revisions[p][arg.id] EXCEPT !.tag = r]
                     ELSE [revisions[p][arg.id] EXCEPT !.positions = arg.positions]
  <2>1. /\ revisions'[p] = [revisions[p] EXCEPT ![arg.id] = new]
        /\ \A s \in Pipelines \ {p} : revisions'[s] = revisions[s]
    BY <1>1, <1>3 DEF PatchCommits, RevisionsInv, RevisionTables, Stored
  <2>2. revisions[p][arg.id] \in Revisions
    BY <1>3 DEF RevisionsInv, RevisionTables, Stored
  <2>3. new.data = revisions[p][arg.id].data
    BY <2>2 DEF Revisions
  <2>. HIDE DEF new
  <2>4. /\ Ids(p)' = Ids(p)
        /\ \A id \in Ids(p) : revisions'[p][id].data = revisions[p][id].data
    BY <1>3, <2>1, <2>3 DEF Ids
  <2>5. \A s \in Pipelines \ {p} : Ids(s)' = Ids(s)
    BY <2>1 DEF Ids
  <2>6. QED
    BY <1>1, <2>1, <2>4, <2>5 DEF Grows
<1>4. QED
  BY <1>1, <1>2, <1>3

LEMMA StillAgree ==
  ASSUME RevisionsInv, RowsAgree, Grows, NEW r \in Requests,
         \A s \in Requests \ {r} : requests'[s] = requests[s],
         \A p \in Pipelines : pipelines'[p] # None =>
           pipelines'[p].current \in Ids(p)'
           /\ pipelines'[p].data = revisions'[p][pipelines'[p].current].data,
         ~Duplicates(r)'
  PROVE  RowsAgree'
<1>1. ASSUME NEW s \in Requests, Duplicates(s)'
      PROVE  RowAgrees(requests[s].arg.row, requests[s].pipeline)'
  <2>1. s # r /\ requests'[s] = requests[s]
    BY <1>1
  <2>2. Duplicates(s)
    BY <1>1, <2>1 DEF Duplicates, Copies, Is
  <2>3. PICK p \in Pipelines : p = requests[s].pipeline
    BY <2>2 DEF Duplicates, Copies, Is, RevisionsInv, RequestsHaveRead, RevisionTables, Stored
  <2>. DEFINE row == requests[s].arg.row
  <2>4. row.current \in Ids(p)' /\ row.data = revisions'[p][row.current].data
    <3>1. RowAgrees(row, p)
      BY <2>2, <2>3 DEF RowsAgree
    <3>. HIDE DEF row
    <3>2. QED
      BY <3>1, GrownAgree
  <2>5. QED
    BY <2>1, <2>3, <2>4 DEF RowAgrees, Ids
<1>2. \A p \in Pipelines : pipelines'[p] # None => RowAgrees(pipelines[p], p)'
  BY DEF RowAgrees
<1>3. QED
  BY <1>1, <1>2 DEF RowsAgree

LEMMA NothingStored ==
  ASSUME RevisionsInv, RowsAgree, UNCHANGED <<pipelines, revisions>>
  PROVE  Grows /\ KeepsRevisions
         /\ \A p \in Pipelines : pipelines'[p] # None =>
              pipelines'[p].current \in Ids(p)'
              /\ pipelines'[p].data = revisions'[p][pipelines'[p].current].data
<1>1. \A s \in Pipelines : pipelines[s] # None => pipelines[s].current \in Nat
  BY DEF RevisionsInv, RevisionTables, Stored, Rows
<1>2. QED
  BY <1>1 DEF Grows, KeepsRevisions, RowsAgree, RowAgrees, Ids

LEMMA ReadsAgree ==
  ASSUME RevisionsInv, RowsAgree, NEW r \in Requests, NEW kind, NEW args,
         Reads(r, kind, args)
  PROVE  RowsAgree'
<1>1. PICK p \in used, u \in Users, arg \in args :
          requests' = [requests EXCEPT ![r] =
            Request(IF PresentAndAuthorized(p, u) THEN "read" ELSE "missing", kind, p, u,
              IF PresentAndAuthorized(p, u) THEN [name |-> arg, row |-> pipelines[p]] ELSE None)]
  BY DEF Reads
<1>2. UNCHANGED <<pipelines, revisions>> /\ p \in Pipelines
  BY DEF Reads, RevisionsInv, RevisionTables, Stored
<1>3. /\ Grows
      /\ \A q \in Pipelines : pipelines'[q] # None =>
              pipelines'[q].current \in Ids(q)'
              /\ pipelines'[q].data = revisions'[q][pipelines'[q].current].data
  BY <1>2, NothingStored
<1>4. /\ requests'[r] =
           Request(IF PresentAndAuthorized(p, u) THEN "read" ELSE "missing", kind, p, u,
              IF PresentAndAuthorized(p, u) THEN [name |-> arg, row |-> pipelines[p]] ELSE None)
      /\ \A s \in Requests \ {r} : requests'[s] = requests[s]
  BY <1>1 DEF RevisionsInv, RevisionTables
<1>5. CASE ~PresentAndAuthorized(p, u)
  <2>1. requests'[r].pc = "missing"
    BY <1>4, <1>5 DEF Request
  <2>2. ~Duplicates(r)'
    BY <2>1 DEF Duplicates, Copies, Is
  <2>3. QED
    BY <1>3, <1>4, <2>2, StillAgree
<1>6. CASE PresentAndAuthorized(p, u)
  <2>1. requests'[r].pipeline = p /\ requests'[r].arg.row = pipelines[p]
    BY <1>4, <1>6 DEF Request
  <2>2. pipelines[p] # None
    BY <1>6 DEF PresentAndAuthorized
  <2>3. RowAgrees(pipelines[p], p)
    BY <1>2, <2>2 DEF RowsAgree
  <2>4. RowAgrees(requests[r].arg.row, requests[r].pipeline)'
    BY <1>2, <2>1, <2>3 DEF RowAgrees, Ids
  <2>5. ASSUME NEW s \in Requests \ {r}, Duplicates(s)'
        PROVE  RowAgrees(requests[s].arg.row, requests[s].pipeline)'
    <3>1. Duplicates(s) /\ requests'[s] = requests[s]
      BY <1>4, <2>5 DEF Duplicates, Copies, Is
    <3>2. QED
      BY <1>2, <3>1 DEF RowsAgree, RowAgrees, Ids
  <2>6. QED
    BY <1>3, <2>4, <2>5 DEF RowsAgree, RowAgrees
<1>7. QED
  BY <1>5, <1>6

LEMMA DuplicateReadsAgree ==
  ASSUME RevisionsInv, RowsAgree, NEW r \in Requests, DuplicateReads(r)
  PROVE  RowsAgree'
<1>1. PICK p \in Pipelines \ used :
        Goes(r, "flushed", [copy |-> p, row |-> requests[r].arg.row])
  BY DEF DuplicateReads
<1>2. UNCHANGED <<pipelines, revisions>> /\ Duplicates(r)
  BY DEF DuplicateReads, Duplicates
<1>3. requests[r] \in RevisionRequest
  BY DEF RevisionsInv, RevisionTables
<1>4. /\ requests'[r].pipeline = requests[r].pipeline
      /\ requests'[r].arg.row = requests[r].arg.row
      /\ \A s \in Requests \ {r} : requests'[s] = requests[s]
  BY <1>1, <1>3 DEF Goes, RevisionsInv, RevisionTables, RevisionRequest
<1>5. \A s \in Requests : Duplicates(s)' =>
        RowAgrees(requests[s].arg.row, requests[s].pipeline)'
  <2>1. ASSUME NEW s \in Requests, Duplicates(s)'
        PROVE  RowAgrees(requests[s].arg.row, requests[s].pipeline)'
    <3>1. /\ requests'[s].pipeline = requests[s].pipeline
          /\ requests'[s].arg.row = requests[s].arg.row
      BY <1>4
    <3>2. Duplicates(s)
      BY <1>2, <1>4, <2>1 DEF Duplicates, Copies, Is
    <3>3. RowAgrees(requests[s].arg.row, requests[s].pipeline)
      BY <3>2 DEF RowsAgree
    <3>4. QED
      BY <1>2, <3>1, <3>3 DEF RowAgrees, Ids
  <2>2. QED
    BY <2>1
<1>6. QED
  BY <1>2, <1>5 DEF RowsAgree, RowAgrees, Ids

LEMMA RowsAgreeNext ==
  ASSUME RevisionsAssumption, "delete" \notin Kinds, RevisionsInv, RowsAgree,
         [Next]_(vars)
  PROVE  RowsAgree' /\ KeepsRevisions
<1>1. CASE UNCHANGED <<pipelines, revisions, requests>>
  BY <1>1, NothingStored DEF RowsAgree, RowAgrees, Duplicates, Copies, Is, Ids
<1>2. ASSUME NEW r \in Requests, Starts(r) \/ Serves(r)
      PROVE  RowsAgree' /\ KeepsRevisions
  <2>1. \A s \in Requests \ {r} : requests'[s] = requests[s]
    BY <1>2, OneRequestMoves
  <2>2. ASSUME NEW pc \in {"locked", "read", "flushed", "ok", "missing", "failed"}, NEW arg,
               Goes(r, pc, arg)
        PROVE  requests'[r].pc = pc /\ requests'[r].kind = requests[r].kind
    BY <2>2 DEF Goes, RevisionsInv, RevisionTables, RevisionRequest
  <2>3. \A result \in {"ok", "missing", "failed"} : Answers(r, result) => ~Duplicates(r)'
    BY <2>2 DEF Answers, Duplicates, Copies, Is
  <2>4. CASE Create(r)
    <3>1. ~Duplicates(r)'
      <4>1. requests'[r].pc = "ok"
        BY <2>4 DEF Create, Request, RevisionsInv, RevisionTables
      <4>2. QED
        BY <4>1 DEF Duplicates, Copies, Is
    <3>2. QED
      BY <2>1, <2>4, <3>1, CreatesGrow, StillAgree
  <2>5. CASE StartsAdd(r)
    <3>1. ~Duplicates(r)' /\ UNCHANGED <<pipelines, revisions>>
      <4>1. requests'[r].pc = "asked"
        BY <2>5 DEF StartsAdd, Request, RevisionsInv, RevisionTables
      <4>2. QED
        BY <2>5, <4>1 DEF Duplicates, Copies, Is, StartsAdd
    <3>2. QED
      BY <2>1, <3>1, NothingStored, StillAgree
  <2>6. CASE ReadsRevision(r)
    <3>1. ~Duplicates(r)' /\ UNCHANGED <<pipelines, revisions>>
      <4>1. requests'[r].pc \in {"read", "missing"} /\ requests'[r].kind \in {"tag", "move"}
        BY <2>6 DEF ReadsRevision, Request, RevisionsInv, RevisionTables
      <4>2. QED
        BY <2>6, <4>1 DEF Duplicates, Copies, Is, ReadsRevision
    <3>2. QED
      BY <2>1, <3>1, NothingStored, StillAgree
  <2>7. ASSUME NEW kind, NEW args, Reads(r, kind, args)
        PROVE  RowsAgree' /\ KeepsRevisions
    <3>1. UNCHANGED <<pipelines, revisions>>
      BY <2>7 DEF Reads
    <3>2. KeepsRevisions
      BY <3>1, NothingStored
    <3>3. QED
      BY <2>7, <3>2, ReadsAgree
  <2>8. CASE AddLocks(r)
    <3>1. ~Duplicates(r)' /\ UNCHANGED <<pipelines, revisions>>
      BY <2>2, <2>3, <2>8 DEF AddLocks, Duplicates, Copies, Is
    <3>2. QED
      BY <2>1, <3>1, NothingStored, StillAgree
  <2>9. CASE AddReads(r)
    <3>1. ~Duplicates(r)' /\ UNCHANGED <<pipelines, revisions>>
      <4>1. requests'[r].kind = "add"
        BY <2>2, <2>9 DEF AddReads, Is
      <4>2. QED
        BY <2>9, <4>1 DEF AddReads, Duplicates, Copies, Is
    <3>2. QED
      BY <2>1, <3>1, NothingStored, StillAgree
  <2>10. CASE AddCommits(r)
    <3>1. ~Duplicates(r)'
      BY <2>3, <2>10 DEF AddCommits
    <3>2. QED
      BY <2>1, <2>10, <3>1, AddsGrow, StillAgree
  <2>11. CASE RenameCommits(r)
    <3>1. ~Duplicates(r)'
      BY <2>3, <2>11 DEF RenameCommits
    <3>2. QED
      BY <2>1, <2>11, <3>1, RenamesGrow, StillAgree
  <2>12. CASE DuplicateReads(r)
    BY <2>12, DuplicateReadsAgree, NothingStored DEF DuplicateReads
  <2>13. CASE DuplicateCommits(r)
    <3>1. ~Duplicates(r)'
      BY <2>3, <2>13 DEF DuplicateCommits
    <3>2. QED
      BY <2>1, <2>13, <3>1, DuplicatesGrow, StillAgree
  <2>14. CASE PatchCommits(r)
    <3>1. ~Duplicates(r)'
      BY <2>3, <2>14 DEF PatchCommits
    <3>2. Grows /\ UNCHANGED pipelines
      BY <2>14, PatchesGrow
    <3>3. \A p \in Pipelines : pipelines[p] # None => pipelines[p].current \in Nat
      BY DEF RevisionsInv, RevisionTables, Stored, Rows
    <3>4. \A p \in Pipelines : pipelines'[p] # None =>
              pipelines'[p].current \in Ids(p)'
              /\ pipelines'[p].data = revisions'[p][pipelines'[p].current].data
      BY <3>2, GrownAgree DEF RowsAgree
    <3>5. KeepsRevisions
      BY <3>2, <3>3 DEF KeepsRevisions, Grows
    <3>6. QED
      BY <2>1, <3>1, <3>2, <3>4, <3>5, StillAgree
  <2>15. ~DeleteCommits(r)
    BY DEF DeleteCommits, Is, RevisionsInv, RequestsHaveRead
  <2>16. QED
    BY <1>2, <2>4, <2>5, <2>6, <2>7, <2>8, <2>9, <2>10, <2>11, <2>12, <2>13, <2>14, <2>15
    DEF Starts, Serves
<1>3. QED
  BY <1>1, <1>2 DEF Next, vars, StartsReading, ReadsPage

(* Whoever lists the revisions of a pipeline that is there.                *)
LEMMA TableStays ==
  ASSUME RevisionsAssumption, RevisionsInv, [Next]_(vars),
         NEW p \in used, pipelines'[p] # None,
         \A r \in Requests : Copies(r) => requests[r].arg.copy # p
  PROVE  pipelines[p] # None /\ Ids(p) \subseteq Ids(p)'
<1>1. p \in Pipelines
  BY DEF RevisionsInv, RevisionTables, Stored
<1>2. CASE pipelines'[p] = pipelines[p] /\ revisions'[p] = revisions[p]
  BY <1>2 DEF Ids
<1>3. ASSUME NEW r \in Requests, Starts(r) \/ Serves(r)
      PROVE  pipelines[p] # None /\ Ids(p) \subseteq Ids(p)'
  <2>1. CASE Create(r)
    BY <1>1, <1>2, <2>1 DEF Create, RevisionsInv, RevisionTables, Stored
  <2>2. CASE AddCommits(r)
    <3>1. PICK q \in Pipelines, new \in [id : Nat, revision : Revisions] :
            /\ q = requests[r].pipeline /\ new = requests[r].arg
            /\ pipelines[q] # None
      BY <2>2 DEF AddCommits, Adds, Is, RevisionsInv, RequestsHaveRead, RevisionTables,
         Stored, RowsAreHeld, RevisionsAssumption
    <3>2. revisions' = revisions \/ revisions' = [revisions EXCEPT ![q] = Added(q, new)]
      BY <2>2, <3>1 DEF AddCommits
    <3>3. \A s \in Pipelines \ {q} : pipelines'[s] = pipelines[s]
      BY <2>2, <3>1 DEF AddCommits, RevisionsInv, RevisionTables, Stored
    <3>4. Ids(p) \subseteq DOMAIN revisions'[p]
      BY <1>1, <3>2 DEF RevisionsInv, RevisionTables, Stored, Added, Ids
    <3>5. QED
      BY <1>1, <3>1, <3>3, <3>4 DEF Ids
  <2>3. CASE RenameCommits(r)
    BY <1>1, <2>3 DEF RenameCommits, RevisionsInv, RevisionTables, Stored, Ids, Is,
       RequestsHaveRead
  <2>4. CASE DeleteCommits(r)
    BY <1>1, <1>2, <2>4 DEF DeleteCommits, RevisionsInv, RevisionTables, Stored
  <2>5. CASE DuplicateCommits(r)
    BY <1>1, <1>2, <2>5 DEF DuplicateCommits, Copies, RevisionsInv, RevisionTables, Stored
  <2>6. CASE PatchCommits(r)
    BY <1>1, <2>6 DEF PatchCommits, RevisionsInv, RevisionTables, Stored, Ids
  <2>7. QED
    BY <1>2, <1>3, <2>1, <2>2, <2>3, <2>4, <2>5, <2>6
    DEF Starts, Serves, StartsAdd, ReadsRevision, Reads,
        AddLocks, AddReads, DuplicateReads
<1>4. QED
  BY <1>2, <1>3 DEF Next, vars, StartsReading, ReadsPage

LEMMA NewerAre ==
  ASSUME NEW start \in {0, 1}, NEW last \in Nat, NEW id \in start .. last
  PROVE  Cardinality({i \in start .. last : i > id}) = last - id
<1>1. {i \in start .. last : i > id} = (id + 1) .. last
  OBVIOUS
<1>2. id + 1 \in Int /\ last \in Int /\ id \in Int /\ id <= last
  OBVIOUS
<1>3. Cardinality((id + 1) .. last) = IF id + 1 > last THEN 0 ELSE last - (id + 1) + 1
  BY <1>2, FS_Interval
<1>4. Cardinality((id + 1) .. last) = last - id
  BY <1>2, <1>3
<1>5. QED
  BY <1>1, <1>4

PagesInv ==
  reader # None =>
    /\ reader \in [pipeline : used, offset : Nat, seen : SUBSET Nat, there : SUBSET Nat,
                   done : BOOLEAN]
    /\ \A r \in Requests : Copies(r) => requests[r].arg.copy # reader.pipeline
    /\ pipelines[reader.pipeline] # None =>
         /\ reader.there \subseteq Ids(reader.pipeline)
         /\ \A id \in reader.there \ reader.seen :
              ~reader.done /\ Cardinality(Newer(reader.pipeline, id)) >= reader.offset

LEMMA CopiesAreNew ==
  ASSUME RevisionsInv, [Next]_(vars), NEW r \in Requests, Copies(r)'
  PROVE  \/ Copies(r) /\ requests'[r].arg.copy = requests[r].arg.copy
         \/ requests'[r].arg.copy \notin used
<1>1. CASE requests'[r] = requests[r]
  BY <1>1 DEF Copies, Is
<1>2. CASE Starts(r)
  <2>1. requests'[r].pc # "flushed"
    <3>1. \E q : q.pc # "flushed" /\ requests' = [requests EXCEPT ![r] = q]
      <4>1. CASE Create(r)
        BY <4>1 DEF Create, Request
      <4>2. CASE StartsAdd(r)
        BY <4>2 DEF StartsAdd, Request
      <4>3. CASE ReadsRevision(r)
        BY <4>3 DEF ReadsRevision, Request
      <4>4. ASSUME NEW kind, NEW args, Reads(r, kind, args)
            PROVE  \E q : q.pc # "flushed" /\ requests' = [requests EXCEPT ![r] = q]
        BY <4>4 DEF Reads, Request
      <4>5. QED
        BY <1>2, <4>1, <4>2, <4>3, <4>4 DEF Starts
    <3>2. QED
      BY <3>1 DEF RevisionsInv, RevisionTables
  <2>2. QED
    BY <2>1 DEF Copies, Is
<1>3. CASE Serves(r)
  <2>1. CASE DuplicateReads(r)
    <3>1. PICK p \in Pipelines \ used :
            Goes(r, "flushed", [copy |-> p, row |-> requests[r].arg.row])
      BY <2>1 DEF DuplicateReads
    <3>2. requests[r] \in RevisionRequest
      BY DEF RevisionsInv, RevisionTables
    <3>3. requests'[r].arg = [copy |-> p, row |-> requests[r].arg.row]
      BY <3>1, <3>2 DEF Goes, RevisionsInv, RevisionTables, RevisionRequest
    <3>4. QED
      BY <3>3
  <2>2. ASSUME NEW pc \in {"locked", "read", "ok", "missing", "failed"}, NEW arg, Goes(r, pc, arg)
        PROVE  ~Copies(r)'
    <3>1. requests[r] \in RevisionRequest
      BY DEF RevisionsInv, RevisionTables
    <3>2. requests'[r].pc = pc
      BY <2>2, <3>1 DEF Goes, RevisionsInv, RevisionTables, RevisionRequest
    <3>3. QED
      BY <3>2 DEF Copies, Is
  <2>3. QED
    BY <1>3, <2>1, <2>2 DEF Serves, AddLocks, AddReads, AddCommits,
       RenameCommits, DeleteCommits, DuplicateCommits, PatchCommits,
       Answers
<1>4. CASE \E s \in Requests \ {r} : Starts(s) \/ Serves(s)
  <2>1. requests'[r] = requests[r]
    BY <1>4, OneRequestMoves
  <2>2. QED
    BY <1>1, <2>1
<1>5. QED
  BY <1>1, <1>2, <1>3, <1>4 DEF Next, vars, StartsReading, ReadsPage

LEMMA ReaderRests ==
  ASSUME RevisionsAssumption, RevisionsInv, RevisionsInv', PagesInv,
         [Next]_(vars), UNCHANGED reader
  PROVE  PagesInv'
<1>. SUFFICES ASSUME reader # None
              PROVE  PagesInv'
  BY DEF PagesInv
<1>. DEFINE p == reader.pipeline
<1>1. p \in used /\ p \in Pipelines
  BY DEF PagesInv, RevisionsInv, RevisionTables, Stored
<1>2. used \subseteq used'
  BY DEF Next, vars, StartsReading, ReadsPage, Starts, Serves,
     Create, StartsAdd, ReadsRevision, Reads, AddLocks,
     AddReads, AddCommits, RenameCommits, DeleteCommits,
     DuplicateReads, DuplicateCommits, PatchCommits
<1>3. ASSUME NEW r \in Requests, Copies(r)' PROVE requests'[r].arg.copy # p
  BY <1>1, <1>3, CopiesAreNew DEF PagesInv
<1>4. ASSUME pipelines'[p] # None
      PROVE  /\ reader.there \subseteq Ids(p)'
             /\ \A id \in reader.there \ reader.seen :
                  ~reader.done /\ Cardinality(Newer(p, id))' >= reader.offset
  <2>1. pipelines[p] # None /\ Ids(p) \subseteq Ids(p)'
    BY <1>1, <1>4, TableStays DEF PagesInv
  <2>2. reader.there \subseteq Ids(p)
    BY <2>1 DEF PagesInv
  <2>3. ASSUME NEW id \in reader.there \ reader.seen
        PROVE  ~reader.done /\ Cardinality(Newer(p, id))' >= reader.offset
    <3>1. PICK start \in {0, 1}, last \in Nat : Ids(p) = start .. last
      BY <1>1 DEF RevisionsInv, RevisionTables, Stored, Numbered
    <3>2. PICK first2 \in {0, 1}, last2 \in Nat : Ids(p)' = first2 .. last2
      BY <1>1 DEF RevisionsInv, RevisionTables, Stored, Numbered
    <3>3. id \in start .. last /\ id \in first2 .. last2 /\ last \in start .. last
      BY <2>1, <2>2, <3>1, <3>2
    <3>4. last <= last2
      BY <2>1, <3>1, <3>2, <3>3
    <3>5. Cardinality(Newer(p, id)) = last - id
      <4>1. Newer(p, id) = {i \in start .. last : i > id}
        BY <3>1 DEF Newer
      <4>2. Cardinality({i \in start .. last : i > id}) = last - id
        BY <3>3, NewerAre
      <4>3. QED
        BY <4>1, <4>2
    <3>6. Cardinality(Newer(p, id))' = last2 - id
      <4>1. Newer(p, id)' = {i \in first2 .. last2 : i > id}
        BY <3>2 DEF Newer
      <4>2. Cardinality({i \in first2 .. last2 : i > id}) = last2 - id
        BY <3>3, NewerAre
      <4>3. QED
        BY <4>1, <4>2
    <3>7. /\ ~reader.done /\ Cardinality(Newer(p, id)) >= reader.offset
          /\ reader.offset \in Nat
      BY <2>1 DEF PagesInv
    <3>8. QED
      BY <3>3, <3>4, <3>5, <3>6, <3>7
  <2>4. QED
    BY <2>1, <2>2, <2>3
<1>5. reader \in [pipeline : used', offset : Nat, seen : SUBSET Nat, there : SUBSET Nat,
                  done : BOOLEAN]
  BY <1>2 DEF PagesInv
<1>6. QED
  BY <1>3, <1>4, <1>5 DEF PagesInv

LEMMA ReadingStarts ==
  ASSUME RevisionsInv, StartsReading
  PROVE  PagesInv'
<1>1. PICK p \in used :
        /\ pipelines[p] # None
        /\ reader' = [pipeline |-> p, offset |-> 0, seen |-> {}, there |-> Ids(p), done |-> FALSE]
  BY DEF StartsReading
<1>2. UNCHANGED <<pipelines, revisions, used, requests>>
  BY DEF StartsReading
<1>3. PICK start \in {0, 1}, last \in Nat : Ids(p) = start .. last
  BY DEF RevisionsInv, RevisionTables, Stored, Numbered
<1>4. reader' \in [pipeline : used, offset : Nat, seen : SUBSET Nat, there : SUBSET Nat,
                   done : BOOLEAN]
  BY <1>1, <1>3
<1>5. \A r \in Requests : Copies(r)' => requests'[r].arg.copy # reader'.pipeline
  BY <1>1, <1>2, RevisionFacts DEF Copies, Is
<1>6. ASSUME NEW id \in Ids(p)
      PROVE  Cardinality(Newer(p, id))' >= 0
  <2>1. Newer(p, id)' = {i \in start .. last : i > id}
    BY <1>2, <1>3 DEF Newer, Ids
  <2>2. Cardinality({i \in start .. last : i > id}) = last - id
    BY <1>3, NewerAre
  <2>3. Cardinality(Newer(p, id))' = last - id
    BY <2>1, <2>2
  <2>4. QED
    BY <1>3, <2>3
<1>7. /\ reader'.pipeline = p /\ reader'.offset = 0 /\ reader'.seen = {} /\ ~reader'.done
      /\ reader'.there = Ids(p) /\ Ids(p)' = Ids(p)
  BY <1>1, <1>2 DEF Ids
<1>8. QED
  BY <1>2, <1>4, <1>5, <1>6, <1>7 DEF PagesInv

(* A page that is not full is the last one, as the numbers have no gap.    *)
LEMMA LastPage ==
  ASSUME RevisionsAssumption, NEW p \in Pipelines, Numbered(p),
         NEW offset \in Nat, NEW id \in Ids(p),
         Cardinality(Newer(p, id)) >= offset + PageSize
  PROVE  ~(Cardinality(Page(p, offset)) < PageSize)
<1>1. PICK start \in {0, 1}, last \in Nat : Ids(p) = start .. last
  BY DEF Numbered
<1>2. ASSUME NEW i \in start .. last
      PROVE  Cardinality(Newer(p, i)) = last - i
  <2>1. Newer(p, i) = {j \in start .. last : j > i}
    BY <1>1 DEF Newer
  <2>2. Cardinality({j \in start .. last : j > i}) = last - i
    BY NewerAre
  <2>3. QED
    BY <2>1, <2>2
<1>. DEFINE low == last - offset - PageSize + 1
            high == last - offset
<1>3. PageSize \in Nat /\ PageSize > 0 /\ id \in start .. last /\ last - id >= offset + PageSize
  BY <1>1, <1>2 DEF RevisionsAssumption
<1>4. /\ low \in Int /\ high \in Int /\ low <= high /\ high - low + 1 = PageSize /\ low > start
      /\ high <= last
  BY <1>3
<1>5. Page(p, offset) = low .. high
  <2>1. Page(p, offset) = {i \in start .. last : last - i \in offset..(offset + PageSize - 1)}
    BY <1>1, <1>2 DEF Page
  <2>2. ASSUME NEW i PROVE i \in low .. high <=> i \in start .. last /\ last - i \in offset..(offset + PageSize - 1)
    BY <1>3, <1>4
  <2>3. QED
    BY <2>1, <2>2
<1>. HIDE DEF low, high
<1>6. Cardinality(low .. high) = PageSize
  BY <1>3, <1>4, FS_Interval
<1>7. Cardinality(Page(p, offset)) = PageSize
  BY <1>5, <1>6
<1>8. QED
  BY <1>3, <1>7

LEMMA ReadsPageKeeps ==
  ASSUME RevisionsAssumption, RevisionsInv, PagesInv, ReadsPage
  PROVE  PagesInv'
<1>. DEFINE p == reader.pipeline
            page == Page(p, reader.offset)
<1>1. /\ UNCHANGED <<pipelines, revisions, used, requests>>
      /\ reader # None /\ p \in Pipelines /\ p \in used
      /\ reader \in [pipeline : used, offset : Nat, seen : SUBSET Nat, there : SUBSET Nat,
                     done : BOOLEAN]
      /\ reader' = [reader EXCEPT !.offset = @ + PageSize, !.seen = @ \cup page,
                                  !.done = Cardinality(page) < PageSize]
  BY DEF ReadsPage, PagesInv, RevisionsInv, RevisionTables, Stored
<1>2. Numbered(p) /\ Ids(p) \subseteq Nat
  BY <1>1 DEF RevisionsInv, RevisionTables, Stored, Numbered
<1>3. page \subseteq Ids(p) /\ PageSize \in Nat /\ PageSize > 0
  BY DEF Page, RevisionsAssumption
<1>4. /\ reader'.pipeline = p /\ reader'.offset = reader.offset + PageSize
      /\ reader'.seen = reader.seen \cup page /\ reader'.there = reader.there
      /\ reader'.done = (Cardinality(page) < PageSize)
      /\ reader.offset \in Nat /\ reader.seen \subseteq Nat /\ reader.there \subseteq Nat
      /\ reader' = [pipeline |-> p, offset |-> reader.offset + PageSize, seen |-> reader.seen \cup page,
                    there |-> reader.there, done |-> Cardinality(page) < PageSize]
  BY <1>1
<1>5. reader' \in [pipeline : used, offset : Nat, seen : SUBSET Nat, there : SUBSET Nat,
                   done : BOOLEAN]
  <2>1. reader.seen \cup page \in SUBSET Nat
    BY <1>2, <1>3, <1>4
  <2>. DEFINE short == Cardinality(page) < PageSize
  <2>2. short \in BOOLEAN
    OBVIOUS
  <2>3. reader' = [pipeline |-> p, offset |-> reader.offset + PageSize, seen |-> reader.seen \cup page,
                   there |-> reader.there, done |-> short]
    BY <1>4
  <2>. HIDE DEF page, short
  <2>4. QED
    BY <1>1, <1>3, <1>4, <2>1, <2>2, <2>3
<1>6. \A r \in Requests : Copies(r)' => requests'[r].arg.copy # reader'.pipeline
  BY <1>1, <1>4 DEF PagesInv, Copies, Is
<1>7. ASSUME pipelines[p] # None, NEW id \in reader'.there \ reader'.seen
      PROVE  ~reader'.done /\ Cardinality(Newer(p, id)) >= reader'.offset
  <2>1. id \in reader.there \ reader.seen /\ id \notin page /\ id \in Ids(p)
    BY <1>1, <1>4, <1>7 DEF PagesInv
  <2>. DEFINE rank == Cardinality(Newer(p, id))
  <2>2. rank >= reader.offset /\ rank \in Nat
    <3>1. PICK start \in {0, 1}, last \in Nat : Ids(p) = start .. last
      BY <1>2 DEF Numbered
    <3>2. Newer(p, id) = {j \in start .. last : j > id}
      BY <3>1 DEF Newer
    <3>3. Cardinality({j \in start .. last : j > id}) = last - id
      BY <2>1, <3>1, NewerAre
    <3>4. Cardinality(Newer(p, id)) = last - id
      BY <3>2, <3>3
    <3>5. QED
      BY <1>1, <1>7, <2>1, <3>1, <3>4 DEF PagesInv
  <2>3. rank \notin reader.offset..(reader.offset + PageSize - 1)
    BY <2>1 DEF Page
  <2>4. rank >= reader.offset + PageSize
    BY <1>3, <1>4, <2>2, <2>3
  <2>5. ~(Cardinality(page) < PageSize)
    BY <1>1, <1>2, <1>4, <2>1, <2>4, LastPage
  <2>6. QED
    BY <1>4, <2>4, <2>5
<1>8. ASSUME pipelines[p] # None PROVE reader'.there \subseteq Ids(p)
  BY <1>1, <1>4, <1>8 DEF PagesInv
<1>9. PICK q \in Pipelines : q = p
  BY <1>1
<1>10. \A id : Newer(q, id)' = Newer(q, id) /\ Ids(q)' = Ids(q)
  BY <1>1 DEF Newer, Ids
<1>11. \A id : Cardinality(Newer(q, id))' = Cardinality(Newer(q, id))
  BY <1>10
<1>12. pipelines'[q] # None =>
         /\ reader'.there \subseteq Ids(q)'
         /\ \A id \in reader'.there \ reader'.seen :
              ~reader'.done /\ Cardinality(Newer(q, id))' >= reader'.offset
  BY <1>1, <1>7, <1>8, <1>9, <1>10, <1>11
<1>13. QED
  BY <1>1, <1>4, <1>5, <1>6, <1>9, <1>12 DEF PagesInv

LEMMA PagesNext ==
  ASSUME RevisionsAssumption, RevisionsInv, RevisionsInv', PagesInv,
         [Next]_(vars)
  PROVE  PagesInv'
<1>1. CASE UNCHANGED reader
  BY <1>1, ReaderRests
<1>2. CASE StartsReading
  BY <1>2, ReadingStarts
<1>3. CASE ReadsPage
  BY <1>3, ReadsPageKeeps
<1>4. QED
  BY <1>1, <1>2, <1>3
  DEF Next, vars, Starts, Serves,
     Create, StartsAdd, ReadsRevision, Reads, AddLocks,
     AddReads, AddCommits, RenameCommits, DeleteCommits,
     DuplicateReads, DuplicateCommits, PatchCommits

LEMMA PagesAreWhole == PagesInv => PagesShowAll
BY DEF PagesInv, PagesShowAll

LEMMA RowsAgreeInit ==
  RevisionsAssumption /\ Init => RowsAgree /\ NoAddFails /\ PagesInv
<1>. SUFFICES ASSUME RevisionsAssumption, Init
              PROVE  RowsAgree /\ NoAddFails /\ PagesInv
  OBVIOUS
<1>1. PICK p \in Pipelines, d \in Data :
        /\ pipelines =
             [s \in Pipelines |-> IF s = p THEN Pipeline(Owner, d, 0) ELSE None]
        /\ revisions = [s \in Pipelines |->
             IF s = p THEN [i \in {0} |-> Revision(d, NoPositions, None)] ELSE <<>>]
  BY DEF Init
<1>2. \A r \in Requests : requests[r].pc = "new"
  BY DEF Init, Request
<1>3. \A s \in Pipelines : pipelines[s] # None => RowAgrees(pipelines[s], s)
  BY <1>1 DEF RowAgrees, Ids, Pipeline, Revision
<1>4. reader = None
  BY DEF Init
<1>5. QED
  BY <1>2, <1>3, <1>4 DEF RowsAgree, Duplicates, Copies, Is, NoAddFails, PagesInv

LEMMA CurrentIsThere == RowsAgree => CurrentAgrees
BY DEF RowsAgree, RowAgrees, CurrentAgrees

(* Pipelines and revisions of the app: for any requests, in any order, the *)
(* numbers have no gap, also when a source is deleted while it is          *)
(* duplicated; no revision is left of a pipeline that is gone; no request  *)
(* that has the row of a pipeline fails to add to it; and who lists the    *)
(* revisions page by page misses none that was there when it began.        *)
THEOREM RevisionsAreNumbered ==
  ASSUME RevisionsAssumption
  PROVE  Spec => [](/\ NumberedWithoutGap /\ NoneWithoutPipeline
                /\ NoAddFails /\ PagesShowAll)
<1>1. Init => RevisionsInv /\ NoAddFails /\ PagesInv
  BY RevisionsInit, RowsAgreeInit
<1>2. RevisionsInv /\ NoAddFails /\ PagesInv /\ [Next]_(vars)
        => (RevisionsInv /\ NoAddFails /\ PagesInv)'
  BY RevisionsNext, AddsSucceed, PagesNext
<1>3. RevisionsInv /\ PagesInv =>
        NumberedWithoutGap /\ NoneWithoutPipeline /\ PagesShowAll
  BY NumbersHaveNoGap, PagesAreWhole
<1>4. QED
  BY <1>1, <1>2, <1>3, PTL DEF Spec

(* As long as pipelines are not deleted, the data of a pipeline, which is  *)
(* what is shown and deployed, is that of its current revision, whatever   *)
(* is renamed, added or duplicated at the same time; and the revisions stay*)
(* with their data, the current one never going back.                      *)
THEOREM CurrentRevisionAgrees ==
  ASSUME RevisionsAssumption, "delete" \notin Kinds
  PROVE  Spec => []CurrentAgrees /\ RevisionsStay
<1>1. Init => RevisionsInv /\ RowsAgree
  BY RevisionsInit, RowsAgreeInit
<1>2. RevisionsInv /\ RowsAgree /\ [Next]_(vars)
        => (RevisionsInv /\ RowsAgree)' /\ KeepsRevisions
  BY RevisionsNext, RowsAgreeNext
<1>3. RowsAgree => CurrentAgrees
  BY CurrentIsThere
<1>4. QED
  BY <1>1, <1>2, <1>3, PTL DEF Spec, RevisionsStay
==============================================================================
