------------------------------- MODULE COMReduce -------------------------------
(***************************************************************************)
(* The operator that puts the centers of mass of a scan together.  Its     *)
(* replicated upstream operator computes them for one batch of frames at a *)
(* time, and the parts come in any order.  What is known of a scan is kept *)
(* until every position of it was received.                                *)
(***************************************************************************)
EXTENDS Naturals, Sequences, FiniteSets, SequencesExt, FiniteSetsExt

CONSTANTS
  Parts,       \* partial results: scan, and per position whether it has one
  Shape,       \* per scan, its positions
  EmitEvery,
  None

CONSTANTS MaxRepeats, MaxWrong   \* parts sent again, parts of a wrong shape

Scans == DOMAIN Shape

(* A COMCache: values put together so far (None is NaN), how many headers  *)
(* came per position, and the messages counted.                            *)
Centers == UNION {UNION ({part.value[p] : p \in DOMAIN part.value} \ {None}) : part \in Parts}
Caches(scan) ==
  [com : [Shape[scan] -> (SUBSET Centers) \cup {None}], counts : [Shape[scan] -> Nat], messages : Nat]

ReduceAssumption ==
  /\ \A s \in Scans : Shape[s] # {} /\ None \notin Caches(s)
  /\ \A part \in Parts : part.scan \in Scans /\ DOMAIN part.value \subseteq Shape[part.scan]
  /\ EmitEvery \in Nat /\ MaxRepeats \in Nat /\ MaxWrong \in Nat

VARIABLES
  pending,     \* parts on their way
  store,       \* scan_store: the COMCache of a scan, or None
  sent,        \* results
  repeats, wrong,
  log          \* history: parts received, of the right shape

vars == <<pending, store, sent, repeats, wrong, log>>

Fresh(scan) ==
  [com |-> [p \in Shape[scan] |-> None], counts |-> [p \in Shape[scan] |-> 0], messages |-> 0]

CacheOf(scan) == IF store[scan] = None THEN Fresh(scan) ELSE store[scan]

(* NaN leaves a value as it is and is replaced by one.                     *)
Accumulated(old, new) ==
  IF new = None THEN old ELSE IF old = None THEN new ELSE old \cup new

(* add_batch.                                                              *)
Added(c, part) ==
  [com |-> [p \in DOMAIN c.com |->
              IF p \in DOMAIN part.value THEN Accumulated(c.com[p], part.value[p]) ELSE c.com[p]],
   counts |-> [p \in DOMAIN c.com |->
                 IF p \in DOMAIN part.value THEN c.counts[p] + 1 ELSE c.counts[p]],
   messages |-> c.messages + 1]

(* Every position received, with a value or without.                       *)
IsComplete(c) == \A p \in DOMAIN c.counts : c.counts[p] > 0

ShouldEmit(c) == IsComplete(c) \/ (EmitEvery > 0 /\ c.messages % EmitEvery = 0)

(* finalize: averages, and the mean where there is no value.               *)
Combined(c) == [p \in DOMAIN c.com |-> [sum |-> c.com[p], n |-> c.counts[p]]]

Init ==
  /\ pending = Parts /\ store = [s \in Scans |-> None] /\ sent = <<>>
  /\ repeats = 0 /\ wrong = 0 /\ log = <<>>

(* Mutant of Reduces: a complete scan is not forgotten.                    *)
KeepsComplete(part, c) ==
  /\ sent' = IF ShouldEmit(c) THEN Append(sent, [scan |-> part.scan, com |-> Combined(c),
                                                complete |-> IsComplete(c)])
             ELSE sent
  /\ store' = [store EXCEPT ![part.scan] = c]

(* A complete scan is sent and forgotten.                                  *)
Reduces(part, c) ==
  /\ sent' = IF ShouldEmit(c) THEN Append(sent, [scan |-> part.scan, com |-> Combined(c),
                                                complete |-> IsComplete(c)])
             ELSE sent
  /\ store' = [store EXCEPT ![part.scan] = IF IsComplete(c) THEN None ELSE c]

Receives ==
  /\ \E part \in pending :
       /\ Reduces(part, Added(CacheOf(part.scan), part))
       /\ pending' = pending \ {part}
       /\ log' = Append(log, part)
  /\ UNCHANGED <<repeats, wrong>>

Repeats ==
  /\ repeats < MaxRepeats
  /\ \E part \in Parts \ pending :
       Reduces(part, Added(CacheOf(part.scan), part)) /\ log' = Append(log, part)
  /\ repeats' = repeats + 1
  /\ UNCHANGED <<pending, wrong>>

(* A part of another shape is refused, but the scan is in the store.       *)
Refuses ==
  /\ wrong < MaxWrong
  /\ \E s \in Scans : store' = [store EXCEPT ![s] = CacheOf(s)]
  /\ wrong' = wrong + 1
  /\ UNCHANGED <<pending, sent, repeats, log>>

Next == Receives \/ Repeats \/ Refuses

Spec == Init /\ [][Next]_vars

Complete(s) == {i \in DOMAIN sent : sent[i].scan = s /\ sent[i].complete}
Covers(s, p) == {i \in DOMAIN log : log[i].scan = s /\ p \in DOMAIN log[i].value}

(* Each part of a scan counts once: in one of the complete results or in   *)
(* what is kept for the next, although a scan that was complete is begun   *)
(* anew when parts of it come again.                                       *)
Conserved ==
  \A s \in Scans : \A p \in Shape[s] :
    LET counted[n \in 0..Len(sent)] ==
          IF n = 0 THEN 0
          ELSE counted[n - 1] + (IF n \in Complete(s) THEN sent[n].com[p].n ELSE 0)
    IN Cardinality(Covers(s, p)) =
         counted[Len(sent)] + (IF store[s] = None THEN 0 ELSE store[s].counts[p])

(* When every part of every scan came once, each scan was sent in full     *)
(* once and nothing is kept of it, whatever the order, although the        *)
(* positions without electrons have no center of mass.                     *)
SentAndForgotten ==
  pending = {} /\ repeats = 0 =>
    \A s \in Scans :
      /\ \E i \in DOMAIN sent :
           /\ Complete(s) = {i}
           /\ \A part \in Parts, p \in Shape[s] :
                part.scan = s /\ p \in DOMAIN part.value /\ part.value[p] # None
                  => part.value[p] \subseteq sent[i].com[p].sum
      /\ store[s] # None => store[s].messages = 0

(* finalize returns an average: a sum of so many centers is divided by as  *)
(* many.                                                                   *)
(* Promised and not kept: see the README, further divergences.             *)
AveragesValues ==
  \A r \in Range(sent) : \A p \in DOMAIN r.com :
    r.com[p].sum # None => r.com[p].n = Cardinality(r.com[p].sum)

(* What is kept is not complete, and has a value only where a part came.   *)
ReduceTypeOK ==
  /\ pending \subseteq Parts
  /\ \A s \in {t \in Scans : store[t] # None} :
       /\ ~IsComplete(store[s]) /\ DOMAIN store[s].com = Shape[s]
       /\ \A p \in Shape[s] : store[s].counts[p] = 0 => store[s].com[p] = None
===============================================================================
