----------------------------- MODULE FrameEmitter -----------------------------
(***************************************************************************)
(* The distiller grabber, first operator of a streaming pipeline, and its  *)
(* BatchEmitter.  Each call of the kernel sends at most one message: a     *)
(* live batch as it comes from the detector, or the next part of a whole   *)
(* dataset that came in one piece and is cut into batches below a limit of *)
(* bytes.  The data comes from the head node's socket or from one that an  *)
(* operator parameter names.                                               *)
(***************************************************************************)
EXTENDS Naturals, Sequences, FiniteSets, SequencesExt, FiniteSetsExt

CONSTANTS
  Shared,        \* the source of the head node
  Overrides,     \* addresses that override_data_addr may have
  Raw,           \* raw messages: live batches, junk and datasets
  Limit,         \* batch_size_bytes
  None

(* How many messages the sources send and how often parameters change.     *)
CONSTANTS MaxMessages, MaxChanges

Sources == Overrides \cup {Shared}
EmitterAssumption ==
  /\ Limit \in Nat \ {0} /\ MaxMessages \in Nat /\ MaxChanges \in Nat
  /\ None \notin Sources \cup Raw /\ Shared \notin Overrides
  /\ None \notin [id : Nat, sizes : Seq(Nat), next : Nat, batch : Nat, total : Nat, frames : Nat]
  /\ Raw \subseteq [kind : {"live", "junk"}] \cup [kind : {"dataset"}, sizes : Seq(Nat) \ {<<>>}]

VARIABLES
  socket,      \* sources with a socket connected to them
  inbox,       \* per source, messages its socket holds
  parameters,  \* the source that parameters select, and enable_sparse_array
  cache,       \* emitters that wait: EmitterManager._cache
  active,      \* EmitterManager._active
  sent,        \* batches given to the messenger
  running, sources, changes,
  taken        \* history: messages received that had frames in them

vars == <<socket, inbox, parameters, cache, active, sent, running, sources, changes, taken>>

Bytes(sizes, from, to) ==
  LET total[i \in from-1..to] == IF i < from THEN 0 ELSE total[i - 1] + sizes[i]
  IN total[to]

(* A batch is closed before position j if it has data and would reach the  *)
(* limit with it.                                                          *)
Flush(sizes, from, j) ==
  Bytes(sizes, from, j - 1) > 0 /\ Bytes(sizes, from, j) >= Limit

(* _batch_generator: the last position of the batch that starts at from.   *)
BatchEnd(sizes, from) ==
  Min({j - 1 : j \in {k \in from+1..Len(sizes) : Flush(sizes, from, k)}} \cup {Len(sizes)})

(* _calculate_batch_and_frame_totals: the last batch counts if it has data.*)
TotalBatches(sizes) ==
  LET start[i \in 1..Len(sizes)] ==   \* where the batch of position i starts
        IF i = 1 THEN 1
        ELSE LET s == start[i - 1] IN IF Flush(sizes, s, i) THEN i ELSE s
      starts == {start[i] : i \in 1..Len(sizes)}
      last == start[Len(sizes)]
  IN Cardinality(starts) - (IF Bytes(sizes, last, Len(sizes)) > 0 THEN 0 ELSE 1)

(* BatchEmitter: the iterator is at position next.                         *)
Emitter(raw, id) ==
  [id |-> id, sizes |-> raw.sizes, next |-> 1, batch |-> 0,
   total |-> TotalBatches(raw.sizes), frames |-> Len(raw.sizes)]

NextBatch(e) ==
  [id |-> e.id, from |-> e.next, to |-> BatchEnd(e.sizes, e.next),
   bytes |-> Bytes(e.sizes, e.next, BatchEnd(e.sizes, e.next)),
   index |-> e.batch, total |-> e.total, frames |-> e.frames]
Exhausted(e) == e.next > Len(e.sizes)
Idle(e) == e # None => Exhausted(e)
Advanced(e) == [e EXCEPT !.next = BatchEnd(e.sizes, e.next) + 1, !.batch = @ + 1]

(* _decode_batched_frames; unpack_sparse_array raises for what is no array.*)
DecodesBatch(raw) == raw.kind = "live"
Unpacks(raw) == raw.kind = "dataset"

LiveBatch(id) ==
  [id |-> id, from |-> 1, to |-> 1, bytes |-> 1, index |-> 0, total |-> None, frames |-> None]

Init ==
  /\ socket = {Shared} /\ inbox = [s \in Sources |-> <<>>]
  /\ parameters \in [source : Sources, sparse : BOOLEAN]
  /\ cache = <<>> /\ active = None /\ sent = <<>> /\ taken = <<>>
  /\ running = TRUE /\ sources = 0 /\ changes = 0

(* A source pushes a message to the socket that is connected to it.        *)
Arrives ==
  /\ running /\ sources < MaxMessages
  /\ \E s \in socket, r \in Raw : inbox' = [inbox EXCEPT ![s] = Append(@, r)]
  /\ sources' = sources + 1
  /\ UNCHANGED <<socket, parameters, cache, active, sent, running, changes, taken>>

Sets ==
  /\ running /\ changes < MaxChanges
  /\ parameters' \in [source : Sources, sparse : BOOLEAN]
  /\ changes' = changes + 1
  /\ UNCHANGED <<socket, inbox, cache, active, sent, running, sources, taken>>

(* activate_next and get_next_batch.                                       *)
EmitsFrom(queue) ==
  /\ sent' = Append(sent, NextBatch(Head(queue)))
  /\ active' = Advanced(Head(queue))
  /\ cache' = Tail(queue)

(* First priority: the active emitter or, when there is none or it is      *)
(* finished, the next of the cache.                                        *)
Emits ==
  /\ running
  /\ LET queue == IF Idle(active) THEN cache ELSE <<active>> \o cache
     IN queue # <<>> /\ EmitsFrom(queue)
  /\ UNCHANGED <<socket, inbox, parameters, running, sources, changes, taken>>

(* get_data_socket: an override socket to another address is closed first, *)
(* the head node's socket stays.                                           *)
OpenSockets(s) == IF s = Shared THEN socket ELSE {Shared, s}

(* What was in a socket that is closed is gone.                            *)
InboxAfter(open) == [s \in Sources |-> IF s \in open THEN inbox[s] ELSE <<>>]

(* A message of the selected socket, tried as a live batch and then, if    *)
(* enabled, as a dataset whose first batch is sent at once; anything else  *)
(* is dropped.                                                             *)
TakesNext ==
  LET s == parameters.source
      open == OpenSockets(s)
      box == InboxAfter(open)
      raw == Head(box[s])
      accepted == DecodesBatch(raw) \/ (parameters.sparse /\ Unpacks(raw))
  IN /\ socket' = open
     /\ IF box[s] = <<>> THEN inbox' = box ELSE inbox' = [box EXCEPT ![s] = Tail(@)]
     /\ IF box[s] = <<>> \/ ~accepted
        THEN active' = None /\ UNCHANGED <<cache, sent, taken>>
        ELSE /\ taken' = Append(taken, raw)
             /\ \/ /\ DecodesBatch(raw)
                   /\ sent' = Append(sent, LiveBatch(Len(taken')))
                   /\ active' = None /\ UNCHANGED cache
                \/ /\ ~DecodesBatch(raw)
                   /\ EmitsFrom(Append(cache, Emitter(raw, Len(taken'))))
     /\ UNCHANGED <<parameters, running, sources, changes>>

(* Mutant of Receives: it does not wait for the batches to be sent.        *)
ReceivesFirst == running /\ TakesNext

(* Second priority, when there is no batch to send.                        *)
Receives == running /\ cache = <<>> /\ Idle(active) /\ TakesNext

Kernel == Emits \/ Receives

(* The operator ends: DistillerGrabberState.shutdown.                      *)
Shutdown ==
  /\ running
  /\ running' = FALSE
  /\ socket' = {} /\ inbox' = InboxAfter({})
  /\ cache' = <<>> /\ active' = None
  /\ UNCHANGED <<parameters, sent, sources, changes, taken>>

Next == Arrives \/ Sets \/ Emits \/ Receives \/ Shutdown

(* The operator calls the kernel of a source again and again.              *)
Spec == Init /\ [][Next]_vars /\ WF_vars(Kernel)

Positions(raw) == IF raw.kind = "live" THEN <<1>> ELSE raw.sizes
Ends(b) == b.to = Len(Positions(taken[b.id]))

(* Everything received with frames in it is sent: batches follow in order  *)
(* of arrival, a dataset's without gap or repetition, and nothing comes    *)
(* between them although live batches and other datasets arrive meanwhile. *)
Streamed ==
  /\ sent # <<>> => sent[1].id = 1 /\ sent[1].from = 1
  /\ \A i \in 1..Len(sent)-1 :
       LET b == sent[i]
           n == sent[i + 1]
       IN IF Ends(b) THEN n.id = b.id + 1 /\ n.from = 1 /\ n.index = 0
          ELSE n.id = b.id /\ n.from = b.to + 1 /\ n.index = b.index + 1

(* A batch reaches the limit only if one position alone does.              *)
LimitKept ==
  \A b \in Range(sent) :
    b.total # None /\ b.bytes >= Limit => Bytes(taken[b.id].sizes, b.from, b.to - 1) = 0

(* The number of batches that every header announces is computed before by *)
(* another loop than the one that makes them; the reducers downstream wait *)
(* for that many.  They agree if the last batch has data in it.            *)
Announced ==
  \A b \in Range(sent) : b.total # None /\ Ends(b) /\ b.bytes > 0 => b.total = b.index + 1

(* They agree always.                                                      *)
(* Promised and not kept: see the README, further divergences.             *)
PredictedMatchesActual ==
  \A b \in Range(sent) : b.total # None /\ Ends(b) => b.total = b.index + 1

(* A dataset that was taken is sent to its last position unless the        *)
(* operator ends, and messages in the selected socket do not wait forever, *)
(* whatever parameters change and whichever sockets are closed.            *)
TakenAreSent ==
  running => \A n \in DOMAIN taken : \E b \in Range(sent) : b.id = n /\ Ends(b)
SelectedIsEmpty == inbox[parameters.source] = <<>>
AllStreamed == []<>TakenAreSent /\ <>[]SelectedIsEmpty

(* Only open sockets hold messages, the emitter manager never has a second *)
(* dataset, and batches tell what was taken.                               *)
EmitterTypeOK ==
  /\ socket \subseteq Sources /\ Cardinality(socket) <= 2
  /\ \A s \in Sources : inbox[s] \in Seq(Raw) /\ (inbox[s] # <<>> => s \in socket)
  /\ cache = <<>>
  /\ taken \in Seq(Raw)
  /\ active # None => active.sizes = taken[active.id].sizes /\ active.id = Len(taken)
  /\ \A b \in Range(sent) : b.id \in DOMAIN taken /\ b.to \in DOMAIN Positions(taken[b.id])
===============================================================================
