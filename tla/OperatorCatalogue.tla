---------------------------- MODULE OperatorCatalogue ----------------------------
(***************************************************************************)
(* The operators that the app offers: the route that lists them, the cache *)
(* that each worker keeps, and how the catalogue is put together from the  *)
(* local directory and the images of the container registry.  A fetch      *)
(* awaits each answer of the registry, images are published meanwhile, and *)
(* other requests of the same worker run.                                  *)
(***************************************************************************)
EXTENDS Naturals, FiniteSets

CONSTANTS
  Images,       \* operators: an image and a local file have one id
  Workers, Requests,
  MaxVersion, MaxFiles, MaxErrors, None

CatalogueAssumption ==
  MaxVersion \in Nat /\ MaxFiles \in Nat /\ MaxErrors \in Nat

VARIABLES
  registry,  \* version of each image's latest tag, 0 before there is one
  local,     \* version of each operator's local file, 0 when there is none
  cache,     \* _operators of each worker
  requests,
  shown,     \* what the refreshes answered so far have shown: a history
  errors

vars == <<registry, local, cache, requests, shown, errors>>

Entry(kind, version) == [kind |-> kind, version |-> version]
Missing == Entry("none", 0)
Nothing == [i \in Images |-> 0]
Idle == [pc |-> "new", worker |-> None, refresh |-> FALSE, files |-> Nothing, asked |-> Nothing,
         floor |-> Nothing, left |-> {}, got |-> Nothing, skipped |-> {}, answer |-> None]

Init ==
  /\ registry \in [Images -> 0..1] /\ local = Nothing
  /\ cache = [w \in Workers |-> None]
  /\ requests = [r \in Requests |-> Idle]
  /\ shown = Nothing /\ errors = 0

(* Mutant of Merged: images that were not found have entries, too.         *)
MergedUnfiltered(files, got) ==
  [i \in Images |-> IF files[i] > 0 THEN Entry("file", files[i]) ELSE Entry("image", got[i])]

(* Local files replace images with the same id.                            *)
Merged(files, got) ==
  [i \in Images |-> IF files[i] > 0 THEN Entry("file", files[i])
                    ELSE IF got[i] > 0 THEN Entry("image", got[i]) ELSE Missing]

Answered(q, catalogue) == [q EXCEPT !.pc = "answered", !.answer = catalogue]

(* Mutant of Asks: a refresh is answered from the cache.                   *)
AsksOnce(r) ==
  /\ requests[r].pc = "new"
  /\ \E w \in Workers, refresh \in BOOLEAN :
       LET q == [Idle EXCEPT !.worker = w, !.refresh = refresh, !.files = local,
                             !.asked = registry, !.floor = shown]
       IN requests' = [requests EXCEPT ![r] =
            IF cache[w] # None THEN Answered(q, cache[w]) ELSE [q EXCEPT !.pc = "list"]]
  /\ UNCHANGED <<registry, local, cache, shown, errors>>

(* read_operators up to its first await: the cache, or the local files and *)
(* then the registry, for which there are credentials.                     *)
Asks(r) ==
  /\ requests[r].pc = "new"
  /\ \E w \in Workers, refresh \in BOOLEAN :
       LET q == [Idle EXCEPT !.worker = w, !.refresh = refresh, !.files = local,
                             !.asked = registry, !.floor = shown]
       IN requests' = [requests EXCEPT ![r] =
            IF cache[w] # None /\ ~ refresh THEN Answered(q, cache[w]) ELSE [q EXCEPT !.pc = "list"]]
  /\ UNCHANGED <<registry, local, cache, shown, errors>>

(* registry.images: the pages of the organisation's packages.              *)
Lists(r) ==
  /\ requests[r].pc = "list"
  /\ requests' = [requests EXCEPT ![r].pc = "fetch",
                                  ![r].left = {i \in Images : registry[i] > 0}]
  /\ UNCHANGED <<registry, local, cache, shown, errors>>

(* _fetch_operator of one image, of those that run at the same time.       *)
Fetches(r) ==
  /\ requests[r].pc = "fetch"
  /\ \E i \in requests[r].left :
       requests' = [requests EXCEPT ![r].left = @ \ {i}, ![r].got[i] = registry[i]]
  /\ UNCHANGED <<registry, local, cache, shown, errors>>

(* An error status while the labels are read: the image is left out.       *)
Skips(r) ==
  /\ requests[r].pc = "fetch" /\ errors < MaxErrors
  /\ \E i \in requests[r].left :
       requests' = [requests EXCEPT ![r].left = @ \ {i}, ![r].skipped = @ \cup {i}]
  /\ errors' = errors + 1
  /\ UNCHANGED <<registry, local, cache, shown>>

(* Anything else that goes wrong, the list of images or of tags and a spec *)
(* that is not valid included, fails the request.                          *)
Raises(r) ==
  /\ requests[r].pc \in {"list", "fetch"} /\ errors < MaxErrors
  /\ requests' = [requests EXCEPT ![r].pc = "failed"]
  /\ errors' = errors + 1
  /\ UNCHANGED <<registry, local, cache, shown>>

(* The catalogue is stored for the worker and answered.                    *)
Stores(r) ==
  /\ requests[r].pc = "fetch" /\ requests[r].left = {}
  /\ LET q == requests[r]
         catalogue == Merged(q.files, q.got)
     IN /\ cache' = [cache EXCEPT ![q.worker] = catalogue]
        /\ requests' = [requests EXCEPT ![r] = Answered(q, catalogue)]
        /\ shown' = IF q.refresh
                    THEN [i \in Images |-> IF q.got[i] > shown[i] THEN q.got[i] ELSE shown[i]]
                    ELSE shown
  /\ UNCHANGED <<registry, local, errors>>

(* An image is built and pushed as latest; a local file is written.        *)
Publishes ==
  /\ \E i \in Images :
       \/ registry[i] < MaxVersion /\ registry' = [registry EXCEPT ![i] = @ + 1] /\ UNCHANGED local
       \/ local[i] < MaxFiles /\ local' = [local EXCEPT ![i] = @ + 1] /\ UNCHANGED registry
  /\ UNCHANGED <<cache, requests, shown, errors>>

Next ==
  \/ Publishes
  \/ \E r \in Requests :
       Asks(r) \/ Lists(r) \/ Fetches(r) \/ Skips(r) \/ Raises(r) \/ Stores(r)

Spec == Init /\ [][Next]_vars

AnsweredRefreshes == {r \in Requests : requests[r].pc = "answered" /\ requests[r].refresh}

CatalogueTypeOK ==
  /\ \A w \in Workers : cache[w] # None => \A i \in Images :
       cache[w][i] \in {Missing} \cup [kind : {"image"}, version : 1..MaxVersion]
                                   \cup [kind : {"file"}, version : 1..MaxFiles]
  /\ \A r \in Requests : requests[r].pc = "answered" => requests[r].answer # None

(* A refresh shows nothing older than what there was when it was asked,    *)
(* and leaves out nothing but what the registry refused: with other        *)
(* requests of the worker under way, images pushed and errors meanwhile.   *)
RefreshIsFresh ==
  \A r \in AnsweredRefreshes : \A i \in Images :
    LET q == requests[r] IN
      IF q.files[i] > 0 THEN q.answer[i] = Entry("file", q.files[i])
      ELSE q.asked[i] > 0 /\ i \notin q.skipped =>
             q.answer[i].kind = "image" /\ q.answer[i].version >= q.asked[i]

(* "Use refresh=true to invalidate cache and fetch fresh data": what a     *)
(* refresh has shown is shown by every later request.                      *)
(* Promised and not kept: see the README, further divergences.             *)
RefreshStays ==
  \A r \in Requests : requests[r].pc = "answered" =>
    \A i \in Images : LET e == requests[r].answer[i] IN
      requests[r].floor[i] > 0 /\ i \notin requests[r].skipped =>
        e.kind = "file" \/ e.version >= requests[r].floor[i]
===============================================================================
