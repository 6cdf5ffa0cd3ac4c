----------------------------- MODULE KeyValueLoop -----------------------------
(***************************************************************************)
(* KeyValueLoop, by which agents, operators and ports keep a value of      *)
(* theirs in a bucket: a loop that puts it every interval, calls that put  *)
(* it at once, the refresh after a reconnect, and the ways it ends.  One   *)
(* key is modelled.  Requests leave the process in order over one          *)
(* connection; a request or its reply may be lost with the connection.     *)
(***************************************************************************)
EXTENDS Naturals, Sequences, SequencesExt

CONSTANTS
  Callers,    \* tasks that call update_now or refresh_connection
  Impatient,  \* tasks all of whose attempts may fall into one outage
  MaxValue, MaxOutages, MaxRefreshes, MaxLostReplies, MaxUpdates,
  ATTEMPTS,   \* ATTEMPTS_BEFORE_GIVING_UP, here of all the deletes together
  MayStop, MayEnd

Loop == "loop"
Stopper == "stop"
Tasks == Callers \cup {Loop, Stopper}

LoopAssumption ==
  /\ Callers \cap {Loop, Stopper} = {}
  /\ {MaxValue, MaxOutages, MaxRefreshes, MaxLostReplies, MaxUpdates, ATTEMPTS}
       \subseteq Nat
  /\ {MayStop, MayEnd} \subseteq BOOLEAN

VARIABLES
  value,    \* what the getter returns, as a version
  store,    \* the key in the bucket: a version, 0 when it is not there
  wire,     \* requests that have left and are not yet served
  linked,   \* the connection is up
  running,  \* _running
  event,    \* _shutdown_event
  bucket,   \* _bucket is not None
  pc,       \* what each task is doing
  budget

vars == <<value, store, wire, linked, running, event, bucket, pc, budget>>
localVars == <<value, running, event>>

Requests == [op : {"put", "delete"}, version : 0..MaxValue, for : Tasks \cup {"nobody"}]

LoopTypeOK ==
  /\ value \in 1..MaxValue
  /\ store \in 0..MaxValue
  /\ wire \in Seq(Requests)
  /\ {linked, running, event, bucket} \subseteq BOOLEAN
  /\ \A t \in Tasks :
       /\ pc[t] \in {"idle", "putting", "mending", "deleting", "remending", "gone",
                     "unable", "timed out", "dead", "cancelled"}
       /\ Len(SelectSeq(wire, LAMBDA r : r.for = t)) <= 1

(* The state that start leaves.                                            *)
Init ==
  /\ value = 1
  /\ store = 0
  /\ wire = <<>>
  /\ linked = TRUE
  /\ running = TRUE
  /\ event = FALSE
  /\ bucket = TRUE
  /\ pc = [t \in Tasks |-> "idle"]
  /\ budget = [outage |-> MaxOutages, refresh |-> MaxRefreshes, lost |-> MaxLostReplies,
               update |-> MaxUpdates, attempt |-> ATTEMPTS]

Spend(k) == budget[k] > 0 /\ budget' = [budget EXCEPT ![k] = @ - 1]
Free == UNCHANGED budget
Goes(t, p) == pc' = [pc EXCEPT ![t] = p]

Put(t) == [op |-> "put", version |-> value, for |-> t]
Delete(t) == [op |-> "delete", version |-> 0, for |-> t]

(* What a task has sent stays on its way when nobody waits for it any more.*)
Forgotten(t) ==
  [i \in DOMAIN wire |-> IF wire[i].for = t THEN [wire[i] EXCEPT !.for = "nobody"]
                         ELSE wire[i]]

------------------------------------------------------------------------------
(* The value, the connection and the server.                               *)
Changes ==
  /\ value < MaxValue /\ value' = value + 1
  /\ UNCHANGED <<store, wire, linked, running, event, bucket, pc>> /\ Free

Breaks ==
  /\ linked /\ linked' = FALSE
  /\ UNCHANGED <<store, wire, bucket, pc, localVars>> /\ Spend("outage")

Reconnects ==
  /\ ~linked /\ linked' = TRUE
  /\ UNCHANGED <<store, wire, bucket, pc, localVars>> /\ Free

Loses ==
  /\ ~linked /\ wire # <<>>
  /\ wire' = Tail(wire)
  /\ UNCHANGED <<store, linked, bucket, pc, localVars>> /\ Free

Apply ==
  /\ linked /\ wire # <<>>
  /\ store' = wire[1].version
  /\ wire' = Tail(wire)
  /\ UNCHANGED <<linked, bucket, localVars>>

(* The put or the delete of the waiting task returns.                      *)
Returned(t) == IF pc[t] = "putting" THEN "idle" ELSE "gone"

Serves ==
  /\ Apply
  /\ LET t == wire[1].for
     IN IF t \in Tasks THEN Goes(t, Returned(t)) ELSE UNCHANGED pc
  /\ Free

LosesReply == Apply /\ UNCHANGED pc /\ Spend("lost")

(* A key that nobody has put for BUCKET_STATUS_TTL seconds, many times the *)
(* interval of the loop.                                                   *)
Expires ==
  /\ store # 0
  /\ ~linked \/ pc[Loop] \in {"gone", "unable", "dead", "cancelled"}
  /\ store' = 0
  /\ UNCHANGED <<wire, linked, bucket, pc, localVars>> /\ Free

------------------------------------------------------------------------------
(* _update_values: without a bucket it is fetched anew and nothing is put. *)
Updates(t) ==
  /\ pc[t] = "idle"
  /\ IF bucket THEN wire' = Append(wire, Put(t)) /\ Goes(t, "putting")
               ELSE Goes(t, "mending") /\ UNCHANGED wire
  /\ UNCHANGED <<store, linked, bucket, localVars>>

Interval  == running /\ ~event /\ Updates(Loop) /\ Free

UpdateNow(c) == running /\ Updates(c) /\ Spend("update")

(* A request of the client times out.                                      *)
TimesOut(t) ==
  /\ pc[t] \in {"putting", "deleting"}
  /\ ~linked \/ \A i \in DOMAIN wire : wire[i].for # t
  /\ wire' = Forgotten(t)
  /\ Goes(t, IF pc[t] = "putting" THEN "mending" ELSE "remending")
  /\ UNCHANGED <<store, linked, bucket, localVars>> /\ Free

(* Mutant of Mends: the put that failed is sent again, as it was.          *)
MendsAndPuts(t) ==
  /\ pc[t] = "mending"
  /\ linked \/ ~running
  /\ bucket' = (bucket \/ running)
  /\ Goes(t, "idle")
  /\ \E v \in 1..value : wire' = Append(wire, [Put("nobody") EXCEPT !.version = v])
  /\ UNCHANGED <<store, linked, localVars>> /\ Free

(* _attempt_reconnect succeeds, or does nothing when the loop is stopped.  *)
(* The put that failed is left to the next interval.                       *)
Mends(t) ==
  /\ pc[t] = "mending"
  /\ linked \/ ~running
  /\ bucket' = (bucket \/ running)
  /\ Goes(t, "idle")
  /\ UNCHANGED <<store, wire, linked, localVars>> /\ Free

(* All attempts have failed: the loop dies of it, a caller sees the error. *)
GivesUp(t) ==
  /\ pc[t] = "mending" /\ t \in Impatient
  /\ ~linked /\ running
  /\ Goes(t, IF t = Loop THEN "dead" ELSE "idle")
  /\ UNCHANGED <<store, wire, linked, bucket, localVars>> /\ Free

RefreshConnection(c) ==
  /\ pc[c] = "idle"
  /\ bucket' = FALSE
  /\ IF running THEN Goes(c, "mending") ELSE UNCHANGED pc
  /\ UNCHANGED <<store, wire, linked, localVars>> /\ Spend("refresh")

------------------------------------------------------------------------------
(* delete_keys of a task.                                                  *)
Deletes(t) ==
  IF bucket THEN wire' = Append(wire, Delete(t)) /\ Goes(t, "deleting")
            ELSE Goes(t, "unable") /\ UNCHANGED wire

DeletesAgain(t) ==
  /\ pc[t] = "remending"
  /\ linked \/ ~running
  /\ bucket' = (bucket \/ running)
  /\ wire' = Append(wire, Delete(t)) /\ Goes(t, "deleting")
  /\ UNCHANGED <<store, linked, localVars>> /\ Spend("attempt")

StopsDeleting(t) ==
  /\ pc[t] = "remending" /\ budget.attempt = 0
  /\ Goes(t, "unable")
  /\ UNCHANGED <<store, wire, linked, bucket, localVars>> /\ Free

(* The loop after its shutdown event.  It still counts as running.         *)
Shutdown ==
  /\ MayEnd /\ ~event /\ event' = TRUE
  /\ UNCHANGED <<value, store, wire, linked, running, bucket, pc>> /\ Free

LoopEnds ==
  /\ event /\ running /\ pc[Loop] = "idle"
  /\ Deletes(Loop)
  /\ UNCHANGED <<store, linked, bucket, localVars>> /\ Free

(* _stop.  Awaiting a loop that has died raises what it died of, before    *)
(* anything is deleted.                                                    *)
Stop ==
  /\ MayStop /\ pc[Stopper] = "idle"
  /\ running' = FALSE
  /\ IF pc[Loop] = "dead"
     THEN Goes(Stopper, "unable") /\ UNCHANGED wire
     ELSE /\ pc' = [pc EXCEPT ![Loop] = IF @ \in {"gone", "unable"} THEN @ ELSE "cancelled",
                              ![Stopper] = IF bucket THEN "deleting" ELSE "unable"]
          /\ wire' = IF bucket THEN Append(Forgotten(Loop), Delete(Stopper))
                     ELSE Forgotten(Loop)
  /\ UNCHANGED <<value, event, store, linked, bucket>> /\ Free

StopTimesOut ==
  /\ pc[Stopper] \in {"deleting", "remending"}
  /\ wire' = Forgotten(Stopper)
  /\ Goes(Stopper, "timed out")
  /\ UNCHANGED <<store, linked, bucket, localVars>> /\ Free

------------------------------------------------------------------------------
Handle(t) == \/ TimesOut(t) \/ Mends(t) \/ GivesUp(t)
             \/ DeletesAgain(t) \/ StopsDeleting(t)
Over ==
  /\ pc[Stopper] # "idle" \/ ~MayStop
  /\ pc[Loop] \notin {"idle", "putting", "mending", "deleting", "remending"}
  /\ UNCHANGED vars

Next ==
  \/ Changes \/ Breaks \/ Reconnects \/ Loses \/ Serves \/ LosesReply \/ Expires
  \/ Interval \/ LoopEnds \/ Shutdown \/ Stop \/ StopTimesOut
  \/ \E c \in Callers : UpdateNow(c) \/ RefreshConnection(c)
  \/ \E t \in Tasks : Handle(t)
  \/ Over

Spec == Init /\ [][Next]_vars

(* The server serves, the tasks run, and no outage lasts for ever.         *)
FairSpec ==
  /\ Spec
  /\ WF_vars(Reconnects) /\ WF_vars(Serves)
  /\ WF_vars(Interval) /\ WF_vars(LoopEnds)
  /\ \A t \in Tasks : WF_vars(Handle(t))

------------------------------------------------------------------------------
(* Once the keys are deleted at the end of stop, no put that was under way *)
(* brings one back (_stop, _update_now).                                   *)
CleanAfterStop ==
  pc[Stopper] = "gone"
    => store = 0 /\ \A i \in DOMAIN wire : wire[i].op = "delete"

(* Neither the loop nor a call beside it replaces a value in the bucket by *)
(* an older one (_safe_put_value after a reconnect).                       *)
NotOlder == store' = 0 \/ store' >= store
PutsNeverGoBack == [][NotOlder]_store

(* While the loop is neither stopped nor shut down, and the outages come   *)
(* to an end before its attempts do, the bucket comes to hold the value:   *)
(* a put that failed, a reply that was lost and a refresh that did not     *)
(* find the bucket are made up for.                                        *)
Fresh == running /\ ~event => store = value
StaysFresh == <>[]Fresh

(* "Delete all keys added to the bucket by this instance": once stop has   *)
(* returned the key is not there.                                          *)
(* Promised and not kept: see the README, further divergences.             *)
StopDeletes ==
  pc[Stopper] \in {"gone", "unable"} /\ linked /\ wire = <<>> => store = 0

(* "We should delete keys": once the loop that has seen its shutdown event *)
(* has deleted them, they stay so.                                         *)
(* Promised and not kept: see the README, further divergences.             *)
GoneAfterShutdown ==
  [][pc[Loop] = "gone" /\ store = 0 => store' = 0]_store
===============================================================================
