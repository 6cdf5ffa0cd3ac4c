----------------------------- MODULE CameraFrames -----------------------------
(***************************************************************************)
(* Frames of the 4D camera.  The modules of the detector send their parts  *)
(* of a frame to a port each; a process per port passes them on into one   *)
(* socket, from which the aggregator takes them; the assembler keeps parts *)
(* until it has those of all modules.                                      *)
(***************************************************************************)
EXTENDS Naturals, Sequences, FiniteSets, SequencesExt, Functions

CONSTANTS
  Frames,     \* records: scan, number
  Modules,    \* of the detector; the code has four
  MaxLost,    \* parts that a process cannot pass on, or that are malformed
  MaxInbox,   \* messages on their way to the assembler
  None

CameraAssumption ==
  /\ Frames \subseteq [scan : {f.scan : f \in Frames}, number : {f.number : f \in Frames}]
  /\ IsFiniteSet(Modules) /\ Modules # {}
  /\ MaxLost \in Nat /\ MaxInbox \in Nat \ {0}

VARIABLES
  port,       \* per module, frames whose part its process has not read
  socket,     \* per process, parts in the socket
  inbox,      \* messages for the assembler
  cache,      \* FrameCache: per key, the parts of each module
  assembled,  \* frames sent on
  lost        \* parts lost

vars == <<port, socket, inbox, cache, assembled, lost>>

Part(f, m) == [frame |-> f, module |-> m]

(* Parts belong together by scan and frame number.                         *)
Key(part) == [scan |-> part.frame.scan, number |-> part.frame.number]

Init ==
  /\ port = [m \in Modules |-> Frames]
  /\ socket = [m \in Modules |-> <<>>]
  /\ inbox = <<>>
  /\ cache = [k \in {} |-> None]
  /\ assembled = <<>>
  /\ lost = {}

(* zmq_worker reads a message and passes it on, or fails to.               *)
Forwards(m) ==
  /\ \E f \in port[m] :
       /\ port' = [port EXCEPT ![m] = @ \ {f}]
       /\ \/ socket' = [socket EXCEPT ![m] = Append(@, Part(f, m))] /\ lost' = lost
          \/ Cardinality(lost) < MaxLost /\ lost' = lost \cup {Part(f, m)} /\ socket' = socket
  /\ UNCHANGED <<inbox, cache, assembled>>

(* The kernel of the aggregator waits for the next message of any process. *)
Aggregates(m) ==
  /\ socket[m] # <<>> /\ Len(inbox) < MaxInbox
  /\ inbox' = Append(inbox, Head(socket[m]))
  /\ socket' = [socket EXCEPT ![m] = Tail(@)]
  /\ UNCHANGED <<port, cache, assembled, lost>>

PartsOf(key) == IF key \in DOMAIN cache THEN cache[key] ELSE [m \in {} |-> <<>>]
(* add_frame.                                                              *)
Added(part) ==
  LET parts == PartsOf(Key(part))
      m == part.module
  IN [n \in DOMAIN parts \cup {m} |->
        IF n # m THEN parts[n] ELSE Append(IF m \in DOMAIN parts THEN parts[m] ELSE <<>>, part)]

IsComplete(parts) == Cardinality(DOMAIN parts) = Cardinality(Modules)

Keeps(key, parts) ==
  cache' = [k \in DOMAIN cache \cup {key} |-> IF k = key THEN parts ELSE cache[k]]

(* assemble: the parts of a complete frame are stacked and forgotten.      *)
Assembles ==
  /\ inbox # <<>>
  /\ LET part == Head(inbox)
         parts == Added(part)
     IN IF IsComplete(parts)
          THEN /\ assembled' = Append(assembled, parts)
               /\ cache' = [k \in DOMAIN cache \ {Key(part)} |-> cache[k]]
          ELSE assembled' = assembled /\ Keeps(Key(part), parts)
  /\ inbox' = Tail(inbox)
  /\ UNCHANGED <<port, socket, lost>>

Next == (\E m \in Modules : Forwards(m) \/ Aggregates(m)) \/ Assembles

Spec == Init /\ [][Next]_vars
FairSpec == Spec /\ WF_vars(Next)

-----------------------------------------------------------------------------

FrameOf(parts) == (CHOOSE part \in {parts[m][1] : m \in DOMAIN parts} : TRUE).frame

(* A frame that is sent on has one part of each module, all of them of the *)
(* same frame of the same scan, and no other is of that frame, although    *)
(* the parts of many frames come mixed and some never come.                *)
SentWhole ==
  /\ \A i, j \in DOMAIN assembled : FrameOf(assembled[i]) = FrameOf(assembled[j]) => i = j
  /\ \A parts \in Range(assembled) :
       /\ DOMAIN parts = Modules
       /\ \A m \in Modules : parts[m] = <<Part(FrameOf(parts), m)>>

Quiet == inbox = <<>> /\ \A m \in Modules : port[m] = {} /\ socket[m] = <<>>

(* When nothing is on its way, each frame all of whose parts came was sent *)
(* on and is forgotten, and of the others what came is kept.               *)
AllThatCame ==
  Quiet => \A f \in Frames :
    LET came == {m \in Modules : Part(f, m) \notin lost}
    IN /\ (came = Modules) = (\E parts \in Range(assembled) : FrameOf(parts) = f)
       /\ (came \notin {{}, Modules}) = (f \in DOMAIN cache)

Ended(f) ==
  \/ \E m \in Modules : Part(f, m) \in lost
  \/ \E parts \in Range(assembled) : FrameOf(parts) = f

(* Each frame is sent on in the end, unless a part of it is lost.          *)
AllSent ==
  \A f \in Frames : []<>Ended(f)

CameraTypeOK ==
  /\ \A k \in DOMAIN cache :
       /\ DOMAIN cache[k] \subseteq Modules /\ DOMAIN cache[k] \notin {{}, Modules}
       /\ \A m \in DOMAIN cache[k] : Key(cache[k][m][1]) = k
  /\ Len(inbox) <= MaxInbox
===============================================================================
