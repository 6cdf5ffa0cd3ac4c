--------------------------- MODULE Dataflow_proofs ---------------------------
(***************************************************************************)
(* What the messengers keep of the messages between the operators, for     *)
(* every pipeline, number of messages and capacity of the connections.     *)
(* What a port has been given is what its kernel was handed and at most one*)
(* message that waits (Count, Value).  The inputs of an operator are given *)
(* as many; without replicas the next message of a port is known from their*)
(* number; with replicas a message is in each stage of the pipeline once.  *)
(***************************************************************************)
EXTENDS Dataflow, FiniteSetTheorems, SequenceTheorems, TLAPS
------------------------------------------------------------------------------
(* The flow of messages between operators.                                 *)
FlowTyped ==
  /\ made \in [Sources -> 0..Messages]
  /\ channel \in [Edges -> Seq(Ids)]
  /\ taken \in [InPorts -> 0..Messages]
  /\ recvQueue \in [Operators -> Seq(InPorts \X Ids)]
  /\ kernel \in [Operators -> 0..Messages]
  /\ outbox \in [Operators -> SUBSET OutPorts]
  /\ handed \in [InPorts -> Seq(Ids)]

FlowBounded ==
  /\ \A e \in Edges : Len(channel[e]) <= HighWaterMark
  /\ \A o \in Operators :
       /\ Len(recvQueue[o]) <= Cardinality(InOf(o))
       /\ outbox[o] \subseteq OutOf(o)
       /\ outbox[o] # {} => kernel[o] # 0

(* The queue has one message for each port that is in it, and while it has *)
(* any nothing is received.                                                *)
QueueApart ==
  /\ \A o \in Operators : \A i, j \in DOMAIN recvQueue[o] :
       /\ recvQueue[o][i][1] \in InOf(o)
       /\ recvQueue[o][i][1] = recvQueue[o][j][1] => i = j
  /\ \A p \in InPorts : taken[p] # 0 => recvQueue[Owner[p]] = <<>>

FlowKept == FlowTyped /\ FlowBounded /\ QueueApart

LEMMA FlowOwners ==
  ASSUME DataflowAssumption
  PROVE  /\ \A o : \A p \in InOf(o) : p \in InPorts /\ Owner[p] = o
         /\ \A o : \A p \in OutOf(o) : p \in OutPorts /\ Owner[p] = o
         /\ \A p \in InPorts : Owner[p] \in Operators /\ p \in InOf(Owner[p])
         /\ \A p \in OutPorts : Owner[p] \in Operators /\ p \in OutOf(Owner[p])
         /\ \A e \in Edges : e[1] \in OutPorts /\ e[2] \in InPorts
         /\ Messages \in Nat /\ Messages # 0 /\ HighWaterMark \in Nat /\ HighWaterMark # 0
         /\ Sources \subseteq Operators
BY DEF DataflowAssumption, InOf, OutOf, Sources

LEMMA SequenceOfSet ==
  ASSUME NEW S, IsFiniteSet(S)
  PROVE  /\ SetToSeq(S) \in Seq(S) /\ Len(SetToSeq(S)) = Cardinality(S)
         /\ \A i, j \in DOMAIN SetToSeq(S) : SetToSeq(S)[i] = SetToSeq(S)[j] => i = j
         /\ \A x \in S : \E i \in DOMAIN SetToSeq(S) : SetToSeq(S)[i] = x
<1>. DEFINE n == Cardinality(S)
<1>1. n \in Nat /\ ExistsBijection(1..n, S)
  BY FS_CardinalityType
<1>2. \E f \in [1..n -> S] : IsInjective(f)
  BY <1>1 DEF ExistsBijection, Bijection, Injection
<1>. DEFINE f == SetToSeq(S)
<1>3. f \in [1..n -> S] /\ IsInjective(f)
  BY <1>2 DEF SetToSeq
<1>4. f \in Injection(1..n, S)
  BY <1>3 DEF Injection
<1>5. IsFiniteSet(1..n) /\ Cardinality(1..n) = n
  BY <1>1, FS_Interval
<1>6. f \in Surjection(1..n, S)
  BY <1>4, <1>5, FS_Injection
<1>. HIDE DEF f
<1>7. \A x \in S : \E i \in 1..n : f[i] = x
  BY <1>6 DEF Surjection
<1>8. f \in Seq(S) /\ Len(f) = n /\ DOMAIN f = 1..n
  BY <1>1, <1>3
<1>9. \A i, j \in DOMAIN f : f[i] = f[j] => i = j
  BY <1>3 DEF IsInjective
<1>10. QED
  BY <1>7, <1>8, <1>9 DEF f

(* What is received of a socket, gathered, given to the kernel and sent.   *)
Taken(e, p) ==
  /\ e[2] = p /\ Len(channel[e]) > 0 /\ taken[p] = 0 /\ recvQueue[Owner[p]] = <<>>
  /\ taken'[p] = channel[e][1] /\ taken'[p] \in Ids
  /\ \A q \in InPorts \ {p} : taken'[q] = taken[q]
  /\ Len(channel'[e]) = Len(channel[e]) - 1
  /\ \A i \in 1 .. Len(channel[e]) - 1 : channel'[e][i] = channel[e][i + 1]
  /\ \A f \in Edges \ {e} : channel'[f] = channel[f]
  /\ channel' \in [Edges -> Seq(Ids)] /\ taken' \in [InPorts -> 0..Messages]

LEMMA RecvOneIs ==
  ASSUME DataflowAssumption, FlowTyped, NEW p \in InPorts, RecvOne(p)
  PROVE  \E e \in Edges : Taken(e, p)
<1>1. PICK e \in Edges :
        /\ e[2] = p /\ channel[e] # <<>>
        /\ taken' = [taken EXCEPT ![p] = Head(channel[e])]
        /\ channel' = [channel EXCEPT ![e] = Tail(@)]
  BY DEF RecvOne
<1>2. channel[e] \in Seq(Ids)
  BY DEF FlowTyped
<1>3. /\ Len(channel[e]) \in Nat /\ Len(channel[e]) > 0
      /\ Head(channel[e]) = channel[e][1] /\ Head(channel[e]) \in Ids
      /\ Tail(channel[e]) \in Seq(Ids) /\ Len(Tail(channel[e])) = Len(channel[e]) - 1
      /\ \A i \in 1 .. Len(channel[e]) - 1 : Tail(channel[e])[i] = channel[e][i + 1]
  BY <1>1, <1>2, HeadTailProperties, EmptySeq, LenProperties
<1>4. /\ taken'[p] = Head(channel[e]) /\ channel'[e] = Tail(channel[e])
      /\ \A q \in InPorts \ {p} : taken'[q] = taken[q]
      /\ \A f \in Edges \ {e} : channel'[f] = channel[f]
  BY <1>1 DEF FlowTyped
<1>5. taken[p] = 0 /\ recvQueue[Owner[p]] = <<>>
  BY DEF RecvOne
<1>6. channel' \in [Edges -> Seq(Ids)] /\ taken' \in [InPorts -> 0..Messages]
  BY <1>1, <1>3 DEF FlowTyped, Ids
<1>7. Taken(e, p)
  BY <1>1, <1>3, <1>4, <1>5, <1>6 DEF Taken
<1>8. QED
  BY <1>7

Filled(o) ==
  /\ recvQueue[o] = <<>> /\ \A p \in InOf(o) : taken[p] \in Ids
  /\ recvQueue' \in [Operators -> Seq(InPorts \X Ids)]
  /\ taken' \in [InPorts -> 0..Messages]
  /\ Len(recvQueue'[o]) = Cardinality(InOf(o))
  /\ \A i \in DOMAIN recvQueue'[o] :
       /\ recvQueue'[o][i][1] \in InOf(o)
       /\ recvQueue'[o][i][2] = taken[recvQueue'[o][i][1]]
  /\ \A i, j \in DOMAIN recvQueue'[o] :
       recvQueue'[o][i][1] = recvQueue'[o][j][1] => i = j
  /\ \A p \in InOf(o) : \E i \in DOMAIN recvQueue'[o] : recvQueue'[o][i][1] = p
  /\ \A b \in Operators \ {o} : recvQueue'[b] = recvQueue[b]
  /\ \A p \in InPorts : taken'[p] = IF p \in InOf(o) THEN 0 ELSE taken[p]

LEMMA GatheredIs ==
  ASSUME DataflowAssumption, IsFiniteSet(InPorts), FlowTyped, NEW o \in Operators, Gathered(o)
  PROVE  Filled(o)
<1>. DEFINE S == {<<p, taken[p]>> : p \in InOf(o)}
            s == SetToSeq(S)
            f == [p \in InOf(o) |-> <<p, taken[p]>>]
<1>1. /\ recvQueue[o] = <<>> /\ \A p \in InOf(o) : taken[p] # 0
      /\ recvQueue' = [recvQueue EXCEPT ![o] = s]
      /\ taken' = [p \in InPorts |-> IF Owner[p] = o THEN 0 ELSE taken[p]]
  BY DEF Gathered
<1>2. \A p \in InOf(o) : p \in InPorts /\ taken[p] \in Ids
  BY <1>1 DEF FlowTyped, InOf, Ids
<1>3. IsFiniteSet(InOf(o))
  BY FS_Subset DEF InOf
<1>4. f \in Bijection(InOf(o), S)
  BY DEF Bijection, Injection, Surjection, IsInjective
<1>5. IsFiniteSet(S) /\ Cardinality(S) = Cardinality(InOf(o))
  BY <1>3, <1>4, FS_Bijection DEF ExistsBijection
<1>6. /\ s \in Seq(S) /\ Len(s) = Cardinality(InOf(o))
      /\ \A i, j \in DOMAIN s : s[i] = s[j] => i = j
      /\ \A x \in S : \E i \in DOMAIN s : s[i] = x
  BY <1>5, SequenceOfSet
<1>7. S \subseteq InPorts \X Ids
  BY <1>2
<1>8. s \in Seq(InPorts \X Ids)
  BY <1>6, <1>7, SeqMonotonic
<1>9. \A x \in S : x[1] \in InOf(o) /\ x[2] = taken[x[1]]
  OBVIOUS
<1>10. \A i \in DOMAIN s : s[i] \in S
  BY <1>6, ElementOfSeq, LenProperties
<1>11. \A x, y \in S : x[1] = y[1] => x = y
  OBVIOUS
<1>12. \A p \in InOf(o) : \E x \in S : x[1] = p
  <2>1. \A p \in InOf(o) : <<p, taken[p]>> \in S /\ <<p, taken[p]>>[1] = p
    OBVIOUS
  <2>2. QED
    BY <2>1
<1>13. /\ recvQueue'[o] = s /\ \A b \in Operators \ {o} : recvQueue'[b] = recvQueue[b]
       /\ \A p \in InPorts : taken'[p] = IF p \in InOf(o) THEN 0 ELSE taken[p]
  BY <1>1 DEF FlowTyped, InOf
<1>. HIDE DEF s, S
<1>14. \A p \in InOf(o) : \E i \in DOMAIN s : s[i][1] = p
  BY <1>6, <1>12
<1>15. \A i, j \in DOMAIN s : s[i][1] = s[j][1] => i = j
  BY <1>6, <1>10, <1>11
<1>16. \A i \in DOMAIN s : s[i][1] \in InOf(o) /\ s[i][2] = taken[s[i][1]]
  BY <1>9, <1>10
<1>17. recvQueue' \in [Operators -> Seq(InPorts \X Ids)] /\ taken' \in [InPorts -> 0..Messages]
  BY <1>1, <1>8, FlowOwners DEF FlowTyped
<1>18. QED
  BY <1>1, <1>2, <1>6, <1>13, <1>14, <1>15, <1>16, <1>17 DEF Filled

HandedOver(o, p, m) ==
  /\ kernel[o] = 0 /\ Len(recvQueue[o]) > 0 /\ recvQueue[o][1] = <<p, m>>
  /\ handed' \in [InPorts -> Seq(Ids)] /\ Len(handed'[p]) = Len(handed[p]) + 1
  /\ handed'[p][Len(handed[p]) + 1] = m
  /\ \A i \in 1 .. Len(handed[p]) : handed'[p][i] = handed[p][i]
  /\ \A q \in InPorts \ {p} : handed'[q] = handed[q]
  /\ recvQueue' \in [Operators -> Seq(InPorts \X Ids)]
  /\ kernel' \in [Operators -> 0..Messages] /\ outbox' \in [Operators -> SUBSET OutPorts]
  /\ Len(recvQueue'[o]) = Len(recvQueue[o]) - 1
  /\ \A i \in 1 .. Len(recvQueue[o]) - 1 : recvQueue'[o][i] = recvQueue[o][i + 1]
  /\ \A b \in Operators \ {o} : recvQueue'[b] = recvQueue[b]
  /\ kernel'[o] = (IF o \in Sinks THEN 0 ELSE m) /\ outbox'[o] = OutOf(o)
  /\ \A b \in Operators \ {o} : kernel'[b] = kernel[b] /\ outbox'[b] = outbox[b]

LEMMA RecvIs ==
  ASSUME DataflowAssumption, FlowTyped, NEW o \in Operators, Recv(o)
  PROVE  \E p \in InPorts, m \in Ids : HandedOver(o, p, m)
<1>. DEFINE s == recvQueue[o]
<1>1. s \in Seq(InPorts \X Ids) /\ s # <<>>
  BY DEF FlowTyped, Recv
<1>2. /\ Len(s) \in Nat /\ Len(s) > 0 /\ Head(s) = s[1] /\ Head(s) \in InPorts \X Ids
      /\ Tail(s) \in Seq(InPorts \X Ids) /\ Len(Tail(s)) = Len(s) - 1
      /\ \A i \in 1 .. Len(s) - 1 : Tail(s)[i] = s[i + 1]
  BY <1>1, HeadTailProperties, EmptySeq, LenProperties
<1>3. PICK p \in InPorts, m \in Ids : s[1] = <<p, m>> /\ Head(s)[1] = p /\ Head(s)[2] = m
  BY <1>2
<1>4. /\ kernel[o] = 0
      /\ handed' = [handed EXCEPT ![p] = Append(@, m)]
      /\ kernel' = [kernel EXCEPT ![o] = IF o \in Sinks THEN 0 ELSE m]
      /\ recvQueue' = [recvQueue EXCEPT ![o] = Tail(@)]
      /\ outbox' = [outbox EXCEPT ![o] = OutOf(o)]
  BY <1>3 DEF Recv
<1>5. handed[p] \in Seq(Ids) /\ handed'[p] = Append(handed[p], m)
  BY <1>4 DEF FlowTyped
<1>6. /\ handed'[p] \in Seq(Ids) /\ Len(handed'[p]) = Len(handed[p]) + 1
      /\ handed'[p][Len(handed[p]) + 1] = m
      /\ \A i \in 1 .. Len(handed[p]) : handed'[p][i] = handed[p][i]
  BY <1>5, AppendProperties
<1>7. handed' \in [InPorts -> Seq(Ids)] /\ \A q \in InPorts \ {p} : handed'[q] = handed[q]
  BY <1>4, <1>5, <1>6 DEF FlowTyped
<1>8. recvQueue'[o] = Tail(s) /\ \A b \in Operators \ {o} : recvQueue'[b] = recvQueue[b]
  BY <1>4 DEF FlowTyped
<1>9. /\ kernel'[o] = (IF o \in Sinks THEN 0 ELSE m) /\ outbox'[o] = OutOf(o)
      /\ \A b \in Operators \ {o} : kernel'[b] = kernel[b] /\ outbox'[b] = outbox[b]
      /\ kernel' \in [Operators -> 0..Messages] /\ outbox' \in [Operators -> SUBSET OutPorts]
  BY <1>4, FlowOwners DEF FlowTyped, Ids
<1>10. recvQueue' \in [Operators -> Seq(InPorts \X Ids)]
  BY <1>2, <1>4 DEF FlowTyped
<1>. HIDE DEF s
<1>11. HandedOver(o, p, m)
  BY <1>2, <1>3, <1>4, <1>6, <1>7, <1>8, <1>9, <1>10 DEF HandedOver, s
<1>12. QED
  BY <1>11

Sent(o, p, e) ==
  /\ e[1] = p /\ p \in outbox[o] /\ kernel[o] # 0 /\ Len(channel[e]) < HighWaterMark
  /\ channel' \in [Edges -> Seq(Ids)] /\ Len(channel'[e]) = Len(channel[e]) + 1
  /\ channel'[e][Len(channel[e]) + 1] = kernel[o]
  /\ \A i \in 1 .. Len(channel[e]) : channel'[e][i] = channel[e][i]
  /\ \A f \in Edges \ {e} : channel'[f] = channel[f]
  /\ kernel' \in [Operators -> 0..Messages] /\ outbox' \in [Operators -> SUBSET OutPorts]
  /\ outbox'[o] = outbox[o] \ {p}
  /\ kernel'[o] = IF outbox'[o] = {} THEN 0 ELSE kernel[o]
  /\ \A b \in Operators \ {o} : kernel'[b] = kernel[b] /\ outbox'[b] = outbox[b]

LEMMA SendOneIs ==
  ASSUME DataflowAssumption, FlowTyped, FlowBounded, NEW o \in Operators,
         NEW p \in OutPorts, SendOne(o, p)
  PROVE  \E e \in Edges : Sent(o, p, e)
<1>1. PICK e \in Edges :
        /\ e[1] = p /\ Len(channel[e]) < HighWaterMark
        /\ channel' = [channel EXCEPT ![e] = Append(@, kernel[o])]
  BY DEF SendOne, SendTo
<1>2. /\ p \in outbox[o] /\ outbox' = [outbox EXCEPT ![o] = @ \ {p}]
      /\ kernel' = IF outbox[o] = {p} THEN [kernel EXCEPT ![o] = 0] ELSE kernel
  BY DEF SendOne
<1>3. channel[e] \in Seq(Ids) /\ kernel[o] \in Ids
  BY <1>2 DEF FlowTyped, FlowBounded, Ids
<1>4. channel' \in [Edges -> Seq(Ids)] /\ channel'[e] = Append(channel[e], kernel[o])
  BY <1>1, <1>3, AppendProperties DEF FlowTyped
<1>5. /\ Len(channel'[e]) = Len(channel[e]) + 1
      /\ channel'[e][Len(channel[e]) + 1] = kernel[o]
      /\ \A i \in 1 .. Len(channel[e]) : channel'[e][i] = channel[e][i]
  BY <1>3, <1>4, AppendProperties
<1>6. \A f \in Edges \ {e} : channel'[f] = channel[f]
  BY <1>1 DEF FlowTyped
<1>7. /\ outbox'[o] = outbox[o] \ {p}
      /\ kernel'[o] = IF outbox'[o] = {} THEN 0 ELSE kernel[o]
      /\ \A b \in Operators \ {o} : kernel'[b] = kernel[b] /\ outbox'[b] = outbox[b]
      /\ kernel' \in [Operators -> 0..Messages] /\ outbox' \in [Operators -> SUBSET OutPorts]
  BY <1>2, FlowOwners DEF FlowTyped
<1>8. kernel[o] # 0
  BY <1>2 DEF FlowBounded
<1>9. Sent(o, p, e)
  BY <1>1, <1>2, <1>4, <1>5, <1>6, <1>7, <1>8 DEF Sent
<1>10. QED
  BY <1>9

Makes(o) ==
  /\ kernel[o] = 0 /\ made[o] < Messages
  /\ made' \in [Sources -> 0..Messages] /\ made'[o] = made[o] + 1
  /\ \A b \in Sources \ {o} : made'[b] = made[b]
  /\ kernel' \in [Operators -> 0..Messages] /\ outbox' \in [Operators -> SUBSET OutPorts]
  /\ kernel'[o] = made[o] + 1 /\ outbox'[o] = OutOf(o)
  /\ \A b \in Operators \ {o} : kernel'[b] = kernel[b] /\ outbox'[b] = outbox[b]

LEMMA MakeIs ==
  ASSUME DataflowAssumption, FlowTyped, NEW o \in Sources, Make(o)
  PROVE  Makes(o)
BY FlowOwners DEF Make, Makes, FlowTyped

LEMMA FlowMoves ==
  ASSUME DataflowAssumption, IsFiniteSet(InPorts), FlowTyped, FlowBounded, Next
  PROVE  \/ /\ \E o \in Sources : Makes(o)
            /\ UNCHANGED <<channel, taken, recvQueue, handed>>
         \/ /\ \E p \in InPorts : \E e \in Edges : Taken(e, p)
            /\ UNCHANGED <<made, recvQueue, kernel, outbox, handed>>
         \/ /\ \E o \in Operators : Filled(o)
            /\ UNCHANGED <<made, channel, kernel, outbox, handed>>
         \/ /\ \E o \in Operators : \E p \in InPorts, m \in Ids : HandedOver(o, p, m)
            /\ UNCHANGED <<made, channel, taken>>
         \/ /\ \E o \in Operators, p \in OutPorts : \E e \in Edges : Sent(o, p, e)
            /\ UNCHANGED <<made, taken, recvQueue, handed>>
<1>1. PICK o \in Operators : Works(o)
  BY DEF Next
<1>2. CASE Make(o)
  BY <1>2, MakeIs DEF Make
<1>3. CASE Gathered(o)
  BY <1>3, GatheredIs DEF Gathered
<1>4. CASE Recv(o)
  BY <1>4, RecvIs DEF Recv
<1>5. ASSUME NEW p \in InOf(o), RecvOne(p)
      PROVE  /\ \E q \in InPorts : \E e \in Edges : Taken(e, q)
             /\ UNCHANGED <<made, recvQueue, kernel, outbox, handed>>
  BY <1>5, FlowOwners, RecvOneIs DEF RecvOne
<1>6. ASSUME NEW p \in OutOf(o), SendOne(o, p)
      PROVE  /\ \E b \in Operators, q \in OutPorts : \E e \in Edges : Sent(b, q, e)
             /\ UNCHANGED <<made, taken, recvQueue, handed>>
  BY <1>6, FlowOwners, SendOneIs DEF SendOne
<1>7. QED
  BY <1>1, <1>2, <1>3, <1>4, <1>5, <1>6 DEF Works

LEMMA FlowKeptNext ==
  ASSUME DataflowAssumption, IsFiniteSet(InPorts), FlowKept, [Next]_vars
  PROVE  FlowKept'
<1>1. FlowTyped /\ FlowBounded /\ QueueApart
  BY DEF FlowKept
<1>2. /\ \A e \in Edges : Len(channel[e]) \in Nat
      /\ \A o \in Operators : /\ recvQueue[o] \in Seq(InPorts \X Ids)
                              /\ Len(recvQueue[o]) \in Nat
                              /\ DOMAIN recvQueue[o] = 1 .. Len(recvQueue[o])
      /\ HighWaterMark \in Nat /\ HighWaterMark # 0
  BY <1>1, LenProperties, FlowOwners DEF FlowTyped
<1>3. ASSUME NEW o \in Sources, Makes(o), UNCHANGED <<channel, taken, recvQueue, handed>>
      PROVE  FlowKept'
  <2>1. FlowTyped'
    BY <1>1, <1>3 DEF FlowTyped, Makes
  <2>2. o \in Operators /\ OutOf(o)' = OutOf(o)
    BY FlowOwners DEF OutOf
  <2>3. FlowBounded'
    <3>1. ASSUME NEW b \in Operators
          PROVE  outbox'[b] \subseteq OutOf(b) /\ (outbox'[b] # {} => kernel'[b] # 0)
      BY <1>1, <1>3, <2>2 DEF FlowBounded, Makes, FlowTyped
    <3>2. QED
      BY <1>1, <1>3, <3>1 DEF FlowBounded, OutOf, InOf
  <2>4. QueueApart'
    BY <1>1, <1>3 DEF QueueApart, InOf
  <2>5. QED
    BY <2>1, <2>3, <2>4 DEF FlowKept
<1>4. ASSUME NEW p \in InPorts, NEW e \in Edges, Taken(e, p),
             UNCHANGED <<made, recvQueue, kernel, outbox, handed>>
      PROVE  FlowKept'
  <2>1. FlowTyped'
    BY <1>1, <1>4 DEF FlowTyped, Taken
  <2>2. FlowBounded'
    <3>1. Len(channel'[e]) = Len(channel[e]) - 1 /\ \A f \in Edges \ {e} : channel'[f] = channel[f]
      BY <1>4 DEF Taken
    <3>2. \A f \in Edges : Len(channel'[f]) <= HighWaterMark
      BY <1>1, <1>2, <3>1 DEF FlowBounded
    <3>3. QED
      BY <1>1, <1>4, <3>2 DEF FlowBounded, OutOf, InOf
  <2>3. QueueApart'
    <3>1. /\ \A q \in InPorts \ {p} : taken'[q] = taken[q]
          /\ recvQueue[Owner[p]] = <<>> /\ recvQueue' = recvQueue
      BY <1>4 DEF Taken
    <3>2. QED
      BY <1>1, <3>1 DEF QueueApart, InOf
  <2>4. QED
    BY <2>1, <2>2, <2>3 DEF FlowKept
<1>5. ASSUME NEW o \in Operators, Filled(o), UNCHANGED <<made, channel, kernel, outbox, handed>>
      PROVE  FlowKept'
  <2>1. FlowTyped'
    BY <1>1, <1>5 DEF FlowTyped, Filled
  <2>2. FlowBounded'
    <3>1. IsFiniteSet(InOf(o))
      BY FS_Subset DEF InOf
    <3>2. Cardinality(InOf(o)) \in Nat
      BY <3>1, FS_CardinalityType
    <3>3. \A b \in Operators : Len(recvQueue'[b]) <= Cardinality(InOf(b))
      <4>1. /\ Len(recvQueue'[o]) = Cardinality(InOf(o))
            /\ \A b \in Operators \ {o} : recvQueue'[b] = recvQueue[b]
        BY <1>5 DEF Filled
      <4>2. QED
        BY <1>1, <3>2, <4>1 DEF FlowBounded
    <3>4. QED
      BY <1>1, <1>5, <3>3 DEF FlowBounded, OutOf, InOf
  <2>3. ASSUME NEW b \in Operators, NEW i \in DOMAIN recvQueue'[b], NEW j \in DOMAIN recvQueue'[b]
        PROVE  /\ recvQueue'[b][i][1] \in InOf(b)
               /\ recvQueue'[b][i][1] = recvQueue'[b][j][1] => i = j
    <3>1. CASE b = o
      BY <1>5, <2>3, <3>1 DEF Filled
    <3>2. CASE b # o
      <4>1. recvQueue'[b] = recvQueue[b]
        BY <1>5, <3>2 DEF Filled
      <4>2. QED
        BY <1>1, <2>3, <4>1 DEF QueueApart
    <3>3. QED
      BY <3>1, <3>2
  <2>4. ASSUME NEW p \in InPorts, taken'[p] # 0 PROVE recvQueue'[Owner[p]] = <<>>
    <3>1. p \notin InOf(o) /\ taken[p] # 0
      BY <1>5, <2>4 DEF Filled
    <3>2. Owner[p] \in Operators \ {o}
      BY <3>1, FlowOwners DEF InOf
    <3>3. recvQueue'[Owner[p]] = recvQueue[Owner[p]]
      BY <1>5, <3>2 DEF Filled
    <3>4. QED
      BY <1>1, <3>1, <3>3 DEF QueueApart
  <2>5. QueueApart'
    BY <2>3, <2>4 DEF QueueApart, InOf
  <2>6. QED
    BY <2>1, <2>2, <2>5 DEF FlowKept
<1>6. ASSUME NEW o \in Operators, NEW p \in InPorts, NEW m \in Ids, HandedOver(o, p, m),
             UNCHANGED <<made, channel, taken>>
      PROVE  FlowKept'
  <2>1. FlowTyped'
    BY <1>1, <1>6 DEF FlowTyped, HandedOver
  <2>2. FlowBounded'
    <3>1. IsFiniteSet(InOf(o))
      BY FS_Subset DEF InOf
    <3>2. Cardinality(InOf(o)) \in Nat
      BY <3>1, FS_CardinalityType
    <3>3. \A b \in Operators : Len(recvQueue'[b]) <= Cardinality(InOf(b))
      <4>1. /\ Len(recvQueue'[o]) = Len(recvQueue[o]) - 1
            /\ \A b \in Operators \ {o} : recvQueue'[b] = recvQueue[b]
        BY <1>6 DEF HandedOver
      <4>2. QED
        BY <1>1, <1>2, <3>2, <4>1 DEF FlowBounded
    <3>4. ASSUME NEW b \in Operators
          PROVE  outbox'[b] \subseteq OutOf(b) /\ (outbox'[b] # {} => kernel'[b] # 0)
      <4>1. /\ kernel'[o] = (IF o \in Sinks THEN 0 ELSE m) /\ outbox'[o] = OutOf(o)
            /\ \A c \in Operators \ {o} : kernel'[c] = kernel[c] /\ outbox'[c] = outbox[c]
        BY <1>6 DEF HandedOver
      <4>2. m # 0 /\ (o \in Sinks <=> OutOf(o) = {})
        BY DEF Sinks, Ids
      <4>3. QED
        BY <1>1, <4>1, <4>2 DEF FlowBounded
    <3>5. QED
      BY <1>1, <1>6, <3>3, <3>4 DEF FlowBounded, OutOf, InOf
  <2>3. recvQueue'[o] \in Seq(InPorts \X Ids) /\ DOMAIN recvQueue'[o] = 1 .. Len(recvQueue[o]) - 1
    BY <2>1, <1>6, LenProperties DEF FlowTyped, HandedOver
  <2>4. ASSUME NEW b \in Operators, NEW i \in DOMAIN recvQueue'[b], NEW j \in DOMAIN recvQueue'[b]
        PROVE  /\ recvQueue'[b][i][1] \in InOf(b)
               /\ recvQueue'[b][i][1] = recvQueue'[b][j][1] => i = j
    <3>1. CASE b = o
      <4>1. /\ i + 1 \in DOMAIN recvQueue[o] /\ j + 1 \in DOMAIN recvQueue[o]
            /\ i \in Int /\ j \in Int
            /\ recvQueue'[o][i] = recvQueue[o][i + 1] /\ recvQueue'[o][j] = recvQueue[o][j + 1]
        <5>1. \A k \in 1 .. Len(recvQueue[o]) - 1 : recvQueue'[o][k] = recvQueue[o][k + 1]
          BY <1>6 DEF HandedOver
        <5>2. i \in 1 .. Len(recvQueue[o]) - 1 /\ j \in 1 .. Len(recvQueue[o]) - 1
          BY <2>3, <2>4, <3>1
        <5>3. QED
          BY <1>2, <5>1, <5>2
      <4>2. /\ recvQueue[o][i + 1][1] \in InOf(o)
            /\ recvQueue[o][i + 1][1] = recvQueue[o][j + 1][1] => i + 1 = j + 1
        BY <1>1, <4>1 DEF QueueApart
      <4>3. QED
        BY <3>1, <4>1, <4>2
    <3>2. CASE b # o
      <4>1. recvQueue'[b] = recvQueue[b]
        BY <1>6, <3>2 DEF HandedOver
      <4>2. QED
        BY <1>1, <2>4, <4>1 DEF QueueApart
    <3>3. QED
      BY <3>1, <3>2
  <2>5. ASSUME NEW q \in InPorts, taken'[q] # 0 PROVE recvQueue'[Owner[q]] = <<>>
    <3>1. recvQueue[Owner[q]] = <<>> /\ Owner[q] \in Operators
      BY <1>1, <1>6, <2>5, FlowOwners DEF QueueApart
    <3>2. Owner[q] # o
      BY <1>6, <3>1 DEF HandedOver
    <3>3. QED
      BY <1>6, <3>1, <3>2 DEF HandedOver
  <2>6. QueueApart'
    BY <2>4, <2>5 DEF QueueApart, InOf
  <2>7. QED
    BY <2>1, <2>2, <2>6 DEF FlowKept
<1>7. ASSUME NEW o \in Operators, NEW p \in OutPorts, NEW e \in Edges, Sent(o, p, e),
             UNCHANGED <<made, taken, recvQueue, handed>>
      PROVE  FlowKept'
  <2>1. FlowTyped'
    BY <1>1, <1>7 DEF FlowTyped, Sent
  <2>2. FlowBounded'
    <3>0. /\ Len(channel[e]) < HighWaterMark /\ Len(channel'[e]) = Len(channel[e]) + 1
          /\ \A f \in Edges \ {e} : channel'[f] = channel[f]
      BY <1>7 DEF Sent
    <3>1. \A f \in Edges : Len(channel'[f]) <= HighWaterMark
      BY <1>1, <1>2, <3>0 DEF FlowBounded
    <3>2. ASSUME NEW b \in Operators
          PROVE  outbox'[b] \subseteq OutOf(b) /\ (outbox'[b] # {} => kernel'[b] # 0)
      BY <1>1, <1>7 DEF FlowBounded, Sent
    <3>3. QED
      BY <1>1, <1>7, <3>1, <3>2 DEF FlowBounded, OutOf, InOf
  <2>3. QueueApart'
    BY <1>1, <1>7 DEF QueueApart, InOf
  <2>4. QED
    BY <2>1, <2>2, <2>3 DEF FlowKept
<1>8. CASE UNCHANGED vars
  <2>1. UNCHANGED <<made, channel, taken, recvQueue, kernel, outbox, handed>>
    BY <1>8 DEF vars
  <2>2. FlowTyped'
    BY <1>1, <2>1 DEF FlowTyped
  <2>3. FlowBounded'
    BY <1>1, <2>1 DEF FlowBounded, InOf, OutOf
  <2>4. QueueApart'
    BY <1>1, <2>1 DEF QueueApart, InOf
  <2>5. QED
    BY <2>2, <2>3, <2>4 DEF FlowKept
<1>9. QED
  BY <1>1, <1>3, <1>4, <1>5, <1>6, <1>7, <1>8, FlowMoves

LEMMA FlowKeptInit ==
  ASSUME DataflowAssumption, IsFiniteSet(InPorts), Init PROVE FlowKept
<1>1. FlowTyped
  BY FlowOwners DEF Init, FlowTyped
<1>2. \A o \in Operators : Cardinality(InOf(o)) \in Nat
  <2>1. \A o \in Operators : IsFiniteSet(InOf(o))
    BY FS_Subset DEF InOf
  <2>2. QED
    BY <2>1, FS_CardinalityType
<1>3. FlowBounded
  BY <1>2, FlowOwners DEF Init, FlowBounded
<1>4. QueueApart
  BY DEF Init, QueueApart
<1>5. QED
  BY <1>1, <1>3, <1>4 DEF FlowKept

LEMMA FlowTypeCorrect ==
  ASSUME DataflowAssumption, IsFiniteSet(InPorts), FlowKept PROVE TypeOK
<1>1. \A o \in Operators : Cardinality(InOf(o)) \in Nat /\ Len(recvQueue[o]) \in Nat
  <2>1. \A o \in Operators : IsFiniteSet(InOf(o))
    BY FS_Subset DEF InOf
  <2>2. QED
    BY <2>1, FS_CardinalityType, LenProperties DEF FlowKept, FlowTyped
<1>2. \A o \in Operators : Len(recvQueue[o]) < Cardinality(InOf(o)) + 1
  BY <1>1 DEF FlowKept, FlowBounded
<1>3. QED
  BY <1>2 DEF FlowKept, FlowTyped, FlowBounded, TypeOK

(* What a port has been given by the sockets: what its kernel was handed   *)
(* and at most one message that waits, in the receive under way or in the  *)
(* queue.                                                                  *)
InQueue(q, p, m) == \E i \in DOMAIN q : q[i] = <<p, m>>
IsQueued(q, p) == \E m \in Ids : InQueue(q, p, m)
Waits(t, q, p) ==
  IF t # 0 THEN t ELSE IF IsQueued(q, p) THEN CHOOSE m \in Ids : InQueue(q, p, m) ELSE 0
Pending(p) == Waits(taken[p], recvQueue[Owner[p]], p)
Count(p) == IF Pending(p) = 0 THEN Len(handed[p]) ELSE Len(handed[p]) + 1
Value(p, i) == IF i <= Len(handed[p]) THEN handed[p][i] ELSE Pending(p)

LEMMA WaitsIs ==
  ASSUME Messages \in Nat, NEW p, NEW t \in 0..Messages, NEW q \in Seq(InPorts \X Ids),
         t # 0 => q = <<>>,
         \A i, j \in DOMAIN q : q[i][1] = q[j][1] => i = j
  PROVE  /\ Waits(t, q, p) \in 0..Messages
         /\ t # 0 => Waits(t, q, p) = t
         /\ \A m \in Ids : InQueue(q, p, m) => t = 0 /\ Waits(t, q, p) = m
         /\ t = 0 /\ ~IsQueued(q, p) => Waits(t, q, p) = 0
<1>1. ASSUME NEW m \in Ids, NEW n \in Ids, InQueue(q, p, m), InQueue(q, p, n)
      PROVE  m = n
  <2>1. PICK i \in DOMAIN q : q[i] = <<p, m>>
    BY <1>1 DEF InQueue
  <2>2. PICK j \in DOMAIN q : q[j] = <<p, n>>
    BY <1>1 DEF InQueue
  <2>3. i = j
    BY <2>1, <2>2
  <2>4. QED
    BY <2>1, <2>2, <2>3
<1>2. ASSUME NEW m \in Ids, InQueue(q, p, m) PROVE t = 0 /\ Waits(t, q, p) = m
  <2>1. q # <<>> /\ IsQueued(q, p)
    BY <1>2 DEF InQueue, IsQueued
  <2>2. t = 0 /\ Waits(t, q, p) = CHOOSE n \in Ids : InQueue(q, p, n)
    BY <2>1 DEF Waits
  <2>3. QED
    BY <1>1, <1>2, <2>2
<1>3. CASE IsQueued(q, p)
  BY <1>2, <1>3 DEF IsQueued, Ids
<1>4. CASE ~IsQueued(q, p)
  BY <1>2, <1>4 DEF Waits
<1>5. QED
  BY <1>2, <1>3, <1>4 DEF Waits

LEMMA PendingIs ==
  ASSUME DataflowAssumption, FlowKept, NEW p \in InPorts
  PROVE  /\ Pending(p) \in 0..Messages
         /\ taken[p] # 0 => Pending(p) = taken[p]
         /\ \A m \in Ids : InQueue(recvQueue[Owner[p]], p, m) => taken[p] = 0 /\ Pending(p) = m
         /\ taken[p] = 0 /\ ~IsQueued(recvQueue[Owner[p]], p) => Pending(p) = 0
<1>1. /\ Messages \in Nat /\ taken[p] \in 0..Messages /\ Owner[p] \in Operators
      /\ recvQueue[Owner[p]] \in Seq(InPorts \X Ids)
  BY FlowOwners DEF FlowKept, FlowTyped
<1>2. /\ taken[p] # 0 => recvQueue[Owner[p]] = <<>>
      /\ \A i, j \in DOMAIN recvQueue[Owner[p]] :
           recvQueue[Owner[p]][i][1] = recvQueue[Owner[p]][j][1] => i = j
  BY <1>1 DEF FlowKept, QueueApart
<1>3. QED
  BY <1>1, <1>2, WaitsIs DEF Pending

LEMMA PendingNextIs ==
  ASSUME DataflowAssumption, FlowKept', NEW p \in InPorts
  PROVE  /\ Pending(p)' \in 0..Messages
         /\ taken'[p] # 0 => Pending(p)' = taken'[p]
         /\ \A m \in Ids : InQueue(recvQueue'[Owner[p]], p, m) => taken'[p] = 0 /\ Pending(p)' = m
         /\ taken'[p] = 0 /\ ~IsQueued(recvQueue'[Owner[p]], p) => Pending(p)' = 0
<1>1. /\ Messages \in Nat /\ taken'[p] \in 0..Messages /\ Owner[p] \in Operators
      /\ recvQueue'[Owner[p]] \in Seq(InPorts \X Ids)
  BY FlowOwners DEF FlowKept, FlowTyped
<1>2. /\ taken'[p] # 0 => recvQueue'[Owner[p]] = <<>>
      /\ \A i, j \in DOMAIN recvQueue'[Owner[p]] :
           recvQueue'[Owner[p]][i][1] = recvQueue'[Owner[p]][j][1] => i = j
  BY <1>1 DEF FlowKept, QueueApart
<1>3. QED
  BY <1>1, <1>2, WaitsIs DEF Pending

LEMMA FilledQueue ==
  ASSUME DataflowAssumption, FlowKept, NEW o \in Operators, Filled(o)
  PROVE  /\ \A p \in InOf(o) : /\ ~IsQueued(recvQueue[o], p)
                               /\ taken[p] \in Ids /\ InQueue(recvQueue'[o], p, taken[p])
         /\ \A p \in InPorts : p \notin InOf(o) =>
              taken'[p] = taken[p] /\ recvQueue'[Owner[p]] = recvQueue[Owner[p]]
<1>1. /\ recvQueue[o] = <<>> /\ \A p \in InOf(o) : taken[p] \in Ids
      /\ \A i \in DOMAIN recvQueue'[o] :
           /\ recvQueue'[o][i][1] \in InOf(o)
           /\ recvQueue'[o][i][2] = taken[recvQueue'[o][i][1]]
      /\ \A p \in InOf(o) : \E i \in DOMAIN recvQueue'[o] : recvQueue'[o][i][1] = p
      /\ recvQueue' \in [Operators -> Seq(InPorts \X Ids)]
      /\ \A b \in Operators \ {o} : recvQueue'[b] = recvQueue[b]
      /\ \A p \in InPorts : taken'[p] = IF p \in InOf(o) THEN 0 ELSE taken[p]
  BY DEF Filled
<1>2. ASSUME NEW p \in InOf(o) PROVE InQueue(recvQueue'[o], p, taken[p])
  <2>1. PICK i \in DOMAIN recvQueue'[o] : recvQueue'[o][i][1] = p
    BY <1>1, <1>2
  <2>2. recvQueue'[o][i] \in InPorts \X Ids
    BY <1>1, ElementOfSeq, LenProperties
  <2>3. recvQueue'[o][i] = <<p, taken[p]>>
    BY <1>1, <2>1, <2>2
  <2>4. QED
    BY <2>3 DEF InQueue
<1>3. ASSUME NEW p PROVE ~IsQueued(recvQueue[o], p)
  BY <1>1 DEF IsQueued, InQueue
<1>4. ASSUME NEW p \in InPorts, p \notin InOf(o)
      PROVE  taken'[p] = taken[p] /\ recvQueue'[Owner[p]] = recvQueue[Owner[p]]
  BY <1>1, <1>4, FlowOwners DEF InOf
<1>5. QED
  BY <1>1, <1>2, <1>3, <1>4

LEMMA HandedQueue ==
  ASSUME DataflowAssumption, FlowKept, NEW o \in Operators, NEW p \in InPorts, NEW m \in Ids,
         HandedOver(o, p, m)
  PROVE  /\ Owner[p] = o /\ InQueue(recvQueue[o], p, m) /\ ~IsQueued(recvQueue'[o], p)
         /\ \A q, n : q # p => (InQueue(recvQueue'[o], q, n) <=> InQueue(recvQueue[o], q, n))
<1>. DEFINE s == recvQueue[o]
            t == recvQueue'[o]
<1>1. /\ s \in Seq(InPorts \X Ids) /\ Len(s) > 0 /\ s[1] = <<p, m>>
      /\ t \in Seq(InPorts \X Ids) /\ Len(t) = Len(s) - 1
      /\ \A i \in 1 .. Len(s) - 1 : t[i] = s[i + 1]
  BY DEF FlowKept, FlowTyped, HandedOver
<1>2. /\ Len(s) \in Nat /\ DOMAIN s = 1 .. Len(s) /\ DOMAIN t = 1 .. Len(s) - 1
      /\ 1 \in DOMAIN s
  BY <1>1, LenProperties
<1>3. \A i, j \in DOMAIN s : s[i][1] \in InOf(o) /\ (s[i][1] = s[j][1] => i = j)
  BY DEF FlowKept, QueueApart
<1>. HIDE DEF s, t
<1>4. Owner[p] = o /\ InQueue(s, p, m)
  <2>1. s[1][1] \in InOf(o)
    BY <1>2, <1>3
  <2>2. QED
    BY <1>1, <1>2, <2>1 DEF InOf, InQueue
<1>5. ASSUME NEW n, InQueue(t, p, n) PROVE FALSE
  <2>1. PICK i \in DOMAIN t : t[i] = <<p, n>>
    BY <1>5 DEF InQueue
  <2>2. i + 1 \in DOMAIN s /\ s[i + 1] = <<p, n>> /\ i + 1 # 1
    BY <1>1, <1>2, <2>1
  <2>3. QED
    BY <1>1, <1>2, <1>3, <2>2
<1>6. ASSUME NEW q, NEW n, q # p PROVE InQueue(t, q, n) <=> InQueue(s, q, n)
  <2>1. ASSUME InQueue(t, q, n) PROVE InQueue(s, q, n)
    <3>1. PICK i \in DOMAIN t : t[i] = <<q, n>>
      BY <2>1 DEF InQueue
    <3>2. i + 1 \in DOMAIN s /\ s[i + 1] = <<q, n>>
      BY <1>1, <1>2, <3>1
    <3>3. QED
      BY <3>2 DEF InQueue
  <2>2. ASSUME InQueue(s, q, n) PROVE InQueue(t, q, n)
    <3>1. PICK i \in DOMAIN s : s[i] = <<q, n>>
      BY <2>2 DEF InQueue
    <3>2. i # 1
      BY <1>1, <1>6, <3>1
    <3>3. i - 1 \in DOMAIN t /\ t[i - 1] = <<q, n>>
      BY <1>1, <1>2, <3>1, <3>2
    <3>4. QED
      BY <3>3 DEF InQueue
  <2>3. QED
    BY <2>1, <2>2
<1>7. QED
  BY <1>4, <1>5, <1>6 DEF s, t, IsQueued

(* The rounds of receiving a port has been through: in step, since a round *)
(* is over for all inputs of an operator at once.                          *)
Rounds(p) ==
  IF IsQueued(recvQueue[Owner[p]], p) THEN Len(handed[p]) + 1 ELSE Len(handed[p])
Together == \A p, q \in InPorts : Owner[p] = Owner[q] => Rounds(p) = Rounds(q)

LEMMA TogetherNext ==
  ASSUME DataflowAssumption, IsFiniteSet(InPorts), FlowKept, Together, [Next]_vars
  PROVE  Together'
<1>1. ASSUME UNCHANGED <<recvQueue, handed>> PROVE Together'
  BY <1>1 DEF Together, Rounds
<1>2. ASSUME NEW o \in Operators, Filled(o), UNCHANGED handed PROVE Together'
  <2>1. /\ \A p \in InOf(o) : /\ ~IsQueued(recvQueue[o], p)
                              /\ taken[p] \in Ids /\ InQueue(recvQueue'[o], p, taken[p])
        /\ \A p \in InPorts : p \notin InOf(o) => recvQueue'[Owner[p]] = recvQueue[Owner[p]]
    BY <1>2, FilledQueue
  <2>2. \A p \in InPorts : p \in InOf(o) <=> Owner[p] = o
    BY DEF InOf
  <2>3. \A p \in InOf(o) : IsQueued(recvQueue'[o], p)
    BY <2>1 DEF IsQueued
  <2>4. \A p \in InPorts : Rounds(p)' = IF Owner[p] = o THEN Rounds(p) + 1 ELSE Rounds(p)
    <3>1. ASSUME NEW p \in InPorts
          PROVE  Rounds(p)' = IF Owner[p] = o THEN Rounds(p) + 1 ELSE Rounds(p)
      <4>1. CASE Owner[p] = o
        <5>1. Len(handed[p]) \in Nat /\ handed' = handed
          BY <1>2, LenProperties DEF FlowKept, FlowTyped
        <5>2. ~IsQueued(recvQueue[Owner[p]], p) /\ IsQueued(recvQueue'[Owner[p]], p)
          BY <2>1, <2>2, <2>3, <4>1
        <5>3. QED
          BY <4>1, <5>1, <5>2 DEF Rounds
      <4>2. CASE Owner[p] # o
        BY <1>2, <2>1, <2>2, <4>2 DEF Rounds
      <4>3. QED
        BY <4>1, <4>2
    <3>2. QED
      BY <3>1
  <2>5. QED
    BY <2>4 DEF Together
<1>3. ASSUME NEW o \in Operators, NEW p \in InPorts, NEW m \in Ids, HandedOver(o, p, m)
      PROVE  Together'
  <2>1. /\ Owner[p] = o /\ InQueue(recvQueue[o], p, m) /\ ~IsQueued(recvQueue'[o], p)
        /\ \A q, n : q # p => (InQueue(recvQueue'[o], q, n) <=> InQueue(recvQueue[o], q, n))
    BY <1>3, HandedQueue
  <2>2. /\ Len(handed'[p]) = Len(handed[p]) + 1
        /\ \A q \in InPorts \ {p} : handed'[q] = handed[q]
        /\ \A b \in Operators \ {o} : recvQueue'[b] = recvQueue[b]
    BY <1>3 DEF HandedOver
  <2>3. \A q \in InPorts : Rounds(q)' = Rounds(q)
    <3>1. Rounds(p)' = Rounds(p)
      <4>1. IsQueued(recvQueue[o], p) /\ Len(handed[p]) \in Nat
        BY <2>1, LenProperties DEF IsQueued, FlowKept, FlowTyped
      <4>2. QED
        BY <2>1, <2>2, <4>1 DEF Rounds
    <3>2. ASSUME NEW q \in InPorts, q # p PROVE Rounds(q)' = Rounds(q)
      <4>1. IsQueued(recvQueue'[Owner[q]], q) <=> IsQueued(recvQueue[Owner[q]], q)
        BY <2>1, <2>2, <3>2, FlowOwners DEF IsQueued
      <4>2. QED
        BY <2>2, <3>2, <4>1 DEF Rounds
    <3>3. QED
      BY <3>1, <3>2
  <2>4. QED
    BY <2>3 DEF Together
<1>4. CASE UNCHANGED vars
  BY <1>1, <1>4 DEF vars
<1>5. CASE Next
  <2>1. FlowTyped /\ FlowBounded
    BY DEF FlowKept
  <2>2. QED
    BY <1>1, <1>2, <1>3, <1>5, <2>1, FlowMoves
<1>6. QED
  BY <1>4, <1>5

LEMMA TogetherInit == ASSUME DataflowAssumption, Init PROVE Together
BY FlowOwners DEF Init, Together, Rounds, IsQueued, InQueue

LEMMA TogetherInStep == ASSUME FlowKept, Together PROVE InStep
<1>1. ASSUME NEW p \in InPorts, NEW q \in InPorts, Owner[p] = Owner[q]
      PROVE  Len(handed[p]) <= Len(handed[q]) + 1
  <2>1. Len(handed[p]) \in Nat /\ Len(handed[q]) \in Nat
    BY LenProperties DEF FlowKept, FlowTyped
  <2>2. Rounds(p) = Rounds(q)
    BY <1>1 DEF Together
  <2>3. /\ Rounds(p) = Len(handed[p]) \/ Rounds(p) = Len(handed[p]) + 1
        /\ Rounds(q) = Len(handed[q]) \/ Rounds(q) = Len(handed[q]) + 1
    BY <2>1 DEF Rounds
  <2>4. QED
    BY <2>1, <2>2, <2>3
<1>2. QED
  BY <1>1 DEF InStep

(* An operator with several inputs receives from all of them before it     *)
(* hands any message on (recv gathers), so none of its ports is ever more  *)
(* than one message ahead of another, in any pipeline.                     *)
THEOREM FlowInStep ==
  ASSUME DataflowAssumption, IsFiniteSet(InPorts)
  PROVE  Spec => [](TypeOK /\ InStep)
<1>1. Init => FlowKept /\ Together
  BY FlowKeptInit, TogetherInit
<1>2. FlowKept /\ Together /\ [Next]_vars => (FlowKept /\ Together)'
  BY FlowKeptNext, TogetherNext
<1>3. FlowKept /\ Together => TypeOK /\ InStep
  BY FlowTypeCorrect, TogetherInStep
<1>4. QED
  BY <1>1, <1>2, <1>3, PTL DEF Spec

(* What the ports have been given, by the steps.                           *)
Same == \A p \in InPorts : /\ Count(p)' = Count(p)
                           /\ \A i \in 1 .. Count(p) : Value(p, i)' = Value(p, i)

Arrives(e) ==
  /\ Len(channel[e]) > 0
  /\ Count(e[2])' = Count(e[2]) + 1
  /\ \A i : i = Count(e[2]) + 1 => Value(e[2], i)' = channel[e][1]
  /\ \A i \in 1 .. Count(e[2]) : Value(e[2], i)' = Value(e[2], i)
  /\ \A q \in InPorts \ {e[2]} :
       Count(q)' = Count(q) /\ \A i \in 1 .. Count(q) : Value(q, i)' = Value(q, i)
  /\ Len(channel'[e]) = Len(channel[e]) - 1
  /\ \A i \in 1 .. Len(channel[e]) - 1 : channel'[e][i] = channel[e][i + 1]
  /\ \A f \in Edges \ {e} : channel'[f] = channel[f]

IsGiven(o, p, m) ==
  /\ Owner[p] = o /\ kernel[o] = 0 /\ Count(p) = Len(handed[p]) + 1
  /\ m = Value(p, Count(p)) /\ Same
  /\ Len(handed'[p]) = Len(handed[p]) + 1 /\ handed'[p][Len(handed[p]) + 1] = m
  /\ \A i \in 1 .. Len(handed[p]) : handed'[p][i] = handed[p][i]
  /\ \A q \in InPorts \ {p} : handed'[q] = handed[q]
  /\ kernel'[o] = (IF o \in Sinks THEN 0 ELSE m) /\ outbox'[o] = OutOf(o)
  /\ \A b \in Operators \ {o} : kernel'[b] = kernel[b] /\ outbox'[b] = outbox[b]

LEMMA CountIs ==
  ASSUME DataflowAssumption, FlowKept, NEW p \in InPorts
  PROVE  /\ Len(handed[p]) \in Nat /\ Count(p) \in Nat /\ Len(handed[p]) <= Count(p)
         /\ Pending(p) = 0 => Count(p) = Len(handed[p])
         /\ Pending(p) # 0 =>
              Count(p) = Len(handed[p]) + 1 /\ Value(p, Count(p)) = Pending(p)
         /\ \A i \in 1 .. Len(handed[p]) : Value(p, i) = handed[p][i]
         /\ \A i \in 1 .. Count(p) : Value(p, i) \in Ids
<1>1. handed[p] \in Seq(Ids) /\ Len(handed[p]) \in Nat
  BY LenProperties DEF FlowKept, FlowTyped
<1>2. Pending(p) \in 0..Messages
  BY PendingIs
<1>3. \A i \in 1 .. Len(handed[p]) : handed[p][i] \in Ids
  BY <1>1, ElementOfSeq
<1>4. /\ Pending(p) = 0 => Count(p) = Len(handed[p])
      /\ Pending(p) # 0 => Count(p) = Len(handed[p]) + 1
  BY <1>1 DEF Count
<1>5. /\ \A i \in 1 .. Len(handed[p]) : Value(p, i) = handed[p][i]
      /\ Value(p, Len(handed[p]) + 1) = Pending(p)
  BY <1>1 DEF Value
<1>6. Pending(p) # 0 => Pending(p) \in Ids
  BY <1>2, FlowOwners DEF Ids
<1>7. \A i \in 1 .. Count(p) : Value(p, i) \in Ids
  BY <1>1, <1>3, <1>4, <1>5, <1>6
<1>8. QED
  BY <1>1, <1>4, <1>5, <1>7

LEMMA SameValues ==
  ASSUME NEW p \in InPorts, handed'[p] = handed[p], Pending(p)' = Pending(p)
  PROVE  Count(p)' = Count(p) /\ \A i \in 1 .. Count(p) : Value(p, i)' = Value(p, i)
BY DEF Count, Value

LEMMA TakenArrives ==
  ASSUME DataflowAssumption, FlowKept, FlowKept', NEW e \in Edges, NEW p \in InPorts,
         Taken(e, p), UNCHANGED <<recvQueue, handed>>
  PROVE  Arrives(e)
<1>1. /\ e[2] = p /\ Len(channel[e]) > 0 /\ taken[p] = 0 /\ recvQueue[Owner[p]] = <<>>
      /\ taken'[p] = channel[e][1] /\ taken'[p] \in Ids
      /\ \A q \in InPorts \ {p} : taken'[q] = taken[q]
      /\ Len(channel'[e]) = Len(channel[e]) - 1
      /\ \A i \in 1 .. Len(channel[e]) - 1 : channel'[e][i] = channel[e][i + 1]
      /\ \A f \in Edges \ {e} : channel'[f] = channel[f]
  BY DEF Taken
<1>2. Pending(p) = 0
  <2>1. ~IsQueued(recvQueue[Owner[p]], p)
    BY <1>1 DEF IsQueued, InQueue
  <2>2. QED
    BY <1>1, <2>1, PendingIs
<1>3. Pending(p)' = channel[e][1] /\ Pending(p)' # 0
  BY <1>1, PendingNextIs DEF Ids
<1>4. \A q \in InPorts \ {p} : Pending(q)' = Pending(q)
  BY <1>1 DEF Pending
<1>5. /\ Len(handed[p]) \in Nat /\ Count(p) = Len(handed[p])
      /\ Count(p)' = Count(p) + 1
      /\ \A i : i = Count(p) + 1 => Value(p, i)' = channel[e][1]
      /\ \A i \in 1 .. Count(p) : Value(p, i)' = Value(p, i)
  <2>1. Len(handed[p]) \in Nat /\ Count(p) = Len(handed[p])
    BY <1>2, CountIs
  <2>2. Count(p)' = Count(p) + 1
    BY <1>3, <2>1 DEF Count
  <2>3. \A i : i = Count(p) + 1 => Value(p, i)' = channel[e][1]
    BY <1>3, <2>1 DEF Value
  <2>4. \A i \in 1 .. Count(p) : Value(p, i)' = Value(p, i)
    BY <2>1 DEF Value
  <2>5. QED
    BY <2>1, <2>2, <2>3, <2>4
<1>6. \A q \in InPorts \ {p} :
        Count(q)' = Count(q) /\ \A i \in 1 .. Count(q) : Value(q, i)' = Value(q, i)
  BY <1>4, SameValues
<1>7. QED
  BY <1>1, <1>5, <1>6 DEF Arrives

LEMMA FilledSame ==
  ASSUME DataflowAssumption, FlowKept, FlowKept', NEW o \in Operators, Filled(o),
         UNCHANGED handed
  PROVE  Same
<1>1. ASSUME NEW p \in InPorts PROVE Pending(p)' = Pending(p)
  <2>1. CASE p \in InOf(o)
    <3>1. Owner[p] = o
      BY <2>1 DEF InOf
    <3>2. taken[p] \in Ids /\ InQueue(recvQueue'[Owner[p]], p, taken[p])
      BY <2>1, <3>1, FilledQueue
    <3>3. Pending(p)' = taken[p]
      BY <3>2, PendingNextIs
    <3>4. QED
      BY <3>2, <3>3, PendingIs DEF Ids
  <2>2. CASE p \notin InOf(o)
    <3>1. taken'[p] = taken[p] /\ recvQueue'[Owner[p]] = recvQueue[Owner[p]]
      BY <2>2, FilledQueue
    <3>2. QED
      BY <3>1 DEF Pending
  <2>3. QED
    BY <2>1, <2>2
<1>2. QED
  BY <1>1, SameValues DEF Same

LEMMA HandedIsGiven ==
  ASSUME DataflowAssumption, FlowKept, FlowKept', NEW o \in Operators, NEW p \in InPorts,
         NEW m \in Ids, HandedOver(o, p, m), UNCHANGED taken
  PROVE  IsGiven(o, p, m)
<1>1. /\ Owner[p] = o /\ InQueue(recvQueue[o], p, m) /\ ~IsQueued(recvQueue'[o], p)
      /\ \A q, n : q # p => (InQueue(recvQueue'[o], q, n) <=> InQueue(recvQueue[o], q, n))
  BY HandedQueue
<1>2. /\ kernel[o] = 0 /\ Len(handed'[p]) = Len(handed[p]) + 1
      /\ handed'[p][Len(handed[p]) + 1] = m
      /\ \A i \in 1 .. Len(handed[p]) : handed'[p][i] = handed[p][i]
      /\ \A q \in InPorts \ {p} : handed'[q] = handed[q]
      /\ \A b \in Operators \ {o} : recvQueue'[b] = recvQueue[b]
      /\ kernel'[o] = (IF o \in Sinks THEN 0 ELSE m) /\ outbox'[o] = OutOf(o)
      /\ \A b \in Operators \ {o} : kernel'[b] = kernel[b] /\ outbox'[b] = outbox[b]
  BY DEF HandedOver
<1>3. taken[p] = 0 /\ Pending(p) = m /\ m # 0
  BY <1>1, PendingIs DEF Ids
<1>4. Pending(p)' = 0
  BY <1>1, <1>3, PendingNextIs
<1>5. ASSUME NEW q \in InPorts, q # p PROVE Pending(q)' = Pending(q)
  <2>1. CASE Owner[q] = o
    <3>1. taken[q] = 0
      <4>1. taken[q] # 0 => recvQueue[o] = <<>>
        BY <2>1 DEF FlowKept, QueueApart
      <4>2. recvQueue[o] # <<>>
        BY <1>1 DEF InQueue
      <4>3. QED
        BY <4>1, <4>2
    <3>2. \A n \in Ids : InQueue(recvQueue'[o], q, n) <=> InQueue(recvQueue[o], q, n)
      BY <1>1, <1>5
    <3>3. CASE IsQueued(recvQueue[o], q)
      <4>1. PICK n \in Ids : InQueue(recvQueue[o], q, n)
        BY <3>3 DEF IsQueued
      <4>2. QED
        BY <2>1, <3>2, <4>1, PendingIs, PendingNextIs
    <3>4. CASE ~IsQueued(recvQueue[o], q)
      <4>1. ~IsQueued(recvQueue'[o], q)
        BY <3>2, <3>4 DEF IsQueued
      <4>2. QED
        BY <2>1, <3>1, <3>4, <4>1, PendingIs, PendingNextIs
    <3>5. QED
      BY <3>3, <3>4
  <2>2. CASE Owner[q] # o
    <3>1. recvQueue'[Owner[q]] = recvQueue[Owner[q]]
      BY <1>2, <2>2, FlowOwners
    <3>2. QED
      BY <3>1 DEF Pending
  <2>3. QED
    BY <2>1, <2>2
<1>6. /\ Len(handed[p]) \in Nat /\ Count(p) = Len(handed[p]) + 1 /\ Value(p, Count(p)) = m
      /\ Count(p)' = Count(p)
      /\ \A i \in 1 .. Count(p) : Value(p, i)' = Value(p, i)
  <2>1. Len(handed[p]) \in Nat /\ Count(p) = Len(handed[p]) + 1 /\ Value(p, Count(p)) = m
    BY <1>3, CountIs
  <2>2. Count(p)' = Count(p)
    BY <1>2, <1>4, <2>1 DEF Count
  <2>3. ASSUME NEW i \in 1 .. Count(p) PROVE Value(p, i)' = Value(p, i)
    <3>1. i \in 1 .. Len(handed[p]) \/ i = Len(handed[p]) + 1
      BY <2>1
    <3>2. CASE i \in 1 .. Len(handed[p])
      BY <1>2, <2>1, <3>2 DEF Value
    <3>3. CASE i = Len(handed[p]) + 1
      BY <1>2, <1>3, <2>1, <3>3 DEF Value
    <3>4. QED
      BY <3>1, <3>2, <3>3
  <2>4. QED
    BY <2>1, <2>2, <2>3
<1>7. Same
  <2>1. ASSUME NEW q \in InPorts, q # p
        PROVE  Count(q)' = Count(q) /\ \A i \in 1 .. Count(q) : Value(q, i)' = Value(q, i)
    BY <1>2, <1>5, <2>1, SameValues
  <2>2. QED
    BY <1>6, <2>1 DEF Same
<1>8. QED
  BY <1>1, <1>2, <1>6, <1>7 DEF IsGiven

LEMMA FlowSees ==
  ASSUME DataflowAssumption, IsFiniteSet(InPorts), FlowKept, [Next]_vars
  PROVE  \/ /\ \E o \in Sources : Makes(o)
            /\ Same /\ UNCHANGED <<channel, handed>>
         \/ /\ \E e \in Edges : Arrives(e)
            /\ UNCHANGED <<made, kernel, outbox, handed>>
         \/ /\ Same /\ UNCHANGED <<made, channel, kernel, outbox, handed>>
         \/ /\ \E o \in Operators : \E p \in InPorts, m \in Ids : IsGiven(o, p, m)
            /\ UNCHANGED <<made, channel>>
         \/ /\ \E o \in Operators, p \in OutPorts : \E e \in Edges : Sent(o, p, e)
            /\ Same /\ UNCHANGED <<made, handed>>
<1>1. FlowKept' /\ FlowTyped /\ FlowBounded
  BY FlowKeptNext DEF FlowKept
<1>2. ASSUME UNCHANGED <<taken, recvQueue, handed>> PROVE Same
  BY <1>2 DEF Same, Count, Value, Pending
<1>3. CASE UNCHANGED vars
  BY <1>2, <1>3 DEF vars
<1>4. ASSUME NEW p \in InPorts, NEW e \in Edges, Taken(e, p),
             UNCHANGED <<made, recvQueue, kernel, outbox, handed>>
      PROVE  Arrives(e)
  BY <1>1, <1>4, TakenArrives
<1>5. ASSUME NEW o \in Operators, Filled(o), UNCHANGED <<made, channel, kernel, outbox, handed>>
      PROVE  Same
  BY <1>1, <1>5, FilledSame
<1>6. ASSUME NEW o \in Operators, NEW p \in InPorts, NEW m \in Ids, HandedOver(o, p, m),
             UNCHANGED <<made, channel, taken>>
      PROVE  IsGiven(o, p, m)
  BY <1>1, <1>6, HandedIsGiven
<1>7. CASE Next
  <2>1. \/ /\ \E o \in Sources : Makes(o)
           /\ UNCHANGED <<channel, taken, recvQueue, handed>>
        \/ /\ \E p \in InPorts : \E e \in Edges : Taken(e, p)
           /\ UNCHANGED <<made, recvQueue, kernel, outbox, handed>>
        \/ /\ \E o \in Operators : Filled(o)
           /\ UNCHANGED <<made, channel, kernel, outbox, handed>>
        \/ /\ \E o \in Operators : \E p \in InPorts, m \in Ids : HandedOver(o, p, m)
           /\ UNCHANGED <<made, channel, taken>>
        \/ /\ \E o \in Operators, p \in OutPorts : \E e \in Edges : Sent(o, p, e)
           /\ UNCHANGED <<made, taken, recvQueue, handed>>
    BY <1>1, <1>7, FlowMoves
  <2>2. QED
    BY <1>2, <1>4, <1>5, <1>6, <2>1
<1>8. QED
  BY <1>3, <1>7

(* Without replicas each port is on one edge at most, and what has results *)
(* has one input at most.                                                  *)
Unreplicated ==
  /\ \A e, f \in Edges : e[1] = f[1] \/ e[2] = f[2] => e = f
  /\ \A p, q \in InPorts : Owner[p] = Owner[q] /\ OutOf(Owner[p]) # {} => p = q

(* The results an operator has begun to send, and those of them that an    *)
(* edge accounts for.                                                      *)
Results(o) == IF o \in Sources THEN made[o] ELSE Len(handed[CHOOSE p \in InPorts : Owner[p] = o])
Accounted(e) ==
  IF e[1] \in outbox[Owner[e[1]]] THEN Count(e[2]) + Len(channel[e]) + 1
  ELSE Count(e[2]) + Len(channel[e])

ValuesOrdered == \A p \in InPorts : \A i \in 1 .. Count(p) : Value(p, i) = i
ChannelsOrdered == \A e \in Edges : \A i \in 1 .. Len(channel[e]) : channel[e][i] = Count(e[2]) + i
ResultsAccounted == \A e \in Edges : Results(Owner[e[1]]) = Accounted(e)
KernelsLast == \A o \in Operators : outbox[o] # {} => kernel[o] = Results(o)
Ordered == ValuesOrdered /\ ChannelsOrdered /\ ResultsAccounted /\ KernelsLast

LEMMA ResultsAre ==
  ASSUME DataflowAssumption, Unreplicated, NEW o \in Operators, OutOf(o) # {}
  PROVE  /\ o \in Sources => Results(o) = made[o] /\ Results(o)' = made'[o]
         /\ o \notin Sources => \E p \in InPorts : Owner[p] = o
         /\ \A p \in InPorts : Owner[p] = o =>
              o \notin Sources /\ Results(o) = Len(handed[p]) /\ Results(o)' = Len(handed'[p])
<1>1. o \notin Sources => \E p \in InPorts : Owner[p] = o
  BY DEF Sources, InOf
<1>2. ASSUME NEW p \in InPorts, Owner[p] = o
      PROVE  o \notin Sources /\ (CHOOSE q \in InPorts : Owner[q] = o) = p
  BY <1>2 DEF Unreplicated, Sources, InOf
<1>3. ASSUME NEW p \in InPorts, Owner[p] = o
      PROVE  o \notin Sources /\ Results(o) = Len(handed[p]) /\ Results(o)' = Len(handed'[p])
  BY <1>2, <1>3 DEF Results
<1>4. QED
  BY <1>1, <1>3 DEF Results

LEMMA OrderedMakes ==
  ASSUME DataflowAssumption, Unreplicated, FlowKept, Ordered, NEW o \in Sources, Makes(o),
         Same, UNCHANGED <<channel, handed>>
  PROVE  Ordered'
<1>1. /\ kernel[o] = 0 /\ made'[o] = made[o] + 1
      /\ \A b \in Sources \ {o} : made'[b] = made[b]
      /\ kernel'[o] = made[o] + 1 /\ outbox'[o] = OutOf(o)
      /\ \A b \in Operators \ {o} : kernel'[b] = kernel[b] /\ outbox'[b] = outbox[b]
  BY DEF Makes
<1>2. o \in Operators /\ outbox[o] = {} /\ made[o] \in Nat
  BY <1>1, FlowOwners DEF FlowKept, FlowBounded, FlowTyped
<1>3. \A p \in InPorts : Count(p) \in Nat /\ Count(p)' = Count(p)
  BY CountIs DEF Same
<1>4. \A e \in Edges : Len(channel[e]) \in Nat
  BY LenProperties DEF FlowKept, FlowTyped
<1>5. ValuesOrdered'
  BY <1>3 DEF ValuesOrdered, Ordered, Same
<1>6. ChannelsOrdered'
  BY <1>3, FlowOwners DEF ChannelsOrdered, Ordered
<1>7. \A b \in Operators \ {o} : Results(b)' = Results(b)
  BY <1>1 DEF Results
<1>8. Results(o)' = made[o] + 1 /\ Results(o) = made[o]
  BY <1>1 DEF Results
<1>9. ASSUME NEW e \in Edges PROVE Results(Owner[e[1]])' = Accounted(e)'
  <2>1. /\ e[1] \in OutPorts /\ e[2] \in InPorts /\ Owner[e[1]] \in Operators
        /\ e[1] \in OutOf(Owner[e[1]]) /\ Results(Owner[e[1]]) = Accounted(e)
    BY FlowOwners DEF Ordered, ResultsAccounted
  <2>2. CASE Owner[e[1]] = o
    BY <1>1, <1>2, <1>3, <1>4, <1>8, <2>1, <2>2 DEF Accounted
  <2>3. CASE Owner[e[1]] # o
    BY <1>1, <1>3, <1>7, <2>1, <2>3 DEF Accounted
  <2>4. QED
    BY <2>2, <2>3
<1>10. KernelsLast'
  BY <1>1, <1>7, <1>8 DEF KernelsLast, Ordered
<1>11. QED
  BY <1>5, <1>6, <1>9, <1>10 DEF Ordered, ResultsAccounted

LEMMA OrderedArrives ==
  ASSUME DataflowAssumption, Unreplicated, FlowKept, Ordered, NEW e \in Edges, Arrives(e),
         UNCHANGED <<made, kernel, outbox, handed>>
  PROVE  Ordered'
<1>1. /\ Len(channel[e]) > 0
      /\ Count(e[2])' = Count(e[2]) + 1
      /\ \A i : i = Count(e[2]) + 1 => Value(e[2], i)' = channel[e][1]
      /\ \A i \in 1 .. Count(e[2]) : Value(e[2], i)' = Value(e[2], i)
      /\ \A q \in InPorts \ {e[2]} :
           Count(q)' = Count(q) /\ \A i \in 1 .. Count(q) : Value(q, i)' = Value(q, i)
      /\ Len(channel'[e]) = Len(channel[e]) - 1
      /\ \A i \in 1 .. Len(channel[e]) - 1 : channel'[e][i] = channel[e][i + 1]
      /\ \A f \in Edges \ {e} : channel'[f] = channel[f]
  BY DEF Arrives
<1>2. /\ \A p \in InPorts : Count(p) \in Nat
      /\ \A f \in Edges : Len(channel[f]) \in Nat /\ f[2] \in InPorts
  BY CountIs, LenProperties, FlowOwners DEF FlowKept, FlowTyped
<1>3. \A f \in Edges \ {e} : f[2] # e[2]
  BY DEF Unreplicated
<1>4. ASSUME NEW p \in InPorts, NEW i \in 1 .. Count(p)' PROVE Value(p, i)' = i
  <2>1. channel[e][1] = Count(e[2]) + 1
    BY <1>1, <1>2 DEF Ordered, ChannelsOrdered
  <2>2. CASE p = e[2]
    <3>1. i \in 1 .. Count(p) \/ i = Count(p) + 1
      BY <1>1, <1>2, <1>4, <2>2
    <3>2. QED
      BY <1>1, <2>1, <2>2, <3>1 DEF Ordered, ValuesOrdered
  <2>3. CASE p # e[2]
    BY <1>1, <1>4, <2>3 DEF Ordered, ValuesOrdered
  <2>4. QED
    BY <2>2, <2>3
<1>5. ASSUME NEW f \in Edges, NEW i \in 1 .. Len(channel'[f])
      PROVE  channel'[f][i] = Count(f[2])' + i
  <2>1. CASE f = e
    <3>1. i \in 1 .. Len(channel[e]) - 1 /\ i + 1 \in 1 .. Len(channel[e])
      BY <1>1, <1>2, <1>5, <2>1
    <3>2. channel[e][i + 1] = Count(e[2]) + (i + 1)
      BY <3>1 DEF Ordered, ChannelsOrdered
    <3>3. channel'[e][i] = channel[e][i + 1]
      BY <1>1, <3>1
    <3>4. Count(e[2])' = Count(e[2]) + 1 /\ Count(e[2]) \in Nat /\ i \in Int
      BY <1>1, <1>2, <3>1
    <3>5. channel'[e][i] = Count(e[2])' + i
      BY <3>2, <3>3, <3>4
    <3>6. QED
      BY <2>1, <3>5
  <2>2. CASE f # e
    <3>1. channel'[f] = channel[f] /\ Count(f[2])' = Count(f[2])
      BY <1>1, <1>2, <1>3, <2>2
    <3>2. QED
      BY <1>5, <3>1 DEF Ordered, ChannelsOrdered
  <2>3. QED
    BY <2>1, <2>2
<1>6. ASSUME NEW f \in Edges PROVE Results(Owner[f[1]])' = Accounted(f)'
  <2>1. Accounted(f)' = Accounted(f)
    <3>1. CASE f = e
      <4>1. /\ Count(e[2])' = Count(e[2]) + 1 /\ Len(channel'[e]) = Len(channel[e]) - 1
            /\ Count(e[2]) \in Nat /\ Len(channel[e]) \in Nat
        BY <1>1, <1>2
      <4>2. Accounted(e)' = Accounted(e)
        BY <4>1 DEF Accounted
      <4>3. QED
        BY <3>1, <4>2
    <3>2. CASE f # e
      <4>1. channel'[f] = channel[f] /\ Count(f[2])' = Count(f[2])
        BY <1>1, <1>2, <1>3, <3>2
      <4>2. QED
        BY <4>1 DEF Accounted
    <3>3. QED
      BY <3>1, <3>2
  <2>2. QED
    BY <2>1 DEF Ordered, ResultsAccounted, Results
<1>7. KernelsLast'
  BY DEF Ordered, KernelsLast, Results
<1>8. QED
  BY <1>4, <1>5, <1>6, <1>7 DEF Ordered, ValuesOrdered, ChannelsOrdered, ResultsAccounted

LEMMA OrderedGiven ==
  ASSUME DataflowAssumption, Unreplicated, FlowKept, Ordered, NEW o \in Operators,
         NEW p \in InPorts, NEW m \in Ids, IsGiven(o, p, m), UNCHANGED <<made, channel>>
  PROVE  Ordered'
<1>1. /\ Owner[p] = o /\ kernel[o] = 0 /\ Count(p) = Len(handed[p]) + 1
      /\ m = Value(p, Count(p)) /\ Same
      /\ Len(handed'[p]) = Len(handed[p]) + 1
      /\ \A q \in InPorts \ {p} : handed'[q] = handed[q]
      /\ kernel'[o] = (IF o \in Sinks THEN 0 ELSE m) /\ outbox'[o] = OutOf(o)
      /\ \A b \in Operators \ {o} : kernel'[b] = kernel[b] /\ outbox'[b] = outbox[b]
  BY DEF IsGiven
<1>2. outbox[o] = {} /\ Len(handed[p]) \in Nat
  BY <1>1, CountIs DEF FlowKept, FlowBounded
<1>3. \A q \in InPorts : Count(q) \in Nat /\ Count(q)' = Count(q)
  BY <1>1, CountIs DEF Same
<1>4. \A e \in Edges : Len(channel[e]) \in Nat
  BY LenProperties DEF FlowKept, FlowTyped
<1>5. ValuesOrdered'
  BY <1>1, <1>3 DEF ValuesOrdered, Ordered, Same
<1>6. ChannelsOrdered'
  BY <1>3, FlowOwners DEF ChannelsOrdered, Ordered
<1>7. m = Len(handed[p]) + 1
  BY <1>1, <1>2 DEF Ordered, ValuesOrdered
<1>8. ASSUME NEW b \in Operators \ {o}, OutOf(b) # {} PROVE Results(b)' = Results(b)
  <2>1. CASE b \in Sources
    BY <1>8, <2>1, ResultsAre
  <2>2. CASE b \notin Sources
    <3>1. PICK q \in InPorts : Owner[q] = b
      BY <1>8, <2>2, ResultsAre
    <3>2. q # p
      BY <1>1, <1>8, <3>1
    <3>3. QED
      BY <1>1, <1>8, <3>1, <3>2, ResultsAre
  <2>3. QED
    BY <2>1, <2>2
<1>9. OutOf(o) # {} => Results(o) = Len(handed[p]) /\ Results(o)' = Len(handed[p]) + 1
  BY <1>1, ResultsAre
<1>10. ASSUME NEW e \in Edges PROVE Results(Owner[e[1]])' = Accounted(e)'
  <2>1. /\ e[1] \in OutPorts /\ e[2] \in InPorts /\ Owner[e[1]] \in Operators
        /\ e[1] \in OutOf(Owner[e[1]]) /\ Results(Owner[e[1]]) = Accounted(e)
    BY FlowOwners DEF Ordered, ResultsAccounted
  <2>2. CASE Owner[e[1]] = o
    BY <1>1, <1>2, <1>3, <1>4, <1>9, <2>1, <2>2 DEF Accounted
  <2>3. CASE Owner[e[1]] # o
    BY <1>1, <1>3, <1>8, <2>1, <2>3 DEF Accounted
  <2>4. QED
    BY <2>2, <2>3
<1>11. ASSUME NEW b \in Operators, outbox'[b] # {} PROVE kernel'[b] = Results(b)'
  <2>1. CASE b = o
    BY <1>1, <1>2, <1>7, <1>9, <1>11, <2>1 DEF Sinks
  <2>2. CASE b # o
    <3>1. outbox[b] # {} /\ kernel'[b] = kernel[b] /\ OutOf(b) # {}
      BY <1>1, <1>11, <2>2 DEF FlowKept, FlowBounded
    <3>2. QED
      BY <1>8, <2>2, <3>1 DEF Ordered, KernelsLast
  <2>3. QED
    BY <2>1, <2>2
<1>12. QED
  BY <1>5, <1>6, <1>10, <1>11 DEF Ordered, ResultsAccounted, KernelsLast

LEMMA OrderedSent ==
  ASSUME DataflowAssumption, Unreplicated, FlowKept, Ordered, NEW o \in Operators,
         NEW p \in OutPorts, NEW e \in Edges, Sent(o, p, e), Same, UNCHANGED <<made, handed>>
  PROVE  Ordered'
<1>1. /\ e[1] = p /\ p \in outbox[o] /\ kernel[o] # 0
      /\ Len(channel'[e]) = Len(channel[e]) + 1
      /\ channel'[e][Len(channel[e]) + 1] = kernel[o]
      /\ \A i \in 1 .. Len(channel[e]) : channel'[e][i] = channel[e][i]
      /\ \A f \in Edges \ {e} : channel'[f] = channel[f]
      /\ outbox'[o] = outbox[o] \ {p}
      /\ kernel'[o] = IF outbox'[o] = {} THEN 0 ELSE kernel[o]
      /\ \A b \in Operators \ {o} : kernel'[b] = kernel[b] /\ outbox'[b] = outbox[b]
  BY DEF Sent
<1>2. /\ Owner[p] = o
      /\ \A q \in InPorts : Count(q) \in Nat /\ Count(q)' = Count(q)
      /\ \A f \in Edges : Len(channel[f]) \in Nat /\ f[1] \in OutPorts /\ f[2] \in InPorts
  BY <1>1, CountIs, LenProperties, FlowOwners DEF FlowKept, FlowTyped, FlowBounded, Same, OutOf
<1>3. \A f \in Edges \ {e} : f[1] # p
  BY <1>1 DEF Unreplicated
<1>4. kernel[o] = Count(e[2]) + Len(channel[e]) + 1
  <2>1. kernel[o] = Results(o) /\ Results(o) = Accounted(e)
    BY <1>1, <1>2 DEF Ordered, KernelsLast, ResultsAccounted
  <2>2. QED
    BY <1>1, <1>2, <2>1 DEF Accounted
<1>5. ValuesOrdered'
  BY <1>2 DEF ValuesOrdered, Ordered, Same
<1>6. ASSUME NEW f \in Edges, NEW i \in 1 .. Len(channel'[f])
      PROVE  channel'[f][i] = Count(f[2])' + i
  <2>1. CASE f = e
    <3>1. i \in 1 .. Len(channel[e]) \/ i = Len(channel[e]) + 1
      BY <1>1, <1>2, <1>6, <2>1
    <3>2. CASE i \in 1 .. Len(channel[e])
      BY <1>1, <1>2, <2>1, <3>2 DEF Ordered, ChannelsOrdered
    <3>3. CASE i = Len(channel[e]) + 1
      BY <1>1, <1>2, <1>4, <2>1, <3>3
    <3>4. QED
      BY <3>1, <3>2, <3>3
  <2>2. CASE f # e
    <3>1. channel'[f] = channel[f] /\ Count(f[2])' = Count(f[2])
      BY <1>1, <1>2, <2>2
    <3>2. QED
      BY <1>6, <3>1 DEF Ordered, ChannelsOrdered
  <2>3. QED
    BY <2>1, <2>2
<1>7. ASSUME NEW f \in Edges PROVE Results(Owner[f[1]])' = Accounted(f)'
  <2>1. Results(Owner[f[1]])' = Results(Owner[f[1]]) /\ Results(Owner[f[1]]) = Accounted(f)
    BY DEF Results, Ordered, ResultsAccounted
  <2>2. CASE f = e
    <3>1. /\ Count(e[2])' = Count(e[2]) /\ Len(channel'[e]) = Len(channel[e]) + 1
          /\ Count(e[2]) \in Nat /\ Len(channel[e]) \in Nat
          /\ e[1] \in outbox[Owner[e[1]]] /\ e[1] \notin outbox'[Owner[e[1]]]
      BY <1>1, <1>2
    <3>2. Accounted(e)' = Accounted(e)
      BY <3>1 DEF Accounted
    <3>3. QED
      BY <2>1, <2>2, <3>2
  <2>3. CASE f # e
    <3>1. channel'[f] = channel[f] /\ Count(f[2])' = Count(f[2])
      BY <1>1, <1>2, <2>3
    <3>2. f[1] \in outbox'[Owner[f[1]]] <=> f[1] \in outbox[Owner[f[1]]]
      BY <1>1, <1>2, <1>3, <2>3, FlowOwners
    <3>3. QED
      BY <2>1, <3>1, <3>2 DEF Accounted
  <2>4. QED
    BY <2>2, <2>3
<1>8. ASSUME NEW b \in Operators, outbox'[b] # {} PROVE kernel'[b] = Results(b)'
  <2>1. Results(b)' = Results(b)
    BY DEF Results
  <2>2. outbox[b] # {} /\ kernel'[b] = kernel[b]
    BY <1>1, <1>8
  <2>3. QED
    BY <2>1, <2>2 DEF Ordered, KernelsLast
<1>9. QED
  BY <1>5, <1>6, <1>7, <1>8 DEF Ordered, ChannelsOrdered, ResultsAccounted, KernelsLast

LEMMA OrderedNext ==
  ASSUME DataflowAssumption, IsFiniteSet(InPorts), Unreplicated, FlowKept, Ordered, [Next]_vars
  PROVE  Ordered'
<1>1. ASSUME Same, UNCHANGED <<made, channel, kernel, outbox, handed>> PROVE Ordered'
  <2>1. /\ \A p \in InPorts : Count(p)' = Count(p)
        /\ \A e \in Edges : e[2] \in InPorts
    BY <1>1, FlowOwners DEF Same
  <2>2. ValuesOrdered'
    BY <1>1, <2>1 DEF Ordered, ValuesOrdered, Same
  <2>3. ChannelsOrdered'
    BY <1>1, <2>1 DEF Ordered, ChannelsOrdered
  <2>4. ResultsAccounted'
    BY <1>1, <2>1 DEF Ordered, ResultsAccounted, Results, Accounted
  <2>5. KernelsLast'
    BY <1>1 DEF Ordered, KernelsLast, Results
  <2>6. QED
    BY <2>2, <2>3, <2>4, <2>5 DEF Ordered
<1>2. QED
  BY <1>1, FlowSees, OrderedMakes, OrderedArrives, OrderedGiven, OrderedSent

LEMMA CountInit == ASSUME DataflowAssumption, Init PROVE \A p \in InPorts : Count(p) = 0
<1>1. ASSUME NEW p \in InPorts PROVE Count(p) = 0
  <2>1. handed[p] = <<>> /\ taken[p] = 0 /\ recvQueue[Owner[p]] = <<>>
    BY FlowOwners DEF Init
  <2>2. ~IsQueued(recvQueue[Owner[p]], p)
    BY <2>1 DEF IsQueued, InQueue
  <2>3. Pending(p) = 0
    BY <2>1, <2>2 DEF Pending, Waits
  <2>4. QED
    BY <2>1, <2>3 DEF Count
<1>2. QED
  BY <1>1

LEMMA OrderedInit ==
  ASSUME DataflowAssumption, IsFiniteSet(InPorts), Unreplicated, Init
  PROVE  Ordered
<1>1. \A p \in InPorts : Count(p) = 0
  BY CountInit
<1>2. ValuesOrdered /\ ChannelsOrdered
  BY <1>1 DEF Init, ValuesOrdered, ChannelsOrdered
<1>3. KernelsLast
  BY DEF Init, KernelsLast
<1>4. ASSUME NEW e \in Edges PROVE Results(Owner[e[1]]) = Accounted(e)
  <2>1. e[1] \in OutPorts /\ e[2] \in InPorts /\ Owner[e[1]] \in Operators
        /\ OutOf(Owner[e[1]]) # {}
    BY FlowOwners
  <2>2. Accounted(e) = 0
    BY <1>1, <2>1 DEF Accounted, Init
  <2>3. Results(Owner[e[1]]) = 0
    BY <2>1, ResultsAre DEF Init
  <2>4. QED
    BY <2>2, <2>3
<1>5. QED
  BY <1>2, <1>3, <1>4 DEF Ordered, ResultsAccounted

LEMMA OrderedInOrder ==
  ASSUME DataflowAssumption, FlowKept, Ordered PROVE InOrder
<1>1. ASSUME NEW p \in InPorts, NEW i \in DOMAIN handed[p] PROVE handed[p][i] = i
  <2>1. i \in 1 .. Len(handed[p]) /\ i \in 1 .. Count(p) /\ Value(p, i) = handed[p][i]
    <3>1. handed[p] \in Seq(Ids)
      BY DEF FlowKept, FlowTyped
    <3>2. DOMAIN handed[p] = 1 .. Len(handed[p])
      BY <3>1, LenProperties
    <3>3. QED
      BY <1>1, <3>2, CountIs
  <2>2. QED
    BY <2>1 DEF Ordered, ValuesOrdered
<1>2. QED
  BY <1>1 DEF InOrder

(* Where nothing is replicated, each port is given the messages of its     *)
(* source in order and without a gap, whatever the operators in between do *)
(* (send waits until every port has taken the result).                     *)
THEOREM FlowInOrder ==
  ASSUME DataflowAssumption, IsFiniteSet(InPorts), Unreplicated
  PROVE  Spec => []InOrder
<1>1. Init => FlowKept /\ Ordered
  BY FlowKeptInit, OrderedInit
<1>2. FlowKept /\ Ordered /\ [Next]_vars => (FlowKept /\ Ordered)'
  BY FlowKeptNext, OrderedNext
<1>3. FlowKept /\ Ordered => InOrder
  BY OrderedInOrder
<1>4. QED
  BY <1>1, <1>2, <1>3, PTL DEF Spec

(* With replicas: each port is of a stage that the edges connect, and two  *)
(* ports of results of one stage are of replicas, operators whose inputs   *)
(* are of one stage in turn.                                               *)
Staged(stage) ==
  /\ \A e \in Edges : stage[e[1]] = stage[e[2]]
  /\ \A p, q \in InPorts : Owner[p] = Owner[q] /\ OutOf(Owner[p]) # {} => p = q
  /\ \A p, q \in OutPorts : p # q /\ stage[p] = stage[q] =>
       /\ Owner[p] # Owner[q] /\ Owner[p] \notin Sources /\ Owner[q] \notin Sources
       /\ \A i \in InOf(Owner[p]), j \in InOf(Owner[q]) : stage[i] = stage[j]

(* No message is in a stage twice, on the way or given.                    *)
SentOnce(stage) ==
  \A e, f \in Edges : \A i \in 1 .. Len(channel[e]), j \in 1 .. Len(channel[f]) :
    stage[e[2]] = stage[f[2]] /\ channel[e][i] = channel[f][j] => e = f /\ i = j
GivenOnce(stage) ==
  \A p, q \in InPorts : \A i \in 1 .. Count(p), j \in 1 .. Count(q) :
    stage[p] = stage[q] /\ Value(p, i) = Value(q, j) => p = q /\ i = j
NotGivenYet(stage) ==
  \A e \in Edges, p \in InPorts : \A i \in 1 .. Len(channel[e]), j \in 1 .. Count(p) :
    stage[e[2]] = stage[p] => channel[e][i] # Value(p, j)

(* Result m of an operator has been begun, and port p has sent it.         *)
Begun(o, m) ==
  \/ o \in Sources /\ m <= made[o]
  \/ \E q \in InOf(o) : \E i \in 1 .. Len(handed[q]) : handed[q][i] = m
Gone(p, m) == Begun(Owner[p], m) /\ ~(p \in outbox[Owner[p]] /\ kernel[Owner[p]] = m)
Came(stage, s, m) == \E p \in OutPorts : stage[p] = s /\ Gone(p, m)
AllCame(stage) ==
  /\ \A m \in Ids, e \in Edges : \A i \in 1 .. Len(channel[e]) :
       channel[e][i] = m => Came(stage, stage[e[2]], m)
  /\ \A m \in Ids, p \in InPorts : \A i \in 1 .. Count(p) :
       Value(p, i) = m => Came(stage, stage[p], m)
KernelsBegun == \A m \in Ids, o \in Operators : outbox[o] # {} /\ kernel[o] = m => Begun(o, m)
Single(stage) ==
  SentOnce(stage) /\ GivenOnce(stage) /\ NotGivenYet(stage) /\ AllCame(stage) /\ KernelsBegun

LEMMA HandedUnique ==
  ASSUME DataflowAssumption, FlowKept, NEW stage, GivenOnce(stage),
         NEW p \in InPorts, NEW q \in InPorts, stage[p] = stage[q],
         NEW i \in 1 .. Len(handed[p]), NEW j \in 1 .. Len(handed[q]), handed[p][i] = handed[q][j]
  PROVE  p = q /\ i = j
<1>1. /\ Len(handed[p]) \in Nat /\ Len(handed[q]) \in Nat /\ Count(p) \in Nat /\ Count(q) \in Nat
      /\ Len(handed[p]) <= Count(p) /\ Len(handed[q]) <= Count(q)
      /\ Value(p, i) = handed[p][i] /\ Value(q, j) = handed[q][j]
  BY CountIs
<1>2. i \in 1 .. Count(p) /\ j \in 1 .. Count(q)
  BY <1>1
<1>3. QED
  BY <1>1, <1>2 DEF GivenOnce

LEMMA FreshToStage ==
  ASSUME DataflowAssumption, FlowKept, NEW stage, Staged(stage), Single(stage),
         NEW o \in Operators, NEW p \in outbox[o], Came(stage, stage[p], kernel[o])
  PROVE  FALSE
<1>1. /\ p \in OutPorts /\ Owner[p] = o /\ outbox[o] # {} /\ kernel[o] \in Ids
  BY FlowOwners DEF FlowKept, FlowBounded, FlowTyped, OutOf, Ids
<1>2. Begun(o, kernel[o])
  BY <1>1 DEF Single, KernelsBegun
<1>3. PICK r \in OutPorts : stage[r] = stage[p] /\ Gone(r, kernel[o])
  BY DEF Came
<1>4. r # p
  BY <1>1, <1>3 DEF Gone
<1>5. /\ Owner[p] # Owner[r] /\ Owner[p] \notin Sources /\ Owner[r] \notin Sources
      /\ \A i \in InOf(Owner[p]), j \in InOf(Owner[r]) : stage[i] = stage[j]
  BY <1>1, <1>3, <1>4 DEF Staged
<1>6. PICK q \in InOf(o) : \E i \in 1 .. Len(handed[q]) : handed[q][i] = kernel[o]
  BY <1>1, <1>2, <1>5 DEF Begun
<1>7. PICK s \in InOf(Owner[r]) : \E i \in 1 .. Len(handed[s]) : handed[s][i] = kernel[o]
  BY <1>3, <1>5 DEF Gone, Begun
<1>8. q \in InPorts /\ s \in InPorts /\ Owner[q] = o /\ Owner[s] = Owner[r] /\ stage[q] = stage[s]
  BY <1>1, <1>5, <1>6, <1>7 DEF InOf
<1>9. q = s
  BY <1>6, <1>7, <1>8, HandedUnique DEF Single
<1>10. QED
  BY <1>1, <1>5, <1>8, <1>9

LEMMA SingleMakes ==
  ASSUME DataflowAssumption, FlowKept, NEW stage, Staged(stage), Single(stage),
         NEW o \in Sources, Makes(o), Same, UNCHANGED <<channel, handed>>
  PROVE  Single(stage)'
<1>1. /\ kernel[o] = 0 /\ made'[o] = made[o] + 1
      /\ \A b \in Sources \ {o} : made'[b] = made[b]
      /\ kernel'[o] = made[o] + 1 /\ outbox'[o] = OutOf(o)
      /\ \A b \in Operators \ {o} : kernel'[b] = kernel[b] /\ outbox'[b] = outbox[b]
  BY DEF Makes
<1>2. o \in Operators /\ made[o] \in Nat /\ \A b \in Sources : made[b] \in Nat
  BY FlowOwners DEF FlowKept, FlowTyped
<1>3. \A p \in InPorts :
        Count(p)' = Count(p) /\ \A i \in 1 .. Count(p) : Value(p, i)' = Value(p, i)
  BY DEF Same
<1>4. SentOnce(stage)' /\ GivenOnce(stage)' /\ NotGivenYet(stage)'
  <2>1. SentOnce(stage)'
    BY DEF Single, SentOnce
  <2>2. GivenOnce(stage)'
    BY <1>3 DEF Single, GivenOnce
  <2>3. NotGivenYet(stage)'
    BY <1>3 DEF Single, NotGivenYet
  <2>4. QED
    BY <2>1, <2>2, <2>3
<1>5. ASSUME NEW b \in Operators, NEW m \in Ids, Begun(b, m) PROVE Begun(b, m)'
  <2>1. CASE b \in Sources /\ m <= made[b]
    <3>1. m \in Nat /\ made[b] \in Nat /\ (made'[b] = made[b] \/ made'[b] = made[b] + 1)
      BY <1>1, <1>2, <2>1 DEF Ids
    <3>2. m <= made'[b]
      BY <2>1, <3>1
    <3>3. QED
      BY <2>1, <3>2 DEF Begun
  <2>2. CASE ~(b \in Sources /\ m <= made[b])
    BY <1>5, <2>2 DEF Begun
  <2>3. QED
    BY <2>1, <2>2
<1>6. ASSUME NEW p \in OutPorts, NEW m \in Ids, Gone(p, m) PROVE Gone(p, m)'
  <2>1. Owner[p] \in Operators /\ Begun(Owner[p], m)'
    BY <1>5, <1>6, FlowOwners DEF Gone
  <2>2. CASE Owner[p] = o
    <3>1. m <= made[o]
      BY <1>6, <2>2 DEF Gone, Begun, Sources
    <3>2. kernel'[Owner[p]] # m
      BY <1>1, <1>2, <2>2, <3>1 DEF Ids
    <3>3. QED
      BY <2>1, <3>2 DEF Gone
  <2>3. CASE Owner[p] # o
    BY <1>1, <1>6, <2>1, <2>3 DEF Gone
  <2>4. QED
    BY <2>2, <2>3
<1>7. AllCame(stage)'
  <2>1. \A s, m : m \in Ids /\ Came(stage, s, m) => Came(stage, s, m)'
    BY <1>6 DEF Came
  <2>2. QED
    BY <1>3, <2>1 DEF Single, AllCame
<1>8. ASSUME NEW m \in Ids, NEW b \in Operators, outbox'[b] # {}, kernel'[b] = m
      PROVE  Begun(b, m)'
  <2>1. CASE b = o
    BY <1>1, <1>2, <1>8, <2>1 DEF Begun
  <2>2. CASE b # o
    BY <1>1, <1>5, <1>8, <2>2 DEF Single, KernelsBegun
  <2>3. QED
    BY <2>1, <2>2
<1>9. QED
  BY <1>4, <1>7, <1>8 DEF Single, KernelsBegun

LEMMA SingleArrives ==
  ASSUME DataflowAssumption, FlowKept, NEW stage, Single(stage), NEW e \in Edges, Arrives(e),
         UNCHANGED <<made, kernel, outbox, handed>>
  PROVE  Single(stage)'
<1>. DEFINE p == e[2]
            n == Count(p) + 1
<1>1. /\ Len(channel[e]) > 0 /\ Count(p)' = Count(p) + 1
      /\ \A i : i = n => Value(p, i)' = channel[e][1]
      /\ \A i \in 1 .. Count(p) : Value(p, i)' = Value(p, i)
      /\ \A q \in InPorts \ {p} :
           Count(q)' = Count(q) /\ \A i \in 1 .. Count(q) : Value(q, i)' = Value(q, i)
      /\ Len(channel'[e]) = Len(channel[e]) - 1
      /\ \A i \in 1 .. Len(channel[e]) - 1 : channel'[e][i] = channel[e][i + 1]
      /\ \A f \in Edges \ {e} : channel'[f] = channel[f]
  BY DEF Arrives
<1>2. /\ p \in InPorts /\ \A q \in InPorts : Count(q) \in Nat
      /\ \A f \in Edges : Len(channel[f]) \in Nat /\ f[2] \in InPorts
  BY CountIs, LenProperties, FlowOwners DEF FlowKept, FlowTyped
<1>3. 1 \in 1 .. Len(channel[e])
  BY <1>1, <1>2
<1>. HIDE DEF p, n
(* Where a message is that was in a channel, and where one was that is     *)
(* there.                                                                  *)
<1>4. ASSUME NEW f \in Edges, NEW i \in 1 .. Len(channel'[f])
      PROVE  \E j \in 1 .. Len(channel[f]) :
               /\ channel'[f][i] = channel[f][j] /\ (f = e => j # 1)
               /\ j = IF f = e THEN i + 1 ELSE i
  <2>1. CASE f = e
    <3>1. i \in 1 .. Len(channel[e]) - 1 /\ i + 1 \in 1 .. Len(channel[e]) /\ i + 1 # 1
      BY <1>1, <1>2, <1>4, <2>1
    <3>2. channel'[e][i] = channel[e][i + 1]
      BY <1>1, <3>1
    <3>3. QED
      BY <2>1, <3>1, <3>2
  <2>2. CASE f # e
    BY <1>1, <1>4, <2>2
  <2>3. QED
    BY <2>1, <2>2
<1>5. ASSUME NEW q \in InPorts, NEW i \in 1 .. Count(q)'
      PROVE  \/ i \in 1 .. Count(q) /\ Value(q, i)' = Value(q, i)
             \/ q = p /\ i = n /\ Value(q, i)' = channel[e][1]
  <2>1. CASE q = p
    <3>1. i \in 1 .. Count(p) \/ i = n
      BY <1>1, <1>2, <1>5, <2>1 DEF n
    <3>2. QED
      BY <1>1, <2>1, <3>1
  <2>2. CASE q # p
    BY <1>1, <1>5, <2>2
  <2>3. QED
    BY <2>1, <2>2
<1>6. SentOnce(stage) /\ GivenOnce(stage) /\ NotGivenYet(stage) /\ AllCame(stage)
  BY DEF Single
<1>7. ASSUME NEW f \in Edges, NEW g \in Edges, NEW i \in 1 .. Len(channel'[f]),
             NEW j \in 1 .. Len(channel'[g]), stage[f[2]] = stage[g[2]],
             channel'[f][i] = channel'[g][j]
      PROVE  f = g /\ i = j
  <2>1. PICK k \in 1 .. Len(channel[f]) :
          channel'[f][i] = channel[f][k] /\ k = IF f = e THEN i + 1 ELSE i
    BY <1>4, <1>7
  <2>2. PICK l \in 1 .. Len(channel[g]) :
          channel'[g][j] = channel[g][l] /\ l = IF g = e THEN j + 1 ELSE j
    BY <1>4, <1>7
  <2>3. channel[f][k] = channel[g][l]
    BY <1>7, <2>1, <2>2
  <2>4. f = g /\ k = l
    BY <1>6, <1>7, <2>3 DEF SentOnce
  <2>5. i \in Int /\ j \in Int
    BY <1>7
  <2>6. i = j
    BY <2>1, <2>2, <2>4, <2>5
  <2>7. QED
    BY <2>4, <2>6
<1>8. ASSUME NEW f \in Edges, NEW q \in InPorts, NEW i \in 1 .. Len(channel'[f]),
             NEW j \in 1 .. Count(q)', stage[f[2]] = stage[q]
      PROVE  channel'[f][i] # Value(q, j)'
  <2>1. PICK k \in 1 .. Len(channel[f]) : channel'[f][i] = channel[f][k] /\ (f = e => k # 1)
    BY <1>4, <1>8
  <2>2. CASE j \in 1 .. Count(q) /\ Value(q, j)' = Value(q, j)
    BY <1>6, <1>8, <2>1, <2>2 DEF NotGivenYet
  <2>3. CASE q = p /\ Value(q, j)' = channel[e][1]
    <3>1. channel[f][k] = channel[e][1] => f = e /\ k = 1
      BY <1>3, <1>6, <1>8, <2>1, <2>3 DEF SentOnce, p
    <3>2. QED
      BY <2>1, <2>3, <3>1
  <2>4. QED
    BY <1>5, <1>8, <2>2, <2>3
<1>9. ASSUME NEW q \in InPorts, NEW r \in InPorts, NEW i \in 1 .. Count(q)',
             NEW j \in 1 .. Count(r)', stage[q] = stage[r], Value(q, i)' = Value(r, j)'
      PROVE  q = r /\ i = j
  <2>1. CASE i \in 1 .. Count(q) /\ Value(q, i)' = Value(q, i)
    <3>1. CASE j \in 1 .. Count(r) /\ Value(r, j)' = Value(r, j)
      BY <1>6, <1>9, <2>1, <3>1 DEF GivenOnce
    <3>2. CASE r = p /\ Value(r, j)' = channel[e][1]
      BY <1>3, <1>6, <1>9, <2>1, <3>2 DEF NotGivenYet, p
    <3>3. QED
      BY <1>5, <1>9, <3>1, <3>2
  <2>2. CASE q = p /\ i = n /\ Value(q, i)' = channel[e][1]
    <3>1. CASE j \in 1 .. Count(r) /\ Value(r, j)' = Value(r, j)
      BY <1>3, <1>6, <1>9, <2>2, <3>1 DEF NotGivenYet, p
    <3>2. CASE r = p /\ j = n
      BY <2>2, <3>2
    <3>3. QED
      BY <1>5, <1>9, <3>1, <3>2
  <2>3. QED
    BY <1>5, <1>9, <2>1, <2>2
<1>10. \A s, m : Came(stage, s, m)' <=> Came(stage, s, m)
  BY DEF Came, Gone, Begun
<1>11. ASSUME NEW m \in Ids, NEW f \in Edges, NEW i \in 1 .. Len(channel'[f]), channel'[f][i] = m
       PROVE  Came(stage, stage[f[2]], m)'
  BY <1>4, <1>6, <1>10, <1>11 DEF AllCame
<1>12. ASSUME NEW m \in Ids, NEW q \in InPorts, NEW i \in 1 .. Count(q)', Value(q, i)' = m
       PROVE  Came(stage, stage[q], m)'
  <2>1. CASE i \in 1 .. Count(q) /\ Value(q, i)' = Value(q, i)
    BY <1>6, <1>10, <1>12, <2>1 DEF AllCame
  <2>2. CASE q = p /\ Value(q, i)' = channel[e][1]
    BY <1>3, <1>6, <1>10, <1>12, <2>2 DEF AllCame, p
  <2>3. QED
    BY <1>5, <1>12, <2>1, <2>2
<1>13. KernelsBegun'
  BY DEF Single, KernelsBegun, Begun
<1>14. AllCame(stage)'
  BY <1>11, <1>12 DEF AllCame
<1>15. SentOnce(stage)' /\ NotGivenYet(stage)'
  BY <1>7, <1>8 DEF SentOnce, NotGivenYet
<1>16. GivenOnce(stage)'
  BY <1>9 DEF GivenOnce
<1>17. QED
  BY <1>13, <1>14, <1>15, <1>16 DEF Single

LEMMA SingleGiven ==
  ASSUME DataflowAssumption, FlowKept, NEW stage, Staged(stage), Single(stage),
         NEW o \in Operators, NEW p \in InPorts, NEW m \in Ids, IsGiven(o, p, m),
         UNCHANGED <<made, channel>>
  PROVE  Single(stage)'
<1>1. /\ Owner[p] = o /\ kernel[o] = 0 /\ Count(p) = Len(handed[p]) + 1
      /\ m = Value(p, Count(p)) /\ Same
      /\ Len(handed'[p]) = Len(handed[p]) + 1 /\ handed'[p][Len(handed[p]) + 1] = m
      /\ \A i \in 1 .. Len(handed[p]) : handed'[p][i] = handed[p][i]
      /\ \A q \in InPorts \ {p} : handed'[q] = handed[q]
      /\ kernel'[o] = (IF o \in Sinks THEN 0 ELSE m) /\ outbox'[o] = OutOf(o)
      /\ \A b \in Operators \ {o} : kernel'[b] = kernel[b] /\ outbox'[b] = outbox[b]
  BY DEF IsGiven
<1>2. /\ p \in InOf(o) /\ o \notin Sources /\ Len(handed[p]) \in Nat
      /\ Count(p) \in Nat /\ Count(p) \in 1 .. Count(p)
  <2>1. p \in InOf(o) /\ o \notin Sources
    BY <1>1 DEF InOf, Sources
  <2>2. Len(handed[p]) \in Nat /\ Count(p) \in Nat
    BY CountIs
  <2>3. QED
    BY <1>1, <2>1, <2>2
<1>3. \A q \in InPorts :
        Count(q)' = Count(q) /\ \A i \in 1 .. Count(q) : Value(q, i)' = Value(q, i)
  BY <1>1 DEF Same
<1>4. SentOnce(stage)' /\ GivenOnce(stage)' /\ NotGivenYet(stage)'
  <2>1. SentOnce(stage)'
    BY DEF Single, SentOnce
  <2>2. GivenOnce(stage)'
    BY <1>3 DEF Single, GivenOnce
  <2>3. NotGivenYet(stage)'
    BY <1>3 DEF Single, NotGivenYet
  <2>4. QED
    BY <2>1, <2>2, <2>3
<1>5. ASSUME NEW q \in InPorts, NEW i \in 1 .. Len(handed[q])
      PROVE  i \in 1 .. Len(handed'[q]) /\ handed'[q][i] = handed[q][i]
  <2>1. CASE q = p
    BY <1>1, <1>2, <1>5, <2>1
  <2>2. CASE q # p
    BY <1>1, <1>5, <2>2
  <2>3. QED
    BY <2>1, <2>2
<1>6. ASSUME NEW b, NEW k, Begun(b, k) PROVE Begun(b, k)'
  <2>1. CASE b \in Sources /\ k <= made[b]
    BY <2>1 DEF Begun
  <2>2. CASE \E q \in InOf(b) : \E i \in 1 .. Len(handed[q]) : handed[q][i] = k
    <3>1. PICK q \in InOf(b) : \E i \in 1 .. Len(handed[q]) : handed[q][i] = k
      BY <2>2
    <3>2. \E i \in 1 .. Len(handed'[q]) : handed'[q][i] = k
      BY <1>5, <3>1 DEF InOf
    <3>3. QED
      BY <3>2 DEF Begun, InOf
  <2>3. QED
    BY <1>6, <2>1, <2>2 DEF Begun
<1>7. ASSUME NEW r \in OutPorts, NEW k \in Ids, Gone(r, k) PROVE Gone(r, k)'
  <2>1. Owner[r] \in Operators /\ Begun(Owner[r], k) /\ Begun(Owner[r], k)'
    BY <1>6, <1>7, FlowOwners DEF Gone
  <2>2. CASE Owner[r] = o
    <3>1. OutOf(o) # {}
      BY <2>2 DEF OutOf
    <3>2. PICK q \in InOf(o) : \E i \in 1 .. Len(handed[q]) : handed[q][i] = k
      BY <1>2, <2>1, <2>2 DEF Begun
    <3>3. q = p
      BY <1>1, <3>1, <3>2 DEF Staged, InOf
    <3>4. PICK i \in 1 .. Len(handed[p]) : handed[p][i] = k
      BY <3>2, <3>3
    <3>5. Value(p, i) = k /\ i \in 1 .. Count(p) /\ i # Count(p)
      BY <1>1, <1>2, <3>4, CountIs
    <3>6. k # m
      BY <1>1, <1>2, <3>5 DEF Single, GivenOnce
    <3>7. kernel'[Owner[r]] # k
      BY <1>1, <2>2, <3>6 DEF Ids
    <3>8. QED
      BY <2>1, <3>7 DEF Gone
  <2>3. CASE Owner[r] # o
    BY <1>1, <1>7, <2>1, <2>3 DEF Gone
  <2>4. QED
    BY <2>2, <2>3
<1>8. AllCame(stage)'
  <2>1. \A s, k : k \in Ids /\ Came(stage, s, k) => Came(stage, s, k)'
    BY <1>7 DEF Came
  <2>2. QED
    BY <1>3, <2>1 DEF Single, AllCame
<1>9. ASSUME NEW k \in Ids, NEW b \in Operators, outbox'[b] # {}, kernel'[b] = k
      PROVE  Begun(b, k)'
  <2>1. CASE b = o
    <3>1. k = m
      BY <1>1, <1>9, <2>1 DEF Sinks
    <3>2. Len(handed[p]) + 1 \in 1 .. Len(handed'[p]) /\ handed'[p][Len(handed[p]) + 1] = k
      BY <1>1, <1>2, <3>1
    <3>3. \E q \in InOf(o) : \E i \in 1 .. Len(handed'[q]) : handed'[q][i] = k
      BY <1>2, <3>2
    <3>4. QED
      BY <2>1, <3>3 DEF Begun, InOf
  <2>2. CASE b # o
    BY <1>1, <1>6, <1>9, <2>2 DEF Single, KernelsBegun
  <2>3. QED
    BY <2>1, <2>2
<1>10. QED
  BY <1>4, <1>8, <1>9 DEF Single, KernelsBegun

LEMMA SingleSent ==
  ASSUME DataflowAssumption, FlowKept, NEW stage, Staged(stage), Single(stage),
         NEW o \in Operators, NEW p \in OutPorts, NEW e \in Edges, Sent(o, p, e), Same,
         UNCHANGED <<made, handed>>
  PROVE  Single(stage)'
<1>. DEFINE m == kernel[o]
            n == Len(channel[e]) + 1
<1>1. /\ e[1] = p /\ p \in outbox[o] /\ m # 0
      /\ Len(channel'[e]) = n /\ channel'[e][n] = m
      /\ \A i \in 1 .. Len(channel[e]) : channel'[e][i] = channel[e][i]
      /\ \A f \in Edges \ {e} : channel'[f] = channel[f]
      /\ outbox'[o] = outbox[o] \ {p}
      /\ kernel'[o] = IF outbox'[o] = {} THEN 0 ELSE m
      /\ \A b \in Operators \ {o} : kernel'[b] = kernel[b] /\ outbox'[b] = outbox[b]
  BY DEF Sent
<1>2. /\ Owner[p] = o /\ outbox[o] # {} /\ m \in Ids /\ e[2] \in InPorts /\ Owner[p] \in Operators
      /\ \A f \in Edges : Len(channel[f]) \in Nat
  BY <1>1, LenProperties, FlowOwners DEF FlowKept, FlowBounded, FlowTyped, OutOf, Ids
<1>3. stage[p] = stage[e[2]]
  BY <1>1 DEF Staged
<1>4. SentOnce(stage) /\ GivenOnce(stage) /\ NotGivenYet(stage) /\ AllCame(stage) /\ KernelsBegun
  BY DEF Single
<1>5. ~Came(stage, stage[e[2]], m)
  BY <1>1, <1>3, FreshToStage
<1>6. \A q \in InPorts :
        Count(q)' = Count(q) /\ \A i \in 1 .. Count(q) : Value(q, i)' = Value(q, i)
  BY DEF Same
<1>7. /\ \A f \in Edges : \A i \in 1 .. Len(channel[f]) :
           stage[f[2]] = stage[e[2]] => channel[f][i] # m
      /\ \A q \in InPorts : \A i \in 1 .. Count(q) : stage[q] = stage[e[2]] => Value(q, i) # m
  BY <1>2, <1>4, <1>5 DEF AllCame
<1>. HIDE DEF m, n
<1>8. ASSUME NEW f \in Edges, NEW i \in 1 .. Len(channel'[f])
      PROVE  \/ i \in 1 .. Len(channel[f]) /\ channel'[f][i] = channel[f][i]
             \/ f = e /\ i = n /\ channel'[f][i] = m
  <2>1. CASE f = e
    <3>1. i \in 1 .. Len(channel[e]) \/ i = n
      BY <1>1, <1>2, <1>8, <2>1 DEF n
    <3>2. QED
      BY <1>1, <2>1, <3>1
  <2>2. CASE f # e
    BY <1>1, <1>8, <2>2
  <2>3. QED
    BY <2>1, <2>2
<1>9. ASSUME NEW f \in Edges, NEW g \in Edges, NEW i \in 1 .. Len(channel'[f]),
             NEW j \in 1 .. Len(channel'[g]), stage[f[2]] = stage[g[2]],
             channel'[f][i] = channel'[g][j]
      PROVE  f = g /\ i = j
  <2>1. CASE i \in 1 .. Len(channel[f]) /\ channel'[f][i] = channel[f][i]
    <3>1. CASE j \in 1 .. Len(channel[g]) /\ channel'[g][j] = channel[g][j]
      <4>1. channel[f][i] = channel[g][j]
        BY <1>9, <2>1, <3>1
      <4>2. QED
        BY <1>4, <1>9, <2>1, <3>1, <4>1 DEF SentOnce
    <3>2. CASE g = e /\ channel'[g][j] = m
      BY <1>7, <1>9, <2>1, <3>2
    <3>3. QED
      BY <1>8, <1>9, <3>1, <3>2
  <2>2. CASE f = e /\ i = n /\ channel'[f][i] = m
    <3>1. CASE j \in 1 .. Len(channel[g]) /\ channel'[g][j] = channel[g][j]
      BY <1>7, <1>9, <2>2, <3>1
    <3>2. CASE g = e /\ j = n
      BY <2>2, <3>2
    <3>3. QED
      BY <1>8, <1>9, <3>1, <3>2
  <2>3. QED
    BY <1>8, <1>9, <2>1, <2>2
<1>10. ASSUME NEW f \in Edges, NEW q \in InPorts, NEW i \in 1 .. Len(channel'[f]),
              NEW j \in 1 .. Count(q)', stage[f[2]] = stage[q]
       PROVE  channel'[f][i] # Value(q, j)'
  <2>1. j \in 1 .. Count(q) /\ Value(q, j)' = Value(q, j)
    BY <1>6, <1>10
  <2>2. CASE i \in 1 .. Len(channel[f]) /\ channel'[f][i] = channel[f][i]
    BY <1>4, <1>10, <2>1, <2>2 DEF NotGivenYet
  <2>3. CASE f = e /\ channel'[f][i] = m
    BY <1>7, <1>10, <2>1, <2>3
  <2>4. QED
    BY <1>8, <1>10, <2>2, <2>3
<1>11. GivenOnce(stage)'
  BY <1>4, <1>6 DEF GivenOnce
<1>12. \A b, k : Begun(b, k)' <=> Begun(b, k)
  BY DEF Begun
<1>13. ASSUME NEW r \in OutPorts, NEW k \in Ids, Gone(r, k) PROVE Gone(r, k)'
  <2>1. Owner[r] \in Operators /\ Begun(Owner[r], k)'
    BY <1>12, <1>13, FlowOwners DEF Gone
  <2>2. CASE Owner[r] = o
    <3>1. r \in outbox'[o] => r \in outbox[o] /\ kernel'[o] = m
      BY <1>1
    <3>2. QED
      BY <1>13, <2>1, <2>2, <3>1 DEF Gone, m
  <2>3. CASE Owner[r] # o
    BY <1>1, <1>13, <2>1, <2>3 DEF Gone
  <2>4. QED
    BY <2>2, <2>3
<1>14. \A s, k : k \in Ids /\ Came(stage, s, k) => Came(stage, s, k)'
  BY <1>13 DEF Came
<1>15. ASSUME NEW k, k = m PROVE Came(stage, stage[e[2]], k)'
  <2>1. Begun(o, k)
    BY <1>2, <1>4, <1>15 DEF KernelsBegun, m
  <2>2. Gone(p, k)'
    BY <1>1, <1>2, <1>12, <2>1 DEF Gone
  <2>3. QED
    BY <1>3, <2>2 DEF Came
<1>16. ASSUME NEW k \in Ids, NEW f \in Edges, NEW i \in 1 .. Len(channel'[f]), channel'[f][i] = k
       PROVE  Came(stage, stage[f[2]], k)'
  <2>1. CASE i \in 1 .. Len(channel[f]) /\ channel'[f][i] = channel[f][i]
    BY <1>4, <1>14, <1>16, <2>1 DEF AllCame
  <2>2. CASE f = e /\ channel'[f][i] = m
    BY <1>15, <1>16, <2>2
  <2>3. QED
    BY <1>8, <1>16, <2>1, <2>2
<1>17. ASSUME NEW k \in Ids, NEW q \in InPorts, NEW i \in 1 .. Count(q)', Value(q, i)' = k
       PROVE  Came(stage, stage[q], k)'
  BY <1>4, <1>6, <1>14, <1>17 DEF AllCame
<1>18. KernelsBegun'
  <2>1. ASSUME NEW k \in Ids, NEW b \in Operators, outbox'[b] # {}, kernel'[b] = k
        PROVE  Begun(b, k)'
    BY <1>1, <1>4, <1>12, <2>1 DEF KernelsBegun, m
  <2>2. QED
    BY <2>1 DEF KernelsBegun
<1>19. AllCame(stage)'
  BY <1>16, <1>17 DEF AllCame
<1>20. SentOnce(stage)' /\ NotGivenYet(stage)'
  BY <1>9, <1>10 DEF SentOnce, NotGivenYet
<1>21. QED
  BY <1>11, <1>18, <1>19, <1>20 DEF Single

LEMMA SingleNext ==
  ASSUME DataflowAssumption, IsFiniteSet(InPorts), FlowKept, NEW stage, Staged(stage),
         Single(stage), [Next]_vars
  PROVE  Single(stage)'
<1>1. ASSUME Same, UNCHANGED <<made, channel, kernel, outbox, handed>> PROVE Single(stage)'
  <2>1. \A q \in InPorts :
          Count(q)' = Count(q) /\ \A i \in 1 .. Count(q) : Value(q, i)' = Value(q, i)
    BY <1>1 DEF Same
  <2>2. \A s, m : Came(stage, s, m)' <=> Came(stage, s, m)
    BY <1>1 DEF Came, Gone, Begun
  <2>3. SentOnce(stage)'
    BY <1>1 DEF Single, SentOnce
  <2>4. GivenOnce(stage)'
    BY <2>1 DEF Single, GivenOnce
  <2>5. NotGivenYet(stage)'
    BY <1>1, <2>1 DEF Single, NotGivenYet
  <2>6. AllCame(stage)'
    BY <1>1, <2>1, <2>2 DEF Single, AllCame
  <2>7. KernelsBegun'
    BY <1>1 DEF Single, KernelsBegun, Begun
  <2>8. QED
    BY <2>3, <2>4, <2>5, <2>6, <2>7 DEF Single
<1>2. QED
  BY <1>1, FlowSees, SingleMakes, SingleArrives, SingleGiven, SingleSent

LEMMA SingleInit == ASSUME DataflowAssumption, NEW stage, Init PROVE Single(stage)
<1>1. \A e \in Edges : Len(channel[e]) = 0
  BY DEF Init
<1>2. \A p \in InPorts : Count(p) = 0
  BY CountInit
<1>3. KernelsBegun
  BY DEF Init, KernelsBegun
<1>4. QED
  BY <1>1, <1>2, <1>3 DEF Single, SentOnce, GivenOnce, NotGivenYet, AllCame

LEMMA SingleOnlyOnce ==
  ASSUME DataflowAssumption, FlowKept, NEW stage, Single(stage) PROVE OnlyOnce
<1>1. ASSUME NEW p \in InPorts PROVE IsInjective(handed[p])
  <2>1. DOMAIN handed[p] = 1 .. Len(handed[p])
    BY LenProperties DEF FlowKept, FlowTyped
  <2>2. \A i, j \in 1 .. Len(handed[p]) : handed[p][i] = handed[p][j] => i = j
    BY HandedUnique DEF Single
  <2>3. QED
    BY <2>1, <2>2 DEF IsInjective
<1>2. QED
  BY <1>1 DEF OnlyOnce

(* No port is given a message twice, whichever replica has taken it: a PUSH*)
(* socket gives each result to one peer.                                   *)
THEOREM FlowOnlyOnce ==
  ASSUME DataflowAssumption, IsFiniteSet(InPorts), NEW stage, Staged(stage)
  PROVE  Spec => []OnlyOnce
<1>1. Init => FlowKept /\ Single(stage)
  BY FlowKeptInit, SingleInit
<1>2. FlowKept /\ Single(stage) /\ [Next]_vars => (FlowKept /\ Single(stage))'
  BY FlowKeptNext, SingleNext
<1>3. FlowKept /\ Single(stage) => OnlyOnce
  BY SingleOnlyOnce
<1>4. QED
  BY <1>1, <1>2, <1>3, PTL DEF Spec
==============================================================================
