---------------------------- MODULE TransportProofs ----------------------------
(***************************************************************************)
(* Theorems about Transport, for every size of the ring, of the groups, of *)
(* the callers' windows and of the bound on the steps.                     *)
(***************************************************************************)
EXTENDS Transport, TLAPS

-----------------------------------------------------------------------------
(***************************************************************************)
(* The ring: steps less than MaxRequests apart use different slots, and    *)
(* a step MaxRequests later uses the same one.                             *)
(***************************************************************************)
LEMMA SlotInSlots == \A i \in Nat : Slot(i) \in Slots
BY ConstantsOK DEF Slot, Slots

LEMMA Division ==
  \A i \in Nat : /\ i \div MaxRequests \in Nat
                 /\ i = MaxRequests * (i \div MaxRequests) + Slot(i)
BY ConstantsOK DEF Slot

LEMMA SlotsDiffer ==
  ASSUME NEW i \in Nat, NEW j \in Nat, i < j, j < i + MaxRequests
  PROVE  Slot(i) # Slot(j)
<1> SUFFICES ASSUME Slot(i) = Slot(j) PROVE FALSE
  OBVIOUS
<1> DEFINE d == (j \div MaxRequests) - (i \div MaxRequests)
<1>1. d \in Int /\ j - i = MaxRequests * d
  <2>1. /\ i \div MaxRequests \in Nat
        /\ i = MaxRequests * (i \div MaxRequests) + Slot(i)
        /\ j \div MaxRequests \in Nat
        /\ j = MaxRequests * (j \div MaxRequests) + Slot(j)
    BY Division
  <2>2. Slot(i) \in Int
    BY SlotInSlots DEF Slots
  <2> QED
    BY <2>1, <2>2, ConstantsOK
<1>2. d > 0
  <2>1. CASE d <= 0
    <3>1. MaxRequests * d <= 0
      BY <1>1, <2>1, ConstantsOK
    <3> QED
      BY <3>1, <1>1
  <2> QED
    BY <2>1, <1>1
<1>3. MaxRequests * d >= MaxRequests
  BY <1>1, <1>2, ConstantsOK
<1> QED
  BY <1>1, <1>3, ConstantsOK

LEMMA SlotsRepeat ==
  ASSUME NEW i \in Nat PROVE Slot(i + MaxRequests) = Slot(i)
<1> DEFINE j == i + MaxRequests
<1> DEFINE d == (j \div MaxRequests) - (i \div MaxRequests)
<1>1. /\ j \in Nat /\ d \in Int
      /\ MaxRequests = MaxRequests * d + (Slot(j) - Slot(i))
      /\ Slot(j) \in 0..MaxRequests-1 /\ Slot(i) \in 0..MaxRequests-1
  <2>1. /\ i \div MaxRequests \in Nat
        /\ i = MaxRequests * (i \div MaxRequests) + Slot(i)
    BY Division
  <2>2. j \in Nat
    BY ConstantsOK
  <2>3. /\ j \div MaxRequests \in Nat
        /\ j = MaxRequests * (j \div MaxRequests) + Slot(j)
    BY <2>2, Division
  <2>4. Slot(j) \in 0..MaxRequests-1 /\ Slot(i) \in 0..MaxRequests-1
    BY <2>2, SlotInSlots DEF Slots
  <2>5. MaxRequests * d =
          MaxRequests * (j \div MaxRequests) - MaxRequests * (i \div MaxRequests)
    BY <2>1, <2>3, ConstantsOK
  <2> QED
    BY <2>1, <2>2, <2>3, <2>4, <2>5, ConstantsOK
<1>2. CASE d <= 0
  <2>1. MaxRequests * d <= 0
    BY <1>1, <1>2, ConstantsOK
  <2> QED
    BY <2>1, <1>1, ConstantsOK
<1>3. CASE d = 1
  BY <1>1, <1>3, ConstantsOK
<1>4. CASE d >= 2
  <2>1. MaxRequests * d >= MaxRequests * 2
    BY <1>1, <1>4, ConstantsOK
  <2> QED
    BY <2>1, <1>1, ConstantsOK
<1> QED
  BY <1>1, <1>2, <1>3, <1>4

-----------------------------------------------------------------------------
(***************************************************************************)
(* Types.                                                                  *)
(***************************************************************************)
AllShapes == RecvShape /\ SendShape /\ NetShape

LEMMA Literals ==
  /\ ZeroElem \in Elems /\ NoData \in Payloads /\ NoMsg \in Msgs
  /\ NoCall \in Calls /\ FreeRecvReq \in RecvReqs /\ FreeSendReq \in SendReqs
<1> USE ConstantsOK
<1>1. ZeroElem \in Elems /\ NoData \in Payloads
  BY DEF ZeroElem, Elems, NoData, Payloads, Stray
<1>2. NoMsg \in Msgs
  BY <1>1 DEF NoMsg, Msgs, NoReq, Memory, Stray
<1>3. NoCall \in Calls
  BY DEF NoCall, Calls
<1>4. FreeRecvReq \in RecvReqs /\ FreeSendReq \in SendReqs
  BY <1>1 DEF FreeRecvReq, FreeSendReq, RecvReqs, SendReqs, Memory
<1> QED
  BY <1>1, <1>2, <1>3, <1>4

\* The address of a buffer is a step, 0 or Stray.
LEMMA AddressType ==
  ASSUME NEW mem \in Mems, NEW t \in Steps
  PROVE  Address(mem, t) \in 0..Stray
<1>1. mem \in {"gpu", "page", "host"}
  BY ConstantsOK DEF Memory
<1>2. t \in Nat /\ t < Stray /\ 0 <= Stray /\ Stray \in Nat
  BY ConstantsOK DEF Steps, Stray
<1> QED
  BY <1>1, <1>2 DEF Address

LEMMA InitShapes == Init => AllShapes
<1> SUFFICES ASSUME Init PROVE AllShapes
  OBVIOUS
<1> USE ConstantsOK, Literals
<1>1. RecvShape
  BY DEF Init, RecvShape
<1>2. SendShape
  BY DEF Init, SendShape
<1>3. NetShape
  BY DEF Init, NetShape
<1> QED
  BY <1>1, <1>2, <1>3 DEF AllShapes

LEMMA OneEventLessType ==
  ASSUME NEW reqs \in [Pool -> RecvReqs], NEW q
  PROVE  OneEventLess(reqs, q) \in [Pool -> RecvReqs]
<1>1. CASE q \in Pool
  <2>1. reqs[q] \in RecvReqs
    BY <1>1
  <2>2. [reqs[q] EXCEPT !.events = @ - 1] \in RecvReqs
    BY <2>1 DEF RecvReqs
  <2> QED
    BY <2>2 DEF OneEventLess
<1>2. CASE q \notin Pool
  BY <1>2 DEF OneEventLess
<1> QED
  BY <1>1, <1>2

LEMMA PrefixSeq ==
  ASSUME NEW n \in 0..MaxRecvs, NEW f \in [Lanes -> Nat]
  PROVE  [r \in 1..n |-> f[r]] \in Seq(Nat)
<1>1. n \in Nat
  BY ConstantsOK
<1>2. \A r \in 1..n : f[r] \in Nat
  BY ConstantsOK DEF Lanes
<1>3. [r \in 1..n |-> f[r]] \in [1..n -> Nat]
  BY <1>2
<1> QED
  BY <1>1, <1>3

LEMMA IrecvShape ==
  ASSUME AllShapes, NEW n \in GroupSizes, NEW tags \in [1..n -> Tags],
         NEW sizes \in [1..n -> Sizes],
         NEW mems \in [1..n -> Mems], Irecv(n, tags, sizes, mems)
  PROVE  AllShapes'
<1> DEFINE t == fifoTail + 1
<1> USE ConstantsOK DEF AllShapes
<1>1. t \in Steps /\ t \in Nat /\ Slot(t - 1) \in Slots /\ n \in 1..MaxRecvs
  BY SlotInSlots DEF Irecv, RecvShape, Steps
<1>2. elems' \in [Slots -> [Lanes -> Elems]]
  <2> DEFINE e(r) == [addr |-> Address(mems[r], t), size |-> sizes[r], nreqs |-> n,
                      tag |-> tags[r], idx |-> t]
  <2>1. \A r \in 1..n : e(r) \in Elems
    <3>1. \A r \in 1..n : Address(mems[r], t) \in 0..Stray
      BY <1>1, AddressType
    <3> QED
      BY <3>1, <1>1 DEF Elems, Steps
  <2>2. elems \in [Slots -> [Lanes -> Elems]]
    BY DEF RecvShape
  <2>3. [r \in Lanes |-> IF r <= n THEN e(r) ELSE elems[Slot(t - 1)][r]]
          \in [Lanes -> Elems]
    BY <2>1, <2>2, <1>1 DEF Lanes
  <2> QED
    BY <2>2, <2>3, <1>1 DEF Irecv, StageFifo
<1>3. wire' \subseteq Steps \X Lanes
  BY <1>1 DEF Irecv, StageFifo, NetShape, Lanes
<1>4. /\ rreqs' \in [Pool -> RecvReqs] /\ rq' \in [Steps -> Pool \cup {NoReq}]
      /\ wq' \in [Steps -> Pool \cup {NoReq}] /\ held' \in [Steps -> Pool \cup {NoReq}]
  <2>1. PICK q \in Pool :
          /\ rreqs' = [rreqs EXCEPT ![q] =
               [type |-> "recv", events |-> EventsOf(t), nreqs |-> n,
                sizes |-> [r \in Lanes |-> IF r <= n THEN 0 ELSE rreqs[q].sizes[r]]]]
          /\ rq' = [rq EXCEPT ![rqPosted + 1] = q]
          /\ wq' = [wq EXCEPT ![t] = IF Signaled(t) THEN q ELSE NoReq]
          /\ held' = [held EXCEPT ![t] = q]
    BY DEF Irecv
  <2>2. [r \in Lanes |-> IF r <= n THEN 0 ELSE rreqs[q].sizes[r]] \in [Lanes -> Nat]
    BY DEF RecvShape, RecvReqs
  <2>3. [type |-> "recv", events |-> EventsOf(t), nreqs |-> n,
         sizes |-> [r \in Lanes |-> IF r <= n THEN 0 ELSE rreqs[q].sizes[r]]] \in RecvReqs
    BY <2>2, <1>1 DEF RecvReqs, EventsOf
  <2>4. rreqs' \in [Pool -> RecvReqs]
    BY <2>1, <2>3 DEF RecvShape
  <2> QED
    BY <2>1, <2>4 DEF RecvShape
<1>5. call' \in [Steps -> Calls]
  <2>1. tags \in Seq(Tags) /\ sizes \in Seq(Sizes)
    BY <1>1
  <2> QED
    BY <2>1, <1>1 DEF Irecv, RecvShape, Calls
<1>8. place' \in [Steps -> Seq(Memory)]
  <2>1. mems \in Seq(Memory)
    BY <1>1
  <2> QED
    BY <2>1, <1>1 DEF Irecv, RecvShape
<1>6. RecvShape'
  BY <1>1, <1>2, <1>4, <1>5, <1>8 DEF Irecv, RecvShape
<1>7. SendShape' /\ NetShape'
  BY <1>3 DEF Irecv, SendShape, NetShape, sendVars
<1> QED
  BY <1>6, <1>7

LEMMA RecvTestShape ==
  ASSUME AllShapes, NEW k \in Steps, RecvTest(k)
  PROVE  AllShapes'
<1> USE ConstantsOK DEF AllShapes
<1>1. ASSUME NEW reqs \in [Pool -> RecvReqs], held[k] \in Pool, ReturnRecvTest(k, reqs)
      PROVE  /\ rreqs' \in [Pool -> RecvReqs] /\ held' \in [Steps -> Pool \cup {NoReq}]
             /\ result' \in [Steps -> Seq(Nat)]
  <2> DEFINE q == held[k]
             sz == [r \in 1..reqs[q].nreqs |-> reqs[q].sizes[r]]
  <2>1. sz \in Seq(Nat)
    <3>1. reqs[q].nreqs \in 0..MaxRecvs /\ reqs[q].sizes \in [Lanes -> Nat]
      BY <1>1 DEF RecvReqs
    <3> QED
      BY <3>1, PrefixSeq
  <2>2. CASE AllDone(reqs, q)
    <3>1. rreqs' = [reqs EXCEPT ![q].type = "unused"]
      BY <1>1, <2>2 DEF ReturnRecvTest
    <3>2. rreqs' \in [Pool -> RecvReqs]
      BY <1>1, <3>1 DEF RecvReqs
    <3>3. held' = [held EXCEPT ![k] = NoReq] /\ result' = [result EXCEPT ![k] = sz]
      BY <1>1, <2>2 DEF ReturnRecvTest
    <3> QED
      BY <2>1, <3>2, <3>3 DEF RecvShape
  <2>3. CASE ~AllDone(reqs, q)
    BY <1>1, <2>3 DEF ReturnRecvTest, RecvShape
  <2> QED
    BY <2>2, <2>3
<1>3. CASE RecvTestDone(k)
  <2>1. held[k] \in Pool /\ rreqs \in [Pool -> RecvReqs]
    BY <1>3 DEF RecvTestDone, RecvTestable, RecvShape
  <2> QED
    BY <1>1, <1>3, <2>1
    DEF RecvTestDone, recvTestSame, sendVars, RecvShape, SendShape, NetShape
<1>4. CASE RecvTestImm(k)
  <2>1. held[k] \in Pool /\ rreqs \in [Pool -> RecvReqs]
    BY <1>4 DEF RecvTestImm, RecvTestable, RecvShape
  <2>2. dPolled' \in Nat /\ rq' \in [Steps -> Pool \cup {NoReq}]
    <3>1. dPolled' = dPolled + 1 /\ rq' = [rq EXCEPT ![dPolled + 1] = NoReq]
      BY <1>4 DEF RecvTestImm
    <3>2. dPolled \in Nat /\ rq \in [Steps -> Pool \cup {NoReq}]
      BY DEF RecvShape, NetShape
    <3>3. dPolled' \in Nat
      BY <3>1, <3>2
    <3>4. rq' \in [Steps -> Pool \cup {NoReq}]
      BY <3>1, <3>2
    <3> QED
      BY <3>3, <3>4
  <2>3. /\ rreqs' \in [Pool -> RecvReqs] /\ held' \in [Steps -> Pool \cup {NoReq}]
        /\ result' \in [Steps -> Seq(Nat)] /\ rerr' \in {"none", "internal", "remote"}
    <3>1. CASE rreqs[rq[dPolled + 1]].nreqs > 1
      BY <3>1, <1>4 DEF RecvTestImm, RecvShape
    <3>2. CASE ~(rreqs[rq[dPolled + 1]].nreqs > 1)
      <4>1. /\ ReturnRecvTest(k, OneEventLess(rreqs, rq[dPolled + 1]))
            /\ UNCHANGED rerr
        BY <3>2, <1>4 DEF RecvTestImm
      <4>2. OneEventLess(rreqs, rq[dPolled + 1]) \in [Pool -> RecvReqs]
        BY <2>1, OneEventLessType
      <4> QED
        BY <4>1, <4>2, <2>1, <1>1 DEF RecvShape
    <3> QED
      BY <3>1, <3>2
  <2> QED
    BY <1>4, <2>2, <2>3
    DEF RecvTestImm, recvTestSame, sendVars, RecvShape, SendShape, NetShape
<1>5. CASE RecvTestFifo(k)
  <2>1. held[k] \in Pool /\ rreqs \in [Pool -> RecvReqs]
    BY <1>5 DEF RecvTestFifo, RecvTestable, RecvShape
  <2>2. PICK t \in fPolled+1..fAcked :
          /\ fPolled' = t /\ wq' = [wq EXCEPT ![t] = NoReq]
          /\ ReturnRecvTest(k, OneEventLess(rreqs, wq[t]))
    BY <1>5 DEF RecvTestFifo
  <2>3. OneEventLess(rreqs, wq[t]) \in [Pool -> RecvReqs]
    BY <2>1, OneEventLessType
  <2>4. /\ rreqs' \in [Pool -> RecvReqs] /\ held' \in [Steps -> Pool \cup {NoReq}]
        /\ result' \in [Steps -> Seq(Nat)]
    BY <2>1, <2>2, <2>3, <1>1
  <2>5. fPolled' \in Nat /\ wq' \in [Steps -> Pool \cup {NoReq}]
    <3>1. t \in Nat
      BY <2>2 DEF NetShape
    <3> QED
      BY <2>2, <3>1 DEF RecvShape
  <2> QED
    BY <1>5, <2>4, <2>5
    DEF RecvTestFifo, recvTestSame, sendVars, RecvShape, SendShape, NetShape
<1>6. CASE RecvTestError(k)
  BY <1>6 DEF RecvTestError, recvTestSame, sendVars, RecvShape, SendShape, NetShape
<1> QED
  BY <1>3, <1>4, <1>5, <1>6 DEF RecvTest

LEMMA IsendShape ==
  ASSUME AllShapes, NEW tag \in Tags, NEW size \in Sizes, NEW mem \in Mems,
         Isend(tag, size, mem)
  PROVE  AllShapes'
<1> DEFINE s == HeadSlot
           n == fifo[s][1].nreqs
           data == [tag |-> tag, num |-> sent[tag] + 1, size |-> size]
<1> USE ConstantsOK DEF AllShapes
<1>1. s \in Slots /\ n \in 0..MaxRecvs /\ 1 \in Lanes
  <2>1. s \in Slots /\ 1 \in Lanes
    BY SlotInSlots DEF HeadSlot, SendShape, Lanes
  <2>2. fifo[s][1] \in Elems
    BY <2>1 DEF NetShape
  <2> QED
    BY <2>1, <2>2 DEF Elems
<1>2. data \in Payloads
  BY DEF Payloads, SendShape
<1>3. PICK r \in 1..n :
        IF Refused(r, size)
        THEN serr' = (IF Oversize(r, size) THEN "usage" ELSE "internal")
             /\ UNCHANGED <<sreqs, fifoReqs, spc, sheld, sent, msg, sPosted>>
        ELSE AcceptSend(r, tag, size, mem) /\ UNCHANGED serr
  BY DEF Isend
<1>4. r \in Lanes
  BY <1>1 DEF Lanes
<1>5. RecvShape' /\ NetShape'
  BY DEF Isend, isendSame, recvVars, RecvShape, NetShape
<1>6. CASE Refused(r, size)
  BY <1>3, <1>5, <1>6 DEF Isend, isendSame, SendShape
<1>7. CASE ~Refused(r, size)
  <2> DEFINE row(q) == [fifoReqs[s] EXCEPT ![r] = q]
             reqs(q) == [sreqs EXCEPT ![q] = NewSend(n, mem, data)]
  <2>1. PICK q \in Pool :
          /\ sreqs' = reqs(q) /\ sheld' = sheld \cup {q}
          /\ fifoReqs' = [fifoReqs EXCEPT ![s] = row(q)]
          /\ IF \A i \in 1..n : row(q)[i] # NoReq
             THEN MultiSend(reqs(q), row(q), n)
             ELSE UNCHANGED <<msg, sPosted, spc>>
          /\ sent' = [sent EXCEPT ![tag] = @ + 1]
    BY <1>3, <1>7 DEF AcceptSend
  <2>2. row(q) \in [Lanes -> Pool \cup {NoReq}]
    BY <1>1, <1>4 DEF SendShape
  <2>3. NewSend(n, mem, data) \in SendReqs
    BY <1>1, <1>2 DEF NewSend, SendReqs
  <2>4. reqs(q) \in [Pool -> SendReqs]
    BY <2>3 DEF SendShape
  <2> HIDE DEF row, reqs
  <2>5. fifoReqs' \in [Slots -> [Lanes -> Pool \cup {NoReq}]] /\ sheld' \subseteq Pool
    BY <2>1, <2>2 DEF SendShape
  <2>6. sent' \in [Tags -> Nat]
    BY <2>1 DEF SendShape
  <2>7. msg' \in [Steps -> Msgs] /\ sPosted' \in Nat /\ spc' \in {"idle", "clear"}
    <3>1. CASE \A i \in 1..n : row(q)[i] # NoReq
      <4> DEFINE ad == [i \in Lanes |-> IF i <= n THEN fifo[s][i].addr ELSE 0]
                 fr == [i \in Lanes |-> IF i <= n THEN reqs(q)[row(q)[i]].mem ELSE "gpu"]
                 da == [i \in Lanes |-> IF i <= n THEN reqs(q)[row(q)[i]].data ELSE NoData]
      <4>1. /\ msg' = [msg EXCEPT ![sPosted + 1] =
                 [n |-> n, wr |-> row(q), from |-> fr, addr |-> ad, data |-> da]]
            /\ sPosted' = sPosted + 1 /\ spc' = "clear"
        BY <2>1, <3>1 DEF MultiSend
      <4>2. ad \in [Lanes -> 0..Stray]
        BY <1>1 DEF NetShape, Elems, Stray
      <4>3. da \in [Lanes -> Payloads] /\ fr \in [Lanes -> Memory]
        <5>1. ASSUME NEW i \in Lanes, i <= n
              PROVE  /\ reqs(q)[row(q)[i]].data \in Payloads
                     /\ reqs(q)[row(q)[i]].mem \in Memory
          <6>1. row(q)[i] \in Pool
            BY <2>2, <3>1, <5>1, <1>1 DEF Lanes
          <6> QED
            BY <6>1, <2>4 DEF SendReqs
        <5> QED
          BY <5>1, Literals DEF Memory
      <4> HIDE DEF ad, da, fr
      <4>4. [n |-> n, wr |-> row(q), from |-> fr, addr |-> ad, data |-> da] \in Msgs
        BY <1>1, <2>2, <4>2, <4>3 DEF Msgs
      <4>5. sPosted \in Nat /\ msg \in [Steps -> Msgs]
        BY DEF SendShape
      <4>6. msg' \in [Steps -> Msgs]
        BY <4>1, <4>4, <4>5
      <4>7. sPosted' \in Nat /\ spc' \in {"idle", "clear"}
        BY <4>1, <4>5
      <4> QED
        BY <4>6, <4>7
    <3>2. CASE ~(\A i \in 1..n : row(q)[i] # NoReq)
      BY <2>1, <3>2 DEF SendShape
    <3> QED
      BY <3>1, <3>2
  <2>8. SendShape'
    BY <1>3, <1>7, <2>1, <2>4, <2>5, <2>6, <2>7 DEF SendShape, Isend, isendSame
  <2> QED
    BY <1>5, <2>8
<1> QED
  BY <1>6, <1>7

LEMMA IsendClearShape == AllShapes /\ IsendClear => AllShapes'
<1> SUFFICES ASSUME AllShapes, IsendClear PROVE AllShapes'
  OBVIOUS
<1> USE ConstantsOK DEF AllShapes
<1>1. HeadSlot \in Slots /\ 1 \in Lanes
  BY SlotInSlots DEF HeadSlot, SendShape, Lanes
<1>2. fifo' \in [Slots -> [Lanes -> Elems]]
  BY <1>1, Literals DEF IsendClear, NetShape
<1>3. fifoReqs' \in [Slots -> [Lanes -> Pool \cup {NoReq}]] /\ fifoHead' \in Nat
  BY <1>1 DEF IsendClear, SendShape
<1> QED
  BY <1>2, <1>3 DEF IsendClear, recvVars, RecvShape, SendShape, NetShape

LEMMA SendTestShape ==
  ASSUME AllShapes, NEW q \in Pool, SendTest(q)
  PROVE  AllShapes'
<1> USE ConstantsOK, Literals DEF AllShapes
<1>1. ASSUME NEW reqs \in [Pool -> SendReqs], ReturnSendTest(q, reqs)
      PROVE  sreqs' \in [Pool -> SendReqs] /\ sheld' \subseteq Pool
  <2>1. CASE AllDone(reqs, q)
    <3>1. [reqs[q] EXCEPT !.type = "unused", !.data = NoData] \in SendReqs
      BY DEF SendReqs
    <3> QED
      BY <1>1, <2>1, <3>1 DEF ReturnSendTest, SendShape
  <2>2. CASE ~AllDone(reqs, q)
    BY <1>1, <2>2 DEF ReturnSendTest, SendShape
  <2> QED
    BY <2>1, <2>2
<1>2. CASE SendTestDone(q)
  BY <1>1, <1>2
  DEF SendTestDone, sendTestSame, recvVars, RecvShape, SendShape, NetShape
<1>3. CASE SendTestData(q)
  <2> DEFINE reqs == CompleteSends(sreqs, msg[sPolled + 1].wr)
  <2>1. reqs \in [Pool -> SendReqs]
    BY DEF CompleteSends, SendShape, SendReqs
  <2>2. sreqs' \in [Pool -> SendReqs] /\ sheld' \subseteq Pool
    BY <1>1, <1>3, <2>1 DEF SendTestData
  <2>3. sPolled' \in Nat /\ msg' \in [Steps -> Msgs]
    <3>1. sPolled' = sPolled + 1 /\ msg' = [msg EXCEPT ![sPolled + 1] = NoMsg]
      BY <1>3 DEF SendTestData
    <3>2. sPolled \in Nat /\ msg \in [Steps -> Msgs]
      BY DEF SendShape, NetShape
    <3>3. sPolled' \in Nat
      BY <3>1, <3>2
    <3>4. msg' \in [Steps -> Msgs]
      BY <3>1, <3>2
    <3> QED
      BY <3>3, <3>4
  <2> QED
    BY <1>3, <2>2, <2>3
    DEF SendTestData, sendTestSame, recvVars, RecvShape, SendShape, NetShape
<1>4. CASE SendTestError(q)
  BY <1>4 DEF SendTestError, sendTestSame, recvVars, RecvShape, SendShape, NetShape
<1> QED
  BY <1>2, <1>3, <1>4 DEF SendTest

LEMMA FifoLandShape ==
  ASSUME AllShapes, NEW k \in Steps, NEW r \in Lanes, FifoLand(k, r)
  PROVE  AllShapes'
<1> USE ConstantsOK DEF AllShapes
<1>1. Slot(k - 1) \in Slots
  BY SlotInSlots DEF Steps
<1>2. fifo' \in [Slots -> [Lanes -> Elems]]
  BY <1>1 DEF FifoLand, NetShape, RecvShape
<1> QED
  BY <1>2 DEF FifoLand, netSame, recvVars, sendVars, RecvShape, SendShape, NetShape

LEMMA DataArriveShape == AllShapes /\ Ordered /\ DataArrive => AllShapes'
<1> SUFFICES ASSUME AllShapes, Ordered, DataArrive PROVE AllShapes'
  OBVIOUS
<1> USE ConstantsOK DEF AllShapes
<1>1. ASSUME dArrived + 1 \in Steps PROVE buf' \in [Steps \X Lanes -> Payloads]
  <2>1. msg[dArrived + 1].data \in [Lanes -> Payloads]
    BY <1>1 DEF SendShape, Msgs
  <2>2. \A b \in Steps \X Lanes : b[2] \in Lanes
    OBVIOUS
  <2> QED
    BY <2>1, <2>2 DEF DataArrive, NetShape
<1>2. dArrived' \in Nat
  BY DEF DataArrive, NetShape
<1>3. dArrived + 1 \in Steps
  BY DEF DataArrive, Ordered, RecvShape, SendShape, NetShape, Steps
<1> QED
  BY <1>1, <1>2, <1>3
  DEF DataArrive, netSame, recvVars, sendVars, RecvShape, SendShape, NetShape

LEMMA QuietShape ==
  AllShapes /\ (FifoAck \/ DataAck \/ LinkDown \/ UNCHANGED vars) => AllShapes'
<1> USE ConstantsOK DEF AllShapes
<1>1. ASSUME AllShapes, FifoAck PROVE AllShapes'
  <2>1. fAcked' \in Nat
    BY <1>1 DEF FifoAck, RecvShape, NetShape
  <2> QED
    BY <1>1, <2>1
    DEF FifoAck, netSame, recvVars, sendVars, RecvShape, SendShape, NetShape
<1>2. ASSUME AllShapes, DataAck PROVE AllShapes'
  BY <1>2 DEF DataAck, netSame, recvVars, sendVars, RecvShape, SendShape, NetShape
<1>3. ASSUME AllShapes, LinkDown PROVE AllShapes'
  BY <1>3 DEF LinkDown, netSame, recvVars, sendVars, RecvShape, SendShape, NetShape
<1>4. ASSUME AllShapes, UNCHANGED vars PROVE AllShapes'
  BY <1>4 DEF vars, recvVars, sendVars, RecvShape, SendShape, NetShape
<1> QED
  BY <1>1, <1>2, <1>3, <1>4

LEMMA NextShape == AllShapes /\ Ordered /\ [Next]_vars => AllShapes'
<1> SUFFICES ASSUME AllShapes, Ordered, [Next]_vars PROVE AllShapes'
  OBVIOUS
<1>1. ASSUME NEW n \in GroupSizes, NEW tags \in [1..n -> Tags],
             NEW sizes \in [1..n -> Sizes],
             NEW mems \in [1..n -> Mems], Irecv(n, tags, sizes, mems)
      PROVE  AllShapes'
  BY <1>1, IrecvShape
<1>2. ASSUME NEW k \in Steps, RecvTest(k) PROVE AllShapes'
  BY <1>2, RecvTestShape
<1>3. ASSUME NEW tag \in Tags, NEW size \in Sizes, NEW mem \in Mems,
             Isend(tag, size, mem)
      PROVE  AllShapes'
  BY <1>3, IsendShape
<1>4. ASSUME NEW q \in Pool, SendTest(q) PROVE AllShapes'
  BY <1>4, SendTestShape
<1>5. ASSUME NEW k \in Steps, NEW r \in Lanes, FifoLand(k, r) PROVE AllShapes'
  BY <1>5, FifoLandShape
<1> QED
  BY <1>1, <1>2, <1>3, <1>4, <1>5, IsendClearShape, DataArriveShape, QuietShape
  DEF Next

-----------------------------------------------------------------------------
(***************************************************************************)
(* The inductive invariant, part by part.                                  *)
(***************************************************************************)

\* Completions the receive of step k still waits for.
Pending(dp, wqs, k) ==
  (IF k > dp THEN 1 ELSE 0) + (IF wqs[k] # NoReq THEN 1 ELSE 0)

\* A request the caller holds belongs to one step of its window and waits for
\* exactly that step's completions; a step not held any more was completed;
\* completions to come name the request that is held.  Stated of any pool,
\* handles and queues, to speak of the state inside ncclIbTest.
HeldOK(reqs, hd, rqs, wqs, dp, fp) ==
  /\ \A k \in Steps : hd[k] # NoReq =>
       /\ k <= fifoTail /\ fifoTail < k + Window
       /\ reqs[hd[k]].type = "recv"
       /\ rerr # "internal" => reqs[hd[k]].events = Pending(dp, wqs, k)
  /\ \A k \in Steps : k <= fifoTail /\ hd[k] = NoReq => k <= dp
  /\ \A k \in Steps : dp < k /\ k <= fifoTail => rqs[k] = hd[k]
  /\ \A k \in Steps : wqs[k] # NoReq => wqs[k] = hd[k] /\ fp < k
  /\ \A j, k \in Steps : hd[j] = hd[k] /\ hd[j] # NoReq => j = k
  /\ \A q \in Pool : /\ reqs[q].type # "unused" => \E k \in Steps : hd[k] = q
                     /\ reqs[q].events \in 0..2

HeldInv == HeldOK(rreqs, held, rq, wq, dPolled, fPolled)

\* Signaled writes are those of slot 0, and the last one polled was signaled.
SignalInv ==
  /\ \A k \in Steps : fPolled < k /\ k <= fifoTail /\ Signaled(k) => wq[k] # NoReq
  /\ \A k \in Steps : wq[k] # NoReq => Signaled(k)
  /\ fPolled = 0 \/ Signaled(fPolled)

\* What is in memory was announced by a step so far.
IdxInv ==
  \A s \in Slots, r \in Lanes : /\ fifo[s][r].idx <= fifoTail
                                /\ elems[s][r].idx <= fifoTail

\* What is on the wire was announced, not consumed, and is not in its slot yet.
WireInv ==
  /\ \A k \in Steps : k <= fifoTail =>
       call[k].n \in GroupSizes /\ place[k] \in [1..call[k].n -> Memory]
  /\ \A w \in wire : /\ sPosted < w[1] /\ w[1] <= fifoTail /\ w[2] <= call[w[1]].n
                     /\ fifo[Slot(w[1] - 1)][w[2]].idx # w[1]

\* What holds whatever the caller's window, and what it takes to keep
\* announcements.
BaseInv == AllShapes /\ Ordered /\ HeldInv /\ SignalInv /\ IdxInv
KeptInv == WireInv /\ AnnouncementKept

-----------------------------------------------------------------------------
(***************************************************************************)
(* What the caller's window means for the cursors: everything older than   *)
(* the window was polled.                                                  *)
(***************************************************************************)
LEMMA WindowPolled ==
  ASSUME AllShapes, Ordered, HeldInv, NEW t \in Nat, t <= fifoTail + 1, WindowOpen(t)
  PROVE  t <= dPolled + Window
<1> USE ConstantsOK DEF AllShapes
<1>1. CASE t <= Window
  BY <1>1 DEF NetShape
<1>2. CASE t > Window
  <2> DEFINE k == t - Window
  <2>1. k \in Steps /\ k <= fifoTail
    BY <1>2 DEF Steps, RecvShape, Ordered
  <2>2. held[k] = NoReq
    BY <2>1 DEF WindowOpen
  <2>3. k <= dPolled
    BY <2>1, <2>2 DEF HeldInv, HeldOK
  <2> QED
    BY <2>3, <1>2 DEF NetShape
<1> QED
  BY <1>1, <1>2

LEMMA Span ==
  ASSUME AllShapes, Ordered, HeldInv
  PROVE  fifoTail <= dPolled + Window /\ fifoTail <= fifoHead + 1 + Window
<1> USE ConstantsOK DEF AllShapes
<1>1. WindowOpen(fifoTail)
  BY DEF WindowOpen, HeldInv, HeldOK
<1>2. fifoTail <= dPolled + Window
  BY <1>1, WindowPolled DEF RecvShape
<1> QED
  BY <1>2 DEF Ordered, RecvShape, SendShape, NetShape

-----------------------------------------------------------------------------
(***************************************************************************)
(* The receiver's requests: HeldInv.                                       *)
(***************************************************************************)
LEMMA IrecvHeld ==
  ASSUME AllShapes, Ordered, HeldInv,
         NEW n \in GroupSizes, NEW tags \in [1..n -> Tags],
         NEW sizes \in [1..n -> Sizes],
         NEW mems \in [1..n -> Mems], Irecv(n, tags, sizes, mems)
  PROVE  HeldInv'
<1> DEFINE t == fifoTail + 1
<1>0. PICK q \in Pool :
        /\ GetRequest(rreqs, q)
        /\ rreqs' = [rreqs EXCEPT ![q] =
             [type |-> "recv", events |-> EventsOf(t), nreqs |-> n,
              sizes |-> [r \in Lanes |-> IF r <= n THEN 0 ELSE @.sizes[r]]]]
        /\ rq' = [rq EXCEPT ![rqPosted + 1] = q]
        /\ wq' = [wq EXCEPT ![t] = IF Signaled(t) THEN q ELSE NoReq]
        /\ held' = [held EXCEPT ![t] = q]
  BY DEF Irecv
<1>1. /\ t \in Steps /\ rqPosted + 1 = t /\ q # NoReq
      /\ dPolled \in Nat /\ dPolled < t /\ fPolled \in Nat /\ fPolled < t
      /\ fifoTail \in Nat /\ fifoTail' = t /\ WindowOpen(t)
  BY ConstantsOK
  DEF Irecv, Ordered, AllShapes, RecvShape, SendShape, NetShape, Pool, NoReq
<1>2. UNCHANGED <<dPolled, fPolled, rerr>>
  BY DEF Irecv
<1>3. /\ rreqs \in [Pool -> RecvReqs] /\ held \in [Steps -> Pool \cup {NoReq}]
      /\ rq \in [Steps -> Pool \cup {NoReq}] /\ wq \in [Steps -> Pool \cup {NoReq}]
  BY DEF AllShapes, RecvShape
<1>4. /\ rreqs'[q].type = "recv" /\ rreqs'[q].events = EventsOf(t)
      /\ \A p \in Pool : p # q => rreqs'[p] = rreqs[p]
  BY <1>0, <1>3
<1>5. /\ held'[t] = q /\ rq'[t] = q /\ wq'[t] = IF Signaled(t) THEN q ELSE NoReq
      /\ \A k \in Steps : k # t =>
           held'[k] = held[k] /\ rq'[k] = rq[k] /\ wq'[k] = wq[k]
  BY <1>0, <1>1, <1>3
<1>6. \A k \in Steps : held[k] # q
  BY <1>0, <1>1 DEF GetRequest, HeldInv, HeldOK
<1>7. \A k \in Steps : k <= t <=> k <= fifoTail \/ k = t
  BY <1>1 DEF Steps
<1>8. ASSUME NEW k \in Steps, held'[k] # NoReq
      PROVE  /\ k <= t /\ t < k + Window
             /\ rreqs'[held'[k]].type = "recv"
             /\ rerr' # "internal" => rreqs'[held'[k]].events = Pending(dPolled, wq', k)
  <2>1. CASE k = t
    BY <2>1, <1>1, <1>4, <1>5, ConstantsOK DEF Pending, EventsOf
  <2>2. CASE k # t
    <3>1. held[k] # NoReq /\ held'[k] = held[k] /\ held[k] \in Pool /\ held[k] # q
      BY <2>2, <1>8, <1>5, <1>3, <1>6
    <3>2. k <= fifoTail /\ t < k + Window
      BY <3>1, <1>1 DEF HeldInv, HeldOK, WindowOpen
    <3> QED
      BY <3>1, <3>2, <2>2, <1>2, <1>4, <1>5, <1>7 DEF HeldInv, HeldOK, Pending
  <2> QED
    BY <2>1, <2>2
<1>9. ASSUME NEW k \in Steps, k <= t, held'[k] = NoReq
      PROVE  k <= dPolled
  BY <1>9, <1>1, <1>5, <1>7 DEF HeldInv, HeldOK
<1>10. ASSUME NEW k \in Steps, dPolled < k, k <= t
       PROVE  rq'[k] = held'[k]
  BY <1>10, <1>5, <1>7 DEF HeldInv, HeldOK
<1>11. ASSUME NEW k \in Steps, wq'[k] # NoReq
       PROVE  wq'[k] = held'[k] /\ fPolled < k
  BY <1>11, <1>1, <1>5 DEF HeldInv, HeldOK
<1>12. ASSUME NEW j \in Steps, NEW k \in Steps, held'[j] = held'[k], held'[j] # NoReq
       PROVE  j = k
  BY <1>12, <1>5, <1>6 DEF HeldInv, HeldOK
<1>13. ASSUME NEW p \in Pool
       PROVE  /\ rreqs'[p].type # "unused" => \E k \in Steps : held'[k] = p
              /\ rreqs'[p].events \in 0..2
  <2>1. CASE p = q
    BY <2>1, <1>1, <1>4, <1>5 DEF EventsOf
  <2>2. CASE p # q
    <3>1. rreqs'[p] = rreqs[p]
      BY <2>2, <1>4
    <3>2. \A k \in Steps : held[k] = p => k # t
      BY <1>1, <1>3 DEF HeldInv, HeldOK, Pool, NoReq
    <3> QED
      BY <3>1, <3>2, <1>5 DEF HeldInv, HeldOK
  <2> QED
    BY <2>1, <2>2
<1> QED
  BY <1>1, <1>2, <1>8, <1>9, <1>10, <1>11, <1>12, <1>13 DEF HeldInv, HeldOK

\* The head of ncclIbTest's loop keeps it, and completes only a polled step.
LEMMA ReturnHeld ==
  ASSUME AllShapes, Ordered, rerr # "internal",
         NEW k \in Steps, held[k] # NoReq,
         NEW reqs \in [Pool -> RecvReqs],
         NEW rqs, NEW wqs \in [Steps -> Pool \cup {NoReq}],
         NEW dp \in Nat, NEW fp \in Nat,
         HeldOK(reqs, held, rqs, wqs, dp, fp),
         ReturnRecvTest(k, reqs)
  PROVE  /\ HeldOK(rreqs', held', rqs, wqs, dp, fp)
         /\ \A j \in Steps : result'[j] # result[j] =>
              j = k /\ k <= dp /\ k <= fifoTail
<1> DEFINE q == held[k]
<1>1. /\ held \in [Steps -> Pool \cup {NoReq}] /\ q \in Pool
      /\ result \in [Steps -> Seq(Nat)] /\ k \in Nat
  BY DEF AllShapes, RecvShape, Steps
<1>2. CASE AllDone(reqs, q)
  <2>1. /\ rreqs' = [reqs EXCEPT ![q].type = "unused"]
        /\ held' = [held EXCEPT ![k] = NoReq]
        /\ \A j \in Steps : j # k => result'[j] = result[j]
    BY <1>1, <1>2 DEF ReturnRecvTest
  <2>2. k <= dp /\ wqs[k] = NoReq /\ k <= fifoTail
    BY <1>1, <1>2 DEF AllDone, HeldOK, Pending
  <2>3. /\ held'[k] = NoReq /\ \A j \in Steps : j # k => held'[j] = held[j]
        /\ \A j \in Steps : j # k => held[j] # q
    BY <2>1, <1>1 DEF HeldOK
  <2>4. /\ \A p \in Pool : rreqs'[p].events = reqs[p].events
        /\ \A p \in Pool : p # q => rreqs'[p].type = reqs[p].type
        /\ rreqs'[q].type = "unused"
    BY <2>1, <1>1 DEF RecvReqs
  <2>5. ASSUME NEW j \in Steps, held'[j] # NoReq
        PROVE  /\ j <= fifoTail /\ fifoTail < j + Window
               /\ rreqs'[held'[j]].type = "recv"
               /\ rerr # "internal" => rreqs'[held'[j]].events = Pending(dp, wqs, j)
    <3>1. j # k /\ held'[j] = held[j] /\ held[j] \in Pool /\ held[j] # q
      BY <2>5, <2>3, <1>1
    <3> QED
      BY <3>1, <2>5, <2>4 DEF HeldOK
  <2>6. ASSUME NEW j \in Steps, j <= fifoTail, held'[j] = NoReq PROVE j <= dp
    BY <2>6, <2>2, <2>3 DEF HeldOK
  <2>7. ASSUME NEW j \in Steps, dp < j, j <= fifoTail PROVE rqs[j] = held'[j]
    BY <2>7, <2>2, <2>3, <1>1 DEF HeldOK
  <2>8. ASSUME NEW j \in Steps, wqs[j] # NoReq PROVE wqs[j] = held'[j] /\ fp < j
    BY <2>8, <2>2, <2>3 DEF HeldOK
  <2>9. ASSUME NEW i \in Steps, NEW j \in Steps, held'[i] = held'[j], held'[i] # NoReq
        PROVE  i = j
    BY <2>9, <2>3 DEF HeldOK
  <2>10. ASSUME NEW p \in Pool
         PROVE  /\ rreqs'[p].type # "unused" => \E j \in Steps : held'[j] = p
                /\ rreqs'[p].events \in 0..2
    BY <2>3, <2>4 DEF HeldOK
  <2>11. HeldOK(rreqs', held', rqs, wqs, dp, fp)
    BY <2>5, <2>6, <2>7, <2>8, <2>9, <2>10 DEF HeldOK
  <2> QED
    BY <2>1, <2>2, <2>11
<1>3. CASE ~AllDone(reqs, q)
  BY <1>3 DEF ReturnRecvTest
<1> QED
  BY <1>2, <1>3

\* Polling an immediate: it is that of the oldest step not completed.
LEMMA PollImmHeld ==
  ASSUME AllShapes, Ordered, HeldInv, rerr = "none", dPolled < dArrived
  PROVE  /\ dPolled + 1 \in Steps /\ dPolled + 1 <= fifoTail
         /\ LET j   == dPolled + 1
                rqs == [rq EXCEPT ![j] = NoReq]
            IN /\ rq[j] = held[j] /\ held[j] \in Pool
               /\ HeldOK(OneEventLess(rreqs, rq[j]), held, rqs, wq, j, fPolled)
<1> DEFINE j == dPolled + 1
           q == rq[j]
           rqs == [rq EXCEPT ![j] = NoReq]
           reqs == OneEventLess(rreqs, q)
<1>1. /\ j \in Steps /\ dPolled \in Nat /\ j <= fifoTail
      /\ fifoTail \in Nat /\ fPolled \in Nat
  BY ConstantsOK DEF Ordered, AllShapes, RecvShape, SendShape, NetShape, Steps
<1>2. /\ rreqs \in [Pool -> RecvReqs] /\ held \in [Steps -> Pool \cup {NoReq}]
      /\ rq \in [Steps -> Pool \cup {NoReq}] /\ wq \in [Steps -> Pool \cup {NoReq}]
  BY DEF AllShapes, RecvShape
<1>3. q = held[j] /\ held[j] \in Pool /\ held[j] # NoReq
  <2>1. held[j] # NoReq
    BY <1>1 DEF HeldInv, HeldOK
  <2> QED
    BY <2>1, <1>1, <1>2 DEF HeldInv, HeldOK
<1>4. rreqs[q].events = Pending(dPolled, wq, j)
  BY <1>1, <1>3 DEF HeldInv, HeldOK
<1>5. /\ reqs[q].events = rreqs[q].events - 1
      /\ \A p \in Pool : reqs[p].type = rreqs[p].type
      /\ \A p \in Pool : p # q => reqs[p].events = rreqs[p].events
  BY <1>2, <1>3 DEF OneEventLess, RecvReqs
<1>6. /\ \A i \in Steps : i > j <=> i > dPolled /\ i # j
      /\ \A i \in Steps : i <= dPolled => i <= j
  BY <1>1 DEF Steps
<1>7. ASSUME NEW i \in Steps, held[i] # NoReq
      PROVE  reqs[held[i]].events = Pending(j, wq, i)
  <2>1. CASE i = j
    BY <2>1, <1>1, <1>3, <1>4, <1>5 DEF Pending
  <2>2. CASE i # j
    <3>1. held[i] # q /\ held[i] \in Pool
      BY <2>2, <1>1, <1>2, <1>3, <1>7 DEF HeldInv, HeldOK
    <3>2. reqs[held[i]].events = Pending(dPolled, wq, i)
      BY <3>1, <1>5, <1>7 DEF HeldInv, HeldOK
    <3> QED
      BY <3>2, <2>2, <1>6 DEF Pending
  <2> QED
    BY <2>1, <2>2
<1>8. reqs[q].events \in 0..2
  BY <1>1, <1>4, <1>5 DEF Pending
<1>9. HeldOK(reqs, held, rqs, wq, j, fPolled)
  <2> HIDE DEF reqs, q, j
  <2>1. \A i \in Steps : held[i] # NoReq =>
          /\ i <= fifoTail /\ fifoTail < i + Window
          /\ reqs[held[i]].type = "recv"
          /\ reqs[held[i]].events = Pending(j, wq, i)
    BY <1>2, <1>5, <1>7 DEF HeldInv, HeldOK
  <2>2. \A i \in Steps : i <= fifoTail /\ held[i] = NoReq => i <= j
    BY <1>6 DEF HeldInv, HeldOK
  <2>3. \A i \in Steps : j < i /\ i <= fifoTail => rqs[i] = held[i]
    BY <1>2, <1>6 DEF HeldInv, HeldOK
  <2>4. \A i \in Steps : wq[i] # NoReq => wq[i] = held[i] /\ fPolled < i
    BY DEF HeldInv, HeldOK
  <2>5. \A h, i \in Steps : held[h] = held[i] /\ held[h] # NoReq => h = i
    BY DEF HeldInv, HeldOK
  <2>6. \A p \in Pool : /\ reqs[p].type # "unused" => \E i \in Steps : held[i] = p
                        /\ reqs[p].events \in 0..2
    BY <1>5, <1>8 DEF HeldInv, HeldOK
  <2> QED
    BY <2>1, <2>2, <2>3, <2>4, <2>5, <2>6 DEF HeldOK
<1> QED
  BY <1>1, <1>3, <1>9

\* Polling the completion of the FIFO write of step t.
LEMMA PollFifoHeld ==
  ASSUME AllShapes, Ordered, HeldInv, rerr = "none",
         NEW t \in fPolled+1..fAcked, wq[t] # NoReq,
         \A j \in fPolled+1..t-1 : wq[j] = NoReq
  PROVE  /\ t \in Steps /\ t <= fifoTail /\ wq[t] = held[t] /\ held[t] \in Pool
         /\ HeldOK(OneEventLess(rreqs, wq[t]), held, rq, [wq EXCEPT ![t] = NoReq],
                   dPolled, t)
<1> DEFINE q == wq[t]
           wqs == [wq EXCEPT ![t] = NoReq]
           reqs == OneEventLess(rreqs, q)
<1>1. /\ t \in Steps /\ t \in Nat /\ t <= fifoTail /\ fPolled < t
      /\ fifoTail \in Nat /\ fPolled \in Nat /\ dPolled \in Nat
  BY ConstantsOK DEF Ordered, AllShapes, RecvShape, SendShape, NetShape, Steps
<1>2. /\ rreqs \in [Pool -> RecvReqs] /\ held \in [Steps -> Pool \cup {NoReq}]
      /\ rq \in [Steps -> Pool \cup {NoReq}] /\ wq \in [Steps -> Pool \cup {NoReq}]
  BY DEF AllShapes, RecvShape
<1>3. q = held[t] /\ held[t] \in Pool /\ held[t] # NoReq
  BY <1>1, <1>2 DEF HeldInv, HeldOK
<1>4. rreqs[q].events = Pending(dPolled, wq, t)
  BY <1>1, <1>3 DEF HeldInv, HeldOK
<1>5. /\ reqs[q].events = rreqs[q].events - 1
      /\ \A p \in Pool : reqs[p].type = rreqs[p].type
      /\ \A p \in Pool : p # q => reqs[p].events = rreqs[p].events
  BY <1>2, <1>3 DEF OneEventLess, RecvReqs
<1>6. /\ wqs[t] = NoReq
      /\ \A i \in Steps : i # t => wqs[i] = wq[i]
      /\ \A i \in Steps : wqs[i] # NoReq => t < i
  <2>1. wqs[t] = NoReq /\ \A i \in Steps : i # t => wqs[i] = wq[i]
    BY <1>1, <1>2
  <2>2. ASSUME NEW i \in Steps, wqs[i] # NoReq PROVE t < i
    <3>1. i # t /\ wq[i] # NoReq /\ fPolled < i
      BY <2>1, <2>2 DEF HeldInv, HeldOK
    <3>2. ~ (i \in fPolled+1..t-1)
      BY <3>1
    <3> QED
      BY <3>1, <3>2, <1>1 DEF Steps
  <2> QED
    BY <2>1, <2>2
<1>7. ASSUME NEW i \in Steps, held[i] # NoReq
      PROVE  reqs[held[i]].events = Pending(dPolled, wqs, i)
  <2>1. CASE i = t
    BY <2>1, <1>1, <1>3, <1>4, <1>5, <1>6 DEF Pending
  <2>2. CASE i # t
    <3>1. held[i] # q /\ held[i] \in Pool
      BY <2>2, <1>1, <1>2, <1>3, <1>7 DEF HeldInv, HeldOK
    <3>2. reqs[held[i]].events = Pending(dPolled, wq, i)
      BY <3>1, <1>5, <1>7 DEF HeldInv, HeldOK
    <3> QED
      BY <3>2, <2>2, <1>6 DEF Pending
  <2> QED
    BY <2>1, <2>2
<1>8. reqs[q].events \in 0..2
  BY <1>1, <1>3, <1>4, <1>5 DEF Pending
<1>9. HeldOK(reqs, held, rq, wqs, dPolled, t)
  <2> HIDE DEF reqs, q, wqs
  <2>1. \A i \in Steps : held[i] # NoReq =>
          /\ i <= fifoTail /\ fifoTail < i + Window
          /\ reqs[held[i]].type = "recv"
          /\ reqs[held[i]].events = Pending(dPolled, wqs, i)
    BY <1>2, <1>5, <1>7 DEF HeldInv, HeldOK
  <2>2. /\ \A i \in Steps : i <= fifoTail /\ held[i] = NoReq => i <= dPolled
        /\ \A i \in Steps : dPolled < i /\ i <= fifoTail => rq[i] = held[i]
    BY DEF HeldInv, HeldOK
  <2>3. \A i \in Steps : wqs[i] # NoReq => wqs[i] = held[i] /\ t < i
    BY <1>6 DEF HeldInv, HeldOK
  <2>4. \A h, i \in Steps : held[h] = held[i] /\ held[h] # NoReq => h = i
    BY DEF HeldInv, HeldOK
  <2>5. \A p \in Pool : /\ reqs[p].type # "unused" => \E i \in Steps : held[i] = p
                        /\ reqs[p].events \in 0..2
    BY <1>5, <1>8 DEF HeldInv, HeldOK
  <2> QED
    BY <2>1, <2>2, <2>3, <2>4, <2>5 DEF HeldOK
<1> QED
  BY <1>1, <1>3, <1>9

LEMMA RecvTestHeld ==
  ASSUME AllShapes, Ordered, HeldInv, NEW k \in Steps, RecvTest(k)
  PROVE  /\ HeldInv'
         /\ \A i \in Steps : result'[i] # result[i] => i <= dPolled'
<1>1. /\ rreqs \in [Pool -> RecvReqs] /\ rq \in [Steps -> Pool \cup {NoReq}]
      /\ wq \in [Steps -> Pool \cup {NoReq}]
      /\ fPolled \in Nat /\ dPolled \in Nat /\ fAcked \in Nat
  BY DEF AllShapes, RecvShape, NetShape
<1>2. rerr = "none" /\ rerr # "internal" /\ held[k] # NoReq /\ UNCHANGED fifoTail
  BY DEF RecvTest, RecvTestDone, RecvTestImm, RecvTestFifo, RecvTestError,
         RecvTestable, recvTestSame
<1>3. CASE RecvTestDone(k)
  <2>1. /\ HeldOK(rreqs', held', rq, wq, dPolled, fPolled)
        /\ \A i \in Steps : result'[i] # result[i] => i <= dPolled
    BY <1>1, <1>2, <1>3, ReturnHeld DEF RecvTestDone, HeldInv
  <2>2. UNCHANGED <<rerr, rq, wq, dPolled, fPolled>>
    BY <1>3 DEF RecvTestDone
  <2>3. HeldInv'
    BY <2>1, <2>2, <1>2 DEF HeldInv, HeldOK
  <2> QED
    BY <2>1, <2>2, <2>3
<1>4. CASE RecvTestImm(k)
  <2> DEFINE j == dPolled + 1
             rqs == [rq EXCEPT ![j] = NoReq]
  <2>1. /\ dPolled < dArrived /\ dPolled' = j /\ rq' = rqs
        /\ UNCHANGED <<wq, fPolled>>
    BY <1>4 DEF RecvTestImm
  <2>2. /\ j \in Steps /\ rq[j] \in Pool /\ j \in Nat
        /\ HeldOK(OneEventLess(rreqs, rq[j]), held, rqs, wq, j, fPolled)
    BY <2>1, <1>1, <1>2, PollImmHeld
  <2>3. OneEventLess(rreqs, rq[j]) \in [Pool -> RecvReqs]
    BY <1>1, OneEventLessType
  <2>4. CASE rreqs[rq[j]].nreqs > 1
    <3>1. rerr' = "internal" /\ UNCHANGED <<rreqs, held, result>>
      BY <1>4, <2>4 DEF RecvTestImm
    <3>2. /\ \A i \in Steps : i <= fifoTail /\ held[i] = NoReq => i <= dPolled'
          /\ \A i \in Steps : dPolled' < i /\ i <= fifoTail => rq'[i] = held[i]
      BY <2>1, <2>2 DEF HeldOK
    <3> HIDE DEF rqs, j
    <3>3. HeldInv'
      BY <3>1, <3>2, <2>1, <1>2 DEF HeldInv, HeldOK
    <3> QED
      BY <3>1, <3>3
  <2>5. CASE ~(rreqs[rq[j]].nreqs > 1)
    <3>1. ReturnRecvTest(k, OneEventLess(rreqs, rq[j])) /\ UNCHANGED rerr
      BY <1>4, <2>5 DEF RecvTestImm
    <3>0. j \in Nat
      BY <1>1
    <3> HIDE DEF rqs, j
    <3>2. /\ HeldOK(rreqs', held', rqs, wq, j, fPolled)
          /\ \A i \in Steps : result'[i] # result[i] => i <= j
      BY <3>0, <3>1, <2>2, <2>3, <1>1, <1>2, ReturnHeld
    <3>3. HeldInv'
      BY <3>1, <3>2, <2>1, <1>2 DEF HeldInv, HeldOK
    <3> QED
      BY <3>2, <3>3, <2>1
  <2> QED
    BY <2>4, <2>5
<1>5. CASE RecvTestFifo(k)
  <2>1. PICK t \in fPolled+1..fAcked :
          /\ wq[t] # NoReq /\ \A j \in fPolled+1..t-1 : wq[j] = NoReq
          /\ fPolled' = t /\ wq' = [wq EXCEPT ![t] = NoReq]
          /\ ReturnRecvTest(k, OneEventLess(rreqs, wq[t]))
    BY <1>5 DEF RecvTestFifo
  <2>2. /\ wq[t] \in Pool
        /\ HeldOK(OneEventLess(rreqs, wq[t]), held, rq, [wq EXCEPT ![t] = NoReq],
                  dPolled, t)
    BY <2>1, <1>2, PollFifoHeld
  <2>3. /\ OneEventLess(rreqs, wq[t]) \in [Pool -> RecvReqs]
        /\ wq' \in [Steps -> Pool \cup {NoReq}] /\ t \in Nat
    <3>1. t \in Nat
      BY <1>1
    <3> QED
      BY <3>1, <2>1, <1>1, OneEventLessType
  <2>4. /\ HeldOK(rreqs', held', rq, wq', dPolled, t)
        /\ \A i \in Steps : result'[i] # result[i] => i <= dPolled
    <3> DEFINE reqs == OneEventLess(rreqs, wq[t])
    <3>1. /\ HeldOK(reqs, held, rq, wq', dPolled, t) /\ ReturnRecvTest(k, reqs)
          /\ reqs \in [Pool -> RecvReqs]
      BY <2>1, <2>2, <2>3
    <3> HIDE DEF reqs
    <3> QED
      BY <3>1, <2>3, <1>1, <1>2, ReturnHeld
  <2>5. UNCHANGED <<rerr, rq, dPolled>>
    BY <1>5 DEF RecvTestFifo
  <2>6. HeldInv'
    BY <2>1, <2>4, <2>5, <1>2 DEF HeldInv, HeldOK
  <2> QED
    BY <2>4, <2>5, <2>6
<1>6. CASE RecvTestError(k)
  BY <1>2, <1>6 DEF RecvTestError, HeldInv, HeldOK
<1> QED
  BY <1>3, <1>4, <1>5, <1>6 DEF RecvTest

\* Nothing else touches the receiver's requests.
LEMMA OtherHeld ==
  HeldInv /\ UNCHANGED <<recvVars, dPolled, fPolled>> => HeldInv'
BY DEF recvVars, HeldInv, HeldOK

-----------------------------------------------------------------------------
(***************************************************************************)
(* Cursors, signaled writes and indices.                                   *)
(***************************************************************************)
LEMMA NextOrdered ==
  ASSUME AllShapes, Ordered, IdxInv, [Next]_vars
  PROVE  Ordered'
<1> USE ConstantsOK DEF AllShapes
<1>1. /\ fifoTail \in Nat /\ rqPosted \in Nat /\ fifoHead \in Nat /\ sPosted \in Nat
      /\ fAcked \in Nat /\ fPolled \in Nat /\ dArrived \in Nat /\ dPolled \in Nat
      /\ sAcked \in Nat /\ sPolled \in Nat
  BY DEF RecvShape, SendShape, NetShape
<1>2. ASSUME NEW n \in GroupSizes, NEW tags \in [1..n -> Tags],
             NEW sizes \in [1..n -> Sizes],
             NEW mems \in [1..n -> Mems], Irecv(n, tags, sizes, mems)
      PROVE  Ordered'
  BY <1>1, <1>2 DEF Irecv, Ordered, Steps, sendVars
<1>3. ASSUME NEW k \in Steps, RecvTest(k) PROVE Ordered'
  <2>1. CASE RecvTestDone(k)
    BY <1>1, <2>1 DEF RecvTestDone, recvTestSame, sendVars, Ordered
  <2>2. CASE RecvTestImm(k)
    BY <1>1, <2>2 DEF RecvTestImm, recvTestSame, sendVars, Ordered
  <2>3. CASE RecvTestFifo(k)
    BY <1>1, <2>3 DEF RecvTestFifo, recvTestSame, sendVars, Ordered
  <2>4. CASE RecvTestError(k)
    BY <1>1, <2>4 DEF RecvTestError, recvTestSame, sendVars, Ordered
  <2> QED
    BY <1>3, <2>1, <2>2, <2>3, <2>4 DEF RecvTest
<1>4. ASSUME NEW tag \in Tags, NEW size \in Sizes, NEW mem \in Mems,
             Isend(tag, size, mem)
      PROVE  Ordered'
  <2>1. /\ UNCHANGED <<fifoTail, rqPosted, fifoHead, fAcked, fPolled, dArrived, dPolled,
                       sAcked, sPolled>>
        /\ spc = "idle"
    BY <1>4 DEF Isend, isendSame, recvVars
  <2>2. \/ UNCHANGED <<sPosted, spc>>
        \/ sPosted' = sPosted + 1 /\ spc' = "clear"
    BY <1>4 DEF Isend, AcceptSend, MultiSend
  <2>3. fifoHead + 1 <= fifoTail
    <3>1. HeadSlot \in Slots /\ 1 \in Lanes
      BY <1>1, SlotInSlots DEF HeadSlot, Lanes
    <3> QED
      BY <1>4, <3>1 DEF Isend, HeadReady, IdxInv
  <2> QED
    BY <1>1, <2>1, <2>2, <2>3 DEF Ordered
<1>5. ASSUME IsendClear PROVE Ordered'
  BY <1>1, <1>5 DEF IsendClear, recvVars, Ordered
<1>6. ASSUME NEW q \in Pool, SendTest(q) PROVE Ordered'
  BY <1>1, <1>6
  DEF SendTest, SendTestDone, SendTestData, SendTestError, sendTestSame, recvVars, Ordered
<1>7. ASSUME NEW k \in Steps, NEW r \in Lanes, FifoLand(k, r) PROVE Ordered'
  BY <1>7 DEF FifoLand, netSame, recvVars, sendVars, Ordered
<1>8. ASSUME FifoAck PROVE Ordered'
  BY <1>1, <1>8 DEF FifoAck, netSame, recvVars, sendVars, Ordered
<1>9. ASSUME DataArrive PROVE Ordered'
  BY <1>1, <1>9 DEF DataArrive, netSame, recvVars, sendVars, Ordered
<1>10. ASSUME DataAck PROVE Ordered'
  BY <1>1, <1>10 DEF DataAck, netSame, recvVars, sendVars, Ordered
<1>11. ASSUME LinkDown \/ UNCHANGED vars PROVE Ordered'
  BY <1>11 DEF LinkDown, netSame, vars, recvVars, sendVars, Ordered
<1> QED
  BY <1>2, <1>3, <1>4, <1>5, <1>6, <1>7, <1>8, <1>9, <1>10, <1>11 DEF Next

LEMMA IrecvSignal ==
  ASSUME AllShapes, Ordered, SignalInv, NEW n \in GroupSizes,
         NEW tags \in [1..n -> Tags], NEW sizes \in [1..n -> Sizes],
         NEW mems \in [1..n -> Mems], Irecv(n, tags, sizes, mems)
  PROVE  SignalInv'
<1> DEFINE t == fifoTail + 1
<1>1. PICK q \in Pool : wq' = [wq EXCEPT ![t] = IF Signaled(t) THEN q ELSE NoReq]
  BY DEF Irecv
<1>2. /\ t \in Steps /\ fifoTail' = t /\ fPolled' = fPolled /\ q # NoReq
      /\ wq \in [Steps -> Pool \cup {NoReq}]
  BY DEF Irecv, AllShapes, RecvShape, Pool, NoReq
<1>3. /\ wq'[t] = IF Signaled(t) THEN q ELSE NoReq
      /\ \A k \in Steps : k # t => wq'[k] = wq[k]
      /\ \A k \in Steps : k <= t => k <= fifoTail \/ k = t
  <2>1. fifoTail \in Nat
    BY DEF AllShapes, RecvShape
  <2>2. \A k \in Steps : k <= t => k <= fifoTail \/ k = t
    BY <2>1, ConstantsOK DEF Steps
  <2> QED
    BY <2>2, <1>1, <1>2
<1> HIDE DEF t
<1>4. \A k \in Steps : fPolled < k /\ k <= t /\ Signaled(k) => wq'[k] # NoReq
  BY <1>2, <1>3 DEF SignalInv
<1>5. \A k \in Steps : wq'[k] # NoReq => Signaled(k)
  BY <1>3 DEF SignalInv
<1> QED
  BY <1>2, <1>4, <1>5 DEF SignalInv, Signaled, Slot

LEMMA RecvTestSignal ==
  ASSUME AllShapes, Ordered, SignalInv, NEW k \in Steps, RecvTest(k)
  PROVE  SignalInv'
<1>1. CASE UNCHANGED <<wq, fPolled, fifoTail>>
  BY <1>1 DEF SignalInv, Signaled, Slot
<1>2. CASE RecvTestFifo(k)
  <2>1. PICK t \in fPolled+1..fAcked :
          wq[t] # NoReq /\ fPolled' = t /\ wq' = [wq EXCEPT ![t] = NoReq]
    BY <1>2 DEF RecvTestFifo
  <2>2. fifoTail' = fifoTail /\ wq \in [Steps -> Pool \cup {NoReq}]
    BY <1>2 DEF RecvTestFifo, recvTestSame, AllShapes, RecvShape
  <2>3. /\ t \in Steps /\ fPolled < t /\ fPolled \in Nat
    BY <2>1, ConstantsOK DEF Ordered, AllShapes, NetShape, RecvShape, Steps
  <2>4. /\ \A i \in Steps : i # t => wq'[i] = wq[i]
        /\ wq'[t] = NoReq
    BY <2>1, <2>2, <2>3
  <2>5. \A i \in Steps : t < i => i # t /\ fPolled < i
    BY <2>3 DEF Steps
  <2> QED
    BY <2>1, <2>2, <2>3, <2>4, <2>5 DEF SignalInv, Signaled, Slot
<1> QED
  BY <1>1, <1>2
  DEF RecvTest, RecvTestDone, RecvTestImm, RecvTestError, recvTestSame

LEMMA NextIdx ==
  ASSUME AllShapes, IdxInv, [Next]_vars
  PROVE  IdxInv'
<1> USE ConstantsOK DEF AllShapes
<1>1. ASSUME NEW n \in GroupSizes, NEW tags \in [1..n -> Tags],
             NEW sizes \in [1..n -> Sizes],
             NEW mems \in [1..n -> Mems], Irecv(n, tags, sizes, mems)
      PROVE  IdxInv'
  <2> DEFINE t == fifoTail + 1
  <2>1. /\ fifoTail \in Nat /\ fifoTail' = t /\ fifo' = fifo
        /\ elems \in [Slots -> [Lanes -> Elems]] /\ fifo \in [Slots -> [Lanes -> Elems]]
    BY <1>1 DEF Irecv, RecvShape, NetShape
  <2>2. \A s \in Slots, r \in Lanes : elems'[s][r].idx = t \/ elems'[s][r] = elems[s][r]
    BY <1>1, <2>1 DEF Irecv, StageFifo
  <2>3. \A s \in Slots, r \in Lanes : fifo[s][r].idx \in Nat /\ elems[s][r].idx \in Nat
    BY <2>1 DEF Elems
  <2> HIDE DEF t
  <2>4. \A i \in Nat : i <= fifoTail => i <= t
    BY <2>1 DEF t
  <2>5. t <= t
    BY <2>1 DEF t
  <2> QED
    BY <2>1, <2>2, <2>3, <2>4, <2>5 DEF IdxInv
<1>2. ASSUME IsendClear PROVE IdxInv'
  <2>1. \A s \in Slots, r \in Lanes : fifo'[s][r] = fifo[s][r] \/ fifo'[s][r].idx = 0
    BY <1>2 DEF IsendClear, NetShape, ZeroElem
  <2>2. fifoTail' = fifoTail /\ elems' = elems /\ 0 <= fifoTail
    BY <1>2 DEF IsendClear, recvVars, RecvShape
  <2> QED
    BY <2>1, <2>2 DEF IdxInv
<1>3. ASSUME NEW k \in Steps, NEW i \in Lanes, FifoLand(k, i) PROVE IdxInv'
  <2>1. Slot(k - 1) \in Slots
    BY SlotInSlots DEF Steps
  <2>2. \A s \in Slots, r \in Lanes :
          fifo'[s][r] = fifo[s][r] \/ \E z \in Slots : fifo'[s][r] = elems[z][r]
    BY <1>3, <2>1 DEF FifoLand, NetShape
  <2>3. fifoTail' = fifoTail /\ elems' = elems
    BY <1>3 DEF FifoLand, netSame, recvVars
  <2> QED
    BY <2>2, <2>3 DEF IdxInv
<1>4. ASSUME UNCHANGED <<fifoTail, elems, fifo>> PROVE IdxInv'
  BY <1>4 DEF IdxInv
<1>5. ASSUME NEW k \in Steps, RecvTest(k) PROVE IdxInv'
  BY <1>4, <1>5
  DEF RecvTest, RecvTestDone, RecvTestImm, RecvTestFifo, RecvTestError, recvTestSame
<1>6. ASSUME NEW tag \in Tags, NEW size \in Sizes, NEW mem \in Mems,
             Isend(tag, size, mem)
      PROVE  IdxInv'
  BY <1>4, <1>6 DEF Isend, isendSame, recvVars
<1>7. ASSUME NEW q \in Pool, SendTest(q) PROVE IdxInv'
  BY <1>4, <1>7
  DEF SendTest, SendTestDone, SendTestData, SendTestError, sendTestSame, recvVars
<1>8. ASSUME FifoAck \/ DataArrive \/ DataAck \/ LinkDown \/ UNCHANGED vars PROVE IdxInv'
  BY <1>4, <1>8 DEF FifoAck, DataArrive, DataAck, LinkDown, netSame, vars, recvVars
<1> QED
  BY <1>1, <1>2, <1>3, <1>5, <1>6, <1>7, <1>8 DEF Next

-----------------------------------------------------------------------------
(***************************************************************************)
(* The base invariant, whatever the caller's window.                       *)
(***************************************************************************)
LEMMA InitBase == Init => BaseInv
<1> SUFFICES ASSUME Init PROVE BaseInv
  OBVIOUS
<1> USE ConstantsOK
<1>1. Ordered
  BY DEF Init, Ordered
<1>2. HeldInv
  BY DEF Init, HeldInv, HeldOK, Steps, NoReq, FreeRecvReq, Pool
<1>3. SignalInv
  BY DEF Init, SignalInv, NoReq, Steps
<1>4. IdxInv
  BY DEF Init, IdxInv, ZeroElem
<1> QED
  BY <1>1, <1>2, <1>3, <1>4, InitShapes DEF BaseInv

LEMMA NextBase == BaseInv /\ [Next]_vars => BaseInv'
<1> SUFFICES ASSUME BaseInv, [Next]_vars PROVE BaseInv'
  OBVIOUS
<1> USE DEF BaseInv
<1>1. AllShapes' /\ Ordered' /\ IdxInv'
  BY NextShape, NextOrdered, NextIdx
<1>2. ASSUME NEW n \in GroupSizes, NEW tags \in [1..n -> Tags],
             NEW sizes \in [1..n -> Sizes],
             NEW mems \in [1..n -> Mems], Irecv(n, tags, sizes, mems)
      PROVE  HeldInv' /\ SignalInv'
  BY <1>2, IrecvHeld, IrecvSignal
<1>3. ASSUME NEW k \in Steps, RecvTest(k)
      PROVE  HeldInv' /\ SignalInv'
  BY <1>3, RecvTestHeld, RecvTestSignal
<1>4. ASSUME UNCHANGED <<recvVars, dPolled, fPolled>>
      PROVE  HeldInv' /\ SignalInv'
  BY <1>4, OtherHeld DEF SignalInv, recvVars, Signaled, Slot
<1>5. ASSUME NEW tag \in Tags, NEW size \in Sizes, NEW mem \in Mems,
             Isend(tag, size, mem)
      PROVE  HeldInv' /\ SignalInv'
  BY <1>4, <1>5 DEF Isend, isendSame
<1>6. ASSUME NEW q \in Pool, SendTest(q) PROVE HeldInv' /\ SignalInv'
  BY <1>4, <1>6 DEF SendTest, SendTestDone, SendTestData, SendTestError, sendTestSame
<1>7. ASSUME NEW k \in Steps, NEW r \in Lanes, FifoLand(k, r)
      PROVE  HeldInv' /\ SignalInv'
  BY <1>4, <1>7 DEF FifoLand, netSame
<1>8. ASSUME IsendClear \/ FifoAck \/ DataArrive \/ DataAck \/ LinkDown \/ UNCHANGED vars
      PROVE  HeldInv' /\ SignalInv'
  BY <1>4, <1>8
  DEF IsendClear, FifoAck, DataArrive, DataAck, LinkDown, netSame, vars
<1> QED
  BY <1>1, <1>2, <1>3, <1>5, <1>6, <1>7, <1>8 DEF Next

LEMMA BaseAlways == Spec => []BaseInv
BY InitBase, NextBase, PTL DEF Spec

(***************************************************************************)
(* FifoQueueFits of every ring, group size and number of steps, if the     *)
(* caller's window is at most the ring: fewer unreclaimed FIFO writes than *)
(* a round and the window, although one in MaxRequests is signaled.        *)
(***************************************************************************)
THEOREM FifoQueueAlwaysFits ==
  ASSUME Window <= MaxRequests
  PROVE  Spec => []FifoQueueFits
<1>1. BaseInv => FifoQueueFits
  <2> SUFFICES ASSUME BaseInv, ~FifoQueueFits PROVE FALSE
    OBVIOUS
  <2> USE ConstantsOK DEF BaseInv
  <2>1. /\ fifoTail \in Nat /\ fPolled \in Nat /\ fifoTail <= MaxSteps
        /\ fifoTail - fPolled >= MaxRequests + Window
           \/ fifoTail - fPolled > 2 * MaxRequests
    BY DEF AllShapes, RecvShape, NetShape, Ordered, FifoQueueFits
  <2>2. PICK k \in Nat : /\ fPolled < k /\ k <= fPolled + MaxRequests
                         /\ Slot(k - 1) = 0
    <3>1. CASE fPolled = 0
      <4>1. Slot(0) = 0
        BY DEF Slot
      <4> QED
        BY <3>1, <4>1
    <3>2. CASE fPolled # 0
      <4> DEFINE i == fPolled - 1
      <4>1. i \in Nat /\ Slot(i) = 0
        BY <3>2, <2>1 DEF SignalInv, Signaled
      <4>2. Slot(i + MaxRequests) = 0
        BY <4>1, SlotsRepeat
      <4> DEFINE k == fPolled + MaxRequests
      <4>3. k \in Nat /\ k - 1 = i + MaxRequests /\ fPolled < k
        BY <2>1
      <4> QED
        BY <4>2, <4>3
    <3> QED
      BY <3>1, <3>2
  <2>3. k \in Steps /\ k <= fifoTail
    BY <2>1, <2>2 DEF Steps
  <2>4. wq[k] # NoReq
    BY <2>2, <2>3 DEF SignalInv, Signaled
  <2>5. fifoTail < k + Window
    BY <2>3, <2>4 DEF HeldInv, HeldOK
  <2> QED
    BY <2>1, <2>2, <2>5
<1> QED
  BY <1>1, BaseAlways, PTL

-----------------------------------------------------------------------------
(***************************************************************************)
(* Announcements, action by action.  keptVars is all they depend on.       *)
(***************************************************************************)
keptVars == <<wire, fifo, elems, call, place, fifoHead, fifoTail, sPosted>>

\* The steps not consumed span less than the ring, so their slots differ.
LEMMA OpenSlotsDiffer ==
  ASSUME BaseInv, Window < MaxRequests,
         NEW j \in Steps, NEW k \in Steps, j # k,
         fifoHead < j, j <= fifoTail, fifoHead < k, k <= fifoTail
  PROVE  Slot(j - 1) # Slot(k - 1)
<1> USE ConstantsOK
<1>1. /\ fifoTail \in Nat /\ fifoHead \in Nat /\ j \in Nat \ {0} /\ k \in Nat \ {0}
      /\ fifoTail <= fifoHead + 1 + Window
  BY Span DEF BaseInv, AllShapes, RecvShape, SendShape, Steps
<1>2. CASE j < k
  <2>1. j - 1 \in Nat /\ k - 1 \in Nat /\ j - 1 < k - 1 /\ k - 1 < (j - 1) + MaxRequests
    BY <1>1, <1>2
  <2> QED
    BY <2>1, SlotsDiffer
<1>3. CASE k < j
  <2>1. j - 1 \in Nat /\ k - 1 \in Nat /\ k - 1 < j - 1 /\ j - 1 < (k - 1) + MaxRequests
    BY <1>1, <1>3
  <2> QED
    BY <2>1, SlotsDiffer
<1> QED
  BY <1>1, <1>2, <1>3

LEMMA IrecvKept ==
  ASSUME BaseInv, BaseInv', KeptInv, Window < MaxRequests, NEW n \in GroupSizes,
         NEW tags \in [1..n -> Tags], NEW sizes \in [1..n -> Sizes],
         NEW mems \in [1..n -> Mems], Irecv(n, tags, sizes, mems)
  PROVE  KeptInv'
<1> DEFINE t == fifoTail + 1
<1> USE ConstantsOK
<1>1. /\ t \in Steps /\ t \in Nat \ {0} /\ fifoTail' = t /\ fifoHead \in Nat
      /\ sPosted' = sPosted /\ fifoHead' = fifoHead /\ fifo' = fifo
      /\ fifoTail \in Nat /\ sPosted < t /\ n \in 1..MaxRecvs
  BY DEF Irecv, sendVars, BaseInv, AllShapes, RecvShape, SendShape, Ordered, Steps
<1>2. /\ call[t] \in Calls /\ call'[t] = [n |-> n, tags |-> tags, sizes |-> sizes]
      /\ place'[t] = mems
      /\ \A k \in Steps : k # t => call'[k] = call[k] /\ place'[k] = place[k]
      /\ wire' = wire \cup {<<t, r>> : r \in 1..n}
  BY <1>1 DEF Irecv, StageFifo, BaseInv, AllShapes, RecvShape
<1>3. /\ elems \in [Slots -> [Lanes -> Elems]] /\ fifo \in [Slots -> [Lanes -> Elems]]
      /\ wire \subseteq Steps \X Lanes /\ Slot(t - 1) \in Slots
  <2>1. t - 1 \in Nat
    BY <1>1
  <2>2. Slot(t - 1) \in Slots
    BY <2>1, SlotInSlots
  <2> QED
    BY <2>2 DEF BaseInv, AllShapes, RecvShape, NetShape
<1>4. /\ \A r \in 1..n : r \in Lanes /\ elems'[Slot(t - 1)][r] =
           [addr |-> Address(mems[r], t), size |-> sizes[r], nreqs |-> n,
            tag |-> tags[r], idx |-> t]
      /\ \A s \in Slots : s # Slot(t - 1) => elems'[s] = elems[s]
  BY <1>1, <1>3 DEF Irecv, StageFifo, Lanes
<1>5. \A k \in Steps : k <= t <=> k <= fifoTail \/ k = t
  BY <1>1 DEF Steps
<1>6. \A k \in Steps : k <= fifoTail => k # t
  BY <1>1 DEF Steps
<1>7. t > fifoTail
  BY <1>1
<1> HIDE DEF t
<1>8. ASSUME NEW k \in Steps, k <= t
      PROVE  call'[k].n \in GroupSizes /\ place'[k] \in [1..call'[k].n -> Memory]
  <2>1. CASE k = t
    <3>1. call'[k].n = n /\ place'[k] = mems /\ mems \in [1..n -> Memory]
      BY <2>1, <1>2
    <3> QED
      BY <3>1
  <2>2. CASE k # t
    <3>1. k <= fifoTail /\ call'[k] = call[k] /\ place'[k] = place[k]
      BY <2>2, <1>2, <1>5, <1>8
    <3> QED
      BY <3>1 DEF KeptInv, WireInv
  <2> QED
    BY <2>1, <2>2
<1>9. ASSUME NEW w \in wire'
      PROVE  /\ sPosted < w[1] /\ w[1] <= t /\ w[2] <= call'[w[1]].n
             /\ fifo[Slot(w[1] - 1)][w[2]].idx # w[1]
  <2>1. CASE w \in wire
    <3>1. w[1] \in Steps
      BY <2>1, <1>3
    <3>2. /\ sPosted < w[1] /\ w[1] <= fifoTail /\ w[2] <= call[w[1]].n
          /\ fifo[Slot(w[1] - 1)][w[2]].idx # w[1]
      BY <2>1 DEF KeptInv, WireInv
    <3>3. w[1] <= t
      BY <3>1, <3>2, <1>5
    <3>4. w[1] # t
      BY <3>1, <3>2, <1>6
    <3>5. call'[w[1]] = call[w[1]]
      <4>1. \A k \in Steps : k # t => call'[k] = call[k]
        BY <1>2
      <4> QED
        BY <3>1, <3>4, <4>1
    <3>6. w[2] <= call'[w[1]].n
      BY <3>2, <3>5
    <3> QED
      BY <3>2, <3>3, <3>6
  <2>2. CASE w \notin wire
    <3>1. PICK r \in 1..n : w = <<t, r>>
      BY <2>2, <1>2, <1>9
    <3>2. fifo[Slot(t - 1)][r].idx \in Nat /\ fifo[Slot(t - 1)][r].idx <= fifoTail
      <4>1. r \in Lanes /\ Slot(t - 1) \in Slots
        BY <1>1, <1>3 DEF Lanes
      <4>2. fifo[Slot(t - 1)][r] \in Elems
        BY <4>1, <1>3
      <4>3. fifo[Slot(t - 1)][r].idx \in 0..MaxSteps
        BY <4>2 DEF Elems
      <4> QED
        BY <4>1, <4>3 DEF BaseInv, IdxInv
    <3>3. fifo[Slot(t - 1)][r].idx # t
      BY <3>2, <1>1, <1>7
    <3>4. t <= t /\ r <= n
      BY <1>1
    <3> QED
      BY <3>1, <3>3, <3>4, <1>1, <1>2
  <2> QED
    BY <2>1, <2>2
<1>10. WireInv'
  BY <1>1, <1>8, <1>9 DEF WireInv
<1>11. ASSUME NEW k \in fifoHead+1..t, NEW r \in 1..call'[k].n
       PROVE  IF <<k, r>> \in wire' THEN elems'[Slot(k - 1)][r] = Announced(k, r)'
                                    ELSE fifo'[Slot(k - 1)][r] = Announced(k, r)'
  <2>0. k \in Steps /\ fifoHead < k /\ k <= t
    BY <1>1 DEF Steps
  <2>1. CASE k = t
    BY <2>1, <1>2, <1>4 DEF Announced
  <2>2. CASE k # t
    <3>1. k <= fifoTail /\ k \in fifoHead+1..fifoTail
          /\ call'[k] = call[k] /\ place'[k] = place[k]
      BY <2>0, <2>2, <1>1, <1>2, <1>5
    <3>2. Slot(k - 1) # Slot(t - 1)
      <4>1. fifoHead' < k /\ k <= fifoTail' /\ fifoHead' < t /\ t <= fifoTail'
        BY <2>0, <1>1, <1>7
      <4>2. /\ fifoTail <= dPolled + Window /\ WindowOpen(t)
        BY Span DEF Irecv, BaseInv, t
      <4>3. t <= dPolled + Window
        BY <4>2, <1>1, <1>7, WindowPolled DEF BaseInv, t
      <4>4. /\ k - 1 \in Nat /\ t - 1 \in Nat /\ k - 1 < t - 1
            /\ t - 1 < (k - 1) + MaxRequests
        <5>1. dPolled <= fifoHead + 1 /\ dPolled \in Nat
          BY <1>1 DEF BaseInv, Ordered, AllShapes, SendShape, NetShape
        <5> QED
          BY <5>1, <4>3, <3>1, <2>0, <1>1, <1>7 DEF Steps
      <4> QED
        BY <4>4, SlotsDiffer
    <3>3. Slot(k - 1) \in Slots
      BY <2>0, SlotInSlots DEF Steps
    <3>4. elems'[Slot(k - 1)] = elems[Slot(k - 1)] /\ (<<k, r>> \in wire' <=> <<k, r>> \in wire)
      BY <3>2, <3>3, <2>2, <1>2, <1>4
    <3>5. IF <<k, r>> \in wire THEN elems[Slot(k - 1)][r] = Announced(k, r)
                               ELSE fifo[Slot(k - 1)][r] = Announced(k, r)
      BY <3>1 DEF KeptInv, AnnouncementKept
    <3>6. Announced(k, r)' = Announced(k, r)
      BY <3>1 DEF Announced
    <3> QED
      BY <3>4, <3>5, <3>6, <1>1
  <2> QED
    BY <2>1, <2>2
<1>12. AnnouncementKept'
  BY <1>1, <1>11 DEF AnnouncementKept
<1> QED
  BY <1>10, <1>12 DEF KeptInv

LEMMA FifoLandKept ==
  ASSUME BaseInv, KeptInv, Window < MaxRequests,
         NEW k \in Steps, NEW r \in Lanes, FifoLand(k, r)
  PROVE  KeptInv'
<1> USE ConstantsOK
<1>1. /\ UNCHANGED <<elems, call, place, fifoHead, fifoTail, sPosted>>
      /\ <<k, r>> \in wire /\ wire' = wire \ {<<k, r>>}
      /\ fifo' = [fifo EXCEPT ![Slot(k - 1)][r] = elems[Slot(k - 1)][r]]
  BY DEF FifoLand, netSame, recvVars, sendVars
<1>2. /\ Slot(k - 1) \in Slots /\ fifo \in [Slots -> [Lanes -> Elems]]
      /\ wire \subseteq Steps \X Lanes
  BY SlotInSlots DEF Steps, BaseInv, AllShapes, NetShape
<1>3. /\ fifo'[Slot(k - 1)][r] = elems[Slot(k - 1)][r]
      /\ \A s \in Slots, i \in Lanes :
           s # Slot(k - 1) \/ i # r => fifo'[s][i] = fifo[s][i]
  BY <1>1, <1>2
<1>4. fifoHead < k /\ k <= fifoTail /\ r <= call[k].n
  <2>1. sPosted < k /\ k <= fifoTail /\ r <= call[k].n
    BY <1>1 DEF KeptInv, WireInv
  <2> QED
    BY <2>1 DEF BaseInv, Ordered, AllShapes, SendShape, Steps
<1>5. elems[Slot(k - 1)][r] = Announced(k, r) /\ fifo'[Slot(k - 1)][r].idx = k
  <2>1. k \in fifoHead+1..fifoTail /\ r \in 1..call[k].n
    <3>1. call[k].n \in Nat
      BY DEF BaseInv, AllShapes, RecvShape, Calls
    <3> QED
      BY <3>1, <1>4 DEF BaseInv, AllShapes, RecvShape, SendShape, Steps, Lanes
  <2>2. elems[Slot(k - 1)][r] = Announced(k, r)
    BY <2>1, <1>1 DEF KeptInv, AnnouncementKept
  <2> QED
    BY <2>2, <1>3 DEF Announced
<1>6. ASSUME NEW w \in wire'
      PROVE  fifo'[Slot(w[1] - 1)][w[2]].idx # w[1]
  <2>1. /\ w \in wire /\ w # <<k, r>> /\ w[1] \in Steps /\ w[2] \in Lanes /\ w = <<w[1], w[2]>>
        /\ Slot(w[1] - 1) \in Slots
    BY <1>1, <1>2, <1>6, SlotInSlots DEF Steps
  <2>2. fifo[Slot(w[1] - 1)][w[2]].idx # w[1]
    BY <2>1 DEF KeptInv, WireInv
  <2>3. CASE Slot(w[1] - 1) = Slot(k - 1) /\ w[2] = r
    BY <2>1, <2>3, <1>5
  <2>4. CASE ~(Slot(w[1] - 1) = Slot(k - 1) /\ w[2] = r)
    BY <2>1, <2>2, <2>4, <1>3
  <2> QED
    BY <2>3, <2>4
<1>7. WireInv'
  BY <1>1, <1>6 DEF KeptInv, WireInv
<1>8. ASSUME NEW j \in fifoHead+1..fifoTail, NEW i \in 1..call[j].n
      PROVE  IF <<j, i>> \in wire' THEN elems[Slot(j - 1)][i] = Announced(j, i)
                                   ELSE fifo'[Slot(j - 1)][i] = Announced(j, i)
  <2>1. /\ j \in Steps /\ fifoHead < j /\ j <= fifoTail /\ i \in Lanes
        /\ Slot(j - 1) \in Slots
    <3>1. j \in Steps /\ fifoHead < j /\ j <= fifoTail
      BY DEF BaseInv, AllShapes, RecvShape, SendShape, Ordered, Steps
    <3>2. call[j].n \in 0..MaxRecvs
      BY <3>1 DEF BaseInv, AllShapes, RecvShape, Calls
    <3> QED
      BY <3>1, <3>2, SlotInSlots DEF Lanes, Steps
  <2>2. IF <<j, i>> \in wire THEN elems[Slot(j - 1)][i] = Announced(j, i)
                             ELSE fifo[Slot(j - 1)][i] = Announced(j, i)
    BY DEF KeptInv, AnnouncementKept
  <2>3. CASE <<j, i>> = <<k, r>>
    BY <2>3, <1>1, <1>3, <1>5
  <2>4. CASE <<j, i>> # <<k, r>>
    <3>1. j = k => i # r
      BY <2>4
    <3>2. j # k => Slot(j - 1) # Slot(k - 1)
      BY <2>1, <1>4, OpenSlotsDiffer
    <3>3. fifo'[Slot(j - 1)][i] = fifo[Slot(j - 1)][i]
      BY <3>1, <3>2, <2>1, <1>3
    <3> QED
      BY <3>3, <2>2, <2>4, <1>1
  <2> QED
    BY <2>3, <2>4
<1>9. AnnouncementKept'
  <2> SUFFICES ASSUME NEW j \in fifoHead+1..fifoTail, NEW i \in 1..call[j].n
               PROVE  IF <<j, i>> \in wire'
                      THEN elems[Slot(j - 1)][i] = Announced(j, i)'
                      ELSE fifo'[Slot(j - 1)][i] = Announced(j, i)'
    BY <1>1 DEF AnnouncementKept, Slot
  <2>1. Announced(j, i)' = Announced(j, i)
    BY <1>1 DEF Announced
  <2> QED
    BY <2>1, <1>8
<1> QED
  BY <1>7, <1>9 DEF KeptInv

LEMMA IsendClearKept ==
  ASSUME BaseInv, KeptInv, Window < MaxRequests, IsendClear
  PROVE  KeptInv'
<1> USE ConstantsOK
<1>1. /\ UNCHANGED <<elems, call, place, fifoTail, sPosted, wire>>
      /\ fifoHead' = fifoHead + 1 /\ fifoHead \in Nat /\ fifoTail \in Nat
      /\ sPosted = fifoHead + 1 /\ sPosted <= fifoTail
      /\ fifo' = [fifo EXCEPT ![Slot(fifoHead)][1] = ZeroElem]
  BY DEF IsendClear, HeadSlot, recvVars, BaseInv, Ordered, AllShapes, RecvShape, SendShape
<1>2. /\ Slot(fifoHead) \in Slots /\ fifo \in [Slots -> [Lanes -> Elems]]
      /\ wire \subseteq Steps \X Lanes
  BY <1>1, SlotInSlots DEF BaseInv, AllShapes, NetShape
<1>3. /\ \A s \in Slots, i \in Lanes :
           fifo'[s][i] = fifo[s][i] \/ (s = Slot(fifoHead) /\ fifo'[s][i].idx = 0)
  BY <1>1, <1>2 DEF ZeroElem
<1>4. ASSUME NEW w \in wire
      PROVE  fifo'[Slot(w[1] - 1)][w[2]].idx # w[1]
  <2>1. w[1] \in Steps /\ w[2] \in Lanes /\ Slot(w[1] - 1) \in Slots /\ w[1] # 0
    BY <1>2, SlotInSlots DEF Steps
  <2>2. fifo[Slot(w[1] - 1)][w[2]].idx # w[1]
    BY DEF KeptInv, WireInv
  <2> QED
    BY <2>1, <2>2, <1>3
<1>5. WireInv'
  BY <1>1, <1>4 DEF KeptInv, WireInv
<1>6. ASSUME NEW j \in fifoHead+2..fifoTail, NEW i \in 1..call[j].n
      PROVE  IF <<j, i>> \in wire THEN elems[Slot(j - 1)][i] = Announced(j, i)
                                  ELSE fifo'[Slot(j - 1)][i] = Announced(j, i)
  <2>1. j \in Steps /\ j \in fifoHead+1..fifoTail /\ j <= fifoTail /\ fifoHead < j
    BY <1>1 DEF BaseInv, Ordered, Steps
  <2>2. i \in Lanes /\ Slot(j - 1) \in Slots
    <3>1. call[j].n \in 0..MaxRecvs
      BY <2>1 DEF BaseInv, AllShapes, RecvShape, Calls
    <3> QED
      BY <3>1, <2>1, SlotInSlots DEF Lanes, Steps
  <2>3. IF <<j, i>> \in wire THEN elems[Slot(j - 1)][i] = Announced(j, i)
                             ELSE fifo[Slot(j - 1)][i] = Announced(j, i)
    BY <2>1 DEF KeptInv, AnnouncementKept
  <2>4. Slot(j - 1) # Slot(fifoHead)
    <3>1. /\ sPosted \in Steps /\ sPosted # j /\ fifoHead < sPosted
      BY <1>1 DEF BaseInv, Ordered, Steps
    <3>2. Slot(j - 1) # Slot(sPosted - 1)
      BY <3>1, <2>1, <1>1, OpenSlotsDiffer
    <3> QED
      BY <3>2, <1>1
  <2> QED
    BY <2>2, <2>3, <2>4, <1>3
<1>7. AnnouncementKept'
  <2>1. fifoHead' + 1 = fifoHead + 2
    BY <1>1
  <2> SUFFICES ASSUME NEW j \in fifoHead+2..fifoTail, NEW i \in 1..call[j].n
               PROVE  IF <<j, i>> \in wire
                      THEN elems[Slot(j - 1)][i] = Announced(j, i)'
                      ELSE fifo'[Slot(j - 1)][i] = Announced(j, i)'
    BY <2>1, <1>1 DEF AnnouncementKept, Slot
  <2>2. Announced(j, i)' = Announced(j, i)
    BY <1>1 DEF Announced
  <2> QED
    BY <2>2, <1>6
<1> QED
  BY <1>5, <1>7 DEF KeptInv

\* A head slot that is ready holds what the next step announces, and nothing of
\* that step is on the wire.
LEMMA HeadAnnounced ==
  ASSUME BaseInv, KeptInv, fifo[HeadSlot][1].idx = fifoHead + 1
  PROVE  /\ fifoHead + 1 \in Steps /\ fifoHead + 1 <= fifoTail
         /\ call[fifoHead + 1].n \in 1..MaxRecvs
         /\ fifo[HeadSlot][1].nreqs = call[fifoHead + 1].n
         /\ HeadReady =>
              /\ \A w \in wire : w[1] # fifoHead + 1
              /\ \A r \in 1..call[fifoHead + 1].n :
                   fifo[HeadSlot][r] = Announced(fifoHead + 1, r)
<1> USE ConstantsOK
<1> DEFINE k == fifoHead + 1
<1>1. /\ fifoHead \in Nat /\ fifoTail \in Nat /\ k - 1 = fifoHead /\ k \in Nat
  BY DEF BaseInv, Ordered, AllShapes, RecvShape, SendShape
<1>2. k \in Steps /\ k <= fifoTail /\ 1 \in Lanes /\ Slot(fifoHead) \in Slots
  <2>1. 1 \in Lanes /\ Slot(fifoHead) \in Slots
    BY <1>1, SlotInSlots DEF Lanes
  <2>2. k <= fifoTail
    BY <2>1, <1>1 DEF HeadSlot, BaseInv, IdxInv
  <2> QED
    BY <2>1, <2>2, <1>1 DEF BaseInv, Ordered, Steps
<1>3. <<k, 1>> \notin wire
  BY <1>1 DEF KeptInv, WireInv, HeadSlot
<1>4. call[k].n \in 1..MaxRecvs /\ k \in fifoHead+1..fifoTail
  <2>1. call[k].n \in 1..MaxRecvs
    BY <1>2 DEF KeptInv, WireInv
  <2> QED
    BY <2>1, <1>1, <1>2
<1>5. fifo[HeadSlot][1].nreqs = call[k].n
  <2>1. 1 \in 1..call[k].n
    BY <1>4
  <2>2. fifo[Slot(k - 1)][1] = Announced(k, 1)
    BY <2>1, <1>3, <1>4 DEF KeptInv, AnnouncementKept
  <2> QED
    BY <2>2, <1>1 DEF Announced, HeadSlot
<1>6. ASSUME HeadReady, NEW w \in wire, w[1] = k PROVE FALSE
  <2>1. /\ w[2] \in Lanes /\ w[2] <= call[k].n
        /\ fifo[Slot(k - 1)][w[2]].idx # k
    BY <1>6 DEF KeptInv, WireInv, BaseInv, AllShapes, NetShape
  <2>2. w[2] # 1
    BY <2>1, <1>1 DEF HeadSlot
  <2>3. w[2] \in 2..call[k].n
    BY <2>1, <2>2, <1>4 DEF Lanes
  <2> QED
    BY <2>1, <2>3, <1>1, <1>5, <1>6 DEF HeadReady, HeadSlot
<1>7. ASSUME HeadReady, NEW r \in 1..call[k].n
      PROVE  fifo[HeadSlot][r] = Announced(k, r)
  <2>1. <<k, r>> \notin wire
    BY <1>6, <1>7
  <2> QED
    BY <2>1, <1>1, <1>4 DEF KeptInv, AnnouncementKept, HeadSlot
<1> QED
  BY <1>2, <1>4, <1>5, <1>6, <1>7

LEMMA IsendKept ==
  ASSUME BaseInv, KeptInv, NEW tag \in Tags, NEW size \in Sizes, NEW mem \in Mems,
         Isend(tag, size, mem)
  PROVE  KeptInv'
<1>1. /\ UNCHANGED <<elems, call, place, fifoTail, fifoHead, fifo, wire>>
      /\ HeadReady /\ spc = "idle"
      /\ sPosted' = sPosted \/ sPosted' = sPosted + 1
  BY DEF Isend, isendSame, recvVars, AcceptSend, MultiSend
<1>2. sPosted = fifoHead /\ fifoHead \in Nat
  BY <1>1 DEF BaseInv, Ordered, AllShapes, SendShape
<1>3. ASSUME NEW w \in wire PROVE sPosted' < w[1]
  <2>1. fifo[HeadSlot][1].idx = fifoHead + 1
    BY <1>1 DEF HeadReady
  <2>2. w[1] # fifoHead + 1
    BY <2>1, <1>1, HeadAnnounced
  <2>3. w[1] \in Nat /\ sPosted < w[1]
    BY DEF KeptInv, WireInv, BaseInv, AllShapes, NetShape, Steps
  <2> QED
    BY <2>2, <2>3, <1>1, <1>2
<1> QED
  BY <1>1, <1>3 DEF KeptInv, WireInv, AnnouncementKept, Announced

LEMMA InitKept == Init => KeptInv
<1> SUFFICES ASSUME Init PROVE KeptInv
  OBVIOUS
<1>1. fifoTail = 0 /\ fifoHead = 0 /\ wire = {}
  BY DEF Init
<1> QED
  BY <1>1 DEF KeptInv, WireInv, AnnouncementKept, Steps

LEMMA NextKept ==
  ASSUME Window < MaxRequests, BaseInv, BaseInv', KeptInv, [Next]_vars
  PROVE  KeptInv'
<1>1. ASSUME NEW n \in GroupSizes, NEW tags \in [1..n -> Tags],
             NEW sizes \in [1..n -> Sizes],
             NEW mems \in [1..n -> Mems], Irecv(n, tags, sizes, mems)
      PROVE  KeptInv'
  BY <1>1, IrecvKept
<1>2. ASSUME UNCHANGED keptVars PROVE KeptInv'
  BY <1>2 DEF keptVars, KeptInv, WireInv, AnnouncementKept, Announced
<1>3. ASSUME NEW k \in Steps, RecvTest(k) PROVE KeptInv'
  BY <1>2, <1>3
  DEF keptVars, RecvTest, RecvTestDone, RecvTestImm, RecvTestFifo, RecvTestError,
      recvTestSame, sendVars
<1>4. ASSUME NEW tag \in Tags, NEW size \in Sizes, NEW mem \in Mems,
             Isend(tag, size, mem)
      PROVE  KeptInv'
  BY <1>4, IsendKept
<1>5. ASSUME NEW q \in Pool, SendTest(q) PROVE KeptInv'
  BY <1>2, <1>5
  DEF keptVars, SendTest, SendTestDone, SendTestData, SendTestError, sendTestSame,
      recvVars
<1>6. ASSUME NEW k \in Steps, NEW r \in Lanes, FifoLand(k, r) PROVE KeptInv'
  BY <1>6, FifoLandKept
<1>7. ASSUME FifoAck \/ DataArrive \/ DataAck \/ LinkDown \/ UNCHANGED vars
      PROVE  KeptInv'
  BY <1>2, <1>7
  DEF keptVars, FifoAck, DataArrive, DataAck, LinkDown, netSame, vars, recvVars,
      sendVars
<1> QED
  BY <1>1, <1>3, <1>4, <1>5, <1>6, <1>7, IsendClearKept DEF Next

(***************************************************************************)
(* AnnouncementKept, for every ring larger than the caller's window: the   *)
(* receiver's reuse of a slot and the sender's late memset never destroy   *)
(* a receive that was announced and not consumed.                          *)
(***************************************************************************)
THEOREM AnnouncementsAlwaysKept ==
  ASSUME Window < MaxRequests
  PROVE  Spec => []AnnouncementKept
<1>1. Init => BaseInv /\ KeptInv
  BY InitBase, InitKept
<1>2. (BaseInv /\ KeptInv) /\ [Next]_vars => (BaseInv /\ KeptInv)'
  BY NextBase, NextKept
<1>3. BaseInv /\ KeptInv => AnnouncementKept
  BY DEF KeptInv
<1> QED
  BY <1>1, <1>2, <1>3, PTL DEF Spec
=============================================================================
