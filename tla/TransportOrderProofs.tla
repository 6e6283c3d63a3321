-------------------------- MODULE TransportOrderProofs --------------------------
(***************************************************************************)
(* Which send lands in which buffer of Transport: data arrives in order    *)
(* and is written once, and the transport implements the message channel.  *)
(***************************************************************************)
EXTENDS TransportSendProofs, TransportRefinement, FiniteSetTheorems

-----------------------------------------------------------------------------
(***************************************************************************)
(* The inductive invariant, part by part.                                  *)
(***************************************************************************)

\* The data is the send that buffer r of step k is entitled to.
Rightful(k, r, d) ==
  d.tag = call[k].tags[r] /\ d.num = Rank(k, r) /\ d.size <= call[k].sizes[r]

\* A send was accepted for buffer r of step k.
Matched(k, r) ==
  \/ k <= sPosted
  \/ k = HeadStep /\ spc = "idle" /\ fifoReqs[HeadSlot][r] # NoReq

MatchedOf(tag) ==
  {b \in Steps \X Lanes : /\ Matched(b[1], b[2]) /\ b[2] <= call[b[1]].n
                          /\ call[b[1]].tags[b[2]] = tag}

\* The sends accepted for a tag are as many as the buffers matched with it.
CountInv == \A tag \in Tags : sent[tag] = Cardinality(MatchedOf(tag))

\* The buffers of the head step are matched in the order of their tag.
HeadInv ==
  \A k \in Steps, r \in Lanes :
    k = HeadStep /\ spc = "idle" /\ fifoReqs[HeadSlot][r] # NoReq =>
      /\ Rightful(k, r, sreqs[fifoReqs[HeadSlot][r]].data)
      /\ \A i \in 1..r-1 : call[k].tags[i] = call[k].tags[r] =>
           fifoReqs[HeadSlot][i] # NoReq

\* A message that has not arrived carries what its buffers are entitled to.
CarryInv ==
  \A k \in Steps : dArrived < k /\ k <= sPosted =>
    \A r \in 1..call[k].n : Rightful(k, r, msg[k].data[r])

\* A buffer is written when its message arrives, and with the right data.
BufInv ==
  \A k \in Steps, r \in Lanes : buf[<<k, r>>] # NoData =>
    k <= dArrived /\ r <= call[k].n /\ Rightful(k, r, buf[<<k, r>>])

OrderInv == CountInv /\ HeadInv /\ CarryInv /\ BufInv

\* A step reported done is not held any more.
ReportInv == \A k \in Steps : result[k] # <<>> => held[k] = NoReq

-----------------------------------------------------------------------------
LEMMA Cursors ==
  ASSUME RingInv
  PROVE  /\ fifoTail \in Nat /\ fifoHead \in Nat /\ sPosted \in Nat
         /\ dArrived \in Nat /\ dPolled \in Nat /\ sPolled \in Nat /\ sAcked \in Nat
         /\ sPolled <= sAcked /\ sAcked <= dArrived /\ dPolled <= dArrived
         /\ dArrived <= sPosted /\ sPosted <= fifoTail /\ fifoTail <= MaxSteps
         /\ sPosted = IF spc = "clear" THEN fifoHead + 1 ELSE fifoHead
         /\ MaxSteps \in Nat /\ fifoTail = rqPosted
BY ConstantsOK DEF RingInv, BaseInv, Ordered, AllShapes, RecvShape, SendShape, NetShape

LEMMA GroupFits ==
  ASSUME RingInv, NEW k \in Steps, k <= fifoTail
  PROVE  call[k].n \in 1..MaxRecvs /\ 1..call[k].n \subseteq Lanes
<1>1. call[k].n \in GroupSizes
  BY DEF RingInv, KeptInv, WireInv
<1>2. call[k].n \in 1..MaxRecvs
  BY <1>1, ConstantsOK
<1> QED
  BY <1>2, ConstantsOK DEF Lanes

LEMMA BoxFinite ==
  ASSUME NEW n \in Nat PROVE IsFiniteSet((1..n) \X Lanes)
<1>1. IsFiniteSet(1..n)
  BY FS_Interval
<1>2. IsFiniteSet(Lanes)
  BY FS_Interval, ConstantsOK DEF Lanes
<1> QED
  BY <1>1, <1>2, FS_Product

\* The buffers that Rank(k, r) counts.
UpTo(k, r) ==
  {b \in (1..k) \X Lanes :
    /\ b[1] < k \/ b[2] <= r
    /\ b[2] <= call[b[1]].n /\ call[b[1]].tags[b[2]] = call[k].tags[r]}

LEMMA RankIsUpTo == \A k, r : Rank(k, r) = Cardinality(UpTo(k, r))
BY DEF Rank, UpTo

LEMMA MatchedFinite == \A tag : IsFiniteSet(MatchedOf(tag))
<1>1. IsFiniteSet(Steps \X Lanes)
  BY BoxFinite, ConstantsOK DEF Steps
<1> QED
  BY <1>1, FS_Subset DEF MatchedOf

\* The rank of a buffer depends on the receives up to its own.
LEMMA RankKept ==
  ASSUME NEW k \in Steps, NEW r,
         \A j \in Steps : j <= k => call'[j] = call[j]
  PROVE  Rank(k, r)' = Rank(k, r)
<1>1. ASSUME NEW b \in (1..k) \X Lanes PROVE call'[b[1]] = call[b[1]]
  <2>1. b[1] \in 1..k
    OBVIOUS
  <2>2. b[1] \in Steps /\ b[1] <= k
    BY <2>1, ConstantsOK DEF Steps
  <2> QED
    BY <2>2
<1>2. call'[k] = call[k]
  BY DEF Steps
<1>3. UpTo(k, r)' = UpTo(k, r)
  BY <1>1, <1>2 DEF UpTo
<1>4. Rank(k, r)' = Cardinality(UpTo(k, r)')
  BY DEF Rank, UpTo
<1> QED
  BY <1>3, <1>4, RankIsUpTo

-----------------------------------------------------------------------------
orderVars == <<call, sent, sPosted, spc, fifoReqs, fifoHead, sreqs, dArrived, msg, buf>>

LEMMA OrderSame == OrderInv /\ UNCHANGED orderVars => OrderInv'
<1> SUFFICES ASSUME OrderInv, UNCHANGED orderVars PROVE OrderInv'
  OBVIOUS
<1>1. \A k, r : Rank(k, r)' = Rank(k, r)
  BY DEF orderVars, Rank
<1>2. HeadSlot' = HeadSlot /\ HeadStep' = HeadStep
  BY DEF orderVars, HeadSlot, HeadStep, Slot
<1>3. \A tag : MatchedOf(tag)' = MatchedOf(tag)
  BY <1>2 DEF orderVars, MatchedOf, Matched
<1>4. CountInv'
  BY <1>3 DEF OrderInv, CountInv, orderVars
<1>5. HeadInv'
  BY <1>1, <1>2 DEF OrderInv, HeadInv, Rightful, orderVars
<1>6. CarryInv' /\ BufInv'
  BY <1>1 DEF OrderInv, CarryInv, BufInv, Rightful, orderVars
<1> QED
  BY <1>4, <1>5, <1>6 DEF OrderInv

\* A matched buffer of the head step belongs to an announced receive.
LEMMA MatchedOpen ==
  ASSUME RingInv, SendInv, NEW k \in Steps, NEW r \in Lanes, Matched(k, r)
  PROVE  k <= fifoTail
<1>1. CASE k <= sPosted
  BY <1>1, Cursors DEF Steps
<1>2. CASE k = HeadStep /\ spc = "idle" /\ fifoReqs[HeadSlot][r] # NoReq
  <2>1. Id(k, r) # NoReq
    BY <1>2 DEF Id, HeadStep
  <2> QED
    BY <2>1, IdOpen
<1> QED
  BY <1>1, <1>2 DEF Matched

LEMMA IrecvOrder ==
  ASSUME RingInv, SendInv, OrderInv, NEW n \in GroupSizes, NEW tags \in [1..n -> Tags],
         NEW sizes \in [1..n -> Sizes],
         NEW mems \in [1..n -> Mems], Irecv(n, tags, sizes, mems)
  PROVE  OrderInv'
<1> DEFINE t == fifoTail + 1
<1>1. /\ UNCHANGED <<sreqs, sent, fifoReqs, spc, fifoHead, msg, sPosted, dArrived, buf>>
      /\ call' = [call EXCEPT ![t] = [n |-> n, tags |-> tags, sizes |-> sizes]]
  BY DEF Irecv, sendVars
<1>2. \A k \in Steps : k <= fifoTail => call'[k] = call[k]
  <2>1. \A k \in Steps : k <= fifoTail => k # t
    BY Cursors DEF Steps
  <2> QED
    BY <1>1, <2>1 DEF RingInv, BaseInv, AllShapes, RecvShape
<1>3. ASSUME NEW k \in Steps, k <= fifoTail, NEW r PROVE Rank(k, r)' = Rank(k, r)
  <2>1. \A j \in Steps : j <= k => j <= fifoTail
    BY <1>3, Cursors DEF Steps
  <2> QED
    BY <2>1, <1>2, RankKept
<1>4. HeadSlot' = HeadSlot /\ HeadStep' = HeadStep
  BY <1>1 DEF HeadSlot, HeadStep, Slot
<1>5. ASSUME NEW tag PROVE MatchedOf(tag)' = MatchedOf(tag)
  <2>1. \A k \in Steps, r \in Lanes : Matched(k, r)' <=> Matched(k, r)
    BY <1>1, <1>4 DEF Matched
  <2>2. \A k \in Steps, r \in Lanes : Matched(k, r) => call'[k] = call[k]
    BY <1>2, MatchedOpen
  <2>3. \A b \in Steps \X Lanes : b[1] \in Steps /\ b[2] \in Lanes
    OBVIOUS
  <2> QED
    BY <2>1, <2>2, <2>3 DEF MatchedOf
<1>6. CountInv'
  BY <1>1, <1>5 DEF OrderInv, CountInv
<1>7. HeadInv'
  <2>1. \A k \in Steps, r \in Lanes :
          k = HeadStep /\ spc = "idle" /\ fifoReqs[HeadSlot][r] # NoReq => k <= fifoTail
    BY MatchedOpen DEF Matched
  <2>2. ASSUME NEW k \in Steps, NEW r \in Lanes,
               k = HeadStep /\ spc = "idle" /\ fifoReqs[HeadSlot][r] # NoReq
        PROVE  /\ Rightful(k, r, sreqs[fifoReqs[HeadSlot][r]].data)'
               /\ \A i \in 1..r-1 : call'[k].tags[i] = call'[k].tags[r] =>
                    fifoReqs[HeadSlot][i] # NoReq
    <3>1. call'[k] = call[k] /\ Rank(k, r)' = Rank(k, r)
      BY <2>1, <2>2, <1>2, <1>3
    <3>2. /\ Rightful(k, r, sreqs[fifoReqs[HeadSlot][r]].data)
          /\ \A i \in 1..r-1 : call[k].tags[i] = call[k].tags[r] =>
               fifoReqs[HeadSlot][i] # NoReq
      BY <2>2 DEF OrderInv, HeadInv
    <3> QED
      BY <3>1, <3>2, <1>1, <1>4 DEF Rightful
  <2> QED
    BY <1>1, <1>4, <2>2 DEF HeadInv
<1>8. CarryInv'
  <2>1. \A k \in Steps : k <= sPosted => k <= fifoTail
    BY Cursors DEF Steps
  <2>2. ASSUME NEW k \in Steps, dArrived < k, k <= sPosted, NEW r \in 1..call'[k].n
        PROVE  Rightful(k, r, msg[k].data[r])'
    <3>1. call'[k] = call[k] /\ Rank(k, r)' = Rank(k, r)
      BY <2>1, <2>2, <1>2, <1>3
    <3>2. Rightful(k, r, msg[k].data[r])
      BY <2>2, <3>1 DEF OrderInv, CarryInv
    <3> QED
      BY <3>1, <3>2, <1>1 DEF Rightful
  <2> QED
    BY <1>1, <2>2 DEF CarryInv
<1>9. BufInv'
  <2>1. \A k \in Steps : k <= dArrived => k <= fifoTail
    BY Cursors DEF Steps
  <2>2. ASSUME NEW k \in Steps, NEW r \in Lanes, buf[<<k, r>>] # NoData
        PROVE  k <= dArrived /\ r <= call'[k].n /\ Rightful(k, r, buf[<<k, r>>])'
    <3>1. k <= dArrived /\ r <= call[k].n /\ Rightful(k, r, buf[<<k, r>>])
      BY <2>2 DEF OrderInv, BufInv
    <3>2. call'[k] = call[k] /\ Rank(k, r)' = Rank(k, r)
      BY <2>1, <3>1, <1>2, <1>3
    <3> QED
      BY <3>1, <3>2, <1>1 DEF Rightful
  <2> QED
    BY <1>1, <2>2 DEF BufInv
<1> QED
  BY <1>6, <1>7, <1>8, <1>9 DEF OrderInv

LEMMA IsendClearOrder ==
  ASSUME RingInv, SendInv, OrderInv, IsendClear
  PROVE  OrderInv'
<1>1. /\ UNCHANGED <<sreqs, sent, msg, call, sPosted, dArrived, buf>>
      /\ spc = "clear" /\ spc' = "idle" /\ fifoHead' = fifoHead + 1
      /\ fifoReqs' = [fifoReqs EXCEPT ![HeadSlot] = [r \in Lanes |-> NoReq]]
  BY DEF IsendClear, recvVars
<1>2. \A s \in Slots, r \in Lanes : fifoReqs'[s][r] = NoReq
  <2>1. HeadSlot \in Slots
    BY SlotInSlots, Cursors DEF HeadSlot
  <2> QED
    BY <1>1, <2>1 DEF RingInv, BaseInv, AllShapes, SendShape, SendInv, RowInv
<1>3. HeadSlot' \in Slots
  BY <1>1, Cursors, SlotInSlots DEF HeadSlot, Slot, Slots
<1>4. \A k, r : Rank(k, r)' = Rank(k, r)
  BY <1>1 DEF Rank
<1>5. \A k \in Steps, r \in Lanes : Matched(k, r)' <=> Matched(k, r)
  BY <1>1, <1>2, <1>3 DEF Matched
<1>6. CountInv'
  <2>1. \A tag : MatchedOf(tag)' = MatchedOf(tag)
    BY <1>1, <1>5 DEF MatchedOf
  <2> QED
    BY <1>1, <2>1 DEF OrderInv, CountInv
<1>7. HeadInv'
  BY <1>2, <1>3 DEF HeadInv
<1>8. CarryInv' /\ BufInv'
  BY <1>1, <1>4 DEF OrderInv, CarryInv, BufInv, Rightful
<1> QED
  BY <1>6, <1>7, <1>8 DEF OrderInv

\* ncclIbTest of the sender frees requests that nothing names, and forgets
\* messages that have arrived.
LEMMA SendTestOrder ==
  ASSUME RingInv, SendInv, SendInv', OrderInv, NEW q \in Pool, SendTest(q)
  PROVE  OrderInv'
<1>1. /\ UNCHANGED <<fifoReqs, fifoHead, call, spc, sent, sPosted, dArrived, buf>>
      /\ sPolled < sAcked \/ UNCHANGED msg
      /\ UNCHANGED msg \/ msg' = [msg EXCEPT ![sPolled + 1] = NoMsg]
  BY DEF SendTest, SendTestDone, SendTestData, SendTestError, sendTestSame, recvVars
<1>2. \A p \in Pool : sreqs'[p].data = sreqs[p].data \/ sreqs'[p].data = NoData
  <2>1. sreqs \in [Pool -> SendReqs]
    BY DEF RingInv, BaseInv, AllShapes, SendShape
  <2>2. ASSUME NEW reqs \in [Pool -> SendReqs], ReturnSendTest(q, reqs),
               \A p \in Pool : reqs[p].data = sreqs[p].data
        PROVE  \A p \in Pool : sreqs'[p].data = sreqs[p].data \/ sreqs'[p].data = NoData
    <3>1. CASE sreqs' = reqs
      BY <3>1, <2>2
    <3>2. CASE sreqs' = [reqs EXCEPT ![q].type = "unused", ![q].data = NoData]
      <4>1. \A p \in Pool : p # q => sreqs'[p] = reqs[p]
        BY <3>2, <2>2
      <4>2. sreqs'[q] = [reqs[q] EXCEPT !.type = "unused", !.data = NoData]
        BY <3>2, <2>2
      <4>3. sreqs'[q].data = NoData
        BY <4>2, <2>2 DEF SendReqs
      <4> QED
        BY <4>1, <4>3, <2>2
    <3> QED
      BY <3>1, <3>2, <2>2 DEF ReturnSendTest
  <2>3. CASE SendTestDone(q)
    BY <2>1, <2>2, <2>3 DEF SendTestDone
  <2>4. CASE SendTestData(q)
    <3> DEFINE wr == msg[sPolled + 1].wr
               reqs == CompleteSends(sreqs, wr)
    <3>1. ReturnSendTest(q, reqs)
      BY <2>4 DEF SendTestData
    <3>2. ASSUME NEW p \in Pool
          PROVE  reqs[p] \in SendReqs /\ reqs[p].data = sreqs[p].data
      <4>1. reqs[p] = sreqs[p] \/ reqs[p] = [sreqs[p] EXCEPT !.events = @ - 1]
        BY DEF CompleteSends
      <4>2. sreqs[p] \in SendReqs
        BY <2>1
      <4> QED
        BY <4>1, <4>2 DEF SendReqs
    <3>3. reqs \in [Pool -> SendReqs]
      <4>1. reqs = [p \in Pool |-> reqs[p]]
        BY DEF CompleteSends
      <4> HIDE DEF reqs
      <4> QED
        BY <4>1, <3>2
    <3> QED
      BY <2>2, <3>1, <3>2, <3>3
  <2>5. CASE SendTestError(q)
    BY <2>5 DEF SendTestError
  <2> QED
    BY <2>3, <2>4, <2>5 DEF SendTest
<1>3. HeadSlot' = HeadSlot /\ HeadStep' = HeadStep
  BY <1>1 DEF HeadSlot, HeadStep, Slot
<1>4. \A k, r : Rank(k, r)' = Rank(k, r)
  BY <1>1 DEF Rank
<1>5. CountInv'
  <2>1. \A tag : MatchedOf(tag)' = MatchedOf(tag)
    BY <1>1, <1>3 DEF MatchedOf, Matched
  <2> QED
    BY <1>1, <2>1 DEF OrderInv, CountInv
<1>6. HeadInv'
  <2>1. ASSUME NEW k \in Steps, NEW r \in Lanes,
               k = HeadStep /\ spc = "idle" /\ fifoReqs[HeadSlot][r] # NoReq
        PROVE  sreqs'[fifoReqs[HeadSlot][r]].data = sreqs[fifoReqs[HeadSlot][r]].data
    <3>1. Id(k, r)' = fifoReqs[HeadSlot][r] /\ Id(k, r) = fifoReqs[HeadSlot][r]
      BY <2>1, <1>1, <1>3 DEF Id, HeadStep
    <3>2. sreqs'[fifoReqs[HeadSlot][r]].data # NoData
      BY <3>1, <2>1 DEF SendInv, IdInv
    <3>3. fifoReqs[HeadSlot][r] \in Pool
      BY <3>1, <2>1, IdType DEF RingInv, BaseInv
    <3> QED
      BY <3>2, <3>3, <1>2
  <2> QED
    BY <2>1, <1>1, <1>3, <1>4 DEF OrderInv, HeadInv, Rightful
<1>7. CarryInv'
  <2>1. ASSUME NEW k \in Steps, dArrived < k PROVE msg'[k] = msg[k]
    <3>1. CASE UNCHANGED msg
      BY <3>1
    <3>2. CASE ~UNCHANGED msg
      <4>1. k # sPolled + 1
        BY <2>1, <3>2, <1>1, Cursors DEF Steps
      <4> QED
        BY <4>1, <1>1 DEF RingInv, BaseInv, AllShapes, SendShape
    <3> QED
      BY <3>1, <3>2
  <2> QED
    BY <2>1, <1>1, <1>4 DEF OrderInv, CarryInv, Rightful
<1>8. BufInv'
  BY <1>1, <1>4 DEF OrderInv, BufInv, Rightful
<1> QED
  BY <1>5, <1>6, <1>7, <1>8 DEF OrderInv

\* What the arrival of a message does: it fills the buffers of its own step.
LEMMA ArrivalFills ==
  ASSUME RingInv, SendInv, DataArrive, NEW k, k = dArrived + 1
  PROVE  /\ k \in Steps /\ k <= sPosted /\ k <= fifoTail /\ dArrived' = k
         /\ \A j \in Steps, r \in Lanes :
              buf'[<<j, r>>] = IF j = k /\ r <= call[k].n
                               THEN msg[k].data[r] ELSE buf[<<j, r>>]
         /\ UNCHANGED <<recvVars, sendVars>>
<1> DEFINE m == msg[k]
<1>1. /\ dArrived < sPosted /\ dArrived' = k
      /\ buf' = [b \in Steps \X Lanes |->
           IF b[2] <= m.n /\ Target(m, b[2]) = b[1] THEN m.data[b[2]] ELSE buf[b]]
      /\ UNCHANGED <<recvVars, sendVars>>
  BY DEF DataArrive, netSame
<1>2. k \in Steps /\ sPolled < k /\ k <= sPosted /\ k <= fifoTail
  BY <1>1, Cursors DEF Steps
<1>3. m.n = call[k].n /\ \A r \in 1..call[k].n : Target(m, r) = k
  BY <1>2, ArrivesHome
<1>4. ASSUME NEW j \in Steps, NEW r \in Lanes
      PROVE  buf'[<<j, r>>] = IF j = k /\ r <= call[k].n
                              THEN m.data[r] ELSE buf[<<j, r>>]
  <2>1. buf'[<<j, r>>] = IF r <= m.n /\ Target(m, r) = j THEN m.data[r] ELSE buf[<<j, r>>]
    BY <1>1
  <2>2. r <= call[k].n => r \in 1..call[k].n
    BY <1>2, GroupFits, ConstantsOK DEF Lanes
  <2> QED
    BY <1>3, <2>1, <2>2
<1> QED
  BY <1>1, <1>2, <1>4

LEMMA DataArriveOrder ==
  ASSUME RingInv, SendInv, OrderInv, DataArrive
  PROVE  OrderInv'
<1>k. PICK k : k = dArrived + 1
  OBVIOUS
<1>1. /\ k \in Steps /\ k <= sPosted /\ k <= fifoTail /\ dArrived' = k
      /\ UNCHANGED <<recvVars, sendVars>>
  BY <1>k, ArrivalFills
<1>2. \A j \in Steps, r \in Lanes :
        buf'[<<j, r>>] = IF j = k /\ r <= call[k].n
                         THEN msg[k].data[r] ELSE buf[<<j, r>>]
  BY <1>k, ArrivalFills
<1>3. UNCHANGED <<call, sent, sPosted, spc, fifoReqs, fifoHead, sreqs, msg>>
  BY <1>1 DEF recvVars, sendVars
<1>4. \A j, r : Rank(j, r)' = Rank(j, r)
  BY <1>3 DEF Rank
<1>5. HeadSlot' = HeadSlot /\ HeadStep' = HeadStep
  BY <1>3 DEF HeadSlot, HeadStep, Slot
<1>6. CountInv'
  <2>1. \A tag : MatchedOf(tag)' = MatchedOf(tag)
    BY <1>3, <1>5 DEF MatchedOf, Matched
  <2> QED
    BY <1>3, <2>1 DEF OrderInv, CountInv
<1>7. HeadInv'
  BY <1>3, <1>4, <1>5 DEF OrderInv, HeadInv, Rightful
<1>8. CarryInv'
  <2>1. \A j \in Steps : dArrived' < j => dArrived < j
    BY <1>1, <1>k, Cursors DEF Steps
  <2> QED
    BY <2>1, <1>3, <1>4 DEF OrderInv, CarryInv, Rightful
<1>9. BufInv'
  <2>1. ASSUME NEW j \in Steps, NEW r \in Lanes, buf'[<<j, r>>] # NoData
        PROVE  /\ j <= dArrived' /\ r <= call'[j].n
               /\ Rightful(j, r, buf[<<j, r>>])'
    <3>1. CASE j = k /\ r <= call[k].n
      <4>1. buf'[<<j, r>>] = msg[k].data[r]
        BY <3>1, <1>2
      <4>2. r \in 1..call[k].n /\ dArrived < k
        BY <3>1, <1>1, <1>k, GroupFits, Cursors, ConstantsOK DEF Lanes
      <4>3. Rightful(k, r, msg[k].data[r])
        BY <4>2, <1>1 DEF OrderInv, CarryInv
      <4> QED
        BY <3>1, <4>1, <4>3, <1>1, <1>3, <1>4 DEF Rightful, Steps
    <3>2. CASE ~(j = k /\ r <= call[k].n)
      <4>1. buf'[<<j, r>>] = buf[<<j, r>>]
        BY <3>2, <1>2
      <4>2. j <= dArrived /\ r <= call[j].n /\ Rightful(j, r, buf[<<j, r>>])
        BY <2>1, <4>1 DEF OrderInv, BufInv
      <4>3. j <= dArrived'
        BY <4>2, <1>1, <1>k, Cursors DEF Steps
      <4> QED
        BY <4>1, <4>2, <4>3, <1>3, <1>4 DEF Rightful
    <3> QED
      BY <3>1, <3>2
  <2> QED
    BY <2>1 DEF BufInv
<1> QED
  BY <1>6, <1>7, <1>8, <1>9 DEF OrderInv

-----------------------------------------------------------------------------
(***************************************************************************)
(* ncclIbIsend: the buffer matched is the next one of its tag.             *)
(***************************************************************************)

\* The buffers matched with the tag, and the one being matched, are those up
\* to it.
LEMMA MatchedIsUpTo ==
  ASSUME RingInv, SendInv, OrderInv, spc = "idle", HeadStep \in Steps,
         NEW tag, NEW size, NEW r \in Lanes, r <= HeadCount,
         Entitled(r, tag, size), fifoReqs[HeadSlot][r] = NoReq
  PROVE  /\ UpTo(HeadStep, r) = MatchedOf(tag) \cup {<<HeadStep, r>>}
         /\ <<HeadStep, r>> \notin MatchedOf(tag)
<1>h. PICK h \in Steps : h = HeadStep
  OBVIOUS
<1>1. sPosted = h - 1 /\ sPosted \in Nat /\ MaxSteps \in Nat
  BY <1>h, Cursors DEF HeadStep
<1>2. \A k \in Steps : k <= sPosted <=> k < h
  BY <1>1 DEF Steps
<1>3. \A k \in Steps, i \in Lanes :
        Matched(k, i) <=> k < h \/ (k = h /\ fifoReqs[HeadSlot][i] # NoReq)
  BY <1>2, <1>h DEF Matched
<1>4. /\ call[h].tags[r] = tag /\ r <= call[h].n
      /\ \A i \in 1..r-1 : call[h].tags[i] = tag => fifoReqs[HeadSlot][i] # NoReq
  BY <1>h DEF Entitled, HeadCount
<1>5. \A i \in Lanes : fifoReqs[HeadSlot][i] # NoReq /\ call[h].tags[i] = tag => i <= r
  <2>1. SUFFICES ASSUME NEW i \in Lanes, fifoReqs[HeadSlot][i] # NoReq,
                        call[h].tags[i] = tag, ~(i <= r)
                 PROVE  FALSE
    OBVIOUS
  <2>2. r \in 1..i-1
    BY <2>1, ConstantsOK DEF Lanes
  <2>3. fifoReqs[HeadSlot][r] # NoReq
    BY <2>1, <2>2, <1>4, <1>h DEF OrderInv, HeadInv
  <2> QED
    BY <2>3
<1>6. ASSUME NEW k \in Steps, NEW i \in Lanes
      PROVE  <<k, i>> \in UpTo(h, r) <=> <<k, i>> \in MatchedOf(tag) \/ (k = h /\ i = r)
  <2>1. <<k, i>> \in UpTo(h, r) <=>
          /\ k < h \/ (k = h /\ i <= r)
          /\ i <= call[k].n /\ call[k].tags[i] = tag
    <3>1. <<k, i>> \in UpTo(h, r) <=>
            /\ k \in 1..h /\ (k < h \/ i <= r)
            /\ i <= call[k].n /\ call[k].tags[i] = tag
      BY <1>4 DEF UpTo
    <3>2. k \in 1..h /\ (k < h \/ i <= r) <=> k < h \/ (k = h /\ i <= r)
      BY <1>1 DEF Steps
    <3> QED
      BY <3>1, <3>2
  <2>2. <<k, i>> \in MatchedOf(tag) <=>
          /\ k < h \/ (k = h /\ fifoReqs[HeadSlot][i] # NoReq)
          /\ i <= call[k].n /\ call[k].tags[i] = tag
    BY <1>3 DEF MatchedOf
  <2>3. ASSUME k = h, i <= r, i # r PROVE i \in 1..r-1
    BY <2>3, ConstantsOK DEF Lanes
  <2>4. CASE k = h
    <3>1. ~(k < h) /\ (i = r => i <= r)
      BY <2>4, ConstantsOK DEF Steps, Lanes
    <3>2. CASE i = r
      BY <3>1, <3>2, <2>1, <2>4, <1>4
    <3>3. CASE i # r
      BY <3>1, <3>3, <2>1, <2>2, <2>3, <2>4, <1>4, <1>5
    <3> QED
      BY <3>2, <3>3
  <2>5. CASE k # h
    BY <2>1, <2>2, <2>5
  <2> QED
    BY <2>4, <2>5
<1>7. UpTo(h, r) \subseteq Steps \X Lanes
  <2>1. 1..h \subseteq Steps
    BY <1>1 DEF Steps
  <2> QED
    BY <2>1 DEF UpTo
<1>8. MatchedOf(tag) \subseteq Steps \X Lanes
  BY DEF MatchedOf
<1>9. <<h, r>> \notin MatchedOf(tag)
  <2>1. ~Matched(h, r)
    BY <1>3, <1>1 DEF Steps
  <2> QED
    BY <2>1 DEF MatchedOf
<1>10. UpTo(h, r) = MatchedOf(tag) \cup {<<h, r>>}
  <2> HIDE DEF UpTo, MatchedOf
  <2>1. ASSUME NEW b \in Steps \X Lanes
        PROVE  b \in UpTo(h, r) <=> b \in MatchedOf(tag) \cup {<<h, r>>}
    <3>1. PICK k \in Steps, i \in Lanes : b = <<k, i>>
      BY <2>1
    <3> QED
      BY <3>1, <1>6
  <2> QED
    BY <2>1, <1>7, <1>8
<1> QED
  BY <1>9, <1>10, <1>h

LEMMA AcceptRank ==
  ASSUME RingInv, SendInv, OrderInv, spc = "idle", HeadStep \in Steps,
         NEW tag \in Tags, NEW size, NEW r \in Lanes, r <= HeadCount,
         Entitled(r, tag, size), fifoReqs[HeadSlot][r] = NoReq
  PROVE  /\ Rank(HeadStep, r) = sent[tag] + 1
         /\ Cardinality(MatchedOf(tag) \cup {<<HeadStep, r>>}) = sent[tag] + 1
<1>1. /\ UpTo(HeadStep, r) = MatchedOf(tag) \cup {<<HeadStep, r>>}
      /\ <<HeadStep, r>> \notin MatchedOf(tag)
  BY MatchedIsUpTo
<1>2. Cardinality(MatchedOf(tag) \cup {<<HeadStep, r>>}) = Cardinality(MatchedOf(tag)) + 1
  BY <1>1, MatchedFinite, FS_AddElement
<1>3. sent[tag] = Cardinality(MatchedOf(tag))
  BY DEF OrderInv, CountInv
<1> QED
  BY <1>1, <1>2, <1>3, RankIsUpTo

LEMMA TakesMatched ==
  ASSUME RingInv, SendInv, spc = "idle", UNCHANGED <<fifoHead, call>>,
         HeadStep \in Steps, HeadCount \in 1..MaxRecvs,
         NEW q \in Pool, NEW r \in 1..HeadCount, NEW mem, NEW data,
         Takes(q, r, mem, data)
  PROVE  \A k \in Steps, i \in Lanes : i <= call[k].n =>
           (Matched(k, i)' <=> Matched(k, i) \/ (k = HeadStep /\ i = r))
<1>1. HeadSlot' = HeadSlot /\ HeadStep' = HeadStep /\ HeadSlot \in Slots
  BY SlotInSlots, Cursors DEF HeadSlot, HeadStep, Slot
<1>2. sPosted = fifoHead /\ fifoHead \in Nat
  BY Cursors
<1>3. /\ \A i \in Lanes : i # r => fifoReqs'[HeadSlot][i] = fifoReqs[HeadSlot][i]
      /\ fifoReqs'[HeadSlot][r] # NoReq
  <2>1. r \in Lanes /\ q # NoReq
    BY ConstantsOK DEF Lanes, Pool, NoReq
  <2> QED
    BY <1>1, <2>1, TakesIds DEF Takes, RingInv, BaseInv, AllShapes, SendShape
<1>4. CASE UNCHANGED <<msg, sPosted, spc>>
  BY <1>1, <1>3, <1>4, ConstantsOK DEF Matched, Lanes
<1>5. CASE PostsHead
  <2> SUFFICES ASSUME NEW k \in Steps, NEW i \in Lanes, i <= call[k].n
               PROVE  Matched(k, i)' <=> Matched(k, i) \/ (k = HeadStep /\ i = r)
    OBVIOUS
  <2>1. sPosted' = HeadStep /\ spc' = "clear"
    BY <1>5 DEF PostsHead
  <2>2. Matched(k, i)' <=> k <= HeadStep
    BY <2>1 DEF Matched
  <2>3. k <= HeadStep <=> k <= sPosted \/ k = HeadStep
    BY <1>2 DEF HeadStep, Steps
  <2>4. ASSUME k = HeadStep, i # r PROVE fifoReqs[HeadSlot][i] # NoReq
    <3>1. i \in 1..HeadCount
      BY <2>4, ConstantsOK DEF HeadCount, Lanes
    <3> QED
      BY <3>1, <2>4, <1>3, <1>5 DEF PostsHead
  <2> QED
    BY <2>2, <2>3, <2>4 DEF Matched
<1> QED
  BY <1>4, <1>5 DEF Takes

LEMMA AcceptOrder ==
  ASSUME RingInv, SendInv, OrderInv, NEW tag \in Tags, NEW size \in Sizes, NEW mem \in Mems,
         Isend(tag, size, mem), UNCHANGED serr
  PROVE  OrderInv'
<1>1. /\ UNCHANGED <<fifoHead, call, dArrived, buf>> /\ spc = "idle"
  BY DEF Isend, isendSame, recvVars
<1>2. /\ HeadStep \in Steps /\ HeadCount \in 1..MaxRecvs
      /\ sent' = [sent EXCEPT ![tag] = @ + 1]
  BY AcceptTakes
<1> DEFINE data == NextSent(tag, size)
<1>3. PICK r \in 1..HeadCount, q \in Pool : Entitled(r, tag, size) /\ Takes(q, r, mem, data)
  BY AcceptTakes
<1>4. r \in Lanes /\ r <= HeadCount /\ q # NoReq
  BY ConstantsOK, <1>2 DEF Lanes, Pool, NoReq
<1>5. HeadSlot' = HeadSlot /\ HeadStep' = HeadStep /\ HeadSlot \in Slots
  BY <1>1, SlotInSlots, Cursors DEF HeadSlot, HeadStep, Slot
<1>6. fifoReqs[HeadSlot][r] = NoReq /\ sreqs[q].type = "unused"
  BY <1>3 DEF Takes
<1>7. \A k, i : Rank(k, i)' = Rank(k, i)
  BY <1>1 DEF Rank
<1>8. /\ fifoReqs'[HeadSlot][r] = q
      /\ \A i \in Lanes : i # r => fifoReqs'[HeadSlot][i] = fifoReqs[HeadSlot][i]
      /\ \A k \in Steps : k # HeadStep => msg'[k] = msg[k]
  <2>1. fifoReqs'[HeadSlot][r] = q
    BY <1>3, <1>4, <1>5 DEF Takes, RingInv, BaseInv, AllShapes, SendShape
  <2> QED
    BY <2>1, <1>1, <1>2, <1>3, <1>5, TakesIds
<1>9. CountInv'
  <2>1. MatchedOf(tag)' = MatchedOf(tag) \cup {<<HeadStep, r>>}
    <3>1. \A k \in Steps, i \in Lanes : i <= call[k].n =>
            (Matched(k, i)' <=> Matched(k, i) \/ (k = HeadStep /\ i = r))
      BY <1>1, <1>2, <1>3, TakesMatched
    <3>2. r <= call[HeadStep].n /\ call[HeadStep].tags[r] = tag
      BY <1>3, <1>4 DEF Entitled, HeadCount
    <3>3. ASSUME NEW k \in Steps, NEW i \in Lanes
          PROVE  <<k, i>> \in MatchedOf(tag)' <=>
                   <<k, i>> \in MatchedOf(tag) \/ (k = HeadStep /\ i = r)
      BY <3>1, <3>2, <1>1 DEF MatchedOf
    <3>4. MatchedOf(tag) \subseteq Steps \X Lanes /\ MatchedOf(tag)' \subseteq Steps \X Lanes
      BY DEF MatchedOf
    <3> QED
      <4>1. ASSUME NEW b \in Steps \X Lanes
            PROVE  b \in MatchedOf(tag)' <=> b \in MatchedOf(tag) \cup {<<HeadStep, r>>}
        <5>1. PICK k \in Steps, i \in Lanes : b = <<k, i>>
          BY <4>1
        <5> QED
          BY <5>1, <3>3
      <4> QED
        BY <4>1, <3>4, <1>2, <1>4
  <2>2. ASSUME NEW other \in Tags, other # tag PROVE MatchedOf(other)' = MatchedOf(other)
    <3>1. \A k \in Steps, i \in Lanes : i <= call[k].n =>
            (Matched(k, i)' <=> Matched(k, i) \/ (k = HeadStep /\ i = r))
      BY <1>1, <1>2, <1>3, TakesMatched
    <3>2. call[HeadStep].tags[r] # other
      BY <1>3, <2>2 DEF Entitled
    <3>3. \A b \in Steps \X Lanes : b[1] \in Steps /\ b[2] \in Lanes
      OBVIOUS
    <3> QED
      BY <3>1, <3>2, <3>3, <1>1 DEF MatchedOf
  <2>3. sent'[tag] = Cardinality(MatchedOf(tag)')
    <3>1. Cardinality(MatchedOf(tag) \cup {<<HeadStep, r>>}) = sent[tag] + 1
      BY <1>1, <1>2, <1>3, <1>4, <1>6, AcceptRank
    <3> QED
      BY <3>1, <2>1, <1>2 DEF RingInv, BaseInv, AllShapes, SendShape
  <2>4. ASSUME NEW other \in Tags, other # tag
        PROVE  sent'[other] = Cardinality(MatchedOf(other)')
    <3>1. sent'[other] = sent[other]
      BY <2>4, <1>2 DEF RingInv, BaseInv, AllShapes, SendShape
    <3> QED
      BY <3>1, <2>2, <2>4 DEF OrderInv, CountInv
  <2> QED
    BY <2>3, <2>4 DEF CountInv
<1>10. ASSUME NEW i \in Lanes, fifoReqs'[HeadSlot][i] # NoReq
       PROVE  /\ Rightful(HeadStep, i, sreqs'[fifoReqs'[HeadSlot][i]].data)
              /\ \A j \in 1..i-1 : call[HeadStep].tags[j] = call[HeadStep].tags[i] =>
                   fifoReqs'[HeadSlot][j] # NoReq
  <2>1. ASSUME NEW j \in 1..i-1, call[HeadStep].tags[j] = call[HeadStep].tags[i]
        PROVE  fifoReqs'[HeadSlot][j] # NoReq
    <3>1. j \in Lanes
      BY ConstantsOK DEF Lanes
    <3>2. CASE i = r
      <4>1. fifoReqs[HeadSlot][j] # NoReq
        BY <3>2, <2>1, <1>3 DEF Entitled
      <4> QED
        BY <4>1, <3>1, <1>4, <1>8
    <3>3. CASE i # r
      <4>1. fifoReqs[HeadSlot][i] # NoReq
        BY <3>3, <1>8, <1>10
      <4>2. fifoReqs[HeadSlot][j] # NoReq
        BY <4>1, <2>1, <1>1, <1>2 DEF OrderInv, HeadInv
      <4> QED
        BY <4>2, <3>1, <1>4, <1>8
    <3> QED
      BY <3>2, <3>3
  <2>2. CASE i = r
    <3>1. sreqs'[q].data = data
      BY <1>3 DEF Takes, NewSend, RingInv, BaseInv, AllShapes, SendShape
    <3>2. Rank(HeadStep, r) = sent[tag] + 1
      BY <1>1, <1>2, <1>3, <1>4, <1>6, AcceptRank
    <3> QED
      BY <2>1, <2>2, <3>1, <3>2, <1>3, <1>8 DEF Rightful, Entitled, NextSent
  <2>3. CASE i # r
    <3>1. fifoReqs[HeadSlot][i] # NoReq /\ fifoReqs'[HeadSlot][i] = fifoReqs[HeadSlot][i]
      BY <2>3, <1>8, <1>10
    <3>2. Id(HeadStep, i) = fifoReqs[HeadSlot][i]
      BY <1>1 DEF Id, HeadStep
    <3>3. sreqs[Id(HeadStep, i)].type # "unused" /\ Id(HeadStep, i) \in Pool
      BY <3>1, <3>2, <1>2, IdType DEF SendInv, IdInv, RingInv, BaseInv
    <3>4. sreqs'[fifoReqs[HeadSlot][i]] = sreqs[fifoReqs[HeadSlot][i]]
      BY <3>2, <3>3, <1>3, <1>6 DEF Takes, RingInv, BaseInv, AllShapes, SendShape
    <3>5. Rightful(HeadStep, i, sreqs[fifoReqs[HeadSlot][i]].data)
      BY <3>1, <1>1, <1>2 DEF OrderInv, HeadInv
    <3> QED
      BY <2>1, <3>1, <3>4, <3>5
  <2> QED
    BY <2>2, <2>3
<1>11. HeadInv'
  BY <1>1, <1>2, <1>5, <1>7, <1>10 DEF HeadInv, Rightful
<1>12. CarryInv'
  <2>1. ASSUME NEW k \in Steps, dArrived < k, k <= sPosted', NEW i \in 1..call[k].n
        PROVE  Rightful(k, i, msg'[k].data[i])
    <3>1. CASE k = HeadStep /\ PostsHead
      <4>1. i \in Lanes /\ i <= HeadCount /\ i \in 1..HeadCount
        BY <3>1, <1>2, ConstantsOK DEF Lanes, HeadCount
      <4>2. msg'[k] = HeadMsg
        BY <3>1, <1>2 DEF PostsHead, RingInv, BaseInv, AllShapes, SendShape
      <4>3. msg'[k].data[i] = sreqs'[fifoReqs'[HeadSlot][i]].data
        BY <4>1, <4>2 DEF HeadMsg
      <4>4. fifoReqs'[HeadSlot][i] # NoReq
        BY <3>1, <4>1 DEF PostsHead
      <4> QED
        BY <3>1, <4>1, <4>3, <4>4, <1>10
    <3>2. CASE ~(k = HeadStep /\ PostsHead)
      <4>1. k # HeadStep /\ k <= sPosted
        <5>1. sPosted = fifoHead /\ fifoHead \in Nat
          BY <1>1, Cursors
        <5>2. CASE PostsHead
          BY <5>1, <5>2, <3>2, <2>1 DEF PostsHead, HeadStep, Steps
        <5>3. CASE UNCHANGED <<msg, sPosted, spc>>
          BY <5>1, <5>3, <2>1 DEF HeadStep, Steps
        <5> QED
          BY <5>2, <5>3, <1>3 DEF Takes
      <4>2. Rightful(k, i, msg[k].data[i])
        BY <4>1, <2>1 DEF OrderInv, CarryInv
      <4> QED
        BY <4>1, <4>2, <1>8
    <3> QED
      BY <3>1, <3>2
  <2> QED
    BY <2>1, <1>1, <1>7 DEF CarryInv, Rightful
<1>13. BufInv'
  BY <1>1, <1>7 DEF OrderInv, BufInv, Rightful
<1> QED
  BY <1>9, <1>11, <1>12, <1>13 DEF OrderInv

LEMMA NextOrder ==
  ASSUME RingInv, SendInv, SendInv', OrderInv, [Next]_vars
  PROVE  OrderInv'
<1>1. ASSUME NEW n \in GroupSizes, NEW tags \in [1..n -> Tags],
             NEW sizes \in [1..n -> Sizes],
             NEW mems \in [1..n -> Mems], Irecv(n, tags, sizes, mems)
      PROVE  OrderInv'
  BY <1>1, IrecvOrder
<1>2. ASSUME NEW k \in Steps, RecvTest(k) PROVE OrderInv'
  BY <1>2, OrderSame
  DEF orderVars, RecvTest, RecvTestDone, RecvTestImm, RecvTestFifo, RecvTestError,
      recvTestSame, sendVars
<1>3. ASSUME NEW tag \in Tags, NEW size \in Sizes, NEW mem \in Mems,
             Isend(tag, size, mem)
      PROVE  OrderInv'
  <2>1. CASE serr' # serr
    <3>1. UNCHANGED <<sreqs, fifoReqs, spc, sheld, sent, msg, sPosted>>
      BY <1>3, <2>1 DEF Isend
    <3> QED
      BY <3>1, <1>3, OrderSame DEF orderVars, Isend, isendSame, recvVars
  <2>2. CASE UNCHANGED serr
    BY <1>3, <2>2, AcceptOrder
  <2> QED
    BY <2>1, <2>2
<1>4. ASSUME NEW q \in Pool, SendTest(q) PROVE OrderInv'
  BY <1>4, SendTestOrder
<1>5. ASSUME NEW k \in Steps, NEW r \in Lanes, FifoLand(k, r) PROVE OrderInv'
  BY <1>5, OrderSame DEF orderVars, FifoLand, netSame, recvVars, sendVars
<1>6. ASSUME FifoAck \/ DataAck \/ LinkDown \/ UNCHANGED vars PROVE OrderInv'
  BY <1>6, OrderSame
  DEF orderVars, FifoAck, DataAck, LinkDown, netSame, vars, recvVars, sendVars
<1> QED
  BY <1>1, <1>2, <1>3, <1>4, <1>5, <1>6, IsendClearOrder, DataArriveOrder DEF Next

LEMMA InitOrder == Init => OrderInv /\ ReportInv
<1> SUFFICES ASSUME Init PROVE OrderInv /\ ReportInv
  OBVIOUS
<1>1. /\ sPosted = 0 /\ dArrived = 0 /\ \A tag \in Tags : sent[tag] = 0
      /\ \A s \in Slots, r \in Lanes : fifoReqs[s][r] = NoReq
      /\ \A k \in Steps, r \in Lanes : buf[<<k, r>>] = NoData
      /\ \A k \in Steps : held[k] = NoReq
  BY DEF Init
<1>2. HeadSlot \in Slots
  BY SlotInSlots DEF Init, HeadSlot
<1>3. \A k \in Steps, r \in Lanes : ~Matched(k, r)
  BY <1>1, <1>2 DEF Matched, Steps
<1>4. \A tag : MatchedOf(tag) = {}
  BY <1>3 DEF MatchedOf
<1>5. CountInv
  BY <1>1, <1>4, FS_EmptySet DEF CountInv
<1>6. HeadInv /\ CarryInv /\ BufInv
  BY <1>1, <1>2 DEF HeadInv, CarryInv, BufInv, Steps
<1> QED
  BY <1>1, <1>5, <1>6 DEF OrderInv, ReportInv

LEMMA NextReport ==
  ASSUME RingInv, DoneInv, ReportInv, [Next]_vars
  PROVE  ReportInv'
<1>1. ASSUME NEW n \in GroupSizes, NEW tags \in [1..n -> Tags],
             NEW sizes \in [1..n -> Sizes],
             NEW mems \in [1..n -> Mems], Irecv(n, tags, sizes, mems)
      PROVE  ReportInv'
  <2>1. UNCHANGED result /\ \E q \in Pool : held' = [held EXCEPT ![fifoTail + 1] = q]
    BY <1>1 DEF Irecv
  <2>2. ASSUME NEW k \in Steps, result[k] # <<>> PROVE held'[k] = held[k]
    <3>1. k <= dPolled
      BY <2>2 DEF DoneInv
    <3>2. k # fifoTail + 1
      BY <3>1, Cursors DEF Steps
    <3> QED
      BY <3>2, <2>1 DEF RingInv, BaseInv, AllShapes, RecvShape
  <2> QED
    BY <2>1, <2>2 DEF ReportInv
<1>2. ASSUME NEW k \in Steps, RecvTest(k) PROVE ReportInv'
  <2>1. CASE UNCHANGED <<held, result>>
    BY <2>1 DEF ReportInv
  <2>2. CASE ~UNCHANGED <<held, result>>
    <3>1. /\ held' = [held EXCEPT ![k] = NoReq]
          /\ \E v : result' = [result EXCEPT ![k] = v]
      BY <1>2, <2>2
      DEF RecvTest, RecvTestDone, RecvTestImm, RecvTestFifo, RecvTestError, ReturnRecvTest
    <3> QED
      BY <3>1 DEF ReportInv, RingInv, BaseInv, AllShapes, RecvShape
  <2> QED
    BY <2>1, <2>2
<1>3. ASSUME UNCHANGED <<held, result>> PROVE ReportInv'
  BY <1>3 DEF ReportInv
<1>4. ASSUME NEW tag \in Tags, NEW size \in Sizes, NEW mem \in Mems,
             Isend(tag, size, mem)
      PROVE  ReportInv'
  BY <1>3, <1>4 DEF Isend, isendSame, recvVars
<1>5. ASSUME NEW q \in Pool, SendTest(q) PROVE ReportInv'
  BY <1>3, <1>5
  DEF SendTest, SendTestDone, SendTestData, SendTestError, sendTestSame, recvVars
<1>6. ASSUME NEW k \in Steps, NEW r \in Lanes, FifoLand(k, r) PROVE ReportInv'
  BY <1>3, <1>6 DEF FifoLand, netSame, recvVars
<1>7. ASSUME IsendClear \/ FifoAck \/ DataArrive \/ DataAck \/ LinkDown \/ UNCHANGED vars
      PROVE  ReportInv'
  BY <1>3, <1>7
  DEF IsendClear, FifoAck, DataArrive, DataAck, LinkDown, netSame, vars, recvVars
<1> QED
  BY <1>1, <1>2, <1>4, <1>5, <1>6, <1>7 DEF Next

DeepInv == RingInv /\ SendInv /\ DoneInv /\ OrderInv /\ ReportInv

LEMMA DeepAlways ==
  ASSUME Window < MaxRequests
  PROVE  Spec => []DeepInv
<1>1. Init => OrderInv /\ ReportInv
  BY InitOrder
<1>2. ASSUME RingInv, SendInv, DoneInv, (RingInv /\ SendInv /\ DoneInv)',
             OrderInv, ReportInv, [Next]_vars
      PROVE  OrderInv' /\ ReportInv'
  <2>1. OrderInv'
    BY <1>2, NextOrder
  <2>2. ReportInv'
    BY <1>2, NextReport
  <2> QED
    BY <2>1, <2>2
<1> QED
  BY <1>1, <1>2, ConnInvAlways, PTL DEF Spec, DeepInv

-----------------------------------------------------------------------------
(***************************************************************************)
(* DataInOrder for every ring larger than the caller's window: a buffer    *)
(* holds nothing or the send that its place among the buffers posted for   *)
(* its tag entitles it to, however slots, requests and matches are reused. *)
(***************************************************************************)
THEOREM DataAlwaysInOrder ==
  ASSUME Window < MaxRequests
  PROVE  Spec => []DataInOrder
<1>1. DeepInv => DataInOrder
  <2> SUFFICES ASSUME DeepInv, NEW k \in Steps, NEW r \in Lanes, buf[<<k, r>>] # NoData
               PROVE  /\ k <= fifoTail /\ r <= call[k].n
                      /\ Rightful(k, r, buf[<<k, r>>])
    BY DEF DataInOrder, Rightful
  <2>1. k <= dArrived /\ r <= call[k].n /\ Rightful(k, r, buf[<<k, r>>])
    BY DEF DeepInv, OrderInv, BufInv
  <2>2. k <= fifoTail
    BY <2>1, Cursors DEF DeepInv, Steps
  <2> QED
    BY <2>1, <2>2
<1> QED
  BY <1>1, DeepAlways, PTL

(***************************************************************************)
(* WrittenOnce for every ring larger than the caller's window: once there  *)
(* is data in a receive buffer nothing writes it again.                    *)
(***************************************************************************)
THEOREM BuffersWrittenOnce ==
  ASSUME Window < MaxRequests
  PROVE  Spec => WrittenOnce
<1> DEFINE Kept == \A b \in Steps \X Lanes : buf[b] # NoData => buf'[b] = buf[b]
<1>1. DeepInv /\ [Next]_vars => [Kept]_buf
  <2> SUFFICES ASSUME DeepInv, [Next]_vars, buf' # buf PROVE Kept
    OBVIOUS
  <2>1. DataArrive
    BY DEF Next, Irecv, RecvTest, RecvTestDone, RecvTestImm, RecvTestFifo, RecvTestError,
           recvTestSame, Isend, isendSame, IsendClear, SendTest, SendTestDone,
           SendTestData, SendTestError, sendTestSame, FifoLand, FifoAck, DataAck,
           LinkDown, vars
  <2>2. ASSUME NEW k \in Steps, NEW r \in Lanes, buf[<<k, r>>] # NoData
        PROVE  buf'[<<k, r>>] = buf[<<k, r>>]
    <3>1. k # dArrived + 1
      BY <2>2, Cursors DEF DeepInv, OrderInv, BufInv, Steps
    <3> QED
      BY <3>1, <2>1, ArrivalFills DEF DeepInv
  <2> QED
    BY <2>2
<1>2. Spec => [][Kept]_buf
  BY <1>1, DeepAlways, PTL DEF Spec
<1> QED
  BY <1>2 DEF WrittenOnce

-----------------------------------------------------------------------------
(***************************************************************************)
(* The pools and the queues: counting what is in use.                      *)
(***************************************************************************)
LEMMA PoolSize == IsFiniteSet(Pool) /\ Cardinality(Pool) = MaxRequests
BY FS_Interval, ConstantsOK DEF Pool

(***************************************************************************)
(* PoolSuffices for every ring larger than the caller's window: no request *)
(* leaks on either side, and a caller within its window finds a free one.  *)
(***************************************************************************)
THEOREM PoolAlwaysSuffices ==
  ASSUME Window < MaxRequests
  PROVE  Spec => []PoolSuffices
<1>1. DeepInv => PoolSuffices
  <2> SUFFICES ASSUME DeepInv PROVE PoolSuffices
    OBVIOUS
  <2> USE DEF DeepInv, RingInv, BaseInv
  <2>1. held \in [Steps -> Pool \cup {NoReq}] /\ sheld \subseteq Pool
    BY DEF AllShapes, RecvShape, SendShape
  <2>2. {q \in Pool : rreqs[q].type # "unused"} = {held[k] : k \in Steps} \ {NoReq}
    <3>1. ASSUME NEW q \in Pool, rreqs[q].type # "unused"
          PROVE  q # NoReq /\ \E k \in Steps : held[k] = q
      BY <3>1 DEF HeldInv, HeldOK, Pool, NoReq
    <3>2. ASSUME NEW k \in Steps, held[k] # NoReq
          PROVE  held[k] \in Pool /\ rreqs[held[k]].type # "unused"
      <4>1. rreqs[held[k]].type = "recv"
        BY <3>2 DEF HeldInv, HeldOK
      <4> QED
        BY <4>1, <3>2, <2>1
    <3> QED
      BY <3>1, <3>2
  <2>3. {q \in Pool : sreqs[q].type # "unused"} = sheld
    BY <2>1 DEF SendInv, SheldInv
  <2>4. ASSUME WindowOpen(fifoTail + 1), \A q \in Pool : rreqs[q].type # "unused"
        PROVE  FALSE
    <3> DEFINE open == (fifoTail + 2 - Window)..fifoTail
               f == [q \in Pool |-> CHOOSE k \in open : held[k] = q]
    <3>1. fifoTail \in Nat
      BY Cursors
    <3>2. IsFiniteSet(open) /\ Cardinality(open) < Cardinality(Pool)
      <4>1. IsFiniteSet(open) /\ Cardinality(open) = Window - 1
        BY <3>1, FS_Interval, ConstantsOK
      <4> QED
        BY <4>1, PoolSize, ConstantsOK
    <3>3. ASSUME NEW q \in Pool PROVE \E k \in open : held[k] = q
      <4>1. PICK k \in Steps : held[k] = q
        BY <2>4 DEF HeldInv, HeldOK
      <4>2. held[k] # NoReq
        BY <4>1 DEF Pool, NoReq
      <4>3. k <= fifoTail /\ fifoTail + 1 < k + Window
        BY <4>2, <2>4 DEF HeldInv, HeldOK, WindowOpen
      <4>4. k \in open
        BY <4>3, <3>1, ConstantsOK DEF Steps
      <4> QED
        BY <4>1, <4>4
    <3>4. \A q \in Pool : f[q] \in open /\ held[f[q]] = q
      BY <3>3
    <3>5. f \in [Pool -> open]
      BY <3>4
    <3> HIDE DEF f, open
    <3>6. \E p, q \in Pool : p # q /\ f[p] = f[q]
      BY <3>2, <3>5, PoolSize, FS_PigeonHole
    <3> QED
      BY <3>4, <3>6
  <2> QED
    BY <2>2, <2>3, <2>4 DEF PoolSuffices
<1> QED
  BY <1>1, DeepAlways, PTL

(***************************************************************************)
(* DataQueuesFit for every ring larger than the caller's window, whatever  *)
(* the groups and the sizes: each message in the sender's queue holds as   *)
(* many requests as it writes buffers, and posts one work request more at  *)
(* most, so twice the pool is room enough.                                 *)
(***************************************************************************)
THEOREM DataQueuesAlwaysFit ==
  ASSUME Window < MaxRequests
  PROVE  Spec => []DataQueuesFit
<1>1. DeepInv => DataQueuesFit
  <2> SUFFICES ASSUME DeepInv PROVE DataQueuesFit
    OBVIOUS
  <2>1. rqPosted - dPolled <= MaxRequests
    <3>1. fifoTail <= dPolled + Window
      BY Span DEF DeepInv, RingInv, BaseInv
    <3> QED
      BY <3>1, Cursors, ConstantsOK DEF DeepInv
  <2>2. ASSUME NEW k \in sPolled+1..sPosted
        PROVE  /\ k \in Steps /\ msg[k].n \in 1..MaxRecvs /\ PostedFor(msg[k]) <= msg[k].n + 1
               /\ \A i \in 1..msg[k].n : /\ i \in Lanes /\ Id(k, i) = msg[k].wr[i]
                                         /\ Id(k, i) # NoReq /\ Id(k, i) \in Pool
    <3>1. k \in Steps /\ sPolled < k /\ k <= sPosted /\ k <= fifoTail
      BY Cursors DEF DeepInv, Steps
    <3>2. msg[k].n = call[k].n /\ \A i \in 1..msg[k].n : msg[k].wr[i] # NoReq
      BY <3>1 DEF DeepInv, SendInv, MsgInv
    <3>3. msg[k].n \in 1..MaxRecvs /\ 1..msg[k].n \subseteq Lanes
      BY <3>1, <3>2, GroupFits DEF DeepInv
    <3>4. ~(k = fifoHead + 1 /\ spc = "idle")
      BY <3>1, Cursors DEF DeepInv, Steps
    <3>5. \A i \in 1..msg[k].n : Id(k, i) = msg[k].wr[i]
      BY <3>4 DEF Id
    <3>6. \A i \in 1..msg[k].n : Id(k, i) \in Pool
      BY <3>1, <3>2, <3>3, <3>5, IdType DEF DeepInv, RingInv, BaseInv
    <3>7. PostedFor(msg[k]) <= msg[k].n + 1
      <4>1. msg[k].n \in Nat
        BY <3>3, ConstantsOK
      <4> QED
        BY <4>1 DEF PostedFor
    <3> QED
      BY <3>1, <3>2, <3>3, <3>5, <3>6, <3>7
  <2> DEFINE Whole(w) == w[2] <= msg[w[1]].n
             f == [w \in SendQueue |->
               IF Whole(w) THEN <<msg[w[1]].wr[w[2]], 1>> ELSE <<msg[w[1]].wr[1], 2>>]
  <2>3. ASSUME NEW w \in SendQueue
        PROVE  /\ w[1] \in sPolled+1..sPosted /\ w = <<w[1], w[2]>> /\ w[2] \in Nat \ {0}
               /\ w[2] <= PostedFor(msg[w[1]])
    BY ConstantsOK DEF SendQueue
  <2>4. ASSUME NEW w \in SendQueue
        PROVE  /\ Whole(w) => w[2] \in 1..msg[w[1]].n
               /\ ~Whole(w) => w[2] = msg[w[1]].n + 1
               /\ 1 \in 1..msg[w[1]].n
    <3>1. msg[w[1]].n \in 1..MaxRecvs /\ PostedFor(msg[w[1]]) <= msg[w[1]].n + 1
      BY <2>2, <2>3
    <3>2. msg[w[1]].n \in Nat \ {0} /\ w[2] \in Nat \ {0} /\ w[2] <= PostedFor(msg[w[1]])
      BY <3>1, <2>3, ConstantsOK
    <3>3. PostedFor(msg[w[1]]) \in Nat
      BY <3>2 DEF PostedFor
    <3> QED
      BY <3>1, <3>2, <3>3
  <2>5. f \in [SendQueue -> Pool \X (1..2)]
    <3>1. ASSUME NEW w \in SendQueue PROVE f[w] \in Pool \X (1..2)
      <4>1. CASE Whole(w)
        BY <4>1, <2>2, <2>3, <2>4
      <4>2. CASE ~Whole(w)
        BY <4>2, <2>2, <2>3, <2>4
      <4> QED
        BY <4>1, <4>2
    <3> QED
      BY <3>1
  <2>6. ASSUME NEW v \in SendQueue, NEW w \in SendQueue, f[v] = f[w]
        PROVE  v = w
    <3>1. /\ v[1] \in Steps /\ w[1] \in Steps
          /\ \A i \in 1..msg[v[1]].n : /\ i \in Lanes /\ Id(v[1], i) = msg[v[1]].wr[i]
                                       /\ Id(v[1], i) # NoReq
          /\ \A i \in 1..msg[w[1]].n : i \in Lanes /\ Id(w[1], i) = msg[w[1]].wr[i]
      BY <2>2, <2>3
    <3>2. \A i \in 1..msg[v[1]].n, j \in 1..msg[w[1]].n :
            msg[v[1]].wr[i] = msg[w[1]].wr[j] => v[1] = w[1] /\ i = j
      BY <3>1 DEF DeepInv, SendInv, IdInv
    <3>3. CASE Whole(v) /\ Whole(w)
      <4>1. msg[v[1]].wr[v[2]] = msg[w[1]].wr[w[2]]
        BY <2>6, <3>3
      <4>2. v[1] = w[1] /\ v[2] = w[2]
        BY <4>1, <3>2, <3>3, <2>4
      <4> QED
        BY <4>2, <2>3
    <3>4. CASE ~Whole(v) /\ ~Whole(w)
      <4>1. msg[v[1]].wr[1] = msg[w[1]].wr[1]
        BY <2>6, <3>4
      <4>2. v[1] = w[1]
        BY <4>1, <3>2, <2>4
      <4>3. v[2] = w[2]
        BY <4>2, <3>4, <2>4
      <4> QED
        BY <4>2, <4>3, <2>3
    <3>5. CASE Whole(v) /\ ~Whole(w)
      BY <2>6, <3>5
    <3>6. CASE ~Whole(v) /\ Whole(w)
      BY <2>6, <3>6
    <3> QED
      BY <3>3, <3>4, <3>5, <3>6
  <2> HIDE DEF f
  <2>7. IsFiniteSet(SendQueue)
    <3>1. sPolled + 1 \in Int /\ sPosted \in Int /\ MaxRecvs + 1 \in Int
      BY Cursors, ConstantsOK DEF DeepInv
    <3>2. IsFiniteSet(sPolled+1..sPosted) /\ IsFiniteSet(1..MaxRecvs+1)
      BY <3>1, FS_Interval
    <3>3. IsFiniteSet((sPolled+1..sPosted) \X (1..MaxRecvs+1))
      BY <3>2, FS_Product
    <3> QED
      BY <3>3, FS_Subset DEF SendQueue
  <2>8. /\ IsFiniteSet(Pool \X (1..2))
        /\ Cardinality(Pool \X (1..2)) = 2 * MaxRequests
    <3>1. IsFiniteSet(1..2) /\ Cardinality(1..2) = 2
      <4>1. 1 \in Int /\ 2 \in Int
        OBVIOUS
      <4>2. IsFiniteSet(1..2) /\ Cardinality(1..2) = IF 1 > 2 THEN 0 ELSE 2-1+1
        BY <4>1, FS_Interval
      <4> QED
        BY <4>2
    <3>2. /\ IsFiniteSet(Pool \X (1..2))
          /\ Cardinality(Pool \X (1..2)) = Cardinality(Pool) * Cardinality(1..2)
      BY <3>1, PoolSize, FS_Product
    <3> QED
      BY <3>1, <3>2, PoolSize, ConstantsOK
  <2>9. Cardinality(SendQueue) <= 2 * MaxRequests
    <3> SUFFICES ASSUME ~(Cardinality(SendQueue) <= 2 * MaxRequests) PROVE FALSE
      OBVIOUS
    <3>1. Cardinality(SendQueue) \in Nat
      BY <2>7, FS_CardinalityType
    <3>2. Cardinality(Pool \X (1..2)) < Cardinality(SendQueue)
      BY <3>1, <2>8, ConstantsOK
    <3>3. \E v, w \in SendQueue : v # w /\ f[v] = f[w]
      BY <3>2, <2>5, <2>7, <2>8, FS_PigeonHole
    <3> QED
      BY <3>3, <2>6
  <2> QED
    BY <2>1, <2>9 DEF DataQueuesFit
<1> QED
  BY <1>1, DeepAlways, PTL

-----------------------------------------------------------------------------
(***************************************************************************)
(* The refinement: every step of the transport is a step of the channel or *)
(* changes nothing of it.                                                  *)
(***************************************************************************)
Reported == {k \in Steps : result[k] # <<>>}

\* The library's operator, as the channel's module extends it.
LEMMA SameCardinality == \A S : Channel!Cardinality(S) = Cardinality(S)
BY DEF Channel!Cardinality, Cardinality

LEMMA PlaceIsRank ==
  \A k, r : Channel!Place(k, r, call[k].tags[r]) = Rank(k, r)
BY SameCardinality DEF Channel!Place, Channel!Lanes, Rank, Lanes

LEMMA InitChannel == Init => Channel!ChannelInit
<1> SUFFICES ASSUME Init PROVE Channel!ChannelInit
  OBVIOUS
<1>1. Reported = {}
  BY DEF Init, Reported
<1>2. /\ fifoTail = 0 /\ dArrived = 0 /\ sent = [t \in Tags |-> 0]
      /\ call = [k \in Steps |-> NoCall] /\ buf = [b \in Steps \X Lanes |-> NoData]
  BY DEF Init
<1> QED
  BY <1>1, <1>2
  DEF Channel!ChannelInit, Channel!Steps, Channel!Lanes, Channel!Nothing, Steps, Lanes,
      NoCall, NoData, Reported

\* ncclIbIrecv posts a receive.
LEMMA IrecvPosts ==
  ASSUME DeepInv, NEW n \in GroupSizes, NEW tags \in [1..n -> Tags],
         NEW sizes \in [1..n -> Sizes],
         NEW mems \in [1..n -> Mems], Irecv(n, tags, sizes, mems)
  PROVE  Channel!PostReceive
<1>1. /\ UNCHANGED <<sent, dArrived, buf, result>> /\ fifoTail' = fifoTail + 1
      /\ fifoTail + 1 \in Steps
      /\ call' = [call EXCEPT ![fifoTail + 1] = [n |-> n, tags |-> tags, sizes |-> sizes]]
  BY DEF Irecv, sendVars
<1>2. fifoTail < MaxSteps
  BY <1>1, Cursors DEF DeepInv, Steps
<1>3. Reported' = Reported
  BY <1>1 DEF Reported
<1> QED
  BY <1>1, <1>2, <1>3 DEF Channel!PostReceive, Reported

\* An accepted ncclIbIsend is for a buffer that is posted and not matched yet.
LEMMA IsendAccepts ==
  ASSUME DeepInv, NEW tag \in Tags, NEW size \in Sizes, NEW mem \in Mems,
         Isend(tag, size, mem), UNCHANGED serr
  PROVE  Channel!AcceptSend
<1>1. UNCHANGED <<fifoTail, call, dArrived, buf, result>> /\ spc = "idle"
  BY DEF Isend, isendSame, recvVars
<1>2. /\ HeadStep \in Steps /\ HeadCount \in 1..MaxRecvs
      /\ sent' = [sent EXCEPT ![tag] = @ + 1]
  BY AcceptTakes DEF DeepInv
<1>3. PICK r \in 1..HeadCount, q \in Pool :
        Entitled(r, tag, size) /\ Takes(q, r, mem, NextSent(tag, size))
  BY AcceptTakes DEF DeepInv
<1>4. r \in Lanes /\ r <= HeadCount /\ fifoReqs[HeadSlot][r] = NoReq
  BY <1>2, <1>3, ConstantsOK DEF Lanes, Takes
<1> DEFINE all ==
      {b \in (1..fifoTail) \X Lanes :
         /\ b[1] < fifoTail \/ b[2] <= MaxRecvs
         /\ b[2] <= call[b[1]].n /\ call[b[1]].tags[b[2]] = tag}
<1>5. Cardinality(MatchedOf(tag) \cup {<<HeadStep, r>>}) = sent[tag] + 1
  BY <1>1, <1>2, <1>3, <1>4, AcceptRank DEF DeepInv
<1>6. ASSUME NEW k \in Steps, NEW i \in Lanes, k <= fifoTail, i <= call[k].n,
             call[k].tags[i] = tag
      PROVE  <<k, i>> \in all
  BY <1>6, Cursors, ConstantsOK DEF DeepInv, Lanes, Steps
<1>7. MatchedOf(tag) \cup {<<HeadStep, r>>} \subseteq all
  <2>1. HeadStep <= fifoTail
    <3>1. fifo[HeadSlot][1].idx = fifoHead + 1
      BY DEF Isend, HeadReady
    <3> QED
      BY <3>1, HeadAnnounced DEF DeepInv, RingInv, HeadStep
  <2>2. <<HeadStep, r>> \in all
    BY <2>1, <1>2, <1>3, <1>4, <1>6 DEF Entitled, HeadCount
  <2>3. ASSUME NEW b \in MatchedOf(tag) PROVE b \in all
    <3>1. PICK k \in Steps, i \in Lanes :
            b = <<k, i>> /\ Matched(k, i) /\ i <= call[k].n /\ call[k].tags[i] = tag
      BY DEF MatchedOf
    <3>2. k <= fifoTail
      BY <3>1, MatchedOpen DEF DeepInv
    <3> QED
      BY <3>1, <3>2, <1>6
  <2> QED
    BY <2>2, <2>3
<1>8. IsFiniteSet(all)
  <2>1. IsFiniteSet((1..fifoTail) \X Lanes)
    BY BoxFinite, Cursors DEF DeepInv
  <2> QED
    BY <2>1, FS_Subset
<1>9. Channel!Place(fifoTail, MaxRecvs, tag) = Cardinality(all)
  BY SameCardinality DEF Channel!Place, Channel!Lanes, Lanes
<1>10. sent[tag] < Channel!Place(fifoTail, MaxRecvs, tag)
  <2> HIDE DEF all
  <2>1. sent[tag] + 1 <= Cardinality(all)
    BY <1>5, <1>7, <1>8, FS_Subset
  <2>2. sent[tag] \in Nat /\ Cardinality(all) \in Nat
    BY <1>8, FS_CardinalityType DEF DeepInv, RingInv, BaseInv, AllShapes, SendShape
  <2> QED
    BY <2>1, <2>2, <1>9
<1>11. Reported' = Reported
  BY <1>1 DEF Reported
<1> QED
  BY <1>1, <1>2, <1>10, <1>11 DEF Channel!AcceptSend, Reported

\* The arrival of a message delivers the next receive.
LEMMA ArrivalDelivers ==
  ASSUME DeepInv, DataArrive
  PROVE  Channel!Deliver
<1>k. PICK k : k = dArrived + 1
  OBVIOUS
<1>1. /\ k \in Steps /\ k <= sPosted /\ k <= fifoTail /\ dArrived' = k
      /\ UNCHANGED <<recvVars, sendVars>>
  BY <1>k, ArrivalFills DEF DeepInv
<1>2. \A j \in Steps, r \in Lanes :
        buf'[<<j, r>>] = IF j = k /\ r <= call[k].n
                         THEN msg[k].data[r] ELSE buf[<<j, r>>]
  BY <1>k, ArrivalFills DEF DeepInv
<1>3. UNCHANGED <<fifoTail, call, sent, result>>
  BY <1>1 DEF recvVars, sendVars
<1>4. call[k].n \in 1..MaxRecvs /\ 1..call[k].n \subseteq Lanes
  BY <1>1, GroupFits DEF DeepInv
<1>5. dArrived < k /\ dArrived < fifoTail /\ sPolled < k
  BY <1>1, <1>k, Cursors DEF DeepInv, Steps
<1> DEFINE tag(r) == call[k].tags[r]
           size == [r \in 1..call[k].n |-> msg[k].data[r].size]
<1>6. ASSUME NEW r \in 1..call[k].n
      PROVE  /\ msg[k].data[r] = [tag |-> tag(r), num |-> Rank(k, r), size |-> size[r]]
             /\ tag(r) \in Tags /\ size[r] \in Sizes /\ size[r] <= call[k].sizes[r]
  <2>1. Rightful(k, r, msg[k].data[r])
    BY <1>1, <1>5 DEF DeepInv, OrderInv, CarryInv
  <2>2. msg[k].data[r] \in Payloads /\ msg[k].data[r] # NoData
    <3>1. msg[k].data[r] # NoData
      BY <1>1, <1>5 DEF DeepInv, SendInv, MsgInv
    <3>2. msg[k] \in Msgs /\ r \in Lanes
      BY <1>1, <1>4 DEF DeepInv, RingInv, BaseInv, AllShapes, SendShape
    <3> QED
      BY <3>1, <3>2 DEF Msgs
  <2>3. msg[k].data[r] \in [tag : Tags, num : Nat \ {0}, size : Sizes]
    BY <2>2 DEF Payloads
  <2> QED
    BY <2>1, <2>3 DEF Rightful
<1>7. ASSUME NEW r \in 1..call[k].n
      PROVE  sent[tag(r)] >= Channel!Place(k, r, tag(r))
  <2>1. UpTo(k, r) \subseteq MatchedOf(tag(r))
    <3>1. ASSUME NEW b \in UpTo(k, r) PROVE b \in MatchedOf(tag(r))
      <4>1. PICK j \in 1..k, i \in Lanes :
              b = <<j, i>> /\ i <= call[j].n /\ call[j].tags[i] = call[k].tags[r]
        BY DEF UpTo
      <4>2. j \in Steps /\ j <= sPosted
        BY <4>1, <1>1, Cursors DEF DeepInv, Steps
      <4> QED
        BY <4>1, <4>2 DEF MatchedOf, Matched
    <3> QED
      BY <3>1
  <2>2. Cardinality(UpTo(k, r)) <= Cardinality(MatchedOf(tag(r)))
    BY <2>1, MatchedFinite, FS_Subset
  <2>3. sent[tag(r)] = Cardinality(MatchedOf(tag(r)))
    BY <1>6 DEF DeepInv, OrderInv, CountInv
  <2>4. Cardinality(UpTo(k, r)) \in Nat /\ Cardinality(MatchedOf(tag(r))) \in Nat
    BY <2>1, MatchedFinite, FS_Subset, FS_CardinalityType
  <2> QED
    BY <2>2, <2>3, <2>4, PlaceIsRank, RankIsUpTo
<1>8. size \in [1..call[k].n -> Sizes] /\ \A r \in 1..call[k].n : size[r] <= call[k].sizes[r]
  BY <1>6
<1>9. buf' = [b \in Steps \X Lanes |->
        IF b[1] = k /\ b[2] <= call[k].n
        THEN [tag |-> tag(b[2]), num |-> Channel!Place(k, b[2], tag(b[2])),
              size |-> size[b[2]]]
        ELSE buf[b]]
  <2>1. buf' \in [Steps \X Lanes -> Payloads]
    BY NextShape DEF DeepInv, RingInv, BaseInv, AllShapes, NetShape, Next
  <2>2. ASSUME NEW j \in Steps, NEW r \in Lanes
        PROVE  buf'[<<j, r>>] =
                 IF j = k /\ r <= call[k].n
                 THEN [tag |-> tag(r), num |-> Channel!Place(k, r, tag(r)),
                       size |-> size[r]]
                 ELSE buf[<<j, r>>]
    <3>1. CASE j = k /\ r <= call[k].n
      <4>1. r \in 1..call[k].n
        BY <3>1, <1>4, ConstantsOK DEF Lanes
      <4>2. buf'[<<j, r>>] = msg[k].data[r]
        BY <3>1, <1>2
      <4>3. msg[k].data[r] = [tag |-> tag(r), num |-> Rank(k, r), size |-> size[r]]
        BY <4>1, <1>6
      <4>4. Channel!Place(k, r, tag(r)) = Rank(k, r)
        BY PlaceIsRank
      <4> HIDE DEF size, tag
      <4> QED
        BY <3>1, <4>2, <4>3, <4>4
    <3>2. CASE ~(j = k /\ r <= call[k].n)
      BY <3>2, <1>2
    <3> QED
      BY <3>1, <3>2
  <2> DEFINE new(j, r) ==
        IF j = k /\ r <= call[k].n
        THEN [tag |-> tag(r), num |-> Channel!Place(k, r, tag(r)), size |-> size[r]]
        ELSE buf[<<j, r>>]
  <2>3. ASSUME NEW b \in Steps \X Lanes PROVE buf'[b] = new(b[1], b[2])
    <3>1. PICK j \in Steps, r \in Lanes : b = <<j, r>>
      OBVIOUS
    <3> HIDE DEF size, tag
    <3> QED
      BY <3>1, <2>2
  <2>4. \A b \in Steps \X Lanes : buf[<<b[1], b[2]>>] = buf[b]
    OBVIOUS
  <2>5. buf' = [b \in Steps \X Lanes |-> new(b[1], b[2])]
    <3> HIDE DEF new
    <3> QED
      BY <2>1, <2>3
  <2> HIDE DEF size, tag
  <2> QED
    BY <2>4, <2>5
<1>10. Reported' = Reported
  BY <1>3 DEF Reported
<1> HIDE DEF size
<1> QED
  BY <1>k, <1>1, <1>3, <1>5, <1>7, <1>8, <1>9, <1>10
  DEF Channel!Deliver, Channel!Steps, Channel!Lanes, Steps, Lanes, Reported

\* ncclIbTest reports a delivered receive, once.
LEMMA TestReports ==
  ASSUME DeepInv, DeepInv', NEW k \in Steps, RecvTest(k)
  PROVE  Channel!Report \/ UNCHANGED <<fifoTail, call, sent, dArrived, buf, Reported>>
<1>1. UNCHANGED <<fifoTail, call, sent, dArrived, buf>>
  BY DEF RecvTest, RecvTestDone, RecvTestImm, RecvTestFifo, RecvTestError, recvTestSame,
         sendVars
<1>2. CASE UNCHANGED result
  BY <1>1, <1>2 DEF Reported
<1>3. CASE ~UNCHANGED result
  <2>1. held[k] # NoReq /\ \E v : result' = [result EXCEPT ![k] = v]
    BY <1>3
    DEF RecvTest, RecvTestDone, RecvTestImm, RecvTestFifo, RecvTestError, ReturnRecvTest,
        RecvTestable
  <2>2. result[k] = <<>>
    BY <2>1 DEF DeepInv, ReportInv
  <2>3. \A j \in Steps : j # k => result'[j] = result[j]
    BY <2>1 DEF DeepInv, RingInv, BaseInv, AllShapes, RecvShape
  <2>4. CASE result'[k] = <<>>
    <3>1. Reported' = Reported
      BY <2>2, <2>3, <2>4 DEF Reported
    <3> QED
      BY <3>1, <1>1
  <2>5. CASE result'[k] # <<>>
    <3>1. Reported' = Reported \cup {k} /\ k \notin Reported
      BY <2>2, <2>3, <2>5 DEF Reported
    <3>2. k \in 1..dArrived
      <4>1. k <= dPolled' /\ dPolled' <= dArrived' /\ dPolled' \in Nat /\ dArrived' \in Nat
        BY <2>5 DEF DeepInv, DoneInv, RingInv, BaseInv, Ordered, AllShapes, NetShape
      <4> QED
        BY <4>1, <1>1 DEF Steps
    <3> QED
      BY <3>1, <3>2, <1>1 DEF Channel!Report, Reported
  <2> QED
    BY <2>4, <2>5
<1> QED
  BY <1>2, <1>3

LEMMA NextChannel ==
  ASSUME DeepInv, DeepInv', [Next]_vars
  PROVE  [Channel!ChannelNext]_(Channel!cvars)
<1> DEFINE same == UNCHANGED <<fifoTail, call, sent, dArrived, buf, Reported>>
<1> SUFFICES Channel!ChannelNext \/ same
  BY DEF Channel!cvars, Reported
<1>1. ASSUME UNCHANGED <<fifoTail, call, sent, dArrived, buf, result>> PROVE same
  BY <1>1 DEF Reported
<1>2. ASSUME NEW n \in GroupSizes, NEW tags \in [1..n -> Tags],
             NEW sizes \in [1..n -> Sizes],
             NEW mems \in [1..n -> Mems], Irecv(n, tags, sizes, mems)
      PROVE  Channel!ChannelNext
  BY <1>2, IrecvPosts DEF Channel!ChannelNext
<1>3. ASSUME NEW k \in Steps, RecvTest(k) PROVE Channel!ChannelNext \/ same
  BY <1>3, TestReports DEF Channel!ChannelNext
<1>4. ASSUME NEW tag \in Tags, NEW size \in Sizes, NEW mem \in Mems,
             Isend(tag, size, mem)
      PROVE  Channel!ChannelNext \/ same
  <2>1. CASE UNCHANGED serr
    BY <1>4, <2>1, IsendAccepts DEF Channel!ChannelNext
  <2>2. CASE serr' # serr
    <3>1. UNCHANGED sent
      BY <1>4, <2>2 DEF Isend
    <3> QED
      BY <3>1, <1>1, <1>4 DEF Isend, isendSame, recvVars
  <2> QED
    BY <2>1, <2>2
<1>5. ASSUME NEW q \in Pool, SendTest(q) PROVE same
  BY <1>1, <1>5
  DEF SendTest, SendTestDone, SendTestData, SendTestError, sendTestSame, recvVars
<1>6. ASSUME NEW k \in Steps, NEW r \in Lanes, FifoLand(k, r) PROVE same
  BY <1>1, <1>6 DEF FifoLand, netSame, recvVars, sendVars
<1>7. ASSUME IsendClear \/ FifoAck \/ DataAck \/ LinkDown \/ UNCHANGED vars
      PROVE  same
  BY <1>1, <1>7
  DEF IsendClear, FifoAck, DataAck, LinkDown, netSame, vars, recvVars, sendVars
<1>8. ASSUME DataArrive PROVE Channel!ChannelNext
  BY <1>8, ArrivalDelivers DEF Channel!ChannelNext
<1> HIDE DEF same
<1> QED
  BY <1>2, <1>3, <1>4, <1>5, <1>6, <1>7, <1>8 DEF Next

(***************************************************************************)
(* ImplementsChannel for every ring larger than the caller's window: the   *)
(* connection is a message channel, which delivers receives one by one and *)
(* whole, each with its data, and reports each once.                       *)
(***************************************************************************)
THEOREM TransportImplementsChannel ==
  ASSUME Window < MaxRequests
  PROVE  Spec => ImplementsChannel
<1>1. Init => Channel!ChannelInit
  BY InitChannel
<1>2. DeepInv /\ DeepInv' /\ [Next]_vars => [Channel!ChannelNext]_(Channel!cvars)
  BY NextChannel
<1> QED
  BY <1>1, <1>2, DeepAlways, PTL DEF Spec, ImplementsChannel, Channel!ChannelSpec

=============================================================================
