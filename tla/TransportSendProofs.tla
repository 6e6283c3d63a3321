-------------------------- MODULE TransportSendProofs --------------------------
(***************************************************************************)
(* The sender's half of Transport: its requests, the matches of the head   *)
(* slot and the messages posted; type correctness of the whole connection, *)
(* and that a receive reported done was delivered.                         *)
(***************************************************************************)
EXTENDS TransportProofs

-----------------------------------------------------------------------------
(***************************************************************************)
(* The inductive invariant of the sender.                                  *)
(***************************************************************************)

\* The request that lane r of step k names: in the matches of the head slot
\* until the step's message is posted, in the message from then on.
Id(k, r) ==
  IF k = fifoHead + 1 /\ spc = "idle" THEN fifoReqs[HeadSlot][r] ELSE msg[k].wr[r]

SheldInv ==
  \A q \in Pool : /\ sreqs[q].type # "unused" <=> q \in sheld
                  /\ sreqs[q].events \in 0..1

\* A named request waits for its one completion, and nothing else names it.
IdInv ==
  /\ \A k \in Steps, r \in Lanes : Id(k, r) # NoReq =>
       /\ sreqs[Id(k, r)].type # "unused" /\ sreqs[Id(k, r)].events = 1
       /\ sreqs[Id(k, r)].nreqs = call[k].n /\ r <= call[k].n
       /\ sreqs[Id(k, r)].data # NoData /\ place[k][r] # "page"
  /\ \A j, k \in Steps : \A i, r \in Lanes :
       Id(j, i) = Id(k, r) /\ Id(j, i) # NoReq => j = k /\ i = r

\* Only the head slot has matches, and only once it is announced.
RowInv ==
  \A s \in Slots, r \in Lanes : fifoReqs[s][r] # NoReq =>
    s = HeadSlot /\ (spc = "idle" => fifo[HeadSlot][1].idx = fifoHead + 1)

\* A message to be polled is whole, with data, and addressed to its step or to
\* no memory at all.
MsgInv ==
  \A k \in Steps :
    IF sPolled < k /\ k <= sPosted
    THEN /\ msg[k].n = call[k].n
         /\ \A r \in 1..call[k].n : /\ msg[k].wr[r] # NoReq
                                    /\ msg[k].addr[r] \in {k, Stray} /\ msg[k].data[r] # NoData
    ELSE \A r \in Lanes : msg[k].wr[r] = NoReq

RingInv == BaseInv /\ KeptInv
SendInv == SheldInv /\ IdInv /\ RowInv /\ MsgInv

-----------------------------------------------------------------------------
sendInvVars == <<sreqs, sheld, fifoReqs, spc, fifoHead, msg, call, place, sPolled,
                 sPosted, fifo>>

LEMMA SendInvSame == SendInv /\ UNCHANGED sendInvVars => SendInv'
<1> SUFFICES ASSUME SendInv, UNCHANGED sendInvVars PROVE SendInv'
  OBVIOUS
<1>1. \A k, r : Id(k, r)' = Id(k, r)
  BY DEF sendInvVars, Id, HeadSlot, Slot
<1>2. SheldInv'
  BY DEF SendInv, SheldInv, sendInvVars
<1>3. IdInv'
  BY <1>1 DEF SendInv, IdInv, sendInvVars
<1>4. RowInv' /\ MsgInv'
  BY DEF SendInv, RowInv, MsgInv, sendInvVars, HeadSlot, Slot
<1> QED
  BY <1>2, <1>3, <1>4 DEF SendInv

LEMMA IdType ==
  ASSUME AllShapes, NEW k \in Steps, NEW r \in Lanes
  PROVE  Id(k, r) \in Pool \cup {NoReq}
<1>1. HeadSlot \in Slots
  BY SlotInSlots DEF HeadSlot, AllShapes, SendShape
<1>2. fifoReqs[HeadSlot][r] \in Pool \cup {NoReq}
  BY <1>1 DEF AllShapes, SendShape
<1>3. msg[k].wr[r] \in Pool \cup {NoReq}
  BY DEF AllShapes, SendShape, Msgs
<1> QED
  BY <1>2, <1>3 DEF Id

\* A step that names a request is announced, and its message not polled.
LEMMA IdOpen ==
  ASSUME RingInv, SendInv, NEW k \in Steps, NEW r \in Lanes, Id(k, r) # NoReq
  PROVE  sPolled < k /\ k <= fifoTail
<1> USE DEF RingInv
<1>1. CASE k = fifoHead + 1 /\ spc = "idle"
  <2>1. HeadSlot \in Slots
    BY SlotInSlots DEF HeadSlot, BaseInv, AllShapes, SendShape
  <2>2. fifo[HeadSlot][1].idx = fifoHead + 1
    BY <1>1, <2>1 DEF Id, SendInv, RowInv
  <2>3. k <= fifoTail
    BY <1>1, <2>2, HeadAnnounced
  <2>4. sPolled < k
    BY <1>1 DEF BaseInv, Ordered, AllShapes, SendShape, NetShape
  <2> QED
    BY <2>3, <2>4
<1>2. CASE ~(k = fifoHead + 1 /\ spc = "idle")
  <2>1. sPolled < k /\ k <= sPosted
    BY <1>2 DEF Id, SendInv, MsgInv
  <2> QED
    BY <2>1 DEF BaseInv, Ordered, AllShapes, RecvShape, SendShape, Steps
<1> QED
  BY <1>1, <1>2

LEMMA IrecvSend ==
  ASSUME RingInv, SendInv, NEW n \in GroupSizes, NEW tags \in [1..n -> Tags],
         NEW sizes \in [1..n -> Sizes],
         NEW mems \in [1..n -> Mems], Irecv(n, tags, sizes, mems)
  PROVE  SendInv'
<1> DEFINE t == fifoTail + 1
<1>1. /\ UNCHANGED <<sreqs, sheld, fifoReqs, spc, fifoHead, msg, sPolled, sPosted, fifo>>
      /\ call' = [call EXCEPT ![t] = [n |-> n, tags |-> tags, sizes |-> sizes]]
      /\ place' = [place EXCEPT ![t] = mems]
  BY DEF Irecv, sendVars
<1>2. ASSUME NEW k \in Steps, k <= fifoTail
      PROVE  call'[k] = call[k] /\ place'[k] = place[k]
  <2>1. k # t
    BY <1>2 DEF RingInv, BaseInv, AllShapes, RecvShape, Steps
  <2> QED
    BY <1>1, <2>1 DEF RingInv, BaseInv, AllShapes, RecvShape
<1>3. \A k, r : Id(k, r)' = Id(k, r)
  BY <1>1 DEF Id, HeadSlot, Slot
<1>4. SheldInv' /\ RowInv'
  BY <1>1 DEF SendInv, SheldInv, RowInv, HeadSlot, Slot
<1>5. IdInv'
  <2>1. ASSUME NEW k \in Steps, NEW r \in Lanes, Id(k, r) # NoReq
        PROVE  call'[k] = call[k] /\ place'[k] = place[k]
    BY <2>1, <1>2, IdOpen
  <2>2. ASSUME NEW k \in Steps, NEW r \in Lanes, Id(k, r)' # NoReq
        PROVE  /\ sreqs'[Id(k, r)'].type # "unused" /\ sreqs'[Id(k, r)'].events = 1
               /\ sreqs'[Id(k, r)'].nreqs = call'[k].n /\ r <= call'[k].n
               /\ sreqs'[Id(k, r)'].data # NoData /\ place'[k][r] # "page"
    <3>1. Id(k, r)' = Id(k, r) /\ sreqs' = sreqs
      BY <1>1, <1>3
    <3>2. call'[k] = call[k] /\ place'[k] = place[k]
      BY <3>1, <2>1, <2>2
    <3>3. /\ sreqs[Id(k, r)].type # "unused" /\ sreqs[Id(k, r)].events = 1
          /\ sreqs[Id(k, r)].nreqs = call[k].n /\ r <= call[k].n
          /\ sreqs[Id(k, r)].data # NoData /\ place[k][r] # "page"
      BY <3>1, <2>2 DEF SendInv, IdInv
    <3> QED
      BY <3>1, <3>2, <3>3
  <2>3. \A j, k \in Steps : \A i, r \in Lanes :
          Id(j, i)' = Id(k, r)' /\ Id(j, i)' # NoReq => j = k /\ i = r
    BY <1>3 DEF SendInv, IdInv
  <2> QED
    BY <2>2, <2>3 DEF IdInv
<1>6. MsgInv'
  <2>1. \A k \in Steps : k <= sPosted => k <= fifoTail
    BY DEF RingInv, BaseInv, Ordered, AllShapes, RecvShape, SendShape, Steps
  <2>2. \A k \in Steps : k <= sPosted => call'[k] = call[k]
    BY <1>2, <2>1
  <2> QED
    BY <1>1, <2>2 DEF SendInv, MsgInv
<1> QED
  BY <1>4, <1>5, <1>6 DEF SendInv

LEMMA FifoLandSend ==
  ASSUME RingInv, RingInv', SendInv, Window < MaxRequests,
         NEW k \in Steps, NEW r \in Lanes, FifoLand(k, r)
  PROVE  SendInv'
<1>1. /\ UNCHANGED <<sreqs, sheld, fifoReqs, spc, fifoHead, fifoTail, msg, call, place,
                     sPolled, sPosted, elems>>
      /\ <<k, r>> \in wire
      /\ fifo' = [fifo EXCEPT ![Slot(k - 1)][r] = elems[Slot(k - 1)][r]]
  BY DEF FifoLand, netSame, recvVars, sendVars
<1>2. \A j, i : Id(j, i)' = Id(j, i)
  BY <1>1 DEF Id, HeadSlot, Slot
<1>3. SheldInv' /\ MsgInv'
  BY <1>1 DEF SendInv, SheldInv, MsgInv
<1>4. IdInv'
  BY <1>1, <1>2 DEF SendInv, IdInv
<1>5. ASSUME fifo[HeadSlot][1].idx = fifoHead + 1
      PROVE  fifo'[HeadSlot][1].idx = fifoHead + 1
  <2> DEFINE h == fifoHead + 1
  <2>1. h \in Steps /\ h <= fifoTail /\ fifoHead \in Nat
    BY <1>5, HeadAnnounced DEF RingInv, BaseInv, AllShapes, SendShape
  <2>2. HeadSlot = Slot(h - 1) /\ fifoHead < h
    BY <2>1 DEF HeadSlot
  <2>3. fifoHead < k /\ k <= fifoTail /\ r <= call[k].n
    <3>1. sPosted < k /\ k <= fifoTail /\ r <= call[k].n
      BY <1>1 DEF RingInv, KeptInv, WireInv
    <3> QED
      BY <3>1 DEF RingInv, BaseInv, Ordered, AllShapes, SendShape, Steps
  <2>4. HeadSlot \in Slots /\ Slot(k - 1) \in Slots
    BY <2>1, SlotInSlots DEF HeadSlot, Steps
  <2>5. CASE Slot(k - 1) = HeadSlot /\ r = 1
    <3>1. k = h
      BY <2>1, <2>2, <2>3, <2>5, OpenSlotsDiffer DEF RingInv
    <3> QED
      BY <3>1, <1>1, <1>5, <2>2, <2>5 DEF RingInv, KeptInv, WireInv
  <2>6. CASE ~(Slot(k - 1) = HeadSlot /\ r = 1)
    <3>1. fifo \in [Slots -> [Lanes -> Elems]]
      BY DEF RingInv, BaseInv, AllShapes, NetShape
    <3>2. fifo'[HeadSlot][1] = fifo[HeadSlot][1]
      BY <3>1, <1>1, <2>4, <2>6
    <3> QED
      BY <3>2, <1>5
  <2> QED
    BY <2>5, <2>6
<1>6. RowInv'
  <2>1. HeadSlot' = HeadSlot
    BY <1>1 DEF HeadSlot, Slot
  <2> QED
    BY <2>1, <1>1, <1>5 DEF SendInv, RowInv
<1> QED
  BY <1>3, <1>4, <1>6 DEF SendInv

LEMMA IsendClearSend ==
  ASSUME RingInv, SendInv, IsendClear
  PROVE  SendInv'
<1>1. /\ UNCHANGED <<sreqs, sheld, msg, call, place, sPolled, sPosted>>
      /\ spc = "clear" /\ spc' = "idle" /\ fifoHead' = fifoHead + 1
      /\ fifoReqs' = [fifoReqs EXCEPT ![HeadSlot] = [r \in Lanes |-> NoReq]]
  BY DEF IsendClear, recvVars
<1>2. /\ fifoHead \in Nat /\ sPosted = fifoHead + 1 /\ HeadSlot \in Slots
      /\ fifoReqs \in [Slots -> [Lanes -> Pool \cup {NoReq}]]
  BY <1>1, SlotInSlots
  DEF RingInv, BaseInv, Ordered, AllShapes, SendShape, HeadSlot
<1>3. \A s \in Slots, r \in Lanes : fifoReqs'[s][r] = NoReq
  BY <1>1, <1>2 DEF SendInv, RowInv
<1>4. HeadSlot' \in Slots
  BY <1>1, <1>2, SlotInSlots DEF HeadSlot, Slot, Slots
<1>5. ASSUME NEW k \in Steps, NEW r \in Lanes PROVE Id(k, r)' = Id(k, r)
  <2>1. Id(k, r) = msg[k].wr[r]
    BY <1>1 DEF Id
  <2>2. CASE k = fifoHead + 2
    <3>1. ~(k <= sPosted)
      BY <1>2, <2>2
    <3>2. msg[k].wr[r] = NoReq
      BY <3>1 DEF SendInv, MsgInv
    <3>3. Id(k, r)' = fifoReqs'[HeadSlot'][r]
      BY <2>2, <1>1, <1>2 DEF Id
    <3> QED
      BY <2>1, <3>2, <3>3, <1>3, <1>4
  <2>3. CASE k # fifoHead + 2
    <3>1. k # fifoHead' + 1
      BY <2>3, <1>1, <1>2
    <3> QED
      BY <3>1, <2>1, <1>1 DEF Id
  <2> QED
    BY <2>2, <2>3
<1>6. SheldInv' /\ MsgInv'
  BY <1>1 DEF SendInv, SheldInv, MsgInv
<1>7. IdInv'
  BY <1>1, <1>5 DEF SendInv, IdInv
<1>8. RowInv'
  BY <1>3 DEF RowInv, Slots
<1> QED
  BY <1>6, <1>7, <1>8 DEF SendInv

-----------------------------------------------------------------------------
(***************************************************************************)
(* What an accepted send does: q is taken for element r of the head slot,  *)
(* and when that was the last element the message of HeadStep is posted.   *)
(***************************************************************************)
HeadStep == fifoHead + 1
HeadCount == call[HeadStep].n

HeadMsg ==
  [n |-> HeadCount, wr |-> fifoReqs'[HeadSlot],
   from |-> [i \in Lanes |-> IF i <= HeadCount
     THEN sreqs'[fifoReqs'[HeadSlot][i]].mem ELSE "gpu"],
   addr |-> [i \in Lanes |-> IF i <= HeadCount THEN fifo[HeadSlot][i].addr ELSE 0],
   data |-> [i \in Lanes |-> IF i <= HeadCount
     THEN sreqs'[fifoReqs'[HeadSlot][i]].data ELSE NoData]]

PostsHead ==
  /\ sPosted' = HeadStep /\ spc' = "clear"
  /\ \A i \in 1..HeadCount : fifoReqs'[HeadSlot][i] # NoReq
  /\ msg' = [msg EXCEPT ![HeadStep] = HeadMsg]

Takes(q, r, mem, data) ==
  /\ fifoReqs[HeadSlot][r] = NoReq /\ sreqs[q].type = "unused"
  /\ sreqs' = [sreqs EXCEPT ![q] = NewSend(HeadCount, mem, data)]
  /\ sheld' = sheld \cup {q}
  /\ fifoReqs' = [fifoReqs EXCEPT ![HeadSlot] = [@ EXCEPT ![r] = q]]
  /\ PostsHead \/ UNCHANGED <<msg, sPosted, spc>>

\* Lane r of the head step is the first one left for the tag, with room for size
\* and with an address.
Entitled(r, tag, size) ==
  /\ call[HeadStep].tags[r] = tag /\ size <= call[HeadStep].sizes[r]
  /\ place[HeadStep][r] # "page"
  /\ \A i \in 1..r-1 : call[HeadStep].tags[i] = tag => fifoReqs[HeadSlot][i] # NoReq

NextSent(tag, size) == [tag |-> tag, num |-> sent[tag] + 1, size |-> size]

LEMMA AcceptTakes ==
  ASSUME RingInv, NEW tag \in Tags, NEW size \in Sizes, NEW mem \in Mems,
         Isend(tag, size, mem),
         UNCHANGED serr
  PROVE  /\ HeadStep \in Steps /\ HeadCount \in 1..MaxRecvs
         /\ NextSent(tag, size) \in Payloads /\ NextSent(tag, size) # NoData
         /\ sent' = [sent EXCEPT ![tag] = @ + 1]
         /\ \E r \in 1..HeadCount, q \in Pool :
              Entitled(r, tag, size) /\ Takes(q, r, mem, NextSent(tag, size))
<1> DEFINE data == NextSent(tag, size)
<1>1. HeadReady /\ spc = "idle" /\ serr = "none"
  BY DEF Isend
<1>2. fifo[HeadSlot][1].idx = HeadStep
  BY <1>1 DEF HeadReady, HeadStep
<1>3. /\ HeadStep \in Steps /\ HeadCount \in 1..MaxRecvs
      /\ fifo[HeadSlot][1].nreqs = HeadCount
      /\ \A r \in 1..HeadCount : fifo[HeadSlot][r] = Announced(HeadStep, r)
  BY <1>1, <1>2, HeadAnnounced DEF RingInv, HeadStep, HeadCount
<1>5. PICK r \in 1..HeadCount :
        /\ Unmatched(r, tag) /\ ~Refused(r, size) /\ AcceptSend(r, tag, size, mem)
        /\ \A i \in 1..r-1 : ~Unmatched(i, tag)
  <2>1. PICK r \in 1..HeadCount :
          /\ Unmatched(r, tag) /\ \A i \in 1..r-1 : ~Unmatched(i, tag)
          /\ IF Refused(r, size)
             THEN serr' = (IF Oversize(r, size) THEN "usage" ELSE "internal")
             ELSE AcceptSend(r, tag, size, mem)
    BY <1>3 DEF Isend
  <2>2. serr' # "usage" /\ serr' # "internal"
    BY <1>1
  <2> QED
    BY <2>1, <2>2
<1>4. place[HeadStep][r] # "page"
  <2>1. fifo[HeadSlot][r] = Announced(HeadStep, r)
    BY <1>3
  <2>2. fifo[HeadSlot][r].addr = Address(place[HeadStep][r], HeadStep)
    BY <2>1 DEF Announced
  <2>3. Address("page", HeadStep) = 0
    BY DEF Address
  <2> QED
    BY <2>2, <2>3, <1>5 DEF Refused, NoAddress
<1>13. Entitled(r, tag, size)
  <2>1. ASSUME NEW i \in 1..HeadCount
        PROVE  /\ fifo[HeadSlot][i].tag = call[HeadStep].tags[i]
               /\ fifo[HeadSlot][i].size = call[HeadStep].sizes[i]
    <3>1. fifo[HeadSlot][i] = Announced(HeadStep, i)
      BY <1>3
    <3> QED
      BY <3>1 DEF Announced
  <2>2. size <= call[HeadStep].sizes[r]
    <3>1. ~(size > call[HeadStep].sizes[r])
      BY <1>5, <2>1 DEF Refused, Oversize
    <3>2. fifo[HeadSlot][r].size \in Sizes \cup {0}
      <4>1. HeadSlot \in Slots /\ r \in Lanes
        BY <1>3, SlotInSlots, ConstantsOK
        DEF HeadSlot, RingInv, BaseInv, AllShapes, SendShape, Lanes
      <4>2. fifo[HeadSlot][r] \in Elems
        BY <4>1 DEF RingInv, BaseInv, AllShapes, NetShape
      <4> QED
        BY <4>2 DEF Elems
    <3>3. call[HeadStep].sizes[r] \in Nat /\ size \in Nat
      <4>1. fifo[HeadSlot][r].size = call[HeadStep].sizes[r]
        BY <2>1
      <4>2. Sizes \cup {0} \subseteq Nat
        BY ConstantsOK
      <4>3. fifo[HeadSlot][r].size \in Nat /\ size \in Nat
        BY <3>2, <4>2
      <4> QED
        BY <4>1, <4>3
    <3> QED
      BY <3>1, <3>3
  <2>3. \A i \in 1..r-1 : i \in 1..HeadCount
    BY <1>3, ConstantsOK
  <2> QED
    BY <1>4, <1>5, <2>1, <2>2, <2>3 DEF Entitled, Unmatched
<1> DEFINE reqs(q) == [sreqs EXCEPT ![q] = NewSend(HeadCount, mem, data)]
           row(q) == [fifoReqs[HeadSlot] EXCEPT ![r] = q]
<1>6. PICK q \in Pool :
        /\ GetRequest(sreqs, q)
        /\ sreqs' = reqs(q) /\ sheld' = sheld \cup {q}
        /\ fifoReqs' = [fifoReqs EXCEPT ![HeadSlot] = row(q)]
        /\ IF \A i \in 1..HeadCount : row(q)[i] # NoReq
           THEN MultiSend(reqs(q), row(q), HeadCount)
           ELSE UNCHANGED <<msg, sPosted, spc>>
        /\ sent' = [sent EXCEPT ![tag] = @ + 1]
  BY <1>3, <1>5 DEF AcceptSend, NextSent
<1>7. fifoReqs'[HeadSlot] = row(q)
  <2>1. HeadSlot \in Slots
    BY SlotInSlots DEF HeadSlot, RingInv, BaseInv, AllShapes, SendShape
  <2> QED
    BY <1>6, <2>1 DEF RingInv, BaseInv, AllShapes, SendShape
<1>8. fifoReqs[HeadSlot][r] = NoReq /\ sreqs[q].type = "unused"
  BY <1>5, <1>6 DEF Unmatched, GetRequest
<1>9. sPosted + 1 = HeadStep
  BY <1>1 DEF RingInv, BaseInv, Ordered, HeadStep
<1>10. data \in Payloads /\ data # NoData
  <2>1. sent[tag] + 1 \in Nat \ {0}
    BY DEF RingInv, BaseInv, AllShapes, SendShape
  <2>2. data.num # NoData.num
    BY <2>1 DEF NoData, NextSent
  <2> QED
    BY <2>1, <2>2 DEF Payloads, NextSent
<1>11. PostsHead \/ UNCHANGED <<msg, sPosted, spc>>
  <2> HIDE DEF row, reqs
  <2>1. CASE \A i \in 1..HeadCount : row(q)[i] # NoReq
    <3>1. MultiSend(reqs(q), row(q), HeadCount)
      BY <1>6, <2>1
    <3>2. /\ sPosted' = HeadStep /\ spc' = "clear"
          /\ msg' = [msg EXCEPT ![HeadStep] =
               [n |-> HeadCount, wr |-> row(q),
                from |-> [i \in Lanes |-> IF i <= HeadCount
                  THEN reqs(q)[row(q)[i]].mem ELSE "gpu"],
                addr |-> [i \in Lanes |-> IF i <= HeadCount
                  THEN fifo[HeadSlot][i].addr ELSE 0],
                data |-> [i \in Lanes |-> IF i <= HeadCount
                  THEN reqs(q)[row(q)[i]].data ELSE NoData]]]
      BY <3>1, <1>9 DEF MultiSend
    <3>4. \A i \in 1..HeadCount : fifoReqs'[HeadSlot][i] # NoReq
      BY <2>1, <1>7
    <3>5. sreqs' = reqs(q)
      BY <1>6
    <3> QED
      BY <3>2, <3>4, <3>5, <1>7 DEF PostsHead, HeadMsg
  <2>2. CASE ~(\A i \in 1..HeadCount : row(q)[i] # NoReq)
    BY <1>6, <2>2
  <2> QED
    BY <2>1, <2>2
<1>12. Takes(q, r, mem, data)
  BY <1>6, <1>8, <1>11 DEF Takes
<1> HIDE DEF data, reqs, row
<1> QED
  BY <1>3, <1>6, <1>10, <1>12, <1>13 DEF data

\* Lane r of the head step now names q; every other name is what it was.
LEMMA TakesIds ==
  ASSUME RingInv, SendInv, spc = "idle", UNCHANGED fifoHead,
         HeadStep \in Steps, HeadCount \in 1..MaxRecvs,
         NEW q \in Pool, NEW r \in 1..HeadCount, NEW mem, NEW data,
         Takes(q, r, mem, data)
  PROVE  /\ Id(HeadStep, r)' = q
         /\ \A i \in Lanes : Id(HeadStep, i)' = fifoReqs'[HeadSlot][i]
         /\ \A k \in Steps, i \in Lanes : k # HeadStep \/ i # r => Id(k, i)' = Id(k, i)
         /\ \A s \in Slots, i \in Lanes :
              s # HeadSlot \/ i # r => fifoReqs'[s][i] = fifoReqs[s][i]
         /\ \A k \in Steps : k # HeadStep => msg'[k] = msg[k]
<1>1. HeadSlot \in Slots /\ HeadSlot' = HeadSlot
  BY SlotInSlots DEF HeadSlot, Slot, RingInv, BaseInv, AllShapes, SendShape
<1>2. r \in Lanes
  BY ConstantsOK DEF Lanes
<1>3. fifoReqs \in [Slots -> [Lanes -> Pool \cup {NoReq}]] /\ msg \in [Steps -> Msgs]
  BY DEF RingInv, BaseInv, AllShapes, SendShape
<1>4. fifoReqs' = [fifoReqs EXCEPT ![HeadSlot] = [@ EXCEPT ![r] = q]]
  BY DEF Takes
<1>5. fifoReqs'[HeadSlot][r] = q
  BY <1>1, <1>2, <1>3, <1>4
<1>6. \A s \in Slots, i \in Lanes :
        s # HeadSlot \/ i # r => fifoReqs'[s][i] = fifoReqs[s][i]
  BY <1>1, <1>2, <1>3, <1>4
<1>7. \A k \in Steps : k # HeadStep => msg'[k] = msg[k]
  BY <1>3 DEF Takes, PostsHead
<1>8. \A i \in Lanes : Id(HeadStep, i) = fifoReqs[HeadSlot][i]
  BY DEF Id, HeadStep
<1>9. \A i \in Lanes : Id(HeadStep, i)' = fifoReqs'[HeadSlot][i]
  <2>1. CASE UNCHANGED <<msg, sPosted, spc>>
    BY <2>1, <1>1 DEF Id, HeadStep
  <2>2. CASE PostsHead
    <3>1. spc' = "clear" /\ msg'[HeadStep] = HeadMsg
      BY <2>2, <1>3 DEF PostsHead
    <3>2. msg'[HeadStep].wr = fifoReqs'[HeadSlot]
      BY <3>1 DEF HeadMsg
    <3>3. HeadStep' = HeadStep
      BY DEF HeadStep
    <3> QED
      BY <3>1, <3>2, <3>3 DEF Id
  <2> QED
    BY <2>1, <2>2 DEF Takes
<1>10. \A k \in Steps, i \in Lanes : k # HeadStep => Id(k, i)' = Id(k, i)
  BY <1>7 DEF Id, HeadStep
<1>11. HeadStep' = HeadStep
  BY DEF HeadStep
<1> QED
  <2>1. \A k \in Steps, i \in Lanes : k = HeadStep /\ i # r => Id(k, i)' = Id(k, i)
    BY <1>1, <1>6, <1>8, <1>9, <1>11
  <2>2. Id(HeadStep, r)' = q
    BY <1>2, <1>5, <1>9, <1>11
  <2> QED
    BY <2>1, <2>2, <1>6, <1>7, <1>9, <1>10

LEMMA TakesReqs ==
  ASSUME RingInv, SendInv, spc = "idle", UNCHANGED <<fifoHead, call, place>>,
         HeadStep \in Steps, HeadCount \in 1..MaxRecvs,
         NEW q \in Pool, NEW r \in 1..HeadCount, place[HeadStep][r] # "page",
         NEW mem, NEW data, data # NoData,
         Takes(q, r, mem, data)
  PROVE  SheldInv' /\ IdInv'
<1>1. r \in Lanes /\ q # NoReq
  BY ConstantsOK DEF Lanes, Pool, NoReq
<1>2. sreqs'[q] = [type |-> "send", events |-> 1, nreqs |-> HeadCount, mem |-> mem,
                   data |-> data]
  BY DEF Takes, NewSend, RingInv, BaseInv, AllShapes, SendShape
<1>3. \A p \in Pool : p # q => sreqs'[p] = sreqs[p]
  BY DEF Takes, RingInv, BaseInv, AllShapes, SendShape
<1>4. Id(HeadStep, r)' = q
  BY TakesIds
<1>5. \A k \in Steps, i \in Lanes : k # HeadStep \/ i # r => Id(k, i)' = Id(k, i)
  BY TakesIds
<1>6. \A k \in Steps, i \in Lanes : Id(k, i) # q
  <2>1. sreqs[q].type = "unused"
    BY DEF Takes
  <2> QED
    BY <2>1, <1>1 DEF SendInv, IdInv
<1>11. HeadStep' = HeadStep
  BY DEF HeadStep
<1>7. SheldInv'
  <2>1. sheld' = sheld \cup {q}
    BY DEF Takes
  <2>2. ASSUME NEW p \in Pool
        PROVE  (sreqs'[p].type # "unused" <=> p \in sheld') /\ sreqs'[p].events \in 0..1
    <3>1. CASE p = q
      BY <3>1, <2>1, <1>2
    <3>2. CASE p # q
      <4>1. (sreqs[p].type # "unused" <=> p \in sheld) /\ sreqs[p].events \in 0..1
        BY DEF SendInv, SheldInv
      <4> QED
        BY <3>2, <4>1, <2>1, <1>3
    <3> QED
      BY <3>1, <3>2
  <2> QED
    BY <2>2 DEF SheldInv
<1>8. ASSUME NEW k \in Steps, NEW i \in Lanes, Id(k, i)' # NoReq
      PROVE  /\ sreqs'[Id(k, i)'].type # "unused" /\ sreqs'[Id(k, i)'].events = 1
             /\ sreqs'[Id(k, i)'].nreqs = call'[k].n /\ i <= call'[k].n
             /\ sreqs'[Id(k, i)'].data # NoData /\ place'[k][i] # "page"
  <2>1. CASE k = HeadStep /\ i = r
    <3>1. Id(k, i)' = q
      BY <2>1, <1>4, <1>11
    <3>2. call'[k].n = HeadCount /\ r <= HeadCount
      BY <2>1 DEF HeadCount
    <3> QED
      BY <2>1, <3>1, <3>2, <1>2
  <2>2. CASE k # HeadStep \/ i # r
    <3>1. Id(k, i)' = Id(k, i)
      BY <2>2, <1>5
    <3>2. Id(k, i) # q /\ Id(k, i) \in Pool
      BY <3>1, <1>6, <1>8, IdType DEF RingInv, BaseInv
    <3>3. sreqs'[Id(k, i)] = sreqs[Id(k, i)]
      BY <3>2, <1>3
    <3>4. /\ sreqs[Id(k, i)].type # "unused" /\ sreqs[Id(k, i)].events = 1
          /\ sreqs[Id(k, i)].nreqs = call[k].n /\ i <= call[k].n
          /\ sreqs[Id(k, i)].data # NoData /\ place[k][i] # "page"
      BY <3>1, <1>8 DEF SendInv, IdInv
    <3> QED
      BY <3>1, <3>3, <3>4
  <2> QED
    BY <2>1, <2>2
<1>9. ASSUME NEW j \in Steps, NEW k \in Steps, NEW i \in Lanes, NEW l \in Lanes,
             Id(j, i)' = Id(k, l)', Id(j, i)' # NoReq
      PROVE  j = k /\ i = l
  <2>1. CASE j = HeadStep /\ i = r
    <3>1. Id(k, l)' = q
      BY <1>9, <2>1, <1>4, <1>11
    <3>2. ~(k # HeadStep \/ l # r)
      BY <3>1, <1>5, <1>6
    <3> QED
      BY <2>1, <3>2
  <2>3. CASE k = HeadStep /\ l = r
    <3>1. Id(j, i)' = q
      BY <1>9, <2>3, <1>4, <1>11
    <3>2. ~(j # HeadStep \/ i # r)
      BY <3>1, <1>5, <1>6
    <3> QED
      BY <2>3, <3>2
  <2>2. CASE (j # HeadStep \/ i # r) /\ (k # HeadStep \/ l # r)
    <3>1. Id(j, i) = Id(k, l) /\ Id(j, i) # NoReq
      BY <1>9, <2>2, <1>5
    <3> QED
      BY <3>1 DEF SendInv, IdInv
  <2> QED
    BY <2>1, <2>2, <2>3
<1> QED
  BY <1>7, <1>8, <1>9 DEF IdInv

LEMMA TakesMsg ==
  ASSUME RingInv, SendInv, spc = "idle", UNCHANGED <<fifoHead, call, place, sPolled, fifo>>,
         HeadReady, HeadStep \in Steps, HeadCount \in 1..MaxRecvs,
         NEW q \in Pool, NEW r \in 1..HeadCount, place[HeadStep][r] # "page",
         NEW mem, NEW data, data # NoData,
         Takes(q, r, mem, data)
  PROVE  RowInv' /\ MsgInv'
<1>1. RowInv'
  <2>1. HeadSlot' = HeadSlot
    BY DEF HeadSlot, Slot
  <2>2. \A s \in Slots, i \in Lanes :
          s # HeadSlot \/ i # r => fifoReqs'[s][i] = fifoReqs[s][i]
    BY TakesIds
  <2>3. \A s \in Slots, i \in Lanes : fifoReqs'[s][i] # NoReq => s = HeadSlot
    BY <2>2 DEF SendInv, RowInv
  <2> QED
    BY <2>1, <2>3 DEF RowInv, HeadReady
<1>2. /\ fifoHead \in Nat /\ sPolled \in Nat /\ sPosted = fifoHead /\ sPolled <= sPosted
      /\ msg \in [Steps -> Msgs]
  BY DEF RingInv, BaseInv, Ordered, AllShapes, SendShape, NetShape
<1>3. ASSUME NEW k \in Steps, k # HeadStep
      PROVE  IF sPolled' < k /\ k <= sPosted'
             THEN /\ msg'[k].n = call'[k].n
                  /\ \A i \in 1..call'[k].n :
                       /\ msg'[k].wr[i] # NoReq
                       /\ msg'[k].addr[i] \in {k, Stray} /\ msg'[k].data[i] # NoData
             ELSE \A i \in Lanes : msg'[k].wr[i] = NoReq
  <2>1. k <= sPosted' <=> k <= sPosted
    <3>1. sPosted' = sPosted \/ sPosted' = fifoHead + 1
      BY DEF Takes, PostsHead, HeadStep
    <3> QED
      BY <3>1, <1>2, <1>3 DEF HeadStep, Steps
  <2>2. msg'[k] = msg[k]
    BY <1>3, TakesIds
  <2>3. IF sPolled < k /\ k <= sPosted
        THEN /\ msg[k].n = call[k].n
             /\ \A i \in 1..call[k].n :
                  /\ msg[k].wr[i] # NoReq
                  /\ msg[k].addr[i] \in {k, Stray} /\ msg[k].data[i] # NoData
        ELSE \A i \in Lanes : msg[k].wr[i] = NoReq
    BY DEF SendInv, MsgInv
  <2> QED
    BY <2>1, <2>2, <2>3
<1>4. CASE UNCHANGED <<msg, sPosted, spc>>
  <2>1. MsgInv /\ UNCHANGED <<msg, sPosted, sPolled, call>>
    BY <1>4 DEF SendInv
  <2> QED
    BY <2>1, <1>1 DEF MsgInv
<1>5. CASE PostsHead
  <2>1. /\ \A i \in 1..HeadCount : fifoReqs'[HeadSlot][i] # NoReq
        /\ msg'[HeadStep] = HeadMsg /\ sPosted' = HeadStep
    BY <1>5, <1>2 DEF PostsHead
  <2>2. /\ msg'[HeadStep].n = HeadCount /\ msg'[HeadStep].wr = fifoReqs'[HeadSlot]
        /\ msg'[HeadStep].addr = [i \in Lanes |-> IF i <= HeadCount THEN fifo[HeadSlot][i].addr
                                                            ELSE 0]
        /\ msg'[HeadStep].data = [i \in Lanes |-> IF i <= HeadCount
             THEN sreqs'[fifoReqs'[HeadSlot][i]].data ELSE NoData]
    BY <2>1 DEF HeadMsg
  <2>3. ASSUME NEW i \in 1..HeadCount
        PROVE  /\ msg'[HeadStep].wr[i] # NoReq
               /\ msg'[HeadStep].addr[i] \in {HeadStep, Stray} /\ msg'[HeadStep].data[i] # NoData
    <3>1. i \in Lanes /\ i <= HeadCount
      BY ConstantsOK DEF Lanes
    <3>2. Id(HeadStep, i)' = fifoReqs'[HeadSlot][i] /\ fifoReqs'[HeadSlot][i] # NoReq
      BY <2>1, <3>1, TakesIds
    <3>3. IdInv' /\ HeadStep' = HeadStep
      BY TakesReqs DEF HeadStep
    <3>4. sreqs'[Id(HeadStep, i)'].data # NoData /\ place[HeadStep][i] # "page"
      BY <3>1, <3>2, <3>3 DEF IdInv
    <3>5. sreqs'[fifoReqs'[HeadSlot][i]].data # NoData
      BY <3>2, <3>4
    <3>6. msg'[HeadStep].data[i] = sreqs'[fifoReqs'[HeadSlot][i]].data
      BY <2>2, <3>1
    <3>7. msg'[HeadStep].addr[i] \in {HeadStep, Stray}
      <4>1. fifo[HeadSlot][i] = Announced(HeadStep, i) /\ HeadStep <= fifoTail
        BY HeadAnnounced DEF RingInv, HeadReady, HeadStep, HeadCount
      <4>2. msg'[HeadStep].addr[i] = Address(place[HeadStep][i], HeadStep)
        BY <4>1, <2>2, <3>1 DEF Announced
      <4>3. place[HeadStep][i] \in Memory
        BY <4>1 DEF RingInv, KeptInv, WireInv, HeadCount
      <4> QED
        BY <4>2, <4>3, <3>4 DEF Memory, Address
    <3> QED
      BY <2>1, <2>2, <3>5, <3>6, <3>7
  <2>4. sPolled' < HeadStep /\ HeadStep <= sPosted' /\ call'[HeadStep].n = HeadCount
    <3>1. sPosted' = HeadStep
      BY <2>1
    <3> QED
      BY <3>1, <1>2 DEF HeadStep, HeadCount
  <2>5. IF sPolled' < HeadStep /\ HeadStep <= sPosted'
        THEN /\ msg'[HeadStep].n = call'[HeadStep].n
             /\ \A i \in 1..call'[HeadStep].n :
                  /\ msg'[HeadStep].wr[i] # NoReq
                  /\ msg'[HeadStep].addr[i] \in {HeadStep, Stray} /\ msg'[HeadStep].data[i] # NoData
        ELSE \A i \in Lanes : msg'[HeadStep].wr[i] = NoReq
    BY <2>2, <2>3, <2>4
  <2>6. ASSUME NEW k \in Steps
        PROVE  IF sPolled' < k /\ k <= sPosted'
               THEN /\ msg'[k].n = call'[k].n
                    /\ \A i \in 1..call'[k].n :
                         /\ msg'[k].wr[i] # NoReq
                         /\ msg'[k].addr[i] \in {k, Stray} /\ msg'[k].data[i] # NoData
               ELSE \A i \in Lanes : msg'[k].wr[i] = NoReq
    <3>1. CASE k = HeadStep
      BY <2>5, <3>1
    <3>2. CASE k # HeadStep
      BY <1>3, <3>2
    <3> QED
      BY <3>1, <3>2
  <2> QED
    BY <1>1, <2>6 DEF MsgInv
<1> QED
  BY <1>1, <1>4, <1>5 DEF Takes

LEMMA IsendSend ==
  ASSUME RingInv, SendInv, NEW tag \in Tags, NEW size \in Sizes, NEW mem \in Mems,
         Isend(tag, size, mem)
  PROVE  SendInv'
<1>1. UNCHANGED <<fifo, fifoHead, call, place, sPolled>> /\ spc = "idle"
  BY DEF Isend, isendSame, recvVars
<1>2. CASE serr' # serr
  <2>1. UNCHANGED <<sreqs, fifoReqs, spc, sheld, sent, msg, sPosted>>
    BY <1>2 DEF Isend
  <2> QED
    BY <2>1, <1>1, SendInvSame DEF sendInvVars
<1>3. CASE UNCHANGED serr
  <2>1. HeadStep \in Steps /\ HeadCount \in 1..MaxRecvs /\ NextSent(tag, size) # NoData
    BY <1>3, AcceptTakes
  <2>2. PICK r \in 1..HeadCount, q \in Pool :
          Takes(q, r, mem, NextSent(tag, size)) /\ place[HeadStep][r] # "page"
    BY <1>3, AcceptTakes DEF Entitled
  <2>3. HeadReady
    BY DEF Isend
  <2>4. SheldInv' /\ IdInv'
    BY <1>1, <2>1, <2>2, TakesReqs
  <2>5. RowInv' /\ MsgInv'
    BY <1>1, <2>1, <2>2, <2>3, TakesMsg
  <2> QED
    BY <2>4, <2>5 DEF SendInv
<1> QED
  BY <1>2, <1>3

-----------------------------------------------------------------------------
(***************************************************************************)
(* ncclIbTest of the sender.                                               *)
(***************************************************************************)
LEMMA ReturnSend ==
  ASSUME NEW reqs \in [Pool -> SendReqs], NEW q \in sheld, sheld \subseteq Pool,
         \A p \in Pool : /\ reqs[p].type # "unused" <=> p \in sheld
                         /\ reqs[p].events \in 0..1,
         ReturnSendTest(q, reqs)
  PROVE  /\ SheldInv'
         /\ \A p \in Pool : reqs[p].events = 1 => sreqs'[p] = reqs[p]
<1>1. CASE AllDone(reqs, q)
  <2>1. /\ sreqs' = [reqs EXCEPT ![q].type = "unused", ![q].data = NoData]
        /\ sheld' = sheld \ {q} /\ reqs[q].events = 0 /\ q \in Pool
    BY <1>1 DEF ReturnSendTest, AllDone
  <2>2. \A p \in Pool : p # q => sreqs'[p] = reqs[p]
    BY <2>1
  <2>3. sreqs'[q] = [reqs[q] EXCEPT !.type = "unused", !.data = NoData]
    BY <2>1
  <2>4. sreqs'[q].type = "unused" /\ sreqs'[q].events = reqs[q].events
    BY <2>1, <2>3 DEF SendReqs
  <2>5. ASSUME NEW p \in Pool
        PROVE  (sreqs'[p].type # "unused" <=> p \in sheld') /\ sreqs'[p].events \in 0..1
    <3>1. CASE p = q
      BY <3>1, <2>1, <2>4
    <3>2. CASE p # q
      BY <3>2, <2>1, <2>2
    <3> QED
      BY <3>1, <3>2
  <2> QED
    BY <2>1, <2>2, <2>5 DEF SheldInv
<1>2. CASE ~AllDone(reqs, q)
  BY <1>2 DEF ReturnSendTest, SheldInv
<1> QED
  BY <1>1, <1>2

LEMMA SendTestSend ==
  ASSUME RingInv, SendInv, NEW q \in Pool, SendTest(q)
  PROVE  SendInv'
<1>1. /\ UNCHANGED <<fifo, fifoReqs, fifoHead, call, place, spc, sPosted>>
      /\ spc = "idle" /\ q \in sheld
  BY DEF SendTest, SendTestDone, SendTestData, SendTestError, SendTestable,
         sendTestSame, recvVars
<1>2. /\ sreqs \in [Pool -> SendReqs] /\ sheld \subseteq Pool
      /\ msg \in [Steps -> Msgs] /\ fifoHead \in Nat
      /\ sPolled \in Nat /\ sAcked \in Nat /\ sPosted = fifoHead /\ sAcked <= sPosted
  BY <1>1 DEF RingInv, BaseInv, Ordered, AllShapes, SendShape, NetShape
<1>3. RowInv'
  BY <1>1 DEF SendInv, RowInv, HeadSlot, Slot
<1>4. CASE SendTestError(q)
  BY <1>4, <1>1, SendInvSame DEF SendTestError, sendInvVars
<1>5. CASE SendTestDone(q)
  <2>1. UNCHANGED <<msg, sPolled>> /\ ReturnSendTest(q, sreqs)
    BY <1>5 DEF SendTestDone
  <2>2. /\ SheldInv'
        /\ \A p \in Pool : sreqs[p].events = 1 => sreqs'[p] = sreqs[p]
    BY <2>1, <1>1, <1>2, ReturnSend DEF SendInv, SheldInv
  <2>3. \A k, r : Id(k, r)' = Id(k, r)
    BY <2>1, <1>1 DEF Id, HeadSlot, Slot
  <2>4. ASSUME NEW k \in Steps, NEW r \in Lanes, Id(k, r) # NoReq
        PROVE  sreqs'[Id(k, r)] = sreqs[Id(k, r)]
    <3>1. Id(k, r) \in Pool
      BY <2>4, IdType DEF RingInv, BaseInv
    <3>2. sreqs[Id(k, r)].events = 1
      BY <2>4 DEF SendInv, IdInv
    <3> QED
      BY <3>1, <3>2, <2>2
  <2>5. IdInv'
    BY <2>3, <2>4, <1>1 DEF SendInv, IdInv
  <2>6. MsgInv'
    BY <2>1, <1>1 DEF SendInv, MsgInv
  <2> QED
    BY <2>2, <2>5, <2>6, <1>3 DEF SendInv
<1>6. CASE SendTestData(q)
  <2>k. PICK k : k = sPolled + 1
    OBVIOUS
  <2>n. PICK n : n = call[k].n
    OBVIOUS
  <2> DEFINE wr == msg[k].wr
             reqs == CompleteSends(sreqs, wr)
             ids == {wr[i] : i \in 1..n}
  <2>1. /\ ReturnSendTest(q, reqs) /\ sPolled' = k
        /\ msg' = [msg EXCEPT ![k] = NoMsg] /\ sPolled < sAcked
    BY <1>6, <2>k DEF SendTestData
  <2>2. k \in Steps /\ sPolled < k /\ k <= sPosted /\ k <= fifoTail
    BY <2>1, <2>k, <1>2, ConstantsOK
    DEF RingInv, BaseInv, Ordered, AllShapes, RecvShape, SendShape, Steps
  <2>3. n \in 1..MaxRecvs /\ 1 \in 1..n /\ 1..n \subseteq Lanes
    <3>1. n \in GroupSizes
      BY <2>2, <2>n DEF RingInv, KeptInv, WireInv
    <3>2. n \in 1..MaxRecvs
      BY <3>1, ConstantsOK
    <3> QED
      BY <3>2, ConstantsOK DEF Lanes
  <2>4. \A r \in Lanes : Id(k, r) = wr[r]
    BY <2>2, <1>2 DEF Id
  <2>5. \A r \in 1..n : wr[r] # NoReq
    BY <2>2, <2>n DEF SendInv, MsgInv
  <2>6. \A r \in 1..n : /\ wr[r] \in Pool /\ sreqs[wr[r]].events = 1
                        /\ sreqs[wr[r]].nreqs = n
    <3> SUFFICES ASSUME NEW r \in 1..n
                 PROVE  /\ wr[r] \in Pool /\ sreqs[wr[r]].events = 1
                        /\ sreqs[wr[r]].nreqs = n
      OBVIOUS
    <3>1. r \in Lanes /\ Id(k, r) = wr[r] /\ Id(k, r) # NoReq
      BY <2>3, <2>4, <2>5
    <3>2. Id(k, r) \in Pool
      BY <3>1, <2>2, IdType DEF RingInv, BaseInv
    <3>3. sreqs[Id(k, r)].events = 1 /\ sreqs[Id(k, r)].nreqs = n
      BY <3>1, <2>2, <2>n DEF SendInv, IdInv
    <3> QED
      BY <3>1, <3>2, <3>3
  <2>7. reqs = [p \in Pool |-> IF p \in ids THEN [sreqs[p] EXCEPT !.events = @ - 1]
                                          ELSE sreqs[p]]
    <3>1. sreqs[wr[1]].nreqs = n
      BY <2>3, <2>6
    <3> QED
      BY <3>1 DEF CompleteSends
  <2> HIDE DEF reqs
  <2>8. ASSUME NEW p \in Pool
        PROVE  /\ reqs[p] \in SendReqs /\ reqs[p].type = sreqs[p].type
               /\ reqs[p].events \in 0..1
               /\ p \notin ids => reqs[p] = sreqs[p]
    <3>0. sreqs[p] \in SendReqs /\ sreqs[p].events \in 0..1
      BY <1>2 DEF SendInv, SheldInv
    <3>1. CASE p \in ids
      <4>1. sreqs[p].events = 1
        BY <3>1, <2>6
      <4>2. reqs[p] = [sreqs[p] EXCEPT !.events = @ - 1]
        BY <3>1, <2>7
      <4>3. reqs[p] = [type |-> sreqs[p].type, events |-> 0, nreqs |-> sreqs[p].nreqs,
                       mem |-> sreqs[p].mem, data |-> sreqs[p].data]
        BY <4>1, <4>2, <3>0 DEF SendReqs
      <4> QED
        BY <4>3, <3>0, <3>1 DEF SendReqs
    <3>2. CASE p \notin ids
      BY <3>0, <3>2, <2>7
    <3> QED
      BY <3>1, <3>2
  <2>9. reqs \in [Pool -> SendReqs]
    BY <2>7, <2>8
  <2> HIDE DEF ids, wr
  <2>10. /\ SheldInv'
         /\ \A p \in Pool : reqs[p].events = 1 => sreqs'[p] = reqs[p]
    <3>1. \A p \in Pool : /\ reqs[p].type # "unused" <=> p \in sheld
                          /\ reqs[p].events \in 0..1
      BY <2>8 DEF SendInv, SheldInv
    <3> QED
      BY <3>1, <2>1, <2>9, <1>1, <1>2, ReturnSend
  <2>11. \A r \in Lanes : Id(k, r)' = NoReq
    <3>1. msg'[k] = NoMsg
      BY <2>1, <2>2, <1>2
    <3>2. \A r \in Lanes : msg'[k].wr[r] = NoReq
      BY <3>1 DEF NoMsg
    <3> QED
      BY <3>2, <2>2, <1>1, <1>2 DEF Id
  <2>12. \A j \in Steps, r \in Lanes : j # k => Id(j, r)' = Id(j, r)
    <3>1. \A j \in Steps : j # k => msg'[j] = msg[j]
      BY <2>1, <1>2
    <3> QED
      BY <3>1, <1>1 DEF Id, HeadSlot, Slot
  <2>13. ASSUME NEW j \in Steps, NEW r \in Lanes, Id(j, r)' # NoReq
         PROVE  j # k /\ Id(j, r)' = Id(j, r) /\ sreqs'[Id(j, r)] = sreqs[Id(j, r)]
    <3>1. j # k
      BY <2>11, <2>13
    <3>2. Id(j, r)' = Id(j, r) /\ Id(j, r) # NoReq
      BY <3>1, <2>12, <2>13
    <3>3. Id(j, r) \in Pool
      BY <3>2, IdType DEF RingInv, BaseInv
    <3>4. Id(j, r) \notin ids
      <4> SUFFICES ASSUME NEW i \in 1..n, Id(j, r) = wr[i] PROVE FALSE
        BY DEF ids
      <4>1. i \in Lanes /\ Id(k, i) = Id(j, r)
        BY <2>3, <2>4
      <4> QED
        BY <4>1, <3>1, <3>2, <2>2 DEF SendInv, IdInv
    <3>5. reqs[Id(j, r)] = sreqs[Id(j, r)]
      BY <3>3, <3>4, <2>8
    <3>6. sreqs[Id(j, r)].events = 1
      BY <3>2 DEF SendInv, IdInv
    <3> QED
      BY <3>1, <3>2, <3>3, <3>5, <3>6, <2>10
  <2>14. IdInv'
    <3>1. ASSUME NEW j \in Steps, NEW r \in Lanes, Id(j, r)' # NoReq
          PROVE  /\ sreqs'[Id(j, r)'].type # "unused" /\ sreqs'[Id(j, r)'].events = 1
                 /\ sreqs'[Id(j, r)'].nreqs = call'[j].n /\ r <= call'[j].n
                 /\ sreqs'[Id(j, r)'].data # NoData /\ place'[j][r] # "page"
      <4>1. Id(j, r)' = Id(j, r) /\ sreqs'[Id(j, r)] = sreqs[Id(j, r)]
        BY <3>1, <2>13
      <4>2. /\ sreqs[Id(j, r)].type # "unused" /\ sreqs[Id(j, r)].events = 1
            /\ sreqs[Id(j, r)].nreqs = call[j].n /\ r <= call[j].n
            /\ sreqs[Id(j, r)].data # NoData /\ place[j][r] # "page"
        BY <3>1, <4>1 DEF SendInv, IdInv
      <4> QED
        BY <4>1, <4>2, <1>1
    <3>2. ASSUME NEW i \in Steps, NEW j \in Steps, NEW r \in Lanes, NEW l \in Lanes,
                 Id(i, r)' = Id(j, l)', Id(i, r)' # NoReq
          PROVE  i = j /\ r = l
      <4>1. Id(i, r)' = Id(i, r) /\ Id(j, l)' = Id(j, l)
        BY <3>2, <2>13
      <4>2. Id(i, r) = Id(j, l) /\ Id(i, r) # NoReq
        BY <3>2, <4>1
      <4>3. \A a, b \in Steps : \A c, d \in Lanes :
              Id(a, c) = Id(b, d) /\ Id(a, c) # NoReq => a = b /\ c = d
        BY DEF SendInv, IdInv
      <4> QED
        BY <4>2, <4>3
    <3> QED
      BY <3>1, <3>2 DEF IdInv
  <2>15. MsgInv'
    <3>1. ASSUME NEW j \in Steps
          PROVE  IF sPolled' < j /\ j <= sPosted'
                 THEN /\ msg'[j].n = call'[j].n
                      /\ \A i \in 1..call'[j].n :
                           /\ msg'[j].wr[i] # NoReq
                           /\ msg'[j].addr[i] \in {j, Stray} /\ msg'[j].data[i] # NoData
                 ELSE \A i \in Lanes : msg'[j].wr[i] = NoReq
      <4>1. CASE j = k
        <5>1. msg'[j] = NoMsg /\ ~(sPolled' < j)
          <6>1. msg'[k] = NoMsg
            BY <2>1, <2>2, <1>2
          <6>2. ~(sPolled' < k)
            BY <2>1, <2>k, <1>2
          <6> QED
            BY <4>1, <6>1, <6>2
        <5>2. \A i \in Lanes : msg'[j].wr[i] = NoReq
          BY <5>1 DEF NoMsg
        <5> QED
          BY <5>1, <5>2
      <4>2. CASE j # k
        <5>1. msg'[j] = msg[j]
          BY <4>2, <2>1, <1>2
        <5>2. sPolled' < j <=> sPolled < j
          BY <4>2, <2>1, <2>k, <1>2 DEF Steps
        <5>3. IF sPolled < j /\ j <= sPosted
              THEN /\ msg[j].n = call[j].n
                   /\ \A i \in 1..call[j].n :
                        /\ msg[j].wr[i] # NoReq
                        /\ msg[j].addr[i] \in {j, Stray} /\ msg[j].data[i] # NoData
              ELSE \A i \in Lanes : msg[j].wr[i] = NoReq
          BY DEF SendInv, MsgInv
        <5> QED
          BY <5>1, <5>2, <5>3, <1>1
      <4> QED
        BY <4>1, <4>2
    <3> QED
      BY <3>1 DEF MsgInv
  <2> QED
    BY <2>10, <2>14, <2>15, <1>3 DEF SendInv
<1> QED
  BY <1>4, <1>5, <1>6 DEF SendTest

LEMMA InitSend == Init => SendInv
<1> SUFFICES ASSUME Init PROVE SendInv
  OBVIOUS
<1>1. fifoHead = 0 /\ sPosted = 0 /\ spc = "idle" /\ sheld = {}
  BY DEF Init
<1>2. HeadSlot \in Slots
  BY <1>1, SlotInSlots DEF HeadSlot
<1>3. \A s \in Slots, r \in Lanes : fifoReqs[s][r] = NoReq
  BY DEF Init
<1>4. \A k \in Steps : msg[k] = NoMsg
  BY DEF Init
<1>5. \A k \in Steps, r \in Lanes : msg[k].wr[r] = NoReq
  BY <1>4 DEF NoMsg
<1>6. \A k \in Steps, r \in Lanes : Id(k, r) = NoReq
  BY <1>2, <1>3, <1>5 DEF Id
<1>7. \A q \in Pool : sreqs[q].type = "unused" /\ sreqs[q].events = 0
  BY DEF Init, FreeSendReq
<1>8. SheldInv
  BY <1>1, <1>7 DEF SheldInv
<1>9. IdInv /\ RowInv
  BY <1>3, <1>6 DEF IdInv, RowInv
<1>10. MsgInv
  BY <1>1, <1>5 DEF MsgInv, Steps
<1> QED
  BY <1>8, <1>9, <1>10 DEF SendInv

LEMMA NextSend ==
  ASSUME Window < MaxRequests, RingInv, RingInv', SendInv, [Next]_vars
  PROVE  SendInv'
<1>1. ASSUME NEW n \in GroupSizes, NEW tags \in [1..n -> Tags],
             NEW sizes \in [1..n -> Sizes],
             NEW mems \in [1..n -> Mems], Irecv(n, tags, sizes, mems)
      PROVE  SendInv'
  BY <1>1, IrecvSend
<1>2. ASSUME NEW k \in Steps, RecvTest(k) PROVE SendInv'
  BY <1>2, SendInvSame
  DEF sendInvVars, RecvTest, RecvTestDone, RecvTestImm, RecvTestFifo, RecvTestError,
      recvTestSame, sendVars
<1>3. ASSUME NEW tag \in Tags, NEW size \in Sizes, NEW mem \in Mems,
             Isend(tag, size, mem)
      PROVE  SendInv'
  BY <1>3, IsendSend
<1>4. ASSUME NEW q \in Pool, SendTest(q) PROVE SendInv'
  BY <1>4, SendTestSend
<1>5. ASSUME NEW k \in Steps, NEW r \in Lanes, FifoLand(k, r) PROVE SendInv'
  BY <1>5, FifoLandSend
<1>6. ASSUME FifoAck \/ DataArrive \/ DataAck \/ LinkDown \/ UNCHANGED vars
      PROVE  SendInv'
  BY <1>6, SendInvSame
  DEF sendInvVars, FifoAck, DataArrive, DataAck, LinkDown, netSame, vars, recvVars,
      sendVars
<1> QED
  BY <1>1, <1>2, <1>3, <1>4, <1>5, <1>6, IsendClearSend DEF Next

-----------------------------------------------------------------------------
(***************************************************************************)
(* What the receiver reported: a step with a result was polled, and what   *)
(* arrived is in the buffers.                                              *)
(***************************************************************************)
DoneInv ==
  /\ \A k \in Steps : result[k] # <<>> => k <= dPolled
  /\ \A k \in Steps : k <= dArrived => \A r \in 1..call[k].n : buf[<<k, r>>] # NoData

\* A message that arrives is for the buffers of its own step.
LEMMA ArrivesHome ==
  ASSUME RingInv, SendInv, DataArrive, NEW k \in Steps, k = dArrived + 1,
         sPolled < k, k <= sPosted
  PROVE  /\ msg[k].n = call[k].n
         /\ \A r \in 1..call[k].n : Target(msg[k], r) = k /\ msg[k].data[r] # NoData
<1>1. /\ msg[k].n = call[k].n
      /\ \A r \in 1..call[k].n : msg[k].addr[r] \in {k, Stray} /\ msg[k].data[r] # NoData
  BY DEF SendInv, MsgInv
<1>2. Permitted(msg[k])
  BY DEF DataArrive
<1>3. ASSUME NEW r \in 1..call[k].n PROVE Target(msg[k], r) = k
  <2>1. msg[k].data[r].size = 0 \/ msg[k].addr[r] # Stray
    BY <1>1, <1>2 DEF Permitted
  <2> QED
    BY <2>1, <1>1 DEF Target
<1> QED
  BY <1>1, <1>3

LEMMA DataArriveDone ==
  ASSUME RingInv, SendInv, DoneInv, DataArrive
  PROVE  DoneInv'
<1>k. PICK k : k = dArrived + 1
  OBVIOUS
<1>n. PICK n : n = call[k].n
  OBVIOUS
<1> DEFINE m == msg[k]
<1>1. /\ UNCHANGED <<result, dPolled, call>> /\ dArrived < sPosted /\ dArrived' = k
      /\ buf' = [b \in Steps \X Lanes |->
           IF b[2] <= m.n /\ Target(m, b[2]) = b[1] THEN m.data[b[2]] ELSE buf[b]]
  BY <1>k DEF DataArrive, netSame, recvVars
<1>2. /\ k \in Steps /\ sPolled < k /\ k <= sPosted /\ k <= fifoTail /\ dArrived \in Nat
  BY <1>1, <1>k, ConstantsOK
  DEF RingInv, BaseInv, Ordered, AllShapes, RecvShape, SendShape, NetShape, Steps
<1>3. 1..n \subseteq Lanes /\ n \in Nat
  <2>1. n \in GroupSizes
    BY <1>2, <1>n DEF RingInv, KeptInv, WireInv
  <2>2. n \in 1..MaxRecvs
    BY <2>1, ConstantsOK
  <2> QED
    BY <2>2, ConstantsOK DEF Lanes
<1>4. /\ m.n = n
      /\ \A r \in 1..n : Target(m, r) = k /\ m.data[r] # NoData
  BY <1>2, <1>k, <1>n, ArrivesHome
<1>5. ASSUME NEW r \in 1..n PROVE buf'[<<k, r>>] # NoData
  <2>1. /\ <<k, r>> \in Steps \X Lanes /\ <<k, r>>[1] = k /\ <<k, r>>[2] = r
        /\ r <= m.n
    BY <1>2, <1>3, <1>4
  <2>2. buf'[<<k, r>>] = m.data[r]
    BY <2>1, <1>1, <1>4
  <2> QED
    BY <2>2, <1>4
<1>6. ASSUME NEW j \in Steps, j <= dArrived, NEW r \in 1..call[j].n
      PROVE  buf'[<<j, r>>] # NoData
  <2>1. j # k
    BY <1>6, <1>k, <1>2 DEF Steps
  <2>2. call[j].n \in GroupSizes
    <3>1. j <= fifoTail
      BY <1>6, <1>1
      DEF RingInv, BaseInv, Ordered, AllShapes, RecvShape, SendShape, NetShape, Steps
    <3> QED
      BY <3>1 DEF RingInv, KeptInv, WireInv
  <2>3. r \in Lanes /\ r \in Nat \ {0}
    <3>1. call[j].n \in 1..MaxRecvs
      BY <2>2, ConstantsOK
    <3> QED
      BY <3>1, ConstantsOK DEF Lanes
  <2>4. ~(r <= m.n /\ Target(m, r) = j)
    <3>1. r <= m.n => Target(m, r) = k
      BY <2>3, <1>3, <1>4
    <3> QED
      BY <3>1, <2>1
  <2>5. /\ <<j, r>> \in Steps \X Lanes /\ <<j, r>>[1] = j /\ <<j, r>>[2] = r
    BY <2>3
  <2>6. buf'[<<j, r>>] = buf[<<j, r>>]
    BY <2>4, <2>5, <1>1
  <2>7. buf[<<j, r>>] # NoData
    BY <1>6 DEF DoneInv
  <2> QED
    BY <2>6, <2>7
<1>7. ASSUME NEW j \in Steps, j <= dArrived', NEW r \in 1..call'[j].n
      PROVE  buf'[<<j, r>>] # NoData
  <2>1. CASE j = k
    BY <2>1, <1>1, <1>5, <1>7, <1>n
  <2>2. CASE j # k
    <3>1. j <= dArrived
      BY <2>2, <1>1, <1>2, <1>7, <1>k DEF Steps
    <3> QED
      BY <3>1, <1>1, <1>6, <1>7
  <2> QED
    BY <2>1, <2>2
<1>8. \A j \in Steps : result'[j] # <<>> => j <= dPolled'
  BY <1>1 DEF DoneInv
<1> QED
  BY <1>7, <1>8 DEF DoneInv

LEMMA NextDone ==
  ASSUME RingInv, SendInv, DoneInv, [Next]_vars
  PROVE  DoneInv'
<1>1. ASSUME NEW n \in GroupSizes, NEW tags \in [1..n -> Tags],
             NEW sizes \in [1..n -> Sizes],
             NEW mems \in [1..n -> Mems], Irecv(n, tags, sizes, mems)
      PROVE  DoneInv'
  <2>1. /\ UNCHANGED <<result, dPolled, dArrived, buf>>
        /\ call' = [call EXCEPT ![fifoTail + 1] = [n |-> n, tags |-> tags, sizes |-> sizes]]
    BY <1>1 DEF Irecv
  <2>2. ASSUME NEW k \in Steps, k <= dArrived PROVE call'[k] = call[k]
    <3>1. k # fifoTail + 1
      BY <2>2
      DEF RingInv, BaseInv, Ordered, AllShapes, RecvShape, SendShape, NetShape, Steps
    <3> QED
      BY <2>1, <3>1 DEF RingInv, BaseInv, AllShapes, RecvShape
  <2> QED
    BY <2>1, <2>2 DEF DoneInv
<1>2. ASSUME NEW k \in Steps, RecvTest(k) PROVE DoneInv'
  <2>1. UNCHANGED <<dArrived, buf, call>>
    BY <1>2 DEF RecvTest, RecvTestDone, RecvTestImm, RecvTestFifo, RecvTestError,
                recvTestSame
  <2>2. \A i \in Steps : result'[i] # result[i] => i <= dPolled'
    BY <1>2, RecvTestHeld DEF RingInv, BaseInv
  <2>3. dPolled \in Nat /\ dPolled <= dPolled' /\ dPolled' \in Nat
    BY <1>2 DEF RecvTest, RecvTestDone, RecvTestImm, RecvTestFifo, RecvTestError,
                RingInv, BaseInv, AllShapes, NetShape
  <2>4. ASSUME NEW i \in Steps, result'[i] # <<>> PROVE i <= dPolled'
    <3>1. CASE result'[i] = result[i]
      <4>1. i <= dPolled
        BY <2>4, <3>1 DEF DoneInv
      <4> QED
        BY <4>1, <2>3 DEF Steps
    <3> QED
      BY <3>1, <2>2
  <2> QED
    BY <2>1, <2>4 DEF DoneInv
<1>3. ASSUME UNCHANGED <<result, dPolled, dArrived, buf, call>> PROVE DoneInv'
  BY <1>3 DEF DoneInv
<1>4. ASSUME NEW tag \in Tags, NEW size \in Sizes, NEW mem \in Mems,
             Isend(tag, size, mem)
      PROVE  DoneInv'
  BY <1>3, <1>4 DEF Isend, isendSame, recvVars
<1>5. ASSUME NEW q \in Pool, SendTest(q) PROVE DoneInv'
  BY <1>3, <1>5
  DEF SendTest, SendTestDone, SendTestData, SendTestError, sendTestSame, recvVars
<1>6. ASSUME NEW k \in Steps, NEW r \in Lanes, FifoLand(k, r) PROVE DoneInv'
  BY <1>3, <1>6 DEF FifoLand, netSame, recvVars
<1>7. ASSUME IsendClear \/ FifoAck \/ DataAck \/ LinkDown \/ UNCHANGED vars
      PROVE  DoneInv'
  BY <1>3, <1>7
  DEF IsendClear, FifoAck, DataAck, LinkDown, netSame, vars, recvVars
<1> QED
  BY <1>1, <1>2, <1>4, <1>5, <1>6, <1>7, DataArriveDone DEF Next

LEMMA ConnInvAlways ==
  ASSUME Window < MaxRequests
  PROVE  Spec => [](RingInv /\ SendInv /\ DoneInv)
<1>1. Init => RingInv /\ SendInv /\ DoneInv
  <2>1. Init => DoneInv
    BY DEF Init, DoneInv, Steps
  <2> QED
    BY <2>1, InitBase, InitKept, InitSend DEF RingInv
<1>2. (RingInv /\ SendInv /\ DoneInv) /\ [Next]_vars => (RingInv /\ SendInv /\ DoneInv)'
  <2> SUFFICES ASSUME RingInv, SendInv, DoneInv, [Next]_vars
               PROVE  (RingInv /\ SendInv /\ DoneInv)'
    OBVIOUS
  <2>1. RingInv'
    BY NextBase, NextKept DEF RingInv
  <2>2. SendInv'
    BY <2>1, NextSend
  <2>3. DoneInv'
    BY NextDone
  <2> QED
    BY <2>1, <2>2, <2>3
<1> QED
  BY <1>1, <1>2, PTL DEF Spec

-----------------------------------------------------------------------------
(***************************************************************************)
(* TypeOK for every ring larger than the caller's window: in particular no *)
(* completion is ever counted against a request it does not belong to, or  *)
(* counted twice, so that events stays within what its handler posted.     *)
(***************************************************************************)
THEOREM TypesAlwaysOK ==
  ASSUME Window < MaxRequests
  PROVE  Spec => []TypeOK
<1>1. RingInv /\ SendInv => TypeOK
  <2> SUFFICES ASSUME RingInv, SendInv PROVE TypeOK
    OBVIOUS
  <2>1. \A q \in Pool : rreqs[q].events \in 0..2
    BY DEF RingInv, BaseInv, HeldInv, HeldOK
  <2>2. \A q \in Pool : sreqs[q].events \in 0..1
    BY DEF SendInv, SheldInv
  <2> QED
    BY <2>1, <2>2 DEF TypeOK, RingInv, BaseInv, AllShapes
<1> QED
  BY <1>1, ConnInvAlways, PTL

(***************************************************************************)
(* CompletionsLive for every ring larger than the caller's window: every   *)
(* completion still to be polled, on either side, belongs to a request the *)
(* caller still waits for, whatever is reused meanwhile.                   *)
(***************************************************************************)
THEOREM CompletionsAlwaysLive ==
  ASSUME Window < MaxRequests
  PROVE  Spec => []CompletionsLive
<1>1. RingInv /\ SendInv => CompletionsLive
  <2> SUFFICES ASSUME RingInv, SendInv PROVE CompletionsLive
    OBVIOUS
  <2>1. /\ dPolled \in Nat /\ fPolled \in Nat /\ fifoTail \in Nat /\ sPolled \in Nat
        /\ rqPosted = fifoTail /\ sPosted <= fifoTail /\ fifoTail <= MaxSteps
        /\ sPosted \in Nat /\ fifoHead \in Nat
        /\ sPosted = IF spc = "clear" THEN fifoHead + 1 ELSE fifoHead
    BY DEF RingInv, BaseInv, Ordered, AllShapes, RecvShape, SendShape, NetShape
  <2>2. ASSUME NEW k \in dPolled+1..rqPosted PROVE held[k] = rq[k]
    <3>1. k \in Steps /\ dPolled < k /\ k <= fifoTail
      BY <2>1, ConstantsOK DEF Steps
    <3> QED
      BY <3>1 DEF RingInv, BaseInv, HeldInv, HeldOK
  <2>3. ASSUME NEW k \in fPolled+1..fifoTail, wq[k] # NoReq PROVE held[k] = wq[k]
    <3>1. k \in Steps
      BY <2>1, ConstantsOK DEF Steps
    <3> QED
      BY <3>1, <2>3 DEF RingInv, BaseInv, HeldInv, HeldOK
  <2>4. ASSUME NEW k \in sPolled+1..sPosted, NEW r \in 1..msg[k].n
        PROVE  /\ msg[k].wr[r] \in sheld
               /\ sreqs[msg[k].wr[r]].events = 1 /\ sreqs[msg[k].wr[r]].nreqs = msg[k].n
    <3>1. k \in Steps /\ sPolled < k /\ k <= sPosted /\ k <= fifoTail
      BY <2>1, ConstantsOK DEF Steps
    <3>2. msg[k].n = call[k].n /\ msg[k].wr[r] # NoReq
      BY <3>1 DEF SendInv, MsgInv
    <3>3. r \in Lanes
      <4>1. msg[k].n \in GroupSizes
        BY <3>1, <3>2 DEF RingInv, KeptInv, WireInv
      <4>2. msg[k].n \in 1..MaxRecvs
        BY <4>1, ConstantsOK
      <4> QED
        BY <4>2, ConstantsOK DEF Lanes
    <3>4. Id(k, r) = msg[k].wr[r]
      <4>1. ~(k = fifoHead + 1 /\ spc = "idle")
        BY <3>1, <2>1
      <4> QED
        BY <4>1 DEF Id
    <3>5. Id(k, r) \in Pool
      BY <3>1, <3>2, <3>3, <3>4, IdType DEF RingInv, BaseInv
    <3>6. /\ sreqs[Id(k, r)].type # "unused" /\ sreqs[Id(k, r)].events = 1
          /\ sreqs[Id(k, r)].nreqs = call[k].n
      BY <3>1, <3>2, <3>3, <3>4 DEF SendInv, IdInv
    <3>7. Id(k, r) \in sheld
      BY <3>5, <3>6 DEF SendInv, SheldInv
    <3> QED
      BY <3>2, <3>4, <3>6, <3>7
  <2> QED
    BY <2>2, <2>3, <2>4 DEF CompletionsLive
<1> QED
  BY <1>1, ConnInvAlways, PTL

(***************************************************************************)
(* DoneMeansDelivered for every ring larger than the caller's window: a    *)
(* receive that ncclIbTest reports done has the data of all its buffers.   *)
(***************************************************************************)
THEOREM DoneAlwaysDelivered ==
  ASSUME Window < MaxRequests
  PROVE  Spec => []DoneMeansDelivered
<1>1. RingInv /\ DoneInv => DoneMeansDelivered
  <2> SUFFICES ASSUME RingInv, DoneInv, NEW k \in Steps, result[k] # <<>>,
                      NEW r \in 1..call[k].n
               PROVE  buf[<<k, r>>] # NoData
    BY DEF DoneMeansDelivered
  <2>1. k <= dPolled
    BY DEF DoneInv
  <2>2. k <= dArrived
    BY <2>1 DEF RingInv, BaseInv, Ordered, AllShapes, NetShape, Steps
  <2> QED
    BY <2>2 DEF DoneInv
<1> QED
  BY <1>1, ConnInvAlways, PTL

-----------------------------------------------------------------------------
(***************************************************************************)
(* Why the sender stopped: it refused a send for what the head step really *)
(* announced, and will not move past that step.                            *)
(***************************************************************************)
JustInv ==
  /\ RefusalsJust
  /\ serr \in {"usage", "internal"} => spc = "idle"

LEMMA JustSame ==
  JustInv /\ UNCHANGED <<serr, spc, fifoHead, fifoTail, call, place>> => JustInv'
BY DEF JustInv, RefusalsJust

LEMMA IsendJust ==
  ASSUME RingInv, SendInv, JustInv, NEW tag \in Tags, NEW size \in Sizes,
         NEW mem \in Mems, Isend(tag, size, mem)
  PROVE  JustInv'
<1>1. /\ UNCHANGED <<fifoHead, fifoTail, call, place>> /\ serr = "none" /\ HeadReady
      /\ spc = "idle"
  BY DEF Isend, isendSame, recvVars
<1>2. CASE UNCHANGED serr
  BY <1>1, <1>2 DEF JustInv, RefusalsJust
<1>3. CASE serr' # serr
  <2>1. /\ HeadStep \in Steps /\ HeadStep <= fifoTail /\ HeadCount \in 1..MaxRecvs
        /\ fifo[HeadSlot][1].nreqs = HeadCount
        /\ \A r \in 1..HeadCount : fifo[HeadSlot][r] = Announced(HeadStep, r)
    BY <1>1, HeadAnnounced DEF RingInv, HeadReady, HeadStep, HeadCount
  <2>2. PICK r \in 1..HeadCount :
          /\ Refused(r, size) /\ UNCHANGED spc
          /\ serr' = IF Oversize(r, size) THEN "usage" ELSE "internal"
    BY <1>3, <2>1 DEF Isend
  <2>3. /\ fifo[HeadSlot][r].size = call[HeadStep].sizes[r]
        /\ fifo[HeadSlot][r].addr = Address(place[HeadStep][r], HeadStep)
    <3>1. fifo[HeadSlot][r] = Announced(HeadStep, r)
      BY <2>1
    <3> QED
      BY <3>1 DEF Announced
  <2>4. serr' = "usage" => \E i \in 1..HeadCount, s \in Sizes : s > call[HeadStep].sizes[i]
    BY <2>2, <2>3 DEF Oversize
  <2>5. serr' = "internal" => \E i \in 1..HeadCount : place[HeadStep][i] = "page"
    <3> SUFFICES ASSUME serr' = "internal" PROVE place[HeadStep][r] = "page"
      OBVIOUS
    <3>1. Address(place[HeadStep][r], HeadStep) = 0
      BY <2>2, <2>3 DEF Refused, NoAddress
    <3>2. place[HeadStep][r] \in Memory
      BY <2>1 DEF RingInv, KeptInv, WireInv, HeadCount
    <3>3. HeadStep # 0 /\ Stray # 0
      BY <2>1, ConstantsOK DEF Steps, Stray
    <3> QED
      BY <3>1, <3>2, <3>3 DEF Memory, Address
  <2> QED
    BY <1>1, <2>1, <2>2, <2>4, <2>5 DEF JustInv, RefusalsJust, HeadStep, HeadCount
<1> QED
  BY <1>2, <1>3

LEMMA NextJust ==
  ASSUME RingInv, SendInv, JustInv, [Next]_vars
  PROVE  JustInv'
<1>1. ASSUME NEW n \in GroupSizes, NEW tags \in [1..n -> Tags],
             NEW sizes \in [1..n -> Sizes],
             NEW mems \in [1..n -> Mems], Irecv(n, tags, sizes, mems)
      PROVE  JustInv'
  <2> DEFINE t == fifoTail + 1
             k == fifoHead + 1
  <2>1. /\ UNCHANGED <<serr, spc, fifoHead>> /\ fifoTail' = t
        /\ call' = [call EXCEPT ![t] = [n |-> n, tags |-> tags, sizes |-> sizes]]
        /\ place' = [place EXCEPT ![t] = mems]
    BY <1>1 DEF Irecv, sendVars
  <2>2. /\ fifoTail \in Nat /\ fifoTail <= MaxSteps /\ fifoHead \in Nat
        /\ DOMAIN call = Steps /\ DOMAIN place = Steps
    BY DEF RingInv, BaseInv, Ordered, AllShapes, RecvShape, SendShape
  <2>3. ASSUME k <= fifoTail PROVE k <= fifoTail' /\ call'[k] = call[k] /\ place'[k] = place[k]
    <3>1. k # t /\ k \in Steps
      BY <2>2, <2>3, ConstantsOK DEF Steps
    <3> QED
      BY <3>1, <2>1, <2>2, <2>3
  <2> QED
    BY <2>1, <2>3 DEF JustInv, RefusalsJust
<1>2. ASSUME NEW k \in Steps, RecvTest(k) PROVE JustInv'
  BY <1>2, JustSame
  DEF RecvTest, RecvTestDone, RecvTestImm, RecvTestFifo, RecvTestError,
      recvTestSame, sendVars
<1>3. ASSUME NEW tag \in Tags, NEW size \in Sizes, NEW mem \in Mems,
             Isend(tag, size, mem)
      PROVE  JustInv'
  BY <1>3, IsendJust
<1>4. ASSUME IsendClear PROVE JustInv'
  <2>1. serr \notin {"usage", "internal"} /\ UNCHANGED serr
    BY <1>4 DEF IsendClear, JustInv
  <2> QED
    BY <2>1 DEF JustInv, RefusalsJust
<1>5. ASSUME NEW q \in Pool, SendTest(q) PROVE JustInv'
  <2>1. UNCHANGED <<spc, fifoHead, fifoTail, call, place>>
    BY <1>5 DEF SendTest, SendTestDone, SendTestData, SendTestError, sendTestSame, recvVars
  <2>2. UNCHANGED serr \/ serr' = "remote"
    BY <1>5 DEF SendTest, SendTestDone, SendTestData, SendTestError
  <2> QED
    BY <2>1, <2>2 DEF JustInv, RefusalsJust
<1>6. ASSUME NEW k \in Steps, NEW r \in Lanes, FifoLand(k, r) PROVE JustInv'
  BY <1>6, JustSame DEF FifoLand, netSame, recvVars, sendVars
<1>7. ASSUME FifoAck \/ DataArrive \/ DataAck \/ LinkDown \/ UNCHANGED vars
      PROVE  JustInv'
  BY <1>7, JustSame
  DEF FifoAck, DataArrive, DataAck, LinkDown, netSame, vars, recvVars, sendVars
<1> QED
  BY <1>1, <1>2, <1>3, <1>4, <1>5, <1>6, <1>7 DEF Next

(***************************************************************************)
(* RefusalsJust for every ring larger than the caller's window: whatever   *)
(* order the elements of grouped receives land in and however often slots  *)
(* are reused, a send is never refused for the room or the address of an   *)
(* element that has not landed or belongs to another step.                 *)
(***************************************************************************)
THEOREM RefusalsAlwaysJust ==
  ASSUME Window < MaxRequests
  PROVE  Spec => []RefusalsJust
<1>1. Init => JustInv
  BY DEF Init, JustInv, RefusalsJust
<1>2. RingInv /\ SendInv /\ JustInv /\ [Next]_vars => JustInv'
  BY NextJust
<1>3. JustInv => RefusalsJust
  BY DEF JustInv
<1>4. Spec => [](RingInv /\ SendInv /\ DoneInv)
  BY ConnInvAlways
<1> QED
  BY <1>1, <1>2, <1>3, <1>4, PTL DEF Spec
=============================================================================
