------------------------------ MODULE Transport ------------------------------
(***************************************************************************)
(* One FuseLink connection: the receiver's ncclIbIrecv and ncclIbTest, the *)
(* sender's ncclIbIsend and ncclIbTest, and the RC queue pair between      *)
(* them (src/src/plugin.cc).                                               *)
(*                                                                         *)
(* A receive is announced by writing one FIFO element per grouped buffer   *)
(* into the sender's memory; the sender matches its sends against the      *)
(* element at its head, writes the data straight into the receive buffers  *)
(* and completes the receive with an immediate.  Receive calls are         *)
(* numbered 1, 2, ...: "step k" is the k-th ncclIbIrecv, the one that      *)
(* writes idx = k into the FIFO.                                           *)
(*                                                                         *)
(* Each side is one proxy thread, so a handler is one action; ncclIbIsend  *)
(* is two, because the wire and the peer run between its ibv_post_send and *)
(* its memset of the FIFO slot.  A call of ncclIbTest that polls several   *)
(* completions is a sequence of calls that poll one.                       *)
(***************************************************************************)
EXTENDS Integers, Sequences, FiniteSets

CONSTANTS
  MaxRequests,  \* requests per comm, and slots in the FIFO
  MaxRecvs,     \* buffers of one grouped receive, at most
  Window,       \* the caller's receives span fewer than this many steps + 1
  SendWindow,   \* sends the caller leaves outstanding, at most
  GroupSizes,   \* the numbers of buffers the caller groups in a receive
  Tags, Sizes,  \* what the callers pass as tag and size
  Rooms,        \* the sizes of receives, some of Sizes
  Mems,         \* where the callers' buffers lie, some of Memory
  ArThreshold,  \* larger single sends are split when adaptive routing is on
  MayFail,      \* may the queue pair break?
  MaxSteps      \* bound: receives posted in a behaviour

\* A buffer lies in a region of GPU memory, or in one of host memory, at the
\* beginning of a page or not.
Memory == {"gpu", "host", "page"}

ASSUME ConstantsOK ==
  /\ MaxRequests \in Nat \ {0} /\ MaxRecvs \in Nat \ {0}
  /\ Window \in Nat \ {0} /\ SendWindow \in Nat \ {0}
  /\ GroupSizes \subseteq 1..MaxRecvs
  /\ Tags \subseteq Nat /\ Sizes \subseteq Nat /\ Rooms \subseteq Sizes
  /\ Mems \subseteq Memory
  /\ ArThreshold \in Nat /\ MayFail \in BOOLEAN /\ MaxSteps \in Nat

NoReq == -1                        \* a NULL request pointer
Pool  == 0..MaxRequests-1          \* request ids, as packed into wr_id
Slots == 0..MaxRequests-1          \* FIFO slots
Lanes == 1..MaxRecvs               \* elements of a slot, buffers of a group
Steps == 1..MaxSteps

Slot(i) == i % MaxRequests

NoData   == [tag |-> 0, num |-> 0, size |-> 0]
ZeroElem == [addr |-> 0, size |-> 0, nreqs |-> 0, tag |-> 0, idx |-> 0]
NoCall   == [n |-> 0, tags |-> <<>>, sizes |-> <<>>]
NoMsg    == [n |-> 0, wr |-> [r \in Lanes |-> NoReq],
             from |-> [r \in Lanes |-> "gpu"], addr |-> [r \in Lanes |-> 0], data |-> [r \in Lanes |-> NoData]]
FreeRecvReq == [type |-> "unused", events |-> 0, nreqs |-> 0,
                sizes |-> [r \in Lanes |-> 0]]
FreeSendReq == [type |-> "unused", events |-> 0, nreqs |-> 0, mem |-> "gpu",
                data |-> NoData]

(***************************************************************************)
(* What flmr->addr[dev] + data - flmr->start_addr is, of a buffer posted   *)
(* in step t.  A GPU region has an address of its own on every NIC, so the *)
(* sum lies in that buffer; addresses of buffers are their steps.  A host  *)
(* region has its address at MAX_GPU_NUM only and 0 on every NIC, so what  *)
(* is left is the offset in the page: 0, or a small number outside of      *)
(* every region.                                                           *)
(***************************************************************************)
Stray == MaxSteps + 1

Address(mem, t) == CASE mem = "gpu"  -> t
                     [] mem = "page" -> 0
                     [] mem = "host" -> Stray

VARIABLES
  \* ncclIbRecvComm
  rreqs,      \* reqs: the request pool
  elems,      \* remFifo.elems: the staging copy the HCA reads
  fifoTail,   \* remFifo.fifoTail: receives announced
  rerr,       \* the error a receiver call returned, after which NCCL stops
  held,       \* [step -> the request the caller still waits for]
  result,     \* [step -> the sizes ncclIbTest reported, <<>> until it is done]
  call,       \* [step -> the arguments of that ncclIbIrecv] (history)
  place,      \* [step -> where its buffers lie] (history)
  \* ncclIbSendComm
  sreqs,      \* reqs: the request pool
  fifo,       \* fifo: the slots the receiver writes
  fifoHead,   \* fifoHead: announced receives consumed
  fifoReqs,   \* fifoReqs: the sends matched to a slot so far
  spc,        \* "clear" between the post of ncclIbMultiSend and the memset
  serr,       \* the error a sender call returned
  sheld,      \* the requests the caller still waits for
  sent,       \* [tag -> sends accepted] (history)
  \* the two queue pairs, their queues and completions
  rq,         \* [step -> wr_id of the receive posted for it, until polled]
  rqPosted,   \* receives posted to the receive queue
  wq,         \* [step -> wr_id of its FIFO write, if signaled, until polled]
  wire,       \* <<step, lane>> of FIFO elements not yet in the sender's memory
  fAcked, fPolled,   \* signaled FIFO writes: last completed, last polled
  msg,        \* [step -> what ncclIbMultiSend posted for it, until polled]
  sPosted, dArrived, \* messages posted, and arrived at the receiver
  dPolled,    \* immediates polled by the receiver
  sAcked, sPolled,   \* messages completed at the sender, and polled there
  link,       \* "up", or "down" once the queue pair is in error
  buf         \* the receive buffers: [<<step, lane>> -> what was written]

recvVars == <<rreqs, elems, fifoTail, rerr, held, result, call, place, rq, rqPosted, wq>>
sendVars == <<sreqs, fifoHead, fifoReqs, spc, serr, sheld, sent, msg, sPosted>>
vars == <<recvVars, sendVars, fifo, wire, fAcked, fPolled, dArrived, dPolled,
          sAcked, sPolled, link, buf>>

Init ==
  /\ rreqs = [q \in Pool |-> FreeRecvReq] /\ sreqs = [q \in Pool |-> FreeSendReq]
  /\ elems = [s \in Slots |-> [r \in Lanes |-> ZeroElem]] /\ fifo = elems
  /\ fifoTail = 0 /\ fifoHead = 0
  /\ fifoReqs = [s \in Slots |-> [r \in Lanes |-> NoReq]]
  /\ rerr = "none" /\ serr = "none" /\ spc = "idle" /\ link = "up"
  /\ held = [k \in Steps |-> NoReq] /\ sheld = {}
  /\ result = [k \in Steps |-> <<>>] /\ call = [k \in Steps |-> NoCall]
  /\ place = [k \in Steps |-> <<>>] /\ sent = [t \in Tags |-> 0]
  /\ rq = [k \in Steps |-> NoReq] /\ wq = [k \in Steps |-> NoReq]
  /\ msg = [k \in Steps |-> NoMsg]
  /\ wire = {} /\ rqPosted = 0
  /\ fAcked = 0 /\ fPolled = 0 /\ sPosted = 0 /\ dArrived = 0 /\ dPolled = 0
  /\ sAcked = 0 /\ sPolled = 0
  /\ buf = [b \in Steps \X Lanes |-> NoData]

(***************************************************************************)
(* ncclIbGetRequest: the first unused request of the pool.                 *)
(***************************************************************************)
GetRequest(reqs, q) ==
  /\ reqs[q].type = "unused"
  /\ \A i \in 0..q-1 : reqs[i].type # "unused"

-----------------------------------------------------------------------------
(***************************************************************************)
(* The receiver.                                                           *)
(***************************************************************************)

\* NCCL posts step t only while every step it still waits for is one of the
\* Window most recent (the requests[] ring of its proxy sub-operations).
WindowOpen(t) == \A k \in Steps : held[k] # NoReq => t < k + Window

\* ncclIbPostFifo: fill the staging slot and post its RDMA write, signaled
\* only for slot 0.  The events the request then waits for are EventsOf.
StageFifo(t, n, tags, sizes, mems) ==
  /\ elems' = [elems EXCEPT ![Slot(t - 1)] = [r \in Lanes |->
       IF r <= n THEN [addr |-> Address(mems[r], t), size |-> sizes[r], nreqs |-> n,
                       tag |-> tags[r], idx |-> t]
                 ELSE @[r]]]
  /\ wire' = wire \cup {<<t, r>> : r \in 1..n}

FaultSignaled(t) == FALSE        \* fault: no write is signaled

Signaled(t) == Slot(t - 1) = 0

FaultEventsOf(t) == 1            \* fault: events is reset after the post

EventsOf(t) == IF Signaled(t) THEN 2 ELSE 1

\* ncclIbIrecv: take a request, post a receive for the immediate, announce.
Irecv(n, tags, sizes, mems) ==
  LET t == fifoTail + 1 IN
  /\ rerr = "none" /\ t \in Steps /\ WindowOpen(t)
  /\ \A r \in 1..n : sizes[r] \in Rooms
  /\ \E q \in Pool :
       /\ GetRequest(rreqs, q)
       /\ rreqs' = [rreqs EXCEPT ![q] =
            [type |-> "recv", events |-> EventsOf(t), nreqs |-> n,
             sizes |-> [r \in Lanes |-> IF r <= n THEN 0 ELSE @.sizes[r]]]]
       /\ rq' = [rq EXCEPT ![rqPosted + 1] = q]
       /\ wq' = [wq EXCEPT ![t] = IF Signaled(t) THEN q ELSE NoReq]
       /\ held' = [held EXCEPT ![t] = q]
  /\ rqPosted' = rqPosted + 1
  /\ StageFifo(t, n, tags, sizes, mems)
  /\ fifoTail' = t
  /\ call' = [call EXCEPT ![t] = [n |-> n, tags |-> tags, sizes |-> sizes]]
  /\ place' = [place EXCEPT ![t] = mems]
  /\ UNCHANGED <<rerr, result, sendVars, fifo, fAcked, fPolled, dArrived,
                 dPolled, sAcked, sPolled, link, buf>>

FaultAllDone(reqs, q) == reqs[q].events <= 1     \* fault: one completion is enough

AllDone(reqs, q) == reqs[q].events = 0

FaultReturnRecvTest(k, reqs) ==  \* fault: the request is not freed
  LET q == held[k] IN
  IF AllDone(reqs, q)
  THEN /\ rreqs' = reqs
       /\ held' = [held EXCEPT ![k] = NoReq]
       /\ result' = [result EXCEPT ![k] =
            [r \in 1..reqs[q].nreqs |-> reqs[q].sizes[r]]]
  ELSE rreqs' = reqs /\ UNCHANGED <<held, result>>

\* The head of ncclIbTest's loop: a request without pending events is done,
\* its sizes are handed to the caller and ncclIbFreeRequest frees it.
ReturnRecvTest(k, reqs) ==
  LET q == held[k] IN
  IF AllDone(reqs, q)
  THEN /\ rreqs' = [reqs EXCEPT ![q].type = "unused"]
       /\ held' = [held EXCEPT ![k] = NoReq]
       /\ result' = [result EXCEPT ![k] =
            [r \in 1..reqs[q].nreqs |-> reqs[q].sizes[r]]]
  ELSE rreqs' = reqs /\ UNCHANGED <<held, result>>

RecvTestable(k) == rerr = "none" /\ held[k] # NoReq

OneEventLess(reqs, q) == [reqs EXCEPT ![q].events = @ - 1]

recvTestSame == <<elems, fifoTail, call, place, rqPosted, sendVars, fifo, wire,
                  fAcked, dArrived, sAcked, sPolled, link, buf>>

\* ncclIbTest finds the request done without polling.
RecvTestDone(k) ==
  /\ RecvTestable(k) /\ AllDone(rreqs, held[k])
  /\ ReturnRecvTest(k, rreqs)
  /\ UNCHANGED <<recvTestSame, rerr, rq, wq, fPolled, dPolled>>

\* ncclIbTest polls an immediate; that of a grouped receive is refused.
RecvTestImm(k) ==
  LET q == rq[dPolled + 1] IN
  /\ RecvTestable(k) /\ ~AllDone(rreqs, held[k]) /\ dPolled < dArrived
  /\ dPolled' = dPolled + 1 /\ rq' = [rq EXCEPT ![dPolled + 1] = NoReq]
  /\ IF rreqs[q].nreqs > 1
     THEN rerr' = "internal" /\ UNCHANGED <<rreqs, held, result>>
     ELSE ReturnRecvTest(k, OneEventLess(rreqs, q)) /\ UNCHANGED rerr
  /\ UNCHANGED <<recvTestSame, wq, fPolled>>

\* ncclIbTest polls the completion of a signaled FIFO write.
RecvTestFifo(k) ==
  /\ RecvTestable(k) /\ ~AllDone(rreqs, held[k])
  /\ \E t \in fPolled+1..fAcked :
       /\ wq[t] # NoReq /\ \A j \in fPolled+1..t-1 : wq[j] = NoReq
       /\ fPolled' = t /\ wq' = [wq EXCEPT ![t] = NoReq]
       /\ ReturnRecvTest(k, OneEventLess(rreqs, wq[t]))
  /\ UNCHANGED <<recvTestSame, rerr, rq, dPolled>>

FaultRecvTestError(k) ==         \* fault: the status is not looked at
  /\ RecvTestable(k) /\ ~AllDone(rreqs, held[k])
  /\ link = "down" /\ dPolled = dArrived /\ fPolled = fAcked
  /\ ReturnRecvTest(k, OneEventLess(rreqs, held[k]))
  /\ UNCHANGED <<recvTestSame, rerr, rq, wq, fPolled, dPolled>>

\* ncclIbTest polls a completion in error.
RecvTestError(k) ==
  /\ RecvTestable(k) /\ ~AllDone(rreqs, held[k])
  /\ link = "down" /\ dPolled = dArrived /\ fPolled = fAcked
  /\ rerr' = "remote"
  /\ UNCHANGED <<recvTestSame, rreqs, held, result, rq, wq, fPolled, dPolled>>

RecvTest(k) ==
  RecvTestDone(k) \/ RecvTestImm(k) \/ RecvTestFifo(k) \/ RecvTestError(k)

-----------------------------------------------------------------------------
(***************************************************************************)
(* The sender.                                                             *)
(***************************************************************************)

HeadSlot == Slot(fifoHead)

FaultHeadReady ==                \* fault: idx is compared without its + 1
  /\ fifo[HeadSlot][1].idx = fifoHead
  /\ \A r \in 2..fifo[HeadSlot][1].nreqs : fifo[HeadSlot][r].idx = fifoHead

FaultHeadSpin ==                 \* fault: does not wait for the other elements
  fifo[HeadSlot][1].idx = fifoHead + 1

\* The head slot announces the next receive and all its elements have landed:
\* ncclIbIsend returns without the first, and spins until the others are there.
HeadReady ==
  /\ fifo[HeadSlot][1].idx = fifoHead + 1
  /\ \A r \in 2..fifo[HeadSlot][1].nreqs : fifo[HeadSlot][r].idx = fifoHead + 1

FaultUnmatchedTag(r, tag) ==     \* fault: the tag is not compared
  fifoReqs[HeadSlot][r] = NoReq

FaultUnmatchedReq(r, tag) ==     \* fault: an element is matched again
  fifo[HeadSlot][r].tag = tag

\* Element r of the head slot is the send's to match.
Unmatched(r, tag) ==
  fifoReqs[HeadSlot][r] = NoReq /\ fifo[HeadSlot][r].tag = tag

\* ncclIbMultiSend: one RDMA write per element, the last with an immediate,
\* signaled, its wr_id packing the ids of the slot's requests.
MultiSend(reqs, row, n) ==
  /\ msg' = [msg EXCEPT ![sPosted + 1] =
       [n |-> n, wr |-> row,
        from |-> [r \in Lanes |-> IF r <= n THEN reqs[row[r]].mem ELSE "gpu"],
        addr |-> [r \in Lanes |-> IF r <= n THEN fifo[HeadSlot][r].addr ELSE 0],
        data |-> [r \in Lanes |-> IF r <= n THEN reqs[row[r]].data ELSE NoData]]]
  /\ sPosted' = sPosted + 1
  /\ spc' = "clear"

FaultOversize(r, size) == FALSE  \* fault: the room is not checked

Oversize(r, size) == size > fifo[HeadSlot][r].size

\* Checked after the room: an announcement without an address.
NoAddress(r) == fifo[HeadSlot][r].addr = 0

Refused(r, size) == Oversize(r, size) \/ NoAddress(r)

FaultNewSend(n, mem, data) ==    \* fault: events is not set
  [type |-> "send", events |-> 0, nreqs |-> n, mem |-> mem, data |-> data]

NewSend(n, mem, data) ==
  [type |-> "send", events |-> 1, nreqs |-> n, mem |-> mem, data |-> data]

\* The send of a matched element: take a request, and post the slot's
\* messages once every element of it has been matched.
AcceptSend(r, tag, size, mem) ==
  LET n    == fifo[HeadSlot][1].nreqs
      data == [tag |-> tag, num |-> sent[tag] + 1, size |-> size]
  IN \E q \in Pool :
     LET reqs == [sreqs EXCEPT ![q] = NewSend(n, mem, data)]
         row  == [fifoReqs[HeadSlot] EXCEPT ![r] = q]
     IN /\ GetRequest(sreqs, q)
        /\ sreqs' = reqs
        /\ sheld' = sheld \cup {q}
        /\ fifoReqs' = [fifoReqs EXCEPT ![HeadSlot] = row]
        /\ IF \A i \in 1..n : row[i] # NoReq
           THEN MultiSend(reqs, row, n)
           ELSE UNCHANGED <<msg, sPosted, spc>>
        /\ sent' = [sent EXCEPT ![tag] = @ + 1]

isendSame == <<recvVars, fifo, fifoHead, wire, fAcked, fPolled, dArrived,
               dPolled, sAcked, sPolled, link, buf>>

\* ncclIbIsend, up to the post.  When nothing matches it returns a NULL
\* request and changes nothing: the caller tries again.
Isend(tag, size, mem) ==
  /\ serr = "none" /\ spc = "idle" /\ Cardinality(sheld) < SendWindow
  /\ HeadReady
  /\ \E r \in 1..fifo[HeadSlot][1].nreqs :
       /\ Unmatched(r, tag) /\ \A i \in 1..r-1 : ~Unmatched(i, tag)
       /\ IF Refused(r, size)
          THEN serr' = (IF Oversize(r, size) THEN "usage" ELSE "internal")
               /\ UNCHANGED <<sreqs, fifoReqs, spc, sheld, sent, msg, sPosted>>
          ELSE AcceptSend(r, tag, size, mem) /\ UNCHANGED serr
  /\ UNCHANGED isendSame

FaultIsendClear ==               \* fault: the head moves before the wipe
  /\ spc = "clear"
  /\ fifo' = [fifo EXCEPT ![Slot(fifoHead + 1)][1] = ZeroElem]
  /\ fifoReqs' = [fifoReqs EXCEPT ![HeadSlot] = [r \in Lanes |-> NoReq]]
  /\ fifoHead' = fifoHead + 1
  /\ spc' = "idle"
  /\ UNCHANGED <<recvVars, sreqs, serr, sheld, sent, msg, sPosted, wire, fAcked,
                 fPolled, dArrived, dPolled, sAcked, sPolled, link, buf>>

\* ncclIbIsend, after the post: wipe element 0 of the slot and its matches,
\* and move to the next announced receive.
IsendClear ==
  /\ spc = "clear"
  /\ fifo' = [fifo EXCEPT ![HeadSlot][1] = ZeroElem]
  /\ fifoReqs' = [fifoReqs EXCEPT ![HeadSlot] = [r \in Lanes |-> NoReq]]
  /\ fifoHead' = fifoHead + 1
  /\ spc' = "idle"
  /\ UNCHANGED <<recvVars, sreqs, serr, sheld, sent, msg, sPosted, wire, fAcked,
                 fPolled, dArrived, dPolled, sAcked, sPolled, link, buf>>

ReturnSendTest(q, reqs) ==
  IF AllDone(reqs, q)
  THEN /\ sreqs' = [reqs EXCEPT ![q].type = "unused", ![q].data = NoData]
       /\ sheld' = sheld \ {q}
  ELSE sreqs' = reqs /\ UNCHANGED sheld

SendTestable(q) == serr = "none" /\ spc = "idle" /\ q \in sheld

FaultCompleteSends(reqs, wr) ==  \* fault: the loop starts at the second id
  LET ids == {wr[i] : i \in 2..reqs[wr[1]].nreqs}
  IN [q \in Pool |-> IF q \in ids THEN [reqs[q] EXCEPT !.events = @ - 1]
                                  ELSE reqs[q]]

\* The completion of a message takes an event from each request its wr_id
\* names, as many as the first of them was grouped with.
CompleteSends(reqs, wr) ==
  LET ids == {wr[i] : i \in 1..reqs[wr[1]].nreqs}
  IN [q \in Pool |-> IF q \in ids THEN [reqs[q] EXCEPT !.events = @ - 1]
                                  ELSE reqs[q]]

sendTestSame == <<recvVars, fifo, fifoHead, fifoReqs, spc, sent, sPosted, wire,
                  fAcked, fPolled, dArrived, dPolled, sAcked, link, buf>>

SendTestDone(q) ==
  /\ SendTestable(q) /\ AllDone(sreqs, q)
  /\ ReturnSendTest(q, sreqs)
  /\ UNCHANGED <<sendTestSame, serr, msg, sPolled>>

SendTestData(q) ==
  /\ SendTestable(q) /\ ~AllDone(sreqs, q) /\ sPolled < sAcked
  /\ ReturnSendTest(q, CompleteSends(sreqs, msg[sPolled + 1].wr))
  /\ sPolled' = sPolled + 1 /\ msg' = [msg EXCEPT ![sPolled + 1] = NoMsg]
  /\ UNCHANGED <<sendTestSame, serr>>

SendTestError(q) ==
  /\ SendTestable(q) /\ ~AllDone(sreqs, q)
  /\ link = "down" /\ sPolled = sAcked
  /\ serr' = "remote"
  /\ UNCHANGED <<sendTestSame, sreqs, sheld, msg, sPolled>>

SendTest(q) == SendTestDone(q) \/ SendTestData(q) \/ SendTestError(q)

-----------------------------------------------------------------------------
(***************************************************************************)
(* The reliable connection.  Data messages arrive in the order posted and  *)
(* consume receives in the order posted; the elements of FIFO writes       *)
(* become visible in any order (PCIe relaxed ordering, which the code      *)
(* allows for), each from the staging copy as it is then, one element at   *)
(* a time.  A completion may trail the arrival by any delay.               *)
(***************************************************************************)
netSame == <<recvVars, sendVars, fPolled, dPolled, sPolled>>

FifoLand(k, r) ==
  /\ link = "up" /\ <<k, r>> \in wire
  /\ fifo' = [fifo EXCEPT ![Slot(k - 1)][r] = elems[Slot(k - 1)][r]]
  /\ wire' = wire \ {<<k, r>>}
  /\ UNCHANGED <<netSame, fAcked, dArrived, sAcked, link, buf>>

FifoAck ==
  /\ link = "up"
  /\ \E t \in fAcked+1..fifoTail :
       wq[t] # NoReq /\ (\A j \in fAcked+1..t-1 : wq[j] = NoReq) /\ fAcked' = t
  /\ UNCHANGED <<netSame, fifo, wire, dArrived, sAcked, link, buf>>

\* A write of no bytes touches no memory, whatever its addresses; any other is
\* refused unless it is read from and written to registered memory.
Permitted(m) ==
  \A r \in 1..m.n : m.data[r].size = 0 \/ (m.from[r] = "gpu" /\ m.addr[r] # Stray)

\* The receive whose buffer element r of the next message is for.
Target(m, r) == IF m.data[r].size = 0 THEN dArrived + 1 ELSE m.addr[r]

DataArrive ==
  LET m == msg[dArrived + 1] IN
  /\ link = "up" /\ dArrived < sPosted /\ dArrived < rqPosted
  /\ Permitted(m)
  /\ dArrived' = dArrived + 1
  /\ buf' = [b \in Steps \X Lanes |->
       IF b[2] <= m.n /\ Target(m, b[2]) = b[1] THEN m.data[b[2]] ELSE buf[b]]
  /\ UNCHANGED <<netSame, fifo, wire, fAcked, sAcked, link>>

DataAck ==
  /\ link = "up" /\ sAcked < dArrived
  /\ sAcked' = sAcked + 1
  /\ UNCHANGED <<netSame, fifo, wire, fAcked, dArrived, link, buf>>

ProtectionError ==
  dArrived < sPosted /\ dArrived < rqPosted /\ ~Permitted(msg[dArrived + 1])

\* The connection breaks; what a refused message wrote by then is reported to
\* nobody.
LinkDown ==
  /\ link = "up" /\ (MayFail \/ ProtectionError)
  /\ link' = "down"
  /\ UNCHANGED <<netSame, fifo, wire, fAcked, dArrived, sAcked, buf>>

-----------------------------------------------------------------------------
Next ==
  \/ \E n \in GroupSizes :
       \E tags \in [1..n -> Tags], sizes \in [1..n -> Sizes], mems \in [1..n -> Mems] :
         Irecv(n, tags, sizes, mems)
  \/ \E k \in Steps : RecvTest(k)
  \/ \E tag \in Tags, size \in Sizes, mem \in Mems : Isend(tag, size, mem)
  \/ IsendClear
  \/ \E q \in Pool : SendTest(q)
  \/ \E k \in Steps, r \in Lanes : FifoLand(k, r)
  \/ FifoAck \/ DataArrive \/ DataAck \/ LinkDown

Spec == Init /\ [][Next]_vars

(***************************************************************************)
(* The proxy threads keep polling what they wait for and keep offering     *)
(* the data they have; the queue pair makes progress.  The caller need not *)
(* post another receive.                                                   *)
(***************************************************************************)
Fairness ==
  /\ \A k \in Steps : WF_vars(RecvTest(k))
  /\ \A q \in Pool : WF_vars(SendTest(q))
  /\ WF_vars(\E tag \in Tags, size \in Sizes, mem \in Mems : Isend(tag, size, mem))
  /\ WF_vars(IsendClear)
  /\ \A k \in Steps, r \in Lanes : WF_vars(FifoLand(k, r))
  /\ WF_vars(FifoAck) /\ WF_vars(DataArrive) /\ WF_vars(DataAck)
  /\ WF_vars(ProtectionError /\ LinkDown)

FairSpec == Spec /\ Fairness

-----------------------------------------------------------------------------
(***************************************************************************)
(* Properties.                                                             *)
(***************************************************************************)
Payloads == [tag : Tags, num : Nat \ {0}, size : Sizes] \cup {NoData}
Elems == [addr : 0..Stray, size : Sizes \cup {0}, nreqs : 0..MaxRecvs,
          tag : Tags \cup {0}, idx : 0..MaxSteps]
RecvReqs == [type : {"unused", "recv"}, events : Int, nreqs : 0..MaxRecvs,
             sizes : [Lanes -> Nat]]
SendReqs == [type : {"unused", "send"}, events : Int, nreqs : 0..MaxRecvs,
             mem : Memory, data : Payloads]
Calls == [n : 0..MaxRecvs, tags : Seq(Tags), sizes : Seq(Sizes)]
Msgs  == [n : 0..MaxRecvs, wr : [Lanes -> Pool \cup {NoReq}],
          from : [Lanes -> Memory], addr : [Lanes -> 0..Stray], data : [Lanes -> Payloads]]

RecvShape ==
  /\ rreqs \in [Pool -> RecvReqs]
  /\ elems \in [Slots -> [Lanes -> Elems]]
  /\ fifoTail \in Nat /\ rqPosted \in Nat
  /\ rerr \in {"none", "internal", "remote"}
  /\ held \in [Steps -> Pool \cup {NoReq}]
  /\ result \in [Steps -> Seq(Nat)] /\ call \in [Steps -> Calls]
  /\ place \in [Steps -> Seq(Memory)]
  /\ rq \in [Steps -> Pool \cup {NoReq}] /\ wq \in [Steps -> Pool \cup {NoReq}]

SendShape ==
  /\ sreqs \in [Pool -> SendReqs] /\ sheld \subseteq Pool
  /\ fifoReqs \in [Slots -> [Lanes -> Pool \cup {NoReq}]]
  /\ fifoHead \in Nat /\ sPosted \in Nat
  /\ spc \in {"idle", "clear"} /\ serr \in {"none", "usage", "internal", "remote"}
  /\ sent \in [Tags -> Nat] /\ msg \in [Steps -> Msgs]

NetShape ==
  /\ fifo \in [Slots -> [Lanes -> Elems]] /\ wire \subseteq Steps \X Lanes
  /\ fAcked \in Nat /\ fPolled \in Nat
  /\ dArrived \in Nat /\ dPolled \in Nat /\ sAcked \in Nat /\ sPolled \in Nat
  /\ link \in {"up", "down"} /\ buf \in [Steps \X Lanes -> Payloads]

\* The cursors of each queue keep their order.
Ordered ==
  /\ fPolled <= fAcked /\ fAcked <= fifoTail /\ fifoTail <= MaxSteps
  /\ sPolled <= sAcked /\ sAcked <= dArrived /\ dPolled <= dArrived
  /\ dArrived <= sPosted /\ sPosted <= rqPosted /\ rqPosted = fifoTail
  /\ sPosted = IF spc = "clear" THEN fifoHead + 1 ELSE fifoHead

\* Every variable has its type, the cursors their order, and no request waits
\* for fewer completions than none or for more than its handler posts.
TypeOK ==
  /\ RecvShape /\ SendShape /\ NetShape /\ Ordered
  /\ \A q \in Pool : rreqs[q].events \in 0..2 /\ sreqs[q].events \in 0..1

\* What step k announces for its buffer r.
Announced(k, r) ==
  [addr |-> Address(place[k][r], k), size |-> call[k].sizes[r], nreqs |-> call[k].n,
   tag |-> call[k].tags[r], idx |-> k]

(***************************************************************************)
(* An announced receive the sender has not consumed is never lost: each of *)
(* its elements is intact, in the staging copy until it lands and in the   *)
(* sender's slot from then on.  Nobody checks that the slot is free: the   *)
(* receiver reuses slot and staging copy after MAX_REQUESTS steps, and the *)
(* sender wipes the slot after its post, when the data may have completed  *)
(* the receive already.                                                    *)
(***************************************************************************)
AnnouncementKept ==
  \A k \in fifoHead+1..fifoTail : \A r \in 1..call[k].n :
    IF <<k, r>> \in wire THEN elems[Slot(k - 1)][r] = Announced(k, r)
                        ELSE fifo[Slot(k - 1)][r] = Announced(k, r)

\* Where buffer r of step k stands among the buffers posted for its tag.
Rank(k, r) ==
  Cardinality({b \in (1..k) \X Lanes :
    /\ b[1] < k \/ b[2] <= r
    /\ b[2] <= call[b[1]].n /\ call[b[1]].tags[b[2]] = call[k].tags[r]})

(***************************************************************************)
(* Data lands where it belongs: a buffer holds nothing or the send its     *)
(* place in the order of receives with that tag entitles it to, and no     *)
(* more bytes than were posted.  Slots, elements and matches are reused    *)
(* and elements become visible in any order.                               *)
(***************************************************************************)
DataInOrder ==
  \A b \in Steps \X Lanes : buf[b] # NoData =>
    LET k == b[1]  r == b[2] IN
    /\ k <= fifoTail /\ r <= call[k].n
    /\ buf[b].tag = call[k].tags[r] /\ buf[b].num = Rank(k, r)
    /\ buf[b].size <= call[k].sizes[r]

(***************************************************************************)
(* ncclIbTest reports a receive done only when all its data is there: the  *)
(* first request of each round of the ring waits for two completions, and  *)
(* those of any request may be polled by the Test of another.              *)
(***************************************************************************)
DoneMeansDelivered ==
  \A k \in Steps : result[k] # <<>> =>
    \A r \in 1..call[k].n : buf[<<k, r>>] # NoData

(***************************************************************************)
(* A completion still to be polled names, in its wr_id, the request whose  *)
(* caller still waits for it: ids are reused as soon as a request is freed *)
(* and ncclIbTest trusts the wr_id.                                        *)
(***************************************************************************)
CompletionsLive ==
  /\ \A k \in dPolled+1..rqPosted : held[k] = rq[k]
  /\ \A k \in fPolled+1..fifoTail : wq[k] # NoReq => held[k] = wq[k]
  /\ \A k \in sPolled+1..sPosted : \A r \in 1..msg[k].n :
       /\ msg[k].wr[r] \in sheld
       /\ sreqs[msg[k].wr[r]].events = 1 /\ sreqs[msg[k].wr[r]].nreqs = msg[k].n

(***************************************************************************)
(* The sender refuses a send only for what the receiver really posted: a   *)
(* send is too large for the room of a buffer of that step, or a buffer    *)
(* has no address.  An element read before it landed, or kept from another *)
(* step, would show other sizes, addresses and tags.                       *)
(***************************************************************************)
RefusalsJust ==
  LET k == fifoHead + 1 IN
  /\ serr = "usage" =>
       /\ k <= fifoTail
       /\ \E r \in 1..call[k].n, size \in Sizes : size > call[k].sizes[r]
  /\ serr = "internal" =>
       /\ k <= fifoTail
       /\ \E r \in 1..call[k].n : place[k][r] = "page"

(***************************************************************************)
(* No request leaks and none is short: the used requests are those the     *)
(* callers wait for, so a caller within its window always finds a free     *)
(* one (ncclIbGetRequest's failure is unreachable).                        *)
(***************************************************************************)
PoolSuffices ==
  /\ {q \in Pool : rreqs[q].type # "unused"} = {held[k] : k \in Steps} \ {NoReq}
  /\ {q \in Pool : sreqs[q].type # "unused"} = sheld
  /\ WindowOpen(fifoTail + 1) => \E q \in Pool : rreqs[q].type = "unused"

(***************************************************************************)
(* The receiver's send queue never overflows: only the write of slot 0 is  *)
(* signaled, and a queue entry is reclaimed when a completion at or after  *)
(* it is polled.  The queue holds less than a round and the caller's       *)
(* window, so it stays within max_send_wr, 2*MAX_REQUESTS.                 *)
(***************************************************************************)
FifoQueueFits ==
  /\ fifoTail - fPolled < MaxRequests + Window
  /\ fifoTail - fPolled <= 2 * MaxRequests

\* The work requests ncclIbMultiSend posts for one message.
PostedFor(m) ==
  IF m.n > 1 \/ m.data[1].size > ArThreshold THEN m.n + 1 ELSE m.n

\* The work requests of the sender's queue, by message and place in it.
SendQueue ==
  {w \in (sPolled+1..sPosted) \X (1..MaxRecvs+1) : w[2] <= PostedFor(msg[w[1]])}

\* It never overflows either, and the receive queue never holds more than
\* max_recv_wr receives whose completion has not been polled.
DataQueuesFit ==
  /\ Cardinality(SendQueue) <= 2 * MaxRequests
  /\ rqPosted - dPolled <= MaxRequests

(***************************************************************************)
(* A buffer is written once: never before its receive is posted (TypeOK    *)
(* and DataInOrder) and never again after, so the caller may use it as     *)
(* soon as it is reported.                                                 *)
(***************************************************************************)
WrittenOnce ==
  [][\A b \in Steps \X Lanes : buf[b] # NoData => buf'[b] = buf[b]]_buf

(***************************************************************************)
(* Progress: as long as the sender has data, every posted receive          *)
(* completes, and so does every accepted send, unless an end has been      *)
(* told an error: that a send is too large, that the link is broken, or    *)
(* one that host memory leads to.  Nothing is left waiting with no error   *)
(* anywhere.                                                               *)
(***************************************************************************)
HostUsed ==
  \/ \E k \in 1..fifoTail : \E r \in 1..call[k].n : place[k][r] # "gpu"
  \/ \E k \in sPolled+1..sPosted : \E r \in 1..msg[k].n : msg[k].from[r] # "gpu"

Told ==
  \/ serr = "usage"
  \/ (HostUsed \/ link = "down") /\ (serr # "none" \/ rerr # "none")

ReceivesComplete == \A k \in Steps : fifoTail >= k ~> (result[k] # <<>> \/ Told)
SendsComplete == \A q \in Pool : q \in sheld ~> (q \notin sheld \/ Told)
=============================================================================
