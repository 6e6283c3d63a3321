# Verification of FuseLink

FuseLink is a network plugin for NCCL (`src/src/plugin.cc`, derived from NCCL's
own InfiniBand plugin): a collective sends and receives through it, and it moves
the data over RDMA, in the long run over whichever NIC of the machine is idle,
by way of that NIC's GPU. This directory holds TLA+ models of its parts, the TLC
configurations that check them, and TLAPS proofs of the results that should hold
for every size.

## 1. The system

| Component | Code | State | Operations | Modules |
|---|---|---|---|---|
| Data transport | `plugin.cc` 1132-1145, 1389-1896 | per connection: FIFO of announced receives, request pools, matches, queue pair | `ncclIbIsend`, `ncclIbIrecv`, `ncclIbTest` | `Transport`, `MessageChannel`, `TransportRefinement`, `TransportProofs`, `TransportSendProofs`, `TransportOrderProofs` |
| Connection setup and close | `plugin.cc` 765-1130, 1898-1968 | handle stage, per-channel tables of communicators, `ready` | `ncclIbListen`, `ncclIbConnect`, `ncclIbAccept`, `ncclIbClose*` | `ConnSetup`, `MCConnSetup`, `ConnSetupProofs` |
| Memory registration | `plugin.cc` 1164-1385, `fuselink.h` 69-82, 338-417 | map of regions, reference counts, MR cache per NIC, three kinds of lock | `ncclIbRegMr`, `ncclIbDeregMr` | `MemReg`, `MemRegProofs` |
| NIC monitor and client | `monitor.h`, `monitor.cpp`, `monitor_main.cpp` | shared memory: status and last activity of each NIC, semaphores | monitor thread, `getIdleNic*`, `markNic*` | `NicMonitor`, `NicMonitorProofs` |
| Connection manager | `fuselink.h` 90-336 | channel-to-NIC maps | `refresh*`, `update*`, `mark*` (its calls in `plugin.cc` are commented out) | `NicMonitor`, `NicMonitorProofs` |
| Online serving | `experiments/serving/online_main.cc`, `online_model.hh` | request queue, batch, groups on the wire, sizes received | reader, batching and decode threads | `OnlineServing`, `MCOnlineServing`, `OnlineServingProofs` |
| Offline serving | `experiments/serving/main.cc`, `model.hh` | block tables, block counts, slots of the decode loop | context and decode processes | `OfflineServing`, `OfflineServingProofs` |
| cuMem allocator | `cumem.cu` | allocations and mappings | remap, register | not modelled |
| Discovery | `plugin.cc` 185-427 | device table | `ncclIbInit`, properties | not modelled |
| Support code | `extern/` | - | sockets, verbs wrappers, parameters | not modelled (vendored) |

How they meet. NCCL's proxy threads drive a connection: setup creates a
send/receive pair with one queue pair per NIC (`FuseLinkComm`), exchanging
addresses over a TCP socket; memory is registered before it is named in
`ncclIbIsend`/`ncclIbIrecv`; then the two sides only share the FIFO memory and
the queue pair. The monitor is a process of its own that the plugin reaches
through shared memory. The serving experiments sit on top of NCCL, which loads the
plugin: their processes only exchange NCCL groups.

What is hard. *Transport*: two threads on two machines share a ring written by
RDMA, with no lock and no acknowledgement; slots, staging memory, requests and
work request ids are all reused; elements become visible in any order;
completions are polled by whichever request asks first. *Registration*: three
locks, a reference count and two caches, with failures half way. *Monitor*:
shared memory, semaphores and time-outs between processes that may die.
*Setup*: a resumable state machine across two processes and a table indexed by
channel. *Serving*: threads around a queue, batches that outlive their round, two
processes that must agree on counts each derives by itself, and a block table
indexed by slot with counts indexed by request. `PROJECT.json` lists the hazards one by one, at their lines.

## 2. Plan

1. Done: `Transport` (core), its abstract specification `MessageChannel`, and
   proofs of all its safety properties and of the refinement.
2. Done: `MemReg`, `ConnSetup`, `NicMonitor`, model-checked; what the code does
   not survive has a run that shows the violation where it takes an interleaving
   or several processes to see, and is described in section 9 otherwise.
3. Done: `OnlineServing` and `OfflineServing`; clients of the monitor that die.
4. Done: proofs of the safety properties of `MemReg`, `NicMonitor`, `ConnSetup`,
   `OnlineServing` and `OfflineServing`.
5. Open: the composition of `ConnSetup` with `Transport` (no data before both
   ends are up, nothing on a closed link), which needs transports of several
   connections and is beyond TLC with the present one; `ncclIbInit`.
6. Proofs: every invariant and action property of the passing runs is proved;
   the liveness properties are out of the prover's reach.
7. Open: the `fp32` branch of the offline experiment (section 10).

## 3. Transport

### Model and code

One connection, one receiver proxy thread, one sender proxy thread, and the
reliable queue pair. *Step* `k` is the `k`-th `ncclIbIrecv`, the one that writes
`idx = k`.

| Code | Model |
|---|---|
| `ncclIbIrecv` with `ncclIbPostFifo` | `Irecv`: takes a request, posts a receive, fills the staging slot, posts its write, signaled for slot 0 only |
| `ncclIbTest` on a receive | `RecvTestDone`, `RecvTestImm`, `RecvTestFifo`, `RecvTestError` |
| `ncclIbIsend` with `ncclIbMultiSend` | `Isend` up to the post, `IsendClear` for the memset of the slot and the advance of `fifoHead`: the wire and the peer run between the two |
| `ncclIbTest` on a send | `SendTestDone`, `SendTestData`, `SendTestError` |
| queue pair (external) | `FifoLand`: one element of a FIFO write becomes visible, read from the staging copy as it is then (`NCCL_IB_USE_INLINE` is 0 by default); `FifoAck`, `DataArrive`, `DataAck`; `LinkDown` |
| NCCL (external) | `WindowOpen`: a sub-operation keeps its outstanding requests in an array of `NCCL_STEPS` entries, so the steps it still waits for span less than a window |

A call of `ncclIbTest` polls up to four completions of either queue, and again
until the request is done or nothing is left; the model polls one at a time,
which has all those interleavings and more. `ncclIbIsend`'s spin until the last
element of a group has landed (line 1496) is a guard. Data is a tag, its number
among the sends of that tag, and a size. Entries of `rq`, `wq` and `msg` are
forgotten when they are polled.

Both ends convert the caller's pointer, `flmr->addr[dev] + data - start_addr`
(`Address`). A buffer in GPU memory (`"gpu"`) gets an address of its own,
represented by the step that announced it. Of host memory,
`FuseLinkMemRegionInit` fills in only `addr[MAX_GPU_NUM]`, so what is left is the
offset in the page: 0 for a buffer at the beginning of a page (`"page"`), an
address outside of every region for another (`"host"`). `Isend` refuses an
announcement with address 0 (`NoAddress`, after the check of the room); a message
whose source or target lies outside of the registered memory is refused by the
queue pair, which breaks (`Permitted`, `ProtectionError`), except when it has no
bytes: such a write touches no memory, and its receive completes. `Mems` and
`Rooms` are the memory and the sizes of receives that a run's callers use.

Branches the code has and the model has not, because the checked properties
say they cannot be reached: an empty request pool (`PoolSuffices`), and a
completion for a request of another type or without pending events
(`CompletionsLive`). Left out altogether: an `ibv_post_*` that fails (NCCL
stops), `n > NCCL_NET_IB_MAX_RECVS` (refused before anything changes), and
`ncclIbIflush`, which returns at once: `gpuFlush.enabled` is 0 unless
`NCCL_GDR_FLUSH_DISABLE=0`, and the queue pair it would post to is never made
(`plugin.cc` 1055-1061).

### Properties

- `TypeOK`: types, the order of the cursors, events between 0 and what was posted.
- `AnnouncementKept`: an announced receive that was not consumed is intact,
  in the staging copy or in the slot. Nothing in the code checks that a slot is
  free; the caller's window is what protects it.
- `DataInOrder`: every buffer gets exactly the send that its place among the
  receives of that tag entitles it to, and not too long. That it gets it once
  (`WrittenOnce`) follows from `ImplementsChannel` in the runs and is a theorem.
- `DoneMeansDelivered`, `CompletionsLive`, `PoolSuffices`: requests, work
  request ids and completions match however they are reused.
- `FifoQueueFits`, `DataQueuesFit`: the queues never overflow, although the
  receiver reclaims its send queue once per round only. What it leaves in the queue
  is less than a round and the window; the queue has room for two rounds.
- `RefusalsJust`: a send is refused only for what its receiver posted in that
  step. This is what the spin at line 1496 is for. An element read before it
  landed shows tag 0 and no room (the slot was never written), or what an earlier
  round left; a tag of 0 is therefore among those of the run.
- `ReceivesComplete`, `SendsComplete`: progress. A receive may never complete if a
  send was too large for it, if the link broke or if host memory was used, but then
  one of the ends has returned an error (`Told`); with none of the three, no
  exception applies.
- `ImplementsChannel`: the connection implements `MessageChannel`, in which
  slots, requests, queues and completions do not appear.

### Runs

| Run | Bounds | Shows |
|---|---|---|
| `ring` | 3 slots, window 2, 5 steps, 2 tags, GPU and page-aligned host memory, split messages | the ring is reused in every slot but one, and its first slot (the signaled one) is written in two rounds; safety, refinement. Without its signaled write the queue would exceed its bound in the second round |
| `grouped` | 3 slots, groups of 1 or 2 buffers, tags 0 and 1, 4 steps | landing order and matching of grouped receives, over more steps than slots |
| `live` | 3 slots, window 2, 4 steps, GPU and both kinds of host memory, sends of one or two units for receives of one, split messages, link may break, fair | liveness, order, delivery and queues with errors, over more steps than slots |

The real constants are 256 slots, groups of up to 8 and a window of 8
(`NCCL_STEPS`); the window that matters is any smaller than the ring, which the
runs have with the least number of slots that makes slots, requests and the
signaled write recur. With a window equal to the ring, `AnnouncementKept` fails:
the wipe of a slot destroys the announcement of a round later. Deadlock is not checked: a
behaviour ends when its steps are used up, and the caller need not post.

Fairness (`FairSpec`): NCCL's proxy keeps calling `ncclIbTest` on every request
it holds and `ncclIbIsend` on data it has, and a reliable queue pair that does
not break delivers: weak fairness of each of these actions. Posting a receive
is not fair.

### Proofs

`TransportProofs` starts with the arithmetic of the ring (`SlotsDiffer`,
`SlotsRepeat`) and that every action keeps the types. It proves, for every value of
the constants that satisfies `ConstantsOK`:

- `AnnouncementsAlwaysKept`: `Spec => []AnnouncementKept` if `Window < MaxRequests`;
- `FifoQueueAlwaysFits`: `Spec => []FifoQueueFits` if `Window <= MaxRequests`.

The inductive invariant is `BaseInv /\ KeptInv`. Its heart is `HeldInv`: each
request the caller holds belongs to one step of the window and waits for
exactly that step's completions, and a step not held was completed. So a step
older than the window was polled (`WindowPolled`), and the steps not consumed
span less than the ring (`Span`); hence two of them never share a slot
(`OpenSlotsDiffer`), which is what keeps `AnnouncementKept` when a slot is
staged, landed or wiped. `WireInv` says an element on the wire was not consumed
and its slot does not have it yet, so a head slot that is ready has no element
on the wire. `SignalInv` says which writes were signaled; for `FifoQueueFits`
the first signaled write after the last one polled is held, so within the window.

`TransportSendProofs` adds the sender, again for `Window < MaxRequests`:

- `DoneAlwaysDelivered`: `Spec => []DoneMeansDelivered`;
- `CompletionsAlwaysLive`: `Spec => []CompletionsLive`;
- `TypesAlwaysOK`: `Spec => []TypeOK`;
- `RefusalsAlwaysJust`: `Spec => []RefusalsJust`.

Its invariant `SendInv` speaks of `Id(k, r)`, the request that serves buffer `r`
of step `k`: it is among the matches of the head slot until the step's message
is posted, and in that message's `wr_id` from then on, so that it survives the
hand-over in the middle of `ncclIbIsend`. A named request waits for one
completion, and no two names are the same (`IdInv`); hence the completion of a
message decrements exactly its own requests. `MsgInv` says a message still to be
polled is whole, addressed to its step and has data, and `DoneInv` that a step
with a result was polled and what arrived is in the buffers. `RefusalsJust` follows
from `AnnouncementKept`: a head slot that is ready has no element on the wire, so
each of its elements is what the receiver announced. All proofs are of every
`Mems`, those of host memory included: `MsgInv` says a
message's address is in its own step's buffer or outside of every region, and only
a permitted message arrives.

`TransportOrderProofs` adds the data, under the same condition:

- `DataAlwaysInOrder`: `Spec => []DataInOrder`, and `BuffersWrittenOnce`:
  `Spec => WrittenOnce`;
- `PoolAlwaysSuffices`: `Spec => []PoolSuffices`, and `DataQueuesAlwaysFit`:
  `Spec => []DataQueuesFit`;
- `TransportImplementsChannel`: `Spec` implements `MessageChannel`.

Its invariant `OrderInv` counts: the sends accepted for a tag are as many as the
buffers matched with it (`CountInv`). The buffers matched are those before the
head step and, in it, a prefix of those of the tag (`HeadInv`), because
`ncclIbIsend` takes the first free one; so the send accepted next goes to the
buffer whose rank is one more than the count (`MatchedIsUpTo`, `AcceptRank`).
That send stays with the request, the message on the wire (`CarryInv`) and the
buffer (`BufInv`), each of which knows what its rank entitles it to. The pool and
the queues are pigeonholes: requests that are in use, and work requests not yet
polled, map one to one to buffers of steps the caller holds, of which there are at
most `Window` on each side (`FS_PigeonHole`). The refinement follows step by step:
`Irecv` posts, each send `Isend` takes is an accept, an arrival delivers, a test
that finds a request done reports, and every other step changes nothing that
`MessageChannel` sees. An instance has its own copy of `Cardinality`;
`SameCardinality` says it is the same.

Only model-checked: `ReceivesComplete` and `SendsComplete`, since liveness is out
of the prover's reach.

## 4. Connection setup

### Model and code

`ConnSetup` has a set of connections, each from one process to another.
`ncclIbConnect` and `ncclIbAccept` are resumable: `stage` is `ncclIbCommStage`,
and an action is what a call does between two places where it may return.

| Code | Model |
|---|---|
| `ncclIbListen`, `ncclIbAllocateChannel` | `Listen`: the process of the listener counts channels |
| `ncclIbConnect` | `ConnectStart`, `ConnectLinks`/`ConnectRefused` (from `ib_connect_check`), `ConnectSend`, `ConnectRead`/`ConnectUp`/`ConnectFails` (`ib_connect`), `ConnectReady` |
| `ncclIbAccept` | `AcceptStart`, `AcceptCheck`, `AcceptRead`/`AcceptLinks`/`AcceptRefused` (`ib_recv` and all that follows), `AcceptSend`, `AcceptReady` |
| `ncclIbCloseSend`, `ncclIbCloseRecv` | `CloseSend`, `CloseRecv`: destroy the links found in the channel's row, which keeps pointing to them |
| socket | two queues of pieces per connection; a message comes in `Pieces` |

A queue pair number is the side, connection and NIC it was made for. The loops
over the NICs are single actions: apart from the protection domains, counted
under a lock, they touch one row of a table, and that two connections share no
row is `RowsOwned`. Both ends have the same number of NICs and the same
`FUSELINK_CHANNEL2NIC`. The `dev` arguments of `ncclIbListen` and `ncclIbConnect`
are two, one for each end (`Dev`), which NCCL chooses independently; `ControlDev`
is what either end makes of its own.

The verbs library may refuse any call, at either end and at any NIC: making a link
and its queue pair, registering the FIFO or the memory it is written from, bringing
a link up. The call then returns an error, with the links of the NICs before made
and counted (`RefusedAt`), and is not repeated; the other end is not told, and
goes on waiting for the next message.

### Properties and runs

`LinksPaired`: what is handed out is connected, NIC by NIC, to the peer's links
of the same connection, and the peer has brought them up. `FifoFound`: a
receiver writes to its own peer's FIFO, over the NIC it is registered on, exactly
if the channel is mapped or both ends were given the same NIC; in every other case
it is handed out with an entry nobody filled in (`NoLink`). `RowsOwned`: a row holds the links of the connection
that uses the channel. `PdsCounted`: a protection domain counts `ncclIbInit` and its
links, those of refused set-ups included; so it is never freed, which would happen
with the FIFO's MR still registered and a lock held. `HandedOutTogether`: no end is
handed out whose other end was refused; the last end that can be refused (the sender,
bringing its links up) is the one that ends the exchange. `SetupCompletes`: both ends
finish unless one of them is refused; then the other waits for good, as the code has
it.

- `setup`: connections `a -> b` twice and `b -> a`, two NICs, two pieces, a
  mapping that covers channel 0 only, and NICs that agree at the two ends of one
  connection and differ in the others. Three connections are the fewest that put
  two channels between the same processes and both kinds of link into one. An
  offset stops in the middle of each message. `SetupCompletes` is checked of the
  same network.
- `setup_fork` (finding): one process connects to two. Both listeners count
  from 0, so the second connection takes over the first's row. In the same
  network `LinksPaired` fails too, some steps later: the first connection brings
  up the second's links with its own peer and is reported connected.

Fairness: NCCL calls both functions until they return a communicator or an error.
Closing is not fair, and a behaviour may end, so deadlock is not checked.

### Proofs

`ConnSetupProofs` proves, for every value of the constants in which connections of
one process go to one process (`OneListenerEach`, the condition that `setup_fork`
breaks):

- `RowsAlwaysOwned`: `Spec => []RowsOwned`, and `PdsAlwaysCounted`:
  `Spec => []PdsCounted`;
- `LinksAlwaysPaired`: `Spec => []LinksPaired`, and `FifoAlwaysFound`:
  `Spec => []FifoFound`, for any `Dev` and any mapping;
- `AlwaysHandedOutTogether`: `Spec => []HandedOutTogether`;
- `SetupTypes`: `Spec => []TypeOK`.

The invariant `IInv` goes by the stages: a side has live links exactly in the
states between the call that makes them and its close, and then the row of its
channel is its own (`StageInv`). That a row is not taken over follows from
`ChanInv`: a listener's counter is the number of its connections, so channels are
different for one listener, and below `FUSELINK_MAX_NCHANNEL`. `PdInv` counts
sides instead of links, which is the same for every NIC although they are brought
up one by one and one of them may be refused.

`NetInv` is the conversation over the socket, and holds with `IInv`. A side writes a
fixed series of pieces; how many it has written, and how many of its peer's it has
read, follow from its stage and offset (`Written`, `Taken`), and the socket holds
exactly those in between (`QueueInv`). So the staging buffer of a reader is a
beginning of what its own peer wrote (`BufferInv`), which makes what it decodes the
peer's queue pairs and FIFO (`IncomingIs`), and since no more can be read than was
written, the stage of one side bounds the stage of the other (`Conversation`): a
sender that is connected has a receiver with its links up, and a receiver that is
handed out has a sender that is, and an end that was refused has an end that is not
handed out. Where the receiver looks for the FIFO, and where the sender put it, are
two values of `ControlDev` for the channel the listener chose (`RecvDev`, `ChanDev`): the same if
the channel is mapped or the arguments agree, and otherwise the entry is the one of
another NIC, which is empty. Only model-checked: `SetupCompletes` (liveness).

## 5. Memory registration

### Model and code

`MemReg` has threads that call `ncclIbRegMrDmaBuf` and `ncclIbDeregMr`. A step is
the code between two lock operations that other threads can observe.

| Code | Model |
|---|---|
| lookup in `addr2flmr` | `RegFind` then `RegRef` (found: the map is unlocked before `nrefs` is counted), `RegCreate` (not found: the map stays locked) |
| `FuseLinkRegMr`, NIC by NIC | `RegHit`, `RegMiss`, `RegRefused` (leaves with the NIC's lock) |
| rest of `ncclIbRegMrDmaBuf` | `RegPublish`, whatever `FuseLinkRegMr` returned |
| `FuseLinkDeregMr` | `DeregDrop`, `DeregMrs` or `DeregRefused` (leaves with the region's lock), `DeregErase`, `DeregFree` |

The MR cache never forgets; a region is freed, and its entry of the heap is not
used again, so that a use after free shows. A base stands for an allocation and
its size. Host memory is registered with the NIC of the communicator only.

### Properties and runs

- `mem`: `RefsCounted` (references are the users, nobody holds or waits for a
  region that is taken apart), `OneRegionPerBase`, `NoMrLeft`, and `HeldMrsKept`: as
  long as somebody has a handle, the region's MRs stay as they are and registered,
  although the caches let several regions, one after the other, name the same MR.
  Three threads, an allocation on the GPU and one on the host, two NICs,
  communicators on both of them, three registrations, refusals. The callers are
  assumed to keep registering and deregistering one base apart (`Serial`); several
  threads registering it at once, or deregistering it at once, are in the run.
- `mem_locks`: `CallsReturn`, without `Serial`, so that the map's lock, the region's
  and the NICs' are wanted in every order the code can want them in; with three
  threads and two GPU allocations, which is what a circle of the three kinds of lock
  takes. Two exits of the code keep a lock for good (`RegRefused` a NIC's,
  `DeregRefused` a region's). The property excuses a call that waits for exactly such
  a lock (`KeptByRefusal`) or behind one that does, and nothing else: in particular a
  lock that a registration or a deregistration under way has is never excused.
- `mem_race` (finding): without `Serial` a region is freed with one reference
  (`FreedAtZero`).

Fairness: a thread inside a call goes on. Nobody has to call, so a behaviour
may end and deadlock is not checked; `CallsReturn` is what excludes a lock that
is never released.

### Proofs

`MemRegProofs` proves, for any number of threads, NICs, allocations and
registrations, communicators on any of the NICs, with refusals, and with callers that
keep registering and deregistering one base apart (`Serial`):

- `RefsAlwaysCounted`, `OneRegionAlways`, `NeverMrLeft`, `MemTypes`: the
  invariants of the run;
- `HeldMrsAlwaysKept`: `Spec => HeldMrsKept`;
- `FreedAtZeroWhenApart`: `Spec => FreedAtZero`, which `mem_race` refutes without
  the assumption.

The inductive invariant `IInv` says what a thread knows at each place. Between
`RegFind` and `RegRef`, where it holds no lock, and from `DeregDrop` to
`DeregErase` its region is the one the map names for its base; while a region is
made, and between `DeregErase` and `DeregFree`, the map names none and the region
is the thread's alone (`RegionOf`, `AloneOne`). A live region is in one of these
two cases (`LiveAt`), from which `OneRegionPerBase` follows. `CountInv` makes
`nrefs` the cardinality of a set of users that every step changes by one element
(`HandleMore`, `HandleLess`, `OwningAfter`); so the thread that takes it to zero
knows there is no other (`OwnerCounted`, `HolderCounted`). `ApartInv` is what the
callers grant. `MrInv` says that the MR a live region has for a NIC is the one that the
NIC's cache has for its base, and that a cached MR is cached once, for one NIC and one
base. A thread that registers or deregisters MRs works on a region whose base no
region with a handle has (`HeldApart`), so the MRs it changes are not those of a handle.
Only model-checked: `CallsReturn` (liveness).

## 6. NIC monitor and connection manager

`NicMonitor` has the shared memory as `status` and `age` (the time since the last
activity, up to the longest age the code tells apart), the monitor's sweep as
`SweepStart` (reads the clock) and one `SweepGroup` per turn of the semaphore,
and the connection manager's calls `RefreshTx`, `RefreshRx` and `UpdateActive`. A
client's call holds the semaphore throughout and is one action. A client may die
within a call (`DieBorrowing`, `DieMarking`): what it has written so far stays,
and `sem` is lost, because nothing recovers a POSIX semaphore. Nothing starts
this part at present: `Monitor::start` has its thread commented out,
`monitor_main.cpp` does not set up the shared memory and `plugin.cc` does not call
the manager; the model is of the code as written.

- `IdleMeansQuiet`: the clock the monitor judges by is stale when it has the
  semaphore, but only ever too early.
- `QuietBecomesIdle`: `getIdleNicTx` marks all idle NICs and hands out one; the
  others come back, unless a client died with the semaphore. That exception is
  needed: one death stops the monitor and every client for good.

That a borrowed NIC is one channel's alone is not among the properties: it is not
(section 9).

Run `monitor`: two NICs, two channels, both directions, a timeout of one tick and
a sweep that may take one, so that a NIC becomes active, and its time-out ends,
within a sweep. Fairness: the monitor's loop goes on and time passes.

`NicMonitorProofs` proves the invariants for every value of the constants:
`TypesHold` and `IdleAlwaysQuiet`. That the manager's loop ends at an idle NIC if there
is one is `MaxOfNics`, from the well-foundedness of the natural numbers.
`QuietBecomesIdle` is only model-checked.

## 7. Online serving

### Model and code

Each rank of the tensor-parallel model is a pair of processes. `OnlineServing` has
the reader and the context thread of one and the decode thread of the other.

| Code | Model |
|---|---|
| `readRequests` | `Push` (under the mutex, as soon as the time stamp allows, hence at any time) and `Notify`, apart because the mutex is released in between |
| `queue_cv.wait` | `LockQueue`: takes the mutex and looks; `waiting` until `Notify` or `SpuriousWakeup` |
| batching loop of `context_process` | `Collect`, one request a step, with the mutex held; a front request that is too long disables it for good, which is what the `continue` before the `pop` does |
| `lock.unlock` and `PreProcess` | `PreProcess` |
| `Forward` | `Forward`: collective over the ranks, which reduce activations of the same number of tokens; a rank that runs out of blocks exits |
| `PostProcess` | `SendSizes`, `SendData` |
| decode `PreProcess`, `Forward` | `RecvSizes`, `RecvData`, `DecodeForward` (a sleep for every decoding step) |
| NCCL (external) | `wire`: groups in order, at most `WireSlots` of them before a sender waits |

A batch is the sequence of its requests; tokens, layout and layers of the cache
are left out, a cache is a number of blocks. `SizesOf` has the numbers of the first
group that differ from batch to batch.

### Properties and runs

- `NothingLost`: at any time the requests read are those decoded, followed by
  those on the wire, in the model, under construction and in the queue, in order.
- `NoLostWakeup`: the context thread does not sleep over a queued request.
- `HandoffAgrees`: data is received by the sizes of its own batch.
- `KvFits`: no block beyond the pool, no block number beyond the cache, no volume
  beyond the caches, with the preconditions the code relies on: an input length
  that fills its blocks and prompts that leave room for the reserved tokens.
  Without them the volume sent is greater than the cache it is read from.
- `Served`: with no request that is too long, every request is decoded.

Run `online`: every trace of three lines of four kinds (short; without room for
the reserved tokens; mostly shared; too long) and a trace of five, batches of two,
blocks of two tokens. Three lines make two rounds, one with a full batch and one
with what is left; five let the context process run two batches ahead of the
decode process. Fairness: the threads run and NCCL delivers; spurious wakeups are
not relied upon. The program has no end, so deadlock is not checked. Run
`online_tp` (finding): two ranks, two lines.

### Proofs

`OnlineServingProofs` proves `WakeupNeverLost` (`Spec => []NoLostWakeup`, inductive as
it stands) and `HandoffAlwaysAgrees` (`Spec => []HandoffAgrees`), for any ranks,
traces, sizes and buffering. `HandoffOK` describes the whole wire: sizes and data
alternate, data with the numbers before it; the first group goes by where the
decode thread is, the last by where the context thread is, and on an empty wire
both are in the same half of a handoff, with the same numbers. The batch may change
only outside a handoff (`ContextElsewhere`).

`NothingEverLost` (`Spec => []NothingLost`) follows the five places a request can be
in through every step by the algebra of concatenation (the `Held` lemmas). It needs
the types, `BatchInv` (no rank exits, so a batch that goes through the model is sent),
`PlaceInv` (only the batching loop has a batch under construction, and a group of
sizes brings no request) and `HandoffAgrees`, without which data could be taken for
sizes and dropped. `CacheAlwaysFits` (`Spec => []KvFits`) rests on `BatchInv`: the
batching loop lets in at most `--batch_size` prompts of at most `--input_len` tokens,
so the forward pass, which counts the same blocks, finds them. `OnlineTypes` is type
correctness. All three use only `OnlineAssumption`, whose last conjunct says that a
line shares no more of its prompt than the prompt has.

`FlattenSeq` and `SumTo` are recursive functions, that is chosen by `CHOOSE`. The
lemmas show that the function exists, and what it is at a larger argument, by taking
the least argument where that fails (`LeastOf`); the induction theorems of the
library, which take an operator, are not needed. `Served` is only model-checked.

## 8. Offline serving

### Model and code

| Code | Model |
|---|---|
| options, `LoadTestParams` | `params` and the sizes derived from it; `--precision fp16` |
| context `Forward` | `ContextForward`: blocks numbered through the batch from 1 |
| context `PostProcess` with decode `PreProcess` | `Handoff`, if both sides agree on the counts of the group |
| decode `Forward` | `AllocateBlock` and `NextSlot` (the loop before the pass), `DecodeForward` (the pass and the loop that files its results; any set of requests may get the end token), `DecodeDone` |
| `MPI_Barrier` | `Barrier` |

Rows, requests and slots count from 1 here. `given` is a history variable.

### Properties and runs

- `RowsFollowRequests`: the row of a slot is the list of blocks its request was
  given; rows move with slots and counts stay with requests.
- `TokenHasBlock`: the position a round writes lies in a block the request has.
- `CacheHolds`: block numbers stay below the size of the cache, if prompts fill
  their last block. Otherwise the number of the last block equals the size.
- `Finishes`: both processes get to the end; the decode process, which gives up
  one block early, never needs that block.

Run `offline`: all 108 combinations of batch size, input length, block size and
number of steps given in the configuration, which has every relation of the
quotients that matter (full and partial blocks, a step that needs a new block and
one that does not). Fairness: the processes run on.

### Proofs

`OfflineServingProofs` proves, for any set of options that are positive (any number of
steps; `OfflineAssumption`), whichever requests end when:

- `OfflineTypes`: `Spec => []TypeOK`; a request never takes more blocks than its row
  of the table has room for;
- `RowsAlwaysFollow`: `Spec => []RowsFollowRequests`;
- `TokenAlwaysHasBlock`: `Spec => []TokenHasBlock`;
- `CacheAlwaysHolds`: `Spec => []CacheHolds`.

The inductive invariant `Inv` has four parts. `Typed` adds to the types that every
slot in use has a request of its own, which has `step + 1` tokens and whose next
input is the last of them (`SlotInv`). `RowInv` says the blocks a request was given
are in its row of the context process's table until the handoff, and in the row of
its slot after it. `CountInv`: a slot the allocation loop has passed has the blocks
its request needs, and these reach just beyond the position of its newest token
(`BlocksReach`). They never exceed a row, because a slot still in use has rounds to
go and more tokens take at least as many blocks (`NeededFits`, `BlocksGrow`).
`BlockInv` bounds the numbers in both tables by the sizes of the two caches; that the
size of the first is beyond the last number is `BlocksOfFull`.

A round files its results in the slots that survive it. `SurvivorsAscend` says that
they are different slots, all among those in use, so a request and its row move to one
slot and no request is doubled. `Survivors` is a recursive function,
that is chosen by `CHOOSE`; that it exists follows from the least argument at which it
would not (`LeastOf`). Only model-checked: `Finishes` (liveness).

## 9. Discrepancies met

Three runs show a disagreement between the code and what it says of itself:
`setup_fork`, `mem_race` and `online_tp`, described above and in `PROJECT.json`. Others
were met on the way. They need no interleaving to see, or a short one, so no run is
spent on them; the models have the behaviour in each case that is marked *modelled*:

- *Modelled.* Host memory does not work although `plugin.cc` 412 offers it to NCCL:
  `ncclIbPostFifo` (1596) and `ncclIbIsend` (1560) take a buffer's address from an
  entry of `addr` that only GPU regions have (`fuselink.h` 357). A page-aligned buffer
  is announced with address 0, and the sender answers `ncclInternalError` with the
  link up (1540-1546); any other is announced with an address no memory region
  covers. `ring` and `live` have both.
- *Modelled.* A channel that `FUSELINK_CHANNEL2NIC` does not map uses the NICs that NCCL
  names to `ncclIbListen` and to `ncclIbConnect`. If they differ, `ncclIbAccept` reads the
  FIFO's key from an entry that `ncclIbConnect` did not fill in (1042-1043 against
  875-881; `qpInfos` is an uninitialised local array, 835). `FifoFound` says exactly when.
- *Modelled.* `FuseLinkDeregMr` (1352-1357) never tells the NICs' caches, so registering the
  same memory again (1228-1233) hands out MRs that no longer exist, against "registration
  on all NICs" (`fuselink.h` 74). Hence `MemReg` has no property that a handle's MRs are
  live on every NIC; `HeldMrsKept` says that those it was given are not taken from it.
- *Modelled.* A region found in `addr2flmr` is handed out as it is (1303-1312). Host memory
  has an MR on the NIC of the first communicator only (1172); one on another NIC, which
  the mapping gives its channel, reads a null `mr[dev]` (1561, 1597).
- *Modelled.* A refused registration jumps past the branch that says "dereg previous ones
  and return error" (1239-1247): the NIC's lock stays held, the MRs made before stay, and
  the caller ignores the result (1215, 1258-1261, 1329).
- *Modelled.* The lending of NICs is not exclusive, as `fuselink.h` 299-300 asks: borrowing
  takes no time stamp (`monitor.h` 188-202), so the next sweep sets the NIC idle
  (`monitor.cpp` 172-176) and it is lent to another channel while the first keeps it.
  Three NICs and two channels on the first are enough.
- `ncclIbTest` reports every receive with size 0: `recv.sizes` is zeroed by
  `ncclIbIrecv` (`plugin.cc` 1694) and the update at 1879 is commented out, while
  `nccl_net.h` 81 promises the number of bytes.
- A grouped receive is accepted, announced and filled, and then refused at its
  completion (`plugin.cc` 1870-1877), while 423 advertises groups of 8.
- The offline decode process counts its blocks from 0 again (`model.hh` 405) and so
  hands out numbers that the received table already uses.
- The `fp32` branch of the offline decode process does not call `PreProcessInit`
  (`main.cc` 215-219), which makes its model and stream; and `send_time`, a `float`, is sent as an `MPI_DOUBLE` (234).
- The online context process frees six of its device buffers per batch and keeps
  the six that hold sizes (`online_model.hh` 414-440, 496-503).
- With `NCCL_GDR_FLUSH_DISABLE=0`, `ncclIbIflush` posts to a queue pair that is never
  made (`plugin.cc` 1055-1061, 1758).
- An MR refused by `ibv_dereg_mr` leaves a region in the map with no references, which
  the next registration of its base then waits for (`plugin.cc` 1354; excused in
  `CallsReturn`).
- `bool RefreshRxComm` returns a pointer (`fuselink.h` 185-192).

## 10. Not modelled

- `ncclIbInit` and the device table (`plugin.cc` 185-427): environment variables,
  sysfs and verbs queries. NCCL calls it once per process and drops the plugin when
  it fails. What it leaves behind then (a device count set before the lock is
  taken, a lock that stays held) is a listed hazard. `ConnSetup` starts with its
  outcome: a protection domain with one reference per NIC.
- `cumem.cu`: not part of the plugin, its include is commented out (`plugin.cc` 30)
  and nothing calls it.
- ECE options, `ncclIbIflush` (returns at once), the asynchronous event thread
  (prints only), a failing `ibv_post_*` (NCCL stops).
- `extern/`: taken from NCCL; sockets, verbs and parameters are used through their
  interface only.
- The placeholders of the connection manager that return `NULL` or a constant, and
  `getNICStatus`, which only reads.
- A monitor that stops or starts again; a channel number beyond the table.
- The `fp32` branch of the offline experiment (`main.cc` 203-220), which
  `run_test_context.sh` selects: its context side makes the calls of the `fp16` branch,
  its decode side works on a model that was never made.
- SwiftTransformer, MPI and CUDA beneath the experiments.
