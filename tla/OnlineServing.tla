--------------------------- MODULE OnlineServing ---------------------------
(***************************************************************************)
(* The online serving experiment (online_main.cc, online_model.hh).  Every *)
(* tensor-parallel rank runs two processes.  The context process has a     *)
(* reader thread, which replays the trace into request_queue, and a        *)
(* context thread, which batches what is queued, runs the prompt through   *)
(* the model and hands the KV cache to the decode process in two groups of *)
(* NCCL sends: the sizes, then the data.  The decode process receives the  *)
(* two groups and decodes.                                                 *)
(*                                                                         *)
(* Token values, timing and the layout of the cache are left out: a batch  *)
(* is the sequence of its requests, a cache a number of blocks.            *)
(***************************************************************************)
EXTENDS Naturals, Sequences, SequencesExt

CONSTANTS
  Ranks,            \* the tensor-parallel ranks, each a pair of processes
  Traces,           \* the trace files a run may be given
  InputLen,         \* --input_len
  BatchSize,        \* --batch_size
  BlockSize,        \* --block_size
  NumDecodingStep,  \* --num_decoding_step
  WireSlots         \* groups NCCL buffers before a sender waits

\* A line of a trace: its time stamp, which tells requests apart, the length
\* of the prompt and the length of the part whose KV cache is shared.
Line == [timestamp : Nat, prompt_length : Nat, shared_prompt_length : Nat]

ASSUME OnlineAssumption ==
  /\ InputLen \in Nat
  /\ BatchSize \in Nat \ {0}
  /\ BlockSize \in Nat \ {0}
  /\ NumDecodingStep \in Nat \ {0}
  /\ WireSlots \in Nat \ {0}
  /\ Traces \subseteq Seq(Line)
  /\ \A t \in Traces : \A i \in 1..Len(t) :
        t[i].shared_prompt_length <= t[i].prompt_length

Request == [timestamp : Nat, prompt_len : Nat, active_prompt_len : Nat]

VARIABLES
  trace,          \* the file all readers read
  linesRead,      \* per rank: lines the reader has pushed
  notifying,      \* per rank: the reader has pushed and not yet notified
  request_queue,  \* per rank: requests pushed and not yet batched
  queueMutex,     \* per rank: whether the context thread holds the mutex
                  \* (the reader holds it within one step only)
  ctx,            \* per rank: where the context thread is
  collected,      \* per rank: the batch under construction
  batch,          \* per rank: the model's input_tokens_batched, input_lens
  wire,           \* per rank: groups sent and not yet received
  dec,            \* per rank: where the decode thread is
  sizes,          \* per rank: the sizes the decode process last received
  decoded         \* per rank: requests whose KV cache arrived, in order

readerVars == <<linesRead, notifying>>
ctxVars == <<queueMutex, ctx, collected, batch>>
decVars == <<dec, sizes, decoded>>
vars == <<trace, linesRead, notifying, request_queue, queueMutex, ctx,
          collected, batch, wire, dec, sizes, decoded>>

-----------------------------------------------------------------------------
(* Blocks of KV cache.                                                     *)

\* ROUND_UP(x, block_size) / block_size
Blocks(x) == (x + BlockSize - 1) \div BlockSize

FaultContextBlocks == Blocks(InputLen) * BatchSize  \* fault: no token beyond the input

\* The sizes LoadTestParams derives from the options.
context_block_size == Blocks(InputLen + 1) * BatchSize
max_block_size == Blocks(InputLen + NumDecodingStep) * BatchSize

\* What the first n of the numbers f[1], f[2], ... add up to.
SumTo(f, n) ==
  LET sum[i \in 0..n] == IF i = 0 THEN 0 ELSE sum[i - 1] + f[i]
  IN  sum[n]

\* The cache volume sent for a batch: its prompts, shared part included,
\* and five tokens more each.
TotalBlock(b) ==
  SumTo([i \in 1..Len(b) |-> Blocks(b[i].prompt_len + 5)], Len(b))

\* The blocks allocated for a batch, whose prompts exclude the shared part.
AllocatedBlocks(b) ==
  SumTo([i \in 1..Len(b) |-> Blocks(b[i].active_prompt_len)], Len(b))

\* The numbers of the first group, by which the second is received.
SizesOf(b) ==
  [batch |-> Len(b),
   cache |-> TotalBlock(b),
   tokens |-> SumTo([i \in 1..Len(b) |-> b[i].active_prompt_len], Len(b))]

NoSizes == [batch |-> 0, cache |-> 0, tokens |-> 0]

-----------------------------------------------------------------------------
Init ==
  /\ trace \in Traces
  /\ linesRead = [r \in Ranks |-> 0]
  /\ notifying = [r \in Ranks |-> FALSE]
  /\ request_queue = [r \in Ranks |-> <<>>]
  /\ queueMutex = [r \in Ranks |-> FALSE]
  /\ ctx = [r \in Ranks |-> "lock"]
  /\ collected = [r \in Ranks |-> <<>>]
  /\ batch = [r \in Ranks |-> <<>>]
  /\ wire = [r \in Ranks |-> <<>>]
  /\ dec = [r \in Ranks |-> "recv_sizes"]
  /\ sizes = [r \in Ranks |-> NoSizes]
  /\ decoded = [r \in Ranks |-> <<>>]

(* The reader thread.  It sleeps until the time stamp of the line, which   *)
(* leaves it free to take the step at any later time.                      *)

FaultRequestOf(line) ==          \* fault: the two lengths are swapped
  [timestamp |-> line.timestamp,
   prompt_len |-> line.shared_prompt_length,
   active_prompt_len |-> line.shared_prompt_length - line.prompt_length]

RequestOf(line) ==
  [timestamp |-> line.timestamp,
   prompt_len |-> line.prompt_length,
   active_prompt_len |-> line.prompt_length - line.shared_prompt_length]

\* The requests of the lines rank r has read.
ReadBy(r) == [i \in 1..linesRead[r] |-> RequestOf(trace[i])]

Push(r) ==
  /\ ~ notifying[r]
  /\ linesRead[r] < Len(trace)
  /\ ~ queueMutex[r]
  /\ linesRead' = [linesRead EXCEPT ![r] = @ + 1]
  /\ request_queue' =
       [request_queue EXCEPT ![r] = Append(@, RequestOf(trace[linesRead[r] + 1]))]
  /\ notifying' = [notifying EXCEPT ![r] = TRUE]
  /\ UNCHANGED <<trace, ctxVars, wire, decVars>>

FaultNotify(r) ==                \* fault: the waiter is not woken
  /\ notifying[r]
  /\ notifying' = [notifying EXCEPT ![r] = FALSE]
  /\ UNCHANGED <<trace, linesRead, request_queue, ctxVars, wire, decVars>>

\* queue_cv.notify_one(): wakes the context thread if it waits.
Notify(r) ==
  /\ notifying[r]
  /\ notifying' = [notifying EXCEPT ![r] = FALSE]
  /\ ctx' = [ctx EXCEPT ![r] = IF @ = "waiting" THEN "lock" ELSE @]
  /\ UNCHANGED <<trace, linesRead, request_queue, queueMutex, collected, batch,
                 wire, decVars>>

(* The context thread.                                                     *)

\* Takes the mutex and evaluates the condition, at first and after a wakeup.
LockQueue(r) ==
  /\ ctx[r] = "lock"
  /\ ~ queueMutex[r]
  /\ IF request_queue[r] = <<>>
     THEN /\ ctx' = [ctx EXCEPT ![r] = "waiting"]
          /\ UNCHANGED <<queueMutex, collected>>
     ELSE /\ ctx' = [ctx EXCEPT ![r] = "collect"]
          /\ queueMutex' = [queueMutex EXCEPT ![r] = TRUE]
          /\ collected' = [collected EXCEPT ![r] = <<>>]
  /\ UNCHANGED <<trace, readerVars, request_queue, batch, wire, decVars>>

\* A condition variable may wake its waiter unasked.
SpuriousWakeup(r) ==
  /\ ctx[r] = "waiting"
  /\ ctx' = [ctx EXCEPT ![r] = "lock"]
  /\ UNCHANGED <<trace, readerVars, request_queue, queueMutex, collected, batch,
                 wire, decVars>>

\* One round of the batching loop.  A front request longer than input_len is
\* neither taken nor skipped: the loop spins on it, with the mutex held, and
\* no step of this thread is enabled any more.
Collect(r) ==
  /\ ctx[r] = "collect"
  /\ request_queue[r] # <<>>
  /\ Len(collected[r]) < BatchSize
  /\ Head(request_queue[r]).active_prompt_len <= InputLen
  /\ request_queue' = [request_queue EXCEPT ![r] = Tail(@)]
  /\ collected' = [collected EXCEPT ![r] = Append(@, Head(request_queue[r]))]
  /\ UNCHANGED <<trace, readerVars, queueMutex, ctx, batch, wire, decVars>>

FaultPreProcess(r) ==            \* fault: the batch before is not cleared
  /\ ctx[r] = "collect"
  /\ request_queue[r] = <<>> \/ Len(collected[r]) >= BatchSize
  /\ queueMutex' = [queueMutex EXCEPT ![r] = FALSE]
  /\ batch' = [batch EXCEPT ![r] = @ \o collected[r]]
  /\ collected' = [collected EXCEPT ![r] = <<>>]
  /\ ctx' = [ctx EXCEPT ![r] = "forward"]
  /\ UNCHANGED <<trace, readerVars, request_queue, wire, decVars>>

FaultKeepsLock(r) ==             \* fault: no unlock before the forward pass
  /\ ctx[r] = "collect"
  /\ request_queue[r] = <<>> \/ Len(collected[r]) >= BatchSize
  /\ batch' = [batch EXCEPT ![r] = collected[r]]
  /\ collected' = [collected EXCEPT ![r] = <<>>]
  /\ ctx' = [ctx EXCEPT ![r] = "forward"]
  /\ UNCHANGED <<trace, readerVars, request_queue, queueMutex, wire, decVars>>

\* The loop ends, the mutex is released and PreProcess replaces the batch of
\* the round before.
PreProcess(r) ==
  /\ ctx[r] = "collect"
  /\ request_queue[r] = <<>> \/ Len(collected[r]) >= BatchSize
  /\ queueMutex' = [queueMutex EXCEPT ![r] = FALSE]
  /\ batch' = [batch EXCEPT ![r] = collected[r]]
  /\ collected' = [collected EXCEPT ![r] = <<>>]
  /\ ctx' = [ctx EXCEPT ![r] = "forward"]
  /\ UNCHANGED <<trace, readerVars, request_queue, wire, decVars>>

\* The forward pass is collective over the ranks, which add up activations of
\* as many tokens as each of them has.  A rank that runs out of blocks exits.
Forward ==
  /\ \A r \in Ranks : ctx[r] = "forward"
  /\ \A r, s \in Ranks : SizesOf(batch[r]).tokens = SizesOf(batch[s]).tokens
  /\ ctx' = [r \in Ranks |-> IF AllocatedBlocks(batch[r]) > max_block_size
                             THEN "exit" ELSE "send_sizes"]
  /\ UNCHANGED <<trace, readerVars, request_queue, queueMutex, collected, batch,
                 wire, decVars>>

\* PostProcess: the group of sizes, and a wait for the stream.
SendSizes(r) ==
  /\ ctx[r] = "send_sizes"
  /\ Len(wire[r]) < WireSlots
  /\ wire' = [wire EXCEPT ![r] =
       Append(@, [kind |-> "sizes", info |-> SizesOf(batch[r]), reqs |-> <<>>])]
  /\ ctx' = [ctx EXCEPT ![r] = "send_data"]
  /\ UNCHANGED <<trace, readerVars, request_queue, queueMutex, collected, batch,
                 decVars>>

\* PostProcess: the group of data, a wait for the stream, and back to the top.
SendData(r) ==
  /\ ctx[r] = "send_data"
  /\ Len(wire[r]) < WireSlots
  /\ wire' = [wire EXCEPT ![r] =
       Append(@, [kind |-> "data", info |-> SizesOf(batch[r]), reqs |-> batch[r]])]
  /\ ctx' = [ctx EXCEPT ![r] = "lock"]
  /\ UNCHANGED <<trace, readerVars, request_queue, queueMutex, collected, batch,
                 decVars>>

(* The decode thread.  It receives whatever group comes next.              *)

RecvSizes(r) ==
  /\ dec[r] = "recv_sizes"
  /\ wire[r] # <<>>
  /\ sizes' = [sizes EXCEPT ![r] = Head(wire[r]).info]
  /\ wire' = [wire EXCEPT ![r] = Tail(@)]
  /\ dec' = [dec EXCEPT ![r] = "recv_data"]
  /\ UNCHANGED <<trace, readerVars, request_queue, ctxVars, decoded>>

RecvData(r) ==
  /\ dec[r] = "recv_data"
  /\ wire[r] # <<>>
  /\ decoded' = [decoded EXCEPT ![r] = @ \o Head(wire[r]).reqs]
  /\ wire' = [wire EXCEPT ![r] = Tail(@)]
  /\ dec' = [dec EXCEPT ![r] = "forward"]
  /\ UNCHANGED <<trace, readerVars, request_queue, ctxVars, sizes>>

FaultDecodeForward(r) ==         \* fault: the sizes are received once for all
  /\ dec[r] = "forward"
  /\ dec' = [dec EXCEPT ![r] = "recv_data"]
  /\ UNCHANGED <<trace, readerVars, request_queue, ctxVars, wire, sizes, decoded>>

DecodeForward(r) ==
  /\ dec[r] = "forward"
  /\ dec' = [dec EXCEPT ![r] = "recv_sizes"]
  /\ UNCHANGED <<trace, readerVars, request_queue, ctxVars, wire, sizes, decoded>>

Reader(r) == Push(r) \/ Notify(r)

Context(r) ==
  \/ LockQueue(r)
  \/ Collect(r)
  \/ PreProcess(r)
  \/ SendSizes(r)
  \/ SendData(r)

Decode(r) == RecvSizes(r) \/ RecvData(r) \/ DecodeForward(r)

Next ==
  \/ Forward
  \/ \E r \in Ranks : \/ Reader(r)
                      \/ Context(r)
                      \/ SpuriousWakeup(r)
                      \/ Decode(r)

Spec == Init /\ [][Next]_vars

\* The operating system runs every thread and NCCL delivers; a wakeup nobody
\* asked for is not relied upon.
FairSpec ==
  /\ Spec
  /\ WF_vars(Forward)
  /\ \A r \in Ranks :
        WF_vars(Reader(r)) /\ WF_vars(Context(r)) /\ WF_vars(Decode(r))

-----------------------------------------------------------------------------
\* Every variable has its type: lengths are natural numbers, above all.
TypeOK ==
  /\ trace \in Traces
  /\ linesRead \in [Ranks -> 0..Len(trace)]
  /\ notifying \in [Ranks -> BOOLEAN]
  /\ request_queue \in [Ranks -> Seq(Request)]
  /\ queueMutex \in [Ranks -> BOOLEAN]
  /\ ctx \in [Ranks -> {"lock", "waiting", "collect", "forward", "send_sizes",
                        "send_data", "exit"}]
  /\ collected \in [Ranks -> Seq(Request)]
  /\ batch \in [Ranks -> Seq(Request)]
  /\ wire \in [Ranks -> Seq([kind : {"sizes", "data"},
                             info : [batch : Nat, cache : Nat, tokens : Nat],
                             reqs : Seq(Request)])]
  /\ dec \in [Ranks -> {"recv_sizes", "recv_data", "forward"}]
  /\ sizes \in [Ranks -> [batch : Nat, cache : Nat, tokens : Nat]]
  /\ decoded \in [Ranks -> Seq(Request)]

\* The requests of rank r beyond the queue: those decoded, those sent, those of
\* a batch not yet sent and those taken from the queue for the next batch.
Taken(r) ==
  LET sent == FlattenSeq([i \in 1..Len(wire[r]) |-> wire[r][i].reqs])
      unsent == IF ctx[r] \in {"forward", "send_sizes", "send_data"}
                THEN batch[r] ELSE <<>>
  IN  decoded[r] \o sent \o unsent \o collected[r]

\* Every request read from the trace is in exactly one place between the queue
\* and the decode process, and the requests keep their order: the context
\* thread's batches, the model's copy of a batch that outlives its round, and
\* the two groups of a handoff lose, repeat and reorder nothing.
NothingLost ==
  \A r \in Ranks : Taken(r) \o request_queue[r] = ReadBy(r)

\* The context thread never sleeps over a queued request: notify_one comes
\* after the mutex is released, so between the push and the notification the
\* thread may look at the queue, go to sleep or be awake already.
NoLostWakeup ==
  \A r \in Ranks :
    ctx[r] = "waiting" /\ request_queue[r] # <<>> => notifying[r]

\* The decode process posts its receives by the sizes of the very batch that
\* comes next: the sizes it holds are those of the data group at the head of
\* the wire, however far the context process has run ahead.
HandoffAgrees ==
  \A r \in Ranks : wire[r] # <<>> =>
    LET g == Head(wire[r]) IN
      CASE dec[r] = "recv_data"  -> g.kind = "data" /\ g.info = sizes[r]
        [] dec[r] = "recv_sizes" -> g.kind = "sizes"
        [] OTHER                 -> TRUE

\* The context process never runs out of blocks, and if a prompt of the greatest
\* length fills its last block the numbers it hands out, which start at 1, stay
\* below the size of the cache.  As long as prompts leave room for the five
\* reserved tokens, the volume sent fits the cache it is read from, which was
\* allocated with one reserved token, and the cache it is received into.
KvFits ==
  \A r \in Ranks :
    /\ ctx[r] # "exit"
    /\ ctx[r] \in {"send_sizes", "send_data"} =>
         /\ InputLen % BlockSize = 0 =>
              AllocatedBlocks(batch[r]) < context_block_size
         /\ (\A i \in 1..Len(batch[r]) : batch[r][i].prompt_len + 4 <= InputLen)
              => /\ TotalBlock(batch[r]) <= context_block_size
                 /\ TotalBlock(batch[r]) <= max_block_size

\* If no line of the trace is longer than input_len, every request is decoded:
\* no wakeup is lost, the mutex is always released, and neither process waits
\* for a group the other will not send.
Served ==
  (\A i \in 1..Len(trace) : RequestOf(trace[i]).active_prompt_len <= InputLen)
    ~> (\A r \in Ranks : Len(decoded[r]) = Len(trace))

\* The ranks of one tensor-parallel model run the same batch through it.
RanksAgree ==
  (\A r \in Ranks : ctx[r] = "forward") =>
    \A r, s \in Ranks : batch[r] = batch[s]
=============================================================================
