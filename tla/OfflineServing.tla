--------------------------- MODULE OfflineServing ---------------------------
(***************************************************************************)
(* The offline serving experiment (main.cc, model.hh): one batch goes      *)
(* through a context process, whose KV cache and block table are handed to *)
(* a decode process, which generates tokens until every request has ended  *)
(* or the number of steps is reached.                                      *)
(*                                                                         *)
(* Rows of the block table, requests and slots of the decode loop are      *)
(* numbered from 1 here, blocks as in the code, from 1.  Token values are  *)
(* left out but for the end token.  The precision is fp16: with fp32 main  *)
(* runs the decode process without PreProcessInit, on a model that was     *)
(* never made, and there is nothing after that to say.                     *)
(***************************************************************************)
EXTENDS Naturals, Sequences

CONSTANTS
  BatchSizes, InputLens, BlockSizes, DecodingSteps  \* values of the options

ASSUME OfflineAssumption ==
  /\ BatchSizes \subseteq Nat \ {0}
  /\ InputLens \subseteq Nat \ {0}
  /\ BlockSizes \subseteq Nat \ {0}
  /\ DecodingSteps \subseteq Nat

VARIABLES
  params,               \* the options, the same in both processes
  ctx,                  \* where the context process is
  dec,                  \* where the decode process is
  h_block_table,        \* context: the block table
  d_block_table,        \* decode: the block table
  allocated_block_cnt,  \* both: blocks of each request
  num_allocated_blocks, \* decode: blocks handed out
  request_id,           \* decode: the request in each slot
  notdone,              \* decode: cur_notdone_input_cnt, the slots in use
  outputs,              \* decode: tokens generated for each request
  first_token_indexes,  \* decode: position of the next input of each slot
  step,                 \* decode: rounds of the decoding loop
  slot,                 \* decode: slot whose blocks are being allocated
  given                 \* history: the blocks each request was given, in order

decVars == <<d_block_table, num_allocated_blocks, request_id, notdone, outputs,
             first_token_indexes, step, slot>>
vars == <<params, ctx, dec, h_block_table, d_block_table, allocated_block_cnt,
          num_allocated_blocks, request_id, notdone, outputs,
          first_token_indexes, step, slot, given>>

\* What a table holds where no block was assigned, and what a slot not in use
\* holds.
NoBlock == 0

-----------------------------------------------------------------------------
(* Sizes derived from the options by LoadTestParams.                       *)

Requests == 1..params.batch_size

\* ROUND_UP(x, block_size) / block_size
Blocks(x) == (x + params.block_size - 1) \div params.block_size

FaultContextBlocks ==            \* fault: no token beyond the input
  Blocks(params.input_len) * params.batch_size

max_num_block_per_req == Blocks(params.input_len + params.num_decoding_step)
context_block_size == Blocks(params.input_len + 1) * params.batch_size
max_block_size ==
  Blocks(params.input_len + params.num_decoding_step) * params.batch_size

Row == [1..max_num_block_per_req -> Nat]

Init ==
  /\ params \in [batch_size : BatchSizes, input_len : InputLens,
                 block_size : BlockSizes, num_decoding_step : DecodingSteps]
  /\ ctx = "forward"
  /\ dec = "receive"
  /\ h_block_table = [r \in Requests |-> [j \in 1..max_num_block_per_req |-> NoBlock]]
  /\ d_block_table = [r \in Requests |-> [j \in 1..max_num_block_per_req |-> NoBlock]]
  /\ allocated_block_cnt = [r \in Requests |-> 0]
  /\ num_allocated_blocks = 0
  /\ request_id = [r \in Requests |-> r]
  /\ notdone = 0
  /\ outputs = [r \in Requests |-> 0]
  /\ first_token_indexes = <<>>
  /\ step = 0
  /\ slot = 1
  /\ given = [r \in Requests |-> <<>>]

-----------------------------------------------------------------------------
(* The context process.                                                    *)

\* main cuts or pads every prompt to input_len tokens.
PromptLen == params.input_len

\* Forward: every request is given the blocks of its prompt, counted through
\* the batch from 1; the rest of its row is marked invalid.
ContextForward ==
  LET needed == Blocks(PromptLen)
      block(r, j) == (r - 1) * needed + j
  IN  /\ ctx = "forward"
      /\ IF needed * params.batch_size > max_block_size
         THEN /\ ctx' = "exit"
              /\ UNCHANGED <<h_block_table, allocated_block_cnt, given>>
         ELSE /\ ctx' = "send"
              /\ h_block_table' =
                   [r \in Requests |-> [j \in 1..max_num_block_per_req |->
                      IF j <= needed THEN block(r, j) ELSE NoBlock]]
              /\ allocated_block_cnt' = [r \in Requests |-> needed]
              /\ given' = [r \in Requests |-> [j \in 1..needed |-> block(r, j)]]
      /\ UNCHANGED <<params, dec, decVars>>

\* What the context process sends in its group, and what the decode process
\* posts receives for: tokens, cache blocks, table entries, counts.
SendCounts ==
  <<params.batch_size, context_block_size,
    params.batch_size * max_num_block_per_req, params.batch_size>>

FaultRecvCounts ==               \* fault: the decode process counts its own cache
  <<params.batch_size, max_block_size,
    params.batch_size * max_num_block_per_req, params.batch_size>>

RecvCounts ==
  <<params.batch_size, context_block_size,
    params.batch_size * max_num_block_per_req, params.batch_size>>

\* PostProcess of one side and PreProcess of the other: NCCL moves the group
\* once both have posted it, and only if they agree on the counts.
Handoff ==
  /\ ctx = "send"
  /\ dec = "receive"
  /\ SendCounts = RecvCounts
  /\ ctx' = "barrier"
  /\ dec' = "decode"
  /\ d_block_table' = h_block_table
  /\ num_allocated_blocks' = 0
  /\ outputs' = [r \in Requests |-> 1]
  /\ first_token_indexes' = [i \in Requests |-> PromptLen]
  /\ request_id' = [i \in Requests |-> i]
  /\ notdone' = params.batch_size
  /\ step' = 0
  /\ slot' = 1
  /\ UNCHANGED <<params, h_block_table, allocated_block_cnt, given>>

-----------------------------------------------------------------------------
(* The decode process.                                                     *)

\* The loop's condition at the top of a round.
Rounds == step < params.num_decoding_step /\ notdone > 0

FaultNeededLess(r) ==            \* fault: the newest token is not counted
  Blocks(PromptLen + outputs[r] - 1)

FaultNeededMore(r) ==            \* fault: one token too many
  Blocks(PromptLen + outputs[r] + 1)

\* Blocks a request needs for its prompt and the tokens generated so far.
Needed(r) == Blocks(PromptLen + outputs[r])

FaultPutBlock(table, i, r, new) ==  \* fault: the row of the request's number
  [table EXCEPT ![r][allocated_block_cnt[r] + 1] = new]

\* The row of a new block is the slot's, the column comes from the number of
\* blocks the slot's request has.
PutBlock(table, i, r, new) ==
  [table EXCEPT ![i][allocated_block_cnt[r] + 1] = new]

\* allocateNewBlock for the current slot.
AllocateBlock ==
  LET r == request_id[slot]
      new == num_allocated_blocks + 1
  IN  /\ dec = "decode"
      /\ Rounds
      /\ slot <= notdone
      /\ allocated_block_cnt[r] < Needed(r)
      /\ num_allocated_blocks' = new
      /\ IF new >= max_block_size
         THEN /\ dec' = "exit"
              /\ UNCHANGED <<d_block_table, allocated_block_cnt, given>>
         ELSE /\ d_block_table' = PutBlock(d_block_table, slot, r, new)
              /\ allocated_block_cnt' = [allocated_block_cnt EXCEPT ![r] = @ + 1]
              /\ given' = [given EXCEPT ![r] = Append(@, new)]
              /\ UNCHANGED dec
      /\ UNCHANGED <<params, ctx, h_block_table, request_id, notdone, outputs,
                     first_token_indexes, step, slot>>

\* The current slot has its blocks: on to the next.
NextSlot ==
  /\ dec = "decode"
  /\ Rounds
  /\ slot <= notdone
  /\ allocated_block_cnt[request_id[slot]] >= Needed(request_id[slot])
  /\ slot' = slot + 1
  /\ UNCHANGED <<params, ctx, dec, h_block_table, d_block_table,
                 allocated_block_cnt, num_allocated_blocks, request_id, notdone,
                 outputs, first_token_indexes, step, given>>

\* The slots among 1..n that are not in ended, in order.
Survivors(n, ended) ==
  LET kept[i \in 0..n] == IF i = 0 THEN <<>>
                          ELSE IF i \in ended THEN kept[i - 1]
                          ELSE Append(kept[i - 1], i)
  IN  kept[n]

\* Rows and request ids of the surviving slots move up, each over one that has
\* been moved before; what lies behind them stays.
MoveUp(f, survivors) ==
  [i \in DOMAIN f |-> IF i <= Len(survivors) THEN f[survivors[i]] ELSE f[i]]

\* The forward pass of a round, and the loop that files its results: the
\* requests of the slots in ended got the end token.
DecodeForward(ended) ==
  LET survivors == Survivors(notdone, ended)
      generated == {request_id[i] : i \in 1..notdone}
  IN  /\ dec = "decode"
      /\ Rounds
      /\ slot > notdone
      /\ outputs' = [r \in Requests |->
                       IF r \in generated THEN outputs[r] + 1 ELSE outputs[r]]
      /\ request_id' = MoveUp(request_id, survivors)
      /\ d_block_table' = MoveUp(d_block_table, survivors)
      /\ first_token_indexes' =
           [i \in 1..Len(survivors) |->
              PromptLen + outputs[request_id[survivors[i]]] + 1 - 1]
      /\ notdone' = Len(survivors)
      /\ step' = step + 1
      /\ slot' = 1
      /\ UNCHANGED <<params, ctx, dec, h_block_table, allocated_block_cnt,
                     num_allocated_blocks, given>>

DecodeDone ==
  /\ dec = "decode"
  /\ ~ Rounds
  /\ dec' = "barrier"
  /\ UNCHANGED <<params, ctx, h_block_table, allocated_block_cnt, decVars, given>>

\* main: both processes pass the barrier and end.
Barrier ==
  /\ ctx = "barrier"
  /\ dec = "barrier"
  /\ ctx' = "done"
  /\ dec' = "done"
  /\ UNCHANGED <<params, h_block_table, allocated_block_cnt, decVars, given>>

Next ==
  \/ ContextForward
  \/ Handoff
  \/ AllocateBlock
  \/ NextSlot
  \/ \E ended \in SUBSET (1..notdone) : DecodeForward(ended)
  \/ DecodeDone
  \/ Barrier

Spec == Init /\ [][Next]_vars

\* Both processes run on.
FairSpec == Spec /\ WF_vars(Next)

-----------------------------------------------------------------------------
\* Every variable has its type; a request's blocks fit its row of the table.
TypeOK ==
  /\ ctx \in {"forward", "send", "barrier", "done", "exit"}
  /\ dec \in {"receive", "decode", "barrier", "done", "exit"}
  /\ h_block_table \in [Requests -> Row]
  /\ d_block_table \in [Requests -> Row]
  /\ allocated_block_cnt \in [Requests -> 0..max_num_block_per_req]
  /\ num_allocated_blocks \in Nat
  /\ request_id \in [Requests -> Requests]
  /\ notdone \in 0..params.batch_size
  /\ outputs \in [Requests -> Nat]
  /\ first_token_indexes \in Seq(Nat)
  /\ step \in 0..params.num_decoding_step
  /\ slot \in 1..notdone + 1
  /\ given \in [Requests -> Seq(Nat)]

\* A slot's row of the block table holds the blocks its request was given, in
\* order, and no request is in two slots: rows are found by slot and counts by
\* request, and the two are kept together when slots move up.
RowsFollowRequests ==
  \A i \in 1..notdone :
    LET r == request_id[i] IN
      /\ SubSeq(d_block_table[i], 1, allocated_block_cnt[r]) = given[r]
      /\ \A j \in 1..notdone : request_id[j] = r => j = i

\* When a forward pass starts, the position its input token is written to is
\* within the blocks the request has, and these are within the row.
TokenHasBlock ==
  dec = "decode" /\ Rounds /\ slot > notdone =>
    \A i \in 1..notdone :
      LET r == request_id[i] IN
        /\ first_token_indexes[i] \div params.block_size < allocated_block_cnt[r]
        /\ allocated_block_cnt[r] <= max_num_block_per_req

\* If prompts fill their last block, no block number reaches the size of the
\* cache it indexes, in either process.
CacheHolds ==
  params.input_len % params.block_size = 0 =>
    /\ \A r \in Requests, j \in 1..max_num_block_per_req :
          h_block_table[r][j] < context_block_size
    /\ dec = "decode" /\ Rounds => \A r \in Requests, j \in 1..max_num_block_per_req :
          d_block_table[r][j] < max_block_size

\* Neither process gives up for want of blocks although block numbers start at
\* 1 and the decode process stops one short: both reach the end.
Finishes == <>(ctx = "done" /\ dec = "done")
=============================================================================
