------------------------ MODULE OnlineServingProofs -------------------------
(***************************************************************************)
(* Theorems about OnlineServing, for any number of ranks, any traces and   *)
(* any sizes, whatever the number of groups NCCL buffers.                  *)
(***************************************************************************)
EXTENDS OnlineServing, WellFoundedInduction, SequenceTheorems, TLAPS

-----------------------------------------------------------------------------
(***************************************************************************)
(* Sequences of whatever kind.                                             *)
(***************************************************************************)
IsSequence(s) == \E S : s \in Seq(S)

\* An appended sequence is one longer and ends with what was appended.
LEMMA AppendFacts ==
  ASSUME NEW s, IsSequence(s), NEW e
  PROVE  /\ IsSequence(Append(s, e)) /\ Len(s) \in Nat
         /\ Len(Append(s, e)) = Len(s) + 1 /\ Append(s, e) # <<>>
         /\ \A i \in 1..Len(s) : Append(s, e)[i] = s[i]
         /\ Append(s, e)[Len(s) + 1] = e
<1>1. PICK S : s \in Seq(S)
  BY DEF IsSequence
<1> DEFINE T == S \cup {e}
<1>2. s \in Seq(T) /\ e \in T
  BY <1>1
<1> HIDE DEF T
<1>3. Append(s, e) \in Seq(T)
  BY <1>2
<1> QED
  BY <1>2, <1>3 DEF IsSequence

\* A tail is one shorter, and starts with the second element.
LEMMA TailFacts ==
  ASSUME NEW s, IsSequence(s), s # <<>>
  PROVE  /\ IsSequence(Tail(s)) /\ Len(s) \in Nat \ {0}
         /\ Len(Tail(s)) = Len(s) - 1 /\ (Tail(s) = <<>> <=> Len(s) = 1)
         /\ \A i \in 1..Len(Tail(s)) : Tail(s)[i] = s[i + 1]
         /\ Head(s) = s[1]
<1>1. PICK S : s \in Seq(S)
  BY DEF IsSequence
<1>2. Len(s) \in Nat \ {0} /\ Head(s) = s[1]
  BY <1>1
<1>3. /\ Tail(s) \in Seq(S) /\ Len(Tail(s)) = Len(s) - 1
      /\ \A i \in 1..Len(s) - 1 : Tail(s)[i] = s[i + 1]
  BY <1>1, <1>2
<1>4. Tail(s) = <<>> <=> Len(s) = 1
  BY <1>1, <1>2, <1>3
<1> QED
  BY <1>2, <1>3, <1>4 DEF IsSequence

\* The empty sequence is the one of length 0.
LEMMA EmptyFacts ==
  ASSUME NEW s, IsSequence(s)
  PROVE  Len(s) \in Nat /\ (s = <<>> <=> Len(s) = 0)
BY DEF IsSequence

-----------------------------------------------------------------------------
(***************************************************************************)
(* The groups of a handoff.  Sizes and data alternate on the wire, data    *)
(* with the sizes before it; which comes first and last, and with what     *)
(* sizes, goes by where the decode and the context thread are.  w is the   *)
(* wire, d and c the places of the two threads, z the sizes received, and  *)
(* info the sizes of the context process's batch.                          *)
(***************************************************************************)
HandoffOK(w, d, c, z, info) ==
  /\ \A i \in 1..Len(w) : w[i].kind \in {"sizes", "data"}
  /\ \A i \in 1..Len(w) - 1 :
       /\ w[i].kind = "sizes" <=> w[i + 1].kind = "data"
       /\ w[i].kind = "sizes" => w[i + 1].info = w[i].info
  /\ w # <<>> => /\ w[1].kind = "data" <=> d = "recv_data"
                 /\ w[1].kind = "data" => w[1].info = z
                 /\ w[Len(w)].kind = "sizes" <=> c = "send_data"
                 /\ w[Len(w)].kind = "sizes" => w[Len(w)].info = info
  /\ w = <<>> => /\ d = "recv_data" <=> c = "send_data"
                 /\ d = "recv_data" => z = info

\* Sizes go out: what was on the wire ended with data.
LEMMA SizesGo ==
  ASSUME NEW w, NEW d, NEW c, NEW z, NEW info, HandoffOK(w, d, c, z, info),
         IsSequence(w), c # "send_data", NEW g, g.kind = "sizes", g.info = info
  PROVE  HandoffOK(Append(w, g), d, "send_data", z, info)
<1>1. CASE w = <<>>
  BY <1>1, AppendFacts, EmptyFacts DEF HandoffOK
<1>2. CASE w # <<>>
  BY <1>2, AppendFacts, EmptyFacts DEF HandoffOK
<1> QED
  BY <1>1, <1>2

\* Data goes out behind its sizes.
LEMMA DataGoes ==
  ASSUME NEW w, NEW d, NEW z, NEW info, HandoffOK(w, d, "send_data", z, info),
         IsSequence(w), NEW g, g.kind = "data", g.info = info
  PROVE  HandoffOK(Append(w, g), d, "lock", z, info)
<1>1. CASE w = <<>>
  BY <1>1, AppendFacts, EmptyFacts DEF HandoffOK
<1>2. CASE w # <<>>
  BY <1>2, AppendFacts, EmptyFacts DEF HandoffOK
<1> QED
  BY <1>1, <1>2

\* Sizes come in, and the data behind them is next.
LEMMA SizesCome ==
  ASSUME NEW w, NEW d, NEW c, NEW z, NEW info, HandoffOK(w, d, c, z, info),
         IsSequence(w), d # "recv_data", w # <<>>
  PROVE  HandoffOK(Tail(w), "recv_data", c, Head(w).info, info)
<1>1. CASE Len(w) = 1
  <2>1. Tail(w) = <<>> /\ Len(Tail(w)) = 0 /\ Head(w) = w[1] /\ w[Len(w)] = w[1]
    BY <1>1, TailFacts
  <2>2. w[1].kind \in {"sizes", "data"}
    BY <1>1 DEF HandoffOK
  <2> QED
    BY <2>1, <2>2 DEF HandoffOK
<1>2. CASE Len(w) # 1
  BY <1>2, TailFacts DEF HandoffOK
<1> QED
  BY <1>1, <1>2

\* Data comes in, by the sizes received before it.
LEMMA DataComes ==
  ASSUME NEW w, NEW c, NEW z, NEW info, HandoffOK(w, "recv_data", c, z, info),
         IsSequence(w), w # <<>>
  PROVE  HandoffOK(Tail(w), "forward", c, z, info)
<1>1. CASE Len(w) = 1
  <2>1. Tail(w) = <<>> /\ Len(Tail(w)) = 0 /\ Head(w) = w[1] /\ w[Len(w)] = w[1]
    BY <1>1, TailFacts
  <2>2. w[1].kind \in {"sizes", "data"}
    BY <1>1 DEF HandoffOK
  <2> QED
    BY <2>1, <2>2 DEF HandoffOK
<1>2. CASE Len(w) # 1
  BY <1>2, TailFacts DEF HandoffOK
<1> QED
  BY <1>1, <1>2

-----------------------------------------------------------------------------
(* The inductive invariant.                                                *)

HandoffShape ==
  /\ ctx = [r \in Ranks |-> ctx[r]] /\ dec = [r \in Ranks |-> dec[r]]
  /\ sizes = [r \in Ranks |-> sizes[r]] /\ batch = [r \in Ranks |-> batch[r]]
  /\ wire = [r \in Ranks |-> wire[r]] /\ \A r \in Ranks : IsSequence(wire[r])

HandoffInv ==
  \A r \in Ranks : HandoffOK(wire[r], dec[r], ctx[r], sizes[r], SizesOf(batch[r]))

\* While a thread is not in the middle of a handoff it does not matter where
\* it is, nor, for the context thread, what its batch is.
LEMMA ContextElsewhere ==
  ASSUME NEW w, NEW d, NEW c, NEW z, NEW info, HandoffOK(w, d, c, z, info), IsSequence(w),
         NEW x, NEW other, c # "send_data", x # "send_data"
  PROVE  HandoffOK(w, d, x, z, other)
BY EmptyFacts DEF HandoffOK

\* Nor does it matter where the decode thread is.
LEMMA DecodeElsewhere ==
  ASSUME NEW w, NEW d, NEW c, NEW z, NEW info, HandoffOK(w, d, c, z, info),
         NEW e, d # "recv_data", e # "recv_data"
  PROVE  HandoffOK(w, e, c, z, info)
BY DEF HandoffOK

\* A step of a rank in which another rank takes no part.
Others(r) ==
  \A q \in Ranks \ {r} :
    /\ wire'[q] = wire[q] /\ dec'[q] = dec[q] /\ ctx'[q] = ctx[q]
    /\ sizes'[q] = sizes[q] /\ batch'[q] = batch[q]

\* Such a step keeps the invariant if it keeps the rank's part of it.
LEMMA RankStep ==
  ASSUME HandoffInv, NEW r \in Ranks, Others(r),
         HandoffOK(wire'[r], dec'[r], ctx'[r], sizes'[r], SizesOf(batch'[r]))
  PROVE  HandoffInv'
<1> SUFFICES ASSUME NEW q \in Ranks
             PROVE  HandoffOK(wire'[q], dec'[q], ctx'[q], sizes'[q], SizesOf(batch'[q]))
  BY DEF HandoffInv
<1>1. CASE q = r
  BY <1>1
<1>2. CASE q # r
  <2>1. HandoffOK(wire[q], dec[q], ctx[q], sizes[q], SizesOf(batch[q]))
    BY DEF HandoffInv
  <2>2. /\ wire'[q] = wire[q] /\ dec'[q] = dec[q] /\ ctx'[q] = ctx[q]
        /\ sizes'[q] = sizes[q] /\ batch'[q] = batch[q]
    BY <1>2 DEF Others
  <2> QED
    BY <2>1, <2>2
<1> QED
  BY <1>1, <1>2

\* Steps of the reader and the context thread outside a handoff.
LEMMA QuietSteps ==
  ASSUME HandoffShape, HandoffInv, NEW r \in Ranks,
         Push(r) \/ Notify(r) \/ LockQueue(r) \/ SpuriousWakeup(r) \/ Collect(r)
           \/ PreProcess(r) \/ DecodeForward(r)
  PROVE  HandoffShape' /\ HandoffInv'
<1>1. HandoffOK(wire[r], dec[r], ctx[r], sizes[r], SizesOf(batch[r])) /\ IsSequence(wire[r])
  BY DEF HandoffInv, HandoffShape
<1>2. UNCHANGED <<wire, sizes>>
  BY DEF Push, Notify, LockQueue, SpuriousWakeup, Collect, PreProcess, DecodeForward,
         ctxVars, decVars
<1>3. HandoffShape' /\ Others(r)
  BY <1>2 DEF Push, Notify, LockQueue, SpuriousWakeup, Collect, PreProcess, DecodeForward,
              ctxVars, decVars, HandoffShape, Others
<1>4. \/ UNCHANGED <<ctx, dec, batch>>
      \/ /\ ctx[r] # "send_data" /\ ctx'[r] # "send_data" /\ dec' = dec
      \/ /\ UNCHANGED <<ctx, batch>> /\ dec[r] = "forward" /\ dec'[r] = "recv_sizes"
  BY DEF Push, Notify, LockQueue, SpuriousWakeup, Collect, PreProcess, DecodeForward,
         ctxVars, decVars, HandoffShape
<1>5. HandoffOK(wire'[r], dec'[r], ctx'[r], sizes'[r], SizesOf(batch'[r]))
  <2>1. CASE UNCHANGED <<ctx, dec, batch>>
    BY <1>1, <1>2, <2>1
  <2>2. CASE ctx[r] # "send_data" /\ ctx'[r] # "send_data" /\ dec' = dec
    BY <1>1, <1>2, <2>2, ContextElsewhere
  <2>3. CASE UNCHANGED <<ctx, batch>> /\ dec[r] = "forward" /\ dec'[r] = "recv_sizes"
    BY <1>1, <1>2, <2>3, DecodeElsewhere
  <2> QED
    BY <1>4, <2>1, <2>2, <2>3
<1> QED
  BY <1>3, <1>5, RankStep

\* The forward pass takes all ranks out of "forward", none into a handoff.
LEMMA ForwardStep ==
  ASSUME HandoffShape, HandoffInv, Forward
  PROVE  HandoffShape' /\ HandoffInv'
<1>1. UNCHANGED <<wire, dec, sizes, batch>>
  BY DEF Forward, ctxVars, decVars
<1>2. \A r \in Ranks : ctx[r] = "forward" /\ ctx'[r] \in {"exit", "send_sizes"}
  BY DEF Forward
<1>3. ctx' = [r \in Ranks |-> ctx'[r]]
  BY DEF Forward
<1>4. HandoffShape'
  BY <1>1, <1>3 DEF HandoffShape
<1>5. HandoffInv'
  <2> SUFFICES ASSUME NEW r \in Ranks
               PROVE  HandoffOK(wire'[r], dec'[r], ctx'[r], sizes'[r], SizesOf(batch'[r]))
    BY DEF HandoffInv
  <2>1. HandoffOK(wire[r], dec[r], ctx[r], sizes[r], SizesOf(batch[r]))
        /\ IsSequence(wire[r])
    BY DEF HandoffInv, HandoffShape
  <2>2. HandoffOK(wire[r], dec[r], ctx'[r], sizes[r], SizesOf(batch[r]))
    BY <1>2, <2>1, ContextElsewhere
  <2> QED
    BY <1>1, <2>2
<1> QED
  BY <1>4, <1>5

\* The four steps of a handoff.
LEMMA HandoffSteps ==
  ASSUME HandoffShape, HandoffInv, NEW r \in Ranks,
         SendSizes(r) \/ SendData(r) \/ RecvSizes(r) \/ RecvData(r)
  PROVE  HandoffShape' /\ HandoffInv'
<1> DEFINE w == wire[r]
           info == SizesOf(batch[r])
<1>1. HandoffOK(w, dec[r], ctx[r], sizes[r], info) /\ IsSequence(w)
  BY DEF HandoffInv, HandoffShape
<1>2. UNCHANGED batch
  BY DEF SendSizes, SendData, RecvSizes, RecvData, ctxVars, decVars
<1> HIDE DEF info, w
<1>3. CASE SendSizes(r)
  <2> DEFINE g == [kind |-> "sizes", info |-> info, reqs |-> <<>>]
  <2>1. wire' = [wire EXCEPT ![r] = Append(w, g)] /\ g.kind = "sizes" /\ g.info = info
    BY <1>3 DEF SendSizes, info, w
  <2> HIDE DEF g
  <2>2. ctx[r] = "send_sizes" /\ ctx' = [ctx EXCEPT ![r] = "send_data"]
        /\ UNCHANGED <<dec, sizes>>
    BY <1>3 DEF SendSizes, decVars
  <2>3. HandoffOK(Append(w, g), dec[r], "send_data", sizes[r], info)
    BY <1>1, <2>1, <2>2, SizesGo
  <2>4. wire'[r] = Append(w, g) /\ ctx'[r] = "send_data" /\ Others(r)
    BY <1>2, <2>1, <2>2 DEF HandoffShape, Others
  <2>5. HandoffInv'
    BY <1>2, <2>2, <2>3, <2>4, RankStep DEF info
  <2>6. IsSequence(Append(w, g))
    BY <1>1, AppendFacts
  <2>7. HandoffShape'
    BY <1>2, <2>1, <2>2, <2>6 DEF HandoffShape
  <2> QED
    BY <2>5, <2>7
<1>4. CASE SendData(r)
  <2> DEFINE g == [kind |-> "data", info |-> info, reqs |-> batch[r]]
  <2>1. wire' = [wire EXCEPT ![r] = Append(w, g)] /\ g.kind = "data" /\ g.info = info
    BY <1>4 DEF SendData, info, w
  <2> HIDE DEF g
  <2>2. ctx[r] = "send_data" /\ ctx' = [ctx EXCEPT ![r] = "lock"]
        /\ UNCHANGED <<dec, sizes>>
    BY <1>4 DEF SendData, decVars
  <2>3. HandoffOK(Append(w, g), dec[r], "lock", sizes[r], info)
    BY <1>1, <2>1, <2>2, DataGoes
  <2>4. wire'[r] = Append(w, g) /\ ctx'[r] = "lock" /\ Others(r)
    BY <1>2, <2>1, <2>2 DEF HandoffShape, Others
  <2>5. HandoffInv'
    BY <1>2, <2>2, <2>3, <2>4, RankStep DEF info
  <2>6. IsSequence(Append(w, g))
    BY <1>1, AppendFacts
  <2>7. HandoffShape'
    BY <1>2, <2>1, <2>2, <2>6 DEF HandoffShape
  <2> QED
    BY <2>5, <2>7
<1>5. CASE RecvSizes(r)
  <2>1. /\ dec[r] = "recv_sizes" /\ dec' = [dec EXCEPT ![r] = "recv_data"]
        /\ w # <<>> /\ wire' = [wire EXCEPT ![r] = Tail(w)]
        /\ sizes' = [sizes EXCEPT ![r] = Head(w).info] /\ UNCHANGED ctx
    BY <1>5 DEF RecvSizes, ctxVars, w
  <2>2. HandoffOK(Tail(w), "recv_data", ctx[r], Head(w).info, info)
    BY <1>1, <2>1, SizesCome
  <2>3. /\ wire'[r] = Tail(w) /\ dec'[r] = "recv_data" /\ sizes'[r] = Head(w).info
        /\ Others(r)
    BY <1>2, <2>1 DEF HandoffShape, Others
  <2>4. HandoffInv'
    BY <1>2, <2>1, <2>2, <2>3, RankStep DEF info
  <2>5. IsSequence(Tail(w))
    BY <1>1, <2>1, TailFacts
  <2>6. HandoffShape'
    BY <1>2, <2>1, <2>5 DEF HandoffShape
  <2> QED
    BY <2>4, <2>6
<1>6. CASE RecvData(r)
  <2>1. /\ dec[r] = "recv_data" /\ dec' = [dec EXCEPT ![r] = "forward"]
        /\ w # <<>> /\ wire' = [wire EXCEPT ![r] = Tail(w)] /\ UNCHANGED <<ctx, sizes>>
    BY <1>6 DEF RecvData, ctxVars, w
  <2>2. HandoffOK(Tail(w), "forward", ctx[r], sizes[r], info)
    BY <1>1, <2>1, DataComes
  <2>3. wire'[r] = Tail(w) /\ dec'[r] = "forward" /\ Others(r)
    BY <1>2, <2>1 DEF HandoffShape, Others
  <2>4. HandoffInv'
    BY <1>2, <2>1, <2>2, <2>3, RankStep DEF info
  <2>5. IsSequence(Tail(w))
    BY <1>1, <2>1, TailFacts
  <2>6. HandoffShape'
    BY <1>2, <2>1, <2>5 DEF HandoffShape
  <2> QED
    BY <2>4, <2>6
<1> QED
  BY <1>3, <1>4, <1>5, <1>6

-----------------------------------------------------------------------------
(***************************************************************************)
(* The decode process posts its receives by the sizes of the very batch    *)
(* that comes next, however many groups are on their way.                  *)
(***************************************************************************)
THEOREM HandoffAlwaysAgrees == Spec => []HandoffAgrees
<1> DEFINE I == HandoffShape /\ HandoffInv
<1>1. Init => I
  <2> SUFFICES ASSUME Init PROVE I
    OBVIOUS
  <2>1. \A r \in Ranks : IsSequence(wire[r])
    <3>1. <<>> \in Seq({})
      OBVIOUS
    <3> QED
      BY <3>1 DEF Init, IsSequence
  <2>2. HandoffShape
    BY <2>1 DEF Init, HandoffShape
  <2>3. HandoffInv
    BY DEF Init, HandoffInv, HandoffOK
  <2> QED
    BY <2>2, <2>3
<1>2. I /\ [Next]_vars => I'
  <2> SUFFICES ASSUME I, [Next]_vars PROVE I'
    OBVIOUS
  <2>1. CASE UNCHANGED vars
    BY <2>1 DEF vars, HandoffShape, HandoffInv
  <2> QED
    BY <2>1, QuietSteps, HandoffSteps, ForwardStep DEF Next, Reader, Context, Decode
<1>3. I => HandoffAgrees
  <2> SUFFICES ASSUME I, NEW r \in Ranks, wire[r] # <<>>
               PROVE  LET g == Head(wire[r]) IN
                        CASE dec[r] = "recv_data"  -> g.kind = "data" /\ g.info = sizes[r]
                          [] dec[r] = "recv_sizes" -> g.kind = "sizes"
                          [] OTHER                 -> TRUE
    BY DEF HandoffAgrees
  <2>1. Head(wire[r]) = wire[r][1] /\ Len(wire[r]) \in Nat \ {0}
    BY TailFacts DEF HandoffShape
  <2>2. /\ wire[r][1].kind \in {"sizes", "data"}
        /\ wire[r][1].kind = "data" <=> dec[r] = "recv_data"
        /\ wire[r][1].kind = "data" => wire[r][1].info = sizes[r]
    BY <2>1 DEF HandoffInv, HandoffOK
  <2> QED
    BY <2>1, <2>2
<1> QED
  BY <1>1, <1>2, <1>3, PTL DEF Spec

(***************************************************************************)
(* The context thread does not sleep over a queued request, although the   *)
(* reader notifies after it has released the mutex.                        *)
(***************************************************************************)
THEOREM WakeupNeverLost == Spec => []NoLostWakeup
<1> DEFINE Typed == /\ ctx = [r \in Ranks |-> ctx[r]]
                    /\ notifying = [r \in Ranks |-> notifying[r]]
                    /\ request_queue = [r \in Ranks |-> request_queue[r]]
           I == Typed /\ NoLostWakeup
<1>1. Init => I
  BY DEF Init, NoLostWakeup
<1>2. I /\ [Next]_vars => I'
  <2> SUFFICES ASSUME I, [Next]_vars PROVE I'
    OBVIOUS
  <2>1. ASSUME NEW r \in Ranks, Reader(r) PROVE I'
    BY <2>1 DEF Reader, Push, Notify, ctxVars, NoLostWakeup
  <2>2. ASSUME NEW r \in Ranks, Context(r) \/ SpuriousWakeup(r) PROVE I'
    <3>1. CASE LockQueue(r)
      BY <3>1 DEF LockQueue, readerVars, NoLostWakeup
    <3>2. CASE Collect(r)
      BY <3>2 DEF Collect, readerVars, NoLostWakeup
    <3>3. CASE PreProcess(r)
      BY <3>3 DEF PreProcess, readerVars, NoLostWakeup
    <3>4. CASE SendSizes(r) \/ SendData(r) \/ SpuriousWakeup(r)
      BY <3>4 DEF SendSizes, SendData, SpuriousWakeup, readerVars, NoLostWakeup
    <3> QED
      BY <2>2, <3>1, <3>2, <3>3, <3>4 DEF Context
  <2>3. ASSUME NEW r \in Ranks, Decode(r) PROVE I'
    BY <2>3 DEF Decode, RecvSizes, RecvData, DecodeForward, ctxVars, readerVars, NoLostWakeup
  <2>4. CASE Forward
    BY <2>4 DEF Forward, readerVars, NoLostWakeup
  <2>5. CASE UNCHANGED vars
    BY <2>5 DEF vars, NoLostWakeup
  <2> QED
    BY <2>1, <2>2, <2>3, <2>4, <2>5 DEF Next
<1>3. I => NoLostWakeup
  OBVIOUS
<1> QED
  BY <1>1, <1>2, <1>3, PTL DEF Spec

-----------------------------------------------------------------------------
(* Concatenations of sequences of sequences.                              *)

\* A set of natural numbers has a least one.
LEMMA LeastOf ==
  ASSUME NEW C \in SUBSET Nat, C # {}
  PROVE  \E m \in C : \A y \in C : m <= y
<1> DEFINE R == OpToRel(<, Nat)
<1>1. IsWellFoundedOn(R, Nat)
  BY NatLessThanWellFounded
<1>2. \E m \in C : \A y \in C : ~ (<<y, m>> \in R)
  <2> HIDE DEF R
  <2> QED
    BY <1>1, WFMin
<1>3. PICK m \in C : \A y \in C : ~ (<<y, m>> \in R)
  BY <1>2
<1>4. \A y \in C : ~ (y < m)
  BY <1>3 DEF OpToRel
<1> QED
  BY <1>4

\* The partial concatenations of the sequences in s.
IsFlat(g, s, n) == g = [i \in 1..n |-> IF i = 1 THEN s[i] ELSE g[i - 1] \o s[i]]

\* They exist: what FlattenSeq chooses is such a function.
LEMMA FlatExists ==
  ASSUME NEW s, NEW n \in Nat
  PROVE  \E g : IsFlat(g, s, n)
<1> DEFINE C == {k \in Nat : ~ \E g : IsFlat(g, s, k)}
<1>1. SUFFICES ASSUME C # {} PROVE FALSE
  OBVIOUS
<1>2. PICK m \in C : \A y \in C : m <= y
  <2>1. C \in SUBSET Nat
    OBVIOUS
  <2> HIDE DEF C
  <2> QED
    BY <1>1, <2>1, LeastOf
<1>3. m # 0
  <2>1. IsFlat(<<>>, s, 0)
    BY DEF IsFlat
  <2> QED
    BY <2>1
<1>4. m - 1 \in Nat /\ m \in Nat
  BY <1>3
<1>5. PICK g : IsFlat(g, s, m - 1)
  <2>1. m - 1 \notin C
    BY <1>2, <1>4
  <2> QED
    BY <1>4, <2>1
<1> DEFINE last == IF m = 1 THEN s[m] ELSE g[m - 1] \o s[m]
           h == [i \in 1..m |-> IF i = m THEN last ELSE g[i]]
<1>6. IsFlat(h, s, m)
  <2> HIDE DEF last
  <2>1. /\ h = [i \in 1..m |-> h[i]] /\ h[m] = last
        /\ \A i \in 1..(m - 1) : i \in 1..m /\ h[i] = g[i]
    BY <1>4
  <2>2. \A i \in 1..(m - 1) : g[i] = IF i = 1 THEN s[i] ELSE g[i - 1] \o s[i]
    BY <1>5 DEF IsFlat
  <2> HIDE DEF h
  <2>3. ASSUME NEW i \in 1..m PROVE h[i] = IF i = 1 THEN s[i] ELSE h[i - 1] \o s[i]
    <3>1. CASE i = m
      <4>1. CASE m = 1
        BY <2>1, <3>1, <4>1 DEF last
      <4>2. CASE m # 1
        <5>1. m - 1 \in 1..(m - 1)
          BY <1>4, <4>2
        <5>2. h[m - 1] = g[m - 1]
          BY <2>1, <5>1
        <5> QED
          BY <2>1, <3>1, <4>2, <5>2 DEF last
      <4> QED
        BY <4>1, <4>2
    <3>2. CASE i # m
      <4>1. i \in 1..(m - 1) /\ (i # 1 => i - 1 \in 1..(m - 1))
        BY <1>4, <3>2
      <4>2. h[i] = g[i] /\ (i # 1 => h[i - 1] = g[i - 1])
        BY <2>1, <4>1
      <4> QED
        BY <2>2, <4>1, <4>2
    <3> QED
      BY <3>1, <3>2
  <2> QED
    BY <2>1, <2>3 DEF IsFlat
<1> QED
  BY <1>6

\* FlattenSeq is the last of them.
LEMMA FlattenIs ==
  ASSUME NEW s, IsSequence(s), Len(s) > 0
  PROVE  \E g : IsFlat(g, s, Len(s)) /\ FlattenSeq(s) = g[Len(s)]
<1> DEFINE n == Len(s)
           f == CHOOSE g : g = [i \in 1..n |-> IF i = 1 THEN s[i] ELSE g[i - 1] \o s[i]]
<1>1. n \in Nat
  BY EmptyFacts
<1>2. FlattenSeq(s) = f[n]
  BY <1>1 DEF FlattenSeq
<1>3. IsFlat(f, s, n)
  BY <1>1, FlatExists DEF IsFlat
<1> QED
  BY <1>2, <1>3

\* They are sequences over the same set as the parts.
LEMMA FlatType ==
  ASSUME NEW S, NEW n \in Nat, NEW s, \A i \in 1..n : s[i] \in Seq(S),
         NEW g, IsFlat(g, s, n)
  PROVE  \A i \in 1..n : g[i] \in Seq(S)
<1> DEFINE C == {i \in 1..n : g[i] \notin Seq(S)}
<1>0. \A i \in 1..n : g[i] = IF i = 1 THEN s[i] ELSE g[i - 1] \o s[i]
  BY DEF IsFlat
<1>1. SUFFICES ASSUME C # {} PROVE FALSE
  OBVIOUS
<1>2. PICK m \in C : \A y \in C : m <= y
  <2>1. C \in SUBSET Nat
    OBVIOUS
  <2> HIDE DEF C
  <2> QED
    BY <1>1, <2>1, LeastOf
<1>3. m \in 1..n /\ g[m] \notin Seq(S)
  OBVIOUS
<1>4. m # 1
  BY <1>0, <1>3
<1>5. m - 1 \in 1..n /\ m - 1 \notin C
  BY <1>2, <1>3, <1>4
<1>6. g[m - 1] \in Seq(S) /\ s[m] \in Seq(S)
  BY <1>3, <1>5
<1>7. g[m] = g[m - 1] \o s[m]
  BY <1>0, <1>3, <1>4
<1> QED
  BY <1>3, <1>6, <1>7

\* They depend on the parts they concatenate, and on no part beyond.
LEMMA FlatUnique ==
  ASSUME NEW n \in Nat, NEW m \in Nat, n <= m, NEW s, NEW t, \A i \in 1..n : s[i] = t[i],
         NEW g, IsFlat(g, s, n), NEW h, IsFlat(h, t, m)
  PROVE  \A i \in 1..n : g[i] = h[i]
<1> DEFINE C == {i \in 1..n : g[i] # h[i]}
<1>0. \A i \in 1..n : /\ g[i] = IF i = 1 THEN s[i] ELSE g[i - 1] \o s[i]
                      /\ h[i] = IF i = 1 THEN t[i] ELSE h[i - 1] \o t[i]
  <2>1. \A i \in 1..n : i \in 1..m
    OBVIOUS
  <2> QED
    BY <2>1 DEF IsFlat
<1>1. SUFFICES ASSUME C # {} PROVE FALSE
  OBVIOUS
<1>2. PICK k \in C : \A y \in C : k <= y
  <2>1. C \in SUBSET Nat
    OBVIOUS
  <2> HIDE DEF C
  <2> QED
    BY <1>1, <2>1, LeastOf
<1>3. k \in 1..n /\ g[k] # h[k] /\ s[k] = t[k]
  OBVIOUS
<1>4. k # 1
  BY <1>0, <1>3
<1>5. k - 1 \in 1..n /\ k - 1 \notin C
  BY <1>2, <1>3, <1>4
<1>6. g[k - 1] = h[k - 1]
  BY <1>5
<1>7. g[k] = g[k - 1] \o s[k] /\ h[k] = h[k - 1] \o t[k]
  BY <1>0, <1>3, <1>4
<1> QED
  BY <1>3, <1>6, <1>7

\* The concatenation of sequences over S is one over S.
LEMMA FlattenType ==
  ASSUME NEW S, NEW s \in Seq(Seq(S))
  PROVE  FlattenSeq(s) \in Seq(S)
<1>1. Len(s) \in Nat /\ \A i \in 1..Len(s) : s[i] \in Seq(S)
  OBVIOUS
<1>2. CASE Len(s) = 0
  BY <1>2 DEF FlattenSeq
<1>3. CASE Len(s) # 0
  <2>1. PICK g : IsFlat(g, s, Len(s)) /\ FlattenSeq(s) = g[Len(s)]
    BY <1>1, <1>3, FlattenIs DEF IsSequence
  <2>2. \A i \in 1..Len(s) : g[i] \in Seq(S)
    BY <1>1, <2>1, FlatType
  <2> QED
    BY <1>1, <1>3, <2>1, <2>2
<1> QED
  BY <1>2, <1>3

\* A part at the end ends up at the end.
LEMMA FlattenAppend ==
  ASSUME NEW S, NEW s \in Seq(Seq(S)), NEW e \in Seq(S)
  PROVE  FlattenSeq(Append(s, e)) = FlattenSeq(s) \o e
<1> DEFINE n == Len(s)
           t == Append(s, e)
<1>0. n \in Nat
  OBVIOUS
<1>1. t \in Seq(Seq(S)) /\ Len(t) = n + 1
  OBVIOUS
<1>2. t[n + 1] = e
  OBVIOUS
<1>3. \A i \in 1..n : t[i] = s[i]
  OBVIOUS
<1>4. n = 0 => s = <<>>
  OBVIOUS
<1> HIDE DEF t, n
<1>5. PICK h : IsFlat(h, t, n + 1) /\ FlattenSeq(t) = h[n + 1]
  <2>1. IsSequence(t) /\ Len(t) > 0
    BY <1>0, <1>1 DEF IsSequence
  <2> QED
    BY <1>1, <2>1, FlattenIs
<1>6. h[n + 1] = IF n + 1 = 1 THEN t[n + 1] ELSE h[(n + 1) - 1] \o t[n + 1]
  <2>1. n + 1 \in 1..(n + 1)
    BY <1>0
  <2> QED
    BY <1>5, <2>1 DEF IsFlat
<1>7. CASE n = 0
  <2>1. FlattenSeq(s) = <<>>
    BY <1>4, <1>7 DEF FlattenSeq
  <2>2. h[n + 1] = e
    BY <1>2, <1>6, <1>7
  <2>3. FlattenSeq(t) = <<>> \o e
    BY <1>5, <2>2
  <2> QED
    BY <2>1, <2>3 DEF t
<1>8. CASE n # 0
  <2>1. PICK g : IsFlat(g, s, n) /\ FlattenSeq(s) = g[n]
    <3>1. IsSequence(s) /\ Len(s) > 0
      BY <1>0, <1>8 DEF IsSequence, n
    <3> QED
      BY <3>1, FlattenIs DEF n
  <2>2. g[n] = h[n]
    <3>1. n + 1 \in Nat /\ n <= n + 1 /\ n \in 1..n
      BY <1>0, <1>8
    <3>2. \A i \in 1..n : s[i] = t[i]
      BY <1>3
    <3>3. \A i \in 1..n : g[i] = h[i]
      BY <1>0, <1>5, <2>1, <3>1, <3>2, FlatUnique
    <3> QED
      BY <3>1, <3>3
  <2>3. n + 1 # 1 /\ (n + 1) - 1 = n
    BY <1>0, <1>8
  <2>4. h[n + 1] = h[n] \o e
    BY <1>2, <1>6, <2>3
  <2>5. FlattenSeq(t) = FlattenSeq(s) \o e
    BY <1>5, <2>1, <2>2, <2>4
  <2> QED
    BY <2>5 DEF t
<1> QED
  BY <1>7, <1>8

\* Concatenation is associative.
LEMMA ConcatAgain ==
  ASSUME NEW S, NEW a \in Seq(S), NEW b \in Seq(S), NEW c \in Seq(S)
  PROVE  (a \o b) \o c = a \o (b \o c)
BY ConcatAssociative

\* A part at the front ends up at the front.
LEMMA FlattenTail ==
  ASSUME NEW S, NEW s \in Seq(Seq(S)), s # <<>>
  PROVE  FlattenSeq(s) = Head(s) \o FlattenSeq(Tail(s))
<1> DEFINE n == Len(s)
           m == n - 1
           t == Tail(s)
<1>0. n \in Nat /\ m \in Nat /\ n = m + 1
  OBVIOUS
<1>1. t \in Seq(Seq(S)) /\ Len(t) = m
  OBVIOUS
<1>2. \A i \in 1..m : t[i] = s[i + 1]
  OBVIOUS
<1>3. Head(s) = s[1]
  OBVIOUS
<1>4. \A i \in 1..n : s[i] \in Seq(S)
  OBVIOUS
<1> HIDE DEF n, t, m
<1>4a. m = 0 => t = <<>>
  BY <1>1
<1>5. PICK h : IsFlat(h, s, n) /\ FlattenSeq(s) = h[n]
  <2>1. IsSequence(s) /\ Len(s) > 0
    BY <1>0 DEF IsSequence, n
  <2> QED
    BY <2>1, FlattenIs DEF n
<1>6. \A i \in 1..n : h[i] = IF i = 1 THEN s[i] ELSE h[i - 1] \o s[i]
  BY <1>5 DEF IsFlat
<1>7. s[1] \in Seq(S) /\ h[1] = s[1]
  <2>1. 1 \in 1..n
    BY <1>0
  <2> QED
    BY <1>4, <1>6, <2>1
<1>8. CASE m = 0
  <2>1. FlattenSeq(t) = <<>>
    BY <1>4a, <1>8 DEF FlattenSeq
  <2>2. FlattenSeq(s) = s[1]
    BY <1>0, <1>5, <1>7, <1>8
  <2>3. s[1] \o <<>> = s[1]
    BY <1>7, ConcatEmptySeq
  <2>4. FlattenSeq(s) = Head(s) \o FlattenSeq(t)
    BY <1>3, <2>1, <2>2, <2>3
  <2> QED
    BY <2>4 DEF t
<1>9. CASE m # 0
  <2>1. PICK g : IsFlat(g, t, m) /\ FlattenSeq(t) = g[m]
    <3>1. IsSequence(t) /\ Len(t) > 0
      BY <1>0, <1>1, <1>9 DEF IsSequence
    <3> QED
      BY <1>1, <3>1, FlattenIs
  <2>2. \A i \in 1..m : g[i] = IF i = 1 THEN t[i] ELSE g[i - 1] \o t[i]
    BY <2>1 DEF IsFlat
  <2>3. \A i \in 1..m : t[i] \in Seq(S)
    BY <1>1
  <2>4. \A i \in 1..m : g[i] \in Seq(S)
    BY <1>0, <2>1, <2>3, FlatType
  <2>5. \A i \in 1..m : h[i + 1] = s[1] \o g[i]
    <3> DEFINE C == {i \in 1..m : h[i + 1] # s[1] \o g[i]}
    <3>1. SUFFICES ASSUME C # {} PROVE FALSE
      OBVIOUS
    <3>2. C \in SUBSET Nat
      <4>1. C \subseteq 1..m
        OBVIOUS
      <4>2. 1..m \subseteq Nat
        BY <1>0
      <4> HIDE DEF C
      <4> QED
        BY <4>1, <4>2
    <3>3. PICK k \in C : \A y \in C : k <= y
      <4> HIDE DEF C
      <4> QED
        BY <3>1, <3>2, LeastOf
    <3>4. k \in 1..m /\ h[k + 1] # s[1] \o g[k]
      OBVIOUS
    <3>5. h[k + 1] = h[k] \o s[k + 1] /\ t[k] = s[k + 1]
      <4>1. k + 1 \in 1..n /\ k + 1 # 1 /\ (k + 1) - 1 = k
        BY <1>0, <3>4
      <4>2. h[k + 1] = h[(k + 1) - 1] \o s[k + 1]
        BY <1>6, <4>1
      <4> QED
        BY <1>2, <3>4, <4>1, <4>2
    <3>6. CASE k = 1
      <4>1. g[1] = t[1]
        BY <2>2, <3>4, <3>6
      <4>2. h[k + 1] = s[1] \o g[k]
        BY <1>7, <3>5, <3>6, <4>1
      <4> QED
        BY <3>4, <4>2
    <3>7. CASE k # 1
      <4>1. k - 1 \in 1..m /\ (k - 1) + 1 = k
        BY <1>0, <3>4, <3>7
      <4>1a. k - 1 \notin C
        <5>1. ~ (k <= k - 1)
          BY <3>4
        <5> HIDE DEF C
        <5> QED
          BY <3>3, <5>1
      <4>2. h[(k - 1) + 1] = s[1] \o g[k - 1]
        BY <4>1, <4>1a
      <4>3. g[k] = g[k - 1] \o t[k]
        BY <2>2, <3>4, <3>7
      <4>4. g[k - 1] \in Seq(S) /\ t[k] \in Seq(S)
        BY <2>3, <2>4, <3>4, <4>1
      <4>5. (s[1] \o g[k - 1]) \o t[k] = s[1] \o (g[k - 1] \o t[k])
        <5> DEFINE a == s[1]  b == g[k - 1]  c == t[k]
        <5>1. a \in Seq(S) /\ b \in Seq(S) /\ c \in Seq(S)
          BY <1>7, <4>4
        <5> HIDE DEF a, b, c
        <5>2. (a \o b) \o c = a \o (b \o c)
          BY <5>1, ConcatAgain
        <5> QED
          BY <5>2 DEF a, b, c
      <4>6. h[k + 1] = s[1] \o g[k]
        BY <3>5, <4>1, <4>2, <4>3, <4>5
      <4> QED
        BY <3>4, <4>6
    <3> QED
      BY <3>6, <3>7
  <2>6. h[n] = s[1] \o g[m]
    <3>1. m \in 1..m
      BY <1>0, <1>9
    <3> QED
      BY <1>0, <2>5, <3>1
  <2>7. FlattenSeq(s) = Head(s) \o FlattenSeq(t)
    BY <1>3, <1>5, <2>1, <2>6
  <2> QED
    BY <2>7 DEF t
<1> QED
  BY <1>8, <1>9

-----------------------------------------------------------------------------
(* Sums.                                                                  *)

\* The partial sums of the numbers f[1], ..., f[n].
IsSum(g, f, n) == g = [i \in 0..n |-> IF i = 0 THEN 0 ELSE g[i - 1] + f[i]]

\* They exist: what SumTo chooses is such a function.
LEMMA SumExists ==
  ASSUME NEW f, NEW n \in Nat
  PROVE  \E g : IsSum(g, f, n)
<1> DEFINE C == {k \in Nat : ~ \E g : IsSum(g, f, k)}
<1>1. SUFFICES ASSUME C # {} PROVE FALSE
  OBVIOUS
<1>2. PICK m \in C : \A y \in C : m <= y
  <2>1. C \in SUBSET Nat
    OBVIOUS
  <2> HIDE DEF C
  <2> QED
    BY <1>1, <2>1, LeastOf
<1>3. m # 0
  <2>1. IsSum([i \in 0..0 |-> 0], f, 0)
    BY DEF IsSum
  <2> QED
    BY <2>1
<1>4. m - 1 \in Nat /\ m \in Nat
  BY <1>3
<1>5. PICK g : IsSum(g, f, m - 1)
  <2>1. m - 1 \notin C
    BY <1>2, <1>4
  <2> QED
    BY <1>4, <2>1
<1> DEFINE h == [i \in 0..m |-> IF i = m THEN g[m - 1] + f[m] ELSE g[i]]
<1>6. IsSum(h, f, m)
  <2>1. /\ h = [i \in 0..m |-> h[i]] /\ h[m] = g[m - 1] + f[m]
        /\ \A i \in 0..(m - 1) : h[i] = g[i]
    BY <1>4
  <2>2. \A i \in 0..(m - 1) : g[i] = IF i = 0 THEN 0 ELSE g[i - 1] + f[i]
    BY <1>5 DEF IsSum
  <2> HIDE DEF h
  <2>3. ASSUME NEW i \in 0..m PROVE h[i] = IF i = 0 THEN 0 ELSE h[i - 1] + f[i]
    <3>1. CASE i = m
      <4>1. m - 1 \in 0..(m - 1)
        BY <1>4
      <4>2. h[m - 1] = g[m - 1]
        BY <2>1, <4>1
      <4> QED
        BY <1>3, <2>1, <3>1, <4>2
    <3>2. CASE i # m
      <4>1. i \in 0..(m - 1) /\ (i # 0 => i - 1 \in 0..(m - 1))
        BY <1>4, <3>2
      <4>2. h[i] = g[i] /\ (i # 0 => h[i - 1] = g[i - 1])
        BY <2>1, <4>1
      <4> QED
        BY <2>2, <4>1, <4>2
    <3> QED
      BY <3>1, <3>2
  <2> QED
    BY <2>1, <2>3 DEF IsSum
<1> QED
  BY <1>6

\* Multiplication by a natural number keeps the order.
LEMMA ProductGrows ==
  ASSUME NEW a \in Nat, NEW b \in Nat, a <= b, NEW k \in Nat
  PROVE  a * k <= b * k /\ a * k \in Nat /\ b * k \in Nat
<1>1. PICK d \in Nat : b = a + d
  <2>1. b - a \in Nat /\ b = a + (b - a)
    OBVIOUS
  <2> QED
    BY <2>1
<1>2. b * k = a * k + d * k
  BY <1>1
<1>3. a * k \in Nat /\ d * k \in Nat
  BY <1>1
<1> QED
  BY <1>1, <1>2, <1>3

\* n numbers of at most k each add up to at most n * k.
LEMMA SumBound ==
  ASSUME NEW n \in Nat, NEW k \in Nat, NEW f,
         \A i \in 1..n : f[i] \in Nat /\ f[i] <= k
  PROVE  SumTo(f, n) \in Nat /\ SumTo(f, n) <= n * k
<1> DEFINE g == CHOOSE g : g = [i \in 0..n |-> IF i = 0 THEN 0 ELSE g[i - 1] + f[i]]
<1>1. SumTo(f, n) = g[n]
  BY DEF SumTo
<1>2. IsSum(g, f, n)
  BY SumExists DEF IsSum
<1> HIDE DEF g
<1>3. \A i \in 0..n : g[i] = IF i = 0 THEN 0 ELSE g[i - 1] + f[i]
  BY <1>2 DEF IsSum
<1> DEFINE Bad(i) == ~ (g[i] \in Nat /\ g[i] <= i * k)
           C == {i \in 0..n : Bad(i)}
<1>4. C = {}
  <2>1. SUFFICES ASSUME C # {} PROVE FALSE
    OBVIOUS
  <2>2. C \in SUBSET Nat
    OBVIOUS
  <2>3. PICK m \in C : \A y \in C : m <= y
    <3> HIDE DEF C
    <3> QED
      BY <2>1, <2>2, LeastOf
  <2>4. m \in 0..n /\ Bad(m)
    OBVIOUS
  <2>5. m # 0
    <3>1. g[0] = 0 /\ 0 * k = 0
      BY <1>3
    <3> QED
      BY <2>4, <3>1
  <2>6. m - 1 \in 0..n /\ m \in 1..n /\ ~ (m <= m - 1)
    BY <2>4, <2>5
  <2>7. ~ Bad(m - 1)
    <3>1. m - 1 \notin C
      <4> HIDE DEF C
      <4> QED
        BY <2>3, <2>6
    <3> QED
      BY <2>6, <3>1
  <2>8. g[m] = g[m - 1] + f[m]
    BY <1>3, <2>4, <2>5
  <2>9. m * k = (m - 1) * k + k
    BY <2>6
  <2>10. (m - 1) * k \in Nat
    BY <2>6
  <2>11. f[m] \in Nat /\ f[m] <= k
    BY <2>6
  <2>12. g[m - 1] \in Nat /\ g[m - 1] <= (m - 1) * k
    BY <2>7
  <2>13. g[m] \in Nat /\ g[m] <= m * k
    <3> HIDE DEF Bad, C
    <3> DEFINE p == (m - 1) * k
    <3>1. p \in Nat /\ g[m - 1] <= p /\ m * k = p + k
      BY <2>9, <2>10, <2>12
    <3> HIDE DEF p
    <3> QED
      BY <2>8, <2>11, <2>12, <3>1
  <2> QED
    BY <2>4, <2>13
<1>5. n \in 0..n
  OBVIOUS
<1>6. ~ Bad(n)
  BY <1>4, <1>5
<1> QED
  BY <1>1, <1>6

\* A sum of numbers, without a bound on them.
LEMMA SumType ==
  ASSUME NEW n \in Nat, NEW f, \A i \in 1..n : f[i] \in Nat
  PROVE  SumTo(f, n) \in Nat
<1> DEFINE g == CHOOSE g : g = [i \in 0..n |-> IF i = 0 THEN 0 ELSE g[i - 1] + f[i]]
<1>1. SumTo(f, n) = g[n]
  BY DEF SumTo
<1>2. IsSum(g, f, n)
  BY SumExists DEF IsSum
<1> HIDE DEF g
<1>3. \A i \in 0..n : g[i] = IF i = 0 THEN 0 ELSE g[i - 1] + f[i]
  BY <1>2 DEF IsSum
<1> DEFINE C == {i \in 0..n : g[i] \notin Nat}
<1>4. C = {}
  <2>1. SUFFICES ASSUME C # {} PROVE FALSE
    OBVIOUS
  <2>2. C \in SUBSET Nat
    OBVIOUS
  <2>3. PICK m \in C : \A y \in C : m <= y
    <3> HIDE DEF C
    <3> QED
      BY <2>1, <2>2, LeastOf
  <2>4. m \in 0..n /\ g[m] \notin Nat
    OBVIOUS
  <2>5. m # 0
    BY <1>3, <2>4
  <2>6. m - 1 \in 0..n /\ m \in 1..n /\ ~ (m <= m - 1)
    BY <2>4, <2>5
  <2>7. m - 1 \notin C
    <3> HIDE DEF C
    <3> QED
      BY <2>3, <2>6
  <2>8. g[m] = g[m - 1] + f[m] /\ f[m] \in Nat /\ g[m - 1] \in Nat
    BY <1>3, <2>4, <2>5, <2>6, <2>7
  <2> QED
    BY <2>4, <2>8
<1> QED
  BY <1>1, <1>4

-----------------------------------------------------------------------------
(* Blocks.                                                                 *)

\* What \div is, of natural numbers.
LEMMA DivIs ==
  ASSUME NEW x \in Nat, NEW b \in Nat \ {0}
  PROVE  /\ x \div b \in Nat
         /\ x = (x \div b) * b + (x % b) /\ x % b \in 0..(b - 1)
OBVIOUS

\* Division by a natural number keeps the order.
LEMMA DivGrows ==
  ASSUME NEW x \in Nat, NEW y \in Nat, x <= y, NEW b \in Nat \ {0}
  PROVE  x \div b <= y \div b
<1> DEFINE p == x \div b  q == y \div b  u == x % b  v == y % b
<1>1. p \in Nat /\ x = p * b + u /\ u \in 0..(b - 1)
  BY DivIs
<1>2. q \in Nat /\ y = q * b + v /\ v \in 0..(b - 1)
  BY DivIs
<1> HIDE DEF p, q, u, v
<1>3. SUFFICES ASSUME q < p PROVE FALSE
  BY <1>1, <1>2 DEF p, q
<1>4. (q + 1) * b <= p * b
  BY <1>1, <1>2, <1>3, ProductGrows
<1>5. (q + 1) * b = q * b + b
  BY <1>2
<1>6. q * b \in Nat /\ p * b \in Nat
  BY <1>1, <1>2
<1> QED
  BY <1>1, <1>2, <1>4, <1>5, <1>6

\* A multiple and a remainder, divided.
LEMMA DivOfMultiple ==
  ASSUME NEW k \in Nat, NEW b \in Nat \ {0}, NEW u \in 0..(b - 1)
  PROVE  (k * b + u) \div b = k
<1> DEFINE x == k * b + u
           q == x \div b
           v == x % b
<1>0. x \in Nat
  OBVIOUS
<1>1. q \in Nat /\ x = q * b + v /\ v \in 0..(b - 1)
  BY <1>0, DivIs
<1>2. k * b \in Nat /\ q * b \in Nat /\ x = k * b + u
  BY <1>1
<1> HIDE DEF x, q, v
<1>3. ~ (q < k)
  <2>1. SUFFICES ASSUME q < k PROVE FALSE
    OBVIOUS
  <2>2. (q + 1) * b <= k * b /\ (q + 1) * b = q * b + b
    BY <1>1, <2>1, ProductGrows
  <2> QED
    BY <1>1, <1>2, <2>2
<1>4. ~ (k < q)
  <2>1. SUFFICES ASSUME k < q PROVE FALSE
    OBVIOUS
  <2>2. (k + 1) * b <= q * b /\ (k + 1) * b = k * b + b
    BY <1>1, <2>1, ProductGrows
  <2> QED
    BY <1>1, <1>2, <2>2
<1>5. q = k
  BY <1>1, <1>3, <1>4
<1> QED
  BY <1>5 DEF q, x

\* More tokens take at least as many blocks.
LEMMA BlocksGrow ==
  ASSUME NEW x \in Nat, NEW y \in Nat, x <= y
  PROVE  Blocks(x) \in Nat /\ Blocks(y) \in Nat /\ Blocks(x) <= Blocks(y)
<1>1. BlockSize \in Nat \ {0}
  BY OnlineAssumption
<1>2. x + BlockSize - 1 \in Nat /\ y + BlockSize - 1 \in Nat
      /\ x + BlockSize - 1 <= y + BlockSize - 1
  BY <1>1
<1> QED
  BY <1>1, <1>2, DivGrows, DivIs DEF Blocks

\* One token more than a multiple of the block size takes one block more.
LEMMA BlocksOfFull ==
  ASSUME NEW x \in Nat, x % BlockSize = 0
  PROVE  Blocks(x + 1) = Blocks(x) + 1
<1> DEFINE k == x \div BlockSize
           b == BlockSize
<1>1. b \in Nat \ {0}
  BY OnlineAssumption
<1>2. k \in Nat /\ x = k * b
  <2>1. x = k * b + (x % b) /\ k \in Nat
    BY <1>1, DivIs
  <2>2. k * b \in Nat
    BY <1>1, <2>1
  <2> HIDE DEF k
  <2> QED
    BY <2>1, <2>2
<1> HIDE DEF k
<1>3. ASSUME NEW y, NEW j \in Nat, NEW u \in 0..(b - 1), y = j * b + u
      PROVE  y \div b = j
  BY <1>1, <1>3, DivOfMultiple
<1>4. x + b - 1 = k * b + (b - 1) /\ b - 1 \in 0..(b - 1)
  BY <1>1, <1>2
<1>5. (x + 1) + b - 1 = (k + 1) * b + 0 /\ 0 \in 0..(b - 1) /\ k + 1 \in Nat
  BY <1>1, <1>2
<1>6. (x + b - 1) \div b = k
  BY <1>2, <1>3, <1>4, Zenon
<1>7. ((x + 1) + b - 1) \div b = k + 1
  BY <1>3, <1>5, Zenon
<1> QED
  BY <1>6, <1>7 DEF Blocks

-----------------------------------------------------------------------------
(* Types.                                                                  *)
Info == [batch : Nat, cache : Nat, tokens : Nat]
Group == [kind : {"sizes", "data"}, info : Info, reqs : Seq(Request)]

\* A line of a trace makes a request.
LEMMA RequestType ==
  ASSUME NEW t \in Traces, NEW i \in 1..Len(t)
  PROVE  RequestOf(t[i]) \in Request
<1>1. t \in Seq(Line) /\ t[i].shared_prompt_length <= t[i].prompt_length
  BY OnlineAssumption
<1>2. t[i] \in Line
  BY <1>1
<1>3. /\ t[i].timestamp \in Nat /\ t[i].prompt_length \in Nat
      /\ t[i].shared_prompt_length \in Nat
  BY <1>2 DEF Line
<1>4. t[i].prompt_length - t[i].shared_prompt_length \in Nat
  BY <1>1, <1>3
<1> QED
  BY <1>3, <1>4 DEF RequestOf, Request

\* The lengths of the prompts of a batch.
LEMMA LengthsType ==
  ASSUME NEW b \in Seq(Request)
  PROVE  /\ Len(b) \in Nat
         /\ \A i \in 1..Len(b) : b[i].prompt_len \in Nat /\ b[i].active_prompt_len \in Nat
<1>1. ASSUME NEW i \in 1..Len(b)
      PROVE  b[i].prompt_len \in Nat /\ b[i].active_prompt_len \in Nat
  <2>1. b[i] \in Request
    OBVIOUS
  <2> QED
    BY <2>1 DEF Request
<1> QED
  BY <1>1

\* The sizes of a batch are natural numbers.
LEMMA SizesType ==
  ASSUME NEW b \in Seq(Request)
  PROVE  SizesOf(b) \in Info
<1> DEFINE n == Len(b)
           volume == [i \in 1..n |-> Blocks(b[i].prompt_len + 5)]
           tokens == [i \in 1..n |-> b[i].active_prompt_len]
<1>1. n \in Nat /\ \A i \in 1..n : volume[i] \in Nat /\ tokens[i] \in Nat
  <2>1. \A i \in 1..n : b[i].prompt_len + 5 \in Nat /\ b[i].active_prompt_len \in Nat
    BY LengthsType
  <2>2. \A i \in 1..n : Blocks(b[i].prompt_len + 5) \in Nat
    BY <2>1, BlocksGrow
  <2> QED
    BY <2>1, <2>2
<1> HIDE DEF volume, tokens
<1>2. SumTo(volume, n) \in Nat /\ SumTo(tokens, n) \in Nat
  BY <1>1, SumType
<1> QED
  BY <1>1, <1>2 DEF SizesOf, TotalBlock, Info, volume, tokens

\* The parts of a sequence that is not empty.
LEMMA HeadTailType ==
  ASSUME NEW S, NEW s \in Seq(S), s # <<>>
  PROVE  Head(s) \in S /\ Tail(s) \in Seq(S)
OBVIOUS

\* TypeOK, with the type of the wire named.
Typed ==
  /\ trace \in Traces
  /\ linesRead \in [Ranks -> 0..Len(trace)]
  /\ notifying \in [Ranks -> BOOLEAN]
  /\ request_queue \in [Ranks -> Seq(Request)]
  /\ queueMutex \in [Ranks -> BOOLEAN]
  /\ ctx \in [Ranks -> {"lock", "waiting", "collect", "forward", "send_sizes",
                        "send_data", "exit"}]
  /\ collected \in [Ranks -> Seq(Request)]
  /\ batch \in [Ranks -> Seq(Request)]
  /\ wire \in [Ranks -> Seq(Group)]
  /\ dec \in [Ranks -> {"recv_sizes", "recv_data", "forward"}]
  /\ sizes \in [Ranks -> Info]
  /\ decoded \in [Ranks -> Seq(Request)]

\* The variables start within their types.
LEMMA TypeInit == Init => Typed
<1> SUFFICES ASSUME Init PROVE Typed
  OBVIOUS
<1>1. trace \in Seq(Line)
  BY OnlineAssumption DEF Init
<1>2. 0 \in 0..Len(trace)
  BY <1>1
<1>3. NoSizes \in Info
  BY DEF NoSizes, Info
<1>4. <<>> \in Seq(Request) /\ <<>> \in Seq(Group)
  OBVIOUS
<1> QED
  BY <1>2, <1>3, <1>4 DEF Typed, Init

\* The reader, and a wakeup nobody asked for, keep the types.
LEMMA ReaderTypes ==
  ASSUME Typed, NEW r \in Ranks, Push(r) \/ Notify(r) \/ SpuriousWakeup(r)
  PROVE  Typed'
<1> USE DEF Typed, ctxVars, readerVars, decVars
<1>1. CASE Push(r)
  <2> DEFINE e == RequestOf(trace[linesRead[r] + 1])
             n == linesRead[r] + 1
  <2>1. trace \in Traces /\ linesRead[r] \in 0..Len(trace) /\ linesRead[r] < Len(trace)
    BY <1>1 DEF Push
  <2>2. Len(trace) \in Nat
    BY <2>1, OnlineAssumption
  <2>3. n \in 1..Len(trace) /\ n \in 0..Len(trace)
    BY <2>1, <2>2
  <2>4. e \in Request
    BY <2>1, <2>3, RequestType
  <2>5. request_queue[r] \in Seq(Request)
    OBVIOUS
  <2>6. /\ linesRead' = [linesRead EXCEPT ![r] = n]
        /\ request_queue' = [request_queue EXCEPT ![r] = Append(request_queue[r], e)]
        /\ notifying' = [notifying EXCEPT ![r] = TRUE]
        /\ UNCHANGED <<trace, queueMutex, ctx, collected, batch, wire, dec, sizes, decoded>>
    BY <1>1 DEF Push
  <2> HIDE DEF e, n
  <2>7. Append(request_queue[r], e) \in Seq(Request)
    BY <2>4, <2>5
  <2> QED
    BY <2>3, <2>6, <2>7
<1>2. CASE Notify(r)
  BY <1>2 DEF Notify
<1>3. CASE SpuriousWakeup(r)
  BY <1>3 DEF SpuriousWakeup
<1> QED
  BY <1>1, <1>2, <1>3

\* The batching loop keeps the types.
LEMMA BatchTypes ==
  ASSUME Typed, NEW r \in Ranks, LockQueue(r) \/ Collect(r) \/ PreProcess(r)
  PROVE  Typed'
<1> USE DEF Typed, ctxVars, readerVars, decVars
<1>1. CASE LockQueue(r)
  <2>1. <<>> \in Seq(Request)
    OBVIOUS
  <2> QED
    BY <1>1, <2>1 DEF LockQueue
<1>2. CASE Collect(r)
  <2>1. request_queue[r] \in Seq(Request) /\ collected[r] \in Seq(Request)
        /\ request_queue[r] # <<>>
    BY <1>2 DEF Collect
  <2>2. Tail(request_queue[r]) \in Seq(Request) /\ Head(request_queue[r]) \in Request
    BY <2>1, HeadTailType
  <2>3. Append(collected[r], Head(request_queue[r])) \in Seq(Request)
    BY <2>1, <2>2
  <2> QED
    BY <1>2, <2>2, <2>3 DEF Collect
<1>3. CASE PreProcess(r)
  <2>1. <<>> \in Seq(Request)
    OBVIOUS
  <2> QED
    BY <1>3, <2>1 DEF PreProcess
<1> QED
  BY <1>1, <1>2, <1>3

\* A handoff and the decode thread keep the types.
LEMMA WireTypes ==
  ASSUME Typed, NEW r \in Ranks,
         \/ SendSizes(r) \/ SendData(r)
         \/ RecvSizes(r) \/ RecvData(r) \/ DecodeForward(r)
  PROVE  Typed'
<1> USE DEF Typed, ctxVars, readerVars, decVars
<1>0. wire[r] \in Seq(Group) /\ batch[r] \in Seq(Request) /\ decoded[r] \in Seq(Request)
  OBVIOUS
<1>1. CASE SendSizes(r) \/ SendData(r)
  <2>1. PICK g : /\ g = [kind |-> "sizes", info |-> SizesOf(batch[r]), reqs |-> <<>>]
                    \/ g = [kind |-> "data", info |-> SizesOf(batch[r]), reqs |-> batch[r]]
                 /\ wire' = [wire EXCEPT ![r] = Append(wire[r], g)]
    BY <1>1 DEF SendSizes, SendData
  <2>2. g \in Group
    <3>1. SizesOf(batch[r]) \in Info /\ <<>> \in Seq(Request)
      BY <1>0, SizesType
    <3> DEFINE z == SizesOf(batch[r])  e == <<>>
    <3>2. /\ z \in Info /\ e \in Seq(Request)
          /\ \/ g = [kind |-> "sizes", info |-> z, reqs |-> e]
             \/ g = [kind |-> "data", info |-> z, reqs |-> batch[r]]
      BY <2>1, <3>1
    <3> HIDE DEF z, e
    <3> QED
      BY <1>0, <3>2 DEF Group
  <2>3. Append(wire[r], g) \in Seq(Group)
    BY <1>0, <2>2
  <2>4. UNCHANGED <<trace, linesRead, notifying, request_queue, queueMutex, collected,
                    batch, dec, sizes, decoded>>
    BY <1>1 DEF SendSizes, SendData
  <2>5. ctx' \in [Ranks -> {"lock", "waiting", "collect", "forward", "send_sizes",
                            "send_data", "exit"}]
    BY <1>1 DEF SendSizes, SendData
  <2> QED
    BY <2>1, <2>3, <2>4, <2>5
<1>2. CASE RecvSizes(r) \/ RecvData(r)
  <2>1. wire[r] # <<>> /\ wire' = [wire EXCEPT ![r] = Tail(wire[r])]
    BY <1>2 DEF RecvSizes, RecvData
  <2>2. Tail(wire[r]) \in Seq(Group) /\ Head(wire[r]) \in Group
    BY <1>0, <2>1, HeadTailType
  <2>3. Head(wire[r]).info \in Info /\ Head(wire[r]).reqs \in Seq(Request)
    BY <2>2 DEF Group
  <2>4. decoded[r] \o Head(wire[r]).reqs \in Seq(Request)
    BY <1>0, <2>3
  <2>5. sizes' \in [Ranks -> Info] /\ decoded' \in [Ranks -> Seq(Request)]
        /\ dec' \in [Ranks -> {"recv_sizes", "recv_data", "forward"}]
    <3>1. CASE RecvSizes(r)
      <4>1. sizes' = [sizes EXCEPT ![r] = Head(wire[r]).info] /\ UNCHANGED decoded
            /\ dec' = [dec EXCEPT ![r] = "recv_data"]
        BY <3>1 DEF RecvSizes
      <4> QED
        BY <2>3, <4>1
    <3>2. CASE RecvData(r)
      <4>1. decoded' = [decoded EXCEPT ![r] = decoded[r] \o Head(wire[r]).reqs]
            /\ UNCHANGED sizes /\ dec' = [dec EXCEPT ![r] = "forward"]
        BY <3>2 DEF RecvData
      <4> QED
        BY <2>4, <4>1
    <3> QED
      BY <1>2, <3>1, <3>2
  <2>6. UNCHANGED <<trace, linesRead, notifying, request_queue, queueMutex, ctx,
                    collected, batch>>
    BY <1>2 DEF RecvSizes, RecvData
  <2> QED
    BY <2>1, <2>2, <2>5, <2>6
<1>3. CASE DecodeForward(r)
  BY <1>3 DEF DecodeForward
<1> QED
  BY <1>1, <1>2, <1>3

\* Every step keeps the types.
LEMMA TypeNext == Typed /\ [Next]_vars => Typed'
<1> SUFFICES ASSUME Typed, [Next]_vars PROVE Typed'
  OBVIOUS
<1>1. CASE Forward
  BY <1>1 DEF Typed, Forward, readerVars, decVars
<1>2. CASE UNCHANGED vars
  BY <1>2 DEF Typed, vars
<1> QED
  BY <1>1, <1>2, ReaderTypes, BatchTypes, WireTypes DEF Next, Reader, Context, Decode

-----------------------------------------------------------------------------
(* The blocks of a batch.                                                  *)

\* What the batching loop lets into a batch.
BatchFits(b) ==
  Len(b) <= BatchSize /\ \A i \in 1..Len(b) : b[i].active_prompt_len <= InputLen

\* No batch outgrows --batch_size and --input_len, and no rank has exited.
BatchInv ==
  \A r \in Ranks : BatchFits(collected[r]) /\ BatchFits(batch[r]) /\ ctx[r] # "exit"

\* The batch nothing was collected for fits.
LEMMA EmptyFits == BatchFits(<<>>)
BY OnlineAssumption DEF BatchFits

\* A request the loop accepts keeps the batch within its limits.
LEMMA OneMoreFits ==
  ASSUME NEW b \in Seq(Request), BatchFits(b), Len(b) < BatchSize,
         NEW q \in Request, q.active_prompt_len <= InputLen
  PROVE  BatchFits(Append(b, q))
<1> DEFINE n == Len(b)
           c == Append(b, q)
<1>1. n \in Nat /\ Len(c) = n + 1 /\ c[n + 1] = q
  OBVIOUS
<1>2. \A i \in 1..n : c[i] = b[i]
  OBVIOUS
<1>3. n + 1 <= BatchSize
  BY <1>1, OnlineAssumption
<1> HIDE DEF c
<1>4. ASSUME NEW i \in 1..(n + 1) PROVE c[i].active_prompt_len <= InputLen
  <2>1. CASE i = n + 1
    BY <1>1, <2>1
  <2>2. CASE i # n + 1
    <3>1. i \in 1..n
      BY <1>1, <2>2
    <3>2. c[i] = b[i] /\ b[i].active_prompt_len <= InputLen
      BY <1>2, <3>1 DEF BatchFits
    <3> QED
      BY <3>2
  <2> QED
    BY <2>1, <2>2
<1> QED
  BY <1>1, <1>3, <1>4 DEF BatchFits, c

\* The blocks of a batch are those of --batch_size prompts at most.
LEMMA AllocatedBound ==
  ASSUME NEW b \in Seq(Request), BatchFits(b)
  PROVE  /\ AllocatedBlocks(b) \in Nat
         /\ AllocatedBlocks(b) <= Blocks(InputLen) * BatchSize
<1> DEFINE n == Len(b)
           k == Blocks(InputLen)
           f == [i \in 1..n |-> Blocks(b[i].active_prompt_len)]
<1>1. n \in Nat /\ n <= BatchSize /\ BatchSize \in Nat /\ InputLen \in Nat
  BY OnlineAssumption DEF BatchFits
<1>2. k \in Nat
  BY <1>1, BlocksGrow
<1>3. \A i \in 1..n : f[i] \in Nat /\ f[i] <= k
  <2>1. \A i \in 1..n : b[i].active_prompt_len \in Nat
    BY LengthsType
  <2>2. \A i \in 1..n : b[i].active_prompt_len <= InputLen
    BY DEF BatchFits
  <2>3. \A i \in 1..n : Blocks(b[i].active_prompt_len) \in Nat
                        /\ Blocks(b[i].active_prompt_len) <= Blocks(InputLen)
    BY <1>1, <2>1, <2>2, BlocksGrow
  <2> QED
    BY <2>3
<1> HIDE DEF f, k
<1>4. SumTo(f, n) \in Nat /\ SumTo(f, n) <= n * k
  BY <1>1, <1>2, <1>3, SumBound
<1>5. n * k <= BatchSize * k /\ n * k \in Nat /\ BatchSize * k \in Nat
  BY <1>1, <1>2, ProductGrows
<1>6. BatchSize * k = k * BatchSize
  BY <1>1, <1>2
<1>7. SumTo(f, n) \in Nat /\ SumTo(f, n) <= k * BatchSize
  <2> DEFINE s == SumTo(f, n)  x == n * k  y == BatchSize * k
  <2>1. s \in Nat /\ x \in Nat /\ y \in Nat /\ s <= x /\ x <= y
    BY <1>4, <1>5
  <2> HIDE DEF s, x, y
  <2>2. s \in Nat /\ s <= y
    BY <2>1
  <2> QED
    BY <1>6, <2>2 DEF s, y
<1> QED
  BY <1>7 DEF AllocatedBlocks, f, k

\* So is the volume sent for it, reserved tokens included.
LEMMA VolumeBound ==
  ASSUME NEW b \in Seq(Request), Len(b) <= BatchSize,
         \A i \in 1..Len(b) : b[i].prompt_len + 4 <= InputLen
  PROVE  /\ TotalBlock(b) \in Nat
         /\ TotalBlock(b) <= Blocks(InputLen + 1) * BatchSize
<1> DEFINE n == Len(b)
           k == Blocks(InputLen + 1)
           f == [i \in 1..n |-> Blocks(b[i].prompt_len + 5)]
<1>1. n \in Nat /\ n <= BatchSize /\ BatchSize \in Nat /\ InputLen \in Nat
  BY OnlineAssumption
<1>2. k \in Nat
  <2>1. InputLen + 1 \in Nat
    BY <1>1
  <2> QED
    BY <2>1, BlocksGrow
<1>3. \A i \in 1..n : f[i] \in Nat /\ f[i] <= k
  <2>1. \A i \in 1..n : b[i].prompt_len \in Nat
    BY LengthsType
  <2>2. \A i \in 1..n : b[i].prompt_len + 5 \in Nat /\ InputLen + 1 \in Nat
                        /\ b[i].prompt_len + 5 <= InputLen + 1
    BY <1>1, <2>1
  <2>3. \A i \in 1..n : Blocks(b[i].prompt_len + 5) \in Nat
                        /\ Blocks(b[i].prompt_len + 5) <= Blocks(InputLen + 1)
    BY <2>2, BlocksGrow
  <2> QED
    BY <2>3
<1> HIDE DEF f, k
<1>4. SumTo(f, n) \in Nat /\ SumTo(f, n) <= n * k
  BY <1>1, <1>2, <1>3, SumBound
<1>5. n * k <= BatchSize * k /\ n * k \in Nat /\ BatchSize * k \in Nat
  BY <1>1, <1>2, ProductGrows
<1>6. BatchSize * k = k * BatchSize
  BY <1>1, <1>2
<1>7. SumTo(f, n) \in Nat /\ SumTo(f, n) <= k * BatchSize
  <2> DEFINE s == SumTo(f, n)  x == n * k  y == BatchSize * k
  <2>1. s \in Nat /\ x \in Nat /\ y \in Nat /\ s <= x /\ x <= y
    BY <1>4, <1>5
  <2> HIDE DEF s, x, y
  <2>2. s \in Nat /\ s <= y
    BY <2>1
  <2> QED
    BY <1>6, <2>2 DEF s, y
<1> QED
  BY <1>7 DEF TotalBlock, f, k

\* The three sizes the options give, in order.
LEMMA SizesOrdered ==
  /\ Blocks(InputLen) * BatchSize \in Nat
  /\ context_block_size \in Nat /\ max_block_size \in Nat
  /\ Blocks(InputLen) * BatchSize <= context_block_size
  /\ context_block_size <= max_block_size
  /\ InputLen % BlockSize = 0 => Blocks(InputLen) * BatchSize < context_block_size
<1> DEFINE a == Blocks(InputLen)  b == Blocks(InputLen + 1)
           c == Blocks(InputLen + NumDecodingStep)
<1>1. /\ InputLen \in Nat /\ BatchSize \in Nat /\ BatchSize > 0 /\ NumDecodingStep \in Nat
      /\ NumDecodingStep >= 1
  BY OnlineAssumption
<1>2. InputLen + 1 \in Nat /\ InputLen + NumDecodingStep \in Nat /\ InputLen <= InputLen + 1
      /\ InputLen + 1 <= InputLen + NumDecodingStep
  BY <1>1
<1>3. a \in Nat /\ b \in Nat /\ c \in Nat /\ a <= b /\ b <= c
  BY <1>1, <1>2, BlocksGrow
<1>4. InputLen % BlockSize = 0 => b = a + 1
  BY <1>1, BlocksOfFull
<1> HIDE DEF a, b, c
<1>5. /\ a * BatchSize \in Nat /\ b * BatchSize \in Nat /\ c * BatchSize \in Nat
      /\ a * BatchSize <= b * BatchSize /\ b * BatchSize <= c * BatchSize
  BY <1>1, <1>3, ProductGrows
<1>6. InputLen % BlockSize = 0 => a * BatchSize < b * BatchSize
  <2> SUFFICES ASSUME InputLen % BlockSize = 0 PROVE a * BatchSize < b * BatchSize
    OBVIOUS
  <2>1. b * BatchSize = a * BatchSize + BatchSize
    BY <1>1, <1>3, <1>4
  <2> QED
    BY <1>1, <1>5, <2>1
<1> QED
  BY <1>5, <1>6 DEF context_block_size, max_block_size, a, b, c

\* Every step keeps the batches within their limits; the forward pass then
\* finds blocks for all of them, and no rank exits.
LEMMA BatchStep ==
  ASSUME Typed, BatchInv, [Next]_vars
  PROVE  BatchInv'
<1> USE DEF ctxVars, readerVars, decVars
<1>1. CASE Forward
  <2>1. \A r \in Ranks : AllocatedBlocks(batch[r]) <= max_block_size
    <3> TAKE r \in Ranks
    <3>1. batch[r] \in Seq(Request) /\ BatchFits(batch[r])
      BY DEF Typed, BatchInv
    <3>2. AllocatedBlocks(batch[r]) \in Nat
          /\ AllocatedBlocks(batch[r]) <= Blocks(InputLen) * BatchSize
      BY <3>1, AllocatedBound
    <3> DEFINE x == AllocatedBlocks(batch[r])  y == Blocks(InputLen) * BatchSize
    <3>3. x \in Nat /\ y \in Nat /\ context_block_size \in Nat /\ max_block_size \in Nat
          /\ x <= y /\ y <= context_block_size /\ context_block_size <= max_block_size
      BY <3>2, SizesOrdered
    <3> HIDE DEF x, y
    <3> QED
      BY <3>3 DEF x
  <2>2. \A r \in Ranks : AllocatedBlocks(batch[r]) \in Nat /\ max_block_size \in Nat
    BY AllocatedBound, SizesOrdered DEF Typed, BatchInv
  <2>3. \A r \in Ranks : ~ (AllocatedBlocks(batch[r]) > max_block_size)
    BY <2>1, <2>2
  <2>4. \A r \in Ranks : ctx'[r] # "exit"
    BY <1>1, <2>3 DEF Forward
  <2>5. UNCHANGED <<collected, batch>>
    BY <1>1 DEF Forward
  <2> QED
    BY <2>4, <2>5 DEF BatchInv
<1>2. ASSUME NEW r \in Ranks, Collect(r)
      PROVE  BatchInv'
  <2>1. request_queue[r] \in Seq(Request) /\ collected[r] \in Seq(Request)
        /\ request_queue[r] # <<>>
    BY <1>2 DEF Collect, Typed
  <2>2. Head(request_queue[r]) \in Request
    BY <2>1, HeadTailType
  <2>3. /\ Len(collected[r]) < BatchSize
        /\ Head(request_queue[r]).active_prompt_len <= InputLen
        /\ collected' = [collected EXCEPT ![r] = Append(collected[r], Head(request_queue[r]))]
        /\ UNCHANGED <<ctx, batch>>
    BY <1>2 DEF Collect
  <2>4. BatchFits(Append(collected[r], Head(request_queue[r])))
    BY <2>1, <2>2, <2>3, OneMoreFits DEF BatchInv
  <2>5. collected \in [Ranks -> Seq(Request)]
    BY DEF Typed
  <2> QED
    BY <2>3, <2>4, <2>5 DEF BatchInv
<1>3. ASSUME NEW r \in Ranks, LockQueue(r) \/ PreProcess(r)
      PROVE  BatchInv'
  <2>1. /\ collected \in [Ranks -> Seq(Request)] /\ batch \in [Ranks -> Seq(Request)]
        /\ ctx = [q \in Ranks |-> ctx[q]]
    BY DEF Typed
  <2> QED
    BY <1>3, <2>1, EmptyFits DEF LockQueue, PreProcess, BatchInv
<1>4. ASSUME NEW r \in Ranks,
             \/ Push(r) \/ Notify(r) \/ SpuriousWakeup(r) \/ SendSizes(r) \/ SendData(r)
             \/ RecvSizes(r) \/ RecvData(r) \/ DecodeForward(r)
      PROVE  BatchInv'
  <2>1. UNCHANGED <<collected, batch>> /\ \A q \in Ranks : ctx'[q] # "exit"
    <3>1. ctx = [q \in Ranks |-> ctx[q]] /\ \A q \in Ranks : ctx[q] # "exit"
      BY DEF Typed, BatchInv
    <3> QED
      BY <1>4, <3>1 DEF Push, Notify, SpuriousWakeup, SendSizes, SendData, RecvSizes,
                        RecvData, DecodeForward
  <2> QED
    BY <2>1 DEF BatchInv
<1>5. CASE UNCHANGED vars
  BY <1>5 DEF vars, BatchInv
<1> QED
  BY <1>1, <1>2, <1>3, <1>4, <1>5 DEF Next, Reader, Context, Decode

\* Batches within their limits fit the caches.
LEMMA BatchesFit ==
  ASSUME Typed, BatchInv
  PROVE  KvFits
<1> SUFFICES ASSUME NEW r \in Ranks
    PROVE  /\ ctx[r] # "exit"
           /\ InputLen % BlockSize = 0 => AllocatedBlocks(batch[r]) < context_block_size
           /\ (\A i \in 1..Len(batch[r]) : batch[r][i].prompt_len + 4 <= InputLen)
                => /\ TotalBlock(batch[r]) <= context_block_size
                   /\ TotalBlock(batch[r]) <= max_block_size
  BY DEF KvFits
<1>1. batch[r] \in Seq(Request) /\ BatchFits(batch[r]) /\ ctx[r] # "exit"
  BY DEF Typed, BatchInv
<1> DEFINE x == AllocatedBlocks(batch[r])  y == Blocks(InputLen) * BatchSize
           v == TotalBlock(batch[r])
<1>2. x \in Nat /\ x <= y
  BY <1>1, AllocatedBound
<1>3. /\ y \in Nat /\ context_block_size \in Nat /\ max_block_size \in Nat
      /\ context_block_size <= max_block_size
      /\ InputLen % BlockSize = 0 => y < context_block_size
  BY SizesOrdered
<1>4. (\A i \in 1..Len(batch[r]) : batch[r][i].prompt_len + 4 <= InputLen)
        => v \in Nat /\ v <= context_block_size
  BY <1>1, VolumeBound DEF BatchFits, context_block_size
<1> HIDE DEF x, y, v
<1>5. InputLen % BlockSize = 0 => x < context_block_size
  BY <1>2, <1>3
<1>6. v \in Nat /\ v <= context_block_size => v <= max_block_size
  BY <1>3
<1> QED
  BY <1>1, <1>4, <1>5, <1>6 DEF x, v

-----------------------------------------------------------------------------
(* Nothing is lost.                                                        *)

\* The requests of the groups on the wire w, in order.
Reqs(w) == [i \in 1..Len(w) |-> w[i].reqs]
Sent(w) == FlattenSeq(Reqs(w))

\* What is on the wire are requests.
LEMMA SentType ==
  ASSUME NEW w \in Seq(Group)
  PROVE  Reqs(w) \in Seq(Seq(Request)) /\ Sent(w) \in Seq(Request)
<1>1. Len(w) \in Nat /\ \A i \in 1..Len(w) : w[i].reqs \in Seq(Request)
  <2>1. \A i \in 1..Len(w) : w[i] \in Group
    OBVIOUS
  <2> QED
    BY <2>1 DEF Group
<1>2. Reqs(w) \in Seq(Seq(Request))
  BY <1>1 DEF Reqs
<1> QED
  BY <1>2, FlattenType DEF Sent

\* A group sent comes last.
LEMMA SentMore ==
  ASSUME NEW w \in Seq(Group), NEW g \in Group
  PROVE  Sent(Append(w, g)) = Sent(w) \o g.reqs
<1> DEFINE n == Len(w)
           v == Append(w, g)
<1>1. n \in Nat /\ v \in Seq(Group) /\ Len(v) = n + 1
  OBVIOUS
<1>2. v[n + 1] = g
  OBVIOUS
<1>3. \A i \in 1..n : v[i] = w[i]
  OBVIOUS
<1>4. g.reqs \in Seq(Request)
  BY DEF Group
<1>5. Reqs(w) \in Seq(Seq(Request)) /\ Reqs(v) \in Seq(Seq(Request))
  BY <1>1, SentType
<1>6. Len(Reqs(w)) = n /\ \A i \in 1..n : Reqs(w)[i] = w[i].reqs
  BY <1>1 DEF Reqs
<1> HIDE DEF v
<1>7. Len(Reqs(v)) = n + 1 /\ \A i \in 1..(n + 1) : Reqs(v)[i] = v[i].reqs
  BY <1>1 DEF Reqs
<1>8. Reqs(v) = Append(Reqs(w), g.reqs)
  <2> DEFINE a == Append(Reqs(w), g.reqs)
  <2>1. a \in Seq(Seq(Request)) /\ Len(a) = n + 1 /\ a[n + 1] = g.reqs
    BY <1>1, <1>4, <1>5, <1>6
  <2>2. \A i \in 1..n : a[i] = Reqs(w)[i]
    BY <1>1, <1>5, <1>6
  <2> HIDE DEF a
  <2>3. ASSUME NEW i \in 1..(n + 1) PROVE Reqs(v)[i] = a[i]
    <3>1. CASE i = n + 1
      BY <1>2, <1>7, <2>1, <3>1
    <3>2. CASE i # n + 1
      <4>1. i \in 1..n
        BY <1>1, <3>2
      <4> QED
        BY <1>3, <1>6, <1>7, <2>2, <4>1
    <3> QED
      BY <3>1, <3>2
  <2>4. Reqs(v) = a
    BY <1>5, <1>7, <2>1, <2>3, SeqEqual
  <2> QED
    BY <2>4 DEF a
<1> QED
  BY <1>4, <1>5, <1>8, FlattenAppend DEF Sent, v

\* The group received came first.
LEMMA SentLess ==
  ASSUME NEW w \in Seq(Group), w # <<>>
  PROVE  Sent(w) = Head(w).reqs \o Sent(Tail(w))
<1> DEFINE n == Len(w)
           m == n - 1
           v == Tail(w)
<1>1. n \in Nat /\ m \in Nat /\ n = m + 1 /\ v \in Seq(Group) /\ Len(v) = m
  OBVIOUS
<1>2. \A i \in 1..m : v[i] = w[i + 1]
  OBVIOUS
<1>3. Head(w) = w[1]
  OBVIOUS
<1> HIDE DEF n, m, v
<1>4. Reqs(w) \in Seq(Seq(Request)) /\ Reqs(v) \in Seq(Seq(Request))
  BY <1>1, SentType
<1>5. Len(Reqs(w)) = n /\ \A i \in 1..n : Reqs(w)[i] = w[i].reqs
  BY <1>1 DEF Reqs, n
<1>6. Len(Reqs(v)) = m /\ \A i \in 1..m : Reqs(v)[i] = v[i].reqs
  BY <1>1 DEF Reqs
<1>7. Reqs(w) # <<>> /\ Head(Reqs(w)) = Head(w).reqs
  <2>1. 1 \in 1..n
    BY <1>1
  <2>2. Len(Reqs(w)) # 0
    BY <1>1, <1>5
  <2>3. Reqs(w) # <<>> /\ Head(Reqs(w)) = Reqs(w)[1]
    BY <1>4, <2>2
  <2> QED
    BY <1>3, <1>5, <2>1, <2>3
<1>8. Tail(Reqs(w)) = Reqs(v)
  <2> DEFINE a == Tail(Reqs(w))
  <2>1. a \in Seq(Seq(Request)) /\ Len(a) = m
    BY <1>1, <1>4, <1>5, <1>7
  <2>2. \A i \in 1..m : a[i] = Reqs(w)[i + 1]
    BY <1>1, <1>4, <1>5, <1>7
  <2> HIDE DEF a
  <2>3. ASSUME NEW i \in 1..m PROVE a[i] = Reqs(v)[i]
    <3>1. i + 1 \in 1..n
      BY <1>1
    <3> QED
      BY <1>2, <1>5, <1>6, <2>2, <3>1
  <2>4. a = Reqs(v)
    BY <1>4, <1>6, <2>1, <2>3, SeqEqual
  <2> QED
    BY <2>4 DEF a
<1> QED
  BY <1>4, <1>7, <1>8, FlattenTail DEF Sent, v

-----------------------------------------------------------------------------
(* The order of the requests.                                              *)

\* The requests decoded, sent, in the model, collected and queued, in order.
Held(d, s, u, c, q) == d \o s \o u \o c \o q

\* An element appended to the second of two sequences.
LEMMA ConcatAppend ==
  ASSUME NEW S, NEW a \in Seq(S), NEW q \in Seq(S), NEW e \in S
  PROVE  a \o Append(q, e) = Append(a \o q, e)
<1> DEFINE u == a \o Append(q, e)
           v == Append(a \o q, e)
<1>1. u \in Seq(S) /\ v \in Seq(S) /\ Len(u) = Len(v)
  OBVIOUS
<1>2. \A i \in 1..Len(u) : u[i] = v[i]
  OBVIOUS
<1> HIDE DEF u, v
<1>3. u = v
  BY <1>1, <1>2, SeqEqual
<1> QED
  BY <1>3 DEF u, v

\* The head of the second of two sequences, moved to the first.
LEMMA AppendConcat ==
  ASSUME NEW S, NEW a \in Seq(S), NEW q \in Seq(S), q # <<>>
  PROVE  Append(a, Head(q)) \o Tail(q) = a \o q
<1> DEFINE u == Append(a, Head(q)) \o Tail(q)
           v == a \o q
<1>1. u \in Seq(S) /\ v \in Seq(S) /\ Len(u) = Len(v)
  OBVIOUS
<1>2. \A i \in 1..Len(u) : u[i] = v[i]
  OBVIOUS
<1> HIDE DEF u, v
<1>3. u = v
  BY <1>1, <1>2, SeqEqual
<1> QED
  BY <1>3 DEF u, v

\* Append, by a name the provers do not look behind.
Longer(q, e) == Append(q, e)

\* A request is queued at the end.
LEMMA HeldQueued ==
  ASSUME NEW S, NEW d \in Seq(S), NEW s \in Seq(S), NEW u \in Seq(S), NEW c \in Seq(S),
         NEW q \in Seq(S), NEW e \in S
  PROVE  Held(d, s, u, c, Longer(q, e)) = Longer(Held(d, s, u, c, q), e)
<1> DEFINE a == d \o s \o u \o c
<1>1. a \in Seq(S)
  OBVIOUS
<1> HIDE DEF a
<1>2. a \o Append(q, e) = Append(a \o q, e)
  BY <1>1, ConcatAppend
<1> QED
  BY <1>2 DEF Held, Longer, a

\* A request moves from the queue to the batch under construction.
LEMMA HeldCollected ==
  ASSUME NEW S, NEW d \in Seq(S), NEW s \in Seq(S), NEW u \in Seq(S), NEW c \in Seq(S),
         NEW q \in Seq(S), q # <<>>
  PROVE  Held(d, s, u, Append(c, Head(q)), Tail(q)) = Held(d, s, u, c, q)
<1> DEFINE a == d \o s \o u
           b == a \o c
           x == Head(q)
<1>1. a \in Seq(S) /\ b \in Seq(S) /\ x \in S
  OBVIOUS
<1> HIDE DEF a
<1>2. a \o Append(c, x) = Append(b, x)
  BY <1>1, ConcatAppend
<1> HIDE DEF b
<1>3. Append(b, x) \o Tail(q) = b \o q
  BY <1>1, AppendConcat
<1> QED
  BY <1>2, <1>3 DEF Held, a, b

\* The batch under construction becomes the model's batch.
LEMMA HeldBatched ==
  ASSUME NEW S, NEW d \in Seq(S), NEW s \in Seq(S), NEW c \in Seq(S), NEW q \in Seq(S)
  PROVE  Held(d, s, c, <<>>, q) = Held(d, s, <<>>, c, q)
<1> DEFINE a == d \o s
<1>1. a \in Seq(S) /\ a \o c \in Seq(S)
  OBVIOUS
<1> HIDE DEF a
<1>2. a \o <<>> = a /\ (a \o c) \o <<>> = a \o c
  BY <1>1, ConcatEmptySeq
<1> QED
  BY <1>2 DEF Held, a

\* The model's batch goes on the wire.
LEMMA HeldSent ==
  ASSUME NEW S, NEW d \in Seq(S), NEW s \in Seq(S), NEW u \in Seq(S), NEW c, NEW q
  PROVE  Held(d, s \o u, <<>>, c, q) = Held(d, s, u, c, q)
<1>1. d \o (s \o u) = (d \o s) \o u
  BY ConcatAgain
<1>2. (d \o (s \o u)) \o <<>> = d \o (s \o u)
  <2>1. d \o (s \o u) \in Seq(S)
    OBVIOUS
  <2> QED
    BY <2>1, ConcatEmptySeq
<1> QED
  BY <1>1, <1>2 DEF Held

\* The first group on the wire is decoded.
LEMMA HeldReceived ==
  ASSUME NEW S, NEW d \in Seq(S), NEW h \in Seq(S), NEW s \in Seq(S), NEW u, NEW c, NEW q
  PROVE  Held(d \o h, s, u, c, q) = Held(d, h \o s, u, c, q)
<1>1. (d \o h) \o s = d \o (h \o s)
  BY ConcatAgain
<1> QED
  BY <1>1 DEF Held

-----------------------------------------------------------------------------
\* The part of the model's batch that has not gone.
Unsent(c, b) == IF c \in {"forward", "send_sizes", "send_data"} THEN b ELSE <<>>

\* A batch under construction exists while the batching loop runs, and a group
\* of sizes brings no request.
PlaceInv ==
  \A r \in Ranks :
    /\ ctx[r] # "collect" => collected[r] = <<>>
    /\ \A i \in 1..Len(wire[r]) : wire[r][i].kind = "sizes" => wire[r][i].reqs = <<>>

Ordered(r) ==
  Held(decoded[r], Sent(wire[r]), Unsent(ctx[r], batch[r]), collected[r], request_queue[r])
    = ReadBy(r)

\* The property, rank by rank.
LEMMA OrderedIs == (\A r \in Ranks : Ordered(r)) <=> NothingLost
BY DEF Ordered, NothingLost, Taken, Held, Sent, Reqs, Unsent

\* The five parts are sequences of requests.
LEMMA PartTypes ==
  ASSUME Typed, NEW r \in Ranks
  PROVE  /\ decoded[r] \in Seq(Request) /\ Sent(wire[r]) \in Seq(Request)
         /\ Unsent(ctx[r], batch[r]) \in Seq(Request)
         /\ collected[r] \in Seq(Request) /\ request_queue[r] \in Seq(Request)
         /\ wire[r] \in Seq(Group) /\ batch[r] \in Seq(Request)
<1>1. /\ wire[r] \in Seq(Group) /\ batch[r] \in Seq(Request) /\ <<>> \in Seq(Request)
      /\ decoded[r] \in Seq(Request) /\ collected[r] \in Seq(Request)
      /\ request_queue[r] \in Seq(Request)
  BY DEF Typed
<1>2. Unsent(ctx[r], batch[r]) \in Seq(Request)
  BY <1>1 DEF Unsent
<1> QED
  BY <1>1, <1>2, SentType

\* One more line read is one more request at the end.
LEMMA ReadMore ==
  ASSUME Typed, NEW r \in Ranks, linesRead[r] < Len(trace), trace' = trace,
         linesRead'[r] = linesRead[r] + 1
  PROVE  ReadBy(r)' = Append(ReadBy(r), RequestOf(trace[linesRead[r] + 1]))
<1> DEFINE n == linesRead[r]
           e == RequestOf(trace[n + 1])
           f == [i \in 1..n |-> RequestOf(trace[i])]
           h == [i \in 1..(n + 1) |-> RequestOf(trace[i])]
           g == Append(f, e)
<1>1. n \in Nat /\ n + 1 \in 1..Len(trace) /\ Len(trace) \in Nat /\ trace \in Traces
      /\ \A i \in 1..n : i \in 1..Len(trace)
  <2>1. trace \in Traces /\ n \in 0..Len(trace)
    BY DEF Typed
  <2>2. Len(trace) \in Nat
    BY <2>1, OnlineAssumption
  <2> QED
    BY <2>1, <2>2
<1>2. e \in Request /\ \A i \in 1..n : RequestOf(trace[i]) \in Request
  BY <1>1, RequestType
<1>3. \A i \in 1..(n + 1) : i \in 1..Len(trace)
  BY <1>1
<1>4. \A i \in 1..(n + 1) : RequestOf(trace[i]) \in Request
  BY <1>1, <1>3, RequestType
<1> HIDE DEF e
<1>5. f \in Seq(Request) /\ Len(f) = n /\ \A i \in 1..n : f[i] = RequestOf(trace[i])
  BY <1>1, <1>2
<1>6. h \in Seq(Request) /\ Len(h) = n + 1 /\ \A i \in 1..(n + 1) : h[i] = RequestOf(trace[i])
  BY <1>1, <1>4
<1> HIDE DEF f, h
<1>7. g \in Seq(Request) /\ Len(g) = n + 1 /\ g[n + 1] = e
  BY <1>1, <1>2, <1>5
<1>8. \A i \in 1..n : g[i] = f[i]
  BY <1>1, <1>2, <1>5
<1> HIDE DEF g
<1>9. ASSUME NEW i \in 1..(n + 1) PROVE h[i] = g[i]
  <2>1. CASE i = n + 1
    BY <1>6, <1>7, <2>1 DEF e
  <2>2. CASE i # n + 1
    <3>1. i \in 1..n
      BY <1>1, <2>2
    <3> QED
      BY <1>5, <1>6, <1>8, <3>1
  <2> QED
    BY <2>1, <2>2
<1>10. h = g
  BY <1>6, <1>7, <1>9, SeqEqual
<1>11. ReadBy(r) = f /\ ReadBy(r)' = h
  BY DEF ReadBy, f, h
<1> QED
  BY <1>10, <1>11 DEF g, e

-----------------------------------------------------------------------------
(* The steps.                                                              *)

\* Every step keeps the batch under construction and the sizes in place.
LEMMA PlaceStep ==
  ASSUME Typed, PlaceInv, HandoffAgrees, [Next]_vars
  PROVE  PlaceInv'
<1> USE DEF ctxVars, readerVars, decVars
<1>0. /\ ctx = [r \in Ranks |-> ctx[r]] /\ collected = [r \in Ranks |-> collected[r]]
      /\ wire = [r \in Ranks |-> wire[r]] /\ \A r \in Ranks : wire[r] \in Seq(Group)
  BY DEF Typed
<1> DEFINE Idle == \A r \in Ranks : ctx[r] # "collect" => collected[r] = <<>>
           Bare(w) == \A i \in 1..Len(w) : w[i].kind = "sizes" => w[i].reqs = <<>>
<1>1. Idle /\ \A r \in Ranks : Bare(wire[r])
  BY DEF PlaceInv
<1>2. Idle' /\ (\A r \in Ranks : Bare(wire[r])') => PlaceInv'
  BY DEF PlaceInv
<1>3. Idle'
  <2> HIDE DEF Bare
  <2>1. CASE Forward
    BY <1>1, <2>1 DEF Forward
  <2>2. ASSUME NEW r \in Ranks, Push(r) \/ Notify(r) \/ SpuriousWakeup(r)
        PROVE  Idle'
    BY <1>0, <1>1, <2>2 DEF Push, Notify, SpuriousWakeup
  <2>3. ASSUME NEW r \in Ranks, LockQueue(r) \/ Collect(r) \/ PreProcess(r)
        PROVE  Idle'
    BY <1>0, <1>1, <2>3 DEF LockQueue, Collect, PreProcess
  <2>4. ASSUME NEW r \in Ranks,
               SendSizes(r) \/ SendData(r) \/ RecvSizes(r) \/ RecvData(r) \/ DecodeForward(r)
        PROVE  Idle'
    BY <1>0, <1>1, <2>4 DEF SendSizes, SendData, RecvSizes, RecvData, DecodeForward
  <2>5. CASE UNCHANGED vars
    BY <1>1, <2>5 DEF vars
  <2> QED
    BY <2>1, <2>2, <2>3, <2>4, <2>5 DEF Next, Reader, Context, Decode
<1>4. \A r \in Ranks : Bare(wire[r])'
  <2> HIDE DEF Idle
  <2>1. ASSUME NEW w \in Seq(Group), Bare(w), NEW g, g.kind = "sizes" => g.reqs = <<>>
        PROVE  Bare(Append(w, g))
    <3>1. IsSequence(w)
      BY DEF IsSequence
    <3>2. /\ Len(w) \in Nat /\ Len(Append(w, g)) = Len(w) + 1
          /\ \A i \in 1..Len(w) : Append(w, g)[i] = w[i]
          /\ Append(w, g)[Len(w) + 1] = g
      BY <3>1, AppendFacts
    <3> QED
      BY <2>1, <3>2
  <2>2. ASSUME NEW w \in Seq(Group), Bare(w), w # <<>> PROVE Bare(Tail(w))
    <3>1. /\ Len(w) \in Nat /\ Len(Tail(w)) = Len(w) - 1
          /\ \A i \in 1..(Len(w) - 1) : Tail(w)[i] = w[i + 1]
      BY <2>2
    <3>2. ASSUME NEW i \in 1..(Len(w) - 1) PROVE i + 1 \in 1..Len(w)
      BY <3>1
    <3> QED
      BY <2>2, <3>1, <3>2
  <2> HIDE DEF Bare
  <2>3. ASSUME NEW r \in Ranks, SendSizes(r) \/ SendData(r)
        PROVE  \A q \in Ranks : Bare(wire'[q])
    <3>1. PICK g : /\ g.kind = "sizes" => g.reqs = <<>>
                   /\ wire' = [wire EXCEPT ![r] = Append(wire[r], g)]
      BY <2>3 DEF SendSizes, SendData
    <3>2. Bare(Append(wire[r], g))
      BY <1>0, <1>1, <2>1, <3>1
    <3> QED
      BY <1>0, <1>1, <3>1, <3>2
  <2>4. ASSUME NEW r \in Ranks, RecvSizes(r) \/ RecvData(r)
        PROVE  \A q \in Ranks : Bare(wire'[q])
    <3>1. wire[r] # <<>> /\ wire' = [wire EXCEPT ![r] = Tail(wire[r])]
      BY <2>4 DEF RecvSizes, RecvData
    <3>2. Bare(Tail(wire[r]))
      BY <1>0, <1>1, <2>2, <3>1
    <3> QED
      BY <1>0, <1>1, <3>1, <3>2
  <2>5. CASE wire' = wire
    BY <1>1, <2>5 DEF Bare
  <2>6. ASSUME NEW r \in Ranks,
               \/ Push(r) \/ Notify(r) \/ SpuriousWakeup(r) \/ LockQueue(r) \/ Collect(r)
               \/ PreProcess(r) \/ DecodeForward(r)
        PROVE  wire' = wire
    BY <2>6 DEF Push, Notify, SpuriousWakeup, LockQueue, Collect, PreProcess, DecodeForward
  <2>7. Forward \/ UNCHANGED vars => wire' = wire
    BY DEF Forward, vars
  <2>8. \A q \in Ranks : Bare(wire'[q])
    BY <2>3, <2>4, <2>5, <2>6, <2>7 DEF Next, Reader, Context, Decode
  <2> QED
    BY <2>8 DEF Bare
<1> QED
  BY <1>2, <1>3, <1>4

\* A step of rank r keeps the order of the others.
Elsewhere(r) ==
  \A q \in Ranks \ {r} :
    /\ decoded'[q] = decoded[q] /\ wire'[q] = wire[q] /\ ctx'[q] = ctx[q]
    /\ batch'[q] = batch[q] /\ collected'[q] = collected[q]
    /\ request_queue'[q] = request_queue[q] /\ linesRead'[q] = linesRead[q]

\* Such a step keeps the property if it keeps the order of its rank.
LEMMA OrderElsewhere ==
  ASSUME NothingLost, NEW r \in Ranks, trace' = trace, Elsewhere(r), Ordered(r)'
  PROVE  NothingLost'
<1>1. \A q \in Ranks : Ordered(q)
  BY OrderedIs
<1>2. ASSUME NEW q \in Ranks PROVE Ordered(q)'
  <2>1. CASE q = r
    BY <2>1
  <2>2. CASE q # r
    <3>1. /\ decoded'[q] = decoded[q] /\ wire'[q] = wire[q] /\ ctx'[q] = ctx[q]
          /\ batch'[q] = batch[q] /\ collected'[q] = collected[q]
          /\ request_queue'[q] = request_queue[q] /\ linesRead'[q] = linesRead[q]
      BY <2>2 DEF Elsewhere
    <3>2. ReadBy(q)' = ReadBy(q)
      BY <3>1 DEF ReadBy
    <3> QED
      BY <1>1, <3>1, <3>2 DEF Ordered
  <2> QED
    BY <2>1, <2>2
<1> QED
  BY <1>2 DEF Ordered, NothingLost, Taken, Held, Sent, Reqs, Unsent

\* The steps of the reader and of the batching loop.
LEMMA OrderQueue ==
  ASSUME Typed, PlaceInv, NothingLost, NEW r \in Ranks, Push(r) \/ Collect(r) \/ PreProcess(r)
  PROVE  NothingLost'
<1> USE DEF ctxVars, readerVars, decVars
<1>0. /\ linesRead = [q \in Ranks |-> linesRead[q]] /\ ctx = [q \in Ranks |-> ctx[q]]
      /\ request_queue = [q \in Ranks |-> request_queue[q]]
      /\ collected = [q \in Ranks |-> collected[q]] /\ batch = [q \in Ranks |-> batch[q]]
  BY DEF Typed
<1> DEFINE d == decoded[r]  s == Sent(wire[r])  u == Unsent(ctx[r], batch[r])
           c == collected[r]  q == request_queue[r]
<1>1. /\ d \in Seq(Request) /\ s \in Seq(Request) /\ u \in Seq(Request)
      /\ c \in Seq(Request) /\ q \in Seq(Request)
  BY PartTypes
<1>2. Held(d, s, u, c, q) = ReadBy(r)
  BY OrderedIs DEF Ordered
<1>3. CASE Push(r)
  <2> DEFINE e == RequestOf(trace[linesRead[r] + 1])
  <2>1. /\ linesRead' = [linesRead EXCEPT ![r] = linesRead[r] + 1]
        /\ request_queue' = [request_queue EXCEPT ![r] = Append(q, e)]
        /\ linesRead[r] < Len(trace)
        /\ UNCHANGED <<trace, ctx, batch, collected, wire, decoded>>
    BY <1>3 DEF Push
  <2>2. e \in Request
    <3>1. trace \in Traces /\ linesRead[r] \in 0..Len(trace)
      BY DEF Typed
    <3>2. Len(trace) \in Nat
      BY <3>1, OnlineAssumption
    <3>3. linesRead[r] + 1 \in 1..Len(trace)
      BY <2>1, <3>1, <3>2
    <3> QED
      BY <3>1, <3>3, RequestType
  <2>3. ReadBy(r)' = Append(ReadBy(r), e)
    <3>1. trace' = trace /\ linesRead'[r] = linesRead[r] + 1
      BY <1>0, <2>1
    <3> QED
      BY <2>1, <3>1, ReadMore
  <2> HIDE DEF d, s, u, c, q, e
  <2>4. Held(d, s, u, c, Append(q, e)) = Append(Held(d, s, u, c, q), e)
    <3>1. Held(d, s, u, c, Longer(q, e)) = Longer(Held(d, s, u, c, q), e)
      BY <1>1, <2>2, HeldQueued
    <3> QED
      BY <3>1 DEF Longer
  <2>5. request_queue'[r] = Append(q, e) /\ Elsewhere(r)
    BY <1>0, <2>1 DEF Elsewhere
  <2>6. Ordered(r)'
    BY <1>2, <2>1, <2>3, <2>4, <2>5 DEF Ordered, d, s, u, c
  <2> QED
    BY <2>1, <2>5, <2>6, OrderElsewhere
<1>4. CASE Collect(r)
  <2>1. /\ request_queue' = [request_queue EXCEPT ![r] = Tail(q)] /\ q # <<>>
        /\ collected' = [collected EXCEPT ![r] = Append(c, Head(q))]
        /\ UNCHANGED <<trace, linesRead, ctx, batch, wire, decoded>>
    BY <1>4 DEF Collect
  <2> HIDE DEF d, s, u, c, q
  <2>2. Held(d, s, u, Append(c, Head(q)), Tail(q)) = Held(d, s, u, c, q)
    BY <1>1, <2>1, HeldCollected
  <2>3. request_queue'[r] = Tail(q) /\ collected'[r] = Append(c, Head(q)) /\ Elsewhere(r)
    BY <1>0, <2>1 DEF Elsewhere
  <2>4. ReadBy(r)' = ReadBy(r)
    BY <2>1 DEF ReadBy
  <2>5. Ordered(r)'
    BY <1>2, <2>1, <2>2, <2>3, <2>4 DEF Ordered, d, s, u
  <2> QED
    BY <2>1, <2>3, <2>5, OrderElsewhere
<1>5. CASE PreProcess(r)
  <2>1. /\ batch' = [batch EXCEPT ![r] = c] /\ collected' = [collected EXCEPT ![r] = <<>>]
        /\ ctx[r] = "collect" /\ ctx' = [ctx EXCEPT ![r] = "forward"]
        /\ UNCHANGED <<trace, linesRead, request_queue, wire, decoded>>
    BY <1>5 DEF PreProcess
  <2>2. u = <<>>
    BY <2>1 DEF Unsent
  <2> HIDE DEF d, s, u, c, q
  <2>3. Held(d, s, c, <<>>, q) = Held(d, s, <<>>, c, q)
    BY <1>1, HeldBatched
  <2>4. /\ batch'[r] = c /\ collected'[r] = <<>> /\ ctx'[r] = "forward" /\ Elsewhere(r)
    BY <1>0, <2>1 DEF Elsewhere
  <2>5. ReadBy(r)' = ReadBy(r)
    BY <2>1 DEF ReadBy
  <2>6. Unsent(ctx'[r], batch'[r]) = c
    BY <2>4 DEF Unsent
  <2>7. Ordered(r)'
    BY <1>2, <2>1, <2>2, <2>3, <2>4, <2>5, <2>6 DEF Ordered, d, s, q
  <2> QED
    BY <2>1, <2>4, <2>7, OrderElsewhere
<1> QED
  BY <1>3, <1>4, <1>5

\* The four steps of a handoff.
LEMMA OrderHandoff ==
  ASSUME Typed, PlaceInv, HandoffAgrees, NothingLost, NEW r \in Ranks,
         SendSizes(r) \/ SendData(r) \/ RecvSizes(r) \/ RecvData(r)
  PROVE  NothingLost'
<1> USE DEF ctxVars, readerVars, decVars
<1>0. /\ wire = [q \in Ranks |-> wire[q]] /\ ctx = [q \in Ranks |-> ctx[q]]
      /\ decoded = [q \in Ranks |-> decoded[q]]
  BY DEF Typed
<1> DEFINE w == wire[r]  b == batch[r]
           d == decoded[r]  s == Sent(w)  u == Unsent(ctx[r], b)
           c == collected[r]  q == request_queue[r]
<1>1. /\ d \in Seq(Request) /\ s \in Seq(Request) /\ u \in Seq(Request)
      /\ c \in Seq(Request) /\ q \in Seq(Request) /\ w \in Seq(Group) /\ b \in Seq(Request)
  BY PartTypes
<1>2. Held(d, s, u, c, q) = ReadBy(r)
  BY OrderedIs DEF Ordered
<1>3. UNCHANGED <<trace, linesRead, request_queue, collected, batch>>
  BY DEF SendSizes, SendData, RecvSizes, RecvData
<1>4. ReadBy(r)' = ReadBy(r)
  BY <1>3 DEF ReadBy
<1>5. SizesOf(b) \in Info
  BY <1>1, SizesType
<1>6. CASE SendSizes(r)
  <2> DEFINE g == [kind |-> "sizes", info |-> SizesOf(b), reqs |-> <<>>]
  <2>1. /\ wire' = [wire EXCEPT ![r] = Append(w, g)] /\ ctx[r] = "send_sizes"
        /\ ctx' = [ctx EXCEPT ![r] = "send_data"] /\ UNCHANGED decoded
    BY <1>6 DEF SendSizes
  <2>2. g \in Group /\ g.reqs = <<>>
    BY <1>5 DEF Group
  <2> HIDE DEF g, w
  <2>3. Sent(Append(w, g)) = s \o <<>>
    BY <1>1, <2>2, SentMore
  <2>4. s \o <<>> = s
    BY <1>1, ConcatEmptySeq
  <2>5. wire'[r] = Append(w, g) /\ ctx'[r] = "send_data" /\ Elsewhere(r)
    BY <1>0, <1>3, <2>1 DEF Elsewhere
  <2>6. Unsent(ctx'[r], batch'[r]) = u
    BY <1>3, <2>1, <2>5 DEF Unsent
  <2> HIDE DEF s, u, d, c, q
  <2>7. Ordered(r)'
    BY <1>2, <1>3, <1>4, <2>1, <2>3, <2>4, <2>5, <2>6 DEF Ordered, d, c, q
  <2> QED
    BY <1>3, <2>5, <2>7, OrderElsewhere
<1>7. CASE SendData(r)
  <2> DEFINE g == [kind |-> "data", info |-> SizesOf(b), reqs |-> b]
  <2>1. /\ wire' = [wire EXCEPT ![r] = Append(w, g)] /\ ctx[r] = "send_data"
        /\ ctx' = [ctx EXCEPT ![r] = "lock"] /\ UNCHANGED decoded
    BY <1>7 DEF SendData
  <2>2. g \in Group /\ g.reqs = b
    BY <1>1, <1>5 DEF Group
  <2>3. u = b
    BY <2>1 DEF Unsent
  <2> HIDE DEF g, w, b
  <2>4. Sent(Append(w, g)) = s \o u
    BY <1>1, <2>2, <2>3, SentMore
  <2>5. wire'[r] = Append(w, g) /\ ctx'[r] = "lock" /\ Elsewhere(r)
    BY <1>0, <1>3, <2>1 DEF Elsewhere
  <2>6. Unsent(ctx'[r], batch'[r]) = <<>>
    BY <2>5 DEF Unsent
  <2> HIDE DEF s, u, d, c, q
  <2>7. Held(d, s \o u, <<>>, c, q) = Held(d, s, u, c, q)
    BY <1>1, HeldSent
  <2>8. Ordered(r)'
    BY <1>2, <1>3, <1>4, <2>1, <2>4, <2>5, <2>6, <2>7 DEF Ordered, d, c, q
  <2> QED
    BY <1>3, <2>5, <2>8, OrderElsewhere
<1>8. CASE RecvSizes(r) \/ RecvData(r)
  <2> DEFINE h == Head(w).reqs
             t == Sent(Tail(w))
  <2>1. w # <<>> /\ wire' = [wire EXCEPT ![r] = Tail(w)] /\ UNCHANGED ctx
    BY <1>8 DEF RecvSizes, RecvData
  <2>2. Tail(w) \in Seq(Group) /\ Head(w) \in Group
    BY <1>1, <2>1, HeadTailType
  <2>3. h \in Seq(Request) /\ t \in Seq(Request)
    BY <2>2, SentType DEF Group
  <2>4. s = h \o t
    BY <1>1, <2>1, SentLess
  <2>5. decoded' = [decoded EXCEPT ![r] = d \o h]
    <3>1. CASE RecvData(r)
      BY <3>1 DEF RecvData
    <3>2. CASE RecvSizes(r)
      <4>1. dec[r] = "recv_sizes" /\ UNCHANGED decoded
        BY <3>2 DEF RecvSizes
      <4>2. Head(w).kind = "sizes"
        BY <2>1, <4>1 DEF HandoffAgrees
      <4>3. Head(w) = w[1] /\ 1 \in 1..Len(w)
        BY <1>1, <2>1
      <4>4. h = <<>>
        BY <4>2, <4>3 DEF PlaceInv
      <4>5. d \o <<>> = d
        BY <1>1, ConcatEmptySeq
      <4> QED
        BY <1>0, <4>1, <4>4, <4>5
    <3> QED
      BY <1>8, <3>1, <3>2
  <2> HIDE DEF w, h, t
  <2>6. wire'[r] = Tail(w) /\ decoded'[r] = d \o h /\ Elsewhere(r)
    BY <1>0, <1>3, <2>1, <2>5 DEF Elsewhere
  <2>7. Unsent(ctx'[r], batch'[r]) = u
    BY <1>3, <2>1
  <2>8. Sent(wire'[r]) = t
    BY <2>6 DEF t
  <2> HIDE DEF s, u, d, c, q
  <2>9. Held(d \o h, t, u, c, q) = Held(d, h \o t, u, c, q)
    BY <1>1, <2>3, HeldReceived
  <2>10. Ordered(r)'
    BY <1>2, <1>3, <1>4, <2>4, <2>6, <2>7, <2>8, <2>9 DEF Ordered, c, q
  <2> QED
    BY <1>3, <2>6, <2>10, OrderElsewhere
<1> QED
  BY <1>6, <1>7, <1>8

\* The steps that move no request.
LEMMA OrderQuiet ==
  ASSUME Typed, BatchInv', PlaceInv, NothingLost,
         \/ Forward \/ UNCHANGED vars
         \/ \E r \in Ranks : Notify(r) \/ SpuriousWakeup(r) \/ LockQueue(r) \/ DecodeForward(r)
  PROVE  NothingLost'
<1> USE DEF ctxVars, readerVars, decVars
<1>1. UNCHANGED <<trace, linesRead, request_queue, batch, wire, decoded>>
  BY DEF Forward, vars, Notify, SpuriousWakeup, LockQueue, DecodeForward
<1>2. ASSUME NEW q \in Ranks
      PROVE  /\ collected'[q] = collected[q]
             /\ Unsent(ctx'[q], batch[q]) = Unsent(ctx[q], batch[q])
  <2>0. /\ collected = [r \in Ranks |-> collected[r]] /\ ctx = [r \in Ranks |-> ctx[r]]
    BY DEF Typed
  <2>1. CASE Forward
    <3>1. ctx[q] = "forward" /\ ctx'[q] \in {"exit", "send_sizes"} /\ UNCHANGED collected
      BY <2>1 DEF Forward
    <3>2. ctx'[q] # "exit"
      BY DEF BatchInv
    <3> QED
      BY <3>1, <3>2 DEF Unsent
  <2>2. CASE UNCHANGED vars
    BY <2>2 DEF vars
  <2>3. ASSUME NEW r \in Ranks, Notify(r) \/ SpuriousWakeup(r) \/ DecodeForward(r)
        PROVE  /\ collected'[q] = collected[q]
               /\ Unsent(ctx'[q], batch[q]) = Unsent(ctx[q], batch[q])
    BY <2>0, <2>3 DEF Notify, SpuriousWakeup, DecodeForward, Unsent
  <2>4. ASSUME NEW r \in Ranks, LockQueue(r)
        PROVE  /\ collected'[q] = collected[q]
               /\ Unsent(ctx'[q], batch[q]) = Unsent(ctx[q], batch[q])
    <3>1. ctx[r] = "lock" /\ collected[r] = <<>>
      BY <2>4 DEF LockQueue, PlaceInv
    <3>2. \/ collected' = [collected EXCEPT ![r] = <<>>]
          \/ collected' = collected
      BY <2>4 DEF LockQueue
    <3>3. \/ ctx' = [ctx EXCEPT ![r] = "waiting"]
          \/ ctx' = [ctx EXCEPT ![r] = "collect"]
      BY <2>4 DEF LockQueue
    <3> QED
      BY <2>0, <3>1, <3>2, <3>3 DEF Unsent
  <2> QED
    BY <2>1, <2>2, <2>3, <2>4
<1>3. ASSUME NEW q \in Ranks PROVE Ordered(q)'
  <2>1. ReadBy(q)' = ReadBy(q)
    BY <1>1 DEF ReadBy
  <2>2. Ordered(q)
    BY OrderedIs
  <2>3. Unsent(ctx'[q], batch'[q]) = Unsent(ctx[q], batch[q])
    BY <1>1, <1>2
  <2> QED
    BY <1>1, <1>2, <2>1, <2>2, <2>3 DEF Ordered
<1> QED
  BY <1>3 DEF Ordered, NothingLost, Taken, Held, Sent, Reqs, Unsent

-----------------------------------------------------------------------------
(***************************************************************************)
(* Every variable keeps its type: the length of a prompt without its       *)
(* shared part is a natural number, because no line of a trace shares more *)
(* than it has.                                                            *)
(***************************************************************************)
THEOREM OnlineTypes == Spec => []TypeOK
<1>1. Typed => TypeOK
  BY DEF Typed, TypeOK, Group, Info
<1> QED
  BY <1>1, TypeInit, TypeNext, PTL DEF Spec

(***************************************************************************)
(* The context process never runs out of blocks, and a batch's volume fits *)
(* the caches whenever its prompts leave room for the reserved tokens: for *)
(* every block size, batch size and length of prompts.                     *)
(***************************************************************************)
THEOREM CacheAlwaysFits == Spec => []KvFits
<1>1. Init => BatchInv
  BY EmptyFits DEF Init, BatchInv
<1> QED
  BY <1>1, TypeInit, TypeNext, BatchStep, BatchesFit, PTL DEF Spec

(***************************************************************************)
(* No request is lost, repeated or overtaken between the queue and the     *)
(* decode process, however the threads interleave.                         *)
(***************************************************************************)
THEOREM NothingEverLost == Spec => []NothingLost
<1>1. Init => BatchInv
  BY EmptyFits DEF Init, BatchInv
<1>2. Init => PlaceInv /\ NothingLost
  <2> SUFFICES ASSUME Init PROVE PlaceInv /\ NothingLost
    OBVIOUS
  <2>1. PlaceInv
    BY DEF Init, PlaceInv
  <2>2. ASSUME NEW r \in Ranks PROVE Taken(r) \o request_queue[r] = ReadBy(r)
    <3>1. /\ decoded[r] = <<>> /\ wire[r] = <<>> /\ ctx[r] = "lock"
          /\ collected[r] = <<>> /\ request_queue[r] = <<>> /\ linesRead[r] = 0
      BY DEF Init
    <3>2. Taken(r) = <<>> \o <<>> \o <<>> \o <<>>
      BY <3>1 DEF Taken, FlattenSeq
    <3>3. ReadBy(r) = <<>>
      BY <3>1 DEF ReadBy
    <3> QED
      BY <3>1, <3>2, <3>3
  <2> QED
    BY <2>1, <2>2 DEF NothingLost
<1>3. Typed /\ BatchInv /\ PlaceInv /\ HandoffAgrees /\ NothingLost /\ [Next]_vars
        => NothingLost'
  <2> SUFFICES ASSUME Typed, BatchInv, PlaceInv, HandoffAgrees, NothingLost, [Next]_vars
               PROVE  NothingLost'
    OBVIOUS
  <2>1. BatchInv'
    BY BatchStep
  <2> QED
    BY <2>1, OrderQueue, OrderHandoff, OrderQuiet DEF Next, Reader, Context, Decode
<1> QED
  BY <1>1, <1>2, <1>3, TypeInit, TypeNext, BatchStep, PlaceStep, HandoffAlwaysAgrees, PTL
  DEF Spec
=============================================================================
