-------------------------- MODULE OfflineServingProofs -------------------------
(***************************************************************************)
(* Theorems about OfflineServing, for all options, whichever requests end  *)
(* when.                                                                   *)
(***************************************************************************)
EXTENDS OfflineServing, WellFoundedInduction, SequenceTheorems, TLAPS

-----------------------------------------------------------------------------
(* Numbers.                                                                *)

\* A set of natural numbers has a least one.
LEMMA LeastOf ==
  ASSUME NEW C \in SUBSET Nat, C # {}
  PROVE  \E m \in C : \A y \in C : m <= y
<1> DEFINE R == OpToRel(<, Nat)
<1>1. IsWellFoundedOn(R, Nat)
  BY NatLessThanWellFounded
<1>2. \E m \in C : \A y \in C : ~ (<<y, m>> \in R)
  <2> HIDE DEF R
  <2> QED
    BY <1>1, WFMin
<1>3. PICK m \in C : \A y \in C : ~ (<<y, m>> \in R)
  BY <1>2
<1>4. \A y \in C : ~ (y < m)
  BY <1>3 DEF OpToRel
<1> QED
  BY <1>4

\* Multiplication by a natural number keeps the order.
LEMMA ProductGrows ==
  ASSUME NEW a \in Nat, NEW b \in Nat, a <= b, NEW k \in Nat
  PROVE  a * k <= b * k /\ a * k \in Nat /\ b * k \in Nat
<1>1. PICK d \in Nat : b = a + d
  <2>1. b - a \in Nat /\ b = a + (b - a)
    OBVIOUS
  <2> QED
    BY <2>1
<1>2. b * k = a * k + d * k
  BY <1>1
<1>3. a * k \in Nat /\ d * k \in Nat
  BY <1>1
<1> QED
  BY <1>1, <1>2, <1>3

\* What \div is, of natural numbers.
LEMMA DivIs ==
  ASSUME NEW x \in Nat, NEW b \in Nat \ {0}
  PROVE  /\ x \div b \in Nat
         /\ x = (x \div b) * b + (x % b) /\ x % b \in 0..(b - 1)
OBVIOUS

\* A quotient is the number its multiples enclose.
LEMMA DivUnique ==
  ASSUME NEW k \in Nat, NEW b \in Nat \ {0}, NEW u \in 0..(b - 1), NEW x, x = k * b + u
  PROVE  x \div b = k
<1> DEFINE q == x \div b
           v == x % b
<1>0. x \in Nat
  OBVIOUS
<1>1. q \in Nat /\ x = q * b + v /\ v \in 0..(b - 1)
  BY <1>0, DivIs
<1>2. k * b \in Nat /\ q * b \in Nat /\ x = k * b + u
  BY <1>1
<1> HIDE DEF q, v
<1>3. ~ (q < k)
  <2>1. SUFFICES ASSUME q < k PROVE FALSE
    OBVIOUS
  <2>2. (q + 1) * b <= k * b /\ (q + 1) * b = q * b + b
    BY <1>1, <2>1, ProductGrows
  <2> QED
    BY <1>1, <1>2, <2>2
<1>4. ~ (k < q)
  <2>1. SUFFICES ASSUME k < q PROVE FALSE
    OBVIOUS
  <2>2. (k + 1) * b <= q * b /\ (k + 1) * b = k * b + b
    BY <1>1, <2>1, ProductGrows
  <2> QED
    BY <1>1, <1>2, <2>2
<1>5. q = k
  BY <1>1, <1>3, <1>4
<1> QED
  BY <1>5 DEF q

\* Division by a natural number keeps the order.
LEMMA DivGrows ==
  ASSUME NEW x \in Nat, NEW y \in Nat, x <= y, NEW b \in Nat \ {0}
  PROVE  x \div b <= y \div b
<1> DEFINE p == x \div b  q == y \div b  u == x % b  v == y % b
<1>1. p \in Nat /\ x = p * b + u /\ u \in 0..(b - 1)
  BY DivIs
<1>2. q \in Nat /\ y = q * b + v /\ v \in 0..(b - 1)
  BY DivIs
<1> HIDE DEF p, q, u, v
<1>3. SUFFICES ASSUME q < p PROVE FALSE
  BY <1>1, <1>2 DEF p, q
<1>4. (q + 1) * b <= p * b
  BY <1>1, <1>2, <1>3, ProductGrows
<1>5. (q + 1) * b = q * b + b
  BY <1>2
<1>6. q * b \in Nat /\ p * b \in Nat
  BY <1>1, <1>2
<1> QED
  BY <1>1, <1>2, <1>4, <1>5, <1>6

-----------------------------------------------------------------------------
(* The options and the sizes derived from them.                            *)

ParamsOK == params \in [batch_size : BatchSizes, input_len : InputLens,
                        block_size : BlockSizes, num_decoding_step : DecodingSteps]

\* The options are positive, but for the number of steps.
LEMMA Options ==
  ASSUME ParamsOK
  PROVE  /\ params.batch_size \in Nat \ {0} /\ params.input_len \in Nat \ {0}
         /\ params.block_size \in Nat \ {0} /\ params.num_decoding_step \in Nat
BY OfflineAssumption DEF ParamsOK

\* More tokens take at least as many blocks.
LEMMA BlocksGrow ==
  ASSUME ParamsOK, NEW x \in Nat, NEW y \in Nat, x <= y
  PROVE  Blocks(x) \in Nat /\ Blocks(y) \in Nat /\ Blocks(x) <= Blocks(y)
<1> DEFINE b == params.block_size
<1>1. b \in Nat \ {0}
  BY Options
<1> HIDE DEF b
<1>2. x + b - 1 \in Nat /\ y + b - 1 \in Nat /\ x + b - 1 <= y + b - 1
  BY <1>1
<1>3. /\ (x + b - 1) \div b \in Nat /\ (y + b - 1) \div b \in Nat
      /\ (x + b - 1) \div b <= (y + b - 1) \div b
  BY <1>1, <1>2, DivGrows, DivIs
<1> QED
  BY <1>3 DEF Blocks, b

\* The blocks of x + 1 tokens reach just beyond position x.
LEMMA BlocksReach ==
  ASSUME ParamsOK, NEW x \in Nat
  PROVE  /\ x \div params.block_size \in Nat
         /\ Blocks(x + 1) = (x \div params.block_size) + 1
<1> DEFINE b == params.block_size
           k == x \div b
           u == x % b
           y == (x + 1) + b - 1
<1>1. b \in Nat \ {0}
  BY Options
<1>2. k \in Nat /\ x = k * b + u /\ u \in 0..(b - 1)
  BY <1>1, DivIs
<1> HIDE DEF b, k, u
<1>3. (k + 1) * b = k * b + b /\ k * b \in Nat /\ k + 1 \in Nat
  BY <1>1, <1>2
<1>4. y = (k + 1) * b + u
  BY <1>1, <1>2, <1>3
<1> HIDE DEF y
<1>5. y \div b = k + 1
  BY <1>1, <1>2, <1>3, <1>4, DivUnique
<1>6. Blocks(x + 1) = k + 1
  BY <1>5 DEF Blocks, y, b
<1> QED
  BY <1>2, <1>6 DEF k, b

\* The blocks of x + 1 tokens are one more than those of x if x fills blocks.
LEMMA BlocksOfFull ==
  ASSUME ParamsOK, NEW x \in Nat, x % params.block_size = 0
  PROVE  Blocks(x + 1) = Blocks(x) + 1
<1> DEFINE b == params.block_size
           k == x \div b
           y == x + b - 1
           u == b - 1
<1>1. b \in Nat \ {0}
  BY Options
<1>2. k \in Nat /\ x = k * b + 0
  BY <1>1, DivIs
<1>3. Blocks(x + 1) = k + 1
  BY BlocksReach
<1> HIDE DEF b, k
<1>4. k * b \in Nat /\ u \in 0..(b - 1)
  BY <1>1, <1>2
<1>5. y = k * b + u
  BY <1>1, <1>2, <1>4
<1> HIDE DEF y, u
<1>6. y \div b = k
  BY <1>1, <1>2, <1>4, <1>5, DivUnique
<1>7. Blocks(x) = k
  BY <1>6 DEF Blocks, y, b
<1> QED
  BY <1>3, <1>7

\* The sizes, and how they compare.
LEMMA SizesOrdered ==
  ASSUME ParamsOK
  PROVE  /\ max_num_block_per_req \in Nat /\ Blocks(PromptLen) \in Nat
         /\ Blocks(PromptLen) <= max_num_block_per_req
         /\ Blocks(PromptLen) * params.batch_size <= max_block_size
         /\ context_block_size \in Nat \ {0} /\ max_block_size \in Nat \ {0}
         /\ params.num_decoding_step > 0 => context_block_size <= max_block_size
<1> DEFINE i == params.input_len  n == params.batch_size  s == params.num_decoding_step
           a == Blocks(i)  b == Blocks(i + 1)  c == Blocks(i + s)
<1>1. i \in Nat \ {0} /\ n \in Nat \ {0} /\ s \in Nat
  BY Options
<1>2. /\ i + 1 \in Nat /\ i + s \in Nat /\ i - 1 \in Nat /\ i <= i + s /\ i <= i + 1
      /\ s > 0 => i + 1 <= i + s
      /\ (i - 1) + 1 = i
  BY <1>1
<1>3. a \in Nat /\ b \in Nat /\ c \in Nat /\ a <= b /\ a <= c /\ (s > 0 => b <= c)
  BY <1>1, <1>2, BlocksGrow
<1>4. a >= 1
  <2>1. Blocks((i - 1) + 1) >= 1
    BY <1>2, BlocksReach
  <2> QED
    BY <1>2, <2>1
<1> HIDE DEF a, b, c, n, s
<1>5. a * n <= c * n /\ c * n \in Nat /\ b * n \in Nat /\ (s > 0 => b * n <= c * n)
  BY <1>1, <1>3, ProductGrows
<1>6. 1 * n <= b * n /\ 1 * n <= c * n /\ 1 * n = n
  BY <1>1, <1>3, <1>4, ProductGrows
<1>7. b * n \in Nat \ {0} /\ c * n \in Nat \ {0}
  BY <1>1, <1>5, <1>6
<1> QED
  BY <1>3, <1>5, <1>7
  DEF max_num_block_per_req, context_block_size, max_block_size, PromptLen, a, b, c, n, s

-----------------------------------------------------------------------------
(* The slots that survive a round.                                         *)

\* What Survivors computes at every slot.
IsKept(g, n, ended) ==
  g = [i \in 0..n |-> IF i = 0 THEN <<>>
                      ELSE IF i \in ended THEN g[i - 1] ELSE Append(g[i - 1], i)]

\* It exists.
LEMMA KeptExists ==
  ASSUME NEW n \in Nat, NEW ended
  PROVE  \E g : IsKept(g, n, ended)
<1> DEFINE C == {k \in Nat : ~ \E g : IsKept(g, k, ended)}
<1>1. SUFFICES ASSUME C # {} PROVE FALSE
  OBVIOUS
<1>2. PICK m \in C : \A y \in C : m <= y
  <2>1. C \in SUBSET Nat
    OBVIOUS
  <2> HIDE DEF C
  <2> QED
    BY <1>1, <2>1, LeastOf
<1>3. m # 0
  <2>1. IsKept([i \in 0..0 |-> <<>>], 0, ended)
    BY DEF IsKept
  <2> QED
    BY <2>1
<1>4. m - 1 \in Nat /\ m \in Nat
  BY <1>3
<1>5. PICK g : IsKept(g, m - 1, ended)
  <2>1. m - 1 \notin C
    BY <1>2, <1>4
  <2> QED
    BY <1>4, <2>1
<1> DEFINE last == IF m \in ended THEN g[m - 1] ELSE Append(g[m - 1], m)
           h == [i \in 0..m |-> IF i = m THEN last ELSE g[i]]
<1>6. IsKept(h, m, ended)
  <2> HIDE DEF last
  <2>1. /\ h = [i \in 0..m |-> h[i]] /\ h[m] = last
        /\ \A i \in 0..(m - 1) : h[i] = g[i]
    BY <1>4
  <2>2. \A i \in 0..(m - 1) :
          g[i] = IF i = 0 THEN <<>>
                 ELSE IF i \in ended THEN g[i - 1] ELSE Append(g[i - 1], i)
    BY <1>5 DEF IsKept
  <2> HIDE DEF h
  <2>3. ASSUME NEW i \in 0..m
        PROVE  h[i] = IF i = 0 THEN <<>>
                      ELSE IF i \in ended THEN h[i - 1] ELSE Append(h[i - 1], i)
    <3>1. CASE i = m
      <4>1. m - 1 \in 0..(m - 1)
        BY <1>4
      <4>2. h[m - 1] = g[m - 1]
        BY <2>1, <4>1
      <4> QED
        BY <1>3, <2>1, <3>1, <4>2 DEF last
    <3>2. CASE i # m
      <4>1. i \in 0..(m - 1) /\ (i # 0 => i - 1 \in 0..(m - 1))
        BY <1>4, <3>2
      <4>2. h[i] = g[i] /\ (i # 0 => h[i - 1] = g[i - 1])
        BY <2>1, <4>1
      <4> QED
        BY <2>2, <4>1, <4>2
    <3> QED
      BY <3>1, <3>2
  <2> QED
    BY <2>1, <2>3 DEF IsKept
<1> QED
  BY <1>6

\* An ascending sequence of slots up to n.
Ascending(s, n) ==
  /\ s \in Seq(Nat) /\ Len(s) <= n
  /\ \A i \in 1..Len(s) : s[i] \in 1..n
  /\ \A i, j \in 1..Len(s) : i < j => s[i] < s[j]

\* The empty one, at any bound, and one slot more.
LEMMA NoSlots == Ascending(<<>>, 0)
BY DEF Ascending

\* The same slots, at a bound one higher whose slot has ended.
LEMMA SlotDropped ==
  ASSUME NEW n \in Nat, NEW s, Ascending(s, n)
  PROVE  Ascending(s, n + 1)
<1>1. Len(s) \in Nat /\ Len(s) <= n /\ s \in Seq(Nat)
  BY DEF Ascending
<1>2. \A i \in 1..Len(s) : s[i] \in 1..(n + 1)
  BY DEF Ascending
<1>3. Len(s) <= n + 1
  BY <1>1
<1> QED
  BY <1>1, <1>2, <1>3 DEF Ascending

\* One slot more, at a bound one higher whose slot has not ended.
LEMMA SlotKept ==
  ASSUME NEW n \in Nat, NEW s, Ascending(s, n)
  PROVE  Ascending(Append(s, n + 1), n + 1)
<1> DEFINE t == Append(s, n + 1)
           l == Len(s)
<1>1. l \in Nat /\ l <= n /\ s \in Seq(Nat) /\ n + 1 \in Nat
  BY DEF Ascending
<1>2. t \in Seq(Nat) /\ Len(t) = l + 1 /\ t[l + 1] = n + 1
  BY <1>1
<1>3. \A i \in 1..l : t[i] = s[i]
  BY <1>1
<1> HIDE DEF t, l
<1>4. \A i \in 1..l : s[i] \in 1..n
  BY DEF Ascending, l
<1>5. \A i, j \in 1..l : i < j => s[i] < s[j]
  BY DEF Ascending, l
<1>6. ASSUME NEW i \in 1..(l + 1) PROVE i = l + 1 \/ i \in 1..l
  BY <1>1
<1>7. ASSUME NEW i \in 1..(l + 1) PROVE t[i] \in 1..(n + 1)
  <2>1. CASE i = l + 1
    BY <1>2, <2>1
  <2>2. CASE i \in 1..l
    <3>1. t[i] = s[i] /\ s[i] \in 1..n
      BY <1>3, <1>4, <2>2
    <3> QED
      BY <3>1
  <2> QED
    BY <1>6, <2>1, <2>2
<1>8. ASSUME NEW i \in 1..(l + 1), NEW j \in 1..(l + 1), i < j PROVE t[i] < t[j]
  <2>1. i \in 1..l
    BY <1>1, <1>8
  <2>2. t[i] = s[i] /\ s[i] \in 1..n
    BY <1>3, <1>4, <2>1
  <2>3. CASE j = l + 1
    BY <1>2, <2>2, <2>3
  <2>4. CASE j \in 1..l
    BY <1>3, <1>5, <1>8, <2>1, <2>4
  <2> QED
    BY <1>6, <2>3, <2>4
<1>9. l + 1 <= n + 1
  BY <1>1
<1> QED
  BY <1>2, <1>7, <1>8, <1>9 DEF Ascending, t

\* The survivors of a round are ascending slots, of those in use.
LEMMA SurvivorsAscend ==
  ASSUME NEW n \in Nat, NEW ended
  PROVE  Ascending(Survivors(n, ended), n)
<1> DEFINE g == CHOOSE g : IsKept(g, n, ended)
<1>1. Survivors(n, ended) = g[n]
  BY Zenon DEF Survivors, IsKept
<1>2. IsKept(g, n, ended)
  BY KeptExists, Zenon
<1> HIDE DEF g
<1>3. \A i \in 0..n : g[i] = IF i = 0 THEN <<>>
                             ELSE IF i \in ended THEN g[i - 1] ELSE Append(g[i - 1], i)
  BY <1>2 DEF IsKept
<1> DEFINE C == {i \in 0..n : ~ Ascending(g[i], i)}
<1>4. C = {}
  <2>1. SUFFICES ASSUME C # {} PROVE FALSE
    OBVIOUS
  <2>2. C \in SUBSET Nat
    OBVIOUS
  <2>3. PICK m \in C : \A y \in C : m <= y
    <3> HIDE DEF C
    <3> QED
      BY <2>1, <2>2, LeastOf
  <2>4. m \in 0..n /\ ~ Ascending(g[m], m)
    OBVIOUS
  <2>5. m # 0
    BY <1>3, <2>4, NoSlots
  <2> DEFINE k == m - 1
  <2>6. k \in 0..n /\ k \in Nat /\ m = k + 1 /\ ~ (m <= k)
    BY <2>4, <2>5
  <2>7. k \notin C
    <3> HIDE DEF C, k
    <3> QED
      BY <2>3, <2>6
  <2>8. Ascending(g[k], k)
    BY <2>6, <2>7
  <2>9. g[m] = IF m \in ended THEN g[k] ELSE Append(g[k], m)
    BY <1>3, <2>4, <2>5
  <2> HIDE DEF k, C
  <2>10. Ascending(g[m], m)
    BY <2>6, <2>8, <2>9, SlotDropped, SlotKept
  <2> QED
    BY <2>4, <2>10
<1>5. n \in 0..n
  OBVIOUS
<1> QED
  BY <1>1, <1>4, <1>5

-----------------------------------------------------------------------------
(* Types, and the requests in the slots.                                   *)

\* The handoff happens once, and no slot is in use before.
PhaseInv ==
  /\ ctx \in {"forward", "send"} => dec = "receive"
  /\ dec = "receive" => notdone = 0

\* A slot in use has a request of its own, which has generated one token in the
\* context process and one in every round; its next input is the newest one.
SlotInv ==
  \A i \in 1..notdone :
    /\ outputs[request_id[i]] = step + 1
    /\ first_token_indexes[i] = params.input_len + step
    /\ \A j \in 1..notdone : request_id[j] = request_id[i] => j = i

Typed == ParamsOK /\ TypeOK /\ PhaseInv /\ SlotInv

\* The options do not change, nor do the sizes derived from them.
LEMMA SizesStay ==
  ASSUME Next \/ UNCHANGED vars
  PROVE  /\ params' = params /\ Requests' = Requests
         /\ max_num_block_per_req' = max_num_block_per_req /\ Row' = Row
         /\ context_block_size' = context_block_size /\ max_block_size' = max_block_size
         /\ PromptLen' = PromptLen
<1>1. params' = params
  BY DEF Next, ContextForward, Handoff, AllocateBlock, NextSlot, DecodeForward, DecodeDone,
         Barrier, vars
<1> QED
  BY <1>1 DEF Requests, max_num_block_per_req, Row, context_block_size, max_block_size,
              PromptLen, Blocks

\* What the types say of a slot in use.
LEMMA SlotTypes ==
  ASSUME ParamsOK, TypeOK, NEW i \in 1..notdone
  PROVE  i \in Requests /\ request_id[i] \in Requests
<1>1. notdone \in 0..params.batch_size /\ params.batch_size \in Nat
  BY Options DEF TypeOK
<1>2. i \in Requests
  BY <1>1 DEF Requests
<1>3. request_id \in [Requests -> Requests]
  BY DEF TypeOK
<1> QED
  BY <1>2, <1>3

\* The types hold at the start.
LEMMA TypeInit == Init => Typed
<1> SUFFICES ASSUME Init PROVE Typed
  OBVIOUS
<1>1. ParamsOK
  BY DEF Init, ParamsOK
<1>2. /\ params.batch_size \in Nat \ {0} /\ params.num_decoding_step \in Nat
      /\ max_num_block_per_req \in Nat
  BY <1>1, Options, SizesOrdered
<1>3. [j \in 1..max_num_block_per_req |-> NoBlock] \in Row
  BY DEF Row, NoBlock
<1>4. 1 \in Requests /\ 1 \in 1..(0 + 1) /\ 0 \in 0..params.num_decoding_step
      /\ 0 \in 0..params.batch_size /\ 0 \in 0..max_num_block_per_req
      /\ <<>> \in Seq(Nat)
  BY <1>2 DEF Requests
<1>5. TypeOK
  BY <1>3, <1>4 DEF Init, TypeOK
<1>6. PhaseInv /\ SlotInv
  BY DEF Init, PhaseInv, SlotInv
<1> QED
  BY <1>1, <1>5, <1>6 DEF Typed

\* A forward pass of the context process keeps the types.
LEMMA TypeContextForward ==
  ASSUME Typed, ContextForward
  PROVE  Typed'
<1> DEFINE n == params.batch_size
           w == max_num_block_per_req
           k == Blocks(PromptLen)
           block(r, j) == (r - 1) * k + j
<1>1. /\ params' = params /\ Requests' = Requests /\ Row' = Row
      /\ max_num_block_per_req' = w
  BY SizesStay DEF Next
<1>2. n \in Nat /\ w \in Nat /\ k \in Nat /\ k <= w
  BY Options, SizesOrdered DEF Typed
<1>3. UNCHANGED <<dec, decVars>> /\ ctx = "forward" /\ ctx' \in {"send", "exit"}
  BY DEF ContextForward
<1>4. \A r \in Requests, j \in 1..w : block(r, j) \in Nat
  <2> TAKE r \in Requests, j \in 1..w
  <2>1. r - 1 \in Nat
    BY <1>2 DEF Requests
  <2>2. (r - 1) * k \in Nat
    BY <1>2, <2>1
  <2> QED
    BY <1>2, <2>2
<1> HIDE DEF k, block
<1>5. \/ UNCHANGED <<h_block_table, allocated_block_cnt, given>>
      \/ /\ h_block_table' = [r \in Requests |-> [j \in 1..w |->
                                IF j <= k THEN block(r, j) ELSE NoBlock]]
         /\ allocated_block_cnt' = [r \in Requests |-> k]
         /\ given' = [r \in Requests |-> [j \in 1..k |-> block(r, j)]]
  BY DEF ContextForward, k, block
<1>6. /\ h_block_table' \in [Requests -> Row]
      /\ allocated_block_cnt' \in [Requests -> 0..w]
      /\ given' \in [Requests -> Seq(Nat)]
  <2>1. CASE UNCHANGED <<h_block_table, allocated_block_cnt, given>>
    BY <2>1 DEF Typed, TypeOK
  <2>2. CASE /\ h_block_table' = [r \in Requests |-> [j \in 1..w |->
                                    IF j <= k THEN block(r, j) ELSE NoBlock]]
             /\ allocated_block_cnt' = [r \in Requests |-> k]
             /\ given' = [r \in Requests |-> [j \in 1..k |-> block(r, j)]]
    <3>1. \A r \in Requests : [j \in 1..w |-> IF j <= k THEN block(r, j) ELSE NoBlock] \in Row
      BY <1>4 DEF Row, NoBlock
    <3>2. \A r \in Requests : [j \in 1..k |-> block(r, j)] \in Seq(Nat)
      <4>1. \A j \in 1..k : j \in 1..w
        BY <1>2
      <4>2. \A r \in Requests, j \in 1..k : block(r, j) \in Nat
        BY <1>4, <4>1
      <4> QED
        BY <1>2, <4>2
    <3>3. k \in 0..w
      BY <1>2
    <3> QED
      BY <2>2, <3>1, <3>2, <3>3
  <2> QED
    BY <1>5, <2>1, <2>2
<1>7. TypeOK'
  BY <1>1, <1>3, <1>6 DEF Typed, TypeOK, decVars
<1>8. PhaseInv' /\ SlotInv'
  BY <1>1, <1>3 DEF Typed, PhaseInv, SlotInv, decVars
<1> QED
  BY <1>1, <1>7, <1>8 DEF Typed, ParamsOK

\* The handoff keeps the types.
LEMMA TypeHandoff ==
  ASSUME Typed, Handoff
  PROVE  Typed'
<1> DEFINE n == params.batch_size
<1>1. /\ params' = params /\ Requests' = Requests /\ Row' = Row
      /\ max_num_block_per_req' = max_num_block_per_req /\ PromptLen' = PromptLen
  BY SizesStay DEF Next
<1>2. n \in Nat /\ params.num_decoding_step \in Nat /\ Requests = 1..n
      /\ PromptLen = params.input_len /\ PromptLen \in Nat
  BY Options DEF Typed, Requests, PromptLen
<1>3. /\ ctx' = "barrier" /\ dec' = "decode" /\ d_block_table' = h_block_table
      /\ num_allocated_blocks' = 0 /\ outputs' = [r \in Requests |-> 1]
      /\ first_token_indexes' = [i \in Requests |-> PromptLen]
      /\ request_id' = [i \in Requests |-> i] /\ notdone' = n /\ step' = 0 /\ slot' = 1
      /\ UNCHANGED <<params, h_block_table, allocated_block_cnt, given>>
  BY DEF Handoff
<1>4. first_token_indexes' \in Seq(Nat)
  BY <1>2, <1>3
<1>5. slot' \in 1..notdone' + 1 /\ notdone' \in 0..n /\ step' \in 0..params.num_decoding_step
  BY <1>2, <1>3
<1>6. TypeOK'
  BY <1>1, <1>3, <1>4, <1>5 DEF Typed, TypeOK
<1>7. PhaseInv'
  BY <1>3 DEF PhaseInv
<1>8. SlotInv'
  BY <1>1, <1>2, <1>3 DEF SlotInv
<1> QED
  BY <1>1, <1>6, <1>7, <1>8 DEF Typed, ParamsOK

\* A request still in a slot needs no more blocks than its row has room for.
LEMMA NeededFits ==
  ASSUME Typed, Rounds, NEW i \in 1..notdone
  PROVE  /\ Needed(request_id[i]) \in Nat
         /\ Needed(request_id[i]) <= max_num_block_per_req
<1> DEFINE x == params.input_len + (step + 1)
           y == params.input_len + params.num_decoding_step
<1>1. /\ params.input_len \in Nat /\ params.num_decoding_step \in Nat
      /\ step \in Nat /\ step < params.num_decoding_step
  BY Options DEF Typed, TypeOK, Rounds
<1>2. x \in Nat /\ y \in Nat /\ x <= y
  BY <1>1
<1>3. outputs[request_id[i]] = step + 1
  BY DEF Typed, SlotInv
<1>4. Needed(request_id[i]) = Blocks(x)
  BY <1>3 DEF Needed, PromptLen
<1> HIDE DEF x, y
<1>5. Blocks(x) \in Nat /\ Blocks(x) <= Blocks(y)
  BY <1>2, BlocksGrow DEF Typed
<1> QED
  BY <1>4, <1>5 DEF max_num_block_per_req, y

\* Allocating a block keeps the types.
LEMMA TypeAllocateBlock ==
  ASSUME Typed, AllocateBlock
  PROVE  Typed'
<1> DEFINE r == request_id[slot]
           new == num_allocated_blocks + 1
           w == max_num_block_per_req
           c == allocated_block_cnt[r] + 1
<1>1. /\ params' = params /\ Requests' = Requests /\ Row' = Row
      /\ max_num_block_per_req' = w
  BY SizesStay DEF Next
<1>2. /\ Rounds /\ slot <= notdone /\ allocated_block_cnt[r] < Needed(r)
      /\ num_allocated_blocks' = new /\ dec = "decode"
      /\ UNCHANGED <<params, ctx, h_block_table, request_id, notdone, outputs,
                     first_token_indexes, step, slot>>
  BY DEF AllocateBlock
<1>3. slot \in 1..notdone
  <2>1. slot \in 1..notdone + 1 /\ notdone \in 0..params.batch_size
        /\ params.batch_size \in Nat
    BY Options DEF Typed, TypeOK
  <2> QED
    BY <1>2, <2>1
<1>4. r \in Requests /\ slot \in Requests
  BY <1>3, SlotTypes DEF Typed
<1>5. new \in Nat
  BY DEF Typed, TypeOK
<1>6. c \in 1..w
  <2>1. Needed(r) \in Nat /\ Needed(r) <= w /\ w \in Nat
    BY <1>2, <1>3, NeededFits, SizesOrdered DEF Typed
  <2>2. allocated_block_cnt[r] \in 0..w
    BY <1>4 DEF Typed, TypeOK
  <2> HIDE DEF r
  <2> QED
    BY <1>2, <2>1, <2>2
<1>7. \/ dec' = "exit" /\ UNCHANGED <<d_block_table, allocated_block_cnt, given>>
      \/ /\ d_block_table' = [d_block_table EXCEPT ![slot][c] = new]
         /\ allocated_block_cnt' = [allocated_block_cnt EXCEPT ![r] = c]
         /\ given' = [given EXCEPT ![r] = Append(given[r], new)] /\ dec' = dec
  BY DEF AllocateBlock, PutBlock
<1> HIDE DEF r, new, c, w
<1>8. /\ d_block_table' \in [Requests -> Row]
      /\ allocated_block_cnt' \in [Requests -> 0..w]
      /\ given' \in [Requests -> Seq(Nat)]
      /\ dec' \in {"exit", "decode"}
  <2>1. CASE dec' = "exit" /\ UNCHANGED <<d_block_table, allocated_block_cnt, given>>
    BY <2>1 DEF Typed, TypeOK, w
  <2>2. CASE /\ d_block_table' = [d_block_table EXCEPT ![slot][c] = new]
             /\ allocated_block_cnt' = [allocated_block_cnt EXCEPT ![r] = c]
             /\ given' = [given EXCEPT ![r] = Append(given[r], new)] /\ dec' = dec
    <3>1. given[r] \in Seq(Nat) /\ given \in [Requests -> Seq(Nat)]
          /\ allocated_block_cnt \in [Requests -> 0..w]
          /\ d_block_table \in [Requests -> Row] /\ d_block_table[slot] \in Row
      BY <1>4 DEF Typed, TypeOK, w
    <3>2. Append(given[r], new) \in Seq(Nat)
      BY <1>5, <3>1
    <3>3. [d_block_table[slot] EXCEPT ![c] = new] \in Row
      BY <1>5, <3>1 DEF Row
    <3>4. c \in 0..w
      BY <1>6
    <3> QED
      BY <1>2, <2>2, <3>1, <3>2, <3>3, <3>4
  <2> QED
    BY <1>7, <2>1, <2>2
<1>9. num_allocated_blocks' \in Nat
  BY <1>2, <1>5
<1>10. TypeOK'
  BY <1>1, <1>2, <1>8, <1>9 DEF Typed, TypeOK, w
<1>11. PhaseInv' /\ SlotInv'
  BY <1>1, <1>2, <1>8 DEF Typed, PhaseInv, SlotInv
<1> QED
  BY <1>1, <1>10, <1>11 DEF Typed, ParamsOK

\* Moving on to the next slot keeps the types.
LEMMA TypeNextSlot ==
  ASSUME Typed, NextSlot
  PROVE  Typed'
<1>1. /\ params' = params /\ Requests' = Requests /\ Row' = Row
      /\ max_num_block_per_req' = max_num_block_per_req
  BY SizesStay DEF Next
<1>2. /\ slot' = slot + 1 /\ slot <= notdone
      /\ UNCHANGED <<params, ctx, dec, h_block_table, d_block_table,
                 allocated_block_cnt, num_allocated_blocks, request_id, notdone,
                 outputs, first_token_indexes, step, given>>
  BY DEF NextSlot
<1>3. slot' \in 1..notdone' + 1
  <2>1. slot \in 1..notdone + 1 /\ notdone \in 0..params.batch_size
        /\ params.batch_size \in Nat
    BY Options DEF Typed, TypeOK
  <2> QED
    BY <1>2, <2>1
<1>4. TypeOK'
  BY <1>1, <1>2, <1>3 DEF Typed, TypeOK
<1>5. PhaseInv' /\ SlotInv'
  BY <1>1, <1>2 DEF Typed, PhaseInv, SlotInv
<1> QED
  BY <1>1, <1>4, <1>5 DEF Typed, ParamsOK

\* The end of the decode process keeps the types.
LEMMA TypeEnd ==
  ASSUME Typed, DecodeDone \/ Barrier \/ UNCHANGED vars
  PROVE  Typed'
<1>1. /\ params' = params /\ Requests' = Requests /\ Row' = Row
      /\ max_num_block_per_req' = max_num_block_per_req
  BY SizesStay DEF Next
<1>2. /\ UNCHANGED <<h_block_table, allocated_block_cnt, d_block_table, num_allocated_blocks,
                     request_id, notdone, outputs, first_token_indexes, step, slot, given>>
      /\ \/ UNCHANGED <<ctx, dec>>
         \/ dec = "decode" /\ dec' = "barrier" /\ ctx' = ctx
         \/ ctx' = "done" /\ dec' = "done"
  BY DEF DecodeDone, Barrier, vars, decVars
<1>3. TypeOK'
  BY <1>1, <1>2 DEF Typed, TypeOK
<1>4. PhaseInv' /\ SlotInv'
  BY <1>1, <1>2 DEF Typed, PhaseInv, SlotInv
<1> QED
  BY <1>1, <1>3, <1>4 DEF Typed, ParamsOK

\* The slots after a round: the survivors, with the request, the row and the
\* request's newest token.
LEMMA RoundEnds ==
  ASSUME Typed, NEW ended, DecodeForward(ended)
  PROVE  \E s :
    /\ Ascending(s, notdone)
    /\ notdone' = Len(s) /\ notdone' \in 0..notdone
    /\ request_id' = [i \in Requests |->
         IF i <= Len(s) THEN request_id[s[i]] ELSE request_id[i]]
    /\ d_block_table' = [i \in Requests |->
         IF i <= Len(s) THEN d_block_table[s[i]] ELSE d_block_table[i]]
    /\ first_token_indexes' =
         [i \in 1..Len(s) |-> PromptLen + outputs[request_id[s[i]]] + 1 - 1]
    /\ outputs' = [r \in Requests |->
         IF r \in {request_id[i] : i \in 1..notdone} THEN outputs[r] + 1 ELSE outputs[r]]
    /\ step' = step + 1 /\ slot' = 1 /\ slot > notdone /\ Rounds /\ dec = "decode"
    /\ UNCHANGED <<params, ctx, dec, h_block_table, allocated_block_cnt,
                   num_allocated_blocks, given>>
<1> DEFINE s == Survivors(notdone, ended)
<1>1. notdone \in Nat
  BY Options DEF Typed, TypeOK
<1>2. Ascending(s, notdone)
  BY <1>1, SurvivorsAscend
<1>3. DOMAIN request_id = Requests /\ DOMAIN d_block_table = Requests
  BY DEF Typed, TypeOK
<1>4. /\ notdone' = Len(s)
      /\ request_id' = MoveUp(request_id, s) /\ d_block_table' = MoveUp(d_block_table, s)
      /\ first_token_indexes' =
           [i \in 1..Len(s) |-> PromptLen + outputs[request_id[s[i]]] + 1 - 1]
      /\ outputs' = [r \in Requests |->
           IF r \in {request_id[i] : i \in 1..notdone} THEN outputs[r] + 1 ELSE outputs[r]]
      /\ step' = step + 1 /\ slot' = 1 /\ slot > notdone /\ Rounds /\ dec = "decode"
      /\ UNCHANGED <<params, ctx, dec, h_block_table, allocated_block_cnt,
                     num_allocated_blocks, given>>
  BY DEF DecodeForward
<1> HIDE DEF s
<1>5. /\ request_id' = [i \in Requests |->
           IF i <= Len(s) THEN request_id[s[i]] ELSE request_id[i]]
      /\ d_block_table' = [i \in Requests |->
           IF i <= Len(s) THEN d_block_table[s[i]] ELSE d_block_table[i]]
  BY <1>3, <1>4 DEF MoveUp
<1>6. notdone' \in 0..notdone
  BY <1>1, <1>2, <1>4 DEF Ascending
<1> QED
  BY <1>2, <1>4, <1>5, <1>6

\* A decode step, and the compaction of the slots after it, keep the types.
LEMMA TypeDecodeForward ==
  ASSUME Typed, NEW ended \in SUBSET (1..notdone), DecodeForward(ended)
  PROVE  Typed'
<1> DEFINE n == params.batch_size
<1>1. /\ params' = params /\ Requests' = Requests /\ Row' = Row
      /\ max_num_block_per_req' = max_num_block_per_req
  BY SizesStay DEF Next
<1>2. PICK s :
    /\ Ascending(s, notdone)
    /\ notdone' = Len(s) /\ notdone' \in 0..notdone
    /\ request_id' = [i \in Requests |->
         IF i <= Len(s) THEN request_id[s[i]] ELSE request_id[i]]
    /\ d_block_table' = [i \in Requests |->
         IF i <= Len(s) THEN d_block_table[s[i]] ELSE d_block_table[i]]
    /\ first_token_indexes' =
         [i \in 1..Len(s) |-> PromptLen + outputs[request_id[s[i]]] + 1 - 1]
    /\ outputs' = [r \in Requests |->
         IF r \in {request_id[i] : i \in 1..notdone} THEN outputs[r] + 1 ELSE outputs[r]]
    /\ step' = step + 1 /\ slot' = 1 /\ slot > notdone /\ Rounds /\ dec = "decode"
    /\ UNCHANGED <<params, ctx, dec, h_block_table, allocated_block_cnt,
                   num_allocated_blocks, given>>
  BY RoundEnds
<1>3. /\ n \in Nat /\ params.num_decoding_step \in Nat /\ PromptLen = params.input_len
      /\ PromptLen \in Nat /\ notdone \in 0..n /\ Requests = 1..n /\ Len(s) \in Nat
      /\ Len(s) <= notdone /\ step \in Nat
  BY <1>2, Options DEF Typed, TypeOK, Requests, PromptLen, Ascending
<1>4. ASSUME NEW i \in 1..Len(s)
      PROVE  /\ s[i] \in 1..notdone /\ s[i] \in Requests /\ request_id[s[i]] \in Requests
             /\ outputs[request_id[s[i]]] = step + 1 /\ i \in Requests
  <2>1. s[i] \in 1..notdone
    BY <1>2 DEF Ascending
  <2>2. s[i] \in Requests /\ request_id[s[i]] \in Requests
    BY <2>1, SlotTypes DEF Typed
  <2>3. outputs[request_id[s[i]]] = step + 1
    BY <2>1 DEF Typed, SlotInv
  <2>4. i \in Requests
    BY <1>3
  <2> QED
    BY <2>1, <2>2, <2>3, <2>4
<1>5. ASSUME NEW i \in Requests, i <= Len(s) PROVE i \in 1..Len(s)
  BY <1>3, <1>5
<1>6. request_id' \in [Requests -> Requests]
  <2>1. request_id \in [Requests -> Requests]
    BY DEF Typed, TypeOK
  <2> QED
    BY <1>2, <1>4, <1>5, <2>1
<1>7. d_block_table' \in [Requests -> Row]
  <2>1. d_block_table \in [Requests -> Row]
    BY DEF Typed, TypeOK
  <2> QED
    BY <1>2, <1>4, <1>5, <2>1
<1>8. outputs' \in [Requests -> Nat]
  <2>1. outputs \in [Requests -> Nat]
    BY DEF Typed, TypeOK
  <2> QED
    BY <1>2, <2>1
<1>9. \A i \in 1..Len(s) : first_token_indexes'[i] = params.input_len + step'
  <2> TAKE i \in 1..Len(s)
  <2>1. first_token_indexes'[i] = PromptLen + outputs[request_id[s[i]]] + 1 - 1
    BY <1>2
  <2>2. first_token_indexes'[i] = PromptLen + (step + 1) + 1 - 1
    BY <1>4, <2>1
  <2>3. step' = step + 1
    BY <1>2
  <2> QED
    BY <1>3, <2>2, <2>3
<1>10. first_token_indexes' \in Seq(Nat)
  <2> DEFINE e(i) == PromptLen + outputs[request_id[s[i]]] + 1 - 1
  <2>1. \A i \in 1..Len(s) : e(i) \in Nat
    <3> TAKE i \in 1..Len(s)
    <3>1. e(i) = PromptLen + (step + 1) + 1 - 1
      BY <1>4
    <3> HIDE DEF e
    <3> QED
      BY <1>3, <3>1
  <2>2. first_token_indexes' = [i \in 1..Len(s) |-> e(i)]
    BY <1>2
  <2> HIDE DEF e
  <2> QED
    BY <1>3, <2>1, <2>2
<1>11. notdone' \in 0..n /\ slot' \in 1..notdone' + 1 /\ step' \in 0..params.num_decoding_step
  <2>1. step \in 0..params.num_decoding_step /\ step < params.num_decoding_step
    BY <1>2 DEF Typed, TypeOK, Rounds
  <2> QED
    BY <1>2, <1>3, <2>1
<1>12. TypeOK'
  BY <1>1, <1>2, <1>6, <1>7, <1>8, <1>10, <1>11 DEF Typed, TypeOK
<1>13. PhaseInv'
  BY <1>2 DEF Typed, PhaseInv
<1>14. ASSUME NEW i \in 1..Len(s) PROVE request_id'[i] = request_id[s[i]]
  <2>1. i \in Requests /\ i <= Len(s)
    BY <1>3, <1>4
  <2> QED
    BY <1>2, <2>1
<1>15. ASSUME NEW i \in 1..Len(s)
       PROVE  /\ outputs'[request_id'[i]] = step' + 1
              /\ \A j \in 1..Len(s) : request_id'[j] = request_id'[i] => j = i
  <2>1. request_id'[i] = request_id[s[i]] /\ s[i] \in 1..notdone
        /\ request_id[s[i]] \in Requests /\ outputs[request_id[s[i]]] = step + 1
    BY <1>4, <1>14
  <2>2. outputs'[request_id[s[i]]] = outputs[request_id[s[i]]] + 1
    BY <1>2, <2>1
  <2>3. outputs'[request_id'[i]] = step' + 1
    BY <1>2, <2>1, <2>2
  <2>4. ASSUME NEW j \in 1..Len(s), request_id'[j] = request_id'[i] PROVE j = i
    <3>1. request_id'[j] = request_id[s[j]] /\ s[j] \in 1..notdone
      BY <1>4, <1>14
    <3>2. s[j] = s[i]
      BY <2>1, <2>4, <3>1 DEF Typed, SlotInv
    <3>3. s[i] \in Nat /\ s[j] \in Nat
      BY <1>3, <2>1, <3>1
    <3>4. ~ (i < j) /\ ~ (j < i)
      BY <1>2, <3>2, <3>3 DEF Ascending
    <3> QED
      BY <1>3, <3>4
  <2> QED
    BY <2>3, <2>4
<1>16. SlotInv'
  BY <1>1, <1>2, <1>9, <1>15 DEF SlotInv
<1> QED
  BY <1>1, <1>12, <1>13, <1>16 DEF Typed, ParamsOK

\* Every step keeps the types.
LEMMA TypeNext == Typed /\ [Next]_vars => Typed'
BY TypeContextForward, TypeHandoff, TypeAllocateBlock, TypeNextSlot, TypeDecodeForward, TypeEnd
DEF Next

-----------------------------------------------------------------------------
(* Rows, counts and blocks.                                                *)

\* A table's row holds the blocks of a request.
RowHas(row, r) == \A j \in 1..allocated_block_cnt[r] : row[j] = given[r][j]

\* Every request has been given the blocks it is counted to have; they are in
\* its row of the context process's table, which is handed over, and in the row
\* of its slot.
RowInv ==
  /\ \A r \in Requests : /\ Len(given[r]) = allocated_block_cnt[r]
                         /\ dec = "receive" => RowHas(h_block_table[r], r)
  /\ \A i \in 1..notdone : RowHas(d_block_table[i], request_id[i])

\* The slots before the current one have all the blocks they need.
CountInv ==
  \A i \in 1..notdone : i < slot => allocated_block_cnt[request_id[i]] >= Needed(request_id[i])

\* If prompts fill their last block, no block number reaches the cache's size.
BlockInv ==
  params.input_len % params.block_size = 0 =>
    \A r \in Requests, j \in 1..max_num_block_per_req :
      /\ h_block_table[r][j] < context_block_size
      /\ params.num_decoding_step > 0 => d_block_table[r][j] < max_block_size

Inv == Typed /\ RowInv /\ CountInv /\ BlockInv

\* The invariant holds at the start.
LEMMA InvInit == Init => Inv
<1> SUFFICES ASSUME Init PROVE Inv
  OBVIOUS
<1>1. Typed
  BY TypeInit
<1>2. \A r \in Requests : /\ given[r] = <<>> /\ allocated_block_cnt[r] = 0
                          /\ h_block_table[r] = [j \in 1..max_num_block_per_req |-> NoBlock]
                          /\ d_block_table[r] = [j \in 1..max_num_block_per_req |-> NoBlock]
  BY DEF Init
<1>3. notdone = 0
  BY DEF Init
<1>4. RowInv /\ CountInv
  BY <1>2, <1>3 DEF RowInv, RowHas, CountInv
<1>5. 0 < context_block_size /\ 0 < max_block_size
  BY <1>1, SizesOrdered DEF Typed
<1>6. BlockInv
  BY <1>2, <1>5 DEF BlockInv, NoBlock
<1> QED
  BY <1>1, <1>4, <1>6 DEF Inv

\* The numbers of the prompts' blocks.
LEMMA PromptBlocks ==
  ASSUME ParamsOK, params.input_len % params.block_size = 0,
         NEW r \in Requests, NEW j \in 1..Blocks(PromptLen)
  PROVE  (r - 1) * Blocks(PromptLen) + j < context_block_size
<1> DEFINE n == params.batch_size  k == Blocks(PromptLen)
<1>1. n \in Nat \ {0} /\ k \in Nat /\ r \in 1..n /\ PromptLen \in Nat
  BY Options, SizesOrdered DEF Requests, PromptLen
<1>2. context_block_size = (k + 1) * n
  <2>1. Blocks(params.input_len + 1) = k + 1
    BY <1>1, BlocksOfFull DEF PromptLen
  <2> QED
    BY <2>1 DEF context_block_size
<1>3. j \in 1..k
  OBVIOUS
<1> HIDE DEF n, k
<1>4. r * k <= n * k /\ r * k \in Nat /\ n * k \in Nat
  BY <1>1, ProductGrows
<1>5. r * k = (r - 1) * k + k /\ (r - 1) * k \in Nat
  BY <1>1
<1>6. (k + 1) * n = n * k + n
  BY <1>1
<1>7. (r - 1) * k + j < (k + 1) * n
  BY <1>1, <1>3, <1>4, <1>5, <1>6
<1> QED
  BY <1>2, <1>7 DEF n, k

\* A forward pass of the context process keeps the rest of the invariant.
LEMMA InvContextForward ==
  ASSUME Inv, ContextForward
  PROVE  RowInv' /\ CountInv' /\ BlockInv'
<1> DEFINE w == max_num_block_per_req
           k == Blocks(PromptLen)
           block(r, j) == (r - 1) * k + j
<1>1. /\ params' = params /\ Requests' = Requests /\ context_block_size' = context_block_size
      /\ max_num_block_per_req' = w /\ max_block_size' = max_block_size
  BY SizesStay DEF Next
<1>2. UNCHANGED <<dec, decVars>> /\ dec = "receive" /\ notdone = 0
  BY DEF ContextForward, Inv, Typed, PhaseInv
<1>3. k \in Nat /\ w \in Nat /\ k <= w /\ context_block_size \in Nat \ {0}
  BY SizesOrdered DEF Inv, Typed
<1>4. params.input_len % params.block_size = 0 =>
        \A r \in Requests, j \in 1..k : block(r, j) < context_block_size
  BY PromptBlocks DEF Inv, Typed
<1> HIDE DEF k, block, w
<1>5. \/ UNCHANGED <<h_block_table, allocated_block_cnt, given>>
      \/ /\ h_block_table' = [r \in Requests |-> [j \in 1..w |->
                                IF j <= k THEN block(r, j) ELSE NoBlock]]
         /\ allocated_block_cnt' = [r \in Requests |-> k]
         /\ given' = [r \in Requests |-> [j \in 1..k |-> block(r, j)]]
  BY DEF ContextForward, k, block, w
<1>6. CASE UNCHANGED <<h_block_table, allocated_block_cnt, given>>
  BY <1>1, <1>2, <1>6 DEF Inv, RowInv, RowHas, CountInv, BlockInv, decVars, w
<1>7. CASE /\ h_block_table' = [r \in Requests |-> [j \in 1..w |->
                                  IF j <= k THEN block(r, j) ELSE NoBlock]]
           /\ allocated_block_cnt' = [r \in Requests |-> k]
           /\ given' = [r \in Requests |-> [j \in 1..k |-> block(r, j)]]
  <2>1. notdone' = 0
    BY <1>2 DEF decVars
  <2>2. ASSUME NEW r \in Requests
        PROVE  /\ Len(given'[r]) = allocated_block_cnt'[r]
               /\ \A j \in 1..allocated_block_cnt'[r] : h_block_table'[r][j] = given'[r][j]
    <3>1. given'[r] = [j \in 1..k |-> block(r, j)] /\ allocated_block_cnt'[r] = k
          /\ h_block_table'[r] = [j \in 1..w |-> IF j <= k THEN block(r, j) ELSE NoBlock]
      BY <1>7
    <3>2. Len([j \in 1..k |-> block(r, j)]) = k
      BY <1>3
    <3>3. \A j \in 1..k : j \in 1..w /\ j <= k
      BY <1>3
    <3> QED
      BY <3>1, <3>2, <3>3
  <2>3. RowInv'
    BY <1>1, <2>1, <2>2 DEF RowInv, RowHas
  <2>4. CountInv'
    BY <2>1 DEF CountInv
  <2>5. BlockInv'
    <3> SUFFICES ASSUME params.input_len % params.block_size = 0,
                        NEW r \in Requests, NEW j \in 1..w
                 PROVE  /\ h_block_table'[r][j] < context_block_size
                        /\ params.num_decoding_step > 0 => d_block_table'[r][j] < max_block_size
      BY <1>1 DEF BlockInv
    <3>1. params.num_decoding_step > 0 => d_block_table'[r][j] < max_block_size
      BY <1>2 DEF decVars, Inv, BlockInv, w
    <3>2. h_block_table'[r][j] = IF j <= k THEN block(r, j) ELSE NoBlock
      BY <1>7
    <3>3. j <= k => j \in 1..k
      BY <1>3
    <3>4. h_block_table'[r][j] < context_block_size
      BY <1>3, <1>4, <3>2, <3>3 DEF NoBlock
    <3> QED
      BY <3>1, <3>4
  <2> QED
    BY <2>3, <2>4, <2>5
<1> QED
  BY <1>5, <1>6, <1>7

\* The handoff keeps the rest of the invariant.
LEMMA InvHandoff ==
  ASSUME Inv, Handoff
  PROVE  RowInv' /\ CountInv' /\ BlockInv'
<1> DEFINE n == params.batch_size
<1>1. /\ params' = params /\ Requests' = Requests /\ context_block_size' = context_block_size
      /\ max_num_block_per_req' = max_num_block_per_req /\ max_block_size' = max_block_size
  BY SizesStay DEF Next
<1>2. /\ dec = "receive" /\ dec' = "decode" /\ d_block_table' = h_block_table
      /\ request_id' = [i \in Requests |-> i] /\ notdone' = n /\ slot' = 1
      /\ UNCHANGED <<params, h_block_table, allocated_block_cnt, given>>
  BY DEF Handoff
<1>3. Requests = 1..n /\ n \in Nat
  BY Options DEF Requests, Inv, Typed
<1>4. RowInv'
  BY <1>1, <1>2, <1>3 DEF Inv, RowInv, RowHas
<1>5. CountInv'
  BY <1>2, <1>3 DEF CountInv
<1>6. BlockInv'
  <2> SUFFICES ASSUME params.input_len % params.block_size = 0,
                      NEW r \in Requests, NEW j \in 1..max_num_block_per_req
               PROVE  /\ h_block_table[r][j] < context_block_size
                      /\ params.num_decoding_step > 0 => h_block_table[r][j] < max_block_size
    BY <1>1, <1>2 DEF BlockInv
  <2>1. h_block_table[r][j] < context_block_size
    BY DEF Inv, BlockInv
  <2>2. /\ context_block_size \in Nat /\ max_block_size \in Nat
        /\ params.num_decoding_step > 0 => context_block_size <= max_block_size
    BY SizesOrdered DEF Inv, Typed
  <2>3. h_block_table[r][j] \in Nat
    <3>1. h_block_table \in [Requests -> Row]
      BY DEF Inv, Typed, TypeOK
    <3>2. h_block_table[r] \in Row
      BY <3>1
    <3> QED
      BY <3>2 DEF Row
  <2> QED
    BY <2>1, <2>2, <2>3
<1> QED
  BY <1>4, <1>5, <1>6

\* Allocating a block keeps the rest of the invariant.
LEMMA InvAllocateBlock ==
  ASSUME Inv, AllocateBlock
  PROVE  RowInv' /\ CountInv' /\ BlockInv'
<1> DEFINE r == request_id[slot]
           new == num_allocated_blocks + 1
           w == max_num_block_per_req
           o == allocated_block_cnt[r]
           c == o + 1
<1>1. /\ params' = params /\ Requests' = Requests /\ context_block_size' = context_block_size
      /\ max_num_block_per_req' = w /\ max_block_size' = max_block_size
      /\ PromptLen' = PromptLen
  BY SizesStay DEF Next
<1>2. /\ slot <= notdone /\ dec = "decode" /\ o < Needed(r)
      /\ UNCHANGED <<params, ctx, h_block_table, request_id, notdone, outputs,
                     first_token_indexes, step, slot>>
  BY DEF AllocateBlock
<1>3. slot \in 1..notdone
  <2>1. slot \in 1..notdone + 1 /\ notdone \in 0..params.batch_size
        /\ params.batch_size \in Nat
    BY Options DEF Inv, Typed, TypeOK
  <2> QED
    BY <1>2, <2>1
<1>4. r \in Requests /\ slot \in Requests
  BY <1>3, SlotTypes DEF Inv, Typed
<1>5. /\ d_block_table \in [Requests -> Row] /\ given \in [Requests -> Seq(Nat)]
      /\ allocated_block_cnt \in [Requests -> 0..w] /\ new \in Nat /\ w \in Nat
  BY SizesOrdered DEF Inv, Typed, TypeOK
<1>6. o \in Nat /\ Len(given[r]) = o /\ given[r] \in Seq(Nat) /\ d_block_table[slot] \in Row
  BY <1>4, <1>5 DEF Inv, RowInv
<1>7. \/ dec' = "exit" /\ UNCHANGED <<d_block_table, allocated_block_cnt, given>>
      \/ /\ ~ (new >= max_block_size)
         /\ d_block_table' = [d_block_table EXCEPT ![slot][c] = new]
         /\ allocated_block_cnt' = [allocated_block_cnt EXCEPT ![r] = c]
         /\ given' = [given EXCEPT ![r] = Append(given[r], new)] /\ dec' = dec
  BY DEF AllocateBlock, PutBlock
<1>8. \A i \in 1..notdone : Needed(request_id[i])' = Needed(request_id[i])
  BY <1>1, <1>2 DEF Needed, Blocks
<1>9. c \in 1..w
  <2>1. Needed(r) \in Nat /\ Needed(r) <= w
    BY <1>3, NeededFits DEF Inv, AllocateBlock
  <2> HIDE DEF r, o
  <2> QED
    BY <1>2, <1>5, <1>6, <2>1
<1> HIDE DEF r, new, o, c, w
<1>10. CASE dec' = "exit" /\ UNCHANGED <<d_block_table, allocated_block_cnt, given>>
  <2>1. RowInv' /\ BlockInv'
    BY <1>1, <1>2, <1>10 DEF Inv, RowInv, RowHas, BlockInv, w
  <2>2. CountInv'
    BY <1>2, <1>8, <1>10 DEF Inv, CountInv
  <2> QED
    BY <2>1, <2>2
<1>11. CASE /\ ~ (new >= max_block_size)
            /\ d_block_table' = [d_block_table EXCEPT ![slot][c] = new]
            /\ allocated_block_cnt' = [allocated_block_cnt EXCEPT ![r] = c]
            /\ given' = [given EXCEPT ![r] = Append(given[r], new)] /\ dec' = dec
  <2>1. /\ given'[r] = Append(given[r], new) /\ allocated_block_cnt'[r] = c
        /\ \A q \in Requests \ {r} : given'[q] = given[q]
                                     /\ allocated_block_cnt'[q] = allocated_block_cnt[q]
    BY <1>4, <1>5, <1>11
  <2>2. /\ d_block_table'[slot] = [d_block_table[slot] EXCEPT ![c] = new]
        /\ \A i \in Requests \ {slot} : d_block_table'[i] = d_block_table[i]
    BY <1>4, <1>5, <1>11
  <2>3. Len(given'[r]) = c /\ given'[r][c] = new /\ \A j \in 1..o : given'[r][j] = given[r][j]
    BY <1>5, <1>6, <2>1 DEF c
  <2>4. d_block_table'[slot][c] = new
        /\ \A j \in 1..w : j # c => d_block_table'[slot][j] = d_block_table[slot][j]
    BY <1>6, <1>9, <2>2 DEF Row, w
  <2>5. ASSUME NEW i \in 1..notdone
        PROVE  \A j \in 1..allocated_block_cnt'[request_id[i]] :
                 d_block_table'[i][j] = given'[request_id[i]][j]
    <3>1. i \in Requests /\ request_id[i] \in Requests
      BY SlotTypes DEF Inv, Typed
    <3>2. \A j \in 1..allocated_block_cnt[request_id[i]] :
            d_block_table[i][j] = given[request_id[i]][j]
      BY DEF Inv, RowInv, RowHas
    <3>3. CASE i # slot
      <4>1. request_id[i] # r
        BY <1>3, <3>3 DEF r, Inv, Typed, SlotInv
      <4>2. /\ given'[request_id[i]] = given[request_id[i]]
            /\ allocated_block_cnt'[request_id[i]] = allocated_block_cnt[request_id[i]]
            /\ d_block_table'[i] = d_block_table[i]
        BY <2>1, <2>2, <3>1, <3>3, <4>1
      <4> QED
        BY <3>2, <4>2
    <3>4. CASE i = slot
      <4>1. request_id[i] = r
        BY <3>4 DEF r
      <4>2. ASSUME NEW j \in 1..c PROVE d_block_table'[slot][j] = given'[r][j]
        <5>1. CASE j = c
          BY <2>3, <2>4, <5>1
        <5>2. CASE j # c
          <6>1. j \in 1..o /\ j \in 1..w
            BY <1>6, <1>9, <5>2, <1>5 DEF c
          <6>2. d_block_table[slot][j] = given[r][j]
            BY <3>2, <3>4, <4>1, <6>1 DEF o
          <6> QED
            BY <2>3, <2>4, <5>2, <6>1, <6>2
        <5> QED
          BY <5>1, <5>2
      <4> QED
        BY <2>1, <3>4, <4>1, <4>2
    <3> QED
      BY <3>3, <3>4
  <2>6. ASSUME NEW q \in Requests PROVE Len(given'[q]) = allocated_block_cnt'[q]
    <3>1. CASE q = r
      BY <2>1, <2>3, <3>1
    <3>2. CASE q # r
      BY <2>1, <3>2 DEF Inv, RowInv
    <3> QED
      BY <3>1, <3>2
  <2>7. RowInv'
    <3>1. dec' # "receive"
      BY <1>2, <1>11
    <3>2. \A i \in 1..notdone' : RowHas(d_block_table[i], request_id[i])'
      BY <1>2, <2>5 DEF RowHas
    <3> QED
      BY <1>1, <2>6, <3>1, <3>2 DEF RowInv
  <2>8. CountInv'
    <3> SUFFICES ASSUME NEW i \in 1..notdone, i < slot
                 PROVE  allocated_block_cnt'[request_id[i]] >= Needed(request_id[i])
      BY <1>2, <1>8 DEF CountInv
    <3>1. i \in Requests /\ request_id[i] \in Requests
      BY SlotTypes DEF Inv, Typed
    <3>2. request_id[i] # r
      <4>1. i # slot
        BY <1>3
      <4> QED
        BY <1>3, <4>1 DEF r, Inv, Typed, SlotInv
    <3>3. allocated_block_cnt'[request_id[i]] = allocated_block_cnt[request_id[i]]
      BY <2>1, <3>1, <3>2
    <3> QED
      BY <3>3 DEF Inv, CountInv
  <2>9. BlockInv'
    <3> SUFFICES ASSUME params.input_len % params.block_size = 0,
                        NEW q \in Requests, NEW j \in 1..w
                 PROVE  /\ h_block_table[q][j] < context_block_size
                        /\ params.num_decoding_step > 0 => d_block_table'[q][j] < max_block_size
      BY <1>1, <1>2 DEF BlockInv
    <3>1. /\ h_block_table[q][j] < context_block_size
          /\ params.num_decoding_step > 0 => d_block_table[q][j] < max_block_size
      BY DEF Inv, BlockInv, w
    <3>2. new < max_block_size
      <4>1. max_block_size \in Nat
        BY SizesOrdered DEF Inv, Typed
      <4> QED
        BY <1>5, <1>11, <4>1
    <3>3. d_block_table'[q][j] = new \/ d_block_table'[q][j] = d_block_table[q][j]
      <4>1. CASE q = slot
        BY <2>4, <4>1
      <4>2. CASE q # slot
        BY <2>2, <4>2
      <4> QED
        BY <4>1, <4>2
    <3> QED
      BY <3>1, <3>2, <3>3
  <2> QED
    BY <2>7, <2>8, <2>9
<1> QED
  BY <1>7, <1>10, <1>11

\* Moving on to the next slot keeps the rest of the invariant.
LEMMA InvNextSlot ==
  ASSUME Inv, NextSlot
  PROVE  RowInv' /\ CountInv' /\ BlockInv'
<1>1. /\ params' = params /\ Requests' = Requests /\ context_block_size' = context_block_size
      /\ max_num_block_per_req' = max_num_block_per_req /\ max_block_size' = max_block_size
      /\ PromptLen' = PromptLen
  BY SizesStay DEF Next
<1>2. /\ slot' = slot + 1 /\ slot <= notdone
      /\ allocated_block_cnt[request_id[slot]] >= Needed(request_id[slot])
      /\ UNCHANGED <<params, ctx, dec, h_block_table, d_block_table,
                 allocated_block_cnt, num_allocated_blocks, request_id, notdone,
                 outputs, first_token_indexes, step, given>>
  BY DEF NextSlot
<1>3. RowInv' /\ BlockInv'
  BY <1>1, <1>2 DEF Inv, RowInv, RowHas, BlockInv
<1>4. \A i \in 1..notdone : Needed(request_id[i])' = Needed(request_id[i])
  BY <1>1, <1>2 DEF Needed, Blocks
<1>5. slot \in Nat /\ notdone \in Nat
  <2>1. slot \in 1..notdone + 1 /\ notdone \in 0..params.batch_size
        /\ params.batch_size \in Nat
    BY Options DEF Inv, Typed, TypeOK
  <2> QED
    BY <2>1
<1>6. ASSUME NEW i \in 1..notdone, i < slot + 1
      PROVE  allocated_block_cnt[request_id[i]] >= Needed(request_id[i])
  <2>1. i = slot \/ i < slot
    BY <1>5, <1>6
  <2> QED
    BY <1>2, <2>1 DEF Inv, CountInv
<1>7. CountInv'
  BY <1>2, <1>4, <1>6 DEF CountInv
<1> QED
  BY <1>3, <1>7

\* A decode step and its compaction keep the rest of the invariant.
LEMMA InvDecodeForward ==
  ASSUME Inv, NEW ended \in SUBSET (1..notdone), DecodeForward(ended)
  PROVE  RowInv' /\ CountInv' /\ BlockInv'
<1>1. /\ params' = params /\ Requests' = Requests /\ context_block_size' = context_block_size
      /\ max_num_block_per_req' = max_num_block_per_req /\ max_block_size' = max_block_size
  BY SizesStay DEF Next
<1>2. PICK s :
    /\ Ascending(s, notdone)
    /\ notdone' = Len(s) /\ notdone' \in 0..notdone
    /\ request_id' = [i \in Requests |->
         IF i <= Len(s) THEN request_id[s[i]] ELSE request_id[i]]
    /\ d_block_table' = [i \in Requests |->
         IF i <= Len(s) THEN d_block_table[s[i]] ELSE d_block_table[i]]
    /\ first_token_indexes' =
         [i \in 1..Len(s) |-> PromptLen + outputs[request_id[s[i]]] + 1 - 1]
    /\ outputs' = [r \in Requests |->
         IF r \in {request_id[i] : i \in 1..notdone} THEN outputs[r] + 1 ELSE outputs[r]]
    /\ step' = step + 1 /\ slot' = 1 /\ slot > notdone /\ Rounds /\ dec = "decode"
    /\ UNCHANGED <<params, ctx, dec, h_block_table, allocated_block_cnt,
                   num_allocated_blocks, given>>
  BY RoundEnds DEF Inv
<1>3. notdone \in 0..params.batch_size /\ params.batch_size \in Nat /\ Len(s) \in Nat
      /\ Requests = 1..params.batch_size /\ Len(s) <= notdone
  BY <1>2, Options DEF Inv, Typed, TypeOK, Requests, Ascending
<1>4. ASSUME NEW i \in 1..Len(s)
      PROVE  /\ s[i] \in 1..notdone /\ i \in Requests /\ i <= Len(s)
             /\ request_id'[i] = request_id[s[i]] /\ d_block_table'[i] = d_block_table[s[i]]
  <2>1. s[i] \in 1..notdone
    BY <1>2 DEF Ascending
  <2>2. i \in Requests /\ i <= Len(s)
    BY <1>3
  <2> QED
    BY <1>2, <2>1, <2>2
<1>5. RowInv'
  <2>1. \A i \in 1..Len(s) : RowHas(d_block_table[s[i]], request_id[s[i]])
    BY <1>4 DEF Inv, RowInv
  <2> QED
    BY <1>1, <1>2, <1>4, <2>1 DEF Inv, RowInv, RowHas
<1>6. CountInv'
  <2>1. \A i \in 1..notdone' : ~ (i < slot')
    BY <1>2, <1>3
  <2> QED
    BY <2>1 DEF CountInv
<1>7. BlockInv'
  <2> SUFFICES ASSUME params.input_len % params.block_size = 0,
                      NEW q \in Requests, NEW j \in 1..max_num_block_per_req
               PROVE  /\ h_block_table[q][j] < context_block_size
                      /\ params.num_decoding_step > 0 => d_block_table'[q][j] < max_block_size
    BY <1>1, <1>2 DEF BlockInv
  <2>1. \A i \in Requests : /\ h_block_table[i][j] < context_block_size
                            /\ params.num_decoding_step > 0 => d_block_table[i][j] < max_block_size
    BY DEF Inv, BlockInv
  <2>2. \E i \in Requests : d_block_table'[q] = d_block_table[i]
    <3>1. CASE q <= Len(s)
      <4>1. q \in 1..Len(s)
        BY <1>3, <3>1
      <4>2. s[q] \in Requests
        BY <1>3, <1>4, <4>1
      <4> QED
        BY <1>4, <4>1, <4>2
    <3>2. CASE ~ (q <= Len(s))
      BY <1>2, <3>2
    <3> QED
      BY <3>1, <3>2
  <2> QED
    BY <2>1, <2>2
<1> QED
  BY <1>5, <1>6, <1>7

\* The end of the decode process keeps the rest of the invariant.
LEMMA InvEnd ==
  ASSUME Inv, DecodeDone \/ Barrier \/ UNCHANGED vars
  PROVE  RowInv' /\ CountInv' /\ BlockInv'
<1>1. /\ params' = params /\ Requests' = Requests /\ context_block_size' = context_block_size
      /\ max_num_block_per_req' = max_num_block_per_req /\ max_block_size' = max_block_size
      /\ PromptLen' = PromptLen
  BY SizesStay DEF Next
<1>2. /\ UNCHANGED <<h_block_table, allocated_block_cnt, d_block_table, num_allocated_blocks,
                     request_id, notdone, outputs, first_token_indexes, step, slot, given>>
      /\ dec' = "receive" => dec = "receive"
  BY DEF DecodeDone, Barrier, vars, decVars
<1>3. RowInv' /\ BlockInv'
  BY <1>1, <1>2 DEF Inv, RowInv, RowHas, BlockInv
<1>4. \A i \in 1..notdone : Needed(request_id[i])' = Needed(request_id[i])
  BY <1>1, <1>2 DEF Needed, Blocks
<1>5. CountInv'
  BY <1>2, <1>4 DEF Inv, CountInv
<1> QED
  BY <1>3, <1>5

\* Every step keeps the invariant.
LEMMA InvNext == Inv /\ [Next]_vars => Inv'
<1> SUFFICES ASSUME Inv, [Next]_vars PROVE Inv'
  OBVIOUS
<1>1. Typed'
  BY TypeNext DEF Inv
<1>2. RowInv' /\ CountInv' /\ BlockInv'
  BY InvContextForward, InvHandoff, InvAllocateBlock, InvNextSlot, InvDecodeForward, InvEnd
  DEF Next
<1> QED
  BY <1>1, <1>2 DEF Inv

\* The invariant holds of every reachable state.
LEMMA InvAlways == Spec => []Inv
BY InvInit, InvNext, PTL DEF Spec

-----------------------------------------------------------------------------
(***************************************************************************)
(* Every variable keeps its type; above all a request never has more       *)
(* blocks than its row of the table has room for.                          *)
(***************************************************************************)
THEOREM OfflineTypes == Spec => []TypeOK
<1>1. Inv => TypeOK
  BY DEF Inv, Typed
<1> QED
  BY <1>1, InvAlways, PTL

(***************************************************************************)
(* Rows are found by slot and counts by request; whichever requests end    *)
(* when, a slot's row holds the blocks of the slot's request.              *)
(***************************************************************************)
THEOREM RowsAlwaysFollow == Spec => []RowsFollowRequests
<1>1. Inv => RowsFollowRequests
  <2> SUFFICES ASSUME Inv, NEW i \in 1..notdone
               PROVE  LET r == request_id[i] IN
                        /\ SubSeq(d_block_table[i], 1, allocated_block_cnt[r]) = given[r]
                        /\ \A j \in 1..notdone : request_id[j] = r => j = i
    BY DEF RowsFollowRequests
  <2> DEFINE r == request_id[i]
             row == d_block_table[i]
             c == allocated_block_cnt[r]
             w == max_num_block_per_req
             t == SubSeq(row, 1, c)
             g == given[r]
  <2>1. i \in Requests /\ r \in Requests
    BY SlotTypes DEF Inv, Typed
  <2>2. \A j \in 1..notdone : request_id[j] = r => j = i
    BY DEF Inv, Typed, SlotInv
  <2>3. row \in Row /\ c \in 0..w /\ g \in Seq(Nat) /\ w \in Nat
    BY <2>1, SizesOrdered DEF Inv, Typed, TypeOK
  <2>4. Len(g) = c /\ \A j \in 1..c : row[j] = g[j]
    BY <2>1 DEF Inv, RowInv, RowHas
  <2> HIDE DEF row, c, w, g
  <2>5. row \in Seq(Nat) /\ Len(row) = w
    BY <2>3 DEF Row, w
  <2>6. t \in Seq(Nat) /\ Len(t) = c /\ \A j \in 1..c : t[j] = row[j]
    BY <2>3, <2>5
  <2> HIDE DEF t
  <2>7. t = g
    BY <2>3, <2>4, <2>6, SeqEqual
  <2> QED
    BY <2>2, <2>7 DEF t, row, c, g
<1> QED
  BY <1>1, InvAlways, PTL

(***************************************************************************)
(* When a forward pass of the decode process starts, the position of its   *)
(* input token is within the blocks of the request, and these are within   *)
(* the row.                                                                *)
(***************************************************************************)
THEOREM TokenAlwaysHasBlock == Spec => []TokenHasBlock
<1>1. Inv => TokenHasBlock
  <2> SUFFICES ASSUME Inv, slot > notdone, NEW i \in 1..notdone
               PROVE  LET r == request_id[i] IN
                        /\ first_token_indexes[i] \div params.block_size < allocated_block_cnt[r]
                        /\ allocated_block_cnt[r] <= max_num_block_per_req
    BY DEF TokenHasBlock
  <2> DEFINE r == request_id[i]
             c == allocated_block_cnt[r]
             x == params.input_len + step
             q == x \div params.block_size
  <2>1. i \in Requests /\ r \in Requests
    BY SlotTypes DEF Inv, Typed
  <2>2. c \in 0..max_num_block_per_req /\ max_num_block_per_req \in Nat
    BY <2>1, SizesOrdered DEF Inv, Typed, TypeOK
  <2>3. outputs[r] = step + 1 /\ first_token_indexes[i] = x
    BY DEF Inv, Typed, SlotInv
  <2>4. params.input_len \in Nat /\ step \in Nat /\ params.num_decoding_step \in Nat
    BY Options DEF Inv, Typed, TypeOK
  <2>5. x \in Nat /\ params.input_len + (step + 1) = x + 1
    BY <2>4
  <2>6. i < slot
    <3>1. notdone \in Nat /\ slot \in Nat
      <4>1. slot \in 1..notdone + 1 /\ notdone \in 0..params.batch_size
            /\ params.batch_size \in Nat
        BY Options DEF Inv, Typed, TypeOK
      <4> QED
        BY <4>1
    <3> QED
      BY <3>1
  <2>7. c >= Needed(r)
    BY <2>6 DEF Inv, CountInv
  <2>8. Needed(r) = Blocks(x + 1)
    BY <2>3, <2>5 DEF Needed, PromptLen
  <2>9. q \in Nat /\ Blocks(x + 1) = q + 1
    BY <2>5, BlocksReach DEF Inv, Typed
  <2>10. first_token_indexes[i] \div params.block_size = q
    BY <2>3
  <2> HIDE DEF c, q, x
  <2>11. q < c /\ c <= max_num_block_per_req
    BY <2>2, <2>7, <2>8, <2>9
  <2> QED
    BY <2>10, <2>11 DEF c
<1> QED
  BY <1>1, InvAlways, PTL

(***************************************************************************)
(* With prompts that fill their last block, block numbers stay below the   *)
(* size of the cache they index, in the context process and, as long as it *)
(* decodes, in the decode process, whose cache may be no greater.          *)
(***************************************************************************)
THEOREM CacheAlwaysHolds == Spec => []CacheHolds
<1>1. Inv => CacheHolds
  <2> SUFFICES ASSUME Inv, params.input_len % params.block_size = 0
               PROVE  /\ \A r \in Requests, j \in 1..max_num_block_per_req :
                           h_block_table[r][j] < context_block_size
                      /\ Rounds => \A r \in Requests, j \in 1..max_num_block_per_req :
                           d_block_table[r][j] < max_block_size
    BY DEF CacheHolds
  <2>1. Rounds => params.num_decoding_step > 0
    BY Options DEF Inv, Typed, TypeOK, Rounds
  <2> QED
    BY <2>1 DEF Inv, BlockInv
<1> QED
  BY <1>1, InvAlways, PTL
==============================================================================
