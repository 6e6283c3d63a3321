-------------------------- MODULE NicMonitorProofs --------------------------
(***************************************************************************)
(* Theorems about NicMonitor, for every number of NICs and channels, every *)
(* timeout and every duration of a sweep.                                  *)
(***************************************************************************)
EXTENDS NicMonitor, WellFoundedInduction, TLAPS

-----------------------------------------------------------------------------
(***************************************************************************)
(* Max and Min of what the module takes them of.                           *)
(***************************************************************************)

\* The loop of getIdleNic* ends at a NIC that was idle, if there was one.
LEMMA MaxOfNics ==
  ASSUME NEW S \in SUBSET Nics, S # {}
  PROVE  Max(S) \in S
<1> DEFINE Below == {NGroups - 1 - x : x \in S}
           R == OpToRel(<, Nat)
<1>1. NGroups \in Nat \ {0} /\ \A x \in S : x \in Nat /\ x <= NGroups - 1
  BY ConstantsOK DEF Nics
<1>2. Below \subseteq Nat /\ Below # {}
  BY <1>1
<1>3. \E x \in Below : \A y \in Below : ~ (<<y, x>> \in R)
  <2>1. IsWellFoundedOn(R, Nat)
    BY NatLessThanWellFounded
  <2> HIDE DEF Below, R
  <2> QED
    BY <1>2, <2>1, WFMin
<1>4. PICK b \in Below : \A y \in Below : ~ (y < b)
  BY <1>2, <1>3 DEF OpToRel
<1>5. PICK m \in S : b = NGroups - 1 - m
  BY <1>4
<1>6. \A x \in S : m >= x
  <2> SUFFICES ASSUME NEW x \in S PROVE m >= x
    OBVIOUS
  <2>1. ~ (NGroups - 1 - x < NGroups - 1 - m)
    BY <1>4, <1>5
  <2> QED
    BY <1>1, <2>1
<1> QED
  BY <1>5, <1>6 DEF Max

\* An age does not pass the oldest age that is told apart.
LEMMA MinOfTwo ==
  ASSUME NEW a \in Nat, NEW b \in Nat
  PROVE  Min({a, b}) = IF a <= b THEN a ELSE b
<1> DEFINE m == IF a <= b THEN a ELSE b
<1>1. m \in {a, b} /\ \A y \in {a, b} : m =< y
  OBVIOUS
<1>2. \A x \in {a, b} : (\A y \in {a, b} : x =< y) => x = m
  OBVIOUS
<1> HIDE DEF m
<1>3. Min({a, b}) = m
  BY <1>1, <1>2 DEF Min
<1> QED
  BY <1>3 DEF m

\* idle_nic_id is -1 or a NIC that was idle.
LEMMA IdleNicType ==
  ASSUME NEW idle \in SUBSET Nics
  PROVE  IdleNic(idle) = NoNic \/ IdleNic(idle) \in idle
BY MaxOfNics DEF IdleNic

\* The oldest age is one that the timeout and a whole sweep tell apart.
LEMMA Ages == Timeout \in Nat \ {0} /\ MaxSweep \in Nat /\ NGroups \in Nat \ {0}
              /\ MaxAge = Timeout + MaxSweep /\ MaxAge \in Nat
BY ConstantsOK DEF MaxAge

\* A tick makes every age one more, up to the oldest.
LEMMA Older ==
  ASSUME NEW a \in 0..MaxAge
  PROVE  /\ Min({a + 1, MaxAge}) \in 0..MaxAge
         /\ a >= Timeout => Min({a + 1, MaxAge}) >= Timeout
<1>1. a \in Nat /\ a <= MaxAge /\ a + 1 \in Nat
  BY Ages
<1>2. Min({a + 1, MaxAge}) = IF a + 1 <= MaxAge THEN a + 1 ELSE MaxAge
  BY <1>1, Ages, MinOfTwo
<1> QED
  BY <1>1, <1>2, Ages

-----------------------------------------------------------------------------
(***************************************************************************)
(* Types.  No call gives a channel a NIC the machine has not, and the      *)
(* monitor's loop stays within the groups.                                 *)
(***************************************************************************)
THEOREM TypesHold == Spec => []TypeOK
<1>1. Init => TypeOK
  BY Ages, ConstantsOK DEF Init, TypeOK, Nics, NoNic
<1>2. TypeOK /\ [Next]_vars => TypeOK'
  <2> SUFFICES ASSUME TypeOK, [Next]_vars PROVE TypeOK'
    OBVIOUS
  <2>1. ASSUME NEW w \in Dirs, NEW group, NEW c \in Channels, GetIdleNic(w, group, c)
        PROVE  TypeOK'
    <3> DEFINE idle == {n \in Nics \ {group} : status[w][n] = "idle"}
    <3>1. IdleNic(idle) = NoNic \/ IdleNic(idle) \in Nics
      BY IdleNicType
    <3>2. status' \in [Dirs -> [Nics -> {"idle", "busy", "borrowed"}]]
      BY <2>1 DEF GetIdleNic, Borrow, TypeOK
    <3>3. dev' \in [Channels -> Nics \cup {NoNic}]
      BY <2>1, <3>1 DEF GetIdleNic, TypeOK
    <3> QED
      BY <2>1, <3>2, <3>3 DEF GetIdleNic, TypeOK
  <2>2. ASSUME NEW c \in Channels, RefreshTx(c) \/ RefreshRx(c)
        PROVE  TypeOK'
    BY <2>1, <2>2 DEF RefreshTx, RefreshRx, Dirs
  <2>3. ASSUME NEW w \in Dirs, NEW c \in Channels, UpdateActive(w, c)
        PROVE  TypeOK'
    BY <2>3, Ages DEF UpdateActive, Mark, TypeOK
  <2>4. ASSUME NEW w \in Dirs, NEW group \in Nics, NEW n \in Nics \cup {NoNic},
               DieBorrowing(w, group, n)
        PROVE  TypeOK'
    BY <2>4 DEF DieBorrowing, Borrow, TypeOK
  <2>5. ASSUME NEW w \in Dirs, NEW c \in Channels, DieMarking(w, c)
        PROVE  TypeOK'
    BY <2>5, Ages DEF DieMarking, TypeOK
  <2>6. CASE SweepStart
    BY <2>6, Ages DEF SweepStart, TypeOK
  <2>7. CASE SweepGroup
    <3>1. sweep' \in 0..NGroups
      BY <2>7, Ages DEF SweepGroup, TypeOK
    <3> QED
      BY <2>7, <3>1 DEF SweepGroup, TypeOK
  <2>8. CASE Tick
    <3>1. age' \in [Dirs -> [Nics -> 0..MaxAge]]
      BY <2>8, Older DEF Tick, TypeOK
    <3>2. sweepAge' \in 0..MaxSweep
      BY <2>8, Ages DEF Tick, TypeOK
    <3> QED
      BY <2>8, <3>1, <3>2 DEF Tick, TypeOK
  <2>9. CASE UNCHANGED vars
    BY <2>9 DEF vars, TypeOK
  <2> QED
    BY <2>2, <2>3, <2>4, <2>5, <2>6, <2>7, <2>8, <2>9 DEF Next
<1> QED
  BY <1>1, <1>2, PTL DEF Spec

-----------------------------------------------------------------------------
(***************************************************************************)
(* A NIC that was active less than the timeout ago is not idle, so never   *)
(* lent, although the monitor compares with a time it read before clients  *)
(* marked their NICs and before it waited for the semaphore.               *)
(***************************************************************************)
THEOREM IdleAlwaysQuiet == Spec => []IdleMeansQuiet
<1>1. Init => IdleMeansQuiet
  BY Ages DEF Init, IdleMeansQuiet
<1>2. TypeOK /\ IdleMeansQuiet /\ [Next]_vars => IdleMeansQuiet'
  <2> SUFFICES ASSUME TypeOK, IdleMeansQuiet, [Next]_vars PROVE IdleMeansQuiet'
    OBVIOUS
  <2>1. ASSUME NEW w \in Dirs, NEW group, NEW c \in Channels, GetIdleNic(w, group, c)
        PROVE  IdleMeansQuiet'
    BY <2>1 DEF GetIdleNic, Borrow, TypeOK, IdleMeansQuiet
  <2>2. ASSUME NEW w \in Dirs, NEW c \in Channels, UpdateActive(w, c)
        PROVE  IdleMeansQuiet'
    BY <2>2 DEF UpdateActive, Mark, TypeOK, IdleMeansQuiet
  <2>3. CASE \/ \E w \in Dirs, group \in Nics, n \in Nics \cup {NoNic} :
                    DieBorrowing(w, group, n)
             \/ \E w \in Dirs, c \in Channels : DieMarking(w, c)
    BY <2>3 DEF DieBorrowing, DieMarking, IdleMeansQuiet
  <2>4. CASE SweepStart
    BY <2>4 DEF SweepStart, IdleMeansQuiet
  <2>5. CASE SweepGroup
    <3> SUFFICES ASSUME NEW w \in Dirs, NEW n \in Nics, status'[w][n] = "idle"
                 PROVE  age'[w][n] >= Timeout
      BY DEF IdleMeansQuiet
    <3>1. age'[w][n] = age[w][n] /\ age[w][n] \in Nat /\ sweepAge \in Nat
      BY <2>5, Ages DEF SweepGroup, TypeOK
    <3>2. status'[w] = [status[w] EXCEPT ![sweep] = IF Quiet(w, sweep) THEN "idle" ELSE @]
      BY <2>5 DEF SweepGroup
    <3>3. CASE n = sweep /\ Quiet(w, sweep)
      BY <2>5, <3>1, <3>3, Ages DEF Quiet
    <3>4. CASE n # sweep \/ ~ Quiet(w, sweep)
      <4>1. status'[w][n] = status[w][n]
        BY <3>2, <3>4 DEF TypeOK
      <4> QED
        BY <2>5, <3>1, <4>1 DEF SweepGroup, IdleMeansQuiet
    <3> QED
      BY <3>3, <3>4
  <2>6. CASE Tick
    BY <2>6, Older DEF Tick, TypeOK, IdleMeansQuiet
  <2>7. CASE UNCHANGED vars
    BY <2>7 DEF vars, IdleMeansQuiet
  <2> QED
    BY <2>1, <2>2, <2>3, <2>4, <2>5, <2>6, <2>7 DEF Next, RefreshTx, RefreshRx, Dirs
<1> QED
  BY <1>1, <1>2, TypesHold, PTL DEF Spec

=============================================================================
