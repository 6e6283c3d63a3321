---------------------------- MODULE MemRegProofs ----------------------------
(***************************************************************************)
(* Proofs about MemReg, for every number of threads, NICs, allocations and *)
(* registrations, when the callers keep registering and deregistering one  *)
(* allocation apart (Serial; MemRegRace.cfg shows what happens when they   *)
(* do not).                                                                *)
(***************************************************************************)
EXTENDS MemReg, FiniteSetTheorems, TLAPS

RegionType == [base : Bases \cup {None}, nrefs : Nat,
               mr : [Devs -> Mrs \cup {None}], state : {"none", "live", "freed"}]

ArgType == [base : Bases \cup {None}, dev : CtlDevs \cup {None},
            cur : Regions \cup {None}, next : Devs \cup {None}]

Pcs == {"idle"} \cup RegPcs \cup DeregPcs

RegionShape == region \in [Regions -> RegionType]
TableShape ==
  /\ map \in [Bases -> Regions \cup {None}]
  /\ cache \in [Devs -> [Bases -> Mrs \cup {None}]]
  /\ mrs \in [Mrs -> [dev : Devs \cup {None}, base : Bases \cup {None}]]
LockShape ==
  /\ mapLock \in Threads \cup {None} /\ devLock \in [Devs -> Threads \cup {None}]
  /\ regLock \in [Regions -> Threads \cup {None}]
PcShape     == pc \in [Threads -> Pcs]
ArgShape    == arg \in [Threads -> ArgType]
HandleShape == handles \in [Threads -> [Regions \X Devs -> Nat]]
CallsShape  == calls \in 0..MaxCalls

Shape ==
  RegionShape /\ TableShape /\ LockShape /\ PcShape /\ ArgShape /\ HandleShape /\ CallsShape

Live(r) == region[r].state = "live"

\* A thread inside a call knows what it was called for.
ArgsAt(t) == pc[t] # "idle" => arg[t].base \in Bases /\ arg[t].dev \in CtlDevs

\* A thread that found a region in the map has the region that is there.
RefAt(t) == pc[t] = "ref" => arg[t].cur \in Regions /\ map[arg[t].base] = arg[t].cur

\* A thread that makes a region holds the lock of the map, which does not name
\* the region yet, and has the NICs from next on before it.
CreateAt(t) ==
  LET r == arg[t].cur IN
  /\ pc[t] \in {"dev", "publish"} =>
       /\ r \in Regions /\ mapLock = t /\ map[arg[t].base] = None
       /\ Live(r) /\ region[r].base = arg[t].base /\ region[r].nrefs = 1
  /\ pc[t] = "dev" =>
       /\ arg[t].next \in Devs
       /\ arg[t].base \in HostBases => arg[t].next = arg[t].dev
       /\ \A e \in Devs : e >= arg[t].next => region[r].mr[e] = None

\* A thread that drops a reference has a region that is in the map; the one
\* that dropped the last holds its lock until the map has let it go.
DropAt(t) ==
  LET r == arg[t].cur IN
  /\ pc[t] \in {"drop", "unreg", "erase"} => r \in Regions /\ map[arg[t].base] = r
  /\ pc[t] \in {"unreg", "erase"} => regLock[r] = t /\ region[r].nrefs = 0
  /\ pc[t] \in {"erase", "free"} => \A d \in Devs : region[r].mr[d] = None
  /\ pc[t] = "free" =>
       /\ r \in Regions /\ map[arg[t].base] = None
       /\ Live(r) /\ region[r].base = arg[t].base /\ region[r].nrefs = 0

At(t) == ArgsAt(t) /\ RefAt(t) /\ CreateAt(t) /\ DropAt(t)

ThreadInv == \A t \in Threads : At(t)

\* What the map names is live, and what is live is named by it, is still being
\* made, or is about to be freed.
MapAt(b) == map[b] # None => Live(map[b]) /\ region[map[b]].base = b

LiveAt(r) ==
  Live(r) =>
    \/ map[region[r].base] = r
    \/ \E t \in Threads : pc[t] \in {"dev", "publish", "free"} /\ arg[t].cur = r

BaseAt(r) == region[r].base = None <=> region[r].state = "none"

MapInv == (\A b \in Bases : MapAt(b)) /\ (\A r \in Regions : LiveAt(r) /\ BaseAt(r))

\* Nobody registers what another thread deregisters, and one thread frees it.
ApartInv ==
  \A t, u \in Threads : arg[t].base = arg[u].base =>
    /\ pc[t] \in RegPcs => pc[u] \notin DeregPcs
    /\ pc[t] = "free" /\ pc[u] = "free" => t = u

\* A handle is for a live region in the map; there are no more than calls.
HandleAt(t, r, d) ==
  /\ handles[t][<<r, d>>] > 0 => d \in CtlDevs /\ Live(r) /\ map[region[r].base] = r
  /\ handles[t][<<r, d>>] + (IF pc[t] \in RegPcs THEN 1 ELSE 0) <= calls

HandleInv == \A t \in Threads, r \in Regions, d \in Devs : HandleAt(t, r, d)

CountInv == \A r \in Regions : Live(r) => region[r].nrefs = Users(r)

IInv == Shape /\ ThreadInv /\ MapInv /\ ApartInv /\ HandleInv /\ CountInv

-----------------------------------------------------------------------------
LEMMA Consts ==
  /\ Devs \subseteq Nat \ {0} /\ Regions \subseteq Nat \ {0} /\ Mrs \subseteq Nat \ {0}
  /\ CtlDevs \subseteq Devs /\ 1 \in Devs /\ NDevs \in Devs
  /\ None \notin Devs /\ None \notin Regions /\ None \notin Mrs
  /\ None \notin Bases /\ None \notin Threads
BY ConstantsOK DEF Devs, Regions, Mrs, None, Bases

\* What the steps assign keeps the types.
LEMMA RegionSet ==
  ASSUME RegionShape, NEW r \in Regions
  PROVE  /\ \A n \in Nat : [region EXCEPT ![r].nrefs = n] \in [Regions -> RegionType]
         /\ \A m \in [Devs -> Mrs \cup {None}] :
              [region EXCEPT ![r].mr = m] \in [Regions -> RegionType]
         /\ \A d \in Devs, m \in Mrs \cup {None} :
              [region EXCEPT ![r].mr[d] = m] \in [Regions -> RegionType]
         /\ [region EXCEPT ![r].state = "freed"] \in [Regions -> RegionType]
         /\ \A x \in RegionType : [region EXCEPT ![r] = x] \in [Regions -> RegionType]
BY DEF RegionShape, RegionType

LEMMA GotoShape ==
  ASSUME PcShape, NEW t \in Threads, NEW where \in Pcs, Goto(t, where)
  PROVE  PcShape'
BY DEF PcShape, Goto

LEMMA GiveShape ==
  ASSUME HandleShape, ArgShape, NEW t \in Threads, NEW r \in Regions,
         arg[t].dev \in CtlDevs, Give(t, r)
  PROVE  HandleShape'
<1> DEFINE h == <<r, arg[t].dev>>
<1>0. arg[t].dev \in Devs
  BY Consts
<1>1. h \in Regions \X Devs
  BY <1>0
<1>4. handles' = [handles EXCEPT ![t] = [handles[t] EXCEPT ![h] = handles[t][h] + 1]]
  BY Zenon DEF Give, HandleShape
<1> HIDE DEF h
<1>5. handles[t] \in [Regions \X Devs -> Nat]
  BY DEF HandleShape
<1>2. handles[t][h] \in Nat /\ handles[t][h] + 1 \in Nat
  BY <1>1, <1>5
<1>3. [handles[t] EXCEPT ![h] = handles[t][h] + 1] \in [Regions \X Devs -> Nat]
  BY <1>1, <1>2, <1>5
<1> QED
  BY <1>3, <1>4 DEF HandleShape

LEMMA ArgSet ==
  ASSUME ArgShape, NEW t \in Threads, NEW r \in Regions, NEW d \in Devs \cup {None}
  PROVE  /\ [arg EXCEPT ![t].cur = r] \in [Threads -> ArgType]
         /\ [arg EXCEPT ![t].next = d] \in [Threads -> ArgType]
         /\ [arg EXCEPT ![t].cur = r, ![t].next = d] \in [Threads -> ArgType]
BY DEF ArgShape, ArgType

LEMMA NextDevShape ==
  ASSUME Shape, NEW t \in Threads, CreateAt(t), ArgsAt(t), pc[t] = "dev",
         NextDev(t, arg[t].next)
  PROVE  ArgShape' /\ PcShape'
<1>1. arg[t].next \in Devs /\ arg[t] \in ArgType
  BY DEF CreateAt, Shape, ArgShape
<1>2. arg[t].next # LastDev(arg[t].base, arg[t].dev) => arg[t].next + 1 \in Devs
  BY <1>1, ConstantsOK DEF LastDev, CreateAt, ArgsAt, Devs
<1>3. PcShape'
  BY GotoShape DEF NextDev, Shape, Pcs, RegPcs
<1>4. ArgShape'
  BY <1>1, <1>2 DEF NextDev, Shape, ArgShape, ArgType
<1> QED
  BY <1>3, <1>4

LEMMA ShapeRegCall ==
  ASSUME Shape, NEW t \in Threads, NEW b \in Bases, NEW d \in CtlDevs, RegCall(t, b, d)
  PROVE  Shape'
<1>1. PcShape'
  BY GotoShape DEF RegCall, Shape, Pcs, RegPcs
<1>2. ArgShape'
  BY DEF RegCall, Shape, ArgShape, ArgType
<1>3. CallsShape'
  BY ConstantsOK DEF RegCall, Shape, CallsShape
<1> QED
  BY <1>1, <1>2, <1>3 DEF RegCall, Shape, RegionShape, TableShape, LockShape, HandleShape

LEMMA ShapeDeregCall ==
  ASSUME Shape, NEW t \in Threads, NEW r \in Regions, NEW d \in CtlDevs, DeregCall(t, r, d)
  PROVE  Shape'
<1>1. PcShape'
  BY GotoShape DEF DeregCall, Shape, Pcs, DeregPcs
<1>2. ArgShape'
  BY DEF DeregCall, Shape, ArgShape, ArgType, RegionShape, RegionType
<1>3. HandleShape'
  <2> DEFINE h == <<r, d>>
  <2>1. d \in Devs
    BY Consts
  <2>2. h \in Regions \X Devs /\ handles[t][h] > 0
    BY <2>1 DEF DeregCall
  <2>5. handles' = [handles EXCEPT ![t] = [handles[t] EXCEPT ![h] = handles[t][h] - 1]]
    BY Zenon DEF DeregCall, Shape, HandleShape
  <2> HIDE DEF h
  <2>6. handles[t] \in [Regions \X Devs -> Nat]
    BY DEF Shape, HandleShape
  <2>3. handles[t][h] \in Nat /\ handles[t][h] - 1 \in Nat
    BY <2>2, <2>6
  <2>4. [handles[t] EXCEPT ![h] = handles[t][h] - 1] \in [Regions \X Devs -> Nat]
    BY <2>2, <2>3, <2>6
  <2> QED
    BY <2>4, <2>5 DEF HandleShape, Shape
<1> QED
  BY <1>1, <1>2, <1>3 DEF DeregCall, Shape, RegionShape, TableShape, LockShape, CallsShape

LEMMA ShapeFind ==
  ASSUME Shape, ThreadInv, NEW t \in Threads, RegFind(t)
  PROVE  Shape'
<1>1. PcShape'
  BY GotoShape DEF RegFind, Shape, Pcs, RegPcs
<1>2. map[arg[t].base] \in Regions
  BY DEF RegFind, ThreadInv, At, ArgsAt, Shape, TableShape
<1>3. ArgShape'
  BY <1>2, ArgSet, Zenon DEF RegFind, Shape, ArgShape
<1> QED
  BY <1>1, <1>3 DEF RegFind, Shape, RegionShape, TableShape, LockShape, CallsShape, HandleShape

LEMMA ShapeRef ==
  ASSUME Shape, ThreadInv, NEW t \in Threads, RegRef(t)
  PROVE  Shape'
<1>1. PcShape'
  BY GotoShape DEF RegRef, Shape, Pcs
<1>2. arg[t].cur \in Regions /\ arg[t].dev \in CtlDevs
  BY DEF RegRef, ThreadInv, At, ArgsAt, RefAt
<1>3. HandleShape'
  BY <1>2, GiveShape DEF RegRef, Shape
<1>4. region[arg[t].cur].nrefs + 1 \in Nat
  BY <1>2 DEF Shape, RegionShape, RegionType
<1>5. region' = [region EXCEPT ![arg[t].cur].nrefs = region[arg[t].cur].nrefs + 1]
  BY <1>2 DEF RegRef, Shape, RegionShape
<1>6. RegionShape'
  BY <1>2, <1>4, <1>5, RegionSet DEF Shape, RegionShape
<1> QED
  BY <1>1, <1>3, <1>6 DEF RegRef, Shape, TableShape, LockShape, CallsShape, ArgShape

LEMMA ShapeCreate ==
  ASSUME Shape, ThreadInv, NEW t \in Threads, RegCreate(t)
  PROVE  Shape'
<1>1. PcShape'
  BY GotoShape DEF RegCreate, Shape, Pcs, RegPcs
<1>2. PICK r \in Regions :
        /\ region' = [region EXCEPT ![r] = [base |-> arg[t].base, nrefs |-> 1,
                        mr |-> [d \in Devs |-> None], state |-> "live"]]
        /\ arg' = [arg EXCEPT ![t].cur = r, ![t].next = FirstDev(arg[t].base, arg[t].dev)]
  BY DEF RegCreate
<1>3. arg[t].base \in Bases /\ FirstDev(arg[t].base, arg[t].dev) \in Devs
  BY Consts DEF RegCreate, ThreadInv, At, ArgsAt, FirstDev
<1>4. [base |-> arg[t].base, nrefs |-> 1, mr |-> [d \in Devs |-> None], state |-> "live"]
        \in RegionType
  BY <1>3 DEF RegionType
<1>5. RegionShape' /\ ArgShape'
  BY <1>2, <1>3, <1>4, RegionSet, ArgSet DEF Shape, RegionShape, ArgShape
<1> QED
  BY <1>1, <1>5 DEF RegCreate, Shape, TableShape, LockShape, CallsShape, HandleShape

LEMMA ShapeHit ==
  ASSUME Shape, ThreadInv, NEW t \in Threads, RegHit(t)
  PROVE  Shape'
<1>1. /\ arg[t].cur \in Regions /\ arg[t].next \in Devs /\ arg[t].base \in Bases
      /\ CreateAt(t) /\ ArgsAt(t) /\ pc[t] = "dev" /\ NextDev(t, arg[t].next)
  BY DEF RegHit, ThreadInv, At, ArgsAt, CreateAt
<1>2. ArgShape' /\ PcShape'
  BY <1>1, NextDevShape
<1>3. cache[arg[t].next][arg[t].base] \in Mrs \cup {None}
  BY <1>1 DEF Shape, TableShape
<1>4. RegionShape'
  BY <1>1, <1>3, RegionSet, Zenon DEF RegHit, Shape, RegionShape
<1> QED
  BY <1>2, <1>4 DEF RegHit, Shape, TableShape, LockShape, CallsShape, HandleShape

LEMMA ShapeMiss ==
  ASSUME Shape, ThreadInv, NEW t \in Threads, RegMiss(t)
  PROVE  Shape'
<1>1. /\ arg[t].cur \in Regions /\ arg[t].next \in Devs /\ arg[t].base \in Bases
      /\ CreateAt(t) /\ ArgsAt(t) /\ pc[t] = "dev" /\ NextDev(t, arg[t].next)
  BY DEF RegMiss, ThreadInv, At, ArgsAt, CreateAt
<1>2. ArgShape' /\ PcShape'
  BY <1>1, NextDevShape
<1>3. PICK m \in Mrs :
        /\ mrs' = [mrs EXCEPT ![m] = [dev |-> arg[t].next, base |-> arg[t].base]]
        /\ cache' = [cache EXCEPT ![arg[t].next][arg[t].base] = m]
        /\ region' = [region EXCEPT ![arg[t].cur].mr[arg[t].next] = m]
  BY DEF RegMiss
<1>4. RegionShape'
  BY <1>1, <1>3, RegionSet DEF Shape, RegionShape
<1>5. mrs' \in [Mrs -> [dev : Devs \cup {None}, base : Bases \cup {None}]]
  BY <1>1, <1>3 DEF Shape, TableShape
<1>6. cache' \in [Devs -> [Bases -> Mrs \cup {None}]]
  BY <1>1, <1>3 DEF Shape, TableShape
<1>7. TableShape'
  BY <1>5, <1>6 DEF RegMiss, Shape, TableShape
<1> QED
  BY <1>2, <1>4, <1>7 DEF RegMiss, Shape, LockShape, CallsShape, HandleShape

LEMMA ShapeRefused ==
  ASSUME Shape, NEW t \in Threads, RegRefused(t), CreateAt(t)
  PROVE  Shape'
<1>1. PcShape'
  BY GotoShape DEF RegRefused, Shape, Pcs, RegPcs
<1>2. LockShape'
  BY DEF RegRefused, CreateAt, Shape, LockShape
<1>3. CallsShape'
  BY DEF RegRefused, Shape, CallsShape
<1> QED
  BY <1>1, <1>2, <1>3 DEF RegRefused, Shape, RegionShape, TableShape, ArgShape, HandleShape

LEMMA ShapePublish ==
  ASSUME Shape, ThreadInv, NEW t \in Threads, RegPublish(t)
  PROVE  Shape'
<1>1. PcShape'
  BY GotoShape DEF RegPublish, Shape, Pcs
<1>2. arg[t].cur \in Regions /\ arg[t].dev \in CtlDevs
  BY DEF RegPublish, ThreadInv, At, ArgsAt, CreateAt
<1>3. HandleShape'
  BY <1>2, GiveShape DEF RegPublish, Shape
<1>4. TableShape' /\ LockShape'
  BY <1>2 DEF RegPublish, Shape, TableShape, LockShape
<1> QED
  BY <1>1, <1>3, <1>4 DEF RegPublish, Shape, RegionShape, CallsShape, ArgShape

LEMMA ShapeDrop ==
  ASSUME Shape, ThreadInv, NEW t \in Threads, DeregDrop(t), region[arg[t].cur].nrefs > 0
  PROVE  Shape'
<1>1. PcShape'
  BY GotoShape DEF DeregDrop, Shape, Pcs, DeregPcs
<1>2. arg[t].cur \in Regions
  BY DEF DeregDrop, ThreadInv, At, DropAt
<1>3. region[arg[t].cur].nrefs - 1 \in Nat
  BY <1>2 DEF Shape, RegionShape, RegionType
<1>4. region' = [region EXCEPT ![arg[t].cur].nrefs = region[arg[t].cur].nrefs - 1]
  BY <1>2 DEF DeregDrop, Shape, RegionShape
<1>5. RegionShape'
  BY <1>2, <1>3, <1>4, RegionSet DEF Shape, RegionShape
<1>6. LockShape'
  BY <1>2 DEF DeregDrop, Shape, LockShape
<1> QED
  BY <1>1, <1>5, <1>6 DEF DeregDrop, Shape, TableShape, CallsShape, ArgShape, HandleShape

LEMMA MrsForgotten ==
  ASSUME Shape, NEW gone, mrs' = [m \in Mrs |-> IF m \in gone THEN NoMr ELSE mrs[m]],
         UNCHANGED <<map, cache>>
  PROVE  TableShape'
BY DEF Shape, TableShape, NoMr

LEMMA ShapeMrs ==
  ASSUME Shape, ThreadInv, NEW t \in Threads, DeregMrs(t)
  PROVE  Shape'
<1>1. PcShape'
  BY GotoShape DEF DeregMrs, Shape, Pcs, DeregPcs
<1>2. arg[t].cur \in Regions /\ [d \in Devs |-> None] \in [Devs -> Mrs \cup {None}]
  BY DEF DeregMrs, ThreadInv, At, DropAt
<1>3. RegionShape'
  BY <1>2, RegionSet DEF DeregMrs, Shape, RegionShape
<1>4. TableShape'
  BY MrsForgotten DEF DeregMrs
<1> QED
  BY <1>1, <1>3, <1>4 DEF DeregMrs, Shape, LockShape, CallsShape, ArgShape, HandleShape

LEMMA ShapeDeregRefused ==
  ASSUME Shape, ThreadInv, NEW t \in Threads, DeregRefused(t)
  PROVE  Shape'
<1>1. PcShape'
  BY GotoShape DEF DeregRefused, Shape, Pcs
<1>2. arg[t].cur \in Regions
  BY DEF DeregRefused, ThreadInv, At, DropAt
<1>3. PICK d \in Devs :
        /\ mrs' = [m \in Mrs |->
             IF m \in {region[arg[t].cur].mr[e] : e \in 1..d-1} THEN NoMr ELSE mrs[m]]
        /\ region' = [region EXCEPT ![arg[t].cur].mr =
             [e \in Devs |-> IF e < d THEN None ELSE @[e]]]
  BY Zenon DEF DeregRefused
<1> DEFINE left == [e \in Devs |-> IF e < d THEN None ELSE region[arg[t].cur].mr[e]]
<1>4. left \in [Devs -> Mrs \cup {None}]
  BY <1>2 DEF Shape, RegionShape, RegionType
<1>5. region' = [region EXCEPT ![arg[t].cur].mr = left]
  BY <1>2, <1>3 DEF Shape, RegionShape
<1> HIDE DEF left
<1>6. RegionShape'
  BY <1>2, <1>4, <1>5, RegionSet DEF Shape, RegionShape
<1>7. TableShape'
  BY <1>3, MrsForgotten DEF DeregRefused
<1>8. CallsShape'
  BY DEF DeregRefused, Shape, CallsShape
<1> QED
  BY <1>1, <1>6, <1>7, <1>8 DEF DeregRefused, Shape, LockShape, ArgShape, HandleShape

LEMMA ShapeErase ==
  ASSUME Shape, NEW t \in Threads, DeregErase(t)
  PROVE  Shape'
<1>1. PcShape'
  BY GotoShape DEF DeregErase, Shape, Pcs, DeregPcs
<1>2. TableShape' /\ LockShape'
  BY DEF DeregErase, Shape, TableShape, LockShape
<1> QED
  BY <1>1, <1>2 DEF DeregErase, Shape, RegionShape, CallsShape, ArgShape, HandleShape

LEMMA ShapeFree ==
  ASSUME Shape, ThreadInv, NEW t \in Threads, DeregFree(t)
  PROVE  Shape'
<1>1. PcShape'
  BY GotoShape DEF DeregFree, Shape, Pcs
<1>2. arg[t].cur \in Regions
  BY DEF DeregFree, ThreadInv, At, DropAt
<1>3. RegionShape'
  BY <1>2, RegionSet DEF DeregFree, Shape, RegionShape
<1> QED
  BY <1>1, <1>3 DEF DeregFree, Shape, TableShape, LockShape, CallsShape, ArgShape, HandleShape

-----------------------------------------------------------------------------
InMap == {"ref", "drop", "unreg", "erase"}     \* the map names the region
Alone == {"dev", "publish", "free"}            \* it does not, but it is live

\* What a thread inside a call knows of its region.
LEMMA RegionOf ==
  ASSUME Shape, ThreadInv, MapInv, NEW t \in Threads, pc[t] \in InMap \cup Alone
  PROVE  LET r == arg[t].cur IN
         /\ r \in Regions /\ arg[t].base \in Bases /\ arg[t].dev \in CtlDevs
         /\ Live(r) /\ region[r].base = arg[t].base
         /\ map[arg[t].base] = IF pc[t] \in InMap THEN r ELSE None
<1>1. At(t)
  BY DEF ThreadInv
<1>2. CASE pc[t] \in InMap
  <2>1. arg[t].cur \in Regions /\ arg[t].base \in Bases /\ map[arg[t].base] = arg[t].cur
    BY <1>1, <1>2 DEF At, ArgsAt, RefAt, DropAt, InMap
  <2>2. MapAt(arg[t].base)
    BY <2>1 DEF MapInv
  <2> QED
    BY <2>1, <2>2, <1>1, <1>2, Consts DEF MapAt, At, ArgsAt, InMap
<1>3. CASE pc[t] \in Alone
  BY <1>1, <1>3 DEF At, ArgsAt, CreateAt, DropAt, InMap, Alone
<1> QED
  BY <1>2, <1>3

\* A region that one thread has alone, no other thread has.
LEMMA AloneOne ==
  ASSUME Shape, ThreadInv, MapInv, ApartInv, NEW t \in Threads, NEW u \in Threads,
         pc[t] \in Alone, pc[u] \in InMap \cup Alone, arg[u].base = arg[t].base
  PROVE  u = t
<1>1. map[arg[t].base] = None
  BY RegionOf DEF InMap, Alone
<1>2. pc[u] \in Alone
  BY RegionOf, <1>1, Consts
<1>3. CASE pc[t] = "free"
  BY <1>2, <1>3 DEF ApartInv, Alone, RegPcs, DeregPcs
<1>4. CASE pc[t] # "free"
  <2>1. pc[u] # "free"
    BY <1>4 DEF ApartInv, Alone, RegPcs, DeregPcs
  <2> QED
    BY <2>1, <1>2, <1>4 DEF ThreadInv, At, CreateAt, Alone
<1> QED
  BY <1>3, <1>4

\* What a thread knows holds as long as nobody touches what it is about.
LEMMA AtKept ==
  ASSUME NEW u, At(u), pc'[u] = pc[u], arg'[u] = arg[u],
         pc[u] \in InMap \cup Alone => map'[arg[u].base] = map[arg[u].base],
         pc[u] \in {"dev", "publish"} => mapLock' = mapLock,
         pc[u] \in Alone \cup {"unreg", "erase"} => region'[arg[u].cur] = region[arg[u].cur],
         pc[u] \in {"unreg", "erase"} => regLock'[arg[u].cur] = regLock[arg[u].cur]
  PROVE  At(u)'
<1>1. ArgsAt(u)'
  BY DEF At, ArgsAt
<1>2. RefAt(u)'
  BY DEF At, RefAt, InMap
<1>3. CreateAt(u)'
  BY DEF At, CreateAt, Live, Alone
<1>4. DropAt(u)'
  BY DEF At, DropAt, Live, Alone, InMap
<1> QED
  BY <1>1, <1>2, <1>3, <1>4 DEF At

\* The users of a region are finitely many.
LEMMA UsersFinite == \A r : IsFiniteSet(HandlesOf(r)) /\ IsFiniteSet(CallsOwning(r))
<1>1. IsFiniteSet(Devs) /\ IsFiniteSet(1..MaxCalls)
  BY ConstantsOK, FS_Interval DEF Devs
<1>2. IsFiniteSet(Threads \X Devs)
  BY <1>1, ConstantsOK, FS_Product
<1>3. IsFiniteSet((Threads \X Devs) \X (1..MaxCalls))
  BY <1>1, <1>2, FS_Product
<1>4. \A r : IsFiniteSet(CallsOwning(r))
  BY ConstantsOK, FS_Subset DEF CallsOwning
<1>5. \A r : IsFiniteSet(HandlesOf(r))
  BY <1>3, FS_Subset DEF HandlesOf
<1> QED
  BY <1>4, <1>5

LEMMA UsersCount ==
  \A r : /\ Cardinality(HandlesOf(r)) \in Nat /\ Cardinality(CallsOwning(r)) \in Nat
         /\ Users(r) \in Nat
BY UsersFinite, FS_CardinalityType DEF Users

\* One more handle, one less.
LEMMA HandleMore ==
  ASSUME HandleShape, NEW t \in Threads, NEW r \in Regions, NEW d \in Devs,
         handles[t][<<r, d>>] < MaxCalls,
         handles' = [handles EXCEPT ![t][<<r, d>>] = @ + 1]
  PROVE  /\ Cardinality(HandlesOf(r)') = Cardinality(HandlesOf(r)) + 1
         /\ \A q \in Regions : q # r => HandlesOf(q)' = HandlesOf(q)
<1> DEFINE h == <<<<t, d>>, handles[t][<<r, d>>] + 1>>
<1>0. handles[t][<<r, d>>] \in Nat
  BY DEF HandleShape
<1>1. h \in (Threads \X Devs) \X (1..MaxCalls)
  BY <1>0, ConstantsOK
<1>2. ASSUME NEW u \in Threads, NEW q \in Regions, NEW e \in Devs
      PROVE  handles'[u][<<q, e>>] =
               IF u = t /\ q = r /\ e = d THEN handles[t][<<r, d>>] + 1 ELSE handles[u][<<q, e>>]
  BY DEF HandleShape
<1>3. ASSUME NEW q \in Regions, q # r PROVE HandlesOf(q)' = HandlesOf(q)
  BY <1>2, <1>3 DEF HandlesOf
<1>4. h \notin HandlesOf(r)
  BY <1>0 DEF HandlesOf
<1>5. HandlesOf(r)' = HandlesOf(r) \cup {h}
  <2>1. ASSUME NEW x \in (Threads \X Devs) \X (1..MaxCalls)
        PROVE  x \in HandlesOf(r)' <=> x \in HandlesOf(r) \cup {h}
    <3>1. PICK u \in Threads, e \in Devs, k \in 1..MaxCalls : x = <<<<u, e>>, k>>
      OBVIOUS
    <3>2. x \in HandlesOf(r)' <=> k <= handles'[u][<<r, e>>]
      BY <3>1 DEF HandlesOf
    <3>3. x \in HandlesOf(r) <=> k <= handles[u][<<r, e>>]
      BY <3>1 DEF HandlesOf
    <3>4. CASE u = t /\ e = d
      BY <3>1, <3>2, <3>3, <3>4, <1>0, <1>2
    <3>5. CASE ~(u = t /\ e = d)
      BY <3>1, <3>2, <3>3, <3>5, <1>2
    <3> QED
      BY <3>4, <3>5
  <2>2. HandlesOf(r)' \subseteq (Threads \X Devs) \X (1..MaxCalls)
    BY DEF HandlesOf
  <2>3. HandlesOf(r) \cup {h} \subseteq (Threads \X Devs) \X (1..MaxCalls)
    BY <1>1 DEF HandlesOf
  <2> HIDE DEF h
  <2> QED
    BY <2>1, <2>2, <2>3
<1>6. Cardinality(HandlesOf(r) \cup {h}) = Cardinality(HandlesOf(r)) + 1
  BY <1>4, UsersFinite, FS_AddElement
<1> QED
  BY <1>3, <1>5, <1>6

LEMMA HandleLess ==
  ASSUME HandleShape, NEW t \in Threads, NEW r \in Regions, NEW d \in Devs,
         handles[t][<<r, d>>] > 0, handles[t][<<r, d>>] <= MaxCalls,
         handles' = [handles EXCEPT ![t][<<r, d>>] = @ - 1]
  PROVE  /\ Cardinality(HandlesOf(r)') = Cardinality(HandlesOf(r)) - 1
         /\ \A q \in Regions : q # r => HandlesOf(q)' = HandlesOf(q)
<1> DEFINE h == <<<<t, d>>, handles[t][<<r, d>>]>>
<1>0. handles[t][<<r, d>>] \in Nat
  BY DEF HandleShape
<1>1. h \in (Threads \X Devs) \X (1..MaxCalls)
  BY <1>0, ConstantsOK
<1>2. ASSUME NEW u \in Threads, NEW q \in Regions, NEW e \in Devs
      PROVE  handles'[u][<<q, e>>] =
               IF u = t /\ q = r /\ e = d THEN handles[t][<<r, d>>] - 1 ELSE handles[u][<<q, e>>]
  BY DEF HandleShape
<1>3. ASSUME NEW q \in Regions, q # r PROVE HandlesOf(q)' = HandlesOf(q)
  BY <1>2, <1>3 DEF HandlesOf
<1>4. h \in HandlesOf(r)
  BY <1>0, <1>1 DEF HandlesOf
<1>5. HandlesOf(r)' = HandlesOf(r) \ {h}
  <2>1. ASSUME NEW x \in (Threads \X Devs) \X (1..MaxCalls)
        PROVE  x \in HandlesOf(r)' <=> x \in HandlesOf(r) \ {h}
    <3>1. PICK u \in Threads, e \in Devs, k \in 1..MaxCalls : x = <<<<u, e>>, k>>
      OBVIOUS
    <3>2. x \in HandlesOf(r)' <=> k <= handles'[u][<<r, e>>]
      BY <3>1 DEF HandlesOf
    <3>3. x \in HandlesOf(r) <=> k <= handles[u][<<r, e>>]
      BY <3>1 DEF HandlesOf
    <3>4. CASE u = t /\ e = d
      BY <3>1, <3>2, <3>3, <3>4, <1>0, <1>2
    <3>5. CASE ~(u = t /\ e = d)
      BY <3>1, <3>2, <3>3, <3>5, <1>2
    <3> QED
      BY <3>4, <3>5
  <2>2. HandlesOf(r)' \subseteq (Threads \X Devs) \X (1..MaxCalls)
    BY DEF HandlesOf
  <2>3. HandlesOf(r) \ {h} \subseteq (Threads \X Devs) \X (1..MaxCalls)
    BY <1>1 DEF HandlesOf
  <2> HIDE DEF h
  <2> QED
    BY <2>1, <2>2, <2>3
<1>6. Cardinality(HandlesOf(r) \ {h}) = Cardinality(HandlesOf(r)) - 1
  BY <1>4, UsersFinite, FS_RemoveElement
<1> QED
  BY <1>3, <1>5, <1>6, UsersCount

-----------------------------------------------------------------------------
OthersSame(t) == \A u \in Threads : u # t => pc'[u] = pc[u] /\ arg'[u] = arg[u]

PlacesSame == \A r \in Regions :
  region'[r].base = region[r].base /\ region'[r].state = region[r].state

Owns(t, r) == arg[t].cur = r /\ pc[t] \in {"dev", "publish", "drop"}

\* A step that neither makes nor frees a region, nor changes the map.
LEMMA MapKept ==
  ASSUME Shape, MapInv, NEW t \in Threads, OthersSame(t), PlacesSame, UNCHANGED map,
         pc[t] \in Alone => pc'[t] \in Alone /\ arg'[t].cur = arg[t].cur
  PROVE  MapInv'
<1>1. ASSUME NEW b \in Bases PROVE MapAt(b)'
  BY DEF MapInv, MapAt, Live, PlacesSame, Shape, TableShape
<1>2. ASSUME NEW r \in Regions PROVE LiveAt(r)' /\ BaseAt(r)'
  <2>1. ASSUME NEW u \in Threads, pc[u] \in Alone, arg[u].cur = r
        PROVE  pc'[u] \in Alone /\ arg'[u].cur = r
    BY <2>1 DEF OthersSame
  <2>2. LiveAt(r) /\ BaseAt(r)
    BY DEF MapInv
  <2> QED
    BY <2>1, <2>2 DEF LiveAt, BaseAt, Live, PlacesSame, Alone
<1> QED
  BY <1>1, <1>2 DEF MapInv

\* A step of a call that goes on or returns, and does not come to free.
LEMMA ApartKept ==
  ASSUME ApartInv, NEW t \in Threads, OthersSame(t), arg'[t].base = arg[t].base,
         pc'[t] \in RegPcs => pc[t] \in RegPcs,
         pc'[t] \in DeregPcs => pc[t] \in DeregPcs,
         pc'[t] # "free"
  PROVE  ApartInv'
BY DEF ApartInv, OthersSame

LEMMA HandleKept ==
  ASSUME Shape, HandleInv, NEW t \in Threads, OthersSame(t), PlacesSame, UNCHANGED <<map, handles>>,
         calls' \in Nat, calls' >= calls,
         pc'[t] \in RegPcs /\ pc[t] \notin RegPcs => calls' > calls
  PROVE  HandleInv'
<1> SUFFICES ASSUME NEW u \in Threads, NEW r \in Regions, NEW d \in Devs
             PROVE  HandleAt(u, r, d)'
  BY DEF HandleInv
<1>1. HandleAt(u, r, d)
  BY DEF HandleInv
<1>2. handles[u][<<r, d>>] \in Nat /\ calls \in Nat
  BY ConstantsOK DEF Shape, HandleShape, CallsShape
<1>3. handles'[u][<<r, d>>] > 0 => d \in CtlDevs /\ Live(r)' /\ map'[region'[r].base] = r
  BY <1>1 DEF HandleAt, Live, PlacesSame
<1>4. handles'[u][<<r, d>>] + (IF pc'[u] \in RegPcs THEN 1 ELSE 0) <= calls'
  <2>1. CASE u = t
    BY <2>1, <1>1, <1>2 DEF HandleAt
  <2>2. CASE u # t
    BY <2>2, <1>1, <1>2 DEF HandleAt, OthersSame
  <2> QED
    BY <2>1, <2>2
<1> QED
  BY <1>3, <1>4 DEF HandleAt

\* The calls that own a reference to a region, after a step of t.
LEMMA OwningAfter ==
  ASSUME NEW t \in Threads, NEW r, OthersSame(t)
  PROVE  /\ (Owns(t, r)' <=> Owns(t, r)) => CallsOwning(r)' = CallsOwning(r)
         /\ Owns(t, r)' /\ ~Owns(t, r) =>
              Cardinality(CallsOwning(r)') = Cardinality(CallsOwning(r)) + 1
         /\ ~Owns(t, r)' /\ Owns(t, r) =>
              Cardinality(CallsOwning(r)') = Cardinality(CallsOwning(r)) - 1
<1>1. \A u \in Threads : u \in CallsOwning(r) <=> Owns(u, r)
  BY DEF CallsOwning, Owns
<1>2. \A u \in Threads : u \in CallsOwning(r)' <=> Owns(u, r)'
  BY DEF CallsOwning, Owns
<1>3. \A u \in Threads : u # t => (Owns(u, r)' <=> Owns(u, r))
  BY DEF Owns, OthersSame
<1>4. CallsOwning(r) \subseteq Threads /\ CallsOwning(r)' \subseteq Threads
  BY DEF CallsOwning
<1>5. (Owns(t, r)' <=> Owns(t, r)) => CallsOwning(r)' = CallsOwning(r)
  BY <1>1, <1>2, <1>3, <1>4
<1>6. ASSUME Owns(t, r)', ~Owns(t, r)
      PROVE  Cardinality(CallsOwning(r)') = Cardinality(CallsOwning(r)) + 1
  <2>1. CallsOwning(r)' = CallsOwning(r) \cup {t} /\ t \notin CallsOwning(r)
    BY <1>1, <1>2, <1>3, <1>4, <1>6
  <2> QED
    BY <2>1, UsersFinite, FS_AddElement
<1>7. ASSUME ~Owns(t, r)', Owns(t, r)
      PROVE  Cardinality(CallsOwning(r)') = Cardinality(CallsOwning(r)) - 1
  <2>1. CallsOwning(r)' = CallsOwning(r) \ {t} /\ t \in CallsOwning(r)
    BY <1>1, <1>2, <1>3, <1>4, <1>7
  <2>2. Cardinality(CallsOwning(r) \ {t}) = Cardinality(CallsOwning(r)) - 1
    BY <2>1, UsersFinite, FS_RemoveElement
  <2> QED
    BY <2>1, <2>2, UsersCount
<1> QED
  BY <1>5, <1>6, <1>7

\* A step that gives no handle and no reference.
LEMMA CountKept ==
  ASSUME CountInv, NEW t \in Threads, OthersSame(t), UNCHANGED handles,
         \A r \in Regions :
           /\ Live(r)' => Live(r) /\ region'[r].nrefs = region[r].nrefs
           /\ Owns(t, r)' <=> Owns(t, r)
  PROVE  CountInv'
<1> SUFFICES ASSUME NEW r \in Regions, Live(r)' PROVE region'[r].nrefs = Users(r)'
  BY DEF CountInv
<1>1. HandlesOf(r)' = HandlesOf(r)
  BY DEF HandlesOf
<1>2. CallsOwning(r)' = CallsOwning(r)
  BY OwningAfter
<1>3. region'[r].nrefs = region[r].nrefs /\ region[r].nrefs = Users(r)
  BY DEF CountInv
<1> QED
  BY <1>1, <1>2, <1>3 DEF Users

-----------------------------------------------------------------------------
\* Each step keeps the invariant.
LEMMA KeepRegCall ==
  ASSUME IInv, Serial, NEW t \in Threads, NEW b \in Bases, NEW d \in CtlDevs, RegCall(t, b, d)
  PROVE  IInv'
<1>0. Shape /\ ThreadInv /\ MapInv /\ ApartInv /\ HandleInv /\ CountInv
  BY DEF IInv
<1>1. pc'[t] = "find" /\ arg'[t].base = b /\ arg'[t].dev = d /\ OthersSame(t) /\ PlacesSame
  BY <1>0 DEF RegCall, Goto, OthersSame, PlacesSame, Shape, PcShape, ArgShape
<1>2. Shape'
  BY <1>0, ShapeRegCall
<1>3. ThreadInv'
  <2> SUFFICES ASSUME NEW u \in Threads PROVE At(u)'
    BY DEF ThreadInv
  <2>1. CASE u = t
    BY <2>1, <1>1 DEF At, ArgsAt, RefAt, CreateAt, DropAt
  <2>2. CASE u # t
    BY <2>2, <1>0, <1>1, AtKept DEF RegCall, OthersSame, ThreadInv
  <2> QED
    BY <2>1, <2>2
<1>4. MapInv'
  BY <1>0, <1>1, MapKept DEF RegCall, Alone
<1>5. ApartInv'
  <2>1. \A u \in Threads : pc[u] \in DeregPcs => arg[u].base # b
    BY DEF RegCall, Deregistering
  <2> QED
    BY <2>1, <1>0, <1>1 DEF ApartInv, OthersSame, RegPcs, DeregPcs
<1>6. HandleInv'
  <2>1. calls' = calls + 1 /\ calls \in Nat
    BY <1>0, ConstantsOK DEF RegCall, Shape, CallsShape
  <2> QED
    BY <2>1, <1>0, <1>1, HandleKept DEF RegCall
<1>7. CountInv'
  BY <1>0, <1>1, CountKept DEF RegCall, Owns, Live
<1> QED
  BY <1>2, <1>3, <1>4, <1>5, <1>6, <1>7 DEF IInv

LEMMA KeepFind ==
  ASSUME IInv, NEW t \in Threads, RegFind(t)
  PROVE  IInv'
<1>0. Shape /\ ThreadInv /\ MapInv /\ ApartInv /\ HandleInv /\ CountInv
  BY DEF IInv
<1>1. /\ pc[t] = "find" /\ pc'[t] = "ref" /\ OthersSame(t) /\ PlacesSame
      /\ arg'[t].base = arg[t].base /\ arg'[t].dev = arg[t].dev
      /\ arg'[t].cur = map[arg[t].base]
  BY <1>0 DEF RegFind, Goto, OthersSame, PlacesSame, Shape, PcShape, ArgShape, ArgType
<1>2. Shape'
  BY <1>0, ShapeFind
<1>3. ThreadInv'
  <2> SUFFICES ASSUME NEW u \in Threads PROVE At(u)'
    BY DEF ThreadInv
  <2>1. CASE u = t
    <3>1. arg[t].base \in Bases /\ arg[t].dev \in CtlDevs
      BY <1>0, <1>1 DEF ThreadInv, At, ArgsAt
    <3>2. map[arg[t].base] \in Regions /\ map' = map
      BY <3>1, <1>0 DEF RegFind, Shape, TableShape
    <3> QED
      BY <2>1, <1>1, <3>1, <3>2 DEF At, ArgsAt, RefAt, CreateAt, DropAt
  <2>2. CASE u # t
    BY <2>2, <1>0, <1>1, AtKept DEF RegFind, OthersSame, ThreadInv
  <2> QED
    BY <2>1, <2>2
<1>4. MapInv'
  BY <1>0, <1>1, MapKept DEF RegFind, Alone
<1>5. ApartInv'
  BY <1>0, <1>1, ApartKept DEF RegPcs, DeregPcs
<1>6. HandleInv'
  BY <1>0, <1>1, ConstantsOK, HandleKept DEF RegFind, Shape, CallsShape, RegPcs
<1>7. CountInv'
  BY <1>0, <1>1, CountKept DEF RegFind, Owns, Live
<1> QED
  BY <1>2, <1>3, <1>4, <1>5, <1>6, <1>7 DEF IInv

\* Handing a region to a caller: it is live, in the map, and there is room.
LEMMA HandleGiven ==
  ASSUME Shape, HandleInv, NEW t \in Threads, OthersSame(t), PlacesSame, NEW r \in Regions,
         Give(t, r), arg[t].dev \in CtlDevs, pc[t] \in RegPcs, pc'[t] = "idle",
         UNCHANGED calls, Live(r), map'[region[r].base] = r,
         \A b \in Bases \cup {None} : map[b] # None => map'[b] = map[b],
         \A q \in Regions : Live(q) => region[q].base \in Bases
  PROVE  HandleInv' /\ handles[t][<<r, arg[t].dev>>] < MaxCalls
<1> DEFINE dv == arg[t].dev
<1>1. dv \in Devs
  BY Consts
<1>2. HandleAt(t, r, dv)
  BY <1>1 DEF HandleInv
<1>3. handles[t][<<r, dv>>] \in Nat /\ calls \in Nat /\ calls <= MaxCalls
  BY <1>1, ConstantsOK DEF Shape, HandleShape, CallsShape
<1>4. handles[t][<<r, dv>>] < MaxCalls
  BY <1>2, <1>3, ConstantsOK DEF HandleAt
<1>5. ASSUME NEW u \in Threads, NEW q \in Regions, NEW d \in Devs PROVE HandleAt(u, q, d)'
  <2>1. handles'[u][<<q, d>>] = IF u = t /\ q = r /\ d = dv THEN handles[t][<<r, dv>>] + 1
                                                          ELSE handles[u][<<q, d>>]
    BY <1>1 DEF Give, Shape, HandleShape
  <2>2. HandleAt(u, q, d) /\ handles[u][<<q, d>>] \in Nat
    BY DEF HandleInv, Shape, HandleShape
  <2>3. handles'[u][<<q, d>>] > 0 =>
          d \in CtlDevs /\ Live(q)' /\ map'[region'[q].base] = q
    <3>1. CASE q = r /\ d = dv
      BY <3>1 DEF PlacesSame, Live
    <3>2. CASE ~(q = r /\ d = dv)
      BY <3>2, <2>1, <2>2, Consts DEF HandleAt, PlacesSame, Live
    <3> QED
      BY <3>1, <3>2
  <2>4. handles'[u][<<q, d>>] + (IF pc'[u] \in RegPcs THEN 1 ELSE 0) <= calls'
    <3>1. CASE u = t
      BY <3>1, <2>1, <2>2, <1>2, <1>3 DEF HandleAt, RegPcs
    <3>2. CASE u # t
      BY <3>2, <2>1, <2>2, <1>3 DEF HandleAt, OthersSame
    <3> QED
      BY <3>1, <3>2
  <2> QED
    BY <2>3, <2>4 DEF HandleAt
<1> QED
  BY <1>4, <1>5 DEF HandleInv

LEMMA LiveBase ==
  ASSUME Shape, MapInv, NEW r \in Regions, Live(r)
  PROVE  region[r].base \in Bases
BY DEF Shape, RegionShape, RegionType, MapInv, BaseAt, Live

LEMMA KeepRef ==
  ASSUME IInv, NEW t \in Threads, RegRef(t)
  PROVE  IInv'
<1>0. Shape /\ ThreadInv /\ MapInv /\ ApartInv /\ HandleInv /\ CountInv
  BY DEF IInv
<1>1. PICK r \in Regions : arg[t].cur = r
  BY <1>0 DEF RegRef, ThreadInv, At, RefAt
<1>2. /\ pc[t] = "ref" /\ pc'[t] = "idle" /\ arg' = arg /\ OthersSame(t)
      /\ Give(t, r) /\ regLock[r] = None /\ UNCHANGED <<map, mapLock, regLock, calls>>
  BY <1>0, <1>1 DEF RegRef, Goto, OthersSame, Shape, PcShape
<1>3. /\ arg[t].base \in Bases /\ arg[t].dev \in CtlDevs /\ Live(r)
      /\ region[r].base = arg[t].base /\ map[arg[t].base] = r
  BY <1>0, <1>1, <1>2, RegionOf DEF InMap
<1>4. /\ region'[r].nrefs = region[r].nrefs + 1
      /\ \A q \in Regions : q # r => region'[q] = region[q]
      /\ PlacesSame
  BY <1>0, <1>1 DEF RegRef, PlacesSame, Shape, RegionShape, RegionType
<1>5. Shape'
  BY <1>0, ShapeRef
<1>6. ThreadInv'
  <2> SUFFICES ASSUME NEW u \in Threads PROVE At(u)'
    BY DEF ThreadInv
  <2>1. CASE u = t
    BY <2>1, <1>2 DEF At, ArgsAt, RefAt, CreateAt, DropAt
  <2>2. CASE u # t
    <3>1. At(u)
      BY <1>0 DEF ThreadInv
    <3>2. ASSUME pc[u] \in Alone \cup {"unreg", "erase"}
          PROVE  arg[u].cur \in Regions /\ arg[u].cur # r
      <4>1. CASE pc[u] \in Alone
        BY <4>1, <1>0, <1>3, RegionOf, Consts DEF Alone, InMap
      <4>2. CASE pc[u] \in {"unreg", "erase"}
        BY <4>2, <3>1, <1>2, Consts DEF At, DropAt
      <4> QED
        BY <3>2, <4>1, <4>2
    <3> QED
      BY <2>2, <3>1, <3>2, <1>2, <1>4, AtKept DEF OthersSame
  <2> QED
    BY <2>1, <2>2
<1>7. MapInv'
  BY <1>0, <1>2, <1>4, MapKept DEF Alone
<1>8. ApartInv'
  BY <1>0, <1>2, ApartKept DEF RegPcs, DeregPcs
<1>9. HandleInv' /\ handles[t][<<r, arg[t].dev>>] < MaxCalls
  BY <1>0, <1>2, <1>3, <1>4, HandleGiven, LiveBase DEF RegPcs
<1>10. CountInv'
  <2> SUFFICES ASSUME NEW q \in Regions, Live(q)' PROVE region'[q].nrefs = Users(q)'
    BY DEF CountInv
  <2>1. region[q].nrefs = Users(q)
    BY <1>0, <1>4 DEF CountInv, Live, PlacesSame
  <2>2. CallsOwning(q)' = CallsOwning(q)
    BY <1>2, OwningAfter DEF Owns
  <2>3. /\ Cardinality(HandlesOf(r)') = Cardinality(HandlesOf(r)) + 1
        /\ q # r => HandlesOf(q)' = HandlesOf(q)
    BY <1>0, <1>2, <1>3, <1>9, HandleMore, Consts DEF Give, Shape
  <2>4. CASE q = r
    BY <2>1, <2>2, <2>3, <2>4, <1>4, UsersCount DEF Users
  <2>5. CASE q # r
    BY <2>1, <2>2, <2>3, <2>5, <1>4 DEF Users
  <2> QED
    BY <2>4, <2>5
<1> QED
  BY <1>5, <1>6, <1>7, <1>8, <1>9, <1>10 DEF IInv

LEMMA KeepCreate ==
  ASSUME IInv, NEW t \in Threads, RegCreate(t)
  PROVE  IInv'
<1>0. Shape /\ ThreadInv /\ MapInv /\ ApartInv /\ HandleInv /\ CountInv
  BY DEF IInv
<1>1. PICK r \in Regions :
        /\ region[r].state = "none"
        /\ region' = [region EXCEPT ![r] = [base |-> arg[t].base, nrefs |-> 1,
                        mr |-> [d \in Devs |-> None], state |-> "live"]]
        /\ arg' = [arg EXCEPT ![t].cur = r, ![t].next = FirstDev(arg[t].base, arg[t].dev)]
  BY DEF RegCreate, NextRegion
<1>2. /\ pc[t] = "find" /\ pc'[t] = "dev" /\ OthersSame(t)
      /\ arg'[t].base = arg[t].base /\ arg'[t].dev = arg[t].dev
      /\ arg'[t].cur = r /\ arg'[t].next = FirstDev(arg[t].base, arg[t].dev)
      /\ mapLock = None /\ mapLock' = t /\ map[arg[t].base] = None
      /\ UNCHANGED <<map, regLock, handles, calls>>
  BY <1>0, <1>1 DEF RegCreate, Goto, OthersSame, Shape, PcShape, ArgShape, ArgType
<1>3. arg[t].base \in Bases /\ arg[t].dev \in CtlDevs
  BY <1>0, <1>2 DEF ThreadInv, At, ArgsAt
<1>4. /\ region'[r] = [base |-> arg[t].base, nrefs |-> 1,
                       mr |-> [d \in Devs |-> None], state |-> "live"]
      /\ \A q \in Regions : q # r => region'[q] = region[q]
  BY <1>0, <1>1 DEF Shape, RegionShape
<1>5. Shape'
  BY <1>0, ShapeCreate
<1>6. ~Live(r)
  BY <1>1 DEF Live
<1>7. \A b \in Bases : map[b] # r
  BY <1>0, <1>6, Consts DEF MapInv, MapAt
<1>8. \A u \in Threads : pc[u] \in InMap \cup Alone => arg[u].cur \in Regions /\ arg[u].cur # r
  BY <1>0, <1>6, RegionOf
<1>9. ThreadInv'
  <2> SUFFICES ASSUME NEW u \in Threads PROVE At(u)'
    BY DEF ThreadInv
  <2>1. CASE u = t
    <3>1. arg'[t].next \in Devs /\ (arg[t].base \in HostBases => arg'[t].next = arg[t].dev)
      BY <1>2, <1>3, Consts DEF FirstDev
    <3>2. CreateAt(t)'
      BY <1>2, <1>3, <1>4, <3>1 DEF CreateAt, Live
    <3> QED
      BY <2>1, <3>2, <1>2, <1>3 DEF At, ArgsAt, RefAt, DropAt
  <2>2. CASE u # t
    <3>1. At(u)
      BY <1>0 DEF ThreadInv
    <3>2. pc[u] \notin {"dev", "publish"}
      BY <3>1, <1>2, Consts DEF At, CreateAt
    <3> QED
      BY <2>2, <3>1, <3>2, <1>2, <1>4, <1>8, AtKept DEF OthersSame, Alone, InMap
  <2> QED
    BY <2>1, <2>2
<1>10. MapInv'
  <2>1. ASSUME NEW b \in Bases PROVE MapAt(b)'
    <3>1. MapAt(b) /\ (map[b] # None => map[b] \in Regions)
      BY <1>0 DEF MapInv, Shape, TableShape
    <3> QED
      BY <3>1, <1>2, <1>4, <1>7 DEF MapAt, Live
  <2>2. ASSUME NEW q \in Regions PROVE LiveAt(q)' /\ BaseAt(q)'
    <3>1. CASE q = r
      BY <3>1, <1>2, <1>3, <1>4, Consts DEF LiveAt, BaseAt, Live
    <3>2. CASE q # r
      <4>1. LiveAt(q) /\ BaseAt(q)
        BY <1>0 DEF MapInv
      <4>2. \A u \in Threads : pc[u] \in {"dev", "publish", "free"} =>
                                 pc'[u] = pc[u] /\ arg'[u] = arg[u]
        BY <1>2 DEF OthersSame
      <4> QED
        BY <3>2, <4>1, <4>2, <1>2, <1>4 DEF LiveAt, BaseAt, Live
    <3> QED
      BY <3>1, <3>2
  <2> QED
    BY <2>1, <2>2 DEF MapInv
<1>11. ApartInv'
  BY <1>0, <1>2, ApartKept DEF RegPcs, DeregPcs
<1>12. HandleInv'
  <2> SUFFICES ASSUME NEW u \in Threads, NEW q \in Regions, NEW d \in Devs PROVE HandleAt(u, q, d)'
    BY DEF HandleInv
  <2>1. HandleAt(u, q, d) /\ handles[u][<<q, d>>] \in Nat
    BY <1>0 DEF HandleInv, Shape, HandleShape
  <2>2. q = r => ~(handles[u][<<q, d>>] > 0)
    BY <2>1, <1>6 DEF HandleAt
  <2>3. pc'[u] \in RegPcs <=> pc[u] \in RegPcs
    BY <1>2 DEF OthersSame, RegPcs
  <2> QED
    BY <2>1, <2>2, <2>3, <1>2, <1>4 DEF HandleAt, Live
<1>13. CountInv'
  <2> SUFFICES ASSUME NEW q \in Regions, Live(q)' PROVE region'[q].nrefs = Users(q)'
    BY DEF CountInv
  <2>1. HandlesOf(q)' = HandlesOf(q)
    BY <1>2 DEF HandlesOf
  <2>2. CASE q = r
    <3>1. CallsOwning(r) = {}
      BY <1>8 DEF CallsOwning, InMap, Alone
    <3>2. \A x \in (Threads \X Devs) \X (1..MaxCalls) : x \notin HandlesOf(r)
      <4> SUFFICES ASSUME NEW u \in Threads, NEW d \in Devs, NEW k \in 1..MaxCalls,
                          k <= handles[u][<<r, d>>]
                   PROVE  FALSE
        BY DEF HandlesOf
      <4>1. HandleAt(u, r, d) /\ handles[u][<<r, d>>] \in Nat
        BY <1>0 DEF HandleInv, Shape, HandleShape
      <4> QED
        BY <4>1, <1>6 DEF HandleAt
    <3>3. HandlesOf(r) = {}
      BY <3>2 DEF HandlesOf
    <3>4. Cardinality(CallsOwning(r)') = Cardinality(CallsOwning(r)) + 1
      BY <1>2, OwningAfter DEF Owns
    <3> QED
      BY <2>1, <2>2, <3>1, <3>3, <3>4, <1>4, FS_EmptySet DEF Users
  <2>3. CASE q # r
    <3>1. CallsOwning(q)' = CallsOwning(q)
      BY <2>3, <1>2, OwningAfter DEF Owns
    <3> QED
      BY <2>1, <2>3, <3>1, <1>0, <1>4 DEF Users, CountInv, Live
  <2> QED
    BY <2>2, <2>3
<1> QED
  BY <1>5, <1>9, <1>10, <1>11, <1>12, <1>13 DEF IInv

\* FuseLinkRegMr has an MR of the next NIC, from the cache or from the NIC.
LEMMA KeepDev ==
  ASSUME IInv, NEW t \in Threads, NEW m, pc[t] = "dev",
         region' = [region EXCEPT ![arg[t].cur].mr[arg[t].next] = m],
         NextDev(t, arg[t].next), Shape',
         UNCHANGED <<map, mapLock, regLock, handles, calls>>
  PROVE  IInv'
<1>0. Shape /\ ThreadInv /\ MapInv /\ ApartInv /\ HandleInv /\ CountInv
  BY DEF IInv
<1>1. /\ arg[t].cur \in Regions /\ arg[t].base \in Bases /\ arg[t].dev \in CtlDevs
      /\ Live(arg[t].cur) /\ region[arg[t].cur].base = arg[t].base
      /\ map[arg[t].base] = None /\ mapLock = t /\ region[arg[t].cur].nrefs = 1
      /\ arg[t].next \in Devs /\ (arg[t].base \in HostBases => arg[t].next = arg[t].dev)
      /\ \A e \in Devs : e >= arg[t].next => region[arg[t].cur].mr[e] = None
  BY <1>0 DEF ThreadInv, At, ArgsAt, CreateAt
<1>2. PICK r \in Regions : arg[t].cur = r
  BY <1>1
<1>3. /\ pc'[t] \in {"dev", "publish"} /\ OthersSame(t)
      /\ arg'[t].base = arg[t].base /\ arg'[t].dev = arg[t].dev /\ arg'[t].cur = r
      /\ pc'[t] = "dev" => /\ arg[t].next # LastDev(arg[t].base, arg[t].dev)
                           /\ arg'[t].next = arg[t].next + 1
  BY <1>0, <1>2 DEF NextDev, Goto, OthersSame, Shape, PcShape, ArgShape, ArgType
<1>4. /\ region'[r].nrefs = region[r].nrefs
      /\ \A e \in Devs : e # arg[t].next => region'[r].mr[e] = region[r].mr[e]
      /\ \A q \in Regions : q # r => region'[q] = region[q]
      /\ PlacesSame
  BY <1>0, <1>1, <1>2 DEF PlacesSame, Shape, RegionShape, RegionType
<1>5. ThreadInv'
  <2> SUFFICES ASSUME NEW u \in Threads PROVE At(u)'
    BY DEF ThreadInv
  <2>1. CASE u = t
    <3>1. ASSUME pc'[t] = "dev"
          PROVE  /\ arg'[t].next \in Devs /\ arg[t].base \notin HostBases
                 /\ \A e \in Devs : e >= arg'[t].next => region'[r].mr[e] = None
      <4>1. arg[t].base \notin HostBases
        BY <3>1, <1>1, <1>3 DEF LastDev
      <4>2. arg'[t].next = arg[t].next + 1 /\ arg[t].next # NDevs
        BY <3>1, <4>1, <1>3 DEF LastDev
      <4> QED
        BY <4>1, <4>2, <1>1, <1>2, <1>4, ConstantsOK DEF Devs
    <3>2. CreateAt(t)'
      BY <3>1, <1>1, <1>2, <1>3, <1>4 DEF CreateAt, Live, PlacesSame
    <3> QED
      BY <2>1, <3>2, <1>1, <1>3 DEF At, ArgsAt, RefAt, DropAt
  <2>2. CASE u # t
    <3>1. At(u)
      BY <1>0 DEF ThreadInv
    <3>2. ASSUME pc[u] \in InMap \cup Alone PROVE arg[u].cur \in Regions /\ arg[u].cur # r
      <4>1. arg[u].cur \in Regions /\ region[arg[u].cur].base = arg[u].base
        BY <3>2, <1>0, RegionOf
      <4> QED
        BY <2>2, <3>2, <4>1, <1>0, <1>1, <1>2, AloneOne DEF Alone
    <3> QED
      BY <2>2, <3>1, <3>2, <1>3, <1>4, AtKept DEF OthersSame, Alone, InMap
  <2> QED
    BY <2>1, <2>2
<1>6. MapInv'
  BY <1>0, <1>2, <1>3, <1>4, MapKept DEF Alone
<1>7. ApartInv'
  BY <1>0, <1>3, ApartKept DEF RegPcs, DeregPcs
<1>8. HandleInv'
  BY <1>0, <1>3, <1>4, ConstantsOK, HandleKept DEF Shape, CallsShape, RegPcs
<1>9. CountInv'
  <2>1. \A q \in Regions : Owns(t, q)' <=> Owns(t, q)
    BY <1>2, <1>3 DEF Owns
  <2>2. \A q \in Regions : Live(q)' => Live(q) /\ region'[q].nrefs = region[q].nrefs
    BY <1>4 DEF Live, PlacesSame
  <2> QED
    BY <2>1, <2>2, <1>0, <1>3, CountKept
<1> QED
  BY <1>5, <1>6, <1>7, <1>8, <1>9 DEF IInv

LEMMA KeepHit ==
  ASSUME IInv, NEW t \in Threads, RegHit(t)
  PROVE  IInv'
<1>1. Shape'
  BY ShapeHit DEF IInv
<1> QED
  BY <1>1, KeepDev DEF RegHit

LEMMA KeepMiss ==
  ASSUME IInv, NEW t \in Threads, RegMiss(t)
  PROVE  IInv'
<1>1. Shape'
  BY ShapeMiss DEF IInv
<1> QED
  BY <1>1, KeepDev DEF RegMiss

LEMMA KeepRefused ==
  ASSUME IInv, NEW t \in Threads, RegRefused(t)
  PROVE  IInv'
<1>0. Shape /\ ThreadInv /\ MapInv /\ ApartInv /\ HandleInv /\ CountInv
  BY DEF IInv
<1>1. /\ pc[t] = "dev" /\ pc'[t] = "publish" /\ arg' = arg /\ OthersSame(t) /\ PlacesSame
      /\ UNCHANGED <<region, map, mapLock, regLock, handles, calls>>
  BY <1>0 DEF RegRefused, Goto, OthersSame, PlacesSame, Shape, PcShape
<1>2. Shape'
  BY <1>0, ShapeRefused DEF ThreadInv, At
<1>3. ThreadInv'
  <2> SUFFICES ASSUME NEW u \in Threads PROVE At(u)'
    BY DEF ThreadInv
  <2>1. At(u)
    BY <1>0 DEF ThreadInv
  <2>2. CASE u = t
    BY <2>1, <2>2, <1>1 DEF At, ArgsAt, RefAt, CreateAt, DropAt, Live
  <2>3. CASE u # t
    BY <2>1, <2>3, <1>1, AtKept DEF OthersSame
  <2> QED
    BY <2>2, <2>3
<1>4. MapInv'
  BY <1>0, <1>1, MapKept DEF Alone
<1>5. ApartInv'
  BY <1>0, <1>1, ApartKept DEF RegPcs, DeregPcs
<1>6. HandleInv'
  BY <1>0, <1>1, ConstantsOK, HandleKept DEF Shape, CallsShape, RegPcs
<1>7. CountInv'
  BY <1>0, <1>1, CountKept DEF Owns, Live
<1> QED
  BY <1>2, <1>3, <1>4, <1>5, <1>6, <1>7 DEF IInv

LEMMA KeepPublish ==
  ASSUME IInv, NEW t \in Threads, RegPublish(t)
  PROVE  IInv'
<1>0. Shape /\ ThreadInv /\ MapInv /\ ApartInv /\ HandleInv /\ CountInv
  BY DEF IInv
<1>1. PICK r \in Regions : arg[t].cur = r
  BY <1>0 DEF RegPublish, ThreadInv, At, CreateAt
<1>2. /\ pc[t] = "publish" /\ pc'[t] = "idle" /\ arg' = arg /\ OthersSame(t) /\ PlacesSame
      /\ Give(t, r) /\ map' = [map EXCEPT ![arg[t].base] = r]
      /\ UNCHANGED <<region, regLock, calls>>
  BY <1>0, <1>1 DEF RegPublish, Goto, OthersSame, PlacesSame, Shape, PcShape
<1>3. /\ arg[t].base \in Bases /\ arg[t].dev \in CtlDevs /\ Live(r) /\ mapLock = t
      /\ region[r].base = arg[t].base /\ map[arg[t].base] = None
  BY <1>0, <1>1, <1>2 DEF ThreadInv, At, ArgsAt, CreateAt
<1>4. /\ map'[arg[t].base] = r
      /\ \A b \in Bases : b # arg[t].base => map'[b] = map[b]
  BY <1>0, <1>2, <1>3 DEF Shape, TableShape
<1>5. Shape'
  BY <1>0, ShapePublish
<1>6. ThreadInv'
  <2> SUFFICES ASSUME NEW u \in Threads PROVE At(u)'
    BY DEF ThreadInv
  <2>1. CASE u = t
    BY <2>1, <1>2 DEF At, ArgsAt, RefAt, CreateAt, DropAt
  <2>2. CASE u # t
    <3>1. At(u)
      BY <1>0 DEF ThreadInv
    <3>2. pc[u] \notin {"dev", "publish"}
      BY <2>2, <3>1, <1>3 DEF At, CreateAt
    <3>3. ASSUME pc[u] \in InMap \cup Alone PROVE map'[arg[u].base] = map[arg[u].base]
      <4>1. arg[u].base # arg[t].base
        BY <2>2, <3>3, <1>0, <1>2, AloneOne DEF Alone
      <4> QED
        BY <3>3, <4>1, <1>0, <1>4, RegionOf
    <3> QED
      BY <2>2, <3>1, <3>2, <3>3, <1>2, AtKept DEF OthersSame
  <2> QED
    BY <2>1, <2>2
<1>7. MapInv'
  <2>1. ASSUME NEW b \in Bases PROVE MapAt(b)'
    <3>1. MapAt(b)
      BY <1>0 DEF MapInv
    <3> QED
      BY <3>1, <1>2, <1>3, <1>4 DEF MapAt, Live
  <2>2. ASSUME NEW q \in Regions PROVE LiveAt(q)' /\ BaseAt(q)'
    <3>1. LiveAt(q) /\ BaseAt(q)
      BY <1>0 DEF MapInv
    <3>2. CASE q = r
      BY <3>1, <3>2, <1>2, <1>3, <1>4 DEF LiveAt, BaseAt
    <3>3. CASE q # r /\ Live(q)
      <4>1. region[q].base \in Bases
        BY <3>3, <1>0, LiveBase
      <4>2. CASE map[region[q].base] = q
        BY <3>1, <4>1, <4>2, <1>2, <1>3, <1>4, Consts DEF LiveAt, BaseAt
      <4>3. ASSUME NEW u \in Threads, pc[u] \in {"dev", "publish", "free"}, arg[u].cur = q
            PROVE  pc'[u] = pc[u] /\ arg'[u].cur = q
        BY <3>3, <4>3, <1>1, <1>2 DEF OthersSame
      <4> QED
        BY <3>1, <3>3, <4>2, <4>3, <1>2 DEF LiveAt, BaseAt
    <3>4. CASE ~Live(q)
      BY <3>1, <3>4, <1>2 DEF LiveAt, BaseAt, Live
    <3> QED
      BY <3>2, <3>3, <3>4
  <2> QED
    BY <2>1, <2>2 DEF MapInv
<1>8. ApartInv'
  BY <1>0, <1>2, ApartKept DEF RegPcs, DeregPcs
<1>9. HandleInv' /\ handles[t][<<r, arg[t].dev>>] < MaxCalls
  <2>1. \A b \in Bases \cup {None} : map[b] # None => map'[b] = map[b]
    BY <1>0, <1>2, <1>3 DEF Shape, TableShape
  <2> QED
    BY <2>1, <1>0, <1>2, <1>3, <1>4, HandleGiven, LiveBase DEF RegPcs
<1>10. CountInv'
  <2> SUFFICES ASSUME NEW q \in Regions, Live(q) PROVE region[q].nrefs = Users(q)'
    BY <1>2 DEF CountInv, Live
  <2>1. region[q].nrefs = Users(q)
    BY <1>0 DEF CountInv
  <2>2. /\ Cardinality(HandlesOf(r)') = Cardinality(HandlesOf(r)) + 1
        /\ q # r => HandlesOf(q)' = HandlesOf(q)
    BY <1>0, <1>2, <1>3, <1>9, HandleMore, Consts DEF Give, Shape
  <2>3. CASE q = r
    <3>1. Owns(t, q) /\ ~Owns(t, q)'
      BY <2>3, <1>1, <1>2 DEF Owns
    <3>2. Cardinality(CallsOwning(q)') = Cardinality(CallsOwning(q)) - 1
      BY <3>1, <1>2, OwningAfter
    <3> QED
      BY <2>1, <2>2, <2>3, <3>2, UsersCount DEF Users
  <2>4. CASE q # r
    <3>1. CallsOwning(q)' = CallsOwning(q)
      BY <2>4, <1>1, <1>2, OwningAfter DEF Owns
    <3> QED
      BY <2>1, <2>2, <2>4, <3>1 DEF Users
  <2> QED
    BY <2>3, <2>4
<1> QED
  BY <1>5, <1>6, <1>7, <1>8, <1>9, <1>10 DEF IInv

LEMMA KeepDeregCall ==
  ASSUME IInv, Serial, NEW t \in Threads, NEW r \in Regions, NEW d \in CtlDevs, DeregCall(t, r, d)
  PROVE  IInv'
<1>0. Shape /\ ThreadInv /\ MapInv /\ ApartInv /\ HandleInv /\ CountInv
  BY DEF IInv
<1>1. /\ pc[t] = "idle" /\ pc'[t] = "drop" /\ OthersSame(t) /\ PlacesSame
      /\ arg'[t].base = region[r].base /\ arg'[t].dev = d /\ arg'[t].cur = r
      /\ handles[t][<<r, d>>] > 0
      /\ handles' = [handles EXCEPT ![t][<<r, d>>] = @ - 1]
      /\ UNCHANGED <<region, map, mapLock, regLock, calls>>
  BY <1>0 DEF DeregCall, Goto, OthersSame, PlacesSame, Shape, PcShape, ArgShape
<1>2. d \in Devs /\ HandleAt(t, r, d)
  BY <1>0, Consts DEF HandleInv
<1>3. Live(r) /\ region[r].base \in Bases /\ map[region[r].base] = r
  BY <1>0, <1>1, <1>2, LiveBase DEF HandleAt
<1>4. Shape'
  BY <1>0, ShapeDeregCall
<1>5. ThreadInv'
  <2> SUFFICES ASSUME NEW u \in Threads PROVE At(u)'
    BY DEF ThreadInv
  <2>1. CASE u = t
    BY <2>1, <1>1, <1>3 DEF At, ArgsAt, RefAt, CreateAt, DropAt
  <2>2. CASE u # t
    BY <2>2, <1>0, <1>1, AtKept DEF OthersSame, ThreadInv
  <2> QED
    BY <2>1, <2>2
<1>6. MapInv'
  BY <1>0, <1>1, MapKept DEF Alone
<1>7. ApartInv'
  <2>1. \A u \in Threads : pc[u] \in RegPcs => arg[u].base # region[r].base
    BY DEF DeregCall, Registering
  <2> QED
    BY <2>1, <1>0, <1>1 DEF ApartInv, OthersSame, RegPcs, DeregPcs
<1>8. handles[t][<<r, d>>] \in Nat /\ handles[t][<<r, d>>] <= MaxCalls
  BY <1>0, <1>2, ConstantsOK DEF HandleAt, Shape, HandleShape, CallsShape
<1>9. HandleInv'
  <2> SUFFICES ASSUME NEW u \in Threads, NEW q \in Regions, NEW e \in Devs PROVE HandleAt(u, q, e)'
    BY DEF HandleInv
  <2>1. HandleAt(u, q, e) /\ handles[u][<<q, e>>] \in Nat /\ calls \in Nat
    BY <1>0, ConstantsOK DEF HandleInv, Shape, HandleShape, CallsShape
  <2>2. handles'[u][<<q, e>>] = IF u = t /\ q = r /\ e = d THEN handles[t][<<r, d>>] - 1
                                                         ELSE handles[u][<<q, e>>]
    BY <1>0, <1>1, <1>2 DEF Shape, HandleShape
  <2>3. handles'[u][<<q, e>>] <= handles[u][<<q, e>>] /\ handles'[u][<<q, e>>] \in Int
    BY <2>1, <2>2
  <2>4. pc'[u] \in RegPcs => pc[u] \in RegPcs
    BY <1>1 DEF OthersSame, RegPcs
  <2> QED
    BY <2>1, <2>3, <2>4, <1>1 DEF HandleAt, Live
<1>10. CountInv'
  <2> SUFFICES ASSUME NEW q \in Regions, Live(q) PROVE region[q].nrefs = Users(q)'
    BY <1>1 DEF CountInv, Live
  <2>1. region[q].nrefs = Users(q)
    BY <1>0 DEF CountInv
  <2>2. /\ Cardinality(HandlesOf(r)') = Cardinality(HandlesOf(r)) - 1
        /\ q # r => HandlesOf(q)' = HandlesOf(q)
    BY <1>0, <1>1, <1>2, <1>8, HandleLess DEF Shape
  <2>3. CASE q = r
    <3>1. ~Owns(t, q) /\ Owns(t, q)'
      BY <2>3, <1>1 DEF Owns
    <3>2. Cardinality(CallsOwning(q)') = Cardinality(CallsOwning(q)) + 1
      BY <3>1, <1>1, OwningAfter
    <3> QED
      BY <2>1, <2>2, <2>3, <3>2, UsersCount DEF Users
  <2>4. CASE q # r
    <3>1. CallsOwning(q)' = CallsOwning(q)
      BY <2>4, <1>1, OwningAfter DEF Owns
    <3> QED
      BY <2>1, <2>2, <2>4, <3>1 DEF Users
  <2> QED
    BY <2>3, <2>4
<1> QED
  BY <1>4, <1>5, <1>6, <1>7, <1>9, <1>10 DEF IInv

\* A region has as many references as users: a thread that owns one finds it.
LEMMA OwnerCounted ==
  ASSUME Shape, CountInv, NEW r \in Regions, Live(r), NEW t \in Threads, Owns(t, r)
  PROVE  region[r].nrefs > 0
<1>1. CallsOwning(r) # {}
  BY DEF CallsOwning, Owns
<1>2. Cardinality(CallsOwning(r)) # 0
  BY <1>1, UsersFinite, FS_EmptySet
<1> QED
  BY <1>2, UsersCount DEF CountInv, Users

LEMMA HolderCounted ==
  ASSUME Shape, HandleInv, CountInv, NEW r \in Regions, Live(r),
         NEW t \in Threads, NEW d \in Devs, handles[t][<<r, d>>] > 0
  PROVE  region[r].nrefs > 0
<1>1. handles[t][<<r, d>>] \in Nat /\ 1 \in 1..MaxCalls
  BY ConstantsOK DEF Shape, HandleShape, CallsShape, HandleInv, HandleAt, RegPcs
<1>2. <<<<t, d>>, 1>> \in HandlesOf(r)
  BY <1>1 DEF HandlesOf
<1>3. HandlesOf(r) # {}
  BY <1>2
<1>4. Cardinality(HandlesOf(r)) # 0
  BY <1>3, UsersFinite, FS_EmptySet
<1> QED
  BY <1>4, UsersCount DEF CountInv, Users

LEMMA KeepDrop ==
  ASSUME IInv, NEW t \in Threads, DeregDrop(t)
  PROVE  IInv'
<1>0. Shape /\ ThreadInv /\ MapInv /\ ApartInv /\ HandleInv /\ CountInv
  BY DEF IInv
<1>1. PICK r \in Regions : arg[t].cur = r
  BY <1>0 DEF DeregDrop, ThreadInv, At, DropAt
<1>2. /\ pc[t] = "drop" /\ regLock[r] = None /\ OthersSame(t) /\ arg' = arg
      /\ IF region[r].nrefs > 1 THEN pc'[t] = "idle" /\ regLock' = regLock
         ELSE pc'[t] = "unreg" /\ regLock' = [regLock EXCEPT ![r] = t]
      /\ UNCHANGED <<map, mapLock, handles, calls>>
  BY <1>0, <1>1 DEF DeregDrop, Goto, OthersSame, Shape, PcShape
<1>3. /\ arg[t].base \in Bases /\ arg[t].dev \in CtlDevs /\ Live(r)
      /\ region[r].base = arg[t].base /\ map[arg[t].base] = r
  BY <1>0, <1>1, <1>2, RegionOf DEF InMap
<1>4. region[r].nrefs > 0 /\ region[r].nrefs \in Nat
  BY <1>0, <1>1, <1>2, <1>3, OwnerCounted DEF Owns, Shape, RegionShape, RegionType
<1>5. /\ region'[r].nrefs = region[r].nrefs - 1 /\ region'[r].mr = region[r].mr
      /\ \A q \in Regions : q # r => region'[q] = region[q]
      /\ PlacesSame
  BY <1>0, <1>1 DEF DeregDrop, PlacesSame, Shape, RegionShape, RegionType
<1>6. regLock'[r] = (IF region[r].nrefs > 1 THEN None ELSE t)
      /\ \A q \in Regions : q # r => regLock'[q] = regLock[q]
  BY <1>0, <1>2 DEF Shape, LockShape
<1>7. Shape'
  BY <1>0, <1>1, <1>4, ShapeDrop
<1>8. ThreadInv'
  <2> SUFFICES ASSUME NEW u \in Threads PROVE At(u)'
    BY DEF ThreadInv
  <2>1. CASE u = t
    <3>1. pc'[t] = "unreg" => region'[r].nrefs = 0 /\ regLock'[r] = t
      BY <1>2, <1>4, <1>5, <1>6
    <3> QED
      BY <2>1, <3>1, <1>1, <1>2, <1>3 DEF At, ArgsAt, RefAt, CreateAt, DropAt
  <2>2. CASE u # t
    <3>1. At(u)
      BY <1>0 DEF ThreadInv
    <3>2. ASSUME pc[u] \in Alone \cup {"unreg", "erase"}
          PROVE  arg[u].cur \in Regions /\ arg[u].cur # r
      <4>1. CASE pc[u] \in Alone
        BY <4>1, <1>0, <1>3, RegionOf, Consts DEF Alone, InMap
      <4>2. CASE pc[u] \in {"unreg", "erase"}
        BY <4>2, <3>1, <1>2, Consts DEF At, DropAt
      <4> QED
        BY <3>2, <4>1, <4>2
    <3> QED
      BY <2>2, <3>1, <3>2, <1>2, <1>5, <1>6, AtKept DEF OthersSame
  <2> QED
    BY <2>1, <2>2
<1>9. MapInv'
  BY <1>0, <1>2, <1>5, MapKept DEF Alone
<1>10. ApartInv'
  BY <1>0, <1>2, ApartKept DEF RegPcs, DeregPcs
<1>11. HandleInv'
  BY <1>0, <1>2, <1>5, ConstantsOK, HandleKept DEF Shape, CallsShape, RegPcs
<1>12. CountInv'
  <2> SUFFICES ASSUME NEW q \in Regions, Live(q)' PROVE region'[q].nrefs = Users(q)'
    BY DEF CountInv
  <2>1. region[q].nrefs = Users(q)
    BY <1>0, <1>5 DEF CountInv, Live, PlacesSame
  <2>2. HandlesOf(q)' = HandlesOf(q)
    BY <1>2 DEF HandlesOf
  <2>3. CASE q = r
    <3>1. Owns(t, q) /\ ~Owns(t, q)'
      BY <2>3, <1>1, <1>2 DEF Owns
    <3>2. Cardinality(CallsOwning(q)') = Cardinality(CallsOwning(q)) - 1
      BY <3>1, <1>2, OwningAfter
    <3> QED
      BY <2>1, <2>2, <2>3, <3>2, <1>5, UsersCount DEF Users
  <2>4. CASE q # r
    <3>1. CallsOwning(q)' = CallsOwning(q)
      BY <2>4, <1>1, <1>2, OwningAfter DEF Owns
    <3> QED
      BY <2>1, <2>2, <2>4, <3>1, <1>5 DEF Users
  <2> QED
    BY <2>3, <2>4
<1> QED
  BY <1>7, <1>8, <1>9, <1>10, <1>11, <1>12 DEF IInv

\* The MRs are given back, all of them or up to one that the library refuses.
LEMMA KeepUnreg ==
  ASSUME IInv, NEW t \in Threads, pc[t] = "unreg", NEW left \in [Devs -> Mrs \cup {None}],
         region' = [region EXCEPT ![arg[t].cur].mr = left],
         \/ Goto(t, "idle")
         \/ Goto(t, "erase") /\ \A d \in Devs : left[d] = None,
         Shape', UNCHANGED <<map, mapLock, regLock, arg, handles, calls>>
  PROVE  IInv'
<1>0. Shape /\ ThreadInv /\ MapInv /\ ApartInv /\ HandleInv /\ CountInv
  BY DEF IInv
<1>1. PICK r \in Regions : arg[t].cur = r
  BY <1>0 DEF ThreadInv, At, DropAt
<1>2. /\ pc'[t] \in {"idle", "erase"} /\ OthersSame(t)
      /\ pc'[t] = "erase" => \A d \in Devs : left[d] = None
  BY <1>0 DEF Goto, OthersSame, Shape, PcShape
<1>3. /\ regLock[r] = t /\ region[r].nrefs = 0 /\ arg[t].base \in Bases /\ arg[t].dev \in CtlDevs
      /\ map[arg[t].base] = r
  BY <1>0, <1>1 DEF ThreadInv, At, ArgsAt, DropAt
<1>4. /\ region'[r].nrefs = region[r].nrefs /\ region'[r].mr = left
      /\ \A q \in Regions : q # r => region'[q] = region[q]
      /\ PlacesSame
  BY <1>0, <1>1 DEF PlacesSame, Shape, RegionShape, RegionType
<1>5. ThreadInv'
  <2> SUFFICES ASSUME NEW u \in Threads PROVE At(u)'
    BY DEF ThreadInv
  <2>1. CASE u = t
    BY <2>1, <1>1, <1>2, <1>3, <1>4 DEF At, ArgsAt, RefAt, CreateAt, DropAt
  <2>2. CASE u # t
    <3>1. At(u)
      BY <1>0 DEF ThreadInv
    <3>2. ASSUME pc[u] \in Alone \cup {"unreg", "erase"}
          PROVE  arg[u].cur \in Regions /\ arg[u].cur # r
      <4>1. CASE pc[u] \in Alone
        <5>1. region[r].base = arg[t].base
          BY <1>0, <1>1, RegionOf DEF InMap
        <5> QED
          BY <4>1, <5>1, <1>0, <1>3, RegionOf, Consts DEF Alone, InMap
      <4>2. CASE pc[u] \in {"unreg", "erase"}
        BY <2>2, <4>2, <3>1, <1>3, Consts DEF At, DropAt
      <4> QED
        BY <3>2, <4>1, <4>2
    <3> QED
      BY <2>2, <3>1, <3>2, <1>2, <1>4, AtKept DEF OthersSame
  <2> QED
    BY <2>1, <2>2
<1>6. MapInv'
  BY <1>0, <1>2, <1>4, MapKept DEF Alone
<1>7. ApartInv'
  BY <1>0, <1>2, ApartKept DEF RegPcs, DeregPcs
<1>8. HandleInv'
  BY <1>0, <1>2, <1>4, ConstantsOK, HandleKept DEF Shape, CallsShape, RegPcs
<1>9. CountInv'
  <2>1. \A q \in Regions : Owns(t, q)' <=> Owns(t, q)
    BY <1>2 DEF Owns
  <2>2. \A q \in Regions : Live(q)' => Live(q) /\ region'[q].nrefs = region[q].nrefs
    BY <1>4 DEF Live, PlacesSame
  <2> QED
    BY <2>1, <2>2, <1>0, <1>2, CountKept
<1> QED
  BY <1>5, <1>6, <1>7, <1>8, <1>9 DEF IInv

LEMMA KeepMrs ==
  ASSUME IInv, NEW t \in Threads, DeregMrs(t)
  PROVE  IInv'
<1> DEFINE left == [d \in Devs |-> None]
<1>1. left \in [Devs -> Mrs \cup {None}] /\ \A d \in Devs : left[d] = None
  OBVIOUS
<1>2. Shape'
  BY ShapeMrs DEF IInv
<1>3. region' = [region EXCEPT ![arg[t].cur].mr = left]
  BY DEF DeregMrs
<1> HIDE DEF left
<1> QED
  BY <1>1, <1>2, <1>3, KeepUnreg DEF DeregMrs

LEMMA KeepDeregRefused ==
  ASSUME IInv, NEW t \in Threads, DeregRefused(t)
  PROVE  IInv'
<1>1. Shape'
  BY ShapeDeregRefused DEF IInv
<1>2. arg[t].cur \in Regions /\ Shape
  BY DEF DeregRefused, IInv, ThreadInv, At, DropAt
<1>3. PICK d \in Devs :
        region' = [region EXCEPT ![arg[t].cur].mr =
          [e \in Devs |-> IF e < d THEN None ELSE @[e]]]
  BY Zenon DEF DeregRefused
<1> DEFINE left == [e \in Devs |-> IF e < d THEN None ELSE region[arg[t].cur].mr[e]]
<1>4. left \in [Devs -> Mrs \cup {None}]
  BY <1>2 DEF Shape, RegionShape, RegionType
<1>5. region' = [region EXCEPT ![arg[t].cur].mr = left]
  BY <1>2, <1>3 DEF Shape, RegionShape
<1> HIDE DEF left
<1> QED
  BY <1>1, <1>4, <1>5, KeepUnreg DEF DeregRefused

LEMMA KeepErase ==
  ASSUME IInv, NEW t \in Threads, DeregErase(t)
  PROVE  IInv'
<1>0. Shape /\ ThreadInv /\ MapInv /\ ApartInv /\ HandleInv /\ CountInv
  BY DEF IInv
<1>1. PICK r \in Regions : arg[t].cur = r
  BY <1>0 DEF DeregErase, ThreadInv, At, DropAt
<1>2. /\ arg[t].base \in Bases /\ arg[t].dev \in CtlDevs /\ Live(r)
      /\ region[r].base = arg[t].base /\ map[arg[t].base] = r
      /\ regLock[r] = t /\ region[r].nrefs = 0 /\ \A d \in Devs : region[r].mr[d] = None
  BY <1>0, <1>1, RegionOf DEF DeregErase, ThreadInv, At, DropAt, InMap
<1>3. /\ pc[t] = "erase" /\ pc'[t] = "free" /\ arg' = arg /\ OthersSame(t) /\ PlacesSame
      /\ mapLock = None /\ map' = [map EXCEPT ![arg[t].base] = None]
      /\ regLock' = [regLock EXCEPT ![r] = None]
      /\ UNCHANGED <<region, mapLock, handles, calls>>
  BY <1>0, <1>1, <1>2 DEF DeregErase, Goto, OthersSame, PlacesSame, Shape, PcShape
<1>4. /\ map'[arg[t].base] = None
      /\ \A b \in Bases : b # arg[t].base => map'[b] = map[b]
      /\ \A q \in Regions : q # r => regLock'[q] = regLock[q]
  BY <1>0, <1>2, <1>3 DEF Shape, TableShape, LockShape
<1>5. Shape'
  BY <1>0, ShapeErase
<1>6. ASSUME NEW u \in Threads, u # t, pc[u] \in InMap \cup Alone
      PROVE  arg[u].base # arg[t].base /\ arg[u].cur \in Regions /\ arg[u].cur # r
  <2>1. /\ arg[u].cur \in Regions /\ Live(arg[u].cur) /\ region[arg[u].cur].base = arg[u].base
        /\ map[arg[u].base] = IF pc[u] \in InMap THEN arg[u].cur ELSE None
    BY <1>0, <1>6, RegionOf
  <2>2. SUFFICES arg[u].base # arg[t].base
    BY <2>1, <1>2
  <2>3. SUFFICES ASSUME arg[u].base = arg[t].base PROVE FALSE
    OBVIOUS
  <2>4. pc[u] \in InMap /\ arg[u].cur = r
    BY <2>1, <2>3, <1>2, Consts
  <2>5. At(u)
    BY <1>0 DEF ThreadInv
  <2>6. pc[u] # "ref"
    BY <2>3, <1>0, <1>3 DEF ApartInv, RegPcs, DeregPcs
  <2>7. pc[u] \notin {"unreg", "erase"}
    BY <2>4, <2>5, <1>2, <1>6 DEF At, DropAt
  <2>8. pc[u] # "drop"
    BY <2>4, <1>0, <1>2, OwnerCounted DEF Owns
  <2> QED
    BY <2>4, <2>6, <2>7, <2>8 DEF InMap
<1>7. ThreadInv'
  <2> SUFFICES ASSUME NEW u \in Threads PROVE At(u)'
    BY DEF ThreadInv
  <2>1. CASE u = t
    BY <2>1, <1>1, <1>2, <1>3, <1>4 DEF At, ArgsAt, RefAt, CreateAt, DropAt, Live
  <2>2. CASE u # t
    <3>1. At(u)
      BY <1>0 DEF ThreadInv
    <3>2. pc[u] \in InMap \cup Alone => map'[arg[u].base] = map[arg[u].base]
      BY <2>2, <1>0, <1>4, <1>6, RegionOf
    <3>3. pc[u] \in {"unreg", "erase"} => regLock'[arg[u].cur] = regLock[arg[u].cur]
      BY <2>2, <1>4, <1>6 DEF InMap
    <3> QED
      BY <2>2, <3>1, <3>2, <3>3, <1>3, AtKept DEF OthersSame
  <2> QED
    BY <2>1, <2>2
<1>8. MapInv'
  <2>1. ASSUME NEW b \in Bases PROVE MapAt(b)'
    BY <1>0, <1>3, <1>4 DEF MapInv, MapAt, Live
  <2>2. ASSUME NEW q \in Regions PROVE LiveAt(q)' /\ BaseAt(q)'
    <3>1. LiveAt(q) /\ BaseAt(q)
      BY <1>0 DEF MapInv
    <3>2. CASE q = r
      BY <3>1, <3>2, <1>1, <1>3 DEF LiveAt, BaseAt
    <3>3. CASE q # r /\ Live(q)
      <4>1. region[q].base \in Bases
        BY <3>3, <1>0, LiveBase
      <4>2. CASE map[region[q].base] = q
        <5>1. region[q].base # arg[t].base
          BY <3>3, <4>2, <1>2
        <5> QED
          BY <3>1, <4>1, <4>2, <5>1, <1>3, <1>4 DEF LiveAt, BaseAt
      <4>3. ASSUME NEW u \in Threads, pc[u] \in {"dev", "publish", "free"}, arg[u].cur = q
            PROVE  pc'[u] = pc[u] /\ arg'[u].cur = q
        BY <3>3, <4>3, <1>1, <1>3 DEF OthersSame
      <4> QED
        BY <3>1, <3>3, <4>2, <4>3, <1>3 DEF LiveAt, BaseAt
    <3>4. CASE ~Live(q)
      BY <3>1, <3>4, <1>3 DEF LiveAt, BaseAt, Live
    <3> QED
      BY <3>2, <3>3, <3>4
  <2> QED
    BY <2>1, <2>2 DEF MapInv
<1>9. ApartInv'
  <2>1. \A u \in Threads : u # t /\ pc[u] = "free" => arg[u].base # arg[t].base
    BY <1>6 DEF Alone
  <2> QED
    BY <2>1, <1>0, <1>3 DEF ApartInv, OthersSame, RegPcs, DeregPcs
<1>10. HandleInv'
  <2> SUFFICES ASSUME NEW u \in Threads, NEW q \in Regions, NEW d \in Devs PROVE HandleAt(u, q, d)'
    BY DEF HandleInv
  <2>1. HandleAt(u, q, d)
    BY <1>0 DEF HandleInv
  <2>2. pc'[u] \in RegPcs <=> pc[u] \in RegPcs
    BY <1>3 DEF OthersSame, RegPcs
  <2>3. ASSUME handles[u][<<q, d>>] > 0 PROVE map'[region[q].base] = q
    <3>1. Live(q) /\ map[region[q].base] = q
      BY <2>1, <2>3 DEF HandleAt
    <3>2. region[q].base \in Bases /\ region[q].nrefs > 0
      BY <3>1, <2>3, <1>0, LiveBase, HolderCounted
    <3>3. region[q].base # arg[t].base
      BY <3>1, <3>2, <1>2
    <3> QED
      BY <3>1, <3>2, <3>3, <1>4
  <2> QED
    BY <2>1, <2>2, <2>3, <1>3 DEF HandleAt, Live, RegPcs
<1>11. CountInv'
  BY <1>0, <1>3, CountKept DEF Owns, Live
<1> QED
  BY <1>5, <1>7, <1>8, <1>9, <1>10, <1>11 DEF IInv

LEMMA KeepFree ==
  ASSUME IInv, NEW t \in Threads, DeregFree(t)
  PROVE  IInv'
<1>0. Shape /\ ThreadInv /\ MapInv /\ ApartInv /\ HandleInv /\ CountInv
  BY DEF IInv
<1>1. PICK r \in Regions : arg[t].cur = r
  BY <1>0 DEF DeregFree, ThreadInv, At, DropAt
<1>2. /\ arg[t].base \in Bases /\ Live(r) /\ region[r].base = arg[t].base
      /\ map[arg[t].base] = None
  BY <1>0, <1>1 DEF DeregFree, ThreadInv, At, ArgsAt, DropAt
<1>3. /\ pc[t] = "free" /\ pc'[t] = "idle" /\ arg' = arg /\ OthersSame(t)
      /\ UNCHANGED <<map, mapLock, regLock, handles, calls>>
  BY <1>0 DEF DeregFree, Goto, OthersSame, Shape, PcShape
<1>4. /\ region'[r].state = "freed" /\ region'[r].base = region[r].base
      /\ \A q \in Regions : q # r => region'[q] = region[q]
  BY <1>0, <1>1 DEF DeregFree, Shape, RegionShape, RegionType
<1>5. Shape'
  BY <1>0, ShapeFree
<1>6. ThreadInv'
  <2> SUFFICES ASSUME NEW u \in Threads PROVE At(u)'
    BY DEF ThreadInv
  <2>1. CASE u = t
    BY <2>1, <1>3 DEF At, ArgsAt, RefAt, CreateAt, DropAt
  <2>2. CASE u # t
    <3>1. At(u)
      BY <1>0 DEF ThreadInv
    <3>2. ASSUME pc[u] \in InMap \cup Alone PROVE arg[u].cur \in Regions /\ arg[u].cur # r
      <4>1. arg[u].cur \in Regions /\ region[arg[u].cur].base = arg[u].base
        BY <3>2, <1>0, RegionOf
      <4> QED
        BY <2>2, <3>2, <4>1, <1>0, <1>2, <1>3, AloneOne DEF Alone
    <3> QED
      BY <2>2, <3>1, <3>2, <1>3, <1>4, AtKept DEF OthersSame, InMap
  <2> QED
    BY <2>1, <2>2
<1>7. MapInv'
  <2>1. ASSUME NEW b \in Bases PROVE MapAt(b)'
    <3>1. MapAt(b) /\ (map[b] # None => map[b] \in Regions /\ map[b] # r)
      BY <1>0, <1>2 DEF MapInv, MapAt, Shape, TableShape
    <3> QED
      BY <3>1, <1>3, <1>4 DEF MapAt, Live
  <2>2. ASSUME NEW q \in Regions PROVE LiveAt(q)' /\ BaseAt(q)'
    <3>1. LiveAt(q) /\ BaseAt(q)
      BY <1>0 DEF MapInv
    <3>2. CASE q = r
      BY <3>1, <3>2, <1>2, <1>4 DEF LiveAt, BaseAt, Live
    <3>3. CASE q # r
      <4>1. ASSUME NEW u \in Threads, pc[u] \in {"dev", "publish", "free"}, arg[u].cur = q
            PROVE  pc'[u] = pc[u] /\ arg'[u].cur = q
        BY <3>3, <4>1, <1>1, <1>3 DEF OthersSame
      <4> QED
        BY <3>1, <3>3, <4>1, <1>3, <1>4 DEF LiveAt, BaseAt, Live
    <3> QED
      BY <3>2, <3>3
  <2> QED
    BY <2>1, <2>2 DEF MapInv
<1>8. ApartInv'
  BY <1>0, <1>3, ApartKept DEF RegPcs, DeregPcs
<1>9. HandleInv'
  <2> SUFFICES ASSUME NEW u \in Threads, NEW q \in Regions, NEW d \in Devs PROVE HandleAt(u, q, d)'
    BY DEF HandleInv
  <2>1. HandleAt(u, q, d)
    BY <1>0 DEF HandleInv
  <2>2. pc'[u] \in RegPcs <=> pc[u] \in RegPcs
    BY <1>3 DEF OthersSame, RegPcs
  <2>3. handles[u][<<q, d>>] > 0 => q # r
    BY <2>1, <1>2, Consts DEF HandleAt
  <2> QED
    BY <2>1, <2>2, <2>3, <1>3, <1>4 DEF HandleAt, Live, RegPcs
<1>10. CountInv'
  <2>1. \A q \in Regions : Live(q)' => Live(q) /\ region'[q].nrefs = region[q].nrefs
    BY <1>4 DEF Live
  <2>2. \A q \in Regions : Owns(t, q)' <=> Owns(t, q)
    BY <1>3 DEF Owns
  <2> QED
    BY <2>1, <2>2, <1>0, <1>3, CountKept
<1> QED
  BY <1>5, <1>6, <1>7, <1>8, <1>9, <1>10 DEF IInv

-----------------------------------------------------------------------------
LEMMA InitIInv == Init => IInv
<1> SUFFICES ASSUME Init PROVE IInv
  OBVIOUS
<1>1. RegionShape
  <2>1. NoRegion \in RegionType
    BY DEF NoRegion, RegionType
  <2> QED
    BY <2>1 DEF Init, RegionShape
<1>2. TableShape
  BY DEF Init, TableShape, NoMr
<1>3. HandleShape
  BY DEF Init, HandleShape
<1>4. ArgShape
  <2> DEFINE a == [base |-> None, dev |-> None, cur |-> None, next |-> None]
  <2>1. a \in ArgType
    BY DEF ArgType
  <2>2. arg = [t \in Threads |-> a]
    BY DEF Init
  <2> HIDE DEF a
  <2> QED
    BY <2>1, <2>2 DEF ArgShape
<1>12. LockShape /\ PcShape
  BY DEF Init, LockShape, PcShape, Pcs
<1>13. CallsShape
  BY ConstantsOK DEF Init, CallsShape
<1>5. Shape
  BY <1>1, <1>2, <1>3, <1>4, <1>12, <1>13 DEF Shape
<1>6. ThreadInv
  BY DEF Init, ThreadInv, At, ArgsAt, RefAt, CreateAt, DropAt
<1>7. \A r \in Regions : ~Live(r)
  BY DEF Init, Live, NoRegion
<1>8. MapInv
  BY <1>7 DEF Init, MapInv, MapAt, LiveAt, BaseAt, NoRegion
<1>9. ApartInv
  BY DEF Init, ApartInv, RegPcs
<1>10. HandleInv
  <2>1. ASSUME NEW t \in Threads, NEW r \in Regions, NEW d \in Devs PROVE HandleAt(t, r, d)
    <3>1. handles[t][<<r, d>>] = 0
      BY DEF Init
    <3> QED
      BY <3>1 DEF Init, HandleAt, RegPcs
  <2> QED
    BY <2>1 DEF HandleInv
<1>11. CountInv
  BY <1>7 DEF CountInv
<1> QED
  BY <1>5, <1>6, <1>8, <1>9, <1>10, <1>11 DEF IInv

LEMMA SameIInv == IInv /\ UNCHANGED vars => IInv'
<1> SUFFICES ASSUME IInv, UNCHANGED vars PROVE IInv'
  OBVIOUS
<1> USE DEF vars, IInv
<1>1. Shape'
  BY DEF Shape, RegionShape, TableShape, LockShape, PcShape, ArgShape, HandleShape, CallsShape
<1>2. ThreadInv'
  BY DEF ThreadInv, At, ArgsAt, RefAt, CreateAt, DropAt, Live
<1>3. MapInv'
  BY DEF MapInv, MapAt, LiveAt, BaseAt, Live
<1>4. ApartInv'
  BY DEF ApartInv
<1>5. HandleInv'
  BY DEF HandleInv, HandleAt, Live
<1>6. CountInv'
  BY DEF CountInv, Users, HandlesOf, CallsOwning, Live
<1> QED
  BY <1>1, <1>2, <1>3, <1>4, <1>5, <1>6

LEMMA NextIInv == IInv /\ Serial /\ [Next]_vars => IInv'
<1> SUFFICES ASSUME IInv, Serial, [Next]_vars PROVE IInv'
  OBVIOUS
<1>1. ASSUME NEW t \in Threads, NEW b \in Bases, NEW d \in CtlDevs, RegCall(t, b, d)
      PROVE  IInv'
  BY <1>1, KeepRegCall
<1>2. ASSUME NEW t \in Threads, NEW r \in Regions, NEW d \in CtlDevs, DeregCall(t, r, d)
      PROVE  IInv'
  BY <1>2, KeepDeregCall
<1>3. ASSUME NEW t \in Threads, Step(t) PROVE IInv'
  BY <1>3, KeepFind, KeepRef, KeepCreate, KeepHit, KeepMiss, KeepRefused, KeepPublish,
     KeepDrop, KeepMrs, KeepDeregRefused, KeepErase, KeepFree DEF Step
<1>4. CASE UNCHANGED vars
  BY <1>4, SameIInv
<1> QED
  BY <1>1, <1>2, <1>3, <1>4 DEF Next

\* What the invariant says of the users of a region.
LEMMA IInvRefs == IInv => RefsCounted
<1> SUFFICES ASSUME IInv, NEW r \in Regions
             PROVE  /\ Live(r) => region[r].nrefs = Users(r)
                    /\ Users(r) > 0 \/ (\E t \in Threads : pc[t] = "ref" /\ arg[t].cur = r) =>
                         Live(r) /\ ~Dying(r)
  BY DEF RefsCounted, Live
<1>0. Shape /\ ThreadInv /\ MapInv /\ ApartInv /\ HandleInv /\ CountInv
  BY DEF IInv
<1>1. Live(r) => region[r].nrefs = Users(r)
  BY <1>0 DEF CountInv
<1>2. ASSUME Users(r) > 0 PROVE Live(r) /\ ~Dying(r)
  <2>1. HandlesOf(r) # {} \/ CallsOwning(r) # {}
    BY <1>2, FS_EmptySet, UsersCount DEF Users
  <2>2. ASSUME HandlesOf(r) # {} PROVE Live(r)
    <3>1. PICK t \in Threads, d \in Devs, k \in 1..MaxCalls : k <= handles[t][<<r, d>>]
      BY <2>2 DEF HandlesOf
    <3>2. handles[t][<<r, d>>] \in Nat /\ HandleAt(t, r, d)
      BY <1>0 DEF HandleInv, Shape, HandleShape
    <3> QED
      BY <3>1, <3>2 DEF HandleAt
  <2>3. ASSUME CallsOwning(r) # {} PROVE Live(r)
    BY <2>3, <1>0, RegionOf DEF CallsOwning, InMap, Alone
  <2>4. Live(r)
    BY <2>1, <2>2, <2>3
  <2>5. region[r].nrefs > 0
    BY <2>4, <1>1, <1>2
  <2>6. ~Dying(r)
    BY <2>5, <1>0 DEF Dying, DeregPcs, ThreadInv, At, DropAt
  <2> QED
    BY <2>4, <2>6
<1>3. ASSUME NEW t \in Threads, pc[t] = "ref", arg[t].cur = r PROVE Live(r) /\ ~Dying(r)
  <2>1. Live(r) /\ region[r].base = arg[t].base
    BY <1>0, <1>3, RegionOf DEF InMap
  <2>2. ASSUME NEW u \in Threads, arg[u].cur = r, pc[u] \in {"unreg", "erase", "free"}
        PROVE  FALSE
    <3>1. region[r].base = arg[u].base
      BY <2>2, <1>0, RegionOf DEF InMap, Alone
    <3> QED
      BY <3>1, <2>1, <2>2, <1>0, <1>3 DEF ApartInv, RegPcs, DeregPcs
  <2> QED
    BY <2>1, <2>2 DEF Dying, DeregPcs
<1> QED
  BY <1>1, <1>2, <1>3

LEMMA IInvOneRegion == IInv => OneRegionPerBase
<1> SUFFICES ASSUME IInv, NEW q \in Regions, NEW r \in Regions, Live(q), Live(r),
                    region[q].base = region[r].base
             PROVE  q = r
  BY DEF OneRegionPerBase, Live
<1>0. Shape /\ ThreadInv /\ MapInv /\ ApartInv /\ LiveAt(q) /\ LiveAt(r)
  BY DEF IInv, MapInv
<1>1. ASSUME NEW t \in Threads, pc[t] \in Alone
      PROVE  region[arg[t].cur].base = arg[t].base /\ map[arg[t].base] = None
  BY <1>0, <1>1, RegionOf DEF InMap, Alone
<1>2. \A t \in Threads : pc[t] \in Alone => arg[t].cur # None
  BY <1>0, RegionOf, Consts
<1>3. CASE map[region[r].base] = None
  <2>1. PICK t \in Threads : pc[t] \in Alone /\ arg[t].cur = q
    BY <1>0, <1>3, Consts DEF LiveAt, Alone
  <2>2. PICK u \in Threads : pc[u] \in Alone /\ arg[u].cur = r
    BY <1>0, <1>3, Consts DEF LiveAt, Alone
  <2>3. arg[t].base = arg[u].base
    BY <1>1, <2>1, <2>2
  <2> QED
    BY <2>1, <2>2, <2>3, <1>0, AloneOne
<1>4. CASE map[region[r].base] # None
  BY <1>0, <1>1, <1>4 DEF LiveAt, Alone
<1> QED
  BY <1>3, <1>4

LEMMA IInvTypes == IInv => TypeOK
BY DEF IInv, Shape, RegionShape, RegionType, TableShape, LockShape, PcShape, Pcs, TypeOK

(***************************************************************************)
(* Every variable keeps its type; above all, nrefs is never decremented    *)
(* below zero.                                                             *)
(***************************************************************************)
THEOREM MemTypes ==
  ASSUME Serial
  PROVE  Spec => []TypeOK
<1> QED
  BY InitIInv, NextIInv, IInvTypes, PTL DEF Spec

(***************************************************************************)
(* nrefs of FuseLinkMemRegion counts the handles given out and the calls   *)
(* under way, and nobody uses a region that is being taken apart: the lock *)
(* of the region is never taken after it was destroyed, although           *)
(* ncclIbRegMrDmaBuf unlocks the map before it locks the region.           *)
(***************************************************************************)
THEOREM RefsAlwaysCounted ==
  ASSUME Serial
  PROVE  Spec => []RefsCounted
<1> QED
  BY InitIInv, NextIInv, IInvRefs, PTL DEF Spec

(***************************************************************************)
(* However many threads register an allocation at once, it has one region. *)
(***************************************************************************)
THEOREM OneRegionAlways ==
  ASSUME Serial
  PROVE  Spec => []OneRegionPerBase
<1> QED
  BY InitIInv, NextIInv, IInvOneRegion, PTL DEF Spec

-----------------------------------------------------------------------------
LEMMA NoMrKept ==
  ASSUME NoMrLeft, UNCHANGED mrs,
         \A r \in Regions, d \in Devs : Live(r) /\ region[r].mr[d] # None =>
           Live(r)' /\ region'[r].mr[d] = region[r].mr[d]
  PROVE  NoMrLeft'
<1> SUFFICES ASSUME NEW k \in Mrs, mrs[k] # NoMr
             PROVE  \E q \in Regions, d \in Devs : Live(q)' /\ region'[q].mr[d] = k
  BY DEF NoMrLeft, Live
<1>1. PICK q \in Regions, d \in Devs : Live(q) /\ region[q].mr[d] = k
  BY DEF NoMrLeft, Live
<1> QED
  BY <1>1, Consts

LEMMA NoMrStep ==
  ASSUME IInv, NoMrLeft, [Next]_vars
  PROVE  NoMrLeft'
<1>0. Shape /\ ThreadInv /\ MapInv
  BY DEF IInv
<1>1. CASE \/ UNCHANGED vars
           \/ \E t \in Threads : RegRefused(t) \/ RegFind(t) \/ RegPublish(t) \/ DeregErase(t)
           \/ \E t \in Threads, b \in Bases, d \in CtlDevs : RegCall(t, b, d)
           \/ \E t \in Threads, r \in Regions, d \in CtlDevs : DeregCall(t, r, d)
  <2>1. UNCHANGED <<region, mrs>>
    BY <1>1 DEF vars, RegRefused, RegFind, RegPublish, DeregErase, RegCall, DeregCall
  <2> QED
    BY <2>1, NoMrKept DEF Live
<1>2. ASSUME NEW t \in Threads, RegRef(t) \/ DeregDrop(t) PROVE NoMrLeft'
  <2>1. arg[t].cur \in Regions
    BY <1>0, <1>2 DEF RegRef, DeregDrop, ThreadInv, At, RefAt, DropAt
  <2>2. \A r \in Regions : region'[r].mr = region[r].mr /\ region'[r].state = region[r].state
    BY <1>0, <1>2, <2>1 DEF RegRef, DeregDrop, Shape, RegionShape, RegionType
  <2> QED
    BY <1>2, <2>2, NoMrKept DEF Live, RegRef, DeregDrop
<1>3. ASSUME NEW t \in Threads, RegCreate(t) PROVE NoMrLeft'
  <2>1. PICK r \in Regions :
          /\ region[r].state = "none"
          /\ region' = [region EXCEPT ![r] = [base |-> arg[t].base, nrefs |-> 1,
                          mr |-> [d \in Devs |-> None], state |-> "live"]]
    BY <1>3 DEF RegCreate, NextRegion
  <2>2. \A q \in Regions : q # r => region'[q] = region[q]
    BY <1>0, <2>1 DEF Shape, RegionShape
  <2> QED
    BY <1>3, <2>1, <2>2, NoMrKept DEF Live, RegCreate
<1>4. ASSUME NEW t \in Threads, DeregFree(t) PROVE NoMrLeft'
  <2>1. arg[t].cur \in Regions /\ \A d \in Devs : region[arg[t].cur].mr[d] = None
    BY <1>0, <1>4 DEF DeregFree, ThreadInv, At, DropAt
  <2>2. \A q \in Regions : q # arg[t].cur => region'[q] = region[q]
    BY <1>0, <1>4, <2>1 DEF DeregFree, Shape, RegionShape
  <2> QED
    BY <1>4, <2>1, <2>2, NoMrKept DEF Live, DeregFree
<1>5. ASSUME NEW t \in Threads, RegHit(t) \/ RegMiss(t) PROVE NoMrLeft'
  <2>1. PICK r \in Regions : arg[t].cur = r
    BY <1>0, <1>5 DEF RegHit, RegMiss, ThreadInv, At, CreateAt
  <2>2. PICK n \in Devs : arg[t].next = n
    BY <1>0, <1>5 DEF RegHit, RegMiss, ThreadInv, At, CreateAt
  <2>3. Live(r) /\ region[r].mr[n] = None
    BY <1>0, <1>5, <2>1, <2>2, Consts DEF RegHit, RegMiss, ThreadInv, At, CreateAt
  <2>4. PICK m :
          /\ region' = [region EXCEPT ![r].mr[n] = m]
          /\ \A k \in Mrs : mrs'[k] # NoMr => mrs[k] # NoMr \/ k = m
    <3>1. CASE RegHit(t)
      BY <3>1, <2>1, <2>2 DEF RegHit
    <3>2. CASE RegMiss(t)
      <4>1. PICK m \in Mrs :
              /\ region' = [region EXCEPT ![r].mr[n] = m]
              /\ mrs' = [mrs EXCEPT ![m] = [dev |-> n, base |-> arg[t].base]]
        BY <3>2, <2>1, <2>2 DEF RegMiss
      <4>2. \A k \in Mrs : mrs'[k] # NoMr => mrs[k] # NoMr \/ k = m
        BY <4>1, <1>0 DEF Shape, TableShape
      <4> QED
        BY <4>1, <4>2
    <3> QED
      BY <1>5, <3>1, <3>2
  <2>5. /\ region'[r].mr[n] = m
        /\ \A q \in Regions : region'[q].state = region[q].state
        /\ \A q \in Regions, d \in Devs : q # r \/ d # n =>
             region'[q].mr[d] = region[q].mr[d]
    BY <1>0, <2>4 DEF Shape, RegionShape, RegionType
  <2> SUFFICES ASSUME NEW k \in Mrs, mrs'[k] # NoMr
               PROVE  \E q \in Regions, d \in Devs : Live(q)' /\ region'[q].mr[d] = k
    BY DEF NoMrLeft, Live
  <2>6. CASE k = m
    BY <2>6, <2>3, <2>5 DEF Live
  <2>7. CASE mrs[k] # NoMr
    <3>1. PICK q \in Regions, d \in Devs : Live(q) /\ region[q].mr[d] = k
      BY <2>7 DEF NoMrLeft, Live
    <3>2. q # r \/ d # n
      BY <3>1, <2>3, Consts
    <3> QED
      BY <3>1, <3>2, <2>5 DEF Live
  <2> QED
    BY <2>4, <2>6, <2>7
<1>6. ASSUME NEW t \in Threads, DeregMrs(t) \/ DeregRefused(t) PROVE NoMrLeft'
  <2>1. PICK r \in Regions : arg[t].cur = r
    BY <1>0, <1>6 DEF DeregMrs, DeregRefused, ThreadInv, At, DropAt
  <2>2. PICK gone \in SUBSET Devs :
          /\ mrs' = [m \in Mrs |-> IF m \in {region[r].mr[e] : e \in gone} THEN NoMr ELSE mrs[m]]
          /\ \A e \in Devs : e \notin gone => region'[r].mr[e] = region[r].mr[e]
          /\ \A q \in Regions : region'[q].state = region[q].state
          /\ \A q \in Regions : q # r => region'[q] = region[q]
    <3>1. CASE DeregMrs(t)
      <4>1. mrs' = [m \in Mrs |-> IF m \in {region[r].mr[e] : e \in Devs} THEN NoMr ELSE mrs[m]]
        BY <3>1, <2>1, Consts DEF DeregMrs, HeldMrs
      <4>2. /\ \A q \in Regions : region'[q].state = region[q].state
            /\ \A q \in Regions : q # r => region'[q] = region[q]
        BY <3>1, <2>1, <1>0 DEF DeregMrs, Shape, RegionShape, RegionType
      <4> QED
        BY <4>1, <4>2
    <3>2. CASE DeregRefused(t)
      <4>0. PICK d \in Devs :
              /\ mrs' = [m \in Mrs |->
                   IF m \in {region[arg[t].cur].mr[e] : e \in 1..d-1} THEN NoMr ELSE mrs[m]]
              /\ region' = [region EXCEPT ![arg[t].cur].mr =
                   [e \in Devs |-> IF e < d THEN None ELSE @[e]]]
        BY <3>2, Zenon DEF DeregRefused
      <4>1. /\ mrs' = [m \in Mrs |->
                 IF m \in {region[r].mr[e] : e \in 1..d-1} THEN NoMr ELSE mrs[m]]
            /\ region' = [region EXCEPT ![r].mr = [e \in Devs |-> IF e < d THEN None ELSE @[e]]]
        BY <4>0, <2>1
      <4>2. 1..d-1 \in SUBSET Devs /\ \A e \in Devs : e \notin 1..d-1 => ~(e < d)
        BY ConstantsOK DEF Devs
      <4>3. /\ \A e \in Devs : ~(e < d) => region'[r].mr[e] = region[r].mr[e]
            /\ \A q \in Regions : region'[q].state = region[q].state
            /\ \A q \in Regions : q # r => region'[q] = region[q]
        BY <4>1, <1>0 DEF Shape, RegionShape, RegionType
      <4> QED
        BY <4>1, <4>2, <4>3
    <3> QED
      BY <1>6, <3>1, <3>2
  <2> SUFFICES ASSUME NEW k \in Mrs, mrs'[k] # NoMr
               PROVE  \E q \in Regions, d \in Devs : Live(q)' /\ region'[q].mr[d] = k
    BY DEF NoMrLeft, Live
  <2>3. mrs[k] # NoMr /\ k \notin {region[r].mr[e] : e \in gone}
    BY <2>2
  <2>4. PICK q \in Regions, d \in Devs : Live(q) /\ region[q].mr[d] = k
    BY <2>3 DEF NoMrLeft, Live
  <2> QED
    BY <2>2, <2>3, <2>4 DEF Live
<1> QED
  BY <1>1, <1>2, <1>3, <1>4, <1>5, <1>6 DEF Next, Step

(***************************************************************************)
(* Every MR that FuseLinkRegMr registered belongs to a region that is not  *)
(* yet freed: FuseLinkDeregMr gives back what it finds in the region, and  *)
(* that is all there is.                                                   *)
(***************************************************************************)
THEOREM NeverMrLeft ==
  ASSUME Serial
  PROVE  Spec => []NoMrLeft
<1>1. Init => IInv /\ NoMrLeft
  BY InitIInv DEF Init, NoMrLeft
<1>2. IInv /\ NoMrLeft /\ [Next]_vars => (IInv /\ NoMrLeft)'
  BY NextIInv, NoMrStep
<1> QED
  BY <1>1, <1>2, PTL DEF Spec

-----------------------------------------------------------------------------
\* An MR in a region is the one its NIC's cache has for the allocation,
MrCached ==
  \A r \in Regions, e \in Devs : region[r].mr[e] # None =>
    region[r].base \in Bases /\ cache[e][region[r].base] = region[r].mr[e]

\* and no two entries of the caches are one MR.
CachedOnce ==
  \A d, e \in Devs, b, c \in Bases :
    cache[d][b] # None /\ cache[d][b] = cache[e][c] => d = e /\ b = c

MrInv == MrCached /\ CachedOnce

\* A step that registers nothing only takes MRs out of regions.
LEMMA MrQuiet ==
  ASSUME MrInv, UNCHANGED cache,
         \A q \in Regions, e \in Devs : region'[q].mr[e] # None =>
           region'[q].mr[e] = region[q].mr[e] /\ region'[q].base = region[q].base
  PROVE  MrInv'
<1>1. MrCached'
  BY DEF MrInv, MrCached
<1>2. CachedOnce'
  BY DEF MrInv, CachedOnce
<1> QED
  BY <1>1, <1>2 DEF MrInv

\* A step that puts an MR in a region.
LEMMA MrPut ==
  ASSUME Shape, MrInv, NEW r \in Regions, NEW n \in Devs, NEW b \in Bases, NEW m \in Mrs,
         region[r].base = b, region' = [region EXCEPT ![r].mr[n] = m],
         \/ UNCHANGED cache /\ cache[n][b] = m
         \/ /\ cache[n][b] = None /\ cache' = [cache EXCEPT ![n][b] = m]
            /\ \A e \in Devs, c \in Bases : cache[e][c] # m
  PROVE  MrInv'
<1>1. /\ \A q \in Regions : region'[q].base = region[q].base
      /\ region'[r].mr[n] = m
      /\ \A q \in Regions, e \in Devs : q # r \/ e # n => region'[q].mr[e] = region[q].mr[e]
  BY DEF Shape, RegionShape, RegionType
<1>2. /\ cache'[n][b] = m
      /\ \A e \in Devs, c \in Bases : cache[e][c] # None => cache'[e][c] = cache[e][c]
  BY DEF Shape, TableShape
<1>3. MrCached'
  BY <1>1, <1>2 DEF MrInv, MrCached
<1>4. CachedOnce'
  <2>1. CASE UNCHANGED cache
    BY <2>1 DEF MrInv, CachedOnce
  <2>2. CASE cache' = [cache EXCEPT ![n][b] = m] /\ \A e \in Devs, c \in Bases : cache[e][c] # m
    <3>1. \A e \in Devs, c \in Bases :
            cache'[e][c] = IF e = n /\ c = b THEN m ELSE cache[e][c]
      BY <2>2 DEF Shape, TableShape
    <3> QED
      BY <2>2, <3>1 DEF MrInv, CachedOnce
  <2> QED
    BY <2>1, <2>2
<1> QED
  BY <1>3, <1>4 DEF MrInv

LEMMA MrStep ==
  ASSUME IInv, MrInv, [Next]_vars
  PROVE  MrInv'
<1>0. Shape /\ ThreadInv /\ MapInv
  BY DEF IInv
<1>1. CASE \/ UNCHANGED vars
           \/ \E t \in Threads : RegRefused(t) \/ RegFind(t) \/ RegPublish(t) \/ DeregErase(t)
           \/ \E t \in Threads, b \in Bases, d \in CtlDevs : RegCall(t, b, d)
           \/ \E t \in Threads, r \in Regions, d \in CtlDevs : DeregCall(t, r, d)
  <2>1. UNCHANGED <<region, cache>>
    BY <1>1 DEF vars, RegRefused, RegFind, RegPublish, DeregErase, RegCall, DeregCall
  <2> QED
    BY <2>1, MrQuiet
<1>2. ASSUME NEW t \in Threads, RegRef(t) \/ DeregDrop(t) \/ DeregFree(t) PROVE MrInv'
  <2>1. \A q \in Regions : region'[q].mr = region[q].mr /\ region'[q].base = region[q].base
    BY <1>0, <1>2 DEF RegRef, DeregDrop, DeregFree, Shape, RegionShape, RegionType
  <2> QED
    BY <1>2, <2>1, MrQuiet DEF RegRef, DeregDrop, DeregFree
<1>3. ASSUME NEW t \in Threads, RegCreate(t) PROVE MrInv'
  <2>1. PICK r \in Regions :
          region' = [region EXCEPT ![r] = [base |-> arg[t].base, nrefs |-> 1,
                       mr |-> [d \in Devs |-> None], state |-> "live"]]
    BY <1>3 DEF RegCreate
  <2>2. \A q \in Regions, e \in Devs : region'[q].mr[e] # None => region'[q] = region[q]
    BY <1>0, <2>1 DEF Shape, RegionShape
  <2> QED
    BY <1>3, <2>2, MrQuiet DEF RegCreate
<1>4. ASSUME NEW t \in Threads, RegHit(t) \/ RegMiss(t) PROVE MrInv'
  <2>1. PICK r \in Regions, n \in Devs, b \in Bases :
          arg[t].cur = r /\ arg[t].next = n /\ arg[t].base = b /\ region[r].base = b
    BY <1>0, <1>4 DEF RegHit, RegMiss, ThreadInv, At, CreateAt, ArgsAt
  <2>2. CASE RegHit(t)
    <3>1. PICK m \in Mrs : cache[n][b] = m
      BY <1>0, <2>1, <2>2 DEF RegHit, Shape, TableShape
    <3>2. region' = [region EXCEPT ![r].mr[n] = m] /\ UNCHANGED cache
      BY <2>1, <2>2, <3>1 DEF RegHit
    <3> QED
      BY <1>0, <2>1, <3>1, <3>2, MrPut
  <2>3. CASE RegMiss(t)
    <3>1. PICK m \in Mrs :
            /\ \A e \in Devs, c \in Bases : cache[e][c] # m
            /\ cache' = [cache EXCEPT ![n][b] = m]
            /\ region' = [region EXCEPT ![r].mr[n] = m]
      BY <2>1, <2>3 DEF RegMiss
    <3>2. cache[n][b] = None
      BY <2>1, <2>3 DEF RegMiss
    <3> QED
      BY <1>0, <2>1, <3>1, <3>2, MrPut
  <2> QED
    BY <1>4, <2>2, <2>3
<1>5. ASSUME NEW t \in Threads, DeregMrs(t) \/ DeregRefused(t) PROVE MrInv'
  <2>1. PICK r \in Regions : arg[t].cur = r
    BY <1>0, <1>5 DEF DeregMrs, DeregRefused, ThreadInv, At, DropAt
  <2>2. PICK f \in [Devs -> Mrs \cup {None}] :
          /\ region' = [region EXCEPT ![r].mr = f]
          /\ \A e \in Devs : f[e] # None => f[e] = region[r].mr[e]
    <3>1. CASE DeregMrs(t)
      <4> WITNESS [d \in Devs |-> None] \in [Devs -> Mrs \cup {None}]
      <4> QED
        BY <2>1, <3>1 DEF DeregMrs
    <3>2. CASE DeregRefused(t)
      <4>1. PICK d \in Devs : region' = [region EXCEPT ![arg[t].cur].mr =
              [e \in Devs |-> IF e < d THEN None ELSE @[e]]]
        BY <3>2, Zenon DEF DeregRefused
      <4> DEFINE f == [e \in Devs |-> IF e < d THEN None ELSE region[r].mr[e]]
      <4>2. f \in [Devs -> Mrs \cup {None}]
        BY <1>0 DEF Shape, RegionShape, RegionType
      <4>3. region' = [region EXCEPT ![r].mr = f]
        BY <1>0, <2>1, <4>1 DEF Shape, RegionShape, RegionType
      <4>4. \A e \in Devs : f[e] # None => f[e] = region[r].mr[e]
        OBVIOUS
      <4> HIDE DEF f
      <4> QED
        BY <4>2, <4>3, <4>4
    <3> QED
      BY <1>5, <3>1, <3>2
  <2>3. /\ \A q \in Regions : region'[q].base = region[q].base
        /\ region'[r].mr = f /\ \A q \in Regions : q # r => region'[q] = region[q]
    BY <1>0, <2>2 DEF Shape, RegionShape, RegionType
  <2>4. UNCHANGED cache
    BY <1>5 DEF DeregMrs, DeregRefused
  <2>5. \A q \in Regions, e \in Devs : region'[q].mr[e] # None =>
          region'[q].mr[e] = region[q].mr[e] /\ region'[q].base = region[q].base
    BY <2>2, <2>3
  <2> QED
    BY <2>4, <2>5, MrQuiet
<1> QED
  BY <1>1, <1>2, <1>3, <1>4, <1>5 DEF Next, Step

\* Who makes a region, or takes it apart, has one that nobody has a handle on,
\* and of another allocation.
LEMMA HeldApart ==
  ASSUME IInv, NEW t \in Threads, pc[t] \in {"dev", "unreg"},
         NEW u \in Threads, NEW r \in Regions, NEW d \in Devs, handles[u][<<r, d>>] > 0
  PROVE  arg[t].cur \in Regions /\ arg[t].cur # r
         /\ region[arg[t].cur].base = arg[t].base /\ region[r].base # arg[t].base
<1>0. Shape /\ ThreadInv /\ MapInv /\ HandleInv /\ CountInv
  BY DEF IInv
<1>1. Live(r) /\ map[region[r].base] = r
  BY <1>0 DEF HandleInv, HandleAt
<1>2. region[r].nrefs > 0
  BY <1>0, <1>1, HolderCounted
<1>3. /\ arg[t].cur \in Regions /\ region[arg[t].cur].base = arg[t].base
      /\ map[arg[t].base] = IF pc[t] = "unreg" THEN arg[t].cur ELSE None
  BY <1>0, RegionOf DEF InMap, Alone
<1>4. pc[t] = "unreg" => region[arg[t].cur].nrefs = 0
  BY <1>0 DEF ThreadInv, At, DropAt
<1> QED
  BY <1>1, <1>2, <1>3, <1>4, Consts

LEMMA HeldStep ==
  ASSUME IInv, MrInv, [Next]_vars,
         NEW u \in Threads, NEW r \in Regions, NEW d \in Devs, handles[u][<<r, d>>] > 0
  PROVE  region'[r].mr = region[r].mr /\ \A m \in HeldMrs(r) : mrs'[m] = mrs[m]
<1>0. Shape /\ ThreadInv /\ MapInv /\ HandleInv
  BY DEF IInv
<1>h. ASSUME NEW m \in HeldMrs(r)
      PROVE  /\ m \in Mrs /\ region[r].base \in Bases
             /\ \E e \in Devs : cache[e][region[r].base] = m
  BY <1>0 DEF HeldMrs, MrInv, MrCached, Shape, RegionShape, RegionType
<1>1. CASE \/ UNCHANGED vars
           \/ \E t \in Threads : RegRefused(t) \/ RegFind(t) \/ RegPublish(t) \/ DeregErase(t)
           \/ \E t \in Threads, b \in Bases, e \in CtlDevs : RegCall(t, b, e)
           \/ \E t \in Threads, q \in Regions, e \in CtlDevs : DeregCall(t, q, e)
  BY <1>1 DEF vars, RegRefused, RegFind, RegPublish, DeregErase, RegCall, DeregCall
<1>2. ASSUME NEW t \in Threads, RegRef(t) \/ DeregDrop(t) \/ DeregFree(t)
      PROVE  region'[r].mr = region[r].mr /\ UNCHANGED mrs
  BY <1>0, <1>2 DEF RegRef, DeregDrop, DeregFree, Shape, RegionShape, RegionType
<1>3. ASSUME NEW t \in Threads, RegCreate(t)
      PROVE  region'[r].mr = region[r].mr /\ UNCHANGED mrs
  <2>1. PICK q \in Regions :
          /\ region[q].state = "none"
          /\ region' = [region EXCEPT ![q] = [base |-> arg[t].base, nrefs |-> 1,
                          mr |-> [e \in Devs |-> None], state |-> "live"]]
    BY <1>3 DEF RegCreate, NextRegion
  <2>2. q # r
    BY <1>0, <2>1 DEF HandleInv, HandleAt, Live
  <2> QED
    BY <1>0, <1>3, <2>1, <2>2 DEF RegCreate, Shape, RegionShape
<1>4. ASSUME NEW t \in Threads, RegHit(t) \/ RegMiss(t)
      PROVE  region'[r].mr = region[r].mr /\ \A m \in HeldMrs(r) : mrs'[m] = mrs[m]
  <2>1. PICK q \in Regions : arg[t].cur = q /\ q # r
    BY <1>4, HeldApart DEF RegHit, RegMiss
  <2>2. CASE RegHit(t)
    BY <1>0, <2>1, <2>2 DEF RegHit, Shape, RegionShape
  <2>3. CASE RegMiss(t)
    <3>1. PICK k \in Mrs :
            /\ \A e \in Devs, c \in Bases : cache[e][c] # k
            /\ mrs' = [mrs EXCEPT ![k] = [dev |-> arg[t].next, base |-> arg[t].base]]
            /\ region' = [region EXCEPT ![q].mr[arg[t].next] = k]
      BY <2>1, <2>3 DEF RegMiss
    <3>2. region'[r] = region[r]
      BY <1>0, <2>1, <3>1 DEF Shape, RegionShape
    <3>3. ASSUME NEW m \in HeldMrs(r) PROVE mrs'[m] = mrs[m]
      BY <1>0, <1>h, <3>1, <3>3 DEF Shape, TableShape
    <3> QED
      BY <3>2, <3>3
  <2> QED
    BY <1>4, <2>2, <2>3
<1>5. ASSUME NEW t \in Threads, DeregMrs(t) \/ DeregRefused(t)
      PROVE  region'[r].mr = region[r].mr /\ \A m \in HeldMrs(r) : mrs'[m] = mrs[m]
  <2>1. PICK q \in Regions :
          arg[t].cur = q /\ q # r /\ region[q].base # region[r].base
    BY <1>5, HeldApart DEF DeregMrs, DeregRefused
  <2>2. ASSUME NEW m \in HeldMrs(r), NEW e \in Devs PROVE region[q].mr[e] # m
    <3> SUFFICES ASSUME region[q].mr[e] = m PROVE FALSE
      OBVIOUS
    <3>1. PICK f \in Devs : m = region[r].mr[f]
      BY DEF HeldMrs
    <3>2. m # None
      BY DEF HeldMrs
    <3>3. region[r].base \in Bases /\ cache[f][region[r].base] = m
      BY <3>1, <3>2 DEF MrInv, MrCached
    <3>4. region[q].base \in Bases /\ cache[e][region[q].base] = m
      BY <3>2 DEF MrInv, MrCached
    <3> QED
      BY <2>1, <3>2, <3>3, <3>4 DEF MrInv, CachedOnce
  <2>3. CASE DeregMrs(t)
    <3>1. region'[r] = region[r]
      BY <1>0, <2>1, <2>3 DEF DeregMrs, Shape, RegionShape
    <3>2. ASSUME NEW m \in HeldMrs(r) PROVE mrs'[m] = mrs[m]
      BY <1>h, <2>1, <2>2, <2>3 DEF DeregMrs, HeldMrs
    <3> QED
      BY <3>1, <3>2
  <2>4. CASE DeregRefused(t)
    <3>1. PICK k \in Devs :
            /\ mrs' = [m \in Mrs |->
                 IF m \in {region[arg[t].cur].mr[e] : e \in 1..k-1} THEN NoMr ELSE mrs[m]]
            /\ region' = [region EXCEPT ![arg[t].cur].mr =
                 [e \in Devs |-> IF e < k THEN None ELSE @[e]]]
      BY <2>4, Zenon DEF DeregRefused
    <3>2. region'[r] = region[r]
      BY <1>0, <2>1, <3>1 DEF Shape, RegionShape
    <3>3. 1..k-1 \subseteq Devs
      BY ConstantsOK DEF Devs
    <3>4. ASSUME NEW m \in HeldMrs(r) PROVE mrs'[m] = mrs[m]
      BY <1>h, <2>1, <2>2, <3>1, <3>3
    <3> QED
      BY <3>2, <3>4
  <2> QED
    BY <1>5, <2>3, <2>4
<1> QED
  BY <1>1, <1>2, <1>3, <1>4, <1>5 DEF Next, Step

(***************************************************************************)
(* The MRs of a region are left alone as long as somebody has a handle on  *)
(* it: the caches, which share an MR between the regions of an allocation, *)
(* never let one region's end or refusal take another's, and the reference *)
(* count keeps the last user's.  For any control NICs, refusals included.  *)
(***************************************************************************)
THEOREM HeldMrsAlwaysKept ==
  ASSUME Serial
  PROVE  Spec => HeldMrsKept
<1>1. Init => IInv /\ MrInv
  BY InitIInv DEF Init, NoRegion, MrInv, MrCached, CachedOnce
<1>2. IInv /\ MrInv /\ [Next]_vars => (IInv /\ MrInv)'
  BY NextIInv, MrStep
<1>3. IInv /\ MrInv /\ [Next]_vars =>
        [\A t \in Threads, r \in Regions, d \in Devs : handles[t][<<r, d>>] > 0 =>
           region'[r].mr = region[r].mr /\ \A m \in HeldMrs(r) : mrs'[m] = mrs[m]]_vars
  BY HeldStep
<1> QED
  BY <1>1, <1>2, <1>3, PTL DEF Spec, HeldMrsKept

-----------------------------------------------------------------------------
LEMMA FreedStep ==
  ASSUME IInv, [Next]_vars, NEW r \in Regions, Live(r), region'[r].state = "freed"
  PROVE  region[r].nrefs = 0
<1>0. Shape /\ ThreadInv /\ region[r].state = "live"
  BY DEF IInv, Live
<1>1. ASSUME NEW t \in Threads, DeregFree(t) PROVE region[r].nrefs = 0
  <2>1. arg[t].cur \in Regions /\ region[arg[t].cur].nrefs = 0
    BY <1>0, <1>1 DEF DeregFree, ThreadInv, At, DropAt
  <2>2. CASE arg[t].cur = r
    BY <2>1, <2>2
  <2>3. CASE arg[t].cur # r
    BY <1>0, <1>1, <2>1, <2>3 DEF DeregFree, Shape, RegionShape
  <2> QED
    BY <2>2, <2>3
<1>2. ASSUME NEW t \in Threads, RegRef(t) \/ RegHit(t) \/ DeregDrop(t) \/ DeregMrs(t)
      PROVE  region'[r].state = region[r].state
  BY <1>0, <1>2 DEF RegRef, RegHit, DeregDrop, DeregMrs, Shape, RegionShape, RegionType
<1>3. ASSUME NEW t \in Threads, RegMiss(t) PROVE region'[r].state = region[r].state
  <2>1. PICK m : region' = [region EXCEPT ![arg[t].cur].mr[arg[t].next] = m]
    BY <1>3 DEF RegMiss
  <2> QED
    BY <2>1, <1>0 DEF Shape, RegionShape, RegionType
<1>4. ASSUME NEW t \in Threads, DeregRefused(t) PROVE region'[r].state = region[r].state
  <2>1. PICK d \in Devs : region' = [region EXCEPT ![arg[t].cur].mr =
          [e \in Devs |-> IF e < d THEN None ELSE @[e]]]
    BY <1>4, Zenon DEF DeregRefused
  <2> QED
    BY <2>1, <1>0 DEF Shape, RegionShape, RegionType
<1>5. ASSUME NEW t \in Threads, RegCreate(t) PROVE region'[r].state = region[r].state
  <2>1. PICK q \in Regions :
          /\ region[q].state = "none"
          /\ region' = [region EXCEPT ![q] = [base |-> arg[t].base, nrefs |-> 1,
                          mr |-> [d \in Devs |-> None], state |-> "live"]]
    BY <1>5 DEF RegCreate, NextRegion
  <2> QED
    BY <2>1, <1>0 DEF Shape, RegionShape
<1>6. ASSUME \/ UNCHANGED vars
             \/ \E t \in Threads : RegRefused(t) \/ RegFind(t) \/ RegPublish(t) \/ DeregErase(t)
             \/ \E t \in Threads, b \in Bases, d \in CtlDevs : RegCall(t, b, d)
             \/ \E t \in Threads, q \in Regions, d \in CtlDevs : DeregCall(t, q, d)
      PROVE  region'[r].state = region[r].state
  BY <1>6 DEF vars, RegRefused, RegFind, RegPublish, DeregErase, RegCall, DeregCall
<1> QED
  BY <1>0, <1>1, <1>2, <1>3, <1>4, <1>5, <1>6 DEF Next, Step

(***************************************************************************)
(* nrefs in fuselink.h, "when 0, can be freed": a region is freed only     *)
(* with no reference left, if the callers keep registering and             *)
(* deregistering an allocation apart.  MemRegRace.cfg shows that without   *)
(* this it is false.                                                       *)
(***************************************************************************)
THEOREM FreedAtZeroWhenApart ==
  ASSUME Serial
  PROVE  Spec => FreedAtZero
<1>1. IInv /\ [Next]_vars =>
        [\A r \in Regions : region[r].state = "live" /\ region'[r].state = "freed"
           => region[r].nrefs = 0]_region
  BY FreedStep DEF Live
<1> QED
  BY <1>1, InitIInv, NextIInv, PTL DEF Spec, FreedAtZero

=============================================================================
