------------------------------- MODULE MemReg -------------------------------
(***************************************************************************)
(* Memory registration: ncclIbRegMrDmaBuf with FuseLinkRegMr, and          *)
(* FuseLinkDeregMr (src/src/plugin.cc), called by several threads.         *)
(*                                                                         *)
(* A region (FuseLinkMemRegion) stands for the allocation at a base        *)
(* address.  addr2flmr finds it again under addr2flmr_lock, nrefs counts   *)
(* its users under the region's lock, and each NIC remembers, under the    *)
(* NIC's lock, the memory regions (MRs) it registered.  A step of a thread *)
(* is the code between two lock operations that others can observe.  The   *)
(* size of an allocation is given by its base.                             *)
(***************************************************************************)
EXTENDS Naturals, FiniteSets

CONSTANTS
  Threads,      \* the threads of the process that call the plugin
  GpuBases,     \* base addresses of GPU allocations
  HostBases,    \* page addresses of host buffers
  NDevs,        \* ncclNIbDevs
  CtlDevs,      \* the NICs of the communicators (control_comm->dev_)
  Serial,       \* do the callers keep Reg and Dereg of one base apart?
  MayFail,      \* may the verbs library refuse?
  MaxCalls      \* bound: registrations

ASSUME ConstantsOK ==
  /\ NDevs \in Nat \ {0} /\ CtlDevs \subseteq 1..NDevs
  /\ Serial \in BOOLEAN /\ MayFail \in BOOLEAN
  /\ MaxCalls \in Nat
  /\ GpuBases \cap HostBases = {} /\ 0 \notin GpuBases \cup HostBases
  /\ IsFiniteSet(Threads) /\ 0 \notin Threads

None    == 0                   \* a NULL pointer, or a lock nobody holds
Devs    == 1..NDevs
Bases   == GpuBases \cup HostBases
Regions == 1..MaxCalls
Mrs     == 1..(MaxCalls * NDevs)

VARIABLES
  region,   \* [Regions -> [base, nrefs, mr, state]]: the heap of regions
  map,      \* addr2flmr
  cache,    \* [Devs -> [Bases -> the MR in mrCache.slots, or None]]
  mrs,      \* the MRs registered with the NICs: [dev, base] of each, or NoMr
  mapLock, devLock, regLock,   \* who holds addr2flmr_lock, the NICs', the regions'
  pc,       \* where each thread is
  arg,      \* [Threads -> [base, dev, cur, next]]: its arguments and locals
  handles,  \* [Threads -> [Regions \X Devs -> Nat]]: mhandles it was given
  calls     \* registrations called for (bound)

vars == <<region, map, cache, mrs, mapLock, devLock, regLock, pc, arg, handles, calls>>

NoMr     == [dev |-> None, base |-> None]
NoRegion == [base |-> None, nrefs |-> 0, mr |-> [d \in Devs |-> None], state |-> "none"]

Init ==
  /\ region = [r \in Regions |-> NoRegion] /\ map = [b \in Bases |-> None]
  /\ cache = [d \in Devs |-> [b \in Bases |-> None]] /\ mrs = [m \in Mrs |-> NoMr]
  /\ mapLock = None /\ devLock = [d \in Devs |-> None]
  /\ regLock = [r \in Regions |-> None]
  /\ pc = [t \in Threads |-> "idle"]
  /\ arg = [t \in Threads |-> [base |-> None, dev |-> None, cur |-> None, next |-> None]]
  /\ handles = [t \in Threads |-> [h \in Regions \X Devs |-> 0]]
  /\ calls = 0

-----------------------------------------------------------------------------
RegPcs   == {"find", "ref", "dev", "publish"}
DeregPcs == {"drop", "unreg", "erase", "free"}

Registering(b)   == {t \in Threads : pc[t] \in RegPcs /\ arg[t].base = b}
Deregistering(b) == {t \in Threads : pc[t] \in DeregPcs /\ arg[t].base = b}

Goto(t, where) == pc' = [pc EXCEPT ![t] = where]
Give(t, r) == handles' = [handles EXCEPT ![t][<<r, arg[t].dev>>] = @ + 1]

\* ncclIbRegMrDmaBuf is called for base b on a communicator of NIC d.
RegCall(t, b, d) ==
  /\ pc[t] = "idle" /\ calls < MaxCalls
  /\ Serial => Deregistering(b) = {}
  /\ Goto(t, "find") /\ calls' = calls + 1
  /\ arg' = [arg EXCEPT ![t] = [base |-> b, dev |-> d, cur |-> None, next |-> None]]
  /\ UNCHANGED <<region, map, cache, mrs, mapLock, devLock, regLock, handles>>

\* The first NIC to register with: the communicator's for host memory, the
\* first of all for GPU memory.
FirstDev(b, d) == IF b \in HostBases THEN d ELSE 1

LastDev(b, d) == IF b \in HostBases THEN d ELSE NDevs

FaultRegFindHold(t) ==           \* fault: locks the region before it unlocks the map
  LET b == arg[t].base  r == map[b] IN
  /\ pc[t] = "find" /\ r # None
  /\ \/ /\ mapLock = None /\ mapLock' = t
        /\ UNCHANGED <<region, pc, handles>>
     \/ /\ mapLock = t /\ regLock[r] = None
        /\ region' = [region EXCEPT ![r].nrefs = @ + 1]
        /\ mapLock' = None /\ Give(t, r) /\ Goto(t, "idle")
  /\ UNCHANGED <<map, cache, mrs, devLock, regLock, arg, calls>>

\* The base is in addr2flmr: its lock is released before nrefs is updated.
RegFind(t) ==
  /\ pc[t] = "find" /\ mapLock = None
  /\ map[arg[t].base] # None
  /\ arg' = [arg EXCEPT ![t].cur = map[arg[t].base]]
  /\ Goto(t, "ref")
  /\ UNCHANGED <<region, map, cache, mrs, mapLock, devLock, regLock, handles, calls>>

FaultRegRef(t) ==                \* fault: nrefs is not updated
  LET r == arg[t].cur IN
  /\ pc[t] = "ref" /\ regLock[r] = None
  /\ Give(t, r) /\ Goto(t, "idle")
  /\ UNCHANGED <<region, map, cache, mrs, mapLock, devLock, regLock, arg, calls>>

RegRef(t) ==
  LET r == arg[t].cur IN
  /\ pc[t] = "ref" /\ regLock[r] = None
  /\ region' = [region EXCEPT ![r].nrefs = @ + 1]
  /\ Give(t, r) /\ Goto(t, "idle")
  /\ UNCHANGED <<map, cache, mrs, mapLock, devLock, regLock, arg, calls>>

\* The heap hands out a region nobody had (freed ones are told apart).
NextRegion(r) ==
  region[r].state = "none" /\ \A q \in 1..r-1 : region[q].state # "none"

FaultRegCreate(t) ==             \* fault: the lock is released to create the region
  /\ pc[t] = "find" /\ mapLock = None
  /\ map[arg[t].base] = None
  /\ \E r \in Regions :
       /\ NextRegion(r)
       /\ region' = [region EXCEPT ![r] =
            [base |-> arg[t].base, nrefs |-> 1, mr |-> [d \in Devs |-> None], state |-> "live"]]
       /\ arg' = [arg EXCEPT ![t].cur = r, ![t].next = FirstDev(arg[t].base, arg[t].dev)]
  /\ Goto(t, "dev")
  /\ UNCHANGED <<map, cache, mrs, mapLock, devLock, regLock, handles, calls>>

\* It is not: FuseLinkMemRegionInit makes a region of one reference, while the
\* map stays locked.
RegCreate(t) ==
  /\ pc[t] = "find" /\ mapLock = None
  /\ map[arg[t].base] = None
  /\ mapLock' = t
  /\ \E r \in Regions :
       /\ NextRegion(r)
       /\ region' = [region EXCEPT ![r] =
            [base |-> arg[t].base, nrefs |-> 1, mr |-> [d \in Devs |-> None], state |-> "live"]]
       /\ arg' = [arg EXCEPT ![t].cur = r, ![t].next = FirstDev(arg[t].base, arg[t].dev)]
  /\ Goto(t, "dev")
  /\ UNCHANGED <<map, cache, mrs, devLock, regLock, handles, calls>>

\* After NIC d: the next one, or the end of FuseLinkRegMr.
NextDev(t, d) ==
  LET last == d = LastDev(arg[t].base, arg[t].dev) IN
  /\ Goto(t, IF last THEN "publish" ELSE "dev")
  /\ arg' = [arg EXCEPT ![t].next = IF last THEN None ELSE d + 1]

\* FuseLinkRegMr, NIC d: the MR is in its cache.
RegHit(t) ==
  LET d == arg[t].next  b == arg[t].base IN
  /\ pc[t] = "dev" /\ devLock[d] = None
  /\ cache[d][b] # None
  /\ region' = [region EXCEPT ![arg[t].cur].mr[d] = cache[d][b]]
  /\ NextDev(t, d)
  /\ UNCHANGED <<map, cache, mrs, mapLock, devLock, regLock, handles, calls>>

\* It is not: register, and remember.
RegMiss(t) ==
  LET d == arg[t].next  b == arg[t].base
      Fresh(m) == mrs[m] = NoMr /\ \A e \in Devs, c \in Bases : cache[e][c] # m
  IN /\ pc[t] = "dev" /\ devLock[d] = None
     /\ cache[d][b] = None
     /\ \E m \in Mrs :
          /\ Fresh(m) /\ \A n \in 1..m-1 : ~Fresh(n)
          /\ mrs' = [mrs EXCEPT ![m] = [dev |-> d, base |-> b]]
          /\ cache' = [cache EXCEPT ![d][b] = m]
          /\ region' = [region EXCEPT ![arg[t].cur].mr[d] = m]
     /\ NextDev(t, d)
     /\ UNCHANGED <<map, mapLock, devLock, regLock, handles, calls>>

\* Registering fails: FuseLinkRegMr returns with the NIC's lock.
RegRefused(t) ==
  LET d == arg[t].next  b == arg[t].base IN
  /\ MayFail /\ pc[t] = "dev" /\ devLock[d] = None /\ cache[d][b] = None
  /\ devLock' = [devLock EXCEPT ![d] = t]
  /\ Goto(t, "publish")
  /\ UNCHANGED <<region, map, cache, mrs, mapLock, regLock, arg, handles, calls>>

\* Whatever FuseLinkRegMr returned, the region goes into the map and the
\* caller gets it.
RegPublish(t) ==
  /\ pc[t] = "publish"
  /\ map' = [map EXCEPT ![arg[t].base] = arg[t].cur]
  /\ mapLock' = None
  /\ Give(t, arg[t].cur) /\ Goto(t, "idle")
  /\ UNCHANGED <<region, cache, mrs, devLock, regLock, arg, calls>>

-----------------------------------------------------------------------------
\* ncclIbDeregMr is called with a handle.
DeregCall(t, r, d) ==
  /\ pc[t] = "idle" /\ handles[t][<<r, d>>] > 0
  /\ Serial => Registering(region[r].base) = {}
  /\ handles' = [handles EXCEPT ![t][<<r, d>>] = @ - 1]
  /\ arg' = [arg EXCEPT ![t] = [base |-> region[r].base, dev |-> d, cur |-> r,
                                next |-> None]]
  /\ Goto(t, "drop")
  /\ UNCHANGED <<region, map, cache, mrs, mapLock, devLock, regLock, calls>>

FaultDeregDrop(t) ==             \* fault: the last but one takes the region apart
  LET r == arg[t].cur IN
  /\ pc[t] = "drop" /\ regLock[r] = None
  /\ region' = [region EXCEPT ![r].nrefs = @ - 1]
  /\ IF region[r].nrefs > 2
     THEN Goto(t, "idle") /\ UNCHANGED regLock
     ELSE Goto(t, "unreg") /\ regLock' = [regLock EXCEPT ![r] = t]
  /\ UNCHANGED <<map, cache, mrs, mapLock, devLock, arg, handles, calls>>

\* A reference is dropped; the last one keeps the region's lock.
DeregDrop(t) ==
  LET r == arg[t].cur IN
  /\ pc[t] = "drop" /\ regLock[r] = None
  /\ region' = [region EXCEPT ![r].nrefs = @ - 1]
  /\ IF region[r].nrefs > 1
     THEN Goto(t, "idle") /\ UNCHANGED regLock
     ELSE Goto(t, "unreg") /\ regLock' = [regLock EXCEPT ![r] = t]
  /\ UNCHANGED <<map, cache, mrs, mapLock, devLock, arg, handles, calls>>

FaultHeldMrs(r) ==               \* fault: the loop starts at NIC 1
  {region[r].mr[d] : d \in 2..NDevs} \ {None}

HeldMrs(r) == {region[r].mr[d] : d \in Devs} \ {None}

\* wrap_ibv_dereg_mr of the region's MRs; the caches keep their entries.
DeregMrs(t) ==
  LET r == arg[t].cur IN
  /\ pc[t] = "unreg"
  /\ mrs' = [m \in Mrs |-> IF m \in HeldMrs(r) THEN NoMr ELSE mrs[m]]
  /\ region' = [region EXCEPT ![r].mr = [d \in Devs |-> None]]
  /\ Goto(t, "erase")
  /\ UNCHANGED <<map, cache, mapLock, devLock, regLock, arg, handles, calls>>

\* One of them fails: FuseLinkDeregMr returns with the region's lock.
DeregRefused(t) ==
  LET r == arg[t].cur IN
  /\ MayFail /\ pc[t] = "unreg"
  /\ \E d \in Devs :
       /\ region[r].mr[d] # None
       /\ mrs' = [m \in Mrs |->
            IF m \in {region[r].mr[e] : e \in 1..d-1} THEN NoMr ELSE mrs[m]]
       /\ region' = [region EXCEPT ![r].mr = [e \in Devs |-> IF e < d THEN None ELSE @[e]]]
  /\ Goto(t, "idle")
  /\ UNCHANGED <<map, cache, mapLock, devLock, regLock, arg, handles, calls>>

\* The base leaves the map.
DeregErase(t) ==
  LET r == arg[t].cur IN
  /\ pc[t] = "erase" /\ mapLock = None
  /\ map' = [map EXCEPT ![region[r].base] = None]
  /\ regLock' = [regLock EXCEPT ![r] = None]
  /\ Goto(t, "free")
  /\ UNCHANGED <<region, cache, mrs, mapLock, devLock, arg, handles, calls>>

\* The region's mappings, its lock and itself are destroyed.
DeregFree(t) ==
  /\ pc[t] = "free"
  /\ region' = [region EXCEPT ![arg[t].cur].state = "freed"]
  /\ Goto(t, "idle")
  /\ UNCHANGED <<map, cache, mrs, mapLock, devLock, regLock, arg, handles, calls>>

-----------------------------------------------------------------------------
Step(t) ==
  \/ RegFind(t) \/ RegRef(t) \/ RegCreate(t) \/ RegHit(t) \/ RegMiss(t)
  \/ RegRefused(t) \/ RegPublish(t)
  \/ DeregDrop(t) \/ DeregMrs(t) \/ DeregRefused(t) \/ DeregErase(t) \/ DeregFree(t)

Next ==
  \E t \in Threads :
    \/ \E b \in Bases, d \in CtlDevs : RegCall(t, b, d)
    \/ \E r \in Regions, d \in CtlDevs : DeregCall(t, r, d)
    \/ Step(t)

\* A thread inside a call goes on when it can; nobody must call.
Spec == Init /\ [][Next]_vars /\ \A t \in Threads : WF_vars(Step(t))

-----------------------------------------------------------------------------
\* Every variable has its type; no reference is dropped that was not taken.
TypeOK ==
  /\ \A r \in Regions :
       /\ region[r].base \in Bases \cup {None} /\ region[r].nrefs \in Nat
       /\ region[r].mr \in [Devs -> Mrs \cup {None}]
       /\ region[r].state \in {"none", "live", "freed"}
  /\ map \in [Bases -> Regions \cup {None}]
  /\ cache \in [Devs -> [Bases -> Mrs \cup {None}]]
  /\ mapLock \in Threads \cup {None} /\ devLock \in [Devs -> Threads \cup {None}]
  /\ regLock \in [Regions -> Threads \cup {None}]
  /\ pc \in [Threads -> {"idle"} \cup RegPcs \cup DeregPcs]

\* The users of a region: handles given out, and calls that own a reference.
HandlesOf(r) ==
  {h \in (Threads \X Devs) \X (1..MaxCalls) : h[2] <= handles[h[1][1]][<<r, h[1][2]>>]}

CallsOwning(r) == {t \in Threads : arg[t].cur = r /\ pc[t] \in {"dev", "publish", "drop"}}

Users(r) == Cardinality(HandlesOf(r)) + Cardinality(CallsOwning(r))

\* Is a thread already taking the region apart?
Dying(r) == \E t \in Threads : arg[t].cur = r /\ pc[t] \in DeregPcs \ {"drop"}

(***************************************************************************)
(* nrefs is the number of users, and only a region without users is taken  *)
(* apart: nobody ever locks or is given one that was freed, although the   *)
(* region found in the map is locked only after the map is unlocked.       *)
(***************************************************************************)
RefsCounted ==
  \A r \in Regions :
    /\ region[r].state = "live" => region[r].nrefs = Users(r)
    /\ Users(r) > 0 \/ (\E t \in Threads : pc[t] = "ref" /\ arg[t].cur = r) =>
         region[r].state = "live" /\ ~Dying(r)

(***************************************************************************)
(* An allocation never has two regions at a time, however many threads     *)
(* register it at once: the second would map the same memory again.        *)
(***************************************************************************)
OneRegionPerBase ==
  \A q, r \in Regions :
    region[q].state = "live" /\ region[r].state = "live" /\ region[q].base = region[r].base
      => q = r

(***************************************************************************)
(* FuseLinkMemRegion.mr is what a caller's sends and receives take their   *)
(* keys from: as long as somebody has a handle on a region, its MRs stay   *)
(* as they are and the NICs keep them, whoever else registers, refuses or  *)
(* takes apart what.                                                       *)
(***************************************************************************)
HeldMrsKept ==
  [][\A t \in Threads, r \in Regions, d \in Devs : handles[t][<<r, d>>] > 0 =>
       region'[r].mr = region[r].mr /\ \A m \in HeldMrs(r) : mrs'[m] = mrs[m]]_vars

(***************************************************************************)
(* The comment on nrefs in fuselink.h, "when 0, can be freed": a region is *)
(* freed only when it is 0.                                                *)
(***************************************************************************)
FreedAtZero ==
  [][\A r \in Regions : region[r].state = "live" /\ region'[r].state = "freed"
       => region[r].nrefs = 0]_region

(***************************************************************************)
(* No MR outlives its region: memory the caller has deregistered           *)
(* everywhere is not left open to the NICs.                                *)
(***************************************************************************)
NoMrLeft ==
  \A m \in Mrs : mrs[m] # NoMr =>
    \E r \in Regions, d \in Devs : region[r].state = "live" /\ region[r].mr[d] = m

\* Who has the lock that t must take next.
Holder(t) ==
  CASE pc[t] \in {"find", "erase"} -> mapLock
    [] pc[t] = "dev" -> devLock[arg[t].next]
    [] pc[t] \in {"ref", "drop"} -> regLock[arg[t].cur]
    [] OTHER -> None

\* A refused call returned with that lock: with a NIC's (a lock that no other
\* step leaves taken), or with a region's that nobody is taking apart.
KeptByRefusal(t) ==
  /\ Holder(t) # None
  /\ \/ pc[t] = "dev"
     \/ pc[t] \in {"ref", "drop"} /\ ~Dying(arg[t].cur)

(***************************************************************************)
(* Every call returns, or waits for a lock that a refused call kept, or    *)
(* behind one that does: the locks of the map, the NICs and the regions    *)
(* are never waited for in a circle, and no other path leaves one taken.   *)
(***************************************************************************)
CallsReturn ==
  \A t \in Threads : pc[t] # "idle" ~>
    \/ pc[t] = "idle"
    \/ KeptByRefusal(t)
    \/ Holder(t) # None /\ KeptByRefusal(Holder(t))
    \/ /\ Holder(t) # None /\ Holder(Holder(t)) # None
       /\ KeptByRefusal(Holder(Holder(t)))
=============================================================================
