----------------------------- MODULE NicMonitor -----------------------------
(***************************************************************************)
(* The NIC monitor (src/src/monitor.cpp), its clients (MonitorClient in    *)
(* src/src/monitor.h) and the connection manager that moves channels to    *)
(* idle NICs with them (FuseLinkConnManager in src/src/fuselink.h).        *)
(*                                                                         *)
(* They share one memory segment under one semaphore, so a client call is  *)
(* one action, and the monitor's loop one action per group: it reads the   *)
(* clock once, before it has the semaphore.  A client process may die      *)
(* within a call, with the call half done and the semaphore taken for      *)
(* good.  A group has one NIC (NNIC_PER_GROUP).  Only ages matter: a time  *)
(* stamp is represented by how long ago it is, up to the longest age the   *)
(* code can tell apart.                                                    *)
(***************************************************************************)
EXTENDS Integers, FiniteSetsExt

CONSTANTS
  NGroups,    \* NGROUP
  NChannels,  \* channels of the connection manager
  PriorityDev,\* the NIC every channel starts on
  Timeout,    \* MONITOR_TIMEOUT_US, in ticks
  MaxSweep    \* bound: ticks a sweep of the monitor may take

ASSUME ConstantsOK ==
  /\ NGroups \in Nat \ {0} /\ NChannels \in Nat \ {0} /\ NChannels <= NGroups
  /\ PriorityDev \in 0..NGroups-1 /\ Timeout \in Nat \ {0} /\ MaxSweep \in Nat

Nics     == 0..NGroups-1
Channels == 0..NChannels-1
Dirs     == {"tx", "rx"}
MaxAge   == Timeout + MaxSweep
NoNic    == -1

VARIABLES
  status,   \* nic_tx_statuses, nic_rx_statuses
  age,      \* the time since nic_*_last_active_ts, at most MaxAge
  sweep,    \* the group the monitor comes to next, NGroups while it sleeps
  sweepAge, \* the time since current_ts
  sem,      \* the semaphore between calls: "free", or "lost" with a dead client
  dev       \* txchannel2dev_ (rxchannel2dev_ is written and never read)

vars == <<status, age, sweep, sweepAge, sem, dev>>

Init ==
  /\ status = [w \in Dirs |-> [n \in Nics |-> "idle"]]
  /\ age = [w \in Dirs |-> [n \in Nics |-> MaxAge]]
  /\ sweep = NGroups /\ sweepAge = 0 /\ sem = "free"
  /\ dev = [c \in Channels |-> PriorityDev]

-----------------------------------------------------------------------------
\* The loop of getIdleNic* leaves only its inner loop at an idle NIC: it marks
\* every idle NIC it comes across, and hands out the last.
Borrow(w, idle) ==
  status' = [status EXCEPT ![w] = [n \in Nics |-> IF n \in idle THEN "borrowed" ELSE @[n]]]

FaultIdleNic(idle) ==            \* fault: the loop index when there is none
  IF idle = {} THEN NGroups ELSE Max(idle)

\* idle_nic_id after the loop.
IdleNic(idle) == IF idle = {} THEN NoNic ELSE Max(idle)

\* getIdleNicTx, getIdleNicRx: a NIC of another group, or -1.
GetIdleNic(w, group, c) ==
  LET idle == {n \in Nics \ {group} : status[w][n] = "idle"}
      nic  == IdleNic(idle)
  IN /\ sem = "free"
     /\ Borrow(w, idle)
     /\ dev' = IF w = "tx" THEN [dev EXCEPT ![c] = nic] ELSE dev
     /\ UNCHANGED <<age, sweep, sweepAge, sem>>

\* refreshTxComm leaves the group of the channel's present NIC, refreshRxComm
\* the group with the channel's number.
RefreshTx(c) == GetIdleNic("tx", dev[c], c)
RefreshRx(c) == GetIdleNic("rx", c, c)

\* markNicTxAsActive, markNicRxAsActive.
Mark(w, n) ==
  /\ sem = "free"
  /\ age' = [age EXCEPT ![w][n] = 0]
  /\ status' = [status EXCEPT ![w][n] = "busy"]
  /\ UNCHANGED <<sweep, sweepAge, sem, dev>>

\* updateTxChannelActive, updateRxChannelActive: both go by the transmit NIC.
\* With NIC -1 they would write outside the segment.
UpdateActive(w, c) == dev[c] # NoNic /\ Mark(w, dev[c])

\* A client process dies between sem_wait and sem_post: in getIdleNic*, before
\* its loop has marked a NIC or with the idle NICs up to NIC n marked ...
DieBorrowing(w, group, n) ==
  /\ n # NoNic => n # group /\ status[w][n] = "idle"
  /\ sem = "free" /\ sem' = "lost"
  /\ Borrow(w, {k \in Nics \ {group} : k <= n /\ status[w][k] = "idle"})
  /\ UNCHANGED <<age, sweep, sweepAge, dev>>

\* ... or in markNic*AsActive, with the time stamp written and not the status.
DieMarking(w, c) ==
  /\ dev[c] # NoNic
  /\ sem = "free" /\ sem' = "lost"
  /\ age' = [age EXCEPT ![w][dev[c]] = 0]
  /\ UNCHANGED <<status, sweep, sweepAge, dev>>

-----------------------------------------------------------------------------
\* monitorThread: a turn of its loop reads the clock ...
SweepStart ==
  /\ sweep = NGroups
  /\ sweep' = 0 /\ sweepAge' = 0
  /\ UNCHANGED <<status, age, sem, dev>>

FaultQuiet(w, n) == age[w][n] >= sweepAge   \* fault: the timeout is left out

\* last_active_ts + MONITOR_TIMEOUT_US > current_ts does not hold.
Quiet(w, n) == Timeout + sweepAge <= age[w][n]

FaultSweepGroup ==               \* fault: a borrowed NIC keeps its status
  /\ sweep < NGroups /\ sem = "free"
  /\ status' = [w \in Dirs |->
       [status[w] EXCEPT ![sweep] = IF Quiet(w, sweep) /\ @ = "busy" THEN "idle" ELSE @]]
  /\ sweep' = sweep + 1
  /\ UNCHANGED <<age, sweepAge, sem, dev>>

\* ... and sets idle, group by group, what has been quiet for the timeout.
SweepGroup ==
  /\ sweep < NGroups /\ sem = "free"
  /\ status' = [w \in Dirs |->
       [status[w] EXCEPT ![sweep] = IF Quiet(w, sweep) THEN "idle" ELSE @]]
  /\ sweep' = sweep + 1
  /\ UNCHANGED <<age, sweepAge, sem, dev>>

\* Time passes; when the semaphore is lost nobody looks at it any more.
Tick ==
  /\ sem = "free"
  /\ sweep < NGroups => sweepAge < MaxSweep
  /\ age' = [w \in Dirs |-> [n \in Nics |-> Min({age[w][n] + 1, MaxAge})]]
  /\ sweepAge' = IF sweep < NGroups THEN sweepAge + 1 ELSE sweepAge
  /\ UNCHANGED <<status, sweep, sem, dev>>

Next ==
  \/ \E c \in Channels : RefreshTx(c) \/ RefreshRx(c)
  \/ \E w \in Dirs, c \in Channels : UpdateActive(w, c)
  \/ \E w \in Dirs, group \in Nics, n \in Nics \cup {NoNic} : DieBorrowing(w, group, n)
  \/ \E w \in Dirs, c \in Channels : DieMarking(w, c)
  \/ SweepStart \/ SweepGroup \/ Tick

\* The monitor keeps sweeping, and time passes.
Spec == Init /\ [][Next]_vars /\ WF_vars(SweepStart \/ SweepGroup) /\ WF_vars(Tick)

-----------------------------------------------------------------------------
\* Every variable has its type; a channel has a NIC or none.
TypeOK ==
  /\ status \in [Dirs -> [Nics -> {"idle", "busy", "borrowed"}]]
  /\ age \in [Dirs -> [Nics -> 0..MaxAge]]
  /\ sweep \in 0..NGroups /\ sweepAge \in 0..MaxSweep /\ sem \in {"free", "lost"}
  /\ dev \in [Channels -> Nics \cup {NoNic}]

(***************************************************************************)
(* A NIC that was active less than the timeout ago is never idle when the  *)
(* semaphore can be taken, so never lent: the monitor decides by a time it *)
(* read before it waited for the semaphore, and clients were active        *)
(* meanwhile.                                                              *)
(***************************************************************************)
IdleMeansQuiet ==
  sem = "free" =>
    \A w \in Dirs, n \in Nics : status[w][n] = "idle" => age[w][n] >= Timeout

(***************************************************************************)
(* A NIC nobody is active on becomes idle again, those marked borrowed     *)
(* that no channel was given included, unless a client died with the       *)
(* semaphore.                                                              *)
(***************************************************************************)
QuietBecomesIdle ==
  \A w \in Dirs, n \in Nics :
    status[w][n] # "idle" /\ age[w][n] > 0 ~>
      status[w][n] = "idle" \/ age[w][n] = 0 \/ sem = "lost"
=============================================================================
