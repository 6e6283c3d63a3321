------------------------------ MODULE ConnSetup ------------------------------
(***************************************************************************)
(* Connection setup and teardown: ncclIbListen, ncclIbConnect,             *)
(* ncclIbAccept and ncclIbClose* (src/src/plugin.cc), for several          *)
(* connections between several processes.                                  *)
(*                                                                         *)
(* Connect and Accept are called again and again until they hand out a     *)
(* communicator; a stage remembers where they were.  An action is what a   *)
(* call does from one possible return to the next.  The two sides talk     *)
(* over a TCP socket, which may split a message into pieces.  A connection *)
(* has one link (FuseLinkComm with its queue pair) per NIC at each end;    *)
(* links are found through a table of the process, indexed by channel and  *)
(* NIC.  A call of the verbs library may be refused at either end; the     *)
(* caller then gets an error, and the other end is not told.               *)
(***************************************************************************)
EXTENDS Integers, Sequences, FiniteSets

CONSTANTS
  Procs,        \* processes that loaded the plugin
  Conns,        \* connections NCCL sets up
  From, To,     \* [Conns -> Procs]: who connects, who listens
  NNics,        \* ncclNIbDevs, the same everywhere
  NChannels,    \* nChannels
  Channel2NIC,  \* [0..NChannels-1 -> NIC or -1]: FUSELINK_CHANNEL2NIC, the same everywhere
  Dev,          \* [Sides -> [Conns -> Nics]]: the NIC NCCL names, each end for itself
  MaxChannel,   \* FUSELINK_MAX_NCHANNEL
  Pieces        \* bound: pieces a message on the socket is split into

Nics  == 0..NNics-1
Sides == {"send", "recv"}

ASSUME ConstantsOK ==
  /\ NNics \in Nat \ {0} /\ NChannels \in Nat \ {0} /\ Pieces \in Nat \ {0}
  /\ From \in [Conns -> Procs] /\ To \in [Conns -> Procs]
  /\ Dev \in [Sides -> [Conns -> Nics]]
  /\ Channel2NIC \in [0..NChannels-1 -> Nics \cup {-1}]
  /\ IsFiniteSet(Conns) /\ MaxChannel \in Nat /\ Cardinality(Conns) <= MaxChannel

Channels == 0..MaxChannel-1
NoConn   == "none"
NoLink   == <<NoConn, NoConn, -1>>             \* a qpn that names no queue pair
NoChan   == -1

VARIABLES
  counter,  \* [Procs -> Nat]: channelCounter
  chan,     \* [Conns -> handle->channelId]
  stage,    \* [Sides -> [Conns -> [state, offset, buffer]]]: ncclIbCommStage
  sock,     \* [Sides -> [Conns -> pieces sent by that side and not yet read]]
  table,    \* fuselink_send_comm_, fuselink_recv_comm_: whose link is where
  link,     \* [Sides -> [Conns -> [Nics -> [state, peer]]]]: the links
  pdRefs,   \* [Procs -> [Nics -> Int]]
  fifoMr,   \* [Conns -> the NIC the sender's FIFO is registered on, or -1]
  remFifo,  \* [Conns -> whose FIFO, on which NIC, the receiver will write to]
  control   \* [Sides -> [Conns -> the link of control_comm]]

vars == <<counter, chan, stage, sock, table, link, pdRefs, fifoMr, remFifo, control>>

\* A link: none yet, a FuseLinkComm with its protection domain, one with a fresh
\* queue pair, one that is connected, one that was destroyed.
LinkStates == {"none", "made", "init", "rts", "gone"}
InUse      == {"made", "init", "rts"}
NewLink(state) == [state |-> state, peer |-> NoLink]

NoInfo  == [n \in Nics |-> [qp |-> NoLink, fifo |-> NoLink]]
Begin   == [state |-> "start", offset |-> 0, buffer |-> <<>>]
Magic   == [info |-> "magic", part |-> 1]
Ready   == [info |-> "ready", part |-> 1]
Proc(s, c)  == IF s = "send" THEN From[c] ELSE To[c]
Other(s)    == IF s = "send" THEN "recv" ELSE "send"

\* ncclIbInit takes a reference to the protection domain of every NIC.
Init ==
  /\ counter = [p \in Procs |-> 0] /\ chan = [c \in Conns |-> NoChan]
  /\ stage = [s \in Sides |-> [c \in Conns |-> [Begin EXCEPT !.state = "none"]]]
  /\ sock = [s \in Sides |-> [c \in Conns |-> <<>>]]
  /\ table = [s \in Sides |-> [p \in Procs |->
                [h \in Channels |-> [n \in Nics |-> NoConn]]]]
  /\ link = [s \in Sides |-> [c \in Conns |-> [n \in Nics |-> NewLink("none")]]]
  /\ pdRefs = [p \in Procs |-> [n \in Nics |-> 1]]
  /\ fifoMr = [c \in Conns |-> -1] /\ remFifo = [c \in Conns |-> NoLink]
  /\ control = [s \in Sides |-> [c \in Conns |-> NoLink]]

-----------------------------------------------------------------------------
FaultControlDev(s, c) ==         \* fault: only the listener looks at the mapping
  LET nic == Channel2NIC[chan[c] % NChannels]
  IN IF s = "send" \/ nic = -1 THEN Dev[s][c] ELSE nic

\* The control NIC of a side: the one the environment maps the channel to, if
\* any, or the one NCCL named at this end.
ControlDev(s, c) ==
  LET nic == Channel2NIC[chan[c] % NChannels] IN IF nic = -1 THEN Dev[s][c] ELSE nic

\* The row of the table that c's calls of this side work on, NIC by NIC.
Row(s, c, n)     == table[s][Proc(s, c)][chan[c]][n]
RowLink(s, c, n) == link[s][Row(s, c, n)][n]
PutRow(s, c, L)  ==
  link' = [link EXCEPT ![s] = [d \in Conns |-> [n \in Nics |->
             IF Row(s, c, n) = d THEN L[n] ELSE @[d][n]]]]

\* One message more in the staging buffer, made of all its pieces.
Decode(buffer) ==
  IF \A i \in 1..Pieces : buffer[i] = [info |-> buffer[1].info, part |-> i]
  THEN buffer[1].info ELSE NoInfo

Goto(s, c, state, buffer) ==
  stage' = [stage EXCEPT ![s][c] = [state |-> state, offset |-> 0, buffer |-> buffer]]

\* The links that were made enter the row, each with a reference to the
\* protection domain of its NIC (FuseLinkInitSendComm, FuseLinkInitRecvComm).
MakeLinks(s, c, L) ==
  /\ link' = [link EXCEPT ![s][c] = L]
  /\ table' = [table EXCEPT ![s][Proc(s, c)][chan[c]] =
                 [n \in Nics |-> IF L[n].state = "none" THEN @[n] ELSE c]]
  /\ pdRefs' = [pdRefs EXCEPT ![Proc(s, c)] =
                  [n \in Nics |-> IF L[n].state = "none" THEN @[n] ELSE @[n] + 1]]

\* The verbs library refuses a call for NIC k, whose link got as far as the
\* given state: the NICs before it have links like L's, those after it none.
RefusedAt(k, state, L) ==
  [n \in Nics |-> IF n < k THEN L[n] ELSE NewLink(IF n = k THEN state ELSE "none")]

FaultDropPds(p) == UNCHANGED pdRefs             \* fault: the reference is kept

\* FuseLinkCloseSend, FuseLinkCloseRecv for every NIC.
DropPds(p) == pdRefs' = [pdRefs EXCEPT ![p] = [n \in Nics |-> @[n] - 1]]

\* ncclIbRtrQp, ncclIbRtsQp: only a queue pair fresh from FuseLinkCreateQp.
CanBringUp(s, c, n) == RowLink(s, c, n).state = "init"
Up(info) == [n \in Nics |-> [state |-> "rts", peer |-> info[n].qp]]

FaultAllocateChannel(p) == UNCHANGED counter    \* fault: the counter stays

\* ncclIbAllocateChannel.
AllocateChannel(p) == counter' = [counter EXCEPT ![p] = @ + 1]

\* ncclIbListen.
Listen(c) ==
  /\ stage["recv"][c].state = "none"
  /\ chan' = [chan EXCEPT ![c] = counter[To[c]]]
  /\ AllocateChannel(To[c])
  /\ Goto("recv", c, "start", <<>>)
  /\ UNCHANGED <<sock, table, link, pdRefs, fifoMr, remFifo, control>>

-----------------------------------------------------------------------------
\* ncclIbConnect, first call, once NCCL has passed on the handle.
ConnectStart(c) ==
  /\ chan[c] # NoChan /\ stage["send"][c].state = "none"
  /\ Goto("send", c, "connect", <<>>)
  /\ UNCHANGED <<counter, chan, sock, table, link, pdRefs, fifoMr, remFifo, control>>

FreshLinks == [n \in Nics |-> NewLink("init")]

\* ib_connect_check: the socket is ready; a link on every NIC ...
ConnectLinks(c) ==
  LET dev == ControlDev("send", c)
      info == [n \in Nics |-> [qp |-> <<"send", c, n>>,
                               fifo |-> IF n = dev THEN <<"fifo", c, n>> ELSE NoLink]]
  IN /\ stage["send"][c].state = "connect"
     /\ sock' = [sock EXCEPT !["send"][c] = Append(@, Magic)]
     /\ MakeLinks("send", c, FreshLinks)
     /\ fifoMr' = [fifoMr EXCEPT ![c] = dev]
     /\ Goto("send", c, "send", info)
     /\ UNCHANGED <<counter, chan, remFifo, control>>

\* ... or one is refused, before its queue pair is fresh or after (the FIFO is
\* registered last on its NIC): the call ends in an error.
ConnectRefused(c) ==
  LET dev == ControlDev("send", c)
  IN /\ stage["send"][c].state = "connect"
     /\ sock' = [sock EXCEPT !["send"][c] = Append(@, Magic)]
     /\ \E k \in Nics, state \in {"made", "init"} :
          /\ MakeLinks("send", c, RefusedAt(k, state, FreshLinks))
          /\ fifoMr' = [fifoMr EXCEPT ![c] = IF dev < k THEN dev ELSE -1]
     /\ Goto("send", c, "refused", <<>>)
     /\ UNCHANGED <<counter, chan, remFifo, control>>

FaultSent(s, c, next) ==         \* fault: the offset is not reset
  stage' = [stage EXCEPT ![s][c] = [state |-> next, offset |-> Pieces, buffer |-> <<>>]]

\* What follows the last piece of a message.
Sent(s, c, next) == Goto(s, c, next, <<>>)

\* ib_send of either side: a piece more, and on to the next stage after the last.
SendPiece(s, c, next) ==
  LET st == stage[s][c]
  IN /\ st.state = "send"
     /\ sock' = [sock EXCEPT ![s][c] =
                   Append(@, [info |-> st.buffer, part |-> st.offset + 1])]
     /\ IF st.offset + 1 = Pieces THEN Sent(s, c, next)
        ELSE stage' = [stage EXCEPT ![s][c].offset = @ + 1]
     /\ UNCHANGED <<counter, chan, table, link, pdRefs, fifoMr, remFifo, control>>

ConnectSend(c) == SendPiece("send", c, "connecting")

\* A piece arrives at side s, which is in the given state; it is not the last.
ReadPiece(s, c, state) ==
  /\ stage[s][c].state = state /\ stage[s][c].offset + 1 < Pieces
  /\ sock[Other(s)][c] # <<>>
  /\ sock' = [sock EXCEPT ![Other(s)][c] = Tail(@)]
  /\ stage' = [stage EXCEPT ![s][c].offset = @ + 1,
                            ![s][c].buffer = Append(@, Head(sock[Other(s)][c]))]
  /\ UNCHANGED <<counter, chan, table, link, pdRefs, fifoMr, remFifo, control>>

\* The last piece arrives, and the message is Incoming(s, c).
LastPiece(s, c, state) ==
  /\ stage[s][c].state = state /\ stage[s][c].offset + 1 = Pieces
  /\ sock[Other(s)][c] # <<>>
  /\ sock' = [sock EXCEPT ![Other(s)][c] = Tail(@)]

Incoming(s, c) == Decode(Append(stage[s][c].buffer, Head(sock[Other(s)][c])))

ConnectRead(c) == ReadPiece("send", c, "connecting")

\* ib_connect: the links in the channel's row are connected to the peer's ...
ConnectUp(c) ==
  /\ LastPiece("send", c, "connecting")
  /\ \A n \in Nics : CanBringUp("send", c, n)
  /\ PutRow("send", c, Up(Incoming("send", c)))
  /\ Goto("send", c, "connected", <<>>)
  /\ UNCHANGED <<counter, chan, table, pdRefs, fifoMr, remFifo, control>>

\* ... or the verbs library refuses one of them (a link that is not fresh, for
\* one): those before it stay connected, and the call ends in an error.
ConnectFails(c) ==
  /\ LastPiece("send", c, "connecting")
  /\ \E k \in Nics :
       /\ \A n \in 0..k-1 : CanBringUp("send", c, n)
       /\ PutRow("send", c, [n \in Nics |->
            IF n < k THEN Up(Incoming("send", c))[n] ELSE RowLink("send", c, n)])
  /\ Goto("send", c, "failed", <<>>)
  /\ UNCHANGED <<counter, chan, table, pdRefs, fifoMr, remFifo, control>>

\* ib_send_ready: the peer is told, and the communicator handed out.
ConnectReady(c) ==
  /\ stage["send"][c].state = "connected"
  /\ sock' = [sock EXCEPT !["send"][c] = Append(@, Ready)]
  /\ control' = [control EXCEPT !["send"][c] =
       LET dev == ControlDev("send", c) IN <<"send", Row("send", c, dev), dev>>]
  /\ Goto("send", c, "done", <<>>)
  /\ UNCHANGED <<counter, chan, table, link, pdRefs, fifoMr, remFifo>>

-----------------------------------------------------------------------------
\* ncclIbAccept, first call.
AcceptStart(c) ==
  /\ stage["recv"][c].state = "start"
  /\ Goto("recv", c, "accept", <<>>)
  /\ UNCHANGED <<counter, chan, sock, table, link, pdRefs, fifoMr, remFifo, control>>

\* ib_accept_check: the socket is ready once the magic number came in.
AcceptCheck(c) ==
  /\ stage["recv"][c].state = "accept"
  /\ sock["send"][c] # <<>> /\ Head(sock["send"][c]) = Magic
  /\ sock' = [sock EXCEPT !["send"][c] = Tail(@)]
  /\ Goto("recv", c, "recv", <<>>)
  /\ UNCHANGED <<counter, chan, table, link, pdRefs, fifoMr, remFifo, control>>

AcceptRead(c) == ReadPiece("recv", c, "recv")

FaultAcceptInfo(c) == NoInfo     \* fault: the answer is sent before it is filled in

\* "Fill Handles": the links of the channel's row, this connection's by now.
AcceptInfo(c) == [n \in Nics |-> [qp |-> <<"recv", c, n>>, fifo |-> NoLink]]

\* The control link, and where the peer's FIFO is: what the peer said of the
\* NIC that this end took (it says it of the NIC that it took itself).
TakeFifo(c) ==
  LET dev == ControlDev("recv", c)
  IN /\ control' = [control EXCEPT !["recv"][c] = <<"recv", c, dev>>]
     /\ remFifo' = [remFifo EXCEPT ![c] = Incoming("recv", c)[dev].fifo]

\* ib_recv: a link on every NIC, connected to the peer's ...
AcceptLinks(c) ==
  /\ LastPiece("recv", c, "recv")
  /\ MakeLinks("recv", c, Up(Incoming("recv", c)))
  /\ TakeFifo(c)
  /\ Goto("recv", c, "send", AcceptInfo(c))
  /\ UNCHANGED <<counter, chan, fifoMr>>

\* ... or one is refused, before it is made, before its queue pair is fresh or
\* after; or, with all of them up, the memory for what is written to the FIFO.
AcceptRefused(c) ==
  /\ LastPiece("recv", c, "recv")
  /\ \/ /\ \E k \in Nics, state \in {"none", "made", "init"} :
             MakeLinks("recv", c, RefusedAt(k, state, Up(Incoming("recv", c))))
        /\ UNCHANGED <<control, remFifo>>
     \/ MakeLinks("recv", c, Up(Incoming("recv", c))) /\ TakeFifo(c)
  /\ Goto("recv", c, "refused", <<>>)
  /\ UNCHANGED <<counter, chan, fifoMr>>

AcceptSend(c) == SendPiece("recv", c, "pending")

FaultAcceptReady(c) ==           \* fault: the ready message is not waited for
  /\ stage["recv"][c].state = "pending"
  /\ Goto("recv", c, "done", <<>>)
  /\ UNCHANGED <<counter, chan, sock, table, link, pdRefs, fifoMr, remFifo, control>>

\* ib_recv_ready: the peer is ready, and the communicator is handed out.
AcceptReady(c) ==
  /\ stage["recv"][c].state = "pending" /\ stage["recv"][c].offset = 0
  /\ sock["send"][c] # <<>>
  /\ sock' = [sock EXCEPT !["send"][c] = Tail(@)]
  /\ Goto("recv", c, "done", <<>>)
  /\ UNCHANGED <<counter, chan, table, link, pdRefs, fifoMr, remFifo, control>>

-----------------------------------------------------------------------------
\* The links in the row of c are destroyed; the row keeps pointing to them.
DestroyLinks(s, c) ==
  PutRow(s, c, [n \in Nics |-> [RowLink(s, c, n) EXCEPT !.state = "gone"]])

\* ncclIbCloseSend.
CloseSend(c) ==
  /\ stage["send"][c].state = "done"
  /\ DestroyLinks("send", c) /\ DropPds(From[c])
  /\ fifoMr' = [fifoMr EXCEPT ![c] = -1]
  /\ Goto("send", c, "closed", <<>>)
  /\ UNCHANGED <<counter, chan, sock, table, remFifo, control>>

\* ncclIbCloseRecv.
CloseRecv(c) ==
  /\ stage["recv"][c].state = "done"
  /\ DestroyLinks("recv", c) /\ DropPds(To[c])
  /\ Goto("recv", c, "closed", <<>>)
  /\ UNCHANGED <<counter, chan, sock, table, fifoMr, remFifo, control>>

\* The steps of the calls the proxy thread of a side repeats until it is done.
ConnectStep(c) ==
  \/ ConnectStart(c) \/ ConnectLinks(c) \/ ConnectRefused(c) \/ ConnectSend(c)
  \/ ConnectRead(c) \/ ConnectUp(c) \/ ConnectFails(c) \/ ConnectReady(c)
AcceptStep(c) ==
  \/ AcceptStart(c) \/ AcceptCheck(c) \/ AcceptRead(c) \/ AcceptLinks(c)
  \/ AcceptRefused(c) \/ AcceptSend(c) \/ AcceptReady(c)

Next == \E c \in Conns :
  Listen(c) \/ ConnectStep(c) \/ AcceptStep(c) \/ CloseSend(c) \/ CloseRecv(c)

\* NCCL repeats both calls until they hand out a communicator or an error.
Spec == Init /\ [][Next]_vars
        /\ \A c \in Conns : WF_vars(ConnectStep(c)) /\ WF_vars(AcceptStep(c))

-----------------------------------------------------------------------------
\* Types.
TypeOK ==
  /\ counter \in [Procs -> Nat] /\ chan \in [Conns -> Channels \cup {NoChan}]
  /\ \A s \in Sides, c \in Conns :
       /\ stage[s][c].offset \in 0..Pieces-1
       /\ stage[s][c].state \in {"none", "start", "connect", "refused", "send", "connecting",
            "connected", "failed", "accept", "recv", "pending", "done", "closed"}
       /\ Len(sock[s][c]) <= Pieces + 2
       /\ \A n \in Nics : link[s][c][n].state \in LinkStates
  /\ table \in [Sides -> [Procs -> [Channels -> [Nics -> Conns \cup {NoConn}]]]]
  /\ pdRefs \in [Procs -> [Nics -> Int]] /\ fifoMr \in [Conns -> Nics \cup {-1}]

(***************************************************************************)
(* The links of a communicator that was handed out are connected, NIC by   *)
(* NIC, to the other side's links of the same connection, which were       *)
(* brought up before.                                                      *)
(***************************************************************************)
LinksPaired ==
  \A s \in Sides, c \in Conns : stage[s][c].state = "done" =>
    \A n \in Nics :
      /\ link[s][c][n] = [state |-> "rts", peer |-> <<Other(s), c, n>>]
      /\ link[Other(s)][c][n].peer = <<s, c, n>>
      /\ stage[Other(s)][c].state # "closed" => link[Other(s)][c][n].state = "rts"

\* The receiver writes to the FIFO of its own peer, registered on the NIC that
\* the control links of both sides use.
Reaches(c) ==
  LET n == control["recv"][c][3] IN
  /\ remFifo[c] = <<"fifo", c, n>>
  /\ stage["send"][c].state # "closed" => fifoMr[c] = n
  /\ control["send"][c] = <<"send", c, n>>

\* The channel is mapped to a NIC, or NCCL names the same one at both ends.
Agreed(c) ==
  Channel2NIC[chan[c] % NChannels] # -1 \/ Dev["send"][c] = Dev["recv"][c]

(***************************************************************************)
(* Exactly the connections of a mapped channel, and those whose ends were  *)
(* told the same NIC, have a receiver that reaches the sender's FIFO; the  *)
(* others are handed out with the address of no FIFO at all.               *)
(***************************************************************************)
FifoFound ==
  \A c \in Conns : stage["recv"][c].state = "done" =>
    IF Agreed(c) THEN Reaches(c) ELSE remFifo[c] = NoLink

(***************************************************************************)
(* The row of a channel holds the link of the connection that uses the     *)
(* channel on each NIC, from the moment it makes it until it closes it.    *)
(***************************************************************************)
RowsOwned ==
  \A s \in Sides, c \in Conns, n \in Nics :
    link[s][c][n].state \in InUse => Row(s, c, n) = c

(***************************************************************************)
(* A protection domain counts ncclIbInit and the links that use it, those  *)
(* of refused set-ups included, so it is never freed under one of them     *)
(* (nor with a lock held on the way).                                      *)
(***************************************************************************)
PdsCounted ==
  \A p \in Procs, n \in Nics :
    pdRefs[p][n] = 1 + Cardinality({sc \in Sides \X Conns :
      Proc(sc[1], sc[2]) = p /\ link[sc[1]][sc[2]][n].state \in InUse})

\* The verbs library refused a call of one side.
Refused(s, c) == stage[s][c].state \in {"refused", "failed"}

(***************************************************************************)
(* No side is handed a communicator whose other side was refused one: the  *)
(* exchange ends with the side that can still be refused telling the other *)
(* that it was not.                                                        *)
(***************************************************************************)
HandedOutTogether ==
  \A s \in Sides, c \in Conns :
    Refused(s, c) => stage[Other(s)][c].state \notin {"done", "closed"}

(***************************************************************************)
(* A connection that is listened for is set up at both ends, whatever the  *)
(* pieces their messages come in and with both waiting for each other,     *)
(* unless the verbs library refuses a call of either side: then nothing    *)
(* ends the calls of the other, which is not told.                         *)
(***************************************************************************)
SetupCompletes ==
  \A c \in Conns :
    chan[c] # NoChan ~>
      \/ \A s \in Sides : stage[s][c].state \in {"done", "closed"}
      \/ \E s \in Sides : Refused(s, c)
=============================================================================
