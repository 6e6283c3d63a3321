---------------------------- MODULE MCConnSetup ----------------------------
(* Small networks of connections for ConnSetup. *)
EXTENDS ConnSetup, TLC

\* Two processes, connected both ways, one of them over two channels.  NCCL
\* names the same NIC at both ends of the first connection only.
PairFrom == [c \in Conns |-> IF c = "ba" THEN "b" ELSE "a"]
PairTo   == [c \in Conns |-> IF c = "ba" THEN "a" ELSE "b"]
PairDev  == "send" :> [c \in Conns |-> IF c = "ab2" THEN 1 ELSE 0]
         @@ "recv" :> [c \in Conns |-> IF c = "ba" THEN 1 ELSE 0]

\* One process that connects to two others.
ForkFrom == "ab" :> "a" @@ "ac" :> "a"
ForkTo   == "ab" :> "b" @@ "ac" :> "c"
ForkDev  == [s \in {"send", "recv"} |-> "ab" :> 0 @@ "ac" :> 0]

\* FUSELINK_CHANNEL2NIC=1: channel 0 on NIC 1, the others where NCCL says.
Mapping  == 0 :> 1 @@ 1 :> -1
=============================================================================
