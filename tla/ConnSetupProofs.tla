-------------------------- MODULE ConnSetupProofs ---------------------------
(***************************************************************************)
(* Theorems about ConnSetup, for any processes, connections, NICs and      *)
(* pieces of messages, if no process connects to two others: channels are  *)
(* numbered by the listener, so a process that connects to two of them     *)
(* uses a row for two connections (the run setup_fork).                    *)
(***************************************************************************)
EXTENDS ConnSetup, FiniteSetTheorems, TLAPS

\* Connections of one process go to one process.
OneListenerEach == \A c, d \in Conns : From[c] = From[d] => To[c] = To[d]

\* The states in which a side has no links yet, and those in which it has all
\* of them.  A side that was refused while it made them has some.
Early(s) == IF s = "send" THEN {"none", "connect"} ELSE {"none", "start", "accept", "recv"}
Late     == {"send", "connecting", "connected", "failed", "pending", "done"}

Live(s, c, n) == link[s][c][n].state \in InUse

-----------------------------------------------------------------------------
(* The inductive invariant, part by part.                                  *)

\* The variables are the functions and records the actions update.
StageShape ==
  /\ stage = [s \in Sides |-> [c \in Conns |-> stage[s][c]]]
  /\ \A s \in Sides, c \in Conns :
       stage[s][c] = [state |-> stage[s][c].state, offset |-> stage[s][c].offset,
                      buffer |-> stage[s][c].buffer]

LinkShape ==
  /\ link = [s \in Sides |-> [c \in Conns |-> link[s][c]]]
  /\ \A s \in Sides, c \in Conns : link[s][c] = [n \in Nics |-> link[s][c][n]]
  /\ \A s \in Sides, c \in Conns, n \in Nics :
       link[s][c][n] = [state |-> link[s][c][n].state, peer |-> link[s][c][n].peer]

ShapeOK ==
  /\ counter \in [Procs -> Nat] /\ chan \in [Conns -> Int]
  /\ StageShape /\ LinkShape
  /\ table \in [Sides -> [Procs -> [Channels -> [Nics -> Conns \cup {NoConn}]]]]
  /\ pdRefs \in [Procs -> [Nics -> Int]]

\* A listener counts its connections, and numbers them by the count.
Listened(p) == {c \in Conns : To[c] = p /\ chan[c] # NoChan}

ChanInv ==
  /\ \A p \in Procs : counter[p] = Cardinality(Listened(p))
  /\ \A c \in Conns : chan[c] # NoChan => chan[c] \in Nat /\ chan[c] < counter[To[c]]
  /\ \A c, d \in Conns : chan[c] = chan[d] /\ chan[c] # NoChan /\ To[c] = To[d] => c = d

\* A side has its links, in the row of its channel, from the call that makes
\* them, all or those before the one that is refused, until it closes them.
StageOf(s, c) ==
  /\ stage[s][c].state \in Early(s) \cup Late \cup {"refused", "closed"}
  /\ stage[s][c].state # "none" => chan[c] # NoChan
  /\ \A n \in Nics : /\ Live(s, c, n) => Row(s, c, n) = c
                     /\ stage[s][c].state \in Late => Live(s, c, n)
                     /\ stage[s][c].state \in Early(s) \cup {"closed"} => ~ Live(s, c, n)

StageInv ==
  \A s \in Sides, c \in Conns : StageOf(s, c)

\* A connection gets its channel when it is listened for.
ListenInv == \A c \in Conns : stage["recv"][c].state = "none" => chan[c] = NoChan

\* The sides of p that hold a reference to its protection domain of NIC n.
Users(p, n) ==
  {sc \in Sides \X Conns : Proc(sc[1], sc[2]) = p /\ Live(sc[1], sc[2], n)}

PdInv == \A p \in Procs, n \in Nics : pdRefs[p][n] = 1 + Cardinality(Users(p, n))

IInv == ShapeOK /\ ChanInv /\ StageInv /\ ListenInv /\ PdInv

-----------------------------------------------------------------------------
(***************************************************************************)
(* Channels.                                                               *)
(***************************************************************************)

\* A number given out is one the tables have a row for.
LEMMA ChanInRange ==
  ASSUME ShapeOK, ChanInv, NEW c \in Conns, chan[c] # NoChan
  PROVE  chan[c] \in Channels
<1>1. To[c] \in Procs /\ MaxChannel \in Nat /\ IsFiniteSet(Conns)
  BY ConstantsOK
<1>2. /\ IsFiniteSet(Listened(To[c]))
      /\ Cardinality(Listened(To[c])) <= Cardinality(Conns)
  <2>1. Listened(To[c]) \in SUBSET Conns
    BY DEF Listened
  <2> QED
    BY <1>1, <2>1, FS_Subset
<1>3. Cardinality(Listened(To[c])) \in Nat /\ Cardinality(Conns) \in Nat
  BY <1>1, <1>2, FS_CardinalityType
<1>4. Cardinality(Conns) <= MaxChannel
  BY ConstantsOK
<1> QED
  BY <1>1, <1>2, <1>3, <1>4 DEF ChanInv, Channels

\* Two connections never work on the same row of a process.
LEMMA RowsDiffer ==
  ASSUME OneListenerEach, ChanInv, NEW s \in Sides, NEW c \in Conns, NEW d \in Conns,
         Proc(s, c) = Proc(s, d), chan[c] = chan[d], chan[c] # NoChan
  PROVE  c = d
BY DEF OneListenerEach, ChanInv, Proc, Sides

\* The process of a side.
LEMMA ProcType ==
  ASSUME NEW s \in Sides, NEW c \in Conns
  PROVE  Proc(s, c) \in Procs
BY ConstantsOK DEF Proc

-----------------------------------------------------------------------------
(***************************************************************************)
(* What an action does to the stages: side s of c goes to a state, and no  *)
(* other side moves.                                                       *)
(***************************************************************************)
\* The stage of side s, and of no other, is set.
Sets(s, c, x, o, b) ==
  /\ StageShape'
  /\ stage'[s][c].state = x /\ stage'[s][c].offset = o /\ stage'[s][c].buffer = b
  /\ \A t \in Sides, d \in Conns : ~ (t = s /\ d = c) => stage'[t][d] = stage[t][d]

LEMMA RecordSets ==
  ASSUME StageShape, NEW s \in Sides, NEW c \in Conns, NEW x, NEW o, NEW b,
         stage' = [stage EXCEPT ![s][c] = [state |-> x, offset |-> o, buffer |-> b]]
  PROVE  Sets(s, c, x, o, b)
<1> DEFINE st == [state |-> x, offset |-> o, buffer |-> b]
<1>1. /\ st.state = x /\ st.offset = o /\ st.buffer = b
      /\ st = [state |-> st.state, offset |-> st.offset, buffer |-> st.buffer]
  OBVIOUS
<1>2. stage' = [stage EXCEPT ![s][c] = st]
  OBVIOUS
<1> HIDE DEF st
<1>3. stage = [t \in Sides |-> [d \in Conns |-> stage[t][d]]]
  BY DEF StageShape
<1>4. \A t \in Sides, d \in Conns :
        stage'[t][d] = IF t = s /\ d = c THEN st ELSE stage[t][d]
  BY <1>2, <1>3
<1>5. stage' = [t \in Sides |-> [d \in Conns |-> stage'[t][d]]]
  BY <1>2, <1>3
<1>6. ASSUME NEW t \in Sides, NEW d \in Conns
      PROVE  stage'[t][d] = [state |-> stage'[t][d].state, offset |-> stage'[t][d].offset,
                             buffer |-> stage'[t][d].buffer]
  <2>1. CASE t = s /\ d = c
    BY <1>1, <1>4, <2>1
  <2>2. CASE ~ (t = s /\ d = c)
    BY <1>4, <2>2 DEF StageShape
  <2> QED
    BY <2>1, <2>2
<1>7. StageShape'
  BY <1>5, <1>6 DEF StageShape
<1> QED
  BY <1>1, <1>4, <1>7 DEF Sets

LEMMA GotoSets ==
  ASSUME StageShape, NEW s \in Sides, NEW c \in Conns, NEW x, NEW b, Goto(s, c, x, b)
  PROVE  Sets(s, c, x, 0, b)
BY RecordSets DEF Goto

\* A piece sent takes the side to the next stage, or leaves it where it is.
LEMMA SendSets ==
  ASSUME StageShape, NEW s \in Sides, NEW c \in Conns, NEW x, SendPiece(s, c, x)
  PROVE  LET st == stage[s][c] IN
         \/ st.offset + 1 = Pieces /\ Sets(s, c, x, 0, <<>>)
         \/ st.offset + 1 # Pieces /\ Sets(s, c, "send", st.offset + 1, st.buffer)
<1> DEFINE r == stage[s][c]
<1>1. r.state = "send"
  BY DEF SendPiece
<1>2. CASE r.offset + 1 = Pieces
  <2>1. Sent(s, c, x)
    BY <1>2 DEF SendPiece
  <2> QED
    BY <1>2, <2>1, GotoSets DEF Sent
<1>3. CASE r.offset + 1 # Pieces
  <2> DEFINE moved == [state |-> "send", offset |-> r.offset + 1, buffer |-> r.buffer]
  <2>0. stage' = [stage EXCEPT ![s][c].offset = @ + 1]
    BY <1>3 DEF SendPiece
  <2>1. r = [state |-> "send", offset |-> r.offset, buffer |-> r.buffer]
    BY <1>1 DEF StageShape
  <2>2. [r EXCEPT !.offset = @ + 1] = moved
    BY <2>1
  <2>3. stage' = [stage EXCEPT ![s][c] = [r EXCEPT !.offset = @ + 1]]
    BY <2>0
  <2>4. stage' = [stage EXCEPT ![s][c] = moved]
    BY <2>2, <2>3
  <2>5. Sets(s, c, "send", r.offset + 1, r.buffer)
    BY <2>4, RecordSets
  <2> QED
    BY <1>3, <2>5
<1> QED
  BY <1>2, <1>3

\* A piece read leaves the side where it is.
LEMMA ReadSets ==
  ASSUME StageShape, NEW s \in Sides, NEW c \in Conns, NEW x, ReadPiece(s, c, x)
  PROVE  Sets(s, c, x, stage[s][c].offset + 1,
              Append(stage[s][c].buffer, Head(sock[Other(s)][c])))
<1> DEFINE b == Append(stage[s][c].buffer, Head(sock[Other(s)][c]))
<1>1. stage[s][c].state = x
  BY DEF ReadPiece
<1>2. stage' = [stage EXCEPT ![s][c].offset = @ + 1, ![s][c].buffer = b]
  BY DEF ReadPiece
<1> HIDE DEF b
<1> DEFINE r == stage[s][c]
           moved == [state |-> x, offset |-> r.offset + 1, buffer |-> b]
<1>3. r = [state |-> x, offset |-> r.offset, buffer |-> r.buffer]
  BY <1>1 DEF StageShape
<1>4. [r EXCEPT !.offset = @ + 1, !.buffer = b] = moved
  <2> DEFINE o == r.offset + 1
             q == [r EXCEPT !.offset = o]
  <2>1. q = [state |-> x, offset |-> o, buffer |-> r.buffer]
    BY <1>3
  <2> HIDE DEF q, o
  <2>2. [q EXCEPT !.buffer = b] = [state |-> x, offset |-> o, buffer |-> b]
    BY <2>1
  <2> QED
    BY <2>2 DEF q, o
<1>5. stage' = [stage EXCEPT ![s][c] = [r EXCEPT !.offset = @ + 1, !.buffer = b]]
  BY <1>2 DEF StageShape
<1>6. stage' = [stage EXCEPT ![s][c] = moved]
  BY <1>4, <1>5
<1>7. Sets(s, c, x, r.offset + 1, b)
  BY <1>6, RecordSets
<1> QED
  BY <1>7 DEF b

\* What that is to those who ask for the states only.
Moves(s, c, x) ==
  /\ StageShape'
  /\ \A t \in Sides, d \in Conns :
       stage'[t][d].state = IF t = s /\ d = c THEN x ELSE stage[t][d].state

LEMMA SetsMoves ==
  ASSUME NEW s \in Sides, NEW c \in Conns, NEW x, NEW o, NEW b, Sets(s, c, x, o, b)
  PROVE  Moves(s, c, x)
BY DEF Sets, Moves

LEMMA GotoMoves ==
  ASSUME StageShape, NEW s \in Sides, NEW c \in Conns, NEW x, NEW b, Goto(s, c, x, b)
  PROVE  Moves(s, c, x)
BY GotoSets, SetsMoves

LEMMA SendMoves ==
  ASSUME StageShape, NEW s \in Sides, NEW c \in Conns, NEW x, SendPiece(s, c, x)
  PROVE  Moves(s, c, x) \/ Moves(s, c, "send")
BY SendSets, SetsMoves

LEMMA ReadMoves ==
  ASSUME StageShape, NEW s \in Sides, NEW c \in Conns, NEW x, ReadPiece(s, c, x)
  PROVE  stage[s][c].state = x /\ Moves(s, c, x)
BY ReadSets, SetsMoves DEF ReadPiece

-----------------------------------------------------------------------------
(***************************************************************************)
(* What an action does to the links and to the references.                 *)
(***************************************************************************)
SetsLinks(s, c, L) ==
  /\ L = [n \in Nics |-> L[n]]
  /\ \A n \in Nics : L[n] = [state |-> L[n].state, peer |-> L[n].peer]
  /\ link' = [link EXCEPT ![s][c] = L]

LEMMA LinksUpdated ==
  ASSUME LinkShape, NEW s \in Sides, NEW c \in Conns, NEW L, SetsLinks(s, c, L)
  PROVE  /\ LinkShape'
         /\ \A t \in Sides, d \in Conns :
              link'[t][d] = IF t = s /\ d = c THEN L ELSE link[t][d]
<1>1. \A t \in Sides, d \in Conns :
        link'[t][d] = IF t = s /\ d = c THEN L ELSE link[t][d]
  BY DEF LinkShape, SetsLinks
<1>2. link' = [t \in Sides |-> [d \in Conns |-> link'[t][d]]]
  <2>1. link = [t \in Sides |-> [d \in Conns |-> link[t][d]]]
    BY DEF LinkShape
  <2> QED
    BY <2>1 DEF SetsLinks
<1>3. \A t \in Sides, d \in Conns : link'[t][d] = [n \in Nics |-> link'[t][d][n]]
  <2> SUFFICES ASSUME NEW t \in Sides, NEW d \in Conns
               PROVE  link'[t][d] = [n \in Nics |-> link'[t][d][n]]
    OBVIOUS
  <2>1. CASE t = s /\ d = c
    BY <1>1, <2>1 DEF SetsLinks
  <2>2. CASE ~ (t = s /\ d = c)
    <3>1. link'[t][d] = link[t][d]
      BY <1>1, <2>2
    <3>2. link[t][d] = [n \in Nics |-> link[t][d][n]]
      BY DEF LinkShape
    <3> QED
      BY <3>1, <3>2
  <2> QED
    BY <2>1, <2>2
<1>4. ASSUME NEW t \in Sides, NEW d \in Conns, NEW n \in Nics
      PROVE  link'[t][d][n] = [state |-> link'[t][d][n].state, peer |-> link'[t][d][n].peer]
  <2>1. CASE t = s /\ d = c
    BY <1>1, <2>1 DEF SetsLinks
  <2>2. CASE ~ (t = s /\ d = c)
    <3>1. link'[t][d][n] = link[t][d][n]
      BY <1>1, <2>2
    <3>2. link[t][d][n] = [state |-> link[t][d][n].state, peer |-> link[t][d][n].peer]
      BY DEF LinkShape
    <3> QED
      BY <3>1, <3>2
  <2> QED
    BY <2>1, <2>2
<1> QED
  BY <1>1, <1>2, <1>3, <1>4 DEF LinkShape

\* A row that a connection owns is its links.
LEMMA OwnRow ==
  ASSUME LinkShape, NEW s \in Sides, NEW c \in Conns, \A n \in Nics : Row(s, c, n) = c,
         NEW L, PutRow(s, c, L)
  PROVE  link' = [link EXCEPT ![s][c] = [n \in Nics |-> L[n]]]
<1> DEFINE M == [n \in Nics |-> L[n]]
           G == [d \in Conns |-> [n \in Nics |->
                   IF Row(s, c, n) = d THEN L[n] ELSE link[s][d][n]]]
           H == [d \in Conns |-> IF d = c THEN M ELSE link[s][d]]
<1>1. link' = [link EXCEPT ![s] = G]
  BY DEF PutRow
<1>2. G = H
  <2>1. ASSUME NEW d \in Conns
        PROVE  [n \in Nics |-> IF Row(s, c, n) = d THEN L[n] ELSE link[s][d][n]]
                 = IF d = c THEN M ELSE link[s][d]
    <3>1. CASE d = c
      BY <3>1
    <3>2. CASE d # c
      <4>1. \A n \in Nics : Row(s, c, n) # d
        BY <3>2
      <4>2. [n \in Nics |-> IF Row(s, c, n) = d THEN L[n] ELSE link[s][d][n]]
              = [n \in Nics |-> link[s][d][n]]
        BY <4>1
      <4>3. link[s][d] = [n \in Nics |-> link[s][d][n]]
        BY DEF LinkShape
      <4> QED
        BY <3>2, <4>2, <4>3
    <3> QED
      BY <3>1, <3>2
  <2> QED
    BY <2>1
<1>3. H = [link[s] EXCEPT ![c] = M]
  <2>1. link = [t \in Sides |-> [d \in Conns |-> link[t][d]]]
    BY DEF LinkShape
  <2>2. link[s] = [d \in Conns |-> link[s][d]]
    BY <2>1
  <2> QED
    BY <2>2
<1> QED
  BY <1>1, <1>2, <1>3

\* The sides that hold references are finitely many.
LEMMA UsersFinite ==
  ASSUME NEW p, NEW n PROVE IsFiniteSet(Users(p, n)) /\ Cardinality(Users(p, n)) \in Nat
<1>1. IsFiniteSet(Sides) /\ IsFiniteSet(Conns)
  <2>1. IsFiniteSet({"send"})
    BY FS_Singleton
  <2>2. IsFiniteSet({"send"} \cup {"recv"})
    BY <2>1, FS_AddElement
  <2>3. Sides = {"send"} \cup {"recv"}
    BY DEF Sides
  <2> QED
    BY <2>2, <2>3, ConstantsOK
<1>2. IsFiniteSet(Sides \X Conns)
  BY <1>1, FS_Product
<1>3. Users(p, n) \in SUBSET (Sides \X Conns)
  BY DEF Users
<1>4. IsFiniteSet(Users(p, n))
  BY <1>2, <1>3, FS_Subset
<1> QED
  BY <1>4, FS_CardinalityType

-----------------------------------------------------------------------------
(***************************************************************************)
(* A call that goes on, before it makes the links or after.                *)
(***************************************************************************)
LinksKept ==
  LinkShape' /\ \A t \in Sides, d \in Conns, n \in Nics : Live(t, d, n)' <=> Live(t, d, n)

LEMMA GoesOn ==
  ASSUME IInv, NEW s \in Sides, NEW c \in Conns, NEW x, Moves(s, c, x), LinksKept,
         UNCHANGED <<counter, chan, table, pdRefs>>, chan[c] # NoChan, x # "none",
         \/ stage[s][c].state \in Early(s) /\ x \in Early(s)
         \/ stage[s][c].state \in Late /\ x \in Late
  PROVE  IInv'
<1>1. ShapeOK'
  BY DEF IInv, ShapeOK, Moves, LinksKept
<1>2. ChanInv'
  BY DEF IInv, ChanInv, Listened
<1>3. Late \cap Early(s) = {} /\ "closed" \notin Late \cup Early(s)
  BY DEF Late, Early
<1>4. StageInv'
  <2> SUFFICES ASSUME NEW t \in Sides, NEW d \in Conns
               PROVE  StageOf(t, d)'
    BY DEF StageInv
  <2>1. \A n : Row(t, d, n)' = Row(t, d, n)
    BY DEF Row
  <2>2. StageOf(t, d)
    BY DEF IInv, StageInv
  <2>3. CASE t = s /\ d = c
    BY <1>3, <2>1, <2>2, <2>3 DEF StageOf, Moves, LinksKept
  <2>4. CASE ~ (t = s /\ d = c)
    BY <2>1, <2>2, <2>4 DEF StageOf, Moves, LinksKept
  <2> QED
    BY <2>3, <2>4
<1>5. PdInv'
  <2>1. \A p : \A n \in Nics : Users(p, n)' = Users(p, n)
    BY DEF Users, LinksKept, Proc
  <2> QED
    BY <2>1 DEF IInv, PdInv
<1>6. ListenInv'
  BY DEF IInv, ListenInv, Moves, Sides
<1> QED
  BY <1>1, <1>2, <1>4, <1>5, <1>6 DEF IInv

(***************************************************************************)
(* ncclIbConnect and ncclIbAccept make the links of every NIC, or of some. *)
(***************************************************************************)
LinksMade(s, c, L) ==
  /\ L = [n \in Nics |-> L[n]]
  /\ \A n \in Nics : /\ L[n] = [state |-> L[n].state, peer |-> L[n].peer]
                     /\ L[n].state \in InUse \cup {"none"}
  /\ MakeLinks(s, c, L)

LEMMA MakesLinks ==
  ASSUME IInv, OneListenerEach, NEW s \in Sides, NEW c \in Conns,
         NEW x \in {"send", "refused"}, Moves(s, c, x),
         stage[s][c].state \in Early(s), chan[c] # NoChan,
         NEW L, LinksMade(s, c, L), x = "send" => \A n \in Nics : L[n].state \in InUse,
         UNCHANGED <<counter, chan>>
  PROVE  IInv'
<1>0. SetsLinks(s, c, L)
  BY DEF LinksMade, MakeLinks, SetsLinks
<1>1. LinkShape' /\ \A t \in Sides, d \in Conns :
        link'[t][d] = IF t = s /\ d = c THEN L ELSE link[t][d]
  BY <1>0, LinksUpdated DEF IInv, ShapeOK
<1>2. /\ \A n \in Nics : ~ Live(s, c, n)
      /\ \A n \in Nics : Live(s, c, n)' <=> L[n].state # "none"
      /\ \A t \in Sides, d \in Conns, n \in Nics :
           ~ (t = s /\ d = c) => (Live(t, d, n)' <=> Live(t, d, n))
  BY <1>1 DEF Live, InUse, LinksMade, IInv, StageInv, StageOf
<1>3. Proc(s, c) \in Procs /\ chan[c] \in Channels
  BY ProcType, ChanInRange DEF IInv
<1> DEFINE row == [n \in Nics |->
                     IF L[n].state = "none" THEN table[s][Proc(s, c)][chan[c]][n] ELSE c]
           refs == [n \in Nics |->
                     IF L[n].state = "none" THEN pdRefs[Proc(s, c)][n]
                     ELSE pdRefs[Proc(s, c)][n] + 1]
<1>a. table' = [table EXCEPT ![s][Proc(s, c)][chan[c]] = row]
      /\ pdRefs' = [pdRefs EXCEPT ![Proc(s, c)] = refs]
  BY DEF LinksMade, MakeLinks
<1>b. row \in [Nics -> Conns \cup {NoConn}]
  BY <1>3 DEF IInv, ShapeOK
<1>c. refs \in [Nics -> Int]
  BY <1>3 DEF IInv, ShapeOK
<1>d. /\ \A n \in Nics : row[n] = IF L[n].state = "none" THEN Row(s, c, n) ELSE c
      /\ \A n \in Nics : refs[n] = IF L[n].state = "none" THEN pdRefs[Proc(s, c)][n]
                                    ELSE pdRefs[Proc(s, c)][n] + 1
  BY DEF Row
<1> HIDE DEF row, refs
<1>4. ShapeOK'
  <2>1. table' \in [Sides -> [Procs -> [Channels -> [Nics -> Conns \cup {NoConn}]]]]
    BY <1>3, <1>a, <1>b DEF IInv, ShapeOK
  <2>2. pdRefs' \in [Procs -> [Nics -> Int]]
    BY <1>3, <1>a, <1>c DEF IInv, ShapeOK
  <2> QED
    BY <1>1, <2>1, <2>2 DEF IInv, ShapeOK, Moves
<1>5. ChanInv'
  BY DEF IInv, ChanInv, Listened
<1>6. "send" \in Late /\ "refused" \notin Late /\ Late \cap Early(s) = {}
      /\ x \notin Early(s) \cup {"closed", "none"}
  BY DEF Late, Early
<1>7. StageInv'
  <2> SUFFICES ASSUME NEW t \in Sides, NEW d \in Conns
               PROVE  StageOf(t, d)'
    BY DEF StageInv
  <2>1. CASE t = s /\ d = c
    <3>1. \A n \in Nics : Row(t, d, n)' = row[n]
      BY <1>3, <1>a, <2>1 DEF Row, Proc, IInv, ShapeOK
    <3>2. stage'[t][d].state = x /\ chan'[d] # NoChan
      BY <2>1 DEF Moves
    <3> QED
      BY <1>2, <1>6, <1>d, <2>1, <3>1, <3>2 DEF StageOf, InUse
  <2>2. CASE ~ (t = s /\ d = c)
    <3>1. stage'[t][d].state = stage[t][d].state /\ StageOf(t, d)
      BY <2>2 DEF Moves, IInv, StageInv
    <3>2. ASSUME NEW n \in Nics, Live(t, d, n) PROVE Row(t, d, n)' = d
      <4>1. Row(t, d, n) = d /\ chan[d] # NoChan
        BY <3>1, <3>2 DEF StageOf, Early
      <4>2. ~ (t = s /\ Proc(t, d) = Proc(s, c) /\ chan[d] = chan[c])
        BY <2>2, RowsDiffer DEF IInv
      <4>3. Proc(t, d) \in Procs /\ chan[d] \in Channels
        BY <4>1, ProcType, ChanInRange DEF IInv
      <4>4. table'[t][Proc(t, d)][chan[d]] = table[t][Proc(t, d)][chan[d]]
        BY <1>3, <1>a, <4>2, <4>3 DEF IInv, ShapeOK
      <4> QED
        BY <4>1, <4>4 DEF Row, Proc
    <3> QED
      BY <1>2, <2>2, <3>1, <3>2 DEF StageOf
  <2> QED
    BY <2>1, <2>2
<1>8. PdInv'
  <2> SUFFICES ASSUME NEW p \in Procs, NEW n \in Nics
               PROVE  pdRefs'[p][n] = 1 + Cardinality(Users(p, n)')
    BY DEF PdInv
  <2>1. CASE p = Proc(s, c) /\ L[n].state # "none"
    <3>1. Users(p, n)' = Users(p, n) \cup {<<s, c>>}
      BY <1>2, <2>1 DEF Users, Proc
    <3>2. <<s, c>> \notin Users(p, n)
      BY <1>2 DEF Users
    <3>3. Cardinality(Users(p, n)') = Cardinality(Users(p, n)) + 1
      BY <3>1, <3>2, UsersFinite, FS_AddElement
    <3>4. pdRefs'[p][n] = pdRefs[p][n] + 1
      BY <1>3, <1>a, <1>d, <2>1 DEF IInv, ShapeOK
    <3> QED
      BY <3>3, <3>4, UsersFinite DEF IInv, PdInv
  <2>2. CASE ~ (p = Proc(s, c) /\ L[n].state # "none")
    <3>1. Users(p, n)' = Users(p, n)
      BY <1>2, <2>2 DEF Users, Proc
    <3>2. pdRefs'[p][n] = pdRefs[p][n]
      BY <1>3, <1>a, <1>d, <2>2 DEF IInv, ShapeOK
    <3> QED
      BY <3>1, <3>2 DEF IInv, PdInv
  <2> QED
    BY <2>1, <2>2
<1>9. ListenInv'
  <2>1. stage[s][c].state \in Early(s) /\ x # "none"
    BY <1>6
  <2> QED
    BY <2>1 DEF IInv, ListenInv, Moves, Sides
<1> QED
  BY <1>4, <1>5, <1>7, <1>8, <1>9 DEF IInv

(***************************************************************************)
(* ncclIbClose* destroys the links in the row of the channel, its own.     *)
(***************************************************************************)
LEMMA Closes ==
  ASSUME IInv, NEW s \in Sides, NEW c \in Conns, stage[s][c].state = "done",
         Moves(s, c, "closed"), DestroyLinks(s, c), DropPds(Proc(s, c)),
         UNCHANGED <<counter, chan, table>>
  PROVE  IInv'
<1> DEFINE L == [n \in Nics |-> [link[s][c][n] EXCEPT !.state = "gone"]]
<1>1. "done" \in Late \ Early(s) /\ "closed" \notin Late \cup Early(s)
  BY DEF Late, Early
<1>2. \A n \in Nics : Live(s, c, n) /\ Row(s, c, n) = c
  BY <1>1 DEF IInv, StageInv, StageOf
<1>3. ASSUME NEW n \in Nics
      PROVE  L[n] = [state |-> "gone", peer |-> link[s][c][n].peer]
  <2>1. link[s][c][n] = [state |-> link[s][c][n].state, peer |-> link[s][c][n].peer]
    BY DEF IInv, ShapeOK, LinkShape
  <2>2. L[n] = [link[s][c][n] EXCEPT !.state = "gone"]
    OBVIOUS
  <2> QED
    BY <2>1, <2>2
<1>4. SetsLinks(s, c, L)
  <2> DEFINE R == [n \in Nics |-> [RowLink(s, c, n) EXCEPT !.state = "gone"]]
  <2>0. R = L
    BY <1>2 DEF RowLink
  <2>1. PutRow(s, c, R)
    BY DEF DestroyLinks
  <2> HIDE DEF R, L
  <2>4. link' = [link EXCEPT ![s][c] = [n \in Nics |-> L[n]]]
    BY <1>2, <2>0, <2>1, OwnRow DEF IInv, ShapeOK
  <2> USE DEF L
  <2>2. link' = [link EXCEPT ![s][c] = L]
    BY <2>4
  <2>3. \A n \in Nics : L[n] = [state |-> L[n].state, peer |-> L[n].peer]
    BY <1>3
  <2> QED
    BY <2>2, <2>3 DEF SetsLinks
<1>5. \A n \in Nics : L[n].state = "gone"
  BY <1>3
<1> HIDE DEF L
<1>6. LinkShape' /\ \A t \in Sides, d \in Conns :
        link'[t][d] = IF t = s /\ d = c THEN L ELSE link[t][d]
  BY <1>4, LinksUpdated DEF IInv, ShapeOK
<1>7. \A t \in Sides, d \in Conns, n \in Nics :
        Live(t, d, n)' <=> ~ (t = s /\ d = c) /\ Live(t, d, n)
  BY <1>5, <1>6 DEF Live, InUse
<1>8. Proc(s, c) \in Procs
  BY ProcType
<1>9. ShapeOK'
  <2>1. pdRefs' \in [Procs -> [Nics -> Int]]
    BY <1>8 DEF IInv, ShapeOK, DropPds
  <2> QED
    BY <1>6, <2>1 DEF IInv, ShapeOK, Moves
<1>10. ChanInv'
  BY DEF IInv, ChanInv, Listened
<1>11. StageInv'
  <2> SUFFICES ASSUME NEW t \in Sides, NEW d \in Conns
               PROVE  StageOf(t, d)'
    BY DEF StageInv
  <2>1. \A n : Row(t, d, n)' = Row(t, d, n)
    BY DEF Row
  <2>2. StageOf(t, d)
    BY DEF IInv, StageInv
  <2>3. CASE t = s /\ d = c
    BY <1>1, <1>7, <2>1, <2>2, <2>3 DEF StageOf, Moves
  <2>4. CASE ~ (t = s /\ d = c)
    BY <1>7, <2>1, <2>2, <2>4 DEF StageOf, Moves
  <2> QED
    BY <2>3, <2>4
<1>12. PdInv'
  <2> SUFFICES ASSUME NEW p \in Procs, NEW n \in Nics
               PROVE  pdRefs'[p][n] = 1 + Cardinality(Users(p, n)')
    BY DEF PdInv
  <2>1. CASE p = Proc(s, c)
    <3>1. Users(p, n)' = Users(p, n) \ {<<s, c>>}
      BY <1>7, <2>1 DEF Users, Proc
    <3>2. <<s, c>> \in Users(p, n)
      BY <1>2, <2>1 DEF Users
    <3>3. Cardinality(Users(p, n)') = Cardinality(Users(p, n)) - 1
      BY <3>1, <3>2, UsersFinite, FS_RemoveElement
    <3>4. pdRefs'[p][n] = pdRefs[p][n] - 1
      BY <1>8, <2>1 DEF DropPds, IInv, ShapeOK
    <3> QED
      BY <3>3, <3>4, UsersFinite DEF IInv, PdInv
  <2>2. CASE p # Proc(s, c)
    <3>1. Users(p, n)' = Users(p, n)
      BY <1>7, <2>2 DEF Users, Proc
    <3>2. pdRefs'[p][n] = pdRefs[p][n]
      BY <2>2 DEF DropPds, IInv, ShapeOK
    <3> QED
      BY <3>1, <3>2 DEF IInv, PdInv
  <2> QED
    BY <2>1, <2>2
<1>13. ListenInv'
  BY DEF IInv, ListenInv, Moves, Sides
<1> QED
  BY <1>9, <1>10, <1>11, <1>12, <1>13 DEF IInv

(***************************************************************************)
(* ncclIbListen gives out the next channel.                                *)
(***************************************************************************)
LEMMA ListenGives ==
  ASSUME IInv, NEW c \in Conns, Listen(c)
  PROVE  IInv'
<1> DEFINE p == To[c]
<1>1. p \in Procs /\ "recv" \in Sides /\ counter[p] \in Nat
  BY ConstantsOK DEF Sides, IInv, ShapeOK
<1>2. Moves("recv", c, "start")
  BY <1>1, GotoMoves DEF Listen, IInv, ShapeOK
<1>3. chan' = [chan EXCEPT ![c] = counter[p]]
  BY DEF Listen
<1>4. counter' = [counter EXCEPT ![p] = counter[p] + 1]
  BY DEF Listen, AllocateChannel
<1>5. UNCHANGED <<table, link, pdRefs>> /\ stage["recv"][c].state = "none"
  BY DEF Listen
<1>6. chan[c] = NoChan
  BY <1>5 DEF IInv, ListenInv
<1>7. /\ Listened(p)' = Listened(p) \cup {c} /\ c \notin Listened(p)
      /\ \A q \in Procs : q # p => Listened(q)' = Listened(q)
  BY <1>1, <1>3, <1>6 DEF Listened, IInv, ShapeOK, NoChan
<1>8. ShapeOK'
  <2>1. counter' \in [Procs -> Nat] /\ chan' \in [Conns -> Int]
    BY <1>1, <1>3, <1>4 DEF IInv, ShapeOK
  <2>2. LinkShape'
    BY <1>5 DEF IInv, ShapeOK, LinkShape
  <2> QED
    BY <1>2, <1>5, <2>1, <2>2 DEF IInv, ShapeOK, Moves
<1>9. ChanInv'
  <2>1. \A q \in Procs : counter'[q] = Cardinality(Listened(q)')
    <3>1. IsFiniteSet(Listened(p))
      <4>1. Listened(p) \in SUBSET Conns /\ IsFiniteSet(Conns)
        BY ConstantsOK DEF Listened
      <4> QED
        BY <4>1, FS_Subset
    <3>2. Cardinality(Listened(p)') = Cardinality(Listened(p)) + 1
      BY <1>7, <3>1, FS_AddElement
    <3> QED
      BY <1>1, <1>4, <1>7, <3>2 DEF IInv, ShapeOK, ChanInv
  <2>2. ASSUME NEW d \in Conns, chan'[d] # NoChan
        PROVE  chan'[d] \in Nat /\ chan'[d] < counter'[To[d]]
    <3>1. To[d] \in Procs /\ counter[To[d]] \in Nat
      BY ConstantsOK DEF IInv, ShapeOK
    <3>2. CASE d = c
      BY <1>1, <1>3, <1>4, <3>1, <3>2 DEF IInv, ShapeOK
    <3>3. CASE d # c
      <4>1. chan'[d] = chan[d] /\ chan[d] \in Nat /\ chan[d] < counter[To[d]]
        BY <1>3, <2>2, <3>3 DEF IInv, ShapeOK, ChanInv
      <4>2. counter'[To[d]] \in {counter[To[d]], counter[To[d]] + 1}
        BY <1>4, <3>1 DEF IInv, ShapeOK
      <4> QED
        BY <3>1, <4>1, <4>2
    <3> QED
      BY <3>2, <3>3
  <2>3. ASSUME NEW d \in Conns, NEW e \in Conns, chan'[d] = chan'[e],
               chan'[d] # NoChan, To[d] = To[e]
        PROVE  d = e
    <3>1. \A b \in Conns \ {c} : To[b] = p /\ chan[b] # NoChan => chan'[b] # chan'[c]
      BY <1>1, <1>3 DEF IInv, ShapeOK, ChanInv
    <3>2. \A b \in Conns \ {c} : chan'[b] = chan[b]
      BY <1>3 DEF IInv, ShapeOK
    <3> QED
      BY <2>3, <3>1, <3>2 DEF IInv, ChanInv
  <2> QED
    BY <2>1, <2>2, <2>3 DEF ChanInv
<1>10. StageInv'
  <2> SUFFICES ASSUME NEW t \in Sides, NEW d \in Conns
               PROVE  StageOf(t, d)'
    BY DEF StageInv
  <2>1. \A n \in Nics : Live(t, d, n)' <=> Live(t, d, n)
    BY <1>5 DEF Live
  <2>2. "start" \in Early("recv") /\ "none" \in Early("send") \cap Early("recv")
        /\ "start" \notin Late /\ "none" \notin Late
    BY DEF Early, Late
  <2>5. StageOf(t, d)
    BY DEF IInv, StageInv
  <2>3. CASE d = c
    <3>1. chan'[d] # NoChan
      BY <1>1, <1>3, <2>3 DEF IInv, ShapeOK, NoChan
    <3>2. stage[t][d].state = "none"
      BY <1>6, <2>3, <2>5 DEF StageOf
    <3>3. stage'[t][d].state \in Early(t) \ Late
      BY <1>2, <2>2, <3>2, <2>3 DEF Moves, Sides
    <3>4. \A n \in Nics : ~ Live(t, d, n)
      BY <2>2, <2>5, <3>2 DEF StageOf, Sides
    <3> QED
      BY <2>1, <3>1, <3>3, <3>4 DEF StageOf
  <2>4. CASE d # c
    <3>1. chan'[d] = chan[d] /\ stage'[t][d].state = stage[t][d].state
      BY <1>2, <1>3, <2>4 DEF IInv, ShapeOK, Moves
    <3>2. \A n : Row(t, d, n)' = Row(t, d, n)
      BY <1>5, <3>1 DEF Row
    <3> QED
      BY <2>1, <2>5, <3>1, <3>2 DEF StageOf
  <2> QED
    BY <2>3, <2>4
<1>11. ListenInv'
  BY <1>2, <1>3 DEF IInv, ListenInv, ShapeOK, Moves, Sides
<1>12. PdInv'
  <2>1. \A q : \A n \in Nics : Users(q, n)' = Users(q, n)
    BY <1>5 DEF Users, Live, Proc
  <2> QED
    BY <1>5, <2>1 DEF IInv, PdInv
<1> QED
  BY <1>8, <1>9, <1>10, <1>11, <1>12 DEF IInv

-----------------------------------------------------------------------------
\* Links that are brought up, or not, stay live.
LEMMA StayLive ==
  ASSUME LinkShape, NEW s \in Sides, NEW c \in Conns, NEW L, SetsLinks(s, c, L),
         \A n \in Nics : Live(s, c, n) <=> L[n].state \in InUse
  PROVE  LinksKept
BY LinksUpdated DEF LinksKept, Live

\* What is left of links of which one was refused.
LEMMA RefusedShape ==
  ASSUME NEW k \in Nics, NEW state, NEW L,
         \A n \in Nics : L[n] = [state |-> L[n].state, peer |-> L[n].peer]
  PROVE  LET M == RefusedAt(k, state, L) IN
         /\ M = [n \in Nics |-> M[n]]
         /\ \A n \in Nics : /\ M[n] = [state |-> M[n].state, peer |-> M[n].peer]
                            /\ M[n].state \in {L[n].state, state, "none"}
<1> DEFINE M == RefusedAt(k, state, L)
<1>1. M = [n \in Nics |-> M[n]]
  BY DEF RefusedAt
<1>2. ASSUME NEW n \in Nics
      PROVE  M[n] \in {L[n], NewLink(state), NewLink("none")}
  BY DEF RefusedAt
<1>3. \A x : NewLink(x).state = x
             /\ NewLink(x) = [state |-> NewLink(x).state, peer |-> NewLink(x).peer]
  BY DEF NewLink
<1> HIDE DEF M
<1>4. ASSUME NEW n \in Nics
      PROVE  /\ M[n] = [state |-> M[n].state, peer |-> M[n].peer]
             /\ M[n].state \in {L[n].state, state, "none"}
  BY <1>2, <1>3
<1> QED
  BY <1>1, <1>4 DEF M

LEMMA LinksUntouched ==
  ASSUME LinkShape, UNCHANGED link PROVE LinksKept
BY DEF LinksKept, LinkShape, Live

\* The steps of ncclIbConnect.
LEMMA ConnectKeeps ==
  ASSUME IInv, OneListenerEach, NEW c \in Conns, ConnectStep(c)
  PROVE  IInv'
<1> DEFINE st == stage["send"][c].state
<1>1. "send" \in Sides /\ StageShape /\ LinkShape
  BY DEF IInv, ShapeOK, Sides
<1>2. /\ st # "none" => chan[c] # NoChan
      /\ st \in Late => \A n \in Nics : Live("send", c, n) /\ Row("send", c, n) = c
  BY <1>1 DEF IInv, StageInv, StageOf, Early, Late
<1>3. /\ {"send", "connecting", "connected", "failed", "done"} \subseteq Late
      /\ Early("send") = {"none", "connect"} /\ "none" \notin Late
  BY DEF Early, Late
<1>4. CASE ConnectStart(c)
  <2>1. Moves("send", c, "connect") /\ LinksKept
    BY <1>1, <1>4, GotoMoves, LinksUntouched DEF ConnectStart
  <2> QED
    BY <1>1, <1>3, <1>4, <2>1, GoesOn DEF ConnectStart
<1>5. CASE ConnectLinks(c)
  <2> DEFINE L == FreshLinks
  <2>1. Moves("send", c, "send")
    BY <1>1, <1>5, GotoMoves DEF ConnectLinks
  <2>2. LinksMade("send", c, L) /\ \A n \in Nics : L[n].state \in InUse
    BY <1>5 DEF ConnectLinks, LinksMade, FreshLinks, NewLink, InUse
  <2> HIDE DEF L
  <2> QED
    BY <1>1, <1>2, <1>3, <1>5, <2>1, <2>2, MakesLinks DEF ConnectLinks
<1>11. CASE ConnectRefused(c)
  <2>1. Moves("send", c, "refused")
    BY <1>1, <1>11, GotoMoves DEF ConnectRefused
  <2>2. PICK k \in Nics, state \in {"made", "init"} :
          MakeLinks("send", c, RefusedAt(k, state, FreshLinks))
    BY <1>11 DEF ConnectRefused
  <2> DEFINE L == RefusedAt(k, state, FreshLinks)
  <2>3. LinksMade("send", c, L)
    <3>1. \A n \in Nics : FreshLinks[n] = [state |-> "init", peer |-> NoLink]
      BY DEF FreshLinks, NewLink
    <3> QED
      BY <2>2, <3>1, RefusedShape DEF LinksMade, InUse
  <2> HIDE DEF L
  <2> QED
    BY <1>1, <1>2, <1>3, <1>11, <2>1, <2>3, MakesLinks DEF ConnectRefused
<1>6. CASE ConnectSend(c)
  <2>1. st = "send" /\ LinksKept
        /\ (Moves("send", c, "connecting") \/ Moves("send", c, "send"))
    BY <1>1, <1>6, SendMoves, LinksUntouched DEF ConnectSend, SendPiece
  <2> QED
    BY <1>1, <1>2, <1>3, <1>6, <2>1, GoesOn DEF ConnectSend, SendPiece
<1>7. CASE ConnectRead(c)
  <2>1. st = "connecting" /\ Moves("send", c, "connecting") /\ LinksKept
    BY <1>1, <1>7, ReadMoves, LinksUntouched DEF ConnectRead, ReadPiece
  <2> QED
    BY <1>1, <1>2, <1>3, <1>7, <2>1, GoesOn DEF ConnectRead, ReadPiece
<1>8. CASE ConnectUp(c)
  <2> DEFINE L == Up(Incoming("send", c))
  <2>1. st = "connecting" /\ Moves("send", c, "connected")
    BY <1>1, <1>8, GotoMoves DEF ConnectUp, LastPiece
  <2>5. L = [n \in Nics |-> L[n]] /\ \A n \in Nics :
          L[n].state = "rts" /\ L[n] = [state |-> L[n].state, peer |-> L[n].peer]
    BY DEF Up
  <2>3. \A n \in Nics : Live("send", c, n) /\ Row("send", c, n) = c
    BY <1>2, <1>3, <2>1
  <2>6. PutRow("send", c, L)
    BY <1>8 DEF ConnectUp
  <2> HIDE DEF L
  <2>7. link' = [link EXCEPT !["send"][c] = [n \in Nics |-> L[n]]]
    BY <1>1, <2>3, <2>6, OwnRow
  <2>2. SetsLinks("send", c, L)
    BY <2>5, <2>7 DEF SetsLinks
  <2>4. LinksKept
    BY <1>1, <2>2, <2>3, <2>5, StayLive DEF InUse
  <2> QED
    BY <1>1, <1>2, <1>3, <1>8, <2>1, <2>4, GoesOn DEF ConnectUp
<1>9. CASE ConnectFails(c)
  <2> DEFINE old == link["send"][c]
             up == Up(Incoming("send", c))
  <2>1. st = "connecting" /\ Moves("send", c, "failed")
    BY <1>1, <1>9, GotoMoves DEF ConnectFails, LastPiece
  <2>2. PICK k \in Nics : PutRow("send", c, [n \in Nics |->
          IF n < k THEN Up(Incoming("send", c))[n] ELSE RowLink("send", c, n)])
    BY <1>9, Zenon DEF ConnectFails
  <2> DEFINE L == [n \in Nics |-> IF n < k THEN up[n] ELSE old[n]]
             R == [n \in Nics |-> IF n < k THEN up[n] ELSE RowLink("send", c, n)]
  <2>3. link' = [link EXCEPT !["send"][c] = L]
    <3>1. \A n \in Nics : Row("send", c, n) = c
      BY <1>2, <1>3, <2>1
    <3>2. R = L
      BY <3>1 DEF RowLink
    <3>3. PutRow("send", c, R)
      BY <2>2
    <3> HIDE DEF R, L
    <3>4. link' = [link EXCEPT !["send"][c] = [n \in Nics |-> L[n]]]
      BY <1>1, <3>1, <3>2, <3>3, OwnRow
    <3> USE DEF L
    <3> QED
      BY <3>4
  <2>4. \A n \in Nics : up[n] = [state |-> up[n].state, peer |-> up[n].peer]
                        /\ up[n].state = "rts"
    BY DEF Up
  <2>5. \A n \in Nics : old[n] = [state |-> old[n].state, peer |-> old[n].peer]
    BY <1>1 DEF LinkShape
  <2>6. \A n \in Nics : Live("send", c, n)
    BY <1>2, <1>3, <2>1
  <2> HIDE DEF up
  <2>7. \A n \in Nics : L[n] \in {up[n], old[n]}
    OBVIOUS
  <2>8. L = [n \in Nics |-> L[n]]
    OBVIOUS
  <2>9. \A n \in Nics : old[n].state \in InUse
    BY <2>6 DEF Live
  <2> HIDE DEF L, old
  <2>10. SetsLinks("send", c, L) /\ \A n \in Nics : L[n].state \in InUse
    BY <2>3, <2>4, <2>5, <2>7, <2>8, <2>9 DEF SetsLinks, InUse
  <2>11. LinksKept
    BY <1>1, <2>6, <2>10, StayLive
  <2> QED
    BY <1>1, <1>2, <1>3, <1>9, <2>1, <2>11, GoesOn DEF ConnectFails
<1>10. CASE ConnectReady(c)
  <2>1. st = "connected" /\ Moves("send", c, "done") /\ LinksKept
    BY <1>1, <1>10, GotoMoves, LinksUntouched DEF ConnectReady
  <2> QED
    BY <1>1, <1>2, <1>3, <1>10, <2>1, GoesOn DEF ConnectReady
<1> QED
  BY <1>4, <1>5, <1>6, <1>7, <1>8, <1>9, <1>10, <1>11 DEF ConnectStep

\* The steps of ncclIbAccept.
LEMMA AcceptKeeps ==
  ASSUME IInv, OneListenerEach, NEW c \in Conns, AcceptStep(c)
  PROVE  IInv'
<1> DEFINE st == stage["recv"][c].state
<1>1. "recv" \in Sides /\ StageShape /\ LinkShape
  BY DEF IInv, ShapeOK, Sides
<1>2. st # "none" => chan[c] # NoChan
  BY <1>1 DEF IInv, StageInv, StageOf
<1>3. /\ {"send", "pending", "done"} \subseteq Late
      /\ Early("recv") = {"none", "start", "accept", "recv"}
  BY DEF Early, Late
<1>4. CASE AcceptStart(c)
  <2>1. st = "start" /\ Moves("recv", c, "accept") /\ LinksKept
    BY <1>1, <1>4, GotoMoves, LinksUntouched DEF AcceptStart
  <2> QED
    BY <1>1, <1>2, <1>3, <1>4, <2>1, GoesOn DEF AcceptStart
<1>5. CASE AcceptCheck(c)
  <2>1. st = "accept" /\ Moves("recv", c, "recv") /\ LinksKept
    BY <1>1, <1>5, GotoMoves, LinksUntouched DEF AcceptCheck
  <2> QED
    BY <1>1, <1>2, <1>3, <1>5, <2>1, GoesOn DEF AcceptCheck
<1>6. CASE AcceptRead(c)
  <2>1. st = "recv" /\ Moves("recv", c, "recv") /\ LinksKept
    BY <1>1, <1>6, ReadMoves, LinksUntouched DEF AcceptRead, ReadPiece
  <2> QED
    BY <1>1, <1>2, <1>3, <1>6, <2>1, GoesOn DEF AcceptRead, ReadPiece
<1>7. CASE AcceptLinks(c)
  <2> DEFINE L == Up(Incoming("recv", c))
  <2>1. st = "recv" /\ Moves("recv", c, "send")
    BY <1>1, <1>7, GotoMoves DEF AcceptLinks, LastPiece
  <2>2. LinksMade("recv", c, L) /\ \A n \in Nics : L[n].state \in InUse
    BY <1>7 DEF AcceptLinks, LinksMade, Up, InUse
  <2> HIDE DEF L
  <2> QED
    BY <1>1, <1>2, <1>3, <1>7, <2>1, <2>2, MakesLinks DEF AcceptLinks
<1>10. CASE AcceptRefused(c)
  <2> DEFINE up == Up(Incoming("recv", c))
  <2>1. st = "recv" /\ Moves("recv", c, "refused")
    BY <1>1, <1>10, GotoMoves DEF AcceptRefused, LastPiece
  <2>2. up = [n \in Nics |-> up[n]] /\ \A n \in Nics :
          up[n].state = "rts" /\ up[n] = [state |-> up[n].state, peer |-> up[n].peer]
    BY DEF Up
  <2> HIDE DEF up
  <2>3. PICK L : LinksMade("recv", c, L)
    <3>1. CASE MakeLinks("recv", c, up)
      BY <2>2, <3>1 DEF LinksMade, InUse
    <3>2. CASE \E k \in Nics, state \in {"none", "made", "init"} :
                 MakeLinks("recv", c, RefusedAt(k, state, up))
      <4>1. PICK k \in Nics, state \in {"none", "made", "init"} :
              MakeLinks("recv", c, RefusedAt(k, state, up))
        BY <3>2
      <4> QED
        BY <2>2, <4>1, RefusedShape DEF LinksMade, InUse
    <3> QED
      BY <1>10, <3>1, <3>2 DEF AcceptRefused, up
  <2> QED
    BY <1>1, <1>2, <1>3, <1>10, <2>1, <2>3, MakesLinks DEF AcceptRefused
<1>8. CASE AcceptSend(c)
  <2>1. st = "send" /\ LinksKept
        /\ (Moves("recv", c, "pending") \/ Moves("recv", c, "send"))
    BY <1>1, <1>8, SendMoves, LinksUntouched DEF AcceptSend, SendPiece
  <2> QED
    BY <1>1, <1>2, <1>3, <1>8, <2>1, GoesOn DEF AcceptSend, SendPiece
<1>9. CASE AcceptReady(c)
  <2>1. st = "pending" /\ Moves("recv", c, "done") /\ LinksKept
    BY <1>1, <1>9, GotoMoves, LinksUntouched DEF AcceptReady
  <2>2. "pending" \in Late
    BY DEF Late
  <2> QED
    BY <1>1, <1>2, <1>3, <1>9, <2>1, <2>2, GoesOn DEF AcceptReady
<1> QED
  BY <1>4, <1>5, <1>6, <1>7, <1>8, <1>9, <1>10 DEF AcceptStep

-----------------------------------------------------------------------------
(***************************************************************************)
(* The invariant, and what follows from it.                                *)
(***************************************************************************)
LEMMA InitIInv == ASSUME Init PROVE IInv
<1>1. \A s \in Sides, c \in Conns : stage[s][c] = [state |-> "none", offset |-> 0,
                                                   buffer |-> <<>>]
  BY DEF Init, Begin
<1>2. \A p : Listened(p) = {} /\ \A n \in Nics : Users(p, n) = {}
  BY DEF Init, Listened, Users, Live, InUse, NewLink
<1>3. Cardinality({}) = 0
  BY FS_EmptySet
<1>4. StageShape
  BY <1>1 DEF Init, StageShape
<1>5. LinkShape
  BY DEF Init, LinkShape, NewLink
<1>6. ShapeOK
  BY <1>4, <1>5 DEF Init, ShapeOK, NoChan
<1>7. ChanInv
  BY <1>2, <1>3 DEF Init, ChanInv
<1>8. StageInv
  BY <1>1 DEF Init, StageInv, StageOf, Early, Late, Live, InUse, NewLink
<1>9. ListenInv
  BY DEF Init, ListenInv
<1>10. PdInv
  <2>1. \A p : \A n \in Nics : Cardinality(Users(p, n)) = 0
    BY <1>2, <1>3
  <2>2. \A p \in Procs, n \in Nics : pdRefs[p][n] = 1
    BY DEF Init
  <2> QED
    BY <2>1, <2>2 DEF PdInv
<1> QED
  BY <1>6, <1>7, <1>8, <1>9, <1>10 DEF IInv

LEMMA NextIInv ==
  ASSUME IInv, OneListenerEach, [Next]_vars
  PROVE  IInv'
<1>1. CASE UNCHANGED vars
  <2>1. ShapeOK'
    BY <1>1 DEF vars, IInv, ShapeOK, StageShape, LinkShape
  <2>2. ChanInv' /\ ListenInv'
    BY <1>1 DEF vars, IInv, ChanInv, Listened, ListenInv
  <2>3. StageInv'
    BY <1>1 DEF vars, IInv, StageInv, StageOf, Row, Live
  <2>4. PdInv'
    BY <1>1 DEF vars, IInv, PdInv, Users, Live, Proc
  <2> QED
    BY <2>1, <2>2, <2>3, <2>4 DEF IInv
<1>2. ASSUME NEW c \in Conns, CloseSend(c) PROVE IInv'
  <2>1. "send" \in Sides /\ Proc("send", c) = From[c] /\ stage["send"][c].state = "done"
    BY <1>2 DEF Sides, Proc, CloseSend
  <2>2. Moves("send", c, "closed")
    BY <1>2, <2>1, GotoMoves DEF CloseSend, IInv, ShapeOK
  <2> QED
    BY <1>2, <2>1, <2>2, Closes DEF CloseSend
<1>3. ASSUME NEW c \in Conns, CloseRecv(c) PROVE IInv'
  <2>1. "recv" \in Sides /\ Proc("recv", c) = To[c] /\ stage["recv"][c].state = "done"
    BY <1>3 DEF Sides, Proc, CloseRecv
  <2>2. Moves("recv", c, "closed")
    BY <1>3, <2>1, GotoMoves DEF CloseRecv, IInv, ShapeOK
  <2> QED
    BY <1>3, <2>1, <2>2, Closes DEF CloseRecv
<1> QED
  BY <1>1, <1>2, <1>3, ListenGives, ConnectKeeps, AcceptKeeps DEF Next

(***************************************************************************)
(* The row of a channel holds the links of the connection that uses the    *)
(* channel, from the moment it makes them until it closes them, whatever   *)
(* else is set up or closed meanwhile.                                     *)
(***************************************************************************)
THEOREM RowsAlwaysOwned ==
  ASSUME OneListenerEach
  PROVE  Spec => []RowsOwned
<1>1. Init => IInv
  BY InitIInv
<1>2. IInv /\ [Next]_vars => IInv'
  BY NextIInv
<1>3. IInv => RowsOwned
  BY DEF IInv, StageInv, StageOf, RowsOwned, Live
<1> QED
  BY <1>1, <1>2, <1>3, PTL DEF Spec

(***************************************************************************)
(* A protection domain counts ncclIbInit and the queue pairs that use it,  *)
(* through set-ups that fail half way and closes in any order: it is freed *)
(* under none of them.                                                     *)
(***************************************************************************)
THEOREM PdsAlwaysCounted ==
  ASSUME OneListenerEach
  PROVE  Spec => []PdsCounted
<1>1. Init => IInv
  BY InitIInv
<1>2. IInv /\ [Next]_vars => IInv'
  BY NextIInv
<1>3. IInv => PdsCounted
  BY DEF IInv, PdInv, Users, Live, PdsCounted
<1> QED
  BY <1>1, <1>2, <1>3, PTL DEF Spec
-----------------------------------------------------------------------------
(***************************************************************************)
(* The conversation of the two sides of a connection.  A side writes a     *)
(* fixed series of messages: the connecting side the magic number, the     *)
(* pieces of its information and the ready message, the other side the     *)
(* pieces of its information.  The socket holds those that are written and *)
(* not yet read, so the stage of one side bounds the stage of the other.   *)
(***************************************************************************)
ChanDev(c) == ControlDev("send", c)
RecvDev(c) == ControlDev("recv", c)

\* What a side tells its peer, when the control NIC is dev.
InfoOf(s, c, dev) ==
  [n \in Nics |-> [qp |-> <<s, c, n>>,
                   fifo |-> IF s = "send" /\ n = dev THEN <<"fifo", c, n>> ELSE NoLink]]

\* The k-th piece a side writes; its information follows the first Prefix(s).
Prefix(s) == IF s = "send" THEN 1 ELSE 0

Msg(s, c, dev, k) ==
  IF k <= Prefix(s) THEN Magic
  ELSE IF k <= Prefix(s) + Pieces THEN [info |-> InfoOf(s, c, dev), part |-> k - Prefix(s)]
  ELSE Ready

\* The pieces after the a-th, up to the b-th.
Run(s, c, dev, a, b) == [i \in 1..(b - a) |-> Msg(s, c, dev, a + i)]

\* The stages of a side: all of them, those in which it has read none of its
\* peer's information, the one in which it reads it, and those after it joined
\* its links to the peer's.
Stages(s)  == IF s = "send"
              THEN {"none", "connect", "refused", "send", "connecting", "connected", "failed",
                    "done", "closed"}
              ELSE {"none", "start", "accept", "recv", "refused", "send", "pending", "done",
                    "closed"}
Before(s)  == IF s = "send" THEN {"none", "connect", "refused", "send"}
              ELSE {"none", "start", "accept"}
Reading(s) == IF s = "send" THEN "connecting" ELSE "recv"
Joined(s)  == IF s = "send" THEN {"connected", "done", "closed"}
              ELSE {"send", "pending", "done", "closed"}
Over       == {"done", "closed"}

\* How many pieces a side has written, and how many of its peer's it has read.
Written(s, c) ==
  LET st == stage[s][c]
  IN IF st.state \in Early(s) THEN 0
     ELSE IF st.state = "refused" THEN Prefix(s)
     ELSE IF st.state = "send" THEN Prefix(s) + st.offset
     ELSE IF s = "send" /\ st.state \in Over THEN 2 + Pieces
     ELSE Prefix(s) + Pieces

Taken(s, c) ==
  LET st == stage[s][c]
  IN IF st.state \in Before(s) THEN 0
     ELSE IF st.state = Reading(s) THEN Prefix(Other(s)) + st.offset
     ELSE IF s = "recv" /\ st.state \in Over THEN 2 + Pieces
     ELSE Prefix(Other(s)) + Pieces

-----------------------------------------------------------------------------
(* The second part of the inductive invariant.                             *)

NetShape ==
  /\ sock = [s \in Sides |-> [c \in Conns |-> sock[s][c]]]
  /\ control = [s \in Sides |-> [c \in Conns |-> control[s][c]]]
  /\ remFifo = [c \in Conns |-> remFifo[c]]
  /\ fifoMr \in [Conns -> Nics \cup {-1}]

PlaceInv(s, c) ==
  /\ stage[s][c].state \in Stages(s)
  /\ stage[s][c].offset \in 0..Pieces-1

QueueInv(s, c) ==
  /\ Taken(Other(s), c) <= Written(s, c)
  /\ sock[s][c] = Run(s, c, ChanDev(c), Taken(Other(s), c), Written(s, c))

\* The staging buffer: what is being written, or what was read so far.
BufferInv(s, c) ==
  /\ stage[s][c].state = "send" => stage[s][c].buffer = InfoOf(s, c, ChanDev(c))
  /\ stage[s][c].state = Reading(s) =>
       stage[s][c].buffer = Run(Other(s), c, ChanDev(c), Prefix(Other(s)), Taken(s, c))

PeerInv(s, c) ==
  \A n \in Nics :
    /\ link[s][c][n].state \in LinkStates
    /\ stage[s][c].state \in Joined(s) =>
         /\ link[s][c][n].peer = <<Other(s), c, n>>
         /\ stage[s][c].state # "closed" => link[s][c][n].state = "rts"

FifoInv(c) ==
  /\ stage["send"][c].state \in Late => fifoMr[c] = ChanDev(c)
  /\ stage["send"][c].state \in Over => control["send"][c] = <<"send", c, ChanDev(c)>>
  /\ stage["recv"][c].state \in Joined("recv") =>
       /\ remFifo[c] = IF RecvDev(c) = ChanDev(c) THEN <<"fifo", c, ChanDev(c)>> ELSE NoLink
       /\ control["recv"][c] = <<"recv", c, RecvDev(c)>>

ConnInv(c) ==
  /\ \A s \in Sides : PlaceInv(s, c) /\ QueueInv(s, c) /\ BufferInv(s, c) /\ PeerInv(s, c)
  /\ FifoInv(c)

NetInv == NetShape /\ \A c \in Conns : ConnInv(c)

-----------------------------------------------------------------------------
(***************************************************************************)
(* Runs of pieces.                                                         *)
(***************************************************************************)
Pool(s, c, dev) == {Msg(s, c, dev, k) : k \in Nat}

LEMMA RunType ==
  ASSUME NEW s, NEW c, NEW dev, NEW a \in Nat, NEW b \in Nat, a <= b
  PROVE  /\ Run(s, c, dev, a, b) \in Seq(Pool(s, c, dev))
         /\ Len(Run(s, c, dev, a, b)) = b - a
         /\ \A i \in 1..(b - a) : Run(s, c, dev, a, b)[i] = Msg(s, c, dev, a + i)
<1> DEFINE S == Pool(s, c, dev)
           r == Run(s, c, dev, a, b)
<1>1. b - a \in Nat
  OBVIOUS
<1>2. \A i \in 1..(b - a) : Msg(s, c, dev, a + i) \in S
  <2>1. \A i \in 1..(b - a) : a + i \in Nat
    OBVIOUS
  <2> QED
    BY <2>1 DEF Pool
<1>3. r = [i \in 1..(b - a) |-> Msg(s, c, dev, a + i)]
  BY DEF Run
<1> HIDE DEF S, r
<1>4. r \in [1..(b - a) -> S]
  BY <1>2, <1>3
<1>5. r \in Seq(S) /\ Len(r) = b - a
  BY <1>1, <1>4
<1>6. \A i \in 1..(b - a) : r[i] = Msg(s, c, dev, a + i)
  BY <1>3
<1> QED
  BY <1>5, <1>6 DEF S, r

LEMMA RunLen ==
  ASSUME NEW s, NEW c, NEW dev, NEW a \in Nat, NEW b \in Nat, a <= b
  PROVE  Len(Run(s, c, dev, a, b)) = b - a
BY RunType

\* A run is what a sequence of its length and pieces is.
LEMMA RunIs ==
  ASSUME NEW s, NEW c, NEW dev, NEW a \in Nat, NEW b \in Nat, a <= b,
         NEW S, NEW q \in Seq(S), Len(q) = b - a,
         \A i \in 1..(b - a) : q[i] = Msg(s, c, dev, a + i)
  PROVE  q = Run(s, c, dev, a, b)
<1>1. q = [i \in 1..(b - a) |-> q[i]]
  OBVIOUS
<1> QED
  BY <1>1 DEF Run

LEMMA RunAppend ==
  ASSUME NEW s, NEW c, NEW dev, NEW a \in Nat, NEW b \in Nat, a <= b
  PROVE  Append(Run(s, c, dev, a, b), Msg(s, c, dev, b + 1)) = Run(s, c, dev, a, b + 1)
<1> DEFINE S == Pool(s, c, dev)
           r == Run(s, c, dev, a, b)
           m == Msg(s, c, dev, b + 1)
           q == Append(r, m)
<1>2. m \in S
  BY DEF Pool
<1> HIDE DEF m, q
<1>1. r \in Seq(S) /\ Len(r) = b - a /\ \A i \in 1..(b - a) : r[i] = Msg(s, c, dev, a + i)
  <2>1. r \in Seq(S) /\ Len(r) = b - a
    BY RunType
  <2>2. ASSUME NEW i \in 1..(b - a) PROVE r[i] = Msg(s, c, dev, a + i)
    BY DEF Run
  <2> QED
    BY <2>1, <2>2
<1> HIDE DEF S, r
<1> USE DEF q
<1>3. q \in Seq(S) /\ Len(q) = (b + 1) - a
  BY <1>1, <1>2
<1>4. \A i \in 1..(b - a) : q[i] = r[i]
  BY <1>1, <1>2
<1>5. q[b + 1 - a] = m
  BY <1>1, <1>2
<1>6. ASSUME NEW i \in 1..(b + 1 - a) PROVE q[i] = Msg(s, c, dev, a + i)
  <2>1. CASE i \in 1..(b - a)
    BY <1>1, <1>4, <2>1
  <2>2. CASE i = b + 1 - a
    <3>1. a + i = b + 1
      BY <2>2
    <3> QED
      BY <1>5, <2>2, <3>1 DEF m
  <2>3. i \in 1..(b - a) \/ i = b + 1 - a
    OBVIOUS
  <2> QED
    BY <2>1, <2>2, <2>3
<1> HIDE DEF q
<1>7. q = Run(s, c, dev, a, b + 1)
  BY <1>3, <1>6, RunIs
<1> QED
  BY <1>7 DEF q, r, m

LEMMA RunTail ==
  ASSUME NEW s, NEW c, NEW dev, NEW a \in Nat, NEW b \in Nat, a < b
  PROVE  Tail(Run(s, c, dev, a, b)) = Run(s, c, dev, a + 1, b)
<1> DEFINE S == Pool(s, c, dev)
           r == Run(s, c, dev, a, b)
           q == Tail(r)
<1>1. r \in Seq(S) /\ Len(r) = b - a /\ \A i \in 1..(b - a) : r[i] = Msg(s, c, dev, a + i)
  BY RunType
<1> HIDE DEF S, r
<1>2. Len(r) # 0 /\ r # <<>>
  BY <1>1
<1>4. q \in Seq(S) /\ Len(q) = b - (a + 1) /\ \A i \in 1..(b - (a + 1)) : q[i] = r[i + 1]
  BY <1>1, <1>2
<1>5. ASSUME NEW i \in 1..(b - (a + 1)) PROVE q[i] = Msg(s, c, dev, (a + 1) + i)
  <2>1. i + 1 \in 1..(b - a) /\ a + (i + 1) = (a + 1) + i
    OBVIOUS
  <2>2. q[i] = Msg(s, c, dev, a + (i + 1))
    BY <1>1, <1>4, <2>1
  <2> QED
    BY <2>1, <2>2
<1> HIDE DEF q
<1>6. q = Run(s, c, dev, a + 1, b)
  BY <1>4, <1>5, RunIs
<1> QED
  BY <1>6 DEF q, r

LEMMA RunHead ==
  ASSUME NEW s, NEW c, NEW dev, NEW a \in Nat, NEW b \in Nat, a < b
  PROVE  Head(Run(s, c, dev, a, b)) = Msg(s, c, dev, a + 1)
<1> DEFINE r == Run(s, c, dev, a, b)
<1>0. a <= b
  OBVIOUS
<1>1. r \in Seq(Pool(s, c, dev)) /\ Len(r) = b - a
  BY <1>0, RunType
<1>2. r[1] = Msg(s, c, dev, a + 1)
  <2>1. 1 \in 1..(b - a)
    OBVIOUS
  <2> QED
    BY <2>1 DEF Run
<1> HIDE DEF r
<1>3. Head(r) = r[1]
  BY <1>1
<1>4. Head(r) = Msg(s, c, dev, a + 1)
  BY <1>2, <1>3
<1> QED
  BY <1>4 DEF r

LEMMA RunEmpty ==
  ASSUME NEW s, NEW c, NEW dev, NEW a \in Nat, NEW b \in Nat, a <= b
  PROVE  Run(s, c, dev, a, b) = <<>> <=> a = b
<1>1. Len(Run(s, c, dev, a, b)) = b - a
      /\ Run(s, c, dev, a, b) \in Seq(Pool(s, c, dev))
  BY RunType
<1> QED
  BY <1>1

\* The last piece completes the information of the peer.
LEMMA DecodeWhole ==
  ASSUME NEW s, NEW c, NEW dev
  PROVE  Decode(Run(s, c, dev, Prefix(s), Prefix(s) + Pieces)) = InfoOf(s, c, dev)
<1> DEFINE r == Run(s, c, dev, Prefix(s), Prefix(s) + Pieces)
<1>1. Pieces \in Nat /\ Pieces > 0 /\ Prefix(s) \in Nat
  BY ConstantsOK DEF Prefix
<1>2. \A i \in 1..Pieces : r[i] = Msg(s, c, dev, Prefix(s) + i)
  <2> DEFINE a == Prefix(s)
             b == Prefix(s) + Pieces
  <2>1. a \in Nat /\ b \in Nat /\ a <= b /\ b - a = Pieces
    BY <1>1
  <2>2. r = Run(s, c, dev, a, b)
    OBVIOUS
  <2> HIDE DEF a, b, r
  <2>3. ASSUME NEW i \in 1..(b - a) PROVE r[i] = Msg(s, c, dev, a + i)
    <3>1. Run(s, c, dev, a, b)[i] = Msg(s, c, dev, a + i)
      BY DEF Run
    <3> QED
      BY <2>2, <3>1
  <2> QED
    BY <2>1, <2>3 DEF a
<1> HIDE DEF r
<1>3. \A i \in 1..Pieces : r[i] = [info |-> InfoOf(s, c, dev), part |-> i]
  <2> SUFFICES ASSUME NEW i \in 1..Pieces
               PROVE  r[i] = [info |-> InfoOf(s, c, dev), part |-> i]
    OBVIOUS
  <2>1. ~ (Prefix(s) + i <= Prefix(s)) /\ Prefix(s) + i <= Prefix(s) + Pieces
        /\ (Prefix(s) + i) - Prefix(s) = i
    BY <1>1
  <2> QED
    BY <1>2, <2>1 DEF Msg
<1>4. r[1].info = InfoOf(s, c, dev)
  <2>1. 1 \in 1..Pieces
    BY <1>1
  <2>2. r[1] = [info |-> InfoOf(s, c, dev), part |-> 1]
    BY <1>3, <2>1
  <2> QED
    BY <2>2
<1>5. \A i \in 1..Pieces : r[i] = [info |-> r[1].info, part |-> i]
  BY <1>3, <1>4
<1>6. Decode(r) = InfoOf(s, c, dev)
  BY <1>4, <1>5 DEF Decode
<1> QED
  BY <1>6 DEF r

-----------------------------------------------------------------------------
(***************************************************************************)
(* What keeps the invariant of a connection.                               *)
(***************************************************************************)
\* An entry of a table of both sides and all connections is replaced.
LEMMA TableUpdated ==
  ASSUME NEW f, f = [t \in Sides |-> [d \in Conns |-> f[t][d]]],
         NEW s \in Sides, NEW c \in Conns, NEW v, NEW g, g = [f EXCEPT ![s][c] = v]
  PROVE  /\ g = [t \in Sides |-> [d \in Conns |-> g[t][d]]]
         /\ \A t \in Sides, d \in Conns : g[t][d] = IF t = s /\ d = c THEN v ELSE f[t][d]
<1>1. \A t \in Sides, d \in Conns : g[t][d] = IF t = s /\ d = c THEN v ELSE f[t][d]
  OBVIOUS
<1>2. g = [t \in Sides |-> [d \in Conns |-> g[t][d]]]
  OBVIOUS
<1> QED
  BY <1>1, <1>2

Same(d) ==
  /\ \A t \in Sides : /\ stage'[t][d] = stage[t][d] /\ sock'[t][d] = sock[t][d]
                      /\ link'[t][d] = link[t][d] /\ control'[t][d] = control[t][d]
  /\ chan'[d] = chan[d] /\ fifoMr'[d] = fifoMr[d] /\ remFifo'[d] = remFifo[d]

LEMMA OtherSide ==
  ASSUME NEW s \in Sides
  PROVE  Other(s) \in Sides /\ Other(s) # s /\ Other(Other(s)) = s
         /\ \A t \in Sides : t = s \/ t = Other(s)
BY DEF Sides, Other

LEMMA DevKept ==
  ASSUME NEW c, chan'[c] = chan[c]
  PROVE  ChanDev(c)' = ChanDev(c) /\ RecvDev(c)' = RecvDev(c)
BY DEF ChanDev, RecvDev, ControlDev

LEMMA CountsKept ==
  ASSUME NEW s, NEW c, stage'[s][c] = stage[s][c]
  PROVE  Written(s, c)' = Written(s, c) /\ Taken(s, c)' = Taken(s, c)
BY DEF Written, Taken

\* A piece count is a number.
LEMMA CountsType ==
  ASSUME NEW s \in Sides, NEW c \in Conns, PlaceInv(s, c)
  PROVE  Written(s, c) \in Nat /\ Taken(s, c) \in Nat
<1>1. Pieces \in Nat \ {0}
  BY ConstantsOK
<1>2. stage[s][c].offset \in Nat
  BY <1>1 DEF PlaceInv
<1>3. \A t : Prefix(t) \in Nat
  BY DEF Prefix
<1>4. Written(s, c) \in Nat
  BY <1>1, <1>2, <1>3 DEF Written
<1>5. Taken(s, c) \in Nat
  BY <1>1, <1>2, <1>3 DEF Taken
<1> QED
  BY <1>4, <1>5

LEMMA SameKeeps ==
  ASSUME NEW d \in Conns, ConnInv(d), Same(d)
  PROVE  ConnInv(d)'
<1>1. ChanDev(d)' = ChanDev(d) /\ RecvDev(d)' = RecvDev(d)
  BY DevKept DEF Same
<1>2. ASSUME NEW s \in Sides
      PROVE  PlaceInv(s, d)' /\ QueueInv(s, d)' /\ BufferInv(s, d)' /\ PeerInv(s, d)'
  <2>1. Other(s) \in Sides /\ stage'[s][d] = stage[s][d]
        /\ stage'[Other(s)][d] = stage[Other(s)][d]
        /\ sock'[s][d] = sock[s][d] /\ link'[s][d] = link[s][d]
    BY OtherSide DEF Same
  <2>2. /\ Written(s, d)' = Written(s, d) /\ Taken(s, d)' = Taken(s, d)
        /\ Taken(Other(s), d)' = Taken(Other(s), d)
    BY <2>1, CountsKept
  <2>3. PlaceInv(s, d) /\ QueueInv(s, d) /\ BufferInv(s, d) /\ PeerInv(s, d)
    BY DEF ConnInv
  <2>4. PlaceInv(s, d)'
    BY <2>1, <2>3 DEF PlaceInv
  <2>5. QueueInv(s, d)'
    BY <1>1, <2>1, <2>2, <2>3 DEF QueueInv
  <2>6. BufferInv(s, d)'
    BY <1>1, <2>1, <2>2, <2>3 DEF BufferInv
  <2>7. PeerInv(s, d)'
    BY <2>1, <2>3 DEF PeerInv
  <2> QED
    BY <2>4, <2>5, <2>6, <2>7
<1>3. FifoInv(d)'
  BY <1>1 DEF FifoInv, ConnInv, Same, Sides
<1> QED
  BY <1>2, <1>3 DEF ConnInv

\* The pieces a step of side s writes and reads: none, or the next one.
Writes(s, c) ==
  \/ Written(s, c)' = Written(s, c) /\ sock'[s][c] = sock[s][c]
  \/ /\ Written(s, c)' = Written(s, c) + 1
     /\ sock'[s][c] = Append(sock[s][c], Msg(s, c, ChanDev(c), Written(s, c) + 1))

Reads(s, c) ==
  \/ Taken(s, c)' = Taken(s, c) /\ sock'[Other(s)][c] = sock[Other(s)][c]
  \/ /\ Taken(s, c)' = Taken(s, c) + 1 /\ sock[Other(s)][c] # <<>>
     /\ sock'[Other(s)][c] = Tail(sock[Other(s)][c])

LEMMA QueuesKept ==
  ASSUME NEW s \in Sides, NEW c \in Conns, ConnInv(c), chan'[c] = chan[c],
         stage'[Other(s)][c] = stage[Other(s)][c], Writes(s, c), Reads(s, c)
  PROVE  QueueInv(s, c)' /\ QueueInv(Other(s), c)'
<1> DEFINE o == Other(s)
           W == Written(s, c)
           T == Taken(o, c)
           V == Written(o, c)
           U == Taken(s, c)
           dev == ChanDev(c)
<1>1. o \in Sides /\ Other(o) = s
  BY OtherSide
<1>2. W \in Nat /\ T \in Nat /\ V \in Nat /\ U \in Nat
  BY <1>1, CountsType DEF ConnInv
<1>3. /\ T <= W /\ sock[s][c] = Run(s, c, dev, T, W)
      /\ U <= V /\ sock[o][c] = Run(o, c, dev, U, V)
  BY <1>1 DEF ConnInv, QueueInv
<1>4. ChanDev(c)' = dev /\ Taken(o, c)' = T /\ Written(o, c)' = V
  BY CountsKept, DevKept
<1> HIDE DEF W, T, V, U, dev, o
<1>5. QueueInv(s, c)'
  <2>1. T <= Written(s, c)' /\ sock'[s][c] = Run(s, c, dev, T, Written(s, c)')
    <3>1. CASE Written(s, c)' = W /\ sock'[s][c] = sock[s][c]
      BY <1>3, <3>1
    <3>2. CASE /\ Written(s, c)' = W + 1
               /\ sock'[s][c] = Append(sock[s][c], Msg(s, c, dev, W + 1))
      <4>1. Append(Run(s, c, dev, T, W), Msg(s, c, dev, W + 1)) = Run(s, c, dev, T, W + 1)
        BY <1>2, <1>3, RunAppend
      <4>2. T <= W + 1
        BY <1>2, <1>3
      <4> QED
        BY <1>3, <3>2, <4>1, <4>2
    <3> QED
      BY <3>1, <3>2 DEF Writes, W, dev
  <2> QED
    BY <1>1, <1>4, <2>1 DEF QueueInv, o
<1>6. QueueInv(o, c)'
  <2>1. Taken(s, c)' <= V /\ sock'[o][c] = Run(o, c, dev, Taken(s, c)', V)
    <3>1. CASE Taken(s, c)' = U /\ sock'[o][c] = sock[o][c]
      BY <1>3, <3>1
    <3>2. CASE /\ Taken(s, c)' = U + 1 /\ sock[o][c] # <<>>
               /\ sock'[o][c] = Tail(sock[o][c])
      <4>1. U # V
        BY <1>2, <1>3, <3>2, RunEmpty
      <4>2. U < V /\ U + 1 <= V
        BY <1>2, <1>3, <4>1
      <4>3. Tail(Run(o, c, dev, U, V)) = Run(o, c, dev, U + 1, V)
        BY <1>2, <4>2, RunTail
      <4> QED
        BY <1>3, <3>2, <4>2, <4>3
    <3> QED
      BY <3>1, <3>2 DEF Reads, U, o
  <2> QED
    BY <1>1, <1>4, <2>1 DEF QueueInv
<1> QED
  BY <1>5, <1>6 DEF o

\* A step of side s of c leaves the other connections alone.
Apart(s, c) ==
  /\ NetShape'
  /\ \A d \in Conns \ {c} : Same(d)
  /\ stage'[Other(s)][c] = stage[Other(s)][c] /\ link'[Other(s)][c] = link[Other(s)][c]

LEMMA StepKeeps ==
  ASSUME NetInv, NEW s \in Sides, NEW c \in Conns, NEW x \in Stages(s),
         NEW o \in 0..Pieces-1, NEW b, Sets(s, c, x, o, b),
         chan'[c] = chan[c], Apart(s, c), Writes(s, c), Reads(s, c),
         x = "send" => b = InfoOf(s, c, ChanDev(c)),
         x = Reading(s) =>
           b = Run(Other(s), c, ChanDev(c), Prefix(Other(s)), Taken(s, c)'),
         PeerInv(s, c)', FifoInv(c)'
  PROVE  NetInv'
<1>1. ConnInv(c) /\ ChanDev(c)' = ChanDev(c)
  BY DevKept DEF NetInv
<1>2. Other(s) \in Sides /\ \A t \in Sides : t = s \/ t = Other(s)
  BY OtherSide
<1>3. QueueInv(s, c)' /\ QueueInv(Other(s), c)'
  BY <1>1, QueuesKept DEF Apart
<1>4. PlaceInv(s, c)' /\ BufferInv(s, c)'
  BY <1>1 DEF PlaceInv, BufferInv, Sets
<1>5. PlaceInv(Other(s), c)' /\ BufferInv(Other(s), c)' /\ PeerInv(Other(s), c)'
  <2>1. PlaceInv(Other(s), c) /\ BufferInv(Other(s), c) /\ PeerInv(Other(s), c)
    BY <1>1, <1>2 DEF ConnInv
  <2>2. Taken(Other(s), c)' = Taken(Other(s), c)
    BY CountsKept DEF Apart
  <2>3. PlaceInv(Other(s), c)'
    BY <2>1 DEF PlaceInv, Apart
  <2>4. BufferInv(Other(s), c)'
    BY <1>1, <2>1, <2>2 DEF BufferInv, Apart
  <2>5. PeerInv(Other(s), c)'
    BY <2>1 DEF PeerInv, Apart
  <2> QED
    BY <2>3, <2>4, <2>5
<1>6. ConnInv(c)'
  BY <1>2, <1>3, <1>4, <1>5 DEF ConnInv
<1>7. \A d \in Conns \ {c} : ConnInv(d)'
  BY SameKeeps DEF NetInv, Apart
<1> QED
  BY <1>6, <1>7 DEF NetInv, Apart

-----------------------------------------------------------------------------
(***************************************************************************)
(* Which variables a step touches, and where.                              *)
(***************************************************************************)
SockAt(c)       == \E t \in Sides : \E q : sock' = [sock EXCEPT ![t][c] = q]
LinkAt(s, c)    == \E L : link' = [link EXCEPT ![s][c] = L]
ControlAt(s, c) == \E k : control' = [control EXCEPT ![s][c] = k]
FifoMrAt(c)     == \E n \in Nics \cup {-1} : fifoMr' = [fifoMr EXCEPT ![c] = n]
RemFifoAt(c)    == \E k : remFifo' = [remFifo EXCEPT ![c] = k]

Touches(s, c) ==
  /\ sock' = sock \/ SockAt(c)
  /\ link' = link \/ LinkAt(s, c)
  /\ control' = control \/ ControlAt(s, c)
  /\ fifoMr' = fifoMr \/ FifoMrAt(c)
  /\ remFifo' = remFifo \/ RemFifoAt(c)
  /\ chan' = chan

LEMMA TouchesApart ==
  ASSUME IInv, NetInv, NEW s \in Sides, NEW c \in Conns, NEW x, NEW o, NEW b,
         Sets(s, c, x, o, b), Touches(s, c)
  PROVE  Apart(s, c)
<1>0. NetShape /\ link = [t \in Sides |-> [d \in Conns |-> link[t][d]]]
      /\ Other(s) \in Sides /\ Other(s) # s
  BY OtherSide DEF NetInv, IInv, ShapeOK, LinkShape
<1>1. /\ sock' = [t \in Sides |-> [d \in Conns |-> sock'[t][d]]]
      /\ \A t \in Sides, d \in Conns \ {c} : sock'[t][d] = sock[t][d]
  <2>1. CASE sock' = sock
    BY <1>0, <2>1 DEF NetShape
  <2>2. CASE SockAt(c)
    <3>1. PICK t \in Sides : \E q : sock' = [sock EXCEPT ![t][c] = q]
      BY <2>2 DEF SockAt
    <3>2. PICK q : sock' = [sock EXCEPT ![t][c] = q]
      BY <3>1
    <3>3. sock = [u \in Sides |-> [d \in Conns |-> sock[u][d]]]
      BY <1>0 DEF NetShape
    <3>4. sock' = [u \in Sides |-> [d \in Conns |-> sock'[u][d]]]
      BY <3>2, <3>3
    <3>5. \A u \in Sides, d \in Conns :
            sock'[u][d] = IF u = t /\ d = c THEN q ELSE sock[u][d]
      BY <3>2, <3>3, TableUpdated
    <3> QED
      BY <3>4, <3>5
  <2> QED
    BY <2>1, <2>2 DEF Touches
<1>2. \A t \in Sides, d \in Conns : ~ (t = s /\ d = c) => link'[t][d] = link[t][d]
  <2>1. CASE LinkAt(s, c)
    <3>1. PICK L : link' = [link EXCEPT ![s][c] = L]
      BY <2>1 DEF LinkAt
    <3> QED
      BY <1>0, <3>1, TableUpdated
  <2> QED
    BY <2>1 DEF Touches
<1>3. /\ control' = [t \in Sides |-> [d \in Conns |-> control'[t][d]]]
      /\ \A t \in Sides, d \in Conns : ~ (t = s /\ d = c) => control'[t][d] = control[t][d]
  <2>1. CASE control' = control
    BY <1>0, <2>1 DEF NetShape
  <2>2. CASE ControlAt(s, c)
    <3>1. PICK k : control' = [control EXCEPT ![s][c] = k]
      BY <2>2 DEF ControlAt
    <3>2. control = [u \in Sides |-> [d \in Conns |-> control[u][d]]]
      BY <1>0 DEF NetShape
    <3>4. control' = [u \in Sides |-> [d \in Conns |-> control'[u][d]]]
      BY <3>1, <3>2
    <3>5. \A u \in Sides, d \in Conns :
            control'[u][d] = IF u = s /\ d = c THEN k ELSE control[u][d]
      BY <3>1, <3>2, TableUpdated
    <3> QED
      BY <3>4, <3>5
  <2> QED
    BY <2>1, <2>2 DEF Touches
<1>4. fifoMr' \in [Conns -> Nics \cup {-1}]
      /\ \A d \in Conns \ {c} : fifoMr'[d] = fifoMr[d]
  <2>0. fifoMr \in [Conns -> Nics \cup {-1}]
    BY <1>0 DEF NetShape
  <2>1. CASE fifoMr' = fifoMr
    BY <2>0, <2>1
  <2>2. CASE FifoMrAt(c)
    <3>1. PICK n \in Nics \cup {-1} : fifoMr' = [fifoMr EXCEPT ![c] = n]
      BY <2>2 DEF FifoMrAt
    <3> QED
      BY <2>0, <3>1
  <2> QED
    BY <2>1, <2>2 DEF Touches
<1>5. remFifo' = [d \in Conns |-> remFifo'[d]]
      /\ \A d \in Conns \ {c} : remFifo'[d] = remFifo[d]
  <2>0. remFifo = [d \in Conns |-> remFifo[d]]
    BY <1>0 DEF NetShape
  <2>1. CASE remFifo' = remFifo
    BY <2>0, <2>1
  <2>2. CASE RemFifoAt(c)
    <3>1. PICK k : remFifo' = [remFifo EXCEPT ![c] = k]
      BY <2>2 DEF RemFifoAt
    <3> QED
      BY <2>0, <3>1
  <2> QED
    BY <2>1, <2>2 DEF Touches
<1>6. NetShape'
  BY <1>1, <1>3, <1>4, <1>5 DEF NetShape
<1>7. \A t \in Sides, d \in Conns : ~ (t = s /\ d = c) => stage'[t][d] = stage[t][d]
  BY DEF Sets
<1>8. \A d \in Conns \ {c} : Same(d)
  BY <1>1, <1>2, <1>3, <1>4, <1>5, <1>7 DEF Same, Touches
<1> QED
  BY <1>0, <1>2, <1>6, <1>7, <1>8 DEF Apart

\* The NIC of a connection that has a channel.
LEMMA DevType ==
  ASSUME IInv, NEW c \in Conns, chan[c] # NoChan
  PROVE  ChanDev(c) \in Nics /\ RecvDev(c) \in Nics
<1>1. chan[c] \in Nat
  BY DEF IInv, ChanInv
<1>2. NChannels \in Nat \ {0} /\ \A s \in Sides : Dev[s][c] \in Nics
      /\ Channel2NIC \in [0..NChannels-1 -> Nics \cup {-1}]
  BY ConstantsOK
<1>3. chan[c] % NChannels \in 0..NChannels-1
  BY <1>1, <1>2
<1>4. Channel2NIC[chan[c] % NChannels] \in Nics \cup {-1}
  <2> DEFINE k == chan[c] % NChannels
  <2> HIDE DEF k
  <2>1. k \in 0..NChannels-1 => Channel2NIC[k] \in Nics \cup {-1}
    BY ConstantsOK
  <2> QED
    BY <1>3, <2>1 DEF k
<1> QED
  BY <1>2, <1>4 DEF ChanDev, RecvDev, ControlDev, Sides

-----------------------------------------------------------------------------
(***************************************************************************)
(* Sending and reading a piece, on either side.                            *)
(***************************************************************************)
LEMMA SendPieceKeeps ==
  ASSUME IInv, NetInv, NEW s \in Sides, NEW c \in Conns,
         NEW x, s = "send" => x = "connecting", s = "recv" => x = "pending",
         SendPiece(s, c, x)
  PROVE  NetInv'
<1> DEFINE st == stage[s][c]
           o  == st.offset
           dev == ChanDev(c)
<1>1. ConnInv(c) /\ StageShape /\ st.state = "send" /\ Other(s) \in Sides
  BY OtherSide DEF NetInv, IInv, ShapeOK, SendPiece
<1>2. Pieces \in Nat /\ Pieces > 0 /\ Prefix(s) \in Nat
  BY ConstantsOK DEF Prefix
<1>3. o \in 0..Pieces-1 /\ st.buffer = InfoOf(s, c, dev)
  BY <1>1 DEF ConnInv, PlaceInv, BufferInv
<1>4. Written(s, c) = Prefix(s) + o /\ "send" \notin Early(s)
  BY <1>1 DEF Written, Early, Sides
<1>5. Msg(s, c, dev, Written(s, c) + 1) = [info |-> st.buffer, part |-> o + 1]
  <2> DEFINE k == Written(s, c) + 1
  <2>1. ~ (k <= Prefix(s)) /\ k <= Prefix(s) + Pieces /\ k - Prefix(s) = o + 1
    BY <1>2, <1>3, <1>4
  <2> HIDE DEF k
  <2>2. Msg(s, c, dev, k) = [info |-> InfoOf(s, c, dev), part |-> o + 1]
    BY <2>1 DEF Msg
  <2> QED
    BY <1>3, <2>2 DEF k
<1>6. /\ sock' = [sock EXCEPT ![s][c] = Append(sock[s][c], [info |-> st.buffer, part |-> o + 1])]
      /\ UNCHANGED <<counter, chan, table, link, pdRefs, fifoMr, remFifo, control>>
  BY DEF SendPiece
<1>7. Touches(s, c)
  BY <1>6 DEF Touches, SockAt
<1>8. /\ sock'[s][c] = Append(sock[s][c], Msg(s, c, dev, Written(s, c) + 1))
      /\ sock'[Other(s)][c] = sock[Other(s)][c]
  <2>1. sock = [t \in Sides |-> [d \in Conns |-> sock[t][d]]] /\ Other(s) # s
    BY OtherSide DEF NetInv, NetShape
  <2> QED
    BY <1>1, <1>5, <1>6, <2>1, TableUpdated
<1>9. ChanDev(c)' = dev /\ RecvDev(c)' = RecvDev(c)
  BY <1>6, DevKept
<1>10. PICK y, p, b :
         /\ y \in {x, "send"} /\ p \in 0..Pieces-1 /\ Sets(s, c, y, p, b)
         /\ y = "send" => b = InfoOf(s, c, dev) /\ p = o + 1
         /\ y = x => b = <<>> /\ p = 0 /\ o + 1 = Pieces
  <2>1. CASE o + 1 = Pieces /\ Sets(s, c, x, 0, <<>>)
    <3>1. x # "send" /\ 0 \in 0..Pieces-1
      BY <1>2 DEF Sides
    <3> QED
      BY <2>1, <3>1
  <2>2. CASE o + 1 # Pieces /\ Sets(s, c, "send", o + 1, st.buffer)
    <3>1. x # "send" /\ o + 1 \in 0..Pieces-1
      BY <1>2, <1>3, <2>2 DEF Sides
    <3> QED
      BY <1>3, <2>2, <3>1
  <2> QED
    BY <1>1, <2>1, <2>2, SendSets
<1> HIDE DEF o, dev
<1>11. stage'[s][c].state = y /\ stage'[s][c].offset = p /\ stage[s][c].state = "send"
       /\ stage'[Other(s)][c] = stage[Other(s)][c]
  BY <1>1, <1>10, OtherSide DEF Sets
<1>12. y \in Stages(s)
  BY <1>10 DEF Stages, Reading, Sides
<1>13. Writes(s, c)
  <2>1. Written(s, c)' = Written(s, c) + 1
    <3>1. CASE y = "send"
      BY <1>2, <1>3, <1>4, <1>10, <1>11, <3>1 DEF Written, Early, Sides
    <3>2. CASE y = x
      BY <1>2, <1>3, <1>4, <1>10, <1>11, <3>2 DEF Written, Early, Sides, Over
    <3> QED
      BY <1>10, <3>1, <3>2
  <2> QED
    BY <1>8, <2>1 DEF Writes, dev
<1>14. Reads(s, c) /\ (y = Reading(s) => Taken(s, c)' = Prefix(Other(s)))
  <2>1. Taken(s, c)' = Taken(s, c) /\ (y = Reading(s) => Taken(s, c)' = Prefix(Other(s)))
    BY <1>2, <1>10, <1>11 DEF Taken, Before, Reading, Over, Prefix, Other, Sides
  <2> QED
    BY <1>8, <2>1 DEF Reads
<1>15. y = Reading(s) => b = Run(Other(s), c, dev, Prefix(Other(s)), Taken(s, c)')
  <2> SUFFICES ASSUME y = Reading(s)
               PROVE  b = Run(Other(s), c, dev, Prefix(Other(s)), Taken(s, c)')
    OBVIOUS
  <2>1. y = x /\ y # "send" /\ Prefix(Other(s)) \in Nat /\ Taken(s, c)' = Prefix(Other(s))
    BY <1>10, <1>14 DEF Reading, Sides, Prefix
  <2>2. b = <<>>
    BY <1>10, <2>1
  <2> QED
    BY <2>1, <2>2, RunEmpty
<1>16. PeerInv(s, c)'
  <2>1. link' = link /\ PeerInv(s, c)
    BY <1>1, <1>6 DEF ConnInv
  <2>2. y \in Joined(s) => stage[s][c].state \in Joined(s)
    BY <1>10, <1>11 DEF Joined, Sides
  <2>3. y # "closed" /\ stage[s][c].state # "closed"
    BY <1>10, <1>11 DEF Sides
  <2> QED
    BY <1>11, <2>1, <2>2, <2>3 DEF PeerInv
<1>17. FifoInv(c)'
  <2>1. FifoInv(c)
    BY <1>1 DEF ConnInv
  <2>2. CASE s = "send"
    BY <1>6, <1>9, <1>10, <1>11, <2>1, <2>2 DEF FifoInv, Other, Late, Over, dev
  <2>3. CASE s = "recv"
    BY <1>6, <1>9, <1>10, <1>11, <2>1, <2>3 DEF FifoInv, Other, Late, Joined, dev
  <2> QED
    BY <2>2, <2>3 DEF Sides
<1> QED
  <2>1. Apart(s, c)
    BY <1>7, <1>10, TouchesApart
  <2> QED
    BY <1>6, <1>10, <1>12, <1>13, <1>14, <1>15, <1>16, <1>17, <2>1, StepKeeps
       DEF dev

LEMMA ReadPieceKeeps ==
  ASSUME IInv, NetInv, NEW s \in Sides, NEW c \in Conns, ReadPiece(s, c, Reading(s))
  PROVE  NetInv'
<1> DEFINE st == stage[s][c]
           o  == Other(s)
           dev == ChanDev(c)
           m == Head(sock[o][c])
           T == Taken(s, c)
<1>1. ConnInv(c) /\ StageShape /\ st.state = Reading(s) /\ o \in Sides
  BY OtherSide DEF NetInv, IInv, ShapeOK, ReadPiece
<1>2. Pieces \in Nat /\ Pieces > 0 /\ Prefix(o) \in Nat
  BY ConstantsOK DEF Prefix
<1>3. /\ st.offset \in Nat /\ st.offset + 1 \in 0..Pieces-1
      /\ st.buffer = Run(o, c, dev, Prefix(o), T)
  BY <1>1, <1>2 DEF ConnInv, PlaceInv, BufferInv, ReadPiece
<1>4. T = Prefix(o) + st.offset /\ Reading(s) \notin Before(s)
      /\ Reading(s) \in Stages(s) /\ Reading(s) # "send"
  BY <1>1 DEF Taken, Before, Reading, Stages, Sides
<1>5. Sets(s, c, Reading(s), st.offset + 1, Append(st.buffer, m))
  BY <1>1, ReadSets
<1>6. /\ sock' = [sock EXCEPT ![o][c] = Tail(sock[o][c])] /\ sock[o][c] # <<>>
      /\ UNCHANGED <<counter, chan, table, link, pdRefs, fifoMr, remFifo, control>>
  BY DEF ReadPiece
<1>7. Apart(s, c)
  <2>1. Touches(s, c)
    BY <1>1, <1>6 DEF Touches, SockAt
  <2> QED
    BY <1>5, <2>1, TouchesApart
<1>8. sock'[o][c] = Tail(sock[o][c]) /\ sock'[s][c] = sock[s][c]
  <2>1. sock = [t \in Sides |-> [d \in Conns |-> sock[t][d]]] /\ o # s
    BY OtherSide DEF NetInv, NetShape
  <2> QED
    BY <1>1, <1>6, <2>1, TableUpdated
<1>9. /\ stage'[s][c].state = Reading(s) /\ stage'[s][c].offset = st.offset + 1
  BY <1>5 DEF Sets
<1>10. Taken(s, c)' = T + 1
  BY <1>2, <1>3, <1>4, <1>9 DEF Taken
<1>11. Written(s, c)' = Written(s, c)
  BY <1>1, <1>9 DEF Written, Reading, Early, Over, Sides
<1>12. Writes(s, c) /\ Reads(s, c)
  BY <1>6, <1>8, <1>10, <1>11 DEF Writes, Reads
<1>13. Append(st.buffer, m) = Run(o, c, dev, Prefix(o), Taken(s, c)')
  <2>1. T \in Nat /\ Written(o, c) \in Nat /\ T < Written(o, c) /\ Prefix(o) <= T
        /\ sock[o][c] = Run(o, c, dev, T, Written(o, c))
    <3>1. QueueInv(o, c) /\ Other(o) = s
      BY <1>1, OtherSide DEF ConnInv
    <3>2. T \in Nat /\ Written(o, c) \in Nat
      BY <1>1, CountsType DEF ConnInv
    <3> HIDE DEF T, o, dev
    <3>3. T <= Written(o, c) /\ sock[o][c] = Run(o, c, dev, T, Written(o, c))
      BY <3>1 DEF QueueInv, T, o, dev
    <3>4. T # Written(o, c)
      BY <1>6, <3>2, <3>3, RunEmpty
    <3> QED
      BY <1>2, <1>3, <1>4, <3>2, <3>3, <3>4
  <2> HIDE DEF T, o, dev
  <2>2. m = Msg(o, c, dev, T + 1)
    BY <2>1, RunHead
  <2> HIDE DEF m
  <2> QED
    BY <1>2, <1>3, <1>10, <2>1, <2>2, RunAppend
<1>14. PeerInv(s, c)'
  <2>1. PeerInv(s, c) /\ link' = link
    BY <1>1, <1>6 DEF ConnInv
  <2> QED
    BY <1>1, <1>9, <2>1 DEF PeerInv
<1>15. FifoInv(c)'
  <2>1. FifoInv(c) /\ ChanDev(c)' = dev /\ RecvDev(c)' = RecvDev(c)
    BY <1>1, <1>6, DevKept DEF ConnInv
  <2>2. \A t \in Sides : stage'[t][c].state = stage[t][c].state
    BY <1>1, <1>5, <1>9 DEF Sets
  <2> QED
    BY <1>6, <2>1, <2>2 DEF FifoInv, Sides
<1> HIDE DEF o, dev, m, T
<1> QED
  BY <1>3, <1>4, <1>5, <1>6, <1>7, <1>12, <1>13, <1>14, <1>15, StepKeeps DEF o, dev

\* The last piece brings what the peer wrote.
LEMMA IncomingIs ==
  ASSUME NetInv, NEW s \in Sides, NEW c \in Conns, LastPiece(s, c, Reading(s))
  PROVE  /\ Incoming(s, c) = InfoOf(Other(s), c, ChanDev(c))
         /\ Taken(s, c) + 1 = Prefix(Other(s)) + Pieces
<1> DEFINE st == stage[s][c]
           o  == Other(s)
           dev == ChanDev(c)
           m == Head(sock[o][c])
           T == Taken(s, c)
<1>1. ConnInv(c) /\ st.state = Reading(s) /\ o \in Sides /\ Other(o) = s
      /\ st.offset + 1 = Pieces /\ sock[o][c] # <<>>
  BY OtherSide DEF NetInv, LastPiece
<1>2. Pieces \in Nat /\ Pieces > 0 /\ Prefix(o) \in Nat
  BY ConstantsOK DEF Prefix
<1>3. st.offset \in Nat /\ st.buffer = Run(o, c, dev, Prefix(o), T)
  BY <1>1, <1>2 DEF ConnInv, PlaceInv, BufferInv
<1>4. T = Prefix(o) + st.offset
  BY <1>1 DEF Taken, Before, Reading, Sides
<1>5. QueueInv(o, c) /\ T \in Nat /\ Written(o, c) \in Nat
  BY <1>1, CountsType DEF ConnInv
<1> HIDE DEF T, o, dev
<1>6. T <= Written(o, c) /\ sock[o][c] = Run(o, c, dev, T, Written(o, c))
  BY <1>1, <1>5 DEF QueueInv, T, o, dev
<1>7. T < Written(o, c)
  <2>1. T # Written(o, c)
    BY <1>1, <1>5, <1>6, RunEmpty
  <2> QED
    BY <1>5, <1>6, <2>1
<1>8. m = Msg(o, c, dev, T + 1)
  BY <1>5, <1>6, <1>7, RunHead
<1> HIDE DEF m
<1>9. Prefix(o) <= T /\ T + 1 = Prefix(o) + Pieces
  BY <1>1, <1>2, <1>3, <1>4
<1>10. Append(st.buffer, m) = Run(o, c, dev, Prefix(o), Prefix(o) + Pieces)
  BY <1>2, <1>3, <1>5, <1>8, <1>9, RunAppend
<1>11. Incoming(s, c) = InfoOf(o, c, dev)
  BY <1>10, DecodeWhole DEF Incoming, m, o
<1> QED
  BY <1>9, <1>11 DEF o, T, dev

-----------------------------------------------------------------------------
(***************************************************************************)
(* The steps of ncclIbConnect.                                             *)
(***************************************************************************)
LEMMA GotoKeeps ==
  ASSUME IInv, NetInv, NEW s \in Sides, NEW c \in Conns, NEW x \in Stages(s), NEW b,
         Goto(s, c, x, b), Touches(s, c), Writes(s, c), Reads(s, c),
         x = "send" => b = InfoOf(s, c, ChanDev(c)),
         x = Reading(s) =>
           b = Run(Other(s), c, ChanDev(c), Prefix(Other(s)), Taken(s, c)'),
         PeerInv(s, c)', FifoInv(c)'
  PROVE  NetInv'
<1>1. Sets(s, c, x, 0, b)
  BY GotoSets DEF IInv, ShapeOK
<1>2. Apart(s, c) /\ 0 \in 0..Pieces-1 /\ chan'[c] = chan[c]
  BY <1>1, TouchesApart, ConstantsOK DEF Touches
<1> QED
  BY <1>1, <1>2, StepKeeps

\* What a side reaches with a Goto.
LEMMA GotoPlace ==
  ASSUME IInv, NEW s \in Sides, NEW c \in Conns, NEW x, NEW b, Goto(s, c, x, b)
  PROVE  /\ stage'[s][c].state = x /\ stage'[s][c].offset = 0
         /\ stage'[Other(s)][c] = stage[Other(s)][c]
BY GotoSets, OtherSide DEF IInv, ShapeOK, Sets

\* A message put on the socket of a side, or taken off it.
LEMMA SockPut ==
  ASSUME NetInv, NEW t \in Sides, NEW c \in Conns, NEW q, sock' = [sock EXCEPT ![t][c] = q]
  PROVE  sock'[t][c] = q /\ sock'[Other(t)][c] = sock[Other(t)][c] /\ SockAt(c)
<1>1. sock = [u \in Sides |-> [d \in Conns |-> sock[u][d]]]
  BY DEF NetInv, NetShape
<1>2. \A u \in Sides, d \in Conns : sock'[u][d] = IF u = t /\ d = c THEN q ELSE sock[u][d]
  BY <1>1, TableUpdated
<1>3. SockAt(c)
  BY DEF SockAt
<1> QED
  BY <1>2, <1>3, OtherSide

LEMMA ConnectStartKeeps ==
  ASSUME IInv, NetInv, NEW c \in Conns, ConnectStart(c)
  PROVE  NetInv'
<1>1. /\ "send" \in Sides /\ ConnInv(c) /\ stage["send"][c].state = "none"
      /\ Goto("send", c, "connect", <<>>)
      /\ UNCHANGED <<counter, chan, sock, table, link, pdRefs, fifoMr, remFifo, control>>
  BY DEF NetInv, Sides, ConnectStart
<1>2. stage'["send"][c].state = "connect" /\ stage'["recv"][c] = stage["recv"][c]
  BY <1>1, GotoPlace DEF Other
<1>3. Touches("send", c) /\ ChanDev(c)' = ChanDev(c) /\ RecvDev(c)' = RecvDev(c)
  BY <1>1, DevKept DEF Touches
<1>4. Writes("send", c) /\ Reads("send", c)
  <2>1. Written("send", c)' = Written("send", c) /\ Taken("send", c)' = Taken("send", c)
    BY <1>1, <1>2 DEF Written, Taken, Early, Before
  <2> QED
    BY <1>1, <2>1 DEF Writes, Reads
<1>5. PeerInv("send", c)'
  BY <1>1, <1>2 DEF ConnInv, PeerInv, Joined
<1>6. FifoInv(c)'
  BY <1>1, <1>2, <1>3 DEF ConnInv, FifoInv, Late, Over
<1>7. "connect" \in Stages("send") /\ "connect" # Reading("send") /\ "connect" # "send"
  BY DEF Stages, Reading
<1> QED
  BY <1>1, <1>3, <1>4, <1>5, <1>6, <1>7, GotoKeeps

LEMMA ConnectLinksKeeps ==
  ASSUME IInv, NetInv, NEW c \in Conns, ConnectLinks(c)
  PROVE  NetInv'
<1> DEFINE dev == ChanDev(c)
           L == FreshLinks
<1>1. /\ "send" \in Sides /\ Other("send") = "recv" /\ ConnInv(c)
      /\ stage["send"][c].state = "connect"
  BY DEF NetInv, Sides, Other, ConnectLinks
<1>2. Goto("send", c, "send", InfoOf("send", c, dev))
  <2>1. InfoOf("send", c, dev) = [n \in Nics |->
          [qp |-> <<"send", c, n>>,
           fifo |-> IF n = ControlDev("send", c) THEN <<"fifo", c, n>> ELSE NoLink]]
    BY DEF InfoOf, ChanDev
  <2> QED
    BY <2>1 DEF ConnectLinks
<1>3. /\ sock' = [sock EXCEPT !["send"][c] = Append(sock["send"][c], Magic)]
      /\ link' = [link EXCEPT !["send"][c] = L]
      /\ fifoMr' = [fifoMr EXCEPT ![c] = dev]
      /\ UNCHANGED <<counter, chan, remFifo, control>>
  BY DEF ConnectLinks, MakeLinks, ChanDev
<1>4. stage'["send"][c].state = "send" /\ stage'["send"][c].offset = 0
      /\ stage'["recv"][c] = stage["recv"][c]
  BY <1>1, <1>2, GotoPlace DEF Other
<1>5. dev \in Nics
  BY <1>1, DevType DEF IInv, StageInv, StageOf
<1>6. ChanDev(c)' = dev /\ RecvDev(c)' = RecvDev(c)
  BY <1>3, DevKept
<1>7. sock'["send"][c] = Append(sock["send"][c], Magic) /\ SockAt(c)
      /\ sock'["recv"][c] = sock["recv"][c]
  <2> DEFINE q == Append(sock["send"][c], Magic)
  <2>1. sock' = [sock EXCEPT !["send"][c] = q]
    BY <1>3
  <2> HIDE DEF q
  <2>2. sock'["send"][c] = q /\ SockAt(c) /\ sock'["recv"][c] = sock["recv"][c]
    BY <2>1, SockPut DEF Sides, Other
  <2> QED
    BY <2>2 DEF q
<1>8. Touches("send", c)
  BY <1>3, <1>5, <1>7 DEF Touches, LinkAt, FifoMrAt
<1>9. Writes("send", c) /\ Reads("send", c)
  <2>1. Written("send", c) = 0 /\ Written("send", c)' = 1
    BY <1>1, <1>4 DEF Written, Early, Prefix
  <2>2. Taken("send", c)' = Taken("send", c)
    BY <1>1, <1>4 DEF Taken, Before
  <2>3. Magic = Msg("send", c, dev, 0 + 1)
    BY DEF Msg, Prefix
  <2> QED
    BY <1>1, <1>7, <2>1, <2>2, <2>3 DEF Writes, Reads
<1>10. PeerInv("send", c)'
  <2>1. link'["send"][c] = L
    BY <1>1, <1>3 DEF IInv, ShapeOK, LinkShape
  <2> QED
    BY <1>4, <2>1 DEF PeerInv, Joined, FreshLinks, NewLink, LinkStates
<1>11. FifoInv(c)'
  <2>1. fifoMr'[c] = dev
    BY <1>3 DEF NetInv, NetShape
  <2>2. FifoInv(c)
    BY <1>1 DEF ConnInv
  <2> QED
    BY <1>3, <1>4, <1>6, <2>1, <2>2 DEF FifoInv, Over
<1>12. "send" \in Stages("send") /\ "send" # Reading("send")
  BY DEF Stages, Reading
<1> HIDE DEF L
<1> QED
  BY <1>1, <1>2, <1>8, <1>9, <1>10, <1>11, <1>12, GotoKeeps

LEMMA ConnectRefusedKeeps ==
  ASSUME IInv, NetInv, NEW c \in Conns, ConnectRefused(c)
  PROVE  NetInv'
<1> DEFINE dev == ChanDev(c)
<1>1. /\ "send" \in Sides /\ Other("send") = "recv" /\ ConnInv(c)
      /\ stage["send"][c].state = "connect" /\ Goto("send", c, "refused", <<>>)
  BY DEF NetInv, Sides, Other, ConnectRefused
<1>2. PICK k \in Nics, state \in {"made", "init"} :
        /\ MakeLinks("send", c, RefusedAt(k, state, FreshLinks))
        /\ fifoMr' = [fifoMr EXCEPT ![c] = IF dev < k THEN dev ELSE -1]
  BY DEF ConnectRefused, ChanDev
<1> DEFINE L == RefusedAt(k, state, FreshLinks)
<1>3. /\ sock' = [sock EXCEPT !["send"][c] = Append(sock["send"][c], Magic)]
      /\ link' = [link EXCEPT !["send"][c] = L]
      /\ UNCHANGED <<counter, chan, remFifo, control>>
  BY <1>2 DEF ConnectRefused, MakeLinks
<1>4. stage'["send"][c].state = "refused" /\ stage'["recv"][c] = stage["recv"][c]
  BY <1>1, GotoPlace DEF Other
<1>5. dev \in Nics
  BY <1>1, DevType DEF IInv, StageInv, StageOf
<1>6. ChanDev(c)' = dev /\ RecvDev(c)' = RecvDev(c)
  BY <1>3, DevKept
<1>7. sock'["send"][c] = Append(sock["send"][c], Magic) /\ SockAt(c)
      /\ sock'["recv"][c] = sock["recv"][c]
  <2> DEFINE q == Append(sock["send"][c], Magic)
  <2>1. sock' = [sock EXCEPT !["send"][c] = q]
    BY <1>3
  <2> HIDE DEF q
  <2>2. sock'["send"][c] = q /\ SockAt(c) /\ sock'["recv"][c] = sock["recv"][c]
    BY <2>1, SockPut DEF Sides, Other
  <2> QED
    BY <2>2 DEF q
<1>8. Touches("send", c)
  <2>1. FifoMrAt(c)
    <3>1. (IF dev < k THEN dev ELSE -1) \in Nics \cup {-1}
      BY <1>5
    <3> QED
      BY <1>2, <3>1 DEF FifoMrAt
  <2> QED
    BY <1>3, <1>7, <2>1 DEF Touches, LinkAt
<1>9. Writes("send", c) /\ Reads("send", c)
  <2>1. Written("send", c) = 0 /\ Written("send", c)' = 1
    BY <1>1, <1>4 DEF Written, Early, Prefix
  <2>2. Taken("send", c)' = Taken("send", c)
    BY <1>1, <1>4 DEF Taken, Before
  <2>3. Magic = Msg("send", c, dev, 0 + 1)
    BY DEF Msg, Prefix
  <2> QED
    BY <1>1, <1>7, <2>1, <2>2, <2>3 DEF Writes, Reads
<1>10. PeerInv("send", c)'
  <2>1. link'["send"][c] = L
    BY <1>1, <1>3 DEF IInv, ShapeOK, LinkShape
  <2>2. \A n \in Nics : L[n].state \in LinkStates
    BY DEF RefusedAt, FreshLinks, NewLink, LinkStates
  <2> HIDE DEF L
  <2> QED
    BY <1>4, <2>1, <2>2 DEF PeerInv, Joined
<1>11. FifoInv(c)'
  BY <1>1, <1>3, <1>4, <1>6 DEF ConnInv, FifoInv, Late, Over
<1>12. "refused" \in Stages("send") /\ "refused" # Reading("send") /\ "refused" # "send"
  BY DEF Stages, Reading
<1> HIDE DEF L
<1> QED
  BY <1>1, <1>8, <1>9, <1>10, <1>11, <1>12, GotoKeeps

\* A side that has its links owns the row of its channel.
LEMMA RowIsOwn ==
  ASSUME IInv, NEW s \in Sides, NEW c \in Conns, stage[s][c].state \in Late
  PROVE  \A n \in Nics : Row(s, c, n) = c
BY DEF IInv, StageInv, StageOf

\* A side of c joins its links, or some of them, to what it read.
LEMMA LinkPut ==
  ASSUME IInv, NEW s \in Sides, NEW c \in Conns, NEW L, link' = [link EXCEPT ![s][c] = L]
  PROVE  link'[s][c] = L /\ LinkAt(s, c)
<1>1. link = [t \in Sides |-> [d \in Conns |-> link[t][d]]]
  BY DEF IInv, ShapeOK, LinkShape
<1>2. LinkAt(s, c)
  BY DEF LinkAt
<1> QED
  BY <1>1, <1>2

LEMMA ConnectUpKeeps ==
  ASSUME IInv, NetInv, NEW c \in Conns, ConnectUp(c)
  PROVE  NetInv'
<1> DEFINE dev == ChanDev(c)
           L == Up(Incoming("send", c))
<1>1. /\ "send" \in Sides /\ Other("send") = "recv" /\ ConnInv(c)
      /\ stage["send"][c].state = "connecting" /\ LastPiece("send", c, Reading("send"))
      /\ sock["recv"][c] # <<>> /\ stage["send"][c].offset + 1 = Pieces
  BY DEF NetInv, Sides, Other, ConnectUp, LastPiece, Reading
<1>2. \A n \in Nics : Row("send", c, n) = c
  BY <1>1, RowIsOwn DEF Late
<1>3. Incoming("send", c) = InfoOf("recv", c, dev)
  BY <1>1, IncomingIs
<1>4. /\ Goto("send", c, "connected", <<>>)
      /\ sock' = [sock EXCEPT !["recv"][c] = Tail(sock["recv"][c])]
      /\ PutRow("send", c, L)
      /\ UNCHANGED <<counter, chan, table, pdRefs, fifoMr, remFifo, control>>
  BY <1>1, <1>2 DEF ConnectUp, LastPiece
<1>5. stage'["send"][c].state = "connected" /\ stage'["send"][c].offset = 0
      /\ stage'["recv"][c] = stage["recv"][c]
  BY <1>1, <1>4, GotoPlace
<1>6. /\ sock'["recv"][c] = Tail(sock["recv"][c]) /\ SockAt(c)
      /\ sock'["send"][c] = sock["send"][c]
  BY <1>4, SockPut DEF Sides, Other
<1>7. link'["send"][c] = L /\ Touches("send", c) /\ ChanDev(c)' = dev
      /\ RecvDev(c)' = RecvDev(c)
  <2>0. L = [n \in Nics |-> L[n]]
    BY DEF Up
  <2> HIDE DEF L
  <2>1. link' = [link EXCEPT !["send"][c] = [n \in Nics |-> L[n]]]
    BY <1>1, <1>2, <1>4, OwnRow DEF IInv, ShapeOK
  <2>2. link' = [link EXCEPT !["send"][c] = L]
    BY <2>0, <2>1
  <2> QED
    BY <1>1, <1>4, <1>6, <2>2, LinkPut, DevKept DEF Touches
<1>8. Writes("send", c) /\ Reads("send", c)
  <2>1. Written("send", c)' = Written("send", c)
    BY <1>1, <1>5 DEF Written, Early, Over
  <2>2. Taken("send", c)' = Prefix("recv") + Pieces
    BY <1>1, <1>5 DEF Taken, Before, Reading, Over
  <2>3. Taken("send", c) + 1 = Prefix("recv") + Pieces
    BY <1>1, IncomingIs
  <2> QED
    BY <1>1, <1>6, <2>1, <2>2, <2>3 DEF Writes, Reads
<1>9. PeerInv("send", c)'
  <2>1. \A n \in Nics : L[n].state = "rts" /\ L[n].peer = <<"recv", c, n>>
    BY <1>3 DEF Up, InfoOf
  <2> HIDE DEF L
  <2>2. \A n \in Nics : /\ link'["send"][c][n].state = "rts"
                        /\ link'["send"][c][n].peer = <<"recv", c, n>>
    BY <1>7, <2>1
  <2> QED
    BY <2>2 DEF PeerInv, Other, LinkStates
<1>10. FifoInv(c)'
  BY <1>1, <1>4, <1>5, <1>7 DEF ConnInv, FifoInv, Over, Late
<1>11. "connected" \in Stages("send") /\ "connected" # Reading("send")
  BY DEF Stages, Reading
<1> HIDE DEF L
<1> QED
  BY <1>1, <1>4, <1>7, <1>8, <1>9, <1>10, <1>11, GotoKeeps

LEMMA ConnectFailsKeeps ==
  ASSUME IInv, NetInv, NEW c \in Conns, ConnectFails(c)
  PROVE  NetInv'
<1> DEFINE dev == ChanDev(c)
           old == link["send"][c]
           up == Up(Incoming("send", c))
<1>1. /\ "send" \in Sides /\ Other("send") = "recv" /\ ConnInv(c)
      /\ stage["send"][c].state = "connecting" /\ LastPiece("send", c, Reading("send"))
      /\ sock["recv"][c] # <<>> /\ stage["send"][c].offset + 1 = Pieces
  BY DEF NetInv, Sides, Other, ConnectFails, LastPiece, Reading
<1>2. \A n \in Nics : Row("send", c, n) = c
  BY <1>1, RowIsOwn DEF Late
<1>3. PICK k \in Nics : PutRow("send", c, [n \in Nics |->
        IF n < k THEN Up(Incoming("send", c))[n] ELSE RowLink("send", c, n)])
  BY Zenon DEF ConnectFails
<1> DEFINE L == [n \in Nics |-> IF n < k THEN up[n] ELSE old[n]]
           R == [n \in Nics |-> IF n < k THEN up[n] ELSE RowLink("send", c, n)]
<1>4. /\ Goto("send", c, "failed", <<>>)
      /\ sock' = [sock EXCEPT !["recv"][c] = Tail(sock["recv"][c])]
      /\ UNCHANGED <<counter, chan, table, pdRefs, fifoMr, remFifo, control>>
  BY <1>1 DEF ConnectFails, LastPiece
<1>5. stage'["send"][c].state = "failed" /\ stage'["send"][c].offset = 0
      /\ stage'["recv"][c] = stage["recv"][c]
  BY <1>1, <1>4, GotoPlace
<1>6. /\ sock'["recv"][c] = Tail(sock["recv"][c]) /\ SockAt(c)
      /\ sock'["send"][c] = sock["send"][c]
  BY <1>4, SockPut DEF Sides, Other
<1>7. link'["send"][c] = L /\ Touches("send", c) /\ ChanDev(c)' = dev /\ RecvDev(c)' = RecvDev(c)
  <2>1. link' = [link EXCEPT !["send"][c] = L]
    <3>1. R = L
      BY <1>2 DEF RowLink
    <3>2. PutRow("send", c, R)
      BY <1>3
    <3> HIDE DEF R, L
    <3>3. link' = [link EXCEPT !["send"][c] = [n \in Nics |-> L[n]]]
      BY <1>1, <1>2, <3>1, <3>2, OwnRow DEF IInv, ShapeOK
    <3> USE DEF L
    <3> QED
      BY <3>3
  <2> HIDE DEF L
  <2> QED
    BY <1>1, <1>4, <1>6, <2>1, LinkPut, DevKept DEF Touches
<1>8. Writes("send", c) /\ Reads("send", c)
  <2>1. Written("send", c)' = Written("send", c)
    BY <1>1, <1>5 DEF Written, Early, Over
  <2>2. Taken("send", c)' = Prefix("recv") + Pieces
    BY <1>1, <1>5 DEF Taken, Before, Reading, Over
  <2>3. Taken("send", c) + 1 = Prefix("recv") + Pieces
    BY <1>1, IncomingIs
  <2> QED
    BY <1>1, <1>6, <2>1, <2>2, <2>3 DEF Writes, Reads
<1>9. PeerInv("send", c)'
  <2>1. \A n \in Nics : up[n].state = "rts"
    BY DEF Up
  <2>2. \A n \in Nics : old[n].state \in LinkStates
    BY <1>1 DEF ConnInv, PeerInv
  <2> HIDE DEF up, old
  <2>3. \A n \in Nics : L[n].state \in LinkStates
    BY <2>1, <2>2 DEF LinkStates
  <2> HIDE DEF L
  <2> QED
    BY <1>5, <1>7, <2>3 DEF PeerInv, Joined
<1>10. FifoInv(c)'
  BY <1>1, <1>4, <1>5, <1>7 DEF ConnInv, FifoInv, Over, Late
<1>11. "failed" \in Stages("send") /\ "failed" # Reading("send")
  BY DEF Stages, Reading
<1> HIDE DEF L
<1> QED
  BY <1>1, <1>4, <1>7, <1>8, <1>9, <1>10, <1>11, GotoKeeps

LEMMA ConnectReadyKeeps ==
  ASSUME IInv, NetInv, NEW c \in Conns, ConnectReady(c)
  PROVE  NetInv'
<1> DEFINE dev == ChanDev(c)
<1>1. /\ "send" \in Sides /\ Other("send") = "recv" /\ ConnInv(c)
      /\ stage["send"][c].state = "connected"
  BY DEF NetInv, Sides, Other, ConnectReady
<1>2. \A n \in Nics : Row("send", c, n) = c
  BY <1>1, RowIsOwn DEF Late
<1>3. /\ Goto("send", c, "done", <<>>)
      /\ sock' = [sock EXCEPT !["send"][c] = Append(sock["send"][c], Ready)]
      /\ control' = [control EXCEPT !["send"][c] = <<"send", c, dev>>]
      /\ UNCHANGED <<counter, chan, table, link, pdRefs, fifoMr, remFifo>>
  <2>1. dev \in Nics
    BY <1>1, DevType DEF IInv, StageInv, StageOf
  <2> QED
    BY <1>2, <2>1 DEF ConnectReady, ChanDev
<1>4. stage'["send"][c].state = "done" /\ stage'["send"][c].offset = 0
      /\ stage'["recv"][c] = stage["recv"][c]
  BY <1>1, <1>3, GotoPlace
<1>5. /\ sock'["send"][c] = Append(sock["send"][c], Ready) /\ SockAt(c)
      /\ sock'["recv"][c] = sock["recv"][c]
  <2> DEFINE q == Append(sock["send"][c], Ready)
  <2>1. sock' = [sock EXCEPT !["send"][c] = q]
    BY <1>3
  <2> HIDE DEF q
  <2>2. sock'["send"][c] = q /\ SockAt(c) /\ sock'["recv"][c] = sock["recv"][c]
    BY <2>1, SockPut DEF Sides, Other
  <2> QED
    BY <2>2 DEF q
<1>6. Touches("send", c) /\ ChanDev(c)' = dev /\ RecvDev(c)' = RecvDev(c)
  BY <1>3, <1>5, DevKept DEF Touches, ControlAt
<1>7. Writes("send", c) /\ Reads("send", c)
  <2>0. Pieces \in Nat
    BY ConstantsOK
  <2>1. Written("send", c) = 1 + Pieces /\ Written("send", c)' = 2 + Pieces
    BY <1>1, <1>4 DEF Written, Early, Over, Prefix
  <2>2. Taken("send", c)' = Taken("send", c)
    BY <1>1, <1>4 DEF Taken, Before, Reading
  <2>3. Ready = Msg("send", c, dev, Written("send", c) + 1)
    BY <2>0, <2>1 DEF Msg, Prefix
  <2>4. Written("send", c)' = Written("send", c) + 1
    BY <2>0, <2>1
  <2> QED
    BY <1>1, <1>5, <2>2, <2>3, <2>4 DEF Writes, Reads
<1>8. PeerInv("send", c)'
  BY <1>1, <1>3, <1>4 DEF ConnInv, PeerInv, Joined
<1>9. FifoInv(c)'
  <2>1. control'["send"][c] = <<"send", c, dev>> /\ control'["recv"][c] = control["recv"][c]
    <3>1. control = [t \in Sides |-> [d \in Conns |-> control[t][d]]]
      BY DEF NetInv, NetShape
    <3> QED
      BY <1>3, <3>1 DEF Sides
  <2> QED
    BY <1>1, <1>3, <1>4, <1>6, <2>1 DEF ConnInv, FifoInv, Over, Late
<1>10. "done" \in Stages("send") /\ "done" # Reading("send")
  BY DEF Stages, Reading
<1> QED
  BY <1>1, <1>3, <1>6, <1>7, <1>8, <1>9, <1>10, GotoKeeps

-----------------------------------------------------------------------------
(***************************************************************************)
(* The steps of ncclIbAccept.                                              *)
(***************************************************************************)
LEMMA AcceptStartKeeps ==
  ASSUME IInv, NetInv, NEW c \in Conns, AcceptStart(c)
  PROVE  NetInv'
<1>1. /\ "recv" \in Sides /\ ConnInv(c) /\ stage["recv"][c].state = "start"
      /\ Goto("recv", c, "accept", <<>>)
      /\ UNCHANGED <<counter, chan, sock, table, link, pdRefs, fifoMr, remFifo, control>>
  BY DEF NetInv, Sides, AcceptStart
<1>2. stage'["recv"][c].state = "accept" /\ stage'["send"][c] = stage["send"][c]
  BY <1>1, GotoPlace DEF Other
<1>3. Touches("recv", c) /\ ChanDev(c)' = ChanDev(c) /\ RecvDev(c)' = RecvDev(c)
  BY <1>1, DevKept DEF Touches
<1>4. Writes("recv", c) /\ Reads("recv", c)
  <2>1. Written("recv", c)' = Written("recv", c) /\ Taken("recv", c)' = Taken("recv", c)
    BY <1>1, <1>2 DEF Written, Taken, Early, Before
  <2> QED
    BY <1>1, <2>1 DEF Writes, Reads
<1>5. PeerInv("recv", c)'
  BY <1>1, <1>2 DEF ConnInv, PeerInv, Joined
<1>6. FifoInv(c)'
  BY <1>1, <1>2, <1>3 DEF ConnInv, FifoInv, Joined
<1>7. "accept" \in Stages("recv") /\ "accept" # Reading("recv")
  BY DEF Stages, Reading
<1> QED
  BY <1>1, <1>3, <1>4, <1>5, <1>6, <1>7, GotoKeeps

LEMMA AcceptCheckKeeps ==
  ASSUME IInv, NetInv, NEW c \in Conns, AcceptCheck(c)
  PROVE  NetInv'
<1>1. /\ "recv" \in Sides /\ Other("recv") = "send" /\ ConnInv(c)
      /\ stage["recv"][c].state = "accept" /\ sock["send"][c] # <<>>
      /\ Goto("recv", c, "recv", <<>>)
      /\ sock' = [sock EXCEPT !["send"][c] = Tail(sock["send"][c])]
      /\ UNCHANGED <<counter, chan, table, link, pdRefs, fifoMr, remFifo, control>>
  BY DEF NetInv, Sides, Other, AcceptCheck
<1>2. stage'["recv"][c].state = "recv" /\ stage'["recv"][c].offset = 0
      /\ stage'["send"][c] = stage["send"][c]
  BY <1>1, GotoPlace
<1>3. /\ sock'["send"][c] = Tail(sock["send"][c]) /\ SockAt(c)
      /\ sock'["recv"][c] = sock["recv"][c]
  BY <1>1, SockPut DEF Sides, Other
<1>4. Touches("recv", c) /\ ChanDev(c)' = ChanDev(c) /\ RecvDev(c)' = RecvDev(c)
  BY <1>1, <1>3, DevKept DEF Touches
<1>5. Taken("recv", c)' = 1 /\ Taken("recv", c) = 0
  BY <1>1, <1>2 DEF Taken, Before, Reading, Prefix
<1>6. Writes("recv", c) /\ Reads("recv", c)
  <2>1. Written("recv", c)' = Written("recv", c)
    BY <1>1, <1>2 DEF Written, Early
  <2> QED
    BY <1>1, <1>3, <1>5, <2>1 DEF Writes, Reads
<1>7. PeerInv("recv", c)'
  BY <1>1, <1>2 DEF ConnInv, PeerInv, Joined
<1>8. FifoInv(c)'
  BY <1>1, <1>2, <1>4 DEF ConnInv, FifoInv, Joined
<1>9. "recv" \in Stages("recv") /\ "recv" # "send"
  BY DEF Stages
<1>10. <<>> = Run("send", c, ChanDev(c), Prefix("send"), Taken("recv", c)')
  BY <1>5, RunEmpty DEF Prefix
<1> QED
  BY <1>1, <1>4, <1>6, <1>7, <1>8, <1>9, <1>10, GotoKeeps

\* Where the receiver finds the FIFO, in what its peer told of its links.
LEMMA FifoTaken ==
  ASSUME IInv, NetInv, NEW c \in Conns, chan[c] # NoChan, TakeFifo(c),
         Incoming("recv", c) = InfoOf("send", c, ChanDev(c))
  PROVE  /\ control'["recv"][c] = <<"recv", c, RecvDev(c)>>
         /\ control'["send"][c] = control["send"][c]
         /\ remFifo'[c] = IF RecvDev(c) = ChanDev(c) THEN <<"fifo", c, ChanDev(c)>> ELSE NoLink
<1>1. RecvDev(c) \in Nics
  BY DevType
<1>2. InfoOf("send", c, ChanDev(c))[RecvDev(c)].fifo
        = IF RecvDev(c) = ChanDev(c) THEN <<"fifo", c, ChanDev(c)>> ELSE NoLink
  BY <1>1 DEF InfoOf
<1>3. /\ control' = [control EXCEPT !["recv"][c] = <<"recv", c, RecvDev(c)>>]
      /\ remFifo' = [remFifo EXCEPT ![c] = InfoOf("send", c, ChanDev(c))[RecvDev(c)].fifo]
  BY DEF TakeFifo, RecvDev
<1>4. /\ control = [t \in Sides |-> [d \in Conns |-> control[t][d]]]
      /\ remFifo = [d \in Conns |-> remFifo[d]]
  BY DEF NetInv, NetShape
<1> QED
  BY <1>2, <1>3, <1>4 DEF Sides

LEMMA AcceptLinksKeeps ==
  ASSUME IInv, NetInv, NEW c \in Conns, AcceptLinks(c)
  PROVE  NetInv'
<1> DEFINE dev == ChanDev(c)
           L == Up(Incoming("recv", c))
<1>1. /\ "recv" \in Sides /\ Other("recv") = "send" /\ ConnInv(c)
      /\ stage["recv"][c].state = "recv" /\ LastPiece("recv", c, Reading("recv"))
      /\ sock["send"][c] # <<>> /\ stage["recv"][c].offset + 1 = Pieces
      /\ Goto("recv", c, "send", AcceptInfo(c))
  BY DEF NetInv, Sides, Other, AcceptLinks, LastPiece, Reading
<1>2. Incoming("recv", c) = InfoOf("send", c, dev)
  BY <1>1, IncomingIs
<1>4. AcceptInfo(c) = InfoOf("recv", c, dev)
  BY DEF AcceptInfo, InfoOf
<1>6. /\ sock' = [sock EXCEPT !["send"][c] = Tail(sock["send"][c])]
      /\ link' = [link EXCEPT !["recv"][c] = L]
      /\ UNCHANGED <<counter, chan, fifoMr>>
  BY <1>1 DEF AcceptLinks, LastPiece, MakeLinks
<1>7. stage'["recv"][c].state = "send" /\ stage'["recv"][c].offset = 0
      /\ stage'["send"][c] = stage["send"][c]
  BY <1>1, GotoPlace
<1>8. /\ sock'["send"][c] = Tail(sock["send"][c]) /\ SockAt(c)
      /\ sock'["recv"][c] = sock["recv"][c]
  BY <1>6, SockPut DEF Sides, Other
<1>9. link'["recv"][c] = L /\ LinkAt("recv", c)
  <2> HIDE DEF L
  <2> QED
    BY <1>1, <1>6, LinkPut
<1>10. Touches("recv", c) /\ ChanDev(c)' = dev /\ RecvDev(c)' = RecvDev(c)
  <2>1. ControlAt("recv", c) /\ RemFifoAt(c)
    BY DEF AcceptLinks, TakeFifo, ControlAt, RemFifoAt
  <2> QED
    BY <1>6, <1>8, <1>9, <2>1, DevKept DEF Touches
<1>11. Writes("recv", c) /\ Reads("recv", c)
  <2>1. Written("recv", c) = 0 /\ Written("recv", c)' = 0
    BY <1>1, <1>7 DEF Written, Early, Prefix
  <2>2. Taken("recv", c)' = Prefix("send") + Pieces
    BY <1>1, <1>7 DEF Taken, Before, Reading, Over
  <2>3. Taken("recv", c) + 1 = Prefix("send") + Pieces
    BY <1>1, IncomingIs
  <2> QED
    BY <1>1, <1>8, <2>1, <2>2, <2>3 DEF Writes, Reads
<1>12. PeerInv("recv", c)'
  <2>1. \A n \in Nics : L[n].state = "rts" /\ L[n].peer = <<"send", c, n>>
    BY <1>2 DEF Up, InfoOf
  <2> HIDE DEF L
  <2>2. \A n \in Nics : /\ link'["recv"][c][n].state = "rts"
                        /\ link'["recv"][c][n].peer = <<"send", c, n>>
    BY <1>9, <2>1
  <2> QED
    BY <2>2 DEF PeerInv, Other, LinkStates
<1>13. FifoInv(c)'
  <2>1. /\ control'["recv"][c] = <<"recv", c, RecvDev(c)>>
        /\ control'["send"][c] = control["send"][c]
        /\ remFifo'[c] = IF RecvDev(c) = dev THEN <<"fifo", c, dev>> ELSE NoLink
    <3>1. TakeFifo(c) /\ chan[c] # NoChan
      BY <1>1 DEF AcceptLinks, IInv, StageInv, StageOf
    <3> QED
      BY <1>2, <3>1, FifoTaken
  <2> QED
    BY <1>1, <1>6, <1>7, <1>10, <2>1 DEF ConnInv, FifoInv
<1>14. "send" \in Stages("recv") /\ "send" # Reading("recv")
  BY DEF Stages, Reading
<1> HIDE DEF L
<1> QED
  BY <1>1, <1>4, <1>10, <1>11, <1>12, <1>13, <1>14, GotoKeeps

LEMMA AcceptRefusedKeeps ==
  ASSUME IInv, NetInv, NEW c \in Conns, AcceptRefused(c)
  PROVE  NetInv'
<1> DEFINE up == Up(Incoming("recv", c))
<1>1. /\ "recv" \in Sides /\ Other("recv") = "send" /\ ConnInv(c)
      /\ stage["recv"][c].state = "recv" /\ LastPiece("recv", c, Reading("recv"))
      /\ sock["send"][c] # <<>> /\ stage["recv"][c].offset + 1 = Pieces
      /\ Goto("recv", c, "refused", <<>>)
  BY DEF NetInv, Sides, Other, AcceptRefused, LastPiece, Reading
<1>2. /\ sock' = [sock EXCEPT !["send"][c] = Tail(sock["send"][c])]
      /\ UNCHANGED <<counter, chan, fifoMr>>
      /\ \/ control' = control /\ remFifo' = remFifo
         \/ TakeFifo(c)
  BY <1>1 DEF AcceptRefused, LastPiece
<1>3. \A n \in Nics : up[n].state = "rts"
  BY DEF Up
<1> HIDE DEF up
<1>4. PICK L : /\ link' = [link EXCEPT !["recv"][c] = L]
               /\ \A n \in Nics : L[n].state \in LinkStates
  <2>1. CASE MakeLinks("recv", c, up)
    BY <1>3, <2>1 DEF MakeLinks, LinkStates
  <2>2. CASE \E k \in Nics, state \in {"none", "made", "init"} :
               MakeLinks("recv", c, RefusedAt(k, state, up))
    <3>1. PICK k \in Nics, state \in {"none", "made", "init"} :
            MakeLinks("recv", c, RefusedAt(k, state, up))
      BY <2>2
    <3>2. \A n \in Nics : RefusedAt(k, state, up)[n].state \in LinkStates
      BY <1>3 DEF RefusedAt, NewLink, LinkStates
    <3> QED
      BY <3>1, <3>2 DEF MakeLinks
  <2> QED
    BY <2>1, <2>2 DEF AcceptRefused, up
<1>5. stage'["recv"][c].state = "refused" /\ stage'["send"][c] = stage["send"][c]
  BY <1>1, GotoPlace
<1>6. /\ sock'["send"][c] = Tail(sock["send"][c]) /\ SockAt(c)
      /\ sock'["recv"][c] = sock["recv"][c]
  BY <1>2, SockPut DEF Sides, Other
<1>7. link'["recv"][c] = L /\ LinkAt("recv", c)
  BY <1>1, <1>4, LinkPut
<1>8. Touches("recv", c) /\ ChanDev(c)' = ChanDev(c)
  <2>1. /\ control' = control \/ ControlAt("recv", c)
        /\ remFifo' = remFifo \/ RemFifoAt(c)
    BY <1>2 DEF TakeFifo, ControlAt, RemFifoAt
  <2> QED
    BY <1>2, <1>6, <1>7, <2>1, DevKept DEF Touches
<1>9. Writes("recv", c) /\ Reads("recv", c)
  <2>1. Written("recv", c) = 0 /\ Written("recv", c)' = 0
    BY <1>1, <1>5 DEF Written, Early, Prefix
  <2>2. Taken("recv", c)' = Prefix("send") + Pieces
    BY <1>1, <1>5 DEF Taken, Before, Reading, Over
  <2>3. Taken("recv", c) + 1 = Prefix("send") + Pieces
    BY <1>1, IncomingIs
  <2> QED
    BY <1>1, <1>6, <2>1, <2>2, <2>3 DEF Writes, Reads
<1>10. PeerInv("recv", c)'
  BY <1>4, <1>5, <1>7 DEF PeerInv, Joined
<1>11. FifoInv(c)'
  <2>1. control'["send"][c] = control["send"][c]
    <3>1. control = [t \in Sides |-> [d \in Conns |-> control[t][d]]]
      BY DEF NetInv, NetShape
    <3> QED
      BY <1>2, <3>1 DEF TakeFifo, Sides
  <2> QED
    BY <1>1, <1>2, <1>5, <1>8, <2>1 DEF ConnInv, FifoInv, Joined
<1>12. "refused" \in Stages("recv") /\ "refused" # Reading("recv") /\ "refused" # "send"
  BY DEF Stages, Reading
<1> QED
  BY <1>1, <1>8, <1>9, <1>10, <1>11, <1>12, GotoKeeps

LEMMA AcceptReadyKeeps ==
  ASSUME IInv, NetInv, NEW c \in Conns, AcceptReady(c)
  PROVE  NetInv'
<1>1. /\ "recv" \in Sides /\ Other("recv") = "send" /\ ConnInv(c)
      /\ stage["recv"][c].state = "pending" /\ sock["send"][c] # <<>>
      /\ Goto("recv", c, "done", <<>>)
      /\ sock' = [sock EXCEPT !["send"][c] = Tail(sock["send"][c])]
      /\ UNCHANGED <<counter, chan, table, link, pdRefs, fifoMr, remFifo, control>>
  BY DEF NetInv, Sides, Other, AcceptReady
<1>2. stage'["recv"][c].state = "done" /\ stage'["recv"][c].offset = 0
      /\ stage'["send"][c] = stage["send"][c]
  BY <1>1, GotoPlace
<1>3. /\ sock'["send"][c] = Tail(sock["send"][c]) /\ SockAt(c)
      /\ sock'["recv"][c] = sock["recv"][c]
  BY <1>1, SockPut DEF Sides, Other
<1>4. Touches("recv", c) /\ ChanDev(c)' = ChanDev(c) /\ RecvDev(c)' = RecvDev(c)
  BY <1>1, <1>3, DevKept DEF Touches
<1>5. Writes("recv", c) /\ Reads("recv", c)
  <2>0. Pieces \in Nat
    BY ConstantsOK
  <2>1. Written("recv", c)' = Written("recv", c)
    BY <1>1, <1>2 DEF Written, Early, Over
  <2>2. Taken("recv", c) = 1 + Pieces /\ Taken("recv", c)' = 2 + Pieces
    BY <1>1, <1>2 DEF Taken, Before, Reading, Over, Prefix, Other
  <2>3. Taken("recv", c)' = Taken("recv", c) + 1
    BY <2>0, <2>2
  <2> QED
    BY <1>1, <1>3, <2>1, <2>3 DEF Writes, Reads
<1>6. PeerInv("recv", c)'
  BY <1>1, <1>2 DEF ConnInv, PeerInv, Joined
<1>7. FifoInv(c)'
  BY <1>1, <1>2, <1>4 DEF ConnInv, FifoInv, Joined
<1>8. "done" \in Stages("recv") /\ "done" # Reading("recv")
  BY DEF Stages, Reading
<1> QED
  BY <1>1, <1>4, <1>5, <1>6, <1>7, <1>8, GotoKeeps

-----------------------------------------------------------------------------
(***************************************************************************)
(* ncclIbCloseSend, ncclIbCloseRecv and ncclIbListen.                      *)
(***************************************************************************)
LEMMA ClosesNet ==
  ASSUME IInv, NetInv, NEW s \in Sides, NEW c \in Conns, stage[s][c].state = "done",
         DestroyLinks(s, c), Goto(s, c, "closed", <<>>),
         fifoMr' = fifoMr \/ (s = "send" /\ fifoMr' = [fifoMr EXCEPT ![c] = -1]),
         UNCHANGED <<chan, sock, table, remFifo, control>>
  PROVE  NetInv'
<1> DEFINE old == link[s][c]
           L == [n \in Nics |-> [old[n] EXCEPT !.state = "gone"]]
<1>1. ConnInv(c) /\ Other(s) \in Sides /\ \A n \in Nics : Row(s, c, n) = c
  BY OtherSide, RowIsOwn DEF NetInv, Late
<1>2. stage'[s][c].state = "closed" /\ stage'[Other(s)][c] = stage[Other(s)][c]
  BY GotoPlace
<1>3. link' = [link EXCEPT ![s][c] = L]
  <2> DEFINE R == [n \in Nics |-> [RowLink(s, c, n) EXCEPT !.state = "gone"]]
  <2>1. R = L
    BY <1>1 DEF RowLink
  <2>2. PutRow(s, c, R)
    BY DEF DestroyLinks
  <2> HIDE DEF R, L
  <2>3. link' = [link EXCEPT ![s][c] = [n \in Nics |-> L[n]]]
    BY <1>1, <2>1, <2>2, OwnRow DEF IInv, ShapeOK
  <2> USE DEF L
  <2> QED
    BY <2>3
<1>4. \A n \in Nics : L[n].state = "gone" /\ L[n].peer = old[n].peer
  <2> SUFFICES ASSUME NEW n \in Nics PROVE L[n].state = "gone" /\ L[n].peer = old[n].peer
    OBVIOUS
  <2>1. old[n] = [state |-> old[n].state, peer |-> old[n].peer]
    BY DEF IInv, ShapeOK, LinkShape
  <2> QED
    BY <2>1
<1> HIDE DEF L
<1>5. link'[s][c] = L /\ LinkAt(s, c)
  BY <1>3, LinkPut
<1>6. Touches(s, c) /\ ChanDev(c)' = ChanDev(c) /\ RecvDev(c)' = RecvDev(c)
  <2>1. fifoMr' = fifoMr \/ FifoMrAt(c)
    BY DEF FifoMrAt
  <2> QED
    BY <1>5, <2>1, DevKept DEF Touches
<1>7. Writes(s, c) /\ Reads(s, c)
  <2>1. Written(s, c)' = Written(s, c) /\ Taken(s, c)' = Taken(s, c)
    BY <1>2 DEF Written, Taken, Early, Before, Reading, Over, Sides
  <2> QED
    BY <2>1 DEF Writes, Reads
<1>8. PeerInv(s, c)'
  <2>1. \A n \in Nics : old[n].peer = <<Other(s), c, n>>
    BY <1>1 DEF ConnInv, PeerInv, Joined
  <2> HIDE DEF old
  <2>2. \A n \in Nics : /\ link'[s][c][n].state = "gone"
                        /\ link'[s][c][n].peer = <<Other(s), c, n>>
    BY <1>4, <1>5, <2>1
  <2> QED
    BY <1>2, <2>2 DEF PeerInv, LinkStates
<1>9. FifoInv(c)'
  <2>1. FifoInv(c)
    BY <1>1 DEF ConnInv
  <2>2. CASE s = "send"
    BY <1>2, <1>6, <2>1, <2>2 DEF FifoInv, Other, Late, Over
  <2>3. CASE s = "recv"
    BY <1>2, <1>6, <2>1, <2>3 DEF FifoInv, Other, Joined
  <2> QED
    BY <2>2, <2>3 DEF Sides
<1>10. "closed" \in Stages(s) /\ "closed" # Reading(s)
  BY DEF Stages, Reading, Sides
<1> QED
  BY <1>6, <1>7, <1>8, <1>9, <1>10, GotoKeeps

LEMMA ListenNet ==
  ASSUME IInv, NetInv, NEW c \in Conns, Listen(c)
  PROVE  NetInv'
<1>1. /\ "recv" \in Sides /\ "send" \in Sides /\ ConnInv(c)
      /\ stage["recv"][c].state = "none"
      /\ Goto("recv", c, "start", <<>>)
      /\ UNCHANGED <<sock, table, link, pdRefs, fifoMr, remFifo, control>>
  BY DEF NetInv, Sides, Listen
<1>2. stage["send"][c].state = "none"
  BY <1>1 DEF IInv, ListenInv, StageInv, StageOf
<1>3. \A d \in Conns \ {c} : chan'[d] = chan[d]
  BY DEF Listen, IInv, ShapeOK
<1>4. Sets("recv", c, "start", 0, <<>>)
  BY <1>1, GotoSets DEF IInv, ShapeOK
<1>5. \A d \in Conns \ {c} : ConnInv(d)'
  <2>1. \A d \in Conns \ {c} : Same(d)
    BY <1>1, <1>3, <1>4 DEF Same, Sets
  <2> QED
    BY <2>1, SameKeeps DEF NetInv
<1>6. /\ stage'["recv"][c].state = "start" /\ stage'["recv"][c].offset = 0
      /\ stage'["send"][c] = stage["send"][c]
  BY <1>1, GotoPlace DEF Other
<1>7. \A s \in Sides : /\ Written(s, c) = 0 /\ Taken(s, c) = 0
                       /\ Written(s, c)' = 0 /\ Taken(s, c)' = 0
  BY <1>1, <1>2, <1>6 DEF Written, Taken, Early, Before, Sides
<1>8. ASSUME NEW s \in Sides
      PROVE  PlaceInv(s, c)' /\ QueueInv(s, c)' /\ BufferInv(s, c)' /\ PeerInv(s, c)'
  <2>1. Other(s) \in Sides
    BY OtherSide
  <2>2. PlaceInv(s, c) /\ QueueInv(s, c) /\ PeerInv(s, c)
    BY <1>1 DEF ConnInv
  <2>3. PlaceInv(s, c)'
    BY <1>1, <1>6, <2>2, ConstantsOK DEF PlaceInv, Stages, Sides
  <2>4. QueueInv(s, c)'
    <3>1. sock[s][c] = <<>>
      <4>1. sock[s][c] = Run(s, c, ChanDev(c), 0, 0)
        BY <1>7, <2>1, <2>2 DEF QueueInv
      <4> QED
        BY <4>1, RunEmpty
    <3>2. Run(s, c, ChanDev(c)', 0, 0) = <<>>
      BY RunEmpty
    <3> QED
      BY <1>1, <1>7, <2>1, <3>1, <3>2 DEF QueueInv
  <2>5. BufferInv(s, c)'
    BY <1>2, <1>6 DEF BufferInv, Reading, Sides
  <2>6. PeerInv(s, c)'
    BY <1>1, <1>2, <1>6, <2>2 DEF PeerInv, Joined, Sides
  <2> QED
    BY <2>3, <2>4, <2>5, <2>6
<1>9. FifoInv(c)'
  BY <1>2, <1>6 DEF FifoInv, Late, Over, Joined
<1>10. NetShape'
  BY <1>1 DEF NetInv, NetShape
<1> QED
  BY <1>5, <1>8, <1>9, <1>10 DEF NetInv, ConnInv

-----------------------------------------------------------------------------
(***************************************************************************)
(* The second part of the invariant, and what follows from both.           *)
(***************************************************************************)
LEMMA InitNet == ASSUME Init PROVE NetInv
<1>1. NetShape
  BY DEF Init, NetShape
<1>2. ASSUME NEW c \in Conns, NEW s \in Sides
      PROVE  PlaceInv(s, c) /\ QueueInv(s, c) /\ BufferInv(s, c) /\ PeerInv(s, c)
  <2>0. \A t \in Sides : stage[t][c].state = "none" /\ stage[t][c].offset = 0
    BY DEF Init, Begin
  <2>1. Other(s) \in Sides
    BY OtherSide
  <2>2. PlaceInv(s, c)
    BY <2>0, ConstantsOK DEF PlaceInv, Stages
  <2>3. QueueInv(s, c)
    <3>1. Written(s, c) = 0 /\ Taken(Other(s), c) = 0
      BY <2>0, <2>1 DEF Written, Taken, Early, Before
    <3>2. sock[s][c] = <<>>
      BY DEF Init
    <3>3. Run(s, c, ChanDev(c), 0, 0) = <<>>
      BY RunEmpty
    <3> QED
      BY <3>1, <3>2, <3>3 DEF QueueInv
  <2>4. BufferInv(s, c)
    BY <2>0 DEF BufferInv, Reading
  <2>5. PeerInv(s, c)
    <3>1. \A n \in Nics : link[s][c][n].state = "none"
      BY DEF Init, NewLink
    <3> QED
      BY <2>0, <3>1 DEF PeerInv, Joined, LinkStates
  <2> QED
    BY <2>2, <2>3, <2>4, <2>5
<1>3. ASSUME NEW c \in Conns PROVE FifoInv(c)
  <2>1. \A t \in Sides : stage[t][c].state = "none"
    BY DEF Init, Begin
  <2> QED
    BY <2>1 DEF FifoInv, Late, Over, Joined, Sides
<1> QED
  BY <1>1, <1>2, <1>3 DEF NetInv, ConnInv

LEMMA NextNet ==
  ASSUME IInv, NetInv, [Next]_vars
  PROVE  NetInv'
<1>1. CASE UNCHANGED vars
  <2>1. NetShape'
    BY <1>1 DEF vars, NetInv, NetShape
  <2>2. \A d \in Conns : Same(d)
    BY <1>1 DEF vars, Same
  <2> QED
    BY <2>1, <2>2, SameKeeps DEF NetInv
<1>2. ASSUME NEW c \in Conns, ConnectStep(c) PROVE NetInv'
  <2>1. CASE ConnectSend(c)
    BY <2>1, SendPieceKeeps DEF ConnectSend, Sides
  <2>2. CASE ConnectRead(c)
    BY <2>2, ReadPieceKeeps DEF ConnectRead, Reading, Sides
  <2> QED
    BY <1>2, <2>1, <2>2, ConnectStartKeeps, ConnectLinksKeeps, ConnectRefusedKeeps,
       ConnectUpKeeps, ConnectFailsKeeps, ConnectReadyKeeps DEF ConnectStep
<1>3. ASSUME NEW c \in Conns, AcceptStep(c) PROVE NetInv'
  <2>1. CASE AcceptSend(c)
    BY <2>1, SendPieceKeeps DEF AcceptSend, Sides
  <2>2. CASE AcceptRead(c)
    BY <2>2, ReadPieceKeeps DEF AcceptRead, Reading, Sides
  <2> QED
    BY <1>3, <2>1, <2>2, AcceptStartKeeps, AcceptCheckKeeps, AcceptLinksKeeps,
       AcceptRefusedKeeps, AcceptReadyKeeps DEF AcceptStep
<1>4. ASSUME NEW c \in Conns, CloseSend(c) PROVE NetInv'
  BY <1>4, ClosesNet DEF CloseSend, Sides
<1>5. ASSUME NEW c \in Conns, CloseRecv(c) PROVE NetInv'
  <2>1. /\ "recv" \in Sides /\ stage["recv"][c].state = "done"
        /\ DestroyLinks("recv", c) /\ Goto("recv", c, "closed", <<>>)
        /\ UNCHANGED <<chan, sock, table, remFifo, control>>
    BY <1>5 DEF CloseRecv, Sides
  <2>2. fifoMr' = fifoMr
    BY <1>5 DEF CloseRecv
  <2> QED
    BY <2>1, <2>2, ClosesNet
<1> QED
  BY <1>1, <1>2, <1>3, <1>4, <1>5, ListenNet DEF Next

\* The socket between two stages: how far they can be apart.
LEMMA Conversation ==
  ASSUME NetInv, NEW c \in Conns
  PROVE  /\ stage["send"][c].state \in Joined("send") =>
              stage["recv"][c].state \in Joined("recv") \ {"send"}
         /\ stage["recv"][c].state \in Over => stage["send"][c].state \in Over
<1>1. /\ \A s \in Sides : PlaceInv(s, c) /\ QueueInv(s, c)
      /\ Pieces \in Nat \ {0} /\ "send" \in Sides /\ "recv" \in Sides
  BY ConstantsOK DEF NetInv, ConnInv, Sides
<1>2. /\ Taken("send", c) <= Written("recv", c) /\ Taken("recv", c) <= Written("send", c)
      /\ stage["send"][c].offset \in 0..Pieces-1 /\ stage["recv"][c].offset \in 0..Pieces-1
      /\ stage["send"][c].state \in Stages("send") /\ stage["recv"][c].state \in Stages("recv")
  BY <1>1 DEF QueueInv, PlaceInv, Other
<1>3. ASSUME stage["send"][c].state \in Joined("send")
      PROVE  stage["recv"][c].state \in Joined("recv") \ {"send"}
  <2>1. Taken("send", c) = Pieces
    BY <1>1, <1>3 DEF Taken, Before, Reading, Joined, Prefix, Other
  <2>2. Written("recv", c) >= Pieces
    BY <1>1, <1>2, <2>1
  <2> QED
    BY <1>1, <1>2, <2>2 DEF Written, Early, Prefix, Joined, Stages
<1>4. ASSUME stage["recv"][c].state \in Over
      PROVE  stage["send"][c].state \in Over
  <2>1. Taken("recv", c) = 2 + Pieces
    BY <1>4 DEF Taken, Before, Reading, Over
  <2> QED
    BY <1>1, <1>2, <2>1 DEF Written, Early, Prefix, Over, Stages
<1> QED
  BY <1>3, <1>4

(***************************************************************************)
(* The links of a communicator that was handed out are connected, NIC by   *)
(* NIC, to the other side's links of the same connection, which were       *)
(* brought up before: whatever pieces the socket makes of the messages,    *)
(* and whatever else is set up, closed or refused meanwhile.               *)
(***************************************************************************)
THEOREM LinksAlwaysPaired ==
  ASSUME OneListenerEach
  PROVE  Spec => []LinksPaired
<1>1. Init => IInv /\ NetInv
  BY InitIInv, InitNet
<1>2. IInv /\ NetInv /\ [Next]_vars => (IInv /\ NetInv)'
  BY NextIInv, NextNet
<1>3. IInv /\ NetInv => LinksPaired
  <2> SUFFICES ASSUME IInv, NetInv, NEW s \in Sides, NEW c \in Conns,
                      stage[s][c].state = "done", NEW n \in Nics
               PROVE  /\ link[s][c][n] = [state |-> "rts", peer |-> <<Other(s), c, n>>]
                      /\ link[Other(s)][c][n].peer = <<s, c, n>>
                      /\ stage[Other(s)][c].state # "closed" =>
                           link[Other(s)][c][n].state = "rts"
    BY DEF LinksPaired
  <2>1. PeerInv(s, c) /\ PeerInv(Other(s), c) /\ Other(Other(s)) = s
    BY OtherSide DEF NetInv, ConnInv
  <2>2. stage[s][c].state \in Joined(s)
    BY DEF Joined
  <2>3. stage[Other(s)][c].state \in Joined(Other(s))
    <3>1. CASE s = "send"
      BY <2>2, <3>1, Conversation DEF Other
    <3>2. CASE s = "recv"
      BY <3>2, Conversation DEF Other, Joined, Over
    <3> QED
      BY <3>1, <3>2 DEF Sides
  <2>4. link[s][c][n].state = "rts" /\ link[s][c][n].peer = <<Other(s), c, n>>
    BY <2>1, <2>2 DEF PeerInv
  <2>5. link[s][c][n] = [state |-> "rts", peer |-> <<Other(s), c, n>>]
    <3>1. link[s][c][n] = [state |-> link[s][c][n].state, peer |-> link[s][c][n].peer]
      BY DEF IInv, ShapeOK, LinkShape
    <3> QED
      BY <2>4, <3>1
  <2> QED
    BY <2>1, <2>3, <2>5 DEF PeerInv
<1> QED
  BY <1>1, <1>2, <1>3, PTL DEF Spec

(***************************************************************************)
(* Exactly the connections of a mapped channel, and those whose ends were  *)
(* told the same NIC, have a receiver that reaches the FIFO of its own     *)
(* peer: the others are handed out with the address of none.               *)
(***************************************************************************)
THEOREM FifoAlwaysFound ==
  ASSUME OneListenerEach
  PROVE  Spec => []FifoFound
<1>1. Init => IInv /\ NetInv
  BY InitIInv, InitNet
<1>2. IInv /\ NetInv /\ [Next]_vars => (IInv /\ NetInv)'
  BY NextIInv, NextNet
<1>3. IInv /\ NetInv => FifoFound
  <2> SUFFICES ASSUME NetInv, NEW c \in Conns, stage["recv"][c].state = "done"
               PROVE  IF Agreed(c) THEN Reaches(c) ELSE remFifo[c] = NoLink
    BY DEF FifoFound
  <2>1. FifoInv(c) /\ stage["send"][c].state \in Over
    BY Conversation DEF NetInv, ConnInv, Over
  <2>2. /\ control["recv"][c] = <<"recv", c, RecvDev(c)>>
        /\ remFifo[c] = IF RecvDev(c) = ChanDev(c) THEN <<"fifo", c, ChanDev(c)>> ELSE NoLink
        /\ control["send"][c] = <<"send", c, ChanDev(c)>>
        /\ stage["send"][c].state # "closed" => fifoMr[c] = ChanDev(c)
    BY <2>1 DEF FifoInv, Joined, Over, Late
  <2>3. Agreed(c) <=> RecvDev(c) = ChanDev(c)
    BY DEF Agreed, RecvDev, ChanDev, ControlDev
  <2>4. control["recv"][c][3] = RecvDev(c)
    BY <2>2
  <2>5. CASE Agreed(c)
    BY <2>2, <2>3, <2>4, <2>5 DEF Reaches
  <2>6. CASE ~ Agreed(c)
    BY <2>2, <2>3, <2>6
  <2> QED
    BY <2>5, <2>6
<1> QED
  BY <1>1, <1>2, <1>3, PTL DEF Spec

(***************************************************************************)
(* No side is handed a communicator whose other side was refused one,      *)
(* whichever call of the verbs library was refused, and at whichever NIC.  *)
(***************************************************************************)
THEOREM AlwaysHandedOutTogether ==
  ASSUME OneListenerEach
  PROVE  Spec => []HandedOutTogether
<1>1. Init => IInv /\ NetInv
  BY InitIInv, InitNet
<1>2. IInv /\ NetInv /\ [Next]_vars => (IInv /\ NetInv)'
  BY NextIInv, NextNet
<1>3. IInv /\ NetInv => HandedOutTogether
  <2> SUFFICES ASSUME NetInv, NEW s \in Sides, NEW c \in Conns, Refused(s, c)
               PROVE  stage[Other(s)][c].state \notin Over
    BY DEF HandedOutTogether, Over
  <2>1. CASE s = "send"
    BY <2>1, Conversation DEF Refused, Other, Over
  <2>2. CASE s = "recv"
    BY <2>2, Conversation DEF Refused, Other, Joined, Over
  <2> QED
    BY <2>1, <2>2 DEF Sides
<1> QED
  BY <1>1, <1>2, <1>3, PTL DEF Spec

(***************************************************************************)
(* The variables stay in their types: the offset of a message stays below  *)
(* its length, the sockets hold no more than one side writes, and a        *)
(* channel is one that the tables have a row for.                          *)
(***************************************************************************)
THEOREM SetupTypes ==
  ASSUME OneListenerEach
  PROVE  Spec => []TypeOK
<1>1. Init => IInv /\ NetInv
  BY InitIInv, InitNet
<1>2. IInv /\ NetInv /\ [Next]_vars => (IInv /\ NetInv)'
  BY NextIInv, NextNet
<1>3. IInv /\ NetInv => TypeOK
  <2> SUFFICES ASSUME IInv, NetInv PROVE TypeOK
    OBVIOUS
  <2>1. chan \in [Conns -> Channels \cup {NoChan}]
    <3>1. \A c \in Conns : chan[c] \in Channels \cup {NoChan}
      BY ChanInRange DEF IInv
    <3> QED
      BY <3>1 DEF IInv, ShapeOK
  <2>2. ASSUME NEW s \in Sides, NEW c \in Conns
        PROVE  /\ stage[s][c].offset \in 0..Pieces-1
               /\ stage[s][c].state \in {"none", "start", "connect", "refused", "send",
                    "connecting", "connected", "failed", "accept", "recv", "pending", "done",
                    "closed"}
               /\ Len(sock[s][c]) <= Pieces + 2
               /\ \A n \in Nics : link[s][c][n].state \in LinkStates
    <3>1. /\ PlaceInv(s, c) /\ PlaceInv(Other(s), c) /\ QueueInv(s, c) /\ PeerInv(s, c)
          /\ Other(s) \in Sides
      BY OtherSide DEF NetInv, ConnInv
    <3>2. stage[s][c].state \in {"none", "start", "connect", "refused", "send",
                    "connecting", "connected", "failed", "accept", "recv", "pending", "done",
                    "closed"}
      BY <3>1 DEF PlaceInv, Stages
    <3>3. Written(s, c) \in Nat /\ Taken(Other(s), c) \in Nat
      BY <3>1, CountsType
    <3>4. Written(s, c) <= Pieces + 2
      <4>1. Pieces \in Nat /\ stage[s][c].offset \in 0..Pieces-1
        BY <3>1, ConstantsOK DEF PlaceInv
      <4> QED
        BY <4>1 DEF Written, Prefix
    <3>5. Len(sock[s][c]) = Written(s, c) - Taken(Other(s), c)
      <4> DEFINE a == Taken(Other(s), c)
                 b == Written(s, c)
      <4>1. a <= b /\ sock[s][c] = Run(s, c, ChanDev(c), a, b) /\ a \in Nat /\ b \in Nat
        BY <3>1, <3>3 DEF QueueInv
      <4> HIDE DEF a, b
      <4>2. Len(Run(s, c, ChanDev(c), a, b)) = b - a
        BY <4>1, RunLen
      <4> QED
        BY <4>1, <4>2 DEF a, b
    <3>6. Len(sock[s][c]) <= Pieces + 2
      BY <3>3, <3>4, <3>5, ConstantsOK
    <3> QED
      BY <3>1, <3>2, <3>6 DEF PlaceInv, PeerInv
  <2> QED
    BY <2>1, <2>2 DEF IInv, ShapeOK, NetInv, NetShape, TypeOK
<1> QED
  BY <1>1, <1>2, <1>3, PTL DEF Spec
=============================================================================
