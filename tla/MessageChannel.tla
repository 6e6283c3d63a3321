---------------------------- MODULE MessageChannel ----------------------------
(***************************************************************************)
(* What a FuseLink connection promises the collective library: a channel   *)
(* with numbered receives.  A receive names, for each of its buffers, the  *)
(* tag and the room; a send is accepted for a tag; a receive is delivered  *)
(* as a whole, after all those before it, each buffer with the send that   *)
(* its place in the order of receives of that tag entitles it to; and a    *)
(* delivered receive is reported once.  Slots, requests, queues and        *)
(* completions do not appear.                                              *)
(***************************************************************************)
EXTENDS Integers, FiniteSets

CONSTANTS MaxRecvs, GroupSizes, Tags, Sizes, MaxSteps

Steps   == 1..MaxSteps
Lanes   == 1..MaxRecvs
Nothing == [tag |-> 0, num |-> 0, size |-> 0]

VARIABLES
  posted,     \* receives posted
  want,       \* [step -> the tags and sizes of that receive]
  sent,       \* [tag -> sends accepted]
  delivered,  \* receives whose data is in place
  buffer,     \* [<<step, lane>> -> what was delivered there]
  reported    \* the receives reported done

cvars == <<posted, want, sent, delivered, buffer, reported>>

ChannelInit ==
  /\ posted = 0 /\ delivered = 0 /\ reported = {}
  /\ want = [k \in Steps |-> [n |-> 0, tags |-> <<>>, sizes |-> <<>>]]
  /\ sent = [t \in Tags |-> 0]
  /\ buffer = [b \in Steps \X Lanes |-> Nothing]

\* Buffers posted for a tag, up to and with buffer r of receive k.
Place(k, r, tag) ==
  Cardinality({b \in (1..k) \X Lanes :
    /\ b[1] < k \/ b[2] <= r
    /\ b[2] <= want[b[1]].n /\ want[b[1]].tags[b[2]] = tag})

PostReceive ==
  /\ posted < MaxSteps
  /\ posted' = posted + 1
  /\ \E n \in GroupSizes : \E tags \in [1..n -> Tags], sizes \in [1..n -> Sizes] :
       want' = [want EXCEPT ![posted + 1] = [n |-> n, tags |-> tags, sizes |-> sizes]]
  /\ UNCHANGED <<sent, delivered, buffer, reported>>

\* A send is accepted only for a buffer that is posted already.
AcceptSend ==
  \E tag \in Tags :
    /\ sent[tag] < Place(posted, MaxRecvs, tag)
    /\ sent' = [sent EXCEPT ![tag] = @ + 1]
    /\ UNCHANGED <<posted, want, delivered, buffer, reported>>

Deliver ==
  LET k == delivered + 1 IN
  /\ delivered < posted
  /\ delivered' = k
  /\ \A r \in 1..want[k].n :
       LET tag == want[k].tags[r] IN sent[tag] >= Place(k, r, tag)
  /\ \E size \in [1..want[k].n -> Sizes] :
       /\ \A r \in 1..want[k].n : size[r] <= want[k].sizes[r]
       /\ buffer' = [b \in Steps \X Lanes |->
            IF b[1] = k /\ b[2] <= want[k].n
            THEN LET tag == want[k].tags[b[2]] IN
                 [tag |-> tag, num |-> Place(k, b[2], tag), size |-> size[b[2]]]
            ELSE buffer[b]]
  /\ UNCHANGED <<posted, want, sent, reported>>

Report ==
  /\ \E k \in (1..delivered) \ reported : reported' = reported \cup {k}
  /\ UNCHANGED <<posted, want, sent, delivered, buffer>>

ChannelNext == PostReceive \/ AcceptSend \/ Deliver \/ Report

ChannelSpec == ChannelInit /\ [][ChannelNext]_cvars
=============================================================================
