-------------------------- MODULE TransportRefinement --------------------------
(***************************************************************************)
(* The transport implements the message channel: a receive counts as       *)
(* posted when ncclIbIrecv announces it, a send as accepted when           *)
(* ncclIbIsend returns a request, a receive as delivered when the          *)
(* immediate of its message arrives, and as reported when ncclIbTest sets  *)
(* done.  Every other step of the transport is a stutter of the channel.   *)
(***************************************************************************)
EXTENDS Transport

Channel == INSTANCE MessageChannel WITH
  posted <- fifoTail, want <- call, delivered <- dArrived, buffer <- buf,
  reported <- {k \in Steps : result[k] # <<>>}

\* The connection promises what the channel does, whatever the order in which
\* elements land, completions are polled and requests are reused.
ImplementsChannel == Channel!ChannelSpec
=============================================================================
