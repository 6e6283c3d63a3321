-------------------------- MODULE MCOnlineServing --------------------------
(***************************************************************************)
(* Instances of OnlineServing: traces over a few kinds of lines.           *)
(***************************************************************************)
EXTENDS OnlineServing

\* <<prompt_length, shared_prompt_length>>: a short prompt, one that leaves no
\* room for the reserved tokens, a long one that is mostly shared, one whose
\* active part is longer than the input.
Kinds == {<<2, 0>>, <<6, 0>>, <<9, 6>>, <<9, 2>>}

TracesOf(kinds, n) ==
  {[i \in 1..n |-> [timestamp |-> i, prompt_length |-> k[i][1],
                    shared_prompt_length |-> k[i][2]]] : k \in [1..n -> kinds]}

MCTraces == TracesOf(Kinds, 3) \cup TracesOf({<<2, 0>>}, 5)

TwoLines == TracesOf({<<2, 0>>}, 2)
=============================================================================
