------------------------------ MODULE MCTrust -------------------------------
(* Small instances of Trust.                                               *)
EXTENDS Trust

CONSTANTS f1, f2, h1, h2

\* No file, one peer, and the two records for one host an append-only accept
\* left behind.
Files == {<<>>, <<[host |-> h1, cert |-> f1]>>,
          <<[host |-> h1, cert |-> f1], [host |-> h1, cert |-> f2]>>}
=============================================================================
