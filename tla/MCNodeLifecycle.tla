--------------------------- MODULE MCNodeLifecycle ---------------------------
(* Three nodes with room for one entry each: a chain, a node with a wire to  *)
(* itself, and a circle of two that the third node sends into.               *)
EXTENDS NodeLifecycle

CONSTANTS n1, n2, n3

MCNodes == {n1, n2, n3}

\* All join their threads, or all but one.
MCCareful == {MCNodes, {n1, n3}}

MCWirings == {
  {<<n1, n2>>, <<n2, n3>>},
  {<<n1, n1>>, <<n1, n2>>},
  {<<n1, n2>>, <<n2, n3>>, <<n3, n2>>}}
=============================================================================
