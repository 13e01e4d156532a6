--------------------------- MODULE MCWorkerCapacity ---------------------------
(***************************************************************************)
(* Instance of WorkerCapacity for TLC: the product leads with two scopes   *)
(* and the product partnerships with one.                                  *)
(***************************************************************************)
EXTENDS WorkerCapacity

CONSTANTS leads, partnerships

MCProducts == {leads, partnerships}
MCScopes == {<<leads, 1>>, <<leads, 2>>, <<partnerships, 1>>}
===============================================================================
