---------------------------- MODULE MCMongoosePool ----------------------------
(***************************************************************************)
(* MongoosePool for TLC.  The workers are alike and so are the             *)
(* connections; the symmetry is used only where no liveness is checked.    *)
(***************************************************************************)
EXTENDS MongoosePool, TLC

Symmetry == Permutations(Workers) \cup Permutations(Conns)
===============================================================================
