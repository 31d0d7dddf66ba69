------------------------------ MODULE MCOutbox ------------------------------
(***************************************************************************)
(* A small instance of Outbox: two writers, three rows, pages of one row,  *)
(* a clock that may stand still or tick with every statement.              *)
(***************************************************************************)
EXTENDS Outbox, TLC

CONSTANTS w1, w2
WriterSymmetry == Permutations({w1, w2})
=============================================================================
