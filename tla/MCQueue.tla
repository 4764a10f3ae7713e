------------------------------ MODULE MCQueue ------------------------------
(* Both views of the queue on few phones, for TLC.                         *)
EXTENDS Queues, TLC

Phones == Permutations(Addrs)
============================================================================
