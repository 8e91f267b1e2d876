---------------------------- MODULE MCMemAccess ----------------------------
(***************************************************************************)
(* A small board: RAM, registered first and above the other devices, as in *)
(* main, and two devices next to each other.                               *)
(***************************************************************************)
EXTENDS MemAccess

Board == <<[base |-> 4, size |-> 6], [base |-> 0, size |-> 2], [base |-> 2, size |-> 1]>>
=============================================================================
