------------------------------- MODULE MCPool -------------------------------
(* A pool at address 16 of a 64-byte address space, small enough to fill,   *)
(* and the size a file gets that cannot be positioned.                      *)
EXTENDS Pool

MCRequests == [size : {0, 3, 4}, align : {1, 4, 8}] \cup {[size |-> AddressSpace - 1, align |-> 1]}
MCPrograms == {"test", "zhaba_expand", "zhaba"}
=============================================================================
