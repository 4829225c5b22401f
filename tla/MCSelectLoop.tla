---------------------------- MODULE MCSelectLoop ----------------------------
(* Few descriptors, so that they are soon used again and may run out; and    *)
(* enough of them for two REPLYs to come while both requests wait.           *)
EXTENDS SelectLoop

Five == 1..5
Seven == 1..7
=============================================================================
