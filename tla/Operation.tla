------------------------------ MODULE Operation ------------------------------
(***************************************************************************)
(* What an ML-KEM operation promises to the wrapper that starts it: it     *)
(* takes a START when it idles, ends its run with one cycle of done, and   *)
(* is quiet otherwise.                                                     *)
(***************************************************************************)
VARIABLES running, done

vars == <<running, done>>

Init == running = FALSE /\ done = FALSE

Begin  == ~running /\ running' = TRUE /\ done' = FALSE
Finish == running /\ running' = FALSE /\ done' = TRUE
Quiet  == UNCHANGED running /\ done' = FALSE
Reset  == running' = FALSE /\ done' = FALSE

Next == Begin \/ Finish \/ Quiet \/ Reset

Spec == Init /\ [][Next]_vars
=============================================================================
