------------------------------ MODULE MCScripts -----------------------------
(***************************************************************************)
(* The crossover in a box of 30 bits, the largest whose powers of three    *)
(* fit an integer of TLC; a sweep in which one instance of either diode    *)
(* may reach the thresholds; and a low-swing sweep of three rails and one. *)
(***************************************************************************)
EXTENDS Scripts

OneOfEach == {<<"X", "ID", "10", "30", "100", "05">>, <<"X", "SC", "05", "05", "500", "10">>}
Silent    == [epush |-> 1, railA |-> 9]

Rails3 == <<10, 6, 3>>
Rails1 == <<6>>
=============================================================================
