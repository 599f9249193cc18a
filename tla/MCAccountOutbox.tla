--------------------------- MODULE MCAccountOutbox ---------------------------
(***************************************************************************)
(* A TLC instance of AccountOutbox: one process, whose pool two            *)
(* transactions exhaust, and three requests: they create accounts, two of  *)
(* them for the same code, or one sets up the chart instead.               *)
(***************************************************************************)
EXTENDS AccountOutbox, TLC

CONSTANTS r1, r2, r3, p1, acme, cash, bank

AtFirst == [r \in Requests |-> p1]
AtAcme  == [r \in Requests |-> acme]
TwoCash == r1 :> cash @@ r2 :> cash @@ r3 :> bank

=============================================================================
