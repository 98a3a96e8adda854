---------------------------- MODULE MCBookMirror ----------------------------
(***************************************************************************)
(* The book on a ladder that starts at price 10, with prices one tick      *)
(* outside of it.  Accounts are interchangeable.                           *)
(***************************************************************************)
EXTENDS BookMirror

CONSTANTS a1, a2

MCAccounts == {a1, a2}
MCPrices   == 9 .. 12
MCQtys     == 0 .. 2
Symmetry   == Permutations(MCAccounts)
=============================================================================
