--------------------------- MODULE MCBillingInbox ---------------------------
(***************************************************************************)
(* TLC instance of the inbox without retirement.                           *)
(***************************************************************************)
EXTENDS BillingInbox, TLC

Symmetry == Permutations(Ids) \cup Permutations(Contents) \cup Permutations(Hosts)
=============================================================================
