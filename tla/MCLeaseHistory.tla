--------------------------- MODULE MCLeaseHistory ---------------------------
(***************************************************************************)
(* Two workers with batches of two jobs, and two attempts for each.        *)
(***************************************************************************)
EXTENDS LeaseHistory
=============================================================================
