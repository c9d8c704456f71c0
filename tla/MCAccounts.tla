----------------------------- MODULE MCAccounts -----------------------------
(* Two administrators with open sessions, one of them with a hash that was  *)
(* migrated, and room for a third user.                                     *)
EXTENDS Accounts, TLC
CONSTANTS u1, u2, u3, n1, n2, p1, p2, t1, t2, t3
MCFirstUsers ==
    u1 :> [name |-> n1, pass |-> p1, legacy |-> FALSE, role |-> "admin"] @@
    u2 :> [name |-> n2, pass |-> p1, legacy |-> TRUE, role |-> "admin"] @@ u3 :> Unused
MCFirstSessions ==
    t1 :> [user |-> u1, live |-> TRUE, opened |-> 0, late |-> FALSE] @@
    t2 :> [user |-> u2, live |-> TRUE, opened |-> 0, late |-> FALSE] @@ t3 :> Unused
MCWeak == {<<p2, n1>>}
=============================================================================
