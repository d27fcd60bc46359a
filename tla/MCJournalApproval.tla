------------------------- MODULE MCJournalApproval -------------------------
(* A finite instance of JournalApproval for TLC: one journal, one user per   *)
(* role that can act on it, two workflow definitions whose thresholds the    *)
(* journal's amount reaches, one of them exactly.                            *)
EXTENDS JournalApproval, TLC

CONSTANTS j1, clerk, boss, root

MCRoleOf == (clerk :> "accountant") @@ (boss :> "approver") @@ (root :> "admin")

MCAmount == j1 :> 100

MCWorkflows ==
    {[threshold |-> 0,   roles |-> {"approver", "admin"}],
     [threshold |-> 100, roles |-> {"admin"}]}

SessionSymmetry == Permutations(Sessions)
=============================================================================
