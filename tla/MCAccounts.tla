------------------------------ MODULE MCAccounts ------------------------------
(* Two request threads and one client; users have the names the start-up seeds.  *)
EXTENDS Accounts, TLC

CONSTANTS boot, t1, t2, c1, p1, p2

BootAndTwo == {boot, t1, t2}
OneClient == {c1}
SeededNames == {"coreadmin", "admin"}
TwoPasswords == {p1, p2}

Symmetry == Permutations({t1, t2}) \cup Permutations(TwoPasswords)
==============================================================================
