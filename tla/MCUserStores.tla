---------------------------- MODULE MCUserStores -----------------------------
(* Instances of UserStores for TLC. *)
EXTENDS UserStores, TLC

\* Ids that are numbers; and one (2) that is not, and is made into number 3.
MCNumeric == [k \in Keys |-> k]
MCString == [k \in Keys |-> IF k = 2 THEN 3 ELSE k]

MCSymmetry == Permutations(Requests)

\* A start changes nobody's password ("existing administrative setups and credentials
\* are never overwritten or altered", docs/user_lifecycle_and_rbac.md:177).  It does.
CredentialsNeverAltered ==
    [][start.at # "up" =>
         \A e \in Emails : core[e] # None => core'[e] # None /\ core'[e].pw = core[e].pw]_vars

=============================================================================
