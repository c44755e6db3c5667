----------------------------- MODULE MCAccounts -----------------------------
(***************************************************************************)
(* TLC instances of Accounts: three Google identities with two           *)
(* addresses; Google speaks for the address of two of them.                *)
(***************************************************************************)
EXTENDS Accounts, TLC

CONSTANTS e1, e2, s1, s2, s3

MCEmailOf == [s \in Subject |-> IF s = s3 THEN e2 ELSE e1]
MCAuthoritative == {s1, s3}
\* Principals, user sessions and requests are interchangeable.
Symmetry == Permutations(Principal) \cup Permutations(Session) \cup Permutations(Request)
            \cup Permutations(Nonce)
=============================================================================
