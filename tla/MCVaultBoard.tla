---------------------------- MODULE MCVaultBoard ----------------------------
(* Two requests over a boarding outpoint of two attempts.                  *)
EXTENDS VaultBoard, TLC

Symmetry ==
    {p @@ q @@ s : p \in Permutations(Requests), q \in Permutations(Commitments),
                   s \in Permutations(Sessions)}
=============================================================================
