----------------------------- MODULE MCFlashStore -----------------------------
(* Instance of FlashStore for TLC. *)
EXTENDS FlashStore, TLC

CONSTANTS r1, r2, u1, u2, c1, c2, c3, h1

Symmetry == Permutations(Creds)

=============================================================================
