---------------------------- MODULE MCAuthenticator ----------------------------
(* Instances of Authenticator for TLC.  Hosts, relying parties and users   *)
(* are interchangeable.  States that no command and no property can tell   *)
(* apart are explored once: those that differ in the last reply only (its  *)
(* properties are action properties, which TLC checks on every step), in   *)
(* what a walk leaves behind once it is over and its history is dropped,   *)
(* or in the index of an enumeration of credentials that has no history.   *)
EXTENDS Authenticator, TLC

Symmetry == Permutations(Hosts) \cup Permutations(Rps) \cup Permutations(Users)
WalkOver == g_ga_count = 0 \/ (walk = None /\ g_ga_idx + 1 >= g_ga_count)
View     == <<slot, session, shown,
              IF WalkOver THEN None ELSE ga,
              g_enum_rp_idx, g_enum_rp_hash,
              IF credsShown = None THEN None ELSE g_enum_cred_idx>>

=============================================================================
