--------------------------- MODULE MCOubliette ----------------------------
(* Instances of Oubliette for TLC: the calls of Renew are interchangeable. *)
EXTENDS OublietteInvariants, TLC

Perms == Permutations(Callers)

===========================================================================
