------------------------------ MODULE MCCache ------------------------------
(* A small manifest for TLC: the password of a is exported as X; then, under *)
(* [cache-fields], fields of b as X again and as Y; then X once more as Y,   *)
(* under [cache-aliases].                                                    *)
EXTENDS Cache, TLC

CONSTANTS a, b, X, Y

Sections == <<"cache", "fields", "fields", "aliases">>
Sources  == <<a, b, b, X>>
Vars     == <<X, X, Y, Y>>

Symmetry == Permutations(Proc)
=============================================================================
