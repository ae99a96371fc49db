------------------------------ MODULE MCPicker ------------------------------
(* Four ciphers for TLC: two of the same name and different usernames, so   *)
(* that the sort by name and the sort by name and username differ; one in   *)
(* mixed case; one that matches with a gap.  The queries match one exactly, *)
(* two equally well, one clearly, and one too weakly.                       *)
EXTENDS Picker

Runes   == {"a", "A", "B", "[", "_", "e"}
Letters == {"a", "A", "B", "e"}
LowerOf == [r \in Runes |-> IF r = "A" THEN "a" ELSE r]
CodeOf  == [r \in Runes |-> CASE r = "_" -> 32 [] r = "A" -> 65 [] r = "B" -> 66
                            [] r = "[" -> 91 [] r = "a" -> 97 [] r = "e" -> 233]

Vault   == << [name |-> <<"a", "B">>, user |-> <<"e">>],
              [name |-> <<"a", "B">>, user |-> <<"B">>],
              [name |-> <<"B", "a", "A">>, user |-> <<>>],
              [name |-> <<"a">>, user |-> <<"B">>] >>
Asked   == {<<"a">>, <<"A", "B">>, <<"B", "a">>, <<"e">>}
=============================================================================
