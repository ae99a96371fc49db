------------------------------ MODULE Manifest ------------------------------
(***************************************************************************)
(* The manifest of bitw cache, cache.ini, and what it makes of a vault.    *)
(* A line of [cache] or [cache-fields] asks for one field of one cipher to *)
(* be exported as a variable; a line of [cache-aliases] exports a variable *)
(* with the value that another one has when the file is sourced:           *)
(* `export ALIAS=$SOURCE`.  The sections come in this order.               *)
(*                                                                         *)
(* A vault gives each cipher a version (0: not in the index of login       *)
(* ciphers, since it is gone, no login, or its name does not decrypt) and  *)
(* says which lines ask for a field that does not decrypt.                 *)
(***************************************************************************)
EXTENDS Integers

CONSTANTS Cipher, Var,
          Lines,     \* how many lines there are
          Section,   \* "cache", "fields" or "aliases" for each line
          SourceOf,  \* the cipher, or for an alias the variable, a line reads
          VarOf,     \* the variable it exports
          MaxVersion,
          None       \* no line, no value

Line == 1..Lines
IsAlias(l) == Section[l] = "aliases"

ASSUME ManifestAssumption ==
  /\ Lines \in Nat /\ MaxVersion \in Nat
  /\ Section \in [Line -> {"cache", "fields", "aliases"}]
  /\ \A k, l \in Line : k < l =>
       /\ Section[k] # "cache" => Section[l] # "cache"
       /\ IsAlias(k) => IsAlias(l)
  /\ \A l \in Line : SourceOf[l] \in (IF IsAlias(l) THEN Var ELSE Cipher)
  /\ VarOf \in [Line -> Var]
  /\ None \notin Line \X (0..MaxVersion)

Value == Line \X (1..MaxVersion)

Found(v, l) == v.version[SourceOf[l]] # 0

Vault ==
  {v \in [version : [Cipher -> 0..MaxVersion], bad : SUBSET Line] :
     \A l \in v.bad : ~IsAlias(l) /\ Found(v, l)}

(* What the field that a line asks for decrypts to. *)
Reads(v, l) ==
  IF Found(v, l) /\ l \notin v.bad THEN <<l, v.version[SourceOf[l]]>> ELSE None

(* A cache file: what each line of the manifest has become in it.  An alias *)
(* is written whatever the vault holds, as a reference, <<l, 0>>.           *)
Reference(l) == <<l, 0>>
Image == [Line -> (Line \X (0..MaxVersion)) \cup {None}]
Blank == [l \in Line |-> None]

(* The whole cache file of a vault. *)
Written(v, l) == IF IsAlias(l) THEN Reference(l) ELSE Reads(v, l)
Rendered(v) == [l \in Line |-> Written(v, l)]

(* A shell that sources the file: what its first n lines make of the        *)
(* variables, of which None stands for one that the file has not set.       *)
Exported(env, image, l) ==
  IF image[l] = None THEN env
  ELSE [env EXCEPT ![VarOf[l]] = IF IsAlias(l) THEN env[SourceOf[l]] ELSE image[l]]

After(image) ==
  LET env[n \in 0..Lines] ==
        IF n = 0 THEN [v \in Var |-> None] ELSE Exported(env[n - 1], image, n)
  IN  env

Sourced(image, var) == After(image)[Lines][var]

(* The file as far as [cache] and [cache-fields] make it. *)
Unaliased(image) == [l \in Line |-> IF IsAlias(l) THEN None ELSE image[l]]

=============================================================================
