------------------------------ MODULE CacheFile ------------------------------
(***************************************************************************)
(* What bitw cache promises of the file it keeps: at any time the file is  *)
(* absent or a whole rendering of a vault, and a run that replaces it does *)
(* so in one step, with the vault as the account had it at some time       *)
(* during that run.                                                        *)
(***************************************************************************)
EXTENDS Manifest

CONSTANTS Proc, NoFile

VARIABLES vault,   \* the account's
          during,  \* for each run the vaults since it began, {} when it does not run
          file

vars == <<vault, during, file>>

Init == vault \in Vault /\ during = [p \in Proc |-> {}] /\ file = NoFile

Change ==
  /\ vault' \in Vault
  /\ during' = [p \in Proc |-> IF during[p] = {} THEN {} ELSE during[p] \cup {vault'}]
  /\ UNCHANGED file

Begin(p) ==
  /\ during[p] = {} /\ during' = [during EXCEPT ![p] = {vault}]
  /\ UNCHANGED <<vault, file>>

Replace(p) ==
  /\ \E v \in during[p] : file' = Rendered(v)
  /\ UNCHANGED <<vault, during>>

End(p) ==
  /\ during' = [during EXCEPT ![p] = {}]
  /\ UNCHANGED <<vault, file>>

Next == Change \/ \E p \in Proc : Begin(p) \/ Replace(p) \/ End(p)

Spec == Init /\ [][Next]_vars

=============================================================================
