------------------------------ MODULE MCVault ------------------------------
(* A small account for TLC: the names A and B, a field F.                   *)
EXTENDS Vault, TLC

CONSTANTS A, B, F, u, w

Login(id, n, o) == [id |-> id, name |-> n, org |-> o, kind |-> "login", secret |-> u,
                    notes |-> Absent, fields |-> <<>>, rest |-> Absent]
Card(id, n)     == [id |-> id, name |-> n, org |-> Absent, kind |-> "card",
                    secret |-> Absent, notes |-> Absent, fields |-> <<>>, rest |-> u]

OneOrg == <<"org">>
NoCipher == {<<>>}
Written  == {Card(1, B), [Login(1, B, Absent) EXCEPT !.secret = Missing]}
Cards  == {<<Card(1, A)>>}
Owned  == {<<Login(1, A, Absent), Login(2, B, "org")>>}

f(v) == [name |-> F, value |-> v]

Create(n, fields) ==
  [op |-> "create", name |-> n, kind |-> "login", secret |-> u, notes |-> Absent,
   fields |-> fields]
CreateNote(n, text) ==
  [op |-> "create", name |-> n, kind |-> "note", secret |-> Absent, notes |-> text,
   fields |-> <<>>]
Edit(n, k, secret, text, fields) ==
  [op |-> "edit", name |-> n, kind |-> k, secret |-> secret, notes |-> text,
   fields |-> fields]
SyncJob(n) ==
  [op |-> "sync", name |-> n, kind |-> "any", secret |-> Absent, notes |-> Absent,
   fields |-> <<>>]

SomeJobs == {Create(A, <<f(u)>>), Edit(A, "login", w, "clear", <<f(w)>>)}
Creates  == {Create(A, <<f(u)>>)}
OneCreate == {Create(A, <<>>)}
OneEdit   == {Edit(A, "any", Absent, u, <<>>)}

Symmetry == Permutations(Proc)
=============================================================================
