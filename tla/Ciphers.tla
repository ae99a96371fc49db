------------------------------ MODULE Ciphers ------------------------------
(***************************************************************************)
(* The ciphers of a vault and what bitw does with a list of them: which    *)
(* it can read, which one a name means, the bodies that create and edit    *)
(* send, and what a field of a cipher reads.                               *)
(***************************************************************************)
EXTENDS Naturals, SequencesExt

CONSTANTS Name, FieldName, Value, Absent,
          Missing,  \* in place of a secret: there is no login or SSH key object
          Orgs,   \* the organizations of the profile, in its order
          Bad     \* those whose key cannot be decoded or decrypted

Kind    == {"login", "note", "ssh", "card"}
Content == Value \cup {Absent}
Field   == [name : FieldName, value : Value]
Fields  == Seq(Field)

ASSUME CiphersAssumption ==
  Absent \notin Value /\ Missing \notin Content /\ Orgs \in Seq(STRING) /\ Bad \subseteq ToSet(Orgs)

(* secret is the member of a login or SSH key that edit can change, which   *)
(* other kinds do not have, and some logins and SSH keys neither (cipher    *)
(* .Login, .SshKey may be nil); rest stands for all that edit and create never send: *)
(* folder, favorite, the list of URIs, card, identity.                      *)
SecretFits(c) == c.secret # Absent => c.kind \in {"login", "ssh"}

Cipher ==
  {c \in [id : Nat, name : Name, org : ToSet(Orgs) \cup {Absent}, kind : Kind,
          secret : Content \cup {Missing}, notes : Content, fields : Fields,
          rest : Content] : SecretFits(c)}

Named(list, n) == {i \in 1..Len(list) : list[i].name = n}
Ids(list)      == {list[i].id : i \in 1..Len(list)}
Names(list)    == {list[i].name : i \in 1..Len(list)}
ById(list, id) == list[CHOOSE i \in 1..Len(list) : list[i].id = id]

-----------------------------------------------------------------------------
(* initKeys stops at the first organization whose key is no good.           *)
Broken == Bad # {}
KeyedOrgs ==
  {Orgs[i] : i \in {j \in 1..Len(Orgs) : \A k \in 1..j : Orgs[k] \notin Bad}}

Readable(c) == c.org = Absent \/ c.org \in KeyedOrgs

(* The places of the ciphers that findCipherByName takes for n when the     *)
(* first `skipped` of the list could not be decrypted.                      *)
Matches(list, n, skipped) == {i \in Named(list, n) : i > skipped /\ Readable(list[i])}

FindCipherByName(list, n) == list[Min(Matches(list, n, 0))]

-----------------------------------------------------------------------------
(* Faulty: a field that is there keeps its value.                           *)
PutFieldOnce(fields, f) == IF Named(fields, f.name) = {} THEN Append(fields, f) ELSE fields

(* The index by name keeps the last field of each name.                     *)
PutField(fields, f) ==
  LET same == Named(fields, f.name) IN
  IF same = {} THEN Append(fields, f) ELSE [fields EXCEPT ![Max(same)] = f]

MergeFields(fields, new) == FoldLeft(PutField, fields, new)

(* resolveField takes the first field of the name.                          *)
ReadField(fields, n) ==
  LET same == Named(fields, n) IN
  IF same = {} THEN Absent ELSE fields[Min(same)].value

(* What was asked for last, or Absent.                                      *)
Asked(new, n) ==
  LET same == Named(new, n) IN IF same = {} THEN Absent ELSE new[Max(same)].value

Distinct(fields) == \A i, j \in 1..Len(fields) : fields[i].name = fields[j].name => i = j

-----------------------------------------------------------------------------
(* What a command line asks for: op, the cipher's name, and for create and  *)
(* edit the kind (of edit: the one its flags are for, or "any"), secret,    *)
(* notes (edit: "clear" for --notes "") and the fields.                     *)
Job ==
  {j \in [op : {"create", "edit", "sync"}, name : Name, kind : Kind \cup {"any"},
          secret : Content, notes : Content \cup {"clear"}, fields : Fields] : SecretFits(j)}

(* build*Cipher: the body of the POST. *)
CreateBody(job) ==
  [name |-> job.name, kind |-> job.kind, secret |-> job.secret, notes |-> job.notes,
   fields |-> job.fields, rest |-> Absent]

(* Faulty: --notes "" is sent as it was given.                              *)
EditedNotesVerbatim(c, job) == IF job.notes = Absent THEN c.notes ELSE job.notes

EditedNotes(c, job) ==
  CASE job.notes = Absent  -> c.notes
    [] job.notes = "clear" -> Absent
    [] OTHER               -> job.notes

(* A new password or key is dropped, without a word, when the cipher has no *)
(* object to put it in; a login gets an empty one.                          *)
EditedSecret(c, job) ==
  CASE c.kind \notin {"login", "ssh"}               -> Absent
    [] c.secret = Missing /\ c.kind = "login"       -> Absent
    [] c.secret = Missing /\ c.kind = "ssh"         -> Missing
    [] c.secret # Missing /\ c.kind \in {"login", "ssh"} ->
         IF job.secret # Absent THEN job.secret ELSE c.secret

(* buildEditBody: the body of the PUT. *)
EditBody(c, job) ==
  [name |-> c.name, kind |-> c.kind, secret |-> EditedSecret(c, job),
   notes |-> EditedNotes(c, job), fields |-> MergeFields(c.fields, job.fields),
   rest |-> Absent]

(* Flags of a login are refused for other kinds, and so on.                 *)
Fits(job, c) == job.kind \in {"any", c.kind}

=============================================================================
