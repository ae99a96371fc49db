------------------------------ MODULE Secrets ------------------------------
(***************************************************************************)
(* The secrets of an organization and what bitw sm does with them: which   *)
(* it can read, which one a key means, what edit and create send.          *)
(***************************************************************************)
EXTENDS CommandLine, Padding, FiniteSets

CONSTANTS Project, ProjectName,  \* the projects, and the name each shows
          Score(_, _),  \* fuzzyScore of a query and a key
          Floor,        \* fuzzyFallbackFloor
          MaxSecret     \* bound on the secrets ever made

Id == 1..MaxSecret

(* A field as the server keeps it: the cipher string of a text, one that    *)
(* the organization's key does not open, or nothing.                        *)
Field == [form : {"sealed", "garbled"}, text : Words] \cup [form : {"absent"}, text : {<<>>}]
Secret == [key : Field, value : Field, note : Field, projects : SUBSET Project]
Gone == [gone |-> TRUE]
SecretLists == [Id -> Secret \cup {Gone}]
Live(list)  == {i \in Id : list[i] # Gone}

Job == [op : {"list", "get", "create", "edit"}, args : Seq(Token), stdin : Words]

ASSUME SecretsAssumption ==
  /\ IsFiniteSet(Project) /\ ProjectName \in [Project -> Words]
  /\ \A q, k \in Words : Score(q, k) \in Int
  /\ Floor \in Int /\ MaxSecret \in Nat

-----------------------------------------------------------------------------
(* encryptSMField, and decryptSMField, which may fail. *)
Sealed(text) == [form |-> "sealed", text |-> text]
Opens(f) == f.form = "absent" \/ (f.form = "sealed" /\ Unpads(Pad(f.text)))
Plain(f) == IF f.form = "absent" THEN <<>> ELSE Unpad(Pad(f.text))

InProject(s, name) == \E q \in s.projects : ProjectName[q] = name

(* Faulty: --project does not narrow the search.                            *)
ShownAnywhere(list, name) == {i \in Live(list) : Opens(list[i].key)}

(* The fields that edit decrypts. *)
Editable(s) == Opens(s.key) /\ Opens(s.value) /\ Opens(s.note)

(* The secrets of a list in which a key is looked for. *)
Shown(list, name) ==
  {i \in Live(list) : Opens(list[i].key) /\ (name = <<>> \/ InProject(list[i], name))}

KeyOf(list, i) == Plain(list[i].key)

Bearers(list, query, name) == {i \in Shown(list, name) : KeyOf(list, i) = query}

(* The one best fuzzy match, if it is above the floor and not tied. *)
Best(list, query, name) ==
  {i \in Shown(list, name) :
     LET score(j) == Score(query, KeyOf(list, j)) IN
     /\ score(i) >= Floor
     /\ \A j \in Shown(list, name) \ {i} : score(j) < score(i)}

(* Faulty: the first of several secrets is taken.                           *)
FoundFirst(list, query, name) ==
  LET all == Bearers(list, query, name) \cup Best(list, query, name)
  IN  {i \in all : \A j \in all : i <= j}

(* findSecretByKey, and findSecretByFuzzy when nothing has the key. *)
Found(list, query, name) ==
  IF Bearers(list, query, name) # {} THEN Bearers(list, query, name)
  ELSE Best(list, query, name)

Cmd(job)   == Parse(job.op, job.args)
Asks(job)  == Head(Cmd(job).rest)
Scope(job) == Cmd(job).opt["project"]

(* What the first look at the arguments refuses, before any request ... *)
RefusedEarly(job) ==
  \/ job.op # "list" /\ job.args = <<>>
  \/ job.op = "edit" /\ ~HasModifier(job.args)

(* ... and what does the second, after the token is exchanged. *)
Refused(job) ==
  /\ job.op # "list"
  /\ \/ ~Parsed(Cmd(job)) \/ Cmd(job).rest = <<>>
     \/ job.op = "edit" /\ Asks(job) = <<>>
     \/ job.op = "create" /\ Cmd(job).stdin /\ Len(Cmd(job).rest) > 1

(* create without a value, which is found out last. *)
ValueMissing(job) ==
  job.op = "create" /\ ~Cmd(job).stdin /\ Len(Cmd(job).rest) < 2

(* A value on standard input comes after --value. *)
NewValue(cmd, job) == IF cmd.stdin THEN job.stdin ELSE cmd.opt["value"]

(* Faulty: a note that is not asked for is dropped.                         *)
MergedNoNote(c, cmd, job) ==
  LET or(new, field) == Sealed(IF new = <<>> THEN Plain(field) ELSE new)
  IN  [key |-> or(cmd.opt["key"], c.key), value |-> or(NewValue(cmd, job), c.value),
       note |-> Sealed(cmd.opt["note"]), projects |-> c.projects]

(* The body of an edit: an empty text keeps what is there. *)
Merged(c, cmd, job) ==
  LET or(new, field) == Sealed(IF new = <<>> THEN Plain(field) ELSE new)
  IN  [key |-> or(cmd.opt["key"], c.key), value |-> or(NewValue(cmd, job), c.value),
       note |-> or(cmd.opt["note"], c.note), projects |-> c.projects]

(* Faulty: the value is sent as it is.                                      *)
CreatedOpen(cmd, job, place) ==
  [key |-> Sealed(cmd.rest[1]),
   value |-> [form |-> "absent", text |-> IF cmd.stdin THEN job.stdin ELSE cmd.rest[2]],
   note |-> Sealed(<<>>), projects |-> place]

(* The body of a create, in the project `place`, if there is one. *)
Created(cmd, job, place) ==
  [key |-> Sealed(cmd.rest[1]),
   value |-> Sealed(IF cmd.stdin THEN job.stdin ELSE cmd.rest[2]),
   note |-> Sealed(<<>>), projects |-> place]

ProjectsNamed(name) == {q \in Project : ProjectName[q] = name}

=============================================================================
