--------------------------- MODULE SecretsManager ---------------------------
(***************************************************************************)
(* bitw sm: list, get, create and edit.  Each invocation exchanges its     *)
(* access token, resolves a key or an id with at most one list of the      *)
(* secrets, and then reads and writes the secret in requests of their own, *)
(* while other clients write.  Nothing is stored locally; a request that   *)
(* the client gave up on may still reach the server.                       *)
(***************************************************************************)
EXTENDS Secrets

CONSTANTS Proc,
          Jobs,      \* the command lines
          Initial,   \* the secrets the organization may start with
          Written,   \* what other clients make of a secret
          Uuid,      \* the text of each secret's id
          Net,       \* may requests fail
          MaxEdits   \* bound on the changes other clients make

ASSUME ManagerAssumption ==
  /\ Jobs \subseteq Job /\ Initial \subseteq SecretLists /\ Written \subseteq Secret
  /\ \A l \in Initial : Live(l) = 1..Cardinality(Live(l))
  /\ Uuid \in [Id -> Words] /\ Net \in BOOLEAN /\ MaxEdits \in Nat

VARIABLES
  secrets,  \* the server's, by id
  made,     \* the last id given
  edits,    \* changes by other clients
  pc, job,
  list,     \* listCache: {} or the list in a set
  target,   \* the id resolved, or 0
  copy,     \* what edit fetched: {} or the secret in a set
  place,    \* of create: the project, in a set
  sent,     \* the requests on their way: {} or one; it may outlive its sender
  result    \* how the invocation ended

world == <<secrets, made, edits>>
local == <<list, target, copy, place>>
vars  == <<world, pc, job, local, sent, result>>

NoJob == [op |-> "none"]

Init ==
  /\ secrets \in Initial /\ made = Cardinality(Live(secrets)) /\ edits = 0
  /\ pc = [p \in Proc |-> "idle"] /\ job = [p \in Proc |-> NoJob]
  /\ list = [p \in Proc |-> {}] /\ target = [p \in Proc |-> 0]
  /\ copy = [p \in Proc |-> {}] /\ place = [p \in Proc |-> {}]
  /\ sent = [p \in Proc |-> {}] /\ result = [p \in Proc |-> "none"]

Goto(p, l) == pc' = [pc EXCEPT ![p] = l] /\ UNCHANGED result

End(p, r) == pc' = [pc EXCEPT ![p] = "exit"] /\ result' = [result EXCEPT ![p] = r]

-----------------------------------------------------------------------------
Start(p) ==
  /\ pc[p] = "idle"
  /\ \E j \in Jobs : /\ job' = [job EXCEPT ![p] = j]
                     /\ IF RefusedEarly(j) THEN End(p, "usage") ELSE Goto(p, "exchange")
  /\ UNCHANGED <<world, local, sent>>

(* The first request that a command line makes. *)
First(j) ==
  CASE j.op = "list" -> "list"
    [] j.op = "create" -> IF Scope(j) # <<>> THEN "project" ELSE "send"
    [] OTHER -> IF \E i \in Id : Uuid[i] = Asks(j) THEN "id" ELSE "list"

(* newSMClient, and the arguments.  (Without a value create fails after it  *)
(* has resolved its project.)                                               *)
Exchange(p) ==
  /\ pc[p] = "exchange"
  /\ IF Refused(job[p]) THEN End(p, "usage") ELSE Goto(p, First(job[p]))
  /\ UNCHANGED <<world, job, local, sent>>

(* A request of p fails: no connection, a timeout, an error status; or the  *)
(* access token or what the server gives for it is no good.                 *)
RequestFails(p) ==
  /\ Net /\ pc[p] \in {"exchange", "id", "list", "fetch", "project", "send", "reply"}
  /\ End(p, "request")
  /\ UNCHANGED <<world, job, local, sent>>

(* A query that is an id: if there is no such secret it may be a key.       *)
LookUp(p) ==
  /\ pc[p] = "id"
  /\ \E i \in Id :
       /\ Uuid[i] = Asks(job[p])
       /\ IF i \in Live(secrets)
            THEN Goto(p, "fetch") /\ target' = [target EXCEPT ![p] = i]
            ELSE Goto(p, "list") /\ UNCHANGED target
  /\ UNCHANGED <<world, job, list, copy, place, sent>>

(* The list of the secrets, and the search for the key in it.               *)
List(p) ==
  /\ pc[p] = "list" /\ list' = [list EXCEPT ![p] = {secrets}]
  /\ \/ job[p].op = "list" /\ End(p, "ok") /\ UNCHANGED target
     \/ /\ job[p].op # "list"
        /\ LET found == Found(secrets, Asks(job[p]), Scope(job[p])) IN
           \/ \E i \in Live(secrets) :
                /\ found = {i}
                /\ Goto(p, "fetch") /\ target' = [target EXCEPT ![p] = i]
           \/ found = {} /\ End(p, "notfound") /\ UNCHANGED target
           \/ Cardinality(found) > 1 /\ End(p, "ambiguous") /\ UNCHANGED target
  /\ UNCHANGED <<world, job, copy, place, sent>>

(* get prints the value; edit needs all three fields. *)
Fetch(p) ==
  /\ pc[p] = "fetch" /\ target[p] \in Live(secrets)
  /\ LET s == secrets[target[p]] IN
       /\ copy' = [copy EXCEPT ![p] = {s}]
       /\ \/ job[p].op = "get" /\ End(p, IF Opens(s.value) THEN "ok" ELSE "garbled")
          \/ /\ job[p].op = "edit"
             /\ IF Editable(s) THEN Goto(p, "send") ELSE End(p, "garbled")
  /\ UNCHANGED <<world, job, list, target, place, sent>>

FetchGone(p) ==
  /\ pc[p] = "fetch" /\ target[p] \notin Live(secrets) /\ End(p, "notfound")
  /\ UNCHANGED <<world, job, local, sent>>

(* resolveProjectID, for create. *)
FindProject(p) ==
  /\ pc[p] = "project"
  /\ LET named == ProjectsNamed(Scope(job[p])) IN
     \/ /\ Cardinality(named) = 1 /\ Goto(p, "send")
        /\ place' = [place EXCEPT ![p] = named]
     \/ named = {} /\ End(p, "notfound") /\ UNCHANGED place
     \/ Cardinality(named) > 1 /\ End(p, "ambiguous") /\ UNCHANGED place
  /\ UNCHANGED <<world, job, list, target, copy, sent>>

Requests(p) ==
  IF job[p].op = "create"
  THEN {[id |-> 0, body |-> Created(Cmd(job[p]), job[p], place[p])]}
  ELSE {[id |-> target[p], body |-> Merged(c, Cmd(job[p]), job[p])] : c \in copy[p]}

(* POST or PUT. *)
Send(p) ==
  /\ pc[p] = "send" /\ sent[p] = {}
  /\ IF ValueMissing(job[p]) THEN End(p, "usage") /\ UNCHANGED sent
     ELSE Goto(p, "reply") /\ sent' = [sent EXCEPT ![p] = Requests(p)]
  /\ UNCHANGED <<world, job, local>>

Exit(p) ==
  /\ pc[p] = "exit" /\ pc' = [pc EXCEPT ![p] = "idle"]
  /\ job' = [job EXCEPT ![p] = NoJob] /\ result' = [result EXCEPT ![p] = "none"]
  /\ list' = [list EXCEPT ![p] = {}] /\ target' = [target EXCEPT ![p] = 0]
  /\ copy' = [copy EXCEPT ![p] = {}] /\ place' = [place EXCEPT ![p] = {}]
  /\ UNCHANGED <<world, sent>>

-----------------------------------------------------------------------------
(* A reply is received, or gets lost, or nobody waits for it any more.      *)
Delivered(p) ==
  /\ sent' = [sent EXCEPT ![p] = {}]
  /\ \/ pc[p] = "reply" /\ End(p, "ok")
     \/ (pc[p] # "reply" \/ Net) /\ UNCHANGED <<pc, result>>

ServerCreates(p) ==
  /\ made < MaxSecret /\ made' = made + 1
  /\ \E r \in sent[p] : r.id = 0 /\ secrets' = [secrets EXCEPT ![made + 1] = r.body]
  /\ Delivered(p) /\ UNCHANGED <<edits, job, local>>

(* A body without projects leaves them as they are, or clears them. *)
ServerEdits(p) ==
  /\ \E r \in sent[p] :
       /\ r.id \in Live(secrets)
       /\ \E projects \in (IF r.body.projects # {} THEN {r.body.projects}
                           ELSE {{}, secrets[r.id].projects}) :
            secrets' = [secrets EXCEPT ![r.id] = [r.body EXCEPT !.projects = projects]]
  /\ Delivered(p) /\ UNCHANGED <<made, edits, job, local>>

(* An error status: the secret is gone, the account may not write. *)
ServerRefuses(p) ==
  /\ sent[p] # {} /\ sent' = [sent EXCEPT ![p] = {}]
  /\ IF pc[p] = "reply" THEN End(p, "request") ELSE UNCHANGED <<pc, result>>
  /\ UNCHANGED <<world, job, local>>

(* Other clients: they create, change and delete secrets. *)
OtherWrites ==
  /\ edits < MaxEdits /\ edits' = edits + 1
  /\ \E s \in Written :
     \/ /\ \E i \in Live(secrets) : secrets' = [secrets EXCEPT ![i] = s]
        /\ UNCHANGED made
     \/ /\ made < MaxSecret /\ made' = made + 1
        /\ secrets' = [secrets EXCEPT ![made + 1] = s]
  /\ UNCHANGED <<pc, job, local, sent, result>>

OtherDeletes ==
  /\ edits < MaxEdits /\ edits' = edits + 1
  /\ \E i \in Live(secrets) : secrets' = [secrets EXCEPT ![i] = Gone]
  /\ UNCHANGED <<made, pc, job, local, sent, result>>

Next ==
  \/ \E p \in Proc :
       \/ Start(p) \/ Exchange(p) \/ RequestFails(p) \/ LookUp(p) \/ List(p)
       \/ Fetch(p) \/ FetchGone(p) \/ FindProject(p) \/ Send(p) \/ Exit(p)
       \/ ServerCreates(p) \/ ServerEdits(p) \/ ServerRefuses(p)
  \/ OtherWrites \/ OtherDeletes

Spec == Init /\ [][Next]_vars

-----------------------------------------------------------------------------
Labels == {"idle", "exchange", "id", "list", "project", "fetch", "send", "reply", "exit"}
Results == {"none", "ok", "usage", "request", "notfound", "ambiguous", "garbled"}
Request == [id : 0..MaxSecret, body : Secret]

TypeOK ==
  /\ secrets \in SecretLists /\ made \in 0..MaxSecret /\ edits \in 0..MaxEdits
  /\ Live(secrets) \subseteq 1..made
  /\ pc \in [Proc -> Labels] /\ result \in [Proc -> Results]
  /\ job \in [Proc -> Jobs \cup {NoJob}]
  /\ list \in [Proc -> SUBSET SecretLists] /\ target \in [Proc -> 0..MaxSecret]
  /\ copy \in [Proc -> SUBSET Secret] /\ place \in [Proc -> SUBSET Project]
  /\ sent \in [Proc -> SUBSET Request]
  /\ \A p \in Proc :
       /\ pc[p] # "idle" => job[p] \in Jobs
       /\ target[p] <= made /\ \A r \in sent[p] : r.id <= made
       /\ pc[p] \in {"fetch", "send", "reply"} /\ job[p].op = "edit" => target[p] # 0

(* A key is never taken to mean one of several secrets (sm.go:444, 469): in *)
(* the list that it was looked up in no other secret of the project asked   *)
(* for shows the key of the one that get or edit goes on with, and only     *)
(* when none has the key itself is it one of another key.  A project that   *)
(* create puts a secret in is the only one of its name.                     *)
NeverAmbiguous ==
  \A p \in Proc :
    /\ \A l \in list[p] : target[p] # 0 =>
         LET shown == Shown(l, Scope(job[p])) IN
         /\ target[p] \in shown
         /\ \A i \in shown \ {target[p]} :
              KeyOf(l, i) \notin {KeyOf(l, target[p]), Asks(job[p])}
    /\ \A q \in place[p] :
         ProjectName[q] = Scope(job[p]) /\ ProjectsNamed(Scope(job[p])) = {q}

(* And get and edit do not refuse a key that means one secret: "not found"  *)
(* only when no secret in the project has it, "ambiguous" only when several *)
(* do, whatever else is in the organization, also what cannot be decrypted. *)
Reachable ==
  \A p \in Proc : \A l \in list[p] : target[p] = 0 =>
    LET own == {i \in Live(l) :
                  /\ Opens(l[i].key) /\ Plain(l[i].key) = Asks(job[p])
                  /\ Scope(job[p]) = <<>> \/ InProject(l[i], Scope(job[p]))} IN
    /\ result[p] = "notfound" => own = {}
    /\ result[p] = "ambiguous" => Cardinality(own) > 1

(* What a field has become: the text asked for, or, when none was asked    *)
(* for, just what it was if that was a text.  (What edit makes of a field   *)
(* that held none is the matter of EditOpens.)                              *)
Becomes(new, old, asked) ==
  IF asked # <<>> THEN new = Sealed(asked) ELSE Plain(old) # <<>> => new = old

(* "fetches the current secret, decrypts its fields, merges with the        *)
(* caller's changes (empty = keep current) ... Project membership is        *)
(* preserved" (sm.go:676).  When the command line is flags and then one key *)
(* or id, so that flag.Parse has read all of it, and nobody has written the *)
(* secret since it was fetched, an edit changes the texts asked for and     *)
(* nothing else in the organization.  (Flags after the key, the order that  *)
(* the usage text of sm.go:773 shows, are not read: nothing is said then.)  *)
EditIsExact ==
  [][ \A p \in Proc :
        (pc[p] = "reply" /\ result'[p] = "ok" /\ job[p].op = "edit") =>
          LET t == target[p]  asked == Cmd(job[p]) IN
          (Len(asked.rest) = 1 /\ t \in Live(secrets) /\ copy[p] = {secrets[t]}) =>
            /\ \A i \in Live(secrets') \ {t} : secrets'[i] = secrets[i]
            /\ Becomes(secrets'[t].key, secrets[t].key, asked.opt["key"])
            /\ Becomes(secrets'[t].value, secrets[t].value, NewValue(asked, job[p]))
            /\ Becomes(secrets'[t].note, secrets[t].note, asked.opt["note"])
            /\ secrets[t].projects # {} => secrets'[t].projects = secrets[t].projects ]_vars

(* "we always pad ... unpad must always remove at least one byte to be      *)
(* unambiguous" (crypto.go:494), so that what was encrypted can be          *)
(* decrypted: edit says that it cannot decrypt a field only of a secret     *)
(* that is garbled.                                                         *)
EditOpens ==
  \A p \in Proc : (job[p].op = "edit" /\ result[p] = "garbled") =>
    \E c \in copy[p] : "garbled" \in {c.key.form, c.value.form, c.note.form}
=============================================================================
