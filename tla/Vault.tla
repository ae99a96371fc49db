------------------------------- MODULE Vault -------------------------------
(***************************************************************************)
(* bitw create and bitw edit: several invocations, and other clients, work *)
(* on one account's vault.  An invocation loads data.json at its start and *)
(* may save it at its end; in between it keeps a vault of its own, which a *)
(* sync replaces.  A request that the client gave up on may still reach    *)
(* the server.                                                             *)
(***************************************************************************)
EXTENDS Ciphers, FiniteSets

CONSTANTS Proc,
          Jobs,       \* the command lines
          Initial,    \* the lists of ciphers the account may start with
          Strangers,  \* what other clients create, but for id and name ...
          Notes,      \* ... and the notes that they write
          Renewing,   \* bound: the command lines that may find the token expired
          Faults,     \* which of "kill", "prompt", "net" may happen
          MaxCipher,  \* bound on the ciphers ever made
          MaxEdits    \* bound on the changes other clients make

ASSUME VaultAssumption ==
  /\ Jobs \subseteq Job /\ Renewing \subseteq Jobs /\ Initial \subseteq Seq(Cipher)
  /\ \A j \in Jobs : j.op = "create" => j.kind # "any" /\ j.notes # "clear"
  /\ Strangers \subseteq Cipher /\ Notes \subseteq Content
  /\ Faults \subseteq {"kill", "prompt", "net"} /\ MaxCipher \in Nat /\ MaxEdits \in Nat

(* The account starts with ciphers numbered from 1, of different names.     *)
ASSUME InitialAssumption ==
  \A l \in Initial :
    /\ Len(l) <= MaxCipher /\ \A i \in 1..Len(l) : l[i].id = i
    /\ \A i, j \in 1..Len(l) : l[i].name = l[j].name => i = j

VARIABLES
  server,  \* the account's ciphers, in the order /sync lists them
  made,    \* the last id given
  edits,   \* changes by other clients
  disk,    \* the ciphers in data.json
  pc, job,
  vault,   \* globalData.Sync.Ciphers
  dirty,   \* saveData
  body, target,  \* what is to be sent, and for edit the cipher's id
  sent,    \* the request on its way; it may outlive its sender
  warned,  \* has the last sync failed
  code,    \* the exit code to be
  since,   \* history: the server's lists since the request was applied
  excuse   \* history: has something happened that lets a name be there twice

world == <<server, made, edits>>
local == <<vault, dirty, body, target>>
vars  == <<world, disk, pc, job, local, sent, warned, code, since, excuse>>

NoBody == [name |-> Absent]
NoJob  == [op |-> "none", name |-> Absent]
Request(p) == [op |-> job[p].op, id |-> target[p], body |-> body[p]]
None   == [op |-> "none"]

Init ==
  /\ server \in Initial /\ disk \in {<<>>, server}
  /\ made = Len(server) /\ edits = 0
  /\ pc = [p \in Proc |-> "idle"] /\ job = [p \in Proc |-> NoJob]
  /\ vault = [p \in Proc |-> <<>>] /\ dirty = [p \in Proc |-> FALSE]
  /\ body = [p \in Proc |-> NoBody] /\ target = [p \in Proc |-> 0]
  /\ sent = [p \in Proc |-> None]
  /\ warned = [p \in Proc |-> FALSE] /\ code = [p \in Proc |-> 0]
  /\ since = [p \in Proc |-> {}] /\ excuse = FALSE

Goto(p, l) == pc' = [pc EXCEPT ![p] = l]

Fail(p) ==
  /\ Goto(p, "exit") /\ code' = [code EXCEPT ![p] = 1]
  /\ UNCHANGED <<world, disk, job, local, sent, warned, since, excuse>>

(* A prompt that is cancelled, or has no terminal.                          *)
PromptFails == "prompt" \in Faults

-----------------------------------------------------------------------------
(* data.json is loaded; edit starts with it, the others with a sync. *)
Start(p) ==
  /\ pc[p] = "idle"
  /\ \E j \in Jobs : /\ job' = [job EXCEPT ![p] = j]
                     /\ Goto(p, IF j.op = "edit" THEN "open" ELSE "token")
  /\ vault' = [vault EXCEPT ![p] = disk]
  /\ UNCHANGED <<world, disk, dirty, body, target, sent, warned, code, since, excuse>>

(* ensureToken; a login or a refresh sets saveData. *)
Token(p) ==
  /\ pc[p] = "token"
  /\ Goto(p, IF job[p].op = "edit" THEN "send" ELSE "sync")
  /\ \/ UNCHANGED dirty
     \/ job[p] \in Renewing /\ dirty' = [dirty EXCEPT ![p] = TRUE]
  /\ UNCHANGED <<world, disk, job, vault, body, target, sent, warned, code, since, excuse>>

TokenFails(p) == pc[p] = "token" /\ "net" \in Faults /\ Fail(p)

(* Faulty: the name is looked for in what data.json held. *)
SyncedStale(p) == UNCHANGED vault /\ dirty' = [dirty EXCEPT ![p] = TRUE]

(* Faulty: sync does not set saveData. *)
SyncedUnsaved(p) == vault' = [vault EXCEPT ![p] = server] /\ UNCHANGED dirty

Synced(p) ==
  /\ vault' = [vault EXCEPT ![p] = server] /\ dirty' = [dirty EXCEPT ![p] = TRUE]

Sync(p) ==
  /\ pc[p] = "sync" /\ Synced(p)
  /\ Goto(p, IF job[p].op = "create" THEN "check" ELSE "exit")
  /\ UNCHANGED <<world, disk, job, body, target, sent, warned, code, since, excuse>>

SyncFails(p) == pc[p] = "sync" /\ "net" \in Faults /\ Fail(p)

-----------------------------------------------------------------------------
(* create: no cipher of the name is found, and one that cannot be decrypted *)
(* is not the one.  initKeys is tried for each cipher until it has set the  *)
(* key: n times the prompt for the master password fails; when the key is   *)
(* set but an organization's is no good, that call fails, later ones, also  *)
(* that of build*Cipher, do not.  A note needs --notes, a login its secret. *)
Check(p) ==
  /\ pc[p] = "check"
  /\ \E n \in 0..Len(vault[p]) :
       LET skipped == n + (IF Broken THEN 1 ELSE 0)
           keyed   == n < Len(vault[p])
           goes    == /\ Matches(vault[p], job[p].name, skipped) = {}
                      /\ keyed \/ ~Broken
                      /\ job[p].kind = "note" => job[p].notes # Absent
       IN  /\ n > 0 => PromptFails
           /\ \/ /\ goes /\ Goto(p, "send")
                 /\ body' = [body EXCEPT ![p] = CreateBody(job[p])]
                 /\ excuse' = (excuse \/ skipped > 0)
                 /\ UNCHANGED <<world, disk, job, vault, dirty, target, sent, warned, code,
                                since>>
              \/ (~goes \/ PromptFails) /\ Fail(p)

(* edit: the keys, the cipher of the name in data.json, and the body. *)
Opens(p) ==
  /\ ~Broken /\ Matches(vault[p], job[p].name, 0) # {}
  /\ Fits(job[p], FindCipherByName(vault[p], job[p].name))

Open(p) ==
  /\ pc[p] = "open"
  /\ \/ /\ ~Broken /\ Matches(vault[p], job[p].name, 0) # {}
        /\ LET c == FindCipherByName(vault[p], job[p].name) IN
             /\ Fits(job[p], c)
             /\ Goto(p, "token")
             /\ target' = [target EXCEPT ![p] = c.id]
             /\ body' = [body EXCEPT ![p] = EditBody(c, job[p])]
             /\ UNCHANGED <<world, disk, job, vault, dirty, sent, warned, code, since, excuse>>
     \/ (~Opens(p) \/ PromptFails) /\ Fail(p)

(* POST /ciphers/create or PUT /ciphers/{id}. *)
Send(p) ==
  /\ pc[p] = "send" /\ sent[p] = None
  /\ Goto(p, "reply") /\ sent' = [sent EXCEPT ![p] = Request(p)]
  /\ UNCHANGED <<world, disk, job, local, warned, code, since, excuse>>

(* The connection breaks or the client's 10 seconds are over. *)
GiveUp(p) == pc[p] = "reply" /\ "net" \in Faults /\ Fail(p)

(* The sync that follows is best-effort. *)
Resync(p) ==
  /\ pc[p] = "resync" /\ Synced(p) /\ Goto(p, "exit")
  /\ UNCHANGED <<world, disk, job, body, target, sent, warned, code, since, excuse>>

ResyncFails(p) ==
  /\ pc[p] = "resync" /\ "net" \in Faults /\ Goto(p, "exit")
  /\ warned' = [warned EXCEPT ![p] = TRUE]
  /\ UNCHANGED <<world, disk, job, local, sent, code, since, excuse>>

Gone(p) ==
  /\ Goto(p, "idle") /\ job' = [job EXCEPT ![p] = NoJob]
  /\ vault' = [vault EXCEPT ![p] = <<>>] /\ dirty' = [dirty EXCEPT ![p] = FALSE]
  /\ body' = [body EXCEPT ![p] = NoBody] /\ target' = [target EXCEPT ![p] = 0]
  /\ warned' = [warned EXCEPT ![p] = FALSE] /\ code' = [code EXCEPT ![p] = 0]
  /\ since' = [since EXCEPT ![p] = {}]

SavedVault(p) == IF dirty[p] THEN vault[p] ELSE disk

(* The deferred save of run, and the process's end. *)
Exit(p) ==
  /\ pc[p] = "exit" /\ Gone(p) /\ disk' = SavedVault(p)
  /\ UNCHANGED <<world, sent, excuse>>

Kill(p) ==
  /\ "kill" \in Faults /\ pc[p] # "idle" /\ Gone(p)
  /\ UNCHANGED <<world, disk, sent, excuse>>

-----------------------------------------------------------------------------
(* The runs that are at creating a cipher n, from their sync to the reply,  *)
(* and the requests for it on their way.                                    *)
Creating(n) == {p \in Proc : job[p].op = "create" /\ job[p].name = n
                             /\ pc[p] \in {"check", "send", "reply"}}
Posted(n)   == {p \in Proc : sent[p].op = "create" /\ sent[p].body.name = n}

SinceThen(first) ==
  since' = [p \in Proc |-> IF p \in first THEN {server'}
                           ELSE IF since[p] = {} THEN {} ELSE since[p] \cup {server'}]

Sender(p) == IF pc[p] = "reply" THEN {p} ELSE {}

(* The reply is received, or gets lost, or nobody waits for it any more.    *)
Delivered(p) ==
  /\ sent' = [sent EXCEPT ![p] = None]
  /\ \/ pc[p] = "reply" /\ Goto(p, "resync")
     \/ (pc[p] # "reply" \/ "net" \in Faults) /\ UNCHANGED pc

(* The cipher that a body is made into. *)
Stored(b, id, org) ==
  [id |-> id, name |-> b.name, org |-> org, kind |-> b.kind, secret |-> b.secret,
   notes |-> b.notes, fields |-> b.fields, rest |-> b.rest]

(* The server makes a personal cipher. *)
ServerCreates(p) ==
  /\ sent[p].op = "create" /\ made < MaxCipher /\ made' = made + 1
  /\ server' = Append(server, Stored(sent[p].body, made + 1, Absent))
  /\ LET n == sent[p].body.name IN
       excuse' = (excuse \/ Creating(n) \ Sender(p) # {} \/ Posted(n) \ {p} # {})
  /\ SinceThen(Sender(p)) /\ Delivered(p)
  /\ UNCHANGED <<edits, disk, job, local, warned, code>>

(* The server replaces all of a cipher but its id and organization; what    *)
(* has been renamed since the body was made gets its old name back.         *)
ServerEdits(p) ==
  /\ sent[p].op = "edit"
  /\ \E i \in 1..Len(server) :
       /\ server[i].id = sent[p].id
       /\ excuse' = (excuse \/ server[i].name # sent[p].body.name)
       /\ server' = [server EXCEPT ![i] = Stored(sent[p].body, server[i].id, server[i].org)]
  /\ SinceThen(Sender(p)) /\ Delivered(p)
  /\ UNCHANGED <<made, edits, disk, job, local, warned, code>>

(* An error status: 404 if the cipher is gone.                              *)
ServerRefuses(p) ==
  /\ sent[p] # None
  /\ sent' = [sent EXCEPT ![p] = None]
  /\ IF pc[p] = "reply" THEN Goto(p, "exit") /\ code' = [code EXCEPT ![p] = 1]
     ELSE UNCHANGED <<pc, code>>
  /\ UNCHANGED <<world, disk, job, local, warned, since, excuse>>

(* Other clients; they, too, leave no two ciphers of one name. *)
Comes(n) == excuse' = (excuse \/ Creating(n) \cup Posted(n) # {})

OtherCreates ==
  /\ edits < MaxEdits /\ edits' = edits + 1
  /\ made < MaxCipher /\ made' = made + 1
  /\ \E n \in Name \ Names(server) :
       /\ \E c \in Strangers :
            server' = Append(server, [c EXCEPT !.id = made + 1, !.name = n])
       /\ Comes(n)
  /\ SinceThen({}) /\ UNCHANGED <<disk, pc, job, local, sent, warned, code>>

OtherEdits ==
  /\ edits < MaxEdits /\ edits' = edits + 1
  /\ \E i \in 1..Len(server), n \in Notes :
       /\ n # server[i].notes /\ server' = [server EXCEPT ![i].notes = n]
  /\ SinceThen({}) /\ UNCHANGED <<made, disk, pc, job, local, sent, warned, code, excuse>>

OtherRenames ==
  /\ edits < MaxEdits /\ edits' = edits + 1
  /\ \E i \in 1..Len(server), n \in Name \ Names(server) :
       /\ server' = [server EXCEPT ![i].name = n]
       /\ Comes(n)
  /\ SinceThen({}) /\ UNCHANGED <<made, disk, pc, job, local, sent, warned, code>>

OtherDeletes ==
  /\ edits < MaxEdits /\ edits' = edits + 1
  /\ \E i \in 1..Len(server) : server' = RemoveAt(server, i)
  /\ SinceThen({}) /\ UNCHANGED <<made, disk, pc, job, local, sent, warned, code, excuse>>

Next ==
  \/ \E p \in Proc :
       \/ Start(p) \/ Token(p) \/ TokenFails(p) \/ Sync(p) \/ SyncFails(p)
       \/ Check(p) \/ Open(p) \/ Send(p) \/ GiveUp(p)
       \/ Resync(p) \/ ResyncFails(p) \/ Exit(p) \/ Kill(p)
       \/ ServerCreates(p) \/ ServerEdits(p) \/ ServerRefuses(p)
  \/ OtherCreates \/ OtherEdits \/ OtherRenames \/ OtherDeletes

Spec == Init /\ [][Next]_vars

-----------------------------------------------------------------------------
Labels == {"idle", "open", "token", "sync", "check", "send", "reply", "resync",
          "exit"}
Body ==
  {b \in [name : Name, kind : Kind, secret : Content \cup {Missing}, notes : Content,
          fields : Fields, rest : Content] : SecretFits(b)}
Requests == [op : {"create", "edit"}, id : Nat, body : Body]

TypeOK ==
  /\ server \in Seq(Cipher) /\ made \in 0..MaxCipher /\ edits \in 0..MaxEdits
  /\ \A i \in 1..Len(server) : server[i].id \in 1..made
  /\ \A i, j \in 1..Len(server) : server[i].id = server[j].id => i = j
  /\ disk \in Seq(Cipher) /\ excuse \in BOOLEAN
  /\ pc \in [Proc -> Labels] /\ job \in [Proc -> Jobs \cup {NoJob}]
  /\ vault \in [Proc -> Seq(Cipher)] /\ dirty \in [Proc -> BOOLEAN]
  /\ body \in [Proc -> Body \cup {NoBody}] /\ target \in [Proc -> Nat]
  /\ sent \in [Proc -> Requests \cup {None}]
  /\ warned \in [Proc -> BOOLEAN] /\ code \in [Proc -> {0, 1}]
  /\ since \in [Proc -> SUBSET Seq(Cipher)]
  /\ \A p \in Proc : pc[p] # "idle" => job[p] \in Jobs

(* create is idempotent (create.go:38): whatever requests fail, are retried *)
(* by another run or arrive late, no name is there twice, unless two        *)
(* clients were at creating it at once, a stale edit gave a cipher its old  *)
(* name back, or the check passed over ciphers it could not decrypt.        *)
UniqueNames ==
  ~excuse => Distinct(server)

(* A create or edit that ends well, and without a warning, saves a list     *)
(* that the account had after the request was carried out: "the new item is *)
(* visible to subsequent bitw calls" (create.go:39).                        *)
VisibleAfter ==
  \A p \in Proc :
    (pc[p] = "exit" /\ code[p] = 0 /\ ~warned[p] /\ job[p].op \in {"create", "edit"})
      => SavedVault(p) \in since[p]

(* When an edit is carried out on a cipher that is as it was in data.json,  *)
(* the members it sends change as asked and in no other way: read as get    *)
(* reads them, the fields asked for have their new values, all others the   *)
(* old ones.  (Excepted are a cipher with two fields of one name, of which  *)
(* the edit changes the last and get reads the first, and the secret of a   *)
(* login or SSH key that has no such object: edit.go:193 and 229 drop it.)  *)
EditIsExact ==
  [][ \A p \in Proc :
        (pc[p] = "reply" /\ pc'[p] = "resync" /\ job[p].op = "edit") =>
          LET c == ById(server, target[p])  d == ById(server', target[p]) IN
          (c = ById(vault[p], target[p]) /\ Distinct(c.fields)) =>
            /\ d.name = c.name /\ d.org = c.org /\ d.kind = c.kind
            /\ c.secret # Missing =>
                 d.secret = (IF job[p].secret = Absent THEN c.secret ELSE job[p].secret)
            /\ d.notes = EditedNotes(c, job[p])
            /\ \A f \in FieldName :
                 ReadField(d.fields, f) =
                   (IF Asked(job[p].fields, f) = Absent THEN ReadField(c.fields, f)
                    ELSE Asked(job[p].fields, f)) ]_vars

(* "Refuses to create a cipher whose name already exists" (create.go:38):   *)
(* nothing is posted under a name that the list just synced holds.          *)
CreateRefuses ==
  [][ \A p \in Proc :
        (pc[p] = "send" /\ pc'[p] = "reply" /\ job[p].op = "create")
          => job[p].name \notin Names(vault[p]) ]_vars

(* "Unmodified fields are re-encrypted as-is to maintain the wire contract  *)
(* (all fields must be present)" (edit.go:163): the body of an edit carries *)
(* every member the cipher has in data.json.                                *)
EditKeepsRest ==
  \A p \in Proc :
    (pc[p] = "reply" /\ job[p].op = "edit")
      => body[p].rest = ById(vault[p], target[p]).rest

=============================================================================
