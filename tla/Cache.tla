-------------------------------- MODULE Cache --------------------------------
(***************************************************************************)
(* bitw cache: after a sync, the lines of the manifest are decrypted into  *)
(* a temporary file, which is then renamed to the output; when nothing     *)
(* failed, some of the values are mirrored into libsecret.  Several shells *)
(* may run it for the same output at a time.                               *)
(***************************************************************************)
EXTENDS Manifest, FiniteSets

CONSTANTS Proc, NoFile,
          Faults,       \* which of "kill" and "full" (no space left) may happen
          Mirrored,     \* the variables of --mirror-libsecret
          MaxEdits      \* bound on the vault's changes

ASSUME CacheAssumption ==
  /\ Faults \subseteq {"kill", "full"} /\ Mirrored \subseteq Var
  /\ MaxEdits \in Nat

VARIABLES
  vault, edits,  \* the account's vault, and how often it changed
  stored,    \* the vault in data.json
  out,       \* the file at the output path
  keyring,   \* what libsecret holds for each variable
  pc,
  snap,      \* globalData.Sync
  dirty,     \* saveData
  temp,      \* the contents of the temporary file ...
  linked,    \* ... and whether its name exists
  line,      \* the manifest line being worked on
  failed, total,  \* failures, and items counted
  decrypted, \* the map the mirror reads from
  todo,      \* variables still to be mirrored
  code,      \* the exit code to be
  during     \* history: the vaults the account had since

world == <<vault, edits>>
disks == <<stored, out, keyring>>
loop  == <<temp, linked, line, failed, total, decrypted>>
vars  == <<world, disks, pc, snap, dirty, loop, todo, code, during>>

Empty == [version |-> [c \in Cipher |-> 0], bad |-> {}]

Init ==
  /\ vault \in Vault /\ edits = 0
  /\ stored = Empty /\ out = NoFile
  /\ keyring = [v \in Var |-> None]
  /\ pc = [p \in Proc |-> "idle"] /\ snap = [p \in Proc |-> Empty]
  /\ dirty = [p \in Proc |-> FALSE]
  /\ temp = [p \in Proc |-> Blank] /\ linked = [p \in Proc |-> FALSE]
  /\ line = [p \in Proc |-> 1]
  /\ failed = [p \in Proc |-> 0] /\ total = [p \in Proc |-> 0]
  /\ decrypted = [p \in Proc |-> [v \in Var |-> None]]
  /\ todo = [p \in Proc |-> {}] /\ code = [p \in Proc |-> 0]
  /\ during = [p \in Proc |-> {}]

Goto(p, l) == pc' = [pc EXCEPT ![p] = l]

-----------------------------------------------------------------------------
(* The command starts with what data.json held. *)
Begin(p) ==
  /\ pc[p] = "idle" /\ Goto(p, "sync")
  /\ snap' = [snap EXCEPT ![p] = stored]
  /\ during' = [during EXCEPT ![p] = {vault}]
  /\ UNCHANGED <<world, disks, dirty, loop, todo, code>>

(* Faulty: an error return leaves the temporary file where it is.  *)
FailLeaving(p) ==
  /\ Goto(p, "exit") /\ code' = [code EXCEPT ![p] = 1]
  /\ UNCHANGED <<world, disks, snap, dirty, loop, todo, during>>

(* Every error return removes the temporary file, if there is one.  *)
Fail(p) ==
  /\ Goto(p, "exit") /\ code' = [code EXCEPT ![p] = 1]
  /\ linked' = [linked EXCEPT ![p] = FALSE]
  /\ UNCHANGED <<world, disks, snap, dirty, temp, line, failed, total,
                 decrypted, todo, during>>

(* Faulty: what cannot be synced is taken from data.json. *)
SyncFailsSoftly(p) ==
  /\ pc[p] = "sync" /\ Goto(p, "unlock")
  /\ UNCHANGED <<world, disks, snap, dirty, loop, todo, code, during>>

(* ensureToken or sync fails. *)
SyncFails(p) == pc[p] = "sync" /\ Fail(p)

(* ensureToken, and sync, which sets saveData.  (What sync's merge can get *)
(* wrong is the subject of SyncMerge.)                                      *)
Sync(p) ==
  /\ pc[p] = "sync" /\ Goto(p, "unlock")
  /\ snap' = [snap EXCEPT ![p] = vault] /\ dirty' = [dirty EXCEPT ![p] = TRUE]
  /\ UNCHANGED <<world, disks, loop, todo, code, during>>

(* The master password, the keys, the index of ciphers. *)
Unlock(p) ==
  /\ pc[p] = "unlock"
  /\ \/ /\ Goto(p, "open")
        /\ UNCHANGED <<world, disks, snap, dirty, loop, todo, code, during>>
     \/ Fail(p)

(* Faulty: the temporary file of every run has the same name. *)
SharedTemp(p) == CHOOSE q \in Proc : TRUE

(* os.CreateTemp finds a name that nobody uses. *)
TempOf(p) == p

Created(p) ==
  /\ Goto(p, "line")
  /\ temp' = [temp EXCEPT ![TempOf(p)] = Blank]
  /\ linked' = [linked EXCEPT ![p] = TRUE]
  /\ UNCHANGED <<world, disks, snap, dirty, line, failed, total, decrypted, todo, code,
                 during>>

Open(p) == pc[p] = "open" /\ (Created(p) \/ Fail(p))

(* fmt.Fprintf to the temporary file; its error is not looked at. *)
Fprintf(p, image) ==
  \/ temp' = [temp EXCEPT ![TempOf(p)] = image]
  \/ "full" \in Faults /\ UNCHANGED temp

(* Faulty: a field that is looked up again does not replace the first.      *)
MappedOnce(map, var, value) == IF map[var] = None THEN [map EXCEPT ![var] = value] ELSE map

Mapped(map, var, value) == [map EXCEPT ![var] = value]

(* Faulty: the [cache] section, too, passes over ciphers it does not find.  *)
SkipsAny(v, l) == ~Found(v, l)

(* The [cache-fields] section passes over a cipher that is not in the index. *)
Skips(v, l) == Section[l] = "fields" /\ ~Found(v, l)

(* One line of [cache] or one field of [cache-fields]. *)
ExportLine(p) ==
  LET l == line[p]  value == Reads(snap[p], l) IN
  /\ pc[p] = "line" /\ l <= Lines /\ ~IsAlias(l)
  /\ line' = [line EXCEPT ![p] = l + 1]
  /\ total' = [total EXCEPT ![p] = IF Skips(snap[p], l) THEN @ ELSE @ + 1]
  /\ failed' = [failed EXCEPT ![p] =
                  IF value # None \/ Skips(snap[p], l) THEN @ ELSE @ + 1]
  /\ IF value = None THEN UNCHANGED <<temp, decrypted>>
     ELSE /\ Fprintf(p, [temp[TempOf(p)] EXCEPT ![l] = value])
          /\ decrypted' = [decrypted EXCEPT ![p] = Mapped(@, VarOf[l], value)]
  /\ UNCHANGED <<world, disks, pc, snap, dirty, linked, todo, code, during>>

(* One line of [cache-aliases]: neither counted nor put in the map. *)
AliasLine(p) ==
  LET l == line[p] IN
  /\ pc[p] = "line" /\ l <= Lines /\ IsAlias(l)
  /\ line' = [line EXCEPT ![p] = l + 1]
  /\ Fprintf(p, [temp[TempOf(p)] EXCEPT ![l] = Reference(l)])
  /\ UNCHANGED <<world, disks, pc, snap, dirty, linked, failed, total, decrypted, todo, code,
                 during>>

(* chmod, close, rename: the file is replaced even if lines failed, but     *)
(* then, or if nothing was counted, that is an error and nothing mirrored.  *)
Replaced(p) ==
  /\ out' = temp[TempOf(p)] /\ linked' = [linked EXCEPT ![p] = FALSE]
  /\ IF failed[p] > 0 \/ total[p] = 0
       THEN Goto(p, "exit") /\ code' = [code EXCEPT ![p] = 1] /\ UNCHANGED todo
       ELSE Goto(p, "mirror") /\ todo' = [todo EXCEPT ![p] = Mirrored] /\ UNCHANGED code
  /\ UNCHANGED <<world, stored, keyring, snap, dirty, temp, line, failed, total, decrypted,
                 during>>

Rename(p) == pc[p] = "line" /\ line[p] > Lines /\ (Replaced(p) \/ Fail(p))

(* mirrorLibsecretVars: a variable that was not decrypted is passed over, a *)
(* secret-tool that fails is warned of.                                     *)
Mirror(p) ==
  /\ pc[p] = "mirror"
  /\ \E v \in todo[p] :
       /\ todo' = [todo EXCEPT ![p] = @ \ {v}]
       /\ \/ decrypted[p][v] # None /\ keyring' = [keyring EXCEPT ![v] = decrypted[p][v]]
          \/ UNCHANGED keyring
  /\ UNCHANGED <<world, stored, out, pc, snap, dirty, loop, code, during>>

MirrorEnds(p) ==
  /\ pc[p] = "mirror" /\ todo[p] = {} /\ Goto(p, "exit")
  /\ UNCHANGED <<world, disks, snap, dirty, loop, todo, code, during>>

-----------------------------------------------------------------------------
(* Faulty: the counts of one run go on in the next. *)
GoneUncounted(p) ==
  /\ Goto(p, "idle")
  /\ snap' = [snap EXCEPT ![p] = Empty] /\ dirty' = [dirty EXCEPT ![p] = FALSE]
  /\ temp' = [temp EXCEPT ![p] = Blank] /\ linked' = [linked EXCEPT ![p] = FALSE]
  /\ line' = [line EXCEPT ![p] = 1] /\ UNCHANGED <<failed, total>>
  /\ decrypted' = [decrypted EXCEPT ![p] = [v \in Var |-> None]]
  /\ todo' = [todo EXCEPT ![p] = {}] /\ code' = [code EXCEPT ![p] = 0]
  /\ during' = [during EXCEPT ![p] = {}]

(* Nothing is left of a run that is over. *)
Gone(p) ==
  /\ Goto(p, "idle")
  /\ snap' = [snap EXCEPT ![p] = Empty] /\ dirty' = [dirty EXCEPT ![p] = FALSE]
  /\ temp' = [temp EXCEPT ![p] = Blank] /\ linked' = [linked EXCEPT ![p] = FALSE]
  /\ line' = [line EXCEPT ![p] = 1]
  /\ failed' = [failed EXCEPT ![p] = 0] /\ total' = [total EXCEPT ![p] = 0]
  /\ decrypted' = [decrypted EXCEPT ![p] = [v \in Var |-> None]]
  /\ todo' = [todo EXCEPT ![p] = {}] /\ code' = [code EXCEPT ![p] = 0]
  /\ during' = [during EXCEPT ![p] = {}]

(* The deferred save, and the process's end. *)
Exit(p) ==
  /\ pc[p] = "exit" /\ Gone(p)
  /\ stored' = (IF dirty[p] THEN snap[p] ELSE stored)
  /\ UNCHANGED <<world, out, keyring>>

(* SIGKILL, or the SIGINT handler's os.Exit: no deferred function runs. *)
Kill(p) ==
  /\ "kill" \in Faults /\ pc[p] # "idle" /\ Gone(p)
  /\ UNCHANGED <<world, stored, out, keyring>>

(* Other clients edit, delete, restore ciphers; a field may be unreadable.  *)
Change ==
  /\ edits < MaxEdits /\ edits' = edits + 1
  /\ vault' \in Vault \ {vault}
  /\ during' = [p \in Proc |-> IF during[p] = {} THEN {} ELSE during[p] \cup {vault'}]
  /\ UNCHANGED <<disks, pc, snap, dirty, loop, todo, code>>

Next ==
  \/ \E p \in Proc :
       \/ Begin(p) \/ Sync(p) \/ SyncFails(p) \/ Unlock(p) \/ Open(p)
       \/ ExportLine(p) \/ AliasLine(p) \/ Rename(p) \/ Mirror(p) \/ MirrorEnds(p)
       \/ Exit(p) \/ Kill(p)
  \/ Change

Spec == Init /\ [][Next]_vars

-----------------------------------------------------------------------------
Labels == {"idle", "sync", "unlock", "open", "line", "mirror", "exit"}

TypeOK ==
  /\ vault \in Vault /\ stored \in Vault /\ edits \in 0..MaxEdits
  /\ out \in Image \cup {NoFile}
  /\ keyring \in [Var -> Value \cup {None}]
  /\ pc \in [Proc -> Labels] /\ snap \in [Proc -> Vault] /\ dirty \in [Proc -> BOOLEAN]
  /\ temp \in [Proc -> Image] /\ linked \in [Proc -> BOOLEAN]
  /\ line \in [Proc -> 1..(Lines + 1)]
  /\ failed \in [Proc -> 0..Lines] /\ total \in [Proc -> 0..Lines]
  /\ decrypted \in [Proc -> [Var -> Value \cup {None}]]
  /\ todo \in [Proc -> SUBSET Mirrored] /\ code \in [Proc -> {0, 1}]
  /\ during \in [Proc -> SUBSET Vault]

(* cmdCache's "atomic write" implements CacheFile: the output goes from one *)
(* whole rendering to another in one step, and each is of a vault the       *)
(* account had while the run that wrote it went on.                         *)
Atomic == INSTANCE CacheFile WITH file <- out
ReplacesAtomically == Atomic!Spec

(* A run that exits with 0 has exported every line of [cache].              *)
ExitTruth ==
  \A p \in Proc : (pc[p] = "exit" /\ code[p] = 0) =>
    \A l \in Line : Section[l] = "cache" => temp[p][l] # None

(* What is mirrored into libsecret is what the exports of [cache] and       *)
(* [cache-fields] in the run's own file leave in the variable, and a stored *)
(* value is never replaced by nothing: the decrypted map and the file,      *)
(* filled by the same loops, agree though the map keeps one value for a     *)
(* name and the file a line for each.  It is what a shell that sources the  *)
(* whole file has there, too, unless an alias exports the variable again.   *)
MirrorAgrees ==
  [][ \A v \in Var : keyring'[v] # keyring[v] =>
        /\ keyring'[v] # None
        /\ \E p \in Proc :
             /\ pc[p] = "mirror" /\ keyring'[v] = Sourced(Unaliased(temp[p]), v)
             /\ (\A l \in Line : IsAlias(l) => VarOf[l] # v) =>
                  keyring'[v] = Sourced(temp[p], v) ]_vars

(* Only a run that is cut short leaves its temporary file behind: one that  *)
(* gets to its end, on whatever path, has renamed or removed it.            *)
NoLitter == \A p \in Proc : pc[p] = "exit" => ~linked[p]

=============================================================================
