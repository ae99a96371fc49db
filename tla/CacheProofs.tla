----------------------------- MODULE CacheProofs -----------------------------
(* Proofs about Cache for every manifest, every number of runs and any      *)
(* number of changes, as long as the disk does not run full.                *)
EXTENDS Cache, DataLemmas, TLAPS

USE ManifestAssumption, CacheAssumption DEF ManifestAssumption, CacheAssumption

(* What a run that has worked through the lines before l has written. *)
WrittenTo(v, l) == [k \in Line |-> IF k < l THEN Written(v, k) ELSE None]

Counted(p) == failed[p] < line[p] /\ total[p] < line[p]

(* Before it has opened its file, a run has worked on no line. *)
Pending(p) ==
  pc[p] \in {"idle", "sync", "unlock", "open"} =>
    line[p] = 1 /\ decrypted[p] = [v \in Var |-> None]

(* The vault a run works on is one the account had since the run began. *)
InTouch(p) ==
  /\ (pc[p] = "idle") <=> (during[p] = {})
  /\ pc[p] # "idle" => vault \in during[p]
  /\ pc[p] \in {"unlock", "open", "line", "mirror"} => snap[p] \in during[p]

(* The temporary file has the lines so far, and at last all of them. *)
Filled(p) ==
  /\ pc[p] = "line" => temp[p] = WrittenTo(snap[p], line[p])
  /\ pc[p] = "mirror" => temp[p] = Rendered(snap[p]) /\ line[p] = Lines + 1

(* A line of [cache] without a value has been counted as failed. *)
FailsSeen(p) ==
  (pc[p] = "line" /\ failed[p] = 0) =>
    \A l \in Line : (Section[l] = "cache" /\ l < line[p]) => Reads(snap[p], l) # None

(* A run that has not failed has exported every line of [cache]. *)
Truthful(p) ==
  (pc[p] = "mirror" \/ (pc[p] = "exit" /\ code[p] = 0)) =>
    \A l \in Line : Section[l] = "cache" => temp[p][l] # None

(* The decrypted map says what a shell has in its variables that has read   *)
(* the lines of the file so far, but for the aliases.                       *)
Env == [Var -> (Line \X (0..MaxVersion)) \cup {None}]
Unset == [v \in Var |-> None]
Aliased(v) == \E l \in Line : IsAlias(l) /\ VarOf[l] = v
Agrees(s, n, map) ==
  /\ After(Unaliased(Rendered(s)))[n] = map
  /\ After(Rendered(s))[n] \in Env
  /\ \A v \in Var : Aliased(v) \/ After(Rendered(s))[n][v] = map[v]

MapAgrees(p) ==
  pc[p] \in {"line", "mirror"} => Agrees(snap[p], line[p] - 1, decrypted[p])

Linked(p) == linked[p] => pc[p] = "line"

RunInv(p) ==
  /\ Counted(p) /\ Pending(p) /\ InTouch(p) /\ Linked(p)
  /\ Filled(p) /\ FailsSeen(p) /\ Truthful(p) /\ MapAgrees(p)

Coherent == \A p \in Proc : RunInv(p)

IInv == TypeOK /\ Coherent

(* What of it holds on a full disk, too. *)
Bookkept == \A p \in Proc : Counted(p) /\ Linked(p)

-----------------------------------------------------------------------------
(* Facts about vaults and files. *)
LEMMA EmptyIsVault == Empty \in Vault
  BY SMT DEF Empty, Vault, Found

LEMMA ReadsType ==
  ASSUME NEW v \in Vault, NEW l \in Line, ~IsAlias(l)
  PROVE  Reads(v, l) \in Value \cup {None}
<1>1. SourceOf[l] \in Cipher
  OBVIOUS
<1> QED BY <1>1 DEF Vault, Reads, Found, Value

LEMMA BlankImage == Blank \in Image
  BY DEF Blank, Image

LEMMA WrittenType ==
  ASSUME NEW v \in Vault, NEW l \in Line
  PROVE  Written(v, l) \in (Line \X (0..MaxVersion)) \cup {None}
  BY ReadsType DEF Written, Reference, Value

LEMMA RenderedImage ==
  ASSUME NEW v \in Vault
  PROVE  Rendered(v) \in Image /\ Unaliased(Rendered(v)) \in Image
<1>1. Rendered(v) \in Image
  BY WrittenType DEF Rendered, Image
<1> QED BY <1>1 DEF Unaliased, Image

LEMMA ExportedType ==
  ASSUME NEW i \in Image, NEW env \in Env, NEW l \in Line
  PROVE  Exported(env, i, l) \in Env
<1>1. i[l] \in (Line \X (0..MaxVersion)) \cup {None} /\ VarOf[l] \in Var
  BY DEF Image
<1>2. IsAlias(l) => env[SourceOf[l]] \in (Line \X (0..MaxVersion)) \cup {None}
  BY DEF Env
<1> QED BY <1>1, <1>2 DEF Exported, Env

(* What sourcing a file does, line by line. *)
LEMMA AfterSteps ==
  ASSUME NEW i \in Image
  PROVE  /\ After(i)[0] = Unset
         /\ \A n \in Line : After(i)[n] = Exported(After(i)[n - 1], i, n)
<1> DEFINE step == [x \in Env \X Line |-> Exported(x[1], i, x[2])]
           s == [k \in 1..Lines |-> k]
<1>1. Unset \in Env /\ step \in [Env \X Line -> Env] /\ s \in [1..Lines -> Line]
  BY ExportedType DEF Unset, Env, Line
<1>2. PICK r \in [0..Lines -> Env] : \E t : Chain(Unset, step, Lines, s, t, r)
  <2> HIDE DEF step, s
  <2> QED BY <1>1, FoldSteps
<1>3. r[0] = Unset /\ \A k \in 1..Lines : r[k] = step[<<r[k - 1], s[k]>>]
  BY <1>2 DEF Chain
<1>4. \A k \in 1..Lines : r[k] = Exported(r[k - 1], i, k)
  <2> SUFFICES ASSUME NEW k \in 1..Lines PROVE r[k] = Exported(r[k - 1], i, k)
    OBVIOUS
  <2>1. k - 1 \in 0..Lines /\ r[k - 1] \in Env /\ k \in Line
    BY DEF Line
  <2> QED BY <1>3, <2>1
<1> DEFINE f == [n \in 0..Lines |->
                   IF n = 0 THEN [v \in Var |-> None] ELSE Exported(r[n - 1], i, n)]
<1>5. r = f
  <2>1. \A n \in 0..Lines : r[n] = f[n]
    BY <1>3, <1>4 DEF Unset
  <2> QED BY <2>1
<1>6. After(i) = [n \in 0..Lines |-> IF n = 0 THEN [v \in Var |-> None]
                                   ELSE Exported(After(i)[n - 1], i, n)]
  BY <1>5 DEF After
<1>7. 0 \in 0..Lines /\ \A n \in Line : n \in 0..Lines /\ n # 0
  BY DEF Line
<1> HIDE DEF step, s, f
<1> QED BY <1>6, <1>7 DEF Unset

(* Before its first line a file has set nothing. *)
LEMMA AgreesAtFirst ==
  ASSUME NEW s \in Vault
  PROVE  Agrees(s, 0, Unset)
  BY RenderedImage, AfterSteps DEF Agrees, Unset, Env

(* A line of [cache] or [cache-fields] does the same to the map and in the  *)
(* shell, and an alias does nothing to a variable that it does not name.    *)
LEMMA AgreesOnward ==
  ASSUME NEW s \in Vault, NEW l \in Line, NEW map \in Env, Agrees(s, l - 1, map)
  PROVE  Agrees(s, l, IF IsAlias(l) \/ Reads(s, l) = None THEN map
                      ELSE [map EXCEPT ![VarOf[l]] = Reads(s, l)])
<1> DEFINE i == Rendered(s)  j == Unaliased(i)  env == After(i)[l - 1]
<1>1. i \in Image /\ j \in Image /\ VarOf[l] \in Var
  BY RenderedImage
<1>2. After(i)[l] = Exported(env, i, l) /\ After(j)[l] = Exported(After(j)[l - 1], j, l)
  BY <1>1, AfterSteps
<1>3. After(j)[l - 1] = map /\ env \in Env
  BY DEF Agrees
<1>4. After(i)[l] \in Env
  BY <1>1, <1>2, <1>3, ExportedType
<1>5. i[l] = Written(s, l) /\ j[l] = IF IsAlias(l) THEN None ELSE Written(s, l)
  BY DEF Rendered, Unaliased
<1>6. \A v \in Var : Aliased(v) \/ env[v] = map[v]
  BY DEF Agrees
<1> HIDE DEF i, j, env
<1>7. CASE IsAlias(l)
  <2>1. After(j)[l] = map
    BY <1>2, <1>3, <1>5, <1>7 DEF Exported
  <2>2. ASSUME NEW v \in Var, ~Aliased(v)
        PROVE  After(i)[l][v] = map[v]
    <3>1. v # VarOf[l]
      BY <1>7, <2>2 DEF Aliased
    <3>2. After(i)[l][v] = env[v]
      BY <1>2, <1>3, <3>1 DEF Exported, Env
    <3> QED BY <1>6, <2>2, <3>2
  <2> QED BY <1>4, <1>7, <2>1, <2>2 DEF Agrees, i, j
<1>8. CASE ~IsAlias(l) /\ Reads(s, l) = None
  <2>1. After(j)[l] = map /\ After(i)[l] = env
    BY <1>2, <1>3, <1>5, <1>8 DEF Exported, Written
  <2> QED BY <1>4, <1>6, <1>8, <2>1 DEF Agrees, i, j
<1>9. CASE ~IsAlias(l) /\ Reads(s, l) # None
  <2>1. /\ After(j)[l] = [map EXCEPT ![VarOf[l]] = Reads(s, l)]
        /\ After(i)[l] = [env EXCEPT ![VarOf[l]] = Reads(s, l)]
    BY <1>2, <1>3, <1>5, <1>9 DEF Exported, Written
  <2>2. ASSUME NEW v \in Var, ~Aliased(v)
        PROVE  After(i)[l][v] = [map EXCEPT ![VarOf[l]] = Reads(s, l)][v]
    BY <1>3, <1>6, <2>1, <2>2 DEF Env
  <2> QED BY <1>4, <1>9, <2>1, <2>2 DEF Agrees, i, j
<1> QED BY <1>7, <1>8, <1>9

-----------------------------------------------------------------------------
(* Types. *)
LEMMA InitType == Init => TypeOK
  BY EmptyIsVault, BlankImage DEF Init, TypeOK, Labels

LEMMA FailType ==
  ASSUME TypeOK, NEW p \in Proc, Fail(p)
  PROVE  TypeOK'
  BY DEF TypeOK, Fail, Goto, Labels, world, disks

LEMMA GoneType ==
  ASSUME TypeOK, NEW p \in Proc, Gone(p), UNCHANGED <<world, out, keyring>>,
         stored' \in Vault
  PROVE  TypeOK'
<1>1. [v \in Var |-> None] \in [Var -> Value \cup {None}]
  OBVIOUS
<1>2. 1 \in 1..(Lines + 1) /\ 0 \in 0..Lines
  OBVIOUS
<1>3. pc' \in [Proc -> Labels] /\ temp' \in [Proc -> Image] /\ snap' \in [Proc -> Vault]
  BY EmptyIsVault, BlankImage DEF TypeOK, Gone, Goto, Labels
<1>4. decrypted' \in [Proc -> [Var -> Value \cup {None}]]
  BY <1>1 DEF TypeOK, Gone
<1> QED BY <1>2, <1>3, <1>4 DEF TypeOK, Gone, world

(* What a run writes is an image. *)
LEMMA WriteType ==
  ASSUME NEW i \in Image, NEW l \in Line, NEW x \in (Line \X (0..MaxVersion)) \cup {None}
  PROVE  [i EXCEPT ![l] = x] \in Image
  BY DEF Image

LEMMA ExportLineType ==
  ASSUME TypeOK, NEW p \in Proc, Counted(p), ExportLine(p)
  PROVE  TypeOK'
<1> DEFINE l == line[p]  value == Reads(snap[p], l)
<1>1. l \in Line /\ snap[p] \in Vault /\ temp[p] \in Image /\ ~IsAlias(l)
  BY DEF TypeOK, ExportLine, Line
<1>2. value \in Value \cup {None}
  BY <1>1, ReadsType
<1>3. line' \in [Proc -> 1..(Lines + 1)]
  BY <1>1 DEF TypeOK, ExportLine, Line
<1>4. failed' \in [Proc -> 0..Lines] /\ total' \in [Proc -> 0..Lines]
  <2>1. failed[p] + 1 \in 0..Lines /\ total[p] + 1 \in 0..Lines
    BY <1>1 DEF TypeOK, Counted, Line
  <2> QED BY <2>1 DEF TypeOK, ExportLine
<1>5. temp' \in [Proc -> Image]
  <2>1. [temp[p] EXCEPT ![l] = value] \in Image
    BY <1>1, <1>2, WriteType DEF Value
  <2>2. temp' = temp \/ temp' = [temp EXCEPT ![p] = [temp[p] EXCEPT ![l] = value]]
    BY DEF ExportLine, Fprintf, TempOf
  <2>3. temp \in [Proc -> Image]
    BY DEF TypeOK
  <2> HIDE DEF l, value
  <2> QED BY <2>1, <2>2, <2>3
<1>6. decrypted' \in [Proc -> [Var -> Value \cup {None}]]
  <2>1. decrypted \in [Proc -> [Var -> Value \cup {None}]]
    BY DEF TypeOK
  <2>2. [decrypted[p] EXCEPT ![VarOf[l]] = value] \in [Var -> Value \cup {None}]
    BY <1>1, <1>2, <2>1
  <2>3. \/ decrypted' = decrypted
        \/ decrypted' = [decrypted EXCEPT ![p] = [decrypted[p] EXCEPT ![VarOf[l]] = value]]
    BY <2>1 DEF ExportLine, Mapped
  <2> HIDE DEF l, value
  <2> QED BY <2>1, <2>2, <2>3
<1> QED BY <1>3, <1>4, <1>5, <1>6 DEF TypeOK, ExportLine, world, disks

LEMMA TypeStep ==
  ASSUME TypeOK, Bookkept, Next
  PROVE  TypeOK'
<1>1. ASSUME NEW p \in Proc, Begin(p)  PROVE TypeOK'
  BY <1>1 DEF TypeOK, Begin, Goto, Labels, world, disks, loop
<1>2. ASSUME NEW p \in Proc, Sync(p)  PROVE TypeOK'
  BY <1>2 DEF TypeOK, Sync, Goto, Labels, world, disks, loop
<1>3. ASSUME NEW p \in Proc, SyncFails(p)  PROVE TypeOK'
  BY <1>3, FailType DEF SyncFails
<1>4. ASSUME NEW p \in Proc, Unlock(p)  PROVE TypeOK'
  <2>1. CASE Fail(p)
    BY <2>1, FailType
  <2>2. CASE ~Fail(p)
    BY <1>4, <2>2 DEF TypeOK, Unlock, Goto, Labels, world, disks, loop
  <2> QED BY <2>1, <2>2
<1>5. ASSUME NEW p \in Proc, Open(p)  PROVE TypeOK'
  <2>1. CASE Fail(p)
    BY <2>1, FailType
  <2>2. CASE Created(p)
    <3>1. pc' \in [Proc -> Labels]
      BY <2>2 DEF TypeOK, Created, Goto, Labels
    <3>2. temp' \in [Proc -> Image] /\ linked' \in [Proc -> BOOLEAN]
      BY <2>2, BlankImage DEF TypeOK, Created, TempOf
    <3> QED BY <2>2, <3>1, <3>2 DEF TypeOK, Created, world, disks
  <2> QED BY <1>5, <2>1, <2>2 DEF Open
<1>6. ASSUME NEW p \in Proc, ExportLine(p)  PROVE TypeOK'
  BY <1>6, ExportLineType DEF Bookkept
<1>7. ASSUME NEW p \in Proc, AliasLine(p)  PROVE TypeOK'
  <2>1. line[p] \in Line /\ line' \in [Proc -> 1..(Lines + 1)]
    BY <1>7 DEF TypeOK, AliasLine, Line
  <2>2. temp' \in [Proc -> Image]
    <3> DEFINE x == Reference(line[p])
    <3>1. x \in (Line \X (0..MaxVersion)) \cup {None} /\ temp[p] \in Image
      BY <2>1 DEF TypeOK, Reference
    <3>2. temp' = temp \/ temp' = [temp EXCEPT ![p] = [temp[p] EXCEPT ![line[p]] = x]]
      BY <1>7 DEF AliasLine, Fprintf, TempOf
    <3>3. temp \in [Proc -> Image]
      BY DEF TypeOK
    <3> HIDE DEF x
    <3>4. [temp[p] EXCEPT ![line[p]] = x] \in Image
      BY <2>1, <3>1, WriteType
    <3> QED BY <3>2, <3>3, <3>4
  <2> QED BY <1>7, <2>1, <2>2 DEF TypeOK, AliasLine, world, disks
<1>8. ASSUME NEW p \in Proc, Rename(p)  PROVE TypeOK'
  <2>1. CASE Fail(p)
    BY <2>1, FailType
  <2>2. CASE Replaced(p)
    <3>1. pc' \in [Proc -> Labels] /\ code' \in [Proc -> {0, 1}]
      <4>1. pc \in [Proc -> Labels] /\ code \in [Proc -> {0, 1}]
        BY DEF TypeOK
      <4> QED BY <2>2, <4>1 DEF Replaced, Goto, Labels
    <3>2. todo' \in [Proc -> SUBSET Mirrored] /\ linked' \in [Proc -> BOOLEAN]
      <4>1. todo \in [Proc -> SUBSET Mirrored] /\ linked \in [Proc -> BOOLEAN]
        BY DEF TypeOK
      <4>2. todo' \in [Proc -> SUBSET Mirrored]
        BY <2>2, <4>1 DEF Replaced
      <4>3. linked' \in [Proc -> BOOLEAN]
        BY <2>2, <4>1 DEF Replaced
      <4> QED BY <4>2, <4>3
    <3>3. out' \in Image
      BY <2>2 DEF TypeOK, Replaced, TempOf
    <3> QED BY <2>2, <3>1, <3>2, <3>3 DEF TypeOK, Replaced, world
  <2> QED BY <1>8, <2>1, <2>2 DEF Rename
<1>9. ASSUME NEW p \in Proc, Mirror(p)  PROVE TypeOK'
  <2>1. todo' \in [Proc -> SUBSET Mirrored]
    BY <1>9 DEF TypeOK, Mirror
  <2>2. keyring' \in [Var -> Value \cup {None}]
    <3>1. PICK v \in todo[p] : keyring' = [keyring EXCEPT ![v] = decrypted[p][v]] \/ UNCHANGED keyring
      BY <1>9 DEF Mirror
    <3>2. v \in Var /\ decrypted[p][v] \in Value \cup {None}
      BY DEF TypeOK
    <3> QED BY <3>1, <3>2 DEF TypeOK
  <2> QED BY <1>9, <2>1, <2>2 DEF TypeOK, Mirror, world, loop
<1>10. ASSUME NEW p \in Proc, MirrorEnds(p)  PROVE TypeOK'
  BY <1>10 DEF TypeOK, MirrorEnds, Goto, Labels, world, disks, loop
<1>11. ASSUME NEW p \in Proc, Exit(p)  PROVE TypeOK'
  BY <1>11, GoneType DEF TypeOK, Exit
<1>12. ASSUME NEW p \in Proc, Kill(p)  PROVE TypeOK'
  BY <1>12, GoneType DEF TypeOK, Kill
<1>13. CASE Change
  BY <1>13 DEF TypeOK, Change, disks, loop
<1> QED
  BY <1>1, <1>2, <1>3, <1>4, <1>5, <1>6, <1>7, <1>8, <1>9, <1>10, <1>11, <1>12, <1>13 DEF Next

-----------------------------------------------------------------------------
(* The invariant of one run. *)
Same(p) ==
  /\ pc'[p] = pc[p] /\ snap'[p] = snap[p] /\ temp'[p] = temp[p] /\ linked'[p] = linked[p]
  /\ line'[p] = line[p] /\ failed'[p] = failed[p] /\ total'[p] = total[p]
  /\ decrypted'[p] = decrypted[p] /\ code'[p] = code[p] /\ during'[p] = during[p]

LEMMA SameRun ==
  ASSUME NEW p \in Proc, RunInv(p), Same(p), UNCHANGED vault
  PROVE  RunInv(p)'
  BY DEF RunInv, Same, Counted, Pending, InTouch, Linked, Filled, FailsSeen, Truthful, MapAgrees

LEMMA InitRun ==
  ASSUME Init, NEW p \in Proc
  PROVE  RunInv(p)
  BY DEF Init, RunInv, Counted, Pending, InTouch, Linked, Filled, FailsSeen, Truthful, MapAgrees

LEMMA FailRun ==
  ASSUME TypeOK, NEW p \in Proc, RunInv(p), pc[p] # "idle", Fail(p)
  PROVE  RunInv(p)'
  BY DEF TypeOK, Fail, Goto, world, RunInv, Counted, Pending, InTouch, Linked, Filled,
         FailsSeen, Truthful, MapAgrees

LEMMA GoneRun ==
  ASSUME TypeOK, NEW p \in Proc, Gone(p)
  PROVE  RunInv(p)'
  BY DEF TypeOK, Gone, Goto, RunInv, Counted, Pending, InTouch, Linked, Filled,
         FailsSeen, Truthful, MapAgrees

LEMMA CreatedRun ==
  ASSUME TypeOK, NEW p \in Proc, RunInv(p), pc[p] = "open", Created(p)
  PROVE  RunInv(p)'
<1>1. /\ pc'[p] = "line" /\ line'[p] = 1 /\ snap'[p] = snap[p] /\ temp'[p] = Blank
      /\ decrypted'[p] = [v \in Var |-> None]
  BY DEF TypeOK, Created, Goto, TempOf, RunInv, Pending
<1>2. Counted(p)' /\ Pending(p)' /\ InTouch(p)' /\ Linked(p)' /\ Truthful(p)'
  BY <1>1 DEF TypeOK, Created, world, RunInv, Counted, Pending, InTouch, Linked, Truthful
<1>3. Filled(p)'
  <2>1. WrittenTo(snap[p], 1) = [l \in Line |-> None]
    BY DEF WrittenTo, Line
  <2> QED BY <1>1, <2>1 DEF Filled, Blank
<1>4. FailsSeen(p)'
  BY <1>1 DEF FailsSeen, Line
<1>5. MapAgrees(p)'
  BY <1>1, AgreesAtFirst DEF MapAgrees, Unset, TypeOK
<1> QED BY <1>2, <1>3, <1>4, <1>5 DEF RunInv

(* One more line of the file has been written. *)
LEMMA WriteLine ==
  ASSUME NEW v \in Vault, NEW l \in Line
  PROVE  /\ WrittenTo(v, l + 1) = [WrittenTo(v, l) EXCEPT ![l] = Written(v, l)]
         /\ Written(v, l) = None => WrittenTo(v, l + 1) = WrittenTo(v, l)
<1> DEFINE f == [WrittenTo(v, l) EXCEPT ![l] = Written(v, l)]
<1>1. f = [k \in Line |-> IF k = l THEN Written(v, l) ELSE WrittenTo(v, l)[k]]
  BY DEF WrittenTo
<1>2. \A k \in Line : f[k] = WrittenTo(v, l + 1)[k]
  BY <1>1 DEF WrittenTo, Line
<1>3. f = [k \in Line |-> f[k]] /\ WrittenTo(v, l + 1) = [k \in Line |-> WrittenTo(v, l + 1)[k]]
  BY <1>1 DEF WrittenTo
<1>4. ASSUME Written(v, l) = None  PROVE WrittenTo(v, l + 1) = WrittenTo(v, l)
  BY <1>4 DEF WrittenTo, Line
<1> QED BY <1>2, <1>3, <1>4

LEMMA ExportLineRun ==
  ASSUME TypeOK, "full" \notin Faults, NEW p \in Proc, RunInv(p), ExportLine(p)
  PROVE  RunInv(p)'
<1> DEFINE l == line[p]  s == snap[p]  value == Reads(s, l)
<1>1. /\ l \in Line /\ line'[p] = l + 1 /\ pc[p] = "line" /\ pc'[p] = "line"
      /\ snap'[p] = s /\ s \in Vault /\ ~IsAlias(l)
      /\ temp[p] \in Image /\ decrypted[p] \in [Var -> Value \cup {None}]
  BY DEF TypeOK, ExportLine, Line
<1>2. temp[p] = WrittenTo(s, l)
  BY <1>1 DEF RunInv, Filled
<1>3. temp'[p] = WrittenTo(s, l + 1)
  <2>0. Written(s, l) = value
    BY <1>1 DEF Written
  <2>1. CASE value = None
    <3>1. temp'[p] = temp[p]
      BY <2>1 DEF ExportLine
    <3> QED BY <1>1, <1>2, <2>0, <2>1, <3>1, WriteLine
  <2>2. CASE value # None
    <3>1. temp'[p] = [temp[p] EXCEPT ![l] = value]
      BY <2>2 DEF TypeOK, ExportLine, Fprintf, TempOf
    <3>2. WrittenTo(s, l + 1) = [WrittenTo(s, l) EXCEPT ![l] = Written(s, l)]
      BY <1>1, WriteLine
    <3> HIDE DEF l, s, value
    <3> QED BY <1>2, <2>0, <3>1, <3>2
  <2> QED BY <2>1, <2>2
<1>4. Counted(p)'
  <2>1. /\ failed[p] \in Int /\ total[p] \in Int /\ line[p] \in Int
        /\ failed[p] < line[p] /\ total[p] < line[p]
    BY DEF TypeOK, RunInv, Counted
  <2>2. line'[p] = line[p] + 1
    BY DEF TypeOK, ExportLine
  <2>3. failed'[p] \in {failed[p], failed[p] + 1} /\ total'[p] \in {total[p], total[p] + 1}
    BY DEF TypeOK, ExportLine
  <2> QED BY <2>1, <2>2, <2>3 DEF Counted
<1>5. Pending(p)' /\ InTouch(p)' /\ Linked(p)' /\ Truthful(p)' /\ Filled(p)'
  BY <1>1, <1>3 DEF ExportLine, world, RunInv, Pending, InTouch, Linked, Truthful, Filled
<1>6. FailsSeen(p)'
  <2>1. SUFFICES ASSUME failed'[p] = 0, NEW k \in Line, Section[k] = "cache", k < l + 1
                 PROVE  Reads(s, k) # None
    BY <1>1, <2>1 DEF FailsSeen
  <2>2. failed[p] = 0 /\ (value # None \/ Skips(s, l))
    BY <2>1, <1>1 DEF TypeOK, ExportLine
  <2>3. CASE k < l
    BY <1>1, <2>1, <2>2, <2>3 DEF RunInv, FailsSeen
  <2>4. CASE k = l
    BY <2>1, <2>2, <2>4 DEF Skips
  <2> QED BY <1>1, <2>1, <2>3, <2>4 DEF Line
<1>7. MapAgrees(p)'
  <2>1. decrypted[p] \in Env /\ Agrees(s, l - 1, decrypted[p])
    BY <1>1 DEF RunInv, MapAgrees, Env, Value
  <2>2. decrypted'[p] = IF IsAlias(l) \/ value = None THEN decrypted[p]
                        ELSE [decrypted[p] EXCEPT ![VarOf[l]] = value]
    BY <1>1 DEF TypeOK, ExportLine, Mapped
  <2>3. Agrees(s, l, decrypted'[p])
    BY <1>1, <2>1, <2>2, AgreesOnward
  <2>4. line'[p] - 1 = l
    BY <1>1 DEF Line
  <2> HIDE DEF l, s, value
  <2> QED BY <1>1, <2>3, <2>4 DEF MapAgrees
<1> QED BY <1>4, <1>5, <1>6, <1>7 DEF RunInv

LEMMA AliasLineRun ==
  ASSUME TypeOK, "full" \notin Faults, NEW p \in Proc, RunInv(p), AliasLine(p)
  PROVE  RunInv(p)'
<1> DEFINE l == line[p]  s == snap[p]
<1>1. /\ l \in Line /\ line'[p] = l + 1 /\ pc[p] = "line" /\ pc'[p] = "line"
      /\ snap'[p] = s /\ s \in Vault /\ IsAlias(l)
      /\ decrypted[p] \in [Var -> Value \cup {None}] /\ decrypted'[p] = decrypted[p]
  BY DEF TypeOK, AliasLine, Line
<1>2. temp[p] = WrittenTo(s, l) /\ Written(s, l) = Reference(l)
  BY <1>1 DEF RunInv, Filled, Written
<1>3. temp'[p] = [temp[p] EXCEPT ![l] = Reference(l)]
  BY DEF TypeOK, AliasLine, Fprintf, TempOf
<1>4. temp'[p] = WrittenTo(s, l + 1)
  <2>1. WrittenTo(s, l + 1) = [WrittenTo(s, l) EXCEPT ![l] = Written(s, l)]
    BY <1>1, WriteLine
  <2> HIDE DEF l, s
  <2> QED BY <1>2, <1>3, <2>1
<1>5. Counted(p)'
  <2>1. failed[p] \in Int /\ total[p] \in Int /\ line[p] \in Int
    BY DEF TypeOK
  <2> QED BY <1>1, <2>1 DEF AliasLine, RunInv, Counted
<1>6. Pending(p)' /\ InTouch(p)' /\ Linked(p)' /\ Truthful(p)' /\ Filled(p)'
  BY <1>1, <1>4 DEF AliasLine, world, RunInv, Pending, InTouch, Linked, Truthful, Filled
<1>7. FailsSeen(p)'
  BY <1>1 DEF AliasLine, RunInv, FailsSeen, Line, IsAlias
<1>8. MapAgrees(p)'
  <2>1. decrypted[p] \in Env /\ Agrees(s, l - 1, decrypted[p])
    BY <1>1 DEF RunInv, MapAgrees, Env, Value
  <2>2. Agrees(s, l, decrypted[p])
    BY <1>1, <2>1, AgreesOnward
  <2>3. line'[p] - 1 = l
    BY <1>1 DEF Line
  <2> HIDE DEF l, s
  <2> QED BY <1>1, <2>2, <2>3 DEF MapAgrees
<1> QED BY <1>5, <1>6, <1>7, <1>8 DEF RunInv

LEMMA ReplacedRun ==
  ASSUME TypeOK, NEW p \in Proc, RunInv(p), pc[p] = "line", line[p] > Lines, Replaced(p)
  PROVE  RunInv(p)' /\ temp[p] = Rendered(snap[p])
<1>1. /\ snap'[p] = snap[p] /\ temp'[p] = temp[p] /\ line'[p] = line[p] /\ ~linked'[p]
      /\ \/ pc'[p] = "exit" /\ code'[p] = 1
         \/ pc'[p] = "mirror" /\ failed[p] = 0
  BY DEF TypeOK, Replaced, Goto
<1>2. line[p] = Lines + 1 /\ \A l \in Line : l < line[p]
  <2>1. line[p] \in 1..(Lines + 1)
    BY DEF TypeOK
  <2> QED BY <2>1 DEF Line
<1>3. temp[p] = Rendered(snap[p])
  BY <1>2 DEF RunInv, Filled, WrittenTo, Rendered
<1>4. Truthful(p)'
  <2>1. SUFFICES ASSUME pc'[p] = "mirror", NEW l \in Line, Section[l] = "cache"
                 PROVE  temp[p][l] # None
    BY <1>1 DEF Truthful
  <2>2. Reads(snap[p], l) # None
    BY <1>1, <1>2, <2>1 DEF RunInv, FailsSeen
  <2>3. temp[p][l] = Reads(snap[p], l)
    BY <1>3, <2>1 DEF Rendered, Written, IsAlias
  <2> QED BY <2>2, <2>3
<1>5. Counted(p)' /\ Pending(p)' /\ InTouch(p)' /\ Linked(p)' /\ Filled(p)' /\ FailsSeen(p)'
  BY <1>1, <1>2, <1>3
     DEF Replaced, world, RunInv, Counted, Pending, InTouch, Linked, Filled, FailsSeen
<1>6. MapAgrees(p)'
  BY <1>1 DEF Replaced, RunInv, MapAgrees
<1> QED BY <1>3, <1>4, <1>5, <1>6 DEF RunInv

LEMMA ChangeRun ==
  ASSUME TypeOK, NEW p \in Proc, RunInv(p), Change
  PROVE  RunInv(p)'
<1>1. /\ during'[p] = IF during[p] = {} THEN {} ELSE during[p] \cup {vault'}
      /\ UNCHANGED <<pc, snap, temp, linked, line, failed, total, decrypted, code>>
  BY DEF Change, loop
<1>2. InTouch(p)'
  BY <1>1 DEF RunInv, InTouch
<1> QED BY <1>1, <1>2 DEF RunInv, Counted, Pending, Linked, Filled, FailsSeen, Truthful,
                          MapAgrees

(* A step of one run leaves the others as they are. *)
LEMMA OthersSame ==
  ASSUME TypeOK, NEW p \in Proc, NEW q \in Proc, q # p,
         \/ Begin(p) \/ Sync(p) \/ Fail(p) \/ Created(p) \/ ExportLine(p) \/ AliasLine(p)
         \/ Replaced(p) \/ Gone(p)
  PROVE  Same(q)
<1>1. CASE Begin(p) \/ Sync(p) \/ Fail(p)
  BY <1>1 DEF TypeOK, Same, Begin, Sync, Fail, Goto, loop
<1>2. CASE Created(p)
  BY <1>2 DEF TypeOK, Same, Created, Goto, TempOf
<1>3. CASE ExportLine(p)
  BY <1>3 DEF TypeOK, Same, ExportLine, Fprintf, Mapped, TempOf
<1>4. CASE AliasLine(p)
  BY <1>4 DEF TypeOK, Same, AliasLine, Fprintf, TempOf
<1>5. CASE Replaced(p)
  BY <1>5 DEF TypeOK, Same, Replaced, Goto
<1>6. CASE Gone(p)
  BY <1>6 DEF TypeOK, Same, Gone, Goto
<1> QED BY <1>1, <1>2, <1>3, <1>4, <1>5, <1>6

LEMMA RunStep ==
  ASSUME IInv, "full" \notin Faults, NEW p \in Proc, NEW q \in Proc,
         \/ Begin(p) \/ Sync(p) \/ SyncFails(p) \/ Unlock(p) \/ Open(p)
         \/ ExportLine(p) \/ AliasLine(p) \/ Rename(p) \/ Mirror(p) \/ MirrorEnds(p)
         \/ Exit(p) \/ Kill(p)
  PROVE  RunInv(q)'
<1>0. TypeOK /\ RunInv(p) /\ RunInv(q)
  BY DEF IInv, Coherent
<1>s. Same(q) /\ UNCHANGED vault => RunInv(q)'
  BY <1>0, SameRun
<1>f. Fail(p) /\ pc[p] # "idle" => RunInv(q)'
  <2>1. CASE q = p
    BY <1>0, <2>1, FailRun
  <2>2. CASE q # p
    BY <1>0, <1>s, <2>2, OthersSame DEF Fail, world
  <2> QED BY <2>1, <2>2
<1>g. Gone(p) /\ UNCHANGED vault => RunInv(q)'
  <2>1. CASE q = p
    BY <1>0, <2>1, GoneRun
  <2>2. CASE q # p
    BY <1>0, <1>s, <2>2, OthersSame
  <2> QED BY <2>1, <2>2
<1>1. CASE Begin(p)
  <2>1. CASE q = p
    BY <1>0, <1>1, <2>1 DEF TypeOK, Begin, Goto, world, loop, RunInv, Counted, Pending, InTouch,
      Linked, Filled, FailsSeen, Truthful, MapAgrees
  <2>2. CASE q # p
    BY <1>0, <1>1, <1>s, <2>2, OthersSame DEF Begin, world
  <2> QED BY <2>1, <2>2
<1>2. CASE Sync(p)
  <2>1. CASE q = p
    BY <1>0, <1>2, <2>1 DEF TypeOK, Sync, Goto, world, loop, RunInv, Counted, Pending, InTouch,
      Linked, Filled, FailsSeen, Truthful, MapAgrees
  <2>2. CASE q # p
    BY <1>0, <1>2, <1>s, <2>2, OthersSame DEF Sync, world
  <2> QED BY <2>1, <2>2
<1>3. CASE SyncFails(p)
  BY <1>3, <1>f DEF SyncFails
<1>4. CASE Unlock(p)
  <2>1. CASE Fail(p)
    BY <1>4, <2>1, <1>f DEF Unlock
  <2>2. CASE ~Fail(p) /\ q = p
    BY <1>0, <1>4, <2>2 DEF TypeOK, Unlock, Goto, world, loop, RunInv, Counted, Pending, InTouch,
      Linked, Filled, FailsSeen, Truthful, MapAgrees
  <2>3. CASE ~Fail(p) /\ q # p
    <3>1. Same(q) /\ UNCHANGED vault
      BY <1>0, <1>4, <2>3 DEF TypeOK, Unlock, Goto, Same, world, loop
    <3> QED BY <3>1, <1>s
  <2> QED BY <2>1, <2>2, <2>3
<1>5. CASE Open(p)
  <2>1. CASE Fail(p)
    BY <1>5, <2>1, <1>f DEF Open
  <2>2. CASE Created(p) /\ q = p
    BY <1>0, <1>5, <2>2, CreatedRun DEF Open
  <2>3. CASE Created(p) /\ q # p
    BY <1>0, <1>s, <2>3, OthersSame DEF Created, world
  <2> QED BY <1>5, <2>1, <2>2, <2>3 DEF Open
<1>6. CASE ExportLine(p)
  <2>1. CASE q = p
    BY <1>0, <1>6, <2>1, ExportLineRun
  <2>2. CASE q # p
    BY <1>0, <1>6, <1>s, <2>2, OthersSame DEF ExportLine, world
  <2> QED BY <2>1, <2>2
<1>7. CASE AliasLine(p)
  <2>1. CASE q = p
    BY <1>0, <1>7, <2>1, AliasLineRun
  <2>2. CASE q # p
    BY <1>0, <1>7, <1>s, <2>2, OthersSame DEF AliasLine, world
  <2> QED BY <2>1, <2>2
<1>8. CASE Rename(p)
  <2>1. CASE Fail(p)
    BY <1>8, <2>1, <1>f DEF Rename
  <2>2. CASE Replaced(p) /\ q = p
    BY <1>0, <1>8, <2>2, ReplacedRun DEF Rename
  <2>3. CASE Replaced(p) /\ q # p
    BY <1>0, <1>s, <2>3, OthersSame DEF Replaced, world
  <2> QED BY <1>8, <2>1, <2>2, <2>3 DEF Rename
<1>9. CASE Mirror(p)
  <2>1. Same(q) /\ UNCHANGED vault
    BY <1>9 DEF Mirror, Same, world, loop
  <2> QED BY <2>1, <1>s
<1>10. CASE MirrorEnds(p)
  <2>1. CASE q = p
    <3>1. pc[p] = "mirror" /\ pc'[p] = "exit" /\ UNCHANGED <<world, snap, loop, code, during>>
      BY <1>0, <1>10 DEF TypeOK, MirrorEnds, Goto
    <3>2. Truthful(p)'
      <4>1. temp'[p] = temp[p]
        BY <3>1 DEF loop
      <4>2. \A l \in Line : Section[l] = "cache" => temp[p][l] # None
        BY <1>0, <3>1 DEF RunInv, Truthful
      <4> QED BY <4>1, <4>2 DEF Truthful
    <3>3. Counted(p)' /\ Pending(p)' /\ InTouch(p)' /\ Linked(p)'
      BY <1>0, <3>1 DEF world, loop, RunInv, Counted, Pending, InTouch, Linked
    <3>4. Filled(p)' /\ FailsSeen(p)' /\ MapAgrees(p)'
      BY <3>1 DEF Filled, FailsSeen, MapAgrees
    <3> QED BY <2>1, <3>2, <3>3, <3>4 DEF RunInv
  <2>2. CASE q # p
    <3>1. Same(q) /\ UNCHANGED vault
      BY <1>0, <1>10, <2>2 DEF TypeOK, MirrorEnds, Goto, Same, world, loop
    <3> QED BY <3>1, <1>s
  <2> QED BY <2>1, <2>2
<1>11. CASE Exit(p) \/ Kill(p)
  BY <1>11, <1>g DEF Exit, Kill, world
<1> QED
  BY <1>1, <1>2, <1>3, <1>4, <1>5, <1>6, <1>7, <1>8, <1>9, <1>10, <1>11

-----------------------------------------------------------------------------
(* The invariant, and what follows from it. *)
LEMMA InitInv == Init => IInv
  BY InitType, InitRun DEF IInv, Coherent

LEMMA StutterInv ==
  ASSUME IInv, UNCHANGED vars
  PROVE  IInv'
<1>1. TypeOK'
  BY DEF IInv, TypeOK, vars, world, disks, loop
<1>2. \A p \in Proc : Same(p) /\ UNCHANGED vault
  BY DEF vars, world, loop, Same
<1>3. Coherent'
  BY <1>2, SameRun DEF IInv, Coherent
<1> QED BY <1>1, <1>3 DEF IInv

LEMMA StepInv ==
  ASSUME IInv, "full" \notin Faults, [Next]_vars
  PROVE  IInv'
<1>1. CASE Next
  <2>1. TypeOK'
    BY <1>1, TypeStep DEF IInv, Coherent, RunInv, Bookkept
  <2>2. ASSUME NEW q \in Proc
        PROVE  RunInv(q)'
    <3>1. CASE Change
      BY <3>1, ChangeRun DEF IInv, Coherent
    <3>2. CASE ~Change
      BY <1>1, <3>2, RunStep DEF Next
    <3> QED BY <3>1, <3>2
  <2> QED BY <2>1, <2>2 DEF IInv, Coherent
<1>2. CASE UNCHANGED vars
  BY <1>2, StutterInv
<1> QED BY <1>1, <1>2

(* Whatever is written, runs count no more than their lines, and the name   *)
(* of a temporary file is there only while the run works on the file.       *)
LEMMA BookkeptStep ==
  ASSUME TypeOK, Bookkept, Next
  PROVE  Bookkept'
<1> SUFFICES ASSUME NEW q \in Proc PROVE Counted(q)' /\ Linked(q)'
  BY DEF Bookkept
<1> USE DEF Bookkept, Counted, Linked, Goto
<1>1. ASSUME NEW p \in Proc, Begin(p)  PROVE Counted(q)' /\ Linked(q)'
  BY <1>1 DEF TypeOK, Begin, loop
<1>2. ASSUME NEW p \in Proc, Sync(p)  PROVE Counted(q)' /\ Linked(q)'
  BY <1>2 DEF TypeOK, Sync, loop
<1>3. ASSUME NEW p \in Proc, SyncFails(p)  PROVE Counted(q)' /\ Linked(q)'
  BY <1>3 DEF TypeOK, SyncFails, Fail
<1>4. ASSUME NEW p \in Proc, Unlock(p)  PROVE Counted(q)' /\ Linked(q)'
  <2>1. CASE Fail(p)
    BY <2>1 DEF TypeOK, Fail
  <2>2. CASE ~Fail(p)
    <3>1. pc[p] = "unlock" /\ pc' = [pc EXCEPT ![p] = "open"] /\ UNCHANGED loop
      BY <1>4, <2>2 DEF Unlock
    <3> QED BY <3>1 DEF TypeOK, loop
  <2> QED BY <2>1, <2>2
<1>5. ASSUME NEW p \in Proc, Open(p)  PROVE Counted(q)' /\ Linked(q)'
  BY <1>5 DEF TypeOK, Open, Created, Fail
<1>6. ASSUME NEW p \in Proc, ExportLine(p)  PROVE Counted(q)' /\ Linked(q)'
  <2>1. /\ line' = [line EXCEPT ![p] = line[p] + 1] /\ UNCHANGED <<pc, linked>>
        /\ failed' = failed \/ failed' = [failed EXCEPT ![p] = failed[p] + 1]
        /\ total' = total \/ total' = [total EXCEPT ![p] = total[p] + 1]
    BY <1>6 DEF TypeOK, ExportLine
  <2>2. line[q] \in Nat /\ failed[q] \in Nat /\ total[q] \in Nat
    BY DEF TypeOK
  <2>3. Linked(q)'
    BY <2>1
  <2>4. Counted(q)'
    BY <2>1, <2>2 DEF TypeOK
  <2> QED BY <2>3, <2>4
<1>7. ASSUME NEW p \in Proc, AliasLine(p)  PROVE Counted(q)' /\ Linked(q)'
  <2>1. /\ line' = [line EXCEPT ![p] = line[p] + 1] /\ UNCHANGED <<pc, linked, failed, total>>
    BY <1>7 DEF AliasLine
  <2>2. line[q] \in Nat /\ failed[q] \in Nat /\ total[q] \in Nat
    BY DEF TypeOK
  <2>3. line'[q] \in {line[q], line[q] + 1}
    BY <2>1 DEF TypeOK
  <2> QED BY <2>1, <2>2, <2>3
<1>8. ASSUME NEW p \in Proc, Rename(p)  PROVE Counted(q)' /\ Linked(q)'
  BY <1>8 DEF TypeOK, Rename, Replaced, Fail
<1>9. ASSUME NEW p \in Proc, Mirror(p)  PROVE Counted(q)' /\ Linked(q)'
  BY <1>9 DEF TypeOK, Mirror, loop
<1>10. ASSUME NEW p \in Proc, MirrorEnds(p)  PROVE Counted(q)' /\ Linked(q)'
  BY <1>10 DEF TypeOK, MirrorEnds, loop
<1>11. ASSUME NEW p \in Proc, Exit(p)  PROVE Counted(q)' /\ Linked(q)'
  BY <1>11 DEF TypeOK, Exit, Gone
<1>12. ASSUME NEW p \in Proc, Kill(p)  PROVE Counted(q)' /\ Linked(q)'
  BY <1>12 DEF TypeOK, Kill, Gone
<1>13. CASE Change
  BY <1>13 DEF TypeOK, Change, loop
<1> QED
  BY <1>1, <1>2, <1>3, <1>4, <1>5, <1>6, <1>7, <1>8, <1>9, <1>10, <1>11, <1>12, <1>13 DEF Next

(* The variables keep their types. *)
THEOREM TypeCorrect == Spec => []TypeOK
<1>1. Init => TypeOK /\ Bookkept
  BY InitType, InitRun DEF Bookkept, RunInv
<1>2. TypeOK /\ Bookkept /\ [Next]_vars => TypeOK' /\ Bookkept'
  <2> SUFFICES ASSUME TypeOK, Bookkept, [Next]_vars  PROVE TypeOK' /\ Bookkept'
    OBVIOUS
  <2>1. CASE Next
    BY <2>1, TypeStep, BookkeptStep
  <2>2. CASE UNCHANGED vars
    BY <2>2 DEF TypeOK, Bookkept, Counted, Linked, vars, world, disks, loop
  <2> QED BY <2>1, <2>2
<1> QED BY <1>1, <1>2, PTL DEF Spec

(* A run that gets to its end leaves no temporary file. *)
THEOREM NothingLeft == Spec => []NoLitter
<1>1. Init => TypeOK /\ Bookkept
  BY InitType, InitRun DEF Bookkept, RunInv
<1>2. TypeOK /\ Bookkept /\ [Next]_vars => Bookkept'
  <2> SUFFICES ASSUME TypeOK, Bookkept, [Next]_vars  PROVE Bookkept'
    OBVIOUS
  <2>1. CASE Next
    BY <2>1, BookkeptStep
  <2>2. CASE UNCHANGED vars
    BY <2>2 DEF Bookkept, Counted, Linked, vars, loop
  <2> QED BY <2>1, <2>2
<1>3. Bookkept => NoLitter
  BY DEF Bookkept, Linked, NoLitter
<1> QED BY <1>1, <1>2, <1>3, TypeCorrect, PTL DEF Spec

(* As long as the disk does not run full, the invariant of the runs holds:  *)
(* types, what each temporary file holds, which vault it is of, what has    *)
(* been counted, and what the decrypted map says.                           *)
THEOREM Invariant ==
  ASSUME "full" \notin Faults
  PROVE  Spec => []IInv
<1>1. Init => IInv
  BY InitInv
<1>2. IInv /\ [Next]_vars => IInv'
  BY StepInv
<1> QED BY <1>1, <1>2, PTL DEF Spec

(* A run that exits with 0 has exported every line of [cache]. *)
THEOREM ExitIsTrue ==
  ASSUME "full" \notin Faults
  PROVE  Spec => []ExitTruth
<1>1. IInv => ExitTruth
  BY DEF IInv, Coherent, RunInv, Truthful, ExitTruth
<1> QED BY <1>1, Invariant, PTL

(* What goes into libsecret is what [cache] and [cache-fields] export in    *)
(* the run's own file, and, unless an alias names the variable, what a      *)
(* shell has in it that sources the whole file.                             *)
THEOREM MirrorIsTrue ==
  ASSUME "full" \notin Faults
  PROVE  Spec => MirrorAgrees
<1>1. ASSUME IInv, [Next]_vars, NEW v \in Var, keyring'[v] # keyring[v]
      PROVE  /\ keyring'[v] # None
             /\ \E p \in Proc :
                  /\ pc[p] = "mirror" /\ keyring'[v] = Sourced(Unaliased(temp[p]), v)
                  /\ (\A l \in Line : IsAlias(l) => VarOf[l] # v) =>
                       keyring'[v] = Sourced(temp[p], v)
  <2>1. PICK p \in Proc : Mirror(p)
    BY <1>1 DEF Next, vars, disks, Begin, Sync, SyncFails, Unlock, Open, ExportLine, AliasLine,
      Rename, MirrorEnds, Exit, Kill, Change, Fail, Created, Replaced
  <2>2. PICK u \in todo[p] : /\ decrypted[p][u] # None
                             /\ keyring' = [keyring EXCEPT ![u] = decrypted[p][u]]
    BY <1>1, <2>1 DEF Mirror
  <2>3. u = v /\ keyring'[v] = decrypted[p][v]
    BY <1>1, <2>2 DEF IInv, TypeOK
  <2>4. /\ pc[p] = "mirror" /\ temp[p] = Rendered(snap[p])
        /\ Agrees(snap[p], line[p] - 1, decrypted[p]) /\ line[p] = Lines + 1
    BY <1>1, <2>1 DEF Mirror, IInv, Coherent, RunInv, MapAgrees, Filled
  <2>5. line[p] - 1 = Lines
    BY <2>4
  <2>6. /\ decrypted[p][v] = Sourced(Unaliased(temp[p]), v)
        /\ ~Aliased(v) => decrypted[p][v] = Sourced(temp[p], v)
    BY <2>4, <2>5 DEF Agrees, Sourced
  <2> QED BY <2>2, <2>3, <2>4, <2>6 DEF Aliased
<1>2. IInv /\ [Next]_vars =>
        [\A v \in Var : keyring'[v] # keyring[v] =>
           /\ keyring'[v] # None
           /\ \E p \in Proc :
                /\ pc[p] = "mirror" /\ keyring'[v] = Sourced(Unaliased(temp[p]), v)
                /\ (\A l \in Line : IsAlias(l) => VarOf[l] # v) =>
                     keyring'[v] = Sourced(temp[p], v)]_vars
  BY <1>1
<1> QED BY <1>2, Invariant, PTL DEF Spec, MirrorAgrees

(* CacheFile speaks of the same vaults and renderings. *)
LEMMA SameManifest ==
  /\ Atomic!Vault = Vault
  /\ \A v \in Vault : Atomic!Rendered(v) = Rendered(v)
<1>1. Atomic!Vault = Vault
  BY DEF Atomic!Vault, Vault, Atomic!Found, Found, Atomic!Line, Line, Atomic!IsAlias, IsAlias
<1>2. ASSUME NEW v \in Vault
      PROVE  Atomic!Rendered(v) = Rendered(v)
  BY DEF Atomic!Rendered, Rendered, Atomic!Written, Written, Atomic!Reference, Reference,
    Atomic!Reads, Reads, Atomic!Found, Found, Atomic!Line, Line, Atomic!IsAlias, IsAlias
<1> QED BY <1>1, <1>2

(* cmdCache refines CacheFile: the output is replaced in one step, by a     *)
(* whole rendering of a vault the account had while the run went on.        *)
THEOREM Refinement ==
  ASSUME "full" \notin Faults
  PROVE  Spec => ReplacesAtomically
<1>1. Init => Atomic!Init
  BY SameManifest DEF Init, Atomic!Init
<1>2. ASSUME IInv, [Next]_vars
      PROVE  [Atomic!Next]_(Atomic!vars)
  <2>1. CASE UNCHANGED <<vault, during, out>>
    BY <2>1 DEF Atomic!vars
  <2>2. ASSUME NEW p \in Proc, Begin(p)  PROVE Atomic!Next
    <3>1. during[p] = {}
      BY <1>2, <2>2 DEF Begin, IInv, Coherent, RunInv, InTouch
    <3> QED BY <2>2, <3>1 DEF Begin, world, disks, Atomic!Next, Atomic!Begin
  <2>3. ASSUME NEW p \in Proc, pc[p] = "line", line[p] > Lines, Replaced(p)  PROVE Atomic!Next
    <3>1. temp[p] = Rendered(snap[p]) /\ snap[p] \in during[p]
      BY <1>2, <2>3, ReplacedRun DEF IInv, Coherent, RunInv, InTouch
    <3>2. Atomic!Rendered(snap[p]) = Rendered(snap[p])
      BY <1>2, SameManifest DEF IInv, TypeOK
    <3>3. Atomic!Replace(p)
      BY <2>3, <3>1, <3>2 DEF Replaced, TempOf, world, Atomic!Replace
    <3> QED BY <3>3 DEF Atomic!Next
  <2>4. ASSUME NEW p \in Proc, Exit(p) \/ Kill(p)  PROVE Atomic!Next
    BY <2>4 DEF Exit, Kill, Gone, world, Atomic!Next, Atomic!End
  <2>5. CASE Change
    BY <2>5, SameManifest DEF Change, disks, Atomic!Next, Atomic!Change
  <2>6. ASSUME NEW p \in Proc,
               \/ Sync(p) \/ SyncFails(p) \/ Unlock(p) \/ Open(p) \/ ExportLine(p)
               \/ AliasLine(p) \/ Fail(p) \/ Mirror(p) \/ MirrorEnds(p)
        PROVE  UNCHANGED <<vault, during, out>>
    BY <2>6 DEF Sync, SyncFails, Unlock, Open, ExportLine, AliasLine, Mirror, MirrorEnds,
      Fail, Created, world, disks
  <2>7. CASE UNCHANGED vars
    BY <2>1, <2>7 DEF vars, world, disks
  <2>8. ASSUME NEW p \in Proc, Rename(p)
        PROVE  [Atomic!Next]_(Atomic!vars)
    <3>1. CASE Replaced(p)
      BY <2>3, <2>8, <3>1 DEF Rename
    <3>2. CASE Fail(p)
      BY <2>1, <2>6, <2>8, <3>2 DEF Rename
    <3> QED BY <2>8, <3>1, <3>2 DEF Rename
  <2>9. ASSUME NEW p \in Proc,
               \/ Sync(p) \/ SyncFails(p) \/ Unlock(p) \/ Open(p) \/ ExportLine(p)
               \/ AliasLine(p) \/ Mirror(p) \/ MirrorEnds(p)
        PROVE  [Atomic!Next]_(Atomic!vars)
    <3>1. UNCHANGED <<vault, during, out>>
      BY <2>6, <2>9
    <3> QED BY <2>1, <3>1
  <2> QED BY <1>2, <2>2, <2>4, <2>5, <2>7, <2>8, <2>9 DEF Next
<1> QED BY <1>1, <1>2, Invariant, PTL DEF Spec, ReplacesAtomically, Atomic!Spec

=============================================================================
