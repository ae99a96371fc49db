----------------------------- MODULE VaultProofs -----------------------------
(* Proofs about bitw create and bitw edit, for any number of invocations    *)
(* and other clients, any vault, and any faults.                            *)
EXTENDS Vault, DataLemmas, SequenceTheorems, TLAPS

-----------------------------------------------------------------------------
(* Lists of ciphers as the server changes them: what becomes of ids and     *)
(* names when one is added, replaced or removed.                            *)
Numbered(l, n) ==
  /\ \A i \in 1..Len(l) : l[i].id \in 1..n
  /\ \A i, j \in 1..Len(l) : l[i].id = l[j].id => i = j

LEMMA Added ==
  ASSUME NEW l \in Seq(Cipher), NEW c \in Cipher, NEW n \in Nat
  PROVE  /\ Append(l, c) \in Seq(Cipher)
         /\ Numbered(l, n) /\ c.id = n + 1 => Numbered(Append(l, c), n + 1)
         /\ Names(Append(l, c)) = Names(l) \cup {c.name}
         /\ Distinct(l) /\ c.name \notin Names(l) => Distinct(Append(l, c))
<1> DEFINE m == Append(l, c)
<1>1. /\ m \in Seq(Cipher) /\ Len(m) = Len(l) + 1 /\ Len(l) \in Nat
      /\ \A i \in 1..Len(l) : m[i] = l[i]
      /\ m[Len(l) + 1] = c
  BY AppendProperties
<1> HIDE DEF m
<1>2. \A i \in 1..Len(m) : i \in 1..Len(l) \/ i = Len(l) + 1
  BY <1>1
<1>3. Numbered(l, n) /\ c.id = n + 1 => Numbered(m, n + 1)
  <2> SUFFICES ASSUME Numbered(l, n), c.id = n + 1  PROVE Numbered(m, n + 1)
    OBVIOUS
  <2>1. \A k \in 1..n : k \in 1..(n + 1) /\ k # n + 1
    OBVIOUS
  <2>2. n + 1 \in 1..(n + 1)
    OBVIOUS
  <2>3. \A i \in 1..Len(l) : m[i].id \in 1..n
    BY <1>1 DEF Numbered
  <2>4. m[Len(l) + 1].id = n + 1
    BY <1>1
  <2>5. \A i \in 1..Len(m) : m[i].id \in 1..(n + 1)
    BY <1>2, <2>1, <2>2, <2>3, <2>4
  <2>6. ASSUME NEW i \in 1..Len(m), NEW j \in 1..Len(m), m[i].id = m[j].id  PROVE i = j
    <3>1. CASE i \in 1..Len(l) /\ j \in 1..Len(l)
      BY <1>1, <2>6, <3>1 DEF Numbered
    <3>2. CASE i = Len(l) + 1 \/ j = Len(l) + 1
      BY <1>2, <2>1, <2>3, <2>4, <2>6, <3>2
    <3> QED BY <1>2, <3>1, <3>2
  <2> QED BY <2>5, <2>6 DEF Numbered
<1>4. Names(m) = Names(l) \cup {c.name}
  BY <1>1, <1>2 DEF Names
<1>5. Distinct(l) /\ c.name \notin Names(l) => Distinct(m)
  BY <1>1, <1>2 DEF Distinct, Names
<1> QED BY <1>1, <1>3, <1>4, <1>5 DEF m

LEMMA Replaced ==
  ASSUME NEW l \in Seq(Cipher), NEW i \in 1..Len(l), NEW c \in Cipher, NEW n \in Nat,
         c.id = l[i].id
  PROVE  LET m == [l EXCEPT ![i] = c] IN
         /\ m \in Seq(Cipher)
         /\ Numbered(l, n) => Numbered(m, n)
         /\ Names(m) \subseteq Names(l) \cup {c.name}
         /\ Distinct(l) /\ (c.name = l[i].name \/ c.name \notin Names(l)) => Distinct(m)
<1> DEFINE m == [l EXCEPT ![i] = c]
<1>1. /\ m \in Seq(Cipher) /\ Len(m) = Len(l)
      /\ \A j \in 1..Len(l) : m[j] = IF j = i THEN c ELSE l[j]
  BY ExceptSeq
<1> HIDE DEF m
<1>2. Numbered(l, n) => Numbered(m, n)
  BY <1>1 DEF Numbered
<1>3. Names(m) \subseteq Names(l) \cup {c.name}
  BY <1>1 DEF Names
<1>4. Distinct(l) /\ (c.name = l[i].name \/ c.name \notin Names(l)) => Distinct(m)
  BY <1>1 DEF Distinct, Names
<1> QED BY <1>1, <1>2, <1>3, <1>4 DEF m

LEMMA Removed ==
  ASSUME NEW l \in Seq(Cipher), NEW i \in 1..Len(l), NEW n \in Nat
  PROVE  /\ RemoveAt(l, i) \in Seq(Cipher)
         /\ Numbered(l, n) => Numbered(RemoveAt(l, i), n)
         /\ Names(RemoveAt(l, i)) \subseteq Names(l)
         /\ Distinct(l) => Distinct(RemoveAt(l, i))
<1> DEFINE before == SubSeq(l, 1, i - 1)  after == SubSeq(l, i + 1, Len(l))  m == before \o after
           was(j) == IF j < i THEN j ELSE j + 1
<1>0. Len(l) \in Nat /\ i \in Nat /\ 1 <= i /\ i <= Len(l)
  OBVIOUS
<1>1. /\ before \in Seq(Cipher) /\ Len(before) = i - 1
      /\ after \in Seq(Cipher) /\ Len(after) = Len(l) - i
      /\ \A j \in 1..(i - 1) : before[j] = l[j]
      /\ \A j \in 1..(Len(l) - i) : after[j] = l[i + j]
  BY <1>0
<1> HIDE DEF before, after
<1>2. /\ m \in Seq(Cipher) /\ Len(m) = Len(before) + Len(after)
      /\ \A j \in 1..(Len(before) + Len(after)) :
           m[j] = IF j <= Len(before) THEN before[j] ELSE after[j - Len(before)]
  BY <1>1, ConcatProperties
<1>3. RemoveAt(l, i) = m
  BY DEF RemoveAt, before, after
<1> HIDE DEF m
<1>9. Len(before) + Len(after) = Len(l) - 1
  BY <1>0, <1>1
<1>4. \A j \in 1..Len(m) : m[j] = l[was(j)] /\ was(j) \in 1..Len(l)
  <2>1. SUFFICES ASSUME NEW j \in 1..(Len(l) - 1)
                 PROVE  m[j] = l[was(j)] /\ was(j) \in 1..Len(l)
    BY <1>2, <1>9
  <2>2. CASE j < i
    <3>1. j \in 1..(i - 1) /\ j <= Len(before) /\ j \in 1..Len(l)
      BY <1>0, <1>1, <2>2
    <3> QED BY <1>1, <1>2, <1>9, <2>2, <3>1
  <2>3. CASE ~(j < i)
    <3>1. /\ ~(j <= Len(before)) /\ j - Len(before) \in 1..(Len(l) - i)
          /\ i + (j - Len(before)) = j + 1 /\ j + 1 \in 1..Len(l)
      BY <1>0, <1>1, <2>3
    <3>2. m[j] = after[j - Len(before)]
      BY <1>2, <1>9, <3>1
    <3> QED BY <1>1, <2>3, <3>1, <3>2
  <2> QED BY <2>2, <2>3
<1>5. \A j, k \in 1..Len(m) : was(j) = was(k) => j = k
  BY <1>0, <1>2, <1>9
<1> HIDE DEF was
<1>6. Numbered(l, n) => Numbered(m, n)
  BY <1>4, <1>5 DEF Numbered
<1>7. Names(m) \subseteq Names(l)
  BY <1>4 DEF Names
<1>8. Distinct(l) => Distinct(m)
  BY <1>4, <1>5 DEF Distinct
<1> QED BY <1>2, <1>3, <1>6, <1>7, <1>8

-----------------------------------------------------------------------------
(* The last field of a name.                                               *)
LEMMA MaxNamed ==
  ASSUME NEW s \in Seq(Field), NEW n \in FieldName, Named(s, n) # {}
  PROVE  Max(Named(s, n)) \in Named(s, n) /\ \A i \in Named(s, n) : i <= Max(Named(s, n))
  BY GreatestIsOne, LenProperties DEF Named
(* A field is put in a list of fields. *)
LEMMA PutType ==
  ASSUME NEW s \in Seq(Field), NEW f \in Field
  PROVE  PutField(s, f) \in Seq(Field)
<1>1. f.name \in FieldName
  BY DEF Field
<1>2. CASE Named(s, f.name) = {}
  BY <1>2, AppendProperties DEF PutField
<1>3. CASE Named(s, f.name) # {}
  <2>1. Max(Named(s, f.name)) \in 1..Len(s)
    BY <1>1, <1>3, MaxNamed DEF Named
  <2> QED BY <1>3, <2>1, ExceptSeq DEF PutField
<1> QED BY <1>2, <1>3

(* The lists that MergeFields passes through, one for each field asked for. *)
LEMMA MergeSteps ==
  ASSUME NEW old \in Seq(Field), NEW new \in Seq(Field)
  PROVE  \E r \in [0..Len(new) -> Seq(Field)] :
           /\ r[0] = old /\ r[Len(new)] = MergeFields(old, new)
           /\ \A k \in 1..Len(new) : r[k] = PutField(r[k - 1], new[k])
<1> DEFINE A == Seq(Field)
           n == Len(new)
           step == [x \in A \X Field |-> PutField(x[1], x[2])]
           t == CHOOSE t : t = [S \in SUBSET (1..n) |->
                  IF S = {} THEN old ELSE PutField(t[S \ {Max(S)}], new[Max(S)])]
<1>1. n \in Nat /\ new \in [1..n -> Field] /\ DOMAIN new = 1..n /\ old \in A
  BY LenProperties
<1>2. step \in [A \X Field -> A]
  BY PutType
<1>3. \A a \in A, f \in Field : step[<<a, f>>] = PutField(a, f)
  OBVIOUS
<1>4. MergeFields(old, new) = t[1..n]
  BY <1>1 DEF MergeFields, FoldLeft, MapThenFoldSet
<1> HIDE DEF step, A, n
<1>5. PICK u \in [SUBSET (1..n) -> A], r \in [0..n -> A] :
         Table(old, step, n, new, u) /\ Chain(old, step, n, new, u, r)
  BY <1>1, <1>2, FoldSteps
<1>6. u = [S \in SUBSET (1..n) |->
             IF S = {} THEN old ELSE PutField(u[S \ {Max(S)}], new[Max(S)])]
  <2>1. ASSUME NEW S \in SUBSET (1..n), S # {}
        PROVE  step[<<u[S \ {Max(S)}], new[Max(S)]>>] = PutField(u[S \ {Max(S)}], new[Max(S)])
    <3>1. Max(S) \in 1..n /\ S \ {Max(S)} \in SUBSET (1..n)
      BY <1>1, <2>1, GreatestIsOne
    <3> QED BY <1>1, <1>3, <3>1
  <2> QED BY <1>5, <2>1, Zenon DEF Table
<1>7. t = [S \in SUBSET (1..n) |->
             IF S = {} THEN old ELSE PutField(t[S \ {Max(S)}], new[Max(S)])]
  BY <1>6, Zenon
<1> HIDE DEF t
<1>8. {} \in SUBSET (1..n)
  OBVIOUS
<1>9. t[{}] = u[{}]
  BY <1>6, <1>7, <1>8, Zenon
<1>10. \A S \in SUBSET (1..n) : S # {} /\ t[S \ {Max(S)}] = u[S \ {Max(S)}] => t[S] = u[S]
  BY <1>6, <1>7, Zenon
<1>11. t[1..n] = u[1..n]
  BY <1>1, <1>9, <1>10, FoldsAgree
<1>12. \A k \in 1..n : r[k] = PutField(r[k - 1], new[k])
  <2> SUFFICES ASSUME NEW k \in 1..n PROVE r[k] = PutField(r[k - 1], new[k])
    OBVIOUS
  <2>1. r[k - 1] \in A /\ new[k] \in Field
    BY <1>1, <1>5
  <2> QED BY <1>3, <1>5, <2>1 DEF Chain
<1> QED BY <1>4, <1>5, <1>11, <1>12 DEF A, n, Chain

(* In a list without two fields of one name, a field reads its value.       *)
LEMMA ReadAt ==
  ASSUME NEW s \in Seq(Field), Distinct(s), NEW i \in 1..Len(s)
  PROVE  ReadField(s, s[i].name) = s[i].value
<1> DEFINE same == Named(s, s[i].name)
<1>1. i \in same /\ same \in SUBSET Nat
  BY DEF Named
<1>2. Min(same) \in same
  BY <1>1, LeastIsOne
<1>3. Min(same) = i
  BY <1>2 DEF Named, Distinct
<1> QED BY <1>1, <1>3, Zenon DEF ReadField

(* After a field is put, it reads the new value and all others the old one. *)
LEMMA PutReads ==
  ASSUME NEW s \in Seq(Field), Distinct(s), NEW x \in Field
  PROVE  /\ Distinct(PutField(s, x))
         /\ \A f \in FieldName :
              ReadField(PutField(s, x), f) = IF f = x.name THEN x.value ELSE ReadField(s, f)
<1> DEFINE m == PutField(s, x)
<1>0. x.name \in FieldName /\ m \in Seq(Field)
  BY PutType DEF Field
<1>1. \E k \in 1..Len(m) :
        /\ m[k] = x /\ Len(s) \in Nat /\ Len(m) \in Nat /\ 1..Len(s) \subseteq 1..Len(m)
        /\ \A i \in 1..Len(m) : i # k => i \in 1..Len(s) /\ m[i] = s[i] /\ s[i].name # x.name
        /\ k \in 1..Len(s) => s[k].name = x.name
  <2>1. CASE Named(s, x.name) = {}
    <3>1. /\ m = Append(s, x) /\ Len(m) = Len(s) + 1 /\ Len(s) \in Nat
          /\ \A i \in 1..Len(s) : m[i] = s[i]
          /\ m[Len(s) + 1] = x
      BY <2>1, AppendProperties DEF PutField
    <3> HIDE DEF m
    <3>2. \A i \in 1..Len(m) : i # Len(m) => i \in 1..Len(s)
      BY <3>1
    <3>3. \A i \in 1..Len(s) : s[i].name # x.name
      BY <2>1 DEF Named
    <3>4. Len(m) \in 1..Len(m) /\ Len(m) \notin 1..Len(s) /\ m[Len(m)] = x
          /\ 1..Len(s) \subseteq 1..Len(m) /\ Len(m) \in Nat
      BY <3>1
    <3> QED BY <3>1, <3>2, <3>3, <3>4
  <2>2. CASE Named(s, x.name) # {}
    <3> DEFINE k == Max(Named(s, x.name))
    <3>1. k \in 1..Len(s) /\ s[k].name = x.name
      BY <1>0, <2>2, MaxNamed DEF Named
    <3>2. m = [s EXCEPT ![k] = x]
      BY <2>2 DEF PutField
    <3> HIDE DEF k, m
    <3>3. Len(m) = Len(s) /\ \A i \in 1..Len(s) : m[i] = IF i = k THEN x ELSE s[i]
      BY <3>1, <3>2, ExceptSeq
    <3>4. \A i \in 1..Len(s) : i # k => s[i].name # x.name
      BY <3>1 DEF Distinct
    <3>5. Len(s) \in Nat
      BY LenProperties
    <3> QED BY <3>1, <3>3, <3>4, <3>5
  <2> QED BY <2>1, <2>2
<1> HIDE DEF m
<1>2. PICK k \in 1..Len(m) :
        /\ m[k] = x /\ Len(s) \in Nat /\ Len(m) \in Nat /\ 1..Len(s) \subseteq 1..Len(m)
        /\ \A i \in 1..Len(m) : i # k => i \in 1..Len(s) /\ m[i] = s[i] /\ s[i].name # x.name
        /\ k \in 1..Len(s) => s[k].name = x.name
  BY <1>1
<1>3. Distinct(m)
  BY <1>2 DEF Distinct
<1>4. ASSUME NEW f \in FieldName
      PROVE  ReadField(m, f) = IF f = x.name THEN x.value ELSE ReadField(s, f)
  <2>1. CASE f = x.name
    BY <1>0, <1>2, <1>3, <2>1, ReadAt
  <2>2. CASE f # x.name /\ Named(s, f) = {}
    <3>1. Named(m, f) = {}
      BY <1>2, <2>2 DEF Named
    <3> QED BY <2>2, <3>1 DEF ReadField
  <2>3. CASE f # x.name /\ Named(s, f) # {}
    <3>1. PICK i \in 1..Len(s) : s[i].name = f
      BY <2>3 DEF Named
    <3>2. i \in 1..Len(m) /\ i # k /\ m[i] = s[i]
      BY <1>2, <2>3, <3>1
    <3>3. ReadField(m, f) = m[i].value /\ ReadField(s, f) = s[i].value
      BY <1>0, <1>3, <3>1, <3>2, ReadAt
    <3> QED BY <2>3, <3>2, <3>3
  <2> QED BY <2>1, <2>2, <2>3
<1> QED BY <1>3, <1>4 DEF m

(* What MergeFields makes reads as asked for, and all else as it was. *)
LEMMA MergeReads ==
  ASSUME NEW old \in Seq(Field), Distinct(old), NEW new \in Seq(Field)
  PROVE  \A f \in FieldName :
           ReadField(MergeFields(old, new), f) =
             IF Asked(new, f) = Absent THEN ReadField(old, f) ELSE Asked(new, f)
<1> DEFINE n == Len(new)
           same(k, f) == {i \in 1..k : new[i].name = f}
           now(k, f) == IF same(k, f) = {} THEN ReadField(old, f) ELSE new[Max(same(k, f))].value
<1>1. PICK r \in [0..n -> Seq(Field)] :
        /\ r[0] = old /\ r[n] = MergeFields(old, new)
        /\ \A k \in 1..n : r[k] = PutField(r[k - 1], new[k])
  BY MergeSteps
<1>2. n \in Nat /\ \A k \in 1..n : new[k] \in Field
  BY LenProperties, ElementOfSeq
<1> DEFINE T == {k \in 0..n : /\ Distinct(r[k])
                              /\ \A f \in FieldName : ReadField(r[k], f) = now(k, f)}
<1>3. 0 \in T
  <2>1. \A f \in FieldName : same(0, f) = {}
    OBVIOUS
  <2>2. \A f \in FieldName : now(0, f) = ReadField(old, f)
    BY <2>1
  <2> HIDE DEF now
  <2> QED BY <1>1, <1>2, <2>2
<1>4. ASSUME NEW k \in 1..n, k - 1 \in T  PROVE k \in T
  <2>1. /\ r[k - 1] \in Seq(Field) /\ Distinct(r[k - 1]) /\ new[k] \in Field
        /\ \A f \in FieldName : ReadField(r[k - 1], f) = now(k - 1, f)
    BY <1>2, <1>4
  <2>2. \A f \in FieldName : now(k, f) = IF f = new[k].name THEN new[k].value ELSE now(k - 1, f)
    <3> SUFFICES ASSUME NEW f \in FieldName
                 PROVE  now(k, f) = IF f = new[k].name THEN new[k].value ELSE now(k - 1, f)
      OBVIOUS
    <3>1. CASE f = new[k].name
      <4>1. k \in same(k, f) /\ same(k, f) \in SUBSET (1..k) /\ k \in Nat
        BY <3>1
      <4>2. Max(same(k, f)) = k /\ same(k, f) # {}
        BY <4>1, GreatestOfSubset
      <4> QED BY <3>1, <4>2
    <3>2. CASE f # new[k].name
      <4>1. same(k, f) = same(k - 1, f)
        BY <3>2
      <4> QED BY <3>2, <4>1
    <3> QED BY <3>1, <3>2
  <2>3. /\ Distinct(r[k])
        /\ \A f \in FieldName :
             ReadField(r[k], f) =
               IF f = new[k].name THEN new[k].value ELSE ReadField(r[k - 1], f)
    BY <1>1, <2>1, PutReads
  <2> HIDE DEF now
  <2>4. \A f \in FieldName : ReadField(r[k], f) = now(k, f)
    BY <2>1, <2>2, <2>3
  <2> QED BY <1>2, <2>3, <2>4
<1> HIDE DEF T, n
<1>5. n \in T
  <2>1. n \in Nat
    BY <1>2
  <2>2. \A k \in 0..n : k \in T
    BY <1>3, <1>4, <2>1, UpTo
  <2> QED BY <2>1, <2>2
<1> USE DEF n
<1>6. \A f \in FieldName : ReadField(MergeFields(old, new), f) = now(n, f)
  BY <1>1, <1>5 DEF T
<1>7. ASSUME NEW f \in FieldName
      PROVE  now(n, f) = IF Asked(new, f) = Absent THEN ReadField(old, f) ELSE Asked(new, f)
  <2>1. same(n, f) = Named(new, f)
    BY DEF Named
  <2>2. Named(new, f) # {} => new[Max(Named(new, f))].value # Absent
    <3> SUFFICES ASSUME Named(new, f) # {} PROVE new[Max(Named(new, f))].value # Absent
      OBVIOUS
    <3>1. Max(Named(new, f)) \in 1..n
      BY MaxNamed DEF Named
    <3> QED BY <1>2, <3>1, CiphersAssumption DEF Field
  <2> QED BY <2>1, <2>2 DEF Asked
<1> HIDE DEF now
<1> QED BY <1>6, <1>7

-----------------------------------------------------------------------------
(* The bodies of create and edit, and the ciphers that they are made into.  *)
LEMMA CreateBodyType ==
  ASSUME NEW j \in Jobs, j.op = "create"
  PROVE  CreateBody(j) \in Body /\ CreateBody(j).name = j.name
<1>1. j \in Job
  BY VaultAssumption
<1>2. j.kind \in Kind /\ j.notes \in Content
  BY <1>1, VaultAssumption DEF Job
<1>3. Absent \in Content
  BY DEF Content
<1> QED BY <1>1, <1>2, <1>3 DEF CreateBody, Body, Job, SecretFits

LEMMA EditBodyType ==
  ASSUME NEW j \in Jobs, NEW c \in Cipher
  PROVE  EditBody(c, j) \in Body
<1>1. j \in Job /\ c.fields \in Fields
  BY VaultAssumption DEF Cipher
<1>2. MergeFields(c.fields, j.fields) \in Fields
  BY <1>1, MergeSteps, LenProperties DEF Fields, Job
<1>3. /\ Absent \in Content /\ EditedSecret(c, j) \in Content \cup {Missing}
      /\ EditedNotes(c, j) \in Content
  BY <1>1 DEF Content, EditedSecret, EditedNotes, Job, Cipher
<1>4. c.name \in Name /\ c.kind \in Kind
  BY DEF Cipher
<1>5. EditedSecret(c, j) # Absent => c.kind \in {"login", "ssh"}
  BY DEF EditedSecret
<1> QED BY <1>2, <1>3, <1>4, <1>5 DEF EditBody, Body, SecretFits

LEMMA StoredType ==
  ASSUME NEW b \in Body, NEW id \in Nat, NEW org \in ToSet(Orgs) \cup {Absent}
  PROVE  /\ Stored(b, id, org) \in Cipher
         /\ Stored(b, id, org).id = id /\ Stored(b, id, org).name = b.name
  BY DEF Stored, Body, Cipher, SecretFits

-----------------------------------------------------------------------------
(* What an invocation is at, at each of its steps; that the list it saves   *)
(* is one of those that the account had since its request was applied.      *)
Orderly(p) ==
  /\ pc[p] = "open" => job[p].op = "edit"
  /\ pc[p] = "sync" => job[p].op \in {"create", "sync"}
  /\ pc[p] = "check" => job[p].op = "create"
  /\ pc[p] \in {"send", "reply", "resync"} => job[p].op \in {"create", "edit"}
  /\ pc[p] = "send" \/ (pc[p] = "token" /\ job[p].op = "edit") => body[p] \in Body
  /\ pc[p] = "send" /\ job[p].op = "create" => body[p].name = job[p].name
  /\ since[p] # {} => server \in since[p]
  /\ pc[p] = "resync" => since[p] # {}
  /\ (pc[p] = "exit" /\ code[p] = 0 /\ ~warned[p] /\ job[p].op \in {"create", "edit"})
       => dirty[p] /\ vault[p] \in since[p]

IInv == TypeOK /\ \A p \in Proc : Orderly(p)

(* All that is an invocation's own, which no other touches; the lists that  *)
(* count for it become more.                                                *)
Mine(p) == <<pc[p], job[p], vault[p], dirty[p], body[p], target[p], warned[p], code[p]>>
Lists(p) == \/ server' = server /\ since'[p] = since[p]
            \/ /\ since[p] \subseteq since'[p] /\ (since[p] = {} => since'[p] = {})
               /\ since'[p] # {} => server' \in since'[p]

Step(p) ==
  \/ Start(p) \/ Token(p) \/ TokenFails(p) \/ Sync(p) \/ SyncFails(p)
  \/ Check(p) \/ Open(p) \/ Send(p) \/ GiveUp(p)
  \/ Resync(p) \/ ResyncFails(p) \/ Exit(p) \/ Kill(p)
  \/ ServerCreates(p) \/ ServerEdits(p) \/ ServerRefuses(p)
Other == OtherCreates \/ OtherEdits \/ OtherRenames \/ OtherDeletes

LEMMA InitInv == Init => IInv
<1> SUFFICES ASSUME Init  PROVE IInv
  OBVIOUS
<1>1. /\ server \in Seq(Cipher) /\ disk \in Seq(Cipher)
      /\ made = Len(server) /\ made \in 0..MaxCipher /\ edits \in 0..MaxEdits
      /\ \A i \in 1..Len(server) : server[i].id = i
  <2>1. server \in Initial /\ disk \in {<< >>, server} /\ made = Len(server) /\ edits = 0
    BY DEF Init
  <2>2. server \in Seq(Cipher) /\ MaxCipher \in Nat /\ MaxEdits \in Nat
    BY <2>1, VaultAssumption
  <2>3. Len(server) <= MaxCipher /\ \A i \in 1..Len(server) : server[i].id = i
    BY <2>1, InitialAssumption
  <2>4. Len(server) \in 0..MaxCipher /\ 0 \in 0..MaxEdits /\ disk \in Seq(Cipher)
    <3>1. << >> \in Seq(Cipher) /\ Len(server) \in Nat
      BY <2>2, LenProperties
    <3>2. disk \in Seq(Cipher)
      BY <2>1, <2>2, <3>1
    <3> QED BY <2>2, <2>3, <3>1, <3>2
  <2> QED BY <2>1, <2>2, <2>3, <2>4
<1>2. /\ \A i \in 1..Len(server) : server[i].id \in 1..made
      /\ \A i, j \in 1..Len(server) : server[i].id = server[j].id => i = j
  BY <1>1
<1>3. /\ pc \in [Proc -> Labels] /\ job \in [Proc -> Jobs \cup {NoJob}]
      /\ \A p \in Proc : pc[p] = "idle" /\ since[p] = {}
  BY DEF Init, Labels
<1>4. << >> \in Seq(Cipher)
  OBVIOUS
<1>5. vault \in [Proc -> Seq(Cipher)] /\ dirty \in [Proc -> BOOLEAN]
  BY <1>4 DEF Init
<1>6. body \in [Proc -> Body \cup {NoBody}] /\ sent \in [Proc -> Requests \cup {None}]
  BY DEF Init
<1>7. /\ target \in [Proc -> Nat] /\ code \in [Proc -> {0, 1}]
      /\ warned \in [Proc -> BOOLEAN] /\ excuse \in BOOLEAN
  BY DEF Init
<1>8. since \in [Proc -> SUBSET Seq(Cipher)]
  BY DEF Init
<1>9. TypeOK
  BY <1>1, <1>2, <1>3, <1>5, <1>6, <1>7, <1>8 DEF TypeOK
<1>10. \A p \in Proc : Orderly(p)
  BY <1>3 DEF Orderly
<1> QED BY <1>9, <1>10 DEF IInv

LEMMA Others ==
  ASSUME TypeOK, NEW p \in Proc, Step(p), NEW q \in Proc \ {p}
  PROVE  Mine(q)' = Mine(q) /\ sent'[q] = sent[q] /\ Lists(q)
<1> USE DEF TypeOK, Mine, Lists, local, world, Goto, Fail, Gone
<1>1. CASE Start(p) \/ Token(p) \/ TokenFails(p)
  BY <1>1 DEF Start, Token, TokenFails
<1>2. CASE Sync(p) \/ SyncFails(p) \/ Resync(p) \/ ResyncFails(p)
  BY <1>2 DEF Sync, SyncFails, Resync, ResyncFails, Synced
<1>3. CASE Check(p)
  BY <1>3 DEF Check
<1>4. CASE Open(p)
  BY <1>4 DEF Open
<1>5. CASE Send(p) \/ GiveUp(p) \/ Exit(p) \/ Kill(p)
  BY <1>5 DEF Send, GiveUp, Exit, Kill
<1>6. CASE ServerCreates(p) \/ ServerEdits(p)
  <2>1. SinceThen(Sender(p)) /\ Delivered(p) /\ UNCHANGED <<disk, job, local, warned, code>>
    BY <1>6 DEF ServerCreates, ServerEdits
  <2>2. q \notin Sender(p)
    BY DEF Sender
  <2>3. Lists(q)
    BY <2>1, <2>2 DEF SinceThen
  <2> QED BY <2>1, <2>3 DEF Delivered
<1>7. CASE ServerRefuses(p)
  BY <1>7 DEF ServerRefuses
<1> QED BY <1>1, <1>2, <1>3, <1>4, <1>5, <1>6, <1>7 DEF Step

LEMMA Elsewhere ==
  ASSUME TypeOK, Other, NEW q \in Proc
  PROVE  Mine(q)' = Mine(q) /\ sent' = sent /\ Lists(q)
<1>1. SinceThen({}) /\ UNCHANGED <<pc, job, local, sent, warned, code>>
  BY DEF Other, OtherCreates, OtherEdits, OtherRenames, OtherDeletes
<1>2. Mine(q)' = Mine(q)
  BY <1>1 DEF local, Mine
<1>3. Lists(q)
  BY <1>1 DEF SinceThen, Lists
<1> QED BY <1>1, <1>2, <1>3

LEMMA OrderlyFrame ==
  ASSUME NEW q, Orderly(q), Mine(q)' = Mine(q), Lists(q)
  PROVE  Orderly(q)'
  BY DEF Orderly, Mine, Lists

-----------------------------------------------------------------------------
(* The types that an invocation can disturb, and those of the server.       *)
Ours(p) ==
  /\ pc'[p] \in Labels /\ job'[p] \in Jobs \cup {NoJob} /\ (pc'[p] # "idle" => job'[p] \in Jobs)
  /\ vault'[p] \in Seq(Cipher) /\ dirty'[p] \in BOOLEAN
  /\ body'[p] \in Body \cup {NoBody} /\ target'[p] \in Nat
  /\ sent'[p] \in Requests \cup {None}
  /\ warned'[p] \in BOOLEAN /\ code'[p] \in {0, 1} /\ since'[p] \in SUBSET Seq(Cipher)

Maps ==
  /\ pc' = [q \in Proc |-> pc'[q]] /\ job' = [q \in Proc |-> job'[q]]
  /\ vault' = [q \in Proc |-> vault'[q]] /\ dirty' = [q \in Proc |-> dirty'[q]]
  /\ body' = [q \in Proc |-> body'[q]] /\ target' = [q \in Proc |-> target'[q]]
  /\ sent' = [q \in Proc |-> sent'[q]] /\ warned' = [q \in Proc |-> warned'[q]]
  /\ code' = [q \in Proc |-> code'[q]] /\ since' = [q \in Proc |-> since'[q]]

Globals ==
  /\ server \in Seq(Cipher) /\ made \in 0..MaxCipher /\ edits \in 0..MaxEdits
  /\ Numbered(server, made) /\ disk \in Seq(Cipher) /\ excuse \in BOOLEAN

(* A cipher of the name is found in a vault in which there is one.          *)
LEMMA FoundType ==
  ASSUME NEW l \in Seq(Cipher), NEW n, Matches(l, n, 0) # {}
  PROVE  FindCipherByName(l, n) \in Cipher /\ FindCipherByName(l, n).name = n
<1>1. Matches(l, n, 0) \in SUBSET Nat /\ Matches(l, n, 0) \subseteq 1..Len(l)
  BY DEF Matches, Named
<1>2. Min(Matches(l, n, 0)) \in Matches(l, n, 0)
  BY <1>1, LeastIsOne
<1> QED BY <1>1, <1>2, ElementOfSeq DEF FindCipherByName, Matches, Named

(* One lemma per part: what p does to its own state ...                     *)
LEMMA StepOurs ==
  ASSUME IInv, NEW p \in Proc, Step(p), server' \in Seq(Cipher)
  PROVE  Ours(p) /\ Maps
<1>0. TypeOK /\ Orderly(p)
  BY DEF IInv
<1> USE <1>0 DEF TypeOK, Ours, Maps, Labels, local, Goto, Fail, Gone
<1>1. CASE Start(p)
  BY <1>1 DEF Start
<1>2. CASE Token(p) \/ TokenFails(p)
  BY <1>2 DEF Token, TokenFails
<1>3. CASE Sync(p) \/ Resync(p)
  BY <1>3 DEF Sync, Resync, Synced
<1>4. CASE SyncFails(p) \/ ResyncFails(p) \/ GiveUp(p)
  BY <1>4 DEF SyncFails, ResyncFails, GiveUp
<1>5. CASE Check(p)
  <2>1. job[p] \in Jobs /\ job[p].op = "create"
    BY <1>5 DEF Check, Orderly
  <2>2. CreateBody(job[p]) \in Body
    BY <2>1, CreateBodyType
  <2> QED BY <1>5, <2>1, <2>2 DEF Check
<1>6. CASE Open(p)
  <2>1. CASE Fail(p)
    BY <1>6, <2>1 DEF Open
  <2>2. CASE ~Fail(p)
    <3>1. PICK c \in Cipher :
            /\ Goto(p, "token") /\ target' = [target EXCEPT ![p] = c.id]
            /\ body' = [body EXCEPT ![p] = EditBody(c, job[p])]
            /\ UNCHANGED <<world, disk, job, vault, dirty, sent, warned, code, since, excuse>>
      BY <1>6, <2>2, FoundType DEF Open
    <3>2. job[p] \in Jobs /\ c.id \in Nat
      BY <1>6 DEF Open, Cipher
    <3>3. EditBody(c, job[p]) \in Body
      BY <3>2, EditBodyType
    <3> QED BY <3>1, <3>2, <3>3
  <2> QED BY <2>1, <2>2
<1>7. CASE Send(p)
  <2>1. Request(p) \in Requests
    BY <1>7 DEF Send, Orderly, Request, Requests
  <2> QED BY <1>7, <2>1 DEF Send
<1>8. CASE Exit(p) \/ Kill(p)
  <2>1. Gone(p) /\ sent' = sent
    BY <1>8 DEF Exit, Kill
  <2>2. << >> \in Seq(Cipher) /\ NoJob \in Jobs \cup {NoJob} /\ NoBody \in Body \cup {NoBody}
    OBVIOUS
  <2> QED BY <2>1, <2>2
<1>9. CASE ServerCreates(p) \/ ServerEdits(p)
  <2>1. SinceThen(Sender(p)) /\ Delivered(p) /\ UNCHANGED <<disk, job, local, warned, code>>
    BY <1>9 DEF ServerCreates, ServerEdits
  <2>2. since' \in [Proc -> SUBSET Seq(Cipher)]
    BY <2>1 DEF SinceThen
  <2> QED BY <2>1, <2>2 DEF Delivered
<1>10. CASE ServerRefuses(p)
  BY <1>10 DEF ServerRefuses
<1> QED BY <1>1, <1>2, <1>3, <1>4, <1>5, <1>6, <1>7, <1>8, <1>9, <1>10 DEF Step

(* ... what anyone does to the server's list and the saved file ...         *)
LEMMA Unmoved ==
  ASSUME Globals, UNCHANGED world, disk' = disk, excuse' \in BOOLEAN
  PROVE  Globals'
  BY DEF Globals, world, Numbered

LEMMA TypeIsGlobals == TypeOK => Globals
  BY DEF TypeOK, Globals, Numbered

LEMMA StepGlobals ==
  ASSUME IInv, NEW p \in Proc, Step(p)
  PROVE  Globals'
<1>0. TypeOK /\ Orderly(p) /\ Globals
  BY TypeIsGlobals DEF IInv
<1>1. CASE Start(p) \/ Token(p) \/ TokenFails(p) \/ Sync(p) \/ SyncFails(p) \/ Open(p)
  <2>1. UNCHANGED world /\ disk' = disk /\ excuse' = excuse
    BY <1>1 DEF Start, Token, TokenFails, Sync, SyncFails, Open, Fail, world
  <2> QED BY <1>0, <2>1, Unmoved DEF Globals
<1>2. CASE Check(p)
  <2>1. UNCHANGED world /\ disk' = disk /\ excuse' \in BOOLEAN
    BY <1>0, <1>2 DEF Check, Fail, world, TypeOK
  <2> QED BY <1>0, <2>1, Unmoved
<1>3. CASE Send(p) \/ GiveUp(p) \/ Resync(p) \/ ResyncFails(p) \/ Kill(p) \/ ServerRefuses(p)
  <2>1. UNCHANGED world /\ disk' = disk /\ excuse' = excuse
    BY <1>3 DEF Send, GiveUp, Resync, ResyncFails, Kill, ServerRefuses, Fail, world
  <2> QED BY <1>0, <2>1, Unmoved DEF Globals
<1>4. CASE Exit(p)
  <2>1. UNCHANGED world /\ disk' = SavedVault(p) /\ excuse' = excuse
    BY <1>4 DEF Exit
  <2>2. SavedVault(p) \in Seq(Cipher)
    BY <1>0 DEF TypeOK, SavedVault
  <2> QED BY <1>0, <2>1, <2>2 DEF Globals, world, Numbered
<1>5. CASE ServerCreates(p)
  <2> DEFINE c == Stored(sent[p].body, made + 1, Absent)
  <2>1. /\ made \in Nat /\ made < MaxCipher /\ made' = made + 1
        /\ server' = Append(server, c) /\ edits' = edits /\ disk' = disk
    BY <1>0, <1>5 DEF ServerCreates, Globals
  <2>2. sent[p] \in Requests
    BY <1>0, <1>5 DEF ServerCreates, TypeOK, None
  <2>3. c \in Cipher /\ c.id = made + 1
    <3>1. sent[p].body \in Body /\ made + 1 \in Nat /\ Absent \in ToSet(Orgs) \cup {Absent}
      BY <2>1, <2>2 DEF Requests
    <3> QED BY <3>1, StoredType
  <2> HIDE DEF c
  <2>4. server' \in Seq(Cipher) /\ Numbered(server', made')
    BY <1>0, <2>1, <2>3, Added DEF Globals
  <2>5. excuse' \in BOOLEAN /\ made' \in 0..MaxCipher
    BY <1>5, <2>1, VaultAssumption DEF ServerCreates
  <2> QED BY <1>0, <2>1, <2>4, <2>5 DEF Globals, Numbered
<1>6. CASE ServerEdits(p)
  <2>1. PICK i \in 1..Len(server) :
          server' = [server EXCEPT ![i] = Stored(sent[p].body, server[i].id, server[i].org)]
    BY <1>6 DEF ServerEdits
  <2>2. sent[p] \in Requests /\ server[i] \in Cipher /\ server \in Seq(Cipher)
    BY <1>0, <1>6, ElementOfSeq DEF ServerEdits, TypeOK, None
  <2> DEFINE c == Stored(sent[p].body, server[i].id, server[i].org)
  <2>3. c \in Cipher /\ c.id = server[i].id
    BY <2>2, StoredType DEF Requests, Cipher
  <2>4. server' = [server EXCEPT ![i] = c]
    BY <2>1
  <2> HIDE DEF c
  <2>5. made' = made /\ made \in Nat /\ edits' = edits /\ disk' = disk /\ excuse' \in BOOLEAN
    BY <1>0, <1>6 DEF ServerEdits, TypeOK
  <2>6. server' \in Seq(Cipher) /\ Numbered(server', made)
    BY <1>0, <2>2, <2>3, <2>4, <2>5, Replaced DEF Globals
  <2> QED BY <1>0, <2>5, <2>6 DEF Globals, Numbered
<1> QED BY <1>1, <1>2, <1>3, <1>4, <1>5, <1>6 DEF Step

LEMMA OtherGlobals ==
  ASSUME TypeOK, Other
  PROVE  Globals'
<1>0. /\ Globals /\ server \in Seq(Cipher) /\ made \in Nat /\ Numbered(server, made)
      /\ \A i \in 1..Len(server) : server[i] \in Cipher
  BY TypeIsGlobals, ElementOfSeq DEF Globals
<1>1. edits' \in 0..MaxEdits /\ disk' = disk /\ excuse' \in BOOLEAN
  <2>1. edits' = edits + 1 /\ edits < MaxEdits /\ disk' = disk
    BY DEF Other, OtherCreates, OtherEdits, OtherRenames, OtherDeletes
  <2>2. excuse' \in BOOLEAN
    BY DEF TypeOK, Other, OtherCreates, OtherEdits, OtherRenames, OtherDeletes, Comes
  <2> QED BY <2>1, <2>2, VaultAssumption DEF TypeOK
<1>2. server' \in Seq(Cipher) /\ made' \in 0..MaxCipher /\ Numbered(server', made')
  <2>1. CASE OtherCreates
    <3>1. PICK n \in Name, c \in Strangers :
            server' = Append(server, [c EXCEPT !.id = made + 1, !.name = n])
      BY <2>1 DEF OtherCreates
    <3> DEFINE d == [c EXCEPT !.id = made + 1, !.name = n]
    <3>2. c \in Cipher
      BY VaultAssumption
    <3>3. d \in Cipher /\ d.id = made + 1
      <4> DEFINE e == [c EXCEPT !.id = made + 1]
      <4>1. e \in Cipher /\ e.id = made + 1
        BY <1>0, <3>2 DEF Cipher, SecretFits
      <4>2. d = [e EXCEPT !.name = n]
        OBVIOUS
      <4> HIDE DEF d, e
      <4> QED BY <4>1, <4>2 DEF Cipher, SecretFits
    <3>4. server' = Append(server, d)
      BY <3>1
    <3> HIDE DEF d
    <3>5. made' = made + 1 /\ made' \in 0..MaxCipher
      BY <1>0, <2>1, VaultAssumption DEF OtherCreates
    <3> QED BY <1>0, <3>3, <3>4, <3>5, Added
  <2>2. CASE OtherEdits
    <3>1. PICK i \in 1..Len(server), n \in Notes : server' = [server EXCEPT ![i].notes = n]
      BY <2>2 DEF OtherEdits
    <3> DEFINE d == [server[i] EXCEPT !.notes = n]
    <3>2. d \in Cipher /\ d.id = server[i].id
      BY <1>0, <3>1, VaultAssumption DEF Cipher, SecretFits
    <3>3. server' = [server EXCEPT ![i] = d]
      BY <3>1
    <3> HIDE DEF d
    <3> QED BY <1>0, <2>2, <3>2, <3>3, Replaced DEF OtherEdits, Globals
  <2>3. CASE OtherRenames
    <3>1. PICK i \in 1..Len(server), n \in Name : server' = [server EXCEPT ![i].name = n]
      BY <2>3 DEF OtherRenames
    <3> DEFINE d == [server[i] EXCEPT !.name = n]
    <3>2. d \in Cipher /\ d.id = server[i].id
      BY <1>0, <3>1 DEF Cipher, SecretFits
    <3>3. server' = [server EXCEPT ![i] = d]
      BY <3>1
    <3> HIDE DEF d
    <3> QED BY <1>0, <2>3, <3>2, <3>3, Replaced DEF OtherRenames, Globals
  <2>4. CASE OtherDeletes
    BY <1>0, <2>4, Removed DEF OtherDeletes, Globals
  <2> QED BY <2>1, <2>2, <2>3, <2>4 DEF Other
<1>3. Numbered(server, made)'
  BY <1>2 DEF Numbered
<1> QED BY <1>0, <1>1, <1>2, <1>3 DEF Globals

(* ... and both with what others leave alone make the type invariant.       *)
LEMMA OursFrame ==
  ASSUME TypeOK, NEW q \in Proc, Mine(q)' = Mine(q), sent'[q] = sent[q], Lists(q),
         since'[q] \in SUBSET Seq(Cipher)
  PROVE  Ours(q)
  BY DEF TypeOK, Mine, Ours

LEMMA TypeFromParts ==
  ASSUME Globals', Maps, \A q \in Proc : Ours(q)
  PROVE  TypeOK'
<1>1. /\ pc' \in [Proc -> Labels] /\ job' \in [Proc -> Jobs \cup {NoJob}]
      /\ vault' \in [Proc -> Seq(Cipher)] /\ dirty' \in [Proc -> BOOLEAN]
  BY DEF Maps, Ours
<1>2. /\ body' \in [Proc -> Body \cup {NoBody}] /\ target' \in [Proc -> Nat]
      /\ sent' \in [Proc -> Requests \cup {None}]
  BY DEF Maps, Ours
<1>3. /\ warned' \in [Proc -> BOOLEAN] /\ code' \in [Proc -> {0, 1}]
      /\ since' \in [Proc -> SUBSET Seq(Cipher)]
  BY DEF Maps, Ours
<1>4. \A q \in Proc : pc'[q] # "idle" => job'[q] \in Jobs
  BY DEF Ours
<1> QED BY <1>1, <1>2, <1>3, <1>4 DEF TypeOK, Globals, Numbered

LEMMA StepTypes ==
  ASSUME IInv, NEW p \in Proc, Step(p)
  PROVE  TypeOK'
<1>0. TypeOK /\ Globals'
  BY StepGlobals DEF IInv
<1>1. server' \in Seq(Cipher)
  BY <1>0 DEF Globals
<1>2. Ours(p) /\ Maps
  BY <1>1, StepOurs
<1>3. ASSUME NEW q \in Proc \ {p}  PROVE Ours(q)
  <2>1. Mine(q)' = Mine(q) /\ sent'[q] = sent[q] /\ Lists(q)
    BY <1>0, Others
  <2>2. since'[q] \in SUBSET Seq(Cipher)
    <3>1. \/ since' = since
          \/ SinceThen(Sender(p))
          \/ since' = [since EXCEPT ![p] = {}]
      BY DEF Step, Start, Token, TokenFails, Sync, SyncFails, Check, Open, Send, GiveUp, Resync,
             ResyncFails, Exit, Kill, Gone, Fail, ServerCreates, ServerEdits, ServerRefuses
    <3>2. CASE SinceThen(Sender(p))
      BY <1>0, <1>1, <3>2 DEF SinceThen, TypeOK
    <3>3. CASE since' = since \/ since' = [since EXCEPT ![p] = {}]
      BY <1>0, <3>3 DEF TypeOK
    <3> QED BY <3>1, <3>2, <3>3
  <2> QED BY <1>0, <2>1, <2>2, OursFrame
<1> QED BY <1>0, <1>2, <1>3, TypeFromParts

LEMMA OtherTypes ==
  ASSUME TypeOK, Other
  PROVE  TypeOK'
<1>0. Globals' /\ server' \in Seq(Cipher)
  BY OtherGlobals DEF Globals
<1>1. /\ UNCHANGED <<disk, pc, job, local, sent, warned, code>> /\ SinceThen({})
  BY DEF Other, OtherCreates, OtherEdits, OtherRenames, OtherDeletes
<1>2. since' \in [Proc -> SUBSET Seq(Cipher)]
  BY <1>0, <1>1 DEF SinceThen, TypeOK
<1>3. Maps
  BY <1>1, <1>2 DEF TypeOK, Maps, local
<1>4. \A q \in Proc : Ours(q)
  BY <1>1, <1>2 DEF TypeOK, Ours, local
<1> QED BY <1>0, <1>3, <1>4, TypeFromParts

(* The orders of an invocation, at each of its own steps.                   *)
LEMMA StepOrderly ==
  ASSUME IInv, NEW p \in Proc, Step(p)
  PROVE  Orderly(p)'
<1>0. TypeOK /\ Orderly(p)
  BY DEF IInv
<1> USE <1>0 DEF TypeOK, local, world, Goto, Gone
<1>1. CASE Start(p)
  <2>1. PICK j \in Jobs :
          /\ job'[p] = j /\ pc'[p] = (IF j.op = "edit" THEN "open" ELSE "token")
          /\ since' = since /\ server' = server
    BY <1>1 DEF Start
  <2> QED BY <2>1 DEF Orderly
<1>2. CASE Fail(p)
  BY <1>2 DEF Fail, Orderly
<1>3. CASE Token(p)
  <2>1. job[p] \in Jobs /\ job[p].op \in {"create", "edit", "sync"}
    BY <1>3, VaultAssumption DEF Token, Job
  <2> QED BY <1>3, <2>1 DEF Token, Orderly
<1>4. CASE Sync(p)
  BY <1>4 DEF Sync, Synced, Orderly
<1>5. CASE Check(p) /\ ~Fail(p)
  <2>1. job[p] \in Jobs /\ job[p].op = "create"
    BY <1>5 DEF Check, Orderly
  <2>2. body'[p] = CreateBody(job[p]) /\ pc'[p] = "send"
        /\ job' = job /\ since' = since /\ server' = server
    BY <1>5 DEF Check
  <2>3. CreateBody(job[p]) \in Body /\ CreateBody(job[p]).name = job[p].name
    BY <2>1, CreateBodyType
  <2> QED BY <2>1, <2>2, <2>3 DEF Orderly
<1>6. CASE Open(p) /\ ~Fail(p)
  <2>1. pc'[p] = "token" /\ job'[p] = job[p] /\ job[p].op = "edit"
        /\ since' = since /\ server' = server
    BY <1>6 DEF Open, Orderly
  <2>2. body'[p] \in Body
    <3>1. PICK c \in Cipher : body'[p] = EditBody(c, job[p])
      BY <1>6, FoundType DEF Open
    <3>2. job[p] \in Jobs
      BY <1>6 DEF Open
    <3> QED BY <3>1, <3>2, EditBodyType
  <2> QED BY <2>1, <2>2 DEF Orderly
<1>7. CASE Send(p)
  BY <1>7 DEF Send, Orderly
<1>8. CASE Resync(p)
  BY <1>8 DEF Resync, Synced, Orderly
<1>9. CASE ResyncFails(p)
  BY <1>9 DEF ResyncFails, Orderly
<1>10. CASE Exit(p) \/ Kill(p)
  <2>1. /\ pc'[p] = "idle" /\ since'[p] = {}
    BY <1>10 DEF Exit, Kill
  <2> QED BY <2>1 DEF Orderly
<1>11. CASE ServerCreates(p) \/ ServerEdits(p)
  <2>1. SinceThen(Sender(p)) /\ Delivered(p) /\ UNCHANGED <<disk, job, local, warned, code>>
    BY <1>11 DEF ServerCreates, ServerEdits
  <2>2. CASE pc[p] = "reply"
    <3>1. since'[p] = {server'}
      BY <2>1, <2>2 DEF SinceThen, Sender
    <3>2. pc'[p] \in {"reply", "resync"}
      BY <2>1, <2>2 DEF Delivered
    <3> QED BY <2>1, <2>2, <3>1, <3>2 DEF Orderly
  <2>3. CASE pc[p] # "reply"
    <3>1. /\ pc'[p] = pc[p]
      BY <2>1, <2>3 DEF Delivered
    <3>2. since'[p] = (IF since[p] = {} THEN {} ELSE since[p] \cup {server'})
      BY <2>1, <2>3 DEF SinceThen, Sender
    <3> QED BY <2>1, <3>1, <3>2 DEF Orderly
  <2> QED BY <2>2, <2>3
<1>12. CASE ServerRefuses(p)
  BY <1>12 DEF ServerRefuses, Orderly
<1> QED BY <1>1, <1>2, <1>3, <1>4, <1>5, <1>6, <1>7, <1>8, <1>9, <1>10, <1>11, <1>12
        DEF Step, TokenFails, SyncFails, GiveUp

LEMMA Invariance ==
  IInv /\ [Next]_vars => IInv'
<1> SUFFICES ASSUME IInv, [Next]_vars  PROVE IInv'
  OBVIOUS
<1>0. TypeOK /\ \A q \in Proc : Orderly(q)
  BY DEF IInv
<1>1. ASSUME NEW p \in Proc, Step(p)  PROVE IInv'
  <2>1. ASSUME NEW q \in Proc \ {p}  PROVE Orderly(q)'
    BY <1>0, <1>1, Others, OrderlyFrame
  <2>2. TypeOK' /\ Orderly(p)'
    BY <1>1, StepTypes, StepOrderly
  <2> QED BY <2>1, <2>2 DEF IInv
<1>2. CASE Other
  <2>1. \A q \in Proc : Orderly(q)'
    BY <1>0, <1>2, Elsewhere, OrderlyFrame
  <2> QED BY <1>0, <1>2, <2>1, OtherTypes DEF IInv
<1>3. CASE UNCHANGED vars
  BY <1>0, <1>3 DEF IInv, TypeOK, Orderly, vars, world, local
<1> QED BY <1>1, <1>2, <1>3 DEF Next, Step, Other

(* Every variable keeps to its type; the server's ids stay distinct and     *)
(* within those it has given.                                               *)
THEOREM TypeCorrect == Spec => []TypeOK
<1>1. IInv => TypeOK
  BY DEF IInv
<1> QED BY <1>1, InitInv, Invariance, PTL DEF Spec

(* Whatever other invocations and clients do, a create or edit that ends    *)
(* well and without a warning saves a list that the account had after its   *)
(* request was carried out: its item is there for the calls that follow     *)
(* (create.go:39).                                                          *)
THEOREM SavedIsVisible == Spec => []VisibleAfter
<1>1. IInv => VisibleAfter
  BY DEF IInv, Orderly, VisibleAfter, SavedVault
<1> QED BY <1>1, InitInv, Invariance, PTL DEF Spec

-----------------------------------------------------------------------------
(* What keeps names distinct while there is no excuse: a run that checks    *)
(* will see any cipher of its name that the account has, and neither it,    *)
(* once it has checked, nor a request on its way is for a name that the     *)
(* account has.                                                             *)
Unclashed(p) ==
  /\ pc[p] = "check" /\ job[p].name \in Names(server) => job[p].name \in Names(vault[p])
  /\ pc[p] = "send" /\ job[p].op = "create" => job[p].name \notin Names(server)
  /\ sent[p].op = "create" => sent[p].body.name \notin Names(server)

Free == ~excuse => Distinct(server) /\ \A p \in Proc : Unclashed(p)

(* It lasts when the names that come are none that this run is about.       *)
LEMMA Kept ==
  ASSUME NEW q \in Proc, Orderly(q), Unclashed(q), NEW E,
         Names(server') \subseteq Names(server) \cup E,
         pc'[q] \in {"check", "send"} =>
           pc'[q] = pc[q] /\ job'[q] = job[q] /\ vault'[q] = vault[q],
         sent'[q].op = "create" => sent'[q] = sent[q],
         \A n \in E : /\ pc'[q] \in {"check", "send"} => q \notin Creating(n)
                      /\ sent'[q].op = "create" => q \notin Posted(n)
  PROVE  Unclashed(q)'
<1>1. ASSUME pc'[q] = "check", job'[q].name \in Names(server')
      PROVE  job'[q].name \in Names(vault'[q])
  <2>1. pc[q] = "check" /\ job'[q] = job[q] /\ vault'[q] = vault[q] /\ job[q].op = "create"
    BY <1>1 DEF Orderly
  <2>2. job[q].name \notin E
    BY <1>1, <2>1 DEF Creating
  <2> QED BY <1>1, <2>1, <2>2 DEF Unclashed
<1>2. ASSUME pc'[q] = "send", job'[q].op = "create"
      PROVE  job'[q].name \notin Names(server')
  <2>1. pc[q] = "send" /\ job'[q] = job[q]
    BY <1>2
  <2>2. job[q].name \notin E
    BY <1>2, <2>1 DEF Creating
  <2> QED BY <1>2, <2>1, <2>2 DEF Unclashed
<1>3. ASSUME sent'[q].op = "create"  PROVE sent'[q].body.name \notin Names(server')
  <2>1. sent'[q] = sent[q] /\ sent[q].body.name \notin E
    BY <1>3 DEF Posted
  <2> QED BY <1>3, <2>1 DEF Unclashed
<1>4. Names(server)' = Names(server') /\ Names(vault[q])' = Names(vault'[q])
  BY DEF Names
<1> QED BY <1>1, <1>2, <1>3, <1>4 DEF Unclashed

LEMMA KeptStill ==
  ASSUME NEW q \in Proc, Orderly(q), Unclashed(q), Names(server') \subseteq Names(server),
         pc'[q] \in {"check", "send"} =>
           pc'[q] = pc[q] /\ job'[q] = job[q] /\ vault'[q] = vault[q],
         sent'[q].op = "create" => sent'[q] = sent[q]
  PROVE  Unclashed(q)'
<1> DEFINE E == {}
<1>1. Names(server') \subseteq Names(server) \cup E /\ \A n : n \notin E
  OBVIOUS
<1> HIDE DEF E
<1> QED BY <1>1, Kept

(* With all keys in place, a name that nothing matches is not in the list.  *)
LEMMA NothingHidden ==
  ASSUME NEW l \in Seq(Cipher), NEW n, Matches(l, n, 0) = {}, ~Broken
  PROVE  n \notin Names(l)
<1>1. \A c \in Cipher : Readable(c)
  <2>1. Bad = {} /\ Orgs \in Seq(STRING)
    BY CiphersAssumption DEF Broken
  <2>2. KeyedOrgs = ToSet(Orgs)
    BY <2>1 DEF KeyedOrgs, ToSet
  <2> QED BY <2>2 DEF Readable, Cipher
<1>2. ASSUME NEW i \in 1..Len(l), l[i].name = n  PROVE FALSE
  <2>1. l[i] \in Cipher /\ i > 0
    BY ElementOfSeq
  <2>2. i \in Matches(l, n, 0)
    BY <1>1, <1>2, <2>1 DEF Matches, Named
  <2> QED BY <2>2
<1> QED BY <1>2 DEF Names

LEMMA FreeInit == Init => Free
<1> SUFFICES ASSUME Init  PROVE Free
  OBVIOUS
<1>1. Distinct(server)
  BY InitialAssumption DEF Init, Distinct
<1>2. \A p \in Proc : pc[p] = "idle" /\ sent[p] = None
  BY DEF Init
<1> QED BY <1>1, <1>2 DEF Free, Unclashed, None

LEMMA FreeStep ==
  ASSUME IInv, Free, NEW p \in Proc, Step(p), ~excuse'
  PROVE  Distinct(server') /\ \A q \in Proc : Unclashed(q)'
<1>0. /\ TypeOK /\ \A q \in Proc : Orderly(q)
      /\ server \in Seq(Cipher) /\ made \in Nat
      /\ ~excuse /\ Distinct(server) /\ \A q \in Proc : Unclashed(q)
  <2>1. ~excuse
    BY DEF Step, Start, Token, TokenFails, Sync, SyncFails, Check, Open, Send, GiveUp, Resync,
           ResyncFails, Exit, Kill, Gone, Fail, ServerCreates, ServerEdits, ServerRefuses
  <2> QED BY <2>1 DEF IInv, TypeOK, Free
<1> DEFINE Calm == server' = server /\ \A q \in Proc \ {p} : Unclashed(q)'
<1>1. ASSUME server' = server  PROVE Calm
  <2>1. ASSUME NEW q \in Proc \ {p}  PROVE Unclashed(q)'
    <3>1. Mine(q)' = Mine(q) /\ sent'[q] = sent[q]
      BY <1>0, Others
    <3>2. pc'[q] = pc[q] /\ job'[q] = job[q] /\ vault'[q] = vault[q]
      BY <3>1 DEF Mine
    <3>3. Names(server') \subseteq Names(server)
      BY <1>1
    <3> QED BY <1>0, <3>1, <3>2, <3>3, KeptStill
  <2> QED BY <1>1, <2>1
<1>2. ASSUME server' = server, sent'[p].op = "create" => sent'[p] = sent[p],
             pc'[p] \in {"check", "send"} =>
               pc'[p] = pc[p] /\ job'[p] = job[p] /\ vault'[p] = vault[p]
      PROVE  Unclashed(p)'
  <2>1. Names(server') \subseteq Names(server)
    BY <1>2
  <2> QED BY <1>0, <1>2, <2>1, KeptStill
<1> HIDE DEF Calm
<1>3. CASE server' = server
  <2>1. Calm
    BY <1>1, <1>3
  <2>2. Unclashed(p)'
    <3>1. CASE Start(p) \/ TokenFails(p) \/ SyncFails(p) \/ Open(p) \/ GiveUp(p) \/ Resync(p)
               \/ ResyncFails(p) \/ Exit(p) \/ Kill(p)
      <4>1. (sent'[p].op = "create" => sent'[p] = sent[p]) /\ pc'[p] \notin {"check", "send"}
        <5>1. CASE Fail(p)
          BY <1>0, <5>1 DEF TypeOK, Fail, Goto
        <5>2. CASE Start(p)
          BY <1>0, <5>2 DEF TypeOK, Start, Goto
        <5>3. CASE Open(p) /\ ~Fail(p)
          BY <1>0, <5>3 DEF TypeOK, Open, Goto
        <5>4. CASE Resync(p) \/ ResyncFails(p)
          BY <1>0, <5>4 DEF TypeOK, Resync, ResyncFails, Goto
        <5>5. CASE Exit(p) \/ Kill(p)
          BY <1>0, <5>5 DEF TypeOK, Exit, Kill, Gone, Goto
        <5> QED BY <3>1, <5>1, <5>2, <5>3, <5>4, <5>5 DEF TokenFails, SyncFails, GiveUp
      <4> QED BY <1>2, <1>3, <4>1
    <3>2. CASE Token(p)
      <4>1. sent' = sent /\ job' = job /\ ((pc'[p] = "send" /\ job[p].op = "edit") \/ pc'[p] = "sync")
        BY <1>0, <3>2 DEF TypeOK, Token, Goto
      <4> QED BY <1>0, <1>3, <4>1 DEF Unclashed
    <3>3. CASE Sync(p)
      <4>1. sent' = sent /\ vault'[p] = server /\ pc'[p] \in {"check", "exit"}
        BY <1>0, <3>3 DEF TypeOK, Sync, Synced, Goto
      <4> QED BY <1>0, <1>3, <4>1 DEF Unclashed
    <3>4. CASE Check(p)
      <4>1. CASE Fail(p)
        <5>1. pc'[p] = "exit" /\ sent' = sent
          BY <1>0, <4>1 DEF Fail, Goto, TypeOK
        <5> QED BY <1>0, <1>3, <5>1 DEF Unclashed
      <4>2. CASE ~Fail(p)
        <5>1. PICK n \in 0..Len(vault[p]) :
                /\ Matches(vault[p], job[p].name, n + (IF Broken THEN 1 ELSE 0)) = {}
                /\ Goto(p, "send") /\ UNCHANGED <<job, sent>>
                /\ excuse' = (excuse \/ n + (IF Broken THEN 1 ELSE 0) > 0)
          BY <3>4, <4>2 DEF Check
        <5>2. ~Broken /\ n = 0
          <6> DEFINE skipped == n + (IF Broken THEN 1 ELSE 0)
          <6>1. excuse' = (excuse \/ skipped > 0)
            BY <5>1
          <6>2. skipped > 0 => ~Broken /\ n = 0
            <7> HIDE DEF skipped
            <7> QED BY <6>1, Zenon
          <6>3. n \in Nat
            BY <5>1
          <6> QED BY <6>2, <6>3
        <5>3. Matches(vault[p], job[p].name, 0) = {} /\ vault[p] \in Seq(Cipher)
          BY <1>0, <5>1, <5>2 DEF TypeOK
        <5>4. job[p].name \notin Names(vault[p])
          BY <5>2, <5>3, NothingHidden
        <5>5. job[p].name \notin Names(server)
          BY <1>0, <3>4, <5>4 DEF Check, Unclashed
        <5>6. job' = job /\ sent' = sent /\ pc'[p] = "send"
          BY <1>0, <5>1 DEF Goto, TypeOK
        <5> QED BY <1>0, <1>3, <5>5, <5>6 DEF Unclashed
      <4> QED BY <4>1, <4>2
    <3>5. CASE Send(p)
      <4>1. /\ pc'[p] = "reply" /\ sent'[p] = Request(p)
            /\ job[p].op = "create" => body[p].name = job[p].name
               /\ job[p].name \notin Names(server)
        BY <1>0, <3>5 DEF TypeOK, Send, Goto, Orderly, Unclashed
      <4> QED BY <1>0, <1>3, <4>1 DEF Unclashed, Request
    <3>6. CASE ServerCreates(p) \/ ServerEdits(p)
      <4>1. Delivered(p) /\ UNCHANGED <<job, local>>
        BY <3>6 DEF ServerCreates, ServerEdits
      <4>2. sent'[p] = None /\ (pc'[p] \in {"check", "send"} => pc'[p] = pc[p]) /\ vault' = vault
        BY <1>0, <4>1 DEF Delivered, Goto, TypeOK, local
      <4> QED BY <1>2, <1>3, <4>1, <4>2 DEF None
    <3>7. CASE ServerRefuses(p)
      <4>1. sent'[p] = None /\ (pc'[p] = "exit" \/ pc'[p] = pc[p]) /\ UNCHANGED <<job, local>>
        BY <1>0, <3>7 DEF TypeOK, ServerRefuses, Goto
      <4>2. sent'[p].op # "create" /\ job'[p] = job[p] /\ vault'[p] = vault[p]
        BY <4>1 DEF None, local
      <4> QED BY <1>2, <1>3, <4>1, <4>2
    <3> QED BY <3>1, <3>2, <3>3, <3>4, <3>5, <3>6, <3>7 DEF Step
  <2> QED BY <1>0, <1>3, <2>1, <2>2 DEF Calm
<1>4. CASE ServerCreates(p)
  <2> DEFINE n == sent[p].body.name  c == Stored(sent[p].body, made + 1, Absent)
  <2>1. sent[p] \in Requests /\ sent[p].op = "create"
    BY <1>0, <1>4 DEF ServerCreates, TypeOK, None
  <2>2. c \in Cipher /\ c.name = n
    <3>1. sent[p].body \in Body /\ made + 1 \in Nat /\ Absent \in ToSet(Orgs) \cup {Absent}
      BY <1>0, <2>1 DEF Requests
    <3> QED BY <3>1, StoredType
  <2>3. server' = Append(server, c) /\ Delivered(p) /\ UNCHANGED <<job, local>>
    BY <1>4 DEF ServerCreates
  <2>4. Creating(n) \ Sender(p) = {} /\ Posted(n) \ {p} = {}
    BY <1>4 DEF ServerCreates
  <2>5. n \notin Names(server)
    BY <1>0, <2>1 DEF Unclashed
  <2> HIDE DEF n, c
  <2>6. Names(server') = Names(server) \cup {n} /\ Distinct(server')
    BY <1>0, <2>2, <2>3, <2>5, Added
  <2>7. ASSUME NEW q \in Proc  PROVE Unclashed(q)'
    <3>1. /\ pc'[q] \in {"check", "send"} => pc'[q] = pc[q] /\ q \notin Sender(p)
          /\ sent'[q].op = "create" => sent'[q] = sent[q] /\ q # p
          /\ job'[q] = job[q] /\ vault'[q] = vault[q]
      BY <1>0, <2>3 DEF Delivered, Goto, Sender, local, TypeOK, None
    <3>2. /\ pc'[q] \in {"check", "send"} => q \notin Creating(n)
          /\ sent'[q].op = "create" => q \notin Posted(n)
      BY <2>4, <3>1
    <3> QED BY <1>0, <2>6, <3>1, <3>2, Kept
  <2> QED BY <2>6, <2>7
<1>5. CASE ServerEdits(p)
  <2>1. PICK i \in 1..Len(server) :
          /\ server[i].name = sent[p].body.name
          /\ server' = [server EXCEPT ![i] = Stored(sent[p].body, server[i].id, server[i].org)]
    BY <1>5 DEF ServerEdits
  <2>2. sent[p] \in Requests /\ server[i] \in Cipher
    BY <1>0, <1>5, ElementOfSeq DEF ServerEdits, TypeOK, None
  <2> DEFINE c == Stored(sent[p].body, server[i].id, server[i].org)
  <2>3. c \in Cipher /\ c.id = server[i].id /\ c.name = server[i].name
    BY <2>1, <2>2, StoredType DEF Requests, Cipher
  <2>4. server' = [server EXCEPT ![i] = c]
    BY <2>1
  <2> HIDE DEF c
  <2>5. Names(server') \subseteq Names(server) /\ Distinct(server')
    <3>1. server[i].name \in Names(server) /\ 0 \in Nat
      BY DEF Names
    <3> QED BY <1>0, <2>3, <2>4, <3>1, Replaced
  <2>6. Delivered(p) /\ UNCHANGED <<job, local>>
    BY <1>5 DEF ServerEdits
  <2>7. ASSUME NEW q \in Proc  PROVE Unclashed(q)'
    <3>1. /\ pc'[q] \in {"check", "send"} => pc'[q] = pc[q]
          /\ sent'[q].op = "create" => sent'[q] = sent[q]
          /\ job'[q] = job[q] /\ vault'[q] = vault[q]
      BY <1>0, <2>6 DEF Delivered, Goto, local, TypeOK, None
    <3> QED BY <1>0, <2>5, <3>1, KeptStill
  <2> QED BY <2>5, <2>7
<1>6. server' = server \/ ServerCreates(p) \/ ServerEdits(p)
  BY DEF Step, Start, Token, TokenFails, Sync, SyncFails, Check, Open, Send, GiveUp, Resync,
         ResyncFails, Exit, Kill, Fail, ServerRefuses, world
<1> QED BY <1>3, <1>4, <1>5, <1>6

LEMMA FreeOther ==
  ASSUME IInv, Free, Other, ~excuse'
  PROVE  Distinct(server') /\ \A q \in Proc : Unclashed(q)'
<1>0. /\ TypeOK /\ \A q \in Proc : Orderly(q)
      /\ server \in Seq(Cipher) /\ made \in Nat
      /\ \A i \in 1..Len(server) : server[i] \in Cipher
      /\ ~excuse /\ Distinct(server) /\ \A q \in Proc : Unclashed(q)
  <2>1. ~excuse
    BY DEF Other, OtherCreates, OtherEdits, OtherRenames, OtherDeletes, Comes
  <2> QED BY <2>1, ElementOfSeq DEF IInv, TypeOK, Free
<1>1. pc' = pc /\ job' = job /\ vault' = vault /\ sent' = sent
  BY DEF Other, OtherCreates, OtherEdits, OtherRenames, OtherDeletes, local
<1>2. ASSUME Names(server') \subseteq Names(server)
      PROVE  \A q \in Proc : Unclashed(q)'
  BY <1>0, <1>1, <1>2, KeptStill
<1>3. ASSUME NEW n, Comes(n), Names(server') \subseteq Names(server) \cup {n}
      PROVE  \A q \in Proc : Unclashed(q)'
  <2>1. Creating(n) \cup Posted(n) = {}
    BY <1>3 DEF Comes
  <2> QED BY <1>0, <1>1, <1>3, <2>1, Kept
<1>4. CASE OtherCreates
  <2>1. PICK n \in Name \ Names(server), c \in Strangers :
          server' = Append(server, [c EXCEPT !.id = made + 1, !.name = n]) /\ Comes(n)
    BY <1>4 DEF OtherCreates
  <2> DEFINE d == [c EXCEPT !.id = made + 1, !.name = n]
  <2>2. d \in Cipher /\ d.name = n
    <3> DEFINE e == [c EXCEPT !.id = made + 1]
    <3>1. e \in Cipher
      <4>1. c \in Cipher /\ made + 1 \in Nat
        BY <1>0, VaultAssumption
      <4> QED BY <4>1 DEF Cipher, SecretFits
    <3>2. d = [e EXCEPT !.name = n]
      OBVIOUS
    <3> HIDE DEF d, e
    <3> QED BY <3>1, <3>2 DEF Cipher, SecretFits
  <2>3. server' = Append(server, d)
    BY <2>1
  <2> HIDE DEF d
  <2>4. Names(server') = Names(server) \cup {n} /\ Distinct(server')
    BY <1>0, <2>1, <2>2, <2>3, Added
  <2> QED BY <1>3, <2>1, <2>4
<1>5. CASE OtherEdits
  <2>1. PICK i \in 1..Len(server), n \in Notes : server' = [server EXCEPT ![i].notes = n]
    BY <1>5 DEF OtherEdits
  <2> DEFINE d == [server[i] EXCEPT !.notes = n]
  <2>2. d \in Cipher /\ d.id = server[i].id /\ d.name = server[i].name
    BY <1>0, <2>1, VaultAssumption DEF Cipher, SecretFits
  <2>3. server' = [server EXCEPT ![i] = d]
    BY <2>1
  <2> HIDE DEF d
  <2>4. Names(server') \subseteq Names(server) /\ Distinct(server')
    <3>1. server[i].name \in Names(server) /\ 0 \in Nat
      BY DEF Names
    <3> QED BY <1>0, <2>2, <2>3, <3>1, Replaced
  <2> QED BY <1>2, <2>4
<1>6. CASE OtherRenames
  <2>1. PICK i \in 1..Len(server), n \in Name \ Names(server) :
          server' = [server EXCEPT ![i].name = n] /\ Comes(n)
    BY <1>6 DEF OtherRenames
  <2> DEFINE d == [server[i] EXCEPT !.name = n]
  <2>2. d \in Cipher /\ d.id = server[i].id /\ d.name = n
    BY <1>0, <2>1 DEF Cipher, SecretFits
  <2>3. server' = [server EXCEPT ![i] = d]
    BY <2>1
  <2> HIDE DEF d
  <2>4. Names(server') \subseteq Names(server) \cup {n} /\ Distinct(server')
    <3>1. 0 \in Nat /\ d.name \notin Names(server)
      BY <2>1, <2>2
    <3>2. Distinct(server') /\ Names(server') \subseteq Names(server) \cup {d.name}
      BY <1>0, <2>2, <2>3, <3>1, Replaced
    <3> QED BY <2>2, <3>2
  <2> QED BY <1>3, <2>1, <2>4
<1>7. CASE OtherDeletes
  <2>1. Names(server') \subseteq Names(server) /\ Distinct(server')
    BY <1>0, <1>7, Removed DEF OtherDeletes
  <2> QED BY <1>2, <2>1
<1> QED BY <1>4, <1>5, <1>6, <1>7 DEF Other

LEMMA FreeInvariance ==
  IInv /\ Free /\ [Next]_vars => Free'
<1> SUFFICES ASSUME IInv, Free, [Next]_vars, ~excuse'
             PROVE  Distinct(server') /\ \A q \in Proc : Unclashed(q)'
  BY DEF Free, Distinct
<1>1. CASE \E p \in Proc : Step(p)
  BY <1>1, FreeStep
<1>2. CASE Other
  BY <1>2, FreeOther
<1>3. CASE UNCHANGED vars
  <2>1. server' = server /\ pc' = pc /\ job' = job /\ vault' = vault /\ sent' = sent /\ ~excuse
    BY <1>3 DEF vars, world, local
  <2>2. Distinct(server) /\ (\A q \in Proc : Orderly(q)) /\ \A q \in Proc : Unclashed(q)
    BY <2>1 DEF IInv, Free
  <2> QED BY <2>1, <2>2, KeptStill
<1> QED BY <1>1, <1>2, <1>3 DEF Next, Step, Other

(* create is idempotent (create.go:38): whatever requests fail, are retried *)
(* by another run or arrive late, no name is there twice unless two clients *)
(* create it at once, a stale edit renames, or the check could not decrypt. *)
THEOREM NamesStayUnique == Spec => []UniqueNames
<1>1. Free => UniqueNames
  BY DEF Free, UniqueNames
<1> QED BY <1>1, InitInv, Invariance, FreeInit, FreeInvariance, PTL DEF Spec

-----------------------------------------------------------------------------
(* What an edit sends, from the moment it has found its cipher, is made of  *)
(* the cipher that its own list holds; no list holds two of one id.         *)
Unmixed(l) == \A i, j \in 1..Len(l) : l[i].id = l[j].id => i = j

Editing(p) ==
  /\ Unmixed(vault[p])
  /\ (job[p].op = "edit" /\ pc[p] \in {"token", "send", "reply"}) =>
       \E i \in 1..Len(vault[p]) :
         /\ vault[p][i].id = target[p] /\ Fits(job[p], vault[p][i])
         /\ body[p] = EditBody(vault[p][i], job[p])
  /\ pc[p] = "reply" => sent[p] \in {None, Request(p)}

EditInv == Unmixed(disk) /\ \A p \in Proc : Editing(p)

LEMMA EditInit == Init => EditInv
<1> SUFFICES ASSUME Init  PROVE EditInv
  OBVIOUS
<1>1. \A p \in Proc : pc[p] = "idle" /\ vault[p] = << >>
  BY DEF Init
<1>2. Unmixed(<< >>)
  BY DEF Unmixed
<1>3. \A p \in Proc : Editing(p)
  BY <1>1, <1>2 DEF Editing
<1>4. Unmixed(disk)
  <2>1. server \in Initial /\ disk \in {<< >>, server}
    BY DEF Init
  <2>2. \A i \in 1..Len(server) : server[i].id = i
    BY <2>1, InitialAssumption
  <2>3. Unmixed(server)
    BY <2>2 DEF Unmixed
  <2> QED BY <1>2, <2>1, <2>3
<1> QED BY <1>3, <1>4 DEF EditInv

LEMMA EditingFrame ==
  ASSUME NEW q, Editing(q), Mine(q)' = Mine(q), sent'[q] = sent[q]
  PROVE  Editing(q)'
<1>1. /\ pc'[q] = pc[q] /\ job'[q] = job[q] /\ vault'[q] = vault[q]
      /\ body'[q] = body[q] /\ target'[q] = target[q]
  BY DEF Mine
<1>2. Unmixed(vault[q])' = Unmixed(vault[q])
  BY <1>1 DEF Unmixed
<1>3. Request(q)' = Request(q)
  BY <1>1 DEF Request
<1> QED BY <1>1, <1>2, <1>3 DEF Editing

LEMMA StepEditing ==
  ASSUME IInv, EditInv, NEW p \in Proc, Step(p)
  PROVE  Editing(p)' /\ Unmixed(disk)'
<1>0. TypeOK /\ Orderly(p) /\ Editing(p) /\ Unmixed(disk) /\ Unmixed(server)
  BY DEF IInv, EditInv, TypeOK, Unmixed
<1>a. ASSUME vault'[p] \in {vault[p], disk, server, << >>}
      PROVE  Unmixed(vault'[p])
  BY <1>0, <1>a DEF Editing, Unmixed
<1>b. Unmixed(vault[p])' <=> Unmixed(vault'[p])
  BY DEF Unmixed
<1>c. ASSUME disk' \in {disk, vault[p]}
      PROVE  Unmixed(disk)'
  BY <1>0, <1>c DEF Editing, Unmixed
<1> USE DEF TypeOK, local, world, Goto
<1>1. CASE Start(p)
  <2>1. PICK j \in Jobs : job'[p] = j /\ pc'[p] = (IF j.op = "edit" THEN "open" ELSE "token")
    BY <1>0, <1>1 DEF Start
  <2>2. vault'[p] = disk /\ disk' = disk
    BY <1>0, <1>1 DEF Start
  <2> QED BY <1>a, <1>b, <1>c, <2>1, <2>2 DEF Editing
<1>2. CASE Fail(p)
  <2>1. pc'[p] = "exit" /\ vault'[p] = vault[p] /\ disk' = disk
    BY <1>0, <1>2 DEF Fail
  <2> QED BY <1>a, <1>b, <1>c, <2>1 DEF Editing
<1>3. CASE Token(p)
  <2>1. /\ pc[p] = "token" /\ pc'[p] = (IF job[p].op = "edit" THEN "send" ELSE "sync")
        /\ job' = job /\ vault' = vault /\ body' = body /\ target' = target /\ disk' = disk
    BY <1>0, <1>3 DEF Token
  <2> QED BY <1>0, <1>a, <1>b, <1>c, <2>1 DEF Editing
<1>4. CASE Sync(p) \/ Resync(p)
  <2>1. vault'[p] = server /\ pc'[p] \in {"check", "exit"} /\ disk' = disk
    BY <1>0, <1>4 DEF Sync, Resync, Synced
  <2> QED BY <1>a, <1>b, <1>c, <2>1 DEF Editing
<1>5. CASE ResyncFails(p)
  <2>1. vault'[p] = vault[p] /\ pc'[p] = "exit" /\ disk' = disk
    BY <1>0, <1>5 DEF ResyncFails
  <2> QED BY <1>a, <1>b, <1>c, <2>1 DEF Editing
<1>6. CASE Check(p) /\ ~Fail(p)
  <2>1. job'[p].op = "create" /\ pc'[p] = "send" /\ vault'[p] = vault[p] /\ disk' = disk
    BY <1>0, <1>6 DEF Check, Orderly
  <2> QED BY <1>a, <1>b, <1>c, <2>1 DEF Editing
<1>7. CASE Open(p) /\ ~Fail(p)
  <2> DEFINE found == Matches(vault[p], job[p].name, 0)
             c == FindCipherByName(vault[p], job[p].name)
  <2>1. /\ found # {} /\ Fits(job[p], c)
        /\ pc'[p] = "token" /\ target'[p] = c.id /\ body'[p] = EditBody(c, job[p])
        /\ job' = job /\ vault' = vault /\ disk' = disk
    BY <1>0, <1>7 DEF Open
  <2>2. \E i \in 1..Len(vault[p]) : c = vault[p][i]
    <3>1. found \in SUBSET Nat /\ found \subseteq 1..Len(vault[p])
      BY DEF Matches, Named
    <3>2. Min(found) \in found
      BY <2>1, <3>1, LeastIsOne
    <3> QED BY <3>1, <3>2 DEF FindCipherByName
  <2> HIDE DEF found, c
  <2> QED BY <1>a, <1>b, <1>c, <2>1, <2>2 DEF Editing
<1>8. CASE Send(p)
  <2>1. /\ pc[p] = "send" /\ pc'[p] = "reply" /\ sent'[p] = Request(p)
        /\ job' = job /\ vault' = vault /\ body' = body /\ target' = target /\ disk' = disk
    BY <1>0, <1>8 DEF Send
  <2>2. Request(p)' = Request(p)
    BY <2>1 DEF Request
  <2> QED BY <1>0, <1>a, <1>b, <1>c, <2>1, <2>2 DEF Editing
<1>9. CASE Exit(p) \/ Kill(p)
  <2>1. pc'[p] = "idle" /\ vault'[p] = << >> /\ disk' \in {disk, vault[p]}
    BY <1>0, <1>9 DEF Exit, Kill, Gone, SavedVault
  <2> QED BY <1>a, <1>b, <1>c, <2>1 DEF Editing
<1>10. CASE ServerCreates(p) \/ ServerEdits(p)
  <2>1. /\ sent'[p] = None /\ (pc'[p] = pc[p] \/ pc'[p] = "resync")
        /\ job' = job /\ vault' = vault /\ body' = body /\ target' = target /\ disk' = disk
    BY <1>0, <1>10 DEF ServerCreates, ServerEdits, Delivered
  <2> QED BY <1>0, <1>a, <1>b, <1>c, <2>1 DEF Editing
<1>11. CASE ServerRefuses(p)
  <2>1. /\ sent'[p] = None /\ (pc'[p] = pc[p] \/ pc'[p] = "exit")
        /\ job' = job /\ vault' = vault /\ body' = body /\ target' = target /\ disk' = disk
    BY <1>0, <1>11 DEF ServerRefuses
  <2> QED BY <1>0, <1>a, <1>b, <1>c, <2>1 DEF Editing
<1> QED BY <1>1, <1>2, <1>3, <1>4, <1>5, <1>6, <1>7, <1>8, <1>9, <1>10, <1>11
        DEF Step, TokenFails, SyncFails, GiveUp

LEMMA EditInvariance ==
  IInv /\ EditInv /\ [Next]_vars => EditInv'
<1> SUFFICES ASSUME IInv, EditInv, [Next]_vars  PROVE EditInv'
  OBVIOUS
<1>0. TypeOK /\ Unmixed(disk) /\ \A q \in Proc : Editing(q)
  BY DEF IInv, EditInv
<1>1. ASSUME NEW p \in Proc, Step(p)  PROVE EditInv'
  <2>1. ASSUME NEW q \in Proc \ {p}  PROVE Editing(q)'
    BY <1>0, <1>1, Others, EditingFrame
  <2>2. Editing(p)' /\ Unmixed(disk)'
    BY <1>1, StepEditing
  <2> QED BY <2>1, <2>2 DEF EditInv
<1>2. CASE Other
  <2>1. \A q \in Proc : Editing(q)'
    BY <1>0, <1>2, Elsewhere, EditingFrame
  <2>2. disk' = disk
    BY <1>2 DEF Other, OtherCreates, OtherEdits, OtherRenames, OtherDeletes
  <2> QED BY <1>0, <2>1, <2>2 DEF EditInv, Unmixed
<1>3. CASE UNCHANGED vars
  <2>1. /\ disk' = disk
        /\ \A q \in Proc : Mine(q)' = Mine(q) /\ sent'[q] = sent[q]
    BY <1>3 DEF vars, world, local, Mine
  <2>2. \A q \in Proc : Editing(q)'
    BY <1>0, <2>1, EditingFrame
  <2> QED BY <1>0, <2>1, <2>2 DEF EditInv, Unmixed
<1> QED BY <1>1, <1>2, <1>3 DEF Next, Step, Other

(* Of one id, a list holds one cipher.                                      *)
LEMMA OneOfAnId ==
  ASSUME NEW l, Unmixed(l), NEW i \in 1..Len(l)
  PROVE  ById(l, l[i].id) = l[i]
<1>1. \A j \in 1..Len(l) : l[j].id = l[i].id <=> j = i
  BY DEF Unmixed
<1>2. (CHOOSE j \in 1..Len(l) : l[j].id = l[i].id) = i
  BY <1>1
<1> QED BY <1>2 DEF ById

(* What an edit makes of a cipher that is still as its list has it. *)
LEMMA EditedExactly ==
  ASSUME NEW c \in Cipher, NEW j \in Jobs, j.op = "edit", Fits(j, c), Distinct(c.fields)
  PROVE  LET d == Stored(EditBody(c, j), c.id, c.org) IN
         /\ d.id = c.id /\ d.name = c.name /\ d.org = c.org /\ d.kind = c.kind
         /\ c.secret # Missing =>
              d.secret = (IF j.secret = Absent THEN c.secret ELSE j.secret)
         /\ d.notes = EditedNotes(c, j)
         /\ \A f \in FieldName :
              ReadField(d.fields, f) =
                (IF Asked(j.fields, f) = Absent THEN ReadField(c.fields, f)
                 ELSE Asked(j.fields, f))
<1> DEFINE d == Stored(EditBody(c, j), c.id, c.org)
<1>1. /\ d.id = c.id /\ d.name = c.name /\ d.org = c.org /\ d.kind = c.kind
      /\ d.secret = EditedSecret(c, j) /\ d.notes = EditedNotes(c, j)
      /\ d.fields = MergeFields(c.fields, j.fields)
  BY DEF Stored, EditBody
<1> HIDE DEF d
<1>2. c.secret # Missing =>
        EditedSecret(c, j) = (IF j.secret = Absent THEN c.secret ELSE j.secret)
  <2>1. SecretFits(c) /\ SecretFits(j)
    BY VaultAssumption DEF Cipher, Job
  <2> QED BY <2>1 DEF SecretFits, Fits, EditedSecret
<1>3. c.fields \in Seq(Field) /\ j.fields \in Seq(Field)
  BY VaultAssumption DEF Cipher, Job, Fields
<1> QED BY <1>1, <1>2, <1>3, MergeReads DEF d

LEMMA ReplyIsExact ==
  ASSUME IInv, EditInv, NEW p \in Proc, Step(p),
         pc[p] = "reply", pc'[p] = "resync", job[p].op = "edit",
         ById(server, target[p]) = ById(vault[p], target[p]),
         Distinct(ById(server, target[p]).fields)
  PROVE  LET c == ById(server, target[p]) IN
         ById(server', target[p]) = Stored(EditBody(c, job[p]), c.id, c.org)
         /\ c \in Cipher /\ Fits(job[p], c)
<1>0. TypeOK /\ Orderly(p) /\ Editing(p) /\ Unmixed(server)
  BY DEF IInv, EditInv, TypeOK, Unmixed
<1>1. ServerCreates(p) \/ ServerEdits(p)
  BY <1>0 DEF Step, Start, Token, TokenFails, Sync, SyncFails, Check, Open, Send, GiveUp, Resync,
         ResyncFails, Exit, Kill, Gone, Fail, Goto, ServerRefuses, TypeOK
<1>2. sent[p] \in {None, Request(p)} /\ sent[p].op # "none"
  BY <1>0, <1>1 DEF Editing, ServerCreates, ServerEdits
<1>3. sent[p] = Request(p)
  BY <1>2 DEF None
<1>4. ServerEdits(p)
  BY <1>1, <1>3 DEF ServerCreates, Request
<1>5. PICK k \in 1..Len(vault[p]) :
        /\ vault[p][k].id = target[p] /\ Fits(job[p], vault[p][k])
        /\ body[p] = EditBody(vault[p][k], job[p])
  BY <1>0 DEF Editing
<1>6. ById(vault[p], target[p]) = vault[p][k]
  BY <1>0, <1>5, OneOfAnId DEF Editing
<1>7. PICK i \in 1..Len(server) :
        /\ server[i].id = target[p]
        /\ server' = [server EXCEPT ![i] = Stored(body[p], server[i].id, server[i].org)]
  <2>1. sent[p].id = target[p] /\ sent[p].body = body[p]
    BY <1>3 DEF Request
  <2> QED BY <1>4, <2>1 DEF ServerEdits
<1>8. ById(server, target[p]) = server[i] /\ server[i] \in Cipher /\ server \in Seq(Cipher)
  BY <1>0, <1>7, OneOfAnId, ElementOfSeq DEF TypeOK
<1> DEFINE c == server[i]  d == Stored(EditBody(c, job[p]), c.id, c.org)
<1>9. c = vault[p][k] /\ server' = [server EXCEPT ![i] = d]
  BY <1>5, <1>6, <1>7, <1>8
<1>10. d.id = c.id
  BY DEF Stored
<1> HIDE DEF d, c
<1>11. /\ Len(server') = Len(server)
       /\ \A j \in 1..Len(server) : server'[j] = IF j = i THEN d ELSE server[j]
  BY <1>8, <1>9, LenProperties
<1>12. Unmixed(server') /\ server'[i] = d /\ d.id = target[p]
  BY <1>0, <1>7, <1>10, <1>11 DEF Unmixed, c
<1>13. ById(server', target[p]) = d
  <2>1. i \in 1..Len(server')
    BY <1>11
  <2> QED BY <1>12, <2>1, OneOfAnId
<1> QED BY <1>5, <1>8, <1>9, <1>13 DEF c, d

(* When an edit is carried out on a cipher that is as it was in data.json,  *)
(* what it changes is what was asked for, and nothing else that it sends.   *)
THEOREM EditChangesWhatWasAsked == Spec => EditIsExact
<1> DEFINE Exact(p) ==
             (pc[p] = "reply" /\ pc'[p] = "resync" /\ job[p].op = "edit") =>
             LET c == ById(server, target[p])  d == ById(server', target[p]) IN
             (c = ById(vault[p], target[p]) /\ Distinct(c.fields)) =>
               /\ d.name = c.name /\ d.org = c.org /\ d.kind = c.kind
               /\ c.secret # Missing =>
                    d.secret = (IF job[p].secret = Absent THEN c.secret ELSE job[p].secret)
               /\ d.notes = EditedNotes(c, job[p])
               /\ \A f \in FieldName :
                    ReadField(d.fields, f) =
                      (IF Asked(job[p].fields, f) = Absent THEN ReadField(c.fields, f)
                       ELSE Asked(job[p].fields, f))
<1>1. ASSUME IInv, EditInv, [Next]_vars  PROVE [\A p \in Proc : Exact(p)]_vars
  <2> SUFFICES ASSUME Next, NEW p \in Proc  PROVE Exact(p)
    BY <1>1
  <2>1. CASE Step(p)
    <3> SUFFICES ASSUME pc[p] = "reply", pc'[p] = "resync", job[p].op = "edit",
                        ById(server, target[p]) = ById(vault[p], target[p]),
                        Distinct(ById(server, target[p]).fields)
                 PROVE  Exact(p)
      OBVIOUS
    <3>1. job[p] \in Jobs
      BY <1>1 DEF IInv, TypeOK
    <3> QED BY <1>1, <2>1, <3>1, ReplyIsExact, EditedExactly
  <2>2. CASE ~Step(p)
    <3>1. Mine(p)' = Mine(p)
      <4>1. TypeOK
        BY <1>1 DEF IInv
      <4>2. CASE Other
        BY <4>1, <4>2, Elsewhere
      <4>3. ASSUME NEW q \in Proc, Step(q)  PROVE Mine(p)' = Mine(p)
        <5>1. p \in Proc \ {q}
          BY <2>2, <4>3
        <5> QED BY <4>1, <4>3, <5>1, Others
      <4> QED BY <4>2, <4>3 DEF Next, Step, Other
    <3>2. pc'[p] = pc[p]
      BY <3>1 DEF Mine
    <3> QED BY <3>2
  <2> QED BY <2>1, <2>2
<1> QED BY <1>1, InitInv, Invariance, EditInit, EditInvariance, PTL DEF Spec, EditIsExact
=============================================================================
