-------------------------- MODULE SyncMergeProofs --------------------------
(* Proofs about decoding a vault into another, for any ciphers, and any     *)
(* number of syncs and changes.                                             *)
EXTENDS SyncMerge, SequenceTheorems, TLAPS

LEMMA MaxOfTwo ==
  ASSUME NEW m \in Nat, NEW n \in Nat
  PROVE  Max({m, n}) \in Nat /\ Max({m, n}) >= m /\ Max({m, n}) >= n
<1>1. \E x \in {m, n} : \A y \in {m, n} : x >= y
  BY SMT
<1>2. Max({m, n}) \in {m, n} /\ \A y \in {m, n} : Max({m, n}) >= y
  BY <1>1 DEF Max
<1> QED BY <1>2

LEMMA SlotType ==
  ASSUME NEW a \in Seq(Cipher), NEW k
  PROVE  Slot(a, k) \in Cipher
<1>1. Blank \in Cipher
  BY DEF Blank, Cipher
<1>2. k \in DOMAIN a => a[k] \in Cipher
  BY ElementOfSeq
<1> QED BY <1>1, <1>2 DEF Slot

(* What is decoded over a cipher is a cipher, and has what was sent.        *)
LEMMA MergedCipher ==
  ASSUME NEW old \in Cipher, NEW new \in Cipher
  PROVE  LET m == MergeCipher(old, new) IN
         /\ m \in Cipher /\ m.id = new.id /\ m.notes = new.notes
         /\ new.key # None => m.key = new.key
         /\ (m.login = None) <=> (new.login = None)
         /\ (new.login # None /\ new.login.totp # None) => m.login.totp = new.login.totp
<1> DEFINE login == MergeLogin(old.login, new.login)
<1>1. /\ old.key \in Id \cup {None} /\ new.key \in Id \cup {None}
      /\ new.id \in Id \cup {None} /\ new.notes \in Secret \cup {None}
      /\ old.login \in Login \cup {None} /\ new.login \in Login \cup {None}
  BY DEF Cipher
<1>2. MergeValue(old.key, new.key) \in Id \cup {None}
  BY <1>1 DEF MergeValue
<1>3. CASE new.login = None \/ old.login = None
  <2>1. login = new.login
    BY <1>3 DEF MergeLogin
  <2> QED BY <1>1, <1>2, <2>1 DEF MergeCipher, MergeValue, Cipher
<1>4. CASE new.login # None /\ old.login # None
  <2>1. old.login.totp \in Secret \cup {None} /\ new.login.totp \in Secret \cup {None}
    BY <1>1, <1>4 DEF Login
  <2>2. login = [totp |-> MergeValue(old.login.totp, new.login.totp)]
    BY <1>4 DEF MergeLogin
  <2>3. login \in Login
    BY <2>1, <2>2 DEF Login, MergeValue
  <2>4. login # None /\ (new.login.totp # None => login.totp = new.login.totp)
    BY <2>2, <2>3, SyncMergeAssumption DEF MergeValue
  <2> HIDE DEF login
  <2>5. MergeCipher(old, new) = [id |-> new.id, key |-> MergeValue(old.key, new.key),
                                 notes |-> new.notes, login |-> login]
    BY DEF MergeCipher, login
  <2> QED BY <1>1, <1>2, <1>4, <2>3, <2>4, <2>5 DEF MergeValue, Cipher
<1> QED BY <1>3, <1>4

(* A whole list decoded over an array: its length fits, and every element   *)
(* has what was sent.                                                       *)
LEMMA MergedList ==
  ASSUME NEW a \in Seq(Cipher), NEW list \in Seq(Cipher)
  PROVE  /\ MergeList(a, list) \in Seq(Cipher)
         /\ Len(list) <= Len(MergeList(a, list))
         /\ \A k \in DOMAIN list : MergeList(a, list)[k] = MergeCipher(Slot(a, k), list[k])
<1>1. CASE list = << >>
  BY <1>1 DEF MergeList
<1>2. CASE list # << >>
  <2> DEFINE n == Max({Len(a), Len(list)})
             element(k) == IF k \in DOMAIN list THEN MergeCipher(Slot(a, k), list[k]) ELSE a[k]
  <2>1. n \in Nat /\ n >= Len(a) /\ n >= Len(list) /\ (n = Len(a) \/ n = Len(list))
    <3>1. Max({Len(a), Len(list)}) \in {Len(a), Len(list)}
      <4>1. \E x \in {Len(a), Len(list)} : \A y \in {Len(a), Len(list)} : x >= y
        BY LenProperties
      <4> QED BY <4>1 DEF Max
    <3> QED BY <3>1, MaxOfTwo, LenProperties
  <2>2. \A k \in DOMAIN list : MergeCipher(Slot(a, k), list[k]) \in Cipher
    BY SlotType, MergedCipher, ElementOfSeq
  <2>3. \A k \in 1..n : k \notin DOMAIN list => a[k] \in Cipher
    BY <2>1, ElementOfSeq
  <2>4. MergeList(a, list) = [k \in 1..n |-> element(k)]
    BY <1>2 DEF MergeList
  <2>5. \A k \in 1..n : element(k) \in Cipher
    BY <2>2, <2>3
  <2>6. DOMAIN list \subseteq 1..n
    BY <2>1
  <2> HIDE DEF n
  <2>7. MergeList(a, list) \in [1..n -> Cipher]
    BY <2>4, <2>5
  <2> QED BY <2>1, <2>4, <2>6, <2>7
<1> QED BY <1>1, <1>2

(* What sync leaves of the array covers what was sent. *)
LEMMA SyncCovers ==
  ASSUME NEW a \in Seq(Cipher), NEW list \in Seq(Cipher)
  PROVE  Covers(SubSeq(MergeList(a, list), 1, Len(list)), list)
<1> DEFINE m == MergeList(a, list)  n == Len(list)  cut == SubSeq(m, 1, n)
<1>1. /\ m \in Seq(Cipher) /\ n <= Len(m) /\ n \in Nat /\ DOMAIN list = 1..n
      /\ \A k \in 1..n : m[k] = MergeCipher(Slot(a, k), list[k])
  BY MergedList
<1>2. \A k \in 1..n : list[k] \in Cipher /\ Slot(a, k) \in Cipher
  BY SlotType, ElementOfSeq
<1> HIDE DEF m, n
<1>3. Len(cut) = n /\ \A k \in 1..n : cut[k] = m[k]
  BY <1>1
<1> HIDE DEF cut
<1>4. \A k \in 1..n :
        /\ cut[k].id = list[k].id /\ cut[k].notes = list[k].notes
        /\ list[k].key # None => cut[k].key = list[k].key
        /\ (cut[k].login = None) <=> (list[k].login = None)
        /\ (list[k].login # None /\ list[k].login.totp # None)
             => cut[k].login.totp = list[k].login.totp
  BY <1>1, <1>2, <1>3, MergedCipher
<1> QED BY <1>1, <1>3, <1>4 DEF Covers, cut, m, n

(* A list that decoding stopped in. *)
LEMMA CutList ==
  ASSUME NEW a \in Seq(Cipher), NEW list \in Seq(Cipher), NEW k \in DOMAIN list,
         NEW id \in {Slot(a, k).id, list[k].id}
  PROVE  /\ MergeUntil(a, list, k, id) \in Seq(Cipher)
         /\ Max({Len(a), k}) = Len(MergeUntil(a, list, k, id))
         /\ k <= Len(MergeUntil(a, list, k, id)) /\ Len(a) <= Len(MergeUntil(a, list, k, id))
<1> DEFINE n == Max({Len(a), k})
<1>1. k \in Nat /\ Len(a) \in Nat /\ k \in 1..Len(list)
  BY LenProperties
<1>2. n \in Nat /\ n >= Len(a) /\ n >= k /\ (n = Len(a) \/ n = k)
  <2>1. \E x \in {Len(a), k} : \A y \in {Len(a), k} : x >= y
    BY <1>1
  <2>2. n \in {Len(a), k}
    BY <2>1 DEF Max
  <2> QED BY <1>1, <2>2, MaxOfTwo
<1>3. \A j \in 1..n : j < k => MergeList(a, list)[j] \in Cipher
  <2>1. \A j \in 1..n : j < k => j \in DOMAIN list
    BY <1>1
  <2>2. \A j \in DOMAIN list : MergeCipher(Slot(a, j), list[j]) \in Cipher
    BY SlotType, MergedCipher, ElementOfSeq
  <2> QED BY <2>1, <2>2, MergedList
<1>4. [Slot(a, k) EXCEPT !.id = id] \in Cipher
  <2>1. list[k] \in Cipher /\ Slot(a, k) \in Cipher
    BY SlotType, ElementOfSeq
  <2> QED BY <2>1 DEF Cipher
<1>5. \A j \in 1..n : ~(j < k) /\ j # k => a[j] \in Cipher
  BY <1>1, <1>2, ElementOfSeq
<1> HIDE DEF n
<1>6. MergeUntil(a, list, k, id) \in [1..n -> Cipher]
  BY <1>3, <1>4, <1>5 DEF MergeUntil, n
<1>7. MergeUntil(a, list, k, id) \in Seq(Cipher) /\ Len(MergeUntil(a, list, k, id)) = n
  BY <1>2, <1>6
<1> QED BY <1>2, <1>7 DEF n

-----------------------------------------------------------------------------
IInv == TypeOK /\ NothingMissing

LEMMA InitInv == Init => IInv
<1> SUFFICES ASSUME Init  PROVE IInv
  OBVIOUS
<1>1. << >> \in Seq(Cipher) /\ Len(<< >>) = 0 /\ DOMAIN << >> = {}
  OBVIOUS
<1>2. 0 \in 0..MaxEdits /\ -1 \in -1..MaxSyncs
  BY SyncMergeAssumption
<1>3. length \in 0..Len(array)
  BY <1>1 DEF Init
<1>4. TypeOK
  BY <1>1, <1>2, <1>3 DEF Init, TypeOK
<1> QED BY <1>4 DEF Init, IInv, NothingMissing

(* Whatever other clients do, the server's ciphers have ids.                *)
Numbered(list) == list \in Seq(Cipher) /\ \A k \in DOMAIN list : list[k].id \in Id

LEMMA ServerType ==
  ASSUME TypeOK, CreateCipher \/ DeleteCipher \/ EditCipher
  PROVE  Numbered(server')
<1>1. \A id \in Id : \A c \in CipherOf(id) : c \in Cipher /\ c.id \in Id
  <2>1. \A id \in Id : Values(id) \subseteq Secret \cup {None}
    BY DEF Values, Secret
  <2> QED BY <2>1 DEF CipherOf, Cipher, Login
<1>2. Numbered(server)
  BY DEF TypeOK, Numbered
<1>3. CASE CreateCipher
  <2>1. PICK c \in Cipher : c.id \in Id /\ server' = Append(server, c)
    BY <1>1, <1>3 DEF CreateCipher, Change
  <2> QED BY <1>2, <2>1, AppendProperties DEF Numbered
<1>4. CASE DeleteCipher
  <2>1. PICK k \in DOMAIN server : server' = RemoveAt(server, k)
    BY <1>4 DEF DeleteCipher, Change
  <2> DEFINE before == SubSeq(server, 1, k - 1)  after == SubSeq(server, k + 1, Len(server))
  <2>2. /\ before \in Seq(Cipher) /\ after \in Seq(Cipher)
        /\ \A j \in 1..Len(before) : before[j].id \in Id
        /\ \A j \in 1..Len(after) : after[j].id \in Id
    BY <1>2, <2>1 DEF Numbered
  <2>3. server' = before \o after
    BY <2>1 DEF RemoveAt
  <2> HIDE DEF before, after
  <2>4. \A j \in 1..Len(before \o after) : (before \o after)[j].id \in Id
    BY <2>2, ConcatProperties
  <2> QED BY <2>2, <2>3, <2>4, ConcatProperties DEF Numbered
<1>5. CASE EditCipher
  <2>1. PICK k \in DOMAIN server :
          \E c \in CipherOf(server[k].id) : server' = [server EXCEPT ![k] = c]
    BY <1>5 DEF EditCipher, Change
  <2>2. PICK c \in Cipher : c.id \in Id /\ server' = [server EXCEPT ![k] = c]
    BY <1>1, <1>2, <2>1 DEF Numbered
  <2> QED BY <1>2, <2>1, <2>2, ExceptSeq DEF Numbered
<1> QED BY <1>3, <1>4, <1>5

LEMMA StepInv == IInv /\ [Next]_vars => IInv'
<1> SUFFICES ASSUME IInv, [Next]_vars  PROVE IInv'
  OBVIOUS
<1>0. TypeOK /\ NothingMissing /\ MaxSyncs \in Nat
  BY SyncMergeAssumption DEF IInv
<1> USE DEF world
<1>1. ASSUME NEW renewed \in BOOLEAN, Start(renewed)  PROVE IInv'
  <2>1. SubSeq(disk, 1, Len(disk)) = disk /\ Len(disk) \in 0..Len(disk)
    BY <1>0, SubSeqFull DEF TypeOK
  <2>2. TypeOK'
    BY <1>0, <1>1, <2>1 DEF Start, TypeOK
  <2>3. Local' = disk
    BY <1>1, <2>1 DEF Start, Local
  <2> QED BY <1>0, <1>1, <2>2, <2>3 DEF Start, NothingMissing, IInv
<1>2. CASE Sync
  <2>1. array' \in Seq(Cipher) /\ length' \in 0..Len(array')
    BY <1>0, <1>2, MergedList DEF Sync, TypeOK
  <2>2. TypeOK'
    BY <1>0, <1>2, <2>1 DEF Sync, TypeOK
  <2>3. Covers(Local', fetched')
    BY <1>0, <1>2, SyncCovers DEF Sync, TypeOK, Local
  <2> QED BY <1>0, <1>2, <2>2, <2>3 DEF Sync, NothingMissing, IInv
<1>3. CASE SyncFails
  <2>1. PICK k \in DOMAIN server : \E id \in {Slot(array, k).id, server[k].id} :
           array' = MergeUntil(array, server, k, id) /\ length' = Max({length, k})
    BY <1>3 DEF SyncFails
  <2>2. PICK id \in {Slot(array, k).id, server[k].id} : array' = MergeUntil(array, server, k, id)
    BY <2>1
  <2>3. /\ array' \in Seq(Cipher) /\ k <= Len(array') /\ Len(array) <= Len(array')
    BY <1>0, <2>2, CutList DEF TypeOK
  <2>4. length \in Nat /\ k \in Nat /\ length <= Len(array) /\ Len(array) \in Nat
    BY <1>0 DEF TypeOK
  <2>5. length' \in {length, k}
    <3>1. \E x \in {length, k} : \A y \in {length, k} : x >= y
      BY <2>4
    <3> QED BY <2>1, <3>1 DEF Max
  <2>6. length' \in 0..Len(array')
    BY <2>3, <2>4, <2>5
  <2> QED BY <1>0, <1>3, <2>3, <2>6 DEF SyncFails, TypeOK, NothingMissing, IInv
<1>4. CASE Exit
  <2>1. Local \in Seq(Cipher)
    BY <1>0 DEF TypeOK, Local
  <2>2. << >> \in Seq(Cipher) /\ Len(<< >>) = 0 /\ -1 \in -1..MaxSyncs
    BY <1>0
  <2>5. length' \in 0..Len(array') /\ array' \in Seq(Cipher)
    BY <1>4, <2>2 DEF Exit
  <2>6. saved' \in Seq(Cipher) \cup {None} /\ disk' \in Seq(Cipher)
    BY <1>0, <1>4, <2>1 DEF Exit, TypeOK
  <2>3. TypeOK'
    BY <1>0, <1>4, <2>2, <2>5, <2>6 DEF Exit, TypeOK
  <2>4. NothingMissing'
    BY <1>0, <1>4 DEF Exit, NothingMissing
  <2> QED BY <2>3, <2>4 DEF IInv
<1>5. CASE CreateCipher \/ DeleteCipher \/ EditCipher
  <2>1. edits' \in 0..MaxEdits /\ UNCHANGED <<disk, array, length, syncs, dirty, fetched, saved>>
    BY <1>0, <1>5, SyncMergeAssumption DEF CreateCipher, DeleteCipher, EditCipher, Change, TypeOK
  <2>2. Numbered(server')
    BY <1>0, <1>5, ServerType
  <2> QED BY <1>0, <2>1, <2>2 DEF TypeOK, NothingMissing, Numbered, Local, IInv
<1>6. CASE UNCHANGED vars
  BY <1>0, <1>6 DEF vars, TypeOK, NothingMissing, Local, IInv
<1> QED BY <1>1, <1>2, <1>3, <1>4, <1>5, <1>6 DEF Next

LEMMA Invariance == Spec => []IInv
  BY InitInv, StepInv, PTL DEF Spec

-----------------------------------------------------------------------------
(* Decoding over ciphers makes ciphers, also when it stops half way.        *)
THEOREM TypeCorrect == Spec => []TypeOK
<1>1. IInv => TypeOK
  BY DEF IInv
<1> QED BY <1>1, Invariance, PTL

(* Nothing that a sync was sent is missing in memory, or in data.json.      *)
THEOREM SyncLosesNothing == Spec => []NothingMissing
<1>1. IInv => NothingMissing
  BY DEF IInv
<1> QED BY <1>1, Invariance, PTL
=============================================================================
