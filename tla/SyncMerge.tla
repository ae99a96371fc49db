------------------------------ MODULE SyncMerge ------------------------------
(***************************************************************************)
(* sync decodes the server's vault INTO the vault that data.json held.     *)
(* encoding/json reuses what it finds: a slice keeps its array, the k-th   *)
(* element of the answer is decoded into the k-th element there, a null    *)
(* clears a pointer but leaves a struct such as CipherString as it was.    *)
(* This module follows the list of ciphers, at the server, in data.json    *)
(* and in the invocations that run one after the other.                    *)
(*                                                                         *)
(* A cipher has one field of each kind that decodes differently: a plain   *)
(* one (its id), a CipherString held by value (its item key), a pointer    *)
(* (notes), and a CipherString held by value in an object behind a pointer *)
(* (the totp of its login).                                                *)
(***************************************************************************)
EXTENDS Integers, Sequences, SequencesExt, FiniteSetsExt

CONSTANTS Id,        \* the ciphers an account may have
          None,      \* null, nil, or the zero CipherString
          MaxSyncs,  \* syncs of an invocation: create and edit sync twice
          MaxEdits   \* bound on the changes at the server

Secret == Id \X {"old", "new"}  \* what a cipher's fields may hold
Login  == [totp : Secret \cup {None}]
Cipher == [id : Id \cup {None}, key : Id \cup {None},  \* whose item key it is
           notes : Secret \cup {None}, login : Login \cup {None}]

ASSUME SyncMergeAssumption ==
  /\ None \notin Id \cup Login /\ MaxSyncs \in Nat /\ MaxEdits \in Nat

Blank  == [id |-> None, key |-> None, notes |-> None, login |-> None]  \* Go's zero Cipher

VARIABLES
  server,   \* the ciphers of the account, in the order /sync lists them
  edits,    \* how often they changed
  disk,     \* the ciphers data.json holds
  array,    \* the array behind globalData.Sync.Ciphers ...
  length,   \* ... and the slice's length
  syncs,    \* syncs left to the running invocation, -1 when none runs
  dirty,    \* its saveData
  fetched,  \* history: what its last sync was sent, None if that failed
  saved     \* history: fetched, of the invocation that wrote data.json

world == <<server, edits>>
vars  == <<world, disk, array, length, syncs, dirty, fetched, saved>>

Running == syncs >= 0
Local   == SubSeq(array, 1, length)

Init ==
  /\ server = <<>> /\ edits = 0
  /\ disk = <<>> /\ array = <<>> /\ length = 0
  /\ syncs = -1 /\ dirty = FALSE /\ fetched = None /\ saved = None

-----------------------------------------------------------------------------
(* Decoding. *)

(* Faulty: only what is missing is filled in. *)
MergeValueOnce(old, new) == IF old = None THEN new ELSE old

(* A CipherString held by value: null is ignored and "" returns early. *)
MergeValue(old, new) == IF new = None THEN old ELSE new

(* A pointer: null clears it, an object is decoded into what it points to. *)
MergeLogin(old, new) ==
  IF new = None THEN None
  ELSE IF old = None THEN new
  ELSE [totp |-> MergeValue(old.totp, new.totp)]

MergeCipher(old, new) ==
  [id |-> new.id, key |-> MergeValue(old.key, new.key),
   notes |-> new.notes, login |-> MergeLogin(old.login, new.login)]

(* Past the array's end elements are zero. *)
Slot(a, k) == IF k \in DOMAIN a THEN a[k] ELSE Blank

(* An empty list gets a new array; otherwise the array stays, with whatever *)
(* lies beyond the new length.                                              *)
MergeList(a, list) ==
  IF list = <<>> THEN <<>>
  ELSE [k \in 1..Max({Len(a), Len(list)}) |->
          IF k \in DOMAIN list THEN MergeCipher(Slot(a, k), list[k]) ELSE a[k]]

(* Faulty: the elements behind the one that failed are dropped. *)
MergeUntilCut(a, list, k, id) ==
  [j \in 1..k |-> IF j < k THEN MergeList(a, list)[j] ELSE [Slot(a, k) EXCEPT !.id = id]]

(* Decoding stops in the k-th element, whose id it may have reached: the    *)
(* elements before it are merged, the slice is not cut to the new length.   *)
MergeUntil(a, list, k, id) ==
  [j \in 1..Max({Len(a), k}) |->
    IF j < k THEN MergeList(a, list)[j]
    ELSE IF j = k THEN [Slot(a, k) EXCEPT !.id = id]
    ELSE a[j]]

-----------------------------------------------------------------------------
(* An invocation starts with what data.json holds; its token may be renewed, *)
(* which sets saveData whatever becomes of the sync.                        *)
Start(renewed) ==
  /\ ~Running
  /\ array' = disk /\ length' = Len(disk)
  /\ dirty' = renewed /\ syncs' = MaxSyncs /\ fetched' = saved
  /\ UNCHANGED <<world, disk, saved>>

Sync ==
  /\ syncs > 0 /\ syncs' = syncs - 1
  /\ array' = MergeList(array, server) /\ length' = Len(server)
  /\ dirty' = TRUE /\ fetched' = server
  /\ UNCHANGED <<world, disk, saved>>

(* A cipher string that UnmarshalText rejects ends the sync, and the command. *)
SyncFails ==
  /\ syncs > 0 /\ syncs' = 0
  /\ \E k \in DOMAIN server : \E id \in {Slot(array, k).id, server[k].id} :
       /\ array' = MergeUntil(array, server, k, id)
       /\ length' = Max({length, k})
  /\ fetched' = None
  /\ UNCHANGED <<world, disk, dirty, saved>>

(* The deferred save; what was not fetched is not newer than it was. *)
Exit ==
  /\ Running /\ syncs' = -1
  /\ disk' = (IF dirty THEN Local ELSE disk)
  /\ saved' = (IF dirty THEN fetched ELSE saved)
  /\ array' = <<>> /\ length' = 0 /\ dirty' = FALSE /\ fetched' = None
  /\ UNCHANGED world

-----------------------------------------------------------------------------
(* Other clients change the account's ciphers. *)

Change(list) ==
  /\ edits < MaxEdits /\ edits' = edits + 1
  /\ server' = list
  /\ UNCHANGED <<disk, array, length, syncs, dirty, fetched, saved>>

Values(id) == ({id} \X {"old", "new"}) \cup {None}

CipherOf(id) ==
  [id : {id}, key : {None, id}, notes : Values(id), login : {None} \cup [totp : Values(id)]]

CreateCipher ==
  \E id \in Id \ {server[k].id : k \in DOMAIN server} :
    \E c \in CipherOf(id) : Change(Append(server, c))

DeleteCipher == \E k \in DOMAIN server : Change(RemoveAt(server, k))

EditCipher == \E k \in DOMAIN server :
          \E c \in CipherOf(server[k].id) \ {server[k]} : Change([server EXCEPT ![k] = c])

Next ==
  \/ \E renewed \in BOOLEAN : Start(renewed)
  \/ Sync \/ SyncFails \/ Exit \/ CreateCipher \/ DeleteCipher \/ EditCipher

Spec == Init /\ [][Next]_vars

-----------------------------------------------------------------------------
TypeOK ==
  /\ server \in Seq(Cipher) /\ \A k \in DOMAIN server : server[k].id \in Id
  /\ edits \in 0..MaxEdits
  /\ disk \in Seq(Cipher) /\ array \in Seq(Cipher) /\ length \in 0..Len(array)
  /\ syncs \in -1..MaxSyncs /\ dirty \in BOOLEAN
  /\ fetched \in Seq(Cipher) \cup {None} /\ saved \in Seq(Cipher) \cup {None}

(* The local list has the server's ciphers in the server's order, with      *)
(* their notes, and every value the server gave.                            *)
Covers(list, sent) ==
  /\ Len(list) = Len(sent)
  /\ \A k \in DOMAIN sent :
       /\ list[k].id = sent[k].id /\ list[k].notes = sent[k].notes
       /\ sent[k].key # None => list[k].key = sent[k].key
       /\ (list[k].login = None) <=> (sent[k].login = None)
       /\ (sent[k].login # None /\ sent[k].login.totp # None)
            => list[k].login.totp = sent[k].login.totp

(* After a sync that succeeded, in memory and on disk, nothing the server   *)
(* sent is missing or out of place, whatever was decoded over.              *)
NothingMissing ==
  /\ fetched # None => Covers(Local, fetched)
  /\ saved # None => Covers(disk, saved)

(* What a cipher's fields hold locally is what the server gave for that     *)
(* cipher: never an item key under which it does not decrypt, or a secret,  *)
(* of another cipher.                                                       *)
OwnValues ==
  saved # None =>
    \A k \in DOMAIN disk :
      /\ disk[k].key \in {None, disk[k].id}
      /\ disk[k].login # None => disk[k].login.totp \in Values(disk[k].id)

=============================================================================
