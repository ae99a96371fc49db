------------------------ MODULE SecretsManagerProofs ------------------------
(* Proofs about bitw sm: the padding gives every text back, a key means at  *)
(* most one secret, an edit changes what it was asked to.  For any number   *)
(* of invocations at a time, any secrets, projects and scores.              *)
EXTENDS SecretsManager, DataLemmas, SequenceTheorems, FiniteSetTheorems, TLAPS

LEMMA RemType ==
  ASSUME NEW S, NEW src \in Seq(S)
  PROVE  Rem(src) \in 1..16 /\ Rem(src) >= 1 /\ (Len(src) + Rem(src)) % 16 = 0 /\ Len(src) \in Nat
<1>1. Len(src) \in Nat
  OBVIOUS
<1> DEFINE n == Len(src)
<1>2. n % 16 \in 0..15 /\ n = 16 * (n \div 16) + (n % 16) /\ n \div 16 \in Nat
  BY <1>1, SMTT(20)
<1>3. n + (16 - (n % 16)) = 16 * ((n \div 16) + 1)
  BY <1>1, <1>2
<1>4. \A q \in Nat : (16 * (q + 1)) % 16 = 0
  OBVIOUS
<1>5. \A q \in Nat, r \in 0..15 : n = 16 * q + r => n + (16 - r) = 16 * (q + 1) /\ 16 - r \in 1..16
  BY <1>1
<1>6. (n + (16 - (n % 16))) % 16 = 0 /\ 16 - (n % 16) \in 1..16
  BY <1>2, <1>4, <1>5
<1>7. Rem(src) = 16 - (n % 16)
  BY DEF Rem, BlockSize
<1> HIDE DEF n
<1> QED BY <1>1, <1>6, <1>7 DEF n

(* What a text is padded to ends with the count of what was added.          *)
LEMMA PadType ==
  ASSUME NEW S, NEW src \in Seq(S)
  PROVE  /\ Pad(src) \in Seq(S \cup Nat)
         /\ Len(Pad(src)) = Len(src) + Rem(src)
         /\ Pad(src)[Len(src) + Rem(src)] = Rem(src)
         /\ \A i \in 1..Len(src) : Pad(src)[i] = src[i]
<1> DEFINE n == Len(src) + Rem(src)
<1>1. n \in Nat /\ Rem(src) \in Nat /\ Rem(src) >= 1 /\ Len(src) \in Nat
  <2>1. \A k \in Nat, r \in 1..16 : k + r \in Nat /\ r \in Nat
    OBVIOUS
  <2> QED BY <2>1, RemType
<1>2. \A i \in 1..n : (IF i <= Len(src) THEN src[i] ELSE Rem(src)) \in S \cup Nat
  BY <1>1
<1>3. Pad(src) \in [1..n -> S \cup Nat]
  BY <1>2 DEF Pad
<1>4. Pad(src) \in Seq(S \cup Nat) /\ Len(Pad(src)) = n
  BY <1>1, <1>3
<1>5. Pad(src)[n] = Rem(src) /\ \A i \in 1..Len(src) : Pad(src)[i] = src[i]
  <2>1. n \in 1..n /\ ~(n <= Len(src)) /\ \A i \in 1..Len(src) : i \in 1..n /\ i <= Len(src)
    BY <1>1
  <2> QED BY <2>1 DEF Pad
<1> QED BY <1>4, <1>5

(* "unpad must always remove at least one byte to be unambiguous"           *)
(* (crypto.go:494): whatever was encrypted is what is decrypted ...         *)
THEOREM UnpadAfterPad ==
  ASSUME NEW S, NEW src \in Seq(S)
  PROVE  Unpad(Pad(src)) = src
<1> DEFINE n == Len(src)  padded == Pad(src)  all == S \cup Nat  r == Rem(src)
<1>1. /\ padded \in Seq(all) /\ Len(padded) = n + r /\ n \in Nat
      /\ padded[n + r] = r /\ r \in 1..16
      /\ \A i \in 1..n : padded[i] = src[i]
  BY PadType, RemType
<1>2. src \in Seq(all) /\ Len(src) = n /\ \A i \in 1..n : src[i] \in all
  OBVIOUS
<1> HIDE DEF n, padded, all, r
<1>3. Len(padded) - padded[Len(padded)] = n
  BY <1>1
<1>4. Unpad(padded) = SubSeq(padded, 1, n)
  BY <1>3 DEF Unpad
<1>5. \A i \in 1..n : padded[i] \in all
  BY <1>1, <1>2
<1> DEFINE back == SubSeq(padded, 1, n)
<1>6. back \in Seq(all) /\ Len(back) = n /\ \A i \in 1..n : back[i] = padded[i]
  <2>1. 1 \in Int /\ n \in Int
    BY <1>1
  <2>2. /\ back \in Seq(all) /\ Len(back) = IF 1 <= n THEN n - 1 + 1 ELSE 0
        /\ \A i \in 1..(n - 1 + 1) : back[i] = padded[1 + i - 1]
    BY <1>5, <2>1, SubSeqProperties
  <2> QED BY <1>1, <2>2
<1> HIDE DEF back
<1>7. back = src
  BY <1>1, <1>2, <1>6, SeqEqual
<1> QED BY <1>4, <1>7 DEF back, padded

(* ... but that the empty text, which is encrypted all the same, is refused: *)
(* unpadPKCS7 takes a whole block of padding for an error.                  *)
THEOREM EmptyIsRefused ==
  ASSUME NEW S, NEW src \in Seq(S)
  PROVE  Unpads(Pad(src)) <=> src # << >>
<1>1. /\ Len(Pad(src)) = Len(src) + Rem(src) /\ Pad(src)[Len(Pad(src))] = Rem(src)
      /\ (Len(src) + Rem(src)) % 16 = 0 /\ Rem(src) \in 1..16 /\ Len(src) \in Nat
  BY PadType, RemType
<1> DEFINE n == Len(src)  r == Rem(src)
<1>2. Unpads(Pad(src)) <=> r < n + r
  BY <1>1 DEF Unpads, BlockSize
<1>3. r \in 1..16 /\ n \in Nat
  BY <1>1
<1> HIDE DEF n, r
<1>4. r < n + r <=> n # 0
  BY <1>3
<1> QED BY <1>2, <1>4, EmptySeq DEF n

-----------------------------------------------------------------------------
(* What is decrypted is the text that was sealed, and a text at all.        *)
LEMMA PlainSealed ==
  /\ \A t \in Words : Sealed(t) \in Field /\ Plain(Sealed(t)) = t
  /\ \A f \in Field : Plain(f) \in Words
<1>1. \A t \in Words : Unpad(Pad(t)) = t
  BY WordsAssumption, UnpadAfterPad
<1>2. \A f \in Field : f.text \in Words
  BY WordsAssumption DEF Field
<1> QED BY <1>1, <1>2, WordsAssumption DEF Sealed, Field, Plain

-----------------------------------------------------------------------------
(* Whatever the arguments are, they are parsed into texts.                  *)
Parser ==
  [expects : {"flag", "value", "word", "error"}, for : Valued \cup {"word"}, stdin : BOOLEAN,
   rest : Seq(Words), opt : [Valued -> Words]]

LEMMA ReadType ==
  ASSUME NEW op, NEW s \in Parser, NEW a \in Token
  PROVE  Read(op, s, a) \in Parser
<1>1. /\ a.text \in Words /\ (a.given # <<>> => a.given[1] \in Words)
      /\ s.rest \in Seq(Words) /\ s.opt \in [Valued -> Words]
  <2>1. a.text \in Words /\ a.given \in Seq(Words) /\ s.rest \in Seq(Words)
        /\ s.opt \in [Valued -> Words]
    BY DEF Token, Parser
  <2>2. a.given # <<>> => a.given[1] \in Words
    BY <2>1, EmptySeq, ElementOfSeq
  <2> QED BY <2>1, <2>2
<1>2. Append(s.rest, a.text) \in Seq(Words)
  BY <1>1, AppendProperties
<1>3. ASSUME NEW f, NEW text \in Words  PROVE Take(s, f, text) \in Parser
  BY <1>1 DEF Take, Parser
<1>4. CASE s.expects = "error"
  BY <1>4 DEF Read
<1>5. CASE s.expects = "word"
  BY <1>2, <1>5 DEF Read, Parser
<1>6. CASE s.expects = "value"
  BY <1>1, <1>3, <1>6 DEF Read
<1>7. CASE s.expects = "flag" /\ a.flag \in {"word", "end"}
  <2>1. CASE a.flag = "word"
    <3>1. Read(op, s, a) = [s EXCEPT !.rest = Append(@, a.text), !.expects = "word"]
      BY <1>7, <2>1 DEF Read, Flags, Valued
    <3> QED BY <1>2, <3>1 DEF Parser
  <2>2. CASE a.flag = "end"
    <3>1. Read(op, s, a) = [s EXCEPT !.expects = "word"]
      BY <1>7, <2>2 DEF Read, Flags, Valued
    <3> QED BY <3>1 DEF Parser
  <2> QED BY <1>7, <2>1, <2>2
<1>8. CASE s.expects = "flag" /\ a.flag \notin {"word", "end"} /\ a.flag \in Flags(op)
  <2>1. a.flag # "stdin" => a.flag \in Valued
    BY <1>8 DEF Token
  <2>2. CASE a.flag = "stdin"
    BY <1>8, <2>2 DEF Read, Parser
  <2>3. CASE a.flag # "stdin" /\ a.given # <<>>
    BY <1>1, <1>3, <1>8, <2>3 DEF Read
  <2>4. CASE a.flag # "stdin" /\ a.given = <<>>
    BY <1>8, <2>1, <2>4 DEF Read, Parser
  <2> QED BY <2>2, <2>3, <2>4
<1>9. CASE s.expects = "flag" /\ a.flag \notin {"word", "end"} /\ a.flag \notin Flags(op)
  BY <1>9 DEF Read, Parser
<1> QED BY <1>4, <1>5, <1>6, <1>7, <1>8, <1>9 DEF Parser

LEMMA ParseType ==
  ASSUME NEW op, NEW args \in Seq(Token)
  PROVE  Parse(op, args) \in Parser
<1> DEFINE n == Len(args)
           step == [x \in Parser \X Token |-> Read(op, x[1], x[2])]
           t == CHOOSE t : t = [S \in SUBSET (1..n) |->
                  IF S = {} THEN Fresh ELSE Read(op, t[S \ {Max(S)}], args[Max(S)])]
<1>1. n \in Nat /\ args \in [1..n -> Token] /\ DOMAIN args = 1..n
  BY LenProperties
<1>2. Fresh \in Parser
  <2>1. <<>> \in Seq(Words)
    BY EmptySeq
  <2> QED BY <2>1, WordsAssumption DEF Fresh, Parser
<1>3. step \in [Parser \X Token -> Parser]
  BY ReadType
<1>4. \A s \in Parser, a \in Token : step[<<s, a>>] = Read(op, s, a)
  OBVIOUS
<1>5. Parse(op, args) = t[1..n]
  BY <1>1, Zenon DEF Parse, FoldLeft, MapThenFoldSet
<1> HIDE DEF step, n
<1>6. PICK u \in [SUBSET (1..n) -> Parser] : Table(Fresh, step, n, args, u)
  BY <1>1, <1>2, <1>3, FoldDefined
<1>7. u = [S \in SUBSET (1..n) |->
             IF S = {} THEN Fresh ELSE Read(op, u[S \ {Max(S)}], args[Max(S)])]
  <2>1. ASSUME NEW S \in SUBSET (1..n), S # {}
        PROVE  step[<<u[S \ {Max(S)}], args[Max(S)]>>] = Read(op, u[S \ {Max(S)}], args[Max(S)])
    <3>1. Max(S) \in 1..n /\ S \ {Max(S)} \in SUBSET (1..n)
      BY <1>1, <2>1, GreatestIsOne
    <3> QED BY <1>1, <1>4, <3>1
  <2> QED BY <1>6, <2>1, Zenon DEF Table
<1>8. t = [S \in SUBSET (1..n) |->
             IF S = {} THEN Fresh ELSE Read(op, t[S \ {Max(S)}], args[Max(S)])]
  BY <1>7, Zenon
<1> HIDE DEF t
<1>9. {} \in SUBSET (1..n)
  OBVIOUS
<1>10. t[{}] = u[{}]
  BY <1>7, <1>8, <1>9, Zenon
<1>11. \A S \in SUBSET (1..n) : S # {} /\ t[S \ {Max(S)}] = u[S \ {Max(S)}] => t[S] = u[S]
  BY <1>7, <1>8, Zenon
<1>12. t[1..n] = u[1..n]
  BY <1>1, <1>10, <1>11, FoldsAgree
<1>13. u[1..n] \in Parser
  <2>1. 1..n \in SUBSET (1..n)
    OBVIOUS
  <2> QED BY <1>6, <2>1
<1> QED BY <1>5, <1>12, <1>13

(* The texts of a command line that is not refused. *)
LEMMA ParsedTexts ==
  ASSUME NEW j \in Jobs
  PROVE  /\ j.op \in {"list", "get", "create", "edit"} /\ j.stdin \in Words
         /\ Cmd(j).opt \in [Valued -> Words] /\ Cmd(j).rest \in Seq(Words)
         /\ NewValue(Cmd(j), j) \in Words
         /\ ~Refused(j) /\ j.op # "list" => Asks(j) \in Words
<1>1. j \in Job
  BY ManagerAssumption
<1>2. Cmd(j).opt \in [Valued -> Words] /\ Cmd(j).rest \in Seq(Words)
  <2>1. Cmd(j) \in Parser
    BY <1>1, ParseType DEF Cmd, Job
  <2> QED BY <2>1 DEF Parser
<1>3. NewValue(Cmd(j), j) \in Words
  BY <1>1, <1>2 DEF NewValue, Valued, Job
<1>4. Cmd(j).rest # << >> => Asks(j) \in Words
  BY <1>2, HeadTailProperties DEF Asks
<1> QED BY <1>1, <1>2, <1>3, <1>4 DEF Job, Refused

LEMMA MergedType ==
  ASSUME NEW j \in Jobs, NEW c \in Secret
  PROVE  Merged(c, Cmd(j), j) \in Secret
<1>1. c.key \in Field /\ c.value \in Field /\ c.note \in Field /\ c.projects \in SUBSET Project
  BY DEF Secret
<1>2. \A new \in Words, f \in Field : Sealed(IF new = << >> THEN Plain(f) ELSE new) \in Field
  BY PlainSealed
<1>3. /\ Cmd(j).opt["key"] \in Words /\ Cmd(j).opt["note"] \in Words
      /\ NewValue(Cmd(j), j) \in Words
  BY ParsedTexts DEF Valued
<1> QED BY <1>1, <1>2, <1>3 DEF Merged, Secret

LEMMA CreatedType ==
  ASSUME NEW j \in Jobs, NEW place_ \in SUBSET Project, j.op = "create", ~Refused(j),
         ~ValueMissing(j)
  PROVE  Created(Cmd(j), j, place_) \in Secret
<1>1. Cmd(j).rest \in Seq(Words) /\ j.stdin \in Words
  BY ParsedTexts
<1>2. Cmd(j).rest # << >> /\ (~Cmd(j).stdin => Len(Cmd(j).rest) >= 2)
  BY <1>1 DEF Refused, ValueMissing
<1>3. Cmd(j).rest[1] \in Words /\ (~Cmd(j).stdin => Cmd(j).rest[2] \in Words)
  BY <1>1, <1>2
<1>4. /\ Sealed(Cmd(j).rest[1]) \in Field /\ Sealed(<< >>) \in Field
      /\ Sealed(IF Cmd(j).stdin THEN j.stdin ELSE Cmd(j).rest[2]) \in Field
  BY <1>1, <1>3, PlainSealed, WordsAssumption
<1> QED BY <1>4 DEF Created, Secret

-----------------------------------------------------------------------------
(* What an invocation knows at each step, and that what it sends is what    *)
(* its command line makes of what it has fetched.                           *)
Orderly(p) ==
  /\ pc[p] # "exit" => result[p] = "none"
  /\ pc[p] \in {"idle", "exchange", "id", "list", "project"} =>
       list[p] = {} /\ target[p] = 0 /\ place[p] = {}
  /\ pc[p] \in {"id", "list", "fetch", "project", "send", "reply"} => ~Refused(job[p])
  /\ pc[p] \in {"id", "fetch"} => job[p].op \in {"get", "edit"}
  /\ pc[p] = "fetch" => target[p] # 0
  /\ pc[p] = "list" => job[p].op \in {"list", "get", "edit"}
  /\ pc[p] = "project" => job[p].op = "create"
  /\ pc[p] \in {"send", "reply"} => job[p].op \in {"create", "edit"}
  /\ pc[p] = "reply" => sent[p] \subseteq Requests(p)
  /\ pc[p] \in {"send", "reply"} /\ job[p].op = "edit" => \A c \in copy[p] : Editable(c)

IInv == TypeOK /\ \A p \in Proc : Orderly(p)

(* All that is an invocation's own, which no other touches. *)
Mine(p) == <<pc[p], job[p], list[p], target[p], copy[p], place[p], sent[p], result[p]>>

Step(p) ==
  \/ Start(p) \/ Exchange(p) \/ RequestFails(p) \/ LookUp(p) \/ List(p)
  \/ Fetch(p) \/ FetchGone(p) \/ FindProject(p) \/ Send(p) \/ Exit(p)
  \/ ServerCreates(p) \/ ServerEdits(p) \/ ServerRefuses(p)

LEMMA Others ==
  ASSUME TypeOK, NEW p \in Proc, Step(p), NEW q \in Proc \ {p}
  PROVE  Mine(q)' = Mine(q)
<1> USE DEF TypeOK, Mine, local, Goto, End
<1>1. CASE Start(p) \/ Exchange(p) \/ RequestFails(p) \/ LookUp(p)
  BY <1>1 DEF Start, Exchange, RequestFails, LookUp
<1>2. CASE List(p) \/ FetchGone(p) \/ FindProject(p)
  BY <1>2 DEF List, FetchGone, FindProject
<1>3. CASE Fetch(p)
  BY <1>3 DEF Fetch
<1>4. CASE Send(p) \/ Exit(p)
  BY <1>4 DEF Send, Exit
<1>5. CASE ServerCreates(p) \/ ServerEdits(p) \/ ServerRefuses(p)
  BY <1>5 DEF ServerCreates, ServerEdits, ServerRefuses, Delivered
<1> QED BY <1>1, <1>2, <1>3, <1>4, <1>5 DEF Step

LEMMA Elsewhere ==
  ASSUME OtherWrites \/ OtherDeletes, NEW q
  PROVE  Mine(q)' = Mine(q) /\ UNCHANGED <<pc, job, local, sent, result>>
  BY DEF OtherWrites, OtherDeletes, Mine, local

(* What an invocation knows of its own does not depend on the others.       *)
LEMMA OrderlyFrame ==
  ASSUME NEW p, Orderly(p), Mine(p)' = Mine(p)
  PROVE  Orderly(p)'
  BY DEF Orderly, Mine, Requests

-----------------------------------------------------------------------------
LEMMA InitInv == Init => IInv
<1> SUFFICES ASSUME Init  PROVE IInv
  OBVIOUS
<1>1. secrets \in SecretLists /\ made \in 0..MaxSecret /\ Live(secrets) \subseteq 1..made
  <2>1. secrets \in SecretLists /\ Live(secrets) = 1..made /\ made = Cardinality(Live(secrets))
    BY ManagerAssumption DEF Init
  <2>2. IsFiniteSet(Id) /\ Cardinality(Id) = MaxSecret /\ Live(secrets) \subseteq Id
    BY FS_Interval, SecretsAssumption DEF Id, Live
  <2>3. made \in Nat /\ made <= MaxSecret
    BY <2>1, <2>2, FS_Subset, FS_CardinalityType
  <2> QED BY <2>1, <2>3, SecretsAssumption
<1>2. TypeOK
  <2>1. edits \in 0..MaxEdits /\ 0 \in 0..MaxSecret
    BY ManagerAssumption, SecretsAssumption DEF Init
  <2>2. \A p \in Proc : target[p] <= made
    BY <1>1 DEF Init
  <2>3. Init => /\ pc \in [Proc -> Labels] /\ result \in [Proc -> Results]
                /\ \A p \in Proc : pc[p] = "idle"
    BY DEF Init, Labels, Results
  <2> QED BY <1>1, <2>1, <2>2, <2>3 DEF Init, TypeOK
<1> QED BY <1>2 DEF Init, IInv, Orderly

(* Requests are well formed: the fields of an edit are those of the secret  *)
(* fetched, or of the command line.                                         *)
LEMMA RequestType ==
  ASSUME IInv, NEW p \in Proc, pc[p] = "send", ~ValueMissing(job[p])
  PROVE  Requests(p) \subseteq Request /\ \A r \in Requests(p) : r.id <= made
<1>1. /\ job[p] \in Jobs /\ ~Refused(job[p]) /\ job[p].op \in {"create", "edit"}
      /\ copy[p] \subseteq Secret /\ place[p] \in SUBSET Project
      /\ target[p] \in 0..MaxSecret /\ target[p] <= made /\ made \in Nat /\ MaxSecret \in Nat
  BY SecretsAssumption DEF IInv, TypeOK, Orderly
<1>2. CASE job[p].op = "create"
  <2>1. Created(Cmd(job[p]), job[p], place[p]) \in Secret
    BY <1>1, <1>2, CreatedType
  <2> QED BY <1>1, <1>2, <2>1 DEF Requests, Request
<1>3. CASE job[p].op = "edit"
  <2>1. \A c \in copy[p] : Merged(c, Cmd(job[p]), job[p]) \in Secret
    BY <1>1, MergedType
  <2> QED BY <1>1, <1>3, <2>1 DEF Requests, Request
<1> QED BY <1>1, <1>2, <1>3

(* A secret is written where there is one, or where one is made.            *)
LEMMA WriteType ==
  ASSUME TypeOK, NEW i \in Id, NEW s \in Secret \cup {Gone}, NEW n \in made..MaxSecret,
         i <= n \/ s = Gone
  PROVE  /\ [secrets EXCEPT ![i] = s] \in SecretLists
         /\ Live([secrets EXCEPT ![i] = s]) \subseteq 1..n
<1>1. Id = 1..MaxSecret /\ made \in Nat /\ n \in Nat /\ made <= n
  BY SecretsAssumption DEF TypeOK, Id
<1> QED BY <1>1 DEF TypeOK, SecretLists, Live

LEMMA StepType ==
  ASSUME IInv, NEW p \in Proc, Step(p)
  PROVE  TypeOK'
<1>0. TypeOK /\ Orderly(p) /\ made \in Nat /\ MaxSecret \in Nat
  BY SecretsAssumption DEF IInv, TypeOK
<1> USE <1>0 DEF Goto, End, world, local
<1>1. CASE Start(p)
  <2>1. pc' \in [Proc -> Labels] /\ result' \in [Proc -> Results]
    BY <1>1 DEF Start, TypeOK, Labels, Results
  <2>2. job' \in [Proc -> Jobs \cup {NoJob}] /\ job'[p] \in Jobs
    BY <1>1 DEF Start, TypeOK
  <2>3. pc'[p] \in {"exit", "exchange"} /\ UNCHANGED <<world, local, sent>>
    BY <1>1 DEF Start, TypeOK
  <2>4. \A q \in Proc \ {p} : pc'[q] = pc[q] /\ job'[q] = job[q]
    BY <1>1 DEF Start, TypeOK
  <2> QED BY <2>1, <2>2, <2>3, <2>4 DEF TypeOK
<1>2. CASE Exchange(p)
  <2>1. First(job[p]) \in Labels \ {"fetch", "reply"} /\ (job[p].op = "edit" => First(job[p]) # "send")
    BY DEF First, Labels
  <2> QED BY <1>2, <2>1 DEF Exchange, TypeOK, Labels, Results
<1>3. CASE RequestFails(p)
  BY <1>3 DEF RequestFails, TypeOK, Labels, Results
<1>4. CASE LookUp(p)
  <2>1. PICK i \in Id :
          IF i \in Live(secrets)
            THEN Goto(p, "fetch") /\ target' = [target EXCEPT ![p] = i]
            ELSE Goto(p, "list") /\ UNCHANGED target
    BY <1>4 DEF LookUp
  <2>2. i \in 1..MaxSecret /\ (i \in Live(secrets) => i \in 1..made)
    BY DEF TypeOK, Id
  <2> QED BY <1>4, <2>1, <2>2 DEF LookUp, TypeOK, Labels, Results
<1>5. CASE List(p)
  <2>1. list' \in [Proc -> SUBSET SecretLists] /\ UNCHANGED <<world, job, copy, place, sent>>
    BY <1>5 DEF List, TypeOK
  <2>2. CASE \E r \in {"ok", "notfound", "ambiguous"} : End(p, r) /\ UNCHANGED target
    <3>1. PICK r \in {"ok", "notfound", "ambiguous"} : End(p, r) /\ UNCHANGED target
      BY <2>2
    <3>2. pc' \in [Proc -> Labels] /\ result' \in [Proc -> Results] /\ pc'[p] = "exit"
      BY <3>1 DEF TypeOK, Labels, Results
    <3>3. \A q \in Proc \ {p} : pc'[q] = pc[q]
      BY <3>1 DEF TypeOK
    <3>4. job[p] \in Jobs
      BY <1>5 DEF List, TypeOK
    <3> QED BY <2>1, <3>1, <3>2, <3>3, <3>4 DEF TypeOK
  <2>3. CASE \E i \in Live(secrets) : Goto(p, "fetch") /\ target' = [target EXCEPT ![p] = i]
    <3>1. PICK i \in Live(secrets) : Goto(p, "fetch") /\ target' = [target EXCEPT ![p] = i]
      BY <2>3
    <3>2. i \in 1..MaxSecret /\ i \in 1..made
      BY DEF TypeOK, Live, Id
    <3> QED BY <1>5, <2>1, <3>1, <3>2 DEF List, TypeOK, Labels, Results
  <2> QED BY <1>5, <2>2, <2>3 DEF List
<1>6. CASE Fetch(p)
  <2>1. secrets[target[p]] \in Secret
    BY <1>6 DEF Fetch, Live, TypeOK, SecretLists
  <2>2. copy' \in [Proc -> SUBSET Secret] /\ UNCHANGED <<world, job, list, target, place, sent>>
    BY <1>6, <2>1 DEF Fetch, TypeOK
  <2>3. pc' \in [Proc -> Labels] /\ result' \in [Proc -> Results]
    BY <1>6 DEF Fetch, TypeOK, Labels, Results
  <2>4. pc'[p] \in {"send", "exit"} /\ \A q \in Proc \ {p} : pc'[q] = pc[q]
    BY <1>6 DEF Fetch, TypeOK
  <2>5. job[p] \in Jobs /\ (job[p].op = "edit" => target[p] # 0)
    BY <1>6 DEF Fetch, TypeOK
  <2> QED BY <2>2, <2>3, <2>4, <2>5 DEF TypeOK
<1>7. CASE FetchGone(p)
  BY <1>7 DEF FetchGone, TypeOK, Labels, Results
<1>8. CASE FindProject(p)
  <2>1. ProjectsNamed(Scope(job[p])) \in SUBSET Project
    BY DEF ProjectsNamed
  <2>2. job[p].op = "create" /\ job[p] \in Jobs
    BY <1>8 DEF FindProject, Orderly, TypeOK
  <2> QED BY <1>8, <2>1, <2>2 DEF FindProject, TypeOK, Labels, Results
<1>9. CASE Send(p)
  <2>1. ~ValueMissing(job[p]) => Requests(p) \subseteq Request /\ \A r \in Requests(p) : r.id <= made
    BY <1>9, RequestType DEF Send
  <2>2. job[p] \in Jobs /\ (job[p].op = "edit" => target[p] # 0)
    BY <1>9 DEF Send, TypeOK
  <2> QED BY <1>9, <2>1, <2>2 DEF Send, TypeOK, Labels, Results
<1>10. CASE Exit(p)
  BY <1>10, SecretsAssumption DEF Exit, TypeOK, Labels, Results
<1>11. CASE ServerCreates(p)
  <2>1. PICK r \in sent[p] : r.id = 0 /\ secrets' = [secrets EXCEPT ![made + 1] = r.body]
    BY <1>11 DEF ServerCreates
  <2>2. r.body \in Secret /\ made + 1 \in Id /\ made + 1 \in made..MaxSecret
    BY <1>11, <2>1 DEF ServerCreates, TypeOK, Request, Id
  <2>3. secrets' \in SecretLists /\ Live(secrets') \subseteq 1..made'
    <3>1. made' = made + 1 /\ made + 1 <= made'
      BY <1>11 DEF ServerCreates
    <3> QED BY <2>1, <2>2, <3>1, WriteType
  <2>4. made' \in 0..MaxSecret /\ made <= made' /\ edits' \in 0..MaxEdits
    BY <1>11, <2>2 DEF ServerCreates, TypeOK
  <2>5. pc' \in [Proc -> Labels] /\ result' \in [Proc -> Results] /\ pc'[p] \in {pc[p], "exit"}
    BY <1>11 DEF ServerCreates, Delivered, TypeOK, Labels, Results
  <2>6. \A q \in Proc \ {p} : pc'[q] = pc[q] /\ sent'[q] = sent[q]
    BY <1>11 DEF ServerCreates, Delivered, TypeOK
  <2>7. sent' \in [Proc -> SUBSET Request] /\ sent'[p] = {} /\ UNCHANGED <<job, local>>
    BY <1>11 DEF ServerCreates, Delivered, TypeOK
  <2>8. pc[p] # "idle" => job[p] \in Jobs
    BY DEF TypeOK
  <2>11. \A q \in Proc : target'[q] <= made' /\ \A r_1 \in sent'[q] : r_1.id <= made'
    <3>1. \A n \in 0..MaxSecret : n <= made => n <= made'
      BY <2>4
    <3>2. \A q \in Proc : /\ target[q] \in 0..MaxSecret /\ target[q] <= made
                          /\ \A r_1 \in sent[q] : r_1.id \in 0..MaxSecret /\ r_1.id <= made
      BY DEF TypeOK, Request
    <3>3. \A q \in Proc : sent'[q] \subseteq sent[q] /\ target'[q] = target[q]
      BY <2>6, <2>7
    <3> QED BY <3>1, <3>2, <3>3
  <2>12. /\ list' \in [Proc -> SUBSET SecretLists] /\ target' \in [Proc -> 0..MaxSecret]
         /\ copy' \in [Proc -> SUBSET Secret] /\ place' \in [Proc -> SUBSET Project]
         /\ job' \in [Proc -> Jobs \cup {NoJob}]
    BY <2>7 DEF TypeOK
  <2>13. \A q \in Proc : pc'[q] = pc[q] =>
           /\ pc'[q] # "idle" => job'[q] \in Jobs
           /\ pc'[q] \in {"fetch", "send", "reply"} /\ job'[q].op = "edit" => target'[q] # 0
    BY <2>7 DEF TypeOK
  <2>9. CASE pc'[p] = pc[p]
    <3>1. \A q \in Proc : pc'[q] = pc[q]
      BY <2>6, <2>9
    <3> QED BY <2>3, <2>4, <2>5, <2>7, <2>11, <2>12, <2>13, <3>1 DEF TypeOK
  <2>10. CASE pc'[p] # pc[p]
    <3>1. pc[p] = "reply"
      BY <1>11, <2>10 DEF ServerCreates, Delivered
    <3>2. pc'[p] = "exit" /\ job'[p] \in Jobs
      BY <2>5, <2>7, <2>8, <2>10, <3>1
    <3>3. \A q \in Proc :
            /\ pc'[q] # "idle" => job'[q] \in Jobs
            /\ pc'[q] \in {"fetch", "send", "reply"} /\ job'[q].op = "edit" => target'[q] # 0
      BY <2>6, <2>13, <3>2
    <3> QED BY <2>3, <2>4, <2>5, <2>7, <2>11, <2>12, <3>3 DEF TypeOK
  <2> QED BY <2>9, <2>10
<1>12. CASE ServerEdits(p)
  <2>1. PICK r \in sent[p], projects \in SUBSET Project :
          /\ r.id \in Live(secrets)
          /\ secrets' = [secrets EXCEPT ![r.id] = [r.body EXCEPT !.projects = projects]]
    <3>1. PICK r \in sent[p] :
            /\ r.id \in Live(secrets)
            /\ \E projects \in (IF r.body.projects # {} THEN {r.body.projects}
                                ELSE {{}, secrets[r.id].projects}) :
                 secrets' = [secrets EXCEPT ![r.id] = [r.body EXCEPT !.projects = projects]]
      BY <1>12 DEF ServerEdits
    <3>2. secrets[r.id] \in Secret /\ r.body \in Secret
      BY <3>1 DEF TypeOK, SecretLists, Live, Request
    <3> QED BY <3>1, <3>2 DEF Secret
  <2>2. r.body \in Secret /\ r.id \in Id /\ r.id <= made
    BY <2>1 DEF TypeOK, Request, Live
  <2>3. [r.body EXCEPT !.projects = projects] \in Secret
    BY <2>2 DEF Secret
  <2>4. made \in made..MaxSecret /\ made' = made
    BY <1>12 DEF ServerEdits, TypeOK
  <2>5. secrets' \in SecretLists /\ Live(secrets') \subseteq 1..made'
    BY <2>1, <2>2, <2>3, <2>4, WriteType
  <2> QED BY <1>12, <2>5 DEF ServerEdits, Delivered, TypeOK, Labels, Results
<1>13. CASE ServerRefuses(p)
  BY <1>13 DEF ServerRefuses, TypeOK, Labels, Results
<1> QED BY <1>1, <1>2, <1>3, <1>4, <1>5, <1>6, <1>7, <1>8, <1>9, <1>10, <1>11, <1>12, <1>13
        DEF Step

LEMMA OthersType ==
  ASSUME TypeOK, OtherWrites \/ OtherDeletes
  PROVE  TypeOK'
<1>0. made \in Nat /\ MaxSecret \in Nat /\ made \in made..MaxSecret
  BY SecretsAssumption DEF TypeOK
<1>1. edits' \in 0..MaxEdits
  BY ManagerAssumption DEF OtherWrites, OtherDeletes, TypeOK
<1> DEFINE Kept == /\ secrets' \in SecretLists /\ Live(secrets') \subseteq 1..made'
                  /\ made' \in 0..MaxSecret /\ made <= made'
<1>2. Kept
  <2>1. CASE OtherDeletes
    <3>1. PICK i \in Live(secrets) : secrets' = [secrets EXCEPT ![i] = Gone]
      BY <2>1 DEF OtherDeletes
    <3>2. i \in Id /\ made' = made
      BY <2>1 DEF Live, OtherDeletes
    <3>3. secrets' \in SecretLists /\ Live(secrets') \subseteq 1..made
      BY <1>0, <3>1, <3>2, WriteType
    <3> QED BY <1>0, <3>2, <3>3
  <2>2. ASSUME NEW s \in Written, NEW i \in Live(secrets),
               secrets' = [secrets EXCEPT ![i] = s], made' = made
        PROVE  Kept
    <3>1. i \in Id /\ i <= made /\ s \in Secret
      BY <2>2, ManagerAssumption DEF Live, TypeOK
    <3>2. secrets' \in SecretLists /\ Live(secrets') \subseteq 1..made
      BY <1>0, <2>2, <3>1, WriteType
    <3>3. made' \in 0..MaxSecret /\ made <= made' /\ made' = made
      <4>1. made \in 0..MaxSecret /\ made <= made
        BY <1>0
      <4> QED BY <2>2, <4>1
    <3> QED BY <3>2, <3>3
  <2>3. ASSUME NEW s \in Written, made < MaxSecret, made' = made + 1,
               secrets' = [secrets EXCEPT ![made + 1] = s]
        PROVE  Kept
    <3>1. made + 1 \in Id /\ made + 1 \in made..MaxSecret /\ made + 1 <= made + 1 /\ s \in Secret
      BY <1>0, <2>3, ManagerAssumption DEF Id
    <3>2. secrets' \in SecretLists /\ Live(secrets') \subseteq 1..(made + 1)
      BY <2>3, <3>1, WriteType
    <3>3. made' \in 0..MaxSecret /\ made <= made' /\ made' = made + 1
      <4>1. made + 1 \in 0..MaxSecret /\ made <= made + 1
        BY <1>0, <2>3
      <4> QED BY <2>3, <4>1
    <3> QED BY <3>2, <3>3
  <2> QED BY <2>1, <2>2, <2>3 DEF OtherWrites
<1>3. \A n \in 0..MaxSecret : n <= made => n <= made'
  BY <1>0, <1>2
<1>4. \A q \in Proc : target[q] <= made' /\ \A r \in sent[q] : r.id <= made'
  BY <1>3 DEF TypeOK, Request
<1> QED BY <1>1, <1>2, <1>4, Elsewhere DEF TypeOK, local

LEMMA StepOrderly ==
  ASSUME IInv, NEW p \in Proc, Step(p)
  PROVE  Orderly(p)'
<1>0. TypeOK /\ Orderly(p)
  BY DEF IInv
<1> USE <1>0 DEF Goto, End, local, Orderly, TypeOK
<1>1. CASE Start(p)
  BY <1>1 DEF Start
<1>2. CASE Exchange(p)
  <2>1. job[p] \in Jobs /\ job[p].op \in {"list", "get", "create", "edit"}
    BY <1>2, ParsedTexts DEF Exchange
  <2>2. CASE Refused(job[p])
    BY <1>2, <2>2 DEF Exchange
  <2>3. CASE ~Refused(job[p])
    <3>1. /\ pc'[p] = First(job[p]) /\ result'[p] = "none"
          /\ UNCHANGED <<job, list, target, copy, place, sent>>
      BY <1>2, <2>3 DEF Exchange
    <3>2. /\ list[p] = {} /\ target[p] = 0 /\ place[p] = {}
      BY <1>2 DEF Exchange
    <3> QED BY <2>1, <2>3, <3>1, <3>2 DEF First
  <2> QED BY <2>2, <2>3
<1>3. CASE RequestFails(p) \/ FetchGone(p)
  BY <1>3 DEF RequestFails, FetchGone
<1>4. CASE LookUp(p)
  BY <1>4, SecretsAssumption DEF LookUp, Id
<1>5. CASE List(p)
  BY <1>5, SecretsAssumption DEF List, Live, Id
<1>6. CASE Fetch(p)
  BY <1>6 DEF Fetch
<1>7. CASE FindProject(p)
  BY <1>7 DEF FindProject
<1>8. CASE Send(p)
  BY <1>8 DEF Send, Requests
<1>9. CASE Exit(p)
  BY <1>9 DEF Exit
<1>10. CASE ServerCreates(p) \/ ServerEdits(p) \/ ServerRefuses(p)
  <2>1. UNCHANGED <<job, list, target, copy, place>> /\ sent'[p] = {}
    BY <1>10 DEF ServerCreates, ServerEdits, ServerRefuses, Delivered
  <2>2. \/ pc' = pc /\ result' = result
        \/ pc'[p] = "exit"
    BY <1>10 DEF ServerCreates, ServerEdits, ServerRefuses, Delivered
  <2> QED BY <2>1, <2>2
<1> QED BY <1>1, <1>2, <1>3, <1>4, <1>5, <1>6, <1>7, <1>8, <1>9, <1>10 DEF Step

LEMMA StepInv == IInv /\ [Next]_vars => IInv'
<1> SUFFICES ASSUME IInv, [Next]_vars  PROVE IInv'
  OBVIOUS
<1>1. ASSUME NEW p \in Proc, Step(p)  PROVE IInv'
  <2>1. \A q \in Proc \ {p} : Orderly(q)'
    BY <1>1, Others, OrderlyFrame DEF IInv
  <2> QED BY <1>1, <2>1, StepType, StepOrderly DEF IInv
<1>2. CASE OtherWrites \/ OtherDeletes
  BY <1>2, OthersType, Elsewhere, OrderlyFrame DEF IInv
<1>3. CASE UNCHANGED vars
  <2>1. TypeOK'
    BY <1>3 DEF IInv, TypeOK, vars, world, local
  <2>2. \A q \in Proc : Mine(q)' = Mine(q)
    BY <1>3 DEF Mine, vars, local
  <2> QED BY <2>1, <2>2, OrderlyFrame DEF IInv
<1> QED BY <1>1, <1>2, <1>3 DEF Next, Step

LEMMA Invariance == Spec => []IInv
  BY InitInv, StepInv, PTL DEF Spec

(* Every variable keeps its type: what edit and create send is made of      *)
(* sealed texts.                                                            *)
THEOREM TypeCorrect == Spec => []TypeOK
<1>1. IInv => TypeOK
  BY DEF IInv
<1> QED BY <1>1, Invariance, PTL

-----------------------------------------------------------------------------
(* The search for a key: nothing like it beside what is found, and what it  *)
(* finds none of, or several, is none, or several, of the secrets that have *)
(* the key.                                                                 *)
LEMMA Lone ==
  ASSUME NEW l \in SecretLists, NEW query \in Words, NEW name,
         NEW i, Found(l, query, name) = {i}
  PROVE  /\ i \in Shown(l, name)
         /\ \A j \in Shown(l, name) \ {i} : KeyOf(l, j) \notin {KeyOf(l, i), query}
<1>1. \A j \in Shown(l, name) : KeyOf(l, j) \in Words
  <2>1. \A j \in Shown(l, name) : l[j].key \in Field
    BY DEF Shown, Live, SecretLists, Secret
  <2> QED BY <2>1, PlainSealed DEF KeyOf
<1>2. CASE Bearers(l, query, name) # {}
  BY <1>2 DEF Found, Bearers
<1>3. CASE Bearers(l, query, name) = {}
  <2>1. i \in Best(l, query, name)
    BY <1>3 DEF Found
  <2>2. i \in Shown(l, name) /\ \A j \in Shown(l, name) \ {i} :
          Score(query, KeyOf(l, j)) < Score(query, KeyOf(l, i))
    BY <2>1 DEF Best
  <2>3. \A j \in Shown(l, name) : Score(query, KeyOf(l, j)) \in Int /\ KeyOf(l, j) # query
    BY <1>1, <1>3, SecretsAssumption DEF Bearers
  <2>4. \A x \in Int : ~(x < x)
    OBVIOUS
  <2> QED BY <2>2, <2>3, <2>4
<1> QED BY <1>2, <1>3

LEMMA Several ==
  ASSUME NEW l \in SecretLists, NEW query \in Words, NEW name
  PROVE  /\ Found(l, query, name) = {} => Bearers(l, query, name) = {}
         /\ Cardinality(Found(l, query, name)) > 1 =>
              Cardinality(Bearers(l, query, name)) > 1
<1>1. Found(l, query, name) = {} => Bearers(l, query, name) = {}
  BY DEF Found
<1>2. CASE Bearers(l, query, name) # {}
  BY <1>2 DEF Found
<1>3. CASE Bearers(l, query, name) = {}
  <2>1. \A j \in Shown(l, name) : Score(query, KeyOf(l, j)) \in Int
    <3>1. \A j \in Shown(l, name) : l[j].key \in Field
      BY DEF Shown, Live, SecretLists, Secret
    <3> QED BY <3>1, PlainSealed, SecretsAssumption DEF KeyOf
  <2>2. \A i, j \in Best(l, query, name) : i = j
    <3>1. SUFFICES ASSUME NEW i \in Best(l, query, name), NEW j \in Best(l, query, name), i # j
                   PROVE  FALSE
      OBVIOUS
    <3>2. /\ Score(query, KeyOf(l, j)) < Score(query, KeyOf(l, i))
          /\ Score(query, KeyOf(l, i)) < Score(query, KeyOf(l, j))
          /\ i \in Shown(l, name) /\ j \in Shown(l, name)
      BY <3>1 DEF Best
    <3>3. \A x, y \in Int : ~(x < y /\ y < x)
      OBVIOUS
    <3> QED BY <2>1, <3>2, <3>3
  <2>3. Best(l, query, name) = {} \/ \E i : Best(l, query, name) = {i}
    BY <2>2
  <2>4. Cardinality(Best(l, query, name)) \in {0, 1}
    BY <2>3, FS_EmptySet, FS_Singleton
  <2> QED BY <1>1, <1>3, <2>4 DEF Found
<1> QED BY <1>1, <1>2, <1>3

LEMMA SearchedTexts ==
  ASSUME IInv, NEW p \in Proc, pc[p] = "list", job[p].op # "list"
  PROVE  Asks(job[p]) \in Words /\ secrets \in SecretLists
  BY ParsedTexts DEF IInv, TypeOK, Orderly

LEMMA StepUnambiguous ==
  ASSUME IInv, NeverAmbiguous, NEW p \in Proc, Step(p)
  PROVE  NeverAmbiguous'
<1>0. TypeOK /\ Orderly(p)
  BY DEF IInv
<1>1. \A q \in Proc \ {p} : Mine(q)' = Mine(q)
  BY <1>0, Others
<1> DEFINE Clear(q) ==
      /\ \A l \in list[q] : target[q] # 0 =>
           LET shown == Shown(l, Scope(job[q])) IN
           /\ target[q] \in shown
           /\ \A i \in shown \ {target[q]} :
                KeyOf(l, i) \notin {KeyOf(l, target[q]), Asks(job[q])}
      /\ \A r \in place[q] :
           ProjectName[r] = Scope(job[q]) /\ ProjectsNamed(Scope(job[q])) = {r}
<1>2. \A q \in Proc : Clear(q)
  BY DEF NeverAmbiguous
<1>3. ASSUME NEW q \in Proc \ {p}  PROVE Clear(q)'
  <2>1. list'[q] = list[q] /\ target'[q] = target[q] /\ job'[q] = job[q] /\ place'[q] = place[q]
    BY <1>1 DEF Mine
  <2>2. Clear(q)
    BY <1>2
  <2> QED BY <2>1, <2>2
<1>4. SUFFICES Clear(p)'
  BY <1>3, <1>4 DEF NeverAmbiguous
<1>5. CASE list'[p] = {} /\ place'[p] = {}
  BY <1>5
<1>6. CASE UNCHANGED <<list[p], target[p], place[p], job[p]>>
  BY <1>2, <1>6
<1> USE <1>0 DEF Goto, End, local, TypeOK
<1>7. CASE Start(p) \/ LookUp(p)
  BY <1>5, <1>7 DEF Start, LookUp, Orderly
<1>8. CASE List(p)
  <2>1. list'[p] = {secrets} /\ UNCHANGED <<job, place>> /\ place[p] = {} /\ target[p] = 0
    BY <1>8 DEF List, Orderly
  <2>2. CASE target' = target
    BY <2>1, <2>2
  <2>3. CASE target' # target
    <3>1. PICK i \in Live(secrets) :
            /\ job[p].op # "list" /\ Found(secrets, Asks(job[p]), Scope(job[p])) = {i}
            /\ target' = [target EXCEPT ![p] = i]
      BY <1>8, <2>3 DEF List
    <3>2. target'[p] = i
      BY <3>1
    <3>3. Asks(job[p]) \in Words /\ secrets \in SecretLists
      BY <1>8, <3>1, SearchedTexts DEF List
    <3>4. /\ i \in Shown(secrets, Scope(job[p]))
          /\ \A j \in Shown(secrets, Scope(job[p])) \ {i} :
               KeyOf(secrets, j) \notin {KeyOf(secrets, i), Asks(job[p])}
      BY <3>1, <3>3, Lone
    <3> QED BY <2>1, <3>2, <3>4
  <2> QED BY <2>2, <2>3
<1>9. CASE FindProject(p)
  <2>1. UNCHANGED <<job, list, target>> /\ list[p] = {}
    BY <1>9 DEF FindProject, Orderly
  <2>2. CASE place' = place
    BY <1>6, <2>1, <2>2
  <2>3. CASE place' # place
    <3>1. Cardinality(ProjectsNamed(Scope(job[p]))) = 1 /\ place'[p] = ProjectsNamed(Scope(job[p]))
      BY <1>9, <2>3 DEF FindProject
    <3>2. \E r : ProjectsNamed(Scope(job[p])) = {r}
      <4>1. IsFiniteSet(ProjectsNamed(Scope(job[p])))
        BY SecretsAssumption, FS_Subset DEF ProjectsNamed
      <4> QED BY <3>1, <4>1, FS_Singleton
    <3>3. \A r \in ProjectsNamed(Scope(job[p])) : ProjectName[r] = Scope(job[p])
      BY DEF ProjectsNamed
    <3> QED BY <2>1, <3>1, <3>2, <3>3
  <2> QED BY <2>2, <2>3
<1>10. CASE Exit(p)
  BY <1>5, <1>10 DEF Exit
<1>11. CASE Exchange(p) \/ RequestFails(p) \/ Fetch(p) \/ FetchGone(p) \/ Send(p)
  BY <1>6, <1>11 DEF Exchange, RequestFails, Fetch, FetchGone, Send
<1>12. CASE ServerCreates(p) \/ ServerEdits(p) \/ ServerRefuses(p)
  BY <1>6, <1>12 DEF ServerCreates, ServerEdits, ServerRefuses
<1> QED BY <1>7, <1>8, <1>9, <1>10, <1>11, <1>12 DEF Step

LEMMA StepReachable ==
  ASSUME IInv, Reachable, NEW p \in Proc, Step(p)
  PROVE  Reachable'
<1>0. TypeOK /\ Orderly(p)
  BY DEF IInv
<1>1. \A q \in Proc \ {p} : Mine(q)' = Mine(q)
  BY <1>0, Others
<1> DEFINE Own(l, q) == {i \in Live(l) :
                  /\ Opens(l[i].key) /\ Plain(l[i].key) = Asks(job[q])
                  /\ Scope(job[q]) = <<>> \/ InProject(l[i], Scope(job[q]))}
           Fair(q) == \A l \in list[q] : target[q] = 0 =>
             /\ result[q] = "notfound" => Own(l, q) = {}
             /\ result[q] = "ambiguous" => Cardinality(Own(l, q)) > 1
<1>2. \A q \in Proc : Fair(q)
  BY DEF Reachable
<1>3. ASSUME NEW q \in Proc \ {p}  PROVE Fair(q)'
  <2>1. list'[q] = list[q] /\ target'[q] = target[q] /\ job'[q] = job[q] /\ result'[q] = result[q]
    BY <1>1 DEF Mine
  <2>2. Fair(q)
    BY <1>2
  <2> QED BY <2>1, <2>2
<1>4. SUFFICES Fair(p)'
  BY <1>3, <1>4 DEF Reachable
<1>5. CASE list'[p] = {} \/ target'[p] # 0 \/ result'[p] \notin {"notfound", "ambiguous"}
  BY <1>5
<1>6. CASE UNCHANGED <<list[p], target[p], result[p], job[p]>>
  BY <1>2, <1>6
<1> USE <1>0 DEF Goto, End, local, TypeOK
<1>7. CASE Start(p) \/ LookUp(p) \/ Exchange(p) \/ FindProject(p)
  BY <1>5, <1>7 DEF Start, LookUp, Exchange, FindProject, Orderly
<1>8. CASE List(p)
  <2>1. list'[p] = {secrets} /\ job' = job
    BY <1>8 DEF List
  <2>2. CASE job[p].op = "list"
    BY <1>5, <1>8, <2>2 DEF List
  <2>3. CASE job[p].op # "list"
    <3> DEFINE found == Found(secrets, Asks(job[p]), Scope(job[p]))
    <3>1. /\ result'[p] = "notfound" => found = {}
          /\ result'[p] = "ambiguous" => Cardinality(found) > 1
      BY <1>8, <2>3 DEF List, Orderly
    <3>2. Asks(job[p]) \in Words /\ secrets \in SecretLists
      BY <1>8, <2>3, SearchedTexts DEF List
    <3>3. Own(secrets, p) = Bearers(secrets, Asks(job[p]), Scope(job[p]))
      BY DEF Bearers, Shown, KeyOf
    <3> HIDE DEF Own
    <3>4. /\ result'[p] = "notfound" => Own(secrets, p) = {}
          /\ result'[p] = "ambiguous" => Cardinality(Own(secrets, p)) > 1
      BY <3>1, <3>2, <3>3, Several
    <3> QED BY <2>1, <3>4 DEF Own
  <2> QED BY <2>2, <2>3
<1>9. CASE Exit(p)
  BY <1>5, <1>9 DEF Exit
<1>10. CASE RequestFails(p) \/ Fetch(p)
  BY <1>5, <1>10 DEF RequestFails, Fetch, Orderly
<1>11. CASE FetchGone(p)
  <2>1. target'[p] = target[p] /\ pc[p] = "fetch" /\ list' = list /\ job' = job
    BY <1>11 DEF FetchGone
  <2>2. CASE target[p] # 0
    BY <1>5, <2>1, <2>2
  <2> QED BY <2>1, <2>2 DEF Orderly
<1>12. CASE Send(p)
  BY <1>5, <1>12 DEF Send, Orderly
<1>13. CASE ServerCreates(p) \/ ServerEdits(p) \/ ServerRefuses(p)
  <2>1. UNCHANGED <<list, target, job>> /\ result'[p] \in {result[p], "ok", "request"}
    BY <1>13 DEF ServerCreates, ServerEdits, ServerRefuses, Delivered
  <2> QED BY <1>5, <1>6, <2>1
<1> QED BY <1>7, <1>8, <1>9, <1>10, <1>11, <1>12, <1>13 DEF Step

(* findSecretByKey and findSecretByFuzzy: several are none.                 *)
THEOREM KeyIsNeverAmbiguous == Spec => []NeverAmbiguous
<1>1. Init => NeverAmbiguous
  BY DEF Init, NeverAmbiguous
<1>2. IInv /\ NeverAmbiguous /\ [Next]_vars => NeverAmbiguous'
  <2> SUFFICES ASSUME IInv, NeverAmbiguous, [Next]_vars  PROVE NeverAmbiguous'
    OBVIOUS
  <2>1. CASE OtherWrites \/ OtherDeletes
    <3>1. UNCHANGED <<job, list, target, place>>
      BY <2>1, Elsewhere DEF local
    <3> QED BY <3>1 DEF NeverAmbiguous
  <2>2. CASE UNCHANGED vars
    BY <2>2 DEF NeverAmbiguous, vars, local
  <2> QED BY <2>1, <2>2, StepUnambiguous DEF Next, Step
<1> QED BY <1>1, <1>2, Invariance, PTL DEF Spec

(* A key that one secret has is found, whatever else there is.              *)
THEOREM KeyIsFound == Spec => []Reachable
<1>1. Init => Reachable
  BY DEF Init, Reachable
<1>2. IInv /\ Reachable /\ [Next]_vars => Reachable'
  <2> SUFFICES ASSUME IInv, Reachable, [Next]_vars  PROVE Reachable'
    OBVIOUS
  <2>1. CASE OtherWrites \/ OtherDeletes
    <3>1. UNCHANGED <<job, list, target, result>>
      BY <2>1, Elsewhere DEF local
    <3> QED BY <3>1 DEF Reachable
  <2>2. CASE UNCHANGED vars
    BY <2>2 DEF Reachable, vars, local
  <2> QED BY <2>1, <2>2, StepReachable DEF Next, Step
<1> QED BY <1>1, <1>2, Invariance, PTL DEF Spec

(* What an edit makes of a secret all of whose fields it can read.          *)
LEMMA MergedExact ==
  ASSUME NEW j \in Jobs, NEW c \in Secret, Editable(c)
  PROVE  LET m == Merged(c, Cmd(j), j) IN
         /\ Becomes(m.key, c.key, Cmd(j).opt["key"])
         /\ Becomes(m.value, c.value, NewValue(Cmd(j), j))
         /\ Becomes(m.note, c.note, Cmd(j).opt["note"])
         /\ m.projects = c.projects
<1>1. c.key \in Field /\ c.value \in Field /\ c.note \in Field
  BY DEF Secret
<1>2. \A f \in Field : Opens(f) /\ Plain(f) # <<>> => Sealed(Plain(f)) = f
  <2>1. SUFFICES ASSUME NEW f \in Field, Opens(f), Plain(f) # <<>>
                 PROVE  Sealed(Plain(f)) = f
    OBVIOUS
  <2>2. f.form = "sealed" /\ f.text \in Words
    BY <2>1, WordsAssumption DEF Opens, Plain, Field
  <2>3. Unpad(Pad(f.text)) = f.text
    BY <2>2, WordsAssumption, UnpadAfterPad
  <2> QED BY <2>2, <2>3 DEF Sealed, Plain, Field
<1>3. \A asked, f \in Field \cup Words :
        Becomes(Sealed(IF asked = <<>> THEN Plain(f) ELSE asked), f, asked)
          <=> (asked # <<>> \/ Plain(f) = <<>> \/ Sealed(Plain(f)) = f)
  BY DEF Becomes
<1>4. /\ Cmd(j).opt["key"] \in Words /\ Cmd(j).opt["note"] \in Words
      /\ NewValue(Cmd(j), j) \in Words
  BY ParsedTexts DEF Valued
<1> QED BY <1>1, <1>2, <1>3, <1>4 DEF Merged, Editable

(* smEdit: the merged secret, and no other, is written; its texts are those *)
(* that the flags before the key ask for, or those that it had; it stays in *)
(* its projects.                                                            *)
THEOREM EditWritesWhatWasAsked == Spec => EditIsExact
<1> DEFINE Exact(p) ==
        (pc[p] = "reply" /\ result'[p] = "ok" /\ job[p].op = "edit") =>
          LET t == target[p]  asked == Cmd(job[p]) IN
          (Len(asked.rest) = 1 /\ t \in Live(secrets) /\ copy[p] = {secrets[t]}) =>
            /\ \A i \in Live(secrets') \ {t} : secrets'[i] = secrets[i]
            /\ Becomes(secrets'[t].key, secrets[t].key, asked.opt["key"])
            /\ Becomes(secrets'[t].value, secrets[t].value, NewValue(asked, job[p]))
            /\ Becomes(secrets'[t].note, secrets[t].note, asked.opt["note"])
            /\ secrets[t].projects # {} => secrets'[t].projects = secrets[t].projects
<1>1. IInv /\ [Next]_vars => \A p \in Proc : Exact(p)
  <2>1. SUFFICES ASSUME IInv, [Next]_vars, NEW p \in Proc,
                        pc[p] = "reply", result'[p] = "ok", job[p].op = "edit",
                        target[p] \in Live(secrets), copy[p] = {secrets[target[p]]}
                 PROVE  Exact(p)
    OBVIOUS
  <2>2. TypeOK /\ result[p] = "none" /\ sent[p] \subseteq Requests(p) /\ job[p] \in Jobs
    BY <2>1 DEF IInv, TypeOK, Orderly
  <2>3. Step(p)
    <3>1. result'[p] # result[p]
      BY <2>1, <2>2
    <3>2. \A q \in Proc \ {p} : ~Step(q)
      <4>1. SUFFICES ASSUME NEW q \in Proc \ {p}, Step(q)  PROVE result'[p] = result[p]
        BY <3>1
      <4>2. Mine(p)' = Mine(p)
        BY <2>2, <4>1, Others
      <4> QED BY <4>2 DEF Mine
    <3>3. ~(OtherWrites \/ OtherDeletes) /\ ~UNCHANGED vars
      BY <3>1, Elsewhere DEF vars
    <3> QED BY <2>1, <3>2, <3>3 DEF Next, Step
  <2>4. ServerEdits(p)
    <3>1. ~ServerCreates(p)
      <4>1. \A r \in sent[p] : r.id = target[p]
        BY <2>1, <2>2 DEF Requests
      <4>2. target[p] # 0
        BY <2>1, <2>2 DEF TypeOK
      <4> QED BY <4>1, <4>2 DEF ServerCreates
    <3>2. ~(RequestFails(p) \/ ServerRefuses(p))
      BY <2>1, <2>2 DEF RequestFails, ServerRefuses, End, TypeOK
    <3> QED BY <2>1, <2>3, <3>1, <3>2
            DEF Step, Start, Exchange, LookUp, List, Fetch, FetchGone, FindProject, Send, Exit
  <2> DEFINE t == target[p]  c == secrets[t]  m == Merged(c, Cmd(job[p]), job[p])
  <2>5. c \in Secret /\ t \in Id /\ secrets \in [Id -> Secret \cup {Gone}]
    BY <2>1, <2>2 DEF TypeOK, SecretLists, Live
  <2>6. m \in Secret
    BY <2>2, <2>5, MergedType
  <2>7. \A r \in sent[p] : r = [id |-> t, body |-> m]
    BY <2>1, <2>2 DEF Requests
  <2>8. PICK projects :
          /\ secrets' = [secrets EXCEPT ![t] = [m EXCEPT !.projects = projects]]
          /\ m.projects # {} => projects = m.projects
    <3> HIDE DEF t, m
    <3>1. PICK r \in sent[p] :
            \E projects \in (IF r.body.projects # {} THEN {r.body.projects}
                             ELSE {{}, secrets[r.id].projects}) :
              secrets' = [secrets EXCEPT ![r.id] = [r.body EXCEPT !.projects = projects]]
      BY <2>4 DEF ServerEdits
    <3>2. r.body = m /\ r.id = t
      BY <2>7, <3>1
    <3> QED BY <3>1, <3>2
  <2>9. /\ secrets'[t].key = m.key /\ secrets'[t].value = m.value /\ secrets'[t].note = m.note
        /\ secrets'[t].projects = projects
        /\ \A i \in Id \ {t} : secrets'[i] = secrets[i]
    <3> HIDE DEF t, m
    <3> QED BY <2>5, <2>6, <2>8 DEF Secret
  <2>10. Live(secrets') \subseteq Id
    BY DEF Live
  <2>11. /\ \A i \in Live(secrets') \ {t} : secrets'[i] = secrets[i]
         /\ Becomes(secrets'[t].key, c.key, Cmd(job[p]).opt["key"])
         /\ Becomes(secrets'[t].value, c.value, NewValue(Cmd(job[p]), job[p]))
         /\ Becomes(secrets'[t].note, c.note, Cmd(job[p]).opt["note"])
         /\ c.projects # {} => secrets'[t].projects = c.projects
    <3>1. Editable(c)
      BY <2>1 DEF IInv, Orderly
    <3> QED BY <2>2, <2>5, <2>8, <2>9, <2>10, <3>1, MergedExact
  <2> QED BY <2>11
<1> QED BY <1>1, Invariance, PTL DEF Spec, EditIsExact
=============================================================================
