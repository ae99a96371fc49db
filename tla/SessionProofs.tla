---------------------------- MODULE SessionProofs ----------------------------
(* Proofs of Session's safety properties for every value of its constants. *)
EXTENDS Session, SequenceTheorems, TLAPS

USE SessionAssumption DEF SessionAssumption

ReplyIssued ==
  \A p \in Proc : pc[p] = "reply" =>
    /\ reply[p] \in 1..Len(grants)
    /\ grants[reply[p]].expiry <= now + TTL
    /\ now + TTL <= grants[reply[p]].expiry + Latency

LEMMA FreshType == Fresh \in Data
  BY DEF Fresh, Data

LEMMA ExitedType ==
  ASSUME LocalType, NEW p \in Proc, Exited(p)
  PROVE  LocalType'
  BY FreshType DEF LocalType, Exited, Goto, Labels, NoEnv, Environment

LEMMA ReturnType ==
  ASSUME LocalType, NEW p \in Proc, NEW m \in Data, NEW d \in BOOLEAN,
         NEW r \in {"ok", "warn", "err"}, Return(p, m, d, r)
  PROVE  LocalType'
<1>1. CASE Exited(p)
  BY <1>1, ExitedType
<1>2. CASE ~Exited(p)
  BY <1>2 DEF LocalType, Return, Goto, Labels, job
<1> QED BY <1>1, <1>2

LEMMA ContinueType ==
  ASSUME LocalType, NEW p \in Proc, NEW l \in Labels, NEW m \in Data, NEW d \in BOOLEAN,
         Continue(p, l, m, d)
  PROVE  LocalType'
  BY DEF LocalType, Continue, Goto, job

LEMMA FailType ==
  ASSUME LocalType, NEW p \in Proc, Fail(p)
  PROVE  LocalType'
  BY ReturnType DEF LocalType, Fail

LEMMA ProceedType ==
  ASSUME LocalType, NEW p \in Proc, NEW l \in Labels, Proceed(p, l)
  PROVE  LocalType'
  BY ContinueType DEF LocalType, Proceed

LEMMA SharedKept ==
  ASSUME SharedType, UNCHANGED <<store, server, now, disturbed>>
  PROVE  SharedType'
  BY DEF SharedType, store, server

LEMMA RefusedType ==
  ASSUME TypeOK, NEW p \in Proc, Refused(p)
  PROVE  TypeOK'
  BY FailType, SharedKept DEF TypeOK, Refused

LEMMA WithType ==
  ASSUME SharedType, NEW d \in Data
  PROVE  WithKdf(d) \in Data /\ WithVault(d) \in Data
<1>1. srvEpoch \in 0..MaxEpoch
  BY DEF SharedType
<1> QED BY <1>1 DEF WithKdf, WithVault, Data

LEMMA GrantsLength == SharedType => Len(grants) \in Nat
  BY LenProperties DEF SharedType

LEMMA NextGrant ==
  ASSUME SharedType, NEW p \in Proc, NEW r, Issue(p, r)
  PROVE  Len(grants) + 1 \in 1..MaxGrants
<1>1. Len(grants) \in Nat /\ Len(grants) < MaxGrants
  BY GrantsLength DEF Issue
<1> QED BY <1>1

LEMMA StoredType ==
  ASSUME SharedType, NEW d \in Data, NEW n \in 1..Len(grants)
  PROVE  Stored(d, n) \in Data
<1>1. grants[n] \in Grant
  BY LenProperties DEF SharedType
<1>2. n \in 0..MaxGrants /\ now + TTL \in 0..(MaxTime + TTL)
  BY GrantsLength DEF SharedType
<1> QED BY <1>1, <1>2 DEF Stored, Data, Grant

LEMMA IssueType ==
  ASSUME TypeOK, NEW p \in Proc, NEW r \in 0..MaxGrants, Issue(p, r),
         live' \subseteq 1..MaxGrants
  PROVE  TypeOK'
<1>1. LocalType'
  BY DEF TypeOK, LocalType, SharedType, Issue, Goto, Labels, job
<1>2. SharedType'
  <2>1. [expiry |-> now + TTL, refresh |-> r] \in Grant
    BY DEF TypeOK, SharedType, Grant
  <2>2. grants' \in Seq(Grant) /\ Len(grants') = Len(grants) + 1
    BY <2>1, AppendProperties DEF TypeOK, SharedType, Issue
  <2>3. Len(grants') <= MaxGrants
    BY <2>2, NextGrant DEF TypeOK
  <2> QED BY <2>2, <2>3 DEF TypeOK, SharedType, Issue, store
<1> QED BY <1>1, <1>2 DEF TypeOK

(* Every action of an invocation that is no grant leaves LocalType intact. *)
LEMMA StepType ==
  ASSUME TypeOK, ReplyIssued, NEW p \in Proc, Step(p) \/ Answer(p)
  PROVE  TypeOK'
<1>n. Len(grants) + 1 \in Nat /\ 0 \in 0..MaxGrants
  BY DEF TypeOK, SharedType
<1>m. SharedType /\ LocalType /\ mem[p] \in Data /\ dirty[p] \in BOOLEAN
  BY DEF TypeOK, LocalType
<1>k. WithKdf(mem[p]) \in Data /\ WithVault(mem[p]) \in Data
  BY <1>m, WithType
<1>1. CASE Login(p)
  <2>1. Proceed(p, "apiGrant") \/ Proceed(p, "ask") \/ Fail(p)
    BY <1>1 DEF Login
  <2>2. LocalType'
    BY <1>m, <2>1, ProceedType, FailType DEF Labels, Prompts
  <2> QED BY <1>1, <1>m, <2>2, SharedKept DEF Login, TypeOK
<1>2. CASE Prelogin(p)
  <2>1. LocalType'
    BY <1>2, <1>m, <1>k, ContinueType, FailType DEF Prelogin, Labels, Prompts
  <2> QED BY <1>2, <1>m, <2>1, SharedKept DEF Prelogin, TypeOK
<1>3. CASE PasswordGrant(p) \/ PasswordGrant2(p)
  <2>1. CASE /\ Issue(p, Len(grants) + 1)
             /\ live' = live \cup {Len(grants) + 1}
    <3>1. Len(grants) + 1 \in 1..MaxGrants /\ live \subseteq 1..MaxGrants
      BY <1>m, <2>1, NextGrant DEF SharedType
    <3>2. Len(grants) + 1 \in 0..MaxGrants
      BY <3>1
    <3>3. live' \subseteq 1..MaxGrants
      BY <2>1, <3>1
    <3> QED BY <2>1, <3>2, <3>3, IssueType
  <2>2. CASE Proceed(p, "code") /\ UNCHANGED <<store, server, now, disturbed>>
    BY <2>2, <1>m, ProceedType, SharedKept DEF TypeOK, Labels, Prompts
  <2> QED BY <1>3, <2>1, <2>2, RefusedType DEF PasswordGrant, PasswordGrant2
<1>4. CASE ApiGrant(p)
  <2>1. CASE Issue(p, 0) /\ UNCHANGED live
    BY <1>n, <2>1, IssueType DEF TypeOK, SharedType
  <2> QED BY <1>4, <2>1, RefusedType DEF ApiGrant
<1>5. CASE StoreToken(p)
  <2>1. Stored(mem[p], reply[p]) \in Data
    BY <1>5, <1>m, StoredType DEF StoreToken, ReplyIssued
  <2>2. CASE cmd[p] = "login"
    BY <1>5, <1>m, <2>1, <2>2, ReturnType, SharedKept DEF StoreToken, TypeOK
  <2>3. CASE cmd[p] # "login"
    <3>1. now \in 0..MaxTime /\ "sync" \in Labels /\ 0 \in 0..MaxGrants
      BY DEF TypeOK, SharedType, Labels
    <3>2. /\ Goto(p, "sync")
          /\ mem' = [mem EXCEPT ![p] = Stored(mem[p], reply[p])]
          /\ dirty' = [dirty EXCEPT ![p] = TRUE]
          /\ since' = [since EXCEPT ![p] = now] /\ reply' = [reply EXCEPT ![p] = 0]
          /\ UNCHANGED <<job, outcome>>
      BY <1>5, <2>3 DEF StoreToken
    <3>3. LocalType'
      BY <1>m, <2>1, <3>1, <3>2 DEF LocalType, Goto, job
    <3> QED BY <1>5, <1>m, <3>3, SharedKept DEF StoreToken, TypeOK
  <2> QED BY <2>2, <2>3
<1>6. CASE LoseReply(p)
  BY <1>6, FailType DEF LoseReply, TypeOK, SharedType, store, server
<1>7. CASE EnsureToken(p)
  <2>1. ASSUME since' = [since EXCEPT ![p] = now], Goto(p, "sync"),
               UNCHANGED <<job, mem, dirty, reply, outcome>>
        PROVE  LocalType'
    <3>1. now \in 0..MaxTime /\ "sync" \in Labels
      BY DEF TypeOK, SharedType, Labels
    <3> QED BY <1>m, <2>1, <3>1 DEF LocalType, Goto, job
  <2>2. ASSUME Proceed(p, "login") \/ Proceed(p, "refresh")
        PROVE  LocalType'
    BY <2>2, <1>m, ProceedType DEF Labels
  <2>3. LocalType'
    BY <1>7, <2>1, <2>2 DEF EnsureToken, TypeOK
  <2> QED BY <1>7, <1>m, <2>3, SharedKept DEF EnsureToken, TypeOK
<1>8. CASE Refresh(p)
  <2>1. CASE \E r \in {mem[p].refresh, 0} : Issue(p, r) /\ UNCHANGED live
    <3>1. mem[p].refresh \in 0..MaxGrants
      BY <1>m DEF Data, TypeOK
    <3> QED BY <1>n, <2>1, <3>1, IssueType DEF TypeOK, SharedType
  <2>2. CASE /\ Issue(p, Len(grants) + 1)
             /\ live' = (live \ {mem[p].refresh}) \cup {Len(grants) + 1}
    <3>1. Len(grants) + 1 \in 1..MaxGrants /\ live \subseteq 1..MaxGrants
      BY <1>m, <2>2, NextGrant DEF SharedType
    <3>2. Len(grants) + 1 \in 0..MaxGrants
      BY <3>1
    <3>3. live' \subseteq 1..MaxGrants
      BY <2>2, <3>1
    <3> QED BY <2>2, <3>2, <3>3, IssueType
  <2>3. CASE Proceed(p, "repassword") /\ UNCHANGED <<store, server, now, disturbed>>
    BY <2>3, <1>m, ProceedType, SharedKept DEF TypeOK, Labels, Prompts
  <2> QED BY <1>8, <2>1, <2>2, <2>3, RefusedType DEF Refresh
<1>9. CASE SyncGet(p)
  <2>1. ASSUME Goto(p, "kdf"), since' = [since EXCEPT ![p] = 0],
               mem' = [mem EXCEPT ![p] = WithVault(@)],
               UNCHANGED <<job, dirty, reply, outcome>>
        PROVE  LocalType'
    BY <2>1, <1>k, <1>m DEF LocalType, Goto, Labels, job
  <2>2. ASSUME Return(p, WithVault(mem[p]), dirty[p], "err") \/ Fail(p)
        PROVE  LocalType'
    BY <2>2, <1>k, <1>m, ReturnType, FailType DEF TypeOK
  <2> QED BY <1>9, <1>m, <2>1, <2>2, SharedKept DEF SyncGet, TypeOK
<1>10. CASE RefreshKDF(p) \/ Read(p)
  <2>1. LocalType'
    BY <1>10, <1>k, <1>m, ReturnType, FailType DEF RefreshKDF, Read, TypeOK
  <2> QED BY <1>10, <1>m, <2>1, SharedKept DEF RefreshKDF, Read, TypeOK
<1>11. CASE Truncate(p)
  BY <1>11 DEF Truncate, TypeOK, LocalType, SharedType, Goto, Labels, job, server
<1>12. CASE Write(p)
  BY <1>12, <1>m, ExitedType DEF Write, TypeOK, SharedType, server
<1>13. CASE Ask(p) \/ Password(p) \/ Code(p) \/ RePassword(p) \/ RePrelogin(p)
  <2>1. \/ Fail(p)
        \/ \E l \in {"prelogin", "grant", "grant2", "reprelogin"} : Proceed(p, l)
    BY <1>13 DEF Ask, Password, Code, RePassword, RePrelogin
  <2>2. LocalType'
    BY <1>m, <2>1, ProceedType, FailType DEF Labels, TypeOK
  <2> QED
    BY <1>13, <1>m, <2>2, SharedKept
    DEF Ask, Password, Code, RePassword, RePrelogin, TypeOK
<1> QED
  BY <1>1, <1>2, <1>3, <1>4, <1>5, <1>6, <1>7, <1>8, <1>9, <1>10, <1>11, <1>12,
     <1>13 DEF Step, Answer

LEMMA TypeInit == Init => TypeOK
<1> SUFFICES ASSUME Init PROVE TypeOK
  OBVIOUS
<1>1. SharedType
  <2>1. grants \in Seq(Grant) /\ Len(grants) <= MaxGrants
    BY EmptySeq DEF Init
  <2>2. srvEpoch \in 1..MaxEpoch /\ now \in 0..MaxTime /\ live \subseteq 1..MaxGrants
    BY DEF Init
  <2>3. file \in {"absent", "ok", "torn"} /\ disk \in Data /\ disturbed \in BOOLEAN
    BY FreshType DEF Init
  <2> QED BY <2>1, <2>2, <2>3 DEF SharedType
<1>2. LocalType
  BY FreshType DEF Init, LocalType, Labels, NoEnv, Environment
<1> QED BY <1>1, <1>2 DEF TypeOK

LEMMA TypeStep ==
  ASSUME TypeOK, ReplyIssued, [Next]_vars
  PROVE  TypeOK'
<1>m. SharedType /\ LocalType
  BY DEF TypeOK
<1>1. ASSUME NEW p \in Proc, Step(p) \/ Answer(p) PROVE TypeOK'
  BY <1>1, StepType
<1>2. ASSUME NEW p \in Proc, NEW c \in DOMAIN Entry, NEW e \in Env, Run(p, c, e)
      PROVE  TypeOK'
  <2>1. Entry[c] \in Labels /\ e \in Environment /\ (file = "absent") \in BOOLEAN
    BY <1>2 DEF Entry, Labels
  <2>2. disk \in Data
    BY <1>m DEF SharedType
  <2>3. LocalType'
    BY <1>m, <1>2, <2>1, <2>2 DEF Run, LocalType, Goto
  <2> QED BY <1>m, <1>2, <2>3 DEF Run, TypeOK, SharedType, store, server, Alone
<1>3. ASSUME NEW p \in Proc, SaveFails(p) \/ HandlerExit(p) \/ Crash(p) PROVE TypeOK'
  <2>1. LocalType'
    BY <1>m, <1>3, ExitedType DEF SaveFails, HandlerExit, Crash, CutShort
  <2> QED
    BY <1>m, <1>3, <2>1
    DEF SaveFails, HandlerExit, Crash, CutShort, TypeOK, SharedType, store, server
<1>4. ASSUME NEW p \in Proc, Sigint(p) PROVE TypeOK'
  BY <1>m, <1>4 DEF Sigint, TypeOK, SharedType, LocalType, store, server
<1>5. CASE Rekey
  BY <1>m, <1>5 DEF Rekey, TypeOK, SharedType, LocalType, store, job
<1>6. CASE Tick
  BY <1>m, <1>6 DEF Tick, TypeOK, SharedType, LocalType, store, server, job
<1>7. CASE UNCHANGED vars
  BY <1>m, <1>7 DEF vars, TypeOK, SharedType, LocalType, store, server, job
<1> QED BY <1>1, <1>2, <1>3, <1>4, <1>5, <1>6, <1>7 DEF Next

-----------------------------------------------------------------------------
(* What a step does to the server's grants, to the token fields an          *)
(* invocation holds, and to the data on disk.                               *)

Grown ==
  /\ Len(grants) <= Len(grants')
  /\ \A i \in 1..Len(grants) : grants'[i] = grants[i]

SameTriple(d, e) == d.token = e.token /\ d.refresh = e.refresh /\ d.expiry = e.expiry

HoldsOld(q) ==
  \E d \in {mem[q], disk, Fresh} : SameTriple(mem[q]', d)
HoldsNew(q) ==
  pc[q] = "reply" /\ mem[q]' = Stored(mem[q], reply[q])

LEMMA IssueGrows ==
  ASSUME TypeOK, NEW p \in Proc, NEW r \in 0..MaxGrants, Issue(p, r)
  PROVE  /\ Grown /\ Len(grants') = Len(grants) + 1
         /\ grants'[Len(grants) + 1].expiry = now + TTL
<1>1. [expiry |-> now + TTL, refresh |-> r] \in Grant
  BY DEF TypeOK, SharedType, Grant
<1>2. Len(grants) \in Nat /\ grants \in Seq(Grant)
  BY GrantsLength DEF TypeOK, SharedType
<1> QED BY <1>1, <1>2, AppendProperties DEF Issue, Grown

(* Only the grant actions touch what the server has issued. *)
LEMMA Issuance ==
  ASSUME TypeOK, [Next]_vars
  PROVE  UNCHANGED grants \/ \E p \in Proc, r \in 0..MaxGrants : Issue(p, r)
<1>1. ASSUME NEW p \in Proc, Step(p) \/ Answer(p)
      PROVE  UNCHANGED grants \/ \E r \in 0..MaxGrants : Issue(p, r)
  <2>1. CASE PasswordGrant(p) \/ PasswordGrant2(p)
    BY <2>1, NextGrant DEF PasswordGrant, PasswordGrant2, Refused, server, TypeOK
  <2>2. CASE ApiGrant(p)
    BY <2>2 DEF ApiGrant, Refused, server
  <2>3. CASE Refresh(p)
    <3>1. mem[p].refresh \in 0..MaxGrants
      BY DEF TypeOK, LocalType, Data
    <3> QED BY <2>3, <3>1, NextGrant DEF Refresh, Refused, server, TypeOK
  <2> QED
    BY <1>1, <2>1, <2>2, <2>3
    DEF Step, Answer, Login, Prelogin, StoreToken, LoseReply, EnsureToken, RePrelogin,
        SyncGet, RefreshKDF, Truncate, Write, RePassword, Read, Ask, Password, Code, server
<1>2. ASSUME NEW p \in Proc,
             \/ \E c \in DOMAIN Entry, e \in Env : Run(p, c, e)
             \/ SaveFails(p) \/ Sigint(p) \/ HandlerExit(p) \/ Crash(p)
      PROVE  UNCHANGED grants
  BY <1>2 DEF Run, SaveFails, Sigint, HandlerExit, Crash, CutShort, server
<1>3. CASE Rekey \/ Tick \/ UNCHANGED vars
  BY <1>3 DEF Rekey, Tick, vars, server
<1> QED BY <1>1, <1>2, <1>3 DEF Next

LEMMA GrantsGrow ==
  ASSUME TypeOK, [Next]_vars
  PROVE  Grown
<1>1. CASE UNCHANGED grants
  BY <1>1, GrantsLength DEF Grown, TypeOK
<1> QED BY <1>1, Issuance, IssueGrows

LEMMA ReturnMem ==
  ASSUME TypeOK, NEW p \in Proc, NEW m, NEW d, NEW r, Return(p, m, d, r), NEW q \in Proc
  PROVE  mem[q]' \in {mem[q], Fresh} \/ (q = p /\ mem[q]' = m)
  BY DEF Return, Exited, TypeOK, LocalType

LEMMA ContinueMem ==
  ASSUME TypeOK, NEW p \in Proc, NEW l, NEW m, NEW d, Continue(p, l, m, d), NEW q \in Proc
  PROVE  mem[q]' = mem[q] \/ (q = p /\ mem[q]' = m)
  BY DEF Continue, TypeOK, LocalType

LEMMA FailMem ==
  ASSUME TypeOK, NEW p \in Proc, Fail(p), NEW q \in Proc
  PROVE  mem[q]' \in {mem[q], Fresh}
  BY ReturnMem DEF Fail

LEMMA ProceedMem ==
  ASSUME TypeOK, NEW p \in Proc, NEW l, Proceed(p, l), NEW q \in Proc
  PROVE  mem[q]' = mem[q]
  BY ContinueMem DEF Proceed

LEMMA WithSame ==
  ASSUME NEW d \in Data
  PROVE  SameTriple(WithKdf(d), d) /\ SameTriple(WithVault(d), d)
  BY DEF SameTriple, WithKdf, WithVault, Data

(* What an invocation holds is what it had, from data.json, or with a KDF   *)
(* block, a vault or a token from the server.                               *)
MemOld(q) ==
  mem[q]' \in {mem[q], Fresh, disk, WithKdf(mem[q]), WithVault(mem[q])}

LEMMA MemOrigin ==
  ASSUME TypeOK, [Next]_vars, NEW q \in Proc
  PROVE  MemOld(q) \/ HoldsNew(q)
<1>s. (mem[q]' \in {mem[q], Fresh, disk}) => MemOld(q)
  BY DEF MemOld
<1>1. ASSUME NEW p \in Proc, Step(p) \/ Answer(p)
      PROVE  MemOld(q) \/ HoldsNew(q)
  <2>k. mem[q]' \in {WithKdf(mem[q]), WithVault(mem[q])} => MemOld(q)
    BY DEF MemOld
  <2>1. CASE Prelogin(p)
    <3>1. CASE Continue(p, "password", WithKdf(mem[p]), TRUE)
      <4>1. mem[q]' \in {mem[q], WithKdf(mem[q])}
        BY <3>1, ContinueMem
      <4> QED BY <4>1, <2>k, <1>s
    <3>2. CASE Fail(p)
      BY <3>2, FailMem, <1>s
    <3> QED BY <2>1, <3>1, <3>2 DEF Prelogin
  <2>2. CASE \E r : Issue(p, r)
    BY <2>2, <1>s DEF Issue
  <2>3. CASE StoreToken(p)
    <3>1. mem[q]' \in {mem[q], Fresh} \/ (q = p /\ mem[q]' = Stored(mem[p], reply[p]))
      <4>1. CASE cmd[p] = "login"
        BY <2>3, <4>1, ReturnMem DEF StoreToken
      <4>2. CASE cmd[p] # "login"
        BY <2>3, <4>2 DEF StoreToken, TypeOK, LocalType
      <4> QED BY <4>1, <4>2
    <3> QED BY <2>3, <3>1, <1>s DEF HoldsNew, StoreToken
  <2>4. CASE SyncGet(p)
    <3>1. mem[q]' \in {mem[q], Fresh} \/ (q = p /\ mem[q]' = WithVault(mem[p]))
      BY <2>4, ReturnMem, FailMem DEF SyncGet, TypeOK, LocalType
    <3> QED BY <3>1, <1>s, <2>k
  <2>5. CASE RefreshKDF(p)
    <3>1. mem[q]' \in {mem[q], Fresh} \/ (q = p /\ mem[q]' = WithKdf(mem[p]))
      <4>1. \/ \E m \in {mem[p], WithKdf(mem[p])}, r \in {"ok", "warn"} : Return(p, m, TRUE, r)
            \/ Fail(p)
        BY <2>5 DEF RefreshKDF
      <4> QED BY <4>1, ReturnMem, FailMem
    <3> QED BY <3>1, <1>s, <2>k
  <2>6. CASE Read(p)
    BY <2>6, <1>s, ReturnMem, FailMem DEF Read
  <2>7. CASE Fail(p) \/ \E l : Proceed(p, l)
    BY <2>7, <1>s, FailMem, ProceedMem
  <2>8. CASE Truncate(p) \/ UNCHANGED mem
    BY <2>8, <1>s DEF Truncate
  <2>9. CASE Write(p)
    BY <2>9, <1>s DEF Write, Exited, TypeOK, LocalType
  <2> QED
    BY <1>1, <2>1, <2>2, <2>3, <2>4, <2>5, <2>6, <2>7, <2>8, <2>9
    DEF Step, Answer, Login, PasswordGrant, PasswordGrant2, ApiGrant, LoseReply, EnsureToken,
        Refresh, RePassword, RePrelogin, Ask, Password, Code, Refused
<1>2. ASSUME NEW p \in Proc, NEW c \in DOMAIN Entry, NEW e \in Env, Run(p, c, e)
      PROVE  MemOld(q)
  BY <1>2, <1>s DEF Run, TypeOK, LocalType
<1>3. ASSUME NEW p \in Proc, SaveFails(p) \/ Sigint(p) \/ HandlerExit(p) \/ Crash(p)
      PROVE  MemOld(q)
  BY <1>3, <1>s DEF SaveFails, Sigint, HandlerExit, Crash, CutShort, Exited, TypeOK, LocalType
<1>4. CASE Rekey \/ Tick \/ UNCHANGED vars
  BY <1>4, <1>s DEF Rekey, Tick, vars
<1> QED BY <1>1, <1>2, <1>3, <1>4 DEF Next

(* The token fields an invocation holds come from where it had them, from   *)
(* data.json, or from the reply it received.                                *)
LEMMA TripleOrigin ==
  ASSUME TypeOK, [Next]_vars, NEW q \in Proc
  PROVE  HoldsOld(q) \/ HoldsNew(q)
<1>1. mem[q] \in Data
  BY DEF TypeOK, LocalType
<1>2. MemOld(q) => HoldsOld(q)
  BY <1>1, WithSame DEF MemOld, HoldsOld, SameTriple
<1> QED BY <1>2, MemOrigin

LEMMA DiskOrigin ==
  ASSUME TypeOK, [Next]_vars
  PROVE  disk' = disk \/ \E p \in Proc : Write(p) /\ disk' = mem[p]
<1>1. ASSUME NEW p \in Proc, Step(p) \/ Answer(p)
      PROVE  disk' = disk \/ (Write(p) /\ disk' = mem[p])
  BY <1>1
  DEF Step, Answer, Login, Prelogin, PasswordGrant, PasswordGrant2, ApiGrant, StoreToken,
      LoseReply, EnsureToken, Refresh, RePassword, RePrelogin, SyncGet, RefreshKDF, Read,
      Truncate, Write, Ask, Password, Code, Refused, Issue, store
<1>2. ASSUME NEW p \in Proc,
             \/ \E c \in DOMAIN Entry, e \in Env : Run(p, c, e)
             \/ SaveFails(p) \/ Sigint(p) \/ HandlerExit(p) \/ Crash(p)
      PROVE  disk' = disk
  BY <1>2 DEF Run, SaveFails, Sigint, HandlerExit, Crash, CutShort, store
<1>3. CASE Rekey \/ Tick \/ UNCHANGED vars
  BY <1>3 DEF Rekey, Tick, vars, store
<1> QED BY <1>1, <1>2, <1>3 DEF Next

-----------------------------------------------------------------------------
(* A step of one invocation leaves the others where they are. *)

Stays(q) ==
  /\ pc[q]' = pc[q] /\ mem[q]' = mem[q] /\ dirty[q]' = dirty[q]
  /\ reply[q]' = reply[q] /\ since[q]' = since[q]
  /\ cmd[q]' = cmd[q] /\ env[q]' = env[q] /\ outcome[q]' = outcome[q]

Own(p) ==
  \/ Step(p) \/ Answer(p)
  \/ \E c \in DOMAIN Entry, e \in Env : Run(p, c, e)
  \/ SaveFails(p) \/ HandlerExit(p) \/ Crash(p)

LEMMA ReturnStays ==
  ASSUME TypeOK, NEW p \in Proc, NEW m, NEW d, NEW r,
         Return(p, m, d, r) \/ Exited(p), NEW q \in Proc \ {p}
  PROVE  Stays(q)
  BY DEF Return, Exited, Goto, Stays, job, TypeOK, LocalType

LEMMA ContinueStays ==
  ASSUME TypeOK, NEW p \in Proc, NEW l, NEW m, NEW d, Continue(p, l, m, d),
         NEW q \in Proc \ {p}
  PROVE  Stays(q)
  BY DEF Continue, Goto, Stays, job, TypeOK, LocalType

LEMMA OthersStay ==
  ASSUME TypeOK, NEW p \in Proc, Own(p), NEW q \in Proc \ {p}
  PROVE  Stays(q)
<1>1. CASE Fail(p) \/ Exited(p)
  BY <1>1, ReturnStays DEF Fail
<1>2. CASE \E l : Proceed(p, l)
  BY <1>2, ContinueStays DEF Proceed
<1>3. CASE \E r : Issue(p, r)
  BY <1>3 DEF Issue, Goto, Stays, job, TypeOK, LocalType
<1>4. CASE Prelogin(p)
  BY <1>1, <1>4, ContinueStays DEF Prelogin
<1>5. CASE StoreToken(p)
  <2>1. CASE cmd[p] = "login"
    BY <1>5, <2>1, ReturnStays DEF StoreToken
  <2>2. CASE cmd[p] # "login"
    BY <1>5, <2>2 DEF StoreToken, Goto, Stays, job, TypeOK, LocalType
  <2> QED BY <2>1, <2>2
<1>6. CASE EnsureToken(p)
  <2>1. CASE since' = [since EXCEPT ![p] = now] /\ Goto(p, "sync")
             /\ UNCHANGED <<job, mem, dirty, reply, outcome>>
    BY <2>1 DEF Goto, Stays, job, TypeOK, LocalType
  <2> QED BY <1>2, <1>6, <2>1 DEF EnsureToken
<1>7. CASE SyncGet(p)
  <2>1. CASE Goto(p, "kdf") /\ since' = [since EXCEPT ![p] = 0]
             /\ mem' = [mem EXCEPT ![p] = WithVault(@)]
             /\ UNCHANGED <<job, dirty, reply, outcome>>
    BY <2>1 DEF Goto, Stays, job, TypeOK, LocalType
  <2> QED BY <1>1, <1>7, <2>1, ReturnStays DEF SyncGet
<1>8. CASE RefreshKDF(p) \/ Read(p)
  BY <1>1, <1>8, ReturnStays DEF RefreshKDF, Read
<1>9. CASE Truncate(p)
  BY <1>9 DEF Truncate, Goto, Stays, job, TypeOK, LocalType
<1>10. CASE \E c \in DOMAIN Entry, e \in Env : Run(p, c, e)
  BY <1>10 DEF Run, Goto, Stays, job, TypeOK, LocalType
<1> QED
  BY <1>1, <1>2, <1>3, <1>4, <1>5, <1>6, <1>7, <1>8, <1>9, <1>10
  DEF Own, Step, Answer, Login, PasswordGrant, PasswordGrant2, ApiGrant, LoseReply, Refresh,
      RePassword, RePrelogin, Ask, Password, Code, Refused, Write, SaveFails, HandlerExit, Crash, CutShort

(* The steps that are no invocation's own. *)
LEMMA OthersAct ==
  ASSUME TypeOK, [Next]_vars, ~ \E p \in Proc : Own(p)
  PROVE  /\ \A q \in Proc : Stays(q)
         /\ UNCHANGED <<store, grants, disturbed>>
         /\ now' = now \/ Tick
<1>1. (\E p \in Proc : Sigint(p)) \/ Rekey \/ Tick \/ UNCHANGED vars
  BY DEF Next, Own
<1> QED BY <1>1 DEF Sigint, Rekey, Tick, vars, job, Stays, server

LEMMA OwnClock ==
  ASSUME NEW p \in Proc, Own(p)
  PROVE  now' = now
  BY DEF Own, Step, Answer, Login, Prelogin, PasswordGrant, PasswordGrant2, ApiGrant,
      StoreToken, LoseReply, EnsureToken, Refresh, RePassword, RePrelogin, SyncGet, RefreshKDF,
      Read, Truncate, Write, Ask, Password, Code, Refused, Issue, Run, SaveFails, HandlerExit,
      Crash, CutShort

-----------------------------------------------------------------------------
(* Where a step can take an invocation, and with what. *)

LEMMA GotoPc ==
  ASSUME TypeOK, NEW p \in Proc, NEW l, Goto(p, l)
  PROVE  pc[p]' = l
  BY DEF Goto, TypeOK, LocalType

LEMMA ReturnPc ==
  ASSUME TypeOK, NEW p \in Proc, NEW m, NEW d, NEW r, Return(p, m, d, r) \/ Exited(p)
  PROVE  pc[p]' \in {"truncate", "idle"}
  BY GotoPc DEF Return, Exited

(* An invocation waits for a response only because it has just asked.       *)
(* It goes to /sync only with a token just stored or just found usable.     *)
StoredOnEntry(p) ==
  pc[p] = "reply" /\ mem[p]' = Stored(mem[p], reply[p]) /\ since[p]' = now
FoundOnEntry(p) ==
  /\ pc[p] = "ensure" /\ mem[p]' = mem[p] /\ since[p]' = now
  /\ Usable(mem[p]) \/ (mem[p].refresh # 0 /\ ~(now > mem[p].expiry))

LEMMA Arrivals ==
  ASSUME TypeOK, NEW p \in Proc, Own(p)
  PROVE  /\ pc[p]' = "reply" => \E r \in 0..MaxGrants : Issue(p, r)
         /\ pc[p]' = "sync" => StoredOnEntry(p) \/ FoundOnEntry(p)
<1> DEFINE Goal == /\ pc[p]' = "reply" => \E r \in 0..MaxGrants : Issue(p, r)
                   /\ pc[p]' = "sync" => StoredOnEntry(p) \/ FoundOnEntry(p)
<1>0. SUFFICES Goal
  OBVIOUS
<1>1. (Fail(p) \/ Exited(p)) => Goal
  BY ReturnPc DEF Fail
<1>2. \A l \in Labels \ {"reply", "sync"} : Proceed(p, l) => Goal
  BY GotoPc DEF Proceed, Continue
<1>3. CASE \E r \in 0..MaxGrants : Issue(p, r)
  BY <1>3, GotoPc DEF Issue
<1>4. CASE Login(p) \/ Ask(p) \/ Password(p) \/ Code(p) \/ RePassword(p) \/ RePrelogin(p)
           \/ LoseReply(p) \/ Refused(p)
  BY <1>1, <1>2, <1>4
  DEF Login, Ask, Password, Code, RePassword, RePrelogin, LoseReply, Refused, Labels, Prompts
<1>5. CASE Prelogin(p)
  BY <1>1, <1>5, GotoPc DEF Prelogin, Continue
<1>6. CASE PasswordGrant(p) \/ PasswordGrant2(p)
  BY <1>1, <1>2, <1>3, <1>6, NextGrant
  DEF PasswordGrant, PasswordGrant2, Refused, Labels, Prompts, TypeOK
<1>7. CASE ApiGrant(p)
  BY <1>1, <1>3, <1>7 DEF ApiGrant, Refused
<1>8. CASE Refresh(p)
  <2>1. mem[p].refresh \in 0..MaxGrants
    BY DEF TypeOK, LocalType, Data
  <2> QED
    BY <1>1, <1>2, <1>3, <1>8, <2>1, NextGrant
    DEF Refresh, Refused, Labels, Prompts, TypeOK
<1>9. CASE StoreToken(p)
  <2>1. CASE cmd[p] = "login"
    BY <1>9, <2>1, ReturnPc DEF StoreToken
  <2>2. CASE cmd[p] # "login"
    <3>1. pc[p]' = "sync" /\ StoredOnEntry(p)
      BY <1>9, <2>2, GotoPc DEF StoreToken, StoredOnEntry, TypeOK, LocalType
    <3> QED BY <3>1
  <2> QED BY <2>1, <2>2
<1>10. CASE EnsureToken(p)
  <2>1. CASE since' = [since EXCEPT ![p] = now] /\ Goto(p, "sync")
             /\ UNCHANGED <<job, mem, dirty, reply, outcome>>
             /\ (Usable(mem[p]) \/ (mem[p].refresh # 0 /\ ~(now > mem[p].expiry)))
    <3>1. pc[p]' = "sync" /\ FoundOnEntry(p)
      BY <1>10, <2>1, GotoPc DEF EnsureToken, FoundOnEntry, TypeOK, LocalType
    <3> QED BY <3>1
  <2> QED BY <1>10, <2>1, <1>2 DEF EnsureToken, Labels
<1>11. CASE SyncGet(p)
  BY <1>1, <1>11, GotoPc, ReturnPc DEF SyncGet
<1>12. CASE RefreshKDF(p) \/ Read(p)
  BY <1>1, <1>12, ReturnPc DEF RefreshKDF, Read
<1>13. CASE Truncate(p) \/ Write(p) \/ SaveFails(p) \/ HandlerExit(p) \/ Crash(p)
  BY <1>1, <1>13, GotoPc DEF Truncate, Write, SaveFails, HandlerExit, Crash, CutShort
<1>14. CASE \E c \in DOMAIN Entry, e \in Env : Run(p, c, e)
  BY <1>14, GotoPc DEF Run, Entry
<1> QED
  BY <1>4, <1>5, <1>6, <1>7, <1>8, <1>9, <1>10, <1>11, <1>12, <1>13, <1>14
  DEF Own, Step, Answer

LEMMA ReplyStep ==
  ASSUME TypeOK, ReplyIssued, [Next]_vars
  PROVE  ReplyIssued'
<1> SUFFICES ASSUME NEW q \in Proc, pc[q]' = "reply"
             PROVE  /\ reply[q]' \in 1..Len(grants')
                    /\ grants'[reply[q]'].expiry <= now' + TTL
                    /\ now' + TTL <= grants'[reply[q]'].expiry + Latency
  BY DEF ReplyIssued
<1>g. Grown /\ Len(grants) \in Nat /\ Len(grants') \in Nat /\ now \in Nat
  BY GrantsGrow, TypeStep, GrantsLength DEF TypeOK, SharedType
<1>1. CASE Own(q)
  <2>1. PICK r \in 0..MaxGrants : Issue(q, r)
    BY <1>1, Arrivals
  <2>2. reply[q]' = Len(grants) + 1
    BY <2>1 DEF Issue, TypeOK, LocalType
  <2>3. Len(grants') = Len(grants) + 1 /\ grants'[Len(grants) + 1].expiry = now + TTL
    BY <2>1, IssueGrows
  <2>4. now' = now
    BY <2>1 DEF Issue
  <2> QED BY <1>g, <2>2, <2>3, <2>4
<1>2. CASE pc[q] = "reply" /\ reply[q]' = reply[q] /\ now' = now
  BY <1>g, <1>2 DEF ReplyIssued, Grown
<1>3. CASE ~ \E p \in Proc : Own(p)
  <2>1. Stays(q) /\ grants' = grants
    BY <1>3, OthersAct
  <2>2. CASE now' = now
    BY <1>2, <2>1, <2>2 DEF Stays
  <2>3. CASE Tick
    <3>1. pc[q] = "reply" /\ reply[q]' = reply[q] /\ now' = now + 1
          /\ now + TTL < grants[reply[q]].expiry + Latency
          /\ grants[reply[q]].expiry <= now + TTL
      BY <2>1, <2>3 DEF Tick, Stays, ReplyIssued
    <3>2. reply[q] \in 1..Len(grants) /\ grants[reply[q]].expiry \in Int
      <4>1. reply[q] \in 1..Len(grants)
        BY <3>1 DEF ReplyIssued
      <4>2. grants[reply[q]] \in Grant
        BY <4>1, LenProperties DEF TypeOK, SharedType
      <4> QED BY <4>1, <4>2 DEF Grant
    <3> QED BY <1>g, <2>1, <3>1, <3>2
  <2> QED BY <1>3, <2>2, <2>3, OthersAct
<1> QED BY <1>1, <1>2, <1>3, OthersStay, OwnClock DEF Stays

-----------------------------------------------------------------------------
(* The token fields stay of one grant. *)

LEMMA CoherentGrows ==
  ASSUME TypeOK, Grown, NEW d \in Data, Coherent(d), Len(grants') \in Nat
  PROVE  Coherent(d)'
  BY GrantsLength DEF Coherent, Grown, TypeOK

LEMMA CoherentSame ==
  ASSUME NEW d, NEW e, SameTriple(e, d), Coherent(d)
  PROVE  Coherent(e)
  BY DEF Coherent, SameTriple

LEMMA CoherentStored ==
  ASSUME TypeOK, ReplyIssued, NEW p \in Proc, pc[p] = "reply"
  PROVE  Coherent(Stored(mem[p], reply[p]))
<1> DEFINE n == reply[p]
<1>1. n \in 1..Len(grants) /\ now + TTL <= grants[n].expiry + Latency
      /\ grants[n].expiry <= now + TTL
  BY DEF ReplyIssued
<1>2. Stored(mem[p], n).token = n /\ Stored(mem[p], n).refresh = grants[n].refresh
      /\ Stored(mem[p], n).expiry = now + TTL
  BY DEF Stored, TypeOK, LocalType, Data
<1>3. grants[n] \in Grant /\ now \in Nat /\ Len(grants) \in Nat
  BY <1>1, LenProperties DEF TypeOK, SharedType
<1>4. grants[n].expiry \in Int
  BY <1>3 DEF Grant
<1> HIDE DEF n
<1> QED BY <1>1, <1>2, <1>3, <1>4 DEF Coherent, n

LEMMA CoherentStep ==
  ASSUME TypeOK, ReplyIssued, TokenTripleCoherent, [Next]_vars
  PROVE  TokenTripleCoherent'
<1>t. Grown /\ TypeOK' /\ Len(grants') \in Nat
  BY TypeStep, GrantsGrow, GrantsLength DEF TypeOK, SharedType
<1>0. Coherent(Fresh) /\ Fresh \in Data
  BY FreshType, GrantsLength DEF Coherent, Fresh, TypeOK
<1>1. ASSUME NEW q \in Proc PROVE Coherent(mem[q])'
  <2>1. mem[q] \in Data /\ disk \in Data /\ mem[q]' \in Data
    BY <1>t DEF TypeOK, SharedType, LocalType
  <2>2. Coherent(mem[q]')
    <3>1. CASE HoldsOld(q)
      BY <1>0, <3>1, CoherentSame DEF HoldsOld, TokenTripleCoherent
    <3>2. CASE HoldsNew(q)
      BY <3>2, CoherentStored DEF HoldsNew
    <3> QED BY <3>1, <3>2, TripleOrigin
  <2> QED BY <1>t, <2>1, <2>2, GrantsLength DEF Coherent, Grown, TypeOK
<1>2. Coherent(disk)'
  <2>1. CASE disk' = disk
    BY <1>t, <2>1, GrantsLength DEF Coherent, Grown, TypeOK, TokenTripleCoherent
  <2>2. CASE \E p \in Proc : Write(p) /\ disk' = mem[p]
    BY <1>t, <2>2, GrantsLength DEF Coherent, Grown, TypeOK, TokenTripleCoherent
  <2> QED BY <2>1, <2>2, DiskOrigin
<1> QED BY <1>1, <1>2 DEF TokenTripleCoherent

(* The token of an invocation at /sync has been vetted. *)
LEMMA BearerStep ==
  ASSUME TypeOK, ReplyIssued, TokenTripleCoherent, FreshBearer, [Next]_vars
  PROVE  FreshBearer'
<1> SUFFICES ASSUME NEW q \in Proc, pc[q]' = "sync"
             PROVE  /\ mem[q].token' # 0
                    /\ since[q]' <= grants'[mem[q].token'].expiry + Latency
  BY DEF FreshBearer, Bearer
<1>g. Grown /\ Len(grants) \in Nat /\ now \in Nat /\ mem[q] \in Data /\ Coherent(mem[q])
  BY GrantsGrow, GrantsLength DEF TypeOK, SharedType, LocalType, TokenTripleCoherent
<1>e. ASSUME NEW n \in 1..Len(grants) PROVE grants[n].expiry \in Int /\ grants'[n] = grants[n]
  <2>1. grants[n] \in Grant
    BY LenProperties DEF TypeOK, SharedType
  <2> QED BY <1>g, <2>1 DEF Grant, Grown
<1>1. CASE Stays(q)
  <2>1. mem[q].token \in 1..Len(grants)
    BY <1>1, <1>g DEF Stays, FreshBearer, Bearer, Coherent
  <2> QED BY <1>1, <1>e, <2>1 DEF Stays, FreshBearer, Bearer
<1>2. CASE StoredOnEntry(q)
  <2>1. mem[q].token' = reply[q] /\ since[q]' = now
    BY <1>2, <1>g DEF StoredOnEntry, Stored, Data
  <2>2. reply[q] \in 1..Len(grants) /\ now + TTL <= grants[reply[q]].expiry + Latency
    BY <1>2 DEF StoredOnEntry, ReplyIssued
  <2> QED BY <1>e, <1>g, <2>1, <2>2
<1>3. CASE FoundOnEntry(q)
  <2>1. mem[q].token \in 1..Len(grants) /\ now <= mem[q].expiry /\ mem[q].expiry \in Int
    BY <1>3, <1>g DEF FoundOnEntry, Usable, Coherent, Data
  <2>2. mem[q].expiry <= grants[mem[q].token].expiry + Latency
    BY <1>g, <2>1 DEF Coherent
  <2> QED BY <1>3, <1>e, <1>g, <2>1, <2>2 DEF FoundOnEntry
<1> QED BY <1>1, <1>2, <1>3, Arrivals, OthersStay, OthersAct

-----------------------------------------------------------------------------
(* While nothing disturbs it, the newest token is on disk, or with the one  *)
(* invocation that is running, which will then save it.                     *)

OnDisk == file # "torn" /\ disk.token = Len(grants)

Kept(p) ==
  /\ pc[p] = "reply" => reply[p] = Len(grants) /\ disk.token # Len(grants)
  /\ pc[p] # "reply" => mem[p].token = Len(grants) /\ (~dirty[p] => OnDisk)
  /\ Loses(p) \/ OnDisk

SaveMeansDirty == \A p \in Proc : pc[p] \in {"truncate", "write"} => dirty[p]

LastKept ==
  ~disturbed =>
    /\ \A p, q \in Proc : pc[p] # "idle" /\ pc[q] # "idle" => p = q
    /\ \A p \in Proc : pc[p] # "idle" => Kept(p)
    /\ (\A p \in Proc : pc[p] = "idle") => OnDisk

(* The refresh token issued last is one the server accepts, or it has ended *)
(* all sessions.                                                            *)
NewestLive ==
  Len(grants) # 0 /\ grants[Len(grants)].refresh # 0 =>
    grants[Len(grants)].refresh \in live \/ live = {}

LEMMA DirtyStep ==
  ASSUME TypeOK, SaveMeansDirty, [Next]_vars
  PROVE  SaveMeansDirty'
<1> SUFFICES ASSUME NEW q \in Proc, pc[q]' \in {"truncate", "write"}
             PROVE  dirty[q]'
  BY DEF SaveMeansDirty
<1>1. CASE Stays(q)
  BY <1>1 DEF Stays, SaveMeansDirty
<1>2. CASE Own(q)
  <2>1. ASSUME NEW m, NEW d \in BOOLEAN, NEW r, Return(q, m, d, r) PROVE dirty[q]'
    BY <2>1, GotoPc DEF Return, Exited, SavesAfter, TypeOK, LocalType
  <2>2. dirty[q] \in BOOLEAN
    BY DEF TypeOK, LocalType
  <2>3. ASSUME Exited(q) PROVE FALSE
    BY <2>3, GotoPc DEF Exited
  <2>4. ASSUME Fail(q) PROVE dirty[q]'
    BY <2>1, <2>2, <2>4 DEF Fail
  <2>5. ASSUME NEW l \in Labels \ {"truncate", "write"}, Goto(q, l) PROVE FALSE
    BY <2>5, GotoPc
  <2>6. \A l \in Labels \ {"truncate", "write"} : ~ Proceed(q, l)
    BY <2>5 DEF Proceed, Continue
  <2>7. \A r : ~ Issue(q, r)
    BY <2>5 DEF Issue, Labels
  <2>8. CASE Login(q) \/ Ask(q) \/ Password(q) \/ Code(q) \/ RePassword(q) \/ RePrelogin(q)
             \/ LoseReply(q) \/ PasswordGrant(q) \/ PasswordGrant2(q) \/ ApiGrant(q) \/ Refresh(q)
    BY <2>4, <2>6, <2>7, <2>8
    DEF Login, Ask, Password, Code, RePassword, RePrelogin, LoseReply, PasswordGrant,
        PasswordGrant2, ApiGrant, Refresh, Refused, Labels, Prompts
  <2>9. CASE Prelogin(q) \/ EnsureToken(q)
    BY <2>4, <2>5, <2>6, <2>9 DEF Prelogin, EnsureToken, Continue, Labels, Prompts
  <2>10. CASE StoreToken(q) \/ SyncGet(q) \/ RefreshKDF(q) \/ Read(q)
    BY <2>1, <2>2, <2>4, <2>5, <2>10 DEF StoreToken, SyncGet, RefreshKDF, Read, Labels
  <2>11. CASE Truncate(q)
    BY <2>11 DEF Truncate, SaveMeansDirty
  <2>12. CASE Write(q) \/ SaveFails(q) \/ HandlerExit(q) \/ Crash(q)
    BY <2>3, <2>12 DEF Write, SaveFails, HandlerExit, Crash, CutShort
  <2>13. CASE \E c \in DOMAIN Entry, e \in Env : Run(q, c, e)
    BY <2>5, <2>13 DEF Run, Entry, Labels
  <2> QED
    BY <1>2, <2>8, <2>9, <2>10, <2>11, <2>12, <2>13 DEF Own, Step, Answer
<1> QED BY <1>1, <1>2, OthersStay, OthersAct

(* The conjuncts of LastKept after a step of p, the only one running.       *)
LEMMA KeptByOne ==
  ASSUME TypeOK, NEW p \in Proc,
         \A q \in Proc \ {p} : pc[q] = "idle" /\ Stays(q),
         pc[p]' # "idle" => Kept(p)',
         pc[p]' = "idle" => OnDisk'
  PROVE  LastKept'
  BY DEF LastKept, Stays

(* What an invocation must hold for its token to count as kept. *)
Holds(m, d) ==
  m.token = Len(grants) /\ (OnDisk \/ (d /\ m.token # disk.token))

LEMMA ReturnKept ==
  ASSUME TypeOK, LastKept, ~disturbed, NEW p \in Proc, pc[p] # "idle",
         NEW m, NEW d \in BOOLEAN, NEW r, Return(p, m, d, r), Holds(m, d),
         UNCHANGED <<store, grants>>
  PROVE  LastKept'
<1>1. \A q \in Proc \ {p} : pc[q] = "idle" /\ Stays(q)
  BY ReturnStays DEF LastKept
<1>2. CASE d
  <2>1. pc[p]' = "truncate" /\ mem[p]' = m /\ dirty[p]'
    BY <1>2, GotoPc DEF Return, SavesAfter, TypeOK, LocalType
  <2> QED BY <1>1, <2>1, KeptByOne DEF Kept, Holds, Loses, OnDisk, store
<1>3. CASE ~d
  <2>1. pc[p]' = "idle"
    BY <1>3, GotoPc DEF Return, SavesAfter, Exited
  <2> QED BY <1>1, <1>3, <2>1, KeptByOne DEF Holds, OnDisk, store
<1> QED BY <1>2, <1>3

LEMMA ContinueKept ==
  ASSUME TypeOK, LastKept, ~disturbed, NEW p \in Proc, pc[p] # "idle",
         NEW l \in Labels \ {"idle", "reply"}, NEW m, NEW d \in BOOLEAN,
         pc[p]' = l, mem[p]' = m, dirty[p]' = d, \A q \in Proc \ {p} : Stays(q), Holds(m, d),
         UNCHANGED <<store, grants>>
  PROVE  LastKept'
<1>1. \A q \in Proc \ {p} : pc[q] = "idle" /\ Stays(q)
  BY DEF LastKept
<1>2. Kept(p)'
  BY DEF Kept, Holds, Loses, OnDisk, store
<1> QED BY <1>1, <1>2, KeptByOne

LEMMA IssueKept ==
  ASSUME TypeOK, TokenTripleCoherent, NEW p \in Proc, NEW r \in 0..MaxGrants, Issue(p, r),
         ~disturbed'
  PROVE  LastKept'
<1>1. \A q \in Proc \ {p} : pc[q] = "idle" /\ Stays(q)
  BY DEF Issue, Alone, Goto, Stays, job, TypeOK, LocalType
<1>2. pc[p]' = "reply" /\ reply[p]' = Len(grants')
  BY IssueGrows, GotoPc DEF Issue, TypeOK, LocalType
<1>3. disk' = disk /\ disk.token # Len(grants')
  BY IssueGrows, GrantsLength DEF Issue, store, TokenTripleCoherent, Coherent, TypeOK
<1> QED BY <1>1, <1>2, <1>3, KeptByOne DEF Kept, Loses

LEMMA KeptStep ==
  ASSUME TypeOK, TokenTripleCoherent, SaveMeansDirty, LastKept, [Next]_vars
  PROVE  LastKept'
<1> SUFFICES ASSUME ~disturbed' PROVE LastKept'
  BY DEF LastKept
<1>1. CASE \E p \in Proc, r \in 0..MaxGrants : Issue(p, r)
  BY <1>1, IssueKept
<1>2. CASE ~ \E p \in Proc : Own(p)
  BY <1>2, OthersAct DEF LastKept, Stays, Kept, Loses, OnDisk, store
<1>3. ASSUME UNCHANGED grants, NEW p \in Proc, Own(p), ~ \E r \in 0..MaxGrants : Issue(p, r)
      PROVE  LastKept'
  <2>o. \A q \in Proc \ {p} : Stays(q)
    BY <1>3, OthersStay
  <2>1. CASE \E c \in DOMAIN Entry, e \in Env : Run(p, c, e)
    <3>1. /\ \A q \in Proc : pc[q] = "idle"
          /\ mem[p]' = disk /\ UNCHANGED store /\ pc[p]' \in {"login", "ensure", "read"}
          /\ OnDisk
      <4>1. (\A q \in Proc : pc[q] = "idle") /\ ~disturbed /\ file # "torn" /\ UNCHANGED store
        BY <2>1 DEF Run, Alone, Loads
      <4>2. mem[p]' = disk
        BY <2>1 DEF Run, TypeOK, LocalType
      <4>3. pc[p]' \in {"login", "ensure", "read"}
        BY <2>1, GotoPc DEF Run, Entry
      <4> QED BY <4>1, <4>2, <4>3 DEF LastKept
    <3>2. Kept(p)'
      BY <1>3, <3>1 DEF Kept, OnDisk, store
    <3> QED BY <2>o, <3>1, <3>2, KeptByOne
  <2>2. CASE SaveFails(p) \/ HandlerExit(p) \/ Crash(p) \/ LoseReply(p)
    <3>1. CASE LoseReply(p)
      BY <3>1 DEF LoseReply
    <3>2. CASE SaveFails(p) \/ HandlerExit(p) \/ Crash(p)
      <4>1. pc[p] # "idle" /\ CutShort(p) /\ UNCHANGED store
        BY <3>2 DEF SaveFails, HandlerExit, Crash
      <4>2. ~disturbed /\ ~Loses(p) /\ pc[p]' = "idle"
        BY <4>1, GotoPc DEF CutShort, Exited
      <4>3. OnDisk /\ \A q \in Proc \ {p} : pc[q] = "idle" /\ Stays(q)
        BY <2>o, <4>1, <4>2 DEF LastKept, Kept
      <4> QED BY <1>3, <4>1, <4>2, <4>3, KeptByOne DEF OnDisk, store
    <3> QED BY <2>2, <3>1, <3>2
  <2>3. CASE pc[p] # "idle" /\ ~disturbed
    <3>d. mem[p] \in Data /\ dirty[p] \in BOOLEAN /\ Kept(p)
      BY <2>3 DEF TypeOK, LocalType, LastKept
    <3>h. pc[p] \notin {"reply", "write"} => Holds(mem[p], dirty[p])
      BY <3>d DEF Kept, Holds, Loses
    <3>k. /\ WithKdf(mem[p]).token = mem[p].token
          /\ WithVault(mem[p]).token = mem[p].token
      BY <3>d DEF WithKdf, WithVault, Data
    <3>f. ASSUME Fail(p), pc[p] \notin {"reply", "write"}, UNCHANGED store PROVE LastKept'
      BY <1>3, <2>3, <3>d, <3>f, <3>h, ReturnKept DEF Fail
    <3>c. ASSUME NEW l \in Labels \ {"idle", "reply"}, NEW m, NEW d \in BOOLEAN,
                 Continue(p, l, m, d), Holds(m, d), UNCHANGED store
          PROVE  LastKept'
      BY <1>3, <2>3, <2>o, <3>c, ContinueKept, GotoPc DEF Continue, TypeOK, LocalType
    <3>p. ASSUME NEW l \in Labels \ {"idle", "reply"}, Proceed(p, l), pc[p] \notin {"reply", "write"},
                 UNCHANGED store
          PROVE  LastKept'
      BY <3>c, <3>d, <3>h, <3>p DEF Proceed
    <3>1. CASE Login(p) \/ Ask(p) \/ Password(p) \/ Code(p) \/ RePassword(p) \/ RePrelogin(p)
               \/ PasswordGrant(p) \/ PasswordGrant2(p) \/ ApiGrant(p) \/ Refresh(p)
      <4>1. Fail(p) \/ (\E l \in Labels \ {"idle", "reply"} : Proceed(p, l))
            \/ (\E r \in 0..MaxGrants : Issue(p, r))
        <5>1. CASE Refresh(p)
          <6>1. mem[p].refresh \in 0..MaxGrants
            BY <3>d DEF Data
          <6> QED BY <5>1, <6>1, NextGrant DEF Refresh, Refused, Labels, Prompts, TypeOK
        <5>2. CASE PasswordGrant(p) \/ PasswordGrant2(p) \/ ApiGrant(p)
          BY <5>2, NextGrant
          DEF PasswordGrant, PasswordGrant2, ApiGrant, Refused, Labels, Prompts, TypeOK
        <5> QED
          BY <3>1, <5>1, <5>2
          DEF Login, Ask, Password, Code, RePassword, RePrelogin, Labels, Prompts
      <4>2. UNCHANGED store /\ pc[p] \notin {"reply", "write"}
        BY <3>1
        DEF Login, Ask, Password, Code, RePassword, RePrelogin, PasswordGrant,
            PasswordGrant2, ApiGrant, Refresh, Refused, Issue
      <4> QED BY <1>3, <3>f, <3>p, <4>1, <4>2
    <3>2. CASE Prelogin(p)
      <4>1. Holds(WithKdf(mem[p]), TRUE) /\ "password" \in Labels \ {"idle", "reply"}
        BY <3>2, <3>h, <3>k DEF Holds, Prelogin, Labels, Prompts
      <4>2. UNCHANGED store /\ pc[p] \notin {"reply", "write"}
        BY <3>2 DEF Prelogin
      <4> QED BY <3>2, <3>c, <3>f, <4>1, <4>2 DEF Prelogin
    <3>3. CASE StoreToken(p)
      <4>1. Holds(Stored(mem[p], reply[p]), TRUE)
        BY <3>3, <3>d DEF StoreToken, Kept, Holds, Stored, Data
      <4>2. UNCHANGED store
        BY <3>3 DEF StoreToken
      <4>3. CASE cmd[p] = "login"
        BY <1>3, <2>3, <3>3, <4>1, <4>2, <4>3, ReturnKept DEF StoreToken
      <4>4. CASE cmd[p] # "login"
        <5>1. pc[p]' = "sync" /\ mem[p]' = Stored(mem[p], reply[p]) /\ dirty[p]' = TRUE
          BY <3>3, <4>4, GotoPc DEF StoreToken, TypeOK, LocalType
        <5>2. "sync" \in Labels \ {"idle", "reply"}
          BY DEF Labels
        <5> QED BY <1>3, <2>3, <2>o, <4>1, <4>2, <5>1, <5>2, ContinueKept
      <4> QED BY <4>3, <4>4
    <3>4. CASE EnsureToken(p)
      <4>1. UNCHANGED store /\ pc[p] \notin {"reply", "write"} /\ {"sync", "login", "refresh"} \subseteq Labels
        BY <3>4 DEF EnsureToken, Labels
      <4>2. CASE Goto(p, "sync") /\ UNCHANGED <<job, mem, dirty, reply, outcome>>
        <5>1. pc[p]' = "sync" /\ mem[p]' = mem[p] /\ dirty[p]' = dirty[p]
          BY <4>2, GotoPc
        <5> QED BY <1>3, <2>3, <2>o, <3>d, <3>h, <4>1, <5>1, ContinueKept
      <4> QED BY <3>4, <3>p, <4>1, <4>2 DEF EnsureToken
    <3>5. CASE SyncGet(p)
      <4>1. UNCHANGED store /\ pc[p] \notin {"reply", "write"} /\ "kdf" \in Labels
        BY <3>5 DEF SyncGet, Labels
      <4>2. Holds(WithVault(mem[p]), dirty[p])
        BY <3>h, <3>k, <4>1 DEF Holds
      <4>3. CASE Goto(p, "kdf") /\ mem' = [mem EXCEPT ![p] = WithVault(@)]
                 /\ UNCHANGED <<job, dirty, reply, outcome>>
        <5>1. pc[p]' = "kdf" /\ mem[p]' = WithVault(mem[p]) /\ dirty[p]' = dirty[p]
          BY <4>3, GotoPc DEF TypeOK, LocalType
        <5> QED BY <1>3, <2>3, <2>o, <3>d, <4>1, <4>2, <5>1, ContinueKept
      <4>4. CASE Return(p, WithVault(mem[p]), dirty[p], "err")
        BY <1>3, <2>3, <3>d, <4>1, <4>2, <4>4, ReturnKept
      <4> QED BY <3>5, <3>f, <4>1, <4>3, <4>4 DEF SyncGet
    <3>6. CASE RefreshKDF(p) \/ Read(p)
      <4>1. UNCHANGED store /\ pc[p] \notin {"reply", "write"}
        BY <3>6 DEF RefreshKDF, Read
      <4>2. /\ Holds(mem[p], dirty[p]) /\ Holds(mem[p], TRUE)
            /\ Holds(WithKdf(mem[p]), TRUE)
        BY <3>h, <3>k, <4>1 DEF Holds
      <4> QED BY <1>3, <2>3, <3>6, <3>d, <3>f, <4>1, <4>2, ReturnKept DEF RefreshKDF, Read
    <3>7. CASE Truncate(p)
      <4>1. pc[p]' = "write" /\ mem[p]' = mem[p] /\ dirty[p]'
        BY <3>7, GotoPc DEF Truncate, SaveMeansDirty
      <4>2. mem[p].token = Len(grants)
        BY <3>7, <3>d DEF Truncate, Kept
      <4>3. Kept(p)'
        BY <1>3, <4>1, <4>2 DEF Kept, Loses
      <4>4. \A q \in Proc \ {p} : pc[q] = "idle" /\ Stays(q)
        BY <2>3, <2>o DEF LastKept
      <4> QED BY <4>1, <4>3, <4>4, KeptByOne
    <3>8. CASE Write(p)
      <4>1. pc[p]' = "idle" /\ file' = "ok" /\ disk' = mem[p]
        BY <3>8, GotoPc DEF Write, Exited
      <4>2. mem[p].token = Len(grants)
        BY <3>8, <3>d DEF Write, Kept
      <4>3. \A q \in Proc \ {p} : pc[q] = "idle" /\ Stays(q)
        BY <2>3, <2>o DEF LastKept
      <4> QED BY <1>3, <4>1, <4>2, <4>3, KeptByOne DEF OnDisk
    <3> QED
      BY <1>3, <2>1, <2>2, <3>1, <3>2, <3>3, <3>4, <3>5, <3>6, <3>7, <3>8
      DEF Own, Step, Answer
  <2>4. ASSUME Step(p) \/ Answer(p), ~LoseReply(p)
        PROVE  pc[p] # "idle" /\ ~disturbed
    <3>1. CASE PasswordGrant(p) \/ PasswordGrant2(p)
      BY <1>3, <3>1, NextGrant DEF PasswordGrant, PasswordGrant2, Refused, TypeOK
    <3>2. CASE ApiGrant(p)
      BY <1>3, <3>2 DEF ApiGrant, Refused
    <3>3. CASE Refresh(p)
      <4>1. mem[p].refresh \in 0..MaxGrants
        BY DEF TypeOK, LocalType, Data
      <4> QED BY <1>3, <3>3, <4>1, NextGrant DEF Refresh, Refused, TypeOK
    <3>4. CASE Login(p) \/ Prelogin(p) \/ StoreToken(p) \/ EnsureToken(p) \/ RePassword(p)
               \/ RePrelogin(p) \/ Ask(p) \/ Password(p) \/ Code(p) \/ SyncGet(p)
               \/ RefreshKDF(p) \/ Read(p) \/ Truncate(p) \/ Write(p)
      <4>1. pc[p] # "idle"
        BY <3>4
        DEF Login, Prelogin, StoreToken, EnsureToken, RePassword, RePrelogin, Ask, Password,
            Code, SyncGet, RefreshKDF, Read, Truncate, Write
      <4>2. disturbed' = disturbed
        BY <3>4
        DEF Login, Prelogin, StoreToken, EnsureToken, RePassword, RePrelogin, Ask, Password,
            Code, SyncGet, RefreshKDF, Read, Truncate, Write
      <4> QED BY <4>1, <4>2
    <3> QED BY <2>4, <3>1, <3>2, <3>3, <3>4 DEF Step, Answer
  <2> QED BY <1>3, <2>1, <2>2, <2>3, <2>4 DEF Own
<1> QED BY <1>1, <1>2, <1>3, Issuance

(* Only the grants and the end of all sessions change what is accepted, and *)
(* the one token that a rotation withdraws is not the newest.               *)
LEMMA LiveStep ==
  ASSUME TypeOK, NewestLive, [Next]_vars
  PROVE  NewestLive'
<1>g. Len(grants) \in Nat /\ grants \in Seq(Grant)
  BY GrantsLength DEF TypeOK, SharedType
<1>i. ASSUME NEW p \in Proc, NEW r \in 0..MaxGrants, Issue(p, r)
      PROVE  Len(grants') = Len(grants) + 1 /\ grants'[Len(grants')].refresh = r
  <2>1. [expiry |-> now + TTL, refresh |-> r] \in Grant
    BY DEF TypeOK, SharedType, Grant
  <2> QED BY <1>g, <1>i, <2>1, AppendProperties DEF Issue
<1>1. ASSUME NEW p \in Proc, PasswordGrant(p) \/ PasswordGrant2(p)
      PROVE  NewestLive'
  <2>1. CASE Issue(p, Len(grants) + 1) /\ live' = live \cup {Len(grants) + 1}
    BY <1>i, <2>1, NextGrant DEF NewestLive, TypeOK
  <2>2. CASE UNCHANGED server
    BY <2>2 DEF NewestLive, server
  <2> QED BY <1>1, <2>1, <2>2 DEF PasswordGrant, PasswordGrant2, Refused, server
<1>2. ASSUME NEW p \in Proc, ApiGrant(p)
      PROVE  NewestLive'
  <2>1. CASE Issue(p, 0)
    BY <1>i, <2>1 DEF NewestLive, TypeOK, SharedType
  <2> QED BY <1>2, <2>1 DEF ApiGrant, Refused, NewestLive, server
<1>3. ASSUME NEW p \in Proc, Refresh(p)
      PROVE  NewestLive'
  <2>0. mem[p].refresh \in 0..MaxGrants
    BY DEF TypeOK, LocalType, Data
  <2>1. CASE Issue(p, mem[p].refresh) /\ mem[p].refresh \in live /\ UNCHANGED live
    BY <1>i, <2>0, <2>1 DEF NewestLive
  <2>2. CASE Issue(p, 0)
    BY <1>i, <2>0, <2>2 DEF NewestLive
  <2>3. CASE Issue(p, Len(grants) + 1)
             /\ live' = (live \ {mem[p].refresh}) \cup {Len(grants) + 1}
    BY <1>i, <2>3, NextGrant DEF NewestLive, TypeOK
  <2>4. CASE UNCHANGED server
    BY <2>4 DEF NewestLive, server
  <2> QED BY <1>3, <2>1, <2>2, <2>3, <2>4 DEF Refresh, Refused, server
<1>4. CASE Rekey
  BY <1>4 DEF Rekey, NewestLive
<1>5. CASE UNCHANGED <<grants, live>>
  BY <1>5 DEF NewestLive
<1>6. ASSUME NEW p \in Proc, Step(p) \/ Answer(p)
      PROVE  NewestLive'
  BY <1>1, <1>2, <1>3, <1>5, <1>6
  DEF Step, Answer, Login, Prelogin, StoreToken, LoseReply, EnsureToken, RePrelogin,
      SyncGet, RefreshKDF, Truncate, Write, RePassword, Read, Ask, Password, Code, server
<1>7. ASSUME NEW p \in Proc,
             \/ \E c \in DOMAIN Entry, e \in Env : Run(p, c, e)
             \/ SaveFails(p) \/ Sigint(p) \/ HandlerExit(p) \/ Crash(p)
      PROVE  UNCHANGED <<grants, live>>
  BY <1>7 DEF Run, SaveFails, Sigint, HandlerExit, Crash, server
<1>8. Tick \/ UNCHANGED vars => UNCHANGED <<grants, live>>
  BY DEF Tick, vars, server
<1> QED BY <1>4, <1>5, <1>6, <1>7, <1>8 DEF Next

-----------------------------------------------------------------------------
(* No vault is newer than the account, and a sync that ended well has a KDF *)
(* block of the same epoch as its vault.                                    *)

Epochs == disk.blob <= srvEpoch /\ \A p \in Proc : mem[p].blob <= srvEpoch

LEMMA OwnEpoch ==
  ASSUME NEW p \in Proc, Own(p)
  PROVE  srvEpoch' = srvEpoch
  BY DEF Own, Step, Answer, Login, Prelogin, PasswordGrant, PasswordGrant2, ApiGrant,
      StoreToken, LoseReply, EnsureToken, Refresh, RePassword, RePrelogin, SyncGet, RefreshKDF,
      Read, Truncate, Write, Ask, Password, Code, Refused, Issue, Run, SaveFails, HandlerExit,
      Crash, CutShort, server

LEMMA EpochMoves ==
  ASSUME TypeOK, [Next]_vars
  PROVE  /\ srvEpoch' = srvEpoch \/ srvEpoch' = srvEpoch + 1
         /\ srvEpoch' # srvEpoch => ~ \E p \in Proc : Own(p)
<1>1. CASE \E p \in Proc : Own(p)
  BY <1>1, OwnEpoch
<1>2. CASE ~ \E p \in Proc : Own(p)
  <2>1. (\E p \in Proc : Sigint(p)) \/ Rekey \/ Tick \/ UNCHANGED vars
    BY <1>2 DEF Next, Own
  <2> QED BY <1>2, <2>1 DEF Sigint, Rekey, Tick, vars, server
<1> QED BY <1>1, <1>2

LEMMA EpochsStep ==
  ASSUME TypeOK, Epochs, [Next]_vars
  PROVE  Epochs'
<1>1. srvEpoch \in Nat /\ srvEpoch' \in Nat /\ srvEpoch <= srvEpoch'
  BY EpochMoves DEF TypeOK, SharedType
<1>2. ASSUME NEW q \in Proc  PROVE mem[q]'.blob <= srvEpoch'
  <2>1. /\ mem[q] \in Data /\ disk \in Data /\ mem[q].blob \in Nat /\ disk.blob \in Nat
        /\ mem[q].blob <= srvEpoch /\ disk.blob <= srvEpoch
    BY DEF TypeOK, SharedType, LocalType, Data, Epochs
  <2>2. CASE MemOld(q)
    <3>1. mem[q]'.blob \in {mem[q].blob, 0, disk.blob, srvEpoch}
      BY <2>1, <2>2 DEF MemOld, WithKdf, WithVault, Fresh, Data
    <3> QED BY <1>1, <2>1, <3>1
  <2>3. CASE HoldsNew(q)
    <3>1. mem[q]'.blob = mem[q].blob
      BY <2>1, <2>3 DEF HoldsNew, Stored, Data
    <3> QED BY <1>1, <2>1, <3>1
  <2> QED BY <2>2, <2>3, MemOrigin
<1>3. disk'.blob <= srvEpoch'
  <2>1. /\ disk.blob \in Nat /\ disk.blob <= srvEpoch
        /\ \A p \in Proc : mem[p].blob \in Nat /\ mem[p].blob <= srvEpoch
    BY DEF TypeOK, SharedType, LocalType, Data, Epochs
  <2>2. disk'.blob = disk.blob \/ \E p \in Proc : disk'.blob = mem[p].blob
    BY DiskOrigin
  <2> QED BY <1>1, <2>1, <2>2
<1> QED BY <1>2, <1>3 DEF Epochs

LEMMA SyncTruthStep ==
  ASSUME TypeOK, Epochs, SyncTruth, [Next]_vars
  PROVE  SyncTruth'
<1> SUFFICES ASSUME NEW q \in Proc, pc[q]' \in {"truncate", "write"}, outcome[q]' = "ok",
                    cmd[q]' = "sync", HasEmail(q)', mem[q]'.blob = srvEpoch'
             PROVE  mem[q]'.kdf = srvEpoch'
  BY DEF SyncTruth
<1>0. srvEpoch \in Nat /\ mem[q] \in Data
  BY DEF TypeOK, SharedType, LocalType
<1>1. CASE Stays(q)
  <2>1. CASE srvEpoch' = srvEpoch
    BY <1>1, <2>1 DEF Stays, SyncTruth, HasEmail
  <2>2. CASE srvEpoch' # srvEpoch
    <3>1. srvEpoch' = srvEpoch + 1 /\ mem[q]'.blob <= srvEpoch
      BY <1>1, <2>2, EpochMoves DEF Stays, Epochs
    <3> QED BY <1>0, <3>1
  <2> QED BY <2>1, <2>2
<1>2. CASE Own(q)
  <2>0. srvEpoch' = srvEpoch
    BY <1>2, OwnEpoch
  <2>1. ASSUME NEW m, NEW d \in BOOLEAN, NEW r, Return(q, m, d, r)
        PROVE  /\ r = "ok" /\ mem[q]' = m
               /\ cmd[q]' = cmd[q] /\ env[q]' = env[q]
    BY <2>1, GotoPc DEF Return, Exited, SavesAfter, job, TypeOK, LocalType
  <2>2. dirty[q] \in BOOLEAN
    BY DEF TypeOK, LocalType
  <2>3. ASSUME Exited(q) PROVE FALSE
    BY <2>3, GotoPc DEF Exited
  <2>4. ASSUME Fail(q) PROVE FALSE
    BY <2>1, <2>2, <2>4 DEF Fail
  <2>5. ASSUME NEW l \in Labels \ {"truncate", "write"}, Goto(q, l) PROVE FALSE
    BY <2>5, GotoPc
  <2>6. \A l \in Labels \ {"truncate", "write"} : ~ Proceed(q, l)
    BY <2>5 DEF Proceed, Continue
  <2>7. \A r : ~ Issue(q, r)
    BY <2>5 DEF Issue, Labels
  <2>8. CASE Login(q) \/ Ask(q) \/ Password(q) \/ Code(q) \/ RePassword(q) \/ RePrelogin(q)
             \/ LoseReply(q) \/ PasswordGrant(q) \/ PasswordGrant2(q) \/ ApiGrant(q) \/ Refresh(q)
    BY <2>4, <2>6, <2>7, <2>8
    DEF Login, Ask, Password, Code, RePassword, RePrelogin, LoseReply, PasswordGrant,
        PasswordGrant2, ApiGrant, Refresh, Refused, Labels, Prompts
  <2>9. CASE Prelogin(q) \/ EnsureToken(q)
    BY <2>4, <2>5, <2>6, <2>9 DEF Prelogin, EnsureToken, Continue, Labels, Prompts
  <2>10. CASE StoreToken(q)
    BY <2>1, <2>5, <2>10 DEF StoreToken, Labels
  <2>11. CASE SyncGet(q)
    BY <2>1, <2>2, <2>4, <2>5, <2>11 DEF SyncGet, Labels
  <2>12. CASE RefreshKDF(q)
    <3>1. CASE Return(q, WithKdf(mem[q]), TRUE, "ok")
      <4>1. mem[q]' = WithKdf(mem[q])
        BY <2>1, <3>1
      <4>2. WithKdf(mem[q]).kdf = srvEpoch
        BY <1>0 DEF WithKdf, Data
      <4> QED BY <2>0, <4>1, <4>2
    <3>2. CASE ~HasEmail(q) /\ Return(q, mem[q], TRUE, "ok")
      BY <2>1, <3>2 DEF HasEmail
    <3>3. CASE Return(q, mem[q], TRUE, "warn")
      BY <2>1, <3>3
    <3> QED BY <2>4, <2>12, <3>1, <3>2, <3>3 DEF RefreshKDF
  <2>13. CASE Read(q)
    <3>1. CASE Unlocks(mem[q]) /\ Return(q, mem[q], dirty[q], "ok")
      BY <2>0, <2>1, <2>2, <3>1 DEF Unlocks
    <3> QED BY <2>4, <2>13, <3>1 DEF Read
  <2>14. CASE Truncate(q)
    BY <2>0, <2>14 DEF Truncate, SyncTruth, HasEmail, job
  <2>15. CASE Write(q) \/ SaveFails(q) \/ HandlerExit(q) \/ Crash(q)
    BY <2>3, <2>15 DEF Write, SaveFails, HandlerExit, Crash, CutShort
  <2>16. CASE \E c \in DOMAIN Entry, e \in Env : Run(q, c, e)
    BY <2>5, <2>16 DEF Run, Entry, Labels
  <2> QED
    BY <1>2, <2>8, <2>9, <2>10, <2>11, <2>12, <2>13, <2>14, <2>15, <2>16
    DEF Own, Step, Answer
<1> QED BY <1>1, <1>2, OthersStay, OthersAct

-----------------------------------------------------------------------------
(* The inductive invariant, and the theorems. *)

IInv ==
  /\ TypeOK /\ ReplyIssued /\ TokenTripleCoherent /\ FreshBearer
  /\ SaveMeansDirty /\ LastKept /\ NewestLive /\ Epochs /\ SyncTruth

LEMMA InitIInv == Init => IInv
<1> SUFFICES ASSUME Init PROVE IInv
  OBVIOUS
<1>1. TypeOK
  BY TypeInit
<1>2. ReplyIssued /\ FreshBearer /\ SaveMeansDirty
  BY DEF Init, ReplyIssued, FreshBearer, SaveMeansDirty
<1>3. Len(grants) = 0
  BY EmptySeq DEF Init
<1>4. Coherent(Fresh)
  BY <1>3 DEF Coherent, Fresh
<1>5. TokenTripleCoherent
  BY <1>4 DEF Init, TokenTripleCoherent
<1>6. LastKept /\ NewestLive
  BY <1>3 DEF Init, LastKept, NewestLive, OnDisk, Fresh
<1>7. Epochs /\ SyncTruth
  BY DEF Init, Epochs, SyncTruth, Fresh
<1> QED BY <1>1, <1>2, <1>5, <1>6, <1>7 DEF IInv

LEMMA StepIInv == IInv /\ [Next]_vars => IInv'
  BY TypeStep, ReplyStep, CoherentStep, BearerStep, DirtyStep, KeptStep, LiveStep,
     EpochsStep, SyncTruthStep DEF IInv

LEMMA SpecIInv == Spec => []IInv
  BY InitIInv, StepIInv, PTL DEF Spec

(* Every variable keeps its type. *)
THEOREM TypeCorrect == Spec => []TypeOK
<1>1. IInv => TypeOK
  BY DEF IInv
<1> QED BY <1>1, SpecIInv, PTL

(* The access token, refresh token and expiry that data.json or an          *)
(* invocation holds always belong to one grant (storeToken and              *)
(* refreshTokenWithClientCreds replace the three together, and Save and     *)
(* loadDataFile carry them together).                                       *)
THEOREM TokenTriple == Spec => []TokenTripleCoherent
<1>1. IInv => TokenTripleCoherent
  BY DEF IInv
<1> QED BY <1>1, SpecIInv, PTL

(* GET /sync never carries a token from before a renewal, nor one that was, *)
(* when ensureToken let it through, further past the server's expiry than   *)
(* the delivery of its grant took (httpDo reads it from globalData).        *)
THEOREM BearerIsFresh == Spec => []FreshBearer
<1>1. IInv => FreshBearer
  BY DEF IInv
<1> QED BY <1>1, SpecIInv, PTL

(* As long as invocations do not overlap and none is cut short while it     *)
(* holds a grant it has not saved or while it saves, data.json is readable  *)
(* and holds the newest token, with a refresh token the server accepts      *)
(* unless it ended all sessions, after every command, failed or not (the    *)
(* deferred save of run).                                                   *)
THEOREM SessionIsKept == Spec => []SessionKept
<1>1. ASSUME IInv  PROVE SessionKept
  <2>1. ASSUME OnDisk, disk.refresh # 0
        PROVE  disk.refresh \in live \/ live = {}
    <3>1. disk.token # 0 /\ disk.refresh = grants[disk.token].refresh
      BY <1>1, <2>1 DEF IInv, TokenTripleCoherent, Coherent
    <3> QED BY <1>1, <2>1, <3>1 DEF IInv, NewestLive, OnDisk
  <2> QED BY <1>1, <2>1 DEF IInv, LastKept, SessionKept, OnDisk
<1> QED BY <1>1, SpecIInv, PTL

(* A sync that ends without error or warning never leaves an old KDF block  *)
(* beside a new vault, for an account whose email is known (refreshKDF).    *)
THEOREM SyncIsTrue == Spec => []SyncTruth
<1>1. IInv => SyncTruth
  BY DEF IInv
<1> QED BY <1>1, SpecIInv, PTL

-----------------------------------------------------------------------------
(* What steps may never do. *)

(* All steps of an invocation but its start are those of one that runs.     *)
LEMMA Busy ==
  ASSUME NEW p \in Proc,
         Step(p) \/ Answer(p) \/ SaveFails(p) \/ HandlerExit(p) \/ Crash(p)
  PROVE  pc[p] # "idle"
  BY DEF Step, Answer, Login, Prelogin, PasswordGrant, PasswordGrant2, ApiGrant, StoreToken,
      LoseReply, EnsureToken, Refresh, RePassword, RePrelogin, SyncGet, RefreshKDF, Read,
      Truncate, Write, Ask, Password, Code, SaveFails, HandlerExit, Crash, CutShort

(* What a running invocation has in memory is never older than data.json,   *)
(* nor is the grant on its way to it, when no other one writes the file.    *)
Ahead ==
  \A p \in Proc : pc[p] # "idle" =>
    /\ disk.token <= mem[p].token /\ disk.blob <= mem[p].blob
    /\ pc[p] = "reply" => disk.token <= reply[p]

(* Its globalData comes from data.json and then from its own steps. *)
Carries(p) ==
  \/ mem[p]' = disk
  \/ pc[p] # "idle" /\ mem[p]' \in {mem[p], WithKdf(mem[p]), WithVault(mem[p])}
  \/ HoldsNew(p)

LEMMA ReturnCarries ==
  ASSUME TypeOK, NEW p \in Proc, NEW m, NEW d, NEW r, Return(p, m, d, r) \/ Exited(p),
         pc[p]' # "idle"
  PROVE  mem[p]' = m
  BY GotoPc DEF Return, Exited, TypeOK, LocalType

LEMMA OwnCarries ==
  ASSUME TypeOK, NEW p \in Proc, Own(p), pc[p]' # "idle"
  PROVE  Carries(p)
<1>k. pc[p] # "idle" /\ mem[p]' \in {mem[p], WithKdf(mem[p]), WithVault(mem[p])} => Carries(p)
  BY DEF Carries
<1>1. ASSUME NEW c \in DOMAIN Entry, NEW e \in Env, Run(p, c, e)  PROVE Carries(p)
  BY <1>1 DEF Run, Carries, TypeOK, LocalType
<1>2. ASSUME Step(p) \/ Answer(p)  PROVE Carries(p)
  <2>b. pc[p] # "idle"
    BY <1>2, Busy
  <2>1. CASE Fail(p) \/ \E l : Proceed(p, l)
    <3>1. mem[p]' = mem[p]
      BY <2>1, ReturnCarries DEF Fail, Proceed, Continue, TypeOK, LocalType
    <3> QED BY <1>k, <2>b, <3>1
  <2>2. CASE Prelogin(p)
    <3>1. CASE Continue(p, "password", WithKdf(mem[p]), TRUE)
      <4>1. mem[p]' = WithKdf(mem[p])
        BY <3>1 DEF Continue, TypeOK, LocalType
      <4> QED BY <1>k, <2>b, <4>1
    <3> QED BY <2>1, <2>2, <3>1 DEF Prelogin
  <2>3. CASE StoreToken(p)
    <3>1. mem[p]' = Stored(mem[p], reply[p])
      BY <2>3, ReturnCarries DEF StoreToken, TypeOK, LocalType
    <3> QED BY <2>3, <3>1 DEF StoreToken, HoldsNew, Carries
  <2>4. CASE SyncGet(p)
    <3>1. CASE Fail(p)
      BY <2>1, <3>1
    <3>2. CASE ~Fail(p)
      <4>1. mem[p]' = WithVault(mem[p])
        BY <2>4, <3>2, ReturnCarries DEF SyncGet, TypeOK, LocalType
      <4> QED BY <1>k, <2>b, <4>1
    <3> QED BY <3>1, <3>2
  <2>5. CASE RefreshKDF(p)
    <3>1. mem[p]' \in {mem[p], WithKdf(mem[p])}
      BY <2>5, ReturnCarries DEF RefreshKDF, Fail
    <3> QED BY <1>k, <2>b, <3>1
  <2>6. CASE Read(p)
    <3>1. mem[p]' = mem[p]
      BY <2>6, ReturnCarries DEF Read, Fail
    <3> QED BY <1>k, <2>b, <3>1
  <2>7. CASE Truncate(p) \/ UNCHANGED mem
    <3>1. mem[p]' = mem[p]
      BY <2>7 DEF Truncate
    <3> QED BY <1>k, <2>b, <3>1
  <2>8. CASE Write(p)
    BY <2>8, GotoPc DEF Write, Exited
  <2> QED
    BY <1>2, <2>1, <2>2, <2>3, <2>4, <2>5, <2>6, <2>7, <2>8
    DEF Step, Answer, Login, PasswordGrant, PasswordGrant2, ApiGrant, LoseReply, EnsureToken,
        Refresh, RePassword, RePrelogin, Ask, Password, Code, Refused, Issue
<1>3. ~(SaveFails(p) \/ HandlerExit(p) \/ Crash(p))
  BY GotoPc DEF SaveFails, HandlerExit, Crash, CutShort, Exited
<1> QED BY <1>1, <1>2, <1>3 DEF Own

LEMMA AheadStep ==
  ASSUME \A p, q \in Proc : p = q, IInv, Ahead, [Next]_vars
  PROVE  Ahead'
<1>0. TypeOK /\ TokenTripleCoherent /\ Epochs
  BY DEF IInv
<1> SUFFICES ASSUME NEW p \in Proc, pc[p]' # "idle"
             PROVE  /\ disk'.token <= mem[p]'.token /\ disk'.blob <= mem[p]'.blob
                    /\ pc[p]' = "reply" => disk'.token <= reply[p]'
  BY DEF Ahead
<1>1. disk' = disk
  <2>1. ~Write(p)
    BY <1>0, GotoPc DEF Write, Exited
  <2> QED BY <1>0, <2>1, DiskOrigin
<1>2. /\ disk \in Data /\ mem[p] \in Data /\ srvEpoch \in Nat /\ reply[p] \in Nat
      /\ mem[p].blob <= srvEpoch /\ disk.token \in 0..Len(grants)
  BY <1>0 DEF TypeOK, SharedType, LocalType, TokenTripleCoherent, Coherent, Epochs
<1>l. Len(grants) \in Nat
  BY <1>0, GrantsLength DEF TypeOK
<1>3. /\ disk.token \in Nat /\ disk.blob \in Nat /\ mem[p].token \in Nat /\ mem[p].blob \in Nat
      /\ Len(grants) \in Nat
  BY <1>2, <1>l DEF Data
<1>4. CASE Own(p)
  <2>1. /\ disk.token <= mem[p]'.token /\ disk.blob <= mem[p]'.blob
    <3>1. CASE mem[p]' = disk
      BY <1>3, <3>1
    <3>2. CASE pc[p] # "idle" /\ mem[p]' \in {mem[p], WithKdf(mem[p]), WithVault(mem[p])}
      <4>1. /\ mem[p]'.token = mem[p].token /\ mem[p]'.blob \in {mem[p].blob, srvEpoch}
        BY <1>2, <3>2 DEF WithKdf, WithVault, Data
      <4> QED BY <1>2, <1>3, <3>2, <4>1 DEF Ahead
    <3>3. CASE HoldsNew(p)
      <4>1. mem[p]'.token = reply[p] /\ mem[p]'.blob = mem[p].blob
        BY <1>2, <3>3 DEF HoldsNew, Stored, Data
      <4> QED BY <3>3, <4>1 DEF HoldsNew, Ahead
    <3> QED BY <1>0, <1>4, <3>1, <3>2, <3>3, OwnCarries DEF Carries
  <2>2. pc[p]' = "reply" => disk.token <= reply[p]'
    <3>1. ASSUME pc[p]' = "reply"  PROVE disk.token <= reply[p]'
      <4>1. PICK r \in 0..MaxGrants : Issue(p, r)
        BY <1>0, <1>4, <3>1, Arrivals
      <4>2. reply[p]' = Len(grants) + 1
        BY <1>0, <4>1 DEF Issue, TypeOK, LocalType
      <4> QED BY <1>2, <1>3, <4>2
    <3> QED BY <3>1
  <2> QED BY <1>1, <2>1, <2>2
<1>5. CASE ~Own(p)
  <2>1. Stays(p)
    BY <1>0, <1>5, OthersAct
  <2> QED BY <1>1, <2>1 DEF Stays, Ahead
<1> QED BY <1>4, <1>5

(* run: an invocation that has no other beside it never puts data.json back *)
(* to an older token or an older vault, whatever fails.                     *)
THEOREM AloneOnlyAdvances ==
  ASSUME \A p, q \in Proc : p = q
  PROVE  Spec => OneAtATimeAdvances
<1>1. Init => Ahead
  BY DEF Init, Ahead
<1>2. IInv /\ Ahead /\ [Next]_vars => Ahead'
  BY AheadStep
<1>3. IInv /\ Ahead /\ [Next]_vars => disk'.token >= disk.token /\ disk'.blob >= disk.blob
  <2> SUFFICES ASSUME IInv, Ahead, [Next]_vars
               PROVE  disk'.token >= disk.token /\ disk'.blob >= disk.blob
    OBVIOUS
  <2>1. disk \in Data /\ \A p \in Proc : mem[p] \in Data
    BY DEF IInv, TypeOK, SharedType, LocalType
  <2>2. disk' = disk \/ \E p \in Proc : pc[p] # "idle" /\ disk' = mem[p]
    BY DiskOrigin DEF IInv, Write
  <2>3. /\ disk.token \in Nat /\ disk.blob \in Nat
        /\ \A p \in Proc : mem[p].token \in Nat /\ mem[p].blob \in Nat
    BY <2>1 DEF Data
  <2> QED BY <2>2, <2>3 DEF Ahead
<1> QED BY <1>1, <1>2, <1>3, SpecIInv, PTL DEF Spec, OneAtATimeAdvances

=============================================================================
