------------------------------- MODULE Session -------------------------------
(***************************************************************************)
(* Every bitw invocation is a process: it loads data.json, obtains an      *)
(* access token, talks to the server and, when saveData was set, writes    *)
(* data.json back as it returns.  This module follows several invocations  *)
(* that share one data.json and one Bitwarden account: the login dialogue, *)
(* ensureToken, sync with the KDF refresh, SIGINT, kills, and the save.    *)
(*                                                                         *)
(* Data is abstract.  A token, and the refresh token issued with it, is    *)
(* the number of the grant that issued it (0: none).  The KDF block and    *)
(* the vault with its profile key carry the account's key epoch (0: none): *)
(* the epoch changes when the user changes the KDF settings elsewhere.     *)
(***************************************************************************)
EXTENDS Integers, Sequences

CONSTANTS Proc,          \* the invocations that may exist at a time
          Env,           \* the environments an invocation may be started in
          Faults,        \* which of "kill", "sigint" and "disk" may happen
          AccountEmail,  \* does the profile, or the token's JWT, name an email
          TTL,           \* lifetime of an access token, in ticks
          Latency,       \* longest delivery of a response (the 10 s client timeout)
          MaxTime, MaxGrants, MaxEpoch  \* bounds on now, grants and srvEpoch

Environment == [creds : {"both", "half", "none"},  \* client id and secret
                tty : BOOLEAN,                     \* stdin may be prompted on
                email : BOOLEAN,                   \* $EMAIL or config email
                password : BOOLEAN]                \* $PASSWORD or libsecret

ASSUME SessionAssumption ==
  /\ Env \subseteq Environment
  /\ Faults \subseteq {"kill", "sigint", "disk"}
  /\ AccountEmail \in BOOLEAN
  /\ TTL \in Nat /\ Latency \in Nat /\ MaxTime \in Nat
  /\ MaxGrants \in Nat /\ MaxEpoch \in Nat \ {0}

VARIABLES
  file,      \* data.json: "absent", "ok" or "torn" (truncated, does not decode)
  disk,      \* the record data.json holds, or held before it was torn
  grants,    \* the server's tokens in the order issued
  live,      \* the refresh tokens the server still accepts
  srvEpoch,  \* the account's key epoch
  now,       \* the clock of server and clients
  pc, cmd, env,  \* where an invocation is, its command, its environment
  mem,       \* its globalData
  dirty,     \* its saveData
  reply,     \* the grant on its way to it
  since,     \* when ensureToken let it through
  outcome,   \* what the command returned, while the deferred save runs
  sig,       \* a SIGINT was delivered
  disturbed  \* history: since the last grant made by an invocation running
             \* alone, invocations overlapped or one was cut short that still
             \* held what data.json did not

store  == <<file, disk>>
server == <<grants, live, srvEpoch>>
job    == <<cmd, env, sig>>
vars   == <<store, server, now, pc, job, mem, dirty, reply, since, outcome, disturbed>>

Prompts == {"ask", "password", "code", "repassword"}
Labels  == Prompts \cup {"idle", "ensure", "login", "apiGrant", "prelogin", "grant",
             "grant2", "reply", "refresh", "reprelogin", "sync", "kdf", "read",
             "truncate", "write"}

Data  == [token : 0..MaxGrants, refresh : 0..MaxGrants, expiry : 0..(MaxTime + TTL),
          kdf : 0..MaxEpoch, blob : 0..MaxEpoch]
Grant == [expiry : TTL..(MaxTime + TTL), refresh : 0..MaxGrants]
Fresh == [token |-> 0, refresh |-> 0, expiry |-> 0, kdf |-> 0, blob |-> 0]
NoEnv == [creds |-> "none", tty |-> FALSE, email |-> FALSE, password |-> FALSE]

Alone(p) == \A q \in Proc \ {p} : pc[q] = "idle"

Init ==
  /\ file = "absent" /\ disk = Fresh
  /\ grants = <<>> /\ live = {} /\ srvEpoch = 1 /\ now = 0
  /\ pc = [p \in Proc |-> "idle"] /\ cmd = [p \in Proc |-> "none"]
  /\ env = [p \in Proc |-> NoEnv] /\ sig = [p \in Proc |-> FALSE]
  /\ mem = [p \in Proc |-> Fresh] /\ dirty = [p \in Proc |-> FALSE]
  /\ reply = [p \in Proc |-> 0] /\ since = [p \in Proc |-> 0]
  /\ outcome = [p \in Proc |-> "none"] /\ disturbed = FALSE

-----------------------------------------------------------------------------
(* The life of an invocation. *)

Goto(p, l) == pc' = [pc EXCEPT ![p] = l]

(* What is left of an invocation once it has exited: nothing. *)
Exited(p) ==
  /\ Goto(p, "idle")
  /\ cmd' = [cmd EXCEPT ![p] = "none"] /\ env' = [env EXCEPT ![p] = NoEnv]
  /\ sig' = [sig EXCEPT ![p] = FALSE] /\ mem' = [mem EXCEPT ![p] = Fresh]
  /\ dirty' = [dirty EXCEPT ![p] = FALSE] /\ reply' = [reply EXCEPT ![p] = 0]
  /\ since' = [since EXCEPT ![p] = 0] /\ outcome' = [outcome EXCEPT ![p] = "none"]

(* Faulty: nothing is saved after a failed command. *)
SavesAfterSuccess(d, result) == d /\ result # "err"

(* The deferred save of run: on every return, failed or not, if saveData. *)
SavesAfter(d, result) == d

(* The command returns: globalData is m, saveData is d. *)
Return(p, m, d, result) ==
  IF SavesAfter(d, result)
    THEN /\ Goto(p, "truncate")
         /\ mem' = [mem EXCEPT ![p] = m] /\ dirty' = [dirty EXCEPT ![p] = d]
         /\ outcome' = [outcome EXCEPT ![p] = result]
         /\ reply' = [reply EXCEPT ![p] = 0] /\ since' = [since EXCEPT ![p] = 0]
         /\ UNCHANGED job
    ELSE Exited(p)

Fail(p) == Return(p, mem[p], dirty[p], "err")

(* A step inside the command: go on at l with globalData m and saveData d. *)
Continue(p, l, m, d) ==
  /\ Goto(p, l)
  /\ mem' = [mem EXCEPT ![p] = m] /\ dirty' = [dirty EXCEPT ![p] = d]
  /\ UNCHANGED <<job, reply, since, outcome>>

Proceed(p, l) == Continue(p, l, mem[p], dirty[p])

(* A data.json that was cut short does not decode, and run stops there. *)
Loads(f) == f # "torn"

Entry == [login |-> "login", sync |-> "ensure", get |-> "read"]

(* run: load data.json, draw a DeviceID if there is none (which sets        *)
(* saveData), dispatch.  A failed load returns before anything has changed. *)
Run(p, c, e) ==
  /\ pc[p] = "idle" /\ Loads(file)
  /\ Goto(p, Entry[c])
  /\ cmd' = [cmd EXCEPT ![p] = c] /\ env' = [env EXCEPT ![p] = e]
  /\ mem' = [mem EXCEPT ![p] = disk] /\ dirty' = [dirty EXCEPT ![p] = (file = "absent")]
  /\ disturbed' = (disturbed \/ ~Alone(p))
  /\ UNCHANGED <<store, server, now, sig, reply, since, outcome>>

(* Save is ioutil.WriteFile: the file is truncated, then written. *)
Truncate(p) ==
  /\ pc[p] = "truncate"
  /\ file' = "torn" /\ Goto(p, "write")
  /\ UNCHANGED <<disk, server, now, job, mem, dirty, reply, since, outcome, disturbed>>

Write(p) ==
  /\ pc[p] = "write"
  /\ file' = "ok" /\ disk' = mem[p]
  /\ Exited(p)
  /\ UNCHANGED <<server, now, disturbed>>

(* An invocation that ends here takes a grant, or the file, with it. *)
Loses(p) == pc[p] \in {"reply", "write"} \/ mem[p].token # disk.token

CutShort(p) == Exited(p) /\ disturbed' = (disturbed \/ Loses(p))

(* The directory or the file cannot be created, or the disk fills up. *)
SaveFails(p) ==
  /\ "disk" \in Faults /\ pc[p] \in {"truncate", "write"}
  /\ CutShort(p)
  /\ UNCHANGED <<store, server, now>>

-----------------------------------------------------------------------------
(* login. *)

HasCreds(e) == e.creds = "both"

Login(p) ==
  /\ pc[p] = "login"
  /\ IF HasCreds(env[p]) THEN Proceed(p, "apiGrant")
     ELSE IF env[p].creds = "none" /\ env[p].tty THEN Proceed(p, "ask")
     ELSE Fail(p)
  /\ UNCHANGED <<store, server, now, disturbed>>

(* Server selection and, if none is configured, the email. *)
Ask(p) ==
  /\ pc[p] = "ask"
  /\ Proceed(p, "prelogin") \/ Fail(p)
  /\ UNCHANGED <<store, server, now, disturbed>>

(* Faulty: a cached KDF block is never replaced. *)
WithKdfOnce(d) == IF d.kdf = 0 THEN [d EXCEPT !.kdf = srvEpoch] ELSE d

(* The block the identity server answers a prelogin with. *)
WithKdf(d) == [d EXCEPT !.kdf = srvEpoch]

(* The KDF block is stored, and saveData set, before the password is known. *)
Prelogin(p) ==
  /\ pc[p] = "prelogin"
  /\ Continue(p, "password", WithKdf(mem[p]), TRUE) \/ Fail(p)
  /\ UNCHANGED <<store, server, now, disturbed>>

(* From libsecret, or from the prompt chain. *)
Password(p) ==
  /\ pc[p] = "password"
  /\ Proceed(p, "grant") \/ Fail(p)
  /\ UNCHANGED <<store, server, now, disturbed>>

(* The server issues a token, with refresh token r, and replies to p. *)
Issue(p, r) ==
  /\ Len(grants) < MaxGrants
  /\ grants' = Append(grants, [expiry |-> now + TTL, refresh |-> r])
  /\ reply' = [reply EXCEPT ![p] = Len(grants) + 1]
  /\ Goto(p, "reply")
  /\ disturbed' = ~Alone(p)
  /\ UNCHANGED <<store, srvEpoch, now, job, mem, dirty, since, outcome>>

(* The server, or the network, refuses. *)
Refused(p) == Fail(p) /\ UNCHANGED <<store, server, now, disturbed>>

(* A password grant, of a login or of a re-login; it may ask for a code. *)
PasswordGrant(p) ==
  /\ pc[p] = "grant"
  /\ \/ Issue(p, Len(grants) + 1) /\ live' = live \cup {Len(grants) + 1}
     \/ Proceed(p, "code") /\ UNCHANGED <<store, server, now, disturbed>>
     \/ Refused(p)

Code(p) ==
  /\ pc[p] = "code"
  /\ Proceed(p, "grant2") \/ Fail(p)
  /\ UNCHANGED <<store, server, now, disturbed>>

PasswordGrant2(p) ==
  /\ pc[p] = "grant2"
  /\ \/ Issue(p, Len(grants) + 1) /\ live' = live \cup {Len(grants) + 1}
     \/ Refused(p)

(* Faulty: a refused grant is tried again without end. *)
ApiGrantRetried(p) ==
  /\ pc[p] = "apiGrant"
  /\ \/ Issue(p, 0) /\ UNCHANGED live
     \/ Proceed(p, "login") /\ UNCHANGED <<store, server, now, disturbed>>

(* A client_credentials grant comes without a refresh token. *)
ApiGrant(p) ==
  /\ pc[p] = "apiGrant"
  /\ \/ Issue(p, 0) /\ UNCHANGED live
     \/ Refused(p)

(* Faulty: the expiry is left as it was; the refresh token and the expiry   *)
(* are exchanged; the rest of the record is lost.                           *)
StoredWithoutExpiry(d, n) == [d EXCEPT !.token = n, !.refresh = grants[n].refresh]
StoredExchanged(d, n) ==
  [d EXCEPT !.token = n, !.refresh = now + TTL, !.expiry = grants[n].refresh]
StoredAfresh(d, n) ==
  [Fresh EXCEPT !.token = n, !.refresh = grants[n].refresh, !.expiry = now + TTL]

(* storeToken: the three token fields of globalData are replaced together. *)
Stored(d, n) == [d EXCEPT !.token = n, !.refresh = grants[n].refresh, !.expiry = now + TTL]

(* The response arrives: login returns, ensureToken goes on. *)
StoreToken(p) ==
  /\ pc[p] = "reply"
  /\ LET m == Stored(mem[p], reply[p]) IN
       IF cmd[p] = "login" THEN Return(p, m, TRUE, "ok")
       ELSE /\ Goto(p, "sync")
            /\ mem' = [mem EXCEPT ![p] = m] /\ dirty' = [dirty EXCEPT ![p] = TRUE]
            /\ since' = [since EXCEPT ![p] = now] /\ reply' = [reply EXCEPT ![p] = 0]
            /\ UNCHANGED <<job, outcome>>
  /\ UNCHANGED <<store, server, now, disturbed>>

(* The response is lost: the server has issued what the client never sees. *)
LoseReply(p) ==
  /\ pc[p] = "reply"
  /\ Fail(p) /\ disturbed' = TRUE
  /\ UNCHANGED <<store, server, now>>

-----------------------------------------------------------------------------
(* ensureToken and refreshToken. *)

(* $EMAIL or the config, else the synced profile, else the token's claims. *)
HasEmail(p) ==
  env[p].email \/ (AccountEmail /\ (mem[p].blob # 0 \/ mem[p].token # 0))

(* Faulty: any cached token is used. *)
UsableForever(d) == d.token # 0

Usable(d) == d.token # 0 /\ now < d.expiry

(* At now = expiry neither Before nor After holds, and the token is kept. *)
EnsureToken(p) ==
  /\ pc[p] = "ensure"
  /\ \/ /\ Usable(mem[p]) \/ (mem[p].refresh # 0 /\ ~(now > mem[p].expiry))
        /\ since' = [since EXCEPT ![p] = now] /\ Goto(p, "sync")
        /\ UNCHANGED <<job, mem, dirty, reply, outcome>>
     \/ ~Usable(mem[p]) /\ mem[p].refresh = 0 /\ Proceed(p, "login")
     \/ ~Usable(mem[p]) /\ mem[p].refresh # 0 /\ now > mem[p].expiry /\ Proceed(p, "refresh")
  /\ UNCHANGED <<store, server, now, disturbed>>

(* With client credentials, a refresh_token grant: the server keeps the     *)
(* refresh token, rotates it, or leaves it out of the answer.               *)
(* Without, a new password grant for the known email.                       *)
Refresh(p) ==
  LET old == mem[p].refresh  new == Len(grants) + 1 IN
  /\ pc[p] = "refresh"
  /\ \/ /\ HasCreds(env[p]) /\ old \in live
        /\ \/ Issue(p, old) /\ UNCHANGED live
           \/ Issue(p, 0) /\ UNCHANGED live
           \/ Issue(p, new) /\ live' = (live \ {old}) \cup {new}
     \/ HasCreds(env[p]) /\ Refused(p)
     \/ /\ ~HasCreds(env[p]) /\ HasEmail(p)
        /\ Proceed(p, "repassword") /\ UNCHANGED <<store, server, now, disturbed>>
     \/ ~HasCreds(env[p]) /\ ~HasEmail(p) /\ Refused(p)

(* secrets.password: $PASSWORD and libsecret come before the prompt chain. *)
RePassword(p) ==
  /\ pc[p] = "repassword"
  /\ Proceed(p, "reprelogin") \/ (~env[p].password /\ Fail(p))
  /\ UNCHANGED <<store, server, now, disturbed>>

(* This prelogin only feeds the grant: the KDF block stays as it is. *)
RePrelogin(p) ==
  /\ pc[p] = "reprelogin"
  /\ Proceed(p, "grant") \/ Fail(p)
  /\ UNCHANGED <<store, server, now, disturbed>>

-----------------------------------------------------------------------------
(* sync, and get. *)

(* Faulty: the bearer is the one that was stored before the command ran. *)
StoredBearer(p) == disk.token

(* httpDo reads the bearer from globalData when the request is made. *)
Bearer(p) == mem[p].token

Accepted(t) == t # 0 /\ now < grants[t].expiry

WithVault(d) == [d EXCEPT !.blob = srvEpoch]

(* GET /sync is decoded into globalData.Sync: an error half way through the *)
(* decoding leaves what was decoded.                                        *)
SyncGet(p) ==
  /\ pc[p] = "sync"
  /\ \/ /\ Accepted(Bearer(p))
        /\ \/ /\ Goto(p, "kdf") /\ since' = [since EXCEPT ![p] = 0]
              /\ mem' = [mem EXCEPT ![p] = WithVault(@)]
              /\ UNCHANGED <<job, dirty, reply, outcome>>
           \/ Return(p, WithVault(mem[p]), dirty[p], "err")
     \/ Fail(p)
  /\ UNCHANGED <<store, server, now, disturbed>>

(* refreshKDF, and sync's own end: saveData unless the KDF is unobtainable. *)
RefreshKDF(p) ==
  /\ pc[p] = "kdf"
  /\ \/ HasEmail(p) /\ Return(p, WithKdf(mem[p]), TRUE, "ok")
     \/ HasEmail(p) /\ mem[p].kdf # 0 /\ Return(p, mem[p], TRUE, "warn")
     \/ HasEmail(p) /\ mem[p].kdf = 0 /\ Fail(p)
     \/ ~HasEmail(p) /\ Return(p, mem[p], TRUE, "ok")
  /\ UNCHANGED <<store, server, now, disturbed>>

Unlocks(d) == d.blob # 0 /\ d.kdf = d.blob

(* get, list and dump: derive the key, decrypt, print.  Only the prompt for *)
(* the password may fail once the KDF block fits the vault.                 *)
Read(p) ==
  /\ pc[p] = "read"
  /\ \/ Unlocks(mem[p]) /\ HasEmail(p) /\ Return(p, mem[p], dirty[p], "ok")
     \/ ~(Unlocks(mem[p]) /\ HasEmail(p) /\ env[p].password) /\ Fail(p)
  /\ UNCHANGED <<store, server, now, disturbed>>

-----------------------------------------------------------------------------
(* Signals, kills, and the world around. *)

Sigint(p) ==
  /\ "sigint" \in Faults /\ pc[p] # "idle" /\ ~sig[p]
  /\ sig' = [sig EXCEPT ![p] = TRUE]
  /\ UNCHANGED <<store, server, now, pc, cmd, env, mem, dirty, reply, since, outcome, disturbed>>

(* Faulty: the handler counts on the cancelled context to end a prompt. *)
InterruptibleByContext(p) == pc[p] \notin Prompts

(* Where the handler's os.Exit may strike: wherever the main goroutine is. *)
Interruptible(p) == pc[p] \in Labels

(* The handler goroutine exits 200 ms after the signal; the deferred save   *)
(* does not run.                                                            *)
HandlerExit(p) ==
  /\ pc[p] # "idle" /\ sig[p] /\ Interruptible(p)
  /\ CutShort(p)
  /\ UNCHANGED <<store, server, now>>

Crash(p) ==
  /\ "kill" \in Faults /\ pc[p] # "idle"
  /\ CutShort(p)
  /\ UNCHANGED <<store, server, now>>

(* The user changes the KDF settings with another client, which may end     *)
(* every session of the account.                                            *)
Rekey ==
  /\ srvEpoch < MaxEpoch /\ srvEpoch' = srvEpoch + 1
  /\ live' \in {live, {}}
  /\ UNCHANGED <<store, grants, now, pc, job, mem, dirty, reply, since, outcome, disturbed>>

(* Time passes; a response takes at most Latency ticks to arrive. *)
Tick ==
  /\ now < MaxTime /\ now' = now + 1
  /\ \A p \in Proc : pc[p] = "reply" => now + TTL < grants[reply[p]].expiry + Latency
  /\ UNCHANGED <<store, server, pc, job, mem, dirty, reply, since, outcome, disturbed>>

(* What an invocation does when it need not wait for its user. *)
Step(p) ==
  \/ Login(p) \/ Prelogin(p) \/ PasswordGrant(p) \/ PasswordGrant2(p) \/ ApiGrant(p)
  \/ StoreToken(p) \/ LoseReply(p) \/ EnsureToken(p) \/ Refresh(p) \/ RePrelogin(p)
  \/ SyncGet(p) \/ RefreshKDF(p) \/ Truncate(p) \/ Write(p)
  \/ env[p].password /\ (RePassword(p) \/ Read(p))

Answer(p) ==
  \/ Ask(p) \/ Password(p) \/ Code(p)
  \/ ~env[p].password /\ (RePassword(p) \/ Read(p))

Next ==
  \/ \E p \in Proc :
       \/ Step(p) \/ Answer(p)
       \/ \E c \in DOMAIN Entry, e \in Env : Run(p, c, e)
       \/ SaveFails(p) \/ Sigint(p) \/ HandlerExit(p) \/ Crash(p)
  \/ Rekey \/ Tick

Spec == Init /\ [][Next]_vars

(* A running process makes progress, requests time out after 10 s, and the  *)
(* signal handler wakes up; nothing makes the user answer a prompt.         *)
FairSpec == Spec /\ \A p \in Proc : WF_vars(Step(p)) /\ WF_vars(HandlerExit(p))

-----------------------------------------------------------------------------
(* The types of what the invocations share, and of each invocation's own.   *)
SharedType ==
  /\ file \in {"absent", "ok", "torn"} /\ disk \in Data
  /\ grants \in Seq(Grant)
  /\ Len(grants) <= MaxGrants
  /\ live \subseteq 1..MaxGrants /\ srvEpoch \in 1..MaxEpoch /\ now \in 0..MaxTime
  /\ disturbed \in BOOLEAN

LocalType ==
  /\ pc \in [Proc -> Labels] /\ cmd \in [Proc -> DOMAIN Entry \cup {"none"}]
  /\ env \in [Proc -> Environment] /\ mem \in [Proc -> Data]
  /\ dirty \in [Proc -> BOOLEAN] /\ sig \in [Proc -> BOOLEAN]
  /\ reply \in [Proc -> 0..MaxGrants] /\ since \in [Proc -> 0..MaxTime]
  /\ outcome \in [Proc -> {"none", "ok", "warn", "err"}]

TypeOK == SharedType /\ LocalType

(* The three token fields of a data.json, or of an invocation's memory, are *)
(* of one grant, whatever invocations interleave, fail or are killed: the   *)
(* refresh token is the one issued with the access token, and the expiry is *)
(* at most the response's delivery later than the server's.                 *)
Coherent(d) ==
  /\ d.token \in 0..Len(grants)
  /\ d.token = 0 => d.refresh = 0 /\ d.expiry = 0
  /\ d.token # 0 => /\ d.refresh = grants[d.token].refresh
                    /\ d.expiry >= grants[d.token].expiry
                    /\ d.expiry <= grants[d.token].expiry + Latency

TokenTripleCoherent == Coherent(disk) /\ \A p \in Proc : Coherent(mem[p])

(* The token that goes out with GET /sync exists, and when ensureToken let  *)
(* it through it was at most the delivery time of its grant past the        *)
(* server's expiry: the request never carries a token from before a renewal.*)
FreshBearer ==
  \A p \in Proc : pc[p] = "sync" =>
    /\ Bearer(p) # 0
    /\ since[p] <= grants[Bearer(p)].expiry + Latency

(* When nobody runs, and since the last lone login or refresh invocations   *)
(* did not overlap and none was cut short holding a grant it had not saved  *)
(* or halfway through its save, data.json is readable, holds the newest     *)
(* token the server has issued, and its refresh token is one the server     *)
(* still accepts, unless the server ended every session: no error path, and *)
(* no kill, signal or full disk at any other time, loses a session.         *)
SessionKept ==
  (~disturbed /\ \A p \in Proc : pc[p] = "idle") =>
    /\ file # "torn" /\ disk.token = Len(grants)
    /\ disk.refresh # 0 => disk.refresh \in live \/ live = {}

(* A sync that ends without error or warning, for an account whose email is *)
(* known, leaves a KDF block that is as new as the vault it fetched, unless *)
(* the account changed again meanwhile.                                     *)
SyncTruth ==
  \A p \in Proc :
    (pc[p] \in {"truncate", "write"} /\ outcome[p] = "ok" /\ cmd[p] = "sync"
      /\ HasEmail(p) /\ mem[p].blob = srvEpoch) => mem[p].kdf = srvEpoch

(* Invocations that follow one another, whatever fails in them, never put   *)
(* an older token or an older vault into data.json than it held.            *)
OneAtATimeAdvances ==
  [][ disk'.token >= disk.token /\ disk'.blob >= disk.blob ]_vars

(* An interrupted invocation ends, even at a prompt that cannot be cancelled. *)
SigintEnds == \A p \in Proc : sig[p] ~> pc[p] = "idle"

(* With both client credentials and a stored password an invocation ends    *)
(* without a user.                                                          *)
UnattendedEnds ==
  \A p \in Proc : (pc[p] # "idle" /\ env[p].creds = "both" /\ env[p].password) ~> pc[p] = "idle"

=============================================================================
