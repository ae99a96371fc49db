---------------------------- MODULE UnlockProofs ----------------------------
(* Proofs about the master password and the token, for any number of master *)
(* passwords, any environments and any setups; and that what get prints is  *)
(* read back, for texts and secrets of any length.                          *)
EXTENDS Unlock, DataLemmas, TLAPS

(* A password on its way into the keyring was accepted.                     *)
Stores == pc = "store" => typed \in 1..master

(* A fresh invocation has neither asked nor heard anything.                 *)
Blank ==
  /\ pc = "idle" => cached = 0 /\ asked = 0 /\ from = "none"
  /\ pc \in {"idle", "ensure"} => purpose = "none"
  /\ pc \in {"idle", "ensure", "gate", "server", "typing"} => ~byHand

(* Each password that was typed is that of the login, or remembered; and    *)
(* password() asks for one only if it knows none.                           *)
Sparing ==
  /\ asked <= (IF byHand THEN 1 ELSE 0) + (IF cached # 0 THEN 1 ELSE 0)
  /\ pc \in {"password", "keys", "open"} => purpose # "login"
  /\ pc = "ask" /\ purpose = "login" => ~byHand
  /\ pc = "ask" /\ purpose # "login" => cached = 0 /\ env.password = 0

(* The sources are tried in their order. *)
Sources ==
  /\ from = "$PASSWORD" => env.password # 0
  /\ from = "keyring" => env.password = 0 /\ env.tool = "works"
  /\ from = "dialog" => env.password = 0
  /\ asked > 0 /\ ~byHand => from = "dialog"

(* password() asks only when the keyring gives nothing, and nothing is      *)
(* stored there after that: the login, which stores, comes first.           *)
Unstored ==
  /\ purpose = "login" \/ pc \in {"idle", "ensure", "gate", "server", "typing"} => from = "none"
  /\ pc = "store" => purpose = "login"
  /\ from = "dialog" \/ (pc = "ask" /\ purpose # "login") => keyring = 0 \/ env.tool # "works"

(* Where a token is from, and where an invocation goes: only at the account's *)
(* own server can there be one, and only a choice at the prompt leads        *)
(* elsewhere than config.                                                    *)
AtHome ==
  /\ \A d \in {mem, disk} :
       /\ d.token.home \in {"none", setup.home}
       /\ d.token.fresh => d.token.home # "none"
       /\ setup.home = "cloud" /\ setup.configured = "self" => d.token.home = "none"
  /\ pc # "idle" /\ setup.configured = "self" => where = "self"
  /\ pc = "ensure" => where = FirstServer(setup)
  /\ pc = "server" => where = "cloud"
  /\ pc \in {"sync", "store"} =>
       mem.token.home # "none" /\ where \in {FirstServer(setup), setup.home}

IInv ==
  /\ TypeOK /\ KeyringOnceRight /\ Stores /\ Blank /\ Sparing /\ Sources /\ Unstored /\ AtHome

-----------------------------------------------------------------------------
LEMMA InitType == Init => TypeOK
<1> SUFFICES ASSUME Init  PROVE TypeOK
  OBVIOUS
<1>1. master \in 1..MaxMaster /\ 0 \in Password
  BY UnlockAssumption DEF Init, Password, Typo
<1>2. disk \in Saved /\ mem \in Saved
  BY UnlockAssumption DEF Init, Saved, Token, NoToken, Server
<1>3. NoEnv.dialogs = 0
  BY DEF NoEnv
<1>4. failed \in 0..3 /\ failed <= env.dialogs /\ asked \in Nat
  BY <1>3 DEF Init
<1>5. pc \in Labels /\ where \in Server
  BY DEF Init, Labels, Server
<1> QED BY <1>1, <1>2, <1>4, <1>5 DEF Init, TypeOK

LEMMA InitInv == Init => IInv
  BY UnlockAssumption, InitType DEF Init, IInv, KeyringOnceRight, Stores, Blank, Sparing,
     Sources, Unstored, AtHome, NoToken, Password

(* The environment of an invocation, the setup and the password of a secret *)
(* tool have their types.                                                   *)
LEMMA Types ==
  ASSUME TypeOK
  PROVE  /\ env.password \in Password /\ env.dialogs \in Nat /\ env.dialogs <= 3
         /\ InKeyring(env) \in Password
         /\ setup.home \in Server /\ setup.configured \in {"none", "self"}
         /\ FirstServer(setup) \in Server
         /\ MaxMaster \in Nat \ {0} /\ master \in 1..MaxMaster
<1>1. env \in Environment
  BY UnlockAssumption DEF TypeOK, Environment, NoEnv, Password, Typo
<1>2. setup \in Setup
  BY UnlockAssumption DEF TypeOK
<1> QED BY <1>1, <1>2, UnlockAssumption DEF Environment, Setup, TypeOK, Password, Typo, InKeyring,
           FirstServer, Server

(* What has an end ends with every variable back at its type. *)
LEMMA IdleType ==
  ASSUME TypeOK, NEW d \in Saved, Idle(d), disk' \in Saved, UNCHANGED account
  PROVE  TypeOK'
<1>1. 0 \in Password
  BY UnlockAssumption DEF Password, Typo
<1>2. failed' \in 0..3 /\ failed' <= env'.dialogs /\ asked' \in Nat
  BY DEF Idle, NoEnv
<1>3. pc' \in Labels /\ where' \in Server
  BY DEF Idle, Labels, Server
<1> QED BY <1>1, <1>2, <1>3 DEF TypeOK, Idle, account

LEMMA StepType == TypeOK /\ [Next]_vars => TypeOK'
<1> SUFFICES ASSUME TypeOK, [Next]_vars  PROVE TypeOK'
  OBVIOUS
<1> USE Types DEF TypeOK, Goto, Labels, account
<1>1. CASE Start
  <2>1. PICK c \in DOMAIN Entry, e \in Envs :
          pc' = Entry[c] /\ cmd' = c /\ env' = e /\ where' = FirstServer(setup) /\ mem' = disk
    BY <1>1 DEF Start
  <2>2. pc' \in Labels
    BY <2>1 DEF Entry
  <2>3. failed = 0 => failed <= e.dialogs
    BY UnlockAssumption DEF Environment
  <2> QED BY <1>1, <2>1, <2>2, <2>3 DEF Start
<1>2. CASE EnsureToken
  BY <1>2 DEF EnsureToken
<1>3. CASE Gate
  BY <1>3 DEF Gate, local
<1>4. CASE SelectServer
  BY <1>4 DEF SelectServer
<1>5. CASE GivesUp
  BY <1>5 DEF GivesUp, local
<1>6. CASE LoginPassword
  BY <1>6 DEF LoginPassword
<1>7. CASE GetPassword
  <2>1. pc' \in Labels \ {"idle"}
    BY <1>7 DEF GetPassword, AfterPassword
  <2>2. cached' \in Password /\ typed' \in Password
    BY <1>7 DEF GetPassword, Source, Remembers
  <2>3. from' \in {"none", "$PASSWORD", "keyring", "dialog"}
    BY <1>7 DEF GetPassword, Source
  <2> QED BY <1>7, <2>1, <2>2, <2>3 DEF GetPassword
<1>8. CASE DialogFails
  BY <1>8 DEF DialogFails
<1>9. CASE Answer
  <2>1. PICK pw \in Answers :
          /\ typed' = pw /\ asked' = (IF pw = 0 THEN asked ELSE asked + 1)
          /\ IF purpose = "login"
               THEN Goto("grant") /\ byHand' = TRUE /\ UNCHANGED <<cached, from>>
               ELSE /\ Goto(AfterPassword(purpose)) /\ UNCHANGED byHand
                    /\ cached' = Remembers("dialog", pw) /\ from' = "dialog"
    BY <1>9 DEF Answer
  <2>2. pw \in Password
    BY <2>1 DEF Answers
  <2>3. pc' \in Labels \ {"idle"}
    BY <1>9, <2>1 DEF AfterPassword
  <2>4. asked' \in Nat /\ cached' \in Password /\ typed' \in Password
    BY <2>1, <2>2 DEF Remembers
  <2>5. byHand' \in BOOLEAN /\ from' \in {"none", "$PASSWORD", "keyring", "dialog"}
    BY <2>1
  <2>6. UNCHANGED <<account, disk, where, mem, purpose, failed>> /\ cmd' = cmd /\ env' = env
    BY <1>9, <2>1 DEF Answer
  <2> QED BY <2>3, <2>4, <2>5, <2>6
<1>10. CASE AnswerCode \/ NoAnswer
  BY <1>10 DEF AnswerCode, NoAnswer, local
<1>11. CASE Grant
  <2>1. pc' \in Labels \ {"idle"}
    BY <1>11 DEF Grant, StepAfter
  <2>2. mem' \in Saved
    <3>1. [home |-> where, since |-> master, fresh |-> TRUE] \in Token
      BY DEF Token
    <3> QED BY <1>11, <3>1 DEF Grant, Saved
  <2>3. failed' \in {0, failed} /\ env' = env /\ cmd' = cmd
    BY <1>11 DEF Grant
  <2>4. UNCHANGED <<account, disk, where, cached, purpose, typed, from, asked, byHand>>
    BY <1>11 DEF Grant
  <2> QED BY <2>1, <2>2, <2>3, <2>4
<1>12. CASE StorePassword
  BY <1>12 DEF StorePassword, local
<1>13. CASE Sync
  <2>1. mem' \in Saved
    BY <1>13 DEF Sync, Saved
  <2> QED BY <1>13, <2>1 DEF Sync
<1>14. CASE InitKeys
  BY <1>14 DEF InitKeys
<1>15. CASE Open \/ OpenFails
  BY <1>15 DEF Open, OpenFails, local
<1>16. CASE Exit
  BY <1>16, IdleType DEF Exit
<1>17. CASE Kill
  BY <1>17, IdleType DEF Kill
<1>18. CASE Expire
  <2>1. disk' \in Saved
    BY <1>18 DEF Expire, Saved, Token
  <2> QED BY <1>18, <2>1 DEF Expire
<1>19. CASE ChangeMaster
  BY <1>19 DEF ChangeMaster, local
<1>20. CASE ClearKeyring
  BY <1>20, UnlockAssumption DEF ClearKeyring, local, Password, Typo
<1>21. CASE UNCHANGED vars
  BY <1>21 DEF vars, local
<1> QED
  BY <1>1, <1>2, <1>3, <1>4, <1>5, <1>6, <1>7, <1>8, <1>9, <1>10, <1>11, <1>12, <1>13, <1>14,
     <1>15, <1>16, <1>17, <1>18, <1>19, <1>20, <1>21 DEF Next

-----------------------------------------------------------------------------
(* Only an accepted grant leads to "store", and the keyring gets nothing    *)
(* that was not there.                                                      *)
LEMMA StepKeyring == IInv /\ [Next]_vars => KeyringOnceRight' /\ Stores'
<1> SUFFICES ASSUME IInv, [Next]_vars  PROVE KeyringOnceRight' /\ Stores'
  OBVIOUS
<1>0. TypeOK /\ KeyringOnceRight /\ Stores /\ master \in Nat
  BY Types DEF IInv
<1> USE <1>0, Types DEF KeyringOnceRight, Stores, Goto, account
<1>1. CASE Start
  BY <1>1 DEF Start, Entry
<1>2. CASE EnsureToken \/ Gate \/ SelectServer \/ GivesUp \/ LoginPassword
  BY <1>2 DEF EnsureToken, Gate, SelectServer, GivesUp, LoginPassword, local
<1>3. CASE GetPassword
  BY <1>3 DEF GetPassword, AfterPassword
<1>4. CASE DialogFails \/ AnswerCode \/ NoAnswer
  BY <1>4 DEF DialogFails, AnswerCode, NoAnswer, local
<1>5. CASE Answer
  <2>1. pc' # "store"
    BY <1>5 DEF Answer, AfterPassword
  <2> QED BY <1>5, <2>1 DEF Answer
<1>6. CASE Grant
  <2>1. pc' = "store" => Accepts
    BY <1>6 DEF Grant, StepAfter
  <2> QED BY <1>6, <2>1 DEF Grant, Accepts
<1>7. CASE StorePassword
  BY <1>7 DEF StorePassword, local
<1>8. CASE Sync \/ InitKeys \/ Open \/ OpenFails
  BY <1>8 DEF Sync, InitKeys, Open, OpenFails, local
<1>9. CASE Exit \/ Kill
  BY <1>9 DEF Exit, Kill, Idle
<1>10. CASE Expire
  BY <1>10 DEF Expire
<1>11. CASE ChangeMaster \/ ClearKeyring
  BY <1>11 DEF ChangeMaster, ClearKeyring, local
<1>12. CASE UNCHANGED vars
  BY <1>12 DEF vars, local
<1> QED
  BY <1>1, <1>2, <1>3, <1>4, <1>5, <1>6, <1>7, <1>8, <1>9, <1>10, <1>11, <1>12 DEF Next

(* Who knows the password is not asked. *)
Frugal == Blank /\ Sparing /\ Sources

LEMMA StepAsks == IInv /\ [Next]_vars => Frugal'
<1> SUFFICES ASSUME IInv, [Next]_vars  PROVE Frugal'
  OBVIOUS
<1>0. TypeOK /\ Frugal
  BY DEF IInv, Frugal
<1>a. cached \in Nat /\ asked \in Nat /\ env.password \in Nat /\ InKeyring(env) \in Nat
  BY <1>0, Types DEF TypeOK, Password, Typo
<1> USE <1>0, <1>a DEF Frugal, Blank, Sparing, Sources, Goto
<1>1. CASE Start
  BY <1>1 DEF Start, Entry
<1>2. CASE EnsureToken
  BY <1>2 DEF EnsureToken
<1>3. CASE Gate
  BY <1>3 DEF Gate, local
<1>4. CASE SelectServer \/ GivesUp
  BY <1>4 DEF SelectServer, GivesUp, local
<1>5. CASE LoginPassword
  BY <1>5 DEF LoginPassword
<1>6. CASE GetPassword
  <2>1. /\ pc' \notin {"idle", "ensure", "gate", "server", "typing"}
        /\ purpose' = purpose /\ purpose # "login"
    BY <1>6 DEF GetPassword, AfterPassword
  <2>2. CASE Source(cached, env) = "dialog"
    <3>1. cached = 0 /\ env.password = 0 /\ UNCHANGED <<cached, env, asked, byHand, from>>
      BY <1>6, <2>2 DEF GetPassword, Source
    <3> QED BY <2>1, <3>1
  <2>3. CASE Source(cached, env) = "cache"
    <3>1. UNCHANGED <<cached, env, asked, byHand, from>> /\ pc' # "ask"
      BY <1>6, <2>3 DEF GetPassword, Remembers, AfterPassword
    <3> QED BY <2>1, <3>1
  <2>4. CASE Source(cached, env) \in {"$PASSWORD", "keyring"}
    <3>1. /\ cached = 0 /\ cached' # 0 /\ cached' \in Nat /\ pc' # "ask"
          /\ UNCHANGED <<env, asked, byHand>> /\ from' = Source(cached, env)
      BY <1>6, <2>4 DEF GetPassword, Source, Remembers, AfterPassword
    <3>2. /\ from' = "$PASSWORD" => env.password # 0
          /\ from' = "keyring" => env.password = 0 /\ env.tool = "works"
      BY <1>6, <2>4, <3>1 DEF Source, InKeyring
    <3> QED BY <2>1, <2>4, <3>1, <3>2
  <2> QED BY <2>2, <2>3, <2>4 DEF Source
<1>7. CASE DialogFails
  BY <1>7 DEF DialogFails
<1>8. CASE Answer
  <2>1. pc' \notin {"idle", "ensure", "gate", "server", "typing", "ask"}
    BY <1>8 DEF Answer, AfterPassword
  <2>2. PICK pw \in Answers :
          /\ typed' = pw /\ asked' = (IF pw = 0 THEN asked ELSE asked + 1)
          /\ IF purpose = "login"
               THEN Goto("grant") /\ byHand' = TRUE /\ UNCHANGED <<cached, from>>
               ELSE /\ Goto(AfterPassword(purpose)) /\ UNCHANGED byHand
                    /\ cached' = Remembers("dialog", pw) /\ from' = "dialog"
    BY <1>8 DEF Answer
  <2>3. pw \in Nat /\ env' = env
    BY <1>8, Types, UnlockAssumption DEF Answer, Answers, Password, Typo
  <2>4. CASE purpose = "login"
    BY <1>8, <2>1, <2>2, <2>3, <2>4 DEF Answer
  <2>5. CASE purpose # "login"
    BY <1>8, <2>1, <2>2, <2>3, <2>5 DEF Answer, Remembers
  <2> QED BY <2>4, <2>5
<1>9. CASE AnswerCode \/ NoAnswer
  BY <1>9 DEF AnswerCode, NoAnswer, local
<1>10. CASE Grant
  <2>1. pc' \in {"exit", "store", "sync", "code"}
    BY <1>10 DEF Grant, StepAfter
  <2>2. UNCHANGED <<cached, env, asked, byHand, from, purpose>>
    BY <1>10 DEF Grant
  <2> QED BY <2>1, <2>2
<1>11. CASE StorePassword
  BY <1>11 DEF StorePassword, local
<1>12. CASE Sync \/ InitKeys
  BY <1>12 DEF Sync, InitKeys
<1>13. CASE Open \/ OpenFails
  BY <1>13 DEF Open, OpenFails, local
<1>14. CASE Exit \/ Kill
  BY <1>14 DEF Exit, Kill, Idle
<1>15. CASE Expire
  BY <1>15 DEF Expire
<1>16. CASE ChangeMaster \/ ClearKeyring
  BY <1>16 DEF ChangeMaster, ClearKeyring, local
<1>17. CASE UNCHANGED vars
  BY <1>17 DEF vars, local
<1> QED
  BY <1>1, <1>2, <1>3, <1>4, <1>5, <1>6, <1>7, <1>8, <1>9, <1>10, <1>11, <1>12, <1>13, <1>14,
     <1>15, <1>16, <1>17 DEF Next

(* After a dialog the keyring stays as empty as it was found.               *)
LEMMA StepUnstored == IInv /\ [Next]_vars => Unstored'
<1> SUFFICES ASSUME IInv, [Next]_vars  PROVE Unstored'
  OBVIOUS
<1>0. Blank /\ Sparing /\ Unstored
  BY DEF IInv
<1> USE <1>0 DEF Unstored, Goto, account
<1>1. CASE Start
  BY <1>1 DEF Start, Entry, Blank
<1>2. CASE EnsureToken \/ LoginPassword
  BY <1>2 DEF EnsureToken, LoginPassword
<1>3. CASE Gate \/ SelectServer \/ GivesUp
  BY <1>3 DEF Gate, SelectServer, GivesUp, local
<1>4. CASE GetPassword
  <2>1. /\ pc' \in {"ask", "grant", "open", "keys"} /\ purpose' = purpose /\ purpose # "login"
        /\ UNCHANGED <<keyring, env>>
    BY <1>4 DEF GetPassword, AfterPassword, Sparing
  <2>2. CASE Source(cached, env) = "dialog"
    <3>1. keyring = 0 \/ env.tool # "works"
      BY <2>2 DEF Source, InKeyring
    <3> QED BY <2>1, <3>1
  <2>3. CASE Source(cached, env) # "dialog"
    <3>1. pc' # "ask" /\ from' \in {from, "$PASSWORD", "keyring"}
      BY <1>4, <2>3 DEF GetPassword, Source, AfterPassword
    <3> QED BY <2>1, <3>1
  <2> QED BY <2>2, <2>3
<1>5. CASE DialogFails
  BY <1>5 DEF DialogFails
<1>6. CASE Answer
  <2>1. /\ pc' \in {"grant", "open", "keys"} /\ purpose' = purpose
        /\ UNCHANGED <<keyring, env>>
        /\ IF purpose = "login" THEN from' = from ELSE from' = "dialog"
    BY <1>6 DEF Answer, AfterPassword
  <2> QED BY <1>6, <2>1 DEF Answer
<1>7. CASE AnswerCode \/ NoAnswer
  BY <1>7 DEF AnswerCode, NoAnswer, local
<1>8. CASE Grant
  <2>1. /\ pc' \in {"exit", "store", "sync", "code"} /\ (pc' = "store" => purpose = "login")
        /\ UNCHANGED <<keyring, env, from, purpose>>
    BY <1>8 DEF Grant, StepAfter
  <2> QED BY <2>1
<1>9. CASE StorePassword
  BY <1>9 DEF StorePassword, local
<1>10. CASE Sync \/ InitKeys
  BY <1>10 DEF Sync, InitKeys
<1>11. CASE Open \/ OpenFails
  BY <1>11 DEF Open, OpenFails, local
<1>12. CASE Exit \/ Kill
  BY <1>12 DEF Exit, Kill, Idle
<1>13. CASE Expire
  BY <1>13 DEF Expire
<1>14. CASE ChangeMaster \/ ClearKeyring
  BY <1>14 DEF ChangeMaster, ClearKeyring, local
<1>15. CASE UNCHANGED vars
  BY <1>15 DEF vars, account, local
<1> QED
  BY <1>1, <1>2, <1>3, <1>4, <1>5, <1>6, <1>7, <1>8, <1>9, <1>10, <1>11, <1>12, <1>13, <1>14,
     <1>15 DEF Next

(* A token comes from the account's own server, the one place where a grant *)
(* is accepted.                                                             *)
LEMMA StepHome == IInv /\ [Next]_vars => AtHome'
<1> SUFFICES ASSUME IInv, [Next]_vars  PROVE AtHome'
  OBVIOUS
<1>0. TypeOK /\ AtHome
  BY DEF IInv
<1> USE <1>0, Types DEF AtHome, Goto, account
<1>1. CASE Start
  BY <1>1 DEF Start, Entry, FirstServer
<1>2. CASE EnsureToken
  BY <1>2 DEF EnsureToken
<1>3. CASE Gate \/ GivesUp
  BY <1>3 DEF Gate, GivesUp, local
<1>4. CASE SelectServer
  BY <1>4 DEF SelectServer
<1>5. CASE LoginPassword
  BY <1>5 DEF LoginPassword
<1>6. CASE GetPassword
  <2>1. pc' \in {"ask", "grant", "open", "keys"} /\ UNCHANGED <<mem, disk, where, setup>> /\ pc # "idle"
    BY <1>6 DEF GetPassword, AfterPassword
  <2> QED BY <2>1
<1>7. CASE DialogFails \/ AnswerCode \/ NoAnswer
  BY <1>7 DEF DialogFails, AnswerCode, NoAnswer, local
<1>8. CASE Answer
  <2>1. pc' \in {"grant", "open", "keys"} /\ UNCHANGED <<mem, disk, where, setup>> /\ pc # "idle"
    BY <1>8 DEF Answer, AfterPassword
  <2> QED BY <2>1
<1>9. CASE Grant
  <2>1. pc' \in {"exit", "store", "sync", "code"} /\ UNCHANGED <<disk, where, setup>> /\ pc # "idle"
    BY <1>9 DEF Grant, StepAfter
  <2>2. CASE mem' = mem /\ pc' \in {"exit", "code"}
    BY <2>1, <2>2
  <2>3. CASE /\ mem' = [mem EXCEPT !.token = [home |-> where, since |-> master, fresh |-> TRUE]]
             /\ where = setup.home
    <3>1. mem'.token = [home |-> where, since |-> master, fresh |-> TRUE]
      BY <2>3 DEF TypeOK, Saved
    <3> QED BY <2>1, <2>3, <3>1 DEF Server
  <2> QED BY <1>9, <2>2, <2>3 DEF Grant, Accepts, StepAfter
<1>10. CASE StorePassword
  BY <1>10 DEF StorePassword, local
<1>11. CASE Sync
  <2>1. mem'.token = mem.token
    BY <1>11 DEF Sync, TypeOK, Saved
  <2> QED BY <1>11, <2>1 DEF Sync
<1>12. CASE InitKeys \/ Open \/ OpenFails
  BY <1>12 DEF InitKeys, Open, OpenFails, local
<1>13. CASE Exit \/ Kill
  BY <1>13 DEF Exit, Kill, Idle
<1>14. CASE Expire
  <2>1. disk'.token = [disk.token EXCEPT !.fresh = FALSE] /\ mem' = disk'
    BY <1>14 DEF Expire, TypeOK, Saved
  <2> QED BY <1>14, <2>1 DEF Expire, TypeOK, Saved, Token
<1>15. CASE ChangeMaster \/ ClearKeyring
  BY <1>15 DEF ChangeMaster, ClearKeyring, local
<1>16. CASE UNCHANGED vars
  BY <1>16 DEF vars, local
<1> QED
  BY <1>1, <1>2, <1>3, <1>4, <1>5, <1>6, <1>7, <1>8, <1>9, <1>10, <1>11, <1>12, <1>13, <1>14,
     <1>15, <1>16 DEF Next

LEMMA Invariance == Spec => []IInv
<1>1. IInv /\ [Next]_vars => IInv'
  BY StepType, StepKeyring, StepAsks, StepUnstored, StepHome DEF IInv, Frugal
<1> QED BY <1>1, InitInv, PTL DEF Spec

-----------------------------------------------------------------------------
(* Every variable keeps its type, for any bound and any environments.       *)
THEOREM TypeCorrect == Spec => []TypeOK
<1>1. IInv => TypeOK
  BY DEF IInv
<1> QED BY <1>1, Invariance, PTL

(* storePasswordLibsecret comes after the server's acceptance: the keyring  *)
(* has nothing that never was the master password.                          *)
THEOREM KeyringIsRight == Spec => []KeyringOnceRight
<1>1. IInv => KeyringOnceRight
  BY DEF IInv
<1> QED BY <1>1, Invariance, PTL

(* secrets._password is asked for once, whoever needs it first.             *)
THEOREM PasswordAskedOnce == Spec => []AsksOnce
<1>1. IInv => AsksOnce
  BY DEF IInv, TypeOK, Sparing, AsksOnce
<1> QED BY <1>1, Invariance, PTL

(* What status says and where password() has it from: the one exception is  *)
(* a keyring that is locked.                                                *)
THEOREM StatusIsTrue == Spec => []StatusTells
<1>1. IInv => StatusTells
  <2> SUFFICES ASSUME IInv  PROVE StatusTells
    OBVIOUS
  <2>1. env \in Environment
    BY UnlockAssumption DEF IInv, TypeOK, Environment, NoEnv, Password, Typo
  <2>2. /\ from \in {"none", "$PASSWORD", "keyring", "dialog"} /\ Sources /\ Unstored
        /\ env.tool \in {"none", "works", "locked"}
    BY <2>1 DEF IInv, TypeOK, Environment
  <2> QED BY <2>2 DEF Sources, Unstored, StatusTells, PasswordSource
<1> QED BY <1>1, Invariance, PTL

(* No token leaves for a server that config does not name, or that is not   *)
(* the account's, as long as config and account agree.                      *)
THEOREM TokenStaysHome == Spec => []TokenAtHome
<1>1. IInv => TokenAtHome
  BY Types DEF IInv, AtHome, TokenAtHome, FirstServer, Server
<1> QED BY <1>1, Invariance, PTL

-----------------------------------------------------------------------------
(* The numbers that the digits read so far mean. *)
Horner(d, base, r) ==
  /\ r[0] = 0 /\ r[Len(d)] = Value(d, base)
  /\ \A k \in 1..Len(d) : r[k] = base * r[k - 1] + d[k]

LEMMA Listing ==
  ASSUME NEW n \in Nat, NEW S, NEW f \in [1..n -> S]
  PROVE  f \in Seq(S) /\ Len(f) = n /\ DOMAIN f = 1..n
  OBVIOUS

LEMMA ValueSteps ==
  ASSUME NEW base \in Int, NEW d \in Seq(Int)
  PROVE  \E r \in [0..Len(d) -> Int] : Horner(d, base, r)
<1> DEFINE n == Len(d)
           zero == 0
           step == [x \in Int \X Int |-> base * x[1] + x[2]]
           t == CHOOSE t : t = [S \in SUBSET (1..n) |->
                  IF S = {} THEN zero ELSE base * t[S \ {Max(S)}] + d[Max(S)]]
<1>1. n \in Nat /\ d \in [1..n -> Int] /\ DOMAIN d = 1..n /\ zero \in Int
  BY LenProperties
<1>2. step \in [Int \X Int -> Int]
  OBVIOUS
<1>3. \A v, x \in Int : step[<<v, x>>] = base * v + x
  OBVIOUS
<1>4. Value(d, base) = t[1..n]
  BY <1>1, Zenon DEF Value, FoldLeft, MapThenFoldSet
<1> HIDE DEF step, n, zero
<1>5. PICK u \in [SUBSET (1..n) -> Int], r \in [0..n -> Int] :
         Table(zero, step, n, d, u) /\ Chain(zero, step, n, d, u, r)
  BY <1>1, <1>2, FoldSteps
<1>6. u = [S \in SUBSET (1..n) |->
             IF S = {} THEN zero ELSE base * u[S \ {Max(S)}] + d[Max(S)]]
  <2>1. ASSUME NEW S \in SUBSET (1..n), S # {}
        PROVE  step[<<u[S \ {Max(S)}], d[Max(S)]>>] = base * u[S \ {Max(S)}] + d[Max(S)]
    <3>1. Max(S) \in 1..n /\ S \ {Max(S)} \in SUBSET (1..n)
      BY <1>1, <2>1, GreatestIsOne
    <3> QED BY <1>1, <1>3, <3>1
  <2> QED BY <1>5, <2>1, Zenon DEF Table
<1>7. t = [S \in SUBSET (1..n) |->
             IF S = {} THEN zero ELSE base * t[S \ {Max(S)}] + d[Max(S)]]
  BY <1>6, Zenon
<1> HIDE DEF t
<1>8. {} \in SUBSET (1..n)
  OBVIOUS
<1>9. t[{}] = u[{}]
  BY <1>6, <1>7, <1>8, Zenon
<1>10. \A S \in SUBSET (1..n) : S # {} /\ t[S \ {Max(S)}] = u[S \ {Max(S)}] => t[S] = u[S]
  BY <1>6, <1>7, Zenon
<1>11. t[1..n] = u[1..n]
  BY <1>1, <1>9, <1>10, FoldsAgree
<1>12. \A k \in 1..n : r[k] = base * r[k - 1] + d[k]
  <2> SUFFICES ASSUME NEW k \in 1..n PROVE r[k] = base * r[k - 1] + d[k]
    OBVIOUS
  <2>1. r[k - 1] \in Int /\ d[k] \in Int
    BY <1>1, <1>5
  <2> QED BY <1>3, <1>5, <2>1 DEF Chain
<1> QED BY <1>4, <1>5, <1>11, <1>12 DEF n, zero, Chain, Horner

(* Eight bits make a byte, five a character of base32. *)
LEMMA ByteOfBits ==
  ASSUME NEW b \in 0..255, NEW d \in [1..8 -> Int],
         \A j \in 1..8 : d[j] = (b \div Weight8[j]) % 2
  PROVE  Value(d, 2) = b
<1>1. d \in Seq(Int) /\ Len(d) = 8
  <2>1. 8 \in Nat /\ d \in [1..8 -> Int]
    OBVIOUS
  <2> QED BY <2>1, Listing
<1>2. PICK r \in [0..8 -> Int] : Horner(d, 2, r)
  <2> DEFINE base == 2
  <2>1. base \in Int
    OBVIOUS
  <2> HIDE DEF base
  <2>2. \E r \in [0..Len(d) -> Int] : Horner(d, base, r)
    BY <1>1, <2>1, ValueSteps
  <2> QED BY <1>1, <2>2 DEF base
<1>3. /\ r[0] = 0 /\ r[8] = Value(d, 2)
      /\ r[1] = 2 * r[0] + d[1] /\ r[2] = 2 * r[1] + d[2] /\ r[3] = 2 * r[2] + d[3]
      /\ r[4] = 2 * r[3] + d[4] /\ r[5] = 2 * r[4] + d[5] /\ r[6] = 2 * r[5] + d[6]
      /\ r[7] = 2 * r[6] + d[7] /\ r[8] = 2 * r[7] + d[8]
  BY <1>1, <1>2 DEF Horner
<1>4. /\ d[1] = (b \div 128) % 2 /\ d[2] = (b \div 64) % 2 /\ d[3] = (b \div 32) % 2
      /\ d[4] = (b \div 16) % 2 /\ d[5] = (b \div 8) % 2 /\ d[6] = (b \div 4) % 2
      /\ d[7] = (b \div 2) % 2 /\ d[8] = (b \div 1) % 2
  BY DEF Weight8
<1>5. \A j \in 0..8 : r[j] \in Int
  BY <1>2
<1>6. /\ r[1] = b \div 128 /\ r[2] = b \div 64 /\ r[3] = b \div 32 /\ r[4] = b \div 16
      /\ r[5] = b \div 8 /\ r[6] = b \div 4 /\ r[7] = b \div 2 /\ r[8] = b
  BY <1>3, <1>4
<1> QED BY <1>3, <1>6

LEMMA BitsOfChar ==
  ASSUME NEW d \in [1..5 -> {0, 1}]
  PROVE  /\ Value(d, 2) \in 0..31
         /\ \A j \in 1..5 : (Value(d, 2) \div Weight5[j]) % 2 = d[j]
<1>1. d \in Seq(Int) /\ Len(d) = 5
  <2>1. 5 \in Nat /\ d \in [1..5 -> Int]
    OBVIOUS
  <2> QED BY <2>1, Listing
<1>2. PICK r \in [0..5 -> Int] : Horner(d, 2, r)
  <2> DEFINE base == 2
  <2>1. base \in Int
    OBVIOUS
  <2> HIDE DEF base
  <2>2. \E r \in [0..Len(d) -> Int] : Horner(d, base, r)
    BY <1>1, <2>1, ValueSteps
  <2> QED BY <1>1, <2>2 DEF base
<1>3. /\ r[0] = 0 /\ r[5] = Value(d, 2)
      /\ r[1] = 2 * r[0] + d[1] /\ r[2] = 2 * r[1] + d[2] /\ r[3] = 2 * r[2] + d[3]
      /\ r[4] = 2 * r[3] + d[4] /\ r[5] = 2 * r[4] + d[5]
  BY <1>1, <1>2 DEF Horner
<1>4. /\ d[1] \in 0..1 /\ d[2] \in 0..1 /\ d[3] \in 0..1 /\ d[4] \in 0..1 /\ d[5] \in 0..1
  OBVIOUS
<1>5. Value(d, 2) = 16 * d[1] + 8 * d[2] + 4 * d[3] + 2 * d[4] + d[5]
  <2>1. \A j \in 0..5 : r[j] \in Int
    BY <1>2
  <2>2. \A a, b, c, e, f, r0, r1, r2, r3, r4, r5 \in Int :
          r0 = 0 /\ r1 = 2 * r0 + a /\ r2 = 2 * r1 + b /\ r3 = 2 * r2 + c /\ r4 = 2 * r3 + e
          /\ r5 = 2 * r4 + f => r5 = 16 * a + 8 * b + 4 * c + 2 * e + f
    OBVIOUS
  <2>3. d[1] \in Int /\ d[2] \in Int /\ d[3] \in Int /\ d[4] \in Int /\ d[5] \in Int
    BY <1>4
  <2>4. r[5] = 16 * d[1] + 8 * d[2] + 4 * d[3] + 2 * d[4] + d[5]
    BY <1>3, <2>1, <2>2, <2>3
  <2> QED BY <1>3, <2>4
<1> DEFINE v == Value(d, 2)
<1> HIDE DEF v
<1>6. v \in 0..31 /\ v = 16 * d[1] + 8 * d[2] + 4 * d[3] + 2 * d[4] + d[5]
  BY <1>4, <1>5 DEF v
<1>7. /\ (v \div 16) % 2 = d[1] /\ (v \div 8) % 2 = d[2] /\ (v \div 4) % 2 = d[3]
      /\ (v \div 2) % 2 = d[4] /\ (v \div 1) % 2 = d[5]
  <2>1. \A a, b, c, e, f \in 0..1 :
          LET w == 16 * a + 8 * b + 4 * c + 2 * e + f IN
          /\ (w \div 16) % 2 = a /\ (w \div 8) % 2 = b /\ (w \div 4) % 2 = c
          /\ (w \div 2) % 2 = e /\ (w \div 1) % 2 = f
    OBVIOUS
  <2> DEFINE a == d[1]  b == d[2]  c == d[3]  e == d[4]  f == d[5]
  <2>2. /\ a \in 0..1 /\ b \in 0..1 /\ c \in 0..1 /\ e \in 0..1 /\ f \in 0..1
        /\ v = 16 * a + 8 * b + 4 * c + 2 * e + f
    BY <1>4, <1>6
  <2> HIDE DEF a, b, c, e, f
  <2>3. /\ (v \div 16) % 2 = a /\ (v \div 8) % 2 = b /\ (v \div 4) % 2 = c
        /\ (v \div 2) % 2 = e /\ (v \div 1) % 2 = f
    BY <2>1, <2>2
  <2> QED BY <2>3 DEF a, b, c, e, f
<1>8. \A j \in 1..5 : (v \div Weight5[j]) % 2 = d[j]
  BY <1>7 DEF Weight5
<1> QED BY <1>6, <1>8 DEF v

-----------------------------------------------------------------------------
(* What is left of a text, character by character. *)
Thinned(s, x, r) ==
  /\ r[0] = <<>> /\ r[Len(s)] = Without(s, x)
  /\ \A k \in 1..Len(s) : r[k] = IF s[k] = x THEN r[k - 1] ELSE Append(r[k - 1], s[k])

LEMMA WithoutSteps ==
  ASSUME NEW C, NEW s \in Seq(C), NEW x
  PROVE  \E r \in [0..Len(s) -> Seq(C)] : Thinned(s, x, r)
<1> DEFINE n == Len(s)
           none == <<>>
           A == Seq(C)
           put(z, c) == IF c = x THEN z ELSE Append(z, c)
           step == [y \in A \X C |-> put(y[1], y[2])]
           t == CHOOSE t : t = [S \in SUBSET (1..n) |->
                  IF S = {} THEN none ELSE put(t[S \ {Max(S)}], s[Max(S)])]
<1>1. n \in Nat /\ s \in [1..n -> C] /\ DOMAIN s = 1..n /\ none \in A
  BY LenProperties, EmptySeq
<1>2. step \in [A \X C -> A]
  <2>1. ASSUME NEW z \in A, NEW c \in C  PROVE put(z, c) \in A
    BY AppendProperties
  <2> HIDE DEF put, A
  <2> QED BY <2>1
<1>3. \A z \in A, c \in C : step[<<z, c>>] = put(z, c)
  OBVIOUS
<1>4. Without(s, x) = t[1..n]
  BY <1>1, Zenon DEF Without, FoldLeft, MapThenFoldSet
<1> HIDE DEF step, n, none, A
<1>5. PICK u \in [SUBSET (1..n) -> A], r \in [0..n -> A] :
         Table(none, step, n, s, u) /\ Chain(none, step, n, s, u, r)
  BY <1>1, <1>2, FoldSteps
<1>6. u = [S \in SUBSET (1..n) |->
             IF S = {} THEN none ELSE put(u[S \ {Max(S)}], s[Max(S)])]
  <2>1. ASSUME NEW S \in SUBSET (1..n), S # {}
        PROVE  step[<<u[S \ {Max(S)}], s[Max(S)]>>] = put(u[S \ {Max(S)}], s[Max(S)])
    <3>1. Max(S) \in 1..n /\ S \ {Max(S)} \in SUBSET (1..n)
      BY <1>1, <2>1, GreatestIsOne
    <3>2. u[S \ {Max(S)}] \in A /\ s[Max(S)] \in C
      BY <1>1, <3>1
    <3> HIDE DEF put
    <3> QED BY <1>3, <3>2
  <2> HIDE DEF put
  <2> QED BY <1>5, <2>1, Zenon DEF Table
<1>7. t = [S \in SUBSET (1..n) |->
             IF S = {} THEN none ELSE put(t[S \ {Max(S)}], s[Max(S)])]
  BY <1>6, Zenon
<1> HIDE DEF t
<1>8. {} \in SUBSET (1..n)
  OBVIOUS
<1>9. t[{}] = u[{}]
  BY <1>6, <1>7, <1>8, Zenon
<1>10. \A S \in SUBSET (1..n) : S # {} /\ t[S \ {Max(S)}] = u[S \ {Max(S)}] => t[S] = u[S]
  <2> HIDE DEF put
  <2> QED BY <1>6, <1>7, Zenon
<1>11. t[1..n] = u[1..n]
  BY <1>1, <1>9, <1>10, FoldsAgree
<1>12. \A k \in 1..n : r[k] = put(r[k - 1], s[k])
  <2> SUFFICES ASSUME NEW k \in 1..n PROVE r[k] = put(r[k - 1], s[k])
    OBVIOUS
  <2>1. r[k - 1] \in A /\ s[k] \in C
    BY <1>1, <1>5
  <2> HIDE DEF put
  <2> QED BY <1>3, <1>5, <2>1 DEF Chain
<1> QED BY <1>4, <1>5, <1>11, <1>12 DEF n, none, A, Chain, Thinned

(* If a character occurs in one place after the other, after p others, up to *)
(* place q, then what precedes and what follows are left.                   *)
Block(s, x, p, q) ==
  p <= q /\ q <= Len(s) /\ \A i \in 1..Len(s) : s[i] = x <=> p < i /\ i <= q
Rest(C, s, p, q, z) ==
  /\ z \in Seq(C) /\ Len(z) = Len(s) - (q - p)
  /\ \A i \in 1..(Len(s) - (q - p)) : z[i] = IF i <= p THEN s[i] ELSE s[i + (q - p)]

LEMMA WithoutBlock ==
  ASSUME NEW C, NEW s \in Seq(C), NEW x, NEW p \in Nat, NEW q \in Nat, Block(s, x, p, q)
  PROVE  Rest(C, s, p, q, Without(s, x))
<1> DEFINE n == Len(s)
           left(k) == IF k <= p THEN k ELSE IF k <= q THEN p ELSE k - (q - p)
           that(k) == [i \in 1..left(k) |-> IF i <= p THEN s[i] ELSE s[i + (q - p)]]
<1>0. n \in Nat /\ \A i \in 1..n : s[i] \in C
  BY LenProperties, ElementOfSeq
<1>1. PICK r \in [0..n -> Seq(C)] : Thinned(s, x, r)
  BY WithoutSteps
<1>2. /\ r[0] = <<>> /\ r[n] = Without(s, x)
      /\ \A k \in 1..n : r[k] = IF s[k] = x THEN r[k - 1] ELSE Append(r[k - 1], s[k])
  BY <1>1 DEF Thinned
<1>3. p <= q /\ q <= n /\ \A i \in 1..n : s[i] = x <=> p < i /\ i <= q
  BY DEF Block
<1> HIDE DEF n
<1> DEFINE T == {k \in 0..n : r[k] = that(k)}
<1>4. 0 \in T
  <2>1. left(0) = 0 /\ 0 \in 0..n /\ 1..0 = {}
    BY <1>0
  <2>2. that(0) = <<>>
    BY <2>1
  <2> QED BY <1>2, <2>1, <2>2
<1>5. ASSUME NEW k \in 1..n, k - 1 \in T  PROVE k \in T
  <2>1. r[k - 1] = that(k - 1) /\ k \in 0..n
    BY <1>0, <1>5
  <2>2. CASE p < k /\ k <= q
    <3>1. left(k) = left(k - 1)
      BY <1>0, <2>2
    <3>2. r[k] = r[k - 1]
      BY <1>2, <1>3, <2>2
    <3>3. that(k) = that(k - 1)
      BY <3>1
    <3> QED BY <2>1, <3>2, <3>3
  <2>3. CASE ~(p < k /\ k <= q)
    <3>1. r[k] = Append(r[k - 1], s[k])
      BY <1>2, <1>3, <2>3
    <3>2. /\ left(k - 1) \in Nat /\ left(k) = left(k - 1) + 1
          /\ k = (IF left(k) <= p THEN left(k) ELSE left(k) + (q - p))
      BY <1>0, <1>3, <2>3
    <3> DEFINE m == left(k - 1)
               e(i) == IF i <= p THEN s[i] ELSE s[i + (q - p)]
    <3>3. \A i \in 1..m : e(i) \in C
      <4> SUFFICES ASSUME NEW i \in 1..m  PROVE e(i) \in C
        OBVIOUS
      <4>1. m <= k - 1 /\ (~(i <= p) => i + (q - p) \in 1..n) /\ (i <= p => i \in 1..n)
        BY <1>0, <1>3, <2>3
      <4> QED BY <1>0, <4>1
    <3>4. that(k - 1) = [i \in 1..m |-> e(i)] /\ that(k) = [i \in 1..(m + 1) |-> e(i)]
          /\ m \in Nat /\ s[k] = e(m + 1) /\ s[k] \in C
      BY <1>0, <1>3, <3>2
    <3> HIDE DEF m, e, left
    <3>5. that(k - 1) \in Seq(C) /\ Len(that(k - 1)) = m
      <4>1. [i \in 1..m |-> e(i)] \in [1..m -> C]
        BY <3>3
      <4> QED BY <3>4, <4>1, Listing
    <3>6. Append(that(k - 1), s[k]) = [i \in 1..(m + 1) |-> e(i)]
      <4> DEFINE z == that(k - 1)
      <4>1. z \in Seq(C) /\ Len(z) = m /\ m \in Nat /\ \A i \in 1..m : z[i] = e(i)
        BY <3>4, <3>5
      <4> HIDE DEF z
      <4>2. /\ Append(z, s[k]) \in Seq(C) /\ Len(Append(z, s[k])) = m + 1
            /\ \A i \in 1..m : Append(z, s[k])[i] = z[i]
            /\ Append(z, s[k])[m + 1] = s[k]
        BY <3>4, <4>1, AppendProperties
      <4>3. \A i \in 1..(m + 1) : Append(z, s[k])[i] = e(i)
        BY <3>4, <4>1, <4>2
      <4>4. DOMAIN Append(z, s[k]) = 1..(m + 1) /\ Append(z, s[k]) = [i \in 1..(m + 1) |-> Append(z, s[k])[i]]
        BY <4>1, <4>2
      <4>5. Append(z, s[k]) = [i \in 1..(m + 1) |-> e(i)]
        BY <4>3, <4>4
      <4> QED BY <4>5 DEF z
    <3> QED BY <2>1, <3>1, <3>4, <3>6
  <2> QED BY <2>2, <2>3
<1> HIDE DEF T
<1>6. n \in T
  <2>1. \A k \in 0..n : k \in T
    <3>1. \A k \in 1..n : k - 1 \in T => k \in T
      BY <1>5
    <3> QED BY <1>0, <1>4, <3>1, UpTo
  <2> QED BY <1>0, <2>1
<1>7. left(n) = n - (q - p)
  BY <1>0, <1>3
<1>8. r[n] = that(n)
  BY <1>6 DEF T
<1>9. that(n) = [i \in 1..(n - (q - p)) |-> IF i <= p THEN s[i] ELSE s[i + (q - p)]]
  BY <1>7, Zenon
<1> DEFINE z == Without(s, x)
<1>10. z \in Seq(C)
  BY <1>0, <1>1, <1>2
<1>11. z = [i \in 1..(n - (q - p)) |-> IF i <= p THEN s[i] ELSE s[i + (q - p)]]
  BY <1>2, <1>8, <1>9
<1> HIDE DEF z
<1>12. n - (q - p) \in Nat /\ DOMAIN z = 1..(n - (q - p))
  BY <1>0, <1>3, <1>11
<1>13. Len(z) = n - (q - p)
  BY <1>10, <1>12, LenProperties
<1> QED BY <1>10, <1>11, <1>13 DEF n, z, Rest

(* What has no x loses nothing; an x in one place is all that is lost. *)
LEMMA WithoutNone ==
  ASSUME NEW C, NEW s \in Seq(C), NEW x, \A i \in 1..Len(s) : s[i] # x
  PROVE  Without(s, x) = s
<1> DEFINE p == 0
<1>1. p \in Nat /\ Block(s, x, p, p)
  BY LenProperties DEF Block
<1>2. p = 0
  OBVIOUS
<1> HIDE DEF p
<1> DEFINE z == Without(s, x)
<1>3. Rest(C, s, p, p, z)
  BY <1>1, WithoutBlock
<1> HIDE DEF z
<1>4. z \in Seq(C) /\ Len(z) = Len(s) - (p - p)
      /\ \A i \in 1..(Len(s) - (p - p)) : z[i] = IF i <= p THEN s[i] ELSE s[i + (p - p)]
  BY <1>3 DEF Rest
<1>5. Len(z) = Len(s) /\ \A i \in 1..Len(s) : z[i] = s[i]
  <2>1. Len(s) \in Nat /\ Len(s) - (p - p) = Len(s) /\ \A i \in 1..Len(s) : i + (p - p) = i
    BY <1>2, LenProperties
  <2> QED BY <1>4, <2>1
<1>6. z = s
  BY <1>4, <1>5, SeqEqual
<1> QED BY <1>6 DEF z

LEMMA WithoutOne ==
  ASSUME NEW C, NEW s \in Seq(C), NEW x \in C, \A i \in 1..Len(s) : s[i] # x, Len(s) >= 2
  PROVE  Without(SubSeq(s, 1, 2) \o <<x>> \o SubSeq(s, 3, Len(s)), x) = s
<1> DEFINE m == Len(s)
           a == SubSeq(s, 1, 2)
           e == <<x>>
           b == SubSeq(s, 3, m)
           c == a \o e
           raw == c \o b
           z == Without(raw, x)
           p == 2
           q == 3
<1>1. m \in Nat /\ m >= 2 /\ \A i \in 1..m : s[i] \in C
  BY LenProperties, ElementOfSeq
<1> HIDE DEF m
<1>2. a \in Seq(C) /\ Len(a) = 2 /\ \A i \in 1..2 : a[i] = s[i]
  <2>1. \A i \in 1..2 : s[i] \in C
    BY <1>1
  <2>2. \A i \in 1..2 : 1 + i - 1 = i
    OBVIOUS
  <2> QED BY <1>1, <2>1, <2>2, SubSeqProperties
<1>3. b \in Seq(C) /\ Len(b) = m - 2 /\ \A i \in 1..(m - 2) : b[i] = s[i + 2]
  <2>1. \A i \in 3..m : s[i] \in C
    BY <1>1
  <2>2. b \in Seq(C) /\ Len(b) = (IF 3 <= m THEN m - 3 + 1 ELSE 0)
    BY <1>1, <2>1, SubSeqProperties
  <2>3. \A i \in 1..(m - 3 + 1) : b[i] = s[3 + i - 1]
    BY <1>1, <2>1, SubSeqProperties
  <2> HIDE DEF b
  <2>4. m - 3 + 1 = m - 2 /\ (IF 3 <= m THEN m - 3 + 1 ELSE 0) = m - 2
        /\ \A i \in 1..(m - 2) : 3 + i - 1 = i + 2
    BY <1>1
  <2> QED BY <2>2, <2>3, <2>4
<1>4. e \in Seq(C) /\ Len(e) = 1 /\ e[1] = x
  OBVIOUS
<1> HIDE DEF a, b, e
<1>5. /\ c \in Seq(C) /\ Len(c) = 3
      /\ \A i \in 1..3 : c[i] = IF i <= 2 THEN a[i] ELSE x
  <2>1. /\ a \o e \in Seq(C) /\ Len(a \o e) = Len(a) + Len(e)
        /\ \A i \in 1..(Len(a) + Len(e)) :
             (a \o e)[i] = IF i <= Len(a) THEN a[i] ELSE e[i - Len(a)]
    <3>1. a \in Seq(C) /\ e \in Seq(C)
      BY <1>2, <1>4
    <3> QED BY <3>1, ConcatProperties, Zenon
  <2>2. \A i \in 1..3 : ~(i <= 2) => i - 2 = 1
    OBVIOUS
  <2>3. Len(a) + Len(e) = 3
    BY <1>2, <1>4
  <2> QED BY <1>2, <1>4, <2>1, <2>2, <2>3
<1> HIDE DEF c
<1>6. /\ raw \in Seq(C) /\ Len(raw) = m + 1
      /\ \A i \in 1..(m + 1) : raw[i] = IF i <= 3 THEN c[i] ELSE b[i - 3]
  <2>1. /\ c \o b \in Seq(C) /\ Len(c \o b) = Len(c) + Len(b)
        /\ \A i \in 1..(Len(c) + Len(b)) :
             (c \o b)[i] = IF i <= Len(c) THEN c[i] ELSE b[i - Len(c)]
    <3>1. c \in Seq(C) /\ b \in Seq(C)
      BY <1>3, <1>5
    <3> QED BY <3>1, ConcatProperties, Zenon
  <2>2. Len(c) + Len(b) = m + 1 /\ Len(c) = 3
    BY <1>1, <1>3, <1>5
  <2> QED BY <2>1, <2>2
<1> HIDE DEF raw
<1>7. \A i \in 1..(m + 1) : raw[i] = IF i <= 2 THEN s[i] ELSE IF i = 3 THEN x ELSE s[i - 1]
  <2> SUFFICES ASSUME NEW i \in 1..(m + 1)
               PROVE  raw[i] = IF i <= 2 THEN s[i] ELSE IF i = 3 THEN x ELSE s[i - 1]
    OBVIOUS
  <2>1. CASE i <= 3
    <3>1. i \in 1..3 /\ (~(i <= 2) => i = 3) /\ (i <= 2 => i \in 1..2)
      BY <1>1, <2>1
    <3> QED BY <1>2, <1>5, <1>6, <2>1, <3>1
  <2>2. CASE ~(i <= 3)
    <3>1. i - 3 \in 1..(m - 2) /\ (i - 3) + 2 = i - 1 /\ ~(i <= 2) /\ i # 3
      BY <1>1, <2>2
    <3> QED BY <1>3, <1>6, <2>2, <3>1
  <2> QED BY <2>1, <2>2
<1>8. p \in Nat /\ q \in Nat /\ p <= q /\ q <= Len(raw) /\ p = 2 /\ q = 3
  BY <1>1, <1>6
<1> HIDE DEF p, q
<1>9. Block(raw, x, p, q)
  <2>1. ASSUME NEW i \in 1..(m + 1)  PROVE raw[i] = x <=> i = 3
    <3>1. (i <= 2 => i \in 1..m) /\ (i > 3 => i - 1 \in 1..m)
      BY <1>1
    <3>2. i = 3 => ~(i <= 2)
      OBVIOUS
    <3>3. ~(i <= 2) /\ i # 3 => i > 3
      BY <1>1
    <3>4. \A j \in 1..m : s[j] # x
      BY DEF m
    <3> QED BY <1>7, <3>1, <3>2, <3>3, <3>4
  <2>2. \A i \in 1..(m + 1) : p < i /\ i <= q <=> i = 3
    BY <1>1, <1>8
  <2> QED BY <1>6, <1>8, <2>1, <2>2 DEF Block
<1>10. Rest(C, raw, p, q, z)
  BY <1>6, <1>8, <1>9, WithoutBlock
<1> HIDE DEF z
<1>11. z \in Seq(C) /\ Len(z) = Len(raw) - (q - p)
       /\ \A i \in 1..(Len(raw) - (q - p)) : z[i] = IF i <= p THEN raw[i] ELSE raw[i + (q - p)]
  BY <1>10 DEF Rest
<1>12. Len(raw) - (q - p) = m
  BY <1>1, <1>6, <1>8
<1>13. ASSUME NEW i \in 1..m  PROVE z[i] = s[i]
  <2>1. z[i] = IF i <= 2 THEN raw[i] ELSE raw[i + 1]
    BY <1>1, <1>8, <1>11, <1>12
  <2>2. /\ i \in 1..(m + 1) /\ i + 1 \in 1..(m + 1) /\ (i + 1) - 1 = i
        /\ (~(i <= 2) => ~(i + 1 <= 2) /\ i + 1 # 3)
    BY <1>1
  <2> QED BY <1>7, <2>1, <2>2
<1>14. Len(z) = Len(s) /\ \A i \in 1..Len(s) : z[i] = s[i]
  BY <1>11, <1>12, <1>13 DEF m
<1>15. z = s
  BY <1>11, <1>14, SeqEqual
<1> QED BY <1>15 DEF z, raw, c, a, b, e, m
-----------------------------------------------------------------------------
(* The characters that as many bytes take, and what fills the last group.   *)
Chars(m) == (8 * m + 4) \div 5
Lack(n)  == (-n) % 8

LEMMA Sizes ==
  ASSUME NEW m \in Nat \ {0}
  PROVE  LET n == Chars(m) IN
         /\ n \in Nat /\ n >= 2 /\ n % 8 \in {0, 2, 4, 5, 7}
         /\ (5 * n) \div 8 = m /\ 8 * m <= 5 * n
         /\ Lack(n) \in 0..7 /\ (n + Lack(n)) % 8 = 0 /\ Lack(n + Lack(n)) = 0
<1> DEFINE q == m \div 5  r == m % 5
<1>1. q \in Nat /\ r \in 0..4 /\ m = 5 * q + r
  OBVIOUS
<1> HIDE DEF q, r
<1>2. ASSUME NEW c \in Nat, NEW w \in 0..7, (8 * r + 4) \div 5 = c, (c + w) % 8 = 0,
             c <= 7, c % 8 \in {0, 2, 4, 5, 7}, (5 * c) \div 8 = r, r # 0 => c >= 2
      PROVE  LET n == Chars(m) IN
             /\ n \in Nat /\ n >= 2 /\ n % 8 \in {0, 2, 4, 5, 7}
             /\ (5 * n) \div 8 = m /\ 8 * m <= 5 * n
             /\ Lack(n) \in 0..7 /\ (n + Lack(n)) % 8 = 0 /\ Lack(n + Lack(n)) = 0
  <2>1. Chars(m) = 8 * q + c
    BY <1>1, <1>2 DEF Chars
  <2>2. (5 * (8 * q + c)) \div 8 = 5 * q + r /\ (8 * q + c) % 8 = c
    BY <1>1, <1>2
  <2>3. Lack(8 * q + c) = w /\ (8 * q + c + w) % 8 = 0 /\ Lack(8 * q + c + w) = 0
    BY <1>1, <1>2 DEF Lack
  <2>4. 8 * q + c \in Nat /\ 8 * q + c >= 2 /\ 8 * m <= 5 * (8 * q + c)
    BY <1>1, <1>2
  <2> QED BY <1>1, <1>2, <2>1, <2>2, <2>3, <2>4
<1>3. CASE r = 0
  BY <1>2, <1>3
<1>4. CASE r = 1
  BY <1>2, <1>4
<1>5. CASE r = 2
  BY <1>2, <1>5
<1>6. CASE r = 3
  BY <1>2, <1>6
<1>7. CASE r = 4
  BY <1>2, <1>7
<1> QED BY <1>1, <1>3, <1>4, <1>5, <1>6, <1>7

LEMMA BitsType ==
  ASSUME NEW bytes \in Seq(0..255), NEW k \in Nat
  PROVE  Bits(bytes, k) \in {0, 1}
<1>1. CASE k \div 8 < Len(bytes)
  <2>1. k \div 8 \in Nat /\ k % 8 \in 0..7 /\ Len(bytes) \in Nat
    BY LenProperties
  <2>2. (k \div 8) + 1 \in 1..Len(bytes) /\ (k % 8) + 1 \in 1..8
    BY <1>1, <2>1
  <2>3. bytes[(k \div 8) + 1] \in 0..255
    BY <2>2, ElementOfSeq
  <2>4. \A j \in 1..8 : Weight8[j] \in Nat \ {0}
    BY DEF Weight8
  <2>5. \A b \in 0..255, w \in Nat \ {0} : (b \div w) % 2 \in {0, 1}
    OBVIOUS
  <2> QED BY <1>1, <2>2, <2>3, <2>4, <2>5 DEF Bits
<1>2. CASE ~(k \div 8 < Len(bytes))
  BY <1>2 DEF Bits
<1> QED BY <1>1, <1>2

(* The characters of a secret hold its bits. *)
LEMMA EncodedBits ==
  ASSUME NEW bytes \in Seq(0..255), bytes # <<>>
  PROVE  LET n == Chars(Len(bytes)) IN
         /\ n \in Nat /\ Encoded(bytes) \in [1..n -> 0..31] /\ Len(Encoded(bytes)) = n
         /\ \A k \in 0..(5 * n - 1) :
              (Encoded(bytes)[(k \div 5) + 1] \div Weight5[(k % 5) + 1]) % 2 = Bits(bytes, k)
<1> DEFINE n == Chars(Len(bytes))
           five(i) == [j \in 1..5 |-> Bits(bytes, 5 * (i - 1) + j - 1)]
<1>1. n \in Nat
  <2>1. Len(bytes) \in Nat \ {0}
    BY LenProperties, EmptySeq
  <2> QED BY <2>1, Sizes
<1>2. Encoded(bytes) = [i \in 1..n |-> Value(five(i), 2)]
  BY DEF Encoded, Chars
<1> HIDE DEF n
<1>3. ASSUME NEW i \in 1..n
      PROVE  /\ Encoded(bytes)[i] \in 0..31
             /\ \A j \in 1..5 :
                  (Encoded(bytes)[i] \div Weight5[j]) % 2 = Bits(bytes, 5 * (i - 1) + j - 1)
  <2>1. \A j \in 1..5 : 5 * (i - 1) + j - 1 \in Nat
    BY <1>1
  <2>2. five(i) \in [1..5 -> {0, 1}]
    BY <2>1, BitsType
  <2>3. /\ Value(five(i), 2) \in 0..31
        /\ \A j \in 1..5 : (Value(five(i), 2) \div Weight5[j]) % 2 = five(i)[j]
    <3> HIDE DEF five
    <3> QED BY <2>2, BitsOfChar
  <2>4. Encoded(bytes)[i] = Value(five(i), 2)
    BY <1>2
  <2>5. \A j \in 1..5 : five(i)[j] = Bits(bytes, 5 * (i - 1) + j - 1)
    OBVIOUS
  <2> HIDE DEF five
  <2> QED BY <2>3, <2>4, <2>5
<1>4. Encoded(bytes) \in [1..n -> 0..31]
  <2>1. DOMAIN Encoded(bytes) = 1..n /\ Encoded(bytes) = [i \in 1..n |-> Encoded(bytes)[i]]
    <3> HIDE DEF five
    <3> QED BY <1>2
  <2> QED BY <1>3, <2>1
<1>5. Len(Encoded(bytes)) = n
  BY <1>1, <1>4, Listing
<1>6. ASSUME NEW k \in 0..(5 * n - 1)
      PROVE  (Encoded(bytes)[(k \div 5) + 1] \div Weight5[(k % 5) + 1]) % 2 = Bits(bytes, k)
  <2> DEFINE i == (k \div 5) + 1  j == (k % 5) + 1
  <2>1. i \in 1..n /\ j \in 1..5 /\ 5 * (i - 1) + j - 1 = k
    <3>1. k \div 5 \in Nat /\ k % 5 \in 0..4 /\ k = 5 * (k \div 5) + (k % 5)
      BY <1>1
    <3>2. k \div 5 < n
      BY <1>1, <3>1
    <3> QED BY <1>1, <3>1, <3>2
  <2> HIDE DEF i, j
  <2>2. (Encoded(bytes)[i] \div Weight5[j]) % 2 = Bits(bytes, 5 * (i - 1) + j - 1)
    BY <1>3, <2>1
  <2> QED BY <2>1, <2>2 DEF i, j
<1> QED BY <1>1, <1>4, <1>5, <1>6 DEF n

(* The secret in whole groups, in upper case and without spaces. *)
Full(bytes) ==
  LET n == Chars(Len(bytes)) IN
  [i \in 1..(n + Lack(n)) |-> IF i <= n THEN Encoded(bytes)[i] ELSE Equals]

LEMMA PaddedFills ==
  ASSUME NEW n \in Nat, NEW key \in [1..n -> Char]
  PROVE  /\ Padded(key) = [i \in 1..(n + Lack(n)) |-> IF i <= n THEN key[i] ELSE Equals]
         /\ Lack(n) \in 0..7
<1> DEFINE w == Lack(n)
           fill == [i \in 1..w |-> Equals]
<1>1. w \in 0..7 /\ w \in Nat
  BY DEF Lack
<1>2. Padded(key) = key \o fill
  <2>1. Len(key) = n
    BY Listing
  <2> QED BY <2>1 DEF Padded, Lack
<1>3. key \in Seq(Char) /\ Len(key) = n
  BY Listing
<1>4. fill \in Seq(Char) /\ Len(fill) = w /\ \A i \in 1..w : fill[i] = Equals
  <2>1. fill \in [1..w -> Char]
    BY DEF Equals, Char
  <2>2. \A i \in 1..w : fill[i] = Equals
    OBVIOUS
  <2> HIDE DEF fill, w
  <2> QED BY <1>1, <2>1, <2>2, Listing
<1> HIDE DEF fill, w
<1> DEFINE z == key \o fill
<1>5. /\ z \in Seq(Char) /\ Len(z) = n + w
      /\ \A i \in 1..(n + w) : z[i] = IF i <= n THEN key[i] ELSE fill[i - n]
  BY <1>1, <1>3, <1>4, ConcatProperties
<1> HIDE DEF z
<1>6. \A i \in 1..(n + w) : z[i] = IF i <= n THEN key[i] ELSE Equals
  <2> SUFFICES ASSUME NEW i \in 1..(n + w), ~(i <= n)  PROVE fill[i - n] = Equals
    BY <1>5
  <2>1. i - n \in 1..w
    BY <1>1
  <2> QED BY <1>4, <2>1
<1>7. z = [i \in 1..(n + w) |-> z[i]]
  <2>1. DOMAIN z = 1..(n + w)
    BY <1>5, LenProperties
  <2> QED BY <1>5, <2>1
<1>8. z = [i \in 1..(n + w) |-> IF i <= n THEN key[i] ELSE Equals]
  BY <1>6, <1>7
<1> QED BY <1>1, <1>2, <1>8 DEF z, w

(* However a secret is written, it is normalized to the same.               *)
LEMMA WrittenReads ==
  ASSUME NEW bytes \in Seq(0..255), bytes # <<>>,
         NEW style \in [padded : BOOLEAN, lower : BOOLEAN, spaced : BOOLEAN]
  PROVE  Normalized(Written(bytes, style)) = Full(bytes)
<1> DEFINE n      == Chars(Len(bytes))
           w      == Lack(n)
           key    == Encoded(bytes)
           padded == IF style.padded THEN Padded(key) ELSE key
           m      == IF style.padded THEN n + w ELSE n
           cased  == IF style.lower THEN [i \in 1..Len(padded) |-> LowerCase(padded[i])] ELSE padded
           raw    == Written(bytes, style)
<1>1. /\ n \in Nat /\ n >= 2 /\ w \in 0..7 /\ Lack(n + w) = 0
  <2>1. Len(bytes) \in Nat \ {0}
    BY LenProperties, EmptySeq
  <2> QED BY <2>1, Sizes
<1>2. key \in [1..n -> 0..31] /\ key \in [1..n -> Char]
  <2>1. key \in [1..n -> 0..31]
    BY EncodedBits
  <2>2. 0..31 \subseteq Char
    BY DEF Char
  <2> HIDE DEF key, n
  <2> QED BY <2>1, <2>2
<1>3. Padded(key) = Full(bytes)
  <2>1. Padded(key) = [i \in 1..(n + w) |-> IF i <= n THEN key[i] ELSE Equals]
    <3> HIDE DEF n, key
    <3> QED BY <1>1, <1>2, PaddedFills
  <2> QED BY <2>1, Zenon DEF Full
<1>4. Full(bytes) = [i \in 1..(n + w) |-> IF i <= n THEN key[i] ELSE Equals]
  BY Zenon DEF Full
<1> HIDE DEF n, w, key
<1>5. Full(bytes) \in [1..(n + w) -> Char] /\ \A i \in 1..(n + w) : Full(bytes)[i] \in (0..31) \cup {Equals}
  <2> DEFINE z == Full(bytes)
  <2>1. z = [i \in 1..(n + w) |-> IF i <= n THEN key[i] ELSE Equals]
    BY <1>4
  <2>2. ASSUME NEW i \in 1..(n + w)
        PROVE  (IF i <= n THEN key[i] ELSE Equals) \in (0..31) \cup {Equals}
    <3>1. i <= n => i \in 1..n
      BY <1>1
    <3> QED BY <1>2, <3>1
  <2>3. (0..31) \cup {Equals} \subseteq Char
    BY DEF Char, Equals
  <2> HIDE DEF z
  <2>4. z \in [1..(n + w) -> (0..31) \cup {Equals}]
    BY <2>1, <2>2
  <2>5. \A i \in 1..(n + w) : z[i] \in (0..31) \cup {Equals}
    BY <2>4
  <2>6. z \in [1..(n + w) -> Char]
    BY <2>3, <2>4
  <2> QED BY <2>5, <2>6 DEF z
<1>6. /\ m \in Nat /\ m >= 2 /\ padded \in [1..m -> Char] /\ Len(padded) = m
      /\ \A i \in 1..m : padded[i] \in (0..31) \cup {Equals}
  <2>1. m \in Nat /\ m >= 2
    BY <1>1
  <2>2. padded \in [1..m -> Char] /\ \A i \in 1..m : padded[i] \in (0..31) \cup {Equals}
    BY <1>2, <1>3, <1>5
  <2> HIDE DEF m, padded
  <2> QED BY <2>1, <2>2, Listing
<1>7. Padded(padded) = Full(bytes)
  <2>1. CASE ~style.padded
    BY <1>3, <2>1
  <2>2. CASE style.padded
    <3> DEFINE z == Full(bytes)
    <3>1. z \in [1..(n + w) -> Char] /\ n + w \in Nat
      BY <1>1, <1>5
    <3> HIDE DEF z
    <3>2. Padded(z) = [i \in 1..(n + w + 0) |-> IF i <= n + w THEN z[i] ELSE Equals]
      BY <1>1, <3>1, PaddedFills
    <3>3. Padded(z) = z
      BY <1>1, <3>1, <3>2
    <3> QED BY <1>3, <2>2, <3>3 DEF z
  <2> QED BY <2>1, <2>2
<1> HIDE DEF m, padded
<1>8. /\ cased \in [1..m -> Char] /\ cased \in Seq(Char) /\ Len(cased) = m
      /\ \A i \in 1..m : cased[i] # Space /\ UpperCase(cased[i]) = padded[i]
  <2>1. \A c \in (0..31) \cup {Equals} :
          /\ LowerCase(c) \in Char /\ LowerCase(c) # Space /\ UpperCase(LowerCase(c)) = c
          /\ c # Space
    BY DEF LowerCase, UpperCase, Equals, Space, Char
  <2>3. UpperCase(Equals) = Equals /\ \A c \in 0..31 : UpperCase(c) = c
    BY DEF UpperCase, Equals
  <2>4. cased \in [1..m -> Char] /\ \A i \in 1..m : cased[i] # Space /\ UpperCase(cased[i]) = padded[i]
    <3>1. CASE style.lower
      <4>1. cased = [i \in 1..m |-> LowerCase(padded[i])]
        BY <1>6, <3>1
      <4> HIDE DEF cased
      <4> QED BY <1>6, <2>1, <4>1
    <3>2. CASE ~style.lower
      <4>1. cased = padded
        BY <3>2
      <4> HIDE DEF cased
      <4> QED BY <1>6, <2>1, <2>3, <4>1
    <3> QED BY <3>1, <3>2
  <2> HIDE DEF cased
  <2> QED BY <1>6, <2>4, Listing
<1>9. raw = IF style.spaced THEN SubSeq(cased, 1, 2) \o <<Space>> \o SubSeq(cased, 3, Len(cased))
            ELSE cased
  BY Zenon DEF Written, padded, key
<1> HIDE DEF raw, cased
<1>10. Without(raw, Space) = cased
  <2>1. CASE ~style.spaced
    BY <1>8, <1>9, <2>1, WithoutNone
  <2>2. CASE style.spaced
    <3>1. Space \in Char /\ Len(cased) >= 2 /\ \A i \in 1..Len(cased) : cased[i] # Space
      BY <1>6, <1>8 DEF Space, Char
    <3>2. Without(SubSeq(cased, 1, 2) \o <<Space>> \o SubSeq(cased, 3, Len(cased)), Space) = cased
      BY <1>8, <3>1, WithoutOne
    <3> QED BY <1>9, <2>2, <3>2
  <2> QED BY <2>1, <2>2
<1>11. [i \in 1..Len(Without(raw, Space)) |-> UpperCase(Without(raw, Space)[i])] = padded
  <2>1. [i \in 1..m |-> UpperCase(cased[i])] = [i \in 1..m |-> padded[i]]
    BY <1>8
  <2>2. [i \in 1..m |-> padded[i]] = padded
    BY <1>6
  <2> QED BY <1>8, <1>10, <2>1, <2>2
<1>12. Normalized(raw) = Padded(padded)
  BY <1>11 DEF Normalized
<1> QED BY <1>7, <1>12 DEF raw

(* The bits of a byte, from the characters that hold them. *)
LEMMA FullBytes ==
  ASSUME NEW bytes \in Seq(0..255), bytes # <<>>, NEW i \in 1..Len(bytes)
  PROVE  ByteOf(Full(bytes), i) = bytes[i]
<1> DEFINE n == Chars(Len(bytes))
           L == Len(bytes)
           key == Encoded(bytes)
           full == Full(bytes)
           d == [j \in 1..8 |-> BitOf(full, 8 * (i - 1) + j - 1)]
<1>1. L \in Nat \ {0} /\ i \in 1..L
  BY LenProperties, EmptySeq
<1>2. n \in Nat /\ 8 * L <= 5 * n /\ Lack(n) \in 0..7
  BY <1>1, Sizes
<1>3. \A k \in 0..(5 * n - 1) : (key[(k \div 5) + 1] \div Weight5[(k % 5) + 1]) % 2 = Bits(bytes, k)
  BY EncodedBits
<1>4. \A c \in 1..n : full[c] = key[c]
  <2>1. full = [c \in 1..(n + Lack(n)) |-> IF c <= n THEN key[c] ELSE Equals]
    BY Zenon DEF Full
  <2> HIDE DEF n, key, full
  <2> QED BY <1>2, <2>1
<1>5. bytes[i] \in 0..255
  BY ElementOfSeq
<1> HIDE DEF n, L, key, full
<1>6. ASSUME NEW j \in 1..8
      PROVE  BitOf(full, 8 * (i - 1) + j - 1) = (bytes[i] \div Weight8[j]) % 2
  <2> DEFINE k == 8 * (i - 1) + j - 1
  <2>1. k \in 0..(5 * n - 1) /\ k \div 8 = i - 1 /\ k % 8 = j - 1
    <3>1. \A e \in Nat, f \in 0..7 : (8 * e + f) \div 8 = e /\ (8 * e + f) % 8 = f
      OBVIOUS
    <3>2. i - 1 \in Nat /\ j - 1 \in 0..7 /\ k = 8 * (i - 1) + (j - 1)
      BY <1>1
    <3>3. k \in Nat /\ k < 8 * L
      BY <1>1
    <3>4. k \in 0..(5 * n - 1)
      BY <1>1, <1>2, <3>3
    <3> HIDE DEF k
    <3> QED BY <3>1, <3>2, <3>4
  <2> HIDE DEF k
  <2>2. (k \div 5) + 1 \in 1..n
    <3>1. k \in Nat /\ k < 5 * n
      BY <1>2, <2>1
    <3>2. k \div 5 \in Nat /\ k = 5 * (k \div 5) + (k % 5) /\ k % 5 \in 0..4
      BY <3>1
    <3>3. k \div 5 < n
      BY <1>2, <3>1, <3>2
    <3> QED BY <1>2, <3>2, <3>3
  <2>3. BitOf(full, k) = Bits(bytes, k)
    BY <1>3, <1>4, <2>1, <2>2 DEF BitOf
  <2>4. (k \div 8) + 1 = i /\ (k % 8) + 1 = j /\ k \div 8 < Len(bytes)
    BY <1>1, <2>1 DEF L
  <2>5. Bits(bytes, k) = (bytes[i] \div Weight8[j]) % 2
    BY <2>4 DEF Bits
  <2> QED BY <2>3, <2>5 DEF k
<1>7. \A j \in 1..8 : d[j] = (bytes[i] \div Weight8[j]) % 2
  BY <1>6
<1>8. d \in [1..8 -> Int]
  <2>1. \A j \in 1..8 : Weight8[j] \in Nat \ {0}
    BY DEF Weight8
  <2>2. \A b \in 0..255, w \in Nat \ {0} : (b \div w) % 2 \in Int
    OBVIOUS
  <2>3. \A j \in 1..8 : d[j] \in Int
    BY <1>5, <1>7, <2>1, <2>2
  <2>4. d = [j \in 1..8 |-> d[j]]
    OBVIOUS
  <2> HIDE DEF d
  <2> QED BY <2>3, <2>4
<1>9. ByteOf(full, i) = Value(d, 2)
  BY Zenon DEF ByteOf
<1> HIDE DEF d
<1>10. Value(d, 2) = bytes[i]
  BY <1>5, <1>7, <1>8, ByteOfBits
<1> QED BY <1>9, <1>10 DEF full

(* The secret of a one-time code is read back, however it is written. *)
LEMMA SecretReads ==
  ASSUME NEW bytes \in Seq(0..255), bytes # <<>>,
         NEW style \in [padded : BOOLEAN, lower : BOOLEAN, spaced : BOOLEAN]
  PROVE  TotpSecret(Written(bytes, style)) = bytes
<1> DEFINE n == Chars(Len(bytes))
           w == Lack(n)
           L == Len(bytes)
           key == Encoded(bytes)
           full == Full(bytes)
           data == Data(full)
           x == Equals
           p == n
           q == n + w
<1>1. L \in Nat \ {0}
  BY LenProperties, EmptySeq
<1>2. /\ n \in Nat /\ n >= 2 /\ n % 8 \in {0, 2, 4, 5, 7} /\ (5 * n) \div 8 = L
      /\ w \in 0..7 /\ (n + w) % 8 = 0
  BY <1>1, Sizes
<1>3. key \in [1..n -> 0..31]
  BY EncodedBits
<1>4. full = [c \in 1..(n + w) |-> IF c <= n THEN key[c] ELSE x]
  BY Zenon DEF Full
<1>5. x \in Char /\ x \notin 0..31 /\ 0..31 \subseteq Char
  BY DEF Equals, Char
<1> HIDE DEF n, w, key, full, x, L
<1>6. /\ \A c \in 1..n : full[c] \in 0..31
      /\ \A c \in 1..(n + w) : full[c] \in Char /\ (full[c] = x <=> n < c /\ c <= n + w)
  <2>1. ASSUME NEW c \in 1..n  PROVE full[c] \in 0..31
    <3>1. full[c] = key[c]
      BY <1>2, <1>4
    <3> QED BY <1>3, <3>1
  <2>2. ASSUME NEW c \in 1..(n + w)
        PROVE  full[c] \in Char /\ (full[c] = x <=> n < c /\ c <= n + w)
    <3>1. CASE c <= n
      <4>1. c \in 1..n /\ ~(n < c)
        BY <1>2, <3>1
      <4> QED BY <1>5, <2>1, <4>1
    <3>2. CASE ~(c <= n)
      <4>1. full[c] = x /\ n < c /\ c <= n + w
        BY <1>2, <1>4, <3>2
      <4> QED BY <1>5, <4>1
    <3> QED BY <3>1, <3>2
  <2> QED BY <2>1, <2>2
<1>7. full \in Seq(Char) /\ Len(full) = n + w
  <2>1. full \in [1..(n + w) -> Char] /\ n + w \in Nat
    BY <1>2, <1>4, <1>6
  <2> QED BY <2>1, Listing
<1>8. p \in Nat /\ q \in Nat /\ Block(full, x, p, q)
  BY <1>2, <1>6, <1>7 DEF Block
<1> HIDE DEF p, q
<1>9. Rest(Char, full, p, q, Without(full, x))
  BY <1>7, <1>8, WithoutBlock
<1>10. Len(data) = n
  <2>1. Len(data) = Len(full) - (q - p)
    BY <1>9 DEF Rest, Data, x
  <2> QED BY <1>2, <1>7, <2>1 DEF p, q
<1> HIDE DEF data
<1>11. Decodes(full)
  <2>1. n + w - n < 8
    BY <1>2
  <2> QED BY <1>2, <1>6, <1>7, <1>10, <2>1 DEF Decodes, data
<1>12. Decoded(full) = [i \in 1..L |-> ByteOf(full, i)]
  BY <1>2, <1>10 DEF Decoded, data
<1>13. [i \in 1..L |-> ByteOf(full, i)] = [i \in 1..L |-> bytes[i]]
  <2>1. \A i \in 1..L : ByteOf(full, i) = bytes[i]
    BY FullBytes DEF L, full
  <2> QED BY <2>1
<1>14. [i \in 1..L |-> bytes[i]] = bytes
  BY LenProperties DEF L
<1>15. Decoded(full) = bytes
  BY <1>12, <1>13, <1>14, Zenon
<1>16. Normalized(Written(bytes, style)) = full
  BY WrittenReads DEF full
<1> QED BY <1>11, <1>15, <1>16 DEF TotpSecret
-----------------------------------------------------------------------------
(* What four, five or six digits mean. *)
LEMMA FourDigits ==
  ASSUME NEW a \in Int, NEW b \in Int, NEW c \in Int, NEW e \in Int
  PROVE  Value(<<a, b, c, e>>, 256) = 256 * (256 * (256 * a + b) + c) + e
<1> DEFINE d == <<a, b, c, e>>
           base == 256
<1>1. d \in Seq(Int) /\ Len(d) = 4 /\ d[1] = a /\ d[2] = b /\ d[3] = c /\ d[4] = e
  OBVIOUS
<1>2. base \in Int /\ base = 256
  OBVIOUS
<1> HIDE DEF d, base
<1>3. PICK r \in [0..Len(d) -> Int] : Horner(d, base, r)
  BY <1>1, <1>2, ValueSteps
<1>4. /\ r[0] = 0 /\ r[4] = Value(d, base)
      /\ r[1] = 256 * r[0] + a /\ r[2] = 256 * r[1] + b /\ r[3] = 256 * r[2] + c
      /\ r[4] = 256 * r[3] + e
  BY <1>1, <1>2, <1>3 DEF Horner
<1>5. \A j \in 0..4 : r[j] \in Int
  BY <1>1, <1>3
<1>6. Value(d, base) = 256 * (256 * (256 * a + b) + c) + e
  BY <1>4, <1>5
<1> QED BY <1>6 DEF d, base

(* What the digits of a number mean: all of it, and what is left of it. *)
LEMMA DecimalDigits ==
  ASSUME NEW v0 \in Nat, NEW v1, NEW v2, NEW v3, NEW v4, NEW v5,
         v1 = v0 \div 10, v2 = v1 \div 10, v3 = v2 \div 10, v4 = v3 \div 10, v5 = v4 \div 10
  PROVE  Value(<<v5, v4 % 10, v3 % 10, v2 % 10, v1 % 10, v0 % 10>>, 10) = v0
<1>1. ASSUME NEW v \in Nat
      PROVE  v \div 10 \in Nat /\ v % 10 \in Int /\ 10 * (v \div 10) + (v % 10) = v
  OBVIOUS
<1>2. v1 \in Nat /\ v0 % 10 \in Int /\ 10 * v1 + (v0 % 10) = v0
  BY <1>1
<1>3. v2 \in Nat /\ v1 % 10 \in Int /\ 10 * v2 + (v1 % 10) = v1
  BY <1>1, <1>2
<1>4. v3 \in Nat /\ v2 % 10 \in Int /\ 10 * v3 + (v2 % 10) = v2
  BY <1>1, <1>3
<1>5. v4 \in Nat /\ v3 % 10 \in Int /\ 10 * v4 + (v3 % 10) = v3
  BY <1>1, <1>4
<1>6. v5 \in Nat /\ v4 % 10 \in Int /\ 10 * v5 + (v4 % 10) = v4
  BY <1>1, <1>5
<1> DEFINE d == <<v5, v4 % 10, v3 % 10, v2 % 10, v1 % 10, v0 % 10>>
           base == 10
<1>7. /\ d \in Seq(Int) /\ Len(d) = 6 /\ d[1] = v5 /\ d[2] = v4 % 10 /\ d[3] = v3 % 10
      /\ d[4] = v2 % 10 /\ d[5] = v1 % 10 /\ d[6] = v0 % 10
  BY <1>2, <1>3, <1>4, <1>5, <1>6
<1>8. base \in Int /\ base = 10
  OBVIOUS
<1> HIDE DEF d, base
<1>9. PICK r \in [0..Len(d) -> Int] : Horner(d, base, r)
  BY <1>7, <1>8, ValueSteps
<1>10. /\ r[0] = 0 /\ r[6] = Value(d, base)
       /\ r[1] = 10 * r[0] + v5 /\ r[2] = 10 * r[1] + (v4 % 10) /\ r[3] = 10 * r[2] + (v3 % 10)
       /\ r[4] = 10 * r[3] + (v2 % 10) /\ r[5] = 10 * r[4] + (v1 % 10)
       /\ r[6] = 10 * r[5] + (v0 % 10)
  BY <1>7, <1>8, <1>9 DEF Horner
<1>11. r[1] = v5
  <2>1. r[1] = 10 * 0 + v5
    BY <1>10, Zenon
  <2> QED BY <1>6, <2>1
<1>12. r[2] = v4
  BY <1>6, <1>10, <1>11
<1>13. r[3] = v3
  BY <1>5, <1>10, <1>12
<1>14. r[4] = v2
  BY <1>4, <1>10, <1>13
<1>15. r[5] = v1
  BY <1>3, <1>10, <1>14
<1>16. r[6] = v0
  BY <1>2, <1>10, <1>15
<1> QED BY <1>10, <1>16 DEF d, base

LEMMA Remainder ==
  ASSUME NEW M \in Nat \ {0}, NEW q \in Nat, NEW w \in 0..(M - 1)
  PROVE  (M * q + w) % M = w
  OBVIOUS

LEMMA SteamDigits ==
  ASSUME NEW v0 \in Nat, NEW v1, NEW v2, NEW v3, NEW v4,
         v1 = v0 \div 26, v2 = v1 \div 26, v3 = v2 \div 26, v4 = v3 \div 26
  PROVE  Value(Reverse(<<v0 % 26, v1 % 26, v2 % 26, v3 % 26, v4 % 26>>), 26)
           = v0 % (26 * 26 * 26 * 26 * 26)
<1>1. ASSUME NEW v \in Nat
      PROVE  v \div 26 \in Nat /\ v % 26 \in 0..25 /\ v = 26 * (v \div 26) + (v % 26)
  OBVIOUS
<1>2. PICK f \in 0..25 : f = v0 % 26 /\ v1 \in Nat /\ v0 = 26 * v1 + f
  BY <1>1
<1>3. PICK e \in 0..25 : e = v1 % 26 /\ v2 \in Nat /\ v1 = 26 * v2 + e
  BY <1>1, <1>2
<1>4. PICK c \in 0..25 : c = v2 % 26 /\ v3 \in Nat /\ v2 = 26 * v3 + c
  BY <1>1, <1>3
<1>5. PICK b \in 0..25 : b = v3 % 26 /\ v4 \in Nat /\ v3 = 26 * v4 + b
  BY <1>1, <1>4
<1>6. PICK a \in 0..25, q \in Nat : a = v4 % 26 /\ v4 = 26 * q + a
  BY <1>1, <1>5
<1> DEFINE d == <<a, b, c, e, f>>
           base == 26
<1>7. Reverse(<<f, e, c, b, a>>) = d
  BY DEF Reverse
<1>8. /\ d \in Seq(Int) /\ Len(d) = 5
      /\ d[1] = a /\ d[2] = b /\ d[3] = c /\ d[4] = e /\ d[5] = f
  OBVIOUS
<1>9. base \in Int /\ base = 26
  OBVIOUS
<1> HIDE DEF d, base
<1>10. PICK r \in [0..Len(d) -> Int] : Horner(d, base, r)
  BY <1>8, <1>9, ValueSteps
<1>11. /\ r[0] = 0 /\ r[5] = Value(d, base)
       /\ r[1] = 26 * r[0] + a /\ r[2] = 26 * r[1] + b /\ r[3] = 26 * r[2] + c
       /\ r[4] = 26 * r[3] + e /\ r[5] = 26 * r[4] + f
  BY <1>8, <1>9, <1>10 DEF Horner
<1>12. ASSUME NEW M \in Nat \ {0}, NEW x \in 0..(M - 1), NEW y \in 0..25, NEW u,
              u = 26 * (M * q + x) + y
       PROVE  26 * x + y \in 0..(26 * M - 1) /\ u = (26 * M) * q + (26 * x + y)
              /\ 26 * M \in Nat \ {0}
  OBVIOUS
<1> DEFINE M1 == 26  M2 == 26 * M1  M3 == 26 * M2  M4 == 26 * M3  M5 == 26 * M4
<1>13. M1 \in Nat \ {0} /\ r[1] \in 0..(M1 - 1) /\ v4 = M1 * q + r[1]
  <2>1. r[1] = 26 * 0 + a
    BY <1>11, Zenon
  <2> QED BY <1>6, <2>1
<1> HIDE DEF M1
<1>14. M2 \in Nat \ {0} /\ r[2] \in 0..(M2 - 1) /\ v3 = M2 * q + r[2]
  BY <1>5, <1>11, <1>12, <1>13
<1> HIDE DEF M2
<1>15. M3 \in Nat \ {0} /\ r[3] \in 0..(M3 - 1) /\ v2 = M3 * q + r[3]
  BY <1>4, <1>11, <1>12, <1>14
<1> HIDE DEF M3
<1>16. M4 \in Nat \ {0} /\ r[4] \in 0..(M4 - 1) /\ v1 = M4 * q + r[4]
  BY <1>3, <1>11, <1>12, <1>15
<1> HIDE DEF M4
<1>17. M5 \in Nat \ {0} /\ r[5] \in 0..(M5 - 1) /\ v0 = M5 * q + r[5]
  BY <1>2, <1>11, <1>12, <1>16
<1> HIDE DEF M5
<1>18. v0 % M5 = r[5]
  BY <1>17, Remainder
<1>19. M5 = 26 * 26 * 26 * 26 * 26
  BY DEF M1, M2, M3, M4, M5
<1>20. v0 % (26 * 26 * 26 * 26 * 26) = Value(d, base)
  BY <1>11, <1>18, <1>19, Zenon
<1> QED BY <1>2, <1>3, <1>4, <1>5, <1>6, <1>7, <1>20 DEF base

(* Both codes are the low digits of the 31 bits. *)
LEMMA CodesCount ==
  ASSUME NEW sum \in [1..20 -> 0..255]
  PROVE  /\ Value(TotpHotp(sum), 10) = Bits31(sum) % (1000 * 1000)
         /\ Value(Reverse(SteamCode(sum)), 26) = Bits31(sum) % (26 * 26 * 26 * 26 * 26)
<1> DEFINE n == Truncated(sum)
<1>1. n \in Nat /\ n = Bits31(sum)
  <2> DEFINE o == sum[20] % 16
             a == sum[o + 1] % 128  b == sum[o + 2]  c == sum[o + 3]  e == sum[o + 4]
  <2>1. o \in 0..15
    <3>1. sum[20] \in 0..255
      OBVIOUS
    <3> QED BY <3>1
  <2> HIDE DEF o
  <2>2. o + 1 \in 1..20 /\ o + 2 \in 1..20 /\ o + 3 \in 1..20 /\ o + 4 \in 1..20
    BY <2>1
  <2>3. sum[o + 1] \in 0..255 /\ b \in 0..255 /\ c \in 0..255 /\ e \in 0..255
    <3>1. \A i \in 1..20 : sum[i] \in 0..255
      OBVIOUS
    <3> QED BY <2>2, <3>1
  <2>4. a \in 0..127
    BY <2>3
  <2>5. n = a * (256 * 256 * 256) + b * (256 * 256) + c * 256 + e
    BY DEF Truncated, o
  <2>6. Bits31(sum) = Value(<<a, b, c, e>>, 256)
    BY DEF Bits31, o
  <2> HIDE DEF a, b, c, e, n
  <2>7. Value(<<a, b, c, e>>, 256) = 256 * (256 * (256 * a + b) + c) + e
    BY <2>3, <2>4, FourDigits
  <2> QED BY <2>3, <2>4, <2>5, <2>6, <2>7
<1>2. Value(TotpHotp(sum), 10) = n % (1000 * 1000)
  <2> DEFINE v0 == n % (1000 * 1000)
             v1 == v0 \div 10  v2 == v1 \div 10  v3 == v2 \div 10  v4 == v3 \div 10
             v5 == v4 \div 10
  <2>1. TotpHotp(sum) = <<v5, v4 % 10, v3 % 10, v2 % 10, v1 % 10, v0 % 10>>
    BY DEF TotpHotp
  <2>2. v0 \in Nat
    BY <1>1
  <2> HIDE DEF v0
  <2>3. Value(<<v5, v4 % 10, v3 % 10, v2 % 10, v1 % 10, v0 % 10>>, 10) = v0
    BY <2>2, DecimalDigits, Zenon
  <2> QED BY <2>1, <2>3 DEF v0
<1>3. Value(Reverse(SteamCode(sum)), 26) = n % (26 * 26 * 26 * 26 * 26)
  <2> DEFINE v0 == n
             v1 == v0 \div 26  v2 == v1 \div 26  v3 == v2 \div 26  v4 == v3 \div 26
  <2>1. SteamCode(sum) = <<v0 % 26, v1 % 26, v2 % 26, v3 % 26, v4 % 26>>
    BY DEF SteamCode
  <2>2. v0 \in Nat
    BY <1>1
  <2> HIDE DEF v0
  <2>3. Value(Reverse(<<v0 % 26, v1 % 26, v2 % 26, v3 % 26, v4 % 26>>), 26)
          = v0 % (26 * 26 * 26 * 26 * 26)
    BY <2>2, SteamDigits
  <2> QED BY <2>1, <2>3 DEF v0
<1> QED BY <1>1, <1>2, <1>3

-----------------------------------------------------------------------------
(* The characters; the provers do not know that a string is in STRING.      *)
Symbol == STRING \cup {Quote, Backslash}

LEMMA Symbols == Quote \in Symbol /\ Backslash \in Symbol /\ Quote # Backslash
<1>1. Quote # Backslash
  BY DEF Quote, Backslash
<1> QED BY <1>1 DEF Symbol

(* What a shell has read so far. *)
Reader == [at : {"bare", "quoted", "escaped", "broken"}, word : Seq(Symbol)]
Unread == [at |-> "bare", word |-> <<>>]
Reading(z, r) ==
  /\ r[0] = Unread /\ r[Len(z)] = ShWord(z)
  /\ \A k \in 1..Len(z) : r[k] = ShRead(r[k - 1], z[k])

LEMMA ReadType ==
  ASSUME NEW y \in Reader, NEW c \in Symbol
  PROVE  ShRead(y, c) \in Reader
<1>1. Append(y.word, c) \in Seq(Symbol) /\ y.word \in Seq(Symbol)
  BY AppendProperties DEF Reader
<1>2. CASE y.at = "quoted"
  BY <1>1, <1>2 DEF ShRead, Reader
<1>3. CASE y.at = "escaped"
  BY <1>1, <1>3 DEF ShRead, Reader
<1>4. CASE y.at = "bare"
  BY <1>1, <1>4 DEF ShRead, Reader
<1>5. CASE y.at = "broken"
  BY <1>1, <1>5 DEF ShRead, Reader
<1> QED BY <1>2, <1>3, <1>4, <1>5 DEF Reader

LEMMA ReadingSteps ==
  ASSUME NEW z \in Seq(Symbol)
  PROVE  \E r \in [0..Len(z) -> Reader] : Reading(z, r)
<1> DEFINE n == Len(z)
           A == Reader
           step == [y \in A \X Symbol |-> ShRead(y[1], y[2])]
           t == CHOOSE t : t = [S \in SUBSET (1..n) |->
                  IF S = {} THEN Unread ELSE ShRead(t[S \ {Max(S)}], z[Max(S)])]
<1>1. n \in Nat /\ z \in [1..n -> Symbol] /\ DOMAIN z = 1..n /\ Unread \in A
  BY LenProperties, EmptySeq DEF Reader, Unread
<1>2. step \in [A \X Symbol -> A]
  <2> HIDE DEF A
  <2>1. \A y \in A, c \in Symbol : ShRead(y, c) \in A
    BY ReadType DEF A
  <2> QED BY <2>1
<1>3. \A y \in A, c \in Symbol : step[<<y, c>>] = ShRead(y, c)
  OBVIOUS
<1>4. ShWord(z) = t[1..n]
  BY <1>1, Zenon DEF ShWord, FoldLeft, MapThenFoldSet, Unread
<1> HIDE DEF step, n, A
<1>5. PICK u \in [SUBSET (1..n) -> A], r \in [0..n -> A] :
         Table(Unread, step, n, z, u) /\ Chain(Unread, step, n, z, u, r)
  BY <1>1, <1>2, FoldSteps
<1>6. u = [S \in SUBSET (1..n) |->
             IF S = {} THEN Unread ELSE ShRead(u[S \ {Max(S)}], z[Max(S)])]
  <2>1. ASSUME NEW S \in SUBSET (1..n), S # {}
        PROVE  step[<<u[S \ {Max(S)}], z[Max(S)]>>] = ShRead(u[S \ {Max(S)}], z[Max(S)])
    <3>1. Max(S) \in 1..n /\ S \ {Max(S)} \in SUBSET (1..n)
      BY <1>1, <2>1, GreatestIsOne
    <3>2. u[S \ {Max(S)}] \in A /\ z[Max(S)] \in Symbol
      BY <1>1, <3>1
    <3> QED BY <1>3, <3>2
  <2> QED BY <1>5, <2>1, Zenon DEF Table
<1>7. t = [S \in SUBSET (1..n) |->
             IF S = {} THEN Unread ELSE ShRead(t[S \ {Max(S)}], z[Max(S)])]
  BY <1>6, Zenon
<1> HIDE DEF t
<1>8. {} \in SUBSET (1..n)
  OBVIOUS
<1>9. t[{}] = u[{}]
  BY <1>6, <1>7, <1>8, Zenon
<1>10. \A S \in SUBSET (1..n) : S # {} /\ t[S \ {Max(S)}] = u[S \ {Max(S)}] => t[S] = u[S]
  BY <1>6, <1>7, Zenon
<1>11. t[1..n] = u[1..n]
  BY <1>1, <1>9, <1>10, FoldsAgree
<1>12. \A k \in 1..n : r[k] = ShRead(r[k - 1], z[k])
  <2> SUFFICES ASSUME NEW k \in 1..n PROVE r[k] = ShRead(r[k - 1], z[k])
    OBVIOUS
  <2>1. r[k - 1] \in A /\ z[k] \in Symbol
    BY <1>1, <1>5
  <2> QED BY <1>3, <1>5, <2>1 DEF Chain
<1> QED BY <1>4, <1>5, <1>11, <1>12 DEF n, A, Chain, Reading

(* One more character is one more step. *)
LEMMA ReadMore ==
  ASSUME NEW z \in Seq(Symbol), NEW c \in Symbol
  PROVE  ShWord(z) \in Reader /\ ShWord(Append(z, c)) = ShRead(ShWord(z), c)
<1> DEFINE n == Len(z)
           more == Append(z, c)
<1>1. /\ n \in Nat /\ more \in Seq(Symbol) /\ Len(more) = n + 1 /\ more[n + 1] = c
      /\ \A k \in 1..n : more[k] = z[k]
  BY LenProperties, AppendProperties
<1>2. PICK r \in [0..n -> Reader] : Reading(z, r)
  BY ReadingSteps
<1> HIDE DEF more
<1>3. PICK u \in [0..Len(more) -> Reader] : Reading(more, u)
  BY <1>1, ReadingSteps
<1>4. /\ r[0] = Unread /\ r[n] = ShWord(z) /\ \A k \in 1..n : r[k] = ShRead(r[k - 1], z[k])
  BY <1>2 DEF Reading
<1>5. /\ u[0] = Unread /\ u[n + 1] = ShWord(more)
      /\ \A k \in 1..(n + 1) : u[k] = ShRead(u[k - 1], more[k])
  BY <1>1, <1>3 DEF Reading
<1> HIDE DEF n
<1> DEFINE T == {k \in 0..n : r[k] = u[k]}
<1>6. 0 \in T
  BY <1>1, <1>4, <1>5
<1>7. ASSUME NEW k \in 1..n, k - 1 \in T  PROVE k \in T
  <2>1. r[k - 1] = u[k - 1] /\ k \in 0..n /\ k \in 1..(n + 1)
    BY <1>1, <1>7
  <2>2. r[k] = ShRead(r[k - 1], z[k]) /\ u[k] = ShRead(u[k - 1], z[k])
    BY <1>1, <1>4, <1>5, <2>1
  <2> QED BY <2>1, <2>2
<1> HIDE DEF T
<1>8. n \in T
  <2>1. \A k \in 1..n : k - 1 \in T => k \in T
    BY <1>7
  <2>2. \A k \in 0..n : k \in T
    BY <1>1, <1>6, <2>1, UpTo
  <2> QED BY <1>1, <2>2
<1>9. u[n] = ShWord(z)
  BY <1>4, <1>8 DEF T
<1>10. u[n + 1] = ShRead(u[n], c)
  <2>1. n + 1 \in 1..(n + 1) /\ (n + 1) - 1 = n
    BY <1>1
  <2> QED BY <1>1, <1>5, <2>1
<1>11. ShWord(z) \in Reader
  BY <1>1, <1>2, <1>4
<1> QED BY <1>5, <1>9, <1>10, <1>11 DEF more

LEMMA ReadNothing == ShWord(<<>>) = Unread
<1> DEFINE z == <<>>
<1>1. z \in Seq(Symbol) /\ Len(z) = 0
  OBVIOUS
<1> HIDE DEF z
<1>2. PICK r \in [0..Len(z) -> Reader] : Reading(z, r)
  BY <1>1, ReadingSteps
<1>3. ShWord(z) = Unread
  BY <1>1, <1>2 DEF Reading
<1> QED BY <1>3 DEF z

(* What is quoted so far. *)
Piece(c) == IF c = Quote THEN <<Quote, Backslash, Quote, Quote>> ELSE <<c>>
Quoting(s, r) ==
  /\ r[0] = <<Quote>> /\ ShellQuote(s) = r[Len(s)] \o <<Quote>>
  /\ \A k \in 1..Len(s) : r[k] = r[k - 1] \o Piece(s[k])

LEMMA QuotingSteps ==
  ASSUME NEW s \in Seq(Symbol)
  PROVE  \E r \in [0..Len(s) -> Seq(Symbol)] : Quoting(s, r)
<1> DEFINE n == Len(s)
           A == Seq(Symbol)
           open == <<Quote>>
           step == [y \in A \X Symbol |-> y[1] \o Piece(y[2])]
           t == CHOOSE t : t = [S \in SUBSET (1..n) |->
                  IF S = {} THEN open ELSE t[S \ {Max(S)}] \o Piece(s[Max(S)])]
<1>1. n \in Nat /\ s \in [1..n -> Symbol] /\ DOMAIN s = 1..n /\ open \in A
  BY LenProperties, Symbols
<1>2. step \in [A \X Symbol -> A]
  <2>1. \A c \in Symbol : Piece(c) \in A
    BY Symbols DEF Piece
  <2>2. \A y \in A, c \in Symbol : y \o Piece(c) \in A
    BY <2>1, ConcatProperties
  <2> HIDE DEF A
  <2> QED BY <2>2
<1>3. \A y \in A, c \in Symbol : step[<<y, c>>] = y \o Piece(c)
  OBVIOUS
<1>4. ShellQuote(s) = t[1..n] \o <<Quote>>
  BY <1>1, Zenon DEF ShellQuote, FoldLeft, MapThenFoldSet, Piece
<1> HIDE DEF step, n, A, open
<1>5. PICK u \in [SUBSET (1..n) -> A], r \in [0..n -> A] :
         Table(open, step, n, s, u) /\ Chain(open, step, n, s, u, r)
  BY <1>1, <1>2, FoldSteps
<1>6. u = [S \in SUBSET (1..n) |->
             IF S = {} THEN open ELSE u[S \ {Max(S)}] \o Piece(s[Max(S)])]
  <2>1. ASSUME NEW S \in SUBSET (1..n), S # {}
        PROVE  step[<<u[S \ {Max(S)}], s[Max(S)]>>] = u[S \ {Max(S)}] \o Piece(s[Max(S)])
    <3>1. Max(S) \in 1..n /\ S \ {Max(S)} \in SUBSET (1..n)
      BY <1>1, <2>1, GreatestIsOne
    <3>2. u[S \ {Max(S)}] \in A /\ s[Max(S)] \in Symbol
      BY <1>1, <3>1
    <3> QED BY <1>3, <3>2
  <2> QED BY <1>5, <2>1, Zenon DEF Table
<1>7. t = [S \in SUBSET (1..n) |->
             IF S = {} THEN open ELSE t[S \ {Max(S)}] \o Piece(s[Max(S)])]
  BY <1>6, Zenon
<1> HIDE DEF t
<1>8. {} \in SUBSET (1..n)
  OBVIOUS
<1>9. t[{}] = u[{}]
  BY <1>6, <1>7, <1>8, Zenon
<1>10. \A S \in SUBSET (1..n) : S # {} /\ t[S \ {Max(S)}] = u[S \ {Max(S)}] => t[S] = u[S]
  BY <1>6, <1>7, Zenon
<1>11. t[1..n] = u[1..n]
  BY <1>1, <1>9, <1>10, FoldsAgree
<1>12. \A k \in 1..n : r[k] = r[k - 1] \o Piece(s[k])
  <2> SUFFICES ASSUME NEW k \in 1..n PROVE r[k] = r[k - 1] \o Piece(s[k])
    OBVIOUS
  <2>1. r[k - 1] \in A /\ s[k] \in Symbol
    BY <1>1, <1>5
  <2> QED BY <1>3, <1>5, <2>1 DEF Chain
<1> QED BY <1>4, <1>5, <1>11, <1>12 DEF n, A, open, Chain, Quoting

(* What a piece adds to a word whose quotation is open, and what ends it. *)
LEMMA PieceReads ==
  ASSUME NEW z \in Seq(Symbol), NEW w \in Seq(Symbol), NEW c \in Symbol,
         ShWord(z) = [at |-> "quoted", word |-> w]
  PROVE  /\ z \o Piece(c) \in Seq(Symbol)
         /\ ShWord(z \o Piece(c)) = [at |-> "quoted", word |-> Append(w, c)]
<1>1. CASE c # Quote
  <2>1. z \o Piece(c) = Append(z, c) /\ Append(z, c) \in Seq(Symbol)
    BY <1>1, AppendProperties DEF Piece
  <2>2. ShWord(Append(z, c)) = ShRead([at |-> "quoted", word |-> w], c)
    BY ReadMore
  <2> QED BY <1>1, <2>1, <2>2 DEF ShRead
<1>2. CASE c = Quote
  <2> DEFINE z1 == Append(z, Quote)  z2 == Append(z1, Backslash)  z3 == Append(z2, Quote)
             z4 == Append(z3, Quote)
  <2>0. Quote \in Symbol /\ Backslash \in Symbol /\ Quote # Backslash
    BY Symbols
  <2>1. z1 \in Seq(Symbol) /\ ShWord(z1) = ShRead(ShWord(z), Quote)
    BY <2>0, ReadMore, AppendProperties
  <2>2. z2 \in Seq(Symbol) /\ ShWord(z2) = ShRead(ShWord(z1), Backslash)
    <3> HIDE DEF z1
    <3> QED BY <2>0, <2>1, ReadMore, AppendProperties
  <2>3. z3 \in Seq(Symbol) /\ ShWord(z3) = ShRead(ShWord(z2), Quote)
    <3> HIDE DEF z2
    <3> QED BY <2>0, <2>2, ReadMore, AppendProperties
  <2>4. z4 \in Seq(Symbol) /\ ShWord(z4) = ShRead(ShWord(z3), Quote)
    <3> HIDE DEF z3
    <3> QED BY <2>0, <2>3, ReadMore, AppendProperties
  <2>5. z \o Piece(c) = z4
    BY <1>2, <2>0 DEF Piece
  <2> HIDE DEF z1, z2, z3, z4
  <2>6. ShWord(z1) = [at |-> "bare", word |-> w]
    BY <2>1 DEF ShRead
  <2>7. ShWord(z2) = [at |-> "escaped", word |-> w]
    BY <2>0, <2>2, <2>6 DEF ShRead
  <2>8. ShWord(z3) = [at |-> "bare", word |-> Append(w, Quote)]
    BY <2>3, <2>7 DEF ShRead
  <2>9. ShWord(z4) = [at |-> "quoted", word |-> Append(w, Quote)]
    <3> DEFINE v == Append(w, Quote)
    <3> HIDE DEF v
    <3>1. ShRead([at |-> "bare", word |-> v], Quote) = [at |-> "quoted", word |-> v]
      BY <2>0 DEF ShRead
    <3> QED BY <2>4, <2>8, <3>1 DEF v
  <2> QED BY <1>2, <2>4, <2>5, <2>9
<1> QED BY <1>1, <1>2

(* A shell reads the quoted text as one word with its characters. *)
LEMMA QuotedReads ==
  ASSUME NEW s \in Seq(Symbol)
  PROVE  ShWord(ShellQuote(s)) = [at |-> "bare", word |-> s]
<1> DEFINE n == Len(s)
           W(k) == [i \in 1..k |-> s[i]]
<1>1. PICK r \in [0..n -> Seq(Symbol)] : Quoting(s, r)
  BY QuotingSteps
<1>2. /\ n \in Nat /\ r[0] = <<Quote>> /\ ShellQuote(s) = r[n] \o <<Quote>>
      /\ \A k \in 1..n : s[k] \in Symbol /\ r[k] = r[k - 1] \o Piece(s[k])
  BY <1>1, LenProperties, ElementOfSeq DEF Quoting
<1>0. n \in Nat /\ \A i \in 1..n : s[i] \in Symbol
  BY <1>2
<1>3. W(n) = s
  BY LenProperties
<1> HIDE DEF n
<1>4. \A k \in 0..n : W(k) \in Seq(Symbol) /\ Len(W(k)) = k
  <2> SUFFICES ASSUME NEW k \in 0..n  PROVE W(k) \in Seq(Symbol) /\ Len(W(k)) = k
    OBVIOUS
  <2>1. k \in Nat /\ \A i \in 1..k : s[i] \in Symbol
    BY <1>0
  <2>2. W(k) \in [1..k -> Symbol]
    BY <2>1
  <2> HIDE DEF W
  <2> QED BY <2>1, <2>2, Listing
<1>5. ASSUME NEW k \in 1..n  PROVE Append(W(k - 1), s[k]) = W(k)
  <2> DEFINE z == W(k - 1)
  <2>1. z \in Seq(Symbol) /\ Len(z) = k - 1 /\ \A i \in 1..(k - 1) : z[i] = s[i]
    <3>1. k - 1 \in 0..n
      BY <1>0
    <3>2. W(k - 1) \in Seq(Symbol) /\ Len(W(k - 1)) = k - 1
      <4> HIDE DEF W
      <4> QED BY <1>4, <3>1
    <3> QED BY <3>2
  <2> HIDE DEF z
  <2>2. /\ Append(z, s[k]) \in Seq(Symbol) /\ Len(Append(z, s[k])) = k
        /\ \A i \in 1..(k - 1) : Append(z, s[k])[i] = z[i]
        /\ Append(z, s[k])[k] = s[k]
    <3>1. s[k] \in Symbol /\ k \in Nat
      BY <1>0
    <3> DEFINE c == s[k]  y == Append(z, c)
    <3>2. c \in Symbol
      BY <3>1
    <3> HIDE DEF c
    <3>3. /\ y \in Seq(Symbol) /\ Len(y) = Len(z) + 1 /\ y[Len(z) + 1] = c
          /\ \A i \in 1..Len(z) : y[i] = z[i]
      BY <2>1, <3>2, AppendProperties
    <3> HIDE DEF y
    <3>4. Len(z) + 1 = k
      BY <2>1, <3>1
    <3>5. y \in Seq(Symbol) /\ Len(y) = k /\ (\A i \in 1..(k - 1) : y[i] = z[i]) /\ y[k] = c
      BY <2>1, <3>3, <3>4
    <3> QED BY <3>5 DEF c, y
  <2>3. \A i \in 1..k : Append(z, s[k])[i] = s[i]
    BY <1>2, <2>1, <2>2
  <2>4. Append(z, s[k]) = [i \in 1..k |-> Append(z, s[k])[i]]
    BY <2>2
  <2>5. Append(z, s[k]) = [i \in 1..k |-> s[i]]
    BY <2>3, <2>4
  <2> QED BY <2>5 DEF z
<1> DEFINE T == {k \in 0..n : ShWord(r[k]) = [at |-> "quoted", word |-> W(k)]}
<1>6. 0 \in T
  <2>1. <<>> \in Seq(Symbol) /\ Quote \in Symbol /\ r[0] = Append(<<>>, Quote)
    BY <1>2, Symbols
  <2>2. ShWord(r[0]) = ShRead(Unread, Quote)
    BY <2>1, ReadMore, ReadNothing
  <2>3. W(0) = <<>> /\ 0 \in 0..n
    BY <1>2
  <2>4. ShRead(Unread, Quote) = [at |-> "quoted", word |-> <<>>]
    BY Symbols DEF ShRead, Unread
  <2> HIDE DEF W
  <2> QED BY <2>2, <2>3, <2>4
<1>7. ASSUME NEW k \in 1..n, k - 1 \in T  PROVE k \in T
  <2>1. k - 1 \in 0..n /\ k \in 0..n /\ ShWord(r[k - 1]) = [at |-> "quoted", word |-> W(k - 1)]
    BY <1>2, <1>7
  <2>2. r[k - 1] \in Seq(Symbol) /\ W(k - 1) \in Seq(Symbol) /\ s[k] \in Symbol
    BY <1>2, <1>4, <2>1
  <2> HIDE DEF W
  <2>3. ShWord(r[k - 1] \o Piece(s[k])) = [at |-> "quoted", word |-> Append(W(k - 1), s[k])]
    BY <2>1, <2>2, PieceReads
  <2> QED BY <1>2, <1>5, <2>1, <2>3
<1> HIDE DEF T
<1>8. n \in T
  <2>1. \A k \in 1..n : k - 1 \in T => k \in T
    BY <1>7
  <2>2. \A k \in 0..n : k \in T
    BY <1>2, <1>6, <2>1, UpTo
  <2> QED BY <1>2, <2>2
<1>9. ShWord(r[n]) = [at |-> "quoted", word |-> s]
  <2> HIDE DEF W
  <2> QED BY <1>3, <1>8 DEF T
<1> HIDE DEF W
<1>10. r[n] \in Seq(Symbol) /\ Quote \in Symbol /\ r[n] \o <<Quote>> = Append(r[n], Quote)
  <2>1. r[n] \in Seq(Symbol) /\ Quote \in Symbol
    BY <1>1, <1>2, Symbols
  <2> QED BY <2>1
<1>11. ShWord(Append(r[n], Quote)) = ShRead([at |-> "quoted", word |-> s], Quote)
  BY <1>9, <1>10, ReadMore
<1> QED BY <1>2, <1>10, <1>11 DEF ShRead

-----------------------------------------------------------------------------
LEMMA TextReads ==
  ASSUME NEW t \in Seq(STRING)
  PROVE  ShWord(ShellQuote(t)) = [at |-> "bare", word |-> t]
<1> DEFINE n == Len(t)
<1>1. n \in Nat /\ t \in [1..n -> STRING]
  BY LenProperties
<1> HIDE DEF n
<1>2. t \in [1..n -> Symbol]
  BY <1>1 DEF Symbol
<1>3. t \in Seq(Symbol)
  BY <1>1, <1>2, Listing
<1> QED BY <1>3, QuotedReads

(* Only Open prints, and an invocation starts and ends with nothing shown.  *)
LEMMA StepShown ==
  ASSUME [Next]_vars
  PROVE  shown' = shown \/ shown' = Nothing \/ Output
<1>1. CASE Start \/ EnsureToken \/ Gate \/ SelectServer \/ GivesUp \/ LoginPassword
  BY <1>1 DEF Start, EnsureToken, Gate, SelectServer, GivesUp, LoginPassword, local
<1>2. CASE GetPassword \/ DialogFails \/ Answer \/ AnswerCode \/ NoAnswer
  BY <1>2 DEF GetPassword, DialogFails, Answer, AnswerCode, NoAnswer, local
<1>3. CASE Grant \/ StorePassword \/ Sync \/ InitKeys \/ OpenFails
  BY <1>3 DEF Grant, StorePassword, Sync, InitKeys, OpenFails, local
<1>4. CASE Open
  BY <1>4 DEF Open
<1>5. CASE Exit \/ Kill
  BY <1>5 DEF Exit, Kill, Idle
<1>6. CASE Expire \/ ChangeMaster \/ ClearKeyring \/ UNCHANGED vars
  BY <1>6 DEF Expire, ChangeMaster, ClearKeyring, vars, local
<1> QED BY <1>1, <1>2, <1>3, <1>4, <1>5, <1>6 DEF Next

(* OutputReads of a given record.                                            *)
ReadsBack(x) ==
  CASE x.kind = "text"  -> ShWord(x.printed) = [at |-> "bare", word |-> x.stored]
    [] x.kind = "key"   -> x.printed = x.stored
    [] x.kind = "code"  -> Value(x.printed, 10) = Bits31(x.stored) % (1000 * 1000)
    [] x.kind = "steam" -> Value(Reverse(x.printed), 26) = Bits31(x.stored) % (26 * 26 * 26 * 26 * 26)
    [] x.kind = "none"  -> TRUE

LEMMA ReadsShown == (OutputReads <=> ReadsBack(shown)) /\ (OutputReads' <=> ReadsBack(shown'))
<1>1. OutputReads <=> ReadsBack(shown)
  BY Zenon DEF OutputReads, ReadsBack
<1>2. OutputReads' <=> ReadsBack(shown')
  BY Zenon DEF OutputReads, ReadsBack
<1> QED BY <1>1, <1>2

(* Whatever an item, a secret or an HMAC is, of whatever length, and however *)
(* a service writes a secret: what get prints means what is stored.         *)
THEOREM PrintedReadsBack == Spec => []OutputReads
<1>1. Init => OutputReads
  BY DEF Init, OutputReads, Nothing
<1>2. OutputReads /\ [Next]_vars => OutputReads'
  <2> SUFFICES ASSUME OutputReads, [Next]_vars  PROVE OutputReads'
    OBVIOUS
  <2>1. CASE shown' = shown
    <3>1. ReadsBack(shown) = ReadsBack(shown')
      BY <2>1, Zenon
    <3> QED BY <3>1, ReadsShown
  <2>2. CASE shown' = Nothing
    BY <2>2 DEF OutputReads, Nothing
  <2>3. ASSUME NEW t \in Texts,
               shown' = [kind |-> "text", stored |-> t, printed |-> ShellQuote(t)]
        PROVE  OutputReads'
    <3>1. ShWord(ShellQuote(t)) = [at |-> "bare", word |-> t]
      BY UnlockAssumption, TextReads
    <3> QED BY <2>3, <3>1 DEF OutputReads
  <2>4. ASSUME NEW k \in Keys, NEW s \in Styles,
               shown' = [kind |-> "key", stored |-> k, printed |-> TotpSecret(Written(k, s))]
        PROVE  OutputReads'
    <3>1. TotpSecret(Written(k, s)) = k
      BY UnlockAssumption, SecretReads
    <3> QED BY <2>4, <3>1 DEF OutputReads
  <2>5. ASSUME NEW sum \in Sums, NEW k \in {"code", "steam"},
               shown' = [kind |-> k, stored |-> sum,
                         printed |-> IF k = "code" THEN TotpHotp(sum) ELSE SteamCode(sum)]
        PROVE  OutputReads'
    <3>1. /\ Value(TotpHotp(sum), 10) = Bits31(sum) % (1000 * 1000)
          /\ Value(Reverse(SteamCode(sum)), 26) = Bits31(sum) % (26 * 26 * 26 * 26 * 26)
      BY UnlockAssumption, CodesCount
    <3>2. CASE k = "code"
      <4>1. shown'.kind = "code" /\ shown'.stored = sum /\ shown'.printed = TotpHotp(sum)
        BY <2>5, <3>2
      <4> QED BY <3>1, <4>1 DEF OutputReads
    <3>3. CASE k = "steam"
      <4>1. shown'.kind = "steam" /\ shown'.stored = sum /\ shown'.printed = SteamCode(sum)
        BY <2>5, <3>3
      <4> QED BY <3>1, <4>1 DEF OutputReads
    <3> QED BY <3>2, <3>3
  <2>6. CASE Output
    BY <2>1, <2>3, <2>4, <2>5, <2>6 DEF Output
  <2> QED BY <2>1, <2>2, <2>6, StepShown
<1> QED BY <1>1, <1>2, PTL DEF Spec
=============================================================================
