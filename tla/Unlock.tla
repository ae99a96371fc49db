------------------------------- MODULE Unlock -------------------------------
(***************************************************************************)
(* Where the master password comes from and where it goes: the interactive *)
(* login with its choice of a server, the renewal of a token, and the      *)
(* commands that open the vault; the chain of prompts, $PASSWORD and the   *)
(* keyring; a user who mistypes it, or changes it elsewhere.  Invocations  *)
(* come one after the other, without client credentials.                   *)
(*                                                                         *)
(* A password is a number: the user's master passwords in their order, one *)
(* that never was one (Typo), or 0, a blank answer.                        *)
(***************************************************************************)
EXTENDS Totp, Shell

CONSTANTS MaxMaster,  \* bound: the master passwords the user comes to have
          Envs,       \* the environments of the invocations
          Setups,     \* where the account is, and what config names
          Texts,      \* passwords of the items, as characters
          Keys,       \* one-time secrets, as bytes
          Styles,     \* how services write them
          Sums        \* HMACs

Typo == MaxMaster + 1
Password == 0..Typo
Server == {"cloud", "self"}

Environment == [dialogs : 0..3,                    \* zenity, kdialog, $SSH_ASKPASS
                stdin : {"tty", "lines", "none"},  \* lines: FORCE_STDIN_PROMPTS
                tool : {"none", "works", "locked"},  \* secret-tool
                password : Password]               \* $PASSWORD, 0 if unset
Setup == [home : Server, configured : {"none", "self"}]

ASSUME UnlockAssumption ==
  /\ MaxMaster \in Nat \ {0} /\ Envs \subseteq Environment /\ Setups \subseteq Setup
  /\ \A t \in Texts : t \in Seq(STRING)
  /\ \A k \in Keys : k \in Seq(0..255) /\ k # <<>>
  /\ \A s \in Styles : s \in [padded : BOOLEAN, lower : BOOLEAN, spaced : BOOLEAN]
  /\ \A sum \in Sums : sum \in [1..20 -> 0..255]

VARIABLES
  master,   \* the account's master password
  keyring,  \* what secret-tool has, 0 if nothing
  setup,
  disk,     \* data.json: the token, and the password the vault opens with
  pc, cmd, env,
  where,    \* apiURL and idtURL
  mem,      \* globalData
  cached,   \* secrets._password, 0 if nil
  purpose,  \* what the password is for: "login", "relogin", "open"
  failed,   \* the dialogs that have failed
  typed,    \* the password of a grant
  from,     \* where password() had it from
  asked,    \* history: the passwords the user has given, but for blank ones
  byHand,   \* history: the interactive login has asked
  shown     \* what get has printed, with what is stored

account == <<master, keyring, setup>>
local   == <<where, mem, cached, purpose, failed, typed, from, asked, byHand, shown>>
vars    == <<account, disk, pc, cmd, env, local>>

Token   == [home : Server \cup {"none"}, since : 0..MaxMaster, fresh : BOOLEAN]
Saved   == [token : Token, vault : 0..MaxMaster]
NoToken == [home |-> "none", since |-> 0, fresh |-> FALSE]
NoEnv   == [dialogs |-> 0, stdin |-> "none", tool |-> "none", password |-> 0]
Nothing == [kind |-> "none", stored |-> <<>>, printed |-> <<>>]

(* Faulty: what config says of the servers comes too late.                  *)
FirstServerDefault(s) == "cloud"

(* Faulty: no server where config has none.                                 *)
FirstServerUnset(s) == s.configured

(* loadConfig: its apiurl and identityurl, else Bitwarden's own.            *)
FirstServer(s) == IF s.configured = "none" THEN "cloud" ELSE s.configured

Idle(d) ==
  /\ pc' = "idle" /\ cmd' = "none" /\ env' = NoEnv /\ where' = "cloud" /\ mem' = d
  /\ cached' = 0 /\ purpose' = "none" /\ failed' = 0 /\ typed' = 0 /\ from' = "none"
  /\ asked' = 0 /\ byHand' = FALSE /\ shown' = Nothing

Init ==
  /\ master = 1 /\ keyring = 0 /\ setup \in Setups
  /\ disk = [token |-> NoToken, vault |-> 0] /\ mem = disk
  /\ pc = "idle" /\ cmd = "none" /\ env = NoEnv /\ where = "cloud"
  /\ cached = 0 /\ purpose = "none" /\ failed = 0 /\ typed = 0 /\ from = "none"
  /\ asked = 0 /\ byHand = FALSE /\ shown = Nothing

Goto(l) == pc' = l /\ UNCHANGED <<cmd, env>>

-----------------------------------------------------------------------------
(* run.  (Before a vault is opened anything else may go wrong, too.)        *)
Entry == [login |-> "gate", sync |-> "ensure", cache |-> "ensure", get |-> "password",
          totp |-> "password"]

Start ==
  /\ pc = "idle"
  /\ \E c \in DOMAIN Entry, e \in Envs :
       /\ pc' = Entry[c] /\ cmd' = c /\ env' = e
       /\ where' = FirstServer(setup) /\ mem' = disk
  /\ UNCHANGED <<account, disk, cached, purpose, failed, typed, from, asked, byHand, shown>>

(* ensureToken: a token that is not known to have expired is taken as it is. *)
EnsureToken ==
  /\ pc = "ensure"
  /\ \/ mem.token.home = "none" /\ Goto("gate") /\ UNCHANGED purpose
     \/ mem.token.fresh /\ Goto("sync") /\ UNCHANGED purpose
     \/ mem.token.home # "none" /\ ~mem.token.fresh /\ Goto("password") /\ purpose' = "relogin"
  /\ UNCHANGED <<account, disk, where, mem, cached, failed, typed, from, asked, byHand, shown>>

(* loginInteractive, first: stdin must be a terminal, or pass for one.      *)
Gate ==
  /\ pc = "gate"
  /\ Goto(IF env.stdin = "none" THEN "exit" ELSE IF where = "cloud" THEN "server" ELSE "typing")
  /\ UNCHANGED <<account, disk, local>>

(* selectServer; the choice is not written to config. *)
SelectServer ==
  /\ pc = "server" /\ Goto("typing") /\ where' \in Server
  /\ UNCHANGED <<account, disk, mem, cached, purpose, failed, typed, from, asked, byHand, shown>>

(* Reading a line fails, or it makes no sense; there is no email; or a      *)
(* request fails, or an answer.  What the command has done so far is saved. *)
GivesUp ==
  /\ pc \in {"server", "typing", "grant", "grant2", "sync", "keys"} /\ Goto("exit")
  /\ UNCHANGED <<account, disk, local>>

-----------------------------------------------------------------------------
(* readLibsecretPassword: silent when there is no tool, or no password.     *)
InKeyring(e) == IF e.tool = "works" THEN keyring ELSE 0

(* passwordPromptInteractive asks the keyring, but neither _password nor    *)
(* $PASSWORD.                                                               *)
LoginPassword ==
  /\ pc = "typing" /\ purpose' = "login" /\ failed' = 0
  /\ IF InKeyring(env) # 0 THEN Goto("grant") /\ typed' = InKeyring(env)
                           ELSE Goto("ask") /\ UNCHANGED typed
  /\ UNCHANGED <<account, disk, where, mem, cached, from, asked, byHand, shown>>

(* Faulty: the keyring goes first.                                          *)
SourceKeyringFirst(c, e) ==
  IF c # 0 THEN "cache"
  ELSE IF InKeyring(e) # 0 THEN "keyring"
  ELSE IF e.password # 0 THEN "$PASSWORD" ELSE "dialog"

(* The order of secrets.password(). *)
Source(c, e) ==
  IF c # 0 THEN "cache"
  ELSE IF e.password # 0 THEN "$PASSWORD"
  ELSE IF InKeyring(e) # 0 THEN "keyring" ELSE "dialog"

(* Faulty: what was typed is forgotten.                                     *)
RemembersUntyped(src, pw) == IF src = "dialog" THEN 0 ELSE pw

(* secrets._password, afterwards; a blank answer is no password.            *)
Remembers(src, pw) == pw

(* What the caller of password() does next: a relogin asks for a token, get *)
(* and cache go on to initKeys, which calls it again.                       *)
AfterPassword(reason) == CASE reason = "relogin" -> "grant" [] reason = "open" -> "open"
                           [] OTHER -> "keys"

GetPassword ==
  /\ pc = "password" /\ failed' = 0
  /\ LET src == Source(cached, env)
         pw  == CASE src = "cache" -> cached [] src = "$PASSWORD" -> env.password
                  [] OTHER -> InKeyring(env) IN
     IF src = "dialog"
       THEN Goto("ask") /\ UNCHANGED <<cached, typed, from>>
       ELSE /\ Goto(AfterPassword(purpose))
            /\ cached' = Remembers(src, pw) /\ typed' = pw
            /\ from' = IF src = "cache" THEN from ELSE src
  /\ UNCHANGED <<account, disk, where, mem, purpose, asked, byHand, shown>>

-----------------------------------------------------------------------------
(* The chain of prompts: dialog programs as long as they fail, and then     *)
(* the terminal, if stdin is one, or lines of stdin, if that is forced.     *)

(* A program that is cancelled, or finds no display, is as good as none.    *)
DialogFails ==
  /\ pc \in {"ask", "code"} /\ failed < env.dialogs /\ failed' = failed + 1
  /\ UNCHANGED <<account, disk, pc, cmd, env, where, mem, cached, purpose, typed, from,
                 asked, byHand, shown>>

(* The terminal takes no blank answer, the dialogs and lines of stdin do.   *)
Answers ==
  IF failed < env.dialogs \/ env.stdin = "lines" THEN Password
  ELSE IF env.stdin = "tty" THEN Password \ {0} ELSE {}

Answer ==
  /\ pc = "ask"
  /\ \E pw \in Answers :
       /\ typed' = pw /\ asked' = (IF pw = 0 THEN asked ELSE asked + 1)
       /\ IF purpose = "login"
            THEN Goto("grant") /\ byHand' = TRUE /\ UNCHANGED <<cached, from>>
            ELSE /\ Goto(AfterPassword(purpose)) /\ UNCHANGED byHand
                 /\ cached' = Remembers("dialog", pw) /\ from' = "dialog"
  /\ UNCHANGED <<account, disk, where, mem, purpose, failed, shown>>

(* twoFactorPrompt. *)
AnswerCode ==
  /\ pc = "code" /\ Answers # {} /\ Goto("grant2")
  /\ UNCHANGED <<account, disk, local>>

(* No terminal, an end of file, a blank answer to the terminal. *)
NoAnswer ==
  /\ pc \in {"ask", "code"} /\ failed = env.dialogs /\ Goto("exit")
  /\ UNCHANGED <<account, disk, local>>

-----------------------------------------------------------------------------
(* The server accepts a grant.  (There is an account at setup.home only.)   *)
Accepts == where = setup.home /\ typed = master

(* Faulty: the keyring is given the password whatever the server says.      *)
StepAfterStores(accepted) == IF purpose = "login" THEN "store" ELSE IF accepted THEN "sync" ELSE "exit"

(* Where the login goes on: storePasswordLibsecret comes last, after every  *)
(* way to fail; a relogin does not store.                                   *)
StepAfter(accepted) ==
  IF ~accepted THEN "exit" ELSE IF purpose = "login" THEN "store" ELSE "sync"

(* Both grants of a password: the answer is a token, a demand for a second  *)
(* factor, or an error.                                                     *)
Grant ==
  /\ pc \in {"grant", "grant2"}
  /\ \/ /\ Accepts /\ Goto(StepAfter(TRUE))
        /\ mem' = [mem EXCEPT !.token = [home |-> where, since |-> master, fresh |-> TRUE]]
        /\ UNCHANGED failed
     \/ Accepts /\ pc = "grant" /\ Goto("code") /\ failed' = 0 /\ UNCHANGED mem
     \/ ~Accepts /\ Goto(StepAfter(FALSE)) /\ UNCHANGED <<failed, mem>>
  /\ UNCHANGED <<account, disk, where, cached, purpose, typed, from, asked, byHand, shown>>

StorePassword ==
  /\ pc = "store" /\ Goto(IF cmd = "login" THEN "exit" ELSE "sync")
  /\ keyring' = (IF env.tool = "works" THEN typed ELSE keyring)
  /\ UNCHANGED <<master, setup, disk, local>>

(* The server knows its own tokens, of the time since the password changed. *)
Sync ==
  /\ pc = "sync" /\ mem.token.home = where /\ mem.token.since = master
  /\ mem' = [mem EXCEPT !.vault = master] /\ purpose' = "none"
  /\ Goto(IF cmd = "cache" THEN "password" ELSE "exit")
  /\ UNCHANGED <<account, disk, where, cached, failed, typed, from, asked, byHand, shown>>

(* initKeys: needs an email, and password() again.                          *)
InitKeys ==
  /\ pc = "keys" /\ Goto("password") /\ purpose' = "open"
  /\ UNCHANGED <<account, disk, where, mem, cached, failed, typed, from, asked, byHand, shown>>

(* The vault's key opens with the password that it was synced under: there  *)
(* is an item, or its one-time code, to print.                              *)
Output ==
  \/ /\ cmd = "cache" /\ shown' = shown
  \/ /\ cmd = "get"
     /\ \E t \in Texts : shown' = [kind |-> "text", stored |-> t, printed |-> ShellQuote(t)]
  \/ /\ cmd = "totp"
     /\ \/ \E k \in Keys, s \in Styles :
             shown' = [kind |-> "key", stored |-> k, printed |-> TotpSecret(Written(k, s))]
        \/ \E sum \in Sums : \E k \in {"code", "steam"} :
             shown' = [kind |-> k, stored |-> sum,
                       printed |-> IF k = "code" THEN TotpHotp(sum) ELSE SteamCode(sum)]

Open ==
  /\ pc = "open" /\ cached = mem.vault /\ mem.vault # 0 /\ Output /\ Goto("exit")
  /\ UNCHANGED <<account, disk, where, mem, cached, purpose, failed, typed, from, asked, byHand>>

(* A MAC mismatch; without a vault initKeys even panics.                    *)
OpenFails ==
  /\ pc = "open" /\ (cached # mem.vault \/ mem.vault = 0) /\ Goto("exit")
  /\ UNCHANGED <<account, disk, local>>

(* The deferred save. *)
Exit == pc = "exit" /\ disk' = mem /\ Idle(mem) /\ UNCHANGED account

-----------------------------------------------------------------------------
(* Elsewhere and at any time: the process is killed, the token expires, the *)
(* user changes the master password, or clears the keyring.                 *)
Kill == pc # "idle" /\ Idle(disk) /\ UNCHANGED <<account, disk>>

Expire ==
  /\ pc = "idle" /\ disk.token.fresh
  /\ disk' = [disk EXCEPT !.token.fresh = FALSE] /\ mem' = disk'
  /\ UNCHANGED <<account, pc, cmd, env, where, cached, purpose, failed, typed, from, asked,
                 byHand, shown>>

ChangeMaster ==
  /\ master < MaxMaster /\ master' = master + 1
  /\ UNCHANGED <<keyring, setup, disk, pc, cmd, env, local>>

ClearKeyring ==
  /\ keyring # 0 /\ keyring' = 0
  /\ UNCHANGED <<master, setup, disk, pc, cmd, env, local>>

Next ==
  \/ Start \/ EnsureToken \/ Gate \/ SelectServer \/ GivesUp \/ LoginPassword \/ GetPassword
  \/ DialogFails \/ Answer \/ AnswerCode \/ NoAnswer \/ Grant \/ StorePassword \/ Sync
  \/ InitKeys \/ Open \/ OpenFails \/ Exit
  \/ Kill \/ Expire \/ ChangeMaster \/ ClearKeyring

Spec == Init /\ [][Next]_vars

-----------------------------------------------------------------------------
Labels == {"idle", "ensure", "gate", "server", "typing", "password", "ask", "code", "grant",
           "grant2", "store", "sync", "keys", "open", "exit"}

TypeOK ==
  /\ master \in 1..MaxMaster /\ keyring \in Password /\ setup \in Setups
  /\ disk \in Saved /\ mem \in Saved /\ pc \in Labels
  /\ cmd \in DOMAIN Entry \cup {"none"} /\ env \in Envs \cup {NoEnv} /\ where \in Server
  /\ cached \in Password /\ typed \in Password
  /\ purpose \in {"none", "login", "relogin", "open"}
  /\ failed \in 0..3 /\ failed <= env.dialogs /\ (pc = "idle" => failed = 0)
  /\ from \in {"none", "$PASSWORD", "keyring", "dialog"}
  /\ asked \in Nat /\ byHand \in BOOLEAN

(* What is in the keyring was the master password when it was stored there, *)
(* and is a typing error or a blank at no time: later logins take it        *)
(* without asking (auth.go:215), and get and cache believe it.              *)
KeyringOnceRight == keyring \in 0..master

(* "Unlock vault (derive master key ... once)" (cache.go:92): no invocation *)
(* has its user type the password twice, whether it is needed for a new     *)
(* token, or for the vault, or for both, but if it came to the interactive  *)
(* login.                                                                   *)
AsksOnce == asked <= 1 \/ (byHand /\ asked = 2)

(* passwordSource of status.go: what status would have said before.         *)
PasswordSource(e) ==
  IF e.password # 0 THEN "$PASSWORD"
  ELSE IF e.tool # "none" THEN "libsecret (if stored)" ELSE "would-prompt"

(* "which tier would supply the master password right now" (status.go:183): *)
(* what status says before a command is where its password() then has the   *)
(* password from, when the login does not ask.  $PASSWORD is named just     *)
(* when it is taken; what comes from the keyring was said to; and where     *)
(* "libsecret (if stored)" was said the user is asked only if nothing is    *)
(* stored there, or if the keyring is locked: status does not look into it  *)
(* (status.go:187).                                                         *)
StatusTells ==
  /\ from # "none" => (from = "$PASSWORD" <=> PasswordSource(env) = "$PASSWORD")
  /\ from = "keyring" => PasswordSource(env) = "libsecret (if stored)"
  /\ from = "dialog" /\ PasswordSource(env) = "libsecret (if stored)" =>
       keyring = 0 \/ env.tool = "locked"
  /\ asked > 0 /\ ~byHand => from = "dialog"

(* A token is shown only to the server that issued it, as far as config     *)
(* tells bitw which one that is: the server chosen at a prompt holds for    *)
(* one invocation.                                                          *)
TokenAtHome ==
  pc = "sync" /\ (setup.configured = setup.home \/ setup.home = "cloud") =>
    mem.token.home = where

(* Whatever is stored, what get prints means the same: a shell reads each   *)
(* export line as one word with the stored characters, and the secret of a  *)
(* one-time code is read back however the service writes it; a code is the  *)
(* low digits, to the base of its alphabet, of the 31 bits that RFC 4226    *)
(* takes.                                                                   *)
Bits31(sum) ==
  LET o == sum[20] % 16 IN
  Value(<<sum[o + 1] % 128, sum[o + 2], sum[o + 3], sum[o + 4]>>, 256)
OutputReads ==
  CASE shown.kind = "text"  -> ShWord(shown.printed) = [at |-> "bare", word |-> shown.stored]
    [] shown.kind = "key"   -> shown.printed = shown.stored
    [] shown.kind = "code"  -> Value(shown.printed, 10) = Bits31(shown.stored) % (1000 * 1000)
    [] shown.kind = "steam" -> Value(Reverse(shown.printed), 26) = Bits31(shown.stored) % (26 * 26 * 26 * 26 * 26)
    [] shown.kind = "none"  -> TRUE
=============================================================================
