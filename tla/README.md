# TLA+ models of bitw

bitw is a command-line client for Bitwarden: it logs in, keeps the encrypted vault
in `data.json`, prints secrets, exports them for shells, and creates and edits items.
This directory holds TLA+ models of its core, the TLC runs that check them on small
instances, and theorems about them with proofs that TLAPS checks.

    tlc -workers 2 -config cache.cfg MCCache      # one of the runs of PROJECT.json
    tlapm CacheProofs.tla                         # one of the modules with proofs

## 1. The system

bitw has no daemon. Every command is a process that loads `data.json`, works on
`globalData`, and writes the whole file back at its end if `saveData` was set. All
concurrency comes from processes that overlap (shells start `bitw cache` in their
profile), from other clients of the account, from requests that outlive their
sender, from signals, and from two goroutines: the SIGINT handler and the reader
after ESC in the picker.

| part | state | operations | what is hard | modelled in |
|---|---|---|---|---|
| run, dispatch, data.json (`main.go`) | `data.json`, `globalData`, `saveData` | load, deferred save, SIGINT handler | truncate-then-write, overlapping runs, prompts that cannot be cancelled | Session |
| login, tokens (`auth.go`, `api.go`) | token triple, KDF block | API key, password, second factor, refresh, re-login | rotation, lost replies, expiry, abandoned logins | Session |
| sync (`sync.go`) | the vault in `globalData.Sync` | GET /sync, KDF refresh, the decoding | two requests for one state; decoding into what was there | Session, SyncMerge |
| bitw cache (`cache.go`) | output, temporary file, libsecret | render the manifest, rename, mirror | atomic replacement, partial failure, two sections | Manifest, CacheFile, Cache |
| keys and ciphers (`crypto.go`) | key cache | initKeys, item and organization keys | half-initialised cache | Ciphers |
| create, edit (`create.go`, `edit.go`) | the account's list, the local list | check, POST, PUT, sync again | check-then-act, late requests, stale edits, members left out | Ciphers, Vault |
| get, picker (`get.go`, `fuzzy.go`, `picker.go`) | filter, rows, selection, window, terminal mode | lookup, ranking, key loop, key decoder | typing ahead, two readers of stdin, restore, ranking | Fuzzy, Picker |
| Secrets Manager (`sm.go`) | its own token; nothing local | list, get, create, edit | read-merge-write, ambiguous keys, flags after the key, padding | CommandLine, Padding, Secrets, SecretsManager |
| TOTP, export lines (`totp.go`, `get.go`) | none | reading a secret, HOTP, Steam codes, quoting | modular arithmetic, quotes | Totp, Shell |
| prompt chain, passwords, server choice (`main.go`, `auth.go`, `crypto.go`) | libsecret, process cache, config | zenity, kdialog, askpass, terminal; password(); selectServer | who asks when; what is stored when; a changed password | Unlock |
| status (`status.go`) | none | print | repeats the order of the password's sources | Unlock, that order only |
| list, dump, completions, version | none | print | nothing changes state | not modelled |

They interact through `data.json` (all commands), the account at the server (sync,
create, edit, other clients), libsecret (login reads the password there, cache mirrors
into it) and the terminal (prompts, the picker, the signal handler).

What makes each part correct:

- *Session*: token, refresh token and expiry are of one grant; no request goes out with
  a token from before a renewal; a command that fails still saves what it was granted;
  KDF block and vault fit each other; an unattended run ends, an interrupted one too.
- *Sync*: after a sync the list has exactly what the server sent, at the right cipher.
- *Cache*: whoever sources the output finds a whole file of one vault; the exit code
  says if something is missing; libsecret has what the file says of every variable that no
  alias exports again.
- *Vault*: create is idempotent by name; what ends well is visible to the next
  command; an edit changes what was asked.
- *Secrets Manager*: a key never means one of several secrets; a key that means one is
  found; an edit changes what was asked.
- *Prompts and passwords*: the keyring gets only what the server accepted; the user
  types the master password once; a token goes to its own server.
- *Picker*: what is taken is what the user saw marked, or the one clear match; one
  reader of stdin at a time; the terminal comes back.

## 2. Modules

**Session** — `pc[p]` is the place where invocation `p` waits (for a response, a user,
or a file operation); `mem`, `dirty` are its `globalData` and `saveData`; `file`, `disk`
are `data.json`, which may be torn. One action per stretch of code between two such
places: `Run` (`loadDataFile`, `dispatch`), `EnsureToken`, `Refresh`, `ApiGrant`,
`Ask`, `Prelogin`, `Password`, `PasswordGrant`, `Code`, `PasswordGrant2`,
`RePassword`, `RePrelogin`, `SyncGet`, `RefreshKDF`, `Read`, `Truncate`, `Write`. A
grant is made at the server (`Issue`) when the request arrives; `StoreToken` or
`LoseReply` end the delivery. `Crash`, `SaveFails`, `Sigint`, `HandlerExit`, `Rekey`,
`Tick` are the surroundings. Tokens are numbers of grants; KDF and vault carry the
epoch of the account's keys.

**SyncMerge** — what `json.Decode` into the existing `globalData.Sync` makes of a list:
`MergeList` keeps the array, `MergeCipher` treats a plain member, a `CipherString` by
value, a pointer, and one by value behind a pointer. `Sync`, `SyncFails` (the
decoding stops in the k-th element), `Start`, `Exit`, and the other clients' changes.

**Manifest, CacheFile, Cache** — `Manifest` gives the lines of `cache.ini`, vaults,
what a line reads from a vault, the file of a vault, and what a shell that sources a
file has in a variable (`Sourced`: the exports one after the other, an alias line
taking what its source variable has at that place). `CacheFile` is the promise: the file goes from one whole
rendering to another in one step, of a vault the account had during the run. `Cache`
is `cmdCache`: `Sync`, `Unlock`, `Open`, `ExportLine` for each line of
`[cache]` and `[cache-fields]`, `AliasLine` for each of `[cache-aliases]`, `Rename`,
`Mirror`, `Exit`, with `Kill` at any point and errors on every step. It implements `CacheFile` (`Atomic == INSTANCE CacheFile WITH file <- out`), where `during` is the history of the account since a run began.

**Ciphers, Vault** — `Ciphers` has what can be decrypted after `initKeys` has, or has
half, succeeded (`KeyedOrgs`, `Readable`), `FindCipherByName`, the body of a new
cipher and of an edit (`CreateBody`, `EditBody`, `MergeFields`). `Vault` runs
`cmdCreate`, `cmdEdit` and a bare sync by several processes against one account:
`Start`, `Token`, `Sync`, `Check` or `Open`, `Send`, then the server's
`ServerCreates`, `ServerEdits`, `ServerRefuses`, then `Resync`, `Exit`. With
`GiveUp` the client's 10 seconds pass; the request stays in `sent` and may still be
carried out.

**Fuzzy, Picker** — `Fuzzy` is `fuzzyScore` (`FuzzyMatch`, a fold over the query),
`fuzzyRank`, `autoSelectCandidate` (`Confident`) and the picker's own ranking (`Rows`).
`Picker` is `bitw get` up to the cipher it goes on with: `GetExact`, `GetFuzzy`,
`GetUnclear`, `GetAny`, then `Render` and one `Read...` action per case of
`readKeyFromStdin`, including multi-byte runes, and the goroutine after ESC
(`ReadEsc`, `EscReads`, `EscReadFails`, `EscDecoded`, `EscTimeout`). `Interrupt` and
`HandlerExit` are the SIGINT handler, `HangUp` a terminal that goes away.

**Padding, CommandLine, Secrets, SecretsManager** — `Padding` is PKCS #7 as
`padPKCS7` and `unpadPKCS7` have it, byte by byte. `CommandLine` is what Go's `flag`
package makes of the arguments of `bitw sm` (`Parse`, a fold). `Secrets` has which
secret a key means (`Found`: `Bearers`, else the one `Best` fuzzy match), which fields
decrypt (`Opens`), what the arguments rule out (`RefusedEarly`, `Refused`,
`ValueMissing`) and what is sent (`Created`, `Merged`). `SecretsManager` runs the command: `Start`,
`Exchange`, then in an order that depends on the command `LookUp`, `List`,
`FindProject`, `Fetch`, `Send`; the server's `ServerCreates`, `ServerEdits`,
`ServerRefuses`; other clients' `OtherWrites`, `OtherDeletes`. A request that was given
up (`RequestFails`) stays in `sent`.

**Totp, Shell, Unlock** — `Totp` reads a base32 secret as services write it and makes a
code of an HMAC; `Shell` has `shellQuote` and a POSIX shell reading a word. `Unlock`
runs login, sync, cache, get and get totp one after the other in different environments
(dialog programs, kind of standard input, keyring, `$PASSWORD`): `EnsureToken`, `Gate`,
`SelectServer`, `LoginPassword` (keyring, then prompt), `GetPassword`
(`secrets.password()`: cache, `$PASSWORD`, keyring, prompt), the chain of prompts
(`DialogFails`, `Answer`, `AnswerCode`, `NoAnswer`), `Grant`, `StorePassword`, `Sync`,
`InitKeys`, `Open`. Elsewhere `Kill`, `Expire`, `ChangeMaster`, `ClearKeyring`. A password is a
number, so that a typo, a former and the present one differ. Session has the same
prompts as mere waits, but overlapping invocations and clocks; the two modules share
`Grant`, `Sync` and the deferred save as seen from their side.

`MC...` modules give the instances, `...Proofs` modules the proofs; `DataLemmas` has what
several of them need to know of data: the least and the greatest of a set of
numbers, induction up to a number, the values a fold passes through, and that a finite
set can be sorted.
Operators whose comment begins with "Faulty" are the plausible bugs with which every
property has been tried; no specification uses them.

## 3. Runs

Those that pass:

| run | shows |
|---|---|
| `session_concurrent` | two invocations over one `data.json`, kills, expiry, rotation: `TokenTripleCoherent`, `FreshBearer`, `SessionKept` (when nobody runs, the newest session is on disk and still accepted, unless something named disturbed it) |
| `session_alone` | one invocation after another in all environments, with every fault and slow responses: `TypeOK`, `FreshBearer`, `SyncTruth`, `OneAtATimeAdvances`, and under fairness `SigintEnds`, `UnattendedEnds` |
| `sync_merge` | any sequence of syncs and changes by other clients: `NothingMissing`, `TypeOK` |
| `cache` | two runs for one output, kills, a changing vault, alias lines, errors at every step: `ReplacesAtomically` (refinement), `ExitTruth`, `MirrorAgrees`, `NoLitter`, `TypeOK` |
| `vault` | two invocations of create and edit and another client, lost and late requests, kills: `UniqueNames`, `VisibleAfter`, `EditIsExact`, `TypeOK` |
| `sm` | every command of Secrets Manager with every shape of arguments, organizations with ambiguous and unreadable secrets, other clients, lost and late requests: `NeverAmbiguous`, `Reachable`, `EditIsExact`, `TypeOK` |
| `login` | login, sync, cache, get, get totp in six environments, with typos, failing dialogs, second factors, kills, a password changed elsewhere: `KeyringOnceRight`, `AsksOnce`, `StatusTells`, `TokenAtHome`, `OutputReads`, `TypeOK` |
| `picker` | all byte sequences and filters within the bounds, ESC's 50 ms, hang-up and SIGINT at any moment: `TakesWhatIsShown`, `OneReader`, `TerminalRestored`, `NeverSpins`, `AutoIsFirst`, `RowsMatch`, `TypeOK` |

Those that end in a counterexample show where the code and what it says differ; each
is a finding in `PROJECT.json` with both places quoted:

| run | finding |
|---|---|
| `sync_stale` | a null for a `CipherString` keeps what the cipher formerly at that place had (`sync.go:299`) |
| `vault_orgkey` | an organization key that does not decode makes create pass over the first cipher, and a name comes twice (`crypto.go:228`) |
| `vault_edit` | the body of an edit lacks folder, favorite, card, identity and URIs (`edit.go:166`) |
| `sm_edit` | the empty note that `sm create` encrypts cannot be decrypted, so `sm edit` fails on what `sm create` made (`crypto.go:488`) |

Two properties carry exceptions that are history in the model. In Session
`disturbed` says that since the last grant to a lone invocation invocations
overlapped, a response was lost, or one was cut short that held a grant which was
not on disk or was halfway through its save (`Loses`); any other kill, interrupt or
failed save is no excuse. In Vault `excuse` says that two clients were at
creating a name at once, that an edit of a stale copy gave a cipher its old name back,
or that the check passed over ciphers it could not decrypt: the code does not, and
without help of the server cannot, rule these out. Other exceptions are spelt out in the properties: Vault's `EditIsExact` is about ciphers
that are up to date locally and do not have two fields of one name, and does not speak of
the secret of a login or SSH key without such an object; that of Secrets Manager is about
command lines that `flag.Parse` reads up to one key or id (so not about `sm edit KEY --value
V`, listed in section 5), and about fields that held a text; `MirrorAgrees` compares with the whole file only where no alias exports the variable
again; `StatusTells` leaves out the interactive login and names the locked keyring. `TakesWhatIsShown`
is about terminals with room for a row, `TerminalRestored` about pickers that were
not just starting when the signal handler restored the terminal.

### Bounds

- Session: two invocations (all races on `data.json` are between a load and
  another's save; a third adds no new kind of overlap), two grants (one is superseded),
  three ticks with a lifetime of one (fresh, expiring now, expired), two key epochs.
  Expiry at the very tick matters: `Before` and `After` both fail there.
- SyncMerge: two ciphers, three changes, two syncs per invocation (create and edit
  sync twice): enough to delete the first of two and to add again.
- Cache: two runs, one change of the vault during a run, each cipher there or not, each
  field readable or not. Four lines: a password as `X`; a field of another cipher as
  `X` again and one as `Y`; an alias that exports `$X` as `Y` once more. So a
  variable is exported by two sections, and by a field and an alias. The alias
  name is valid (others are skipped, `cache.go:224`) and its source is a variable of the file.
- Vault: two invocations, at most two ciphers, one change by another client; the
  jobs are a create and an edit of one name, so that every step of one can fall between
  two of the other. One request per invocation slot may be on its way after it was
  given up. Other clients leave cards and logins without a login object.
  Only creates may find the token expired (`Renewing`): renewing in an edit, too, would
  more than double the states. It matters where a command fails later on, as it then
  saves the list it started with over another's (`main.go:489`).
  Any list of custom fields may occur; which do, follows from the jobs and from what
  strangers store. The account starts empty, and every list within the bound is then
  reached by creates.
- Secrets Manager: three secrets, three projects of which two share a name, two
  changes by other clients; one invocation at a time, whose given-up request
  may overlap with the next. Fourteen command lines: each command with a flag before
  and after the key, with `=`, missing, and unknown. The initial organizations have two
  secrets of one key in different projects, a fuzzy tie, a secret without a note, one
  that does not decrypt, and a key that is another secret's id.
- Prompts: two master passwords and a typo (one is former, one present), six
  environments, three ways in which account and config agree or not. Quoted texts of up to
  four characters, quotes and backslashes at every place; secrets of 1 to 11 bytes, all
  remainders of base32's groups, in eight styles; HMACs with the offset at both ends.
- Picker: four ciphers on a terminal with room for two rows; filters and bytes
  typed ahead of three together, of which two may be unread. Six runes, one of two
  bytes. What is typed before the picker belongs to the prompts.

Where the models abstract: a request is one step at the server and one at the client;
a `data.json` that a kill leaves between truncation and writing is torn, and two
saves that overlap leave one of the two records (the file is rewritten from its start,
and `json.Decoder` ignores what follows the first value); ciphertexts are what they
decrypt to, or that they do not (only their padding is modelled); names, notes and
secrets are model values; other clients keep names unique. A prompt is a step only its user can take.

### Fairness

Only `session_alone` checks liveness. `FairSpec` asks weak fairness of `Step(p)`: a
process that need not wait for its user runs on, since every request ends after the
HTTP client's 10 seconds (`api.go:29`); and of `HandlerExit(p)`: the goroutine
of `setupSignalContext` sleeps 200 ms and exits. Nothing is asked of `Answer(p)`:
a prompt may wait forever. The picker's `NeverSpins` needs no fairness: it bounds
the steps left after a hang-up by a count that every step lowers.

## 4. What is proved

For every number of invocations, every set of environments and all bounds:

| theorem | says |
|---|---|
| `SessionProofs!TypeCorrect` | `TypeOK` |
| `SessionProofs!TokenTriple` | `TokenTripleCoherent` |
| `SessionProofs!BearerIsFresh` | `FreshBearer` |
| `SessionProofs!SessionIsKept` | `SessionKept` |
| `SessionProofs!SyncIsTrue` | `SyncTruth` |
| `SessionProofs!AloneOnlyAdvances` | `OneAtATimeAdvances`, for one invocation at a time |
| `SyncMergeProofs!TypeCorrect` | `TypeOK` |
| `SyncMergeProofs!SyncLosesNothing` | `NothingMissing` |
| `CacheProofs!TypeCorrect` | `TypeOK` |
| `CacheProofs!ExitIsTrue` | `ExitTruth` |
| `CacheProofs!NothingLeft` | `NoLitter` |
| `CacheProofs!MirrorIsTrue` | `MirrorAgrees` |
| `CacheProofs!Refinement` | `Cache` implements `CacheFile` |
| `VaultProofs!TypeCorrect` | `TypeOK` |
| `VaultProofs!SavedIsVisible` | `VisibleAfter` |
| `VaultProofs!NamesStayUnique` | `UniqueNames` |
| `VaultProofs!EditChangesWhatWasAsked` | `EditIsExact` |
| `PickerProofs!TypeCorrect` | `TypeOK` |
| `PickerProofs!NoSecondReader` | `OneReader` |
| `PickerProofs!Restores` | `TerminalRestored` |
| `PickerProofs!Ends` | `NeverSpins` |
| `PickerProofs!TakenIsShown` | `TakesWhatIsShown` |
| `PickerProofs!RowsAreMatches` | `RowsMatch` |
| `PickerProofs!TakenIsBest` | `AutoIsFirst` |
| `SecretsManagerProofs!UnpadAfterPad` | `unpadPKCS7` undoes `padPKCS7` for every text but the empty one |
| `SecretsManagerProofs!EmptyIsRefused` | and refuses what that makes of the empty one |
| `SecretsManagerProofs!TypeCorrect` | `TypeOK` |
| `SecretsManagerProofs!KeyIsNeverAmbiguous` | `NeverAmbiguous` |
| `SecretsManagerProofs!KeyIsFound` | `Reachable` |
| `SecretsManagerProofs!EditWritesWhatWasAsked` | `EditIsExact` |
| `UnlockProofs!TypeCorrect` | `TypeOK` |
| `UnlockProofs!KeyringIsRight` | `KeyringOnceRight` |
| `UnlockProofs!PasswordAskedOnce` | `AsksOnce` |
| `UnlockProofs!StatusIsTrue` | `StatusTells` |
| `UnlockProofs!TokenStaysHome` | `TokenAtHome` |
| `UnlockProofs!PrintedReadsBack` | `OutputReads` |

So every safety invariant and every action property of the passing runs is a theorem, for
constants of any size, with the exceptions that the property itself names (section 3).

The assumptions are the named `ASSUME`s of the modules, which TLC evaluates in the runs:
constants have their types, and the accounts that a specification starts with are
ones that occur. Two say a little more: different runes have different codes
(`FuzzyAssumption`; Go orders names by them), and a key is not the empty one while an
HMAC has the 20 bytes of SHA-1 (`UnlockAssumption`). None says what an operator of
the models returns.
`ExitIsTrue`, `MirrorIsTrue` and `Refinement` also assume that `"full"` is not among the
faults: the code drops the errors of its writes to the temporary file, so on a full disk
a truncated file is renamed over the good one, and these promises do not hold.
`TypeCorrect` and `NothingLeft` hold on a full disk, too.

*Session.* The invariant is `IInv == TypeOK /\ ReplyIssued /\ TokenTripleCoherent /\
FreshBearer /\ SaveMeansDirty /\ LastKept /\ Epochs /\ SyncTruth`.
`TokenTripleCoherent` is not inductive by
itself: a response on its way must be of a grant that exists and not older than
`Latency` (`ReplyIssued`), or `StoreToken` could make an incoherent triple.
`FreshBearer` needs the same bound on the expiry that was stored. `SessionKept` talks of
the moments when nobody runs; `LastKept` is what is true in between: the newest grant,
with a refresh token that the server accepts, is on disk, or in the memory or the
response of the one invocation that runs, and then `SaveMeansDirty` says that its
deferred save will write it. An invocation that is cut short with nothing but what is on
disk (`Loses` is false) leaves all of that as it was, which is why such a kill needs no excuse. The step lemmas first say
where a triple can come from (`TripleOrigin`, `DiskOrigin`), how a response
arrives (`Arrivals`) and what other invocations leave alone (`OthersStay`), and then
take the conjuncts one by one. `SyncTruth` rests on `Epochs`: no vault is newer than
the account, so that one which is the present one at the end was so already when the KDF
block was asked for, after it. `AloneOnlyAdvances` adds `Ahead`: what the one running
invocation holds, or is about to receive, is no older than `data.json`; with a second
one it does not hold, and two that overlap do overwrite newer tokens.

*Cache.* `TypeOK` needs that a run counts no more failures than lines, `NoLitter` that the
temporary file is only linked while the run works on it: `Bookkept`, inductive with
`TypeOK`. The other theorems rest on `IInv`: `TypeOK` and, for every run, `RunInv`: the
lines done are in the temporary file as the run's vault reads them (`Filled`), that vault is one the
account had since the run began (`InTouch`), a line of `[cache]` without a value was
counted as failed (`FailsSeen`, which becomes `Truthful` after the rename), the map the
mirror reads from says what the file would set (`MapAgrees`), the name of the temporary
file exists only while lines are written or it is about to be renamed (`Linked`);
`Counted` and `Pending` bound the counters and say that nothing is there before the
first line. `MapAgrees` is the delicate one: map and file are filled by the same
loops, the map keeping one value per name, the file a line for each. `Agrees` says it
for the file read up to a line: map and shell agree on every variable, or on those that no
alias has exported. Sourcing is a recursive function over the lines (`AfterSteps`),
and `AgreesOnward` takes it from one line to the next: an export sets both, an alias
only the shell's, and lines still to be written set nothing. `Refinement` maps each
step: `Rename` to `Replace`, with the run's vault in `during` by `InTouch`; `Begin`,
the end of a run and `Change` to their namesakes; all others to stutters.

*SyncMerge.* `TypeOK` and `NothingMissing` are inductive together. An element of the merged
list depends only on the old and the new element at its place, so `Covers` follows
element by element (`SyncCovers`); a decoding that breaks off keeps the types (`CutList`)
and promises nothing else.

*Vault.* `TypeOK` and `VisibleAfter` need to know what an invocation has in hand at
each of its steps: `Orderly` says that the server's present list is in `since` from the
moment the request was applied, and that at a good exit the vault is dirty and one of
`since`. For `UniqueNames` the invariant is `Free`: as long as there is no excuse, the account's
names are different, a creator between its sync and its request knows of every cipher
in the account that it must not clash with, unless it is going to fail, and no name
that is about to be sent or on its way is there already. It is the reason for the
exact form of the excuses: each is a place where `Free` could not be kept.
`EditIsExact` adds `EditInv`: no list of ciphers has two of one id, and what an edit
is about to send was made of the cipher of that id in its own list (`Editing`), so it is
about two operators from there on. `MergeReads` says what those do: `MergeFields` is a
fold over the fields asked for, after each step of which a name read from the list is
the new value or what it was (`PutReads`), as long as no name is there twice.

*Picker.* The invariant says of the goroutine after ESC that while it reads, nothing was
received from it and the picker waits for it or is over (`Reading`), and of the terminal
that it is cooked at the end and, once the handler restored it under a running picker,
for good (`Restored`). What a key does is brought to three shapes, `Starts`, `Takes` and
`Receives`, which is all that `OneReader`, `TerminalRestored` and `NeverSpins` see of the
decoder and the model. `TakesWhatIsShown` needs the model: the filter is one of the table
and the selection one of the rows (`Ranked`), what is typed stays within its bound
(`Bounded`), and what the screen marks while a key is waited for is the model's selection
(`Drawn`). That the marked row is inside the window is arithmetic about `Window`
(`WindowHolds`), for every height.
`RowsMatch` and `AutoIsFirst` are about what ranking returns. `ScoredAppears`: whatever
scores has the runes of the query in order, by the places the match was found at
(`MatchSteps`). `BeforeOrders`: by score, then by name, then by place is a strict total order
(`LessStrict` and `LessTotal` compare two names at the first rune that differs), so the
matches can be sorted (`Sortable`), the list has each exactly once (`RankLists`), and
the first has the best score (`FirstIsBest`), alone if the query is `Confident`
(`ClearIsBest`). `Listed` says that what is about to be drawn is the list of the present filter.

*Secrets Manager.* `Orderly` says what an invocation has in hand at each step; in
particular, what is on its way while it waits for the reply is `Merged` of its copy, and
another's step changes nothing of it (`Others`, `Elsewhere`). `Reachable` and
`NeverAmbiguous` are then about one step, `List`, and about finite sets with
one or with several members (`Lone`, `Several`). `EditIsExact` needs that an edit only gets to its request with a
copy all of whose fields opened, and that what was sealed and is sealed again is the same text
(`MergedExact`, from `UnpadAfterPad`), and `TypeOK` that `Parse` makes texts of any
arguments (`ParseType`).

*Prompts and passwords.* `KeyringOnceRight` needs that at the step which stores, the password
typed is one the server accepted (`Stores`). `AsksOnce` is the delicate one:
`Blank` says that nobody was asked before the command came to a prompt, `Sparing`
counts each password that was typed as that of the login or as remembered, and says that
`password()` asks only when it remembers none. `Sources` has the order in which the
password is looked for, and `Unstored` that nothing gets into the keyring between a look
that found nothing there and the end of the invocation, since only the login stores and
comes first: together they are `StatusTells`. `TokenAtHome` rests on `AtHome`: only
the account's own server gives tokens, and only the choice at the prompt leads elsewhere
than config.

`OutputReads` is about what `get` prints, for items, secrets and HMACs of any length. A
quoted text is read back piece by piece: `QuotedReads` follows the shell through what
`shellQuote` made of each character, from inside a pair of quotes to inside the next.
However a base32 secret is written, it is normalized to whole groups in upper
case (`WrittenReads`): the space falls out (`WithoutOne`), and padding is added where it is
missing. The padding is removed again (`WithoutBlock`), the characters
give the bits of the bytes, five each (`FullBytes`), and what the last one has too many
does not make a byte (`SecretReads`). The digits of a code are successive
remainders, and reading them is Horner's rule (`DecimalDigits`, `SteamDigits`).

*Without induction over operators.* The provers cannot use the library's induction
theorems, which take an operator. Where a fold, a word or a number of digits has to be
followed, the proof takes the set of the numbers up to which the claim holds, and its least
counterexample (`DataLemmas!UpTo`, `AllNat`, from the well-foundedness of the
naturals). A fold's step is passed as a function from pairs, since a lemma may
take a function as a parameter (`FoldSteps`, `FoldsAgree`). For the same reason
recursion in the models is a recursive function or a fold. Moduli stand as products,
`1000 * 1000` for 10^6 and `256 * 256 * 256` for 2^24, because the provers take
large numerals apart.

Only model-checked: the liveness properties `SigintEnds` and `UnattendedEnds`, which
are out of the prover's reach.

## 5. What is not modelled

The cryptographic primitives, the bytes of requests and of `data.json`, the formatting of
`get`, `list`, `dump` and `status`, completions, the build. The format of a Secrets
Manager access token and the derivation of its key are one step that may fail. The
picker's drawing is reduced to which rows are shown and which is marked. Exit codes
of interrupted commands are left out.

Places where code and text differ, or where the code does what a reader would not
expect, that the models contain or touch without a run of their own:

- A login replaces the KDF block without a vault (`auth.go:253`), though `auth.go:87` and
  `sync.go:304` want them in lockstep; the stored vault does not unlock until a sync.
- "no interactive prompt" in a re-login (`auth.go:550-552`), and yet
  `secrets.password()` asks when neither `$PASSWORD` nor the keyring has it.
- `--timeout` is to "abort the whole command" (`cache.go:59`; the comment at
  `cache_test.go:787` repeats it), but no request takes the context.
- A flag after the first argument is not a flag: `bitw sm edit KEY --value V`, as in the usage
  text (`sm.go:773`), changes nothing and reports success; `bitw get my-item --env-name
  MY_VAR` (`README.md:32`) is a usage error.
- An alias line may export a variable that `[cache]` or `[cache-fields]` has exported
  already (`cache.go:215`): a shell then has the alias's value, libsecret the cipher's
  (`cache.go:254`).
- status is to report failures of the keyring as "would-prompt" (`status.go:116-118`), but
  says "libsecret (if stored)" whenever `secret-tool` is installed, as `status.go:186-198`
  has it; with a locked keyring the user is asked.
- `edit` drops a new password or key, and says that it has edited the item, when the cipher
  has no `login` or `sshKey` object (`edit.go:193`, `edit.go:229`).
- `sm edit` gives a secret without a note an empty encrypted one, which it then cannot
  decrypt (`sm.go:721`; the finding of `sm_edit`).
- A self-hosted server that is chosen at the prompt is not written to config
  (`auth.go:324`): the next command goes to the cloud.
- The interactive login does not look at `$PASSWORD` (`auth.go:215`), though status says
  that it would supply the password; and what it finds in the keyring it takes without
  asking, also when the master password was changed since.
- `get` after a login without a sync panics in `decryptWith` (`crypto.go:420`).
- A byte from 0xF8 on makes the picker panic (`picker.go:465`), though the comment there
  promises to ignore invalid sequences.
- A match with a score of zero or less is dropped (`fuzzy.go:101`), though a score of 0
  is said to mean no match (`fuzzy.go:16`) and gaps can lower it that far (`fuzzy.go:53`).
- Of two fields of one name `edit` changes the last (`edit.go:252`), `get` reads the first
  (`get.go:461`).

## 6. Plan

Session, SyncMerge, Cache, Vault, Picker, Secrets Manager and Unlock are here. What is
left, the most useful first:

1. The composition of Unlock's passwords with Session's clocks and overlaps, if a bound can
   be found that TLC finishes.
2. What `get` prints beyond one value (the exports of notes and fields, JSON), if a
   property is found that says more than the format.
3. Runs for the divergences of section 5, in place of findings that are repaired.

The hazards in `PROJECT.json` name, line by line, what the properties are for, and
which of them no property covers yet.
