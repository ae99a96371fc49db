------------------------------- MODULE Picker -------------------------------
(***************************************************************************)
(* bitw get: which cipher a name on the command line means, and the picker *)
(* that asks when that is unclear.  The picker draws a frame, blocks in a  *)
(* read of raw stdin, decodes bytes to a key, and applies it.  After ESC   *)
(* it reads on in a goroutine, which may outlive its 50 ms.                *)
(***************************************************************************)
EXTENDS Fuzzy, FiniteSets

CONSTANTS Queries,     \* what may be given on the command line
          Height,      \* of the terminal, in lines
          Wide,        \* the runes that are two bytes, a lead and a continuation
          MaxAhead,    \* bound on the bytes typed ahead ...
          MaxTyped     \* ... and on these and the filter together

ASSUME PickerAssumption ==
  /\ \A q \in Queries : q \in Text /\ Len(q) <= MaxTyped
  /\ Height \in Nat \ {0} /\ MaxTyped \in Nat /\ MaxAhead \in Nat
  /\ Wide \subseteq Rune /\ {"[", "A", "B"} \subseteq Rune \ Wide

(* Keys that are one byte; runes that are, among them what an arrow is made *)
(* of (ESC O is taken as ESC [ is); the lead byte of a wide rune, a         *)
(* continuation byte, a control byte without a meaning, and a byte that no  *)
(* UTF-8 text has.                                                          *)
Byte == {"enter", "backspace", "ctrlC", "ctrlN", "ctrlP", "ctrlU", "esc", "lead", "cont",
         "other", "invalid"} \cup (Rune \ Wide)

VARIABLES
  pc,
  tty, closed,   \* bytes not read yet; has the terminal hung up
  mode,          \* of the terminal: "cooked" or "raw"
  filter, rows, selected, top,  \* the pickerModel
  frame,         \* what the screen shows
  escReader,     \* the goroutine of readEscSeq
  escResult,     \* what it sent: "none" if nothing yet
  handler,       \* of SIGINT: has it restored the terminal, or did it so too early
  result         \* the cipher that get goes on with, 0 for none

model == <<filter, rows, selected, top>>
esc   == <<escReader, escResult>>
vars  == <<pc, tty, closed, mode, model, frame, esc, handler, result>>

NoFrame == [filter |-> <<>>, drawn |-> <<>>, marked |-> 0]

Init ==
  /\ pc = "start" /\ tty = <<>> /\ closed = FALSE /\ mode = "cooked"
  /\ filter = <<>> /\ rows = <<>> /\ selected = 0 /\ top = 0
  /\ frame = NoFrame /\ escReader = "none" /\ escResult = "none" /\ result = 0
  /\ handler = "none"

(* Faulty: the terminal is restored when a cipher was selected.             *)
EndUnrestored(r) ==
  /\ pc' = "end" /\ result' = r /\ mode' = (IF r = 0 THEN mode ELSE "cooked")
  /\ UNCHANGED <<closed, model, frame, handler>>

(* The picker, or get without it, returns; the deferred restore has run.    *)
End(r) ==
  /\ pc' = "end" /\ result' = r /\ mode' = "cooked"
  /\ UNCHANGED <<closed, model, frame, handler>>

-----------------------------------------------------------------------------
(* Faulty: the selection stays where it was.                                *)
Unclamped(s, n) == s

(* A table of the rows of every filter within the bound. *)
Filters == UNION {[1..n -> Rune] : n \in 0..MaxTyped}
RowsOf  == [f \in Filters |-> Rows(f)]

(* recompute keeps the selection inside the rows. *)
Clamped(s, n) == IF s >= n THEN (IF n = 0 THEN 0 ELSE n - 1) ELSE s

Recompute(f) ==
  /\ filter' = f /\ rows' = RowsOf[f] /\ selected' = Clamped(selected, Len(RowsOf[f]))

(* pickCipher, with raw mode entered; that may fail. *)
Pick(f) ==
  \/ /\ pc' = "render" /\ mode' = "raw" /\ Recompute(f)
     /\ UNCHANGED <<tty, closed, top, frame, esc, handler, result>>
  \/ End(0) /\ UNCHANGED <<tty, esc>>

First(text) == Min({i \in Index : MatchText(i) = text})
AutoSelected(q) == First(MatchText(FuzzyRank(q)[1]))

(* get without a name, on a terminal. *)
GetAny == pc = "start" /\ Pick(<<>>)

(* get with one: an exact match, a fuzzy one that is clear, or the picker,  *)
(* if there is a terminal.                                                  *)
GetExact == pc = "start" /\ \E q \in Queries :
  Exact(q) # 0 /\ End(Exact(q)) /\ UNCHANGED <<tty, esc>>

GetFuzzy == pc = "start" /\ \E q \in Queries :
  /\ Exact(q) = 0 /\ Confident(q)
  /\ End(AutoSelected(q)) /\ UNCHANGED <<tty, esc>>

GetUnclear == pc = "start" /\ \E q \in Queries :
  /\ Exact(q) = 0 /\ ~Confident(q)
  /\ \/ Pick(q)
     \/ End(0) /\ UNCHANGED <<tty, esc>>

-----------------------------------------------------------------------------
Visible == IF Height > 3 THEN Height - 3 ELSE 1

(* Faulty: the window follows the selection down but not up.                *)
WindowDown(t, s) == IF s > t + Visible - 1 THEN s - Visible + 1 ELSE t

(* The first row of the window so that the selection is in view. *)
Window(t, s) ==
  CASE s < t               -> s
    [] s > t + Visible - 1 -> s - Visible + 1
    [] OTHER               -> t

(* Of the three header lines and the rows, Height lines are drawn.          *)
Render ==
  LET t    == Window(top, selected)
      last == IF Height > 3 THEN Min({Len(rows), t + Visible}) ELSE t
  IN
  /\ pc = "render" /\ pc' = "read" /\ top' = t
  /\ frame' = [filter |-> filter, drawn |-> SubSeq(rows, t + 1, last),
               marked |-> IF selected + 1 \in (t + 1)..last THEN rows[selected + 1] ELSE 0]
  /\ UNCHANGED <<tty, closed, mode, filter, rows, selected, esc, handler, result>>

(* handleKey: the filter changes and with it the rows ... *)
Typed(f) ==
  /\ pc' = "render" /\ Recompute(f)
  /\ UNCHANGED <<closed, mode, top, frame, handler, result>>

(* ... or the selection moves, if it can. *)
Moved(s) ==
  /\ pc' = "render"
  /\ selected' = (IF s \in 0..(Len(rows) - 1) THEN s ELSE selected)
  /\ UNCHANGED <<closed, mode, filter, rows, top, frame, handler, result>>

Selected == End(IF rows = <<>> THEN 0 ELSE rows[selected + 1])

(* Faulty: Esc clears a filter before it cancels.                           *)
EscClears == IF filter = <<>> THEN End(0) ELSE Typed(<<>>)

EscPressed == End(0)

-----------------------------------------------------------------------------
(* readKeyFromStdin *)
Next1(b) == pc = "read" /\ tty # <<>> /\ Head(tty) = b /\ tty' = Tail(tty)

ReadEnter     == Next1("enter") /\ Selected /\ UNCHANGED esc
ReadCtrlC     == Next1("ctrlC") /\ End(0) /\ UNCHANGED esc
ReadBackspace ==
  /\ Next1("backspace") /\ UNCHANGED esc
  /\ \/ filter # <<>> /\ Typed(Front(filter))
     \/ /\ filter = <<>> /\ pc' = "render"
        /\ UNCHANGED <<closed, mode, model, frame, handler, result>>
ReadCtrlU == Next1("ctrlU") /\ Typed(<<>>) /\ UNCHANGED esc
ReadUp    == Next1("ctrlP") /\ Moved(selected - 1) /\ UNCHANGED esc
ReadDown  == Next1("ctrlN") /\ Moved(selected + 1) /\ UNCHANGED esc

(* A printable byte is a rune, also one that could be part of an arrow.     *)
ReadRune ==
  /\ \E r \in (Rune \ Wide) : Next1(r) /\ Typed(Append(filter, r))
  /\ UNCHANGED esc

(* Stray continuation bytes and other control bytes are skipped. *)
ReadIgnored ==
  /\ Next1("cont") \/ Next1("other")
  /\ UNCHANGED <<pc, closed, mode, model, frame, esc, handler, result>>

(* utf8LeadLen returns -1, and make panics; deferred functions run. *)
ReadInvalid == Next1("invalid") /\ End(0) /\ UNCHANGED esc

(* The lead byte of a wide rune blocks for the rest. *)
ReadLead ==
  /\ Next1("lead") /\ pc' = "lead"
  /\ UNCHANGED <<closed, mode, model, frame, esc, handler, result>>

ReadRest ==
  /\ pc = "lead" /\ tty # <<>> /\ tty' = Tail(tty) /\ UNCHANGED esc
  /\ \/ Head(tty) = "cont" /\ \E r \in Wide : Typed(Append(filter, r))
     \/ /\ Head(tty) # "cont" /\ pc' = "read"
        /\ UNCHANGED <<closed, mode, model, frame, handler, result>>

(* Faulty: a read that fails is a key without a meaning.                    *)
HangUpIgnored == pc' = "render" /\ UNCHANGED <<closed, mode, model, frame, handler, result>>

(* A read that fails cancels the picker. *)
HangUpCancels == End(0)

ReadFails ==
  /\ pc \in {"read", "lead"} /\ tty = <<>> /\ closed
  /\ HangUpCancels /\ UNCHANGED <<tty, esc>>

-----------------------------------------------------------------------------
(* After ESC a goroutine reads on, and readEscSeq waits for it or 50 ms.    *)
ReadEsc ==
  /\ Next1("esc") /\ pc' = "esc" /\ escReader' = "first" /\ escResult' = "none"
  /\ UNCHANGED <<closed, mode, model, frame, handler, result>>

EscReads ==
  /\ escReader \in {"first", "second"} /\ tty # <<>> /\ tty' = Tail(tty)
  /\ \/ /\ escReader = "first" /\ Head(tty) = "[" /\ escReader' = "second"
        /\ UNCHANGED escResult
     \/ /\ escReader = "second" \/ Head(tty) # "["
        /\ escReader' = "none"
        /\ escResult' = (IF escReader = "second" THEN Head(tty) ELSE "no")
  /\ UNCHANGED <<pc, closed, mode, model, frame, handler, result>>

EscReadFails ==
  /\ escReader # "none" /\ tty = <<>> /\ closed
  /\ escReader' = "none" /\ escResult' = "no"
  /\ UNCHANGED <<pc, tty, closed, mode, model, frame, handler, result>>

(* ESC [ A and ESC [ B are arrows, all else is Esc. *)
EscDecoded ==
  /\ pc = "esc" /\ escResult # "none" /\ escResult' = "none"
  /\ CASE escResult = "A" -> Moved(selected - 1)
       [] escResult = "B" -> Moved(selected + 1)
       [] OTHER           -> EscPressed
  /\ UNCHANGED <<tty, escReader>>

(* The goroutine stays, and its result is never received. *)
EscTimeout ==
  /\ pc = "esc" /\ EscPressed /\ UNCHANGED <<tty, esc>>

-----------------------------------------------------------------------------
(* The user types, or pastes; the terminal goes away.  (What is typed       *)
(* before the picker is there is the prompts'.)                             *)
Press ==
  /\ pc \notin {"start", "end", "killed"} /\ ~closed
  /\ Len(tty) < MaxAhead /\ Len(filter) + Len(tty) < MaxTyped
  /\ \E b \in Byte : tty' = Append(tty, b)
  /\ UNCHANGED <<pc, closed, mode, model, frame, esc, handler, result>>

HangUp ==
  /\ ~closed /\ closed' = TRUE
  /\ UNCHANGED <<pc, tty, mode, model, frame, esc, handler, result>>

(* SIGINT, in raw mode never from the keyboard: the handler puts back what  *)
(* the terminal was when bitw started, while the picker goes on, or starts; *)
(* then it exits.                                                           *)
Interrupt ==
  /\ pc \notin {"end", "killed"} /\ handler = "none"
  /\ handler' = (IF pc = "start" THEN "early" ELSE "restored") /\ mode' = "cooked"
  /\ UNCHANGED <<pc, tty, closed, model, frame, esc, result>>

HandlerExit ==
  /\ handler # "none" /\ pc \notin {"end", "killed"} /\ pc' = "killed" /\ escReader' = "none"
  /\ UNCHANGED <<tty, closed, mode, model, frame, escResult, handler, result>>

Reader == ReadEnter \/ ReadCtrlC \/ ReadBackspace \/ ReadCtrlU \/ ReadUp \/ ReadDown
          \/ ReadRune \/ ReadIgnored \/ ReadInvalid \/ ReadLead \/ ReadRest \/ ReadFails
          \/ ReadEsc
Escape == EscDecoded \/ EscTimeout
Steps  == Render \/ Reader \/ Escape

Next ==
  \/ GetAny \/ GetExact \/ GetFuzzy \/ GetUnclear \/ Steps
  \/ EscReads \/ EscReadFails
  \/ Press \/ HangUp \/ Interrupt \/ HandlerExit

Spec == Init /\ [][Next]_vars

-----------------------------------------------------------------------------
TypeOK ==
  /\ pc \in {"start", "render", "read", "lead", "esc", "end", "killed"}
  /\ tty \in Seq(Byte) /\ closed \in BOOLEAN /\ mode \in {"cooked", "raw"}
  /\ filter \in Text /\ rows \in Seq(Index)
  /\ selected \in Nat /\ (rows # <<>> => selected < Len(rows))
  /\ top \in Nat
  /\ frame \in [filter : Text, drawn : Seq(Index), marked : Index \cup {0}]
  /\ escReader \in {"none", "first", "second"}
  /\ escResult \in Byte \cup {"none", "no"}
  /\ handler \in {"none", "early", "restored"} /\ result \in Index \cup {0}

(* The picker never returns a cipher that the user does not see marked, in  *)
(* the list for the filter on the screen, however fast keys come and        *)
(* however the list shrinks and grows under the selection.  (A terminal of  *)
(* three lines has no room for rows.)                                       *)
TakesWhatIsShown ==
  [][ (Height > 3 /\ pc = "read" /\ result' # result) =>
        result' = frame.marked /\ frame.filter = filter ]_vars

(* readEscSeq leaves its goroutine behind only when "there is no subsequent *)
(* reader to race with" (picker.go:506): two never wait for the same bytes. *)
OneReader == escReader # "none" => pc \notin {"read", "lead"}

(* On every way out the terminal is as it was, by the picker's restore or   *)
(* the handler's; unless the picker starts after the handler's.             *)
TerminalRestored ==
  pc = "end" \/ (pc = "killed" /\ handler = "restored") => mode = "cooked"

(* What get takes without asking is what the picker would have put first,   *)
(* and put first by its score: the two sort by different texts.             *)
AutoIsFirst ==
  \A q \in Queries : (pc = "start" /\ Exact(q) = 0 /\ Confident(q)) =>
    LET first == AutoSelected(q) IN
    /\ Rows(q)[1] = first
    /\ \A i \in Index \ {first} :
         FuzzyScore(q, MatchText(i)) < FuzzyScore(q, MatchText(first))

(* A row holds the filter's runes in their order.                           *)
RowsMatch == pc = "render" => \A k \in 1..Len(rows) : Appears(filter, MatchText(rows[k]))

(* "EOF or read error: treat as cancel so we never spin" (picker.go:188):   *)
(* once the terminal is gone, every step brings the picker nearer its end,  *)
(* counted in bytes not read and steps that follow without reading one.     *)
StepsLeft ==
  4 * Len(tty) + (IF escReader = "none" THEN 0 ELSE 1)
  + (CASE pc \in {"start", "esc"} -> 3 [] pc = "render" -> 2
       [] pc \in {"read", "lead"} -> 1 [] OTHER -> 0)

NeverSpins == [][closed => StepsLeft' < StepsLeft \/ handler' # handler]_vars

=============================================================================
