------------------------------- MODULE Shell -------------------------------
(***************************************************************************)
(* The export lines of bitw get, and what a shell makes of them.           *)
(***************************************************************************)
EXTENDS Naturals, SequencesExt

(* Characters: a quote, a backslash, and any others.                        *)
Quote     == "'"
Backslash == "\\"

(* Faulty: quotes are left as they are.                                     *)
ShellQuoteBare(s) == <<Quote>> \o s \o <<Quote>>

(* shellQuote: a quote in the text ends the quotation, follows escaped, and *)
(* a new quotation begins.                                                  *)
ShellQuote(s) ==
  LET piece(c) == IF c = Quote THEN <<Quote, Backslash, Quote, Quote>> ELSE <<c>>
  IN  FoldLeft(LAMBDA t, c : t \o piece(c), <<Quote>>, s) \o <<Quote>>

(* A POSIX shell reading a word: inside quotes all but a quote is literal,  *)
(* outside a backslash makes the next character so.  The word is no longer  *)
(* one if anything else is outside quotes, or a quotation does not end.     *)
ShRead(s, c) ==
  CASE s.at = "quoted"  -> IF c = Quote THEN [s EXCEPT !.at = "bare"]
                           ELSE [s EXCEPT !.word = Append(@, c)]
    [] s.at = "escaped" -> [at |-> "bare", word |-> Append(s.word, c)]
    [] s.at = "bare"    -> CASE c = Quote     -> [s EXCEPT !.at = "quoted"]
                             [] c = Backslash -> [s EXCEPT !.at = "escaped"]
                             [] OTHER         -> [s EXCEPT !.at = "broken"]
    [] s.at = "broken"  -> s

ShWord(text) == FoldLeft(ShRead, [at |-> "bare", word |-> <<>>], text)
=============================================================================
