---------------------------- MODULE CommandLine ----------------------------
(***************************************************************************)
(* What the flag package of Go makes of the arguments of bitw sm: flags    *)
(* count only before the first argument that is none.                      *)
(***************************************************************************)
EXTENDS Naturals, SequencesExt

CONSTANTS Words   \* the texts that occur: arguments, keys, values, names

ASSUME WordsAssumption == <<>> \in Words /\ \A w \in Words : w \in Seq(Nat)

Valued == {"key", "value", "note", "project"}
Flags(op) ==
  CASE op = "get"    -> {"project"}
    [] op = "create" -> {"project", "stdin"}
    [] op = "edit"   -> Valued \cup {"stdin"}
    [] OTHER         -> {}

(* An argument: its whole text, and the flag that it spells, "word" for     *)
(* none, "end" for a mere "--"; of --flag=value the value, as <<value>>.    *)
Token == [text : Words, flag : Valued \cup {"stdin", "word", "end"}, given : Seq(Words)]

(* The parser: what it expects of the next argument, the flag that waits    *)
(* for its value, and what it has read.                                     *)
Fresh == [expects |-> "flag", for |-> "word", stdin |-> FALSE, rest |-> <<>>,
          opt |-> [f \in Valued |-> <<>>]]

Take(s, f, text) == [s EXCEPT !.opt[f] = text, !.expects = "flag"]

(* One argument; after a word the parser expects nothing but words.         *)
Read(op, s, a) ==
  CASE s.expects = "error" -> s
    [] s.expects = "word"  -> [s EXCEPT !.rest = Append(@, a.text)]
    [] s.expects = "value" -> Take(s, s.for, a.text)
    [] s.expects = "flag" /\ a.flag = "word" ->
         [s EXCEPT !.rest = Append(@, a.text), !.expects = "word"]
    [] s.expects = "flag" /\ a.flag = "end" -> [s EXCEPT !.expects = "word"]
    [] s.expects = "flag" /\ a.flag \in Flags(op) ->
         CASE a.flag = "stdin" -> [s EXCEPT !.stdin = TRUE]
           [] a.flag # "stdin" /\ a.given # <<>> -> Take(s, a.flag, a.given[1])
           [] OTHER -> [s EXCEPT !.expects = "value", !.for = a.flag]
    [] OTHER -> [s EXCEPT !.expects = "error"]

(* flag.FlagSet.Parse.                                                      *)
Parse(op, args) == FoldLeft(LAMBDA s, a : Read(op, s, a), Fresh, args)

Parsed(c) == c.expects \in {"flag", "word"}

(* cmdSM looks for one of edit's flags anywhere, also where it is a word.   *)
HasModifier(args) ==
  \E i \in 1..Len(args) : args[i].flag \in {"key", "value", "note", "stdin"}

=============================================================================
