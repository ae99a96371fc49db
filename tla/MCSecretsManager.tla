-------------------------- MODULE MCSecretsManager --------------------------
(* A small organization for TLC.  Bytes 1 to 9 are letters; the scores of   *)
(* queries are those of module Fuzzy.                                       *)
EXTENDS SecretsManager

CONSTANTS P, Q, R   \* three projects, two of one name

abc == <<1, 2, 3>>
abd == <<1, 2, 4>>
ab  == <<1, 2>>
v   == <<5>>
w   == <<6>>
proj == <<7>>
key1 == <<8, 1>>
key2 == <<8, 2>>
id(i) == <<9, i>>
dash(i) == <<0, i>>

Rank == INSTANCE Fuzzy WITH
  Rune <- 0..9, Blank <- 0, Letter <- 1..9, Upper <- {}, Lower <- [r \in 0..9 |-> r],
  Code <- [r \in 0..9 |-> r], Items <- <<>>

SomeWords == {<<>>, ab, abc, abd, v, w, proj} \cup {id(i) : i \in Id}
             \cup {dash(i) : i \in 1..5}
ScoreOf(q, k) == Rank!FuzzyScore(q, k)
Ids == [i \in Id |-> id(i)]
ProjectNames == [q \in Project |-> IF q = P THEN proj ELSE w]

word(t)     == [text |-> t, flag |-> "word", given |-> <<>>]
number == [key |-> 1, value |-> 2, note |-> 3, project |-> 4, stdin |-> 5]
flag(f)     == [text |-> dash(number[f]), flag |-> f, given |-> <<>>]
with(f, t)  == [text |-> dash(number[f]), flag |-> f, given |-> <<t>>]
cmd(op, args) == [op |-> op, args |-> args, stdin |-> w]

Sec(k, val, n, projects) ==
  [key |-> Sealed(k), value |-> Sealed(val), note |-> Sealed(n), projects |-> projects]
Garbled(s) == [s EXCEPT !.key = [form |-> "garbled", text |-> <<>>]]
NoNote(s)  == [s EXCEPT !.note = [form |-> "absent", text |-> <<>>]]

Holding(some) == [i \in Id |-> IF i \in DOMAIN some THEN some[i] ELSE Gone]

Start1 == { Holding(<<Sec(abc, v, v, {P}), Sec(abc, v, v, {Q})>>),
            Holding(<<NoNote(Sec(abc, v, <<>>, {P, Q})), Sec(abd, v, w, {})>>),
            Holding(<<Garbled(Sec(abc, v, v, {})), Sec(id(1), v, v, {P})>>) }
Empty == {Holding(<<>>)}

Others == {Sec(abc, w, v, {}), Sec(abd, v, <<>>, {P})}

Jobs1 == { cmd("list", <<>>),
           cmd("get", <<flag("project"), word(proj), word(abc)>>),
           cmd("get", <<word(ab)>>),
           cmd("create", <<with("project", proj), word(abd), word(v)>>),
           cmd("create", <<flag("project"), word(w), flag("stdin"), word(ab)>>),
           cmd("create", <<flag("stdin"), word(ab)>>),
           cmd("create", <<with("project", v), word(ab)>>),
           cmd("create", <<word(ab)>>),
           cmd("get", <<with("value", w), word(abc)>>),
           cmd("edit", <<word(abc)>>),
           cmd("edit", <<word(abc), with("value", w)>>),
           cmd("edit", <<with("value", w), word(abc)>>),
           cmd("edit", <<flag("stdin"), with("key", abd), word(id(1))>>),
           cmd("edit", <<with("note", v), with("project", proj), word(ab)>>) }
Creates == { cmd("create", <<word(abc), word(v)>>), cmd("edit", <<with("value", w), word(abc)>>) }
=============================================================================
