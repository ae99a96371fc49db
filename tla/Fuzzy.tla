------------------------------- MODULE Fuzzy -------------------------------
(***************************************************************************)
(* The ranking of cipher names against what the user typed, for the picker *)
(* and for `bitw get` with a name that no cipher has.                      *)
(***************************************************************************)
EXTENDS Integers, SequencesExt

CONSTANTS Rune, Blank,
          Letter, Upper,   \* the letters, and the upper-case ones
          Lower,           \* the lower-case rune of each rune
          Code,            \* the order of runes in sorted names
          Items,           \* the ciphers whose name decrypts, in vault order
          Floor            \* fuzzyFallbackFloor

Text == Seq(Rune)

ASSUME FuzzyAssumption ==
  /\ Blank \in Rune /\ Upper \subseteq Letter /\ Letter \subseteq Rune
  /\ Lower \in [Rune -> Rune] /\ Code \in [Rune -> Nat] /\ IsInjective(Code)
  /\ Items \in Seq([name : Text, user : Text]) /\ Floor \in Nat

Index == 1..Len(Items)

(* The username of a login is searched too. *)
MatchText(i) ==
  Items[i].name \o (IF Items[i].user = <<>> THEN <<>> ELSE <<Blank>> \o Items[i].user)

Folded(text) == [i \in 1..Len(text) |-> Lower[text[i]]]

IsWordBoundary(text, i) ==
  \/ i = 1
  \/ text[i - 1] \notin Letter /\ text[i] \in Letter
  \/ text[i - 1] \in Letter \ Upper /\ text[i] \in Upper

-----------------------------------------------------------------------------
NoMatch == [ok |-> FALSE, score |-> 0, last |-> 0]

(* What the match of one more rune, at place i, adds to the score. *)
Gain(text, last, i) ==
  CASE last > 0 /\ i = last + 1 -> 8
    [] last > 0 /\ i > last + 1 -> last - i
    [] last = 0 /\ i = 1        -> 8
    [] OTHER                    -> (IF IsWordBoundary(text, i) THEN 5 ELSE 0) - 2

(* Faulty: the search for a rune starts where the one before was found.     *)
PlacesAgain(text, last, r) ==
  {i \in 1..Len(text) : i >= last /\ Lower[text[i]] = r}

Places(text, last, r) == {i \in 1..Len(text) : i > last /\ Lower[text[i]] = r}

(* fuzzyScore takes the first place that is left for each rune. *)
Matched(text, m, r) ==
  LET places == Places(text, m.last, r) IN
  IF ~m.ok \/ places = {} THEN NoMatch
  ELSE [ok |-> TRUE, score |-> m.score + Gain(text, m.last, Min(places)),
        last |-> Min(places)]

FuzzyMatch(query, text) ==
  FoldLeft(LAMBDA m, r : Matched(text, m, r),
           [ok |-> query # <<>>, score |-> 0, last |-> 0], Folded(query))

FuzzyScore(query, text) == FuzzyMatch(query, text).score

(* Does the query appear as a subsequence of the text. *)
Appears(query, text) ==
  \E places \in [1..Len(query) -> 1..Len(text)] :
    /\ \A k \in 2..Len(query) : places[k - 1] < places[k]
    /\ \A k \in 1..Len(query) : Lower[text[places[k]]] = Lower[query[k]]

-----------------------------------------------------------------------------
Less(s, t) ==
  \E k \in 0..Len(s) :
    /\ k < Len(t) /\ \A j \in 1..k : s[j] = t[j]
    /\ k = Len(s) \/ Code[s[k + 1]] < Code[t[k + 1]]

(* The best score first, then by key[i], then, as the sort is stable, in    *)
(* vault order.                                                             *)
Before(query, key, i, j) ==
  LET a == FuzzyScore(query, MatchText(i))
      b == FuzzyScore(query, MatchText(j))
  IN  \/ a > b
      \/ a = b /\ Less(key[i], key[j])
      \/ a = b /\ key[i] = key[j] /\ i < j

Found(query) == {i \in Index : FuzzyScore(query, MatchText(i)) > 0}

Sorted(query, key) ==
  CHOOSE s \in SetToSeqs(Found(query)) :
    \A k, l \in DOMAIN s : k < l => Before(query, key, s[k], s[l])

(* recompute: without a filter, all items in vault order. *)
Rows(filter) ==
  IF filter = <<>> THEN [i \in Index |-> i]
  ELSE Sorted(filter, [i \in Index |-> Items[i].name])

FuzzyRank(query) == Sorted(query, [i \in Index |-> MatchText(i)])

(* findCipherByName: the first cipher of exactly that name, or 0. *)
Exact(query) ==
  LET same == {i \in Index : Items[i].name = query} IN IF same = {} THEN 0 ELSE Min(same)

(* Faulty: equal scores are no reason to ask.                               *)
ConfidentInTies(query) ==
  /\ FuzzyRank(query) # <<>>
  /\ FuzzyScore(query, MatchText(FuzzyRank(query)[1])) >= Floor

(* autoSelectCandidate: the best is good enough, and not tied. *)
Confident(query) ==
  LET score(k) == FuzzyScore(query, MatchText(FuzzyRank(query)[k])) IN
  /\ FuzzyRank(query) # <<>> /\ score(1) >= Floor
  /\ Len(FuzzyRank(query)) > 1 => score(2) # score(1)

=============================================================================
