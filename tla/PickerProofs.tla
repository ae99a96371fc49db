---------------------------- MODULE PickerProofs ----------------------------
(* Proofs about the picker's reading, ending and restoring, for every vault, *)
(* every input and every bound.                                             *)
EXTENDS Picker, DataLemmas, SequenceTheorems, TLAPS

(* While the goroutine of readEscSeq reads, nothing was received from it,   *)
(* and the picker waits for it or is over.                                  *)
Reading ==
  /\ pc \in {"start", "render", "read", "lead", "esc", "end", "killed"}
  /\ tty \in Seq(Byte)
  /\ escReader \in {"none", "first", "second"}
  /\ escReader # "none" => escResult = "none" /\ pc \in {"esc", "end"}

(* A picker that is over has restored the terminal; once the handler did it *)
(* under a running picker, nobody makes it raw again.                       *)
Restored ==
  /\ handler \in {"none", "early", "restored"}
  /\ pc = "end" => mode = "cooked"
  /\ handler = "restored" => mode = "cooked" /\ pc # "start"

IInv == Reading /\ Restored

-----------------------------------------------------------------------------
LEMMA TailOfTty ==
  ASSUME tty \in Seq(Byte), tty # <<>>
  PROVE  Tail(tty) \in Seq(Byte) /\ Len(tty) \in Nat /\ Len(Tail(tty)) = Len(tty) - 1
         /\ Len(tty) > 0
  BY HeadTailProperties, EmptySeq, LenProperties

LEMMA InitInv == Init => IInv
  BY DEF Init, IInv, Reading, Restored

(* The ways the picker goes on, or ends, after a key. *)
Turn ==
  /\ UNCHANGED handler
  /\ \/ pc' = "end" /\ mode' = "cooked"
     \/ pc' \in {"render", "read", "lead"} /\ UNCHANGED mode

(* Every read takes one byte; only ESC starts the goroutine. *)
Takes ==
  /\ pc \in {"read", "lead"} /\ tty # <<>> /\ tty' = Tail(tty)
  /\ UNCHANGED closed
  /\ \/ Turn /\ UNCHANGED esc
     \/ /\ pc' = "esc" /\ escReader' = "first" /\ escResult' = "none"
        /\ UNCHANGED <<mode, handler>>

LEMMA ReaderTakes ==
  ASSUME Reader, ~ReadFails
  PROVE  Takes
<1> USE DEF Takes, Turn, Next1, End, Typed, Moved, esc, model
<1>1. ReadEnter => Takes
  BY DEF ReadEnter, Selected
<1>2. ReadCtrlC => Takes
  BY DEF ReadCtrlC
<1>3. ReadBackspace => Takes
  BY DEF ReadBackspace
<1>4. ReadCtrlU => Takes
  BY DEF ReadCtrlU
<1>5. ReadUp \/ ReadDown => Takes
  BY DEF ReadUp, ReadDown
<1>6. ReadRune => Takes
  BY DEF ReadRune
<1>7. ReadIgnored => Takes
  BY DEF ReadIgnored
<1>8. ReadInvalid => Takes
  BY DEF ReadInvalid
<1>9. ReadLead => Takes
  BY DEF ReadLead
<1>10. ReadRest => Takes
  BY DEF ReadRest
<1>11. ReadEsc => Takes
  BY DEF ReadEsc
<1> QED
  BY <1>1, <1>2, <1>3, <1>4, <1>5, <1>6, <1>7, <1>8, <1>9, <1>10, <1>11 DEF Reader

(* Every get ends, or starts the picker. *)
Starts ==
  /\ pc = "start" /\ UNCHANGED <<tty, closed, esc, handler>>
  /\ \/ pc' = "end" /\ mode' = "cooked"
     \/ pc' = "render" /\ mode' = "raw"

LEMMA GetStarts ==
  ASSUME GetAny \/ GetExact \/ GetFuzzy \/ GetUnclear
  PROVE  Starts
  BY DEF GetAny, GetExact, GetFuzzy, GetUnclear, Pick, End, Starts, esc

(* The picker ends without a byte read, or goes on after an arrow. *)
Receives ==
  /\ pc = "esc" /\ UNCHANGED <<tty, closed, escReader>>
  /\ escResult' = escResult \/ (escResult # "none" /\ escResult' = "none")
  /\ \/ pc' = "end" /\ mode' = "cooked" /\ UNCHANGED handler
     \/ pc' = "render" /\ escResult # "none" /\ UNCHANGED <<mode, handler>>

LEMMA EscapeReceives ==
  ASSUME Escape
  PROVE  Receives
<1>1. EscDecoded => Receives
  BY DEF EscDecoded, EscPressed, Moved, End, Receives
<1>2. EscTimeout => Receives
  BY DEF EscTimeout, EscPressed, End, Receives, esc
<1> QED BY <1>1, <1>2 DEF Escape

LEMMA StepInv == IInv /\ [Next]_vars => IInv'
<1> SUFFICES ASSUME IInv, [Next]_vars PROVE IInv'
  OBVIOUS
<1> USE DEF IInv, Reading, Restored
<1>1. CASE GetAny \/ GetExact \/ GetFuzzy \/ GetUnclear
  BY <1>1, GetStarts DEF Starts, esc
<1>2. CASE Render
  BY <1>2 DEF Render, esc
<1>3. CASE Reader /\ ~ReadFails
  <2>1. Takes /\ Tail(tty) \in Seq(Byte)
    BY <1>3, ReaderTakes, TailOfTty DEF Takes
  <2> QED BY <2>1 DEF Takes, Turn, esc
<1>4. CASE ReadFails
  BY <1>4 DEF ReadFails, HangUpCancels, End, esc
<1>5. CASE Escape
  BY <1>5, EscapeReceives DEF Receives
<1>6. CASE EscReads
  <2>1. Tail(tty) \in Seq(Byte)
    BY <1>6, TailOfTty DEF EscReads
  <2> QED BY <1>6, <2>1 DEF EscReads
<1>7. CASE EscReadFails
  BY <1>7 DEF EscReadFails
<1>8. CASE Press
  <2>1. tty' \in Seq(Byte)
    BY <1>8, AppendProperties DEF Press
  <2> QED BY <1>8, <2>1 DEF Press, esc
<1>9. CASE HangUp
  BY <1>9 DEF HangUp, esc
<1>10. CASE Interrupt
  BY <1>10 DEF Interrupt, esc
<1>11. CASE HandlerExit
  BY <1>11 DEF HandlerExit
<1>12. CASE UNCHANGED vars
  BY <1>12 DEF vars, esc
<1> QED
  BY <1>1, <1>2, <1>3, <1>4, <1>5, <1>6, <1>7, <1>8, <1>9, <1>10, <1>11, <1>12
  DEF Next, Steps

LEMMA Invariant == Spec => []IInv
  BY InitInv, StepInv, PTL DEF Spec

-----------------------------------------------------------------------------
(* Two readers never wait for the same bytes: the goroutine that readEscSeq *)
(* leaves behind outlives the picker only.                                  *)
THEOREM NoSecondReader == Spec => []OneReader
<1>1. IInv => OneReader
  BY DEF IInv, Reading, OneReader
<1> QED BY <1>1, Invariant, PTL

(* Every end of the picker, and the handler of SIGINT, restore the terminal. *)
THEOREM Restores == Spec => []TerminalRestored
<1>1. IInv => TerminalRestored
  BY DEF IInv, Restored, TerminalRestored
<1> QED BY <1>1, Invariant, PTL

(* Once the terminal is gone, every step brings the picker nearer its end.  *)
THEOREM Ends == Spec => NeverSpins
<1>1. ASSUME IInv, [Next]_vars, ~UNCHANGED vars, closed
      PROVE  StepsLeft' < StepsLeft \/ handler' # handler
  <2> USE <1>1 DEF IInv, Reading
  <2>0. Len(tty) \in Nat
    BY LenProperties
  <2>1. CASE GetAny \/ GetExact \/ GetFuzzy \/ GetUnclear
    <3>1. /\ pc = "start" /\ pc' \in {"end", "render"}
          /\ tty' = tty /\ escReader' = escReader
      BY <2>1, GetStarts DEF Starts, esc
    <3> QED BY <2>0, <3>1 DEF StepsLeft
  <2>2. CASE Render
    BY <2>0, <2>2 DEF Render, StepsLeft, esc
  <2>3. CASE Reader /\ ~ReadFails
    <3>1. Takes /\ Len(Tail(tty)) = Len(tty) - 1
      BY <2>3, ReaderTakes, TailOfTty DEF Takes
    <3> QED BY <2>0, <3>1 DEF Takes, Turn, StepsLeft, esc
  <2>4. CASE ReadFails
    BY <2>0, <2>4 DEF ReadFails, HangUpCancels, End, StepsLeft, esc
  <2>5. CASE Escape
    BY <2>0, <2>5, EscapeReceives DEF Receives, StepsLeft
  <2>6. CASE EscReads
    <3>1. Len(Tail(tty)) = Len(tty) - 1
      BY <2>6, TailOfTty DEF EscReads
    <3> QED BY <2>0, <2>6, <3>1 DEF EscReads, StepsLeft
  <2>7. CASE EscReadFails
    BY <2>0, <2>7 DEF EscReadFails, StepsLeft
  <2>8. CASE Press \/ HangUp
    BY <2>8 DEF Press, HangUp
  <2>9. CASE Interrupt
    BY <2>9 DEF Interrupt
  <2>10. CASE HandlerExit
    BY <2>0, <2>10 DEF HandlerExit, StepsLeft
  <2> QED
    BY <2>1, <2>2, <2>3, <2>4, <2>5, <2>6, <2>7, <2>8, <2>9, <2>10 DEF Next, Steps
<1>2. IInv /\ [Next]_vars => [closed => StepsLeft' < StepsLeft \/ handler' # handler]_vars
  BY <1>1
<1> QED BY <1>2, Invariant, PTL DEF Spec, NeverSpins

-----------------------------------------------------------------------------
(* The score of a match is a number, and a match goes from left to right.   *)
Match == [ok : BOOLEAN, score : Int, last : Nat]

LEMMA FirstPlace ==
  ASSUME NEW text, NEW last, NEW r, Places(text, last, r) # {}
  PROVE  Min(Places(text, last, r)) \in Places(text, last, r)
         /\ Min(Places(text, last, r)) \in Nat
<1> DEFINE places == Places(text, last, r)
<1>1. places \in SUBSET Nat
  BY DEF Places
<1> HIDE DEF places
<1>2. Min(places) \in places
  BY <1>1, LeastIsOne DEF places
<1> QED BY <1>1, <1>2 DEF places

LEMMA MatchedType ==
  ASSUME NEW text, NEW m \in Match, NEW r
  PROVE  Matched(text, m, r) \in Match
<1> DEFINE places == Places(text, m.last, r)
<1>1. NoMatch \in Match
  BY DEF NoMatch, Match
<1>2. CASE m.ok /\ places # {}
  <2> DEFINE i == Min(places)
  <2>1. i \in Nat /\ m.last \in Nat /\ m.score \in Int
    BY <1>2, FirstPlace DEF Match
  <2> HIDE DEF i
  <2>2. Gain(text, m.last, i) \in Int
    BY <2>1 DEF Gain
  <2>3. Matched(text, m, r) = [ok |-> TRUE, score |-> m.score + Gain(text, m.last, i), last |-> i]
    BY <1>2 DEF Matched, i
  <2> QED BY <2>1, <2>2, <2>3 DEF Match
<1> QED BY <1>1, <1>2 DEF Matched

(* The matches that fuzzyScore passes through, one for each rune.           *)
Passes(query, text, r) ==
  /\ r[0] = [ok |-> query # <<>>, score |-> 0, last |-> 0]
  /\ r[Len(query)] = FuzzyMatch(query, text)
  /\ \A k \in 1..Len(query) : r[k] = Matched(text, r[k - 1], Lower[query[k]])

LEMMA MatchSteps ==
  ASSUME NEW query \in Text, NEW text
  PROVE  \E r \in [0..Len(query) -> Match] : Passes(query, text, r)
<1> DEFINE n == Len(query)
           s == Folded(query)
           base == [ok |-> query # <<>>, score |-> 0, last |-> 0]
           step == [x \in Match \X Rune |-> Matched(text, x[1], x[2])]
           t == CHOOSE t : t = [S \in SUBSET (1..n) |->
                  IF S = {} THEN base ELSE Matched(text, t[S \ {Max(S)}], s[Max(S)])]
<1>1. n \in Nat /\ s \in [1..n -> Rune] /\ DOMAIN s = 1..n /\ base \in Match
  <2>1. n \in Nat /\ \A k \in 1..n : query[k] \in Rune
    BY LenProperties, ElementOfSeq DEF Text
  <2>2. \A k \in 1..n : Lower[query[k]] \in Rune
    BY <2>1, FuzzyAssumption
  <2> QED BY <2>1, <2>2 DEF Folded, Match
<1>2. \A k \in 1..n : s[k] = Lower[query[k]]
  BY DEF Folded
<1>3. step \in [Match \X Rune -> Match]
  BY MatchedType
<1>4. \A m \in Match, c \in Rune : step[<<m, c>>] = Matched(text, m, c)
  OBVIOUS
<1>5. FuzzyMatch(query, text) = t[1..n]
  BY <1>1, Zenon DEF FuzzyMatch, FoldLeft, MapThenFoldSet
<1> HIDE DEF step, s, n, base
<1>6. PICK u \in [SUBSET (1..n) -> Match], r \in [0..n -> Match] :
         Table(base, step, n, s, u) /\ Chain(base, step, n, s, u, r)
  BY <1>1, <1>3, FoldSteps
<1>7. u = [S \in SUBSET (1..n) |->
             IF S = {} THEN base ELSE Matched(text, u[S \ {Max(S)}], s[Max(S)])]
  <2>1. ASSUME NEW S \in SUBSET (1..n), S # {}
        PROVE  step[<<u[S \ {Max(S)}], s[Max(S)]>>] = Matched(text, u[S \ {Max(S)}], s[Max(S)])
    <3>1. Max(S) \in 1..n /\ S \ {Max(S)} \in SUBSET (1..n)
      BY <1>1, <2>1, GreatestIsOne
    <3> QED BY <1>1, <1>4, <3>1
  <2> QED BY <1>6, <2>1, Zenon DEF Table
<1>8. t = [S \in SUBSET (1..n) |->
             IF S = {} THEN base ELSE Matched(text, t[S \ {Max(S)}], s[Max(S)])]
  BY <1>7, Zenon
<1> HIDE DEF t
<1>9. {} \in SUBSET (1..n)
  OBVIOUS
<1>10. t[{}] = u[{}]
  BY <1>7, <1>8, <1>9, Zenon
<1>11. \A S \in SUBSET (1..n) : S # {} /\ t[S \ {Max(S)}] = u[S \ {Max(S)}] => t[S] = u[S]
  BY <1>7, <1>8, Zenon
<1>12. t[1..n] = u[1..n]
  BY <1>1, <1>10, <1>11, FoldsAgree
<1>13. \A k \in 1..n : r[k] = Matched(text, r[k - 1], Lower[query[k]])
  <2> SUFFICES ASSUME NEW k \in 1..n PROVE r[k] = Matched(text, r[k - 1], Lower[query[k]])
    OBVIOUS
  <2>1. r[k - 1] \in Match /\ s[k] \in Rune
    BY <1>1, <1>6
  <2> QED BY <1>2, <1>4, <1>6, <2>1 DEF Chain
<1> QED BY <1>5, <1>6, <1>12, <1>13 DEF n, base, Chain, Passes

LEMMA ScoreType ==
  ASSUME NEW query \in Text, NEW text
  PROVE  /\ FuzzyScore(query, text) \in Int
         /\ query = <<>> => FuzzyScore(query, text) = 0
<1>1. PICK r \in [0..Len(query) -> Match] : Passes(query, text, r)
  BY MatchSteps
<1>2. Len(query) \in Nat /\ (query = <<>> => Len(query) = 0)
  BY LenProperties DEF Text
<1>3. r[Len(query)] \in Match
  BY <1>1, <1>2
<1> QED BY <1>1, <1>2, <1>3 DEF Passes, FuzzyScore, Match

(* A positive score shows that the query's runes appear in their order.     *)
LEMMA ScoredAppears ==
  ASSUME NEW query \in Text, NEW text, FuzzyScore(query, text) > 0
  PROVE  Appears(query, text)
<1> DEFINE n == Len(query)
<1>0. n \in Nat
  BY LenProperties DEF Text
<1>1. PICK r \in [0..n -> Match] : Passes(query, text, r)
  BY MatchSteps
<1>1a. /\ r[0] = [ok |-> query # <<>>, score |-> 0, last |-> 0]
      /\ r[n] = FuzzyMatch(query, text)
      /\ \A k \in 1..n : r[k] = Matched(text, r[k - 1], Lower[query[k]])
  BY <1>1 DEF Passes
<1> HIDE DEF n
<1>2. ASSUME NEW k \in 1..n, r[k].score # 0 \/ r[k].ok
      PROVE  /\ r[k - 1].ok /\ r[k].ok /\ r[k].last \in 1..Len(text)
             /\ r[k].last > r[k - 1].last /\ Lower[text[r[k].last]] = Lower[query[k]]
  <2> DEFINE m == r[k - 1]
             places == Places(text, m.last, Lower[query[k]])
  <2>1. r[k] = Matched(text, m, Lower[query[k]]) /\ r[k] # NoMatch
    BY <1>1a, <1>2 DEF NoMatch
  <2>2. m.ok /\ places # {} /\ r[k].ok /\ r[k].last = Min(places)
    BY <2>1 DEF Matched
  <2>3. Min(places) \in places
    BY <2>2, FirstPlace
  <2> QED BY <2>2, <2>3 DEF Places
<1> DEFINE T == {k \in 0..n : r[k].ok => \A j \in 1..k : r[j].ok}
<1>3. 0 \in T
  BY <1>0
<1>4. ASSUME NEW k \in 1..n, k - 1 \in T  PROVE k \in T
  <2>1. r[k].ok => r[k - 1].ok
    BY <1>2
  <2>2. \A j \in 1..k : j = k \/ j \in 1..(k - 1)
    BY <1>0
  <2> QED BY <1>0, <1>4, <2>1, <2>2
<1> HIDE DEF T
<1>5. n \in T
  BY <1>0, <1>3, <1>4, UpTo
<1>6. r[n].ok
  <2>1. CASE n = 0
    BY <1>1a, <2>1 DEF FuzzyScore
  <2>2. CASE n # 0
    BY <1>0, <1>1a, <1>2, <2>2 DEF FuzzyScore
  <2> QED BY <2>1, <2>2
<1>7. \A k \in 1..n : r[k].ok
  BY <1>5, <1>6 DEF T
<1> DEFINE places == [k \in 1..n |-> r[k].last]
<1>8. places \in [1..n -> 1..Len(text)]
  BY <1>2, <1>7
<1>9. ASSUME NEW k \in 2..n  PROVE places[k - 1] < places[k]
  <2>1. k \in 1..n /\ k - 1 \in 1..n
    BY <1>0
  <2>2. r[k].last > r[k - 1].last /\ r[k].last \in Int /\ r[k - 1].last \in Int
    BY <1>2, <1>7, <2>1
  <2> QED BY <2>1, <2>2
<1>10. \A k \in 1..n : Lower[text[places[k]]] = Lower[query[k]]
  BY <1>2, <1>7
<1> HIDE DEF places
<1> QED BY <1>8, <1>9, <1>10 DEF Appears, n

-----------------------------------------------------------------------------
(* Names are in a strict total order, and so are the ciphers that match.    *)
LEMMA LessStrict ==
  ASSUME NEW s \in Text, NEW t \in Text, NEW u \in Text
  PROVE  /\ ~Less(s, s)
         /\ Less(s, t) /\ Less(t, u) => Less(s, u)
<1>0. /\ Len(s) \in Nat /\ Len(t) \in Nat /\ Len(u) \in Nat
      /\ \A k \in 1..Len(s) : Code[s[k]] \in Nat
      /\ \A k \in 1..Len(t) : Code[t[k]] \in Nat
      /\ \A k \in 1..Len(u) : Code[u[k]] \in Nat
  <2>1. /\ \A k \in 1..Len(s) : s[k] \in Rune
        /\ \A k \in 1..Len(t) : t[k] \in Rune
        /\ \A k \in 1..Len(u) : u[k] \in Rune
    BY ElementOfSeq DEF Text
  <2>2. Len(s) \in Nat /\ Len(t) \in Nat /\ Len(u) \in Nat
    BY LenProperties DEF Text
  <2>3. \A c \in Rune : Code[c] \in Nat
    BY FuzzyAssumption
  <2> QED BY <2>1, <2>2, <2>3
<1>1. ~Less(s, s)
  BY <1>0 DEF Less
<1>2. ASSUME NEW k \in 0..Len(s), NEW l \in 0..Len(t),
             k < Len(t), \A j \in 1..k : s[j] = t[j],
             k = Len(s) \/ Code[s[k + 1]] < Code[t[k + 1]],
             l < Len(u), \A j \in 1..l : t[j] = u[j],
             l = Len(t) \/ Code[t[l + 1]] < Code[u[l + 1]]
      PROVE  Less(s, u)
  <2>1. CASE k <= l
    <3>1. k < Len(u) /\ \A j \in 1..k : s[j] = u[j]
      BY <1>0, <1>2, <2>1
    <3>2. k = Len(s) \/ Code[s[k + 1]] < Code[u[k + 1]]
      <4>1. CASE k = Len(s)
        BY <4>1
      <4>2. CASE k # Len(s) /\ k = l
        <5>1. k + 1 \in 1..Len(s) /\ k + 1 \in 1..Len(t) /\ k + 1 \in 1..Len(u)
          BY <1>0, <1>2, <4>2
        <5>2. Code[s[k + 1]] \in Nat /\ Code[t[k + 1]] \in Nat /\ Code[u[k + 1]] \in Nat
          BY <1>0, <5>1
        <5>3. Code[s[k + 1]] < Code[t[k + 1]] /\ Code[t[k + 1]] < Code[u[k + 1]]
          BY <1>0, <1>2, <4>2
        <5> QED BY <5>2, <5>3
      <4>3. CASE k # Len(s) /\ k # l
        <5>1. k + 1 \in 1..l
          BY <1>0, <2>1, <4>3
        <5> QED BY <1>2, <4>3, <5>1
      <4> QED BY <4>1, <4>2, <4>3
    <3> QED BY <3>1, <3>2 DEF Less
  <2>2. CASE l < k
    <3>1. l \in 0..Len(s) /\ l + 1 \in 1..k /\ l # Len(t) /\ \A j \in 1..l : j \in 1..k
      BY <1>0, <1>2, <2>2
    <3>2. \A j \in 1..l : s[j] = u[j]
      BY <1>2, <3>1
    <3>3. Code[s[l + 1]] < Code[u[l + 1]]
      BY <1>2, <3>1
    <3> QED BY <1>2, <3>1, <3>2, <3>3 DEF Less
  <2> QED BY <2>1, <2>2
<1>3. ASSUME Less(s, t), Less(t, u)  PROVE Less(s, u)
  <2>1. PICK k \in 0..Len(s) :
          k < Len(t) /\ (\A j \in 1..k : s[j] = t[j])
          /\ (k = Len(s) \/ Code[s[k + 1]] < Code[t[k + 1]])
    BY <1>3 DEF Less
  <2>2. PICK l \in 0..Len(t) :
          l < Len(u) /\ (\A j \in 1..l : t[j] = u[j])
          /\ (l = Len(t) \/ Code[t[l + 1]] < Code[u[l + 1]])
    BY <1>3 DEF Less
  <2> QED BY <1>2, <2>1, <2>2
<1> QED BY <1>1, <1>3

(* Of two names, the one that is less shows at the first place where they   *)
(* differ or one of them ends.                                              *)
LEMMA LessTotal ==
  ASSUME NEW s \in Text, NEW t \in Text, s # t
  PROVE  Less(s, t) \/ Less(t, s)
<1>0. /\ Len(s) \in Nat /\ Len(t) \in Nat
      /\ \A k \in 1..Len(s) : s[k] \in Rune
      /\ \A k \in 1..Len(t) : t[k] \in Rune
  BY LenProperties, ElementOfSeq DEF Text
<1> DEFINE Stops == {k \in Nat : k = Len(s) \/ k = Len(t) \/ s[k + 1] # t[k + 1]}
           k == Min(Stops)
<1>1. Stops \in SUBSET Nat /\ Len(s) \in Stops /\ Len(t) \in Stops
  BY <1>0
<1>2. k \in Stops /\ \A y \in Stops : k <= y
  BY <1>1, LeastIsOne
<1>3. k \in Nat /\ k <= Len(s) /\ k <= Len(t)
  BY <1>1, <1>2
<1>4. k = Len(s) \/ k = Len(t) \/ s[k + 1] # t[k + 1]
  BY <1>2
<1>5. ASSUME NEW j \in 1..k  PROVE s[j] = t[j]
  <2>1. j - 1 \in Nat /\ (j - 1) + 1 = j /\ j - 1 < k
    BY <1>3
  <2>2. j - 1 \notin Stops
    BY <1>2, <1>3, <2>1
  <2> QED BY <2>1, <2>2
<1> HIDE DEF k, Stops
<1>6. CASE k = Len(s) /\ k = Len(t)
  <2>1. s \in Seq(Rune) /\ t \in Seq(Rune) /\ Len(s) = Len(t) /\ \A j \in 1..Len(s) : s[j] = t[j]
    BY <1>5, <1>6 DEF Text
  <2>2. s = t
    BY <2>1, SeqEqual
  <2> QED BY <2>2
<1>7. CASE k = Len(s) /\ k # Len(t)
  BY <1>0, <1>3, <1>5, <1>7 DEF Less
<1>8. CASE k = Len(t) /\ k # Len(s)
  BY <1>0, <1>3, <1>5, <1>8 DEF Less
<1>9. CASE k # Len(s) /\ k # Len(t)
  <2>1. k + 1 \in 1..Len(s) /\ k + 1 \in 1..Len(t) /\ s[k + 1] # t[k + 1]
    BY <1>0, <1>3, <1>4, <1>9
  <2>2. /\ Code[s[k + 1]] \in Nat /\ Code[t[k + 1]] \in Nat
        /\ Code[s[k + 1]] # Code[t[k + 1]]
    BY <1>0, <2>1, FuzzyAssumption DEF IsInjective
  <2>3. Code[s[k + 1]] < Code[t[k + 1]] \/ Code[t[k + 1]] < Code[s[k + 1]]
    BY <2>2
  <2> QED BY <1>0, <1>3, <1>5, <1>9, <2>3 DEF Less
<1> QED BY <1>6, <1>7, <1>8, <1>9

LEMMA MatchTextType ==
  ASSUME NEW i \in Index
  PROVE  Items[i].name \in Text /\ MatchText(i) \in Text
<1>1. Items[i].name \in Text /\ Items[i].user \in Text
  <2>1. Items[i] \in [name : Text, user : Text]
    BY FuzzyAssumption, ElementOfSeq DEF Index
  <2> QED BY <2>1
<1>2. <<Blank>> \o Items[i].user \in Text /\ <<>> \in Text
  <2>1. <<Blank>> \in Seq(Rune)
    BY FuzzyAssumption
  <2> QED BY <1>1, <2>1, ConcatProperties, EmptySeq DEF Text
<1> QED BY <1>1, <1>2, ConcatProperties DEF MatchText, Text

LEMMA BeforeOrders ==
  ASSUME NEW query \in Text, NEW key \in [Index -> Text]
  PROVE  Orders({p \in Index \X Index : Before(query, key, p[1], p[2])}, Found(query))
<1> DEFINE R == {p \in Index \X Index : Before(query, key, p[1], p[2])}
           score(i) == FuzzyScore(query, MatchText(i))
<1>0. \A i \in Index : score(i) \in Int /\ key[i] \in Text /\ i \in Nat
  BY ScoreType DEF Index
<1>1. ASSUME NEW i \in Index, NEW j \in Index
      PROVE  <<i, j>> \in R <=>
               \/ score(i) > score(j)
               \/ score(i) = score(j) /\ Less(key[i], key[j])
               \/ score(i) = score(j) /\ key[i] = key[j] /\ i < j
  BY DEF Before
<1> HIDE DEF R, score
<1>2. \A i \in Index : <<i, i>> \notin R
  BY <1>0, <1>1, LessStrict
<1>3. ASSUME NEW i \in Index, NEW j \in Index, NEW k \in Index, <<i, j>> \in R, <<j, k>> \in R
      PROVE  <<i, k>> \in R
  <2>1. Less(key[i], key[j]) /\ Less(key[j], key[k]) => Less(key[i], key[k])
    BY <1>0, LessStrict
  <2> QED BY <1>0, <1>1, <1>3, <2>1
<1>4. ASSUME NEW i \in Index, NEW j \in Index, i # j
      PROVE  <<i, j>> \in R \/ <<j, i>> \in R
  <2>1. key[i] = key[j] \/ Less(key[i], key[j]) \/ Less(key[j], key[i])
    BY <1>0, LessTotal
  <2> QED BY <1>0, <1>1, <1>4, <2>1
<1>5. Found(query) \subseteq Index
  BY DEF Found
<1>6. Orders(R, Found(query))
  BY <1>2, <1>3, <1>4, <1>5 DEF Orders
<1> QED BY <1>6 DEF R

(* So the sort is defined: it lists what matches, each cipher once.         *)
LEMMA SortedLists ==
  ASSUME NEW query \in Text, NEW key \in [Index -> Text]
  PROVE  LET s == Sorted(query, key) IN
         /\ s \in Seq(Index)
         /\ \A k \in 1..Len(s) : s[k] \in Found(query)
         /\ \A x \in Found(query) : \E k \in 1..Len(s) : s[k] = x
         /\ \A k, l \in 1..Len(s) : k < l => Before(query, key, s[k], s[l]) /\ s[k] # s[l]
<1> DEFINE S == Found(query)
           R == {p \in Index \X Index : Before(query, key, p[1], p[2])}
           s == Sorted(query, key)
<1>1. S \subseteq Index /\ IsFiniteSet(S)
  <2>1. Index \in SUBSET Nat /\ IsFiniteSet(Index)
    <3>1. Len(Items) \in Nat
      BY FuzzyAssumption, LenProperties
    <3> QED BY <3>1, FS_Interval DEF Index
  <2>2. S \in SUBSET Index
    BY DEF Found
  <2> QED BY <2>1, <2>2, FS_Subset
<1>2. Orders(R, S)
  BY BeforeOrders
<1>3. PICK z \in SetToSeqs(S) : \A k, l \in DOMAIN z : k < l => <<z[k], z[l]>> \in R
  <2> HIDE DEF R, S
  <2> QED BY <1>1, <1>2, Sortable
<1>4. \A k, l \in DOMAIN z : k < l => Before(query, key, z[k], z[l])
  BY <1>3
<1>5. /\ s \in SetToSeqs(S)
      /\ \A k, l \in DOMAIN s : k < l => Before(query, key, s[k], s[l])
  BY <1>3, <1>4 DEF Sorted
<1> HIDE DEF s, R, S
<1>6. /\ Cardinality(S) \in Nat /\ s \in [1..Cardinality(S) -> S]
      /\ \A x \in S : \E k \in 1..Cardinality(S) : s[k] = x
  BY <1>1, <1>5, AllAreListed
<1>7. s \in Seq(Index) /\ Len(s) = Cardinality(S) /\ DOMAIN s = 1..Len(s)
  BY <1>1, <1>6
<1>8. \A k, l \in 1..Len(s) : k # l => s[k] # s[l]
  BY <1>5, <1>7 DEF SetToSeqs
<1>9. \A k, l \in 1..Len(s) : k < l => k # l
  BY <1>7
<1>10. \A k \in 1..Len(s) : s[k] \in S
  BY <1>6, <1>7
<1> QED BY <1>5, <1>6, <1>7, <1>8, <1>9, <1>10 DEF s, S

(* A row holds the runes of the filter in their order. *)
LEMMA RankLists ==
  ASSUME NEW query \in Text
  PROVE  /\ Rows(query) \in Seq(Index) /\ FuzzyRank(query) \in Seq(Index)
         /\ \A k \in 1..Len(Rows(query)) : Appears(query, MatchText(Rows(query)[k]))
<1>1. /\ [i \in Index |-> Items[i].name] \in [Index -> Text]
      /\ [i \in Index |-> MatchText(i)] \in [Index -> Text]
  BY MatchTextType
<1>2. FuzzyRank(query) \in Seq(Index)
  BY <1>1, SortedLists DEF FuzzyRank
<1>3. CASE query = <<>>
  <2>1. Len(Items) \in Nat
    BY FuzzyAssumption, LenProperties
  <2>2. Rows(query) \in Seq(Index)
    BY <1>3, <2>1 DEF Rows, Index
  <2>3. \A text : Appears(query, text)
    <3> SUFFICES ASSUME NEW text  PROVE Appears(query, text)
      OBVIOUS
    <3>1. Len(query) = 0 /\ 1..0 = {} /\ 2..0 = {}
      BY <1>3
    <3> DEFINE places == [k \in 1..0 |-> 1]
    <3>2. places \in [1..0 -> 1..Len(text)]
      BY <3>1
    <3> HIDE DEF places
    <3>3. /\ places \in [1..Len(query) -> 1..Len(text)]
          /\ \A k \in 2..Len(query) : places[k - 1] < places[k]
          /\ \A k \in 1..Len(query) : Lower[text[places[k]]] = Lower[query[k]]
      BY <3>1, <3>2
    <3> QED BY <3>3 DEF Appears
  <2> QED BY <1>2, <2>2, <2>3
<1>4. CASE query # <<>>
  <2> DEFINE key == [i \in Index |-> Items[i].name]
             s == Sorted(query, key)
  <2>1. Rows(query) = s
    BY <1>4 DEF Rows
  <2>2. s \in Seq(Index) /\ \A k \in 1..Len(s) : s[k] \in Found(query)
    BY <1>1, SortedLists
  <2> HIDE DEF s
  <2>3. \A k \in 1..Len(s) : FuzzyScore(query, MatchText(s[k])) > 0
    BY <2>2 DEF Found
  <2>4. \A k \in 1..Len(s) : Appears(query, MatchText(s[k]))
    BY <2>3, ScoredAppears
  <2> QED BY <1>2, <2>1, <2>2, <2>4
<1> QED BY <1>3, <1>4

-----------------------------------------------------------------------------
(* The filter, the rows and the selection; what was drawn, and that while a *)
(* key is awaited it is drawn from them.                                    *)
Ranked ==
  /\ filter \in Filters /\ rows \in Seq(Index) /\ selected \in Nat
  /\ rows = <<>> => selected = 0
  /\ rows # <<>> => selected < Len(rows)

Bounded ==
  /\ Len(filter) + Len(tty) <= MaxTyped
  /\ pc = "start" => tty = <<>> /\ selected = 0

Drawn ==
  /\ top \in Nat
  /\ frame \in [filter : Text, drawn : Seq(Index), marked : Index \cup {0}]
  /\ (Height > 3 /\ pc \in {"read", "lead", "esc"}) =>
       frame.filter = filter /\ frame.marked = IF rows = <<>> THEN 0 ELSE rows[selected + 1]

Bits ==
  /\ closed \in BOOLEAN /\ mode \in {"cooked", "raw"}
  /\ escResult \in Byte \cup {"none", "no"}
  /\ result \in Index \cup {0} /\ (pc # "end" /\ pc # "killed" => result = 0)

Model == Ranked /\ Bounded /\ Drawn

LEMMA FilterIsText ==
  ASSUME NEW f
  PROVE  f \in Filters <=> f \in Text /\ Len(f) <= MaxTyped
<1>1. MaxTyped \in Nat
  BY PickerAssumption
<1>2. ASSUME f \in Text, Len(f) <= MaxTyped  PROVE f \in Filters
  <2>1. Len(f) \in 0..MaxTyped /\ f \in [1..Len(f) -> Rune]
    BY <1>1, <1>2, LenProperties DEF Text
  <2> QED BY <2>1 DEF Filters
<1>3. ASSUME f \in Filters  PROVE f \in Text /\ Len(f) <= MaxTyped
  <2>1. PICK n \in 0..MaxTyped : f \in [1..n -> Rune]
    BY <1>3 DEF Filters
  <2>2. f \in Seq(Rune) /\ Len(f) = n
    BY <2>1
  <2> QED BY <1>1, <2>2 DEF Text
<1> QED BY <1>2, <1>3

LEMMA RecomputeRanks ==
  ASSUME NEW f \in Filters, Recompute(f), selected \in Nat
  PROVE  Ranked'
<1>1. RowsOf[f] \in Seq(Index)
  BY FilterIsText, RankLists DEF RowsOf
<1>2. Len(RowsOf[f]) \in Nat /\ (RowsOf[f] = <<>> <=> Len(RowsOf[f]) = 0)
  BY <1>1, LenProperties, EmptySeq
<1> QED BY <1>1, <1>2 DEF Recompute, Ranked, Clamped

(* Keys that change the filter or the selection; nothing is awaited then.   *)
LEMMA TypedKeeps ==
  ASSUME Model, NEW f \in Filters, Typed(f), Len(f) + Len(tty') <= MaxTyped
  PROVE  Model'
<1>1. Ranked'
  BY RecomputeRanks DEF Model, Ranked, Typed
<1> QED BY <1>1 DEF Model, Typed, Recompute, Bounded, Drawn

LEMMA MovedKeeps ==
  ASSUME Model, NEW s \in Int, Moved(s), Len(filter) + Len(tty') <= MaxTyped
  PROVE  Model'
<1>1. Len(rows) \in Nat /\ (rows = <<>> <=> Len(rows) = 0)
  BY LenProperties, EmptySeq DEF Model, Ranked
<1> QED BY <1>1 DEF Model, Moved, Ranked, Bounded, Drawn

LEMMA ModelFrame ==
  ASSUME Model, UNCHANGED <<model, frame>>, pc' # "start",
         pc' \in {"read", "lead", "esc"} => pc \in {"read", "lead", "esc"},
         Len(filter) + Len(tty') <= MaxTyped
  PROVE  Model'
  BY DEF Model, model, Ranked, Bounded, Drawn

LEMMA PickKeeps ==
  ASSUME Model, pc = "start", NEW f \in Filters, Pick(f)
  PROVE  Model'
<1>1. tty = <<>> /\ Len(tty) = 0 /\ tty' = tty
  BY DEF Model, Bounded, Pick
<1>2. Len(f) <= MaxTyped /\ Len(f) \in Nat /\ Len(filter) \in Nat
  BY FilterIsText, LenProperties DEF Text, Model, Ranked
<1>3. CASE End(0)
  BY <1>1, <1>2, <1>3, ModelFrame DEF End, Model, Bounded
<1>4. CASE ~End(0)
  <2>1. pc' = "render" /\ Recompute(f) /\ UNCHANGED <<top, frame>>
    BY <1>4 DEF Pick
  <2>2. Ranked'
    BY <2>1, RecomputeRanks DEF Model, Ranked
  <2> QED BY <1>1, <1>2, <2>1, <2>2 DEF Model, Recompute, Bounded, Drawn
<1> QED BY <1>3, <1>4

-----------------------------------------------------------------------------
(* The selected row is in the window that is drawn.                         *)
LEMMA WindowHolds ==
  ASSUME NEW t \in Nat, NEW s \in Nat
  PROVE  /\ Visible \in Nat \ {0}
         /\ Window(t, s) \in Nat /\ Window(t, s) <= s /\ s < Window(t, s) + Visible
<1>1. Visible \in Nat \ {0}
  BY PickerAssumption DEF Visible
<1> QED BY <1>1 DEF Window

LEMMA RenderDraws ==
  ASSUME Model, Render
  PROVE  Model'
<1> DEFINE t == Window(top, selected)
           last == IF Height > 3 THEN Min({Len(rows), t + Visible}) ELSE t
           marked == IF selected + 1 \in (t + 1)..last THEN rows[selected + 1] ELSE 0
<1>1. /\ filter \in Filters /\ rows \in Seq(Index) /\ selected \in Nat /\ top \in Nat
      /\ Len(rows) \in Nat /\ (rows = <<>> <=> Len(rows) = 0)
      /\ (rows = <<>> => selected = 0) /\ (rows # <<>> => selected < Len(rows))
  BY LenProperties, EmptySeq DEF Model, Ranked, Drawn
<1>2. t \in Nat /\ t <= selected /\ selected < t + Visible /\ Visible \in Nat \ {0}
  BY <1>1, WindowHolds
<1> HIDE DEF t
<1>3. /\ last \in Nat /\ last <= Len(rows)
      /\ Height > 3 /\ rows # <<>> => selected + 1 \in (t + 1)..last
      /\ Height > 3 /\ rows = <<>> => last = 0
  <2>1. CASE Height > 3
    <3> DEFINE S == {Len(rows), t + Visible}
    <3>1. S \in SUBSET Nat /\ S # {}
      BY <1>1, <1>2
    <3>2. Min(S) \in S /\ \A y \in S : Min(S) <= y
      BY <3>1, LeastIsOne
    <3>3. last = Min(S)
      BY <2>1
    <3>4. last \in {Len(rows), t + Visible} /\ last <= Len(rows) /\ last <= t + Visible
      BY <3>2, <3>3
    <3> HIDE DEF last
    <3> QED BY <1>1, <1>2, <3>4
  <2>2. CASE ~(Height > 3)
    BY <1>1, <1>2, <2>2
  <2> QED BY <2>1, <2>2
<1> HIDE DEF last
<1>4. SubSeq(rows, t + 1, last) \in Seq(Index)
  <2>1. \A i \in (t + 1)..last : i \in 1..Len(rows)
    BY <1>1, <1>2, <1>3
  <2>2. \A i \in (t + 1)..last : rows[i] \in Index
    BY <1>1, <2>1, ElementOfSeq
  <2> QED BY <1>2, <1>3, <2>2, SubSeqProperties
<1>5. /\ marked \in Index \cup {0}
      /\ Height > 3 => marked = IF rows = <<>> THEN 0 ELSE rows[selected + 1]
  <2>1. ASSUME selected + 1 \in (t + 1)..last  PROVE rows[selected + 1] \in Index
    <3>1. selected + 1 \in 1..Len(rows)
      BY <1>1, <1>2, <1>3, <2>1
    <3> QED BY <1>1, <3>1, ElementOfSeq
  <2> QED BY <1>1, <1>2, <1>3, <2>1
<1> HIDE DEF marked
<1>6. /\ top' = t /\ pc' = "read" /\ UNCHANGED <<filter, rows, selected, tty>>
      /\ frame' = [filter |-> filter, drawn |-> SubSeq(rows, t + 1, last), marked |-> marked]
  BY DEF Render, t, last, marked
<1>7. filter \in Text
  BY <1>1, FilterIsText
<1> QED BY <1>2, <1>4, <1>5, <1>6, <1>7 DEF Model, Ranked, Bounded, Drawn

-----------------------------------------------------------------------------
LEMMA NoFilter == <<>> \in Filters /\ Queries \subseteq Filters
<1>1. \A q \in Queries : q \in Filters
  BY PickerAssumption, FilterIsText
<1>2. <<>> \in Text /\ Len(<<>>) <= MaxTyped
  BY PickerAssumption, EmptySeq DEF Text
<1> QED BY <1>1, <1>2, FilterIsText

LEMMA Shortened ==
  ASSUME NEW f \in Filters, f # <<>>
  PROVE  Front(f) \in Filters /\ Len(Front(f)) = Len(f) - 1
<1>1. f \in Seq(Rune) /\ Len(f) <= MaxTyped /\ Len(f) \in Nat /\ Len(f) # 0
  BY FilterIsText, EmptySeq, LenProperties DEF Text
<1>2. \A k \in 1..(Len(f) - 1) : f[k] \in Rune
  BY <1>1, ElementOfSeq
<1>3. Front(f) \in Seq(Rune) /\ Len(Front(f)) = Len(f) - 1
  <2> DEFINE n == Len(f) - 1
  <2>1. n \in Nat /\ \A k \in 1..n : f[k] \in Rune
    BY <1>1, <1>2
  <2> HIDE DEF n
  <2>2. SubSeq(f, 1, n) \in Seq(Rune) /\ Len(SubSeq(f, 1, n)) = n
    BY <2>1, SubSeqProperties
  <2> QED BY <2>2 DEF Front, n
<1>4. Front(f) \in Text /\ Len(Front(f)) <= MaxTyped
  BY <1>1, <1>3, PickerAssumption DEF Text
<1> QED BY <1>3, <1>4, FilterIsText

LEMMA Lengthened ==
  ASSUME NEW f \in Filters, NEW r \in Rune, Len(f) < MaxTyped
  PROVE  Append(f, r) \in Filters /\ Len(Append(f, r)) = Len(f) + 1
<1>1. f \in Seq(Rune) /\ Len(f) \in Nat /\ MaxTyped \in Nat
  BY FilterIsText, LenProperties, PickerAssumption DEF Text
<1>2. Append(f, r) \in Seq(Rune) /\ Len(Append(f, r)) = Len(f) + 1
  BY <1>1, AppendProperties
<1>3. Append(f, r) \in Text /\ Len(Append(f, r)) <= MaxTyped
  BY <1>1, <1>2 DEF Text
<1> QED BY <1>2, <1>3, FilterIsText

LEMMA StepModel ==
  ASSUME IInv, Model, [Next]_vars
  PROVE  Model'
<1>0. /\ tty \in Seq(Byte) /\ Len(tty) \in Nat /\ Len(filter) \in Nat
      /\ Len(filter) + Len(tty) <= MaxTyped /\ MaxTyped \in Nat
      /\ filter \in Filters /\ selected \in Nat
      /\ escReader # "none" => pc # "start"
  BY FilterIsText, LenProperties, PickerAssumption
     DEF Model, Ranked, Bounded, Text, IInv, Reading
<1>1. ASSUME \E r : End(r), UNCHANGED tty  PROVE Model'
  BY <1>0, <1>1, ModelFrame DEF End
<1>2. ASSUME tty # <<>>, tty' = Tail(tty)
      PROVE  Len(tty') = Len(tty) - 1 /\ Len(tty') \in Nat
  BY <1>0, <1>2, TailOfTty
<1>3. ASSUME tty # <<>>, tty' = Tail(tty), UNCHANGED <<model, frame>>, pc' # "start",
             pc' \in {"read", "lead", "esc"} => pc \in {"read", "lead", "esc"}
      PROVE  Model'
  BY <1>0, <1>2, <1>3, ModelFrame
<1>4. CASE GetAny \/ GetExact \/ GetFuzzy \/ GetUnclear
  BY <1>1, <1>4, PickKeeps, NoFilter DEF GetAny, GetExact, GetFuzzy, GetUnclear
<1>5. CASE Render
  BY <1>5, RenderDraws
<1>6. CASE ReadEnter \/ ReadCtrlC \/ ReadInvalid
  BY <1>3, <1>6 DEF ReadEnter, ReadCtrlC, ReadInvalid, Next1, Selected, End
<1>7. CASE ReadIgnored \/ ReadLead \/ ReadEsc
  BY <1>3, <1>7 DEF ReadIgnored, ReadLead, ReadEsc, Next1
<1>8. CASE ReadBackspace
  <2>1. tty # <<>> /\ tty' = Tail(tty)
    BY <1>8 DEF ReadBackspace, Next1
  <2>2. CASE filter # <<>> /\ Typed(Front(filter))
    BY <1>0, <1>2, <2>1, <2>2, Shortened, TypedKeeps
  <2>3. CASE pc' = "render" /\ UNCHANGED <<model, frame>>
    BY <1>3, <2>1, <2>3
  <2> QED BY <1>8, <2>2, <2>3 DEF ReadBackspace
<1>9. CASE ReadCtrlU
  BY <1>0, <1>2, <1>9, NoFilter, TypedKeeps, EmptySeq DEF ReadCtrlU, Next1
<1>10. CASE ReadUp \/ ReadDown
  BY <1>0, <1>2, <1>10, MovedKeeps DEF ReadUp, ReadDown, Next1
<1>11. CASE ReadRune \/ ReadRest
  <2>1. tty # <<>> /\ tty' = Tail(tty)
    BY <1>11 DEF ReadRune, ReadRest, Next1
  <2>2. \/ \E r \in Rune : Typed(Append(filter, r))
        \/ pc = "lead" /\ pc' = "read" /\ UNCHANGED <<model, frame>>
    BY <1>11, PickerAssumption DEF ReadRune, ReadRest
  <2>3. ASSUME NEW r \in Rune, Typed(Append(filter, r))  PROVE Model'
    <3>1. Len(filter) < MaxTyped
      BY <1>0, <1>2, <2>1
    <3>2. Append(filter, r) \in Filters /\ Len(Append(filter, r)) = Len(filter) + 1
      BY <1>0, <3>1, Lengthened
    <3>3. Len(Append(filter, r)) + Len(tty') <= MaxTyped
      BY <1>0, <1>2, <2>1, <3>2
    <3> QED BY <2>3, <3>2, <3>3, TypedKeeps
  <2> QED BY <1>3, <2>1, <2>2, <2>3
<1>12. CASE ReadFails
  BY <1>1, <1>12 DEF ReadFails, HangUpCancels
<1>13. CASE EscDecoded
  BY <1>0, <1>1, <1>13, MovedKeeps DEF EscDecoded, EscPressed
<1>14. CASE EscTimeout
  BY <1>1, <1>14 DEF EscTimeout, EscPressed
<1>15. CASE EscReads
  BY <1>0, <1>3, <1>15 DEF EscReads
<1>16. CASE Press
  <2>1. PICK b \in Byte : tty' = Append(tty, b)
    BY <1>16 DEF Press
  <2>2. Len(tty') = Len(tty) + 1
    BY <1>0, <2>1, AppendProperties
  <2> QED BY <1>0, <1>16, <2>2, ModelFrame DEF Press
<1>17. CASE EscReadFails \/ HangUp \/ Interrupt \/ HandlerExit \/ UNCHANGED vars
  <2>1. UNCHANGED <<model, frame, tty>> /\ (pc' = pc \/ pc' = "killed")
    BY <1>17 DEF EscReadFails, HangUp, Interrupt, HandlerExit, vars
  <2> QED BY <2>1 DEF Model, model, Ranked, Bounded, Drawn
<1> QED
  BY <1>4, <1>5, <1>6, <1>7, <1>8, <1>9, <1>10, <1>11, <1>12, <1>13, <1>14, <1>15, <1>16, <1>17
  DEF Next, Steps, Reader, Escape

-----------------------------------------------------------------------------
(* What get goes on with is a cipher of the vault, or none.                 *)
LEMMA ChosenIsThere ==
  ASSUME NEW q \in Queries
  PROVE  /\ Exact(q) # 0 => Exact(q) \in Index
         /\ Confident(q) => AutoSelected(q) \in Index
<1>1. Index \subseteq Nat
  BY DEF Index
<1>2. ASSUME Exact(q) # 0  PROVE Exact(q) \in Index
  <2> DEFINE same == {i \in Index : Items[i].name = q}
  <2>1. same # {} /\ Exact(q) = Min(same)
    BY <1>2 DEF Exact
  <2>2. same \in SUBSET Nat /\ same \subseteq Index
    BY <1>1
  <2> HIDE DEF same
  <2> QED BY <2>1, <2>2, LeastIsOne
<1>3. ASSUME Confident(q)  PROVE AutoSelected(q) \in Index
  <2>1. FuzzyRank(q) \in Seq(Index) /\ FuzzyRank(q) # <<>>
    BY <1>3, PickerAssumption, RankLists DEF Confident
  <2> DEFINE best == FuzzyRank(q)[1]
             same == {i \in Index : MatchText(i) = MatchText(best)}
  <2>2. best \in Index
    BY <2>1, EmptySeq, ElementOfSeq
  <2>3. same \in SUBSET Nat /\ same \subseteq Index /\ best \in same
    BY <1>1, <2>2
  <2>4. AutoSelected(q) = Min(same)
    BY DEF AutoSelected, First
  <2> HIDE DEF same, best
  <2> QED BY <2>3, <2>4, LeastIsOne
<1> QED BY <1>2, <1>3

LEMMA StepBits ==
  ASSUME IInv, Model, Bits, [Next]_vars
  PROVE  Bits'
<1>0. 0 \in Index \cup {0}
  OBVIOUS
<1> DEFINE Rest == closed' \in BOOLEAN /\ escResult' \in Byte \cup {"none", "no"}
<1>1. ASSUME NEW r \in Index \cup {0}, End(r), Rest  PROVE Bits'
  BY <1>1 DEF Bits, End
<1>2. ASSUME result' = result, mode' = mode, pc' # "start", pc \notin {"end", "killed"}, Rest
      PROVE  Bits'
  BY <1>2 DEF Bits
<1>3. CASE GetAny \/ GetExact \/ GetFuzzy \/ GetUnclear
  <2>1. Rest
    BY <1>3, GetStarts DEF Starts, Bits, esc
  <2>2. \/ \E r \in Index \cup {0} : End(r)
        \/ pc' = "render" /\ mode' = "raw" /\ result' = result /\ pc = "start"
    BY <1>0, <1>3, ChosenIsThere DEF GetAny, GetExact, GetFuzzy, GetUnclear, Pick
  <2> QED BY <1>1, <2>1, <2>2 DEF Bits
<1>4. CASE Render \/ ReadBackspace \/ ReadCtrlU \/ ReadUp \/ ReadDown \/ ReadRune \/ ReadIgnored
           \/ ReadLead \/ ReadRest \/ ReadEsc
  BY <1>2, <1>4 DEF Bits, Render, ReadBackspace, ReadCtrlU, ReadUp, ReadDown, ReadRune,
     ReadIgnored, ReadLead, ReadRest, ReadEsc, Typed, Moved, Next1, esc
<1>5. CASE ReadEnter
  <2>1. rows # <<>> => rows[selected + 1] \in Index
    <3>1. rows \in Seq(Index) /\ (rows # <<>> => selected + 1 \in 1..Len(rows))
      BY LenProperties DEF Model, Ranked
    <3> QED BY <3>1, ElementOfSeq
  <2>2. End(IF rows = <<>> THEN 0 ELSE rows[selected + 1]) /\ Rest
    BY <1>5 DEF ReadEnter, Selected, Bits, esc, End
  <2> QED BY <1>1, <2>1, <2>2
<1>6. CASE ReadCtrlC \/ ReadInvalid \/ ReadFails \/ EscTimeout
  <2>1. End(0) /\ Rest
    BY <1>6 DEF ReadCtrlC, ReadInvalid, ReadFails, HangUpCancels, EscTimeout, EscPressed, Bits,
       esc, End
  <2> QED BY <1>0, <1>1, <2>1
<1>7. CASE EscDecoded
  <2>1. Rest
    BY <1>7 DEF EscDecoded, EscPressed, Moved, End, Bits
  <2>2. CASE End(0)
    BY <1>0, <1>1, <2>1, <2>2
  <2>3. CASE \E s : Moved(s)
    BY <1>2, <1>7, <2>1, <2>3 DEF EscDecoded, Moved
  <2> QED BY <1>7, <2>2, <2>3 DEF EscDecoded, EscPressed
<1>8. CASE EscReads
  <2>1. Head(tty) \in Byte
    BY <1>8, HeadTailProperties DEF EscReads, IInv, Reading
  <2> QED BY <1>8, <2>1 DEF EscReads, Bits
<1>9. CASE EscReadFails \/ Press \/ HangUp \/ Interrupt \/ HandlerExit \/ UNCHANGED vars
  BY <1>9 DEF EscReadFails, Press, HangUp, Interrupt, HandlerExit, vars, esc, Bits
<1> QED
  BY <1>3, <1>4, <1>5, <1>6, <1>7, <1>8, <1>9 DEF Next, Steps, Reader, Escape

LEMMA InitModel == Init => Model /\ Bits
<1> SUFFICES ASSUME Init  PROVE Model /\ Bits
  OBVIOUS
<1>1. /\ <<>> \in Filters /\ <<>> \in Seq(Index) /\ <<>> \in Text /\ Len(<<>>) = 0
      /\ MaxTyped \in Nat
  BY NoFilter, EmptySeq, PickerAssumption DEF Text
<1>2. NoFrame \in [filter : Text, drawn : Seq(Index), marked : Index \cup {0}]
  BY <1>1 DEF NoFrame
<1>3. Ranked /\ Bounded
  BY <1>1 DEF Init, Ranked, Bounded
<1>4. Drawn
  BY <1>2 DEF Init, Drawn
<1>5. Bits
  BY DEF Init, Bits
<1> QED BY <1>3, <1>4, <1>5 DEF Model

LEMMA ModelInvariant == Spec => [](IInv /\ Model /\ Bits)
<1>1. IInv /\ Model /\ Bits /\ [Next]_vars => (IInv /\ Model /\ Bits)'
  BY StepInv, StepModel, StepBits
<1> QED BY <1>1, InitInv, InitModel, PTL DEF Spec

(* Every variable keeps to its type: above all, the selection stays inside  *)
(* the rows, however the filter lengthens and shortens the list.            *)
THEOREM TypeCorrect == Spec => []TypeOK
<1>1. IInv /\ Model /\ Bits => TypeOK
  BY FilterIsText DEF IInv, Reading, Restored, Model, Ranked, Drawn, Bits, TypeOK
<1> QED BY <1>1, ModelInvariant, PTL

(* The picker never returns a cipher but the one marked on the screen, in   *)
(* the list drawn for the filter that is shown.                             *)
THEOREM TakenIsShown == Spec => TakesWhatIsShown
<1>1. ASSUME IInv, Model, Bits, [Next]_vars, Height > 3, pc = "read", result' # result
      PROVE  result' = frame.marked /\ frame.filter = filter
  <2>1. result = 0
    BY <1>1 DEF Bits
  <2>2. frame.filter = filter /\ frame.marked = (IF rows = <<>> THEN 0 ELSE rows[selected + 1])
    BY <1>1 DEF Model, Drawn
  <2>3. CASE ReadEnter
    BY <2>2, <2>3 DEF ReadEnter, Selected, End
  <2>4. CASE ReadCtrlC \/ ReadInvalid \/ ReadFails \/ EscTimeout
    <3>1. result' = 0
      BY <2>4 DEF ReadCtrlC, ReadInvalid, ReadFails, HangUpCancels, EscTimeout, EscPressed, End
    <3> QED BY <1>1, <2>1, <3>1
  <2>5. CASE EscDecoded \/ GetAny \/ GetExact \/ GetFuzzy \/ GetUnclear
    BY <1>1, <2>5 DEF EscDecoded, GetAny, GetExact, GetFuzzy, GetUnclear
  <2>6. CASE result' = result
    BY <1>1, <2>6
  <2> QED
    BY <1>1, <2>3, <2>4, <2>5, <2>6
    DEF Next, Steps, Reader, Escape, vars, Render, ReadBackspace, ReadCtrlU, ReadUp, ReadDown,
        ReadRune, ReadIgnored, ReadLead, ReadRest, ReadEsc, Typed, Moved, EscReads,
        EscReadFails, Press, HangUp, Interrupt, HandlerExit
<1>2. IInv /\ Model /\ Bits /\ [Next]_vars =>
        [(Height > 3 /\ pc = "read" /\ result' # result) =>
           result' = frame.marked /\ frame.filter = filter]_vars
  BY <1>1
<1> QED BY <1>2, ModelInvariant, PTL DEF Spec, TakesWhatIsShown

-----------------------------------------------------------------------------
(* While the picker runs, the rows are those of the filter. *)
Running == pc \notin {"start", "end", "killed"}
Listed  == Running => rows = RowsOf[filter]

LEMMA StepListed ==
  ASSUME Listed, [Next]_vars
  PROVE  Listed'
<1>1. ASSUME NEW f, Recompute(f)  PROVE Listed'
  BY <1>1 DEF Recompute, Listed
<1>2. ASSUME UNCHANGED <<filter, rows>>, Running' => Running  PROVE Listed'
  BY <1>2 DEF Listed
<1>3. ASSUME NEW r, End(r)  PROVE Listed'
  BY <1>3 DEF End, Listed, Running
<1>4. CASE GetAny \/ GetExact \/ GetFuzzy \/ GetUnclear
  BY <1>1, <1>3, <1>4 DEF GetAny, GetExact, GetFuzzy, GetUnclear, Pick
<1>5. CASE Render
  BY <1>2, <1>5 DEF Render, Running
<1>6. CASE ReadEnter \/ ReadCtrlC \/ ReadInvalid \/ ReadFails \/ EscTimeout
  BY <1>3, <1>6 DEF ReadEnter, ReadCtrlC, ReadInvalid, ReadFails, HangUpCancels, EscTimeout,
     EscPressed, Selected
<1>7. CASE ReadBackspace \/ ReadCtrlU \/ ReadRune
  BY <1>1, <1>2, <1>7 DEF ReadBackspace, ReadCtrlU, ReadRune, Typed, Next1, model, Running
<1>8. CASE ReadUp \/ ReadDown
  BY <1>2, <1>8 DEF ReadUp, ReadDown, Moved, Next1, Running
<1>9. CASE ReadIgnored \/ ReadLead \/ ReadEsc
  BY <1>2, <1>9 DEF ReadIgnored, ReadLead, ReadEsc, Next1, model, Running
<1>10. CASE ReadRest
  BY <1>1, <1>2, <1>10 DEF ReadRest, Typed, model, Running
<1>11. CASE EscDecoded
  BY <1>2, <1>3, <1>11 DEF EscDecoded, EscPressed, Moved, Running
<1>12. CASE EscReads \/ EscReadFails \/ Press \/ HangUp \/ Interrupt \/ HandlerExit
            \/ UNCHANGED vars
  BY <1>2, <1>12 DEF EscReads, EscReadFails, Press, HangUp, Interrupt, HandlerExit, vars, model,
     Running
<1> QED
  BY <1>4, <1>5, <1>6, <1>7, <1>8, <1>9, <1>10, <1>11, <1>12 DEF Next, Steps, Reader, Escape

(* Whatever is typed, pasted and deleted, every row that is about to be     *)
(* drawn holds the runes of the filter in their order.                      *)
THEOREM RowsAreMatches == Spec => []RowsMatch
<1>1. Init => Listed
  BY DEF Init, Listed, Running
<1>2. Spec => []Listed
  BY <1>1, StepListed, PTL DEF Spec
<1>3. ASSUME Listed, Model  PROVE RowsMatch
  <2>1. filter \in Filters /\ filter \in Text
    BY <1>3, FilterIsText DEF Model, Ranked
  <2>2. ASSUME pc = "render"
        PROVE  rows = Rows(filter)
    BY <1>3, <2>1, <2>2 DEF Listed, Running, RowsOf
  <2> QED BY <2>1, <2>2, RankLists DEF RowsMatch
<1> QED BY <1>2, <1>3, ModelInvariant, PTL

-----------------------------------------------------------------------------
(* The first of the sorted ciphers has the best score.                      *)
LEMMA FirstIsBest ==
  ASSUME NEW query \in Text, NEW key \in [Index -> Text], NEW i \in Index,
         FuzzyScore(query, MatchText(i)) > 0,
         \A j \in Index \ {i} : FuzzyScore(query, MatchText(j)) < FuzzyScore(query, MatchText(i))
  PROVE  Sorted(query, key)[1] = i
<1> DEFINE s == Sorted(query, key)
<1>1. /\ s \in Seq(Index) /\ Len(s) \in Nat
      /\ \A k, l \in 1..Len(s) : k < l => Before(query, key, s[k], s[l]) /\ s[k] # s[l]
  BY SortedLists, LenProperties
<1>2. PICK k \in 1..Len(s) : s[k] = i
  BY SortedLists DEF Found
<1> HIDE DEF s
<1>3. 1 \in 1..Len(s) /\ s[1] \in Index
  BY <1>1, <1>2, ElementOfSeq
<1>4. CASE k # 1
  <2>1. Before(query, key, s[1], i) /\ s[1] # i
    BY <1>1, <1>2, <1>3, <1>4
  <2>2. FuzzyScore(query, MatchText(s[1])) < FuzzyScore(query, MatchText(i))
    BY <1>3, <2>1
  <2>3. /\ FuzzyScore(query, MatchText(s[1])) \in Int
        /\ FuzzyScore(query, MatchText(i)) \in Int
    BY ScoreType
  <2> QED BY <2>1, <2>2, <2>3 DEF Before
<1> QED BY <1>2, <1>4 DEF s

(* A query that is clear has one best match, and get takes that one.        *)
LEMMA ClearIsBest ==
  ASSUME NEW query \in Text, Confident(query)
  PROVE  LET first == AutoSelected(query) IN
         /\ query # <<>> /\ first \in Index
         /\ FuzzyScore(query, MatchText(first)) > 0
         /\ \A i \in Index \ {first} :
              FuzzyScore(query, MatchText(i)) < FuzzyScore(query, MatchText(first))
<1> DEFINE s == FuzzyRank(query)
           key == [i \in Index |-> MatchText(i)]
           score(i) == FuzzyScore(query, MatchText(i))
<1>0. key \in [Index -> Text] /\ s = Sorted(query, key)
  BY MatchTextType DEF FuzzyRank
<1>1. /\ s \in Seq(Index) /\ Len(s) \in Nat
      /\ \A k \in 1..Len(s) : s[k] \in Found(query)
      /\ \A x \in Found(query) : \E k \in 1..Len(s) : s[k] = x
      /\ \A k, l \in 1..Len(s) : k < l => Before(query, key, s[k], s[l])
  <2> HIDE DEF key
  <2> QED BY <1>0, SortedLists, LenProperties
<1>2. s # <<>> /\ (Len(s) > 1 => score(s[2]) # score(s[1]))
  BY DEF Confident
<1> HIDE DEF s, key
<1>3. 1 \in 1..Len(s)
  BY <1>1, <1>2, EmptySeq
<1> DEFINE best == s[1]
<1>4. best \in Index /\ score(best) > 0
  BY <1>1, <1>3 DEF Found
<1>5. query # <<>>
  BY <1>4, ScoreType
<1>6. \A i : score(i) \in Int
  BY ScoreType
<1>7. ASSUME NEW i \in Index, i # best  PROVE score(i) < score(best)
  <2>1. CASE score(i) <= 0
    BY <1>4, <1>6, <2>1
  <2>2. CASE score(i) > 0
    <3>1. PICK k \in 1..Len(s) : s[k] = i
      BY <1>1, <2>2 DEF Found
    <3>2. 2 \in 1..Len(s) /\ k # 1 /\ k >= 2
      BY <1>1, <1>3, <1>7, <3>1
    <3>3. Before(query, key, best, s[2])
      BY <1>1, <1>3, <3>2
    <3>4. score(s[2]) < score(best)
      BY <1>2, <1>6, <3>2, <3>3 DEF Before
    <3>5. score(i) <= score(s[2])
      <4>1. CASE k = 2
        BY <1>6, <3>1, <4>1
      <4>2. CASE k # 2
        <5>1. Before(query, key, s[2], i)
          BY <1>1, <3>1, <3>2, <4>2
        <5> QED BY <1>6, <5>1 DEF Before
      <4> QED BY <4>1, <4>2
    <3> QED BY <1>6, <3>4, <3>5
  <2> QED BY <1>6, <2>1, <2>2
<1>8. AutoSelected(query) = best
  <2> DEFINE same == {i \in Index : MatchText(i) = MatchText(best)}
  <2>1. \A i \in same : i = best
    BY <1>6, <1>7
  <2>2. same \in SUBSET Nat /\ best \in same
    BY <1>4 DEF Index
  <2>3. AutoSelected(query) = Min(same)
    BY DEF AutoSelected, First, s
  <2> HIDE DEF same, best
  <2> QED BY <2>1, <2>2, <2>3, LeastIsOne
<1> HIDE DEF best
<1> QED BY <1>4, <1>5, <1>7, <1>8

(* What get takes without asking is what the picker would have put first,   *)
(* and alone in its score, though the two sort by different texts.          *)
THEOREM TakenIsBest == Spec => []AutoIsFirst
<1>1. ASSUME NEW q \in Queries, Confident(q)
      PROVE  LET first == AutoSelected(q) IN
             /\ Rows(q)[1] = first
             /\ \A i \in Index \ {first} :
                  FuzzyScore(q, MatchText(i)) < FuzzyScore(q, MatchText(first))
  <2>1. q \in Text
    BY PickerAssumption
  <2> DEFINE first == AutoSelected(q)
  <2>2. /\ q # <<>> /\ first \in Index
        /\ FuzzyScore(q, MatchText(first)) > 0
        /\ \A i \in Index \ {first} :
             FuzzyScore(q, MatchText(i)) < FuzzyScore(q, MatchText(first))
    BY <1>1, <2>1, ClearIsBest
  <2> HIDE DEF first
  <2>3. [i \in Index |-> Items[i].name] \in [Index -> Text]
    BY MatchTextType
  <2>4. Rows(q)[1] = first
    BY <2>1, <2>2, <2>3, FirstIsBest DEF Rows
  <2> QED BY <2>2, <2>4 DEF first
<1>2. AutoIsFirst
  BY <1>1 DEF AutoIsFirst
<1> QED BY <1>2, PTL
=============================================================================
