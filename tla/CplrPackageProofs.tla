-------------------------- MODULE CplrPackageProofs --------------------------
(***************************************************************************)
(* Theorems about the preparation of a package, for every answer of        *)
(* pkg-config and every size of the buffer.                                *)
(***************************************************************************)
EXTENDS CplrPackage, Integers, WellFoundedInduction, TLAPS

\* A set of numbers that is not empty has a least one.
LEMMA LeastNumber ==
    ASSUME NEW T, T \subseteq Nat, T # {}
    PROVE  \E x \in T : \A y \in T : x <= y
  <1>1. PICK x \in T : \A y \in T : ~(<<y, x>> \in OpToRel(<, Nat))
    BY NatLessThanWellFounded, WFMin
  <1>2. \A y \in T : ~(y < x)
    BY <1>1 DEF OpToRel
  <1> QED
    BY <1>2

\* The cursor stops at the first character that is not printable, or at the end.
LEMMA StopsThere ==
    ASSUME answer \in Seq(Char), NEW k \in 1..End
    PROVE  /\ Stop(k) \in k..End
           /\ Stop(k) < End => answer[Stop(k)] \notin Graph
           /\ \A j \in k..(Stop(k) - 1) : answer[j] \in Graph
  <1> DEFINE T == { e \in k..End : e < End => answer[e] \notin Graph }
  <1>1. End \in Nat /\ k \in Nat /\ k <= End
    BY DEF End
  <1>2. T \subseteq Nat /\ End \in T
    BY <1>1
  <1>3. PICK x \in T : \A y \in T : x <= y
    BY <1>2, LeastNumber
  <1>4. \A j \in k..(x - 1) : answer[j] \in Graph
    <2> SUFFICES ASSUME NEW j \in k..(x - 1)
                 PROVE  answer[j] \in Graph
      OBVIOUS
    <2>1. j \in Nat /\ x \in Nat /\ x <= End /\ j < x /\ j \in k..End
      BY <1>1, <1>3
    <2>2. j \notin T
      BY <1>3, <2>1
    <2> QED
      BY <2>1, <2>2
  <1>5. x \in k..End /\ (x < End => answer[x] \notin Graph)
    BY <1>3
  <1> QED
    BY <1>4, <1>5 DEF Stop

-----------------------------------------------------------------------------
(* The invariant                                                           *)

\* Before the answer is there, nothing is taken.
Asking ==
    pc \in {"exists", "read"} =>
        /\ answer = <<>> /\ o = 1 /\ ~dash /\ opt = NULL
        /\ \A x \in Letter : piles[x] = <<>>

\* The cursor is inside, and behind a letter and a dash when it says so.
Behind ==
    /\ o \in 1..End
    /\ opt # NULL => ~dash /\ o >= 3 /\ answer[o - 1] = opt /\ answer[o - 2] = "-"
    /\ dash => o >= 2 /\ answer[o - 1] = "-"

IInv == TypeOK /\ Asking /\ Behind /\ WholeAnswer /\ TakenAsGiven

\* A string the parser may take: all that is printable behind a letter and a dash.
Given(x, q) ==
    \E a \in 3..End, b \in 0..Len(answer) :
        /\ answer[a - 1] = x /\ answer[a - 2] = "-"
        /\ a <= b + 1 /\ q = SubSeq(answer, a, b)
        /\ \A j \in a..b : answer[j] \in Graph
        /\ b < Len(answer) => answer[b + 1] \notin Graph

\* What is taken, said with Given.
LEMMA TakenMeans ==
    TakenAsGiven <=> \A x \in Letter : \A k \in 1..Len(piles[x]) : Given(x, piles[x][k])
  BY Zenon DEF TakenAsGiven, Given

\* The same after a step that leaves the answer.
LEMMA TakenMeansNext ==
    ASSUME answer' = answer
    PROVE  TakenAsGiven' <=>
               \A x \in Letter : \A k \in 1..Len(piles'[x]) : Given(x, piles'[x][k])
  <1> DEFINE G(ans, x, q) ==
          \E a \in 3..(Len(ans) + 1), b \in 0..Len(ans) :
              /\ ans[a - 1] = x /\ ans[a - 2] = "-"
              /\ a <= b + 1 /\ q = SubSeq(ans, a, b)
              /\ \A j \in a..b : ans[j] \in Graph
              /\ b < Len(ans) => ans[b + 1] \notin Graph
  <1>1. TakenAsGiven' <=>
            \A x \in Letter : \A k \in 1..Len(piles'[x]) : G(answer', x, piles'[x][k])
    BY Zenon DEF TakenAsGiven, End
  <1>2. ASSUME NEW x, NEW q
        PROVE  G(answer, x, q) <=> Given(x, q)
    BY Zenon DEF Given, End
  <1> HIDE DEF G
  <1>3. ASSUME NEW x, NEW q
        PROVE  G(answer', x, q) <=> Given(x, q)
    BY <1>2, Zenon
  <1> QED
    BY <1>1, <1>3, Zenon

\* Initially the cursor is at the start of an empty string.
LEMMA InitInv == Init => IInv
  <1> SUFFICES ASSUME Init
               PROVE  IInv
    OBVIOUS
  <1>1. TypeOK
    <2>1. text \in Seq(Char) /\ answer \in Seq(Char)
      BY PackageAssumption DEF Init
    <2>2. <<>> \in Seq(Seq(Char))
      OBVIOUS
    <2>3. piles \in [Letter -> Seq(Seq(Char))]
      BY <2>2 DEF Init
    <2> QED
      BY <2>1, <2>3 DEF Init, TypeOK
  <1>2. Asking /\ WholeAnswer
    BY DEF Init, Asking, WholeAnswer
  <1>3. Behind
    BY DEF Init, Behind, End
  <1>4. TakenAsGiven
    BY DEF Init, TakenAsGiven
  <1> QED
    BY <1>1, <1>2, <1>3, <1>4 DEF IInv

\* The phase of asking: an answer is delivered whole or not at all.
LEMMA AskNext ==
    ASSUME IInv, Ask
    PROVE  IInv'
  <1>1. text \in Seq(Char) /\ Size \in Nat
    BY PackageAssumption DEF IInv, TypeOK
  <1>2. Chomp(text) \in Seq(Char)
    BY <1>1 DEF Chomp
  <1>3. /\ pc \in {"exists", "read"} /\ UNCHANGED <<text, o, dash, opt, piles>>
        /\ o = 1 /\ ~dash /\ opt = NULL /\ \A x \in Letter : piles[x] = <<>>
        /\ answer = <<>>
    BY DEF Ask, Exists, Retrieve, IInv, Asking, cursor
  <1>4. \/ pc' = "done" /\ ret' = 1 /\ answer' = answer
        \/ pc' = "read" /\ ret' = ret /\ answer' = answer
        \/ pc' = "parse" /\ ret' = ret /\ answer' = Chomp(text)
    <2>1. CASE Exists
      BY <2>1 DEF Exists, Return
    <2>2. CASE Retrieve
      BY <1>1, <2>2 DEF Retrieve, Return, Fits, Delivered
    <2> QED
      BY <2>1, <2>2 DEF Ask
  <1>5. TypeOK'
    BY <1>2, <1>3, <1>4 DEF IInv, TypeOK
  <1>6. Asking' /\ WholeAnswer'
    BY <1>3, <1>4 DEF Asking, WholeAnswer, Chomp
  <1>7. Behind'
    <2>1. o' = 1 /\ ~dash' /\ opt' = NULL /\ answer' \in Seq(Char)
      BY <1>3, <1>5 DEF TypeOK
    <2> QED
      BY <2>1 DEF Behind, End
  <1>8. TakenAsGiven'
    BY <1>3 DEF TakenAsGiven
  <1> QED
    BY <1>5, <1>6, <1>7, <1>8 DEF IInv

\* A step of the parser that takes no string keeps what was taken.
LEMMA TakenStays ==
    ASSUME IInv, UNCHANGED <<answer, piles>>
    PROVE  TakenAsGiven'
  <1>1. \A x \in Letter : \A k \in 1..Len(piles[x]) : Given(x, piles[x][k])
    BY TakenMeans DEF IInv
  <1>2. \A x \in Letter : \A k \in 1..Len(piles'[x]) : Given(x, piles'[x][k])
    BY <1>1, Zenon
  <1> QED
    BY <1>2, TakenMeansNext

\* Behind a letter the argument is taken, as far as it is printable.
LEMMA ArgumentNext ==
    ASSUME IInv, Argument
    PROVE  IInv'
  <1>1. /\ pc = "parse" /\ o < End /\ opt # NULL
        /\ piles' = [piles EXCEPT ![opt] = Append(@, SubSeq(answer, o, Stop(o) - 1))]
        /\ opt' = NULL /\ UNCHANGED <<text, answer, dash>>
    BY DEF Argument
  <1>2. answer \in Seq(Char) /\ opt \in Letter /\ o \in 1..End /\ End = Len(answer) + 1
    BY <1>1 DEF IInv, TypeOK, Behind, End
  <1>3. /\ Stop(o) \in o..End /\ \A j \in o..(Stop(o) - 1) : answer[j] \in Graph
        /\ Stop(o) < End => answer[Stop(o)] \notin Graph
    BY <1>2, StopsThere
  <1>4. /\ o' \in 1..End
        /\ pc' \in {"parse", "done"} /\ ret' \in {0, ret}
    BY <1>1, <1>2, <1>3 DEF Argument, StepFrom, Return
  <1>5. PICK q : q = SubSeq(answer, o, Stop(o) - 1)
    OBVIOUS
  <1>6. q \in Seq(Char)
    BY <1>2, <1>3, <1>5
  <1>7. piles' \in [Letter -> Seq(Seq(Char))]
    BY <1>1, <1>2, <1>5, <1>6 DEF IInv, TypeOK
  <1>8. TypeOK'
    BY <1>1, <1>2, <1>4, <1>7 DEF IInv, TypeOK
  <1>9. Asking' /\ WholeAnswer'
    BY <1>1, <1>4 DEF IInv, Asking, WholeAnswer, Chomp
  <1>10. Behind'
    BY <1>1, <1>2, <1>4 DEF IInv, Behind, End
  <1>11. Given(opt, q)
    <2>1. o - 1 \in 2..End /\ answer[o - 1] = opt /\ answer[o - 2] = "-" /\ o \in 3..End
      BY <1>1, <1>2 DEF IInv, Behind
    <2>2. PICK b \in 0..Len(answer) : b = Stop(o) - 1
      BY <1>2, <1>3
    <2>3. o <= b + 1 /\ \A j \in o..b : answer[j] \in Graph
      BY <1>2, <1>3, <2>2
    <2>4. b < Len(answer) => answer[b + 1] \notin Graph
      <3>1. Stop(o) = b + 1 /\ (b < Len(answer) => Stop(o) < End)
        BY <1>2, <1>3, <2>2
      <3> QED
        BY <1>3, <3>1
    <2>5. q = SubSeq(answer, o, b)
      BY <1>5, <2>2
    <2> QED
      BY <2>1, <2>3, <2>4, <2>5 DEF Given
  <1>12. ASSUME NEW x \in Letter, NEW k \in 1..Len(piles'[x])
         PROVE  Given(x, piles'[x][k])
    <2>1. piles[x] \in Seq(Seq(Char))
      BY DEF IInv, TypeOK
    <2>2. k \in 1..Len(piles[x]) => Given(x, piles[x][k])
      BY TakenMeans, Zenon DEF IInv
    <2>3. CASE x # opt
      <3>1. piles'[x] = piles[x]
        BY <1>1, <2>3 DEF IInv, TypeOK
      <3> QED
        BY <2>2, <3>1
    <2>4. CASE x = opt
      <3>1. piles'[x] = Append(piles[x], q)
        BY <1>1, <1>5, <2>4 DEF IInv, TypeOK
      <3>2. (k \in 1..Len(piles[x]) /\ piles'[x][k] = piles[x][k]) \/ piles'[x][k] = q
        BY <1>6, <2>1, <3>1
      <3> QED
        BY <1>11, <2>2, <2>4, <3>2
    <2> QED
      BY <2>3, <2>4
  <1>13. TakenAsGiven'
    BY <1>1, <1>12, TakenMeansNext
  <1> QED
    BY <1>8, <1>9, <1>10, <1>13 DEF IInv

\* The other steps of the parser move the cursor inside the string.
LEMMA CursorNext ==
    ASSUME IInv,
           ParseEnd \/ OptionLetter \/ OptionThread \/ OptionUnknown \/ Dash \/ Space \/ Invalid
    PROVE  IInv'
  <1>1. pc = "parse" /\ UNCHANGED <<text, answer, piles>>
    BY DEF ParseEnd, OptionLetter, OptionThread, OptionUnknown, Dash, Space, Invalid,
           BehindDash, Between
  <1>2. /\ answer \in Seq(Char) /\ answer' = answer /\ o \in 1..End
        /\ End = Len(answer) + 1 /\ End' = End /\ Len(answer) \in Nat
    BY <1>1 DEF IInv, TypeOK, Behind, End
  <1>3. ASSUME NEW e \in o..End, StepFrom(e)
        PROVE  /\ o' \in 1..End /\ pc' \in {"parse", "done"} /\ ret' \in {0, ret}
               /\ e < End => o' = e + 1
    BY <1>1, <1>2, <1>3 DEF StepFrom, Return
  <1>4. /\ o' \in 1..End /\ pc' \in {"parse", "done"} /\ ret' \in {0, 1, ret}
        /\ opt' \in Letter \cup {NULL} /\ dash' \in BOOLEAN
        /\ opt' # NULL => ~dash' /\ o' >= 3 /\ answer[o' - 1] = opt' /\ answer[o' - 2] = "-"
        /\ dash' => o' >= 2 /\ answer[o' - 1] = "-"
    <2>1. CASE ParseEnd \/ Invalid
      <3>1. UNCHANGED cursor /\ pc' = "done" /\ ret' \in {0, 1}
        BY <2>1 DEF ParseEnd, Invalid, Return
      <3> QED
        BY <1>2, <3>1 DEF cursor, IInv, TypeOK, Behind
    <2>2. CASE OptionLetter
      <3>1. /\ o < End /\ answer[o] \in Letter /\ dash /\ opt' = answer[o] /\ dash' = FALSE
            /\ StepFrom(o)
        BY <2>2 DEF OptionLetter, BehindDash, At
      <3>2. o \in o..End
        BY <1>2
      <3>3. o' = o + 1 /\ o' \in 1..End /\ pc' \in {"parse", "done"} /\ ret' \in {0, ret}
        BY <1>3, <3>1, <3>2
      <3>4. o >= 2 /\ answer[o - 1] = "-"
        BY <3>1 DEF IInv, Behind
      <3>5. o' - 1 = o /\ o' - 2 = o - 1 /\ o' >= 3
        BY <1>2, <3>3, <3>4
      <3> QED
        BY <3>1, <3>3, <3>4, <3>5
    <2>3. CASE OptionThread \/ OptionUnknown
      <3>1. /\ o < End /\ opt' = opt /\ opt = NULL /\ dash' = FALSE
            /\ StepFrom(o) \/ StepFrom(Stop(o))
        BY <2>3 DEF OptionThread, OptionUnknown, BehindDash, At
      <3>2. o \in o..End /\ Stop(o) \in o..End
        BY <1>2, StopsThere
      <3>3. o' \in 1..End /\ pc' \in {"parse", "done"} /\ ret' \in {0, ret}
        BY <1>3, <3>1, <3>2
      <3> QED
        BY <3>1, <3>3
    <2>4. CASE Dash
      <3>1. /\ o < End /\ answer[o] = "-" /\ opt' = opt /\ opt = NULL /\ dash' = TRUE
            /\ StepFrom(o)
        BY <2>4 DEF Dash, Between, At
      <3>2. o \in o..End
        BY <1>2
      <3>3. o' = o + 1 /\ o' \in 1..End /\ pc' \in {"parse", "done"} /\ ret' \in {0, ret}
        BY <1>3, <3>1, <3>2
      <3>4. o' - 1 = o /\ o' >= 2
        BY <1>2, <3>3
      <3> QED
        BY <3>1, <3>3, <3>4
    <2>5. CASE Space
      <3>1. opt' = opt /\ opt = NULL /\ dash' = dash /\ ~dash /\ StepFrom(o)
        BY <2>5 DEF Space, Between
      <3>2. o \in o..End
        BY <1>2
      <3>3. o' \in 1..End /\ pc' \in {"parse", "done"} /\ ret' \in {0, ret}
        BY <1>3, <3>1, <3>2
      <3> QED
        BY <3>1, <3>3 DEF IInv, TypeOK
    <2> QED
      BY <2>1, <2>2, <2>3, <2>4, <2>5
  <1>5. TypeOK'
    BY <1>1, <1>2, <1>4 DEF IInv, TypeOK
  <1>6. Asking' /\ WholeAnswer'
    BY <1>1, <1>4 DEF IInv, Asking, WholeAnswer, Chomp
  <1>7. Behind'
    BY <1>2, <1>4 DEF Behind
  <1>8. TakenAsGiven'
    BY <1>1, TakenStays
  <1> QED
    BY <1>5, <1>6, <1>7, <1>8 DEF IInv

\* The invariant holds in every reachable state.
THEOREM PackageInvariant == Spec => []IInv
  <1>1. Init => IInv
    BY InitInv
  <1>2. IInv /\ [Next]_vars => IInv'
    <2>1. ASSUME IInv, UNCHANGED vars
          PROVE  IInv'
      <3>1. TypeOK' /\ Asking'
        BY <2>1 DEF vars, IInv, TypeOK, Asking
      <3>2. Behind'
        BY <2>1 DEF vars, IInv, Behind, End
      <3>3. WholeAnswer'
        BY <2>1 DEF vars, IInv, WholeAnswer, Chomp
      <3>4. TakenAsGiven'
        BY <2>1, TakenStays DEF vars
      <3> QED
        BY <3>1, <3>2, <3>3, <3>4 DEF IInv
    <2> QED
      BY <2>1, AskNext, ArgumentNext, CursorNext DEF Next, Parse, Stay
  <1> QED
    BY <1>1, <1>2, PTL DEF Spec

-----------------------------------------------------------------------------
(* Theorems                                                                *)

\* Every reachable state is well typed.
THEOREM PackageTyped == Spec => []TypeOK
  <1>1. IInv => TypeOK
    BY DEF IInv
  <1> QED
    BY <1>1, PackageInvariant, PTL

\* The cursor of the parser never leaves the string, whatever pkg-config prints.
THEOREM CursorStaysInside == Spec => []CursorInside
  <1>1. IInv => CursorInside
    BY DEF IInv, TypeOK, Behind, CursorInside, End
  <1> QED
    BY <1>1, PackageInvariant, PTL

\* What is parsed is the whole answer, at every size of the buffer.
THEOREM AnswersAreWhole == Spec => []WholeAnswer
  <1>1. IInv => WholeAnswer
    BY DEF IInv
  <1> QED
    BY <1>1, PackageInvariant, PTL

\* Every string taken stands in the answer behind its letter and a dash.
THEOREM StringsAsGiven == Spec => []TakenAsGiven
  <1>1. IInv => TakenAsGiven
    BY DEF IInv
  <1> QED
    BY <1>1, PackageInvariant, PTL
-----------------------------------------------------------------------------
(* Well-formed answers                                                     *)

\* Behind a letter or a dash the cursor is inside the word that began with it; otherwise
\* it is beside a blank or at an end.
AtWord ==
    pc = "parse" =>
        /\ opt # NULL => \E b \in o..Len(answer) : <<o - 2, b>> \in Words
        /\ dash => \E b \in o..Len(answer) : <<o - 1, b>> \in Words
        /\ opt = NULL /\ ~dash => \/ o = 1 \/ o = End
                                  \/ answer[o - 1] \in Blank \/ answer[o] \in Blank

\* The arguments of all the words before the cursor are taken.
Progress ==
    /\ pc = "parse" => \A x \in Letter : ArgumentsBefore(x, o)
    /\ pc = "done" /\ o > 1 => ret = 0 /\ o = End /\ \A x \in Letter : ArgumentsBefore(x, o)

WInv == WellFormed => AtWord /\ Progress

\* The words depend on the answer only.
LEMMA WordsKept ==
    ASSUME answer' = answer
    PROVE  /\ Words' = Words /\ WellFormed' = WellFormed /\ End' = End
           /\ \A x : WordsOf(x)' = WordsOf(x)
  <1>1. Words' = Words
    BY DEF Words, Word
  <1> QED
    BY <1>1 DEF WellFormed, End, WordsOf

\* What a word is.
LEMMA WordIs ==
    ASSUME answer \in Seq(Char), NEW ab \in Words
    PROVE  /\ ab[1] \in 1..Len(answer) /\ ab[2] \in 1..Len(answer) /\ ab[1] <= ab[2]
           /\ ab = <<ab[1], ab[2]>>
           /\ \A j \in ab[1]..ab[2] : answer[j] \notin Blank
           /\ ab[1] = 1 \/ answer[ab[1] - 1] \in Blank
           /\ ab[2] = Len(answer) \/ answer[ab[2] + 1] \in Blank
  BY DEF Words, Word

\* Two words that have a position in common are the same.
LEMMA WordsApart ==
    ASSUME answer \in Seq(Char), NEW v \in Words, NEW w \in Words, NEW p \in Nat,
           v[1] <= p, p <= v[2], w[1] <= p, p <= w[2]
    PROVE  v = w
  <1>1. ASSUME NEW s \in Words, NEW t \in Words, s[1] <= p, p <= s[2], t[1] <= p, p <= t[2]
        PROVE  ~(s[1] < t[1]) /\ ~(t[2] < s[2])
    <2>1. /\ s[1] \in Nat /\ s[2] \in Nat /\ s[1] >= 1 /\ s[2] <= Len(answer)
          /\ \A j \in s[1]..s[2] : answer[j] \notin Blank
      BY WordIs
    <2>2. /\ t[1] \in Nat /\ t[2] \in Nat
          /\ t[1] = 1 \/ answer[t[1] - 1] \in Blank
          /\ t[2] = Len(answer) \/ answer[t[2] + 1] \in Blank
      BY WordIs
    <2>3. ASSUME s[1] < t[1] PROVE FALSE
      <3>1. t[1] # 1 /\ t[1] - 1 \in s[1]..s[2]
        BY <1>1, <2>1, <2>2, <2>3
      <3> QED
        BY <2>1, <2>2, <3>1
    <2>4. ASSUME t[2] < s[2] PROVE FALSE
      <3>1. t[2] # Len(answer) /\ t[2] + 1 \in s[1]..s[2]
        BY <1>1, <2>1, <2>2, <2>4
      <3> QED
        BY <2>1, <2>2, <3>1
    <2> QED
      BY <2>3, <2>4
  <1>2. ~(v[1] < w[1]) /\ ~(w[2] < v[2]) /\ ~(w[1] < v[1]) /\ ~(v[2] < w[2])
    BY <1>1
  <1>3. /\ v[1] \in Nat /\ v[2] \in Nat /\ v = <<v[1], v[2]>>
        /\ w[1] \in Nat /\ w[2] \in Nat /\ w = <<w[1], w[2]>>
    BY WordIs
  <1>4. v[1] = w[1] /\ v[2] = w[2]
    BY <1>2, <1>3
  <1> QED
    BY <1>3, <1>4

\* From a character behind a blank, or the first, a word goes on to the next blank.
LEMMA WordFrom ==
    ASSUME answer \in Seq(Char), NEW a \in 1..Len(answer), answer[a] \notin Blank,
           a = 1 \/ answer[a - 1] \in Blank
    PROVE  \E b \in a..Len(answer) : <<a, b>> \in Words
  <1> DEFINE T == { e \in a..End : e < End => answer[e] \in Blank }
  <1>1. End \in Nat /\ a \in Nat /\ a < End /\ End = Len(answer) + 1
    BY DEF End
  <1>2. T \subseteq Nat /\ End \in T
    BY <1>1
  <1>3. PICK x \in T : \A y \in T : x <= y
    BY <1>2, LeastNumber
  <1>4. x \in Nat /\ x <= End /\ x > a
    BY <1>1, <1>3
  <1>5. \A j \in a..(x - 1) : answer[j] \notin Blank
    <2> SUFFICES ASSUME NEW j \in a..(x - 1)
                 PROVE  answer[j] \notin Blank
      OBVIOUS
    <2>1. j \in Nat /\ j <= End /\ j < x /\ j \in a..End
      BY <1>1, <1>4
    <2>2. j \notin T
      BY <1>3, <1>4, <2>1
    <2> QED
      BY <2>1, <2>2
  <1>6. x - 1 \in a..Len(answer)
    BY <1>1, <1>4
  <1>7. x - 1 = Len(answer) \/ answer[(x - 1) + 1] \in Blank
    BY <1>1, <1>3, <1>4
  <1>8. Word(a, x - 1)
    BY <1>5, <1>7 DEF Word
  <1>9. <<a, x - 1>> \in (1..Len(answer)) \X (1..Len(answer)) /\ a <= x - 1
    BY <1>1, <1>6
  <1>10. <<a, x - 1>> \in Words
    BY <1>8, <1>9 DEF Words
  <1> QED
    BY <1>6, <1>10

\* In a well-formed answer the printable characters end where the word does.
LEMMA StopOfWord ==
    ASSUME answer \in Seq(Char), WellFormed, NEW a, NEW b, <<a, b>> \in Words,
           NEW k \in Nat, a <= k, k <= b
    PROVE  Stop(k) = b + 1 /\ (b + 1 < End => answer[b + 1] \in Blank)
  <1>1. /\ a \in 1..Len(answer) /\ b \in 1..Len(answer)
        /\ b = Len(answer) \/ answer[b + 1] \in Blank
    BY WordIs
  <1>2. \A j \in a..b : answer[j] \in Graph
    BY DEF WellFormed
  <1>3. k \in 1..End /\ End = Len(answer) + 1 /\ End \in Nat
    BY <1>1 DEF End
  <1>4. PICK e : e = Stop(k)
    OBVIOUS
  <1>5. /\ e \in k..End /\ (e < End => answer[e] \notin Graph)
        /\ \A j \in k..(e - 1) : answer[j] \in Graph
    BY <1>3, <1>4, StopsThere
  <1>6. ~(e < b + 1)
    <2>1. e < b + 1 => e \in a..b /\ e < End
      BY <1>1, <1>3, <1>5
    <2> QED
      BY <1>2, <1>5, <2>1
  <1>7. ~(b + 1 < e)
    <2>1. b + 1 < e => b + 1 \in k..(e - 1) /\ b # Len(answer)
      BY <1>1, <1>3, <1>5
    <2>2. Graph \cap Blank = {}
      BY PackageAssumption
    <2> QED
      BY <1>1, <1>5, <2>1, <2>2
  <1>8. e = b + 1
    BY <1>1, <1>3, <1>5, <1>6, <1>7
  <1> QED
    BY <1>1, <1>3, <1>4, <1>8

\* When nothing is taken and no word of an option ends, its arguments stay complete.
LEMMA ArgumentsKept ==
    ASSUME UNCHANGED <<answer, piles>>, NEW x, ArgumentsBefore(x, o), NEW e, e = o',
           \A ab \in WordsOf(x) : ab[2] < o <=> ab[2] < e
    PROVE  ArgumentsBefore(x, o)'
  <1>1. PICK f \in [1..Len(piles[x]) -> WordsOf(x)] : Lists(f, piles[x], x, o)
    BY DEF ArgumentsBefore
  <1>2. PICK q : q = piles[x]
    OBVIOUS
  <1>3. Lists(f, q, x, e)
    BY <1>1, <1>2 DEF Lists
  <1>4. Lists(f, q, x, e)'
    BY <1>3, WordsKept DEF Lists
  <1>5. Lists(f, piles[x], x, o)'
    BY <1>2, <1>4 DEF Lists
  <1>6. [1..Len(piles[x]) -> WordsOf(x)]' = [1..Len(piles[x]) -> WordsOf(x)]
    BY WordsKept
  <1> QED
    BY <1>1, <1>5, <1>6 DEF ArgumentsBefore

\* Letters have nothing to do with dashes, blanks or threads.
LEMMA Apart ==
    /\ Graph \cap Blank = {} /\ Letter \subseteq Graph /\ "-" \in Graph /\ "pthread" \in Graph
    /\ "-" \notin Letter /\ "pthread" \notin Letter
    /\ NULL \notin Letter
  BY PackageAssumption DEF Graph, Char

\* The first word is still to come.
LEMMA WellFormedAsk ==
    ASSUME IInv, WellFormed => AtWord /\ Progress, Ask, IInv'
    PROVE  WInv'
  <1>1. /\ pc \in {"exists", "read"} /\ UNCHANGED <<text, o, dash, opt, piles>>
        /\ o = 1 /\ ~dash /\ opt = NULL /\ \A x \in Letter : piles[x] = <<>>
    BY DEF Ask, Exists, Retrieve, IInv, Asking, cursor
  <1>2. AtWord'
    BY <1>1 DEF AtWord
  <1>3. ASSUME NEW x \in Letter
        PROVE  ArgumentsBefore(x, o)'
    <2>1. PICK f : f = [k \in 1..0 |-> <<>>]
      OBVIOUS
    <2>2. f \in [1..Len(piles'[x]) -> WordsOf(x)'] /\ DOMAIN f = {}
      BY <1>1, <2>1
    <2>3. ASSUME NEW ab \in Words'
          PROVE  ~(ab[2] < 1)
      <3>1. ab[2] \in (1..Len(answer'))
        BY <2>3 DEF Words
      <3> QED
        BY <3>1
    <2>4. \A ab \in WordsOf(x)' : ~(ab[2] < o')
      BY <1>1, <2>3 DEF WordsOf
    <2>5. Lists(f, piles[x], x, o)'
      BY <2>2, <2>4 DEF Lists
    <2> QED
      BY <2>2, <2>5 DEF ArgumentsBefore
  <1>4. o' = 1
    BY <1>1
  <1> QED
    BY <1>2, <1>3, <1>4 DEF WInv, Progress

\* The argument of an option ends where its word does.
LEMMA WellFormedArgument ==
    ASSUME IInv, WellFormed, AtWord, Progress, Argument
    PROVE  AtWord' /\ Progress'
  <1>1. /\ pc = "parse" /\ o < End /\ opt # NULL /\ ~dash
        /\ piles' = [piles EXCEPT ![opt] = Append(@, SubSeq(answer, o, Stop(o) - 1))]
        /\ opt' = NULL /\ UNCHANGED <<text, answer, dash>> /\ StepFrom(Stop(o))
        /\ answer[o - 1] = opt /\ o >= 3
    BY DEF Argument, IInv, Behind
  <1>2. answer \in Seq(Char) /\ opt \in Letter /\ o \in 1..End /\ End = Len(answer) + 1
    BY <1>1 DEF IInv, TypeOK, Behind, End
  <1>3. PICK b \in o..Len(answer) : <<o - 2, b>> \in Words
    BY <1>1 DEF AtWord
  <1>4. Stop(o) = b + 1 /\ (b + 1 < End => answer[b + 1] \in Blank)
    BY <1>2, <1>3, StopOfWord
  <1>5. \/ b + 1 < End /\ o' = b + 2 /\ pc' = "parse"
        \/ b + 1 = End /\ o' = End /\ pc' = "done" /\ ret' = 0
    BY <1>1, <1>2, <1>3, <1>4 DEF StepFrom, Return
  <1>6. AtWord'
    <2>1. b + 1 < End => o' - 1 = b + 1
      BY <1>2, <1>3, <1>5
    <2>2. pc' = "parse" => answer'[o' - 1] \in Blank
      BY <1>1, <1>2, <1>4, <1>5, <2>1
    <2> QED
      BY <1>1, <2>2 DEF AtWord
  <1>7. PICK w : w = <<o - 2, b>>
    OBVIOUS
  <1>8. w \in Words /\ w[1] = o - 2 /\ w[2] = b
    BY <1>3, <1>7
  <1>9. w \in WordsOf(opt)
    <2>1. w[1] + 1 = o - 1
      BY <1>2, <1>8
    <2> QED
      BY <1>1, <1>8, <2>1 DEF WordsOf
  <1>10. ASSUME NEW ab \in Words
         PROVE  ab[2] < o' <=> ab[2] < o \/ ab = w
    <2>1. ab[1] \in 1..Len(answer) /\ ab[2] \in 1..Len(answer) /\ ab[1] <= ab[2]
          /\ \A j \in ab[1]..ab[2] : answer[j] \notin Blank
      BY <1>2, WordIs
    <2>2. ASSUME ab[2] < o', ~(ab[2] < o)
          PROVE  ab = w
      <3>1. ab[2] # b + 1
        BY <1>2, <1>4, <2>1
      <3>2. PICK y \in 1..Len(answer) : y = ab[2]
        BY <2>1
      <3>3. y >= o
        BY <1>2, <2>2, <3>2
      <3>4. y < b + 2
        BY <1>2, <1>3, <1>5, <2>2, <3>2
      <3>5. y <= b
        BY <1>3, <3>1, <3>2, <3>4
      <3>6. w[1] <= y /\ y <= w[2] /\ ab[1] <= y
        BY <1>2, <1>8, <2>1, <3>2, <3>3, <3>5
      <3> QED
        BY <1>2, <1>8, <2>1, <3>2, <3>6, WordsApart
    <2>3. ab = w => ab[2] < o'
      BY <1>2, <1>3, <1>5, <1>8
    <2>4. ab[2] < o => ab[2] < o'
      BY <1>2, <1>3, <1>5, <2>1
    <2> QED
      BY <2>2, <2>3, <2>4
  <1>11. PICK e : e = o'
    OBVIOUS
  <1>12. ASSUME NEW x \in Letter
         PROVE  ArgumentsBefore(x, o)'
    <2>1. PICK f \in [1..Len(piles[x]) -> WordsOf(x)] : Lists(f, piles[x], x, o)
      BY <1>1 DEF Progress, ArgumentsBefore
    <2>2. CASE x # opt
      <3>1. piles'[x] = piles[x]
        BY <1>1, <2>2 DEF IInv, TypeOK
      <3>2. w \notin WordsOf(x)
        <4>1. w[1] + 1 = o - 1
          BY <1>2, <1>8
        <4> QED
          BY <1>1, <2>2, <4>1 DEF WordsOf
      <3>3. \A ab \in WordsOf(x) : ab[2] < o <=> ab[2] < e
        BY <1>10, <1>11, <3>2 DEF WordsOf
      <3>4. PICK q : q = piles[x]
        OBVIOUS
      <3>5. Lists(f, q, x, e)
        BY <2>1, <3>3, <3>4 DEF Lists
      <3>6. Lists(f, q, x, e)'
        BY <1>1, <3>5, WordsKept DEF Lists
      <3>7. Lists(f, piles[x], x, o)'
        BY <1>11, <3>1, <3>4, <3>6 DEF Lists
      <3>8. [1..Len(piles[x]) -> WordsOf(x)]' = [1..Len(piles[x]) -> WordsOf(x)]
        BY <1>1, <3>1, WordsKept
      <3> QED
        BY <3>7, <3>8 DEF ArgumentsBefore
    <2>3. CASE x = opt
      <3>1. PICK n \in Nat : n = Len(piles[x])
        BY DEF IInv, TypeOK
      <3>2. PICK q : q = Append(piles[x], SubSeq(answer, o, b))
        OBVIOUS
      <3>3. piles'[x] = q
        <4>1. Stop(o) - 1 = b
          BY <1>2, <1>3, <1>4
        <4> QED
          BY <1>1, <2>3, <3>2, <4>1 DEF IInv, TypeOK
      <3>4. /\ Len(q) = n + 1 /\ q[n + 1] = SubSeq(answer, o, b)
            /\ \A k \in 1..n : q[k] = piles[x][k]
        <4>1. PICK p, s : p = piles[x] /\ s = SubSeq(answer, o, b)
          OBVIOUS
        <4>2. p \in Seq(Seq(Char))
          BY <4>1 DEF IInv, TypeOK
        <4>3. s \in Seq(Char)
          BY <1>2, <1>3, <4>1
        <4>4. q = Append(p, s) /\ Len(p) = n
          BY <3>1, <3>2, <4>1
        <4>5. Len(q) = n + 1 /\ q[n + 1] = s
          BY <4>2, <4>3, <4>4
        <4>6. \A k \in 1..n : q[k] = p[k]
          BY <4>2, <4>3, <4>4
        <4> QED
          BY <4>1, <4>5, <4>6
      <3>5. PICK h : h = [k \in 1..(n + 1) |-> IF k = n + 1 THEN w ELSE f[k]]
        OBVIOUS
      <3>6. /\ h \in [1..(n + 1) -> WordsOf(x)] /\ h[n + 1] = w
            /\ \A k \in 1..n : h[k] = f[k] /\ f[k] \in WordsOf(x)
        <4>1. f \in [1..n -> WordsOf(x)] /\ w \in WordsOf(x)
          BY <1>9, <2>1, <2>3, <3>1
        <4>2. \A k \in 1..(n + 1) : k = n + 1 \/ k \in 1..n
          BY <3>1
        <4>3. \A k \in 1..n : k \in 1..(n + 1) /\ k # n + 1
          BY <3>1
        <4>4. h \in [1..(n + 1) -> WordsOf(x)]
          BY <3>5, <4>1, <4>2
        <4> QED
          BY <3>1, <3>5, <4>1, <4>3, <4>4
      <3>7. ASSUME NEW k \in 1..n
            PROVE  f[k][1] < w[1]
        <4>1. f[k] \in Words
          BY <3>6 DEF WordsOf
        <4>2. f[k][2] < o
          BY <2>1, <3>1, <3>6 DEF Lists
        <4>3. f[k][1] \in Nat /\ f[k][2] \in Nat /\ f[k][1] <= f[k][2]
          BY <1>2, <4>1, WordIs
        <4>4. f[k] # w
          BY <1>2, <1>3, <1>8, <4>2
        <4>5. ASSUME ~(f[k][1] < w[1]) PROVE FALSE
          <5>1. w[1] <= f[k][1] /\ f[k][1] <= w[2]
            BY <1>2, <1>3, <1>8, <4>2, <4>3, <4>5
          <5> QED
            BY <1>2, <1>8, <4>1, <4>3, <4>4, <5>1, WordsApart
        <4> QED
          BY <4>5
      <3>8. \A k, m \in 1..(n + 1) : k < m => h[k][1] < h[m][1]
        <4> SUFFICES ASSUME NEW k \in 1..(n + 1), NEW m \in 1..(n + 1), k < m
                     PROVE  h[k][1] < h[m][1]
          OBVIOUS
        <4>1. k \in 1..n
          BY <3>1
        <4>2. CASE m = n + 1
          BY <3>6, <3>7, <4>1, <4>2
        <4>3. CASE m # n + 1
          <5>1. m \in 1..n
            BY <3>1, <4>3
          <5>2. f[k][1] < f[m][1]
            BY <2>1, <3>1, <4>1, <5>1 DEF Lists
          <5> QED
            BY <3>6, <4>1, <5>1, <5>2
        <4> QED
          BY <4>2, <4>3
      <3>9. ASSUME NEW ab \in WordsOf(x)
            PROVE  ab[2] < e <=> \E k \in 1..(n + 1) : h[k] = ab
        <4>1. ab[2] < e <=> ab[2] < o \/ ab = w
          BY <1>10, <1>11 DEF WordsOf
        <4>2. ab[2] < o <=> \E k \in 1..n : f[k] = ab
          BY <2>1, <3>1 DEF Lists
        <4>3. (\E k \in 1..(n + 1) : h[k] = ab) <=> (ab = w \/ \E k \in 1..n : f[k] = ab)
          <5>1. \A k \in 1..(n + 1) : k = n + 1 \/ k \in 1..n
            BY <3>1
          <5>2. n + 1 \in 1..(n + 1) /\ \A k \in 1..n : k \in 1..(n + 1)
            BY <3>1
          <5> QED
            BY <3>6, <5>1, <5>2
        <4> QED
          BY <4>1, <4>2, <4>3
      <3>10. \A k \in 1..(n + 1) : q[k] = SubSeq(answer, h[k][1] + 2, h[k][2])
        <4> SUFFICES ASSUME NEW k \in 1..(n + 1)
                     PROVE  q[k] = SubSeq(answer, h[k][1] + 2, h[k][2])
          OBVIOUS
        <4>1. CASE k = n + 1
          <5>1. w[1] + 2 = o
            BY <1>2, <1>8
          <5> QED
            BY <1>8, <3>4, <3>6, <4>1, <5>1
        <4>2. CASE k # n + 1
          <5>1. k \in 1..n
            BY <3>1, <4>2
          <5>2. piles[x][k] = SubSeq(answer, f[k][1] + 2, f[k][2])
            BY <2>1, <3>1, <5>1 DEF Lists
          <5> QED
            BY <3>4, <3>6, <5>1, <5>2
        <4> QED
          BY <4>1, <4>2
      <3>11. Lists(h, q, x, e)
        <4>1. DOMAIN h = 1..(n + 1)
          BY <3>5
        <4> QED
          BY <3>8, <3>9, <3>10, <4>1 DEF Lists
      <3>12. Lists(h, q, x, e)'
        BY <1>1, <3>11, WordsKept DEF Lists
      <3>13. Lists(h, piles[x], x, o)'
        BY <1>11, <3>3, <3>12 DEF Lists
      <3>14. [1..Len(piles[x]) -> WordsOf(x)]' = [1..(n + 1) -> WordsOf(x)]
        BY <1>1, <3>3, <3>4, WordsKept
      <3> QED
        BY <3>6, <3>13, <3>14 DEF ArgumentsBefore
    <2> QED
      BY <2>2, <2>3
  <1>13. Progress'
    BY <1>1, <1>5, <1>12, WordsKept DEF Progress
  <1> QED
    BY <1>6, <1>13

\* A step that moves the cursor over one character that ends no word of an option.
LEMMA OneOver ==
    ASSUME IInv, Progress, pc = "parse", UNCHANGED <<text, answer, piles>>, o' = o + 1,
           pc' = "parse", \A x \in Letter : \A ab \in WordsOf(x) : ab[2] # o
    PROVE  Progress'
  <1>1. o \in Nat /\ answer \in Seq(Char)
    BY DEF IInv, TypeOK
  <1>2. ASSUME NEW x \in Letter
        PROVE  ArgumentsBefore(x, o)'
    <2>1. PICK e : e = o'
      OBVIOUS
    <2>2. ASSUME NEW ab \in WordsOf(x)
          PROVE  ab[2] < o <=> ab[2] < e
      <3>1. ab[2] \in Nat /\ ab[2] # o
        BY <1>1, WordIs DEF WordsOf
      <3> QED
        BY <1>1, <2>1, <3>1
    <2> QED
      BY <2>1, <2>2, ArgumentsKept DEF Progress
  <1> QED
    BY <1>2 DEF Progress

\* In a well-formed answer the next option is taken, or skipped as a whole.
LEMMA WellFormedOption ==
    ASSUME IInv, WellFormed, AtWord, Progress, OptionLetter \/ OptionThread \/ OptionUnknown
    PROVE  AtWord' /\ Progress'
  <1>1. /\ pc = "parse" /\ dash /\ opt = NULL /\ o < End /\ UNCHANGED <<text, answer, piles>>
        /\ dash' = FALSE
    BY DEF OptionLetter, OptionThread, OptionUnknown, BehindDash, At
  <1>2. /\ answer \in Seq(Char) /\ o \in 1..End /\ End = Len(answer) + 1 /\ Len(answer) \in Nat
        /\ o >= 2
    BY <1>1 DEF IInv, TypeOK, Behind, End
  <1>3. PICK b \in o..Len(answer) : <<o - 1, b>> \in Words
    BY <1>1 DEF AtWord
  <1>4. PICK w : w = <<o - 1, b>>
    OBVIOUS
  <1>5. w \in Words /\ w[1] = o - 1 /\ w[2] = b /\ w[1] + 1 = o
    BY <1>2, <1>3, <1>4
  <1>6. /\ answer[o] \in Letter => b > o
        /\ answer[o] = "pthread" => b = o
        /\ answer[o] \in Graph
    BY <1>2, <1>3, <1>5 DEF WellFormed
  <1>7. ASSUME NEW ab \in Words, ab[2] >= o, ab[2] <= b
        PROVE  ab = w
    <2>1. ab[1] \in Nat /\ ab[2] \in Nat /\ ab[1] <= ab[2]
      BY <1>2, WordIs
    <2>2. w[1] <= ab[2] /\ ab[2] <= w[2]
      BY <1>2, <1>5, <1>7, <2>1
    <2> QED
      BY <1>2, <1>5, <2>1, <2>2, WordsApart
  <1>8. CASE OptionLetter
    <2>1. /\ answer[o] \in Letter /\ opt' = answer[o] /\ o' = o + 1 /\ pc' = "parse"
      BY <1>1, <1>8 DEF OptionLetter, At, StepFrom
    <2>2. o' - 2 = o - 1 /\ b \in o'..Len(answer)
      BY <1>2, <1>3, <1>6, <2>1
    <2>3. Words' = Words
      BY <1>1, WordsKept
    <2>4. opt' # NULL
      BY <2>1, Apart
    <2>5. AtWord'
      BY <1>1, <1>3, <2>2, <2>3, <2>4 DEF AtWord
    <2>6. ASSUME NEW x \in Letter, NEW ab \in WordsOf(x), ab[2] = o
          PROVE  FALSE
      <3>1. ab = w
        BY <1>2, <1>3, <1>7, <2>6 DEF WordsOf
      <3> QED
        BY <1>2, <1>5, <1>6, <2>1, <2>6, <3>1
    <2> QED
      BY <1>1, <2>1, <2>5, <2>6, OneOver
  <1>9. CASE OptionThread
    <2>1. answer[o] = "pthread" /\ opt' = opt /\ o' = o + 1 /\ pc' = "parse"
      BY <1>1, <1>9 DEF OptionThread, At, StepFrom
    <2>2. b = o
      BY <1>6, <2>1
    <2>3. o = Len(answer) \/ answer[o + 1] \in Blank
      BY <1>2, <1>5, <2>2, WordIs
    <2>4. AtWord'
      <3>1. End' = End
        BY <1>1, WordsKept
      <3>2. o = Len(answer) => o' = End
        BY <1>2, <2>1
      <3>3. o' = End' \/ answer'[o'] \in Blank
        BY <1>1, <2>1, <2>3, <3>1, <3>2
      <3> QED
        BY <1>1, <2>1, <3>3 DEF AtWord
    <2>5. ASSUME NEW x \in Letter, NEW ab \in WordsOf(x), ab[2] = o
          PROVE  FALSE
      <3>1. ab = w
        BY <1>2, <1>3, <1>7, <2>5 DEF WordsOf
      <3>2. answer[o] = x
        BY <1>5, <3>1 DEF WordsOf
      <3> QED
        BY <2>1, <3>2, Apart
    <2> QED
      BY <1>1, <2>1, <2>4, <2>5, OneOver
  <1>10. CASE OptionUnknown
    <2>1. answer[o] \notin Letter /\ opt' = opt /\ StepFrom(Stop(o))
      BY <1>10 DEF OptionUnknown, At
    <2>2. Stop(o) = b + 1 /\ (b + 1 < End => answer[b + 1] \in Blank)
      BY <1>2, <1>3, StopOfWord
    <2>3. \/ b + 1 < End /\ o' = b + 2 /\ pc' = "parse"
          \/ b + 1 = End /\ o' = End /\ pc' = "done" /\ ret' = 0
      BY <1>1, <1>2, <1>3, <2>1, <2>2 DEF StepFrom, Return
    <2>4. AtWord'
      <3>1. b + 1 < End => o' - 1 = b + 1
        BY <1>2, <1>3, <2>3
      <3>2. pc' = "parse" => answer'[o' - 1] \in Blank
        BY <1>1, <1>2, <2>2, <2>3, <3>1
      <3> QED
        BY <1>1, <2>1, <3>2 DEF AtWord
    <2>5. PICK e : e = o'
      OBVIOUS
    <2>6. ASSUME NEW x \in Letter, NEW ab \in WordsOf(x)
          PROVE  ab[2] < o <=> ab[2] < e
      <3>1. /\ ab \in Words /\ ab[1] \in 1..Len(answer) /\ ab[2] \in 1..Len(answer)
            /\ ab[1] <= ab[2] /\ \A j \in ab[1]..ab[2] : answer[j] \notin Blank
        BY <1>2, WordIs DEF WordsOf
      <3>2. ab # w
        BY <1>5, <2>1 DEF WordsOf
      <3>3. ab[2] # b + 1
        BY <1>2, <2>2, <3>1
      <3>4. ~(ab[2] >= o /\ ab[2] <= b)
        BY <1>7, <3>1, <3>2
      <3>5. PICK y \in 1..Len(answer) : y = ab[2]
        BY <3>1
      <3>6. CASE e = b + 2
        BY <1>2, <1>3, <3>3, <3>4, <3>5, <3>6
      <3>7. CASE e = End /\ b + 1 = End
        BY <1>2, <1>3, <3>4, <3>5, <3>7
      <3> QED
        BY <2>3, <2>5, <3>6, <3>7
    <2>7. \A x \in Letter : ArgumentsBefore(x, o)'
      BY <1>1, <2>5, <2>6, ArgumentsKept DEF Progress
    <2>8. End' = End
      BY <1>1, WordsKept
    <2>9. Progress'
      BY <2>3, <2>7, <2>8 DEF Progress
    <2> QED
      BY <2>4, <2>9
  <1> QED
    BY <1>8, <1>9, <1>10

\* Between options there are blanks, and a dash begins a word.
LEMMA WellFormedBetween ==
    ASSUME IInv, WellFormed, AtWord, Progress, Dash \/ Space \/ Invalid \/ ParseEnd
    PROVE  AtWord' /\ Progress'
  <1>1. pc = "parse" /\ UNCHANGED <<text, answer, piles>>
    BY DEF Dash, Space, Invalid, ParseEnd, Between
  <1>2. /\ answer \in Seq(Char) /\ o \in 1..End /\ End = Len(answer) + 1 /\ Len(answer) \in Nat
        /\ o < End => o \in 1..Len(answer)
    BY <1>1 DEF IInv, TypeOK, Behind, End
  <1>3. ASSUME opt = NULL, ~dash, o < End, answer[o] \notin Blank
        PROVE  \E b \in o..Len(answer) : <<o, b>> \in Words
    <2>1. o = 1 \/ answer[o - 1] \in Blank
      <3>1. o # End
        BY <1>2, <1>3
      <3> QED
        BY <1>1, <1>3, <3>1 DEF AtWord
    <2> QED
      BY <1>2, <1>3, <2>1, WordFrom
  <1>4. CASE Dash
    <2>1. /\ opt = NULL /\ ~dash /\ o < End /\ answer[o] = "-" /\ dash' = TRUE /\ opt' = NULL
          /\ o' = o + 1 /\ pc' = "parse"
      BY <1>1, <1>4 DEF Dash, Between, At, StepFrom
    <2>2. answer[o] \notin Blank
      BY <2>1, Apart
    <2>3. PICK b \in o..Len(answer) : <<o, b>> \in Words
      BY <1>3, <2>1, <2>2
    <2>4. PICK w : w = <<o, b>>
      OBVIOUS
    <2>5. w \in Words /\ w[1] = o /\ w[2] = b
      BY <2>3, <2>4
    <2>6. b > o
      BY <2>5 DEF WellFormed
    <2>7. AtWord'
      <3>1. Words' = Words
        BY <1>1, WordsKept
      <3>2. o' - 1 = o /\ b \in o'..Len(answer)
        BY <1>2, <2>1, <2>3, <2>6
      <3> QED
        BY <1>1, <2>1, <2>3, <3>1, <3>2 DEF AtWord
    <2>8. ASSUME NEW x \in Letter, NEW ab \in WordsOf(x), ab[2] = o
          PROVE  FALSE
      <3>1. ab \in Words /\ ab[1] \in Nat /\ ab[1] <= ab[2]
        BY <1>2, WordIs DEF WordsOf
      <3>2. ab = w
        BY <1>2, <2>3, <2>5, <2>8, <3>1, WordsApart
      <3> QED
        BY <1>2, <2>5, <2>6, <2>8, <3>2
    <2> QED
      BY <1>1, <2>1, <2>7, <2>8, OneOver
  <1>5. CASE Space
    <2>1. /\ opt' = NULL /\ ~dash' /\ o < End /\ answer[o] \in Blank
          /\ o' = o + 1 /\ pc' = "parse"
      BY <1>1, <1>5 DEF Space, Between, At, StepFrom
    <2>2. o' - 1 = o
      BY <1>2, <2>1
    <2>3. AtWord'
      BY <1>1, <2>1, <2>2 DEF AtWord
    <2>4. ASSUME NEW x \in Letter, NEW ab \in WordsOf(x), ab[2] = o
          PROVE  FALSE
      <3>1. /\ ab[1] \in Nat /\ ab[2] \in Nat /\ ab[1] <= ab[2]
            /\ \A j \in ab[1]..ab[2] : answer[j] \notin Blank
        BY <1>2, WordIs DEF WordsOf
      <3> QED
        BY <2>1, <2>4, <3>1
    <2> QED
      BY <1>1, <2>1, <2>3, <2>4, OneOver
  <1>6. CASE Invalid
    <2>1. opt = NULL /\ ~dash /\ o < End /\ answer[o] \notin Blank /\ answer[o] # "-"
      BY <1>6 DEF Invalid, Between, At
    <2>2. PICK b \in o..Len(answer) : <<o, b>> \in Words
      BY <1>3, <2>1
    <2>3. answer[o] = "-"
      BY <2>2 DEF WellFormed
    <2> QED
      BY <2>1, <2>3
  <1>7. CASE ParseEnd
    <2>1. o = End /\ o' = o /\ pc' = "done" /\ ret' = 0
      BY <1>7 DEF ParseEnd, Return, cursor
    <2>2. End' = End
      BY <1>1, WordsKept
    <2>3. PICK e : e = o'
      OBVIOUS
    <2>4. \A x \in Letter : ArgumentsBefore(x, o)'
      BY <1>1, <2>1, <2>3, ArgumentsKept DEF Progress
    <2> QED
      BY <2>1, <2>2, <2>4 DEF AtWord, Progress
  <1> QED
    BY <1>4, <1>5, <1>6, <1>7

\* The well-formed answers are parsed completely, word by word.
THEOREM WordsInvariant == Spec => []WInv
  <1>1. Init => WInv
    <2> SUFFICES ASSUME Init
                 PROVE  WInv
      OBVIOUS
    <2> QED
      BY DEF Init, WInv, AtWord, Progress
  <1>2. IInv /\ IInv' /\ WInv /\ [Next]_vars => WInv'
    <2> SUFFICES ASSUME IInv, IInv', WInv, [Next]_vars
                 PROVE  WInv'
      OBVIOUS
    <2>1. CASE Ask
      BY <2>1, WellFormedAsk DEF WInv
    <2>2. CASE Parse
      <3>1. answer' = answer
        BY <2>2 DEF Parse, ParseEnd, Argument, OptionLetter, OptionThread, OptionUnknown, Dash,
                    Space, Invalid
      <3>2. WellFormed' = WellFormed
        BY <3>1, WordsKept
      <3> QED
        BY <2>2, <3>2, WellFormedArgument, WellFormedOption, WellFormedBetween
        DEF Parse, WInv
    <2>3. CASE UNCHANGED vars
      <3>1. UNCHANGED <<pc, ret, answer, o, dash, opt, piles>>
        BY <2>3 DEF vars
      <3>2. /\ WellFormed' = WellFormed /\ Words' = Words /\ End' = End
        BY <3>1, WordsKept
      <3>3. AtWord => AtWord'
        BY <3>1, <3>2 DEF AtWord
      <3>4. PICK e : e = o'
        OBVIOUS
      <3>5. \A x \in Letter : ArgumentsBefore(x, o) => ArgumentsBefore(x, o)'
        BY <3>1, <3>4, ArgumentsKept
      <3>6. Progress => Progress'
        BY <3>1, <3>2, <3>5 DEF Progress
      <3> QED
        BY <3>2, <3>3, <3>6 DEF WInv
    <2> QED
      BY <2>1, <2>2, <2>3 DEF Next, Stay
  <1> QED
    BY <1>1, <1>2, PackageInvariant, PTL DEF Spec

\* From a well-formed answer every option with an argument is taken, once, in its order,
\* and with the whole of its argument.
THEOREM EveryOptionTaken == Spec => []OptionsTaken
  <1>1. WInv => OptionsTaken
    BY DEF WInv, Progress, OptionsTaken
  <1> QED
    BY <1>1, WordsInvariant, PTL

-----------------------------------------------------------------------------
(* The loop ends                                                           *)

\* Every turn of the loop takes the cursor forward along one answer, or is the last.
\* The cursor stays inside, so the answer bounds the number of turns.
THEOREM ParserAdvances == Spec => CursorAdvances
  <1> DEFINE A == Parse => answer' = answer /\ (o < o' \/ pc' = "done")
  <1>1. ASSUME IInv, Parse
        PROVE  answer' = answer /\ (o < o' \/ pc' = "done")
    <2>1. pc = "parse" /\ answer' = answer
      BY <1>1 DEF Parse, ParseEnd, Argument, OptionLetter, OptionThread, OptionUnknown, BehindDash,
                  Dash, Space, Invalid, Between
    <2>2. answer \in Seq(Char) /\ o \in 1..End /\ End \in Nat
      BY <1>1, <2>1 DEF IInv, TypeOK, Behind, End
    <2>3. Stop(o) \in o..End
      BY <2>2, StopsThere
    <2>4. ASSUME NEW e \in o..End, StepFrom(e)
          PROVE  o < o' \/ pc' = "done"
      BY <2>2, <2>4 DEF StepFrom, Return
    <2>5. CASE Argument \/ OptionUnknown
      BY <2>3, <2>4, <2>5 DEF Argument, OptionUnknown
    <2>6. CASE OptionLetter \/ OptionThread \/ Dash \/ Space
      <3>1. o \in o..End
        BY <2>2
      <3> QED
        BY <2>4, <2>6, <3>1 DEF OptionLetter, OptionThread, Dash, Space
    <2>7. CASE ParseEnd \/ Invalid
      BY <2>7 DEF ParseEnd, Invalid, Return
    <2> QED
      BY <1>1, <2>1, <2>5, <2>6, <2>7 DEF Parse
  <1>2. IInv /\ [Next]_vars => [A]_vars
    BY <1>1
  <1> QED
    BY <1>2, PackageInvariant, PTL DEF Spec, CursorAdvances
=============================================================================
