-------------------------- MODULE CplrGenerateProofs --------------------------
(***************************************************************************)
(* The theorems that every fragment is attributed to its own label and     *)
(* line, that the unit is determined by the piles, and that the dump shows *)
(* it, for any piles and any use of the generator in a session.            *)
(*                                                                         *)
(* A missing directive does harm only when a piece goes on in the file of  *)
(* the piece before it.  What the generator relies on, without saying so,  *)
(* is that the labels of a unit are all different, and that the label of   *)
(* the unit before has been forgotten.                                     *)
(***************************************************************************)
EXTENDS CplrGenerate, Integers, SequenceTheorems, TLAPS

\* All that was emitted is attributed rightly.
Right(e) == \A m \in e.marks : m.at = m.own

\* The label left behind is none, that of main, or one that has been used up.
UsedUp(s, n) ==
    \/ s < sect
    \/ s = sect /\ IF Section[s].name = "after" THEN n > Len(Content) - i ELSE n < i

Behind ==
    \/ g.file = NoFile
    \/ g.file = Internal /\ g.line = 187 /\ sect > Main
    \/ \E s \in 1..Done, n \in Int : g.file = <<Section[s].name, n>> /\ UsedUp(s, n)

\* The unit up to a section.
Before3(l)  == SectionCode(Section[1], l) \o SectionCode(Section[2], l)
Before4(l)  == Before3(l) \o SectionCode(Section[3], l)
Before5(l)  == Before4(l) \o SectionCode(Section[4], l)
Before6(l)  == Before5(l) \o SectionCode(Section[5], l)
Before7(l)  == Before6(l) \o SectionCode(Section[6], l)
Before8(l)  == Before7(l) \o MainCode(l)
Before9(l)  == Before8(l) \o SectionCode(Section[8], l)
Before10(l) == Before9(l) \o SectionCode(Section[9], l)

Before(s, l) ==
    CASE s = 1 -> <<>>
      [] s = 2 -> SectionCode(Section[1], l)
      [] s = 3 -> Before3(l)
      [] s = 4 -> Before4(l)
      [] s = 5 -> Before5(l)
      [] s = 6 -> Before6(l)
      [] s = 7 -> Before7(l)
      [] s = 8 -> Before8(l)
      [] s = 9 -> Before9(l)
      [] s = 10 -> Before10(l)
      [] OTHER -> Before10(l) \o SectionCode(Section[10], l)

\* What is emitted when n items of section s are.
Printed(s, n, l) == IF n = 0 THEN Before(s, l) ELSE Before(s, l) \o Opening(Section[s], n, l)

\* The dump shows directives.
Shows == dump > 1

\* The code, and the dump if there is one.
Carries(e, u, v) == e.code = u /\ e.dump = IF dump = 0 THEN <<>> ELSE v

Complete ==
    /\ pc = "emit" => /\ shown = 0
                      /\ i # 0 => sect \notin {Main, Done} /\ i < Len(Content)
                      /\ Carries(g, Printed(sect, i, TRUE), Printed(sect, i, Shows))
    /\ pc = "show" => Carries(g, Unit(TRUE), Unit(Shows))

IInv ==
    /\ TypeOK
    /\ Right(g)
    /\ pc = "idle" => g.file = NoFile
    /\ pc = "emit" => Behind
    /\ Complete

-----------------------------------------------------------------------------
(* Sections and labels                                                     *)

\* Every section but main and done has a pile.
LEMMA SectionPile ==
    ASSUME NEW s \in 1..Done, s \notin {Main, Done}
    PROVE  Section[s].pile \in Pile
  <1>1. s \in {1, 2, 3, 4, 5, 6, 8, 9, 10}
    BY DEF Main, Done
  <1> QED
    BY <1>1 DEF Section, Pile

\* The position of a name among the sections.
Position == [ n \in {"defsysinclude", "sysinclude", "include", "declarations", "definition",
                     "toplevel", "main", "before", "statements", "after", "done"} |->
                CASE n = "defsysinclude" -> 1 [] n = "sysinclude" -> 2 [] n = "include" -> 3
                  [] n = "declarations" -> 4 [] n = "definition" -> 5 [] n = "toplevel" -> 6
                  [] n = "main" -> 7 [] n = "before" -> 8 [] n = "statements" -> 9
                  [] n = "after" -> 10 [] OTHER -> 11 ]

\* The names of the sections are all different, and none is that of the program.
LEMMA SectionName ==
    ASSUME NEW s \in 1..Done
    PROVE  Position[Section[s].name] = s /\ Section[s].name # "internal"
  <1>1. s \in {1, 2, 3, 4, 5, 6, 7, 8, 9, 10, 11}
    BY DEF Done
  <1>2. CASE s \in {1, 2, 3}
    BY <1>2 DEF Section, Position
  <1>3. CASE s \in {4, 5, 6}
    BY <1>3 DEF Section, Position
  <1>4. CASE s \in {7, 8, 9}
    BY <1>4 DEF Section, Position
  <1>5. CASE s \in {10, 11}
    BY <1>5 DEF Section, Position
  <1> QED
    BY <1>1, <1>2, <1>3, <1>4, <1>5

\* They are the titles of a unit.
LEMMA SectionTitle ==
    ASSUME NEW s \in 1..Done
    PROVE  Section[s].name \in Title /\ Comment(Section[s].name) \in Piece
  <1>1. Section[s].name \in Title
    BY DEF Title
  <1> QED
    BY <1>1 DEF Comment, Piece

\* Two labels are the same only if section and number are; no label is the empty one
\* or that of the program.
LEMMA Labels ==
    ASSUME NEW s \in 1..Done, NEW t \in 1..Done, NEW m, NEW n
    PROVE  /\ <<Section[s].name, m>> = <<Section[t].name, n>> => s = t /\ m = n
           /\ <<Section[s].name, m>> # NoFile
           /\ <<Section[s].name, m>> # Internal
  <1>1. Section[s].name = Section[t].name => s = t
    BY SectionName
  <1>2. Section[s].name # "internal"
    BY SectionName
  <1> QED
    BY <1>1, <1>2 DEF NoFile, Internal

-----------------------------------------------------------------------------
(* The unit                                                                *)

\* A directive, if they are printed, and the piece under it.
Labelled(l, d, p) == IF l THEN <<d, p>> ELSE <<p>>

\* What a section consists of are pieces.
LEMMA PartTyped ==
    ASSUME TypeOK, NEW s \in 1..Done, s \notin {Main, Done},
           NEW k \in 1..Len(piles[Section[s].pile])
    PROVE  /\ Part(Section[s], k).text \in Text /\ Part(Section[s], k).label \in File
           /\ Placed(Section[s], k) \in Piece /\ Body(Section[s], k) \in Piece
  <1>1. piles[Section[s].pile] \in Seq(Text)
    BY SectionPile DEF TypeOK
  <1>2. Section[s].name \in Title
    BY SectionTitle
  <1>3. DEFINE c == piles[Section[s].pile]
               j == IF Section[s].name = "after" THEN Len(c) + 1 - k ELSE k
               m == IF Section[s].name = "after" THEN j ELSE k - 1
  <1>4. j \in 1..Len(c) /\ m \in Nat
    BY <1>1
  <1>5. c[j] \in Text
    BY <1>1, <1>4
  <1>6. Part(Section[s], k).text = c[j] /\ Part(Section[s], k).label = <<Section[s].name, m>>
    BY DEF Part
  <1>7. Part(Section[s], k).text \in Text /\ Part(Section[s], k).label \in File
    BY <1>2, <1>4, <1>5, <1>6 DEF File
  <1>8. Placed(Section[s], k) \in Piece
    BY <1>7 DEF Placed, Directive, Piece
  <1>9. Body(Section[s], k) \in Piece
    BY <1>7, GenerateAssumption DEF Body, Fragment, Piece
  <1> QED
    BY <1>7, <1>8, <1>9

\* A section begins with its name.
LEMMA OpeningTyped ==
    ASSUME TypeOK, NEW s \in 1..Done, s \notin {Main, Done}, NEW l \in BOOLEAN,
           NEW n \in 0..Len(piles[Section[s].pile])
    PROVE  /\ Opening(Section[s], n, l) \in Seq(Piece)
           /\ Len(Opening(Section[s], n, l)) = IF l THEN 2 * n + 1 ELSE n + 1
  <1> DEFINE len == IF l THEN 2 * n + 1 ELSE n + 1
  <1>1. /\ len \in Nat
        /\ Opening(Section[s], n, l) = [k \in 1..len |-> Opening(Section[s], n, l)[k]]
    <2>1. CASE l
      BY <2>1 DEF Opening
    <2>2. CASE ~l
      BY <2>2 DEF Opening
    <2> QED
      BY <2>1, <2>2
  <1>2. Comment(Section[s].name) \in Piece
    BY SectionTitle
  <1>3. ASSUME NEW k \in 1..len
        PROVE  Opening(Section[s], n, l)[k] \in Piece
    <2>1. CASE k = 1
      BY <1>2, <2>1 DEF Opening
    <2>2. CASE k # 1 /\ l /\ k % 2 = 0
      <3>1. k \div 2 \in 1..Len(piles[Section[s].pile])
        BY <2>2
      <3> QED
        BY <2>2, <3>1, PartTyped DEF Opening
    <2>3. CASE k # 1 /\ l /\ k % 2 # 0
      <3>1. k \div 2 \in 1..Len(piles[Section[s].pile])
        BY <2>3
      <3> QED
        BY <2>3, <3>1, PartTyped DEF Opening
    <2>4. CASE k # 1 /\ ~l
      <3>1. k - 1 \in 1..Len(piles[Section[s].pile])
        BY <2>4
      <3> QED
        BY <2>4, <3>1, PartTyped DEF Opening
    <2> QED
      BY <2>1, <2>2, <2>3, <2>4
  <1> HIDE DEF len
  <1>4. Opening(Section[s], n, l) \in [1..len -> Piece]
    BY <1>1, <1>3
  <1>5. \A o \in [1..len -> Piece] : o \in Seq(Piece) /\ Len(o) = len
    BY <1>1
  <1> QED
    BY <1>4, <1>5 DEF len

\* Without fragments there is only the name.
LEMMA OpeningNone ==
    ASSUME TypeOK, NEW s \in 1..Done, s \notin {Main, Done}, NEW l \in BOOLEAN
    PROVE  Opening(Section[s], 0, l) = <<Comment(Section[s].name)>>
  <1>1. piles[Section[s].pile] \in Seq(Text)
    BY SectionPile DEF TypeOK
  <1>2. 0 \in 0..Len(piles[Section[s].pile]) /\ 2 * 0 + 1 = 1 /\ 0 + 1 = 1
    BY <1>1
  <1>3. Opening(Section[s], 0, l) \in Seq(Piece) /\ Len(Opening(Section[s], 0, l)) = 1
    BY <1>2, OpeningTyped
  <1>4. Opening(Section[s], 0, l)[1] = Comment(Section[s].name)
    BY DEF Opening
  <1> QED
    BY <1>3, <1>4

\* One fragment more.
LEMMA OpeningNext ==
    ASSUME TypeOK, NEW s \in 1..Done, s \notin {Main, Done}, NEW l \in BOOLEAN,
           NEW n \in Nat, n < Len(piles[Section[s].pile])
    PROVE  Opening(Section[s], n + 1, l)
             = Opening(Section[s], n, l)
               \o Labelled(l, Placed(Section[s], n + 1), Body(Section[s], n + 1))
  <1> DEFINE a == Opening(Section[s], n, l)
             b == Labelled(l, Placed(Section[s], n + 1), Body(Section[s], n + 1))
             c == Opening(Section[s], n + 1, l)
  <1>1. piles[Section[s].pile] \in Seq(Text)
    BY SectionPile DEF TypeOK
  <1>2. n \in 0..Len(piles[Section[s].pile]) /\ n + 1 \in 1..Len(piles[Section[s].pile])
    BY <1>1
  <1>3. a \in Seq(Piece) /\ Len(a) = (IF l THEN 2 * n + 1 ELSE n + 1)
    BY <1>2, OpeningTyped
  <1>4. c \in Seq(Piece) /\ Len(c) = (IF l THEN 2 * n + 3 ELSE n + 2)
    BY <1>2, OpeningTyped
  <1>5. Placed(Section[s], n + 1) \in Piece /\ Body(Section[s], n + 1) \in Piece
    BY <1>2, PartTyped
  <1>6. b \in Seq(Piece) /\ Len(b) = IF l THEN 2 ELSE 1
    BY <1>5 DEF Labelled
  <1>7. /\ a \o b \in Seq(Piece) /\ Len(a \o b) = Len(a) + Len(b)
        /\ \A k \in 1..Len(a) + Len(b) :
              (a \o b)[k] = IF k <= Len(a) THEN a[k] ELSE b[k - Len(a)]
    <2> HIDE DEF a, b, c
    <2> QED
      BY <1>3, <1>6, ConcatProperties
  <1>8. Len(a) + Len(b) = Len(c)
    BY <1>2, <1>3, <1>4, <1>6
  <1>9. ASSUME NEW k \in 1..Len(c)
        PROVE  c[k] = (a \o b)[k]
    <2>1. CASE k <= Len(a)
      <3>1. (a \o b)[k] = a[k]
        BY <1>7, <1>8, <1>9, <2>1
      <3>2. c[k] = a[k]
        <4>1. CASE l
          BY <1>2, <1>3, <1>4, <1>9, <2>1, <4>1 DEF Opening
        <4>2. CASE ~l
          BY <1>2, <1>3, <1>4, <1>9, <2>1, <4>2 DEF Opening
        <4> QED
          BY <4>1, <4>2
      <3> QED
        BY <3>1, <3>2
    <2>2. CASE l /\ k = 2 * n + 2
      <3>1. c[k] = Placed(Section[s], n + 1)
        <4>1. k # 1 /\ k % 2 = 0 /\ k \div 2 = n + 1 /\ k \in 1..(2 * (n + 1) + 1)
          BY <2>2
        <4> QED
          BY <2>2, <4>1 DEF Opening
      <3>2. k \in 1..Len(a) + Len(b) /\ ~(k <= Len(a)) /\ k - Len(a) = 1
        <4> HIDE DEF a, b
        <4> QED
          BY <1>3, <1>6, <2>2
      <3>3. (a \o b)[k] = b[1]
        <4> HIDE DEF a, b
        <4> QED
          BY <1>7, <3>2
      <3>4. b[1] = Placed(Section[s], n + 1)
        BY <2>2 DEF Labelled
      <3> QED
        BY <3>1, <3>3, <3>4
    <2>3. CASE l /\ k = 2 * n + 3
      <3>1. c[k] = Body(Section[s], n + 1)
        <4>1. k # 1 /\ k % 2 # 0 /\ k \div 2 = n + 1 /\ k \in 1..(2 * (n + 1) + 1)
          BY <2>3
        <4> QED
          BY <2>3, <4>1 DEF Opening
      <3>2. k \in 1..Len(a) + Len(b) /\ ~(k <= Len(a)) /\ k - Len(a) = 2
        <4> HIDE DEF a, b
        <4> QED
          BY <1>3, <1>6, <2>3
      <3>3. (a \o b)[k] = b[2]
        <4> HIDE DEF a, b
        <4> QED
          BY <1>7, <3>2
      <3>4. b[2] = Body(Section[s], n + 1)
        BY <2>3 DEF Labelled
      <3> QED
        BY <3>1, <3>3, <3>4
    <2>4. CASE ~l /\ k = n + 2
      <3>1. c[k] = Body(Section[s], n + 1)
        <4>1. k # 1 /\ k - 1 = n + 1 /\ k \in 1..(n + 1 + 1)
          BY <2>4
        <4> QED
          BY <2>4, <4>1 DEF Opening
      <3>2. k \in 1..Len(a) + Len(b) /\ ~(k <= Len(a)) /\ k - Len(a) = 1
        <4> HIDE DEF a, b
        <4> QED
          BY <1>3, <1>6, <2>4
      <3>3. (a \o b)[k] = b[1]
        <4> HIDE DEF a, b
        <4> QED
          BY <1>7, <3>2
      <3>4. b[1] = Body(Section[s], n + 1)
        BY <2>4 DEF Labelled
      <3> QED
        BY <3>1, <3>3, <3>4
    <2>5. k <= Len(a) \/ (l /\ k = 2 * n + 2) \/ (l /\ k = 2 * n + 3) \/ (~l /\ k = n + 2)
      <3> HIDE DEF a, b, c
      <3> QED
        BY <1>3, <1>4, <1>9
    <2> QED
      BY <2>1, <2>2, <2>3, <2>4, <2>5
  <1> HIDE DEF a, b, c
  <1>10. a \o b = c
    BY <1>4, <1>7, <1>8, <1>9, SeqEqual
  <1> QED
    BY <1>10 DEF a, b, c

\* The sections are sequences of pieces.
LEMMA SectionTyped ==
    ASSUME TypeOK, NEW s \in 1..Done, s \notin {Main, Done}, NEW l \in BOOLEAN
    PROVE  SectionCode(Section[s], l) \in Seq(Piece)
  <1>1. piles[Section[s].pile] \in Seq(Text)
    BY SectionPile DEF TypeOK
  <1>2. Len(piles[Section[s].pile]) \in 0..Len(piles[Section[s].pile])
    BY <1>1
  <1> QED
    BY <1>2, OpeningTyped DEF SectionCode

\* So is main.
LEMMA MainTyped ==
    ASSUME NEW l \in BOOLEAN
    PROVE  MainCode(l) \in Seq(Piece)
  <1>1. Internal \in File
    BY DEF Internal, File
  <1>2. Comment("main") \in Piece
    BY DEF Title, Section, Main, Done, Comment, Piece
  <1>3. /\ Fragment("int main(int argc, char **argv) {", 1) \in Piece
        /\ Fragment("int ret = 0;", 1) \in Piece
    BY DEF Own, Fragment, Piece
  <1>4. Directive(Internal, 186) \in Piece
    BY <1>1 DEF Directive, Piece
  <1>5. \A p, d, t, u \in Piece :
            <<p, d, t, u>> \in Seq(Piece) /\ <<p, t, u>> \in Seq(Piece)
    OBVIOUS
  <1> QED
    BY <1>2, <1>3, <1>4, <1>5, Zenon DEF MainCode, OwnCode

\* And what is before a section.
LEMMA BeforeTyped ==
    ASSUME TypeOK, NEW s \in 1..Done, NEW l \in BOOLEAN
    PROVE  Before(s, l) \in Seq(Piece)
  <1>1. \A t \in {1, 2, 3, 4, 5, 6, 8, 9, 10} : SectionCode(Section[t], l) \in Seq(Piece)
    BY SectionTyped DEF Main, Done
  <1>2. MainCode(l) \in Seq(Piece)
    BY MainTyped
  <1>3. \A u, v \in Seq(Piece) : u \o v \in Seq(Piece)
    BY ConcatProperties
  <1>4. Before3(l) \in Seq(Piece) /\ Before4(l) \in Seq(Piece)
    BY <1>1, <1>3 DEF Before3, Before4
  <1>5. Before5(l) \in Seq(Piece) /\ Before6(l) \in Seq(Piece)
    BY <1>1, <1>3, <1>4 DEF Before5, Before6
  <1>6. Before7(l) \in Seq(Piece) /\ Before8(l) \in Seq(Piece)
    BY <1>1, <1>2, <1>3, <1>5 DEF Before7, Before8
  <1>7. Before9(l) \in Seq(Piece) /\ Before10(l) \in Seq(Piece)
    BY <1>1, <1>3, <1>6 DEF Before9, Before10
  <1>8. Before10(l) \o SectionCode(Section[10], l) \in Seq(Piece)
    BY <1>1, <1>3, <1>7
  <1>9. s \in {1, 2, 3, 4, 5, 6, 7, 8, 9, 10, 11}
    BY DEF Done
  <1>10. <<>> \in Seq(Piece)
    OBVIOUS
  <1> QED
    BY <1>1, <1>4, <1>5, <1>6, <1>7, <1>8, <1>9, <1>10 DEF Before

\* One section more.
LEMMA BeforeNext ==
    ASSUME TypeOK, NEW s \in 1..Done, s # Done, NEW l \in BOOLEAN
    PROVE  Before(s + 1, l)
             = Before(s, l) \o (IF s = Main THEN MainCode(l) ELSE SectionCode(Section[s], l))
  <1>1. CASE s = 1
    <2>1. SectionCode(Section[1], l) \in Seq(Piece)
      BY SectionTyped DEF Main, Done
    <2>2. <<>> \o SectionCode(Section[1], l) = SectionCode(Section[1], l)
      BY <2>1, ConcatEmptySeq
    <2>3. Before(1, l) = <<>> /\ Before(2, l) = SectionCode(Section[1], l)
      BY DEF Before
    <2>4. s + 1 = 2 /\ s # Main
      BY <1>1 DEF Main
    <2> QED
      BY <1>1, <2>2, <2>3, <2>4, Zenon
  <1>2. CASE s = 2
    <2>1. Before(3, l) = Before(2, l) \o SectionCode(Section[2], l)
      BY DEF Before, Before3
    <2> QED
      BY <1>2, <2>1 DEF Main
  <1>3. CASE s = 3
    <2>1. Before(4, l) = Before(3, l) \o SectionCode(Section[3], l)
      BY DEF Before, Before3, Before4
    <2> QED
      BY <1>3, <2>1 DEF Main
  <1>4. CASE s = 4
    <2>1. Before(5, l) = Before(4, l) \o SectionCode(Section[4], l)
      BY DEF Before, Before4, Before5
    <2> QED
      BY <1>4, <2>1 DEF Main
  <1>5. CASE s = 5
    <2>1. Before(6, l) = Before(5, l) \o SectionCode(Section[5], l)
      BY DEF Before, Before5, Before6
    <2> QED
      BY <1>5, <2>1 DEF Main
  <1>6. CASE s = 6
    <2>1. Before(7, l) = Before(6, l) \o SectionCode(Section[6], l)
      BY DEF Before, Before6, Before7
    <2> QED
      BY <1>6, <2>1 DEF Main
  <1>7. CASE s = 7
    <2>1. Before(8, l) = Before(7, l) \o MainCode(l)
      BY DEF Before, Before7, Before8
    <2> QED
      BY <1>7, <2>1 DEF Main
  <1>8. CASE s = 8
    <2>1. Before(9, l) = Before(8, l) \o SectionCode(Section[8], l)
      BY DEF Before, Before8, Before9
    <2> QED
      BY <1>8, <2>1 DEF Main
  <1>9. CASE s = 9
    <2>1. Before(10, l) = Before(9, l) \o SectionCode(Section[9], l)
      BY DEF Before, Before9, Before10
    <2> QED
      BY <1>9, <2>1 DEF Main
  <1>10. CASE s = 10
    <2>1. Before(11, l) = Before(10, l) \o SectionCode(Section[10], l)
      BY DEF Before, Before10
    <2> QED
      BY <1>10, <2>1 DEF Main
  <1> QED
    BY <1>1, <1>2, <1>3, <1>4, <1>5, <1>6, <1>7, <1>8, <1>9, <1>10 DEF Done

\* The emitter's sections are those of the unit, in its order.
LEMMA InOrder ==
    ASSUME NEW l
    PROVE  Unit(l) = Before10(l) \o SectionCode(Section[10], l) \o DoneCode(l)
  <1>1. /\ Section[1] = [name |-> "defsysinclude", pile |-> "defsys"]
        /\ Section[2] = [name |-> "sysinclude", pile |-> "syss"]
        /\ Section[3] = [name |-> "include", pile |-> "incs"]
    BY DEF Section
  <1>2. /\ Section[4] = [name |-> "declarations", pile |-> "tlds"]
        /\ Section[5] = [name |-> "definition", pile |-> "tlds"]
        /\ Section[6] = [name |-> "toplevel", pile |-> "tlfs"]
    BY DEF Section
  <1>3. /\ Section[8] = [name |-> "before", pile |-> "befs"]
        /\ Section[9] = [name |-> "statements", pile |-> "stms"]
        /\ Section[10] = [name |-> "after", pile |-> "afts"]
    BY DEF Section
  <1> QED
    BY <1>1, <1>2, <1>3, Zenon
    DEF Unit, Before3, Before4, Before5, Before6, Before7, Before8, Before9, Before10

\* The whole.
LEMMA BeforeDone ==
    ASSUME NEW l
    PROVE  Unit(l) = Before(Done, l) \o DoneCode(l)
  <1>1. Before(Done, l) = Before10(l) \o SectionCode(Section[10], l)
    BY DEF Before, Done
  <1> QED
    BY <1>1, InOrder, Zenon

\* The unit depends on the piles only.
LEMMA UnitKept ==
    ASSUME UNCHANGED piles, NEW s, NEW n, NEW l
    PROVE  Printed(s, n, l)' = Printed(s, n, l) /\ Unit(l)' = Unit(l)
  <1>1. \A t : SectionCode(t, l)' = SectionCode(t, l)
    BY DEF SectionCode, Opening, Placed, Body, Part
  <1>2. Opening(Section[s], n, l)' = Opening(Section[s], n, l)
    BY DEF Opening, Placed, Body, Part
  <1>3. Before(s, l)' = Before(s, l)
    BY <1>1 DEF Before, Before3, Before4, Before5, Before6, Before7, Before8, Before9, Before10
  <1>4. Unit(l)' = Unit(l)
    <2>1. \A name, pile : SectionCode([name |-> name, pile |-> pile], l)'
                             = SectionCode([name |-> name, pile |-> pile], l)
      BY <1>1
    <2> QED
      BY <2>1, Zenon DEF Unit
  <1> QED
    BY <1>2, <1>3, <1>4 DEF Printed
-----------------------------------------------------------------------------
(* Emitting                                                                *)

\* An emitter that has emitted u, or v without directives, all attributed rightly.
Sound(e, u, v) == e \in Emitter /\ Right(e) /\ Carries(e, u, v)

\* It has emitted line n of f last, and the compiler goes on at line m.
Last(e, st, f, n, m) == e.state = st /\ e.file = f /\ e.line = n /\ e.at = <<f, m>>

\* A comment changes neither label nor line nor what is attributed.
LEMMA CommentEmitted ==
    ASSUME NEW e, NEW t, Comment(t) \in Piece, NEW u, NEW v, Sound(e, u, v)
    PROVE  /\ Sound(EmitComment(e, t), u \o <<Comment(t)>>, v \o <<Comment(t)>>)
           /\ EmitComment(e, t).file = e.file /\ EmitComment(e, t).line = e.line
  <1> DEFINE c == Comment(t)
             r == EmitComment(e, t)
  <1>1. r = [state |-> e.state, file |-> e.file, line |-> e.line, code |-> e.code \o <<c>>,
             dump |-> e.dump \o IF dump = 0 THEN <<>> ELSE <<c>>,
             at |-> <<e.at[1], e.at[2] + c.lines>>, marks |-> e.marks]
    BY DEF EmitComment, Emit, NeedLine, Dumped
  <1>2. c \in Piece /\ c.lines = 1
    BY DEF Comment
  <1> HIDE DEF c, r
  <1>3. r \in Emitter
    <2>1. r.code \in Seq(Piece) /\ r.dump \in Seq(Piece)
      BY <1>1, <1>2 DEF Emitter, Sound
    <2>2. r.at \in (File \cup {NoFile}) \X Nat
      BY <1>1, <1>2 DEF Emitter, Sound
    <2> QED
      BY <1>1, <2>1, <2>2 DEF Emitter, Sound
  <1>4. Carries(r, u \o <<c>>, v \o <<c>>)
    <2>1. <<>> \o <<>> = <<>>
      OBVIOUS
    <2> QED
      BY <1>1, <2>1 DEF Carries, Sound
  <1>5. Right(r) /\ r.file = e.file /\ r.line = e.line
    BY <1>1 DEF Right, Sound
  <1> QED
    BY <1>3, <1>4, <1>5 DEF Sound, c, r

\* A piece under a directive.
LEMMA PieceEmitted ==
    ASSUME TypeOK, NEW st \in {"PREPROC", "STATEMENT", "INTERNAL"}, NEW f \in File,
           NEW n \in Nat \ {0}, NEW p \in Piece, p.lines \in Nat,
           NEW e, NEW u, NEW v, Sound(e, u, v), NeedLine(e, st, f, n),
           NEW r, r = Emit(e, st, f, n, p)
    PROVE  /\ Sound(r, u \o Labelled(TRUE, Directive(f, n), p),
                       v \o Labelled(Shows, Directive(f, n), p))
           /\ Last(r, st, f, n, n + p.lines)
  <1> DEFINE d == Directive(f, n)
  <1>1. r = [state |-> st, file |-> f, line |-> n, code |-> e.code \o <<d, p>>,
             dump |-> e.dump \o IF dump = 0 THEN <<>>
                                ELSE IF dump > 1 THEN <<d, p>> ELSE <<p>>,
             at |-> <<f, n + p.lines>>,
             marks |-> e.marks \cup {[own |-> <<f, n>>, at |-> <<f, n>>]}]
    BY DEF Emit, Dumped
  <1>2. d \in Piece
    BY DEF Directive, Piece
  <1> HIDE DEF d
  <1>3. r \in Emitter
    <2>1. r.code \in Seq(Piece) /\ r.dump \in Seq(Piece)
      BY <1>1, <1>2 DEF Emitter, Sound
    <2>2. r.at \in (File \cup {NoFile}) \X Nat
      BY <1>1
    <2>3. r.marks \in SUBSET [own : File \X Nat, at : (File \cup {NoFile}) \X Nat]
      BY <1>1 DEF Emitter, Sound
    <2> QED
      BY <1>1, <2>1, <2>2, <2>3 DEF Emitter
  <1>4. Right(r)
    <2>1. r.marks = e.marks \cup {[own |-> <<f, n>>, at |-> <<f, n>>]}
      BY <1>1
    <2> QED
      BY <2>1 DEF Right, Sound
  <1>5. Carries(r, u \o Labelled(TRUE, d, p), v \o Labelled(Shows, d, p))
    <2>1. <<>> \o <<>> = <<>>
      OBVIOUS
    <2>2. r.code = u \o Labelled(TRUE, d, p)
      BY <1>1 DEF Carries, Labelled, Sound
    <2>3. CASE dump = 0
      <3>1. r.dump = e.dump \o <<>> /\ e.dump = <<>>
        BY <1>1, <2>3 DEF Carries, Sound
      <3> QED
        BY <2>1, <2>2, <2>3, <3>1 DEF Carries
    <2>4. CASE dump # 0
      BY <1>1, <2>2, <2>4 DEF Carries, Labelled, Sound, Shows
    <2> QED
      BY <2>3, <2>4
  <1>6. Last(r, st, f, n, n + p.lines)
    BY <1>1 DEF Last
  <1> QED
    BY <1>3, <1>4, <1>5, <1>6 DEF d, Sound

\* A fragment of a label that is not the one before gets a directive.
LEMMA ItemEmitted ==
    ASSUME TypeOK, NEW st \in {"PREPROC", "STATEMENT"}, NEW f \in File, NEW t \in Text,
           NEW e, NEW u, NEW v, Sound(e, u, v), e.file # f
    PROVE  /\ Sound(EmitItem(e, st, f, t),
                    u \o Labelled(TRUE, Directive(f, 1), Fragment(t, Height[t])),
                    v \o Labelled(Shows, Directive(f, 1), Fragment(t, Height[t])))
           /\ EmitItem(e, st, f, t).file = f
  <1> DEFINE p == Fragment(t, Height[t])
  <1>1. Height[t] \in Nat \ {0}
    BY GenerateAssumption
  <1>2. p \in Piece /\ p.lines \in Nat
    BY <1>1 DEF Fragment, Piece
  <1>3. NeedLine(e, st, f, 1)
    BY DEF NeedLine
  <1>4. PICK r : r = Emit(e, st, f, 1, p)
    OBVIOUS
  <1>5. EmitItem(e, st, f, t) = r
    BY <1>4 DEF EmitItem
  <1>6. 1 \in Nat \ {0} /\ st \in {"PREPROC", "STATEMENT", "INTERNAL"}
    OBVIOUS
  <1> HIDE DEF p
  <1>7. /\ Sound(r, u \o Labelled(TRUE, Directive(f, 1), p),
                    v \o Labelled(Shows, Directive(f, 1), p))
        /\ Last(r, st, f, 1, 1 + p.lines)
    BY <1>2, <1>3, <1>4, <1>6, PieceEmitted
  <1> QED
    BY <1>5, <1>7 DEF p, Last

\* So does a line of the program that does not follow the one before; the compiler
\* goes on at the next.
LEMMA InternalEmitted ==
    ASSUME TypeOK, NEW n \in Nat \ {0}, NEW t \in Own,
           NEW e, NEW u, NEW v, Sound(e, u, v),
           e.file # Internal \/ (e.line # 0 /\ n # e.line + 1),
           NEW r, r = EmitInternal(e, n, t)
    PROVE  /\ Sound(r, u \o Labelled(TRUE, Directive(Internal, n), Fragment(t, 1)),
                       v \o Labelled(Shows, Directive(Internal, n), Fragment(t, 1)))
           /\ Last(r, "INTERNAL", Internal, n, n + 1)
  <1> DEFINE p == Fragment(t, 1)
  <1>1. NeedLine(e, "INTERNAL", Internal, n)
    BY DEF NeedLine
  <1>2. Internal \in File
    BY DEF Internal, File
  <1>3. p \in Piece /\ p.lines \in Nat /\ n + p.lines = n + 1
    BY DEF Fragment, Piece
  <1>4. r = Emit(e, "INTERNAL", Internal, n, p)
    BY DEF EmitInternal
  <1>5. "INTERNAL" \in {"PREPROC", "STATEMENT", "INTERNAL"}
    OBVIOUS
  <1> HIDE DEF p
  <1>6. /\ Sound(r, u \o Labelled(TRUE, Directive(Internal, n), p),
                    v \o Labelled(Shows, Directive(Internal, n), p))
        /\ Last(r, "INTERNAL", Internal, n, n + p.lines)
    BY <1>1, <1>2, <1>3, <1>4, <1>5, PieceEmitted
  <1> QED
    BY <1>3, <1>6 DEF p

\* The second of two lines of the program goes on where the first ends, without a
\* directive.
LEMMA InternalFollows ==
    ASSUME NEW n \in Nat, NEW t \in Own, NEW e, NEW u, NEW v, Sound(e, u, v),
           Last(e, "INTERNAL", Internal, n, n + 1),
           NEW r, r = EmitInternal(e, n + 1, t)
    PROVE  /\ Sound(r, u \o <<Fragment(t, 1)>>, v \o <<Fragment(t, 1)>>)
           /\ Last(r, "INTERNAL", Internal, n + 1, (n + 1) + 1)
  <1> DEFINE p == Fragment(t, 1)
  <1>1. ~NeedLine(e, "INTERNAL", Internal, n + 1)
    BY DEF NeedLine, Last
  <1>2. PICK k, h, m :
            /\ k = e.code \o <<p>>
            /\ h = e.dump \o IF dump = 0 THEN <<>> ELSE <<p>>
            /\ m = e.marks \cup {[own |-> <<Internal, n + 1>>, at |-> <<Internal, n + 1>>]}
    OBVIOUS
  <1>3. r = [state |-> "INTERNAL", file |-> Internal, line |-> n + 1, code |-> k, dump |-> h,
             at |-> <<Internal, (n + 1) + 1>>, marks |-> m]
    BY <1>1, <1>2 DEF EmitInternal, Emit, Dumped, Fragment, Last
  <1>4. p \in Piece
    BY DEF Fragment, Piece
  <1> HIDE DEF p
  <1>5. /\ r.code = k /\ r.dump = h /\ r.marks = m
        /\ Last(r, "INTERNAL", Internal, n + 1, (n + 1) + 1)
    BY <1>3 DEF Last
  <1>6. r \in Emitter
    <2>1. k \in Seq(Piece) /\ h \in Seq(Piece)
      <3>1. e.code \in Seq(Piece) /\ e.dump \in Seq(Piece) /\ <<p>> \in Seq(Piece)
        BY <1>4 DEF Emitter, Sound
      <3>2. (IF dump = 0 THEN <<>> ELSE <<p>>) \in Seq(Piece)
        BY <3>1
      <3> QED
        BY <1>2, <3>1, <3>2, ConcatProperties
    <2>2. Internal \in File
      BY DEF Internal, File
    <2>3. <<Internal, (n + 1) + 1>> \in (File \cup {NoFile}) \X Nat
      BY <2>2
    <2>4. m \in SUBSET [own : File \X Nat, at : (File \cup {NoFile}) \X Nat]
      BY <1>2, <2>2 DEF Emitter, Sound
    <2> QED
      BY <1>3, <2>1, <2>2, <2>3, <2>4 DEF Emitter
  <1>7. Right(r)
    <2>1. r.marks = e.marks \cup {[own |-> <<Internal, n + 1>>, at |-> <<Internal, n + 1>>]}
      BY <1>2, <1>5
    <2>2. \A x \in e.marks : x.at = x.own
      BY DEF Right, Sound
    <2> QED
      BY <2>1, <2>2 DEF Right
  <1>8. Carries(r, u \o <<p>>, v \o <<p>>)
    <2>1. <<>> \o <<>> = <<>>
      OBVIOUS
    <2>2. CASE dump = 0
      BY <1>2, <1>5, <2>1, <2>2 DEF Carries, Sound
    <2>3. CASE dump # 0
      BY <1>2, <1>5, <2>3 DEF Carries, Sound
    <2> QED
      BY <2>2, <2>3
  <1> QED
    BY <1>5, <1>6, <1>7, <1>8 DEF p, Sound

\* The two lines that begin main, and the two that end it, after their comment.
LEMMA OwnEmitted ==
    ASSUME TypeOK, NEW name, Comment(name) \in Piece, NEW n \in Nat \ {0},
           NEW t \in Own, NEW w \in Own, NEW e, NEW u \in Seq(Piece), NEW v \in Seq(Piece),
           Sound(e, u, v), e.file # Internal \/ (e.line # 0 /\ n # e.line + 1),
           NEW r, r = EmitInternal(EmitInternal(EmitComment(e, name), n, t), n + 1, w)
    PROVE  /\ Sound(r, u \o OwnCode(name, n, t, w, TRUE), v \o OwnCode(name, n, t, w, Shows))
           /\ Last(r, "INTERNAL", Internal, n + 1, (n + 1) + 1)
  <1> DEFINE c == Comment(name)
             d == Directive(Internal, n)
             p == Fragment(t, 1)
             q == Fragment(w, 1)
  <1>1. PICK a : a = EmitComment(e, name)
    OBVIOUS
  <1>2. PICK b : b = EmitInternal(a, n, t)
    OBVIOUS
  <1>3. r = EmitInternal(b, n + 1, w)
    BY <1>1, <1>2
  <1>4. Sound(a, u \o <<c>>, v \o <<c>>) /\ a.file = e.file /\ a.line = e.line
    BY <1>1, CommentEmitted
  <1>5. PICK u1, v1 : u1 = u \o <<c>> /\ v1 = v \o <<c>>
    OBVIOUS
  <1>6. PICK u2, v2 : u2 = u1 \o Labelled(TRUE, d, p) /\ v2 = v1 \o Labelled(Shows, d, p)
    OBVIOUS
  <1>7. Sound(a, u1, v1)
    BY <1>4, <1>5
  <1>8. Sound(b, u2, v2) /\ Last(b, "INTERNAL", Internal, n, n + 1)
    BY <1>2, <1>4, <1>6, <1>7, InternalEmitted
  <1>9. /\ Sound(r, u2 \o <<q>>, v2 \o <<q>>)
        /\ Last(r, "INTERNAL", Internal, n + 1, (n + 1) + 1)
    BY <1>3, <1>8, InternalFollows
  <1>10. c \in Piece /\ d \in Piece /\ p \in Piece /\ q \in Piece
    <2>1. Internal \in File
      BY DEF Internal, File
    <2> QED
      BY <2>1 DEF Directive, Fragment, Piece
  <1>11. ASSUME NEW l \in BOOLEAN, NEW x \in Seq(Piece)
         PROVE  ((x \o <<c>>) \o Labelled(l, d, p)) \o <<q>> = x \o OwnCode(name, n, t, w, l)
    <2>1. OwnCode(name, n, t, w, l) = IF l THEN <<c, d, p, q>> ELSE <<c, p, q>>
      BY DEF OwnCode
    <2> HIDE DEF c, d, p, q
    <2>2. CASE l
      <3>1. ((x \o <<c>>) \o <<d, p>>) \o <<q>> = x \o <<c, d, p, q>>
        BY <1>10, SMTT(30)
      <3> QED
        BY <2>1, <2>2, <3>1 DEF Labelled
    <2>3. CASE ~l
      <3>1. /\ x \o <<c>> = Append(x, c)
            /\ Append(x, c) \in Seq(Piece)
            /\ Append(x, c) \o <<p>> = Append(Append(x, c), p)
            /\ Append(Append(x, c), p) \in Seq(Piece)
            /\ Append(Append(x, c), p) \o <<q>> = Append(Append(Append(x, c), p), q)
        BY <1>10, AppendIsConcat, AppendProperties
      <3>2. Append(Append(Append(x, c), p), q) = x \o <<c, p, q>>
        BY <1>10
      <3> QED
        BY <2>1, <2>3, <3>1, <3>2 DEF Labelled
    <2> QED
      BY <2>2, <2>3
  <1>12. u2 \o <<q>> = u \o OwnCode(name, n, t, w, TRUE)
    BY <1>5, <1>6, <1>11
  <1>13. v2 \o <<q>> = v \o OwnCode(name, n, t, w, Shows)
    <2>1. Shows \in BOOLEAN
      BY DEF Shows
    <2> QED
      BY <1>5, <1>6, <1>11, <2>1
  <1> QED
    BY <1>9, <1>12, <1>13

-----------------------------------------------------------------------------
(* The invariant                                                           *)

\* What remains to be shown of a step from which the printing goes on.
LEMMA PrintingGoesOn ==
    ASSUME UNCHANGED <<piles, dump>>, pc' = "emit", shown' = 0,
           NEW s, NEW n, NEW e, s = sect', n = i', e = g',
           n # 0 => s \notin {Main, Done} /\ n < Len(piles[Section[s].pile]),
           Carries(e, Printed(s, n, TRUE), Printed(s, n, Shows))
    PROVE  Complete'
  <1>1. Shows' = Shows
    BY DEF Shows
  <1>2. PICK l : l = Shows
    OBVIOUS
  <1>3. Printed(s, n, TRUE)' = Printed(s, n, TRUE) /\ Printed(s, n, l)' = Printed(s, n, l)
    BY UnitKept
  <1>4. Printed(sect, i, TRUE)' = Printed(s, n, TRUE)
    BY <1>3
  <1>5. Printed(sect, i, Shows)' = Printed(s, n, Shows)
    BY <1>1, <1>2, <1>3
  <1> HIDE DEF Shows
  <1>6. Carries(g, Printed(sect, i, TRUE), Printed(sect, i, Shows))'
    BY <1>4, <1>5 DEF Carries
  <1>7. Content' = piles[Section[s].pile]
    BY DEF Content
  <1> QED
    BY <1>6, <1>7 DEF Complete

\* Initially nothing is emitted.
LEMMA InitInv == Init => IInv
  <1> SUFFICES ASSUME Init
               PROVE  IInv
    OBVIOUS
  <1>1. g \in Emitter /\ Len(g.dump) = 0
    BY DEF Init, Fresh, Emitter
  <1>2. TypeOK
    BY <1>1 DEF Init, TypeOK, Done
  <1>3. Right(g) /\ g.file = NoFile /\ pc = "idle"
    BY DEF Init, Fresh, Right
  <1> QED
    BY <1>2, <1>3 DEF IInv, Complete

\* Pushes, new contexts and the start of a generation: the label is forgotten, and
\* nothing of an old unit is kept.
LEMMA UseNext ==
    ASSUME IInv, Use
    PROVE  IInv'
  <1>1. CASE Push
    <2>1. pc' = "idle" /\ pc = "idle" /\ UNCHANGED <<dump, saved, sect, i, g, shown>>
      BY <1>1 DEF Push
    <2>2. piles' \in [Pile -> Seq(Text)]
      <3>1. PICK p \in Pile, t \in Text : piles' = [piles EXCEPT ![p] = Append(@, t)]
        BY <1>1 DEF Push
      <3>2. Append(piles[p], t) \in Seq(Text)
        BY DEF IInv, TypeOK
      <3> QED
        BY <3>1, <3>2 DEF IInv, TypeOK
    <2> QED
      BY <2>1, <2>2 DEF IInv, TypeOK, Right, Complete
  <1>2. CASE Chain
    <2>1. pc = "idle" /\ pc' = "idle" /\ g' = Fresh /\ shown' = 0
          /\ UNCHANGED <<dump, saved, sect, i>>
      BY <1>2 DEF Chain
    <2>2. piles' \in [Pile -> Seq(Text)]
      BY <1>2 DEF Chain, IInv, TypeOK
    <2>3. g' \in Emitter /\ Len(g'.dump) = 0 /\ Right(g') /\ g'.file = NoFile
      BY <2>1 DEF Fresh, Emitter, Right
    <2>4. TypeOK'
      BY <2>1, <2>2, <2>3 DEF IInv, TypeOK
    <2> QED
      BY <2>1, <2>3, <2>4 DEF IInv, Right, Complete
  <1>3. CASE Run \/ CmdDump
    <2>1. /\ pc = "idle" /\ pc' = "emit" /\ sect' = 1 /\ i' = 0 /\ shown' = 0
          /\ g' = Opened /\ piles' = piles /\ dump' \in 0..2 /\ saved' \in 0..2
      BY <1>3 DEF Run, CmdDump, Generate, IInv, TypeOK
    <2>2. g \in Emitter /\ g.file = NoFile
      BY <2>1 DEF IInv, TypeOK
    <2>3. /\ g' \in Emitter /\ Right(g') /\ g'.file = NoFile
          /\ g'.code = <<>> /\ g'.dump = <<>>
      <3>1. g' \in Emitter
        <4>1. g' = [state |-> g.state, file |-> g.file, line |-> g.line, code |-> <<>>,
                    dump |-> <<>>, at |-> <<NoFile, 1>>, marks |-> {}]
          BY <2>1, <2>2 DEF Opened, Emitter
        <4>2. <<>> \in Seq(Piece) /\ <<NoFile, 1>> \in (File \cup {NoFile}) \X Nat
          OBVIOUS
        <4> QED
          BY <2>2, <4>1, <4>2 DEF Emitter
      <3>2. g'.file = NoFile /\ g'.code = <<>> /\ g'.dump = <<>> /\ g'.marks = {}
        BY <2>1, <2>2 DEF Opened, Emitter
      <3> QED
        BY <3>1, <3>2 DEF Right
    <2>4. TypeOK'
      BY <2>1, <2>3 DEF IInv, TypeOK, Done
    <2>5. Complete'
      <3>1. \A l : Printed(1, 0, l)' = <<>>
        BY DEF Printed, Before
      <3>2. Printed(sect, i, TRUE)' = <<>> /\ Printed(sect, i, Shows)' = <<>>
        BY <2>1, <3>1
      <3> QED
        BY <2>1, <2>3, <3>2 DEF Complete, Carries
    <2> QED
      BY <2>1, <2>3, <2>4, <2>5 DEF IInv, Behind, Right
  <1> QED
    BY <1>1, <1>2, <1>3 DEF Use

\* A section without items uses up no label and adds nothing to the unit.
LEMMA SkipNext ==
    ASSUME IInv, SkipSection
    PROVE  IInv'
  <1>1. /\ pc = "emit" /\ pc' = "emit" /\ sect' = sect + 1 /\ i' = 0
        /\ sect \notin {Main, Done} /\ UNCHANGED <<g, piles, dump, saved, shown>>
        /\ Content = <<>>
    BY DEF SkipSection, Printing, NextSection
  <1>2. TypeOK'
    BY <1>1 DEF IInv, TypeOK, Done
  <1>3. sect \in 1..Done /\ sect' > sect /\ i \in Nat
    BY <1>1 DEF IInv, TypeOK, Done
  <1>4. Behind'
    <2>1. CASE g.file = NoFile
      BY <1>1, <2>1 DEF Behind
    <2>2. CASE g.file = Internal /\ g.line = 187 /\ sect > Main
      BY <1>1, <1>3, <2>2 DEF Behind, Main, Done
    <2>3. ASSUME NEW s \in 1..Done, NEW n \in Int,
                 g.file = <<Section[s].name, n>>, UsedUp(s, n)
          PROVE  Behind'
      <3>1. s < sect'
        BY <1>1, <1>3, <2>3 DEF UsedUp, Done
      <3> QED
        BY <1>1, <2>3, <3>1 DEF Behind, UsedUp
    <2> QED
      BY <1>1, <2>1, <2>2, <2>3 DEF IInv, Behind
  <1>5. Complete'
    <2>1. Len(Content) = 0
      BY <1>1
    <2>2. i = 0 /\ shown = 0
      BY <1>1, <1>3, <2>1 DEF IInv, Complete
    <2>3. ASSUME NEW l \in BOOLEAN
          PROVE  Printed(sect + 1, 0, l) = Printed(sect, i, l)
      <3>1. SectionCode(Section[sect], l) = <<>>
        BY <2>1 DEF SectionCode, Content
      <3>2. Before(sect, l) \in Seq(Piece)
        BY <1>3, BeforeTyped DEF IInv
      <3>3. Before(sect + 1, l) = Before(sect, l) \o <<>>
        BY <1>1, <1>3, <3>1, BeforeNext DEF IInv
      <3>4. Before(sect + 1, l) = Before(sect, l)
        BY <3>2, <3>3, ConcatEmptySeq
      <3> QED
        BY <2>2, <3>4 DEF Printed
    <2>4. Shows \in BOOLEAN
      BY DEF Shows
    <2>5. /\ Printed(sect + 1, 0, TRUE) = Printed(sect, i, TRUE)
          /\ Printed(sect + 1, 0, Shows) = Printed(sect, i, Shows)
      BY <2>3, <2>4
    <2>6. Carries(g, Printed(sect + 1, 0, TRUE), Printed(sect + 1, 0, Shows))
      BY <1>1, <2>5 DEF IInv, Complete
    <2>7. PICK s, n, e : s = sect' /\ n = i' /\ e = g'
      OBVIOUS
    <2>8. Carries(e, Printed(s, n, TRUE), Printed(s, n, Shows))
      BY <1>1, <2>6, <2>7
    <2> QED
      BY <1>1, <2>2, <2>7, <2>8, PrintingGoesOn
  <1> QED
    BY <1>1, <1>2, <1>4, <1>5 DEF IInv, Right

\* An item is printed under a label not used before in this unit, as the next of its
\* section.
LEMMA PrintNext ==
    ASSUME IInv, PrintItem
    PROVE  IInv'
  <1> DEFINE name == Section[sect].name
             back == Len(Content) - i
             idx  == IF name = "after" THEN back ELSE i
             text == Content[IF name = "after" THEN back ELSE i + 1]
             e    == IF i = 0 THEN EmitComment(g, name) ELSE g
             L(l) == Labelled(l, Placed(Section[sect], i + 1), Body(Section[sect], i + 1))
             O(l) == Before(sect, l) \o Opening(Section[sect], i, l)
             N(l) == Before(sect, l) \o Opening(Section[sect], i + 1, l)
  <1>1. /\ pc = "emit" /\ pc' = "emit" /\ sect \in 1..Done /\ sect \notin {Main, Done}
        /\ i \in Nat /\ i < Len(Content) /\ UNCHANGED <<piles, dump, saved, shown>>
        /\ shown = 0 /\ TypeOK
    BY DEF PrintItem, Printing, IInv, TypeOK, Complete
  <1>2. Content \in Seq(Text) /\ Len(Content) \in Nat /\ Content = piles[Section[sect].pile]
    BY <1>1, SectionPile DEF TypeOK, Content
  <1>3. /\ Content' = piles[Section[sect'].pile]
        /\ \/ i + 1 = Len(Content) /\ sect' = sect + 1 /\ i' = 0
           \/ i + 1 # Len(Content) /\ sect' = sect /\ i' = i + 1
    BY <1>1 DEF PrintItem, NextItem, NextSection, Content
  <1>4. PICK st \in {"PREPROC", "STATEMENT"} : g' = EmitItem(e, st, <<name, idx>>, text)
    BY DEF PrintItem
  <1>5. /\ Part(Section[sect], i + 1).label = <<name, idx>>
        /\ Part(Section[sect], i + 1).text = text
        /\ i + 1 \in 1..Len(piles[Section[sect].pile])
    <2>1. Len(Content) + 1 - (i + 1) = back /\ (i + 1) - 1 = i
      <3>1. \A m, n \in Nat : m + 1 - (n + 1) = m - n /\ (n + 1) - 1 = n
        OBVIOUS
      <3>2. i \in Nat /\ Len(Content) \in Nat
        BY <1>1, <1>2
      <3> QED
        BY <3>1, <3>2
    <2>2. i + 1 \in 1..Len(Content)
      BY <1>1, <1>2
    <2>3. CASE name = "after"
      BY <1>2, <2>1, <2>2, <2>3 DEF Part
    <2>4. CASE name # "after"
      BY <1>2, <2>1, <2>2, <2>4 DEF Part
    <2> QED
      BY <2>3, <2>4
  <1>6. <<name, idx>> \in File /\ text \in Text
    BY <1>1, <1>5, PartTyped
  <1>7. g.file # <<name, idx>>
    <2>1. CASE g.file = NoFile
      BY <1>1, <2>1, Labels
    <2>2. CASE g.file = Internal
      BY <1>1, <2>2, Labels
    <2>3. ASSUME NEW s \in 1..Done, NEW n \in Int,
                 g.file = <<Section[s].name, n>>, UsedUp(s, n)
          PROVE  g.file # <<name, idx>>
      <3>1. SUFFICES ASSUME g.file = <<name, idx>>
                     PROVE  FALSE
        OBVIOUS
      <3>2. s = sect /\ n = idx
        BY <1>1, <2>3, <3>1, Labels
      <3>3. ~(s < sect)
        BY <1>1, <3>2 DEF Done
      <3>4. IF name = "after" THEN n > Len(Content) - i ELSE n < i
        BY <2>3, <3>2, <3>3 DEF UsedUp
      <3> QED
        BY <1>1, <1>2, <3>2, <3>4
    <2> QED
      BY <1>1, <2>1, <2>2, <2>3 DEF IInv, Behind
  <1>8. Before(sect, TRUE) \in Seq(Piece) /\ Before(sect, Shows) \in Seq(Piece)
    <2>1. Shows \in BOOLEAN
      BY DEF Shows
    <2> QED
      BY <1>1, <2>1, BeforeTyped
  <1>9. Sound(e, O(TRUE), O(Shows)) /\ e.file = g.file
    <2>1. Sound(g, Printed(sect, i, TRUE), Printed(sect, i, Shows))
      BY <1>1 DEF IInv, Complete, Sound, TypeOK
    <2>2. CASE i = 0
      <3>1. Comment(name) \in Piece
        BY <1>1, SectionTitle
      <3>2. Sound(g, Before(sect, TRUE), Before(sect, Shows))
        BY <2>1, <2>2 DEF Printed
      <3>3. Shows \in BOOLEAN
        BY DEF Shows
      <3>4. /\ Opening(Section[sect], 0, TRUE) = <<Comment(name)>>
            /\ Opening(Section[sect], 0, Shows) = <<Comment(name)>>
        BY <1>1, <3>3, OpeningNone
      <3> HIDE DEF name
      <3>5. /\ Sound(EmitComment(g, name), Before(sect, TRUE) \o <<Comment(name)>>,
                                           Before(sect, Shows) \o <<Comment(name)>>)
            /\ EmitComment(g, name).file = g.file
        BY <3>1, <3>2, CommentEmitted
      <3> QED
        BY <2>2, <3>4, <3>5
    <2>3. CASE i # 0
      BY <2>1, <2>3 DEF Printed
    <2> QED
      BY <2>2, <2>3
  <1>10. /\ Sound(g', O(TRUE) \o L(TRUE),
                      O(Shows) \o L(Shows))
         /\ g'.file = <<name, idx>>
    <2>1. Placed(Section[sect], i + 1) = Directive(<<name, idx>>, 1)
      BY <1>5 DEF Placed
    <2>2. Body(Section[sect], i + 1) = Fragment(text, Height[text])
      BY <1>5 DEF Body
    <2>3. e.file # <<name, idx>>
      BY <1>7, <1>9
    <2> HIDE DEF e, name, idx, text, O
    <2> QED
      BY <1>1, <1>4, <1>6, <1>9, <2>1, <2>2, <2>3, ItemEmitted, ZenonT(60)
  <1>11. ASSUME NEW l \in BOOLEAN, Before(sect, l) \in Seq(Piece)
         PROVE  O(l) \o L(l) = N(l)
    <2>1. i \in 0..Len(piles[Section[sect].pile]) /\ i < Len(piles[Section[sect].pile])
      BY <1>1, <1>2
    <2>2. Opening(Section[sect], i, l) \in Seq(Piece)
      BY <1>1, <2>1, OpeningTyped
    <2>3. Placed(Section[sect], i + 1) \in Piece /\ Body(Section[sect], i + 1) \in Piece
      BY <1>1, <1>5, PartTyped
    <2>4. L(l) \in Seq(Piece)
      BY <2>3 DEF Labelled
    <2>5. Opening(Section[sect], i + 1, l)
            = Opening(Section[sect], i, l) \o L(l)
      BY <1>1, <2>1, OpeningNext
    <2>6. (Before(sect, l) \o Opening(Section[sect], i, l)) \o L(l)
            = Before(sect, l) \o (Opening(Section[sect], i, l) \o L(l))
      BY <1>11, <2>2, <2>4, ConcatAssociative
    <2> QED
      BY <2>5, <2>6
  <1>12. Sound(g', N(TRUE), N(Shows))
    <2>1. Shows \in BOOLEAN
      BY DEF Shows
    <2> HIDE DEF O, N
    <2>2. /\ O(TRUE) \o L(TRUE) = N(TRUE)
          /\ O(Shows) \o L(Shows) = N(Shows)
      BY <1>8, <1>11, <2>1
    <2> QED
      BY <1>10, <2>2
  <1>13. ASSUME NEW l \in BOOLEAN
         PROVE  N(l) = IF i + 1 = Len(Content) THEN Printed(sect + 1, 0, l)
                       ELSE Printed(sect, i + 1, l)
    <2>1. CASE i + 1 = Len(Content)
      <3>1. SectionCode(Section[sect], l) = Opening(Section[sect], i + 1, l)
        BY <1>1, <1>2, <2>1 DEF SectionCode
      <3>2. Before(sect + 1, l) = Before(sect, l) \o SectionCode(Section[sect], l)
        BY <1>1, BeforeNext
      <3> QED
        BY <2>1, <3>1, <3>2 DEF Printed
    <2>2. CASE i + 1 # Len(Content)
      BY <1>1, <2>2 DEF Printed
    <2> QED
      BY <2>1, <2>2
  <1>14. TypeOK'
    <2>1. sect' \in 1..Done
      BY <1>1, <1>3 DEF Done
    <2>2. i' \in Nat
      BY <1>1, <1>3
    <2>3. g' \in Emitter /\ g'.dump \in Seq(Piece)
      BY <1>12 DEF Sound, Emitter
    <2>4. shown' \in 0..Len(g'.dump)
      BY <1>1, <2>3
    <2> QED
      BY <1>1, <2>1, <2>2, <2>3, <2>4 DEF TypeOK
  <1>15. Complete'
    <2>1. PICK s, n, r : s = sect' /\ n = i' /\ r = g'
      OBVIOUS
    <2>2. Shows \in BOOLEAN
      BY DEF Shows
    <2>3. N(TRUE) = Printed(s, n, TRUE) /\ N(Shows) = Printed(s, n, Shows)
      <3> HIDE DEF N
      <3> QED
        BY <1>3, <1>13, <2>1, <2>2
    <2>4. Carries(r, Printed(s, n, TRUE), Printed(s, n, Shows))
      BY <1>12, <2>1, <2>3 DEF Sound
    <2>5. n # 0 => s \notin {Main, Done} /\ n < Len(piles[Section[s].pile])
      BY <1>1, <1>2, <1>3, <2>1
    <2> QED
      BY <1>1, <2>1, <2>4, <2>5, PrintingGoesOn
  <1>16. idx \in Int
    BY <1>1, <1>2
  <1>17. PICK s \in 1..Done, n \in Int : s = sect /\ n = idx
    BY <1>1, <1>16
  <1>18. UsedUp(s, n)'
    <2>1. CASE i + 1 = Len(Content) /\ sect' = sect + 1
      <3>1. s < sect'
        BY <1>1, <1>17, <2>1 DEF Done
      <3> QED
        BY <3>1 DEF UsedUp
    <2>2. CASE sect' = sect /\ i' = i + 1
      <3>1. Content' = Content
        BY <1>1, <2>2 DEF Content
      <3>2. IF name = "after" THEN n > Len(Content) - (i + 1) ELSE n < i + 1
        BY <1>1, <1>2, <1>17
      <3>3. Section[s].name = name
        BY <1>17
      <3> QED
        BY <1>17, <2>2, <3>1, <3>2, <3>3 DEF UsedUp
    <2> QED
      BY <1>3, <2>1, <2>2
  <1>19. Behind'
    <2>1. g'.file = <<Section[s].name, n>>
      BY <1>10, <1>17
    <2> QED
      BY <1>18, <2>1 DEF Behind
  <1> QED
    BY <1>1, <1>12, <1>14, <1>15, <1>19 DEF IInv, Right, Sound

\* Main begins with two lines of the program.
LEMMA OpenNext ==
    ASSUME IInv, OpenMain
    PROVE  IInv'
  <1>1. /\ pc = "emit" /\ pc' = "emit" /\ sect = Main /\ sect' = sect + 1 /\ i' = 0
        /\ UNCHANGED <<piles, dump, saved, shown>> /\ shown = 0
    BY DEF OpenMain, NextSection, IInv, Complete
  <1>2. i = 0 /\ sect \in 1..Done /\ TypeOK
    BY <1>1 DEF IInv, TypeOK, Complete, Main
  <1>3. PICK t, w : t = "int main(int argc, char **argv) {" /\ w = "int ret = 0;"
    OBVIOUS
  <1>4. t \in Own /\ w \in Own
    BY <1>3 DEF Own
  <1>5. PICK r : r = EmitInternal(EmitInternal(EmitComment(g, "main"), 186, t), 187, w)
    OBVIOUS
  <1>6. g' = r
    BY <1>3, <1>5 DEF OpenMain
  <1>7. g.file # Internal
    <2>1. g.file = Internal /\ g.line = 187 /\ sect > Main => FALSE
      BY <1>1 DEF Main
    <2>2. NoFile # Internal
      BY DEF NoFile, Internal
    <2> QED
      BY <1>1, <2>1, <2>2, Labels DEF IInv, Behind
  <1>8. Before(Main, TRUE) \in Seq(Piece) /\ Before(Main, Shows) \in Seq(Piece)
    <2>1. Shows \in BOOLEAN
      BY DEF Shows
    <2> QED
      BY <1>1, <1>2, <2>1, BeforeTyped
  <1>9. Sound(g, Before(Main, TRUE), Before(Main, Shows))
    BY <1>1, <1>2 DEF IInv, TypeOK, Complete, Printed, Sound
  <1>10. Comment("main") \in Piece
    <2>1. Section[Main].name = "main"
      BY DEF Section, Main
    <2> QED
      BY <1>1, <1>2, <2>1, SectionTitle
  <1>11. PICK n \in Nat \ {0} : n = 186 /\ n + 1 = 187
    OBVIOUS
  <1>12. r = EmitInternal(EmitInternal(EmitComment(g, "main"), n, t), n + 1, w)
    BY <1>5, <1>11
  <1>13. /\ Sound(r, Before(Main, TRUE) \o OwnCode("main", n, t, w, TRUE),
                     Before(Main, Shows) \o OwnCode("main", n, t, w, Shows))
         /\ Last(r, "INTERNAL", Internal, n + 1, (n + 1) + 1)
    BY <1>2, <1>4, <1>7, <1>8, <1>9, <1>10, <1>12, OwnEmitted
  <1>14. ASSUME NEW l \in BOOLEAN
         PROVE  Before(Main, l) \o OwnCode("main", n, t, w, l) = Printed(8, 0, l)
    <2>1. OwnCode("main", n, t, w, l) = MainCode(l)
      BY <1>3, <1>11 DEF MainCode
    <2>2. Before(8, l) = Before(7, l) \o MainCode(l)
      BY DEF Before, Before8
    <2> QED
      BY <2>1, <2>2 DEF Printed, Main
  <1>15. Sound(r, Printed(8, 0, TRUE), Printed(8, 0, Shows))
    <2>1. Shows \in BOOLEAN
      BY DEF Shows
    <2>2. /\ Before(Main, TRUE) \o OwnCode("main", n, t, w, TRUE) = Printed(8, 0, TRUE)
          /\ Before(Main, Shows) \o OwnCode("main", n, t, w, Shows) = Printed(8, 0, Shows)
      BY <1>14, <2>1
    <2> QED
      BY <1>13, <2>2
  <1>16. sect' = 8
    BY <1>1 DEF Main
  <1>17. Complete'
    <2>1. PICK s, m : s = sect' /\ m = i'
      OBVIOUS
    <2>2. Carries(r, Printed(s, m, TRUE), Printed(s, m, Shows))
      BY <1>1, <1>15, <1>16, <2>1 DEF Sound
    <2> QED
      BY <1>1, <1>6, <2>1, <2>2, PrintingGoesOn
  <1>18. TypeOK'
    <2>1. r \in Emitter /\ r.dump \in Seq(Piece)
      BY <1>15 DEF Sound, Emitter
    <2> QED
      BY <1>1, <1>2, <1>6, <1>16, <2>1 DEF TypeOK, Done
  <1>19. Behind'
    BY <1>6, <1>11, <1>13, <1>16 DEF Behind, Main, Last
  <1> QED
    BY <1>1, <1>6, <1>15, <1>17, <1>18, <1>19 DEF IInv, Right, Sound

\* So it ends: the line before is another one, or of another label.
LEMMA CloseNext ==
    ASSUME IInv, CloseMain
    PROVE  IInv'
  <1>1. /\ pc = "emit" /\ pc' = "show" /\ sect = Done
        /\ UNCHANGED <<piles, dump, saved, sect, i, shown>> /\ shown = 0
    BY DEF CloseMain, IInv, Complete
  <1>2. i = 0 /\ sect \in 1..Done /\ TypeOK
    BY <1>1 DEF IInv, TypeOK, Complete, Done
  <1>3. PICK t, w : t = "return ret;" /\ w = "}"
    OBVIOUS
  <1>4. t \in Own /\ w \in Own
    BY <1>3 DEF Own
  <1>5. PICK r : r = EmitInternal(EmitInternal(EmitComment(g, "done"), 201, t), 202, w)
    OBVIOUS
  <1>6. g' = r
    BY <1>3, <1>5 DEF CloseMain
  <1>7. g.file # Internal \/ g.line = 187
    <2>1. NoFile # Internal
      BY DEF NoFile, Internal
    <2> QED
      BY <1>1, <2>1, Labels DEF IInv, Behind
  <1>8. Before(Done, TRUE) \in Seq(Piece) /\ Before(Done, Shows) \in Seq(Piece)
    <2>1. Shows \in BOOLEAN
      BY DEF Shows
    <2> QED
      BY <1>1, <1>2, <2>1, BeforeTyped
  <1>9. Sound(g, Before(Done, TRUE), Before(Done, Shows))
    BY <1>1, <1>2 DEF IInv, TypeOK, Complete, Printed, Sound
  <1>10. Comment("done") \in Piece
    <2>1. Section[Done].name = "done"
      BY DEF Section, Done
    <2> QED
      BY <1>1, <1>2, <2>1, SectionTitle
  <1>11. PICK n \in Nat \ {0} : n = 201 /\ n + 1 = 202
    OBVIOUS
  <1>12. r = EmitInternal(EmitInternal(EmitComment(g, "done"), n, t), n + 1, w)
    BY <1>5, <1>11
  <1>13. g.file # Internal \/ (g.line # 0 /\ n # g.line + 1)
    BY <1>7, <1>11
  <1>14. Sound(r, Before(Done, TRUE) \o OwnCode("done", n, t, w, TRUE),
                  Before(Done, Shows) \o OwnCode("done", n, t, w, Shows))
    BY <1>2, <1>4, <1>8, <1>9, <1>10, <1>12, <1>13, OwnEmitted
  <1>15. ASSUME NEW l \in BOOLEAN
         PROVE  Before(Done, l) \o OwnCode("done", n, t, w, l) = Unit(l)
    <2>1. OwnCode("done", n, t, w, l) = DoneCode(l)
      BY <1>3, <1>11 DEF DoneCode
    <2> QED
      BY <2>1, BeforeDone
  <1>16. Sound(r, Unit(TRUE), Unit(Shows))
    <2>1. Shows \in BOOLEAN
      BY DEF Shows
    <2>2. /\ Before(Done, TRUE) \o OwnCode("done", n, t, w, TRUE) = Unit(TRUE)
          /\ Before(Done, Shows) \o OwnCode("done", n, t, w, Shows) = Unit(Shows)
      BY <1>15, <2>1
    <2> QED
      BY <1>14, <2>2
  <1>17. Complete'
    <2>1. PICK l : l = Shows
      OBVIOUS
    <2>2. Unit(TRUE)' = Unit(TRUE) /\ Unit(l)' = Unit(l)
      BY <1>1, UnitKept
    <2>3. Shows' = Shows
      BY <1>1 DEF Shows
    <2>4. Unit(Shows)' = Unit(Shows)
      BY <2>1, <2>2, <2>3
    <2>5. Carries(r, Unit(TRUE), Unit(Shows))
      BY <1>16 DEF Sound
    <2>6. Carries(g, Unit(TRUE), Unit(Shows))'
      BY <1>1, <1>6, <2>2, <2>4, <2>5 DEF Carries
    <2> QED
      BY <1>1, <2>6 DEF Complete
  <1>18. TypeOK'
    <2>1. r \in Emitter /\ r.dump \in Seq(Piece)
      BY <1>16 DEF Sound, Emitter
    <2> QED
      BY <1>1, <1>2, <1>6, <2>1 DEF TypeOK
  <1> QED
    BY <1>1, <1>6, <1>16, <1>17, <1>18 DEF IInv, Right, Sound

\* Showing the dump changes nothing; the end of a generation forgets the label.
LEMMA ShowNext ==
    ASSUME IInv, ShowDump \/ Finish
    PROVE  IInv'
  <1>1. CASE ShowDump
    <2>1. /\ pc = "show" /\ pc' \in {"show", "dead"}
          /\ UNCHANGED <<piles, dump, saved, sect, i, g>>
          /\ shown < Len(g.dump) /\ shown' \in {shown, shown + 1}
      BY <1>1 DEF ShowDump
    <2>2. TypeOK'
      <3>1. Len(g.dump) \in Nat
        BY DEF IInv, TypeOK, Emitter
      <3>2. shown' \in 0..Len(g.dump)
        BY <2>1, <3>1 DEF IInv, TypeOK
      <3> QED
        BY <2>1, <3>2 DEF IInv, TypeOK
    <2>3. Complete'
      <3>1. PICK l : l = Shows
        OBVIOUS
      <3>2. Unit(TRUE)' = Unit(TRUE) /\ Unit(l)' = Unit(l)
        BY <2>1, UnitKept
      <3>3. Shows' = Shows
        BY <2>1 DEF Shows
      <3>4. Unit(Shows)' = Unit(Shows)
        BY <3>1, <3>2, <3>3
      <3>5. Carries(g, Unit(TRUE), Unit(Shows))'
        BY <2>1, <3>2, <3>4 DEF Carries, IInv, Complete
      <3> QED
        BY <2>1, <3>5 DEF Complete
    <2> QED
      BY <2>1, <2>2, <2>3 DEF IInv, Right
  <1>2. CASE Finish
    <2>1. /\ pc' = "idle" /\ g' = [g EXCEPT !.file = NoFile] /\ dump' = saved
          /\ UNCHANGED <<piles, saved, sect, i, shown>>
      BY <1>2 DEF Finish
    <2>2. g \in Emitter /\ TypeOK /\ Right(g)
      BY DEF IInv, TypeOK
    <2>3. g' \in Emitter /\ g'.dump = g.dump /\ g'.file = NoFile /\ g'.marks = g.marks
      BY <2>1, <2>2 DEF Emitter
    <2>4. TypeOK'
      BY <2>1, <2>2, <2>3 DEF TypeOK
    <2>5. Right(g')
      BY <2>2, <2>3 DEF Right
    <2> QED
      BY <2>1, <2>3, <2>4, <2>5 DEF IInv, Right, Complete
  <1> QED
    BY <1>1, <1>2

\* The invariant holds in every reachable state.
THEOREM EmitterInvariant == Spec => []IInv
  <1>1. Init => IInv
    BY InitInv
  <1>2. IInv /\ [Next]_vars => IInv'
    <2>1. ASSUME IInv, UNCHANGED vars
          PROVE  IInv'
      <3>1. PICK l : l = Shows
        OBVIOUS
      <3>2. PICK s, n : s = sect /\ n = i
        OBVIOUS
      <3>3. UNCHANGED <<pc, piles, dump, saved, sect, i, g, shown>>
        BY <2>1 DEF vars
      <3>4. /\ Unit(TRUE)' = Unit(TRUE) /\ Unit(l)' = Unit(l)
            /\ Printed(s, n, TRUE)' = Printed(s, n, TRUE) /\ Printed(s, n, l)' = Printed(s, n, l)
        BY <3>3, UnitKept
      <3>5. Shows' = Shows
        BY <3>3 DEF Shows
      <3>6. /\ Unit(Shows)' = Unit(Shows)
            /\ Printed(sect, i, TRUE)' = Printed(sect, i, TRUE)
            /\ Printed(sect, i, Shows)' = Printed(sect, i, Shows)
        BY <3>1, <3>2, <3>3, <3>4, <3>5
      <3>7. Complete'
        BY <2>1, <3>3, <3>4, <3>6 DEF IInv, Complete, Carries, Content
      <3>8. TypeOK' /\ Right(g)' /\ (pc = "idle" => g.file = NoFile)'
        BY <2>1, <3>3 DEF IInv, TypeOK, Right
      <3>9. (pc = "emit" => Behind)'
        BY <2>1, <3>3 DEF IInv, Behind, UsedUp, Content
      <3> QED
        BY <3>7, <3>8, <3>9 DEF IInv, Right
    <2> QED
      BY <2>1, UseNext, SkipNext, PrintNext, OpenNext, CloseNext, ShowNext
      DEF Next, Steps, Dead
  <1> QED
    BY <1>1, <1>2, PTL DEF Spec

\* The emitter's fields, the code and the dump are always of their types.
THEOREM EmitterTyped == Spec => []TypeOK
  <1>1. IInv => TypeOK
    BY DEF IInv
  <1> QED
    BY <1>1, EmitterInvariant, PTL

\* The compiler sees every fragment and every line of main where its label says,
\* for any piles, in every generation of every context of a session.
THEOREM FragmentsAttributed == Spec => []Attribution
  <1>1. IInv => Attribution
    BY DEF IInv, Right, Attribution
  <1> QED
    BY <1>1, EmitterInvariant, PTL

\* The code that is generated is the unit of the piles, whatever was generated before.
THEOREM GenerationRepeatable == Spec => []Repeatable
  <1>1. IInv => Repeatable
    BY DEF IInv, Complete, Carries, Repeatable
  <1> QED
    BY <1>1, EmitterInvariant, PTL

\* A generation returns to the session only when all of that unit has been shown, with
\* or without its directives, or the dump is off.
THEOREM DumpShown == Spec => DumpShowsCode
  <1> DEFINE A == pc = "show" /\ pc' = "idle" =>
                      IF dump = 0 THEN g.dump = <<>> /\ shown = 0
                      ELSE shown = Len(g.dump) /\ g.dump = Unit(dump > 1)
  <1>1. IInv /\ [Next]_vars => [A]_vars
    <2> SUFFICES ASSUME IInv, Next, pc = "show", pc' = "idle"
                 PROVE  IF dump = 0 THEN g.dump = <<>> /\ shown = 0
                        ELSE shown = Len(g.dump) /\ g.dump = Unit(dump > 1)
      OBVIOUS
    <2>1. Finish
      BY DEF Next, Use, Push, Chain, Run, CmdDump, Generate, Steps, SkipSection, Printing,
             PrintItem, OpenMain, CloseMain, ShowDump, Dead, vars
    <2>2. Carries(g, Unit(TRUE), Unit(Shows))
      BY DEF IInv, Complete
    <2>3. CASE dump = 0
      <3>1. g.dump = <<>>
        BY <2>2, <2>3 DEF Carries
      <3>2. shown = 0
        BY <3>1 DEF IInv, TypeOK
      <3> QED
        BY <2>3, <3>1, <3>2
    <2>4. CASE dump # 0
      <3>1. g.dump = Unit(dump > 1)
        BY <2>2, <2>4 DEF Carries, Shows
      <3>2. shown = Len(g.dump)
        BY <2>1, <2>4 DEF Finish
      <3> QED
        BY <2>4, <3>1, <3>2
    <2> QED
      BY <2>3, <2>4
  <1> QED
    BY <1>1, EmitterInvariant, PTL DEF Spec, DumpShowsCode

\* Every step of a generation leads on: to a later item, section or chunk of the dump
\* that is there, or out.
THEOREM GenerationAdvances == Spec => GenerationMoves
  <1> DEFINE A == Steps => Onward /\ UNCHANGED piles
  <1>1. ASSUME IInv, Steps
        PROVE  Onward /\ UNCHANGED piles
    <2>1. /\ sect \in 1..Done /\ i \in Nat /\ shown \in Nat /\ Len(g.dump) \in Nat
          /\ shown <= Len(g.dump)
      BY <1>1 DEF IInv, TypeOK, Emitter
    <2>2. ASSUME sect # Done, NextSection
          PROVE  sect < sect' /\ sect' <= Done
      BY <2>1, <2>2 DEF NextSection, Done
    <2>3. CASE SkipSection
      BY <2>2, <2>3 DEF SkipSection, Printing, Onward
    <2>4. CASE PrintItem
      <3>1. /\ pc = "emit" /\ pc' = "emit" /\ sect # Done /\ i < Len(Content) /\ UNCHANGED piles
            /\ NextItem
        BY <2>4 DEF PrintItem, Printing
      <3>2. Len(Content) \in Nat
        BY <1>1, <2>1, <2>4, SectionPile DEF IInv, TypeOK, Content, PrintItem, Printing
      <3>3. CASE i + 1 = Len(Content)
        BY <2>2, <3>1, <3>3 DEF NextItem, Onward
      <3>4. CASE i + 1 # Len(Content)
        BY <2>1, <3>1, <3>2, <3>4 DEF NextItem, Onward
      <3> QED
        BY <3>3, <3>4
    <2>5. CASE OpenMain
      <3>1. pc = "emit" /\ sect = Main /\ NextSection /\ UNCHANGED <<pc, piles>>
        BY <2>5 DEF OpenMain
      <3>2. Main # Done
        BY DEF Main, Done
      <3> QED
        BY <2>2, <3>1, <3>2 DEF Onward
    <2>6. CASE CloseMain
      BY <2>6 DEF CloseMain, Onward
    <2>7. CASE ShowDump
      BY <2>1, <2>7 DEF ShowDump, Onward
    <2>8. CASE Finish
      BY <2>8 DEF Finish, Onward
    <2> QED
      BY <1>1, <2>3, <2>4, <2>5, <2>6, <2>7, <2>8 DEF Steps
  <1>2. IInv /\ [Next]_vars => [A]_vars
    BY <1>1
  <1> QED
    BY <1>2, EmitterInvariant, PTL DEF Spec, GenerationMoves
=============================================================================
