-------------------------- MODULE CplrHistoryProofs --------------------------
(***************************************************************************)
(* Theorems about the shared history file, for any number of sessions and  *)
(* of lines.                                                               *)
(*                                                                         *)
(* What is kept up by every step: the file and every list are in order and *)
(* hold no line that was not typed yet; a list holds the lines of its own  *)
(* session; and what the file holds and an open session does not know has  *)
(* been saved since it began.                                              *)
(***************************************************************************)
EXTENDS CplrHistory, TLAPS

Ordered(q) ==
    \A j, k \in 1..Len(q) :
        j < k => q[j] # q[k] /\ (q[j][1] = q[k][1] => q[j][2] < q[k][2])

WasTyped(q) == \A j \in 1..Len(q) : q[j][2] <= typed[q[j][1]]

Sequels ==
    /\ Ordered(file) /\ WasTyped(file)
    /\ \A s \in Session : Ordered(list[s]) /\ WasTyped(list[s])

Own ==
    \A s \in Session :
        /\ pc[s] = "new" => typed[s] = 0
        /\ pc[s] = "open" => \A n \in 1..typed[s] : <<s, n>> \in Range(list[s])

Known ==
    \A s \in Session :
        pc[s] = "open" /\ ~forced[s] => Range(file) \subseteq Range(list[s]) \cup since[s]

IInv == TypeOK /\ Sequels /\ Own /\ Known

-----------------------------------------------------------------------------
(* Sequences of lines                                                      *)

\* What Append does to the range of a sequence.
LEMMA RangeAppend ==
    ASSUME NEW S, NEW q \in Seq(S), NEW x \in S
    PROVE  /\ Append(q, x) \in Seq(S)
           /\ Range(Append(q, x)) = Range(q) \cup {x}
  <1>1. Append(q, x) \in Seq(S) /\ Len(Append(q, x)) = Len(q) + 1 /\ Len(q) \in Nat
    OBVIOUS
  <1>2. DOMAIN q = 1..Len(q) /\ DOMAIN Append(q, x) = 1..(Len(q) + 1)
    OBVIOUS
  <1>3. \A i \in 1..Len(q) : Append(q, x)[i] = q[i]
    OBVIOUS
  <1>4. Append(q, x)[Len(q) + 1] = x
    OBVIOUS
  <1>5. \A i \in 1..(Len(q) + 1) : i \in 1..Len(q) \/ i = Len(q) + 1
    BY <1>1
  <1>6. Len(q) + 1 \in 1..(Len(q) + 1) /\ 1..Len(q) \subseteq 1..(Len(q) + 1)
    BY <1>1
  <1> QED
    BY <1>1, <1>2, <1>3, <1>4, <1>5, <1>6 DEF Range

\* The elements of a sequence are in its range, and nothing else is.
LEMMA RangeOf ==
    ASSUME NEW S, NEW q \in Seq(S)
    PROVE  /\ \A j \in 1..Len(q) : q[j] \in Range(q) /\ q[j] \in S
           /\ \A x \in Range(q) : \E j \in 1..Len(q) : q[j] = x
           /\ Range(q) \subseteq S
  BY DEF Range

\* A line with the next number goes to the end of an ordered list.
LEMMA AppendOrdered ==
    ASSUME TypeOK, NEW s \in Session, NEW q \in Seq(Line), Ordered(q), WasTyped(q),
           NEW n \in Nat, n = typed[s] + 1
    PROVE  Ordered(Append(q, <<s, n>>))
  <1> DEFINE r == Append(q, <<s, n>>)
  <1>1. Len(r) = Len(q) + 1 /\ Len(q) \in Nat
    OBVIOUS
  <1>2. r[Len(q) + 1] = <<s, n>> /\ \A i \in 1..Len(q) : r[i] = q[i]
    OBVIOUS
  <1>3. SUFFICES ASSUME NEW j \in 1..Len(r), NEW k \in 1..Len(r), j < k
                 PROVE  r[j] # r[k] /\ (r[j][1] = r[k][1] => r[j][2] < r[k][2])
    BY DEF Ordered
  <1>4. j \in 1..Len(q) /\ r[j] = q[j]
    BY <1>1, <1>2, <1>3
  <1>5. CASE k \in 1..Len(q)
    BY <1>2, <1>3, <1>4, <1>5 DEF Ordered
  <1>6. CASE k = Len(q) + 1
    <2>1. q[j] \in Line /\ typed[q[j][1]] \in Nat
      <3>1. q[j] \in Line /\ q[j][1] \in Session
        BY <1>4 DEF Line
      <3> QED
        BY <3>1, HistoryAssumption DEF TypeOK
    <2>2. q[j][2] <= typed[q[j][1]] /\ q[j][2] \in Nat
      BY <1>4, <2>1 DEF WasTyped, Line
    <2>3. q[j][1] = s => q[j][2] < n
      <3>1. ASSUME NEW x \in Nat, x <= typed[s]
            PROVE  x < n
        BY <3>1, HistoryAssumption DEF TypeOK
      <3> QED
        BY <2>2, <3>1
    <2>4. q[j] # <<s, n>>
      BY <2>2, <2>3
    <2> QED
      BY <1>2, <1>4, <1>6, <2>3, <2>4
  <1> QED
    BY <1>1, <1>5, <1>6

-----------------------------------------------------------------------------
(* The invariant                                                           *)

\* Initially all is empty.
LEMMA InitInv == Init => IInv
  <1> SUFFICES ASSUME Init
               PROVE  IInv
    OBVIOUS
  <1>1. TypeOK
    BY HistoryAssumption DEF Init, TypeOK
  <1>2. Sequels
    BY DEF Init, Sequels, Ordered, WasTyped
  <1>3. Own /\ Known
    BY DEF Init, Own, Known
  <1> QED
    BY <1>1, <1>2, <1>3 DEF IInv

\* Every step leaves the variables well typed.
LEMMA TypeNext ==
    ASSUME TypeOK, [Next]_vars
    PROVE  TypeOK'
  <1>1. ASSUME NEW s \in Session, BeginAuto(s) \/ BeginForced(s) \/ Exit(s)
        PROVE  TypeOK'
    BY <1>1 DEF TypeOK, BeginAuto, BeginForced, Exit
  <1>2. ASSUME NEW s \in Session, Type(s)
        PROVE  TypeOK'
    <2>1. typed[s] + 1 \in 1..MaxLines
      BY <1>2, HistoryAssumption DEF TypeOK, Type
    <2>2. <<s, typed[s] + 1>> \in Line
      BY <2>1 DEF Line
    <2>3. Append(list[s], <<s, typed[s] + 1>>) \in Seq(Line)
      BY <2>2 DEF TypeOK
    <2>4. typed' \in [Session -> 0..MaxLines]
      BY <1>2, <2>1, HistoryAssumption DEF TypeOK, Type
    <2>5. list' \in [Session -> Seq(Line)]
      BY <1>2, <2>3 DEF TypeOK, Type
    <2> QED
      BY <1>2, <2>4, <2>5 DEF TypeOK, Type
  <1>3. ASSUME NEW s \in Session, End(s)
        PROVE  TypeOK'
    <2>1. list[s] \in Seq(Line) /\ Range(list[s]) \subseteq Line
      BY RangeOf DEF TypeOK
    <2>2. since' \in [Session -> SUBSET Line]
      BY <1>3, <2>1 DEF TypeOK, End, Saved
    <2>3. file' \in Seq(Line)
      BY <1>3, <2>1 DEF End, Saved
    <2> QED
      BY <1>3, <2>2, <2>3 DEF TypeOK, End
  <1>4. CASE UNCHANGED vars
    BY <1>4 DEF vars, TypeOK
  <1> QED
    BY <1>1, <1>2, <1>3, <1>4 DEF Next, Done

\* Every step leaves the file and the lists in order.
LEMMA SequelsNext ==
    ASSUME TypeOK, Sequels, [Next]_vars
    PROVE  Sequels'
  <1>1. ASSUME NEW s \in Session, BeginAuto(s)
        PROVE  Sequels'
    <2>1. \A r \in Session : list'[r] = list[r] \/ list'[r] = file
      BY <1>1 DEF TypeOK, BeginAuto
    <2> QED
      BY <1>1, <2>1 DEF BeginAuto, Sequels, Ordered, WasTyped
  <1>2. ASSUME NEW s \in Session, BeginForced(s) \/ Exit(s)
        PROVE  Sequels'
    BY <1>2 DEF BeginForced, Exit, Sequels, Ordered, WasTyped
  <1>3. ASSUME NEW s \in Session, Type(s)
        PROVE  Sequels'
    <2>1. /\ typed[s] \in Nat /\ typed[s] + 1 \in Nat
          /\ <<s, typed[s] + 1>> \in Line
      BY <1>3, HistoryAssumption DEF TypeOK, Type, Line
    <2>2. /\ \A r \in Session : r # s => list'[r] = list[r]
          /\ list'[s] = Append(list[s], <<s, typed[s] + 1>>)
          /\ file' = file /\ typed' = [typed EXCEPT ![s] = @ + 1]
      BY <1>3 DEF TypeOK, Type
    <2>3. Ordered(list'[s])
      BY <2>1, <2>2, AppendOrdered DEF TypeOK, Sequels
    <2>4. ASSUME NEW q \in Seq(Line), WasTyped(q)
          PROVE  \A j \in 1..Len(q) : q[j][2] <= typed'[q[j][1]]
      <3> TAKE j \in 1..Len(q)
      <3>1. q[j][1] \in Session /\ q[j][2] \in Nat
        BY <2>4 DEF Line
      <3>2. q[j][2] <= typed[q[j][1]]
        BY <2>4 DEF WasTyped
      <3>3. typed[q[j][1]] \in Nat
        BY <3>1, HistoryAssumption DEF TypeOK
      <3>4. typed'[q[j][1]] = typed[q[j][1]] \/ typed'[q[j][1]] = typed[q[j][1]] + 1
        BY <2>2, <3>1 DEF TypeOK
      <3> QED
        BY <3>1, <3>2, <3>3, <3>4
    <2>5. \A r \in Session : r # s => WasTyped(list[r])'
      BY <2>2, <2>4 DEF TypeOK, Sequels, WasTyped
    <2>6. WasTyped(file)'
      BY <2>2, <2>4 DEF TypeOK, Sequels, WasTyped
    <2>7. WasTyped(list[s])'
      <3>1. list[s] \in Seq(Line) /\ Len(list'[s]) = Len(list[s]) + 1 /\ Len(list[s]) \in Nat
        BY <2>2 DEF TypeOK
      <3>2. /\ list'[s][Len(list[s]) + 1] = <<s, typed[s] + 1>>
            /\ \A i \in 1..Len(list[s]) : list'[s][i] = list[s][i]
        BY <2>2, <3>1
      <3>3. \A i \in 1..Len(list[s]) : list[s][i][2] <= typed'[list[s][i][1]]
        BY <2>4, <3>1 DEF Sequels
      <3>4. typed'[s] = typed[s] + 1
        BY <2>2 DEF TypeOK
      <3>5. \A i \in 1..Len(list'[s]) : i \in 1..Len(list[s]) \/ i = Len(list[s]) + 1
        BY <3>1
      <3>6. ASSUME NEW i \in 1..Len(list'[s])
            PROVE  list'[s][i][2] <= typed'[list'[s][i][1]]
        <4>1. CASE i \in 1..Len(list[s])
          BY <3>2, <3>3, <4>1
        <4>2. CASE i = Len(list[s]) + 1
          <5>1. list'[s][i][1] = s /\ list'[s][i][2] = typed[s] + 1
            BY <3>2, <4>2
          <5> QED
            BY <2>1, <3>4, <5>1
        <4> QED
          BY <3>5, <4>1, <4>2
      <3> QED
        BY <3>6 DEF WasTyped
    <2>8. \A r \in Session : r # s => Ordered(list[r])'
      BY <2>2 DEF Sequels, Ordered
    <2>9. Ordered(file)'
      BY <2>2 DEF Sequels, Ordered
    <2> QED
      BY <2>3, <2>5, <2>6, <2>7, <2>8, <2>9 DEF Sequels, Ordered
  <1>4. ASSUME NEW s \in Session, End(s)
        PROVE  Sequels'
    BY <1>4 DEF End, Saved, Sequels, Ordered, WasTyped
  <1>5. CASE UNCHANGED vars
    BY <1>5 DEF vars, Sequels, Ordered, WasTyped
  <1> QED
    BY <1>1, <1>2, <1>3, <1>4, <1>5 DEF Next, Done

\* Every step leaves the lines of an open session on its list.
LEMMA OwnNext ==
    ASSUME TypeOK, Own, [Next]_vars
    PROVE  Own'
  <1>1. ASSUME NEW s \in Session, BeginAuto(s) \/ BeginForced(s)
        PROVE  Own'
    <2>1. typed[s] = 0 /\ typed' = typed
      BY <1>1 DEF Own, BeginAuto, BeginForced
    <2>2. \A r \in Session : r # s => pc'[r] = pc[r] /\ list'[r] = list[r]
      BY <1>1 DEF TypeOK, BeginAuto, BeginForced
    <2>3. pc'[s] = "open"
      BY <1>1 DEF TypeOK, BeginAuto, BeginForced
    <2> QED
      BY <2>1, <2>2, <2>3 DEF Own
  <1>2. ASSUME NEW s \in Session, Type(s)
        PROVE  Own'
    <2>1. /\ typed[s] \in Nat /\ <<s, typed[s] + 1>> \in Line /\ list[s] \in Seq(Line)
      BY <1>2, HistoryAssumption DEF TypeOK, Type, Line
    <2>2. Range(list'[s]) = Range(list[s]) \cup {<<s, typed[s] + 1>>}
      <3>1. list'[s] = Append(list[s], <<s, typed[s] + 1>>)
        BY <1>2 DEF TypeOK, Type
      <3> QED
        BY <2>1, <3>1, RangeAppend
    <2>3. typed'[s] = typed[s] + 1 /\ pc[s] = "open" /\ pc' = pc
      BY <1>2 DEF TypeOK, Type
    <2>4. \A n \in 1..typed'[s] : n \in 1..typed[s] \/ n = typed[s] + 1
      BY <2>1, <2>3
    <2>5. \A n \in 1..typed'[s] : <<s, n>> \in Range(list'[s])
      BY <2>2, <2>3, <2>4 DEF Own
    <2>6. \A r \in Session : r # s => typed'[r] = typed[r] /\ list'[r] = list[r]
      BY <1>2 DEF TypeOK, Type
    <2> QED
      BY <2>3, <2>5, <2>6 DEF Own
  <1>3. ASSUME NEW s \in Session, Exit(s) \/ End(s)
        PROVE  Own'
    <2>1. UNCHANGED <<list, typed>>
      BY <1>3 DEF Exit, End
    <2>2. pc'[s] # "open" /\ pc'[s] # "new" /\ \A r \in Session : r # s => pc'[r] = pc[r]
      BY <1>3 DEF TypeOK, Exit, End
    <2> QED
      BY <2>1, <2>2 DEF Own
  <1>4. CASE UNCHANGED vars
    BY <1>4 DEF vars, Own
  <1> QED
    BY <1>1, <1>2, <1>3, <1>4 DEF Next, Done

\* Every step leaves what an open session does not know to lines saved since it began.
LEMMA KnownNext ==
    ASSUME TypeOK, Known, [Next]_vars
    PROVE  Known'
  <1>1. ASSUME NEW s \in Session, BeginAuto(s)
        PROVE  Known'
    <2>1. \A r \in Session : r # s => pc'[r] = pc[r] /\ list'[r] = list[r]
      BY <1>1 DEF TypeOK, BeginAuto
    <2>2. list'[s] = file /\ file' = file
      BY <1>1 DEF TypeOK, BeginAuto
    <2>3. UNCHANGED <<forced, since>>
      BY <1>1 DEF BeginAuto
    <2> QED
      BY <2>1, <2>2, <2>3 DEF Known
  <1>2. ASSUME NEW s \in Session, BeginForced(s)
        PROVE  Known'
    <2>1. \A r \in Session : r # s => pc'[r] = pc[r] /\ forced'[r] = forced[r]
      BY <1>2 DEF TypeOK, BeginForced
    <2>2. forced'[s] /\ UNCHANGED <<file, list, since>>
      BY <1>2 DEF TypeOK, BeginForced
    <2> QED
      BY <2>1, <2>2 DEF Known
  <1>3. ASSUME NEW s \in Session, Type(s)
        PROVE  Known'
    <2>1. /\ <<s, typed[s] + 1>> \in Line /\ list[s] \in Seq(Line)
      BY <1>3, HistoryAssumption DEF TypeOK, Type, Line
    <2>2. Range(list[s]) \subseteq Range(list'[s])
      BY <1>3, <2>1, RangeAppend DEF TypeOK, Type
    <2>3. \A r \in Session : r # s => list'[r] = list[r]
      BY <1>3 DEF TypeOK, Type
    <2>4. UNCHANGED <<pc, forced, file, since>>
      BY <1>3 DEF Type
    <2> QED
      BY <2>2, <2>3, <2>4 DEF Known
  <1>4. ASSUME NEW s \in Session, Exit(s)
        PROVE  Known'
    BY <1>4 DEF TypeOK, Exit, Known
  <1>5. ASSUME NEW s \in Session, End(s)
        PROVE  Known'
    <2>1. UNCHANGED <<forced, list>> /\ file' = list[s]
      BY <1>5 DEF End, Saved
    <2>2. pc'[s] # "open" /\ \A r \in Session : r # s => pc'[r] = pc[r]
      BY <1>5 DEF TypeOK, End
    <2>3. \A r \in Session : r # s /\ pc[r] = "open" => Range(list[s]) \subseteq since'[r]
      BY <1>5 DEF End, Saved
    <2> QED
      BY <2>1, <2>2, <2>3 DEF Known
  <1>6. CASE UNCHANGED vars
    BY <1>6 DEF vars, Known
  <1> QED
    BY <1>1, <1>2, <1>3, <1>4, <1>5, <1>6 DEF Next, Done

\* The invariant holds in every reachable state.
THEOREM HistoryInvariant == Spec => []IInv
  <1>1. Init => IInv
    BY InitInv
  <1>2. IInv /\ [Next]_vars => IInv'
    BY TypeNext, SequelsNext, OwnNext, KnownNext DEF IInv
  <1> QED
    BY <1>1, <1>2, PTL DEF Spec

-----------------------------------------------------------------------------
(* Theorems                                                                *)

\* Every reachable state is well typed.
THEOREM HistoryTyped == Spec => []TypeOK
  <1>1. IInv => TypeOK
    BY DEF IInv
  <1> QED
    BY <1>1, HistoryInvariant, PTL

\* No line comes twice in the file, and the lines of a session stay in order,
\* whatever sessions write over one another.
THEOREM FileInOrder == Spec => []LinesInOrder
  <1>1. IInv => LinesInOrder
    BY DEF IInv, Sequels, Ordered, LinesInOrder
  <1> QED
    BY <1>1, HistoryInvariant, PTL

\* A line only leaves the file when a session ends that could not have read it; no
\* other step takes one, and above all not the loss of a process.
THEOREM LossIsExplained == Spec => LossExplained
  <1>1. ASSUME IInv, [Next]_vars
        PROVE  [\A l \in Range(file) \ Range(file') :
                   \E s \in Session : /\ pc[s] = "open" /\ pc'[s] = "closed"
                                      /\ forced[s] \/ l \in since[s]]_vars
    <2>1. SUFFICES ASSUME NEW l \in Range(file) \ Range(file')
                   PROVE  \E s \in Session : /\ pc[s] = "open" /\ pc'[s] = "closed"
                                             /\ forced[s] \/ l \in since[s]
      OBVIOUS
    <2>2. file' # file
      BY <2>1
    <2>3. ASSUME NEW s \in Session, BeginAuto(s) \/ BeginForced(s) \/ Type(s) \/ Exit(s)
          PROVE  FALSE
      BY <2>2, <2>3 DEF BeginAuto, BeginForced, Type, Exit
    <2>4. ASSUME NEW s \in Session, End(s)
          PROVE  /\ pc[s] = "open" /\ pc'[s] = "closed"
                 /\ forced[s] \/ l \in since[s]
      <3>1. pc[s] = "open" /\ pc'[s] = "closed" /\ file' = list[s]
        BY <1>1, <2>4 DEF IInv, TypeOK, End, Saved
      <3>2. ~forced[s] => l \in Range(list[s]) \cup since[s]
        BY <1>1, <2>1, <3>1 DEF IInv, Known
      <3> QED
        BY <2>1, <3>1, <3>2
    <2>5. ~UNCHANGED vars
      BY <2>2 DEF vars
    <2> QED
      BY <1>1, <2>3, <2>4, <2>5 DEF Next, Done
  <1> QED
    BY <1>1, HistoryInvariant, PTL DEF Spec, LossExplained

\* Sessions one after the other keep all that was ever typed.
THEOREM SerialSessionsKeepAll == Spec => []SerialKeepsAll
  <1>1. Init => SerialKeepsAll
    BY DEF Init, SerialKeepsAll
  <1>2. ASSUME IInv, SerialKeepsAll, [Next]_vars
        PROVE  SerialKeepsAll'
    <2>1. SUFFICES ASSUME Orderly', NEW s \in Session, pc'[s] = "closed",
                          NEW n \in 1..typed'[s]
                   PROVE  <<s, n>> \in Range(file')
      BY DEF SerialKeepsAll
    <2>2. ASSUME NEW r \in Session, BeginAuto(r) \/ BeginForced(r) \/ Type(r) \/ Exit(r)
          PROVE  <<s, n>> \in Range(file')
      <3>1. file' = file /\ pc[s] = "closed" /\ typed'[s] = typed[s]
        BY <1>2, <2>1, <2>2 DEF IInv, TypeOK, BeginAuto, BeginForced, Type, Exit
      <3>2. Orderly
        BY <1>2, <2>1, <2>2 DEF Orderly, IInv, TypeOK, BeginAuto, BeginForced, Type, Exit
      <3> QED
        BY <1>2, <2>1, <3>1, <3>2 DEF SerialKeepsAll
    <2>3. ASSUME NEW r \in Session, End(r)
          PROVE  <<s, n>> \in Range(file')
      <3>1. pc[r] = "open" /\ file' = list[r] /\ UNCHANGED <<forced, typed>>
        BY <2>3 DEF End, Saved
      <3>2. \A q \in Session : q # r => pc'[q] = pc[q]
        BY <1>2, <2>3 DEF IInv, TypeOK, End
      <3>3. \A q \in Session : since[q] \subseteq since'[q]
        BY <1>2, <2>3 DEF IInv, TypeOK, End
      <3>4. \A q \in Session : ~forced[q] /\ since[q] = {}
        BY <2>1, <3>1, <3>3 DEF Orderly
      <3>5. Orderly
        BY <2>1, <3>1, <3>2, <3>4 DEF Orderly
      <3>6. CASE s = r
        BY <1>2, <2>1, <3>1, <3>6 DEF IInv, Own
      <3>7. CASE s # r
        <4>1. <<s, n>> \in Range(file)
          BY <1>2, <2>1, <3>1, <3>2, <3>5, <3>7 DEF SerialKeepsAll
        <4> QED
          BY <1>2, <3>1, <3>4, <4>1 DEF IInv, Known
      <3> QED
        BY <3>6, <3>7
    <2>4. CASE UNCHANGED vars
      BY <1>2, <2>1, <2>4 DEF vars, SerialKeepsAll, Orderly
    <2> QED
      BY <1>2, <2>2, <2>3, <2>4 DEF Next, Done
  <1> QED
    BY <1>1, <1>2, HistoryInvariant, PTL DEF Spec
=============================================================================
