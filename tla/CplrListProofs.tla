--------------------------- MODULE CplrListProofs ---------------------------
(***************************************************************************)
(* Theorems about CplrList, for any number of addresses, texts, piles and  *)
(* contexts.                                                               *)
(***************************************************************************)
EXTENDS CplrList, Integers, TLAPS

-----------------------------------------------------------------------------
(* The inductive invariant                                                 *)

\* The nodes of all lists are the allocated ones, each in one place.
Places ==
    /\ OnePlace
    /\ \A l \in List : \A i \in 1..Len(order[l]) : order[l][i] \in live
    /\ \A a \in live : \E l \in List : \E i \in 1..Len(order[l]) : order[l][i] = a

\* The allocated strings are the ones the nodes own, each owned once.
Owners ==
    /\ OneOwner
    /\ \A a \in live : node[a].str \in Str => node[a].str \in Allocated
    /\ \A s \in Allocated : \E a \in live : node[a].str = s

\* A list whose first nodes l_clear has freed already.
Clearing(l) == InWork(l) /\ pc \in {"trim", "free"}

\* All lists are linked; the first node of one that is being cleared still points
\* back to a node that is gone.
Links ==
    \A l \in List : \A i \in 1..Len(order[l]) :
        LET a == node[order[l][i]]
        IN  /\ a.h = l
            /\ a.n = IF i < Len(order[l]) THEN order[l][i + 1] ELSE NULL
            /\ i > 1 => a.p = order[l][i - 1]
            /\ i = 1 /\ ~Clearing(l) => a.p = NULL

Heads == \A l \in List : ~InWork(l) => Headed(l)

\* What l_clone has done so far: a prefix of the source, text by text.
Cloning ==
    LET src == order[<<last - 1, pile>>]
        dst == order[<<last, pile>>]
    IN  pc \in {"clone", "fault"} /\ pile # NULL =>
            /\ Len(dst) <= Len(src)
            /\ at = IF Len(dst) < Len(src) THEN src[Len(dst) + 1] ELSE NULL
            /\ fdst = IF dst = <<>> THEN NULL ELSE dst[1]
            /\ ndst = IF dst = <<>> THEN NULL ELSE dst[Len(dst)]
            /\ \A i \in 1..Len(dst) : TextOf(dst[i]) = TextOf(src[i])

\* Where a loop of l_clear stands.
ClearingAt ==
    LET o == order[<<last, pile>>]
    IN  pc \in {"trim", "free"} /\ pile # NULL =>
            at = IF o = <<>> THEN NULL ELSE o[1]

\* The control: which phases work on a pile, and what they have done with the others.
Phases ==
    /\ pc # "gone" => last >= 1
    /\ pc \in {"clone", "trim", "fault"} => last >= 2
    /\ pc \in {"parse", "prompt", "gone"} => pile = NULL
    /\ pc \in {"trim", "free"} => todo \cap {pile} = {} /\ fdst = NULL /\ ndst = NULL
    /\ pile = NULL => at = NULL /\ ndst = NULL /\ fdst = NULL
    /\ pc = "clone" => \A p \in todo : p # pile /\ order[<<last, p>>] = <<>>
    /\ pc = "free" => \A p \in Managed \ todo : p # pile => order[<<last, p>>] = <<>>
    /\ pc = "trim" => todo \subseteq Volatile /\ pile \in Volatile \cup {NULL}
    /\ \A l \in List : l[1] > last /\ l[2] \in Managed => order[l] = <<>>

IInv == TypeOK /\ Places /\ Owners /\ Links /\ Heads /\ Cloning /\ ClearingAt /\ Phases
-----------------------------------------------------------------------------
(* A list that grows, and a list that loses its first node                 *)

\* What appending to one list does to the orders.
LEMMA OrderGrows ==
    ASSUME TypeOK, NEW l \in List, NEW a \in Node,
           order' = [order EXCEPT ![l] = Append(@, a)]
    PROVE  /\ order' \in [List -> Seq(Node)]
           /\ Len(order'[l]) = Len(order[l]) + 1
           /\ order'[l][Len(order[l]) + 1] = a
           /\ \A i \in 1..Len(order[l]) : order'[l][i] = order[l][i]
           /\ \A m \in List : m # l => order'[m] = order[m]
           /\ order'[l] # <<>>
  <1>1. order[l] \in Seq(Node) /\ order'[l] = Append(order[l], a)
    BY DEF TypeOK
  <1> QED
    BY <1>1 DEF TypeOK

\* What taking the first node away does to the orders.
LEMMA OrderShrinks ==
    ASSUME TypeOK, NEW l \in List, order[l] # <<>>,
           order' = [order EXCEPT ![l] = Tail(@)]
    PROVE  /\ order' \in [List -> Seq(Node)]
           /\ Len(order[l]) >= 1
           /\ Len(order'[l]) = Len(order[l]) - 1
           /\ \A i \in 1..Len(order'[l]) : order'[l][i] = order[l][i + 1]
           /\ \A m \in List : m # l => order'[m] = order[m]
  <1>1. order[l] \in Seq(Node) /\ order'[l] = Tail(order[l])
    BY DEF TypeOK
  <1> QED
    BY <1>1 DEF TypeOK

\* A new node at the end of a list keeps every node in one place.
LEMMA PlacesGrow ==
    ASSUME TypeOK, Places, NEW l \in List, NEW a \in Node \ live,
           order' = [order EXCEPT ![l] = Append(@, a)], live' = live \cup {a}
    PROVE  Places'
  <1>1. \A m \in List : order[m] \in Seq(Node)
    BY DEF TypeOK
  <1>2. \A m \in List : \A i \in 1..Len(order'[m]) :
            \/ i \in 1..Len(order[m]) /\ order'[m][i] = order[m][i]
            \/ m = l /\ i = Len(order[l]) + 1 /\ order'[m][i] = a
    BY <1>1, OrderGrows
  <1>3. \A m \in List : \A i \in 1..Len(order[m]) :
            order[m][i] \in live /\ i \in 1..Len(order'[m]) /\ order'[m][i] = order[m][i]
    BY <1>1, OrderGrows DEF Places
  <1>4. OnePlace'
    BY <1>2, <1>3 DEF OnePlace, Places
  <1>5. \A m \in List : \A i \in 1..Len(order'[m]) : order'[m][i] \in live'
    BY <1>2, <1>3
  <1>6. ASSUME NEW b \in live'
        PROVE  \E m \in List : \E i \in 1..Len(order'[m]) : order'[m][i] = b
    <2>1. CASE b = a
      <3>1. Len(order[l]) \in Nat /\ Len(order'[l]) = Len(order[l]) + 1
        <4>1. Len(order[l]) \in Nat
          BY <1>1
        <4>2. Len(order'[l]) = Len(order[l]) + 1
          BY OrderGrows
        <4> QED
          BY <4>1, <4>2
      <3>2. Len(order[l]) + 1 \in 1..Len(order'[l])
        BY <3>1
      <3>3. order'[l][Len(order[l]) + 1] = a
        BY OrderGrows
      <3> QED
        BY <2>1, <3>2, <3>3
    <2>2. CASE b \in live
      BY <2>2, <1>3 DEF Places
    <2> QED
      BY <2>1, <2>2
  <1> QED
    BY <1>4, <1>5, <1>6 DEF Places

\* Freeing the first node of a list keeps every other node in one place.
LEMMA PlacesShrink ==
    ASSUME TypeOK, Places, NEW l \in List, order[l] # <<>>,
           order' = [order EXCEPT ![l] = Tail(@)], live' = live \ {order[l][1]}
    PROVE  Places'
  <1>1. \A m \in List : order[m] \in Seq(Node)
    BY DEF TypeOK
  <1> DEFINE j(m, i) == IF m = l THEN i + 1 ELSE i
  <1>2. \A m \in List : \A i \in 1..Len(order'[m]) :
            j(m, i) \in 1..Len(order[m]) /\ order'[m][i] = order[m][j(m, i)]
    <2> SUFFICES ASSUME NEW m \in List, NEW i \in 1..Len(order'[m])
                 PROVE  j(m, i) \in 1..Len(order[m]) /\ order'[m][i] = order[m][j(m, i)]
      OBVIOUS
    <2>1. Len(order[l]) \in Nat /\ Len(order'[l]) = Len(order[l]) - 1
      <3>1. Len(order[l]) \in Nat
        BY <1>1
      <3>2. Len(order'[l]) = Len(order[l]) - 1
        BY OrderShrinks
      <3> QED
        BY <3>1, <3>2
    <2>2. CASE m = l
      <3>1. order'[l][i] = order[l][i + 1]
        BY <2>2, OrderShrinks
      <3> QED
        BY <2>1, <2>2, <3>1
    <2>3. CASE m # l
      BY <2>3, OrderShrinks
    <2> QED
      BY <2>2, <2>3
  <1>3. 1 \in 1..Len(order[l])
    BY <1>1, OrderShrinks
  <1>4. \A m \in List : \A i \in 1..Len(order'[m]) : m # l \/ j(m, i) # 1
    OBVIOUS
  <1>5. OnePlace'
    <2> SUFFICES ASSUME NEW m \in List, NEW k \in List,
                        NEW i \in 1..Len(order'[m]), NEW h \in 1..Len(order'[k]),
                        order'[m][i] = order'[k][h]
                 PROVE  m = k /\ i = h
      BY DEF OnePlace
    <2>1. m = k /\ j(m, i) = j(k, h)
      BY <1>2 DEF Places, OnePlace
    <2> QED
      BY <2>1
  <1>6. \A m \in List : \A i \in 1..Len(order'[m]) : order'[m][i] \in live'
    BY <1>2, <1>3, <1>4 DEF Places, OnePlace
  <1>7. ASSUME NEW b \in live'
        PROVE  \E m \in List : \E i \in 1..Len(order'[m]) : order'[m][i] = b
    <2>1. PICK m \in List : \E i \in 1..Len(order[m]) : order[m][i] = b
      BY DEF Places
    <2>2. PICK i \in 1..Len(order[m]) : order[m][i] = b
      BY <2>1
    <2>3. CASE m = l
      <3>1. i # 1
        BY <2>2, <2>3
      <3>2. Len(order[l]) \in Nat /\ Len(order'[l]) = Len(order[l]) - 1
        <4>1. Len(order[l]) \in Nat
          BY <1>1
        <4>2. Len(order'[l]) = Len(order[l]) - 1
          BY OrderShrinks
        <4> QED
          BY <4>1, <4>2
      <3>3. i - 1 \in 1..Len(order'[l]) /\ (i - 1) + 1 = i
        BY <3>1, <3>2, <2>3
      <3>4. \A k \in 1..Len(order'[l]) : order'[l][k] = order[l][k + 1]
        BY OrderShrinks
      <3> QED
        BY <3>3, <3>4, <2>2, <2>3
    <2>4. CASE m # l
      BY <2>2, <2>4, OrderShrinks
    <2> QED
      BY <2>3, <2>4
  <1> QED
    BY <1>5, <1>6, <1>7 DEF Places

-----------------------------------------------------------------------------
(* Strings                                                                 *)

\* A new node that owns a newly allocated string.
LEMMA OwnersGrow ==
    ASSUME TypeOK, Owners, NEW a \in Node \ live, NEW s \in Str \ Allocated, NEW t,
           Alloc(s, t), live' = live \cup {a},
           node'[a].str = s, node'[a].owned,
           \A b \in live : node'[b].str = node[b].str /\ node'[b].owned = node[b].owned
    PROVE  Owners'
  <1>1. Allocated' = Allocated \cup {s}
    BY DEF Alloc, Allocated
  <1>2. \A b \in live : node[b].str # s
    BY DEF Owners
  <1> QED
    BY <1>1, <1>2 DEF Owners, OneOwner

\* A new node that borrows its string, or has none.
LEMMA OwnersBorrow ==
    ASSUME TypeOK, Owners, NEW a \in Node \ live,
           UNCHANGED strs, live' = live \cup {a}, node'[a].str \notin Str,
           \A b \in live : node'[b].str = node[b].str /\ node'[b].owned = node[b].owned
    PROVE  Owners'
  <1>1. Allocated' = Allocated /\ Allocated \subseteq Str
    BY DEF Allocated, TypeOK
  <1> QED
    BY <1>1 DEF Owners, OneOwner

\* A node is freed with the string it owns.
LEMMA OwnersShrink ==
    ASSUME TypeOK, Owners, NEW a \in live, ClearStr(a), live' = live \ {a}, UNCHANGED node
    PROVE  Owners'
  <1>1. Allocated \subseteq Str /\ NULL \notin Str
    BY ListAssumption DEF TypeOK
  <1>2. CASE node[a].owned /\ node[a].str # NULL
    <2>1. Allocated' = Allocated \ {node[a].str}
      BY <1>2 DEF ClearStr, FreeStr, Allocated
    <2> QED
      BY <1>1, <1>2, <2>1 DEF Owners, OneOwner
  <1>3. CASE ~(node[a].owned /\ node[a].str # NULL)
    <2>1. Allocated' = Allocated
      BY <1>3 DEF ClearStr, Allocated
    <2>2. node[a].str \notin Str
      BY <1>1, <1>3 DEF Owners, OneOwner
    <2> QED
      BY <1>1, <2>1, <2>2 DEF Owners, OneOwner
  <1> QED
    BY <1>2, <1>3

-----------------------------------------------------------------------------
(* What a step does to the heap: one list grows, one shrinks, or nothing   *)

LastNode(l) == IF order[l] = <<>> THEN NULL ELSE order[l][Len(order[l])]

Grow(l, a) ==
    /\ order' = [order EXCEPT ![l] = Append(@, a)]
    /\ live' = live \cup {a}
    /\ node'[a].h = l /\ node'[a].n = NULL /\ node'[a].p = LastNode(l)
    /\ \A b \in live : /\ node'[b].h = node[b].h /\ node'[b].p = node[b].p
                       /\ node'[b].str = node[b].str /\ node'[b].owned = node[b].owned
                       /\ node'[b].n = IF b = LastNode(l) THEN a ELSE node[b].n
    /\ \/ \E s \in Str \ Allocated, t \in Text :
             Alloc(s, t) /\ node'[a].str = s /\ node'[a].owned
       \/ UNCHANGED strs /\ node'[a].str \in Text \cup {NULL}
    /\ UNCHANGED <<pc, last, pile, todo>>
    /\ ~Clearing(l)

Shrink(l) ==
    /\ Clearing(l) /\ order[l] # <<>> /\ at = order[l][1]
    /\ order' = [order EXCEPT ![l] = Tail(@)]
    /\ live' = live \ {at}
    /\ ClearStr(at)
    /\ UNCHANGED <<pc, last, pile, todo, node>>

\* A list is a context and a pile.
LEMMA ListOf ==
    ASSUME TypeOK, Phases, NEW p \in Pile
    PROVE  /\ pc # "gone" => <<last, p>> \in List
           /\ pc \in {"clone", "trim", "fault"} => <<last - 1, p>> \in List
           /\ last < MaxChain => <<last + 1, p>> \in List
  BY ListAssumption DEF TypeOK, Phases, List, Context

\* A pile that a loop works on is a pile.
LEMMA PileIsManaged ==
    ASSUME TypeOK, pile # NULL  PROVE pile \in Managed /\ pile \in Pile
  BY DEF TypeOK, Pile

\* NULL is nothing else, and no text is an address.
LEMMA NullFacts ==
    /\ NULL \notin Node /\ NULL \notin Str /\ NULL \notin Text
    /\ \A t \in Text : t \notin Str
    /\ \A p \in Managed : p # NULL /\ p \in Pile
  BY ListAssumption DEF Pile

\* l_append grows a list that no loop works on.
LEMMA AppendGrows ==
    ASSUME TypeOK, Places, Heads, NEW l \in List, ~InWork(l),
           NEW a \in Node, NEW ref \in Ref, NEW owns \in BOOLEAN,
           AppendNode(l, a, ref, owns),
           \/ \E s \in Str \ Allocated, t \in Text : Alloc(s, t) /\ ref = s /\ owns
           \/ UNCHANGED strs /\ ref \in Text \cup {NULL},
           UNCHANGED <<pc, last, pile, todo>>
    PROVE  a \in Node \ live /\ Grow(l, a)
  <1>1. head[l].l = LastNode(l)
    BY DEF Heads, Headed, LastNode
  <1>2. /\ a \in Node \ live /\ live' = live \cup {a} /\ live \subseteq Node
        /\ order' = [order EXCEPT ![l] = Append(@, a)]
    BY DEF AppendNode, TypeOK
  <1>3. head[l].l # a
    <2>1. order[l] \in Seq(Node)
      BY DEF TypeOK
    <2>2. order[l] # <<>> => Len(order[l]) \in 1..Len(order[l])
      BY <2>1
    <2> QED
      BY <1>1, <1>2, <2>2, NullFacts DEF LastNode, Places
  <1>4. node'[a] = [h |-> l, n |-> NULL, p |-> head[l].l, str |-> ref, owned |-> owns]
    BY DEF AppendNode
  <1>5. \A b \in live : node'[b] = IF b = head[l].l THEN [node[b] EXCEPT !.n = a] ELSE node[b]
    BY <1>2 DEF AppendNode
  <1>6. \A b \in live : /\ node'[b].h = node[b].h /\ node'[b].p = node[b].p
                       /\ node'[b].str = node[b].str /\ node'[b].owned = node[b].owned
                       /\ node'[b].n = IF b = head[l].l THEN a ELSE node[b].n
    <2> SUFFICES ASSUME NEW b \in live
                 PROVE  /\ node'[b].h = node[b].h /\ node'[b].p = node[b].p
                        /\ node'[b].str = node[b].str /\ node'[b].owned = node[b].owned
                        /\ node'[b].n = IF b = head[l].l THEN a ELSE node[b].n
      OBVIOUS
    <2>1. node[b] \in [h : List \cup {NULL}, n : Node \cup {NULL}, p : Node \cup {NULL},
                       str : Ref, owned : BOOLEAN]
      BY <1>2 DEF TypeOK
    <2> QED
      BY <2>1, <1>5
  <1> QED
    BY <1>1, <1>2, <1>4, <1>6 DEF Grow, Clearing

\* The loop of l_clone grows the list it writes.
LEMMA CloneGrows ==
    ASSUME IInv, CloneNode
    PROVE  \E a \in Node \ live : ndst' = a /\ Grow(<<last, pile>>, a)
                                     /\ TextOf(a)' = TextOf(at)
  <1> DEFINE dst == <<last, pile>>
  <1>1. pc = "clone" /\ pile # NULL /\ at # NULL /\ node[at].str # NULL
    BY DEF CloneNode
  <1>2. PICK a \in Node \ live, s \in Ref :
            LET new == [h |-> dst, n |-> NULL, p |-> ndst, str |-> s, owned |-> TRUE]
            IN  /\ CloneStr(at, s)
                /\ live' = live \cup {a}
                /\ node' = [b \in Node |-> IF b = a THEN new
                                           ELSE IF b = ndst THEN [node[b] EXCEPT !.n = a]
                                           ELSE node[b]]
                /\ ndst' = a
                /\ order' = [order EXCEPT ![dst] = Append(@, a)]
    BY Zenon DEF CloneNode
  <1>3. dst \in List /\ order[dst] \in Seq(Node) /\ live \subseteq Node
    BY <1>1, ListOf, PileIsManaged DEF IInv, TypeOK
  <1>4. ndst = LastNode(dst)
    BY <1>1 DEF IInv, Cloning, LastNode
  <1>5. ndst # a
    <2>1. order[dst] # <<>> => Len(order[dst]) \in 1..Len(order[dst])
      BY <1>3
    <2> QED
      BY <1>2, <1>3, <1>4, <2>1, NullFacts DEF LastNode, IInv, Places
  <1>6. \A b \in live : /\ node'[b].h = node[b].h /\ node'[b].p = node[b].p
                       /\ node'[b].str = node[b].str /\ node'[b].owned = node[b].owned
                       /\ node'[b].n = IF b = ndst THEN a ELSE node[b].n
    <2> SUFFICES ASSUME NEW b \in live
                 PROVE  /\ node'[b].h = node[b].h /\ node'[b].p = node[b].p
                        /\ node'[b].str = node[b].str /\ node'[b].owned = node[b].owned
                        /\ node'[b].n = IF b = ndst THEN a ELSE node[b].n
      OBVIOUS
    <2>1. node[b] \in [h : List \cup {NULL}, n : Node \cup {NULL}, p : Node \cup {NULL},
                       str : Ref, owned : BOOLEAN]
      BY <1>3 DEF IInv, TypeOK
    <2>2. node'[b] = IF b = ndst THEN [node[b] EXCEPT !.n = a] ELSE node[b]
      BY <1>2, <1>3
    <2> QED
      BY <2>1, <2>2
  <1>7. node'[a] = [h |-> dst, n |-> NULL, p |-> ndst, str |-> s, owned |-> TRUE]
    BY <1>2
  <1>8. at \in live
    <2>1. <<last - 1, pile>> \in List /\ order[<<last - 1, pile>>] \in Seq(Node)
      BY <1>1, ListOf, PileIsManaged DEF IInv, TypeOK
    <2>2. Len(order[dst]) + 1 \in 1..Len(order[<<last - 1, pile>>])
            /\ at = order[<<last - 1, pile>>][Len(order[dst]) + 1]
      BY <1>1, <1>3, <2>1 DEF IInv, Cloning
    <2> QED
      BY <2>1, <2>2 DEF IInv, Places
  <1>9. s \in Str \ Allocated /\ Alloc(s, TextOf(at)) /\ TextOf(at) \in Text
    <2>1. s \in Str \ Allocated /\ Alloc(s, TextOf(at))
      BY <1>2 DEF CloneStr, TextOf
    <2>2. node[at].str \in Ref
      BY <1>3, <1>8 DEF IInv, TypeOK
    <2>3. node[at].str \in Str => node[at].str \in Allocated
      BY <1>8 DEF IInv, Owners
    <2>4. TextOf(at) \in Text
      BY <1>1, <2>2, <2>3 DEF TextOf, Ref, IInv, TypeOK
    <2> QED
      BY <2>1, <2>4
  <1>10. TextOf(a)' = TextOf(at)
    BY <1>7, <1>9 DEF Alloc, TextOf
  <1>11. UNCHANGED <<pc, last, pile, todo>>
    BY DEF CloneNode
  <1>12. Grow(dst, a)
    <2>1. order' = [order EXCEPT ![dst] = Append(@, a)] /\ live' = live \cup {a}
      BY <1>2
    <2>2. /\ node'[a].h = dst /\ node'[a].n = NULL /\ node'[a].p = LastNode(dst)
          /\ node'[a].str = s /\ node'[a].owned
      BY <1>4, <1>7
    <2>3. \A b \in live : /\ node'[b].h = node[b].h /\ node'[b].p = node[b].p
                         /\ node'[b].str = node[b].str /\ node'[b].owned = node[b].owned
                         /\ node'[b].n = IF b = LastNode(dst) THEN a ELSE node[b].n
      BY <1>4, <1>6
    <2>4. \E r \in Str \ Allocated, t \in Text :
              Alloc(r, t) /\ node'[a].str = r /\ node'[a].owned
      BY <1>9, <2>2
    <2>5. ~Clearing(dst)
      BY <1>1 DEF Clearing
    <2> HIDE DEF dst
    <2> QED
      BY <1>11, <2>1, <2>2, <2>3, <2>4, <2>5 DEF Grow
  <1> QED
    BY <1>2, <1>10, <1>12

\* The loop of l_clear shrinks the list it clears.
LEMMA ClearShrinks ==
    ASSUME IInv, ClearNode
    PROVE  <<last, pile>> \in List /\ Shrink(<<last, pile>>)
  <1>1. pc \in {"trim", "free"} /\ pile # NULL /\ at # NULL
    BY DEF ClearNode
  <1>2. <<last, pile>> \in List
    BY <1>1, ListOf, PileIsManaged DEF IInv
  <1>3. order[<<last, pile>>] # <<>> /\ at = order[<<last, pile>>][1]
    BY <1>1 DEF IInv, ClearingAt
  <1> QED
    BY <1>1, <1>2, <1>3 DEF ClearNode, Shrink, Clearing, InWork

\* Every step grows a list, shrinks one, or leaves the heap alone.
LEMMA HeapStep ==
    ASSUME IInv, [Next]_vars
    PROVE  \/ \E l \in List, a \in Node \ live : Grow(l, a)
           \/ \E l \in List : Shrink(l)
           \/ UNCHANGED <<heap, order>>
  <1>1. CASE PushStatic
    <2>1. PICK p \in Pile \ {Define}, a \in Node, t \in Text :
              AppendNode(<<last, p>>, a, t, FALSE)
      BY <1>1 DEF PushStatic
    <2>2. <<last, p>> \in List /\ ~InWork(<<last, p>>) /\ t \in Ref
      BY <1>1, ListOf DEF PushStatic, IInv, Phases, InWork, Ref
    <2>3. UNCHANGED <<strs, pc, last, pile, todo>>
      BY <1>1 DEF PushStatic, loop
    <2>4. a \in Node \ live /\ Grow(<<last, p>>, a)
      BY <2>1, <2>2, <2>3, AppendGrows DEF IInv
    <2> QED
      BY <2>2, <2>4
  <1>2. CASE PushDefine
    <2>1. PICK a \in Node, t \in Text :
              \/ AppendNode(<<last, Define>>, a, NULL, TRUE) /\ UNCHANGED strs
              \/ \E s \in Str \ Allocated :
                    AppendNode(<<last, Define>>, a, s, TRUE) /\ Alloc(s, t)
      BY <1>2 DEF PushDefine
    <2>2. <<last, Define>> \in List /\ ~InWork(<<last, Define>>) /\ NULL \in Ref
      BY <1>2, ListOf, ListAssumption
         DEF PushDefine, IInv, Phases, InWork, Ref, Pile, Managed
    <2>3. UNCHANGED <<pc, last, pile, todo>>
      BY <1>2 DEF PushDefine, loop
    <2>4. CASE AppendNode(<<last, Define>>, a, NULL, TRUE) /\ UNCHANGED strs
      BY <2>2, <2>3, <2>4, AppendGrows DEF IInv
    <2>5. ASSUME NEW s \in Str \ Allocated,
                 AppendNode(<<last, Define>>, a, s, TRUE), Alloc(s, t)
          PROVE  a \in Node \ live /\ Grow(<<last, Define>>, a)
      BY <2>2, <2>3, <2>5, AppendGrows DEF IInv, Ref
    <2> QED
      BY <2>1, <2>2, <2>4, <2>5
  <1>3. CASE PushOwned
    <2>1. PICK p \in Managed, a \in Node, t \in Text, s \in Str \ Allocated :
              AppendNode(<<last, p>>, a, s, TRUE) /\ Alloc(s, t)
      BY <1>3 DEF PushOwned
    <2>2. <<last, p>> \in List /\ ~InWork(<<last, p>>) /\ s \in Ref
      BY <1>3, ListOf DEF PushOwned, IInv, Phases, InWork, Ref, Pile
    <2>3. UNCHANGED <<pc, last, pile, todo>>
      BY <1>3 DEF PushOwned, loop
    <2>4. a \in Node \ live /\ Grow(<<last, p>>, a)
      BY <2>1, <2>2, <2>3, AppendGrows DEF IInv
    <2> QED
      BY <2>2, <2>4
  <1>4. CASE CloneNode
    <2>1. <<last, pile>> \in List
      BY <1>4, ListOf, PileIsManaged DEF CloneNode, IInv
    <2> QED
      BY <1>4, <2>1, CloneGrows
  <1>5. CASE ClearNode
    BY <1>5, ClearShrinks
  <1>6. CASE \/ Parsed \/ ChainBegin \/ CloneBegin \/ CloneFault \/ CloneEnd \/ CloneDone
             \/ TrimDone \/ ClearBegin \/ ClearEnd \/ FreeBegin \/ FreeDone
    BY <1>6 DEF Parsed, ChainBegin, CloneBegin, CloneFault, CloneEnd, CloneDone,
                TrimDone, ClearBegin, ClearEnd, FreeBegin, FreeDone, heap
  <1>7. CASE Terminated \/ UNCHANGED vars
    BY <1>7 DEF Terminated, vars, heap
  <1> QED
    BY <1>1, <1>2, <1>3, <1>4, <1>5, <1>6, <1>7
       DEF Next, PushStep, CloneStep, ClearStep
-----------------------------------------------------------------------------
(* The parts of the invariant, one by one                                  *)

\* Initially there are no nodes.
LEMMA InitIInv == Init => IInv
  <1> SUFFICES ASSUME Init PROVE IInv
    OBVIOUS
  <1>1. TypeOK
    BY ListAssumption DEF Init, TypeOK, EmptyHead, Ref, Allocated
  <1>2. Places /\ Owners
    BY DEF Init, Places, Owners, OnePlace, OneOwner, Allocated
  <1>3. Links /\ Heads
    BY DEF Init, Links, Heads, Headed, EmptyHead
  <1>4. Cloning /\ ClearingAt /\ Phases
    BY DEF Init, Cloning, ClearingAt, Phases
  <1> QED
    BY <1>1, <1>2, <1>3, <1>4 DEF IInv

\* The heap keeps its types.
LEMMA HeapTypes ==
    ASSUME IInv, [Next]_vars
    PROVE  /\ live' \subseteq Node
           /\ Allocated' \subseteq Str
           /\ \A s \in Allocated' : strs'[s] \in Text
           /\ order' \in [List -> Seq(Node)]
  <1>1. CASE \E l \in List, a \in Node \ live : Grow(l, a)
    <2>1. PICK l \in List, a \in Node \ live : Grow(l, a)
      BY <1>1
    <2>2. order' \in [List -> Seq(Node)]
      BY <2>1, OrderGrows DEF IInv, Grow
    <2>3. live' \subseteq Node
      BY <2>1 DEF IInv, TypeOK, Grow
    <2>4. CASE UNCHANGED strs
      BY <2>2, <2>3, <2>4 DEF IInv, TypeOK, Allocated
    <2>5. ASSUME NEW s \in Str \ Allocated, NEW t \in Text, Alloc(s, t)
          PROVE  Allocated' \subseteq Str /\ \A r \in Allocated' : strs'[r] \in Text
      BY <2>5 DEF IInv, TypeOK, Alloc, Allocated
    <2> QED
      BY <2>1, <2>2, <2>3, <2>4, <2>5 DEF Grow
  <1>2. CASE \E l \in List : Shrink(l)
    <2>1. PICK l \in List : Shrink(l)
      BY <1>2
    <2>2. order' \in [List -> Seq(Node)]
      BY <2>1, OrderShrinks DEF IInv, Shrink
    <2>3. live' \subseteq Node
      BY <2>1 DEF IInv, TypeOK, Shrink
    <2>4. Allocated' \subseteq Str /\ \A s \in Allocated' : strs'[s] \in Text
      BY <2>1 DEF IInv, TypeOK, Shrink, ClearStr, FreeStr, Allocated
    <2> QED
      BY <2>2, <2>3, <2>4
  <1>3. CASE UNCHANGED <<heap, order>>
    BY <1>3 DEF IInv, TypeOK, heap, Allocated
  <1> QED
    BY <1>1, <1>2, <1>3, HeapStep

\* A new node behind the last one.
Written(a, new, r) == [b \in Node |-> IF b = a THEN new
                                      ELSE IF b = r THEN [node[b] EXCEPT !.n = a]
                                      ELSE node[b]]

NodeRecord == [h : List \cup {NULL}, n : Node \cup {NULL}, p : Node \cup {NULL},
               str : Ref, owned : BOOLEAN]

\* l_append and the loop of l_clone write well-typed nodes.
LEMMA NodeTypes ==
    ASSUME TypeOK, NEW l \in List, NEW a \in Node, NEW r \in Node \cup {NULL},
           NEW ref \in Ref, NEW owns \in BOOLEAN
    PROVE  Written(a, [h |-> l, n |-> NULL, p |-> r, str |-> ref, owned |-> owns], r)
               \in [Node -> NodeRecord]
  <1> DEFINE new == [h |-> l, n |-> NULL, p |-> r, str |-> ref, owned |-> owns]
  <1>1. new \in NodeRecord
    BY DEF NodeRecord
  <1>2. ASSUME NEW b \in Node
        PROVE  (IF b = r THEN [node[b] EXCEPT !.n = a] ELSE node[b]) \in NodeRecord
    <2>1. node[b] \in NodeRecord
      BY DEF TypeOK, NodeRecord
    <2> QED
      BY <2>1 DEF NodeRecord
  <1> HIDE DEF new
  <1>3. Written(a, new, r) \in [Node -> NodeRecord]
    BY <1>1, <1>2 DEF Written
  <1> QED
    BY <1>3 DEF new

\* l_append keeps the types of the nodes and heads.
LEMMA AppendTypes ==
    ASSUME TypeOK, NEW l \in List, NEW a \in Node, NEW ref \in Ref, NEW owns \in BOOLEAN,
           AppendNode(l, a, ref, owns)
    PROVE  /\ node' \in [Node -> [h : List \cup {NULL}, n : Node \cup {NULL},
                                  p : Node \cup {NULL}, str : Ref, owned : BOOLEAN]]
           /\ head' \in [List -> [c : Nat, f : Node \cup {NULL}, l : Node \cup {NULL}]]
  <1>1. head[l] \in [c : Nat, f : Node \cup {NULL}, l : Node \cup {NULL}]
    BY DEF TypeOK
  <1>2. head[l].l \in Node \cup {NULL} /\ head[l].f \in Node \cup {NULL} /\ head[l].c \in Nat
    BY <1>1
  <1>3. node' \in [Node -> [h : List \cup {NULL}, n : Node \cup {NULL},
                            p : Node \cup {NULL}, str : Ref, owned : BOOLEAN]]
    <2> DEFINE new == [h |-> l, n |-> NULL, p |-> head[l].l, str |-> ref, owned |-> owns]
    <2>1. node' = Written(a, new, head[l].l)
      BY Zenon DEF AppendNode, Written
    <2>2. Written(a, new, head[l].l) \in [Node -> NodeRecord]
      BY <1>2, NodeTypes
    <2> QED
      BY <2>1, <2>2 DEF NodeRecord
  <1>4. head' \in [List -> [c : Nat, f : Node \cup {NULL}, l : Node \cup {NULL}]]
    BY <1>2 DEF AppendNode, TypeOK
  <1> QED
    BY <1>3, <1>4
\* Every variable keeps its type.
LEMMA TypeNext == IInv /\ [Next]_vars => TypeOK'
  <1> SUFFICES ASSUME IInv, [Next]_vars PROVE TypeOK'
    OBVIOUS
  <1> DEFINE HeapOK == /\ live' \subseteq Node
                       /\ Allocated' \subseteq Str
                       /\ \A s \in Allocated' : strs'[s] \in Text
                       /\ order' \in [List -> Seq(Node)]
             NodeOK == node' \in [Node -> [h : List \cup {NULL}, n : Node \cup {NULL},
                                           p : Node \cup {NULL}, str : Ref, owned : BOOLEAN]]
             HeadOK == head' \in [List -> [c : Nat, f : Node \cup {NULL},
                                           l : Node \cup {NULL}]]
  <1>1. HeapOK
    BY HeapTypes
  <1>2. NULL \in Ref /\ Text \subseteq Ref /\ Str \subseteq Ref /\ Define \in Pile
    BY ListAssumption DEF Ref, Pile, Managed
  <1> HIDE DEF HeapOK
  <1>3. CASE PushStatic
    <2>1. PICK p \in Pile, a \in Node, t \in Text : AppendNode(<<last, p>>, a, t, FALSE)
      BY <1>3 DEF PushStatic
    <2>2. <<last, p>> \in List
      BY <1>3, ListOf DEF PushStatic, IInv
    <2>3. NodeOK /\ HeadOK
      BY <2>1, <2>2, <1>2, AppendTypes DEF IInv
    <2> QED
      BY <1>1, <1>3, <2>3 DEF PushStatic, loop, IInv, TypeOK, HeapOK
  <1>4. CASE PushDefine
    <2>1. PICK a \in Node, ref \in Ref : AppendNode(<<last, Define>>, a, ref, TRUE)
      BY <1>2, <1>4 DEF PushDefine
    <2>2. <<last, Define>> \in List
      BY <1>2, <1>4, ListOf DEF PushDefine, IInv
    <2>3. NodeOK /\ HeadOK
      BY <2>1, <2>2, AppendTypes DEF IInv
    <2> QED
      BY <1>1, <1>4, <2>3 DEF PushDefine, loop, IInv, TypeOK, HeapOK
  <1>5. CASE PushOwned
    <2>1. PICK p \in Managed, a \in Node, s \in Str : AppendNode(<<last, p>>, a, s, TRUE)
      BY <1>5 DEF PushOwned
    <2>2. <<last, p>> \in List
      BY <1>5, ListOf DEF PushOwned, IInv, Pile
    <2>3. NodeOK /\ HeadOK
      BY <2>1, <2>2, <1>2, AppendTypes DEF IInv
    <2> QED
      BY <1>1, <1>5, <2>3 DEF PushOwned, loop, IInv, TypeOK, HeapOK
  <1>6. CASE Parsed \/ CloneFault \/ CloneDone \/ TrimDone \/ FreeBegin \/ Terminated
             \/ UNCHANGED vars
    BY <1>1, <1>6 DEF Parsed, CloneFault, CloneDone, TrimDone, FreeBegin, Terminated, vars,
                      heap, loop, IInv, TypeOK, HeapOK, Managed
  <1>7. CASE ChainBegin
    BY <1>1, <1>7, ListAssumption DEF ChainBegin, heap, IInv, TypeOK, HeapOK
  <1>8. CASE FreeDone
    BY <1>1, <1>8, ListAssumption DEF FreeDone, heap, IInv, TypeOK, Phases, HeapOK
  <1>9. CASE CloneBegin
    <2>1. PICK p \in todo : /\ pile' = p /\ todo' = todo \ {p}
                            /\ at' = head[<<last - 1, p>>].f
      BY <1>9 DEF CloneBegin
    <2>2. p \in Managed /\ <<last - 1, p>> \in List
      BY <1>9, ListOf, NullFacts DEF CloneBegin, IInv, TypeOK
    <2>3. at' \in Node \cup {NULL}
      BY <2>1, <2>2 DEF IInv, TypeOK
    <2> QED
      BY <1>1, <1>9, <2>1, <2>2, <2>3 DEF CloneBegin, heap, IInv, TypeOK, HeapOK
  <1>10. CASE ClearBegin
    <2>1. PICK p \in todo : /\ pile' = p /\ todo' = todo \ {p}
                            /\ at' = head[<<last, p>>].f
      BY <1>10 DEF ClearBegin
    <2>2. p \in Managed /\ <<last, p>> \in List
      BY <1>10, ListOf, NullFacts DEF ClearBegin, IInv, TypeOK
    <2>3. at' \in Node \cup {NULL}
      BY <2>1, <2>2 DEF IInv, TypeOK
    <2> QED
      BY <1>1, <1>10, <2>1, <2>2, <2>3 DEF ClearBegin, heap, IInv, TypeOK, HeapOK
  <1>11. CASE CloneNode
    <2>1. PICK a \in Node \ live, s \in Ref :
            LET new == [h |-> <<last, pile>>, n |-> NULL, p |-> ndst, str |-> s,
                        owned |-> TRUE]
            IN  /\ node' = Written(a, new, ndst)
                /\ ndst' = a
                /\ fdst' = IF fdst = NULL THEN a ELSE fdst
      BY <1>11, Zenon DEF CloneNode, Written
    <2>2. <<last, pile>> \in List /\ ndst \in Node \cup {NULL}
      BY <1>11, ListOf, PileIsManaged DEF CloneNode, IInv, TypeOK
    <2>3. NodeOK
      <3> DEFINE new == [h |-> <<last, pile>>, n |-> NULL, p |-> ndst, str |-> s,
                         owned |-> TRUE]
      <3>1. Written(a, new, ndst) \in [Node -> NodeRecord]
        BY <2>2, NodeTypes DEF IInv
      <3> QED
        BY <2>1, <3>1 DEF NodeRecord
    <2>4. at' \in Node \cup {NULL}
      <3>1. at \in Node /\ at' = node[at].n
        BY <1>11 DEF CloneNode, IInv, TypeOK
      <3> QED
        BY <3>1 DEF IInv, TypeOK
    <2> QED
      BY <1>1, <1>11, <2>1, <2>3, <2>4 DEF CloneNode, IInv, TypeOK, HeapOK
  <1>12. CASE ClearNode
    <2>1. at' \in Node \cup {NULL}
      <3>1. at \in Node /\ at' = node[at].n
        BY <1>12 DEF ClearNode, IInv, TypeOK
      <3> QED
        BY <3>1 DEF IInv, TypeOK
    <2> QED
      BY <1>1, <1>12, <2>1 DEF ClearNode, IInv, TypeOK, HeapOK
  <1>13. CASE CloneEnd
    <2>1. <<last, pile>> \in List /\ <<last - 1, pile>> \in List
      BY <1>13, ListOf, PileIsManaged DEF CloneEnd, IInv
    <2>2. head[<<last - 1, pile>>].c \in Nat
      BY <2>1 DEF IInv, TypeOK
    <2>3. HeadOK
      BY <1>13, <2>1, <2>2 DEF CloneEnd, IInv, TypeOK
    <2> QED
      BY <1>1, <1>13, <2>3 DEF CloneEnd, heap, IInv, TypeOK, HeapOK
  <1>14. CASE ClearEnd
    <2>1. HeadOK
      BY <1>14 DEF ClearEnd, EmptyHead, IInv, TypeOK
    <2> QED
      BY <1>1, <1>14, <2>1 DEF ClearEnd, heap, IInv, TypeOK, HeapOK
  <1> QED
    BY <1>3, <1>4, <1>5, <1>6, <1>7, <1>8, <1>9, <1>10, <1>11, <1>12, <1>13, <1>14
       DEF Next, PushStep, CloneStep, ClearStep

\* The nodes of all lists stay the allocated ones, each in one place.
LEMMA PlacesNext == IInv /\ [Next]_vars => Places'
  <1> SUFFICES ASSUME IInv, [Next]_vars PROVE Places'
    OBVIOUS
  <1>1. ASSUME NEW l \in List, NEW a \in Node \ live, Grow(l, a)  PROVE Places'
    BY <1>1, PlacesGrow DEF IInv, Grow
  <1>2. ASSUME NEW l \in List, Shrink(l)  PROVE Places'
    BY <1>2, PlacesShrink DEF IInv, Shrink
  <1>3. CASE UNCHANGED <<heap, order>>
    BY <1>3 DEF IInv, Places, OnePlace, heap
  <1> QED
    BY <1>1, <1>2, <1>3, HeapStep

\* Every string stays with its one owner.
LEMMA OwnersNext == IInv /\ [Next]_vars => Owners'
  <1> SUFFICES ASSUME IInv, [Next]_vars PROVE Owners'
    OBVIOUS
  <1>1. ASSUME NEW l \in List, NEW a \in Node \ live, Grow(l, a)  PROVE Owners'
    <2>1. /\ live' = live \cup {a}
          /\ \A b \in live : node'[b].str = node[b].str /\ node'[b].owned = node[b].owned
      BY <1>1 DEF Grow
    <2>2. CASE UNCHANGED strs /\ node'[a].str \in Text \cup {NULL}
      BY <2>1, <2>2, NullFacts, OwnersBorrow DEF IInv
    <2>3. ASSUME NEW s \in Str \ Allocated, NEW t \in Text,
                 Alloc(s, t), node'[a].str = s, node'[a].owned
          PROVE  Owners'
      BY <2>1, <2>3, OwnersGrow DEF IInv
    <2> QED
      BY <1>1, <2>2, <2>3 DEF Grow
  <1>2. ASSUME NEW l \in List, Shrink(l)  PROVE Owners'
    <2>1. at \in live
      <3>1. order[l] \in Seq(Node) /\ order[l] # <<>> /\ at = order[l][1]
        BY <1>2 DEF IInv, TypeOK, Shrink
      <3>2. 1 \in 1..Len(order[l])
        BY <3>1
      <3> QED
        BY <3>1, <3>2 DEF IInv, Places
    <2> QED
      BY <1>2, <2>1, OwnersShrink DEF IInv, Shrink
  <1>3. CASE UNCHANGED <<heap, order>>
    BY <1>3 DEF IInv, Owners, OneOwner, heap, Allocated
  <1> QED
    BY <1>1, <1>2, <1>3, HeapStep
\* A step that leaves the heap alone ends no clearing but that of an empty list.
LEMMA ClearingEnds ==
    ASSUME IInv, [Next]_vars, UNCHANGED <<heap, order>>, NEW m \in List, Clearing(m)
    PROVE  Clearing(m)' \/ order[m] = <<>>
  <1>1. pc \in {"trim", "free"} /\ pile # NULL /\ m = <<last, pile>>
    BY DEF Clearing, InWork
  <1>2. CASE ClearEnd
    <2>1. at = NULL /\ order[m] \in Seq(Node)
      BY <1>2 DEF ClearEnd, IInv, TypeOK
    <2>2. order[m] # <<>> => order[m][1] \in Node
      BY <2>1
    <2> QED
      BY <1>1, <2>1, <2>2, NullFacts DEF IInv, ClearingAt
  <1>3. CASE ClearNode
    <2>1. at \in live /\ live' = live \ {at}
      <3>1. order[m] \in Seq(Node) /\ order[m] # <<>> /\ at = order[m][1]
        BY <1>1, <1>3, ClearShrinks DEF Shrink, IInv, TypeOK
      <3>2. 1 \in 1..Len(order[m])
        BY <3>1
      <3> QED
        BY <1>3, <3>1, <3>2 DEF ClearNode, IInv, Places
    <2> QED
      BY <2>1 DEF heap
  <1>4. CASE Terminated \/ UNCHANGED vars
    BY <1>1, <1>4 DEF Terminated, vars, Clearing, InWork
  <1> QED
    BY <1>1, <1>2, <1>3, <1>4, NullFacts
       DEF Next, PushStep, CloneStep, ClearStep, PushStatic, PushDefine, PushOwned, Parsed,
           ChainBegin, CloneBegin, CloneNode, CloneFault, CloneEnd, CloneDone, TrimDone,
           ClearBegin, FreeBegin, FreeDone

\* A list that grows stays linked.
LEMMA LinksGrow ==
    ASSUME IInv, NEW l \in List, NEW a \in Node \ live, Grow(l, a)  PROVE Links'
  <1>1. \A m \in List : order[m] \in Seq(Node)
    BY DEF IInv, TypeOK
  <1>2. \A m \in List : Len(order[m]) \in Nat
    BY <1>1
  <1>3. /\ Len(order'[l]) = Len(order[l]) + 1
        /\ order'[l][Len(order[l]) + 1] = a
        /\ \A i \in 1..Len(order[l]) : order'[l][i] = order[l][i]
        /\ \A m \in List : m # l => order'[m] = order[m]
    <2>1. TypeOK /\ order' = [order EXCEPT ![l] = Append(@, a)]
      BY DEF IInv, Grow
    <2> QED
      BY <2>1, OrderGrows
  <1>4. order[l] = <<>> <=> Len(order[l]) = 0
    BY <1>1
  <1>5. \A m \in List : Clearing(m)' = Clearing(m)
    BY DEF Grow, Clearing, InWork
  <1> SUFFICES ASSUME NEW m \in List, NEW i \in 1..Len(order'[m])
               PROVE  LET b == node'[order'[m][i]]
                      IN  /\ b.h = m
                          /\ b.n = IF i < Len(order'[m]) THEN order'[m][i + 1] ELSE NULL
                          /\ i > 1 => b.p = order'[m][i - 1]
                          /\ i = 1 /\ ~Clearing(m) => b.p = NULL
    BY <1>5 DEF Links
  <1>6. CASE m = l /\ i = Len(order[l]) + 1
    <2>1. node'[a].h = l /\ node'[a].n = NULL /\ node'[a].p = LastNode(l)
      BY DEF Grow
    <2> QED
      BY <1>2, <1>3, <1>4, <1>6, <2>1 DEF LastNode
  <1>7. CASE i \in 1..Len(order[m])
    <2> DEFINE b == order[m][i]
    <2>1. b \in live /\ order'[m][i] = b
      BY <1>3, <1>7 DEF IInv, Places
    <2>2. /\ node[b].h = m
          /\ node[b].n = IF i < Len(order[m]) THEN order[m][i + 1] ELSE NULL
          /\ i > 1 => node[b].p = order[m][i - 1]
          /\ i = 1 /\ ~Clearing(m) => node[b].p = NULL
      BY <1>7 DEF IInv, Links
    <2>3. b = LastNode(l) <=> m = l /\ i = Len(order[l])
      <3>1. CASE order[l] = <<>>
        BY <1>4, <1>7, <2>1, <3>1, NullFacts DEF LastNode, IInv, TypeOK
      <3>2. CASE order[l] # <<>>
        <4>1. Len(order[l]) \in 1..Len(order[l])
          BY <1>2, <1>4, <3>2
        <4> QED
          BY <1>7, <3>2, <4>1 DEF LastNode, IInv, Places, OnePlace
      <3> QED
        BY <3>1, <3>2
    <2>4. /\ node'[b].h = node[b].h /\ node'[b].p = node[b].p
          /\ node'[b].n = IF b = LastNode(l) THEN a ELSE node[b].n
      BY <2>1 DEF Grow
    <2>5. i > 1 => order'[m][i - 1] = order[m][i - 1]
      <3>1. i > 1 => i - 1 \in 1..Len(order[m])
        BY <1>2, <1>7
      <3> QED
        BY <1>3, <3>1
    <2>6. node'[b].n = IF i < Len(order'[m]) THEN order'[m][i + 1] ELSE NULL
      <3>1. CASE m = l /\ i = Len(order[l])
        BY <1>2, <1>3, <2>3, <2>4, <3>1
      <3>2. CASE m = l /\ i # Len(order[l])
        <4>1. i < Len(order[m]) /\ i < Len(order'[m]) /\ i + 1 \in 1..Len(order[l])
          BY <1>2, <1>3, <1>7, <3>2
        <4> QED
          BY <1>3, <2>2, <2>3, <2>4, <3>2, <4>1
      <3>3. CASE m # l
        BY <1>3, <2>2, <2>3, <2>4, <3>3
      <3> QED
        BY <3>1, <3>2, <3>3
    <2> QED
      BY <2>1, <2>2, <2>4, <2>5, <2>6
  <1> QED
    BY <1>2, <1>3, <1>6, <1>7

\* A list that loses its first node stays linked from there on.
LEMMA LinksShrink ==
    ASSUME IInv, NEW l \in List, Shrink(l)  PROVE Links'
  <1>1. \A m \in List : order[m] \in Seq(Node)
    BY DEF IInv, TypeOK
  <1>2. \A m \in List : Len(order[m]) \in Nat
    BY <1>1
  <1>3. /\ Len(order'[l]) = Len(order[l]) - 1
        /\ \A i \in 1..Len(order'[l]) : order'[l][i] = order[l][i + 1]
        /\ \A m \in List : m # l => order'[m] = order[m]
    BY OrderShrinks DEF IInv, Shrink
  <1>4. node' = node /\ Clearing(l) /\ \A m \in List : Clearing(m)' = Clearing(m)
    BY DEF Shrink, Clearing, InWork
  <1> SUFFICES ASSUME NEW m \in List, NEW i \in 1..Len(order'[m])
               PROVE  LET b == node[order'[m][i]]
                      IN  /\ b.h = m
                          /\ b.n = IF i < Len(order'[m]) THEN order'[m][i + 1] ELSE NULL
                          /\ i > 1 => b.p = order'[m][i - 1]
                          /\ i = 1 /\ ~Clearing(m) => b.p = NULL
    BY <1>4 DEF Links
  <1>5. CASE m = l
    <2>1. i + 1 \in 1..Len(order[l]) /\ order'[l][i] = order[l][i + 1]
      BY <1>2, <1>3, <1>5
    <2>2. LET b == node[order[l][i + 1]]
          IN  /\ b.h = l
              /\ b.n = IF i + 1 < Len(order[l]) THEN order[l][(i + 1) + 1] ELSE NULL
              /\ i + 1 > 1 => b.p = order[l][(i + 1) - 1]
      BY <2>1 DEF IInv, Links
    <2>3. i < Len(order'[l]) =>
              /\ i + 1 < Len(order[l])
              /\ order'[l][i + 1] = order[l][(i + 1) + 1]
      BY <1>2, <1>3, <1>5
    <2>4. i > 1 => order'[l][i - 1] = order[l][(i + 1) - 1]
      <3>1. i > 1 => i - 1 \in 1..Len(order'[l]) /\ (i - 1) + 1 = (i + 1) - 1
        BY <1>2, <1>3, <1>5
      <3> QED
        BY <1>3, <3>1
    <2>5. i >= Len(order'[l]) => ~(i + 1 < Len(order[l]))
      BY <1>2, <1>3, <1>5
    <2>6. i + 1 > 1 /\ Len(order'[l]) \in Int /\ i \in Int
      BY <1>2, <1>3, <1>5
    <2> QED
      BY <1>4, <1>5, <2>1, <2>2, <2>3, <2>4, <2>5, <2>6
  <1>6. CASE m # l
    BY <1>3, <1>6 DEF IInv, Links
  <1> QED
    BY <1>5, <1>6

\* Every list stays linked.
LEMMA LinksNext == IInv /\ [Next]_vars => Links'
  <1> SUFFICES ASSUME IInv, [Next]_vars PROVE Links'
    OBVIOUS
  <1>1. CASE UNCHANGED <<heap, order>>
    <2>1. order' = order /\ node' = node
      BY <1>1 DEF heap
    <2>2. \A m \in List : Clearing(m) => Clearing(m)' \/ order[m] = <<>>
      BY <1>1, ClearingEnds
    <2> SUFFICES ASSUME NEW m \in List, NEW i \in 1..Len(order[m])
                 PROVE  LET b == node[order[m][i]]
                        IN  /\ b.h = m
                            /\ b.n = IF i < Len(order[m]) THEN order[m][i + 1] ELSE NULL
                            /\ i > 1 => b.p = order[m][i - 1]
                            /\ i = 1 /\ ~Clearing(m)' => b.p = NULL
      BY <2>1 DEF Links
    <2>3. order[m] # <<>>
      OBVIOUS
    <2> QED
      BY <2>2, <2>3 DEF IInv, Links
  <1> QED
    BY <1>1, HeapStep, LinksGrow, LinksShrink
\* Appending counts the node and moves the end of the list.
LEMMA AppendHeads ==
    ASSUME TypeOK, Heads, pile = NULL, pile' = NULL, NEW l \in List, NEW a \in Node,
           NEW ref, NEW owns, AppendNode(l, a, ref, owns)
    PROVE  Heads'
  <1>1. order[l] \in Seq(Node)
    BY DEF TypeOK
  <1>2. /\ Len(order'[l]) = Len(order[l]) + 1
        /\ order'[l][Len(order[l]) + 1] = a
        /\ \A i \in 1..Len(order[l]) : order'[l][i] = order[l][i]
        /\ \A m \in List : m # l => order'[m] = order[m]
        /\ order'[l] # <<>>
    <2>1. order' = [order EXCEPT ![l] = Append(@, a)]
      BY DEF AppendNode
    <2> QED
      BY <2>1, OrderGrows
  <1>3. \A m \in List : Headed(m)
    BY DEF Heads, InWork
  <1>4. /\ head'[l] = [c |-> head[l].c + 1, l |-> a,
                       f |-> IF head[l].f = NULL THEN a ELSE head[l].f]
        /\ \A m \in List : m # l => head'[m] = head[m]
    BY DEF AppendNode, TypeOK
  <1>5. Headed(l)'
    <2>1. CASE order[l] = <<>>
      <3>1. Len(order[l]) = 0
        BY <2>1
      <3> QED
        BY <1>2, <1>3, <1>4, <2>1, <3>1 DEF Headed
    <2>2. CASE order[l] # <<>>
      <3>1. 1 \in 1..Len(order[l]) /\ order[l][1] \in Node /\ Len(order[l]) \in Nat
        BY <1>1, <2>2
      <3>2. head'[l].c = Len(order'[l]) /\ head'[l].l = order'[l][Len(order'[l])]
        BY <1>2, <1>3, <1>4, <3>1 DEF Headed
      <3>3. head'[l].f = order'[l][1]
        BY <1>2, <1>3, <1>4, <2>2, <3>1, NullFacts DEF Headed
      <3> QED
        BY <1>2, <3>2, <3>3 DEF Headed
    <2> QED
      BY <2>1, <2>2
  <1>6. ASSUME NEW m \in List, m # l  PROVE Headed(m)'
    BY <1>2, <1>3, <1>4, <1>6 DEF Headed
  <1> QED
    BY <1>5, <1>6 DEF Heads

\* Every finished list has the right head.
LEMMA HeadsNext == IInv /\ [Next]_vars => Heads'
  <1> SUFFICES ASSUME IInv, [Next]_vars PROVE Heads'
    OBVIOUS
  <1>1. CASE PushStep
    <2>1. CASE Parsed
      BY <2>1 DEF Parsed, loop, IInv, Heads, Headed, InWork
    <2>2. CASE PushStatic \/ PushDefine \/ PushOwned
      <3>1. pile = NULL /\ pile' = NULL /\ pc # "gone" /\ Define \in Pile
        BY <2>2, ListAssumption
           DEF PushStatic, PushDefine, PushOwned, IInv, Phases, loop, Pile, Managed
      <3>2. \E p \in Pile, a \in Node, ref \in Ref, owns \in BOOLEAN :
                AppendNode(<<last, p>>, a, ref, owns)
        <4>1. CASE PushStatic
          BY <4>1 DEF PushStatic, Ref
        <4>2. CASE PushDefine
          BY <3>1, <4>2 DEF PushDefine, Ref
        <4>3. CASE PushOwned
          BY <4>3 DEF PushOwned, Ref, Pile
        <4> QED
          BY <2>2, <4>1, <4>2, <4>3
      <3>3. \A p \in Pile : <<last, p>> \in List
        BY <3>1, ListOf DEF IInv
      <3> QED
        BY <3>1, <3>2, <3>3, AppendHeads DEF IInv
    <2> QED
      BY <1>1, <2>1, <2>2 DEF PushStep
  <1>2. CASE CloneNode
    <2>1. \A m \in List : m # <<last, pile>> => order'[m] = order[m] /\ head'[m] = head[m]
      BY <1>2 DEF CloneNode, IInv, TypeOK
    <2>2. pile' = pile /\ last' = last /\ pile # NULL
      BY <1>2 DEF CloneNode
    <2> QED
      BY <2>1, <2>2 DEF IInv, Heads, Headed, InWork
  <1>3. CASE ClearNode
    <2>1. \A m \in List : m # <<last, pile>> => order'[m] = order[m] /\ head'[m] = head[m]
      BY <1>3 DEF ClearNode, IInv, TypeOK
    <2>2. pile' = pile /\ last' = last /\ pile # NULL
      BY <1>3 DEF ClearNode
    <2> QED
      BY <2>1, <2>2 DEF IInv, Heads, Headed, InWork
  <1>4. CASE CloneEnd
    <2>1. PICK src \in List, dst \in List :
              src = <<last - 1, pile>> /\ dst = <<last, pile>> /\ src # dst
      <3>1. <<last - 1, pile>> \in List /\ <<last, pile>> \in List
        BY <1>4, ListOf, PileIsManaged DEF CloneEnd, IInv
      <3>2. last - 1 # last
        BY DEF IInv, TypeOK
      <3> QED
        BY <3>1, <3>2
    <2>2. order[src] \in Seq(Node) /\ order[dst] \in Seq(Node)
      BY <2>1 DEF IInv, TypeOK
    <2>3. Headed(src)
      BY <2>1 DEF IInv, Heads, InWork
    <2>4. /\ Len(order[dst]) <= Len(order[src])
          /\ at = IF Len(order[dst]) < Len(order[src])
                  THEN order[src][Len(order[dst]) + 1] ELSE NULL
          /\ fdst = IF order[dst] = <<>> THEN NULL ELSE order[dst][1]
          /\ ndst = IF order[dst] = <<>> THEN NULL ELSE order[dst][Len(order[dst])]
      BY <1>4, <2>1 DEF CloneEnd, IInv, Cloning
    <2>5. Len(order[dst]) = Len(order[src])
      <3>1. Len(order[dst]) < Len(order[src]) =>
                order[src][Len(order[dst]) + 1] \in Node
        BY <2>2
      <3>2. at = NULL
        BY <1>4 DEF CloneEnd
      <3>3. ~(Len(order[dst]) < Len(order[src]))
        BY <2>4, <3>1, <3>2, NullFacts
      <3> QED
        BY <2>2, <2>4, <3>3
    <2>6. /\ head'[dst] = [c |-> head[src].c, f |-> fdst, l |-> ndst]
          /\ \A m \in List : m # dst => head'[m] = head[m]
      BY <1>4, <2>1 DEF CloneEnd, IInv, TypeOK
    <2>7. order' = order
      BY <1>4 DEF CloneEnd
    <2>8. Headed(dst)'
      BY <2>3, <2>4, <2>5, <2>6, <2>7 DEF Headed
    <2>9. \A m \in List : m # dst => Headed(m)'
      BY <2>1, <2>6, <2>7 DEF IInv, Heads, Headed, InWork
    <2> QED
      BY <2>8, <2>9 DEF Heads
  <1>5. CASE ClearEnd
    <2>1. at = NULL /\ pile # NULL /\ order' = order
      BY <1>5 DEF ClearEnd
    <2>2. PICK l \in List : l = <<last, pile>>
      BY <1>5, ListOf, PileIsManaged DEF ClearEnd, IInv, Phases
    <2>3. order[l] = <<>>
      <3>1. order[l] # <<>> => order[l][1] \in Node
        BY <2>2 DEF IInv, TypeOK
      <3> QED
        BY <1>5, <2>1, <2>2, <3>1, NullFacts DEF ClearEnd, IInv, ClearingAt
    <2>4. head'[l] = EmptyHead /\ \A m \in List : m # l => head'[m] = head[m]
      BY <1>5, <2>2 DEF ClearEnd, IInv, TypeOK
    <2>5. \A m \in List : m # l => Headed(m)'
      BY <2>1, <2>2, <2>4 DEF IInv, Heads, Headed, InWork
    <2>6. Headed(l)'
      BY <2>1, <2>3, <2>4 DEF Headed, EmptyHead
    <2> QED
      BY <2>5, <2>6 DEF Heads
  <1>6. CASE \/ ChainBegin \/ CloneBegin \/ CloneDone \/ TrimDone
             \/ ClearBegin \/ FreeBegin \/ FreeDone
    <2>1. pile = NULL /\ order' = order /\ head' = head
      BY <1>6 DEF ChainBegin, CloneBegin, CloneDone, TrimDone, ClearBegin, FreeBegin,
                  FreeDone, IInv, Phases
    <2> QED
      BY <2>1 DEF IInv, Heads, Headed, InWork
  <1>7. CASE CloneFault \/ Terminated \/ UNCHANGED vars
    <2>1. UNCHANGED <<pile, last, head, order>>
      BY <1>7 DEF CloneFault, Terminated, vars, loop
    <2> QED
      BY <2>1 DEF IInv, Heads, Headed, InWork
  <1> QED
    BY <1>1, <1>2, <1>3, <1>4, <1>5, <1>6, <1>7 DEF Next, CloneStep, ClearStep

\* A text is not changed by what happens elsewhere.
LEMMA TextGrow ==
    ASSUME IInv, NEW l \in List, NEW a \in Node \ live, Grow(l, a), NEW b \in live
    PROVE  TextOf(b)' = TextOf(b)
  <1>1. node'[b].str = node[b].str
    BY DEF Grow
  <1>2. node[b].str \in Str => node[b].str \in Allocated
    BY DEF IInv, Owners
  <1>3. CASE UNCHANGED strs
    BY <1>1, <1>3 DEF TextOf
  <1>4. ASSUME NEW s \in Str \ Allocated, NEW t \in Text, Alloc(s, t)
        PROVE  TextOf(b)' = TextOf(b)
    BY <1>1, <1>2, <1>4 DEF TextOf, Alloc
  <1> QED
    BY <1>3, <1>4 DEF Grow

\* Freeing the string of one node leaves the texts of the others.
LEMMA TextShrink ==
    ASSUME IInv, NEW l \in List, Shrink(l), NEW b \in live'
    PROVE  TextOf(b)' = TextOf(b)
  <1>1. order[l] \in Seq(Node) /\ order[l] # <<>> /\ at = order[l][1]
    BY DEF IInv, TypeOK, Shrink
  <1>2. 1 \in 1..Len(order[l])
    BY <1>1
  <1>3. at \in live /\ b \in live /\ b # at
    BY <1>1, <1>2 DEF Shrink, IInv, Places
  <1>4. node' = node /\ ClearStr(at)
    BY DEF Shrink
  <1>5. node[b].str \in Str => node[b].str \in Allocated /\ node[b].str # node[at].str
    BY <1>3 DEF IInv, Owners, OneOwner
  <1> QED
    BY <1>4, <1>5 DEF TextOf, ClearStr, FreeStr
\* The loop of l_clone stays where its copy has arrived.
LEMMA CloningNext == IInv /\ [Next]_vars => Cloning'
  <1> SUFFICES ASSUME IInv, [Next]_vars PROVE Cloning'
    OBVIOUS
  <1>1. CASE CloneBegin
    <2>1. PICK p \in todo : pile' = p /\ at' = head[<<last - 1, p>>].f
      BY <1>1 DEF CloneBegin
    <2>2. PICK src \in List, dst \in List : src = <<last - 1, p>> /\ dst = <<last, p>>
      BY <1>1, ListOf, NullFacts DEF CloneBegin, IInv, TypeOK
    <2>3. order[dst] = <<>> /\ ndst = NULL /\ fdst = NULL /\ Headed(src)
      BY <1>1, <2>2 DEF CloneBegin, IInv, Phases, Heads, InWork
    <2>4. order[src] \in Seq(Node) /\ Len(order[dst]) = 0
      BY <2>2, <2>3 DEF IInv, TypeOK
    <2>5. order[src] = <<>> <=> ~(0 < Len(order[src]))
      BY <2>4
    <2>6. UNCHANGED <<last, order, fdst, ndst>>
      BY <1>1 DEF CloneBegin
    <2>7. at' = IF 0 < Len(order[src]) THEN order[src][0 + 1] ELSE NULL
      BY <2>1, <2>2, <2>3, <2>5 DEF Headed
    <2>8. Len(order[src]) \in Nat
      BY <2>4
    <2>9. src = <<last' - 1, pile'>> /\ dst = <<last', pile'>>
      BY <2>1, <2>2, <2>6
    <2>10. /\ order'[dst] = <<>> /\ Len(order'[dst]) = 0 /\ ndst' = NULL /\ fdst' = NULL
           /\ at' = IF 0 < Len(order'[src]) THEN order'[src][0 + 1] ELSE NULL
           /\ 0 <= Len(order'[src]) /\ \A i \in 1..0 : FALSE
      BY <2>3, <2>4, <2>6, <2>7, <2>8
    <2> QED
      BY <2>9, <2>10 DEF Cloning
  <1>2. CASE CloneNode
    <2>1. PICK a \in Node \ live : /\ ndst' = a /\ Grow(<<last, pile>>, a)
                                   /\ TextOf(a)' = TextOf(at)
      BY <1>2, CloneGrows
    <2>2. PICK src \in List, dst \in List :
              src = <<last - 1, pile>> /\ dst = <<last, pile>> /\ src # dst
      <3>1. <<last - 1, pile>> \in List /\ <<last, pile>> \in List
        BY <1>2, ListOf, PileIsManaged DEF CloneNode, IInv
      <3>2. last - 1 # last
        BY DEF IInv, TypeOK
      <3> QED
        BY <3>1, <3>2
    <2>3. Len(order[dst]) \in Nat /\ Len(order[src]) \in Nat /\ order[src] \in Seq(Node)
      BY DEF IInv, TypeOK
    <2>4. /\ Len(order'[dst]) = Len(order[dst]) + 1
          /\ order'[dst][Len(order[dst]) + 1] = a
          /\ \A i \in 1..Len(order[dst]) : order'[dst][i] = order[dst][i]
          /\ order'[src] = order[src]
          /\ order'[dst] # <<>>
      <3>1. TypeOK /\ order' = [order EXCEPT ![dst] = Append(@, a)]
        BY <2>1, <2>2 DEF IInv, Grow
      <3>2. /\ Len(order'[dst]) = Len(order[dst]) + 1
            /\ order'[dst][Len(order[dst]) + 1] = a
            /\ order'[dst] # <<>>
        BY <3>1, OrderGrows
      <3>3. \A i \in 1..Len(order[dst]) : order'[dst][i] = order[dst][i]
        BY <3>1, OrderGrows
      <3>4. order'[src] = order[src]
        BY <2>2, <3>1 DEF TypeOK
      <3> QED
        BY <3>2, <3>3, <3>4
    <2>5. /\ pc = "clone" /\ pile # NULL /\ at # NULL /\ at' = node[at].n
          /\ fdst' = IF fdst = NULL THEN ndst' ELSE fdst
          /\ UNCHANGED <<pc, last, pile>>
      BY <1>2 DEF CloneNode
    <2>6. /\ Len(order[dst]) <= Len(order[src])
          /\ at = IF Len(order[dst]) < Len(order[src])
                  THEN order[src][Len(order[dst]) + 1] ELSE NULL
          /\ fdst = IF order[dst] = <<>> THEN NULL ELSE order[dst][1]
          /\ \A i \in 1..Len(order[dst]) : TextOf(order[dst][i]) = TextOf(order[src][i])
      BY <2>2, <2>5 DEF IInv, Cloning
    <2>7. /\ Len(order[dst]) < Len(order[src])
          /\ at = order[src][Len(order[dst]) + 1]
          /\ Len(order[dst]) + 1 \in 1..Len(order[src])
      BY <2>3, <2>5, <2>6
    <2>8. at' = IF Len(order[dst]) + 1 < Len(order[src])
                THEN order[src][(Len(order[dst]) + 1) + 1] ELSE NULL
      BY <2>5, <2>7 DEF IInv, Links
    <2>9. fdst' = order'[dst][1]
      <3>1. CASE order[dst] = <<>>
        <4>1. Len(order[dst]) = 0
          BY <3>1
        <4> QED
          BY <2>1, <2>4, <2>5, <2>6, <3>1, <4>1
      <3>2. CASE order[dst] # <<>>
        <4>1. 1 \in 1..Len(order[dst]) /\ order[dst][1] \in Node
          BY <3>2 DEF IInv, TypeOK
        <4> QED
          BY <2>4, <2>5, <2>6, <3>2, <4>1, NullFacts
      <3> QED
        BY <3>1, <3>2
    <2>10. ASSUME NEW i \in 1..Len(order'[dst])
           PROVE  TextOf(order[dst][i])' = TextOf(order[src][i])'
      <3>1. i \in 1..Len(order[src])
        BY <2>3, <2>4, <2>7
      <3>2. PICK b \in live : b = order[src][i]
        BY <3>1 DEF IInv, Places
      <3>3. TextOf(b)' = TextOf(b)
        BY <2>1, <2>2, TextGrow
      <3>4. TextOf(order[src][i])' = TextOf(b)'
        BY <2>4, <3>2 DEF TextOf
      <3>5. CASE i \in 1..Len(order[dst])
        <4>1. PICK c \in live : c = order[dst][i]
          BY <3>5 DEF IInv, Places
        <4>2. TextOf(c)' = TextOf(c)
          BY <2>1, <2>2, TextGrow
        <4>3. TextOf(order[dst][i])' = TextOf(c)'
          BY <2>4, <3>5, <4>1 DEF TextOf
        <4> QED
          BY <2>6, <3>2, <3>3, <3>4, <3>5, <4>1, <4>2, <4>3
      <3>6. CASE i = Len(order[dst]) + 1
        <4>1. TextOf(order[dst][i])' = TextOf(a)'
          BY <2>4, <3>6 DEF TextOf
        <4>2. b = at
          BY <2>7, <3>2, <3>6
        <4> QED
          BY <2>1, <3>3, <3>4, <4>1, <4>2
      <3> QED
        BY <2>3, <2>4, <3>5, <3>6
    <2> DEFINE nd == order'[dst]
               ns == order'[src]
    <2>11. /\ Len(nd) <= Len(ns)
           /\ at' = IF Len(nd) < Len(ns) THEN ns[Len(nd) + 1] ELSE NULL
           /\ fdst' = nd[1] /\ ndst' = nd[Len(nd)] /\ nd # <<>>
      BY <2>1, <2>3, <2>4, <2>7, <2>8, <2>9
    <2> QED
      <3>1. src = <<last' - 1, pile'>> /\ dst = <<last', pile'>>
        BY <2>2, <2>5
      <3> QED
        BY <2>10, <2>11, <3>1 DEF Cloning
  <1>3. CASE CloneFault
    <2>1. pc = "clone" /\ UNCHANGED <<last, pile, order, at, fdst, ndst, node, strs>>
      BY <1>3 DEF CloneFault, heap, loop
    <2> QED
      BY <2>1 DEF IInv, Cloning, TextOf
  <1>4. CASE Terminated \/ UNCHANGED vars
    BY <1>4 DEF Terminated, vars, IInv, Cloning, TextOf
  <1>5. CASE \/ PushStep \/ ChainBegin \/ CloneEnd \/ CloneDone \/ TrimDone \/ ClearStep
    <2>1. pc' \notin {"clone", "fault"} \/ pile' = NULL
      BY <1>5 DEF PushStep, PushStatic, PushDefine, PushOwned, Parsed, ChainBegin, CloneEnd,
                  CloneDone, TrimDone, ClearStep, ClearBegin, ClearNode, ClearEnd, FreeBegin,
                  FreeDone, IInv, Phases
    <2> QED
      BY <2>1 DEF Cloning
  <1> QED
    BY <1>1, <1>2, <1>3, <1>4, <1>5 DEF Next, CloneStep

\* The loop of l_clear stays at the first node that is left.
LEMMA ClearingAtNext == IInv /\ [Next]_vars => ClearingAt'
  <1> SUFFICES ASSUME IInv, [Next]_vars PROVE ClearingAt'
    OBVIOUS
  <1>1. CASE ClearBegin
    <2>1. PICK p \in todo : pile' = p /\ at' = head[<<last, p>>].f
      BY <1>1 DEF ClearBegin
    <2>2. <<last, p>> \in List
      BY <1>1, ListOf, NullFacts DEF ClearBegin, IInv, TypeOK
    <2>3. Headed(<<last, p>>) /\ UNCHANGED <<last, order>>
      BY <1>1, <2>2 DEF ClearBegin, IInv, Heads, InWork
    <2> QED
      BY <2>1, <2>3 DEF ClearingAt, Headed
  <1>2. CASE ClearNode
    <2>1. PICK l \in List : l = <<last, pile>> /\ Shrink(l)
      BY <1>2, ClearShrinks
    <2>2. order[l] \in Seq(Node) /\ order[l] # <<>> /\ at = order[l][1]
      BY <2>1 DEF Shrink, IInv, TypeOK
    <2>3. Len(order[l]) \in Nat /\ 1 \in 1..Len(order[l])
      BY <2>2
    <2>4. at' = IF 1 < Len(order[l]) THEN order[l][2] ELSE NULL
      <3>1. node[order[l][1]].n = IF 1 < Len(order[l]) THEN order[l][1 + 1] ELSE NULL
        BY <2>3 DEF IInv, Links
      <3> QED
        BY <1>2, <2>2, <3>1 DEF ClearNode
    <2>5. /\ order'[l] \in Seq(Node) /\ Len(order'[l]) = Len(order[l]) - 1
          /\ \A i \in 1..Len(order'[l]) : order'[l][i] = order[l][i + 1]
      <3>1. TypeOK /\ order' = [order EXCEPT ![l] = Tail(@)]
        BY <2>1 DEF IInv, Shrink
      <3> QED
        BY <2>2, <3>1, OrderShrinks
    <2>6. order'[l] = <<>> <=> ~(1 < Len(order[l]))
      BY <2>3, <2>5
    <2>7. order'[l] # <<>> => order'[l][1] = order[l][2]
      <3>1. order'[l] # <<>> => 1 \in 1..Len(order'[l]) /\ 1 + 1 = 2
        BY <2>5
      <3> QED
        BY <2>5, <3>1
    <2>8. UNCHANGED <<last, pile>>
      BY <1>2 DEF ClearNode
    <2> QED
      BY <2>1, <2>4, <2>6, <2>7, <2>8 DEF ClearingAt
  <1>3. CASE Terminated \/ UNCHANGED vars
    BY <1>3 DEF Terminated, vars, IInv, ClearingAt
  <1>4. CASE PushStep \/ CloneStep \/ ClearEnd \/ FreeBegin \/ FreeDone
    <2>1. pc' \notin {"trim", "free"} \/ pile' = NULL
      BY <1>4 DEF PushStep, PushStatic, PushDefine, PushOwned, Parsed, CloneStep, ChainBegin,
                  CloneBegin, CloneNode, CloneFault, CloneEnd, CloneDone, TrimDone, ClearEnd,
                  FreeBegin, FreeDone, IInv, Phases, loop
    <2> QED
      BY <2>1 DEF ClearingAt
  <1> QED
    BY <1>1, <1>2, <1>3, <1>4 DEF Next, ClearStep
\* The control goes through the piles in order.
LEMMA PhasesNext == IInv /\ [Next]_vars => Phases'
  <1> SUFFICES ASSUME IInv, [Next]_vars PROVE Phases'
    OBVIOUS
  <1>1. last \in Nat /\ todo \subseteq Managed /\ \A p \in Managed : p # NULL /\ p \in Pile
    BY NullFacts DEF IInv, TypeOK
  <1>2. CASE PushStatic \/ PushDefine \/ PushOwned
    <2>1. PICK p \in Pile, a \in Node, ref \in Ref, owns \in BOOLEAN :
              AppendNode(<<last, p>>, a, ref, owns)
      <3>1. CASE PushStatic
        BY <3>1 DEF PushStatic, Ref
      <3>2. CASE PushDefine
        BY <3>2, ListAssumption DEF PushDefine, Ref, Pile, Managed
      <3>3. CASE PushOwned
        BY <3>3 DEF PushOwned, Ref, Pile
      <3> QED
        BY <1>2, <3>1, <3>2, <3>3
    <2>2. \A m \in List : m # <<last, p>> => order'[m] = order[m]
      BY <2>1 DEF AppendNode, IInv, TypeOK
    <2>3. \A m \in List : m[1] > last => m # <<last, p>>
      BY <1>1
    <2>4. pc \in {"parse", "prompt"} /\ UNCHANGED <<pc, last, loop>>
      BY <1>2 DEF PushStatic, PushDefine, PushOwned
    <2> QED
      BY <2>2, <2>3, <2>4 DEF IInv, Phases, loop
  <1>3. CASE Parsed \/ CloneFault \/ Terminated \/ UNCHANGED vars
    BY <1>3 DEF Parsed, CloneFault, Terminated, vars, loop, IInv, Phases
  <1>4. CASE ChainBegin
    <2>1. \A p \in Managed : <<last + 1, p>> \in List
      BY <1>1, <1>4, ListOf DEF ChainBegin, IInv
    <2>2. \A p \in Managed : order[<<last + 1, p>>] = <<>>
      BY <1>1, <2>1 DEF IInv, Phases
    <2>3. \A l \in List : l[1] > last + 1 => l[1] > last
      BY <1>1 DEF List, Context
    <2> QED
      BY <1>1, <1>4, <2>2, <2>3 DEF ChainBegin, IInv, Phases
  <1>5. CASE CloneBegin \/ ClearBegin
    BY <1>1, <1>5 DEF CloneBegin, ClearBegin, IInv, Phases
  <1>6. CASE CloneNode
    <2>1. \A m \in List : m # <<last, pile>> => order'[m] = order[m]
      BY <1>6 DEF CloneNode, IInv, TypeOK
    <2>2. \A m \in List : m[1] > last => m # <<last, pile>>
      BY <1>1
    <2>3. \A p \in todo : <<last, p>> \in List
      BY <1>1, <1>6, ListOf DEF CloneNode, IInv
    <2>4. pc = "clone" /\ pile # NULL /\ UNCHANGED <<pc, last, pile, todo>>
      BY <1>6 DEF CloneNode
    <2> QED
      BY <1>1, <2>1, <2>2, <2>3, <2>4 DEF IInv, Phases
  <1>7. CASE ClearNode
    <2>1. \A m \in List : m # <<last, pile>> => order'[m] = order[m]
      BY <1>7 DEF ClearNode, IInv, TypeOK
    <2>2. \A m \in List : m[1] > last => m # <<last, pile>>
      BY <1>1
    <2>3. \A p \in Managed : <<last, p>> \in List
      BY <1>1, <1>7, ListOf DEF ClearNode, IInv
    <2>4. /\ pc \in {"trim", "free"} /\ pile # NULL
          /\ UNCHANGED <<pc, last, pile, todo, ndst, fdst>>
      BY <1>7 DEF ClearNode
    <2> QED
      BY <1>1, <2>1, <2>2, <2>3, <2>4 DEF IInv, Phases
  <1>8. CASE CloneEnd
    BY <1>1, <1>8 DEF CloneEnd, heap, IInv, Phases
  <1>9. CASE CloneDone \/ TrimDone
    <2>1. CASE CloneDone
      BY <1>1, <2>1 DEF CloneDone, IInv, Phases, Managed
    <2>2. CASE TrimDone
      BY <1>1, <2>2 DEF TrimDone, loop, IInv, Phases
    <2> QED
      BY <1>9, <2>1, <2>2
  <1>10. CASE ClearEnd
    <2>1. order[<<last, pile>>] = <<>>
      <3>1. <<last, pile>> \in List
        BY <1>10, ListOf, PileIsManaged DEF ClearEnd, IInv
      <3>2. order[<<last, pile>>] # <<>> => order[<<last, pile>>][1] \in Node
        BY <3>1 DEF IInv, TypeOK
      <3> QED
        BY <1>10, <3>2, NullFacts DEF ClearEnd, IInv, ClearingAt
    <2> QED
      BY <1>1, <1>10, <2>1 DEF ClearEnd, IInv, Phases
  <1>11. CASE FreeBegin
    BY <1>1, <1>11 DEF FreeBegin, IInv, Phases
  <1>12. CASE FreeDone
    <2>1. /\ pc = "free" /\ pile = NULL /\ todo = {} /\ last' = last - 1
          /\ UNCHANGED <<pile, order, at, ndst, fdst>>
          /\ \/ last = 1 /\ pc' = "gone"
             \/ last # 1 /\ pc' = "free" /\ todo' = Managed
      BY <1>12 DEF FreeDone
    <2>2. \A p \in Managed : order[<<last, p>>] = <<>>
      BY <1>1, <2>1 DEF IInv, Phases
    <2>3. ASSUME NEW l \in List, l[1] > last - 1, l[2] \in Managed  PROVE order[l] = <<>>
      <3>1. l = <<l[1], l[2]>> /\ l[1] \in Nat
        BY DEF List, Context
      <3>2. CASE l[1] = last
        BY <2>2, <2>3, <3>1, <3>2
      <3>3. CASE l[1] # last
        <4>1. l[1] > last
          BY <1>1, <2>3, <3>1, <3>3
        <4> QED
          BY <2>3, <4>1 DEF IInv, Phases
      <3> QED
        BY <3>2, <3>3
    <2>4. pc' # "gone" => last' >= 1
      BY <1>1, <2>1 DEF IInv, Phases
    <2> QED
      BY <1>1, <2>1, <2>3, <2>4 DEF IInv, Phases
  <1> QED
    BY <1>2, <1>3, <1>4, <1>5, <1>6, <1>7, <1>8, <1>9, <1>10, <1>11, <1>12
       DEF Next, PushStep, CloneStep, ClearStep

-----------------------------------------------------------------------------
(* Theorems                                                                *)

\* The strengthening of all invariants of the lists.
THEOREM InductiveInvariant == Spec => []IInv
  <1>1. Init => IInv
    BY InitIInv
  <1>2. IInv /\ [Next]_vars => IInv'
    BY TypeNext, PlacesNext, OwnersNext, LinksNext, HeadsNext, CloningNext, ClearingAtNext,
       PhasesNext DEF IInv
  <1> QED
    BY <1>1, <1>2, PTL DEF Spec

\* The heap is always well typed: no loop, push or free of the list code writes a
\* field with a value of another kind (cext_list.c).
THEOREM HeapTyped == Spec => []TypeOK
  BY InductiveInvariant, PTL DEF IInv

\* Lists that no loop is in the middle of read the same forwards, backwards and by
\* their count (list.h, cext_list.c), after any pushes, clones and clears.
THEOREM ListsAreLinked == Spec => []ListShape
  <1>1. IInv => ListShape
    BY DEF IInv, Links, Heads, Clearing, ListShape, Linked
  <1> QED
    BY <1>1, InductiveInvariant, PTL

\* No node is in two lists or twice in one, so that no clone shares a node with
\* its source (l_clone).
THEOREM NodesInOnePlace == Spec => []OnePlace
  BY InductiveInvariant, PTL DEF IInv, Places

\* No string has two owners, and none that is owned is borrowed: value_clear frees
\* each string once (cext_value.c).
THEOREM StringsOwnedOnce == Spec => []OneOwner
  BY InductiveInvariant, PTL DEF IInv, Owners

\* What a list, a loop or a value points to has not been freed.
THEOREM NoDanglingPointers == Spec => []NothingDangles
  <1>1. IInv => NothingDangles
    <2> SUFFICES ASSUME IInv PROVE NothingDangles
      OBVIOUS
    <2>1. at # NULL => at \in live
      <3> SUFFICES ASSUME at # NULL PROVE at \in live
        OBVIOUS
      <3>1. pile # NULL /\ pc \in {"clone", "fault", "trim", "free"}
        BY DEF IInv, Phases, TypeOK
      <3>2. CASE pc \in {"clone", "fault"}
        <4>1. PICK src \in List, dst \in List :
                  src = <<last - 1, pile>> /\ dst = <<last, pile>>
          BY <3>1, <3>2, ListOf, PileIsManaged DEF IInv
        <4>2. Len(order[dst]) \in Nat /\ Len(order[src]) \in Nat
          BY DEF IInv, TypeOK
        <4>3. Len(order[dst]) < Len(order[src]) /\ at = order[src][Len(order[dst]) + 1]
          BY <3>1, <3>2, <4>1 DEF IInv, Cloning
        <4>4. Len(order[dst]) + 1 \in 1..Len(order[src])
          BY <4>2, <4>3
        <4> QED
          BY <4>3, <4>4 DEF IInv, Places
      <3>3. CASE pc \in {"trim", "free"}
        <4>1. PICK l \in List : l = <<last, pile>>
          BY <3>1, <3>3, ListOf, PileIsManaged DEF IInv
        <4>2. order[l] # <<>> /\ at = order[l][1]
          BY <3>1, <3>3, <4>1 DEF IInv, ClearingAt
        <4>3. order[l] \in Seq(Node)
          BY DEF IInv, TypeOK
        <4>4. 1 \in 1..Len(order[l])
          BY <4>2, <4>3
        <4> QED
          BY <4>2, <4>4 DEF IInv, Places
      <3> QED
        BY <3>1, <3>2, <3>3
    <2> QED
      BY <2>1 DEF IInv, Places, Owners, NothingDangles
  <1> QED
    BY <1>1, InductiveInvariant, PTL

\* Every node and every string is reachable until it is freed; after cplr_free only
\* the piles it forgets are left (cplr_state.c).
THEOREM NothingIsLost == Spec => []NothingLeaks
  <1>1. IInv => NothingLeaks
    <2> SUFFICES ASSUME IInv, NEW l \in List, order[l] # <<>>
                 PROVE  l[1] <= last \/ l[2] \in Unmanaged
      BY DEF IInv, Places, Owners, NothingLeaks
    <2>1. l[1] \in Nat /\ last \in Nat /\ l[2] \in Managed \cup Unmanaged
      BY DEF List, Context, Pile, IInv, TypeOK
    <2> QED
      BY <2>1 DEF IInv, Phases
  <1> QED
    BY <1>1, InductiveInvariant, PTL
-----------------------------------------------------------------------------
(* The lists as values                                                     *)

\* The text of a node that survives a step does not change.
LEMMA TextSame ==
    ASSUME IInv, [Next]_vars, NEW b \in live, b \in live'
    PROVE  TextOf(b)' = TextOf(b)
  <1>1. CASE UNCHANGED <<heap, order>>
    BY <1>1 DEF heap, TextOf
  <1> QED
    BY <1>1, HeapStep, TextGrow, TextShrink

\* A list whose nodes stay keeps its contents, whatever happens to the others.
LEMMA ContentSame ==
    ASSUME IInv, [Next]_vars, NEW m \in List, order'[m] = order[m]
    PROVE  Content(m)' = Content(m)
  <1>1. ASSUME NEW i \in 1..Len(order[m])
        PROVE  TextOf(order[m][i])' = TextOf(order[m][i])
    <2>1. PICK b \in live : b = order[m][i]
      BY DEF IInv, Places
    <2>2. b \in live'
      BY <2>1, PlacesNext DEF Places
    <2>3. TextOf(order[m][i])' = TextOf(b)'
      BY <2>1 DEF TextOf
    <2> QED
      BY <2>1, <2>2, <2>3, TextSame
  <1> QED
    BY <1>1 DEF Content

\* When l_clone ends, its list has the contents of the source.
LEMMA CloneComplete ==
    ASSUME IInv, CloneEnd,
           NEW src \in List, NEW dst \in List, src = <<last - 1, pile>>, dst = <<last, pile>>
    PROVE  Content(dst) = Content(src)
  <1>1. /\ Len(order[dst]) <= Len(order[src])
        /\ at = IF Len(order[dst]) < Len(order[src])
                THEN order[src][Len(order[dst]) + 1] ELSE NULL
        /\ \A i \in 1..Len(order[dst]) : TextOf(order[dst][i]) = TextOf(order[src][i])
        /\ at = NULL
    BY DEF CloneEnd, IInv, Cloning
  <1>2. order[src] \in Seq(Node) /\ order[dst] \in Seq(Node)
    BY DEF IInv, TypeOK
  <1>3. Len(order[dst]) < Len(order[src]) => order[src][Len(order[dst]) + 1] \in Node
    BY <1>2
  <1>4. ~(Len(order[dst]) < Len(order[src]))
    BY <1>1, <1>3, NullFacts
  <1>5. Len(order[dst]) = Len(order[src])
    BY <1>1, <1>2, <1>4
  <1> QED
    BY <1>1, <1>5 DEF Content

\* When l_clear ends, its list is empty.
LEMMA ClearComplete ==
    ASSUME IInv, ClearEnd  PROVE order[<<last, pile>>] = <<>>
  <1>1. <<last, pile>> \in List
    BY ListOf, PileIsManaged DEF ClearEnd, IInv
  <1>2. order[<<last, pile>>] # <<>> => order[<<last, pile>>][1] \in Node
    BY <1>1 DEF IInv, TypeOK
  <1> QED
    BY <1>2, NullFacts DEF ClearEnd, IInv, ClearingAt

\* What a chain has achieved so far: all piles but the one in work are copied, then
\* the volatile ones are emptied.
Copied ==
    /\ pc = "clone" => \A p \in Managed \ todo :
                           p # pile => Content(<<last, p>>) = Content(<<last - 1, p>>)
    /\ pc = "trim" => /\ \A p \in Stable : Content(<<last, p>>) = Content(<<last - 1, p>>)
                      /\ \A p \in Volatile \ todo : p # pile => order[<<last, p>>] = <<>>

\* A list no loop changes in this step.
LEMMA Others ==
    ASSUME IInv, [Next]_vars, CloneNode \/ ClearNode, NEW m \in List, m # <<last, pile>>
    PROVE  order'[m] = order[m]
  BY DEF CloneNode, ClearNode, IInv, TypeOK

\* Chaining makes progress pile by pile and never goes back.
LEMMA CopiedNext == IInv /\ Copied /\ [Next]_vars => Copied'
  <1> SUFFICES ASSUME IInv, Copied, [Next]_vars PROVE Copied'
    OBVIOUS
  <1>1. \A p \in Managed : p # NULL /\ p \in Pile
    BY NullFacts
  <1>2. Stable \subseteq Managed /\ Volatile \subseteq Managed /\ Stable \cap Volatile = {}
    BY ListAssumption DEF Managed
  <1>3. CASE CloneBegin \/ ClearBegin \/ CloneDone \/ TrimDone
    <2>1. /\ order' = order /\ last' = last /\ pile = NULL /\ pc \in {"clone", "trim", "free"}
          /\ UNCHANGED <<node, strs>>
      BY <1>3 DEF CloneBegin, ClearBegin, CloneDone, TrimDone, heap
    <2>2. \A m \in List : Content(m)' = Content(m)
      BY <2>1 DEF Content, TextOf
    <2>3. pc' \in {"clone", "trim"} =>
              \A p \in Managed : /\ Content(<<last, p>>)' = Content(<<last, p>>)
                                 /\ Content(<<last - 1, p>>)' = Content(<<last - 1, p>>)
      BY <2>1 DEF Content, TextOf
    <2>4. CASE CloneBegin
      <3>1. PICK p \in todo : pc = "clone" /\ pc' = pc /\ pile' = p /\ todo' = todo \ {p}
        BY <2>4 DEF CloneBegin
      <3> QED
        BY <1>1, <2>1, <2>3, <3>1 DEF Copied
    <2>5. CASE ClearBegin
      <3>1. PICK p \in todo : pc' = pc /\ pc # "clone" /\ pile' = p /\ todo' = todo \ {p}
        BY <2>5 DEF ClearBegin
      <3> QED
        BY <1>1, <1>2, <2>1, <2>3, <3>1 DEF Copied
    <2>6. CASE CloneDone
      <3>1. pc = "clone" /\ pc' = "trim" /\ todo = {} /\ todo' = Volatile
        BY <2>6 DEF CloneDone
      <3> QED
        BY <1>1, <1>2, <2>1, <2>3, <3>1 DEF Copied
    <2>7. CASE TrimDone
      BY <2>7 DEF TrimDone, Copied
    <2> QED
      BY <1>3, <2>4, <2>5, <2>6, <2>7
  <1>4. CASE CloneNode
    <2>1. /\ pc = "clone" /\ UNCHANGED <<pc, last, pile, todo>>
      BY <1>4 DEF CloneNode
    <2>2. ASSUME NEW p \in Managed \ todo, p # pile
          PROVE  Content(<<last, p>>)' = Content(<<last - 1, p>>)'
      <3>1. PICK src \in List, dst \in List : src = <<last - 1, p>> /\ dst = <<last, p>>
        BY <1>1, <2>1, ListOf DEF IInv
      <3>2. src # <<last, pile>> /\ dst # <<last, pile>>
        BY <2>2, <3>1
      <3>3. Content(src)' = Content(src) /\ Content(dst)' = Content(dst)
        BY <1>4, <3>2, Others, ContentSame
      <3>4. Content(dst) = Content(src)
        BY <2>1, <2>2, <3>1 DEF Copied
      <3>5. src = <<last' - 1, p>> /\ dst = <<last', p>>
        BY <2>1, <3>1
      <3> QED
        BY <3>3, <3>4, <3>5 DEF Content
    <2> QED
      BY <2>1, <2>2 DEF Copied
  <1>5. CASE ClearNode
    <2>1. pc \in {"trim", "free"} /\ pile # NULL /\ UNCHANGED <<pc, last, pile, todo>>
      BY <1>5 DEF ClearNode
    <2>2. ASSUME pc = "trim", NEW p \in Stable
          PROVE  Content(<<last, p>>)' = Content(<<last - 1, p>>)'
      <3>1. PICK src \in List, dst \in List : src = <<last - 1, p>> /\ dst = <<last, p>>
        BY <1>1, <1>2, <2>2, ListOf DEF IInv
      <3>2. src # <<last, pile>> /\ dst # <<last, pile>>
        BY <1>2, <2>1, <2>2, <3>1 DEF IInv, Phases
      <3>3. Content(src)' = Content(src) /\ Content(dst)' = Content(dst)
        BY <1>5, <3>2, Others, ContentSame
      <3>4. Content(dst) = Content(src)
        BY <2>2, <3>1 DEF Copied
      <3>5. src = <<last' - 1, p>> /\ dst = <<last', p>>
        BY <2>1, <3>1
      <3> QED
        BY <3>3, <3>4, <3>5 DEF Content
    <2>3. ASSUME pc = "trim", NEW p \in Volatile \ todo, p # pile
          PROVE  order'[<<last, p>>] = <<>>
      <3>1. <<last, p>> \in List /\ <<last, p>> # <<last, pile>>
        BY <1>1, <1>2, <2>3, ListOf DEF IInv
      <3> QED
        BY <1>5, <2>3, <3>1, Others DEF Copied
    <2> QED
      BY <2>1, <2>2, <2>3 DEF Copied
  <1>6. CASE CloneEnd
    <2>1. /\ pc = "clone" /\ pile \in Managed /\ pile' = NULL
          /\ UNCHANGED <<pc, last, todo, order, node, strs>>
      BY <1>6, PileIsManaged DEF CloneEnd, heap, IInv
    <2>2. Content(<<last, pile>>) = Content(<<last - 1, pile>>)
      <3>1. PICK src \in List, dst \in List : src = <<last - 1, pile>> /\ dst = <<last, pile>>
        BY <1>1, <2>1, ListOf DEF IInv
      <3> QED
        BY <1>6, <3>1, CloneComplete
    <2>3. \A p \in Managed \ todo : Content(<<last, p>>) = Content(<<last - 1, p>>)
      BY <2>1, <2>2 DEF Copied
    <2>4. \A p \in Managed : /\ Content(<<last, p>>)' = Content(<<last, p>>)
                             /\ Content(<<last - 1, p>>)' = Content(<<last - 1, p>>)
      BY <2>1 DEF Content, TextOf
    <2> QED
      BY <2>1, <2>3, <2>4 DEF Copied
  <1>7. CASE ClearEnd
    <2>1. /\ pc # "clone" /\ pile' = NULL /\ UNCHANGED <<pc, last, todo, order, node, strs>>
      BY <1>7 DEF ClearEnd, heap
    <2>2. order[<<last, pile>>] = <<>>
      BY <1>7, ClearComplete
    <2>3. \A p \in Managed : /\ Content(<<last, p>>)' = Content(<<last, p>>)
                             /\ Content(<<last - 1, p>>)' = Content(<<last - 1, p>>)
      BY <2>1 DEF Content, TextOf
    <2> QED
      BY <1>2, <2>1, <2>2, <2>3 DEF Copied
  <1>8. CASE Terminated \/ UNCHANGED vars
    <2>1. UNCHANGED <<pc, last, pile, todo, order, node, strs>>
      BY <1>8 DEF Terminated, vars
    <2> QED
      BY <2>1 DEF Copied, Content, TextOf
  <1>9. CASE ChainBegin
    BY <1>9 DEF ChainBegin, Copied
  <1>10. CASE PushStep \/ CloneFault \/ FreeBegin \/ FreeDone
    <2>1. pc' \notin {"clone", "trim"}
      BY <1>10 DEF PushStep, PushStatic, PushDefine, PushOwned, Parsed, CloneFault, FreeBegin,
                   FreeDone
    <2> QED
      BY <2>1 DEF Copied
  <1> QED
    BY <1>3, <1>4, <1>5, <1>6, <1>7, <1>8, <1>9, <1>10 DEF Next, CloneStep, ClearStep

\* When cplr_chain returns, the new context has the texts of the stable piles of
\* the one before it, and empty volatile piles.
THEOREM ChainingKeepsStablePiles == Spec => ChainKeepsStable
  <1>1. Init => Copied
    BY DEF Init, Copied
  <1>2. IInv /\ Copied /\ [Next]_vars =>
            [pc = "trim" /\ pc' = "prompt" =>
                /\ \A p \in Stable : Content(<<last, p>>) = Content(<<last - 1, p>>)
                /\ \A p \in Volatile : head[<<last, p>>] = EmptyHead]_vars
    <2> SUFFICES ASSUME IInv, Copied, [Next]_vars, pc = "trim", pc' = "prompt"
                 PROVE  /\ \A p \in Stable : Content(<<last, p>>) = Content(<<last - 1, p>>)
                        /\ \A p \in Volatile : head[<<last, p>>] = EmptyHead
      OBVIOUS
    <2>1. pile = NULL /\ todo = {}
      BY DEF Next, vars, PushStep, CloneStep, ClearStep, PushStatic, PushDefine, PushOwned,
             Parsed, ChainBegin, CloneBegin, CloneNode, CloneFault, CloneEnd, CloneDone,
             TrimDone, ClearBegin, ClearNode, ClearEnd, FreeBegin, FreeDone, Terminated
    <2>2. ASSUME NEW p \in Volatile  PROVE head[<<last, p>>] = EmptyHead
      <3>1. PICK l \in List : l = <<last, p>>
        BY ListOf DEF IInv, Pile, Managed
      <3>2. order[l] = <<>> /\ Headed(l)
        BY <2>1, <3>1, NullFacts DEF Copied, IInv, Heads, InWork, Managed
      <3>3. head[l] = [c |-> head[l].c, f |-> head[l].f, l |-> head[l].l]
        BY DEF IInv, TypeOK
      <3>4. Len(order[l]) = 0
        BY <3>2
      <3> QED
        BY <3>1, <3>2, <3>3, <3>4 DEF Headed, EmptyHead
    <2> QED
      BY <2>2 DEF Copied
  <1> QED
    BY <1>1, <1>2, CopiedNext, InductiveInvariant, PTL DEF Spec, ChainKeepsStable
-----------------------------------------------------------------------------
(* The refinement of PileStore                                             *)

\* The mapped state: a list under a loop is empty.
Piles == [l \in List |-> IF InWork(l) THEN <<>> ELSE Content(l)]

\* The contents of a list are empty if it has no nodes.
LEMMA NoContent == ASSUME NEW l \in List, order[l] = <<>>  PROVE Content(l) = <<>>
  <1>1. Len(order[l]) = 0
    OBVIOUS
  <1> QED
    BY <1>1 DEF Content

\* A push is an append of its text to one pile.
LEMMA PushAppends ==
    ASSUME IInv, [Next]_vars, NEW l \in List, NEW a \in Node \ live, Grow(l, a),
           pile = NULL
    PROVE  \E t \in Text \cup {NULL} : Piles' = [Piles EXCEPT ![l] = Append(@, t)]
  <1> DEFINE t == TextOf(a)'
  <1>1. t \in Text \cup {NULL}
    <2>1. CASE UNCHANGED strs /\ node'[a].str \in Text \cup {NULL}
      BY <2>1, NullFacts DEF TextOf
    <2>2. ASSUME NEW s \in Str \ Allocated, NEW u \in Text, Alloc(s, u), node'[a].str = s
          PROVE  t \in Text \cup {NULL}
      BY <2>2 DEF TextOf, Alloc
    <2> QED
      BY <2>1, <2>2 DEF Grow
  <1>2. /\ Len(order'[l]) = Len(order[l]) + 1
        /\ order'[l][Len(order[l]) + 1] = a
        /\ \A i \in 1..Len(order[l]) : order'[l][i] = order[l][i]
        /\ \A m \in List : m # l => order'[m] = order[m]
    <2>1. TypeOK /\ order' = [order EXCEPT ![l] = Append(@, a)]
      BY DEF IInv, Grow
    <2> QED
      BY <2>1, OrderGrows
  <1>3. Len(order[l]) \in Nat
    BY DEF IInv, TypeOK
  <1>4. \A m \in List : m # l => Content(m)' = Content(m)
    BY <1>2, ContentSame
  <1>5. Content(l)' = Append(Content(l), t)
    <2>1. ASSUME NEW i \in 1..Len(order[l])
          PROVE  TextOf(order[l][i])' = TextOf(order[l][i])
      <3>1. PICK b \in live : b = order[l][i]
        BY DEF IInv, Places
      <3>2. TextOf(b)' = TextOf(b)
        BY TextGrow
      <3> QED
        BY <1>2, <3>1, <3>2 DEF TextOf
    <2>2. PICK n \in Nat : n = Len(order[l])
      BY <1>3
    <2>3. TextOf(order[l][n + 1])' = t
      BY <1>2, <2>2 DEF TextOf
    <2> DEFINE S  == { TextOf(order[l][i]) : i \in 1..n } \cup {t}
               c  == [i \in 1..n |-> TextOf(order[l][i])]
               c2 == [i \in 1..(n + 1) |-> TextOf(order[l][i])']
    <2>4. c = Content(l) /\ c2 = Content(l)'
      BY <1>2, <2>2 DEF Content
    <2>5. c \in Seq(S) /\ Len(c) = n /\ t \in S
      BY <2>2
    <2>6. \A i \in 1..(n + 1) : c2[i] = IF i = n + 1 THEN t ELSE c[i]
      BY <2>1, <2>2, <2>3
    <2>7. c2 \in [1..(n + 1) -> S]
      <3>1. \A i \in 1..n : c[i] \in S
        OBVIOUS
      <3>2. \A i \in 1..(n + 1) : i = n + 1 \/ i \in 1..n
        BY <2>2
      <3>3. \A i \in 1..(n + 1) : c2[i] \in S
        BY <2>5, <2>6, <3>1, <3>2
      <3> QED
        BY <3>3
    <2> HIDE DEF c, c2, S
    <2>8. c2 \in Seq(S) /\ Len(c2) = n + 1
      BY <2>2, <2>7
    <2>9. c2 = Append(c, t)
      BY <2>2, <2>5, <2>6, <2>8
    <2> QED
      BY <2>4, <2>9
  <1>6. pile' = NULL
    BY DEF Grow
  <1>7. Piles = [m \in List |-> Content(m)] /\ Piles' = [m \in List |-> Content(m)']
    BY <1>6 DEF Piles, InWork
  <1>8. Piles' = [Piles EXCEPT ![l] = Append(@, t)]
    BY <1>4, <1>5, <1>7
  <1> QED
    BY <1>1, <1>8

\* Every step of the lists is a step of the piles as values, or changes none.
LEMMA StepRefines == IInv /\ [Next]_vars => [Store!Next]_Piles
  <1> SUFFICES ASSUME IInv, [Next]_vars PROVE Store!Next \/ UNCHANGED Piles
    OBVIOUS
  <1>1. CASE PushStatic \/ PushDefine \/ PushOwned
    <2>1. pile = NULL /\ pc \in {"parse", "prompt"}
      BY <1>1 DEF PushStatic, PushDefine, PushOwned, IInv, Phases
    <2>2. CASE \E l \in List, a \in Node \ live : Grow(l, a)
      BY <2>1, <2>2, PushAppends DEF Store!Next, Store!Append1, Store!Entry, Piles
    <2>3. CASE \E l \in List : Shrink(l)
      BY <2>1, <2>3 DEF Shrink, Clearing, InWork
    <2>4. CASE UNCHANGED <<heap, order>>
      <3>1. pile' = pile
        BY <1>1 DEF PushStatic, PushDefine, PushOwned, loop
      <3>2. \A l \in List : Content(l)' = Content(l)
        BY <2>4, ContentSame
      <3> QED
        BY <2>1, <3>1, <3>2 DEF Piles, InWork
    <2> QED
      BY <2>2, <2>3, <2>4, HeapStep
  <1>2. CASE CloneNode \/ ClearNode
    <2>1. UNCHANGED <<pile, last>> /\ pile # NULL
      BY <1>2 DEF CloneNode, ClearNode
    <2>2. \A l \in List : ~InWork(l) => Content(l)' = Content(l)
      BY <1>2, <2>1, Others, ContentSame DEF InWork
    <2> QED
      BY <2>1, <2>2 DEF Piles, InWork
  <1>3. CASE CloneEnd
    <2>1. PICK src \in List, dst \in List :
              src = <<last - 1, pile>> /\ dst = <<last, pile>> /\ src # dst
      <3>1. <<last - 1, pile>> \in List /\ <<last, pile>> \in List
        BY <1>3, ListOf, PileIsManaged DEF CloneEnd, IInv
      <3>2. last - 1 # last
        BY DEF IInv, TypeOK
      <3> QED
        BY <3>1, <3>2
    <2>2. pile # NULL /\ pile' = NULL /\ UNCHANGED <<order, last>>
      BY <1>3 DEF CloneEnd
    <2>3. \A l \in List : Content(l)' = Content(l)
      BY <2>2, ContentSame
    <2>4. Content(dst) = Content(src)
      BY <1>3, <2>1, CloneComplete
    <2>5. /\ \A l \in List : l # dst => Piles[l] = Content(l)
          /\ Piles[dst] = <<>>
          /\ \A l \in List : Piles'[l] = Content(l)
      BY <2>1, <2>2, <2>3 DEF Piles, InWork
    <2>6. Piles' = [Piles EXCEPT ![dst] = Piles[src]]
      BY <2>1, <2>4, <2>5 DEF Piles
    <2>7. Store!Copy(src, dst)
      BY <2>6 DEF Store!Copy, Piles
    <2> QED
      BY <2>5, <2>7 DEF Store!Next, Piles
  <1>4. CASE ClearBegin
    <2>1. PICK p \in todo : pile' = p
      BY <1>4 DEF ClearBegin
    <2>2. PICK l \in List : l = <<last, p>>
      BY <1>4, ListOf, NullFacts DEF ClearBegin, IInv, TypeOK
    <2>3. pile = NULL /\ pile' # NULL /\ UNCHANGED <<order, last>>
      BY <1>4, <2>1, NullFacts DEF ClearBegin, IInv, TypeOK
    <2>4. \A m \in List : Content(m)' = Content(m)
      BY <2>3, ContentSame
    <2>5. Piles' = [Piles EXCEPT ![l] = <<>>]
      BY <2>1, <2>2, <2>3, <2>4 DEF Piles, InWork
    <2>6. Store!Clear(l)
      BY <2>5 DEF Store!Clear, Piles
    <2> QED
      BY <2>6 DEF Store!Next
  <1>5. CASE CloneBegin \/ ClearEnd
    <2>1. UNCHANGED <<order, last>>
      BY <1>5 DEF CloneBegin, ClearEnd
    <2>2. \A m \in List : Content(m)' = Content(m)
      BY <2>1, ContentSame
    <2>3. CASE CloneBegin
      <3>1. PICK p \in todo : pc = "clone" /\ pile = NULL /\ pile' = p
        BY <2>3 DEF CloneBegin
      <3>2. PICK l \in List : l = <<last, p>>
        BY <3>1, ListOf, NullFacts DEF IInv, TypeOK
      <3>3. Content(l) = <<>>
        BY <3>1, <3>2, NoContent DEF IInv, Phases
      <3> QED
        BY <2>1, <2>2, <3>1, <3>2, <3>3 DEF Piles, InWork
    <2>4. CASE ClearEnd
      <3>1. pile # NULL /\ pile' = NULL
        BY <2>4 DEF ClearEnd
      <3>2. \A m \in List : InWork(m) => Content(m) = <<>>
        BY <2>4, ClearComplete, NoContent DEF InWork
      <3> QED
        BY <2>1, <2>2, <3>1, <3>2 DEF Piles, InWork
    <2> QED
      BY <1>5, <2>3, <2>4
  <1>6. CASE \/ Parsed \/ ChainBegin \/ CloneFault \/ CloneDone \/ TrimDone
             \/ FreeBegin \/ FreeDone \/ Terminated \/ UNCHANGED vars
    <2>1. UNCHANGED <<pile, order>> /\ (pile # NULL => last' = last)
      BY <1>6 DEF Parsed, ChainBegin, CloneFault, CloneDone, TrimDone, FreeBegin, FreeDone,
                  Terminated, vars, loop, IInv, Phases
    <2>2. \A m \in List : Content(m)' = Content(m)
      BY <2>1, ContentSame
    <2> QED
      BY <2>1, <2>2 DEF Piles, InWork
  <1> QED
    BY <1>1, <1>2, <1>3, <1>4, <1>5, <1>6 DEF Next, PushStep, CloneStep, ClearStep

\* The lists of the C code behave as values: a copy appears at once and equal to its
\* source, and nothing done to one pile is ever seen in another (cext_list.c).
THEOREM ListsAreValues == Spec => StoreSpec
  <1>1. Init => Store!Init
    <2> SUFFICES ASSUME Init PROVE Piles = [l \in List |-> <<>>]
      BY DEF Store!Init, Piles
    <2>1. \A l \in List : Content(l) = <<>>
      BY NoContent DEF Init
    <2> QED
      BY <2>1 DEF Piles
  <1> QED
    BY <1>1, StepRefines, InductiveInvariant, PTL DEF Spec, StoreSpec, Store!Spec, Piles
=============================================================================
