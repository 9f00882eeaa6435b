------------------------------ MODULE CplrList ------------------------------
(***************************************************************************)
(* The piles of the contexts as the C code holds them: doubly linked lists *)
(* of nodes whose values own a string or borrow one (cext_list.c,          *)
(* cext_value.c), under the operations of a session.  Options push on the  *)
(* root (cplr_optparse.c), lines push on the last context, chaining clones *)
(* all managed piles node by node and clears the volatile ones, and the    *)
(* end of a session frees the contexts from the last to the root           *)
(* (cplr_state.c).                                                         *)
(*                                                                         *)
(* An address is a node or a string; a string that is borrowed (from argv, *)
(* or a literal) is represented by its text, as nobody frees it.           *)
(***************************************************************************)
EXTENDS Naturals, Sequences, FiniteSets

CONSTANTS
    Node, Str,   \* addresses of nodes and of allocated strings
    Text,        \* contents of strings
    TooLong,     \* texts that exceed the bound of a define
    Stable,      \* piles kept in chaining
    Volatile,    \* piles cleared in chaining
    Unmanaged,   \* piles that are neither cloned nor cleared
    Define,      \* the pile of the defines
    MaxChain,    \* bound: contexts of a session
    NULL

Managed == Stable \cup Volatile
Pile    == Managed \cup Unmanaged
Context == 1..MaxChain
List    == Context \X Pile

ASSUME ListAssumption ==
    /\ MaxChain \in Nat \ {0}
    /\ NULL \notin Node \cup Str \cup Text \cup Pile
    /\ Str \cap Text = {}
    /\ TooLong \subseteq Text
    /\ Define \in Stable
    /\ Stable \cap Volatile = {} /\ Managed \cap Unmanaged = {}

Ref == Str \cup Text \cup {NULL}

VARIABLES
    pc,      \* what the process does with its piles
    last,    \* the last context; 0 when all are freed
    head,    \* heads: count, first and last node
    node,    \* nodes: head, next, previous, and the value
    live,    \* the allocated nodes
    strs,    \* contents of the allocated strings, by address
    pile,    \* the pile a loop of l_clone or l_clear works on, or NULL
    todo,    \* the piles the running clone, trim or free has still to do
    at,      \* nsrc of l_clone, n of l_clear
    ndst, fdst, \* locals of l_clone
    order    \* history variable: the nodes of each list in order

vars == <<pc, last, head, node, live, strs, pile, todo, at, ndst, fdst, order>>
heap == <<node, live, strs>>
loop == <<pile, todo, at, ndst, fdst>>

EmptyHead == [c |-> 0, f |-> NULL, l |-> NULL]
Allocated == DOMAIN strs

TypeOK ==
    /\ pc \in {"parse", "prompt", "clone", "trim", "free", "gone", "fault"}
    /\ last \in 0..MaxChain
    /\ head \in [List -> [c : Nat, f : Node \cup {NULL}, l : Node \cup {NULL}]]
    /\ node \in [Node -> [h : List \cup {NULL}, n : Node \cup {NULL}, p : Node \cup {NULL},
                          str : Ref, owned : BOOLEAN]]
    /\ live \subseteq Node
    /\ Allocated \subseteq Str
    /\ \A s \in Allocated : strs[s] \in Text
    /\ pile \in Managed \cup {NULL}
    /\ todo \subseteq Managed
    /\ at \in Node \cup {NULL} /\ ndst \in Node \cup {NULL} /\ fdst \in Node \cup {NULL}
    /\ order \in [List -> Seq(Node)]

Init ==
    /\ pc = "parse" /\ last = 1
    /\ head = [l \in List |-> EmptyHead]
    /\ node = [a \in Node |-> [h |-> NULL, n |-> NULL, p |-> NULL,
                               str |-> NULL, owned |-> FALSE]]
    /\ live = {} /\ strs = <<>>
    /\ pile = NULL /\ todo = {}
    /\ at = NULL /\ ndst = NULL /\ fdst = NULL
    /\ order = [l \in List |-> <<>>]

\* Allocate and free a string.
Alloc(s, t) == strs' = [r \in Allocated \cup {s} |-> IF r = s THEN t ELSE strs[r]]
FreeStr(s)  == strs' = [r \in Allocated \ {s} |-> strs[r]]

-----------------------------------------------------------------------------
(* Pushing                                                                 *)

\* The node is not a new one.
Slip_AppendAny(l, a, ref, owns) ==
    /\ live' = live \cup {a}
    /\ node' = [node EXCEPT ![a] = [h |-> l, n |-> NULL, p |-> head[l].l,
                                    str |-> ref, owned |-> owns]]
    /\ head' = [head EXCEPT ![l] =
                    [c |-> @.c + 1, f |-> IF @.f = NULL THEN a ELSE @.f, l |-> a]]
    /\ order' = [order EXCEPT ![l] = Append(@, a)]

\* l_append: a fresh node behind the last one.
AppendNode(l, a, ref, owns) ==
    LET prev == head[l].l
        new  == [h |-> l, n |-> NULL, p |-> prev, str |-> ref, owned |-> owns]
    IN  /\ a \in Node \ live
        /\ live' = live \cup {a}
        /\ node' = [b \in Node |-> IF b = a THEN new
                                   ELSE IF b = prev THEN [node[b] EXCEPT !.n = a]
                                   ELSE node[b]]
        /\ head' = [head EXCEPT ![l] =
                        [c |-> @.c + 1, f |-> IF @.f = NULL THEN a ELSE @.f, l |-> a]]
        /\ order' = [order EXCEPT ![l] = Append(@, a)]

\* Options and defaults push texts they do not own.
PushStatic ==
    /\ pc = "parse"
    /\ \E p \in Pile \ {Define}, a \in Node, t \in Text :
          AppendNode(<<last, p>>, a, t, FALSE)
    /\ UNCHANGED <<pc, last, strs, loop>>

\* A define is formatted into a bounded string: one that is too long is NULL.
PushDefine ==
    /\ pc = "parse"
    /\ \E a \in Node, t \in Text :
        IF t \in TooLong
        THEN /\ AppendNode(<<last, Define>>, a, NULL, TRUE)
             /\ UNCHANGED strs
        ELSE \E s \in Str \ Allocated :
                /\ AppendNode(<<last, Define>>, a, s, TRUE)
                /\ Alloc(s, t)
    /\ UNCHANGED <<pc, last, loop>>

\* Lines, and the options of packages, push a string of their own.
PushOwned ==
    /\ pc = "prompt"
    /\ \E p \in Managed, a \in Node, t \in Text, s \in Str \ Allocated :
          /\ AppendNode(<<last, p>>, a, s, TRUE)
          /\ Alloc(s, t)
    /\ UNCHANGED <<pc, last, loop>>

Parsed ==
    /\ pc = "parse"
    /\ pc' = "prompt"
    /\ UNCHANGED <<last, head, heap, loop, order>>

-----------------------------------------------------------------------------
(* Chaining                                                                *)

\* Bound: the addresses suffice for a copy of everything.
Room ==
    LET used == { a \in live : \E p \in Managed : node[a].h = <<last, p>> }
    IN  /\ Cardinality(used) <= Cardinality(Node \ live)
        /\ Cardinality(used) <= Cardinality(Str \ Allocated)

\* cplr_clone begins: the new context has empty heads.
ChainBegin ==
    /\ pc = "prompt" /\ last < MaxChain /\ Room
    /\ pc' = "clone"
    /\ last' = last + 1
    /\ todo' = Managed
    /\ UNCHANGED <<head, heap, pile, at, ndst, fdst, order>>

\* The root is cloned instead of the context before.
Slip_CloneRoot ==
    /\ pc = "clone" /\ pile = NULL
    /\ \E p \in todo :
        /\ pile' = p
        /\ todo' = todo \ {p}
        /\ at' = head[<<1, p>>].f
    /\ UNCHANGED <<pc, last, head, heap, ndst, fdst, order>>

\* l_clone begins with the next pile.
CloneBegin ==
    /\ pc = "clone" /\ pile = NULL
    /\ \E p \in todo :
        /\ pile' = p
        /\ todo' = todo \ {p}
        /\ at' = head[<<last - 1, p>>].f
    /\ UNCHANGED <<pc, last, head, heap, ndst, fdst, order>>

\* The string is shared, copied from the head of the list, or not followed.
Slip_SharedStr(src, s) == s = node[src].str /\ UNCHANGED strs
Slip_FirstStr(src, s) ==
    LET first == node[head[node[src].h].f].str
    IN  /\ s \in Str \ Allocated
        /\ Alloc(s, IF first \in Str THEN strs[first] ELSE first)
Slip_AddressStr(src, s) == s \in Str \ Allocated /\ Alloc(s, node[src].str)

\* value_clone: a copy of the string, owned by the copy.
CloneStr(src, s) ==
    /\ s \in Str \ Allocated
    /\ Alloc(s, IF node[src].str \in Str THEN strs[node[src].str] ELSE node[src].str)

\* The loop of l_clone; there is no copy of a string that is NULL.
CloneNode ==
    /\ pc = "clone" /\ pile # NULL /\ at # NULL /\ node[at].str # NULL
    /\ \E a \in Node \ live, s \in Ref :
        LET dst == <<last, pile>>
            new == [h |-> dst, n |-> NULL, p |-> ndst, str |-> s, owned |-> TRUE]
        IN  /\ CloneStr(at, s)
            /\ live' = live \cup {a}
            /\ node' = [b \in Node |-> IF b = a THEN new
                                       ELSE IF b = ndst THEN [node[b] EXCEPT !.n = a]
                                       ELSE node[b]]
            /\ ndst' = a
            /\ fdst' = IF fdst = NULL THEN a ELSE fdst
            /\ order' = [order EXCEPT ![dst] = Append(@, a)]
    /\ at' = node[at].n
    /\ UNCHANGED <<pc, last, head, pile, todo>>

CloneFault ==
    /\ pc = "clone" /\ pile # NULL /\ at # NULL /\ node[at].str = NULL
    /\ pc' = "fault"
    /\ UNCHANGED <<last, head, heap, loop, order>>

\* l_clone ends by writing the head.
CloneEnd ==
    /\ pc = "clone" /\ pile # NULL /\ at = NULL
    /\ head' = [head EXCEPT ![<<last, pile>>] =
                    [c |-> head[<<last - 1, pile>>].c, f |-> fdst, l |-> ndst]]
    /\ pile' = NULL /\ ndst' = NULL /\ fdst' = NULL
    /\ UNCHANGED <<pc, last, heap, todo, at, order>>

\* cplr_chain goes on to clear the volatile piles of the clone.
CloneDone ==
    /\ pc = "clone" /\ pile = NULL /\ todo = {}
    /\ pc' = "trim"
    /\ todo' = Volatile
    /\ UNCHANGED <<last, head, heap, pile, at, ndst, fdst, order>>

TrimDone ==
    /\ pc = "trim" /\ pile = NULL /\ todo = {}
    /\ pc' = "prompt"
    /\ UNCHANGED <<last, head, heap, loop, order>>

-----------------------------------------------------------------------------
(* Clearing and freeing                                                    *)

\* l_clear begins with the next pile.
ClearBegin ==
    /\ pc \in {"trim", "free"} /\ pile = NULL
    /\ \E p \in todo :
        /\ pile' = p
        /\ todo' = todo \ {p}
        /\ at' = head[<<last, p>>].f
    /\ UNCHANGED <<pc, last, head, heap, ndst, fdst, order>>

\* The string is left to whoever made it.
Slip_KeepStr(a) == a \in Node /\ UNCHANGED strs

\* value_clear: free the string of a value that owns one.
ClearStr(a) ==
    IF node[a].owned /\ node[a].str # NULL THEN FreeStr(node[a].str) ELSE UNCHANGED strs

\* The loop of l_clear.
ClearNode ==
    /\ pc \in {"trim", "free"} /\ pile # NULL /\ at # NULL
    /\ ClearStr(at)
    /\ live' = live \ {at}
    /\ at' = node[at].n
    /\ order' = [order EXCEPT ![<<last, pile>>] = Tail(@)]
    /\ UNCHANGED <<pc, last, head, node, pile, todo, ndst, fdst>>

\* The head keeps its nodes.
Slip_HeadKept ==
    /\ pc \in {"trim", "free"} /\ pile # NULL /\ at = NULL
    /\ head' = [head EXCEPT ![<<last, pile>>].c = 0]
    /\ pile' = NULL
    /\ UNCHANGED <<pc, last, heap, todo, at, ndst, fdst, order>>

\* l_clear ends by resetting the head.
ClearEnd ==
    /\ pc \in {"trim", "free"} /\ pile # NULL /\ at = NULL
    /\ head' = [head EXCEPT ![<<last, pile>>] = EmptyHead]
    /\ pile' = NULL
    /\ UNCHANGED <<pc, last, heap, todo, at, ndst, fdst, order>>

\* The session ends; cplr_free takes the contexts from the last to the root.
FreeBegin ==
    /\ pc \in {"parse", "prompt"}
    /\ pc' = "free"
    /\ todo' = Managed
    /\ UNCHANGED <<last, head, heap, pile, at, ndst, fdst, order>>

FreeDone ==
    /\ pc = "free" /\ pile = NULL /\ todo = {}
    /\ last' = last - 1
    /\ IF last = 1
       THEN pc' = "gone" /\ UNCHANGED todo
       ELSE todo' = Managed /\ UNCHANGED pc
    /\ UNCHANGED <<head, heap, pile, at, ndst, fdst, order>>

Terminated ==
    /\ pc \in {"gone", "fault"}
    /\ UNCHANGED vars

-----------------------------------------------------------------------------
PushStep  == PushStatic \/ PushDefine \/ PushOwned \/ Parsed
CloneStep == ChainBegin \/ CloneBegin \/ CloneNode \/ CloneFault \/ CloneEnd
                 \/ CloneDone \/ TrimDone
ClearStep == ClearBegin \/ ClearNode \/ ClearEnd \/ FreeBegin \/ FreeDone

Next == PushStep \/ CloneStep \/ ClearStep \/ Terminated

Spec == Init /\ [][Next]_vars
-----------------------------------------------------------------------------
(* What the lists are                                                      *)

\* The list a loop has not finished with.
InWork(l) == pile # NULL /\ l = <<last, pile>>

\* The links of a list follow its order in both directions.
Linked(l) ==
    \A i \in 1..Len(order[l]) :
        LET a == node[order[l][i]]
        IN  /\ a.h = l
            /\ a.n = IF i < Len(order[l]) THEN order[l][i + 1] ELSE NULL
            /\ a.p = IF i > 1 THEN order[l][i - 1] ELSE NULL

\* The head counts the nodes and points to both ends.
Headed(l) ==
    /\ head[l].c = Len(order[l])
    /\ head[l].f = IF order[l] = <<>> THEN NULL ELSE order[l][1]
    /\ head[l].l = IF order[l] = <<>> THEN NULL ELSE order[l][Len(order[l])]

\* Walking a list forwards and backwards visits the same nodes, as many as its
\* head counts (L_FORWARD, L_BACKWARDS, l_size), after any sequence of pushes,
\* clones and clears.
ListShape == \A l \in List : ~InWork(l) => Linked(l) /\ Headed(l)

\* A node is in one place of one list: clones share none with their sources.
OnePlace ==
    \A l, m \in List : \A i \in 1..Len(order[l]), j \in 1..Len(order[m]) :
        order[l][i] = order[m][j] => l = m /\ i = j

\* Nothing that is still reachable has been freed: not the nodes of the lists,
\* not the node a loop stands on, not the string of a value.
NothingDangles ==
    /\ \A l \in List : \A i \in 1..Len(order[l]) : order[l][i] \in live
    /\ at # NULL => at \in live
    /\ \A a \in live : node[a].str \in Str => node[a].str \in Allocated

\* An allocated string is owned by one node and borrowed by none: value_clear
\* never frees a string twice, nor one that another value still reads.
OneOwner ==
    \A a, b \in live :
        /\ node[a].str \in Str => node[a].owned
        /\ node[a].str \in Str /\ node[a].str = node[b].str => a = b

\* Nothing is lost: every node is in a list, every string in a node, and when
\* the root is freed only the piles that cplr_free forgets are left.
NothingLeaks ==
    /\ \A a \in live : \E l \in List : \E i \in 1..Len(order[l]) : order[l][i] = a
    /\ \A s \in Allocated : \E a \in live : node[a].str = s
    /\ \A l \in List : order[l] # <<>> => l[1] <= last \/ l[2] \in Unmanaged

-----------------------------------------------------------------------------
(* What the lists mean                                                     *)

TextOf(a) == IF node[a].str \in Str THEN strs[node[a].str] ELSE node[a].str

Content(l) == [i \in 1..Len(order[l]) |-> TextOf(order[l][i])]

\* A list under a loop is empty: not yet there, or already given up.
Store == INSTANCE PileStore WITH
             pile <- [l \in List |-> IF InWork(l) THEN <<>> ELSE Content(l)]

\* The lists behave as values: a copy appears at once and equal to its source,
\* and nothing done to one list is ever seen in another.
StoreSpec == Store!Spec

\* Chaining leaves the new context with the stable piles of the one before it,
\* text by text, and with empty volatile piles (cplr.h:131 and 144).
ChainKeepsStable ==
    [][pc = "trim" /\ pc' = "prompt" =>
          /\ \A p \in Stable : Content(<<last, p>>) = Content(<<last - 1, p>>)
          /\ \A p \in Volatile : head[<<last, p>>] = EmptyHead]_vars

-----------------------------------------------------------------------------
(* What an attribute says and the code does not keep                       *)

\* l_append_str_owned is never given a NULL string (CEXT_FUNC_ARG_NONNULL).
StringsGiven == \A a \in live : node[a].str # NULL
=============================================================================
