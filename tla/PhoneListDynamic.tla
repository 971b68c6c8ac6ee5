-------------------------- MODULE PhoneListDynamic --------------------------
(***************************************************************************)
(* src/20_phone_list_dynamic/phone_list_dynamic.c: a linked list of        *)
(* numbers.  The comments say that addNode finds the end of the list and   *)
(* puts a new node there (32, 97, 105, 109-111).  The loop that is to find *)
(* the end also makes the nodes, and it is not entered as long as the list *)
(* has one node: so that node's number is overwritten and no second one is *)
(* ever made.  A removal of a later node assigns to prev what is meant for *)
(* its next.                                                               *)
(***************************************************************************)
EXTENDS Naturals, FiniteSets, Functions

CONSTANTS
    Numbers,      \* the numbers that are typed
    Nodes,        \* the nodes malloc can return
    NULL

PhoneListDynamicAssumption == NULL \notin Nodes

VARIABLES
    first,        \* the head of the list
    heap,         \* the nodes that are allocated: their phoneNumb and next
    entered       \* history: the number typed last, or NULL after a removal

vars == <<first, heap, entered>>

Init == first = NULL /\ heap = [n \in {} |-> NULL] /\ entered = NULL

\* memAlloc: malloc returns a node that is free; what it holds is put into it.
memAlloc(node, content) ==
    /\ node \in Nodes \ DOMAIN heap
    /\ heap' = [n \in DOMAIN heap \cup {node} |-> IF n = node THEN content ELSE heap[n]]

\* addNode: the first node is made; with one node, its number is overwritten;
\* with more, the second one gets a new successor.
addNode(number) ==
    /\ IF first = NULL
       THEN \E node \in Nodes :
                memAlloc(node, [phoneNumb |-> number, next |-> NULL]) /\ first' = node
       ELSE /\ UNCHANGED first
            /\ IF heap[first].next = NULL
               THEN heap' = [heap EXCEPT ![first].phoneNumb = number]
               ELSE \E node \in Nodes \ DOMAIN heap :
                        heap' = [n \in DOMAIN heap \cup {node} |->
                            IF n = node THEN [phoneNumb |-> number, next |-> NULL]
                            ELSE IF n = heap[first].next THEN [heap[n] EXCEPT !.next = node]
                            ELSE heap[n]]
    /\ entered' = number

\* The k-th node of the list, NULL if it has fewer.
Node(k) ==
    LET at[i \in 1..k] ==
            IF i = 1 THEN first
            ELSE IF at[i - 1] = NULL THEN NULL ELSE heap[at[i - 1]].next
    IN  at[k]

\* A mutant of removeNode: the first node is freed and stays in the list.
FreeOnly(rem) ==
    /\ first # NULL
    /\ Node(rem) # NULL
    /\ heap' = Restrict(heap, DOMAIN heap \ {Node(rem)})
    /\ entered' = NULL
    /\ UNCHANGED first

\* removeNode: the rem-th node is freed; only the first one is unlinked.
removeNode(rem) ==
    /\ first # NULL
    /\ Node(rem) # NULL
    /\ first' = IF rem = 1 THEN heap[first].next ELSE first
    /\ heap' = Restrict(heap, DOMAIN heap \ {Node(rem)})
    /\ entered' = NULL

Next ==
    \/ \E number \in Numbers : addNode(number)
    \/ \E rem \in 1..3 : removeNode(rem)

Spec == Init /\ [][Next]_vars

-----------------------------------------------------------------------------
(* Properties *)

\* The type of every variable (struct telephone_list).
TypeOK ==
    /\ first \in Nodes \cup {NULL}
    /\ DOMAIN heap \subseteq Nodes
    /\ \A n \in DOMAIN heap :
        heap[n] \in [phoneNumb : Numbers, next : Nodes \cup {NULL}]
    /\ entered \in Numbers \cup {NULL}

\* What the code does instead of appending: after any sequence of calls the list is
\* empty with nothing allocated, or has one node, the only one allocated, with the
\* last number entered; the earlier numbers are lost.  For the same reason no node
\* leaks, none is used after it was freed, and neither the loop of addNode nor the
\* faulty unlinking of removeNode is ever reached (98-117, 200-221).
OneNode ==
    /\ DOMAIN heap = {first} \ {NULL}
    /\ first # NULL => heap[first] = [phoneNumb |-> entered, next |-> NULL]
    /\ first = NULL => entered = NULL

=============================================================================
