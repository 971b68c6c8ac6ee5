----------------------------- MODULE PhoneList ------------------------------
(***************************************************************************)
(* src/13_phone_list/phone_list.c: a phone list in an array.  Each function *)
(* calls the menu again with its own count, so that the calls nest; leaving *)
(* the menu unwinds them, and a search that is returned to goes on with the *)
(* array and the count it had.  Calls that have nothing left to do when they *)
(* are returned to (all but find_element's) are not kept on the stack.     *)
(***************************************************************************)
EXTENDS Naturals, Sequences

CONSTANTS
    Numbers,      \* the phone numbers that are typed
    MAXSIZE,      \* entries of the array
    MaxDepth,     \* bound: searches under way at a time
    Garbage       \* an entry nothing was ever written to

PhoneListAssumption ==
    MAXSIZE \in Nat /\ MaxDepth \in Nat /\ Garbage \notin Numbers

VARIABLES
    ptr,          \* the array: per entry its phoneNumb
    mode,         \* which function runs
    count,        \* its count
    stack,        \* the calls of find_element under way: the state of each loop
    searched      \* history: whether find_element has been called

vars == <<ptr, mode, count, stack, searched>>

Init ==
    /\ ptr = [i \in 0..MAXSIZE - 1 |-> Garbage]
    /\ mode = "menu"
    /\ count = 0
    /\ stack = <<>>
    /\ searched = FALSE

\* add_element, called with room in the array (it does not check), and the menu.
add_element ==
    /\ mode = "menu" /\ count < MAXSIZE
    /\ \E n \in Numbers : ptr' = [ptr EXCEPT ![count] = n]
    /\ count' = count + 1
    /\ UNCHANGED <<mode, stack, searched>>

\* The beginning of find_element: with an empty list the menu comes first.
find_element ==
    /\ mode = "menu"
    /\ IF count > 0
       THEN mode' = "find" /\ UNCHANGED stack
       ELSE /\ Len(stack) < MaxDepth
            /\ stack' = Append(stack, [count |-> 0, index |-> 0, find |-> Garbage])
            /\ UNCHANGED mode
    /\ searched' = TRUE
    /\ UNCHANGED <<ptr, count>>

\* A mutant of Search: the match is shown with one entry more.
SearchPast(number, index, total) ==
    \E i \in index..total - 1 :
        /\ ptr[i] = number
        /\ mode' = "menu"
        /\ count' = i + 2
        /\ stack' = Append(stack, [count |-> total, index |-> i, find |-> number])

\* The loop of find_element from index on: the first match is shown by put_list,
\* which goes on to the menu with the match as the last entry; without a match
\* find_element is called again.
Search(number, index, total) ==
    LET matches == {i \in index..total - 1 : ptr[i] = number} IN
    IF matches = {}
    THEN /\ mode' = IF total = 0 THEN "menu" ELSE "find"
         /\ count' = total
         /\ stack' = IF total = 0
                     THEN Append(stack, [count |-> 0, index |-> 0, find |-> Garbage])
                     ELSE stack
    ELSE LET i == CHOOSE k \in matches : \A m \in matches : k <= m IN
         /\ mode' = "menu"
         /\ count' = i + 1
         /\ stack' = Append(stack, [count |-> total, index |-> i, find |-> number])

\* The number is typed.
Ask ==
    /\ mode = "find"
    /\ Len(stack) < MaxDepth
    /\ \E n \in Numbers : Search(n, 0, count)
    /\ UNCHANGED <<ptr, searched>>

\* delete_element: the first entry's number empties the list; for another, the
\* entry after it is overwritten with it (ptr[index] = ptr[index++], as the
\* Makefile's compiler takes it) and the menu comes with one entry less; a number
\* that is not in the list ends the call.  Like add_element it does not check that
\* the entry it writes is one of the array, and is called when it is.
delete_element ==
    /\ mode = "menu"
    /\ \E answer \in 0..MAXSIZE :
        \/ answer = 0 /\ count' = 0 /\ UNCHANGED <<ptr, mode>>
        \/ /\ answer > 0 /\ answer < count /\ answer + 1 < MAXSIZE
           /\ ptr' = [ptr EXCEPT ![answer + 1] = ptr[answer]]
           /\ count' = count - 1
           /\ UNCHANGED mode
        \/ answer >= count /\ answer > 0 /\ mode' = "return" /\ UNCHANGED <<ptr, count>>
    /\ UNCHANGED <<stack, searched>>

\* 5, or a choice that is not in the menu.
LeaveMenu ==
    /\ mode = "menu"
    /\ mode' = "return"
    /\ UNCHANGED <<ptr, count, stack, searched>>

\* A search goes on where it was; with an empty list it asks for a number.
Return ==
    /\ mode = "return" /\ stack # <<>>
    /\ LET top == stack[Len(stack)]
           rest == SubSeq(stack, 1, Len(stack) - 1)
           matches == {i \in top.index + 1..top.count - 1 : ptr[i] = top.find}
       IN  IF matches = {}
           THEN /\ stack' = rest
                /\ mode' = "find"
                /\ count' = top.count
           ELSE LET i == CHOOSE k \in matches : \A m \in matches : k <= m IN
                /\ stack' = Append(rest, [top EXCEPT !.index = i])
                /\ mode' = "menu"
                /\ count' = i + 1
    /\ UNCHANGED <<ptr, searched>>

\* main's call of the menu returns.
End ==
    /\ mode = "return" /\ stack = <<>>
    /\ mode' = "ended"
    /\ UNCHANGED <<ptr, count, stack, searched>>

Next == add_element \/ find_element \/ Ask \/ delete_element \/ LeaveMenu \/ Return \/ End

Spec == Init /\ [][Next]_vars

-----------------------------------------------------------------------------
(* Properties *)

\* The type of every variable (struct list, the locals of the functions).
TypeOK ==
    /\ ptr \in [0..MAXSIZE - 1 -> Numbers \cup {Garbage}]
    /\ mode \in {"menu", "find", "return", "ended"}
    /\ count \in 0..MAXSIZE /\ searched \in BOOLEAN
    /\ Len(stack) <= MaxDepth
    /\ \A d \in DOMAIN stack :
        stack[d] \in [count : 0..MAXSIZE, index : 0..MAXSIZE, find : Numbers \cup {Garbage}]

\* However the calls nest, with counts of their own over one array that others add
\* to and delete from meanwhile: no function, now or when it is returned to,
\* shows or compares an entry that was never entered; and once a search was begun, the
\* program does not end (80-125, 149-151).
EntriesEntered ==
    /\ \A i \in 0..count - 1 : ptr[i] # Garbage
    /\ \A d \in DOMAIN stack : \A i \in 0..stack[d].count - 1 : ptr[i] # Garbage
    /\ searched => mode # "ended"

=============================================================================
