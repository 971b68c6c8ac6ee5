--------------------------- MODULE ExercisesProofs ---------------------------
(***************************************************************************)
(* What the exercises guarantee for any value of their constants.  Each    *)
(* program's invariant is shown on its own steps; the steps of the others  *)
(* leave its variables alone.                                              *)
(***************************************************************************)
EXTENDS Exercises, FiniteSetTheorems, SequenceTheorems, WellFoundedInduction, TLAPS

(* A step of the exercises is one of a program, or none, of each.           *)
LEMMA Steps ==
    ASSUME [Next]_vars
    PROVE  /\ program' = program
           /\ (program = "counters" /\ C!Next) \/ UNCHANGED countersVars
           /\ (program = "list" /\ L!Next) \/ UNCHANGED listVars
           /\ (program = "dynamic list" /\ D!Next) \/ UNCHANGED dynamicVars
           /\ (program = "tree" /\ T!Next) \/ UNCHANGED treeVars
           /\ (program = "shops" /\ S!Next) \/ UNCHANGED shopsVars
BY DEF Next, vars, shops, counters, tree, list, dynamicList, pool, tcp

-----------------------------------------------------------------------------
(* PhoneListDynamic *)

(* The nodes of a list of one.                                              *)
LEMMA ListOfOne ==
    ASSUME first # NULL, heap[first].next = NULL, NEW k \in 1..3
    PROVE  D!Node(k) = IF k = 1 THEN first ELSE NULL
<1> DEFINE Def(nodes) == [i \in 1..k |->
              IF i = 1 THEN first
              ELSE IF nodes[i - 1] = NULL THEN NULL ELSE heap[nodes[i - 1]].next]
<1>1. [i \in 1..k |-> IF i = 1 THEN first ELSE NULL] = Def([i \in 1..k |-> IF i = 1 THEN first ELSE NULL])
  OBVIOUS
<1>2. ASSUME NEW nodes, nodes = Def(nodes) PROVE nodes[k] = IF k = 1 THEN first ELSE NULL
  <2>1. \A i \in 1..k : nodes[i] = IF i = 1 THEN first
                                ELSE IF nodes[i - 1] = NULL THEN NULL ELSE heap[nodes[i - 1]].next
    BY <1>2
  <2>2. nodes[1] = first
    BY <2>1
  <2>3. k > 1 => nodes[2] = NULL
    BY <2>1, <2>2
  <2>4. k > 2 => nodes[3] = NULL
    BY <2>1, <2>3
  <2>5. QED
    BY <2>2, <2>3, <2>4
<1>3. QED
  BY <1>1, <1>2 DEF D!Node

LEMMA OneNodeStep == ASSUME D!OneNode, [D!Next]_dynamicVars PROVE D!OneNode'
<1>0. NULL \notin Nodes
  BY ExercisesAssumption DEF ExercisesAssumption, D!PhoneListDynamicAssumption
<1>1. ASSUME NEW number \in Numbers, D!addNode(number) PROVE D!OneNode'
  <2>1. CASE first = NULL
    <3>0. PICK node \in Nodes :
              D!memAlloc(node, [phoneNumb |-> number, next |-> NULL]) /\ first' = node
      BY <1>1, <2>1, Zenon DEF D!addNode
    <3>1. first' = node /\ heap' = [n \in {node} |-> [phoneNumb |-> number, next |-> NULL]]
      BY <3>0, <2>1 DEF D!OneNode, D!memAlloc
    <3>2. QED
      BY <1>0, <1>1, <3>1 DEF D!OneNode, D!addNode
  <2>2. CASE first # NULL
    BY <1>1, <2>2 DEF D!OneNode, D!addNode
  <2>3. QED
    BY <2>1, <2>2
<1>2. ASSUME NEW rem \in 1..3, D!removeNode(rem) PROVE D!OneNode'
  BY <1>2, ListOfOne DEF D!OneNode, D!removeNode, D!Restrict
<1>3. CASE UNCHANGED dynamicVars
  BY <1>3 DEF dynamicVars, D!OneNode
<1>4. QED
  BY <1>1, <1>2, <1>3 DEF D!Next, dynamicVars, D!vars

-----------------------------------------------------------------------------
(* PhoneList *)

(* The first n entries of the array exist and were entered.                 *)
Entered(n) == \A i \in 0..n - 1 : i < MAXSIZE /\ ptr[i] # Garbage

(* What is below the smaller of two bounds is below the greater.            *)
LEMMA Below == \A a, b \in Nat : a <= b => \A n \in 0..a - 1 : n \in 0..b - 1
OBVIOUS

(* The invariant of PhoneList: the first count entries were entered, also   *)
(* for every search under way; once a search was begun, one is under way or *)
(* is being asked for.                                                      *)
Searches ==
    /\ count \in Nat
    /\ DOMAIN ptr = 0..MAXSIZE - 1
    /\ stack \in Seq([count : Nat, index : Nat, find : Numbers \cup {Garbage}])
    /\ Entered(count)
    /\ \A d \in DOMAIN stack : Entered(stack[d].count)
    /\ searched => stack # <<>> \/ mode = "find"
    /\ mode = "ended" => ~searched

(* The first of the entries that match.                                     *)
LEMMA LeastMatch ==
    ASSUME NEW some \in SUBSET Nat, some # {}
    PROVE  (CHOOSE k \in some : \A m \in some : k <= m) \in some
<1>1. PICK n \in some : \A m \in some : ~(<<m, n>> \in OpToRel(<, Nat))
  BY WFMin, NatLessThanWellFounded, Zenon
<1>2. ASSUME NEW m \in some PROVE n <= m
  <2>1. <<m, n>>[1] = m /\ <<m, n>>[2] = n
    OBVIOUS
  <2>2. <<m, n>> \in Nat \X Nat /\ m \in Nat /\ n \in Nat
    OBVIOUS
  <2>3. ~(m < n)
    BY <1>1, <2>1, <2>2, Zenon DEF OpToRel
  <2>4. QED
    BY <2>2, <2>3
<1>3. QED
  BY <1>2

LEMMA CountsOfCalls ==
    ASSUME Searches
    PROVE  \A d \in DOMAIN stack : stack[d].count \in Nat /\ Entered(stack[d].count)
<1> DEFINE Call == [count : Nat, index : Nat, find : Numbers \cup {Garbage}]
<1>1. stack \in Seq(Call)
  BY DEF Searches
<1>2. ASSUME NEW d \in DOMAIN stack PROVE stack[d] \in Call
  <2> HIDE DEF Call
  <2>1. QED
    BY <1>1
<1>3. \A d \in DOMAIN stack : stack[d].count \in Nat
  BY <1>2
<1>4. QED
  BY <1>3 DEF Searches

(* A call that is begun or that goes on.                                    *)
LEMMA OneMoreCall ==
    ASSUME Searches, UNCHANGED ptr,
           NEW rest \in Seq([count : Nat, index : Nat, find : Numbers \cup {Garbage}]),
           \A d \in DOMAIN rest : d \in DOMAIN stack /\ rest[d] = stack[d],
           NEW call \in [count : Nat, index : Nat, find : Numbers \cup {Garbage}],
           Entered(call.count), stack' = Append(rest, call)
    PROVE  /\ stack' \in Seq([count : Nat, index : Nat, find : Numbers \cup {Garbage}])
           /\ \A d \in DOMAIN stack' : Entered(stack[d].count)'
           /\ stack' # <<>>
<1>1. stack' # <<>> /\ Len(stack') = Len(rest) + 1
      /\ stack' \in Seq([count : Nat, index : Nat, find : Numbers \cup {Garbage}])
  OBVIOUS
<1>2. ASSUME NEW d \in DOMAIN stack' PROVE Entered(stack[d].count)'
  <2>1. CASE d = Len(rest) + 1
    <3>1. stack'[d] = call
      BY <2>1
    <3>2. stack'[d].count = call.count /\ UNCHANGED ptr
      BY <3>1
    <3>3. QED
      BY <3>2 DEF Entered
  <2>2. CASE d # Len(rest) + 1
    <3>1. d \in DOMAIN rest /\ stack'[d] = rest[d]
      BY <1>1, <2>2
    <3>2. stack'[d] = stack[d] /\ Entered(stack[d].count) /\ UNCHANGED ptr
      BY <3>1 DEF Searches
    <3>3. QED
      BY <3>2 DEF Entered
  <2>3. QED
    BY <2>1, <2>2
<1>3. QED
  BY <1>1, <1>2

LEMMA SearchesStep == ASSUME Searches, [L!Next]_listVars PROVE Searches'
<1> DEFINE Call == [count : Nat, index : Nat, find : Numbers \cup {Garbage}]
<1>0. Garbage \notin Numbers /\ MAXSIZE \in Nat
  BY ExercisesAssumption DEF ExercisesAssumption, L!PhoneListAssumption
<1>1. CASE L!add_element
  <2>1. PICK n \in Numbers : ptr' = [ptr EXCEPT ![count] = n]
    BY <1>1 DEF L!add_element
  <2>2. \A i \in DOMAIN ptr : ptr[i] # Garbage => ptr'[i] # Garbage
    BY <1>0, <2>1
  <2>3. ptr'[count] # Garbage /\ DOMAIN ptr' = DOMAIN ptr /\ count < MAXSIZE /\ count \in Nat
    BY <1>0, <1>1, <2>1 DEF L!add_element, Searches
  <2>4. Entered(count)' /\ \A d \in DOMAIN stack : Entered(stack[d].count)'
    <3>1. ASSUME NEW k \in Nat, Entered(k) PROVE \A i \in 0..k - 1 : i < MAXSIZE /\ ptr'[i] # Garbage
      <4>1. DOMAIN ptr = 0..MAXSIZE - 1
        BY DEF Searches
      <4>2. QED
        BY <1>0, <2>2, <3>1, <4>1 DEF Entered
    <3>2. \A d \in DOMAIN stack : stack[d].count \in Nat /\ Entered(stack[d].count)
      BY CountsOfCalls
    <3>3. \A i \in 0..count' - 1 : i < MAXSIZE /\ ptr'[i] # Garbage
      BY <1>0, <1>1, <2>3, <3>1 DEF Searches, L!add_element
    <3>4. \A d \in DOMAIN stack' : Entered(stack[d].count)'
      BY <1>1, <3>1, <3>2 DEF Searches, Entered, L!add_element
    <3>5. QED
      BY <1>1, <3>3, <3>4 DEF Entered, L!add_element
  <2>5. QED
    BY <1>1, <2>3, <2>4 DEF Searches, L!add_element
<1>2. CASE L!find_element
  <2>1. CASE count > 0
    BY <1>2, <2>1 DEF Searches, L!find_element, Entered
  <2>2. CASE ~(count > 0)
    <3> DEFINE call == [count |-> 0, index |-> 0, find |-> Garbage]
    <3>1. call \in Call /\ Entered(call.count)
      BY DEF Entered
    <3>2. stack' = Append(stack, call) /\ UNCHANGED <<ptr, count, mode>>
      BY <1>2, <2>2 DEF L!find_element
    <3>3. stack' \in Seq(Call) /\ (\A d \in DOMAIN stack' : Entered(stack[d].count)') /\ stack' # <<>>
      BY <3>1, <3>2, OneMoreCall DEF Searches
    <3>4. mode' # "ended"
      BY <1>2, <3>2 DEF L!find_element
    <3>5. QED
      BY <3>2, <3>3, <3>4 DEF Searches, Entered
  <2>3. QED
    BY <2>1, <2>2
<1>3. CASE L!Ask
  <2>1. PICK number \in Numbers : L!Search(number, 0, count)
    BY <1>3 DEF L!Ask
  <2>2. UNCHANGED <<ptr, searched>>
    BY <1>3 DEF L!Ask
  <2> DEFINE matches == {i \in 0..count - 1 : ptr[i] = number}
  <2>3. CASE matches = {}
    <3>1. CASE count = 0
      <4> DEFINE call == [count |-> 0, index |-> 0, find |-> Garbage]
      <4>1. call \in Call /\ Entered(call.count)
        BY DEF Entered
      <4>2. stack' = Append(stack, call) /\ mode' = "menu" /\ count' = count
        BY <2>1, <2>3, <3>1 DEF L!Search
      <4>3. stack' \in Seq(Call) /\ (\A d \in DOMAIN stack' : Entered(stack[d].count)') /\ stack' # <<>>
        BY <2>2, <4>1, <4>2, OneMoreCall DEF Searches
      <4>4. QED
        BY <2>2, <4>2, <4>3 DEF Searches, Entered
    <3>2. CASE count # 0
      <4>1. stack' = stack /\ mode' = "find" /\ count' = count
        BY <2>1, <2>3, <3>2 DEF L!Search
      <4>2. QED
        BY <2>2, <4>1 DEF Searches, Entered
    <3>3. QED
      BY <3>1, <3>2
  <2>4. CASE matches # {}
    <3> DEFINE i == CHOOSE k \in matches : \A m \in matches : k <= m
    <3>1. i \in 0..count - 1
      <4>1. matches \in SUBSET Nat
        BY DEF Searches
      <4>2. i \in matches
        BY <2>4, <4>1, LeastMatch, Zenon
      <4>3. QED
        BY <4>2
    <3> DEFINE call == [count |-> count, index |-> i, find |-> number]
    <3>2. mode' = "menu" /\ count' = i + 1 /\ stack' = Append(stack, call)
      BY <2>1, <2>4 DEF L!Search
    <3> HIDE DEF i
    <3>3. call \in Call /\ Entered(call.count) /\ count' \in Nat /\ count' <= count
      BY <3>1, <3>2 DEF Searches
    <3>4. stack' \in Seq(Call) /\ (\A d \in DOMAIN stack' : Entered(stack[d].count)') /\ stack' # <<>>
      BY <2>2, <3>2, <3>3, OneMoreCall DEF Searches
    <3>5. Entered(count)'
      <4>1. count' \in Nat /\ count \in Nat /\ count' <= count
        BY <3>3 DEF Searches
      <4>2. \A n \in 0..count' - 1 : n \in 0..count - 1
        BY <4>1, Below, Zenon
      <4>3. \A n \in 0..count - 1 : n < MAXSIZE /\ ptr'[n] # Garbage
        BY <2>2 DEF Searches, Entered
      <4>4. \A n \in 0..count' - 1 : n < MAXSIZE /\ ptr'[n] # Garbage
        BY <4>2, <4>3
      <4>5. QED
        BY <4>4, Zenon DEF Entered
    <3>6. QED
      BY <2>2, <3>2, <3>3, <3>4, <3>5 DEF Searches
  <2>5. QED
    BY <2>3, <2>4
<1>4. CASE L!delete_element
  <2>1. UNCHANGED <<stack, searched>> /\ mode' \in {"menu", "return"} /\ mode = "menu"
    BY <1>4 DEF L!delete_element
  <2>2. /\ count' \in Nat /\ count' <= count
        /\ DOMAIN ptr' = DOMAIN ptr
        /\ \A i \in DOMAIN ptr : ptr[i] # Garbage => ptr'[i] # Garbage
    <3>1. PICK number \in 0..MAXSIZE :
            \/ number = 0 /\ count' = 0 /\ UNCHANGED ptr
            \/ /\ number > 0 /\ number < count /\ count' = count - 1
               /\ ptr' = [i \in DOMAIN ptr |-> IF i = number + 1 THEN ptr[number] ELSE ptr[i]]
            \/ UNCHANGED <<ptr, count>>
      BY <1>4 DEF L!delete_element
    <3>2. count \in Nat
      BY DEF Searches
    <3>3. CASE number > 0 /\ number < count /\ count' = count - 1
               /\ ptr' = [i \in DOMAIN ptr |-> IF i = number + 1 THEN ptr[number] ELSE ptr[i]]
      <4>1. ptr[number] # Garbage
        BY <3>2, <3>3 DEF Searches, Entered
      <4>2. QED
        BY <3>2, <3>3, <4>1
    <3>4. QED
      BY <3>1, <3>2, <3>3
  <2>3. ASSUME NEW k \in Nat, Entered(k) PROVE \A i \in 0..k - 1 : i < MAXSIZE /\ ptr'[i] # Garbage
    <3>1. DOMAIN ptr = 0..MAXSIZE - 1
      BY DEF Searches
    <3>2. QED
      BY <1>0, <2>2, <2>3, <3>1 DEF Entered
  <2>4. Entered(count)'
    <3>1. Entered(count) /\ count \in Nat
      BY DEF Searches
    <3>2. \A i \in 0..count - 1 : i < MAXSIZE /\ ptr'[i] # Garbage
      BY <2>3, <3>1
    <3>3. \A i \in 0..count' - 1 : i \in 0..count - 1
      <4>1. count' \in Nat /\ count \in Nat /\ count' <= count
        BY <2>2, <3>1
      <4>2. QED
        BY <4>1, Below, Zenon
    <3>4. \A i \in 0..count' - 1 : i < MAXSIZE /\ ptr'[i] # Garbage
      BY <3>2, <3>3
    <3>5. QED
      BY <3>4, Zenon DEF Entered
  <2>5. \A d \in DOMAIN stack' : Entered(stack[d].count)'
    <3>1. \A d \in DOMAIN stack : stack[d].count \in Nat /\ Entered(stack[d].count)
      BY CountsOfCalls
    <3>2. QED
      BY <2>1, <2>3, <3>1 DEF Entered
  <2>6. QED
    BY <2>1, <2>2, <2>4, <2>5 DEF Searches
<1>5. CASE L!LeaveMenu
  BY <1>5 DEF Searches, Entered, L!LeaveMenu
<1>6. CASE L!Return
  <2> DEFINE top == stack[Len(stack)]
             rest == SubSeq(stack, 1, Len(stack) - 1)
             matches == {k \in top.index + 1..top.count - 1 : ptr[k] = top.find}
  <2>1. /\ stack # <<>> /\ Len(stack) \in Nat \ {0} /\ top \in Call /\ rest \in Seq(Call)
        /\ Entered(top.count) /\ UNCHANGED <<ptr, searched>>
        /\ \A d \in DOMAIN rest : d \in DOMAIN stack /\ rest[d] = stack[d]
    <3>0. stack # <<>> /\ UNCHANGED <<ptr, searched>>
      BY <1>6 DEF L!Return
    <3>1. stack \in Seq(Call) /\ stack # <<>> /\ UNCHANGED <<ptr, searched>>
      BY <3>0 DEF Searches
    <3>2. Len(stack) \in Nat \ {0} /\ Len(stack) \in DOMAIN stack /\ top \in Call
      <4> HIDE DEF Call
      <4>1. QED
        BY <3>1
    <3>3. rest \in Seq(Call) /\ \A d \in DOMAIN rest : d \in DOMAIN stack /\ rest[d] = stack[d]
      <4> HIDE DEF Call
      <4>1. QED
        BY <3>1, <3>2
    <3>4. Entered(top.count)
      BY <3>2 DEF Searches
    <3>5. QED
      BY <3>1, <3>2, <3>3, <3>4
  <2>2. CASE matches = {}
    <3>1. stack' = rest /\ mode' = "find" /\ count' = top.count
      BY <1>6, <2>2 DEF L!Return
    <3>2. QED
      BY <2>1, <3>1 DEF Searches, Entered
  <2>3. CASE matches # {}
    <3> DEFINE i == CHOOSE k \in matches : \A m \in matches : k <= m
    <3>1. i \in top.index + 1..top.count - 1
      <4>1. matches \in SUBSET Nat
        BY <2>1
      <4>2. i \in matches
        BY <2>3, <4>1, LeastMatch, Zenon
      <4>3. QED
        BY <4>2
    <3> DEFINE call == [top EXCEPT !.index = i]
    <3>2. stack' = Append(rest, call) /\ mode' = "menu" /\ count' = i + 1
      BY <1>6, <2>3 DEF L!Return
    <3> HIDE DEF i
    <3>3. call \in Call /\ Entered(call.count) /\ count' \in Nat /\ count' <= top.count
      <4>1. top \in Call /\ top.index \in Nat /\ top.count \in Nat /\ i \in Nat /\ i + 1 <= top.count
        BY <2>1, <3>1
      <4>2. call = [count |-> top.count, index |-> i, find |-> top.find]
        BY <4>1
      <4>3. QED
        BY <2>1, <3>2, <4>1, <4>2
    <3>4. stack' \in Seq(Call) /\ (\A d \in DOMAIN stack' : Entered(stack[d].count)') /\ stack' # <<>>
      BY <2>1, <3>2, <3>3, OneMoreCall DEF Searches
    <3>5. Entered(count)'
      BY <2>1, <3>3 DEF Entered
    <3>6. QED
      BY <2>1, <3>2, <3>3, <3>4, <3>5 DEF Searches
  <2>4. QED
    BY <2>2, <2>3
<1>7. CASE L!End
  BY <1>7 DEF Searches, Entered, L!End
<1>8. CASE UNCHANGED listVars
  BY <1>8 DEF listVars, Searches, Entered
<1>9. QED
  BY <1>1, <1>2, <1>3, <1>4, <1>5, <1>6, <1>7, <1>8 DEF L!Next, listVars, L!vars

-----------------------------------------------------------------------------
(* ThreadCounters *)

(* The increments that have been made.                                      *)
Increments ==
    {made \in CounterThreads \X (1..ITER_SIZE) : made[2] <= j[made[1]]}

CounterTypes ==
    /\ locked \in BOOLEAN
    /\ m1 \in CounterThreads \cup {Nobody}
    /\ j \in [CounterThreads -> 0..ITER_SIZE]
    /\ counters_pc \in [CounterThreads -> {"loop", "locked", "write", "unlock", "print", "done"}]
    /\ register \in [CounterThreads -> Nat]
    /\ global \in Nat /\ printed \in [CounterThreads -> Nat]

(* Where a thread is, and that only the mutex's owner is past the lock.     *)
Guarded ==
    \A t \in CounterThreads :
        /\ counters_pc[t] \in {"locked", "write"} => j[t] < ITER_SIZE
        /\ counters_pc[t] \in {"print", "done"} => j[t] = ITER_SIZE
        /\ locked => (m1 = t <=> counters_pc[t] \in {"locked", "write", "unlock"})
        /\ ~locked => counters_pc[t] \notin {"locked", "unlock"}

(* The counter never exceeds the increments made, is exact with the mutex,  *)
(* and once a thread has written keeps one of its writes at least.          *)
Counting ==
    /\ global <= Cardinality(Increments)
    /\ \A t \in CounterThreads :
        register[t] <= Cardinality(Increments) /\ printed[t] <= Cardinality(Increments)
    /\ locked => global = Cardinality(Increments)
    /\ \A t \in CounterThreads :
        /\ locked /\ counters_pc[t] = "write" => register[t] = global
        /\ j[t] > 0 => global > 0
        /\ j[t] > 0 /\ counters_pc[t] = "write" => register[t] > 0
    /\ ITER_SIZE > 1 /\ (\A t \in CounterThreads : j[t] = ITER_SIZE) => global > 1

(* What a thread that has ended its loop prints or is about to print: with  *)
(* the mutex its own increments at least; and when all have read the        *)
(* counter, the thread that wrote last has read what it wrote.              *)
Result(t) == IF counters_pc[t] = "print" THEN register[t] ELSE printed[t]
Read == {t \in CounterThreads : counters_pc[t] \in {"print", "done"}}
Results ==
    /\ locked => \A t \in Read : Result(t) >= ITER_SIZE
    /\ Read = CounterThreads => \E t \in CounterThreads : Result(t) = global

CountersInv == CounterTypes /\ Guarded /\ Counting /\ Results

LEMMA CountersConstants ==
    /\ ITER_SIZE \in Nat \ {0} /\ Nobody \notin CounterThreads
    /\ IsFiniteSet(CounterThreads) /\ CounterThreads # {}
<1>1. C!ThreadCountersAssumption
  BY ExercisesAssumption DEF ExercisesAssumption
<1>2. C!IsFiniteSet(CounterThreads) => IsFiniteSet(CounterThreads)
  BY DEF C!IsFiniteSet, IsFiniteSet
<1>3. QED
  BY <1>1, <1>2 DEF C!ThreadCountersAssumption

(* There are at most all increments, and all when every thread has made its.*)
LEMMA AllIncrements ==
    ASSUME CounterTypes
    PROVE  LET total == Cardinality(CounterThreads) * ITER_SIZE IN
           /\ IsFiniteSet(Increments) /\ Cardinality(Increments) \in Nat
           /\ total \in Nat /\ Cardinality(Increments) <= total
           /\ (\A t \in CounterThreads : j[t] = ITER_SIZE) => Cardinality(Increments) = total
<1> DEFINE Places == CounterThreads \X (1..ITER_SIZE)
<1>0. ITER_SIZE \in Nat /\ IsFiniteSet(CounterThreads)
  BY CountersConstants
<1>1. IsFiniteSet(1..ITER_SIZE) /\ Cardinality(1..ITER_SIZE) = ITER_SIZE
  BY <1>0, FS_Interval
<1>2. IsFiniteSet(Places) /\ Cardinality(Places) = Cardinality(CounterThreads) * ITER_SIZE
  BY <1>0, <1>1, FS_Product
<1>3. Increments \subseteq Places
  BY DEF Increments
<1>4. IsFiniteSet(Increments) /\ Cardinality(Increments) <= Cardinality(Places)
  BY <1>2, <1>3, FS_Subset
<1>5. Cardinality(Increments) \in Nat /\ Cardinality(Places) \in Nat
  BY <1>2, <1>4, FS_CardinalityType
<1>6. ASSUME \A t \in CounterThreads : j[t] = ITER_SIZE PROVE Increments = Places
  BY <1>0, <1>6 DEF Increments
<1>7. QED
  BY <1>2, <1>4, <1>5, <1>6

(* A write makes one increment more.                                        *)
LEMMA OneIncrement ==
    ASSUME CounterTypes, NEW t \in CounterThreads, j[t] < ITER_SIZE,
           j' = [j EXCEPT ![t] = @ + 1]
    PROVE  Cardinality(Increments') = Cardinality(Increments) + 1
<1>0. ITER_SIZE \in Nat /\ j \in [CounterThreads -> 0..ITER_SIZE]
  BY CountersConstants DEF CounterTypes
<1> DEFINE new == <<t, j[t] + 1>>
<1>1. new \in CounterThreads \X (1..ITER_SIZE) /\ new[1] = t /\ new[2] = j[t] + 1
  BY <1>0
<1>2. new \notin Increments
  BY <1>0, <1>1 DEF Increments
<1>3. ASSUME NEW made \in CounterThreads \X (1..ITER_SIZE)
      PROVE  made[2] <= j'[made[1]] <=> (made[2] <= j[made[1]] \/ made = new)
  <2>1. made[1] \in CounterThreads /\ made[2] \in 1..ITER_SIZE /\ made = <<made[1], made[2]>>
    OBVIOUS
  <2>2. CASE made[1] = t
    <3>1. j'[made[1]] = j[t] + 1 /\ j[t] \in Nat
      BY <1>0, <2>2
    <3>2. made[2] <= j[t] + 1 <=> (made[2] <= j[t] \/ made[2] = j[t] + 1)
      BY <2>1, <3>1
    <3>3. made[2] = j[t] + 1 <=> made = new
      BY <1>1, <2>1, <2>2
    <3>4. QED
      BY <2>2, <3>1, <3>2, <3>3
  <2>3. CASE made[1] # t
    BY <1>0, <1>1, <2>1, <2>3
  <2>4. QED
    BY <2>2, <2>3
<1>4. Increments' = Increments \cup {new}
  BY <1>1, <1>3 DEF Increments
<1>5. QED
  BY <1>2, <1>4, AllIncrements, FS_AddElement

(* A thread's own increments, when it has made them all.                    *)
LEMMA OwnIncrements ==
    ASSUME CounterTypes, NEW t \in CounterThreads, j[t] = ITER_SIZE
    PROVE  Cardinality(Increments) >= ITER_SIZE
<1>1. ASSUME NEW A, A = {t} PROVE Cardinality(Increments) >= ITER_SIZE
  <2>1. ITER_SIZE \in Nat /\ IsFiniteSet(A) /\ Cardinality(A) = 1
    BY <1>1, CountersConstants, FS_Singleton
  <2>2. IsFiniteSet(1..ITER_SIZE) /\ Cardinality(1..ITER_SIZE) = ITER_SIZE
    BY <2>1, FS_Interval
  <2>3. Cardinality(A \X (1..ITER_SIZE)) = 1 * ITER_SIZE
    BY <2>1, <2>2, FS_Product
  <2>4. A \X (1..ITER_SIZE) \subseteq Increments
    BY <1>1 DEF Increments
  <2>5. Cardinality(A \X (1..ITER_SIZE)) <= Cardinality(Increments)
    BY <2>4, AllIncrements, FS_Subset
  <2>6. Cardinality(Increments) \in Nat
    BY AllIncrements
  <2>7. QED
    BY <2>1, <2>3, <2>5, <2>6
<1>2. QED
  BY <1>1

(* While someone has still to read the counter, nothing is said of the rest.*)
LEMMA ReadLater ==
    ASSUME CountersInv, NEW t \in CounterThreads, UNCHANGED locked,
           counters_pc' = [counters_pc EXCEPT ![t] = counters_pc'[t]],
           counters_pc'[t] \notin {"print", "done"}, counters_pc[t] \notin {"print", "done"},
           \A o \in CounterThreads \ {t} : register'[o] = register[o], UNCHANGED printed
    PROVE  Results'
<1>1. t \notin Read'
  BY DEF Read
<1>2. \A o \in Read' : o \in Read /\ Result(o)' = Result(o)
  BY DEF Read, Result, CountersInv, CounterTypes
<1>3. QED
  BY <1>1, <1>2 DEF CountersInv, Results

LEMMA CountersStep == ASSUME CountersInv, [C!Next]_countersVars PROVE CountersInv'
<1>0. /\ ITER_SIZE \in Nat \ {0} /\ Nobody \notin CounterThreads
      /\ Cardinality(Increments) \in Nat
  BY CountersConstants, AllIncrements DEF CountersInv
<1> USE DEF CountersInv
<1>1. ASSUME NEW t \in CounterThreads, C!Lock(t) PROVE CountersInv'
  <2>1. Increments' = Increments
    BY <1>1 DEF C!Lock, Increments
  <2>2. CounterTypes' /\ Guarded'
    BY <1>0, <1>1 DEF CounterTypes, Guarded, C!Lock
  <2>3. Counting'
    BY <1>0, <1>1, <2>1 DEF CounterTypes, Counting, C!Lock
  <2>4. Results'
    BY <1>1, ReadLater DEF CounterTypes, C!Lock
  <2>5. QED
    BY <2>2, <2>3, <2>4
<1>2. ASSUME NEW t \in CounterThreads, C!ReadGlobal(t) PROVE CountersInv'
  <2>1. Increments' = Increments
    BY <1>2 DEF C!ReadGlobal, Increments
  <2>2. CounterTypes' /\ Guarded'
    BY <1>0, <1>2 DEF CounterTypes, Guarded, C!ReadGlobal
  <2>3. Counting'
    BY <1>0, <1>2, <2>1 DEF CounterTypes, Counting, C!ReadGlobal
  <2>4. Results'
    BY <1>2, ReadLater DEF CounterTypes, C!ReadGlobal
  <2>5. QED
    BY <2>2, <2>3, <2>4
<1>3. ASSUME NEW t \in CounterThreads, C!WriteGlobal(t) PROVE CountersInv'
  <2>1. Cardinality(Increments)' = Cardinality(Increments) + 1
    BY <1>3, OneIncrement DEF Guarded, C!WriteGlobal
  <2>2. CounterTypes' /\ Guarded'
    BY <1>0, <1>3 DEF CounterTypes, Guarded, C!WriteGlobal
  <2>3. \A o \in CounterThreads : o # t => ~(locked /\ counters_pc[o] = "write")
    BY <1>0, <1>3 DEF Guarded, CounterTypes, C!WriteGlobal
  <2>4. /\ register[t] \in Nat /\ register[t] <= Cardinality(Increments)
        /\ global \in Nat /\ j[t] \in 0..ITER_SIZE /\ j[t] < ITER_SIZE
        /\ j[t] > 0 => register[t] > 0
        /\ locked => register[t] = global /\ global = Cardinality(Increments)
    BY <1>3 DEF CounterTypes, Guarded, Counting, C!WriteGlobal
  <2>5. /\ global' = register[t] + 1 /\ j'[t] = j[t] + 1 /\ UNCHANGED <<locked, printed>>
        /\ counters_pc'[t] # "done" /\ counters_pc'[t] # "write" /\ register'[t] = 0
        /\ \A o \in CounterThreads : o # t => register'[o] = register[o] /\ j'[o] = j[o]
                                              /\ counters_pc'[o] = counters_pc[o]
    BY <1>3 DEF CounterTypes, C!WriteGlobal
  <2>6. Counting'
    <3>1. global' <= Cardinality(Increments)'
      BY <1>0, <2>1, <2>4, <2>5 DEF Counting
    <3>2. \A o \in CounterThreads : /\ register'[o] <= Cardinality(Increments)'
                                    /\ printed'[o] <= Cardinality(Increments)'
      BY <1>0, <2>1, <2>4, <2>5 DEF Counting, CounterTypes
    <3>3. locked' => global' = Cardinality(Increments)'
      BY <2>1, <2>4, <2>5
    <3>4. \A o \in CounterThreads :
            /\ locked' /\ counters_pc'[o] = "write" => register'[o] = global'
            /\ j'[o] > 0 => global' > 0
            /\ j'[o] > 0 /\ counters_pc'[o] = "write" => register'[o] > 0
      BY <2>3, <2>4, <2>5 DEF Counting
    <3>5. ITER_SIZE > 1 /\ (\A o \in CounterThreads : j'[o] = ITER_SIZE) => global' > 1
      BY <1>0, <2>4, <2>5
    <3>6. QED
      BY <2>5, <3>1, <3>2, <3>3, <3>4, <3>5 DEF Counting
  <2>7. Results'
    BY <1>3, ReadLater DEF CounterTypes, C!WriteGlobal
  <2>8. QED
    BY <2>2, <2>6, <2>7
<1>4. ASSUME NEW t \in CounterThreads, C!Unlock(t) PROVE CountersInv'
  <2>1. Increments' = Increments
    BY <1>4 DEF C!Unlock, Increments
  <2>2. CounterTypes' /\ Guarded'
    BY <1>0, <1>4 DEF CounterTypes, Guarded, C!Unlock
  <2>3. Counting'
    BY <1>0, <1>4, <2>1 DEF CounterTypes, Counting, C!Unlock
  <2>4. Results'
    BY <1>4, ReadLater DEF CounterTypes, C!Unlock
  <2>5. QED
    BY <2>2, <2>3, <2>4
<1>5. ASSUME NEW t \in CounterThreads, C!ReadResult(t) PROVE CountersInv'
  <2>1. Increments' = Increments
    BY <1>5 DEF C!ReadResult, Increments
  <2>2. CounterTypes' /\ Guarded'
    BY <1>0, <1>5 DEF CounterTypes, Guarded, C!ReadResult
  <2>3. Counting'
    BY <1>0, <1>5, <2>1 DEF CounterTypes, Counting, C!ReadResult
  <2>4. /\ Result(t)' = global' /\ global' = global /\ UNCHANGED locked
        /\ \A o \in Read' : o # t => o \in Read /\ Result(o)' = Result(o)
    BY <1>5 DEF CounterTypes, C!ReadResult, Result, Read
  <2>5. locked => global >= ITER_SIZE
    BY <1>5, OwnIncrements DEF C!ReadResult, Counting
  <2>6. Results'
    BY <2>4, <2>5 DEF Results
  <2>7. QED
    BY <2>2, <2>3, <2>6
<1>6. ASSUME NEW t \in CounterThreads, C!PrintResult(t) PROVE CountersInv'
  <2>1. Increments' = Increments
    BY <1>6 DEF C!PrintResult, Increments
  <2>2. CounterTypes' /\ Guarded'
    BY <1>0, <1>6 DEF CounterTypes, Guarded, C!PrintResult
  <2>3. Counting'
    BY <1>0, <1>6, <2>1 DEF CounterTypes, Counting, C!PrintResult
  <2>4. /\ Read' = Read /\ UNCHANGED <<locked, global>>
        /\ \A o \in Read : Result(o)' = Result(o)
    BY <1>6 DEF CounterTypes, C!PrintResult, Result, Read
  <2>5. Results'
    BY <2>4 DEF Results
  <2>6. QED
    BY <2>2, <2>3, <2>5
<1>7. CASE UNCHANGED countersVars
  BY <1>7 DEF countersVars, CounterTypes, Guarded, Counting, Increments, Results, Result, Read
<1>8. QED
  BY <1>1, <1>2, <1>3, <1>4, <1>5, <1>6, <1>7 DEF C!Next, C!Step, countersVars, C!vars

(* What the invariant says of the values printed and of the types.          *)
LEMMA CountersCounted == ASSUME CountersInv PROVE C!Counted /\ C!TypeOK
<1> DEFINE total == Cardinality(CounterThreads) * ITER_SIZE
           least == IF Cardinality(CounterThreads) > 1 /\ ITER_SIZE > 1 THEN 2 ELSE 1
<1>0. /\ ITER_SIZE \in Nat \ {0} /\ CounterThreads # {} /\ total \in Nat
      /\ Cardinality(Increments) \in Nat /\ Cardinality(Increments) <= total
      /\ (\A t \in CounterThreads : j[t] = ITER_SIZE) => Cardinality(Increments) = total
  BY CountersConstants, AllIncrements DEF CountersInv
<1> HIDE DEF total
<1>c. C!Cardinality(CounterThreads) = Cardinality(CounterThreads)
  BY DEF C!Cardinality, Cardinality
<1>1. ASSUME \A t \in CounterThreads : counters_pc[t] = "done"
      PROVE  /\ \E t \in CounterThreads : printed[t] = global
             /\ IF locked
                THEN global = total /\ \A t \in CounterThreads : printed[t] \in ITER_SIZE..total
                ELSE global \in least..total
  <2>1. /\ \A t \in CounterThreads : j[t] = ITER_SIZE
        /\ Read = CounterThreads /\ \A t \in CounterThreads : Result(t) = printed[t]
    BY <1>1 DEF CountersInv, Guarded, Read, Result
  <2>2. /\ global \in Nat /\ global > 0 /\ global <= total
        /\ ITER_SIZE > 1 => global > 1
    BY <1>0, <2>1 DEF CountersInv, CounterTypes, Counting
  <2>3. locked => global = total
    BY <1>0, <2>1 DEF CountersInv, Counting
  <2>4. \E t \in CounterThreads : printed[t] = global
    BY <2>1 DEF CountersInv, Results
  <2>5. locked => \A t \in CounterThreads : printed[t] \in ITER_SIZE..total
    BY <1>0, <2>1 DEF CountersInv, CounterTypes, Counting, Results
  <2>6. ~locked => global \in least..total
    BY <1>0, <2>2
  <2>7. QED
    BY <2>3, <2>4, <2>5, <2>6
<1>2. C!Counted
  BY <1>1, <1>c DEF C!Counted, total
<1>3. /\ global \in 0..total
      /\ register \in [CounterThreads -> 0..total] /\ printed \in [CounterThreads -> 0..total]
  <2>1. /\ global \in Nat /\ global <= total
        /\ \A t \in CounterThreads : /\ register[t] \in Nat /\ register[t] <= Cardinality(Increments)
                                     /\ printed[t] \in Nat /\ printed[t] <= Cardinality(Increments)
    BY <1>0 DEF CountersInv, CounterTypes, Counting
  <2>2. \A t \in CounterThreads : register[t] \in 0..total /\ printed[t] \in 0..total
    BY <1>0, <2>1
  <2>3. QED
    BY <1>0, <2>1, <2>2 DEF CountersInv, CounterTypes
<1>4. QED
  BY <1>2, <1>3, <1>c DEF CountersInv, CounterTypes, C!TypeOK, total

-----------------------------------------------------------------------------
(* Shops *)

(* Where a thread has the door of the shop it is at.                        *)
InShop == {"inside", "empty", "write", "leave"}

ShopsTypes ==
    /\ load \in [S!ShopIds -> 0..MaxLoad]
    /\ bag \in [Buyers -> Nat]
    /\ shops_pc \in [S!Threads -> {"try", "inside", "empty", "write", "leave", "decide",
                                   "check", "done"}]
    /\ at \in [S!Threads -> S!ShopIds]
    /\ door \in [S!ShopIds -> S!Threads \cup {Nobody}]
    /\ satisfaction \subseteq Buyers
    /\ seen \in [all : BOOLEAN, checked : SUBSET Buyers]
    /\ read \in 0..MaxLoad /\ loaded \in Nat

(* Who is in a shop has its door; nobody has another.                       *)
OneInside ==
    \A t \in S!Threads :
        /\ shops_pc[t] \in InShop => door[at[t]] = t
        /\ \A i \in S!ShopIds : door[i] = t => i = at[t] /\ shops_pc[t] \in InShop

(* What a thread in the middle of its work knows of the goods.              *)
Handled ==
    /\ \A b \in Buyers :
        /\ shops_pc[b] \in {"try", "inside"} => bag[b] < NEED
        /\ bag[b] <= NEED + MaxLoad
        /\ shops_pc[b] = "empty" => bag[b] >= load[at[b]]
        /\ shops_pc[b] \notin {"write", "check"}
        /\ shops_pc[b] = "done" => bag[b] >= NEED
    /\ shops_pc[Loader] \notin {"empty", "decide"}
    /\ shops_pc[Loader] = "write" => read = load[at[Loader]] /\ read < MaxLoad

(* A flag that is set, or was seen set, is that of a buyer that has ended.  *)
Flags ==
    /\ \A b \in satisfaction : shops_pc[b] = "done"
    /\ seen.all => seen.checked \subseteq satisfaction
    /\ shops_pc[Loader] = "done" => seen.all /\ seen.checked = Buyers

(* No goods appear or disappear.                                            *)
Traded == S!Goods = SHOPS + loaded

ShopsInv == ShopsTypes /\ OneInside /\ Handled /\ Flags /\ Traded

LEMMA ShopsConstants ==
    /\ SHOPS \in Nat \ {0} /\ NEED \in Nat \ {0} /\ MaxLoad \in Nat \ {0}
    /\ IsFiniteSet(Buyers) /\ Loader \notin Buyers
    /\ Nobody \notin S!Threads
<1>1. S!ShopsAssumption
  BY ExercisesAssumption DEF ExercisesAssumption
<1>2. S!IsFiniteSet(Buyers) => IsFiniteSet(Buyers)
  BY DEF S!IsFiniteSet, IsFiniteSet
<1>3. QED
  BY <1>1, <1>2 DEF S!ShopsAssumption, S!Threads

(* The units of a stock can be counted; when one holder's share changes, so *)
(* does the count.                                                          *)
LEMMA UnitsCounted ==
    ASSUME NEW holders, IsFiniteSet(holders), NEW stock \in [holders -> Nat]
    PROVE  /\ IsFiniteSet(S!Units(stock)) /\ Cardinality(S!Units(stock)) \in Nat
           /\ \A k \in holders : \A n \in Nat :
                Cardinality(S!Units([stock EXCEPT ![k] = n])) + stock[k]
                    = Cardinality(S!Units(stock)) + n
<1> DEFINE Share(k, n) == {k} \X (1..n)
           Others(k) == UNION {{i} \X (1..stock[i]) : i \in holders \ {k}}
<1>1. ASSUME NEW k, NEW n \in Nat PROVE IsFiniteSet(Share(k, n)) /\ Cardinality(Share(k, n)) = n
  <2>1. IsFiniteSet({k}) /\ Cardinality({k}) = 1
    BY FS_Singleton
  <2>2. IsFiniteSet(1..n) /\ Cardinality(1..n) = n
    BY FS_Interval
  <2>3. /\ IsFiniteSet({k} \X (1..n))
        /\ Cardinality({k} \X (1..n)) = Cardinality({k}) * Cardinality(1..n)
    BY <2>1, <2>2, FS_Product, Zenon
  <2>4. QED
    BY <2>1, <2>2, <2>3
<1>2. ASSUME NEW some, some \subseteq holders
      PROVE  IsFiniteSet(UNION {{i} \X (1..stock[i]) : i \in some})
  <2> DEFINE shares == {{i} \X (1..stock[i]) : i \in some}
  <2>1. IsFiniteSet(some)
    BY <1>2, FS_Subset
  <2>2. IsFiniteSet(shares)
    <3> DEFINE share == [i \in some |-> {i} \X (1..stock[i])]
    <3>1. share \in Surjection(some, shares)
      BY DEF Surjection
    <3>2. QED
      BY <2>1, <3>1, FS_Surjection
  <2>3. \A one \in shares : IsFiniteSet(one)
    <3>1. \A i \in some : IsFiniteSet(Share(i, stock[i]))
      BY <1>1, <1>2
    <3>2. QED
      BY <3>1
  <2> HIDE DEF shares
  <2>4. QED
    BY <2>2, <2>3, FS_UNION DEF shares
<1>3. S!Units(stock) = UNION {{i} \X (1..stock[i]) : i \in holders}
  BY DEF S!Units
<1>4. ASSUME NEW k \in holders
      PROVE  IsFiniteSet(Others(k)) /\ Cardinality(Others(k)) \in Nat
  BY <1>2, FS_CardinalityType
<1>5. ASSUME NEW k \in holders, NEW other \in [holders -> Nat],
             \A i \in holders \ {k} : other[i] = stock[i]
      PROVE  /\ S!Units(other) = Others(k) \cup Share(k, other[k])
             /\ Cardinality(S!Units(other)) = Cardinality(Others(k)) + other[k]
  <2>1. S!Units(other) = UNION {{i} \X (1..other[i]) : i \in holders}
    BY DEF S!Units
  <2>2. S!Units(other) = Others(k) \cup Share(k, other[k])
    BY <1>5, <2>1
  <2>3. Others(k) \cap Share(k, other[k]) = {}
    OBVIOUS
  <2>4. IsFiniteSet(Others(k)) /\ IsFiniteSet(Share(k, other[k]))
        /\ Cardinality(Share(k, other[k])) = other[k] /\ other[k] \in Nat
        /\ Cardinality(Others(k)) \in Nat
    BY <1>1, <1>4
  <2> HIDE DEF Others, Share
  <2>5. Cardinality(Others(k) \cup Share(k, other[k]))
            = Cardinality(Others(k)) + Cardinality(Share(k, other[k])) - 0
    BY <2>3, <2>4, FS_Union, FS_EmptySet
  <2>6. QED
    BY <2>2, <2>4, <2>5
<1>6. ASSUME NEW k \in holders, NEW n \in Nat
      PROVE  Cardinality(S!Units([stock EXCEPT ![k] = n])) + stock[k]
                 = Cardinality(S!Units(stock)) + n
  <2> DEFINE other == [stock EXCEPT ![k] = n]
  <2>1. other \in [holders -> Nat] /\ other[k] = n /\ \A i \in holders \ {k} : other[i] = stock[i]
    OBVIOUS
  <2> HIDE DEF Others, other
  <2>2. Cardinality(S!Units(other)) = Cardinality(Others(k)) + n
    BY <1>5, <2>1
  <2>3. Cardinality(S!Units(stock)) = Cardinality(Others(k)) + stock[k]
    BY <1>5
  <2>4. stock[k] \in Nat /\ Cardinality(Others(k)) \in Nat
    BY <1>4
  <2>5. Cardinality(S!Units(other)) + stock[k] = Cardinality(S!Units(stock)) + n
    BY <2>2, <2>3, <2>4
  <2>6. QED
    BY <2>5 DEF other
<1>7. IsFiniteSet(S!Units(stock))
  BY <1>2, <1>3
<1>8. QED
  BY <1>6, <1>7, FS_CardinalityType

(* What everyone carries is a number of units.                              *)
LEMMA CarriedUnits ==
    ASSUME ShopsInv
    PROVE  /\ load \in [S!ShopIds -> Nat] /\ IsFiniteSet(S!ShopIds)
           /\ [b \in Buyers |-> S!Carried(b)] \in [Buyers -> Nat] /\ IsFiniteSet(Buyers)
           /\ S!Goods = Cardinality(S!Units(load))
                        + Cardinality(S!Units([b \in Buyers |-> S!Carried(b)]))
<1>1. load \in [S!ShopIds -> Nat]
  BY ShopsConstants DEF ShopsInv, ShopsTypes
<1>2. IsFiniteSet(S!ShopIds) /\ IsFiniteSet(Buyers)
  BY ShopsConstants, FS_Interval DEF S!ShopIds
<1>3. ASSUME NEW b \in Buyers PROVE S!Carried(b) \in Nat
  <2>1. bag[b] \in Nat /\ at[b] \in S!ShopIds /\ load[at[b]] \in Nat
        /\ (shops_pc[b] = "empty" => bag[b] >= load[at[b]])
    BY <1>1 DEF ShopsInv, ShopsTypes, Handled, S!Threads
  <2>2. QED
    BY <2>1 DEF S!Carried
<1>4. \A set : S!Cardinality(set) = Cardinality(set)
  BY DEF S!Cardinality, Cardinality
<1>5. S!Goods = Cardinality(S!Units(load))
                + Cardinality(S!Units([b \in Buyers |-> S!Carried(b)]))
  BY <1>4 DEF S!Goods
<1>6. QED
  BY <1>1, <1>2, <1>3, <1>5

(* A step that leaves shelves and bags as they are.                         *)
LEMMA SameGoods ==
    ASSUME ShopsInv, UNCHANGED <<load, loaded>>,
           \A b \in Buyers : S!Carried(b)' = S!Carried(b)
    PROVE  Traded'
<1>1. [b \in Buyers |-> S!Carried(b)]' = [b \in Buyers |-> S!Carried(b)]
  OBVIOUS
<1>2. S!Goods' = S!Goods
  <2>1. S!Units(load)' = S!Units(load)
    BY DEF S!Units
  <2>2. S!Units([b \in Buyers |-> S!Carried(b)])' = S!Units([b \in Buyers |-> S!Carried(b)])
    BY <1>1 DEF S!Units
  <2>3. QED
    BY <2>1, <2>2 DEF S!Goods
<1>3. QED
  BY <1>2 DEF ShopsInv, Traded

(* A step after which shop i has n units.                                   *)
LEMMA Restocked ==
    ASSUME ShopsInv, NEW i \in S!ShopIds, NEW n \in Nat, load' = [load EXCEPT ![i] = n]
    PROVE  /\ S!Goods' = Cardinality(S!Units(load)) - load[i] + n
                         + Cardinality(S!Units([b \in Buyers |-> S!Carried(b)]'))
           /\ Cardinality(S!Units(load)) \in Nat
<1>0. load \in [S!ShopIds -> Nat] /\ IsFiniteSet(S!ShopIds)
  BY CarriedUnits
<1>1. Cardinality(S!Units(load')) + load[i] = Cardinality(S!Units(load)) + n
  <2>1. \A k \in S!ShopIds : \A m \in Nat :
            Cardinality(S!Units([load EXCEPT ![k] = m])) + load[k]
                = Cardinality(S!Units(load)) + m
    BY <1>0, UnitsCounted
  <2>2. QED
    BY <2>1
<1>2. Cardinality(S!Units(load)) \in Nat /\ load[i] \in Nat
  BY CarriedUnits, UnitsCounted
<1>3. load' \in [S!ShopIds -> Nat]
  BY CarriedUnits
<1>4. Cardinality(S!Units(load')) \in Nat
  BY <1>3, CarriedUnits, UnitsCounted
<1>5. \A set : S!Cardinality(set) = Cardinality(set)
  BY DEF S!Cardinality, Cardinality
<1>6. S!Goods' = Cardinality(S!Units(load'))
                + Cardinality(S!Units([b \in Buyers |-> S!Carried(b)]'))
  BY <1>5 DEF S!Goods
<1>7. Cardinality(S!Units(load')) = Cardinality(S!Units(load)) - load[i] + n
  BY <1>1, <1>2, <1>4
<1>8. QED
  BY <1>2, <1>6, <1>7

LEMMA ShopsStep == ASSUME ShopsInv, [S!Next]_shopsVars PROVE ShopsInv'
<1>0. /\ SHOPS \in Nat \ {0} /\ NEED \in Nat \ {0} /\ MaxLoad \in Nat \ {0}
      /\ Loader \notin Buyers /\ Nobody \notin S!Threads
  BY ShopsConstants
<1>t. Loader \in S!Threads /\ Buyers \subseteq S!Threads
  BY DEF S!Threads
<1> USE DEF ShopsInv
<1>1. ASSUME NEW t \in S!Threads, S!Enter(t) PROVE ShopsInv'
  <2>1. at[t] \in S!ShopIds /\ door[at[t]] = Nobody
    BY <1>1 DEF ShopsTypes, S!Enter
  <2>2. ShopsTypes'
    BY <1>1, <2>1 DEF ShopsTypes, S!Enter
  <2>3. OneInside'
    BY <1>0, <1>1, <2>1 DEF OneInside, ShopsTypes, InShop, S!Enter
  <2>4. Handled'
    BY <1>0, <1>1, <1>t, <2>1 DEF ShopsTypes, Handled, S!Enter
  <2>5. Flags'
    BY <1>1, <1>t, <2>1 DEF ShopsTypes, Flags, S!Enter
  <2>6. Traded'
    <3>1. \A b \in Buyers : S!Carried(b)' = S!Carried(b)
      BY <1>1, <1>t DEF S!Enter, S!Carried, ShopsTypes
    <3>2. QED
      BY <1>1, <3>1, SameGoods DEF S!Enter
  <2>7. QED
    BY <2>2, <2>3, <2>4, <2>5, <2>6
<1>2. ASSUME NEW k \in Buyers, S!Fill(k) PROVE ShopsInv'
  <2>1. /\ at[k] \in S!ShopIds /\ load[at[k]] \in 0..MaxLoad /\ bag[k] \in Nat /\ bag[k] < NEED
    <3>1. k \in S!Threads /\ shops_pc[k] = "inside"
      BY <1>2, <1>t DEF S!Fill
    <3>2. at[k] \in S!ShopIds /\ bag[k] \in Nat /\ bag[k] < NEED
      BY <3>1 DEF ShopsTypes, Handled
    <3>3. QED
      BY <3>2 DEF ShopsTypes
  <2>2. ShopsTypes'
    <3>1. bag' \in [Buyers -> Nat]
      <4>1. bag \in [Buyers -> Nat] /\ bag[k] + load[at[k]] \in Nat
        BY <2>1 DEF ShopsTypes
      <4>2. QED
        BY <1>2, <4>1 DEF S!Fill
    <3>2. shops_pc' \in [S!Threads -> {"try", "inside", "empty", "write", "leave", "decide",
                                       "check", "done"}]
      BY <1>2, <1>t DEF ShopsTypes, S!Fill
    <3>3. QED
      BY <1>2, <3>1, <3>2 DEF ShopsTypes, S!Fill
  <2>3. OneInside'
    BY <1>0, <1>2, <1>t DEF OneInside, ShopsTypes, InShop, S!Fill
  <2>4. Handled'
    BY <1>0, <1>2, <1>t, <2>1 DEF ShopsTypes, Handled, S!Fill
  <2>5. Flags'
    BY <1>0, <1>2, <1>t DEF ShopsTypes, Flags, S!Fill
  <2>6. Traded'
    <3>1. \A b \in Buyers : S!Carried(b)' = S!Carried(b)
      BY <1>2, <1>t, <2>1 DEF S!Fill, S!Carried, ShopsTypes
    <3>2. QED
      BY <1>2, <3>1, SameGoods DEF S!Fill
  <2>7. QED
    BY <2>2, <2>3, <2>4, <2>5, <2>6
<1>3. ASSUME NEW k \in Buyers, S!Empty(k) PROVE ShopsInv'
  <2>1. /\ at[k] \in S!ShopIds /\ load[at[k]] \in 0..MaxLoad /\ bag[k] \in Nat
        /\ bag[k] >= load[at[k]] /\ shops_pc[k] = "empty"
    BY <1>0, <1>3, <1>t DEF ShopsTypes, Handled, S!Empty
  <2>2. \A t \in S!Threads \ {k} : shops_pc[t] \in InShop => at[t] # at[k]
    <3>1. k \in S!Threads /\ shops_pc[k] \in InShop
      BY <1>3, <1>t DEF InShop, S!Empty
    <3>2. door[at[k]] = k
      BY <3>1 DEF OneInside
    <3>3. QED
      BY <3>2 DEF OneInside
  <2>3. ShopsTypes'
    <3>1. load' \in [S!ShopIds -> 0..MaxLoad]
      <4>1. load \in [S!ShopIds -> 0..MaxLoad] /\ 0 \in 0..MaxLoad
        BY <1>0 DEF ShopsTypes
      <4>2. QED
        BY <1>3, <4>1 DEF S!Empty
    <3>2. shops_pc' \in [S!Threads -> {"try", "inside", "empty", "write", "leave", "decide",
                                       "check", "done"}]
      BY <1>3, <1>t DEF ShopsTypes, S!Empty
    <3>3. QED
      BY <1>3, <3>1, <3>2 DEF ShopsTypes, S!Empty
  <2>4. OneInside'
    BY <1>0, <1>3, <1>t DEF OneInside, ShopsTypes, InShop, S!Empty
  <2>5. Handled'
    BY <1>0, <1>3, <1>t, <2>1, <2>2 DEF ShopsTypes, Handled, InShop, S!Empty
  <2>6. Flags'
    BY <1>0, <1>3, <1>t DEF ShopsTypes, Flags, S!Empty
  <2>7. Traded'
    <3> DEFINE carried == [b \in Buyers |-> S!Carried(b)]
    <3>1. load' = [load EXCEPT ![at[k]] = 0]
      BY <1>3 DEF S!Empty
    <3>2. carried' = [carried EXCEPT ![k] = carried[k] + load[at[k]]]
      <4>1. carried[k] = bag[k] - load[at[k]] /\ carried'[k] = bag[k]
        BY <1>3, <1>t, <2>1 DEF S!Empty, S!Carried, ShopsTypes
      <4>2. \A b \in Buyers \ {k} : carried'[b] = carried[b]
        <5> SUFFICES ASSUME NEW b \in Buyers \ {k} PROVE S!Carried(b)' = S!Carried(b)
          OBVIOUS
        <5>1. b \in S!Threads \ {k} /\ UNCHANGED <<bag, at>> /\ shops_pc'[b] = shops_pc[b]
          BY <1>3, <1>t DEF S!Empty, ShopsTypes
        <5>2. CASE shops_pc[b] = "empty"
          <6>1. at[b] # at[k]
            BY <2>2, <5>1, <5>2 DEF InShop
          <6>2. load'[at[b]] = load[at[b]]
            BY <3>1, <6>1, <5>1 DEF ShopsTypes
          <6>3. QED
            BY <5>1, <6>2 DEF S!Carried
        <5>3. CASE shops_pc[b] # "empty"
          BY <5>1, <5>3 DEF S!Carried
        <5>4. QED
          BY <5>2, <5>3
      <4>3. bag[k] = carried[k] + load[at[k]]
        BY <2>1, <4>1
      <4>4. DOMAIN carried' = Buyers /\ DOMAIN carried = Buyers
        OBVIOUS
      <4> HIDE DEF carried
      <4>5. carried' = [b \in Buyers |-> carried'[b]]
        <5>1. carried' = [b \in Buyers |-> S!Carried(b)']
          BY DEF carried
        <5>2. QED
          BY <5>1
      <4>6. carried = [b \in Buyers |-> carried[b]]
        BY DEF carried
      <4>7. QED
        BY <4>1, <4>2, <4>3, <4>5, <4>6
    <3>3. carried \in [Buyers -> Nat] /\ carried[k] + load[at[k]] \in Nat
          /\ load[at[k]] \in Nat
      <4>1. carried \in [Buyers -> Nat] /\ load[at[k]] \in Nat
        BY <2>1, CarriedUnits
      <4>2. QED
        BY <4>1
    <3> HIDE DEF carried
    <3>4. /\ Cardinality(S!Units(carried')) + carried[k]
              = Cardinality(S!Units(carried)) + (carried[k] + load[at[k]])
          /\ Cardinality(S!Units(carried)) \in Nat /\ Cardinality(S!Units(carried')) \in Nat
      <4>0. IsFiniteSet(Buyers)
        BY CarriedUnits
      <4>1. carried' \in [Buyers -> Nat]
        BY <3>2, <3>3
      <4>2. \A b \in Buyers : \A m \in Nat :
                Cardinality(S!Units([carried EXCEPT ![b] = m])) + carried[b]
                    = Cardinality(S!Units(carried)) + m
        BY <3>3, <4>0, UnitsCounted
      <4>3. /\ Cardinality(S!Units(carried)) \in Nat
            /\ Cardinality(S!Units(carried')) \in Nat
        BY <3>3, <4>0, <4>1, UnitsCounted
      <4>4. QED
        BY <3>2, <3>3, <4>2, <4>3
    <3>5. /\ S!Goods' = Cardinality(S!Units(load)) - load[at[k]] + 0 + Cardinality(S!Units(carried'))
          /\ S!Goods = Cardinality(S!Units(load)) + Cardinality(S!Units(carried))
          /\ Cardinality(S!Units(load)) \in Nat
      BY <2>1, <3>1, CarriedUnits, Restocked DEF carried
    <3>6. S!Goods' = S!Goods
      BY <3>3, <3>4, <3>5
    <3>7. QED
      BY <1>3, <3>6 DEF Traded, S!Empty
  <2>8. QED
    BY <2>3, <2>4, <2>5, <2>6, <2>7
<1>4. ASSUME NEW k \in Buyers, S!Leave(k) PROVE ShopsInv'
  <2>1. at[k] \in S!ShopIds /\ shops_pc[k] \in InShop /\ shops_pc[k] # "empty" /\ door[at[k]] = k
    BY <1>4, <1>t DEF ShopsTypes, OneInside, InShop, S!Leave
  <2>2. ShopsTypes'
    BY <1>0, <1>4, <2>1 DEF ShopsTypes, S!Leave
  <2>3. OneInside'
    BY <1>0, <1>4, <1>t, <2>1 DEF OneInside, ShopsTypes, InShop, S!Leave
  <2>4. Handled'
    BY <1>0, <1>4, <1>t, <2>1 DEF ShopsTypes, Handled, S!Leave
  <2>5. Flags'
    BY <1>0, <1>4, <1>t, <2>1 DEF ShopsTypes, Flags, S!Leave
  <2>6. Traded'
    <3>1. \A b \in Buyers : S!Carried(b)' = S!Carried(b)
      BY <1>4, <1>t, <2>1 DEF S!Leave, S!Carried, ShopsTypes
    <3>2. QED
      BY <1>4, <3>1, SameGoods DEF S!Leave
  <2>7. QED
    BY <2>2, <2>3, <2>4, <2>5, <2>6
<1>5. ASSUME NEW k \in Buyers, S!Decide(k) PROVE ShopsInv'
  <2>1. at[k] \in S!ShopIds /\ shops_pc[k] \notin InShop /\ bag[k] \in Nat
        /\ shops_pc[k] # "done" /\ S!NextShop(at[k]) \in S!ShopIds
    BY <1>0, <1>5, <1>t DEF ShopsTypes, InShop, S!Decide, S!NextShop, S!ShopIds
  <2>2. ShopsTypes'
    BY <1>0, <1>5, <1>t, <2>1 DEF ShopsTypes, S!Decide
  <2>3. OneInside'
    BY <1>0, <1>5, <1>t, <2>1 DEF OneInside, ShopsTypes, InShop, S!Decide
  <2>4. Handled'
    BY <1>0, <1>5, <1>t, <2>1 DEF ShopsTypes, Handled, S!Decide
  <2>5. Flags'
    BY <1>0, <1>5, <1>t, <2>1 DEF ShopsTypes, Flags, S!Decide
  <2>6. Traded'
    <3>1. \A b \in Buyers : S!Carried(b)' = S!Carried(b)
      BY <1>5, <1>t, <2>1 DEF S!Decide, S!Carried, ShopsTypes, InShop
    <3>2. QED
      BY <1>5, <3>1, SameGoods DEF S!Decide
  <2>7. QED
    BY <2>2, <2>3, <2>4, <2>5, <2>6
<1>6. CASE S!ReadLoad
  <2>1. at[Loader] \in S!ShopIds /\ load[at[Loader]] \in 0..MaxLoad
    BY <1>t DEF ShopsTypes
  <2>2. ShopsTypes'
    BY <1>0, <1>6, <1>t, <2>1 DEF ShopsTypes, S!ReadLoad
  <2>3. OneInside'
    BY <1>0, <1>6, <1>t DEF OneInside, ShopsTypes, InShop, S!ReadLoad
  <2>4. Handled'
    BY <1>0, <1>6, <1>t, <2>1 DEF ShopsTypes, Handled, S!ReadLoad
  <2>5. Flags'
    BY <1>0, <1>6, <1>t DEF ShopsTypes, Flags, S!ReadLoad
  <2>6. Traded'
    <3>1. \A b \in Buyers : S!Carried(b)' = S!Carried(b)
      BY <1>0, <1>6, <1>t DEF S!ReadLoad, S!Carried, ShopsTypes
    <3>2. QED
      BY <1>6, <3>1, SameGoods DEF S!ReadLoad
  <2>7. QED
    BY <2>2, <2>3, <2>4, <2>5, <2>6
<1>7. CASE S!WriteLoad
  <2>1. /\ at[Loader] \in S!ShopIds /\ read = load[at[Loader]] /\ read < MaxLoad
        /\ read \in Nat /\ loaded \in Nat
    BY <1>0, <1>7, <1>t DEF ShopsTypes, Handled, S!WriteLoad
  <2>2. \A t \in S!Threads \ {Loader} : shops_pc[t] \in InShop => at[t] # at[Loader]
    <3>1. Loader \in S!Threads /\ shops_pc[Loader] \in InShop
      BY <1>7, <1>t DEF InShop, S!WriteLoad
    <3>2. door[at[Loader]] = Loader
      BY <3>1 DEF OneInside
    <3>3. QED
      BY <3>2 DEF OneInside
  <2>3. ShopsTypes'
    BY <1>0, <1>7, <1>t, <2>1 DEF ShopsTypes, S!WriteLoad
  <2>4. OneInside'
    BY <1>0, <1>7, <1>t DEF OneInside, ShopsTypes, InShop, S!WriteLoad
  <2>5. Handled'
    BY <1>0, <1>7, <1>t, <2>1, <2>2 DEF ShopsTypes, Handled, InShop, S!WriteLoad
  <2>6. Flags'
    BY <1>0, <1>7, <1>t DEF ShopsTypes, Flags, S!WriteLoad
  <2>7. Traded'
    <3> DEFINE carried == [b \in Buyers |-> S!Carried(b)]
    <3>1. \A b \in Buyers : S!Carried(b)' = S!Carried(b)
      BY <1>0, <1>7, <1>t, <2>1, <2>2 DEF S!WriteLoad, S!Carried, ShopsTypes, InShop
    <3>2. carried' = carried
      BY <3>1
    <3>3. load' = [load EXCEPT ![at[Loader]] = read + 1] /\ read + 1 \in Nat
      BY <1>7, <2>1 DEF S!WriteLoad
    <3>4. S!Goods = Cardinality(S!Units(load)) + Cardinality(S!Units(carried))
          /\ Cardinality(S!Units(carried)) \in Nat
      BY CarriedUnits, UnitsCounted
    <3> HIDE DEF carried
    <3>5. /\ S!Goods' = Cardinality(S!Units(load)) - load[at[Loader]] + (read + 1)
                        + Cardinality(S!Units(carried'))
          /\ Cardinality(S!Units(load)) \in Nat
      BY <2>1, <3>3, Restocked DEF carried
    <3>6. S!Goods' = S!Goods + 1
      BY <2>1, <3>2, <3>4, <3>5
    <3>7. QED
      BY <1>0, <1>7, <2>1, <3>6 DEF Traded, S!WriteLoad
  <2>8. QED
    BY <2>3, <2>4, <2>5, <2>6, <2>7
<1>8. CASE S!LoaderNext
  <2>1. at[Loader] \in S!ShopIds /\ (at[Loader] < SHOPS => at[Loader] + 1 \in S!ShopIds)
    <3>1. at[Loader] \in S!ShopIds
      BY <1>t DEF ShopsTypes
    <3>2. QED
      BY <1>0, <3>1 DEF S!ShopIds
  <2>2. ShopsTypes'
    <3>1. door' \in [S!ShopIds -> S!Threads \cup {Nobody}]
      BY <1>8 DEF ShopsTypes, S!LoaderNext
    <3>2. /\ shops_pc' \in [S!Threads -> {"try", "inside", "empty", "write", "leave",
                                          "decide", "check", "done"}]
          /\ at' \in [S!Threads -> S!ShopIds]
      BY <1>8, <1>t, <2>1 DEF ShopsTypes, S!LoaderNext
    <3>3. seen' \in [all : BOOLEAN, checked : SUBSET Buyers]
      <4>1. seen' = seen \/ seen' = [all |-> TRUE, checked |-> {}]
        BY <1>8 DEF S!LoaderNext
      <4>2. seen \in [all : BOOLEAN, checked : SUBSET Buyers]
        BY DEF ShopsTypes
      <4>3. [all |-> TRUE, checked |-> {}] \in [all : BOOLEAN, checked : SUBSET Buyers]
        <5>1. TRUE \in BOOLEAN /\ {} \in SUBSET Buyers
          OBVIOUS
        <5>2. QED
          BY <5>1
      <4>4. QED
        BY <4>1, <4>2, <4>3, Zenon
    <3>4. QED
      BY <1>8, <3>1, <3>2, <3>3 DEF ShopsTypes, S!LoaderNext
  <2>3. OneInside'
    BY <1>0, <1>8, <1>t, <2>1 DEF OneInside, ShopsTypes, InShop, S!LoaderNext
  <2>4. Handled'
    BY <1>0, <1>8, <1>t, <2>1 DEF ShopsTypes, Handled, S!LoaderNext
  <2>5. Flags'
    BY <1>0, <1>8, <1>t DEF ShopsTypes, Flags, S!LoaderNext
  <2>6. Traded'
    <3>1. \A b \in Buyers : S!Carried(b)' = S!Carried(b)
      BY <1>0, <1>8, <1>t DEF S!LoaderNext, S!Carried, ShopsTypes
    <3>2. QED
      BY <1>8, <3>1, SameGoods DEF S!LoaderNext
  <2>7. QED
    BY <2>2, <2>3, <2>4, <2>5, <2>6
<1>9. CASE S!Check
  <2>1. ShopsTypes'
    BY <1>9 DEF ShopsTypes, S!Check
  <2>2. OneInside' /\ Handled'
    <3>1. UNCHANGED <<door, load, bag, shops_pc, at, read>>
      BY <1>9 DEF S!Check
    <3>2. QED
      BY <3>1 DEF OneInside, Handled
  <2>3. Flags'
    <3>1. PICK b \in Buyers :
              seen' = [all |-> seen.all /\ b \in satisfaction, checked |-> seen.checked \cup {b}]
      BY <1>9 DEF S!Check
    <3>2. seen'.all => seen.all /\ b \in satisfaction
      BY <3>1
    <3>3. seen'.checked = seen.checked \cup {b}
      BY <3>1
    <3>4. seen'.all => seen'.checked \subseteq satisfaction
      BY <3>2, <3>3 DEF Flags
    <3>5. QED
      BY <1>9, <3>4 DEF Flags, S!Check
  <2>4. Traded'
    BY <1>9, SameGoods DEF S!Check, S!Carried
  <2>5. QED
    BY <2>1, <2>2, <2>3, <2>4
<1>10. CASE S!Conclude
  <2>1. 1 \in S!ShopIds
    BY <1>0 DEF S!ShopIds
  <2>2. ShopsTypes'
    BY <1>0, <1>10, <1>t, <2>1 DEF ShopsTypes, S!Conclude
  <2>3. OneInside'
    BY <1>0, <1>10, <1>t, <2>1 DEF OneInside, ShopsTypes, InShop, S!Conclude
  <2>4. Handled'
    BY <1>0, <1>10, <1>t, <2>1 DEF ShopsTypes, Handled, S!Conclude
  <2>5. Flags'
    BY <1>0, <1>10, <1>t DEF ShopsTypes, Flags, S!Conclude
  <2>6. Traded'
    <3>1. \A b \in Buyers : S!Carried(b)' = S!Carried(b)
      BY <1>0, <1>10, <1>t DEF S!Conclude, S!Carried, ShopsTypes
    <3>2. QED
      BY <1>10, <3>1, SameGoods DEF S!Conclude
  <2>7. QED
    BY <2>2, <2>3, <2>4, <2>5, <2>6
<1>11. CASE UNCHANGED shopsVars
  <2>1. ShopsTypes' /\ OneInside' /\ Handled' /\ Flags'
    BY <1>11 DEF shopsVars, ShopsTypes, OneInside, Handled, Flags
  <2>2. Traded'
    BY <1>11, SameGoods DEF shopsVars, S!Carried
  <2>3. QED
    BY <2>1, <2>2
<1>12. QED
  BY <1>1, <1>2, <1>3, <1>4, <1>5, <1>6, <1>7, <1>8, <1>9, <1>10, <1>11
     DEF S!Next, shopsVars, S!vars

LEMMA ShopsFair == ASSUME ShopsInv PROVE S!FairTrade /\ S!TypeOK
<1>1. S!Goods = SHOPS + loaded
  BY DEF ShopsInv, Traded
<1>2. ASSUME shops_pc[Loader] = "done", NEW b \in Buyers
      PROVE  shops_pc[b] = "done" /\ bag[b] >= NEED
  BY <1>2 DEF ShopsInv, Flags, Handled
<1>3. bag \in [Buyers -> 0..NEED + MaxLoad]
  BY ShopsConstants DEF ShopsInv, ShopsTypes, Handled
<1>4. QED
  BY <1>1, <1>2, <1>3 DEF S!FairTrade, S!TypeOK, ShopsInv, ShopsTypes

-----------------------------------------------------------------------------
(* ProcessTree *)

(* The innermost call.                                                      *)
Inner(calls) == calls[Len(calls)]

(* The jobs of the calls of create_jobs in a process, and in all of them.   *)
HeadsOf(calls) == {calls[i][1] : i \in DOMAIN calls}
Claimed == UNION {HeadsOf(frames[p]) : p \in T!Jobs}

TreeTypes ==
    /\ frames \in [T!Jobs -> Seq(T!Jobs \X Nat)]
    /\ tree_state \in [T!Jobs -> {"none", "create", "sleep", "killed", "wait", "exited"}]
    /\ parent \in [T!Jobs -> T!Jobs \cup {"none"}]
    /\ waits \in 0..2 /\ reaped \subseteq T!Jobs /\ failures \in 0..MaxFailures

(* What a process has begun: only the first one has a single call, and a    *)
(* call for another job than its own stems from forks that failed.          *)
Calls ==
    /\ \A p \in T!Jobs :
        /\ frames[p] = <<>> <=> tree_state[p] = "none"
        /\ frames[p] # <<>> =>
            /\ p \in HeadsOf(frames[p])
            /\ Inner(frames[p])[2] \in 1..Len(T!j_childs[Inner(frames[p])[1]]) + 1
            /\ Len(frames[p]) = 1 => p = "root" /\ Inner(frames[p])[1] = p
            /\ Inner(frames[p])[1] # p => failures > 0
            /\ \/ Inner(frames[p])[1] = p
               \/ Inner(frames[p])[1] \in T!ToSet(T!j_childs[p])
               \/ \E k \in T!ToSet(T!j_childs[p]) : Inner(frames[p])[1] \in T!ToSet(T!j_childs[k])
        /\ tree_state[p] \in {"wait", "exited"} => Len(frames[p]) = 1 /\ Inner(frames[p])[2] > Len(T!j_childs[Inner(frames[p])[1]])

(* A claimed job's parent job is claimed; what is ahead of a process is not,*)
(* and no two processes fork the children of one job.                       *)
Ahead ==
    /\ \A a \in T!Jobs : T!ToSet(T!j_childs[a]) \cap Claimed # {} => a \in Claimed
    /\ \A p \in T!Jobs : tree_state[p] = "create" =>
        /\ \A i \in Inner(frames[p])[2]..Len(T!j_childs[Inner(frames[p])[1]]) :
            T!j_childs[Inner(frames[p])[1]][i] \notin Claimed
        /\ \A q \in T!Jobs \ {p} : tree_state[q] = "create" => Inner(frames[q])[1] # Inner(frames[p])[1]

(* The process of a job is a child of the process of its parent job, or of  *)
(* that one's parent.                                                       *)
Family ==
    /\ \A c \in T!Jobs : parent[c] # "none" =>
        \/ c \in T!ToSet(T!j_childs[parent[c]])
        \/ failures > 0 /\ \E a \in T!ToSet(T!j_childs[parent[c]]) : c \in T!ToSet(T!j_childs[a])
    /\ Len(frames["root"]) = 1 =>
        /\ \A i \in 1..Inner(frames["root"])[2] - 1 : parent[T!j_childs["root"][i]] = "root"
        /\ \A c \in T!Jobs : parent[c] = "root" => c \in T!ToSet(T!j_childs["root"])

(* main waits for the children of its own process only.                     *)
Waiting ==
    /\ tree_state["root"] \notin {"wait", "exited"} => waits = 0 /\ reaped = {}
    /\ tree_state["root"] = "exited" => waits = 2
    /\ reaped \subseteq T!ToSet(T!j_childs["root"])
    /\ waits > 0 => reaped # {}
    /\ waits = 2 => reaped = T!ToSet(T!j_childs["root"])

TreeInv == TreeTypes /\ Calls /\ Ahead /\ Family /\ Waiting

LEMMA TreeConstants == MAX_CHILDS \in Nat \ {0} /\ MaxFailures \in Nat
<1>1. T!ProcessTreeAssumption
  BY ExercisesAssumption DEF ExercisesAssumption
<1>2. QED
  BY <1>1 DEF T!ProcessTreeAssumption

(* The tree as main links it, with one child per job or with more.          *)
LEMMA Linked ==
    LET kids == T!j_childs
        None(a) == Len(kids[a]) = 0
        One(a, x) == Len(kids[a]) = 1 /\ kids[a][1] = x
        Two(a, x, y) == Len(kids[a]) = 2 /\ kids[a][1] = x /\ kids[a][2] = y
    IN  /\ kids \in [T!Jobs -> Seq(T!Jobs)]
        /\ None("p3") /\ None("p4") /\ None("p5") /\ One("p2", "p5")
        /\ \/ One("root", "p1") /\ One("p1", "p3")
           \/ Two("root", "p1", "p2") /\ Two("p1", "p3", "p4")
<1> DEFINE unlinked == [job \in T!Jobs |-> <<>>]
           one == T!Link(unlinked, "root", "p1")
           two == T!Link(one, "root", "p2")
           three == T!Link(two, "p1", "p3")
           four == T!Link(three, "p1", "p4")
           five == T!Link(four, "p2", "p5")
           Tree == [T!Jobs -> Seq(T!Jobs)]
<1>m. MAX_CHILDS \in Nat \ {0}
  BY TreeConstants
<1>j. T!Jobs = {"root", "p1", "p2", "p3", "p4", "p5"}
  BY DEF T!Jobs
<1>1. ASSUME NEW old \in Tree, NEW job \in T!Jobs, NEW child \in T!Jobs, NEW new,
             new = T!Link(old, job, child)
      PROVE  /\ new \in Tree
             /\ \A other \in T!Jobs : other # job => new[other] = old[other]
             /\ Len(old[job]) = 0 => Len(new[job]) = 1 /\ new[job][1] = child
             /\ Len(old[job]) = 1 /\ MAX_CHILDS = 1 => new[job] = old[job]
             /\ Len(old[job]) = 1 /\ MAX_CHILDS > 1 =>
                    Len(new[job]) = 2 /\ new[job][1] = old[job][1] /\ new[job][2] = child
  <2>1. /\ old[job] \in Seq(T!Jobs) /\ Append(old[job], child) \in Seq(T!Jobs)
        /\ Len(Append(old[job], child)) = Len(old[job]) + 1
        /\ Append(old[job], child)[Len(old[job]) + 1] = child
        /\ \A i \in 1..Len(old[job]) : Append(old[job], child)[i] = old[job][i]
    OBVIOUS
  <2>2. CASE Len(old[job]) < MAX_CHILDS
    <3>1. new = [old EXCEPT ![job] = Append(old[job], child)]
      BY <1>1, <2>2 DEF T!Link
    <3>2. new[job] = Append(old[job], child) /\ new \in Tree
          /\ \A other \in T!Jobs : other # job => new[other] = old[other]
      BY <2>1, <3>1
    <3>3. Len(old[job]) = 0 => Len(new[job]) = 1 /\ new[job][1] = child
      <4>1. Len(Append(old[job], child)) = Len(old[job]) + 1
            /\ Append(old[job], child)[Len(old[job]) + 1] = child
        BY <2>1
      <4>2. QED
        BY <3>2, <4>1
    <3>4. Len(old[job]) = 1 =>
              Len(new[job]) = 2 /\ new[job][1] = old[job][1] /\ new[job][2] = child
      <4>1. Len(old[job]) = 1 => Append(old[job], child)[1] = old[job][1]
        BY <2>1
      <4>2. Len(Append(old[job], child)) = Len(old[job]) + 1
            /\ Append(old[job], child)[Len(old[job]) + 1] = child
        BY <2>1
      <4>3. QED
        BY <3>2, <4>1, <4>2
    <3>5. ~(Len(old[job]) = 1 /\ MAX_CHILDS = 1)
      <4>1. ASSUME Len(old[job]) = 1, MAX_CHILDS = 1 PROVE 1 < 1
        BY <2>2, <4>1, Zenon
      <4>2. ~(1 < 1)
        OBVIOUS
      <4>3. QED
        BY <4>1, <4>2, Zenon
    <3>6. QED
      BY <3>2, <3>3, <3>4, <3>5
  <2>3. CASE ~(Len(old[job]) < MAX_CHILDS)
    BY <1>1, <1>m, <2>3 DEF T!Link
  <2>4. QED
    BY <2>2, <2>3
<1>2. \A other \in T!Jobs : Len(unlinked[other]) = 0
  OBVIOUS
<1>3. unlinked \in Tree
  OBVIOUS
<1> HIDE DEF unlinked, Tree
<1>4. /\ one \in Tree /\ Len(one["root"]) = 1 /\ one["root"][1] = "p1"
      /\ \A other \in T!Jobs : other # "root" => Len(one[other]) = 0
  <2>1. "root" \in T!Jobs /\ "p1" \in T!Jobs /\ Len(unlinked["root"]) = 0
    BY <1>2, <1>j
  <2>2. /\ one \in Tree /\ Len(one["root"]) = 1 /\ one["root"][1] = "p1"
        /\ \A other \in T!Jobs : other # "root" => one[other] = unlinked[other]
    BY <1>1, <1>3, <2>1
  <2>3. QED
    BY <1>2, <2>2
<1> HIDE DEF one
<1>5. /\ two \in Tree /\ two["root"][1] = "p1"
      /\ MAX_CHILDS = 1 => Len(two["root"]) = 1
      /\ MAX_CHILDS > 1 => Len(two["root"]) = 2 /\ two["root"][2] = "p2"
      /\ \A other \in T!Jobs : other # "root" => Len(two[other]) = 0
  <2>1. \A other \in T!Jobs : other # "root" => two[other] = one[other]
    BY <1>1, <1>4, <1>j
  <2>0. "root" \in T!Jobs /\ "p2" \in T!Jobs
    BY <1>j
  <2>2. CASE MAX_CHILDS = 1
    <3>1. two \in Tree /\ two["root"] = one["root"]
      BY <1>1, <1>4, <2>0, <2>2
    <3>2. QED
      BY <1>4, <2>1, <2>2, <3>1
  <2>3. CASE MAX_CHILDS > 1
    <3>1. two \in Tree /\ two["root"][1] = "p1" /\ Len(two["root"]) = 2 /\ two["root"][2] = "p2"
      BY <1>1, <1>4, <2>0, <2>3
    <3>2. QED
      BY <1>4, <2>1, <2>3, <3>1
  <2>4. QED
    BY <1>m, <2>2, <2>3
<1> HIDE DEF two
<1>6. /\ three \in Tree /\ Len(three["p1"]) = 1 /\ three["p1"][1] = "p3"
      /\ \A other \in T!Jobs : other # "p1" => three[other] = two[other]
  <2>1. "p1" \in T!Jobs /\ "p3" \in T!Jobs /\ "p1" # "root"
    BY <1>j
  <2>2. Len(two["p1"]) = 0
    BY <1>5, <2>1
  <2>3. QED
    BY <1>1, <1>5, <2>1, <2>2
<1> HIDE DEF three
<1>7. /\ four \in Tree /\ four["p1"][1] = "p3"
      /\ MAX_CHILDS = 1 => Len(four["p1"]) = 1
      /\ MAX_CHILDS > 1 => Len(four["p1"]) = 2 /\ four["p1"][2] = "p4"
      /\ \A other \in T!Jobs : other # "p1" => four[other] = two[other]
  <2>0. "p1" \in T!Jobs /\ "p4" \in T!Jobs
    BY <1>j
  <2>1. \A other \in T!Jobs : other # "p1" => four[other] = three[other]
    BY <1>1, <1>6, <2>0
  <2>2. CASE MAX_CHILDS = 1
    <3>1. four \in Tree /\ four["p1"] = three["p1"]
      BY <1>1, <1>6, <2>0, <2>2
    <3>2. QED
      BY <1>6, <2>1, <2>2, <3>1
  <2>3. CASE MAX_CHILDS > 1
    <3>1. four \in Tree /\ four["p1"][1] = "p3" /\ Len(four["p1"]) = 2 /\ four["p1"][2] = "p4"
      BY <1>1, <1>6, <2>0, <2>3
    <3>2. QED
      BY <1>6, <2>1, <2>3, <3>1
  <2>4. QED
    BY <1>m, <2>2, <2>3
<1> HIDE DEF four
<1>8. /\ five \in Tree /\ Len(five["p2"]) = 1 /\ five["p2"][1] = "p5"
      /\ \A other \in T!Jobs : other # "p2" => five[other] = four[other]
  <2>1. "p2" \in T!Jobs /\ "p5" \in T!Jobs /\ "p2" # "p1" /\ "p2" # "root"
    BY <1>j
  <2>2. Len(four["p2"]) = 0
    BY <1>5, <1>7, <2>1
  <2>3. QED
    BY <1>1, <1>7, <2>1, <2>2
<1>9. T!j_childs = five
  BY DEF T!j_childs, five, four, three, two, one, unlinked
<1> HIDE DEF five
<1>10. /\ Len(five["p3"]) = 0 /\ Len(five["p4"]) = 0 /\ Len(five["p5"]) = 0
       /\ five["root"] = two["root"] /\ five["p1"] = four["p1"]
  BY <1>5, <1>7, <1>8, <1>j
<1>11. MAX_CHILDS = 1 \/ MAX_CHILDS > 1
  BY <1>m
<1>12. QED
  BY <1>5, <1>7, <1>8, <1>9, <1>10, <1>11 DEF Tree

(* What the processes rely on: it is a tree of three levels.                *)
LEMMA TreeShape ==
    LET kids == T!j_childs IN
    /\ kids \in [T!Jobs -> Seq(T!Jobs)]
    /\ \A a \in T!Jobs : T!ToSet(kids[a]) = {kids[a][i] : i \in 1..Len(kids[a])}
    /\ \A a \in T!Jobs : \A i \in 1..Len(kids[a]) :
        /\ kids[a][i] \in T!Jobs \ {a, "root"}
        /\ \A b \in T!Jobs : \A m \in 1..Len(kids[b]) :
            kids[a][i] = kids[b][m] => a = b /\ i = m
        /\ \A m \in 1..Len(kids[kids[a][i]]) : Len(kids[kids[kids[a][i]][m]]) = 0
    /\ \E x, y \in T!Jobs : T!ToSet(kids["root"]) = {x, y}
<1> DEFINE kids == T!j_childs
<1>1. kids \in [T!Jobs -> Seq(T!Jobs)]
  BY Linked
<1>j. T!Jobs = {"root", "p1", "p2", "p3", "p4", "p5"}
  BY DEF T!Jobs
<1> HIDE DEF kids
<1>3. \A a \in T!Jobs : T!ToSet(kids[a]) = {kids[a][i] : i \in 1..Len(kids[a])}
  BY <1>1 DEF T!ToSet
<1>4. /\ Len(kids["p3"]) = 0 /\ Len(kids["p4"]) = 0 /\ Len(kids["p5"]) = 0
      /\ Len(kids["p2"]) = 1 /\ kids["p2"][1] = "p5"
      /\ \/ Len(kids["root"]) = 1 /\ kids["root"][1] = "p1" /\ Len(kids["p1"]) = 1 /\ kids["p1"][1] = "p3"
         \/ /\ Len(kids["root"]) = 2 /\ kids["root"][1] = "p1" /\ kids["root"][2] = "p2"
            /\ Len(kids["p1"]) = 2 /\ kids["p1"][1] = "p3" /\ kids["p1"][2] = "p4"
  BY Linked DEF kids
<1>5. \A a \in T!Jobs : \A i \in 1..Len(kids[a]) :
        \/ a = "root" /\ i = 1 /\ kids[a][i] = "p1"
        \/ a = "root" /\ i = 2 /\ kids[a][i] = "p2"
        \/ a = "p1" /\ i = 1 /\ kids[a][i] = "p3"
        \/ a = "p1" /\ i = 2 /\ kids[a][i] = "p4"
        \/ a = "p2" /\ i = 1 /\ kids[a][i] = "p5"
  <2> SUFFICES ASSUME NEW a \in T!Jobs, NEW i \in 1..Len(kids[a])
               PROVE  \/ a = "root" /\ i = 1 /\ kids[a][i] = "p1"
                      \/ a = "root" /\ i = 2 /\ kids[a][i] = "p2"
                      \/ a = "p1" /\ i = 1 /\ kids[a][i] = "p3"
                      \/ a = "p1" /\ i = 2 /\ kids[a][i] = "p4"
                      \/ a = "p2" /\ i = 1 /\ kids[a][i] = "p5"
    OBVIOUS
  <2>1. /\ Len(kids[a]) = 0 => FALSE
        /\ Len(kids[a]) = 1 => i = 1
        /\ Len(kids[a]) = 2 => i = 1 \/ i = 2
    <3>1. Len(kids[a]) \in Nat /\ i \in Nat /\ 1 <= i /\ i <= Len(kids[a])
      BY <1>1
    <3> DEFINE depth == Len(kids[a])
    <3>2. depth \in Nat /\ i \in Nat /\ 1 <= i /\ i <= depth
      BY <3>1
    <3> HIDE DEF depth
    <3>3. (depth = 0 => FALSE) /\ (depth = 1 => i = 1) /\ (depth = 2 => i = 1 \/ i = 2)
      BY <3>2
    <3>4. QED
      BY <3>3 DEF depth
  <2>2. CASE a = "root"
    BY <1>4, <2>1, <2>2
  <2>3. CASE a = "p1"
    BY <1>4, <2>1, <2>3
  <2>4. CASE a \in {"p2", "p3", "p4", "p5"}
    BY <1>4, <2>1, <2>4
  <2>5. QED
    BY <1>j, <2>2, <2>3, <2>4
<1>6. \A a \in T!Jobs : \A i \in 1..Len(kids[a]) :
        /\ kids[a][i] \in T!Jobs \ {a, "root"}
        /\ \A m \in 1..Len(kids[kids[a][i]]) : Len(kids[kids[kids[a][i]][m]]) = 0
  BY <1>4, <1>5, <1>j
<1>7. \A a \in T!Jobs : \A i \in 1..Len(kids[a]) :
        \A b \in T!Jobs : \A m \in 1..Len(kids[b]) : kids[a][i] = kids[b][m] => a = b /\ i = m
  BY <1>5
<1>8. \E x, y \in T!Jobs : T!ToSet(kids["root"]) = {x, y}
  <2>1. CASE Len(kids["root"]) = 1
    <3>1. T!ToSet(kids["root"]) = {"p1", "p1"}
      BY <1>3, <1>4, <1>j, <2>1
    <3>2. QED
      BY <1>j, <3>1
  <2>2. CASE Len(kids["root"]) = 2
    <3>1. T!ToSet(kids["root"]) = {"p1", "p2"}
      BY <1>3, <1>4, <1>j, <2>2
    <3>2. QED
      BY <1>j, <3>1
  <2>3. QED
    BY <1>4, <2>1, <2>2
<1>9. QED
  BY <1>1, <1>3, <1>6, <1>7, <1>8 DEF kids

LEMMA Kids ==
    /\ \A a \in T!Jobs : \A i \in 1..Len(T!j_childs[a]) :
        /\ T!j_childs[a][i] \in T!Jobs /\ T!j_childs[a][i] # "root" /\ T!j_childs[a][i] # a
        /\ T!j_childs[a][i] \in T!ToSet(T!j_childs[a])
    /\ \A a \in T!Jobs : \A c \in T!ToSet(T!j_childs[a]) :
        c \in T!Jobs /\ \E i \in 1..Len(T!j_childs[a]) : c = T!j_childs[a][i]
    /\ \A a, b \in T!Jobs : \A c \in T!ToSet(T!j_childs[a]) :
        c \in T!ToSet(T!j_childs[b]) => a = b
    /\ \A a, b, c \in T!Jobs : b \in T!ToSet(T!j_childs[a]) /\ c \in T!ToSet(T!j_childs[b])
            => Len(T!j_childs[c]) = 0
<1> DEFINE kids == T!j_childs
           Set(a) == T!ToSet(kids[a])
<1>1. \A a \in T!Jobs : Set(a) = {kids[a][i] : i \in 1..Len(kids[a])}
  BY TreeShape
<1>2. \A a \in T!Jobs : \A i \in 1..Len(kids[a]) : kids[a][i] \in T!Jobs \ {a, "root"}
  BY TreeShape
<1>3. \A a \in T!Jobs : \A i \in 1..Len(kids[a]) :
        \A b \in T!Jobs : \A m \in 1..Len(kids[b]) : kids[a][i] = kids[b][m] => a = b
  BY TreeShape
<1>4. \A a \in T!Jobs : \A i \in 1..Len(kids[a]) :
        \A m \in 1..Len(kids[kids[a][i]]) : Len(kids[kids[kids[a][i]][m]]) = 0
  BY TreeShape
<1> HIDE DEF Set, kids
<1>5. \A a \in T!Jobs : \A c \in Set(a) : c \in T!Jobs /\ \E i \in 1..Len(kids[a]) : c = kids[a][i]
  BY <1>1, <1>2
<1>6. \A a \in T!Jobs : \A i \in 1..Len(kids[a]) :
        kids[a][i] \in T!Jobs /\ kids[a][i] # "root" /\ kids[a][i] # a /\ kids[a][i] \in Set(a)
  BY <1>1, <1>2
<1>7. \A a, b \in T!Jobs : \A c \in Set(a) : c \in Set(b) => a = b
  BY <1>3, <1>5
<1>8. ASSUME NEW a \in T!Jobs, NEW b \in T!Jobs, NEW c \in T!Jobs, b \in Set(a), c \in Set(b)
      PROVE  Len(kids[c]) = 0
  <2>1. PICK i \in 1..Len(kids[a]) : b = kids[a][i]
    BY <1>5, <1>8
  <2>2. PICK m \in 1..Len(kids[b]) : c = kids[b][m]
    BY <1>5, <1>8
  <2>3. QED
    BY <1>4, <2>1, <2>2
<1>9. QED
  BY <1>5, <1>6, <1>7, <1>8 DEF Set, kids

(* A call that goes on to its next child, and one that is begun after it.   *)
Onward(calls) == [calls EXCEPT ![Len(calls)] = <<calls[Len(calls)][1], calls[Len(calls)][2] + 1>>]
Deeper(calls, child) == Append(Onward(calls), <<child, 1>>)

LEMMA SameHeads ==
    ASSUME NEW one, NEW other, DOMAIN one = DOMAIN other,
           \A i \in DOMAIN one : one[i][1] = other[i][1]
    PROVE  HeadsOf(one) = HeadsOf(other)
BY DEF HeadsOf

LEMMA OnwardCalls ==
    ASSUME NEW calls \in Seq(T!Jobs \X Nat), calls # <<>>
    PROVE  /\ Len(calls) \in Nat \ {0}
           /\ Onward(calls) \in Seq(T!Jobs \X Nat) /\ Len(Onward(calls)) = Len(calls)
           /\ Onward(calls) # <<>>
           /\ Inner(Onward(calls))[1] = Inner(calls)[1] /\ Inner(Onward(calls))[2] = Inner(calls)[2] + 1
           /\ HeadsOf(Onward(calls)) = HeadsOf(calls)
<1> DEFINE depth == Len(calls)
           next == <<calls[depth][1], calls[depth][2] + 1>>
           advanced == Onward(calls)
<1>1. /\ depth \in Nat \ {0} /\ depth \in DOMAIN calls /\ DOMAIN calls = 1..depth
      /\ calls[depth] \in T!Jobs \X Nat
  OBVIOUS
<1>2. calls[depth][1] \in T!Jobs /\ calls[depth][2] \in Nat
  BY <1>1
<1>3. next \in T!Jobs \X Nat /\ next[1] = calls[depth][1] /\ next[2] = calls[depth][2] + 1
  BY <1>2
<1>4. /\ advanced \in Seq(T!Jobs \X Nat) /\ Len(advanced) = depth
      /\ DOMAIN advanced = 1..depth /\ advanced[depth] = next
      /\ \A i \in 1..depth : i # depth => advanced[i] = calls[i]
  <2>1. advanced = [calls EXCEPT ![depth] = next]
    BY DEF next, Onward
  <2> DEFINE Pairs == T!Jobs \X Nat
  <2>2. calls \in Seq(Pairs) /\ depth = Len(calls) /\ depth \in 1..Len(calls) /\ next \in Pairs
    BY <1>1, <1>3
  <2> HIDE DEF next, advanced, depth, Pairs
  <2>3. advanced \in Seq(Pairs) /\ Len(advanced) = Len(calls)
    BY <2>1, <2>2
  <2>4. advanced[depth] = next /\ \A i \in 1..Len(calls) : i # depth => advanced[i] = calls[i]
    BY <2>1, <2>2
  <2>5. QED
    BY <2>2, <2>3, <2>4 DEF Pairs
<1> HIDE DEF advanced
<1>5. \A i \in 1..depth : advanced[i][1] = calls[i][1]
  BY <1>3, <1>4
<1>6. HeadsOf(advanced) = HeadsOf(calls)
  <2>1. DOMAIN advanced = DOMAIN calls /\ \A i \in DOMAIN advanced : advanced[i][1] = calls[i][1]
    BY <1>1, <1>4, <1>5
  <2>2. QED
    BY <2>1, SameHeads, Zenon
<1>7. advanced # <<>>
  BY <1>1, <1>4
<1>8. Inner(advanced)[1] = Inner(calls)[1] /\ Inner(advanced)[2] = Inner(calls)[2] + 1
  BY <1>3, <1>4 DEF Inner
<1>9. QED
  BY <1>1, <1>4, <1>6, <1>7, <1>8 DEF advanced

LEMMA CallAdded ==
    ASSUME NEW calls \in Seq(T!Jobs \X Nat), NEW call \in T!Jobs \X Nat
    PROVE  /\ Append(calls, call) \in Seq(T!Jobs \X Nat)
           /\ Len(Append(calls, call)) = Len(calls) + 1 /\ Append(calls, call) # <<>>
           /\ Inner(Append(calls, call)) = call
           /\ HeadsOf(Append(calls, call)) = HeadsOf(calls) \cup {call[1]}
<1> DEFINE longer == Append(calls, call)
           Pairs == T!Jobs \X Nat
           depth == Len(calls)
<1>1. calls \in Seq(Pairs) /\ call \in Pairs
  OBVIOUS
<1> HIDE DEF Pairs
<1>2. /\ longer \in Seq(Pairs) /\ Len(longer) = depth + 1 /\ longer[depth + 1] = call
      /\ \A i \in 1..depth : longer[i] = calls[i]
      /\ depth \in Nat /\ DOMAIN calls = 1..depth
  BY <1>1
<1> HIDE DEF longer, depth
<1>3. DOMAIN longer = 1..depth + 1 /\ longer # <<>>
  BY <1>2
<1>4. Inner(longer) = call
  BY <1>2 DEF Inner
<1>5. ASSUME NEW a, a \in HeadsOf(longer) PROVE a \in HeadsOf(calls) \cup {call[1]}
  <2>1. PICK i \in 1..depth + 1 : a = longer[i][1]
    BY <1>3, <1>5 DEF HeadsOf
  <2>2. CASE i = depth + 1
    BY <1>2, <2>1, <2>2
  <2>3. CASE i # depth + 1
    <3>1. i \in 1..depth
      BY <1>2, <2>3
    <3>2. QED
      BY <1>2, <2>1, <3>1 DEF HeadsOf
  <2>4. QED
    BY <2>2, <2>3
<1>6. ASSUME NEW a, a \in HeadsOf(calls) PROVE a \in HeadsOf(longer)
  <2>1. PICK i \in 1..depth : a = calls[i][1]
    BY <1>2, <1>6 DEF HeadsOf
  <2>2. i \in 1..depth + 1 /\ longer[i][1] = a
    BY <1>2, <2>1
  <2>3. QED
    BY <1>3, <2>2 DEF HeadsOf
<1>7. call[1] \in HeadsOf(longer)
  <2>1. depth + 1 \in 1..depth + 1
    BY <1>2
  <2>2. QED
    BY <1>2, <1>3, <2>1 DEF HeadsOf
<1>8. HeadsOf(longer) = HeadsOf(calls) \cup {call[1]}
  BY <1>5, <1>6, <1>7
<1>9. QED
  BY <1>2, <1>3, <1>4, <1>8 DEF longer, depth, Pairs

LEMMA DeeperCalls ==
    ASSUME NEW calls \in Seq(T!Jobs \X Nat), calls # <<>>, NEW child \in T!Jobs
    PROVE  /\ Deeper(calls, child) \in Seq(T!Jobs \X Nat) /\ Len(Deeper(calls, child)) = Len(calls) + 1
           /\ Deeper(calls, child) # <<>>
           /\ Inner(Deeper(calls, child))[1] = child /\ Inner(Deeper(calls, child))[2] = 1
           /\ HeadsOf(Deeper(calls, child)) = HeadsOf(calls) \cup {child}
<1>1. <<child, 1>> \in T!Jobs \X Nat /\ <<child, 1>>[1] = child /\ <<child, 1>>[2] = 1
  OBVIOUS
<1>2. Onward(calls) \in Seq(T!Jobs \X Nat) /\ Len(Onward(calls)) = Len(calls)
      /\ HeadsOf(Onward(calls)) = HeadsOf(calls)
  BY OnwardCalls
<1> DEFINE call == <<child, 1>>
           longer == Deeper(calls, child)
<1>3. call \in T!Jobs \X Nat /\ call[1] = child /\ call[2] = 1 /\ longer = Append(Onward(calls), call)
  BY <1>1 DEF Deeper
<1> HIDE DEF call, longer
<1>4. /\ longer \in Seq(T!Jobs \X Nat) /\ Len(longer) = Len(Onward(calls)) + 1 /\ longer # <<>>
      /\ Inner(longer) = call /\ HeadsOf(longer) = HeadsOf(Onward(calls)) \cup {call[1]}
  BY <1>2, <1>3, CallAdded
<1>5. QED
  BY <1>2, <1>3, <1>4 DEF longer

(* The jobs that are claimed when a fork gives a process, and perhaps one   *)
(* that had none, further calls.                                            *)
LEMMA ClaimedBy ==
    ASSUME TreeTypes, NEW p \in T!Jobs, NEW child \in T!Jobs,
           frames' \in [T!Jobs -> Seq(T!Jobs \X Nat)],
           frames[child] = <<>> \/ child = p,
           HeadsOf(frames[p]) \subseteq HeadsOf(frames'[p]),
           HeadsOf(frames'[p]) \subseteq HeadsOf(frames[p]) \cup {child},
           HeadsOf(frames'[child]) \subseteq HeadsOf(frames[p]) \cup {child},
           child \in HeadsOf(frames'[p]) \cup HeadsOf(frames'[child]),
           \A q \in T!Jobs : q # p /\ q # child => frames'[q] = frames[q]
    PROVE  Claimed' = Claimed \cup {child}
<1>1. HeadsOf(<<>>) = {}
  BY DEF HeadsOf
<1>2. ASSUME NEW a, a \in Claimed' PROVE a \in Claimed \cup {child}
  <2>1. PICK q \in T!Jobs : a \in HeadsOf(frames'[q])
    BY <1>2 DEF Claimed, HeadsOf
  <2>2. CASE q = p \/ q = child
    BY <2>1, <2>2 DEF Claimed
  <2>3. CASE q # p /\ q # child
    BY <2>1, <2>3 DEF Claimed
  <2>4. QED
    BY <2>2, <2>3
<1>3. ASSUME NEW a, a \in Claimed PROVE a \in Claimed'
  <2>1. PICK q \in T!Jobs : a \in HeadsOf(frames[q])
    BY <1>3 DEF Claimed
  <2>2. a \in HeadsOf(frames'[q])
    BY <1>1, <2>1
  <2>3. QED
    BY <2>2 DEF Claimed, HeadsOf
<1>4. child \in Claimed'
  BY DEF Claimed, HeadsOf
<1>5. QED
  BY <1>2, <1>3, <1>4

(* What holds of a process whose turn it is to fork.                        *)
LEMMA AtFork ==
    ASSUME TreeInv, NEW p \in T!Jobs, tree_state[p] = "create", T!HasTurn(p)
    PROVE  LET job == Inner(frames[p])[1]
               child == T!Turn(p) IN
           /\ frames[p] \in Seq(T!Jobs \X Nat) /\ frames[p] # <<>>
           /\ job \in T!Jobs /\ Inner(frames[p])[2] \in 1..Len(T!j_childs[job])
           /\ child = T!j_childs[job][Inner(frames[p])[2]] /\ child \in T!Jobs /\ child # p /\ child # "root"
           /\ child \in T!ToSet(T!j_childs[job]) /\ job \in Claimed /\ p \in Claimed
           /\ child \notin Claimed /\ frames[child] = <<>> /\ tree_state[child] = "none"
           /\ \A i \in 1..Len(T!j_childs[child]) : T!j_childs[child][i] \notin Claimed
           /\ job = p \/ (job \in T!ToSet(T!j_childs[p]) /\ failures > 0)
<1> DEFINE job == Inner(frames[p])[1]
           child == T!Turn(p)
           kids == T!j_childs
<1>1. frames[p] \in Seq(T!Jobs \X Nat) /\ frames[p] # <<>>
  BY DEF TreeInv, TreeTypes, Calls
<1>2. job \in T!Jobs /\ Inner(frames[p])[2] \in Nat /\ job \in HeadsOf(frames[p])
  <2>1. Len(frames[p]) \in DOMAIN frames[p] /\ frames[p][Len(frames[p])] \in T!Jobs \X Nat
    BY <1>1
  <2>2. QED
    BY <2>1 DEF Inner, HeadsOf
<1>3. Inner(frames[p])[2] \in 1..Len(kids[job])
  <2>1. Inner(frames[p])[2] \in 1..Len(kids[job]) + 1 /\ Inner(frames[p])[2] <= Len(kids[job])
    BY <1>1 DEF TreeInv, Calls, T!HasTurn, T!Top, Inner
  <2>2. QED
    BY <2>1
<1>4. /\ child = kids[job][Inner(frames[p])[2]] /\ child \in T!Jobs /\ child # "root"
      /\ child \in T!ToSet(kids[job])
  BY <1>2, <1>3, Kids DEF T!Turn, T!Top, Inner
<1>5. job \in Claimed /\ p \in Claimed
  BY <1>1, <1>2 DEF Claimed, TreeInv, Calls
<1>6. child \notin Claimed
  <2>1. Inner(frames[p])[2] \in Inner(frames[p])[2]..Len(kids[job])
    BY <1>3
  <2>2. QED
    BY <1>4, <2>1 DEF TreeInv, Ahead
<1>7. frames[child] = <<>> /\ tree_state[child] = "none"
  <2>1. child \in HeadsOf(frames[child]) => child \in Claimed
    BY <1>4 DEF Claimed
  <2>2. QED
    BY <1>4, <1>6, <2>1 DEF TreeInv, Calls
<1>8. \A i \in 1..Len(kids[child]) : kids[child][i] \notin Claimed
  <2>1. \A i \in 1..Len(kids[child]) : kids[child][i] \in T!ToSet(kids[child])
    BY <1>4, Kids
  <2>2. T!ToSet(kids[child]) \cap Claimed = {}
    BY <1>4, <1>6 DEF TreeInv, Ahead
  <2>3. QED
    BY <2>1, <2>2
<1>9. job = p \/ (job \in T!ToSet(kids[p]) /\ failures > 0)
  <2>1. \/ job = p
        \/ failures > 0 /\ job \in T!ToSet(kids[p])
        \/ \E k \in T!ToSet(kids[p]) : job \in T!ToSet(kids[k])
    BY <1>1 DEF TreeInv, Calls
  <2>2. ASSUME NEW k \in T!ToSet(kids[p]), job \in T!ToSet(kids[k]) PROVE FALSE
    <3>1. k \in T!Jobs
      BY <2>2, Kids
    <3>2. Len(kids[job]) = 0
      BY <1>2, <2>2, <3>1, Kids
    <3>3. QED
      BY <1>3, <3>2
  <2>3. QED
    BY <2>1, <2>2
<1>10. QED
  BY <1>1, <1>2, <1>3, <1>4, <1>5, <1>6, <1>7, <1>8, <1>9

(* The job of a process's innermost call is claimed.                        *)
LEMMA TopClaimed ==
    ASSUME TreeInv, NEW p \in T!Jobs, frames[p] # <<>>
    PROVE  /\ Inner(frames[p])[1] \in T!Jobs /\ Inner(frames[p])[1] \in Claimed /\ Inner(frames[p])[2] \in Nat
           /\ Len(frames[p]) \in Nat \ {0}
<1>1. frames[p] \in Seq(T!Jobs \X Nat)
  BY DEF TreeInv, TreeTypes
<1>2. /\ Len(frames[p]) \in Nat \ {0} /\ Len(frames[p]) \in DOMAIN frames[p]
      /\ frames[p][Len(frames[p])] \in T!Jobs \X Nat
  BY <1>1
<1>3. Inner(frames[p])[1] \in HeadsOf(frames[p])
  BY <1>2 DEF Inner, HeadsOf
<1>4. QED
  BY <1>2, <1>3 DEF Inner, Claimed

(* Who claims the child of a process's turn may go on with it.              *)
LEMMA AheadKept ==
    ASSUME TreeInv, NEW p \in T!Jobs, tree_state[p] = "create", T!HasTurn(p),
           Claimed' = Claimed \cup {T!Turn(p)}
    PROVE  /\ \A a \in T!Jobs : T!ToSet(T!j_childs[a]) \cap Claimed' # {} => a \in Claimed'
           /\ \A i \in Inner(frames[p])[2] + 1..Len(T!j_childs[Inner(frames[p])[1]]) :
                T!j_childs[Inner(frames[p])[1]][i] \notin Claimed'
           /\ \A i \in 1..Len(T!j_childs[T!Turn(p)]) : T!j_childs[T!Turn(p)][i] \notin Claimed'
           /\ \A q \in T!Jobs : q # p /\ tree_state[q] = "create" =>
                /\ \A i \in Inner(frames[q])[2]..Len(T!j_childs[Inner(frames[q])[1]]) :
                    T!j_childs[Inner(frames[q])[1]][i] \notin Claimed'
                /\ Inner(frames[q])[1] # T!Turn(p) /\ Inner(frames[q])[1] # Inner(frames[p])[1]
<1> DEFINE job == Inner(frames[p])[1]
           child == T!Turn(p)
           turn == Inner(frames[p])[2]
           kids == T!j_childs
<1>1. /\ job \in T!Jobs /\ turn \in 1..Len(kids[job])
      /\ child = kids[job][turn] /\ child \in T!Jobs
      /\ child \in T!ToSet(kids[job]) /\ job \in Claimed /\ child \notin Claimed
      /\ \A i \in 1..Len(kids[child]) : kids[child][i] \notin Claimed
  BY AtFork
<1> HIDE DEF job, child, turn, kids
<1>2. \A a \in T!Jobs : T!ToSet(kids[a]) \cap Claimed # {} => a \in Claimed
  BY DEF TreeInv, Ahead, kids
<1>3. \A a \in T!Jobs : child \in T!ToSet(kids[a]) => a = job
  BY <1>1, Kids DEF kids
<1>4. Claimed' = Claimed \cup {child}
  BY DEF child
<1>5. \A a \in T!Jobs : T!ToSet(kids[a]) \cap Claimed' # {} => a \in Claimed'
  BY <1>1, <1>2, <1>3, <1>4
<1>6. ASSUME NEW i \in turn + 1..Len(kids[job]) PROVE kids[job][i] \notin Claimed'
  <2>1. i \in turn..Len(kids[job]) /\ i \in 1..Len(kids[job]) /\ i # turn
    BY <1>1, <1>6
  <2>2. kids[job][i] \notin Claimed
    BY <2>1 DEF TreeInv, Ahead, kids, job, turn
  <2>3. kids[job][i] = kids[job][turn] => i = turn
    BY <1>1, <2>1, TreeShape DEF kids
  <2>4. QED
    BY <1>1, <1>4, <2>1, <2>2, <2>3
<1>7. ASSUME NEW i \in 1..Len(kids[child]) PROVE kids[child][i] \notin Claimed'
  <2>1. kids[child][i] # child
    BY <1>1, Kids DEF kids
  <2>2. QED
    BY <1>1, <1>4, <2>1
<1>8. ASSUME NEW q \in T!Jobs, q # p, tree_state[q] = "create"
      PROVE  /\ \A i \in Inner(frames[q])[2]..Len(kids[Inner(frames[q])[1]]) : kids[Inner(frames[q])[1]][i] \notin Claimed'
             /\ Inner(frames[q])[1] # child /\ Inner(frames[q])[1] # job
  <2>1. Inner(frames[q])[1] # job
    BY <1>8 DEF TreeInv, Ahead, job
  <2>2. frames[q] # <<>>
    BY <1>8 DEF TreeInv, Calls
  <2>3. Inner(frames[q])[1] \in T!Jobs /\ Inner(frames[q])[1] \in Claimed /\ Inner(frames[q])[2] \in Nat
    BY <2>2, TopClaimed
  <2>4. Inner(frames[q])[2] \in 1..Len(kids[Inner(frames[q])[1]]) + 1
    BY <2>2 DEF TreeInv, Calls, kids
  <2>5. ASSUME NEW i \in Inner(frames[q])[2]..Len(kids[Inner(frames[q])[1]])
        PROVE  kids[Inner(frames[q])[1]][i] \notin Claimed'
    <3>1. kids[Inner(frames[q])[1]][i] \notin Claimed
      BY <1>8 DEF TreeInv, Ahead, kids
    <3>2. i \in 1..Len(kids[Inner(frames[q])[1]])
      BY <2>3, <2>4
    <3>3. kids[Inner(frames[q])[1]][i] \in T!ToSet(kids[Inner(frames[q])[1]])
      BY <2>3, <3>2, Kids DEF kids
    <3>4. kids[Inner(frames[q])[1]][i] # child
      BY <1>3, <2>1, <2>3, <3>3
    <3>5. QED
      BY <1>4, <3>1, <3>4
  <2>6. QED
    BY <1>1, <2>1, <2>3, <2>5
<1>9. QED
  BY <1>5, <1>6, <1>7, <1>8 DEF job, child, turn, kids

(* What a fork does to the calls, whether it fails or not.                  *)
LEMMA ForkedCalls ==
    ASSUME TreeInv, NEW p \in T!Jobs, tree_state[p] = "create", T!HasTurn(p)
    PROVE  LET advanced == Onward(frames[p])
               longer == Deeper(frames[p], T!Turn(p)) IN
           /\ Len(frames[p]) \in Nat \ {0} /\ T!Advanced(p) = advanced
           /\ advanced \in Seq(T!Jobs \X Nat) /\ Len(advanced) = Len(frames[p]) /\ advanced # <<>>
           /\ Inner(advanced)[1] = Inner(frames[p])[1] /\ Inner(advanced)[2] = Inner(frames[p])[2] + 1
           /\ HeadsOf(advanced) = HeadsOf(frames[p])
           /\ longer \in Seq(T!Jobs \X Nat) /\ Len(longer) = Len(frames[p]) + 1 /\ longer # <<>>
           /\ Inner(longer)[1] = T!Turn(p) /\ Inner(longer)[2] = 1
           /\ HeadsOf(longer) = HeadsOf(frames[p]) \cup {T!Turn(p)}
<1>1. T!Advanced(p) = Onward(frames[p])
  BY DEF T!Advanced, Onward
<1>2. frames[p] \in Seq(T!Jobs \X Nat) /\ frames[p] # <<>> /\ T!Turn(p) \in T!Jobs
  BY AtFork
<1>3. /\ Len(frames[p]) \in Nat \ {0}
      /\ Onward(frames[p]) \in Seq(T!Jobs \X Nat) /\ Len(Onward(frames[p])) = Len(frames[p])
      /\ Onward(frames[p]) # <<>> /\ HeadsOf(Onward(frames[p])) = HeadsOf(frames[p])
      /\ Inner(Onward(frames[p]))[1] = Inner(frames[p])[1]
      /\ Inner(Onward(frames[p]))[2] = Inner(frames[p])[2] + 1
  BY <1>2, OnwardCalls
<1>4. ASSUME NEW child \in T!Jobs
      PROVE  /\ Deeper(frames[p], child) \in Seq(T!Jobs \X Nat)
             /\ Len(Deeper(frames[p], child)) = Len(frames[p]) + 1
             /\ Deeper(frames[p], child) # <<>>
             /\ Inner(Deeper(frames[p], child))[1] = child /\ Inner(Deeper(frames[p], child))[2] = 1
             /\ HeadsOf(Deeper(frames[p], child)) = HeadsOf(frames[p]) \cup {child}
  BY <1>2, DeeperCalls
<1>5. QED
  BY <1>1, <1>2, <1>3, <1>4

LEMMA ForkStep == ASSUME TreeInv, NEW p \in T!Jobs, T!Fork(p) PROVE TreeInv'
<1> DEFINE kids == T!j_childs
<1>0. tree_state[p] = "create" /\ T!HasTurn(p)
  BY DEF T!Fork
<1> SUFFICES ASSUME NEW job, job = Inner(frames[p])[1], NEW child, child = T!Turn(p),
                    NEW turn, turn = Inner(frames[p])[2],
                    NEW advanced, advanced = Onward(frames[p]),
                    NEW longer, longer = Deeper(frames[p], child)
             PROVE  TreeInv'
  OBVIOUS
<1>1. /\ frames[p] \in Seq(T!Jobs \X Nat) /\ frames[p] # <<>>
      /\ job \in T!Jobs /\ turn \in 1..Len(kids[job])
      /\ child = kids[job][turn] /\ child \in T!Jobs /\ child # p /\ child # "root"
      /\ child \in T!ToSet(kids[job]) /\ job \in Claimed
      /\ child \notin Claimed /\ frames[child] = <<>> /\ tree_state[child] = "none"
      /\ job = p \/ (job \in T!ToSet(kids[p]) /\ failures > 0)
  BY <1>0, AtFork
<1>2. /\ Len(frames[p]) \in Nat \ {0}
      /\ advanced \in Seq(T!Jobs \X Nat) /\ Len(advanced) = Len(frames[p]) /\ advanced # <<>>
      /\ Inner(advanced)[1] = job /\ Inner(advanced)[2] = turn + 1
      /\ HeadsOf(advanced) = HeadsOf(frames[p])
      /\ longer \in Seq(T!Jobs \X Nat) /\ Len(longer) = Len(frames[p]) + 1 /\ longer # <<>>
      /\ Inner(longer)[1] = child /\ Inner(longer)[2] = 1
      /\ HeadsOf(longer) = HeadsOf(frames[p]) \cup {child}
  BY <1>0, ForkedCalls
<1>3. /\ frames' = [frames EXCEPT ![p] = advanced, ![child] = longer]
      /\ tree_state' = [tree_state EXCEPT ![child] = "create"]
      /\ parent' = [parent EXCEPT ![child] = p]
      /\ UNCHANGED <<waits, reaped, failures>>
  BY <1>0, ForkedCalls DEF T!Fork, Deeper
<1> HIDE DEF kids
<1>4. /\ frames' \in [T!Jobs -> Seq(T!Jobs \X Nat)]
      /\ frames'[p] = advanced /\ frames'[child] = longer
      /\ \A q \in T!Jobs : q # p /\ q # child => frames'[q] = frames[q]
      /\ tree_state'[child] = "create"
      /\ \A q \in T!Jobs : q # child => tree_state'[q] = tree_state[q]
      /\ parent'[child] = p /\ \A q \in T!Jobs : q # child => parent'[q] = parent[q]
  BY <1>1, <1>2, <1>3 DEF TreeInv, TreeTypes
<1>5. /\ Inner(frames'[p])[1] = job /\ Inner(frames'[p])[2] = turn + 1
      /\ Inner(frames'[child])[1] = child /\ Inner(frames'[child])[2] = 1
      /\ \A q \in T!Jobs : q # p /\ q # child => Inner(frames'[q]) = Inner(frames[q])
  BY <1>2, <1>4
<1>6. Claimed' = Claimed \cup {child}
  <2>1. /\ HeadsOf(frames[p]) \subseteq HeadsOf(frames'[p])
        /\ HeadsOf(frames'[p]) \subseteq HeadsOf(frames[p]) \cup {child}
        /\ HeadsOf(frames'[child]) \subseteq HeadsOf(frames[p]) \cup {child}
        /\ child \in HeadsOf(frames'[p]) \cup HeadsOf(frames'[child])
    BY <1>2, <1>4
  <2>2. QED
    BY <1>1, <1>4, <2>1, ClaimedBy, Zenon DEF TreeInv
<1>7. TreeTypes'
  BY <1>1, <1>3, <1>4 DEF TreeInv, TreeTypes
<1>8. Calls'
  <2>1. ASSUME NEW q \in T!Jobs PROVE frames'[q] = <<>> <=> tree_state'[q] = "none"
    <3>1. frames[q] = <<>> <=> tree_state[q] = "none"
      BY DEF TreeInv, Calls
    <3>2. QED
      BY <1>0, <1>1, <1>2, <1>4, <3>1
  <2>2. ASSUME NEW q \in T!Jobs, frames'[q] # <<>>
        PROVE  /\ q \in HeadsOf(frames'[q])
               /\ Inner(frames'[q])[2] \in 1..Len(kids[Inner(frames'[q])[1]]) + 1
               /\ Len(frames'[q]) = 1 => q = "root" /\ Inner(frames'[q])[1] = q
               /\ Inner(frames'[q])[1] # q => failures' > 0
               /\ \/ Inner(frames'[q])[1] = q
                  \/ Inner(frames'[q])[1] \in T!ToSet(kids[q])
                  \/ \E k \in T!ToSet(kids[q]) : Inner(frames'[q])[1] \in T!ToSet(kids[k])
    <3>1. CASE q = child
      <4>1. 1 \in 1..Len(kids[child]) + 1
        <5>1. kids[child] \in Seq(T!Jobs)
          BY <1>1, Linked DEF kids
        <5>2. Len(kids[child]) \in Nat
          BY <5>1
        <5>3. QED
          BY <5>2
      <4>2. Len(longer) # 1
        BY <1>2
      <4>3. QED
        BY <1>1, <1>2, <1>4, <1>5, <3>1, <4>1, <4>2
    <3>2. CASE q = p
      <4>1. /\ p \in HeadsOf(frames[p])
            /\ Len(frames[p]) = 1 => p = "root" /\ job = p
        BY <1>1 DEF TreeInv, Calls
      <4>2. turn + 1 \in 1..Len(kids[job]) + 1
        <5>1. turn \in 1..Len(kids[job])
          BY <1>1
        <5>2. QED
          BY <5>1
      <4>3. QED
        BY <1>1, <1>2, <1>3, <1>4, <1>5, <3>2, <4>1, <4>2
    <3>3. CASE q # child /\ q # p
      <4>1. frames'[q] = frames[q] /\ Inner(frames'[q]) = Inner(frames[q])
        BY <1>4, <1>5, <3>3
      <4>2. QED
        BY <1>3, <2>2, <4>1 DEF TreeInv, Calls, kids
    <3>4. QED
      BY <3>1, <3>2, <3>3
  <2>3. ASSUME NEW q \in T!Jobs, tree_state'[q] \in {"wait", "exited"}
        PROVE  Len(frames'[q]) = 1 /\ Inner(frames'[q])[2] > Len(kids[Inner(frames'[q])[1]])
    <3>1. q # child /\ q # p /\ tree_state'[q] = tree_state[q]
      BY <1>0, <1>1, <1>4, <2>3
    <3>2. frames'[q] = frames[q] /\ Inner(frames'[q]) = Inner(frames[q])
      BY <1>4, <1>5, <3>1
    <3>3. Len(frames[q]) = 1 /\ Inner(frames[q])[2] > Len(kids[Inner(frames[q])[1]])
      BY <2>3, <3>1 DEF TreeInv, Calls, kids
    <3>4. QED
      BY <3>2, <3>3
  <2>4. QED
    BY <2>1, <2>2, <2>3 DEF Calls, kids
<1>9. Ahead'
  <2>1. /\ \A a \in T!Jobs : T!ToSet(kids[a]) \cap Claimed' # {} => a \in Claimed'
        /\ \A i \in turn + 1..Len(kids[job]) : kids[job][i] \notin Claimed'
        /\ \A i \in 1..Len(kids[child]) : kids[child][i] \notin Claimed'
        /\ \A q \in T!Jobs : q # p /\ tree_state[q] = "create" =>
                /\ \A i \in Inner(frames[q])[2]..Len(kids[Inner(frames[q])[1]]) : kids[Inner(frames[q])[1]][i] \notin Claimed'
                /\ Inner(frames[q])[1] # child /\ Inner(frames[q])[1] # job
    BY <1>0, <1>6, AheadKept DEF kids
  <2>2. child # job
    BY <1>1
  <2>3. ASSUME NEW q \in T!Jobs, tree_state'[q] = "create"
        PROVE  \A i \in Inner(frames'[q])[2]..Len(kids[Inner(frames'[q])[1]]) : kids[Inner(frames'[q])[1]][i] \notin Claimed'
    <3>1. CASE q = p
      BY <1>5, <2>1, <3>1
    <3>2. CASE q = child
      BY <1>5, <2>1, <3>2
    <3>3. CASE q # p /\ q # child
      BY <1>4, <1>5, <2>1, <2>3, <3>3
    <3>4. QED
      BY <3>1, <3>2, <3>3
  <2>4. ASSUME NEW q \in T!Jobs, tree_state'[q] = "create",
               NEW o \in T!Jobs, tree_state'[o] = "create", o # q
        PROVE  Inner(frames'[q])[1] # Inner(frames'[o])[1]
    <3>1. CASE q \in {p, child} /\ o \in {p, child}
      BY <1>5, <2>2, <2>4, <3>1
    <3>a. ASSUME NEW n \in T!Jobs, tree_state'[n] = "create", n \notin {p, child}
          PROVE  Inner(frames'[n])[1] # child /\ Inner(frames'[n])[1] # job
      <4>1. tree_state[n] = "create" /\ Inner(frames'[n]) = Inner(frames[n]) /\ n # p
        BY <1>4, <1>5, <3>a
      <4>2. Inner(frames[n])[1] # child /\ Inner(frames[n])[1] # job
        BY <2>1, <4>1
      <4>3. QED
        BY <4>1, <4>2
    <3>b. ASSUME NEW n \in {p, child} PROVE Inner(frames'[n])[1] \in {child, job}
      BY <1>5
    <3>2. CASE q \notin {p, child} /\ o \in {p, child}
      BY <2>4, <3>2, <3>a, <3>b
    <3>3. CASE q \in {p, child} /\ o \notin {p, child}
      BY <2>4, <3>3, <3>a, <3>b
    <3>4. CASE q \notin {p, child} /\ o \notin {p, child}
      <4>1. /\ tree_state[q] = "create" /\ Inner(frames'[q]) = Inner(frames[q])
            /\ tree_state[o] = "create" /\ Inner(frames'[o]) = Inner(frames[o])
        BY <1>4, <1>5, <2>4, <3>4
      <4>2. Inner(frames[o])[1] # Inner(frames[q])[1]
        BY <2>4, <4>1 DEF TreeInv, Ahead
      <4>3. QED
        BY <4>1, <4>2
    <3>5. QED
      BY <3>1, <3>2, <3>3, <3>4
  <2>5. QED
    BY <2>1, <2>3, <2>4 DEF Ahead, kids
<1>10. Family'
  <2>1. ASSUME NEW c \in T!Jobs, parent'[c] # "none"
        PROVE  \/ c \in T!ToSet(kids[parent'[c]])
               \/ failures' > 0 /\ \E a \in T!ToSet(kids[parent'[c]]) : c \in T!ToSet(kids[a])
    <3>1. CASE c = child
      BY <1>1, <1>3, <1>4, <3>1
    <3>2. CASE c # child
      BY <1>3, <1>4, <2>1, <3>2 DEF TreeInv, Family, kids
    <3>3. QED
      BY <3>1, <3>2
  <2>2. ASSUME Len(frames'["root"]) = 1
        PROVE  /\ \A i \in 1..Inner(frames'["root"])[2] - 1 : parent'[kids["root"][i]] = "root"
               /\ \A c \in T!Jobs : parent'[c] = "root" => c \in T!ToSet(kids["root"])
    <3>0. "root" \in T!Jobs
      BY DEF T!Jobs
    <3>1. Len(frames["root"]) = 1
      <4>1. "root" # child
        BY <1>1
      <4>2. Len(frames'["root"]) = Len(frames["root"])
        BY <1>2, <1>4, <3>0, <4>1
      <4>3. QED
        BY <2>2, <4>2
    <3>2. frames["root"] # <<>>
      <4>1. ASSUME frames["root"] = <<>> PROVE Len(frames["root"]) = 0
        BY <4>1
      <4>2. QED
        BY <3>1, <4>1
    <3>3. /\ \A i \in 1..Inner(frames["root"])[2] - 1 : parent[kids["root"][i]] = "root"
          /\ \A c \in T!Jobs : parent[c] = "root" => c \in T!ToSet(kids["root"])
      BY <3>1 DEF TreeInv, Family, kids
    <3>4. Inner(frames["root"])[1] = "root" /\ Inner(frames["root"])[2] \in 1..Len(kids["root"]) + 1
      BY <3>0, <3>1, <3>2 DEF TreeInv, Calls, kids
    <3>5. CASE p = "root"
      <4>1. job = "root" /\ Inner(frames'["root"])[2] = turn + 1 /\ Inner(frames["root"])[2] = turn
        BY <1>5, <3>4, <3>5
      <4>2. ASSUME NEW i \in 1..turn PROVE parent'[kids["root"][i]] = "root"
        <5>1. i \in 1..Len(kids["root"]) /\ kids["root"][i] \in T!Jobs
          BY <1>1, <3>0, <4>1, Kids DEF kids
        <5>2. CASE i = turn
          BY <1>1, <1>4, <3>5, <4>1, <5>2
        <5>3. CASE i # turn
          <6>1. i \in 1..Inner(frames["root"])[2] - 1
            BY <1>1, <4>1, <5>3
          <6>2. parent[kids["root"][i]] = "root"
            BY <3>3, <6>1
          <6>3. QED
            BY <1>4, <3>5, <5>1, <6>2
        <5>4. QED
          BY <5>2, <5>3
      <4>3. ASSUME NEW c \in T!Jobs, parent'[c] = "root" PROVE c \in T!ToSet(kids["root"])
        BY <1>1, <1>4, <3>3, <4>1, <4>3
      <4>4. Inner(frames'["root"])[2] - 1 = turn
        BY <1>1, <4>1
      <4>5. QED
        BY <4>2, <4>3, <4>4, Zenon
    <3>6. CASE p # "root"
      <4>1. Inner(frames'["root"]) = Inner(frames["root"])
        BY <1>1, <1>5, <3>0, <3>6
      <4>2. child \notin T!ToSet(kids["root"])
        <5>1. child \in T!ToSet(kids["root"]) => job = "root"
          BY <1>1, <3>0, Kids DEF kids
        <5>2. "root" \notin T!ToSet(kids[p])
          <6>1. \A i \in 1..Len(kids[p]) : kids[p][i] # "root"
            BY Kids DEF kids
          <6>2. QED
            BY <6>1, Kids DEF kids
        <5>3. QED
          BY <1>1, <3>6, <5>1, <5>2
      <4>3. ASSUME NEW i \in 1..Inner(frames["root"])[2] - 1 PROVE parent'[kids["root"][i]] = "root"
        <5>1. i \in 1..Len(kids["root"])
          BY <3>4
        <5>2. kids["root"][i] \in T!Jobs /\ kids["root"][i] # child
          BY <3>0, <4>2, <5>1, Kids DEF kids
        <5>3. QED
          BY <1>4, <3>3, <5>2
      <4>4. QED
        BY <1>4, <3>3, <3>6, <4>1, <4>3
    <3>7. QED
      BY <3>5, <3>6
  <2>3. QED
    <3>1. \A c \in T!Jobs : parent'[c] # "none" =>
            \/ c \in T!ToSet(kids[parent'[c]])
            \/ failures' > 0 /\ \E a \in T!ToSet(kids[parent'[c]]) : c \in T!ToSet(kids[a])
      BY <2>1
    <3>2. QED
      BY <2>2, <3>1 DEF Family, kids
<1>11. Waiting'
  <2>1. tree_state'["root"] = tree_state["root"]
    BY <1>1, <1>4 DEF T!Jobs
  <2>2. QED
    BY <1>3, <2>1 DEF TreeInv, Waiting
<1>12. QED
  BY <1>7, <1>8, <1>9, <1>10, <1>11 DEF TreeInv

LEMMA ForkFailsStep == ASSUME TreeInv, NEW p \in T!Jobs, T!ForkFails(p) PROVE TreeInv'
<1> DEFINE kids == T!j_childs
<1>0. tree_state[p] = "create" /\ T!HasTurn(p)
  BY DEF T!ForkFails
<1> SUFFICES ASSUME NEW job, job = Inner(frames[p])[1], NEW child, child = T!Turn(p),
                    NEW longer, longer = Deeper(frames[p], child)
             PROVE  TreeInv'
  OBVIOUS
<1>1. /\ frames[p] \in Seq(T!Jobs \X Nat) /\ frames[p] # <<>>
      /\ job \in T!Jobs /\ child \in T!Jobs /\ child # p /\ child # "root"
      /\ child \in T!ToSet(kids[job])
      /\ child \notin Claimed /\ frames[child] = <<>> /\ tree_state[child] = "none"
      /\ job = p \/ (job \in T!ToSet(kids[p]) /\ failures > 0)
  BY <1>0, AtFork
<1>2. /\ Len(frames[p]) \in Nat \ {0}
      /\ longer \in Seq(T!Jobs \X Nat) /\ Len(longer) = Len(frames[p]) + 1 /\ longer # <<>>
      /\ Inner(longer)[1] = child /\ Inner(longer)[2] = 1
      /\ HeadsOf(longer) = HeadsOf(frames[p]) \cup {child}
  BY <1>0, ForkedCalls
<1>3. /\ frames' = [frames EXCEPT ![p] = longer]
      /\ failures < MaxFailures /\ failures' = failures + 1
      /\ UNCHANGED <<tree_state, parent, waits, reaped>>
  BY <1>0, ForkedCalls DEF T!ForkFails, Deeper
<1> HIDE DEF kids
<1>4. /\ frames' \in [T!Jobs -> Seq(T!Jobs \X Nat)]
      /\ frames'[p] = longer /\ \A q \in T!Jobs : q # p => frames'[q] = frames[q]
      /\ failures' \in 0..MaxFailures /\ failures' > 0
      /\ tree_state' = tree_state /\ parent' = parent /\ waits' = waits /\ reaped' = reaped
  BY <1>1, <1>2, <1>3, TreeConstants DEF TreeInv, TreeTypes
<1>5. /\ Inner(frames'[p])[1] = child /\ Inner(frames'[p])[2] = 1
      /\ \A q \in T!Jobs : q # p => Inner(frames'[q]) = Inner(frames[q])
  BY <1>2, <1>4
<1>6. Claimed' = Claimed \cup {child}
  <2>1. /\ HeadsOf(frames[p]) \subseteq HeadsOf(frames'[p])
        /\ HeadsOf(frames'[p]) \subseteq HeadsOf(frames[p]) \cup {child}
        /\ child \in HeadsOf(frames'[p]) \cup HeadsOf(frames'[child])
    BY <1>2, <1>4
  <2>2. HeadsOf(frames'[child]) \subseteq HeadsOf(frames[p]) \cup {child}
    <3>1. frames'[child] = <<>>
      BY <1>1, <1>4
    <3>2. HeadsOf(<<>>) = {}
      BY DEF HeadsOf
    <3>3. QED
      BY <3>1, <3>2
  <2>3. \A q \in T!Jobs : q # p /\ q # child => frames'[q] = frames[q]
    BY <1>4
  <2>4. QED
    BY <1>1, <1>4, <2>1, <2>2, <2>3, ClaimedBy, Zenon DEF TreeInv
<1>7. TreeTypes'
  BY <1>4 DEF TreeInv, TreeTypes
<1>8. Calls'
  <2>1. ASSUME NEW q \in T!Jobs PROVE frames'[q] = <<>> <=> tree_state'[q] = "none"
    <3>1. frames[q] = <<>> <=> tree_state[q] = "none"
      BY DEF TreeInv, Calls
    <3>2. QED
      BY <1>0, <1>2, <1>4, <3>1
  <2>2. ASSUME NEW q \in T!Jobs, frames'[q] # <<>>
        PROVE  /\ q \in HeadsOf(frames'[q])
               /\ Inner(frames'[q])[2] \in 1..Len(kids[Inner(frames'[q])[1]]) + 1
               /\ Len(frames'[q]) = 1 => q = "root" /\ Inner(frames'[q])[1] = q
               /\ Inner(frames'[q])[1] # q => failures' > 0
               /\ \/ Inner(frames'[q])[1] = q
                  \/ Inner(frames'[q])[1] \in T!ToSet(kids[q])
                  \/ \E k \in T!ToSet(kids[q]) : Inner(frames'[q])[1] \in T!ToSet(kids[k])
    <3>1. CASE q = p
      <4>1. 1 \in 1..Len(kids[child]) + 1
        <5>1. kids[child] \in Seq(T!Jobs)
          BY <1>1, Linked DEF kids
        <5>2. Len(kids[child]) \in Nat
          BY <5>1
        <5>3. QED
          BY <5>2
      <4>2. Len(longer) # 1 /\ p \in HeadsOf(longer)
        BY <1>1, <1>2 DEF TreeInv, Calls
      <4>3. child \in T!ToSet(kids[p]) \/ \E k \in T!ToSet(kids[p]) : child \in T!ToSet(kids[k])
        BY <1>1
      <4>4. QED
        BY <1>4, <1>5, <3>1, <4>1, <4>2, <4>3
    <3>2. CASE q # p
      <4>1. frames'[q] = frames[q] /\ Inner(frames'[q]) = Inner(frames[q])
        BY <1>4, <1>5, <3>2
      <4>2. QED
        BY <1>4, <2>2, <4>1 DEF TreeInv, Calls, kids
    <3>3. QED
      BY <3>1, <3>2
  <2>3. ASSUME NEW q \in T!Jobs, tree_state'[q] \in {"wait", "exited"}
        PROVE  Len(frames'[q]) = 1 /\ Inner(frames'[q])[2] > Len(kids[Inner(frames'[q])[1]])
    <3>1. q # p /\ tree_state'[q] = tree_state[q]
      BY <1>0, <1>4, <2>3
    <3>2. frames'[q] = frames[q] /\ Inner(frames'[q]) = Inner(frames[q])
      BY <1>4, <1>5, <3>1
    <3>3. Len(frames[q]) = 1 /\ Inner(frames[q])[2] > Len(kids[Inner(frames[q])[1]])
      BY <2>3, <3>1 DEF TreeInv, Calls, kids
    <3>4. QED
      BY <3>2, <3>3
  <2>4. QED
    BY <2>1, <2>2, <2>3 DEF Calls, kids
<1>9. Ahead'
  <2>1. /\ \A a \in T!Jobs : T!ToSet(kids[a]) \cap Claimed' # {} => a \in Claimed'
        /\ \A i \in 1..Len(kids[child]) : kids[child][i] \notin Claimed'
        /\ \A q \in T!Jobs : q # p /\ tree_state[q] = "create" =>
                /\ \A i \in Inner(frames[q])[2]..Len(kids[Inner(frames[q])[1]]) : kids[Inner(frames[q])[1]][i] \notin Claimed'
                /\ Inner(frames[q])[1] # child
    BY <1>0, <1>6, AheadKept DEF kids
  <2>3. ASSUME NEW q \in T!Jobs, tree_state'[q] = "create"
        PROVE  \A i \in Inner(frames'[q])[2]..Len(kids[Inner(frames'[q])[1]]) : kids[Inner(frames'[q])[1]][i] \notin Claimed'
    <3>1. CASE q = p
      BY <1>5, <2>1, <3>1
    <3>2. CASE q # p
      BY <1>4, <1>5, <2>1, <2>3, <3>2
    <3>3. QED
      BY <3>1, <3>2
  <2>4. ASSUME NEW q \in T!Jobs, tree_state'[q] = "create",
               NEW o \in T!Jobs, tree_state'[o] = "create", o # q
        PROVE  Inner(frames'[q])[1] # Inner(frames'[o])[1]
    <3>a. ASSUME NEW n \in T!Jobs, tree_state'[n] = "create", n # p
          PROVE  Inner(frames'[n])[1] # child
      <4>1. tree_state[n] = "create" /\ Inner(frames'[n]) = Inner(frames[n])
        BY <1>4, <1>5, <3>a
      <4>2. QED
        BY <2>1, <3>a, <4>1
    <3>1. CASE q = p
      BY <1>5, <2>4, <3>1, <3>a
    <3>2. CASE o = p
      BY <1>5, <2>4, <3>2, <3>a
    <3>3. CASE q # p /\ o # p
      <4>1. /\ tree_state[q] = "create" /\ Inner(frames'[q]) = Inner(frames[q])
            /\ tree_state[o] = "create" /\ Inner(frames'[o]) = Inner(frames[o])
        BY <1>4, <1>5, <2>4, <3>3
      <4>2. Inner(frames[o])[1] # Inner(frames[q])[1]
        BY <2>4, <4>1 DEF TreeInv, Ahead
      <4>3. QED
        BY <4>1, <4>2
    <3>4. QED
      BY <3>1, <3>2, <3>3
  <2>5. QED
    BY <2>1, <2>3, <2>4 DEF Ahead, kids
<1>10. Family'
  <2>1. Len(frames'["root"]) = 1 => frames'["root"] = frames["root"]
    <3>1. "root" \in T!Jobs
      BY DEF T!Jobs
    <3>2. Len(longer) # 1
      BY <1>2
    <3>3. QED
      BY <1>4, <3>1, <3>2
  <2>2. \A c \in T!Jobs : parent[c] # "none" =>
            \/ c \in T!ToSet(kids[parent[c]])
            \/ failures' > 0 /\ \E a \in T!ToSet(kids[parent[c]]) : c \in T!ToSet(kids[a])
    BY <1>4 DEF TreeInv, Family, kids
  <2>3. Len(frames["root"]) = 1 =>
            /\ \A i \in 1..Inner(frames["root"])[2] - 1 : parent[kids["root"][i]] = "root"
            /\ \A c \in T!Jobs : parent[c] = "root" => c \in T!ToSet(kids["root"])
    BY DEF TreeInv, Family, kids
  <2>4. Len(frames'["root"]) = 1 =>
            /\ \A i \in 1..Inner(frames'["root"])[2] - 1 : parent[kids["root"][i]] = "root"
            /\ \A c \in T!Jobs : parent[c] = "root" => c \in T!ToSet(kids["root"])
    BY <2>1, <2>3
  <2>5. QED
    BY <1>4, <2>2, <2>4 DEF Family, kids
<1>11. Waiting'
  BY <1>4 DEF TreeInv, Waiting
<1>12. QED
  BY <1>7, <1>8, <1>9, <1>10, <1>11 DEF TreeInv

(* A process that has left create_jobs and goes on to its end.              *)
LEMMA StateStep ==
    ASSUME TreeInv, NEW p \in T!Jobs, NEW s \in {"sleep", "killed", "wait", "exited"},
           tree_state[p] # "none", tree_state' = [tree_state EXCEPT ![p] = s],
           UNCHANGED <<frames, parent, waits, reaped, failures>>,
           s \in {"wait", "exited"} =>
               Len(frames[p]) = 1 /\ Inner(frames[p])[2] > Len(T!j_childs[Inner(frames[p])[1]]),
           s \notin {"wait", "exited"} => tree_state[p] \notin {"wait", "exited"},
           s = "wait" => tree_state[p] = "create",
           s = "exited" => waits = 2
    PROVE  TreeInv'
<1>1. /\ tree_state'[p] = s /\ \A q \in T!Jobs : q # p => tree_state'[q] = tree_state[q]
      /\ tree_state' \in [T!Jobs -> {"none", "create", "sleep", "killed", "wait", "exited"}]
  BY DEF TreeInv, TreeTypes
<1>2. \A q \in T!Jobs : /\ tree_state'[q] = "none" <=> tree_state[q] = "none"
                        /\ tree_state'[q] = "create" => tree_state[q] = "create"
  BY <1>1
<1>3. Claimed' = Claimed
  BY DEF Claimed
<1>4. TreeTypes'
  BY <1>1 DEF TreeInv, TreeTypes
<1>5. Calls'
  BY <1>1, <1>2 DEF TreeInv, Calls
<1>6. Ahead'
  BY <1>2, <1>3 DEF TreeInv, Ahead
<1>7. Family'
  BY DEF TreeInv, Family
<1>8. Waiting'
  BY <1>1 DEF TreeInv, Waiting, T!Jobs
<1>9. QED
  BY <1>4, <1>5, <1>6, <1>7, <1>8 DEF TreeInv

LEMMA WaitStep == ASSUME TreeInv, NEW p \in T!Jobs, T!Wait(p) PROVE TreeInv'
<1> DEFINE kids == T!j_childs
           Own == T!ToSet(kids["root"])
           children == {c \in T!Jobs \ reaped : parent[c] = p}
<1>0. "root" \in T!Jobs
  BY DEF T!Jobs
<1>1. /\ tree_state[p] = "wait" /\ waits < 2 /\ waits' = waits + 1
      /\ children = {} => reaped' = reaped
      /\ children # {} => \E c \in children : reaped' = reaped \cup {c}
      /\ UNCHANGED <<frames, tree_state, parent, failures>>
  BY DEF T!Wait
<1> HIDE DEF kids
<1>2. /\ p = "root" /\ Len(frames["root"]) = 1
      /\ Inner(frames["root"])[1] = "root" /\ Inner(frames["root"])[2] > Len(kids["root"])
      /\ Inner(frames["root"])[2] \in 1..Len(kids["root"]) + 1
  <2>1. Len(frames[p]) = 1 /\ Inner(frames[p])[2] > Len(kids[Inner(frames[p])[1]])
    BY <1>1 DEF TreeInv, Calls, kids
  <2>2. frames[p] # <<>>
    BY <1>1 DEF TreeInv, Calls
  <2>3. /\ p = "root" /\ Inner(frames[p])[1] = p
        /\ Inner(frames[p])[2] \in 1..Len(kids[Inner(frames[p])[1]]) + 1
    BY <2>1, <2>2 DEF TreeInv, Calls, kids
  <2>4. QED
    BY <2>1, <2>3
<1>3. children = Own \ reaped
  <2>1. ASSUME NEW c \in Own PROVE c \in T!Jobs /\ parent[c] = "root"
    <3>1. PICK i \in 1..Len(kids["root"]) : c = kids["root"][i]
      BY <1>0, Kids DEF kids
    <3>2. i \in 1..Inner(frames["root"])[2] - 1
      BY <1>2
    <3>3. parent[kids["root"][i]] = "root"
      BY <1>2, <3>2 DEF TreeInv, Family, kids
    <3>4. QED
      BY <1>0, <3>1, <3>3, Kids DEF kids
  <2>2. \A c \in T!Jobs : parent[c] = "root" => c \in Own
    BY <1>2 DEF TreeInv, Family, kids
  <2>3. QED
    BY <1>2, <2>1, <2>2
<1>4. PICK x, y \in T!Jobs : Own = {x, y}
  BY TreeShape DEF kids
<1>5. /\ waits \in {0, 1} /\ reaped \subseteq Own /\ reaped \subseteq T!Jobs
      /\ waits = 1 => reaped # {}
  BY <1>1 DEF TreeInv, TreeTypes, Waiting, kids
<1> HIDE DEF children, Own
<1>6. /\ reaped' \subseteq Own /\ reaped' # {} /\ reaped' \subseteq T!Jobs
      /\ waits = 1 => reaped' = Own
  <2>1. CASE children = {}
    BY <1>1, <1>3, <1>4, <1>5, <2>1
  <2>2. CASE children # {}
    BY <1>1, <1>3, <1>4, <1>5, <2>2
  <2>3. QED
    BY <2>1, <2>2
<1>7. waits' \in {1, 2} /\ (waits' = 2 => waits = 1)
  BY <1>1, <1>5
<1>8. TreeTypes'
  BY <1>1, <1>6, <1>7 DEF TreeInv, TreeTypes
<1>9. Calls'
  BY <1>1 DEF TreeInv, Calls
<1>10. Ahead'
  <2>1. Claimed' = Claimed
    BY <1>1 DEF Claimed
  <2>2. QED
    BY <1>1, <2>1 DEF TreeInv, Ahead
<1>11. Family'
  BY <1>1 DEF TreeInv, Family
<1>12. Waiting'
  BY <1>1, <1>2, <1>6, <1>7 DEF Waiting, Own, kids
<1>13. QED
  BY <1>8, <1>9, <1>10, <1>11, <1>12 DEF TreeInv

LEMMA TreeStep == ASSUME TreeInv, [T!Next]_treeVars PROVE TreeInv'
<1>1. ASSUME NEW p \in T!Jobs, T!Finish(p) PROVE TreeInv'
  <2>1. /\ tree_state[p] = "create" /\ ~(Inner(frames[p])[2] <= Len(T!j_childs[Inner(frames[p])[1]]))
        /\ tree_state' = [tree_state EXCEPT ![p] = IF Len(frames[p]) = 1 THEN "wait" ELSE "sleep"]
        /\ UNCHANGED <<frames, parent, waits, reaped, failures>>
    BY <1>1 DEF T!Finish, T!HasTurn, T!Top, Inner
  <2>2. Inner(frames[p])[2] > Len(T!j_childs[Inner(frames[p])[1]])
    <3>1. frames[p] # <<>>
      BY <2>1 DEF TreeInv, Calls
    <3>2. Inner(frames[p])[1] \in T!Jobs /\ Inner(frames[p])[2] \in Nat
      BY <3>1, TopClaimed
    <3>3. T!j_childs[Inner(frames[p])[1]] \in Seq(T!Jobs)
      BY <3>2, Linked
    <3>4. Len(T!j_childs[Inner(frames[p])[1]]) \in Nat
      BY <3>3
    <3>5. QED
      BY <2>1, <3>2, <3>4
  <2>3. CASE Len(frames[p]) = 1
    <3>1. tree_state' = [tree_state EXCEPT ![p] = "wait"]
      BY <2>1, <2>3
    <3>2. QED
      BY <2>1, <2>2, <2>3, <3>1, StateStep
  <2>4. CASE Len(frames[p]) # 1
    <3>1. tree_state' = [tree_state EXCEPT ![p] = "sleep"]
      BY <2>1, <2>4
    <3>2. QED
      BY <2>1, <3>1, StateStep
  <2>5. QED
    BY <2>3, <2>4
<1>2. ASSUME NEW p \in T!Jobs, T!Kill(p) PROVE TreeInv'
  BY <1>2, StateStep DEF T!Kill
<1>3. ASSUME NEW p \in T!Jobs, T!Exit(p) PROVE TreeInv'
  <2>1. /\ tree_state[p] = "wait" /\ waits = 2
        /\ tree_state' = [tree_state EXCEPT ![p] = "exited"]
        /\ UNCHANGED <<frames, parent, waits, reaped, failures>>
    BY <1>3 DEF T!Exit
  <2>2. Len(frames[p]) = 1 /\ Inner(frames[p])[2] > Len(T!j_childs[Inner(frames[p])[1]])
    BY <2>1 DEF TreeInv, Calls
  <2>3. QED
    BY <2>1, <2>2, StateStep
<1>4. CASE UNCHANGED treeVars
  <2>1. /\ frames' = frames /\ tree_state' = tree_state /\ parent' = parent
        /\ waits' = waits /\ reaped' = reaped /\ failures' = failures
    BY <1>4 DEF treeVars
  <2>2. Claimed' = Claimed
    BY <2>1 DEF Claimed
  <2>3. TreeTypes' /\ Calls'
    BY <2>1 DEF TreeInv, TreeTypes, Calls
  <2>4. Ahead'
    BY <2>1, <2>2 DEF TreeInv, Ahead
  <2>5. Family' /\ Waiting'
    BY <2>1 DEF TreeInv, Family, Waiting
  <2>6. QED
    BY <2>3, <2>4, <2>5 DEF TreeInv
<1>5. QED
  BY <1>1, <1>2, <1>3, <1>4, ForkStep, ForkFailsStep, WaitStep DEF T!Next, treeVars, T!vars

LEMMA TreeJobs == ASSUME TreeInv PROVE T!OneProcessPerJob /\ T!TypeOK
<1>1. \A p \in T!Jobs : tree_state[p] = "create" /\ T!HasTurn(p) => tree_state[T!Turn(p)] = "none"
  BY AtFork
<1>2. \A p \in T!Jobs : tree_state[p] \in {"wait", "exited"} => p = "root"
  <2> SUFFICES ASSUME NEW p \in T!Jobs, tree_state[p] \in {"wait", "exited"} PROVE p = "root"
    OBVIOUS
  <2>1. Len(frames[p]) = 1 /\ frames[p] # <<>>
    BY DEF TreeInv, Calls
  <2>2. QED
    BY <2>1 DEF TreeInv, Calls
<1>3. \A c \in T!Jobs : parent[c] # "none" =>
        \/ c \in T!ToSet(T!j_childs[parent[c]])
        \/ failures > 0 /\ \E a \in T!ToSet(T!j_childs[parent[c]]) : c \in T!ToSet(T!j_childs[a])
  BY DEF TreeInv, Family
<1>4. tree_state["root"] = "exited" => reaped = T!ToSet(T!j_childs["root"])
  BY DEF TreeInv, Waiting
<1>5. T!TypeOK
  BY DEF TreeInv, TreeTypes, T!TypeOK
<1>6. QED
  BY <1>1, <1>2, <1>3, <1>4, <1>5 DEF T!OneProcessPerJob

-----------------------------------------------------------------------------
(* The exercises *)

LEMMA CountersInit == ASSUME C!Init PROVE CountersInv
<1>1. /\ j = [t \in CounterThreads |-> 0] /\ m1 = Nobody /\ global = 0
      /\ printed = [t \in CounterThreads |-> 0]
      /\ register = [t \in CounterThreads |-> 0]
      /\ counters_pc = [t \in CounterThreads |-> "loop"] /\ locked \in BOOLEAN
  BY DEF C!Init
<1>2. CounterTypes
  BY <1>1, CountersConstants DEF CounterTypes
<1>3. Cardinality(Increments) = 0
  <2>1. Increments = {}
    BY <1>1, CountersConstants DEF Increments
  <2>2. QED
    BY <2>1, FS_EmptySet
<1>4. Guarded
  BY <1>1, CountersConstants DEF Guarded
<1>5. Counting
  BY <1>1, <1>3, CountersConstants DEF Counting
<1>6. Results
  <2>1. Read = {} /\ CounterThreads # {}
    BY <1>1, CountersConstants DEF Read
  <2>2. QED
    BY <2>1 DEF Results
<1>7. QED
  BY <1>2, <1>4, <1>5, <1>6 DEF CountersInv

LEMMA ShopsInit == ASSUME S!Init PROVE ShopsInv
<1>1. /\ door = [i \in S!ShopIds |-> Nobody] /\ load = [i \in S!ShopIds |-> 1]
      /\ satisfaction = {} /\ bag = [b \in Buyers |-> 0]
      /\ shops_pc = [t \in S!Threads |-> "try"] /\ at = [t \in S!Threads |-> 1]
      /\ seen = [all |-> TRUE, checked |-> {}] /\ read = 0 /\ loaded = 0
  BY DEF S!Init
<1>2. ShopsTypes
  BY <1>1, ShopsConstants DEF ShopsTypes, S!ShopIds
<1>3. OneInside
  BY <1>1, ShopsConstants DEF OneInside, InShop
<1>4. Handled
  <2>1. \A b \in Buyers : b \in S!Threads /\ bag[b] = 0 /\ shops_pc[b] = "try"
    BY <1>1 DEF S!Threads
  <2>2. shops_pc[Loader] = "try"
    BY <1>1 DEF S!Threads
  <2>3. 0 < NEED /\ 0 <= NEED + MaxLoad
    BY ShopsConstants
  <2>4. QED
    BY <2>1, <2>2, <2>3 DEF Handled
<1>5. Flags
  <2>1. shops_pc[Loader] = "try"
    BY <1>1 DEF S!Threads
  <2>2. QED
    BY <1>1, <2>1 DEF Flags
<1>6. Traded
  <2> DEFINE carried == [b \in Buyers |-> S!Carried(b)]
  <2>1. S!Units(load) = S!ShopIds \X (1..1)
    <3>1. S!Units(load) = UNION {{k} \X (1..1) : k \in S!ShopIds}
      BY <1>1 DEF S!Units
    <3>2. QED
      BY <3>1
  <2>2. Cardinality(S!Units(load)) = SHOPS
    <3>1. IsFiniteSet(1..SHOPS) /\ Cardinality(1..SHOPS) = SHOPS
      BY ShopsConstants, FS_Interval
    <3>2. IsFiniteSet(1..1) /\ Cardinality(1..1) = 1
      <4>1. 1..1 = {1}
        OBVIOUS
      <4>2. QED
        BY <4>1, FS_Singleton
    <3>3. Cardinality((1..SHOPS) \X (1..1)) = Cardinality(1..SHOPS) * Cardinality(1..1)
      BY <3>1, <3>2, FS_Product, Zenon
    <3>4. QED
      BY <2>1, <3>1, <3>2, <3>3, ShopsConstants DEF S!ShopIds
  <2>3. \A b \in Buyers : S!Carried(b) = 0
    <3>1. \A b \in Buyers : b \in S!Threads /\ bag[b] = 0 /\ shops_pc[b] = "try"
      BY <1>1 DEF S!Threads
    <3>2. QED
      BY <3>1 DEF S!Carried
  <2>4. Cardinality(S!Units(carried)) = 0
    <3>1. S!Units(carried) = UNION {{b} \X (1..0) : b \in Buyers}
      BY <2>3 DEF S!Units
    <3>2. S!Units(carried) = {}
      BY <3>1
    <3>3. QED
      BY <3>2, FS_EmptySet
  <2>5. \A set : S!Cardinality(set) = Cardinality(set)
    BY DEF S!Cardinality, Cardinality
  <2> HIDE DEF carried
  <2>6. S!Goods = Cardinality(S!Units(load)) + Cardinality(S!Units(carried))
    BY <2>5 DEF S!Goods, carried
  <2>7. QED
    BY <1>1, <2>2, <2>4, <2>6, ShopsConstants DEF Traded
<1>7. QED
  BY <1>2, <1>3, <1>4, <1>5, <1>6 DEF ShopsInv

LEMMA TreeInit == ASSUME T!Init PROVE TreeInv
<1> DEFINE kids == T!j_childs
<1>0. "root" \in T!Jobs
  BY DEF T!Jobs
<1>k. kids["root"] \in Seq(T!Jobs)
  BY <1>0, Linked
<1>1. /\ frames = [p \in T!Jobs |-> IF p = "root" THEN <<<<"root", 1>>>> ELSE <<>>]
      /\ tree_state = [p \in T!Jobs |-> IF p = "root" THEN "create" ELSE "none"]
      /\ parent = [p \in T!Jobs |-> "none"] /\ waits = 0 /\ reaped = {} /\ failures = 0
  BY DEF T!Init
<1> HIDE DEF kids
<1> DEFINE only == <<<<"root", 1>>>>
<1>2. /\ only \in Seq(T!Jobs \X Nat) /\ only # <<>> /\ Len(only) = 1 /\ only[1] = <<"root", 1>>
      /\ DOMAIN only = {1}
  BY <1>0
<1>3. Inner(only)[1] = "root" /\ Inner(only)[2] = 1 /\ HeadsOf(only) = {"root"} /\ HeadsOf(<<>>) = {}
  BY <1>2 DEF Inner, HeadsOf
<1> HIDE DEF only
<1>4. /\ frames["root"] = only /\ tree_state["root"] = "create"
      /\ \A p \in T!Jobs : p # "root" => frames[p] = <<>> /\ tree_state[p] = "none"
  BY <1>0, <1>1 DEF only
<1>5. frames \in [T!Jobs -> Seq(T!Jobs \X Nat)]
  <2> DEFINE Sequences == Seq(T!Jobs \X Nat)
  <2>1. <<>> \in Sequences /\ only \in Sequences
    BY <1>2
  <2> HIDE DEF Sequences
  <2>2. frames = [p \in T!Jobs |-> IF p = "root" THEN only ELSE <<>>]
    BY <1>1 DEF only
  <2>3. frames \in [T!Jobs -> Sequences]
    BY <2>1, <2>2
  <2>4. QED
    BY <2>3 DEF Sequences
<1>6. Claimed = {"root"}
  BY <1>0, <1>3, <1>4 DEF Claimed
<1>7. TreeTypes
  BY <1>1, <1>5, TreeConstants DEF TreeTypes
<1>8. Calls
  <2>1. \A p \in T!Jobs : frames[p] = <<>> <=> tree_state[p] = "none"
    BY <1>2, <1>4
  <2>2. \A p \in T!Jobs : frames[p] # <<>> => p = "root"
    BY <1>4
  <2>3. 1 \in 1..Len(kids["root"]) + 1
    <3>1. Len(kids["root"]) \in Nat
      BY <1>k DEF kids
    <3>2. QED
      BY <3>1
  <2>4. \A p \in T!Jobs : tree_state[p] \notin {"wait", "exited"}
    BY <1>4
  <2>5. QED
    BY <1>3, <1>4, <2>1, <2>2, <2>3, <2>4 DEF Calls, kids
<1>9. Ahead
  <2>1. \A a \in T!Jobs : "root" \notin T!ToSet(kids[a])
    BY Kids DEF kids
  <2>2. \A i \in 1..Len(kids["root"]) : kids["root"][i] # "root"
    BY <1>0, Kids DEF kids
  <2>3. \A p \in T!Jobs : tree_state[p] = "create" => p = "root"
    BY <1>4
  <2>4. QED
    BY <1>3, <1>4, <1>6, <2>1, <2>2, <2>3 DEF Ahead, kids
<1>10. Family
  <2>1. \A c \in T!Jobs : parent[c] = "none"
    BY <1>1
  <2>2. Inner(frames["root"])[2] - 1 = 0
    BY <1>3, <1>4
  <2>3. "none" # "root"
    OBVIOUS
  <2>4. QED
    BY <2>1, <2>2, <2>3 DEF Family
<1>11. Waiting
  BY <1>1, <1>4 DEF Waiting
<1>12. QED
  BY <1>7, <1>8, <1>9, <1>10, <1>11 DEF TreeInv

LEMMA SearchesInit == ASSUME L!Init PROVE Searches
<1>1. stack = <<>> /\ DOMAIN stack = {}
  BY DEF L!Init
<1>2. QED
  BY <1>1 DEF L!Init, Searches, Entered

(* The inductive invariant: that of every program, whichever of them runs.  *)
IInv ==
    /\ D!OneNode
    /\ Searches
    /\ CountersInv
    /\ ShopsInv
    /\ TreeInv

(* The exercises keep the invariants of their programs.                     *)
THEOREM InductiveInvariant == Spec => []IInv
<1>1. Init => IInv
  <2>1. D!Init => D!OneNode
    BY DEF D!Init, D!OneNode
  <2>2. QED
    BY <2>1, SearchesInit, CountersInit, ShopsInit, TreeInit DEF Init, IInv
<1>2. IInv /\ [Next]_vars => IInv'
  <2> SUFFICES ASSUME IInv, [Next]_vars PROVE IInv'
    OBVIOUS
  <2>1. /\ C!Next \/ UNCHANGED countersVars
        /\ L!Next \/ UNCHANGED listVars
        /\ D!Next \/ UNCHANGED dynamicVars
        /\ T!Next \/ UNCHANGED treeVars
        /\ S!Next \/ UNCHANGED shopsVars
    BY Steps
  <2>2. D!OneNode'
    BY <2>1, OneNodeStep DEF IInv
  <2>3. Searches'
    BY <2>1, SearchesStep DEF IInv
  <2>4. CountersInv'
    BY <2>1, CountersStep DEF IInv
  <2>5. ShopsInv'
    BY <2>1, ShopsStep DEF IInv
  <2>6. TreeInv'
    BY <2>1, TreeStep DEF IInv
  <2>7. QED
    BY <2>2, <2>3, <2>4, <2>5, <2>6 DEF IInv
<1>3. QED
  BY <1>1, <1>2, PTL DEF Spec

(* However buyers and loader take turns, no goods appear or disappear, and  *)
(* when the loader stops every buyer has what it needs.                     *)
THEOREM TradeIsFair == Spec => []FairTrade
<1>1. IInv => FairTrade
  BY ShopsFair DEF IInv, FairTrade
<1>2. QED
  BY <1>1, InductiveInvariant, PTL

(* However the threads read and print the counter without the mutex, one of *)
(* them prints its final value.  With the mutex that counts every increment *)
(* and nobody prints less than its own; without it it is never above that,  *)
(* nor without any, nor 1 when all make two or more (thread_calc).          *)
THEOREM IncrementsCounted == Spec => []Counted
<1>1. IInv => Counted
  BY CountersCounted DEF IInv, Counted
<1>2. QED
  BY <1>1, InductiveInvariant, PTL

(* However forks fail, no job gets a second process, every process is a     *)
(* child of its parent job's or of that one's parent, and the first process *)
(* has reaped its two children when it exits.                               *)
THEOREM OneProcess == Spec => []OneProcessPerJob
<1>1. IInv => OneProcessPerJob
  BY TreeJobs DEF IInv, OneProcessPerJob
<1>2. QED
  BY <1>1, InductiveInvariant, PTL

(* No function of the phone list uses an entry that was never entered, and  *)
(* the dynamic list loses no node and uses none after it was freed.         *)
THEOREM ListsStayIntact == Spec => []ListsIntact
<1>1. Searches => L!EntriesEntered
  BY DEF Searches, Entered, L!EntriesEntered
<1>2. IInv => ListsIntact
  BY <1>1 DEF IInv, ListsIntact
<1>3. QED
  BY <1>2, InductiveInvariant, PTL
=============================================================================
