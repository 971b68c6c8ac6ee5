----------------------------- MODULE Exercises ------------------------------
(***************************************************************************)
(* The smaller programs of the repository side by side: program says which *)
(* of them runs, the others stay in their initial state.                   *)
(***************************************************************************)
EXTENDS Naturals, Sequences, FiniteSets

CONSTANTS
    Nobody, Garbage, NULL, NotDefined, Nothing,
    Buyers, Loader, SHOPS, NEED, MaxLoad,                         \* Shops
    CounterThreads, ITER_SIZE,                                    \* ThreadCounters
    MAX_CHILDS, MaxFailures,                                      \* ProcessTree
    Numbers, MAXSIZE, MaxDepth, Nodes,                            \* PhoneList*
    PoolClients, POOL, ATTEMPTS, QueueCapacity, Bounds,           \* ServicePool
    TcpClients, Parent, Worker                                    \* TcpServers

VARIABLES
    program,
    door, load, satisfaction, bag, shops_pc, at, seen, read, loaded,
    locked, global, m1, j, register, counters_pc, printed,
    frames, tree_state, parent, waits, reaped, failures,
    ptr, mode, count, stack, searched,
    first, heap, entered,
    bound, spc, flag, starts, queue, size, pool_state, hand, ended, toService,
    fromService, current, inbox, raw, cpc, sid, mid, attempts, pending, answer, given,
    astray, late,
    kind, tcp_pc, entries, freed, shut, signals, mayStop, conn, clt, kid

S == INSTANCE Shops WITH pc <- shops_pc
C == INSTANCE ThreadCounters WITH pc <- counters_pc, Threads <- CounterThreads
T == INSTANCE ProcessTree WITH state <- tree_state
L == INSTANCE PhoneList
D == INSTANCE PhoneListDynamic
P == INSTANCE ServicePool WITH state <- pool_state, Clients <- PoolClients
N == INSTANCE TcpServers WITH pc <- tcp_pc, Clients <- TcpClients

\* What each program's module takes for granted about its constants.
ASSUME ExercisesAssumption ==
    /\ S!ShopsAssumption /\ C!ThreadCountersAssumption /\ T!ProcessTreeAssumption
    /\ L!PhoneListAssumption /\ D!PhoneListDynamicAssumption
    /\ P!ServicePoolAssumption /\ N!TcpServersAssumption

shopsVars == <<door, load, satisfaction, bag, shops_pc, at, seen, read, loaded>>
countersVars == <<locked, global, m1, j, register, counters_pc, printed>>
treeVars == <<frames, tree_state, parent, waits, reaped, failures>>
listVars == <<ptr, mode, count, stack, searched>>
dynamicVars == <<first, heap, entered>>
poolVars == <<bound, spc, flag, starts, queue, size, pool_state, hand, ended, toService,
    fromService, current, inbox, raw, cpc, sid, mid, attempts, pending, answer, given,
    astray, late>>
tcpVars == <<kind, tcp_pc, entries, freed, shut, signals, mayStop, conn, clt, kid>>

vars == <<program, shopsVars, countersVars, treeVars, listVars, dynamicVars, poolVars, tcpVars>>

Programs == {"shops", "counters", "tree", "list", "dynamic list", "pool", "tcp"}

Init ==
    /\ program \in Programs
    /\ S!Init /\ C!Init /\ T!Init /\ L!Init /\ D!Init /\ P!Init /\ N!Init
    \* A program that does not run has one initial state only.
    /\ program # "counters" => locked
    /\ program # "pool" => bound = CHOOSE b \in Bounds : TRUE
    /\ program # "tcp" => kind = "multi"

shops ==
    /\ program = "shops" /\ S!Next
    /\ UNCHANGED <<program, countersVars, treeVars, listVars, dynamicVars, poolVars, tcpVars>>

counters ==
    /\ program = "counters" /\ C!Next
    /\ UNCHANGED <<program, shopsVars, treeVars, listVars, dynamicVars, poolVars, tcpVars>>

tree ==
    /\ program = "tree" /\ T!Next
    /\ UNCHANGED <<program, shopsVars, countersVars, listVars, dynamicVars, poolVars, tcpVars>>

list ==
    /\ program = "list" /\ L!Next
    /\ UNCHANGED <<program, shopsVars, countersVars, treeVars, dynamicVars, poolVars, tcpVars>>

dynamicList ==
    /\ program = "dynamic list" /\ D!Next
    /\ UNCHANGED <<program, shopsVars, countersVars, treeVars, listVars, poolVars, tcpVars>>

pool ==
    /\ program = "pool" /\ P!Next
    /\ UNCHANGED <<program, shopsVars, countersVars, treeVars, listVars, dynamicVars, tcpVars>>

tcp ==
    /\ program = "tcp" /\ N!Next
    /\ UNCHANGED <<program, shopsVars, countersVars, treeVars, listVars, dynamicVars, poolVars>>

Next == shops \/ counters \/ tree \/ list \/ dynamicList \/ pool \/ tcp

Spec == Init /\ [][Next]_vars

-----------------------------------------------------------------------------
(* Properties: those of the programs, under names of this module. *)

\* The type of every variable of the program that runs; the others do not move.
TypeOK ==
    CASE program = "shops" -> S!TypeOK
      [] program = "counters" -> C!TypeOK
      [] program = "tree" -> T!TypeOK
      [] program = "list" -> L!TypeOK
      [] program = "dynamic list" -> D!TypeOK
      [] program = "pool" -> P!TypeOK
      [] program = "tcp" -> N!TypeOK

\* Shops: however buyers and loader take turns, no goods appear or disappear, and the
\* program ends only when every buyer has what it needs.
FairTrade == program = "shops" => S!FairTrade

\* ThreadCounters: with the mutex no increment is lost, without it never all; and what
\* is left is printed by someone.
Counted == program = "counters" => C!Counted

\* ProcessTree: no job gets two processes, however forks fail, and only the first
\* process gets past create_jobs.
OneProcessPerJob == program = "tree" => T!OneProcessPerJob

\* PhoneList and PhoneListDynamic: no function, now or when it is returned to, uses an
\* entry that was never entered; the linked list never has a second node, whatever
\* its comments say of appending, and so no node leaks or is used after it was freed.
ListsIntact ==
    /\ program = "list" => L!EntriesEntered
    /\ program = "dynamic list" => D!OneNode

\* ServicePool: as long as no client takes another's datagram for its own, each has
\* a service to itself and gets its own answers.
Sessions == program = "pool" => P!Sessions

\* TcpServers: when nothing moves any more, nobody is left waiting.
NobodyLeft == program = "tcp" => N!NobodyLeft

=============================================================================
