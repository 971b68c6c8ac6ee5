------------------------------- MODULE Shops --------------------------------
(***************************************************************************)
(* src/35_pthread_mutex/pthread_shops/pthread_shops.c: buyers go from shop *)
(* to shop and take all the goods of each whose door they can lock, until  *)
(* they have what they need; a loader puts goods into every shop whose     *)
(* door it can lock until the buyers' unprotected flags say that all of    *)
(* them are satisfied.  Goods are counted in thousands.                    *)
(***************************************************************************)
EXTENDS Naturals, FiniteSets

CONSTANTS
    Buyers,       \* BUYERS
    Loader,       \* the loader's thread
    SHOPS,        \* the number of shops
    NEED,         \* what a buyer needs
    MaxLoad,      \* bound: the loader leaves a shop with as much alone
    Nobody        \* the owner of an unlocked door

ShopsAssumption ==
    /\ SHOPS \in Nat \ {0} /\ NEED \in Nat \ {0} /\ MaxLoad \in Nat \ {0}
    /\ IsFiniteSet(Buyers) /\ Loader \notin Buyers /\ Nobody \notin Buyers \cup {Loader}

VARIABLES
    door,          \* per shop: who has locked shops[i].door
    load,          \* per shop: shops[i].load
    satisfaction,  \* the buyers whose flag is set
    bag,           \* per buyer: its bag
    pc,            \* per thread: what it does next
    at,            \* per thread: the shop it is at
    seen,          \* the loader's all_satisfied, and how far its check is
    read,          \* the load the loader has read and not yet written back
    loaded         \* history: the goods the loader has brought

vars == <<door, load, satisfaction, bag, pc, at, seen, read, loaded>>

Threads == Buyers \cup {Loader}
ShopIds == 1..SHOPS

Init ==
    /\ door = [i \in ShopIds |-> Nobody]
    /\ load = [i \in ShopIds |-> 1]
    /\ satisfaction = {}
    /\ bag = [b \in Buyers |-> 0]
    /\ pc = [t \in Threads |-> "try"]
    /\ at = [t \in Threads |-> 1]
    /\ seen = [all |-> TRUE, checked |-> {}]
    /\ read = 0
    /\ loaded = 0

\* The next shop of the sweep; a buyer starts over after the last one.
NextShop(i) == (i % SHOPS) + 1

\* A mutant of Enter: the result of pthread_mutex_trylock is not looked at.
EnterAnyway(t) ==
    /\ pc[t] = "try"
    /\ door' = [door EXCEPT ![at[t]] = t]
    /\ pc' = [pc EXCEPT ![t] = "inside"]
    /\ UNCHANGED <<load, satisfaction, bag, at, seen, read, loaded>>

\* pthread_mutex_trylock succeeds.
Enter(t) ==
    /\ pc[t] = "try"
    /\ door[at[t]] = Nobody
    /\ door' = [door EXCEPT ![at[t]] = t]
    /\ pc' = [pc EXCEPT ![t] = "inside"]
    /\ UNCHANGED <<load, satisfaction, bag, at, seen, read, loaded>>

\* bag = bag + shops[i].load
Fill(b) ==
    /\ pc[b] = "inside" /\ load[at[b]] > 0
    /\ bag' = [bag EXCEPT ![b] = @ + load[at[b]]]
    /\ pc' = [pc EXCEPT ![b] = "empty"]
    /\ UNCHANGED <<door, load, satisfaction, at, seen, read, loaded>>

\* shops[i].load = 0
Empty(b) ==
    /\ pc[b] = "empty"
    /\ load' = [load EXCEPT ![at[b]] = 0]
    /\ pc' = [pc EXCEPT ![b] = "leave"]
    /\ UNCHANGED <<door, satisfaction, bag, at, seen, read, loaded>>

\* The door is unlocked.
Leave(b) ==
    /\ \/ pc[b] = "leave"
       \/ pc[b] = "inside" /\ load[at[b]] = 0
    /\ door' = [door EXCEPT ![at[b]] = Nobody]
    /\ pc' = [pc EXCEPT ![b] = "decide"]
    /\ UNCHANGED <<load, satisfaction, bag, at, seen, read, loaded>>

\* Satisfied, or on to the next shop; also where a failed trylock leads.
Decide(b) ==
    /\ \/ pc[b] = "decide"
       \/ pc[b] = "try" /\ door[at[b]] # Nobody
    /\ IF bag[b] >= NEED
       THEN /\ satisfaction' = satisfaction \cup {b}
            /\ pc' = [pc EXCEPT ![b] = "done"]
            /\ UNCHANGED at
       ELSE /\ pc' = [pc EXCEPT ![b] = "try"]
            /\ at' = [at EXCEPT ![b] = NextShop(@)]
            /\ UNCHANGED satisfaction
    /\ UNCHANGED <<door, load, bag, seen, read, loaded>>

\* shops[i].load is read ...
ReadLoad ==
    /\ pc[Loader] = "inside" /\ load[at[Loader]] < MaxLoad
    /\ read' = load[at[Loader]]
    /\ pc' = [pc EXCEPT ![Loader] = "write"]
    /\ UNCHANGED <<door, load, satisfaction, bag, at, seen, loaded>>

\* ... and written back with 1000 more.
WriteLoad ==
    /\ pc[Loader] = "write"
    /\ load' = [load EXCEPT ![at[Loader]] = read + 1]
    /\ loaded' = loaded + 1
    /\ read' = 0
    /\ pc' = [pc EXCEPT ![Loader] = "leave"]
    /\ UNCHANGED <<door, satisfaction, bag, at, seen>>

\* Out of the shop (or not let in): the next shop, or the check of the flags.
LoaderNext ==
    /\ \/ /\ \/ pc[Loader] = "leave"
             \/ pc[Loader] = "inside" /\ load[at[Loader]] >= MaxLoad
          /\ door' = [door EXCEPT ![at[Loader]] = Nobody]
       \/ pc[Loader] = "try" /\ door[at[Loader]] # Nobody /\ UNCHANGED door
    /\ IF at[Loader] < SHOPS
       THEN /\ pc' = [pc EXCEPT ![Loader] = "try"]
            /\ at' = [at EXCEPT ![Loader] = @ + 1]
            /\ UNCHANGED seen
       ELSE /\ pc' = [pc EXCEPT ![Loader] = "check"]
            /\ seen' = [all |-> TRUE, checked |-> {}]
            /\ UNCHANGED at
    /\ UNCHANGED <<load, satisfaction, bag, read, loaded>>

\* One flag is read; the buyers may set theirs in between.
Check ==
    /\ pc[Loader] = "check"
    /\ \E b \in Buyers \ seen.checked :
        seen' = [all |-> seen.all /\ b \in satisfaction, checked |-> seen.checked \cup {b}]
    /\ UNCHANGED <<door, load, satisfaction, bag, pc, at, read, loaded>>

\* All read: the loader returns, and with it main, or begins a new round.
Conclude ==
    /\ pc[Loader] = "check" /\ seen.checked = Buyers
    /\ pc' = [pc EXCEPT ![Loader] = IF seen.all THEN "done" ELSE "try"]
    /\ at' = [at EXCEPT ![Loader] = 1]
    /\ UNCHANGED <<door, load, satisfaction, bag, seen, read, loaded>>

Next ==
    \/ \E t \in Threads : Enter(t)
    \/ \E b \in Buyers : Fill(b) \/ Empty(b) \/ Leave(b) \/ Decide(b)
    \/ ReadLoad \/ WriteLoad \/ LoaderNext \/ Check \/ Conclude

Spec == Init /\ [][Next]_vars

-----------------------------------------------------------------------------
(* Properties *)

\* The type of every variable (struct shop, the locals of buyer and loader).
TypeOK ==
    /\ door \in [ShopIds -> Threads \cup {Nobody}]
    /\ load \in [ShopIds -> 0..MaxLoad]
    /\ satisfaction \subseteq Buyers
    /\ bag \in [Buyers -> 0..NEED + MaxLoad]
    /\ pc \in [Threads -> {"try", "inside", "empty", "write", "leave", "decide",
                           "check", "done"}]
    /\ at \in [Threads -> ShopIds]
    /\ seen \in [all : BOOLEAN, checked : SUBSET Buyers]
    /\ read \in 0..MaxLoad /\ loaded \in Nat

\* Every thousand of a stock, for each holder of some of it.
Units(stock) == UNION {{k} \X (1..stock[k]) : k \in DOMAIN stock}

\* What is in a bag, less what is not yet off its shelf.
Carried(b) == bag[b] - (IF pc[b] = "empty" THEN load[at[b]] ELSE 0)

\* What is in the bags and in the shops.
Goods ==
    Cardinality(Units(load)) + Cardinality(Units([b \in Buyers |-> Carried(b)]))

\* However buyers and loader take turns, no goods appear or disappear, and when the
\* loader stops, and with it the program, every buyer has what it needs (27-50,
\* 58-84).
FairTrade ==
    /\ Goods = SHOPS + loaded
    /\ pc[Loader] = "done" => \A b \in Buyers : pc[b] = "done" /\ bag[b] >= NEED

=============================================================================
