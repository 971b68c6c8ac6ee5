--------------------------- MODULE ThreadCounters ---------------------------
(***************************************************************************)
(* src/34_pthread/pthread.c and                                            *)
(* src/35_pthread_mutex/pthread_mutex/pthread_mutex.c: threads increment   *)
(* one counter, in the second program under a mutex.  The increment is a   *)
(* read and a write of memory; locked tells which program this is.         *)
(***************************************************************************)
EXTENDS Naturals, FiniteSets

CONSTANTS
    Threads,      \* PTHREADS_SUM threads
    ITER_SIZE,    \* increments of each thread
    Nobody        \* the owner of the unlocked mutex

ThreadCountersAssumption ==
    /\ ITER_SIZE \in Nat \ {0} /\ Nobody \notin Threads
    /\ IsFiniteSet(Threads) /\ Threads # {}

VARIABLES
    locked,       \* whether the program is pthread_mutex.c
    global,       \* the counter
    m1,           \* the owner of the mutex
    j,            \* per thread: increments done
    register,     \* per thread: the value it has read
    pc,           \* per thread: what it does next
    printed       \* per thread: the value it has printed, 0 before

vars == <<locked, global, m1, j, register, pc, printed>>

Init ==
    /\ locked \in BOOLEAN
    /\ global = 0
    /\ m1 = Nobody
    /\ j = [t \in Threads |-> 0]
    /\ register = [t \in Threads |-> 0]
    /\ pc = [t \in Threads |-> "loop"]
    /\ printed = [t \in Threads |-> 0]

\* A mutant of Lock: it does not wait.
LockAnyway(t) ==
    /\ locked
    /\ pc[t] = "loop" /\ j[t] < ITER_SIZE
    /\ m1' = t
    /\ pc' = [pc EXCEPT ![t] = "locked"]
    /\ UNCHANGED <<locked, global, j, register, printed>>

\* pthread_mutex_lock
Lock(t) ==
    /\ locked
    /\ pc[t] = "loop" /\ j[t] < ITER_SIZE
    /\ m1 = Nobody
    /\ m1' = t
    /\ pc' = [pc EXCEPT ![t] = "locked"]
    /\ UNCHANGED <<locked, global, j, register, printed>>

\* A mutant of ReadGlobal: the loop runs once more.
ReadOnceMore(t) ==
    /\ \/ locked /\ pc[t] = "locked"
       \/ ~locked /\ pc[t] = "loop" /\ j[t] <= ITER_SIZE
    /\ register' = [register EXCEPT ![t] = global]
    /\ pc' = [pc EXCEPT ![t] = "write"]
    /\ UNCHANGED <<locked, global, m1, j, printed>>

\* (*global_ptr)++ reads the counter ...
ReadGlobal(t) ==
    /\ \/ locked /\ pc[t] = "locked"
       \/ ~locked /\ pc[t] = "loop" /\ j[t] < ITER_SIZE
    /\ register' = [register EXCEPT ![t] = global]
    /\ pc' = [pc EXCEPT ![t] = "write"]
    /\ UNCHANGED <<locked, global, m1, j, printed>>

\* ... and writes it.
WriteGlobal(t) ==
    /\ pc[t] = "write"
    /\ global' = register[t] + 1
    /\ register' = [register EXCEPT ![t] = 0]
    /\ j' = [j EXCEPT ![t] = @ + 1]
    /\ pc' = [pc EXCEPT ![t] = IF locked THEN "unlock" ELSE "loop"]
    /\ UNCHANGED <<locked, m1, printed>>

\* pthread_mutex_unlock
Unlock(t) ==
    /\ pc[t] = "unlock"
    /\ m1' = Nobody
    /\ pc' = [pc EXCEPT ![t] = "loop"]
    /\ UNCHANGED <<locked, global, j, register, printed>>

\* The argument of printf is read without the mutex ...
ReadResult(t) ==
    /\ pc[t] = "loop" /\ j[t] = ITER_SIZE
    /\ register' = [register EXCEPT ![t] = global]
    /\ pc' = [pc EXCEPT ![t] = "print"]
    /\ UNCHANGED <<locked, global, m1, j, printed>>

\* ... and printed later, when others may have gone on counting or have printed.
PrintResult(t) ==
    /\ pc[t] = "print"
    /\ printed' = [printed EXCEPT ![t] = register[t]]
    /\ register' = [register EXCEPT ![t] = 0]
    /\ pc' = [pc EXCEPT ![t] = "done"]
    /\ UNCHANGED <<locked, global, m1, j>>

Step(t) ==
    \/ Lock(t) \/ ReadGlobal(t) \/ WriteGlobal(t) \/ Unlock(t)
    \/ ReadResult(t) \/ PrintResult(t)

Next == \E t \in Threads : Step(t)

Spec == Init /\ [][Next]_vars

-----------------------------------------------------------------------------
(* Properties *)

\* The type of every variable.
TypeOK ==
    /\ locked \in BOOLEAN
    /\ m1 \in Threads \cup {Nobody}
    /\ j \in [Threads -> 0..ITER_SIZE]
    /\ pc \in [Threads -> {"loop", "locked", "write", "unlock", "print", "done"}]
    /\ LET values == 0..Cardinality(Threads) * ITER_SIZE
       IN  global \in values /\ register \in [Threads -> values] /\ printed \in [Threads -> values]

\* When main has joined all the threads, the final value of the counter is among
\* those printed, in whatever order.  With the mutex it is exact, and nobody prints
\* less than its own increments; without it increments get lost, but never all:
\* with two increments or more by two threads or more at least 2 are left
\* (thread_calc in both programs).
Counted ==
    (\A t \in Threads : pc[t] = "done") =>
        LET all == Cardinality(Threads) * ITER_SIZE IN
        /\ \E t \in Threads : printed[t] = global
        /\ IF locked
           THEN global = all /\ \A t \in Threads : printed[t] \in ITER_SIZE..all
           ELSE global \in (IF Cardinality(Threads) > 1 /\ ITER_SIZE > 1 THEN 2 ELSE 1)..all

=============================================================================
