-------------------------- MODULE ShmMailboxProofs --------------------------
(***************************************************************************)
(* What the semaphore guarantees to write_message and read_message, for    *)
(* any set of clients, any messages and slots, and any number of killed    *)
(* processes: that they exclude each other, and that they implement the    *)
(* mailbox.                                                                *)
(***************************************************************************)
EXTENDS ShmMailbox, FiniteSetTheorems, FunctionTheorems, TLAPS

(* A process between its call and its return knows which call it is.        *)
Calling == \A p \in Procs : pc[p] \in Inside \cup {"lock"} => op[p].call \in {"write", "read"}

(* Clients cannot find the memory before run_server has locked the          *)
(* semaphore, and run_server calls nothing before it has unlocked it.       *)
SetupOrder ==
    /\ "shm" \notin ipc =>
          /\ \A c \in Clients : pc[c] \in {"attach"} \cup Gone
          /\ pc[Server] \in {"semget", "setval", "shmget"} \cup Gone
    /\ pc[Server] \in {"semget", "setval", "shmget"} => "shm" \notin ipc
    /\ pc[Server] \in {"shmget", "clear", "unlock_setup"} => mutex_sem = 0
    /\ \A c \in Clients : pc[c] \notin Setup
    /\ pc[Server] \in Setup => \A p \in Procs : pc[p] \notin Inside

(* Whoever is inside has the semaphore's only unit.                         *)
Semaphore ==
    /\ mutex_sem \in 0..1
    /\ mutex_sem = 1 => \A p \in Procs : pc[p] \notin Inside

IInv == TypeOK /\ Calling /\ SetupOrder /\ Semaphore /\ OneInside

-----------------------------------------------------------------------------
LEMMA InitIInv == Init => IInv
<1> SUFFICES ASSUME Init PROVE IInv
  OBVIOUS
<1> USE DEF Init, Procs
<1>1. 0 \in Slots
  BY MailboxAssumption DEF Slots
<1>2. TypeOK
  <2>1. NoOp \in Ops
    BY DEF Ops
  <2>2. pc \in [Procs -> States]
    BY DEF States, Setup
  <2>3. QED
    BY <1>1, <2>1, <2>2, MailboxAssumption DEF TypeOK
<1>3. \A p \in Procs : pc[p] = IF p = Server THEN "semget" ELSE "attach"
  OBVIOUS
<1>4. Calling
  BY <1>3 DEF Calling, Inside
<1>5. SetupOrder
  BY <1>3, MailboxAssumption DEF SetupOrder, Setup, Inside, Gone
<1>6. Semaphore /\ OneInside
  BY <1>3 DEF Semaphore, OneInside, Inside
<1>7. QED
  BY <1>2, <1>4, <1>5, <1>6 DEF IInv

(* run_server's setup. *)
LEMMA SetupIInv == IInv /\ ServerSetup => IInv'
<1> SUFFICES ASSUME IInv, ServerSetup PROVE IInv'
  OBVIOUS
<1> USE DEF Procs, Go
<1>s. pc[Server] \in Setup /\ pc \in [Procs -> States] /\ Server \in Procs
  BY DEF ServerSetup, CreateSemaphore, LockSemaphore, CreateMemory, ClearSlots,
         UnlockSemaphore, Setup, IInv, TypeOK
<1>n. \A p \in Procs : pc[p] \notin Inside
  BY <1>s DEF IInv, SetupOrder
<1>o. \A p \in Procs : p # Server => pc'[p] = pc[p]
  BY <1>s DEF ServerSetup, CreateSemaphore, LockSemaphore, CreateMemory, ClearSlots,
              UnlockSemaphore
<1>p. pc'[Server] \in {"setval", "shmget", "clear", "unlock_setup", "idle"}
  BY <1>s DEF ServerSetup, CreateSemaphore, LockSemaphore, CreateMemory, ClearSlots,
              UnlockSemaphore
<1>m. \A p \in Procs : pc'[p] \notin Inside
  BY <1>n, <1>o, <1>p DEF Inside
<1>t. TypeOK'
  <2>1. pc' \in [Procs -> States]
    BY <1>s DEF ServerSetup, CreateSemaphore, LockSemaphore, CreateMemory, ClearSlots,
                UnlockSemaphore, States, Setup
  <2>2. CASE CreateSemaphore
    BY <2>1, <2>2 DEF CreateSemaphore, IInv, TypeOK, slots
  <2>3. CASE LockSemaphore
    BY <2>1, <2>3 DEF LockSemaphore, IInv, TypeOK, slots
  <2>4. CASE CreateMemory
    BY <2>1, <2>4 DEF CreateMemory, IInv, TypeOK, slots
  <2>5. CASE ClearSlots
    BY <2>1, <2>5 DEF ClearSlots, IInv, TypeOK
  <2>6. CASE UnlockSemaphore
    BY <2>1, <2>6 DEF UnlockSemaphore, IInv, TypeOK, slots
  <2>7. QED
    BY <2>2, <2>3, <2>4, <2>5, <2>6 DEF ServerSetup
<1>c. Calling'
  <2>1. op' = op
    BY DEF ServerSetup, CreateSemaphore, LockSemaphore, CreateMemory, ClearSlots,
           UnlockSemaphore
  <2>2. QED
    BY <1>m, <1>o, <1>p, <2>1 DEF IInv, Calling
<1>e. Semaphore' /\ OneInside'
  <2>1. mutex_sem' \in 0..1
    BY DEF ServerSetup, CreateSemaphore, LockSemaphore, CreateMemory, ClearSlots,
           UnlockSemaphore, IInv, Semaphore
  <2>2. QED
    BY <1>m, <2>1 DEF Semaphore, OneInside
<1>f. SetupOrder'
  <2> USE <1>o, <1>m, <1>s, MailboxAssumption
  <2>1. \A c \in Clients : c # Server /\ pc'[c] = pc[c]
    OBVIOUS
  <2>2. CASE CreateSemaphore
    BY <2>1, <2>2 DEF CreateSemaphore, IInv, SetupOrder, Gone
  <2>3. CASE LockSemaphore
    BY <2>1, <2>3 DEF LockSemaphore, IInv, SetupOrder, Gone
  <2>4. CASE CreateMemory
    BY <2>1, <2>4 DEF CreateMemory, IInv, SetupOrder, Gone
  <2>5. CASE ClearSlots
    BY <2>1, <2>5 DEF ClearSlots, IInv, SetupOrder, Gone
  <2>6. CASE UnlockSemaphore
    BY <2>1, <2>6 DEF UnlockSemaphore, IInv, SetupOrder, Gone, Setup
  <2>7. QED
    BY <2>2, <2>3, <2>4, <2>5, <2>6 DEF ServerSetup
<1>q. QED
  BY <1>t, <1>c, <1>e, <1>f DEF IInv

(* A client looks the semaphore and the memory up. *)
LEMMA AttachIInv == ASSUME NEW c \in Clients PROVE IInv /\ Attach(c) => IInv'
<1> SUFFICES ASSUME IInv, Attach(c) PROVE IInv'
  OBVIOUS
<1> USE DEF Attach, Go, Procs
<1>1. c # Server /\ c \in Procs /\ pc \in [Procs -> States]
  BY MailboxAssumption DEF IInv, TypeOK
<1>2. pc'[c] \in {"idle", "failed"} /\ ("shm" \notin ipc => pc'[c] = "failed")
  BY <1>1
<1>3. \A p \in Procs : p # c => pc'[p] = pc[p]
  BY <1>1
<1>4. TypeOK'
  BY <1>1, <1>2 DEF IInv, TypeOK, States, Gone, slots
<1>5. \A p \in Procs : pc'[p] \in Inside => pc[p] \in Inside
  BY <1>2, <1>3 DEF Inside
<1>6. Calling'
  BY <1>2, <1>3 DEF IInv, Calling, Inside
<1>7. SetupOrder'
  BY <1>1, <1>2, <1>3, <1>5 DEF IInv, SetupOrder, Setup, Gone
<1>8. Semaphore' /\ OneInside'
  BY <1>5 DEF IInv, Semaphore, OneInside
<1>9. QED
  BY <1>4, <1>6, <1>7, <1>8 DEF IInv

(* A process that is past its setup makes a call, or gets on with one: it   *)
(* enters only with the semaphore, and gives it back only when it leaves.   *)
Busy == {"idle", "lock"} \cup Inside

LEMMA BusyStep ==
    ASSUME NEW p \in Procs, IInv, TypeOK', Calling', UNCHANGED ipc,
           pc[p] \in Busy, pc'[p] \in Busy \cup Gone,
           \A q \in Procs \ {p} : pc'[q] = pc[q],
           \/ /\ UNCHANGED mutex_sem
              /\ pc'[p] \in Inside => pc[p] \in Inside
           \/ /\ mutex_sem > 0 /\ mutex_sem' = mutex_sem - 1
           \/ /\ pc[p] \in Inside /\ pc'[p] \notin Inside
              /\ mutex_sem' = mutex_sem + 1
    PROVE  IInv'
<1> USE DEF Procs
<1>1. "shm" \in ipc
  BY MailboxAssumption DEF IInv, SetupOrder, Busy, Inside, Gone
<1>2. Semaphore' /\ OneInside'
  <2>1. CASE UNCHANGED mutex_sem /\ (pc'[p] \in Inside => pc[p] \in Inside)
    BY <2>1 DEF IInv, Semaphore, OneInside
  <2>2. CASE mutex_sem > 0 /\ mutex_sem' = mutex_sem - 1
    <3>1. mutex_sem = 1 /\ mutex_sem' = 0
      BY <2>2 DEF IInv, Semaphore
    <3>2. \A q \in Procs : pc[q] \notin Inside
      BY <3>1 DEF IInv, Semaphore
    <3>3. QED
      BY <3>1, <3>2 DEF Semaphore, OneInside
  <2>3. CASE pc[p] \in Inside /\ pc'[p] \notin Inside /\ mutex_sem' = mutex_sem + 1
    <3>1. mutex_sem = 0 /\ mutex_sem' = 1
      BY <2>3 DEF IInv, Semaphore
    <3>2. \A q \in Procs : pc'[q] \notin Inside
      BY <2>3 DEF IInv, OneInside
    <3>3. QED
      BY <3>1, <3>2 DEF Semaphore, OneInside
  <2>4. QED
    BY <2>1, <2>2, <2>3
<1>3. SetupOrder'
  <2>1. pc'[p] \notin Setup
    BY DEF Busy, Inside, Gone, Setup
  <2>2. \A c \in Clients : pc'[c] \notin Setup
    BY <2>1 DEF IInv, SetupOrder
  <2>3. pc'[Server] \in Setup => p # Server /\ pc'[Server] = pc[Server]
    BY <2>1
  <2>4. pc'[Server] \in Setup =>
            /\ "shm" \in ipc /\ pc[Server] \notin {"semget", "setval", "shmget"}
            /\ mutex_sem = 0 /\ \A q \in Procs : pc[q] \notin Inside
    BY <1>1, <2>3 DEF IInv, SetupOrder, Setup
  <2>5. pc'[Server] \in Setup => mutex_sem' = 0 /\ \A q \in Procs : pc'[q] \notin Inside
    BY <2>4
  <2>6. QED
    BY <1>1, <2>2, <2>3, <2>4, <2>5 DEF SetupOrder, Setup
<1>4. QED
  BY <1>2, <1>3 DEF IInv

LEMMA CallIInv ==
    ASSUME NEW p \in Procs, NEW o \in Ops, o.call \in {"write", "read"}
    PROVE  IInv /\ Call(p, o) => IInv'
<1> SUFFICES ASSUME IInv, Call(p, o) PROVE IInv'
  OBVIOUS
<1> USE DEF Call, Go
<1>1. pc \in [Procs -> States] /\ op \in [Procs -> Ops]
  BY DEF IInv, TypeOK
<1>2. /\ pc[p] = "idle" /\ pc'[p] = "lock" /\ op'[p] = o
      /\ \A q \in Procs \ {p} : pc'[q] = pc[q] /\ op'[q] = op[q]
  BY <1>1
<1>3. TypeOK'
  BY <1>1 DEF IInv, TypeOK, States, slots
<1>4. Calling'
  BY <1>2 DEF IInv, Calling
<1>5. QED
  BY <1>2, <1>3, <1>4, BusyStep DEF Busy, Inside

(* The calls' statements. *)
LEMMA AccessIInv == ASSUME NEW p \in Procs PROVE IInv /\ Access(p) => IInv'
<1> SUFFICES ASSUME IInv, Access(p) PROVE IInv'
  OBVIOUS
<1>t. TypeOK
  BY DEF IInv
<1>z. pc \in [Procs -> States] /\ op \in [Procs -> Ops] /\ cur[p] \in Slots
  BY DEF IInv, TypeOK
<1>b. pc[p] \in {"lock"} \cup Inside /\ UNCHANGED ipc
  BY DEF Access, Lock, ScanNext, ScanFound, ScanExhausted, OverflowFaults, OverflowHits,
         FillSlot, PostSlot, CopySlot, RemoveMessage, Unlock, Go, Inside
<1>c. op[p].call \in {"write", "read"}
  BY <1>b DEF IInv, Calling
<1>r. op[p] \in [call : {"write", "read"}, type : Types, msg : Message \cup {Nothing}]
  BY <1>z, <1>c DEF Ops, NoOp
<1>u. /\ pc' \in [Procs -> States] /\ pc'[p] \in Busy \cup Gone
      /\ \A q \in Procs \ {p} : pc'[q] = pc[q]
  BY <1>z DEF Access, Lock, ScanNext, ScanFound, ScanExhausted, OverflowFaults,
              OverflowHits, FillSlot, PostSlot, CopySlot, RemoveMessage, Unlock, Go, Busy,
              States, Inside, Gone
<1>1. CASE Lock(p)
  <2>1. TypeOK'
    BY <1>1, <1>t, <1>u DEF Lock, Go, TypeOK, slots
  <2>2. Calling'
    BY <1>1, <1>c, <1>u DEF Lock, IInv, Calling
  <2>3. QED
    BY <1>1, <1>b, <1>u, <2>1, <2>2, BusyStep DEF Lock, Busy
<1>2. CASE ScanNext(p)
  <2>1. cur[p] + 1 \in Slots
    BY <1>2, <1>z, MailboxAssumption DEF ScanNext, Slots
  <2>2. TypeOK'
    BY <1>2, <1>t, <2>1 DEF ScanNext, TypeOK, slots
  <2>3. Calling'
    BY <1>2 DEF ScanNext, IInv, Calling
  <2>4. QED
    BY <1>2, <1>b, <1>u, <2>2, <2>3, BusyStep DEF ScanNext, Busy
<1>3. CASE ScanFound(p)
  <2>1. TypeOK'
    BY <1>3, <1>t, <1>u DEF ScanFound, Go, TypeOK, slots
  <2>2. Calling'
    BY <1>3, <1>c, <1>u DEF ScanFound, IInv, Calling
  <2>3. QED
    BY <1>3, <1>b, <1>u, <2>1, <2>2, BusyStep DEF ScanFound, Go, Busy, Inside
<1>4. CASE ScanExhausted(p)
  <2>1. TypeOK'
    BY <1>4, <1>t, <1>u DEF ScanExhausted, Go, TypeOK, slots
  <2>2. Calling'
    BY <1>4, <1>c, <1>u DEF ScanExhausted, IInv, Calling
  <2>3. QED
    BY <1>4, <1>b, <1>u, <2>1, <2>2, BusyStep DEF ScanExhausted, Go, Busy, Inside
<1>5. CASE OverflowFaults(p)
  <2>1. TypeOK'
    BY <1>5, <1>t, <1>u DEF OverflowFaults, Go, TypeOK, slots
  <2>2. Calling'
    BY <1>5, <1>c, <1>u DEF OverflowFaults, IInv, Calling
  <2>3. QED
    BY <1>5, <1>b, <1>u, <2>1, <2>2, BusyStep DEF OverflowFaults, Go, Busy, Inside
<1>6. CASE OverflowHits(p)
  <2>1. TypeOK'
    BY <1>6, <1>t, <1>u DEF OverflowHits, Go, TypeOK, slots
  <2>2. Calling'
    BY <1>6, <1>c, <1>u DEF OverflowHits, IInv, Calling
  <2>3. QED
    BY <1>6, <1>b, <1>u, <2>1, <2>2, BusyStep DEF OverflowHits, Go, Busy, Inside
<1>7. CASE FillSlot(p)
  <2>1. TypeOK'
    BY <1>7, <1>t, <1>u, <1>r DEF FillSlot, Go, TypeOK
  <2>2. Calling'
    BY <1>7, <1>c, <1>u DEF FillSlot, IInv, Calling
  <2>3. QED
    BY <1>7, <1>b, <1>u, <2>1, <2>2, BusyStep DEF FillSlot, Go, Busy, Inside
<1>8. CASE PostSlot(p)
  <2>1. TypeOK'
    BY <1>8, <1>t, <1>u DEF PostSlot, Go, TypeOK
  <2>2. Calling'
    BY <1>8, <1>c, <1>u DEF PostSlot, IInv, Calling
  <2>3. QED
    BY <1>8, <1>b, <1>u, <2>1, <2>2, BusyStep DEF PostSlot, Go, Busy, Inside
<1>9. CASE CopySlot(p)
  <2>1. content[cur[p]] \in Message \cup {Nothing}
    BY <1>t, <1>z DEF TypeOK
  <2>2. /\ op'[p] \in [call : {"write", "read"}, type : Types, msg : Message \cup {Nothing}]
        /\ \A q \in Procs \ {p} : op'[q] = op[q]
        /\ op' = [op EXCEPT ![p] = op'[p]]
    BY <1>9, <1>r, <1>z, <2>1 DEF CopySlot
  <2>3. op' \in [Procs -> Ops]
    BY <1>z, <2>2 DEF Ops
  <2>4. TypeOK'
    BY <1>9, <1>t, <1>u, <2>3 DEF CopySlot, Go, TypeOK, slots
  <2>5. Calling'
    BY <1>u, <2>2 DEF IInv, Calling
  <2>6. QED
    BY <1>9, <1>b, <1>u, <2>4, <2>5, BusyStep DEF CopySlot, Go, Busy, Inside
<1>10. CASE RemoveMessage(p)
  <2>1. TypeOK'
    BY <1>10, <1>t, <1>u, <1>r DEF RemoveMessage, Go, TypeOK
  <2>2. Calling'
    BY <1>10, <1>c, <1>u DEF RemoveMessage, IInv, Calling
  <2>3. QED
    BY <1>10, <1>b, <1>u, <2>1, <2>2, BusyStep DEF RemoveMessage, Go, Busy, Inside
<1>11. CASE Unlock(p)
  <2>1. NoOp \in Ops /\ 0 \in Slots
    BY MailboxAssumption DEF Ops, Slots
  <2>2. TypeOK'
    BY <1>11, <1>t, <1>u, <2>1 DEF Unlock, Go, TypeOK, slots
  <2>3. pc'[p] = "idle" /\ \A q \in Procs \ {p} : op'[q] = op[q]
    BY <1>11, <1>z DEF Unlock, Go
  <2>4. Calling'
    BY <1>u, <2>3 DEF IInv, Calling, Inside
  <2>5. QED
    BY <1>11, <1>b, <1>u, <2>2, <2>3, <2>4, BusyStep DEF Unlock, Go, Busy, Inside
<1>12. QED
  BY <1>1, <1>2, <1>3, <1>4, <1>5, <1>6, <1>7, <1>8, <1>9, <1>10, <1>11 DEF Access

(* Whoever is killed inside keeps the semaphore's unit for ever. *)
LEMMA KillIInv == ASSUME NEW p \in Procs PROVE IInv /\ Kill(p) => IInv'
<1> SUFFICES ASSUME IInv, Kill(p) PROVE IInv'
  OBVIOUS
<1> USE DEF Kill
<1>1. pc'[p] = "killed" /\ \A q \in Procs \ {p} : pc'[q] = pc[q]
  BY DEF IInv, TypeOK
<1>2. TypeOK'
  BY MailboxAssumption DEF IInv, TypeOK, States, Gone, slots
<1>3. \A q \in Procs : pc'[q] \in Inside => pc[q] \in Inside
  BY <1>1 DEF Inside
<1>4. Calling'
  BY <1>1, <1>3 DEF IInv, Calling
<1>5. SetupOrder'
  BY <1>1, <1>3 DEF IInv, SetupOrder, Setup, Gone, Procs
<1>6. Semaphore' /\ OneInside'
  BY <1>3 DEF IInv, Semaphore, OneInside
<1>7. QED
  BY <1>2, <1>4, <1>5, <1>6 DEF IInv

LEMMA StepIInv == IInv /\ [Next]_vars => IInv'
<1> SUFFICES ASSUME IInv, [Next]_vars PROVE IInv'
  OBVIOUS
<1>1. CASE ServerSetup
  BY <1>1, SetupIInv
<1>2. ASSUME NEW c \in Clients, Attach(c) PROVE IInv'
  BY <1>2, AttachIInv
<1>3. ASSUME NEW p \in Procs, NEW m \in Message, Call(p, WriteOp(m)) PROVE IInv'
  <2>1. WriteOp(m) \in Ops /\ WriteOp(m).call \in {"write", "read"}
    BY DEF WriteOp, Ops, Types
  <2>2. QED
    BY <1>3, <2>1, CallIInv
<1>4. ASSUME NEW p \in Procs, NEW t \in Types, Call(p, ReadOp(t)) PROVE IInv'
  <2>1. ReadOp(t) \in Ops /\ ReadOp(t).call \in {"write", "read"}
    BY DEF ReadOp, Ops
  <2>2. QED
    BY <1>4, <2>1, CallIInv
<1>5. ASSUME NEW p \in Procs, Access(p) PROVE IInv'
  BY <1>5, AccessIInv
<1>6. ASSUME NEW p \in Procs, Kill(p) PROVE IInv'
  BY <1>6, KillIInv
<1>7. CASE UNCHANGED vars
  BY <1>7 DEF vars, slots, IInv, TypeOK, Calling, SetupOrder, Semaphore, OneInside
<1>8. QED
  BY <1>1, <1>2, <1>3, <1>4, <1>5, <1>6, <1>7 DEF Next

(* The invariant holds in every reachable state.                            *)
THEOREM InductiveInvariant == Spec => []IInv
<1>1. Init => IInv
  BY InitIInv
<1>2. IInv /\ [Next]_vars => IInv'
  BY StepIInv
<1>3. QED
  BY <1>1, <1>2, PTL DEF Spec

(* The type invariant of run shm_mailbox: the variables of write_message    *)
(* and read_message have their types, and the index stays in the array.     *)
THEOREM TypeCorrect == Spec => []TypeOK
<1>1. IInv => TypeOK
  BY DEF IInv
<1>2. QED
  BY <1>1, InductiveInvariant, PTL

(* mutex_sem excludes: no two processes are between the two semop calls of  *)
(* write_message or read_message, and none before run_server has cleared    *)
(* the slots (task2.c:306, :329, :511).                                     *)
THEOREM Exclusion == Spec => []MutualExclusion
<1>1. IInv => MutualExclusion
  BY DEF IInv, SetupOrder, MutualExclusion
<1>2. QED
  BY <1>1, InductiveInvariant, PTL

-----------------------------------------------------------------------------
(* Slots as a bag.  F is what the slots hold, U the slots with a message.   *)

With(F, U, m) == {i \in U : F[i] = m}
BagOf(F, U) == [m \in {F[i] : i \in U} |-> Cardinality(With(F, U, m))]

LEMMA Counted ==
    ASSUME NEW F, NEW U, IsFiniteSet(U), NEW m
    PROVE  /\ IsFiniteSet(With(F, U, m)) /\ Cardinality(With(F, U, m)) \in Nat
           /\ (m \in {F[i] : i \in U} <=> Cardinality(With(F, U, m)) > 0)
           /\ (m \notin {F[i] : i \in U} <=> Cardinality(With(F, U, m)) = 0)
<1>1. IsFiniteSet(With(F, U, m))
  BY FS_Subset DEF With
<1>2. Cardinality(With(F, U, m)) \in Nat /\ (Cardinality(With(F, U, m)) = 0 <=> With(F, U, m) = {})
  BY <1>1, FS_CardinalityType, FS_EmptySet
<1>3. m \in {F[i] : i \in U} <=> With(F, U, m) # {}
  BY DEF With
<1>4. QED
  BY <1>1, <1>2, <1>3

(* A slot more is a message more. *)
LEMMA BagAdded ==
    ASSUME NEW F, NEW U, IsFiniteSet(U), NEW j, j \notin U
    PROVE  BagOf(F, U \cup {j}) = Box!(+)(BagOf(F, U), Box!One(F[j]))
<1>1. {F[i] : i \in U \cup {j}} = {F[i] : i \in U} \cup {F[j]}
  OBVIOUS
<1>2. ASSUME NEW m
      PROVE  Cardinality(With(F, U \cup {j}, m))
                = (IF m \in {F[i] : i \in U} THEN Cardinality(With(F, U, m)) ELSE 0)
                    + (IF m \in {F[j]} THEN 1 ELSE 0)
  <2>1. Cardinality(With(F, U, m)) = IF m \in {F[i] : i \in U} THEN Cardinality(With(F, U, m)) ELSE 0
    BY Counted
  <2>2. Cardinality(With(F, U, m)) \in Nat /\ IsFiniteSet(With(F, U, m)) /\ j \notin With(F, U, m)
    BY Counted DEF With
  <2>3. CASE m = F[j]
    <3>1. With(F, U \cup {j}, m) = With(F, U, m) \cup {j}
      BY <2>3 DEF With
    <3>2. Cardinality(With(F, U \cup {j}, m)) = Cardinality(With(F, U, m)) + 1
      BY <2>2, <3>1, FS_AddElement
    <3>3. QED
      BY <2>1, <2>3, <3>2
  <2>4. CASE m # F[j]
    <3>1. With(F, U \cup {j}, m) = With(F, U, m)
      BY <2>4 DEF With
    <3>2. QED
      BY <2>1, <2>2, <2>4, <3>1
  <2>5. QED
    BY <2>3, <2>4
<1>3. QED
  BY <1>1, <1>2 DEF BagOf, Box!(+), Box!One, Box!SetToBag

(* A slot less is a message less. *)
LEMMA BagDropped ==
    ASSUME NEW F, NEW U, IsFiniteSet(U), NEW j \in U
    PROVE  BagOf(F, U \ {j}) = Box!(-)(BagOf(F, U), Box!One(F[j]))
<1> DEFINE Left(m) == IF m \in {F[j]} THEN Cardinality(With(F, U, m)) - 1 ELSE Cardinality(With(F, U, m))
<1>f. IsFiniteSet(U \ {j})
  BY FS_RemoveElement
<1>1. ASSUME NEW m PROVE Cardinality(With(F, U \ {j}, m)) = Left(m)
  <2>1. IsFiniteSet(With(F, U, m))
    BY Counted
  <2>2. CASE m = F[j]
    <3>1. With(F, U \ {j}, m) = With(F, U, m) \ {j} /\ j \in With(F, U, m)
      BY <2>2 DEF With
    <3>2. QED
      BY <2>1, <2>2, <3>1, FS_RemoveElement
  <2>3. CASE m # F[j]
    <3>1. With(F, U \ {j}, m) = With(F, U, m)
      BY <2>3 DEF With
    <3>2. QED
      BY <2>3, <3>1
  <2>4. QED
    BY <2>2, <2>3
<1>2. {F[i] : i \in U \ {j}} = {m \in {F[i] : i \in U} : Left(m) > 0}
  <2>1. ASSUME NEW m PROVE m \in {F[i] : i \in U \ {j}} <=> Left(m) > 0
    <3>1. m \in {F[i] : i \in U \ {j}} <=> Cardinality(With(F, U \ {j}, m)) > 0
      BY <1>f, Counted
    <3>2. Cardinality(With(F, U \ {j}, m)) = Left(m)
      BY <1>1
    <3> HIDE DEF Left
    <3>3. QED
      BY <3>1, <3>2
  <2>2. {F[i] : i \in U \ {j}} \subseteq {F[i] : i \in U}
    OBVIOUS
  <2> HIDE DEF Left
  <2>3. QED
    BY <2>1, <2>2
<1>3. BagOf(F, U \ {j}) = [m \in {n \in {F[i] : i \in U} : Left(n) > 0} |-> Left(m)]
  <2> HIDE DEF Left
  <2>1. QED
    BY <1>1, <1>2 DEF BagOf
<1>4. QED
  BY <1>3 DEF BagOf, Box!(-), Box!One, Box!SetToBag

(* The bag depends on what the slots with a message hold, on nothing else.  *)
LEMMA BagSame ==
    ASSUME NEW F, NEW G, NEW U, \A i \in U : F[i] = G[i]
    PROVE  BagOf(F, U) = BagOf(G, U)
<1>1. {F[i] : i \in U} = {G[i] : i \in U}
  OBVIOUS
<1>2. \A m : With(F, U, m) = With(G, U, m)
  BY DEF With
<1>3. QED
  BY <1>1, <1>2 DEF BagOf

(* There are as many copies in the bag as slots with a message: number the  *)
(* slots that hold the same message.                                        *)
LEMMA AsManyCopies ==
    ASSUME NEW F, NEW U, IsFiniteSet(U)
    PROVE  Box!Cardinality(UNION {{m} \X (1..BagOf(F, U)[m]) : m \in DOMAIN BagOf(F, U)}) = Cardinality(U)
<1> DEFINE Copied == UNION {{m} \X (1..BagOf(F, U)[m]) : m \in DOMAIN BagOf(F, U)}
           Number(m) == CHOOSE b : b \in Bijection(With(F, U, m), 1..Cardinality(With(F, U, m)))
           Place == [i \in U |-> <<F[i], Number(F[i])[i]>>]
<1>1. ASSUME NEW m PROVE Number(m) \in Bijection(With(F, U, m), 1..Cardinality(With(F, U, m)))
  <2>1. IsFiniteSet(With(F, U, m)) /\ Cardinality(With(F, U, m)) \in Nat
    BY Counted
  <2>2. IsFiniteSet(1..Cardinality(With(F, U, m)))
        /\ Cardinality(1..Cardinality(With(F, U, m))) = Cardinality(With(F, U, m))
    BY <2>1, FS_Interval
  <2>3. ExistsBijection(With(F, U, m), 1..Cardinality(With(F, U, m)))
    BY <2>1, <2>2, FS_SameCardinalityBij
  <2>4. QED
    BY <2>3 DEF ExistsBijection
<1>2. ASSUME NEW m
      PROVE  /\ \A i \in With(F, U, m) : Number(m)[i] \in 1..Cardinality(With(F, U, m))
             /\ \A i, k \in With(F, U, m) : Number(m)[i] = Number(m)[k] => i = k
             /\ \A n \in 1..Cardinality(With(F, U, m)) : \E i \in With(F, U, m) : Number(m)[i] = n
  <2> HIDE DEF Number
  <2>1. PICK b, S, T : b = Number(m) /\ S = With(F, U, m) /\ T = 1..Cardinality(With(F, U, m))
    OBVIOUS
  <2>2. b \in Bijection(S, T)
    BY <1>1, <2>1
  <2>3. /\ b \in [S -> T] /\ \A i, k \in S : b[i] = b[k] => i = k
        /\ \A n \in T : \E i \in S : b[i] = n
    BY <2>2, Fun_BijectionProperties
  <2>4. QED
    BY <2>1, <2>3
<1> HIDE DEF Number
<1>3. \A x : x \in Copied <=> \E m \in {F[i] : i \in U} : \E n \in 1..Cardinality(With(F, U, m)) : x = <<m, n>>
  <2>1. DOMAIN BagOf(F, U) = {F[i] : i \in U}
        /\ \A m \in {F[i] : i \in U} : BagOf(F, U)[m] = Cardinality(With(F, U, m))
    BY DEF BagOf
  <2>2. \A x : x \in Copied <=> \E m \in DOMAIN BagOf(F, U) : x \in {m} \X (1..BagOf(F, U)[m])
    OBVIOUS
  <2>3. ASSUME NEW m, NEW S, NEW x PROVE x \in {m} \X S <=> \E n \in S : x = <<m, n>>
    OBVIOUS
  <2> HIDE DEF Copied
  <2>4. QED
    BY <2>1, <2>2, <2>3
<1> HIDE DEF Copied
<1>4. \A i \in U : i \in With(F, U, F[i]) /\ F[i] \in {F[k] : k \in U}
  BY DEF With
<1>5. Place \in Injection(U, Copied)
  <2>1. \A i \in U : Place[i] \in Copied
    BY <1>2, <1>3, <1>4
  <2>2. ASSUME NEW i \in U, NEW k \in U, Place[i] = Place[k] PROVE i = k
    <3>1. F[i] = F[k] /\ Number(F[i])[i] = Number(F[i])[k]
      BY <2>2
    <3>2. i \in With(F, U, F[i]) /\ k \in With(F, U, F[i])
      BY <1>4, <3>1
    <3>3. QED
      BY <1>2, <3>1, <3>2
  <2>3. QED
    BY <2>1, <2>2 DEF Injection, IsInjective
<1>6. Place \in Surjection(U, Copied)
  <2>1. ASSUME NEW x \in Copied PROVE \E i \in U : Place[i] = x
    <3>1. PICK m \in {F[i] : i \in U} : \E n \in 1..Cardinality(With(F, U, m)) : x = <<m, n>>
      BY <1>3
    <3>a. PICK n \in 1..Cardinality(With(F, U, m)) : x = <<m, n>>
      BY <3>1
    <3>2. PICK i \in With(F, U, m) : Number(m)[i] = n
      BY <1>2
    <3>3. i \in U /\ F[i] = m
      BY DEF With
    <3>4. QED
      BY <3>a, <3>2, <3>3
  <2>2. Place \in [U -> Copied]
    BY <1>5 DEF Injection
  <2>3. QED
    BY <2>1, <2>2 DEF Surjection
<1>7. ExistsBijection(U, Copied)
  BY <1>5, <1>6 DEF ExistsBijection, Bijection
<1>8. Cardinality(Copied) = Cardinality(U)
  BY <1>7, FS_Bijection
<1>9. Box!Cardinality(Copied) = Cardinality(Copied)
  BY DEF Box!Cardinality, Cardinality
<1>10. QED
  BY <1>8, <1>9 DEF Copied

-----------------------------------------------------------------------------
(* What a call has found out about the slots is still true when it acts on  *)
(* it, because it is alone.                                                 *)

AllSent == \A i \in Slots : state[i] = "SENT"

(* What a call is about, and that its index is reset before each.           *)
Arguments(p) ==
    /\ pc[p] \in Setup \cup {"attach", "idle", "lock"} => cur[p] = 0
    /\ pc[p] \in {"lock", "scan", "overflow", "fill", "post"} /\ op[p].call = "write"
          => op[p].msg \in Message
    /\ pc[p] \in {"overflow", "fill", "post"} => op[p].call = "write"
    /\ pc[p] \in {"copy", "remove"} => op[p].call = "read"

(* What it knows of the slots while it is inside.                           *)
Sight(p) ==
    /\ pc[p] = "scan" => \A i \in Slots : i < cur[p] => ~Wanted(p, i)
    /\ pc[p] = "overflow" => AllSent
    /\ pc[p] = "fill" => state[cur[p]] = "NONE" \/ AllSent
    /\ pc[p] = "post" => content[cur[p]] = op[p].msg
    /\ pc[p] \in {"copy", "remove"} =>
          state[cur[p]] = "SENT" /\ content[cur[p]].type = op[p].type
    /\ pc[p] = "remove" => op[p].msg = content[cur[p]]

Stored ==
    /\ pc[Server] \in Setup => \A i \in Slots : state[i] = "NONE"
    /\ \A i \in Slots : state[i] = "SENT" => content[i] \in Message

DataInv == Stored /\ \A p \in Procs : Arguments(p) /\ Sight(p)

LEMMA InitData == Init => DataInv
<1> SUFFICES ASSUME Init PROVE DataInv
  OBVIOUS
<1>1. Stored
  BY DEF Init, Stored
<1>2. \A p \in Procs : pc[p] \in {"semget", "attach"} /\ cur[p] = 0
  BY DEF Init
<1>3. QED
  BY <1>1, <1>2 DEF DataInv, Arguments, Sight

(* A step of p leaves what others know as it is: they are not inside, or p  *)
(* leaves the slots alone.                                                  *)
LEMMA DataStep ==
    ASSUME NEW p \in Procs, IInv, DataInv,
           pc[p] \in Inside \/ UNCHANGED slots,
           \A q \in Procs \ {p} : pc'[q] = pc[q] /\ op'[q] = op[q] /\ cur'[q] = cur[q],
           Arguments(p)', Sight(p)', Stored'
    PROVE  DataInv'
<1>1. ASSUME NEW q \in Procs, q # p PROVE Arguments(q)' /\ Sight(q)'
  <2>1. pc'[q] = pc[q] /\ op'[q] = op[q] /\ cur'[q] = cur[q] /\ Arguments(q) /\ Sight(q)
    BY <1>1 DEF DataInv
  <2>2. Arguments(q)'
    BY <2>1 DEF Arguments
  <2>3. CASE UNCHANGED slots
    <3>1. (AllSent' <=> AllSent) /\ \A i \in Slots : Wanted(q, i)' <=> Wanted(q, i)
      BY <2>1, <2>3 DEF slots, AllSent, Wanted
    <3>2. state' = state /\ content' = content
      BY <2>3 DEF slots
    <3>3. QED
      BY <2>1, <2>2, <3>1, <3>2 DEF Sight
  <2>4. CASE pc[q] \notin Inside
    BY <2>1, <2>2, <2>4 DEF Sight, Inside
  <2>5. pc[p] \in Inside => pc[q] \notin Inside
    BY <1>1 DEF IInv, OneInside
  <2>6. QED
    BY <2>2, <2>3, <2>4, <2>5
<1>2. QED
  BY <1>1 DEF DataInv

(* The steps that leave the slots alone and do not scan.                    *)
LEMMA DataOutside ==
    ASSUME NEW p \in Procs, IInv, DataInv, UNCHANGED <<slots, cur>>,
           \A q \in Procs \ {p} : pc'[q] = pc[q] /\ op'[q] = op[q],
           \/ pc[p] \in Setup /\ pc'[p] \in Setup \cup {"idle"}
           \/ pc[p] = "attach" /\ pc'[p] \in {"idle", "failed"}
           \/ pc'[p] = "killed",
           pc'[Server] \in Setup => pc[Server] \in Setup
    PROVE  DataInv'
<1>1. Arguments(p) /\ Stored
  BY DEF DataInv
<1>2. Arguments(p)'
  BY <1>1 DEF Arguments, Setup
<1>3. Sight(p)'
  BY DEF Sight, Setup
<1>4. Stored'
  BY <1>1 DEF Stored, slots
<1>5. QED
  BY <1>2, <1>3, <1>4, DataStep

(* run_server's setup leaves empty slots empty. *)
LEMMA DataSetup == ASSUME IInv, DataInv, ServerSetup PROVE DataInv'
<1> USE DEF Go
<1>1. /\ pc[Server] \in Setup /\ pc'[Server] \in Setup \cup {"idle"}
      /\ \A q \in Procs \ {Server} : pc'[q] = pc[q] /\ op'[q] = op[q]
      /\ UNCHANGED <<content, cur, op>> /\ Server \in Procs
  BY DEF ServerSetup, CreateSemaphore, LockSemaphore, CreateMemory, ClearSlots,
         UnlockSemaphore, Setup, IInv, TypeOK, Procs, slots
<1>2. \A i \in Slots : state[i] = "NONE"
  BY <1>1 DEF DataInv, Stored
<1>3. UNCHANGED slots
  <2>1. state = [i \in Slots |-> "NONE"]
    BY <1>2 DEF IInv, TypeOK
  <2>2. QED
    BY <1>1, <2>1 DEF ServerSetup, CreateSemaphore, LockSemaphore, CreateMemory, ClearSlots,
       UnlockSemaphore, slots
<1>4. QED
  BY <1>1, <1>3, DataOutside

LEMMA DataAttach == ASSUME NEW c \in Clients, IInv, DataInv, Attach(c) PROVE DataInv'
<1>1. c \in Procs /\ c # Server /\ pc \in [Procs -> States]
  BY MailboxAssumption DEF Procs, IInv, TypeOK
<1>2. /\ pc[c] = "attach" /\ pc'[c] \in {"idle", "failed"} /\ UNCHANGED <<slots, cur, op>>
      /\ \A q \in Procs \ {c} : pc'[q] = pc[q]
  BY <1>1 DEF Attach, Go
<1>3. pc'[Server] = pc[Server]
  BY <1>1, <1>2 DEF Procs
<1>4. QED
  BY <1>1, <1>2, <1>3, DataOutside

LEMMA DataKill == ASSUME NEW p \in Procs, IInv, DataInv, Kill(p) PROVE DataInv'
<1>1. /\ pc'[p] = "killed" /\ UNCHANGED <<slots, cur, op>>
      /\ \A q \in Procs \ {p} : pc'[q] = pc[q]
  BY DEF Kill, IInv, TypeOK
<1>2. pc'[Server] \in Setup => pc[Server] \in Setup
  BY <1>1 DEF Setup, Procs
<1>3. QED
  BY <1>1, <1>2, DataOutside

LEMMA DataCall ==
    ASSUME NEW p \in Procs, NEW o \in Ops, o.call = "write" => o.msg \in Message,
           IInv, DataInv, Call(p, o)
    PROVE  DataInv'
<1>1. /\ pc[p] = "idle" /\ pc'[p] = "lock" /\ op'[p] = o /\ UNCHANGED <<slots, cur>>
      /\ \A q \in Procs \ {p} : pc'[q] = pc[q] /\ op'[q] = op[q]
  BY DEF Call, Go, IInv, TypeOK
<1>2. Arguments(p) /\ Stored
  BY DEF DataInv
<1>3. Arguments(p)' /\ Sight(p)'
  BY <1>1, <1>2 DEF Arguments, Sight
<1>4. Stored'
  <2>1. pc'[Server] \in Setup => pc[Server] \in Setup
    BY <1>1 DEF Setup, Procs
  <2>2. QED
    BY <1>1, <1>2, <2>1 DEF Stored, slots
<1>5. QED
  BY <1>1, <1>3, <1>4, DataStep

(* The statements of a call. *)
LEMMA DataAccess == ASSUME NEW p \in Procs, IInv, DataInv, Access(p) PROVE DataInv'
<1> USE DEF Go
<1>1. /\ pc \in [Procs -> States] /\ op \in [Procs -> Ops] /\ cur \in [Procs -> Slots]
      /\ state \in [Slots -> {"NONE", "SENT"}] /\ content \in [Slots -> Message \cup {Nothing}]
      /\ cur[p] \in Slots /\ \A i \in Slots : i \in Nat
  BY DEF IInv, TypeOK, Slots
<1>2. Arguments(p) /\ Sight(p) /\ Stored
  BY DEF DataInv
<1>3. pc[p] \in {"lock"} \cup Inside /\ pc'[p] \in Inside \cup {"idle", "killed"}
      /\ \A q \in Procs \ {p} : pc'[q] = pc[q] /\ op'[q] = op[q] /\ cur'[q] = cur[q]
  BY <1>1 DEF Access, Lock, ScanNext, ScanFound, ScanExhausted, OverflowFaults, OverflowHits,
     FillSlot, PostSlot, CopySlot, RemoveMessage, Unlock, Inside
<1>4. op[p].call \in {"write", "read"}
  BY <1>3 DEF IInv, Calling
<1>5. pc'[Server] \in Setup => pc[Server] \in Setup /\ pc[p] \notin Inside
  BY <1>3 DEF Setup, Inside, Procs, IInv, SetupOrder
<1>6. ASSUME pc[p] \in Inside \/ UNCHANGED slots,
             \A i \in Slots : state'[i] = "SENT" => content'[i] \in Message
      PROVE  Stored'
  BY <1>2, <1>5, <1>6 DEF Stored, slots
<1>7. ASSUME UNCHANGED slots PROVE Stored'
  BY <1>2, <1>6, <1>7 DEF Stored, slots
<1>8. ASSUME pc[p] \in Inside \/ UNCHANGED slots, Arguments(p)', Sight(p)', Stored' PROVE DataInv'
  BY <1>3, <1>8, DataStep
<1>11. CASE Lock(p)
  <2>1. pc[p] = "lock" /\ pc'[p] = "scan" /\ UNCHANGED <<slots, op, cur>>
    BY <1>1, <1>11 DEF Lock
  <2>2. cur'[p] = 0 /\ Arguments(p)'
    BY <1>2, <2>1 DEF Arguments, Setup
  <2>3. Sight(p)'
    BY <1>1, <2>1, <2>2 DEF Sight
  <2>4. QED
    BY <1>7, <1>8, <2>1, <2>2, <2>3
<1>12. CASE ScanNext(p)
  <2>1. pc[p] = "scan" /\ pc'[p] = "scan" /\ UNCHANGED <<slots, op>>
        /\ cur'[p] = cur[p] + 1 /\ ~Wanted(p, cur[p])
    BY <1>1, <1>12 DEF ScanNext
  <2>2. Arguments(p)'
    BY <1>2, <2>1 DEF Arguments, Setup
  <2>3. \A i \in Slots : Wanted(p, i)' <=> Wanted(p, i)
    BY <2>1 DEF Wanted, slots
  <2>4. \A i \in Slots : i < cur[p] + 1 => i < cur[p] \/ i = cur[p]
    BY <1>1
  <2>5. Sight(p)'
    BY <1>2, <2>1, <2>3, <2>4 DEF Sight
  <2>6. QED
    BY <1>7, <1>8, <2>1, <2>2, <2>5
<1>13. CASE ScanFound(p)
  <2>1. pc[p] = "scan" /\ UNCHANGED <<slots, op, cur>> /\ Wanted(p, cur[p])
        /\ pc'[p] = IF op[p].call = "write" THEN "fill" ELSE "copy"
    BY <1>1, <1>13 DEF ScanFound
  <2>2. Arguments(p)'
    BY <1>2, <1>4, <2>1 DEF Arguments, Setup
  <2>3. Sight(p)'
    BY <1>4, <2>1 DEF Sight, Wanted, slots
  <2>4. QED
    BY <1>7, <1>8, <2>1, <2>2, <2>3
<1>14. CASE ScanExhausted(p)
  <2>1. pc[p] = "scan" /\ UNCHANGED <<slots, op, cur>> /\ ~Wanted(p, cur[p]) /\ cur[p] + 1 = MaxMessages
        /\ pc'[p] = IF op[p].call = "write" THEN "overflow" ELSE "unlock"
    BY <1>1, <1>14 DEF ScanExhausted
  <2>2. Arguments(p)'
    BY <1>2, <1>4, <2>1 DEF Arguments, Setup
  <2>3. \A i \in Slots : i < cur[p] \/ i = cur[p]
    BY <1>1, <2>1, MailboxAssumption DEF Slots
  <2>4. \A i \in Slots : ~Wanted(p, i)
    BY <1>2, <2>1, <2>3 DEF Sight
  <2>5. op[p].call = "write" => AllSent
    BY <1>1, <2>4 DEF Wanted, AllSent
  <2>6. AllSent' <=> AllSent
    BY <2>1 DEF AllSent, slots
  <2>7. Sight(p)'
    BY <1>4, <2>1, <2>5, <2>6 DEF Sight
  <2>8. QED
    BY <1>7, <1>8, <2>1, <2>2, <2>7
<1>15. CASE OverflowFaults(p)
  <2>1. pc'[p] = "killed" /\ UNCHANGED slots
    BY <1>1, <1>15 DEF OverflowFaults
  <2>2. Arguments(p)' /\ Sight(p)'
    BY <2>1 DEF Arguments, Sight, Setup
  <2>3. QED
    BY <1>7, <1>8, <2>1, <2>2
<1>16. CASE OverflowHits(p)
  <2>1. pc[p] = "overflow" /\ pc'[p] = "fill" /\ UNCHANGED <<slots, op>>
    BY <1>1, <1>16 DEF OverflowHits
  <2>2. Arguments(p)'
    BY <1>2, <2>1 DEF Arguments, Setup
  <2>3. AllSent /\ (AllSent' <=> AllSent)
    BY <1>2, <2>1 DEF Sight, AllSent, slots
  <2>4. Sight(p)'
    BY <2>1, <2>3 DEF Sight
  <2>5. QED
    BY <1>7, <1>8, <2>1, <2>2, <2>4
<1>17. CASE FillSlot(p)
  <2>1. pc[p] = "fill" /\ pc'[p] = "post" /\ UNCHANGED <<state, op, cur>>
        /\ content'[cur[p]] = op[p].msg /\ \A i \in Slots : i # cur[p] => content'[i] = content[i]
    BY <1>1, <1>17 DEF FillSlot
  <2>2. Arguments(p)' /\ op[p].msg \in Message
    BY <1>2, <2>1 DEF Arguments, Setup
  <2>3. Sight(p)'
    BY <2>1 DEF Sight
  <2>4. Stored'
    BY <1>2, <1>6, <2>1, <2>2 DEF Stored, Inside
  <2>5. QED
    BY <1>8, <2>1, <2>2, <2>3, <2>4 DEF Inside
<1>18. CASE PostSlot(p)
  <2>1. pc[p] = "post" /\ pc'[p] = "unlock" /\ UNCHANGED <<content, op, cur>>
        /\ \A i \in Slots : i # cur[p] => state'[i] = state[i]
    BY <1>1, <1>18 DEF PostSlot
  <2>2. Arguments(p)' /\ Sight(p)'
    BY <2>1 DEF Arguments, Sight, Setup
  <2>3. content[cur[p]] \in Message
    BY <1>2, <2>1 DEF Arguments, Sight
  <2>4. Stored'
    BY <1>2, <1>6, <2>1, <2>3 DEF Stored, Inside
  <2>5. QED
    BY <1>8, <2>1, <2>2, <2>4 DEF Inside
<1>19. CASE CopySlot(p)
  <2>1. pc[p] = "copy" /\ pc'[p] = "remove" /\ UNCHANGED <<slots, cur>>
        /\ op' = [op EXCEPT ![p].msg = content[cur[p]]]
    BY <1>1, <1>19 DEF CopySlot
  <2>2. op[p] \in [call : {"write", "read"}, type : Types, msg : Message \cup {Nothing}]
    BY <1>1, <1>4 DEF Ops, NoOp
  <2>3. op'[p].call = op[p].call /\ op'[p].type = op[p].type /\ op'[p].msg = content[cur[p]]
    BY <1>1, <2>1, <2>2
  <2>4. Arguments(p)'
    BY <1>2, <2>1, <2>3 DEF Arguments, Setup
  <2>5. Sight(p)'
    BY <1>2, <2>1, <2>3 DEF Sight, slots
  <2>6. QED
    BY <1>7, <1>8, <2>1, <2>4, <2>5
<1>20. CASE RemoveMessage(p)
  <2>1. pc[p] = "remove" /\ pc'[p] = "unlock" /\ UNCHANGED content
        /\ \A i \in Slots : state'[i] = "SENT" => state[i] = "SENT"
    BY <1>1, <1>20 DEF RemoveMessage
  <2>2. Arguments(p)' /\ Sight(p)'
    BY <2>1 DEF Arguments, Sight, Setup
  <2>3. Stored'
    BY <1>2, <1>6, <2>1 DEF Stored, Inside
  <2>4. QED
    BY <1>8, <2>1, <2>2, <2>3 DEF Inside
<1>21. CASE Unlock(p)
  <2>1. pc'[p] = "idle" /\ cur'[p] = 0 /\ UNCHANGED slots
    BY <1>1, <1>21 DEF Unlock
  <2>2. Arguments(p)' /\ Sight(p)'
    BY <2>1 DEF Arguments, Sight, Setup
  <2>3. QED
    BY <1>7, <1>8, <2>1, <2>2
<1>22. QED
  BY <1>11, <1>12, <1>13, <1>14, <1>15, <1>16, <1>17, <1>18, <1>19, <1>20, <1>21 DEF Access

LEMMA DataNext == ASSUME IInv, DataInv, [Next]_vars PROVE DataInv'
<1>1. ASSUME NEW p \in Procs, NEW m \in Message, Call(p, WriteOp(m)) PROVE DataInv'
  <2>1. WriteOp(m) \in Ops /\ WriteOp(m).msg \in Message
    BY DEF WriteOp, Ops, Types
  <2>2. QED
    BY <1>1, <2>1, DataCall
<1>2. ASSUME NEW p \in Procs, NEW t \in Types, Call(p, ReadOp(t)) PROVE DataInv'
  <2>1. ReadOp(t) \in Ops /\ ReadOp(t).call # "write"
    BY DEF ReadOp, Ops
  <2>2. QED
    BY <1>2, <2>1, DataCall
<1>3. CASE UNCHANGED vars
  BY <1>3 DEF vars, slots, DataInv, Stored, Arguments, Sight, AllSent, Wanted
<1>4. QED
  BY <1>1, <1>2, <1>3, DataSetup, DataAttach, DataAccess, DataKill DEF Next

-----------------------------------------------------------------------------
(* Each step of a call is a whole write or read of the mailbox, or nothing. *)

LEMMA MailIs == Mail = BagOf(content, Unread) /\ Mail' = BagOf(content', Unread')
BY DEF Mail, BagOf, With

LEMMA UnreadSlots ==
    ASSUME TypeOK
    PROVE  IsFiniteSet(Unread) /\ Unread \subseteq Slots /\ (Box!Full <=> AllSent)
<1>1. IsFiniteSet(Slots) /\ Cardinality(Slots) = MaxMessages /\ MaxMessages \in Nat
  BY MailboxAssumption, FS_Interval DEF Slots
<1>2. Unread \subseteq Slots /\ IsFiniteSet(Unread) /\ Cardinality(Unread) <= MaxMessages
      /\ (Cardinality(Unread) = MaxMessages => Unread = Slots) /\ Cardinality(Unread) \in Nat
  BY <1>1, FS_Subset, FS_CardinalityType DEF Unread
<1>3. Box!Full <=> Cardinality(Unread) >= MaxMessages
  <2>1. Box!Cardinality(Box!Copies) = Cardinality(Unread)
    BY <1>2, AsManyCopies, MailIs DEF Box!Copies, Box!BagToSet
  <2>2. QED
    BY <2>1 DEF Box!Full
<1>4. AllSent <=> Unread = Slots
  BY DEF AllSent, Unread
<1>5. QED
  BY <1>1, <1>2, <1>3, <1>4

LEMMA SlotsKept == ASSUME UNCHANGED slots PROVE Mail' = Mail
BY DEF slots, Mail, Unread

(* A slot is set to SENT: the message is in the mailbox.                    *)
LEMMA PostedIn ==
    ASSUME TypeOK, NEW j \in Slots, state[j] = "NONE",
           content' = content, state' = [state EXCEPT ![j] = "SENT"]
    PROVE  Box!Put(content[j])
<1>1. Unread' = Unread \cup {j} /\ j \notin Unread /\ IsFiniteSet(Unread)
  BY UnreadSlots DEF Unread, TypeOK
<1>2. ~Box!Full
  BY UnreadSlots DEF AllSent
<1>3. Mail' = Box!(+)(Mail, Box!One(content[j]))
  BY <1>1, MailIs, BagAdded
<1>4. QED
  BY <1>2, <1>3 DEF Box!Put

(* All slots are SENT, and one is filled again: its message is lost.        *)
LEMMA FilledAgain ==
    ASSUME TypeOK, NEW j \in Slots, NEW m, AllSent,
           state' = state, content' = [content EXCEPT ![j] = m]
    PROVE  Box!Put(m)
<1>1. /\ Unread' = Unread /\ j \in Unread /\ IsFiniteSet(Unread) /\ Unread = (Unread \ {j}) \cup {j}
      /\ IsFiniteSet(Unread \ {j}) /\ j \notin Unread \ {j}
  BY UnreadSlots, FS_RemoveElement DEF Unread, AllSent
<1>2. Box!Full
  BY UnreadSlots
<1>3. content'[j] = m /\ \A i \in Unread \ {j} : content'[i] = content[i]
  BY UnreadSlots DEF TypeOK
<1>m. Mail = BagOf(content, Unread)
  BY MailIs
<1>4. BagOf(content, Unread \ {j}) = Box!(-)(Mail, Box!One(content[j]))
  <2>1. PICK F, U : F = content /\ U = Unread
    OBVIOUS
  <2>2. IsFiniteSet(U) /\ j \in U
    BY <1>1, <2>1
  <2>3. BagOf(F, U \ {j}) = Box!(-)(BagOf(F, U), Box!One(F[j]))
    BY <2>2, BagDropped
  <2>4. QED
    BY <2>1, <2>3, <1>m
<1>5. BagOf(content', Unread \ {j}) = BagOf(content, Unread \ {j})
  <2>1. PICK F, G, U : F = content /\ G = content' /\ U = Unread \ {j}
    OBVIOUS
  <2>2. \A i \in U : G[i] = F[i]
    BY <1>3, <2>1
  <2>3. BagOf(G, U) = BagOf(F, U)
    BY <2>2, BagSame
  <2>4. QED
    BY <2>1, <2>3
<1>6. BagOf(content', (Unread \ {j}) \cup {j}) = Box!(+)(BagOf(content', Unread \ {j}), Box!One(m))
  <2>1. PICK G, U : G = content' /\ U = Unread \ {j}
    OBVIOUS
  <2>2. IsFiniteSet(U) /\ j \notin U /\ G[j] = m
    BY <1>1, <1>3, <2>1
  <2>3. BagOf(G, U \cup {j}) = Box!(+)(BagOf(G, U), Box!One(G[j]))
    BY <2>2, BagAdded
  <2>4. QED
    BY <2>1, <2>2, <2>3
<1>7. Mail' = Box!(+)(Box!(-)(Mail, Box!One(content[j])), Box!One(m))
  BY <1>1, <1>4, <1>5, <1>6, MailIs
<1>8. content[j] \in Box!BagToSet(Mail)
  BY <1>1 DEF Box!BagToSet, Mail
<1>9. QED
  BY <1>2, <1>7, <1>8 DEF Box!Put

(* A slot that is not SENT is filled: nobody sees it.                       *)
LEMMA FilledFree ==
    ASSUME TypeOK, NEW j \in Slots, NEW m, state[j] = "NONE",
           state' = state, content' = [content EXCEPT ![j] = m]
    PROVE  Mail' = Mail
<1>1. Unread' = Unread /\ \A i \in Unread : content'[i] = content[i]
  BY DEF Unread, TypeOK
<1>2. PICK F, G, U : F = content /\ G = content' /\ U = Unread
  OBVIOUS
<1>3. BagOf(F, U) = BagOf(G, U)
  <2>1. \A i \in U : F[i] = G[i]
    BY <1>1, <1>2
  <2>2. QED
    BY <2>1, BagSame
<1>4. Mail = BagOf(F, U) /\ Mail' = BagOf(G, U)
  BY <1>1, <1>2, MailIs
<1>5. QED
  BY <1>3, <1>4

(* A slot is freed: its message is out of the mailbox.                      *)
LEMMA Freed ==
    ASSUME TypeOK, NEW j \in Slots, state[j] = "SENT", content[j] \in Message,
           content' = content, state' = [state EXCEPT ![j] = "NONE"]
    PROVE  Box!Take(content[j]) /\ content[j] \in Box!Returned(content[j].type)
<1>1. Unread' = Unread \ {j} /\ j \in Unread /\ IsFiniteSet(Unread)
  BY UnreadSlots DEF Unread, TypeOK
<1>2. Mail' = Box!(-)(Mail, Box!One(content[j]))
  BY <1>1, MailIs, BagDropped
<1>3. content[j] # Nothing
  BY MailboxAssumption
<1>4. content[j] \in Box!BagToSet(Mail)
  BY <1>1 DEF Box!BagToSet, Mail
<1>5. QED
  BY <1>2, <1>3, <1>4 DEF Box!Take, Box!Returned

(* No slot has a message of the type: a read of the mailbox finds none.     *)
LEMMA NoneFound ==
    ASSUME TypeOK, UNCHANGED slots, NEW t, \A i \in Slots : ~(state[i] = "SENT" /\ content[i].type = t)
    PROVE  Box!Take(Nothing) /\ Nothing \in Box!Returned(t)
<1>1. Mail' = Mail
  BY SlotsKept
<1>2. \A m \in Box!BagToSet(Mail) : m.type # t
  BY DEF Box!BagToSet, Mail, Unread
<1>3. QED
  BY <1>1, <1>2 DEF Box!Take, Box!Returned

LEMMA AccessRefines ==
    ASSUME NEW p \in Procs, IInv, DataInv, Access(p) PROVE [Box!Next]_<<Mail, result>>
<1> USE DEF Go
<1>1. /\ TypeOK /\ cur[p] \in Slots /\ Arguments(p) /\ Sight(p) /\ Stored
      /\ op[p] \in Ops /\ op[p].call \in {"write", "read"} \cup {"none"}
  BY DEF IInv, TypeOK, DataInv, Ops, NoOp
<1>2. CASE Lock(p) \/ ScanNext(p) \/ ScanFound(p) \/ OverflowFaults(p) \/ OverflowHits(p)
           \/ CopySlot(p) \/ Unlock(p)
  <2>1. UNCHANGED <<slots, result>>
    BY <1>2 DEF Lock, ScanNext, ScanFound, OverflowFaults, OverflowHits, CopySlot, Unlock
  <2>2. QED
    BY <2>1, SlotsKept
<1>3. CASE ScanExhausted(p)
  <2>1. pc[p] = "scan" /\ UNCHANGED slots /\ ~Wanted(p, cur[p]) /\ cur[p] + 1 = MaxMessages
        /\ IF op[p].call = "write" THEN UNCHANGED result
           ELSE result' = [result EXCEPT ![p] = Nothing]
    BY <1>3 DEF ScanExhausted
  <2>2. CASE op[p].call = "write"
    BY <2>1, <2>2, SlotsKept
  <2>3. CASE op[p].call # "write"
    <3>1. op[p].type \in Types
      BY <1>1, <2>1, <2>3 DEF IInv, Calling, Inside, Ops, NoOp
    <3>2. \A i \in Slots : i < cur[p] \/ i = cur[p]
      BY <1>1, <2>1, MailboxAssumption DEF Slots
    <3>3. \A i \in Slots : ~(state[i] = "SENT" /\ content[i].type = op[p].type)
      BY <1>1, <2>1, <2>3, <3>2 DEF Sight, Wanted
    <3>4. Box!Take(Nothing) /\ Nothing \in Box!Returned(op[p].type)
      BY <1>1, <2>1, <3>3, NoneFound
    <3>5. Box!Read(p, op[p].type)
      BY <2>1, <2>3, <3>4 DEF Box!Read
    <3>6. QED
      BY <3>1, <3>5 DEF Box!Next, Types
  <2>4. QED
    BY <2>2, <2>3
<1>4. CASE FillSlot(p)
  <2>1. pc[p] = "fill" /\ content' = [content EXCEPT ![cur[p]] = op[p].msg] /\ state' = state
        /\ result' = result
    BY <1>4 DEF FillSlot
  <2>2. op[p].msg \in Message
    BY <1>1, <2>1 DEF Arguments
  <2>3. CASE state[cur[p]] = "NONE"
    BY <1>1, <2>1, <2>3, FilledFree
  <2>4. CASE AllSent
    <3>1. Box!Write(op[p].msg)
      BY <1>1, <2>1, <2>4, FilledAgain DEF Box!Write
    <3>2. QED
      BY <2>2, <3>1 DEF Box!Next
  <2>5. QED
    BY <1>1, <2>1, <2>3, <2>4 DEF Sight
<1>5. CASE PostSlot(p)
  <2>1. pc[p] = "post" /\ state' = [state EXCEPT ![cur[p]] = "SENT"] /\ content' = content
        /\ result' = result
    BY <1>5 DEF PostSlot
  <2>2. content[cur[p]] = op[p].msg /\ op[p].msg \in Message
    BY <1>1, <2>1 DEF Arguments, Sight
  <2>3. CASE state[cur[p]] = "NONE"
    <3>1. Box!Write(op[p].msg)
      BY <1>1, <2>1, <2>2, <2>3, PostedIn DEF Box!Write
    <3>2. QED
      BY <2>2, <3>1 DEF Box!Next
  <2>4. CASE state[cur[p]] = "SENT"
    <3>1. UNCHANGED slots
      BY <1>1, <2>1, <2>4 DEF TypeOK, slots
    <3>2. QED
      BY <2>1, <3>1, SlotsKept
  <2>5. QED
    BY <1>1, <2>3, <2>4 DEF TypeOK
<1>6. CASE RemoveMessage(p)
  <2>1. pc[p] = "remove" /\ state' = [state EXCEPT ![cur[p]] = "NONE"] /\ content' = content
        /\ result' = [result EXCEPT ![p] = op[p].msg]
    BY <1>6 DEF RemoveMessage
  <2>2. /\ state[cur[p]] = "SENT" /\ content[cur[p]].type = op[p].type /\ op[p].msg = content[cur[p]]
        /\ content[cur[p]] \in Message
    BY <1>1, <2>1 DEF Sight, Stored
  <2>3. Box!Take(content[cur[p]]) /\ content[cur[p]] \in Box!Returned(content[cur[p]].type)
    BY <1>1, <2>1, <2>2, Freed
  <2>4. Box!Read(p, content[cur[p]].type)
    BY <2>1, <2>2, <2>3 DEF Box!Read
  <2>5. QED
    BY <2>2, <2>4 DEF Box!Next
<1>7. QED
  BY <1>2, <1>3, <1>4, <1>5, <1>6 DEF Access

LEMMA StepRefines == ASSUME IInv, DataInv, [Next]_vars PROVE [Box!Next]_<<Mail, result>>
<1>1. CASE ServerSetup
  <2>1. pc[Server] \in Setup /\ UNCHANGED <<content, result>>
    BY <1>1 DEF ServerSetup, CreateSemaphore, LockSemaphore, CreateMemory, ClearSlots,
       UnlockSemaphore, Setup, Go, slots
  <2>2. Unread = {} /\ Unread' = {}
    <3>1. \A i \in Slots : state[i] = "NONE"
      BY <2>1 DEF DataInv, Stored
    <3>2. \A i \in Slots : state'[i] = "NONE"
      BY <1>1, <3>1 DEF ServerSetup, CreateSemaphore, LockSemaphore, CreateMemory, ClearSlots,
         UnlockSemaphore, slots
    <3>3. QED
      BY <3>1, <3>2 DEF Unread
  <2>3. QED
    BY <2>1, <2>2 DEF Mail
<1>2. ASSUME NEW p \in Procs, \/ p \in Clients /\ Attach(p)
                              \/ \E o \in Ops : Call(p, o)
                              \/ Kill(p)
      PROVE  UNCHANGED <<Mail, result>>
  <2>1. UNCHANGED <<slots, result>>
    BY <1>2 DEF Attach, Call, Kill
  <2>2. QED
    BY <2>1, SlotsKept
<1>3. \A m \in Message : WriteOp(m) \in Ops
  BY DEF WriteOp, Ops, Types
<1>4. \A t \in Types : ReadOp(t) \in Ops
  BY DEF ReadOp, Ops
<1>5. CASE UNCHANGED vars
  BY <1>5, SlotsKept DEF vars, slots
<1>6. QED
  BY <1>1, <1>2, <1>3, <1>4, <1>5, AccessRefines DEF Next, Procs

(* What a call has read of the slots stays true until it returns, and every *)
(* message in them was written by someone.                                  *)
THEOREM SlotsInvariant == Spec => []DataInv
<1>1. Init => DataInv
  BY InitData
<1>2. IInv /\ DataInv /\ [Next]_vars => DataInv'
  BY DataNext
<1>3. QED
  BY <1>1, <1>2, InductiveInvariant, PTL DEF Spec

(* The statements of write_message and read_message, however they           *)
(* interleave and whoever is killed, implement a mailbox: whole writes and  *)
(* reads of a bag of messages that holds MaxMessages of them.               *)
THEOREM Refinement == Spec => ImplementsMailbox
<1>1. Init => Box!Init
  <2> SUFFICES ASSUME Init PROVE Box!Init
    OBVIOUS
  <2>1. Unread = {}
    BY DEF Init, Unread
  <2>2. QED
    BY <2>1 DEF Init, Box!Init, Box!EmptyBag, Box!SetToBag, Mail
<1>2. IInv /\ DataInv /\ [Next]_vars => [Box!Next]_<<Mail, result>>
  BY StepRefines
<1>3. QED
  BY <1>1, <1>2, InductiveInvariant, SlotsInvariant, PTL DEF Spec, ImplementsMailbox, Box!Spec
=============================================================================
