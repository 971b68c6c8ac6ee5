------------------------------ MODULE Spooler ------------------------------
(***************************************************************************)
(* 40_semaphore/sph_chats/sample: clients write strings into a ring of     *)
(* MAX_BUFFERS buffers in shared memory and one spooler prints them.       *)
(* Three System V semaphores coordinate them:                              *)
(*   sem.mutex  - one client at a time advances buffer_index,              *)
(*   sem.count  - buffers that are free,                                   *)
(*   sem.signal - strings the spooler has been told of.                    *)
(* Each semop or semctl call is an action of its own.  Nothing is undone   *)
(* for a process that is killed, and the IPC objects are never removed.    *)
(***************************************************************************)
EXTENDS Naturals, Sequences, FiniteSets

CONSTANTS Clients,      \* the client processes
          MaxBuffers,   \* MAX_BUFFERS
          ClientMsgs,   \* bound: lines typed at each client
          MaxKills,     \* bound: processes killed from outside
          NoString      \* a buffer never written

Message == Clients \X (1..ClientMsgs)
Slots == 0..(MaxBuffers - 1)

ASSUME SpoolerAssumption ==
    /\ MaxBuffers \in Nat \ {0}
    /\ IsFiniteSet(Clients)
    /\ ClientMsgs \in Nat
    /\ MaxKills \in Nat
    /\ NoString \notin Message

VARIABLES
    ipc,                  \* the objects created so far
    sem,                  \* the three semaphores
    buf,                  \* the ring of buffers
    buffer_index,         \* the next buffer to write
    buffer_print_index,   \* the next buffer to print
    spooler,              \* where the spooler is
    client,               \* where each client is
    typed,                \* lines each client has read
    kills,                \* processes killed so far
    sent,                 \* history: strings written to the ring, in order
    printed               \* history: what the spooler printed, in order

memory == <<buf, buffer_index, buffer_print_index>>
history == <<sent, printed>>
vars == <<ipc, sem, memory, spooler, client, typed, kills, history>>

Objects == {"mutex", "memory", "count", "signal"}
SpoolerSetup == {"getmutex", "lock", "getmemory", "reset", "getcount", "setcount",
                 "getsignal", "setsignal", "unlock"}
SpoolerStates == SpoolerSetup \cup {"wait", "print", "advance", "release", "killed"}
Critical == {"write", "advance", "unlock"}
ClientStates == {"attach", "input", "getbuffer", "lock", "signal"} \cup Critical
                \cup {"done", "failed", "killed"}

Init ==
    /\ ipc = {}
    /\ sem = [s \in {"mutex", "count", "signal"} |-> 0]
    /\ buf = [i \in Slots |-> NoString]
    /\ buffer_index = 0 /\ buffer_print_index = 0
    /\ spooler = "getmutex"
    /\ client = [c \in Clients |-> "attach"]
    /\ typed = [c \in Clients |-> 0]
    /\ kills = 0
    /\ sent = <<>> /\ printed = <<>>

(* P and V: semop by -1 and by +1. *)
P(s) == sem[s] > 0 /\ sem' = [sem EXCEPT ![s] = sem[s] - 1]
V(s) == sem' = [sem EXCEPT ![s] = sem[s] + 1]

(* Mutant of Wrap: the test comes one slot too late. *)
WrapLate(i) == IF i = MaxBuffers THEN 0 ELSE i + 1

(* The slot after i in the ring. *)
Wrap(i) == IF i + 1 = MaxBuffers THEN 0 ELSE i + 1

-----------------------------------------------------------------------------
(* The spooler. *)

SpoolerGo(from, to) ==
    spooler = from /\ spooler' = to /\ UNCHANGED <<client, typed, kills>>

(* semget or shmget with IPC_CREAT: an object that exists is taken as it is; *)
(* POSIX leaves the value of a new semaphore indeterminate.                  *)
GetSemaphore(from, to, s) ==
    /\ SpoolerGo(from, to)
    /\ ipc' = ipc \cup {s}
    /\ IF s \in ipc THEN UNCHANGED sem
                    ELSE \E v \in 0..1 : sem' = [sem EXCEPT ![s] = v]
    /\ UNCHANGED <<memory, history>>

SetSemaphore(from, to, s, v) ==
    /\ SpoolerGo(from, to)
    /\ sem' = [sem EXCEPT ![s] = v]
    /\ UNCHANGED <<ipc, memory, history>>

GetMutex == GetSemaphore("getmutex", "lock", "mutex")

(* Mutant of LockMutex: unlocked while the initialization goes on. *)
StartUnlocked == SetSemaphore("lock", "getmemory", "mutex", 1)
LockMutex == SetSemaphore("lock", "getmemory", "mutex", 0)

GetMemory ==
    /\ SpoolerGo("getmemory", "reset")
    /\ ipc' = ipc \cup {"memory"}
    /\ UNCHANGED <<sem, memory, history>>

ResetIndices ==
    /\ SpoolerGo("reset", "getcount")
    /\ buffer_index' = 0 /\ buffer_print_index' = 0
    /\ UNCHANGED <<ipc, sem, buf, history>>

GetCount == GetSemaphore("getcount", "setcount", "count")
SetCount == SetSemaphore("setcount", "getsignal", "count", MaxBuffers)
GetSignal == GetSemaphore("getsignal", "setsignal", "signal")
SetSignal == SetSemaphore("setsignal", "unlock", "signal", 0)
UnlockMutex == SetSemaphore("unlock", "wait", "mutex", 1)

(* Mutant of WaitSignal: the signal is seen but not consumed. *)
PeekSignal ==
    /\ SpoolerGo("wait", "print")
    /\ sem["signal"] > 0
    /\ UNCHANGED <<ipc, sem, memory, history>>

WaitSignal ==
    /\ SpoolerGo("wait", "print")
    /\ P("signal")
    /\ UNCHANGED <<ipc, memory, history>>

PrintString ==
    /\ SpoolerGo("print", "advance")
    /\ printed' = Append(printed, buf[buffer_print_index])
    /\ UNCHANGED <<ipc, sem, memory, sent>>

AdvancePrintIndex ==
    /\ SpoolerGo("advance", "release")
    /\ buffer_print_index' = Wrap(buffer_print_index)
    /\ UNCHANGED <<ipc, sem, buf, buffer_index, history>>

(* Mutant of ReleaseBuffer: the buffer is not given back. *)
ReleaseNothing ==
    /\ SpoolerGo("release", "wait")
    /\ UNCHANGED <<ipc, sem, memory, history>>

ReleaseBuffer ==
    /\ SpoolerGo("release", "wait")
    /\ V("count")
    /\ UNCHANGED <<ipc, memory, history>>

SpoolerStep ==
    \/ GetMutex \/ LockMutex \/ GetMemory \/ ResetIndices \/ GetCount \/ SetCount
    \/ GetSignal \/ SetSignal \/ UnlockMutex
    \/ WaitSignal \/ PrintString \/ AdvancePrintIndex \/ ReleaseBuffer

-----------------------------------------------------------------------------
(* A client. *)

ClientGo(c, from, to) ==
    client[c] = from /\ client' = [client EXCEPT ![c] = to] /\ UNCHANGED <<spooler, kills>>

(* The four lookups, in the order in which the spooler creates the objects: *)
(* they all succeed exactly when the last one does.                         *)
Attach(c) ==
    /\ ClientGo(c, "attach", IF "signal" \in ipc THEN "input" ELSE "failed")
    /\ UNCHANGED <<ipc, sem, memory, typed, history>>

(* fgets returns a line, or NULL at the end of the input. *)
ReadLine(c) ==
    /\ typed[c] < ClientMsgs
    /\ ClientGo(c, "input", "getbuffer")
    /\ typed' = [typed EXCEPT ![c] = typed[c] + 1]
    /\ UNCHANGED <<ipc, sem, memory, history>>

EndOfInput(c) ==
    /\ ClientGo(c, "input", "done")
    /\ UNCHANGED <<ipc, sem, memory, typed, history>>

(* Mutant of GetBuffer: without P(count). *)
GetAnyBuffer(c) ==
    /\ ClientGo(c, "getbuffer", "lock")
    /\ UNCHANGED <<ipc, sem, memory, typed, history>>

GetBuffer(c) ==
    /\ ClientGo(c, "getbuffer", "lock")
    /\ P("count")
    /\ UNCHANGED <<ipc, memory, typed, history>>

ClientLock(c) ==
    /\ ClientGo(c, "lock", "write")
    /\ P("mutex")
    /\ UNCHANGED <<ipc, memory, typed, history>>

WriteString(c) ==
    /\ ClientGo(c, "write", "advance")
    /\ buf' = [buf EXCEPT ![buffer_index] = <<c, typed[c]>>]
    /\ sent' = Append(sent, <<c, typed[c]>>)
    /\ UNCHANGED <<ipc, sem, buffer_index, buffer_print_index, typed, printed>>

AdvanceIndex(c) ==
    /\ ClientGo(c, "advance", "unlock")
    /\ buffer_index' = Wrap(buffer_index)
    /\ UNCHANGED <<ipc, sem, buf, buffer_print_index, typed, history>>

(* Mutant of ClientUnlock: without V(mutex). *)
ForgetUnlock(c) ==
    /\ ClientGo(c, "unlock", "signal")
    /\ UNCHANGED <<ipc, sem, memory, typed, history>>

ClientUnlock(c) ==
    /\ ClientGo(c, "unlock", "signal")
    /\ V("mutex")
    /\ UNCHANGED <<ipc, memory, typed, history>>

SignalSpooler(c) ==
    /\ ClientGo(c, "signal", "input")
    /\ V("signal")
    /\ UNCHANGED <<ipc, memory, typed, history>>

(* What a client does by itself once it has a line. *)
Deliver(c) ==
    \/ GetBuffer(c) \/ ClientLock(c) \/ WriteString(c) \/ AdvanceIndex(c)
    \/ ClientUnlock(c) \/ SignalSpooler(c)

Client(c) == Attach(c) \/ ReadLine(c) \/ EndOfInput(c) \/ Deliver(c)

-----------------------------------------------------------------------------
(* SIGINT ends a process where it stands. *)

KillSpooler ==
    /\ spooler # "killed" /\ kills < MaxKills
    /\ spooler' = "killed" /\ kills' = kills + 1
    /\ UNCHANGED <<ipc, sem, memory, client, typed, history>>

KillClient(c) ==
    /\ client[c] \notin {"done", "failed", "killed"} /\ kills < MaxKills
    /\ client' = [client EXCEPT ![c] = "killed"] /\ kills' = kills + 1
    /\ UNCHANGED <<ipc, sem, memory, spooler, typed, history>>

Next ==
    \/ SpoolerStep
    \/ KillSpooler
    \/ \E c \in Clients : Client(c) \/ KillClient(c)

(* A runnable process is eventually scheduled, and the kernel serves the    *)
(* waiters of a semaphore in the order in which they arrived.               *)
Fairness ==
    /\ WF_vars(SpoolerStep)
    /\ \A c \in Clients :
          /\ WF_vars(Deliver(c))
          /\ SF_vars(GetBuffer(c)) /\ SF_vars(ClientLock(c))

Spec == Init /\ [][Next]_vars /\ Fairness

(* The spooler is started again: it finds its objects (IPC_CREAT without    *)
(* IPC_EXCL) and initializes them once more, whatever the clients are doing. *)
RestartSpooler ==
    /\ spooler = "killed"
    /\ spooler' = "getmutex"
    /\ UNCHANGED <<ipc, sem, memory, client, typed, kills, history>>

SpecRestart == Init /\ [][Next \/ RestartSpooler]_vars
-----------------------------------------------------------------------------
(* Properties. *)

TypeOK ==
    /\ ipc \subseteq Objects
    /\ sem \in [{"mutex", "count", "signal"} -> Nat]
    /\ buf \in [Slots -> Message \cup {NoString}]
    /\ buffer_index \in Slots /\ buffer_print_index \in Slots
    /\ spooler \in SpoolerStates
    /\ client \in [Clients -> ClientStates]
    /\ typed \in [Clients -> 0..ClientMsgs]
    /\ kills \in 0..MaxKills
    /\ sent \in Seq(Message) /\ printed \in Seq(Message \cup {NoString})

(* "We must ensure that only one producer uses buffer_index at a time"      *)
(* (client.c:96).                                                           *)
OneProducer ==
    \A c, d \in Clients : client[c] \in Critical /\ client[d] \in Critical => c = d

(* One client at a time is between P(mutex) and V(mutex), and none before   *)
(* the spooler has finished its initialization (spooler.c:51, :89).         *)
MutualExclusion ==
    /\ OneProducer
    /\ spooler \in SpoolerSetup => \A c \in Clients : client[c] \notin Critical

(* The spooler prints without the mutex (spooler.c:109): no client writes   *)
(* the buffer it prints.                                                    *)
NoBufferRace ==
    \A c \in Clients :
        spooler = "print" /\ client[c] = "write" => buffer_index # buffer_print_index

(* Once set up, every buffer is free, announced, or held by one process; a  *)
(* process that is killed takes the buffer it holds with it, none is ever   *)
(* gained.                                                                  *)
Holders == {c \in Clients : client[c] \in {"lock", "signal"} \cup Critical}
InHand == Cardinality(Holders) + IF spooler \in {"print", "advance", "release"} THEN 1 ELSE 0

BufferAccounting ==
    spooler \notin SpoolerSetup \cup {"killed"} =>
        LET accounted == sem.count + sem.signal + InHand
        IN  accounted <= MaxBuffers /\ accounted >= MaxBuffers - kills

(* The ring, its indices and the three semaphores implement a first-in      *)
(* first-out channel of MAX_BUFFERS strings: none is overwritten unprinted, *)
(* printed twice or printed half-written, also when a signal overtakes      *)
(* another client's signal or a process is killed.                          *)
Channel == INSTANCE BoundedChannel WITH delivered <- printed, Capacity <- MaxBuffers
ImplementsChannel == Channel!Spec

(* With nobody killed, a line that a client has read is printed, however    *)
(* many clients compete for buffers: no one waits for ever.                 *)
EveryLinePrinted ==
    [](kills = 0) =>
        \A c \in Clients : \A n \in 1..ClientMsgs :
            (typed[c] = n /\ client[c] = "getbuffer")
                ~> \E i \in 1..Len(printed) : printed[i] = <<c, n>>
=============================================================================
