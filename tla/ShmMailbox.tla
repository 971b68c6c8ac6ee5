----------------------------- MODULE ShmMailbox -----------------------------
(***************************************************************************)
(* write_message and read_message of 40_semaphore/sph_chats/task2.c, and   *)
(* the part of run_server that creates the shared memory: processes share  *)
(* an array of slots and take one System V semaphore, mutex_sem, around    *)
(* every access.  The calls are modelled statement by statement, so that   *)
(* what the semaphore protects is visible.  A process may be killed        *)
(* anywhere (nothing gives mutex_sem back).                                *)
(***************************************************************************)
EXTENDS Naturals, FiniteSets

CONSTANTS Server,         \* the process that runs run_server
          Clients,        \* the processes that run run_client
          Message,        \* what can be written: records with a field "type"
          MaxMessages,    \* MAX_MESSAGES
          MaxKills,       \* bound: processes killed from outside
          Nothing         \* no message

Procs == Clients \cup {Server}
Types == {m.type : m \in Message}
Slots == 0..(MaxMessages - 1)

ASSUME MailboxAssumption ==
    /\ MaxMessages \in Nat \ {0}
    /\ MaxKills \in Nat
    /\ Server \notin Clients
    /\ Nothing \notin Message

VARIABLES
    ipc,         \* the IPC objects that exist
    mutex_sem,   \* the value of the semaphore
    state,       \* data.state of each slot: NONE or SENT
    content,     \* the rest of each slot
    pc,          \* where each process is
    op,          \* the call it executes, and the message of that call
    cur,         \* the index i, and then the slot, of that call
    result,      \* what its last read_message returned
    kills        \* processes killed so far

slots == <<state, content>>
vars == <<ipc, mutex_sem, slots, pc, op, cur, result, kills>>

Setup == {"semget", "setval", "shmget", "clear", "unlock_setup"}
Inside == {"scan", "overflow", "fill", "post", "copy", "remove", "unlock"}
Gone == {"failed", "killed"}
States == Setup \cup {"attach", "idle", "lock"} \cup Inside \cup Gone

WriteOp(m) == [call |-> "write", type |-> m.type, msg |-> m]
ReadOp(t) == [call |-> "read", type |-> t, msg |-> Nothing]
NoOp == [call |-> "none", type |-> Nothing, msg |-> Nothing]
Ops == {NoOp} \cup [call : {"write", "read"}, type : Types, msg : Message \cup {Nothing}]

Init ==
    /\ ipc = {}
    /\ mutex_sem = 0
    /\ state = [i \in Slots |-> "NONE"]
    /\ content = [i \in Slots |-> Nothing]
    /\ pc = [p \in Procs |-> IF p = Server THEN "semget" ELSE "attach"]
    /\ op = [p \in Procs |-> NoOp]
    /\ cur = [p \in Procs |-> 0]
    /\ result = [p \in Procs |-> Nothing]
    /\ kills = 0

Go(p, from, to) == pc[p] = from /\ pc' = [pc EXCEPT ![p] = to] /\ UNCHANGED kills

-----------------------------------------------------------------------------
(* run_server creates the semaphore and the memory, and a client looks them *)
(* up.  POSIX leaves the value of a new semaphore indeterminate.            *)

CreateSemaphore ==
    /\ Go(Server, "semget", "setval")
    /\ ipc' = ipc \cup {"sem"}
    /\ mutex_sem' \in 0..1
    /\ UNCHANGED <<slots, op, cur, result>>

LockSemaphore ==
    /\ Go(Server, "setval", "shmget")
    /\ mutex_sem' = 0
    /\ UNCHANGED <<ipc, slots, op, cur, result>>

CreateMemory ==
    /\ Go(Server, "shmget", "clear")
    /\ ipc' = ipc \cup {"shm"}
    /\ UNCHANGED <<mutex_sem, slots, op, cur, result>>

ClearSlots ==
    /\ Go(Server, "clear", "unlock_setup")
    /\ state' = [i \in Slots |-> "NONE"]
    /\ UNCHANGED <<ipc, mutex_sem, content, op, cur, result>>

UnlockSemaphore ==
    /\ Go(Server, "unlock_setup", "idle")
    /\ mutex_sem' = 1
    /\ UNCHANGED <<ipc, slots, op, cur, result>>

Attach(c) ==
    /\ Go(c, "attach", IF {"sem", "shm"} \subseteq ipc THEN "idle" ELSE "failed")
    /\ UNCHANGED <<ipc, mutex_sem, slots, op, cur, result>>

ServerSetup ==
    \/ CreateSemaphore \/ LockSemaphore \/ CreateMemory \/ ClearSlots \/ UnlockSemaphore

-----------------------------------------------------------------------------
(* The calls. *)

(* A process calls write_message or read_message. *)
Call(p, o) ==
    /\ Go(p, "idle", "lock")
    /\ op' = [op EXCEPT ![p] = o]
    /\ UNCHANGED <<ipc, mutex_sem, slots, cur, result>>

(* Mutant of Lock: semop with sem_op 0 instead of -1. *)
LockFree(p) ==
    /\ Go(p, "lock", "scan")
    /\ UNCHANGED <<ipc, mutex_sem, slots, op, cur, result>>

Lock(p) ==
    /\ Go(p, "lock", "scan")
    /\ mutex_sem > 0
    /\ mutex_sem' = mutex_sem - 1
    /\ UNCHANGED <<ipc, slots, op, cur, result>>

(* What the call looks for: a free slot, or a message of its type. *)
Wanted(p, i) ==
    IF op[p].call = "write" THEN state[i] = "NONE"
    ELSE state[i] = "SENT" /\ content[i].type = op[p].type

(* Mutant of ScanNext: i <= MAX_MESSAGES. *)
ScanTooFar(p) ==
    /\ pc[p] = "scan"
    /\ ~Wanted(p, cur[p]) /\ cur[p] + 1 <= MaxMessages
    /\ cur' = [cur EXCEPT ![p] = cur[p] + 1]
    /\ UNCHANGED <<ipc, mutex_sem, slots, pc, op, result, kills>>

(* The body of the for loop, for a slot that is not the one wanted. *)
ScanNext(p) ==
    /\ pc[p] = "scan"
    /\ ~Wanted(p, cur[p]) /\ cur[p] + 1 < MaxMessages
    /\ cur' = [cur EXCEPT ![p] = cur[p] + 1]
    /\ UNCHANGED <<ipc, mutex_sem, slots, pc, op, result, kills>>

ScanFound(p) ==
    /\ Go(p, "scan", IF op[p].call = "write" THEN "fill" ELSE "copy")
    /\ Wanted(p, cur[p])
    /\ UNCHANGED <<ipc, mutex_sem, slots, op, cur, result>>

(* Mutant of ScanExhausted: a reader that finds nothing returns at once. *)
ReturnLocked(p) ==
    /\ ~Wanted(p, cur[p]) /\ cur[p] + 1 = MaxMessages
    /\ IF op[p].call = "write"
         THEN Go(p, "scan", "overflow") /\ UNCHANGED result
         ELSE Go(p, "scan", "idle") /\ result' = [result EXCEPT ![p] = Nothing]
    /\ UNCHANGED <<ipc, mutex_sem, slots, op, cur>>

(* The loop ends without a slot: a reader returns MESSAGE_ERROR, a writer   *)
(* goes on with a pointer that was never set.                               *)
ScanExhausted(p) ==
    /\ ~Wanted(p, cur[p]) /\ cur[p] + 1 = MaxMessages
    /\ IF op[p].call = "write"
         THEN Go(p, "scan", "overflow") /\ UNCHANGED result
         ELSE Go(p, "scan", "unlock") /\ result' = [result EXCEPT ![p] = Nothing]
    /\ UNCHANGED <<ipc, mutex_sem, slots, op, cur>>

(* The stray pointer faults, or it still points to a slot of an earlier call. *)
OverflowFaults(p) ==
    /\ Go(p, "overflow", "killed")
    /\ UNCHANGED <<ipc, mutex_sem, slots, op, cur, result>>

OverflowHits(p) ==
    /\ Go(p, "overflow", "fill")
    /\ \E i \in Slots : cur' = [cur EXCEPT ![p] = i]
    /\ UNCHANGED <<ipc, mutex_sem, slots, op, result>>

FillSlot(p) ==
    /\ Go(p, "fill", "post")
    /\ content' = [content EXCEPT ![cur[p]] = op[p].msg]
    /\ UNCHANGED <<ipc, mutex_sem, state, op, cur, result>>

PostSlot(p) ==
    /\ Go(p, "post", "unlock")
    /\ state' = [state EXCEPT ![cur[p]] = "SENT"]
    /\ UNCHANGED <<ipc, mutex_sem, content, op, cur, result>>

CopySlot(p) ==
    /\ Go(p, "copy", "remove")
    /\ op' = [op EXCEPT ![p].msg = content[cur[p]]]
    /\ UNCHANGED <<ipc, mutex_sem, slots, cur, result>>

(* Mutant of RemoveMessage: the slot stays MESSAGE_SENT. *)
KeepMessage(p) ==
    /\ Go(p, "remove", "unlock")
    /\ result' = [result EXCEPT ![p] = op[p].msg]
    /\ UNCHANGED <<ipc, mutex_sem, slots, op, cur>>

RemoveMessage(p) ==
    /\ Go(p, "remove", "unlock")
    /\ state' = [state EXCEPT ![cur[p]] = "NONE"]
    /\ result' = [result EXCEPT ![p] = op[p].msg]
    /\ UNCHANGED <<ipc, mutex_sem, content, op, cur>>

Unlock(p) ==
    /\ Go(p, "unlock", "idle")
    /\ mutex_sem' = mutex_sem + 1
    /\ op' = [op EXCEPT ![p] = NoOp] /\ cur' = [cur EXCEPT ![p] = 0]
    /\ UNCHANGED <<ipc, slots, result>>

(* What a process does by itself once it has made a call. *)
Access(p) ==
    \/ Lock(p) \/ ScanNext(p) \/ ScanFound(p) \/ ScanExhausted(p)
    \/ OverflowFaults(p) \/ OverflowHits(p) \/ FillSlot(p) \/ PostSlot(p)
    \/ CopySlot(p) \/ RemoveMessage(p) \/ Unlock(p)

Kill(p) ==
    /\ pc[p] \notin Gone /\ kills < MaxKills
    /\ pc' = [pc EXCEPT ![p] = "killed"] /\ kills' = kills + 1
    /\ UNCHANGED <<ipc, mutex_sem, slots, op, cur, result>>

Next ==
    \/ ServerSetup
    \/ \E c \in Clients : Attach(c)
    \/ \E p \in Procs :
          \/ \E m \in Message : Call(p, WriteOp(m))
          \/ \E t \in Types : Call(p, ReadOp(t))
          \/ Access(p)
          \/ Kill(p)

(* A runnable process is scheduled; the kernel serves the processes that    *)
(* wait for a semaphore in the order in which they arrived.                 *)
Fairness ==
    /\ WF_vars(ServerSetup)
    /\ \A p \in Procs : WF_vars(Access(p)) /\ SF_vars(Lock(p))

Spec == Init /\ [][Next]_vars /\ Fairness

(* Ctrl-C while the process waits for the semaphore: semop is not restarted *)
(* after the handler and fails with EINTR.  write_message ends the process, *)
(* read_message prints the error and goes on.                               *)
Interrupted(p) ==
    /\ Go(p, "lock", IF op[p].call = "write" THEN "failed" ELSE "scan")
    /\ mutex_sem = 0
    /\ UNCHANGED <<ipc, mutex_sem, slots, op, cur, result>>

SpecInterrupted == Init /\ [][Next \/ \E p \in Procs : Interrupted(p)]_vars

-----------------------------------------------------------------------------
(* Properties. *)

TypeOK ==
    /\ ipc \subseteq {"sem", "shm"}
    /\ mutex_sem \in Nat
    /\ state \in [Slots -> {"NONE", "SENT"}]
    /\ content \in [Slots -> Message \cup {Nothing}]
    /\ pc \in [Procs -> States]
    /\ op \in [Procs -> Ops]
    /\ cur \in [Procs -> Slots]
    /\ result \in [Procs -> Message \cup {Nothing}]
    /\ kills \in 0..MaxKills

(* The semaphore "excludes threads from each other in the critical section" *)
(* (task2.c:512).                                                           *)
OneInside == \A p, q \in Procs : pc[p] \in Inside /\ pc[q] \in Inside => p = q

(* One process at a time is between the two semop calls of write_message or *)
(* read_message, and none before run_server has initialized the slots       *)
(* (task2.c:306, :329, :511).                                               *)
MutualExclusion ==
    /\ OneInside
    /\ pc[Server] \in Setup => \A p \in Procs : pc[p] \notin Inside

(* The statements of write_message and read_message, interleaved in any way *)
(* and cut short by kills, look like whole writes and reads of the mailbox: *)
(* no message is seen half-written, read twice, or lost unless the buffer   *)
(* is full.                                                                 *)
Unread == {i \in Slots : state[i] = "SENT"}
Mail == [m \in {content[i] : i \in Unread} |-> Cardinality({i \in Unread : content[i] = m})]
Box == INSTANCE Mailbox WITH mail <- Mail
ImplementsMailbox == Box!Spec

(* While nobody dies, every call returns: no process waits for mutex_sem    *)
(* for ever, however often the others call.                                 *)
EveryCallReturns ==
    [](\A p \in Procs : pc[p] # "killed")
        => \A p \in Procs : pc[p] = "lock" ~> pc[p] = "idle"
=============================================================================
