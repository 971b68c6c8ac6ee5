-------------------------- MODULE SphServerClient --------------------------
(***************************************************************************)
(* 40_semaphore/sph_sv_cl: one server and several clients hand messages    *)
(* over through one shared memory segment, guarded by a set of two System  *)
(* V semaphores:                                                           *)
(*   sem[0] - the segment is in use,                                       *)
(*   sem[1] - the segment holds a message the server has not printed.      *)
(* One semop call on several semaphores is atomic, so each is one action;  *)
(* between two calls the processes interleave freely.  Any process may be  *)
(* killed at any point: no call uses SEM_UNDO, so nothing is rolled back.  *)
(***************************************************************************)
EXTENDS Naturals, Sequences, FiniteSets

CONSTANTS Clients,      \* the client processes
          ServerMsgs,   \* NUMMSG of sph_server.c: messages the server prints
          ClientMsgs,   \* NUMMSG of sph_client.c: messages a client sends
          MaxKills,     \* bound: processes killed from outside
          NoMessage     \* the zeroed segment

Message == Clients \X (1..ClientMsgs)

ASSUME SphAssumption ==
    /\ ServerMsgs \in Nat \ {0}
    /\ ClientMsgs \in Nat \ {0}
    /\ MaxKills \in Nat
    /\ NoMessage \notin Message

VARIABLES
    ipc,       \* what can be found now: "keys" (the files behind ftok),
               \* "semset" (the semaphores), "segment" (the shared memory)
    sem,       \* the values of the two semaphores
    shm,       \* what the segment holds
    server,    \* where the server is
    served,    \* i of the server's loop
    client,    \* where each client is
    count,     \* i of each client's loop
    kills,     \* processes killed so far
    sent,      \* history: messages published, in order
    printed    \* history: what the server printed, in order

history == <<sent, printed>>
vars == <<ipc, sem, shm, server, served, client, count, kills, sent, printed>>

Setup == {"start", "semget", "setval0", "setval1", "shmget"}
ServerUses == {"print", "release"}
Teardown == {"rmsem", "rmshm", "unlink"}
Ended == {"done", "failed", "killed"}
ServerStates == Setup \cup {"wait"} \cup ServerUses \cup Teardown \cup Ended

Attaching == {"start", "semget", "shmget"}
ClientUses == {"write", "publish"}
ClientStates == Attaching \cup {"acquire"} \cup ClientUses \cup Ended

Init ==
    /\ ipc = {}
    /\ sem = [n \in 0..1 |-> 0]
    /\ shm = NoMessage
    /\ server = "start" /\ served = 0
    /\ client = [c \in Clients |-> "start"]
    /\ count = [c \in Clients |-> 0]
    /\ kills = 0
    /\ sent = <<>> /\ printed = <<>>

-----------------------------------------------------------------------------
(* The server. *)

ServerGo(from, to) == server = from /\ server' = to

CreateKeys ==
    /\ ServerGo("start", "semget")
    /\ ipc' = ipc \cup {"keys"}
    /\ UNCHANGED <<sem, shm, served, client, count, kills, history>>

(* POSIX leaves the values of a new set indeterminate. *)
CreateSemaphores ==
    /\ ServerGo("semget", "setval0")
    /\ ipc' = ipc \cup {"semset"}
    /\ sem' \in [0..1 -> 0..1]
    /\ UNCHANGED <<shm, served, client, count, kills, history>>

InitSemaphore0 ==
    /\ ServerGo("setval0", "setval1")
    /\ sem' = [sem EXCEPT ![0] = 0]
    /\ UNCHANGED <<ipc, shm, served, client, count, kills, history>>

InitSemaphore1 ==
    /\ ServerGo("setval1", "shmget")
    /\ sem' = [sem EXCEPT ![1] = 0]
    /\ UNCHANGED <<ipc, shm, served, client, count, kills, history>>

CreateSegment ==
    /\ ServerGo("shmget", "wait")
    /\ ipc' = ipc \cup {"segment"}
    /\ UNCHANGED <<sem, shm, served, client, count, kills, history>>

(* Mutant of ServerAcquire: sem[1] stays up. *)
AcquireKeepsFlag ==
    /\ ServerGo("wait", "print")
    /\ sem[1] > 0
    /\ sem' = [sem EXCEPT ![0] = sem[0] + 1]
    /\ UNCHANGED <<ipc, shm, served, client, count, kills, history>>

(* Takes sem[1] and raises sem[0] in one call.  It does not wait for sem[0] *)
(* to be 0.                                                                 *)
ServerAcquire ==
    /\ ServerGo("wait", "print")
    /\ sem[1] > 0
    /\ sem' = [n \in 0..1 |-> IF n = 0 THEN sem[0] + 1 ELSE sem[1] - 1]
    /\ UNCHANGED <<ipc, shm, served, client, count, kills, history>>

PrintMessage ==
    /\ ServerGo("print", "release")
    /\ printed' = Append(printed, shm)
    /\ UNCHANGED <<ipc, sem, shm, served, client, count, kills, sent>>

(* Mutants of ServerRelease: one pass too many; sem[0] stays up. *)
ReleaseOnceMore ==
    /\ server = "release" /\ sem[0] > 0
    /\ sem' = [sem EXCEPT ![0] = sem[0] - 1]
    /\ served' = served + 1
    /\ server' = IF served + 1 <= ServerMsgs THEN "wait" ELSE "rmsem"
    /\ UNCHANGED <<ipc, shm, client, count, kills, history>>

ReleaseNothing ==
    /\ server = "release"
    /\ served' = served + 1
    /\ server' = IF served + 1 < ServerMsgs THEN "wait" ELSE "rmsem"
    /\ UNCHANGED <<ipc, sem, shm, client, count, kills, history>>

(* IPC_NOWAIT: with sem[0] at 0 the call fails and the server returns. *)
ServerRelease ==
    /\ server = "release"
    /\ IF sem[0] > 0
         THEN /\ sem' = [sem EXCEPT ![0] = sem[0] - 1]
              /\ served' = served + 1
              /\ server' = IF served + 1 < ServerMsgs THEN "wait" ELSE "rmsem"
         ELSE server' = "failed" /\ UNCHANGED <<sem, served>>
    /\ UNCHANGED <<ipc, shm, client, count, kills, history>>

RemoveSemaphores ==
    /\ ServerGo("rmsem", "rmshm")
    /\ ipc' = ipc \ {"semset"}
    /\ UNCHANGED <<sem, shm, served, client, count, kills, history>>

RemoveSegment ==
    /\ ServerGo("rmshm", "unlink")
    /\ ipc' = ipc \ {"segment"}
    /\ UNCHANGED <<sem, shm, served, client, count, kills, history>>

RemoveKeys ==
    /\ ServerGo("unlink", "done")
    /\ ipc' = ipc \ {"keys"}
    /\ UNCHANGED <<sem, shm, served, client, count, kills, history>>

Server ==
    \/ CreateKeys \/ CreateSemaphores \/ InitSemaphore0 \/ InitSemaphore1
    \/ CreateSegment \/ ServerAcquire \/ PrintMessage \/ ServerRelease
    \/ RemoveSemaphores \/ RemoveSegment \/ RemoveKeys

-----------------------------------------------------------------------------
(* A client. *)

ClientGo(c, from, to) == client[c] = from /\ client' = [client EXCEPT ![c] = to]

(* One lookup of the attach sequence: the object is there or the client ends. *)
Lookup(c, from, object, to) ==
    /\ ClientGo(c, from, IF object \in ipc THEN to ELSE "failed")
    /\ UNCHANGED <<ipc, sem, shm, server, served, count, kills, history>>

FindKeys(c) == Lookup(c, "start", "keys", "semget")
FindSemaphores(c) == Lookup(c, "semget", "semset", "shmget")

(* Mutant of FindSegment: the result of shmget is not checked. *)
AttachUnchecked(c) == Lookup(c, "shmget", "semset", "acquire")
FindSegment(c) == Lookup(c, "shmget", "segment", "acquire")

(* Mutant of ClientAcquire: without the operation on sem[1]. *)
AcquireUnprinted(c) ==
    /\ ClientGo(c, "acquire", "write")
    /\ "semset" \in ipc /\ sem[0] = 0
    /\ sem' = [sem EXCEPT ![0] = 1]
    /\ UNCHANGED <<ipc, shm, server, served, count, kills, history>>

(* Waits until both semaphores are 0 and raises sem[0], in one call. *)
ClientAcquire(c) ==
    /\ ClientGo(c, "acquire", "write")
    /\ "semset" \in ipc /\ sem[0] = 0 /\ sem[1] = 0
    /\ sem' = [sem EXCEPT ![0] = 1]
    /\ UNCHANGED <<ipc, shm, server, served, count, kills, history>>

WriteMessage(c) ==
    /\ ClientGo(c, "write", "publish")
    /\ shm' = <<c, count[c] + 1>>
    /\ UNCHANGED <<ipc, sem, server, served, count, kills, history>>

(* Lowers sem[0] and raises sem[1] in one call: the message is published. *)
PublishMessage(c) ==
    /\ "semset" \in ipc /\ sem[0] > 0
    /\ ClientGo(c, "publish", IF count[c] + 1 < ClientMsgs THEN "acquire" ELSE "done")
    /\ sem' = [n \in 0..1 |-> IF n = 0 THEN sem[0] - 1 ELSE sem[1] + 1]
    /\ count' = [count EXCEPT ![c] = count[c] + 1]
    /\ sent' = Append(sent, <<c, count[c] + 1>>)
    /\ UNCHANGED <<ipc, shm, server, served, kills, printed>>

(* A semop on a removed set fails with EIDRM or EINVAL and the client ends. *)
SemaphoresGone(c) ==
    /\ "semset" \notin ipc
    /\ client[c] \in {"acquire", "publish"}
    /\ client' = [client EXCEPT ![c] = "failed"]
    /\ UNCHANGED <<ipc, sem, shm, server, served, count, kills, history>>

Client(c) ==
    \/ FindKeys(c) \/ FindSemaphores(c) \/ FindSegment(c)
    \/ ClientAcquire(c) \/ WriteMessage(c) \/ PublishMessage(c)
    \/ SemaphoresGone(c)

-----------------------------------------------------------------------------
(* Nothing catches SIGINT: the process is gone, the semaphores stay as they *)
(* are.                                                                     *)

KillServer ==
    /\ server \notin Ended /\ kills < MaxKills
    /\ server' = "killed" /\ kills' = kills + 1
    /\ UNCHANGED <<ipc, sem, shm, served, client, count, history>>

KillClient(c) ==
    /\ client[c] \notin Ended /\ kills < MaxKills
    /\ client' = [client EXCEPT ![c] = "killed"] /\ kills' = kills + 1
    /\ UNCHANGED <<ipc, sem, shm, server, served, count, history>>

Next ==
    \/ Server
    \/ KillServer
    \/ \E c \in Clients : Client(c) \/ KillClient(c)

(* A runnable process is eventually scheduled. *)
Fairness == WF_vars(Server) /\ \A c \in Clients : WF_vars(Client(c))

Spec == Init /\ [][Next]_vars /\ Fairness

-----------------------------------------------------------------------------
(* Properties. *)

TypeOK ==
    /\ ipc \subseteq {"keys", "semset", "segment"}
    /\ sem \in [0..1 -> Nat]
    /\ shm \in Message \cup {NoMessage}
    /\ server \in ServerStates /\ served \in 0..ServerMsgs
    /\ client \in [Clients -> ClientStates]
    /\ count \in [Clients -> 0..ClientMsgs]
    /\ kills \in 0..MaxKills
    /\ sent \in Seq(Message) /\ printed \in Seq(Message \cup {NoMessage})

(* The segment is used by one process at a time: no client writes while     *)
(* another writes or while the server prints (sph_server.c:54).  The server *)
(* never checks sem[0], so this rests on what the clients leave in sem[1].  *)
MutualExclusion ==
    /\ \A c, d \in Clients :
          client[c] \in ClientUses /\ client[d] \in ClientUses => c = d
    /\ server \in ServerUses => \A c \in Clients : client[c] \notin ClientUses

(* No client reaches its first semop before the server has given both       *)
(* semaphores their values, although the set can be found before that: the  *)
(* segment is created last (sph_server.c:58-71, sph_client.c:40-48).        *)
UseAfterSetup ==
    server \in Setup =>
        \A c \in Clients : client[c] \in Attaching \cup {"failed", "killed"}

(* The segment implements a channel of capacity 1: nothing is overwritten    *)
(* before it is printed, printed twice, torn or reordered, whoever is killed *)
(* and whenever.                                                            *)
Channel == INSTANCE BoundedChannel WITH delivered <- printed, Capacity <- 1
ImplementsChannel == Channel!Spec

(* With nobody killed, once every client is past its attach sequence and    *)
(* they have enough messages between them, the server prints its ServerMsgs *)
(* and removes all it created; no process stays blocked in semop.           *)
AllAttached == \A c \in Clients : client[c] \notin Attaching \cup {"failed", "killed"}

Termination ==
    [](kills = 0) /\ <>AllAttached
        => <>(/\ server = "done" /\ ipc = {}
              /\ Len(printed) = ServerMsgs
              /\ \A c \in Clients : client[c] \in Ended)

-----------------------------------------------------------------------------
(* The inductive invariant behind MutualExclusion and ImplementsChannel.    *)
(* Once the segment can be found, the two semaphores and the program        *)
(* counters tell where the one message under way is.                        *)

Active == {"acquire"} \cup ClientUses \cup {"done"}

Opened ==
    \/ "segment" \in ipc
    \/ server \notin Setup \cup {"killed"}
    \/ \E c \in Clients : client[c] \in Active

(* Before that nothing was sent, and the semaphores get their values. *)
SetupInv ==
    server \in Setup =>
        /\ "segment" \notin ipc
        /\ sent = <<>> /\ printed = <<>>
        /\ server \in {"setval1", "shmget"} => sem[0] = 0
        /\ server = "shmget" => sem[1] = 0

(* Loop counters stay below their limits inside the loops. *)
LoopBounds ==
    /\ \A c \in Clients :
          client[c] \in Attaching \cup {"acquire"} \cup ClientUses => count[c] < ClientMsgs
    /\ server \in Setup \cup {"wait"} \cup ServerUses => served < ServerMsgs

(* At most one semaphore is up, and whoever uses the segment holds sem[0]. *)
SemDiscipline ==
    /\ sem[0] + sem[1] <= 1
    /\ server \in ServerUses => sem[0] = 1
    /\ \A c \in Clients : client[c] \in ClientUses => sem[0] = 1

(* The segment holds the one published message that is not yet printed. *)
OneUnprinted ==
    Len(sent) = Len(printed) + 1 /\ shm = sent[Len(printed) + 1]

(* Where the semaphores and the program counters place that message. *)
MessageFlow ==
    /\ sem[1] = 1 \/ server = "print" => OneUnprinted
    /\ server = "release" \/ (sem[0] = 0 /\ sem[1] = 0) => Len(sent) = Len(printed)
    /\ \A c \in Clients :
          /\ client[c] \in ClientUses => Len(sent) = Len(printed)
          /\ client[c] = "publish" => shm = <<c, count[c] + 1>>

IInv ==
    /\ TypeOK
    /\ UseAfterSetup
    /\ MutualExclusion
    /\ LoopBounds
    /\ SetupInv
    /\ Opened => SemDiscipline /\ MessageFlow
=============================================================================
