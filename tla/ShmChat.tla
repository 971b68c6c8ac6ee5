------------------------------ MODULE ShmChat ------------------------------
(***************************************************************************)
(* The chat of 40_semaphore/sph_chats/task2.c: run_server hands out client *)
(* ids and forwards what the clients post; run_client registers, prints    *)
(* what it is sent, posts what its user types, and signs off.  They share  *)
(* the message buffer of module Mailbox and nothing else.  Each access to  *)
(* it is one action, together with the local work up to the next one; only *)
(* when the semaphore has been removed a read is two.                      *)
(*                                                                         *)
(* SIGINT only sets program_exit_flag; a process that waits for input when *)
(* it arrives goes on into gets and stays there until its user types a     *)
(* line.  Any other signal kills, and inside a mailbox call it leaves the  *)
(* semaphore down for good.  (SIGINT inside semop: ShmMailbox.)            *)
(***************************************************************************)
EXTENDS Integers, Sequences, Bags, FiniteSets

CONSTANTS Server,       \* the process of run_server, and SERVER_NAME
          Clients,      \* the processes of run_client, and their names
          MaxClients,   \* MAX_CLIENTS
          MaxMessages,  \* MAX_MESSAGES
          Posts,        \* bound: the texts typed, each of them once
          MaxSignals,   \* bound: signals sent
          Nothing       \* no message, nobody

Procs == Clients \cup {Server}
Ids == 0..(MaxClients - 1)
NoId == -1
SERVER_ID == MaxClients + 41

MESSAGE_CLIENT_ID_REQUEST == 1
MESSAGE_CLIENT_ID_SET == 2
MESSAGE_POST_REQUEST == 3
MESSAGE_OUT_CHAT == 4
MESSAGE_MAGIC_NUMBER == 5

set_addressee(id) == MESSAGE_MAGIC_NUMBER + id

Message ==
    [type : 1..4 \cup {set_addressee(i) : i \in Ids},
     kind : {"MESSAGE", "OUT", "IN"},
     writer_name : Procs \cup {Nothing},
     writer_id : Ids \cup {NoId, SERVER_ID},
     text : Clients \cup Posts \cup Ids \cup {Nothing}]

Msg(type, kind, name, id, text) ==
    [type |-> type, kind |-> kind, writer_name |-> name, writer_id |-> id, text |-> text]

ASSUME ChatAssumption ==
    /\ MaxClients \in Nat \ {0}
    /\ MaxMessages \in Nat \ {0}
    /\ MaxSignals \in Nat
    /\ Server \notin Clients /\ Nothing \notin Procs /\ Nothing \notin Message

VARIABLES
    mail,                 \* the unread messages in shared memory, a bag
    mutex_sem,            \* the semaphore, between calls: 0 once a call was not ended
    message_ptr,          \* the message each client has copied without the semaphore,
                          \* and whose slot it has still to free
    server,               \* where run_server is
    client_id_pool,       \* FREE or TAKED, for each id
    todo,                 \* the ids its for loop has still to notify
    handled,              \* the message that the notices are about
    client,               \* where each run_client is
    client_id,            \* the id each client has
    wait_client_id_flag,  \* who has asked for an id
    program_exit_flag,    \* the processes whose flag is set
    signals,              \* signals sent so far
    audience,             \* history: who had an id when each text was posted
    author,               \* history: who posted each text
    seen                  \* history: the texts each client printed, in order

users == <<client, client_id, wait_client_id_flag>>
history == <<audience, author, seen>>
vars == <<mail, mutex_sem, message_ptr, server, client_id_pool, todo, handled, users,
          program_exit_flag, signals, history>>

(* A read and what the reader does with the message are one action here.    *)
Box == INSTANCE Mailbox WITH result <- Nothing

Notifying == {"announce", "forward", "farewell", "endjob"}
ServerStates == {"loop", "input", "gets", "register", "grant", "posts", "outs", "remove",
                 "cut", "done", "crashed"} \cup Notifying
Gone == {"gone", "ended", "failed", "killed"}
ClientStates == {"start", "loop", "receive", "input", "gets", "leave"} \cup Gone

Init ==
    /\ mail = EmptyBag /\ mutex_sem = 1
    /\ message_ptr = [c \in Clients |-> Nothing]
    /\ server = "loop"
    /\ client_id_pool = [i \in Ids |-> "FREE"]
    /\ todo = {} /\ handled = Nothing
    /\ client = [c \in Clients |-> "start"]
    /\ client_id = [c \in Clients |-> NoId]
    /\ wait_client_id_flag = [c \in Clients |-> FALSE]
    /\ program_exit_flag = {} /\ signals = 0
    /\ audience = [p \in Posts |-> {}] /\ author = [p \in Posts |-> Nothing]
    /\ seen = [c \in Clients |-> <<>>]

Taked(pool) == {i \in Ids : pool[i] = "TAKED"}
Least(S) == CHOOSE i \in S : \A j \in S : i <= j

-----------------------------------------------------------------------------
(* The server. *)

ServerGo(from, to) ==
    /\ server = from /\ server' = to
    /\ UNCHANGED <<mutex_sem, message_ptr, users, program_exit_flag, signals, history>>

(* A for loop that notifies some ids about a message, the least id first;   *)
(* and what follows when none is left.                                      *)
AfterNotifying ==
    [announce |-> "posts", forward |-> "outs", farewell |-> "loop", endjob |-> "remove"]

ServerNotifies(from, loop, message, ids) ==
    /\ ServerGo(from, IF ids = {} THEN AfterNotifying[loop] ELSE loop)
    /\ todo' = ids
    /\ handled' = IF ids = {} THEN Nothing ELSE message


(* Everyone is told that the server stops. *)
StartEndJob(from) ==
    /\ ServerNotifies(from, "endjob", Nothing, Taked(client_id_pool))
    /\ UNCHANGED <<mail, client_id_pool>>

ServerLoop ==
    \/ Server \in program_exit_flag /\ StartEndJob("loop")
    \/ /\ Server \notin program_exit_flag
       /\ ServerGo("loop", "input")
       /\ UNCHANGED <<mail, client_id_pool, todo, handled>>

(* input(5): nothing, or a line that is not a command.  In gets only a line *)
(* takes it on.                                                             *)
ServerInput ==
    /\ ServerGo("input", "register")
    /\ UNCHANGED <<mail, client_id_pool, todo, handled>>

ServerTypesLine ==
    /\ ServerGo("gets", "register")
    /\ UNCHANGED <<mail, client_id_pool, todo, handled>>

ServerQuits == \E from \in {"input", "gets"} : StartEndJob(from)

ReadRequest ==
    /\ mutex_sem = 1
    /\ \E message \in Box!Returned(MESSAGE_CLIENT_ID_REQUEST) :
          /\ Box!Take(message)
          /\ ServerGo("register", IF message = Nothing THEN "posts" ELSE "grant")
          /\ handled' = message
    /\ UNCHANGED <<client_id_pool, todo>>

(* Mutant of GrantId: the id is not marked TAKED. *)
GrantUnreserved ==
    LET free == Ids \ Taked(client_id_pool)
    IN  /\ free # {} /\ mutex_sem = 1
        /\ ServerNotifies("grant", "announce", handled, Taked(client_id_pool))
        /\ Box!Put(Msg(MESSAGE_CLIENT_ID_SET, "MESSAGE", Server, SERVER_ID, Least(free)))
        /\ UNCHANGED client_id_pool

(* The first free id is reserved and sent off to whoever reads it first. *)
GrantId ==
    LET free == Ids \ Taked(client_id_pool)
        id == Least(free)
    IN  /\ free # {} /\ mutex_sem = 1
        /\ ServerNotifies("grant", "announce", handled, Taked(client_id_pool))
        /\ client_id_pool' = [client_id_pool EXCEPT ![id] = "TAKED"]
        /\ Box!Put(Msg(MESSAGE_CLIENT_ID_SET, "MESSAGE", Server, SERVER_ID, id))

(* No id is free: the request has been read and nothing comes of it. *)
DropRequest ==
    /\ Taked(client_id_pool) = Ids
    /\ ServerGo("grant", "posts")
    /\ handled' = Nothing
    /\ UNCHANGED <<mail, client_id_pool, todo>>

(* Mutants of Readers: the writer is not left out; < instead of !=. *)
EveryReader(message) == Taked(client_id_pool)
LowerReaders(message) == {i \in Taked(client_id_pool) : i < message.writer_id}

(* Whom a text is forwarded to: everyone but its writer. *)
Readers(message) == Taked(client_id_pool) \ {message.writer_id}

ReadPost ==
    /\ mutex_sem = 1
    /\ \E message \in Box!Returned(MESSAGE_POST_REQUEST) :
          /\ Box!Take(message)
          /\ IF message = Nothing
               THEN ServerGo("posts", "outs") /\ UNCHANGED <<todo, handled>>
               ELSE ServerNotifies("posts", "forward", message, Readers(message))
    /\ UNCHANGED client_id_pool

(* Mutant of FreeId: the id stays TAKED. *)
KeepId(id) == client_id_pool

(* A client that never got its id signs off with -1: the store lands in     *)
(* front of client_id_pool, unnoticed or not.                               *)
FreeId(id) ==
    IF id \in Ids THEN [client_id_pool EXCEPT ![id] = "FREE"] ELSE client_id_pool

ReadOut ==
    /\ mutex_sem = 1
    /\ \E message_out \in Box!Returned(MESSAGE_OUT_CHAT) :
        /\ Box!Take(message_out)
        /\ \/ /\ message_out = Nothing
              /\ ServerGo("outs", "loop")
              /\ UNCHANGED <<client_id_pool, todo, handled>>
           \/ /\ message_out # Nothing
              /\ client_id_pool' = FreeId(message_out.writer_id)
              /\ \/ ServerNotifies("outs", "farewell", message_out, Taked(client_id_pool'))
                 \/ /\ message_out.writer_id = NoId
                    /\ ServerGo("outs", "crashed") /\ UNCHANGED <<todo, handled>>

(* What one pass of a for loop sends to client id i.  The name in a notice  *)
(* of leaving is that of the last message read as a post, or what an        *)
(* unsuccessful read leaves on the stack: never SERVER_NAME.                *)
Notice(i) ==
    CASE server = "announce" ->
             Msg(set_addressee(i), "IN", Server, SERVER_ID, handled.writer_name)
      [] server = "forward" ->
             Msg(set_addressee(i), "MESSAGE", handled.writer_name, SERVER_ID, handled.text)
      [] server = "farewell" ->
             Msg(set_addressee(i), "OUT", Nothing, SERVER_ID, handled.text)
      [] server = "endjob" ->
             Msg(set_addressee(i), "OUT", Server, SERVER_ID, Nothing)

Notify ==
    /\ server \in Notifying /\ mutex_sem = 1
    /\ Box!Put(Notice(Least(todo)))
    /\ ServerNotifies(server, server, handled, todo \ {Least(todo)})
    /\ UNCHANGED client_id_pool

(* Someone who runs waits for an id, and a reply is there.                  *)
ReplyDue ==
    /\ \E m \in BagToSet(mail) : m.type = MESSAGE_CLIENT_ID_SET
    /\ \E c \in Clients :
          client[c] = "loop" /\ wait_client_id_flag[c] /\ client_id[c] = NoId
          /\ c \notin program_exit_flag

(* After 15 seconds the memory and the semaphore are removed.  A client     *)
(* that waits looks for a reply every second, so none is left to it, unless *)
(* the semaphore is down or a signal cut the wait short.                    *)
RemoveIPC ==
    /\ \/ ServerGo("remove", "done") /\ (ReplyDue => mutex_sem = 0)
       \/ ServerGo("cut", "done")
    /\ UNCHANGED <<mail, client_id_pool, todo, handled>>

ServerStep ==
    \/ ServerLoop \/ ServerInput \/ ReadRequest \/ GrantId \/ DropRequest
    \/ ReadPost \/ ReadOut \/ Notify \/ RemoveIPC

-----------------------------------------------------------------------------
(* A client. *)

ClientGo(c, from, to) ==
    /\ message_ptr[c] = Nothing
    /\ client[c] = from /\ client' = [client EXCEPT ![c] = to]
    /\ UNCHANGED <<mutex_sem, server, client_id_pool, todo, handled, program_exit_flag, signals>>

Exiting(c) == c \in program_exit_flag

(* Without the semaphore write_message ends the process.                    *)
ClientWrite(c, from, m, to) ==
    /\ UNCHANGED message_ptr
    /\ IF server = "done"
         THEN ClientGo(c, from, "failed") /\ UNCHANGED mail
         ELSE mutex_sem = 1 /\ ClientGo(c, from, to) /\ Box!Put(m)

(* read_message goes on without it, on the memory the process still has     *)
(* attached: others may copy the message before its slot is freed.          *)
ClientRead(c, m) ==
    IF server = "done"
      THEN message_ptr' = [message_ptr EXCEPT ![c] = m] /\ UNCHANGED mail
      ELSE mutex_sem = 1 /\ Box!Take(m) /\ UNCHANGED message_ptr

FreeSlot(c) ==
    /\ message_ptr[c] # Nothing /\ client[c] # "killed"
    /\ Box!Take(message_ptr[c])
    /\ message_ptr' = [message_ptr EXCEPT ![c] = Nothing]
    /\ UNCHANGED <<mutex_sem, server, client_id_pool, todo, handled, users,
                   program_exit_flag, signals, history>>

Attach(c) ==
    /\ ClientGo(c, "start", IF server = "done" THEN "failed" ELSE "loop")
    /\ UNCHANGED <<mail, message_ptr, client_id, wait_client_id_flag, history>>

LoopExit(c) ==
    /\ Exiting(c)
    /\ ClientGo(c, "loop", "leave")
    /\ UNCHANGED <<mail, message_ptr, client_id, wait_client_id_flag, history>>

(* Mutant of RequestId: the request goes out as a reply. *)
RequestAsReply(c) ==
    /\ ~Exiting(c) /\ client_id[c] = NoId /\ ~wait_client_id_flag[c]
    /\ ClientWrite(c, "loop", Msg(MESSAGE_CLIENT_ID_SET, "IN", c, NoId, c), "loop")
    /\ wait_client_id_flag' = [wait_client_id_flag EXCEPT ![c] = TRUE]
    /\ UNCHANGED <<client_id, history>>

RequestId(c) ==
    /\ ~Exiting(c) /\ client_id[c] = NoId /\ ~wait_client_id_flag[c]
    /\ ClientWrite(c, "loop", Msg(MESSAGE_CLIENT_ID_REQUEST, "IN", c, NoId, c), "loop")
    /\ wait_client_id_flag' = [wait_client_id_flag EXCEPT ![c] = TRUE]
    /\ UNCHANGED <<client_id, history>>

(* A reply does not say whom it is for: any client that waits takes it.     *)
AwaitId(c) ==
    /\ ~Exiting(c) /\ client_id[c] = NoId /\ wait_client_id_flag[c]
    /\ \E message \in Box!Returned(MESSAGE_CLIENT_ID_SET) :
          /\ ClientRead(c, message)
          /\ IF message = Nothing
               THEN ClientGo(c, "loop", "loop") /\ UNCHANGED client_id
               ELSE /\ ClientGo(c, "loop", "receive")
                    /\ client_id' = [client_id EXCEPT ![c] = message.text]
    /\ UNCHANGED <<wait_client_id_flag, history>>

LoopAgain(c) ==
    /\ ~Exiting(c) /\ client_id[c] # NoId
    /\ ClientGo(c, "loop", "receive")
    /\ UNCHANGED <<mail, message_ptr, client_id, wait_client_id_flag, history>>

(* The inner loop: print all there is.  "OUT" from the server ends it all.  *)
Receive(c) ==
    /\ ~Exiting(c)
    /\ \E message \in Box!Returned(set_addressee(client_id[c])) :
          /\ ClientRead(c, message)
          /\ \/ /\ message = Nothing
                /\ ClientGo(c, "receive", "input") /\ UNCHANGED seen
             \/ /\ message # Nothing /\ message.kind = "MESSAGE"
                /\ ClientGo(c, "receive", "receive")
                /\ seen' = [seen EXCEPT ![c] = Append(seen[c], message.text)]
             \/ /\ message # Nothing /\ message.kind # "MESSAGE"
                /\ ClientGo(c, "receive",
                       IF message.kind = "OUT" /\ message.writer_name = Server
                         THEN "ended" ELSE "receive")
                /\ UNCHANGED seen
    /\ UNCHANGED <<client_id, wait_client_id_flag, audience, author>>

ReceiveExit(c) ==
    /\ Exiting(c)
    /\ ClientGo(c, "receive", "input")
    /\ UNCHANGED <<mail, message_ptr, client_id, wait_client_id_flag, history>>

NoInput(c) ==
    /\ ClientGo(c, "input", "loop")
    /\ UNCHANGED <<mail, message_ptr, client_id, wait_client_id_flag, history>>

(* The user types a line: a text, nothing, or a command. *)
Typing == {"input", "gets"}
InChat(c) == client_id[c] # NoId /\ client[c] \notin Gone

TypePost(c, p) ==
    /\ author[p] = Nothing
    /\ \E from \in Typing :
          ClientWrite(c, from, Msg(MESSAGE_POST_REQUEST, "MESSAGE", c, client_id[c], p), "loop")
    /\ IF server = "done"
         THEN UNCHANGED <<audience, author>>
         ELSE /\ author' = [author EXCEPT ![p] = c]
              /\ audience' = [audience EXCEPT ![p] = {d \in Clients \ {c} : InChat(d)}]
    /\ UNCHANGED <<client_id, wait_client_id_flag, seen>>

TypeNothing(c) ==
    /\ ClientGo(c, "gets", "loop")
    /\ UNCHANGED <<mail, message_ptr, client_id, wait_client_id_flag, history>>

TypeQuit(c) ==
    /\ \E from \in Typing : ClientGo(c, from, "leave")
    /\ UNCHANGED <<mail, message_ptr, client_id, wait_client_id_flag, history>>

SayOut(c) ==
    /\ ClientWrite(c, "leave", Msg(MESSAGE_OUT_CHAT, "OUT", c, client_id[c], c), "gone")
    /\ UNCHANGED <<client_id, wait_client_id_flag, history>>

(* What a client does by itself. *)
ClientStep(c) ==
    \/ LoopExit(c) \/ RequestId(c) \/ AwaitId(c) \/ LoopAgain(c)
    \/ Receive(c) \/ ReceiveExit(c) \/ NoInput(c) \/ SayOut(c) \/ FreeSlot(c)

(* What its user makes it do. *)
User(c) ==
    \/ Attach(c) \/ TypeNothing(c) \/ TypeQuit(c)
    \/ \E p \in Posts : TypePost(c, p)

-----------------------------------------------------------------------------
(* Signals. *)

Signal == signals < MaxSignals /\ signals' = signals + 1

(* SIGINT: exit_program.  select and sleep return: with EINTR, input goes   *)
(* on into gets; the 15 seconds end.                                        *)
AfterInterrupt == [input |-> "gets", remove |-> "cut"]

InterruptServer ==
    /\ Signal /\ server \notin {"done", "crashed"}
    /\ program_exit_flag' = program_exit_flag \cup {Server}
    /\ server' = IF server \in {"input", "remove"} THEN AfterInterrupt[server] ELSE server
    /\ UNCHANGED <<mail, mutex_sem, message_ptr, client_id_pool, todo, handled, users, history>>

InterruptClient(c) ==
    /\ Signal /\ client[c] \notin Gone \cup {"start"}
    /\ program_exit_flag' = program_exit_flag \cup {c}
    /\ client' = [client EXCEPT ![c] = IF client[c] = "input" THEN "gets" ELSE client[c]]
    /\ UNCHANGED <<mail, mutex_sem, message_ptr, server, client_id_pool, todo, handled,
                   client_id, wait_client_id_flag, history>>

(* Inside a call the semaphore stays down (no SEM_UNDO), and only removing  *)
(* it gets anyone past it.  From anywhere but gets a client comes to a call *)
(* by itself, so that is where it may be.  Whether it had written is all    *)
(* one: what clients write only the server reads, and it will not.          *)
KillClient(c) ==
    /\ Signal /\ client[c] \notin Gone \cup {"start"}
    /\ client' = [client EXCEPT ![c] = "killed"]
    /\ mutex_sem' \in IF client[c] = "gets" \/ server = "done" THEN {mutex_sem} ELSE {0, mutex_sem}
    /\ UNCHANGED <<mail, message_ptr, server, client_id_pool, todo, handled, client_id,
                   wait_client_id_flag, program_exit_flag, history>>

Next ==
    \/ ServerStep \/ ServerTypesLine \/ ServerQuits \/ InterruptServer
    \/ \E c \in Clients : ClientStep(c) \/ User(c) \/ InterruptClient(c) \/ KillClient(c)

(* A process that is not blocked is scheduled, and every wait for input     *)
(* ends after five seconds; nobody has to type anything.                    *)
Fairness == WF_vars(ServerStep) /\ \A c \in Clients : WF_vars(ClientStep(c))

Spec == Init /\ [][Next]_vars /\ Fairness

-----------------------------------------------------------------------------
(* Properties. *)

TypeOK ==
    /\ IsABag(mail) /\ BagToSet(mail) \subseteq Message /\ mutex_sem \in {0, 1}
    /\ message_ptr \in [Clients -> Message \cup {Nothing}]
    /\ server \in ServerStates
    /\ client_id_pool \in [Ids -> {"FREE", "TAKED"}]
    /\ todo \subseteq Ids /\ handled \in Message \cup {Nothing}
    /\ client \in [Clients -> ClientStates]
    /\ client_id \in [Clients -> Ids \cup {NoId}]
    /\ wait_client_id_flag \in [Clients -> BOOLEAN]
    /\ program_exit_flag \subseteq Procs /\ signals \in 0..MaxSignals
    /\ audience \in [Posts -> SUBSET Clients]
    /\ author \in [Posts -> Clients \cup {Nothing}]
    /\ seen \in [Clients -> Seq(Posts)]

(* How many messages under way satisfy a test, copies included. *)
InMail(Test(_)) ==
    Cardinality(UNION {{m} \X (1..mail[m]) : m \in {n \in BagToSet(mail) : Test(n)}})

(* An id that is TAKED belongs to exactly one: to a client, to the reply    *)
(* that carries it, or to a sign-off the server has not read.  An id that   *)
(* is FREE belongs to nobody.  So no two clients share an id, although      *)
(* replies are not addressed and clients leave, are interrupted and are     *)
(* killed at any time (run_server, the pool).  When the server has removed  *)
(* the semaphore, two clients may read one reply.                           *)
Owners(i) ==
    LET Carries(m) ==
            \/ m.type = MESSAGE_CLIENT_ID_SET /\ m.text = i
            \/ m.type = MESSAGE_OUT_CHAT /\ m.writer_id = i
    IN  Cardinality({c \in Clients : client_id[c] = i /\ client[c] # "gone"})
        + InMail(Carries)

OneOwnerPerId ==
    server # "done" => \A i \in Ids : Owners(i) = IF client_id_pool[i] = "TAKED" THEN 1 ELSE 0

(* The pool as IdPool sees it: a FREE id is free, one that is TAKED is with *)
(* a client, in a reply or in a sign-off, or it is lost.  With two owners   *)
(* it would be in no stage.  When the server is gone the ids are over.      *)
Holders(i) == {c \in Clients : client_id[c] = i /\ client[c] # "gone"}
Replied(i) == \E m \in BagToSet(mail) : m.type = MESSAGE_CLIENT_ID_SET /\ m.text = i
SaidOut(i) == \E m \in BagToSet(mail) : m.type = MESSAGE_OUT_CHAT /\ m.writer_id = i

IdStage(i) ==
    IF server = "done" THEN "over"
    ELSE IF client_id_pool[i] = "FREE" THEN IF Owners(i) = 0 THEN "free" ELSE "shared"
    ELSE IF Owners(i) > 1 THEN "shared"
    ELSE IF Holders(i) # {} THEN "held"
    ELSE IF Replied(i) THEN "granted" ELSE IF SaidOut(i) THEN "returned" ELSE "lost"

IdHolder(i) == IF IdStage(i) = "held" THEN CHOOSE c \in Clients : c \in Holders(i) ELSE Nothing

Pool == INSTANCE IdPool WITH
    stage <- [i \in Ids |-> IdStage(i)], holder <- [i \in Ids |-> IdHolder(i)],
    full <- Box!Full, Overwrites <- TRUE, Nobody <- Nothing

(* Each id goes round from the pool to one client and back, claimed only    *)
(* after it was granted and free again only after its client has signed off,*)
(* or it is lost for good, and only a write into a full buffer loses one,   *)
(* and one at most; until the server ends it all (run_server's pool,        *)
(* run_client, the pointer that write_message never set).                   *)
ImplementsIdPool == Pool!Spec

(* No client prints a text twice or prints its own, also when an id passes  *)
(* from one client to another with mail for it still unread.                *)
PrintedOnce ==
    \A c \in Clients : \A i \in 1..Len(seen[c]) :
        /\ author[seen[c][i]] # c
        /\ \A j \in 1..(i - 1) : seen[c][i] # seen[c][j]

(* A text reaches everyone who was in the chat when it was posted, unless   *)
(* the reader leaves or is stopped, the server stops, or a client was killed*)
(* inside a mailbox call; all this while the buffer does not fill up.       *)
Delivered ==
    [](~Box!Full) =>
        \A p \in Posts :
            author[p] # Nothing ~>
                \/ \A c \in audience[p] :
                      \/ \E i \in 1..Len(seen[c]) : seen[c][i] = p
                      \/ client[c] \in Gone \/ Exiting(c)
                \/ server \in {"endjob", "remove", "cut", "done", "crashed"}
                \/ Server \in program_exit_flag
                \/ mutex_sem = 0

(* When the server has ended its job, every client that has an id, or gets  *)
(* one of those still under way, ends too, unless it hangs in gets, or has  *)
(* read one reply together with another, and the one notice was not for it; *)
(* all this while the buffer does not fill up.                              *)
Shutdown ==
    [](~Box!Full) /\ <>(server = "done")
        => <>[](\A c \in Clients :
                   client_id[c] # NoId =>
                       \/ client[c] \in Gone \cup {"gets"}
                       \/ \E d \in Clients \ {c} : client_id[d] = client_id[c])

(* "if the registration went wrong, the client can ask for it again: its    *)
(* message will be handled on the next iteration" (task2.c:403-404): for    *)
(* every client that waits for an id there is a request or a reply.         *)
EveryRequestAnswered ==
    LET Pending(m) == m.type \in {MESSAGE_CLIENT_ID_REQUEST, MESSAGE_CLIENT_ID_SET}
        waiting == {c \in Clients : /\ client[c] = "loop" /\ client_id[c] = NoId
                                    /\ wait_client_id_flag[c]}
    IN  server \notin {"done", "crashed"} =>
            Cardinality(waiting) <= InMail(Pending) + IF server = "grant" THEN 1 ELSE 0
=============================================================================
