------------------------------- MODULE MqChat -------------------------------
(***************************************************************************)
(* The chat of 39_message_queue/mq_chats/task1.c.  It is the protocol of   *)
(* ShmChat on a System V message queue: messages of one type are read in   *)
(* the order in which they were sent, a send that finds the queue full is  *)
(* given up at once (IPC_NOWAIT), and removing the queue destroys what is  *)
(* in it.  Only a client's request for an id looks at whether its send     *)
(* succeeded, and so does the server before it announces the newcomer.     *)
(***************************************************************************)
EXTENDS Integers, Sequences, FiniteSets

CONSTANTS Server,       \* the process of run_server, and SERVER_NAME
          Clients,      \* the processes of run_client, and their names
          MaxClients,   \* MAX_CLIENTS
          Capacity,     \* messages that fit in the queue (the kernel's msgmnb)
          MaxPosts,     \* bound: texts sent, numbered in the order of sending
          MaxSignals,   \* bound: signals sent
          Nothing       \* no message, nobody

Procs == Clients \cup {Server}
Ids == 0..(MaxClients - 1)
Texts == 1..MaxPosts
NoId == -1
SERVER_ID == MaxClients + 41

MESSAGE_CLIENT_ID_REQUEST == 1
MESSAGE_CLIENT_ID_SET == 2
MESSAGE_POST_REQUEST == 3
MESSAGE_OUT_CHAT == 4
MESSAGE_MAGIC_NUMBER == 5

set_addressee(id) == MESSAGE_MAGIC_NUMBER + id

Types == 1..4 \cup {set_addressee(i) : i \in Ids}

Message ==
    [type : Types,
     kind : {"MESSAGE", "OUT", "IN"},
     sender_name : Procs \cup {Nothing},
     sender_id : Ids \cup {NoId, SERVER_ID},
     text : Clients \cup Texts \cup Ids \cup {Nothing}]

Msg(type, kind, name, id, text) ==
    [type |-> type, kind |-> kind, sender_name |-> name, sender_id |-> id, text |-> text]

ASSUME MqAssumption ==
    /\ MaxClients \in Nat \ {0}
    /\ Capacity \in Nat \ {0}
    /\ MaxPosts \in Nat /\ MaxSignals \in Nat
    /\ Server \notin Clients /\ Nothing \notin Procs /\ Nothing \notin Message

VARIABLES
    queue,                \* for each type, the unread messages, oldest first
    server,               \* where run_server is
    client_id_pool,       \* FREE or TAKED, for each id
    todo,                 \* the ids its for loop has still to notify
    handled,              \* the message that the notices are about
    client,               \* where each run_client is
    client_id,            \* the id each client has
    wait_client_id_flag,  \* who has sent a request
    program_exit_flag,    \* the processes whose flag is set
    signals,              \* signals sent so far
    lost,                 \* history: messages whose sends failed, see Matters
    posted,               \* history: by whom and to whom each text was posted
    seen                  \* history: the texts each client printed, in order

users == <<client, client_id, wait_client_id_flag>>
history == <<posted, seen>>
vars == <<queue, server, client_id_pool, todo, handled, users,
          program_exit_flag, signals, lost, history>>

Notifying == {"announce", "forward", "farewell", "endjob"}
ServerStates == {"loop", "input", "gets", "register", "grant", "posts", "outs",
                 "remove", "cut", "done"} \cup Notifying
Gone == {"gone", "ended", "failed", "killed"}
ClientStates == {"start", "loop", "await", "receive", "input", "gets", "leave"} \cup Gone

NoMail == [t \in Types |-> <<>>]

Init ==
    /\ queue = NoMail
    /\ server = "loop"
    /\ client_id_pool = [i \in Ids |-> "FREE"]
    /\ todo = {} /\ handled = Nothing
    /\ client = [c \in Clients |-> "start"]
    /\ client_id = [c \in Clients |-> NoId]
    /\ wait_client_id_flag = [c \in Clients |-> FALSE]
    /\ program_exit_flag = {} /\ signals = 0
    /\ lost = {} /\ posted = <<>>
    /\ seen = [c \in Clients |-> <<>>]

Taked(pool) == {i \in Ids : pool[i] = "TAKED"}
Least(S) == CHOOSE i \in S : \A j \in S : i <= j

-----------------------------------------------------------------------------
(* send_message and receive_message. *)

(* Where the unread messages are: the type, and the place among its type.   *)
Unread == UNION {{t} \X (1..Len(queue[t])) : t \in Types}

Room == server # "done" /\ Cardinality(Unread) < Capacity

(* The lost messages the properties speak of: replies, sign-offs, texts     *)
(* forwarded, and the server's last notices.                                *)
Matters(m) ==
    \/ m.type \in {MESSAGE_CLIENT_ID_SET, MESSAGE_OUT_CHAT}
    \/ m.type > MESSAGE_MAGIC_NUMBER - 1 /\ m.kind = "MESSAGE"
    \/ m.kind = "OUT" /\ m.sender_name = Server

(* msgsnd: the message is appended, or nothing happens. *)
Send(m) ==
    \/ /\ Room
       /\ queue' = [queue EXCEPT ![m.type] = Append(queue[m.type], m)]
       /\ UNCHANGED lost
    \/ /\ ~Room
       /\ lost' = IF Matters(m) THEN lost \cup {m} ELSE lost
       /\ UNCHANGED queue

(* msgrcv: the oldest message of the type, or an error. *)
Received(t) == IF queue[t] = <<>> THEN Nothing ELSE Head(queue[t])

Receive(t) ==
    /\ queue' = IF queue[t] = <<>> THEN queue ELSE [queue EXCEPT ![t] = Tail(queue[t])]
    /\ UNCHANGED lost

-----------------------------------------------------------------------------
(* The server. *)

ServerGo(from, to) ==
    /\ server = from /\ server' = to
    /\ UNCHANGED <<users, program_exit_flag, signals, history>>

(* A for loop that notifies some ids about a message, the least id first;   *)
(* and what follows when none is left.                                      *)
AfterNotifying ==
    [announce |-> "posts", forward |-> "outs", farewell |-> "loop", endjob |-> "remove"]

ServerNotifies(from, loop, message, ids) ==
    /\ ServerGo(from, IF ids = {} THEN AfterNotifying[loop] ELSE loop)
    /\ todo' = ids
    /\ handled' = IF ids = {} THEN Nothing ELSE message

StartEndJob(from) ==
    /\ ServerNotifies(from, "endjob", Nothing, Taked(client_id_pool))
    /\ UNCHANGED <<queue, lost, client_id_pool>>

ServerLoop ==
    \/ Server \in program_exit_flag /\ StartEndJob("loop")
    \/ /\ Server \notin program_exit_flag
       /\ ServerGo("loop", "input")
       /\ UNCHANGED <<queue, lost, client_id_pool, todo, handled>>

(* input(5): nothing, or a line that is not a command.  In gets only a line *)
(* takes it on.                                                             *)
ServerInput ==
    /\ ServerGo("input", "register")
    /\ UNCHANGED <<queue, lost, client_id_pool, todo, handled>>

ServerTypesLine ==
    /\ ServerGo("gets", "register")
    /\ UNCHANGED <<queue, lost, client_id_pool, todo, handled>>

ServerQuits == \E from \in {"input", "gets"} : StartEndJob(from)

ReadRequest ==
    LET message == Received(MESSAGE_CLIENT_ID_REQUEST)
    IN  /\ Receive(MESSAGE_CLIENT_ID_REQUEST)
        /\ ServerGo("register", IF message = Nothing THEN "posts" ELSE "grant")
        /\ handled' = message
        /\ UNCHANGED <<client_id_pool, todo>>

(* Mutant of GrantId: the id is not marked TAKED. *)
GrantUnreserved ==
    LET free == Ids \ Taked(client_id_pool)
    IN  /\ free # {}
        /\ Send(Msg(MESSAGE_CLIENT_ID_SET, "MESSAGE", Server, SERVER_ID, Least(free)))
        /\ ServerNotifies("grant", "announce", handled, IF Room THEN Taked(client_id_pool) ELSE {})
        /\ UNCHANGED client_id_pool

(* The first free id is reserved and sent off to whoever reads it first.    *)
(* When that fails the id stays reserved, and nobody is told.               *)
GrantId ==
    LET free == Ids \ Taked(client_id_pool)
        id == Least(free)
    IN  /\ free # {}
        /\ client_id_pool' = [client_id_pool EXCEPT ![id] = "TAKED"]
        /\ Send(Msg(MESSAGE_CLIENT_ID_SET, "MESSAGE", Server, SERVER_ID, id))
        /\ ServerNotifies("grant", "announce", handled, IF Room THEN Taked(client_id_pool) ELSE {})

(* No id is free: the request has been read and nothing comes of it. *)
DropRequest ==
    /\ Taked(client_id_pool) = Ids
    /\ ServerGo("grant", "posts")
    /\ handled' = Nothing
    /\ UNCHANGED <<queue, lost, client_id_pool, todo>>

(* Mutants of Readers: the writer is not left out; < instead of !=. *)
EveryReader(message) == Taked(client_id_pool)
LowerReaders(message) == {i \in Taked(client_id_pool) : i < message.sender_id}

(* Whom a text is forwarded to: everyone but its writer. *)
Readers(message) == Taked(client_id_pool) \ {message.sender_id}

ReadPost ==
    LET message == Received(MESSAGE_POST_REQUEST)
    IN  /\ Receive(MESSAGE_POST_REQUEST)
        /\ IF message = Nothing
             THEN ServerGo("posts", "outs") /\ UNCHANGED <<todo, handled>>
             ELSE ServerNotifies("posts", "forward", message, Readers(message))
        /\ UNCHANGED client_id_pool

(* A client that never got its id signs off with -1: the store lands in     *)
(* front of client_id_pool, on padding in the Makefile's build.             *)
FreeId(id) ==
    IF id \in Ids THEN [client_id_pool EXCEPT ![id] = "FREE"] ELSE client_id_pool

ReadOut ==
    LET message_out == Received(MESSAGE_OUT_CHAT)
    IN  /\ Receive(MESSAGE_OUT_CHAT)
        /\ IF message_out = Nothing
             THEN ServerGo("outs", "loop") /\ UNCHANGED <<client_id_pool, todo, handled>>
             ELSE /\ client_id_pool' = FreeId(message_out.sender_id)
                  /\ ServerNotifies("outs", "farewell", message_out, Taked(client_id_pool'))

(* What one pass of a for loop sends to client id i.  The name in a notice  *)
(* of leaving is that of the last message read as a post, or what an        *)
(* unsuccessful read leaves on the stack: never SERVER_NAME.                *)
Notice(i) ==
    CASE server = "announce" ->
             Msg(set_addressee(i), "IN", Server, SERVER_ID, handled.sender_name)
      [] server = "forward" ->
             Msg(set_addressee(i), "MESSAGE", handled.sender_name, SERVER_ID, handled.text)
      [] server = "farewell" ->
             Msg(set_addressee(i), "OUT", Nothing, SERVER_ID, handled.text)
      [] server = "endjob" ->
             Msg(set_addressee(i), "OUT", Server, SERVER_ID, Nothing)

Notify ==
    /\ server \in Notifying
    /\ Send(Notice(Least(todo)))
    /\ ServerNotifies(server, server, handled, todo \ {Least(todo)})
    /\ UNCHANGED client_id_pool

(* Someone who runs has not yet read what waits for it. *)
MailDue(c) ==
    /\ client[c] \notin Gone \cup {"start", "gets"}
    /\ \/ client_id[c] # NoId /\ queue[set_addressee(client_id[c])] # <<>>
       \/ /\ client_id[c] = NoId /\ wait_client_id_flag[c]
          /\ queue[MESSAGE_CLIENT_ID_SET] # <<>>

(* Mutant of RemoveQueue: no sleep. *)
RemoveAtOnce ==
    /\ ServerGo("remove", "done")
    /\ queue' = NoMail
    /\ UNCHANGED <<lost, client_id_pool, todo, handled>>

(* IPC_RMID, after 15 seconds: a client takes six for a turn of its loop,   *)
(* so whoever runs has read its mail.  Not when a signal cut them short.    *)
RemoveQueue ==
    /\ \/ ServerGo("remove", "done") /\ \A c \in Clients : ~MailDue(c)
       \/ ServerGo("cut", "done")
    /\ queue' = NoMail
    /\ UNCHANGED <<lost, client_id_pool, todo, handled>>

ServerStep ==
    \/ ServerLoop \/ ServerInput \/ ReadRequest \/ GrantId \/ DropRequest
    \/ ReadPost \/ ReadOut \/ Notify \/ RemoveQueue

-----------------------------------------------------------------------------
(* A client. *)

ClientGo(c, from, to) ==
    /\ client[c] = from /\ client' = [client EXCEPT ![c] = to]
    /\ UNCHANGED <<server, client_id_pool, todo, handled, program_exit_flag, signals>>

Exiting(c) == c \in program_exit_flag

(* Without a queue run_client ends at once.  Later it does not notice: its  *)
(* sends and receives fail, and it goes on.                                 *)
Attach(c) ==
    /\ ClientGo(c, "start", IF server = "done" THEN "failed" ELSE "loop")
    /\ UNCHANGED <<queue, lost, client_id, wait_client_id_flag, history>>

LoopExit(c) ==
    /\ Exiting(c)
    /\ ClientGo(c, "loop", "leave")
    /\ UNCHANGED <<queue, lost, client_id, wait_client_id_flag, history>>

(* Mutant of RequestId: the request goes out as a reply. *)
RequestAsReply(c) ==
    /\ ~Exiting(c) /\ client_id[c] = NoId /\ ~wait_client_id_flag[c]
    /\ ClientGo(c, "loop", IF Room THEN "await" ELSE "loop")
    /\ Send(Msg(MESSAGE_CLIENT_ID_SET, "IN", c, NoId, c))
    /\ wait_client_id_flag' = [wait_client_id_flag EXCEPT ![c] = Room]
    /\ UNCHANGED <<client_id, history>>

(* A request that could not be sent is sent again in the next turn. *)
RequestId(c) ==
    /\ ~Exiting(c) /\ client_id[c] = NoId /\ ~wait_client_id_flag[c]
    /\ ClientGo(c, "loop", IF Room THEN "await" ELSE "loop")
    /\ Send(Msg(MESSAGE_CLIENT_ID_REQUEST, "IN", c, NoId, c))
    /\ wait_client_id_flag' = [wait_client_id_flag EXCEPT ![c] = Room]
    /\ UNCHANGED <<client_id, history>>

(* A reply does not say whom it is for: any client that waits takes it.     *)
AwaitId(c) ==
    LET message == Received(MESSAGE_CLIENT_ID_SET)
    IN  /\ \/ client[c] = "await"
           \/ /\ client[c] = "loop" /\ ~Exiting(c)
              /\ client_id[c] = NoId /\ wait_client_id_flag[c]
        /\ Receive(MESSAGE_CLIENT_ID_SET)
        /\ IF message = Nothing
             THEN ClientGo(c, client[c], "loop") /\ UNCHANGED client_id
             ELSE /\ ClientGo(c, client[c], "receive")
                  /\ client_id' = [client_id EXCEPT ![c] = message.text]
        /\ UNCHANGED <<wait_client_id_flag, history>>

LoopAgain(c) ==
    /\ ~Exiting(c) /\ client_id[c] # NoId
    /\ ClientGo(c, "loop", "receive")
    /\ UNCHANGED <<queue, lost, client_id, wait_client_id_flag, history>>

(* The inner loop: print all there is.  "OUT" from the server ends it all.  *)
ReadMail(c) ==
    LET message == Received(set_addressee(client_id[c]))
    IN  /\ client[c] = "receive" /\ ~Exiting(c)
        /\ Receive(set_addressee(client_id[c]))
        /\ \/ /\ message = Nothing
              /\ ClientGo(c, "receive", "input") /\ UNCHANGED seen
           \/ /\ message # Nothing /\ message.kind = "MESSAGE"
              /\ ClientGo(c, "receive", "receive")
              /\ seen' = [seen EXCEPT ![c] = Append(seen[c], message.text)]
           \/ /\ message # Nothing /\ message.kind # "MESSAGE"
              /\ ClientGo(c, "receive",
                     IF message.kind = "OUT" /\ message.sender_name = Server
                       THEN "ended" ELSE "receive")
              /\ UNCHANGED seen
        /\ UNCHANGED <<client_id, wait_client_id_flag, posted>>

ReceiveExit(c) ==
    /\ Exiting(c)
    /\ ClientGo(c, "receive", "input")
    /\ UNCHANGED <<queue, lost, client_id, wait_client_id_flag, history>>

(* Nothing typed within five seconds, or "r". *)
NoInput(c) ==
    /\ ClientGo(c, "input", "loop")
    /\ UNCHANGED <<queue, lost, client_id, wait_client_id_flag, history>>

Typing == {"input", "gets"}
InChat(c) == client_id[c] # NoId /\ client[c] \notin Gone

(* A text: it is gone when the queue has no room. *)
TypePost(c) ==
    LET p == Len(posted) + 1
        readers == {d \in Clients \ {c} : InChat(d)}
    IN  /\ p <= MaxPosts
        /\ \E from \in Typing : ClientGo(c, from, "loop")
        /\ Send(Msg(MESSAGE_POST_REQUEST, "MESSAGE", c, client_id[c], p))
        /\ posted' = IF Room THEN Append(posted, [by |-> c, to |-> readers]) ELSE posted
        /\ UNCHANGED <<client_id, wait_client_id_flag, seen>>

TypeNothing(c) ==
    /\ ClientGo(c, "gets", "loop")
    /\ UNCHANGED <<queue, lost, client_id, wait_client_id_flag, history>>

TypeQuit(c) ==
    /\ \E from \in Typing : ClientGo(c, from, "leave")
    /\ UNCHANGED <<queue, lost, client_id, wait_client_id_flag, history>>

(* Mutant of SayOut: the id of the client is not given. *)
SayOutAnonymously(c) ==
    /\ ClientGo(c, "leave", "gone")
    /\ Send(Msg(MESSAGE_OUT_CHAT, "OUT", c, NoId, c))
    /\ UNCHANGED <<client_id, wait_client_id_flag, history>>

SayOut(c) ==
    /\ ClientGo(c, "leave", "gone")
    /\ Send(Msg(MESSAGE_OUT_CHAT, "OUT", c, client_id[c], c))
    /\ UNCHANGED <<client_id, wait_client_id_flag, history>>

(* What a client does by itself, and what its user makes it do. *)
ClientStep(c) ==
    \/ LoopExit(c) \/ RequestId(c) \/ AwaitId(c) \/ LoopAgain(c)
    \/ ReadMail(c) \/ ReceiveExit(c) \/ NoInput(c) \/ SayOut(c)

User(c) == Attach(c) \/ TypePost(c) \/ TypeNothing(c) \/ TypeQuit(c)

-----------------------------------------------------------------------------
(* Signals. *)

Signal == signals < MaxSignals /\ signals' = signals + 1

(* SIGINT: exit_program.  select and sleep return: with EINTR, input goes   *)
(* on into gets; the 15 seconds end.                                        *)
AfterInterrupt == [input |-> "gets", remove |-> "cut"]

InterruptServer ==
    /\ Signal /\ server # "done"
    /\ program_exit_flag' = program_exit_flag \cup {Server}
    /\ server' = IF server \in {"input", "remove"} THEN AfterInterrupt[server] ELSE server
    /\ UNCHANGED <<queue, lost, client_id_pool, todo, handled, users, history>>

InterruptClient(c) ==
    /\ Signal /\ client[c] \notin Gone \cup {"start"}
    /\ program_exit_flag' = program_exit_flag \cup {c}
    /\ client' = [client EXCEPT ![c] = IF client[c] = "input" THEN "gets" ELSE client[c]]
    /\ UNCHANGED <<queue, lost, server, client_id_pool, todo, handled, client_id,
                   wait_client_id_flag, history>>

KillClient(c) ==
    /\ Signal /\ client[c] \notin Gone \cup {"start"}
    /\ client' = [client EXCEPT ![c] = "killed"]
    /\ UNCHANGED <<queue, lost, server, client_id_pool, todo, handled, client_id,
                   wait_client_id_flag, program_exit_flag, history>>

Next ==
    \/ ServerStep \/ ServerTypesLine \/ ServerQuits \/ InterruptServer
    \/ \E c \in Clients : ClientStep(c) \/ User(c) \/ InterruptClient(c) \/ KillClient(c)

(* A process that is not blocked is scheduled, and every wait for input     *)
(* ends after five seconds; nobody has to type anything.                    *)
Fairness == WF_vars(ServerStep) /\ \A c \in Clients : WF_vars(ClientStep(c))

Spec == Init /\ [][Next]_vars /\ Fairness

-----------------------------------------------------------------------------
(* Properties. *)

(* Every variable has its type, and the queue never holds more than fits.   *)
TypeOK ==
    /\ queue \in [Types -> Seq(Message)]
    /\ \A t \in Types : \A n \in 1..Len(queue[t]) : queue[t][n].type = t
    /\ IsFiniteSet(Unread) /\ Cardinality(Unread) <= Capacity
    /\ server \in ServerStates
    /\ client_id_pool \in [Ids -> {"FREE", "TAKED"}]
    /\ todo \subseteq Ids /\ handled \in Message \cup {Nothing}
    /\ client \in [Clients -> ClientStates]
    /\ client_id \in [Clients -> Ids \cup {NoId}]
    /\ wait_client_id_flag \in [Clients -> BOOLEAN]
    /\ program_exit_flag \subseteq Procs /\ signals \in 0..MaxSignals
    /\ lost \subseteq Message
    /\ posted \in Seq([by : Clients, to : SUBSET Clients]) /\ Len(posted) <= MaxPosts
    /\ seen \in [Clients -> Seq(Texts)]

(* An id that is TAKED has exactly one owner: a client, a reply or a        *)
(* sign-off in the queue, or a reply or a sign-off that could not be sent,  *)
(* and then it stays out of use.  A FREE one has none.  So a full queue may *)
(* cost ids, but never gives one to two clients (run_server, the pool).     *)
OwnersOf(i) ==
    LET Carries(m) ==
            \/ m.type = MESSAGE_CLIENT_ID_SET /\ m.text = i
            \/ m.type = MESSAGE_OUT_CHAT /\ m.sender_id = i
    IN  Cardinality({c \in Clients : client_id[c] = i /\ client[c] # "gone"})
        + Cardinality({u \in Unread : Carries(queue[u[1]][u[2]])})
        + Cardinality({m \in lost : Carries(m)})

OneOwnerPerId ==
    server # "done" =>
        \A i \in Ids : OwnersOf(i) = IF client_id_pool[i] = "TAKED" THEN 1 ELSE 0

(* The pool as IdPool sees it: a FREE id is free, one that is TAKED is with *)
(* a client, in a reply or in a sign-off, or it is lost.  With two owners   *)
(* it would be in no stage.  When the server is gone the ids are over.      *)
Holders(i) == {c \in Clients : client_id[c] = i /\ client[c] # "gone"}
Replied(i) == \E u \in Unread :
    u[1] = MESSAGE_CLIENT_ID_SET /\ queue[u[1]][u[2]].text = i
SaidOut(i) == \E u \in Unread :
    u[1] = MESSAGE_OUT_CHAT /\ queue[u[1]][u[2]].sender_id = i

IdStage(i) ==
    IF server = "done" THEN "over"
    ELSE IF client_id_pool[i] = "FREE" THEN IF OwnersOf(i) = 0 THEN "free" ELSE "shared"
    ELSE IF OwnersOf(i) > 1 THEN "shared"
    ELSE IF Holders(i) # {} THEN "held"
    ELSE IF Replied(i) THEN "granted" ELSE IF SaidOut(i) THEN "returned" ELSE "lost"

IdHolder(i) == IF IdStage(i) = "held" THEN CHOOSE c \in Clients : c \in Holders(i) ELSE Nothing

Pool == INSTANCE IdPool WITH
    stage <- [i \in Ids |-> IdStage(i)], holder <- [i \in Ids |-> IdHolder(i)],
    full <- ~Room, Overwrites <- FALSE, Nobody <- Nothing

(* Each id goes round from the pool to one client and back, claimed only    *)
(* after it was granted and free again only after its client has signed off,*)
(* or it is lost for good when its reply or sign-off cannot be sent, and no *)
(* other with it; until the server ends it all (run_server's pool,          *)
(* run_client, IPC_NOWAIT).                                                 *)
ImplementsIdPool == Pool!Spec

(* Everyone prints texts in the order in which they were posted, each at    *)
(* most once and never one's own, also when sends fail and ids change hands *)
(* (run_server's forwarding, run_client's inner loop).                      *)
InOrder ==
    \A c \in Clients : \A i \in 1..Len(seen[c]) :
        /\ posted[seen[c][i]].by # c
        /\ \A j \in 1..(i - 1) : seen[c][j] < seen[c][i]

(* A text posted reaches everyone who was in the chat then, unless the send *)
(* to that reader failed, the reader leaves or is stopped, or the server    *)
(* stops: with IPC_NOWAIT nothing else gets lost.                           *)
LostFor(c, p) ==
    \E m \in lost : m.kind = "MESSAGE" /\ m.type = set_addressee(client_id[c]) /\ m.text = p

Audience(p) == IF p <= Len(posted) THEN posted[p].to ELSE {}

Delivered ==
    \A p \in Texts :
        p <= Len(posted) ~>
            \/ \A c \in Audience(p) :
                  \/ \E i \in 1..Len(seen[c]) : seen[c][i] = p
                  \/ client[c] \in Gone \/ Exiting(c) \/ LostFor(c, p)
            \/ server \in {"endjob", "remove", "cut", "done"}
            \/ Server \in program_exit_flag

(* When the server has ended its job and waited, every client with an id    *)
(* ends too, unless its notice could not be sent or it hangs in gets.  The  *)
(* others call a queue that no longer exists for ever.                      *)
Shutdown ==
    (<>(server = "done") /\ [](server # "cut"))
        => <>[](\A c \in Clients :
                   client_id[c] # NoId =>
                       \/ client[c] \in Gone \cup {"gets"}
                       \/ \E m \in lost : /\ m.kind = "OUT" /\ m.sender_name = Server
                                          /\ m.type = set_addressee(client_id[c]))
=============================================================================
