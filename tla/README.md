# Formal models of the Embedded C homework programs

The repository is a collection of small C programs written along a course on Linux system programming.
Many are single-threaded exercises. The interesting ones are the programs in which several processes share
something: System V semaphores and shared memory (`40_semaphore`), System V message queues (`39_message_queue`),
threads (`34_pthread`, `35_pthread_mutex`) and the servers of `44_high-load_server`. This directory holds TLA+ models
of them, TLC configurations that check the models on small instances, and TLAPS proofs for every value of the
constants.

Everything is translated from the C sources. Paths below are relative to `src/`.

Run `tlc -config X.cfg M` for a run and `tlapm M.tla` for a proof module; `PROJECT.json` lists the runs with their
modules, the definitions with the source lines they model, the hazards, and the faults ("mutants") each property
is known to catch.

## 1. Inventory

### Modelled

| Component | State | Operations | How its parts interact |
|---|---|---|---|
| Semaphore server and client, `40_semaphore/sph_sv_cl` | key files, a set of two semaphores, one shared segment, the loop counters | server: create, initialize, print `NUMMSG` messages, remove all; client: look up, write `NUMMSG` messages | `semop` on several semaphores at once, the segment |
| Spooler, `40_semaphore/sph_chats/sample` (and the commented copy `sample_explained`) | three semaphores, a ring of buffers, two indices | spooler: create, initialize, print; client: get a buffer, lock, write, unlock, signal | semaphores, the ring; the spooler prints without the mutex |
| Mailbox of the shared memory chat, `40_semaphore/sph_chats/task2.c:120-247` | `mutex_sem`, an array of message slots | `write_message`, `read_message`, the setup in `run_server` | the semaphore and the array |
| Shared memory chat, `task2.c:249-675` | the mailbox, `client_id_pool`, each client's id and flags, the exit flag | `run_server`: register, forward, handle leaving, stop; `run_client`: register, print, post, leave; `SIGINT` | typed messages in the mailbox |
| Message queue chat, `39_message_queue/mq_chats/task1.c` | a System V queue, `client_id_pool`, each client's id and flags | the same operations; sends with `IPC_NOWAIT` whose failures are ignored | typed messages in the queue |
| Producer-consumer UDP server, `44_high-load_server/producer_consumer/task4.c` | two message queues, ten service threads, the socket; per client `mid` and the replies it waits for | `run_server`: queue and acknowledge a request, send a reply; `service_fun`; `run_client`: send a line, wait for two replies; `SIGINT` | loopback datagrams, raw sockets that see everybody's, two queues |
| Service pool UDP server, `44_high-load_server/multyproc_pool/task3.c` | the pool of services and their states, one queue; per client its service id and `mid` | connect, data, close; the pool grows and shrinks; `service_fun` | datagrams and raw sockets as above; the queue; shared pool memory |
| Shops, `35_pthread_mutex/pthread_shops` | five shops with a door and a load, the buyers' bags and flags | `buyer`: take all of a shop; `loader`: bring goods until the flags are set | `trylock` on doors, flags without a lock |
| Thread counters, `34_pthread/pthread.c`, `35_pthread_mutex/pthread_mutex` | one counter | increment, print | memory, in the second program under a mutex |
| Process tree, `32_processes/proc_tree_final.c` | the tree of jobs, every process's nested loops | fork per child, kill oneself, wait | `fork` copies the loops, `wait` |
| Phone lists, `13_phone_list`, `20_phone_list_dynamic` | an array and nested calls with counts of their own; a linked list | add, remove, search | calls of the menu from within every function |
| Forking and threaded TCP servers and their client, `44_high-load_server/multyproc` (partly) | process lists, sockets, signals | accept, fork, `SIGCHLD`, `SIGINT`, `SIGTERM`; the client's connect, fork, send | connections, signals to the group, inherited sockets |

What makes these hard: every interleaving of several processes or threads between two system calls; processes killed
between two calls, with nothing rolled back (no `SEM_UNDO`); the set being removed while others wait on it; full buffers and queues;
signals that interrupt a wait; replies that are not addressed, or that are everybody's to read; ids that pass from one client to another or wrap around;
answers that come after their timeout; a pool that grows and shrinks under its threads; forks that fail; handlers that run between any two statements.

What makes them correct:

- **Semaphore server and client**: one user of the segment at a time; nobody operates on semaphores without values;
  every message is printed once, whole and in order; nobody is stuck in `semop` when all is done.
- **Spooler**: one producer at a time; no write to the buffer being printed; no buffer is gained, and only
  kills lose one; the ring is a FIFO channel; every line read is printed.
- **Mailbox**: one process inside; no torn, duplicated or lost message; every call returns.
- **Chats**: an id never belongs to two; a text is printed once, by everyone else in the chat, on the queue in posting order; when the server stops, its clients stop.
- **Producer-consumer**: a request is in one place at a time; its acknowledgement goes out before its reply; a client counts these two and nothing else;
  a waiting client is answered unless a datagram was lost or a queue was full; an interrupted server ends.
- **Service pool**: a service serves one client at a time, its thread lives as long as the client is connected, and an answer belongs to its question.
- **Shops**: goods are conserved, and the loader stops only when every buyer has enough. **Counters**: no increment is lost under the mutex, and not all without.
- **Process tree**: one process per job, and the first process reaps both its children. **Phone lists**: nothing is shown that was never entered; no node leaks.
- **TCP servers**: when nothing moves any more, nobody is left waiting for anybody.

### Not modelled

| Component | Why |
|---|---|
| Threads of the threaded TCP server, the threaded UDP server | never reached: the TCP server ends at its first connection, the UDP server binds descriptor 0 and exits |
| Data exchange of the forking servers | never reached: `accept` always fails, so no server receives a byte |
| Message queue and pipe samples (`39_message_queue/mq_sv_cl`, `38_pipe_dup2_mkfifo`) | one exchange between two processes, no state beyond it |
| Socket exercises (`42`, `45`), raw sockets (`48`-`50`) | one request and reply, or one datagram with a header built by hand |
| Calculators and libraries, arrays and bits | single expressions behind a menu, printed results of constant inputs |
| File exercise, file manager (`27`, `28`) | terminal and directory I/O; the file manager overruns and frees twice the buffers its state lives in |

## 2. The modules

```
BoundedChannel          what a FIFO channel of a given capacity promises        (abstract)
  ^ implemented by      SphServerClient (capacity 1), Spooler (capacity MaxBuffers)
Mailbox                 what a bounded bag of typed messages promises           (abstract)
  ^ implemented by      ShmMailbox (write_message and read_message, statement by statement)
  ^ used by             ShmChat (run_server and run_client on top of the mailbox)
MqChat                  the same chat on a System V queue
IdPool                  where the client ids of a chat are, and who may move them  (abstract)
  ^ implemented by      ShmChat, MqChat
ProducerConsumer        UDP clients, the server, its two queues and service threads
Exercises               one of the following, chosen by the variable program:
                        Shops, ThreadCounters, ProcessTree, PhoneList, PhoneListDynamic,
                        ServicePool, TcpServers
SphServerClientProofs, SpoolerProofs, ShmMailboxProofs, ShmChatProofs, MqChatProofs,
ProducerConsumerProofs, ExercisesProofs
                        theorems about the module each is named after
ServersProofs           ServicePool and TcpServers, and with them the types of all of Exercises
                        (EXTENDS ExercisesProofs)
MCShmMailbox, MCShmChat, MCMqChat, MCProducerConsumer, MCExercises
                        the definitions TLC needs: sets of messages, bounds, symmetries
```

### SphServerClient

One action per system call. `server` and `client[c]` are program counters whose values name the call that comes next; `served` and `count` are the two loop
variables `i`; `sem` is the set of two semaphores, `shm` the segment. `semop` on several semaphores is
atomic, so `ServerAcquire` (`sem[1]-1, sem[0]+1`), `ClientAcquire` (`sem[0]=0, sem[1]=0, sem[0]+1`) and
`PublishMessage` (`sem[0]-1, sem[1]+1`) each are one action. `ServerRelease` has the `IPC_NOWAIT` branch.
Writing and printing the segment are actions of their own, between the calls. `ipc` is what a lookup finds: a client whose
lookup fails ends, and a client blocked on a removed set ends (`SemaphoresGone`). The values of a new set are
arbitrary until `SETVAL`. `KillServer` and `KillClient` end a process anywhere and undo nothing. `sent` and
`printed` are history variables.

### Spooler

As above for the ring: `buf`, `buffer_index`, `buffer_print_index` and three semaphores. Writing a buffer, moving the
index and each `semop` are separate actions, because the spooler prints with no lock and clients
signal after they have left the mutex. The four lookups of a client are one action: the spooler creates the objects
in that order and nothing removes them, so they succeed exactly when the last does. `SpecRestart` adds the spooler's restart,
which initializes the existing objects again.

### Mailbox and ShmMailbox

`ShmMailbox` models `write_message` and `read_message` statement by statement: lock, one action per loop iteration, filling a
slot, setting its state, copying, freeing, unlocking; the message's fields other than its state are one value.
`op[p]` is the call under way with its arguments, `cur[p]` the index and then the pointer. Which calls a process makes is arbitrary,
so the module covers any program that uses the two functions. With all slots taken `write_message` goes on with
a pointer it never set: that is undefined, and the outcomes in the model are a fault (the process dies with the semaphore down) and a pointer
that still is that of some slot. `SpecInterrupted` adds `SIGINT` during the `P` operation:
`semop` is never restarted after a handler, `write_message` exits, `read_message` only prints the error.

`Mailbox` is the abstraction: `Write(m)` and `Read(p, t)` on a bag of messages, atomic. Its refinement mapping
`Mail` takes the bag of the contents of all slots in state `SENT`. Order is not promised: slots are reused first-free.
The bag is `Full` when it has as many `Copies` as there are slots; the copies are numbered and counted as a set, because the library's sum over a bag is recursive and
nothing could be proved of it.

### ShmChat

`run_server` and `run_client` on `Mailbox` (`Box`). As long as the semaphore exists, an access to the mailbox and the local work up to the
next one is one action, which is what `ImplementsMailbox` justifies. Correspondence: `client_id_pool`, `client_id`, `wait_client_id_flag`
and `program_exit_flag` are the C variables; `server` and `client[c]` say where the process is; `todo` is what remains of
the current `for` loop over ids (`announce`, `forward`, `farewell`, `endjob`), whose set is fixed when the loop starts because only the server changes the
pool; `handled` is the message that loop is about. The module takes `Put`, `Returned` and `Take` from `Mailbox`, not `Write` and `Read`: a read and what
the reader does with the message are one step. `audience`, `author` and `seen` are history variables.

- A user types at most the texts in `Posts`, each once, or quits, or nothing.
- `SIGINT` sets the flag; a process waiting in `select` goes on into `gets` (the `case -1` breaks out of the
  switch, `task2.c:268-275`) and stays there until a line is typed: the state `gets`.
  The flag is read at the loop heads; in between, a signal commutes with what the process does.
- A client that leaves without an id signs off with `-1`, and the server stores to
  `client_id_pool[-1]`: the model takes both "nothing happens" and "the server crashes".
- The name in a farewell notice is that of the variable `message`, possibly never set (`task2.c:456`). It is modelled as
  "not `SERVER_NAME`", the only distinction a client makes, and no user is called that.
- `mutex_sem` is the semaphore between two calls. A client that is killed inside a call (`KillClient`) leaves it at 0, since no `SEM_UNDO` is set, and then every call
  of every process blocks, the server's included, until the semaphore is removed. Where a call can be under way, both outcomes of a kill are taken. What the call had done by then is
  no question: a read that is over is a state of its own, and what clients write only the server reads, which blocks.
- The server removes semaphore and memory 15 seconds after its last notices (`RemoveIPC`). A client that waits for its id looks for a reply every second, so none that is there is left to it by then
  (`ReplyDue`): a timing assumption, which does not hold with the semaphore down, nor when a second Ctrl-C cuts the sleep short (`cut`). In these two cases the memory goes with replies in it.
- After that, writers exit and readers continue on the memory they have attached: the error of their `semop` is only printed (`task2.c:203-205`), and nothing excludes them from one another any more. So a read is then two actions:
  the message is copied (`ClientRead`, into `message_ptr`), and its slot is freed (`FreeSlot`). Between the two, others may copy the same message; two clients may take one reply, and have one id.

### MqChat

`run_server` and `run_client` of the queue chat, named as in `ShmChat` where the two programs agree. They differ in the transport:

- `queue[t]` holds the unread messages of type `t`, oldest first: `msgrcv` takes the first of its type. All types share `Capacity`.
- `send_message` uses `IPC_NOWAIT`: without `Room` nothing is sent. Only `RequestId` (the wait flag) and `GrantId` (the announcement) look
  at the outcome. `lost` remembers the failed sends that the properties speak of.
- `RequestId` goes on to read a reply in the same turn; the action leads to the state `await`.
- `RemoveQueue` destroys what is unread. It waits for 15 seconds, and a running client takes six seconds for a turn of its loop (one of sleep, five of
  `input`), so the action is enabled once no running client has mail due (`MailDue`): a timing assumption. A second Ctrl-C cuts the sleep
  short (`cut`), and then the queue goes at once.
- After that the server is gone, and clients do not stop by themselves: `receive_message` reports an error that looks like "no message".
- The `-1` sign-off stores to the padding before `client_id_pool` in the build the Makefile makes (`gcc -g`), so it has no effect here.

The texts are numbered as they are posted. Lengths are left out in both chats: a line or a name of 128 bytes or more overruns its array.

### IdPool

What both chats promise of `client_id_pool`: an id goes from `free` to `granted` (in a reply), to `held` by the client that claims it, to `returned` (in a sign-off) and back to `free`. A
client claims an id only while it has none. Each action is one message sent or read, and loses one id at most, and only when there is no room (`full`, which is not the pool's to change): the id the message is about (`Sent`), or, where a
message without room takes the place of another (`Overwrites`: in shared memory, not in the queue), one that is under way, by whatever message (`Overwrite`). A lost id stays lost. When the server removes the
memory or the queue the ids are `over` (`Close`). The mapping reads the stage off the messages and the clients (`IdStage`, `IdHolder`); an id with two owners would be `shared`, which is no stage of the pool's.

### ProducerConsumer

`spc[s]` says which call of `run_server` comes next in server process `s`; `requests` and `replies` are the two message queues, `service[v]` is what
`service_fun` of thread `v` has taken and not yet put back. `Transmit` is the network, as the code uses it: on the loopback interface datagrams keep their order,
the server's socket (`inbox`) gets the requests, and every client's raw socket (`raw[c]`) a copy of every datagram, its own requests included; a copy may be lost
(`losses`). `receive_message_reply` looks at the id alone, so `Read` counts whatever carries `ExpectedId`. `mid` is a `char`
and the id on the wire an `unsigned short`: `NextMid`, `Short` and `ReplyId` are the conversions. `gone`, `dropped`, `acked`, `answered` and `mixed` are history variables.

- A failed `recvfrom` leaves the type of the received message unset; in the build the Makefile makes it never is `MESSAGE_DATA`, so `ReceiveNothing` does nothing.
- After a clean stop the reply queue stays (`task4.c:553` removes the other one only). The next server fails in its second `msgget`, and leaves the request queue
  behind as well. `OneServerEver` says what follows from that.
- The option `-p`, which gives client and server one port, is not modelled.
- Left out: `bind` and the first `msgget` are one step (`task4.c:436-444`; a failed `bind` is only reported, and nothing is received before the main loop); `pthread_create` does not fail (`task4.c:468-471`), so there are always
  `Services` threads; a line whose `sendto` fails (`task4.c:616-621`) is dropped, which leaves the client as if it had not been typed.

### ServicePool

`services_pool[i].state` is `state`; `toService[i]` and `fromService[i]` are the messages of the two types that belong to service `i`; the client's loop is `cpc[c]` with
`sid`, `mid` and `attempts`. The one second the server waits for an answer may end before the service has answered (`Answer`); `late` remembers it.

The source does not compile (`task3.c:291`, `:508`, `:543`, `:659`). The module models what the lines say once these four are repaired. Growing reallocates
with the old size, and the pool's block is overrun: on a repaired copy built with the Makefile's compiler the next `realloc` aborts, the end of a server whose pool
has grown faults, and its queue stays and refuses the next start. The model takes these outcomes (`Die`). `SIGINT` does not wake the server's `recvfrom`. Services that ended by
the flag are joined with an error, and then the pool does not shrink. That it does shrink (`task3.c:557-565`) is not modelled: the `realloc` in it is the one that aborts. `pthread_create` does not fail in the model. Lost datagrams and the wrap of `mid` are in
`ProducerConsumer`, which has the same client.

### Shops, ThreadCounters, ProcessTree

One action per access to shared memory: the read and the write of `shops[i].load` and of the counter are separate, as are the loader's reads of the buyers' flags. A counting thread that is done reads the counter for `printf`
without the mutex (`ReadResult`) and prints it later (`PrintResult`), while others may go on counting and print in between: the value printed last need not be the last one.
Goods are counted in thousands, and time is left out: the loader and the buyers sleep, but nothing depends on for how long.

`frames[p]` of `ProcessTree` is the stack of `create_jobs` calls with the loop index of each. `fork` copies it to the child. A fork that fails falls through to `case 0`
(`proc_tree_final.c:27-34`): the parent goes on as if it were the child and kills itself in the end.

### PhoneList, PhoneListDynamic

Every function of the array version calls the menu again with its own count; `stack` holds the searches that are still under way and go on when
the menu returns. `ptr[index] = ptr[index++]` (undefined) overwrites the entry after the deleted one in the build the Makefile makes, and so it does here. `put_list` from the
menu changes nothing and is left out. Writes to index `MAXSIZE` are not modelled: `add_element` does not prevent one when the array is full (`phone_list.c:83`), nor `delete_element` when the last entry of a full array
is deleted and the "entry after it" is overwritten (`phone_list.c:149`).

In the list version `addNode` never makes a second node: the loop that would is entered only when there are two already, so every further number overwrites the first one. That is not what its comments say (see the disagreements).
The model has the loop, and `removeNode`'s wrong unlinking of later nodes, all the same; `OneNode` says that neither is ever reached.

### TcpServers

`kind` says which of the three servers runs: one process per connection (`multi`), one process for one connection (`proc`), threads. All pass `accept` a size where it wants
a pointer; the kernel takes the connection, closes it and returns -1. `multi` forks nevertheless, and adds an entry whose pid it never set (measured: 0), so that the
handlers signal the whole group; at the first end of a child its handler dereferences a null pointer. `proc` ends after one connection, and `SIGTERM` leaves its child with the port. The threaded
server ends at the first connection. The client fails in its second `connect`, its child dies while it reports what it has sent, and `SIGTERM` makes `client_rmlist` loop for ever.

### Exercises

These programs do not interact. They are checked side by side by one run: `Init` chooses `program`, the others stay in their initial state, and
each of the run's properties is that of one program.

## 3. What the runs show

| Run | Instance | Checks | Outcome |
|---|---|---|---|
| `sph` | 3 clients, 2 messages each, server prints 5, 1 kill | `TypeOK`, `MutualExclusion`, `UseAfterSetup`, `ImplementsChannel`, `Termination` | hold (15,280 states) |
| `spooler` | 2 clients, 2 buffers, 3 lines each, 1 kill | `TypeOK`, `MutualExclusion`, `NoBufferRace`, `BufferAccounting`, `ImplementsChannel`, `EveryLinePrinted` | hold (33,338 states) |
| `spooler_restart` | 2 clients, 2 buffers, spooler killed and restarted | `OneProducer` | violated |
| `shm_mailbox` | server and 1 client, 2 slots, messages of 2 types, 1 kill | `TypeOK`, `MutualExclusion`, `ImplementsMailbox`, `EveryCallReturns` | hold (78,004 states) |
| `shm_mailbox_interrupted` | the same, Ctrl-C in `semop` | `OneInside` | violated |
| `shm_chat` | 2 clients, 2 ids, 4 slots, 1 text, 1 signal | `TypeOK`, `ImplementsIdPool`, `Delivered`, `Shutdown` | hold (278,042 states) |
| `shm_chat_three` | 3 clients, 2 ids, 1 text, no signal, clients symmetric | `OneOwnerPerId`, `PrintedOnce` | hold (362,481 states) |
| `shm_chat_refused` | 2 clients, 1 id | `EveryRequestAnswered` | violated |
| `mq_chat` | 2 clients, 2 ids, queue of 2, 1 text, 1 signal | `TypeOK`, `ImplementsIdPool`, `Delivered`, `Shutdown` | hold (177,763 states) |
| `mq_chat_three` | 3 clients, 2 ids, queue of 2, 2 texts, no signal, clients symmetric | `OneOwnerPerId`, `InOrder` | hold (1,532,968 states) |
| `producer_consumer` | 2 clients, 2 servers, 2 services, queues of 1, ids of 2 bits, one of three surroundings | `TypeOK`, `OneServerEver`, `Accounted`, `LockStep`, `EveryRequestAnswered`, `Shutdown` | hold (50,580 states) |
| `exercises` | the seven smaller programs, see the bounds | `TypeOK`, `FairTrade`, `Counted`, `OneProcessPerJob`, `ListsIntact`, `Sessions`, `NobodyLeft` | hold (656,100 states) |

Points worth a reader's time:

- `MutualExclusion` of `sph`: the server never waits for `sem[0] = 0`. It is safe only because a client raises
  `sem[1]` in the same call that lowers `sem[0]`, and waits for both to be 0.
- `UseAfterSetup`: the semaphores can be found before they have values; clients are held back by the segment, which is created last.
- `Termination` needs all clients attached: with fewer messages than the server counts it waits for ever, by design.
- `ImplementsChannel` of `spooler`: a signal may stand for a string other than the one whose writer raised it. The count of signals never exceeds the
  number of finished strings, and strings finish in ring order because the mutex is held while writing.
- `OneOwnerPerId`: replies carry an id but no addressee; any waiting client may take one. The exact count of owners (a client,
  a reply under way, an unread sign-off) stays one all the same. An id whose reply is never taken stays with that reply.
- `OneOwnerPerId` of `MqChat`: a reply or a sign-off that finds the queue full takes its id out of use for good; the invariant counts it as the
  owner. So the comment that a client may register again after an error (`task1.c:281-282`) does not hold there either: the client waits for ever.
- `ImplementsIdPool` says in addition in which order an id changes hands: `OneOwnerPerId` would allow it to jump from one client to another. A reply lost to a full queue is `Grant` with the outcome `lost`.
- `ImplementsIdPool` of `shm_chat`: with four slots the buffer fills up, and a write then costs no id, its own or one under way, but never two.
- `Delivered` of `ShmChat` ends where a client was killed inside a mailbox call (`mutex_sem = 0`): from then on nothing is delivered, the code says so by having no `SEM_UNDO`. `Shutdown` does not: a server that gets as far as the removal frees those who wait.
  It excuses two clients that have read one reply after the removal, of whom only one finds the notice.
- `Shutdown` of `MqChat` needs the wait before the removal: without it a client with an unread notice polls for ever.
- `LockStep` and `EveryRequestAnswered` of `producer_consumer`: the comparison of `mid` with `USHRT_MAX` (`task4.c:637`) never holds for a `char`, yet client and server agree on ids after the wrap,
  because both convert to `unsigned short` before they compare. A client that took another's datagram for its own (`mixed`) may run ahead of its own replies; `LockStep` says nothing of it.
- `EveryRequestAnswered` excuses lost datagrams, requests that a full queue refused, and an interrupted server: nothing is ever sent again, so the client waits for ever then.
- `OneServerEver` holds for a poor reason, the queue that is left behind; without that, two servers could share the queues.
- `Sessions` of `exercises` is about a pool whose services are taken, given back, added and cancelled in any order. It does not answer for the answers themselves: it excuses clients that took another's datagram or outlived the server that gave them their service (`astray`), and for the answers late services as well. The services themselves stay exclusive however late they are.
- `FairTrade`: the loader reads the buyers' flags one by one without a lock. That is safe because a flag is never taken back.
- `Counted`: with the mutex the counter ends exact and that value is printed, but not always last; without the mutex three threads of two increments may end with 2, but not with 1: a thread's second increment reads at least 1, because nobody ever writes 0.
- `OneProcessPerJob`: a failed fork shifts a subtree to the parent, which never returns from it, so that no loop goes on twice.
- `ListsIntact`: for the array the danger is a search that goes on with an old count after entries were deleted; a deletion clears nothing, so what it finds was entered once. A program that has searched never ends.
- `shm_mailbox`: a process killed inside the critical section leaves `mutex_sem` at 0 and everyone blocks; `EveryCallReturns` therefore assumes that nobody is killed.

### Disagreements between code and comments

1. `spooler_restart`: a restarted spooler sets the mutex to 1 while a client holds it (`spooler.c:91`); `client.c:96-97` promises one producer at a time.
2. `shm_mailbox_interrupted`: Ctrl-C in the `P` of `read_message` lets the reader in without the semaphore (`task2.c:203-205`); the
   comment at `task2.c:511-512` says the semaphore excludes.
3. `shm_chat_refused`: a request refused for lack of ids is never repeated (`task2.c:550`); the comment at `task2.c:403-404` says
   the client can ask again.
4. `ListsIntact` (of run `exercises`, where it holds of what the code does): `phone_list_dynamic.c` says that `addNode` adds a node to the end of the list ("Добавить новый узел в конец списка", line 32, and line 97), that with one node or more
   ("есть >= 1 узла", line 105) it finds the end (line 109) and makes the new node the last one (lines 112-113); lines 1-3 call the program a data base of subscribers in a linked list. But the loop of lines 109-115 runs only while there is a next node, and only it
   makes one: the list never has more than one node (`OneNode`), and each number entered replaces the one before.

### Bounds, and why they are enough

- **Clients.** Two clients give every pairwise interleaving of a client with a client and with the server; `sph`, `shm_chat_three` and `mq_chat_three`
  take three so that two can wait for what a third holds, and so that a text has readers besides one that inherits an id.
- **Buffers.** Two buffers and six lines wrap both ring indices several times and fill the ring. Two slots are the fewest for which a scan skips
  a slot, finds the wrong type, and fails. In a queue of two messages every kind of message fails to be sent in some behaviour.
- **Messages.** `sph` offers six messages for five reads, so the last one meets the teardown. In `shm_chat` four slots are few enough
  to overflow with an id under way and many enough for runs that never fill them, which `Delivered` and `Shutdown` are about. In `shm_chat_three` `MaxMessages` (26) exceeds what the bounds can produce (`Most` of `ShmChatProofs`, 25),
  so that the exact count of `OneOwnerPerId` applies.
- **Producer-consumer.** `CharMax = 0` leaves a `char` of two values and `ShortSize = 4`: `mid` wraps after two requests and is used again by the third; as in the program
  the id is wider, and a negative `char` becomes one of its upper values. Queues of one message are full whenever two requests meet. The three surroundings are: one client with three lines and a
  lost copy; a second server during or after the first; two clients with one line each and a stop.
- **Exercises.** Shops: 2 buyers, 2 shops, `NEED = 2`, a shop holds at most 2 (thousand), so buyers need several rounds and compete with the loader. Counters: 3 threads, 2 increments.
  Process tree: the tree of the program, 2 forks fail. Phone lists: 3 entries, 2 numbers, 2 nested searches; 2 nodes. Service pool: 3 clients on a pool of 1 that grows to 2, 3 attempts, a queue of 1,
  fewer lines the more clients come, one restart. TCP: 2 clients, one stop.
- **Kills and signals.** One per run, at any action; in the chats a kill strikes between the accesses to the mailbox, or inside one of them as far as its effect on the semaphore goes. `SIGINT` inside `semop` is in `shm_mailbox_interrupted` only. `MaxKills` and `MaxSignals` bound them in the guards.
- **Symmetry** is used only in `shm_chat_three`, `mq_chat_three` and, for the clients of the service pool, in `exercises`. These check invariants only.

### Fairness

`WF` of each process: the scheduler runs what can run, and `input` gives up after five seconds. Kills, signals and whatever a user
does (`ReadLine`, `TypePost`, `TypeQuit`, a line after Ctrl-C) are not fair. `SF` only for `semop` waits that others can overtake
(`GetBuffer`, `ClientLock`, `Lock`): Linux queues the waiters of a semaphore and serves them in order.

`ProducerConsumer` has `WF` for each server, service and waiting client: their loops poll and never block. Nobody has to type, start a server, or press Ctrl-C, and no datagram has to be lost.
`Exercises` states no fairness: a `trylock` may fail every time it is tried, so the code guarantees neither the buyers nor the loader an end. What these programs leave behind when nothing can
move is stated without fairness: `NobodyLeft` says that `Still`, in which no guard of `Progress` holds, is exactly when `Progress` is not `ENABLED`, and what holds then (`AtRest`).

## 4. What is proved

All theorems hold for every value of the constants that the module's assumption allows, kills included.

**`SphServerClientProofs`**, for any set of clients, any `ServerMsgs` and `ClientMsgs` above 0, and any `MaxKills` (`SphAssumption`):
`TypeCorrect`, `Exclusion`, `SetupFirst` (the three invariants of run `sph`) and `Refinement` (`BoundedChannel` with capacity 1).
None of the three invariants is inductive. `Exclusion` for the server needs to know that `sem[1] = 1` implies that no client holds the segment, which is a fact about
the semaphore values; that fact is false before `SETVAL`; and that nobody acts before `SETVAL` is `SetupFirst`. `IInv` adds

- `SemDiscipline`: at most one semaphore is up, and whoever uses the segment holds `sem[0]`;
- `MessageFlow`: the semaphores and program counters say whether there is exactly one unprinted message, and then `shm` holds it;
- `SetupInv`, `LoopBounds`: what setup guarantees, and the loop limits.

`SemDiscipline` and `MessageFlow` are claimed once the segment has been opened (`Opened`). The proof takes each action in turn
(`ServerIInv`, `ClientIInv`), and `StepRefines` maps `PublishMessage` to `Send`, `PrintMessage` to `Deliver` and the rest to stuttering.

**`SpoolerProofs`**, for any finite set of clients, any number of buffers and lines above 0, and any `MaxKills` (`SpoolerAssumption`; `Spec`, in which nobody restarts the spooler):
`TypeCorrect`, `Exclusion`, `NoRace`, `BuffersAccounted` (the four invariants of run `spooler`) and `Refinement` (`BoundedChannel` with capacity `MaxBuffers`).
`IInv` has four layers, each proved from those before it:

1. `Order`: the objects are created and initialized in order, clients find the mutex locked until then, and at most one is inside it.
2. `Space`: `Used` (free buffers, those about to be written, the strings not yet printed, the buffer being given back) fits into the ring, and `Told` (signals raised or about to be) never exceeds the strings that are there.
3. `Ring`: the strings not yet printed lie in the ring in order from `PrintSlot` on, and whoever writes next writes the slot after them.
4. `Accounts`: every buffer is free, announced, held, or was held by a process killed.

`NoRace` follows from 2 and 3: the slot being printed and the slot being written are both within `MaxBuffers` places of `PrintSlot`, and differ. The sums count the clients in a set of states
(`Count`); `CountEnter`, `CountLeave` and `CountStay` say how one client's step changes such a number. `Ahead` adds places in the ring without a modulo, which the solver does
not handle. The ring is described only while the spooler lives: after that nothing is printed.

**`ShmMailboxProofs`**, for any clients and messages, any `MaxMessages` above 0 and any `MaxKills` (`MailboxAssumption`; `Spec`, in which nobody is interrupted):
`TypeCorrect`, `Exclusion` and `Refinement` (`ImplementsMailbox`, which is what lets `ShmChat` take each access as one action). `MutualExclusion` is not inductive: `Semaphore` adds that
`mutex_sem` never exceeds 1 and that nobody is inside when it is 1, and `SetupOrder` that clients cannot find the memory before `run_server` has locked the semaphore. `BusyStep` reduces the
eleven statements of a call to what they do to the semaphore. `TypeOK` needs `Calling`: a process inside knows which call it is in.

For the refinement `DataInv` (`SlotsInvariant`) adds what a call has seen of the slots, `Sight`: no slot before the index is a wanted one, the slot being filled is free unless all are `SENT`, the slot being removed still
holds what was copied. It stays true because the call is alone inside; a killed process may leave a slot filled and never posted, which is why a free slot's content is not part of the mapping. `StepRefines` maps `PostSlot` to
`Write`, or `FillSlot` when all slots are `SENT` (the old message is lost there, and `PostSlot` changes nothing), `RemoveMessage` and `ScanExhausted` to `Read`, and the rest to stuttering.
`BagAdded`, `BagDropped` and `BagSame` say how the bag follows the slots, and `AsManyCopies` numbers the slots that hold the same message, so that the abstract buffer is `Full` exactly when all slots are `SENT`.

**`ShmChatProofs`**, for any clients, texts, signals, and any `MaxClients` and `MaxMessages` above 0 (`ChatAssumption`), so with a buffer that overflows as well: `TypeCorrect`, `PrintOnce`, `OneOwnerAtMost`, `OwnerOfEachId`. `IInv` has four layers, 2 and 3 as long as the semaphore exists:

1. `Order`: the types, what each kind of message looks like, what the server has in hand in each of its states, and that nobody takes part without an id.
2. `Ownership`: an id that is `TAKED` is held by one client, or carried by one unread reply or sign-off, or by none; a `FREE` one is nobody's.
3. `Texts`: a text is first a post, then in the server's hand, then a notice per reader, then on screens; it is never in two of these stages for one id. An id that changes hands takes its unread notices with it.
4. `Printing`: what is left of 3 when the semaphore is gone and two clients may have one id: no client has printed a text it still has a notice of, other than the one whose slot it has yet to free, and nobody has notices of its own texts. `PrintedOnce` is its last step only.

`OneOwnerAtMost` says that no id has two owners before the semaphore is removed, however the buffer overflows. That each `TAKED` id has one (`OneOwnerPerId`) is proved under `[](~Box!Full)`: a message that lands on an unread reply or sign-off takes the id with it. `shm_chat_three`
has a buffer that cannot overflow and checks the same. `PoolRefinement` (`ImplementsIdPool`) needs no such condition, because `IdPool` has the loss: `PoolMoves` maps every action to a move of one id, and
a write into a full buffer to a move with one id lost, its own or another, never both; `PoolCloses` is the removal.

The liveness properties have a safety half, which says where the thing awaited is in the meantime. It is proved, under `[](~Box!Full)` as well:

- `TextsAlwaysReach` (of `Delivered`): a text is among the posts, in the server's hand with the reader still in `todo`, in the buffer under the reader's id, or on its screen, for everyone who was in the chat when it was posted and is still in it, until the removal. It
  rests on `InChatApart` (who is in the chat has an id of its own) and on the fact that ids of running clients stay `TAKED`.
- `EveryoneTold` (of `Shutdown`): once the server has ended its job, and until it removes the semaphore, the last notice is in the buffer for every running client with an id and for every id still in a reply.

These conditions can be done without in a buffer that is large enough (`NothingLost`). `Once`, which TLC checked with a buffer of 20 and one of 3 messages before it was proved, follows each errand (a request for an id, a text, a sign-off)
through its `Life`: it is unread, then in the server's hand, and then there are notices of it, at most one per id, whoever has the id by then; the server starts its last loop once. `NothingTwice` follows, also when the buffer overflows: no two unread messages say the same.
So the buffer holds no more than can be said at all, which `CountSayable` counts: with `s = 2 * clients + texts`, a request, a post or a sign-off for each of the `s` errands, a reply per id, and to each id a notice of every errand and the last one. That sum is `Most`, and with
`Most < MaxMessages` the buffer is never full (`NeverFull`). It makes the comment at `task2.c:156` exact, which calls a full buffer unlikely. The clients are those of the server's whole life, and nothing is assumed about how fast they read. With the program's
`MAX_CLIENTS` 10 and `MAX_MESSAGES` 100 the bound covers three clients and one text; beyond that it depends on everybody reading in time.

**`MqChatProofs`**, for any clients, signals and number of texts, and any `MaxClients` and `Capacity` above 0 (`MqAssumption`): `TypeCorrect` (with it that the queue never holds more than `Capacity`), `OneOwner`, `TextsInOrder`.
`Order` and `Ownership` are as above, but exact, because failed sends are remembered in `lost`: holders, places in the queue and losses of a `TAKED` id are one thing together. `Flow` is an order along the way of a text:
what is on a screen is before what is in that reader's mail, which is before what the server still forwards, which is before the unread posts. `InOrder` is its last step only.
`PoolRefinement` is as above, with the removal of the queue as a move of its own.

The safety halves of the liveness properties hold without a condition, since the failed sends are named: `TextsAlwaysReach` and `EveryoneTold` as for `ShmChat`, unless that reader's send is in `lost`. `NobodyLeftBehind`, of the step that removes the queue
after the full wait: every client with an id is gone, hangs in `gets`, or was not told. It combines `EveryoneTold` with the guard `MailDue`, so it rests on the timing assumption of `RemoveQueue`.

**`ProducerConsumerProofs`**, for any finite set of clients, any servers, services, surroundings, queue capacity and `char` range, ids at least one bit wider than `mid`'s range (`ProducerConsumerAssumption`): `TypeCorrect`, `OneServer`, `EachRequestOnce`, `InLockStep`. `IInv` is

1. `Types`, and `Alone`: one server at most has the request queue, and the reply queue is never given back, so nobody else gets past the second `msgget`;
2. `Conserved`: socket, `current`, the two queues, the services' hands, `answered` and `dropped` share no request, and while a server serves, each it has taken on is in one of them;
3. `Numbered`: a request in any of these was typed before the line that its client types next;
4. `InStep`: a client that is not `mixed` has only its pending request under way, and in its raw socket the request, the acknowledgement and the reply, each at most once and in this order.

`LockStep` follows from 4 and from `Shorts`: however `mid` has wrapped, a request carries another id than the one its sender then expects, so that no client counts the copy of its own request.

**`ExercisesProofs`**: `TradeIsFair`, `IncrementsCounted`, `OneProcess`, `ListsStayIntact`, for any buyers and loads, any threads, any depth of nested searches, any number of failed forks, and so on (the assumption of each module). Each program's invariant is shown on its own steps.

- *Counters* (`CountersInv`): the increments made are a set of pairs (thread, number), and the counter is its size under the mutex. Without it, it is at most that, above 0 once someone has written, and above 1 when all have made more than one: a later increment never reads 0.
  Once all have made their increments the counter does not move any more, so whoever reads it last prints its final value, and under the mutex nobody reads less than it has added itself.
- *Shops* (`ShopsInv`): who is in a shop has its door (`OneInside`), what a thread has read of a load is still there until it writes (`Handled`), a flag seen set belongs to a buyer that has ended (`Flags`), and the units of all goods are conserved (`Traded`). The goods are `Units`, counted as a set.
- *Process tree* (`TreeInv`): what is `Ahead` of a process is claimed by nobody, and no two processes fork for one job; a process is in a call for another job than its own only if forks failed (`Calls`); a process is a child of its parent job's or of that one's parent (`Family`).
- *Phone lists* (`Searches`, `OneNode`): the first `count` entries were entered, also for every count that a search under way keeps.

**`ServersProofs`**: `OwnSessions` (`Sessions`), `ListOfChildren`, and `TypeCorrect` for all seven programs. `PoolInv` was checked by TLC on an instance of its own before it was proved. Its parts:

- `ServerState`, `ClientState`, `Protocol`: a client connects once and closes once and nothing of its data comes after its close; what a server that has ended leaves behind;
- `Held`: as long as nobody is `astray`, a service that a client holds is busy, is in the pool, and is held by that client alone, from the reply to the connect until the close has been *received*, not sent;
- `Quiet`: as long as no service was `late`, at most one text is on its way through thread and queue, that of the request over which `run_server` sleeps;
- `Heard`, `Answered`: what the datagrams a client may read say, and that the answer taken is that to its last request; `Fits`: the queue is never above its capacity.

`NobodyWaits` is `NobodyLeft` without `ENABLED`: `Still => AtRest` always, and no step of `Progress` starts in a state that is `Still`.
`ListOfChildren` explains why the forking server signals its whole group: its list has as many entries as it has forked processes, the one without a pid included.

The following were put in a form that can be reasoned about, with the same meaning: `OwnersOf`, `Room` and the queue's length in `MqChat` and `ServicePool` count sets of places instead of summing lengths; `Goods` and the increments are sets of units; `j_childs` is built by nested `Link`s.
The assumptions say that `Nothing` is no message, that sets that are counted (clients, buyers, threads) are finite and the threads not empty, and that a client tries at least once (`ATTEMPTS`).

Only model-checked:

- all liveness (`Termination`, `EveryLinePrinted`, `EveryCallReturns`, `Delivered`, `Shutdown`, `EveryRequestAnswered`): the provers handle neither `ENABLED` nor the fairness conditions built on it;
- of `NobodyLeft` that a state with `Progress` not `ENABLED` is `Still`; the converse and its other two clauses are `NobodyWaits` and `ListOfChildren`;
- the three violated properties, each a single counterexample.

## 5. Plan

Done: the models of every component whose state is worth one, and proofs of all safety properties that the runs check, of the five refinements, of the safety half of what is awaited, and of the size a buffer of `ShmChat` needs.

Not planned: slot order in the chat (it would multiply the states and no reader depends on it); `SIGINT` inside mailbox calls in the chat
(`ShmMailbox` has it); the components listed under "Not modelled".
