----------------------------- MODULE TcpServers -----------------------------
(***************************************************************************)
(* The TCP servers of src/44_high-load_server/multyproc and their client:  *)
(* processes/multi/svr forks a process per connection and keeps a list of  *)
(* them, processes/proc/svr forks one process that takes one connection,   *)
(* threads/svr_threads is to start a thread per connection.                *)
(*                                                                         *)
(* All three pass accept the size of the address instead of a pointer to   *)
(* it: the kernel takes the connection off the backlog, cannot write the   *)
(* address, closes the connection and returns -1.                          *)
(*                                                                         *)
(* multi's parent never sets the pid it puts into its list (measured: 0),  *)
(* and kill with the pid 0 of the list's header signals the whole group.   *)
(***************************************************************************)
EXTENDS Naturals, FiniteSets

CONSTANTS
    Clients,      \* client processes
    Parent,       \* the server's first process
    Worker        \* the process proc's server forks

TcpServersAssumption ==
    /\ IsFiniteSet(Clients)
    /\ Parent \notin Clients /\ Worker \notin Clients /\ Parent # Worker

VARIABLES
    kind,         \* which server runs: "multi", "proc", "threads"
    pc,           \* per server process: what it does; multi forks one per
                  \* connection, named by its client
    entries,      \* per process of multi: the length of its procs_list
    freed,        \* the processes of multi that have freed their procs_list
    shut,         \* the processes of multi that have closed the server's socket
    signals,      \* per process of multi: the signals to be delivered
    mayStop,      \* whether the server may still be told to stop
    conn,         \* per client: its connection
    clt,          \* per client: what its first process does
    kid           \* per client: what the process it forks does

serverVars == <<pc, entries, freed, shut, signals>>
clientVars == <<clt, kid>>
vars == <<kind, serverVars, mayStop, conn, clientVars>>

Procs == {Parent, Worker} \cup Clients

Init ==
    /\ kind \in {"multi", "proc", "threads"}
    /\ pc = [p \in Procs |->
                CASE p = Parent -> IF kind = "proc" THEN "wait" ELSE "accept"
                  [] p = Worker -> IF kind = "proc" THEN "accept" ELSE "none"
                  [] OTHER -> "none"]
    /\ entries = [p \in Procs |-> 0]
    /\ freed = {} /\ shut = {}
    /\ signals = [p \in Procs |-> {}]
    /\ mayStop = TRUE
    /\ conn = [c \in Clients |-> "none"]
    /\ clt = [c \in Clients |-> "off"]
    /\ kid = [c \in Clients |-> "none"]

Alive(p) == pc[p] \notin {"none", "ended"}

\* Somebody has the listening socket open.
Listening == \E p \in Procs : Alive(p) /\ p \notin shut

\* The processes in S end.
Ended(S) == pc' = [p \in Procs |-> IF p \in S /\ Alive(p) THEN "ended" ELSE pc[p]]

-----------------------------------------------------------------------------
(* The kernel: accept takes a connection and closes it; the connections nobody *)
(* is left to take are reset.                                              *)

Accept(c) == conn[c] = "queued" /\ conn' = [conn EXCEPT ![c] = "taken"]

Reset(c) ==
    /\ conn[c] = "queued" /\ ~Listening
    /\ conn' = [conn EXCEPT ![c] = "reset"]
    /\ UNCHANGED <<kind, serverVars, mayStop, clientVars>>

-----------------------------------------------------------------------------
(* svr_multi *)

\* accept returns -1, which is not 0: a process is forked for c.  It inherits the
\* list.
MultiFork(c) ==
    /\ kind = "multi" /\ pc[Parent] = "accept"
    /\ Accept(c)
    /\ pc' = [pc EXCEPT ![Parent] = "add", ![c] = "recv"]
    /\ entries' = [entries EXCEPT ![c] = entries[Parent]]
    /\ UNCHANGED <<kind, freed, shut, signals, mayStop, clientVars>>

\* svrmulti_addchild
MultiAdd ==
    /\ pc[Parent] = "add"
    /\ entries' = [entries EXCEPT ![Parent] = @ + 1]
    /\ pc' = [pc EXCEPT ![Parent] = "accept"]
    /\ UNCHANGED <<kind, freed, shut, signals, mayStop, conn, clientVars>>

\* A mutant of MultiExit: the child is not made to exit and goes on in the parent's
\* loop.
BackToAccept(c) ==
    /\ pc[c] = "recv"
    /\ pc' = [pc EXCEPT ![c] = "accept"]
    /\ UNCHANGED <<kind, entries, freed, shut, signals, mayStop, conn, clientVars>>

\* The child's recv fails; it exits.
MultiExit(c) ==
    /\ pc[c] = "recv"
    /\ Ended({c})
    /\ signals' = [signals EXCEPT ![Parent] = @ \cup {"CHLD"}]
    /\ UNCHANGED <<kind, entries, freed, shut, mayStop, conn, clientVars>>

\* mark_proc_ended: the child that has ended is not in the list, its entry is
\* used nevertheless.
mark_proc_ended ==
    /\ Alive(Parent) /\ "CHLD" \in signals[Parent]
    /\ Ended({Parent})
    /\ signals' = [signals EXCEPT ![Parent] = {}]
    /\ UNCHANGED <<kind, entries, freed, shut, mayStop, conn, clientVars>>

\* svrmulti_killall signals the whole group if there is an entry, and in any case
\* the parent.
Killed(p) ==
    {q \in Procs : Alive(q) /\ (entries[p] > 0 \/ q = Parent)}

\* The entries are freed, procs_list is NULL from now on.
svrmulti_rmlist(p) == freed \cup {p}

\* SIGINT (svrmulti_killall) or SIGTERM (svrmulti_exit) is delivered to p.  The
\* signal p sends itself finds the list gone, as does a second one of a child's.
svrmulti_exit(p) ==
    /\ Alive(p)
    /\ \E s \in signals[p] \ {"CHLD"} :
        LET dies == p = Parent \/ entries[p] > 0 \/ p \in freed
            hit == IF p \in freed THEN {} ELSE Killed(p)
        IN  /\ IF dies THEN Ended({p}) /\ UNCHANGED <<freed, shut>>
               ELSE /\ shut' = shut \cup {p}
                    /\ freed' = IF s = "TERM" THEN svrmulti_rmlist(p) ELSE freed
                    /\ UNCHANGED pc
            /\ signals' = [q \in Procs |->
                    IF q = p THEN IF dies THEN {} ELSE signals[p] \ {s}
                    ELSE (IF q \in hit THEN signals[q] \cup {"TERM"} ELSE signals[q])
                         \cup (IF q = Parent /\ dies THEN {"CHLD"} ELSE {})]
    /\ UNCHANGED <<kind, entries, mayStop, conn, clientVars>>

-----------------------------------------------------------------------------
(* svr_proc: the child takes one connection, fails to receive, finds no child of *)
(* its own to wait for and ends; the parent waits for it and ends.         *)

ProcTake(c) ==
    /\ pc[Worker] = "accept"
    /\ Accept(c)
    /\ pc' = [pc EXCEPT ![Worker] = "wait"]
    /\ UNCHANGED <<kind, entries, freed, shut, signals, mayStop, clientVars>>

ProcWait(p) ==
    /\ kind = "proc" /\ pc[p] = "wait"
    /\ p = Parent => pc[Worker] = "ended"
    /\ Ended({p})
    /\ UNCHANGED <<kind, entries, freed, shut, signals, mayStop, conn, clientVars>>

-----------------------------------------------------------------------------
(* svr_threads: threads_list was never made, threadlist_rmall returns at once *)
(* and the process exits before it has started any thread.                 *)

ThreadsExit(c) ==
    /\ kind = "threads" /\ pc[Parent] = "accept"
    /\ Accept(c)
    /\ Ended({Parent})
    /\ UNCHANGED <<kind, entries, freed, shut, signals, mayStop, clientVars>>

-----------------------------------------------------------------------------
(* ^C reaches every process of the server, kill its first one.  proc handles *)
(* neither, threads' handler does nothing.                                 *)

Stop(s) ==
    /\ mayStop /\ mayStop' = FALSE
    /\ LET told == {p \in Procs : Alive(p) /\ (s = "INT" \/ p = Parent)} IN
        CASE kind = "multi" ->
                /\ signals' = [p \in Procs |->
                        IF p \in told THEN signals[p] \cup {s} ELSE signals[p]]
                /\ UNCHANGED pc
          [] kind = "proc" -> Ended(told) /\ UNCHANGED signals
          [] OTHER -> UNCHANGED <<pc, signals>>
    /\ UNCHANGED <<kind, entries, freed, shut, conn, clientVars>>

-----------------------------------------------------------------------------
(* The client *)

Connect(c) ==
    /\ clt[c] = "off"
    /\ IF Listening
       THEN conn' = [conn EXCEPT ![c] = "queued"] /\ clt' = [clt EXCEPT ![c] = "fork"]
       ELSE clt' = [clt EXCEPT ![c] = "ended"] /\ UNCHANGED conn
    /\ UNCHANGED <<kind, serverVars, mayStop, kid>>

ClientFork(c) ==
    /\ clt[c] = "fork"
    /\ kid' = [kid EXCEPT ![c] = "send"]
    /\ clt' = [clt EXCEPT ![c] = "again"]
    /\ UNCHANGED <<kind, serverVars, mayStop, conn>>

\* The loop connects the same socket again, fails, and the client returns before
\* any child gets into its list.
ConnectAgain(c) ==
    /\ clt[c] = "again"
    /\ clt' = [clt EXCEPT ![c] = "ended"]
    /\ UNCHANGED <<kind, serverVars, mayStop, conn, kid>>

\* The child sends and ends: it dies of the message about what it has sent (the
\* port is printed as a string), or reports that send failed.
Say(c) ==
    /\ kid[c] = "send"
    /\ kid' = [kid EXCEPT ![c] = "ended"]
    /\ UNCHANGED <<kind, serverVars, mayStop, conn, clt>>

\* client_child reaps it, and does not find it in the list.
client_child(c) ==
    /\ kid[c] = "ended" /\ clt[c] = "again"
    /\ kid' = [kid EXCEPT ![c] = "reaped"]
    /\ UNCHANGED <<kind, serverVars, mayStop, conn, clt>>

\* The loop frees what follows the head of the list and stays at the head.
client_rmlist(c) == clt' = [clt EXCEPT ![c] = "spins"]

\* SIGTERM: the head is the list, client_killall marks it finished.
client_exit(c) ==
    /\ clt[c] \in {"fork", "again"}
    /\ client_rmlist(c)
    /\ UNCHANGED <<kind, serverVars, mayStop, conn, kid>>

-----------------------------------------------------------------------------
\* What goes on without anybody starting a client or sending a signal.
Progress ==
    \/ \E c \in Clients :
        \/ Reset(c) \/ MultiFork(c) \/ MultiExit(c) \/ ProcTake(c) \/ ThreadsExit(c)
        \/ ClientFork(c) \/ ConnectAgain(c) \/ Say(c) \/ client_child(c)
    \/ MultiAdd \/ mark_proc_ended
    \/ \E p \in Procs : svrmulti_exit(p) \/ ProcWait(p)

Next ==
    \/ Progress
    \/ \E s \in {"INT", "TERM"} : Stop(s)
    \/ \E c \in Clients : Connect(c) \/ client_exit(c)

Spec == Init /\ [][Next]_vars

-----------------------------------------------------------------------------
(* Properties *)

\* The type of every variable (struct child_proc_t, struct child_procs_t).
TypeOK ==
    /\ kind \in {"multi", "proc", "threads"}
    /\ pc \in [Procs -> {"none", "accept", "add", "recv", "wait", "ended"}]
    /\ entries \in [Procs -> 0..Cardinality(Clients)]
    /\ freed \subseteq shut /\ shut \subseteq Procs
    /\ signals \in [Procs -> SUBSET {"INT", "TERM", "CHLD"}]
    /\ mayStop \in BOOLEAN
    /\ conn \in [Clients -> {"none", "queued", "taken", "reset"}]
    /\ clt \in [Clients -> {"off", "fork", "again", "ended", "spins"}]
    /\ kid \in [Clients -> {"none", "send", "ended", "reaped"}]

\* No part of Progress can be taken: nothing to receive, to fork, to add, to send or
\* to deliver, no connection that somebody would take or reset, no process to wait for.
Still ==
    /\ \A c \in Clients :
        /\ conn[c] = "queued" =>
            Listening /\ pc[Worker] # "accept" /\ (kind = "proc" \/ pc[Parent] # "accept")
        /\ pc[c] # "recv" /\ clt[c] \notin {"fork", "again"} /\ kid[c] # "send"
    /\ pc[Parent] # "add"
    /\ \A p \in Procs : Alive(p) => signals[p] \subseteq IF p = Parent THEN {} ELSE {"CHLD"}
    /\ kind = "proc" => \A p \in Procs : pc[p] = "wait" => p = Parent /\ pc[Worker] # "ended"

\* No client's connection is left in a backlog and no client process is left but one
\* that was sent SIGTERM; a server either waits for connections or is gone with all
\* the processes it forked, except proc's child, which keeps the port when its parent
\* is killed.
AtRest ==
    /\ \A c \in Clients :
        /\ conn[c] # "queued"
        /\ clt[c] \in {"off", "ended", "spins"} /\ kid[c] # "send"
    /\ \/ pc[Parent] = "accept" /\ \A p \in Procs \ {Parent} : ~Alive(p)
       \/ \A p \in Procs : ~Alive(p)
       \/ kind = "proc" /\ pc[Worker] = "accept"
          /\ pc[Parent] = IF mayStop THEN "wait" ELSE "ended"

\* Whoever dies or is signalled when: once nothing moves any more, nobody is left
\* waiting.  As long as multi's parent lives, the list has an entry for each process
\* it has forked (main of each program, mark_proc_ended, svrmulti_exit).
NobodyLeft ==
    /\ Still <=> ~ENABLED Progress
    /\ Still => AtRest
    /\ kind = "multi" /\ Alive(Parent) =>
        entries[Parent] + (IF pc[Parent] = "add" THEN 1 ELSE 0)
            = Cardinality({c \in Clients : conn[c] = "taken"})

=============================================================================
