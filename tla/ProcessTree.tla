---------------------------- MODULE ProcessTree -----------------------------
(***************************************************************************)
(* src/32_processes/proc_tree_final.c: a tree of jobs is linked and every  *)
(* process forks one process per child of its job.  A child process forks  *)
(* the children of its own job in turn, sleeps and kills itself; the       *)
(* program's first process waits for two children.                         *)
(*                                                                         *)
(* A fork that fails falls through to the code of the child: the parent    *)
(* itself forks the grandchildren and kills itself.                        *)
(***************************************************************************)
EXTENDS Integers, Sequences, SequencesExt

CONSTANTS
    MAX_CHILDS,   \* children a job may have
    MaxFailures   \* bound: forks that fail

ProcessTreeAssumption == MAX_CHILDS \in Nat \ {0} /\ MaxFailures \in Nat

VARIABLES
    frames,       \* per process: its calls of create_jobs, a sequence of <<job,
                  \* index of the child that comes next>>
    state,        \* per process: what it does
    parent,       \* per process: the process that forked it
    waits,        \* how many times main has called wait
    reaped,       \* the processes that have been waited for
    failures      \* how many forks have failed

vars == <<frames, state, parent, waits, reaped, failures>>

\* A process is named by the job it was forked for.
Jobs == {"root", "p1", "p2", "p3", "p4", "p5"}

\* link_parent_child: the child goes into the first free entry of j_childs, if
\* there is one.
Link(childs, job, child) ==
    IF Len(childs[job]) < MAX_CHILDS
    THEN [childs EXCEPT ![job] = Append(@, child)]
    ELSE childs

\* The tree that main links.
j_childs ==
    LET unlinked == [job \in Jobs |-> <<>>]
        level1 == Link(Link(unlinked, "root", "p1"), "root", "p2")
    IN  Link(Link(Link(level1, "p1", "p3"), "p1", "p4"), "p2", "p5")

Init ==
    /\ frames = [p \in Jobs |-> IF p = "root" THEN <<<<"root", 1>>>> ELSE <<>>]
    /\ state = [p \in Jobs |-> IF p = "root" THEN "create" ELSE "none"]
    /\ parent = [p \in Jobs |-> "none"]
    /\ waits = 0
    /\ reaped = {}
    /\ failures = 0

Top(p) == frames[p][Len(frames[p])]

\* The child whose turn it is in p's innermost create_jobs.
Turn(p) == j_childs[Top(p)[1]][Top(p)[2]]

HasTurn(p) == Top(p)[2] <= Len(j_childs[Top(p)[1]])

\* The frames of p when its innermost loop has advanced.
Advanced(p) == [frames[p] EXCEPT ![Len(frames[p])] = <<@[1], @[2] + 1>>]

\* fork succeeds: the child has a copy of the parent's frames, and calls
\* create_jobs for its own job's children.
Fork(p) ==
    /\ state[p] = "create" /\ HasTurn(p)
    /\ LET child == Turn(p) IN
        /\ frames' = [frames EXCEPT ![p] = Advanced(p),
                                         ![child] = Append(Advanced(p), <<child, 1>>)]
        /\ state' = [state EXCEPT ![child] = "create"]
        /\ parent' = [parent EXCEPT ![child] = p]
    /\ UNCHANGED <<waits, reaped, failures>>

\* fork fails, and case -1 falls through to case 0.
ForkFails(p) ==
    /\ state[p] = "create" /\ HasTurn(p)
    /\ failures < MaxFailures
    /\ failures' = failures + 1
    /\ frames' = [frames EXCEPT ![p] = Append(Advanced(p), <<Turn(p), 1>>)]
    /\ UNCHANGED <<state, parent, waits, reaped>>

\* A mutant of Finish: the child does not kill itself and goes on in the loop it
\* was forked in.
GoOn(p) ==
    /\ state[p] = "create" /\ ~HasTurn(p)
    /\ IF Len(frames[p]) = 1
       THEN state' = [state EXCEPT ![p] = "wait"] /\ UNCHANGED frames
       ELSE /\ frames' = [frames EXCEPT ![p] = SubSeq(@, 1, Len(@) - 1)]
            /\ UNCHANGED state
    /\ UNCHANGED <<parent, waits, reaped, failures>>

\* The innermost loop is over.  Main's call of create_jobs returns to main; every
\* other is followed by sleep and kill(getpid(), 9).
Finish(p) ==
    /\ state[p] = "create" /\ ~HasTurn(p)
    /\ state' = [state EXCEPT ![p] = IF Len(frames[p]) = 1 THEN "wait" ELSE "sleep"]
    /\ UNCHANGED <<frames, parent, waits, reaped, failures>>

\* kill(getpid(), 9): the children that are left go to init.
Kill(p) ==
    /\ state[p] = "sleep"
    /\ state' = [state EXCEPT ![p] = "killed"]
    /\ UNCHANGED <<frames, parent, waits, reaped, failures>>

\* wait(NULL) takes a child that has ended, and fails if there is no child.
Wait(p) ==
    /\ state[p] = "wait" /\ waits < 2
    /\ LET children == {c \in Jobs \ reaped : parent[c] = p} IN
        IF children = {} THEN UNCHANGED reaped
        ELSE \E c \in children : state[c] = "killed" /\ reaped' = reaped \cup {c}
    /\ waits' = waits + 1
    /\ UNCHANGED <<frames, state, parent, failures>>

Exit(p) ==
    /\ state[p] = "wait" /\ waits = 2
    /\ state' = [state EXCEPT ![p] = "exited"]
    /\ UNCHANGED <<frames, parent, waits, reaped, failures>>

Next ==
    \E p \in Jobs :
        Fork(p) \/ ForkFails(p) \/ Finish(p) \/ Kill(p) \/ Wait(p) \/ Exit(p)

Spec == Init /\ [][Next]_vars

-----------------------------------------------------------------------------
(* Properties *)

\* The type of every variable (struct job, the process table).
TypeOK ==
    /\ frames \in [Jobs -> Seq(Jobs \X Nat)]
    /\ state \in [Jobs -> {"none", "create", "sleep", "killed", "wait", "exited"}]
    /\ parent \in [Jobs -> Jobs \cup {"none"}]
    /\ waits \in 0..2 /\ reaped \subseteq Jobs /\ failures \in 0..MaxFailures

\* However forks fail, no job gets a second process; a process is forked by the
\* process of its parent job, or of that one's parent when a fork has failed; and only
\* the first process gets past create_jobs: when it exits it has reaped the
\* processes of its two children (create_jobs, 19-39, and main, 94-97).
OneProcessPerJob ==
    /\ \A p \in Jobs :
        state[p] = "create" /\ HasTurn(p) => state[Turn(p)] = "none"
    /\ \A c \in Jobs : parent[c] # "none" =>
        \/ c \in ToSet(j_childs[parent[c]])
        \/ failures > 0 /\ \E a \in ToSet(j_childs[parent[c]]) : c \in ToSet(j_childs[a])
    /\ \A p \in Jobs : state[p] \in {"wait", "exited"} => p = "root"
    /\ state["root"] = "exited" => reaped = ToSet(j_childs["root"])

=============================================================================
