---- MODULE PrivateMemory ----
(***************************************************************************)
(* What fork and copy-on-write promise for the pages a process does not    *)
(* share: each process has a memory of its own, a child starts with its    *)
(* parent's, and a write is seen by the one that wrote.                    *)
(***************************************************************************)
CONSTANTS
    Procs,    \* the processes
    Pages,    \* the pages of a process
    Values,   \* what a page can hold
    Zero,     \* what a fresh page holds
    Unmapped  \* a page that is not there

VARIABLES
    live,     \* the processes there are
    view      \* what each process reads

vars == <<live, view>>

Nothing == [v \in Pages |-> Unmapped]

Init == live = {} /\ view = [p \in Procs |-> Nothing]

Start(p) == p \notin live /\ live' = live \cup {p} /\ UNCHANGED view

Fork(p, c) ==
    /\ p \in live /\ c \notin live
    /\ live' = live \cup {c}
    /\ view' = [view EXCEPT ![c] = view[p]]

\* Fresh pages appear where there were none, or pages go.
Map(p, V) ==
    /\ p \in live /\ \A v \in V : view[p][v] = Unmapped
    /\ view' = [view EXCEPT ![p] = [v \in Pages |-> IF v \in V THEN Zero ELSE @[v]]]
    /\ UNCHANGED live

Unmap(p, V) ==
    /\ p \in live
    /\ view' = [view EXCEPT ![p] = [v \in Pages |-> IF v \in V THEN Unmapped ELSE @[v]]]
    /\ UNCHANGED live

Write(p, v, x) ==
    /\ p \in live /\ view[p][v] # Unmapped
    /\ view' = [view EXCEPT ![p][v] = x]
    /\ UNCHANGED live

Next ==
    \E p \in Procs :
        \/ Start(p)
        \/ \E c \in Procs : Fork(p, c)
        \/ \E V \in SUBSET Pages : Map(p, V) \/ Unmap(p, V)
        \/ \E v \in Pages, x \in Values : Write(p, v, x)

Spec == Init /\ [][Next]_vars
====
