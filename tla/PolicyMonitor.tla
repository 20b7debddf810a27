---- MODULE PolicyMonitor ----
(***************************************************************************)
(* What the kernel expects of its policy gate.  Every thread has a set of  *)
(* calls it is denied, every ring a set of powers; a call or an access is  *)
(* refused exactly when the ring, the thread's set or its revocation says  *)
(* so, and the refused ones, and no others, stand in a log that keeps the  *)
(* latest first.                                                           *)
(***************************************************************************)
EXTENDS Integers, Sequences, FiniteSets

CONSTANTS
    Tids,      \* the threads
    Rings,     \* the rings calls come from
    Numbers,   \* the numbers they call
    Powers,    \* what a ring may be given, each with its code
    Always,    \* numbers no ring is refused
    RingMay,   \* the numbers each ring may call
    Room,      \* how many numbers a thread can be denied
    AllDenied, \* what a revoked thread is denied
    Kept       \* how many refusals the log keeps

VARIABLES
    on,       \* whether the gate is closed at all
    denied,   \* the numbers each thread is denied
    revoked,  \* the threads that may call nothing
    powers,   \* the resources each ring may use
    recent,   \* the refusals, latest first
    served    \* the last request and whether it was granted

monitorVars == <<on, denied, revoked, powers, recent, served>>

Latest(s) == SubSeq(s, 1, IF Len(s) < Kept THEN Len(s) ELSE Kept)

Init ==
    /\ on = FALSE
    /\ denied = [t \in Tids |-> {}]
    /\ revoked = {}
    /\ powers \in [Rings -> SUBSET DOMAIN Powers]
    /\ recent = <<>>
    /\ served = <<"other", 0, 0, 0, TRUE>>

Judge(ok, entry) ==
    /\ served' = Append(entry, ok)
    /\ recent' = IF ok THEN recent ELSE Latest(<<entry>> \o recent)
    /\ UNCHANGED <<on, denied, revoked, powers>>

Call ==
    \E t \in Tids, r \in Rings, n \in Numbers :
        Judge(~on \/ ( /\ n \in RingMay[r] \cup Always
                       /\ t \notin revoked /\ n \notin denied[t]),
              <<"call", r, t, n>>)

Access ==
    \E t \in Tids, r \in Rings :
        \/ \E p \in {"io", "phys"} : Judge(p \in powers[r], <<p, r, t, 0>>)
        \/ \E p \in {"spawn", "irq"} : Judge(r = 0, <<p, r, t, 0>>)

Deny ==
    /\ \E t \in Tids, n \in Numbers :
           /\ served' = <<"deny", 0, t, n, TRUE>>
           /\ denied' = [denied EXCEPT ![t] =
                  IF Cardinality(@) < Room THEN @ \cup {n} ELSE @]
    /\ UNCHANGED <<on, revoked, powers, recent>>

Undeny ==
    /\ \E t \in Tids, n \in Numbers :
           /\ served' = <<"undeny", 0, t, n, TRUE>>
           /\ denied' = [denied EXCEPT ![t] = @ \ {n}]
    /\ UNCHANGED <<on, revoked, powers, recent>>

Empower ==
    /\ \E r \in Rings, p \in DOMAIN Powers :
           \/ /\ served' = <<"give", r, 0, Powers[p], TRUE>>
              /\ powers' = [powers EXCEPT ![r] = @ \cup {p}]
           \/ /\ served' = <<"take", r, 0, Powers[p], TRUE>>
              /\ powers' = [powers EXCEPT ![r] = @ \ {p}]
    /\ UNCHANGED <<on, denied, revoked, recent>>

\* A thread is revoked or restored; starting afresh clears its denials.
Restore ==
    /\ \E t \in Tids :
           \/ denied' = [denied EXCEPT ![t] = AllDenied] /\ revoked' = revoked \cup {t}
           \/ UNCHANGED denied /\ revoked' \in {revoked \cup {t}, revoked \ {t}}
           \/ denied' = [denied EXCEPT ![t] = {}] /\ revoked' = revoked \ {t}
    /\ served' = <<"other", 0, 0, 0, TRUE>>
    /\ UNCHANGED <<on, powers, recent>>

\* The log is emptied, by the start of the gate too.
Empty ==
    /\ recent' = <<>>
    /\ \/ UNCHANGED <<on, denied, revoked>>
       \/ on' = TRUE /\ denied' = [t \in Tids |-> {}] /\ revoked' = {}
    /\ served' = <<"other", 0, 0, 0, TRUE>>
    /\ UNCHANGED powers

Next == Call \/ Access \/ Deny \/ Undeny \/ Empower \/ Restore \/ Empty

Spec == Init /\ [][Next]_monitorVars
====
