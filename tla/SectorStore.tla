---- MODULE SectorStore ----
(***************************************************************************)
(* What the file system server expects of its block cache: an array of     *)
(* sectors.  A read returns what was last written, a write changes one     *)
(* part of one sector, a call that fails changes nothing, and the disk may *)
(* catch up with any sectors at any time.  What did not reach the disk is  *)
(* lost when the server starts again.                                      *)
(***************************************************************************)
CONSTANTS
    Lbas,   \* the sectors
    Parts,  \* the parts of a sector that are written together
    Values, \* what is written
    Zero    \* the content of a zeroed part

VARIABLES
    disk,     \* the content of the sectors on disk
    content,  \* the content of the sectors
    answer    \* what the last call read: {}, or one pair <<sector, data>>

storeVars == <<disk, content, answer>>

Init ==
    /\ disk \in [Lbas -> [Parts -> Values \cup {Zero} \cup (Lbas \X Parts)]]
    /\ content = disk
    /\ answer = {}

\* Some sectors are written to the disk.
Settle ==
    \E S \in SUBSET Lbas :
        disk' = [l \in Lbas |-> IF l \in S THEN content[l] ELSE disk[l]]

Read ==
    /\ Settle
    /\ \E l \in Lbas : answer' = {<<l, content[l]>>}
    /\ UNCHANGED content

Write ==
    /\ Settle
    /\ \E l \in Lbas, part \in Parts, v \in Values :
           content' = [content EXCEPT ![l][part] = v]
    /\ answer' = {}

ZeroFill ==
    /\ Settle
    /\ \E l \in Lbas : content' = [content EXCEPT ![l] = [part \in Parts |-> Zero]]
    /\ answer' = {}

\* A flush, a call that fails, a call for something else.
Other ==
    /\ Settle
    /\ answer' = {}
    /\ UNCHANGED content

Forget ==
    /\ content' = disk
    /\ answer' = {}
    /\ UNCHANGED disk

Next == Read \/ Write \/ ZeroFill \/ Other \/ Forget

Spec == Init /\ [][Next]_storeVars
====
