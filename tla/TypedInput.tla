---- MODULE TypedInput ----
(***************************************************************************)
(* What typing at the machine promises: characters wait in a buffer of     *)
(* bounded size, in the order of the keys; one is lost only when it is     *)
(* full; each goes to one reader, once.  The kernel terminal edits its     *)
(* line with those it takes, and runs the line at its end; a process reads *)
(* up to the end of a line.  Console implements it.                        *)
(***************************************************************************)
EXTENDS Naturals, Sequences

CONSTANTS
    Keystrokes,  \* what can be typed: records with a number n and a character c
    Printable,   \* the characters that go into a line
    Ends,        \* those that end one
    Erase,       \* the one that takes the last one back
    Capacity,    \* how many characters can wait
    LineMax      \* the longest line

VARIABLES
    waiting,  \* the keystrokes that wait, oldest first
    fate,     \* the last keystroke, and whether it was kept
    line,     \* the line of the terminal
    command,  \* the last line it ran
    taken     \* the last reader and what it took

vars == <<waiting, fate, line, command, taken>>

Init ==
    /\ waiting = <<>> /\ fate = <<>>
    /\ line = <<>> /\ command = <<>> /\ taken = <<>>

Typed(k) ==
    /\ IF Len(waiting) < Capacity
       THEN waiting' = Append(waiting, k) /\ fate' = <<k, "kept">>
       ELSE UNCHANGED waiting /\ fate' = <<k, "lost">>
    /\ UNCHANGED <<line, command, taken>>

Edited(c) ==
    IF c \in Printable THEN IF Len(line) < LineMax THEN Append(line, c) ELSE line
    ELSE IF c \in Ends THEN <<>>
    ELSE IF c = Erase /\ line # <<>> THEN SubSeq(line, 1, Len(line) - 1)
    ELSE line

\* The terminal gets the character c.
Edit(c) ==
    /\ line' = Edited(c)
    /\ command' = IF c \in Ends THEN line ELSE command

TerminalTakes ==
    /\ waiting # <<>>
    /\ waiting' = Tail(waiting)
    /\ Edit(Head(waiting).c)
    /\ taken' = <<"terminal", Head(waiting)>>
    /\ UNCHANGED fate

Serial(k) == Edit(k.c) /\ taken' = <<"serial", k>> /\ UNCHANGED <<waiting, fate>>

\* A read of at most len characters.
ProcessTakes(len) ==
    \E n \in 1 .. len :
        /\ n <= Len(waiting)
        /\ \A i \in 1 .. n - 1 : waiting[i].c # "nl"
        /\ n < len /\ n < Len(waiting) => waiting[n].c = "nl"
        /\ waiting' = SubSeq(waiting, n + 1, Len(waiting))
        /\ taken' = <<"process", SubSeq(waiting, 1, n)>>
        /\ UNCHANGED <<fate, line, command>>

Next ==
    \/ \E k \in Keystrokes : Typed(k) \/ Serial(k)
    \/ TerminalTakes
    \/ \E len \in 1 .. Capacity : ProcessTakes(len)

Spec == Init /\ [][Next]_vars
====
