---- MODULE Console ----
(***************************************************************************)
(* The way of a key into the system: the ring of typed characters and the  *)
(* PS/2 interrupt (input.rs), reports of USB keyboards (hid_kb of          *)
(* usb/hid.rs), the kernel terminal that edits a line (kterminal.rs), and  *)
(* sys_read of a process (syscall_api.rs).                                 *)
(*                                                                         *)
(* Nothing locks the ring.  A machine that boots without a process runs    *)
(* its kernel threads with interrupts on: the timer switches between the   *)
(* usb thread and the terminal, and the keyboard interrupts them, between  *)
(* any two accesses of the ring.  With a process they run with interrupts  *)
(* off from their dispatch to their yield, and interrupts come in ring 3:  *)
(* there every operation is one step (Threads).                            *)
(*                                                                         *)
(* A character carries the number of its keystroke, so that one handed out *)
(* twice shows.  Shift, which picks another printable character, and the   *)
(* screen are left out; so are keys held over the limit of six.            *)
(***************************************************************************)
EXTENDS Integers, Sequences, FiniteSets, SequencesExt

CONSTANTS
    Machines,   \* the machines considered: how they boot, and their keyboards
    Keys,       \* the keys considered
    KB_BUF,     \* entries of the ring; 64 in the code
    LineMax,    \* the longest line; 255 in the code
    MaxRead,    \* bound: bytes a process asks for
    MaxTyped    \* bound: characters typed, on the keyboards and the serial line

ASSUME ConsoleAssumption ==
    /\ Machines \subseteq [boot : {"kernel", "process"}, keyboards : SUBSET {"ps2", "usb"}]
    /\ Keys \subseteq {"a", "e", "h", "j", "enter", "back"}
    /\ {KB_BUF, LineMax, MaxRead, MaxTyped} \subseteq Nat \ {0}

VARIABLES
    machine,      \* the machine
    KB_BUF_DATA, KB_HEAD, KB_TAIL,
    KBD_CTRL,     \* a Ctrl key of the PS/2 keyboard is down
    PREV_KB,      \* the keys of the last USB report
    usb,          \* the usb thread: [at, todo, head], see below
    terminal,     \* the terminal: [at, got]
    LINE, LEN,    \* its line
    typed,        \* how many characters were typed
    fate, command, taken   \* what can be seen from outside, see TypedInput

ring == <<KB_BUF_DATA, KB_HEAD, KB_TAIL>>
seen == <<fate, command, taken>>
consoleVars == <<machine, ring, KBD_CTRL, PREV_KB, usb, terminal, LINE, LEN, typed, seen>>

Printable == {"a", "e", "h", "j"}
Ends == {"nl", "cr"}

\* The character of a key alone.
Plain(k) == IF k = "enter" THEN "nl" ELSE IF k = "back" THEN "bs" ELSE k

\* kbd_irq: with Ctrl, a letter gives its number in the alphabet.
Ps2Char(k, ctrl) ==
    IF ctrl /\ k = "h" THEN "bs"
    ELSE IF ctrl /\ k = "j" THEN "nl"
    ELSE IF ctrl /\ k \in Printable THEN "control"
    ELSE Plain(k)

\* hid_kb: with Ctrl, only the usages 6 to 8 differ: c, d, and e, which the code
\* takes for h.
HidChar(k, ctrl) == IF ctrl /\ k = "e" THEN "bs" ELSE Plain(k)

Stroke(n, c) == [n |-> n, c |-> c]
Nothing == Stroke(0, "nul")

ConsoleInit ==
    /\ machine \in Machines
    /\ KB_BUF_DATA = [i \in 0 .. KB_BUF - 1 |-> Nothing]
    /\ KB_HEAD = 0 /\ KB_TAIL = 0
    /\ KBD_CTRL = FALSE /\ PREV_KB = {}
    /\ usb = [at |-> "idle", todo |-> <<>>, head |-> 0]
    /\ terminal = [at |-> "poll", got |-> Nothing]
    /\ LINE = [i \in 0 .. LineMax - 1 |-> "nul"] /\ LEN = 0
    /\ typed = 0
    /\ fate = <<>> /\ command = <<>> /\ taken = <<>>

-----------------------------------------------------------------------------
\* The ring

Next_(i) == (i + 1) % KB_BUF

NoRoom == Next_(KB_HEAD) = KB_TAIL

\* Seeded fault: a head that has wrapped around looks like no character.
NoneWaits_Wrapped == KB_HEAD <= KB_TAIL

NoneWaits == KB_HEAD = KB_TAIL

\* No thread is between two accesses of the ring.
Quiet == usb.at = "idle" /\ terminal.at \in {"poll", "serial"}

\* Other code may run now: interrupts are on, or no thread is in the kernel.
Interruptible == machine.boot = "kernel" \/ Quiet

\* kb_push as the interrupt runs it, and kbd_irq around it.
kbd_irq ==
    /\ "ps2" \in machine.keyboards /\ Interruptible
    /\ \/ /\ KBD_CTRL' = ~KBD_CTRL
          /\ UNCHANGED <<ring, typed, fate>>
       \/ \E k \in Keys :
            LET s == Stroke(typed + 1, Ps2Char(k, KBD_CTRL)) IN
            /\ typed < MaxTyped /\ typed' = typed + 1
            /\ IF NoRoom
               THEN fate' = <<s, "lost">> /\ UNCHANGED ring
               ELSE /\ fate' = <<s, "kept">>
                    /\ KB_BUF_DATA' = [KB_BUF_DATA EXCEPT ![KB_HEAD] = s]
                    /\ KB_HEAD' = Next_(KB_HEAD)
                    /\ UNCHANGED KB_TAIL
            /\ UNCHANGED KBD_CTRL
    /\ UNCHANGED <<machine, PREV_KB, usb, terminal, LINE, LEN, command, taken>>

-----------------------------------------------------------------------------
\* The usb thread

\* hid_kb, called with a report: some keys are still held, and those that are
\* new are taken in their order.
hid_kb ==
    /\ "usb" \in machine.keyboards /\ usb.at = "idle"
    /\ terminal.at \in {"poll", "serial"} \/ machine.boot = "kernel"
    /\ \E held \in SUBSET PREV_KB, new \in SetToAllKPermutations(Keys \ PREV_KB),
          ctrl \in BOOLEAN :
         /\ typed + Len(new) <= MaxTyped
         /\ usb' = [usb EXCEPT !.todo = [i \in DOMAIN new |->
                                   Stroke(typed + i, HidChar(new[i], ctrl))],
                               !.at = IF new = <<>> THEN "idle" ELSE "check"]
         /\ typed' = typed + Len(new)
         /\ PREV_KB' = held \cup ToSet(new)
    /\ UNCHANGED <<machine, ring, KBD_CTRL, terminal, LINE, LEN, seen>>

\* The next character of the report.
NextOf(u) == [u EXCEPT !.todo = Tail(@), !.at = IF Len(u.todo) = 1 THEN "idle" ELSE "check"]

\* Seeded fault: the head moves before the character is there.
UsbCheck_Moves ==
    /\ usb.at = "check"
    /\ IF NoRoom
       THEN /\ usb' = NextOf(usb)
            /\ fate' = <<Head(usb.todo), "lost">>
            /\ UNCHANGED KB_HEAD
       ELSE /\ usb' = [usb EXCEPT !.at = "write", !.head = KB_HEAD]
            /\ KB_HEAD' = Next_(KB_HEAD)
            /\ UNCHANGED fate
    /\ UNCHANGED <<machine, KB_BUF_DATA, KB_TAIL, KBD_CTRL, PREV_KB, terminal, LINE, LEN,
                   typed, command, taken>>

\* kb_push: head and tail are read, ...
UsbCheck ==
    /\ usb.at = "check"
    /\ IF NoRoom
       THEN usb' = NextOf(usb) /\ fate' = <<Head(usb.todo), "lost">>
       ELSE usb' = [usb EXCEPT !.at = "write", !.head = KB_HEAD] /\ UNCHANGED fate
    /\ UNCHANGED <<machine, ring, KBD_CTRL, PREV_KB, terminal, LINE, LEN, typed, command, taken>>

\* ... the character is written ...
UsbWrite ==
    /\ usb.at = "write"
    /\ KB_BUF_DATA' = [KB_BUF_DATA EXCEPT ![usb.head] = Head(usb.todo)]
    /\ usb' = [usb EXCEPT !.at = "head"]
    /\ UNCHANGED <<machine, KB_HEAD, KB_TAIL, KBD_CTRL, PREV_KB, terminal, LINE, LEN, typed, seen>>

\* ... and the head moves on from where it was read.
UsbHead ==
    /\ usb.at = "head"
    /\ KB_HEAD' = Next_(usb.head)
    /\ usb' = NextOf(usb)
    /\ fate' = <<Head(usb.todo), "kept">>
    /\ UNCHANGED <<machine, KB_BUF_DATA, KB_TAIL, KBD_CTRL, PREV_KB, terminal, LINE, LEN,
                   typed, command, taken>>

UsbPush == UsbCheck \/ UsbWrite \/ UsbHead

-----------------------------------------------------------------------------
\* The terminal

\* process_cmd: the line is run, and forgotten.
process_cmd == command' = [i \in 1 .. LEN |-> LINE[i - 1]] /\ LEN' = 0 /\ UNCHANGED LINE

handle_char(c) ==
    IF c \in Ends THEN process_cmd
    ELSE /\ IF c = "bs" THEN LEN' = (IF LEN > 0 THEN LEN - 1 ELSE 0) /\ UNCHANGED LINE
            ELSE IF c \in Printable /\ LEN < LineMax
            THEN LINE' = [LINE EXCEPT ![LEN] = c] /\ LEN' = LEN + 1
            ELSE UNCHANGED <<LINE, LEN>>
         /\ UNCHANGED command

\* run: input_poll reads head, tail and the character, ...
TerminalPoll ==
    /\ terminal.at = "poll"
    /\ machine.boot = "process" => usb.at = "idle"
    /\ terminal' = IF NoneWaits THEN [terminal EXCEPT !.at = "serial"]
                   ELSE [at |-> "tail", got |-> KB_BUF_DATA[KB_TAIL]]
    /\ UNCHANGED <<machine, ring, KBD_CTRL, PREV_KB, usb, LINE, LEN, typed, seen>>

\* ... moves the tail, and the character is handled.
TerminalTakes ==
    /\ terminal.at = "tail"
    /\ KB_TAIL' = Next_(KB_TAIL)
    /\ handle_char(terminal.got.c)
    /\ taken' = <<"terminal", terminal.got>>
    /\ terminal' = [at |-> "poll", got |-> Nothing]
    /\ UNCHANGED <<machine, KB_BUF_DATA, KB_HEAD, KBD_CTRL, PREV_KB, usb, typed, fate>>

\* When no key is left, what the serial line brings, and then a yield.
TerminalSerial ==
    /\ terminal.at = "serial"
    /\ \/ /\ terminal' = [terminal EXCEPT !.at = "poll"]
          /\ UNCHANGED <<LINE, LEN, typed, command, taken>>
       \/ \E c \in {Plain(k) : k \in Keys} \cup {"cr"} :
            /\ typed < MaxTyped /\ typed' = typed + 1
            /\ handle_char(c)
            /\ taken' = <<"serial", Stroke(typed + 1, c)>>
            /\ UNCHANGED terminal
    /\ UNCHANGED <<machine, ring, KBD_CTRL, PREV_KB, usb, fate>>

run == TerminalPoll \/ TerminalTakes \/ TerminalSerial

-----------------------------------------------------------------------------
\* A process

Waiting == [i \in 1 .. (KB_HEAD + KB_BUF - KB_TAIL) % KB_BUF |->
               KB_BUF_DATA[(KB_TAIL + i - 1) % KB_BUF]]

\* sys_read of at most len bytes: up to the end of a line, or what is there.
sys_read(len) ==
    LET ends == {i \in DOMAIN Waiting : Waiting[i].c = "nl"}
        n == Min({len, Len(Waiting)} \cup ends)
    IN /\ machine.boot = "process" /\ Quiet
       /\ n > 0
       /\ KB_TAIL' = (KB_TAIL + n) % KB_BUF
       /\ taken' = <<"process", SubSeq(Waiting, 1, n)>>
       /\ UNCHANGED <<machine, KB_BUF_DATA, KB_HEAD, KBD_CTRL, PREV_KB, usb, terminal, LINE, LEN,
                      typed, fate, command>>

ConsoleNext ==
    \/ kbd_irq \/ hid_kb \/ UsbPush \/ run
    \/ \E len \in 1 .. MaxRead : sys_read(len)

\* The scheduler runs both kernel threads again and again: ReadyRuns of
\* Threads, hence only as long as the machine is not lost in the gap of
\* schedule().  With a process it may not come back to them.
Fairness ==
    /\ WF_consoleVars(machine.boot = "kernel" /\ run)
    /\ WF_consoleVars(machine.boot = "kernel" /\ UsbPush)

ConsoleSpec == ConsoleInit /\ [][ConsoleNext]_consoleVars /\ Fairness

-----------------------------------------------------------------------------
\* Properties

Input == INSTANCE TypedInput WITH
    Keystrokes <- [n : 1 .. MaxTyped, c : Printable \cup Ends \cup {"bs", "control"}],
    Erase <- "bs",
    Capacity <- KB_BUF - 1,
    waiting <- Waiting,
    line <- [i \in 1 .. LEN |-> LINE[i - 1]]

\* Every character typed is lost at a full buffer or reaches one reader, once
\* and in order, and the terminal's line is what was typed and not taken back:
\* with one keyboard however the threads and the interrupt interleave, and with
\* two keyboards and two readers where interrupts are off.
ImplementsTypedInput == Input!Spec

\* Once the typing stops, the terminal of a machine without a process has read
\* every character that was kept, if the machine is not lost in the gap of
\* schedule() before.
EverythingIsRead ==
    machine.boot = "kernel" => <>[](KB_HEAD = KB_TAIL /\ usb.at = "idle")
====
