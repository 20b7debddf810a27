---- MODULE MCConsole ----
EXTENDS Console

\* A kernel-only machine with one keyboard of either kind, and one with a
\* process and both.
OneWriter ==
    {[boot |-> "kernel", keyboards |-> {"ps2"}],
     [boot |-> "kernel", keyboards |-> {"usb"}],
     [boot |-> "process", keyboards |-> {"ps2", "usb"}]}

\* A kernel-only machine with both: two writers of the ring.
TwoWriters == {[boot |-> "kernel", keyboards |-> {"ps2", "usb"}]}
====
