---- MODULE MCThreads ----
EXTENDS Threads

AllBoots == [usb : BOOLEAN, loaded : BOOLEAN]

LoadedBoots == [usb : BOOLEAN, loaded : {TRUE}]

KernelBoots == [usb : BOOLEAN, loaded : {FALSE}]
====
