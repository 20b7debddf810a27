---- MODULE MCKernelHeap ----
(***************************************************************************)
(* Pages of two slots.  Requests: a slot, a page, a block of three pages   *)
(* that gets four, a slot that is aligned like two pages.                  *)
(***************************************************************************)
EXTENDS KernelHeap

MCRequests == {[size |-> 1, align |-> 1], [size |-> 2, align |-> 1],
               [size |-> 5, align |-> 1], [size |-> 1, align |-> 4]}
====
