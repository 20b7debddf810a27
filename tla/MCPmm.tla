---- MODULE MCPmm ----
EXTENDS Pmm
====
