---- MODULE MCRootPolicy ----
EXTENDS RootPolicy
====
