---- MODULE MCBlockCache ----
(***************************************************************************)
(* Three lines over four sectors: one of them cannot always be read, one   *)
(* cannot always be written.                                               *)
(***************************************************************************)
EXTENDS BlockCache

CONSTANTS head, tail, x

MCParts == {head, tail}
MCValues == {x}
MCWrites == {<<0, head, x>>}
====
