------------------------ MODULE MCPermissionLifetime ------------------------
(* Two sites, one of which shares no storage domain: a local file has none. *)
EXTENDS PermissionLifetime

CONSTANTS o1, o2, d1

MCDomainOf == [o \in Origins |-> IF o = o1 THEN d1 ELSE NoDomain]
=============================================================================
