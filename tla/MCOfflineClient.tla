-------------------------- MODULE MCOfflineClient ---------------------------
(***************************************************************************)
(* Small instances of OfflineClient: an order, two payments, a background  *)
(* flush; a server that may refuse the order, or the payments.             *)
(***************************************************************************)
EXTENDS OfflineClient

CONSTANTS o1, o2, p1, p2, till, s1

MCWorlds == [exclusive : BOOLEAN, validates : BOOLEAN, refuses : {{}, {o1}}]
MCStrict == {[exclusive |-> TRUE, validates |-> TRUE, refuses |-> {}]}
MCOverlap == {[exclusive |-> FALSE, validates |-> FALSE, refuses |-> {}]}
=============================================================================
