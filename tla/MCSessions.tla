------------------------------ MODULE MCSessions ------------------------------
(* Instances of Sessions for TLC.                                          *)
EXTENDS Sessions, TLC

CONSTANTS a, b, stranger

MCClients == {a, b, stranger}
MCTrusted == {a, b}
=============================================================================
