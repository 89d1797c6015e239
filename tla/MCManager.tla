----------------------------- MODULE MCManager ------------------------------
(* Instances of Manager for TLC. *)
EXTENDS Manager

CONSTANTS c1, c2, d1, d2

Plain(by, kinds) == [by : {by}, kind : kinds, address : {{}}]
ConnectTo(devices) == [by : {"http"}, kind : {"connect"}, address : {{d} : d \in devices}]

(* Every handler, with and without an address. *)
EveryRequest ==
    Plain("http", Kinds) \cup Plain("cli", Direct \cup Connected) \cup ConnectTo({d1, d2})
=============================================================================
