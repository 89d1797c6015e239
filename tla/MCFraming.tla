----------------------------- MODULE MCFraming ------------------------------
(* Instances of Framing for TLC. *)
EXTENDS Framing

(* An acknowledgement, and a frame with reserved bytes in its payload and  *)
(* for a checksum, which is another valid frame with its first or its last *)
(* byte of payload misread as an escape.                                   *)
TwoFrames == {Frame(1, 1, <<>>), Frame(12, 0, <<45, Start, 116, 77>>)}

(* The frame of tests/protocol.rs:38-41. *)
ReservedChecksum == {Frame(12, 0, <<47>>)}
=============================================================================
