------------------------------ MODULE BusTypes ------------------------------
(***************************************************************************)
(* What every part of the processor shares: the widths of the buses, bytes *)
(* and words, and requests for memory (rtl/v60_pkg.sv).                    *)
(*                                                                         *)
(* A word of the core is a function from 0..3 to bytes, lowest byte first. *)
(***************************************************************************)
EXTENDS Integers

CONSTANTS
  BUS_BYTES,   \* lanes of the external data bus: 2 on the V60, 4 on the V70
  ADDR_SPACE,  \* number of byte addresses (bounded for TLC)
  Byte,        \* values of a byte
  ZeroByte     \* the byte 8'h00

ASSUME BusAssumption ==
  /\ BUS_BYTES \in {2, 4}
  /\ ADDR_SPACE \in Nat /\ ADDR_SPACE > BUS_BYTES /\ ADDR_SPACE % BUS_BYTES = 0
  /\ ZeroByte \in Byte

Addr     == 0 .. ADDR_SPACE - 1
Lane     == 0 .. BUS_BYTES - 1
Word     == [0 .. 3 -> Byte]
ZeroWord == [k \in 0 .. 3 |-> ZeroByte]
DataSize == {"SZ_BYTE", "SZ_HALF", "SZ_WORD"}

\* Bytes a request of this size moves.
ReqBytes(size) == CASE size = "SZ_BYTE" -> 1
                    [] size = "SZ_HALF" -> 2
                    [] size = "SZ_WORD" -> 4

\* A requester drives one of these, or NoReq while its request is BUS_IDLE.
\* A core address may lie beyond the external bus, which drops its top bits.
Request == [type : {"BUS_READ", "BUS_WRITE"}, addr : Nat, size : DataSize,
            wdata : Word]
NoReq   == [type |-> "BUS_IDLE"]
=============================================================================
