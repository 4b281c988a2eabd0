------------------------------ MODULE MCCpuBus ------------------------------
(***************************************************************************)
(* Instances of CpuBus for TLC.                                            *)
(***************************************************************************)
EXTENDS CpuBus

W0 == [k \in 0 .. 3 |-> 0]
W1 == [k \in 0 .. 3 |-> 1]

Read(a, size)  == [type |-> "BUS_READ", addr |-> a, size |-> size, wdata |-> W0]
Write(a, size) == [type |-> "BUS_WRITE", addr |-> a, size |-> size, wdata |-> W1]

Inst(kind, len, accesses, flush, target, entry) ==
  [kind |-> kind, len |-> len, accesses |-> accesses, flush |-> flush,
   target |-> target, entry |-> entry]

Handler == <<Write(0, "SZ_HALF"), Write(3, "SZ_BYTE"), Read(4, "SZ_HALF")>>

\* One instruction of every shape the main FSM tells apart, the jumps to even
\* and odd addresses, over memory that differs along the way.
MCInstructions ==
  {Inst("other", 1, << >>, "none", 0, << >>),
   Inst("other", 3, <<Read(2, "SZ_WORD"), Write(4, "SZ_BYTE")>>, "none", 0, << >>),
   Inst("other", 1, << >>, "ST_EXECUTE", 5, << >>),
   Inst("other", 2, <<Read(2, "SZ_HALF")>>, "ST_EXECUTE2", 2, << >>),
   Inst("other", 2, <<Write(0, "SZ_HALF")>>, "ST_WRITEBACK", 1, << >>),
   Inst("JSR", 2, <<Read(4, "SZ_HALF"), Write(0, "SZ_BYTE")>>, "ST_WRITEBACK", 3, << >>),
   Inst("PREPARE", 2, <<Write(0, "SZ_HALF")>>, "none", 0, << >>),
   Inst("PUSHM", 2, <<Write(0, "SZ_HALF"), Write(3, "SZ_BYTE")>>, "none", 0, << >>),
   Inst("POPM", 2, <<Read(0, "SZ_HALF"), Read(4, "SZ_HALF")>>, "none", 0, << >>),
   Inst("STRING", 2, << >>, "ST_WRITEBACK", 4, << >>),
   Inst("other", 1, << >>, "none", 0, Handler),
   Inst("HALT", 1, << >>, "none", 0, Handler)}

MCResetRead == Read(2, "SZ_WORD")

MCAddrOf(w) == (2 * w[0] + w[1]) % ADDR_SPACE

\* Locations that differ where the instructions jump to and run from. The only
\* one a store changes is location 4, under the instructions.
MCInitMem == {[a \in Addr |-> IF a \in {0, 1, 3} THEN 1 ELSE 0]}

\* The longest instruction the decoder accepts: two operands of nine bytes
\* each after two bytes of opcode and format (v60_decode.sv:1243).
LongInstructions == {Inst("other", 20, << >>, "none", 0, << >>)}
=============================================================================
