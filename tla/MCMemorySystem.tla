--------------------------- MODULE MCMemorySystem ---------------------------
EXTENDS MemorySystem

CONSTANT MasterAddr   \* addresses the core uses

MCByte == 0 .. 2

\* One address beyond the bus: the upper address bits are dropped.
MCMasterAddr == 0 .. ADDR_SPACE

\* Every byte of the image differs from its neighbours and from what is
\* written below.
MCInitMem == {[b \in 0 .. ADDR_SPACE - 1 |-> 1 + (b % 2)]}

MCWords == {<<0, 0, 0, 0>>, <<2, 1, 0, 2>>}
AsWord(s) == [k \in 0 .. 3 |-> s[k + 1]]

AllRequests ==
  [type : {"BUS_READ"}, addr : MasterAddr, size : DataSize,
   wdata : {[k \in 0 .. 3 |-> 0]}]
  \cup [type : {"BUS_WRITE"}, addr : MasterAddr, size : DataSize,
        wdata : {AsWord(s) : s \in MCWords}]

\* On the 16-bit bus a word or a written half word lies on an even address; a
\* half word may be read from any address.
V60Requests ==
  {r \in AllRequests : r.addr % 2 = 1 =>
     r.size = "SZ_BYTE" \/ (r.size = "SZ_HALF" /\ r.type = "BUS_READ")}
=============================================================================
