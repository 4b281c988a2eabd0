---------------------------- MODULE MCFetchSystem ---------------------------
EXTENDS FetchSystem

\* Location a holds the byte a; a store puts NewByte there.
NewByte == ADDR_SPACE
MCByte  == 0 .. NewByte

CONSTANT StoreAddrs   \* locations the core stores to

MCImages ==
  {[a \in 0 .. ADDR_SPACE - 1 |-> IF a \in S THEN NewByte ELSE a] : S \in SUBSET StoreAddrs}
=============================================================================
