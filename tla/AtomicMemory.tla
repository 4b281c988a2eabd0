---------------------------- MODULE AtomicMemory ----------------------------
(***************************************************************************)
(* What the bus interface and the memory behind it promise the core: one   *)
(* request at a time is taken, performed as a whole at one instant, and    *)
(* answered once.  Memory is bytes, little-endian, and a request touches   *)
(* exactly the ReqBytes bytes from its address up, whatever the width of   *)
(* the bus and the alignment of the address.                               *)
(***************************************************************************)
EXTENDS Naturals

CONSTANTS
  ADDR_SPACE, Byte, ZeroByte, InitMem,
  Request      \* requests the core makes

VARIABLES
  mem,         \* the memory
  phase,       \* "idle", "pending" or "performed"
  req,         \* the request, while there is one
  answer       \* the word a performed read returns

vars == <<mem, phase, req, answer>>

NoReq    == [type |-> "BUS_IDLE"]
NoAnswer == "none"

ReqBytes(size) == CASE size = "SZ_BYTE" -> 1
                    [] size = "SZ_HALF" -> 2
                    [] size = "SZ_WORD" -> 4

\* The value of a read, and the memory after a write.
ReadValue(r) ==
  [k \in 0 .. 3 |-> IF k < ReqBytes(r.size) THEN mem[(r.addr + k) % ADDR_SPACE]
                                            ELSE ZeroByte]
Written(r) ==
  [b \in 0 .. ADDR_SPACE - 1 |->
     LET k == (b + ADDR_SPACE - (r.addr % ADDR_SPACE)) % ADDR_SPACE
     IN  IF k < ReqBytes(r.size) THEN r.wdata[k] ELSE mem[b]]

Init ==
  /\ mem \in InitMem
  /\ phase = "idle" /\ req = NoReq /\ answer = NoAnswer

Submit ==
  /\ phase = "idle"
  /\ \E r \in Request : req' = r
  /\ phase' = "pending"
  /\ UNCHANGED <<mem, answer>>

Perform ==
  /\ phase = "pending"
  /\ phase' = "performed"
  /\ mem' = IF req.type = "BUS_WRITE" THEN Written(req) ELSE mem
  /\ answer' = IF req.type = "BUS_READ" THEN ReadValue(req) ELSE NoAnswer
  /\ UNCHANGED req

Respond ==
  /\ phase = "performed"
  /\ phase' = "idle" /\ req' = NoReq /\ answer' = NoAnswer
  /\ UNCHANGED mem

Next == Submit \/ Perform \/ Respond

\* A request that was taken is performed and answered.
Fairness == WF_vars(Perform) /\ WF_vars(Respond)

Spec == Init /\ [][Next]_vars /\ Fairness
=============================================================================
