-------------------------- MODULE InstructionStream -------------------------
(***************************************************************************)
(* What the prefetch unit promises the decoder: a window on the bytes of   *)
(* memory from the program counter on.  The window never skips, repeats or *)
(* reorders a byte, and a byte in it is the one memory holds, unless that  *)
(* location was stored to since the last jump (the unit does not snoop).   *)
(***************************************************************************)
EXTENDS Integers, Sequences

CONSTANTS
  ADDR_SPACE,
  Limit        \* longest window the decoder uses

VARIABLES
  pc,          \* address of the next instruction
  window,      \* the bytes the decoder sees, from pc on
  mem,         \* memory
  dirty        \* locations stored to since the last jump

vars == <<pc, window, mem, dirty>>

Init == pc = 0 /\ window = << >> /\ dirty = {}

\* Byte b stands in the window for location a of memory.
Current(b, a) == b = mem[a % ADDR_SPACE] \/ a % ADDR_SPACE \in dirty

\* A jump empties the window.
Jump ==
  /\ pc' \in 0 .. ADDR_SPACE - 1
  /\ window' = << >>
  /\ dirty' = {}
  /\ UNCHANGED mem

\* n bytes are consumed, and current bytes of memory follow those left.
Advance(n) ==
  /\ pc' = (pc + n) % ADDR_SPACE
  /\ Len(window') \in Len(window) - n .. Limit
  /\ \A i \in 1 .. Len(window) - n : window'[i] = window[i + n]
  /\ \A i \in Len(window) - n + 1 .. Len(window') : Current(window'[i], pc + n + i - 1)
  /\ UNCHANGED <<mem, dirty>>

\* A store changes memory and nothing in the window.
Store ==
  /\ dirty' = dirty \cup {a \in 0 .. ADDR_SPACE - 1 : mem'[a] # mem[a]}
  /\ UNCHANGED <<pc, window>>

Next == Jump \/ (\E n \in 0 .. Len(window) : Advance(n)) \/ Store

Spec == Init /\ [][Next]_vars
=============================================================================
