------------------------------ MODULE NorStore ------------------------------
(***************************************************************************)
(* What the callers of src/SDK1O/proj/drivers/flash.c rely on: a memory of *)
(* bytes that two contexts, the main loop and the interrupt, change by     *)
(* calls.  A write clears bits of the bytes it names and of no others, an  *)
(* erase spoils its sector until it is done, and a call that returns has   *)
(* done all of it.  A power loss ends the calls wherever they are.         *)
(***************************************************************************)
EXTENDS Integers, Sequences

CONSTANTS Contexts,   \* who calls
          Sector,     \* bytes of a sector
          Size,       \* bytes of the memory
          Bits        \* the bits of a byte; a byte is the set of its 1 bits

VARIABLES cells,      \* the memory
          call        \* call[c]: what context c is executing

norVars == <<cells, call>>

NoCall == [kind |-> "none", adr |-> 0, buf |-> <<>>]
InSector(adr) == {a \in 0 .. Size - 1 : a \div Sector = adr \div Sector}
Range(op) == op.adr .. op.adr + Len(op.buf) - 1
Byte(op, a) == op.buf[a - op.adr + 1]

NorInit ==
  /\ cells \in [0 .. Size - 1 -> SUBSET Bits]
  /\ call = [c \in Contexts |-> NoCall]

\* A context calls flash_write_page, flash_erase_sector or flash_read_page.
Begin(c) ==
  /\ call[c] = NoCall
  /\ call'[c].kind \in {"write", "erase", "read"}
  /\ call' = [call EXCEPT ![c] = call'[c]]
  /\ UNCHANGED cells

\* A write in progress clears bits that its data do not have.
Write(c) ==
  /\ call[c].kind = "write"
  /\ \E a \in Range(call[c]) :
       \E kept \in SUBSET cells[a] :
         /\ cells[a] \cap Byte(call[c], a) \subseteq kept
         /\ cells' = [cells EXCEPT ![a] = kept]
  /\ UNCHANGED call

\* An erase in progress leaves anything in its sector.
Erase(c) ==
  /\ call[c].kind = "erase"
  /\ cells' \in [0 .. Size - 1 -> SUBSET Bits]
  /\ \A a \in 0 .. Size - 1 \ InSector(call[c].adr) : cells'[a] = cells[a]
  /\ UNCHANGED call

\* A call returns when all of it is done.
Return(c) ==
  /\ call[c] # NoCall
  /\ call[c].kind = "write" =>
       \A a \in Range(call[c]) : cells[a] \subseteq Byte(call[c], a)
  /\ call[c].kind = "erase" =>
       \A a \in InSector(call[c].adr) : cells[a] = Bits
  /\ call' = [call EXCEPT ![c] = NoCall]
  /\ UNCHANGED cells

\* A power loss.
Crash ==
  /\ call' = [c \in Contexts |-> NoCall]
  /\ UNCHANGED cells

NorNext ==
  \/ \E c \in Contexts : Begin(c) \/ Write(c) \/ Erase(c) \/ Return(c)
  \/ Crash

NorSpec == NorInit /\ [][NorNext]_norVars
=============================================================================
