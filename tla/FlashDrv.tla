------------------------------ MODULE FlashDrv ------------------------------
(***************************************************************************)
(* The flash driver, src/SDK1O/proj/drivers/flash.c, with the interrupt    *)
(* and the serial NOR flash it drives.                                     *)
(*                                                                         *)
(* The chip cannot be read while a command is open, nor while it programs  *)
(* or erases, and most of the firmware, the interrupt's handlers and       *)
(* flash_write_page among it, is executed from it.  So the functions that  *)
(* talk to the chip are in RAM and keep interrupts off until the chip is   *)
(* idle again; flash_write_page calls them once per page, and interrupts   *)
(* may come, and use the flash themselves, between two pages.              *)
(*                                                                         *)
(* mspi_high raises chip select, which is when the chip executes a command *)
(* it has received; flash_send_cmd starts with it.  The addresses of a     *)
(* write wrap around at the end of a page, in the chip.                    *)
(***************************************************************************)
EXTENDS Integers, Sequences

CONSTANTS Page,        \* bytes of a page: 256
          Sector,      \* bytes of a sector: 4096
          Size,        \* bytes of the flash
          Bits,        \* the bits of a byte; a byte is the set of its 1 bits
          Bufs,        \* Bufs[c]: what context c writes, sequences of bytes
          Owns         \* Owns[c]: the sectors context c writes and erases

Contexts == {"main", "isr"}
Adr == 0 .. Size - 1
InSector(a) == {b \in Adr : b \div Sector = a \div Sector}

ASSUME FlashAssumption ==
  /\ Page \in Nat \ {0} /\ Sector \in Nat \ {0} /\ Size \in Nat
  /\ \A c \in Contexts : Bufs[c] \subseteq Seq(SUBSET Bits) \ {<<>>}
  /\ \A s \in Owns["main"] \cup Owns["isr"] : s \in Nat /\ s * Sector < Size
  /\ Owns["main"] \cap Owns["isr"] = {}

VARIABLES
  irq,     \* reg_irq_en
  masked,  \* the caller's own critical section: it has called irq_disable
  inIsr,   \* the processor is in irq_handler; interrupts do not nest
  frame,   \* frame[c]: where context c is in flash.c, and its locals
  call,    \* call[c]: the call context c has made, as its caller knows it
  chip,    \* the chip's state outside the memory
  mem      \* the memory

vars == <<irq, masked, inIsr, frame, call, chip, mem>>

\* Executed from flash: the callers, and flash_write_page between two pages.
FlashPCs == {"idle", "ready", "done"}
\* Executed from RAM.
RamPCs == {"enable", "command", "data", "poll"}

Idle == [pc |-> "idle", adr |-> 0, buf |-> <<>>, empty |-> 0, sent |-> 0, r |-> FALSE]
NoCall == [kind |-> "none", adr |-> 0, buf |-> <<>>]
Blank == [o \in 0 .. Page - 1 |-> Bits]
ChipIdle == [sel |-> "none", wel |-> FALSE, busy |-> "no", base |-> 0, latch |-> Blank]

Runs(c) == inIsr <=> c = "isr"
At(c, pc) == Runs(c) /\ frame[c].pc = pc
Goto(c, pc) == frame' = [frame EXCEPT ![c].pc = pc]
-----------------------------------------------------------------------------
\* Chip select goes up (external): a command that is complete is executed.
Deselect(ch) ==
  CASE ch.sel = "wren" -> [ch EXCEPT !.sel = "none", !.wel = TRUE]
    [] ch.sel \in {"write", "erase"} /\ ch.wel ->
         [ch EXCEPT !.sel = "none", !.wel = FALSE, !.busy = ch.sel]
    [] OTHER -> [ch EXCEPT !.sel = "none"]

\* flash_send_cmd and flash_send_addr: chip select goes up and down, then the
\* command.  A busy chip answers nothing but the status command.
SendCmd(cmd, adr) ==
  LET ch == Deselect(chip)
  IN  CASE ch.busy # "no" /\ cmd # "status" -> [ch EXCEPT !.sel = "ignored"]
        [] cmd = "write" ->
             [ch EXCEPT !.sel = cmd, !.base = adr - (adr % Page), !.latch = Blank]
        [] cmd = "erase" ->
             [ch EXCEPT !.sel = cmd, !.base = adr - (adr % Sector)]
        [] OTHER -> [ch EXCEPT !.sel = cmd]

\* Seeded faults: interrupts stay on, are always enabled afterwards, the end
\* of the page is forgotten, the address is not advanced.
IrqDisableNot == UNCHANGED irq
IrqEnable(f) == irq' = (f.r \/ TRUE)
ChunkAll(f) == Len(f.buf)
SameAdr(f) == f.adr

\* irq_disable and irq_restore.
IrqDisable == irq' = FALSE
IrqRestore(f) == irq' = f.r

\* The bytes flash_write_page passes to flash_write_page_256 in this turn,
\* and where it goes on.
Chunk(f) == IF Len(f.buf) >= f.empty THEN f.empty ELSE Len(f.buf)
NextAdr(f) == f.adr + Chunk(f)

-----------------------------------------------------------------------------
\* A caller calls flash_write_page, flash_erase_sector or flash_read_page.
Call(c, kind, adr, buf) ==
  /\ At(c, "idle")
  /\ call' = [call EXCEPT ![c] = [kind |-> kind, adr |-> adr, buf |-> buf]]
  /\ frame' = [frame EXCEPT ![c] =
       [Idle EXCEPT !.pc = "ready", !.adr = adr, !.buf = buf,
                    !.empty = Page - (adr % Page)]]
  /\ UNCHANGED <<irq, masked, inIsr, chip, mem>>

Owned(c) == {a \in Adr : a \div Sector \in Owns[c]}

CallWrite(c) ==
  \E a \in Owned(c), b \in Bufs[c] :
    /\ \A i \in 1 .. Len(b) : a + i - 1 \in Owned(c)
    /\ Call(c, "write", a, b)
CallErase(c) == \E a \in Owned(c) : Call(c, "erase", a, <<>>)
CallRead(c) == Call(c, "read", 0, <<>>)

\* u8 r = irq_disable(), in each of the functions in RAM.
Disable(c) ==
  /\ At(c, "ready") /\ (call[c].kind = "write" => frame[c].buf # <<>>)
  /\ IrqDisable
  /\ frame' = [frame EXCEPT ![c].r = irq,
                 ![c].pc = IF call[c].kind = "read" THEN "command" ELSE "enable"]
  /\ UNCHANGED <<masked, inIsr, call, chip, mem>>

\* FLASH_WRITE_ENABLE_CMD
WriteEnable(c) ==
  /\ At(c, "enable")
  /\ chip' = SendCmd("wren", 0)
  /\ Goto(c, "command")
  /\ UNCHANGED <<irq, masked, inIsr, call, mem>>

\* FLASH_WRITE_CMD, FLASH_SECT_ERASE_CMD or FLASH_READ_CMD and the address.
Command(c) ==
  /\ At(c, "command")
  /\ chip' = SendCmd(call[c].kind, frame[c].adr)
  /\ Goto(c, "data")
  /\ UNCHANGED <<irq, masked, inIsr, call, mem>>

\* mspi_write of the next byte of a write; the chip's address counter wraps
\* around at the end of the page.
DataByte(c) ==
  LET f == frame[c]
  IN  /\ At(c, "data") /\ call[c].kind = "write" /\ f.sent < Chunk(f)
      /\ frame' = [frame EXCEPT ![c].sent = @ + 1]
      /\ chip' = [chip EXCEPT !.latch[(f.adr + f.sent) % Page] = f.buf[f.sent + 1]]
      /\ UNCHANGED <<irq, masked, inIsr, call, mem>>

\* mspi_high starts the operation, flash_wait_done sends the status command.
Execute(c) ==
  /\ At(c, "data") /\ call[c].kind # "read"
  /\ call[c].kind = "write" => frame[c].sent = Chunk(frame[c])
  /\ chip' = SendCmd("status", 0)
  /\ Goto(c, "poll")
  /\ UNCHANGED <<irq, masked, inIsr, call, mem>>

\* The chip is ready: mspi_high, irq_restore, and on to the next page, or
\* back to the caller.
Finish(c) ==
  LET f == frame[c]
  IN  /\ chip' = Deselect(chip)
      /\ IrqRestore(f)
      /\ frame' = [frame EXCEPT ![c] =
           IF call[c].kind = "write"
           THEN [f EXCEPT !.pc = "ready", !.adr = NextAdr(f), !.empty = Page,
                          !.buf = SubSeq(f.buf, Chunk(f) + 1, Len(f.buf)),
                          !.sent = 0, !.r = FALSE]
           ELSE [f EXCEPT !.pc = "done", !.r = FALSE]]
      /\ UNCHANGED <<masked, inIsr, call, mem>>

\* flash_wait_done has seen the busy bit at 0.
Polled(c) == At(c, "poll") /\ chip.busy = "no" /\ Finish(c)
\* flash_read_page has got its bytes.
ReadDone(c) == At(c, "data") /\ call[c].kind = "read" /\ Finish(c)

Return(c) ==
  /\ At(c, "done") \/ (At(c, "ready") /\ call[c].kind = "write" /\ frame[c].buf = <<>>)
  /\ call' = [call EXCEPT ![c] = NoCall]
  /\ frame' = [frame EXCEPT ![c] = Idle]
  /\ UNCHANGED <<irq, masked, inIsr, chip, mem>>
-----------------------------------------------------------------------------
\* The main loop begins or ends a critical section of its own.
CallerIrq ==
  /\ At("main", "idle")
  /\ masked' = ~masked /\ irq' = masked
  /\ UNCHANGED <<inIsr, frame, call, chip, mem>>

\* An interrupt that is enabled may come at any time; irq_handler may call
\* the driver and returns.
IrqEnter ==
  /\ irq /\ ~inIsr
  /\ inIsr' = TRUE
  /\ UNCHANGED <<irq, masked, frame, call, chip, mem>>
IrqReturn ==
  /\ At("isr", "idle")
  /\ inIsr' = FALSE
  /\ UNCHANGED <<irq, masked, frame, call, chip, mem>>
-----------------------------------------------------------------------------
\* The chip at work (external): programming clears one bit after the other,
\* an erase leaves anything until it is done.
Works(busy) ==
  /\ chip.busy = busy
  /\ UNCHANGED <<irq, masked, inIsr, frame, call, chip>>
Ready(busy) ==
  /\ chip.busy = busy
  /\ chip' = [chip EXCEPT !.busy = "no", !.base = 0, !.latch = Blank]
  /\ UNCHANGED <<irq, masked, inIsr, frame, call>>

ChipClears ==
  /\ Works("write")
  /\ \E o \in 0 .. Page - 1 : \E b \in mem[chip.base + o] \ chip.latch[o] :
       mem' = [mem EXCEPT ![chip.base + o] = @ \ {b}]
ChipWritten ==
  /\ Ready("write")
  /\ \A o \in 0 .. Page - 1 : mem[chip.base + o] \subseteq chip.latch[o]
  /\ UNCHANGED mem
ChipErases ==
  /\ Works("erase")
  /\ \E a \in InSector(chip.base), v \in SUBSET Bits : mem' = [mem EXCEPT ![a] = v]
ChipErased ==
  /\ Ready("erase")
  /\ mem' = [a \in Adr |-> IF a \in InSector(chip.base) THEN Bits ELSE mem[a]]

\* Power on: interrupts are off until main enables them.
Reset ==
  /\ irq' = FALSE /\ masked' = TRUE /\ inIsr' = FALSE
  /\ frame' = [c \in Contexts |-> Idle]
  /\ call' = [c \in Contexts |-> NoCall]
  /\ chip' = ChipIdle
PowerLoss == Reset /\ UNCHANGED mem

Init ==
  /\ irq = FALSE /\ masked = TRUE /\ inIsr = FALSE
  /\ frame = [c \in Contexts |-> Idle]
  /\ call = [c \in Contexts |-> NoCall]
  /\ chip = ChipIdle
  /\ mem = [a \in Adr |-> Bits]

Driver(c) ==
  \/ CallWrite(c) \/ CallErase(c) \/ CallRead(c)
  \/ Disable(c) \/ WriteEnable(c) \/ Command(c) \/ DataByte(c)
  \/ Execute(c) \/ Polled(c) \/ ReadDone(c) \/ Return(c)
Chip == ChipClears \/ ChipWritten \/ ChipErases \/ ChipErased

Next ==
  \/ \E c \in Contexts : Driver(c)
  \/ CallerIrq \/ IrqEnter \/ IrqReturn
  \/ Chip \/ PowerLoss

Spec == Init /\ [][Next]_vars
-----------------------------------------------------------------------------
\* The type of every variable; no chunk runs over the end of its page.
TypeOK ==
  /\ irq \in BOOLEAN /\ masked \in BOOLEAN /\ inIsr \in BOOLEAN
  /\ frame \in [Contexts -> [pc : FlashPCs \cup RamPCs, adr : Nat, buf : Seq(SUBSET Bits),
                             empty : 0 .. Page, sent : 0 .. Page, r : BOOLEAN]]
  /\ call \in [Contexts -> [kind : {"none", "write", "erase", "read"},
                            adr : Nat, buf : Seq(SUBSET Bits)]]
  /\ chip \in [sel : {"none", "wren", "write", "erase", "read", "status", "ignored"},
               wel : BOOLEAN, busy : {"no", "write", "erase"}, base : Int,
               latch : [0 .. Page - 1 -> SUBSET Bits]]
  /\ mem \in [Adr -> SUBSET Bits]

\* Safety: whenever the processor may fetch an instruction from flash, in the
\* running context or in an interrupt that is enabled, the chip has no command
\* open and is neither programming nor erasing.
FetchSafe ==
  irq \/ (\E c \in Contexts : Runs(c) /\ frame[c].pc \in FlashPCs)
    => chip.busy = "no" /\ chip.sel = "none"

\* Safety: outside the driver's functions in RAM interrupts are on or off as
\* the caller has left them: a call in a critical section does not end it.
CriticalSectionKept ==
  \A c \in Contexts : Runs(c) /\ frame[c].pc \in FlashPCs => irq = ~masked

\* Refinement: the driver and the chip are the memory its callers rely on:
\* page boundaries, commands, interrupts between two pages and power losses
\* cannot be seen.
Nor == INSTANCE NorStore WITH cells <- mem
ImplementsNor == Nor!NorSpec
=============================================================================
