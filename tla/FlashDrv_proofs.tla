-------------------------- MODULE FlashDrv_proofs --------------------------
(***************************************************************************)
(* Proofs about FlashDrv for every page and sector size, flash size and    *)
(* set of data: the variables keep their types, no instruction is fetched  *)
(* from a busy flash, calls leave the caller's critical section alone, and *)
(* the driver on its chip implements NorStore, a memory of bytes.          *)
(*                                                                         *)
(* FetchSafe is not inductive: the interrupt may come whenever interrupts  *)
(* are on, so the invariant must say that they are off wherever the chip   *)
(* is in use, that a context that is interrupted is executing from flash,  *)
(* and which command is open at each place of the driver, so that raising  *)
(* chip select starts an operation only where flash_wait_done follows.     *)
(* The refinement needs more (RInv): which bytes of a buffer the chip has, *)
(* which are in its memory already, and that a write's chunk, its page and *)
(* the rest of the buffer always meet at the same address.                 *)
(***************************************************************************)
EXTENDS FlashDrv, SequenceTheorems, TLAPS

\* Which command is open where.
ChipAt(c) ==
  LET pc == frame[c].pc
  IN  /\ pc \in FlashPCs \cup {"enable"} => chip.sel = "none" /\ chip.busy = "no"
      /\ pc = "command" => chip.sel \in {"none", "wren"} /\ chip.busy = "no"
      /\ pc = "data" => chip.sel = call[c].kind /\ chip.busy = "no"
      /\ pc = "poll" => chip.sel = "status"

\* Interrupts are off in RAM, to be restored; elsewhere as the caller wants.
IrqAt(c) ==
  /\ frame[c].pc \in FlashPCs => (irq <=> ~masked)
  /\ frame[c].pc \in RamPCs => ~irq /\ (frame[c].r <=> ~masked)

Nesting ==
  /\ ~inIsr => frame["isr"].pc = "idle"
  /\ inIsr => frame["main"].pc \in FlashPCs

Running == IF inIsr THEN "isr" ELSE "main"

IInv == TypeOK /\ Nesting /\ ChipAt(Running) /\ IrqAt(Running)

Frame == [pc : FlashPCs \cup RamPCs, adr : Nat, buf : Seq(SUBSET Bits),
          empty : 0 .. Page, sent : 0 .. Page, r : BOOLEAN]
ChipType == [sel : {"none", "wren", "write", "erase", "read", "status", "ignored"},
             wel : BOOLEAN, busy : {"no", "write", "erase"}, base : Int,
             latch : [0 .. Page - 1 -> SUBSET Bits]]

\* The running context is the only one that executes the driver.
LEMMA RunsIsRunning ==
  ASSUME TypeOK, NEW c \in Contexts, Runs(c)
  PROVE  c = Running /\ (Running' = IF inIsr' THEN "isr" ELSE "main")
BY DEF TypeOK, Contexts, Runs, Running

\* What raising chip select does to a chip at work on nothing.
LEMMA SendCmdIdle ==
  ASSUME TypeOK, FlashAssumption, chip.busy = "no", chip.sel \in {"none", "wren"},
         NEW cmd \in {"none", "wren", "write", "erase", "read"}, NEW adr \in Nat
  PROVE  /\ SendCmd(cmd, adr) \in ChipType
         /\ SendCmd(cmd, adr).sel = cmd /\ SendCmd(cmd, adr).busy = "no"
<1>1. /\ Deselect(chip) \in ChipType
      /\ Deselect(chip).busy = "no"
  BY DEF Deselect, TypeOK, ChipType
<1>2. adr - (adr % Page) \in Int /\ adr - (adr % Sector) \in Int
  BY DEF FlashAssumption
<1>3. Blank \in [0 .. Page - 1 -> SUBSET Bits] BY DEF Blank
<1> QED BY <1>1, <1>2, <1>3 DEF SendCmd, ChipType

LEMMA InitIInv == FlashAssumption /\ Init => IInv
<1> SUFFICES ASSUME FlashAssumption, Init PROVE IInv
  OBVIOUS
<1> USE DEF Init, Idle, NoCall, ChipIdle, Blank, Contexts
<1>1. TypeOK
  <2>1. 0 \in 0 .. Page /\ <<>> \in Seq(SUBSET Bits) BY DEF FlashAssumption
  <2> QED BY <2>1 DEF TypeOK, FlashPCs, RamPCs, Adr
<1>2. Nesting BY DEF Nesting
<1>3. ChipAt(Running) BY DEF ChipAt, Running, FlashPCs
<1>4. IrqAt(Running) BY DEF IrqAt, Running, FlashPCs, RamPCs
<1> QED BY <1>1, <1>2, <1>3, <1>4 DEF IInv

\* A step of context c that changes only its own frame, its call and the
\* interrupt enable bit, and may use the chip.
LEMMA DriverStep ==
  ASSUME IInv, NEW c \in Contexts, Runs(c), NEW f \in Frame,
         frame' = [frame EXCEPT ![c] = f],
         UNCHANGED <<masked, inIsr, mem>>,
         irq' \in BOOLEAN, chip' \in ChipType,
         call' \in [Contexts -> [kind : {"none", "write", "erase", "read"},
                                 adr : Nat, buf : Seq(SUBSET Bits)]],
         ChipAt(c)', IrqAt(c)'
  PROVE  IInv'
<1>1. c = Running /\ Running' = c
  BY RunsIsRunning DEF IInv, Running
<1>2. TypeOK' BY DEF IInv, TypeOK, Frame, ChipType
<1>3. Nesting' BY DEF IInv, TypeOK, Nesting, Runs, Contexts
<1>4. ChipAt(Running)' /\ IrqAt(Running)' BY <1>1
<1> QED BY <1>2, <1>3, <1>4 DEF IInv

\* The calls of a caller.
LEMMA CallIInv ==
  ASSUME IInv, FlashAssumption, NEW c \in Contexts,
         CallWrite(c) \/ CallErase(c) \/ CallRead(c)
  PROVE  IInv'
<1>1. PICK kind \in {"write", "erase", "read"}, adr \in Nat, buf \in Seq(SUBSET Bits) :
        Call(c, kind, adr, buf)
  <2>1. Owned(c) \subseteq Nat BY DEF Owned, Adr
  <2>2. Bufs[c] \subseteq Seq(SUBSET Bits) BY DEF FlashAssumption
  <2>3. <<>> \in Seq(SUBSET Bits) OBVIOUS
  <2> QED BY <2>1, <2>2, <2>3 DEF CallWrite, CallErase, CallRead
<1> DEFINE f == [Idle EXCEPT !.pc = "ready", !.adr = adr, !.buf = buf,
                             !.empty = Page - (adr % Page)]
<1>2. f \in Frame
  <2>1. Page - (adr % Page) \in 0 .. Page /\ 0 \in 0 .. Page BY DEF FlashAssumption
  <2> QED BY <2>1 DEF Idle, Frame, FlashPCs
<1>3. Runs(c) /\ frame[c].pc = "idle" BY <1>1 DEF Call, At
<1>4. c = Running BY <1>3, RunsIsRunning DEF IInv
<1>5. frame' = [frame EXCEPT ![c] = f] /\ frame'[c].pc = "ready"
  BY <1>1, <1>2 DEF Call, IInv, TypeOK, Idle
<1>6. ChipAt(c)' BY <1>1, <1>3, <1>4, <1>5 DEF Call, IInv, ChipAt, FlashPCs
<1>7. IrqAt(c)' BY <1>1, <1>3, <1>4, <1>5 DEF Call, IInv, IrqAt, FlashPCs, RamPCs
<1> HIDE DEF f
<1> QED BY <1>1, <1>2, <1>3, <1>5, <1>6, <1>7, DriverStep DEF Call, IInv, TypeOK, ChipType

\* The steps that talk to the chip with interrupts off.
LEMMA RamIInv ==
  ASSUME IInv, FlashAssumption, NEW c \in Contexts,
         Disable(c) \/ WriteEnable(c) \/ Command(c) \/ DataByte(c) \/ Execute(c)
  PROVE  IInv'
<1>1. Runs(c) BY DEF Disable, WriteEnable, Command, DataByte, Execute, At
<1>2. c = Running BY <1>1, RunsIsRunning DEF IInv
<1>3. frame[c] \in Frame /\ chip \in ChipType /\ frame \in [Contexts -> Frame]
  BY DEF IInv, TypeOK, Frame, ChipType
<1>4. call[c].kind \in {"none", "write", "erase", "read"}
  BY DEF IInv, TypeOK
<1>5. CASE Disable(c)
  <2> DEFINE f == [frame[c] EXCEPT !.r = irq,
                     !.pc = IF call[c].kind = "read" THEN "command" ELSE "enable"]
  <2>1. f \in Frame BY <1>3 DEF Frame, RamPCs, IInv, TypeOK
  <2>2. frame' = [frame EXCEPT ![c] = f] BY <1>3, <1>5 DEF Disable
  <2>3. ChipAt(c)' BY <1>2, <1>3, <1>5, <2>2 DEF Disable, At, IInv, ChipAt, FlashPCs
  <2>4. IrqAt(c)'
    <3>1. frame'[c] = f BY <1>3, <2>2
    <3>2. f.pc \in {"command", "enable"} /\ f.r = irq BY <1>3 DEF Frame
    <3>3. irq <=> ~masked BY <1>2, <1>5 DEF Disable, At, IInv, IrqAt, FlashPCs
    <3> HIDE DEF f
    <3> QED BY <1>5, <3>1, <3>2, <3>3 DEF Disable, IrqDisable, IrqAt, FlashPCs, RamPCs
  <2> HIDE DEF f
  <2> QED BY <1>1, <1>3, <1>5, <2>1, <2>2, <2>3, <2>4, DriverStep
          DEF Disable, IrqDisable, IInv, TypeOK
<1>6. CASE WriteEnable(c)
  <2> DEFINE f == [frame[c] EXCEPT !.pc = "command"]
  <2>1. f \in Frame BY <1>3 DEF Frame, RamPCs
  <2>2. frame' = [frame EXCEPT ![c] = f] /\ frame'[c] = f
    BY <1>3, <1>6 DEF WriteEnable, Goto
  <2>3. chip' \in ChipType /\ chip'.sel = "wren" /\ chip'.busy = "no"
    BY <1>2, <1>6, SendCmdIdle DEF WriteEnable, At, IInv, ChipAt
  <2>4. ChipAt(c)' BY <1>3, <2>2, <2>3 DEF ChipAt, FlashPCs, Frame
  <2>5. IrqAt(c)'
    BY <1>2, <1>3, <1>6, <2>2 DEF WriteEnable, At, IInv, IrqAt, FlashPCs, RamPCs, Frame
  <2> HIDE DEF f
  <2> QED BY <1>1, <1>6, <2>1, <2>2, <2>3, <2>4, <2>5, DriverStep DEF WriteEnable, IInv, TypeOK
<1>7. CASE Command(c)
  <2> DEFINE f == [frame[c] EXCEPT !.pc = "data"]
  <2>1. f \in Frame BY <1>3 DEF Frame, RamPCs
  <2>2. frame' = [frame EXCEPT ![c] = f] /\ frame'[c] = f
    BY <1>3, <1>7 DEF Command, Goto
  <2>3. chip' \in ChipType /\ chip'.sel = call[c].kind /\ chip'.busy = "no"
    BY <1>2, <1>3, <1>4, <1>7, SendCmdIdle DEF Command, At, IInv, ChipAt, Frame
  <2>4. ChipAt(c)' BY <1>3, <1>7, <2>2, <2>3 DEF Command, ChipAt, FlashPCs, Frame
  <2>5. IrqAt(c)'
    BY <1>2, <1>3, <1>7, <2>2 DEF Command, At, IInv, IrqAt, FlashPCs, RamPCs, Frame
  <2> HIDE DEF f
  <2> QED BY <1>1, <1>7, <2>1, <2>2, <2>3, <2>4, <2>5, DriverStep DEF Command, IInv, TypeOK
<1>8. CASE DataByte(c)
  <2> DEFINE f == [frame[c] EXCEPT !.sent = @ + 1]
  <2>1. Chunk(frame[c]) <= Page /\ Chunk(frame[c]) <= Len(frame[c].buf)
    BY <1>3 DEF Chunk, Frame, FlashAssumption
  <2>2. frame[c].sent + 1 \in 0 .. Page /\ frame[c].sent + 1 \in 1 .. Len(frame[c].buf)
    BY <1>3, <1>8, <2>1 DEF DataByte, Frame, FlashAssumption, Chunk
  <2>3. f \in Frame BY <1>3, <2>2 DEF Frame
  <2>4. frame' = [frame EXCEPT ![c] = f] /\ frame'[c] = f BY <1>3, <1>8 DEF DataByte
  <2>5. frame[c].buf[frame[c].sent + 1] \in SUBSET Bits BY <1>3, <2>2 DEF Frame
  <2>6. chip' \in ChipType /\ chip'.sel = chip.sel /\ chip'.busy = chip.busy
    BY <1>3, <1>8, <2>5 DEF DataByte, ChipType
  <2>7. ChipAt(c)'
    BY <1>2, <1>3, <1>8, <2>4, <2>6 DEF DataByte, At, IInv, ChipAt, Frame, FlashPCs
  <2>8. IrqAt(c)'
    BY <1>2, <1>3, <1>8, <2>4 DEF DataByte, At, IInv, IrqAt, FlashPCs, RamPCs, Frame
  <2> HIDE DEF f
  <2> QED BY <1>1, <1>8, <2>3, <2>4, <2>6, <2>7, <2>8, DriverStep DEF DataByte, IInv, TypeOK
<1>9. CASE Execute(c)
  <2> DEFINE f == [frame[c] EXCEPT !.pc = "poll"]
  <2>1. f \in Frame BY <1>3 DEF Frame, RamPCs
  <2>2. frame' = [frame EXCEPT ![c] = f] /\ frame'[c] = f
    BY <1>3, <1>9 DEF Execute, Goto
  <2>3. chip' \in ChipType /\ chip'.sel = "status"
    <3>1. Deselect(chip) \in ChipType BY <1>3 DEF Deselect, ChipType
    <3> QED BY <1>9, <3>1 DEF Execute, SendCmd, ChipType
  <2>4. ChipAt(c)' BY <1>3, <2>2, <2>3 DEF ChipAt, FlashPCs, Frame
  <2>5. IrqAt(c)'
    BY <1>2, <1>3, <1>9, <2>2 DEF Execute, At, IInv, IrqAt, FlashPCs, RamPCs, Frame
  <2> HIDE DEF f
  <2> QED BY <1>1, <1>9, <2>1, <2>2, <2>3, <2>4, <2>5, DriverStep DEF Execute, IInv, TypeOK
<1> QED BY <1>5, <1>6, <1>7, <1>8, <1>9

\* The end of a page, of an erase or of a read, and the return to the caller.
LEMMA FinishIInv ==
  ASSUME IInv, FlashAssumption, NEW c \in Contexts, Polled(c) \/ ReadDone(c)
  PROVE  IInv'
<1>1. Runs(c) /\ frame[c].pc \in {"poll", "data"} /\ Finish(c)
  BY DEF Polled, ReadDone, At
<1>2. c = Running BY <1>1, RunsIsRunning DEF IInv
<1>3. frame[c] \in Frame /\ chip \in ChipType /\ frame \in [Contexts -> Frame]
  BY DEF IInv, TypeOK, Frame, ChipType
<1> DEFINE g == frame[c]
           f == IF call[c].kind = "write"
                THEN [g EXCEPT !.pc = "ready", !.adr = NextAdr(g), !.empty = Page,
                               !.buf = SubSeq(g.buf, Chunk(g) + 1, Len(g.buf)),
                               !.sent = 0, !.r = FALSE]
                ELSE [g EXCEPT !.pc = "done", !.r = FALSE]
<1>4. f \in Frame
  <2>1. Chunk(g) \in Nat /\ NextAdr(g) \in Nat
    BY <1>3 DEF Chunk, NextAdr, Frame
  <2>2. SubSeq(g.buf, Chunk(g) + 1, Len(g.buf)) \in Seq(SUBSET Bits)
    <3>1. \A i \in Chunk(g) + 1 .. Len(g.buf) : g.buf[i] \in SUBSET Bits
      BY <1>3, <2>1 DEF Frame
    <3>2. Len(g.buf) \in Int /\ Chunk(g) + 1 \in Int BY <1>3, <2>1 DEF Frame
    <3> HIDE DEF g
    <3> QED BY <3>1, <3>2, SubSeqProperties
  <2>3. Page \in 0 .. Page /\ 0 \in 0 .. Page BY DEF FlashAssumption
  <2> QED BY <1>3, <2>1, <2>2, <2>3 DEF Frame, FlashPCs
<1>5. frame' = [frame EXCEPT ![c] = f] BY <1>1 DEF Finish
<1>6. frame'[c] = f /\ f.pc \in {"ready", "done"} BY <1>3, <1>4, <1>5 DEF Frame
<1>7. chip.sel \in {"status", "read"} /\ chip.busy = "no"
  BY <1>2 DEF Polled, ReadDone, At, IInv, ChipAt
<1>8. chip' \in ChipType /\ chip'.sel = "none" /\ chip'.busy = "no"
  BY <1>1, <1>3, <1>7 DEF Finish, Deselect, ChipType
<1>9. irq' = g.r /\ g.r \in BOOLEAN /\ (g.r <=> ~masked)
  BY <1>1, <1>2, <1>3 DEF Finish, IrqRestore, IInv, IrqAt, RamPCs, Frame
<1> HIDE DEF f
<1>10. ChipAt(c)' BY <1>6, <1>8 DEF ChipAt, FlashPCs
<1>11. IrqAt(c)' BY <1>1, <1>6, <1>9 DEF Finish, IrqAt, FlashPCs, RamPCs
<1> HIDE DEF g
<1> QED BY <1>1, <1>4, <1>5, <1>8, <1>9, <1>10, <1>11, DriverStep DEF Finish, IInv, TypeOK

LEMMA ReturnIInv ==
  ASSUME IInv, FlashAssumption, NEW c \in Contexts, Return(c)
  PROVE  IInv'
<1>1. Runs(c) /\ frame[c].pc \in FlashPCs /\ frame \in [Contexts -> Frame]
  BY DEF Return, At, FlashPCs, IInv, TypeOK, Frame
<1>2. c = Running BY <1>1, RunsIsRunning DEF IInv
<1>3. Idle \in Frame BY DEF Idle, Frame, FlashPCs, FlashAssumption
<1>4. frame' = [frame EXCEPT ![c] = Idle] /\ frame'[c] = Idle BY <1>1 DEF Return
<1>5. ChipAt(c)' BY <1>1, <1>2, <1>4 DEF Return, IInv, ChipAt, FlashPCs, Idle
<1>6. IrqAt(c)' BY <1>1, <1>2, <1>4 DEF Return, IInv, IrqAt, FlashPCs, RamPCs, Idle
<1>7. NoCall \in [kind : {"none", "write", "erase", "read"}, adr : Nat, buf : Seq(SUBSET Bits)]
  BY DEF NoCall
<1> QED BY <1>1, <1>3, <1>4, <1>5, <1>6, <1>7, DriverStep DEF Return, IInv, TypeOK, ChipType

LEMMA NextIInv == FlashAssumption /\ IInv /\ [Next]_vars => IInv'
<1> SUFFICES ASSUME FlashAssumption, IInv, [Next]_vars PROVE IInv'
  OBVIOUS
<1>1. ASSUME NEW c \in Contexts, Driver(c) PROVE IInv'
  BY <1>1, CallIInv, RamIInv, FinishIInv, ReturnIInv DEF Driver
<1>2. CASE CallerIrq
  <2> USE <1>2 DEF CallerIrq, At, Runs, Contexts
  <2>1. TypeOK' BY DEF IInv, TypeOK
  <2>2. Nesting' BY DEF IInv, Nesting
  <2>3. ChipAt(Running)' BY DEF IInv, ChipAt, Running
  <2>4. IrqAt(Running)' BY DEF IInv, TypeOK, IrqAt, Running, RamPCs
  <2> QED BY <2>1, <2>2, <2>3, <2>4 DEF IInv
<1>3. CASE IrqEnter
  <2> USE <1>3 DEF IrqEnter
  <2>1. TypeOK' BY DEF IInv, TypeOK
  <2>2. frame["main"].pc \in FlashPCs
    BY DEF IInv, TypeOK, IrqAt, Running, Contexts
  <2>3. Nesting' BY <2>2 DEF Nesting
  <2>4. ChipAt(Running)' BY <2>2 DEF IInv, Nesting, ChipAt, Running, FlashPCs
  <2>5. IrqAt(Running)' BY <2>2 DEF IInv, Nesting, IrqAt, Running, FlashPCs, RamPCs
  <2> QED BY <2>1, <2>3, <2>4, <2>5 DEF IInv
<1>4. CASE IrqReturn
  <2> USE <1>4 DEF IrqReturn, At
  <2>1. TypeOK' BY DEF IInv, TypeOK
  <2>2. inIsr /\ frame["main"].pc \in FlashPCs
    BY DEF Runs, IInv, Nesting
  <2>3. Nesting' BY DEF Nesting
  <2>4. ChipAt(Running)' BY <2>2 DEF IInv, ChipAt, Running, FlashPCs
  <2>5. IrqAt(Running)' BY <2>2 DEF IInv, IrqAt, Running, FlashPCs, RamPCs
  <2> QED BY <2>1, <2>3, <2>4, <2>5 DEF IInv
<1>5. CASE Chip
  <2>1. /\ UNCHANGED <<irq, masked, inIsr, frame, call>>
        /\ chip' \in ChipType /\ chip'.sel = chip.sel
        /\ chip.busy # "no"
    <3>1. chip \in ChipType BY DEF IInv, TypeOK, ChipType
    <3>2. Blank \in [0 .. Page - 1 -> SUBSET Bits] BY DEF Blank
    <3>3. CASE Works("write") \/ Works("erase") BY <3>1, <3>3 DEF Works
    <3>4. CASE Ready("write") \/ Ready("erase")
      <4>1. chip' \in ChipType
        <5>1. chip' = [chip EXCEPT !.busy = "no", !.base = 0, !.latch = Blank]
          BY <3>4 DEF Ready
        <5>2. chip' = [sel |-> chip.sel, wel |-> chip.wel, busy |-> "no",
                       base |-> 0, latch |-> Blank]
          BY <3>1, <5>1 DEF ChipType
        <5> QED BY <3>1, <3>2, <5>2 DEF ChipType
      <4>2. chip'.sel = chip.sel BY <3>1, <3>4 DEF Ready, ChipType
      <4>3. chip.busy # "no" BY <3>4 DEF Ready
      <4>4. UNCHANGED <<irq, masked, inIsr, frame, call>> BY <3>4 DEF Ready
      <4> QED BY <4>1, <4>2, <4>3, <4>4
    <3> QED BY <1>5, <3>3, <3>4 DEF Chip, ChipClears, ChipWritten, ChipErases, ChipErased
  <2>2. mem' \in [Adr -> SUBSET Bits]
    <3>1. mem \in [Adr -> SUBSET Bits] BY DEF IInv, TypeOK
    <3>2. CASE ChipClears BY <3>1, <3>2 DEF ChipClears
    <3>3. CASE ChipWritten BY <3>1, <3>3 DEF ChipWritten
    <3>4. CASE ChipErases BY <3>1, <3>4 DEF ChipErases
    <3>5. CASE ChipErased BY <3>1, <3>5 DEF ChipErased
    <3> QED BY <1>5, <3>2, <3>3, <3>4, <3>5 DEF Chip
  <2>3. TypeOK' BY <2>1, <2>2 DEF IInv, TypeOK, ChipType
  <2>4. Nesting' BY <2>1 DEF IInv, Nesting
  <2>5. frame[Running].pc = "poll" /\ chip.sel = "status"
    BY <2>1 DEF IInv, TypeOK, ChipAt, Running, Contexts, FlashPCs, RamPCs
  <2>6. ChipAt(Running)' BY <2>1, <2>5 DEF ChipAt, Running, FlashPCs
  <2>7. IrqAt(Running)' BY <2>1 DEF IInv, IrqAt, Running
  <2> QED BY <2>3, <2>4, <2>6, <2>7 DEF IInv
<1>6. CASE PowerLoss
  <2> USE <1>6 DEF PowerLoss, Reset, Idle, NoCall, ChipIdle, Blank, Contexts
  <2>1. TypeOK'
    <3>1. 0 \in 0 .. Page /\ <<>> \in Seq(SUBSET Bits) BY DEF FlashAssumption
    <3>2. mem' \in [Adr -> SUBSET Bits] BY DEF IInv, TypeOK
    <3>3. Idle \in Frame BY <3>1 DEF Idle, Frame, FlashPCs
    <3>4. frame' \in [Contexts -> Frame] BY <3>3
    <3>5. call' \in [Contexts -> [kind : {"none", "write", "erase", "read"},
                                  adr : Nat, buf : Seq(SUBSET Bits)]]
      BY <3>1
    <3>6. chip' \in ChipType BY DEF ChipType
    <3>7. irq' \in BOOLEAN /\ masked' \in BOOLEAN /\ inIsr' \in BOOLEAN OBVIOUS
    <3> QED BY <3>2, <3>4, <3>5, <3>6, <3>7 DEF TypeOK, Frame, ChipType
  <2>2. Nesting' BY DEF Nesting
  <2>3. ChipAt(Running)' BY DEF ChipAt, Running, FlashPCs
  <2>4. IrqAt(Running)' BY DEF IrqAt, Running, FlashPCs, RamPCs
  <2> QED BY <2>1, <2>2, <2>3, <2>4 DEF IInv
<1>7. CASE UNCHANGED vars
  BY <1>7 DEF vars, IInv, TypeOK, Nesting, ChipAt, IrqAt, Running
<1> QED BY <1>1, <1>2, <1>3, <1>4, <1>5, <1>6, <1>7 DEF Next

\* Every variable keeps its type; no index into a buffer or a page of the chip
\* is out of range, whatever the page size and the data.
THEOREM TypeCorrect == Spec => []TypeOK
<1>1. IInv => TypeOK BY DEF IInv
<1> QED BY <1>1, FlashAssumption, InitIInv, NextIInv, PTL DEF Spec

\* No instruction is fetched from flash while the chip has a command open,
\* programs or erases, whenever interrupts come and power fails.
THEOREM FlashFetchSafe == Spec => []FetchSafe
<1>1. IInv => FetchSafe
  <2> SUFFICES ASSUME IInv, irq \/ \E c \in Contexts : Runs(c) /\ frame[c].pc \in FlashPCs
               PROVE  chip.busy = "no" /\ chip.sel = "none"
    BY DEF FetchSafe
  <2>1. Running \in Contexts BY DEF Running, Contexts
  <2>2. frame[Running].pc \in FlashPCs
    <3>1. CASE irq BY <2>1, <3>1 DEF IInv, TypeOK, IrqAt
    <3>2. ASSUME NEW c \in Contexts, Runs(c), frame[c].pc \in FlashPCs
          PROVE  frame[Running].pc \in FlashPCs
      BY <3>2, RunsIsRunning DEF IInv
    <3> QED BY <3>1, <3>2
  <2> QED BY <2>2 DEF IInv, ChipAt
<1> QED BY <1>1, FlashAssumption, InitIInv, NextIInv, PTL DEF Spec

\* A flash call made with interrupts off leaves them off, and one made with
\* interrupts on leaves them on, for its whole duration outside the RAM code.
THEOREM SectionsKept == Spec => []CriticalSectionKept
<1>1. IInv => CriticalSectionKept
  <2> SUFFICES ASSUME IInv, NEW c \in Contexts, Runs(c), frame[c].pc \in FlashPCs
               PROVE  irq = ~masked
    BY DEF CriticalSectionKept
  <2>1. irq <=> ~masked BY RunsIsRunning DEF IInv, IrqAt
  <2>2. irq \in BOOLEAN /\ masked \in BOOLEAN BY DEF IInv, TypeOK
  <2> QED BY <2>1, <2>2
<1> QED BY <1>1, FlashAssumption, InitIInv, NextIInv, PTL DEF Spec

-----------------------------------------------------------------------------
(* The refinement: what a context has called, what it still has to do and   *)
(* what the chip has been told agree with each other and with the memory.   *)

\* Bytes of a write that are done, and the i-th of those that are not.
DoneLen(c) == frame[c].adr - call[c].adr
Todo(c, i) == call[c].buf[DoneLen(c) + i]

\* A call of flash_write_page: what is in frame is the rest of the data, and the
\* memory has what is done.
WriteAt(c) == call[c].kind = "write" =>
  /\ frame[c].pc # "done"
  /\ DoneLen(c) \in 0 .. Len(call[c].buf)
  /\ Len(frame[c].buf) = Len(call[c].buf) - DoneLen(c)
  /\ \A i \in 1 .. Len(frame[c].buf) : frame[c].buf[i] = Todo(c, i)
  /\ frame[c].buf # <<>> => frame[c].empty = Page - (frame[c].adr % Page)
  /\ \A i \in 1 .. Len(call[c].buf) : call[c].adr + i - 1 \in Owned(c)
  /\ \A i \in 1 .. DoneLen(c) : mem[call[c].adr + i - 1] \subseteq call[c].buf[i]
  /\ frame[c].pc \notin {"data", "poll"} => frame[c].sent = 0

EraseAt(c) == call[c].kind = "erase" =>
  /\ frame[c].adr = call[c].adr /\ call[c].adr \in Owned(c)
  /\ frame[c].pc = "done" => \A a \in InSector(call[c].adr) : mem[a] = Bits

CallAt(c) ==
  /\ call[c] = NoCall <=> frame[c].pc = "idle"
  /\ call[c].kind = "none" => frame[c].pc = "idle"
  /\ call[c].kind = "read" => frame[c].pc \notin {"enable", "poll"}

\* The page in the chip: the data bytes it has been sent, and ones.
Latched(c) ==
  /\ chip.base = frame[c].adr - (frame[c].adr % Page)
  /\ \A i \in 1 .. frame[c].sent :
       chip.latch[(frame[c].adr + i - 1) % Page] = frame[c].buf[i]
  /\ \A o \in 0 .. Page - 1 : chip.latch[o] = Bits
       \/ \E i \in 1 .. frame[c].sent : o = (frame[c].adr + i - 1) % Page

\* The chip at each place of the running context: it is allowed to write, it has
\* the address and the data, and when it is not busy any more, they are done.
Told(c) ==
  LET f == frame[c]
  IN  /\ f.pc = "command" /\ call[c].kind # "read" => chip.sel = "wren"
      /\ f.pc = "data" /\ call[c].kind # "read" => chip.wel
      /\ f.pc = "poll" => chip.busy \in {"no", call[c].kind}
      /\ f.pc \in {"data", "poll"} /\ call[c].kind = "write" => f.sent <= Chunk(f)
      /\ f.pc = "poll" /\ call[c].kind = "write" => f.sent = Chunk(f)
      /\ call[c].kind = "write" /\ (f.pc = "data" \/ (f.pc = "poll" /\ chip.busy = "write"))
           => Latched(c)
      /\ call[c].kind = "erase" /\ (f.pc = "data" \/ (f.pc = "poll" /\ chip.busy = "erase"))
           => chip.base = f.adr - (f.adr % Sector)
      /\ f.pc = "poll" /\ chip.busy = "no" /\ call[c].kind = "write"
           => \A i \in 1 .. f.sent : mem[f.adr + i - 1] \subseteq f.buf[i]
      /\ f.pc = "poll" /\ chip.busy = "no" /\ call[c].kind = "erase"
           => \A a \in InSector(f.adr) : mem[a] = Bits

RInv ==
  /\ IInv
  /\ \A c \in Contexts : WriteAt(c) /\ EraseAt(c) /\ CallAt(c)
  /\ Told(Running)

LEMMA PageFacts ==
  ASSUME NEW n \in Nat \ {0}, NEW a \in Nat
  PROVE  /\ a % n \in 0 .. n - 1 /\ a - (a % n) \in Nat
         /\ \A i \in Nat : (a % n) + i < n => (a + i) % n = (a % n) + i
         /\ (a + (n - (a % n))) % n = 0
         /\ (a - (a % n)) \div n = a \div n
<1>1. a % n \in 0 .. n - 1 OBVIOUS
<1> DEFINE q == a \div n
<1>2. q \in Nat /\ a = n * q + (a % n)
  <2>1. a = n * q + (a % n) BY Z3
  <2>2. q \in Nat BY Z3
  <2> QED BY <2>1, <2>2
<1> HIDE DEF q
<1>3. a - (a % n) \in Nat BY <1>1, <1>2
<1>4. ASSUME NEW i \in Nat, (a % n) + i < n PROVE (a + i) % n = (a % n) + i
  BY <1>1, <1>2, <1>4
<1>5. (a + (n - (a % n))) % n = 0
  <2>1. a + (n - (a % n)) = n * (q + 1) BY <1>1, <1>2
  <2>2. \A k \in Nat : (n * k) % n = 0 OBVIOUS
  <2> QED BY <1>2, <2>1, <2>2
<1>6. (a - (a % n)) \div n = a \div n
  <2>1. a - (a % n) = n * q BY <1>1, <1>2
  <2>2. \A k \in Nat : (n * k) \div n = k OBVIOUS
  <2> QED BY <1>2, <2>1, <2>2 DEF q
<1> QED BY <1>1, <1>3, <1>4, <1>5, <1>6

CallType == [kind : {"none", "write", "erase", "read"}, adr : Nat, buf : Seq(SUBSET Bits)]

LEMMA Types ==
  ASSUME IInv
  PROVE  /\ frame \in [Contexts -> Frame] /\ call \in [Contexts -> CallType]
         /\ chip \in ChipType /\ mem \in [Adr -> SUBSET Bits]
         /\ Running \in Contexts
BY DEF IInv, TypeOK, Frame, CallType, ChipType, Running, Contexts

\* The two contexts own different bytes; an owned byte's sector is owned.
LEMMA Ownership ==
  ASSUME FlashAssumption
  PROVE  /\ \A c \in Contexts : Owned(c) \subseteq Adr /\ Owned(c) \subseteq Nat
         /\ \A c, d \in Contexts : c # d => Owned(c) \cap Owned(d) = {}
         /\ \A c \in Contexts : \A a \in Owned(c) : InSector(a) \subseteq Owned(c)
BY DEF FlashAssumption, Owned, Adr, InSector, Contexts

\* What another context does to its own bytes is nothing to context d.
LEMMA OtherKept ==
  ASSUME FlashAssumption, NEW d \in Contexts, WriteAt(d), EraseAt(d), CallAt(d),
         frame'[d] = frame[d], call'[d] = call[d],
         \A a \in Owned(d) : mem'[a] = mem[a]
  PROVE  WriteAt(d)' /\ EraseAt(d)' /\ CallAt(d)'
<1>1. DoneLen(d)' = DoneLen(d) /\ \A i : Todo(d, i)' = Todo(d, i) BY DEF DoneLen, Todo
<1>2. CallAt(d)' BY DEF CallAt
<1>3. EraseAt(d)'
  <2>1. call[d].kind = "erase" => InSector(call[d].adr) \subseteq Owned(d)
    BY Ownership DEF EraseAt
  <2> QED BY <2>1 DEF EraseAt
<1>4. WriteAt(d)'
  <2> SUFFICES ASSUME call[d].kind = "write" PROVE WriteAt(d)'
    BY DEF WriteAt
  <2>1. /\ DoneLen(d) \in 0 .. Len(call[d].buf)
        /\ \A i \in 1 .. Len(call[d].buf) : call[d].adr + i - 1 \in Owned(d)
        /\ \A i \in 1 .. DoneLen(d) : mem[call[d].adr + i - 1] \subseteq call[d].buf[i]
    BY DEF WriteAt
  <2>2. \A i \in 1 .. DoneLen(d) : i \in 1 .. Len(call[d].buf) BY <2>1
  <2>3. \A i \in 1 .. DoneLen(d)' : mem'[call'[d].adr + i - 1] \subseteq call'[d].buf[i]
    BY <1>1, <2>1, <2>2
  <2>4. \A i \in 1 .. Len(call'[d].buf) : call'[d].adr + i - 1 \in Owned(d)' BY <2>1 DEF Owned
  <2> QED BY <1>1, <2>3, <2>4 DEF WriteAt
<1> QED BY <1>2, <1>3, <1>4

\* Where the running context executes from flash the chip is told nothing.
LEMMA ToldNothing ==
  ASSUME NEW c, frame[c].pc \in FlashPCs PROVE Told(c)
BY DEF Told, FlashPCs

\* A step of the running context, which may use the chip and not the memory.
LEMMA DriverRInv ==
  ASSUME RInv, FlashAssumption, IInv', NEW c \in Contexts, Runs(c), NEW f, NEW k,
         frame' = [frame EXCEPT ![c] = f], call' = [call EXCEPT ![c] = k],
         UNCHANGED <<inIsr, mem>>,
         WriteAt(c)', EraseAt(c)', CallAt(c)', Told(c)'
  PROVE  RInv'
<1>1. c = Running /\ Running' = c BY RunsIsRunning DEF RInv, IInv, Running
<1>2. ASSUME NEW d \in Contexts, d # c PROVE WriteAt(d)' /\ EraseAt(d)' /\ CallAt(d)'
  <2>1. frame'[d] = frame[d] /\ call'[d] = call[d] BY <1>2, Types DEF RInv
  <2> QED BY <2>1, OtherKept DEF RInv
<1>3. \A d \in Contexts : WriteAt(d)' /\ EraseAt(d)' /\ CallAt(d)' BY <1>2
<1>4. Told(Running)' BY <1>1
<1> QED BY <1>3, <1>4 DEF RInv

-----------------------------------------------------------------------------
(* The steps of the driver.                                                 *)

LEMMA CallRInv ==
  ASSUME RInv, FlashAssumption, NEW c \in Contexts,
         CallWrite(c) \/ CallErase(c) \/ CallRead(c)
  PROVE  RInv' /\ Nor!Begin(c)
<1>1. IInv' BY CallIInv DEF RInv
<1>2. PICK kind \in {"write", "erase", "read"}, adr \in Nat, buf \in Seq(SUBSET Bits) :
        /\ Call(c, kind, adr, buf)
        /\ kind = "write" => \A i \in 1 .. Len(buf) : adr + i - 1 \in Owned(c)
        /\ kind = "erase" => adr \in Owned(c)
  <2>1. Owned(c) \subseteq Nat BY Ownership
  <2>2. Bufs[c] \subseteq Seq(SUBSET Bits) BY DEF FlashAssumption
  <2>3. <<>> \in Seq(SUBSET Bits) OBVIOUS
  <2> QED BY <2>1, <2>2, <2>3 DEF CallWrite, CallErase, CallRead
<1> DEFINE f == [Idle EXCEPT !.pc = "ready", !.adr = adr, !.buf = buf,
                             !.empty = Page - (adr % Page)]
           k == [kind |-> kind, adr |-> adr, buf |-> buf]
<1>3. /\ f.pc = "ready" /\ f.adr = adr /\ f.buf = buf /\ f.empty = Page - (adr % Page)
      /\ f.sent = 0
  BY DEF Idle
<1>4. k.kind = kind /\ k.adr = adr /\ k.buf = buf OBVIOUS
<1>5. /\ frame' = [frame EXCEPT ![c] = f] /\ call' = [call EXCEPT ![c] = k]
      /\ UNCHANGED <<inIsr, mem>> /\ Runs(c) /\ frame[c].pc = "idle"
  BY <1>2 DEF Call, At
<1> HIDE DEF f, k
<1>6. frame'[c] = f /\ call'[c] = k BY <1>5, Types DEF RInv
<1>7. DoneLen(c)' = 0 /\ \A i \in Nat : Todo(c, i)' = buf[i]
  BY <1>3, <1>4, <1>6 DEF DoneLen, Todo
<1>8. Len(buf) \in Nat OBVIOUS
<1>9. WriteAt(c)' BY <1>2, <1>3, <1>4, <1>6, <1>7, <1>8 DEF WriteAt, Owned
<1>10. EraseAt(c)' BY <1>2, <1>3, <1>4, <1>6 DEF EraseAt, Owned
<1>11. CallAt(c)'
  <2>1. call'[c] # NoCall BY <1>2, <1>4, <1>6 DEF NoCall
  <2> QED BY <1>2, <1>3, <1>4, <1>6, <2>1 DEF CallAt
<1>12. Told(c)' BY <1>3, <1>6 DEF Told
<1>13. call[c] = NoCall BY <1>5 DEF RInv, CallAt
<1>14. Nor!Begin(c) BY <1>2, <1>4, <1>5, <1>6, <1>13 DEF Nor!Begin, Nor!NoCall, NoCall
<1> QED BY <1>1, <1>5, <1>9, <1>10, <1>11, <1>12, <1>14, DriverRInv


\* A step that leaves the call, and of its frame all but pc, r and sent.
LEMMA SameCall ==
  ASSUME RInv, NEW c \in Contexts, NEW f \in Frame,
         frame' = [frame EXCEPT ![c] = f], UNCHANGED <<call, mem>>,
         f.adr = frame[c].adr, f.buf = frame[c].buf, f.empty = frame[c].empty,
         frame[c].pc # "idle", f.pc \in RamPCs,
         call[c].kind = "read" => f.pc \notin {"enable", "poll"},
         f.pc \notin {"data", "poll"} =>
           f.sent = frame[c].sent /\ frame[c].pc \notin {"data", "poll"}
  PROVE  /\ frame'[c] = f /\ call' = [call EXCEPT ![c] = call[c]]
         /\ WriteAt(c)' /\ EraseAt(c)' /\ CallAt(c)'
<1>1. frame'[c] = f /\ call' = [call EXCEPT ![c] = call[c]] BY Types DEF RInv
<1>2. DoneLen(c)' = DoneLen(c) /\ \A i : Todo(c, i)' = Todo(c, i) BY <1>1 DEF DoneLen, Todo
<1>3. WriteAt(c)' BY <1>1, <1>2 DEF RInv, WriteAt, Owned, RamPCs
<1>4. EraseAt(c)' BY <1>1 DEF RInv, EraseAt, Owned, RamPCs
<1>5. CallAt(c)' BY <1>1 DEF RInv, CallAt, RamPCs
<1> QED BY <1>1, <1>3, <1>4, <1>5

LEMMA StartRInv ==
  ASSUME RInv, FlashAssumption, NEW c \in Contexts, Disable(c) \/ WriteEnable(c)
  PROVE  RInv'
<1>1. IInv' BY RamIInv DEF RInv
<1>2. frame[c] \in Frame BY Types DEF RInv
<1>3. Running = c BY RunsIsRunning DEF RInv, IInv, Disable, WriteEnable, At
<1>4. CASE Disable(c)
  <2> DEFINE f == [frame[c] EXCEPT !.r = irq,
                     !.pc = IF call[c].kind = "read" THEN "command" ELSE "enable"]
  <2>1. f \in Frame BY <1>2 DEF Frame, RamPCs, RInv, IInv, TypeOK
  <2>2. /\ f.pc = IF call[c].kind = "read" THEN "command" ELSE "enable"
        /\ f.adr = frame[c].adr /\ f.buf = frame[c].buf /\ f.empty = frame[c].empty
        /\ f.sent = frame[c].sent
    BY <1>2 DEF Frame
  <2>3. /\ frame' = [frame EXCEPT ![c] = f] /\ UNCHANGED <<call, mem, inIsr>> /\ Runs(c)
        /\ frame[c].pc = "ready"
    BY <1>4, Types DEF Disable, At, RInv
  <2> HIDE DEF f
  <2>4. /\ frame'[c] = f /\ call' = [call EXCEPT ![c] = call[c]]
        /\ WriteAt(c)' /\ EraseAt(c)' /\ CallAt(c)'
    BY <2>1, <2>2, <2>3, SameCall DEF RamPCs
  <2>5. Told(c)' BY <2>2, <2>3, <2>4 DEF Told
  <2> QED BY <1>1, <2>3, <2>4, <2>5, DriverRInv
<1>5. CASE WriteEnable(c)
  <2> DEFINE f == [frame[c] EXCEPT !.pc = "command"]
  <2>1. f \in Frame BY <1>2 DEF Frame, RamPCs
  <2>2. /\ f.pc = "command"
        /\ f.adr = frame[c].adr /\ f.buf = frame[c].buf /\ f.empty = frame[c].empty
        /\ f.sent = frame[c].sent
    BY <1>2 DEF Frame
  <2>3. /\ frame' = [frame EXCEPT ![c] = f] /\ UNCHANGED <<call, mem, inIsr>> /\ Runs(c)
        /\ frame[c].pc = "enable"
    BY <1>5, Types DEF WriteEnable, Goto, At, RInv
  <2> HIDE DEF f
  <2>4. /\ frame'[c] = f /\ call' = [call EXCEPT ![c] = call[c]]
        /\ WriteAt(c)' /\ EraseAt(c)' /\ CallAt(c)'
    BY <2>1, <2>2, <2>3, SameCall DEF RamPCs
  <2>5. chip'.sel = "wren"
    <3>1. chip.sel = "none" /\ chip.busy = "no" BY <1>3, <2>3 DEF RInv, IInv, ChipAt
    <3> QED BY <1>5, <3>1, SendCmdIdle DEF WriteEnable, RInv, IInv
  <2>6. Told(c)' BY <2>2, <2>4, <2>5 DEF Told
  <2> QED BY <1>1, <2>3, <2>4, <2>6, DriverRInv
<1> QED BY <1>4, <1>5

\* The command reaches a chip that is allowed to write; its page is blank.
LEMMA CommandRInv ==
  ASSUME RInv, FlashAssumption, NEW c \in Contexts, Command(c)
  PROVE  RInv'
<1>1. IInv' BY RamIInv DEF RInv
<1>2. frame[c] \in Frame /\ chip \in ChipType /\ call[c] \in CallType BY Types DEF RInv
<1>3. Running = c BY RunsIsRunning DEF RInv, IInv, Command, At
<1> DEFINE f == [frame[c] EXCEPT !.pc = "data"]
<1>4. f \in Frame BY <1>2 DEF Frame, RamPCs
<1>5. /\ f.pc = "data"
      /\ f.adr = frame[c].adr /\ f.buf = frame[c].buf /\ f.empty = frame[c].empty
      /\ f.sent = frame[c].sent
  BY <1>2 DEF Frame
<1>6. /\ frame' = [frame EXCEPT ![c] = f] /\ UNCHANGED <<call, mem, inIsr>> /\ Runs(c)
      /\ frame[c].pc = "command"
  BY Types DEF Command, Goto, At, RInv
<1> HIDE DEF f
<1>7. /\ frame'[c] = f /\ call' = [call EXCEPT ![c] = call[c]]
      /\ WriteAt(c)' /\ EraseAt(c)' /\ CallAt(c)'
  BY <1>4, <1>5, <1>6, SameCall DEF RamPCs
<1>8. /\ chip.busy = "no" /\ chip.sel \in {"none", "wren"}
      /\ call[c].kind # "read" => chip.sel = "wren"
  BY <1>3, <1>6 DEF RInv, IInv, ChipAt, Told
<1>9. call[c].kind # "none" BY <1>6 DEF RInv, CallAt
<1>10. chip' = SendCmd(call[c].kind, frame[c].adr) BY DEF Command
<1>11. Deselect(chip).busy = "no" /\ Deselect(chip) \in ChipType
       /\ (call[c].kind # "read" => Deselect(chip).wel)
  <2>1. Deselect(chip).busy = "no" /\ Deselect(chip) \in ChipType
    BY <1>2, <1>8 DEF Deselect, ChipType
  <2>2. ASSUME call[c].kind # "read" PROVE Deselect(chip).wel
    <3>1. Deselect(chip) = [chip EXCEPT !.sel = "none", !.wel = TRUE]
      BY <1>8, <2>2 DEF Deselect
    <3>2. [chip EXCEPT !.sel = "none", !.wel = TRUE].wel BY <1>2 DEF ChipType
    <3> QED BY <3>1, <3>2
  <2> QED BY <2>1, <2>2
<1>12. CASE call[c].kind = "write"
  <2>1. chip' = [Deselect(chip) EXCEPT !.sel = "write", !.latch = Blank,
                   !.base = frame[c].adr - (frame[c].adr % Page)]
    BY <1>10, <1>11, <1>12 DEF SendCmd
  <2>2. /\ chip'.wel /\ chip'.latch = Blank
        /\ chip'.base = frame[c].adr - (frame[c].adr % Page)
    BY <1>11, <1>12, <2>1 DEF ChipType
  <2>3. frame[c].sent = 0 BY <1>6, <1>12 DEF RInv, WriteAt
  <2>4. Latched(c)' BY <1>5, <1>7, <2>2, <2>3 DEF Latched, Blank
  <2>5. 0 <= Chunk(f) BY <1>4 DEF Chunk, Frame
  <2>6. Told(c)' BY <1>5, <1>6, <1>7, <1>12, <2>2, <2>3, <2>4, <2>5 DEF Told, Chunk
  <2> QED BY <1>1, <1>6, <1>7, <2>6, DriverRInv
<1>13. CASE call[c].kind = "erase"
  <2>1. chip' = [Deselect(chip) EXCEPT !.sel = "erase",
                   !.base = frame[c].adr - (frame[c].adr % Sector)]
    BY <1>10, <1>11, <1>13 DEF SendCmd
  <2>2. chip'.wel /\ chip'.base = frame[c].adr - (frame[c].adr % Sector)
    BY <1>11, <1>13, <2>1 DEF ChipType
  <2>3. Told(c)' BY <1>5, <1>6, <1>7, <1>13, <2>2 DEF Told
  <2> QED BY <1>1, <1>6, <1>7, <2>3, DriverRInv
<1>14. CASE call[c].kind = "read"
  <2>1. Told(c)' BY <1>5, <1>6, <1>7, <1>14 DEF Told
  <2> QED BY <1>1, <1>6, <1>7, <2>1, DriverRInv
<1> QED BY <1>2, <1>9, <1>12, <1>13, <1>14 DEF CallType


\* A chunk does not run over the end of its page.
LEMMA Offsets ==
  ASSUME RInv, FlashAssumption, NEW c \in Contexts, call[c].kind = "write"
  PROVE  /\ Chunk(frame[c]) \in 0 .. Page /\ Chunk(frame[c]) <= Len(frame[c].buf)
         /\ \A i \in 1 .. Chunk(frame[c]) :
              /\ (frame[c].adr + i - 1) % Page = (frame[c].adr % Page) + i - 1
              /\ (frame[c].adr % Page) + i - 1 \in 0 .. Page - 1
              /\ frame[c].adr - (frame[c].adr % Page) + ((frame[c].adr + i - 1) % Page)
                   = frame[c].adr + i - 1
<1> DEFINE a == frame[c].adr
<1>1. frame[c] \in Frame BY Types DEF RInv
<1>2. a \in Nat /\ frame[c].empty \in 0 .. Page /\ Len(frame[c].buf) \in Nat /\ Page \in Nat \ {0}
  BY <1>1 DEF Frame, FlashAssumption
<1>3. Chunk(frame[c]) \in 0 .. Page /\ Chunk(frame[c]) <= Len(frame[c].buf)
      /\ Chunk(frame[c]) <= frame[c].empty
  BY <1>2 DEF Chunk
<1>4. /\ a % Page \in 0 .. Page - 1
      /\ \A i \in Nat : (a % Page) + i < Page => (a + i) % Page = (a % Page) + i
  BY <1>2, PageFacts
<1>5. ASSUME NEW i \in 1 .. Chunk(frame[c])
      PROVE  /\ (a + i - 1) % Page = (a % Page) + i - 1
             /\ (a % Page) + i - 1 \in 0 .. Page - 1
             /\ a - (a % Page) + ((a + i - 1) % Page) = a + i - 1
  <2>1. frame[c].buf # <<>> BY <1>1, <1>2, <1>3, <1>5 DEF Frame
  <2>2. frame[c].empty = Page - (a % Page) BY <2>1 DEF RInv, WriteAt
  <2>3. i - 1 \in Nat /\ (a % Page) + (i - 1) < Page BY <1>2, <1>3, <1>4, <2>2
  <2>4. (a + (i - 1)) % Page = (a % Page) + (i - 1) BY <1>4, <2>3
  <2>5. a + (i - 1) = a + i - 1 /\ (a % Page) + (i - 1) = (a % Page) + i - 1 BY <1>2, <1>4
  <2>6. (a + i - 1) % Page = (a % Page) + i - 1 BY <2>4, <2>5
  <2>7. (a % Page) + i - 1 \in 0 .. Page - 1 BY <1>2, <1>4, <2>3
  <2>8. \A r, x \in Int : x = r + i - 1 => a - r + x = a + i - 1 BY <1>2
  <2>9. a - (a % Page) + ((a + i - 1) % Page) = a + i - 1 BY <1>4, <2>6, <2>7, <2>8
  <2> QED BY <2>6, <2>7, <2>9
<1> QED BY <1>3, <1>5

LEMMA DataByteRInv ==
  ASSUME RInv, FlashAssumption, NEW c \in Contexts, DataByte(c)
  PROVE  RInv'
<1>1. IInv' BY RamIInv DEF RInv
<1>2. frame[c] \in Frame /\ chip \in ChipType /\ Page \in Nat \ {0}
  BY Types DEF RInv, FlashAssumption
<1>3. Running = c BY RunsIsRunning DEF RInv, IInv, DataByte, At
<1> DEFINE s == frame[c].sent + 1
           f == [frame[c] EXCEPT !.sent = s]
<1>4. /\ Runs(c) /\ frame[c].pc = "data" /\ call[c].kind = "write"
      /\ frame[c].sent \in Nat /\ frame[c].sent < Chunk(frame[c])
      /\ frame' = [frame EXCEPT ![c] = f]
      /\ UNCHANGED <<call, mem, inIsr>>
  BY <1>2 DEF DataByte, At, Frame
<1>5. /\ Chunk(frame[c]) \in 0 .. Page /\ Chunk(frame[c]) <= Len(frame[c].buf)
      /\ \A i \in 1 .. Chunk(frame[c]) :
           /\ (frame[c].adr + i - 1) % Page = (frame[c].adr % Page) + i - 1
           /\ (frame[c].adr % Page) + i - 1 \in 0 .. Page - 1
  BY <1>4, Offsets
<1>6. s \in 1 .. Chunk(frame[c]) /\ s \in 0 .. Page BY <1>2, <1>4, <1>5
<1>7. f \in Frame BY <1>2, <1>6 DEF Frame
<1>8. /\ f.pc = "data" /\ f.sent = s
      /\ f.adr = frame[c].adr /\ f.buf = frame[c].buf /\ f.empty = frame[c].empty
  BY <1>2, <1>4 DEF Frame
<1>9. chip' = [chip EXCEPT !.latch[(frame[c].adr + s - 1) % Page] = frame[c].buf[s]]
  <2>1. frame[c].adr + frame[c].sent = frame[c].adr + s - 1 BY <1>2, <1>4 DEF Frame
  <2> QED BY <2>1 DEF DataByte
<1> HIDE DEF f, s
<1>10. /\ frame'[c] = f /\ call' = [call EXCEPT ![c] = call[c]]
       /\ WriteAt(c)' /\ EraseAt(c)' /\ CallAt(c)'
  BY <1>4, <1>7, <1>8, SameCall DEF RamPCs
<1>11. /\ chip'.base = chip.base /\ chip'.wel = chip.wel
       /\ \A o \in 0 .. Page - 1 : chip'.latch[o] =
            IF o = (frame[c].adr + s - 1) % Page THEN frame[c].buf[s] ELSE chip.latch[o]
  BY <1>2, <1>5, <1>6, <1>9 DEF ChipType
<1>12. Latched(c) /\ chip.wel BY <1>3, <1>4 DEF RInv, Told
<1>13. frame[c].adr % Page \in Nat /\ s = frame[c].sent + 1
  <2>1. frame[c].adr \in Nat BY <1>2 DEF Frame
  <2>2. frame[c].adr % Page \in 0 .. Page - 1 BY <1>2, <2>1, PageFacts
  <2> QED BY <1>2, <2>2 DEF s
<1>14. \A i \in 1 .. s :
         chip'.latch[(frame[c].adr + i - 1) % Page] = frame[c].buf[i]
  <2> TAKE i \in 1 .. s
  <2>1. CASE i = s BY <1>5, <1>6, <1>11, <2>1
  <2>2. CASE i # s
    <3>1. i \in 1 .. frame[c].sent /\ i \in 1 .. Chunk(frame[c])
      BY <1>4, <1>5, <1>6, <1>13, <2>2
    <3>2. (frame[c].adr + i - 1) % Page # (frame[c].adr + s - 1) % Page
      BY <1>5, <1>6, <1>13, <2>2, <3>1
    <3> QED BY <1>5, <1>11, <1>12, <3>1, <3>2 DEF Latched
  <2> QED BY <2>1, <2>2
<1>15. \A o \in 0 .. Page - 1 : chip'.latch[o] = Bits
         \/ \E i \in 1 .. s : o = (frame[c].adr + i - 1) % Page
  <2> SUFFICES ASSUME NEW o \in 0 .. Page - 1, o # (frame[c].adr + s - 1) % Page
               PROVE  chip'.latch[o] = Bits
                        \/ \E i \in 1 .. s : o = (frame[c].adr + i - 1) % Page
    BY <1>6
  <2>1. 1 .. frame[c].sent \subseteq 1 .. s BY <1>4, <1>13
  <2> QED BY <1>11, <1>12, <2>1 DEF Latched
<1>16. Latched(c)' BY <1>8, <1>10, <1>11, <1>12, <1>14, <1>15 DEF Latched
<1>17. Chunk(f) = Chunk(frame[c]) BY <1>8 DEF Chunk
<1>18. s <= Chunk(f) BY <1>6, <1>17
<1>19. Told(c)' BY <1>4, <1>8, <1>10, <1>11, <1>12, <1>16, <1>18 DEF Told, Chunk
<1> QED BY <1>1, <1>4, <1>10, <1>19, DriverRInv

LEMMA ExecuteRInv ==
  ASSUME RInv, FlashAssumption, NEW c \in Contexts, Execute(c)
  PROVE  RInv'
<1>1. IInv' BY RamIInv DEF RInv
<1>2. frame[c] \in Frame /\ chip \in ChipType /\ call[c] \in CallType BY Types DEF RInv
<1>3. Running = c BY RunsIsRunning DEF RInv, IInv, Execute, At
<1> DEFINE f == [frame[c] EXCEPT !.pc = "poll"]
<1>4. f \in Frame BY <1>2 DEF Frame, RamPCs
<1>5. /\ f.pc = "poll" /\ f.sent = frame[c].sent
      /\ f.adr = frame[c].adr /\ f.buf = frame[c].buf /\ f.empty = frame[c].empty
  BY <1>2 DEF Frame
<1>6. /\ frame' = [frame EXCEPT ![c] = f] /\ UNCHANGED <<call, mem, inIsr>> /\ Runs(c)
      /\ frame[c].pc = "data" /\ call[c].kind # "read"
      /\ call[c].kind = "write" => frame[c].sent = Chunk(frame[c])
  BY Types DEF Execute, Goto, At, RInv
<1> HIDE DEF f
<1>7. /\ frame'[c] = f /\ call' = [call EXCEPT ![c] = call[c]]
      /\ WriteAt(c)' /\ EraseAt(c)' /\ CallAt(c)'
  BY <1>4, <1>5, <1>6, SameCall DEF RamPCs
<1>8. call[c].kind \in {"write", "erase"} BY <1>2, <1>6 DEF RInv, CallAt, CallType
<1>9. chip.sel = call[c].kind /\ chip.wel BY <1>3, <1>6 DEF RInv, IInv, ChipAt, Told
<1>10. Deselect(chip) = [chip EXCEPT !.sel = "none", !.wel = FALSE, !.busy = call[c].kind]
  BY <1>8, <1>9 DEF Deselect
<1>11. chip' = [Deselect(chip) EXCEPT !.sel = "status"] BY DEF Execute, SendCmd
<1>12. chip'.busy = call[c].kind /\ chip'.base = chip.base /\ chip'.latch = chip.latch
  BY <1>2, <1>10, <1>11 DEF ChipType
<1>13. /\ call[c].kind = "write" => Latched(c)
       /\ call[c].kind = "erase" => chip.base = frame[c].adr - (frame[c].adr % Sector)
  BY <1>3, <1>6 DEF RInv, Told
<1>14. call[c].kind = "write" => Latched(c)' BY <1>5, <1>7, <1>12, <1>13 DEF Latched
<1>15. Chunk(f) = Chunk(frame[c]) /\ (call[c].kind = "write" => Chunk(f) <= Chunk(f))
  <2>1. call[c].kind = "write" => Chunk(frame[c]) \in 0 .. Page BY Offsets
  <2> QED BY <1>5, <2>1 DEF Chunk, FlashAssumption
<1>16. Told(c)' BY <1>5, <1>6, <1>7, <1>8, <1>12, <1>13, <1>14, <1>15 DEF Told, Chunk
<1> QED BY <1>1, <1>6, <1>7, <1>16, DriverRInv


\* flash_wait_done has seen the chip ready: what it has been told is done.
LEMMA PolledRInv ==
  ASSUME RInv, FlashAssumption, NEW c \in Contexts, Polled(c)
  PROVE  RInv'
<1>1. IInv' BY FinishIInv DEF RInv
<1>2. frame[c] \in Frame /\ call[c] \in CallType /\ Page \in Nat \ {0}
  BY Types DEF RInv, FlashAssumption
<1>3. Running = c BY RunsIsRunning DEF RInv, IInv, Polled, At
<1> DEFINE g == frame[c]
           f == IF call[c].kind = "write"
                THEN [g EXCEPT !.pc = "ready", !.adr = NextAdr(g), !.empty = Page,
                               !.buf = SubSeq(g.buf, Chunk(g) + 1, Len(g.buf)),
                               !.sent = 0, !.r = FALSE]
                ELSE [g EXCEPT !.pc = "done", !.r = FALSE]
<1>4. /\ frame' = [frame EXCEPT ![c] = f] /\ call' = [call EXCEPT ![c] = call[c]]
      /\ UNCHANGED <<call, mem, inIsr>> /\ Runs(c) /\ g.pc = "poll" /\ chip.busy = "no"
  BY Types DEF Polled, At, Finish, RInv
<1>5. frame'[c] = f BY <1>4, Types DEF RInv
<1>6. call[c].kind \in {"write", "erase"} BY <1>2, <1>4 DEF RInv, CallAt, CallType
<1>7. CASE call[c].kind = "write"
  <2> DEFINE n == Chunk(g)
             m == DoneLen(c)
  <2>1. n \in Nat /\ n <= Len(g.buf) /\ Len(g.buf) \in Nat /\ g.adr \in Nat
    BY <1>2, <1>7, Offsets DEF Frame
  <2>2. /\ f.pc = "ready" /\ f.adr = g.adr + n /\ f.empty = Page /\ f.sent = 0
        /\ f.buf = SubSeq(g.buf, n + 1, Len(g.buf))
    BY <1>2, <1>7 DEF Frame, NextAdr
  <2>3. Len(f.buf) = Len(g.buf) - n /\ \A i \in 1 .. Len(f.buf) : f.buf[i] = g.buf[n + i]
    <3>1. g.buf \in Seq(SUBSET Bits) BY <1>2 DEF Frame
    <3>2. \A i \in n + 1 .. Len(g.buf) : g.buf[i] \in SUBSET Bits BY <2>1, <3>1
    <3> HIDE DEF n, g
    <3> DEFINE q == SubSeq(g.buf, n + 1, Len(g.buf))
    <3>3. Len(q) = Len(g.buf) - n /\ \A i \in 1 .. Len(q) : q[i] = g.buf[n + i]
      <4>1. /\ Len(q) = IF n + 1 <= Len(g.buf) THEN Len(g.buf) - (n + 1) + 1 ELSE 0
            /\ \A i \in 1 .. Len(g.buf) - (n + 1) + 1 : q[i] = g.buf[n + 1 + i - 1]
        BY <2>1, <3>2, SubSeqProperties
      <4>2. Len(q) = Len(g.buf) - n BY <2>1, <4>1
      <4>3. ASSUME NEW i \in 1 .. Len(q) PROVE q[i] = g.buf[n + i]
        <5>1. i \in 1 .. Len(g.buf) - (n + 1) + 1 /\ n + 1 + i - 1 = n + i BY <2>1, <4>2
        <5> QED BY <4>1, <5>1
      <4> QED BY <4>2, <4>3
    <3> QED BY <2>2, <3>3
  <2>4. /\ m \in 0 .. Len(call[c].buf) /\ Len(call[c].buf) \in Nat /\ call[c].adr \in Nat
        /\ Len(g.buf) = Len(call[c].buf) - m
        /\ \A i \in 1 .. Len(g.buf) : g.buf[i] = call[c].buf[m + i]
        /\ g.buf # <<>> => g.empty = Page - (g.adr % Page)
        /\ \A i \in 1 .. m : mem[call[c].adr + i - 1] \subseteq call[c].buf[i]
        /\ g.adr = call[c].adr + m
    BY <1>2, <1>7, <2>1 DEF RInv, WriteAt, Todo, DoneLen, CallType
  <2>5. \A i \in 1 .. n : mem[g.adr + i - 1] \subseteq g.buf[i]
    BY <1>3, <1>4, <1>7 DEF RInv, Told
  <2>6. f.buf # <<>> => f.empty = Page - (f.adr % Page)
    <3> SUFFICES ASSUME f.buf # <<>> PROVE f.adr % Page = 0
      BY <1>2, <2>2
    <3>1. Len(f.buf) # 0
      <4>1. f.buf \in Seq(SUBSET Bits)
        <5>1. \A i \in n + 1 .. Len(g.buf) : g.buf[i] \in SUBSET Bits BY <1>2, <2>1 DEF Frame
        <5> HIDE DEF f, n, g
        <5>2. SubSeq(g.buf, n + 1, Len(g.buf)) \in Seq(SUBSET Bits)
          BY <2>1, <5>1, SubSeqProperties
        <5> QED BY <2>2, <5>2
      <4> QED BY <4>1, EmptySeq
    <3>2. n = g.empty /\ g.buf # <<>>
      <4>1. n # Len(g.buf) /\ Len(g.buf) # 0 BY <2>1, <2>3, <3>1
      <4> QED BY <4>1, EmptySeq DEF Chunk
    <3>3. f.adr = g.adr + (Page - (g.adr % Page)) BY <2>2, <2>4, <3>2
    <3> QED BY <1>2, <2>1, <3>3, PageFacts
  <2> HIDE DEF f, n, m, g
  <2>7. DoneLen(c)' = m + n /\ \A i : Todo(c, i)' = call[c].buf[m + n + i]
    <3>1. DoneLen(c)' = f.adr - call[c].adr BY <1>4, <1>5 DEF DoneLen
    <3>2. DoneLen(c)' = m + n BY <2>1, <2>2, <2>4, <3>1
    <3>3. \A i : Todo(c, i)' = call'[c].buf[DoneLen(c)' + i] BY DEF Todo
    <3> QED BY <1>4, <3>2, <3>3
  <2>8. \A i \in 1 .. m + n : mem[call[c].adr + i - 1] \subseteq call[c].buf[i]
    <3> TAKE i \in 1 .. m + n
    <3>1. CASE i <= m
      <4>1. i \in 1 .. m BY <2>1, <2>4, <3>1
      <4> QED BY <2>4, <4>1
    <3>2. CASE ~(i <= m)
      <4>1. PICK j \in 1 .. n : i = m + j
        <5>1. i - m \in 1 .. n /\ i = m + (i - m) BY <2>1, <2>4, <3>2
        <5> QED BY <5>1
      <4>2. g.adr + j - 1 = call[c].adr + i - 1 BY <2>1, <2>4, <4>1
      <4>3. g.buf[j] = call[c].buf[i] BY <2>1, <2>4, <4>1
      <4> QED BY <2>5, <4>1, <4>2, <4>3
    <3> QED BY <3>1, <3>2
  <2>9. \A i \in 1 .. Len(f.buf) : f.buf[i] = call[c].buf[m + n + i]
    <3> TAKE i \in 1 .. Len(f.buf)
    <3>1. n + i \in 1 .. Len(g.buf) /\ m + (n + i) = m + n + i BY <2>1, <2>3, <2>4
    <3> QED BY <2>3, <2>4, <3>1
  <2>10. m + n \in 0 .. Len(call[c].buf) /\ Len(f.buf) = Len(call[c].buf) - (m + n)
    BY <2>1, <2>3, <2>4
  <2>11. \A i \in 1 .. Len(call[c].buf) : call[c].adr + i - 1 \in Owned(c)
    BY <1>7 DEF RInv, WriteAt
  <2>12. WriteAt(c)'
    BY <1>4, <1>5, <2>2, <2>6, <2>7, <2>8, <2>9, <2>10, <2>11 DEF WriteAt, Owned
  <2>13. EraseAt(c)' BY <1>4, <1>7 DEF EraseAt
  <2>14. CallAt(c)' BY <1>4, <1>5, <1>7, <2>2 DEF CallAt, NoCall
  <2>15. Told(c)' BY <1>5, <2>2, ToldNothing DEF Told
  <2> QED BY <1>1, <1>4, <2>12, <2>13, <2>14, <2>15, DriverRInv
<1>8. CASE call[c].kind = "erase"
  <2>1. f.pc = "done" /\ f.adr = g.adr BY <1>2, <1>8 DEF Frame
  <2> HIDE DEF f
  <2>2. WriteAt(c)' BY <1>4, <1>8 DEF WriteAt
  <2>3. g.adr = call[c].adr /\ call[c].adr \in Owned(c) BY <1>8 DEF RInv, EraseAt
  <2>4. \A a \in InSector(g.adr) : mem[a] = Bits BY <1>3, <1>4, <1>8 DEF RInv, Told
  <2>5. EraseAt(c)' BY <1>4, <1>5, <2>1, <2>3, <2>4 DEF EraseAt, Owned
  <2>6. CallAt(c)' BY <1>4, <1>5, <1>8, <2>1 DEF CallAt, NoCall
  <2>7. Told(c)' BY <1>5, <2>1 DEF Told
  <2> QED BY <1>1, <1>4, <2>2, <2>5, <2>6, <2>7, DriverRInv
<1> QED BY <1>6, <1>7, <1>8

LEMMA ReadDoneRInv ==
  ASSUME RInv, FlashAssumption, NEW c \in Contexts, ReadDone(c)
  PROVE  RInv'
<1>1. IInv' BY FinishIInv DEF RInv
<1> DEFINE f == [frame[c] EXCEPT !.pc = "done", !.r = FALSE]
<1>2. /\ frame' = [frame EXCEPT ![c] = f] /\ call' = [call EXCEPT ![c] = call[c]]
      /\ UNCHANGED <<call, mem, inIsr>> /\ Runs(c) /\ call[c].kind = "read"
  BY Types DEF ReadDone, At, Finish, RInv
<1>3. frame'[c] = f /\ f.pc = "done" BY <1>2, Types DEF RInv, Frame
<1> HIDE DEF f
<1>4. WriteAt(c)' /\ EraseAt(c)' BY <1>2 DEF WriteAt, EraseAt
<1>5. CallAt(c)' BY <1>2, <1>3 DEF CallAt, NoCall
<1>6. Told(c)' BY <1>3 DEF Told
<1> QED BY <1>1, <1>2, <1>4, <1>5, <1>6, DriverRInv

\* A call that returns has done all of it.
LEMMA ReturnRInv ==
  ASSUME RInv, FlashAssumption, NEW c \in Contexts, Return(c)
  PROVE  RInv' /\ Nor!Return(c)
<1>1. IInv' BY ReturnIInv DEF RInv
<1>2. /\ frame' = [frame EXCEPT ![c] = Idle] /\ call' = [call EXCEPT ![c] = NoCall]
      /\ UNCHANGED <<mem, inIsr>> /\ Runs(c)
  BY DEF Return, At
<1>3. frame'[c] = Idle /\ call'[c] = NoCall BY <1>2, Types DEF RInv
<1>4. Idle.pc = "idle" /\ NoCall.kind = "none" BY DEF Idle, NoCall
<1>5. WriteAt(c)' /\ EraseAt(c)' /\ CallAt(c)' /\ Told(c)'
  BY <1>3, <1>4 DEF WriteAt, EraseAt, CallAt, Told
<1>6. RInv' BY <1>1, <1>2, <1>5, DriverRInv
<1>7. call[c] # NoCall BY DEF Return, At, RInv, CallAt
<1>8. ASSUME call[c].kind = "write", NEW a \in Nor!Range(call[c])
      PROVE  mem[a] \subseteq Nor!Byte(call[c], a)
  <2>1. frame[c].buf = <<>> BY <1>8 DEF Return, At, RInv, WriteAt
  <2>2. call[c].adr \in Nat /\ Len(call[c].buf) \in Nat /\ frame[c].adr \in Nat
    BY Types DEF RInv, CallType, Frame
  <2>3. Len(frame[c].buf) = 0 BY <2>1, EmptySeq
  <2>4. DoneLen(c) = Len(call[c].buf) /\ DoneLen(c) \in Nat
    BY <1>8, <2>2, <2>3 DEF RInv, WriteAt, DoneLen
  <2>5. a - call[c].adr + 1 \in 1 .. DoneLen(c) /\ call[c].adr + (a - call[c].adr + 1) - 1 = a
    BY <1>8, <2>2, <2>4 DEF Nor!Range
  <2> QED BY <1>8, <2>5 DEF RInv, WriteAt, Nor!Byte
<1>9. ASSUME call[c].kind = "erase", NEW a \in Nor!InSector(call[c].adr) PROVE mem[a] = Bits
  <2>1. frame[c].pc = "done" BY <1>9 DEF Return, At
  <2> QED BY <1>9, <2>1 DEF RInv, EraseAt, Nor!InSector, InSector, Adr
<1>10. Nor!Return(c) BY <1>2, <1>7, <1>8, <1>9 DEF Nor!Return, Nor!NoCall, NoCall
<1> QED BY <1>6, <1>10


-----------------------------------------------------------------------------
(* The steps of the chip, of the interrupt and of the power supply.         *)

\* A busy chip executes what the running context has told it.
LEMMA BusyChip ==
  ASSUME RInv, chip.busy # "no", NEW c, c = Running
  PROVE  /\ frame[c].pc = "poll" /\ call[c].kind = chip.busy
         /\ c \in Contexts /\ chip.busy \in {"write", "erase"}
<1>1. frame[c] \in Frame /\ chip \in ChipType /\ c \in Contexts
  BY Types DEF RInv
<1>2. frame[c].pc = "poll"
  BY <1>1 DEF RInv, IInv, ChipAt, Frame, FlashPCs, RamPCs
<1> QED BY <1>1, <1>2 DEF RInv, Told, ChipType

\* The byte of the page at offset o is one of the data, or it is not changed.
LEMMA PageByte ==
  ASSUME RInv, FlashAssumption, chip.busy = "write", NEW c, c = Running,
         NEW o \in 0 .. Page - 1, chip.latch[o] # Bits
  PROVE  \E i \in 1 .. Len(frame[c].buf) :
           chip.base + o = frame[c].adr + i - 1 /\ chip.latch[o] = frame[c].buf[i]
<1>1. c \in Contexts /\ frame[c].pc = "poll" /\ call[c].kind = "write" BY BusyChip
<1>2. Latched(c) /\ frame[c].sent = Chunk(frame[c]) BY <1>1 DEF RInv, Told
<1>3. PICK i \in 1 .. frame[c].sent : o = (frame[c].adr + i - 1) % Page
  BY <1>2 DEF Latched
<1>4. /\ Chunk(frame[c]) \in Nat /\ Chunk(frame[c]) <= Len(frame[c].buf)
      /\ \A j \in 1 .. Chunk(frame[c]) :
           frame[c].adr - (frame[c].adr % Page) + ((frame[c].adr + j - 1) % Page)
             = frame[c].adr + j - 1
  BY <1>1, Offsets
<1>5. Len(frame[c].buf) \in Nat BY <1>1, Types DEF RInv, Frame
<1>6. i \in 1 .. Len(frame[c].buf) BY <1>2, <1>3, <1>4, <1>5
<1>7. chip.base + o = frame[c].adr + i - 1 BY <1>2, <1>3, <1>4 DEF Latched
<1>8. chip.latch[o] = frame[c].buf[i] BY <1>2, <1>3 DEF Latched
<1> QED BY <1>6, <1>7, <1>8

\* That byte is one of the call's, in a sector its caller owns.
LEMMA CallByte ==
  ASSUME RInv, NEW c \in Contexts, call[c].kind = "write",
         NEW i \in 1 .. Len(frame[c].buf)
  PROVE  /\ frame[c].adr + i - 1 \in Nor!Range(call[c])
         /\ frame[c].buf[i] = Nor!Byte(call[c], frame[c].adr + i - 1)
         /\ frame[c].adr + i - 1 \in Owned(c)
<1>1. /\ frame[c].adr \in Nat /\ call[c].adr \in Nat
      /\ Len(frame[c].buf) \in Nat /\ Len(call[c].buf) \in Nat
  BY Types DEF RInv, Frame, CallType
<1>2. /\ DoneLen(c) \in 0 .. Len(call[c].buf)
      /\ Len(frame[c].buf) = Len(call[c].buf) - DoneLen(c)
      /\ frame[c].buf[i] = call[c].buf[DoneLen(c) + i]
      /\ \A k \in 1 .. Len(call[c].buf) : call[c].adr + k - 1 \in Owned(c)
  BY DEF RInv, WriteAt, Todo
<1>3. frame[c].adr = call[c].adr + DoneLen(c) BY <1>1 DEF DoneLen
<1>4. PICK j \in Nat : j = DoneLen(c) + i BY <1>1, <1>2
<1>5. j \in 1 .. Len(call[c].buf) BY <1>1, <1>2, <1>4
<1>6. frame[c].adr + i - 1 = call[c].adr + j - 1
  <2>1. \A x, d, k \in Int : (x + d) + k - 1 = x + (d + k) - 1 OBVIOUS
  <2>2. i \in Int /\ DoneLen(c) \in Int BY <1>1, <1>2
  <2>3. (call[c].adr + DoneLen(c)) + i - 1 = call[c].adr + (DoneLen(c) + i) - 1
    BY <1>1, <2>1, <2>2
  <2> QED BY <1>3, <1>4, <2>3
<1>7. (frame[c].adr + i - 1) - call[c].adr + 1 = j BY <1>1, <1>2, <1>3, <1>4
<1>8. call[c].adr + j - 1 \in call[c].adr .. call[c].adr + Len(call[c].buf) - 1
  BY <1>1, <1>5
<1>9. frame[c].adr + i - 1 \in Nor!Range(call[c]) BY <1>6, <1>8 DEF Nor!Range
<1>10. frame[c].buf[i] = Nor!Byte(call[c], frame[c].adr + i - 1)
  <2>1. Nor!Byte(call[c], frame[c].adr + i - 1)
          = call[c].buf[(frame[c].adr + i - 1) - call[c].adr + 1]
    BY DEF Nor!Byte
  <2>2. frame[c].buf[i] = call[c].buf[j] BY <1>2, <1>4, Zenon
  <2> QED BY <1>7, <2>1, <2>2, Zenon
<1>11. frame[c].adr + i - 1 \in Owned(c) BY <1>2, <1>5, <1>6
<1> QED BY <1>9, <1>10, <1>11

\* The running call changes bytes of its caller.
LEMMA MemRInv ==
  ASSUME RInv, FlashAssumption, IInv', NEW c \in Contexts, c = Running,
         UNCHANGED <<inIsr, frame, call>>,
         \A a \in Adr \ Owned(c) : mem'[a] = mem[a],
         WriteAt(c)', EraseAt(c)', Told(c)'
  PROVE  RInv'
<1>1. Running' = c BY DEF Running
<1>2. ASSUME NEW d \in Contexts, d # c PROVE WriteAt(d)' /\ EraseAt(d)' /\ CallAt(d)'
  <2>1. \A a \in Owned(d) : a \in Adr \ Owned(c) BY <1>2, Ownership
  <2> QED BY <2>1, OtherKept DEF RInv
<1>3. CallAt(c)' BY DEF RInv, CallAt
<1> QED BY <1>1, <1>2, <1>3 DEF RInv

LEMMA ClearsRInv ==
  ASSUME RInv, FlashAssumption, IInv', ChipClears, NEW c, c = Running
  PROVE  RInv' /\ (Nor!Write(c) \/ UNCHANGED <<mem, call>>)
<1>1. /\ c \in Contexts /\ frame[c].pc = "poll" /\ call[c].kind = "write"
      /\ chip.busy = "write" /\ UNCHANGED <<irq, masked, inIsr, frame, call, chip>>
  BY BusyChip DEF ChipClears, Works
<1>2. PICK o \in 0 .. Page - 1 : \E b \in mem[chip.base + o] \ chip.latch[o] :
        mem' = [mem EXCEPT ![chip.base + o] = @ \ {b}]
  BY DEF ChipClears
<1>3. PICK b \in mem[chip.base + o] \ chip.latch[o] :
        mem' = [mem EXCEPT ![chip.base + o] = @ \ {b}]
  BY <1>2
<1>4. mem \in [Adr -> SUBSET Bits] BY Types DEF RInv
<1>5. PICK a : a = chip.base + o OBVIOUS
<1>6. EraseAt(c)' BY <1>1 DEF EraseAt
<1>7. Told(c)' BY <1>1 DEF RInv, Told, Latched, Chunk
<1>8. WriteAt(c) BY <1>1 DEF RInv
\* Beyond the end of the memory nothing happens.
<1>9. CASE a \notin Adr
  <2>1. mem' = mem BY <1>3, <1>4, <1>5, <1>9
  <2>2. WriteAt(c)' BY <1>1, <1>8, <2>1 DEF WriteAt, DoneLen, Todo, Owned
  <2> QED BY <1>1, <1>6, <1>7, <2>1, <2>2, MemRInv
<1>10. CASE a \in Adr
  <2>1. chip.latch[o] # Bits BY <1>3, <1>4, <1>5, <1>10
  <2>2. PICK i \in 1 .. Len(frame[c].buf) :
          chip.base + o = frame[c].adr + i - 1 /\ chip.latch[o] = frame[c].buf[i]
    BY <1>1, <2>1, PageByte
  <2>3. /\ a \in Nor!Range(call[c]) /\ chip.latch[o] = Nor!Byte(call[c], a)
        /\ a \in Owned(c)
    BY <1>1, <1>5, <2>2, CallByte
  <2>4. mem' = [mem EXCEPT ![a] = mem[a] \ {b}] BY <1>3, <1>4, <1>5, <1>10
  <2>5. /\ \A x \in Adr \ Owned(c) : mem'[x] = mem[x]
        /\ \A x \in Adr : mem'[x] \subseteq mem[x]
    BY <1>4, <1>10, <2>3, <2>4
  <2>6. Nor!Write(c)
    <3>1. mem[a] \ {b} \in SUBSET mem[a] /\ mem[a] \cap Nor!Byte(call[c], a) \subseteq mem[a] \ {b}
      BY <1>3, <1>5, <2>3
    <3> QED BY <1>1, <2>3, <2>4, <3>1 DEF Nor!Write
  <2>7. WriteAt(c)'
    <3>1. DoneLen(c)' = DoneLen(c) /\ \A k : Todo(c, k)' = Todo(c, k)
      BY <1>1 DEF DoneLen, Todo
    <3>2. /\ DoneLen(c) \in 0 .. Len(call[c].buf) /\ Len(call[c].buf) \in Nat
          /\ \A k \in 1 .. Len(call[c].buf) : call[c].adr + k - 1 \in Adr
      BY <1>1, <1>8, Ownership, Types DEF WriteAt, RInv, CallType
    <3>3. \A k \in 1 .. DoneLen(c) : mem'[call[c].adr + k - 1] \subseteq call[c].buf[k]
      <4> TAKE k \in 1 .. DoneLen(c)
      <4>1. k \in 1 .. Len(call[c].buf) BY <3>2
      <4>2. mem[call[c].adr + k - 1] \subseteq call[c].buf[k] BY <1>1, <1>8 DEF WriteAt
      <4> QED BY <2>5, <3>2, <4>1, <4>2
    <3> QED BY <1>1, <1>8, <3>1, <3>3 DEF WriteAt, Owned
  <2> QED BY <1>1, <1>6, <1>7, <2>5, <2>6, <2>7, MemRInv
<1> QED BY <1>9, <1>10

LEMMA WrittenRInv ==
  ASSUME RInv, FlashAssumption, IInv', ChipWritten, NEW c, c = Running
  PROVE  RInv' /\ UNCHANGED <<mem, call>>
<1>1. /\ c \in Contexts /\ frame[c].pc = "poll" /\ call[c].kind = "write"
      /\ chip.busy = "write" /\ UNCHANGED <<irq, masked, inIsr, frame, call, mem>>
      /\ \A o \in 0 .. Page - 1 : mem[chip.base + o] \subseteq chip.latch[o]
  BY BusyChip DEF ChipWritten, Ready
<1>2. chip'.busy = "no" BY Types DEF ChipWritten, Ready, RInv, ChipType
<1>3. Latched(c) /\ frame[c].sent = Chunk(frame[c]) BY <1>1 DEF RInv, Told
<1>4. \A i \in 1 .. frame[c].sent : mem[frame[c].adr + i - 1] \subseteq frame[c].buf[i]
  <2> TAKE i \in 1 .. frame[c].sent
  <2>1. PICK o \in 0 .. Page - 1 : o = (frame[c].adr + i - 1) % Page
                                   /\ chip.base + o = frame[c].adr + i - 1
    BY <1>1, <1>3, Offsets DEF Latched
  <2> QED BY <1>1, <1>3, <2>1 DEF Latched
<1>5. Told(c)'
  <2>1. Chunk(frame[c]) \in Nat /\ Chunk(frame[c])' = Chunk(frame[c])
    BY <1>1, Offsets DEF Chunk
  <2> QED BY <1>1, <1>2, <1>3, <1>4, <2>1 DEF Told
<1>6. WriteAt(c)' /\ EraseAt(c)' BY <1>1, OtherKept DEF RInv
<1> QED BY <1>1, <1>5, <1>6, MemRInv

\* The sector in the chip is the call's.
LEMMA SectorOf ==
  ASSUME RInv, FlashAssumption, chip.busy = "erase", NEW c, c = Running
  PROVE  /\ InSector(chip.base) = InSector(call[c].adr)
         /\ InSector(call[c].adr) \subseteq Owned(c) /\ frame[c].adr = call[c].adr
<1>1. c \in Contexts /\ frame[c].pc = "poll" /\ call[c].kind = "erase" BY BusyChip
<1>2. frame[c].adr = call[c].adr /\ call[c].adr \in Owned(c) BY <1>1 DEF RInv, EraseAt
<1>3. chip.base = frame[c].adr - (frame[c].adr % Sector) BY <1>1 DEF RInv, Told
<1>4. frame[c].adr \in Nat /\ Sector \in Nat \ {0}
  BY <1>1, Types DEF RInv, Frame, FlashAssumption
<1>5. chip.base \div Sector = call[c].adr \div Sector BY <1>2, <1>3, <1>4, PageFacts
<1> QED BY <1>1, <1>2, <1>5, Ownership DEF InSector

LEMMA ErasesRInv ==
  ASSUME RInv, FlashAssumption, IInv', ChipErases \/ ChipErased, NEW c, c = Running
  PROVE  RInv' /\ Nor!Erase(c)
<1>1. chip.busy = "erase" /\ UNCHANGED <<irq, masked, inIsr, frame, call>>
  BY DEF ChipErases, ChipErased, Works, Ready
<1>2. c \in Contexts /\ frame[c].pc = "poll" /\ call[c].kind = "erase" BY <1>1, BusyChip
<1>3. /\ InSector(chip.base) = InSector(call[c].adr)
      /\ InSector(call[c].adr) \subseteq Owned(c) /\ frame[c].adr = call[c].adr
  BY <1>1, SectorOf
<1>4. mem \in [Adr -> SUBSET Bits] BY Types DEF RInv
<1>5. /\ mem' \in [Adr -> SUBSET Bits]
      /\ \A a \in Adr \ InSector(call[c].adr) : mem'[a] = mem[a]
  BY <1>3, <1>4 DEF ChipErases, ChipErased
<1>6. Nor!Erase(c)
  <2>1. Adr = 0 .. Size - 1 /\ Nor!InSector(call[c].adr) = InSector(call[c].adr)
    BY DEF Adr, Nor!InSector, InSector
  <2> QED BY <1>1, <1>2, <1>5, <2>1 DEF Nor!Erase
<1>7. WriteAt(c)' BY <1>1, <1>2 DEF WriteAt
<1>8. EraseAt(c)' BY <1>1, <1>2 DEF RInv, EraseAt, Owned
<1>9. Told(c)'
  <2>1. CASE ChipErases
    <3>1. chip' = chip BY <2>1 DEF ChipErases, Works
    <3> QED BY <1>1, <1>2, <3>1 DEF RInv, Told
  <2>2. CASE ChipErased
    <3>1. chip'.busy = "no" BY <2>2, Types DEF ChipErased, Ready, RInv, ChipType
    <3>2. \A a \in InSector(frame[c].adr) : mem'[a] = Bits
      BY <1>3, <2>2 DEF ChipErased, InSector
    <3> QED BY <1>1, <1>2, <3>1, <3>2 DEF Told, InSector
  <2> QED BY <2>1, <2>2
<1>10. \A a \in Adr \ Owned(c) : mem'[a] = mem[a] BY <1>3, <1>5
<1> QED BY <1>1, <1>2, <1>6, <1>7, <1>8, <1>9, <1>10, MemRInv


\* Where a context executes from flash, nothing is asked of the chip.
LEMMA QuietRInv ==
  ASSUME RInv, FlashAssumption, IInv', UNCHANGED <<frame, call, mem>>,
         frame[Running'].pc \in FlashPCs
  PROVE  RInv'
<1>1. \A d \in Contexts : WriteAt(d)' /\ EraseAt(d)' /\ CallAt(d)' BY OtherKept DEF RInv
<1>2. Told(Running)' BY DEF Told, FlashPCs
<1> QED BY <1>1, <1>2 DEF RInv

LEMMA NextRInv ==
  ASSUME RInv, FlashAssumption, [Next]_vars
  PROVE  RInv' /\ [Nor!NorNext]_(Nor!norVars)
<1>1. IInv' BY NextIInv DEF RInv
<1>2. ASSUME NEW c \in Contexts, Driver(c) PROVE RInv' /\ [Nor!NorNext]_(Nor!norVars)
  <2>1. CASE CallWrite(c) \/ CallErase(c) \/ CallRead(c)
    BY <2>1, CallRInv DEF Nor!NorNext
  <2>2. CASE Return(c) BY <2>2, ReturnRInv DEF Nor!NorNext
  <2>3. CASE Disable(c) \/ WriteEnable(c) \/ Command(c) \/ DataByte(c) \/ Execute(c)
             \/ Polled(c) \/ ReadDone(c)
    <3>1. RInv'
      BY <2>3, StartRInv, CommandRInv, DataByteRInv, ExecuteRInv, PolledRInv, ReadDoneRInv
    <3>2. UNCHANGED <<mem, call>>
      BY <2>3 DEF Disable, WriteEnable, Command, DataByte, Execute, Polled, ReadDone, Finish
    <3> QED BY <3>1, <3>2 DEF Nor!norVars
  <2> QED BY <1>2, <2>1, <2>2, <2>3 DEF Driver
<1>3. CASE Chip
  <2>1. PICK c : c = Running OBVIOUS
  <2>2. c \in Contexts BY <2>1 DEF Running, Contexts
  <2>3. CASE ChipClears BY <1>1, <2>1, <2>2, <2>3, ClearsRInv DEF Nor!NorNext, Nor!norVars
  <2>4. CASE ChipWritten BY <1>1, <2>1, <2>4, WrittenRInv DEF Nor!norVars
  <2>5. CASE ChipErases \/ ChipErased BY <1>1, <2>1, <2>2, <2>5, ErasesRInv DEF Nor!NorNext
  <2> QED BY <1>3, <2>3, <2>4, <2>5 DEF Chip
<1>4. CASE CallerIrq
  <2>1. UNCHANGED <<frame, call, mem>> /\ Running' = Running /\ frame[Running].pc = "idle"
    BY <1>4 DEF CallerIrq, At, Runs, Running
  <2> QED BY <1>1, <2>1, QuietRInv DEF Nor!norVars, FlashPCs
<1>5. CASE IrqEnter \/ IrqReturn
  <2>1. UNCHANGED <<frame, call, mem>> /\ frame[Running'].pc \in FlashPCs
    BY <1>5 DEF IrqEnter, IrqReturn, At, Runs, Running, RInv, IInv, Nesting, FlashPCs
  <2> QED BY <1>1, <2>1, QuietRInv DEF Nor!norVars
<1>6. CASE PowerLoss
  <2>1. /\ frame' = [c \in Contexts |-> Idle] /\ call' = [c \in Contexts |-> NoCall]
        /\ mem' = mem
    BY <1>6 DEF PowerLoss, Reset
  <2>2. Idle.pc = "idle" /\ NoCall.kind = "none" BY DEF Idle, NoCall
  <2>3. ASSUME NEW c \in Contexts PROVE WriteAt(c)' /\ EraseAt(c)' /\ CallAt(c)' /\ Told(c)'
    BY <2>1, <2>2 DEF WriteAt, EraseAt, CallAt, Told
  <2>4. Running' \in Contexts BY DEF Running, Contexts
  <2>5. RInv'
    <3>1. PICK c \in Contexts : c = Running' BY <2>4
    <3>2. Told(c)' BY <2>3
    <3>3. Told(Running)' BY <3>1, <3>2 DEF Told, Latched, Chunk, InSector
    <3> QED BY <1>1, <2>3, <3>3 DEF RInv
  <2>6. Nor!Crash BY <2>1 DEF Nor!Crash, Nor!NoCall, NoCall
  <2> QED BY <2>5, <2>6 DEF Nor!NorNext
<1>7. CASE UNCHANGED vars
  <2>1. UNCHANGED <<frame, call, mem, chip, inIsr>> BY <1>7 DEF vars
  <2>2. \A d \in Contexts : WriteAt(d)' /\ EraseAt(d)' /\ CallAt(d)'
    BY <2>1, OtherKept DEF RInv
  <2>3. Running' = Running BY <2>1 DEF Running
  <2>4. Told(Running)' BY <2>1, <2>3 DEF RInv, Told, Latched, Chunk, InSector
  <2> QED BY <1>1, <2>1, <2>2, <2>4 DEF RInv, Nor!norVars
<1> QED BY <1>2, <1>3, <1>4, <1>5, <1>6, <1>7 DEF Next

LEMMA InitRInv == FlashAssumption /\ Init => RInv /\ Nor!NorInit
<1> SUFFICES ASSUME FlashAssumption, Init PROVE RInv /\ Nor!NorInit
  OBVIOUS
<1>1. IInv BY InitIInv
<1>2. /\ frame = [c \in Contexts |-> Idle] /\ call = [c \in Contexts |-> NoCall]
      /\ mem = [a \in Adr |-> Bits]
  BY DEF Init
<1>3. Idle.pc = "idle" /\ NoCall.kind = "none" BY DEF Idle, NoCall
<1>4. \A c \in Contexts : WriteAt(c) /\ EraseAt(c) /\ CallAt(c) /\ Told(c)
  BY <1>2, <1>3 DEF WriteAt, EraseAt, CallAt, Told
<1>5. Running \in Contexts BY DEF Running, Contexts
<1>6. Nor!NorInit BY <1>2 DEF Nor!NorInit, Nor!NoCall, NoCall, Adr
<1> QED BY <1>1, <1>4, <1>5, <1>6 DEF RInv

\* The driver, its RAM code, the chip and the interrupt implement the memory of
\* bytes that their callers rely on: every step of theirs is a step of NorStore
\* or none, for any sizes, data and interleaving.
THEOREM RefinesNor == Spec => ImplementsNor
<1>1. Spec => []RInv BY FlashAssumption, InitRInv, NextRInv, PTL DEF Spec
<1>2. RInv /\ [Next]_vars => [Nor!NorNext]_(Nor!norVars) BY FlashAssumption, NextRInv
<1>3. Init => Nor!NorInit BY FlashAssumption, InitRInv
<1> QED BY <1>1, <1>2, <1>3, PTL DEF Spec, ImplementsNor, Nor!NorSpec
=============================================================================
