-------------------------------- MODULE Burn --------------------------------
(***************************************************************************)
(* The download tool make/Telink_Tools.py (burn, burn_triad) at one end of *)
(* a serial line and the boot loader of a module at the other.             *)
(*                                                                         *)
(* The tool sends one command at a time, throwing away what it has         *)
(* received before, and waits for an answer for a limited time.  Answers   *)
(* carry the number of the command but not the address, so that two        *)
(* answers to writes look alike.  Addresses are counted in packets of 256  *)
(* bytes; packet i of the image is the number i in flash.                  *)
(***************************************************************************)
EXTENDS Integers, Sequences, SequencesExt

CONSTANTS Boot,    \* packets of the boot loader's area, 0x0 - 0x4000
          App,     \* packets of 0x4000 - 0x2c000
          Tries    \* error_c of telink_flash_write: 3

ASSUME BurnAssumption == Boot \in Nat \ {0} /\ App \in Nat \ {0} /\ Tries \in Nat \ {0}

VARIABLES
  line,      \* what is wrong with the line: "lossy", "slow" or "both"
  job,       \* the operation: "burn" or "burn_triad"
  size,      \* packets of the image
  pc,        \* where the tool is
  firmware,  \* firmware_addr: the next packet of the image
  error_c,   \* tries left for it
  baud,      \* baud["tool"], baud["chip"]
  flash,     \* what is in the flash, by packet; the triad's sector is its end
  cmds,      \* commands on their way to the boot loader
  wire,      \* answers on their way to the tool
  input      \* answers the tool has received and not read

vars == <<line, job, size, pc, firmware, error_c, baud, flash, cmds, wire, input>>
setup == <<line, job, size>>

Triad == 2 * Boot + App
Adrs == 0 .. Triad
Limit == Boot + App                    \* 0x2c000
Packets == 0 .. Limit
Command == [kind : 0 .. 5, at : Adrs, packet : Packets]
\* What flash holds besides packets of the image.
Blank == -1
Old == -2
Loader == -3
Clash == -4                            \* one thing programmed over another
Slow == "115200"
Fast == "921600"
Waiting == {"connect", "baud", "version", "erasing", "writing"}
Ended == {"done", "failed", "broken"}
-----------------------------------------------------------------------------
\* tl_firmware_tools.py combine: what the whole flash of a module with packets
\* 0 .. size - 1 of an image holds.
Combined(a) ==
  CASE a < Boot -> Loader
    [] a \in Boot .. Limit - 1 -> IF a < size THEN a ELSE Blank
    [] OTHER -> IF a - Limit < size THEN a - Limit ELSE Blank

\* Seeded fault: the packet goes where the image has it.
PlaceAsIs(i) == IF job = "burn_triad" THEN Triad ELSE i

\* telink_flash_write: the first 0x4000 bytes of an image belong behind it.
Place(i) ==
  IF job = "burn_triad" THEN Triad ELSE IF i < Boot THEN i + Limit ELSE i

\* The sectors the tool erases: 44 from 0x4000, or the one at 0x78000.
Erased == IF job = "burn" THEN Boot .. Triad - 1 ELSE {Triad}

Init ==
  /\ line \in {"lossy", "slow", "both"}
  /\ job \in {"burn", "burn_triad"}
  /\ size \in IF job = "burn" THEN 1 .. Limit + 1 ELSE {1}
  /\ pc = "start" /\ firmware = 0 /\ error_c = Tries
  /\ baud = [e \in {"tool", "chip"} |-> Slow]
  /\ flash = [a \in Adrs |-> IF a < Boot THEN Loader ELSE Old]
  /\ cmds = <<>> /\ wire = <<>> /\ input = <<>>

\* uart_write: the command, after flushInput.  At another baud rate the boot
\* loader does not understand it.
Send(kind, at, packet) ==
  /\ input' = <<>>
  /\ cmds' = IF baud["tool"] = baud["chip"]
             THEN Append(cmds, [kind |-> kind, at |-> at, packet |-> packet])
             ELSE cmds

\* wait_result: an answer has come, or none within the time.  On a lossy line
\* the boot loader is fast: what has not come by then is lost.
Result(res, ok) ==
  /\ IF input # <<>> THEN ok = (res \in ToSet(input))
     ELSE ~ok /\ (line # "lossy" \/ (cmds = <<>> /\ wire = <<>>))

\* connect_chip: reset the chip, then ask for its version.
Connect(next) ==
  /\ baud' = [e \in {"tool", "chip"} |-> Slow]
  /\ input' = <<>>
  /\ cmds' = <<[kind |-> 0, at |-> 0, packet |-> 0]>>
  /\ pc' = next
  /\ UNCHANGED <<setup, firmware, error_c, flash, wire>>

Start == pc = "start" /\ Connect("connect")
Connected(ok) ==
  /\ pc = "connect" /\ Result(0, ok)
  /\ pc' = IF ~ok THEN "failed" ELSE IF job = "burn" THEN "change_baud" ELSE "erase"
  /\ UNCHANGED <<setup, firmware, error_c, baud, flash, cmds, wire, input>>

\* change_baud; when it is not answered, back to the old rate and a reset,
\* whose success is not looked at.
ChangeBaud ==
  /\ pc = "change_baud"
  /\ Send(5, 0, 0)
  /\ baud' = [baud EXCEPT !["tool"] = Fast]
  /\ pc' = "baud"
  /\ UNCHANGED <<setup, firmware, error_c, flash, wire>>
BaudChanged ==
  /\ pc = "baud" /\ Result(5, TRUE)
  /\ pc' = "erase"
  /\ UNCHANGED <<setup, firmware, error_c, baud, flash, cmds, wire, input>>
BaudFailed == pc = "baud" /\ Result(5, FALSE) /\ Connect("version")
Reconnected ==
  /\ pc = "version" /\ \E ok \in BOOLEAN : Result(0, ok)
  /\ pc' = "erase"
  /\ UNCHANGED <<setup, firmware, error_c, baud, flash, cmds, wire, input>>

\* telink_flash_erase: one try.  An image that is too big is closed after it,
\* and the next read of it raises an exception.
Erase ==
  /\ pc = "erase"
  /\ Send(3, 0, 0)
  /\ pc' = "erasing"
  /\ UNCHANGED <<setup, firmware, error_c, baud, flash, wire>>

EraseResult(ok) ==
  /\ pc = "erasing" /\ Result(3, ok)
  /\ pc' = IF ~ok THEN "failed" ELSE IF size > Limit THEN "broken" ELSE "write"
  /\ UNCHANGED <<setup, firmware, error_c, baud, flash, cmds, wire, input>>

\* telink_flash_write: up to three tries.
Write ==
  /\ pc = "write" /\ firmware < size
  /\ Send(1, Place(firmware), firmware)
  /\ pc' = "writing"
  /\ UNCHANGED <<setup, firmware, error_c, baud, flash, wire>>

Written ==
  /\ pc = "writing" /\ Result(1, TRUE)
  /\ pc' = "write" /\ firmware' = firmware + 1 /\ error_c' = Tries
  /\ UNCHANGED <<setup, baud, flash, cmds, wire, input>>

\* Seeded faults: the tries are not counted, one try too many, the packet is
\* skipped.
NotWrittenAgain ==
  /\ pc = "writing" /\ Result(1, FALSE)
  /\ pc' = "write"
  /\ UNCHANGED <<setup, firmware, error_c, baud, flash, cmds, wire, input>>
NotWrittenTwice ==
  /\ pc = "writing" /\ Result(1, FALSE)
  /\ error_c' = error_c - 1
  /\ pc' = IF error_c = 0 THEN "failed" ELSE "write"
  /\ UNCHANGED <<setup, firmware, baud, flash, cmds, wire, input>>
NotWrittenSkips ==
  /\ pc = "writing" /\ Result(1, FALSE)
  /\ pc' = "write" /\ firmware' = firmware + 1
  /\ UNCHANGED <<setup, error_c, baud, flash, cmds, wire, input>>

NotWritten ==
  /\ pc = "writing" /\ Result(1, FALSE)
  /\ error_c' = error_c - 1
  /\ pc' = IF error_c' = 0 THEN "failed" ELSE "write"
  /\ UNCHANGED <<setup, firmware, baud, flash, cmds, wire, input>>

Finish ==
  /\ pc = "write" /\ firmware = size
  /\ pc' = "done"
  /\ UNCHANGED <<setup, firmware, error_c, baud, flash, cmds, wire, input>>

Stop == pc \in Ended /\ UNCHANGED vars

Tool ==
  \/ Start \/ \E ok \in BOOLEAN : Connected(ok) \/ EraseResult(ok)
  \/ ChangeBaud \/ BaudChanged \/ BaudFailed \/ Reconnected
  \/ Erase \/ Write \/ Written \/ NotWritten \/ Finish
-----------------------------------------------------------------------------
\* Programming a packet (external): it needs erased flash, or itself.
Programmed(old, packet) ==
  IF old \in {Blank, packet} THEN packet ELSE Clash

\* The boot loader (external) executes the next command and answers with its
\* number.
Execute ==
  LET cmd == Head(cmds)
  IN  /\ cmds # <<>>
      /\ cmds' = Tail(cmds)
      /\ wire' = Append(wire, cmd.kind)
      /\ flash' = CASE cmd.kind = 1 -> [flash EXCEPT ![cmd.at] = Programmed(@, cmd.packet)]
                    [] cmd.kind = 3 -> [a \in Adrs |-> IF a \in Erased THEN Blank ELSE flash[a]]
                    [] OTHER -> flash
      /\ baud' = IF cmd.kind = 5 THEN [baud EXCEPT !["chip"] = Fast] ELSE baud
      /\ UNCHANGED <<setup, pc, firmware, error_c, input>>

Arrive ==
  /\ wire # <<>>
  /\ wire' = Tail(wire) /\ input' = Append(input, Head(wire))
  /\ UNCHANGED <<setup, pc, firmware, error_c, baud, flash, cmds>>

LoseCommand ==
  /\ line # "slow" /\ cmds # <<>>
  /\ cmds' = Tail(cmds)
  /\ UNCHANGED <<setup, pc, firmware, error_c, baud, flash, wire, input>>
LoseAnswer ==
  /\ line # "slow" /\ wire # <<>>
  /\ wire' = Tail(wire)
  /\ UNCHANGED <<setup, pc, firmware, error_c, baud, flash, cmds, input>>

Next == Tool \/ Execute \/ Arrive \/ LoseCommand \/ LoseAnswer \/ Stop

Spec == Init /\ [][Next]_vars
\* The tool does not stop in between, and the line and the boot loader work.
FairSpec == Spec /\ WF_vars(Tool) /\ WF_vars(Execute) /\ WF_vars(Arrive)
-----------------------------------------------------------------------------
\* The type of every variable.
TypeOK ==
  /\ line \in {"lossy", "slow", "both"} /\ job \in {"burn", "burn_triad"}
  /\ size \in 1 .. Limit + 1
  /\ pc \in {"start", "change_baud", "erase", "write"} \cup Waiting \cup Ended
  /\ firmware \in 0 .. size /\ error_c \in 0 .. Tries
  /\ baud \in [{"tool", "chip"} -> {Slow, Fast}]
  /\ flash \in [Adrs -> Packets \cup {Blank, Old, Loader, Clash}]
  /\ cmds \in Seq(Command)
  /\ wire \in Seq(0 .. 5) /\ input \in Seq(0 .. 5)

\* Safety: when the tool reports success every packet is where the factory's
\* image (combine) has it, or its command is still on its way, although commands
\* and answers may be lost, or late so that the answer to an earlier try counts.
\* Not so when a line does both: then it may count for a packet that was lost.
DoneMeansBurned ==
  pc = "done" /\ line # "both" => \A a \in Erased :
    LET want == IF job = "burn" THEN Combined(a) ELSE 0
    IN  \/ flash[a] = want
        \/ \E k \in 1 .. Len(cmds) : cmds[k] = [kind |-> 1, at |-> a, packet |-> want]

\* Safety: a repeated or misplaced command never programs over other data, and
\* the boot loader stays whatever fails, so that the tool can be run again.
NothingOverwritten ==
  \A a \in Adrs : flash[a] # Clash /\ (a < Boot => flash[a] = Loader)

\* Liveness: the tool ends, with success or with a failure.
Ends == <>(pc \in Ended)
=============================================================================
