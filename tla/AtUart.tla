------------------------------- MODULE AtUart -------------------------------
(***************************************************************************)
(* The serial line between a module and its host: at_uart.c, the entry of  *)
(* the AT commands in at_cmd.c and uart_Send of uart_8258.c.               *)
(*                                                                         *)
(* A line from the host arrives by DMA in one buffer and an interrupt sets *)
(* uart_rx_true; the main loop copies the line, handles it and prints the  *)
(* answer.  at_print collects characters in T_txdata_user, sends it when   *)
(* it is full and once more at the end; uart_Send copies it to the buffer  *)
(* of the DMA, or drops it when a transmission is under way, and at_print  *)
(* then waits for 20 ms, longer than the transmission takes.               *)
(*                                                                         *)
(* Data and ACKs from the mesh are printed in the radio interrupt by the   *)
(* same at_print, between any two accesses of the main loop to the shared  *)
(* buffers; nothing interrupts the interrupt.  T_txdata_user.len is not    *)
(* volatile: where the main loop uses it, the build may load it again or   *)
(* use the copy it has.                                                    *)
(*                                                                         *)
(* A line is its number and the kind of its answer, a character of an      *)
(* answer is the number of the line and its place in the answer.  A host   *)
(* sends the next line when it sees an answer to the last one, or long     *)
(* after it; a line comes in one burst that fits in the buffer.            *)
(***************************************************************************)
EXTENDS Integers, Sequences

CONSTANTS BufLen,    \* UART_DATA_LEN
          Answers,   \* Answers[k]: the places in the answer to a line of kind k
                     \* where the texts it is printed in end
          Reboot,    \* the kinds that reboot the module after the answer
          MaxLines,  \* bound: lines of the host
          MaxRadio   \* bound: texts printed in the radio interrupt

LineKinds == DOMAIN Answers

ASSUME AtUartAssumption ==
  /\ BufLen \in Nat \ {0}
  /\ LineKinds # {}
  /\ \A k \in LineKinds :
       /\ Answers[k] \in Seq(Nat \ {0})
       /\ \A i, j \in DOMAIN Answers[k] : i < j => Answers[k][i] < Answers[k][j]
  /\ Reboot \subseteq LineKinds
  /\ MaxLines \in Nat /\ MaxRadio \in Nat

VARIABLES
  lines,         \* lines the host has sent
  rx,            \* T_rxdata_buf
  dma,           \* the DMA has a line, its interrupt has not been handled
  uart_rx_true,
  line,          \* T_rxdata_user
  stage,            \* what the main loop is doing
  text,          \* how many texts of the answer it has begun
  left,          \* characters left of the text being printed
  data, len,     \* T_txdata_user
  reg,           \* the main loop's copy of len
  size,          \* len in uart_Send
  tx,            \* tx_buff: what is transmitted next, or now
  busy,          \* ~TXDONE
  radio,         \* texts printed in the radio interrupt, up to MaxRadio
  handled,       \* seen: the last line handled
  heard,         \* seen: what the main loop has transmitted since then
  quiet,         \* seen: the radio has printed nothing since then
  lost           \* seen: lines that a reboot has thrown away

receiver == <<rx, dma, uart_rx_true, line>>
buffer   == <<data, len, reg>>
sender   == <<size, tx, busy>>
seen  == <<handled, heard, quiet, lost>>
UartVars == <<lines, receiver, stage, text, left, buffer, sender, radio, seen>>

NoLine == [no |-> 0, kind |-> CHOOSE k \in LineKinds : TRUE]
Line == [no : 0 .. MaxLines, kind : LineKinds]
Places == 1 .. BufLen
\* A character of the radio, or of nobody.
Other == <<0, 0>>
Blank == [p \in Places |-> Other]

UartInit ==
  /\ lines = 0
  /\ rx = NoLine /\ dma = FALSE /\ uart_rx_true = FALSE /\ line = NoLine
  /\ stage = "loop" /\ text = 0 /\ left = 0
  /\ data = Blank /\ len = 0 /\ reg = 0
  /\ size = 0 /\ tx = [len |-> 0, data |-> Blank] /\ busy = FALSE
  /\ radio = 0
  /\ handled = 0 /\ heard = <<>> /\ quiet = TRUE /\ lost = {}

-----------------------------------------------------------------------------
\* The host

\* How many characters the first n texts of an answer have.
EndOf(k, n) == IF n = 0 THEN 0 ELSE Answers[k][n]
Total(k) == EndOf(k, Len(Answers[k]))
\* All of an answer, as it should be heard.
Whole(k) == [p \in 1 .. Total(k) |-> <<handled, p>>]

\* A line arrives.
HostSend(k) ==
  /\ lines < MaxLines
  /\ lines = handled \/ lines \in lost
  /\ heard # <<>> \/ stage = "loop"
  /\ lines' = lines + 1
  /\ rx' = [no |-> lines + 1, kind |-> k]
  /\ dma' = TRUE
  /\ UNCHANGED <<uart_rx_true, line, stage, text, left, buffer, sender, radio, seen>>

\* at_uart_irq
UartIrq ==
  /\ dma
  /\ dma' = FALSE /\ uart_rx_true' = TRUE
  /\ UNCHANGED <<lines, rx, line, stage, text, left, buffer, sender, radio, seen>>

-----------------------------------------------------------------------------
\* at_uart_loop

\* Seeded fault: the flag stays set.
TakeAgain ==
  /\ stage = "loop" /\ uart_rx_true
  /\ stage' = "copy"
  /\ UNCHANGED <<lines, receiver, text, left, buffer, sender, radio, seen>>
Take ==
  /\ stage = "loop" /\ uart_rx_true
  /\ uart_rx_true' = FALSE
  /\ stage' = "copy"
  /\ UNCHANGED <<lines, rx, dma, line, text, left, buffer, sender, radio, seen>>

Copy ==
  /\ stage = "copy"
  /\ line' = rx
  /\ stage' = "process"
  /\ UNCHANGED <<lines, rx, dma, uart_rx_true, text, left, buffer, sender, radio, seen>>

\* at_data_process: the handler and at_response_result print the answer.
Process ==
  /\ stage = "process"
  /\ text' = 0
  /\ handled' = line.no /\ heard' = <<>> /\ quiet' = TRUE
  /\ stage' = "text"
  /\ UNCHANGED <<lines, receiver, left, buffer, sender, radio, lost>>

\* Seeded fault: the flag is cleared when the line has been handled.
DoneClears ==
  /\ stage = "done" /\ line.kind \notin Reboot
  /\ stage' = "loop"
  /\ uart_rx_true' = FALSE
  /\ UNCHANGED <<lines, rx, dma, line, text, left, buffer, sender, radio, seen>>
Done ==
  /\ stage = "done" /\ line.kind \notin Reboot
  /\ stage' = "loop"
  /\ UNCHANGED <<lines, receiver, text, left, buffer, sender, radio, seen>>

\* light_sw_reboot: a line that has come in the meantime is gone.
DoneReboot ==
  /\ stage = "done" /\ line.kind \in Reboot
  /\ lost' = IF lines > handled THEN lost \cup {lines} ELSE lost
  /\ rx' = NoLine /\ dma' = FALSE /\ uart_rx_true' = FALSE /\ line' = NoLine
  /\ stage' = "loop" /\ text' = 0 /\ left' = 0
  /\ data' = Blank /\ len' = 0 /\ reg' = 0
  /\ size' = 0 /\ tx' = [len |-> 0, data |-> Blank] /\ busy' = FALSE
  /\ UNCHANGED <<lines, radio, handled, heard, quiet>>

-----------------------------------------------------------------------------
\* at_print

StartText ==
  /\ stage = "text"
  /\ IF text = Len(Answers[line.kind])
     THEN stage' = "done" /\ UNCHANGED <<text, left, len, reg>>
     ELSE /\ left' = EndOf(line.kind, text + 1) - EndOf(line.kind, text) /\ text' = text + 1
          /\ len' = 0 /\ reg' = 0
          /\ stage' = "put"
  /\ UNCHANGED <<lines, receiver, data, sender, radio, seen>>

\* What the build uses for T_txdata_user.len.
Index == {len, reg}
NextPart == IF left > 0 THEN "put" ELSE "tail"
\* How many characters of the answer have been put into the buffer.
Printed == EndOf(line.kind, text) - left

PutChar ==
  /\ stage = "put"
  /\ \E i \in Index : data' = [data EXCEPT ![i + 1] = <<handled, Printed + 1>>] /\ reg' = i
  /\ left' = left - 1
  /\ stage' = "count"
  /\ UNCHANGED <<lines, receiver, text, len, sender, radio, seen>>

CountChar ==
  /\ stage = "count"
  /\ \E i \in Index : len' = i + 1 /\ reg' = i + 1
  /\ stage' = "full"
  /\ UNCHANGED <<lines, receiver, text, left, data, sender, radio, seen>>

\* Seeded fault: one character too late.
FullLate(i) == i > BufLen
Full(i) == i = BufLen
CheckFull ==
  /\ stage = "full"
  /\ \E i \in Index : reg' = i /\ stage' = IF Full(i) THEN "send" ELSE NextPart
  /\ UNCHANGED <<lines, receiver, text, left, data, len, sender, radio, seen>>

PrintTail ==
  /\ stage = "tail"
  /\ \E i \in Index : reg' = i /\ stage' = IF i = 0 THEN "text" ELSE "send"
  /\ UNCHANGED <<lines, receiver, text, left, data, len, sender, radio, seen>>

\* uart_Send: it drops what it cannot send at once.
SendCheck ==
  /\ stage = "send"
  /\ size' = len
  /\ stage' = IF busy THEN "reset" ELSE "copy length"
  /\ UNCHANGED <<lines, receiver, text, left, buffer, tx, busy, radio, seen>>

\* Its memcpy ...
CopyLength ==
  /\ stage = "copy length"
  /\ tx' = [tx EXCEPT !.len = len]
  /\ stage' = "copy data"
  /\ UNCHANGED <<lines, receiver, text, left, buffer, size, busy, radio, seen>>

CopyData ==
  /\ stage = "copy data"
  /\ tx' = [tx EXCEPT !.data = [p \in Places |-> IF p <= size THEN data[p] ELSE @[p]]]
  /\ stage' = "start"
  /\ UNCHANGED <<lines, receiver, text, left, buffer, size, busy, radio, seen>>

\* ... and STARTTX
StartTx ==
  /\ stage = "start"
  /\ busy' = TRUE
  /\ heard' = heard \o SubSeq(tx.data, 1, tx.len)
  /\ stage' = "reset"
  /\ UNCHANGED <<lines, receiver, text, left, buffer, size, tx, radio, handled, quiet, lost>>

ResetLen ==
  /\ stage = "reset"
  /\ len' = 0 /\ reg' = 0
  /\ stage' = "wait"
  /\ UNCHANGED <<lines, receiver, text, left, data, sender, radio, seen>>

\* Seeded fault: WaitMs is too short.
WaitedShort == TRUE
Waited == ~busy
\* WaitMs(20)
WaitMs ==
  /\ stage = "wait" /\ Waited
  /\ stage' = NextPart
  /\ UNCHANGED <<lines, receiver, text, left, buffer, sender, radio, seen>>

TxDone ==
  /\ busy
  /\ busy' = FALSE
  /\ UNCHANGED <<lines, receiver, stage, text, left, buffer, size, tx, radio, seen>>

-----------------------------------------------------------------------------
\* rf_link_data_callback prints n pieces of s characters, from the first to the
\* last wait of at_print or at_send.  The first one is dropped if the main loop
\* has just sent something.
Fill(d, s) == [p \in Places |-> IF p <= s THEN Other ELSE d[p]]
RadioPrint(n, s) ==
  /\ radio < MaxRadio /\ radio' = radio + 1
  /\ data' = Fill(data, s) /\ len' = 0
  /\ IF busy /\ n = 1 THEN UNCHANGED tx
     ELSE tx' = [len |-> s, data |-> Fill(tx.data, s)]
  /\ busy' = FALSE
  /\ quiet' = FALSE
  /\ UNCHANGED <<lines, receiver, stage, text, left, reg, size, handled, heard, lost>>

MainLoop ==
  \/ Take \/ Copy \/ Process \/ Done \/ DoneReboot
  \/ StartText \/ PutChar \/ CountChar \/ CheckFull \/ PrintTail
  \/ SendCheck \/ CopyLength \/ CopyData \/ StartTx \/ ResetLen \/ WaitMs

UartNext ==
  \/ \E k \in LineKinds : HostSend(k)
  \/ UartIrq \/ TxDone
  \/ MainLoop
  \/ \E n \in 1 .. 2, s \in Places : RadioPrint(n, s)

UartSpec == UartInit /\ [][UartNext]_UartVars

\* The main loop runs, interrupts are taken, transmissions end.
UartFairSpec ==
  UartSpec /\ WF_UartVars(MainLoop) /\ WF_UartVars(UartIrq) /\ WF_UartVars(TxDone)

-----------------------------------------------------------------------------
Char == {Other} \cup (1 .. MaxLines) \X Nat

\* The type of every variable; no index leaves T_txdata_user, although
\* at_print sends it only when the length equals its size and the radio
\* interrupt changes the length in between.
UartTypeOK ==
  /\ lines \in 0 .. MaxLines
  /\ rx \in Line /\ line \in Line /\ dma \in BOOLEAN /\ uart_rx_true \in BOOLEAN
  /\ stage \in {"loop", "copy", "process", "done", "text", "put", "count", "full", "tail",
             "send", "copy length", "copy data", "start", "reset", "wait"}
  /\ text \in Nat /\ left \in Nat
  /\ data \in [Places -> Char] /\ len \in 0 .. BufLen /\ reg \in 0 .. BufLen
  /\ stage = "put" => len < BufLen /\ reg < BufLen
  /\ size \in 0 .. BufLen
  /\ tx \in [len : 0 .. BufLen, data : [Places -> Char]] /\ busy \in BOOLEAN
  /\ radio \in 0 .. MaxRadio
  /\ handled \in 0 .. MaxLines /\ heard \in Seq(Char)
  /\ quiet \in BOOLEAN /\ lost \subseteq 1 .. MaxLines

\* Action property: the lines are handled one after the other, none twice and
\* none but those a reboot has thrown away left out.
LinesInOrder ==
  [][stage = "process" /\ stage' # stage =>
       /\ handled' > handled
       /\ \A k \in 1 .. MaxLines : handled < k /\ k < handled' => k \in lost]_UartVars

\* Safety: whatever the radio prints, what the host hears of an answer are
\* characters of this answer, in their order and none twice, and characters of
\* what the radio has printed: nothing of an earlier answer is left in the
\* buffers that are shared and partly overwritten.  An answer during which the
\* radio has printed nothing reaches the host whole: no piece of it is dropped
\* because the one before is being sent.
HeardIsAnswer ==
  /\ \A p \in DOMAIN heard : heard[p] # Other => heard[p][1] = handled
  /\ \A p, q \in DOMAIN heard :
       p < q /\ heard[p] # Other /\ heard[q] # Other => heard[p][2] < heard[q][2]
  /\ stage = "done" /\ quiet => heard = Whole(line.kind)

\* Liveness: a line is handled, unless it comes in the moment between the answer
\* to a command that reboots the module and the reboot.
LineHandled == \A k \in 1 .. MaxLines : lines = k ~> (handled >= k \/ k \in lost)
=============================================================================
