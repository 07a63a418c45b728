------------------------------- MODULE AtSend -------------------------------
(***************************************************************************)
(* AT+SEND between modules of the mesh: at_mesh_tx_cmd (common.c),         *)
(* atCmd_Send (at_cmdHandle.c), rf_link_data_callback and wait_ack_process *)
(* (main_light.c).                                                         *)
(*                                                                         *)
(* The host asks its module to send data.  The module cuts them in chunks  *)
(* of 16 bytes, sends each as one mesh packet with the next sequence       *)
(* number and remembers the number of the last packet in last_sno.  The    *)
(* receiver hands the data to its own host and echoes the number in an ACK *)
(* packet, which it sends with the same at_mesh_tx_cmd.  An ACK that       *)
(* echoes last_sno prints OK; one second without it prints ERROR(3).       *)
(*                                                                         *)
(* The main loop runs atCmd_Send and wait_ack_process; rf_link_data_       *)
(* callback runs in the radio interrupt, between any two steps of the main *)
(* loop except where at_mesh_tx_cmd has disabled interrupts: not while it  *)
(* counts fn_cmd_sno, so that each memory access of the counting is a step *)
(* of its own and two packets may get the same number.                     *)
(*                                                                         *)
(* A chunk is its number in the request; its length and bytes are left     *)
(* out.  A command that waits for no ACK, to everybody or to the phone,    *)
(* ends with an OK too, which promises nothing; done has those.            *)
(***************************************************************************)
EXTENDS Integers

CONSTANTS Nodes,      \* modules of the mesh
          MaxSends,   \* bound: AT+SEND commands of each module
          MaxChunks,  \* bound: chunks of one command of each module
          SnoBase,    \* get_sno_rand_base(): where the numbers of a module may start
          SnoMod,     \* sequence numbers have 24 bits: 2^24
          Group       \* 0xffff: not a module, everybody

ASSUME AtSendAssumption ==
  /\ MaxSends \in [Nodes -> Nat] /\ MaxChunks \in [Nodes -> Nat]
  /\ SnoBase \subseteq Nat
  /\ SnoMod \in Nat \ {0}
  /\ Group \notin Nodes

VARIABLES
  pc,         \* what the main loop of a module is doing
  todo,       \* the AT+SEND being executed: destination, app, chunks left
  reg_sno,    \* fn_cmd_sno as the main loop has read it to count it
  fn_cmd_sno, \* number of the last packet sent; 0: none yet
  last_sno,   \* its low 24 bits while it waits for an ACK; 0: none
  ack_timer,  \* ack_timer # 0
  air,        \* packets on their way
  asked,      \* history: AT+SEND commands executed by a module
  sent,       \* history: the latest chunk of a module that expects an ACK
  delivered,  \* history: chunks that were printed as +DATA
  acked,      \* history: chunks whose ACK has come back
  oks,        \* history: the chunks whose ACK has printed OK
  errors,     \* history: the chunks for which ERROR(3) was printed
  done        \* history: the commands for which atCmd_Send has returned OK

module == <<fn_cmd_sno, last_sno, ack_timer>>
history == <<asked, sent, delivered, acked, oks, errors, done>>
vars == <<pc, todo, reg_sno, module, air, history>>

Chunk ==
  {c \in [src : Nodes, id : Nat, no : Nat] :
     c.id \in 1 .. MaxSends[c.src] /\ c.no \in 1 .. MaxChunks[c.src]}
NoChunk == [src |-> Group, id |-> 0, no |-> 0]
Dests == Nodes \cup {Group}
\* chanId: FLG_RF_MESH_CMD (app = 0), FLG_RF_MESH_APP (1), FLG_RF_MESH_ACK (2)
Kinds == {"cmd", "app", "ack"}
Idle == [dst |-> Group, kind |-> "cmd", left |-> 0]

Init ==
  /\ pc = [n \in Nodes |-> "loop"]
  /\ todo = [n \in Nodes |-> Idle]
  /\ reg_sno = [n \in Nodes |-> 0]
  /\ fn_cmd_sno = [n \in Nodes |-> 0]
  /\ last_sno = [n \in Nodes |-> 0]
  /\ ack_timer = [n \in Nodes |-> FALSE]
  /\ air = {}
  /\ asked = [n \in Nodes |-> 0]
  /\ sent = [n \in Nodes |-> NoChunk]
  /\ delivered = {} /\ acked = {} /\ oks = {} /\ errors = {} /\ done = {}

-----------------------------------------------------------------------------
\* The low 24 bits of a packet's number, which the packet and last_sno carry.
LastSno(sno) == sno % SnoMod
\* One packet on its way to every module that its destination stands for.
Packets(n, dst, kind, sno, echo, chunk) ==
  {[src |-> n, dst |-> dst, to |-> m, kind |-> kind, sno |-> LastSno(sno),
    echo |-> echo, chunk |-> chunk]
   : m \in IF dst = Group THEN Nodes \ {n} ELSE {dst}}

-----------------------------------------------------------------------------
\* What atCmd_Send returns: 0, which prints OK, for everybody, and for a module
\* 0xff, which prints nothing.
Returns(n, id, dst) == done' = IF dst = Group THEN done \cup {<<n, id>>} ELSE done

\* The host gives AT+SEND=dst,len,data.  For the phone (0xfff0) without a
\* phone connected the packet is a broadcast with app = 1.  Without data there
\* is no chunk to send.
AtCmdSend(n, dst, kind, chunks) ==
  /\ pc[n] = "loop" /\ asked[n] < MaxSends[n]
  /\ kind = "app" => dst = Group
  /\ asked' = [asked EXCEPT ![n] = @ + 1]
  /\ IF chunks = 0
     THEN UNCHANGED <<pc, todo>> /\ Returns(n, asked[n] + 1, dst)
     ELSE /\ pc' = [pc EXCEPT ![n] = "load"]
          /\ todo' = [todo EXCEPT ![n] = [dst |-> dst, kind |-> kind, left |-> chunks]]
          /\ UNCHANGED done
  /\ UNCHANGED <<reg_sno, module, air, sent, delivered, acked, oks, errors>>

\* For the phone, which is connected to this module: no packet, and OK.
AtCmdSendPhone(n) ==
  /\ pc[n] = "loop" /\ asked[n] < MaxSends[n]
  /\ asked' = [asked EXCEPT ![n] = @ + 1]
  /\ done' = done \cup {<<n, asked[n] + 1>>}
  /\ UNCHANGED <<pc, todo, reg_sno, module, air, sent, delivered, acked, oks, errors>>

\* if (0 == fn_cmd_sno) fn_cmd_sno = get_sno_rand_base(); fn_cmd_sno++: with
\* interrupts enabled.  The optimised code reads fn_cmd_sno once ...
TxLoad(n) ==
  /\ pc[n] = "load"
  /\ pc' = [pc EXCEPT ![n] = IF fn_cmd_sno[n] = 0 THEN "base" ELSE "store"]
  /\ reg_sno' = [reg_sno EXCEPT ![n] = fn_cmd_sno[n]]
  /\ UNCHANGED <<todo, module, air, history>>

TxBase(n) ==
  /\ pc[n] = "base"
  /\ pc' = [pc EXCEPT ![n] = "store"]
  /\ \E base \in SnoBase : /\ fn_cmd_sno' = [fn_cmd_sno EXCEPT ![n] = base]
                          /\ reg_sno' = [reg_sno EXCEPT ![n] = base]
  /\ UNCHANGED <<todo, last_sno, ack_timer, air, history>>

\* ... and writes it without looking at it again.
TxStore(n) ==
  /\ pc[n] = "store"
  /\ pc' = [pc EXCEPT ![n] = "emit"]
  /\ fn_cmd_sno' = [fn_cmd_sno EXCEPT ![n] = reg_sno[n] + 1]
  /\ reg_sno' = [reg_sno EXCEPT ![n] = 0]
  /\ UNCHANGED <<todo, last_sno, ack_timer, air, history>>

\* irq_disable .. irq_restore
TxEmit(n) ==
  LET t == todo[n]
      chunk == [src |-> n, id |-> asked[n], no |-> t.left]
  IN  /\ pc[n] = "emit"
      /\ pc' = [pc EXCEPT ![n] = "arm"]
      /\ last_sno' = [last_sno EXCEPT ![n] = LastSno(fn_cmd_sno[n])]
      /\ air' = air \cup Packets(n, t.dst, t.kind, fn_cmd_sno[n], 0, chunk)
      /\ sent' = [sent EXCEPT ![n] = IF t.dst # Group THEN chunk ELSE @]
      /\ UNCHANGED <<todo, reg_sno, fn_cmd_sno, ack_timer,
                     asked, delivered, acked, oks, errors, done>>

\* Seeded fault: the timer is forgotten.
ArmsNever(t) == FALSE
Arms(t) == t.kind = "cmd" /\ t.dst # Group
\* Seeded fault: the loop of atCmd_Send runs once too often.
MoreOnceAgain(t) == t.left >= 1
More(t) == t.left > 1
\* ack_timer = clock_time() for a unicast; then the next chunk, or the result
TxArm(n) ==
  LET t == todo[n]
  IN  /\ pc[n] = "arm"
      /\ ack_timer' = [ack_timer EXCEPT ![n] = @ \/ Arms(t)]
      /\ todo' = [todo EXCEPT ![n] = IF More(t) THEN [t EXCEPT !.left = @ - 1] ELSE Idle]
      /\ pc' = [pc EXCEPT ![n] = IF More(t) THEN "load" ELSE "loop"]
      /\ IF More(t) THEN UNCHANGED done ELSE Returns(n, asked[n], t.dst)
      /\ UNCHANGED <<reg_sno, fn_cmd_sno, last_sno, air,
                     asked, sent, delivered, acked, oks, errors>>

\* wait_ack_process: one second has passed since ack_timer was set ...
AckTimeout(n) ==
  /\ pc[n] = "loop"
  /\ last_sno[n] # 0 /\ ack_timer[n]
  /\ pc' = [pc EXCEPT ![n] = "late"]
  /\ UNCHANGED <<todo, reg_sno, module, air, history>>

\* ... so give up.
AckError(n) ==
  /\ pc[n] = "late"
  /\ pc' = [pc EXCEPT ![n] = "loop"]
  /\ last_sno' = [last_sno EXCEPT ![n] = 0]
  /\ ack_timer' = [ack_timer EXCEPT ![n] = FALSE]
  /\ errors' = errors \cup {sent[n]}
  /\ UNCHANGED <<todo, reg_sno, fn_cmd_sno, air, asked, sent, delivered, acked, oks, done>>

-----------------------------------------------------------------------------
\* rf_link_data_callback, in the radio interrupt of module n

\* Data: print them; unless they were broadcast, answer with the number.
ReceiveData(n, p) ==
  /\ p.kind = "cmd"
  /\ delivered' = delivered \cup {p.chunk}
  /\ IF p.dst = Group
     THEN /\ air' = air \ {p}
          /\ UNCHANGED <<fn_cmd_sno, last_sno>>
     ELSE \E base \in IF fn_cmd_sno[n] = 0 THEN SnoBase ELSE {fn_cmd_sno[n]} :
            /\ fn_cmd_sno' = [fn_cmd_sno EXCEPT ![n] = base + 1]
            /\ last_sno' = [last_sno EXCEPT ![n] = LastSno(base + 1)]
            /\ air' = (air \ {p}) \cup Packets(n, p.src, "ack", base + 1, p.sno, p.chunk)
  /\ UNCHANGED <<pc, todo, reg_sno, ack_timer, asked, sent, acked, oks, errors, done>>

\* Data for the phone: passed on over the BLE link, if there is one.
ReceiveApp(n, p) ==
  /\ p.kind = "app"
  /\ air' = air \ {p}
  /\ UNCHANGED <<pc, todo, reg_sno, module, history>>

\* Seeded fault: any ACK counts.
MatchesAny(n, p) == last_sno[n] # 0
Matches(n, p) == p.echo = last_sno[n]

\* An ACK: it counts if it echoes last_sno.
ReceiveAck(n, p) ==
  /\ p.kind = "ack"
  /\ air' = air \ {p}
  /\ acked' = acked \cup {p.chunk}
  /\ IF Matches(n, p)
     THEN /\ last_sno' = [last_sno EXCEPT ![n] = 0]
          /\ ack_timer' = [ack_timer EXCEPT ![n] = FALSE]
          /\ oks' = oks \cup {sent[n]}
     ELSE UNCHANGED <<last_sno, ack_timer, oks>>
  /\ UNCHANGED <<pc, todo, reg_sno, fn_cmd_sno, asked, sent, delivered, errors, done>>

Receive(n) ==
  \E p \in air :
    /\ p.to = n
    /\ ReceiveData(n, p) \/ ReceiveApp(n, p) \/ ReceiveAck(n, p)

\* The air loses a packet.
Lose ==
  /\ \E p \in air : air' = air \ {p}
  /\ UNCHANGED <<pc, todo, reg_sno, module, history>>

Main(n) ==
  \/ TxLoad(n) \/ TxBase(n) \/ TxStore(n) \/ TxEmit(n) \/ TxArm(n)
  \/ AckTimeout(n) \/ AckError(n)

Next ==
  \/ \E n \in Nodes :
       \/ \E dst \in Dests \ {n}, kind \in {"cmd", "app"}, chunks \in 0 .. MaxChunks[n] :
            AtCmdSend(n, dst, kind, chunks)
       \/ AtCmdSendPhone(n)
       \/ TxLoad(n) \/ TxBase(n) \/ TxStore(n) \/ TxEmit(n) \/ TxArm(n)
       \/ AckTimeout(n) \/ AckError(n)
       \/ Receive(n)
  \/ Lose

Spec == Init /\ [][Next]_vars

\* The main loop keeps running and time passes; the air promises nothing.
FairSpec == Spec /\ \A n \in Nodes : WF_vars(Main(n))

-----------------------------------------------------------------------------
Chunks == Chunk \cup {NoChunk}
PacketType ==
  [src : Nodes, dst : Dests, to : Nodes, kind : Kinds, sno : 0 .. SnoMod - 1,
   echo : 0 .. SnoMod - 1, chunk : Chunk]

TypeOK ==
  /\ pc \in [Nodes -> {"loop", "load", "base", "store", "emit", "arm", "late"}]
  /\ todo \in [Nodes -> [dst : Dests, kind : Kinds, left : Nat]]
  /\ \A n \in Nodes : todo[n].left <= MaxChunks[n]
  /\ reg_sno \in [Nodes -> Nat] /\ fn_cmd_sno \in [Nodes -> Nat]
  /\ last_sno \in [Nodes -> 0 .. SnoMod - 1]
  /\ ack_timer \in [Nodes -> BOOLEAN]
  /\ air \subseteq PacketType
  /\ asked \in [Nodes -> Nat] /\ \A n \in Nodes : asked[n] <= MaxSends[n]
  /\ sent \in [Nodes -> Chunks]
  /\ delivered \subseteq Chunk /\ acked \subseteq Chunk
  /\ oks \subseteq Chunks /\ errors \subseteq Chunks
  /\ done \subseteq Nodes \X Nat

\* Safety: when an ACK makes a module print OK, the chunk it sent last has been
\* printed as +DATA by its receiver.  Packets may share a number, and last_sno is
\* overwritten by every packet the module sends and every ACK it answers with;
\* but it never matches a stale ACK.  And a module that has sent no chunk to
\* another module prints no ERROR(3), and no OK but those its commands return,
\* although broadcasts and ACKs set last_sno too.
OkMeansDelivered == oks \subseteq delivered /\ NoChunk \notin oks \cup errors

\* The last chunk of the latest AT+SEND of a module has not been answered.
Waiting(n) == sent[n].no = 1 /\ sent[n].id = asked[n] /\ sent[n] \notin oks \cup errors

\* Liveness: the last chunk of an AT+SEND to another module is answered by OK or
\* ERROR(3), unless the host gives another AT+SEND before the answer.
\* (AT+SEND to a module with length 0 sends no chunk and is never answered.)
SendAnswered == \A n \in Nodes : []<>~Waiting(n)

\* ERROR(3) for a chunk says that its ACK has not come in time: the branch that
\* prints it is the one for "waiting for the ACK timed out" (main_light.c:929).
\* Not so: the ACK this module sends for incoming data overwrites last_sno, and
\* the ACK for its own data is then ignored.
AckedIsOk == [][\A c \in (errors' \ errors) \cap acked : c \in oks]_vars
=============================================================================
