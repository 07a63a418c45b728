------------------------------- MODULE At_proofs -------------------------------
(***************************************************************************)
(* Proofs about the AT side of a module: AtSend, the command that sends    *)
(* data to another module, and AtUart, the serial line to the host.        *)
(*                                                                         *)
(* AtSend, for every number of modules, commands and chunks, every first   *)
(* sequence number and every interleaving of the main loops with the radio *)
(* interrupts.  What OK promises is proved up to the point where the       *)
(* sequence number of a module reaches 2^24: the low 24 bits are then 0,   *)
(* which is also what last_sno holds when nothing is waited for.           *)
(*                                                                         *)
(* AtUart, for every size of the buffer, every set of commands and answers *)
(* and every interleaving of the main loop with the interrupts.            *)
(***************************************************************************)
EXTENDS AtSend, AtUart, SequenceTheorems, TLAPS

Sending(n) == pc[n] \in {"load", "base", "store", "emit", "arm"}

\* While a command is executed, its chunk is one of those the host has asked for.
Asking ==
  \A n \in Nodes : Sending(n) =>
    /\ asked[n] >= 1
    /\ todo[n].left \in 1 .. MaxChunks[n]
    /\ todo[n].dst # n
    /\ todo[n].kind \in {"cmd", "app"}
    /\ todo[n].kind = "app" => todo[n].dst = Group

\* Packets know where they come from, and an ACK is for data that were printed.
Packed ==
  \A p \in air :
    /\ p.to # p.src
    /\ p.kind = "cmd" => p.chunk.src = p.src
    /\ p.kind = "ack" => p.chunk.src = p.to /\ p.chunk \in delivered

TInv == TypeOK /\ Asking /\ Packed

\* No module has used up its sequence numbers.
NoWrap == \A n \in Nodes : fn_cmd_sno[n] < SnoMod

\* Numbers of data on their way, and their echoes, are not above the latest one
\* of the module that has sent the data, and below the one it is about to use:
\* the main loop never falls back behind its own data, though it may use again a
\* number that an ACK has used while the main loop was counting.
Below(n, s) ==
  /\ s >= 1 /\ s <= fn_cmd_sno[n]
  /\ pc[n] # "base"
  /\ pc[n] = "store" => s <= reg_sno[n]
  /\ pc[n] = "emit" => s < fn_cmd_sno[n]
Numbered ==
  \A p \in air :
    /\ p.kind = "cmd" => Below(p.src, p.sno)
    /\ p.kind = "ack" => Below(p.to, p.echo)

\* Unicast data with the number that is waited for, and an ACK that echoes it,
\* belong to the chunk that was sent last.
Awaited ==
  \A p \in air :
    /\ p.kind = "cmd" /\ p.dst # Group /\ p.sno = last_sno[p.src] => p.chunk = sent[p.src]
    /\ p.kind = "ack" /\ p.echo = last_sno[p.to] => p.chunk = sent[p.to]

\* The timer runs only when some chunk expects an ACK.
Timed ==
  \A n \in Nodes :
    \/ pc[n] = "late" \/ ack_timer[n]
    \/ pc[n] = "arm" /\ todo[n].dst # Group
    => sent[n] # NoChunk

\* The number that is about to be used is not 0.
Counted == \A n \in Nodes : pc[n] = "emit" => fn_cmd_sno[n] >= 1

IInv == Counted /\ Numbered /\ Awaited /\ Timed /\ OkMeansDelivered

-----------------------------------------------------------------------------
\* The low bits of a number that has not reached SnoMod are the number.
LEMMA LowBits ==
  ASSUME NEW s \in Nat
  PROVE  LastSno(s) \in 0 .. SnoMod - 1 /\ (s < SnoMod => LastSno(s) = s)
BY AtSendAssumption DEF LastSno

\* A packet that is sent has the fields of its sender.
LEMMA PacketsType ==
  ASSUME NEW n \in Nodes, NEW dst \in Dests \ {n}, NEW kind \in Kinds, NEW sno \in Nat,
         NEW echo \in 0 .. SnoMod - 1, NEW chunk \in Chunk,
         NEW p \in Packets(n, dst, kind, sno, echo, chunk)
  PROVE  /\ p \in PacketType
         /\ p.src = n /\ p.dst = dst /\ p.kind = kind /\ p.sno = LastSno(sno)
         /\ p.echo = echo /\ p.chunk = chunk /\ p.to # n
         /\ dst # Group => p.to = dst
<1>1. PICK m \in IF dst = Group THEN Nodes \ {n} ELSE {dst} :
        p = [src |-> n, dst |-> dst, to |-> m, kind |-> kind, sno |-> LastSno(sno),
             echo |-> echo, chunk |-> chunk]
  BY DEF Packets
<1>2. m \in Nodes /\ m # n /\ (dst # Group => m = dst) BY <1>1 DEF Dests
<1>3. LastSno(sno) \in 0 .. SnoMod - 1 BY LowBits
<1> QED BY <1>1, <1>2, <1>3 DEF PacketType, Dests

\* The chunk that a module is sending.
LEMMA ChunkType ==
  ASSUME TInv, NEW n \in Nodes, Sending(n)
  PROVE  [src |-> n, id |-> asked[n], no |-> todo[n].left] \in Chunk
<1>1. asked[n] \in 1 .. MaxSends[n] /\ todo[n].left \in 1 .. MaxChunks[n]
  BY AtSendAssumption DEF TInv, TypeOK, Asking
<1>2. asked[n] \in Nat /\ todo[n].left \in Nat
  BY <1>1, AtSendAssumption
<1> QED BY <1>1, <1>2 DEF Chunk

LEMMA NoChunkIsNone == NoChunk \notin Chunk
BY AtSendAssumption DEF NoChunk, Chunk

LEMMA InitTInv == Init => TInv
<1> SUFFICES ASSUME Init PROVE TInv
  OBVIOUS
<1> USE AtSendAssumption DEF Init
<1>1. todo \in [Nodes -> [dst : Dests, kind : Kinds, left : Nat]]
  BY DEF Idle, Dests, Kinds
<1>2. ASSUME NEW n \in Nodes
      PROVE  todo[n].left <= MaxChunks[n] /\ asked[n] <= MaxSends[n]
  <2>1. MaxChunks[n] \in Nat /\ MaxSends[n] \in Nat OBVIOUS
  <2>2. todo[n].left = 0 /\ asked[n] = 0 BY DEF Idle
  <2> QED BY <2>1, <2>2
<1>3. ack_timer \in [Nodes -> BOOLEAN] BY Zenon
<1>4. TypeOK BY <1>1, <1>2, <1>3 DEF TypeOK, Chunks
<1> QED BY <1>4 DEF TInv, Asking, Packed, Sending

LEMMA NextTInv == TInv /\ [Next]_vars => TInv'
<1> SUFFICES ASSUME TInv, [Next]_vars PROVE TInv'
  OBVIOUS
<1> USE AtSendAssumption
<1>0. TypeOK /\ Asking /\ Packed BY DEF TInv
<1>1. ASSUME NEW n \in Nodes, NEW dst \in Dests \ {n}, NEW kind \in {"cmd", "app"},
             NEW chunks \in 0 .. MaxChunks[n], AtCmdSend(n, dst, kind, chunks)
      PROVE  TInv'
  <2> USE <1>0, <1>1 DEF AtCmdSend, module
  <2>0. MaxChunks[n] \in Nat /\ chunks \in Nat OBVIOUS
  <2>1. TypeOK'
    <3>1. [dst |-> dst, kind |-> kind, left |-> chunks] \in [dst : Dests, kind : Kinds, left : Nat]
      BY <2>0 DEF Kinds
    <3>2. todo' \in [Nodes -> [dst : Dests, kind : Kinds, left : Nat]]
      BY <3>1 DEF TypeOK
    <3>3. \A m \in Nodes : todo'[m].left <= MaxChunks[m]
      BY DEF TypeOK
    <3>4. ASSUME NEW m \in Nodes PROVE asked'[m] \in Nat /\ asked'[m] <= MaxSends[m]
      <4>1. MaxSends[m] \in Nat /\ asked[m] \in Nat /\ asked[m] <= MaxSends[m] BY DEF TypeOK
      <4> QED BY <4>1
    <3>5. done' \subseteq Nodes \X Nat BY DEF TypeOK, Returns
    <3>6. pc' \in [Nodes -> {"loop", "load", "base", "store", "emit", "arm", "late"}]
      BY DEF TypeOK
    <3>7. asked' \in [Nodes -> Nat] BY DEF TypeOK
    <3> QED BY <3>2, <3>3, <3>4, <3>5, <3>6, <3>7 DEF TypeOK
  <2>2. Asking'
    <3> SUFFICES ASSUME NEW m \in Nodes, Sending(m)'
                 PROVE  /\ asked'[m] >= 1 /\ todo'[m].left \in 1 .. MaxChunks[m]
                        /\ todo'[m].dst # m /\ todo'[m].kind \in {"cmd", "app"}
                        /\ todo'[m].kind = "app" => todo'[m].dst = Group
      BY DEF Asking
    <3>1. CASE m = n
      <4>1. asked[n] \in Nat BY DEF TypeOK
      <4>2. asked'[n] = asked[n] + 1 BY DEF TypeOK
      <4>3. chunks # 0 BY <3>1 DEF TypeOK, Sending
      <4>4. todo'[n] = [dst |-> dst, kind |-> kind, left |-> chunks] BY <4>3 DEF TypeOK
      <4>5. todo'[n].dst = dst /\ todo'[n].kind = kind /\ todo'[n].left = chunks BY <4>4
      <4>6. dst # n /\ chunks \in 1 .. MaxChunks[n] BY <2>0, <4>3
      <4> HIDE <1>1 DEF AtCmdSend
      <4>7. kind = "app" => dst = Group BY <1>1 DEF AtCmdSend
      <4> QED BY <3>1, <4>1, <4>2, <4>5, <4>6, <4>7
    <3>2. CASE m # n BY <3>2 DEF Asking, Sending, TypeOK
    <3> QED BY <3>1, <3>2
  <2>3. Packed' BY DEF Packed
  <2> QED BY <2>1, <2>2, <2>3 DEF TInv
<1>1a. ASSUME NEW n \in Nodes, AtCmdSendPhone(n) PROVE TInv'
  <2> USE <1>0, <1>1a DEF AtCmdSendPhone, module
  <2>1. ASSUME NEW m \in Nodes PROVE asked'[m] \in Nat /\ asked'[m] <= MaxSends[m]
    <3>1. MaxSends[m] \in Nat /\ asked[m] \in Nat /\ asked[m] <= MaxSends[m] BY DEF TypeOK
    <3> QED BY <3>1 DEF TypeOK
  <2>2. TypeOK' BY <2>1 DEF TypeOK
  <2>3. Asking'
    <3>1. \A m \in Nodes : asked[m] \in Nat /\ asked'[m] >= asked[m] BY DEF TypeOK
    <3> QED BY <2>1, <3>1 DEF Asking, Sending
  <2>4. Packed' BY DEF Packed
  <2> QED BY <2>2, <2>3, <2>4 DEF TInv
<1>2. ASSUME NEW n \in Nodes, TxLoad(n) \/ TxBase(n) \/ TxStore(n) PROVE TInv'
  <2> USE <1>0, <1>2 DEF TxLoad, TxBase, TxStore, module, history
  <2>1. TypeOK'
    <3>1. reg_sno' \in [Nodes -> Nat] /\ fn_cmd_sno' \in [Nodes -> Nat] BY DEF TypeOK
    <3>2. pc' \in [Nodes -> {"loop", "load", "base", "store", "emit", "arm", "late"}]
      BY DEF TypeOK
    <3> QED BY <3>1, <3>2 DEF TypeOK
  <2>2. Asking'
    <3>1. \A m \in Nodes : Sending(m)' => Sending(m) BY DEF Sending, TypeOK
    <3>2. asked' = asked /\ todo' = todo OBVIOUS
    <3> QED BY <3>1, <3>2 DEF Asking
  <2>3. Packed' BY DEF Packed
  <2> QED BY <2>1, <2>2, <2>3 DEF TInv
<1>3. ASSUME NEW n \in Nodes, TxEmit(n) PROVE TInv'
  <2> DEFINE t == todo[n]
             chunk == [src |-> n, id |-> asked[n], no |-> t.left]
             new == Packets(n, t.dst, t.kind, fn_cmd_sno[n], 0, chunk)
  <2>1. Sending(n) /\ t.dst \in Dests \ {n} /\ t.kind \in {"cmd", "app"}
    BY <1>0, <1>3 DEF TxEmit, Sending, Asking, TypeOK
  <2>2. chunk \in Chunk BY <2>1, ChunkType
  <2>3. fn_cmd_sno[n] \in Nat /\ LastSno(fn_cmd_sno[n]) \in 0 .. SnoMod - 1
    BY <1>0, LowBits DEF TypeOK
  <2>4. \A p \in new : /\ p \in PacketType /\ p.src = n /\ p.kind = t.kind
                       /\ p.chunk = chunk /\ p.to # n
    <3>1. 0 \in 0 .. SnoMod - 1 /\ t.kind \in Kinds BY <2>1 DEF Kinds
    <3> HIDE DEF chunk, t
    <3> QED BY <2>1, <2>2, <2>3, <3>1, PacketsType
  <2>5. air' = air \cup new BY <1>3 DEF TxEmit
  <2>6. TypeOK'
    <3>1. air' \subseteq PacketType BY <1>0, <2>4, <2>5 DEF TypeOK
    <3>2. sent' \in [Nodes -> Chunks] BY <1>0, <1>3, <2>2 DEF TxEmit, TypeOK, Chunks
    <3>3. last_sno' \in [Nodes -> 0 .. SnoMod - 1]
      BY <1>0, <1>3, <2>3 DEF TxEmit, TypeOK
    <3> QED BY <1>0, <1>3, <3>1, <3>2, <3>3 DEF TxEmit, TypeOK
  <2>7. Asking' BY <1>0, <1>3 DEF TxEmit, Asking, Sending, TypeOK
  <2>8. Packed'
    <3>1. delivered' = delivered BY <1>3 DEF TxEmit
    <3>2. \A p \in new : p.to # p.src /\ p.kind # "ack" /\ p.chunk.src = p.src
      BY <2>1, <2>4
    <3> QED BY <1>0, <2>5, <3>1, <3>2 DEF Packed
  <2> QED BY <2>6, <2>7, <2>8 DEF TInv
<1>4. ASSUME NEW n \in Nodes, TxArm(n) PROVE TInv'
  <2> DEFINE t == todo[n]
  <2>1. /\ t.left \in 1 .. MaxChunks[n] /\ t.dst \in Dests \ {n}
        /\ t.kind \in {"cmd", "app"} /\ MaxChunks[n] \in Nat
        /\ t = [dst |-> t.dst, kind |-> t.kind, left |-> t.left]
    BY <1>0, <1>4 DEF TxArm, Sending, Asking, TypeOK
  <2>2. todo'[n] = IF t.left > 1 THEN [dst |-> t.dst, kind |-> t.kind, left |-> t.left - 1]
                   ELSE Idle
    BY <1>0, <1>4, <2>1 DEF TxArm, More, TypeOK
  <2>3. /\ todo'[n] \in [dst : Dests, kind : Kinds, left : Nat]
        /\ todo'[n].left <= MaxChunks[n]
    BY <2>1, <2>2 DEF Idle, Dests, Kinds
  <2>4. todo' \in [Nodes -> [dst : Dests, kind : Kinds, left : Nat]]
    BY <1>0, <1>4, <2>3 DEF TxArm, TypeOK
  <2>5. \A m \in Nodes : m # n => todo'[m] = todo[m] /\ pc'[m] = pc[m]
    BY <1>0, <1>4 DEF TxArm, TypeOK
  <2>6. \A m \in Nodes : todo'[m].left <= MaxChunks[m]
    BY <1>0, <2>3, <2>5 DEF TypeOK
  <2>7. ack_timer' \in [Nodes -> BOOLEAN]
    BY <1>0, <1>4, Zenon DEF TxArm, TypeOK
  <2>8. TypeOK'
    <3>1. done' \subseteq Nodes \X Nat BY <1>0, <1>4 DEF TxArm, Returns, TypeOK
    <3>2. pc' \in [Nodes -> {"loop", "load", "base", "store", "emit", "arm", "late"}]
      BY <1>0, <1>4 DEF TxArm, TypeOK
    <3> QED BY <1>0, <1>4, <2>4, <2>6, <2>7, <3>1, <3>2 DEF TxArm, TypeOK
  <2>9. pc'[n] = IF t.left > 1 THEN "load" ELSE "loop"
    BY <1>0, <1>4 DEF TxArm, TypeOK, More
  <2>10. asked' = asked /\ air' = air /\ delivered' = delivered
    BY <1>4 DEF TxArm
  <2>11. Asking'
    <3> SUFFICES ASSUME NEW m \in Nodes, Sending(m)'
                 PROVE /\ asked'[m] >= 1 /\ todo'[m].left \in 1 .. MaxChunks[m]
                       /\ todo'[m].dst # m /\ todo'[m].kind \in {"cmd", "app"}
                       /\ todo'[m].kind = "app" => todo'[m].dst = Group
      BY DEF Asking
    <3>1. CASE m = n
      <4>1. t.left > 1 /\ todo'[n] = [dst |-> t.dst, kind |-> t.kind, left |-> t.left - 1]
        BY <2>2, <2>9, <3>1 DEF Sending
      <4>2. Sending(n) BY <1>4 DEF TxArm, Sending
      <4>3. asked[n] >= 1 /\ (t.kind = "app" => t.dst = Group)
        BY <1>0, <4>2 DEF Asking
      <4> QED BY <2>1, <2>10, <3>1, <4>1, <4>3
    <3>2. CASE m # n
      BY <1>0, <2>5, <2>10, <3>2 DEF Asking, Sending
    <3> QED BY <3>1, <3>2
  <2>12. Packed' BY <1>0, <2>10 DEF Packed
  <2> QED BY <2>8, <2>11, <2>12 DEF TInv
<1>5. ASSUME NEW n \in Nodes, AckTimeout(n) PROVE TInv'
  <2> USE <1>0, <1>5 DEF AckTimeout, history, module
  <2>1. TypeOK' BY DEF TypeOK
  <2>2. Asking' BY DEF Asking, Sending, TypeOK
  <2>3. Packed' BY DEF Packed
  <2> QED BY <2>1, <2>2, <2>3 DEF TInv
<1>6. ASSUME NEW n \in Nodes, AckError(n) PROVE TInv'
  <2> USE <1>0, <1>6 DEF AckError
  <2>1. ack_timer' \in [Nodes -> BOOLEAN] BY Zenon DEF TypeOK
  <2>2. TypeOK' BY <2>1 DEF TypeOK
  <2>3. Asking' BY DEF Asking, Sending, TypeOK
  <2>4. Packed' BY DEF Packed
  <2> QED BY <2>2, <2>3, <2>4 DEF TInv
<1>7. ASSUME NEW n \in Nodes, NEW p \in air, p.to = n, ReceiveData(n, p) PROVE TInv'
  <2>1. p \in PacketType /\ p.kind = "cmd" /\ p.src # n /\ p.chunk.src = p.src
    BY <1>0, <1>7 DEF TypeOK, Packed, ReceiveData
  <2>2. /\ p.src \in Dests \ {n} /\ p.src # Group /\ p.chunk \in Chunk
        /\ p.sno \in 0 .. SnoMod - 1
    BY <2>1 DEF PacketType, Dests
  <2>3. PICK sno \in Nat :
          LET new == Packets(n, p.src, "ack", sno, p.sno, p.chunk)
          IN  /\ air' \subseteq air \cup new
              /\ fn_cmd_sno' \in {fn_cmd_sno, [fn_cmd_sno EXCEPT ![n] = sno]}
              /\ last_sno' \in {last_sno, [last_sno EXCEPT ![n] = LastSno(sno)]}
    <3>1. CASE p.dst = Group
      <4>1. air' \subseteq air /\ fn_cmd_sno' = fn_cmd_sno /\ last_sno' = last_sno
        BY <1>7, <3>1 DEF ReceiveData
      <4> QED BY <4>1
    <3>2. CASE p.dst # Group
      <4>1. PICK base \in IF fn_cmd_sno[n] = 0 THEN SnoBase ELSE {fn_cmd_sno[n]} :
              /\ fn_cmd_sno' = [fn_cmd_sno EXCEPT ![n] = base + 1]
              /\ last_sno' = [last_sno EXCEPT ![n] = LastSno(base + 1)]
              /\ air' = (air \ {p}) \cup Packets(n, p.src, "ack", base + 1, p.sno, p.chunk)
        BY <1>7, <3>2 DEF ReceiveData
      <4>2. base \in Nat /\ base + 1 \in Nat BY <1>0, <4>1 DEF TypeOK
      <4> QED BY <4>1, <4>2
    <3> QED BY <3>1, <3>2
  <2> DEFINE new == Packets(n, p.src, "ack", sno, p.sno, p.chunk)
  <2>4. \A q \in new : /\ q \in PacketType /\ q.src = n /\ q.kind = "ack"
                       /\ q.chunk = p.chunk /\ q.to = p.src
    BY <2>2, <2>3, PacketsType DEF Kinds
  <2>5. air' \subseteq air \cup new /\ delivered' = delivered \cup {p.chunk}
    BY <1>7, <2>3 DEF ReceiveData
  <2>6. TypeOK'
    <3>1. air' \subseteq PacketType BY <1>0, <2>4, <2>5 DEF TypeOK
    <3>2. fn_cmd_sno' \in [Nodes -> Nat] BY <1>0, <2>3 DEF TypeOK
    <3>3. last_sno' \in [Nodes -> 0 .. SnoMod - 1]
      BY <1>0, <2>3, LowBits DEF TypeOK
    <3>4. delivered' \subseteq Chunk BY <1>0, <2>2, <2>5 DEF TypeOK
    <3>5. UNCHANGED <<pc, todo, reg_sno, ack_timer, asked, sent, acked, oks, errors, done>>
      BY <1>7 DEF ReceiveData
    <3> QED BY <1>0, <3>1, <3>2, <3>3, <3>4, <3>5 DEF TypeOK
  <2>7. Asking' BY <1>0, <1>7 DEF ReceiveData, Asking, Sending
  <2>8. Packed'
    <3>1. \A q \in new : q.to # q.src /\ q.kind = "ack" /\ q.chunk.src = q.to
                         /\ q.chunk \in delivered'
      BY <2>1, <2>4, <2>5
    <3> QED BY <1>0, <2>5, <3>1 DEF Packed
  <2> QED BY <2>6, <2>7, <2>8 DEF TInv
<1>8. ASSUME NEW n \in Nodes, NEW p \in air, ReceiveApp(n, p) PROVE TInv'
  <2> USE <1>0, <1>8 DEF ReceiveApp, module, history
  <2>1. TypeOK' BY DEF TypeOK
  <2>2. Asking' BY DEF Asking, Sending
  <2>3. Packed' BY DEF Packed
  <2> QED BY <2>1, <2>2, <2>3 DEF TInv
<1>9. ASSUME NEW n \in Nodes, NEW p \in air, ReceiveAck(n, p) PROVE TInv'
  <2> USE <1>0, <1>9 DEF ReceiveAck
  <2>1. p.chunk \in Chunk /\ sent[n] \in Chunks BY DEF TypeOK, PacketType
  <2>2. ack_timer' \in [Nodes -> BOOLEAN] BY Zenon DEF TypeOK
  <2>3. TypeOK'
    <3>1. air' \subseteq PacketType /\ acked' \subseteq Chunk BY <1>0, <1>9, <2>1 DEF TypeOK, ReceiveAck
    <3>2. last_sno' \in [Nodes -> 0 .. SnoMod - 1] /\ oks' \subseteq Chunks
      BY <1>0, <1>9, <2>1 DEF TypeOK, ReceiveAck
    <3>3. UNCHANGED <<pc, todo, reg_sno, fn_cmd_sno, asked, sent, delivered, errors, done>>
      BY <1>9 DEF ReceiveAck
    <3> QED BY <1>0, <2>2, <3>1, <3>2, <3>3 DEF TypeOK
  <2>4. Asking' BY DEF Asking, Sending
  <2>5. Packed' BY DEF Packed
  <2> QED BY <2>3, <2>4, <2>5 DEF TInv
<1>10. CASE Lose
  <2> USE <1>0, <1>10 DEF Lose, module, history
  <2>1. TypeOK' BY DEF TypeOK
  <2>2. Asking' BY DEF Asking, Sending
  <2>3. Packed' BY DEF Packed
  <2> QED BY <2>1, <2>2, <2>3 DEF TInv
<1>11. CASE UNCHANGED vars
  <2> USE <1>0, <1>11 DEF vars, module, history
  <2>1. TypeOK' BY DEF TypeOK
  <2>2. Asking' BY DEF Asking, Sending
  <2>3. Packed' BY DEF Packed
  <2> QED BY <2>1, <2>2, <2>3 DEF TInv
<1> QED
  BY <1>1, <1>1a, <1>2, <1>3, <1>4, <1>5, <1>6, <1>7, <1>8, <1>9, <1>10, <1>11
     DEF Next, Receive

\* Every variable keeps its type: the chunk a module sends is always one of
\* those its host has asked for, and atCmd_Send never counts chunks below one.
THEOREM TypeCorrect == Spec => []TypeOK
<1>1. TInv => TypeOK BY DEF TInv
<1> QED BY <1>1, InitTInv, NextTInv, PTL DEF Spec

-----------------------------------------------------------------------------
LEMMA InitIInv == Init => IInv
<1> SUFFICES ASSUME Init PROVE IInv
  OBVIOUS
<1> USE DEF Init
<1>1. Counted /\ Numbered /\ Awaited BY DEF Counted, Numbered, Awaited
<1>2. Timed BY DEF Timed
<1>3. OkMeansDelivered BY DEF OkMeansDelivered
<1> QED BY <1>1, <1>2, <1>3 DEF IInv

LEMMA NextCounted == TInv /\ Counted /\ [Next]_vars => Counted'
<1> SUFFICES ASSUME TInv, Counted, [Next]_vars, NEW m \in Nodes, pc'[m] = "emit"
             PROVE  fn_cmd_sno'[m] >= 1
  BY DEF Counted
<1> USE AtSendAssumption
<1>0. TypeOK /\ (pc[m] = "emit" => fn_cmd_sno[m] >= 1) BY DEF TInv, Counted
<1>b. fn_cmd_sno[m] \in Nat /\ reg_sno[m] \in Nat BY <1>0 DEF TypeOK
<1>1. ASSUME pc' = pc \/ pc'[m] = pc[m], fn_cmd_sno' = fn_cmd_sno PROVE fn_cmd_sno'[m] >= 1
  BY <1>0, <1>1
<1>2. ASSUME NEW n \in Nodes, NEW dst \in Dests \ {n}, NEW kind \in {"cmd", "app"},
             NEW chunks \in 0 .. MaxChunks[n], AtCmdSend(n, dst, kind, chunks)
      PROVE  fn_cmd_sno'[m] >= 1
  BY <1>0, <1>1, <1>2 DEF AtCmdSend, TypeOK, module
<1>3. ASSUME NEW n \in Nodes, TxStore(n) PROVE fn_cmd_sno'[m] >= 1
  <2>1. fn_cmd_sno'[m] = IF m = n THEN reg_sno[m] + 1 ELSE fn_cmd_sno[m]
    BY <1>0, <1>3 DEF TxStore, TypeOK
  <2>2. m # n => pc'[m] = pc[m] BY <1>0, <1>3 DEF TxStore, TypeOK
  <2> QED BY <1>0, <1>b, <2>1, <2>2
<1>4. ASSUME NEW n \in Nodes, TxLoad(n) \/ TxBase(n) PROVE fn_cmd_sno'[m] >= 1
  <2>1. m # n BY <1>0, <1>4 DEF TxLoad, TxBase, TypeOK
  <2>2. pc'[m] = pc[m] /\ fn_cmd_sno'[m] = fn_cmd_sno[m]
    BY <1>0, <1>4, <2>1 DEF TxLoad, TxBase, TypeOK, module
  <2> QED BY <1>0, <2>2
<1>5. ASSUME NEW n \in Nodes, NEW p \in air, ReceiveData(n, p) PROVE fn_cmd_sno'[m] >= 1
  <2>1. pc' = pc BY <1>5 DEF ReceiveData
  <2>2. CASE fn_cmd_sno' = fn_cmd_sno BY <1>1, <2>1, <2>2
  <2>3. CASE fn_cmd_sno' # fn_cmd_sno
    <3>1. PICK base \in IF fn_cmd_sno[n] = 0 THEN SnoBase ELSE {fn_cmd_sno[n]} :
            fn_cmd_sno' = [fn_cmd_sno EXCEPT ![n] = base + 1]
      BY <1>5, <2>3 DEF ReceiveData
    <3>2. base \in Nat BY <1>0, <3>1 DEF TypeOK
    <3> QED BY <1>0, <2>1, <3>1, <3>2 DEF TypeOK
  <2> QED BY <2>2, <2>3
<1>6. ASSUME NEW n \in Nodes,
             \/ AtCmdSendPhone(n) \/ TxEmit(n) \/ TxArm(n) \/ AckTimeout(n) \/ AckError(n)
      PROVE  fn_cmd_sno'[m] >= 1
  <2>1. fn_cmd_sno' = fn_cmd_sno
    BY <1>6 DEF AtCmdSendPhone, TxEmit, TxArm, AckTimeout, AckError, module
  <2>2. pc'[m] = pc[m]
    BY <1>0, <1>6 DEF AtCmdSendPhone, TxEmit, TxArm, AckTimeout, AckError, TypeOK
  <2> QED BY <1>1, <2>1, <2>2
<1>7. ASSUME NEW n \in Nodes, NEW p \in air, ReceiveApp(n, p) \/ ReceiveAck(n, p)
      PROVE  fn_cmd_sno'[m] >= 1
  BY <1>1, <1>7 DEF ReceiveApp, ReceiveAck, module
<1>8. CASE Lose BY <1>1, <1>8 DEF Lose, module
<1>9. CASE UNCHANGED vars BY <1>1, <1>9 DEF vars, module
<1> QED
  BY <1>2, <1>3, <1>4, <1>5, <1>6, <1>7, <1>8, <1>9 DEF Next, Receive

\* While the number of a module has not reached SnoMod, last_sno holds it whole.
LEMMA NextIInv == TInv /\ NoWrap /\ NoWrap' /\ IInv /\ [Next]_vars => IInv'
<1> SUFFICES ASSUME TInv, NoWrap, NoWrap', IInv, [Next]_vars PROVE IInv'
  OBVIOUS
<1> USE AtSendAssumption
<1>0. /\ TypeOK /\ Asking /\ Packed
      /\ Numbered /\ Awaited /\ Timed /\ OkMeansDelivered
  BY DEF TInv, IInv
<1>a. \A p \in air : p \in PacketType /\ p.src \in Nodes /\ p.to \in Nodes
                     /\ p.sno \in Nat /\ p.echo \in Nat /\ p.chunk \in Chunk
  BY <1>0 DEF TypeOK, PacketType
<1>c. Counted /\ Counted' BY NextCounted DEF IInv
<1>b. \A n \in Nodes : fn_cmd_sno[n] \in Nat /\ reg_sno[n] \in Nat
  BY <1>0 DEF TypeOK
<1>1. ASSUME NEW n \in Nodes, NEW dst \in Dests \ {n}, NEW kind \in {"cmd", "app"},
             NEW chunks \in 0 .. MaxChunks[n], AtCmdSend(n, dst, kind, chunks)
      PROVE  IInv'
  <2>1. /\ UNCHANGED <<reg_sno, fn_cmd_sno, last_sno, ack_timer, air, sent, delivered, oks, errors>>
        /\ pc[n] = "loop" /\ pc'[n] \in {"loop", "load"}
        /\ \A m \in Nodes : m # n => pc'[m] = pc[m] /\ todo'[m] = todo[m]
    BY <1>0, <1>1 DEF AtCmdSend, module, TypeOK
  <2>2. Numbered'
    <3>1. \A m \in Nodes, s \in Nat : Below(m, s) => Below(m, s)'
      BY <1>b, <2>1 DEF Below
    <3> QED BY <1>0, <1>a, <2>1, <3>1 DEF Numbered
  <2>3. Awaited' BY <1>0, <2>1 DEF Awaited
  <2>4. Timed' BY <1>0, <2>1 DEF Timed
  <2>5. OkMeansDelivered' BY <1>0, <2>1 DEF OkMeansDelivered
  <2> QED BY <1>c, <2>2, <2>3, <2>4, <2>5 DEF IInv
<1>1a. ASSUME NEW n \in Nodes, AtCmdSendPhone(n) PROVE IInv'
  <2> USE <1>0, <1>1a DEF AtCmdSendPhone, module
  <2>1. Numbered' BY <1>a DEF Numbered, Below
  <2>2. Awaited' BY DEF Awaited
  <2>3. Timed' BY DEF Timed
  <2>4. OkMeansDelivered' BY DEF OkMeansDelivered
  <2> QED BY <1>c, <2>1, <2>2, <2>3, <2>4 DEF IInv
<1>2. ASSUME NEW n \in Nodes, TxLoad(n) \/ TxBase(n) \/ TxStore(n) PROVE IInv'
  <2>1. /\ UNCHANGED <<todo, last_sno, ack_timer, air, sent, delivered, oks, errors>>
        /\ pc[n] \in {"load", "base", "store"} /\ pc'[n] \in {"base", "store", "emit"}
        /\ \A m \in Nodes : m # n => pc'[m] = pc[m] /\ reg_sno'[m] = reg_sno[m]
                                    /\ fn_cmd_sno'[m] = fn_cmd_sno[m]
    BY <1>0, <1>2 DEF TxLoad, TxBase, TxStore, module, history, TypeOK
  <2>2. \A m \in Nodes, s \in Nat : Below(m, s) => Below(m, s)'
    <3> SUFFICES ASSUME NEW s \in Nat, Below(n, s) PROVE Below(n, s)'
      BY <1>b, <2>1 DEF Below
    <3>1. CASE TxLoad(n)
      <4>1. fn_cmd_sno[n] # 0 BY <1>b DEF Below
      <4>2. pc'[n] = "store" /\ reg_sno'[n] = fn_cmd_sno[n] /\ fn_cmd_sno' = fn_cmd_sno
        BY <1>0, <3>1, <4>1 DEF TxLoad, TypeOK, module
      <4> QED BY <1>b, <4>2 DEF Below
    <3>2. CASE TxBase(n) BY <3>2 DEF TxBase, Below
    <3>3. CASE TxStore(n)
      <4>1. pc[n] = "store" /\ pc'[n] = "emit" /\ fn_cmd_sno'[n] = reg_sno[n] + 1
        BY <1>0, <3>3 DEF TxStore, TypeOK
      <4> QED BY <1>b, <4>1 DEF Below
    <3> QED BY <1>2, <3>1, <3>2, <3>3
  <2>3. Numbered' BY <1>0, <1>a, <2>1, <2>2 DEF Numbered
  <2>4. Awaited' BY <1>0, <2>1 DEF Awaited
  <2>5. Timed'
    <3>1. \A m \in Nodes : pc'[m] \in {"late", "arm"} => pc'[m] = pc[m] BY <2>1
    <3> QED BY <1>0, <2>1, <3>1 DEF Timed
  <2>6. OkMeansDelivered' BY <1>0, <2>1 DEF OkMeansDelivered
  <2> QED BY <1>c, <2>3, <2>4, <2>5, <2>6 DEF IInv
<1>3. ASSUME NEW n \in Nodes, TxEmit(n) PROVE IInv'
  <2> DEFINE t == todo[n]
             chunk == [src |-> n, id |-> asked[n], no |-> t.left]
             sno == fn_cmd_sno[n]
             new == Packets(n, t.dst, t.kind, sno, 0, chunk)
  <2>1. Sending(n) /\ t.dst \in Dests \ {n} /\ t.kind \in {"cmd", "app"} /\ t.kind \in Kinds
    BY <1>0, <1>3 DEF TxEmit, Sending, Asking, TypeOK, Kinds
  <2>2. chunk \in Chunk BY <2>1, ChunkType DEF TInv
  <2>3. sno \in Nat /\ LastSno(sno) = sno BY <1>b, LowBits DEF NoWrap
  <2>4. \A p \in new : /\ p.src = n /\ p.dst = t.dst /\ p.kind = t.kind
                       /\ p.sno = sno /\ p.chunk = chunk
    <3>1. 0 \in 0 .. SnoMod - 1 OBVIOUS
    <3> HIDE DEF chunk, t, sno
    <3> QED BY <2>1, <2>2, <2>3, <3>1, PacketsType
  <2>5. /\ air' = air \cup new /\ fn_cmd_sno' = fn_cmd_sno /\ reg_sno' = reg_sno
        /\ last_sno' = [last_sno EXCEPT ![n] = sno]
        /\ sent' = [sent EXCEPT ![n] = IF t.dst # Group THEN chunk ELSE @]
        /\ pc[n] = "emit" /\ pc' = [pc EXCEPT ![n] = "arm"]
    BY <1>3, <2>3 DEF TxEmit
  <2> HIDE DEF new, chunk, sno
  <2>6. \A m \in Nodes, s \in Nat : Below(m, s) => Below(m, s)'
    BY <1>0, <1>b, <2>5 DEF Below, TypeOK
  <2>7. Numbered'
    <3> SUFFICES ASSUME NEW p \in air'
                 PROVE  /\ p.kind = "cmd" => Below(p.src, p.sno)'
                        /\ p.kind = "ack" => Below(p.to, p.echo)'
      BY DEF Numbered
    <3>1. CASE p \in air BY <1>0, <1>a, <2>6, <3>1 DEF Numbered
    <3>2. CASE p \in new
      <4>1. p.src = n /\ p.sno = sno /\ p.kind # "ack" BY <2>1, <2>4, <3>2
      <4>2. sno >= 1 /\ sno <= fn_cmd_sno'[n] /\ pc'[n] = "arm"
        BY <1>0, <1>b, <1>c, <2>5 DEF TypeOK, Counted, sno
      <4>3. Below(p.src, p.sno)' BY <4>1, <4>2 DEF Below
      <4> QED BY <4>1, <4>3
    <3> QED BY <2>5, <3>1, <3>2
  <2>8. Awaited'
    <3> SUFFICES ASSUME NEW p \in air'
                 PROVE  /\ p.kind = "cmd" /\ p.dst # Group /\ p.sno = last_sno'[p.src]
                             => p.chunk = sent'[p.src]
                        /\ p.kind = "ack" /\ p.echo = last_sno'[p.to] => p.chunk = sent'[p.to]
      BY DEF Awaited
    <3>0. \A m \in Nodes : m # n => last_sno'[m] = last_sno[m] /\ sent'[m] = sent[m]
      BY <1>0, <2>5 DEF TypeOK
    <3>1. last_sno'[n] = sno /\ (t.dst # Group => sent'[n] = chunk)
      BY <1>0, <2>5 DEF TypeOK
    <3>2. CASE p \in air
      <4>1. p.kind = "cmd" /\ p.src = n => p.sno # sno
        BY <1>0, <1>a, <1>b, <2>5, <3>2 DEF Numbered, Below, sno
      <4>2. p.kind = "ack" /\ p.to = n => p.echo # sno
        BY <1>0, <1>a, <1>b, <2>5, <3>2 DEF Numbered, Below, sno
      <4> QED BY <1>0, <1>a, <3>0, <3>1, <3>2, <4>1, <4>2 DEF Awaited
    <3>3. CASE p \in new BY <2>1, <2>4, <3>1, <3>3
    <3> QED BY <2>5, <3>2, <3>3
  <2>9. Timed'
    <3> SUFFICES ASSUME NEW m \in Nodes,
                        \/ pc'[m] = "late" \/ ack_timer'[m]
                        \/ pc'[m] = "arm" /\ todo'[m].dst # Group
                 PROVE  sent'[m] # NoChunk
      BY DEF Timed
    <3>1. CASE m = n
      <4>1. CASE t.dst # Group
        <5>1. sent'[m] = chunk BY <1>0, <2>5, <3>1, <4>1 DEF TypeOK
        <5> QED BY <2>2, <5>1, NoChunkIsNone
      <4>2. CASE t.dst = Group
        <5>1. sent'[m] = sent[m] BY <1>0, <2>5, <3>1, <4>2 DEF TypeOK
        <5>2. pc'[n] = "arm" /\ todo' = todo /\ ack_timer' = ack_timer
          BY <1>0, <1>3 DEF TxEmit, TypeOK
        <5>3. ack_timer[m] BY <3>1, <4>2, <5>2
        <5> QED BY <1>0, <5>1, <5>3 DEF Timed
      <4> QED BY <4>1, <4>2
    <3>2. CASE m # n
      <4>1. sent'[m] = sent[m] /\ pc'[m] = pc[m] BY <1>0, <2>5, <3>2 DEF TypeOK
      <4>2. todo' = todo /\ ack_timer' = ack_timer BY <1>3 DEF TxEmit
      <4> QED BY <1>0, <4>1, <4>2 DEF Timed
    <3> QED BY <3>1, <3>2
  <2>10. OkMeansDelivered' BY <1>0, <1>3 DEF TxEmit, OkMeansDelivered
  <2> QED BY <1>c, <2>7, <2>8, <2>9, <2>10 DEF IInv
<1>4. ASSUME NEW n \in Nodes, TxArm(n) PROVE IInv'
  <2>1. /\ UNCHANGED <<reg_sno, fn_cmd_sno, last_sno, air, sent, oks, delivered, errors>>
        /\ pc[n] = "arm" /\ pc'[n] \in {"load", "loop"}
        /\ \A m \in Nodes : m # n => pc'[m] = pc[m] /\ todo'[m] = todo[m]
    BY <1>0, <1>4 DEF TxArm, TypeOK, history
  <2>2. \A m \in Nodes : ack_timer'[m] => ack_timer[m] \/ (m = n /\ todo[n].dst # Group)
    BY <1>0, <1>4 DEF TxArm, TypeOK, Arms
  <2>3. Numbered' BY <1>0, <1>a, <2>1 DEF Numbered, Below
  <2>4. Awaited' BY <1>0, <2>1 DEF Awaited
  <2>5. Timed'
    <3> SUFFICES ASSUME NEW m \in Nodes,
                        \/ pc'[m] = "late" \/ ack_timer'[m]
                        \/ pc'[m] = "arm" /\ todo'[m].dst # Group
                 PROVE  sent[m] # NoChunk
      BY <2>1 DEF Timed
    <3> QED BY <1>0, <2>1, <2>2 DEF Timed
  <2>6. OkMeansDelivered' BY <1>0, <2>1 DEF OkMeansDelivered
  <2> QED BY <1>c, <2>3, <2>4, <2>5, <2>6 DEF IInv
<1>5. ASSUME NEW n \in Nodes, AckTimeout(n) PROVE IInv'
  <2> USE <1>0, <1>5 DEF AckTimeout, module, history
  <2>1. Numbered' BY <1>a DEF Numbered, Below, TypeOK
  <2>2. Awaited' BY DEF Awaited
  <2>3. Timed' BY DEF Timed, TypeOK
  <2>4. OkMeansDelivered' BY DEF OkMeansDelivered
  <2> QED BY <1>c, <2>1, <2>2, <2>3, <2>4 DEF IInv
<1>6. ASSUME NEW n \in Nodes, AckError(n) PROVE IInv'
  <2> USE <1>0, <1>6 DEF AckError
  <2>1. Numbered' BY <1>a DEF Numbered, Below, TypeOK
  <2>2. Awaited'
    <3>1. \A m \in Nodes : last_sno'[m] = IF m = n THEN 0 ELSE last_sno[m] BY DEF TypeOK
    <3>2. \A p \in air : /\ p.kind = "cmd" => p.sno # 0
                         /\ p.kind = "ack" => p.echo # 0
      BY DEF Numbered, Below
    <3> QED BY <1>a, <3>1, <3>2 DEF Awaited
  <2>3. Timed' BY DEF Timed, TypeOK
  <2>4. OkMeansDelivered' BY DEF OkMeansDelivered, Timed
  <2> QED BY <1>c, <2>1, <2>2, <2>3, <2>4 DEF IInv
<1>7. ASSUME NEW n \in Nodes, NEW p \in air, p.to = n, ReceiveData(n, p) PROVE IInv'
  <2>1. p.kind = "cmd" /\ p.src \in Nodes \ {n} /\ Below(p.src, p.sno)
    BY <1>0, <1>a, <1>7 DEF Packed, ReceiveData, Numbered
  <2>2. UNCHANGED <<pc, todo, reg_sno, ack_timer, sent, oks, errors>> /\ delivered \subseteq delivered'
    BY <1>7 DEF ReceiveData
  <2>3. Timed' BY <1>0, <2>2 DEF Timed
  <2>4. OkMeansDelivered' BY <1>0, <2>2 DEF OkMeansDelivered
  <2>5. CASE p.dst = Group
    <3>1. air' \subseteq air /\ fn_cmd_sno' = fn_cmd_sno /\ last_sno' = last_sno
      BY <1>7, <2>5 DEF ReceiveData
    <3>2. Numbered' BY <1>0, <1>a, <2>2, <3>1 DEF Numbered, Below
    <3>3. Awaited' BY <1>0, <2>2, <3>1 DEF Awaited
    <3> QED BY <1>c, <2>3, <2>4, <3>2, <3>3 DEF IInv
  <2>6. CASE p.dst # Group
    <3>0. PICK base \in IF fn_cmd_sno[n] = 0 THEN SnoBase ELSE {fn_cmd_sno[n]} :
            /\ fn_cmd_sno' = [fn_cmd_sno EXCEPT ![n] = base + 1]
            /\ last_sno' = [last_sno EXCEPT ![n] = LastSno(base + 1)]
            /\ air' = (air \ {p}) \cup Packets(n, p.src, "ack", base + 1, p.sno, p.chunk)
      BY <1>7, <2>6 DEF ReceiveData
    <3> DEFINE sno == base + 1
               new == Packets(n, p.src, "ack", sno, p.sno, p.chunk)
    <3>1. /\ air' \subseteq air \cup new
          /\ fn_cmd_sno' = [fn_cmd_sno EXCEPT ![n] = sno]
          /\ last_sno' = [last_sno EXCEPT ![n] = LastSno(sno)]
      BY <3>0
    <3>2. sno \in Nat /\ LastSno(sno) = sno
      <4>1. base \in Nat /\ sno \in Nat BY <1>b, <3>0
      <4>2. fn_cmd_sno'[n] = sno BY <1>0, <3>1 DEF TypeOK
      <4>3. sno < SnoMod BY <4>2 DEF NoWrap
      <4> QED BY <4>1, <4>3, LowBits
    <3>2a. fn_cmd_sno[n] < sno
      BY <1>b, <3>0
    <3> HIDE DEF sno
    <3>3. \A q \in new : q.kind = "ack" /\ q.chunk = p.chunk /\ q.to = p.src /\ q.echo = p.sno
      <4>1. /\ p.src \in Dests \ {n} /\ p.src # Group /\ "ack" \in Kinds
            /\ p.sno \in 0 .. SnoMod - 1 /\ p.chunk \in Chunk
        BY <1>0, <2>1 DEF Dests, Kinds, TypeOK, PacketType
      <4> QED BY <3>2, <4>1, PacketsType
    <3> HIDE DEF new
    <3>4. \A m \in Nodes, s \in Nat : Below(m, s) => Below(m, s)'
      BY <1>0, <1>b, <2>2, <3>1, <3>2, <3>2a DEF Below, TypeOK
    <3>5. Numbered'
      <4>1. ASSUME NEW q \in air' PROVE /\ q.kind = "cmd" => Below(q.src, q.sno)'
                                        /\ q.kind = "ack" => Below(q.to, q.echo)'
        <5>1. CASE q \in air BY <1>0, <1>a, <3>4, <5>1 DEF Numbered
        <5>2. CASE q \in new BY <1>a, <2>1, <3>3, <3>4, <5>2
        <5> QED BY <3>1, <5>1, <5>2
      <4> QED BY <4>1 DEF Numbered
    <3>6. Awaited'
      <4> SUFFICES ASSUME NEW q \in air'
                   PROVE  /\ q.kind = "cmd" /\ q.dst # Group /\ q.sno = last_sno'[q.src]
                               => q.chunk = sent'[q.src]
                          /\ q.kind = "ack" /\ q.echo = last_sno'[q.to]
                               => q.chunk = sent'[q.to]
        BY DEF Awaited
      <4>1. \A m \in Nodes : last_sno'[m] = IF m = n THEN sno ELSE last_sno[m]
        BY <1>0, <3>1, <3>2 DEF TypeOK
      <4>2. CASE q \in air
        <5>1. q.kind = "cmd" /\ q.src = n => q.sno # sno
          BY <1>0, <1>a, <1>b, <3>2, <3>2a, <4>2 DEF Numbered, Below
        <5>2. q.kind = "ack" /\ q.to = n => q.echo # sno
          BY <1>0, <1>a, <1>b, <3>2, <3>2a, <4>2 DEF Numbered, Below
        <5> QED BY <1>0, <1>a, <2>2, <4>1, <4>2, <5>1, <5>2 DEF Awaited
      <4>3. CASE q \in new
        <5>1. p.sno = last_sno[p.src] => p.chunk = sent[p.src]
          BY <1>0, <2>1, <2>6 DEF Awaited
        <5> QED BY <2>1, <2>2, <3>3, <4>1, <4>3, <5>1
      <4> QED BY <3>1, <4>2, <4>3
    <3> QED BY <1>c, <2>3, <2>4, <3>5, <3>6 DEF IInv
  <2> QED BY <2>5, <2>6
<1>8. ASSUME NEW n \in Nodes, NEW p \in air, ReceiveApp(n, p) PROVE IInv'
  <2> USE <1>0, <1>8 DEF ReceiveApp, module, history
  <2>1. Numbered' BY <1>a DEF Numbered, Below
  <2>2. Awaited' BY DEF Awaited
  <2>3. Timed' BY DEF Timed
  <2>4. OkMeansDelivered' BY DEF OkMeansDelivered
  <2> QED BY <1>c, <2>1, <2>2, <2>3, <2>4 DEF IInv
<1>9. ASSUME NEW n \in Nodes, NEW p \in air, p.to = n, ReceiveAck(n, p) PROVE IInv'
  <2>1. /\ p.kind = "ack" /\ air' \subseteq air
        /\ UNCHANGED <<pc, todo, reg_sno, fn_cmd_sno, sent, delivered, errors>>
    BY <1>9 DEF ReceiveAck
  <2>2. Numbered' BY <1>0, <1>a, <2>1 DEF Numbered, Below
  <2>3. CASE Matches(n, p)
    <3>1. /\ last_sno' = [last_sno EXCEPT ![n] = 0]
          /\ ack_timer' = [ack_timer EXCEPT ![n] = FALSE]
          /\ oks' = oks \cup {sent[n]}
      BY <1>9, <2>3 DEF ReceiveAck
    <3>2. sent[n] = p.chunk BY <1>0, <1>9, <2>1, <2>3 DEF Awaited, Matches
    <3>3. sent[n] \in delivered /\ sent[n] # NoChunk
      BY <1>0, <1>a, <2>1, <3>2, NoChunkIsNone DEF Packed
    <3>4. OkMeansDelivered' BY <1>0, <2>1, <3>1, <3>3 DEF OkMeansDelivered
    <3>5. Timed' BY <1>0, <2>1, <3>1 DEF Timed, TypeOK
    <3>6. Awaited'
      <4>1. \A m \in Nodes : last_sno'[m] = IF m = n THEN 0 ELSE last_sno[m]
        BY <1>0, <3>1 DEF TypeOK
      <4>2. \A q \in air : /\ q.kind = "cmd" => q.sno # 0
                           /\ q.kind = "ack" => q.echo # 0
        BY <1>0 DEF Numbered, Below
      <4> QED BY <1>0, <1>a, <2>1, <4>1, <4>2 DEF Awaited
    <3> QED BY <1>c, <2>2, <3>4, <3>5, <3>6 DEF IInv
  <2>4. CASE ~Matches(n, p)
    <3>1. UNCHANGED <<last_sno, ack_timer, oks>> BY <1>9, <2>4 DEF ReceiveAck
    <3>2. Awaited' BY <1>0, <2>1, <3>1 DEF Awaited
    <3>3. Timed' BY <1>0, <2>1, <3>1 DEF Timed
    <3>4. OkMeansDelivered' BY <1>0, <2>1, <3>1 DEF OkMeansDelivered
    <3> QED BY <1>c, <2>2, <3>2, <3>3, <3>4 DEF IInv
  <2> QED BY <2>3, <2>4
<1>10. CASE Lose
  <2> USE <1>0, <1>10 DEF Lose, module, history
  <2>1. Numbered' BY <1>a DEF Numbered, Below
  <2>2. Awaited' BY DEF Awaited
  <2>3. Timed' BY DEF Timed
  <2>4. OkMeansDelivered' BY DEF OkMeansDelivered
  <2> QED BY <1>c, <2>1, <2>2, <2>3, <2>4 DEF IInv
<1>11. CASE UNCHANGED vars
  <2> USE <1>0, <1>11 DEF vars, module, history
  <2>1. Numbered' BY <1>a DEF Numbered, Below
  <2>2. Awaited' BY DEF Awaited
  <2>3. Timed' BY DEF Timed
  <2>4. OkMeansDelivered' BY DEF OkMeansDelivered
  <2> QED BY <1>c, <2>1, <2>2, <2>3, <2>4 DEF IInv
<1> QED
  BY <1>1, <1>1a, <1>2, <1>3, <1>4, <1>5, <1>6, <1>7, <1>8, <1>9, <1>10, <1>11
     DEF Next, Receive

\* An ACK makes a module print OK only for data that the receiver has printed,
\* for any number of modules and commands, whatever packets are lost or late and
\* wherever the radio interrupt falls, in the middle of fn_cmd_sno++ included:
\* last_sno never matches a stale ACK.  (The OK that a command to everybody or to
\* the phone returns says nothing about delivery.)  The hypothesis is
\* that no module has used up its 24-bit sequence numbers: after that an old
\* ACK could echo the 0 that stands for "nothing is waited for".
THEOREM OkOnlyIfDelivered == Spec /\ []NoWrap => []OkMeansDelivered
<1>1. IInv => OkMeansDelivered BY DEF IInv
<1> QED BY <1>1, InitTInv, NextTInv, InitIInv, NextIInv, PTL DEF Spec

-----------------------------------------------------------------------------
(* The serial line. *)

\* The places of the main loop while an answer is printed, and those where the
\* buffer has characters that are still to be sent.
Printing == {"text", "put", "count", "full", "tail", "send", "copy length", "copy data",
             "start", "reset", "wait"}
Filling == {"put", "count", "full", "tail"}
Copying == {"copy length", "copy data", "start"}

\* At most one line is on its way from the host to at_data_process, the latest;
\* the lines before it are handled, or a reboot has thrown them away.
Incoming == dma \/ uart_rx_true \/ stage \in {"copy", "process"}
OnItsWay ==
  /\ lost \subseteq 1 .. lines /\ handled <= lines
  /\ dma => ~uart_rx_true
  /\ dma \/ uart_rx_true => stage \notin {"copy", "process"}
  /\ dma \/ uart_rx_true \/ stage = "copy" => rx.no = lines
  /\ stage = "process" => line.no = lines
  /\ IF Incoming THEN lines > handled /\ lines \notin lost ELSE lines = handled \/ lines \in lost
  /\ \A k \in 1 .. MaxLines : handled < k /\ k < lines => k \in lost

\* The length is what the main loop has last seen, or the interrupt has reset it.
Control ==
  /\ stage \in Printing => handled >= 1 /\ text <= Len(Answers[line.kind])
                        /\ left <= EndOf(line.kind, text)
  /\ stage \notin Printing \/ stage \in {"text", "tail"} => left = 0
  /\ stage = "put" => left > 0
  /\ stage \in {"put", "count"} => reg < BufLen
  /\ stage \in Filling \cup {"send"} => len \in {0, reg}
  /\ stage \in Copying => len \in {0, size}
  /\ stage = "wait" => len = 0 /\ reg = 0
  /\ busy => stage \in {"reset", "wait"}

\* What is heard, h, are characters of answer m in their order, and of the radio.
Orderly(h, m) ==
  \A p \in DOMAIN h : h[p] # Other =>
    /\ h[p][1] = m
    /\ \A q \in DOMAIN h : p < q /\ h[q] # Other => h[p][2] < h[q][2]
\* None of them is beyond the first k.
Upto(h, k) == \A p \in DOMAIN h : h[p] # Other => h[p][2] <= k

\* The first n characters of d can be sent after h: those of answer m are in
\* their order, follow what has been heard of it and are not beyond the first k.
Fits(d, n, h, m, k) ==
  \A p \in 1 .. n : d[p] # Other =>
    /\ d[p][1] = m /\ d[p][2] <= k
    /\ \A j \in DOMAIN h : h[j] # Other => h[j][2] < d[p][2]
    /\ \A q \in 1 .. n : p < q /\ d[q] # Other => d[p][2] < d[q][2]
Fresh(d, n) == Fits(d, n, heard, handled, Printed)

Heard == Orderly(heard, handled) /\ (stage \in Printing => Upto(heard, Printed))
Buffered ==
  /\ stage \in {"put", "full", "tail", "send"} => Fresh(data, reg)
  /\ stage = "count" => Fresh(data, reg + 1)
  /\ stage \in {"copy length", "copy data"} => Fresh(data, size)
  /\ stage = "copy data" => tx.len <= size \/ \A p \in 1 .. tx.len : tx.data[p] = Other
  /\ stage = "start" => Fresh(tx.data, tx.len)

\* While the radio is quiet, what has been heard and what is in the buffer is
\* what has been printed.
Pending == IF stage = "count" THEN len + 1
           ELSE IF stage \in Filling \cup Copying \cup {"send"} THEN len ELSE 0
Undisturbed ==
  /\ quiet /\ stage \in Printing =>
       /\ Len(heard) + Pending = Printed
       /\ \A p \in DOMAIN heard : heard[p] = <<handled, p>>
       /\ \A p \in 1 .. Pending : data[p] = <<handled, Len(heard) + p>>
       /\ stage \in Filling \cup {"send"} => len = reg
       /\ stage \in Copying => len = size
       /\ stage \in {"copy data", "start"} => tx.len = size
       /\ stage = "start" => \A p \in 1 .. size : tx.data[p] = data[p]
  /\ quiet /\ stage = "done" => heard = Whole(line.kind)

HeardInv == Heard /\ Buffered /\ Undisturbed

-----------------------------------------------------------------------------
(* OnItsWay.                                                                   *)

LEMMA Bounds ==
  ASSUME UartTypeOK
  PROVE  /\ MaxLines \in Nat /\ BufLen \in Nat \ {0} /\ MaxRadio \in Nat
         /\ lines \in Nat /\ handled \in Nat /\ lines <= MaxLines /\ handled <= MaxLines
         /\ lost \subseteq 1 .. MaxLines
         /\ rx.no \in Nat /\ line.no \in Nat
<1>1. MaxLines \in Nat /\ BufLen \in Nat \ {0} /\ MaxRadio \in Nat BY AtUartAssumption
<1>2. /\ lines \in 0 .. MaxLines /\ handled \in 0 .. MaxLines /\ lost \subseteq 1 .. MaxLines
      /\ rx \in Line /\ line \in Line
  BY DEF UartTypeOK
<1>3. rx.no \in Nat /\ line.no \in Nat BY <1>1, <1>2 DEF Line
<1> QED BY <1>1, <1>2, <1>3

\* A step that neither takes a line nor gives one to at_data_process.
LEMMA SameOnItsWay ==
  ASSUME OnItsWay, UNCHANGED <<lines, receiver, handled, lost>>,
         stage' = stage \/ {stage, stage'} \cap {"copy", "process"} = {}
  PROVE  OnItsWay'
<1>1. Incoming' <=> Incoming BY DEF Incoming, receiver
<1>2. /\ stage' = "copy" <=> stage = "copy"
      /\ stage' = "process" <=> stage = "process"
  OBVIOUS
<1>3. UNCHANGED <<lines, rx, dma, uart_rx_true, line, handled, lost>> BY DEF receiver
<1> QED BY <1>1, <1>2, <1>3 DEF OnItsWay

LEMMA HostSendOnItsWay ==
  ASSUME UartTypeOK, OnItsWay, NEW k \in LineKinds, HostSend(k) PROVE OnItsWay'
<1>1. /\ lines = handled \/ lines \in lost
      /\ rx'.no = lines + 1 /\ lines' = lines + 1 /\ dma' = TRUE
      /\ UNCHANGED <<uart_rx_true, line, stage, handled, lost>>
  BY DEF HostSend, seen
<1>2. ~Incoming BY <1>1, Bounds DEF OnItsWay
<1>3. ~uart_rx_true /\ stage \notin {"copy", "process"} BY <1>2 DEF Incoming
<1>4. Incoming' BY <1>1 DEF Incoming
<1>5. lost \subseteq 1 .. lines /\ handled <= lines BY DEF OnItsWay
<1>6. lost' \subseteq 1 .. lines' /\ handled' <= lines' /\ lines' > handled' /\ lines' \notin lost'
  BY <1>1, <1>5, Bounds
<1>7. ASSUME NEW i \in 1 .. MaxLines, handled < i, i < lines + 1 PROVE i \in lost
  <2>1. i = lines \/ i < lines BY <1>7, Bounds
  <2> QED BY <1>1, <1>7, <2>1 DEF OnItsWay
<1> QED BY <1>1, <1>3, <1>4, <1>6, <1>7 DEF OnItsWay

LEMMA TakeOnItsWay ==
  ASSUME UartTypeOK, OnItsWay, UartIrq \/ Take \/ Copy \/ Process PROVE OnItsWay'
<1>1. CASE UartIrq
  <2>1. /\ dma /\ dma' = FALSE /\ uart_rx_true' = TRUE
        /\ UNCHANGED <<lines, rx, line, stage, handled, lost>>
    BY <1>1 DEF UartIrq, seen
  <2>2. Incoming /\ Incoming' BY <2>1 DEF Incoming
  <2>3. stage \notin {"copy", "process"} /\ rx.no = lines BY <2>1 DEF OnItsWay
  <2> QED BY <2>1, <2>2, <2>3 DEF OnItsWay
<1>2. CASE Take
  <2>1. /\ stage = "loop" /\ uart_rx_true /\ uart_rx_true' = FALSE /\ stage' = "copy"
        /\ UNCHANGED <<lines, rx, dma, line, handled, lost>>
    BY <1>2 DEF Take, seen
  <2>2. Incoming /\ Incoming' BY <2>1 DEF Incoming
  <2>3. ~dma /\ rx.no = lines BY <2>1 DEF OnItsWay
  <2> QED BY <2>1, <2>2, <2>3 DEF OnItsWay
<1>3. CASE Copy
  <2>1. /\ stage = "copy" /\ line' = rx /\ stage' = "process"
        /\ UNCHANGED <<lines, rx, dma, uart_rx_true, handled, lost>>
    BY <1>3 DEF Copy, seen
  <2>2. Incoming /\ Incoming' BY <2>1 DEF Incoming
  <2>3. ~dma /\ ~uart_rx_true /\ rx.no = lines BY <2>1 DEF OnItsWay
  <2> QED BY <2>1, <2>2, <2>3 DEF OnItsWay
<1>4. CASE Process
  <2>1. /\ stage = "process" /\ handled' = line.no /\ stage' = "text"
        /\ UNCHANGED <<lines, rx, dma, uart_rx_true, line, lost>>
    BY <1>4 DEF Process, receiver
  <2>2. line.no = lines /\ ~dma /\ ~uart_rx_true BY <2>1 DEF OnItsWay
  <2>3. ~Incoming' BY <2>1, <2>2 DEF Incoming
  <2>4. lost \subseteq 1 .. lines BY DEF OnItsWay
  <2> QED BY <2>1, <2>2, <2>3, <2>4, Bounds DEF OnItsWay
<1> QED BY <1>1, <1>2, <1>3, <1>4

LEMMA RebootOnItsWay ==
  ASSUME UartTypeOK, OnItsWay, DoneReboot PROVE OnItsWay'
<1>1. /\ stage = "done" /\ stage' = "loop" /\ dma' = FALSE /\ uart_rx_true' = FALSE
      /\ lost' = IF lines > handled THEN lost \cup {lines} ELSE lost
      /\ UNCHANGED <<lines, handled>>
  BY DEF DoneReboot
<1>2. ~Incoming' BY <1>1 DEF Incoming
<1>3. lost \subseteq 1 .. lines /\ handled <= lines BY DEF OnItsWay
<1>4. lost' \subseteq 1 .. lines /\ lost \subseteq lost'
  <2>1. CASE lines > handled
    <3>1. lines \in 1 .. lines BY <2>1, Bounds
    <3> QED BY <1>1, <1>3, <2>1, <3>1
  <2>2. CASE ~(lines > handled) BY <1>1, <1>3, <2>2
  <2> QED BY <2>1, <2>2
<1>5. lines = handled \/ lines \in lost' BY <1>1, <1>3, Bounds
<1>6. \A k \in 1 .. MaxLines : handled < k /\ k < lines => k \in lost' BY <1>4 DEF OnItsWay
<1> QED BY <1>1, <1>2, <1>3, <1>4, <1>5, <1>6 DEF OnItsWay

LEMMA NextOnItsWay == UartTypeOK /\ OnItsWay /\ [UartNext]_UartVars => OnItsWay'
<1> SUFFICES ASSUME UartTypeOK, OnItsWay, [UartNext]_UartVars PROVE OnItsWay'
  OBVIOUS
<1>1. CASE UNCHANGED UartVars BY <1>1, SameOnItsWay DEF UartVars, seen
<1>2. ASSUME NEW k \in LineKinds, HostSend(k) PROVE OnItsWay' BY <1>2, HostSendOnItsWay
<1>3. CASE UartIrq \/ Take \/ Copy \/ Process BY <1>3, TakeOnItsWay
<1>4. CASE Done
  <2>1. stage = "done" /\ stage' = "loop" /\ UNCHANGED <<lines, receiver, handled, lost>>
    BY <1>4 DEF Done, seen
  <2> QED BY <2>1, SameOnItsWay
<1>5. CASE DoneReboot BY <1>5, RebootOnItsWay
<1>6. CASE StartText \/ PutChar \/ CountChar \/ CheckFull \/ PrintTail
  <2>1. /\ stage \in {"text", "put", "count", "full", "tail"}
        /\ stage' \in {"done", "put", "count", "full", "send", "tail", "text"}
        /\ UNCHANGED <<lines, receiver, handled, lost>>
    BY <1>6 DEF StartText, PutChar, CountChar, CheckFull, PrintTail, NextPart, seen
  <2> QED BY <2>1, SameOnItsWay
<1>7. CASE SendCheck \/ CopyLength \/ CopyData \/ StartTx \/ ResetLen \/ WaitMs
  <2>1. /\ stage \in {"send", "copy length", "copy data", "start", "reset", "wait"}
        /\ stage' \in {"reset", "copy length", "copy data", "start", "wait", "put", "tail"}
        /\ UNCHANGED <<lines, receiver, handled, lost>>
    BY <1>7 DEF SendCheck, CopyLength, CopyData, StartTx, ResetLen, WaitMs, NextPart, seen
  <2> QED BY <2>1, SameOnItsWay
<1>8. CASE TxDone
  <2>1. stage' = stage /\ UNCHANGED <<lines, receiver, handled, lost>> BY <1>8 DEF TxDone, seen
  <2> QED BY <2>1, SameOnItsWay
<1>9. ASSUME NEW n, NEW s, RadioPrint(n, s) PROVE OnItsWay'
  <2>1. stage' = stage /\ UNCHANGED <<lines, receiver, handled, lost>> BY <1>9 DEF RadioPrint
  <2> QED BY <2>1, SameOnItsWay
<1> QED BY <1>1, <1>2, <1>3, <1>4, <1>5, <1>6, <1>7, <1>8, <1>9 DEF UartNext, MainLoop

-----------------------------------------------------------------------------
(* The type, and the lengths.                                               *)

LEMMA EndFacts ==
  ASSUME NEW k \in LineKinds
  PROVE  /\ Len(Answers[k]) \in Nat
         /\ \A n \in 0 .. Len(Answers[k]) : EndOf(k, n) \in Nat
         /\ \A n \in 0 .. Len(Answers[k]) - 1 : EndOf(k, n) < EndOf(k, n + 1)
<1>1. /\ Answers[k] \in Seq(Nat \ {0})
      /\ \A i, j \in DOMAIN Answers[k] : i < j => Answers[k][i] < Answers[k][j]
  BY AtUartAssumption
<1>2. PICK a : a = Answers[k] OBVIOUS
<1>3. /\ Len(a) \in Nat /\ DOMAIN a = 1 .. Len(a)
      /\ \A i \in 1 .. Len(a) : a[i] \in Nat \ {0}
  BY <1>1, <1>2
<1>4. \A n \in 0 .. Len(a) : EndOf(k, n) = IF n = 0 THEN 0 ELSE a[n] BY <1>2 DEF EndOf
<1>5. \A n \in 0 .. Len(a) : EndOf(k, n) \in Nat BY <1>3, <1>4
<1>6. ASSUME NEW n \in 0 .. Len(a) - 1 PROVE EndOf(k, n) < EndOf(k, n + 1)
  <2>1. n \in 0 .. Len(a) /\ n + 1 \in 0 .. Len(a) /\ n + 1 \in 1 .. Len(a) /\ n + 1 # 0
    BY <1>3
  <2>2. EndOf(k, n + 1) = a[n + 1] /\ a[n + 1] > 0 BY <1>3, <1>4, <2>1
  <2>3. CASE n = 0 BY <1>4, <2>1, <2>2, <2>3
  <2>4. CASE n # 0
    <3>1. n \in DOMAIN a /\ n + 1 \in DOMAIN a /\ n < n + 1 BY <1>3, <2>1, <2>4
    <3>2. a[n] < a[n + 1] BY <1>1, <1>2, <3>1
    <3> QED BY <1>4, <2>1, <2>2, <2>4, <3>2
  <2> QED BY <2>3, <2>4
<1> QED BY <1>2, <1>3, <1>5, <1>6

LEMMA CharFacts ==
  /\ Blank \in [Places -> Char] /\ Other \in Char
  /\ \A d \in [Places -> Char], s \in Nat :
       /\ Fill(d, s) \in [Places -> Char]
       /\ \A p \in Places : Fill(d, s)[p] = IF p <= s THEN Other ELSE d[p]
BY DEF Blank, Other, Char, Fill

LineInv == UartTypeOK /\ OnItsWay /\ Control

\* What is known of the place in an answer that is printed.
LEMMA PrintedFacts ==
  ASSUME LineInv
  PROVE  /\ line.kind \in LineKinds /\ left \in Nat /\ text \in Nat
         /\ stage \in Printing => /\ text \in 0 .. Len(Answers[line.kind])
                               /\ EndOf(line.kind, text) \in Nat /\ Printed \in Nat
                               /\ handled \in 1 .. MaxLines
<1>1. line.kind \in LineKinds /\ left \in Nat /\ text \in Nat BY DEF LineInv, UartTypeOK, Line
<1>2. Len(Answers[line.kind]) \in Nat BY <1>1, EndFacts
<1> SUFFICES ASSUME stage \in Printing
             PROVE  /\ text \in 0 .. Len(Answers[line.kind])
                    /\ EndOf(line.kind, text) \in Nat /\ Printed \in Nat
                    /\ handled \in 1 .. MaxLines
  BY <1>1
<1>3. handled >= 1 /\ text <= Len(Answers[line.kind]) /\ left <= EndOf(line.kind, text)
  BY DEF LineInv, Control
<1>4. text \in 0 .. Len(Answers[line.kind]) BY <1>1, <1>2, <1>3
<1>5. EndOf(line.kind, text) \in Nat BY <1>1, <1>4, EndFacts
<1>6. Printed \in Nat BY <1>1, <1>3, <1>5 DEF Printed
<1>7. handled \in 1 .. MaxLines BY <1>3, Bounds DEF LineInv
<1> QED BY <1>4, <1>5, <1>6, <1>7

LEMMA NoLineType == NoLine \in Line
<1>1. MaxLines \in Nat /\ \E k : k \in LineKinds BY AtUartAssumption
<1>2. (CHOOSE k \in LineKinds : TRUE) \in LineKinds BY <1>1
<1> HIDE DEF LineKinds
<1> QED BY <1>1, <1>2 DEF NoLine, Line

LEMMA InitLineInv == UartInit => LineInv
<1> SUFFICES ASSUME UartInit PROVE LineInv
  OBVIOUS
<1>0. MaxLines \in Nat /\ MaxRadio \in Nat /\ BufLen \in Nat \ {0} BY AtUartAssumption
<1>1. NoLine \in Line BY NoLineType
<1>2. OnItsWay BY <1>0 DEF UartInit, OnItsWay, Incoming
<1>3. Control BY <1>0 DEF UartInit, Control, Printing, Filling, Copying
<1>4. <<>> \in Seq(Char) OBVIOUS
<1>5. tx \in [len : 0 .. BufLen, data : [Places -> Char]] BY <1>0, CharFacts DEF UartInit
<1>6. data \in [Places -> Char] /\ heard \in Seq(Char) BY <1>4, CharFacts DEF UartInit
<1>7. UartTypeOK
  <2>1. /\ lines = 0 /\ rx = NoLine /\ dma = FALSE /\ uart_rx_true = FALSE /\ line = NoLine
        /\ stage = "loop" /\ text = 0 /\ left = 0 /\ len = 0 /\ reg = 0 /\ size = 0
        /\ busy = FALSE /\ radio = 0 /\ handled = 0 /\ quiet = TRUE /\ lost = {}
    BY DEF UartInit
  <2>2. /\ lines \in 0 .. MaxLines /\ rx \in Line /\ line \in Line /\ text \in Nat /\ left \in Nat
        /\ len \in 0 .. BufLen /\ reg \in 0 .. BufLen /\ size \in 0 .. BufLen
        /\ radio \in 0 .. MaxRadio /\ handled \in 0 .. MaxLines /\ lost \subseteq 1 .. MaxLines
    BY <1>0, <1>1, <2>1
  <2>3. /\ dma \in BOOLEAN /\ uart_rx_true \in BOOLEAN /\ busy \in BOOLEAN /\ quiet \in BOOLEAN
    BY <2>1
  <2> QED BY <1>5, <1>6, <2>1, <2>2, <2>3 DEF UartTypeOK
<1> QED BY <1>2, <1>3, <1>7 DEF LineInv


\* The steps of the host, the interrupt and at_uart_loop.
LEMMA LoopLineInv ==
  ASSUME LineInv,
         (\E k \in LineKinds : HostSend(k)) \/ UartIrq \/ Take \/ Copy \/ Process \/ Done
  PROVE  UartTypeOK' /\ Control'
<1>0. UartTypeOK /\ OnItsWay /\ Control BY DEF LineInv
<1>1. ASSUME NEW k \in LineKinds, HostSend(k) PROVE UartTypeOK' /\ Control'
  <2>1. /\ lines < MaxLines /\ lines' = lines + 1 /\ rx' = [no |-> lines + 1, kind |-> k]
        /\ dma' = TRUE
        /\ UNCHANGED <<uart_rx_true, line, stage, text, left, data, len, reg, size, tx, busy,
                       radio, handled, heard, quiet, lost>>
    BY <1>1 DEF HostSend, buffer, sender, seen
  <2>2. lines' \in 0 .. MaxLines BY <1>0, <2>1, Bounds
  <2>3. rx' \in Line
    <3> HIDE DEF LineKinds
    <3> QED BY <2>1, <2>2 DEF Line
  <2>4. UartTypeOK' BY <1>0, <2>1, <2>2, <2>3 DEF UartTypeOK
  <2>5. Control' BY <1>0, <2>1 DEF Control, EndOf
  <2> QED BY <2>4, <2>5
<1>2. CASE UartIrq
  <2>1. /\ dma' = FALSE /\ uart_rx_true' = TRUE
        /\ UNCHANGED <<lines, rx, line, stage, text, left, data, len, reg, size, tx, busy,
                       radio, handled, heard, quiet, lost>>
    BY <1>2 DEF UartIrq, buffer, sender, seen
  <2>2. UartTypeOK' BY <1>0, <2>1 DEF UartTypeOK
  <2>3. Control' BY <1>0, <2>1 DEF Control, EndOf
  <2> QED BY <2>2, <2>3
<1>3. CASE Take
  <2>1. /\ uart_rx_true' = FALSE /\ stage' = "copy" /\ stage = "loop"
        /\ UNCHANGED <<lines, rx, dma, line, text, left, data, len, reg, size, tx, busy,
                       radio, handled, heard, quiet, lost>>
    BY <1>3 DEF Take, buffer, sender, seen
  <2>2. UartTypeOK' BY <1>0, <2>1 DEF UartTypeOK
  <2>3. Control' BY <1>0, <2>1 DEF Control, Printing, Filling, Copying
  <2> QED BY <2>2, <2>3
<1>4. CASE Copy
  <2>1. /\ line' = rx /\ stage' = "process" /\ stage = "copy"
        /\ UNCHANGED <<lines, rx, dma, uart_rx_true, text, left, data, len, reg, size, tx, busy,
                       radio, handled, heard, quiet, lost>>
    BY <1>4 DEF Copy, buffer, sender, seen
  <2>2. UartTypeOK' BY <1>0, <2>1 DEF UartTypeOK
  <2>3. Control' BY <1>0, <2>1 DEF Control, Printing, Filling, Copying
  <2> QED BY <2>2, <2>3
<1>5. CASE Process
  <2>1. /\ text' = 0 /\ handled' = line.no /\ heard' = <<>> /\ quiet' = TRUE /\ stage' = "text"
        /\ stage = "process"
        /\ UNCHANGED <<lines, rx, dma, uart_rx_true, line, left, data, len, reg, size, tx, busy,
                       radio, lost>>
    BY <1>5 DEF Process, receiver, buffer, sender
  <2>2. line.no \in 0 .. MaxLines /\ line.kind \in LineKinds BY <1>0 DEF UartTypeOK, Line
  <2>3. <<>> \in Seq(Char) OBVIOUS
  <2>4. UartTypeOK' BY <1>0, <2>1, <2>2, <2>3 DEF UartTypeOK
  <2>5. handled' >= 1
    <3>1. line.no = lines /\ lines > handled BY <1>0, <2>1 DEF OnItsWay, Incoming
    <3> QED BY <1>0, <2>1, <3>1, Bounds
  <2>6. left = 0 /\ ~busy BY <1>0, <2>1 DEF Control, Printing
  <2>7. 0 <= Len(Answers[line.kind]) BY <2>2, EndFacts
  <2>8. Control' BY <1>0, <2>1, <2>5, <2>6, <2>7 DEF Control, Printing, Filling, Copying, EndOf
  <2> QED BY <2>4, <2>8
<1>6. CASE Done
  <2>1. /\ stage' = "loop" /\ stage = "done"
        /\ UNCHANGED <<lines, rx, dma, uart_rx_true, line, text, left, data, len, reg, size, tx,
                       busy, radio, handled, heard, quiet, lost>>
    BY <1>6 DEF Done, receiver, buffer, sender, seen
  <2>2. UartTypeOK' BY <1>0, <2>1 DEF UartTypeOK
  <2>3. Control' BY <1>0, <2>1 DEF Control, Printing, Filling, Copying
  <2> QED BY <2>2, <2>3
<1> QED BY <1>1, <1>2, <1>3, <1>4, <1>5, <1>6


LEMMA RebootLineInv ==
  ASSUME LineInv, DoneReboot PROVE UartTypeOK' /\ Control'
<1>0. UartTypeOK /\ OnItsWay /\ Control BY DEF LineInv
<1>1. /\ stage' = "loop" /\ rx' = NoLine /\ line' = NoLine /\ dma' = FALSE /\ uart_rx_true' = FALSE
      /\ text' = 0 /\ left' = 0 /\ data' = Blank /\ len' = 0 /\ reg' = 0
      /\ size' = 0 /\ tx' = [len |-> 0, data |-> Blank] /\ busy' = FALSE
      /\ lost' = IF lines > handled THEN lost \cup {lines} ELSE lost
      /\ UNCHANGED <<lines, radio, handled, heard, quiet>>
  BY DEF DoneReboot
<1>2. 0 \in 0 .. BufLen /\ BufLen \in Nat BY Bounds, <1>0
<1>3. OnItsWay' BY RebootOnItsWay, <1>0
<1>4. lost' \subseteq 1 .. MaxLines BY <1>0, <1>1, <1>3, Bounds DEF OnItsWay
<1>5. NoLine \in Line BY NoLineType
<1>6. tx' \in [len : 0 .. BufLen, data : [Places -> Char]] BY <1>1, <1>2, CharFacts
<1>7. data' \in [Places -> Char] BY <1>1, CharFacts
<1>8. UartTypeOK'
  <2>1. /\ rx' \in Line /\ line' \in Line /\ dma' \in BOOLEAN /\ uart_rx_true' \in BOOLEAN
        /\ text' \in Nat /\ left' \in Nat /\ len' \in 0 .. BufLen /\ reg' \in 0 .. BufLen
        /\ size' \in 0 .. BufLen /\ busy' \in BOOLEAN
    BY <1>1, <1>2, <1>5
  <2> QED BY <1>0, <1>1, <1>4, <1>6, <1>7, <2>1 DEF UartTypeOK
<1>9. Control' BY <1>1 DEF Control, Printing, Filling, Copying
<1> QED BY <1>8, <1>9

\* The steps of at_print.
LEMMA PrintLineInv ==
  ASSUME LineInv,
         StartText \/ PutChar \/ CountChar \/ CheckFull \/ PrintTail
  PROVE  UartTypeOK' /\ Control'
<1>0. UartTypeOK /\ OnItsWay /\ Control BY DEF LineInv
<1>b. BufLen \in Nat \ {0} /\ len \in 0 .. BufLen /\ reg \in 0 .. BufLen /\ left \in Nat
  BY <1>0, Bounds DEF UartTypeOK
<1>1. CASE StartText
  <2>1. /\ stage = "text" /\ UNCHANGED <<lines, rx, dma, uart_rx_true, line, data, size, tx, busy,
                                      radio, handled, heard, quiet, lost>>
        /\ \/ stage' = "done" /\ UNCHANGED <<text, left, len, reg>>
           \/ /\ text # Len(Answers[line.kind]) /\ text' = text + 1
              /\ left' = EndOf(line.kind, text + 1) - EndOf(line.kind, text)
              /\ len' = 0 /\ reg' = 0 /\ stage' = "put"
    BY <1>1 DEF StartText, receiver, sender, seen
  <2>2. CASE stage' = "done" /\ UNCHANGED <<text, left, len, reg>>
    <3>1. UartTypeOK' BY <1>0, <2>1, <2>2 DEF UartTypeOK
    <3>2. left = 0 BY <1>0, <2>1 DEF Control
    <3>3. Control' BY <1>0, <2>1, <2>2, <3>2 DEF Control, Printing, Filling, Copying
    <3> QED BY <3>1, <3>3
  <2>3. CASE /\ text # Len(Answers[line.kind]) /\ text' = text + 1
             /\ left' = EndOf(line.kind, text + 1) - EndOf(line.kind, text)
             /\ len' = 0 /\ reg' = 0 /\ stage' = "put"
    <3>1. /\ line.kind \in LineKinds /\ text \in 0 .. Len(Answers[line.kind])
          /\ handled \in 1 .. MaxLines
      BY <2>1, PrintedFacts DEF Printing
    <3>2. /\ text \in 0 .. Len(Answers[line.kind]) - 1 /\ text + 1 \in 0 .. Len(Answers[line.kind])
          /\ text + 1 <= Len(Answers[line.kind])
      BY <2>3, <3>1, EndFacts
    <3>3. /\ EndOf(line.kind, text) \in Nat /\ EndOf(line.kind, text + 1) \in Nat
          /\ EndOf(line.kind, text) < EndOf(line.kind, text + 1)
      BY <3>1, <3>2, EndFacts
    <3>4. left' \in Nat /\ left' > 0 /\ left' <= EndOf(line.kind, text + 1) BY <2>3, <3>3
    <3>5. text' \in Nat /\ len' \in 0 .. BufLen /\ reg' \in 0 .. BufLen /\ len' < BufLen
          /\ reg' < BufLen
      BY <1>b, <2>3, <3>1
    <3>6. UartTypeOK' BY <1>0, <2>1, <2>3, <3>4, <3>5 DEF UartTypeOK
    <3>7. EndOf(line.kind, text)' = EndOf(line.kind, text + 1) BY <2>1, <2>3 DEF EndOf
    <3>8. Control'
      BY <1>0, <2>1, <2>3, <3>1, <3>2, <3>4, <3>5, <3>7 DEF Control, Printing, Filling, Copying
    <3> QED BY <3>6, <3>8
  <2> QED BY <2>1, <2>2, <2>3
<1>2. CASE PutChar
  <2>1. PICK i \in {len, reg} :
          /\ data' = [data EXCEPT ![i + 1] = <<handled, Printed + 1>>] /\ reg' = i
          /\ stage = "put" /\ left' = left - 1 /\ stage' = "count"
          /\ UNCHANGED <<lines, rx, dma, uart_rx_true, line, text, len, size, tx, busy,
                         radio, handled, heard, quiet, lost>>
    BY <1>2 DEF PutChar, Index, receiver, sender, seen
  <2>2. left > 0 /\ len \in {0, reg} /\ reg < BufLen BY <1>0, <2>1 DEF Control, Filling
  <2>3. Printed \in Nat /\ handled \in 1 .. MaxLines BY <2>1, PrintedFacts DEF Printing
  <2>4. <<handled, Printed + 1>> \in Char BY <2>3 DEF Char
  <2>5. data' \in [Places -> Char] BY <1>0, <2>1, <2>4 DEF UartTypeOK
  <2>6. left' \in Nat /\ left' <= left /\ i \in 0 .. BufLen /\ i < BufLen /\ len \in {0, i}
    BY <1>b, <2>1, <2>2
  <2>7. UartTypeOK' BY <1>0, <2>1, <2>5, <2>6 DEF UartTypeOK
  <2>8. EndOf(line.kind, text)' = EndOf(line.kind, text) /\ EndOf(line.kind, text) \in Nat
    BY <2>1, PrintedFacts DEF EndOf, Printing
  <2>9. left' <= EndOf(line.kind, text)
    <3>1. left <= EndOf(line.kind, text) BY <1>0, <2>1 DEF Control, Printing
    <3> QED BY <1>b, <2>6, <2>8, <3>1
  <2>10. Control'
    BY <1>0, <2>1, <2>6, <2>8, <2>9 DEF Control, Printing, Filling, Copying
  <2> QED BY <2>7, <2>10
<1>3. CASE CountChar
  <2>1. PICK i \in {len, reg} :
          /\ len' = i + 1 /\ reg' = i + 1 /\ stage = "count" /\ stage' = "full"
          /\ UNCHANGED <<lines, rx, dma, uart_rx_true, line, text, left, data, size, tx, busy,
                         radio, handled, heard, quiet, lost>>
    BY <1>3 DEF CountChar, Index, receiver, sender, seen
  <2>2. len \in {0, reg} /\ reg < BufLen BY <1>0, <2>1 DEF Control, Filling
  <2>3. i + 1 \in 0 .. BufLen BY <1>b, <2>1, <2>2
  <2>4. UartTypeOK' BY <1>0, <2>1, <2>3 DEF UartTypeOK
  <2>5. Control' BY <1>0, <2>1, <2>3 DEF Control, Printing, Filling, Copying, EndOf
  <2> QED BY <2>4, <2>5
<1>4. CASE CheckFull \/ PrintTail
  <2>1. PICK i \in {len, reg} :
          /\ reg' = i /\ stage \in {"full", "tail"} /\ (stage = "tail" => stage' \in {"text", "send"})
          /\ stage = "full" => stage' = IF i = BufLen THEN "send" ELSE NextPart
          /\ UNCHANGED <<lines, rx, dma, uart_rx_true, line, text, left, data, len, size, tx,
                         busy, radio, handled, heard, quiet, lost>>
    BY <1>4 DEF CheckFull, PrintTail, Full, Index, receiver, sender, seen
  <2>2. len \in {0, reg} BY <1>0, <2>1 DEF Control, Filling
  <2>3. i \in 0 .. BufLen /\ len \in {0, i} BY <1>b, <2>1, <2>2
  <2>4. stage' = "put" => i < BufLen /\ left > 0 BY <1>b, <2>1, <2>3 DEF NextPart
  <2>5. stage' = "tail" => left = 0 BY <1>b, <2>1 DEF NextPart
  <2>6. stage' = "text" => left = 0 BY <1>0, <2>1 DEF Control, NextPart
  <2>7. stage' \in {"text", "put", "tail", "send"} BY <2>1 DEF NextPart
  <2>8. stage' = "put" => len < BufLen BY <1>b, <2>3, <2>4
  <2>9. UartTypeOK' BY <1>0, <2>1, <2>3, <2>4, <2>7, <2>8 DEF UartTypeOK
  <2>10. Control'
    BY <1>0, <2>1, <2>3, <2>4, <2>5, <2>6, <2>7 DEF Control, Printing, Filling, Copying, EndOf
  <2> QED BY <2>9, <2>10
<1> QED BY <1>1, <1>2, <1>3, <1>4

\* What the host hears is prolonged by what is in the buffer of the DMA.
LEMMA HeardLonger ==
  ASSUME UartTypeOK, heard' = heard \o SubSeq(tx.data, 1, tx.len)
  PROVE  /\ heard' \in Seq(Char) /\ Len(heard) \in Nat /\ Len(heard') = Len(heard) + tx.len
         /\ \A p \in 1 .. Len(heard') :
              heard'[p] = IF p <= Len(heard) THEN heard[p] ELSE tx.data[p - Len(heard)]
<1>1. BufLen \in Nat \ {0} BY Bounds
<1>2. /\ heard \in Seq(Char) /\ tx.len \in 0 .. BufLen /\ tx.data \in [Places -> Char]
  BY DEF UartTypeOK
<1> HIDE DEF Char
<1>3. PICK d, n : d = tx.data /\ n = tx.len OBVIOUS
<1>4. n \in Nat /\ n <= BufLen BY <1>1, <1>2, <1>3
<1>5. \A i \in 1 .. n : d[i] \in Char BY <1>1, <1>2, <1>3, <1>4 DEF Places
<1>6. PICK e : e = SubSeq(d, 1, n) OBVIOUS
<1>7. e \in Seq(Char) /\ Len(e) = n /\ \A i \in 1 .. n : e[i] = d[i]
  <2>1. /\ SubSeq(d, 1, n) \in Seq(Char)
        /\ Len(SubSeq(d, 1, n)) = IF 1 <= n THEN n - 1 + 1 ELSE 0
        /\ \A i \in 1 .. n - 1 + 1 : SubSeq(d, 1, n)[i] = d[1 + i - 1]
    BY <1>4, <1>5, SubSeqProperties
  <2> QED BY <1>4, <1>6, <2>1
<1>8. heard' = heard \o e BY <1>3, <1>6
<1>9. Len(heard) \in Nat BY <1>2, LenProperties
<1>10. /\ heard \o e \in Seq(Char) /\ Len(heard \o e) = Len(heard) + Len(e)
       /\ \A i \in 1 .. Len(heard) + Len(e) :
            (heard \o e)[i] = IF i <= Len(heard) THEN heard[i] ELSE e[i - Len(heard)]
  BY <1>2, <1>7, ConcatProperties
<1>11. ASSUME NEW p \in 1 .. Len(heard')
       PROVE  heard'[p] = IF p <= Len(heard) THEN heard[p] ELSE tx.data[p - Len(heard)]
  <2>1. p \in 1 .. Len(heard) + Len(e) BY <1>8, <1>10, <1>11
  <2>2. heard'[p] = IF p <= Len(heard) THEN heard[p] ELSE e[p - Len(heard)]
    BY <1>8, <1>10, <2>1
  <2>3. p > Len(heard) => p - Len(heard) \in 1 .. n BY <1>4, <1>7, <1>9, <2>1
  <2> QED BY <1>3, <1>7, <1>9, <2>1, <2>2, <2>3
<1> QED BY <1>3, <1>7, <1>8, <1>9, <1>10, <1>11

\* The steps of uart_Send, the wait after it and the end of a transmission.
LEMMA SendLineInv ==
  ASSUME LineInv,
         SendCheck \/ CopyLength \/ CopyData \/ StartTx \/ ResetLen \/ WaitMs \/ TxDone
  PROVE  UartTypeOK' /\ Control'
<1>0. UartTypeOK /\ OnItsWay /\ Control BY DEF LineInv
<1>a. /\ BufLen \in Nat \ {0} /\ len \in 0 .. BufLen /\ reg \in 0 .. BufLen /\ left \in Nat
      /\ size \in 0 .. BufLen
  BY <1>0, Bounds DEF UartTypeOK
<1>b. /\ tx = [len |-> tx.len, data |-> tx.data] /\ tx.len \in 0 .. BufLen
      /\ tx.data \in [Places -> Char] /\ data \in [Places -> Char]
  BY <1>0 DEF UartTypeOK
<1>1. CASE SendCheck
  <2>1. /\ stage = "send" /\ size' = len
        /\ stage' \in {"reset", "copy length"} /\ (busy => stage' = "reset")
        /\ UNCHANGED <<lines, rx, dma, uart_rx_true, line, text, left, data, len, reg, tx, busy,
                       radio, handled, heard, quiet, lost>>
    BY <1>1 DEF SendCheck, receiver, buffer, seen
  <2>2. UartTypeOK' BY <1>0, <1>a, <2>1 DEF UartTypeOK
  <2>3. Control' BY <1>0, <1>a, <2>1 DEF Control, Printing, Filling, Copying, EndOf
  <2> QED BY <2>2, <2>3
<1>2. CASE CopyLength
  <2>1. /\ stage = "copy length" /\ tx' = [tx EXCEPT !.len = len] /\ stage' = "copy data"
        /\ UNCHANGED <<lines, rx, dma, uart_rx_true, line, text, left, data, len, reg, size, busy,
                       radio, handled, heard, quiet, lost>>
    BY <1>2 DEF CopyLength, receiver, buffer, seen
  <2>2. tx' = [len |-> len, data |-> tx.data] BY <1>b, <2>1
  <2>3. tx' \in [len : 0 .. BufLen, data : [Places -> Char]] BY <1>a, <1>b, <2>2
  <2>4. UartTypeOK' BY <1>0, <2>1, <2>3 DEF UartTypeOK
  <2>5. Control' BY <1>0, <2>1 DEF Control, Printing, Filling, Copying, EndOf
  <2> QED BY <2>4, <2>5
<1>3. CASE CopyData
  <2>1. /\ stage = "copy data" /\ stage' = "start"
        /\ tx' = [tx EXCEPT !.data = [p \in Places |-> IF p <= size THEN data[p] ELSE @[p]]]
        /\ UNCHANGED <<lines, rx, dma, uart_rx_true, line, text, left, data, len, reg, size, busy,
                       radio, handled, heard, quiet, lost>>
    BY <1>3 DEF CopyData, receiver, buffer, seen
  <2>2. tx' = [len |-> tx.len,
               data |-> [p \in Places |-> IF p <= size THEN data[p] ELSE tx.data[p]]]
    BY <1>b, <2>1
  <2>3. tx' \in [len : 0 .. BufLen, data : [Places -> Char]]
    <3> HIDE DEF Char, Places
    <3> QED BY <1>b, <2>2
  <2>4. UartTypeOK' BY <1>0, <2>1, <2>3 DEF UartTypeOK
  <2>5. Control' BY <1>0, <2>1 DEF Control, Printing, Filling, Copying, EndOf
  <2> QED BY <2>4, <2>5
<1>4. CASE StartTx
  <2>1. /\ stage = "start" /\ stage' = "reset" /\ busy' = TRUE
        /\ heard' = heard \o SubSeq(tx.data, 1, tx.len)
        /\ UNCHANGED <<lines, rx, dma, uart_rx_true, line, text, left, data, len, reg, size, tx,
                       radio, handled, quiet, lost>>
    BY <1>4 DEF StartTx, receiver, buffer
  <2>2. heard' \in Seq(Char) BY <1>0, <2>1, HeardLonger
  <2>3. UartTypeOK' BY <1>0, <2>1, <2>2 DEF UartTypeOK
  <2>4. Control' BY <1>0, <2>1 DEF Control, Printing, Filling, Copying, EndOf
  <2> QED BY <2>3, <2>4
<1>5. CASE ResetLen
  <2>1. /\ stage = "reset" /\ stage' = "wait" /\ len' = 0 /\ reg' = 0
        /\ UNCHANGED <<lines, rx, dma, uart_rx_true, line, text, left, data, size, tx, busy,
                       radio, handled, heard, quiet, lost>>
    BY <1>5 DEF ResetLen, receiver, sender, seen
  <2>2. 0 \in 0 .. BufLen BY <1>a
  <2>3. UartTypeOK' BY <1>0, <2>1, <2>2 DEF UartTypeOK
  <2>4. Control' BY <1>0, <2>1 DEF Control, Printing, Filling, Copying, EndOf
  <2> QED BY <2>3, <2>4
<1>6. CASE WaitMs
  <2>1. /\ stage = "wait" /\ ~busy /\ stage' = NextPart
        /\ UNCHANGED <<lines, rx, dma, uart_rx_true, line, text, left, data, len, reg, size, tx,
                       busy, radio, handled, heard, quiet, lost>>
    BY <1>6 DEF WaitMs, Waited, receiver, buffer, sender, seen
  <2>2. len = 0 /\ reg = 0 BY <1>0, <2>1 DEF Control
  <2>3. stage' \in {"put", "tail"} /\ (stage' = "put" => left > 0) /\ (stage' = "tail" => left = 0)
    BY <1>a, <2>1 DEF NextPart
  <2>a. len < BufLen /\ reg < BufLen /\ len \in {0, reg} BY <1>a, <2>2
  <2> HIDE <2>2
  <2>4. UartTypeOK' BY <1>0, <2>1, <2>3, <2>a DEF UartTypeOK
  <2>b. stage' \in Printing /\ stage \in Printing /\ stage' \notin Copying \cup {"text", "count", "wait"}
    BY <2>1, <2>3 DEF Printing, Copying
  <2>5. Control' BY <1>0, <2>1, <2>3, <2>a, <2>b DEF Control, EndOf
  <2> QED BY <2>4, <2>5
<1>7. CASE TxDone
  <2>1. /\ busy' = FALSE
        /\ UNCHANGED <<lines, rx, dma, uart_rx_true, line, stage, text, left, data, len, reg, size,
                       tx, radio, handled, heard, quiet, lost>>
    BY <1>7 DEF TxDone, receiver, buffer, seen
  <2>2. UartTypeOK' BY <1>0, <2>1 DEF UartTypeOK
  <2>3. Control' BY <1>0, <2>1 DEF Control, EndOf
  <2> QED BY <2>2, <2>3
<1> QED BY <1>1, <1>2, <1>3, <1>4, <1>5, <1>6, <1>7

\* What rf_link_data_callback prints.
LEMMA RadioLineInv ==
  ASSUME LineInv, NEW n \in 1 .. 2, NEW s \in Places, RadioPrint(n, s)
  PROVE  UartTypeOK' /\ Control'
<1>0. UartTypeOK /\ OnItsWay /\ Control BY DEF LineInv
<1>1. /\ radio < MaxRadio /\ radio' = radio + 1 /\ data' = Fill(data, s) /\ len' = 0
      /\ busy' = FALSE /\ quiet' = FALSE
      /\ tx' = tx \/ tx' = [len |-> s, data |-> Fill(tx.data, s)]
      /\ UNCHANGED <<lines, rx, dma, uart_rx_true, line, stage, text, left, reg, size, handled,
                     heard, lost>>
  BY DEF RadioPrint, receiver
<1>2. BufLen \in Nat \ {0} /\ MaxRadio \in Nat /\ 0 \in 0 .. BufLen /\ 0 < BufLen
      /\ s \in 0 .. BufLen /\ s \in Nat
  BY <1>0, Bounds DEF Places
<1>3. /\ tx \in [len : 0 .. BufLen, data : [Places -> Char]]
      /\ tx.data \in [Places -> Char] /\ data \in [Places -> Char] /\ radio \in 0 .. MaxRadio
  BY <1>0 DEF UartTypeOK
<1>4. data' \in [Places -> Char] /\ Fill(tx.data, s) \in [Places -> Char]
  BY <1>1, <1>2, <1>3, CharFacts
<1>5. tx' \in [len : 0 .. BufLen, data : [Places -> Char]] BY <1>1, <1>2, <1>3, <1>4
<1>6. radio' \in 0 .. MaxRadio BY <1>1, <1>2, <1>3
<1>7. UartTypeOK' BY <1>0, <1>1, <1>2, <1>4, <1>5, <1>6 DEF UartTypeOK
<1>8. Control' BY <1>0, <1>1 DEF Control, EndOf
<1> QED BY <1>7, <1>8

LEMMA NextLineInv == LineInv /\ [UartNext]_UartVars => LineInv'
<1> SUFFICES ASSUME LineInv, [UartNext]_UartVars PROVE LineInv'
  OBVIOUS
<1>0. OnItsWay' BY NextOnItsWay DEF LineInv
<1>1. CASE (\E k \in LineKinds : HostSend(k)) \/ UartIrq \/ Take \/ Copy \/ Process \/ Done
  BY <1>0, <1>1, LoopLineInv DEF LineInv
<1>2. CASE DoneReboot BY <1>0, <1>2, RebootLineInv DEF LineInv
<1>3. CASE StartText \/ PutChar \/ CountChar \/ CheckFull \/ PrintTail
  BY <1>0, <1>3, PrintLineInv DEF LineInv
<1>4. CASE SendCheck \/ CopyLength \/ CopyData \/ StartTx \/ ResetLen \/ WaitMs \/ TxDone
  BY <1>0, <1>4, SendLineInv DEF LineInv
<1>5. CASE \E n \in 1 .. 2, s \in Places : RadioPrint(n, s)
  BY <1>0, <1>5, RadioLineInv DEF LineInv
<1>6. CASE UNCHANGED UartVars
  <2>1. UNCHANGED <<lines, rx, dma, uart_rx_true, line, stage, text, left, data, len, reg, size,
                    tx, busy, radio, handled, heard, quiet, lost>>
    BY <1>6 DEF UartVars, receiver, buffer, sender, seen
  <2>2. UartTypeOK' BY <2>1 DEF LineInv, UartTypeOK
  <2>3. Control' BY <2>1 DEF LineInv, Control, EndOf
  <2> QED BY <1>0, <2>2, <2>3 DEF LineInv
<1> QED BY <1>1, <1>2, <1>3, <1>4, <1>5, <1>6 DEF UartNext, MainLoop

\* Every variable keeps its type, whatever the sizes of the buffer and of the
\* answers: at_print sends T_txdata_user only when its length equals the size,
\* and the length never passes it, although the interrupt resets the length
\* between any two accesses and the build may use an old copy of it.
THEOREM UartTypeCorrect == UartSpec => []UartTypeOK
<1>1. UartInit => LineInv BY InitLineInv
<1>2. LineInv /\ [UartNext]_UartVars => LineInv' BY NextLineInv
<1>3. LineInv => UartTypeOK BY DEF LineInv
<1> QED BY <1>1, <1>2, <1>3, PTL DEF UartSpec

\* at_data_process never gets a line twice nor a line before an earlier one, and
\* misses none but those a reboot has thrown away: the buffer of the DMA, which
\* at_uart_loop reads after it has cleared the flag, then holds the latest line.
THEOREM LinesHandledInOrder == UartSpec => LinesInOrder
<1> DEFINE InOrder ==
      stage = "process" /\ stage' # stage =>
        /\ handled' > handled
        /\ \A k \in 1 .. MaxLines : handled < k /\ k < handled' => k \in lost
<1>1. UartInit => LineInv BY InitLineInv
<1>2. LineInv /\ [UartNext]_UartVars => LineInv' BY NextLineInv
<1>3. LineInv /\ [UartNext]_UartVars => [InOrder]_UartVars
  <2> SUFFICES ASSUME LineInv, UartNext, stage = "process", stage' # stage
               PROVE  /\ handled' > handled
                      /\ \A k \in 1 .. MaxLines : handled < k /\ k < handled' => k \in lost
    OBVIOUS
  <2>1. Process
    <3>1. \A k : ~HostSend(k) BY DEF HostSend
    <3>2. \A n, s : ~RadioPrint(n, s) BY DEF RadioPrint
    <3>3. ~UartIrq /\ ~TxDone BY DEF UartIrq, TxDone
    <3>4. MainLoop BY <3>1, <3>2, <3>3 DEF UartNext
    <3> QED
      BY <3>4 DEF MainLoop, Take, Copy, Done, DoneReboot, StartText, PutChar, CountChar,
                  CheckFull, PrintTail, SendCheck, CopyLength, CopyData, StartTx, ResetLen, WaitMs
  <2>2. handled' = line.no /\ line.no = lines /\ lines > handled
    BY <2>1 DEF Process, LineInv, OnItsWay, Incoming
  <2> QED BY <2>2 DEF LineInv, OnItsWay
<1>4. UartSpec => [][InOrder]_UartVars BY <1>1, <1>2, <1>3, PTL DEF UartSpec
<1> QED BY <1>4 DEF LinesInOrder

-----------------------------------------------------------------------------
(* What is heard.                                                           *)

LEMMA CharType ==
  ASSUME NEW c \in Char
  PROVE  c[1] \in Nat /\ c[2] \in Nat
<1>1. MaxLines \in Nat BY AtUartAssumption
<1> QED BY <1>1 DEF Char, Other

\* A part of what can be sent can be sent, also later and after the interrupt
\* has overwritten the first places.
LEMMA FitsLess ==
  ASSUME NEW d \in [Places -> Char], NEW n \in Nat, NEW h, NEW m,
         NEW k \in Nat, Fits(d, n, h, m, k), n <= BufLen,
         NEW i \in Nat, i <= n, NEW l \in Nat, k <= l
  PROVE  Fits(d, i, h, m, l)
<1>1. BufLen \in Nat BY AtUartAssumption
<1>2. \A p \in 1 .. i : p \in 1 .. n BY <1>1
<1>3. \A p \in 1 .. n : d[p][2] \in Nat BY <1>1, CharType DEF Places
<1> QED BY <1>2, <1>3 DEF Fits

LEMMA FitsFill ==
  ASSUME NEW d \in [Places -> Char], NEW n \in Nat, n <= BufLen, NEW h, NEW m,
         NEW k, Fits(d, n, h, m, k), NEW s \in Nat
  PROVE  Fits(Fill(d, s), n, h, m, k)
<1>1. BufLen \in Nat BY AtUartAssumption
<1>2. PICK e : e = Fill(d, s) OBVIOUS
<1>3. \A p \in 1 .. n : e[p] = IF p <= s THEN Other ELSE d[p]
  BY <1>1, <1>2, CharFacts DEF Places
<1>4. \A p \in 1 .. n : e[p] # Other => e[p] = d[p] /\ d[p] # Other BY <1>3
<1>5. Fits(e, n, h, m, k) BY <1>4 DEF Fits
<1> QED BY <1>2, <1>5

\* The next character of the answer goes behind what is in the buffer.
LEMMA FitsPut ==
  ASSUME NEW d \in [Places -> Char], NEW i \in Nat, i < BufLen,
         NEW h \in Seq(Char), NEW m \in 1 .. MaxLines, NEW k \in Nat,
         Fits(d, i, h, m, k), Upto(h, k)
  PROVE  Fits([d EXCEPT ![i + 1] = <<m, k + 1>>], i + 1, h, m, k + 1)
<1>1. BufLen \in Nat /\ MaxLines \in Nat BY AtUartAssumption
<1>2. PICK e : e = [d EXCEPT ![i + 1] = <<m, k + 1>>] OBVIOUS
<1>3. PICK c : c = <<m, k + 1>> OBVIOUS
<1>4. c[1] = m /\ c[2] = k + 1 /\ c # Other BY <1>1, <1>3 DEF Other
<1>5. /\ \A p \in 1 .. i : e[p] = d[p] /\ p \in 1 .. i + 1 /\ p # i + 1
      /\ e[i + 1] = c
  BY <1>1, <1>2, <1>3 DEF Places
<1>6. \A p \in 1 .. i : d[p][2] \in Nat BY <1>1, CharType DEF Places
<1>7. \A j \in DOMAIN h : h[j][2] \in Nat
  <2>1. \A j \in DOMAIN h : h[j] \in Char BY ElementOfSeq, LenProperties
  <2> QED BY <2>1, CharType
<1>8. ASSUME NEW p \in 1 .. i + 1, e[p] # Other
      PROVE  /\ e[p][1] = m /\ e[p][2] <= k + 1
             /\ \A j \in DOMAIN h : h[j] # Other => h[j][2] < e[p][2]
             /\ \A q \in 1 .. i + 1 : p < q /\ e[q] # Other => e[p][2] < e[q][2]
  <2>1. CASE p = i + 1
    <3>1. \A q \in 1 .. i + 1 : ~(p < q) BY <2>1
    <3>2. \A j \in DOMAIN h : h[j] # Other => h[j][2] < k + 1 BY <1>7 DEF Upto
    <3> QED BY <1>4, <1>5, <2>1, <3>1, <3>2
  <2>2. CASE p \in 1 .. i
    <3>1. e[p] = d[p] /\ d[p] # Other /\ d[p][2] \in Nat BY <1>5, <1>6, <1>8, <2>2
    <3>2. /\ d[p][1] = m /\ d[p][2] <= k
          /\ \A j \in DOMAIN h : h[j] # Other => h[j][2] < d[p][2]
          /\ \A q \in 1 .. i : p < q /\ d[q] # Other => d[p][2] < d[q][2]
      BY <2>2, <3>1 DEF Fits
    <3>3. d[p][2] < k + 1 /\ d[p][2] <= k + 1 BY <3>1, <3>2
    <3>4. ASSUME NEW q \in 1 .. i + 1, p < q, e[q] # Other PROVE d[p][2] < e[q][2]
      <4>1. CASE q = i + 1 BY <1>4, <1>5, <3>3, <4>1
      <4>2. CASE q # i + 1
        <5>1. q \in 1 .. i BY <4>2
        <5> QED BY <1>5, <3>2, <3>4, <5>1
      <4> QED BY <4>1, <4>2
    <3> QED BY <3>1, <3>2, <3>3, <3>4
  <2> QED BY <2>1, <2>2
<1>9. Fits(e, i + 1, h, m, k + 1) BY <1>8 DEF Fits
<1> QED BY <1>2, <1>9

\* What fits is heard in order after what has been heard.
LEMMA FitsHeard ==
  ASSUME NEW h \in Seq(Char), NEW g \in Seq(Char), NEW e, NEW n \in Nat,
         NEW m, NEW k, Orderly(h, m), Upto(h, k), Fits(e, n, h, m, k),
         Len(g) = Len(h) + n,
         \A p \in 1 .. Len(g) : g[p] = IF p <= Len(h) THEN h[p] ELSE e[p - Len(h)]
  PROVE  Orderly(g, m) /\ Upto(g, k)
<1>1. PICK b \in Nat : b = Len(h) BY LenProperties
<1>2. DOMAIN h = 1 .. b /\ DOMAIN g = 1 .. b + n BY <1>1, LenProperties
<1>3. /\ \A p \in 1 .. b : p \in 1 .. b + n /\ g[p] = h[p]
      /\ \A p \in 1 .. b + n : p > b => p - b \in 1 .. n /\ g[p] = e[p - b]
  BY <1>1
<1>4. ASSUME NEW p \in 1 .. b + n, g[p] # Other
      PROVE  /\ g[p][1] = m /\ g[p][2] <= k
             /\ \A q \in 1 .. b + n : p < q /\ g[q] # Other => g[p][2] < g[q][2]
  <2>1. CASE p <= b
    <3>1. p \in 1 .. b /\ g[p] = h[p] BY <1>3, <2>1
    <3>2. /\ h[p][1] = m /\ h[p][2] <= k
          /\ \A q \in 1 .. b : p < q /\ h[q] # Other => h[p][2] < h[q][2]
      BY <1>2, <1>4, <3>1 DEF Orderly, Upto
    <3>3. ASSUME NEW q \in 1 .. b + n, p < q, g[q] # Other PROVE g[p][2] < g[q][2]
      <4>1. CASE q <= b
        <5>1. q \in 1 .. b /\ g[q] = h[q] BY <1>3, <4>1
        <5> QED BY <3>1, <3>2, <3>3, <5>1
      <4>2. CASE q > b
        <5>1. q - b \in 1 .. n /\ g[q] = e[q - b] BY <1>3, <4>2
        <5> QED BY <1>2, <1>4, <3>1, <3>3, <5>1 DEF Fits
      <4> QED BY <4>1, <4>2
    <3> QED BY <3>1, <3>2, <3>3
  <2>2. CASE p > b
    <3>1. p - b \in 1 .. n /\ g[p] = e[p - b] BY <1>3, <2>2
    <3>2. /\ e[p - b][1] = m /\ e[p - b][2] <= k
          /\ \A q \in 1 .. n : p - b < q /\ e[q] # Other => e[p - b][2] < e[q][2]
      BY <1>4, <3>1 DEF Fits
    <3>3. ASSUME NEW q \in 1 .. b + n, p < q, g[q] # Other PROVE g[p][2] < g[q][2]
      <4>1. q - b \in 1 .. n /\ g[q] = e[q - b] /\ p - b < q - b BY <1>3, <2>2, <3>3
      <4> QED BY <3>1, <3>2, <3>3, <4>1
    <3> QED BY <3>1, <3>2, <3>3
  <2> QED BY <2>1, <2>2
<1> QED BY <1>2, <1>4 DEF Orderly, Upto

\* A step that does not touch what is printed, buffered or heard.
LEMMA SameHeard ==
  ASSUME HeardInv, UNCHANGED <<line, stage, text, left, data, len, reg, size, tx, handled, heard, quiet>>
  PROVE  HeardInv'
<1>1. Printed' = Printed BY DEF Printed, EndOf
<1>2. Heard' BY <1>1 DEF HeardInv, Heard
<1>3. Buffered' BY <1>1 DEF HeardInv, Buffered, Fresh
<1>4. Pending' = Pending BY DEF Pending
<1>5. Whole(line.kind)' = Whole(line.kind) BY DEF Whole, Total, EndOf
<1>6. Undisturbed' BY <1>1, <1>4, <1>5 DEF HeardInv, Undisturbed
<1> QED BY <1>2, <1>3, <1>6 DEF HeardInv

\* The steps of at_uart_loop.
LEMMA LoopHeard ==
  ASSUME LineInv, HeardInv,
         Take \/ Copy \/ Process \/ Done \/ DoneReboot
  PROVE  HeardInv'
<1>1. CASE Take \/ Copy \/ Done \/ DoneReboot
  <2>1. stage' \in {"copy", "process", "loop"} /\ UNCHANGED <<handled, heard>>
    BY <1>1 DEF Take, Copy, Done, DoneReboot, seen
  <2>2. Heard' BY <2>1 DEF HeardInv, Heard, Printing
  <2>3. Buffered' BY <2>1 DEF Buffered
  <2>4. Undisturbed' BY <2>1 DEF Undisturbed, Printing
  <2> QED BY <2>2, <2>3, <2>4 DEF HeardInv
<1>2. CASE Process
  <2>1. stage = "process" /\ stage' = "text" /\ text' = 0 /\ left' = left /\ heard' = <<>>
    BY <1>2 DEF Process
  <2>2. left = 0 BY <2>1 DEF LineInv, Control, Printing
  <2>3. Printed' = 0 /\ Pending' = 0
    BY <2>1, <2>2 DEF Printed, EndOf, Pending, Filling, Copying
  <2>4. Len(heard') = 0 /\ DOMAIN heard' = {} BY <2>1
  <2>5. Heard' BY <2>4 DEF Heard, Orderly, Upto
  <2>6. Buffered' BY <2>1 DEF Buffered
  <2>7. Undisturbed' BY <2>1, <2>3, <2>4 DEF Undisturbed, Filling, Copying
  <2> QED BY <2>5, <2>6, <2>7 DEF HeardInv
<1> QED BY <1>1, <1>2

\* What the steps below need to know of the lengths and of the answer.
LEMMA PrintingFacts ==
  ASSUME LineInv, stage \in Printing
  PROVE  /\ BufLen \in Nat \ {0} /\ len \in Nat /\ reg \in Nat /\ size \in Nat /\ left \in Nat
         /\ len <= BufLen /\ reg <= BufLen /\ size <= BufLen
         /\ data \in [Places -> Char] /\ heard \in Seq(Char) /\ Len(heard) \in Nat
         /\ DOMAIN heard = 1 .. Len(heard)
         /\ tx.len \in Nat /\ tx.len <= BufLen /\ tx.data \in [Places -> Char]
         /\ Printed \in Nat /\ EndOf(line.kind, text) \in Nat /\ handled \in 1 .. MaxLines
         /\ MaxLines \in Nat
<1>1. BufLen \in Nat \ {0} /\ MaxLines \in Nat BY AtUartAssumption
<1>2. /\ len \in 0 .. BufLen /\ reg \in 0 .. BufLen /\ size \in 0 .. BufLen
      /\ data \in [Places -> Char] /\ heard \in Seq(Char)
      /\ tx.len \in 0 .. BufLen /\ tx.data \in [Places -> Char]
  BY DEF LineInv, UartTypeOK
<1>3. /\ Printed \in Nat /\ handled \in 1 .. MaxLines /\ left \in Nat
      /\ EndOf(line.kind, text) \in Nat
  BY PrintedFacts
<1>4. Len(heard) \in Nat /\ DOMAIN heard = 1 .. Len(heard) BY <1>2, LenProperties
<1> QED BY <1>1, <1>2, <1>3, <1>4

LEMMA StartHeard ==
  ASSUME LineInv, HeardInv, StartText PROVE HeardInv'
<1>1. /\ stage = "text" /\ UNCHANGED <<line, data, size, tx, handled, heard, quiet>>
      /\ \/ text = Len(Answers[line.kind]) /\ stage' = "done" /\ UNCHANGED <<text, left, len, reg>>
         \/ /\ text' = text + 1
            /\ left' = EndOf(line.kind, text + 1) - EndOf(line.kind, text)
            /\ len' = 0 /\ reg' = 0 /\ stage' = "put"
  BY DEF StartText, receiver, sender, seen
<1>2. left = 0 BY <1>1 DEF LineInv, Control
<1>a. stage \in Printing BY <1>1 DEF Printing
<1>3. Printed = EndOf(line.kind, text)
  <2>1. EndOf(line.kind, text) \in Nat BY <1>a, PrintingFacts
  <2> QED BY <1>2, <2>1 DEF Printed
<1>4. /\ Orderly(heard, handled) /\ Upto(heard, Printed)
      /\ quiet => Len(heard) = Printed /\ \A p \in DOMAIN heard : heard[p] = <<handled, p>>
  <2>1. Pending = 0 BY <1>1 DEF Pending, Filling, Copying
  <2>2. Orderly(heard, handled) /\ Upto(heard, Printed) BY <1>a DEF HeardInv, Heard
  <2>3. quiet => /\ Len(heard) + Pending = Printed
                 /\ \A p \in DOMAIN heard : heard[p] = <<handled, p>>
    BY <1>a DEF HeardInv, Undisturbed
  <2>4. Len(heard) + Pending = Len(heard) BY <1>a, <2>1, PrintingFacts
  <2> QED BY <2>2, <2>3, <2>4
<1>5. CASE text = Len(Answers[line.kind]) /\ stage' = "done" /\ UNCHANGED <<text, left, len, reg>>
  <2>1. Heard' BY <1>1, <1>4, <1>5 DEF Heard, Printing
  <2>2. Buffered' BY <1>5 DEF Buffered
  <2>3. ASSUME quiet PROVE heard = Whole(line.kind)
    <3>1. Len(heard) = Total(line.kind) BY <1>3, <1>4, <1>5, <2>3 DEF Total
    <3>2. \A p \in DOMAIN heard : heard[p] = <<handled, p>> BY <1>4, <2>3
    <3>3. heard \in Seq(Char) /\ DOMAIN heard = 1 .. Len(heard) BY <1>a, PrintingFacts
    <3>4. heard = [p \in DOMAIN heard |-> heard[p]] BY <3>3
    <3> QED BY <3>1, <3>2, <3>3, <3>4 DEF Whole
  <2>4. Whole(line.kind)' = Whole(line.kind) BY <1>1 DEF Whole, Total, EndOf
  <2>5. Undisturbed' BY <1>1, <1>5, <2>3, <2>4 DEF Undisturbed, Printing
  <2> QED BY <2>1, <2>2, <2>5 DEF HeardInv
<1>6. CASE /\ text' = text + 1 /\ left' = EndOf(line.kind, text + 1) - EndOf(line.kind, text)
           /\ len' = 0 /\ reg' = 0 /\ stage' = "put"
  <2>1. Printed' = Printed
    <3>1. EndOf(line.kind, text)' = EndOf(line.kind, text + 1) BY <1>1, <1>6 DEF EndOf
    <3>2. UartTypeOK' /\ Control' BY PrintLineInv
    <3>3. /\ EndOf(line.kind, text)' \in Nat /\ EndOf(line.kind, text) \in Nat
      <4>1. line.kind \in LineKinds /\ EndOf(line.kind, text) \in Nat
        BY <1>a, PrintedFacts
      <4>2. text' \in Nat /\ text' <= Len(Answers[line.kind])
        BY <1>1, <1>6, <3>2 DEF UartTypeOK, Control, Printing
      <4>3. text' \in 0 .. Len(Answers[line.kind]) BY <4>1, <4>2, EndFacts
      <4>4. EndOf(line.kind, text') \in Nat BY <4>1, <4>3, EndFacts
      <4> QED BY <1>6, <3>1, <4>1, <4>4
    <3>4. Printed' = EndOf(line.kind, text)' - left' BY DEF Printed
    <3> QED BY <1>3, <1>6, <3>1, <3>3, <3>4
  <2>2. Heard' BY <1>1, <1>4, <2>1 DEF Heard
  <2>3. Buffered' BY <1>6 DEF Buffered, Fresh, Fits
  <2>4. Pending' = 0 BY <1>6 DEF Pending, Filling
  <2>5. quiet => Len(heard) + 0 = Printed BY <1>a, <1>4, PrintingFacts
  <2>6. Undisturbed' BY <1>1, <1>4, <1>6, <2>1, <2>4, <2>5 DEF Undisturbed, Copying
  <2> QED BY <2>2, <2>3, <2>6 DEF HeardInv
<1> QED BY <1>1, <1>5, <1>6

LEMMA PutHeard ==
  ASSUME LineInv, HeardInv, PutChar PROVE HeardInv'
<1>1. PICK i \in {len, reg} :
        /\ data' = [data EXCEPT ![i + 1] = <<handled, Printed + 1>>]
        /\ stage = "put" /\ stage' = "count" /\ left' = left - 1 /\ reg' = i
        /\ UNCHANGED <<line, text, len, size, tx, handled, heard, quiet>>
  BY DEF PutChar, Index, receiver, sender, seen
<1>2. stage \in Printing BY <1>1 DEF Printing
<1>3. len \in {0, reg} /\ reg < BufLen BY <1>1 DEF LineInv, Control, Filling
<1>4. i \in Nat /\ i < BufLen /\ i <= reg BY <1>2, <1>3, PrintingFacts
<1>5. Printed' = Printed + 1
  <2>1. EndOf(line.kind, text)' = EndOf(line.kind, text) BY <1>1 DEF EndOf
  <2> QED BY <1>1, <1>2, <2>1, PrintingFacts DEF Printed
<1>6. Orderly(heard, handled) /\ Upto(heard, Printed) BY <1>2 DEF HeardInv, Heard
<1>7. Heard'
  <2>1. \A j \in DOMAIN heard : heard[j][2] \in Nat
    <3>1. heard \in Seq(Char) BY <1>2, PrintingFacts
    <3>2. \A j \in DOMAIN heard : heard[j] \in Char BY <3>1, ElementOfSeq, LenProperties
    <3> QED BY <3>2, CharType
  <2>2. Upto(heard, Printed + 1) BY <1>2, <1>6, <2>1, PrintingFacts DEF Upto
  <2> QED BY <1>1, <1>5, <1>6, <2>2 DEF Heard
<1>8. Buffered'
  <2>1. Fits(data, reg, heard, handled, Printed) BY <1>1 DEF HeardInv, Buffered, Fresh
  <2>2. Fits(data, i, heard, handled, Printed)
    <3>1. Printed <= Printed BY <1>2, PrintingFacts
    <3> QED BY <1>2, <1>4, <2>1, <3>1, PrintingFacts, FitsLess
  <2>3. Fits(data', i + 1, heard, handled, Printed + 1)
    BY <1>1, <1>2, <1>4, <1>6, <2>2, PrintingFacts, FitsPut
  <2>4. Fresh(data, reg + 1)' BY <1>1, <1>5, <2>3 DEF Fresh
  <2> QED BY <1>1, <2>4 DEF Buffered
<1>9. Undisturbed'
  <2>1. SUFFICES ASSUME quiet
                 PROVE  /\ Len(heard) + Pending' = Printed + 1
                        /\ \A p \in DOMAIN heard : heard[p] = <<handled, p>>
                        /\ \A p \in 1 .. Pending' : data'[p] = <<handled, Len(heard) + p>>
                        /\ len = reg'
    BY <1>1, <1>5 DEF Undisturbed, Copying
  <2>2. /\ Len(heard) + Pending = Printed
        /\ \A p \in DOMAIN heard : heard[p] = <<handled, p>>
        /\ \A p \in 1 .. Pending : data[p] = <<handled, Len(heard) + p>>
        /\ len = reg
    BY <1>1, <1>2, <2>1 DEF HeardInv, Undisturbed, Filling
  <2>3. Pending = len /\ Pending' = len + 1 BY <1>1 DEF Pending, Filling
  <2>4. i = len BY <1>1, <2>2
  <2>5. Len(heard) + (len + 1) = Printed + 1 BY <1>2, <2>2, <2>3, PrintingFacts
  <2>6. ASSUME NEW p \in 1 .. len + 1 PROVE data'[p] = <<handled, Len(heard) + p>>
    <3>1. p \in Places /\ p \in Nat BY <1>2, <1>4, <2>4, PrintingFacts DEF Places
    <3>2. CASE p = len + 1
      <4>1. data'[p] = <<handled, Printed + 1>> BY <1>1, <1>2, <2>4, <3>1, <3>2, PrintingFacts
      <4>2. Printed + 1 = Len(heard) + p BY <2>5, <3>2
      <4> QED BY <4>1, <4>2
    <3>3. CASE p # len + 1
      <4>1. data'[p] = data[p] BY <1>1, <1>2, <2>4, <3>1, <3>3, PrintingFacts
      <4>2. p \in 1 .. len BY <1>2, <3>1, <3>3, PrintingFacts
      <4> QED BY <2>2, <2>3, <4>1, <4>2
    <3> QED BY <3>2, <3>3
  <2> QED BY <1>1, <2>2, <2>3, <2>4, <2>5, <2>6
<1> QED BY <1>7, <1>8, <1>9 DEF HeardInv

LEMMA CountHeard ==
  ASSUME LineInv, HeardInv, CountChar PROVE HeardInv'
<1>1. PICK i \in {len, reg} :
        /\ len' = i + 1 /\ reg' = i + 1 /\ stage = "count" /\ stage' = "full"
        /\ UNCHANGED <<line, text, left, data, size, tx, handled, heard, quiet>>
  BY DEF CountChar, Index, receiver, sender, seen
<1>2. stage \in Printing BY <1>1 DEF Printing
<1>3. len \in {0, reg} /\ reg < BufLen BY <1>1 DEF LineInv, Control, Filling
<1>4. i \in Nat /\ i + 1 \in Nat /\ i + 1 <= reg + 1 /\ reg + 1 \in Nat /\ reg + 1 <= BufLen
  BY <1>2, <1>3, PrintingFacts
<1>5. Printed' = Printed BY <1>1 DEF Printed, EndOf
<1>6. Heard' BY <1>1, <1>2, <1>5 DEF HeardInv, Heard
<1>7. Buffered'
  <2>1. Fits(data, reg + 1, heard, handled, Printed) BY <1>1 DEF HeardInv, Buffered, Fresh
  <2>2. Fits(data, i + 1, heard, handled, Printed)
    <3>1. Printed <= Printed BY <1>2, PrintingFacts
    <3> QED BY <1>2, <1>4, <2>1, <3>1, PrintingFacts, FitsLess
  <2>3. Fresh(data, reg)' BY <1>1, <1>5, <2>2 DEF Fresh
  <2> QED BY <1>1, <2>3 DEF Buffered
<1>8. Undisturbed'
  <2>1. quiet => len = reg BY <1>1, <1>2 DEF HeardInv, Undisturbed, Filling
  <2>2. quiet => Pending' = Pending BY <1>1, <2>1 DEF Pending, Filling
  <2>3. quiet => /\ Len(heard) + Pending = Printed
                 /\ \A p \in DOMAIN heard : heard[p] = <<handled, p>>
                 /\ \A p \in 1 .. Pending : data[p] = <<handled, Len(heard) + p>>
    BY <1>2 DEF HeardInv, Undisturbed
  <2> QED BY <1>1, <1>5, <2>2, <2>3 DEF Undisturbed, Copying
<1> QED BY <1>6, <1>7, <1>8 DEF HeardInv

LEMMA CheckHeard ==
  ASSUME LineInv, HeardInv, CheckFull \/ PrintTail PROVE HeardInv'
<1>1. PICK i \in {len, reg} :
        /\ reg' = i /\ stage \in {"full", "tail"} /\ stage' \in {"send", "put", "tail", "text"}
        /\ stage' = "text" => i = 0
        /\ UNCHANGED <<line, text, left, data, len, size, tx, handled, heard, quiet>>
  BY DEF CheckFull, PrintTail, NextPart, Index, receiver, sender, seen
<1>2. stage \in Printing BY <1>1 DEF Printing
<1>3. len \in {0, reg} BY <1>1 DEF LineInv, Control, Filling
<1>4. i \in Nat /\ i <= reg /\ len \in Nat BY <1>1, <1>2, <1>3, PrintingFacts
<1>5. Printed' = Printed BY <1>1 DEF Printed, EndOf
<1>6. Heard' BY <1>1, <1>2, <1>5 DEF HeardInv, Heard
<1>7. Buffered'
  <2>1. Fits(data, reg, heard, handled, Printed) BY <1>1 DEF HeardInv, Buffered, Fresh
  <2>2. Fits(data, i, heard, handled, Printed)
    <3>1. Printed <= Printed BY <1>2, PrintingFacts
    <3> QED BY <1>2, <1>4, <2>1, <3>1, PrintingFacts, FitsLess
  <2>3. Fresh(data, reg)' BY <1>1, <1>5, <2>2 DEF Fresh
  <2> QED BY <1>1, <2>3 DEF Buffered
<1>8. Undisturbed'
  <2>1. quiet => len = reg BY <1>1, <1>2 DEF HeardInv, Undisturbed, Filling
  <2>2. quiet => Pending' = Pending BY <1>1, <2>1 DEF Pending, Filling, Copying
  <2>3. quiet => /\ Len(heard) + Pending = Printed
                 /\ \A p \in DOMAIN heard : heard[p] = <<handled, p>>
                 /\ \A p \in 1 .. Pending : data[p] = <<handled, Len(heard) + p>>
    BY <1>2 DEF HeardInv, Undisturbed
  <2>4. quiet => len = reg' BY <1>1, <2>1
  <2> QED BY <1>1, <1>5, <2>2, <2>3, <2>4 DEF Undisturbed, Copying
<1> QED BY <1>6, <1>7, <1>8 DEF HeardInv

\* The steps of uart_Send: nothing is dropped while the radio is quiet, because
\* no transmission is under way when it begins.
LEMMA CopyHeard ==
  ASSUME LineInv, HeardInv, SendCheck \/ CopyLength \/ CopyData
  PROVE  HeardInv'
<1>1. /\ stage \in {"send", "copy length", "copy data"}
      /\ UNCHANGED <<line, text, left, data, len, reg, handled, heard, quiet>>
  BY DEF SendCheck, CopyLength, CopyData, receiver, buffer, seen
<1>2. stage \in Printing BY <1>1 DEF Printing
<1>3. Printed' = Printed BY <1>1 DEF Printed, EndOf
<1>4. Heard' BY <1>1, <1>2, <1>3 DEF HeardInv, Heard
<1>5. quiet => /\ Len(heard) + Pending = Printed
               /\ \A p \in DOMAIN heard : heard[p] = <<handled, p>>
               /\ \A p \in 1 .. Pending : data[p] = <<handled, Len(heard) + p>>
  BY <1>2 DEF HeardInv, Undisturbed
<1>6. CASE SendCheck
  <2>1. stage = "send" /\ size' = len /\ tx' = tx /\ stage' = "copy length"
    BY <1>6 DEF SendCheck, LineInv, Control
  <2>2. len \in {0, reg} BY <2>1 DEF LineInv, Control
  <2>3. Buffered'
    <3>1. Fits(data, reg, heard, handled, Printed) BY <2>1 DEF HeardInv, Buffered, Fresh
    <3>2. len <= reg /\ Printed <= Printed BY <1>2, <2>2, PrintingFacts
    <3>3. Fits(data, len, heard, handled, Printed)
      BY <1>2, <3>1, <3>2, PrintingFacts, FitsLess
    <3>4. Fresh(data, size)' BY <1>1, <1>3, <2>1, <3>3 DEF Fresh
    <3> QED BY <2>1, <3>4 DEF Buffered
  <2>4. Pending' = Pending BY <1>1, <2>1 DEF Pending, Filling, Copying
  <2>5. Undisturbed' BY <1>1, <1>3, <1>5, <2>1, <2>4 DEF Undisturbed, Filling, Copying
  <2> QED BY <1>4, <2>3, <2>5 DEF HeardInv
<1>7. CASE CopyLength
  <2>1. stage = "copy length" /\ size' = size /\ stage' = "copy data" /\ tx' = [tx EXCEPT !.len = len]
    BY <1>7 DEF CopyLength
  <2>2. len \in {0, size} BY <2>1 DEF LineInv, Control, Copying
  <2>3. tx'.len = len
    <3>1. tx \in [len : 0 .. BufLen, data : [Places -> Char]] BY DEF LineInv, UartTypeOK
    <3> QED BY <2>1, <3>1
  <2>4. Buffered'
    <3>1. Fits(data, size, heard, handled, Printed) BY <2>1 DEF HeardInv, Buffered, Fresh
    <3>2. Fresh(data, size)' BY <1>1, <1>3, <2>1, <3>1 DEF Fresh
    <3>3. size \in Nat BY <1>2, PrintingFacts
    <3>4. len <= size BY <2>2, <3>3
    <3>5. size' = size BY <2>1
    <3>6. tx'.len <= size' BY <2>3, <3>4, <3>5
    <3> QED BY <2>1, <3>2, <3>6 DEF Buffered
  <2>5. Pending' = Pending BY <1>1, <2>1 DEF Pending, Filling, Copying
  <2>6. quiet => len = size BY <1>2, <2>1 DEF HeardInv, Undisturbed, Copying
  <2>7. Undisturbed' BY <1>1, <1>3, <1>5, <2>1, <2>3, <2>5, <2>6 DEF Undisturbed, Filling, Copying
  <2> QED BY <1>4, <2>4, <2>7 DEF HeardInv
<1>8. CASE CopyData
  <2>1. /\ stage = "copy data" /\ size' = size /\ stage' = "start"
        /\ tx' = [tx EXCEPT !.data = [p \in Places |-> IF p <= size THEN data[p] ELSE @[p]]]
    BY <1>8 DEF CopyData
  <2>2. /\ tx'.len = tx.len
        /\ \A p \in Places : tx'.data[p] = IF p <= size THEN data[p] ELSE tx.data[p]
    <3>1. tx \in [len : 0 .. BufLen, data : [Places -> Char]] BY DEF LineInv, UartTypeOK
    <3>2. tx'.data = [p \in Places |-> IF p <= size THEN data[p] ELSE tx.data[p]]
      BY <2>1, <3>1
    <3> QED BY <2>1, <3>1, <3>2
  <2>3. PICK e, n : e = tx'.data /\ n = tx'.len OBVIOUS
  <2>4. n \in Nat /\ n <= BufLen /\ \A p \in 1 .. n : p \in Places
    BY <1>2, <2>2, <2>3, PrintingFacts DEF Places
  <2>5. Buffered'
    <3>1. Fits(data, size, heard, handled, Printed) BY <2>1 DEF HeardInv, Buffered, Fresh
    <3>2. n <= size \/ \A p \in 1 .. n : tx.data[p] = Other
      BY <2>1, <2>2, <2>3 DEF HeardInv, Buffered
    <3>3. \A p \in 1 .. n : e[p] # Other => p \in 1 .. size /\ e[p] = data[p]
      BY <1>2, <2>2, <2>3, <2>4, <3>2, PrintingFacts
    <3>4. Fits(e, n, heard, handled, Printed) BY <3>1, <3>3 DEF Fits
    <3>5. Fresh(tx.data, tx.len)' BY <1>1, <1>3, <2>3, <3>4 DEF Fresh
    <3> QED BY <2>1, <3>5 DEF Buffered
  <2>6. Pending' = Pending BY <1>1, <2>1 DEF Pending, Filling, Copying
  <2>7. quiet => len = size /\ tx.len = size BY <1>2, <2>1 DEF HeardInv, Undisturbed, Copying
  <2>8. \A p \in 1 .. size : tx'.data[p] = data[p]
    BY <1>2, <2>2, PrintingFacts DEF Places
  <2>9. Undisturbed'
    BY <1>1, <1>3, <1>5, <2>1, <2>2, <2>6, <2>7, <2>8 DEF Undisturbed, Filling, Copying
  <2> QED BY <1>4, <2>5, <2>9 DEF HeardInv
<1> QED BY <1>6, <1>7, <1>8

LEMMA StartTxHeard ==
  ASSUME LineInv, HeardInv, StartTx PROVE HeardInv'
<1>1. /\ stage = "start" /\ stage' = "reset"
      /\ heard' = heard \o SubSeq(tx.data, 1, tx.len)
      /\ UNCHANGED <<line, text, left, data, len, reg, size, tx, handled, quiet>>
  BY DEF StartTx, receiver, buffer
<1>2. stage \in Printing /\ stage' \in Printing BY <1>1 DEF Printing
<1>3. Printed' = Printed BY <1>1 DEF Printed, EndOf
<1>4. /\ heard' \in Seq(Char) /\ Len(heard) \in Nat /\ Len(heard') = Len(heard) + tx.len
      /\ \A p \in 1 .. Len(heard') :
           heard'[p] = IF p <= Len(heard) THEN heard[p] ELSE tx.data[p - Len(heard)]
  BY <1>1, HeardLonger DEF LineInv
<1>5. Heard'
  <2>1. Orderly(heard, handled) /\ Upto(heard, Printed) BY <1>2 DEF HeardInv, Heard
  <2>2. Fits(tx.data, tx.len, heard, handled, Printed)
    BY <1>1 DEF HeardInv, Buffered, Fresh
  <2>3. Orderly(heard', handled) /\ Upto(heard', Printed)
    BY <1>2, <1>4, <2>1, <2>2, FitsHeard, PrintingFacts
  <2> QED BY <1>1, <1>3, <2>3 DEF Heard
<1>6. Buffered' BY <1>1 DEF Buffered
<1>7. Undisturbed'
  <2>1. Pending' = 0 /\ \A p : p \notin 1 .. Pending'
    BY <1>1 DEF Pending, Filling, Copying
  <2>2. SUFFICES ASSUME quiet
                 PROVE  /\ Len(heard') + Pending' = Printed'
                        /\ \A p \in DOMAIN heard' : heard'[p] = <<handled', p>>
    <3> HIDE DEF Pending, Printed
    <3> QED BY <1>1, <2>1 DEF Undisturbed, Filling, Copying
  <2>3. /\ Len(heard) + Pending = Printed
        /\ \A p \in DOMAIN heard : heard[p] = <<handled, p>>
        /\ \A p \in 1 .. Pending : data[p] = <<handled, Len(heard) + p>>
        /\ len = size /\ tx.len = size
        /\ \A p \in 1 .. size : tx.data[p] = data[p]
    BY <1>1, <1>2, <2>2 DEF HeardInv, Undisturbed, Copying
  <2>4. Pending = size BY <1>1, <2>3 DEF Pending, Copying, Filling
  <2>5. Len(heard') = Printed /\ Len(heard') + 0 = Len(heard')
    BY <1>2, <1>4, <2>3, <2>4, PrintingFacts
  <2>6. ASSUME NEW p \in 1 .. Len(heard') PROVE heard'[p] = <<handled, p>>
    <3>1. p \in Nat /\ p >= 1 /\ p <= Len(heard) + size /\ size \in Nat
      BY <1>2, <1>4, <2>3, PrintingFacts
    <3>2. CASE p <= Len(heard)
      <4>1. p \in DOMAIN heard BY <1>2, <3>1, <3>2, PrintingFacts
      <4> QED BY <1>4, <2>3, <3>2, <4>1
    <3>3. CASE p > Len(heard)
      <4>1. p - Len(heard) \in 1 .. size BY <1>4, <3>1, <3>3
      <4>2. heard'[p] = tx.data[p - Len(heard)] BY <1>4, <2>6, <3>1, <3>3
      <4>3. Len(heard) + (p - Len(heard)) = p BY <1>4, <3>1
      <4> QED BY <2>3, <2>4, <4>1, <4>2, <4>3
    <3> QED BY <1>4, <3>1, <3>2, <3>3
  <2>7. DOMAIN heard' = 1 .. Len(heard') BY <1>4, LenProperties
  <2> QED BY <1>1, <1>3, <2>1, <2>5, <2>6, <2>7
<1> QED BY <1>5, <1>6, <1>7 DEF HeardInv

LEMMA ResetHeard ==
  ASSUME LineInv, HeardInv, ResetLen \/ WaitMs PROVE HeardInv'
<1>1. /\ stage \in {"reset", "wait"} /\ stage' \in {"wait", "put", "tail"} /\ len' = 0 /\ reg' = 0
      /\ UNCHANGED <<line, text, left, data, size, tx, handled, heard, quiet>>
  <2>1. CASE ResetLen BY <2>1 DEF ResetLen, receiver, sender, seen
  <2>2. CASE WaitMs
    <3>1. len = 0 /\ reg = 0 BY <2>2 DEF WaitMs, LineInv, Control
    <3> QED BY <2>2, <3>1 DEF WaitMs, NextPart, receiver, buffer, sender, seen
  <2> QED BY <2>1, <2>2
<1>2. stage \in Printing BY <1>1 DEF Printing
<1>3. Printed' = Printed BY <1>1 DEF Printed, EndOf
<1>4. Heard' BY <1>1, <1>2, <1>3 DEF HeardInv, Heard
<1>5. Buffered'
  <2>1. \A p : p \notin 1 .. reg' BY <1>1
  <2>2. Fresh(data, reg)' BY <2>1 DEF Fresh, Fits
  <2> QED BY <1>1, <2>2 DEF Buffered
<1>6. Pending = 0 /\ Pending' = 0 /\ \A p : p \notin 1 .. Pending'
  <2>1. Pending = 0 BY <1>1 DEF Pending, Filling, Copying
  <2>2. Pending' = 0 BY <1>1 DEF Pending, Filling, Copying
  <2> QED BY <2>1, <2>2
<1>7. Undisturbed'
  <2>1. quiet => /\ Len(heard) + 0 = Printed
                 /\ \A p \in DOMAIN heard : heard[p] = <<handled, p>>
    BY <1>2, <1>6 DEF HeardInv, Undisturbed
  <2>2. quiet' => /\ Len(heard') + Pending' = Printed'
                  /\ \A p \in DOMAIN heard' : heard'[p] = <<handled', p>>
    BY <1>1, <1>3, <1>6, <2>1
  <2>3. len' = reg' BY <1>1
  <2> QED BY <1>1, <1>6, <2>2, <2>3 DEF Undisturbed, Copying
<1> QED BY <1>4, <1>5, <1>7 DEF HeardInv

\* Whatever the interrupt overwrites, what is left of the answer still fits.
LEMMA RadioHeard ==
  ASSUME LineInv, HeardInv, NEW n \in 1 .. 2, NEW s \in Places,
         RadioPrint(n, s)
  PROVE  HeardInv'
<1>1. /\ data' = Fill(data, s) /\ quiet' = FALSE
      /\ tx' = tx \/ tx' = [len |-> s, data |-> Fill(tx.data, s)]
      /\ UNCHANGED <<line, stage, text, left, reg, size, handled, heard>>
  BY DEF RadioPrint, receiver
<1>2. Printed' = Printed BY <1>1 DEF Printed, EndOf
<1>3. Heard' BY <1>1, <1>2 DEF HeardInv, Heard
<1>4. Undisturbed' BY <1>1 DEF Undisturbed
<1>5. s \in Nat /\ s <= BufLen BY AtUartAssumption DEF Places
<1>6. tx' = tx \/ (tx'.len = s /\ \A p \in 1 .. s : tx'.data[p] = Other)
  <2>1. CASE tx' = [len |-> s, data |-> Fill(tx.data, s)]
    <3>1. tx'.len = s /\ tx'.data = Fill(tx.data, s) BY <2>1
    <3>2. tx.data \in [Places -> Char] BY DEF LineInv, UartTypeOK
    <3>3. \A p \in 1 .. s : p \in Places /\ p <= s BY <1>5, AtUartAssumption DEF Places
    <3> QED BY <1>5, <3>1, <3>2, <3>3, CharFacts
  <2> QED BY <1>1, <2>1
<1>7. Buffered'
  <2>1. ASSUME stage \in Printing, NEW i \in Nat, i <= BufLen, Fresh(data, i)
        PROVE  Fits(data', i, heard, handled, Printed)
    <3>1. data \in [Places -> Char] BY DEF LineInv, UartTypeOK
    <3> QED BY <1>1, <1>5, <2>1, <3>1, FitsFill DEF Fresh
  <2>2. CASE stage \in {"put", "full", "tail", "send"}
    <3>1. Fits(data', reg, heard, handled, Printed)
      BY <2>1, <2>2, PrintingFacts DEF HeardInv, Buffered, Printing
    <3> QED BY <1>1, <1>2, <2>2, <3>1 DEF Buffered, Fresh
  <2>3. CASE stage = "count"
    <3>1. reg < BufLen BY <2>3 DEF LineInv, Control
    <3>2. reg + 1 \in Nat /\ reg + 1 <= BufLen BY <2>3, <3>1, PrintingFacts DEF Printing
    <3>3. Fits(data', reg + 1, heard, handled, Printed)
      BY <2>1, <2>3, <3>2 DEF HeardInv, Buffered, Printing
    <3> QED BY <1>1, <1>2, <2>3, <3>3 DEF Buffered, Fresh
  <2>4. CASE stage \in {"copy length", "copy data"}
    <3>1. Fits(data', size, heard, handled, Printed)
      BY <2>1, <2>4, PrintingFacts DEF HeardInv, Buffered, Printing
    <3>2. stage = "copy data" => tx'.len <= size \/ \A p \in 1 .. tx'.len : tx'.data[p] = Other
      BY <1>6 DEF HeardInv, Buffered
    <3> QED BY <1>1, <1>2, <2>4, <3>1, <3>2 DEF Buffered, Fresh
  <2>5. CASE stage = "start"
    <3>1. CASE tx' = tx BY <1>1, <1>2, <2>5, <3>1 DEF HeardInv, Buffered, Fresh
    <3>2. CASE tx'.len = s /\ \A p \in 1 .. s : tx'.data[p] = Other
      <4>1. Fresh(tx.data, tx.len)' BY <3>2 DEF Fresh, Fits
      <4> QED BY <1>1, <2>5, <4>1 DEF Buffered
    <3> QED BY <1>6, <3>1, <3>2
  <2>6. CASE stage \notin {"put", "full", "tail", "send", "count", "copy length", "copy data", "start"}
    BY <1>1, <2>6 DEF Buffered
  <2> QED BY <2>2, <2>3, <2>4, <2>5, <2>6
<1> QED BY <1>3, <1>4, <1>7 DEF HeardInv

LEMMA InitHeardInv == UartInit => HeardInv
<1> SUFFICES ASSUME UartInit PROVE HeardInv
  OBVIOUS
<1>1. stage = "loop" /\ heard = <<>> BY DEF UartInit
<1>2. DOMAIN heard = {} BY <1>1
<1> QED BY <1>1, <1>2 DEF HeardInv, Heard, Orderly, Buffered, Undisturbed, Printing

LEMMA NextHeardInv ==
  LineInv /\ HeardInv /\ [UartNext]_UartVars => HeardInv'
<1> SUFFICES ASSUME LineInv, HeardInv, [UartNext]_UartVars PROVE HeardInv'
  OBVIOUS
<1>1. CASE (\E k \in LineKinds : HostSend(k)) \/ UartIrq \/ TxDone \/ UNCHANGED UartVars
  <2>1. UNCHANGED <<line, stage, text, left, data, len, reg, size, tx, handled, heard, quiet>>
    BY <1>1 DEF HostSend, UartIrq, TxDone, UartVars, receiver, buffer, sender, seen
  <2> QED BY <2>1, SameHeard
<1>2. CASE Take \/ Copy \/ Process \/ Done \/ DoneReboot BY <1>2, LoopHeard
<1>3. CASE StartText BY <1>3, StartHeard
<1>4. CASE PutChar BY <1>4, PutHeard
<1>5. CASE CountChar BY <1>5, CountHeard
<1>6. CASE CheckFull \/ PrintTail BY <1>6, CheckHeard
<1>7. CASE SendCheck \/ CopyLength \/ CopyData BY <1>7, CopyHeard
<1>8. CASE StartTx BY <1>8, StartTxHeard
<1>9. CASE ResetLen \/ WaitMs BY <1>9, ResetHeard
<1>10. CASE \E n \in 1 .. 2, s \in Places : RadioPrint(n, s) BY <1>10, RadioHeard
<1> QED
  BY <1>1, <1>2, <1>3, <1>4, <1>5, <1>6, <1>7, <1>8, <1>9, <1>10 DEF UartNext, MainLoop

\* What the host hears of an answer is the answer, as HeardIsAnswer says, for
\* every size of the buffer and of the answers and wherever the interrupt
\* overwrites the buffers that at_print and uart_Send share with it: the places
\* that hold characters are always a prefix that ends at a length the main loop
\* has seen, and what was in them before is in the part that is not sent.
THEOREM HostHearsAnswer == UartSpec => []HeardIsAnswer
<1>1. UartInit => LineInv /\ HeardInv BY InitLineInv, InitHeardInv
<1>2. LineInv /\ HeardInv /\ [UartNext]_UartVars => LineInv' /\ HeardInv'
  BY NextLineInv, NextHeardInv
<1>3. LineInv /\ HeardInv => HeardIsAnswer
  <2> SUFFICES ASSUME LineInv, HeardInv PROVE HeardIsAnswer
    OBVIOUS
  <2>1. Orderly(heard, handled) BY DEF HeardInv, Heard
  <2>2. stage = "done" /\ quiet => heard = Whole(line.kind) BY DEF HeardInv, Undisturbed
  <2> QED BY <2>1, <2>2 DEF HeardIsAnswer, Orderly
<1> QED BY <1>1, <1>2, <1>3, PTL DEF UartSpec
=============================================================================
