----------------------------- MODULE Burn_proofs -----------------------------
(***************************************************************************)
(* Proofs about Burn, for every size of the areas and of the image, every  *)
(* number of tries, and every loss and delay on the line.                  *)
(***************************************************************************)
EXTENDS Burn, SequenceTheorems, TLAPS

Sent == ToSet(cmds)
Answers == ToSet(wire) \cup ToSet(input)
Without(K) == \A c \in Sent : c.kind # K
Once(K, s) == \A j, k \in 1 .. Len(s) : s[j].kind = K /\ s[k].kind = K => j = k

\* The sectors that the tool erases hold nothing but packets of the image, each
\* in its place.
Clean == \A a \in Erased :
           flash[a] = Blank \/ \E i \in 0 .. size - 1 : a = Place(i) /\ flash[a] = i

\* The tool before its erase command, and after the answer to it.
Early == {"start", "connect", "change_baud", "baud", "version", "erase"}
Late == {"write", "writing", "done", "broken"}

\* The tool's own state.
Control ==
  /\ job = "burn_triad" => size = 1
  /\ pc \in {"write", "writing", "done"} => size <= Limit
  /\ pc \in Early \cup {"erasing"} => firmware = 0
  /\ pc = "writing" => firmware < size
  /\ pc = "done" => firmware = size
  /\ pc # "failed" => error_c >= 1

\* Both ends talk at the same rate, but while the tool waits for the answer to
\* its change; that command is sent once.
Rates ==
  /\ Once(5, cmds)
  /\ ~Without(5) => pc = "baud"
  /\ pc \in {"start", "connect", "change_baud"} => 5 \notin Answers
  /\ pc = "baud" => /\ baud["tool"] = Fast
                    /\ 5 \in Answers => baud["chip"] = Fast /\ Without(5)
  /\ pc # "baud" => baud["tool"] = baud["chip"]

\* The erase command is sent once, and no packet before its answer.
Order ==
  /\ Once(3, cmds)
  /\ pc \in Early => Without(3) /\ Without(1) /\ 3 \notin Answers
  /\ ~Without(1) \/ 3 \in Answers \/ pc \in Late => Clean /\ Without(3)
  /\ \A c \in Sent : c.kind = 1 =>
       c.packet < size /\ size <= Limit /\ c.at = Place(c.packet)

\* The flash is as it was outside the erased sectors, and inside them until the
\* erase command.
Untouched ==
  /\ \A a \in Adrs \ Erased : flash[a] = IF a < Boot THEN Loader ELSE Old
  /\ Clean \/ \A a \in Erased : flash[a] = Old

\* A packet is in its place, or its command will be executed.
There(i) ==
  flash[Place(i)] = i \/ [kind |-> 1, at |-> Place(i), packet |-> i] \in Sent

\* On a line that is only slow nothing is lost: every packet the tool has sent
\* is there.
Slowly == line = "slow" /\ pc \in {"write", "writing", "done"} =>
  \A i \in 0 .. size - 1 : i < firmware \/ (i = firmware /\ pc = "writing") => There(i)

\* On a line that only loses, one thing at most is under way, and an answer is
\* one to the last command.
Lossy == line = "lossy" =>
  /\ pc \notin Waiting => cmds = <<>> /\ wire = <<>>
  /\ Len(cmds) + Len(wire) + Len(input) <= 1
  /\ pc \in {"write", "writing", "done"} =>
       \A i \in 0 .. size - 1 : i < firmware => flash[Place(i)] = i
  /\ pc = "writing" => \A c \in Sent : c.kind = 1 => c.packet = firmware
  /\ pc = "writing" /\ 1 \in Answers => flash[Place(firmware)] = firmware

Inv == TypeOK /\ Control /\ Rates /\ Order /\ Untouched /\ Slowly /\ Lossy

-----------------------------------------------------------------------------
(* The operators of the model.                                             *)

LEMMA EmptyFacts == ToSet(<<>>) = {} /\ Len(<<>>) = 0 /\ \A K : Once(K, <<>>)
BY DEF ToSet, Once

LEMMA AppendFacts ==
  ASSUME NEW S, NEW s \in Seq(S), NEW e \in S
  PROVE  /\ Append(s, e) \in Seq(S)
         /\ Len(Append(s, e)) = Len(s) + 1 /\ Len(s) \in Nat
         /\ ToSet(Append(s, e)) = ToSet(s) \cup {e}
         /\ \A i \in 1 .. Len(s) : Append(s, e)[i] = s[i]
         /\ Append(s, e)[Len(s) + 1] = e
<1>1. /\ Append(s, e) \in Seq(S)
      /\ Len(Append(s, e)) = Len(s) + 1
      /\ \A i \in 1 .. Len(s) : Append(s, e)[i] = s[i]
      /\ Append(s, e)[Len(s) + 1] = e
  BY AppendProperties
<1>2. DOMAIN s = 1 .. Len(s) /\ DOMAIN Append(s, e) = 1 .. Len(s) + 1 /\ Len(s) \in Nat
  BY <1>1, LenProperties
<1>3. ToSet(Append(s, e)) = ToSet(s) \cup {e}
  <2>1. ASSUME NEW x, x \in ToSet(Append(s, e)) PROVE x \in ToSet(s) \cup {e}
    <3>1. PICK i \in 1 .. Len(s) + 1 : x = Append(s, e)[i] BY <1>2, <2>1 DEF ToSet
    <3>2. CASE i = Len(s) + 1 BY <1>1, <3>1, <3>2
    <3>3. CASE i # Len(s) + 1
      <4>1. i \in 1 .. Len(s) BY <1>2, <3>3
      <4> QED BY <1>1, <1>2, <3>1, <4>1 DEF ToSet
    <3> QED BY <3>2, <3>3
  <2>2. ASSUME NEW x, x \in ToSet(s) \cup {e} PROVE x \in ToSet(Append(s, e))
    <3>1. CASE x = e
      <4>1. Len(s) + 1 \in 1 .. Len(s) + 1 BY <1>2
      <4> QED BY <1>1, <1>2, <3>1, <4>1 DEF ToSet
    <3>2. CASE x # e
      <4>1. PICK i \in 1 .. Len(s) : x = s[i] BY <1>2, <2>2, <3>2 DEF ToSet
      <4>2. i \in 1 .. Len(s) + 1 BY <1>2
      <4> QED BY <1>1, <1>2, <4>1, <4>2 DEF ToSet
    <3> QED BY <3>1, <3>2
  <2> QED BY <2>1, <2>2
<1> QED BY <1>1, <1>2, <1>3

LEMMA TailFacts ==
  ASSUME NEW S, NEW s \in Seq(S), s # <<>>
  PROVE  /\ Head(s) \in S /\ Tail(s) \in Seq(S)
         /\ Len(Tail(s)) = Len(s) - 1 /\ Len(s) \in Nat \ {0}
         /\ ToSet(s) = {Head(s)} \cup ToSet(Tail(s))
         /\ \A i \in 1 .. Len(s) - 1 : Tail(s)[i] = s[i + 1]
         /\ Head(s) = s[1]
<1>1. /\ Head(s) \in S /\ Tail(s) \in Seq(S)
      /\ Len(Tail(s)) = Len(s) - 1
      /\ \A i \in 1 .. Len(Tail(s)) : Tail(s)[i] = s[i + 1]
  BY HeadTailProperties
<1>2. Len(s) \in Nat \ {0} BY EmptySeq
<1>3. Head(s) = s[1] OBVIOUS
<1>4. DOMAIN s = 1 .. Len(s) /\ DOMAIN Tail(s) = 1 .. Len(s) - 1
  BY <1>1, LenProperties
<1>5. ToSet(s) = {Head(s)} \cup ToSet(Tail(s))
  <2>1. ASSUME NEW x, x \in ToSet(s) PROVE x \in {Head(s)} \cup ToSet(Tail(s))
    <3>1. PICK i \in 1 .. Len(s) : x = s[i] BY <1>4, <2>1 DEF ToSet
    <3>2. CASE i = 1 BY <1>3, <3>1, <3>2
    <3>3. CASE i # 1
      <4>1. i - 1 \in 1 .. Len(s) - 1 /\ (i - 1) + 1 = i BY <1>2, <3>3
      <4>2. x = Tail(s)[i - 1] BY <1>1, <3>1, <4>1
      <4> QED BY <1>4, <4>1, <4>2 DEF ToSet
    <3> QED BY <3>2, <3>3
  <2>2. ASSUME NEW x, x \in {Head(s)} \cup ToSet(Tail(s)) PROVE x \in ToSet(s)
    <3>1. CASE x = Head(s)
      <4>1. 1 \in 1 .. Len(s) BY <1>2
      <4> QED BY <1>3, <1>4, <3>1, <4>1 DEF ToSet
    <3>2. CASE x # Head(s)
      <4>1. PICK i \in 1 .. Len(s) - 1 : x = Tail(s)[i] BY <1>4, <2>2, <3>2 DEF ToSet
      <4>2. i + 1 \in 1 .. Len(s) /\ x = s[i + 1] BY <1>1, <1>2, <4>1
      <4> QED BY <1>4, <4>2 DEF ToSet
    <3> QED BY <3>1, <3>2
  <2> QED BY <2>1, <2>2
<1> QED BY <1>1, <1>2, <1>3, <1>5

LEMMA ElementOf ==
  ASSUME NEW S, NEW s \in Seq(S)
  PROVE  /\ ToSet(s) \subseteq S
         /\ \A x : x \in ToSet(s) <=> \E i \in 1 .. Len(s) : x = s[i]
<1>1. DOMAIN s = 1 .. Len(s) BY LenProperties
<1>2. \A i \in 1 .. Len(s) : s[i] \in S BY ElementOfSeq
<1> QED BY <1>1, <1>2 DEF ToSet

\* A kind of command that is sent once is gone when it is executed.
LEMMA OnceAppend ==
  ASSUME NEW S, NEW s \in Seq(S), NEW e \in S, NEW K, Once(K, s),
         e.kind # K \/ \A c \in ToSet(s) : c.kind # K
  PROVE  Once(K, Append(s, e))
<1> SUFFICES ASSUME NEW j \in 1 .. Len(Append(s, e)), NEW k \in 1 .. Len(Append(s, e)),
                    Append(s, e)[j].kind = K, Append(s, e)[k].kind = K
             PROVE  j = k
  BY DEF Once
<1>1. j \in 1 .. Len(s) + 1 /\ k \in 1 .. Len(s) + 1 /\ Len(s) \in Nat BY AppendFacts
<1>2. CASE e.kind # K
  <2>1. j # Len(s) + 1 /\ k # Len(s) + 1 BY <1>2, AppendFacts
  <2>2. j \in 1 .. Len(s) /\ k \in 1 .. Len(s) BY <1>1, <2>1
  <2>3. s[j].kind = K /\ s[k].kind = K BY <2>2, AppendFacts
  <2> QED BY <2>2, <2>3 DEF Once
<1>3. CASE \A c \in ToSet(s) : c.kind # K
  <2>1. \A i \in 1 .. Len(s) : s[i].kind # K BY <1>3, ElementOf
  <2>2. j \notin 1 .. Len(s) /\ k \notin 1 .. Len(s) BY <2>1, AppendFacts
  <2> QED BY <1>1, <2>2
<1> QED BY <1>2, <1>3

LEMMA OnceTail ==
  ASSUME NEW S, NEW s \in Seq(S), s # <<>>, NEW K, Once(K, s)
  PROVE  /\ Once(K, Tail(s))
         /\ Head(s).kind = K => \A c \in ToSet(Tail(s)) : c.kind # K
<1>1. /\ Tail(s) \in Seq(S) /\ Len(s) \in Nat \ {0} /\ Len(Tail(s)) = Len(s) - 1
      /\ \A i \in 1 .. Len(s) - 1 : Tail(s)[i] = s[i + 1]
      /\ Head(s) = s[1]
  BY TailFacts
<1>2. Once(K, Tail(s))
  <2> SUFFICES ASSUME NEW j \in 1 .. Len(s) - 1, NEW k \in 1 .. Len(s) - 1,
                      s[j + 1].kind = K, s[k + 1].kind = K
               PROVE  j = k
    BY <1>1 DEF Once
  <2>1. j + 1 \in 1 .. Len(s) /\ k + 1 \in 1 .. Len(s) BY <1>1
  <2>2. j + 1 = k + 1 BY <2>1 DEF Once
  <2> QED BY <2>2
<1>3. ASSUME Head(s).kind = K, NEW c \in ToSet(Tail(s)), c.kind = K PROVE FALSE
  <2>0. Tail(s) \in Seq(S) /\ c \in ToSet(Tail(s)) BY <1>1
  <2>1. PICK i \in 1 .. Len(s) - 1 : c = Tail(s)[i] BY <1>1, <2>0, LenProperties DEF ToSet
  <2>2. 1 \in 1 .. Len(s) /\ i + 1 \in 1 .. Len(s) BY <1>1
  <2>3. s[1].kind = K /\ s[i + 1].kind = K BY <1>1, <1>3, <2>1
  <2>4. 1 = i + 1 BY <2>2, <2>3 DEF Once
  <2> QED BY <2>4
<1> QED BY <1>2, <1>3

LEMMA Numbers ==
  /\ Boot \in Nat \ {0} /\ App \in Nat \ {0} /\ Tries \in Nat \ {0}
  /\ Limit = Boot + App /\ Triad = 2 * Boot + App
  /\ Adrs = 0 .. Triad /\ Packets = 0 .. Limit
BY BurnAssumption DEF Limit, Triad, Adrs, Packets

LEMMA ErasedFacts ==
  ASSUME job \in {"burn", "burn_triad"}
  PROVE  Erased \subseteq Adrs /\ \A a \in Erased : ~(a < Boot)
BY Numbers DEF Erased

\* Every packet has a place of its own, in an erased sector.
LEMMA PlaceFacts ==
  ASSUME TypeOK, Control, size <= Limit
  PROVE  /\ \A i \in 0 .. size - 1 : Place(i) \in Erased /\ i \in Packets
         /\ \A i, j \in 0 .. size - 1 : Place(i) = Place(j) => i = j
<1>1. size \in Nat /\ job \in {"burn", "burn_triad"} BY Numbers DEF TypeOK
<1>2. CASE job = "burn" BY <1>1, <1>2, Numbers DEF Place, Erased
<1>3. CASE job = "burn_triad"
  <2>1. size = 1 BY <1>3 DEF Control
  <2> QED BY <1>3, <2>1, Numbers DEF Place, Erased
<1> QED BY <1>1, <1>2, <1>3

\* wait_result
LEMMA ResultFacts ==
  ASSUME NEW res, NEW ok \in BOOLEAN, Result(res, ok)
  PROVE  /\ ok => res \in ToSet(input)
         /\ line = "lossy" => input # <<>> \/ (cmds = <<>> /\ wire = <<>>)
<1>1. CASE ok
  <2>1. input # <<>> BY <1>1 DEF Result
  <2>2. ok <=> res \in ToSet(input) BY <2>1 DEF Result
  <2> QED BY <1>1, <2>1, <2>2
<1>2. CASE ~ok BY <1>2 DEF Result
<1> QED BY <1>1, <1>2


-----------------------------------------------------------------------------
(* The type and the control of the tool.                                   *)

LEMMA NextType == TypeOK /\ Control /\ [Next]_vars => TypeOK' /\ Control'
<1> SUFFICES ASSUME TypeOK, Control, [Next]_vars PROVE TypeOK' /\ Control'
  OBVIOUS
<1> USE Numbers
<1> HIDE DEF Command
<1>0. /\ line \in {"lossy", "slow", "both"} /\ job \in {"burn", "burn_triad"}
      /\ size \in 1 .. Limit + 1 /\ firmware \in 0 .. size /\ error_c \in 0 .. Tries
      /\ baud \in [{"tool", "chip"} -> {Slow, Fast}]
      /\ flash \in [Adrs -> Packets \cup {Blank, Old, Loader, Clash}]
      /\ cmds \in Seq(Command) /\ wire \in Seq(0 .. 5) /\ input \in Seq(0 .. 5)
  BY DEF TypeOK
<1>e. <<>> \in Seq(Command) /\ <<>> \in Seq(0 .. 5) BY EmptySeq
<1>s. ASSUME NEW kind \in 0 .. 5, NEW at \in Adrs, NEW packet \in Packets, Send(kind, at, packet)
      PROVE  input' \in Seq(0 .. 5) /\ cmds' \in Seq(Command)
  <2>1. [kind |-> kind, at |-> at, packet |-> packet] \in Command BY DEF Command
  <2>2. Append(cmds, [kind |-> kind, at |-> at, packet |-> packet]) \in Seq(Command)
    BY <1>0, <2>1, AppendFacts
  <2> QED BY <1>0, <1>e, <1>s, <2>2 DEF Send
<1>k. ASSUME NEW next \in {"connect", "version"}, pc \in {"start", "baud"}, Connect(next)
      PROVE  TypeOK' /\ Control'
  <2>1. [kind |-> 0, at |-> 0, packet |-> 0] \in Command BY DEF Command
  <2>2. cmds' \in Seq(Command)
    <3>1. cmds' = Append(<<>>, [kind |-> 0, at |-> 0, packet |-> 0]) BY <1>k DEF Connect
    <3> QED BY <1>e, <2>1, <3>1, AppendFacts
  <2>3. baud' \in [{"tool", "chip"} -> {Slow, Fast}] BY <1>k DEF Connect
  <2>4. TypeOK' BY <1>0, <1>e, <1>k, <2>2, <2>3 DEF Connect, TypeOK, setup, Waiting
  <2>5. Control' BY <1>0, <1>k DEF Connect, Control, Early, setup
  <2> QED BY <2>4, <2>5
<1>r. ASSUME UNCHANGED <<setup, baud, flash, cmds, wire, input>>,
             pc' \in {"change_baud", "erase", "write"} \cup Waiting \cup Ended,
             firmware' \in 0 .. size, error_c' \in 0 .. Tries
      PROVE  TypeOK'
  BY <1>0, <1>r DEF TypeOK, setup
<1>1. CASE Start BY <1>k, <1>1 DEF Start
<1>2. ASSUME NEW ok \in BOOLEAN, Connected(ok) \/ EraseResult(ok) PROVE TypeOK' /\ Control'
  <2>1. /\ pc' \in {"failed", "change_baud", "erase", "broken", "write"}
        /\ pc \in {"connect", "erasing"}
        /\ pc' = "write" => size <= Limit
        /\ UNCHANGED <<setup, firmware, error_c, baud, flash, cmds, wire, input>>
    BY <1>2, <1>0 DEF Connected, EraseResult
  <2>2. TypeOK' BY <1>0, <1>r, <2>1 DEF Ended
  <2>3. Control' BY <1>0, <2>1 DEF Control, Early, setup
  <2> QED BY <2>2, <2>3
<1>3. CASE ChangeBaud \/ Erase
  <2>1. Send(5, 0, 0) \/ Send(3, 0, 0) BY <1>3 DEF ChangeBaud, Erase
  <2>2. input' \in Seq(0 .. 5) /\ cmds' \in Seq(Command) BY <1>s, <2>1
  <2>3. /\ pc \in {"change_baud", "erase"} /\ pc' \in {"baud", "erasing"}
        /\ UNCHANGED <<setup, firmware, error_c, flash, wire>>
    BY <1>3 DEF ChangeBaud, Erase
  <2>4. baud' \in [{"tool", "chip"} -> {Slow, Fast}] BY <1>0, <1>3 DEF ChangeBaud, Erase
  <2>5. TypeOK' BY <1>0, <2>2, <2>3, <2>4 DEF TypeOK, setup, Waiting
  <2>6. Control' BY <2>3 DEF Control, Early, setup
  <2> QED BY <2>5, <2>6
<1>4. CASE BaudChanged \/ Reconnected
  <2>1. /\ pc' = "erase" /\ pc \in {"baud", "version"}
        /\ UNCHANGED <<setup, firmware, error_c, baud, flash, cmds, wire, input>>
    BY <1>4 DEF BaudChanged, Reconnected
  <2>2. TypeOK' BY <1>0, <1>r, <2>1
  <2>3. Control' BY <1>0, <2>1 DEF Control, Early, setup
  <2> QED BY <2>2, <2>3
<1>5. CASE BaudFailed BY <1>k, <1>5 DEF BaudFailed
<1>6. CASE Write
  <2>1. /\ pc = "write" /\ pc' = "writing" /\ firmware < size
        /\ Send(1, Place(firmware), firmware)
        /\ UNCHANGED <<setup, firmware, error_c, baud, flash, wire>>
    BY <1>6 DEF Write
  <2>2. size <= Limit /\ firmware \in 0 .. size - 1 BY <1>0, <2>1 DEF Control
  <2>3. Place(firmware) \in Adrs /\ firmware \in Packets
    <3> HIDE DEF Control
    <3> QED BY <1>0, <2>2, PlaceFacts, ErasedFacts
  <2>4. input' \in Seq(0 .. 5) /\ cmds' \in Seq(Command) BY <1>s, <2>1, <2>3
  <2>5. TypeOK' BY <1>0, <2>1, <2>4 DEF TypeOK, setup, Waiting
  <2>6. Control' BY <2>1, <2>2 DEF Control, Early, setup
  <2> QED BY <2>5, <2>6
<1>7. CASE Written
  <2>1. /\ pc = "writing" /\ pc' = "write" /\ firmware' = firmware + 1 /\ error_c' = Tries
        /\ UNCHANGED <<setup, baud, flash, cmds, wire, input>>
    BY <1>7 DEF Written
  <2>2. firmware' \in 0 .. size /\ error_c' \in 0 .. Tries BY <1>0, <2>1 DEF Control
  <2>3. TypeOK' BY <1>r, <2>1, <2>2
  <2>4. Control' BY <1>0, <2>1 DEF Control, Early, setup
  <2> QED BY <2>3, <2>4
<1>8. CASE NotWritten
  <2>1. /\ pc = "writing" /\ error_c' = error_c - 1
        /\ pc' = IF error_c' = 0 THEN "failed" ELSE "write"
        /\ UNCHANGED <<setup, firmware, baud, flash, cmds, wire, input>>
    BY <1>8 DEF NotWritten
  <2>2. error_c' \in 0 .. Tries BY <1>0, <2>1 DEF Control
  <2>3. TypeOK' BY <1>0, <1>r, <2>1, <2>2 DEF Ended
  <2>4. Control' BY <1>0, <2>1, <2>2 DEF Control, Early, setup
  <2> QED BY <2>3, <2>4
<1>9. CASE Finish
  <2>1. /\ pc = "write" /\ firmware = size /\ pc' = "done"
        /\ UNCHANGED <<setup, firmware, error_c, baud, flash, cmds, wire, input>>
    BY <1>9 DEF Finish
  <2>2. TypeOK' BY <1>0, <1>r, <2>1 DEF Ended
  <2>3. Control' BY <1>0, <2>1 DEF Control, Early, setup
  <2> QED BY <2>2, <2>3
<1>10. CASE Execute
  <2>1. /\ cmds # <<>> /\ cmds' = Tail(cmds) /\ wire' = Append(wire, Head(cmds).kind)
        /\ UNCHANGED <<setup, pc, firmware, error_c, input>>
    BY <1>10 DEF Execute
  <2>2. Head(cmds) \in Command /\ cmds' \in Seq(Command) BY <1>0, <2>1, TailFacts
  <2>3. Head(cmds).kind \in 0 .. 5 /\ Head(cmds).at \in Adrs /\ Head(cmds).packet \in Packets
    BY <2>2 DEF Command
  <2>4. wire' \in Seq(0 .. 5) BY <1>0, <2>1, <2>3, AppendFacts
  <2>5. baud' \in [{"tool", "chip"} -> {Slow, Fast}] BY <1>0, <1>10 DEF Execute
  <2>6. flash' \in [Adrs -> Packets \cup {Blank, Old, Loader, Clash}]
    <3> DEFINE at == Head(cmds).at
               packet == Head(cmds).packet
    <3>1. /\ Head(cmds).kind = 1 => flash' = [flash EXCEPT ![at] = Programmed(@, packet)]
          /\ Head(cmds).kind = 3 =>
               flash' = [a \in Adrs |-> IF a \in Erased THEN Blank ELSE flash[a]]
          /\ Head(cmds).kind \notin {1, 3} => flash' = flash
      BY <1>10 DEF Execute
    <3>2. Programmed(flash[at], packet) \in Packets \cup {Clash} BY <2>3 DEF Programmed
    <3> HIDE DEF Blank, Old, Loader, Clash, Programmed, at, packet
    <3>3. CASE Head(cmds).kind = 1 BY <1>0, <3>1, <3>2, <3>3
    <3>4. CASE Head(cmds).kind = 3 BY <1>0, <3>1, <3>4
    <3>5. CASE Head(cmds).kind \notin {1, 3} BY <1>0, <3>1, <3>5
    <3> QED BY <3>3, <3>4, <3>5
  <2>7. TypeOK' BY <2>1, <2>2, <2>4, <2>5, <2>6 DEF TypeOK, setup
  <2>8. Control' BY <2>1 DEF Control, Early, setup
  <2> QED BY <2>7, <2>8
<1>11. CASE Arrive
  <2>1. /\ wire # <<>> /\ wire' = Tail(wire) /\ input' = Append(input, Head(wire))
        /\ UNCHANGED <<setup, pc, firmware, error_c, baud, flash, cmds>>
    BY <1>11 DEF Arrive
  <2>2. Head(wire) \in 0 .. 5 /\ wire' \in Seq(0 .. 5) BY <1>0, <2>1, TailFacts
  <2>3. input' \in Seq(0 .. 5) BY <1>0, <2>1, <2>2, AppendFacts
  <2>4. TypeOK' BY <2>1, <2>2, <2>3 DEF TypeOK, setup
  <2>5. Control' BY <2>1 DEF Control, Early, setup
  <2> QED BY <2>4, <2>5
<1>12. CASE LoseCommand
  <2>1. /\ cmds # <<>> /\ cmds' = Tail(cmds)
        /\ UNCHANGED <<setup, pc, firmware, error_c, baud, flash, wire, input>>
    BY <1>12 DEF LoseCommand
  <2>2. cmds' \in Seq(Command) BY <1>0, <2>1, TailFacts
  <2>3. TypeOK' BY <2>1, <2>2 DEF TypeOK, setup
  <2>4. Control' BY <2>1 DEF Control, Early, setup
  <2> QED BY <2>3, <2>4
<1>13. CASE LoseAnswer
  <2>1. /\ wire # <<>> /\ wire' = Tail(wire)
        /\ UNCHANGED <<setup, pc, firmware, error_c, baud, flash, cmds, input>>
    BY <1>13 DEF LoseAnswer
  <2>2. wire' \in Seq(0 .. 5) BY <1>0, <2>1, TailFacts
  <2>3. TypeOK' BY <2>1, <2>2 DEF TypeOK, setup
  <2>4. Control' BY <2>1 DEF Control, Early, setup
  <2> QED BY <2>3, <2>4
<1>14. CASE Stop \/ UNCHANGED vars
  <2>1. UNCHANGED vars BY <1>14 DEF Stop
  <2>2. TypeOK' BY <2>1 DEF TypeOK, vars, setup
  <2>3. Control' BY <2>1 DEF Control, vars, setup
  <2> QED BY <2>2, <2>3
<1> QED BY <1>1, <1>2, <1>3, <1>4, <1>5, <1>6, <1>7, <1>8, <1>9, <1>10, <1>11, <1>12, <1>13,
           <1>14 DEF Next, Tool


-----------------------------------------------------------------------------
(* What each step does to the line.                                        *)

LEMMA Typed ==
  ASSUME TypeOK
  PROVE  /\ cmds \in Seq(Command) /\ wire \in Seq(0 .. 5) /\ input \in Seq(0 .. 5)
         /\ line \in {"lossy", "slow", "both"} /\ job \in {"burn", "burn_triad"}
         /\ size \in Nat /\ firmware \in Nat /\ firmware <= size
         /\ flash \in [Adrs -> Packets \cup {Blank, Old, Loader, Clash}]
         /\ baud \in [{"tool", "chip"} -> {Slow, Fast}]
         /\ pc \in {"start", "change_baud", "erase", "write"} \cup Waiting \cup Ended
BY Numbers DEF TypeOK

LEMMA SendFacts ==
  ASSUME TypeOK, NEW kind \in 0 .. 5, NEW at \in Adrs, NEW packet \in Packets,
         Send(kind, at, packet), UNCHANGED wire, baud["tool"] = baud["chip"]
  PROVE  /\ \E c : /\ c = [kind |-> kind, at |-> at, packet |-> packet]
                   /\ Sent' = Sent \cup {c}
         /\ \A K : Once(K, cmds) /\ (Without(K) \/ kind # K) => Once(K, cmds')
         /\ Answers' = ToSet(wire) /\ Answers' \subseteq Answers
         /\ Len(cmds') = Len(cmds) + 1 /\ Len(input') = 0
<1> DEFINE c == [kind |-> kind, at |-> at, packet |-> packet]
<1>1. c \in Command /\ cmds \in Seq(Command) BY Typed DEF Command
<1>2. cmds' = Append(cmds, c) /\ input' = <<>> /\ wire' = wire BY DEF Send
<1>3. c.kind = kind OBVIOUS
<1> HIDE DEF c, Command
<1>4. Sent' = Sent \cup {c} BY <1>1, <1>2, AppendFacts DEF Sent
<1>5. Answers' = ToSet(wire) BY <1>2, EmptyFacts DEF Answers
<1>6. ASSUME NEW K, Once(K, cmds), Without(K) \/ kind # K PROVE Once(K, cmds')
  BY <1>1, <1>2, <1>3, <1>6, OnceAppend DEF Without, Sent
<1>7. Len(cmds') = Len(cmds) + 1 /\ Len(input') = 0 BY <1>1, <1>2, AppendFacts, EmptyFacts
<1>8. \E e : e = [kind |-> kind, at |-> at, packet |-> packet] /\ Sent' = Sent \cup {e}
  BY <1>4 DEF c
<1> QED BY <1>5, <1>6, <1>7, <1>8 DEF Answers

LEMMA ConnectFacts ==
  ASSUME TypeOK, NEW next, Connect(next)
  PROVE  /\ pc' = next /\ baud' = [e \in {"tool", "chip"} |-> Slow]
         /\ \A c \in Sent' : c.kind = 0
         /\ Answers' = ToSet(wire) /\ Answers' \subseteq Answers
         /\ \A K : Once(K, cmds')
         /\ Len(cmds') = 1 /\ Len(input') = 0
         /\ UNCHANGED <<line, job, size, firmware, error_c, flash, wire>>
<1> DEFINE c == [kind |-> 0, at |-> 0, packet |-> 0]
<1>1. c \in Command /\ <<>> \in Seq(Command) BY Numbers, EmptySeq DEF Command
<1>2. cmds' = Append(<<>>, c) /\ input' = <<>> BY DEF Connect
<1>3. c.kind = 0 OBVIOUS
<1> HIDE DEF c, Command
<1>4. Sent' = {c}
  <2>1. PICK e \in Seq(Command) : e = <<>> BY <1>1
  <2>2. ToSet(Append(e, c)) = ToSet(e) \cup {c} BY <1>1, AppendFacts
  <2>3. ToSet(e) = {} BY <2>1, EmptyFacts
  <2>4. cmds' = Append(e, c) BY <1>2, <2>1
  <2> QED BY <2>2, <2>3, <2>4 DEF Sent
<1>5. Len(cmds') = 1 /\ Len(input') = 0
  <2>1. Len(Append(<<>>, c)) = Len(<<>>) + 1 BY <1>1, AppendFacts
  <2>2. Len(<<>>) = 0 BY EmptyFacts
  <2> QED BY <1>2, <2>1, <2>2
<1>6. \A K : Once(K, cmds') BY <1>5 DEF Once
<1>7. wire' = wire BY DEF Connect
<1>8. Answers' = ToSet(wire) BY <1>2, <1>7, EmptyFacts DEF Answers
<1> QED BY <1>3, <1>4, <1>5, <1>6, <1>8 DEF Connect, setup, Answers

LEMMA ExecuteFacts ==
  ASSUME TypeOK, Execute
  PROVE  \E c \in Sent :
           /\ c \in Command /\ Sent = Sent' \cup {c}
           /\ \A K : Once(K, cmds) => Once(K, cmds') /\ (c.kind = K => Without(K)')
           /\ Answers' = Answers \cup {c.kind}
           /\ Len(cmds') = Len(cmds) - 1 /\ Len(wire') = Len(wire) + 1
           /\ c.kind = 1 => flash' = [flash EXCEPT ![c.at] = Programmed(@, c.packet)]
           /\ c.kind = 3 => flash' = [a \in Adrs |-> IF a \in Erased THEN Blank ELSE flash[a]]
           /\ c.kind \notin {1, 3} => flash' = flash
           /\ baud' = IF c.kind = 5 THEN [baud EXCEPT !["chip"] = Fast] ELSE baud
           /\ UNCHANGED <<line, job, size, pc, firmware, error_c, input>>
<1>1. /\ cmds # <<>> /\ cmds' = Tail(cmds) /\ wire' = Append(wire, Head(cmds).kind)
      /\ UNCHANGED <<line, job, size, pc, firmware, error_c, input>>
  BY DEF Execute, setup
<1>2. cmds \in Seq(Command) /\ wire \in Seq(0 .. 5) BY Typed
<1>3. PICK c : c = Head(cmds) OBVIOUS
<1> HIDE DEF Command
<1>4. c \in Command /\ Len(cmds') = Len(cmds) - 1 BY <1>1, <1>2, <1>3, TailFacts
<1>5. ToSet(cmds) = {c} \cup ToSet(cmds') BY <1>1, <1>2, <1>3, TailFacts
<1>6. Sent = {c} \cup Sent' BY <1>5 DEF Sent
<1>7. c.kind \in 0 .. 5 BY <1>4 DEF Command
<1>8. ToSet(wire') = ToSet(wire) \cup {c.kind} /\ Len(wire') = Len(wire) + 1
  BY <1>1, <1>2, <1>3, <1>7, AppendFacts
<1>9. Answers' = Answers \cup {c.kind} BY <1>1, <1>8 DEF Answers
<1>10. ASSUME NEW K, Once(K, cmds) PROVE Once(K, cmds') /\ (c.kind = K => Without(K)')
  BY <1>1, <1>2, <1>3, <1>10, OnceTail DEF Without, Sent
<1>11. /\ c.kind = 1 => flash' = [flash EXCEPT ![c.at] = Programmed(@, c.packet)]
       /\ c.kind = 3 => flash' = [a \in Adrs |-> IF a \in Erased THEN Blank ELSE flash[a]]
       /\ c.kind \notin {1, 3} => flash' = flash
  BY <1>3 DEF Execute
<1>12. baud' = IF c.kind = 5 THEN [baud EXCEPT !["chip"] = Fast] ELSE baud
  BY <1>3 DEF Execute
<1>13. c \in Sent BY <1>6
<1> QED BY <1>1, <1>4, <1>6, <1>8, <1>9, <1>10, <1>11, <1>12, <1>13

LEMMA ArriveFacts ==
  ASSUME TypeOK, Arrive
  PROVE  /\ Answers' = Answers /\ Len(wire') = Len(wire) - 1 /\ Len(input') = Len(input) + 1
         /\ UNCHANGED <<line, job, size, pc, firmware, error_c, baud, flash, cmds>>
<1>1. /\ wire # <<>> /\ wire' = Tail(wire) /\ input' = Append(input, Head(wire))
      /\ UNCHANGED <<line, job, size, pc, firmware, error_c, baud, flash, cmds>>
  BY DEF Arrive, setup
<1>2. wire \in Seq(0 .. 5) /\ input \in Seq(0 .. 5) BY Typed
<1>3. /\ ToSet(wire) = {Head(wire)} \cup ToSet(wire') /\ Head(wire) \in 0 .. 5
      /\ Len(wire') = Len(wire) - 1
  BY <1>1, <1>2, TailFacts
<1>4. ToSet(input') = ToSet(input) \cup {Head(wire)} /\ Len(input') = Len(input) + 1
  BY <1>1, <1>2, <1>3, AppendFacts
<1> QED BY <1>1, <1>3, <1>4 DEF Answers

LEMMA LoseFacts ==
  ASSUME TypeOK, LoseCommand \/ LoseAnswer
  PROVE  /\ Sent' \subseteq Sent /\ Answers' \subseteq Answers /\ line # "slow"
         /\ \A K : Once(K, cmds) => Once(K, cmds')
         /\ cmds = <<>> => cmds' = <<>>
         /\ wire = <<>> => wire' = <<>>
         /\ Len(cmds') + Len(wire') + Len(input') = Len(cmds) + Len(wire) + Len(input) - 1
         /\ UNCHANGED <<line, job, size, pc, firmware, error_c, baud, flash, input>>
<1> HIDE DEF Command
<1>0. /\ cmds \in Seq(Command) /\ wire \in Seq(0 .. 5) /\ Len(cmds) \in Nat /\ Len(wire) \in Nat
      /\ Len(input) \in Nat
  BY Typed, LenProperties
<1>1. CASE LoseCommand
  <2>1. /\ cmds # <<>> /\ cmds' = Tail(cmds) /\ line # "slow"
        /\ UNCHANGED <<line, job, size, pc, firmware, error_c, baud, flash, wire, input>>
    BY <1>1 DEF LoseCommand, setup
  <2>2. ToSet(cmds') \subseteq ToSet(cmds) /\ Len(cmds') = Len(cmds) - 1
    BY <1>0, <2>1, TailFacts
  <2>3. \A K : Once(K, cmds) => Once(K, cmds') BY <1>0, <2>1, OnceTail
  <2> QED BY <1>0, <2>1, <2>2, <2>3 DEF Sent, Answers
<1>2. CASE LoseAnswer
  <2>1. /\ wire # <<>> /\ wire' = Tail(wire) /\ line # "slow"
        /\ UNCHANGED <<line, job, size, pc, firmware, error_c, baud, flash, cmds, input>>
    BY <1>2 DEF LoseAnswer, setup
  <2>2. ToSet(wire') \subseteq ToSet(wire) /\ Len(wire') = Len(wire) - 1
    BY <1>0, <2>1, TailFacts
  <2> QED BY <1>0, <2>1, <2>2 DEF Sent, Answers
<1> QED BY <1>1, <1>2


-----------------------------------------------------------------------------
(* The rates, the order of the commands, and the flash.                    *)

LEMMA ProgramsPlace ==
  ASSUME TypeOK, Control, Order, NEW c \in Sent, c.kind = 1
  PROVE  /\ c.packet \in 0 .. size - 1 /\ c.at = Place(c.packet) /\ size <= Limit
         /\ c.at \in Erased /\ c.at \in Adrs
         /\ Programmed(flash[c.at], c.packet) = c.packet
         /\ Clean /\ Without(3)
<1>1. c.packet < size /\ size <= Limit /\ c.at = Place(c.packet) BY DEF Order
<1>2. c \in Command BY Typed, ElementOf DEF Sent
<1>3. c.packet \in 0 .. size - 1 BY <1>1, <1>2, Typed, Numbers DEF Command
<1>4. c.at \in Erased /\ c.at \in Adrs BY <1>1, <1>3, PlaceFacts, ErasedFacts, Typed
<1>5. ~Without(1) BY DEF Without
<1>6. Clean /\ Without(3) BY <1>5 DEF Order
<1>7. flash[c.at] = Blank \/ \E i \in 0 .. size - 1 : c.at = Place(i) /\ flash[c.at] = i
  BY <1>4, <1>6 DEF Clean
<1>8. flash[c.at] = Blank \/ flash[c.at] = c.packet BY <1>1, <1>3, <1>7, PlaceFacts
<1> QED BY <1>1, <1>3, <1>4, <1>6, <1>8 DEF Programmed

\* The steps that leave the flash alone.
LEMMA UntouchedFrame ==
  ASSUME Untouched, UNCHANGED <<job, size, flash>>
  PROVE  Untouched' /\ (Clean => Clean')
BY DEF Untouched, Clean, Erased, Place

\* The steps of the tool that only read a result.
LEMMA ReadsFrame ==
  ASSUME Rates, Order, UNCHANGED <<job, size, baud, flash, cmds, wire, input>>,
         pc \in Early \cup {"erasing", "writing", "write"},
         pc' \in {"change_baud", "erase"} => pc \in Early,
         pc' \notin Early \ {"change_baud", "erase"},
         pc' = "change_baud" => pc \in {"connect", "change_baud"},
         pc = "baud" => pc' = "erase" /\ 5 \in Answers,
         pc' \in Late => pc \in Late \/ 3 \in Answers
  PROVE  Rates' /\ Order'
<1>1. Sent' = Sent /\ Answers' = Answers BY DEF Sent, Answers
<1>2. \A K : Without(K)' <=> Without(K) BY <1>1 DEF Without
<1>3. \A K : Once(K, cmds)' <=> Once(K, cmds) BY DEF Once
<1>4. Clean' <=> Clean BY DEF Clean, Erased, Place
<1>5. Rates' BY <1>1, <1>2, <1>3 DEF Rates, Early
<1>6. Order'
  <2>1. \A c \in Sent' : c.kind = 1 =>
          c.packet < size' /\ size' <= Limit /\ c.at = Place(c.packet)'
    BY <1>1 DEF Order, Place
  <2> QED BY <1>1, <1>2, <1>3, <1>4, <2>1 DEF Order, Early, Late
<1> QED BY <1>5, <1>6

LEMMA NextLine ==
  ASSUME TypeOK, Control, Rates, Order, Untouched, [Next]_vars
  PROVE  Rates' /\ Order' /\ Untouched'
<1>f. UNCHANGED <<job, size, flash>> => Untouched' /\ (Clean => Clean') BY UntouchedFrame
<1>g. Sent' = ToSet(cmds') /\ Sent = ToSet(cmds) BY DEF Sent
<1>w. \A K : (\A c \in Sent' : c \in Sent \/ c.kind # K) /\ Without(K) => Without(K)'
  BY DEF Without
\* The commands to program are those there were.
<1>p. ASSUME UNCHANGED <<job, size>>, \A c \in Sent' : c \in Sent \/ c.kind # 1
      PROVE  \A c \in Sent' : c.kind = 1 =>
               c.packet < size' /\ size' <= Limit /\ c.at = Place(c.packet)'
  BY <1>p DEF Order, Place
<1>k. ASSUME NEW next, Connect(next),
             (pc = "start" /\ next = "connect") \/ (pc = "baud" /\ next = "version")
      PROVE  Rates' /\ Order' /\ Untouched'
  <2>1. /\ pc' = next /\ baud' = [e \in {"tool", "chip"} |-> Slow]
        /\ \A c \in Sent' : c.kind = 0
        /\ Answers' \subseteq Answers
        /\ \A K : Once(K, cmds')
        /\ UNCHANGED <<job, size, flash>>
    BY <1>k, ConnectFacts
  <2>2. Without(1)' /\ Without(3)' /\ Without(5)' BY <2>1 DEF Without
  <2>3. baud'["tool"] = baud'["chip"] BY <2>1
  <2>4. Rates' BY <1>k, <2>1, <2>2, <2>3 DEF Rates
  <2>5. 3 \notin Answers' BY <1>k, <2>1 DEF Order, Early
  <2>6. Order' BY <1>k, <1>p, <2>1, <2>2, <2>5 DEF Order, Late
  <2> QED BY <1>f, <2>1, <2>4, <2>6
<1>1. CASE Start BY <1>k, <1>1 DEF Start
<1>2. ASSUME NEW ok \in BOOLEAN, Connected(ok) PROVE Rates' /\ Order' /\ Untouched'
  <2>1. /\ UNCHANGED <<job, size, baud, flash, cmds, wire, input>>
        /\ pc = "connect" /\ pc' \in {"failed", "change_baud", "erase"}
    BY <1>2 DEF Connected, setup
  <2> QED BY <1>f, <2>1, ReadsFrame DEF Early, Late
<1>3. ASSUME NEW ok \in BOOLEAN, EraseResult(ok) PROVE Rates' /\ Order' /\ Untouched'
  <2>1. /\ UNCHANGED <<job, size, baud, flash, cmds, wire, input>>
        /\ pc = "erasing" /\ pc' \in {"failed", "broken", "write"} /\ Result(3, ok)
        /\ ~ok => pc' = "failed"
    BY <1>3 DEF EraseResult, setup
  <2>2. ok => 3 \in Answers BY <2>1, ResultFacts DEF Answers
  <2> QED BY <1>f, <2>1, <2>2, ReadsFrame DEF Early, Late
<1>4. CASE ChangeBaud
  <2>1. /\ pc = "change_baud" /\ pc' = "baud" /\ Send(5, 0, 0)
        /\ baud' = [baud EXCEPT !["tool"] = Fast] /\ UNCHANGED <<job, size, flash, wire>>
    BY <1>4 DEF ChangeBaud, setup
  <2>2. baud["tool"] = baud["chip"] /\ Without(5) /\ 5 \notin Answers BY <2>1 DEF Rates
  <2>3. Without(1) /\ Without(3) /\ 3 \notin Answers BY <2>1 DEF Order, Early
  <2>a. PICK e : e = [kind |-> 5, at |-> 0, packet |-> 0] /\ Sent' = Sent \cup {e}
    BY <2>1, <2>2, SendFacts, Numbers
  <2>4. e.kind = 5 /\ Sent' = Sent \cup {e} BY <2>a
  <2>5. /\ Answers' \subseteq Answers
        /\ \A K : Once(K, cmds) /\ (Without(K) \/ 5 # K) => Once(K, cmds')
    BY <2>1, <2>2, SendFacts, Numbers
  <2>6. baud'["tool"] = Fast BY <2>1, Typed
  <2>7. Rates' BY <2>1, <2>2, <2>5, <2>6 DEF Rates
  <2>8. Without(1)' /\ Without(3)' BY <1>w, <2>3, <2>4
  <2>9. Order' BY <1>p, <2>1, <2>3, <2>4, <2>5, <2>8 DEF Order, Late
  <2> QED BY <1>f, <2>1, <2>7, <2>9
<1>5. CASE BaudChanged
  <2>1. /\ UNCHANGED <<job, size, baud, flash, cmds, wire, input>>
        /\ pc = "baud" /\ pc' = "erase" /\ Result(5, TRUE)
    BY <1>5 DEF BaudChanged, setup
  <2>2. 5 \in Answers BY <2>1, ResultFacts DEF Answers
  <2> QED BY <1>f, <2>1, <2>2, ReadsFrame DEF Early, Late
<1>6. CASE BaudFailed BY <1>k, <1>6 DEF BaudFailed
<1>7. CASE Reconnected
  <2>1. /\ UNCHANGED <<job, size, baud, flash, cmds, wire, input>>
        /\ pc = "version" /\ pc' = "erase"
    BY <1>7 DEF Reconnected, setup
  <2> QED BY <1>f, <2>1, ReadsFrame DEF Early, Late
<1>8. CASE Erase
  <2>1. /\ pc = "erase" /\ pc' = "erasing" /\ Send(3, 0, 0)
        /\ UNCHANGED <<job, size, baud, flash, wire>>
    BY <1>8 DEF Erase, setup
  <2>2. baud["tool"] = baud["chip"] /\ Without(5) BY <2>1 DEF Rates
  <2>3. Without(1) /\ Without(3) /\ 3 \notin Answers BY <2>1 DEF Order, Early
  <2>a. PICK e : e = [kind |-> 3, at |-> 0, packet |-> 0] /\ Sent' = Sent \cup {e}
    BY <2>1, <2>2, SendFacts, Numbers
  <2>4. e.kind = 3 /\ Sent' = Sent \cup {e} BY <2>a
  <2>5. /\ Answers' \subseteq Answers
        /\ \A K : Once(K, cmds) /\ (Without(K) \/ 3 # K) => Once(K, cmds')
    BY <2>1, <2>2, SendFacts, Numbers
  <2>6. Without(1)' /\ Without(5)' BY <1>w, <2>2, <2>3, <2>4
  <2>7. Rates' BY <2>1, <2>2, <2>5, <2>6 DEF Rates
  <2>8. Order' BY <1>p, <2>1, <2>3, <2>4, <2>5, <2>6 DEF Order, Early, Late
  <2> QED BY <1>f, <2>1, <2>7, <2>8
<1>9. CASE Write
  <2>1. /\ pc = "write" /\ pc' = "writing" /\ firmware < size
        /\ Send(1, Place(firmware), firmware)
        /\ UNCHANGED <<job, size, baud, flash, wire>>
    BY <1>9 DEF Write, setup
  <2>2. baud["tool"] = baud["chip"] /\ Without(5) BY <2>1 DEF Rates
  <2>3. Clean /\ Without(3) BY <2>1 DEF Order, Late
  <2>4. size <= Limit /\ firmware \in 0 .. size - 1 BY <2>1, Typed DEF Control
  <2>5. Place(firmware) \in Adrs /\ firmware \in Packets
    BY <2>4, PlaceFacts, ErasedFacts, Typed
  <2>6. PICK e : e = [kind |-> 1, at |-> Place(firmware), packet |-> firmware]
                 /\ Sent' = Sent \cup {e}
    BY <2>1, <2>2, <2>5, SendFacts
  <2>7. /\ Answers' \subseteq Answers
        /\ \A K : Once(K, cmds) /\ (Without(K) \/ 1 # K) => Once(K, cmds')
    BY <2>1, <2>2, <2>5, SendFacts
  <2>8. e.kind = 1 /\ e.at = Place(firmware) /\ e.packet = firmware BY <2>6
  <2>9. Without(3)' /\ Without(5)' BY <1>w, <2>2, <2>3, <2>6, <2>8
  <2>10. Rates' BY <2>1, <2>2, <2>7, <2>9 DEF Rates
  <2>11. \A c \in Sent' : c.kind = 1 =>
           c.packet < size' /\ size' <= Limit /\ c.at = Place(c.packet)'
    BY <2>1, <2>4, <2>6, <2>8 DEF Order, Place
  <2>12. Clean' BY <1>f, <2>1, <2>3
  <2>13. Order' BY <2>1, <2>7, <2>9, <2>11, <2>12 DEF Order, Early
  <2> QED BY <1>f, <2>1, <2>10, <2>13
<1>10. CASE Written \/ NotWritten \/ Finish
  <2>1. /\ UNCHANGED <<job, size, baud, flash, cmds, wire, input>>
        /\ pc \in {"writing", "write"} /\ pc' \in {"write", "failed", "done"}
    BY <1>10 DEF Written, NotWritten, Finish, setup
  <2> QED BY <1>f, <2>1, ReadsFrame DEF Early, Late
<1>11. CASE Execute
  <2>1. PICK c \in Sent :
           /\ c \in Command /\ Sent = Sent' \cup {c}
           /\ \A K : Once(K, cmds) => Once(K, cmds') /\ (c.kind = K => Without(K)')
           /\ Answers' = Answers \cup {c.kind}
           /\ c.kind = 1 => flash' = [flash EXCEPT ![c.at] = Programmed(@, c.packet)]
           /\ c.kind = 3 => flash' = [a \in Adrs |-> IF a \in Erased THEN Blank ELSE flash[a]]
           /\ c.kind \notin {1, 3} => flash' = flash
           /\ baud' = IF c.kind = 5 THEN [baud EXCEPT !["chip"] = Fast] ELSE baud
           /\ UNCHANGED <<line, job, size, pc, firmware, error_c, input>>
    BY <1>11, ExecuteFacts
  <2>2. \A K : Without(K) => Without(K)' /\ c.kind # K BY <2>1 DEF Without
  <2>3. Erased' = Erased /\ (\A i : Place(i)' = Place(i)) BY <2>1 DEF Erased, Place
  <2>4. Rates'
    <3>1. CASE c.kind = 5
      <4>1. pc = "baud" /\ baud["tool"] = Fast BY <2>2, <3>1 DEF Rates
      <4>2. baud'["tool"] = Fast /\ baud'["chip"] = Fast BY <2>1, <3>1, <4>1, Typed
      <4>3. Without(5)' /\ Once(5, cmds') BY <2>1, <3>1 DEF Rates
      <4> QED BY <2>1, <4>1, <4>2, <4>3 DEF Rates
    <3>2. CASE c.kind # 5
      <4>1. baud' = baud /\ (5 \in Answers' <=> 5 \in Answers) BY <2>1, <3>2
      <4> QED BY <2>1, <2>2, <4>1 DEF Rates
    <3> QED BY <3>1, <3>2
  <2>5. \A d \in Sent' : d.kind = 1 =>
          d.packet < size' /\ size' <= Limit /\ d.at = Place(d.packet)'
    BY <1>p, <2>1
  <2>6. Once(3, cmds') BY <2>1 DEF Order
  <2>7. CASE c.kind = 1
    <3>1. /\ c.packet \in 0 .. size - 1 /\ c.at = Place(c.packet)
          /\ c.at \in Erased /\ c.at \in Adrs
          /\ Programmed(flash[c.at], c.packet) = c.packet
          /\ Clean /\ Without(3)
      BY <2>7, ProgramsPlace
    <3>2. flash' = [flash EXCEPT ![c.at] = c.packet] BY <2>1, <2>7, <3>1
    <3>3. flash'[c.at] = c.packet /\ \A a \in Adrs : a # c.at => flash'[a] = flash[a]
      BY <3>1, <3>2, Typed
    <3>4. Clean'
      <4>1. \A a \in Erased : flash'[a] = Blank
                              \/ \E i \in 0 .. size - 1 : a = Place(i) /\ flash'[a] = i
        BY <3>1, <3>3, ErasedFacts, Typed DEF Clean
      <4> QED BY <2>1, <2>3, <4>1 DEF Clean
    <3>5. \A a \in Adrs \ Erased : flash'[a] = flash[a] BY <3>1, <3>3
    <3>6. Untouched' BY <2>3, <3>4, <3>5 DEF Untouched
    <3>7. Without(3)' BY <2>2, <3>1
    <3>8. ~Without(1) /\ pc \notin Early BY <2>7 DEF Without, Order
    <3>9. Order' BY <2>1, <2>5, <2>6, <3>4, <3>7, <3>8 DEF Order
    <3> QED BY <2>4, <3>6, <3>9
  <2>8. CASE c.kind = 3
    <3>1. ~Without(3) BY <2>8 DEF Without
    <3>2. Without(1) /\ pc \notin Early /\ pc \notin Late BY <3>1 DEF Order
    <3>3. flash' = [a \in Adrs |-> IF a \in Erased THEN Blank ELSE flash[a]] BY <2>1, <2>8
    <3>4. \A a \in Erased : flash'[a] = Blank BY <3>3, ErasedFacts, Typed
    <3>5. Clean' BY <2>3, <3>4 DEF Clean
    <3>6. \A a \in Adrs \ Erased : flash'[a] = flash[a] BY <3>3
    <3>7. Untouched' BY <2>3, <3>5, <3>6 DEF Untouched
    <3>8. Without(3)' BY <2>1, <2>8 DEF Order
    <3>9. Order' BY <2>1, <2>5, <2>6, <3>2, <3>5, <3>8 DEF Order
    <3> QED BY <2>4, <3>7, <3>9
  <2>9. CASE c.kind \notin {1, 3}
    <3>1. flash' = flash /\ (3 \in Answers' <=> 3 \in Answers) BY <2>1, <2>9
    <3>2. Without(1)' <=> Without(1) BY <2>1, <2>9 DEF Without
    <3>3. Untouched' /\ (Clean => Clean') BY <1>f, <2>1, <3>1
    <3>4. Order' BY <2>1, <2>2, <2>5, <2>6, <3>1, <3>2, <3>3 DEF Order
    <3> QED BY <2>4, <3>3, <3>4
  <2> QED BY <2>7, <2>8, <2>9
<1>12. CASE Arrive \/ LoseCommand \/ LoseAnswer
  <2>1. /\ Sent' \subseteq Sent /\ Answers' \subseteq Answers
        /\ \A K : Once(K, cmds) => Once(K, cmds')
        /\ UNCHANGED <<job, size, pc, firmware, baud, flash>>
    <3>1. CASE Arrive BY <3>1, ArriveFacts DEF Sent, Once
    <3>2. CASE LoseCommand \/ LoseAnswer BY <3>2, LoseFacts
    <3> QED BY <1>12, <3>1, <3>2
  <2>2. \A K : Without(K) => Without(K)' BY <2>1 DEF Without
  <2>3. Rates' BY <2>1, <2>2 DEF Rates
  <2>4. Order' BY <1>f, <1>p, <2>1, <2>2 DEF Order
  <2> QED BY <1>f, <2>1, <2>3, <2>4
<1>13. CASE Stop \/ UNCHANGED vars
  <2>1. UNCHANGED <<job, size, pc, baud, flash, cmds, wire, input>>
    BY <1>13 DEF Stop, vars, setup
  <2>2. Sent' = Sent /\ Answers' = Answers BY <2>1 DEF Sent, Answers
  <2>3. Rates' BY <2>1, <2>2 DEF Rates, Once, Without
  <2>4. (\A K : Without(K)' <=> Without(K)) /\ (Once(3, cmds) => Once(3, cmds'))
    BY <2>1, <2>2 DEF Without
  <2>5. Order' BY <1>f, <1>p, <2>1, <2>2, <2>4 DEF Order
  <2> QED BY <1>f, <2>1, <2>3, <2>5
<1> QED BY <1>1, <1>2, <1>3, <1>4, <1>5, <1>6, <1>7, <1>8, <1>9, <1>10, <1>11, <1>12, <1>13
        DEF Next, Tool


-----------------------------------------------------------------------------
(* What the tool may conclude from an answer.                              *)

\* What is in its place, or will be, stays so while the boot loader works.
LEMMA ExecuteKeeps ==
  ASSUME TypeOK, Control, Order, Execute, pc \in {"write", "writing", "done"},
         NEW i \in 0 .. size - 1
  PROVE  /\ flash[Place(i)] = i => flash'[Place(i)] = i
         /\ There(i) => There(i)'
<1>1. PICK c \in Sent :
         /\ c \in Command /\ Sent = Sent' \cup {c}
         /\ c.kind = 1 => flash' = [flash EXCEPT ![c.at] = Programmed(@, c.packet)]
         /\ c.kind = 3 => flash' = [a \in Adrs |-> IF a \in Erased THEN Blank ELSE flash[a]]
         /\ c.kind \notin {1, 3} => flash' = flash
         /\ UNCHANGED <<line, job, size, pc, firmware, error_c, input>>
  BY ExecuteFacts
<1>2. c.kind # 3 BY DEF Order, Late, Without
<1>3. size <= Limit /\ Place(i) \in Adrs
  BY PlaceFacts, ErasedFacts, Typed DEF Control
<1>4. ASSUME c.kind = 1
      PROVE  flash'[c.at] = c.packet /\ \A a \in Adrs : a # c.at => flash'[a] = flash[a]
  <2>1. c.at \in Adrs /\ Programmed(flash[c.at], c.packet) = c.packet BY <1>4, ProgramsPlace
  <2>2. flash' = [flash EXCEPT ![c.at] = c.packet] BY <1>1, <1>4, <2>1
  <2> QED BY <2>1, <2>2, Typed
<1>5. flash[Place(i)] = i => flash'[Place(i)] = i
  <2>1. CASE c.kind # 1 BY <1>1, <1>2, <2>1
  <2>2. CASE c.kind = 1 /\ c.at # Place(i) BY <1>3, <1>4, <2>2
  <2>3. CASE c.kind = 1 /\ c.at = Place(i)
    <3>1. c.packet = i
      <4>1. c.packet \in 0 .. size - 1 /\ c.at = Place(c.packet) BY <2>3, ProgramsPlace
      <4> QED BY <1>3, <2>3, <4>1, PlaceFacts
    <3> QED BY <1>4, <2>3, <3>1
  <2> QED BY <2>1, <2>2, <2>3
<1>6. Place(i)' = Place(i) BY <1>1 DEF Place
<1>7. There(i) => There(i)'
  <2> SUFFICES ASSUME There(i) PROVE There(i)'
    OBVIOUS
  <2> DEFINE r == [kind |-> 1, at |-> Place(i), packet |-> i]
  <2>1. r.kind = 1 /\ r.at = Place(i) /\ r.packet = i OBVIOUS
  <2>2. There(i) <=> flash[Place(i)] = i \/ r \in Sent BY DEF There
  <2>3. There(i)' <=> flash'[Place(i)] = i \/ r \in Sent' BY <1>6 DEF There
  <2> HIDE DEF r
  <2>4. CASE flash[Place(i)] = i BY <1>5, <2>3, <2>4
  <2>5. CASE r \in Sent'  BY <2>3, <2>5
  <2>6. CASE r = c BY <1>4, <2>1, <2>3, <2>6
  <2> QED BY <1>1, <2>2, <2>4, <2>5, <2>6
<1> QED BY <1>5, <1>7

LEMMA NextSlowly ==
  ASSUME TypeOK, Control, Rates, Order, Slowly, [Next]_vars PROVE Slowly'
<1> SUFFICES ASSUME line' = "slow", pc' \in {"write", "writing", "done"},
                    NEW i \in 0 .. size' - 1,
                    i < firmware' \/ (i = firmware' /\ pc' = "writing")
             PROVE  There(i)'
  BY DEF Slowly
<1>1. line' = line /\ job' = job /\ size' = size
  <2>1. ASSUME NEW next, Connect(next) PROVE line' = line /\ job' = job /\ size' = size
    BY <2>1 DEF Connect, setup
  <2> QED BY <2>1 DEF Next, Tool, Start, Connected, EraseResult, ChangeBaud, BaudChanged,
              BaudFailed, Reconnected, Erase, Write, Written, NotWritten, Finish, Execute,
              Arrive, LoseCommand, LoseAnswer, Stop, vars, setup
<1>2. i \in 0 .. size - 1 /\ Place(i)' = Place(i) BY <1>1 DEF Place
<1>3. ASSUME pc \in {"write", "writing", "done"}, i < firmware \/ (i = firmware /\ pc = "writing")
      PROVE  There(i)
  BY <1>1, <1>2, <1>3 DEF Slowly
<1>4. ASSUME UNCHANGED <<flash, cmds>>, There(i) PROVE There(i)'
  BY <1>2, <1>4 DEF There, Sent
<1>5. ASSUME NEW next \in {"connect", "version"}, Connect(next) PROVE FALSE
  BY <1>5 DEF Connect
<1>6. ASSUME NEW ok \in BOOLEAN, Connected(ok) PROVE FALSE BY <1>6 DEF Connected
<1>7. ASSUME NEW ok \in BOOLEAN, EraseResult(ok) PROVE FALSE
  <2>1. pc = "erasing" /\ firmware' = firmware /\ pc' \in {"failed", "broken", "write"}
    BY <1>7 DEF EraseResult
  <2>2. firmware = 0 BY <2>1 DEF Control
  <2> QED BY <1>1, <2>1, <2>2
<1>8. CASE ChangeBaud \/ BaudChanged \/ Reconnected \/ Erase
  BY <1>8 DEF ChangeBaud, BaudChanged, Reconnected, Erase
<1>9. CASE Write
  <2>1. /\ pc = "write" /\ firmware < size /\ Send(1, Place(firmware), firmware)
        /\ UNCHANGED <<firmware, baud, flash, wire>>
    BY <1>9 DEF Write
  <2>2. baud["tool"] = baud["chip"] BY <2>1 DEF Rates
  <2>3. size <= Limit /\ firmware \in 0 .. size - 1 BY <2>1, Typed DEF Control
  <2>4. Place(firmware) \in Adrs /\ firmware \in Packets
    BY <2>3, PlaceFacts, ErasedFacts, Typed
  <2>5. Sent' = Sent \cup {[kind |-> 1, at |-> Place(firmware), packet |-> firmware]}
    BY <2>1, <2>2, <2>4, SendFacts
  <2>6. CASE i = firmware
    <3>1. [kind |-> 1, at |-> Place(i), packet |-> i] \in Sent' BY <2>5, <2>6
    <3> QED BY <1>2, <3>1 DEF There
  <2>7. CASE i < firmware
    <3>1. There(i) BY <1>3, <2>1, <2>7
    <3> QED BY <1>2, <2>1, <2>5, <3>1 DEF There
  <2> QED BY <2>1, <2>6, <2>7
<1>10. CASE Written
  <2>1. /\ pc = "writing" /\ firmware' = firmware + 1 /\ pc' = "write"
        /\ UNCHANGED <<flash, cmds>>
    BY <1>10 DEF Written
  <2>2. i < firmware \/ i = firmware BY <1>2, <2>1, Typed
  <2> QED BY <1>3, <1>4, <2>1, <2>2
<1>11. CASE NotWritten \/ Finish
  <2>1. /\ pc \in {"write", "writing"} /\ pc' # "writing"
        /\ UNCHANGED <<firmware, flash, cmds>>
    BY <1>11 DEF NotWritten, Finish
  <2> QED BY <1>3, <1>4, <2>1
<1>12. CASE Execute
  <2>1. UNCHANGED <<pc, firmware>> BY <1>12 DEF Execute
  <2>2. There(i) BY <1>3, <2>1
  <2> QED BY <1>2, <1>12, <2>1, <2>2, ExecuteKeeps
<1>13. CASE Arrive
  <2>1. UNCHANGED <<pc, firmware, flash, cmds>> BY <1>13 DEF Arrive
  <2> QED BY <1>3, <1>4, <2>1
<1>14. CASE LoseCommand \/ LoseAnswer BY <1>1, <1>14, LoseFacts
<1>15. CASE Stop \/ UNCHANGED vars
  <2>1. UNCHANGED <<pc, firmware, flash, cmds>> BY <1>15 DEF Stop, vars
  <2> QED BY <1>3, <1>4, <2>1
<1> QED BY <1>5, <1>6, <1>7, <1>8, <1>9, <1>10, <1>11, <1>12, <1>13, <1>14, <1>15
        DEF Next, Tool, Start, BaudFailed


LEMMA NextLossy ==
  ASSUME TypeOK, Control, Rates, Order, Lossy, [Next]_vars PROVE Lossy'
<1> SUFFICES ASSUME line' = "lossy" PROVE Lossy'
  BY DEF Lossy
<1>1. line' = line /\ job' = job /\ size' = size
  <2>1. ASSUME NEW next, Connect(next) PROVE line' = line /\ job' = job /\ size' = size
    BY <2>1 DEF Connect, setup
  <2> QED BY <2>1 DEF Next, Tool, Start, Connected, EraseResult, ChangeBaud, BaudChanged,
              BaudFailed, Reconnected, Erase, Write, Written, NotWritten, Finish, Execute,
              Arrive, LoseCommand, LoseAnswer, Stop, vars, setup
<1>2. \A i : Place(i)' = Place(i) BY <1>1 DEF Place
<1>3. /\ pc \notin Waiting => cmds = <<>> /\ wire = <<>>
      /\ Len(cmds) + Len(wire) + Len(input) <= 1
      /\ pc \in {"write", "writing", "done"} =>
           \A i \in 0 .. size - 1 : i < firmware => flash[Place(i)] = i
      /\ pc = "writing" => \A c \in Sent : c.kind = 1 => c.packet = firmware
      /\ pc = "writing" /\ 1 \in Answers => flash[Place(firmware)] = firmware
  BY <1>1 DEF Lossy
<1>4. /\ Len(cmds) \in Nat /\ Len(wire) \in Nat /\ Len(input) \in Nat
      /\ (cmds = <<>> <=> Len(cmds) = 0) /\ (wire = <<>> <=> Len(wire) = 0)
      /\ (input = <<>> <=> Len(input) = 0)
  BY Typed, EmptySeq
<1>p. Place(firmware') = Place(firmware)' \/ firmware' # firmware BY <1>2
\* A result is read when nothing is under way any more.
<1>5. ASSUME NEW res, NEW ok \in BOOLEAN, Result(res, ok) PROVE cmds = <<>> /\ wire = <<>>
  BY <1>1, <1>3, <1>4, <1>5, ResultFacts
<1>6. ASSUME NEW next \in {"connect", "version"}, Connect(next), cmds = <<>> /\ wire = <<>>
      PROVE  Lossy'
  <2>1. /\ pc' = next /\ Len(cmds') = 1 /\ Len(input') = 0 /\ wire' = wire
    BY <1>6, ConnectFacts
  <2> QED BY <1>4, <1>6, <2>1 DEF Lossy, Waiting
<1>7. CASE Start BY <1>3, <1>6, <1>7 DEF Start, Waiting
<1>8. CASE BaudFailed BY <1>5, <1>6, <1>8 DEF BaudFailed
<1>9. ASSUME UNCHANGED <<cmds, wire, input>>, cmds = <<>> /\ wire = <<>>,
             pc' \notin {"write", "writing", "done"}
      PROVE  Lossy'
  BY <1>3, <1>9 DEF Lossy
<1>10. ASSUME NEW ok \in BOOLEAN, Connected(ok) PROVE Lossy'
  BY <1>5, <1>9, <1>10 DEF Connected
<1>11. ASSUME NEW ok \in BOOLEAN, EraseResult(ok) PROVE Lossy'
  <2>1. /\ pc = "erasing" /\ pc' \in {"failed", "broken", "write"} /\ Result(3, ok)
        /\ UNCHANGED <<firmware, cmds, wire, input>>
    BY <1>11 DEF EraseResult
  <2>2. cmds = <<>> /\ wire = <<>> /\ firmware = 0 BY <1>5, <2>1 DEF Control
  <2> QED BY <1>3, <2>1, <2>2 DEF Lossy
<1>12. CASE BaudChanged BY <1>5, <1>9, <1>12 DEF BaudChanged
<1>13. CASE Reconnected BY <1>5, <1>9, <1>13 DEF Reconnected
<1>14. CASE ChangeBaud \/ Erase
  <2>1. /\ pc \in {"change_baud", "erase"} /\ pc' \in {"baud", "erasing"}
        /\ Send(5, 0, 0) \/ Send(3, 0, 0)
        /\ wire' = wire
    BY <1>14 DEF ChangeBaud, Erase
  <2>2. cmds = <<>> /\ wire = <<>> BY <1>3, <2>1 DEF Waiting
  <2>3. baud["tool"] = baud["chip"] BY <2>1 DEF Rates
  <2>4. Len(cmds') = Len(cmds) + 1 /\ Len(input') = 0 BY <2>1, <2>3, SendFacts, Numbers
  <2> QED BY <1>4, <2>1, <2>2, <2>4 DEF Lossy, Waiting
<1>15. CASE Write
  <2>1. /\ pc = "write" /\ pc' = "writing" /\ firmware < size
        /\ Send(1, Place(firmware), firmware)
        /\ UNCHANGED <<firmware, baud, flash, wire>>
    BY <1>15 DEF Write
  <2>2. baud["tool"] = baud["chip"] BY <2>1 DEF Rates
  <2>3. size <= Limit /\ firmware \in 0 .. size - 1 BY <2>1, Typed DEF Control
  <2>4. Place(firmware) \in Adrs /\ firmware \in Packets
    BY <2>3, PlaceFacts, ErasedFacts, Typed
  <2>5. PICK e : e = [kind |-> 1, at |-> Place(firmware), packet |-> firmware]
                 /\ Sent' = Sent \cup {e}
    BY <2>1, <2>2, <2>4, SendFacts
  <2>6. Answers' = ToSet(wire) /\ Len(cmds') = Len(cmds) + 1 /\ Len(input') = 0
    BY <2>1, <2>2, <2>4, SendFacts
  <2>7. cmds = <<>> /\ wire = <<>> BY <1>3, <2>1 DEF Waiting
  <2>8. Sent = {} /\ Answers' = {} BY <2>6, <2>7, EmptyFacts DEF Sent
  <2>9. \A c \in Sent' : c.packet = firmware' BY <2>1, <2>5, <2>8
  <2>10. \A j \in 0 .. size' - 1 : j < firmware' => flash'[Place(j)'] = j
    BY <1>1, <1>2, <1>3, <2>1
  <2>11. Len(cmds') + Len(wire') + Len(input') <= 1 BY <1>4, <2>1, <2>6, <2>7
  <2> QED BY <2>1, <2>8, <2>9, <2>10, <2>11 DEF Lossy, Waiting
<1>16. CASE Written
  <2>1. /\ pc = "writing" /\ pc' = "write" /\ firmware' = firmware + 1 /\ Result(1, TRUE)
        /\ UNCHANGED <<flash, cmds, wire, input>>
    BY <1>16 DEF Written
  <2>2. cmds = <<>> /\ wire = <<>> /\ 1 \in Answers BY <1>5, <2>1, ResultFacts DEF Answers
  <2>3. \A j \in 0 .. size' - 1 : j < firmware' => flash'[Place(j)'] = j
    <3> TAKE j \in 0 .. size' - 1
    <3> HAVE j < firmware'
    <3>1. j \in 0 .. size - 1 /\ (j < firmware \/ j = firmware) BY <1>1, <2>1, Typed
    <3> QED BY <1>2, <1>3, <2>1, <2>2, <3>1
  <2> QED BY <1>3, <2>1, <2>2, <2>3 DEF Lossy
<1>17. CASE NotWritten \/ Finish
  <2>1. /\ pc \in {"writing", "write"} /\ pc' \in {"write", "failed", "done"}
        /\ pc = "writing" => Result(1, FALSE)
        /\ UNCHANGED <<firmware, flash, cmds, wire, input>>
    BY <1>17 DEF NotWritten, Finish
  <2>2. cmds = <<>> /\ wire = <<>> BY <1>3, <1>5, <2>1 DEF Waiting
  <2>3. \A j \in 0 .. size' - 1 : j < firmware' => flash'[Place(j)'] = j
    BY <1>1, <1>2, <1>3, <2>1
  <2> QED BY <1>3, <2>1, <2>2, <2>3 DEF Lossy
<1>18. CASE Execute
  <2>1. PICK c \in Sent :
           /\ c \in Command /\ Sent = Sent' \cup {c}
           /\ Answers' = Answers \cup {c.kind}
           /\ Len(cmds') = Len(cmds) - 1 /\ Len(wire') = Len(wire) + 1
           /\ c.kind = 1 => flash' = [flash EXCEPT ![c.at] = Programmed(@, c.packet)]
           /\ UNCHANGED <<line, job, size, pc, firmware, error_c, input>>
    BY <1>18, ExecuteFacts
  <2>2. cmds # <<>> BY <1>18 DEF Execute
  <2>3. pc \in Waiting BY <1>3, <2>2
  <2>4. Len(cmds') + Len(wire') + Len(input') <= 1 BY <1>3, <1>4, <2>1
  <2>5. pc \in {"write", "writing", "done"} =>
          \A j \in 0 .. size' - 1 : j < firmware' => flash'[Place(j)'] = j
    <3> SUFFICES ASSUME pc \in {"write", "writing", "done"}, NEW j \in 0 .. size - 1, j < firmware
                 PROVE  flash'[Place(j)] = j
      BY <1>2, <2>1
    <3>1. flash[Place(j)] = j BY <1>3
    <3> QED BY <1>18, <3>1, ExecuteKeeps
  <2>6. pc = "writing" => \A d \in Sent' : d.kind = 1 => d.packet = firmware BY <1>3, <2>1
  <2>7. ASSUME pc = "writing", 1 \in Answers' PROVE flash'[Place(firmware)] = firmware
    <3>1. CASE c.kind = 1
      <4>1. /\ c.packet = firmware /\ c.at = Place(firmware) /\ c.at \in Adrs
            /\ Programmed(flash[c.at], c.packet) = c.packet
        BY <1>3, <2>7, <3>1, ProgramsPlace
      <4>2. flash' = [flash EXCEPT ![c.at] = c.packet] BY <2>1, <3>1, <4>1
      <4> QED BY <4>1, <4>2, Typed
    <3>2. CASE c.kind # 1
      <4>1. flash[Place(firmware)] = firmware BY <1>3, <2>1, <2>7, <3>2
      <4>2. firmware \in 0 .. size - 1 BY <2>7, Typed DEF Control
      <4> QED BY <1>18, <2>7, <4>1, <4>2, ExecuteKeeps
    <3> QED BY <3>1, <3>2
  <2> QED BY <1>p, <1>2, <2>1, <2>3, <2>4, <2>5, <2>6, <2>7 DEF Lossy
<1>19. CASE Arrive
  <2>1. /\ Answers' = Answers /\ Len(wire') = Len(wire) - 1 /\ Len(input') = Len(input) + 1
        /\ UNCHANGED <<line, job, size, pc, firmware, error_c, baud, flash, cmds>>
    BY <1>19, ArriveFacts
  <2>2. wire # <<>> BY <1>19 DEF Arrive
  <2>3. pc \in Waiting BY <1>3, <2>2
  <2>4. Len(cmds') + Len(wire') + Len(input') <= 1 BY <1>3, <1>4, <2>1
  <2>5. Sent' = Sent BY <2>1 DEF Sent
  <2>6. pc \in {"write", "writing", "done"} =>
          \A j \in 0 .. size' - 1 : j < firmware' => flash'[Place(j)'] = j
    BY <1>2, <1>3, <2>1
  <2> QED BY <1>2, <1>3, <2>1, <2>3, <2>4, <2>5, <2>6 DEF Lossy
<1>20. CASE LoseCommand \/ LoseAnswer
  <2>1. /\ Sent' \subseteq Sent /\ Answers' \subseteq Answers
        /\ cmds = <<>> => cmds' = <<>>
        /\ wire = <<>> => wire' = <<>>
        /\ Len(cmds') + Len(wire') + Len(input') = Len(cmds) + Len(wire) + Len(input) - 1
        /\ UNCHANGED <<line, job, size, pc, firmware, error_c, baud, flash, input>>
    BY <1>20, LoseFacts
  <2>2. Len(cmds') + Len(wire') + Len(input') <= 1 BY <1>3, <1>4, <2>1
  <2>3. pc \in {"write", "writing", "done"} =>
          \A j \in 0 .. size' - 1 : j < firmware' => flash'[Place(j)'] = j
    BY <1>2, <1>3, <2>1
  <2> QED BY <1>2, <1>3, <2>1, <2>2, <2>3 DEF Lossy
<1>21. CASE Stop \/ UNCHANGED vars
  <2>1. UNCHANGED <<job, size, pc, firmware, flash, cmds, wire, input>>
    BY <1>21 DEF Stop, vars, setup
  <2>2. Sent' = Sent /\ Answers' = Answers BY <2>1 DEF Sent, Answers
  <2>3. pc \in {"write", "writing", "done"} =>
          \A j \in 0 .. size' - 1 : j < firmware' => flash'[Place(j)'] = j
    BY <1>2, <1>3, <2>1
  <2> QED BY <1>2, <1>3, <2>1, <2>2, <2>3 DEF Lossy
<1> QED BY <1>7, <1>8, <1>10, <1>11, <1>12, <1>13, <1>14, <1>15, <1>16, <1>17, <1>18, <1>19,
           <1>20, <1>21 DEF Next, Tool

-----------------------------------------------------------------------------
(* The theorems.                                                           *)

LEMMA InitInv == Init => Inv
<1> SUFFICES ASSUME Init PROVE Inv
  OBVIOUS
<1> USE Numbers
<1>1. /\ cmds = <<>> /\ wire = <<>> /\ input = <<>> /\ pc = "start" /\ firmware = 0
      /\ error_c = Tries /\ baud = [e \in {"tool", "chip"} |-> Slow]
      /\ flash = [a \in Adrs |-> IF a < Boot THEN Loader ELSE Old]
      /\ line \in {"lossy", "slow", "both"} /\ job \in {"burn", "burn_triad"}
      /\ size \in 1 .. Limit + 1 /\ (job = "burn_triad" => size = 1)
  BY DEF Init
<1>2. /\ cmds \in Seq(Command) /\ wire \in Seq(0 .. 5) /\ input \in Seq(0 .. 5)
      /\ Len(cmds) = 0 /\ Len(wire) = 0 /\ Len(input) = 0
  BY <1>1, EmptySeq
<1>3. Sent = {} /\ Answers = {} /\ \A K : Once(K, cmds)
  BY <1>1, EmptyFacts DEF Sent, Answers
<1>4. \A K : Without(K) BY <1>3 DEF Without
<1> HIDE DEF Command
<1>5. flash \in [Adrs -> Packets \cup {Blank, Old, Loader, Clash}] BY <1>1
<1>6. TypeOK BY <1>1, <1>2, <1>5 DEF TypeOK
<1>7. Control BY <1>1 DEF Control
<1>8. Rates BY <1>1, <1>3, <1>4 DEF Rates
<1>9. Order BY <1>1, <1>3, <1>4 DEF Order, Late
<1>10. Untouched BY <1>1, ErasedFacts DEF Untouched
<1>11. Slowly /\ Lossy BY <1>1, <1>2 DEF Slowly, Lossy
<1> QED BY <1>6, <1>7, <1>8, <1>9, <1>10, <1>11 DEF Inv

\* The inductive invariant Inv: the commands and answers on the line, the two
\* rates and the flash always agree with where the tool is.
THEOREM LineInvariant == Spec => []Inv
<1>1. Inv /\ [Next]_vars => Inv' BY NextType, NextLine, NextSlowly, NextLossy DEF Inv
<1> QED BY <1>1, InitInv, PTL DEF Spec

\* The type invariant: the tool never uses up more than its tries, and never
\* sends a packet to an address outside the flash it has erased.
THEOREM TypeCorrect == Spec => []TypeOK
<1>1. Inv => TypeOK BY DEF Inv
<1> QED BY <1>1, LineInvariant, PTL

\* Whatever is lost or late, and however often telink_flash_write tries, a packet
\* is never programmed over something else, and the boot loader stays.
THEOREM NeverOverwrites == Spec => []NothingOverwritten
<1>1. Inv => NothingOverwritten
  <2> SUFFICES ASSUME Inv, NEW a \in Adrs
               PROVE  flash[a] # Clash /\ (a < Boot => flash[a] = Loader)
    BY DEF NothingOverwritten
  <2>1. TypeOK /\ Untouched BY DEF Inv
  <2>2. CASE a \notin Erased BY <2>1, <2>2 DEF Untouched, Loader, Old, Clash
  <2>3. CASE a \in Erased
    <3>1. ~(a < Boot) BY <2>1, <2>3, ErasedFacts, Typed
    <3>2. flash[a] \in {Old, Blank} \/ flash[a] \in Nat
      BY <2>1, <2>3, Typed DEF Untouched, Clean
    <3> QED BY <3>1, <3>2 DEF Old, Blank, Clash
  <2> QED BY <2>2, <2>3
<1> QED BY <1>1, LineInvariant, PTL

\* When telink_flash_write reports success on a line that only loses, or is only
\* slow, every packet is where combine has it, or its command is on its way.
THEOREM SuccessMeansBurned == Spec => []DoneMeansBurned
<1>1. Inv => DoneMeansBurned
  <2> SUFFICES ASSUME Inv, pc = "done", line # "both", NEW a \in Erased,
                      NEW want, want = IF job = "burn" THEN Combined(a) ELSE 0
               PROVE  \/ flash[a] = want
                      \/ \E k \in 1 .. Len(cmds) :
                           cmds[k] = [kind |-> 1, at |-> a, packet |-> want]
    BY DEF DoneMeansBurned
  <2>1. TypeOK /\ Control /\ Order /\ Slowly /\ Lossy BY DEF Inv
  <2>2. firmware = size /\ size <= Limit /\ Clean BY <2>1 DEF Control, Order, Late
  <2>3. size \in Nat /\ job \in {"burn", "burn_triad"} /\ (job = "burn_triad" => size = 1)
    BY <2>1, Typed DEF Control
  <2>4. CASE \E i \in 0 .. size - 1 : a = Place(i)
    <3>1. PICK i \in 0 .. size - 1 : a = Place(i) BY <2>4
    <3>2. want = i
      <4>1. CASE job = "burn"
        <5>1. want = Combined(a) BY <4>1
        <5> QED BY <2>2, <2>3, <3>1, <4>1, <5>1, Numbers DEF Combined, Place
      <4>2. CASE job # "burn" BY <2>3, <3>1, <4>2
      <4> QED BY <4>1, <4>2
    <3>3. There(i)
      <4>0. i \in 0 .. size - 1 /\ i < firmware BY <2>2, <2>3, <3>1
      <4>1. CASE line = "slow"
        <5>1. \A j \in 0 .. size - 1 : j < firmware \/ (j = firmware /\ pc = "writing") => There(j)
          BY ONLY <2>1, <4>1, pc = "done" DEF Slowly
        <5> QED BY <4>0, <5>1
      <4>2. CASE line = "lossy"
        <5>1. \A j \in 0 .. size - 1 : j < firmware => flash[Place(j)] = j
          BY ONLY <2>1, <4>2, pc = "done" DEF Lossy
        <5> QED BY <4>0, <5>1 DEF There
      <4> QED BY <2>1, <4>1, <4>2, Typed
    <3>4. CASE flash[Place(i)] = i BY <3>1, <3>2, <3>4
    <3>5. CASE [kind |-> 1, at |-> Place(i), packet |-> i] \in Sent
      BY <2>1, <3>1, <3>2, <3>5, ElementOf, Typed DEF Sent
    <3> QED BY <3>3, <3>4, <3>5 DEF There
  <2>5. CASE ~\E i \in 0 .. size - 1 : a = Place(i)
    <3>1. flash[a] = Blank BY <2>2, <2>5 DEF Clean
    <3>2. job = "burn"
      <4> SUFFICES ASSUME job = "burn_triad" PROVE FALSE
        BY <2>3
      <4>1. a = Place(0) /\ 0 \in 0 .. size - 1 BY <2>3 DEF Erased, Place
      <4> QED BY <2>5, <4>1
    <3>3. a \in Boot .. Triad - 1 /\ a \in Nat BY <3>2, Numbers DEF Erased
    <3>4. Combined(a) = Blank
      <4>1. CASE a < Limit
        <5>1. ~(a < size)
          <6> SUFFICES ASSUME a < size PROVE FALSE
            OBVIOUS
          <6>1. a \in 0 .. size - 1 /\ Place(a) = a BY <2>3, <3>2, <3>3, Numbers DEF Place
          <6> QED BY <2>5, <6>1
        <5> QED BY <3>3, <4>1, <5>1, Numbers DEF Combined
      <4>2. CASE ~(a < Limit)
        <5>1. ~(a - Limit < size)
          <6> SUFFICES ASSUME a - Limit < size PROVE FALSE
            OBVIOUS
          <6>1. a - Limit \in 0 .. size - 1 /\ Place(a - Limit) = a
            BY <2>3, <3>2, <3>3, <4>2, Numbers DEF Place
          <6> QED BY <2>5, <6>1
        <5> QED BY <3>3, <4>2, <5>1, Numbers DEF Combined
      <4> QED BY <4>1, <4>2
    <3> QED BY <3>1, <3>2, <3>4
  <2> QED BY <2>4, <2>5
<1> QED BY <1>1, LineInvariant, PTL
=============================================================================
