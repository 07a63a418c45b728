------------------------ MODULE FactoryReset_proofs ------------------------
(***************************************************************************)
(* Proofs about FactoryReset, for every size of the counter sector and     *)
(* every number of configuration sectors.                                  *)
(***************************************************************************)
EXTENDS FactoryReset, SequenceTheorems, TLAPS

\* The parts of the type that the arguments need.
Types ==
  /\ log \in [Bytes -> 0 .. 8]
  /\ pc \in {"scan", "clean", "handle", "run", "reset"}
  /\ idx \in 0 .. Size
  /\ erased \in 0 .. Config /\ ordered \subseteq 1 .. Config

\* The scan has skipped only bytes that are used up, and has stopped at one
\* that is not.  Clean has brought the index below CleanAt.
ScanInv ==
  /\ \A b \in Bytes : b < idx => log[b] = RecountFlag
  /\ pc \in {"handle", "run", "reset"} => idx < CleanAt
  /\ pc \in {"clean", "handle"} /\ idx < Size => log[idx] # RecountFlag

\* While a reset that the counter has ordered is incomplete, the byte with the
\* order is still there, in the part of the sector that Clean leaves alone, and
\* the scan has not passed it.
Ordered(b) ==
  /\ b \in Bytes /\ b < CleanAt /\ idx <= b
  /\ log[b] = ResetFlag
  /\ \A c \in Bytes : c < b => log[c] = RecountFlag
ResetInv ==
  ordered # {} => pc # "run" /\ \E b \in Bytes : Ordered(b)

\* The inductive invariant.
IInv == Types /\ ScanInv /\ OneCount /\ ResetInv

LEMMA InitIInv == Init => IInv
<1> SUFFICES ASSUME Init PROVE IInv
  OBVIOUS
<1> USE ResetAssumption DEF Init, Bytes
<1>1. Types BY DEF Types
<1>2. ScanInv BY DEF ScanInv
<1>3. OneCount BY DEF OneCount
<1>4. ResetInv BY DEF ResetInv
<1> QED BY <1>1, <1>2, <1>3, <1>4 DEF IInv

\* Using up the byte at idx, above which nothing is counted in.
LEMMA UseUp ==
  ASSUME IInv, idx \in Bytes, log' = UsedUp
  PROVE  /\ log' \in [Bytes -> 0 .. 8]
         /\ \A b \in Bytes : b <= idx => log'[b] = RecountFlag
         /\ \A b \in Bytes : b > idx => log'[b] = log[b]
         /\ OneCount'
<1> USE ResetAssumption DEF IInv, Types, Bytes, UsedUp, RecountFlag
<1>1. log' \in [Bytes -> 0 .. 8] OBVIOUS
<1>2. \A b \in Bytes : b <= idx => log'[b] = RecountFlag BY DEF ScanInv
<1>3. \A b \in Bytes : b > idx => log'[b] = log[b] OBVIOUS
<1>4. OneCount' BY <1>1, <1>2, <1>3 DEF OneCount
<1> QED BY <1>1, <1>2, <1>3, <1>4

\* Clearing one more bit of the byte at idx.
LEMMA Increase ==
  ASSUME IInv, idx \in Bytes, IncreaseResetCnt
  PROVE  /\ log' \in [Bytes -> 0 .. 8]
         /\ \A b \in Bytes : b < idx => log'[b] = RecountFlag
         /\ OneCount'
<1> USE ResetAssumption DEF IInv, Types, Bytes, IncreaseResetCnt, RecountFlag
<1>1. log' \in [Bytes -> 0 .. 8] OBVIOUS
<1>2. \A b \in Bytes : b < idx => log'[b] = RecountFlag BY DEF ScanInv
<1>3. OneCount' BY <1>1, <1>2 DEF OneCount, ScanInv
<1> QED BY <1>1, <1>2, <1>3

LEMMA NextIInv == IInv /\ [Next]_vars => IInv'
<1> SUFFICES ASSUME IInv, [Next]_vars PROVE IInv'
  OBVIOUS
<1> USE ResetAssumption DEF IInv, Types
<1>1. CASE Scan
  <2>1. idx \in Bytes BY <1>1 DEF Scan, Bytes
  <2>2. /\ log' \in [Bytes -> 0 .. 8]
        /\ \A b \in Bytes : b <= idx => log'[b] = RecountFlag
        /\ \A b \in Bytes : b > idx => log'[b] = log[b]
        /\ OneCount'
    BY <1>1, <2>1, UseUp DEF Scan
  <2>3. Types' BY <1>1, <2>1, <2>2 DEF Scan, Bytes
  <2>4. ScanInv' BY <1>1, <2>1, <2>2 DEF Scan, ScanInv, Bytes
  <2>5. ASSUME ordered' # {} PROVE pc' # "run" /\ \E b \in Bytes : Ordered(b)'
    <3>1. PICK b \in Bytes : Ordered(b)
      BY <1>1, <2>5 DEF Scan, ResetInv
    <3>2. idx # b BY <1>1, <3>1 DEF Scan, Ordered, RecountFlag, ResetFlag, Invalid
    <3>3. Ordered(b)' BY <1>1, <2>1, <2>2, <3>1, <3>2 DEF Scan, Ordered, Bytes
    <3> QED BY <1>1, <3>3 DEF Scan
  <2> QED BY <2>2, <2>3, <2>4, <2>5 DEF ResetInv
<1>2. CASE ScanEnd
  <2> USE <1>2 DEF ScanEnd, Bytes
  <2>1. Types' OBVIOUS
  <2>2. ScanInv' BY DEF ScanInv
  <2>3. OneCount' BY DEF OneCount
  <2>4. ResetInv' BY DEF ResetInv, Ordered
  <2> QED BY <2>1, <2>2, <2>3, <2>4
<1>3. CASE Clean
  <2>1. CASE NearEnd(idx)
    <3> USE <1>3, <2>1 DEF Clean, NearEnd, Bytes
    <3>1. Types' OBVIOUS
    <3>2. ScanInv' BY DEF ScanInv, RecountFlag
    <3>3. OneCount' BY DEF OneCount
    <3>4. ordered' = {} BY DEF ResetInv, Ordered
    <3> QED BY <3>1, <3>2, <3>3, <3>4 DEF ResetInv
  <2>2. CASE ~NearEnd(idx)
    <3> USE <1>3, <2>2 DEF Clean, NearEnd, Bytes
    <3>1. Types' OBVIOUS
    <3>2. ScanInv' BY DEF ScanInv
    <3>3. OneCount' BY DEF OneCount
    <3>4. ResetInv' BY DEF ResetInv, Ordered
    <3> QED BY <3>1, <3>2, <3>3, <3>4
  <2> QED BY <2>1, <2>2
<1>4. CASE Count
  <2>1. idx \in Bytes BY <1>4 DEF Count, ScanInv, Bytes
  <2>2. /\ log' \in [Bytes -> 0 .. 8]
        /\ \A b \in Bytes : b < idx => log'[b] = RecountFlag
        /\ OneCount'
    BY <1>4, <2>1, Increase DEF Count
  <2>3. Types' BY <1>4, <2>2 DEF Count
  <2>4. ScanInv' BY <1>4, <2>1, <2>2 DEF Count, ScanInv
  <2>5. ordered = {}
    <3> SUFFICES ASSUME NEW b \in Bytes, Ordered(b) PROVE FALSE
      BY DEF ResetInv
    <3>1. idx = b BY <1>4, <2>1 DEF Count, Ordered, ScanInv, Bytes
    <3> QED BY <1>4, <3>1 DEF Count, Ordered
  <2>6. ordered' = {} BY <1>4, <2>5 DEF Count
  <2> QED BY <2>2, <2>3, <2>4, <2>6 DEF ResetInv
<1>5. CASE StartReset
  <2> USE <1>5 DEF StartReset, Bytes
  <2>1. Types' OBVIOUS
  <2>2. ScanInv' BY DEF ScanInv
  <2>3. OneCount' BY DEF OneCount
  <2>4. ResetInv' BY DEF ResetInv, Ordered
  <2> QED BY <2>1, <2>2, <2>3, <2>4
<1>6. CASE EraseConfig
  <2> USE <1>6 DEF EraseConfig, Bytes
  <2>1. Types' OBVIOUS
  <2>2. ScanInv' BY DEF ScanInv
  <2>3. OneCount' BY DEF OneCount
  <2>4. ASSUME ordered' # {} PROVE \E b \in Bytes : Ordered(b)'
    <3>1. CASE log[idx] = ResetFlag
      <4>1. \A c \in Bytes : c < idx => log[c] = RecountFlag BY DEF ScanInv
      <4>2. idx \in Bytes /\ idx < CleanAt BY DEF ScanInv
      <4> QED BY <3>1, <4>1, <4>2 DEF Ordered
    <3>2. CASE log[idx] # ResetFlag
      <4>1. PICK b \in Bytes : Ordered(b) BY <2>4, <3>2 DEF ResetInv
      <4>2. Ordered(b)' BY <4>1 DEF Ordered
      <4> QED BY <4>2
    <3> QED BY <3>1, <3>2
  <2> QED BY <2>1, <2>2, <2>3, <2>4 DEF ResetInv
<1>7. CASE EraseCounter
  <2> USE <1>7 DEF EraseCounter, CounterIsDue, Restart, Bytes
  <2>1. Types' OBVIOUS
  <2>2. ScanInv' BY DEF ScanInv
  <2>3. OneCount' BY DEF OneCount
  <2>4. ordered' = {} OBVIOUS
  <2> QED BY <2>1, <2>2, <2>3, <2>4 DEF ResetInv
<1>8. CASE CheckStart \/ Tick
  <2>1. UNCHANGED <<log, pc, idx, erased, ordered>> BY <1>8 DEF CheckStart, Tick
  <2> USE <2>1 DEF Bytes
  <2>2. Types' OBVIOUS
  <2>3. ScanInv' BY DEF ScanInv
  <2>4. OneCount' BY DEF OneCount
  <2>5. ResetInv' BY DEF ResetInv, Ordered
  <2> QED BY <2>2, <2>3, <2>4, <2>5
<1>9. CASE CheckFrom
  <2>1. idx \in Bytes BY <1>9 DEF CheckFrom, ScanInv, Bytes
  <2>2. /\ log' \in [Bytes -> 0 .. 8]
        /\ \A b \in Bytes : b < idx => log'[b] = RecountFlag
        /\ OneCount'
    <3>1. CASE CountsTwice(reset_cnt) BY <1>9, <2>1, <3>1, Increase DEF CheckFrom
    <3>2. CASE ~CountsTwice(reset_cnt)
      BY <1>9, <3>2 DEF CheckFrom, OneCount, ScanInv, Bytes
    <3> QED BY <3>1, <3>2
  <2>3. Types' BY <1>9, <2>2 DEF CheckFrom
  <2>4. ScanInv' BY <1>9, <2>1, <2>2 DEF CheckFrom, ScanInv
  <2>5. ordered' = {} BY <1>9 DEF CheckFrom, ResetInv
  <2> QED BY <2>2, <2>3, <2>4, <2>5 DEF ResetInv
<1>10. CASE CheckUpto
  <2>1. idx \in Bytes BY <1>10 DEF CheckUpto, ScanInv, Bytes
  <2>2. /\ log' \in [Bytes -> 0 .. 8]
        /\ \A b \in Bytes : b <= idx => log'[b] = RecountFlag
        /\ OneCount'
    BY <1>10, <2>1, UseUp DEF CheckUpto
  <2>3. Types' BY <1>10, <2>2 DEF CheckUpto
  <2>4. ScanInv' BY <1>10, <2>1, <2>2 DEF CheckUpto, ScanInv, Bytes
  <2>5. ordered' = {} BY <1>10 DEF CheckUpto, ResetInv
  <2> QED BY <2>2, <2>3, <2>4, <2>5 DEF ResetInv
<1>11. CASE AtRestore
  <2> USE <1>11 DEF AtRestore, Bytes
  <2>1. Types' OBVIOUS
  <2>2. ScanInv' BY DEF ScanInv
  <2>3. OneCount' BY DEF OneCount
  <2>4. ResetInv' BY DEF ResetInv
  <2> QED BY <2>1, <2>2, <2>3, <2>4
<1>12. CASE PowerOff
  <2> USE <1>12 DEF PowerOff, Restart, Bytes
  <2>1. Types' OBVIOUS
  <2>2. ScanInv' BY DEF ScanInv
  <2>3. OneCount' BY DEF OneCount
  <2>4. ResetInv' BY DEF ResetInv, Ordered
  <2> QED BY <2>1, <2>2, <2>3, <2>4
<1>13. CASE UNCHANGED vars
  <2> USE <1>13 DEF vars, ram, Bytes
  <2>1. Types' OBVIOUS
  <2>2. ScanInv' BY DEF ScanInv
  <2>3. OneCount' BY DEF OneCount
  <2>4. ResetInv' BY DEF ResetInv, Ordered
  <2> QED BY <2>1, <2>2, <2>3, <2>4
<1> QED
  BY <1>1, <1>2, <1>3, <1>4, <1>5, <1>6, <1>7, <1>8, <1>9, <1>10, <1>11, <1>12,
     <1>13 DEF Next

\* A factory reset by the gesture that has begun to erase is completed before
\* the module runs again, wherever the power fails: factory_reset erases the
\* counter last and reset_cnt_clean never erases an order to reset.
THEOREM ResetCompletes == Spec => []ResetIsComplete
<1>1. IInv => ResetIsComplete BY DEF IInv, ResetInv, ResetIsComplete
<1> QED BY <1>1, InitIInv, NextIInv, PTL DEF Spec

\* At most one byte of the counter log is being counted in, and what follows it
\* is erased, so that increase_reset_cnt never programs over an old count.
THEOREM OneCountAtATime == Spec => []OneCount
<1>1. IInv => OneCount BY DEF IInv
<1> QED BY <1>1, InitIInv, NextIInv, PTL DEF Spec

-----------------------------------------------------------------------------
\* The type needs the place of the session, its timer and the history too.
RamType ==
  /\ reset_cnt \in 0 .. 4 /\ clear_st \in 0 .. 3
  /\ deadline \in {0, 3, 30} /\ time \in {0, 3, 30}
  /\ sessions \in Seq({0, 3, 30}) /\ Len(sessions) <= 6

\* The last k sessions are the first k of the gesture.
Ends(k) ==
  /\ Len(sessions) >= k
  /\ \A i \in 1 .. k : sessions[Len(sessions) - k + i] = Gesture[i]

\* The sessions that a byte with n bits clear vouches for, after and during the
\* session that has cleared the last one.
Before(n) == CASE n = 1 -> 1 [] n = 2 -> 2 [] n = 3 -> 3 [] n = 5 -> 4 [] n = 7 -> 5 [] OTHER -> 0
During(n) == CASE n = 2 -> 1 [] n = 3 -> 2 [] n \in {4, 5} -> 3 [] n \in {6, 7} -> 4 [] OTHER -> 0

\* Between sessions the byte that is being counted in vouches for the last ones.
First(b) == \A c \in Bytes : c < b => log[c] = RecountFlag
Vouches == pc # "run" => \A b \in Bytes : First(b) => Ends(Before(log[b]))

\* In a session it vouches for those before, and its place and its timer say how
\* long the session has lasted.
Short ==
  /\ reset_cnt = log[idx] - 1
  /\ clear_st \in {2, 3} => time = 0
  /\ clear_st = 2 => deadline = 0
  /\ clear_st = 1 => deadline = 3 /\ time \in {0, 3}
Waiting == /\ reset_cnt = IF log[idx] = 4 THEN 3 ELSE 4
           /\ clear_st \in {2, 3} /\ (clear_st = 2 => deadline = 3)
Counted == /\ reset_cnt = IF log[idx] = 5 THEN 3 ELSE 4
           /\ clear_st = 1 /\ deadline = 30 /\ time \in {3, 30}
InSession ==
  pc = "run" =>
    /\ Ends(During(log[idx]))
    /\ \A b \in Bytes : b > idx => log[b] = 0
    /\ log[idx] # 0
    /\ clear_st = 0 => log[idx] = RecountFlag
    /\ log[idx] \in 1 .. 3 => Short
    /\ log[idx] \in {4, 6} => Waiting
    /\ log[idx] \in {5, 7} => Counted
    /\ log[idx] = RecountFlag => clear_st = 0

\* The invalid byte does not survive the scan, and RAM is reset with the module.
Booting ==
  /\ pc \in {"clean", "handle"} /\ idx < Size => ~Invalid(log[idx])
  /\ pc \in {"scan", "clean", "handle"} => clear_st = 3 /\ time = 0

GInv == RamType /\ Vouches /\ InSession /\ Booting

LEMMA InitGInv == Init => GInv
<1> SUFFICES ASSUME Init PROVE GInv
  OBVIOUS
<1> USE ResetAssumption DEF Init, Bytes
<1>1. RamType BY DEF RamType
<1>2. Vouches BY DEF Vouches, Ends, Before
<1>3. InSession BY DEF InSession
<1>4. Booting BY DEF Booting, Invalid
<1> QED BY <1>1, <1>2, <1>3, <1>4 DEF GInv

\* A session more, counted from the end of the history.
LEMMA FromTheEnd ==
  ASSUME RamType, NEW x \in {0, 3, 30}, sessions' = LastSix(Append(sessions, x))
  PROVE  \E n, m \in Nat :
           /\ n = Len(sessions) /\ m = Len(sessions') /\ m = IF n <= 5 THEN n + 1 ELSE 6
           /\ n <= 6 /\ sessions' \in Seq({0, 3, 30})
           /\ sessions'[m] = x
           /\ \A j \in 1 .. m - 1 : sessions'[m - j] = sessions[n + 1 - j]
<1> DEFINE n == Len(sessions)  t == Append(sessions, x)
<1>0. sessions \in Seq({0, 3, 30}) /\ n \in Nat /\ n <= 6
  <2>1. sessions \in Seq({0, 3, 30}) /\ n <= 6 BY DEF RamType
  <2> QED BY <2>1, LenProperties
<1>1. /\ t \in Seq({0, 3, 30}) /\ Len(t) = n + 1 /\ n \in 0 .. 6
      /\ \A i \in 1 .. n : t[i] = sessions[i]
      /\ t[n + 1] = x
  <2> HIDE DEF n
  <2>1. n \in 0 .. 6 BY <1>0
  <2> QED BY <1>0, <2>1, AppendProperties DEF n
<1>2. CASE n <= 5
  <2>1. sessions' = t BY <1>1, <1>2 DEF LastSix
  <2> QED BY <1>1, <1>2, <2>1
<1>3. CASE n = 6
  <2>1. sessions' = SubSeq(t, 2, 7) BY <1>1, <1>3 DEF LastSix
  <2>2. /\ sessions' \in Seq({0, 3, 30}) /\ Len(sessions') = 6
        /\ \A i \in 1 .. 6 : sessions'[i] = t[i + 1]
    BY <1>1, <1>3, <2>1
  <2> QED BY <1>1, <1>3, <2>2
<1>4. n <= 5 \/ n = 6
  <2> HIDE DEF n
  <2> QED BY <1>0
<1> QED BY <1>2, <1>3, <1>4

LEMMA OneMore ==
  ASSUME RamType, NEW x \in {0, 3, 30}, sessions' = LastSix(Append(sessions, x))
  PROVE  /\ sessions' \in Seq({0, 3, 30}) /\ Len(sessions') <= 6
         /\ \A k \in 0 .. 4 : Ends(k) /\ x = Gesture[k + 1] => Ends(k + 1)'
<1>1. PICK n, m \in Nat :
        /\ n = Len(sessions) /\ m = Len(sessions') /\ m = IF n <= 5 THEN n + 1 ELSE 6
        /\ n <= 6 /\ sessions' \in Seq({0, 3, 30})
        /\ sessions'[m] = x
        /\ \A j \in 1 .. m - 1 : sessions'[m - j] = sessions[n + 1 - j]
  BY FromTheEnd
<1>2. ASSUME NEW k \in 0 .. 4, Ends(k), x = Gesture[k + 1] PROVE Ends(k + 1)'
  <2>1. m >= k + 1 BY <1>1, <1>2 DEF Ends
  <2>2. ASSUME NEW i \in 1 .. k + 1 PROVE sessions'[m - (k + 1) + i] = Gesture[i]
    <3>1. CASE i = k + 1
      <4>1. m - (k + 1) + i = m BY <3>1
      <4> QED BY <3>1, <4>1, <1>1, <1>2
    <3>2. CASE i # k + 1
      <4>1. i \in 1 .. k /\ (k + 1) - i \in 1 .. m - 1 BY <3>2, <2>1
      <4>2. sessions'[m - ((k + 1) - i)] = sessions[n + 1 - ((k + 1) - i)] BY <4>1, <1>1
      <4>3. n + 1 - ((k + 1) - i) = n - k + i /\ m - ((k + 1) - i) = m - (k + 1) + i
        OBVIOUS
      <4> QED BY <4>1, <4>2, <4>3, <1>1, <1>2 DEF Ends
    <3> QED BY <3>1, <3>2
  <2> QED BY <1>1, <2>1, <2>2 DEF Ends
<1>3. sessions' \in Seq({0, 3, 30}) /\ Len(sessions') <= 6
  <2>1. m <= 6
    <3>1. m = IF n <= 5 THEN n + 1 ELSE 6 BY <1>1, Zenon
    <3> QED BY <3>1
  <2>2. m = Len(sessions') /\ sessions' \in Seq({0, 3, 30}) BY <1>1, Zenon
  <2> QED BY <2>1, <2>2
<1> QED BY <1>2, <1>3

\* What the bytes vouch for does not change while they do not.
LEMMA SameSessions ==
  ASSUME sessions' = sessions
  PROVE  \A k : Ends(k)' <=> Ends(k)
BY DEF Ends

\* The session that ends has lasted as long as its byte says.
LEMMA SessionEnds ==
  ASSUME IInv, GInv, pc = "run", log' = log,
         sessions' = LastSix(Append(sessions, Lived))
  PROVE  /\ sessions' \in Seq({0, 3, 30}) /\ Len(sessions') <= 6
         /\ \A b \in Bytes : First(b) => Ends(Before(log[b]))'
<1> USE ResetAssumption DEF GInv, RamType
<1>1. Lived \in {0, 3, 30} BY DEF Lived
<1>2. /\ sessions' \in Seq({0, 3, 30}) /\ Len(sessions') <= 6
      /\ \A k \in 0 .. 4 : Ends(k) /\ Lived = Gesture[k + 1] => Ends(k + 1)'
  BY <1>1, OneMore
<1>3. Ends(0)' BY <1>2 DEF Ends
<1>4. idx \in Bytes /\ log[idx] \in 1 .. 8 BY DEF IInv, Types, ScanInv, InSession, Bytes
<1>5. ASSUME NEW b \in Bytes, First(b) PROVE Ends(Before(log[b]))'
  <2>1. CASE b # idx
    <3>1. b > idx \/ log[b] = RecountFlag
      BY <2>1, <1>4 DEF IInv, Types, ScanInv, Bytes
    <3>2. log[b] \in {0, 8} BY <3>1 DEF InSession, RecountFlag
    <3>3. Before(log'[b]) = 0 BY <3>2 DEF Before
    <3> QED BY <3>3, <1>3
  <2>2. CASE b = idx /\ log[idx] \in {4, 6, 8}
    <3>1. Before(log'[b]) = 0 BY <2>2 DEF Before
    <3> QED BY <3>1, <1>3
  <2>3. CASE b = idx /\ log[idx] \in {1, 2, 3}
    <3> PICK k \in 0 .. 2 : k = log[idx] - 1 BY <2>3
    <3>1. Lived = 0 /\ Ends(k)
      <4>1. Short /\ clear_st \in {1, 2, 3} BY <2>3 DEF InSession, RecountFlag
      <4>2. Lived = 0 BY <4>1 DEF Short, Lived, CheckIsDue
      <4>3. During(log[idx]) = k BY <2>3 DEF During
      <4> QED BY <4>2, <4>3 DEF InSession
    <3>2. Gesture[k + 1] = 0
      <4>1. k = 0 \/ k = 1 \/ k = 2 OBVIOUS
      <4> QED BY <4>1 DEF Gesture
    <3>3. Ends(k + 1)' BY <1>2, <3>1, <3>2
    <3>4. Before(log'[b]) = k + 1 BY <2>3 DEF Before
    <3> QED BY <3>3, <3>4, <2>3
  <2>4. CASE b = idx /\ log[idx] \in {5, 7}
    <3> PICK k \in 3 .. 4 : k = IF log[idx] = 5 THEN 3 ELSE 4 OBVIOUS
    <3>1. Lived = 3 /\ Ends(k)
      <4>1. Counted BY <2>4 DEF InSession
      <4>2. Lived = 3 BY <4>1 DEF Counted, Lived, CheckIsDue
      <4>3. During(log[idx]) = k BY <2>4 DEF During
      <4> QED BY <4>2, <4>3 DEF InSession
    <3>2. Gesture[k + 1] = 3
      <4>1. k = 3 \/ k = 4 OBVIOUS
      <4> QED BY <4>1 DEF Gesture
    <3>3. Ends(k + 1)' BY <1>2, <3>1, <3>2
    <3>4. Before(log'[b]) = k + 1 BY <2>4 DEF Before
    <3> QED BY <3>3, <3>4, <2>4
  <2> QED BY <1>4, <2>1, <2>2, <2>3, <2>4
<1> QED BY <1>2, <1>5

LEMMA NextGInv == IInv /\ GInv /\ [Next]_vars => GInv'
<1> SUFFICES ASSUME IInv, GInv, [Next]_vars PROVE GInv'
  OBVIOUS
<1> USE ResetAssumption DEF GInv
<1>1. CASE Scan
  <2>1. idx \in Bytes BY <1>1 DEF Scan, IInv, Types, Bytes
  <2>2. /\ \A b \in Bytes : b <= idx => log'[b] = RecountFlag
        /\ \A b \in Bytes : b > idx => log'[b] = log[b]
    BY <1>1, <2>1, UseUp DEF Scan
  <2>3. RamType' BY <1>1 DEF Scan, ram, RamType
  <2>4. ASSUME NEW b \in Bytes, First(b)' PROVE Ends(Before(log[b]))'
    <3>1. CASE log[idx] = RecountFlag
      <4>1. log' = log
        BY <1>1, <2>1, <3>1 DEF Scan, UsedUp, IInv, Types
      <4>2. Ends(Before(log[b])) BY <1>1, <2>4, <4>1 DEF Scan, Vouches, First
      <4> QED BY <1>1, <4>1, <4>2, SameSessions DEF Scan
    <3>2. CASE log[idx] # RecountFlag
      <4>1. log[idx] # 0 BY <1>1, <3>2 DEF Scan, Invalid
      <4>2. log'[b] \in {0, 8}
        BY <2>1, <2>2, <3>2, <4>1 DEF IInv, OneCount, Bytes, RecountFlag
      <4>3. Before(log'[b]) = 0 BY <4>2 DEF Before
      <4> QED BY <4>3, <2>3 DEF Ends, RamType
    <3> QED BY <3>1, <3>2
  <2>5. Vouches' BY <2>4 DEF Vouches
  <2>6. InSession' /\ Booting' BY <1>1 DEF Scan, InSession, Booting, ram
  <2> QED BY <2>3, <2>5, <2>6
<1>2. CASE ScanEnd
  <2>1. RamType' BY <1>2 DEF ScanEnd, ram, RamType
  <2>2. Vouches' BY <1>2, SameSessions DEF ScanEnd, Vouches, First
  <2>3. InSession' /\ Booting' BY <1>2 DEF ScanEnd, InSession, Booting, ram
  <2> QED BY <2>1, <2>2, <2>3
<1>3. CASE Clean
  <2>1. RamType' BY <1>3 DEF Clean, ram, RamType
  <2>2. Vouches'
    <3>1. CASE NearEnd(idx)
      <4>1. \A b \in Bytes : Before(log'[b]) = 0 BY <1>3, <3>1 DEF Clean, Before
      <4> QED BY <2>1, <4>1 DEF Vouches, Ends, RamType
    <3>2. CASE ~NearEnd(idx)
      BY <1>3, <3>2, SameSessions DEF Clean, Vouches, First
    <3> QED BY <3>1, <3>2
  <2>3. InSession' /\ Booting'
    BY <1>3 DEF Clean, InSession, Booting, ram, Invalid, Bytes
  <2> QED BY <2>1, <2>2, <2>3
<1>4. CASE Count
  <2> DEFINE n == log[idx]
  <2>1. idx \in Bytes /\ n \in {0, 1, 2, 3, 5} /\ First(idx)
    <3>1. idx \in Bytes /\ idx < Size BY <1>4 DEF Count, IInv, Types, ScanInv, Bytes
    <3>2. n # RecountFlag /\ ~Invalid(n) BY <1>4, <3>1 DEF Count, Booting, IInv, ScanInv
    <3>3. n \in 0 .. 8 /\ n # ResetFlag BY <1>4, <3>1 DEF Count, IInv, Types
    <3> QED BY <3>1, <3>2, <3>3 DEF RecountFlag, ResetFlag, Invalid, First, IInv, ScanInv
  <2>2. /\ log'[idx] = n + 1 /\ reset_cnt' = Place(n)
        /\ \A b \in Bytes : b # idx => log'[b] = log[b]
    BY <1>4, <2>1 DEF Count, IncreaseResetCnt, IInv, Types
  <2>3. clear_st' = 3 /\ time' = 0 /\ pc' = "run" BY <1>4 DEF Count, Booting
  <2>4. RamType' BY <1>4, <2>1, <2>2 DEF Count, RamType, Place
  <2>5. Ends(During(log[idx]))'
    <3>1. Ends(Before(n)) BY <1>4, <2>1 DEF Count, Vouches
    <3>2. Before(n) = During(n + 1) BY <2>1 DEF Before, During
    <3> QED BY <1>4, <2>2, <3>1, <3>2, SameSessions DEF Count
  <2>6. \A b \in Bytes : b > idx => log'[b] = 0
    BY <2>1, <2>2 DEF IInv, OneCount, RecountFlag, Bytes
  <2>7. InSession'
    <3>1. log'[idx'] = n + 1 /\ idx' = idx BY <1>4, <2>2 DEF Count
    <3>2. log'[idx'] \in {1, 2, 3} => Short'
      BY <2>1, <2>2, <2>3, <3>1 DEF Short, Place
    <3>3. log'[idx'] \in {4, 6} => Waiting'
      BY <2>1, <2>2, <2>3, <3>1 DEF Waiting, Place
    <3> QED BY <2>1, <2>3, <2>5, <2>6, <3>1, <3>2, <3>3 DEF InSession, RecountFlag
  <2> QED BY <2>3, <2>4, <2>7 DEF Vouches, Booting
<1>5. CASE StartReset
  <2>1. RamType' BY <1>5 DEF StartReset, ram, RamType
  <2>2. Vouches' BY <1>5, SameSessions DEF StartReset, Vouches, First
  <2>3. InSession' /\ Booting' BY <1>5 DEF StartReset, InSession, Booting
  <2> QED BY <2>1, <2>2, <2>3
<1>6. CASE EraseConfig
  <2>1. RamType' BY <1>6 DEF EraseConfig, ram, RamType
  <2>2. Vouches' BY <1>6, SameSessions DEF EraseConfig, Vouches, First
  <2>3. InSession' /\ Booting' BY <1>6 DEF EraseConfig, InSession, Booting
  <2> QED BY <2>1, <2>2, <2>3
<1>7. CASE EraseCounter
  <2>1. RamType' BY <1>7 DEF EraseCounter, Restart, RamType
  <2>2. \A b \in Bytes : Before(log'[b]) = 0 BY <1>7 DEF EraseCounter, Before
  <2>3. Vouches' BY <2>1, <2>2 DEF Vouches, Ends, RamType
  <2>4. InSession' /\ Booting' BY <1>7 DEF EraseCounter, Restart, InSession, Booting
  <2> QED BY <2>1, <2>3, <2>4
<1>8. CASE CheckStart
  <2> USE <1>8 DEF CheckStart
  <2>1. idx \in Bytes /\ log[idx] \in 1 .. 7
    BY DEF IInv, Types, ScanInv, InSession, RecountFlag, Bytes
  <2>2. deadline' = IF reset_cnt \in {3, 4} THEN 3 ELSE 0
    BY DEF From, Serials, RamType
  <2>3. RamType' BY <2>2 DEF RamType
  <2>4. InSession'
    <3>1. log[idx] \in {1, 2, 3} => Short' BY <2>2 DEF InSession, Short
    <3>2. log[idx] \in {4, 6} => Waiting' BY <2>2 DEF InSession, Waiting
    <3>3. log[idx] \notin {5, 7} BY DEF InSession, Counted
    <3> QED BY <2>1, <3>1, <3>2, <3>3, SameSessions DEF InSession, RecountFlag
  <2> QED BY <2>3, <2>4 DEF Vouches, Booting
<1>9. CASE CheckFrom
  <2> USE <1>9 DEF CheckFrom
  <2> DEFINE n == log[idx]
  <2>1. idx \in Bytes /\ n \in 1 .. 7
    BY DEF IInv, Types, ScanInv, InSession, RecountFlag, Bytes
  <2>2. deadline' = IF reset_cnt \in {3, 4} THEN 30 ELSE 3
    BY DEF Upto, Serials, RamType
  <2>3. n \notin {5, 7} BY DEF InSession, Counted
  <2>4. CASE n \in {1, 2, 3}
    <3>1. Short BY <2>4 DEF InSession
    <3>2. ~CountsTwice(reset_cnt) BY <2>4, <3>1 DEF Short, CountsTwice
    <3>3. log' = log /\ reset_cnt' = reset_cnt BY <3>2
    <3>4. Short' BY <2>2, <2>4, <3>1, <3>3 DEF Short
    <3>5. InSession' BY <2>4, <3>3, <3>4, SameSessions DEF InSession, RecountFlag
    <3>6. RamType' BY <2>2, <3>3 DEF RamType
    <3> QED BY <3>5, <3>6 DEF Vouches, Booting
  <2>5. CASE n \in {4, 6}
    <3>1. Waiting /\ time \in {3, 30} BY <2>5 DEF InSession, Waiting, RamType
    <3>2. CountsTwice(reset_cnt) BY <2>5, <3>1 DEF Waiting, CountsTwice
    <3>3. /\ log'[idx] = n + 1 /\ reset_cnt' = reset_cnt
          /\ \A b \in Bytes : b # idx => log'[b] = log[b]
      BY <2>1, <2>5, <3>1, <3>2 DEF Waiting, IncreaseResetCnt, Place, IInv, Types
    <3>4. Counted' BY <2>2, <2>5, <3>1, <3>3 DEF Waiting, Counted
    <3>5. Ends(During(log[idx]))'
      <4>1. During(n) = During(n + 1) BY <2>5 DEF During
      <4> QED BY <3>3, <4>1, SameSessions DEF InSession
    <3>6. \A b \in Bytes : b > idx => log'[b] = 0 BY <2>1, <3>3 DEF InSession, Bytes
    <3>7. InSession' BY <2>5, <3>3, <3>4, <3>5, <3>6 DEF InSession, RecountFlag
    <3>8. RamType' BY <2>2, <3>3 DEF RamType
    <3> QED BY <3>7, <3>8 DEF Vouches, Booting
  <2> QED BY <2>1, <2>3, <2>4, <2>5
<1>10. CASE CheckUpto
  <2> USE <1>10 DEF CheckUpto
  <2>1. idx \in Bytes BY DEF IInv, Types, ScanInv, Bytes
  <2>2. /\ \A b \in Bytes : b <= idx => log'[b] = RecountFlag
        /\ \A b \in Bytes : b > idx => log'[b] = log[b]
    BY <2>1, UseUp
  <2>3. RamType' BY DEF RamType
  <2>4. log'[idx] = 8 BY <2>1, <2>2 DEF RecountFlag, Bytes
  <2>5. Ends(During(log[idx]))'
    <3>1. During(log'[idx]) = 0 BY <2>4 DEF During
    <3> QED BY <2>3, <3>1 DEF Ends, RamType
  <2>6. InSession' BY <2>1, <2>2, <2>4, <2>5 DEF InSession, RecountFlag
  <2> QED BY <2>3, <2>6 DEF Vouches, Booting
<1>11. CASE Tick
  <2> USE <1>11 DEF Tick
  <2>1. RamType' BY DEF RamType
  <2>2. InSession'
    <3>1. Short => Short' BY DEF Short, CheckIsDue
    <3>2. Waiting => Waiting' BY DEF Waiting
    <3>3. Counted => Counted' BY DEF Counted
    <3> QED BY <3>1, <3>2, <3>3, SameSessions DEF InSession
  <2> QED BY <2>1, <2>2 DEF Vouches, Booting
<1>12. CASE AtRestore
  <2> USE <1>12 DEF AtRestore, ram
  <2>1. /\ sessions' \in Seq({0, 3, 30}) /\ Len(sessions') <= 6
        /\ \A b \in Bytes : First(b) => Ends(Before(log[b]))'
    BY SessionEnds
  <2>2. RamType' BY <2>1 DEF RamType
  <2>3. Vouches' BY <2>1 DEF Vouches, First
  <2> QED BY <2>2, <2>3 DEF InSession, Booting
<1>13. CASE PowerOff
  <2> USE <1>13 DEF PowerOff, Restart
  <2>1. RamType' /\ Vouches'
    <3>1. CASE pc = "run"
      <4>1. /\ sessions' \in Seq({0, 3, 30}) /\ Len(sessions') <= 6
            /\ \A b \in Bytes : First(b) => Ends(Before(log[b]))'
        BY <3>1, SessionEnds
      <4> QED BY <4>1 DEF RamType, Vouches, First
    <3>2. CASE pc # "run"
      <4>1. sessions' = sessions BY <3>2
      <4> QED BY <3>2, <4>1, SameSessions DEF RamType, Vouches, First
    <3> QED BY <3>1, <3>2
  <2> QED BY <2>1 DEF InSession, Booting
<1>14. CASE UNCHANGED vars
  <2> USE <1>14 DEF vars, ram
  <2>1. RamType' /\ Booting' BY DEF RamType, Booting
  <2>2. Vouches' BY SameSessions DEF Vouches, First
  <2>3. InSession' BY SameSessions DEF InSession, Short, Waiting, Counted
  <2> QED BY <2>1, <2>2, <2>3
<1> QED
  BY <1>1, <1>2, <1>3, <1>4, <1>5, <1>6, <1>7, <1>8, <1>9, <1>10, <1>11, <1>12,
     <1>13, <1>14 DEF Next

\* Every variable keeps its type: in particular the index never leaves the
\* sector while its byte is read or programmed, whatever the log holds.
THEOREM TypeCorrect == Spec => []TypeOK
<1>1. IInv /\ GInv => TypeOK
  <2> SUFFICES ASSUME IInv, GInv PROVE TypeOK
    OBVIOUS
  <2>1. pc \in {"handle", "run", "reset"} => idx \in Bytes
    BY ResetAssumption DEF IInv, Types, ScanInv, Bytes
  <2> QED BY <2>1 DEF IInv, GInv, Types, RamType, TypeOK
<1> QED BY <1>1, InitIInv, NextIInv, InitGInv, NextGInv, PTL DEF Spec

\* factory_reset_handle starts a reset only when the last five sessions were
\* those of the gesture, in its order, for every length of the log: the bits of
\* the byte never stand for sessions that were not, wherever the power fails.
THEOREM ResetOnlyByGesture == Spec => OnlyByGesture
<1> DEFINE Asked ==
      pc = "handle" /\ pc' = "reset" =>
        /\ Len(sessions) >= 5
        /\ SubSeq(sessions, Len(sessions) - 4, Len(sessions)) = Gesture
<1>1. IInv /\ GInv /\ [Next]_vars => [Asked]_vars
  <2> SUFFICES ASSUME IInv, GInv, Next, pc = "handle", pc' = "reset"
               PROVE  /\ Len(sessions) >= 5
                      /\ SubSeq(sessions, Len(sessions) - 4, Len(sessions)) = Gesture
    OBVIOUS
  <2>1. StartReset
    BY DEF Next, Scan, ScanEnd, Clean, Count, EraseConfig, EraseCounter, CheckStart,
       CheckFrom, CheckUpto, Tick, AtRestore, PowerOff, Restart
  <2>2. idx \in Bytes /\ First(idx) /\ log[idx] = 7
    BY <2>1, ResetAssumption DEF StartReset, ResetFlag, First, IInv, Types, ScanInv, Bytes
  <2>3. Ends(5)
    <3>1. Ends(Before(log[idx])) BY <2>2 DEF GInv, Vouches
    <3> QED BY <2>2, <3>1 DEF Before
  <2>4. PICK n \in Nat : n = Len(sessions) /\ n >= 5
    <3>1. sessions \in Seq({0, 3, 30}) BY DEF GInv, RamType
    <3>2. Len(sessions) \in Nat BY <3>1, LenProperties
    <3> QED BY <2>3, <3>2 DEF Ends
  <2>5. \A i \in 1 .. 5 : sessions[n - 5 + i] = Gesture[i] BY <2>3, <2>4 DEF Ends
  <2>6. SubSeq(sessions, n - 4, n) = Gesture
    <3> DEFINE t == SubSeq(sessions, n - 4, n)
    <3>1. \A i \in n - 4 .. n : sessions[i] \in {0, 3, 30}
      <4>1. sessions \in [1 .. n -> {0, 3, 30}]
        BY <2>4, LenProperties DEF GInv, RamType
      <4> QED BY <4>1, <2>4
    <3>2. /\ t \in Seq({0, 3, 30}) /\ Len(t) = 5
          /\ \A i \in 1 .. 5 : t[i] = sessions[n - 4 + i - 1]
      BY <2>4, <3>1, SubSeqProperties
    <3>3. \A i \in 1 .. 5 : t[i] = Gesture[i] BY <2>4, <2>5, <3>2
    <3>4. Gesture \in Seq({0, 3, 30}) /\ Len(Gesture) = 5 BY DEF Gesture
    <3> HIDE DEF t
    <3>5. t = Gesture BY <3>2, <3>3, <3>4, SeqEqual
    <3> QED BY <3>5 DEF t
  <2> QED BY <2>4, <2>6
<1> QED BY <1>1, InitIInv, NextIInv, InitGInv, NextGInv, PTL DEF Spec, OnlyByGesture

-----------------------------------------------------------------------------
\* Conversely: the sessions since the last long one are k, and so far they are
\* those of the gesture.
Since(k) ==
  /\ Len(sessions) >= k + 1 /\ sessions[Len(sessions) - k] = 30
  /\ Ends(k)

\* The bits that k sessions of the gesture clear.
Value(k) == CASE k = 4 -> 5 [] k = 5 -> 7 [] OTHER -> k

\* Between sessions, the byte that is being counted in shows them.
Shown ==
  pc # "run" =>
    \A b \in Bytes, k \in 0 .. 5 :
      First(b) /\ log[b] # RecountFlag /\ Since(k) => log[b] = Value(k)

\* In a session its place in the gesture is their number, and it is used up only
\* after the time of that place.
Placed ==
  pc = "run" =>
    /\ clear_st \in {0, 1} => deadline = Upto(reset_cnt)
    /\ clear_st = 0 => time >= deadline
    /\ log[idx] \in {4, 6} => time \in {0, 3}
    /\ \A k \in 0 .. 5 : Since(k) => k <= 4 /\ reset_cnt = k

\* Nothing is counted where Clean will erase.
Low == \A b \in Bytes : log[b] # 0 => b < CleanAt

PInv == Shown /\ Placed /\ Low

LEMMA OneFewer ==
  ASSUME RamType, NEW x \in {0, 3, 30}, sessions' = LastSix(Append(sessions, x)),
         NEW k \in 0 .. 5, Since(k)'
  PROVE  IF k = 0 THEN x = 30 ELSE Since(k - 1) /\ x = Gesture[k]
<1>1. PICK n, m \in Nat :
        /\ n = Len(sessions) /\ m = Len(sessions') /\ m = IF n <= 5 THEN n + 1 ELSE 6
        /\ n <= 6 /\ sessions' \in Seq({0, 3, 30})
        /\ sessions'[m] = x
        /\ \A j \in 1 .. m - 1 : sessions'[m - j] = sessions[n + 1 - j]
  BY FromTheEnd
<1>2. /\ m >= k + 1 /\ sessions'[m - k] = 30
      /\ \A i \in 1 .. k : sessions'[m - k + i] = Gesture[i]
  BY <1>1 DEF Since, Ends
<1>3. CASE k = 0 BY <1>1, <1>2, <1>3
<1>4. CASE k # 0
  <2>1. x = Gesture[k] BY <1>1, <1>2, <1>4
  <2>2. n >= k BY <1>1, <1>2
  <2>3. sessions[n - (k - 1)] = 30
    <3>1. k \in 1 .. m - 1 /\ n + 1 - k = n - (k - 1) BY <1>2, <1>4
    <3> QED BY <1>1, <1>2, <3>1
  <2>4. ASSUME NEW i \in 1 .. k - 1 PROVE sessions[n - (k - 1) + i] = Gesture[i]
    <3>1. k - i \in 1 .. m - 1 BY <1>2
    <3>2. sessions'[m - (k - i)] = sessions[n + 1 - (k - i)] BY <3>1, <1>1
    <3>3. m - (k - i) = m - k + i /\ n + 1 - (k - i) = n - (k - 1) + i OBVIOUS
    <3> QED BY <1>2, <3>2, <3>3
  <2> QED BY <1>1, <1>4, <2>1, <2>2, <2>3, <2>4 DEF Since, Ends
<1> QED BY <1>3, <1>4

LEMMA SameSince ==
  ASSUME sessions' = sessions
  PROVE  \A k : Since(k)' <=> Since(k)
BY DEF Since, Ends

LEMMA SessionShown ==
  ASSUME IInv, GInv, PInv, pc = "run", log' = log,
         sessions' = LastSix(Append(sessions, Lived)),
         NEW b \in Bytes, NEW k \in 0 .. 5,
         First(b), log[b] # RecountFlag, Since(k)'
  PROVE  log[b] = Value(k)
<1> USE ResetAssumption DEF GInv, RamType, PInv
<1> DEFINE v == log[idx]
<1>1. Lived \in {0, 3, 30} BY DEF Lived
<1>2. IF k = 0 THEN Lived = 30 ELSE Since(k - 1) /\ Lived = Gesture[k]
  BY <1>1, OneFewer
<1>3. idx \in Bytes /\ v \in 1 .. 8 BY DEF IInv, Types, ScanInv, InSession, Bytes
<1>4. v # RecountFlag => b = idx
  BY <1>3 DEF First, IInv, Types, ScanInv, Bytes
<1>5. v = RecountFlag => log[b] = 0
  BY <1>3 DEF IInv, Types, ScanInv, InSession, Bytes
<1>6. v \in {1, 2, 3} => Lived = 0 /\ reset_cnt = v - 1
  <2> SUFFICES ASSUME v \in {1, 2, 3} PROVE Lived = 0 /\ reset_cnt = v - 1
    OBVIOUS
  <2>1. Short /\ clear_st \in {1, 2, 3} BY DEF InSession, RecountFlag
  <2> QED BY <2>1 DEF Short, Lived, CheckIsDue
<1>7. v \in {5, 7} => Lived = 3 /\ reset_cnt = IF v = 5 THEN 3 ELSE 4
  <2> SUFFICES ASSUME v \in {5, 7} PROVE Lived = 3 /\ reset_cnt = IF v = 5 THEN 3 ELSE 4
    OBVIOUS
  <2>1. Counted BY DEF InSession
  <2> QED BY <2>1 DEF Counted, Lived, CheckIsDue
<1>8. v \in {4, 6} => Lived = 0 /\ reset_cnt = IF v = 4 THEN 3 ELSE 4
  <2> SUFFICES ASSUME v \in {4, 6} PROVE Lived = 0 /\ reset_cnt = IF v = 4 THEN 3 ELSE 4
    OBVIOUS
  <2>1. Waiting /\ time \in {0, 3} BY DEF InSession, Placed
  <2> QED BY <2>1 DEF Waiting, Lived, CheckIsDue
<1>9. v = 8 => Lived = time /\ time >= Upto(reset_cnt)
  <2> SUFFICES ASSUME v = 8 PROVE Lived = time /\ time >= Upto(reset_cnt)
    OBVIOUS
  <2>1. clear_st = 0 BY DEF InSession, RecountFlag
  <2> QED BY <2>1 DEF Placed, Lived, CheckIsDue
<1>10. CASE k = 0
  <2>1. v = 8 BY <1>2, <1>3, <1>6, <1>7, <1>8, <1>10
  <2> QED BY <1>5, <1>10, <2>1 DEF Value, RecountFlag
<1>11. CASE k # 0
  <2>1. k - 1 \in 0 .. 4 /\ reset_cnt = k - 1 /\ Lived = Gesture[k]
    BY <1>2, <1>11 DEF Placed
  <2>2. /\ k \in {1, 2, 3} => Gesture[k] = 0
        /\ k \in {4, 5} => Gesture[k] = 3
    BY DEF Gesture
  <2>3. Upto(reset_cnt) = IF k \in {4, 5} THEN 30 ELSE 3
    BY <2>1 DEF Upto, Serials
  <2>4. v # 8 BY <1>9, <1>11, <2>1, <2>2, <2>3
  <2>5. v = Value(k)
    BY <1>3, <1>6, <1>7, <1>8, <1>11, <2>1, <2>2, <2>4 DEF Value
  <2> QED BY <1>4, <2>4, <2>5 DEF RecountFlag
<1> QED BY <1>10, <1>11

LEMMA InitPInv == Init => PInv
<1> SUFFICES ASSUME Init PROVE PInv
  OBVIOUS
<1> USE ResetAssumption DEF Init, Bytes
<1>1. \A k \in 0 .. 5 : ~Since(k) BY DEF Since
<1>2. Shown BY <1>1 DEF Shown
<1> QED BY <1>2 DEF PInv, Placed, Low

LEMMA NextPInv == IInv /\ GInv /\ PInv /\ [Next]_vars => PInv'
<1> SUFFICES ASSUME IInv, GInv, PInv, [Next]_vars PROVE PInv'
  OBVIOUS
<1> USE ResetAssumption DEF PInv
<1>1. CASE Scan
  <2>1. idx \in Bytes BY <1>1 DEF Scan, IInv, Types, Bytes
  <2>2. /\ \A b \in Bytes : b <= idx => log'[b] = RecountFlag
        /\ \A b \in Bytes : b > idx => log'[b] = log[b]
    BY <1>1, <2>1, UseUp DEF Scan
  <2>3. ASSUME NEW b \in Bytes, NEW k \in 0 .. 5, First(b)',
               log'[b] # RecountFlag, Since(k)'
        PROVE  log'[b] = Value(k)
    <3>1. Since(k) BY <1>1, <2>3, SameSince DEF Scan
    <3>2. CASE log[idx] = RecountFlag
      <4>1. log' = log BY <1>1, <2>1, <3>2 DEF Scan, UsedUp, IInv, Types
      <4> QED BY <1>1, <2>3, <3>1, <4>1 DEF Scan, Shown, First
    \* An invalid byte is none that a gesture since a long session has left.
    <3>3. CASE Invalid(log[idx])
      <4>1. First(idx) BY <1>1, <2>1 DEF Scan, First, IInv, ScanInv
      <4>2. log[idx] = Value(k)
        BY <1>1, <2>1, <3>1, <3>3, <4>1 DEF Scan, Shown, Invalid, RecountFlag
      <4> QED BY <3>3, <4>2 DEF Invalid, Value
    <3> QED BY <1>1, <3>2, <3>3 DEF Scan
  <2>4. Shown' BY <2>3 DEF Shown
  <2>5. Low'
    <3> SUFFICES ASSUME NEW b \in Bytes, log'[b] # 0 PROVE b < CleanAt
      BY DEF Low
    <3>1. log[idx] # 0 BY <1>1 DEF Scan, RecountFlag, Invalid
    <3>2. CASE b <= idx BY <2>1, <3>1, <3>2 DEF Low, Bytes
    <3>3. CASE b > idx BY <2>2, <3>3 DEF Low
    <3> QED BY <2>1, <3>2, <3>3 DEF Bytes
  <2> QED BY <1>1, <2>4, <2>5 DEF Scan, Placed
<1>2. CASE ScanEnd
  <2>1. Shown' BY <1>2, SameSince DEF ScanEnd, Shown, First
  <2> QED BY <1>2, <2>1 DEF ScanEnd, Placed, Low
<1>3. CASE Clean
  <2>1. CASE NearEnd(idx)
    \* What is erased is used up.
    <3>1. \A b \in Bytes : b < CleanAt => log[b] = RecountFlag
      BY <2>1 DEF NearEnd, IInv, Types, ScanInv, Bytes
    <3>2. ASSUME NEW k \in 0 .. 5, Since(k), NEW b \in Bytes, First(b)'
          PROVE  log'[b] = Value(k)
      <4>0. log'[b] = 0 BY <1>3, <2>1 DEF Clean
      <4>1. CleanAt \in Bytes /\ log[CleanAt] = 0
        BY DEF Low, Bytes, IInv, Types
      <4>2. First(CleanAt) BY <3>1 DEF First
      <4>3. log[CleanAt] = Value(k)
        BY <1>3, <3>2, <4>1, <4>2 DEF Clean, Shown, RecountFlag
      <4> QED BY <4>0, <4>1, <4>3
    <3>3. Shown' BY <1>3, <3>2, SameSince DEF Clean, Shown
    <3> QED BY <1>3, <2>1, <3>3 DEF Clean, Placed, Low
  <2>2. CASE ~NearEnd(idx)
    <3>1. Shown' BY <1>3, <2>2, SameSince DEF Clean, Shown, First
    <3> QED BY <1>3, <2>2, <3>1 DEF Clean, Placed, Low
  <2> QED BY <2>1, <2>2
<1>4. CASE Count
  <2> DEFINE n == log[idx]
  <2>1. idx \in Bytes /\ idx < CleanAt /\ n \in {0, 1, 2, 3, 5} /\ First(idx)
    <3>1. idx \in Bytes /\ idx < Size /\ idx < CleanAt
      BY <1>4 DEF Count, IInv, Types, ScanInv, Bytes
    <3>2. n # RecountFlag /\ ~Invalid(n)
      BY <1>4, <3>1 DEF Count, GInv, Booting, IInv, ScanInv
    <3>3. n \in 0 .. 8 /\ n # ResetFlag BY <1>4, <3>1 DEF Count, IInv, Types
    <3> QED BY <3>1, <3>2, <3>3 DEF RecountFlag, ResetFlag, Invalid, First, IInv, ScanInv
  <2>2. /\ log'[idx] = n + 1 /\ reset_cnt' = Place(n)
        /\ \A b \in Bytes : b # idx => log'[b] = log[b]
    BY <1>4, <2>1 DEF Count, IncreaseResetCnt, IInv, Types
  <2>3. clear_st' = 3 /\ time' = 0 /\ pc' = "run" /\ idx' = idx
    BY <1>4 DEF Count, GInv, Booting
  <2>4. ASSUME NEW k \in 0 .. 5, Since(k)' PROVE k <= 4 /\ reset_cnt' = k
    <3>1. n = Value(k)
      BY <1>4, <2>1, <2>4, SameSince DEF Count, Shown, RecountFlag
    <3> QED BY <2>1, <2>2, <3>1 DEF Value, Place
  <2>5. Placed' BY <2>3, <2>4 DEF Placed
  <2>6. Low' BY <2>1, <2>2 DEF Low
  <2> QED BY <2>3, <2>5, <2>6 DEF Shown
<1>5. CASE StartReset
  <2>1. Shown' BY <1>5, SameSince DEF StartReset, Shown, First
  <2> QED BY <1>5, <2>1 DEF StartReset, Placed, Low
<1>6. CASE EraseConfig
  <2>1. Shown' BY <1>6, SameSince DEF EraseConfig, Shown, First
  <2> QED BY <1>6, <2>1 DEF EraseConfig, Placed, Low
<1>7. CASE EraseCounter
  <2>1. \A k \in 0 .. 5 : ~Since(k)' BY <1>7 DEF EraseCounter, Since
  <2> QED BY <1>7, <2>1 DEF EraseCounter, Restart, Shown, Placed, Low
<1>8. CASE CheckStart
  <2>1. Placed' BY <1>8, SameSince DEF CheckStart, Placed
  <2> QED BY <1>8, <2>1 DEF CheckStart, Shown, Low
<1>9. CASE CheckFrom
  <2> USE <1>9 DEF CheckFrom
  <2>1. idx \in Bytes /\ idx < CleanAt /\ log[idx] \in 1 .. 6 /\ log[idx] # 5
    <3>1. idx \in Bytes /\ idx < CleanAt /\ log[idx] \in 1 .. 7
      BY DEF IInv, Types, ScanInv, GInv, InSession, RecountFlag, Bytes
    <3>2. log[idx] \notin {5, 7} BY DEF GInv, InSession, Counted
    <3> QED BY <3>1, <3>2
  <2>2. CASE log[idx] \in {1, 2, 3}
    <3>1. ~CountsTwice(reset_cnt)
      BY <2>2 DEF GInv, InSession, Short, CountsTwice
    <3>2. log' = log /\ reset_cnt' = reset_cnt BY <3>1
    <3>3. Placed' BY <2>2, <3>2, SameSince DEF Placed
    <3> QED BY <3>2, <3>3 DEF Shown, Low
  <2>3. CASE log[idx] \in {4, 6}
    <3>1. Waiting BY <2>3 DEF GInv, InSession
    <3>2. CountsTwice(reset_cnt) BY <2>3, <3>1 DEF Waiting, CountsTwice
    <3>3. /\ log'[idx] = log[idx] + 1 /\ reset_cnt' = reset_cnt
          /\ \A b \in Bytes : b # idx => log'[b] = log[b]
      BY <2>1, <2>3, <3>1, <3>2 DEF Waiting, IncreaseResetCnt, Place, IInv, Types
    <3>4. Placed' BY <2>3, <3>3, SameSince DEF Placed
    <3>5. Low' BY <2>1, <3>3 DEF Low
    <3> QED BY <3>4, <3>5 DEF Shown
  <2> QED BY <2>1, <2>2, <2>3
<1>10. CASE CheckUpto
  <2> USE <1>10 DEF CheckUpto
  <2>1. idx \in Bytes /\ idx < CleanAt BY DEF IInv, Types, ScanInv, Bytes
  <2>2. /\ \A b \in Bytes : b <= idx => log'[b] = RecountFlag
        /\ \A b \in Bytes : b > idx => log'[b] = log[b]
    BY <2>1, UseUp
  <2>3. Placed' BY <2>1, <2>2, SameSince DEF Placed, RecountFlag, Bytes
  <2>4. Low' BY <2>1, <2>2 DEF Low, Bytes
  <2> QED BY <2>3, <2>4 DEF Shown
<1>11. CASE Tick
  <2> USE <1>11 DEF Tick
  <2>1. idx \in Bytes /\ log[idx] \in 1 .. 8
    BY DEF IInv, Types, ScanInv, GInv, InSession, Bytes
  <2>2. time' \in {3, 30} /\ time' >= time BY DEF GInv, RamType
  <2>3. log[idx] \in {4, 6} => time' = 3
    BY DEF GInv, RamType, InSession, Waiting, CheckIsDue
  <2>4. clear_st = 0 => time' >= deadline
    BY <2>2 DEF Placed, GInv, RamType
  <2>5. Placed' BY <2>3, <2>4, SameSince DEF Placed, Upto
  <2> QED BY <2>5 DEF Shown, Low
<1>12. CASE AtRestore
  <2> USE <1>12 DEF AtRestore, ram
  <2>1. Shown' BY SessionShown DEF Shown, First
  <2> QED BY <2>1 DEF Placed, Low
<1>13. CASE PowerOff
  <2> USE <1>13 DEF PowerOff, Restart
  <2>1. Shown'
    <3>1. CASE pc = "run" BY <3>1, SessionShown DEF Shown, First
    <3>2. CASE pc # "run"
      <4>1. sessions' = sessions BY <3>2
      <4> QED BY <3>2, <4>1, SameSince DEF Shown, First
    <3> QED BY <3>1, <3>2
  <2> QED BY <2>1 DEF Placed, Low
<1>14. CASE UNCHANGED vars
  <2> USE <1>14 DEF vars, ram
  <2>1. Shown' BY SameSince DEF Shown, First
  <2>2. Placed' BY SameSince DEF Placed, Upto
  <2> QED BY <2>1, <2>2 DEF Low
<1> QED
  BY <1>1, <1>2, <1>3, <1>4, <1>5, <1>6, <1>7, <1>8, <1>9, <1>10, <1>11, <1>12,
     <1>13, <1>14 DEF Next

\* The gesture always works: after a session of thirty seconds or more, which
\* ends every count, the five sessions of the gesture leave seven bits clear,
\* and factory_reset_handle does not let the module run without the reset.
THEOREM GestureAlwaysResets == Spec => GestureResets
<1> DEFINE Obeyed == pc = "handle" /\ sessions = << 30 >> \o Gesture => pc' # "run"
<1>1. IInv /\ GInv /\ PInv /\ [Next]_vars => [Obeyed]_vars
  <2> SUFFICES ASSUME IInv, GInv, PInv, Next, pc = "handle", pc' = "run",
                      sessions = << 30 >> \o Gesture
               PROVE  FALSE
    OBVIOUS
  <2>1. Count
    BY DEF Next, Scan, ScanEnd, Clean, StartReset, EraseConfig, EraseCounter,
       CheckStart, CheckFrom, CheckUpto, Tick, AtRestore, PowerOff, Restart
  <2>2. idx \in Bytes /\ First(idx) /\ log[idx] # RecountFlag
    BY ResetAssumption DEF First, IInv, Types, ScanInv, Bytes
  <2>3. Since(5)
    <3> DEFINE t == <<30>>  u == t \o Gesture
    <3>1. sessions = u OBVIOUS
    <3>2. /\ t \in Seq({0, 3, 30}) /\ Len(t) = 1 /\ t[1] = 30
          /\ Gesture \in Seq({0, 3, 30}) /\ Len(Gesture) = 5
      BY DEF Gesture
    <3> HIDE DEF t
    <3>3. Len(u) = 6 /\ \A i \in 1 .. 6 : u[i] = IF i <= 1 THEN t[i] ELSE Gesture[i - 1]
      <4> DEFINE S == {0, 3, 30}
      <4>1. t \in Seq(S) /\ Gesture \in Seq(S) BY <3>2
      <4> HIDE DEF S
      <4>2. /\ Len(u) = Len(t) + Len(Gesture)
            /\ \A i \in 1 .. Len(t) + Len(Gesture) :
                  u[i] = IF i <= Len(t) THEN t[i] ELSE Gesture[i - Len(t)]
        BY <4>1, ConcatProperties, Zenon
      <4> HIDE DEF u
      <4> QED BY <3>2, <4>2
    <3> HIDE DEF u
    <3>4. Len(sessions) = 6 /\ sessions[1] = 30 BY <3>1, <3>2, <3>3
    <3>5. \A i \in 1 .. 5 : sessions[1 + i] = Gesture[i] BY <3>1, <3>3
    <3> QED BY <3>4, <3>5 DEF Since, Ends
  <2>4. log[idx] = 7 BY <2>2, <2>3 DEF PInv, Shown, Value
  <2> QED BY <2>1, <2>4 DEF Count, ResetFlag
<1> QED
  BY <1>1, InitIInv, NextIInv, InitGInv, NextGInv, InitPInv, NextPInv, PTL
     DEF Spec, GestureResets
=============================================================================
