---------------------------- MODULE FactoryReset ----------------------------
(***************************************************************************)
(* Factory reset by switching the module on and off (factory_reset.c).     *)
(*                                                                         *)
(* The module counts power-ons in a flash byte: each clears the lowest bit *)
(* that is still 1.  A session that is too long for its place in the       *)
(* gesture clears the whole byte, which ends the count; the next one uses  *)
(* the next byte.  The fourth and the fifth power-on clear a second bit    *)
(* after three seconds; without it the byte is invalid.  With seven bits   *)
(* clear (RESET_FLAG) the next power-on erases the configuration, sector   *)
(* by sector, and the counter last.                                        *)
(*                                                                         *)
(* A byte is the number of its low bits that are 0: 0 is 0xff, 7 is        *)
(* RESET_FLAG, 8 is RESET_CNT_RECOUNT_FLAG.  Power fails between any two   *)
(* flash accesses; a software reboot is a power loss too.                  *)
(***************************************************************************)
EXTENDS Integers, Sequences

CONSTANTS Size,      \* bytes of the counter sector: 4096
          CleanAt,   \* the byte from which the sector is erased: 3840
          Config     \* the number of configuration sectors

ASSUME ResetAssumption ==
  /\ Size \in Nat /\ CleanAt \in 1 .. Size - 1
  /\ Config \in Nat \ {0}

VARIABLES
  log,        \* flash: the bytes of the counter sector
  pc,         \* what the module is doing
  idx,        \* adr_reset_cnt_idx
  reset_cnt,  \* reset_cnt: place of this session in the gesture
  clear_st,   \* clear_st of factory_reset_cnt_check
  deadline,   \* reset_check_time
  time,       \* seconds since power-on, when one of them matters
  erased,     \* the loop of factory_reset: configuration sectors erased
  ordered,    \* history: sectors erased by order of the counter, in a reset not completed
  sessions    \* history: how long the last six sessions lasted

ram == <<reset_cnt, clear_st, deadline, time>>
vars == <<log, pc, idx, ram, erased, ordered, sessions>>

Bytes == 0 .. Size - 1
RecountFlag == 8
ResetFlag == 7
\* Seeded fault: the test for the fourth and fifth power-on is missing.
NeverInvalid(b) == FALSE
\* The fourth, or the fifth, power-on has not lived for three seconds.
Invalid(b) == b \in {4, 6}

\* factory_reset_serials: seconds from and to which the power must stay on.
Serials == << <<0, 3>>, <<0, 3>>, <<0, 3>>, <<3, 30>>, <<3, 30>> >>
From(n) == Serials[n + 1][1]
Upto(n) == Serials[n + 1][2]

Init ==
  /\ log = [b \in Bytes |-> 0]
  /\ pc = "scan" /\ idx = 0
  /\ reset_cnt = 0 /\ clear_st = 3 /\ deadline = 0 /\ time = 0
  /\ erased = 0 /\ ordered = {} /\ sessions = <<>>

-----------------------------------------------------------------------------
\* factory_reset_handle at power-on.  reset_cnt_get_idx skips the bytes that
\* are used up, and uses up the invalid one.
\* Seeded fault: the invalid byte is only skipped.
Skipped == log
UsedUp == [log EXCEPT ![idx] = RecountFlag]
Scan ==
  /\ pc = "scan" /\ idx < Size
  /\ log[idx] = RecountFlag \/ Invalid(log[idx])
  /\ log' = UsedUp
  /\ idx' = idx + 1
  /\ UNCHANGED <<pc, ram, erased, ordered, sessions>>

ScanEnd ==
  /\ pc = "scan"
  /\ idx < Size => log[idx] # RecountFlag /\ ~Invalid(log[idx])
  /\ pc' = "clean"
  /\ UNCHANGED <<log, idx, ram, erased, ordered, sessions>>

\* Seeded fault: the sector is erased when there is no byte left in it.
NearEndLate(i) == i > Size
NearEnd(i) == i >= CleanAt
\* reset_cnt_clean
Clean ==
  /\ pc = "clean"
  /\ IF NearEnd(idx)
     THEN log' = [b \in Bytes |-> 0] /\ idx' = 0
     ELSE UNCHANGED <<log, idx>>
  /\ pc' = "handle"
  /\ UNCHANGED <<ram, erased, ordered, sessions>>

\* increase_reset_cnt: bit i, the lowest that is 1, becomes 0.
Place(i) == IF i < 3 THEN i ELSE IF i < 5 THEN 3 ELSE IF i < 7 THEN 4 ELSE reset_cnt
IncreaseResetCnt ==
  IF log[idx] < 8
  THEN /\ reset_cnt' = Place(log[idx])
       /\ log' = [log EXCEPT ![idx] = @ + 1]
  ELSE UNCHANGED <<reset_cnt, log>>

Count ==
  /\ pc = "handle" /\ log[idx] # ResetFlag
  /\ IncreaseResetCnt
  /\ pc' = "run"
  /\ UNCHANGED <<idx, clear_st, deadline, time, erased, ordered, sessions>>

StartReset ==
  /\ pc = "handle" /\ log[idx] = ResetFlag
  /\ pc' = "reset"
  /\ UNCHANGED <<log, idx, ram, erased, ordered, sessions>>

\* factory_reset erases the configuration ...
EraseConfig ==
  /\ pc = "reset" /\ erased < Config
  /\ erased' = erased + 1
  /\ ordered' = IF log[idx] = ResetFlag THEN ordered \cup {erased + 1} ELSE ordered
  /\ UNCHANGED <<log, pc, idx, ram, sessions>>

\* RAM after a reset.
Restart ==
  /\ pc' = "scan" /\ idx' = 0
  /\ reset_cnt' = 0 /\ clear_st' = 3 /\ deadline' = 0 /\ time' = 0
  /\ erased' = 0

\* Seeded fault: ... after the counter.
CounterIsDueFirst == TRUE
\* ... and then the counter, and reboots.
CounterIsDue == erased = Config
EraseCounter ==
  /\ pc = "reset" /\ CounterIsDue
  /\ log' = [b \in Bytes |-> 0]
  /\ ordered' = ordered \ (1 .. erased)
  /\ sessions' = <<>>
  /\ Restart

-----------------------------------------------------------------------------
\* factory_reset_cnt_check, in the main loop
CheckStart ==
  /\ pc = "run" /\ clear_st = 3
  /\ clear_st' = 2
  /\ deadline' = From(reset_cnt)
  /\ UNCHANGED <<log, pc, idx, reset_cnt, time, erased, ordered, sessions>>

\* Seeded fault: every power-on gets its second bit.
CountsTwiceAlways(n) == TRUE
CountsTwice(n) == n \in {3, 4}
CheckFrom ==
  /\ pc = "run" /\ clear_st = 2 /\ time >= deadline
  /\ clear_st' = 1
  /\ deadline' = Upto(reset_cnt)
  /\ IF CountsTwice(reset_cnt) THEN IncreaseResetCnt ELSE UNCHANGED <<reset_cnt, log>>
  /\ UNCHANGED <<pc, idx, time, erased, ordered, sessions>>

\* clear_reset_cnt
CheckUpto ==
  /\ pc = "run" /\ clear_st = 1 /\ time >= deadline
  /\ clear_st' = 0
  /\ log' = UsedUp
  /\ UNCHANGED <<pc, idx, reset_cnt, deadline, time, erased, ordered, sessions>>

\* The main loop has something to do at this time.
CheckIsDue == clear_st = 3 \/ (clear_st \in {1, 2} /\ time >= deadline)

\* Time passes; the main loop runs many times in three seconds.
Tick ==
  /\ pc = "run" /\ time < 30 /\ ~CheckIsDue
  /\ time' = IF time = 0 THEN 3 ELSE 30
  /\ UNCHANGED <<log, pc, idx, reset_cnt, clear_st, deadline, erased, ordered, sessions>>

-----------------------------------------------------------------------------
\* How long the main loop has run, in seconds.
Lived == IF ~CheckIsDue THEN time ELSE IF time = 30 THEN 3 ELSE 0
LastSix(s) == IF Len(s) <= 6 THEN s ELSE SubSeq(s, Len(s) - 5, Len(s))

\* atCmd_Restore calls factory_reset and reboots; it leaves no order to reset
\* in the log.
AtRestore ==
  /\ pc = "run" /\ pc' = "reset"
  /\ sessions' = LastSix(Append(sessions, Lived))
  /\ UNCHANGED <<log, idx, ram, erased, ordered>>

\* Power off, at any point, and on again.
PowerOff ==
  /\ sessions' = IF pc = "run" THEN LastSix(Append(sessions, Lived)) ELSE sessions
  /\ Restart
  /\ UNCHANGED <<log, ordered>>

Next ==
  \/ Scan \/ ScanEnd \/ Clean \/ Count
  \/ StartReset \/ EraseConfig \/ EraseCounter
  \/ CheckStart \/ CheckFrom \/ CheckUpto \/ Tick
  \/ AtRestore \/ PowerOff

Spec == Init /\ [][Next]_vars

-----------------------------------------------------------------------------
TypeOK ==
  /\ log \in [Bytes -> 0 .. 8]
  /\ pc \in {"scan", "clean", "handle", "run", "reset"}
  /\ idx \in 0 .. Size
  /\ pc \in {"handle", "run", "reset"} => idx \in Bytes
  /\ reset_cnt \in 0 .. 4 /\ clear_st \in 0 .. 3
  /\ deadline \in {0, 3, 30} /\ time \in {0, 3, 30}
  /\ erased \in 0 .. Config
  /\ ordered \subseteq 1 .. Config
  /\ sessions \in Seq({0, 3, 30}) /\ Len(sessions) <= 6

Gesture == <<0, 0, 0, 3, 3>>

\* Action property: the configuration is only erased after three sessions of
\* less than three seconds and two of three to thirty, with nothing between
\* them, wherever the power failed in between and whatever the log held.
OnlyByGesture ==
  [][pc = "handle" /\ pc' = "reset" =>
       /\ Len(sessions) >= 5
       /\ SubSeq(sessions, Len(sessions) - 4, Len(sessions)) = Gesture]_vars

\* Action property: after a long session, which ends every count, the gesture
\* resets the module at the next power-on.
GestureResets ==
  [][pc = "handle" /\ sessions = <<30>> \o Gesture => pc' # "run"]_vars

\* Safety: the module never runs with a part of its configuration erased by the
\* gesture: when power fails during the reset, the next power-on does it again,
\* because factory_reset erases the counter last, and neither AT+RESTORE nor the
\* wrap-around of the log loses the order.
ResetIsComplete == pc = "run" => ordered = {}

\* Safety: at most one byte of the log is being counted in, the first that is
\* not used up, and the ones behind it are erased.
OneCount ==
  \A b, c \in Bytes : b < c /\ log[c] # 0 => log[b] = RecountFlag
=============================================================================
