----------------------------- MODULE TinyFlash -----------------------------
(***************************************************************************)
(* The flash key-value store of src/SDK1O/tinyFlash/tinyFlash.c.           *)
(*                                                                         *)
(* Two flash sectors take turns.  A sector is a 32-byte header, whose      *)
(* first byte is 0xAA once tinyFlash_Swap has made the sector the current  *)
(* one, and a log of records <Key, ~Key, Len, data>.  A deleted record has *)
(* its ~Key byte programmed to 0.  The three operations scan the log with  *)
(* an address; the model takes one step per iteration of a scan loop, so   *)
(* that a power loss can fall between any two flash accesses.              *)
(*                                                                         *)
(* A sector is a function from byte addresses (0 is the first byte after   *)
(* the header) to the record that starts there.  Addresses, record sizes   *)
(* and the loops' bounds are the code's; the bytes of a value are not      *)
(* represented.  flash_write programs a record that goes on beyond the end *)
(* of a flash page in two calls, and a power loss between them leaves a    *)
(* beginning of the record: erased flash is 0xFF, so a record without its  *)
(* Len byte reads as one with 255 bytes of data.                           *)
(***************************************************************************)
EXTENDS Integers

CONSTANTS Keys,         \* keys in use, 0x01 - 0xFE in the code
          Vals,         \* values stored
          ValLen,       \* their length in bytes
          Cap,          \* bytes of a sector after its header: 4096 - 32
          PageStarts,   \* addresses where a flash page begins: 224, 480, ...
          BlankLen,     \* the length an erased Len byte reads as: 255
          NoRec,        \* erased flash: no record starts here
          NoVal,        \* the -1 of tinyFlash_Read
          Damaged       \* read from a record that was not written to its end

Hdr == 3                               \* <Key, ~Key, Len>
Sectors == {1, 2}
Other(s) == 3 - s
Addr == 0 .. Cap - 1
\* How much of it has been written: <Key>, <Key, ~Key>, more, or all of it.
Parts == {"key", "head", "data", "whole"}
Record == [key : Keys, live : BOOLEAN, val : Vals, part : Parts]
Results == Vals \cup {NoVal, Damaged, "ok", "full", "none"}

ASSUME TinyAssumption ==
  /\ Cap \in Nat
  /\ ValLen \in [Vals -> Nat]
  /\ BlankLen \in Nat
  /\ \A v \in Vals : ValLen[v] <= Cap - Hdr /\ ValLen[v] <= BlankLen
  /\ PageStarts \subseteq Nat
  /\ NoRec \notin Record
  /\ NoVal # Damaged /\ {NoVal, Damaged} \cap (Vals \cup {"ok", "full", "none"}) = {}
  /\ Vals \cap {"ok", "full", "none"} = {}

VARIABLES
  mark,    \* flash: mark[s], byte 0 of sector s is 0xAA
  rec,     \* flash: rec[s][a], the record that starts at address a of s
  used,    \* RAM: tinyFlash_Used_Addr; tinyFlash_Swap_Addr is Other(used)
  pc,      \* the loop being executed
  key,     \* argument KEY of the running call
  val,     \* argument buf, len of the running call
  addr,    \* _addr_start
  dst,     \* _new_addr_start, in Swap
  dirty,   \* dirty_data_len > 0, in Write
  result,  \* the last return value, "none" while a call is executed
  tainted  \* history: some Swap has copied into a sector that was not erased,
           \* or beyond the end of one

flash == <<mark, rec>>
args  == <<key, val>>
vars  == <<mark, rec, used, pc, key, val, addr, dst, dirty, result, tainted>>

PCs == {"idle", "read", "delete", "discard", "scan", "append",
        "swap", "copy", "mark", "erase", "undefined"}

Erased == [a \in Addr |-> NoRec]
Spare == Other(used)
IsRec(s, a) == a \in Addr /\ rec[s][a] # NoRec
HeadTorn(r) == r.part \in {"key", "head"}
\* The length of a record by its Len byte, and how far it may be programmed.
Size(r) == Hdr + IF HeadTorn(r) THEN BlankLen ELSE ValLen[r.val]
Extent(r) == IF HeadTorn(r) THEN Hdr ELSE Size(r)
\* What tinyFlash_Read copies out of it.
Value(r) == IF r.part = "whole" THEN r.val ELSE Damaged

\* flash_write: where the first of the two calls ends, and what it leaves.
Cuts(a, r) == {n \in 1 .. Size(r) - 1 : a + n \in PageStarts}
NoData == CHOOSE v \in Vals : TRUE
Prefix(r, n) ==
  [key  |-> r.key,
   live |-> n > 1,
   val  |-> IF n < Hdr THEN NoData ELSE r.val,
   part |-> IF n = 1 \/ r.part = "key" THEN "key"
            ELSE IF n = 2 \/ r.part = "head" THEN "head" ELSE "data"]

\* Flash is programmed without being erased first: bits only go from 1 to 0,
\* so writing a record over its own beginning completes it, and writing it over
\* anything else gives neither of the two.
Begins(o, r) ==
  /\ o.key = r.key
  /\ \/ o.part = "key" /\ r.part # "key"
     \/ o.live /\ o.part = "head" /\ r.part \in {"data", "whole"}
     \/ o.live /\ o.part = "data" /\ r.part = "whole" /\ o.val = r.val
Longer(o, r) == IF o = NoRec \/ Begins(o, r) THEN r ELSE o
Last(s, a) == \A b \in Addr : b > a => ~IsRec(s, b)
Overlaps(s, a, r) ==
  \E b \in Addr :
    /\ IsRec(s, b)
    /\ b < a + Size(r) /\ a < b + Size(rec[s][b])
Programmable(s, a, r) ==
  /\ a + Size(r) <= Cap
  /\ \/ ~Overlaps(s, a, r)
     \/ IsRec(s, a) /\ rec[s][a] = r
     \/ IsRec(s, a) /\ Begins(rec[s][a], r) /\ Last(s, a)

\* The scan of sector s has come to the end of the log.
AtEnd(s) == addr > Cap - Hdr \/ ~IsRec(s, addr)
Here == rec[used][addr]
Skip == addr' = addr + Size(Here)
Program(s, a, r) == rec' = [rec EXCEPT ![s][a] = r]

-----------------------------------------------------------------------------
\* tinyFlash_Init: sector 1 is the current one unless its byte 0 is 0xFF.
InitSector(m) == IF m[1] THEN 1 ELSE 2
BootSector == InitSector(mark)

Init ==
  /\ mark = [s \in Sectors |-> FALSE]
  /\ rec = [s \in Sectors |-> Erased]
  /\ used = BootSector
  /\ pc = "idle"
  /\ key \in Keys /\ val \in Vals
  /\ addr = 0 /\ dst = 0 /\ dirty = FALSE
  /\ result = "none"
  /\ tainted = FALSE

\* The locals of the call die with it.
Return(r) ==
  /\ pc' = "idle"
  /\ result' = r
  /\ addr' = 0 /\ dst' = 0 /\ dirty' = FALSE

\* tinyFlash_Read(KEY, buf, len), tinyFlash_Read(KEY, NULL, NULL) and
\* tinyFlash_Write(KEY, buf, len), which starts with the second.
Call(loop) ==
  /\ pc = "idle"
  /\ pc' = loop
  /\ key' \in Keys
  /\ IF loop = "discard" THEN val' \in Vals ELSE val' = val
  /\ addr' = 0
  /\ result' = "none"
  /\ UNCHANGED <<flash, used, dst, dirty, tainted>>

CallRead   == Call("read")
CallDelete == Call("delete")
CallWrite  == Call("discard")

\* The while loop of tinyFlash_Read, for its three kinds of caller.
Reading == pc \in {"read", "delete", "discard"}
\* Seeded fault: Read does not look at the ~Key byte.
FoundDeleted == ~AtEnd(used) /\ Here.key = key
Found == ~AtEnd(used) /\ Here.key = key /\ Here.live

ReadSkip ==
  /\ Reading
  /\ ~AtEnd(used) /\ ~Found
  /\ Skip
  /\ UNCHANGED <<flash, used, pc, args, dst, dirty, result, tainted>>

ReadReturn ==
  /\ pc = "read"
  /\ AtEnd(used) \/ Found
  /\ Return(IF Found THEN Value(Here) ELSE NoVal)
  /\ UNCHANGED <<flash, used, args, tainted>>

Invalidate == Program(used, addr, [Here EXCEPT !.live = FALSE])

DeleteReturn ==
  /\ pc = "delete"
  /\ \/ Found /\ Invalidate /\ Return("ok")
     \/ AtEnd(used) /\ Return(NoVal) /\ UNCHANGED rec
  /\ UNCHANGED <<mark, used, args, tainted>>

\* Seeded fault: Write does not delete the old record.
NotDiscarded ==
  /\ pc = "discard"
  /\ pc' = "scan"
  /\ addr' = 0
  /\ dirty' = FALSE
  /\ UNCHANGED <<flash, used, args, dst, result, tainted>>

\* tinyFlash_Write has dropped the old value and starts to look for room.
Discarded ==
  /\ pc = "discard"
  /\ \/ Found /\ Invalidate
     \/ AtEnd(used) /\ UNCHANGED rec
  /\ pc' = "scan"
  /\ addr' = 0
  /\ dirty' = FALSE
  /\ UNCHANGED <<mark, used, args, dst, result, tainted>>

-----------------------------------------------------------------------------
\* The while loop of tinyFlash_Write.
\* Seeded fault: Write only leaves room for the header, as Read does.
NoRoomForHeader == addr > Cap - Hdr
\* Seeded fault: Write only looks whether it has left the sector.
NoRoomAtAll == addr >= Cap
NoRoom == addr > Cap - Hdr - ValLen[val]
NewRec == [key |-> key, live |-> TRUE, val |-> val, part |-> "whole"]

\* A record is in the way.  It counts as dirty unless its ~Key byte is the
\* complement of KEY, the key being written.
ScanSkip ==
  /\ pc = "scan" /\ ~NoRoom
  /\ IsRec(used, addr)
  /\ Skip
  /\ dirty' = (dirty \/ ~(Here.live /\ Here.key = key))
  /\ UNCHANGED <<flash, used, pc, args, dst, result, tainted>>

\* Free room: the record is written at once, or in two calls.
ScanAppend ==
  /\ pc = "scan" /\ ~NoRoom
  /\ ~IsRec(used, addr)
  /\ Cuts(addr, NewRec) = {}
  /\ Program(used, addr, NewRec)
  /\ Return("ok")
  /\ UNCHANGED <<mark, used, args, tainted>>

ScanAppendFirst ==
  /\ pc = "scan" /\ ~NoRoom
  /\ ~IsRec(used, addr)
  /\ \E n \in Cuts(addr, NewRec) : Program(used, addr, Prefix(NewRec, n))
  /\ pc' = "append"
  /\ UNCHANGED <<mark, used, args, addr, dst, dirty, result, tainted>>

ScanAppendRest ==
  /\ pc = "append"
  /\ Program(used, addr, NewRec)
  /\ Return("ok")
  /\ UNCHANGED <<mark, used, args, tainted>>

\* No room: clean up if something is dirty, otherwise give up with -1.
ScanNoRoom ==
  /\ pc = "scan" /\ NoRoom
  /\ IF dirty
     THEN /\ pc' = "swap"
          /\ addr' = 0 /\ dst' = 0
          /\ tainted' = (tainted \/ rec[Spare] # Erased \/ mark[Spare])
          /\ UNCHANGED <<dirty, result>>
     ELSE /\ Return("full")
          /\ UNCHANGED tainted
  /\ UNCHANGED <<flash, used, args>>

-----------------------------------------------------------------------------
\* tinyFlash_Swap: copy the valid records, mark the copy, erase the original.
SwapCopy ==
  /\ pc = "swap" /\ ~AtEnd(used)
  /\ Here.live
  /\ Programmable(Spare, dst, Here)
  /\ Cuts(dst, Here) = {}
  /\ Program(Spare, dst, Here)
  /\ dst' = dst + Size(Here)
  /\ Skip
  /\ UNCHANGED <<mark, used, pc, args, dirty, result, tainted>>

SwapCopyFirst ==
  /\ pc = "swap" /\ ~AtEnd(used)
  /\ Here.live
  /\ Programmable(Spare, dst, Here)
  /\ \E n \in Cuts(dst, Here) :
       Program(Spare, dst, Longer(rec[Spare][dst], Prefix(Here, n)))
  /\ pc' = "copy"
  /\ UNCHANGED <<mark, used, args, addr, dst, dirty, result, tainted>>

SwapCopyRest ==
  /\ pc = "copy"
  /\ Program(Spare, dst, Here)
  /\ pc' = "swap"
  /\ dst' = dst + Size(Here)
  /\ Skip
  /\ UNCHANGED <<mark, used, args, dirty, result, tainted>>

\* A record is programmed over other bytes, which an interrupted Swap has left,
\* or beyond the end of the sector.  The code goes on; what the mixture reads as
\* is not modelled, and no property says anything of what follows.
SwapClash ==
  /\ pc = "swap" /\ ~AtEnd(used)
  /\ Here.live
  /\ ~Programmable(Spare, dst, Here)
  /\ pc' = "undefined"
  /\ tainted' = TRUE
  /\ UNCHANGED <<flash, used, args, addr, dst, dirty, result>>

\* Seeded fault: the continue comes before the address is advanced.
SwapDropStuck ==
  /\ pc = "swap" /\ ~AtEnd(used)
  /\ ~Here.live
  /\ UNCHANGED vars

SwapDrop ==
  /\ pc = "swap" /\ ~AtEnd(used)
  /\ ~Here.live
  /\ Skip
  /\ UNCHANGED <<flash, used, pc, args, dst, dirty, result, tainted>>

\* Seeded fault: the original is erased before the copy is marked.
SwapCopiedErases ==
  /\ pc = "swap" /\ AtEnd(used)
  /\ rec' = [rec EXCEPT ![used] = Erased]
  /\ pc' = "mark"
  /\ UNCHANGED <<mark, used, args, addr, dst, dirty, result, tainted>>

SwapCopied ==
  /\ pc = "swap" /\ AtEnd(used)
  /\ pc' = "mark"
  /\ UNCHANGED <<flash, used, args, addr, dst, dirty, result, tainted>>

SwapMark ==
  /\ pc = "mark"
  /\ mark' = [mark EXCEPT ![Spare] = TRUE]
  /\ pc' = "erase"
  /\ addr' = 0 /\ dst' = 0
  /\ UNCHANGED <<rec, used, args, dirty, result, tainted>>

\* Erase the old sector, exchange the two, scan the new one from its start.
SwapErase ==
  /\ pc = "erase"
  /\ mark' = [mark EXCEPT ![used] = FALSE]
  /\ rec' = [rec EXCEPT ![used] = Erased]
  /\ used' = Spare
  /\ pc' = "scan"
  /\ addr' = 0
  /\ UNCHANGED <<args, dst, dirty, result, tainted>>

-----------------------------------------------------------------------------
\* tinyFlash_Format erases both sectors and leaves the RAM addresses alone.
Format ==
  /\ pc = "idle"
  /\ mark' = [s \in Sectors |-> FALSE]
  /\ rec' = [s \in Sectors |-> Erased]
  /\ tainted' = FALSE
  /\ UNCHANGED <<used, pc, args, addr, dst, dirty, result>>

\* Power loss at any point, then tinyFlash_Init.
PowerLoss ==
  /\ pc # "undefined"
  /\ used' = BootSector
  /\ pc' = "idle"
  /\ addr' = 0 /\ dst' = 0 /\ dirty' = FALSE
  /\ result' = "none"
  /\ UNCHANGED <<flash, args, tainted>>

Undefined == pc = "undefined" /\ UNCHANGED vars

Step ==
  \/ ReadSkip \/ ReadReturn \/ DeleteReturn \/ Discarded
  \/ ScanSkip \/ ScanAppend \/ ScanAppendFirst \/ ScanAppendRest \/ ScanNoRoom
  \/ SwapCopy \/ SwapCopyFirst \/ SwapCopyRest \/ SwapClash
  \/ SwapDrop \/ SwapCopied \/ SwapMark \/ SwapErase

Next ==
  \/ CallRead \/ CallDelete \/ CallWrite
  \/ Step
  \/ Format \/ PowerLoss \/ Undefined

Spec == Init /\ [][Next]_vars
-----------------------------------------------------------------------------
\* The type of every variable.  A scan leaves the sector only behind a record
\* whose Len byte was never written, and is then at its end; Swap never does.
TypeOK ==
  /\ mark \in [Sectors -> BOOLEAN]
  /\ rec \in [Sectors -> [Addr -> Record \cup {NoRec}]]
  /\ used \in Sectors
  /\ pc \in PCs
  /\ key \in Keys /\ val \in Vals
  /\ addr \in 0 .. Cap + BlankLen /\ dst \in 0 .. Cap
  /\ dirty \in BOOLEAN
  /\ result \in Results
  /\ tainted \in BOOLEAN

\* Address a is either the start of a record of sector s, or the end of its
\* log: nothing is stored at or after a.
OnChain(s, a) == IsRec(s, a) \/ \A b \in Addr : b >= a => ~IsRec(s, b)

\* The log of sector s is one chain: it starts at 0, every record ends where
\* the next one starts or where the log ends, and none is programmed beyond Cap.
Chain(s) ==
  /\ OnChain(s, 0)
  /\ \A a \in Addr : IsRec(s, a) =>
       LET next == a + Size(rec[s][a])
       IN  /\ a + Extent(rec[s][a]) <= Cap
           /\ OnChain(s, next)
           /\ \A b \in Addr : a < b /\ b < next => ~IsRec(s, b)

Live(s, k) == {a \in Addr : IsRec(s, a) /\ rec[s][a].live /\ rec[s][a].key = k}

\* What a reboot at this moment would find in the store.
View(s) ==
  [k \in Keys |-> IF Live(s, k) = {} THEN NoVal
                  ELSE Value(rec[s][CHOOSE a \in Live(s, k) : TRUE])]

\* Safety: wherever the power fails, also between the two calls that write a
\* record, a scan loop of tinyFlash.c reaches every record of both sectors and
\* nothing but records.  This ends where a Swap programs over the remains of
\* an interrupted one, or beyond the end of the sector.
LogReadable == pc # "undefined" => \A s \in Sectors : Chain(s)

\* Safety: as long as no Swap has copied into a sector that was not erased,
\* the sector tinyFlash_Init would choose never holds two valid records of one
\* key: tinyFlash_Write deletes before it appends, and Swap makes its copy
\* current and gives up the original in an order no power loss can turn into a
\* duplicate.
OneRecordPerKey ==
  ~tainted => \A k \in Keys : \A a, b \in Live(BootSector, k) : a = b

Call_ ==
  CASE pc \in {"idle", "undefined"} -> "none"
    [] pc = "read" -> "read"
    [] pc = "delete" -> "delete"
    [] OTHER -> "write"

\* The dictionary as tinyFlash_Read sees it, and as a reboot would find it.
InSession == INSTANCE KVStore WITH dict <- View(used), call <- Call_
AfterBoot == INSTANCE KVStore WITH dict <- View(BootSector), call <- Call_

\* Liveness: a write returns to its caller, unless power fails or a Swap has
\* found the remains of an interrupted one.
WriteReturns == pc = "discard" ~> pc = "idle" \/ tainted
=============================================================================
