-------------------------- MODULE TinyFlash_proofs --------------------------
(***************************************************************************)
(* Theorems about TinyFlash, for every set of keys and values, every       *)
(* length and every sector size, with and without power losses.            *)
(***************************************************************************)
EXTENDS TinyFlashModes, TLAPS

\* No record is programmed beyond the end of its sector.
InBounds ==
  \A s \in Sectors, a \in Addr :
    IsRec(s, a) => a + Extent(rec[s][a]) <= Cap

\* There is room for what is left to be programmed of a record.
Fits ==
  /\ pc = "append" => addr + Size(NewRec) <= Cap
  /\ pc = "copy" => IsRec(used, addr) /\ dst + Size(Here) <= Cap

TInv == TypeOK /\ InBounds /\ Fits

-----------------------------------------------------------------------------
\* A record has a natural length, and its header counts.
LEMMA SizeType ==
  ASSUME NEW r \in Record
  PROVE  /\ Size(r) \in Nat /\ Size(r) >= Hdr
         /\ Extent(r) \in Nat /\ Extent(r) >= Hdr /\ Extent(r) <= Size(r)
         /\ Size(r) <= Hdr + BlankLen
         /\ ~HeadTorn(r) => Extent(r) = Size(r)
BY TinyAssumption DEF Size, Extent, HeadTorn, Record, Hdr

\* A beginning of a record is a record of its key, and reaches no further.
LEMMA PrefixType ==
  ASSUME NEW r \in Record, NEW n \in Nat \ {0}
  PROVE  /\ Prefix(r, n) \in Record
         /\ Prefix(r, n).key = r.key
         /\ Prefix(r, n).part # "whole"
         /\ Extent(Prefix(r, n)) <= Extent(r)
<1> USE TinyAssumption
<1> DEFINE p == Prefix(r, n)
<1>1. NoData \in Vals BY DEF NoData, Record
<1>2. /\ p.key = r.key /\ p.live = (n > 1) /\ p.val = IF n < Hdr THEN NoData ELSE r.val
      /\ p.part = IF n = 1 \/ r.part = "key" THEN "key"
                  ELSE IF n = 2 \/ r.part = "head" THEN "head" ELSE "data"
      /\ p = [key |-> p.key, live |-> p.live, val |-> p.val, part |-> p.part]
  BY DEF Prefix
<1>3. p.val \in Vals /\ p.key \in Keys BY <1>1, <1>2 DEF Record
<1>4. p.live \in BOOLEAN BY <1>2
<1>5. p.part \in Parts /\ p.part # "whole" BY <1>2 DEF Parts
<1> HIDE DEF p
<1>6. p \in Record BY <1>2, <1>3, <1>4, <1>5 DEF Record
<1>7. Extent(p) <= Extent(r)
  <2>1. CASE HeadTorn(p) BY <2>1, SizeType DEF Extent
  <2>2. CASE ~HeadTorn(p)
    <3>1. ~(n = 1 \/ r.part = "key") /\ ~(n = 2 \/ r.part = "head")
      BY <1>2, <2>2, Zenon DEF HeadTorn
    <3>2. n >= 3 BY <3>1
    <3>3. ~HeadTorn(r) BY <3>1 DEF HeadTorn
    <3>4. p.val = r.val BY <1>2, <3>2 DEF Hdr
    <3> QED BY <2>2, <3>3, <3>4, <1>6, SizeType DEF Extent, Size
  <2> QED BY <2>1, <2>2
<1> QED BY <1>2, <1>5, <1>6, <1>7 DEF p

\* What is stored at an address where a record starts is a record.
LEMMA RecType ==
  ASSUME TypeOK, NEW s \in Sectors, NEW a, IsRec(s, a)
  PROVE  a \in Addr /\ rec[s][a] \in Record
BY DEF TypeOK, IsRec

\* Programming a record that fits keeps the type and the bounds of flash.
LEMMA ProgramType ==
  ASSUME TInv, NEW s \in Sectors, NEW a \in Nat, NEW r \in Record,
         a + Extent(r) <= Cap, Program(s, a, r)
  PROVE  /\ rec' \in [Sectors -> [Addr -> Record \cup {NoRec}]]
         /\ InBounds'
<1>1. a \in Addr
  BY SizeType, TinyAssumption DEF Addr, Hdr
<1>2. rec' \in [Sectors -> [Addr -> Record \cup {NoRec}]]
  BY <1>1 DEF Program, TInv, TypeOK
<1>3. ASSUME NEW t \in Sectors, NEW b \in Addr, IsRec(t, b)'
      PROVE  b + Extent(rec'[t][b]) <= Cap
  <2>1. CASE t = s /\ b = a
    BY <2>1, <1>1 DEF Program, TInv, TypeOK
  <2>2. CASE ~(t = s /\ b = a)
    <3>1. rec'[t][b] = rec[t][b]
      BY <2>2, <1>1 DEF Program, TInv, TypeOK
    <3>2. QED
      BY <3>1, <1>3 DEF TInv, InBounds, IsRec
  <2>3. QED BY <2>1, <2>2
<1>4. QED
  BY <1>2, <1>3 DEF InBounds, Extent, HeadTorn, Size

\* Erasing a sector keeps the bounds too.
LEMMA EraseType ==
  ASSUME TInv, NEW s \in Sectors, rec' = [rec EXCEPT ![s] = Erased]
  PROVE  /\ rec' \in [Sectors -> [Addr -> Record \cup {NoRec}]]
         /\ InBounds'
<1>1. \A t \in Sectors : rec'[t] = IF t = s THEN Erased ELSE rec[t]
  BY DEF TInv, TypeOK
<1>2. rec' \in [Sectors -> [Addr -> Record \cup {NoRec}]]
  BY DEF TInv, TypeOK, Erased
<1>3. QED
  BY <1>1, <1>2 DEF TInv, InBounds, IsRec, Extent, HeadTorn, Size, Erased

\* Skipping a record leaves the sector by no more than an erased Len byte says.
LEMMA SkipType ==
  ASSUME TInv, IsRec(used, addr), Skip
  PROVE  addr' \in 0 .. Cap + BlankLen
<1>1. addr \in Addr /\ Here \in Record
  BY RecType DEF TInv, TypeOK, Here
<1>2. /\ Size(Here) \in Nat /\ Extent(Here) \in Nat /\ Extent(Here) >= Hdr
      /\ Size(Here) <= Hdr + BlankLen /\ addr + Extent(Here) <= Cap
  BY <1>1, SizeType DEF TInv, TypeOK, InBounds, Here
<1>3. QED
  BY <1>1, <1>2, TinyAssumption DEF Skip, Addr, Hdr

\* A step that leaves flash alone leaves the bounds alone.
LEMMA SameFlash ==
  ASSUME InBounds, rec' = rec
  PROVE  InBounds'
BY DEF InBounds, IsRec, Extent, HeadTorn, Size

\* What a return leaves in the variables of the call.
LEMMA ReturnType ==
  ASSUME TypeOK, NEW r \in Results, Return(r)
  PROVE  /\ pc' \in PCs /\ addr' \in 0 .. Cap + BlankLen /\ dst' \in 0 .. Cap
         /\ dirty' \in BOOLEAN
         /\ result' \in Results
<1>1. dirty' \in BOOLEAN
  BY Zenon DEF Return
<1>2. QED
  BY <1>1, TinyAssumption DEF Return, PCs

\* A step that starts no record in two calls, and continues none, keeps Fits.
LEMMA FitsNext == TypeOK /\ Fits /\ [Next]_vars => Fits'
<1> SUFFICES ASSUME TypeOK, Fits, [Next]_vars PROVE Fits'
  OBVIOUS
<1>1. CASE UNCHANGED vars \/ Undefined
  <2>1. UNCHANGED <<rec, used, pc, key, val, addr, dst>>
    BY <1>1 DEF Undefined, vars, flash, args
  <2> QED BY <2>1 DEF Fits, NewRec, Size, HeadTorn, Here, IsRec
<1>2. CASE ScanAppendFirst
  <2>1. pc' = "append" /\ UNCHANGED <<addr, key, val>> /\ ~NoRoom
    BY <1>2 DEF ScanAppendFirst, args
  <2>2. addr + Size(NewRec) <= Cap
    <3>1. addr \in Nat /\ ValLen[val] \in Nat BY TinyAssumption DEF TypeOK
    <3>2. Size(NewRec) = Hdr + ValLen[val] BY DEF Size, NewRec, HeadTorn
    <3> QED BY <2>1, <3>1, <3>2, TinyAssumption DEF NoRoom, Hdr
  <2> QED BY <2>1, <2>2 DEF Fits, NewRec, Size, HeadTorn
<1>3. CASE SwapCopyFirst
  <2>1. /\ pc' = "copy" /\ UNCHANGED <<addr, dst, used>> /\ IsRec(used, addr)
        /\ dst + Size(Here) <= Cap
    BY <1>3 DEF SwapCopyFirst, AtEnd, Programmable
  <2>2. rec'[used] = rec[used]
    BY <1>3 DEF SwapCopyFirst, Program, TypeOK, Spare, Other, Sectors
  <2> QED BY <2>1, <2>2 DEF Fits, Here, IsRec, Size, HeadTorn
<1>4. CASE ~(UNCHANGED vars \/ Undefined \/ ScanAppendFirst \/ SwapCopyFirst)
  <2>1. pc' \notin {"append", "copy"}
    BY <1>4
       DEF Next, Step, CallRead, CallDelete, CallWrite, Call, ReadSkip, Reading, ReadReturn,
           DeleteReturn, Discarded, ScanSkip, ScanAppend, ScanAppendRest, ScanNoRoom, SwapCopy,
           SwapCopyRest, SwapClash, SwapDrop, SwapCopied, SwapMark, SwapErase, Format,
           PowerLoss, Return
  <2> QED BY <2>1 DEF Fits
<1> QED BY <1>1, <1>2, <1>3, <1>4

\* Every variable keeps its type, and there is room for what is being written.
LEMMA TypesInvariant == Spec => [](TypeOK /\ TInv)
<1> USE TinyAssumption
<1>1. Init => TInv
  <2> SUFFICES ASSUME Init PROVE TInv
    OBVIOUS
  <2>1. rec \in [Sectors -> [Addr -> Record \cup {NoRec}]]
    BY DEF Init, Erased
  <2>2. InBounds
    BY DEF Init, InBounds, IsRec, Erased
  <2>3. mark \in [Sectors -> BOOLEAN] /\ used \in Sectors
    BY DEF Init, BootSector, InitSector, Sectors
  <2>4. dirty \in BOOLEAN /\ tainted \in BOOLEAN
    BY Zenon DEF Init
  <2>5. QED
    BY <2>1, <2>2, <2>3, <2>4 DEF Init, TInv, TypeOK, PCs, Results, Fits
<1>2. TInv /\ [Next]_vars => TInv'
  <2> SUFFICES ASSUME TInv, [Next]_vars PROVE (TypeOK /\ InBounds)'
    BY FitsNext DEF TInv
  <2> USE DEF TInv
  <2>1. CASE UNCHANGED vars
    BY <2>1, SameFlash DEF vars, flash, args, TypeOK
  <2>2. CASE CallRead \/ CallDelete \/ CallWrite
    BY <2>2, SameFlash
       DEF CallRead, CallDelete, CallWrite, Call, TypeOK, flash, PCs, Results
  <2>3. CASE ReadSkip
    <3>1. addr' \in 0 .. Cap + BlankLen
      BY <2>3, SkipType DEF ReadSkip, AtEnd
    <3>2. QED
      BY <2>3, <3>1, SameFlash DEF ReadSkip, TypeOK, flash, args
  <2>4. CASE ReadReturn
    <3>1. Found => Value(Here) \in Results
      BY RecType DEF Found, AtEnd, Here, TypeOK, Record, Value, Results
    <3>2. PICK r \in Results : Return(r)
      BY <2>4, <3>1 DEF ReadReturn, Results
    <3>3. QED
      BY <2>4, <3>2, ReturnType, SameFlash DEF ReadReturn, TypeOK, flash, args
  <2>5. ASSUME Found, Invalidate
        PROVE  /\ rec' \in [Sectors -> [Addr -> Record \cup {NoRec}]]
               /\ InBounds'
    <3> DEFINE r == [Here EXCEPT !.live = FALSE]
    <3>1. IsRec(used, addr) /\ addr \in Addr /\ Here \in Record
      BY <2>5, RecType DEF Found, AtEnd, Here, TypeOK
    <3>2. r \in Record /\ Extent(r) = Extent(Here)
      BY <3>1 DEF Record, Extent, HeadTorn, Size
    <3>3. addr + Extent(r) <= Cap
      BY <3>1, <3>2 DEF InBounds, Here, TypeOK
    <3>4. QED
      BY <2>5, <3>1, <3>2, <3>3, ProgramType DEF Invalidate, TypeOK, Addr
  <2>6. CASE DeleteReturn
    <3>1. /\ rec' \in [Sectors -> [Addr -> Record \cup {NoRec}]]
          /\ InBounds'
      BY <2>5, <2>6, SameFlash DEF DeleteReturn, TypeOK
    <3>2. PICK r \in Results : Return(r)
      BY <2>6 DEF DeleteReturn, Results
    <3>3. QED
      BY <2>6, <3>1, <3>2, ReturnType DEF DeleteReturn, TypeOK, args
  <2>7. CASE Discarded
    <3>1. /\ rec' \in [Sectors -> [Addr -> Record \cup {NoRec}]]
          /\ InBounds'
      BY <2>5, <2>7, SameFlash DEF Discarded, TypeOK
    <3>2. dirty' \in BOOLEAN
      BY <2>7, Zenon DEF Discarded
    <3>3. QED
      BY <2>7, <3>1, <3>2 DEF Discarded, TypeOK, args, PCs
  <2>8. CASE ScanSkip
    <3>1. addr' \in 0 .. Cap + BlankLen
      BY <2>8, SkipType DEF ScanSkip
    <3>2. QED
      BY <2>8, <3>1, SameFlash DEF ScanSkip, TypeOK, flash, args
  <2>9. CASE ScanAppend \/ ScanAppendFirst \/ ScanAppendRest
    <3>1. /\ NewRec \in Record /\ Size(NewRec) = Hdr + ValLen[val]
          /\ addr \in Nat /\ ValLen[val] \in Nat
      <4>1. NewRec \in Record
        BY Zenon DEF NewRec, Record, Parts, TypeOK
      <4>2. QED
        BY <4>1 DEF NewRec, Size, HeadTorn, TypeOK
    <3>2. addr + Size(NewRec) <= Cap
      BY <2>9, <3>1 DEF ScanAppend, ScanAppendFirst, ScanAppendRest, NoRoom, Hdr, Fits
    <3>3. CASE ScanAppend \/ ScanAppendRest
      <4>1. Program(used, addr, NewRec) /\ Return("ok") /\ UNCHANGED <<mark, used, args, tainted>>
        BY <3>3 DEF ScanAppend, ScanAppendRest
      <4>2. addr + Extent(NewRec) <= Cap BY <3>1, <3>2, SizeType
      <4>3. /\ rec' \in [Sectors -> [Addr -> Record \cup {NoRec}]]
            /\ InBounds'
        BY <3>1, <4>1, <4>2, ProgramType DEF TypeOK
      <4> QED BY <4>1, <4>3, ReturnType DEF TypeOK, args, Results
    <3>4. CASE ScanAppendFirst
      <4>1. PICK n \in Cuts(addr, NewRec) : Program(used, addr, Prefix(NewRec, n))
        BY <3>4 DEF ScanAppendFirst
      <4>2. n \in Nat \ {0} BY <3>1, SizeType DEF Cuts
      <4>3. PICK p \in Record : p = Prefix(NewRec, n) /\ Extent(p) <= Extent(NewRec)
        BY <3>1, <4>2, PrefixType
      <4>4. addr + Extent(p) <= Cap BY <3>1, <3>2, <4>3, SizeType
      <4>5. /\ rec' \in [Sectors -> [Addr -> Record \cup {NoRec}]]
            /\ InBounds'
        BY <3>1, <4>1, <4>3, <4>4, ProgramType DEF TypeOK
      <4> QED BY <3>4, <4>5 DEF ScanAppendFirst, TypeOK, args, PCs
    <3> QED BY <2>9, <3>3, <3>4
  <2>10. CASE ScanNoRoom
    <3>1. CASE dirty
      BY <2>10, <3>1, SameFlash DEF ScanNoRoom, TypeOK, flash, args, PCs
    <3>2. CASE ~dirty
      BY <2>10, <3>2, ReturnType, SameFlash DEF ScanNoRoom, TypeOK, flash, args, Results
    <3>3. QED
      BY <3>1, <3>2
  <2>11. CASE SwapCopy \/ SwapCopyFirst \/ SwapCopyRest
    <3>1. IsRec(used, addr) /\ Here \in Record
      BY <2>11, RecType DEF SwapCopy, SwapCopyFirst, SwapCopyRest, Fits, AtEnd, Here, TypeOK
    <3>2. /\ dst + Size(Here) <= Cap /\ dst \in Nat /\ Size(Here) \in Nat
          /\ dst + Extent(Here) <= Cap /\ Spare \in Sectors
      BY <2>11, <3>1, SizeType
         DEF SwapCopy, SwapCopyFirst, SwapCopyRest, Fits, Programmable, TypeOK, Spare, Other, Sectors
    <3>3. CASE SwapCopy \/ SwapCopyRest
      <4>1. /\ Program(Spare, dst, Here) /\ Skip /\ dst' = dst + Size(Here) /\ pc' \in PCs
            /\ UNCHANGED <<mark, used, args, dirty, result, tainted>>
        BY <3>3 DEF SwapCopy, SwapCopyRest, PCs
      <4>2. /\ rec' \in [Sectors -> [Addr -> Record \cup {NoRec}]]
            /\ InBounds'
        BY <3>1, <3>2, <4>1, ProgramType DEF TypeOK
      <4>3. addr' \in 0 .. Cap + BlankLen
        BY <3>1, <4>1, SkipType
      <4> QED BY <3>2, <4>1, <4>2, <4>3 DEF TypeOK, args
    <3>4. CASE SwapCopyFirst
      <4>1. PICK n \in Cuts(dst, Here) :
              Program(Spare, dst, Longer(rec[Spare][dst], Prefix(Here, n)))
        BY <3>4 DEF SwapCopyFirst
      <4>2. n \in Nat \ {0} BY <3>1, SizeType DEF Cuts
      <4>3. PICK p \in Record : p = Prefix(Here, n) /\ Extent(p) <= Extent(Here)
        BY <3>1, <4>2, PrefixType
      <4>4. dst + Extent(p) <= Cap BY <3>1, <3>2, <4>3, SizeType
      <4>5. dst \in Addr BY <3>1, <3>2, SizeType DEF Addr, Hdr
      <4>6. PICK q \in Record :
              q = Longer(rec[Spare][dst], Prefix(Here, n)) /\ dst + Extent(q) <= Cap
        <5>1. CASE rec[Spare][dst] = NoRec \/ Begins(rec[Spare][dst], p)
          BY <4>3, <4>4, <5>1 DEF Longer
        <5>2. CASE ~(rec[Spare][dst] = NoRec \/ Begins(rec[Spare][dst], p))
          BY <3>2, <4>3, <4>5, <5>2 DEF Longer, TypeOK, InBounds, IsRec
        <5> QED BY <5>1, <5>2
      <4>7. /\ rec' \in [Sectors -> [Addr -> Record \cup {NoRec}]]
            /\ InBounds'
        BY <3>2, <4>1, <4>6, ProgramType
      <4> QED BY <3>4, <4>7 DEF SwapCopyFirst, TypeOK, args, PCs
    <3> QED BY <2>11, <3>3, <3>4
  <2>12. CASE SwapClash
    BY <2>12, SameFlash DEF SwapClash, TypeOK, flash, args, PCs
  <2>13. CASE SwapDrop
    <3>1. addr' \in 0 .. Cap + BlankLen
      BY <2>13, SkipType DEF SwapDrop, AtEnd
    <3>2. QED
      BY <2>13, <3>1, SameFlash DEF SwapDrop, TypeOK, flash, args
  <2>14. CASE SwapCopied
    BY <2>14, SameFlash DEF SwapCopied, TypeOK, flash, args, PCs
  <2>15. CASE SwapMark
    <3>1. mark' \in [Sectors -> BOOLEAN]
      BY <2>15, Zenon DEF SwapMark, TypeOK
    <3>2. QED
      BY <2>15, <3>1, SameFlash DEF SwapMark, TypeOK, args, PCs
  <2>16. CASE SwapErase
    <3>1. /\ rec' \in [Sectors -> [Addr -> Record \cup {NoRec}]]
          /\ InBounds'
      BY <2>16, EraseType DEF SwapErase, TypeOK
    <3>2. used' \in Sectors
      BY <2>16 DEF SwapErase, TypeOK, Spare, Other, Sectors
    <3>3. QED
      BY <2>16, <3>1, <3>2 DEF SwapErase, TypeOK, args, PCs
  <2>17. CASE Format
    BY <2>17 DEF Format, TypeOK, InBounds, IsRec, Erased, args, Sectors
  <2>18. CASE PowerLoss
    <3>1. used' \in Sectors
      BY <2>18 DEF PowerLoss, BootSector, InitSector, Sectors
    <3>2. dirty' \in BOOLEAN
      BY <2>18, Zenon DEF PowerLoss
    <3>3. QED
      BY <2>18, <3>1, <3>2, SameFlash DEF PowerLoss, TypeOK, flash, args, PCs, Results
  <2>19. CASE Undefined
    BY <2>1, <2>19 DEF Undefined
  <2>20. QED
    BY <2>1, <2>2, <2>3, <2>4, <2>6, <2>7, <2>8, <2>9, <2>10, <2>11, <2>12,
       <2>13, <2>14, <2>15, <2>16, <2>17, <2>18, <2>19 DEF Next, Step
<1>3. TInv => TypeOK /\ TInv
  BY DEF TInv
<1>4. QED
  BY <1>1, <1>2, <1>3, PTL DEF Spec

\* TypeOK of TinyFlash.tla: every variable keeps its type, and no scan address
\* leaves the sector by more than an erased Len byte says, whatever the calls
\* and the power losses.
THEOREM TypeCorrect == Spec => []TypeOK
BY TypesInvariant, PTL

-----------------------------------------------------------------------------
(* Every scan loop stands on the chain of records: at the start of the log *)
(* or where a record ends.                                                 *)
Reached(s, a) ==
  a = 0 \/ \E b \in Addr : IsRec(s, b) /\ a = b + Size(rec[s][b])

Scanning == pc \in {"read", "delete", "discard", "scan", "append", "swap", "copy"}

Chains == \A s \in Sectors : Chain(s)

CInv ==
  /\ LogReadable
  /\ Scanning => Reached(used, addr)
  /\ pc \in {"swap", "copy"} => Reached(Spare, dst)
  /\ pc = "append" => IsRec(used, addr) /\ Last(used, addr)
  /\ pc = "copy" =>
       /\ IsRec(used, addr) /\ IsRec(Spare, dst)
       /\ rec[Spare][dst] = Here \/ Last(Spare, dst)

\* From a place the scan has reached, either a record starts or the log ends.
LEMMA ReachedOnChain ==
  ASSUME NEW s \in Sectors, NEW a, Chain(s), Reached(s, a)
  PROVE  OnChain(s, a)
BY DEF Chain, Reached

\* Sectors whose records and their sizes stay the same keep their chain.
LEMMA SameChain ==
  ASSUME NEW s \in Sectors,
         \A b \in Addr : IsRec(s, b)' <=> IsRec(s, b),
         \A b \in Addr : IsRec(s, b) => /\ Size(rec[s][b])' = Size(rec[s][b])
                                       /\ Extent(rec[s][b])' = Extent(rec[s][b])
  PROVE  /\ Chain(s) => Chain(s)'
         /\ \A a : Reached(s, a) => Reached(s, a)'
<1>1. \A a : IsRec(s, a)' <=> IsRec(s, a)
  BY DEF IsRec
<1>2. \A a : OnChain(s, a)' <=> OnChain(s, a)
  BY <1>1 DEF OnChain
<1>3. ASSUME Chain(s) PROVE Chain(s)'
  BY <1>1, <1>2, <1>3 DEF Chain
<1>4. ASSUME NEW a, Reached(s, a) PROVE Reached(s, a)'
  BY <1>1, <1>4 DEF Reached
<1>5. QED
  BY <1>3, <1>4

\* Programming a record where the log ends, or over the last one of it, extends
\* the chain by that record.
LEMMA AppendChain ==
  ASSUME TInv, NEW s \in Sectors, NEW a \in Nat, NEW r \in Record,
         a + Extent(r) <= Cap, Program(s, a, r),
         Chain(s), Reached(s, a), Last(s, a)
  PROVE  /\ Chain(s)' /\ Reached(s, a + Size(r))'
         /\ Reached(s, a)' /\ IsRec(s, a)' /\ Last(s, a)' /\ rec'[s][a] = r
<1> USE TinyAssumption
<1>1. Size(r) \in Nat /\ Size(r) >= 3 /\ a \in Addr
  BY SizeType DEF Hdr, Addr
<1>2. \A b \in Addr : rec'[s][b] = IF b = a THEN r ELSE rec[s][b]
  BY <1>1 DEF Program, TInv, TypeOK
<1>3. r # NoRec
  OBVIOUS
<1>4. \A b : IsRec(s, b)' <=> (IsRec(s, b) \/ b = a)
  BY <1>1, <1>2, <1>3 DEF IsRec
<1>5. \A b \in Addr : IsRec(s, b) => /\ b <= a
                                    /\ Size(rec[s][b]) \in Nat
                                    /\ Size(rec[s][b]) >= 3
  <2>1. \A b \in Addr : IsRec(s, b) => ~(b > a)
    BY DEF Last
  <2>2. \A b \in Addr : IsRec(s, b) => rec[s][b] \in Record
    BY RecType DEF TInv
  <2>3. QED
    BY <2>1, <2>2, SizeType DEF Hdr, Addr
\* The last record ends where the new one starts.
<1>6. ASSUME NEW c \in Addr, IsRec(s, c), c # a, NEW next, next = c + Size(rec[s][c])
      PROVE  /\ c + Extent(rec[s][c]) <= Cap
             /\ OnChain(s, next)'
             /\ \A d \in Addr : c < d /\ d < next => ~IsRec(s, d)'
  <2>1. c \in Nat /\ next \in Nat /\ c < a /\ c < next
    BY <1>5, <1>6 DEF Addr
  <2>2. /\ c + Extent(rec[s][c]) <= Cap
        /\ OnChain(s, next) /\ \A d \in Addr : c < d /\ d < next => ~IsRec(s, d)
    BY <1>6 DEF Chain
  <2>3. PICK b \in Addr : IsRec(s, b) /\ a = b + Size(rec[s][b])
    <3>1. a # 0
      BY <2>1
    <3>2. QED
      BY <3>1, Zenon DEF Reached
  <2>4. \A d \in Addr : b < d /\ d < a => ~IsRec(s, d)
    BY <2>3 DEF Chain
  <2>5. b \in Nat /\ ~(b < c) /\ b < a
    BY <1>5, <1>6, <2>1, <2>3, <2>4 DEF Addr
  <2>6. CASE b = c
    <3>1. next = a
      BY <2>3, <2>6, <1>6
    <3>2. QED
      BY <3>1, <1>1, <1>4, <2>2 DEF OnChain, Addr
  <2>7. CASE c < b
    <3>1. next <= b
      BY <2>1, <2>2, <2>3, <2>5, <2>7
    <3>2. IsRec(s, next)
      BY <2>2, <2>3, <2>5, <3>1, <2>1 DEF OnChain
    <3>3. next < a
      BY <2>1, <2>5, <3>1
    <3>4. QED
      BY <2>1, <2>2, <3>2, <3>3, <1>4 DEF OnChain, Addr
  <2>8. QED
    BY <2>1, <2>5, <2>6, <2>7
<1>7. OnChain(s, 0)'
  <2>1. CASE a = 0
    BY <2>1, <1>4 DEF OnChain
  <2>2. CASE a # 0
    <3>1. PICK b \in Addr : IsRec(s, b)
      BY <2>2 DEF Reached
    <3>2. IsRec(s, 0)
      BY <3>1 DEF Chain, OnChain, Addr
    <3>3. QED
      BY <3>2, <1>4 DEF OnChain
  <2>3. QED
    BY <2>1, <2>2
<1>8. \A d \in Addr : d > a => ~IsRec(s, d)'
  BY <1>1, <1>4 DEF Addr, Last
<1>9. ASSUME NEW c \in Addr, IsRec(s, c)', NEW next, next = c + Size(rec'[s][c])
      PROVE  /\ c + Extent(rec'[s][c]) <= Cap
             /\ OnChain(s, next)'
             /\ \A d \in Addr : c < d /\ d < next => ~IsRec(s, d)'
  <2>1. CASE c = a
    <3>1. rec'[s][c] = r
      BY <2>1, <1>1, <1>2
    <3>2. next = a + Size(r)
      BY <2>1, <3>1, <1>9
    <3>3. OnChain(s, next)'
      BY <3>2, <1>1, <1>8 DEF OnChain, Addr
    <3>4. QED
      BY <2>1, <3>1, <3>2, <3>3, <1>1, <1>8 DEF Addr
  <2>2. CASE c # a
    <3>1. IsRec(s, c) /\ rec'[s][c] = rec[s][c]
      BY <2>2, <1>2, <1>4, <1>9
    <3>2. next = c + Size(rec[s][c])
      BY <3>1, <1>9
    <3>3. QED
      BY <2>2, <3>1, <3>2, <1>6
  <2>3. QED
    BY <2>1, <2>2
<1>10. Chain(s)'
  BY <1>7, <1>9 DEF Chain, Extent, Size, HeadTorn
<1>11. Reached(s, a + Size(r))'
  BY <1>1, <1>2, <1>4 DEF Reached, Size, HeadTorn
<1>12. IsRec(s, a)' /\ Last(s, a)' /\ rec'[s][a] = r
  BY <1>1, <1>2, <1>4, <1>8 DEF Last
<1>13. Reached(s, a)'
  <2>1. CASE a = 0 BY <2>1 DEF Reached
  <2>2. CASE a # 0
    <3>1. PICK b \in Addr : IsRec(s, b) /\ a = b + Size(rec[s][b]) BY <2>2 DEF Reached
    <3>2. b # a BY <1>1, <1>5, <3>1 DEF Addr
    <3> QED BY <1>2, <1>4, <3>1, <3>2 DEF Reached, Size, HeadTorn
  <2> QED BY <2>1, <2>2
<1>14. QED
  BY <1>10, <1>11, <1>12, <1>13

\* Flash that a step does not touch keeps its chains and its ends of records.
LEMMA SameRec ==
  ASSUME rec' = rec
  PROVE  /\ Chains => Chains'
         /\ \A s, a : Reached(s, a) => Reached(s, a)'
<1>1. ASSUME NEW s \in Sectors, Chain(s) PROVE Chain(s)'
  BY <1>1, SameChain DEF IsRec, Extent, Size, HeadTorn
<1>2. ASSUME NEW s, NEW a, Reached(s, a) PROVE Reached(s, a)'
  BY <1>2 DEF Reached, IsRec, Size, HeadTorn
<1>3. QED
  BY <1>1, <1>2 DEF Chains

\* Marking a record deleted moves nothing.
LEMMA InvalidateChain ==
  ASSUME TInv, Chains, Found, Invalidate
  PROVE  Chains'
<1>1. IsRec(used, addr) /\ Here \in Record /\ used \in Sectors /\ addr \in Addr
  BY RecType DEF Found, AtEnd, Here, TInv, TypeOK
<1> DEFINE r == [Here EXCEPT !.live = FALSE]
<1>2. r \in Record /\ r.val = Here.val /\ r.part = Here.part /\ r # NoRec
  BY <1>1, TinyAssumption DEF Record
<1>3. \A s \in Sectors, b \in Addr :
        rec'[s][b] = IF s = used /\ b = addr THEN r ELSE rec[s][b]
  BY <1>1 DEF Invalidate, Program, TInv, TypeOK
<1>4. ASSUME NEW s \in Sectors PROVE Chain(s)'
  <2>1. \A b \in Addr : IsRec(s, b)' <=> IsRec(s, b)
    BY <1>1, <1>2, <1>3 DEF IsRec, Here
  <2>2. \A b \in Addr : IsRec(s, b) => /\ Size(rec[s][b])' = Size(rec[s][b])
                                       /\ Extent(rec[s][b])' = Extent(rec[s][b])
    BY <1>2, <1>3 DEF Size, Extent, HeadTorn, Here
  <2>3. QED
    BY <2>1, <2>2, SameChain DEF Chains
<1>5. QED
  BY <1>4 DEF Chains

\* Skipping a record reaches the end of that record.
LEMMA SkipReached ==
  ASSUME IsRec(used, addr), Skip, used' = used, rec'[used] = rec[used]
  PROVE  Reached(used, addr)'
BY DEF Reached, Skip, Here, IsRec, Size, HeadTorn

\* Programming sector s leaves the other sector alone.
LEMMA OtherSector ==
  ASSUME TInv, NEW s \in Sectors, NEW t \in Sectors, s # t,
         rec'[t] = rec[t]
  PROVE  /\ Chain(t) => Chain(t)'
         /\ \A a : Reached(t, a) => Reached(t, a)'
BY SameChain DEF IsRec, Extent, Size, HeadTorn

\* Where the log ends there is nothing behind.
LEMMA EndIsLast ==
  ASSUME NEW s \in Sectors, NEW a \in Nat, Chain(s), Reached(s, a), ~IsRec(s, a)
  PROVE  Last(s, a)
BY ReachedOnChain DEF OnChain, Last, Addr

\* The first part of a record does not change the record itself.
LEMMA SelfLonger ==
  ASSUME NEW r \in Record, NEW n \in Nat \ {0}
  PROVE  Longer(r, Prefix(r, n)) = r
<1> DEFINE p == Prefix(r, n)
<1>1. p.part = IF n = 1 \/ r.part = "key" THEN "key"
               ELSE IF n = 2 \/ r.part = "head" THEN "head" ELSE "data"
  BY DEF Prefix
<1> HIDE DEF p
<1>2. ~Begins(r, p)
  <2>1. CASE r.part \in {"key", "head"}
    <3>1. p.part \in {"key", "head"} /\ (r.part = "key" => p.part = "key")
      <4>1. CASE n = 1 \/ r.part = "key" BY <1>1, <4>1
      <4>2. CASE ~(n = 1 \/ r.part = "key")
        <5>1. r.part = "head" BY <2>1, <4>2
        <5>2. n = 2 \/ r.part = "head" BY <5>1
        <5> QED BY <1>1, <4>2, <5>1, <5>2
      <4> QED BY <4>1, <4>2
    <3> QED BY <2>1, <3>1, Zenon DEF Begins
  <2>2. CASE r.part \in {"data", "whole"}
    <3>1. p.part # "whole" BY <1>1
    <3> QED BY <2>2, <3>1, Zenon DEF Begins
  <2> QED BY <2>1, <2>2 DEF Record, Parts
<1>3. r # NoRec BY TinyAssumption
<1> QED BY <1>2, <1>3 DEF Longer, p

\* Every step keeps the chains, and leaves a loop on them.
LEMMA ChainStep ==
  ASSUME TInv, CInv, Chains, Next, ~Undefined
  PROVE  Chains' /\ CInv'
<1> USE TinyAssumption DEF TInv
<1>0. Chains' => LogReadable' BY DEF LogReadable, Chains
<1>1. CASE CallRead \/ CallDelete \/ CallWrite
  <2>1. rec' = rec /\ addr' = 0 /\ pc' \in {"read", "delete", "discard"}
    BY <1>1 DEF CallRead, CallDelete, CallWrite, Call, flash
  <2> QED BY <1>0, <2>1, SameRec DEF CInv, Reached
<1>2. CASE ReadSkip \/ ScanSkip \/ SwapDrop
  <2>1. /\ rec' = rec /\ used' = used /\ dst' = dst /\ pc' = pc /\ Skip /\ IsRec(used, addr)
        /\ pc \in {"read", "delete", "discard", "scan", "swap"} /\ Spare' = Spare
    BY <1>2 DEF ReadSkip, Reading, ScanSkip, SwapDrop, AtEnd, flash, Spare
  <2>2. Reached(used, addr)' BY <2>1, SkipReached
  <2>3. Chains' /\ (Reached(Spare, dst) => Reached(Spare, dst)')
    BY <2>1, SameRec DEF Spare
  <2> QED BY <1>0, <2>1, <2>2, <2>3 DEF CInv
<1>3. CASE ReadReturn \/ ScanNoRoom \/ SwapClash \/ SwapCopied \/ SwapMark \/ PowerLoss
  <2>1. /\ rec' = rec /\ pc' \in {"idle", "swap", "undefined", "mark", "erase"}
        /\ pc' = "swap" => addr' = 0 /\ dst' = 0
    BY <1>3 DEF ReadReturn, ScanNoRoom, SwapClash, SwapCopied, SwapMark, PowerLoss, Return, flash
  <2> QED BY <1>0, <2>1, SameRec DEF CInv, Scanning, Reached
<1>4. CASE DeleteReturn \/ Discarded
  <2>1. /\ rec' = rec \/ (Found /\ Invalidate)
        /\ pc' = "idle" \/ (pc' = "scan" /\ addr' = 0)
    BY <1>4 DEF DeleteReturn, Discarded, Return
  <2>2. Chains' BY <2>1, SameRec, InvalidateChain
  <2> QED BY <1>0, <2>1, <2>2 DEF CInv, Scanning, Reached
<1>5. CASE ScanAppend \/ ScanAppendFirst \/ ScanAppendRest
  <2>1. /\ NewRec \in Record /\ Size(NewRec) = Hdr + ValLen[val]
        /\ addr \in Nat /\ used \in Sectors /\ ValLen[val] \in Nat
    <3>1. NewRec \in Record
      BY Zenon DEF NewRec, Record, Parts, TypeOK
    <3> QED BY <3>1 DEF NewRec, Size, HeadTorn, TypeOK
  <2>2. addr + Size(NewRec) <= Cap
    BY <1>5, <2>1 DEF ScanAppend, ScanAppendFirst, ScanAppendRest, NoRoom, Hdr, Fits
  <2>3. Chain(used) /\ Reached(used, addr)
    BY <1>5, <2>1 DEF ScanAppend, ScanAppendFirst, ScanAppendRest, CInv, Scanning, Chains
  <2>4. Last(used, addr)
    BY <1>5, <2>1, <2>3, EndIsLast DEF ScanAppend, ScanAppendFirst, ScanAppendRest, CInv
  <2>5. PICK r \in Record :
          /\ Program(used, addr, r) /\ addr + Extent(r) <= Cap
          /\ used' = used
          /\ pc' = "idle" \/ (pc' = "append" /\ addr' = addr)
    <3>1. CASE ScanAppend \/ ScanAppendRest
      <4>1. addr + Extent(NewRec) <= Cap BY <2>1, <2>2, SizeType
      <4> QED BY <2>1, <3>1, <4>1 DEF ScanAppend, ScanAppendRest, Return
    <3>2. CASE ScanAppendFirst
      <4>1. PICK n \in Cuts(addr, NewRec) : Program(used, addr, Prefix(NewRec, n))
        BY <3>2 DEF ScanAppendFirst
      <4>2. n \in Nat \ {0} BY <2>1, SizeType DEF Cuts
      <4>3. PICK p \in Record : p = Prefix(NewRec, n) /\ Extent(p) <= Extent(NewRec)
        BY <2>1, <4>2, PrefixType
      <4>4. addr + Extent(p) <= Cap BY <2>1, <2>2, <4>3, SizeType
      <4> QED BY <3>2, <4>1, <4>3, <4>4 DEF ScanAppendFirst
    <3> QED BY <1>5, <3>1, <3>2
  <2>6. PICK s \in Sectors, a \in Nat : s = used /\ a = addr BY <2>1
  <2>7. Chain(s)' /\ Reached(s, a)' /\ IsRec(s, a)' /\ Last(s, a)'
    BY <2>3, <2>4, <2>5, <2>6, AppendChain
  <2>8. ASSUME NEW t \in Sectors, t # s PROVE Chain(t)'
    <3>1. rec'[t] = rec[t] BY <2>5, <2>6, <2>8 DEF Program, TypeOK
    <3> QED BY <2>8, <3>1, OtherSector DEF Chains
  <2>9. Chains' BY <2>7, <2>8 DEF Chains
  <2>10. pc' = "append" => /\ Reached(used, addr)' /\ IsRec(used, addr)' /\ Last(used, addr)'
    <3>1. pc' = "append" => used' = s /\ addr' = a BY <2>5, <2>6
    <3> QED BY <2>7, <3>1 DEF Reached, IsRec, Last, Size, HeadTorn
  <2> QED BY <1>0, <2>5, <2>9, <2>10 DEF CInv, Scanning
<1>6. CASE SwapCopy \/ SwapCopyFirst \/ SwapCopyRest
  <2>1. /\ IsRec(used, addr) /\ Here \in Record /\ used \in Sectors /\ addr \in Nat
        /\ Spare \in Sectors /\ Spare # used /\ dst \in Nat
        /\ Size(Here) \in Nat /\ Size(Here) >= Hdr /\ Extent(Here) \in Nat
        /\ Extent(Here) >= Hdr /\ Extent(Here) <= Size(Here)
    <3>1. IsRec(used, addr) /\ used \in Sectors /\ dst \in Nat /\ addr \in Nat
      BY <1>6 DEF SwapCopy, SwapCopyFirst, SwapCopyRest, AtEnd, Fits, TypeOK
    <3>2. Here \in Record
      BY <3>1, RecType DEF Here
    <3>3. Spare \in Sectors /\ Spare # used
      BY <3>1 DEF Spare, Other, Sectors
    <3> QED BY <3>1, <3>2, <3>3, SizeType
  <2>2. Chain(used) /\ Chain(Spare) /\ Reached(used, addr) /\ Reached(Spare, dst)
    BY <1>6, <2>1 DEF SwapCopy, SwapCopyFirst, SwapCopyRest, CInv, Scanning, Chains
  <2>3. dst + Size(Here) <= Cap /\ dst + Extent(Here) <= Cap /\ dst \in Addr
    <3>1. dst + Size(Here) <= Cap
      BY <1>6 DEF SwapCopy, SwapCopyFirst, SwapCopyRest, Programmable, Fits
    <3> QED BY <2>1, <3>1 DEF Addr, Hdr
  \* What is there is the record itself, or ends the log.
  <2>4. (IsRec(Spare, dst) /\ rec[Spare][dst] = Here) \/ Last(Spare, dst)
    <3>1. CASE SwapCopyRest BY <3>1 DEF SwapCopyRest, CInv
    <3>2. CASE Programmable(Spare, dst, Here)
      <4>1. CASE ~Overlaps(Spare, dst, Here)
        <5>1. ~IsRec(Spare, dst)
          <6> SUFFICES ASSUME IsRec(Spare, dst) PROVE FALSE
            OBVIOUS
          <6>1. Size(rec[Spare][dst]) \in Nat /\ Size(rec[Spare][dst]) >= Hdr
            BY <2>1, RecType, SizeType
          <6> QED BY <2>1, <2>3, <4>1, <6>1 DEF Overlaps, Hdr, Addr
        <5> QED BY <2>1, <2>2, <5>1, EndIsLast
      <4> QED BY <3>2, <4>1 DEF Programmable
    <3> QED BY <1>6, <3>1, <3>2 DEF SwapCopy, SwapCopyFirst
  <2>5. PICK r \in Record :
          /\ Program(Spare, dst, r) /\ dst + Extent(r) <= Cap /\ used' = used
          /\ IsRec(Spare, dst) /\ rec[Spare][dst] = Here => r = Here
          /\ \/ pc' = "swap" /\ r = Here /\ dst' = dst + Size(Here) /\ Skip
             \/ pc' = "copy" /\ dst' = dst /\ addr' = addr
    <3>1. CASE SwapCopy \/ SwapCopyRest
      BY <2>1, <2>3, <3>1 DEF SwapCopy, SwapCopyRest
    <3>2. CASE SwapCopyFirst
      <4>1. PICK n \in Cuts(dst, Here) :
              Program(Spare, dst, Longer(rec[Spare][dst], Prefix(Here, n)))
        BY <3>2 DEF SwapCopyFirst
      <4>2. n \in Nat \ {0} BY <2>1 DEF Cuts
      <4>3. PICK p \in Record : /\ p = Prefix(Here, n) /\ Extent(p) <= Extent(Here)
                                /\ p.part # "whole"
        BY <2>1, <4>2, PrefixType
      <4>4. dst + Extent(p) <= Cap BY <2>1, <2>3, <4>3, SizeType
      <4>5. PICK q \in Record :
              q = Longer(rec[Spare][dst], Prefix(Here, n)) /\ dst + Extent(q) <= Cap
        <5>1. CASE rec[Spare][dst] = NoRec \/ Begins(rec[Spare][dst], p)
          BY <4>3, <4>4, <5>1 DEF Longer
        <5>2. CASE ~(rec[Spare][dst] = NoRec \/ Begins(rec[Spare][dst], p))
          BY <2>1, <2>3, <4>3, <5>2 DEF Longer, TypeOK, InBounds, IsRec
        <5> QED BY <5>1, <5>2
      <4>6. IsRec(Spare, dst) /\ rec[Spare][dst] = Here => q = Here
        BY <2>1, <2>3, <3>2, <4>2, <4>3, <4>5, SelfLonger DEF SwapCopyFirst, IsRec
      <4> QED BY <3>2, <4>1, <4>5, <4>6 DEF SwapCopyFirst
    <3> QED BY <1>6, <3>1, <3>2
  <2>6. PICK s \in Sectors, a \in Nat : s = Spare /\ a = dst BY <2>1
  <2>7. /\ Chain(s)' /\ Reached(s, a)' /\ IsRec(s, a)' /\ Reached(s, a + Size(r))'
        /\ rec'[s][a] = Here \/ Last(s, a)'
    <3>1. CASE Last(Spare, dst)
      BY <2>2, <2>5, <2>6, <3>1, AppendChain
    <3>2. CASE IsRec(Spare, dst) /\ rec[Spare][dst] = Here
      <4>1. rec' = rec /\ r = Here BY <2>1, <2>3, <2>5, <3>2 DEF Program, TypeOK
      <4>2. Chain(s)' BY <2>2, <2>6, <4>1, SameRec, SameChain DEF IsRec, Extent, Size, HeadTorn
      <4>3. Reached(s, a)' BY <2>2, <2>6, <4>1, SameRec
      <4>4. IsRec(s, a)' /\ rec'[s][a] = Here BY <2>6, <3>2, <4>1 DEF IsRec
      <4>5. Reached(s, a + Size(r))'
        BY <2>3, <2>6, <4>1, <4>4 DEF Reached, Size, HeadTorn
      <4> QED BY <4>2, <4>3, <4>4, <4>5
    <3> QED BY <2>4, <3>1, <3>2
  <2>8. rec'[used] = rec[used]
    BY <2>1, <2>5 DEF Program, TypeOK
  <2>9. /\ \A t \in Sectors : t = used => Chain(t)'
        /\ Reached(used, addr)' /\ (pc' = "copy" => IsRec(used, addr)')
    <3>0. PICK t \in Sectors : t = used BY <2>1
    <3>1. rec'[t] = rec[t] /\ t # s BY <2>1, <2>6, <2>8, <3>0
    <3>2. Chain(t)' /\ \A x : Reached(t, x) => Reached(t, x)'
      BY <2>2, <3>0, <3>1, OtherSector
    <3>3. pc' = "copy" => Reached(used, addr)' /\ IsRec(used, addr)'
      BY <2>1, <2>2, <2>5, <3>0, <3>1, <3>2 DEF IsRec, Reached
    <3>4. pc' = "swap" => Reached(used, addr)' BY <2>1, <2>5, <2>8, SkipReached
    <3> QED BY <2>5, <3>0, <3>2, <3>3, <3>4
  <2>10. Spare' = Spare /\ Sectors = {used, Spare}
    BY <2>1, <2>5 DEF Spare, Other, Sectors
  <2>11. Chains'
    <3>1. \A t \in Sectors : Chain(t)'
      BY <2>6, <2>7, <2>9, <2>10
    <3> QED BY <3>1 DEF Chains
  <2>12. (pc = "swap" => Reached(Spare, dst))'
    BY <2>5, <2>6, <2>7, <2>10 DEF Reached
  <2>13. (pc = "copy" => /\ Reached(Spare, dst) /\ IsRec(Spare, dst)
                         /\ rec[Spare][dst] = Here \/ Last(Spare, dst))'
    <3>1. pc' = "copy" => Here' = Here BY <2>5, <2>8 DEF Here
    <3> QED BY <2>5, <2>6, <2>7, <2>10, <3>1 DEF Reached, IsRec, Last
  <2>14. pc' \in {"swap", "copy"} BY <2>5
  <2>15. LogReadable' BY <1>0, <2>11
  <2>16. (pc = "copy" => /\ IsRec(used, addr) /\ IsRec(Spare, dst)
                         /\ rec[Spare][dst] = Here \/ Last(Spare, dst))'
    BY <2>9, <2>13
  <2>17. Reached(Spare, dst)'
    <3>1. CASE pc' = "swap" BY <2>12, <3>1
    <3>2. CASE pc' = "copy" BY <2>13, <3>2
    <3> QED BY <2>14, <3>1, <3>2
  <2> HIDE DEF TInv
  <2>18. (Scanning => Reached(used, addr))' BY <2>9
  <2>19. pc' # "append" BY <2>14
  <2>20. CInv' BY <2>15, <2>16, <2>17, <2>18, <2>19 DEF CInv
  <2> QED BY <2>11, <2>20
<1>7. CASE SwapErase
  <2>1. ASSUME NEW s \in Sectors PROVE Chain(s)'
    <3>1. CASE s = used
      BY <1>7, <3>1 DEF SwapErase, Chain, OnChain, IsRec, Erased, TypeOK
    <3>2. CASE s # used
      BY <1>7, <3>2, OtherSector DEF SwapErase, TypeOK, Chains
    <3> QED BY <3>1, <3>2
  <2>2. Chains' BY <2>1 DEF Chains
  <2> QED BY <1>0, <1>7, <2>2 DEF SwapErase, CInv, Reached
<1>8. CASE Format
  <2>1. Chains'
    BY <1>8 DEF Format, Chains, Chain, OnChain, IsRec, Erased
  <2> QED BY <1>0, <1>8, <2>1 DEF Format, CInv, Scanning
<1> QED
  BY <1>1, <1>2, <1>3, <1>4, <1>5, <1>6, <1>7, <1>8 DEF Next, Step

\* The log of each sector is one chain of records, on which every loop stands.
LEMMA ChainInvariant == Spec => []CInv
<1> USE TinyAssumption
<1>1. Init => CInv
  <2> SUFFICES ASSUME Init PROVE CInv
    OBVIOUS
  <2>1. \A s \in Sectors : \A a : ~IsRec(s, a)
    BY DEF Init, IsRec, Erased
  <2>2. LogReadable
    BY <2>1 DEF LogReadable, Chain, OnChain
  <2>3. QED
    BY <2>2 DEF Init, CInv, Scanning
<1>2. TypeOK /\ TInv /\ CInv /\ [Next]_vars => CInv'
  <2> SUFFICES ASSUME TInv, CInv, [Next]_vars PROVE CInv'
    OBVIOUS
  <2>1. CASE UNCHANGED vars \/ Undefined
    <3>1. UNCHANGED <<rec, used, pc, addr, dst>>
      BY <2>1 DEF vars, flash, Undefined
    <3>2. CInv' <=> CInv
      <4>1. \A s, a : (IsRec(s, a)' <=> IsRec(s, a)) /\ (Reached(s, a)' <=> Reached(s, a))
                     /\ (Last(s, a)' <=> Last(s, a))
        BY <3>1 DEF IsRec, Reached, Size, HeadTorn, Last
      <4>2. pc # "undefined" /\ Chains => Chains' BY <3>1, SameRec
      <4> QED BY <3>1, <4>1, <4>2 DEF CInv, LogReadable, Chains, Scanning, Spare, Here
    <3> QED BY <3>2
  <2>2. CASE ~(UNCHANGED vars \/ Undefined)
    <3>1. pc # "undefined"
      BY <2>2
         DEF Next, Step, CallRead, CallDelete, CallWrite, Call, ReadSkip, Reading, ReadReturn,
             DeleteReturn, Discarded, ScanSkip, ScanAppend, ScanAppendFirst, ScanAppendRest,
             ScanNoRoom, SwapCopy, SwapCopyFirst, SwapCopyRest, SwapClash, SwapDrop,
             SwapCopied, SwapMark, SwapErase, Format, PowerLoss
    <3>2. Chains BY <3>1 DEF CInv, LogReadable, Chains
    <3>3. Chains' => LogReadable' BY DEF LogReadable, Chains
    <3> QED BY <2>2, <3>2, <3>3, ChainStep
  <2> QED BY <2>1, <2>2
<1>3. QED
  BY <1>1, <1>2, TypesInvariant, PTL DEF Spec

\* LogReadable of TinyFlash.tla: for every sector size, wherever flash pages
\* begin and wherever the power fails, the log of each sector is one chain of
\* records, up to the first Swap that programs over what an interrupted one has
\* left, or beyond the end of a sector.
THEOREM LogAlwaysReadable == Spec => []LogReadable
<1>1. CInv => LogReadable
  BY DEF CInv
<1>2. QED
  BY <1>1, ChainInvariant, PTL
-----------------------------------------------------------------------------
\* No key has two valid records in sector s.
Unique(s) == \A k \in Keys : \A a, b \in Live(s, k) : a = b

\* No valid record of key k starts before address lim.
NoneLive(s, k, lim) == \A a \in Live(s, k) : a >= lim

\* Everything the spare sector holds has been copied from the part of the
\* current one that Swap has passed, or is the record being copied.
CopyOnly(lim) ==
  \A b \in Addr : IsRec(Spare, b) =>
    \/ pc = "copy" /\ b = dst
    \/ \E a \in Addr : a < lim /\ IsRec(used, a) /\ rec[used][a] = rec[Spare][b]

\* As long as no Swap has copied into a sector that was not erased: both sectors
\* are without duplicates, a search has passed no valid record of its key, a
\* write has dropped the old record before it looks for room and has begun no
\* other but the new one, and a Swap adds nothing to what it copies.
UInv ==
  ~tainted =>
    /\ \A s \in Sectors : Unique(s)
    /\ Reading => NoneLive(used, key, addr)
    /\ pc \in {"scan", "swap", "copy", "mark", "erase"} => Live(used, key) = {}
    /\ pc = "append" => rec[used][addr].key = key /\ \A a \in Live(used, key) : a = addr
    /\ pc \in {"swap", "copy"} => CopyOnly(addr)
    /\ pc = "copy" => Here.live
    /\ pc \in {"mark", "erase"} => CopyOnly(Cap)

\* Programming a record adds no valid record but that one.
LEMMA ProgramLive ==
  ASSUME TypeOK, NEW s \in Sectors, NEW a \in Addr, NEW r \in Record, Program(s, a, r),
         NEW t \in Sectors, NEW k \in Keys, NEW b \in Live(t, k)'
  PROVE  b \in Live(t, k) \/ (t = s /\ b = a /\ r.live /\ r.key = k)
<1>1. rec'[t] = IF t = s THEN [rec[s] EXCEPT ![a] = r] ELSE rec[t]
  BY DEF Program, TypeOK
<1>2. b \in Addr /\ rec'[t][b] # NoRec /\ rec'[t][b].live /\ rec'[t][b].key = k
  BY DEF Live, IsRec
<1>3. CASE t = s /\ b = a
  <2>1. rec'[t][b] = r BY <1>1, <1>3 DEF TypeOK
  <2> QED BY <1>2, <1>3, <2>1
<1>4. CASE ~(t = s /\ b = a)
  <2>1. rec'[t][b] = rec[t][b] BY <1>1, <1>4 DEF TypeOK
  <2> QED BY <1>2, <2>1 DEF Live, IsRec
<1> QED BY <1>3, <1>4

\* Deleting the record a search has found leaves its key without one.
LEMMA InvalidateLive ==
  ASSUME TInv, \A s \in Sectors : Unique(s), Found, Invalidate,
         used' = used, key' = key
  PROVE  (\A s \in Sectors : Unique(s)') /\ Live(used, key)' = {}
<1> DEFINE r == [Here EXCEPT !.live = FALSE]
<1>1. /\ used \in Sectors /\ addr \in Addr /\ Here \in Record
      /\ key \in Keys /\ TypeOK
  BY RecType DEF Found, AtEnd, Here, TInv, TypeOK
<1>2. r \in Record /\ ~r.live BY <1>1 DEF Record
<1>3. addr \in Live(used, key) BY <1>1 DEF Found, AtEnd, Live, Here
<1>4. Program(used, addr, r) BY DEF Invalidate
<1>5. \A s \in Sectors, k \in Keys : Live(s, k)' \subseteq Live(s, k)
  <2> HIDE DEF r
  <2> QED BY <1>1, <1>2, <1>4, ProgramLive
<1>6. \A s \in Sectors : Unique(s)' BY <1>5 DEF Unique
<1>7. addr \notin Live(used, key)'
  <2>1. rec'[used][addr] = r BY <1>1, <1>4 DEF Program, TypeOK
  <2> QED BY <1>2, <2>1 DEF Live
<1>8. Live(used, key)' = {}
  <2> SUFFICES ASSUME NEW a \in Live(used, key)' PROVE FALSE
    OBVIOUS
  <2>1. a \in Live(used, key) BY <1>1, <1>5
  <2> QED BY <1>1, <1>3, <1>7, <2>1 DEF Unique
<1> QED BY <1>6, <1>8

\* A search that stands at the end of the log has seen all of it.
LEMMA EndOfLog ==
  ASSUME TInv, CInv, Reading, AtEnd(used), NoneLive(used, key, addr)
  PROVE  Live(used, key) = {}
<1> SUFFICES ASSUME NEW a \in Live(used, key) PROVE FALSE
  OBVIOUS
<1> USE TinyAssumption DEF TInv
<1>1. /\ used \in Sectors /\ addr \in Nat /\ a \in Addr /\ IsRec(used, a) /\ a >= addr
      /\ Cap \in Nat
  BY DEF TypeOK, Live, NoneLive
<1>2. OnChain(used, addr)
  BY <1>1, ReachedOnChain DEF CInv, Reading, Scanning, LogReadable
<1>3. IsRec(used, addr) BY <1>1, <1>2 DEF OnChain
<1>4. addr \in Addr /\ rec[used][addr] \in Record BY <1>1, <1>3, RecType
<1>5. addr + Extent(rec[used][addr]) <= Cap BY <1>1, <1>3, <1>4 DEF InBounds
<1>6. Extent(rec[used][addr]) \in Nat /\ Extent(rec[used][addr]) >= 3
  BY <1>4, SizeType DEF Hdr
<1> QED BY <1>1, <1>3, <1>5, <1>6 DEF AtEnd, Hdr

\* Flash that a step does not touch keeps its valid records.
LEMMA SameLive ==
  ASSUME rec' = rec
  PROVE  /\ \A s, k : Live(s, k)' = Live(s, k)
         /\ \A s : Unique(s) => Unique(s)'
<1>1. ASSUME NEW s, NEW k PROVE Live(s, k)' = Live(s, k) BY DEF Live, IsRec
<1> QED BY <1>1 DEF Unique

LEMMA InitUInv == Init => UInv
<1> SUFFICES ASSUME Init PROVE UInv
  OBVIOUS
<1>1. \A s \in Sectors, k \in Keys : Live(s, k) = {}
  BY DEF Init, Live, IsRec, Erased
<1> QED BY <1>1 DEF Init, UInv, Unique, Reading

LEMMA NextUInv == TypeOK /\ TInv /\ CInv /\ UInv /\ [Next]_vars => UInv'
<1> SUFFICES ASSUME TypeOK, TInv, CInv, UInv, [Next]_vars, ~tainted' PROVE UInv'
  BY DEF UInv
<1> USE TinyAssumption
<1>0. CASE Format
  <2>1. \A s \in Sectors, k \in Keys : Live(s, k)' = {}
    BY <1>0 DEF Format, Live, IsRec, Erased
  <2> QED BY <1>0, <2>1 DEF Format, UInv, Unique, Reading
<1>1. CASE ~Format
  <2>1. ~tainted
    <3>1. (\E loop \in {"read", "delete", "discard"} : Call(loop)) => tainted' = tainted
      BY DEF Call
    <3>2. Step => (tainted => tainted')
      BY DEF Step, ReadSkip, ReadReturn, DeleteReturn, Discarded, ScanSkip, ScanAppend,
             ScanAppendFirst, ScanAppendRest, ScanNoRoom, SwapCopy, SwapCopyFirst, SwapCopyRest,
             SwapClash, SwapDrop, SwapCopied, SwapMark, SwapErase
    <3>3. PowerLoss \/ Undefined \/ UNCHANGED vars => tainted' = tainted
      BY DEF PowerLoss, Undefined, vars
    <3> QED BY <1>1, <3>1, <3>2, <3>3 DEF Next, CallRead, CallDelete, CallWrite
  <2>2. /\ \A s \in Sectors : Unique(s)
        /\ Reading => NoneLive(used, key, addr)
        /\ pc \in {"scan", "swap", "copy", "mark", "erase"} => Live(used, key) = {}
        /\ pc = "append" => rec[used][addr].key = key /\ \A a \in Live(used, key) : a = addr
        /\ pc \in {"swap", "copy"} => CopyOnly(addr)
        /\ pc = "copy" => Here.live
        /\ pc \in {"mark", "erase"} => CopyOnly(Cap)
    BY <2>1 DEF UInv
  <2>3. /\ used \in Sectors /\ Spare \in Sectors /\ Spare # used
        /\ key \in Keys /\ addr \in Nat /\ Cap \in Nat
    BY DEF TypeOK, Spare, Other, Sectors
  <2>4. CASE UNCHANGED vars \/ Undefined
    <3> USE <2>4 DEF vars, flash, args, Undefined
    <3>1. UNCHANGED vars OBVIOUS
    <3> HIDE <2>4
    <3> QED BY <2>2, <3>1, SameLive DEF UInv, Reading, NoneLive, CopyOnly, Spare, IsRec, Here
  <2>5. CASE CallRead \/ CallDelete \/ CallWrite
    <3>1. addr' = 0 /\ rec' = rec /\ pc' \in {"read", "delete", "discard"}
      BY <2>5 DEF CallRead, CallDelete, CallWrite, Call, flash
    <3>2. \A s \in Sectors : Unique(s)' BY <2>2, <3>1, SameLive
    <3>3. NoneLive(used, key, addr)' BY <3>1 DEF NoneLive, Live, Addr
    <3> QED BY <3>1, <3>2, <3>3 DEF UInv
  <2>6. CASE ReadSkip
    <3> USE <2>6 DEF ReadSkip
    <3>1. /\ rec' = rec /\ used' = used /\ key' = key /\ pc' = pc
          /\ Reading /\ IsRec(used, addr) /\ addr' = addr + Size(rec[used][addr])
      BY DEF flash, args, AtEnd, Skip, Here
    <3>2. \A s \in Sectors : Unique(s)' BY <2>2, <3>1, SameLive
    <3>3. addr \in Addr /\ rec[used][addr] \in Record /\ Size(rec[used][addr]) \in Nat
      BY <2>3, <3>1, RecType, SizeType
    <3>4. ASSUME NEW a \in Live(used, key) PROVE a >= addr'
      <4>1. a \in Addr /\ a >= addr /\ IsRec(used, a) /\ a \in Nat
        BY <2>2, <3>1, <3>4 DEF NoneLive, Live, Addr
      <4>2. a # addr BY <3>4 DEF Found, Here, Live
      <4>3. \A b \in Addr : addr < b /\ b < addr' => ~IsRec(used, b)
        BY <2>3, <3>1, <3>3 DEF CInv, LogReadable, Chain, Reading
      <4> QED BY <2>3, <3>1, <3>3, <4>1, <4>2, <4>3
    <3>5. NoneLive(used, key, addr)' BY <3>1, <3>4, SameLive DEF NoneLive
    <3> QED BY <3>1, <3>2, <3>5 DEF UInv, Reading
  <2>7. CASE ReadReturn
    <3>1. rec' = rec /\ pc' = "idle" BY <2>7 DEF ReadReturn, Return, flash
    <3> QED BY <2>2, <3>1, SameLive DEF UInv, Reading
  <2>8. CASE DeleteReturn
    <3>1. pc' = "idle" /\ used' = used /\ key' = key BY <2>8 DEF DeleteReturn, Return, args
    <3>2. \A s \in Sectors : Unique(s)'
      BY <2>2, <2>8, <3>1, SameLive, InvalidateLive DEF DeleteReturn
    <3> QED BY <3>1, <3>2 DEF UInv, Reading
  <2>9. CASE Discarded
    <3>1. pc' = "scan" /\ used' = used /\ key' = key /\ pc = "discard"
      BY <2>9 DEF Discarded, args
    <3>2. CASE Found /\ Invalidate
      <4>1. (\A s \in Sectors : Unique(s)') /\ Live(used, key)' = {}
        BY <2>2, <3>1, <3>2, InvalidateLive
      <4> QED BY <3>1, <4>1 DEF UInv, Reading
    <3>3. CASE AtEnd(used) /\ UNCHANGED rec
      <4>1. Live(used, key) = {} BY <2>2, <3>1, <3>3, EndOfLog DEF Reading
      <4>2. Live(used, key)' = {} BY <3>1, <3>3, <4>1, SameLive
      <4> QED BY <2>2, <3>1, <3>3, <4>2, SameLive DEF UInv, Reading
    <3> QED BY <2>9, <3>2, <3>3 DEF Discarded
  <2>10. CASE ScanSkip
    <3>1. rec' = rec /\ used' = used /\ key' = key /\ pc' = "scan" /\ pc = "scan"
      BY <2>10 DEF ScanSkip, flash, args
    <3>2. Live(used, key)' = {} BY <2>2, <3>1, SameLive
    <3> QED BY <2>2, <3>1, <3>2, SameLive DEF UInv, Reading
  <2>11. CASE ScanAppend \/ ScanAppendFirst \/ ScanAppendRest
    <3>1. /\ pc \in {"scan", "append"} /\ used' = used /\ key' = key
          /\ pc' = "idle" \/ (pc' = "append" /\ addr' = addr)
      BY <2>11 DEF ScanAppend, ScanAppendFirst, ScanAppendRest, Return, args
    <3>2. NewRec \in Record /\ NewRec.key = key /\ Size(NewRec) \in Nat /\ Size(NewRec) >= Hdr
      <4>1. NewRec \in Record /\ NewRec.key = key
        BY Zenon DEF NewRec, Record, Parts, TypeOK
      <4> QED BY <4>1, SizeType
    <3>3. addr \in Addr
      <4>1. val \in Vals /\ ValLen[val] \in Nat BY DEF TypeOK
      <4>2. CASE ScanAppendRest
        BY <2>3, <3>2, <4>2 DEF ScanAppendRest, TInv, Fits, Addr, Hdr
      <4>3. CASE ScanAppend \/ ScanAppendFirst
        BY <2>3, <4>1, <4>3 DEF ScanAppend, ScanAppendFirst, NoRoom, Addr, Hdr
      <4> QED BY <2>11, <4>2, <4>3
    <3>4. PICK r \in Record : r.key = key /\ Program(used, addr, r)
      <4>1. CASE ScanAppend \/ ScanAppendRest
        BY <3>2, <4>1 DEF ScanAppend, ScanAppendRest
      <4>2. CASE ScanAppendFirst
        <5>1. PICK n \in Cuts(addr, NewRec) : Program(used, addr, Prefix(NewRec, n))
          BY <4>2 DEF ScanAppendFirst
        <5>2. n \in Nat \ {0} BY <3>2 DEF Cuts
        <5> QED BY <3>2, <5>1, <5>2, PrefixType
      <4> QED BY <2>11, <4>1, <4>2
    <3>5. \A a \in Live(used, key) : a = addr BY <2>2, <3>1
    <3>6. ASSUME NEW s \in Sectors, NEW k \in Keys, NEW a \in Live(s, k)'
          PROVE  a \in Live(s, k) \/ (s = used /\ a = addr /\ k = key)
      BY <2>3, <3>3, <3>4, ProgramLive
    <3>7. ASSUME NEW s \in Sectors PROVE Unique(s)'
      <4> SUFFICES ASSUME NEW k \in Keys, NEW a \in Live(s, k)', NEW b \in Live(s, k)'
                   PROVE  a = b
        BY DEF Unique
      <4> QED BY <2>2, <3>5, <3>6 DEF Unique
    <3>8. \A a \in Live(used, key)' : a = addr
      <4> SUFFICES ASSUME NEW a \in Live(used, key)' PROVE a = addr
        OBVIOUS
      <4>1. a \in Live(used, key) \/ a = addr
        <5>1. PICK s \in Sectors, k \in Keys : s = used /\ k = key BY <2>3
        <5>2. a \in Live(s, k)' BY <3>1, <5>1 DEF Live, IsRec
        <5> QED BY <3>6, <5>1, <5>2
      <4> QED BY <3>5, <4>1
    <3>9. rec'[used][addr].key = key
      BY <2>3, <3>3, <3>4 DEF Program, TypeOK
    <3> QED BY <3>1, <3>7, <3>8, <3>9 DEF UInv, Reading
  <2>12. CASE ScanNoRoom
    <3>1. rec' = rec /\ used' = used /\ key' = key /\ pc = "scan"
      BY <2>12 DEF ScanNoRoom, flash, args
    <3>2. Live(used, key)' = {} BY <2>2, <3>1, SameLive
    <3>3. CASE dirty
      <4>1. pc' = "swap" /\ rec[Spare] = Erased BY <2>12, <3>3 DEF ScanNoRoom
      <4>2. CopyOnly(addr)' BY <2>3, <3>1, <4>1 DEF CopyOnly, IsRec, Erased, Spare
      <4> QED BY <2>2, <3>1, <3>2, <4>1, <4>2, SameLive DEF UInv, Reading
    <3>4. CASE ~dirty
      <4>1. pc' = "idle" BY <2>12, <3>4 DEF ScanNoRoom, Return
      <4> QED BY <2>2, <3>1, <4>1, SameLive DEF UInv, Reading
    <3> QED BY <3>3, <3>4
  <2>13. CASE SwapCopy \/ SwapCopyFirst \/ SwapCopyRest
    <3>1. /\ pc \in {"swap", "copy"} /\ used' = used /\ key' = key /\ Spare' = Spare
          /\ IsRec(used, addr) /\ Here.live /\ dst + Size(Here) <= Cap
      BY <2>2, <2>13
         DEF SwapCopy, SwapCopyFirst, SwapCopyRest, args, AtEnd, Programmable, Spare, TInv, Fits
    <3>2. addr \in Addr /\ Here \in Record /\ Here = rec[used][addr] /\ Here.key \in Keys
      <4>1. addr \in Addr /\ Here \in Record /\ Here = rec[used][addr]
        BY <2>3, <3>1, RecType DEF Here
      <4> QED BY <4>1 DEF Record
    <3>3. Size(Here) \in Nat /\ Size(Here) >= 3 BY <3>2, SizeType DEF Hdr
    <3>4. dst \in Addr BY <2>3, <3>1, <3>3 DEF TypeOK, Addr
    <3>5. PICK r \in Record :
            /\ Program(Spare, dst, r)
            /\ r.key = Here.key \/ (IsRec(Spare, dst) /\ r = rec[Spare][dst])
            /\ \/ pc' = "swap" /\ r = Here /\ addr' = addr + Size(Here)
               \/ pc' = "copy" /\ dst' = dst /\ addr' = addr
      <4>1. CASE SwapCopy \/ SwapCopyRest
        BY <3>2, <4>1 DEF SwapCopy, SwapCopyRest, Skip
      <4>2. CASE SwapCopyFirst
        <5>1. PICK n \in Cuts(dst, Here) :
                Program(Spare, dst, Longer(rec[Spare][dst], Prefix(Here, n)))
          BY <4>2 DEF SwapCopyFirst
        <5>2. n \in Nat \ {0} BY <3>3 DEF Cuts
        <5>3. PICK q : q = Longer(rec[Spare][dst], Prefix(Here, n)) OBVIOUS
        <5>4. q \in Record /\ (q.key = Here.key \/ (IsRec(Spare, dst) /\ q = rec[Spare][dst]))
          <6>1. CASE q = Prefix(Here, n) BY <3>2, <5>2, <6>1, PrefixType
          <6>2. CASE q = rec[Spare][dst] /\ rec[Spare][dst] # NoRec
            BY <2>3, <3>4, <6>2, RecType DEF IsRec
          <6> QED BY <5>3, <6>1, <6>2 DEF Longer
        <5> QED BY <4>2, <5>1, <5>3, <5>4 DEF SwapCopyFirst
      <4> QED BY <2>13, <4>1, <4>2
    <3>6. rec'[used] = rec[used] BY <2>3, <3>5 DEF Program, TypeOK
    <3>7. \A b \in Addr : rec'[Spare][b] = IF b = dst THEN r ELSE rec[Spare][b]
      BY <2>3, <3>4, <3>5 DEF Program, TypeOK
    <3>8. CopyOnly(addr)'
      <4> SUFFICES ASSUME NEW b \in Addr, rec'[Spare][b] # NoRec
                   PROVE  \/ pc' = "copy" /\ b = dst'
                          \/ \E a \in Addr : /\ a < addr' /\ IsRec(used, a)
                                              /\ rec[used][a] = rec'[Spare][b]
        BY <3>1, <3>6 DEF CopyOnly, IsRec
      <4>1. CASE b = dst BY <2>3, <3>1, <3>2, <3>3, <3>5, <3>7, <4>1
      <4>2. CASE b # dst
        <5>1. rec'[Spare][b] = rec[Spare][b] BY <3>7, <4>2
        <5>2. PICK a \in Addr : a < addr /\ IsRec(used, a) /\ rec[used][a] = rec[Spare][b]
          BY <2>2, <3>1, <4>2, <5>1 DEF CopyOnly, IsRec
        <5> QED BY <2>3, <3>3, <3>5, <5>1, <5>2 DEF Addr
      <4> QED BY <4>1, <4>2
    <3>9. \A b \in Live(Spare, Here.key) : b = dst
      <4> SUFFICES ASSUME NEW b \in Live(Spare, Here.key), b # dst PROVE FALSE
        OBVIOUS
      <4>1. PICK a \in Addr : a < addr /\ IsRec(used, a) /\ rec[used][a] = rec[Spare][b]
        BY <2>2, <3>1 DEF CopyOnly, Live
      <4>2. a \in Live(used, Here.key) BY <4>1 DEF Live
      <4>3. addr \in Live(used, Here.key) BY <3>1, <3>2 DEF Live
      <4>4. a = addr BY <2>2, <2>3, <3>2, <4>2, <4>3 DEF Unique
      <4> QED BY <2>3, <4>1, <4>4
    <3>10. ASSUME NEW s \in Sectors PROVE Unique(s)'
      <4> SUFFICES ASSUME NEW k \in Keys, NEW a \in Live(s, k)', NEW b \in Live(s, k)'
                   PROVE  a = b
        BY DEF Unique
      <4>1. /\ a \in Live(s, k) \/ (s = Spare /\ a = dst /\ r.live /\ r.key = k)
            /\ b \in Live(s, k) \/ (s = Spare /\ b = dst /\ r.live /\ r.key = k)
        BY <2>3, <3>4, <3>5, ProgramLive
      <4>2. CASE r.key = Here.key BY <2>2, <3>9, <4>1, <4>2 DEF Unique
      <4>3. CASE IsRec(Spare, dst) /\ r = rec[Spare][dst]
        <5>1. r.live /\ r.key = k => dst \in Live(Spare, k) BY <3>4, <4>3 DEF Live
        <5> QED BY <2>2, <4>1, <5>1 DEF Unique
      <4> QED BY <3>5, <4>2, <4>3
    <3>11. Live(used, key)' = {}
      <4> SUFFICES ASSUME NEW a \in Live(used, key)' PROVE FALSE
        OBVIOUS
      <4>1. a \in Live(used, key) BY <3>1, <3>6 DEF Live, IsRec
      <4> QED BY <2>2, <3>1, <4>1
    <3>12. pc' = "copy" => Here'.live
      BY <3>1, <3>5, <3>6 DEF Here
    <3>13. pc' \in {"swap", "copy"} BY <3>5
    <3> QED BY <3>8, <3>10, <3>11, <3>12, <3>13 DEF UInv, Reading
  <2>14. CASE SwapClash BY <2>14 DEF SwapClash
  <2>15. CASE SwapDrop
    <3>1. /\ rec' = rec /\ used' = used /\ key' = key /\ Spare' = Spare
          /\ pc = "swap" /\ pc' = "swap" /\ IsRec(used, addr)
          /\ addr' = addr + Size(rec[used][addr])
      BY <2>15 DEF SwapDrop, flash, args, AtEnd, Skip, Here, Spare
    <3>2. Size(rec[used][addr]) \in Nat BY <2>3, <3>1, RecType, SizeType
    <3>3. CopyOnly(addr)'
      <4> SUFFICES ASSUME NEW b \in Addr, IsRec(Spare, b)
                   PROVE  \E a \in Addr : /\ a < addr' /\ IsRec(used, a)
                                          /\ rec[used][a] = rec[Spare][b]
        BY <3>1 DEF CopyOnly, IsRec
      <4>1. PICK a \in Addr : a < addr /\ IsRec(used, a) /\ rec[used][a] = rec[Spare][b]
        BY <2>2, <3>1 DEF CopyOnly
      <4> QED BY <2>3, <3>1, <3>2, <4>1 DEF Addr
    <3>4. Live(used, key)' = {} BY <2>2, <3>1, SameLive
    <3> QED BY <2>2, <3>1, <3>3, <3>4, SameLive DEF UInv, Reading
  <2>16. CASE SwapCopied
    <3>1. /\ rec' = rec /\ used' = used /\ key' = key /\ Spare' = Spare
          /\ pc = "swap" /\ pc' = "mark"
      BY <2>16 DEF SwapCopied, flash, args, Spare
    <3>2. CopyOnly(Cap)'
      BY <2>2, <2>3, <3>1 DEF CopyOnly, IsRec, Addr
    <3>3. Live(used, key)' = {} BY <2>2, <3>1, SameLive
    <3> QED BY <2>2, <3>1, <3>2, <3>3, SameLive DEF UInv, Reading
  <2>17. CASE SwapMark
    <3>1. /\ rec' = rec /\ used' = used /\ key' = key /\ Spare' = Spare
          /\ pc = "mark" /\ pc' = "erase"
      BY <2>17 DEF SwapMark, args, Spare
    <3>2. CopyOnly(Cap)' BY <2>2, <3>1 DEF CopyOnly, IsRec
    <3>3. Live(used, key)' = {} BY <2>2, <3>1, SameLive
    <3> QED BY <2>2, <3>1, <3>2, <3>3, SameLive DEF UInv, Reading
  <2>18. CASE SwapErase
    <3>1. /\ rec' = [rec EXCEPT ![used] = Erased] /\ used' = Spare /\ key' = key
          /\ pc = "erase" /\ pc' = "scan"
      BY <2>18 DEF SwapErase, args
    <3>2. rec'[used] = Erased /\ rec'[Spare] = rec[Spare] BY <2>3, <3>1 DEF TypeOK
    <3>4. ASSUME NEW s \in Sectors PROVE Unique(s)'
      <4> SUFFICES ASSUME NEW k \in Keys, NEW a \in Live(s, k)', NEW b \in Live(s, k)'
                   PROVE  a = b
        BY DEF Unique
      <4>1. s # used BY <3>2 DEF Live, IsRec, Erased
      <4>2. rec'[s] = rec[s] BY <3>1, <4>1 DEF TypeOK
      <4>3. a \in Live(s, k) /\ b \in Live(s, k) BY <4>2 DEF Live, IsRec
      <4> QED BY <2>2, <4>3 DEF Unique
    <3>5. Live(used, key)' = {}
      <4> SUFFICES ASSUME NEW b \in Live(used, key)' PROVE FALSE
        OBVIOUS
      <4>1. b \in Live(Spare, key) BY <3>1, <3>2 DEF Live, IsRec
      <4>2. PICK a \in Addr : IsRec(used, a) /\ rec[used][a] = rec[Spare][b]
        BY <2>2, <3>1, <4>1 DEF CopyOnly, Live
      <4>3. a \in Live(used, key) BY <4>1, <4>2 DEF Live
      <4> QED BY <2>2, <3>1, <4>3
    <3> QED BY <3>1, <3>4, <3>5 DEF UInv, Reading
  <2>19. CASE PowerLoss
    <3>1. rec' = rec /\ pc' = "idle" BY <2>19 DEF PowerLoss, flash
    <3> QED BY <2>2, <3>1, SameLive DEF UInv, Reading
  <2> QED
    BY <1>1, <2>4, <2>5, <2>6, <2>7, <2>8, <2>9, <2>10, <2>11, <2>12, <2>13, <2>14,
       <2>15, <2>16, <2>17, <2>18, <2>19 DEF Next, Step
<1> QED BY <1>0, <1>1

\* OneRecordPerKey of TinyFlash.tla: wherever the power fails and whatever is
\* written, deleted or formatted, the sector a reboot would choose holds at most
\* one valid record of a key, until a Swap copies into a sector that was not
\* erased.  It is true of both sectors at all times, which makes it inductive.
THEOREM NoDuplicates == Spec => []OneRecordPerKey
<1>1. TypeOK /\ UInv => OneRecordPerKey
  BY DEF UInv, Unique, OneRecordPerKey, BootSector, InitSector, Sectors
<1> QED
  BY <1>1, InitUInv, NextUInv, TypesInvariant, ChainInvariant, PTL DEF Spec

-----------------------------------------------------------------------------
(* The dictionary: what the code does to the valid records of the current  *)
(* sector, seen as steps of KVStore.                                       *)

\* Swap has copied every valid record it has passed, each to its own place.
AllCopied(lim) ==
  \A k \in Keys : \A a \in Live(used, k) :
    a < lim => \E b \in Live(Spare, k) :
                 rec[Spare][b] = rec[used][a] /\ (pc = "copy" => b # dst)

\* What Swap has written ends at dst, which is not ahead of what it has read,
\* but for the record it is copying; and a write that has met nothing dirty has
\* met nothing.
WInv ==
  ~tainted =>
    /\ pc # "undefined"
    /\ pc = "scan" => dirty \/ addr = 0
    /\ pc \in {"swap", "copy"} =>
         /\ AllCopied(addr)
         /\ dst <= addr
         /\ \A b \in Addr : IsRec(Spare, b) =>
              b + Size(rec[Spare][b]) <= dst \/ (pc = "copy" /\ b = dst)
    /\ pc \in {"mark", "erase"} => AllCopied(Cap)

\* Every record of sector s is written to its end, but for the one at x.
Whole(s, x) == \A a \in Addr : IsRec(s, a) => rec[s][a].part = "whole" \/ x = a

\* Without power losses the spare sector is erased when no Swap is running, and
\* only the record being written is not written to its end.
Clean ==
  mode # "losses" =>
    /\ ~tainted
    /\ pc \notin {"swap", "copy", "mark", "erase"} => rec[Spare] = Erased /\ ~mark[Spare]
    /\ Whole(used, IF pc = "append" THEN addr ELSE Cap)
    /\ Whole(Spare, IF pc = "copy" THEN dst ELSE Cap)

\* Without formats a reboot chooses the sector in use, and the copy once it is
\* marked.
Boots ==
  mode # "formats" =>
    /\ pc # "erase" => used = BootSector
    /\ pc = "erase" => mark[Spare]

\* From where a loop stands at the end of the log there are no more records.
LEMMA LogEnds ==
  ASSUME TInv, CInv, Scanning, AtEnd(used), NEW a \in Addr, IsRec(used, a)
  PROVE  a < addr
<1> SUFFICES ASSUME ~(a < addr) PROVE FALSE
  OBVIOUS
<1> USE TinyAssumption DEF TInv
<1>1. used \in Sectors /\ addr \in Nat /\ a \in Nat /\ a >= addr /\ Cap \in Nat
  BY DEF TypeOK, Addr
<1>2. OnChain(used, addr) BY <1>1, ReachedOnChain DEF CInv, LogReadable, Scanning
<1>3. IsRec(used, addr) BY <1>1, <1>2 DEF OnChain
<1>4. addr \in Addr /\ rec[used][addr] \in Record BY <1>1, <1>3, RecType
<1>5. addr + Extent(rec[used][addr]) <= Cap BY <1>1, <1>3, <1>4 DEF InBounds
<1>6. Extent(rec[used][addr]) \in Nat /\ Extent(rec[used][addr]) >= 3
  BY <1>4, SizeType DEF Hdr
<1> QED BY <1>1, <1>3, <1>5, <1>6 DEF AtEnd, Hdr

\* Passing the record at addr passes that record only.
LEMMA LogSkipped ==
  ASSUME TInv, CInv, pc # "undefined", IsRec(used, addr), Skip, NEW a \in Addr, IsRec(used, a), a < addr'
  PROVE  a < addr \/ a = addr
<1> USE TinyAssumption DEF TInv
<1>1. used \in Sectors /\ addr \in Nat /\ a \in Nat BY DEF TypeOK, Addr
<1>2. addr \in Addr /\ rec[used][addr] \in Record /\ addr' = addr + Size(rec[used][addr])
  BY <1>1, RecType DEF Skip, Here
<1>3. Size(rec[used][addr]) \in Nat BY <1>2, SizeType
<1>4. \A b \in Addr : addr < b /\ b < addr' => ~IsRec(used, b)
  BY <1>1, <1>2 DEF CInv, LogReadable, Chain
<1> QED BY <1>1, <1>2, <1>3, <1>4

LEMMA InitWInv == Init => WInv
BY DEF Init, WInv

LEMMA NextWInv == TypeOK /\ TInv /\ CInv /\ UInv /\ WInv /\ [Next]_vars => WInv'
<1> SUFFICES ASSUME TInv, CInv, UInv, WInv, [Next]_vars, ~tainted' PROVE WInv'
  BY DEF WInv
<1> USE TinyAssumption DEF TInv
<1>0. CASE Format BY <1>0 DEF Format, WInv
<1>1. CASE ~Format
  <2>1. ~tainted
    <3>1. (\E loop \in {"read", "delete", "discard"} : Call(loop)) => tainted' = tainted
      BY DEF Call
    <3>2. Step => (tainted => tainted')
      BY DEF Step, ReadSkip, ReadReturn, DeleteReturn, Discarded, ScanSkip, ScanAppend,
             ScanAppendFirst, ScanAppendRest, ScanNoRoom, SwapCopy, SwapCopyFirst, SwapCopyRest,
             SwapClash, SwapDrop, SwapCopied, SwapMark, SwapErase
    <3>3. PowerLoss \/ Undefined \/ UNCHANGED vars => tainted' = tainted
      BY DEF PowerLoss, Undefined, vars
    <3> QED BY <1>1, <3>1, <3>2, <3>3 DEF Next, CallRead, CallDelete, CallWrite
  <2>2. /\ \A s \in Sectors : Unique(s)
        /\ pc \in {"scan", "swap", "copy", "mark", "erase"} => Live(used, key) = {}
        /\ pc = "copy" => Here.live
        /\ pc # "undefined"
        /\ pc = "scan" => dirty \/ addr = 0
        /\ pc \in {"swap", "copy"} =>
             /\ AllCopied(addr)
             /\ dst <= addr
             /\ \A b \in Addr : IsRec(Spare, b) =>
                  b + Size(rec[Spare][b]) <= dst \/ (pc = "copy" /\ b = dst)
        /\ pc \in {"mark", "erase"} => AllCopied(Cap)
    BY <2>1 DEF UInv, WInv
  <2>3. /\ used \in Sectors /\ Spare \in Sectors /\ Spare # used
        /\ key \in Keys /\ addr \in Nat /\ dst \in Nat /\ Cap \in Nat
    BY DEF TypeOK, Spare, Other, Sectors
  <2>4. CASE UNCHANGED vars \/ Undefined
    <3>1. UNCHANGED <<rec, used, pc, addr, dst, dirty>>
      BY <2>4 DEF vars, flash, args, Undefined
    <3> QED BY <2>2, <3>1, SameLive DEF WInv, AllCopied, Spare, IsRec, Size, HeadTorn
  <2>5. CASE CallRead \/ CallDelete \/ CallWrite
    BY <2>5 DEF CallRead, CallDelete, CallWrite, Call, WInv
  <2>6. CASE ReadSkip
    BY <2>6 DEF ReadSkip, Reading, WInv
  <2>7. CASE ReadReturn \/ DeleteReturn \/ ScanAppend \/ ScanAppendFirst \/ ScanAppendRest
             \/ PowerLoss
    <3>1. pc' \in {"idle", "append"}
      BY <2>7 DEF ReadReturn, DeleteReturn, ScanAppend, ScanAppendFirst, ScanAppendRest,
                  PowerLoss, Return
    <3> QED BY <3>1 DEF WInv
  <2>8. CASE Discarded BY <2>8 DEF Discarded, WInv
  <2>9. CASE ScanSkip
    <3>1. pc = "scan" /\ pc' = "scan" /\ IsRec(used, addr)
          /\ (dirty' <=> dirty \/ ~(Here.live /\ Here.key = key))
      BY <2>9 DEF ScanSkip
    <3>2. ~(Here.live /\ Here.key = key) BY <2>2, <3>1 DEF Live, Here, IsRec
    <3> QED BY <3>1, <3>2 DEF WInv
  <2>10. CASE ScanNoRoom
    <3>1. CASE dirty
      <4>1. /\ pc' = "swap" /\ addr' = 0 /\ dst' = 0 /\ rec[Spare] = Erased
            /\ rec' = rec /\ used' = used
        BY <2>10, <3>1 DEF ScanNoRoom, flash
      <4>2. AllCopied(addr)' BY <4>1 DEF AllCopied, Live, Addr
      <4>3. \A b \in Addr : ~IsRec(Spare, b)' BY <2>3, <4>1 DEF IsRec, Spare, Erased
      <4> QED BY <4>1, <4>2, <4>3 DEF WInv
    <3>2. CASE ~dirty
      <4>1. pc' = "idle" BY <2>10, <3>2 DEF ScanNoRoom, Return
      <4> QED BY <4>1 DEF WInv
    <3> QED BY <3>1, <3>2
  <2>11. CASE SwapCopy \/ SwapCopyFirst \/ SwapCopyRest
    <3>1. /\ pc \in {"swap", "copy"} /\ used' = used /\ Spare' = Spare
          /\ IsRec(used, addr) /\ Here.live /\ dst + Size(Here) <= Cap
      BY <2>2, <2>11
         DEF SwapCopy, SwapCopyFirst, SwapCopyRest, args, AtEnd, Programmable, Spare, Fits
    <3>2. addr \in Addr /\ Here \in Record /\ Here = rec[used][addr] /\ Here # NoRec
      BY <2>3, <3>1, RecType DEF Here, IsRec
    <3>3. Size(Here) \in Nat /\ Size(Here) >= 3 BY <3>2, SizeType DEF Hdr
    <3>4. dst \in Addr BY <2>3, <3>1, <3>3 DEF Addr
    <3>5. PICK r :
            /\ Program(Spare, dst, r)
            /\ \/ /\ pc' = "swap" /\ r = Here /\ Skip
                  /\ dst' = dst + Size(Here) /\ addr' = addr + Size(Here)
               \/ pc' = "copy" /\ pc = "swap" /\ dst' = dst /\ addr' = addr
      BY <2>11 DEF SwapCopy, SwapCopyFirst, SwapCopyRest, Skip
    <3>6. rec'[used] = rec[used] BY <2>3, <3>5 DEF Program, TypeOK
    <3>7. \A b \in Addr : rec'[Spare][b] = IF b = dst THEN r ELSE rec[Spare][b]
      BY <2>3, <3>4, <3>5 DEF Program, TypeOK
    \* Nothing is stored yet where a copy is begun.
    <3>8. pc = "swap" => ~IsRec(Spare, dst)
      <4> SUFFICES ASSUME pc = "swap", IsRec(Spare, dst) PROVE FALSE
        OBVIOUS
      <4>1. rec[Spare][dst] \in Record BY <2>3, RecType
      <4>2. Size(rec[Spare][dst]) \in Nat /\ Size(rec[Spare][dst]) >= 3
        BY <4>1, SizeType DEF Hdr
      <4> QED BY <2>2, <2>3, <3>4, <4>2
    <3>9. AllCopied(addr)'
      <4>0. \A k \in Keys : Live(used, k)' = Live(used, k)
        BY <3>1, <3>6 DEF Live, IsRec
      <4> SUFFICES ASSUME NEW k \in Keys, NEW a \in Live(used, k)', a < addr'
                   PROVE  \E b \in Live(Spare, k)' : /\ rec'[Spare'][b] = rec'[used'][a]
                                                     /\ pc' = "copy" => b # dst'
        BY DEF AllCopied
      <4> USE <3>1, <3>6, <4>0
      <4>1. a \in Addr /\ IsRec(used, a) BY DEF Live
      <4>2. CASE a = addr
        <5>1. pc' = "swap" /\ r = Here BY <2>3, <3>5, <4>2
        <5>2. rec'[Spare][dst] = rec[used][a] BY <3>2, <3>4, <3>7, <4>2, <5>1
        <5>3. dst \in Live(Spare, k)' BY <3>1, <3>4, <5>2 DEF Live, IsRec
        <5> QED BY <5>1, <5>2, <5>3
      <4>3. CASE a < addr
        <5>1. PICK b \in Live(Spare, k) : /\ rec[Spare][b] = rec[used][a]
                                          /\ pc = "copy" => b # dst
          BY <2>2, <3>1, <4>3 DEF AllCopied
        <5>2. b \in Addr /\ b # dst BY <3>1, <3>8, <5>1 DEF Live
        <5>3. rec'[Spare][b] = rec[Spare][b] BY <3>7, <5>2
        <5>4. b \in Live(Spare, k)' BY <3>1, <5>2, <5>3 DEF Live, IsRec
        <5> QED BY <3>5, <5>1, <5>2, <5>3, <5>4
      <4> QED BY <2>2, <3>1, <3>5, <4>1, <4>2, <4>3, LogSkipped
    <3>10. ASSUME NEW b \in Addr, IsRec(Spare, b)'
           PROVE  b + Size(rec'[Spare][b]) <= dst' \/ (pc' = "copy" /\ b = dst')
      <4>1. CASE b = dst
        <5>1. rec'[Spare][b] = r BY <3>7, <4>1
        <5>2. CASE pc' = "swap" BY <2>3, <3>3, <3>5, <4>1, <5>1, <5>2
        <5>3. CASE pc' = "copy" BY <3>5, <4>1, <5>3
        <5> QED BY <3>5, <5>2, <5>3
      <4>2. CASE b # dst
        <5>1. rec'[Spare][b] = rec[Spare][b] BY <3>7, <4>2
        <5>2. IsRec(Spare, b) BY <3>1, <3>10, <5>1 DEF IsRec
        <5>3. Size(rec[Spare][b]) \in Nat BY <2>3, <5>2, RecType, SizeType
        <5> QED BY <2>2, <2>3, <3>1, <3>3, <3>5, <4>2, <5>1, <5>2, <5>3 DEF Addr
      <4> QED BY <4>1, <4>2
    <3>11. dst' <= addr' BY <2>2, <2>3, <3>1, <3>3, <3>5
    <3>12. pc' \in {"swap", "copy"} BY <3>5
    <3> QED BY <3>1, <3>9, <3>10, <3>11, <3>12 DEF WInv, Size, HeadTorn
  <2>12. CASE SwapClash BY <2>12 DEF SwapClash
  <2>13. CASE SwapDrop
    <3>1. /\ rec' = rec /\ used' = used /\ Spare' = Spare /\ dst' = dst
          /\ pc = "swap" /\ pc' = "swap" /\ IsRec(used, addr) /\ ~Here.live
          /\ Skip /\ addr' = addr + Size(rec[used][addr])
      BY <2>13 DEF SwapDrop, flash, AtEnd, Skip, Here, Spare
    <3>2. Size(rec[used][addr]) \in Nat BY <2>3, <3>1, RecType, SizeType
    <3>3. AllCopied(addr)'
      <4> SUFFICES ASSUME NEW k \in Keys, NEW a \in Live(used, k), a < addr'
                   PROVE  \E b \in Live(Spare, k) : rec[Spare][b] = rec[used][a]
        BY <3>1, SameLive DEF AllCopied
      <4>1. a # addr BY <3>1 DEF Live, Here
      <4>2. a < addr BY <3>1, <4>1, LogSkipped DEF Live
      <4> QED BY <2>2, <3>1, <4>2 DEF AllCopied
    <3>4. dst' <= addr' BY <2>2, <2>3, <3>1, <3>2
    <3> QED BY <2>2, <3>1, <3>3, <3>4 DEF WInv, Size, HeadTorn, IsRec
  <2>14. CASE SwapCopied
    <3>1. /\ rec' = rec /\ used' = used /\ Spare' = Spare
          /\ pc = "swap" /\ pc' = "mark" /\ AtEnd(used)
      BY <2>14 DEF SwapCopied, flash, Spare
    <3>2. AllCopied(Cap)
      <4> SUFFICES ASSUME NEW k \in Keys, NEW a \in Live(used, k)
                   PROVE  \E b \in Live(Spare, k) : rec[Spare][b] = rec[used][a]
        BY <3>1 DEF AllCopied
      <4>1. a < addr BY <3>1, LogEnds DEF Live, Scanning
      <4> QED BY <2>2, <3>1, <4>1 DEF AllCopied
    <3>3. AllCopied(Cap)' BY <3>1, <3>2, SameLive DEF AllCopied
    <3> QED BY <3>1, <3>3 DEF WInv
  <2>15. CASE SwapMark
    <3>1. /\ rec' = rec /\ used' = used /\ Spare' = Spare /\ pc = "mark" /\ pc' = "erase"
      BY <2>15 DEF SwapMark, Spare
    <3>2. AllCopied(Cap)' BY <2>2, <3>1, SameLive DEF AllCopied
    <3> QED BY <3>1, <3>2 DEF WInv
  <2>16. CASE SwapErase
    BY <2>16 DEF SwapErase, WInv
  <2> QED
    BY <1>1, <2>4, <2>5, <2>6, <2>7, <2>8, <2>9, <2>10, <2>11, <2>12, <2>13, <2>14,
       <2>15, <2>16 DEF Next, Step
<1> QED BY <1>0, <1>1

\* A Swap that has nothing but whole records to copy meets none of its copies.
LEMMA NoClash ==
  ASSUME TInv, WInv, ~tainted, Whole(used, Cap), SwapClash
  PROVE  FALSE
<1> USE TinyAssumption DEF TInv
<1>1. /\ used \in Sectors /\ Spare \in Sectors /\ addr \in Nat /\ dst \in Nat /\ Cap \in Nat
      /\ pc = "swap" /\ IsRec(used, addr) /\ ~Programmable(Spare, dst, Here)
      /\ dst <= addr
      /\ \A b \in Addr : IsRec(Spare, b) => b + Size(rec[Spare][b]) <= dst
  BY DEF SwapClash, AtEnd, TypeOK, Spare, Other, Sectors, WInv
<1>2. addr \in Addr /\ Here \in Record /\ Here = rec[used][addr]
  BY <1>1, RecType DEF Here
<1>3. addr # Cap BY <1>2 DEF Addr
<1>4. ~HeadTorn(Here) BY <1>1, <1>2, <1>3 DEF Whole, HeadTorn
<1>5. Size(Here) \in Nat /\ addr + Size(Here) <= Cap
  BY <1>1, <1>2, <1>4, SizeType DEF InBounds
<1>6. ~Overlaps(Spare, dst, Here)
  <2> SUFFICES ASSUME NEW b \in Addr, IsRec(Spare, b), dst < b + Size(rec[Spare][b])
               PROVE  FALSE
    BY DEF Overlaps
  <2>1. Size(rec[Spare][b]) \in Nat /\ b \in Nat
    BY <1>1, RecType, SizeType DEF Addr
  <2> QED BY <1>1, <2>1
<1>7. dst + Size(Here) <= Cap BY <1>1, <1>5
<1> QED BY <1>1, <1>6, <1>7 DEF Programmable

\* Programming keeps the other records as they are.
LEMMA ProgramWhole ==
  ASSUME TypeOK, NEW s \in Sectors, NEW a, NEW r, Program(s, a, r), NEW x,
         Whole(s, x), x \in {a, Cap}
  PROVE  /\ Whole(s, a)'
         /\ r.part = "whole" => Whole(s, Cap)'
<1>1. \A b \in Addr : b # a => rec'[s][b] = rec[s][b]
  BY DEF Program, TypeOK
<1>2. \A b \in Addr : b = a => rec'[s][b] = r
  BY DEF Program, TypeOK
<1>3. \A b \in Addr : b # Cap
  BY TinyAssumption DEF Addr
<1> QED BY <1>1, <1>2, <1>3 DEF Whole, IsRec

LEMMA InitModes == ModesInit => Clean /\ Boots
<1> SUFFICES ASSUME ModesInit PROVE Clean /\ Boots
  OBVIOUS
<1>1. Spare \in Sectors /\ used \in Sectors
  BY DEF ModesInit, Init, BootSector, InitSector, Spare, Other, Sectors
<1>2. rec[Spare] = Erased /\ rec[used] = Erased /\ ~mark[Spare] BY <1>1 DEF ModesInit, Init
<1>3. \A x : Whole(used, x) /\ Whole(Spare, x) BY <1>2 DEF Whole, IsRec, Erased
<1> QED BY <1>2, <1>3 DEF ModesInit, Init, Clean, Boots

LEMMA NextClean == TInv /\ WInv /\ Clean /\ [ModesNext]_<<vars, mode>> => Clean'
<1> SUFFICES ASSUME TInv, WInv, Clean, [ModesNext]_<<vars, mode>>, mode' # "losses" PROVE Clean'
  BY DEF Clean
<1>1. /\ mode' = mode /\ used \in Sectors /\ mark \in [Sectors -> BOOLEAN] /\ TypeOK
      /\ Spare \in Sectors /\ Spare # used /\ mode # "losses"
  BY DEF ModesNext, TInv, TypeOK, Spare, Other, Sectors
<1>2. /\ ~tainted
      /\ pc \notin {"swap", "copy", "mark", "erase"} => rec[Spare] = Erased /\ ~mark[Spare]
      /\ Whole(used, IF pc = "append" THEN addr ELSE Cap)
      /\ Whole(Spare, IF pc = "copy" THEN dst ELSE Cap)
  BY <1>1 DEF Clean
<1>3. \A s, x : rec' = rec /\ Whole(s, x) => Whole(s, x)' BY DEF Whole, IsRec
<1>4. CASE \/ UNCHANGED vars \/ Undefined \/ CallRead \/ CallDelete \/ CallWrite
           \/ ReadSkip \/ ReadReturn \/ ScanSkip
  <2>1. /\ UNCHANGED <<mark, rec, used, tainted>> /\ Spare' = Spare
        /\ \/ pc' = pc /\ UNCHANGED <<addr, dst>>
           \/ {pc, pc'} \subseteq {"idle", "read", "delete", "discard", "scan"}
    BY <1>4 DEF vars, flash, Undefined, CallRead, CallDelete, CallWrite, Call, ReadSkip, Reading,
                ReadReturn, ScanSkip, Return, Spare
  <2>2. CASE pc' = pc /\ UNCHANGED <<addr, dst>>
    <3>1. UNCHANGED <<mark, rec, used, tainted, pc, addr, dst>> BY <2>1, <2>2
    <3> QED BY <1>2, <3>1 DEF Clean, Whole, IsRec, Spare
  <2>3. CASE {pc, pc'} \subseteq {"idle", "read", "delete", "discard", "scan"}
    BY <1>2, <2>1, <2>3, <1>3 DEF Clean, Whole, IsRec
  <2> QED BY <2>1, <2>2, <2>3
<1>5. CASE DeleteReturn \/ Discarded
  <2>1. /\ UNCHANGED <<mark, used, tainted>> /\ Spare' = Spare
        /\ pc \in {"delete", "discard"} /\ pc' \in {"idle", "scan"}
        /\ rec' = rec \/ (Found /\ Invalidate)
    BY <1>5 DEF DeleteReturn, Discarded, Return, Spare
  <2>2. rec'[Spare] = rec[Spare]
    BY <1>1, <2>1 DEF Invalidate, Program, TypeOK
  <2>3. Whole(used, Cap)'
    <3>1. CASE rec' = rec BY <1>2, <2>1, <3>1 DEF Whole, IsRec
    <3>2. CASE Found /\ Invalidate
      <4>1. Here.part = "whole"
        BY <1>2, <2>1, <3>2, TinyAssumption DEF Whole, Found, AtEnd, Here, IsRec, Addr
      <4>2. Here \in Record BY <1>1, <3>2, RecType DEF Found, AtEnd, Here
      <4>3. PICK r : r = [Here EXCEPT !.live = FALSE] OBVIOUS
      <4>4. r.part = "whole" BY <4>1, <4>2, <4>3 DEF Record
      <4>5. PICK s \in Sectors : s = used BY <1>1
      <4>6. Program(s, addr, r) BY <3>2, <4>3, <4>5 DEF Invalidate
      <4>7. Whole(s, Cap) BY <1>2, <2>1, <4>5
      <4>8. Whole(s, Cap)' BY <1>1, <4>4, <4>6, <4>7, ProgramWhole
      <4> QED BY <2>1, <4>5, <4>8 DEF Whole, IsRec
    <3> QED BY <2>1, <3>1, <3>2
  <2> QED BY <1>2, <2>1, <2>2, <2>3 DEF Clean, Whole, IsRec
<1>6. CASE ScanAppend \/ ScanAppendFirst \/ ScanAppendRest
  <2>1. /\ UNCHANGED <<mark, used, tainted>> /\ Spare' = Spare /\ pc \in {"scan", "append"}
    BY <1>6 DEF ScanAppend, ScanAppendFirst, ScanAppendRest, Return, Spare
  <2>2. PICK r : /\ Program(used, addr, r)
                 /\ \/ pc' = "idle" /\ r = NewRec
                    \/ pc' = "append" /\ addr' = addr
    BY <1>6 DEF ScanAppend, ScanAppendFirst, ScanAppendRest, Return
  <2>3. rec'[Spare] = rec[Spare]
    BY <1>1, <2>2 DEF Program, TypeOK
  <2>4. PICK s \in Sectors : s = used BY <1>1
  <2>5. PICK x : x = (IF pc = "append" THEN addr ELSE Cap) OBVIOUS
  <2>6. Whole(s, x) /\ x \in {addr, Cap} BY <1>2, <2>4, <2>5
  <2>7. PICK a : a = addr OBVIOUS
  <2>12. Whole(s, a)' /\ (r.part = "whole" => Whole(s, Cap)')
    <3>1. Program(s, a, r) BY <2>2, <2>4, <2>7
    <3> QED BY <1>1, <2>6, <2>7, <3>1, ProgramWhole
  <2>8. NewRec.part = "whole" BY DEF NewRec
  <2>9. Whole(used, IF pc = "append" THEN addr ELSE Cap)'
    BY <2>1, <2>2, <2>4, <2>7, <2>8, <2>12 DEF Whole, IsRec
  <2> QED BY <1>2, <2>1, <2>2, <2>3, <2>9 DEF Clean, Whole, IsRec
<1>7. CASE ScanNoRoom
  <2>1. UNCHANGED <<mark, rec, used>> /\ pc = "scan" /\ pc' \in {"swap", "idle"}
        /\ Spare' = Spare
        /\ (tainted' <=> tainted \/ (dirty /\ (rec[Spare] # Erased \/ mark[Spare])))
    BY <1>7 DEF ScanNoRoom, Return, flash, Spare
  <2> QED BY <1>1, <1>2, <2>1 DEF Clean, Whole, IsRec
<1>8. CASE SwapCopy \/ SwapCopyFirst \/ SwapCopyRest
  <2>1. /\ UNCHANGED <<mark, used, tainted>> /\ Spare' = Spare /\ pc \in {"swap", "copy"}
        /\ IsRec(used, addr)
    BY <1>8 DEF SwapCopy, SwapCopyFirst, SwapCopyRest, Spare, AtEnd, TInv, Fits
  <2>2. PICK r : /\ Program(Spare, dst, r)
                 /\ \/ pc' = "swap" /\ r = Here
                    \/ pc' = "copy" /\ dst' = dst
    BY <1>8 DEF SwapCopy, SwapCopyFirst, SwapCopyRest
  <2>3. rec'[used] = rec[used]
    BY <1>1, <2>2 DEF Program, TypeOK
  <2>4. PICK s \in Sectors : s = Spare BY <1>1
  <2>5. PICK x : x = (IF pc = "copy" THEN dst ELSE Cap) OBVIOUS
  <2>6. Whole(s, x) /\ x \in {dst, Cap} BY <1>2, <2>4, <2>5
  <2>7. PICK a : a = dst OBVIOUS
  <2>12. Whole(s, a)' /\ (r.part = "whole" => Whole(s, Cap)')
    <3>1. Program(s, a, r) BY <2>2, <2>4, <2>7
    <3> QED BY <1>1, <2>6, <2>7, <3>1, ProgramWhole
  <2>8. Here.part = "whole"
    BY <1>2, <2>1, TinyAssumption DEF Whole, Here, IsRec, Addr
  <2>9. Whole(Spare, IF pc = "copy" THEN dst ELSE Cap)'
    BY <2>1, <2>2, <2>4, <2>7, <2>8, <2>12 DEF Whole, IsRec
  <2>10. Whole(used, IF pc = "append" THEN addr ELSE Cap)'
    <3>1. pc \notin {"append"} /\ pc' \notin {"append"} BY <2>1, <2>2
    <3> QED BY <1>2, <2>1, <2>3, <3>1 DEF Whole, IsRec
  <2>11. pc' \in {"swap", "copy"} BY <2>2
  <2> QED BY <1>2, <2>1, <2>9, <2>10, <2>11 DEF Clean
<1>9. CASE SwapClash
  <2>1. Whole(used, Cap) BY <1>2, <1>9 DEF SwapClash
  <2> QED BY <1>2, <1>9, <2>1, NoClash
<1>10. CASE SwapDrop \/ SwapCopied \/ SwapMark
  <2>1. /\ UNCHANGED <<rec, used, tainted>> /\ pc \in {"swap", "mark"}
        /\ pc' \in {"swap", "mark", "erase"} /\ Spare' = Spare
    BY <1>10 DEF SwapDrop, SwapCopied, SwapMark, flash, Spare
  <2> QED BY <1>1, <1>2, <2>1 DEF Clean, Whole, IsRec
<1>11. CASE SwapErase
  <2>1. /\ mark' = [mark EXCEPT ![used] = FALSE] /\ rec' = [rec EXCEPT ![used] = Erased]
        /\ used' = Spare /\ pc = "erase" /\ pc' = "scan" /\ tainted' = tainted
    BY <1>11 DEF SwapErase
  <2>2. Spare' = used BY <1>1, <2>1 DEF Spare, Other, Sectors
  <2>3. ~mark'[used] /\ rec'[used] = Erased /\ rec'[Spare] = rec[Spare]
    BY <1>1, <2>1 DEF TypeOK
  <2>4. Whole(used, Cap)' BY <1>2, <2>1, <2>3 DEF Whole, IsRec
  <2>5. Whole(Spare, Cap)' BY <2>2, <2>3 DEF Whole, IsRec, Erased
  <2> QED BY <1>2, <2>1, <2>2, <2>3, <2>4, <2>5 DEF Clean
<1>12. CASE Format
  <2>1. /\ mark' = [s \in Sectors |-> FALSE] /\ rec' = [s \in Sectors |-> Erased]
        /\ tainted' = FALSE /\ used' = used /\ pc' = "idle" /\ Spare' = Spare
    BY <1>12 DEF Format, Spare
  <2>2. rec'[used] = Erased /\ rec'[Spare] = Erased /\ ~mark'[Spare] BY <1>1, <2>1
  <2>3. Whole(used, Cap)' /\ Whole(Spare, Cap)' BY <2>1, <2>2 DEF Whole, IsRec, Erased
  <2> QED BY <2>1, <2>2, <2>3 DEF Clean
<1> QED
  BY <1>1, <1>4, <1>5, <1>6, <1>7, <1>8, <1>9, <1>10, <1>11, <1>12 DEF ModesNext, Step

LEMMA NextBoots == TypeOK /\ Boots /\ [ModesNext]_<<vars, mode>> => Boots'
<1> SUFFICES ASSUME TypeOK, Boots, [ModesNext]_<<vars, mode>>, mode' # "formats" PROVE Boots'
  BY DEF Boots
<1>1. /\ mode' = mode /\ used \in Sectors /\ mark \in [Sectors -> BOOLEAN]
      /\ pc # "erase" => used = BootSector
      /\ pc = "erase" => mark[Spare]
  BY DEF ModesNext, TypeOK, Boots
<1>2. Spare = (IF used = 1 THEN 2 ELSE 1) /\ Spare \in Sectors /\ Spare # used
  BY <1>1 DEF Spare, Other, Sectors
<1>3. CASE SwapMark
  <2>1. mark' = [mark EXCEPT ![Spare] = TRUE] /\ pc' = "erase" /\ used' = used /\ Spare' = Spare
    BY <1>3 DEF SwapMark, Spare
  <2> QED BY <1>1, <1>2, <2>1 DEF Boots
<1>4. CASE SwapErase
  <2>1. /\ mark' = [mark EXCEPT ![used] = FALSE] /\ used' = Spare
        /\ pc = "erase" /\ pc' = "scan"
    BY <1>4 DEF SwapErase
  <2>2. ~mark'[used] /\ mark'[Spare]
    BY <1>1, <1>2, <2>1
  <2>3. used' = BootSector'
    BY <1>1, <1>2, <2>1, <2>2 DEF BootSector, InitSector, Sectors
  <2> QED BY <2>1, <2>3 DEF Boots
<1>5. CASE PowerLoss
  <2>1. used' = BootSector' /\ pc' = "idle"
    BY <1>5 DEF PowerLoss, BootSector, flash
  <2> QED BY <2>1 DEF Boots
<1>6. CASE ~(SwapMark \/ SwapErase \/ PowerLoss)
  <2>1. UNCHANGED <<mark, used>> /\ (pc' = "erase" <=> pc = "erase")
    BY <1>1, <1>6
       DEF ModesNext, Step, CallRead, CallDelete, CallWrite, Call, ReadSkip, Reading, ReadReturn,
           DeleteReturn, Discarded, ScanSkip, ScanAppend, ScanAppendFirst, ScanAppendRest,
           ScanNoRoom, SwapCopy, SwapCopyFirst, SwapCopyRest, SwapClash, SwapDrop, SwapCopied,
           Undefined, Return, flash, vars
  <2> QED BY <1>1, <2>1 DEF Boots, BootSector, Spare
<1> QED BY <1>3, <1>4, <1>5, <1>6

\* The value of a key is that of its one valid record.
LEMMA ViewIs ==
  ASSUME NEW s \in Sectors, NEW k \in Keys, Unique(s)
  PROVE  /\ Live(s, k) = {} => View(s)[k] = NoVal
         /\ \A a \in Live(s, k) : View(s)[k] = Value(rec[s][a])
<1> DEFINE c == CHOOSE a \in Live(s, k) : TRUE
<1>1. View(s)[k] = IF Live(s, k) = {} THEN NoVal ELSE Value(rec[s][c])
  BY DEF View
<1>2. ASSUME NEW a \in Live(s, k) PROVE c = a
  <2>1. c \in Live(s, k) BY <1>2
  <2> QED BY <1>2, <2>1 DEF Unique
<1> QED BY <1>1, <1>2

LEMMA ViewIsNext ==
  ASSUME NEW s \in Sectors, NEW k \in Keys, Unique(s)'
  PROVE  /\ Live(s, k)' = {} => View(s)'[k] = NoVal
         /\ \A a \in Live(s, k)' : View(s)'[k] = Value(rec'[s][a])
<1> DEFINE c == CHOOSE a \in Live(s, k)' : TRUE
<1>1. View(s)'[k] = IF Live(s, k)' = {} THEN NoVal ELSE Value(rec'[s][c])
  BY DEF View, Value
<1>2. ASSUME NEW a \in Live(s, k)' PROVE c = a
  <2>1. c \in Live(s, k)' BY <1>2
  <2> QED BY <1>2, <2>1 DEF Unique
<1> QED BY <1>1, <1>2

\* Two dictionaries with the same values are the same.
LEMMA ViewExt ==
  /\ \A s, t \in Sectors : (\A k \in Keys : View(s)[k] = View(t)[k]) => View(s) = View(t)
  /\ \A s, t \in Sectors : (\A k \in Keys : View(s)[k] = View(t)'[k]) => View(t)' = View(s)
  /\ \A s \in Sectors, j \in Keys : \A v :
       (\A k \in Keys : View(s)'[k] = IF k = j THEN v ELSE View(s)[k])
         => View(s)' = [View(s) EXCEPT ![j] = v]
<1>1. ASSUME NEW s \in Sectors
      PROVE  /\ View(s) = [k \in Keys |-> View(s)[k]]
             /\ View(s)' = [k \in Keys |-> View(s)'[k]]
  BY DEF View
<1>2. ASSUME NEW s \in Sectors, NEW t \in Sectors, \A k \in Keys : View(s)[k] = View(t)[k]
      PROVE  View(s) = View(t)
  <2> DEFINE f == View(s)
             g == View(t)
  <2>1. f = [k \in Keys |-> f[k]] /\ g = [k \in Keys |-> g[k]] BY <1>1
  <2>2. \A k \in Keys : f[k] = g[k] BY <1>2
  <2> HIDE DEF f, g
  <2>3. f = g BY <2>1, <2>2
  <2> QED BY <2>3 DEF f, g
<1>3. ASSUME NEW s \in Sectors, NEW t \in Sectors, \A k \in Keys : View(s)[k] = View(t)'[k]
      PROVE  View(t)' = View(s)
  <2> DEFINE f == View(s)
             g == View(t)'
  <2>1. f = [k \in Keys |-> f[k]] /\ g = [k \in Keys |-> g[k]] BY <1>1
  <2>2. \A k \in Keys : f[k] = g[k] BY <1>3
  <2> HIDE DEF f, g
  <2>3. f = g BY <2>1, <2>2
  <2> QED BY <2>3 DEF f, g
<1>4. ASSUME NEW s \in Sectors, NEW j \in Keys, NEW v,
             \A k \in Keys : View(s)'[k] = IF k = j THEN v ELSE View(s)[k]
      PROVE  View(s)' = [View(s) EXCEPT ![j] = v]
  <2> DEFINE f == View(s)
             g == View(s)'
  <2>1. f = [k \in Keys |-> f[k]] /\ g = [k \in Keys |-> g[k]] BY <1>1
  <2>2. \A k \in Keys : g[k] = IF k = j THEN v ELSE f[k] BY <1>4
  <2> HIDE DEF f, g
  <2>3. g = [f EXCEPT ![j] = v] BY <2>1, <2>2
  <2> QED BY <2>3 DEF f, g
<1> QED BY <1>2, <1>3, <1>4

\* Flash that a step does not touch keeps its dictionary.
LEMMA SameView ==
  ASSUME rec' = rec, NEW s \in Sectors, Unique(s)
  PROVE  View(s)' = View(s)
<1>1. Unique(s)' BY SameLive
<1>2. ASSUME NEW k \in Keys PROVE View(s)[k] = View(s)'[k]
  <2>1. Live(s, k)' = Live(s, k) BY SameLive
  <2>2. CASE Live(s, k) = {} BY <1>1, <2>1, <2>2, ViewIs, ViewIsNext
  <2>3. ASSUME NEW a \in Live(s, k) PROVE View(s)[k] = View(s)'[k]
    <3>1. a \in Live(s, k)' BY <2>1
    <3>2. View(s)[k] = Value(rec[s][a]) BY ViewIs
    <3>3. View(s)'[k] = Value(rec'[s][a]) BY <1>1, <3>1, ViewIsNext
    <3> QED BY <3>2, <3>3
  <2> QED BY <2>2, <2>3
<1> QED BY <1>2, ViewExt

\* A finished copy is the dictionary it was made from.
LEMMA CopiedView ==
  ASSUME TypeOK, UInv, WInv, ~tainted, pc \in {"mark", "erase"}
  PROVE  View(Spare) = View(used)
<1>1. used \in Sectors /\ Spare \in Sectors /\ Unique(used) /\ Unique(Spare)
  BY DEF TypeOK, UInv, Spare, Other, Sectors
<1>2. CopyOnly(Cap) /\ AllCopied(Cap) BY DEF UInv, WInv
<1>3. \A a \in Addr : a < Cap BY TinyAssumption DEF Addr
<1>4. ASSUME NEW k \in Keys PROVE View(Spare)[k] = View(used)[k]
  <2>1. ASSUME NEW a \in Live(used, k) PROVE View(Spare)[k] = View(used)[k]
    <3>1. PICK b \in Live(Spare, k) : rec[Spare][b] = rec[used][a]
      BY <1>2, <1>3 DEF AllCopied, Live
    <3> QED BY <1>1, <3>1, ViewIs
  <2>2. ASSUME NEW b \in Live(Spare, k) PROVE View(Spare)[k] = View(used)[k]
    <3>1. PICK a \in Addr : IsRec(used, a) /\ rec[used][a] = rec[Spare][b]
      BY <1>2 DEF CopyOnly, Live
    <3>2. a \in Live(used, k) BY <3>1 DEF Live
    <3> QED BY <2>1, <3>2
  <2>3. CASE Live(used, k) = {} /\ Live(Spare, k) = {} BY <1>1, <2>3, ViewIs
  <2> QED BY <2>1, <2>2, <2>3
<1> QED BY <1>1, <1>4, ViewExt

\* Programming a record of a key that has no valid record elsewhere gives the
\* key its value, or none if the record is not valid.
LEMMA ProgramView ==
  ASSUME TypeOK, NEW s \in Sectors, NEW a \in Addr, NEW r \in Record, Program(s, a, r),
         Unique(s), Unique(s)',
         IsRec(s, a) => rec[s][a].key = r.key \/ ~rec[s][a].live,
         \A b \in Live(s, r.key) : b = a
  PROVE  View(s)' = [View(s) EXCEPT ![r.key] = IF r.live THEN Value(r) ELSE NoVal]
<1> DEFINE k0 == r.key
           v0 == IF r.live THEN Value(r) ELSE NoVal
<1>1. k0 \in Keys /\ r # NoRec BY TinyAssumption DEF Record
<1>2. \A b \in Addr : rec'[s][b] = IF b = a THEN r ELSE rec[s][b]
  BY DEF Program, TypeOK
<1>3. ASSUME NEW k \in Keys PROVE View(s)'[k] = IF k = k0 THEN v0 ELSE View(s)[k]
  <2>1. CASE k = k0 /\ r.live
    <3>1. a \in Live(s, k)' BY <1>1, <1>2, <2>1 DEF Live, IsRec
    <3>2. View(s)'[k] = Value(rec'[s][a]) BY <3>1, ViewIsNext
    <3> QED BY <1>2, <2>1, <3>2
  <2>2. CASE k = k0 /\ ~r.live
    <3>1. Live(s, k)' = {}
      <4> SUFFICES ASSUME NEW b \in Live(s, k)' PROVE FALSE
        OBVIOUS
      <4>1. b \in Addr /\ rec'[s][b] # NoRec /\ rec'[s][b].live /\ rec'[s][b].key = k
        BY DEF Live, IsRec
      <4>2. b # a BY <1>2, <2>2, <4>1
      <4>3. b \in Live(s, k) BY <1>2, <4>1, <4>2 DEF Live, IsRec
      <4> QED BY <2>2, <4>2, <4>3
    <3> QED BY <2>2, <3>1, ViewIsNext
  <2>3. CASE k # k0
    <3>1. ASSUME NEW b \in Addr PROVE b \in Live(s, k)' <=> b \in Live(s, k)
      <4>1. CASE b = a BY <1>2, <2>3, <4>1 DEF Live, IsRec
      <4>2. CASE b # a BY <1>2, <4>2 DEF Live, IsRec
      <4> QED BY <4>1, <4>2
    <3>2. Live(s, k)' = Live(s, k) BY <3>1 DEF Live
    <3>3. a \notin Live(s, k) BY <2>3 DEF Live
    <3>4. \A b \in Live(s, k) : rec'[s][b] = rec[s][b]
      BY <1>2, <3>3 DEF Live
    <3>5. CASE Live(s, k) = {} BY <2>3, <3>2, <3>5, ViewIs, ViewIsNext
    <3>6. ASSUME NEW b \in Live(s, k) PROVE View(s)'[k] = View(s)[k]
      <4>1. View(s)[k] = Value(rec[s][b]) BY ViewIs
      <4>2. View(s)'[k] = Value(rec'[s][b]) BY <3>2, ViewIsNext
      <4> QED BY <3>4, <4>1, <4>2
    <3> QED BY <2>3, <3>5, <3>6
  <2> QED BY <2>1, <2>2, <2>3
<1> QED BY <1>1, <1>3, ViewExt

\* A key without a value stays without one.
LEMMA NoValView ==
  ASSUME NEW s, NEW k \in Keys, View(s)[k] = NoVal
  PROVE  View(s) = [View(s) EXCEPT ![k] = NoVal]
<1>1. PICK f : f = View(s) OBVIOUS
<1>2. f = [j \in Keys |-> f[j]] BY <1>1 DEF View
<1> QED BY <1>1, <1>2

\* Deleting the record a search has found takes the key out of the dictionary.
LEMMA InvalidateView ==
  ASSUME TInv, \A s \in Sectors : Unique(s), Found, Invalidate, used' = used, key' = key
  PROVE  View(used)' = [View(used) EXCEPT ![key] = NoVal]
<1>1. /\ used \in Sectors /\ addr \in Addr /\ Here \in Record /\ key \in Keys
      /\ TypeOK /\ Here.key = key /\ Here = rec[used][addr] /\ Here.live
  BY RecType DEF Found, AtEnd, Here, TInv, TypeOK
<1>2. \A s \in Sectors : Unique(s)' BY <1>1, InvalidateLive
<1>3. PICK s \in Sectors, r \in Record : s = used /\ r = [Here EXCEPT !.live = FALSE]
  BY <1>1 DEF Record
<1>4. r.key = key /\ ~r.live BY <1>1, <1>3 DEF Record
<1>5. Program(s, addr, r) BY <1>3 DEF Invalidate
<1>6. addr \in Live(s, key) BY <1>1, <1>3, TinyAssumption DEF Live, IsRec
<1>7. \A b \in Live(s, r.key) : b = addr BY <1>1, <1>3, <1>4, <1>6 DEF Unique
<1>8. PICK a \in Addr : a = addr BY <1>1
<1>9. Unique(s) /\ Unique(s)' /\ Program(s, a, r) /\ (\A b \in Live(s, r.key) : b = a)
      /\ rec[s][a].key = r.key
  BY <1>1, <1>2, <1>3, <1>4, <1>5, <1>7, <1>8
<1>10. View(s)' = [View(s) EXCEPT ![r.key] = IF r.live THEN Value(r) ELSE NoVal]
  BY <1>1, <1>9, ProgramView
<1>11. View(used)' = View(s)' BY <1>3 DEF View, Live, IsRec, Value
<1> QED BY <1>3, <1>4, <1>10, <1>11

Inv == TypeOK /\ TInv /\ CInv /\ UInv /\ WInv
MInv == Clean /\ Boots

\* A read finds the value of its key, or none.
LEMMA ReadView ==
  ASSUME Inv, ~tainted, Reading
  PROVE  /\ Found => View(used)[key] = Value(Here) /\ Value(Here) # NoVal
         /\ AtEnd(used) => View(used)[key] = NoVal
<1>1. used \in Sectors /\ key \in Keys /\ Unique(used)
  BY DEF Inv, TypeOK, UInv
<1>2. ASSUME Found PROVE View(used)[key] = Value(Here) /\ Value(Here) # NoVal
  <2>1. addr \in Live(used, key) BY <1>2 DEF Found, AtEnd, IsRec, Live, Here
  <2>2. Here \in Record BY <1>1, <1>2, RecType DEF Inv, Found, AtEnd, Here
  <2>3. View(used)[key] = Value(Here) BY <1>1, <2>1, ViewIs DEF Here
  <2>4. Here.val \in Vals BY <2>2 DEF Record
  <2>5. Value(Here) # NoVal BY <2>4, TinyAssumption DEF Value
  <2> QED BY <2>3, <2>5
<1>3. ASSUME AtEnd(used) PROVE View(used)[key] = NoVal
  <2>1. Live(used, key) = {} BY <1>3, EndOfLog DEF Inv, UInv
  <2> QED BY <1>1, <2>1, ViewIs
<1> QED BY <1>2, <1>3

\* Every step of a call is a step of the dictionary in use, or invisible.
LEMMA StepRefines ==
  ASSUME Inv, Inv', ~tainted, ~tainted',
         CallRead \/ CallDelete \/ CallWrite \/ Step \/ Undefined
  PROVE  [InSession!KVNext]_(InSession!kvVars)
<1> USE TinyAssumption
<1>1. /\ used \in Sectors /\ Spare \in Sectors /\ key \in Keys
      /\ \A s \in Sectors : Unique(s) /\ Unique(s)'
      /\ TypeOK /\ TInv
  BY DEF Inv, TypeOK, UInv, Spare, Other, Sectors
<1>2. PICK u \in Sectors : u = used BY <1>1
<1>3. used' = used => View(used)' = View(u)' BY <1>2 DEF View, Live, IsRec
<1>4. rec' = rec /\ used' = used => View(used)' = View(used)
  BY <1>1, <1>2, <1>3, SameView
<1>5. CASE CallRead \/ CallDelete \/ CallWrite
  <2>1. /\ rec' = rec /\ used' = used /\ pc = "idle" /\ pc' \in {"read", "delete", "discard"}
        /\ key' \in Keys /\ val' \in Vals /\ result' = "none"
    BY <1>1, <1>5 DEF CallRead, CallDelete, CallWrite, Call, flash, TypeOK
  <2>2. Call_ = "none" /\ Call_' \in {"read", "delete", "write"} BY <2>1 DEF Call_
  <2> QED BY <1>4, <2>1, <2>2 DEF InSession!KVNext, InSession!Invoke
<1>6. CASE UNCHANGED vars \/ Undefined \/ ReadSkip \/ ScanSkip \/ SwapDrop \/ SwapCopied
           \/ SwapMark
  <2>1. /\ rec' = rec /\ used' = used /\ UNCHANGED <<key, val, result>>
        /\ pc' = pc \/ (pc = "swap" /\ pc' = "mark") \/ (pc = "mark" /\ pc' = "erase")
    BY <1>6 DEF vars, flash, args, Undefined, ReadSkip, ScanSkip, SwapDrop, SwapCopied, SwapMark
  <2>2. Call_' = Call_ BY <2>1 DEF Call_
  <2> QED BY <1>4, <2>1, <2>2 DEF InSession!kvVars
<1>7. CASE ReadReturn
  <2>1. /\ rec' = rec /\ used' = used /\ UNCHANGED <<key, val>>
        /\ pc = "read" /\ pc' = "idle" /\ (AtEnd(used) \/ Found)
        /\ result' = IF Found THEN Value(Here) ELSE NoVal
    BY <1>7 DEF ReadReturn, Return, flash, args
  <2>2. Call_ = "read" /\ Call_' = "none" BY <2>1 DEF Call_
  <2>3. result' = View(used)[key] BY <2>1, ReadView DEF Reading
  <2> QED BY <1>4, <2>1, <2>2, <2>3 DEF InSession!KVNext, InSession!ReturnRead
<1>8. CASE DeleteReturn
  <2>1. /\ used' = used /\ UNCHANGED <<key, val>> /\ pc = "delete" /\ pc' = "idle"
    BY <1>8 DEF DeleteReturn, Return, args
  <2>2. Call_ = "delete" /\ Call_' = "none" BY <2>1 DEF Call_
  <2>3. /\ View(used)' = [View(used) EXCEPT ![key] = NoVal]
        /\ result' = IF View(used)[key] = NoVal THEN NoVal ELSE "ok"
    <3>1. CASE Found /\ Invalidate /\ Return("ok")
      <4>1. View(used)' = [View(used) EXCEPT ![key] = NoVal]
        BY <1>1, <2>1, <3>1, InvalidateView
      <4>2. View(used)[key] # NoVal BY <2>1, <3>1, ReadView DEF Reading
      <4> QED BY <3>1, <4>1, <4>2 DEF Return
    <3>2. CASE AtEnd(used) /\ Return(NoVal) /\ UNCHANGED rec
      <4>1. View(used)[key] = NoVal BY <2>1, <3>2, ReadView DEF Reading
      <4>2. View(used) = [View(used) EXCEPT ![key] = NoVal] BY <1>1, <4>1, NoValView
      <4> QED BY <1>4, <2>1, <3>2, <4>1, <4>2 DEF Return
    <3> QED BY <1>8, <3>1, <3>2 DEF DeleteReturn
  <2> QED BY <2>1, <2>2, <2>3 DEF InSession!KVNext, InSession!ReturnDelete
<1>9. CASE Discarded
  <2>1. /\ used' = used /\ UNCHANGED <<key, val, result>> /\ pc = "discard" /\ pc' = "scan"
    BY <1>9 DEF Discarded, args
  <2>2. Call_ = "write" /\ Call_' = "write" BY <2>1 DEF Call_
  <2>3. View(used)' = [View(used) EXCEPT ![key] = NoVal]
    <3>1. CASE Found /\ Invalidate BY <1>1, <2>1, <3>1, InvalidateView
    <3>2. CASE AtEnd(used) /\ UNCHANGED rec
      <4>1. View(used)[key] = NoVal BY <2>1, <3>2, ReadView DEF Reading
      <4>2. View(used) = [View(used) EXCEPT ![key] = NoVal] BY <1>1, <4>1, NoValView
      <4> QED BY <1>4, <2>1, <3>2, <4>2
    <3> QED BY <1>9, <3>1, <3>2 DEF Discarded
  <2> QED BY <2>1, <2>2, <2>3 DEF InSession!KVNext, InSession!Discard
<1>10. CASE ScanAppend \/ ScanAppendFirst \/ ScanAppendRest
  <2>1. /\ used' = used /\ UNCHANGED <<key, val>> /\ pc \in {"scan", "append"}
        /\ \/ pc' = "idle" /\ result' = "ok"
           \/ pc' = "append" /\ result' = result
    BY <1>10 DEF ScanAppend, ScanAppendFirst, ScanAppendRest, Return, args
  <2>2. Call_ = "write" /\ Call_' = (IF pc' = "idle" THEN "none" ELSE "write")
    BY <2>1 DEF Call_
  <2>3. /\ NewRec \in Record /\ NewRec.key = key /\ NewRec.live /\ NewRec.part = "whole"
        /\ NewRec.val = val /\ Size(NewRec) \in Nat /\ Size(NewRec) >= Hdr
    <3>1. NewRec \in Record BY <1>1, Zenon DEF NewRec, Record, Parts, TypeOK
    <3> QED BY <3>1, SizeType DEF NewRec
  <2>4. addr \in Addr
    <3>1. val \in Vals /\ ValLen[val] \in Nat /\ addr \in Nat BY <1>1 DEF TypeOK
    <3>2. CASE ScanAppendRest
      BY <1>1, <2>3, <3>1, <3>2 DEF ScanAppendRest, TInv, Fits, Addr, Hdr
    <3>3. CASE ScanAppend \/ ScanAppendFirst
      BY <3>1, <3>3 DEF ScanAppend, ScanAppendFirst, NoRoom, Addr, Hdr
    <3> QED BY <1>10, <3>2, <3>3
  <2>5. PICK r \in Record :
          /\ r.key = key /\ Program(used, addr, r)
          /\ \/ pc' = "idle" /\ r = NewRec
             \/ pc' = "append" /\ pc = "scan" /\ Value(r) = Damaged
    <3>1. CASE ScanAppend \/ ScanAppendRest
      BY <2>3, <3>1 DEF ScanAppend, ScanAppendRest, Return
    <3>2. CASE ScanAppendFirst
      <4>1. PICK n \in Cuts(addr, NewRec) : Program(used, addr, Prefix(NewRec, n))
        BY <3>2 DEF ScanAppendFirst
      <4>2. n \in Nat \ {0} BY <2>3 DEF Cuts
      <4>3. PICK p \in Record : p = Prefix(NewRec, n) /\ p.key = key /\ p.part # "whole"
        BY <2>3, <4>2, PrefixType
      <4>4. Value(p) = Damaged BY <4>3 DEF Value
      <4> QED BY <3>2, <4>1, <4>3, <4>4 DEF ScanAppendFirst
    <3> QED BY <1>10, <3>1, <3>2
  <2>6. /\ \A a \in Live(used, key) : a = addr
        /\ IsRec(used, addr) => rec[used][addr].key = key
    <3>1. CASE pc = "append" BY <3>1 DEF Inv, UInv
    <3>2. CASE pc = "scan"
      <4>1. ~IsRec(used, addr) BY <1>10, <3>2 DEF ScanAppend, ScanAppendFirst, ScanAppendRest
      <4> QED BY <3>2, <4>1 DEF Inv, UInv
    <3> QED BY <2>1, <3>1, <3>2
  <2>7. View(used)' = [View(used) EXCEPT ![key] = IF r.live THEN Value(r) ELSE NoVal]
    <3>1. PICK k \in Keys : k = key BY <1>1
    <3>2. View(u)' = [View(u) EXCEPT ![r.key] = IF r.live THEN Value(r) ELSE NoVal]
      BY <1>1, <1>2, <2>4, <2>5, <2>6, ProgramView
    <3> QED BY <1>2, <1>3, <2>1, <2>5, <3>2
  <2>8. CASE pc' = "idle"
    <3>1. Value(r) = val /\ r.live BY <2>3, <2>5, <2>8 DEF Value
    <3> QED BY <2>1, <2>2, <2>7, <2>8, <3>1 DEF InSession!KVNext, InSession!ReturnWrite
  <2>9. CASE pc' = "append"
    <3>1. Live(used, key) = {} BY <2>5, <2>9 DEF Inv, UInv
    <3>2. View(used)[key] = NoVal BY <1>1, <3>1, ViewIs
    <3>3. pc' # "idle" /\ result' = result /\ Value(r) = Damaged BY <2>1, <2>5, <2>9
    <3>4. CASE r.live
      BY <2>1, <2>2, <2>7, <3>2, <3>3, <3>4 DEF InSession!KVNext, InSession!StorePart
    <3>5. CASE ~r.live
      <4>1. View(used)' = View(used)
        <5>1. View(used) = [View(used) EXCEPT ![key] = NoVal] BY <1>1, <3>2, NoValView
        <5> QED BY <2>7, <3>5, <5>1
      <4> QED BY <2>1, <2>2, <3>3, <4>1 DEF InSession!kvVars
    <3> QED BY <3>4, <3>5
  <2> QED BY <2>1, <2>8, <2>9
<1>11. CASE ScanNoRoom
  <2>1. /\ rec' = rec /\ used' = used /\ UNCHANGED <<key, val>> /\ pc = "scan" /\ NoRoom
    BY <1>11 DEF ScanNoRoom, flash, args
  <2>2. dirty
    <3>1. val \in Vals /\ ValLen[val] \in Nat /\ ValLen[val] <= Cap - 3 /\ addr \in Nat
      BY <1>1 DEF TypeOK, Hdr
    <3>2. addr # 0 BY <2>1, <3>1 DEF NoRoom, Hdr
    <3> QED BY <2>1, <3>2 DEF Inv, WInv
  <2>3. pc' = "swap" /\ result' = result BY <1>11, <2>2 DEF ScanNoRoom
  <2>4. Call_' = Call_ BY <2>1, <2>3 DEF Call_
  <2> QED BY <1>4, <2>1, <2>3, <2>4 DEF InSession!kvVars
<1>12. CASE SwapCopy \/ SwapCopyFirst \/ SwapCopyRest
  <2>1. /\ used' = used /\ UNCHANGED <<key, val, result>>
        /\ {pc, pc'} \subseteq {"swap", "copy"}
        /\ \E r : Program(Spare, dst, r)
    BY <1>12 DEF SwapCopy, SwapCopyFirst, SwapCopyRest, args
  <2>2. rec'[u] = rec[u]
    BY <1>1, <1>2, <2>1 DEF Program, TypeOK, Spare, Other, Sectors
  <2>3. View(u)' = View(u) BY <2>2 DEF View, Live, IsRec
  <2>4. Call_' = Call_ BY <2>1 DEF Call_
  <2> QED BY <1>2, <1>3, <2>1, <2>3, <2>4 DEF InSession!kvVars
<1>13. CASE SwapClash
  BY <1>13 DEF SwapClash
<1>14. CASE SwapErase
  <2>1. /\ UNCHANGED <<key, val, result>> /\ pc = "erase" /\ pc' = "scan"
        /\ used' = Spare /\ rec' = [rec EXCEPT ![used] = Erased]
    BY <1>14 DEF SwapErase, args
  <2>2. PICK s \in Sectors : s = Spare BY <1>1
  <2>3. rec'[s] = rec[s] BY <1>1, <2>1, <2>2 DEF TypeOK, Spare, Other, Sectors
  <2>4. View(s)' = View(s) BY <2>3 DEF View, Live, IsRec
  <2>5. View(used)' = View(s)' BY <2>1, <2>2 DEF View, Live, IsRec
  <2>6. View(Spare) = View(used) BY <2>1, CopiedView DEF Inv
  <2>7. Call_' = Call_ BY <2>1 DEF Call_
  <2> QED BY <2>1, <2>2, <2>4, <2>5, <2>6, <2>7 DEF InSession!kvVars
<1> QED
  BY <1>5, <1>6, <1>7, <1>8, <1>9, <1>10, <1>11, <1>12, <1>13, <1>14 DEF Step

-----------------------------------------------------------------------------
\* A behaviour with formats or power losses is a behaviour with both.
LEMMA ModesInvariant == ModesSpec => [](Inv /\ MInv)
<1>1. ModesInit => Init BY DEF ModesInit
<1>2. [ModesNext]_<<vars, mode>> => [Next]_vars BY DEF ModesNext, Next
<1>3. ModesSpec => Spec BY <1>1, <1>2, PTL DEF ModesSpec, Spec
<1>4. Spec => [](TypeOK /\ TInv /\ CInv)
  BY TypesInvariant, ChainInvariant, PTL
<1>5. Spec => []UInv
  BY <1>4, InitUInv, NextUInv, PTL DEF Spec
<1>6. Spec => []WInv
  BY <1>4, <1>5, InitWInv, NextWInv, PTL DEF Spec
<1>7. ModesSpec => []MInv
  <2>1. ModesInit => MInv BY InitModes DEF MInv
  <2>2. TypeOK /\ TInv /\ WInv /\ MInv /\ [ModesNext]_<<vars, mode>> => MInv'
    BY NextClean, NextBoots DEF MInv
  <2> QED BY <1>3, <1>4, <1>6, <2>1, <2>2, PTL DEF ModesSpec
<1>8. TypeOK /\ TInv /\ CInv /\ UInv /\ WInv => Inv BY DEF Inv
<1> QED BY <1>3, <1>4, <1>5, <1>6, <1>7, <1>8, PTL

LEMMA InitView == Init => View(used) = [k \in Keys |-> NoVal]
<1> SUFFICES ASSUME Init PROVE View(used) = [k \in Keys |-> NoVal]
  OBVIOUS
<1>1. used \in Sectors BY DEF Init, BootSector, InitSector, Sectors
<1>2. \A k \in Keys : Live(used, k) = {} BY <1>1 DEF Init, Live, IsRec, Erased
<1> QED BY <1>2 DEF View

\* ImplementsKV of TinyFlashModes.tla: without power losses tinyFlash is a
\* dictionary, for every set of keys and values and every sector size, through
\* any number of swaps and formats: a read or a delete returns what the
\* dictionary says and nothing else, a write never gives up while its value fits
\* into an empty sector, and no swap ever copies over anything.
THEOREM RefinesKV == ModesSpec => ImplementsKV
<1>1. ModesInit => InSession!KVInit
  BY InitView DEF ModesInit, Init, InSession!KVInit, Call_
<1>2. /\ Inv /\ MInv /\ (Inv /\ MInv)' /\ [ModesNext]_<<vars, mode>>
      => [mode = "losses" \/ (InSession!KVNext /\ ~tainted)]_(InSession!kvVars)
  <2> SUFFICES ASSUME Inv, MInv, Inv', MInv', [ModesNext]_<<vars, mode>>, mode # "losses"
               PROVE  (InSession!KVNext /\ ~tainted) \/ UNCHANGED InSession!kvVars
    OBVIOUS
  <2>1. mode' = mode BY DEF ModesNext
  <2>2. ~tainted /\ ~tainted' BY <2>1 DEF MInv, Clean
  <2>3. CASE CallRead \/ CallDelete \/ CallWrite \/ Step \/ Undefined
    BY <2>2, <2>3, StepRefines
  <2>4. CASE Format
    <3>1. /\ rec' = [s \in Sectors |-> Erased] /\ used' = used /\ pc = "idle" /\ pc' = pc
          /\ UNCHANGED <<key, val, result>>
      BY <2>4 DEF Format, args
    <3>2. Call_ = "none" /\ Call_' = "none" BY <3>1 DEF Call_
    <3>3. used \in Sectors BY DEF Inv, TypeOK
    <3>4. View(used)' = [k \in Keys |-> NoVal]
      <4>1. \A k \in Keys : Live(used, k)' = {} BY <3>1, <3>3 DEF Live, IsRec, Erased
      <4> QED BY <4>1 DEF View
    <3> QED BY <2>2, <3>1, <3>2, <3>4 DEF InSession!KVNext, InSession!Clear
  <2>5. CASE UNCHANGED <<vars, mode>>
    <3>1. UNCHANGED <<rec, used, pc, key, val, result>> BY <2>5 DEF vars, flash, args
    <3>2. View(used)' = View(used) /\ Call_' = Call_ BY <3>1 DEF View, Live, IsRec, Call_
    <3> QED BY <3>1, <3>2 DEF InSession!kvVars
  <2> QED BY <2>3, <2>4, <2>5 DEF ModesNext
<1> QED BY <1>1, <1>2, ModesInvariant, PTL DEF ModesSpec, ImplementsKV

\* The sector a reboot would choose holds the dictionary in use.
Bootable == ~tainted /\ mode # "formats" => View(BootSector) = View(used)

LEMMA BootView == Inv /\ MInv => Bootable
<1> SUFFICES ASSUME Inv, MInv, ~tainted, mode # "formats"
             PROVE  View(BootSector) = View(used)
  BY DEF Bootable
<1>1. CASE pc # "erase" BY <1>1 DEF MInv, Boots
<1>2. CASE pc = "erase"
  <2>1. BootSector \in {used, Spare}
    BY DEF Inv, TypeOK, BootSector, InitSector, Spare, Other, Sectors
  <2> QED BY <1>2, <2>1, CopiedView DEF Inv
<1> QED BY <1>1, <1>2

\* SurvivesPowerLoss of TinyFlashModes.tla: wherever the power fails, also in
\* the middle of a record, a reboot finds the dictionary, with at most the key
\* being written without its value or with a damaged one, until a Swap copies
\* into the remains of an interrupted one.
THEOREM RebootRefinesKV == ModesSpec => SurvivesPowerLoss
<1>1. ModesInit => AfterBoot!KVInit
  <2> SUFFICES ASSUME ModesInit PROVE AfterBoot!KVInit
    OBVIOUS
  <2>1. used = BootSector /\ View(used) = [k \in Keys |-> NoVal]
    BY InitView DEF ModesInit, Init
  <2>2. View(BootSector) = View(used) BY <2>1
  <2> QED BY <2>1, <2>2 DEF ModesInit, Init, AfterBoot!KVInit, Call_
<1>2. /\ Inv /\ MInv /\ Bootable /\ (Inv /\ MInv /\ Bootable)' /\ [ModesNext]_<<vars, mode>>
      => [mode = "formats" \/ tainted' \/ AfterBoot!KVNext \/ AfterBoot!PowerLoss]_(AfterBoot!kvVars)
  <2> SUFFICES ASSUME Inv, MInv, Bootable, Inv', MInv', Bootable',
                      [ModesNext]_<<vars, mode>>, mode # "formats", ~tainted'
               PROVE  AfterBoot!KVNext \/ AfterBoot!PowerLoss \/ UNCHANGED AfterBoot!kvVars
    OBVIOUS
  <2>1. mode' = mode BY DEF ModesNext
  <2>2. CASE CallRead \/ CallDelete \/ CallWrite \/ Step \/ Undefined
    <3>1. ~tainted
      <4>1. CallRead \/ CallDelete \/ CallWrite \/ Undefined => tainted' = tainted
        BY DEF CallRead, CallDelete, CallWrite, Call, Undefined, vars
      <4>2. Step => (tainted => tainted')
        BY DEF Step, ReadSkip, ReadReturn, DeleteReturn, Discarded, ScanSkip, ScanAppend,
               ScanAppendFirst, ScanAppendRest, ScanNoRoom, SwapCopy, SwapCopyFirst,
               SwapCopyRest, SwapClash, SwapDrop, SwapCopied, SwapMark, SwapErase
      <4> QED BY <2>2, <4>1, <4>2
    <3>2. View(BootSector) = View(used) /\ View(BootSector)' = View(used)'
      BY <2>1, <3>1 DEF Bootable
    <3>3. [InSession!KVNext]_(InSession!kvVars) BY <2>2, <3>1, StepRefines
    <3> QED
      BY <3>2, <3>3
         DEF InSession!KVNext, InSession!kvVars, InSession!Invoke, InSession!ReturnRead,
             InSession!ReturnDelete, InSession!Discard, InSession!StorePart,
             InSession!ReturnWrite, InSession!Clear,
             AfterBoot!KVNext, AfterBoot!kvVars, AfterBoot!Invoke, AfterBoot!ReturnRead,
             AfterBoot!ReturnDelete, AfterBoot!Discard, AfterBoot!StorePart,
             AfterBoot!ReturnWrite, AfterBoot!Clear
  <2>3. CASE PowerLoss
    <3>1. UNCHANGED <<rec, mark, key, val>> /\ pc' = "idle" /\ result' = "none"
      BY <2>3 DEF PowerLoss, flash, args
    <3>2. BootSector' = BootSector BY <3>1 DEF BootSector
    <3>3. View(BootSector)' = View(BootSector) BY <3>1, <3>2 DEF View, Live, IsRec
    <3>4. Call_' = "none" BY <3>1 DEF Call_
    <3> QED BY <3>1, <3>3, <3>4 DEF AfterBoot!PowerLoss
  <2>4. CASE UNCHANGED <<vars, mode>>
    <3>1. UNCHANGED <<rec, mark, pc, key, val, result>> BY <2>4 DEF vars, flash, args
    <3>2. BootSector' = BootSector /\ Call_' = Call_ BY <3>1 DEF BootSector, Call_
    <3>3. View(BootSector)' = View(BootSector) BY <3>1, <3>2 DEF View, Live, IsRec
    <3> QED BY <3>1, <3>2, <3>3 DEF AfterBoot!kvVars
  <2> QED BY <2>2, <2>3, <2>4 DEF ModesNext
<1>3. Inv /\ MInv => Bootable BY BootView
<1> QED BY <1>1, <1>2, <1>3, ModesInvariant, PTL DEF ModesSpec, SurvivesPowerLoss
=============================================================================
