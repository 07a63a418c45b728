--------------------------- MODULE OtaGatt_proofs ---------------------------
(***************************************************************************)
(* Proofs about OtaGatt, for every size of the flash area, of the cache    *)
(* and of the numbers, and for every sequence of packets and power losses. *)
(***************************************************************************)
EXTENDS OtaGatt, WellFoundedInduction, SequenceTheorems, TLAPS

\* The control of an update, whatever the packets.
Control ==
  /\ flagged => pc = "boot" /\ finished = Ok
  /\ finished # Continue => cache = <<>> /\ cache_idx = 0 /\ pc \notin {"check", "boot_erase"}
  /\ finished = Ok => pc # "erase"
  /\ pc = "flag" => finished = Ok
  /\ pc \in {"poll", "save", "finish", "flag", "check"} => erased = Sectors
  /\ pc \in {"save", "finish"} => busy \/ sending
  /\ Len(cache) <= cache_idx /\ (cache_idx > 0 => busy)
  /\ addr <= last + 1

\* An update goes on, or may start.
Running == pc \in {"poll", "save", "finish"} /\ finished = Continue

\* What is left of an update can be seen in cell 0: it is programmed first and
\* erased last, and what is programmed over it keeps its 0 bits.
Marked ==
  /\ AreaBlank \/ (flash[0] # Blank /\ HeadBits \subseteq flash[0].bits)
  /\ pc \in {"erase", "boot_erase"} =>
       \A c \in Area : c \div CellsOf >= erased => flash[c] = Blank
  /\ pc \in {"check", "boot_erase"} => last = Top /\ addr = 0 /\ total = 0
  /\ addr # 0 => busy \/ sending
  /\ ~busy => finished = Continue
  /\ Running /\ addr = 0 => AreaBlank /\ last = Top /\ total = 0
  /\ Running /\ addr # 0 => flash[0] # Blank

\* The packets 0 .. last are in their places, and sum is that of those the
\* checksum adds up.
Smaller(a, b) == IF a < b THEN a ELSE b
Summed == IF last = 0 THEN 1 ELSE Smaller(last + 1, total - 1)
Partial ==
  /\ addr = last + 1
  /\ \A i \in 0 .. last : flash[i].what = "packet" /\ flash[i].packet.idx = i
  /\ \A i \in Area : i > last => flash[i] = Blank
  /\ check = flash[0].packet.info.check
  /\ last = 0 => total = 0
  /\ last >= 1 => /\ total >= 3 /\ total = flash[1].packet.info.total
                  /\ mesh \/ flash[1].packet.info.mode
  /\ check => sum = Checksum(flash, Summed)
  /\ check /\ last >= 1 /\ last = total - 1 => flash[last].packet.info.sum = sum
Image ==
  /\ Running /\ addr # 0 /\ ~Overlaid => Partial
  /\ finished = Ok => Whole(flash) \/ Overlaid

-----------------------------------------------------------------------------
(* The operators of the model.                                             *)

\* The natural numbers are in every set that has 0 and with each number the
\* next one.
LEMMA SetInduction ==
  ASSUME NEW S, 0 \in S, \A n \in Nat : n \in S => n + 1 \in S
  PROVE  Nat \subseteq S
<1> SUFFICES ASSUME Nat \ S # {} PROVE FALSE
  OBVIOUS
<1> DEFINE T == Nat \ S
<1>1. PICK x \in T : \A y \in T : <<y, x>> \notin OpToRel(<, Nat)
  BY WFMin, NatLessThanWellFounded, Zenon
<1>2. \A y \in T : ~(y < x) BY <1>1, Zenon DEF OpToRel
<1>3. x \in Nat /\ x # 0 /\ x - 1 \in Nat /\ x - 1 < x OBVIOUS
<1>4. x - 1 \in S BY <1>2, <1>3
<1> QED BY <1>3, <1>4

LEMMA CellsFacts ==
  /\ Size \in 3 .. Top /\ Top \in Nat /\ Top + 1 = IdxMod /\ Cells = 0 .. Top
  /\ Area = 0 .. Size - 1 /\ Area \subseteq Cells /\ 0 \in Area /\ 1 \in Area /\ 0 \in Cells
<1>1. IdxMod \in Nat /\ Top = IdxMod - 1 /\ Size \in 3 .. Top BY OtaAssumption DEF Top
<1>2. Cells = 0 .. Top /\ Area = 0 .. Size - 1 BY DEF Cells, Area
<1> QED BY <1>1, <1>2

\* The sector of a cell of the area.
LEMMA SectorOf ==
  /\ \A c \in Area : c \div CellsOf \in 0 .. Sectors - 1
  /\ 0 \div CellsOf = 0
<1>1. CellsOf \in Nat \ {0} /\ Sectors \in Nat \ {0} BY OtaAssumption
<1>2. 0 \div CellsOf = 0 BY <1>1
<1>3. ASSUME NEW c \in Area PROVE c \div CellsOf \in 0 .. Sectors - 1
  <2>1. c \in Nat /\ c < Sectors * CellsOf
    <3>1. c \in 0 .. Size - 1 /\ Size \in Int BY CellsFacts
    <3> QED BY <3>1 DEF Size
  <2>2. PICK q \in Int, r \in Int : q = c \div CellsOf /\ r = c % CellsOf /\ c = q * CellsOf + r
                                    /\ 0 <= r /\ r < CellsOf
    BY <1>1, <2>1
  <2>3. q >= 0
    <3> SUFFICES ASSUME q <= -1 PROVE FALSE
      BY <2>2
    <3>1. q * CellsOf <= -CellsOf BY <1>1
    <3> QED BY <1>1, <2>1, <2>2, <3>1
  <2>4. q < Sectors
    <3> SUFFICES ASSUME q >= Sectors PROVE FALSE
      BY <1>1, <2>2
    <3>1. q * CellsOf >= Sectors * CellsOf BY <1>1
    <3> QED BY <1>1, <2>1, <2>2, <3>1
  <2> QED BY <1>1, <2>2, <2>3, <2>4
<1> QED BY <1>2, <1>3

LEMMA DataFacts ==
  ASSUME NEW p \in DataPacket
  PROVE  /\ p.idx \in Cells /\ p.crc \in Nat
         /\ p.idx = 0 => p.bits = HeadBits /\ p.info.check \in BOOLEAN
         /\ p.idx = 1 => p.info.total \in 0 .. Top
<1> DEFINE A == [idx : {0}, crc : Crcs, bits : {HeadBits},
                 info : [check : BOOLEAN, total : {0}, mode : {TRUE}, sum : {0}]]
           B == [idx : {1}, crc : Crcs, bits : SUBSET BodyBits,
                 info : [check : {FALSE}, total : 0 .. Top, mode : BOOLEAN, sum : {0}]]
           C == [idx : Cells \ {0, 1}, crc : Crcs, bits : SUBSET BodyBits,
                 info : [check : {FALSE}, total : {0}, mode : {TRUE}, sum : Sums]]
<1>1. DataPacket = A \cup B \cup C BY DEF DataPacket
<1>2. p \in A => p.idx = 0 /\ p.crc \in Crcs /\ p.bits = HeadBits OBVIOUS
<1>3. p \in A => p.info.check \in BOOLEAN OBVIOUS
<1>4. p \in B => p.idx = 1 /\ p.crc \in Crcs OBVIOUS
<1>5. p \in B => p.info.total \in 0 .. Top OBVIOUS
<1>6. p \in C => p.idx \in Cells \ {0, 1} /\ p.crc \in Crcs OBVIOUS
<1> HIDE DEF A, B, C
<1>7. p \in A \/ p \in B \/ p \in C BY <1>1
<1>8. 0 \in Cells /\ 1 \in Cells /\ Crcs \subseteq Nat BY CellsFacts, OtaAssumption
<1>9. p.idx \in Cells /\ p.crc \in Nat BY <1>2, <1>4, <1>6, <1>7, <1>8
<1>10. p.idx = 0 => p \in A BY <1>4, <1>6, <1>7
<1>12. p.idx = 1 => p \in B BY <1>2, <1>6, <1>7
<1> QED BY <1>2, <1>3, <1>5, <1>9, <1>10, <1>12

LEMMA PacketFacts ==
  ASSUME NEW p \in Packet
  PROVE  /\ p.kind = "data" => p.data \in DataPacket
         /\ p.kind = "end" => p.idx \in 0 .. Top
         /\ p.kind \in {"data", "end", "bad"}
BY DEF Packet

LEMMA CellFacts ==
  /\ Blank \in Cell /\ Mixed \in Cell /\ Mixed # Blank
  /\ Mixed.bits = HeadBits \cup BodyBits /\ Blank.bits = {}
  /\ \A p \in DataPacket :
       /\ Stored(p) \in Cell /\ Stored(p) # Blank /\ Stored(p) # Mixed
       /\ Stored(p).what = "packet" /\ Stored(p).packet = p /\ Stored(p).bits = p.bits
  /\ \A c \in Cell : c.what = "packet" => \E p \in DataPacket : c = Stored(p)
<1>1. Blank \in Cell /\ Mixed \in Cell BY DEF Cell
<1>2. Blank.what = "blank" /\ Mixed.what = "mixed" BY DEF Blank, Mixed
<1>3. Mixed.bits = HeadBits \cup BodyBits /\ Blank.bits = {} BY DEF Blank, Mixed
<1>4. ASSUME NEW p \in DataPacket
      PROVE  /\ Stored(p) \in Cell /\ Stored(p).what = "packet"
             /\ Stored(p).packet = p /\ Stored(p).bits = p.bits
  BY DEF Cell, Stored
<1>5. \A c \in Cell : c = Blank \/ c = Mixed \/ \E p \in DataPacket : c = Stored(p)
  BY DEF Cell
<1> QED BY <1>1, <1>2, <1>3, <1>4, <1>5

\* What may lie behind the area.
LEMMA BehindFacts ==
  ASSUME NEW f \in [Cells -> Cell], NEW g \in Behind(f)
  PROVE  g \in [Cells -> Cell] /\ \A c \in Area : g[c] = f[c]
<1>1. PICK behind \in [Cells \ Area -> {Blank, Mixed}] :
        g = [c \in Cells |-> IF c \in Area THEN f[c] ELSE behind[c]]
  BY DEF Behind
<1>2. Blank \in Cell /\ Mixed \in Cell BY CellFacts
<1>3. \A c \in Cells : (IF c \in Area THEN f[c] ELSE behind[c]) \in Cell BY <1>2
<1> QED BY <1>1, <1>3, CellsFacts

LEMMA AreaOfCells ==
  ASSUME NEW x \in Cell, NEW g \in AreaOf(x)
  PROVE  g \in [Cells -> Cell] /\ \A c \in Area : g[c] = x
<1>1. PICK f \in [Cells -> Cell] : f = [c \in Cells |-> x] OBVIOUS
<1>2. g \in Behind(f) BY <1>1 DEF AreaOf
<1> QED BY <1>1, <1>2, BehindFacts, CellsFacts

\* Programming one packet.
LEMMA SaveType ==
  ASSUME TypeOK, NEW p \in DataPacket, NEW a \in Cells, Save(p, a)
  PROVE  /\ flash' \in [Cells -> Cell]
         /\ \/ flash' = [flash EXCEPT ![a] = Stored(p)] /\ addr' = a + 1 /\ Verdict(Continue)
               /\ Programs(p, a)
            \/ flash' = [flash EXCEPT ![a] = Mixed] /\ addr' = a /\ Verdict(Error)
               /\ ~Programs(p, a)
<1>1. flash \in [Cells -> Cell] BY DEF TypeOK
<1>2. Stored(p) \in Cell /\ Mixed \in Cell BY CellFacts
<1>3. CASE Programs(p, a) BY <1>1, <1>2, <1>3 DEF Save
<1>4. CASE ~Programs(p, a) BY <1>1, <1>2, <1>4 DEF Save
<1> QED BY <1>3, <1>4


-----------------------------------------------------------------------------
(* The type and the control of an update.                                  *)

CInv == TypeOK /\ Control

LEMMA SlotPacket ==
  ASSUME TypeOK, NEW p \in Slot
  PROVE  p \in Packet
<1>1. CASE cache = <<>> BY <1>1 DEF Slot
<1>2. CASE cache # <<>>
  <2>1. cache \in Seq(Packet) /\ p = Head(cache) BY <1>2 DEF TypeOK, Slot
  <2> HIDE DEF Packet
  <2> QED BY <1>2, <2>1, HeadTailProperties
<1> QED BY <1>1, <1>2

\* The slots after a turn of the loop.
LEMMA SlotsLeft ==
  ASSUME CInv, pc = "save", cache_idx > 0, NEW v \in {Continue, Ok, Error}, Verdict(v)
  PROVE  /\ cache' \in Seq(Packet) /\ Len(cache') <= CacheSize /\ Len(cache') <= cache_idx'
         /\ cache_idx' \in 0 .. CacheMod - 1
         /\ v # Continue => cache' = <<>> /\ cache_idx' = 0
<1> HIDE DEF Packet
<1>0. /\ cache \in Seq(Packet) /\ Len(cache) <= CacheSize /\ CacheSize \in Nat
      /\ cache_idx \in 0 .. CacheMod - 1 /\ CacheMod \in Nat /\ Len(cache) <= cache_idx
  BY OtaAssumption DEF CInv, TypeOK, Control
<1>1. <<>> \in Seq(Packet) /\ Len(<<>>) = 0 OBVIOUS
<1>2. CASE v # Continue
  <2>1. cache' = <<>> /\ cache_idx' = 0 BY <1>2 DEF Verdict
  <2> QED BY <1>0, <1>1, <2>1
<1>3. CASE v = Continue /\ cache = <<>>
  <2>1. cache' = <<>> /\ cache_idx' = cache_idx - 1 BY <1>3 DEF Verdict
  <2> QED BY <1>0, <1>1, <1>3, <2>1
<1>4. CASE v = Continue /\ cache # <<>>
  <2>1. cache' = Tail(cache) /\ cache_idx' = cache_idx - 1 BY <1>4 DEF Verdict
  <2>2. Tail(cache) \in Seq(Packet) /\ Len(Tail(cache)) = Len(cache) - 1 /\ Len(cache) \in Nat
    BY <1>0, <1>4, HeadTailProperties
  <2> QED BY <1>0, <1>4, <2>1, <2>2
<1> QED BY <1>2, <1>3, <1>4

\* One turn of the loop of rf_link_slave_data_ota_save, with the verdict v.
LEMMA Saved ==
  ASSUME CInv, pc = "save", cache_idx > 0, NEW v \in {Continue, Ok, Error}, Verdict(v),
         UNCHANGED <<flagged, pc, busy, mesh, sending, since, terminate, terminate_cnt, erased>>,
         flash' \in [Cells -> Cell], addr' \in 0 .. IdxMod, last' \in Cells, addr' <= last' + 1,
         total' \in 0 .. Top, check' \in BOOLEAN, sum' \in Nat
  PROVE  CInv' /\ finished = Continue /\ finished' = v
<1>1. finished = Continue BY DEF CInv, Control
<1>2. /\ cache' \in Seq(Packet) /\ Len(cache') <= CacheSize /\ Len(cache') <= cache_idx'
      /\ cache_idx' \in 0 .. CacheMod - 1
      /\ v # Continue => cache' = <<>> /\ cache_idx' = 0
  BY SlotsLeft
<1>3. finished' = v BY <1>1 DEF Verdict
<1>4. v = Ok => v # Continue BY DEF Ok, Continue
<1>5. Control'
  <2>1. busy' /\ finished' = v BY <1>3 DEF CInv, Control
  <2> QED BY <1>1, <1>2, <1>4, <2>1 DEF CInv, Control
<1>6. TypeOK' BY <1>2, <1>3 DEF CInv, TypeOK
<1> QED BY <1>1, <1>3, <1>5, <1>6 DEF CInv

LEMMA InitCInv == Init => CInv
<1> SUFFICES ASSUME Init PROVE CInv
  OBVIOUS
<1>1. flash \in [Cells -> Cell] BY AreaOfCells, CellFacts DEF Init
<1>2. <<>> \in Seq(Packet) /\ Len(<<>>) = 0 OBVIOUS
<1>3. TypeOK
  <2>1. cache \in Seq(Packet) /\ Len(cache) <= CacheSize BY <1>2, OtaAssumption DEF Init
  <2>2. /\ pc = "poll" /\ addr = 0 /\ last = Top /\ total = 0 /\ sum = 0 /\ cache_idx = 0
        /\ finished = Continue /\ since = 0 /\ terminate_cnt = 0 /\ erased = Sectors
    BY DEF Init
  <2>3. /\ flagged = FALSE /\ busy = FALSE /\ mesh = FALSE /\ sending = FALSE
        /\ check = FALSE /\ terminate = FALSE
    BY DEF Init
  <2>4. cache_idx \in 0 .. CacheMod - 1 /\ last \in Cells /\ addr \in 0 .. IdxMod
    BY <2>2, CellsFacts, OtaAssumption
  <2>5. /\ flagged \in BOOLEAN /\ busy \in BOOLEAN /\ mesh \in BOOLEAN
        /\ sending \in BOOLEAN /\ check \in BOOLEAN /\ terminate \in BOOLEAN
    BY ONLY <2>3, Zenon
  <2>6. total \in 0 .. Top /\ terminate_cnt \in 0 .. TermPolls /\ erased \in 0 .. Sectors
    BY <2>2, CellsFacts, OtaAssumption
  <2> QED BY <1>1, <2>1, <2>2, <2>4, <2>5, <2>6 DEF TypeOK
<1>4. Control
  <2>1. cache = <<>> /\ Len(cache) = 0 /\ cache_idx = 0 BY <1>2 DEF Init
  <2>2. addr = 0 /\ last = Top BY DEF Init
  <2> QED BY <2>1, <2>2, CellsFacts DEF Init, Control, Ok, Continue
<1> QED BY <1>3, <1>4 DEF CInv

\* A packet that ends the update with a failure.
LEMMA FailCInv ==
  ASSUME CInv, pc = "save", cache_idx > 0, NEW i \in Cells, Fail(i),
         UNCHANGED <<flash, flagged, pc, busy, mesh, sending, total, check, sum, since, terminate,
                     terminate_cnt, erased>>
  PROVE  CInv' /\ finished' = Error
<1>1. addr' = 0 /\ last' = i /\ Verdict(Error) BY DEF Fail
<1>2. 0 \in 0 .. IdxMod /\ addr' <= last' + 1 /\ last' \in Cells BY <1>1, CellsFacts
<1>3. /\ flash' \in [Cells -> Cell] /\ addr' \in 0 .. IdxMod /\ total' \in 0 .. Top
      /\ check' \in BOOLEAN /\ sum' \in Nat
  <2>1. flash \in [Cells -> Cell] /\ total \in 0 .. Top /\ check \in BOOLEAN /\ sum \in Nat
    BY DEF CInv, TypeOK
  <2> QED BY <1>1, <1>2, <2>1
<1>4. Error \in {Continue, Ok, Error} OBVIOUS
<1> QED BY <1>1, <1>2, <1>3, <1>4, Saved

LEMMA NextSaveBad ==
  ASSUME CInv, NEW p \in Slot, SaveBad(p)
  PROVE  CInv' /\ finished' = Error /\ UNCHANGED flash
BY FailCInv, CellsFacts DEF SaveBad, Saving, rom, way

LEMMA NextSaveEnd ==
  ASSUME CInv, NEW p \in Slot, SaveEnd(p)
  PROVE  /\ CInv' /\ finished' # Continue
         /\ UNCHANGED <<flash, pc, busy, total, check, sum>>
         /\ finished' = Ok => ~mesh /\ UNCHANGED <<addr, last>> /\ last \in Cells /\ last + 1 = total
<1>0. /\ pc = "save" /\ cache_idx > 0 /\ p.kind = "end"
      /\ UNCHANGED <<flash, flagged, pc, busy, mesh, sending, total, check, sum, since, terminate,
                     terminate_cnt, erased>>
  BY DEF SaveEnd, Saving, rom, way
<1>1. CASE ReceivedAll(p.idx)
  <2>1. Verdict(Ok) /\ ~mesh /\ UNCHANGED <<addr, last>> BY <1>1 DEF SaveEnd
  <2>2. last + 1 = total BY <1>1 DEF ReceivedAll
  <2>3. TypeOK /\ Control BY DEF CInv
  <2>4. last \in Cells BY <2>3 DEF TypeOK
  <2>5. /\ flash' \in [Cells -> Cell] /\ addr' \in 0 .. IdxMod /\ last' \in Cells
        /\ addr' <= last' + 1 /\ total' \in 0 .. Top /\ check' \in BOOLEAN /\ sum' \in Nat
    BY <1>0, <2>1, <2>3 DEF TypeOK, Control
  <2>6. CInv' /\ finished' = Ok BY <1>0, <2>1, <2>5, Saved
  <2> QED BY <1>0, <2>1, <2>2, <2>4, <2>6 DEF Ok, Continue
<1>2. CASE ~ReceivedAll(p.idx)
  <2>1. Fail(0) BY <1>2 DEF SaveEnd
  <2>2. CInv' /\ finished' = Error BY <1>0, <2>1, FailCInv, CellsFacts
  <2> QED BY <1>0, <2>2 DEF Ok, Error, Continue
<1> QED BY <1>1, <1>2

LEMMA NextSaveEndMesh ==
  ASSUME CInv, NEW p \in Slot, SaveEndMesh(p) PROVE CInv'
<1>0. TypeOK /\ Control /\ pc = "save" BY DEF CInv, SaveEndMesh, Saving
<1>1. cache' = <<>> /\ cache_idx' = 0 /\ sending' = TRUE /\ busy' = FALSE
      /\ UNCHANGED <<flash, flagged, pc, mesh, addr, last, total, check, sum,
                     finished, since, terminate, terminate_cnt, erased>>
  BY DEF SaveEndMesh, rom, receiver, finish
<1>2. <<>> \in Seq(Packet) /\ Len(<<>>) = 0 OBVIOUS
<1>3. cache' \in Seq(Packet) /\ Len(cache') = 0 /\ 0 <= CacheSize /\ cache_idx' \in 0 .. CacheMod - 1
  BY <1>1, <1>2, OtaAssumption
<1>4. TypeOK' BY <1>0, <1>1, <1>3 DEF TypeOK
<1>5. Control' BY <1>0, <1>1, <1>3 DEF Control
<1> QED BY <1>4, <1>5 DEF CInv

LEMMA NextSaveFirst ==
  ASSUME CInv, NEW q \in Slot, SaveFirst(q)
  PROVE  /\ CInv' /\ pc = "save" /\ finished = Continue
         /\ UNCHANGED <<pc, busy, mesh, sending, total>>
         /\ \/ finished' = Error /\ addr' = 0 /\ UNCHANGED flash
            \/ finished' = Error /\ addr = 0 /\ addr' = 0 /\ flash' = [flash EXCEPT ![0] = Mixed]
            \/ /\ finished' = Continue /\ addr = 0 /\ addr' = 1 /\ last' = 0
               /\ \E p \in DataPacket :
                    /\ p.idx = 0 /\ flash' = [flash EXCEPT ![0] = Stored(p)]
                    /\ check' = p.info.check /\ (p.info.check => sum' = p.crc)
<1>0. /\ pc = "save" /\ cache_idx > 0 /\ q.kind = "data" /\ q.data.idx = 0
      /\ UNCHANGED <<flagged, pc, busy, mesh, sending, total, since, terminate, terminate_cnt, erased>>
  BY DEF SaveFirst, Saving, way
<1>1. q.data \in DataPacket BY <1>0, SlotPacket, PacketFacts DEF CInv
<1>2. TypeOK /\ finished = Continue BY <1>0 DEF CInv, Control
<1>3. CASE addr # 0
  <2>1. Fail(0) /\ UNCHANGED <<flash, check, sum>> BY <1>3 DEF SaveFirst
  <2>2. CInv' /\ finished' = Error BY <1>0, <2>1, FailCInv, CellsFacts
  <2> QED BY <1>0, <1>2, <2>1, <2>2 DEF Fail
<1>4. CASE addr = 0
  <2> PICK p \in DataPacket : p = q.data BY <1>1
  <2>1. /\ check' = p.info.check /\ sum' = (IF p.info.check THEN p.crc ELSE sum)
        /\ Save(p, 0) /\ last' = 0
    BY <1>4 DEF SaveFirst
  <2>2. 0 \in Cells /\ p.crc \in Nat /\ p.info.check \in BOOLEAN
    <3>1. p.idx = 0 BY <1>0
    <3>2. p.crc \in Nat BY DataFacts
    <3>3. p.info.check \in BOOLEAN BY <3>1, DataFacts
    <3> QED BY <3>2, <3>3, CellsFacts
  <2>3. check' \in BOOLEAN /\ sum' \in Nat BY <1>2, <2>1, <2>2 DEF TypeOK
  <2>4. /\ flash' \in [Cells -> Cell]
        /\ \/ flash' = [flash EXCEPT ![0] = Stored(p)] /\ addr' = 0 + 1 /\ Verdict(Continue)
           \/ flash' = [flash EXCEPT ![0] = Mixed] /\ addr' = 0 /\ Verdict(Error)
    BY <1>2, <2>1, <2>2, SaveType
  <2>5. PICK v \in {Continue, Error} :
          /\ Verdict(v)
          /\ \/ flash' = [flash EXCEPT ![0] = Stored(p)] /\ addr' = 1 /\ v = Continue
             \/ flash' = [flash EXCEPT ![0] = Mixed] /\ addr' = 0 /\ v = Error
    BY <2>4
  <2>6. addr' \in 0 .. IdxMod /\ addr' <= last' + 1 /\ last' \in Cells /\ total' \in 0 .. Top
    BY <1>0, <1>2, <2>1, <2>5, CellsFacts DEF TypeOK
  <2>7. CInv' /\ finished' = v BY <1>0, <2>3, <2>4, <2>5, <2>6, Saved
  <2>8. p.info.check => sum' = p.crc BY <2>1
  <2> QED BY <1>0, <1>2, <1>4, <2>1, <2>5, <2>7, <2>8
<1> QED BY <1>3, <1>4

\* The packet p after the last one; n is the number of packets as far as it is
\* known, and a failed check of p moves it to cell 0.
Follows(p, n, a) ==
  /\ pc = "save" /\ finished = Continue /\ last \in Cells /\ UNCHANGED <<pc, busy, mesh, sending, check>>
  /\ p.idx = last + 1 /\ last' = p.idx /\ total' = n
  /\ n = IF p.idx = 1 THEN p.info.total ELSE total
  /\ a = IF Wrong(p, n) THEN 0 ELSE addr
  /\ sum' = IF check /\ ~Wrong(p, n) /\ (p.idx = 1 \/ p.idx < n - 1) THEN sum + p.crc ELSE sum

LEMMA NextSaveNext ==
  ASSUME CInv, NEW q \in Slot, SaveNext(q)
  PROVE  /\ CInv'
         /\ \E p \in DataPacket, n \in 0 .. Top, a \in Cells :
              /\ Follows(p, n, a)
              /\ \/ /\ flash' = [flash EXCEPT ![a] = Stored(p)] /\ Programs(p, a)
                    /\ addr' = a + 1 /\ finished' = Continue
                 \/ /\ flash' = [flash EXCEPT ![a] = Mixed] /\ ~Programs(p, a)
                    /\ addr' = a /\ finished' = Error
<1>0. /\ pc = "save" /\ cache_idx > 0 /\ q.kind = "data" /\ q.data.idx # 0
      /\ q.data.idx = last + 1
      /\ UNCHANGED <<flagged, pc, busy, mesh, sending, check, since, terminate, terminate_cnt, erased>>
  BY DEF SaveNext, Saving, way
<1>1. TypeOK /\ finished = Continue /\ addr <= last + 1 BY <1>0 DEF CInv, Control
<1>2. PICK p \in DataPacket : p = q.data
  BY <1>0, <1>1, SlotPacket, PacketFacts
<1>3. PICK n : n = IF p.idx = 1 THEN p.info.total ELSE total
  OBVIOUS
<1>4. PICK a : a = IF Wrong(p, n) THEN 0 ELSE addr
  OBVIOUS
<1>6. /\ total' = n /\ last' = p.idx
      /\ sum' = IF check /\ ~Wrong(p, n) /\ (p.idx = 1 \/ p.idx < n - 1) THEN sum + p.crc ELSE sum
      /\ Save(p, a)
  BY <1>2, <1>3, <1>4 DEF SaveNext
<1>7. p.idx \in Cells /\ p.crc \in Nat /\ (p.idx = 1 => p.info.total \in 0 .. Top)
  BY DataFacts
<1>8. last \in Cells /\ last + 1 \in Cells
  BY <1>0, <1>1, <1>2, <1>7 DEF TypeOK
<1>9. n \in 0 .. Top
  BY <1>1, <1>3, <1>7, CellsFacts DEF TypeOK
<1>10. a \in Cells /\ a <= last + 1
  <2>1. addr \in Nat BY <1>1 DEF TypeOK
  <2> HIDE DEF Wrong
  <2> QED BY <1>1, <1>4, <1>8, <2>1, CellsFacts
<1>11. Follows(p, n, a)
  BY <1>0, <1>1, <1>2, <1>3, <1>4, <1>6, <1>8 DEF Follows
<1>12. /\ flash' \in [Cells -> Cell]
       /\ \/ flash' = [flash EXCEPT ![a] = Stored(p)] /\ addr' = a + 1 /\ Verdict(Continue)
             /\ Programs(p, a)
          \/ flash' = [flash EXCEPT ![a] = Mixed] /\ addr' = a /\ Verdict(Error)
             /\ ~Programs(p, a)
  BY <1>1, <1>6, <1>10, SaveType
<1>13. PICK v \in {Continue, Error} :
         /\ Verdict(v)
         /\ \/ flash' = [flash EXCEPT ![a] = Stored(p)] /\ Programs(p, a) /\ addr' = a + 1
               /\ v = Continue
            \/ flash' = [flash EXCEPT ![a] = Mixed] /\ ~Programs(p, a) /\ addr' = a
               /\ v = Error
  BY <1>12
<1>14. addr' \in 0 .. IdxMod /\ addr' <= last' + 1 /\ last' \in Cells /\ total' \in 0 .. Top
  BY <1>0, <1>2, <1>6, <1>8, <1>9, <1>10, <1>13, CellsFacts
<1>15. check' \in BOOLEAN BY <1>0, <1>1 DEF TypeOK
<1>16. sum' \in Nat
  <2>1. sum \in Nat BY <1>1 DEF TypeOK
  <2>2. sum' = sum + p.crc \/ sum' = sum BY <1>6
  <2> QED BY <1>7, <2>1, <2>2
<1>17. CInv' /\ finished' = v BY <1>0, <1>12, <1>13, <1>14, <1>15, <1>16, Saved
<1> QED BY <1>9, <1>10, <1>11, <1>13, <1>17

LEMMA NextSaveOutOfOrder ==
  ASSUME CInv, NEW p \in Slot, SaveOutOfOrder(p)
  PROVE  CInv' /\ finished' = Error /\ UNCHANGED flash
<1>0. /\ pc = "save" /\ cache_idx > 0 /\ p.kind = "data" /\ Fail(p.data.idx)
      /\ UNCHANGED <<flash, flagged, pc, busy, mesh, sending, total, check, sum, since, terminate,
                     terminate_cnt, erased>>
  BY DEF SaveOutOfOrder, Saving, rom, way
<1>1. p.data \in DataPacket BY <1>0, SlotPacket, PacketFacts DEF CInv
<1> QED BY <1>0, <1>1, FailCInv, DataFacts

\* The erasing of one sector.
LEMMA EraseType ==
  ASSUME TypeOK, NEW n \in 0 .. Sectors
  PROVE  /\ EraseSector(n) \in [Cells -> Cell]
         /\ \A c \in Cells : EraseSector(n)[c] = IF c \div CellsOf = n - 1 THEN Blank ELSE flash[c]
<1>1. flash \in [Cells -> Cell] BY DEF TypeOK
<1> QED BY <1>1, CellFacts DEF EraseSector

\* Overwriting a slot.
LEMMA ExceptSlot ==
  ASSUME NEW S, NEW s \in Seq(S), NEW e \in S, NEW k
  PROVE  [s EXCEPT ![k] = e] \in Seq(S) /\ Len([s EXCEPT ![k] = e]) = Len(s)
<1>1. s \in [1 .. Len(s) -> S] /\ Len(s) \in Nat BY LenProperties
<1>2. [s EXCEPT ![k] = e] \in [1 .. Len(s) -> S] BY <1>1
<1>3. PICK n \in Nat : n = Len(s) BY <1>1
<1>4. PICK t \in [1 .. n -> S] : t = [s EXCEPT ![k] = e] BY <1>2, <1>3
<1>5. t \in Seq(S) BY SeqDef
<1>6. DOMAIN t = 1 .. n /\ DOMAIN t = 1 .. Len(t) /\ Len(t) \in Nat BY <1>5, LenProperties
<1>7. Len(t) = n BY <1>6
<1> QED BY <1>3, <1>4, <1>5, <1>7

\* A packet that arrives goes to the next slot.
LEMMA CacheType ==
  ASSUME CInv, NEW p \in Packet, NEW m \in BOOLEAN, Receive(p, m)
  PROVE  /\ cache' \in Seq(Packet) /\ Len(cache') <= CacheSize /\ Len(cache') <= cache_idx'
         /\ cache_idx' \in 0 .. CacheMod - 1
<1> HIDE DEF Packet
<1>0. /\ cache \in Seq(Packet) /\ Len(cache) <= CacheSize /\ CacheSize \in 1 .. CacheMod - 1
      /\ cache_idx \in 0 .. CacheMod - 1 /\ CacheMod \in Nat /\ Len(cache) <= cache_idx
  BY OtaAssumption DEF CInv, TypeOK, Control
<1>1. cache_idx' = (cache_idx + 1) % CacheMod BY DEF Receive
<1>2. cache_idx' = 0 \/ cache_idx' = cache_idx + 1
  <2>1. CASE cache_idx + 1 = CacheMod BY <1>0, <1>1, <2>1
  <2>2. CASE cache_idx + 1 < CacheMod BY <1>0, <1>1, <2>2
  <2> QED BY <1>0, <2>1, <2>2
<1>3. cache_idx' \in 0 .. CacheMod - 1 BY <1>0, <1>1
<1>4. CASE cache_idx' = 0
  <2>1. cache' = <<>> BY <1>4 DEF Receive
  <2>2. <<>> \in Seq(Packet) /\ Len(<<>>) = 0 OBVIOUS
  <2> QED BY <1>0, <1>3, <1>4, <2>1, <2>2
<1>5. CASE cache_idx' # 0 /\ cache_idx < CacheSize
  <2>1. cache' = Append(cache, p) BY <1>5 DEF Receive
  <2>2. Append(cache, p) \in Seq(Packet) /\ Len(Append(cache, p)) = Len(cache) + 1
    BY <1>0, AppendProperties
  <2>3. Len(cache) \in Nat BY <1>0
  <2> QED BY <1>0, <1>2, <1>3, <1>5, <2>1, <2>2, <2>3
<1>6. CASE cache_idx' # 0 /\ ~(cache_idx < CacheSize)
  <2>1. cache' = [cache EXCEPT ![(cache_idx % CacheSize) + 1] = p] BY <1>6 DEF Receive
  <2>2. PICK k : k = (cache_idx % CacheSize) + 1 OBVIOUS
  <2>3. [cache EXCEPT ![k] = p] \in Seq(Packet) /\ Len([cache EXCEPT ![k] = p]) = Len(cache)
    BY <1>0, ExceptSlot
  <2>4. Len(cache) \in Nat BY <1>0
  <2> QED BY <1>0, <1>2, <1>3, <1>6, <2>1, <2>2, <2>3, <2>4
<1> QED BY <1>4, <1>5, <1>6

LEMMA NextCInv == CInv /\ [Next]_vars => CInv'
<1> SUFFICES ASSUME CInv, [Next]_vars PROVE CInv'
  OBVIOUS
<1> USE OtaAssumption
<1>0. TypeOK /\ Control BY DEF CInv
<1>s. cache \in Seq(Packet) /\ Len(cache) <= CacheSize BY <1>0 DEF TypeOK
<1>c. Continue = 0 /\ Ok = 1 /\ Error = 2 BY DEF Continue, Ok, Error
<1>1. ASSUME NEW p \in Packet, NEW m \in BOOLEAN, Receive(p, m) PROVE CInv'
  <2>1. /\ cache' \in Seq(Packet) /\ Len(cache') <= CacheSize /\ Len(cache') <= cache_idx'
        /\ cache_idx' \in 0 .. CacheMod - 1
    BY <1>1, CacheType
  <2>2. /\ busy' = TRUE /\ mesh' = m /\ pc = "poll" /\ finished = Continue
        /\ UNCHANGED <<rom, pc, sending, receiver, finish, erased>>
    BY <1>1 DEF Receive
  <2>3. busy' \in BOOLEAN /\ mesh' \in BOOLEAN BY <2>2
  <2>4. TypeOK' BY <1>0, <2>1, <2>2, <2>3 DEF TypeOK, rom, receiver, finish
  <2>5. Control' BY <1>0, <2>1, <2>2 DEF Control, rom, receiver, finish
  <2> QED BY <2>4, <2>5 DEF CInv
<1>2. CASE Poll
  <2>1. TypeOK' BY <1>0, <1>2 DEF TypeOK, Poll, way, caching, rom, receiver, finish
  <2>2. Control' BY <1>0, <1>2 DEF Control, Poll, way, caching, rom, receiver, finish
  <2> QED BY <2>1, <2>2 DEF CInv
<1>3. ASSUME NEW p \in Slot,
             SaveBad(p) \/ SaveEnd(p) \/ SaveEndMesh(p) \/ SaveFirst(p) \/ SaveNext(p)
               \/ SaveOutOfOrder(p)
      PROVE  CInv'
  <2> HIDE OtaAssumption
  <2>1. CASE SaveBad(p) BY <2>1, NextSaveBad
  <2>2. CASE SaveEnd(p) BY <2>2, NextSaveEnd
  <2>3. CASE SaveEndMesh(p) BY <2>3, NextSaveEndMesh
  <2>4. CASE SaveFirst(p) BY <2>4, NextSaveFirst
  <2>5. CASE SaveNext(p) BY <2>5, NextSaveNext
  <2>6. CASE SaveOutOfOrder(p) BY <2>6, NextSaveOutOfOrder
  <2> QED BY <1>3, <2>1, <2>2, <2>3, <2>4, <2>5, <2>6
<1>8. CASE SaveDone
  <2>1. TypeOK' BY <1>0, <1>8 DEF TypeOK, SaveDone, way, caching, rom, receiver, finish
  <2>2. Control' BY <1>0, <1>8 DEF Control, SaveDone, way, caching, rom, receiver, finish
  <2> QED BY <2>1, <2>2 DEF CInv
<1>9. ASSUME NEW ready \in BOOLEAN, Finish(ready) PROVE CInv'
  <2> DEFINE started == IF terminate_cnt = 0 /\ terminate /\ ready THEN TermPolls
                        ELSE terminate_cnt
             counted == CountDown(started)
             reboot  == (started > 0 /\ counted = 0) \/ TimedOut
  <2>1. /\ pc = "finish"
        /\ UNCHANGED <<flash, flagged, busy, mesh, sending, cache, cache_idx, addr, last, total, check, sum, finished, since,
                       erased>>
        /\ finished = Continue => pc' = "poll" /\ UNCHANGED <<terminate, terminate_cnt>>
    BY <1>9 DEF Finish, rom, receiver, way, caching
  <2>a. finished # Continue =>
          /\ terminate_cnt' = counted
          /\ terminate' = (terminate \/ since > 2)
          /\ pc' = IF ~reboot THEN "poll" ELSE IF finished = Ok THEN "flag" ELSE "erase"
    BY <1>9 DEF Finish
  <2>2. started \in 0 .. TermPolls /\ counted \in 0 .. TermPolls
    BY <1>0 DEF TypeOK, CountDown
  <2> HIDE DEF started, counted, reboot
  <2>3. terminate' \in BOOLEAN /\ terminate_cnt' \in 0 .. TermPolls
    <3>1. terminate_cnt' \in 0 .. TermPolls BY <1>0, <2>1, <2>a, <2>2 DEF TypeOK
    <3>2. CASE finished = Continue
      <4>1. terminate' = terminate /\ terminate \in BOOLEAN BY <1>0, <2>1, <3>2 DEF TypeOK
      <4> QED BY <3>1, <4>1
    <3>3. CASE finished # Continue
      <4>1. terminate' = (terminate \/ since > 2) BY <2>a, <3>3
      <4>2. terminate' \in BOOLEAN BY ONLY <4>1
      <4> QED BY <3>1, <4>2
    <3> QED BY <3>2, <3>3
  <2>4. pc' \in {"poll", "flag", "erase"} /\ (pc' = "flag" <=> (pc' # "poll" /\ finished = Ok))
    BY <1>c, <2>1, <2>a
  <2>5. TypeOK' BY <1>0, <2>1, <2>3, <2>4 DEF TypeOK
  <2>6. Control' BY <1>0, <1>c, <2>1, <2>4 DEF Control
  <2> QED BY <2>5, <2>6 DEF CInv
<1>10. CASE Tick
  <2>1. TypeOK' BY <1>0, <1>10 DEF TypeOK, Tick, way, caching, rom, receiver
  <2>2. Control' BY <1>0, <1>10 DEF Control, Tick, way, caching, rom, receiver
  <2> QED BY <2>1, <2>2 DEF CInv
<1>11. CASE ReadCommand
  <2>1. TypeOK' BY <1>0, <1>11 DEF TypeOK, ReadCommand, way, caching, rom, receiver
  <2>2. Control' BY <1>0, <1>11 DEF Control, ReadCommand, way, caching, rom, receiver
  <2> QED BY <2>1, <2>2 DEF CInv
<1>12. CASE GiveUp
  <2>1. TypeOK' BY <1>0, <1>12 DEF TypeOK, GiveUp, way, caching, rom, receiver, finish
  <2>2. Control' BY <1>0, <1>12, <1>c DEF Control, GiveUp, way, caching, rom, receiver, finish
  <2> QED BY <2>1, <2>2 DEF CInv
<1>21. CASE MeshDone
  <2>1. TypeOK' BY <1>0, <1>21 DEF TypeOK, MeshDone, way, caching, rom, receiver, finish
  <2>2. Control' BY <1>0, <1>21, <1>c DEF Control, MeshDone, way, caching, rom, receiver, finish
  <2> QED BY <2>1, <2>2 DEF CInv
<1>13. CASE SetFlag
  <2>1. TypeOK' BY <1>0, <1>13 DEF TypeOK, SetFlag, way, caching, rom, receiver, finish
  <2>2. Control' BY <1>0, <1>13, <1>c DEF Control, SetFlag, way, caching, rom, receiver, finish
  <2> QED BY <2>1, <2>2 DEF CInv
<1>14. CASE Erase \/ BootErase
  <2>1. /\ pc \in {"erase", "boot_erase"} /\ erased > 0 /\ flash' = EraseSector(erased)
        /\ erased' = erased - 1
        /\ UNCHANGED <<flagged, pc, busy, mesh, sending, cache, cache_idx, receiver, finish>>
    BY <1>14 DEF Erase, BootErase, way, caching
  <2>2. flash' \in [Cells -> Cell] BY <1>0, <2>1, EraseType DEF TypeOK
  <2>3. erased' \in 0 .. Sectors BY <1>0, <2>1 DEF TypeOK
  <2>4. TypeOK' BY <1>0, <2>1, <2>2, <2>3 DEF TypeOK, receiver, finish
  <2>5. Control' BY <1>0, <2>1 DEF Control, receiver, finish
  <2> QED BY <2>4, <2>5 DEF CInv
<1>15. CASE Erased
  <2>1. TypeOK' BY <1>0, <1>15 DEF TypeOK, Erased, way, caching, rom, receiver, finish
  <2>2. Control' BY <1>0, <1>15 DEF Control, Erased, way, caching, rom, receiver, finish
  <2> QED BY <2>1, <2>2 DEF CInv
<1>16. CASE BootLoader
  <2>1. /\ pc' = "check" /\ cache' = <<>> /\ cache_idx' = 0
        /\ addr' = 0 /\ last' = Top /\ total' = 0 /\ sum' = 0
        /\ finished' = Continue /\ since' = 0 /\ terminate_cnt' = 0 /\ erased' = Sectors
    BY <1>16 DEF BootLoader, Reset
  <2>2. flash' \in [Cells -> Cell]
    <3>1. flash \in [Cells -> Cell] /\ Mixed \in Cell BY <1>0, CellFacts DEF TypeOK
    <3>2. CASE flagged BY <1>16, <3>1, <3>2, AreaOfCells DEF BootLoader
    <3>3. CASE ~flagged BY <1>16, <3>1, <3>3, BehindFacts DEF BootLoader
    <3> QED BY <3>2, <3>3
  <2>3. cache' \in Seq(Packet) /\ Len(cache') = 0
    <3>1. <<>> \in Seq(Packet) /\ Len(<<>>) = 0 OBVIOUS
    <3> QED BY <2>1, <3>1
  <2>4. /\ addr' \in 0 .. IdxMod /\ last' \in Cells /\ total' \in 0 .. Top
        /\ sum' \in Nat /\ since' \in 0 .. 5 /\ terminate_cnt' \in 0 .. TermPolls
        /\ erased' \in 0 .. Sectors /\ cache_idx' \in 0 .. CacheMod - 1
        /\ 0 <= CacheSize /\ addr' <= last' + 1
    BY <2>1, CellsFacts
  <2>5. TypeOK'
    <3>1. /\ flagged' = FALSE /\ busy' = FALSE /\ check' = FALSE /\ terminate' = FALSE
          /\ mesh' = FALSE /\ sending' = FALSE
      BY <1>16 DEF BootLoader, Reset
    <3>2. /\ flagged' \in BOOLEAN /\ busy' \in BOOLEAN /\ mesh' \in BOOLEAN
          /\ sending' \in BOOLEAN /\ check' \in BOOLEAN /\ terminate' \in BOOLEAN
      BY ONLY <3>1, Zenon
    <3>3. finished' \in {Continue, Ok, Error} BY <2>1
    <3>4. pc' \in {"poll", "save", "finish", "flag", "erase", "boot", "check", "boot_erase"}
      BY <2>1
    <3> QED BY <2>2, <2>3, <2>4, <3>2, <3>3, <3>4 DEF TypeOK
  <2>6. Control'
    <3>1. flagged' = FALSE BY <1>16 DEF BootLoader
    <3> QED BY <1>c, <2>1, <2>3, <2>4, <3>1 DEF Control
  <2> QED BY <2>5, <2>6 DEF CInv
<1>17. CASE BootCheck
  <2>1. TypeOK' BY <1>0, <1>17 DEF TypeOK, BootCheck, way, caching, rom, receiver, finish
  <2>2. Control' BY <1>0, <1>17, <1>c DEF Control, BootCheck, way, caching, rom, receiver, finish
  <2> QED BY <2>1, <2>2 DEF CInv
<1>18. CASE BootErased
  <2>1. TypeOK' BY <1>0, <1>18 DEF TypeOK, BootErased, way, caching, rom, receiver, finish
  <2>2. Control' BY <1>0, <1>18, <1>c DEF Control, BootErased, way, caching, rom, receiver, finish
  <2> QED BY <2>1, <2>2 DEF CInv
<1>19. CASE PowerLoss
  <2>1. TypeOK' BY <1>0, <1>19 DEF TypeOK, PowerLoss, way, caching, rom, receiver, finish
  <2>2. Control' BY <1>0, <1>19 DEF Control, PowerLoss, way, caching, rom, receiver, finish
  <2> QED BY <2>1, <2>2 DEF CInv
<1>20. CASE UNCHANGED vars
  <2>1. TypeOK' BY <1>0, <1>20 DEF TypeOK, vars, way, caching, rom, receiver, finish
  <2>2. Control' BY <1>0, <1>20 DEF Control, vars, way, caching, rom, receiver, finish
  <2> QED BY <2>1, <2>2 DEF CInv
<1> QED BY <1>1, <1>2, <1>3, <1>8, <1>9, <1>10, <1>11, <1>12, <1>13,
           <1>14, <1>15, <1>16, <1>17, <1>18, <1>19, <1>20, <1>21
        DEF Next, Handle, Shutdown, Boot

-----------------------------------------------------------------------------
(* What is left of an update can be seen in cell 0.                        *)

MInv == CInv /\ Marked

LEMMA InitMInv == Init => MInv
<1> SUFFICES ASSUME Init PROVE MInv
  OBVIOUS
<1>1. CInv BY InitCInv
<1>2. AreaBlank BY AreaOfCells, CellFacts DEF Init, AreaBlank
<1>3. Marked BY <1>2 DEF Init, Marked, Running
<1> QED BY <1>1, <1>3 DEF MInv

\* Whatever is programmed over the mark of an update leaves the mark.
LEMMA MarkStays ==
  ASSUME TypeOK, Marked, flash[0] # Blank, NEW p \in DataPacket, NEW a \in Cells,
         \/ flash' = [flash EXCEPT ![a] = Stored(p)] /\ Programs(p, a)
         \/ flash' = [flash EXCEPT ![a] = Mixed]
  PROVE  flash'[0] # Blank /\ HeadBits \subseteq flash'[0].bits
<1>1. flash \in [Cells -> Cell] /\ 0 \in Cells /\ 0 \in Area BY CellsFacts DEF TypeOK
<1>2. flash[0] # Blank /\ HeadBits \subseteq flash[0].bits BY <1>1 DEF Marked, AreaBlank
<1>3. CASE a # 0 BY <1>1, <1>2, <1>3
<1>4. CASE a = 0 /\ flash' = [flash EXCEPT ![a] = Mixed]
  <2>1. flash'[0] = Mixed BY <1>1, <1>4
  <2> QED BY <2>1, CellFacts
<1>5. CASE a = 0 /\ flash' = [flash EXCEPT ![a] = Stored(p)] /\ Programs(p, a)
  <2>1. flash'[0] = Stored(p) BY <1>1, <1>5
  <2>2. HeadBits \subseteq p.bits BY <1>2, <1>5 DEF Programs
  <2> QED BY <2>1, <2>2, CellFacts
<1> QED BY <1>3, <1>4, <1>5

LEMMA MarkedFrame ==
  ASSUME Marked, UNCHANGED <<flash, pc, busy, sending, addr, last, total, finished, erased>>
  PROVE  Marked'
BY DEF Marked, Running, AreaBlank

LEMMA NextMInv == HeadSeen /\ MInv /\ [Next]_vars => MInv'
<1> SUFFICES ASSUME HeadSeen, MInv, [Next]_vars PROVE Marked'
  BY NextCInv DEF MInv
<1>0. CInv /\ TypeOK /\ Control /\ Marked BY DEF MInv, CInv
<1>c. Continue = 0 /\ Ok = 1 /\ Error = 2 BY DEF Continue, Ok, Error
<1>z. 0 \in Cells /\ 0 \in Area /\ Area \subseteq Cells /\ flash \in [Cells -> Cell]
      /\ addr \in Nat
  BY <1>0, CellsFacts DEF TypeOK
<1>s. \A c \in Area : ~(c \div CellsOf >= Sectors) BY SectorOf, OtaAssumption
<1>m. flash[0] # Blank => HeadBits \subseteq flash[0].bits BY <1>0, <1>z DEF Marked, AreaBlank
<1>1. ASSUME NEW p \in Packet, NEW m \in BOOLEAN, Receive(p, m) PROVE Marked'
  <2>1. pc = "poll" /\ busy' = TRUE
        /\ UNCHANGED <<flash, pc, sending, addr, last, total, finished, erased>>
    BY <1>1 DEF Receive, rom, receiver, finish
  <2> QED BY <1>0, <2>1 DEF Marked, Running, AreaBlank
<1>2. CASE Poll
  <2>1. pc = "poll" /\ pc' = "save"
        /\ UNCHANGED <<flash, busy, sending, addr, last, total, finished, erased>>
    BY <1>2 DEF Poll, way, rom, receiver, finish
  <2> QED BY <1>0, <2>1 DEF Marked, Running, AreaBlank
\* A failure leaves the flash as it is, or with something in cell 0.
<1>f. ASSUME pc' = "save", busy', finished' # Continue, UNCHANGED flash PROVE Marked'
  <2>1. AreaBlank <=> AreaBlank' BY <1>f DEF AreaBlank
  <2>2. AreaBlank \/ (flash[0] # Blank /\ HeadBits \subseteq flash[0].bits) BY <1>0 DEF Marked
  <2> QED BY <1>f, <2>1, <2>2 DEF Marked, Running
<1>3. ASSUME NEW p \in Slot, SaveBad(p) \/ SaveEnd(p) \/ SaveOutOfOrder(p) PROVE Marked'
  <2>1. pc = "save" /\ UNCHANGED <<pc, busy, mesh, sending>>
    BY <1>3 DEF SaveBad, SaveEnd, SaveOutOfOrder, Saving, way
  <2>2. finished' # Continue /\ UNCHANGED flash
    BY <1>0, <1>3, <1>c, NextSaveBad, NextSaveEnd, NextSaveOutOfOrder
  <2>3. cache_idx > 0 BY <1>3 DEF SaveBad, SaveEnd, SaveOutOfOrder, Saving
  <2>4. busy' BY <1>0, <2>1, <2>3 DEF Control
  <2> QED BY <1>f, <2>1, <2>2, <2>4
<1>4. ASSUME NEW p \in Slot, SaveEndMesh(p) PROVE Marked'
  <2>1. pc = "save" /\ sending' = TRUE /\ busy' = FALSE
        /\ UNCHANGED <<flash, pc, addr, last, total, finished, erased>>
    BY <1>4 DEF SaveEndMesh, Saving, rom, receiver, finish
  <2>2. finished = Continue BY <1>0, <1>4, <1>c DEF Control, SaveEndMesh, Saving
  <2> QED BY <1>0, <2>1, <2>2 DEF Marked, Running, AreaBlank
<1>5. ASSUME NEW q \in Slot, SaveFirst(q) PROVE Marked'
  <2>1. pc' = "save" /\ UNCHANGED <<busy, sending>> BY <1>0, <1>5, NextSaveFirst
  <2>b. busy' BY <1>0, <1>5, <2>1 DEF Control, SaveFirst, Saving
  <2>2. CASE finished' = Error /\ UNCHANGED flash BY <1>c, <1>f, <2>1, <2>b, <2>2
  <2>3. CASE finished' = Error /\ addr = 0 /\ flash' = [flash EXCEPT ![0] = Mixed]
    <3>1. flash'[0] = Mixed BY <1>z, <2>3
    <3>2. flash'[0] # Blank /\ HeadBits \subseteq flash'[0].bits BY <3>1, CellFacts
    <3> QED BY <1>c, <2>1, <2>b, <2>3, <3>2 DEF Marked, Running
  <2>4. ASSUME finished' = Continue, addr' = 1, last' = 0,
               NEW p \in DataPacket, p.idx = 0, flash' = [flash EXCEPT ![0] = Stored(p)]
        PROVE  Marked'
    <3>1. flash'[0] = Stored(p) BY <1>z, <2>4
    <3>2. flash'[0] # Blank /\ HeadBits \subseteq flash'[0].bits
      BY <2>4, <3>1, CellFacts, DataFacts
    <3> QED BY <1>c, <2>1, <2>b, <2>4, <3>2 DEF Marked, Running
  <2> QED BY <1>0, <1>5, <2>2, <2>3, <2>4, NextSaveFirst
<1>6. ASSUME NEW q \in Slot, SaveNext(q) PROVE Marked'
  <2>1. PICK p \in DataPacket, n \in 0 .. Top, a \in Cells :
          /\ Follows(p, n, a)
          /\ \/ /\ flash' = [flash EXCEPT ![a] = Stored(p)] /\ Programs(p, a)
                /\ addr' = a + 1 /\ finished' = Continue
             \/ /\ flash' = [flash EXCEPT ![a] = Mixed] /\ ~Programs(p, a)
                /\ addr' = a /\ finished' = Error
    BY <1>0, <1>6, NextSaveNext
  <2>2. /\ pc = "save" /\ pc' = "save" /\ finished = Continue /\ last \in Cells
        /\ p.idx = last + 1 /\ UNCHANGED <<busy, sending>>
    BY <2>1 DEF Follows
  <2>b. busy' BY <1>0, <1>6, <2>2 DEF Control, SaveNext, Saving
  <2>3. addr # 0
    <3>1. p.idx <= Top BY DataFacts, CellsFacts
    <3>2. last # Top BY <2>2, <3>1, CellsFacts
    <3> QED BY <1>0, <2>2, <3>2 DEF Marked, Running
  <2>4. flash[0] # Blank BY <1>0, <2>2, <2>3 DEF Marked, Running
  <2>5. flash'[0] # Blank /\ HeadBits \subseteq flash'[0].bits
    BY <1>0, <2>1, <2>4, MarkStays
  <2>6. finished' = Continue => addr' # 0
    <3>1. a \in Nat BY CellsFacts
    <3> QED BY <1>c, <2>1, <3>1
  <2> QED BY <2>2, <2>b, <2>5, <2>6 DEF Marked, Running
<1>8. CASE SaveDone
  <2>1. pc = "save" /\ pc' = "finish"
        /\ UNCHANGED <<flash, busy, sending, addr, last, total, finished, erased>>
    BY <1>8 DEF SaveDone, way, rom, receiver, finish
  <2> QED BY <1>0, <2>1 DEF Marked, Running, AreaBlank
<1>9. ASSUME NEW ready \in BOOLEAN, Finish(ready) PROVE Marked'
  <2>1. /\ pc = "finish"
        /\ UNCHANGED <<flash, busy, sending, addr, last, total, finished, erased>>
        /\ finished = Continue => pc' = "poll"
        /\ finished # Continue => pc' \in {"poll", "flag", "erase"}
    BY <1>9 DEF Finish, way, rom, receiver
  <2>2. erased = Sectors BY <1>0, <2>1 DEF Control
  <2> QED BY <1>0, <1>s, <2>1, <2>2 DEF Marked, Running, AreaBlank
<1>10. CASE Tick \/ ReadCommand
  <2>1. UNCHANGED <<flash, pc, busy, sending, addr, last, total, finished, erased>>
    BY <1>10 DEF Tick, ReadCommand, way, rom, receiver
  <2> QED BY <1>0, <2>1, MarkedFrame
<1>12. CASE GiveUp \/ MeshDone \/ PowerLoss \/ SetFlag
  <2>1. /\ pc' = "boot" \/ (pc = "poll" /\ pc' = "erase")
        /\ UNCHANGED <<flash, busy, sending, addr, last, total, finished, erased>>
    BY <1>12 DEF GiveUp, MeshDone, PowerLoss, SetFlag, way, rom, receiver, finish
  <2>2. pc = "poll" => erased = Sectors BY <1>0 DEF Control
  <2> QED BY <1>0, <1>s, <2>1, <2>2 DEF Marked, Running, AreaBlank
<1>14. CASE Erase \/ BootErase
  <2>1. /\ pc \in {"erase", "boot_erase"} /\ erased > 0 /\ flash' = EraseSector(erased)
        /\ erased' = erased - 1
        /\ UNCHANGED <<pc, busy, sending, addr, last, total, finished>>
    BY <1>14 DEF Erase, BootErase, way, receiver, finish
  <2>2. erased \in 0 .. Sectors BY <1>0 DEF TypeOK
  <2>3. /\ flash' \in [Cells -> Cell]
        /\ \A c \in Cells : flash'[c] = IF c \div CellsOf = erased - 1 THEN Blank ELSE flash[c]
    BY <1>0, <2>1, <2>2, EraseType
  <2>4. \A c \in Area : c \div CellsOf \in 0 .. Sectors - 1 BY SectorOf
  <2>5. \A c \in Area : c \div CellsOf >= erased => flash[c] = Blank
    BY <1>0, <2>1 DEF Marked
  <2>6. ASSUME NEW c \in Area, c \div CellsOf >= erased' PROVE flash'[c] = Blank
    <3>1. PICK k \in 0 .. Sectors - 1 : k = c \div CellsOf BY <2>4
    <3>2. k = erased - 1 \/ k >= erased BY <2>1, <2>2, <2>6, <3>1, OtaAssumption
    <3>3. flash'[c] = IF k = erased - 1 THEN Blank ELSE flash[c] BY <1>z, <2>3, <3>1
    <3>4. k >= erased => flash[c] = Blank BY <2>5, <3>1
    <3> QED BY <3>2, <3>3, <3>4
  <2>7. AreaBlank' \/ (flash'[0] # Blank /\ HeadBits \subseteq flash'[0].bits)
    <3>1. CASE AreaBlank
      <4>1. \A c \in Area : flash'[c] = Blank BY <1>z, <2>3, <3>1 DEF AreaBlank
      <4> QED BY <4>1 DEF AreaBlank
    <3>2. CASE erased = 1
      <4>1. \A c \in Area : flash'[c] = Blank BY <2>1, <2>4, <2>6, <3>2, OtaAssumption
      <4> QED BY <4>1 DEF AreaBlank
    <3>3. CASE ~AreaBlank /\ erased # 1
      <4>1. flash'[0] = flash[0] BY <1>z, <2>1, <2>2, <2>3, <3>3, SectorOf, OtaAssumption
      <4> QED BY <1>0, <3>3, <4>1 DEF Marked
    <3> QED BY <3>1, <3>2, <3>3
  <2> QED BY <1>0, <2>1, <2>6, <2>7 DEF Marked, Running
<1>15. CASE Erased
  <2>1. pc' = "boot" /\ UNCHANGED <<flash, busy, sending, addr, last, total, finished, erased>>
    BY <1>15 DEF Erased, way, rom, receiver, finish
  <2> QED BY <1>0, <2>1 DEF Marked, Running, AreaBlank
<1>16. CASE BootLoader
  <2>1. pc' = "check" /\ addr' = 0 /\ last' = Top /\ total' = 0 /\ finished' = Continue
    BY <1>16 DEF BootLoader, Reset
  <2>2. AreaBlank' \/ (flash'[0] # Blank /\ HeadBits \subseteq flash'[0].bits)
    <3>1. CASE flagged
      <4>1. flash' \in AreaOf(Mixed) BY <1>16, <3>1 DEF BootLoader
      <4>2. flash'[0] = Mixed BY <1>z, <4>1, AreaOfCells, CellFacts
      <4> QED BY <4>2, CellFacts
    <3>2. CASE ~flagged
      <4>1. flash' \in Behind(flash) BY <1>16, <3>2 DEF BootLoader
      <4>2. \A c \in Area : flash'[c] = flash[c] BY <1>z, <4>1, BehindFacts
      <4>3. AreaBlank => AreaBlank' BY <4>2 DEF AreaBlank
      <4>4. flash'[0] = flash[0] BY <1>z, <4>2
      <4> QED BY <1>0, <4>3, <4>4 DEF Marked
    <3> QED BY <3>1, <3>2
  <2> QED BY <2>1, <2>2 DEF Marked, Running
<1>17. CASE BootCheck
  <2>1. /\ pc = "check" /\ pc' \in {"poll", "boot_erase"}
        /\ pc' = "poll" => IsOtaAreaValid
        /\ UNCHANGED <<flash, busy, sending, addr, last, total, finished, erased>>
    BY <1>17 DEF BootCheck, way, rom, receiver, finish
  <2>2. IsOtaAreaValid => AreaBlank
    <3> SUFFICES ASSUME IsOtaAreaValid PROVE ~(HeadBits \subseteq flash[0].bits)
      BY <1>0 DEF Marked
    <3>1. 0 \in 0 .. Sectors - 1 /\ 0 * CellsOf = 0 BY OtaAssumption
    <3>2. flash[0 * CellsOf].bits \cap FirstWord = {} BY <3>1 DEF IsOtaAreaValid
    <3>3. flash[0].bits \cap FirstWord = {} BY <3>1, <3>2
    <3> QED BY <3>3 DEF HeadSeen
  <2>3. erased = Sectors BY <1>0, <2>1 DEF Control
  <2>4. AreaBlank <=> AreaBlank' BY <2>1 DEF AreaBlank
  <2> QED BY <1>0, <1>s, <2>1, <2>2, <2>3, <2>4 DEF Marked, Running
<1>18. CASE BootErased
  <2>1. /\ pc = "boot_erase" /\ erased = 0 /\ pc' = "poll"
        /\ UNCHANGED <<flash, busy, sending, addr, last, total, finished>>
    BY <1>18 DEF BootErased, way, rom, receiver, finish
  <2>2. \A c \in Area : c \div CellsOf >= 0 BY SectorOf
  <2>3. \A c \in Area : flash'[c] = Blank BY <1>0, <2>1, <2>2 DEF Marked
  <2>4. AreaBlank' BY <2>3 DEF AreaBlank
  <2> QED BY <1>0, <2>1, <2>4 DEF Marked, Running
<1>20. CASE UNCHANGED vars
  <2>1. UNCHANGED <<flash, pc, busy, sending, addr, last, total, finished, erased>>
    BY <1>20 DEF vars, way, rom, receiver, finish
  <2> QED BY <1>0, <2>1, MarkedFrame
<1> QED BY <1>1, <1>2, <1>3, <1>4, <1>5, <1>6, <1>8, <1>9, <1>10, <1>12,
           <1>14, <1>15, <1>16, <1>17, <1>18, <1>20
        DEF Next, Handle, Shutdown, Boot

-----------------------------------------------------------------------------
(* The checksum: what the recursive definition computes.                   *)

IsSums(f, image, n) ==
  f = [i \in 0 .. n |-> IF i = 0 THEN 0 ELSE f[i - 1] + image[i - 1].packet.crc]

LEMMA SumsStep ==
  ASSUME NEW n \in Nat, NEW image, NEW f, IsSums(f, image, n)
  PROVE  /\ f[0] = 0
         /\ \A i \in 0 .. n - 1 : f[i + 1] = f[i] + image[i].packet.crc
<1>1. f[0] = 0 BY DEF IsSums
<1>2. ASSUME NEW i \in 0 .. n - 1 PROVE f[i + 1] = f[i] + image[i].packet.crc
  <2>1. i + 1 \in 0 .. n /\ i + 1 # 0 /\ (i + 1) - 1 = i OBVIOUS
  <2> QED BY <2>1 DEF IsSums
<1> QED BY <1>1, <1>2

LEMMA SumsExist ==
  ASSUME NEW image, NEW n \in Nat
  PROVE  \E f : IsSums(f, image, n)
<1> DEFINE S == {k \in Nat : \E f : IsSums(f, image, k)}
<1>1. 0 \in S
  <2> DEFINE f == [i \in 0 .. 0 |-> 0]
  <2>1. f = [i \in 0 .. 0 |-> IF i = 0 THEN 0 ELSE f[i - 1] + image[i - 1].packet.crc]
    OBVIOUS
  <2> HIDE DEF f
  <2>2. IsSums(f, image, 0) BY <2>1 DEF IsSums
  <2> QED BY <2>2
<1>2. ASSUME NEW k \in Nat, k \in S PROVE k + 1 \in S
  <2>1. PICK f : IsSums(f, image, k) BY <1>2
  <2> DEFINE g == [i \in 0 .. k + 1 |->
                     IF i = k + 1 THEN f[k] + image[k].packet.crc ELSE f[i]]
  <2>2. ASSUME NEW i \in 0 .. k + 1
        PROVE  g[i] = IF i = 0 THEN 0 ELSE g[i - 1] + image[i - 1].packet.crc
    <3>1. CASE i = 0 BY <2>1, <3>1, SumsStep
    <3>2. CASE i # 0 /\ i # k + 1
      <4>1. i - 1 \in 0 .. k - 1 /\ i - 1 \in 0 .. k + 1 /\ i - 1 # k + 1 /\ (i - 1) + 1 = i
        BY <3>2
      <4>2. f[(i - 1) + 1] = f[i - 1] + image[i - 1].packet.crc BY <2>1, <4>1, SumsStep
      <4> QED BY <3>2, <4>1, <4>2
    <3>3. CASE i = k + 1
      <4>1. i # 0 /\ i - 1 = k /\ k \in 0 .. k + 1 /\ k # k + 1 BY <3>3
      <4> QED BY <3>3, <4>1
    <3> QED BY <3>1, <3>2, <3>3
  <2>3. IsSums(g, image, k + 1)
    <3>1. g = [i \in 0 .. k + 1 |-> g[i]] OBVIOUS
    <3> HIDE DEF g
    <3> QED BY <2>2, <3>1 DEF IsSums
  <2> QED BY <2>3
<1> HIDE DEF S
<1>3. Nat \subseteq S BY <1>1, <1>2, SetInduction
<1> QED BY <1>3 DEF S

LEMMA SumsAgree ==
  ASSUME NEW n \in Nat, NEW k \in 0 .. n, NEW m \in 0 .. n,
         NEW image, NEW other, NEW f, NEW g, IsSums(f, image, k), IsSums(g, other, m),
         NEW l \in Nat, l <= k, l <= m,
         \A i \in 0 .. l - 1 : image[i].packet.crc = other[i].packet.crc
  PROVE  f[l] = g[l]
<1> DEFINE S == {i \in Nat : i <= l => f[i] = g[i]}
<1>1. 0 \in S BY SumsStep
<1>2. ASSUME NEW i \in Nat, i \in S PROVE i + 1 \in S
  <2> SUFFICES ASSUME i + 1 <= l PROVE f[i + 1] = g[i + 1]
    OBVIOUS
  <2>1. i \in 0 .. k - 1 /\ i \in 0 .. m - 1 /\ i \in 0 .. l - 1 /\ f[i] = g[i] BY <1>2
  <2>2. f[i + 1] = f[i] + image[i].packet.crc BY <2>1, SumsStep
  <2>3. g[i + 1] = g[i] + other[i].packet.crc BY <2>1, SumsStep
  <2> QED BY <2>1, <2>2, <2>3
<1> HIDE DEF S
<1>3. Nat \subseteq S BY <1>1, <1>2, SetInduction
<1> QED BY <1>3 DEF S

LEMMA ChecksumIs ==
  ASSUME NEW n \in Nat, NEW image, NEW f, IsSums(f, image, n)
  PROVE  Checksum(image, n) = f[n]
<1> DEFINE t == CHOOSE s : s = [i \in 0 .. n |-> IF i = 0 THEN 0
                                                  ELSE s[i - 1] + image[i - 1].packet.crc]
<1>0. Checksum(image, n) = t[n] BY DEF Checksum
<1>1. \E s : s = [i \in 0 .. n |-> IF i = 0 THEN 0 ELSE s[i - 1] + image[i - 1].packet.crc]
  BY DEF IsSums
<1>2. t = [i \in 0 .. n |-> IF i = 0 THEN 0 ELSE t[i - 1] + image[i - 1].packet.crc]
  BY <1>1
<1> HIDE DEF t
<1>3. PICK s : s = t OBVIOUS
<1>4. IsSums(s, image, n) BY <1>2, <1>3 DEF IsSums
<1>5. s[n] = f[n] BY <1>4, SumsAgree
<1> QED BY <1>0, <1>3, <1>5

\* One packet more, and packets the checksum does not add up.
LEMMA ChecksumFacts ==
  ASSUME NEW image, NEW n \in Nat
  PROVE  /\ Checksum(image, 0) = 0
         /\ Checksum(image, n + 1) = Checksum(image, n) + image[n].packet.crc
         /\ \A other : (\A i \in 0 .. n - 1 : image[i].packet.crc = other[i].packet.crc)
                          => Checksum(other, n) = Checksum(image, n)
<1>1. PICK f : IsSums(f, image, n + 1) BY SumsExist
<1>2. PICK g : IsSums(g, image, n) BY SumsExist
<1>3. PICK h : IsSums(h, image, 0) BY SumsExist
<1>4. Checksum(image, 0) = 0 BY <1>3, ChecksumIs, SumsStep
<1>5. f[n] = g[n] BY <1>1, <1>2, SumsAgree
<1>6. Checksum(image, n + 1) = f[n + 1] /\ Checksum(image, n) = g[n]
  BY <1>1, <1>2, ChecksumIs
<1>7. f[n + 1] = f[n] + image[n].packet.crc
  <2>1. n \in 0 .. (n + 1) - 1 OBVIOUS
  <2> QED BY <1>1, <2>1, SumsStep
<1>8. ASSUME NEW other, \A i \in 0 .. n - 1 : image[i].packet.crc = other[i].packet.crc
      PROVE  Checksum(other, n) = Checksum(image, n)
  <2>1. PICK o : IsSums(o, other, n) BY SumsExist
  <2>2. g[n] = o[n] BY <1>2, <1>8, <2>1, SumsAgree
  <2> QED BY <1>6, <2>1, <2>2, ChecksumIs
<1> QED BY <1>4, <1>5, <1>6, <1>7, <1>8

-----------------------------------------------------------------------------
(* What has been received so far is a part of a whole image.               *)

IInv == MInv /\ Image

LEMMA ImageFrame ==
  ASSUME Image, UNCHANGED <<flash, mesh, addr, last, total, check, sum, finished>>,
         Running' => Running
  PROVE  Image'
BY DEF Image, Partial, Overlaid, Summed, Smaller, Running, Whole

\* The first packet.
LEMMA ImageFirst ==
  ASSUME IInv, NEW q \in Slot, SaveFirst(q) PROVE Image'
<1>0. CInv /\ TypeOK /\ Control /\ Marked BY DEF IInv, MInv, CInv
<1>c. Continue = 0 /\ Ok = 1 /\ Error = 2 BY DEF Continue, Ok, Error
<1>1. pc = "save" /\ finished = Continue /\ pc' = "save" /\ total' = total
  BY <1>0, NextSaveFirst
<1>2. CASE finished' = Error BY <1>c, <1>2 DEF Image, Running
<1>3. ASSUME finished' = Continue, addr = 0, addr' = 1, last' = 0,
             NEW p \in DataPacket, p.idx = 0, flash' = [flash EXCEPT ![0] = Stored(p)],
             check' = p.info.check, p.info.check => sum' = p.crc
      PROVE  Image'
  <2>1. AreaBlank /\ total = 0
    BY <1>0, <1>1, <1>3 DEF Marked, Running
  <2>2. flash \in [Cells -> Cell] /\ 0 \in Cells /\ Area \subseteq Cells
    BY <1>0, CellsFacts DEF TypeOK
  <2>3. flash'[0] = Stored(p) /\ \A i \in Area : i # 0 => flash'[i] = Blank
    BY <1>3, <2>1, <2>2 DEF AreaBlank
  <2>4. flash'[0].what = "packet" /\ flash'[0].packet = p BY <2>3, CellFacts
  <2>5. check' => sum' = Checksum(flash', 1)
    <3> SUFFICES ASSUME check' PROVE sum' = Checksum(flash', 1)
      OBVIOUS
    <3>1. sum' = p.crc /\ p.crc \in Nat BY <1>3, DataFacts
    <3>2. PICK image : image = flash' OBVIOUS
    <3>3. Checksum(image, 0 + 1) = Checksum(image, 0) + image[0].packet.crc /\ Checksum(image, 0) = 0
      BY ChecksumFacts
    <3>4. Checksum(image, 1) = p.crc BY <2>4, <3>1, <3>2, <3>3
    <3> QED BY <3>1, <3>2, <3>4
  <2>6. Summed' = 1 BY <1>3 DEF Summed
  <2>7. Partial'
    <3>1. addr' = last' + 1 BY <1>3
    <3>2. \A i \in 0 .. last' : flash'[i].what = "packet" /\ flash'[i].packet.idx = i
      BY <1>3, <2>4
    <3>3. \A i \in Area : i > last' => flash'[i] = Blank BY <1>3, <2>3, CellsFacts
    <3>4. check' = flash'[0].packet.info.check BY <1>3, <2>4
    <3>5. total' = 0 /\ last' = 0 BY <1>1, <1>3, <2>1
    <3> QED BY <2>5, <2>6, <3>1, <3>2, <3>3, <3>4, <3>5 DEF Partial
  <2> QED BY <1>c, <1>3, <2>7 DEF Image
<1> QED BY <1>0, <1>2, <1>3, NextSaveFirst

\* A packet after packet 0 that is programmed there stays to be seen.
LEMMA OverlaidNext ==
  ASSUME TypeOK, NEW p \in DataPacket, p.idx # 0, NEW a \in Cells, a = 0 \/ Overlaid,
         flash' = [flash EXCEPT ![a] = Stored(p)]
  PROVE  Overlaid'
<1>1. flash \in [Cells -> Cell] /\ 0 \in Cells BY CellsFacts DEF TypeOK
<1>2. CASE a = 0
  <2>1. flash'[0] = Stored(p) BY <1>1, <1>2
  <2> QED BY <2>1, CellFacts DEF Overlaid
<1>3. CASE a # 0
  <2>1. flash'[0] = flash[0] BY <1>1, <1>3
  <2> QED BY <1>3, <2>1 DEF Overlaid
<1> QED BY <1>2, <1>3

\* The packet after the last one, in its place.
LEMMA PartialNext ==
  ASSUME TypeOK, Partial, NEW p \in DataPacket, NEW n \in 0 .. Top,
         Follows(p, n, last + 1), ~Wrong(p, n),
         flash' = [flash EXCEPT ![last + 1] = Stored(p)], addr' = last + 2
  PROVE  Partial'
<1>1. /\ last \in Nat /\ p.idx = last + 1 /\ last' = last + 1 /\ total' = n /\ check' = check /\ mesh' = mesh
      /\ n = IF p.idx = 1 THEN p.info.total ELSE total
      /\ p.idx \in Cells /\ p.crc \in Nat /\ n \in Nat /\ last \in Cells
  <2>1. p.idx \in Cells /\ p.crc \in Nat BY DataFacts
  <2> QED BY <2>1, CellsFacts DEF Follows
<1>2. flash \in [Cells -> Cell] BY DEF TypeOK
<1>3. flash'[p.idx] = Stored(p) /\ \A i \in Cells : i # p.idx => flash'[i] = flash[i]
  BY <1>1, <1>2
<1>4. flash'[p.idx].what = "packet" /\ flash'[p.idx].packet = p BY <1>3, CellFacts
<1>5. addr' = last' + 1 BY <1>1
<1>6. \A i \in 0 .. last' : flash'[i].what = "packet" /\ flash'[i].packet.idx = i
  <2> TAKE i \in 0 .. last'
  <2>1. CASE i = p.idx BY <1>1, <1>4, <2>1
  <2>2. CASE i # p.idx
    <3>1. i \in 0 .. last
      <4>1. i \in 0 .. last + 1 /\ i # last + 1 BY <1>1, <2>2
      <4> QED BY <1>1, <4>1
    <3>2. last \in Cells BY <1>1
    <3>3. i \in Cells BY ONLY <3>1, <3>2, CellsFacts
    <3> QED BY <1>3, <2>2, <3>1, <3>3 DEF Partial
  <2> QED BY <2>1, <2>2
<1>7. \A i \in Area : i > last' => flash'[i] = Blank
  <2> TAKE i \in Area
  <2> HAVE i > last'
  <2>1. i > last /\ i # p.idx /\ i \in Cells BY <1>1, CellsFacts
  <2> QED BY <1>3, <2>1 DEF Partial
<1>8. 0 \in Cells /\ flash'[0] = flash[0] /\ check' = flash'[0].packet.info.check
  <2>1. 0 \in Cells /\ 0 # p.idx BY <1>1, CellsFacts
  <2> QED BY <1>1, <1>3, <2>1 DEF Partial
<1>9. last' >= 1 /\ last' # 0 BY <1>1
<1>10. n >= 3 /\ n = flash'[1].packet.info.total /\ (mesh \/ flash'[1].packet.info.mode)
  <2>1. CASE p.idx = 1 BY <1>1, <1>4, <2>1 DEF Wrong
  <2>2. CASE p.idx # 1
    <3>1. last >= 1 /\ 1 \in Cells BY <1>1, <2>2, CellsFacts
    <3>2. flash'[1] = flash[1] BY <1>3, <2>2, <3>1
    <3> QED BY <1>1, <2>2, <3>1, <3>2 DEF Partial
  <2> QED BY <2>1, <2>2
<1>11. sum' = IF check /\ (p.idx = 1 \/ p.idx < n - 1) THEN sum + p.crc ELSE sum
  BY DEF Follows
<1>12. Summed' = Smaller(last' + 1, n - 1) BY <1>1, <1>9 DEF Summed, Smaller
<1>13. check => sum = Checksum(flash, Summed) BY DEF Partial
<1> HIDE DEF Wrong
<1>14. ASSUME check PROVE sum' = Checksum(flash', Summed')
  <2>1. PICK old : old = flash OBVIOUS
  <2>2. PICK new : new = flash' OBVIOUS
  <2>3. ASSUME NEW k \in Nat, k <= p.idx PROVE Checksum(new, k) = Checksum(old, k)
    <3>1. \A i \in 0 .. k - 1 : old[i].packet.crc = new[i].packet.crc
      BY <1>1, <1>3, <2>1, <2>2, <2>3, CellsFacts
    <3> QED BY <3>1, ChecksumFacts
  <2>4. Checksum(new, p.idx + 1) = Checksum(new, p.idx) + p.crc
    <3>1. new[p.idx].packet.crc = p.crc BY <1>4, <2>2
    <3>2. p.idx \in Nat BY <1>1
    <3> QED BY <3>1, <3>2, ChecksumFacts
  <2>5. CASE p.idx = 1 \/ p.idx < n - 1
    <3>1. Summed = p.idx /\ Summed' = p.idx + 1
      <4>1. CASE p.idx = 1 BY <1>1, <1>10, <1>12, <4>1 DEF Summed, Smaller
      <4>2. CASE p.idx # 1
        <5>1. total = n /\ last # 0 /\ p.idx < n - 1 BY <1>1, <2>5, <4>2
        <5> QED BY <1>1, <1>12, <5>1 DEF Summed, Smaller
      <4> QED BY <4>1, <4>2
    <3>2. sum = Checksum(old, p.idx) BY <1>13, <1>14, <2>1, <3>1
    <3>3. sum = Checksum(new, p.idx) BY <1>1, <2>3, <3>2
    <3>4. sum' = sum + p.crc BY <1>11, <1>14, <2>5
    <3>5. sum' = Checksum(new, p.idx + 1) BY <2>4, <3>3, <3>4
    <3> QED BY <2>2, <3>1, <3>5
  <2>6. CASE ~(p.idx = 1 \/ p.idx < n - 1)
    <3>1. total = n /\ last # 0 /\ p.idx >= n - 1 BY <1>1, <2>6
    <3>2. Summed = n - 1 /\ Summed' = n - 1 BY <1>1, <1>12, <3>1 DEF Summed, Smaller
    <3>3. n - 1 \in Nat /\ n - 1 <= p.idx BY <1>1, <1>10, <3>1
    <3>4. sum = Checksum(old, n - 1) BY <1>13, <1>14, <2>1, <3>2
    <3>5. sum = Checksum(new, n - 1) BY <2>3, <3>3, <3>4
    <3>6. sum' = sum BY <1>11, <2>6
    <3> QED BY <2>2, <3>2, <3>5, <3>6
  <2> QED BY <2>5, <2>6
<1>15. check /\ last' = n - 1 => flash'[last'].packet.info.sum = sum'
  <2> SUFFICES ASSUME check, last' = n - 1 PROVE p.info.sum = sum'
    BY <1>1, <1>4
  <2>1. p.idx = n - 1 /\ p.idx # 1 BY <1>1, <1>10
  <2>2. sum' = sum BY <1>1, <1>11, <2>1
  <2> QED BY <2>1, <2>2 DEF Wrong
<1>16. (check' => sum' = Checksum(flash', Summed'))
       /\ (check' /\ last' = total' - 1 => flash'[last'].packet.info.sum = sum')
  BY <1>1, <1>14, <1>15
<1> QED BY <1>1, <1>5, <1>6, <1>7, <1>8, <1>9, <1>10, <1>16 DEF Partial

LEMMA ImageNext ==
  ASSUME IInv, NEW q \in Slot, SaveNext(q) PROVE Image'
<1>0. CInv /\ TypeOK /\ Control /\ Marked /\ Image BY DEF IInv, MInv, CInv
<1>c. Continue = 0 /\ Ok = 1 /\ Error = 2 BY DEF Continue, Ok, Error
<1>1. PICK p \in DataPacket, n \in 0 .. Top, a \in Cells :
        /\ Follows(p, n, a)
        /\ \/ /\ flash' = [flash EXCEPT ![a] = Stored(p)] /\ Programs(p, a)
              /\ addr' = a + 1 /\ finished' = Continue
           \/ /\ flash' = [flash EXCEPT ![a] = Mixed] /\ ~Programs(p, a)
              /\ addr' = a /\ finished' = Error
  BY <1>0, NextSaveNext
<1>2. /\ pc = "save" /\ finished = Continue /\ last \in Cells /\ p.idx = last + 1
      /\ a = IF Wrong(p, n) THEN 0 ELSE addr
  BY <1>1 DEF Follows
<1>3. CASE finished' = Error BY <1>c, <1>3 DEF Image, Running
<1>4. CASE finished' = Continue
  <2>1. flash' = [flash EXCEPT ![a] = Stored(p)] /\ addr' = a + 1
    BY <1>c, <1>1, <1>4
  <2>2. p.idx # 0 BY <1>2, CellsFacts
  <2>3. CASE a = 0 \/ Overlaid
    <3>1. Overlaid' BY <1>0, <2>1, <2>2, <2>3, OverlaidNext
    <3> QED BY <1>c, <1>4, <3>1 DEF Image
  <2>4. CASE a # 0 /\ ~Overlaid
    <3>1. ~Wrong(p, n) /\ a = addr /\ addr # 0
      <4> HIDE DEF Wrong
      <4> QED BY <1>2, <2>4
    <3>2. Partial BY <1>0, <1>2, <2>4, <3>1 DEF Image, Running
    <3>3. a = last + 1 /\ addr' = last + 2
      BY <1>2, <2>1, <3>1, <3>2, CellsFacts DEF Partial
    <3>4. Partial' BY <1>0, <1>1, <2>1, <3>1, <3>2, <3>3, PartialNext
    <3> QED BY <1>c, <1>4, <3>4 DEF Image
  <2> QED BY <2>3, <2>4
<1> QED BY <1>1, <1>3, <1>4

\* The empty packet after the last one.
LEMMA ImageEnd ==
  ASSUME IInv, NEW q \in Slot, SaveEnd(q) PROVE Image'
<1>0. CInv /\ TypeOK /\ Control /\ Marked /\ Image BY DEF IInv, MInv, CInv
<1>1. /\ finished' # Continue /\ UNCHANGED <<flash, pc, total, check, sum>>
      /\ finished' = Ok => ~mesh /\ last \in Cells /\ last + 1 = total
      /\ pc = "save" /\ cache_idx > 0
  BY <1>0, NextSaveEnd DEF SaveEnd, Saving
<1>2. finished = Continue BY <1>0, <1>1 DEF Control
<1>3. ASSUME finished' = Ok, ~Overlaid PROVE Whole(flash)
  <2>1. ~mesh /\ last \in Cells /\ last + 1 = total /\ total \in 0 .. Top
    BY <1>0, <1>1, <1>3 DEF TypeOK
  <2>a. addr # 0 BY <1>0, <1>1, <1>2, <2>1, CellsFacts DEF Marked, Running
  <2>2. Partial BY <1>0, <1>1, <1>2, <1>3, <2>a DEF Image, Running
  <2>3. last >= 1 BY <2>1, <2>2, CellsFacts DEF Partial
  <2>4. /\ total >= 3 /\ total = flash[1].packet.info.total /\ flash[1].packet.info.mode
        /\ check = flash[0].packet.info.check
    BY <2>1, <2>2, <2>3 DEF Partial
  <2>5. total \in 3 .. Top /\ total - 1 = last BY <2>1, <2>4, CellsFacts
  <2>6. \A i \in 0 .. total - 1 : flash[i].what = "packet" /\ flash[i].packet.idx = i
    BY <2>2, <2>5 DEF Partial
  <2>7. \A i \in Area : i >= total => flash[i] = Blank
    BY <2>1, <2>2, CellsFacts DEF Partial
  <2>8. Summed = total - 1 BY <2>1, <2>3, CellsFacts DEF Summed, Smaller
  <2>9. check => flash[total - 1].packet.info.sum = Checksum(flash, total - 1)
    BY <2>2, <2>3, <2>5, <2>8 DEF Partial
  <2> QED BY <2>4, <2>5, <2>6, <2>7, <2>9 DEF Whole
<1>4. (Whole(flash) => Whole(flash)') /\ (Overlaid => Overlaid') BY <1>1 DEF Whole, Overlaid
<1> QED BY <1>1, <1>3, <1>4 DEF Image, Running

LEMMA NextIInv == HeadSeen /\ IInv /\ [Next]_vars => IInv'
<1> SUFFICES ASSUME HeadSeen, IInv, [Next]_vars PROVE Image'
  BY NextMInv DEF IInv
<1>0. CInv /\ TypeOK /\ Control /\ Marked /\ Image BY DEF IInv, MInv, CInv
<1>c. Continue = 0 /\ Ok = 1 /\ Error = 2 BY DEF Continue, Ok, Error
<1>1. ASSUME NEW p \in Packet, NEW m \in BOOLEAN, Receive(p, m) PROVE Image'
  <2>1. /\ pc = "poll" /\ finished = Continue /\ IF busy THEN m = mesh ELSE ~sending
        /\ mesh' = m
        /\ UNCHANGED <<flash, pc, addr, last, total, check, sum, finished>>
    BY <1>1 DEF Receive, rom, receiver, finish
  <2>2. CASE busy
    <3>1. mesh' = mesh BY <2>1, <2>2
    <3> QED BY <1>0, <2>1, <3>1, ImageFrame DEF Running
  <2>3. CASE ~busy
    <3>1. addr = 0 BY <1>0, <2>1, <2>3 DEF Marked
    <3> QED BY <1>c, <2>1, <3>1 DEF Image
  <2> QED BY <2>2, <2>3
<1>f. ASSUME finished' = Error PROVE Image' BY <1>c, <1>f DEF Image, Running
<1>2. ASSUME NEW p \in Slot,
             SaveBad(p) \/ SaveEnd(p) \/ SaveEndMesh(p) \/ SaveFirst(p) \/ SaveNext(p)
               \/ SaveOutOfOrder(p)
      PROVE  Image'
  <2>1. CASE SaveBad(p) BY <1>0, <1>f, <2>1, NextSaveBad
  <2>2. CASE SaveEnd(p) BY <2>2, ImageEnd
  <2>3. CASE SaveEndMesh(p)
    <3>1. UNCHANGED <<flash, pc, mesh, addr, last, total, check, sum, finished>>
      BY <2>3 DEF SaveEndMesh, rom, receiver, finish
    <3> QED BY <1>0, <3>1, ImageFrame DEF Running
  <2>4. CASE SaveFirst(p) BY <2>4, ImageFirst
  <2>5. CASE SaveNext(p) BY <2>5, ImageNext
  <2>6. CASE SaveOutOfOrder(p) BY <1>0, <1>f, <2>6, NextSaveOutOfOrder
  <2> QED BY <1>2, <2>1, <2>2, <2>3, <2>4, <2>5, <2>6
<1>3. CASE Poll \/ SaveDone \/ Tick \/ ReadCommand \/ GiveUp \/ MeshDone \/ SetFlag \/ Erased \/ PowerLoss
  <2>1. UNCHANGED <<flash, mesh, addr, last, total, check, sum, finished>>
    BY <1>3 DEF Poll, SaveDone, Tick, ReadCommand, GiveUp, MeshDone, SetFlag, Erased, PowerLoss,
                way, rom, receiver, finish
  <2>2. \/ pc' = pc \/ pc' \in {"erase", "boot"} \/ (pc = "poll" /\ pc' = "save")
        \/ (pc = "save" /\ pc' = "finish")
    BY <1>3 DEF Poll, SaveDone, Tick, ReadCommand, GiveUp, MeshDone, SetFlag, Erased, PowerLoss
  <2>3. Running' => Running BY <2>1, <2>2 DEF Running
  <2> QED BY <1>0, <2>1, <2>3, ImageFrame
<1>9. ASSUME NEW ready \in BOOLEAN, Finish(ready) PROVE Image'
  <2>1. /\ pc = "finish"
        /\ UNCHANGED <<flash, mesh, addr, last, total, check, sum, finished>>
    BY <1>9 DEF Finish, way, rom, receiver
  <2> QED BY <1>0, <2>1, ImageFrame DEF Running
<1>14. CASE Erase \/ BootErase
  <2>1. pc \in {"erase", "boot_erase"} /\ UNCHANGED <<pc, finished>>
    BY <1>14 DEF Erase, BootErase, finish
  <2>2. finished # Ok BY <1>0, <1>c, <2>1 DEF Control
  <2> QED BY <2>1, <2>2 DEF Image, Running
<1>16. CASE BootLoader
  <2>1. addr' = 0 /\ finished' = Continue BY <1>16 DEF BootLoader, Reset
  <2> QED BY <1>c, <2>1 DEF Image
<1>17. CASE BootCheck \/ BootErased
  <2>1. pc \in {"check", "boot_erase"} /\ UNCHANGED <<addr, finished>>
    BY <1>17 DEF BootCheck, BootErased, receiver, finish
  <2>2. addr = 0 /\ finished = Continue BY <1>0, <2>1 DEF Marked, Control
  <2> QED BY <1>c, <2>1, <2>2 DEF Image
<1>19. CASE UNCHANGED vars
  <2>1. UNCHANGED <<flash, pc, mesh, addr, last, total, check, sum, finished>>
    BY <1>19 DEF vars, way, rom, receiver, finish
  <2> QED BY <1>0, <2>1, ImageFrame DEF Running
<1> QED BY <1>1, <1>2, <1>3, <1>9, <1>14, <1>16, <1>17, <1>19
        DEF Next, Handle, Shutdown, Boot

-----------------------------------------------------------------------------
(* The theorems.                                                           *)

\* The type invariant of an update, for every sequence of packets with any
\* numbers and sizes: a cache that wraps, and a write position that stays behind
\* the last packet number, though not within the area.
THEOREM TypeCorrect == Spec => []TypeOK
<1>1. CInv => TypeOK BY DEF CInv
<1> QED BY <1>1, InitCInv, NextCInv, PTL DEF Spec

\* The verdict of rf_link_slave_data_ota_save is final: packets that come after
\* it change neither the verdict nor an image that was found whole.
THEOREM VerdictFinal == Spec => VerdictIsFinal
<1> DEFINE Kept == /\ finished # Continue /\ finished' # finished => pc = "boot"
                   /\ finished = Ok /\ flash' # flash => pc = "boot"
<1>1. CInv /\ [Next]_vars => [Kept]_vars
  <2> SUFFICES ASSUME CInv, [Next]_vars PROVE Kept \/ UNCHANGED vars
    OBVIOUS
  <2>0. CInv /\ Control BY DEF CInv
  <2>c. Continue = 0 /\ Ok = 1 /\ Error = 2 BY DEF Continue, Ok, Error
  <2>f. UNCHANGED <<flash, finished>> => Kept OBVIOUS
  <2>g. finished = Continue => Kept BY <2>c
  <2>1. ASSUME NEW p \in Packet, NEW m \in BOOLEAN, Receive(p, m) PROVE Kept
    BY <2>1, <2>f DEF Receive, rom, finish
  <2>2. CASE Poll \/ SaveDone BY <2>2, <2>f DEF Poll, SaveDone, rom, finish
  <2>3. ASSUME NEW p \in Slot,
               SaveBad(p) \/ SaveEnd(p) \/ SaveEndMesh(p) \/ SaveFirst(p) \/ SaveNext(p)
                 \/ SaveOutOfOrder(p)
        PROVE  Kept
    <3>1. cache_idx > 0
      BY <2>3 DEF SaveBad, SaveEnd, SaveEndMesh, SaveFirst, SaveNext, SaveOutOfOrder, Saving
    <3> QED BY <2>0, <2>g, <3>1 DEF Control
  <2>4. ASSUME NEW ready \in BOOLEAN, Finish(ready) PROVE Kept
    <3>1. UNCHANGED <<flash, finished>> BY <2>4 DEF Finish, rom
    <3> QED BY <2>f, <3>1
  <2>5. CASE Tick \/ ReadCommand \/ GiveUp \/ MeshDone
    BY <2>5, <2>f DEF Tick, ReadCommand, GiveUp, MeshDone, rom, finish
  <2>6. CASE SetFlag \/ Erased \/ BootCheck \/ BootErased \/ PowerLoss
    BY <2>6, <2>f DEF SetFlag, Erased, BootCheck, BootErased, PowerLoss, rom, finish
  <2>7. CASE Erase \/ BootErase
    <3>1. pc \in {"erase", "boot_erase"} /\ UNCHANGED finished
      BY <2>7 DEF Erase, BootErase, finish
    <3>2. finished # Ok BY <2>0, <2>c, <3>1 DEF Control
    <3> QED BY <3>1, <3>2
  <2>8. CASE BootLoader BY <2>8 DEF BootLoader
  <2> QED BY <2>1, <2>2, <2>3, <2>4, <2>5, <2>6, <2>7, <2>8 DEF Next, Handle, Shutdown, Boot
<1> QED BY <1>1, InitCInv, NextCInv, PTL DEF Spec, VerdictIsFinal

\* If packet 0 has a 0 bit in its first word, is_ota_area_valid finds whatever a
\* broken update or a broken erase_ota_data has left, and every update starts on
\* an erased area.
THEOREM UpdateStartsErased == HeadSeen => (Spec => []StartsErased)
<1> SUFFICES ASSUME HeadSeen PROVE Spec => []StartsErased
  OBVIOUS
<1>1. MInv => StartsErased
  BY DEF MInv, CInv, Control, Marked, Running, StartsErased
<1> QED BY <1>1, InitMInv, NextMInv, PTL DEF Spec

\* If packet 0 has a 0 bit in its first word, an image the boot loader is told to
\* start is whole, whatever the packets contain, unless a packet that failed its
\* check has been programmed over packet 0.
THEOREM OnlyWholeImages == HeadSeen => (Spec => []RunsWholeImage)
<1> SUFFICES ASSUME HeadSeen PROVE Spec => []RunsWholeImage
  OBVIOUS
<1>1. Init => IInv
  <2> SUFFICES ASSUME Init PROVE Image
    BY InitMInv DEF IInv
  <2> QED BY DEF Init, Image, Continue, Ok
<1>2. IInv => RunsWholeImage
  BY DEF IInv, MInv, CInv, Control, Image, RunsWholeImage
<1> QED BY <1>1, <1>2, NextIInv, PTL DEF Spec
=============================================================================
