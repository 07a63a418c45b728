------------------------------ MODULE OtaGatt ------------------------------
(***************************************************************************)
(* Firmware update over GATT: rf_link_slave_data_ota,                      *)
(* rf_link_slave_data_ota_save, rf_link_slave_ota_finish_handle,           *)
(* is_ota_area_valid and erase_ota_data (common.c), with the check at boot *)
(* (main_light.c).                                                         *)
(*                                                                         *)
(* A phone sends the new firmware in numbered packets of 16 bytes and then *)
(* an empty packet.  They are cached as they arrive and handled once per   *)
(* connection event: the number must be the next one, packet 0 says        *)
(* whether the image carries a checksum, packet 1 holds its size and its   *)
(* light mode, the last packet holds the checksum.  The first verdict      *)
(* other than "go on" ends the update; the module then reboots, into the   *)
(* new image or after erasing it.  Power may fail at any point.            *)
(*                                                                         *)
(* Both parts run in interrupts that do not interrupt each other.  The     *)
(* flash is a function from cells of 16 bytes to what they hold; the area  *)
(* for the new image comes first, and what lies behind it belongs to       *)
(* others.  Neither the numbers nor the size a packet gives are compared   *)
(* with the area.  A packet is its number and what the code reads of it.   *)
(*                                                                         *)
(* The image may also be for other nodes (APP_OTA_HCI_TYPE_MESH): then it  *)
(* is not started but passed on over the mesh, and the module reboots.     *)
(* What is in the library (rf_ota_save_data, rf_ota_set_flag, the boot     *)
(* loader, the update timeout, the update of other nodes) is modelled as   *)
(* this code uses it.                                                      *)
(***************************************************************************)
EXTENDS Integers, Sequences

CONSTANTS
  Sectors,      \* ERASE_SECTORS_FOR_OTA: sectors of the area
  CellsOf,      \* cells of one sector: 4096 / 16
  IdxMod,       \* packet numbers have 16 bits: 65536
  CacheSize,    \* slots of buff_response that are filled: 16
  CacheMod,     \* slave_ota_data_cache_idx has 8 bits: 256
  TermPolls,    \* terminate_cnt: polls between the terminate packet and the reboot
  Crcs,         \* the CRC16 of a packet, which the checksum adds up
  Sums,         \* checksums a last packet may carry
  HeadBits,     \* bits that are 0 in packet 0
  BodyBits,     \* bits that may be 0 in the other packets
  FirstWord     \* those bits that lie in the first four bytes

Top == IdxMod - 1                      \* the largest number; (u16)-1
Cells == 0 .. Top                      \* the cells that packets may be written to
Size == Sectors * CellsOf
Area == 0 .. Size - 1                  \* those for the new image

ASSUME OtaAssumption ==
  /\ Sectors \in Nat \ {0} /\ CellsOf \in Nat \ {0}
  /\ IdxMod \in Nat /\ Size \in 3 .. Top
  /\ CacheMod \in Nat /\ CacheSize \in 1 .. CacheMod - 1
  /\ TermPolls \in Nat \ {0}
  /\ Crcs \subseteq Nat /\ Sums \subseteq Nat
  /\ FirstWord \subseteq HeadBits \cup BodyBits

\* A packet with data.  The fields a packet of that number does not have, or
\* that are not read, are fixed.
DataPacket ==
       [idx : {0}, crc : Crcs, bits : {HeadBits},
        info : [check : BOOLEAN, total : {0}, mode : {TRUE}, sum : {0}]]
  \cup [idx : {1}, crc : Crcs, bits : SUBSET BodyBits,
        info : [check : {FALSE}, total : 0 .. Top, mode : BOOLEAN, sum : {0}]]
  \cup [idx : Cells \ {0, 1}, crc : Crcs, bits : SUBSET BodyBits,
        info : [check : {FALSE}, total : {0}, mode : {TRUE}, sum : Sums]]
\* What arrives: data, the empty packet at the end, or a packet with a bad CRC.
Packet ==
       [kind : {"data"}, data : DataPacket]
  \cup [kind : {"end"}, idx : 0 .. Top]
  \cup [kind : {"bad"}]

Blank == [what |-> "blank", bits |-> {}]
Mixed == [what |-> "mixed", bits |-> HeadBits \cup BodyBits]
Stored(p) == [what |-> "packet", bits |-> p.bits, packet |-> p]
Cell == {Blank, Mixed} \cup {Stored(p) : p \in DataPacket}

VARIABLES
  flash,          \* the area for the new image, and what lies behind it
  flagged,        \* rf_ota_set_flag has been called: boot the new image
  pc,             \* what the module is doing
  busy,           \* rf_slave_ota_busy
  mesh,           \* app_ota_hci_type = APP_OTA_HCI_TYPE_MESH
  sending,        \* is_master_sending_ota_st(): the image is passed on
  cache,          \* the slots of buff_response that have been filled
  cache_idx,      \* slave_ota_data_cache_idx
  addr,           \* cur_ota_flash_addr / 16
  last,           \* ota_rcv_last_idx; Top at boot
  total,          \* ota_pkt_total
  check,          \* need_check_type = 1
  sum,            \* fw_check_val
  finished,       \* rf_slave_ota_finished_flag
  since,          \* seconds since rf_slave_ota_finished_time
  terminate,      \* rf_slave_ota_terminate_flag
  terminate_cnt,  \* terminate_cnt
  erased          \* erase_ota_data: the sectors from this one up are erased

rom      == <<flash, flagged>>
receiver == <<addr, last, total, check, sum>>
finish   == <<finished, since, terminate, terminate_cnt>>
way      == <<mesh, sending>>
caching  == <<cache, cache_idx>>
vars     == <<rom, pc, busy, way, caching, receiver, finish, erased>>

Continue == 0     \* OTA_STATE_CONTINU
Ok       == 1     \* OTA_STATE_OK
Error    == 2     \* OTA_STATE_ERROR

\* What lies behind the area may have been erased or programmed by its owners.
Behind(f) ==
  {[c \in Cells |-> IF c \in Area THEN f[c] ELSE behind[c]] : behind \in [Cells \ Area -> {Blank, Mixed}]}
AreaOf(x) == Behind([c \in Cells |-> x])
AreaBlank == \A c \in Area : flash[c] = Blank

\* The static variables after a reset.
Reset ==
  /\ busy' = FALSE /\ mesh' = FALSE /\ sending' = FALSE /\ cache' = <<>> /\ cache_idx' = 0
  /\ addr' = 0 /\ last' = Top /\ total' = 0 /\ check' = FALSE /\ sum' = 0
  /\ finished' = Continue /\ since' = 0 /\ terminate' = FALSE /\ terminate_cnt' = 0
  /\ erased' = Sectors

Init ==
  /\ flash \in AreaOf(Blank) /\ flagged = FALSE
  /\ pc = "poll" /\ busy = FALSE /\ mesh = FALSE /\ sending = FALSE /\ cache = <<>> /\ cache_idx = 0
  /\ addr = 0 /\ last = Top /\ total = 0 /\ check = FALSE /\ sum = 0
  /\ finished = Continue /\ since = 0 /\ terminate = FALSE /\ terminate_cnt = 0
  /\ erased = Sectors

-----------------------------------------------------------------------------
\* rf_link_slave_data_ota: a packet arrives.  The first one makes the module
\* busy, if the phone has logged in and no mesh update is running; the phone has
\* said whom the image is for.  Nothing stops more packets than there are slots:
\* the later ones overwrite the earlier ones.
Receive(p, m) ==
  /\ pc = "poll" /\ finished = Continue
  /\ IF busy THEN m = mesh ELSE ~sending
  /\ busy' = TRUE /\ mesh' = m
  /\ cache_idx' = (cache_idx + 1) % CacheMod
  /\ cache' = IF cache_idx' = 0 THEN <<>>
              ELSE IF cache_idx < CacheSize THEN Append(cache, p)
              ELSE [cache EXCEPT ![(cache_idx % CacheSize) + 1] = p]
  /\ UNCHANGED <<rom, pc, sending, receiver, finish, erased>>

\* irq_st_bridge calls rf_link_slave_ota_finish_handle once per connection event.
Poll ==
  /\ pc = "poll" /\ busy
  /\ pc' = "save"
  /\ UNCHANGED <<rom, busy, way, caching, receiver, finish, erased>>

-----------------------------------------------------------------------------
\* rf_link_slave_data_ota_save: one turn of its loop.  A verdict other than
\* Continue is final, and the rest of the cache is dropped.

\* Seeded fault: the loop goes on, and the last verdict counts.
VerdictLatest(v) ==
  /\ cache' = IF cache = <<>> THEN <<>> ELSE Tail(cache)
  /\ cache_idx' = cache_idx - 1
  /\ finished' = v
Verdict(v) ==
  /\ cache' = IF v = Continue /\ cache # <<>> THEN Tail(cache) ELSE <<>>
  /\ cache_idx' = IF v = Continue THEN cache_idx - 1 ELSE 0
  /\ finished' = IF finished = Continue THEN v ELSE finished

\* rf_ota_save_data: program the cell and read it back.
Programs(p, a) == flash[a] = Blank \/ (flash[a] # Mixed /\ flash[a].bits \subseteq p.bits)
Save(p, a) ==
  IF Programs(p, a)
  THEN /\ flash' = [flash EXCEPT ![a] = Stored(p)]
       /\ addr' = a + 1
       /\ Verdict(Continue)
  ELSE /\ flash' = [flash EXCEPT ![a] = Mixed]
       /\ addr' = a
       /\ Verdict(Error)

\* The packet in the next slot; behind the last one the loop reads what happens
\* to be there.
Slot == IF cache # <<>> THEN {Head(cache)} ELSE Packet
Saving(p, kind) == pc = "save" /\ cache_idx > 0 /\ p \in Slot /\ p.kind = kind
Fail(idx) == addr' = 0 /\ last' = idx /\ Verdict(Error)

SaveBad(p) ==
  /\ Saving(p, "bad")
  /\ Fail(0)
  /\ UNCHANGED <<rom, pc, busy, way, total, check, sum, since, terminate, terminate_cnt, erased>>

\* Seeded fault: the image may be too short.
ReceivedSome(idx) == idx = last + 1
ReceivedAll(idx) == idx = last + 1 /\ idx = total
SaveEnd(p) ==
  /\ Saving(p, "end")
  /\ IF ReceivedAll(p.idx)
     THEN Verdict(Ok) /\ ~mesh /\ UNCHANGED <<addr, last>>
     ELSE Fail(0)
  /\ UNCHANGED <<rom, pc, busy, way, total, check, sum, since, terminate, terminate_cnt, erased>>

\* An image for other nodes: mesh_ota_master_start_firmware_from_backup.
SaveEndMesh(p) ==
  /\ Saving(p, "end") /\ ReceivedAll(p.idx) /\ mesh
  /\ sending' = TRUE /\ busy' = FALSE
  /\ cache' = <<>> /\ cache_idx' = 0
  /\ UNCHANGED <<rom, pc, mesh, receiver, finish, erased>>

\* Packet 0 starts an update, once.
SaveFirst(p) ==
  /\ Saving(p, "data") /\ p.data.idx = 0
  /\ IF addr # 0
     THEN Fail(0) /\ UNCHANGED <<flash, check, sum>>
     ELSE /\ check' = p.data.info.check
          /\ sum' = IF p.data.info.check THEN p.data.crc ELSE sum
          /\ Save(p.data, 0)
          /\ last' = 0
  /\ UNCHANGED <<flagged, pc, busy, way, total, since, terminate, terminate_cnt, erased>>

\* The packet after the last one: check its contents, then save it anyway.  A
\* failed check sends the write back to the start of the area, and the verdict
\* is that of the write.
Wrong(d, n) ==
  \/ d.idx = 1 /\ (n < 3 \/ (~mesh /\ ~d.info.mode))
  \/ d.idx # 1 /\ d.idx = n - 1 /\ check /\ d.info.sum # sum
SaveNext(p) ==
  LET d == p.data
      n == IF d.idx = 1 THEN d.info.total ELSE total
  IN  /\ Saving(p, "data") /\ d.idx # 0 /\ d.idx = last + 1
      /\ total' = n
      /\ sum' = IF check /\ ~Wrong(d, n) /\ (d.idx = 1 \/ d.idx < n - 1)
                THEN sum + d.crc ELSE sum
      /\ Save(d, IF Wrong(d, n) THEN 0 ELSE addr)
      /\ last' = d.idx
      /\ UNCHANGED <<flagged, pc, busy, way, check, since, terminate, terminate_cnt, erased>>

SaveOutOfOrder(p) ==
  /\ Saving(p, "data") /\ p.data.idx # 0 /\ p.data.idx # last + 1
  /\ Fail(p.data.idx)
  /\ UNCHANGED <<rom, pc, busy, way, total, check, sum, since, terminate, terminate_cnt, erased>>

SaveDone ==
  /\ pc = "save" /\ cache_idx = 0
  /\ pc' = "finish"
  /\ UNCHANGED <<rom, busy, way, caching, receiver, finish, erased>>

-----------------------------------------------------------------------------
\* Seeded faults: the counter runs below 0; there is no timeout.
CountDownBelow(c) == c - 1
CountDown(c) == IF c > 0 THEN c - 1 ELSE 0
TimedOutNever == FALSE
TimedOut == since > 4
\* The rest of rf_link_slave_ota_finish_handle.  ready: is_add_packet_buf_ready
Finish(ready) ==
  LET started == IF terminate_cnt = 0 /\ terminate /\ ready THEN TermPolls ELSE terminate_cnt
      counted == CountDown(started)
      reboot  == (started > 0 /\ counted = 0) \/ TimedOut
  IN  /\ pc = "finish"
      /\ IF finished = Continue
         THEN pc' = "poll" /\ UNCHANGED <<terminate, terminate_cnt>>
         ELSE /\ terminate_cnt' = counted
              /\ terminate' = (terminate \/ since > 2)
              /\ pc' = IF ~reboot THEN "poll" ELSE IF finished = Ok THEN "flag" ELSE "erase"
      /\ UNCHANGED <<rom, busy, way, caching, receiver, finished, since, erased>>

\* A second passes.
Tick ==
  /\ finished # Continue /\ since < 5
  /\ since' = since + 1
  /\ UNCHANGED <<rom, pc, busy, way, caching, receiver, finished, terminate, terminate_cnt, erased>>

\* The phone reads the result: the library sets the flag.
ReadCommand ==
  /\ pc = "poll" /\ finished # Continue
  /\ terminate' = TRUE
  /\ UNCHANGED <<rom, pc, busy, way, caching, receiver, finished, since, terminate_cnt, erased>>

\* The phone has gone or been silent for rf_slave_ota_timeout_s: the library
\* calls rf_link_slave_ota_finish_led_and_reboot.
GiveUp ==
  /\ pc = "poll" /\ busy /\ finished = Continue
  /\ pc' = "erase"
  /\ UNCHANGED <<rom, busy, way, caching, receiver, finish, erased>>

\* The other nodes have their image: the library calls
\* rf_link_slave_ota_finish_led_and_reboot with OTA_STATE_MASTER_OTA_REBOOT_ONLY.
MeshDone ==
  /\ pc = "poll" /\ sending
  /\ pc' = "boot"
  /\ UNCHANGED <<rom, busy, way, caching, receiver, finish, erased>>

-----------------------------------------------------------------------------
\* rf_link_slave_ota_finish_led_and_reboot
SetFlag ==
  /\ pc = "flag"
  /\ flagged' = TRUE
  /\ pc' = "boot"
  /\ UNCHANGED <<flash, busy, way, caching, receiver, finish, erased>>

\* erase_ota_data: sector by sector, the first sector last.
\* Seeded fault: the first sector first.
EraseUpwards(n) == [c \in Cells |-> IF c \div CellsOf = Sectors - n THEN Blank ELSE flash[c]]
EraseSector(n) == [c \in Cells |-> IF c \div CellsOf = n - 1 THEN Blank ELSE flash[c]]
Erase ==
  /\ pc = "erase" /\ erased > 0
  /\ flash' = EraseSector(erased)
  /\ erased' = erased - 1
  /\ UNCHANGED <<flagged, pc, busy, way, caching, receiver, finish>>
Erased ==
  /\ pc = "erase" /\ erased = 0
  /\ pc' = "boot"
  /\ UNCHANGED <<rom, busy, way, caching, receiver, finish, erased>>

\* Power-on or reboot.  The boot loader starts the new image if it is flagged,
\* and the area is then the one that holds the old image.
BootLoader ==
  /\ pc = "boot"
  /\ flash' \in IF flagged THEN AreaOf(Mixed) ELSE Behind(flash)
  /\ flagged' = FALSE
  /\ pc' = "check"
  /\ Reset

\* is_ota_area_valid looks at the first four bytes of every sector; main_light.c
\* erases the area unless they are all 0xff.
IsOtaAreaValid == \A s \in 0 .. Sectors - 1 : flash[s * CellsOf].bits \cap FirstWord = {}
BootCheck ==
  /\ pc = "check"
  /\ pc' = IF IsOtaAreaValid THEN "poll" ELSE "boot_erase"
  /\ UNCHANGED <<rom, busy, way, caching, receiver, finish, erased>>
BootErase ==
  /\ pc = "boot_erase" /\ erased > 0
  /\ flash' = EraseSector(erased)
  /\ erased' = erased - 1
  /\ UNCHANGED <<flagged, pc, busy, way, caching, receiver, finish>>
BootErased ==
  /\ pc = "boot_erase" /\ erased = 0
  /\ pc' = "poll" /\ erased' = Sectors
  /\ UNCHANGED <<rom, busy, way, caching, receiver, finish>>

PowerLoss ==
  /\ pc # "boot"
  /\ pc' = "boot"
  /\ UNCHANGED <<rom, busy, way, caching, receiver, finish, erased>>

Handle ==
  \/ Poll
  \/ \E p \in Slot :
       \/ SaveBad(p) \/ SaveEnd(p) \/ SaveEndMesh(p)
       \/ SaveFirst(p) \/ SaveNext(p) \/ SaveOutOfOrder(p)
  \/ SaveDone
  \/ \E ready \in BOOLEAN : Finish(ready)
Shutdown == SetFlag \/ Erase \/ Erased
Boot == BootLoader \/ BootCheck \/ BootErase \/ BootErased

Next ==
  \/ \E p \in Packet, m \in BOOLEAN : Receive(p, m)
  \/ Handle \/ Tick \/ ReadCommand \/ GiveUp \/ MeshDone
  \/ Shutdown \/ Boot
  \/ PowerLoss

Spec == Init /\ [][Next]_vars

\* irq_st_bridge keeps polling, time passes, and the reboot code runs.
FairSpec == Spec /\ WF_vars(Handle) /\ WF_vars(Tick) /\ WF_vars(Shutdown) /\ WF_vars(Boot)

-----------------------------------------------------------------------------
TypeOK ==
  /\ flash \in [Cells -> Cell]
  /\ flagged \in BOOLEAN
  /\ pc \in {"poll", "save", "finish", "flag", "erase", "boot", "check", "boot_erase"}
  /\ busy \in BOOLEAN /\ mesh \in BOOLEAN /\ sending \in BOOLEAN
  /\ cache \in Seq(Packet) /\ Len(cache) <= CacheSize
  /\ cache_idx \in 0 .. CacheMod - 1
  /\ addr \in 0 .. IdxMod
  /\ last \in Cells
  /\ total \in 0 .. Top
  /\ check \in BOOLEAN /\ sum \in Nat
  /\ finished \in {Continue, Ok, Error}
  /\ since \in 0 .. 5 /\ terminate \in BOOLEAN /\ terminate_cnt \in 0 .. TermPolls
  /\ erased \in 0 .. Sectors

\* What the checksum of an image adds up: the CRCs of its first n packets.
Checksum(image, n) ==
  LET sums[i \in 0 .. n] == IF i = 0 THEN 0 ELSE sums[i - 1] + image[i - 1].packet.crc
  IN  sums[n]

\* An image as its maker made it: packets 0 .. n - 1 in their places, n and the
\* light mode right, and, if packet 0 asks for it, the checksum right.
Whole(image) ==
  \E n \in 3 .. Top :
    /\ \A i \in 0 .. n - 1 : image[i].what = "packet" /\ image[i].packet.idx = i
    /\ \A i \in Area : i >= n => image[i] = Blank
    /\ image[1].packet.info.total = n /\ image[1].packet.info.mode
    /\ image[0].packet.info.check => image[n - 1].packet.info.sum = Checksum(image, n - 1)

\* What the code takes for granted of a firmware: the check at boot finds a
\* broken image only if packet 0 has a 0 bit in its first word.
HeadSeen == HeadBits \cap FirstWord # {}

\* A packet whose check failed has been programmed over packet 0: the write
\* succeeds when the packet has the 0 bits of packet 0, and its verdict replaces
\* that of the check.
Overlaid == flash[0].what = "packet" /\ flash[0].packet.idx # 0

\* Safety: whatever packets come, and wherever power fails, the boot loader is
\* told to start an image only if it is whole, with the one exception of an image
\* whose packet 0 has been replaced by a packet that failed its check.  (Not that
\* the image fits in the area: its size is not compared with it.)
RunsWholeImage == flagged => Whole(flash) \/ Overlaid

\* Safety: an update always starts on an erased area, whenever packet 0 would be
\* accepted: what a broken update, a broken erase or an image for other nodes has
\* left is found and erased at boot, or refuses the packet.
StartsErased == pc = "poll" /\ finished = Continue /\ addr = 0 => AreaBlank

\* Action property: once an update has its verdict, nothing changes the verdict
\* or the image until the module erases it or reboots.
VerdictIsFinal ==
  [][/\ finished # Continue /\ finished' # finished => pc = "boot"
     /\ finished = Ok /\ flash' # flash => pc = "boot"]_vars

\* Liveness: after the verdict the module reboots, whether or not the phone
\* reads the result or the terminate packet can be sent.
FinishReboots == finished # Continue ~> pc = "boot"
=============================================================================
