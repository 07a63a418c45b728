# AT Mesh: verification project

This directory holds TLA+ models of the AT Mesh firmware of this repository, the
TLC configurations that check them on small instances, and theorems about each of
the nine components, whose proofs TLAPS checks. Every definition is translated from the source;
`PROJECT.json` ("map") names the lines each one stands for.

Contents: [1 the system](#1-the-system) · [2 inventory](#2-inventory) ·
[3 modules and code](#3-modules-and-code) · [4 runs, bounds and fairness](#4-runs-bounds-and-fairness) ·
[5 proofs](#5-proofs) · [6 what the models assume](#6-what-the-models-assume) ·
[7 disagreements found](#7-disagreements-found) · [8 what is not modelled](#8-what-is-not-modelled) ·
[9 plan](#9-plan)

## 1 The system

A module is a Telink 8258 chip with a UART to a host. The host gives AT commands;
modules exchange data over a Bluetooth mesh, and a phone connects to any module
over GATT. The radio, the relaying and the connections are in a binary library
(`SDK1O/proj_lib/libble_app_*.a`); the source around it is C without an operating
system:

* the **main loop** (`main_light.c:1243-1345`) calls, in this order, the alarms,
  the scenes, `wait_ack_process`, `light_user_func` (with the factory reset
  counter), `rf_link_slave_proc` of the library, the LEDs and `at_uart_loop`;
* the **interrupt** (`irq_handler`, `main_light.c:242`) handles the radio, a
  timer and the UART. The library calls `rf_link_data_callback` and the friend
  node handlers in it. It runs between any two steps of the main loop except
  where a function has disabled interrupts; interrupts do not nest;
* **flash** survives a power loss, RAM does not. Programming only clears bits; a
  sector of 4096 bytes is erased as a whole. Power may fail between any two flash
  accesses, and the user switches the module off whenever he likes: the factory
  reset gesture depends on it. Most of the firmware is executed from the same
  flash chip, which cannot be read while it programs or erases.

```
 host --UART--> at_uart --> at_cmd --> at_cmdHandle --+--> tinyFlash   (settings)
                  ^                                   +--> factory_reset.c (pairing
                  | at_print (main loop AND interrupt)|        sector, AT+RESTORE)
                  +-------- rf_link_data_callback     +--> at_mesh_tx_cmd --> library
                                   ^                                             |
                                   +---------------- radio interrupt <-----------+
 phone --GATT--> library --> rf_link_slave_data_ota (common.c) --> OTA area of flash
 LPN  <--radio--> library <--> friendship_proc_*, fn_/lpn_rx_* (common.c)
 user --power switch--> factory_reset.c --> counter sector, configuration sectors
 tinyFlash, factory_reset.c, OTA --> flash.c --> flash chip (the firmware runs from it)
 PC: make/Telink_Tools.py --serial line--> boot loader --> the whole flash
```

## 2 Inventory

The components with state of their own, what is hard about them, and what makes
them correct. Properties in `code` are those a run checks.

| Component (source) | State | Operations | What is hard | Correct if |
|---|---|---|---|---|
| tinyFlash (`tinyFlash.c`) | two flash sectors of records, a mark in each; which one is used (RAM) | Init, Read (value, length, or delete), Write, Swap, Format | power loss anywhere, also between the two page writes of one record; Swap copies, marks, erases; Write retries after Swap; two different end-of-sector tests | a dictionary (`ImplementsKV`, `SurvivesPowerLoss`), the log stays readable (`LogReadable`), one record per key, every write returns |
| AT settings (`at_cmdHandle.c`, `set_mesh_*` of `factory_reset.c`, `user_init`) | values in tinyFlash, mesh name and password in the pairing sector, their RAM copies | AT+ADDR, AT+ADV, AT+TTL, AT+NAME, AT+MESHNAME, AT+MESHPWD, AT+RESTORE, kick-out, power-on | each change of a credential erases and rewrites the other; two commands share a key; a read copies the whole stored value, whatever room there is | what was set is what the next power-on restores (`SettingsKept`), the head of the sector vouches for it |
| AT+SEND (`atCmd_Send`, `at_mesh_tx_cmd`, `wait_ack_process`, `rf_link_data_callback`) | `fn_cmd_sno`, `last_sno`, `ack_timer` | send in chunks, receive and acknowledge, match ACK, time out | the interrupt answers with the function the main loop sends with, on the same three variables, of which it counts one with interrupts enabled; lost and reordered packets | an ACK prints OK only for delivered data, no ERROR that nobody asked for, every last chunk answered |
| Serial line (`at_uart.c`, `at_cmd.c`, `uart_8258.c`) | receive buffer and flag, `T_txdata_user`, DMA buffer | receive a line, copy, handle, print, transmit | the interrupt prints through the buffers the main loop is filling; what does not fit is dropped | lines handled once and in order, undisturbed answers whole, no index out of its buffer |
| GATT firmware update (`common.c:1980-2254`) | OTA area of flash, packet cache, counters, verdict, timers | receive, save, verdict, countdown, set flag, erase, check at boot | wrong, repeated, missing packets; a cache that nothing bounds; a verdict in the middle of it; power loss while erasing | only whole images are booted (with one exception), every update starts on erased flash, the verdict is final and leads to a reboot |
| Factory reset (`factory_reset.c`) | log of counter bytes in flash, index, place in the gesture, timers | scan, clean, count, second bit, use up, reset | six power cycles in a row; power loss at each flash access; wrap-around of the log | only the gesture resets, it does, and a reset is completed |
| Friendship (`common.c:3480-3910`) | FN: slots with one cached message each; LPN: state, sequence bit, counters | request, offer, poll, answer, cache, time out, clear | lost packets, overwritten messages, slots cleared during a relink, restarts | messages exactly once or replaced, the groups that fit into a POLL known, a friend is found again |
| Flash driver (`proj/drivers/flash.c`) | interrupt enable, the command open on the chip, the chip's busy state | write in pages, erase a sector, read; disable and restore interrupts | the interrupt's code is in the flash being programmed; calls of the interrupt between two pages; the chip wraps at page ends; power loss while it works | no fetch from a busy chip (`FetchSafe`), critical sections kept, a memory of bytes for its callers (`ImplementsNor`) |
| Download tool (`make/Telink_Tools.py`) | place in the image, tries left, baud rate | connect, change the baud rate, erase, write packets | lost and late answers that do not say what they answer; an image in two parts | success means burned, nothing overwritten, the boot loader stays, the tool ends |
| Delayed mesh commands (`common.c:3247`, `main_light.c:306`) | one command, its delay | store, run in the timer interrupt | two interrupts on one buffer | not modelled; `is_mesh_cmd_need_delay` has no caller |
| Scenes (`scene.c`), alarms and clock (`rtc.c`) | record logs in flash, tables in RAM | add, delete, retrieve, poll, run | cleaning the log under power loss, duplicates | not modelled; no caller changes them in this firmware |
| Light step (`common.c:99-268`) | `light_step` | start a fade, next step in the timer interrupt | the fade against a new command | not modelled; only the power-on starts a fade |
| Mesh pairing (`common.c:2569-2951`) | pairing state, old and new network | steps driven by a gateway | timeouts, half the mesh changed | not compiled (`MESH_PAIR_ENABLE 0`) |
| Brightness log, user data log (`main_light.c:795-874`, `common.c:373-433`) | record logs | store, wrap, retrieve | wrap under power loss | never written in this firmware |

The remaining parts (GATT tables, other drivers, USB, test firmware, the
library) keep no state that this list misses; `PROJECT.json` names each with the
reason. The hazards (what a test would hardly reach), with the line each bites
at and the properties that cover it, are listed there too.

## 3 Modules and code

| Module | Models | Used with |
|---|---|---|
| `KVStore` | what `tinyFlash/README.md` promises: a dictionary whose write first discards, then stores, in two steps at worst; `KVNext` has no power losses, `KVLossSpec` has | abstract; implemented by `TinyFlash`, instantiated by `Settings` |
| `TinyFlash`, `TinyFlashModes`, `MCTinyFlash` | `tinyFlash.c` | `TinyFlash_proofs` |
| `Settings` | the AT settings over `KVStore`, the pairing sector, power-on | itself; `Settings_proofs` |
| `AtSend`, `MCAtSend` | AT+SEND of several modules over a lossy mesh | `At_proofs` |
| `AtUart`, `MCAtUart` | host, DMA, main loop and radio interrupt on the serial line | `At_proofs` |
| `OtaGatt`, `MCOtaGatt` | the firmware update and the boot check | `OtaGatt_proofs` |
| `FactoryReset` | the counter, the gesture, the reset, AT+RESTORE | itself; `FactoryReset_proofs` |
| `Friendship`, `MCFriendship` | FNs and LPNs over a lossy radio | `Friendship_proofs` |
| `NorStore` | what the callers of the flash driver rely on: bytes whose bits a write clears, sectors that an erase sets | abstract; implemented by `FlashDrv` |
| `FlashDrv`, `MCFlashDrv` | the flash driver in two contexts, and the chip | `FlashDrv_proofs` |
| `Burn` | the download tool, the serial line and the boot loader | itself; `Burn_proofs` |

How state and actions correspond to the code:

* **TinyFlash.** `mark[s]` is byte 0 of sector s, `rec[s][a]` the record that
  starts at byte address a, `used` is `tinyFlash_Used_Addr`. `pc` is the loop
  that is running; the locals `_addr_start`, `_new_addr_start` and
  `dirty_data_len` are `addr`, `dst`, `dirty`. One action is one iteration of a
  loop, or one flash access, so that `PowerLoss` falls between any two.
  `flash_write` programs a record that goes on beyond a page end in two calls:
  `ScanAppendFirst` and `ScanAppendRest`, `SwapCopyFirst` and `SwapCopyRest`.
  `part` says how much of a record has been programmed. One without its length
  byte reads as one with `BlankLen` (255) bytes of data, so that the scan leaves
  the sector behind it or skips what was erased; one without all its data reads
  as `Damaged`.
  Addresses and loop bounds are the code's, in bytes. A record that Swap programs
  over other bytes, or beyond the end of the sector, gives something the model
  does not describe: `SwapClash` leads to "undefined", where every property ends.
  `tainted` records that some Swap has found its target not erased; only an
  interrupted Swap leaves that behind.
* **Settings.** tinyFlash is the abstract `KVStore` here (the steps of a write
  are `Discard`, `StorePart` and `Stored`), which is what `TinyFlash` implements
  as long as `tainted` is false. `tinyFlash_Read` ignores the size of its buffer:
  `Overrun` is the power-on at which a device name, or a damaged value, is copied
  over the one byte of `g_ttl` (or over `dev_name`) and what lies behind it
  matters; when nothing in use lies there, `UserInit` goes on. The pairing sector
  is a function from its four fields; `todo` is the rest of the sequence of
  `flash_write_page` calls of `set_mesh_name`, `set_mesh_pwd` or the library.
  Writing over something else gives Garbled, an interrupted write a part.
  `KickOut` is `kick_out`, which the library calls: a factory reset, then another
  mesh name.
* **AtSend.** `pc[n]` follows `atCmd_Send` and `at_mesh_tx_cmd`: `TxLoad`,
  `TxBase` and `TxStore` are the accesses of `fn_cmd_sno++` outside the disabled
  interrupts, with the register between them in `reg_sno`, so that an ACK sent in
  between gets the number of the data; `TxEmit` is the part inside, `TxArm` the
  start of `ack_timer` and, after the last chunk, the result: a command to
  everybody or to the phone returns OK, which `done` records and which promises
  nothing. A command of length 0 sends no chunk. `AckTimeout` and `AckError` are
  the test and the action of `wait_ack_process`, which the interrupt can separate.
  `Receive(n)` is one call of `rf_link_data_callback`.
* **AtUart.** `stage` follows `at_uart_loop`, `at_data_process`, `at_print` and
  `uart_Send`, one access to a shared variable per action. `RadioPrint` is a
  whole call of `at_print` or `at_send` in the interrupt: what it leaves in the
  buffers. `len` is not volatile, so where the main loop uses it the build may
  load it again or use the copy it has (`reg`): both are allowed.
* **OtaGatt.** The flash area is a function from cells of 16 bytes. One turn of
  the loop of `rf_link_slave_data_ota_save` is `SaveBad`, `SaveEnd`,
  `SaveEndMesh` (an image for other nodes), `SaveFirst`, `SaveNext` or
  `SaveOutOfOrder`, by its branches; `Finish` is the rest of
  `rf_link_slave_ota_finish_handle`. The code compares neither the packet numbers
  nor the size of the image with the area, nor the cache index with the cache:
  a packet has any 16-bit number and size, the write position may leave the area
  (`Behind` is the flash there, whose owners may change it at a reboot), and a
  full cache is overwritten until its 8-bit index wraps to 0. Behind the last
  filled slot the loop finds any packet. The bits of a packet that are 0 decide
  whether it can be programmed over another one.
* **FactoryReset.** A byte of the log is the number of its low bits that are 0:
  the code only ever clears the lowest 1 bit, or all. `Tick` takes the time to
  the next moment that matters (3 or 30 seconds).
* **Friendship.** `lpn[l]` is `fs_proc_lpn`, `slot[f][l]` is the entry of
  `fs_proc_fn` for l. The window in which an LPN listens is modelled by what dies
  with it: a timeout or a new POLL takes the packets for it off the air. A POLL
  has room for the first `ReportMax` (4) of up to 8 groups: `Reported`.
  `friendship_proc_fn` clears a silent slot in three steps, since interrupts are
  enabled: it has found it (`FnSilent`), its address is gone (`FnClear`), the rest
  is gone (`FnWiped`). An LPN whose REQUEST takes the slot between the last two
  loses its state: the slot then has an address and no state (`orphan`), is
  not free, answers no POLL and is not tested for silence until that LPN sends a
  REQUEST again.
* **FlashDrv.** `frame[c]` is where context c (main loop or interrupt) is in
  `flash.c`, with its locals `addr`, `len` and `buf` (what is left to write),
  `len_empty`, `i` and `r`; `call[c]` is the call as the caller made it. One
  action is one command or one byte on the bus. `chip` is what the chip knows of
  the open command; raising chip select executes it, and `flash_send_cmd` begins
  with that. The functions in RAM (`_attribute_ram_code_`) are the places
  "enable" to "poll"; `flash_write_page` itself is executed from flash.
  `masked` is the critical section of a caller.
* **Burn.** `pc` follows `main`, `change_baud`, `telink_flash_erase` and
  `telink_flash_write`; each wait for an answer ends with or without it
  (`Result`). `firmware` and `error_c` are `firmware_addr` (in packets of 256
  bytes) and `error_c`. Flash is a function from packets; what is programmed
  over something else is a Clash.
* **TinyFlashModes** adds `mode`: a behaviour has formats or power losses. It
  states the two refinements, each for the mode it is about; `MCTinyFlash` only
  gives the constants their values.

Abstracted everywhere: the bytes of values, texts and payloads, checksums other
than by their sum, time other than by the deadlines the code compares with.

## 4 Runs, bounds and fairness

| Run | Explores | Shows |
|---|---|---|
| `tinyflash_calls` | all calls, with formats or with power losses between any two steps | in the session the log implements `KVStore` through swaps and formats, and no Swap finds its target unerased; with power losses too, also between the two calls that program one record, the log is readable, there is one valid record per key, every write returns, and a power loss costs at most the key being written, which may keep a damaged value, until a Swap copies into the remains of an interrupted one |
| `tinyflash_full` | a sector full of valid records | *violated:* `tinyFlash_Write` swaps for ever |
| `settings_reboot` | every command, power loss at each flash access | address, flag, credentials and the later one of TTL and device name survive the others and the reboot; memory is overwritten at power-on only by a device name or a write cut short |
| `settings_advname` | the same | *violated:* the TTL is advertised as the name |
| `atsend_sequence` | two modules sending to each other | an OK by ACK means delivered; no ERROR(3) nobody asked for; every last unicast chunk answered |
| `atsend_error` | the same, smaller | *violated:* ERROR(3) although the ACK has come |
| `atuart_host` | three lines, two prints of the radio at any moment | lines in order and once; undisturbed answers whole; nothing old or twice in a disturbed one |
| `otagatt_update` | all sequences of packets of any number and size, a cache that overflows, images for other nodes, power losses | only whole images boot, but for one whose first packet was replaced by one that failed its check; updates start on erased flash; verdict final; reboot follows |
| `factoryreset_gesture` | power cycles, losses, wrap-around, AT+RESTORE | only the gesture resets, it does, and the reset is completed |
| `friendship_link` | one LPN, two FNs, losses and a restart | exactly once or replaced; the reported groups known; a friend is found again |
| `flashdrv_calls` | the driver called by the main loop and by the interrupt, with power losses | no fetch from a busy chip; critical sections kept; a memory of bytes |
| `burn_line` | images of every size and the triad, over a line that is lossy, slow or both | success means burned; nothing overwritten; the tool ends |

**Bounds, and why they are enough.**

* TinyFlash: two keys (the key being written and another), values of 1 and 3
  bytes, sectors of 12 bytes (11 in the run of the full store) after the header
  instead of 4064. A record has a header of 3 bytes, so a sector holds up to
  three records and two always leave a rest; both end-of-sector tests, a record that just fits,
  swaps with zero to three live records and repeated swaps all occur. With 12
  bytes the long values of both keys just fill a sector; with 11 the second does
  not fit beside the first. A page begins at address 8 (224, 480, ... in
  the code): a record at 6 is cut before its length, one at 4 in its data, whether
  it is written or copied. With `BlankLen` 3 a record without its length ends where
  the sector does; records cut elsewhere, or ending beyond the sector, are left to
  the theorems. (TLC has also passed pages at 1, 5, 9 and 10 with larger runs.)
* Settings: one device name, one value besides the default of each setting, TTLs 2 and 9 (accepted and refused).
* AtSend: two modules, one gives two commands of at most one chunk, the other one
  of at most two; the numbers start at 1 and stay below `SnoMod`. Two are enough for the overwriting of `last_sno`,
  which needs one incoming packet; a second command is needed for a stale ACK.
* AtUart: a buffer of 2 characters instead of 44, so that answers of 1 to 4
  characters fill it exactly, leave a rest, and take several pieces; three lines
  so that a stale buffer or a lost flag of the first shows in the third; two radio
  prints, so that one can undo what the other has done.
* OtaGatt: three sectors of one cell, packet numbers up to 4 (65535), images of
  any size the number can express (3 fits, 4 is longer than the area), a cache of
  one packet whose index wraps at 3 (16 and 256), `TermPolls` 2 (6), one CRC and
  one sum besides 0. Packets may have the one 0 bit of packet 0 or not. A sector
  that is erased while another is not, a verdict with more in the cache, a
  write behind the area and a wrapped cache all occur.
* FactoryReset: a log of 4 bytes cleaned from the third on (4096 and 3840), two
  configuration sectors. The log wraps around several times in a gesture.
* Friendship: one LPN in two groups of which a POLL carries one, two FNs with one
  slot each, one message for the LPN and one for its first group, `RetryMax` 2,
  one restart. With one LPN no two nodes compete for a slot; the one that takes
  the half-cleared slot is the one it belonged to.
* FlashDrv: pages of two bytes, two sectors of two pages, bytes of one bit. The
  main loop writes one to three bytes at every address of its sector, so that a
  write fills a page exactly, stays within one, crosses one boundary or two, or
  leaves a rest; the interrupt writes one byte, erases and reads in its own
  sector.
* Burn: 2 packets of boot loader and 3 of the rest of the image (64 and 640 in
  the code), images of 1 to 6 packets (the last does not fit), three tries.

**Fairness.** Safety is checked without it. Where a run checks liveness:
weak fairness of the main loop's actions (the processor executes instructions; a
loop without a wait does not stop), of interrupts that are pending, of the
passing of time, of the end of a DMA transmission and of the library's poll
once per connection event. In Friendship, strong fairness of each reception:
the radio loses any number of packets but not all of one kind for ever, which
is what the retries of the code rely on; nothing is assumed of it in AtSend,
where the timeout answers. In Burn, weak fairness of the tool, of the boot loader
and of the arrival of what is not lost: the tool's waits are all bounded.
`FindsFriend` excepts only the case that
`friendship_proc_fn` again and again clears a slot of the LPN whose OFFER is on its
way or which it has accepted (`ClearedTooLate`); an FN that sends no OFFER, or
searches that end for any other reason, violate it.

Deadlock is checked in every run except those of AtSend, AtUart and OtaGatt:
there the bounds end the behaviour (no more commands, lines or seconds).

## 5 Proofs

TLAPS proves the theorems below for all values of the constants that satisfy the
named assumptions of the modules (`TinyAssumption`, `SettingsAssumption`,
`AtSendAssumption`, `OtaAssumption`, `ResetAssumption`, `FriendshipAssumption`,
`FlashAssumption`, `BurnAssumption`, `AtUartAssumption`; TLC evaluates them in the
runs). Every safety invariant, action property and refinement of a passing run is
a theorem. Each inductive invariant has been checked with TLC
as an invariant of its run's instance before it was proved.

**TinyFlash** (`TinyFlash_proofs`). The invariant is built in layers.

* `TypeCorrect`: `Spec => []TypeOK`, with any number of power losses and formats.
  The next address of a scan is the present one plus the size of the record read
  there, so `InBounds` is needed: no record reaches beyond the end of its sector.
  The two end-of-sector tests meet here: Write leaves room for header and data
  (`NoRoom`), and a record without its length byte ends at most `BlankLen` behind
  the sector (`Extent` is what has been programmed of it).
* `LogAlwaysReadable`: `[]LogReadable`. Strengthened (`CInv`) by where the scan
  addresses are: on the chain of records while a loop is running, and `dst` on
  that of the target during Swap; between the two calls of `flash_write` the
  beginning of the record is the last of its chain (`Last`), so that the second
  call completes it and a power loss leaves a chain too. That needs the rule of
  NOR flash for writing a record over its own beginning (`Begins`).
* `NoDuplicates`: `[]OneRecordPerKey`. `UInv` says it of both sectors, and by
  phase: a search has passed no valid record of its key, the target of a Swap
  holds nothing but copies of what the scan has passed and the record being
  copied (`CopyOnly`), and after the discard no valid record of the key is left
  but the one being appended.
* `RefinesKV` and `RebootRefinesKV` (of `TinyFlashModes`): tinyFlash implements
  `KVStore`, in the session without power losses, where a read or a delete that
  returns -1 for a key with a value would be no step of it; and, with power
  losses, for a reboot at any moment. `WInv` adds the other half of Swap: all that
  the scan has passed is in the target (`AllCopied`), so that the dictionary read
  from the target is the one read from the source when the mark moves. `Clean`
  says that without power losses the spare sector is erased between swaps and no
  record is left unfinished, so that no read returns a damaged value and no Swap
  copies over anything (`~tainted`, proved, not assumed); `Boots` that without
  formats a reboot chooses the sector in use. What is proved of the remains of an
  interrupted Swap is only what precedes the next Swap.

**FactoryReset** (`FactoryReset_proofs`).

* `ResetCompletes` (`[]ResetIsComplete`) and `OneCountAtATime` (`[]OneCount`):
  `IInv` adds that the scan has passed only bytes that are used up and has stopped
  below `CleanAt`, and that while a reset is incomplete the byte with the order
  is still in the part of the sector that `Clean` leaves alone, not passed by the
  scan (`Ordered`): the argument behind erasing the counter last.
* `ResetOnlyByGesture` (`OnlyByGesture`): `GInv` says which of the last sessions
  a byte with n bits clear vouches for, between sessions (`Before`) and in one
  (`During`, with the place and the timer that go with it).
* `GestureAlwaysResets` (`GestureResets`) is the converse, `PInv`: the sessions
  since the last long one determine the byte.
* `TypeCorrect`: `[]TypeOK`.

**FlashDrv** (`FlashDrv_proofs`).

* `TypeCorrect`, `FlashFetchSafe` (`[]FetchSafe`) and `SectionsKept`
  (`[]CriticalSectionKept`) follow from three facts that are inductive together
  with the types: while the interrupt runs, the main loop is at a place in flash;
  in RAM interrupts are off, and `r` is what the caller had; and outside RAM the
  chip is idle with nothing selected, which `flash_wait_done` is for.
* `RefinesNor` (`ImplementsNor`): the driver, its RAM code, the chip and the
  interrupt implement `NorStore`. `RInv` adds for each context that what is left
  in its frame is the rest of the call's buffer at the right address, that the
  part before it is in the memory (`WriteAt`), and that `len_empty` reaches to the
  end of the page as long as something is left; and for the running one what the
  chip's latch holds of its chunk (`Latched`, `Told`). A step of one context
  leaves the bytes of the other alone (`OtherKept`), since they own different
  sectors.

**AtSend** (`At_proofs`). `TypeCorrect`, and `OkOnlyIfDelivered`:
`Spec /\ []NoWrap => []OkMeansDelivered`. `Awaited` is the core: an ACK with the
number that is waited for answers the chunk sent last, although the interrupt may
change `last_sno` in between. The interrupt counts `fn_cmd_sno` too, while the main
loop has it in a register, so a number may be used twice: for data, and for an ACK
that is sent for somebody else's data. `Numbered`
therefore says of the data of a module that are on their way, and of the ACKs that
echo them, that their numbers are not above the latest one of the module and below
the one it is about to store.
`NoWrap` says that no module reaches number 2^24 (`SnoMod`): there the low 24 bits
are 0, which also stands for "nothing is waited for".

**AtUart** (`At_proofs`; the names of AtUart that both modules would have begin
with Uart).

* `UartTypeCorrect` (`[]UartTypeOK`) and `LinesHandledInOrder` (`LinesInOrder`).
  `Control` says that `len` is what the main loop has last seen of it, or 0, which
  is what keeps every index inside `T_txdata_user`; `OnItsWay` that at most one
  line is between the host and `at_data_process`, the latest.
* `HostHearsAnswer` (`[]HeardIsAnswer`). `Buffered` says that at every place of
  `at_print` and `uart_Send` the characters that may still be sent are in their
  order, belong to this answer or to the radio, and follow what has been heard
  (`Fits`); parts of what fits fit (`FitsLess`), also after the interrupt has
  overwritten the first places (`FitsFill`). `Undisturbed` counts: as long as the
  radio is quiet, what has been heard and what is in the buffer is what has been
  printed; it needs that no transmission is under way when `uart_Send` begins.

**OtaGatt** (`OtaGatt_proofs`). `TypeCorrect`; `VerdictFinal` (`VerdictIsFinal`);
`UpdateStartsErased` (`HeadSeen => (Spec => []StartsErased)`), whose invariant
`Marked` says that whatever an update or an erase leaves behind can be seen in
cell 0; and `OnlyWholeImages` (`HeadSeen => (Spec => []RunsWholeImage)`), whose
invariant `Image` says that, unless a packet that failed its check lies over
packet 0 (`Overlaid`), the packets so far are in their cells and `sum` is their
checksum. Packet numbers and sizes are any 16-bit numbers; `TypeCorrect` bounds the
write position by the last packet number, not by the area.
`Checksum` is a recursive function; its facts are proved by induction from the
well-foundedness of < on Nat (`SetInduction`). The hypothesis is about the image,
not about the steps of the code: packet 0 has a 0 bit in its first word
(`HeadSeen`); `MCOtaGatt` satisfies it. The invariant has shown an error in an
earlier form of this module, which erased the area only once per power-on.

**Friendship** (`Friendship_proofs`). `TypeCorrect`, `NothingSentTwice`
(`[]NothingTwice`), `GroupsAlwaysKnown` (`[]GroupsKnown`) and
`ForgetsOnlyReceived` (`ForgottenIsReceived`), for any number of FNs, LPNs,
messages and restarts. `LInv` relates for each LPN what it waits for, the packets
of it in the air and the slots the FNs have for it: at most one packet of its
latest poll is under way, and a cached message and the sequence bits of both
sides tell whether the LPN has it. `Clearing` says who may lose the slot that is
half cleared, without which a friend node could count more addresses than slots.
`GroupsAlwaysKnown` is about lists of any length: the FN has exactly the groups
that fit into a POLL, which is not all of them when there are more.

**Settings** (`Settings_proofs`). `TypeCorrect`, `HeadAlwaysVouches`
(`[]HeadVouches`) and `PowerOnRestores` (`SettingsKept`). `Inv` says what the next
power-on would make of each stored value, of the shared one as TTL and as name, and
of what the write under way may leave (`StoreKept`, `Writing`), and of the pairing sector: valid and as set, or without a valid
head and with fields onto which the defaults can be programmed unless a power
loss has been accounted for (`Recoverable`).

**Burn** (`Burn_proofs`). `TypeCorrect`, `NeverOverwrites`
(`[]NothingOverwritten`) and `SuccessMeansBurned` (`[]DoneMeansBurned`). `Rates`
keeps both ends at one rate, `Order` and `Untouched` say that no packet is
programmed before the one erase, `Lossy` and `Slowly` why an answer means
what the tool takes it for: on a line that only loses, at most one command or
answer is under way; on one that is only slow, whatever was sent will be executed.

Only model-checked are the liveness properties `WriteReturns`, `SendAnswered`,
`FinishReboots`, `LineHandled`, `FindsFriend`, `NothingKept` and `Ends`: liveness
under fairness and ENABLED are out of the prover's reach.

## 6 What the models assume

* **Flash.** An erase is one step. The programming of one page is one step in
  TinyFlash and OtaGatt, and can be torn in Settings.
* **The library** (external): filters repeated packets and hands a node the
  packets for it; `rf_ota_save_data` programs and reads back; it gives up an
  update only before the verdict; `rf_link_slave_init` stores the default
  credentials, without erasing, when the head of the pairing sector is not valid.
* **TinyFlash.** After a Swap into an unerased sector nothing is claimed but
  `LogReadable`, and nothing at all once a record has been programmed over
  another one or beyond the end of the sector: what the mixture reads as is not
  modelled (`tinyFlash/README.md` lists protection against power loss as still to
  be done). Format leaves the RAM addresses alone:
  after a Format in one sector a reboot would choose the other, so
  `SurvivesPowerLoss` is stated for behaviours without it. No code of the
  firmware calls Format. A record whose length byte is missing is copied by Swap
  with the 255 bytes behind it, through a buffer of 256 bytes that 258 do not fit
  (`tinyFlash.c:11`, 213); the model copies what was programmed of it.
* **Settings.** The store has room. A device name, and a damaged value, starts with
  a character above 8. Since AT+NAME and AT+TTL share key 3, only the later one is
  restored: after AT+NAME the TTL is 3 again, after AT+TTL there is no name, and
  that is what `SettingsKept` states; the disagreement with the name is the run
  `settings_advname`. What lies behind `g_ttl` and `dev_name` in RAM is up to the
  linker: both outcomes are modelled, and nothing is claimed after memory in use
  was overwritten. After a power loss during a change
  of a credential both may be the old, the new, the default or a mixture. An
  AT+RESTORE or kick-out interrupted while it erases is not modelled here: no byte
  orders it to be continued (see FactoryReset). The library calls `kick_out` in the
  main loop and reboots after it.
* **AtSend.** `fn_cmd_sno` is loaded and stored once each by `++`. Sequence numbers
  do not wrap in the run; with `SnoMod = 4` TLC
  shows that a chunk whose low 24 bits are 0 is never answered. An ACK between
  test and action of `wait_ack_process` gives both OK and ERROR(3). A command of
  length 0 to a module prints nothing at all (`at_cmdHandle.c:331`), and a
  broadcast or a packet for the phone prints OK at once (line 356, `at_cmd.c:131`),
  whoever receives it. `send_data_to_app` is taken to succeed.
* **AtUart.** The host waits for an answer before the next line, or until the
  main loop is idle; a line comes in one burst of at most 44 bytes; the 20 ms
  wait outlasts a transmission. An answer that the radio disturbs may be lost
  altogether.
* **OtaGatt.** The firmware counts on one thing of the contents of an image,
  stated as `HeadSeen`: `is_ota_area_valid` looks at the first word of each sector,
  and what is left of an update is found because packet 0 has a 0 bit there. A
  failed size, light-mode or checksum check sends the write back to packet 0, and
  its verdict ("invalid fw", `common.c:2093`) is overwritten by that of the write
  (`common.c:2109`). The write fails when packet 0 has a 0 bit where the other
  packet has none, as code nearly always has; when the packet's 0 bits include
  those of packet 0 it succeeds, the update goes on, and an image with a wrong size
  or checksum is accepted and booted. TLC shows it; `RunsWholeImage` names this
  one exception (`Overlaid`) and claims that there is no other. An image longer
  than the area is programmed over what lies behind: the code does not compare
  the two (`is_valid_fw_len`, line 1885, is used for the mesh update only). The
  model lets it happen and claims nothing of what lay there.
* **FactoryReset.** A software reboot counts as switching off. The main loop runs
  many times in three seconds. AT+RESTORE ends the session.
* **FlashDrv.** The two contexts write to different sectors, as the callers in
  the source do. A read returns what the memory holds; its bytes are not
  represented. The chip gets ready before `flash_wait_done` gives up after
  10,000,000 polls. What is written is in RAM (comment at `flash.c:95`).
* **Burn.** On a line that both loses and delays, TLC finds that
  the late answer to an earlier try (answers do not say which packet they are
  for, and `flushInput` only drops what has arrived) is taken for that of a later
  packet which was lost; `DoneMeansBurned` excepts such a line, the other
  properties do not. The triad is one packet.
  `DoneMeansBurned` admits that the last repetition of a packet is still on its way.
* **Friendship.** The firmware is built with `FEATURE_FRIEND_EN 0`; the source is
  modelled as it would run with 1. The timeouts of an FN are longer than the
  silence of an LPN with a link (static assertion, `common.c:3643`). The memset of a
  slot clears its address and its state in two steps; single bytes of it are not
  told apart.
  The slot that an LPN has lost while it was half cleared keeps its address for
  ever if that LPN does not come back: no property says that slots are not lost.
  The groups of an LPN do not change while it runs; if they did, the code would
  not report them again.

## 7 Disagreements found

Three runs are expected to be violated. Each shows that the code does something
else than a comment beside it says:

1. `tinyflash_full`: in a sector full of valid records of other keys,
   `tinyFlash_Write` counts them as dirty (`tinyFlash.c:179` compares ~Key with
   the key being written) and swaps for ever; the branch "no room available"
   (line 151) is only reached when the sector holds nothing but the key itself.
2. `atsend_error`: the ACK that a module sends for incoming data overwrites
   `last_sno`; the ACK for its own data is then ignored and ERROR(3), "waiting for
   the ACK timed out", is printed.
3. `settings_advname`: the TTL is stored at the key of the device name and
   advertised as the name after a reboot.

## 8 What is not modelled

Listed with reasons under "components" in `PROJECT.json`. In short: the binary
library; parts that are not compiled (pairing, gateway, dual mode, duty cycle,
time synchronisation, sensors); parts whose state no code of this firmware
changes (scenes, alarms, brightness and user data logs, delayed mesh commands);
the light fade, which nothing but the power-on starts; the other vendor drivers,
register headers, USB and test applications; constant tables; the monitor script.

## 9 Plan

Done: 1 `KVStore`, `TinyFlash`; 2 `AtSend`; 3 `OtaGatt`; 4 `FactoryReset`; 5
`Settings` over `KVStore`; 6 `Friendship`; 7 `AtUart`; 8 `NorStore`, `FlashDrv`; 9
`Burn`; 10 the proofs of all of these, the refinements of `KVStore` and `NorStore`
among them.

Next:

| Step | Theorem or module | Argument or bounds |
|---|---|---|
| 11 | composition of `AtUart` and `AtSend`: answers of AT+SEND against +DATA on one line | two modules, one line each |

All modules are written for that: constants with named assumptions, one action
per operation, invariants as named conjuncts, and no RECURSIVE operator.
