----------------------------- MODULE MCFlashDrv -----------------------------
(* FlashDrv for TLC: two sectors of two pages of two bytes, one bit each.   *)
(* The main loop writes one to three bytes to the first sector, the         *)
(* interrupt one byte to the second.                                        *)
EXTENDS FlashDrv, TLC

CONSTANT bit
One == {bit}
MCBufs == "main" :> {<<{}>>, <<One, {}>>, <<{}, One, {}>>} @@ "isr" :> {<<{}>>}
MCOwns == "main" :> {0} @@ "isr" :> {1}
=============================================================================
