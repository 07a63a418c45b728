------------------------------ MODULE MCAtUart ------------------------------
(* AtUart for TLC: an answer in one text, one in two, none, and a reboot. *)
EXTENDS AtUart, TLC

MCAnswers ==
  "result" :> <<2>> @@ "info" :> <<3, 4>> @@ "silent" :> <<>> @@ "reset" :> <<1>>
=============================================================================
