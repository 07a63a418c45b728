------------------------------ MODULE KVStore ------------------------------
(***************************************************************************)
(* What tinyFlash promises its callers (src/SDK1O/tinyFlash/README.md, API *)
(* section): a dictionary from keys to values.  A call is made, takes      *)
(* effect, and returns.  tinyFlash_Write discards the previous value of    *)
(* the key before it stores the new one, and may store it in two steps, so *)
(* a power loss in the middle of a write may leave that key, and no other  *)
(* key, without a value or with one that is damaged.  Power losses are no  *)
(* part of KVNext: without them a call never returns but with its result.  *)
(***************************************************************************)
CONSTANTS Keys,    \* the keys, 0x01 - 0xFE in the code
          Vals,    \* the values
          NoVal,   \* "this key has no value"
          Damaged  \* a value that was not written to its end

VARIABLES dict,    \* the value of every key, NoVal or Damaged
          call,    \* the call being executed: "none", "read", "delete", "write"
          key,     \* its key
          val,     \* the value it writes
          result   \* what the last call returned: a value, NoVal (-1) or "ok";
                   \* "none" while one is executed, and after power-on

kvVars == <<dict, call, key, val, result>>

KVInit ==
  /\ dict = [k \in Keys |-> NoVal]
  /\ call = "none"
  /\ key \in Keys
  /\ val \in Vals
  /\ result = "none"

\* The caller calls one of the three operations.
Invoke ==
  /\ call = "none"
  /\ call' \in {"read", "delete", "write"}
  /\ key' \in Keys
  /\ val' \in Vals
  /\ result' = "none"
  /\ UNCHANGED dict

\* A read returns the value its key has at that moment.
ReturnRead ==
  /\ call = "read"
  /\ call' = "none"
  /\ result' = dict[key]
  /\ UNCHANGED <<dict, key, val>>

\* A delete removes the value and says whether there was one.
ReturnDelete ==
  /\ call = "delete"
  /\ call' = "none"
  /\ dict' = [dict EXCEPT ![key] = NoVal]
  /\ result' = IF dict[key] = NoVal THEN NoVal ELSE "ok"
  /\ UNCHANGED <<key, val>>

\* A write first discards the old value ...
Discard ==
  /\ call = "write"
  /\ dict' = [dict EXCEPT ![key] = NoVal]
  /\ UNCHANGED <<call, key, val, result>>

\* ... then it may have stored a part of the new one ...
StorePart ==
  /\ call = "write"
  /\ dict[key] = NoVal
  /\ dict' = [dict EXCEPT ![key] = Damaged]
  /\ UNCHANGED <<call, key, val, result>>

\* ... and in the end it has stored the new one and reports success.
ReturnWrite ==
  /\ call = "write"
  /\ call' = "none"
  /\ dict' = [dict EXCEPT ![key] = val]
  /\ result' = "ok"
  /\ UNCHANGED <<key, val>>

\* Formatting empties the store.
Clear ==
  /\ call = "none"
  /\ dict' = [k \in Keys |-> NoVal]
  /\ UNCHANGED <<call, key, val, result>>

\* Power loss and reboot: the call is gone, the dictionary stays as it is.
PowerLoss ==
  /\ call' = "none"
  /\ result' = "none"
  /\ UNCHANGED <<dict, key, val>>

KVNext ==
  \/ Invoke
  \/ ReturnRead
  \/ ReturnDelete
  \/ Discard
  \/ StorePart
  \/ ReturnWrite
  \/ Clear

\* Without power losses, and with them.
KVSpec == KVInit /\ [][KVNext]_kvVars
KVLossSpec == KVInit /\ [][KVNext \/ PowerLoss]_kvVars
=============================================================================
