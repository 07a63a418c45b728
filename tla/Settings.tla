------------------------------ MODULE Settings ------------------------------
(***************************************************************************)
(* The settings a user gives a module with AT commands, where they are     *)
(* stored and what the next power-on makes of them (at_cmdHandle.c,        *)
(* set_mesh_name, set_mesh_pwd and kick_out of factory_reset.c, and        *)
(* user_init and light_init_default of main_light.c).                      *)
(*                                                                         *)
(* The advertising flag, the address, the device name and the TTL are in   *)
(* the key-value store, here the abstract one that tinyFlash implements;   *)
(* the name and the TTL share a key, so the one that is stored last takes  *)
(* the place of the other.  tinyFlash_Read copies all of a stored value,   *)
(* whatever room there is for it (tinyFlash.c:100): at power-on a device   *)
(* name goes over the one byte of g_ttl and what lies behind it.           *)
(* The mesh name and password are in a sector of their own, which a change *)
(* of either erases and writes again, its head last.  Flash programming    *)
(* only clears bits: what is written over something else is Garbled.       *)
(***************************************************************************)
EXTENDS Naturals, Sequences

CONSTANTS DevNames,     \* device names (AT+NAME)
          MeshNames,    \* mesh names (AT+MESHNAME)
          MeshPwds,     \* mesh passwords (AT+MESHPWD)
          Addrs,        \* addresses (AT+ADDR)
          Ttls,         \* the digits a user may give AT+TTL
          DefaultName, DefaultPwd,  \* MESH_NAME and MESH_PWD
          OutOfMesh,    \* OUT_OF_MESH, the name of a module that was kicked out
          MacAddr,      \* the address the library derives from the MAC
          None,         \* no value
          Damaged,      \* a stored value that was not written to its end
          Erased, Garbled, Valid    \* contents of a field of the sector

VARIABLES
  dict, call, key, val, result,  \* the key-value store
  pair,      \* flash: the fields of the pairing sector
  todo,      \* the fields of it that are still to be programmed
  buf,       \* what to program them with
  pc,        \* "boot", "ready", "store" (key-value store), "pair" or
             \* "kick" (pairing sector), "undefined" (memory was overwritten)
  device_address, g_ttl, send_adv_flag,
  adv_name,  \* the name advertised
  net,       \* the mesh name and password in force, loaded at power-on
  goal,      \* history: the mesh name and password that were last set
  want       \* history: the values each setting may have at the next power-on

kv == <<dict, call, key, val, result>>
ram == <<device_address, g_ttl, send_adv_flag, adv_name, net>>
history == <<goal, want>>
vars == <<kv, pair, todo, buf, pc, ram, history>>

KeyAdv == 1
KeyAddr == 2
\* Seeded fault: the TTL shares the key of the address.
KeyTtlOfAddr == 2
\* The device name and the TTL share a key.
KeyName == 3
KeyTtl == 3

Flags == {0, 1}
KVals == Flags \cup Addrs \cup DevNames \cup 0 .. 8
Store == INSTANCE KVStore
           WITH Keys <- {KeyAdv, KeyAddr, KeyName}, Vals <- KVals, NoVal <- None

Fields == {"name", "pwd", "ltk", "flag"}
Encode(p) == <<"encoded", p>>
Decode(e) == IF e \in {Encode(p) : p \in MeshPwds \cup {DefaultPwd}} THEN e[2] ELSE e
\* A field holds a whole value, a part of one, nothing, or what it should not.
Part(v) == IF v = Garbled THEN Garbled ELSE <<"part", v>>
Names == MeshNames \cup {DefaultName, OutOfMesh}
Codes == {Encode(p) : p \in MeshPwds \cup {DefaultPwd}}
Parts == {Part(v) : v \in {Valid} \cup Names \cup Codes}
Contents(vals) == {Erased, Garbled} \cup vals \cup {Part(v) : v \in vals}

\* A stored value is told from none and a device name from a TTL (its first
\* character is above 8); a whole value from what is not.
ASSUME SettingsAssumption ==
  /\ Ttls \subseteq Nat
  /\ None \notin KVals /\ Damaged \notin KVals \cup {None}
  /\ DevNames \cap 0 .. 8 = {}
  /\ Erased # Garbled
  /\ ({Erased, Garbled} \cup Parts) \cap ({Valid} \cup Names \cup Codes) = {}
  /\ {Erased, Garbled} \cap Parts = {}

NoBuf == [f \in Fields |-> Valid]
Blank == [f \in Fields |-> Erased]
Factory == [NoBuf EXCEPT !["name"] = DefaultName, !["pwd"] = Encode(DefaultPwd)]
FactoryNet == [name |-> DefaultName, pwd |-> DefaultPwd]

\* What a value at the key of the TTL and the name makes of both.  A name, or a
\* damaged value, starts with a byte above 8, and the TTL is then the default.
TtlOf(v) == IF v \in 0 .. 8 THEN v ELSE 3
Both(v) == <<TtlOf(v), v>>
Kinds == {"adv", "addr", "ttl and name", "name", "pwd"}
FactoryWant ==
  [s \in Kinds |->
     CASE s = "adv" -> {1} [] s = "addr" -> {MacAddr} [] s = "ttl and name" -> {Both(None)}
       [] s = "name" -> {DefaultName} [] s = "pwd" -> {DefaultPwd}]

Init ==
  /\ Store!KVInit
  /\ pair = Blank /\ todo = <<>> /\ buf = NoBuf /\ pc = "boot"
  /\ device_address = MacAddr /\ g_ttl = 3 /\ send_adv_flag = 1
  /\ adv_name = None /\ net = [name |-> None, pwd |-> None]
  /\ goal = FactoryNet /\ want = FactoryWant

-----------------------------------------------------------------------------
\* Power-on.  rf_link_slave_init loads the credentials; when there are none it
\* stores the default ones that light_init_default has given it.
LoadDefaults ==
  /\ pc = "boot" /\ todo = <<>> /\ pair["flag"] # Valid
  /\ todo' = <<"name", "pwd", "ltk", "flag">> /\ buf' = Factory
  /\ UNCHANGED <<kv, pair, pc, ram, history>>

\* A value may be longer than what it is read into: a device name than g_ttl or
\* than the 32 bytes of dev_name, and a damaged value of any key, whose length
\* may be missing, than all of these.  Whether something in use lies behind, and
\* what the program does then, is up to the build.
TooLongToRead(k) == dict[k] = Damaged \/ (k = KeyName /\ dict[k] \in DevNames)
Overrun ==
  /\ pc = "boot" /\ todo = <<>>
  /\ \E k \in {KeyAdv, KeyAddr, KeyName} : TooLongToRead(k)
  /\ pc' = "undefined"
  /\ UNCHANGED <<kv, pair, todo, buf, ram, history>>

\* What follows is not modelled.
Undefined == pc = "undefined" /\ UNCHANGED vars

\* light_init_default reads the TTL; user_init the rest, when nothing in use was
\* overwritten: device_address and adv_name keep their default without a value.
UserInit ==
  /\ pc = "boot" /\ pair["flag"] = Valid /\ todo = <<>>
  /\ g_ttl' = TtlOf(dict[KeyTtl])
  /\ net' = [name |-> pair["name"], pwd |-> Decode(pair["pwd"])]
  /\ send_adv_flag' = IF dict[KeyAdv] = 0 THEN 0 ELSE 1
  /\ device_address' = IF dict[KeyAddr] = None THEN MacAddr ELSE dict[KeyAddr]
  /\ adv_name' = dict[KeyName]
  /\ pc' = "ready"
  /\ goal' = net'
  /\ want' = [want EXCEPT !["adv"] = {send_adv_flag'} \cup ({dict[KeyAdv]} \cap {Damaged}),
                          !["addr"] = {device_address'},
                          !["ttl and name"] = {<<g_ttl', adv_name'>>},
                          !["pwd"] = {net'.pwd}, !["name"] = {net'.name}]
  /\ UNCHANGED <<kv, pair, todo, buf>>

-----------------------------------------------------------------------------
\* AT commands.  tinyFlash_Write has a value to store.
StoreValue(k, v) ==
  /\ pc = "ready" /\ pc' = "store"
  /\ call' = "write" /\ key' = k /\ val' = v
  /\ Store!Invoke
  /\ UNCHANGED <<pair, todo, buf, goal>>

\* While a value is stored, a power loss may leave the old or the new one, none,
\* or a damaged one.
Storing(s, new, default, damaged) == [want EXCEPT ![s] = @ \cup {new, default, damaged}]
StoringBoth(v) == Storing("ttl and name", Both(v), Both(None), Both(Damaged))

AtAddr(a) ==
  /\ device_address' = a
  /\ want' = Storing("addr", a, MacAddr, Damaged)
  /\ StoreValue(KeyAddr, a)
  /\ UNCHANGED <<g_ttl, send_adv_flag, adv_name, net>>

AtAdv(f) ==
  /\ send_adv_flag' = f
  /\ want' = Storing("adv", f, 1, Damaged)
  /\ StoreValue(KeyAdv, f)
  /\ UNCHANGED <<device_address, g_ttl, adv_name, net>>

TooLong(t) == t > 8
AtTtl(t) ==
  /\ ~TooLong(t)
  /\ g_ttl' = t
  /\ want' = StoringBoth(t)
  /\ StoreValue(KeyTtl, t)
  /\ UNCHANGED <<device_address, send_adv_flag, adv_name, net>>

\* A device name takes the place of the TTL; what is advertised stays.
AtName(n) ==
  /\ want' = StoringBoth(n)
  /\ StoreValue(KeyName, n)
  /\ UNCHANGED ram

\* The steps of tinyFlash_Write.
Discard ==
  /\ pc = "store" /\ Store!Discard
  /\ UNCHANGED <<pair, todo, buf, pc, ram, history>>
StorePart ==
  /\ pc = "store" /\ Store!StorePart
  /\ UNCHANGED <<pair, todo, buf, pc, ram, history>>

Acked(k) ==
  CASE k = KeyAdv -> [want EXCEPT !["adv"] = {val}]
    [] k = KeyAddr -> [want EXCEPT !["addr"] = {val}]
    [] OTHER -> [want EXCEPT !["ttl and name"] = {Both(val)}]
Stored ==
  /\ pc = "store" /\ Store!ReturnWrite
  /\ pc' = "ready" /\ want' = Acked(key)
  /\ UNCHANGED <<pair, todo, buf, ram, goal>>

\* While one of the credentials is changed, a power loss may leave its old or
\* its new value, and for both the default one or a mixture.
Changing(s, new, default, other, otherdefault) ==
  [want EXCEPT ![s] = @ \cup {new, default, Garbled}, ![other] = @ \cup {otherdefault, Garbled}]

\* Seeded fault: set_mesh_name encodes the password it writes back.
WrittenBackEncoded(e) == Encode(e)
\* set_mesh_name writes back the password as it has read it.
WrittenBack(e) == e
\* set_mesh_name: read the password, erase, write it back, the key, the name,
\* and the head last.
AtMeshName(n) ==
  /\ pc = "ready" /\ pc' = "pair"
  /\ buf' = [NoBuf EXCEPT !["name"] = n, !["pwd"] = WrittenBack(pair["pwd"])]
  /\ todo' = <<"pwd", "ltk", "name", "flag">>
  /\ pair' = Blank
  /\ goal' = [goal EXCEPT !.name = n]
  /\ want' = Changing("name", n, DefaultName, "pwd", DefaultPwd)
  /\ UNCHANGED <<kv, ram>>

\* Seeded fault: set_mesh_pwd does not write the name back.
RestIsHead == <<"ltk", "pwd", "flag">>
RestOfSector == <<"name", "ltk", "pwd", "flag">>
\* set_mesh_pwd: the same with the name, and the password encoded.
AtMeshPwd(p) ==
  /\ pc = "ready" /\ pc' = "pair"
  /\ buf' = [NoBuf EXCEPT !["name"] = pair["name"], !["pwd"] = Encode(p)]
  /\ todo' = RestOfSector
  /\ pair' = Blank
  /\ goal' = [goal EXCEPT !.pwd = p]
  /\ want' = Changing("pwd", p, DefaultPwd, "name", DefaultName)
  /\ UNCHANGED <<kv, ram>>

\* flash_write_page on one field; power may fail before all bits are cleared.
Programmed(old, new) == IF old \in {Erased, new, Part(new)} THEN new ELSE Garbled
Torn(old, new) == IF old \in {Erased, Part(new)} THEN Part(new) ELSE Programmed(old, new)
Program ==
  /\ todo # <<>>
  /\ pair' = [pair EXCEPT ![Head(todo)] = Programmed(@, buf[Head(todo)])]
  /\ todo' = Tail(todo)
  /\ pc' = IF todo' # <<>> THEN pc ELSE IF pc = "pair" THEN "ready" ELSE "boot"
  /\ want' = IF pc' = pc THEN want
             ELSE [want EXCEPT !["name"] = {goal.name}, !["pwd"] = {goal.pwd}]
  /\ buf' = IF todo' = <<>> THEN NoBuf ELSE buf
  /\ UNCHANGED <<kv, ram, goal>>

\* atCmd_Restore, when no power loss interrupts it (else see FactoryReset)
AtRestore ==
  /\ pc = "ready" /\ pc' = "boot"
  /\ Store!Clear
  /\ pair' = Blank
  /\ goal' = FactoryNet /\ want' = FactoryWant
  /\ UNCHANGED <<todo, buf, ram>>

\* kick_out(KICKOUT_OUT_OF_MESH), which the library calls in the main loop and
\* reboots: factory_reset, then the key, the default password, another name and
\* the head.  With KICKOUT_DEFAULT_NAME it is AtRestore.
KickOut ==
  /\ pc = "ready" /\ pc' = "kick"
  /\ Store!Clear
  /\ pair' = Blank
  /\ todo' = <<"ltk", "pwd", "name", "flag">>
  /\ buf' = [Factory EXCEPT !["name"] = OutOfMesh]
  /\ goal' = [FactoryNet EXCEPT !.name = OutOfMesh]
  /\ want' = [FactoryWant EXCEPT !["name"] = {DefaultName, OutOfMesh, Garbled}]
  /\ UNCHANGED ram

-----------------------------------------------------------------------------
\* Power loss, also in the middle of programming a field.
PowerOff ==
  /\ pc # "undefined"
  /\ \/ UNCHANGED pair
     \/ todo # <<>> /\ pair' = [pair EXCEPT ![Head(todo)] = Torn(@, buf[Head(todo)])]
  /\ Store!PowerLoss
  /\ todo' = <<>> /\ buf' = NoBuf /\ pc' = "boot"
  /\ UNCHANGED <<ram, history>>

Next ==
  \/ LoadDefaults \/ Overrun \/ Undefined \/ UserInit
  \/ \E a \in Addrs : AtAddr(a)
  \/ \E f \in Flags : AtAdv(f)
  \/ \E t \in Ttls : AtTtl(t)
  \/ \E n \in DevNames : AtName(n)
  \/ Discard \/ StorePart \/ Stored
  \/ \E n \in MeshNames : AtMeshName(n)
  \/ \E p \in MeshPwds : AtMeshPwd(p)
  \/ Program \/ AtRestore \/ KickOut \/ PowerOff

Spec == Init /\ [][Next]_vars

-----------------------------------------------------------------------------
TypeOK ==
  /\ dict \in [{KeyAdv, KeyAddr, KeyName} -> KVals \cup {None, Damaged}]
  /\ pair["name"] \in Contents(Names)
  /\ pair["pwd"] \in Contents(Codes)
  /\ pair["ltk"] \in Contents({Valid}) /\ pair["flag"] \in Contents({Valid})
  /\ todo \in Seq(Fields) /\ pc \in {"boot", "ready", "store", "pair", "kick", "undefined"}
  /\ device_address \in Addrs \cup {MacAddr, Damaged}
  /\ g_ttl \in Nat /\ send_adv_flag \in Flags
  /\ adv_name \in KVals \cup {None, Damaged}
  /\ DOMAIN want = Kinds

\* Action property: the next power-on restores what was last set, whatever else
\* was set in between: the address, the advertising flag, the later one of the
\* TTL and the device name (after a name the TTL is 3; after a TTL the name is
\* lost, and the TTL is taken for it), and the mesh name and password, of which
\* each change writes back what the other one has stored.  When power failed
\* while one was stored, its old or new value, the default or a damaged one; when
\* it failed during a change of a credential, both may be that or a mixture.
\* Memory is overwritten at a power-on only when a device name was the later one
\* or may be damaged, or power failed while an address or a flag was stored.
SettingsKept ==
  [][pc = "boot" =>
       /\ pc' = "ready" =>
            /\ send_adv_flag' \in want["adv"]
            /\ device_address' \in want["addr"]
            /\ <<g_ttl', adv_name'>> \in want["ttl and name"]
            /\ net'.name \in want["name"] /\ net'.pwd \in want["pwd"]
       /\ pc' = "undefined" =>
            \/ Damaged \in want["adv"] \cup want["addr"]
            \/ \E v \in DevNames \cup {Damaged} : <<3, v>> \in want["ttl and name"]]_vars

\* Safety: the head of the sector vouches for it: wherever power fails, a sector
\* with a valid head has no field that was left out or programmed in part.  (It
\* may be Garbled: the library does not erase before it stores the defaults.)
HeadVouches == pair["flag"] = Valid => \A f \in Fields : pair[f] \notin {Erased} \cup Parts

\* Safety: what is advertised as the name is a name, or what a power loss has
\* left of one ("read the device name" in user_init).
AdvNameIsName == adv_name \in DevNames \cup {None, Damaged}
=============================================================================
