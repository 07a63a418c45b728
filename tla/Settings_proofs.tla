--------------------------- MODULE Settings_proofs ---------------------------
(***************************************************************************)
(* Proofs about Settings, for any names, passwords, addresses and TTLs,    *)
(* and a power loss at any step.                                           *)
(***************************************************************************)
EXTENDS Settings, SequenceTheorems, TLAPS

\* What user_init makes of the value it reads, or of none.
AdvOf(v) == IF v = 0 THEN 0 ELSE 1
AddrOf(v) == IF v = None THEN MacAddr ELSE v

\* The write under way: its value and, until it is stored, the default and a
\* damaged value.
Writing ==
  \/ key = KeyAdv /\ val \in Flags /\ {val, 1, Damaged} \subseteq want["adv"]
  \/ key = KeyAddr /\ val \in Addrs /\ {val, MacAddr, Damaged} \subseteq want["addr"]
  \/ /\ key = KeyTtl /\ val \in DevNames \cup 0 .. 8
     /\ {Both(val), Both(None), Both(Damaged)} \subseteq want["ttl and name"]

\* The key-value store: each key has values of its own kinds, and what the next
\* power-on makes of them is wanted, also after the write that is under way.
StoreKept ==
  /\ dict[KeyAdv] \in Flags \cup {None, Damaged}
  /\ dict[KeyAddr] \in Addrs \cup {None, Damaged}
  /\ dict[KeyTtl] \in DevNames \cup 0 .. 8 \cup {None, Damaged}
  /\ AdvOf(dict[KeyAdv]) \in want["adv"]
  /\ dict[KeyAdv] = Damaged => Damaged \in want["adv"]
  /\ AddrOf(dict[KeyAddr]) \in want["addr"]
  /\ Both(dict[KeyTtl]) \in want["ttl and name"]
  /\ pc = "store" => Writing

\* The fields still to be programmed: each once, the head last.
Left == {todo[i] : i \in 1 .. Len(todo)}
InOrder ==
  /\ \A i, j \in 1 .. Len(todo) : todo[i] = todo[j] => i = j
  /\ todo # <<>> => todo[Len(todo)] = "flag" /\ pair["flag"] # Valid
  /\ pc \in {"pair", "kick"} => todo # <<>>
  /\ pc \in {"ready", "store", "undefined"} => todo = <<>>

\* The fields of the sector and of what is programmed into it.
Sector ==
  /\ DOMAIN pair = Fields
  /\ pair["flag"] \in {Erased, Part(Valid), Valid}
  /\ pair["flag"] = Valid => \A f \in Fields : pair[f] \notin {Erased} \cup Parts
  /\ DOMAIN buf = Fields /\ buf["ltk"] = Valid /\ buf["flag"] = Valid
  /\ todo # <<>> => buf["name"] \in Names \cup {Garbled} /\ buf["pwd"] \in Codes \cup {Garbled}

\* A valid sector is what was last set.
Loaded ==
  /\ pair["flag"] = Valid => pair["name"] \in want["name"] /\ Decode(pair["pwd"]) \in want["pwd"]
  /\ pc \in {"ready", "store"} =>
       pair["flag"] = Valid /\ goal = [name |-> pair["name"], pwd |-> Decode(pair["pwd"])]

\* What the defaults make of an invalid sector is wanted too.
Recoverable ==
  pair["flag"] # Valid =>
    /\ DefaultName \in want["name"] /\ DefaultPwd \in want["pwd"]
    /\ Garbled \in want["name"] \/ pair["name"] \in {Erased, DefaultName, Part(DefaultName)}
    /\ Garbled \in want["pwd"]
         \/ pair["pwd"] \in {Erased, Encode(DefaultPwd), Part(Encode(DefaultPwd))}

\* While a credential is changed: a field is erased or programmed, and the
\* sector will be what was set.
Changes ==
  pc \in {"pair", "kick"} =>
    /\ \A f \in Fields : pair[f] = IF f \in Left THEN Erased ELSE buf[f]
    /\ goal = [name |-> buf["name"], pwd |-> Decode(buf["pwd"])]
    /\ buf["name"] \in want["name"] /\ Decode(buf["pwd"]) \in want["pwd"]
    /\ Garbled \in want["name"] \/ buf["name"] = DefaultName
    /\ Garbled \in want["pwd"] \/ buf["pwd"] = Encode(DefaultPwd)

\* While the defaults are stored: a field that is done is whole or garbled.
Restores ==
  pc = "boot" /\ todo # <<>> =>
    /\ buf = Factory
    /\ \A f \in Fields \ Left : pair[f] \in {Factory[f], Garbled}

\* The pairing sector and the changes of it.
Pairing ==
  /\ pair["name"] \in Contents(Names) /\ pair["pwd"] \in Contents(Codes)
  /\ pair["ltk"] \in Contents({Valid}) /\ pair["flag"] \in Contents({Valid})
  /\ todo \in Seq(Fields) /\ pc \in {"boot", "ready", "store", "pair", "kick", "undefined"}
  /\ InOrder /\ Sector /\ Loaded /\ Recoverable /\ Changes /\ Restores

Inv == TypeOK /\ StoreKept /\ Pairing

-----------------------------------------------------------------------------
(* The lists of fields.                                                    *)

\* Every list that programming starts with has each field once, the head last.
LEMMA ListFacts ==
  ASSUME todo' \in {<<"name", "pwd", "ltk", "flag">>, <<"pwd", "ltk", "name", "flag">>,
                    <<"name", "ltk", "pwd", "flag">>, <<"ltk", "pwd", "name", "flag">>}
  PROVE  /\ todo' \in Seq(Fields) /\ todo' # <<>>
         /\ \A i, j \in 1 .. Len(todo') : todo'[i] = todo'[j] => i = j
         /\ todo'[Len(todo')] = "flag"
         /\ Left' = Fields
<1>1. Len(todo') = 4 OBVIOUS
<1>2. \A i \in 1 .. 4 : i = 1 \/ i = 2 \/ i = 3 \/ i = 4 OBVIOUS
<1>3. Left' = {todo'[1], todo'[2], todo'[3], todo'[4]} BY <1>1, <1>2 DEF Left
<1>4. Left' = Fields BY <1>3 DEF Fields
<1>5. todo' \in Seq(Fields)
  <2>1. "name" \in Fields /\ "pwd" \in Fields /\ "ltk" \in Fields /\ "flag" \in Fields
    BY DEF Fields
  <2>2. \A a, b, c, d \in Fields : <<a, b, c, d>> \in Seq(Fields) OBVIOUS
  <2> QED BY <2>1, <2>2, Zenon
<1>6. \A i, j \in 1 .. Len(todo') : todo'[i] = todo'[j] => i = j BY <1>1, <1>2
<1> QED BY <1>1, <1>4, <1>5, <1>6

\* Programming a field takes it off the list.
LEMMA TailFacts ==
  ASSUME TypeOK, InOrder, todo # <<>>, todo' = Tail(todo)
  PROVE  /\ todo' \in Seq(Fields) /\ Head(todo) \in Left
         /\ Head(todo) \in Fields /\ "flag" \in Left
         /\ \A i, j \in 1 .. Len(todo') : todo'[i] = todo'[j] => i = j
         /\ todo' # <<>> => todo'[Len(todo')] = "flag" /\ Head(todo) # "flag"
         /\ todo' = <<>> => Head(todo) = "flag"
         /\ Left' = Left \ {Head(todo)}
<1>1. todo \in Seq(Fields) BY DEF TypeOK
<1>2. /\ todo' \in Seq(Fields) /\ Len(todo') = Len(todo) - 1
      /\ \A i \in 1 .. Len(todo') : todo'[i] = todo[i + 1]
      /\ Len(todo) \in Nat \ {0} /\ Head(todo) = todo[1] /\ todo[1] \in Fields
  BY <1>1, HeadTailProperties, LenProperties, EmptySeq, ElementOfSeq
<1>3. /\ \A i, j \in 1 .. Len(todo) : todo[i] = todo[j] => i = j
      /\ todo[Len(todo)] = "flag"
  BY DEF InOrder
<1>4. Head(todo) \in Left /\ "flag" \in Left BY <1>2, <1>3 DEF Left
<1>5. \A i, j \in 1 .. Len(todo') : todo'[i] = todo'[j] => i = j BY <1>2, <1>3
<1>6. todo' # <<>> => Len(todo') # 0 BY <1>2, EmptySeq
<1>7. todo' # <<>> => todo'[Len(todo')] = "flag" /\ Head(todo) # "flag" BY <1>2, <1>3, <1>6
<1>8. todo' = <<>> => Head(todo) = "flag" BY <1>2, <1>3, EmptySeq
<1>9. Left' = Left \ {Head(todo)}
  <2>1. ASSUME NEW f \in Left' PROVE f \in Left \ {Head(todo)}
    <3>1. PICK i \in 1 .. Len(todo') : f = todo'[i] BY <2>1 DEF Left
    <3> QED BY <1>2, <1>3, <3>1 DEF Left
  <2>2. ASSUME NEW f \in Left \ {Head(todo)} PROVE f \in Left'
    <3>1. PICK i \in 1 .. Len(todo) : f = todo[i] BY <2>2 DEF Left
    <3>2. i - 1 \in 1 .. Len(todo') /\ todo'[i - 1] = f BY <1>2, <2>2, <3>1
    <3> QED BY <3>2 DEF Left
  <2> QED BY <2>1, <2>2
<1> QED BY <1>2, <1>4, <1>5, <1>7, <1>8, <1>9

LEMMA NoneLeft == ASSUME todo = <<>> PROVE Left = {}
BY EmptySeq DEF Left

-----------------------------------------------------------------------------
(* The key-value store.                                                    *)

LEMMA KeyFacts ==
  /\ KeyAdv # KeyAddr /\ KeyAdv # KeyTtl /\ KeyAddr # KeyTtl /\ KeyName = KeyTtl
  /\ \A k : k \in {KeyAdv, KeyAddr, KeyName} <=> k = KeyAdv \/ k = KeyAddr \/ k = KeyTtl
BY DEF KeyAdv, KeyAddr, KeyTtl, KeyName

\* What user_init makes of a stored value, and of none.
LEMMA ValueFacts ==
  /\ None \notin Flags /\ None \notin Addrs /\ None \notin DevNames /\ None \notin 0 .. 8
  /\ Damaged \notin Flags /\ Damaged \notin Addrs /\ Damaged # None
  /\ AdvOf(None) = 1 /\ AdvOf(Damaged) = 1 /\ \A f \in Flags : AdvOf(f) = f
  /\ AddrOf(None) = MacAddr /\ AddrOf(Damaged) = Damaged /\ \A a \in Addrs : AddrOf(a) = a
  /\ \A v \in DevNames \cup {None, Damaged} : TtlOf(v) = 3
<1>0. Damaged \notin Flags /\ Damaged \notin Addrs /\ Damaged # None /\ Damaged \notin 0 .. 8
  BY SettingsAssumption DEF KVals
<1>1. None \notin Flags /\ None \notin Addrs /\ None \notin DevNames /\ None \notin 0 .. 8
  BY SettingsAssumption DEF KVals
<1>2. \A n \in DevNames : n \notin 0 .. 8 BY SettingsAssumption
<1>3. None # 0 /\ Damaged # 0 BY <1>0, <1>1 DEF Flags
<1> QED BY <1>0, <1>1, <1>2, <1>3 DEF AdvOf, AddrOf, TtlOf, Flags

\* Neither the store nor what is wanted of it changes.
LEMMA StoreSame ==
  ASSUME StoreKept, dict' = dict, pc' # "store",
         want'["adv"] = want["adv"], want'["addr"] = want["addr"], want'["ttl and name"] = want["ttl and name"]
  PROVE  StoreKept'
BY DEF StoreKept, AdvOf, AddrOf, Both, TtlOf

LEMMA NextStore ==
  ASSUME TypeOK, InOrder, StoreKept, [Next]_vars
  PROVE  /\ StoreKept'
         /\ dict' \in [{KeyAdv, KeyAddr, KeyName} -> KVals \cup {None, Damaged}]
<1>1. /\ dict \in [{KeyAdv, KeyAddr, KeyName} -> KVals \cup {None, Damaged}]
      /\ DOMAIN want = {"adv", "addr", "ttl and name", "name", "pwd"}
  BY DEF TypeOK, Kinds
<1> DEFINE Typed == dict' \in [{KeyAdv, KeyAddr, KeyName} -> KVals \cup {None, Damaged}]
<1>2. /\ Flags \subseteq KVals /\ Addrs \subseteq KVals
      /\ DevNames \subseteq KVals /\ 0 .. 8 \subseteq KVals
  BY DEF KVals
<1>3. ASSUME pc' # "store", dict' = dict,
             want'["adv"] = want["adv"], want'["addr"] = want["addr"], want'["ttl and name"] = want["ttl and name"]
      PROVE  StoreKept' /\ Typed
  BY <1>1, <1>3, StoreSame
\* A command invokes the write.
<1>4. ASSUME NEW k, NEW v, StoreValue(k, v)
      PROVE  /\ pc = "ready" /\ pc' = "store" /\ key' = k /\ val' = v /\ dict' = dict
             /\ Typed
  BY <1>1, <1>4 DEF StoreValue, Store!Invoke
<1>5. ASSUME NEW a \in Addrs, AtAddr(a) PROVE StoreKept' /\ Typed
  <2>1. /\ want'["adv"] = want["adv"] /\ want'["ttl and name"] = want["ttl and name"]
        /\ want'["addr"] = want["addr"] \cup {a, MacAddr, Damaged}
    BY <1>1, <1>5 DEF AtAddr, Storing
  <2>2. StoreValue(KeyAddr, a) BY <1>5 DEF AtAddr
  <2> QED BY <1>4, <2>1, <2>2, <1>5 DEF StoreKept, Writing
<1>6. ASSUME NEW f \in Flags, AtAdv(f) PROVE StoreKept' /\ Typed
  <2>1. /\ want'["addr"] = want["addr"] /\ want'["ttl and name"] = want["ttl and name"]
        /\ want'["adv"] = want["adv"] \cup {f, 1, Damaged}
    BY <1>1, <1>6 DEF AtAdv, Storing
  <2>2. StoreValue(KeyAdv, f) BY <1>6 DEF AtAdv
  <2> QED BY <1>4, <2>1, <2>2, <1>6 DEF StoreKept, Writing
<1>7. ASSUME NEW t \in Ttls, AtTtl(t) PROVE StoreKept' /\ Typed
  <2>1. /\ want'["addr"] = want["addr"] /\ want'["adv"] = want["adv"]
        /\ want'["ttl and name"] = want["ttl and name"] \cup {Both(t), Both(None), Both(Damaged)}
    BY <1>1, <1>7 DEF AtTtl, StoringBoth, Storing
  <2>2. StoreValue(KeyTtl, t) BY <1>7 DEF AtTtl
  <2>3. t \in 0 .. 8 BY <1>7, SettingsAssumption DEF AtTtl, TooLong
  <2> QED BY <1>4, <2>1, <2>2, <2>3 DEF StoreKept, Writing
<1>8. ASSUME NEW n \in DevNames, AtName(n) PROVE StoreKept' /\ Typed
  <2>1. /\ want'["addr"] = want["addr"] /\ want'["adv"] = want["adv"]
        /\ want'["ttl and name"] = want["ttl and name"] \cup {Both(n), Both(None), Both(Damaged)}
    BY <1>1, <1>8 DEF AtName, StoringBoth, Storing
  <2>2. StoreValue(KeyName, n) BY <1>8 DEF AtName
  <2> QED BY <1>4, <2>1, <2>2, KeyFacts DEF StoreKept, Writing
<1>9. CASE Discard
  <2>1. /\ pc = "store" /\ dict' = [dict EXCEPT ![key] = None]
        /\ UNCHANGED <<pc, want, key, val>>
    BY <1>9 DEF Discard, Store!Discard, history
  <2>2. Writing BY <2>1 DEF StoreKept
  <2>3. key \in {KeyAdv, KeyAddr, KeyName} BY <2>2, KeyFacts DEF Writing
  <2>4. Typed BY <1>1, <2>1
  <2>5. \A k \in {KeyAdv, KeyAddr, KeyName} : dict'[k] = IF k = key THEN None ELSE dict[k]
    BY <1>1, <2>1
  <2>6. Writing' BY <2>1, <2>2 DEF Writing, Both, TtlOf
  <2> QED BY <2>1, <2>2, <2>4, <2>5, <2>6, KeyFacts, ValueFacts DEF StoreKept, Writing
<1>19. CASE StorePart
  <2>1. /\ pc = "store" /\ dict' = [dict EXCEPT ![key] = Damaged]
        /\ UNCHANGED <<pc, want, key, val>>
    BY <1>19 DEF StorePart, Store!StorePart, history
  <2>2. Writing BY <2>1 DEF StoreKept
  <2>3. key \in {KeyAdv, KeyAddr, KeyName} BY <2>2, KeyFacts DEF Writing
  <2>4. Typed BY <1>1, <2>1
  <2>5. \A k \in {KeyAdv, KeyAddr, KeyName} : dict'[k] = IF k = key THEN Damaged ELSE dict[k]
    BY <1>1, <2>1
  <2>6. Writing' BY <2>1, <2>2 DEF Writing, Both, TtlOf
  <2>7. 1 \in want["adv"] \/ key # KeyAdv BY <2>2, KeyFacts DEF Writing
  <2> QED BY <2>1, <2>2, <2>4, <2>5, <2>6, <2>7, KeyFacts, ValueFacts DEF StoreKept, Writing
<1>10. CASE Stored
  <2>1. /\ pc = "store" /\ pc' = "ready" /\ dict' = [dict EXCEPT ![key] = val]
        /\ want' = Acked(key)
    BY <1>10 DEF Stored, Store!ReturnWrite
  <2>2. Writing BY <2>1 DEF StoreKept
  <2>3. key \in {KeyAdv, KeyAddr, KeyName} /\ val \in KVals
    BY <1>2, <2>2, KeyFacts DEF Writing
  <2>4. Typed BY <1>1, <2>1, <2>3
  <2>5. \A k \in {KeyAdv, KeyAddr, KeyName} : dict'[k] = IF k = key THEN val ELSE dict[k]
    BY <1>1, <2>1
  <2>6. /\ want'["adv"] = IF key = KeyAdv THEN {val} ELSE want["adv"]
        /\ want'["addr"] = IF key = KeyAddr THEN {val} ELSE want["addr"]
        /\ want'["ttl and name"] = IF key = KeyTtl THEN {Both(val)} ELSE want["ttl and name"]
    BY <1>1, <2>1, <2>3, KeyFacts DEF Acked
  <2> QED BY <2>1, <2>2, <2>4, <2>5, <2>6, KeyFacts, ValueFacts DEF StoreKept, Writing
<1>11. CASE UserInit
  <2>1. /\ dict' = dict /\ pc' = "ready"
        /\ want'["adv"] = {AdvOf(dict[KeyAdv])} \cup ({dict[KeyAdv]} \cap {Damaged})
        /\ want'["addr"] = {AddrOf(dict[KeyAddr])}
        /\ want'["ttl and name"] = {Both(dict[KeyTtl])}
    BY <1>1, <1>11, KeyFacts DEF UserInit, AdvOf, AddrOf, Both, kv
  <2> QED BY <1>1, <2>1 DEF StoreKept
<1>12. CASE AtRestore \/ KickOut
  <2>1. /\ dict' = [k \in {KeyAdv, KeyAddr, KeyName} |-> None] /\ pc' # "store"
        /\ want'["adv"] = {1} /\ want'["addr"] = {MacAddr} /\ want'["ttl and name"] = {Both(None)}
    BY <1>12 DEF AtRestore, KickOut, Store!Clear, FactoryWant, Kinds
  <2> QED BY <2>1, KeyFacts, ValueFacts DEF StoreKept
<1>18. CASE UNCHANGED vars
  <2>1. UNCHANGED <<dict, key, val, pc, want>> BY <1>18 DEF vars, kv, history
  <2> QED BY <1>1, <2>1 DEF StoreKept, Writing, AdvOf, AddrOf, Both, TtlOf
<1>20. CASE Overrun \/ Undefined
  BY <1>1, <1>3, <1>18, <1>20 DEF Overrun, Undefined, kv, history
<1>13. CASE LoadDefaults BY <1>3, <1>13 DEF LoadDefaults, kv, history
<1>14. CASE PowerOff BY <1>3, <1>14 DEF PowerOff, Store!PowerLoss, history
<1>15. ASSUME NEW n, AtMeshName(n) PROVE StoreKept' /\ Typed
  <2>1. /\ dict' = dict /\ pc' # "store"
        /\ want'["adv"] = want["adv"] /\ want'["addr"] = want["addr"] /\ want'["ttl and name"] = want["ttl and name"]
    BY <1>1, <1>15 DEF AtMeshName, Changing, kv
  <2> QED BY <1>3, <2>1
<1>16. ASSUME NEW p, AtMeshPwd(p) PROVE StoreKept' /\ Typed
  <2>1. /\ dict' = dict /\ pc' # "store"
        /\ want'["adv"] = want["adv"] /\ want'["addr"] = want["addr"] /\ want'["ttl and name"] = want["ttl and name"]
    BY <1>1, <1>16 DEF AtMeshPwd, Changing, kv
  <2> QED BY <1>3, <2>1
<1>17. CASE Program
  <2>1. pc # "store" BY <1>17 DEF Program, InOrder
  <2>2. dict' = dict /\ pc' # "store" BY <1>17, <2>1 DEF Program, kv
  <2>3. want'["adv"] = want["adv"] /\ want'["addr"] = want["addr"] /\ want'["ttl and name"] = want["ttl and name"]
    BY <1>1, <1>17 DEF Program
  <2> QED BY <1>3, <2>2, <2>3
<1> QED BY <1>5, <1>6, <1>7, <1>8, <1>9, <1>10, <1>11, <1>12, <1>13, <1>14, <1>15, <1>16, <1>17,
           <1>18, <1>19, <1>20 DEF Next

-----------------------------------------------------------------------------
(* The pairing sector.                                                     *)

LEMMA ContentFacts ==
  /\ Garbled \notin {Erased} \cup Parts /\ Part(Garbled) = Garbled
  /\ \A v \in {Valid} \cup Names \cup Codes :
       v \notin {Erased, Garbled} \cup Parts /\ Part(v) \in Parts \ {Erased, Garbled, v}
  /\ \A v, w \in {Valid} \cup Names \cup Codes : Part(v) = Part(w) => v = w
<1>1. /\ Erased # Garbled /\ Erased \notin Parts /\ Garbled \notin Parts
      /\ \A v \in {Valid} \cup Names \cup Codes : v \notin {Erased, Garbled} /\ v \notin Parts
  BY SettingsAssumption
<1>2. \A v \in {Valid} \cup Names \cup Codes : Part(v) \in Parts BY DEF Parts
<1>3. \A v \in {Valid} \cup Names \cup Codes : Part(v) = <<"part", v>> BY <1>1 DEF Part
<1>4. \A v, w : <<"part", v>> = <<"part", w>> => v = w OBVIOUS
<1>5. Part(Garbled) = Garbled BY DEF Part
<1>6. \A v \in {Valid} \cup Names \cup Codes :
         v \notin {Erased, Garbled} \cup Parts /\ Part(v) \in Parts \ {Erased, Garbled, v}
  BY <1>1, <1>2
<1>7. \A v, w \in {Valid} \cup Names \cup Codes : Part(v) = Part(w) => v = w
  BY <1>3, <1>4
<1> QED BY <1>1, <1>5, <1>6, <1>7

LEMMA CodeFacts ==
  /\ DefaultName \in Names /\ OutOfMesh \in Names /\ \A n \in MeshNames : n \in Names
  /\ Encode(DefaultPwd) \in Codes /\ Decode(Encode(DefaultPwd)) = DefaultPwd
  /\ \A p \in MeshPwds : Encode(p) \in Codes /\ Decode(Encode(p)) = p
  /\ Decode(Garbled) = Garbled
<1>1. \A p \in MeshPwds \cup {DefaultPwd} : Encode(p) \in Codes BY DEF Codes
<1>2. \A p \in MeshPwds \cup {DefaultPwd} : Decode(Encode(p)) = p
  <2>1. \A p \in MeshPwds \cup {DefaultPwd} : Decode(Encode(p)) = Encode(p)[2]
    BY <1>1 DEF Decode, Codes
  <2> QED BY <2>1 DEF Encode
<1>3. Decode(Garbled) = Garbled BY ContentFacts DEF Decode, Codes
<1> QED BY <1>1, <1>2, <1>3 DEF Names

\* A field that holds nothing takes the new value, another one that or garbage.
LEMMA ProgramFacts ==
  ASSUME NEW old, NEW new
  PROVE  /\ Programmed(old, new) \in {new, Garbled}
         /\ old \in {Erased, new, Part(new)} => Programmed(old, new) = new
         /\ Torn(old, new) \in {Part(new), new, Garbled}
         /\ old \in {Erased, Part(new)} => Torn(old, new) = Part(new)
         /\ old = new => Torn(old, new) \in {new, Part(new)}
BY DEF Programmed, Torn

\* A command or the write of a value leaves the sector alone.
LEMMA PairSame ==
  ASSUME Pairing, UNCHANGED <<pair, todo, buf, goal>>,
         want'["name"] = want["name"], want'["pwd"] = want["pwd"],
         pc' = pc \/ {pc, pc'} \subseteq {"ready", "store"}
  PROVE  Pairing'
<1>1. Left' = Left BY DEF Left
<1>2. InOrder' /\ Sector' BY DEF Pairing, InOrder, Sector
<1>3. Loaded' /\ Recoverable' BY DEF Pairing, Loaded, Recoverable, Decode
<1>4. Changes' /\ Restores' BY <1>1 DEF Pairing, Changes, Restores, Decode
<1> QED BY <1>2, <1>3, <1>4 DEF Pairing

\* The sector has been erased, and all of it will be written.
LEMMA PairRewritten ==
  ASSUME pair' = Blank, pc' \in {"pair", "kick"},
         todo' \in {<<"name", "pwd", "ltk", "flag">>, <<"pwd", "ltk", "name", "flag">>,
                    <<"name", "ltk", "pwd", "flag">>, <<"ltk", "pwd", "name", "flag">>},
         NEW n \in Names \cup {Garbled}, NEW e \in Codes \cup {Garbled},
         buf' = [NoBuf EXCEPT !["name"] = n, !["pwd"] = e],
         goal' = [name |-> n, pwd |-> Decode(e)],
         {n, DefaultName} \subseteq want'["name"], {Decode(e), DefaultPwd} \subseteq want'["pwd"],
         Garbled \in want'["name"] \/ n = DefaultName,
         Garbled \in want'["pwd"] \/ e = Encode(DefaultPwd)
  PROVE  Pairing'
<1>1. /\ DOMAIN pair' = Fields /\ \A f \in Fields : pair'[f] = Erased
      /\ pair'["name"] = Erased /\ pair'["pwd"] = Erased
      /\ pair'["ltk"] = Erased /\ pair'["flag"] = Erased
  BY DEF Blank, Fields
<1>2. /\ DOMAIN buf' = Fields /\ buf'["name"] = n /\ buf'["pwd"] = e
      /\ buf'["ltk"] = Valid /\ buf'["flag"] = Valid
  BY DEF NoBuf, Fields
<1>3. /\ todo' \in Seq(Fields) /\ todo' # <<>>
      /\ \A i, j \in 1 .. Len(todo') : todo'[i] = todo'[j] => i = j
      /\ todo'[Len(todo')] = "flag"
      /\ Left' = Fields
  BY ListFacts
<1>4. Erased # Valid BY ContentFacts
<1>5. InOrder' BY <1>1, <1>3, <1>4 DEF InOrder
<1>6. Sector' BY <1>1, <1>2, <1>4 DEF Sector
<1>7. Loaded' /\ Recoverable' BY <1>1, <1>4 DEF Loaded, Recoverable
<1>8. Decode(e)' = Decode(e) BY DEF Decode
<1>9. Changes' BY <1>1, <1>2, <1>3, <1>8 DEF Changes
<1>10. Restores' BY DEF Restores
<1> QED BY <1>1, <1>3, <1>5, <1>6, <1>7, <1>9, <1>10 DEF Pairing, Contents


\* A field is programmed.
LEMMA PairProgram ==
  ASSUME Inv, Program PROVE Pairing'
<1> DEFINE h == Head(todo)
<1>1. /\ todo # <<>> /\ todo' = Tail(todo)
      /\ pair' = [pair EXCEPT ![h] = Programmed(@, buf[h])]
      /\ pc' = IF todo' # <<>> THEN pc ELSE IF pc = "pair" THEN "ready" ELSE "boot"
      /\ buf' = IF todo' = <<>> THEN NoBuf ELSE buf
      /\ goal' = goal
  BY DEF Program
<1>2. TypeOK /\ Pairing BY DEF Inv
<1>3. InOrder /\ Sector /\ Loaded /\ Recoverable /\ Changes /\ Restores BY <1>2 DEF Pairing
<1>4. /\ todo' \in Seq(Fields) /\ h \in Left /\ h \in Fields /\ "flag" \in Left
      /\ \A i, j \in 1 .. Len(todo') : todo'[i] = todo'[j] => i = j
      /\ todo' # <<>> => todo'[Len(todo')] = "flag" /\ h # "flag"
      /\ todo' = <<>> => h = "flag"
      /\ Left' = Left \ {h}
  BY <1>1, <1>2, <1>3, TailFacts
<1> HIDE DEF h
<1>5. pc \in {"boot", "pair", "kick"} /\ pair["flag"] # Valid
  BY <1>1, <1>2, <1>3 DEF Pairing, InOrder
<1>6. /\ DOMAIN pair' = Fields
      /\ \A f \in Fields : pair'[f] = IF f = h THEN Programmed(pair[f], buf[f]) ELSE pair[f]
  BY <1>1, <1>3, <1>4 DEF Sector
<1>7. /\ buf["name"] \in Names \cup {Garbled} /\ buf["pwd"] \in Codes \cup {Garbled}
      /\ buf["ltk"] = Valid /\ buf["flag"] = Valid /\ DOMAIN buf = Fields
  BY <1>1, <1>3 DEF Sector
<1>8. pair["flag"] \in {Erased, Part(Valid)} BY <1>3, <1>5 DEF Sector
<1>9. pair'["flag"] = IF h = "flag" THEN Valid ELSE pair["flag"]
  BY <1>6, <1>7, <1>8, ProgramFacts DEF Fields
\* Before the head is programmed, every other field is done.
<1>10. ASSUME h = "flag", NEW f \in Fields PROVE pair'[f] \notin {Erased} \cup Parts
  <2>1. \A g \in Left : g = "flag"
    <3>1. todo' = <<>> BY <1>4, <1>10
    <3>2. Left' = {} BY <3>1, NoneLeft, EmptySeq DEF Left
    <3> QED BY <1>4, <1>10, <3>2
  <2>2. CASE f = "flag" BY <1>9, <1>10, <2>2, ContentFacts
  <2>3. CASE f # "flag" /\ pc = "boot"
    <3>1. pair[f] \in {Factory[f], Garbled} BY <1>1, <1>3, <2>1, <2>3 DEF Restores
    <3>2. Factory[f] \in {Valid} \cup Names \cup Codes
      BY CodeFacts DEF Factory, NoBuf, Fields
    <3> QED BY <1>6, <1>10, <2>3, <3>1, <3>2, ContentFacts
  <2>4. CASE f # "flag" /\ pc # "boot"
    <3>1. pair[f] = buf[f] BY <1>3, <1>5, <2>1, <2>4 DEF Changes
    <3>2. buf[f] \in {Valid, Garbled} \cup Names \cup Codes BY <1>7 DEF Fields
    <3> QED BY <1>6, <1>10, <2>4, <3>1, <3>2, ContentFacts
  <2> QED BY <2>2, <2>3, <2>4
<1>11. /\ pair'["name"] \in Contents(Names) /\ pair'["pwd"] \in Contents(Codes)
       /\ pair'["ltk"] \in Contents({Valid}) /\ pair'["flag"] \in Contents({Valid})
  <2>1. /\ pair["name"] \in Contents(Names) /\ pair["pwd"] \in Contents(Codes)
        /\ pair["ltk"] \in Contents({Valid}) /\ pair["flag"] \in Contents({Valid})
    BY <1>2 DEF Pairing
  <2>2. \A f \in Fields : pair'[f] \in {pair[f], buf[f], Garbled} BY <1>6, ProgramFacts
  <2> QED BY <1>7, <2>1, <2>2 DEF Contents, Fields
<1>12. pc' \in {"boot", "ready", "store", "pair", "kick", "undefined"} BY <1>1, <1>5
<1>13. InOrder'
  <2>1. todo' # <<>> => pair'["flag"] # Valid BY <1>4, <1>5, <1>9
  <2>2. pc' \in {"pair", "kick"} => todo' # <<>> BY <1>1, <1>5
  <2>3. pc' \in {"ready", "store", "undefined"} => todo' = <<>> BY <1>1, <1>5
  <2> QED BY <1>4, <2>1, <2>2, <2>3 DEF InOrder
<1>14. Sector'
  <2>1. DOMAIN buf' = Fields /\ buf'["ltk"] = Valid /\ buf'["flag"] = Valid
        /\ (todo' # <<>> => buf'["name"] \in Names \cup {Garbled} /\ buf'["pwd"] \in Codes \cup {Garbled})
    BY <1>1, <1>7 DEF NoBuf, Fields
  <2>2. pair'["flag"] = Valid => h = "flag" BY <1>5, <1>9
  <2>3. pair'["flag"] \in {Erased, Part(Valid), Valid} BY <1>8, <1>9
  <2> QED BY <1>6, <1>10, <2>1, <2>2, <2>3 DEF Sector
<1>15. CASE h # "flag"
  <2>1. todo' # <<>> /\ pc' = pc /\ buf' = buf BY <1>1, <1>4, <1>15
  <2>2. want' = want BY <2>1 DEF Program
  <2>3. pair'["flag"] = pair["flag"] BY <1>9, <1>15
  <2>4. Loaded' BY <1>5, <2>1, <2>3 DEF Loaded
  <2>5. pc \in {"pair", "kick"} => \A f \in Fields : pair'[f] = IF f \in Left' THEN Erased ELSE buf[f]
    BY <1>3, <1>4, <1>6, ProgramFacts DEF Changes
  <2>6. Changes' BY <1>1, <1>3, <2>1, <2>2, <2>5 DEF Changes, Decode
  <2>7. pc = "boot" => \A f \in Fields \ Left' : pair'[f] \in {Factory[f], Garbled}
    BY <1>1, <1>3, <1>4, <1>6, ProgramFacts DEF Restores
  <2>8. Restores' BY <1>1, <1>3, <2>1, <2>7 DEF Restores
  <2>9. /\ DefaultName \in want'["name"] /\ DefaultPwd \in want'["pwd"]
    BY <1>3, <1>5, <2>2 DEF Recoverable
  <2>10. CASE pc = "boot"
    <3>1. buf["name"] = DefaultName /\ buf["pwd"] = Encode(DefaultPwd)
      BY <1>1, <1>3, <2>10 DEF Restores, Factory, NoBuf, Fields
    <3>2. "name" \in Fields /\ "pwd" \in Fields BY DEF Fields
    <3>3. /\ Garbled \in want'["name"] \/ pair'["name"] \in {Erased, DefaultName, Part(DefaultName)}
          /\ Garbled \in want'["pwd"]
               \/ pair'["pwd"] \in {Erased, Encode(DefaultPwd), Part(Encode(DefaultPwd))}
      BY <1>3, <1>5, <1>6, <2>2, <3>1, <3>2, ProgramFacts DEF Recoverable
    <3> QED
      BY <1>11, <1>4, <1>12, <1>13, <1>14, <2>4, <2>6, <2>8, <2>9, <3>3 DEF Pairing, Recoverable
  <2>11. CASE pc # "boot"
    <3>1. "name" \in Fields /\ "pwd" \in Fields BY DEF Fields
    <3>2. /\ Garbled \in want'["name"] \/ pair'["name"] \in {Erased, DefaultName, Part(DefaultName)}
          /\ Garbled \in want'["pwd"]
               \/ pair'["pwd"] \in {Erased, Encode(DefaultPwd), Part(Encode(DefaultPwd))}
      BY <1>3, <1>5, <2>2, <2>5, <2>11, <3>1 DEF Changes
    <3> QED
      BY <1>11, <1>4, <1>12, <1>13, <1>14, <2>4, <2>6, <2>8, <2>9, <3>2 DEF Pairing, Recoverable
  <2> QED BY <2>10, <2>11
<1>16. CASE h = "flag"
  <2>1. todo' = <<>> BY <1>4, <1>16
  <2>2. pair'["flag"] = Valid /\ pair'["name"] = pair["name"] /\ pair'["pwd"] = pair["pwd"]
    BY <1>6, <1>9, <1>16 DEF Fields
  <2>3. Recoverable' /\ Changes' /\ Restores'
    BY <1>1, <1>5, <2>1, <2>2 DEF Recoverable, Changes, Restores
  <2>4. "name" \in Fields \ Left /\ "pwd" \in Fields \ Left
    <3>1. Left' = {} BY <2>1, EmptySeq DEF Left
    <3> QED BY <1>4, <1>16, <3>1 DEF Fields
  <2>5. CASE pc = "boot"
    <3>1. want' = want BY <1>1, <2>1, <2>5 DEF Program
    <3>2. /\ Factory["name"] = DefaultName /\ Factory["pwd"] = Encode(DefaultPwd)
      BY DEF Factory, NoBuf, Fields
    <3>3. pair["name"] \in {DefaultName, Garbled} /\ pair["pwd"] \in {Encode(DefaultPwd), Garbled}
      BY <1>1, <1>3, <2>4, <2>5, <3>2 DEF Restores
    <3>4. pair["name"] \in want["name"]
      BY <1>3, <1>5, <3>3, ContentFacts, CodeFacts DEF Recoverable
    <3>5. Decode(pair["pwd"]) \in want["pwd"]
      BY <1>3, <1>5, <3>3, ContentFacts, CodeFacts DEF Recoverable
    <3>6. Loaded' BY <1>1, <2>1, <2>2, <2>5, <3>1, <3>4, <3>5 DEF Loaded, Decode
    <3> QED BY <1>4, <1>11, <1>12, <1>13, <1>14, <2>3, <3>6 DEF Pairing
  <2>6. CASE pc # "boot"
    <3>1. goal = [name |-> buf["name"], pwd |-> Decode(buf["pwd"])]
          /\ pair["name"] = buf["name"] /\ pair["pwd"] = buf["pwd"]
      BY <1>3, <1>5, <2>4, <2>6 DEF Changes
    <3>2. pc' # pc /\ DOMAIN want = Kinds BY <1>1, <1>2, <1>5, <2>1, <2>6 DEF TypeOK
    <3>3. want'["name"] = {goal.name} /\ want'["pwd"] = {goal.pwd}
      BY <3>2 DEF Program, Kinds
    <3>4. Decode(pair["pwd"])' = Decode(pair["pwd"]) BY <2>2 DEF Decode
    <3>5. Loaded' BY <1>1, <2>2, <3>1, <3>3, <3>4 DEF Loaded
    <3> QED BY <1>4, <1>11, <1>12, <1>13, <1>14, <2>3, <3>5 DEF Pairing
  <2> QED BY <2>5, <2>6
<1> QED BY <1>15, <1>16


\* Power fails, perhaps while a field is programmed.
LEMMA PairPowerOff ==
  ASSUME Inv, PowerOff PROVE Pairing'
<1> DEFINE h == Head(todo)
<1>1. /\ UNCHANGED pair \/ (todo # <<>> /\ pair' = [pair EXCEPT ![h] = Torn(@, buf[h])])
      /\ todo' = <<>> /\ buf' = NoBuf /\ pc' = "boot" /\ goal' = goal /\ want' = want
  BY DEF PowerOff, history
<1>2. TypeOK /\ Pairing BY DEF Inv
<1>3. InOrder /\ Sector /\ Loaded /\ Recoverable /\ Changes /\ Restores BY <1>2 DEF Pairing
<1>4. todo # <<>> => h \in Left /\ h \in Fields
  <2>1. todo # <<>> => Len(todo) \in Nat \ {0} /\ Head(todo) = todo[1] /\ todo[1] \in Fields
    BY <1>2, HeadTailProperties, EmptySeq DEF TypeOK
  <2> QED BY <2>1 DEF Left
<1> HIDE DEF h
<1>5. /\ DOMAIN pair' = Fields
      /\ \A f \in Fields :
           pair'[f] = pair[f] \/ (f = h /\ todo # <<>> /\ pair'[f] = Torn(pair[f], buf[f]))
  BY <1>1, <1>3 DEF Sector
<1>6. todo # <<>> => /\ buf["name"] \in Names \cup {Garbled} /\ buf["pwd"] \in Codes \cup {Garbled}
                     /\ buf["ltk"] = Valid /\ buf["flag"] = Valid
  BY <1>3 DEF Sector
<1>7. /\ pair["name"] \in Contents(Names) /\ pair["pwd"] \in Contents(Codes)
      /\ pair["ltk"] \in Contents({Valid}) /\ pair["flag"] \in Contents({Valid})
  BY <1>2 DEF Pairing
<1>8. /\ pair'["name"] \in Contents(Names) /\ pair'["pwd"] \in Contents(Codes)
      /\ pair'["ltk"] \in Contents({Valid}) /\ pair'["flag"] \in Contents({Valid})
  <2>1. \A f \in Fields :
          pair'[f] = pair[f] \/ (todo # <<>> /\ pair'[f] \in {buf[f], Part(buf[f]), Garbled})
    BY <1>5, ProgramFacts
  <2> QED BY <1>6, <1>7, <2>1, ContentFacts DEF Contents, Fields
\* The head stays invalid when something was still to be programmed.
<1>9. pair["flag"] \in {Erased, Part(Valid), Valid} /\ (todo # <<>> => pair["flag"] # Valid)
  BY <1>3 DEF Sector, InOrder
<1>10. /\ pair'["flag"] \in {Erased, Part(Valid), Valid}
       /\ pair'["flag"] = Valid <=> pair["flag"] = Valid
       /\ pair["flag"] = Valid => todo = <<>>
  BY <1>5, <1>6, <1>9, ProgramFacts, ContentFacts DEF Fields
<1>11. pair["flag"] = Valid => pair' = pair BY <1>1, <1>10
<1>12. InOrder'
  <2>1. Len(todo') = 0 BY <1>1, EmptySeq
  <2> QED BY <1>1, <2>1 DEF InOrder
<1>13. DOMAIN buf' = Fields /\ buf'["ltk"] = Valid /\ buf'["flag"] = Valid
  BY <1>1 DEF NoBuf, Fields
<1>14. Sector' BY <1>1, <1>3, <1>5, <1>10, <1>11, <1>13 DEF Sector
<1>15. Loaded' BY <1>1, <1>3, <1>10, <1>11 DEF Loaded, Decode
<1>16. Changes' /\ Restores' BY <1>1 DEF Changes, Restores
<1>17. Recoverable'
  <2> SUFFICES ASSUME pair["flag"] # Valid PROVE Recoverable'
    BY <1>10 DEF Recoverable
  <2>1. DefaultName \in want["name"] /\ DefaultPwd \in want["pwd"] BY <1>3 DEF Recoverable
  <2>2. "name" \in Fields /\ "pwd" \in Fields BY DEF Fields
  <2>3. pc \notin {"ready", "store", "undefined"} BY <1>3 DEF Loaded, PowerOff
  <2>4. ASSUME Garbled \notin want["name"]
        PROVE  pair'["name"] \in {Erased, DefaultName, Part(DefaultName)}
    <3>1. pair["name"] \in {Erased, DefaultName, Part(DefaultName)}
      BY <1>3, <2>4 DEF Recoverable
    <3>2. CASE todo = <<>> BY <1>5, <2>2, <3>1, <3>2
    <3>3. CASE todo # <<>>
      <4>1. buf["name"] = DefaultName
        <5>1. CASE pc = "boot" BY <1>3, <3>3, <5>1 DEF Restores, Factory, NoBuf, Fields
        <5>2. CASE pc \in {"pair", "kick"} BY <1>3, <2>4, <5>2 DEF Changes
        <5> QED BY <1>2, <2>3, <5>1, <5>2 DEF Pairing
      <4> QED BY <1>5, <2>2, <3>1, <4>1, ProgramFacts
    <3> QED BY <3>2, <3>3
  <2>5. ASSUME Garbled \notin want["pwd"]
        PROVE  pair'["pwd"] \in {Erased, Encode(DefaultPwd), Part(Encode(DefaultPwd))}
    <3>1. pair["pwd"] \in {Erased, Encode(DefaultPwd), Part(Encode(DefaultPwd))}
      BY <1>3, <2>5 DEF Recoverable
    <3>2. CASE todo = <<>> BY <1>5, <2>2, <3>1, <3>2
    <3>3. CASE todo # <<>>
      <4>1. buf["pwd"] = Encode(DefaultPwd)
        <5>1. CASE pc = "boot" BY <1>3, <3>3, <5>1 DEF Restores, Factory, NoBuf, Fields
        <5>2. CASE pc \in {"pair", "kick"} BY <1>3, <2>5, <5>2 DEF Changes
        <5> QED BY <1>2, <2>3, <5>1, <5>2 DEF Pairing
      <4> QED BY <1>5, <2>2, <3>1, <4>1, ProgramFacts
    <3> QED BY <3>2, <3>3
  <2> QED BY <1>1, <2>1, <2>4, <2>5 DEF Recoverable
<1>18. todo' \in Seq(Fields) BY <1>1, EmptySeq
<1> QED BY <1>1, <1>8, <1>12, <1>14, <1>15, <1>16, <1>17, <1>18 DEF Pairing

\* The defaults are taken, or the sector is erased for good.
LEMMA PairLoadDefaults ==
  ASSUME Inv, LoadDefaults PROVE Pairing'
<1>1. /\ pc = "boot" /\ todo = <<>> /\ pair["flag"] # Valid
      /\ todo' = <<"name", "pwd", "ltk", "flag">> /\ buf' = Factory
      /\ UNCHANGED <<pair, pc, goal, want>>
  BY DEF LoadDefaults, history
<1>2. Pairing BY DEF Inv
<1>3. /\ todo' \in Seq(Fields) /\ todo' # <<>>
      /\ \A i, j \in 1 .. Len(todo') : todo'[i] = todo'[j] => i = j
      /\ todo'[Len(todo')] = "flag"
      /\ Left' = Fields
  BY <1>1, ListFacts
<1>4. /\ DOMAIN Factory = Fields /\ Factory["ltk"] = Valid /\ Factory["flag"] = Valid
      /\ Factory["name"] \in Names /\ Factory["pwd"] \in Codes
  BY CodeFacts DEF Factory, NoBuf, Fields
<1>5. InOrder' BY <1>1, <1>3 DEF InOrder
<1>6. Sector' BY <1>1, <1>2, <1>4 DEF Pairing, Sector
<1>7. Loaded' /\ Changes' BY <1>1 DEF Loaded, Changes
<1>8. Restores' BY <1>1, <1>3 DEF Restores
<1>9. Recoverable' BY <1>1, <1>2 DEF Pairing, Recoverable
<1> QED BY <1>1, <1>2, <1>3, <1>5, <1>6, <1>7, <1>8, <1>9 DEF Pairing

LEMMA PairRestore ==
  ASSUME Inv, AtRestore PROVE Pairing'
<1>1. /\ pc = "ready" /\ pc' = "boot" /\ pair' = Blank /\ UNCHANGED <<todo, buf>>
      /\ want'["name"] = {DefaultName} /\ want'["pwd"] = {DefaultPwd}
  BY DEF AtRestore, FactoryWant, Kinds
<1>2. Pairing BY DEF Inv
<1>3. /\ DOMAIN pair' = Fields /\ \A f \in Fields : pair'[f] = Erased
      /\ pair'["name"] = Erased /\ pair'["pwd"] = Erased
      /\ pair'["ltk"] = Erased /\ pair'["flag"] = Erased
  BY <1>1 DEF Blank, Fields
<1>4. todo = <<>> /\ Erased # Valid BY <1>1, <1>2, ContentFacts DEF Pairing, InOrder
<1>5. InOrder' BY <1>1, <1>2, <1>4 DEF Pairing, InOrder
<1>6. Sector' BY <1>1, <1>2, <1>3, <1>4 DEF Pairing, Sector
<1>7. Loaded' /\ Recoverable' /\ Changes' /\ Restores'
  BY <1>1, <1>3, <1>4 DEF Loaded, Recoverable, Changes, Restores
<1> QED BY <1>1, <1>2, <1>3, <1>5, <1>6, <1>7 DEF Pairing, Contents

\* Memory is overwritten: flash is not.
LEMMA PairOverrun ==
  ASSUME Inv, Overrun PROVE Pairing'
<1>1. /\ pc' = "undefined" /\ todo = <<>> /\ UNCHANGED <<pair, todo, buf, want>>
  BY DEF Overrun, history
<1>2. Pairing BY DEF Inv
<1>3. InOrder' /\ Sector' BY <1>1, <1>2 DEF Pairing, InOrder, Sector
<1>4. Loaded' /\ Recoverable' BY <1>1, <1>2 DEF Pairing, Loaded, Recoverable, Decode
<1>5. Changes' /\ Restores' BY <1>1 DEF Changes, Restores
<1> QED BY <1>1, <1>2, <1>3, <1>4, <1>5 DEF Pairing

LEMMA PairUserInit ==
  ASSUME Inv, UserInit PROVE Pairing'
<1>1. /\ pc = "boot" /\ pc' = "ready" /\ todo = <<>> /\ pair["flag"] = Valid
      /\ UNCHANGED <<pair, todo, buf>>
      /\ goal' = [name |-> pair["name"], pwd |-> Decode(pair["pwd"])]
  BY DEF UserInit
<1>2. Pairing /\ DOMAIN want = Kinds BY DEF Inv, TypeOK
<1>3. want'["name"] = {goal'.name} /\ want'["pwd"] = {goal'.pwd}
  BY <1>2 DEF UserInit, Kinds
<1>4. InOrder' /\ Sector' BY <1>1, <1>2 DEF Pairing, InOrder, Sector
<1>5. Decode(pair["pwd"])' = Decode(pair["pwd"]) BY <1>1 DEF Decode
<1>6. Loaded' BY <1>1, <1>3, <1>5 DEF Loaded
<1>7. Recoverable' /\ Changes' /\ Restores' BY <1>1 DEF Recoverable, Changes, Restores
<1> QED BY <1>1, <1>2, <1>4, <1>6, <1>7 DEF Pairing


\* A sector that is in force holds names and passwords, not parts of them.
LEMMA PairReady ==
  ASSUME Inv, pc = "ready"
  PROVE  /\ pair["name"] \in Names \cup {Garbled} /\ pair["pwd"] \in Codes \cup {Garbled}
         /\ goal = [name |-> pair["name"], pwd |-> Decode(pair["pwd"])]
         /\ pair["name"] \in want["name"] /\ Decode(pair["pwd"]) \in want["pwd"]
         /\ DOMAIN want = Kinds
<1>1. Pairing /\ DOMAIN want = Kinds BY DEF Inv, TypeOK
<1>2. pair["flag"] = Valid /\ goal = [name |-> pair["name"], pwd |-> Decode(pair["pwd"])]
  BY <1>1 DEF Pairing, Loaded
<1>3. pair["name"] \in want["name"] /\ Decode(pair["pwd"]) \in want["pwd"]
  BY <1>1, <1>2 DEF Pairing, Loaded
<1>4. pair["name"] \notin {Erased} \cup Parts /\ pair["pwd"] \notin {Erased} \cup Parts
  BY <1>1, <1>2 DEF Pairing, Sector, Fields
<1>5. pair["name"] \in Contents(Names) /\ pair["pwd"] \in Contents(Codes) BY <1>1 DEF Pairing
<1>6. (\A v \in Names : Part(v) \in Parts) /\ (\A v \in Codes : Part(v) \in Parts) BY DEF Parts
<1> QED BY <1>1, <1>2, <1>3, <1>4, <1>5, <1>6 DEF Contents

LEMMA NextPair ==
  ASSUME Inv, [Next]_vars PROVE Pairing'
<1>1. Pairing /\ DOMAIN want = Kinds BY DEF Inv, TypeOK
<1>2. ASSUME NEW k, NEW v, StoreValue(k, v)
      PROVE  pc = "ready" /\ pc' = "store" /\ UNCHANGED <<pair, todo, buf, goal>>
  BY <1>2 DEF StoreValue
<1>3. ASSUME NEW a, AtAddr(a) PROVE Pairing'
  <2>1. StoreValue(KeyAddr, a) /\ want'["name"] = want["name"] /\ want'["pwd"] = want["pwd"]
    BY <1>1, <1>3 DEF AtAddr, Storing, Kinds
  <2> QED BY <1>1, <1>2, <2>1, PairSame
<1>4. ASSUME NEW f, AtAdv(f) PROVE Pairing'
  <2>1. StoreValue(KeyAdv, f) /\ want'["name"] = want["name"] /\ want'["pwd"] = want["pwd"]
    BY <1>1, <1>4 DEF AtAdv, Storing, Kinds
  <2> QED BY <1>1, <1>2, <2>1, PairSame
<1>5. ASSUME NEW t, AtTtl(t) PROVE Pairing'
  <2>1. StoreValue(KeyTtl, t) /\ want'["name"] = want["name"] /\ want'["pwd"] = want["pwd"]
    BY <1>1, <1>5 DEF AtTtl, StoringBoth, Storing, Kinds
  <2> QED BY <1>1, <1>2, <2>1, PairSame
<1>6. ASSUME NEW n, AtName(n) PROVE Pairing'
  <2>1. StoreValue(KeyName, n) /\ want'["name"] = want["name"] /\ want'["pwd"] = want["pwd"]
    BY <1>1, <1>6 DEF AtName, StoringBoth, Storing, Kinds
  <2> QED BY <1>1, <1>2, <2>1, PairSame
<1>7. CASE Discard \/ StorePart
  <2>1. pc' = pc /\ UNCHANGED <<pair, todo, buf, goal, want>>
    BY <1>7 DEF Discard, StorePart, history
  <2> QED BY <1>1, <2>1, PairSame
<1>8. CASE Stored
  <2>1. pc = "store" /\ pc' = "ready" /\ UNCHANGED <<pair, todo, buf, goal>> BY <1>8 DEF Stored
  <2>2. want'["name"] = want["name"] /\ want'["pwd"] = want["pwd"]
    BY <1>1, <1>8 DEF Stored, Acked, Kinds
  <2> QED BY <1>1, <2>1, <2>2, PairSame
<1>9. ASSUME NEW n \in MeshNames, AtMeshName(n) PROVE Pairing'
  <2> DEFINE e == pair["pwd"]
  <2>1. /\ pc = "ready" /\ pc' = "pair" /\ pair' = Blank
        /\ todo' = <<"pwd", "ltk", "name", "flag">>
        /\ buf' = [NoBuf EXCEPT !["name"] = n, !["pwd"] = e]
        /\ goal' = [goal EXCEPT !.name = n]
    BY <1>9 DEF AtMeshName, WrittenBack
  <2>2. /\ e \in Codes \cup {Garbled} /\ n \in Names
        /\ goal = [name |-> pair["name"], pwd |-> Decode(e)] /\ Decode(e) \in want["pwd"]
    BY <2>1, PairReady, CodeFacts
  <2>3. /\ want'["name"] = want["name"] \cup {n, DefaultName, Garbled}
        /\ want'["pwd"] = want["pwd"] \cup {DefaultPwd, Garbled}
    BY <1>1, <1>9 DEF AtMeshName, Changing, Kinds
  <2>4. goal' = [name |-> n, pwd |-> Decode(e)] BY <2>1, <2>2
  <2> HIDE DEF e
  <2>5. {n, DefaultName} \subseteq want'["name"] /\ {Decode(e), DefaultPwd} \subseteq want'["pwd"]
        /\ Garbled \in want'["name"] /\ Garbled \in want'["pwd"]
    BY <2>2, <2>3
  <2> QED BY <2>1, <2>2, <2>4, <2>5, PairRewritten
<1>10. ASSUME NEW p \in MeshPwds, AtMeshPwd(p) PROVE Pairing'
  <2> DEFINE n == pair["name"]
  <2>1. /\ pc = "ready" /\ pc' = "pair" /\ pair' = Blank
        /\ todo' = <<"name", "ltk", "pwd", "flag">>
        /\ buf' = [NoBuf EXCEPT !["name"] = n, !["pwd"] = Encode(p)]
        /\ goal' = [goal EXCEPT !.pwd = p]
    BY <1>10 DEF AtMeshPwd, RestOfSector
  <2>2. /\ n \in Names \cup {Garbled} /\ Encode(p) \in Codes /\ Decode(Encode(p)) = p
        /\ goal = [name |-> n, pwd |-> Decode(pair["pwd"])] /\ n \in want["name"]
    BY <2>1, PairReady, CodeFacts
  <2>3. /\ want'["pwd"] = want["pwd"] \cup {p, DefaultPwd, Garbled}
        /\ want'["name"] = want["name"] \cup {DefaultName, Garbled}
    BY <1>1, <1>10 DEF AtMeshPwd, Changing, Kinds
  <2>4. goal' = [name |-> n, pwd |-> Decode(Encode(p))] BY <2>1, <2>2
  <2> HIDE DEF n
  <2>5. {n, DefaultName} \subseteq want'["name"] /\ {Decode(Encode(p)), DefaultPwd} \subseteq want'["pwd"]
        /\ Garbled \in want'["name"] /\ Garbled \in want'["pwd"]
    BY <2>2, <2>3
  <2> QED BY <2>1, <2>2, <2>4, <2>5, PairRewritten
<1>11. CASE KickOut
  <2>1. /\ pc' = "kick" /\ pair' = Blank
        /\ todo' = <<"ltk", "pwd", "name", "flag">>
        /\ buf' = [Factory EXCEPT !["name"] = OutOfMesh]
        /\ goal' = [FactoryNet EXCEPT !.name = OutOfMesh]
        /\ want' = [FactoryWant EXCEPT !["name"] = {DefaultName, OutOfMesh, Garbled}]
    BY <1>11 DEF KickOut
  <2>2. buf' = [NoBuf EXCEPT !["name"] = OutOfMesh, !["pwd"] = Encode(DefaultPwd)]
    BY <2>1 DEF Factory, NoBuf, Fields
  <2>3. /\ want'["name"] = {DefaultName, OutOfMesh, Garbled} /\ want'["pwd"] = {DefaultPwd}
    BY <2>1 DEF FactoryWant, Kinds
  <2>4. goal' = [name |-> OutOfMesh, pwd |-> Decode(Encode(DefaultPwd))]
    BY <2>1, CodeFacts DEF FactoryNet
  <2> QED BY <2>1, <2>2, <2>3, <2>4, CodeFacts, PairRewritten
<1>12. CASE UNCHANGED vars \/ Undefined
  <2>1. UNCHANGED <<pair, todo, buf, goal, pc, want>> BY <1>12 DEF Undefined, vars, history
  <2> QED BY <1>1, <2>1, PairSame
<1> QED
  BY <1>3, <1>4, <1>5, <1>6, <1>7, <1>8, <1>9, <1>10, <1>11, <1>12, PairProgram, PairPowerOff,
           PairLoadDefaults, PairRestore, PairOverrun, PairUserInit DEF Next

-----------------------------------------------------------------------------
(* The theorems.                                                           *)

LEMMA NextType ==
  ASSUME Inv, [Next]_vars PROVE TypeOK'
<1>1. TypeOK /\ StoreKept /\ InOrder BY DEF Inv, Pairing
<1>2. dict' \in [{KeyAdv, KeyAddr, KeyName} -> KVals \cup {None, Damaged}] BY <1>1, NextStore
<1>3. Pairing' BY NextPair
<1>4. DOMAIN want' = Kinds
  <2>1. DOMAIN want = Kinds BY <1>1 DEF TypeOK
  <2>2. DOMAIN FactoryWant = Kinds BY DEF FactoryWant
  <2> QED BY <2>1, <2>2 DEF Next, LoadDefaults, UserInit, AtAddr, AtAdv, AtTtl, AtName, Storing,
             StoringBoth, Overrun, Undefined, Discard, StorePart, Stored, Acked, AtMeshName, AtMeshPwd, Changing, Program, AtRestore, KickOut,
             PowerOff, vars, history
<1>5. CASE UserInit
  <2>1. /\ g_ttl' = TtlOf(dict[KeyTtl]) /\ adv_name' = dict[KeyName]
        /\ send_adv_flag' = IF dict[KeyAdv] = 0 THEN 0 ELSE 1
        /\ device_address' = IF dict[KeyAddr] = None THEN MacAddr ELSE dict[KeyAddr]
    BY <1>5 DEF UserInit
  <2>2. /\ dict[KeyAddr] \in Addrs \cup {None, Damaged} /\ dict[KeyName] \in KVals \cup {None, Damaged}
    BY <1>1 DEF StoreKept, TypeOK
  <2>3. g_ttl' \in Nat /\ send_adv_flag' \in Flags BY <2>1 DEF TtlOf, Flags
  <2>4. device_address' \in Addrs \cup {MacAddr, Damaged} /\ adv_name' \in KVals \cup {None, Damaged}
    BY <2>1, <2>2
  <2> QED BY <1>2, <1>3, <1>4, <2>3, <2>4 DEF Pairing, TypeOK
<1>6. CASE ~UserInit
  <2>1. /\ device_address' \in Addrs \cup {device_address}
        /\ g_ttl' \in Ttls \cup {g_ttl} /\ send_adv_flag' \in Flags \cup {send_adv_flag}
        /\ adv_name' = adv_name
    BY <1>6 DEF Next, LoadDefaults, AtAddr, AtAdv, AtTtl, AtName,
       Overrun, Undefined, Discard, StorePart, Stored, AtMeshName, AtMeshPwd, Program, AtRestore, KickOut,
       PowerOff, vars, ram
  <2>2. /\ device_address' \in Addrs \cup {MacAddr, Damaged} /\ g_ttl' \in Nat
        /\ send_adv_flag' \in Flags /\ adv_name' \in KVals \cup {None, Damaged}
    BY <1>1, <2>1, SettingsAssumption DEF TypeOK
  <2> QED BY <1>2, <1>3, <1>4, <2>2 DEF Pairing, TypeOK
<1> QED BY <1>5, <1>6

LEMMA InitInv == Init => Inv
<1> SUFFICES ASSUME Init PROVE Inv
  OBVIOUS
<1>1. /\ dict = [k \in {KeyAdv, KeyAddr, KeyName} |-> None]
      /\ pair = Blank /\ todo = <<>> /\ buf = NoBuf /\ pc = "boot"
      /\ device_address = MacAddr /\ g_ttl = 3 /\ send_adv_flag = 1
      /\ adv_name = None /\ want = FactoryWant
  BY DEF Init, Store!KVInit
<1>2. /\ DOMAIN want = Kinds /\ want["adv"] = {1} /\ want["addr"] = {MacAddr}
      /\ want["ttl and name"] = {Both(None)}
      /\ want["name"] = {DefaultName} /\ want["pwd"] = {DefaultPwd}
  BY <1>1 DEF FactoryWant, Kinds
<1>3. /\ dict[KeyAdv] = None /\ dict[KeyAddr] = None /\ dict[KeyTtl] = None
  BY <1>1, KeyFacts
<1>4. /\ DOMAIN pair = Fields /\ \A f \in Fields : pair[f] = Erased
      /\ pair["name"] = Erased /\ pair["pwd"] = Erased
      /\ pair["ltk"] = Erased /\ pair["flag"] = Erased
  BY <1>1 DEF Blank, Fields
<1>5. /\ DOMAIN buf = Fields /\ buf["ltk"] = Valid /\ buf["flag"] = Valid
  BY <1>1 DEF NoBuf, Fields
<1>6. Erased # Valid /\ todo \in Seq(Fields) /\ Len(todo) = 0 BY <1>1, ContentFacts, EmptySeq
<1>7. StoreKept BY <1>1, <1>2, <1>3, ValueFacts DEF StoreKept
<1>8. InOrder BY <1>1, <1>6 DEF InOrder
<1>9. Sector BY <1>1, <1>4, <1>5, <1>6 DEF Sector
<1>10. Loaded /\ Recoverable /\ Changes /\ Restores
  BY <1>1, <1>2, <1>4, <1>6 DEF Loaded, Recoverable, Changes, Restores
<1>11. Pairing BY <1>1, <1>4, <1>6, <1>8, <1>9, <1>10 DEF Pairing, Contents
<1>12. dict \in [{KeyAdv, KeyAddr, KeyName} -> KVals \cup {None, Damaged}] BY <1>1
<1>13. TypeOK BY <1>1, <1>2, <1>11, <1>12 DEF TypeOK, Pairing, Flags
<1> QED BY <1>7, <1>11, <1>13 DEF Inv

\* The inductive invariant Inv: what is in flash, or will be when the write under
\* way is done or interrupted, is what may be wanted.
THEOREM SettingsInvariant == Spec => []Inv
<1>1. Inv /\ [Next]_vars => Inv'
  <2> SUFFICES ASSUME Inv, [Next]_vars PROVE Inv'
    OBVIOUS
  <2>1. StoreKept' BY NextStore DEF Inv, Pairing
  <2> QED BY <2>1, NextPair, NextType DEF Inv
<1> QED BY <1>1, InitInv, PTL DEF Spec

\* The type invariant: every field of the pairing sector and every stored value
\* is of its kind, wherever power fails.
THEOREM TypeCorrect == Spec => []TypeOK
<1>1. Inv => TypeOK BY DEF Inv
<1> QED BY <1>1, SettingsInvariant, PTL

\* A sector with a valid head has no field that set_mesh_name, set_mesh_pwd,
\* kick_out or the library has left out or programmed in part.
THEOREM HeadAlwaysVouches == Spec => []HeadVouches
<1>1. Inv => HeadVouches BY DEF Inv, Pairing, Sector, HeadVouches
<1> QED BY <1>1, SettingsInvariant, PTL

\* What user_init and the library load at power-on is what was last set, of the
\* TTL and the device name the later one; and only a device name or a write cut
\* short is copied over other memory.
THEOREM PowerOnRestores == Spec => SettingsKept
<1> DEFINE Restored ==
             /\ send_adv_flag' \in want["adv"]
             /\ device_address' \in want["addr"]
             /\ <<g_ttl', adv_name'>> \in want["ttl and name"]
             /\ net'.name \in want["name"] /\ net'.pwd \in want["pwd"]
           Known ==
             \/ Damaged \in want["adv"] \cup want["addr"]
             \/ \E v \in DevNames \cup {Damaged} : <<3, v>> \in want["ttl and name"]
<1>1. Inv /\ [Next]_vars => (pc = "boot" /\ pc' = "ready" => Restored)
  <2> SUFFICES ASSUME Inv, [Next]_vars, pc = "boot", pc' = "ready" PROVE Restored
    OBVIOUS
  <2>1. UserInit
    BY DEF Next, LoadDefaults, AtAddr, AtAdv, AtTtl, AtName, StoreValue, Overrun, Undefined,
       Discard, StorePart, Stored, AtMeshName, AtMeshPwd, Program, AtRestore, KickOut, PowerOff,
       vars
  <2>2. /\ pair["flag"] = Valid /\ send_adv_flag' = AdvOf(dict[KeyAdv])
        /\ device_address' = AddrOf(dict[KeyAddr])
        /\ <<g_ttl', adv_name'>> = Both(dict[KeyTtl])
        /\ net' = [name |-> pair["name"], pwd |-> Decode(pair["pwd"])]
    BY <2>1, KeyFacts DEF UserInit, AdvOf, AddrOf, Both
  <2>3. StoreKept /\ Loaded BY DEF Inv, Pairing
  <2> QED BY <2>2, <2>3 DEF StoreKept, Loaded
<1>2. Inv /\ [Next]_vars => (pc = "boot" /\ pc' = "undefined" => Known)
  <2> SUFFICES ASSUME Inv, [Next]_vars, pc = "boot", pc' = "undefined" PROVE Known
    OBVIOUS
  <2>1. Overrun
    BY DEF Next, LoadDefaults, AtAddr, AtAdv, AtTtl, AtName, StoreValue, UserInit, Undefined,
       Discard, StorePart, Stored, AtMeshName, AtMeshPwd, Program, AtRestore, KickOut, PowerOff,
       vars
  <2>2. PICK k \in {KeyAdv, KeyAddr, KeyName} : TooLongToRead(k) BY <2>1 DEF Overrun
  <2>3. StoreKept BY DEF Inv
  <2>4. CASE k = KeyAdv
    BY <2>2, <2>3, <2>4, KeyFacts DEF TooLongToRead, StoreKept
  <2>5. CASE k = KeyAddr
    <3>1. dict[KeyAddr] = Damaged BY <2>2, <2>5, KeyFacts DEF TooLongToRead
    <3> QED BY <2>3, <3>1, ValueFacts DEF StoreKept
  <2>6. CASE k = KeyName
    <3>1. dict[KeyTtl] \in DevNames \cup {Damaged} BY <2>2, <2>6, KeyFacts DEF TooLongToRead
    <3>2. Both(dict[KeyTtl]) = <<3, dict[KeyTtl]>> BY <3>1, ValueFacts DEF Both
    <3> QED BY <2>3, <3>1, <3>2 DEF StoreKept
  <2> QED BY <2>2, <2>4, <2>5, <2>6
<1>3. Inv /\ [Next]_vars =>
        [pc = "boot" => (pc' = "ready" => Restored) /\ (pc' = "undefined" => Known)]_vars
  BY <1>1, <1>2
<1> QED BY <1>3, SettingsInvariant, PTL DEF Spec, SettingsKept
=============================================================================
