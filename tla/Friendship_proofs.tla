-------------------------- MODULE Friendship_proofs --------------------------
(***************************************************************************)
(* Proofs about Friendship, for every number of friend nodes, low-power    *)
(* nodes, messages, slots, polls and restarts, and for every loss of       *)
(* packets.                                                                *)
(*                                                                         *)
(* What a friend node knows of a low-power node is only what its packets   *)
(* tell, so the invariant relates, for each low-power node l, three things *)
(* that change at different moments: what l waits for, the packets of l on *)
(* their way, and the slots that the friend nodes have for l.              *)
(***************************************************************************)
EXTENDS Friendship, FiniteSetTheorems, SequenceTheorems, TLAPS

\* An LPN counts polls without an answer only while it polls its friend node.
Polls(l) ==
  /\ lpn[l].st \in {"request", "offer"} => lpn[l].cnt = 0
  /\ lpn[l].st = "poll" => lpn[l].cnt < RetryMax
  /\ lpn[l].st \in {"poll", "update"} => lpn[l].fn \in Fn
  /\ lpn[l].updated => lpn[l].st = "update" /\ lpn[l].cnt = 0
  /\ lpn[l].st = "update" => ~lpn[l].offered

\* The packets of l on their way belong to its search, or are the one packet of
\* its latest poll: the POLL itself or the answer to it.
Search(l, p) ==
  /\ p.kind \in {"request", "offer"}
  /\ lpn[l].st = "offer" \/ (lpn[l].st = "poll" /\ lpn[l].offered)
  /\ p.kind = "offer" => slot[p.fn][l] = Idle \/ slot[p.fn][l].st = "offer"
Exchange(l, p) ==
  /\ p.kind \in {"poll", "update", "cached"}
  /\ lpn[l].st = "update" /\ ~lpn[l].updated /\ p.fn = lpn[l].fn
  /\ p.kind # "cached" => p.type = lpn[l].type
  /\ p.kind = "poll" => p.fsn = lpn[l].fsn
  /\ \A q \in air : q.lpn = l => q = p
OnTheWay(l) == \A p \in air : p.lpn = l => Search(l, p) \/ Exchange(l, p)

\* An answer on its way agrees with the slot it was made from, unless a newer
\* message has come or the slot was cleared.
Answers(l) ==
  \A p \in air : p.lpn = l =>
    /\ p.kind = "cached" => p.pkt \in Msgs \ (got[l] \cup unsent)
    /\ slot[p.fn][l] # Idle =>
         /\ p.kind = "update" => /\ slot[p.fn][l].flag # "tx2lpn"
                                 /\ p.type = "group" => slot[p.fn][l].groups = Reported(l)
         /\ p.kind = "cached" =>
              \/ /\ slot[p.fn][l].flag = "tx2lpn" /\ slot[p.fn][l].pkt = p.pkt
                 /\ slot[p.fn][l].fsn = lpn[l].fsn
              \/ slot[p.fn][l].flag = "rx" /\ slot[p.fn][l].pkt # p.pkt

\* What a slot keeps is a message the mesh has sent; if l is linked to it, l has
\* the message exactly if it was sent to l and l has flipped its bit since.
Kept(l) ==
  /\ got[l] \cap unsent = {}
  /\ \A f \in Fn : slot[f][l] # Idle =>
       /\ slot[f][l].st = "offer" => slot[f][l].flag = "none"
       /\ slot[f][l].flag # "none" => slot[f][l].pkt \in Msgs \ unsent
       /\ Session(f, l) =>
            /\ slot[f][l].flag = "rx" => slot[f][l].pkt \notin got[l]
            /\ slot[f][l].flag = "tx2lpn" =>
                 (slot[f][l].fsn = lpn[l].fsn <=> slot[f][l].pkt \notin got[l])

\* GroupsKnown for one LPN.
Known(l) ==
  \A f \in Fn :
    Session(f, l) /\ ~lpn[l].offered /\ lpn[l].type = "online"
      => slot[f][l] = Idle \/ slot[f][l].groups = Reported(l)

Good(l) == Polls(l) /\ OnTheWay(l) /\ Answers(l) /\ Kept(l) /\ Known(l)

\* A slot that was found silent is somebody's, and an LPN that has taken the
\* slot that is half cleared has state in it until the rest is cleared.
Clearing ==
  \A f \in Fn :
    /\ clearing[f] = "found" => expired[f] \in Lpn
    /\ clearing[f] = "half" /\ expired[f] # None => slot[f][expired[f]] # Idle

LInv == TypeOK /\ Clearing /\ \A l \in Lpn : Good(l)

-----------------------------------------------------------------------------
\* A slot for an LPN is a record of its own kind, not the idle one.
LEMMA FreshType == Fresh \in SlotType /\ Fresh # Idle /\ Fresh.st = "offer" /\ Fresh.flag = "none"
BY DEF Fresh, SlotType, Idle, PollTypes

LEMMA SlotOf ==
  ASSUME TypeOK, NEW f \in Fn, NEW l \in Lpn
  PROVE  slot[f][l] # Idle <=> slot[f][l] \in SlotType
BY DEF TypeOK, SlotType, Idle

\* An LPN after its initialisation.
LEMMA SearchingType == Searching \in LpnType
BY FriendshipAssumption DEF Searching, LpnType, PollTypes

\* The groups of a POLL are group addresses.
LEMMA ReportedGroups ==
  ASSUME NEW l \in Lpn
  PROVE  Reported(l) \in SUBSET Groups
<1>1. GroupList[l] \in Seq(Groups) BY FriendshipAssumption
<1>2. ASSUME NEW i \in 1 .. Len(GroupList[l]) PROVE GroupList[l][i] \in Groups
  BY <1>1, ElementOfSeq
<1> QED BY <1>2 DEF Reported

\* No slot gets an address by a step that only clears slots.
LEMMA FewerSlots ==
  ASSUME TypeOK, NEW f \in Fn, Taken(f)' \subseteq Taken(f)
  PROVE  Cardinality(Taken(f)') <= SlotMax
<1>1. Taken(f) \subseteq Lpn /\ Cardinality(Taken(f)) <= SlotMax BY DEF TypeOK, Taken
<1> DEFINE old == Taken(f)
           new == Taken(f)'
<1> HIDE DEF old, new
<1>2. IsFiniteSet(old) /\ Cardinality(old) <= SlotMax /\ new \subseteq old
  BY <1>1, FriendshipAssumption, FS_Subset DEF old, new
<1>3. IsFiniteSet(new) /\ Cardinality(new) <= Cardinality(old) BY <1>2, FS_Subset
<1>4. Cardinality(new) \in Nat /\ Cardinality(old) \in Nat BY <1>2, <1>3, FS_CardinalityType
<1>5. Cardinality(new) <= SlotMax BY <1>2, <1>3, <1>4, FriendshipAssumption
<1> QED BY <1>5 DEF new

\* A slot taken when there is a free one.
LEMMA OneMoreSlot ==
  ASSUME TypeOK, NEW f \in Fn, NEW k \in Lpn, k \in Taken(f) \/ Free(f),
         Taken(f)' \subseteq Taken(f) \cup {k}
  PROVE  Cardinality(Taken(f)') <= SlotMax
<1>1. CASE k \in Taken(f)
  <2>1. Taken(f)' \subseteq Taken(f) BY <1>1
  <2> QED BY <2>1, FewerSlots
<1>2. CASE k \notin Taken(f)
  <2>1. Taken(f) \subseteq Lpn /\ Cardinality(Taken(f)) < SlotMax
    BY <1>2 DEF TypeOK, Taken, Free
  <2> DEFINE old == Taken(f)
             new == Taken(f)'
             more == old \cup {k}
  <2> HIDE DEF old, new
  <2>2. IsFiniteSet(old) /\ Cardinality(old) < SlotMax /\ k \notin old /\ new \subseteq more
    BY <1>2, <2>1, FriendshipAssumption, FS_Subset DEF old, new
  <2>3. IsFiniteSet(more) /\ Cardinality(more) = Cardinality(old) + 1
    BY <2>2, FS_AddElement
  <2> HIDE DEF more
  <2>4. IsFiniteSet(new) /\ Cardinality(new) <= Cardinality(more) BY <2>2, <2>3, FS_Subset
  <2>5. Cardinality(new) \in Nat /\ Cardinality(old) \in Nat
    BY <2>2, <2>4, FS_CardinalityType
  <2>6. Cardinality(new) <= SlotMax BY <2>2, <2>3, <2>4, <2>5, FriendshipAssumption
  <2> QED BY <2>6 DEF new
<1> QED BY <1>1, <1>2

\* What a step does to others leaves an LPN as it was; so does the loss of
\* packets of it and of slots for it.
LEMMA Untouched ==
  ASSUME TypeOK, NEW l \in Lpn, Good(l),
         lpn'[l] = lpn[l], got'[l] = got[l], unsent' = unsent,
         \A f \in Fn : slot'[f][l] = slot[f][l] \/ slot'[f][l] = Idle,
         \A p \in air' : p.lpn = l => p \in air
  PROVE  Good(l)'
<1>0. \A p \in air : p.fn \in Fn BY DEF TypeOK, PacketType
<1>1. Polls(l)' BY DEF Good, Polls
<1>2. OnTheWay(l)'
  <2> SUFFICES ASSUME NEW p \in air', p.lpn = l PROVE Search(l, p)' \/ Exchange(l, p)'
    BY DEF OnTheWay
  <2>1. p \in air /\ p.fn \in Fn BY <1>0
  <2>2. CASE Search(l, p) BY <2>1, <2>2 DEF Search
  <2>3. CASE Exchange(l, p) BY <2>1, <2>3 DEF Exchange
  <2> QED BY <2>1, <2>2, <2>3 DEF Good, OnTheWay
<1>3. Answers(l)'
  <2> SUFFICES ASSUME NEW p \in air', p.lpn = l
               PROVE  /\ p.kind = "cached" => p.pkt \in Msgs \ (got'[l] \cup unsent')
                      /\ slot'[p.fn][l] # Idle =>
                           /\ p.kind = "update" => /\ slot'[p.fn][l].flag # "tx2lpn"
                                                   /\ p.type = "group" => slot'[p.fn][l].groups = Reported(l)
                           /\ p.kind = "cached" =>
                                \/ /\ slot'[p.fn][l].flag = "tx2lpn" /\ slot'[p.fn][l].pkt = p.pkt
                                   /\ slot'[p.fn][l].fsn = lpn'[l].fsn
                                \/ slot'[p.fn][l].flag = "rx" /\ slot'[p.fn][l].pkt # p.pkt
    BY DEF Answers
  <2>1. p \in air /\ p.fn \in Fn BY <1>0
  <2> QED BY <2>1 DEF Good, Answers
<1>4. Kept(l)' BY DEF Good, Kept, Session
<1>5. Known(l)' BY DEF Good, Known, Session
<1> QED BY <1>1, <1>2, <1>3, <1>4, <1>5 DEF Good

LEMMA InitLInv == Init => LInv
<1> SUFFICES ASSUME Init PROVE LInv
  OBVIOUS
<1> USE FriendshipAssumption DEF Init
<1>1. lpn \in [Lpn -> LpnType] /\ slot \in [Fn -> [Lpn -> SlotType \cup {Idle}]]
  BY SearchingType
<1>2. ASSUME NEW f \in Fn PROVE Cardinality(Taken(f)) <= SlotMax
  <2>1. Taken(f) = {} BY DEF Taken
  <2>2. Cardinality({}) = 0 BY FS_EmptySet
  <2> QED BY <2>1, <2>2
<1>3. TypeOK BY <1>1, <1>2 DEF TypeOK
<1>a. Clearing BY DEF Clearing
<1>4. ASSUME NEW l \in Lpn PROVE Good(l)
  <2>1. lpn[l] = Searching OBVIOUS
  <2>2. Polls(l) BY <2>1, Zenon DEF Polls, Searching
  <2> QED BY <2>1, <2>2 DEF Good, OnTheWay, Answers, Kept, Known, Session, Searching
<1> QED BY <1>3, <1>a, <1>4 DEF LInv

\* A step of one LPN, or of a friend node for it, is no concern of the others.
LEMMA Others ==
  ASSUME LInv, NEW l \in Lpn, Good(l)', unsent' = unsent,
         \A k \in Lpn : k # l => /\ lpn'[k] = lpn[k] /\ got'[k] = got[k]
                                 /\ \A f \in Fn : slot'[f][k] = slot[f][k],
         \A p \in air' : p.lpn # l => p \in air
  PROVE  \A k \in Lpn : Good(k)'
<1> SUFFICES ASSUME NEW k \in Lpn, k # l PROVE Good(k)'
  OBVIOUS
<1> QED BY Untouched DEF LInv

-----------------------------------------------------------------------------
(* The steps of an LPN.                                                    *)

LEMMA NextRequest ==
  ASSUME LInv, NEW l \in Lpn, Request(l)
  PROVE  LInv'
<1> USE FriendshipAssumption
<1> DEFINE new == {Packet("request", l, f, 0, "online", None) : f \in Fn}
           y == [lpn[l] EXCEPT !.st = "offer"]
<1>0. TypeOK /\ Good(l) BY DEF LInv
<1>1. /\ lpn[l].st = "request" /\ lpn' = [lpn EXCEPT ![l] = y] /\ air' = air \cup new
      /\ UNCHANGED <<slot, clearing, expired, orphan, unsent, restarts, got>>
  BY DEF Request, fnProc
<1>2. /\ lpn'[l] = y /\ \A k \in Lpn : k # l => lpn'[k] = lpn[k]
      /\ y \in LpnType /\ y.st = "offer"
      /\ y.cnt = lpn[l].cnt /\ y.updated = lpn[l].updated
  <2>1. lpn[l] \in LpnType BY <1>0 DEF TypeOK
  <2>2. /\ y \in LpnType /\ y.st = "offer"
        /\ y.cnt = lpn[l].cnt /\ y.updated = lpn[l].updated
    BY <2>1 DEF LpnType
  <2> HIDE DEF y
  <2> QED BY <1>0, <1>1, <2>2 DEF TypeOK
<1>3. \A p \in new : p \in PacketType /\ p.lpn = l /\ p.kind = "request"
  BY DEF Packet, PacketType, PollTypes
<1> HIDE DEF new, y
<1>4. TypeOK' BY <1>0, <1>1, <1>2, <1>3 DEF TypeOK, Taken
<1>5. Good(l)'
  <2>1. \A p \in air' : p.lpn = l => p.kind = "request"
    BY <1>0, <1>1, <1>3 DEF Good, OnTheWay, Search, Exchange
  <2>2. Polls(l)' BY <1>0, <1>1, <1>2 DEF Good, Polls
  <2>3. OnTheWay(l)' BY <1>2, <2>1 DEF OnTheWay, Search
  <2>4. Answers(l)' BY <2>1 DEF Answers
  <2>6. Kept(l)' BY <1>0, <1>1, <1>2 DEF Good, Kept, Session
  <2>7. Known(l)' BY <1>2 DEF Known, Session
  <2> QED BY <2>2, <2>3, <2>4, <2>6, <2>7 DEF Good
<1> QED BY <1>1, <1>2, <1>3, <1>4, <1>5, Others DEF LInv, Clearing

\* When the LPN goes back to its search, or starts again, nothing is left of the
\* old one on the air.
LEMMA Restarted ==
  ASSUME LInv, NEW l \in Lpn, NEW y \in LpnType, lpn' = [lpn EXCEPT ![l] = y],
         y.st = "request", y.cnt = 0, ~y.updated,
         air' = Elsewhere(l), UNCHANGED <<slot, clearing, expired, orphan, unsent, got>>,
         restarts' \in 0 .. Restarts
  PROVE  LInv'
<1>0. TypeOK /\ Good(l) BY DEF LInv
<1>1. lpn'[l] = y /\ \A k \in Lpn : k # l => lpn'[k] = lpn[k] BY <1>0 DEF TypeOK
<1>2. \A p \in air' : p \in air /\ p.lpn # l BY DEF Elsewhere
<1>3. TypeOK' BY <1>0, <1>2 DEF TypeOK, Taken
<1>4. Good(l)'
  <2>1. Polls(l)' BY <1>1, FriendshipAssumption DEF Polls
  <2>2. OnTheWay(l)' /\ Answers(l)' BY <1>2 DEF OnTheWay, Answers
  <2>3. Kept(l)' BY <1>0, <1>1 DEF Good, Kept, Session
  <2>4. Known(l)' BY <1>1 DEF Known, Session
  <2> QED BY <2>1, <2>2, <2>3, <2>4 DEF Good
<1> QED BY <1>1, <1>2, <1>3, <1>4, Others DEF LInv, Clearing

LEMMA NextOfferTimeout ==
  ASSUME LInv, NEW l \in Lpn, OfferTimeout(l)
  PROVE  LInv'
<1> DEFINE y == [lpn[l] EXCEPT !.st = "request"]
<1>0. TypeOK /\ Good(l) BY DEF LInv
<1>1. y \in LpnType /\ y.st = "request" /\ y.cnt = lpn[l].cnt /\ y.updated = lpn[l].updated
  BY <1>0 DEF TypeOK, LpnType
<1>2. y.cnt = 0 /\ ~y.updated
  BY <1>0, <1>1 DEF OfferTimeout, Good, Polls
<1>3. /\ lpn' = [lpn EXCEPT ![l] = y] /\ air' = Elsewhere(l)
      /\ UNCHANGED <<slot, clearing, expired, orphan, unsent, got, restarts>>
  BY DEF OfferTimeout, fnProc
<1>4. restarts' \in 0 .. Restarts BY <1>0, <1>3 DEF TypeOK
<1> HIDE DEF y
<1> QED BY <1>1, <1>2, <1>3, <1>4, Restarted

LEMMA NextLpnRestart ==
  ASSUME LInv, NEW l \in Lpn, LpnRestart(l)
  PROVE  LInv'
<1>1. Searching.st = "request" /\ Searching.cnt = 0 /\ Searching.updated = FALSE
  BY DEF Searching
<1>2. restarts' \in 0 .. Restarts
  BY FriendshipAssumption DEF LInv, TypeOK, LpnRestart
<1> QED BY <1>1, <1>2, SearchingType, Restarted DEF LpnRestart, fnProc

LEMMA NextPoll ==
  ASSUME LInv, NEW l \in Lpn, Poll(l)
  PROVE  LInv'
<1> USE FriendshipAssumption
<1> DEFINE x == lpn[l]
           type == Type(x)
           new == Packet("poll", l, x.fn, x.fsn, type, None)
           cnt == Counted(x)
           y == [x EXCEPT !.st = "update", !.offered = FALSE, !.updated = FALSE,
                          !.cnt = cnt, !.type = type]
<1>0. TypeOK /\ Good(l) BY DEF LInv
<1>1. /\ x \in LpnType /\ x.st = "poll" /\ type \in PollTypes /\ x.cnt \in Nat
      /\ x.fn \in Fn /\ x.cnt < RetryMax /\ ~x.updated
  BY <1>0 DEF TypeOK, Poll, Type, PollTypes, LpnType, Good, Polls
<1>b. new \in PacketType /\ new.lpn = l /\ new.kind = "poll"
  BY <1>1 DEF LpnType, PacketType, Packet
<1>c. cnt \in 0 .. RetryMax BY <1>1 DEF Counted
<1> HIDE DEF type, cnt
<1>2. /\ y \in LpnType /\ y.st = "update" /\ y.fn = x.fn /\ y.offered = FALSE
      /\ y.updated = FALSE /\ y.fsn = x.fsn /\ y.type = type /\ y.cnt = cnt
  BY <1>1, <1>c DEF LpnType
<1>3. /\ lpn' = [lpn EXCEPT ![l] = y] /\ air' = Elsewhere(l) \cup {new}
      /\ UNCHANGED <<slot, clearing, expired, orphan, unsent, restarts, got>>
  BY DEF Poll, type, cnt, fnProc
<1>4. lpn'[l] = y /\ \A k \in Lpn : k # l => lpn'[k] = lpn[k] BY <1>0, <1>3 DEF TypeOK
<1>5. \A p \in air' : p = new \/ (p \in air /\ p.lpn # l) BY <1>3 DEF Elsewhere
<1>6. new.fn = x.fn /\ new.fsn = x.fsn /\ new.type = type BY DEF Packet
<1>7. x.offered = FALSE => type = x.type BY DEF Type, type
<1>a. x.offered => type = "group" BY DEF Type, type
<1> HIDE DEF new, y
<1>8. TypeOK' BY <1>0, <1>2, <1>b, <1>3, <1>5 DEF TypeOK, Taken
<1>9. Good(l)'
  <2>1. Polls(l)' BY <1>1, <1>2, <1>4 DEF Polls
  <2>2. OnTheWay(l)' BY <1>2, <1>b, <1>4, <1>5, <1>6 DEF OnTheWay, Exchange
  <2>3. Answers(l)' BY <1>b, <1>5 DEF Answers
  <2>4. lpn'[l].fn = x.fn /\ lpn'[l].fsn = x.fsn /\ lpn'[l].type = type BY <1>2, <1>4
  <2>5. \A f \in Fn : Session(f, l)' => Session(f, l) BY <1>1, <2>4 DEF Session
  <2>6. Kept(l)' BY <1>0, <1>3, <2>4, <2>5 DEF Good, Kept
  <2>7. Known(l)'
    <3> SUFFICES ASSUME NEW f \in Fn, Session(f, l)', type = "online"
                 PROVE  slot[f][l] = Idle \/ slot[f][l].groups = Reported(l)
      BY <1>3, <2>4 DEF Known
    <3>1. ~x.offered /\ x.type = "online" BY <1>1, <1>7, <1>a DEF LpnType
    <3> QED BY <1>0, <2>5, <3>1 DEF Good, Known
  <2> QED BY <2>1, <2>2, <2>3, <2>6, <2>7 DEF Good
<1> QED BY <1>b, <1>3, <1>4, <1>5, <1>8, <1>9, Others DEF LInv, Clearing

LEMMA NextAnswered ==
  ASSUME LInv, NEW l \in Lpn, Answered(l)
  PROVE  LInv'
<1> USE FriendshipAssumption
<1> DEFINE x == lpn[l]
           y == [x EXCEPT !.st = "poll", !.updated = FALSE]
<1>0. TypeOK /\ Good(l) BY DEF LInv
<1>1. x \in LpnType /\ x.st = "update" /\ x.updated /\ x.cnt = 0 /\ ~x.offered /\ x.fn \in Fn
  BY <1>0 DEF TypeOK, Answered, Good, Polls
<1>2. /\ y \in LpnType /\ y.st = "poll" /\ ~y.updated /\ y.cnt = 0 /\ y.fn = x.fn
      /\ y.fsn = x.fsn /\ y.type = x.type /\ y.offered = x.offered
  BY <1>1 DEF LpnType
<1>3. /\ lpn' = [lpn EXCEPT ![l] = y]
      /\ UNCHANGED <<slot, clearing, expired, orphan, air, unsent, restarts, got>>
  BY <1>0 DEF Answered, TypeOK, fnProc
<1> HIDE DEF y
<1>4. lpn'[l] = y /\ \A k \in Lpn : k # l => lpn'[k] = lpn[k] BY <1>0, <1>3 DEF TypeOK
<1>5. \A p \in air : p.lpn # l
  BY <1>0, <1>1 DEF Good, OnTheWay, Search, Exchange
<1>6. TypeOK' BY <1>0, <1>2, <1>3 DEF TypeOK, Taken
<1>7. Good(l)'
  <2>1. Polls(l)' BY <1>1, <1>2, <1>4 DEF Polls
  <2>2. OnTheWay(l)' /\ Answers(l)' BY <1>3, <1>5 DEF OnTheWay, Answers
  <2>3. \A f \in Fn : Session(f, l)' <=> Session(f, l) BY <1>1, <1>2, <1>4 DEF Session
  <2>4. Kept(l)' BY <1>0, <1>2, <1>3, <1>4, <2>3 DEF Good, Kept
  <2>5. Known(l)' BY <1>0, <1>2, <1>3, <1>4, <2>3 DEF Good, Known
  <2> QED BY <2>1, <2>2, <2>4, <2>5 DEF Good
<1> QED BY <1>3, <1>4, <1>6, <1>7, Others DEF LInv, Clearing

LEMMA NextPollTimeout ==
  ASSUME LInv, NEW l \in Lpn, PollTimeout(l)
  PROVE  LInv'
<1> USE FriendshipAssumption
<1> DEFINE x == lpn[l]
           y == [x EXCEPT !.st = "poll"]
<1>0. TypeOK /\ Good(l) BY DEF LInv
<1>1. x \in LpnType /\ x.st = "update" /\ ~x.updated /\ ~x.offered /\ x.fn \in Fn
  BY <1>0 DEF TypeOK, PollTimeout, Good, Polls
<1>2. CASE GivesUp(x)
  <2>1. Searching.st = "request" /\ Searching.cnt = 0 /\ Searching.updated = FALSE
    BY DEF Searching
  <2>2. lpn' = [lpn EXCEPT ![l] = Searching] BY <1>2 DEF PollTimeout
  <2>3. restarts' \in 0 .. Restarts BY <1>0 DEF TypeOK, PollTimeout
  <2> QED BY <2>1, <2>2, <2>3, SearchingType, Restarted DEF PollTimeout, fnProc
<1>3. CASE ~GivesUp(x)
  <2>1. /\ y \in LpnType /\ y.st = "poll" /\ ~y.updated /\ y.cnt = x.cnt /\ y.fn = x.fn
        /\ y.fsn = x.fsn /\ y.type = x.type /\ y.offered = x.offered
    BY <1>1 DEF LpnType
  <2>2. /\ lpn' = [lpn EXCEPT ![l] = y] /\ air' = Elsewhere(l)
        /\ UNCHANGED <<slot, clearing, expired, orphan, unsent, restarts, got>>
    BY <1>3 DEF PollTimeout, fnProc
  <2>3. x.cnt < RetryMax BY <1>1, <1>3 DEF GivesUp, LpnType
  <2> HIDE DEF y
  <2>4. lpn'[l] = y /\ \A k \in Lpn : k # l => lpn'[k] = lpn[k] BY <1>0, <2>2 DEF TypeOK
  <2>5. \A p \in air' : p \in air /\ p.lpn # l BY <2>2 DEF Elsewhere
  <2>6. TypeOK' BY <1>0, <2>1, <2>2, <2>5 DEF TypeOK, Taken
  <2>7. Good(l)'
    <3>1. Polls(l)' BY <1>1, <2>1, <2>3, <2>4 DEF Polls
    <3>2. OnTheWay(l)' /\ Answers(l)' BY <2>5 DEF OnTheWay, Answers
    <3>3. \A f \in Fn : Session(f, l)' <=> Session(f, l) BY <1>1, <2>1, <2>4 DEF Session
    <3>4. Kept(l)' BY <1>0, <2>1, <2>2, <2>4, <3>3 DEF Good, Kept
    <3>5. Known(l)' BY <1>0, <2>1, <2>2, <2>4, <3>3 DEF Good, Known
    <3> QED BY <3>1, <3>2, <3>4, <3>5 DEF Good
  <2> QED BY <2>2, <2>4, <2>5, <2>6, <2>7, Others DEF LInv, Clearing
<1> QED BY <1>2, <1>3

LEMMA NextRxOffer ==
  ASSUME LInv, NEW l \in Lpn, RxOffer(l)
  PROVE  LInv'
<1> USE FriendshipAssumption
<1>0. TypeOK /\ Good(l) BY DEF LInv
<1>1. PICK p \in air :
        /\ p.kind = "offer" /\ p.lpn = l /\ lpn[l].st = "offer"
        /\ lpn' = [lpn EXCEPT ![l].st = "poll", ![l].fn = p.fn, ![l].offered = TRUE]
        /\ air' = air \ {p}
        /\ UNCHANGED <<slot, clearing, expired, orphan, unsent, restarts, got>>
  BY DEF RxOffer, fnProc
<1> DEFINE x == lpn[l]
           y == [x EXCEPT !.st = "poll", !.fn = p.fn, !.offered = TRUE]
<1>2. x \in LpnType /\ p.fn \in Fn /\ x.cnt = 0 /\ ~x.updated
  BY <1>0, <1>1 DEF TypeOK, PacketType, Good, Polls
<1>3. /\ y \in LpnType /\ y.st = "poll" /\ y.fn = p.fn /\ y.offered = TRUE
      /\ y.cnt = x.cnt /\ y.updated = x.updated /\ y.fsn = x.fsn
  BY <1>2 DEF LpnType
<1>4. lpn' = [lpn EXCEPT ![l] = y] BY <1>0, <1>1 DEF TypeOK
<1> HIDE DEF y
<1>a. air' = air \ {p} /\ UNCHANGED <<slot, clearing, expired, orphan, unsent, restarts, got>> BY <1>1
<1>5. lpn'[l] = y /\ \A k \in Lpn : k # l => lpn'[k] = lpn[k] BY <1>0, <1>4 DEF TypeOK
<1>6. TypeOK' BY <1>0, <1>3, <1>4, <1>a DEF TypeOK, Taken
<1>7. slot[p.fn][l] = Idle \/ slot[p.fn][l].st = "offer"
  BY <1>0, <1>1 DEF Good, OnTheWay, Search, Exchange
<1>8. Good(l)'
  <2>1. Polls(l)' BY <1>2, <1>3, <1>5 DEF Polls
  <2>2. \A q \in air' : q.lpn = l => q \in air /\ Search(l, q)
    BY <1>0, <1>1 DEF Good, OnTheWay, Exchange
  <2>3. OnTheWay(l)' BY <1>1, <1>3, <1>5, <2>2 DEF OnTheWay, Search
  <2>4. Answers(l)' BY <2>2 DEF Answers, Search
  <2>5. \A f \in Fn : Session(f, l)' => f = p.fn BY <1>3, <1>5 DEF Session
  <2>6. Kept(l)' BY <1>0, <1>1, <1>7, <2>5 DEF Good, Kept
  <2>7. Known(l)' BY <1>3, <1>5 DEF Known
  <2> QED BY <2>1, <2>3, <2>4, <2>6, <2>7 DEF Good
<1> QED BY <1>1, <1>5, <1>6, <1>8, Others DEF LInv, Clearing

LEMMA NextRxAnswer ==
  ASSUME LInv, NEW l \in Lpn, RxAnswer(l)
  PROVE  LInv'
<1> USE FriendshipAssumption
<1> DEFINE x == lpn[l]
           echoed(p) == p.kind = "update" /\ x.type # "online" /\ x.type = p.type
           type(p) == IF echoed(p) THEN "online" ELSE x.type
<1>0. TypeOK /\ Good(l) BY DEF LInv
<1>1. PICK p \in air :
        /\ p.kind \in {"update", "cached"} /\ p.lpn = l
        /\ x.st = "update" /\ ~x.updated
        /\ lpn' = [lpn EXCEPT ![l] =
                     [x EXCEPT !.updated = TRUE, !.cnt = 0, !.fsn = Flip(x, p),
                               !.type = IF echoed(p) THEN "online" ELSE @]]
        /\ air' = Elsewhere(l)
        /\ got' = IF p.kind = "cached" THEN [got EXCEPT ![l] = @ \cup {p.pkt}] ELSE got
        /\ UNCHANGED <<slot, clearing, expired, orphan, unsent, restarts>>
  BY DEF RxAnswer, fnProc
<1> DEFINE bit == Flip(x, p)
           t == type(p)
           y == [x EXCEPT !.updated = TRUE, !.cnt = 0, !.fsn = bit, !.type = t]
<1>2. x \in LpnType /\ p \in PacketType /\ x.fn \in Fn /\ ~x.offered
  BY <1>0, <1>1 DEF TypeOK, Good, Polls
<1>a. bit = 1 - x.fsn /\ bit \in {0, 1} /\ t \in PollTypes
  BY <1>2 DEF LpnType, PollTypes, Flip
<1>4. lpn' = [lpn EXCEPT ![l] = y] BY <1>1
<1> HIDE DEF bit, t
<1>3. /\ y \in LpnType /\ y.st = x.st /\ y.fn = x.fn /\ y.offered = x.offered
      /\ y.updated = TRUE /\ y.fsn = bit /\ y.type = t /\ y.cnt = 0
  <2>1. 0 \in 0 .. RetryMax OBVIOUS
  <2>2. y \in LpnType BY <1>2, <1>a, <2>1 DEF LpnType
  <2>3. y.st = x.st /\ y.fn = x.fn /\ y.fsn = bit /\ y.type = t /\ y.cnt = 0
    BY <1>2, <1>a DEF LpnType
  <2>4. y.offered = x.offered BY <1>2 DEF LpnType
  <2>5. y.updated = TRUE BY <1>2 DEF LpnType
  <2> QED BY <2>2, <2>3, <2>4, <2>5
<1> HIDE DEF y
<1>5. p.fn = x.fn /\ (p.kind = "update" => p.type = x.type)
  BY <1>0, <1>1 DEF Good, OnTheWay, Search, Exchange
<1>6. lpn'[l] = y /\ \A k \in Lpn : k # l => lpn'[k] = lpn[k] BY <1>0, <1>4 DEF TypeOK
<1>7. got'[l] = (IF p.kind = "cached" THEN got[l] \cup {p.pkt} ELSE got[l])
      /\ \A k \in Lpn : k # l => got'[k] = got[k]
  BY <1>0, <1>1 DEF TypeOK
<1>8. p.kind = "cached" => p.pkt \in Msgs \ (got[l] \cup unsent)
  BY <1>0, <1>1 DEF Good, Answers
<1>9. \A q \in air' : q \in air /\ q.lpn # l BY <1>1 DEF Elsewhere
<1>10. TypeOK'
  <2>1. got' \in [Lpn -> SUBSET Msgs] BY <1>0, <1>1, <1>8 DEF TypeOK
  <2>2. UNCHANGED <<slot, clearing, expired, orphan, unsent, restarts>> BY <1>1
  <2>3. lpn' \in [Lpn -> LpnType] BY <1>0, <1>3, <1>4 DEF TypeOK
  <2>4. air' \subseteq PacketType BY <1>0, <1>9 DEF TypeOK
  <2> QED BY <1>0, <2>1, <2>2, <2>3, <2>4 DEF TypeOK, Taken
<1>11. Good(l)'
  <2>1. Polls(l)' BY <1>1, <1>2, <1>3, <1>6 DEF Polls
  <2>2. OnTheWay(l)' /\ Answers(l)' BY <1>9 DEF OnTheWay, Answers
  <2>3. \A f \in Fn : Session(f, l)' <=> f = x.fn BY <1>1, <1>3, <1>6 DEF Session
  <2>4. \A f \in Fn : Session(f, l) <=> f = x.fn BY <1>1 DEF Session
  <2>5. x.fsn \in {0, 1} /\ lpn'[l].fsn = 1 - x.fsn BY <1>2, <1>3, <1>6, <1>a DEF LpnType
  <2>6. Kept(l)'
    <3>1. got'[l] \cap unsent' = {} BY <1>0, <1>1, <1>7, <1>8 DEF Good, Kept
    <3>2. ASSUME NEW f \in Fn, slot[f][l] # Idle
          PROVE  /\ slot[f][l].st = "offer" => slot[f][l].flag = "none"
                 /\ slot[f][l].flag # "none" => slot[f][l].pkt \in Msgs \ unsent
      BY <1>0, <3>2 DEF Good, Kept
    <3>3. ASSUME NEW f \in Fn, slot[f][l] # Idle, f = x.fn
          PROVE  /\ slot[f][l].flag = "rx" => slot[f][l].pkt \notin got'[l]
                 /\ slot[f][l].flag = "tx2lpn" =>
                      (slot[f][l].fsn = 1 - x.fsn <=> slot[f][l].pkt \notin got'[l])
      <4> DEFINE s == slot[f][l]
      <4>1. s \in SlotType /\ s.fsn \in {0, 1} BY <1>0, <3>3, SlotOf DEF SlotType
      <4>2. /\ s.flag = "rx" => s.pkt \notin got[l]
            /\ s.flag = "tx2lpn" => (s.fsn = x.fsn <=> s.pkt \notin got[l])
        BY <1>0, <2>4, <3>3 DEF Good, Kept
      <4>3. CASE p.kind = "update"
        <5>1. s.flag # "tx2lpn" BY <1>0, <1>1, <1>5, <3>3, <4>3 DEF Good, Answers
        <5> QED BY <1>7, <4>2, <4>3, <5>1
      <4>4. CASE p.kind = "cached"
        <5>1. \/ s.flag = "tx2lpn" /\ s.pkt = p.pkt /\ s.fsn = x.fsn
              \/ s.flag = "rx" /\ s.pkt # p.pkt
          BY <1>0, <1>1, <1>5, <3>3, <4>4 DEF Good, Answers
        <5>2. got'[l] = got[l] \cup {p.pkt} BY <1>7, <4>4
        <5>3. CASE s.flag = "tx2lpn" /\ s.pkt = p.pkt /\ s.fsn = x.fsn
          <6>1. s.fsn # 1 - x.fsn BY <2>5, <5>3
          <6>2. s.pkt \in got'[l] BY <5>2, <5>3
          <6> QED BY <5>3, <6>1, <6>2
        <5>4. CASE s.flag = "rx" /\ s.pkt # p.pkt BY <4>2, <5>2, <5>4
        <5> QED BY <5>1, <5>3, <5>4
      <4> QED BY <1>1, <4>3, <4>4
    <3> QED BY <1>1, <2>3, <2>5, <3>1, <3>2, <3>3 DEF Kept
  <2>7. Known(l)'
    <3> SUFFICES ASSUME NEW f \in Fn, f = x.fn, lpn'[l].type = "online", slot[f][l] # Idle
                 PROVE  slot[f][l].groups = Reported(l)
      BY <1>1, <2>3 DEF Known
    <3>1. CASE x.type = "online" BY <1>0, <1>2, <2>4, <3>1 DEF Good, Known
    <3>2. CASE x.type # "online"
      <4>1. p.kind = "update" /\ p.type = "group" /\ p.fn = f
        BY <1>2, <1>3, <1>5, <1>6, <3>2 DEF LpnType, PollTypes, t
      <4> QED BY <1>0, <1>1, <4>1 DEF Good, Answers
    <3> QED BY <3>1, <3>2
  <2> QED BY <2>1, <2>2, <2>6, <2>7 DEF Good
<1> QED BY <1>1, <1>6, <1>7, <1>9, <1>10, <1>11, Others DEF LInv, Clearing

-----------------------------------------------------------------------------
(* The steps of a friend node.                                             *)

\* The loss of packets, with no other change, is no concern of anybody.
LEMMA PacketLost ==
  ASSUME LInv, air' \subseteq air, UNCHANGED <<lpn, slot, clearing, expired, orphan, unsent, restarts, got>>
  PROVE  LInv'
<1>1. TypeOK' BY DEF LInv, TypeOK, Taken
<1>2. ASSUME NEW l \in Lpn PROVE Good(l)' BY Untouched DEF LInv
<1> QED BY <1>1, <1>2 DEF LInv, Clearing

LEMMA NextFnRequest ==
  ASSUME LInv, NEW l \in Lpn, NEW f \in Fn, FnRequest(f, l)
  PROVE  LInv'
<1> USE FriendshipAssumption
<1> DEFINE offer == Packet("offer", l, f, 0, "online", None)
<1>0. TypeOK /\ Good(l) BY DEF LInv
<1>1. PICK p \in air :
        /\ p.kind = "request" /\ p.lpn = l /\ p.fn = f
        /\ IF l \in Taken(f) \/ Free(f)
           THEN /\ slot' = [slot EXCEPT ![f][l] = Fresh]
                /\ orphan' = [orphan EXCEPT ![f] = @ \ {l}]
                /\ TakesHalfCleared(f, l)
                /\ air' = (air \ {p}) \cup {offer}
           ELSE /\ air' = air \ {p}
                /\ UNCHANGED <<slot, expired, orphan>>
        /\ UNCHANGED <<lpn, clearing, unsent, restarts, got>>
  BY DEF FnRequest, Offer
<1>2. CASE ~(l \in Taken(f) \/ Free(f)) BY <1>1, <1>2, PacketLost
<1>3. CASE l \in Taken(f) \/ Free(f)
  <2>1. /\ slot' = [slot EXCEPT ![f][l] = Fresh]
        /\ orphan' = [orphan EXCEPT ![f] = @ \ {l}]
        /\ air' = (air \ {p}) \cup {offer}
        /\ UNCHANGED <<lpn, clearing, unsent, restarts, got>>
        /\ UNCHANGED expired \/ expired' = [expired EXCEPT ![f] = l]
    BY <1>1, <1>3 DEF TakesHalfCleared
  <2>2. offer \in PacketType /\ offer.lpn = l /\ offer.kind = "offer" /\ offer.fn = f
    BY DEF Packet, PacketType, PollTypes
  <2> HIDE DEF offer
  <2>3. /\ slot'[f][l] = Fresh
        /\ \A g \in Fn, k \in Lpn : (g # f \/ k # l) => slot'[g][k] = slot[g][k]
    BY <1>0, <2>1 DEF TypeOK
  <2>4. TypeOK'
    <3>1. slot' \in [Fn -> [Lpn -> SlotType \cup {Idle}]]
      <4> HIDE DEF SlotType
      <4> QED BY <1>0, <2>1, FreshType DEF TypeOK
    <3>2. ASSUME NEW g \in Fn PROVE Cardinality(Taken(g)') <= SlotMax
      <4>1. CASE g = f
        <5>1. Taken(f)' \subseteq Taken(f) \cup {l} BY <1>0, <2>1, <2>3 DEF Taken, TypeOK
        <5> QED BY <1>0, <1>3, <4>1, <5>1, OneMoreSlot
      <4>2. CASE g # f
        <5>1. Taken(g)' \subseteq Taken(g) BY <1>0, <2>1, <2>3, <4>2 DEF Taken, TypeOK
        <5> QED BY <1>0, <5>1, FewerSlots
      <4> QED BY <4>1, <4>2
    <3>3. air' \subseteq PacketType BY <1>0, <2>1, <2>2 DEF TypeOK
    <3>4. orphan' \in [Fn -> SUBSET Lpn] /\ expired' \in [Fn -> Lpn \cup {None}]
      BY <1>0, <2>1 DEF TypeOK
    <3> QED BY <1>0, <2>1, <3>1, <3>2, <3>3, <3>4 DEF TypeOK
  <2>6. Clearing'
    <3> SUFFICES ASSUME NEW g \in Fn
                 PROVE  /\ clearing[g] = "found" => expired'[g] \in Lpn
                        /\ clearing[g] = "half" /\ expired'[g] # None
                             => slot'[g][expired'[g]] # Idle
      BY <2>1 DEF Clearing
    <3>1. expired'[g] = expired[g] \/ (g = f /\ expired'[g] = l) BY <1>0, <2>1 DEF TypeOK
    <3>2. CASE expired'[g] = expired[g]
      <4>1. expired[g] \in Lpn \cup {None} BY <1>0 DEF TypeOK
      <4>2. \A k \in Lpn : slot'[g][k] = slot[g][k] \/ slot'[g][k] = Fresh BY <2>3
      <4> QED BY <3>2, <4>1, <4>2, FreshType DEF LInv, Clearing
    <3>3. CASE g = f /\ expired'[g] = l BY <2>3, <3>3, FreshType
    <3> QED BY <3>1, <3>2, <3>3
  <2>5. Good(l)'
    <3>1. Search(l, p) BY <1>0, <1>1 DEF Good, OnTheWay, Exchange
    <3>2. \A q \in air : q.lpn = l => Search(l, q)
      BY <1>0, <1>1 DEF Good, OnTheWay, Exchange
    <3>3. Polls(l)' BY <1>0, <2>1 DEF Good, Polls
    <3>4. OnTheWay(l)'
      <4> SUFFICES ASSUME NEW q \in air', q.lpn = l PROVE Search(l, q)'
        BY DEF OnTheWay
      <4>1. CASE q = offer BY <2>1, <2>2, <2>3, <3>1, <4>1, FreshType DEF Search
      <4>2. CASE q # offer
        <5>1. q \in air /\ q.fn \in Fn BY <1>0, <2>1, <4>2 DEF TypeOK, PacketType
        <5>2. slot'[q.fn][l] = slot[q.fn][l] \/ slot'[q.fn][l] = Fresh BY <2>3, <5>1
        <5> QED BY <2>1, <3>2, <5>1, <5>2, FreshType DEF Search
      <4> QED BY <4>1, <4>2
    <3>5. Answers(l)'
      <4>1. \A q \in air' : q.lpn = l => q.kind \in {"request", "offer"}
        BY <2>1, <2>2, <3>2 DEF Search
      <4> QED BY <4>1 DEF Answers
    <3>6. Kept(l)'
      <4>1. ASSUME NEW g \in Fn PROVE slot'[g][l] = slot[g][l] \/ slot'[g][l] = Fresh
        BY <2>3
      <4> QED BY <1>0, <2>1, <4>1, FreshType DEF Good, Kept, Session
    <3>7. Known(l)' BY <2>1, <3>1 DEF Known, Session, Search
    <3> QED BY <3>3, <3>4, <3>5, <3>6, <3>7 DEF Good
  <2>7. UNCHANGED <<lpn, got, unsent>> /\ air' = (air \ {p}) \cup {offer} BY <2>1
  <2>8. \A k \in Lpn : Good(k)' BY <2>2, <2>3, <2>5, <2>7, Others
  <2> QED BY <2>4, <2>6, <2>8 DEF LInv
<1> QED BY <1>2, <1>3


\* What a friend node makes of a POLL: the POLL is the only packet of its LPN,
\* which is linked to f; s becomes t and new is the answer.
LEMMA NextFnPoll ==
  ASSUME LInv, NEW l \in Lpn, NEW f \in Fn, FnPoll(f, l)
  PROVE  LInv'
<1> USE FriendshipAssumption
<1> DEFINE s == slot[f][l]
           flag(p) == Flag(s, p)
           new(p) == IF s.st = "linked" /\ flag(p) # "none"
                     THEN Packet("cached", l, f, 0, "online", s.pkt)
                     ELSE Packet("update", l, f, 0, p.type, None)
           after(p) == [s EXCEPT !.st = "linked", !.type = p.type, !.flag = flag(p),
                                 !.fsn = Fsn(s, p),
                                 !.pkt = IF flag(p) = "none" THEN None ELSE @,
                                 !.groups = IF p.type = "group" THEN Reported(l) ELSE @]
<1>0. TypeOK /\ Good(l) BY DEF LInv
<1>1. PICK p \in air :
        /\ p.kind = "poll" /\ p.lpn = l /\ p.fn = f
        /\ IF s = Idle
           THEN air' = air \ {p} /\ UNCHANGED slot
           ELSE /\ slot' = [slot EXCEPT ![f][l] = after(p)]
                /\ air' = (air \ {p}) \cup {new(p)}
        /\ UNCHANGED <<lpn, clearing, expired, orphan, unsent, restarts, got>>
  BY DEF FnPoll, fnProc
<1>2. CASE s = Idle BY <1>1, <1>2, PacketLost
<1>3. CASE s # Idle
  <2> DEFINE t == after(p)
             q == new(p)
             fl == flag(p)
  <2>1. /\ slot' = [slot EXCEPT ![f][l] = t] /\ air' = (air \ {p}) \cup {q}
        /\ UNCHANGED <<lpn, clearing, expired, orphan, unsent, restarts, got>>
    BY <1>1, <1>3
  <2>2. s \in SlotType /\ p \in PacketType BY <1>0, <1>3, SlotOf DEF TypeOK
  <2>3. fl \in {"none", "rx", "tx2lpn"} /\ Fsn(s, p) \in {0, 1}
    BY <2>2 DEF Flag, Fsn, SlotType, PacketType
  <2>4. /\ t \in SlotType /\ t.st = "linked" /\ t.flag = fl /\ t.fsn = Fsn(s, p)
        /\ fl # "none" => t.pkt = s.pkt
        /\ t.groups = (IF p.type = "group" THEN Reported(l) ELSE s.groups)
    <3> DEFINE fsn == Fsn(s, p)
               pkt == IF fl = "none" THEN None ELSE s.pkt
               groups == IF p.type = "group" THEN Reported(l) ELSE s.groups
    <3>1. pkt \in Msgs \cup {None} /\ groups \in SUBSET Groups /\ p.type \in PollTypes
      BY <2>2, ReportedGroups DEF SlotType, PacketType
    <3>2. t = [s EXCEPT !.st = "linked", !.type = p.type, !.flag = fl,
                        !.fsn = fsn, !.pkt = pkt, !.groups = groups]
      OBVIOUS
    <3>3. fl # "none" => pkt = s.pkt OBVIOUS
    <3>5. fl \in {"none", "rx", "tx2lpn"} /\ fsn \in {0, 1} BY <2>3
    <3> HIDE DEF t, s, fl, fsn, pkt, groups
    <3>6. t \in SlotType BY <2>2, <3>1, <3>2, <3>5 DEF SlotType
    <3>7. t.st = "linked" /\ t.flag = fl /\ t.fsn = fsn /\ t.pkt = pkt
      BY <2>2, <3>1, <3>2, <3>5 DEF SlotType
    <3>8. t.groups = groups BY <2>2, <3>2 DEF SlotType
    <3> QED BY <3>3, <3>6, <3>7, <3>8 DEF fsn, groups
  <2>5. /\ Exchange(l, p) /\ \A r \in air : r.lpn = l => r = p
    BY <1>0, <1>1 DEF Good, OnTheWay, Search, Exchange
  <2>6. Session(f, l) /\ p.fsn = lpn[l].fsn /\ p.type = lpn[l].type
    BY <1>1, <2>5 DEF Exchange, Session
  <2>7. /\ s.st = "offer" => s.flag = "none"
        /\ s.flag # "none" => s.pkt \in Msgs \ unsent
        /\ s.flag = "rx" => s.pkt \notin got[l]
        /\ s.flag = "tx2lpn" => (s.fsn = lpn[l].fsn <=> s.pkt \notin got[l])
    BY <1>0, <1>3, <2>6 DEF Good, Kept
  <2>8. /\ fl # "rx"
        /\ fl # "none" => /\ fl = "tx2lpn" /\ Fsn(s, p) = lpn[l].fsn
                          /\ s.pkt \in Msgs \ (got[l] \cup unsent)
        /\ s.st = "offer" => fl = "none"
    BY <2>2, <2>6, <2>7 DEF Flag, Fsn, SlotType
  <2>9. /\ q \in PacketType /\ q.lpn = l /\ q.fn = f /\ q.kind \in {"update", "cached"}
        /\ q.kind = "cached" => fl # "none" /\ q.pkt = s.pkt
        /\ q.kind = "update" => fl = "none" /\ q.type = p.type
    BY <2>2, <2>8 DEF Packet, PacketType, PollTypes, SlotType
  <2> HIDE DEF t, q, fl, s
  <2>10. /\ slot'[f][l] = t
         /\ \A g \in Fn, k \in Lpn : (g # f \/ k # l) => slot'[g][k] = slot[g][k]
    BY <1>0, <2>1 DEF TypeOK
  <2>11. t # Idle BY <2>4 DEF Idle
  <2>12. TypeOK'
    <3>1. slot' \in [Fn -> [Lpn -> SlotType \cup {Idle}]]
      BY <1>0, <2>1, <2>4 DEF TypeOK
    <3>2. ASSUME NEW g \in Fn PROVE Cardinality(Taken(g)') <= SlotMax
      <4>1. Taken(g)' \subseteq Taken(g) BY <1>3, <2>1, <2>10 DEF Taken, s
      <4> QED BY <1>0, <4>1, FewerSlots
    <3>3. air' \subseteq PacketType BY <1>0, <2>1, <2>9 DEF TypeOK
    <3> QED BY <1>0, <2>1, <3>1, <3>2, <3>3 DEF TypeOK
  <2>13. Good(l)'
    <3>1. \A r \in air' : r.lpn = l => r = q BY <2>1, <2>5
    <3>2. Polls(l)' BY <1>0, <2>1 DEF Good, Polls
    <3>3. OnTheWay(l)'
      <4>1. lpn[l].st = "update" /\ ~lpn[l].updated /\ f = lpn[l].fn
        BY <1>1, <2>5 DEF Exchange
      <4> SUFFICES ASSUME NEW r \in air', r.lpn = l PROVE Exchange(l, r)'
        BY DEF OnTheWay
      <4>2. r = q BY <3>1
      <4> QED BY <2>1, <2>6, <2>9, <3>1, <4>1, <4>2 DEF Exchange
    <3>4. Answers(l)' BY <2>1, <2>4, <2>8, <2>9, <2>10, <3>1 DEF Answers
    <3>5. Kept(l)'
      <4>1. ASSUME NEW g \in Fn, slot'[g][l] # Idle
            PROVE  /\ slot'[g][l].st = "offer" => slot'[g][l].flag = "none"
                   /\ slot'[g][l].flag # "none" => slot'[g][l].pkt \in Msgs \ unsent
                   /\ Session(g, l) =>
                        /\ slot'[g][l].flag = "rx" => slot'[g][l].pkt \notin got[l]
                        /\ slot'[g][l].flag = "tx2lpn" =>
                             (slot'[g][l].fsn = lpn[l].fsn <=> slot'[g][l].pkt \notin got[l])
        <5>1. CASE g = f BY <2>4, <2>8, <2>10, <5>1
        <5>2. CASE g # f BY <1>0, <2>10, <4>1, <5>2 DEF Good, Kept
        <5> QED BY <5>1, <5>2
      <4>2. \A g \in Fn : Session(g, l)' <=> Session(g, l) BY <2>1 DEF Session
      <4> QED BY <1>0, <2>1, <4>1, <4>2 DEF Good, Kept
    <3>6. Known(l)'
      <4> SUFFICES ASSUME NEW g \in Fn, Session(g, l), ~lpn[l].offered, lpn[l].type = "online",
                          slot'[g][l] # Idle
                   PROVE  slot'[g][l].groups = Reported(l)
        BY <2>1 DEF Known, Session
      <4>1. slot[g][l] = Idle \/ slot[g][l].groups = Reported(l) BY <1>0 DEF Good, Known
      <4>2. CASE g = f
        <5>1. s.groups = Reported(l) BY <1>3, <4>1, <4>2 DEF s
        <5> QED BY <2>4, <2>10, <4>2, <5>1
      <4>3. CASE g # f BY <2>10, <4>1, <4>3
      <4> QED BY <4>2, <4>3
    <3> QED BY <3>2, <3>3, <3>4, <3>5, <3>6 DEF Good
  <2>14. Clearing'
    <3>1. \A g \in Fn, k \in Lpn : slot[g][k] # Idle => slot'[g][k] # Idle
      BY <2>10, <2>11
    <3> QED BY <1>0, <2>1, <3>1 DEF LInv, Clearing, TypeOK
  <2> QED BY <2>1, <2>9, <2>10, <2>12, <2>13, <2>14, Others DEF LInv
<1> QED BY <1>2, <1>3


\* The clearing of slots, for silence or by a restart, and the loss of packets.
LEMMA SlotsCleared ==
  ASSUME LInv, slot' \in [Fn -> [Lpn -> SlotType \cup {Idle}]],
         \A f \in Fn, l \in Lpn : slot'[f][l] = slot[f][l] \/ slot'[f][l] = Idle,
         \A f \in Fn : Taken(f)' \subseteq Taken(f),
         air' \subseteq air, UNCHANGED <<lpn, unsent, got>>,
         clearing' \in [Fn -> {"no", "found", "half"}], Clearing',
         expired' \in [Fn -> Lpn \cup {None}], orphan' \in [Fn -> SUBSET Lpn],
         restarts' \in 0 .. Restarts
  PROVE  LInv'
<1>1. ASSUME NEW f \in Fn PROVE Cardinality(Taken(f)') <= SlotMax
  BY FewerSlots DEF LInv
<1>2. TypeOK' BY <1>1 DEF LInv, TypeOK
<1>3. ASSUME NEW l \in Lpn PROVE Good(l)' BY Untouched DEF LInv
<1> QED BY <1>2, <1>3 DEF LInv

LEMMA NextFnSilent ==
  ASSUME LInv, NEW l \in Lpn, NEW f \in Fn, FnSilent(f, l)
  PROVE  LInv'
<1>0. TypeOK BY DEF LInv
<1>1. /\ clearing' = [clearing EXCEPT ![f] = "found"] /\ expired' = [expired EXCEPT ![f] = l]
      /\ UNCHANGED <<lpn, slot, orphan, air, unsent, restarts, got>>
  BY DEF FnSilent
<1>2. /\ clearing' \in [Fn -> {"no", "found", "half"}]
      /\ expired' \in [Fn -> Lpn \cup {None}]
  BY <1>0, <1>1 DEF TypeOK
<1>3. Clearing' BY <1>0, <1>1 DEF LInv, Clearing, TypeOK
<1>4. \A g \in Fn : Taken(g)' \subseteq Taken(g) BY <1>1 DEF Taken
<1> QED BY <1>0, <1>1, <1>2, <1>3, <1>4, SlotsCleared DEF TypeOK

LEMMA NextFnClear ==
  ASSUME LInv, NEW f \in Fn, FnClear(f)
  PROVE  LInv'
<1> DEFINE k == expired[f]
<1>0. TypeOK /\ Clearing BY DEF LInv
<1>1. /\ k \in Lpn /\ slot' = [slot EXCEPT ![f][k] = Idle]
      /\ clearing' = [clearing EXCEPT ![f] = "half"]
      /\ expired' = [expired EXCEPT ![f] = None]
      /\ UNCHANGED <<lpn, orphan, air, unsent, restarts, got>>
  BY <1>0 DEF FnClear, Clearing
<1> HIDE DEF k
<1>2. \A g \in Fn, l \in Lpn : slot'[g][l] = IF g = f /\ l = k THEN Idle ELSE slot[g][l]
  BY <1>0, <1>1 DEF TypeOK
<1>3. slot' \in [Fn -> [Lpn -> SlotType \cup {Idle}]]
  <2> HIDE DEF SlotType, Idle
  <2> QED BY <1>0, <1>1 DEF TypeOK
<1>4. /\ clearing' \in [Fn -> {"no", "found", "half"}]
      /\ expired' \in [Fn -> Lpn \cup {None}] /\ restarts' \in 0 .. Restarts
      /\ orphan' \in [Fn -> SUBSET Lpn]
  BY <1>0, <1>1 DEF TypeOK
<1>5. Clearing'
  <2> SUFFICES ASSUME NEW g \in Fn
               PROVE  /\ clearing'[g] = "found" => expired'[g] \in Lpn
                      /\ clearing'[g] = "half" /\ expired'[g] # None
                           => slot'[g][expired'[g]] # Idle
    BY DEF Clearing
  <2>1. CASE g = f BY <1>0, <1>1, <2>1 DEF TypeOK
  <2>2. CASE g # f
    <3>1. slot'[g] = slot[g] /\ clearing'[g] = clearing[g] /\ expired'[g] = expired[g]
      BY <1>0, <1>1, <2>2 DEF TypeOK
    <3> QED BY <1>0, <3>1 DEF Clearing
  <2> QED BY <2>1, <2>2
<1>6. \A g \in Fn : Taken(g)' \subseteq Taken(g) BY <1>1, <1>2 DEF Taken
<1>7. \A g \in Fn, l \in Lpn : slot'[g][l] = slot[g][l] \/ slot'[g][l] = Idle BY <1>2
<1> QED BY <1>1, <1>3, <1>4, <1>5, <1>6, <1>7, SlotsCleared

\* An LPN whose slot is wiped has had a slot with state: now it has one without.
LEMMA NextFnWiped ==
  ASSUME LInv, NEW f \in Fn, FnWiped(f)
  PROVE  LInv'
<1> DEFINE k == expired[f]
<1>0. TypeOK /\ Clearing BY DEF LInv
<1>1. /\ clearing[f] = "half" /\ k \in Lpn \cup {None} /\ (k # None => slot[f][k] # Idle)
      /\ slot' = [slot EXCEPT ![f] = [l \in Lpn |-> IF l = k THEN Idle ELSE slot[f][l]]]
      /\ clearing' = [clearing EXCEPT ![f] = "no"]
      /\ orphan' = [orphan EXCEPT ![f] = orphan[f] \cup ({k} \ {None})]
      /\ expired' = [expired EXCEPT ![f] = None]
      /\ UNCHANGED <<lpn, air, unsent, restarts, got>>
  BY <1>0 DEF FnWiped, Clearing, TypeOK
<1> HIDE DEF k
<1>2. \A g \in Fn, l \in Lpn : slot'[g][l] = IF g = f /\ l = k THEN Idle ELSE slot[g][l]
  BY <1>0, <1>1 DEF TypeOK
<1>3. slot' \in [Fn -> [Lpn -> SlotType \cup {Idle}]]
  <2> HIDE DEF SlotType, Idle
  <2> QED BY <1>0, <1>1 DEF TypeOK
<1>4. /\ clearing' \in [Fn -> {"no", "found", "half"}]
      /\ expired' \in [Fn -> Lpn \cup {None}] /\ restarts' \in 0 .. Restarts
      /\ orphan' \in [Fn -> SUBSET Lpn]
  BY <1>0, <1>1 DEF TypeOK
<1>5. Clearing'
  <2> SUFFICES ASSUME NEW g \in Fn
               PROVE  /\ clearing'[g] = "found" => expired'[g] \in Lpn
                      /\ clearing'[g] = "half" /\ expired'[g] # None
                           => slot'[g][expired'[g]] # Idle
    BY DEF Clearing
  <2>1. CASE g = f BY <1>0, <1>1, <2>1 DEF TypeOK
  <2>2. CASE g # f
    <3>1. slot'[g] = slot[g] /\ clearing'[g] = clearing[g] /\ expired'[g] = expired[g]
      BY <1>0, <1>1, <2>2 DEF TypeOK
    <3> QED BY <1>0, <3>1 DEF Clearing
  <2> QED BY <2>1, <2>2
<1>6. ASSUME NEW g \in Fn PROVE Taken(g)' \subseteq Taken(g)
  <2> SUFFICES ASSUME NEW l \in Lpn, slot'[g][l] # Idle \/ l \in orphan'[g]
               PROVE  slot[g][l] # Idle \/ l \in orphan[g]
    BY <1>4 DEF Taken
  <2>1. l \in orphan'[g] => l \in orphan[g] \/ (g = f /\ l = k /\ k # None)
    BY <1>0, <1>1 DEF TypeOK
  <2> QED BY <1>1, <1>2, <2>1
<1>7. \A g \in Fn, l \in Lpn : slot'[g][l] = slot[g][l] \/ slot'[g][l] = Idle BY <1>2
<1> QED BY <1>1, <1>3, <1>4, <1>5, <1>6, <1>7, SlotsCleared

LEMMA NextFnRestart ==
  ASSUME LInv, NEW f \in Fn, FnRestart(f)
  PROVE  LInv'
<1>0. TypeOK /\ Clearing BY DEF LInv
<1>1. \A g \in Fn, l \in Lpn : slot'[g][l] = IF g = f THEN Idle ELSE slot[g][l]
  BY <1>0 DEF FnRestart, TypeOK
<1>2. slot' \in [Fn -> [Lpn -> SlotType \cup {Idle}]]
  BY <1>0 DEF FnRestart, TypeOK
<1>3. /\ clearing' \in [Fn -> {"no", "found", "half"}]
      /\ expired' \in [Fn -> Lpn \cup {None}] /\ restarts' \in 0 .. Restarts
      /\ orphan' \in [Fn -> SUBSET Lpn]
  BY <1>0, FriendshipAssumption DEF TypeOK, FnRestart
<1>4. Clearing'
  <2> SUFFICES ASSUME NEW g \in Fn
               PROVE  /\ clearing'[g] = "found" => expired'[g] \in Lpn
                      /\ clearing'[g] = "half" /\ expired'[g] # None
                           => slot'[g][expired'[g]] # Idle
    BY DEF Clearing
  <2>1. CASE g = f BY <1>0, <2>1 DEF TypeOK, FnRestart
  <2>2. CASE g # f
    <3>1. slot'[g] = slot[g] /\ clearing'[g] = clearing[g] /\ expired'[g] = expired[g]
      BY <1>0, <2>2 DEF TypeOK, FnRestart
    <3> QED BY <1>0, <3>1 DEF Clearing
  <2> QED BY <2>1, <2>2
<1>5. ASSUME NEW g \in Fn PROVE Taken(g)' \subseteq Taken(g)
  <2>1. orphan'[g] \subseteq orphan[g] BY <1>0 DEF FnRestart, TypeOK
  <2> QED BY <1>1, <2>1 DEF Taken
<1>6. \A g \in Fn, l \in Lpn : slot'[g][l] = slot[g][l] \/ slot'[g][l] = Idle BY <1>1
<1> QED BY <1>2, <1>3, <1>4, <1>5, <1>6, SlotsCleared DEF FnRestart

\* A message the mesh has not sent before is not on its way, not kept and not
\* received, so a slot that takes it has news for its LPN.
LEMMA NextMeshMessage ==
  ASSUME LInv, NEW m \in Msgs, NEW heard \in SUBSET Fn, MeshMessage(m, heard)
  PROVE  LInv'
<1>0. TypeOK BY DEF LInv
<1>1. /\ m \in unsent /\ unsent' = unsent \ {m}
      /\ UNCHANGED <<lpn, clearing, expired, orphan, air, restarts, got>>
  BY DEF MeshMessage, fnProc
<1>2. ASSUME NEW f \in Fn, NEW l \in Lpn, slot'[f][l] # slot[f][l]
      PROVE  /\ slot[f][l] # Idle /\ slot[f][l].st = "linked"
             /\ slot'[f][l] \in SlotType /\ slot'[f][l].st = "linked"
             /\ slot'[f][l].pkt = m /\ slot'[f][l].flag = "rx"
             /\ slot'[f][l].groups = slot[f][l].groups
  <2> DEFINE s == slot[f][l]
  <2>1. s # Idle /\ s.st = "linked" /\ slot'[f][l] = [s EXCEPT !.pkt = m, !.flag = "rx"]
    BY <1>0, <1>2 DEF TypeOK, MeshMessage, Push
  <2>2. s \in SlotType BY <1>0, <2>1, SlotOf
  <2> HIDE DEF s
  <2>3. [s EXCEPT !.pkt = m, !.flag = "rx"] \in SlotType BY <2>2 DEF SlotType
  <2>4. /\ [s EXCEPT !.pkt = m, !.flag = "rx"].st = s.st
        /\ [s EXCEPT !.pkt = m, !.flag = "rx"].pkt = m
        /\ [s EXCEPT !.pkt = m, !.flag = "rx"].flag = "rx"
    BY <2>2 DEF SlotType
  <2>5. [s EXCEPT !.pkt = m, !.flag = "rx"].groups = s.groups BY <2>2 DEF SlotType
  <2> QED BY <2>1, <2>3, <2>4, <2>5 DEF s
<1>3. \A f \in Fn, l \in Lpn : slot'[f][l] # Idle <=> slot[f][l] # Idle
  BY <1>2 DEF SlotType, Idle
<1>6. Clearing' BY <1>0, <1>1, <1>3 DEF LInv, Clearing, TypeOK
<1>4. TypeOK'
  <2>1. slot' = [f \in Fn |-> [l \in Lpn |-> slot'[f][l]]] BY <1>0 DEF MeshMessage, TypeOK
  <2>2. \A f \in Fn, l \in Lpn : slot'[f][l] \in SlotType \cup {Idle}
    BY <1>0, <1>2 DEF TypeOK
  <2>3. slot' \in [Fn -> [Lpn -> SlotType \cup {Idle}]] BY <2>1, <2>2
  <2>4. ASSUME NEW f \in Fn PROVE Cardinality(Taken(f)') <= SlotMax
    <3>1. Taken(f)' \subseteq Taken(f) BY <1>1, <1>3 DEF Taken
    <3> QED BY <1>0, <3>1, FewerSlots
  <2> QED BY <1>0, <1>1, <2>3, <2>4 DEF TypeOK
<1>5. ASSUME NEW l \in Lpn PROVE Good(l)'
  <2>0. Good(l) /\ \A p \in air : p.fn \in Fn BY <1>0 DEF LInv, TypeOK, PacketType
  <2>1. Polls(l)' BY <1>1, <2>0 DEF Good, Polls
  <2>2. OnTheWay(l)'
    <3> SUFFICES ASSUME NEW p \in air, p.lpn = l PROVE Search(l, p)' \/ Exchange(l, p)'
      BY <1>1 DEF OnTheWay
    <3>1. CASE Search(l, p) BY <1>1, <1>2, <2>0, <3>1 DEF Search
    <3>2. CASE Exchange(l, p) BY <1>1, <3>2 DEF Exchange
    <3> QED BY <2>0, <3>1, <3>2 DEF Good, OnTheWay
  <2>3. Answers(l)'
    <3> SUFFICES ASSUME NEW p \in air, p.lpn = l
                 PROVE  /\ p.kind = "cached" => p.pkt \in Msgs \ (got[l] \cup unsent')
                        /\ slot'[p.fn][l] # Idle =>
                             /\ p.kind = "update" => /\ slot'[p.fn][l].flag # "tx2lpn"
                                                     /\ p.type = "group" => slot'[p.fn][l].groups = Reported(l)
                             /\ p.kind = "cached" =>
                                  \/ /\ slot'[p.fn][l].flag = "tx2lpn"
                                     /\ slot'[p.fn][l].pkt = p.pkt
                                     /\ slot'[p.fn][l].fsn = lpn[l].fsn
                                  \/ slot'[p.fn][l].flag = "rx" /\ slot'[p.fn][l].pkt # p.pkt
      BY <1>1 DEF Answers
    <3>1. p.fn \in Fn BY <2>0
    <3>2. p.kind = "cached" => p.pkt \in Msgs \ (got[l] \cup unsent)
      BY <2>0 DEF Good, Answers
    <3>3. CASE slot'[p.fn][l] = slot[p.fn][l] BY <1>1, <2>0, <3>3 DEF Good, Answers
    <3>4. CASE slot'[p.fn][l] # slot[p.fn][l]
      <4>1. /\ slot[p.fn][l] # Idle /\ slot'[p.fn][l].flag = "rx" /\ slot'[p.fn][l].pkt = m
            /\ slot'[p.fn][l].groups = slot[p.fn][l].groups
        BY <1>2, <3>1, <3>4
      <4>2. p.kind = "update" /\ p.type = "group" => slot[p.fn][l].groups = Reported(l)
        BY <2>0, <4>1 DEF Good, Answers
      <4> QED BY <1>1, <3>2, <4>1, <4>2
    <3> QED BY <3>3, <3>4
  <2>4. Kept(l)'
    <3>1. m \notin got[l] /\ got[l] \cap unsent' = {} BY <1>1, <2>0 DEF Good, Kept
    <3>2. ASSUME NEW f \in Fn, slot'[f][l] # Idle
          PROVE  /\ slot'[f][l].st = "offer" => slot'[f][l].flag = "none"
                 /\ slot'[f][l].flag # "none" => slot'[f][l].pkt \in Msgs \ unsent'
                 /\ Session(f, l) =>
                      /\ slot'[f][l].flag = "rx" => slot'[f][l].pkt \notin got[l]
                      /\ slot'[f][l].flag = "tx2lpn" =>
                           (slot'[f][l].fsn = lpn[l].fsn <=> slot'[f][l].pkt \notin got[l])
      <4>1. CASE slot'[f][l] = slot[f][l] BY <1>1, <2>0, <3>2, <4>1 DEF Good, Kept
      <4>2. CASE slot'[f][l] # slot[f][l] BY <1>1, <1>2, <3>1, <4>2
      <4> QED BY <4>1, <4>2
    <3>3. \A f \in Fn : Session(f, l)' <=> Session(f, l) BY <1>1 DEF Session
    <3> QED BY <1>1, <3>1, <3>2, <3>3 DEF Kept
  <2>5. Known(l)'
    <3> SUFFICES ASSUME NEW f \in Fn, Session(f, l), ~lpn[l].offered, lpn[l].type = "online",
                        slot'[f][l] # Idle
                 PROVE  slot'[f][l].groups = Reported(l)
      BY <1>1 DEF Known, Session
    <3>1. slot[f][l] = Idle \/ slot[f][l].groups = Reported(l) BY <2>0 DEF Good, Known
    <3>2. CASE slot'[f][l] = slot[f][l] BY <3>1, <3>2
    <3>3. CASE slot'[f][l] # slot[f][l]
      <4>1. slot[f][l] # Idle /\ slot'[f][l].groups = slot[f][l].groups BY <1>2, <3>3
      <4> QED BY <3>1, <4>1
    <3> QED BY <3>2, <3>3
  <2> QED BY <2>1, <2>2, <2>3, <2>4, <2>5 DEF Good
<1> QED BY <1>4, <1>5, <1>6 DEF LInv

LEMMA NextLInv == LInv /\ [Next]_vars => LInv'
<1> SUFFICES ASSUME LInv, [Next]_vars PROVE LInv'
  OBVIOUS
<1>1. ASSUME NEW l \in Lpn, Request(l) PROVE LInv' BY <1>1, NextRequest
<1>2. ASSUME NEW l \in Lpn, OfferTimeout(l) PROVE LInv' BY <1>2, NextOfferTimeout
<1>3. ASSUME NEW l \in Lpn, Poll(l) PROVE LInv' BY <1>3, NextPoll
<1>4. ASSUME NEW l \in Lpn, Answered(l) PROVE LInv' BY <1>4, NextAnswered
<1>5. ASSUME NEW l \in Lpn, PollTimeout(l) PROVE LInv' BY <1>5, NextPollTimeout
<1>6. ASSUME NEW l \in Lpn, RxOffer(l) PROVE LInv' BY <1>6, NextRxOffer
<1>7. ASSUME NEW l \in Lpn, RxAnswer(l) PROVE LInv' BY <1>7, NextRxAnswer
<1>8. ASSUME NEW l \in Lpn, LpnRestart(l) PROVE LInv' BY <1>8, NextLpnRestart
<1>9. ASSUME NEW l \in Lpn, NEW f \in Fn, FnRequest(f, l) PROVE LInv' BY <1>9, NextFnRequest
<1>10. ASSUME NEW l \in Lpn, NEW f \in Fn, FnPoll(f, l) PROVE LInv' BY <1>10, NextFnPoll
<1>11. ASSUME NEW l \in Lpn, NEW f \in Fn, FnSilent(f, l) PROVE LInv' BY <1>11, NextFnSilent
<1>12. ASSUME NEW f \in Fn, FnClear(f) PROVE LInv' BY <1>12, NextFnClear
<1>13. ASSUME NEW f \in Fn, FnRestart(f) PROVE LInv' BY <1>13, NextFnRestart
<1>14. ASSUME NEW m \in Msgs, NEW heard \in SUBSET Fn, MeshMessage(m, heard) PROVE LInv'
  BY <1>14, NextMeshMessage
<1>15. CASE UNCHANGED vars BY <1>15, PacketLost DEF vars, fnProc
<1>16. ASSUME NEW f \in Fn, FnWiped(f) PROVE LInv' BY <1>16, NextFnWiped
<1> QED BY <1>1, <1>2, <1>3, <1>4, <1>5, <1>6, <1>7, <1>8, <1>9, <1>10, <1>11, <1>12, <1>13,
           <1>14, <1>15, <1>16 DEF Next


\* A slot that has sent its message forgets it because of a POLL only if the bit
\* of the POLL says that the answer has come.
LEMMA PollForgets ==
  ASSUME LInv, NEW g \in Fn, NEW k \in Lpn, FnPoll(g, k),
         NEW f \in Fn, NEW l \in Lpn, slot[f][l] # Idle, slot[f][l].flag = "tx2lpn",
         slot'[f][l] # Idle, slot'[f][l].flag = "none"
  PROVE  slot[f][l].pkt \in got[l]
<1> DEFINE s == slot[f][l]
           next(u, p, i) == [u EXCEPT !.st = "linked", !.type = p.type, !.flag = Flag(u, p),
                                   !.fsn = Fsn(u, p),
                                   !.pkt = IF Flag(u, p) = "none" THEN None ELSE @,
                                   !.groups = IF p.type = "group" THEN Reported(i) ELSE @]
           after(p) == next(s, p, l)
<1>0. TypeOK /\ Good(l) BY DEF LInv
<1>1. s \in SlotType BY <1>0, SlotOf
<1>2. slot' # slot /\ slot'[f][l] # slot[f][l] OBVIOUS
<1>3. PICK p \in air :
        /\ p.kind = "poll" /\ p.lpn = l /\ p.fn = f
        /\ slot'[f][l] = after(p)
  <2>1. PICK p \in air :
          /\ p.kind = "poll" /\ p.lpn = k /\ p.fn = g
          /\ slot[g][k] # Idle
          /\ slot' = [slot EXCEPT ![g][k] = next(slot[g][k], p, k)]
    BY <1>2 DEF FnPoll
  <2> HIDE DEF next
  <2>2. f = g /\ l = k BY <1>0, <1>2, <2>1 DEF TypeOK
  <2>3. slot'[f][l] = next(s, p, l) BY <1>0, <2>1, <2>2 DEF TypeOK
  <2> QED BY <2>1, <2>2, <2>3
<1>4. Exchange(l, p) BY <1>0, <1>3 DEF Good, OnTheWay, Search
<1>5. Session(f, l) /\ p.fsn = lpn[l].fsn BY <1>3, <1>4 DEF Exchange, Session
<1>6. after(p).flag = Flag(s, p)
  <2> DEFINE flag == Flag(s, p)
             fsn == Fsn(s, p)
             pkt == IF Flag(s, p) = "none" THEN None ELSE s.pkt
             groups == IF p.type = "group" THEN Reported(l) ELSE s.groups
  <2>1. after(p) = [s EXCEPT !.st = "linked", !.type = p.type, !.flag = flag,
                             !.fsn = fsn, !.pkt = pkt, !.groups = groups]
    OBVIOUS
  <2> HIDE DEF s, flag, fsn, pkt, groups, after
  <2>2. after(p).flag = flag BY <1>1, <2>1 DEF SlotType
  <2> QED BY <2>2 DEF flag
<1> HIDE DEF after
<1>7. s.st # "offer" BY <1>0 DEF Good, Kept
<1>8. s.fsn # lpn[l].fsn BY <1>3, <1>5, <1>6, <1>7 DEF Flag
<1> QED BY <1>0, <1>5, <1>8 DEF Good, Kept

\* The action property of one step.
Forgets ==
  \A f \in Fn, l \in Lpn :
    LET s == slot[f][l]
    IN  s # Idle /\ s.flag = "tx2lpn" /\ slot'[f][l] # Idle /\ slot'[f][l].flag = "none"
          => s.pkt \in got[l] \/ slot'[f][l] = Fresh

LEMMA NextForgets == LInv /\ [Next]_vars => [Forgets]_vars
<1> SUFFICES ASSUME LInv, Next, NEW f \in Fn, NEW l \in Lpn,
                    slot[f][l] # Idle, slot[f][l].flag = "tx2lpn",
                    slot'[f][l] # Idle, slot'[f][l].flag = "none"
             PROVE  slot[f][l].pkt \in got[l] \/ slot'[f][l] = Fresh
  BY DEF Forgets
<1>0. TypeOK BY DEF LInv
<1>1. CASE UNCHANGED slot BY <1>1
<1>2. ASSUME NEW g \in Fn, NEW k \in Lpn, FnRequest(g, k)
      PROVE  slot[f][l].pkt \in got[l] \/ slot'[f][l] = Fresh
  <2>1. UNCHANGED slot \/ slot' = [slot EXCEPT ![g][k] = Fresh] BY <1>2 DEF FnRequest
  <2>2. slot'[f][l] = slot[f][l] \/ slot'[f][l] = Fresh BY <1>0, <2>1 DEF TypeOK
  <2> QED BY <2>2
<1>3. ASSUME NEW g \in Fn, NEW k \in Lpn, FnPoll(g, k)
      PROVE  slot[f][l].pkt \in got[l] \/ slot'[f][l] = Fresh
  BY <1>3, PollForgets
<1>4. ASSUME NEW g \in Fn, FnClear(g)
      PROVE  slot[f][l].pkt \in got[l] \/ slot'[f][l] = Fresh
  BY <1>0, <1>4 DEF FnClear, TypeOK
<1>5. ASSUME NEW g \in Fn, FnRestart(g)
      PROVE  slot[f][l].pkt \in got[l] \/ slot'[f][l] = Fresh
  BY <1>0, <1>5 DEF FnRestart, TypeOK
<1>6. ASSUME NEW m \in Msgs, NEW heard \in SUBSET Fn, MeshMessage(m, heard)
      PROVE  slot[f][l].pkt \in got[l] \/ slot'[f][l] = Fresh
  <2>1. slot'[f][l] # slot[f][l] OBVIOUS
  <2>2. slot[f][l] \in SlotType /\ slot'[f][l] = [slot[f][l] EXCEPT !.pkt = m, !.flag = "rx"]
    BY <1>0, <1>6, <2>1, SlotOf DEF MeshMessage, TypeOK, Push
  <2>3. slot'[f][l].flag = "rx" BY <2>2 DEF SlotType
  <2> QED BY <2>3
<1>7. ASSUME NEW k \in Lpn, \/ Request(k) \/ OfferTimeout(k) \/ Poll(k) \/ Answered(k)
                            \/ PollTimeout(k) \/ RxOffer(k) \/ RxAnswer(k) \/ LpnRestart(k)
      PROVE  UNCHANGED slot
  BY <1>7 DEF Request, OfferTimeout, Poll, Answered, PollTimeout, RxOffer, RxAnswer, LpnRestart
<1>8. ASSUME NEW k \in Lpn, NEW g \in Fn, FnSilent(g, k) PROVE UNCHANGED slot
  BY <1>8 DEF FnSilent
<1>9. ASSUME NEW g \in Fn, FnWiped(g)
      PROVE  slot[f][l].pkt \in got[l] \/ slot'[f][l] = Fresh
  <2>1. slot'[f][l] = slot[f][l] \/ slot'[f][l] = Idle BY <1>0, <1>9 DEF FnWiped, TypeOK
  <2> QED BY <2>1
<1> QED BY <1>1, <1>2, <1>3, <1>4, <1>5, <1>6, <1>7, <1>8, <1>9 DEF Next

-----------------------------------------------------------------------------
\* The inductive invariant LInv holds throughout: in every state the message
\* under way between an LPN and its friend node, the flags on both sides and the
\* packets in the air agree.
THEOREM LinkInvariant == Spec => []LInv
<1>1. Init => LInv BY InitLInv
<1>2. LInv /\ [Next]_vars => LInv' BY NextLInv
<1> QED BY <1>1, <1>2, PTL DEF Spec

\* The types of the nodes' tables; a friend node never uses more than SlotMax
\* slots, and an LPN never counts more than RetryMax polls without an answer.
THEOREM TypeCorrect == Spec => []TypeOK
<1>1. LInv => TypeOK BY DEF LInv
<1> QED BY <1>1, LinkInvariant, PTL

\* No friend node sends a message again that the LPN has received, from it or
\* from another one (lpn_ack2poll_proc and the cache flags of the FN).
THEOREM NothingSentTwice == Spec => []NothingTwice
<1>1. LInv => NothingTwice
  <2> SUFFICES ASSUME LInv, NEW p \in air, p.kind = "cached" PROVE p.pkt \notin got[p.lpn]
    BY DEF NothingTwice
  <2>1. p.lpn \in Lpn BY DEF LInv, TypeOK, PacketType
  <2>2. Answers(p.lpn) BY <2>1 DEF LInv, Good
  <2> QED BY <2>2 DEF Answers
<1> QED BY <1>1, LinkInvariant, PTL

\* An LPN that no longer reports its groups has a friend node that knows those
\* that fit into a POLL, all of them and no others, however packets were lost
\* and nodes started again; fn_rx_push_to_cache keeps their messages.
THEOREM GroupsAlwaysKnown == Spec => []GroupsKnown
<1>1. LInv => GroupsKnown BY DEF LInv, Good, Known, GroupsKnown
<1> QED BY <1>1, LinkInvariant, PTL

\* A friend node forgets a message because of a POLL only if the LPN has it.
THEOREM ForgetsOnlyReceived == Spec => ForgottenIsReceived
<1>1. LInv /\ [Next]_vars => [Forgets]_vars BY NextForgets
<1>2. Spec => [][Forgets]_vars BY <1>1, LinkInvariant, PTL DEF Spec
<1> QED BY <1>2, PTL DEF ForgottenIsReceived, Forgets
=============================================================================
