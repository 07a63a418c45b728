------------------------------ MODULE Friendship ------------------------------
(***************************************************************************)
(* Friend nodes and low-power nodes (common.c, "friend ship").             *)
(*                                                                         *)
(* A low-power node (LPN) sleeps and listens only in a short window after  *)
(* it has sent something.  It looks for a friend node (FN) with REQUEST,   *)
(* takes the first OFFER, and then sends a POLL every two seconds.  The FN *)
(* keeps one mesh message for each of its LPNs, answers a POLL with it, or *)
(* with an UPDATE when there is none, and forgets it when the next POLL    *)
(* comes with the other sequence bit (FSN): the LPN flips the bit when it  *)
(* gets an answer.  An FN has FN_CACHE_LPN_MAX slots and forgets LPNs that *)
(* are silent.                                                             *)
(*                                                                         *)
(* The handlers of received packets run in the radio interrupt, between    *)
(* any two steps of the main loops, friendship_proc_fn (FN) and            *)
(* friendship_proc_lpn (LPN).  A packet that is not received before the    *)
(* window closes is lost.  The library hands a packet to a node once and   *)
(* only if it is for that node (its repetitions are filtered).             *)
(***************************************************************************)
EXTENDS Integers, FiniteSets, Sequences

CONSTANTS Fn, Lpn,    \* the friend nodes and the low-power nodes
          Msgs,       \* messages of the mesh
          Groups,     \* group addresses
          GroupList,  \* GroupList[l]: those of an LPN, in the order of group_address
          ReportMax,  \* the group addresses that fit into a POLL
          Dst,        \* Dst[m]: the LPN or the group it is for
          SlotMax,    \* FN_CACHE_LPN_MAX
          RetryMax,   \* LPN_POLL_RETRY_MAX
          Restarts,   \* bound: restarts of nodes
          None        \* no node, no message

ASSUME FriendshipAssumption ==
  /\ GroupList \in [Lpn -> Seq(Groups)] /\ ReportMax \in Nat
  /\ Dst \in [Msgs -> Lpn \cup Groups]
  /\ SlotMax \in Nat \ {0} /\ RetryMax \in Nat \ {0} /\ Restarts \in Nat
  /\ IsFiniteSet(Lpn)
  /\ Groups \cap Lpn = {} /\ None \notin Fn \cup Lpn \cup Msgs

VARIABLES
  lpn,       \* fs_proc_lpn of each LPN
  slot,      \* fs_proc_fn of each FN: its slot for each LPN, or Idle
  clearing,  \* what friendship_proc_fn is about: "no", "found" a silent slot,
             \* or it has cleared "half" of it, the address
  expired,   \* the LPN of that slot; later the one that has taken it meanwhile
  orphan,    \* slots that have the address of an LPN, but no state
  air,       \* packets on their way; they die with the window of the LPN
  unsent,    \* messages the mesh has not sent yet
  restarts,  \* bounded by Restarts
  got        \* history: messages an LPN has received

fnProc == <<clearing, expired, orphan>>
vars == <<lpn, slot, fnProc, air, unsent, restarts, got>>

PollTypes == {"online", "group"}
\* The first groups of an LPN: a POLL has no room for the rest.
Reported(l) == {GroupList[l][i] : i \in 1 .. Len(GroupList[l]) \cap 1 .. ReportMax}

\* fs_proc_lpn after its initialisation: memset and ST_LPN_REQUEST
Searching ==
  [st |-> "request", fn |-> None, offered |-> FALSE, updated |-> FALSE,
   fsn |-> 0, type |-> "online", cnt |-> 0]
\* fs_proc_fn[i] with lpn_adr = 0
Idle == [st |-> "idle"]
\* ... and after a REQUEST
Fresh ==
  [st |-> "offer", fsn |-> 0, type |-> "online", groups |-> {},
   flag |-> "none", pkt |-> None]

Init ==
  /\ lpn = [l \in Lpn |-> Searching]
  /\ slot = [f \in Fn |-> [l \in Lpn |-> Idle]]
  /\ clearing = [f \in Fn |-> "no"] /\ expired = [f \in Fn |-> None]
  /\ orphan = [f \in Fn |-> {}]
  /\ air = {} /\ unsent = Msgs /\ restarts = 0
  /\ got = [l \in Lpn |-> {}]

-----------------------------------------------------------------------------
\* Packets between l and friend nodes; the fields a kind does not use are fixed.
Packet(kind, l, f, fsn, type, pkt) ==
  [kind |-> kind, lpn |-> l, fn |-> f, fsn |-> fsn, type |-> type, pkt |-> pkt]
Elsewhere(l) == {p \in air : p.lpn # l}

-----------------------------------------------------------------------------
\* The LPN: friendship_proc_lpn, with interrupts disabled

\* ST_LPN_REQUEST: a broadcast to all friend nodes
Request(l) ==
  /\ lpn[l].st = "request"
  /\ lpn' = [lpn EXCEPT ![l].st = "offer"]
  /\ air' = air \cup {Packet("request", l, f, 0, "online", None) : f \in Fn}
  /\ UNCHANGED <<slot, fnProc, unsent, restarts, got>>

\* LPN_REQUEST_REC_WIN_MS without an OFFER
OfferTimeout(l) ==
  /\ lpn[l].st = "offer"
  /\ lpn' = [lpn EXCEPT ![l].st = "request"]
  /\ air' = Elsewhere(l)
  /\ UNCHANGED <<slot, fnProc, unsent, restarts, got>>

\* Seeded fault: the type of the POLL goes back before the FN has echoed it.
TypeOnce(x) == "online"
\* The first POLL after an OFFER starts to report the groups.
Type(x) == IF x.offered THEN "group" ELSE x.type

\* Seeded fault: polls are not counted.
NotCounted(x) == x.cnt
Counted(x) == x.cnt + 1
\* ST_LPN_POLL.  The LPN has slept, so OFFERs of other nodes are gone.
Poll(l) ==
  LET x == lpn[l]
      type == Type(x)
  IN  /\ x.st = "poll"
      /\ air' = Elsewhere(l) \cup {Packet("poll", l, x.fn, x.fsn, type, None)}
      /\ lpn' = [lpn EXCEPT ![l] =
                   [x EXCEPT !.st = "update", !.offered = FALSE, !.updated = FALSE,
                             !.cnt = Counted(x), !.type = type]]
      /\ UNCHANGED <<slot, fnProc, unsent, restarts, got>>

\* ST_LPN_UPDATE, after an answer: sleep, then poll again.
Answered(l) ==
  /\ lpn[l].st = "update" /\ lpn[l].updated
  /\ lpn' = [lpn EXCEPT ![l].st = "poll", ![l].updated = FALSE]
  /\ UNCHANGED <<slot, fnProc, air, unsent, restarts, got>>

\* Seeded fault: the LPN keeps its friend.
NeverGivesUp(x) == FALSE
GivesUp(x) == x.cnt >= RetryMax
\* ST_LPN_UPDATE, LPN_POLL_REC_WIN_MS without an answer
PollTimeout(l) ==
  /\ lpn[l].st = "update" /\ ~lpn[l].updated
  /\ lpn' = [lpn EXCEPT ![l] = IF GivesUp(@) THEN Searching ELSE [@ EXCEPT !.st = "poll"]]
  /\ air' = Elsewhere(l)
  /\ UNCHANGED <<slot, fnProc, unsent, restarts, got>>

-----------------------------------------------------------------------------
\* The LPN: lpn_rx_friendship_cmd_proc, in the radio interrupt

RxOffer(l) ==
  \E p \in air :
    /\ p.kind = "offer" /\ p.lpn = l /\ lpn[l].st = "offer"
    /\ lpn' = [lpn EXCEPT ![l].st = "poll", ![l].fn = p.fn, ![l].offered = TRUE]
    /\ air' = air \ {p}
    /\ UNCHANGED <<slot, fnProc, unsent, restarts, got>>

\* Seeded fault: the bit is flipped by an UPDATE only.
FlipOnUpdate(x, p) == IF p.kind = "update" THEN 1 - x.fsn ELSE x.fsn
Flip(x, p) == 1 - x.fsn

\* lpn_ack2poll_proc: an UPDATE or a cached message answers the POLL, and the
\* receiver is switched off.
RxAnswer(l) ==
  \E p \in air :
    LET x == lpn[l]
        echoed == p.kind = "update" /\ x.type # "online" /\ x.type = p.type
    IN  /\ p.kind \in {"update", "cached"} /\ p.lpn = l
        /\ x.st = "update" /\ ~x.updated
        /\ lpn' = [lpn EXCEPT ![l] =
                     [x EXCEPT !.updated = TRUE, !.cnt = 0, !.fsn = Flip(x, p),
                               !.type = IF echoed THEN "online" ELSE @]]
        /\ air' = Elsewhere(l)
        /\ got' = IF p.kind = "cached" THEN [got EXCEPT ![l] = @ \cup {p.pkt}] ELSE got
        /\ UNCHANGED <<slot, fnProc, unsent, restarts>>

-----------------------------------------------------------------------------
\* The FN: fn_rx_friendship_cmd_proc, in the radio interrupt

\* lpn_adr is set
Taken(f) == {l \in Lpn : slot[f][l] # Idle} \cup orphan[f]
Free(f) == Cardinality(Taken(f)) < SlotMax
\* get_proc_by_request: the slot of this LPN, or one without an address; it may be
\* the one that is half cleared.
TakesHalfCleared(f, l) ==
  IF l \in Taken(f) \/ clearing[f] # "half" \/ expired[f] # None
  THEN UNCHANGED expired
  ELSE \/ expired' = [expired EXCEPT ![f] = l]
       \/ Cardinality(Taken(f)) + 1 < SlotMax /\ UNCHANGED expired
\* Seeded fault: the offer is not sent.
NoOffer(f, l) == {}
Offer(f, l) == {Packet("offer", l, f, 0, "online", None)}
FnRequest(f, l) ==
  \E p \in air :
    /\ p.kind = "request" /\ p.lpn = l /\ p.fn = f
    /\ IF l \in Taken(f) \/ Free(f)
       THEN /\ slot' = [slot EXCEPT ![f][l] = Fresh]
            /\ orphan' = [orphan EXCEPT ![f] = @ \ {l}]
            /\ TakesHalfCleared(f, l)
            /\ air' = (air \ {p}) \cup Offer(f, l)
       ELSE /\ air' = air \ {p}
            /\ UNCHANGED <<slot, expired, orphan>>
    /\ UNCHANGED <<lpn, clearing, unsent, restarts, got>>

\* Seeded fault: the bit of the POLL that is answered is not remembered.
FsnForgotten(s, p) == s.fsn
Fsn(s, p) == IF s.flag = "rx" THEN p.fsn ELSE s.fsn
\* cache_flag when a POLL comes: a message that has been sent before is
\* forgotten when the bit has changed.
Flag(s, p) ==
  IF s.st = "offer" THEN s.flag
  ELSE IF s.flag = "rx" THEN "tx2lpn"
  ELSE IF s.flag = "tx2lpn" /\ s.fsn # p.fsn THEN "none" ELSE s.flag

FnPoll(f, l) ==
  \E p \in air :
    LET s == slot[f][l]
        flag == Flag(s, p)
    IN  /\ p.kind = "poll" /\ p.lpn = l /\ p.fn = f
        /\ IF s = Idle
           THEN air' = air \ {p} /\ UNCHANGED slot
           ELSE /\ slot' = [slot EXCEPT ![f][l] =
                              [s EXCEPT !.st = "linked", !.type = p.type, !.flag = flag,
                                        !.fsn = Fsn(s, p),
                                        !.pkt = IF flag = "none" THEN None ELSE @,
                                        !.groups = IF p.type = "group" THEN Reported(l) ELSE @]]
                /\ air' = (air \ {p}) \cup
                     {IF s.st = "linked" /\ flag # "none"
                      THEN Packet("cached", l, f, 0, "online", s.pkt)
                      ELSE Packet("update", l, f, 0, p.type, None)}
        /\ UNCHANGED <<lpn, fnProc, unsent, restarts, got>>

\* fn_rx_push_to_cache: a message of the mesh takes the place of the one before.
For(m, l, s) == Dst[m] \in {l} \cup s.groups
Push(s, m, l) ==
  IF s # Idle /\ s.st = "linked" /\ For(m, l, s)
  THEN [s EXCEPT !.pkt = m, !.flag = "rx"] ELSE s
MeshMessage(m, heard) ==
  /\ m \in unsent /\ unsent' = unsent \ {m}
  /\ slot' = [f \in Fn |-> IF f \in heard THEN [l \in Lpn |-> Push(slot[f][l], m, l)]
                           ELSE slot[f]]
  /\ UNCHANGED <<lpn, fnProc, air, restarts, got>>

-----------------------------------------------------------------------------
\* The FN: friendship_proc_fn, in the main loop.  While l polls f or tries to,
\* its silence is shorter than both timeouts, FN_POLL_2_OFFER_TIMEOUT_MS
\* (static assertion before friendship_proc_fn) and PollTimeout.
Session(f, l) == lpn[l].fn = f /\ lpn[l].st \in {"poll", "update"}
\* Seeded fault: a link has no timeout.
SilentOffer(f, l) == slot[f][l] # Idle /\ slot[f][l].st = "offer" /\ ~Session(f, l)
Silent(f, l) == slot[f][l] # Idle /\ ~Session(f, l)
FnSilent(f, l) ==
  /\ clearing[f] = "no" /\ Silent(f, l)
  /\ clearing' = [clearing EXCEPT ![f] = "found"]
  /\ expired' = [expired EXCEPT ![f] = l]
  /\ UNCHANGED <<lpn, slot, orphan, air, unsent, restarts, got>>

\* clear_proc_st_fn, a memset with interrupts enabled: the interrupt may have been
\* there since the test.  First the address: the slot is nobody's, and what
\* is left in it is found by no packet.
FnClear(f) ==
  /\ clearing[f] = "found"
  /\ clearing' = [clearing EXCEPT ![f] = "half"]
  /\ slot' = [slot EXCEPT ![f][expired[f]] = Idle]
  /\ expired' = [expired EXCEPT ![f] = None]
  /\ UNCHANGED <<lpn, orphan, air, unsent, restarts, got>>

\* Then the rest.  An LPN that has taken the slot in between loses its state.
FnWiped(f) ==
  /\ clearing[f] = "half"
  /\ clearing' = [clearing EXCEPT ![f] = "no"]
  /\ slot' = [slot EXCEPT ![f] = [l \in Lpn |-> IF l = expired[f] THEN Idle ELSE @[l]]]
  /\ orphan' = [orphan EXCEPT ![f] = @ \cup ({expired[f]} \ {None})]
  /\ expired' = [expired EXCEPT ![f] = None]
  /\ UNCHANGED <<lpn, air, unsent, restarts, got>>

\* A node loses its power and starts again.
LpnRestart(l) ==
  /\ restarts < Restarts /\ restarts' = restarts + 1
  /\ lpn' = [lpn EXCEPT ![l] = Searching]
  /\ air' = Elsewhere(l)
  /\ UNCHANGED <<slot, fnProc, unsent, got>>

FnRestart(f) ==
  /\ restarts < Restarts /\ restarts' = restarts + 1
  /\ slot' = [slot EXCEPT ![f] = [l \in Lpn |-> Idle]]
  /\ clearing' = [clearing EXCEPT ![f] = "no"]
  /\ expired' = [expired EXCEPT ![f] = None]
  /\ orphan' = [orphan EXCEPT ![f] = {}]
  /\ air' = {p \in air : p.fn # f}
  /\ UNCHANGED <<lpn, unsent, got>>

MainLpn(l) ==
  Request(l) \/ OfferTimeout(l) \/ Poll(l) \/ Answered(l) \/ PollTimeout(l)

Next ==
  \/ \E l \in Lpn :
       \/ Request(l) \/ OfferTimeout(l) \/ Poll(l) \/ Answered(l) \/ PollTimeout(l)
       \/ RxOffer(l) \/ RxAnswer(l)
       \/ \E f \in Fn : FnRequest(f, l) \/ FnPoll(f, l) \/ FnSilent(f, l)
       \/ LpnRestart(l)
  \/ \E f \in Fn : FnClear(f) \/ FnWiped(f) \/ FnRestart(f)
  \/ \E m \in Msgs, heard \in SUBSET Fn : MeshMessage(m, heard)

Spec == Init /\ [][Next]_vars

\* The main loops run, silent slots are found, and the radio does not lose
\* every packet of one kind for ever.
Fairness ==
  /\ \A l \in Lpn :
       /\ WF_vars(MainLpn(l))
       /\ SF_vars(RxOffer(l)) /\ SF_vars(RxAnswer(l))
       /\ SF_vars(\E f \in Fn : FnRequest(f, l))
       /\ SF_vars(\E f \in Fn : FnPoll(f, l))
  /\ \A f \in Fn : WF_vars(FnClear(f) \/ FnWiped(f) \/ \E l \in Lpn : FnSilent(f, l))
FairSpec == Spec /\ Fairness

-----------------------------------------------------------------------------
LpnType ==
  [st : {"request", "offer", "poll", "update"}, fn : Fn \cup {None},
   offered : BOOLEAN, updated : BOOLEAN, fsn : {0, 1}, type : PollTypes, cnt : 0 .. RetryMax]
SlotType ==
  [st : {"offer", "linked"}, fsn : {0, 1}, type : PollTypes, groups : SUBSET Groups,
   flag : {"none", "rx", "tx2lpn"}, pkt : Msgs \cup {None}]
PacketType ==
  [kind : {"request", "offer", "poll", "update", "cached"}, lpn : Lpn, fn : Fn,
   fsn : {0, 1}, type : PollTypes, pkt : Msgs \cup {None}]
TypeOK ==
  /\ lpn \in [Lpn -> LpnType]
  /\ slot \in [Fn -> [Lpn -> SlotType \cup {Idle}]]
  /\ clearing \in [Fn -> {"no", "found", "half"}] /\ expired \in [Fn -> Lpn \cup {None}]
  /\ orphan \in [Fn -> SUBSET Lpn]
  /\ \A f \in Fn : Cardinality(Taken(f)) <= SlotMax
  /\ air \subseteq PacketType
  /\ unsent \subseteq Msgs /\ restarts \in 0 .. Restarts
  /\ got \in [Lpn -> SUBSET Msgs]

\* Action property: a friend node forgets a message because of a POLL only if
\* the LPN has received that message, whatever was lost, repeated, overwritten
\* or relinked in between: the sequence bit of the LPN tells the FN so.
ForgottenIsReceived ==
  [][\A f \in Fn, l \in Lpn :
       LET s == slot[f][l]
       IN  s # Idle /\ s.flag = "tx2lpn" /\ slot'[f][l] # Idle /\ slot'[f][l].flag = "none"
             => s.pkt \in got[l] \/ slot'[f][l] = Fresh]_vars

\* Safety: no friend node sends a message again that the LPN has received from
\* it or from another one: the answers on their way to an LPN are new to it.
NothingTwice == \A p \in air : p.kind = "cached" => p.pkt \notin got[p.lpn]

\* Safety: an LPN that no longer reports its groups in a POLL has a friend node
\* that knows all the groups that fit into one, and so keeps messages for them.
\* The friend node never learns of the others.
GroupsKnown ==
  \A l \in Lpn : \A f \in Fn :
    Session(f, l) /\ ~lpn[l].offered /\ lpn[l].type = "online"
      => slot[f][l] = Idle \/ slot[f][l].groups = Reported(l)

\* Liveness: an LPN finds a friend node again and again, after restarts and
\* when its friend node has forgotten it, unless friendship_proc_fn keeps clearing
\* slots of it whose OFFER it is about to receive or has accepted.
Linked(l) == lpn[l].st = "update" /\ lpn[l].updated
Offered(f, l) == \E p \in air : p.kind = "offer" /\ p.lpn = l /\ p.fn = f
ClearedTooLate(l) ==
  \E f \in Fn : /\ clearing'[f] # clearing[f]
                /\ slot[f][l] # Idle /\ slot'[f][l] = Idle
                /\ Offered(f, l) \/ Session(f, l)
FindsFriend == \A l \in Lpn : []<>Linked(l) \/ []<><<ClearedTooLate(l)>>_vars

\* Liveness: a message that is kept for an LPN is received, or gives way to a
\* newer one or to a loss of the link; none is kept for ever for an LPN that
\* lacks it.
Lacking(f, l) ==
  slot[f][l] # Idle /\ slot[f][l].flag # "none" /\ slot[f][l].pkt \notin got[l]
NothingKept == \A f \in Fn, l \in Lpn : []<>~Lacking(f, l)
=============================================================================
