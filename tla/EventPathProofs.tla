-------------------------- MODULE EventPathProofs --------------------------
(***************************************************************************)
(* Theorems about the events' way to idle clients, for every number of     *)
(* clients, kinds of events, pushing threads and events: nothing that a    *)
(* client is owed gets lost but in the two places LossesKnown names.       *)
(***************************************************************************)
EXTENDS EventPath, TLAPS

(* The variables have their types.                                         *)
TypeInv ==
    /\ events \in Seq(Flags) /\ posted \in Nat /\ last \in Nat
    /\ mpc \in {"free", "post", "clear", "wait", "reply", "reset"}
    /\ client \in Clients \cup {NoClient} /\ asked \subseteq Flags
    /\ sendQueue \in Seq(Flags) /\ spc \in {"poll", "send", "store"}
    /\ at \in Nat /\ left \subseteq Clients /\ writes \in Clients \cup {NoClient}
    /\ sload \subseteq Flags /\ mload \subseteq Flags
    /\ active \in [Clients -> SUBSET Flags]
    /\ owed \in [Clients -> SUBSET Flags]
    /\ lost \in [Clients -> SUBSET Flags]

(* The tick's loop ends inside m_eventQueue, and the sending is at a       *)
(* message of the queue it has locked.                                     *)
PlaceInv ==
    /\ mpc = "post" => last <= Len(events) /\ posted < last
    /\ mpc = "clear" => last <= Len(events) /\ posted = last
    /\ spc # "poll" => at \in 1..Len(sendQueue)
    /\ mpc \in {"wait", "reply", "reset"} => client \in Clients

(* The two threads update ActiveIdleFlags by a load and a store each.  The *)
(* flags only shrink between the loads and stores of the sending thread,   *)
(* and only grow between those of doIdle.                                  *)
LoadInv ==
    /\ spc = "store" => writes \in Clients /\ active[writes] \subseteq sload
    /\ mpc = "reset" => mload \subseteq active[client]

(* An event the tick has not come to.                                      *)
ToPost(f) == \E i \in 1..Len(events) : events[i] = f /\ (mpc \in {"post", "clear"} => i > posted)

(* A message that has not come to this client.                             *)
ToSend(c, f) ==
    \E i \in 1..Len(sendQueue) :
        /\ sendQueue[i] = f
        /\ spc = "poll" \/ i > at \/ (i = at /\ (c \in left \/ (spc = "store" /\ writes = c)))

(* What is owed and not lost is one of the two, or remembered.             *)
CoverInv == \A c \in Clients : \A f \in owed[c] \ lost[c] : ToPost(f) \/ ToSend(c, f) \/ f \in active[c]

(* What every step keeps.                                                  *)
Inv == TypeInv /\ PlaceInv /\ LoadInv /\ CoverInv
-----------------------------------------------------------------------------
(* Nothing is owed at the start.                                           *)
LEMMA InitInv == Init => Inv
<1> SUFFICES ASSUME Init PROVE Inv
  OBVIOUS
<1>1. TypeInv
  BY DEF Init, TypeInv
<1>2. PlaceInv /\ LoadInv /\ CoverInv
  BY DEF Init, PlaceInv, LoadInv, CoverInv
<1> QED
  BY <1>1, <1>2 DEF Inv

(* A step of the queues' and flags' users in which nothing more is owed,   *)
(* less is not lost, and what is on its way or remembered stays so.        *)
LEMMA CoverSame ==
    ASSUME Inv,
           \A c \in Clients : owed'[c] \ lost'[c] \subseteq owed[c] \ lost[c],
           \A c \in Clients : \A f \in owed'[c] \ lost'[c] :
               /\ ToPost(f) => ToPost(f)' \/ ToSend(c, f)' \/ f \in active'[c]
               /\ ToSend(c, f) => ToSend(c, f)' \/ f \in active'[c]
               /\ f \in active[c] => f \in active'[c]
    PROVE  CoverInv'
BY DEF Inv, CoverInv

(* Pushing: the new event is one that the tick has not come to.            *)
LEMMA PushStep ==
    ASSUME Inv, NEW thread, NEW f \in Flags, PushEvent(thread, f)
    PROVE  Inv'
<1> USE DEF Inv, TypeInv, PlaceInv, LoadInv
<1>1. /\ events' = Append(events, f)
      /\ owed' = [c \in Clients |-> owed[c] \cup {f}]
      /\ lost' = [c \in Clients |-> lost[c] \ {f}]
      /\ UNCHANGED <<posted, last, mpc, client, asked, mload, sendQueue, spc, at, left, writes, sload, active>>
  BY DEF PushEvent, tickVars, mainVars, threadVars
<1>2. /\ events' \in Seq(Flags) /\ Len(events') = Len(events) + 1 /\ events'[Len(events) + 1] = f
      /\ \A i \in 1..Len(events) : events'[i] = events[i]
  BY <1>1
<1>3. TypeInv' /\ PlaceInv' /\ LoadInv'
  BY <1>1, <1>2
<1>4. ASSUME NEW c \in Clients, NEW g \in owed'[c] \ lost'[c]
      PROVE  ToPost(g)' \/ ToSend(c, g)' \/ g \in active'[c]
  <2>1. CASE g = f
    <3>1. Len(events) + 1 \in 1..Len(events') /\ (mpc' \in {"post", "clear"} => Len(events) + 1 > posted')
      BY <1>1, <1>2
    <3> QED
      BY <1>2, <2>1, <3>1 DEF ToPost
  <2>2. CASE g # f
    <3>1. g \in owed[c] \ lost[c]
      BY <1>1, <1>4, <2>2
    <3>2. ToPost(g) => ToPost(g)'
      BY <1>1, <1>2 DEF ToPost
    <3>3. ToSend(c, g) => ToSend(c, g)'
      BY <1>1 DEF ToSend
    <3> QED
      BY <1>1, <3>1, <3>2, <3>3 DEF CoverInv
  <2> QED
    BY <2>1, <2>2
<1> QED
  BY <1>3, <1>4 DEF CoverInv

(* The tick: the event it comes to is a message no client was brought, and *)
(* what it did not come to is lost when the queue is cleared.              *)
LEMMA TickStep ==
    ASSUME Inv, BeginPost \/ Tick
    PROVE  Inv'
<1> USE DEF Inv, TypeInv, PlaceInv, LoadInv, mainVars, tickVars, threadVars
<1>1. CASE BeginPost
  <2>1. TypeInv' /\ PlaceInv' /\ LoadInv'
    BY <1>1 DEF BeginPost
  <2>2. CoverInv'
    BY <1>1, CoverSame DEF BeginPost, ToPost, ToSend
  <2> QED
    BY <2>1, <2>2
<1>2. CASE PostEvent
  <2>1. /\ mpc = "post" /\ spc = "poll" /\ posted' = posted + 1
        /\ mpc' \in {"post", "clear"} /\ (mpc' = "clear" <=> posted' = last)
        /\ sendQueue' = Append(sendQueue, events[posted + 1])
        /\ UNCHANGED <<events, last, client, asked, mload, spc, at, left, writes, sload, active, owed, lost>>
    BY <1>2 DEF PostEvent
  <2>2. posted + 1 \in 1..Len(events) /\ events[posted + 1] \in Flags
    BY <2>1
  <2>3. /\ sendQueue' \in Seq(Flags) /\ Len(sendQueue') = Len(sendQueue) + 1
        /\ sendQueue'[Len(sendQueue) + 1] = events[posted + 1]
        /\ \A i \in 1..Len(sendQueue) : sendQueue'[i] = sendQueue[i]
    BY <2>1, <2>2
  <2>4. TypeInv' /\ PlaceInv' /\ LoadInv'
    BY <2>1, <2>2, <2>3
  <2>5. ASSUME NEW f, ToPost(f), NEW c PROVE ToPost(f)' \/ ToSend(c, f)'
    <3>1. PICK i \in 1..Len(events) : events[i] = f /\ i > posted
      BY <2>1, <2>5 DEF ToPost
    <3>2. CASE i = posted + 1
      BY <2>1, <2>3, <3>1, <3>2 DEF ToSend
    <3>3. CASE i > posted + 1
      BY <2>1, <3>1, <3>3 DEF ToPost
    <3> QED
      BY <3>1, <3>2, <3>3
  <2>6. ASSUME NEW f, NEW c, ToSend(c, f) PROVE ToSend(c, f)'
    BY <2>1, <2>3, <2>6 DEF ToSend
  <2>7. CoverInv'
    BY <2>1, <2>5, <2>6, CoverSame
  <2> QED
    BY <2>4, <2>7
<1>3. CASE ClearEvents
  <2>1. /\ mpc = "clear" /\ mpc' = "free" /\ events' = <<>> /\ posted' = 0 /\ last' = 0
        /\ lost' = [c \in Clients |-> lost[c] \cup ToSet(SubSeq(events, last + 1, Len(events)))]
        /\ UNCHANGED <<client, asked, mload, sendQueue, spc, at, left, writes, sload, active, owed>>
    BY <1>3 DEF ClearEvents
  <2>2. ToSet(SubSeq(events, last + 1, Len(events))) \subseteq Flags
    BY <2>1 DEF ToSet
  <2>3. TypeInv' /\ PlaceInv' /\ LoadInv'
    BY <2>1, <2>2
  <2>4. ASSUME NEW f, ToPost(f) PROVE f \in ToSet(SubSeq(events, last + 1, Len(events)))
    <3>1. PICK i \in 1..Len(events) : events[i] = f /\ i > last
      BY <2>1, <2>4 DEF ToPost
    <3>2. /\ SubSeq(events, last + 1, Len(events)) \in Seq(Flags)
          /\ Len(SubSeq(events, last + 1, Len(events))) = Len(events) - last
          /\ i - last \in 1..(Len(events) - last)
          /\ SubSeq(events, last + 1, Len(events))[i - last] = f
      BY <2>1, <3>1
    <3> QED
      BY <3>2 DEF ToSet
  <2>5. ASSUME NEW f, NEW c, ToSend(c, f) PROVE ToSend(c, f)'
    BY <2>1, <2>5 DEF ToSend
  <2>6. CoverInv'
    BY <2>1, <2>4, <2>5, CoverSame
  <2> QED
    BY <2>3, <2>6
<1> QED
  BY <1>1, <1>2, <1>3 DEF Tick

(* A step that leaves the two queues and their users as they are.          *)
LEMMA QueuesSame ==
    ASSUME Inv, UNCHANGED <<events, posted, sendQueue, spc, at, left, writes>>,
           mpc \notin {"post", "clear"}, mpc' \notin {"post", "clear"},
           \A c \in Clients : owed'[c] \ lost'[c] \subseteq owed[c] \ lost[c],
           \A c \in Clients : \A f \in owed'[c] \ lost'[c] : f \in active[c] => f \in active'[c]
    PROVE  CoverInv'
<1>1. \A f : ToPost(f) => ToPost(f)'
  BY DEF ToPost
<1>2. \A c, f : ToSend(c, f) => ToSend(c, f)'
  BY DEF ToSend
<1> QED
  BY <1>1, <1>2, CoverSame

(* idle and noidle: what the reset takes back untold is lost.              *)
LEMMA IdleStep ==
    ASSUME Inv,
           \/ \E c \in Clients : NoIdle(c) \/ \E A \in AskedFlags : TestIdle(c, A)
           \/ InIdle
    PROVE  Inv'
<1> USE DEF Inv, TypeInv, PlaceInv, LoadInv, mainVars, tickVars, threadVars, IdleReturns
<1>1. ASSUME NEW c \in Clients, NoIdle(c) PROVE Inv'
  BY <1>1, QueuesSame DEF NoIdle
<1>2. ASSUME NEW c \in Clients, NEW A \in AskedFlags, TestIdle(c, A) PROVE Inv'
  <2>1. /\ client' = c /\ asked' = A /\ A \subseteq Flags /\ mpc = "free" /\ mpc' \in {"wait", "reply"}
        /\ UNCHANGED <<events, posted, last, mload, sendQueue, spc, at, left, writes, sload, active, lost>>
    BY <1>2 DEF TestIdle, AskedFlags
  <2>2. owed' = owed \/ \E f : owed' = [owed EXCEPT ![c] = @ \ {f}]
    BY <1>2 DEF TestIdle, Told
  <2>3. /\ owed' \in [Clients -> SUBSET Flags]
        /\ \A d \in Clients : owed'[d] \subseteq owed[d]
    BY <2>2
  <2>4. TypeInv' /\ PlaceInv' /\ LoadInv'
    BY <2>1, <2>3
  <2>5. CoverInv'
    BY <2>1, <2>3, QueuesSame
  <2> QED
    BY <2>4, <2>5
<1>3. ASSUME WaitIdle PROVE Inv'
  <2>1. TypeInv' /\ PlaceInv' /\ LoadInv'
    BY <1>3 DEF WaitIdle
  <2>2. CoverInv'
    BY <1>3, QueuesSame DEF WaitIdle
  <2> QED
    BY <2>1, <2>2
<1>4. ASSUME ReplyIdle PROVE Inv'
  <2>1. TypeInv' /\ PlaceInv' /\ LoadInv'
    BY <1>4 DEF ReplyIdle
  <2>2. CoverInv'
    BY <1>4, QueuesSame DEF ReplyIdle
  <2> QED
    BY <2>1, <2>2
<1>5. ASSUME ResetActive PROVE Inv'
  <2>1. /\ mpc = "reset" /\ mpc' = "free" /\ client' = NoClient /\ asked' = {} /\ mload' = {}
        /\ active' = [active EXCEPT ![client] = mload \ asked]
        /\ lost' = [lost EXCEPT ![client] = @ \cup (owed[client] \cap (active[client] \ (mload \ asked)))]
        /\ UNCHANGED <<events, posted, last, sendQueue, spc, at, left, writes, sload, owed>>
    BY <1>5 DEF ResetActive
  <2>2. client \in Clients /\ mload \ asked \subseteq active[client]
    BY <2>1
  <2>3. TypeInv' /\ PlaceInv' /\ LoadInv'
    <3>1. active' \in [Clients -> SUBSET Flags] /\ lost' \in [Clients -> SUBSET Flags]
      BY <2>1, <2>2
    <3>2. \A c \in Clients : active'[c] \subseteq active[c]
      BY <2>1, <2>2
    <3> QED
      BY <2>1, <3>1, <3>2
  <2>4. \A c \in Clients : \A f \in owed'[c] \ lost'[c] : f \in owed[c] \ lost[c] /\ (f \in active[c] => f \in active'[c])
    BY <2>1, <2>2
  <2>5. CoverInv'
    BY <2>1, <2>4, QueuesSame
  <2> QED
    BY <2>3, <2>5
<1> QED
  BY <1>1, <1>2, <1>3, <1>4, <1>5 DEF InIdle

(* The sending thread brings every message to every client.                *)
LEMMA SendStep ==
    ASSUME Inv, Send
    PROVE  Inv'
<1> USE DEF Inv, TypeInv, PlaceInv, LoadInv, mainVars, tickVars, threadVars
<1>0. \A f : UNCHANGED <<events, posted, mpc>> => (ToPost(f) => ToPost(f)')
  BY DEF ToPost
<1>1. ASSUME BeginSend PROVE Inv'
  <2>1. /\ spc = "poll" /\ sendQueue # <<>> /\ spc' = "send" /\ at' = 1 /\ left' = Clients
        /\ UNCHANGED <<events, posted, last, mpc, client, asked, mload, sendQueue, writes, sload, active, owed, lost>>
    BY <1>1 DEF BeginSend
  <2>2. TypeInv' /\ PlaceInv' /\ LoadInv'
    BY <2>1
  <2>3. \A c \in Clients : \A f : ToSend(c, f) => ToSend(c, f)'
    BY <2>1 DEF ToSend
  <2>4. CoverInv'
    BY <1>0, <2>1, <2>3, CoverSame
  <2> QED
    BY <2>2, <2>4
<1>2. ASSUME NEW c \in Clients, SendTo(c) PROVE Inv'
  <2>1. /\ spc = "send" /\ c \in left /\ left' = left \ {c} /\ sendQueue[at] \in Flags
        /\ UNCHANGED <<events, posted, last, mpc, client, asked, mload, sendQueue, at, active, lost>>
    BY <1>2 DEF SendTo
  <2>2. CASE sendQueue[at] \in idle[c]
    <3>1. /\ owed' = [owed EXCEPT ![c] = @ \ {sendQueue[at]}]
          /\ UNCHANGED <<spc, writes, sload>>
      BY <1>2, <2>2 DEF SendTo, Told
    <3>2. TypeInv' /\ PlaceInv' /\ LoadInv'
      BY <2>1, <3>1
    <3>3. \A d \in Clients : \A f \in owed'[d] \ lost'[d] :
             f \in owed[d] \ lost[d] /\ (ToSend(d, f) => ToSend(d, f)')
      BY <2>1, <3>1 DEF ToSend
    <3>4. CoverInv'
      BY <1>0, <2>1, <3>3, CoverSame
    <3> QED
      BY <3>2, <3>4
  <2>3. CASE sendQueue[at] \notin idle[c]
    <3>1. spc' = "store" /\ writes' = c /\ sload' = active[c] /\ UNCHANGED owed
      BY <1>2, <2>3 DEF SendTo
    <3>2. TypeInv' /\ PlaceInv' /\ LoadInv'
      BY <2>1, <3>1
    <3>3. \A d \in Clients : \A f : ToSend(d, f) => ToSend(d, f)'
      BY <2>1, <3>1 DEF ToSend
    <3>4. CoverInv'
      BY <1>0, <2>1, <3>1, <3>3, CoverSame
    <3> QED
      BY <3>2, <3>4
  <2> QED
    BY <2>2, <2>3
<1>3. ASSUME StoreActive PROVE Inv'
  <2>1. /\ spc = "store" /\ spc' = "send" /\ writes' = NoClient /\ sload' = {}
        /\ active' = [active EXCEPT ![writes] = sload \cup {sendQueue[at]}]
        /\ sendQueue[at] \in Flags /\ writes \in Clients
        /\ UNCHANGED <<events, posted, last, mpc, client, asked, mload, sendQueue, at, left, owed, lost>>
    BY <1>3 DEF StoreActive
  <2>2. active' \in [Clients -> SUBSET Flags] /\ \A c \in Clients : active[c] \subseteq active'[c]
    BY <2>1
  <2>3. TypeInv' /\ PlaceInv' /\ LoadInv'
    BY <2>1, <2>2
  <2>4. \A c \in Clients : \A f : ToSend(c, f) => ToSend(c, f)' \/ f \in active'[c]
    BY <2>1 DEF ToSend
  <2>5. CoverInv'
    BY <1>0, <2>1, <2>2, <2>4, CoverSame
  <2> QED
    BY <2>3, <2>5
<1>4. ASSUME EndMessage PROVE Inv'
  <2>1. /\ spc = "send" /\ left = {}
        /\ UNCHANGED <<events, posted, last, mpc, client, asked, mload, writes, sload, active, owed, lost>>
    BY <1>4 DEF EndMessage
  <2>2. CASE at < Len(sendQueue)
    <3>1. at' = at + 1 /\ left' = Clients /\ UNCHANGED <<sendQueue, spc>>
      BY <1>4, <2>2 DEF EndMessage
    <3>2. TypeInv' /\ PlaceInv' /\ LoadInv'
      BY <2>1, <2>2, <3>1
    <3>3. \A c \in Clients : \A f : ToSend(c, f) => ToSend(c, f)'
      BY <2>1, <3>1 DEF ToSend
    <3>4. CoverInv'
      BY <1>0, <2>1, <3>3, CoverSame
    <3> QED
      BY <3>2, <3>4
  <2>3. CASE ~(at < Len(sendQueue))
    <3>1. sendQueue' = <<>> /\ spc' = "poll" /\ at' = 0 /\ left' = {}
      BY <1>4, <2>3 DEF EndMessage
    <3>2. TypeInv' /\ PlaceInv' /\ LoadInv'
      BY <2>1, <3>1
    <3>3. \A c \in Clients : \A f : ~ToSend(c, f)
      BY <2>1, <2>3 DEF ToSend
    <3>4. CoverInv'
      BY <1>0, <2>1, <3>3, CoverSame
    <3> QED
      BY <3>2, <3>4
  <2> QED
    BY <2>2, <2>3
<1> QED
  BY <1>1, <1>2, <1>3, <1>4 DEF Send

(* Whatever threads push whatever events, a change that a client is not    *)
(* told is on its way to it or remembered, unless on_tick cleared it       *)
(* unposted or doIdle took it back untold.                                 *)
THEOREM ForgetsNothing == Spec => []LossesKnown
<1>1. Inv /\ UNCHANGED vars => Inv'
  BY DEF vars, Inv, TypeInv, PlaceInv, LoadInv, CoverInv, ToPost, ToSend
<1>2. Inv /\ [Next]_vars => Inv'
  BY <1>1, PushStep, TickStep, IdleStep, SendStep DEF Next
<1>3. Inv => LossesKnown
  <2> SUFFICES ASSUME Inv, NEW c \in Clients, NEW f \in owed[c] \ lost[c]
               PROVE  f \in ToSet(events) \cup ToSet(sendQueue) \cup active[c]
    BY DEF LossesKnown
  <2>1. ToPost(f) => f \in ToSet(events)
    BY DEF ToPost, ToSet, Inv, TypeInv
  <2>2. ToSend(c, f) => f \in ToSet(sendQueue)
    BY DEF ToSend, ToSet, Inv, TypeInv
  <2> QED
    BY <2>1, <2>2 DEF Inv, CoverInv
<1> QED
  BY InitInv, <1>2, <1>3, PTL DEF Spec
=============================================================================
