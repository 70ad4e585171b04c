----------------------------- MODULE EventPath -----------------------------
(***************************************************************************)
(* How a client hears that something changed: Server::pushEvent and        *)
(* on_tick, MPDProto::post, the sending half of MPDProto::runThread, and   *)
(* the idle and noidle commands (src/src/Server.cpp, Protocols/MPD.cpp,    *)
(* Protocols/MPD/Commands.cpp).                                            *)
(*                                                                         *)
(* The main loop pushes events, runs commands and ticks; the protocol's    *)
(* thread sends; Others are the threads besides the main loop that push    *)
(* events (workers after a lookup, the streaming thread when a song        *)
(* finishes).  m_sendQueueMutex is held from BeginSend to the end of the   *)
(* sending.  Neither m_eventQueue nor m_clientMap has a lock, so a step    *)
(* here is one access to a flag word.  Clients stay connected.             *)
(***************************************************************************)
EXTENDS Integers, Sequences, FiniteSets, SequencesExt

CONSTANTS
    Clients,        \* connected clients
    Flags,          \* the idle flags events trigger; an event is its flag
    Others,         \* threads besides the main loop that push events
    Main,
    NoClient,
    MaxEvents       \* bound: how many events are pushed

ASSUME EventPathAssumption == NoClient \notin Clients /\ Main \notin Others /\ MaxEvents \in Nat

VARIABLES
    events,         \* m_eventQueue
    pushed,         \* how many events were pushed, up to MaxEvents
    posted,         \* the tick's loop: events posted so far
    last,           \* and where it ends, read before its first round
    mpc,            \* where the main loop is
    client, asked,  \* the client and the flags of its idle command
    mload,          \* ActiveIdleFlags as doIdle loaded it
    sendQueue,      \* m_sendQueue
    spc,            \* where the protocol's thread is
    at, left,       \* the message it sends, the clients still to come
    writes, sload,  \* the client whose flags it updates, as it loaded them
    idle, active,   \* IdleFlags and ActiveIdleFlags of every client
    owed,           \* history: what changed since the client was told so
    lost            \* history: what of it the program threw away

mainVars == <<client, asked, mload>>
tickVars == <<posted, last>>
threadVars == <<spc, at, left, writes, sload>>
vars == <<events, pushed, posted, last, mpc, client, asked, mload, sendQueue,
          spc, at, left, writes, sload, idle, active, owed, lost>>

Init == /\ events = <<>> /\ pushed = 0 /\ posted = 0 /\ last = 0
        /\ mpc = "free" /\ client = NoClient /\ asked = {} /\ mload = {}
        /\ sendQueue = <<>> /\ spc = "poll" /\ at = 0 /\ left = {}
        /\ writes = NoClient /\ sload = {}
        /\ idle = [c \in Clients |-> {}]
        /\ active = [c \in Clients |-> {}]
        /\ owed = [c \in Clients |-> {}]
        /\ lost = [c \in Clients |-> {}]

Told(c, f) == owed' = [owed EXCEPT ![c] = @ \ {f}]
-----------------------------------------------------------------------------
(* A command, a bus message, a lookup or a finished song changes something. *)
PushEvent(thread, f) ==
    /\ thread = Main => mpc = "free"
    /\ pushed < MaxEvents
    /\ pushed' = pushed + 1
    /\ events' = Append(events, f)
    /\ owed' = [c \in Clients |-> owed[c] \cup {f}]
    /\ lost' = [c \in Clients |-> lost[c] \ {f}]
    /\ UNCHANGED <<tickVars, mpc, mainVars, sendQueue, threadVars, idle, active>>

(* on_tick, after the commands: the loop over m_eventQueue begins.         *)
BeginPost ==
    /\ mpc = "free"
    /\ events # <<>>
    /\ mpc' = "post"
    /\ posted' = 0
    /\ last' = Len(events)
    /\ UNCHANGED <<events, pushed, mainVars, sendQueue, threadVars, idle, active, owed, lost>>

(* Mutant: post returns for every client.                                  *)
PostEvent_Nobody ==
    /\ mpc = "post"
    /\ spc = "poll"
    /\ posted' = posted + 1
    /\ mpc' = IF posted' = last THEN "clear" ELSE "post"
    /\ UNCHANGED <<events, pushed, last, mainVars, sendQueue, threadVars, idle, active, owed, lost>>

(* post() to all clients, under m_sendQueueMutex.                          *)
PostEvent ==
    /\ mpc = "post"
    /\ spc = "poll"
    /\ posted' = posted + 1
    /\ sendQueue' = Append(sendQueue, events[posted'])
    /\ mpc' = IF posted' = last THEN "clear" ELSE "post"
    /\ UNCHANGED <<events, pushed, last, mainVars, threadVars, idle, active, owed, lost>>

(* m_eventQueue.clear(): what was pushed after the loop's end was read is  *)
(* lost.                                                                   *)
ClearEvents ==
    /\ mpc = "clear"
    /\ events' = <<>>
    /\ mpc' = "free"
    /\ lost' = [c \in Clients |-> lost[c] \cup ToSet(SubSeq(events, last + 1, Len(events)))]
    /\ posted' = 0 /\ last' = 0
    /\ UNCHANGED <<pushed, mainVars, sendQueue, threadVars, idle, active, owed>>
-----------------------------------------------------------------------------
(* "idle" without arguments asks for every flag; with arguments for those  *)
(* it names, on top of whatever the uninitialized flags held.              *)
AskedFlags == SUBSET Flags

(* doIdle compares them with what happened since the last time ...         *)
TestIdle(c, A) ==
    /\ mpc = "free"
    /\ client' = c
    /\ asked' = A
    /\ LET triggered == active[c] \cap A
       IN  /\ mpc' = IF triggered = {} THEN "wait" ELSE "reply"
           /\ IF Cardinality(triggered) = 1
              THEN Told(c, CHOOSE f \in triggered : TRUE)
              ELSE UNCHANGED owed      \* getIdleName answers "TODO" for several
    /\ UNCHANGED <<events, pushed, tickVars, mload, sendQueue, threadVars, idle, active,
                   lost>>

(* The locals of doIdle go out of scope.                                   *)
IdleReturns == client' = NoClient /\ asked' = {} /\ mload' = {}

(* ... waits when there is nothing ...                                     *)
WaitIdle ==
    /\ mpc = "wait"
    /\ idle' = [idle EXCEPT ![client] = asked]
    /\ mpc' = "free"
    /\ IdleReturns
    /\ UNCHANGED <<events, pushed, tickVars, sendQueue, threadVars, active, owed, lost>>

(* ... and else takes back what it asked for: IdleFlags = Idle_none and    *)
(* ActiveIdleFlags &= ~aFlags, a load and a store.  A flag that was not    *)
(* told (answered as "TODO", or added by the thread in between) is lost.   *)
ReplyIdle ==
    /\ mpc = "reply"
    /\ idle' = [idle EXCEPT ![client] = {}]
    /\ mload' = active[client]
    /\ mpc' = "reset"
    /\ UNCHANGED <<events, pushed, tickVars, client, asked, sendQueue, threadVars, active, owed, lost>>

ResetActive ==
    /\ mpc = "reset"
    /\ active' = [active EXCEPT ![client] = mload \ asked]
    /\ lost' = [lost EXCEPT ![client] = @ \cup (owed[client] \cap (active[client] \ (mload \ asked)))]
    /\ mpc' = "free"
    /\ IdleReturns
    /\ UNCHANGED <<events, pushed, tickVars, sendQueue, threadVars, idle, owed>>

NoIdle(c) ==
    /\ mpc = "free"
    /\ idle' = [idle EXCEPT ![c] = {}]
    /\ UNCHANGED <<events, pushed, tickVars, mpc, mainVars, sendQueue, threadVars, active, owed, lost>>
-----------------------------------------------------------------------------
(* runThread takes m_sendQueueMutex and starts on the first message.       *)
BeginSend ==
    /\ spc = "poll"
    /\ sendQueue # <<>>
    /\ spc' = "send"
    /\ at' = 1
    /\ left' = Clients
    /\ UNCHANGED <<events, pushed, tickVars, mpc, mainVars, sendQueue, writes, sload,
                   idle, active, owed, lost>>

(* Mutant: a client that is not idle misses the event.                     *)
SendTo_IdleOnly(c) ==
    /\ spc = "send"
    /\ c \in left
    /\ left' = left \ {c}
    /\ IF sendQueue[at] \in idle[c] THEN Told(c, sendQueue[at]) ELSE UNCHANGED owed
    /\ UNCHANGED <<events, pushed, tickVars, mpc, mainVars, sendQueue, spc, at, writes, sload,
                   idle, active, lost>>

(* A client that is idle for the flag is written to (and stays idle); for  *)
(* another one the flag is added to ActiveIdleFlags, a load and a store.   *)
(* The thread would return on an event that triggers no flag; all that are *)
(* pushed trigger one.                                                     *)
SendTo(c) ==
    /\ spc = "send"
    /\ c \in left
    /\ left' = left \ {c}
    /\ IF sendQueue[at] \in idle[c]
       THEN Told(c, sendQueue[at]) /\ UNCHANGED <<spc, writes, sload>>
       ELSE /\ spc' = "store"
            /\ writes' = c
            /\ sload' = active[c]
            /\ UNCHANGED owed
    /\ UNCHANGED <<events, pushed, tickVars, mpc, mainVars, sendQueue, at, idle, active, lost>>

StoreActive ==
    /\ spc = "store"
    /\ active' = [active EXCEPT ![writes] = sload \cup {sendQueue[at]}]
    /\ spc' = "send"
    /\ writes' = NoClient /\ sload' = {}
    /\ UNCHANGED <<events, pushed, tickVars, mpc, mainVars, sendQueue, at, left, idle, owed, lost>>

(* The next message, or clear the queue and release the mutex.             *)
EndMessage ==
    /\ spc = "send"
    /\ left = {}
    /\ IF at < Len(sendQueue)
       THEN at' = at + 1 /\ left' = Clients /\ UNCHANGED <<sendQueue, spc>>
       ELSE sendQueue' = <<>> /\ spc' = "poll" /\ at' = 0 /\ left' = {}
    /\ UNCHANGED <<events, pushed, tickVars, mpc, mainVars, writes, sload, idle, active, owed, lost>>
-----------------------------------------------------------------------------
Tick == PostEvent \/ ClearEvents
InIdle == WaitIdle \/ ReplyIdle \/ ResetActive
Send == BeginSend \/ (\E c \in Clients : SendTo(c)) \/ StoreActive \/ EndMessage

Next == \/ \E thread \in Others \cup {Main}, f \in Flags : PushEvent(thread, f)
        \/ BeginPost \/ Tick
        \/ \E c \in Clients : NoIdle(c) \/ \E A \in AskedFlags : TestIdle(c, A)
        \/ InIdle
        \/ Send

Spec == Init /\ [][Next]_vars

(* The ticker fires every 100 ms and posts after the commands it handled,  *)
(* and the protocol's thread never blocks.                                 *)
FairSpec == /\ Spec
            /\ SF_vars(BeginPost)
            /\ SF_vars(PostEvent)
            /\ WF_vars(ClearEvents)
            /\ WF_vars(InIdle)
            /\ WF_vars(Send)
-----------------------------------------------------------------------------
(* What changed and was not told to a client is on its way to it or        *)
(* remembered for its next idle: "Post events" posts every event.          *)
NothingForgotten ==
    \A c \in Clients : owed[c] \subseteq ToSet(events) \cup ToSet(sendQueue) \cup active[c]

(* Whoever pushes, and however many flags are answered at once, a change   *)
(* that a client is not told gets lost in two places only: m_eventQueue    *)
(* cleared of what came after the loop's end was read, and flags that      *)
(* doIdle takes back untold.  The copies to m_sendQueue, the update of     *)
(* every client's flags and its races with idle and noidle lose nothing.   *)
LossesKnown ==
    \A c \in Clients :
        owed[c] \ lost[c] \subseteq ToSet(events) \cup ToSet(sendQueue) \cup active[c]

(* An event does arrive: what is in m_eventQueue is told, remembered for   *)
(* the next idle, or lost in one of these places, whatever the client, the *)
(* main loop and the other threads do meanwhile.                           *)
EventArrives ==
    \A c \in Clients, f \in Flags :
        (f \in ToSet(events)) ~> (f \notin owed[c] \/ f \in active[c] \/ f \in lost[c])
=============================================================================
