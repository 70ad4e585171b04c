----------------------------- MODULE MpdServer -----------------------------
(***************************************************************************)
(* MPD connections: Util::EpollServer, the receiving half of               *)
(* MPDProto::runThread, and update with handleMessage, runCommandList and  *)
(* writeData (src/src/Util/EpollServer.cpp, src/src/Protocols/MPD.cpp).    *)
(*                                                                         *)
(* The protocol's thread polls an edge-triggered epoll descriptor; the     *)
(* main loop runs the lines it queued.  They share m_recvQueue, under      *)
(* m_recvQueueMutex, and m_clientMap, under nothing: a step here is one    *)
(* lookup, insertion or removal of the map.  The kernel's part is the      *)
(* descriptors, the ready list and what a write to a gone peer does.       *)
(* Events and what idle clients are told are in EventPath.                 *)
(***************************************************************************)
EXTENDS MpdCommands, FiniteSets, SequencesExt

CONSTANTS
    Peers, NoPeer,
    Leavers,        \* the peers that may close their connection
    ListenFd, Fds,  \* descriptors: the listening one and those accept may return
    ClientAll,      \* Client_All, UINT32_MAX in the code
    AcceptBatch,    \* 5 in the code
    Lines,          \* what the peers send
    CutLines,       \* those that may arrive in two pieces
    MaxLines,       \* bound: lines of a peer
    CutNumbers,     \* bound: how far into the session that happens
    LeaveNumbers,   \* bound: how many lines a peer sent when it leaves
    MaxCopies       \* bound: messages of an unended line that wait

(* kEpollEventLimit.  With fewer descriptors epoll_wait returns all there is. *)
EventLimit == 32

ASSUME MpdServerAssumption ==
    /\ NoPeer \notin Peers /\ Leavers \subseteq Peers /\ CutLines \subseteq Lines
    /\ Fds \subseteq Nat \ {0} /\ IsFiniteSet(Fds) /\ ListenFd \in Nat \ (Fds \cup {0})
    /\ Cardinality(Fds) < EventLimit
    /\ ClientAll \in Nat /\ ClientAll > 1
    /\ AcceptBatch \in Nat \ {0}
    /\ {MaxLines, MaxCopies} \cup CutNumbers \subseteq Nat

(* A line is a command and what its arguments read as.                     *)
ASSUME LinesAssumption == Lines \subseteq [cmd : STRING, args : Seq(Arguments)]

VARIABLES
    status,         \* of a peer: off, on, left (FIN), written (to, after FIN), reset or dead (RST)
    backlog,        \* the peers that wait for accept
    file,           \* the peer behind each descriptor
    net,            \* what each peer sent and nobody received
    ready,          \* the ready list of the epoll descriptor
    events,         \* m_events
    tpc, accepted,  \* where the protocol's thread is; its accept loop's i
    clientMap,      \* m_clientMap: Socket, Buffer, InCmdList, CmdList of each ID
    clientCounter,  \* m_clientCounter
    recvQueue,      \* m_recvQueue
    mpc,            \* where the main loop is
    running,        \* the commands of the list it runs that are still to come
    sending,        \* the writes for its message, with the socket that writeData looked up
    sent, rest,     \* lines a peer sent; the cut line whose rest is to come
    ran,            \* history: what of each peer was run, in order
    due,            \* history: the OKs and ACKs a peer is owed, until a line of it is cut
    view,           \* history: the command lists of a peer as the peer sees them
    cutShort        \* history: the last accept loop ended with somebody waiting

peerVars == <<sent, rest, due, view>>
kernelVars == <<status, backlog, file, net, ready>>
threadVars == <<events, tpc, accepted, cutShort, clientCounter>>
mainVars == <<mpc, running, sending>>
vars == <<kernelVars, threadVars, clientMap, recvQueue, mainVars, peerVars, ran>>

NoLine == [n |-> 0, line |-> Unknown]
NotSending == [client |-> 0, peer |-> NoPeer, replies |-> <<>>, fd |-> 0, to |-> NoPeer]

Init == /\ status = [p \in Peers |-> "off"] /\ backlog = <<>>
        /\ file = [fd \in Fds |-> NoPeer] /\ net = [p \in Peers |-> <<>>]
        /\ ready = <<>> /\ events = <<>> /\ tpc = "poll" /\ accepted = 0
        /\ clientMap = <<>> /\ clientCounter = 0
        /\ recvQueue = <<>> /\ mpc = "idle" /\ running = <<>> /\ sending = NotSending
        /\ sent = [p \in Peers |-> 0] /\ rest = [p \in Peers |-> NoLine]
        /\ ran = [p \in Peers |-> <<>>] /\ due = [p \in Peers |-> 0]
        /\ view = [p \in Peers |-> [list |-> {}, listing |-> FALSE, nested |-> FALSE, cut |-> {}]]
        /\ cutShort = FALSE

Running == mpc # "terminated"
Gone == {"left", "written", "reset", "dead"}
Open(p) == {fd \in Fds : file[fd] = p}
FreeFds == Open(NoPeer)
Connected(p) == Open(p) # {} \/ Contains(backlog, p)
-----------------------------------------------------------------------------
(* The kernel wakes a descriptor: it enters the ready list, at most once.  *)
Woken(fds) == ready \o SetToSeq(fds \ ToSet(ready))

Connect(p) ==
    /\ Running /\ status[p] = "off"
    /\ status' = [status EXCEPT ![p] = "on"]
    /\ backlog' = Append(backlog, p)
    /\ ready' = Woken({ListenFd})
    /\ UNCHANGED <<file, net, threadVars, clientMap, recvQueue, mainVars, peerVars, ran>>

Arrives(p, piece) ==
    /\ net' = [net EXCEPT ![p] = Append(@, piece)]
    /\ ready' = Woken(Open(p))

(* The OK or ACK a line asks for: a command_list_begin none, a list one    *)
(* when it ends, idle one later (in EventPath), an unknown line always.    *)
Owed(p, l) == IF IsKnown(l) /\ ~IsEnd(l) /\ (view[p].listing \/ ListOutcome(l) = "silent")
              THEN 0 ELSE 1

(* The peer's own account of its lists: the lines of the one that has not  *)
(* ended, and whether it ever began one in another.                        *)
Seen(p, l) ==
    LET v == view[p]
        begins == IsKnown(l) /\ IsBegin(l)
        ends == IsEnd(l) /\ ~WrongArgs(l)
    IN  [v EXCEPT !.list = IF ends THEN {}
                           ELSE IF v.listing /\ IsKnown(l) THEN @ \cup {sent[p] + 1} ELSE @,
                  !.listing = (~ends /\ (@ \/ begins)),
                  !.nested = @ \/ (v.listing /\ begins)]

SendLine(p, l) ==
    /\ Running /\ status[p] = "on" /\ Connected(p)
    /\ sent[p] < MaxLines /\ rest[p] = NoLine
    /\ sent' = [sent EXCEPT ![p] = @ + 1]
    /\ Arrives(p, [part |-> "whole", n |-> sent'[p], line |-> l])
    /\ due' = [due EXCEPT ![p] = @ + Owed(p, l)]
    /\ view' = [view EXCEPT ![p] = Seen(p, l)]
    /\ UNCHANGED <<status, backlog, file, rest, threadVars, clientMap, recvQueue, mainVars, ran>>

(* A line arrives in two pieces.  The first reads as another line.         *)
CutLine(p, l, as) ==
    /\ Running /\ status[p] = "on" /\ Connected(p)
    /\ sent[p] < MaxLines /\ rest[p] = NoLine
    /\ sent[p] + 1 \in CutNumbers
    /\ rest' = [rest EXCEPT ![p] = [n |-> sent[p] + 1, line |-> l]]
    /\ Arrives(p, [part |-> "head", n |-> sent[p] + 1, line |-> as])
    /\ view' = [view EXCEPT ![p].cut = @ \cup {sent[p] + 1}]
    /\ UNCHANGED <<status, backlog, file, sent, due, threadVars, clientMap, recvQueue, mainVars, ran>>

SendRest(p) ==
    /\ Running /\ status[p] = "on" /\ Connected(p)
    /\ rest[p] # NoLine
    /\ Arrives(p, [part |-> "tail", n |-> rest[p].n, line |-> rest[p].line])
    /\ sent' = [sent EXCEPT ![p] = @ + 1]
    /\ rest' = [rest EXCEPT ![p] = NoLine]
    /\ UNCHANGED <<status, backlog, file, due, view, threadVars, clientMap, recvQueue, mainVars, ran>>

(* A peer closes its connection, or resets it (unread replies do that).    *)
Leave(p) ==
    /\ Running /\ p \in Leavers /\ status[p] = "on" /\ sent[p] \in LeaveNumbers
    /\ \E s \in {"left", "reset"} : status' = [status EXCEPT ![p] = s]
    /\ ready' = Woken(Open(p))
    /\ UNCHANGED <<backlog, file, net, threadVars, clientMap, recvQueue, mainVars, peerVars, ran>>

(* A peer that closed answers what is written to it with a reset.          *)
Reset(p) ==
    /\ Running /\ status[p] = "written"
    /\ status' = [status EXCEPT ![p] = "dead"]
    /\ ready' = Woken(Open(p))
    /\ UNCHANGED <<backlog, file, net, threadVars, clientMap, recvQueue, mainVars, peerVars, ran>>

(* send(fd, ..., 0): the second error on a reset connection is SIGPIPE.    *)
AfterSend(s) == CASE s = "left" -> "written" [] s = "reset" -> "dead" [] OTHER -> s
-----------------------------------------------------------------------------
(* EpollServer::update: what the ready list reports now; runThread tests   *)
(* EPOLLRDHUP first.                                                       *)
Kind(fd) == IF fd = ListenFd THEN IF backlog = <<>> THEN "none" ELSE "accept"
            ELSE IF status[file[fd]] \in Gone THEN "closed"
            ELSE IF net[file[fd]] = <<>> THEN "none" ELSE "data"

Event(fd) == [fd |-> fd, kind |-> Kind(fd), peer |-> IF fd = ListenFd THEN NoPeer ELSE file[fd]]

Fetched == events \o Kept([i \in DOMAIN ready |-> Event(ready[i])],
                          {i \in DOMAIN ready : Kind(ready[i]) # "none"})

Of(fd) == {id \in DOMAIN clientMap : clientMap[id].socket = fd}

(* The arguments of messages are views of the Buffer that is written or freed. *)
Unviewed(ms, ids) == [i \in DOMAIN ms |->
                        IF ms[i].client \in ids THEN [ms[i] EXCEPT !.intact = FALSE] ELSE ms[i]]

(* Mutant: level-triggered, what was reported is reported again.           *)
Poll_Level(e, later) ==
    /\ events' = later
    /\ ready' = Kept(ready, {i \in DOMAIN ready : ready[i] # e.fd /\ Kind(ready[i]) # "none"})

(* epoll_wait gave what m_events keeps for later.                          *)
Poll(e, later) ==
    /\ events' = later
    /\ ready' = <<>>

(* Whoever has the descriptor now is disconnected, what it sent is lost.   *)
CloseClient(e, later) ==
    /\ Poll(e, later) /\ e.kind = "closed"
    /\ file' = [file EXCEPT ![e.fd] = NoPeer]
    /\ net' = [p \in Peers |-> IF file[e.fd] = p THEN <<>> ELSE net[p]]
    /\ clientMap' = [id \in DOMAIN clientMap \ Of(e.fd) |-> clientMap[id]]
    /\ recvQueue' = Unviewed(recvQueue, Of(e.fd))
    /\ running' = Unviewed(running, Of(e.fd))
    /\ UNCHANGED <<status, backlog, tpc, accepted, cutShort, clientCounter,
                   mpc, sending, peerVars, ran>>

(* Mutant: one recv per event.                                             *)
Received_Once(p) == 1

(* How much is read: all there is.                                         *)
Received(p) == Len(net[p])

(* recv into the Buffer of the client found by its socket; nothing is read *)
(* for an event whose descriptor was closed or whose data was read.        *)
Receive(e, later) ==
    /\ Poll(e, later) /\ e.kind = "data"
    /\ IF Of(e.fd) = {} \/ file[e.fd] = NoPeer \/ net[file[e.fd]] = <<>>
       THEN UNCHANGED <<net, clientMap, recvQueue, running>>
       ELSE LET p == file[e.fd]
                n == Received(p)
                id == CHOOSE i \in Of(e.fd) : TRUE
            IN  /\ net' = [net EXCEPT ![p] = SubSeq(@, n + 1, Len(@))]
                /\ clientMap' = [clientMap EXCEPT ![id].buffer = @ \o SubSeq(net[p], 1, n),
                                                  ![id].cmdList = Unviewed(@, {id})]
                /\ recvQueue' = Unviewed(recvQueue, {id})
                /\ running' = Unviewed(running, {id})
    /\ UNCHANGED <<status, backlog, file, tpc, accepted, cutShort, clientCounter,
                   mpc, sending, peerVars, ran>>

BeginAccept(e, later) ==
    /\ Poll(e, later) /\ e.kind = "accept"
    /\ tpc' = "accept"
    /\ accepted' = 0
    /\ UNCHANGED <<status, backlog, file, net, clientMap, recvQueue, cutShort, clientCounter, mainVars, peerVars, ran>>
-----------------------------------------------------------------------------
(* IDs count up to Client_All - 1 and start again.                         *)
IDs == 1..(ClientAll - 1)
FreeIDs == IDs \ DOMAIN clientMap
Later(k) == LET n == clientCounter + k IN IF n < ClientAll THEN n ELSE n - (ClientAll - 1)

(* Mutants: the next ID, whoever has it; the lowest free one; one that      *)
(* goes on to Client_All.                                                  *)
NextID_Used == Later(1)
NextID_Lowest == CHOOSE id \in FreeIDs : \A other \in FreeIDs : id <= other
NextID_NoWrap == clientCounter + 1

(* m_clientCounter's next value that no client has.                        *)
NextID == Later(CHOOSE k \in IDs : /\ Later(k) \in FreeIDs
                                   /\ \A j \in 1..(k - 1) : Later(j) \notin FreeIDs)

(* m_clientMap with an entry made or replaced.                             *)
WithClient(id, client) ==
    [i \in DOMAIN clientMap \cup {id} |-> IF i = id THEN client ELSE clientMap[i]]

Fresh(fd) == [socket |-> fd, buffer |-> <<>>, inCmdList |-> FALSE, cmdList |-> <<>>]

(* EpollServer::accept: the lowest free descriptor; epoll reports at once  *)
(* what there is already.                                                  *)
Accepts(p, fd) ==
    /\ backlog # <<>> /\ p = Head(backlog)
    /\ fd \in FreeFds /\ \A other \in FreeFds : fd <= other
    /\ backlog' = Tail(backlog)
    /\ file' = [file EXCEPT ![fd] = p]
    /\ ready' = Woken(IF status[p] \in Gone \/ net[p] # <<>> THEN {fd} ELSE {})

(* With every ID in use the search for one never ends.                     *)
SpinForID == /\ FreeIDs = {}
             /\ tpc' = "spin"
             /\ UNCHANGED <<clientMap, clientCounter, status>>

(* The new client and the greeting to it.                                  *)
Greet(p, fd) == /\ FreeIDs # {}
                /\ clientMap' = WithClient(NextID, Fresh(fd))
                /\ clientCounter' = NextID
                /\ status' = [status EXCEPT ![p] = AfterSend(@)]
                /\ UNCHANGED tpc

AcceptOne ==
    /\ Running /\ tpc = "accept" /\ accepted < AcceptBatch
    /\ \E p \in Peers, fd \in Fds : Accepts(p, fd) /\ (SpinForID \/ Greet(p, fd))
    /\ accepted' = accepted + 1
    /\ UNCHANGED <<net, events, cutShort, recvQueue, mainVars, peerVars, ran>>

(* Mutant: one connection per event.                                       *)
LastOfBatch_First == accepted = 1

LastOfBatch == accepted = AcceptBatch

(* The batch is full, nobody waits, or accept fails without a descriptor.  *)
EndAccept ==
    /\ Running /\ tpc = "accept"
    /\ LastOfBatch \/ backlog = <<>> \/ FreeFds = {}
    /\ cutShort' = (backlog # <<>> /\ (accepted = AcceptBatch \/ FreeFds = {}))
    /\ tpc' = "poll"
    /\ UNCHANGED <<kernelVars, events, accepted, clientCounter, clientMap, recvQueue,
                   mainVars, peerVars, ran>>
-----------------------------------------------------------------------------
(* The piece of a line that has no newline yet.                            *)
Unended(b) == IF b # <<>> /\ Last(b).part = "head" THEN <<Last(b)>> ELSE <<>>

Buffered == {id \in DOMAIN clientMap : clientMap[id].buffer # <<>>}

(* pollEvent has nothing more.                                             *)
BeginGenerate ==
    /\ Running /\ tpc = "poll"
    /\ Fetched = <<>> /\ Buffered # {}
    /\ ready' = <<>>
    /\ tpc' = "generate"
    /\ UNCHANGED <<status, backlog, file, net, events, accepted, cutShort, clientCounter,
                   clientMap, recvQueue, mainVars, peerVars, ran>>

(* Mutant: the Buffer is cleared.                                          *)
Remainder_None(b) == <<>>

(* Mutant: the Buffer is not cut.                                          *)
Remainder_All(b) == b

(* The Buffer after its last newline.                                      *)
Remainder(b) == Unended(b)

(* A piece that ends a line whose beginning is not in the Buffer reads as  *)
(* another line.                                                           *)
Joined(b) == [i \in DOMAIN b |->
                IF b[i].part = "tail" /\ (i = 1 \/ b[i - 1].part # "head")
                THEN [b[i] EXCEPT !.n = 0, !.line = Unknown] ELSE b[i]]

(* A message for each line and for an unended one: <<head, tail>> is one.  *)
Messages(id) ==
    LET b == Joined(clientMap[id].buffer)
        queued == recvQueue \o clientMap[id].cmdList
        copies == {i \in DOMAIN queued : queued[i].client = id /\ queued[i].part = "head"}
        lines == Kept(b, {i \in DOMAIN b : b[i].part # "head"})
                   \o IF Cardinality(copies) < MaxCopies THEN Unended(b) ELSE <<>>
    IN  [i \in DOMAIN lines |->
            [client |-> id, n |-> lines[i].n, line |-> lines[i].line,
             part |-> IF lines[i].part = "head" THEN "head" ELSE "whole",
             intact |-> Unended(b) = <<>>,
             peer |-> IF clientMap[id].socket = 0 THEN NoPeer ELSE file[clientMap[id].socket]]]

(* The Buffers' lines go to m_recvQueue under its mutex, clients in any    *)
(* order.  An unended line stays in its Buffer and is queued again by each *)
(* turn of the loop.                                                       *)
Generate ==
    /\ Running /\ tpc = "generate" /\ mpc = "idle"
    /\ \E order \in SetToSeqs(Buffered) :
           recvQueue' = recvQueue \o FlattenSeq([i \in DOMAIN order |-> Messages(order[i])])
    /\ clientMap' = [id \in DOMAIN clientMap |-> [clientMap[id] EXCEPT !.buffer = Remainder(@)]]
    /\ tpc' = "poll"
    /\ UNCHANGED <<kernelVars, events, accepted, cutShort, clientCounter, mainVars,
                   peerVars, ran>>
-----------------------------------------------------------------------------
(* MPDProto::update, on a tick: m_recvQueueMutex is held until mpc is idle. *)
BeginUpdate ==
    /\ mpc = "idle" /\ recvQueue # <<>>
    /\ mpc' = "find"
    /\ UNCHANGED <<kernelVars, threadVars, clientMap, recvQueue, running, sending, peerVars, ran>>

(* m_clientMap[id] makes the entry of a client that is gone.               *)
Client(id) == IF id \in DOMAIN clientMap THEN clientMap[id] ELSE Fresh(0)
Looked(id) == WithClient(id, Client(id))

FindClient ==
    /\ mpc = "find"
    /\ clientMap' = Looked(Head(recvQueue).client)
    /\ mpc' = "run"
    /\ UNCHANGED <<kernelVars, threadVars, recvQueue, running, sending, peerVars, ran>>

(* What the arguments of a message read as.                                *)
Read(m) == IF m.intact \/ ~IsKnown(m.line) THEN {m.line} ELSE Misreadings(m.line)

Terminate == mpc' = "terminated" /\ UNCHANGED <<clientMap, recvQueue, running, sending, ran>>

(* The main loop writes what is to be written.  While commands of a list   *)
(* are left to run, the last reply is the list's and waits.                *)
Continue(client, peer, replies) ==
    /\ sending' = IF replies = <<>> THEN NotSending
                  ELSE [client |-> client, peer |-> peer, replies |-> replies, fd |-> 0, to |-> NoPeer]
    /\ mpc' = IF running' # <<>> /\ Len(replies) = 1 THEN "list"
              ELSE IF replies # <<>> THEN "write"
              ELSE IF recvQueue' = <<>> THEN "idle" ELSE "find"

(* The message is off the queue; no list runs.                             *)
Done(m, replies) ==
    /\ recvQueue' = Tail(recvQueue)
    /\ running' = <<>>
    /\ Continue(m.client, m.peer, replies)

(* What a message or piece is of its peer's lines: one of them, or the     *)
(* copy of an unended one.                                                 *)
Entry(x) == [n |-> x.n, part |-> IF x.part = "head" THEN "head" ELSE "whole"]

(* A copy that runs again and again is counted once.                       *)
Again(p, m) == m.part = "head" /\ ran[p] # <<>> /\ Last(ran[p]) = Entry(m)
Ran(m) == ran' = [p \in Peers |-> IF p # m.peer \/ Again(p, m) THEN ran[p]
                                  ELSE Append(ran[p], Entry(m))]

(* InCmdList of the entry that FindClient found; freed memory may read as  *)
(* either.                                                                 *)
InCmdList(id) == IF id \in DOMAIN clientMap THEN {clientMap[id].inCmdList} ELSE BOOLEAN

Queues(m, inList) == IsKnown(m.line) /\ ~IsEnd(m.line) /\ inList

(* In a list everything but its end waits, with its arguments unchecked;   *)
(* in a list that was freed it is lost.                                    *)
QueueLine(m, inList) ==
    /\ Queues(m, inList)
    /\ clientMap' = IF m.client \notin DOMAIN clientMap THEN clientMap
                    ELSE WithClient(m.client, [Client(m.client) EXCEPT !.cmdList = Append(@, m)])
    /\ Done(m, <<>>)
    /\ UNCHANGED ran

(* Not a command, not even in a list, or with the wrong number of arguments. *)
Refuse(m, inList) ==
    /\ IsKnown(m.line) => ~Queues(m, inList) /\ WrongArgs(m.line)
    /\ Done(m, <<"ACK">>)
    /\ UNCHANGED <<clientMap, ran>>

(* The commands besides the command_list commands that use m_clientMap[aClient]. *)
Remaking == {"idle", "noidle", "commands", "notcommands"}
Used(l, id) == IF l.cmd \in Remaking THEN Looked(id) ELSE clientMap

(* runCommand of all but the command_list commands.                        *)
RunLine(m, inList) ==
    /\ IsKnown(m.line) /\ ~Queues(m, inList) /\ ~WrongArgs(m.line)
    /\ ~IsEnd(m.line) /\ ~IsBegin(m.line)
    /\ \E l \in Read(m) :
           \/ Outcome(l) = "throws" /\ Terminate
           \/ /\ Outcome(l) # "throws"
              /\ clientMap' = Used(l, m.client)
              /\ \E replies \in Written(l, FALSE) : Done(m, replies)
              /\ Ran(m)

(* Mutant: InCmdList and CmdListVerbose change places.                     *)
BeginList_Swapped(m, inList) ==
    /\ IsKnown(m.line) /\ ~Queues(m, inList) /\ IsBegin(m.line)
    /\ clientMap' = WithClient(m.client, [Client(m.client) EXCEPT
                        !.inCmdList = m.line.cmd = "command_list_ok_begin"])
    /\ Done(m, <<>>)
    /\ UNCHANGED ran

BeginList(m, inList) ==
    /\ IsKnown(m.line) /\ ~Queues(m, inList) /\ IsBegin(m.line)
    /\ clientMap' = WithClient(m.client, [Client(m.client) EXCEPT !.inCmdList = TRUE])
    /\ Done(m, <<>>)
    /\ UNCHANGED ran

(* Mutant: the list stays.                                                 *)
ListLeft_All(list) == list

ListLeft(list) == <<>>

(* doCommandList, and runCommandList up to its loop: the list is cleared   *)
(* before its commands run.  The OK is the one of command_list_end.        *)
EndList(m) ==
    /\ IsEnd(m.line) /\ ~WrongArgs(m.line)
    /\ clientMap' = WithClient(m.client, [Client(m.client) EXCEPT !.inCmdList = FALSE,
                                                                  !.cmdList = ListLeft(@)])
    /\ recvQueue' = Tail(recvQueue)
    /\ running' = Client(m.client).cmdList
    /\ Continue(m.client, m.peer, <<"OK">>)
    /\ UNCHANGED ran

(* handleMessage of the oldest message, which may terminate when the       *)
(* client was erased since FindClient.                                     *)
RunMessage ==
    /\ mpc = "run"
    /\ LET m == Head(recvQueue)
       IN  \/ m.client \notin DOMAIN clientMap /\ Terminate
           \/ \E inList \in InCmdList(m.client) :
                  QueueLine(m, inList) \/ Refuse(m, inList) \/ RunLine(m, inList) \/ BeginList(m, inList)
           \/ EndList(m)
    /\ UNCHANGED <<kernelVars, threadVars, peerVars>>

(* runCommandList's next command: handleMessage looks its client up again. *)
(* Its error ends the list.  A command_list_begin in the list is run like  *)
(* any other command.                                                      *)
RunListed ==
    /\ mpc = "list"
    /\ LET m == Head(running)
       IN  \E l \in Read(m) :
              \/ ListOutcome(l) = "throws" /\ Terminate
              \/ /\ ListOutcome(l) # "throws"
                 /\ clientMap' = WithClient(m.client, [Client(m.client) EXCEPT !.inCmdList = @ \/ IsBegin(l)])
                 /\ running' = IF ListOutcome(l) = "error" THEN <<>> ELSE Tail(running)
                 /\ UNCHANGED recvQueue
                 /\ \E replies \in Written(l, TRUE) :
                        Continue(sending.client, sending.peer,
                                 IF ListOutcome(l) = "error" THEN replies ELSE replies \o sending.replies)
                 /\ Ran(m)
    /\ UNCHANGED <<kernelVars, threadVars, peerVars>>

(* writeData's at(), which nothing catches when the client was erased.     *)
Write ==
    /\ mpc = "write"
    /\ \/ sending.client \notin DOMAIN clientMap /\ Terminate
       \/ /\ sending.client \in DOMAIN clientMap
          /\ LET fd == clientMap[sending.client].socket
             IN  sending' = [sending EXCEPT !.fd = fd, !.to = IF fd = 0 THEN NoPeer ELSE file[fd]]
          /\ mpc' = "send"
          /\ UNCHANGED <<clientMap, recvQueue, running, ran>>
    /\ UNCHANGED <<kernelVars, threadVars, peerVars>>

(* Who gets what is sent: whoever has the descriptor by now; socket 0 is   *)
(* no client's.                                                            *)
Receiver == IF sending.fd = 0 THEN NoPeer ELSE file[sending.fd]

(* writeData's send.  The second one to a peer that left, when it has      *)
(* answered the first with a reset, is a SIGPIPE.                          *)
SendReply ==
    /\ mpc = "send"
    /\ LET q == Receiver
       IN  \/ q # NoPeer /\ status[q] = "dead" /\ Terminate /\ UNCHANGED <<status, due>>
           \/ /\ q # NoPeer => status[q] # "dead"
              /\ status' = [p \in Peers |-> IF p = q THEN AfterSend(status[p]) ELSE status[p]]
              /\ due' = [p \in Peers |->
                            IF p = q /\ view[p].cut = {} /\ Head(sending.replies) \in {"OK", "ACK"}
                            THEN due[p] - 1 ELSE due[p]]
              /\ UNCHANGED <<clientMap, recvQueue, running, ran>>
              /\ Continue(sending.client, sending.peer, Tail(sending.replies))
    /\ UNCHANGED <<backlog, file, net, ready, threadVars, sent, rest, view>>
-----------------------------------------------------------------------------
Environment == \E p \in Peers :
    \/ Connect(p) \/ SendRest(p) \/ Leave(p) \/ Reset(p)
    \/ \E l \in Lines : SendLine(p, l)
    \/ \E l \in CutLines : \E as \in Readings(l) : CutLine(p, l, as)

(* pollEvent: the events that are there now join m_events, the oldest is   *)
(* handled.                                                                *)
HandleEvent ==
    /\ Running /\ tpc = "poll"
    /\ LET all == Fetched
       IN  all # <<>> /\ LET e == Head(all)
                             later == Tail(all)
                         IN  CloseClient(e, later) \/ Receive(e, later) \/ BeginAccept(e, later)

Thread == HandleEvent \/ AcceptOne \/ EndAccept \/ BeginGenerate
Handle == FindClient \/ RunMessage \/ RunListed \/ Write \/ SendReply

Next == Environment \/ Thread \/ Generate \/ BeginUpdate \/ Handle

Spec == Init /\ [][Next]_vars

(* Both threads run; Generate waits for a mutex the main loop takes again  *)
(* and again, on every tick.                                               *)
FairSpec == /\ Spec
            /\ WF_vars(Thread)
            /\ SF_vars(Generate)
            /\ WF_vars(BeginUpdate)
            /\ WF_vars(Handle)
-----------------------------------------------------------------------------
Piece == [part : {"whole", "head", "tail"}, n : 0..MaxLines, line : UNION {Readings(l) \cup {l} : l \in Lines}]
Message == [client : IDs, n : 0..MaxLines, line : UNION {Readings(l) \cup {l} : l \in Lines},
            part : {"whole", "head"}, intact : BOOLEAN, peer : Peers \cup {NoPeer}]
Entries == [n : 0..MaxLines, part : {"whole", "head"}]

TypeOK ==
    /\ status \in [Peers -> Gone \cup {"off", "on"}]
    /\ backlog \in Seq(Peers) /\ file \in [Fds -> Peers \cup {NoPeer}]
    /\ net \in [Peers -> Seq(Piece)] /\ ready \in Seq(Fds \cup {ListenFd})
    /\ events \in Seq([fd : Fds \cup {ListenFd}, kind : {"accept", "closed", "data"},
                        peer : Peers \cup {NoPeer}])
    /\ tpc \in {"poll", "accept", "generate", "spin"} /\ accepted \in 0..AcceptBatch
    /\ DOMAIN clientMap \subseteq IDs /\ clientCounter \in {0} \cup IDs
    /\ \A id \in DOMAIN clientMap :
           clientMap[id] \in [socket : Fds \cup {0}, buffer : Seq(Piece), inCmdList : BOOLEAN,
                             cmdList : Seq(Message)]
    /\ recvQueue \in Seq(Message)
    /\ mpc \in {"idle", "find", "run", "list", "write", "send", "terminated"}
    /\ running \in Seq(Message)
    /\ sending \in [client : IDs \cup {0}, peer : Peers \cup {NoPeer},
                    replies : Seq({"data", "OK", "list_OK", "ACK"}),
                    fd : Fds \cup {0}, to : Peers \cup {NoPeer}]
    /\ sent \in [Peers -> 0..MaxLines] /\ ran \in [Peers -> Seq(Entries)]
    /\ due \in [Peers -> Int] /\ cutShort \in BOOLEAN

(* Every open connection has one entry of m_clientMap, and every entry     *)
(* with a socket an open connection: what events are matched by.           *)
MapMatchesDescriptors ==
    tpc # "spin" => \A fd \in Fds : Cardinality(Of(fd)) = IF file[fd] = NoPeer THEN 0 ELSE 1

(* What is sent goes to the peer whose line it answers.  While its sender  *)
(* is connected nobody else gets it, although clients leave and            *)
(* descriptors and IDs are used again; once the sender is gone, another    *)
(* peer gets it only when the sender was there for the lookup of its       *)
(* socket, and its descriptor was used again since.  All of that until     *)
(* there were more connections than IDs.                                   *)
Connections == Cardinality({p \in Peers : status[p] # "off" /\ ~Contains(backlog, p)})

RepliesToSender ==
    (mpc = "send" /\ Connections < ClientAll) =>
        \/ Receiver = sending.peer
        \/ ~Connected(sending.peer) /\ (Receiver = NoPeer \/ sending.to = sending.peer)

(* Nobody waits to be accepted without an event to come for it, unless the *)
(* last one ended with its batch or without a descriptor (edges come once) *)
(* or the thread spins.                                                    *)
NoneStranded ==
    \/ backlog = <<>> \/ tpc \in {"accept", "spin"} \/ cutShort
    \/ Contains(ready, ListenFd)
    \/ \E i \in DOMAIN events : events[i].kind = "accept"

(* A connection whose peer did not leave is closed only by an event that   *)
(* was read for an earlier user of its descriptor, one that left, and only *)
(* after a peer that had left was written to and answered with a reset.    *)
ClosesLeavers ==
    [][\A fd \in Fds :
         (file[fd] # NoPeer /\ file'[fd] = NoPeer /\ status[file[fd]] \notin Gone)
           => LET p == Head(Fetched).peer
              IN  /\ p # file[fd] /\ status[p] \in Gone
                  /\ \E q \in Peers : status[q] = "dead"]_vars

(* Which messages are a peer's: with IDs used again those of a client are  *)
(* not always of one peer.  Which pieces end a line.                       *)
OfPeer(ms, p) == {i \in DOMAIN ms : ms[i].peer = p}
Ends(pieces) == {i \in DOMAIN pieces : pieces[i].part # "head"}

EntriesOf(s, at) == LET kept == Kept(s, at) IN [i \in DOMAIN kept |-> Entry(kept[i])]

(* The lines of a peer that were not handled, oldest first, with the       *)
(* copies that were made of unended ones.                                  *)
BufferedOf(p) ==
    LET ids == UNION {Of(fd) : fd \in Open(p)}
        lines == [id \in DOMAIN clientMap |->
                    EntriesOf(clientMap[id].buffer, Ends(clientMap[id].buffer))]
    IN  IF ids = {} THEN <<>> ELSE lines[CHOOSE id \in ids : TRUE]
Unhandled(p) == EntriesOf(recvQueue, OfPeer(recvQueue, p))
                  \o BufferedOf(p) \o EntriesOf(net[p], Ends(net[p]))

(* The lines of every peer are handled in order, each once; what is        *)
(* handled besides them is a line that was sent in pieces, in part, and    *)
(* only before the line itself.  Only a closed connection loses lines.     *)
Streams == INSTANCE MpdStreams WITH open <- {p \in Peers : Connected(p)},
                                    begun <- [p \in Peers |-> view[p].cut],
                                    waiting <- [p \in Peers |-> Unhandled(p)]
StreamSpec == Streams!Spec

(* The lines of a connection are all handled, as long as its peer stays,   *)
(* unless a command or a signal ends the process.                          *)
LinesHandled ==
    \A p \in Peers :
        (Open(p) # {} /\ Unhandled(p) # <<>>)
          ~> (Unhandled(p) = <<>> \/ status[p] \in Gone \/ Open(p) = {} \/ ~Running \/ tpc = "spin")

(* No connection was closed yet: a reply to a client that is gone may go   *)
(* to the next user of its descriptor.                                     *)
NoneClosed == \A p \in Peers : status[p] # "off" => Connected(p)

(* An idle with flags may be misread: it then fails and is answered, or    *)
(* not although it was to fail.                                            *)
BareIdle == \A l \in Lines : l.cmd = "idle" => l.args = <<>>

(* A peer whose lines are all handled has got exactly the OKs and ACKs it  *)
(* is owed, whatever failed in its lists, unless it began a list in a list *)
(* or a line came in pieces.                                               *)
AnsweredOnce ==
    (BareIdle /\ NoneClosed) =>
        \A p \in Peers : (/\ Connected(p) /\ ~view[p].nested /\ view[p].cut = {}
                           /\ mpc \in {"idle", "find", "run"} /\ Unhandled(p) = <<>>)
                             => due[p] = 0

(* The lines of a peer run in the order they were sent, in lists or not,   *)
(* and none runs twice but a line that came in pieces: that one may run in *)
(* part, again and again, before it runs.                                  *)
Before(a, b) == a.n < b.n \/ (a.n = b.n /\ a.part = "head")
RunsInOrder ==
    \A p \in Peers : \A i, j \in DOMAIN ran[p] : i < j => Before(ran[p][i], ran[p][j])

(* The lines of a list run only when it ends, lists begun in a list too.   *)
UnendedListsWait ==
    \A p \in Peers : (Connected(p) /\ view[p].cut = {}) =>
                        \A i \in DOMAIN ran[p] : ran[p][i].n \notin view[p].list
=============================================================================
