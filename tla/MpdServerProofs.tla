--------------------------- MODULE MpdServerProofs ---------------------------
(***************************************************************************)
(* Theorems about MpdServer: m_clientMap and the open connections, the     *)
(* backlog, what closes a connection; then its lines: the types of what    *)
(* holds them, from the peers to m_recvQueue, and whom the replies go to.  *)
(***************************************************************************)
EXTENDS MpdServer, SequenceLemmas

(* The shape of an entry of m_clientMap.                                   *)
IsClient(c) ==
    /\ c = [socket |-> c.socket, buffer |-> c.buffer, inCmdList |-> c.inCmdList,
            cmdList |-> c.cmdList]
    /\ c.socket \in Fds \cup {0}

(* A map of such entries.                                                  *)
ClientsOK(map) == map = [id \in DOMAIN map |-> map[id]] /\ \A id \in DOMAIN map : IsClient(map[id])

(* Two entries never have one socket, and the sockets are open.            *)
SocketsOK(map, files) ==
    /\ \A i, j \in DOMAIN map : map[i].socket # 0 /\ map[i].socket = map[j].socket => i = j
    /\ \A id \in DOMAIN map : map[id].socket # 0 => files[map[id].socket] # NoPeer

(* Every open connection has an entry.                                     *)
Covered(map, files) ==
    \A fd \in Fds : files[fd] # NoPeer => \E id \in DOMAIN map : map[id].socket = fd

(* The last ID that was given is below Client_All.                         *)
CounterOK == clientCounter \in Nat /\ clientCounter < ClientAll

(* A descriptor has a peer or is free.                                     *)
FilesOK == file \in [Fds -> Peers \cup {NoPeer}]

(* Entries and descriptors: only the thread that spins has a connection    *)
(* without an entry, the one it seeks an ID for.                           *)
MapInv ==
    /\ CounterOK
    /\ FilesOK
    /\ ClientsOK(clientMap)
    /\ SocketsOK(clientMap, file)
    /\ tpc # "spin" => Covered(clientMap, file)
-----------------------------------------------------------------------------
(* The search for an ID finds a free one if there is any.                  *)
LEMMA NextIDFree ==
    ASSUME CounterOK, FreeIDs # {}
    PROVE  NextID \in FreeIDs
<1> USE MpdServerAssumption
<1> DEFINE T == {k \in IDs : Later(k) \in FreeIDs}
<1>1. T # {}
  <2>1. PICK id \in FreeIDs : TRUE
    OBVIOUS
  <2>2. id \in 1..(ClientAll - 1)
    BY <2>1 DEF FreeIDs, IDs
  <2>3. \E k \in 1..(ClientAll - 1) : Later(k) = id
    <3>1. CASE id > clientCounter
      <4>1. id - clientCounter \in 1..(ClientAll - 1) /\ clientCounter + (id - clientCounter) = id
        BY <2>2, <3>1 DEF CounterOK
      <4>2. Later(id - clientCounter) = id
        BY <2>2, <4>1 DEF Later, CounterOK
      <4> QED
        BY <4>1, <4>2
    <3>2. CASE ~(id > clientCounter)
      <4>1. PICK k : k = id - clientCounter + (ClientAll - 1)
        OBVIOUS
      <4>2. k \in 1..(ClientAll - 1) /\ ~(clientCounter + k < ClientAll)
            /\ clientCounter + k - (ClientAll - 1) = id
        BY <2>2, <3>2, <4>1 DEF CounterOK
      <4>3. Later(k) = id
        BY <4>2 DEF Later, CounterOK
      <4> QED
        BY <4>2, <4>3
    <3> QED
      BY <3>1, <3>2
  <2> QED
    BY <2>1, <2>3 DEF IDs
<1>2. T \subseteq Nat
  BY DEF IDs
<1>3. PICK k \in T : \A j \in T : k <= j
  BY <1>1, <1>2, Least
<1>4. \A j \in 1..(k - 1) : Later(j) \notin FreeIDs
  <2> SUFFICES ASSUME NEW j \in 1..(k - 1), Later(j) \in FreeIDs PROVE FALSE
    OBVIOUS
  <2>1. j \in T /\ j < k
    BY <1>3 DEF IDs
  <2> QED
    BY <1>3, <2>1, <1>2
<1>5. \E n \in IDs : Later(n) \in FreeIDs /\ \A j \in 1..(n - 1) : Later(j) \notin FreeIDs
  BY <1>3, <1>4
<1> QED
  BY <1>5 DEF NextID

(* Each entry's socket after one is made or replaced.                      *)
LEMMA WithClientProperties ==
    ASSUME ClientsOK(clientMap), NEW id, NEW c, IsClient(c)
    PROVE  /\ ClientsOK(WithClient(id, c))
           /\ DOMAIN WithClient(id, c) = DOMAIN clientMap \cup {id}
           /\ WithClient(id, c)[id] = c
           /\ \A i \in DOMAIN clientMap \ {id} : WithClient(id, c)[i] = clientMap[i]
BY DEF WithClient, ClientsOK

(* A new client is an entry.                                               *)
LEMMA FreshProperties ==
    ASSUME NEW fd \in Fds \cup {0}, NEW b
    PROVE  /\ IsClient(Fresh(fd)) /\ Fresh(fd).socket = fd
           /\ IsClient([Fresh(fd) EXCEPT !.inCmdList = b])
           /\ [Fresh(fd) EXCEPT !.inCmdList = b].socket = fd
BY DEF IsClient, Fresh

(* An entry without a socket concerns no descriptor.                       *)
LEMMA AddUnconnected ==
    ASSUME ClientsOK(clientMap), SocketsOK(clientMap, file), NEW id, id \notin DOMAIN clientMap,
           NEW c, IsClient(c), c.socket = 0, NEW map, map = WithClient(id, c)
    PROVE  /\ ClientsOK(map) /\ SocketsOK(map, file)
           /\ Covered(clientMap, file) => Covered(map, file)
<1>0. /\ ClientsOK(WithClient(id, c)) /\ DOMAIN WithClient(id, c) = DOMAIN clientMap \cup {id}
      /\ WithClient(id, c)[id] = c
      /\ \A i \in DOMAIN clientMap \ {id} : WithClient(id, c)[i] = clientMap[i]
  BY WithClientProperties, ZenonT(40)
<1>1. /\ ClientsOK(map) /\ DOMAIN map = DOMAIN clientMap \cup {id} /\ map[id] = c
      /\ \A i \in DOMAIN clientMap : map[i] = clientMap[i]
  BY <1>0
<1>2. SocketsOK(map, file)
  BY <1>1 DEF SocketsOK
<1>3. Covered(clientMap, file) => Covered(map, file)
  BY <1>1 DEF Covered
<1> QED
  BY <1>1, <1>2, <1>3

(* The entries' sockets are all that these conditions read.                *)
LEMMA SameSockets ==
    ASSUME NEW map, DOMAIN map = DOMAIN clientMap,
           \A id \in DOMAIN map : map[id].socket = clientMap[id].socket
    PROVE  /\ SocketsOK(clientMap, file) => SocketsOK(map, file)
           /\ Covered(clientMap, file) => Covered(map, file)
<1>1. SocketsOK(clientMap, file) => SocketsOK(map, file)
  BY DEF SocketsOK
<1>2. Covered(clientMap, file) => Covered(map, file)
  BY DEF Covered
<1> QED
  BY <1>1, <1>2

(* m_clientMap with other fields than the socket of an entry changed.      *)
Changes(map, id) == \E b, c : map = [clientMap EXCEPT ![id].buffer = b, ![id].cmdList = c]

(* That leaves the sockets.                                                *)
LEMMA ChangeFields ==
    ASSUME ClientsOK(clientMap), NEW id \in DOMAIN clientMap, NEW map, Changes(map, id)
    PROVE  /\ ClientsOK(map) /\ DOMAIN map = DOMAIN clientMap
           /\ \A i \in DOMAIN map : map[i].socket = clientMap[i].socket
<1>0. PICK b, c : map = [clientMap EXCEPT ![id].buffer = b, ![id].cmdList = c]
  BY DEF Changes
<1>1. PICK r : r = clientMap[id]
  OBVIOUS
<1>2. r = [socket |-> r.socket, buffer |-> r.buffer, inCmdList |-> r.inCmdList,
           cmdList |-> r.cmdList] /\ r.socket \in Fds \cup {0}
  BY <1>1 DEF ClientsOK, IsClient
<1>3. PICK n : n = map[id] /\ n = [[r EXCEPT !.buffer = b] EXCEPT !.cmdList = c]
  BY <1>0, <1>1 DEF ClientsOK
<1>4. IsClient(n) /\ n.socket = r.socket
  BY <1>2, <1>3 DEF IsClient
<1>5. /\ map = [i \in DOMAIN clientMap |-> map[i]] /\ DOMAIN map = DOMAIN clientMap
      /\ \A i \in DOMAIN clientMap \ {id} : map[i] = clientMap[i]
  BY <1>0 DEF ClientsOK
<1> QED
  BY <1>1, <1>3, <1>4, <1>5 DEF ClientsOK
-----------------------------------------------------------------------------
(* An entry as the main loop leaves it: made if it was gone, its lists set. *)
Relisted(id, l, c) == [socket |-> Client(id).socket, buffer |-> Client(id).buffer,
                       inCmdList |-> l, cmdList |-> c]
Sets(id, l, c) == clientMap' = WithClient(id, Relisted(id, l, c))
Finds(id) == clientMap' = clientMap \/ Sets(id, Client(id).inCmdList, Client(id).cmdList)

(* An entry that is found or made has the fields of one.                   *)
LEMMA ClientProperties ==
    ASSUME ClientsOK(clientMap), NEW id, NEW l, NEW c
    PROVE  /\ IsClient(Client(id)) /\ IsClient(Relisted(id, l, c))
           /\ Relisted(id, l, c).socket = Client(id).socket
           /\ Relisted(id, l, c).buffer = Client(id).buffer
           /\ Client(id) = Relisted(id, Client(id).inCmdList, Client(id).cmdList)
<1>1. PICK r : r = Client(id)
  OBVIOUS
<1>2. IsClient(r)
  BY <1>1, FreshProperties DEF Client, ClientsOK
<1>3. PICK n : n = [socket |-> r.socket, buffer |-> r.buffer, inCmdList |-> l, cmdList |-> c]
  OBVIOUS
<1>4. /\ IsClient(n) /\ n.socket = r.socket /\ n.buffer = r.buffer
  BY <1>2, <1>3 DEF IsClient
<1>5. r = [socket |-> r.socket, buffer |-> r.buffer, inCmdList |-> r.inCmdList,
           cmdList |-> r.cmdList]
  BY <1>2 DEF IsClient
<1> QED
  BY <1>1, <1>2, <1>3, <1>4, <1>5 DEF Relisted

(* Its lists set one by one.                                               *)
LEMMA ClientSet ==
    ASSUME ClientsOK(clientMap), NEW id, NEW l, NEW c
    PROVE  /\ [Client(id) EXCEPT !.inCmdList = l] = Relisted(id, l, Client(id).cmdList)
           /\ [Client(id) EXCEPT !.cmdList = c] = Relisted(id, Client(id).inCmdList, c)
<1>1. PICK r : r = Client(id)
  OBVIOUS
<1>2. r = [socket |-> r.socket, buffer |-> r.buffer, inCmdList |-> r.inCmdList,
           cmdList |-> r.cmdList]
  BY <1>1, ClientProperties DEF IsClient
<1>3. PICK n : n = [r EXCEPT !.inCmdList = l]
  OBVIOUS
<1>4. n = [socket |-> r.socket, buffer |-> r.buffer, inCmdList |-> l, cmdList |-> r.cmdList]
  BY <1>2, <1>3
<1>5. [r EXCEPT !.cmdList = c]
        = [socket |-> r.socket, buffer |-> r.buffer, inCmdList |-> r.inCmdList, cmdList |-> c]
  BY <1>2
<1>8. /\ [r EXCEPT !.inCmdList = l] = Relisted(id, l, r.cmdList)
      /\ [r EXCEPT !.cmdList = c] = Relisted(id, r.inCmdList, c)
  BY <1>1, <1>3, <1>4, <1>5 DEF Relisted
<1> QED
  BY <1>1, <1>8

(* What the main loop does to the entry of a message's client.             *)
LEMMA FindMoves ==
    ASSUME ClientsOK(clientMap), FindClient
    PROVE  Sets(Head(recvQueue).client, Client(Head(recvQueue).client).inCmdList,
                Client(Head(recvQueue).client).cmdList)
<1>1. PICK id : id = Head(recvQueue).client
  OBVIOUS
<1>2. clientMap' = WithClient(id, Client(id))
  BY <1>1 DEF FindClient, Looked
<1>3. Client(id) = Relisted(id, Client(id).inCmdList, Client(id).cmdList)
  BY ClientProperties
<1> QED
  BY <1>1, <1>2, <1>3 DEF Sets

(* The ways to handle a message: the client is in a list, ...              *)
Listing(id) == id \in DOMAIN clientMap /\ clientMap[id].inCmdList
Joins(m) ==
    /\ IsKnown(m.line) /\ ~IsEnd(m.line) /\ Listing(m.client)
    /\ Sets(m.client, Client(m.client).inCmdList, Append(Client(m.client).cmdList, m))
    /\ Done(m, <<>>) /\ ran' = ran
Lost(m) ==
    /\ IsKnown(m.line) /\ ~IsEnd(m.line) /\ m.client \notin DOMAIN clientMap
    /\ clientMap' = clientMap /\ Done(m, <<>>) /\ ran' = ran
Refused(m) ==
    /\ IsKnown(m.line) => WrongArgs(m.line) /\ (IsEnd(m.line) \/ ~Listing(m.client))
    /\ clientMap' = clientMap /\ Done(m, <<"ACK">>) /\ ran' = ran
Runs(m) ==
    /\ IsKnown(m.line) /\ ~WrongArgs(m.line) /\ ~IsEnd(m.line) /\ ~IsBegin(m.line)
    /\ ~Listing(m.client)
    /\ Finds(m.client)
    /\ \E l \in Read(m) : Outcome(l) # "throws" /\ \E replies \in Written(l, FALSE) : Done(m, replies)
    /\ Ran(m)
Opens(m) ==
    /\ IsKnown(m.line) /\ IsBegin(m.line) /\ ~Listing(m.client)
    /\ Sets(m.client, TRUE, Client(m.client).cmdList)
    /\ Done(m, <<>>) /\ ran' = ran
ClosesList(m) ==
    /\ IsEnd(m.line) /\ ~WrongArgs(m.line)
    /\ Sets(m.client, FALSE, <<>>)
    /\ recvQueue' = Tail(recvQueue) /\ running' = Client(m.client).cmdList
    /\ Continue(m.client, m.peer, <<"OK">>) /\ ran' = ran
Handled(m) == Joins(m) \/ Lost(m) \/ Refused(m) \/ Runs(m) \/ Opens(m) \/ ClosesList(m)

(* ... and there is no other.                                              *)
LEMMA HandledMessage ==
    ASSUME ClientsOK(clientMap), RunMessage
    PROVE  Terminate \/ Handled(Head(recvQueue))
<1>1. PICK m : m = Head(recvQueue)
  OBVIOUS
<1>2. PICK id : id = m.client
  OBVIOUS
<1>3. \/ Terminate
      \/ \E inList \in InCmdList(id) :
            QueueLine(m, inList) \/ Refuse(m, inList) \/ RunLine(m, inList) \/ BeginList(m, inList)
      \/ EndList(m)
  BY <1>1, <1>2 DEF RunMessage
<1>4. ASSUME NEW inList \in InCmdList(id)
      PROVE  inList \in InCmdList(id) /\ (id \in DOMAIN clientMap => (inList <=> Listing(id)))
             /\ (~inList => ~Listing(id))
  BY DEF InCmdList, Listing
<1>5. ASSUME NEW inList \in InCmdList(id), QueueLine(m, inList) PROVE Joins(m) \/ Lost(m)
  <2>1. CASE id \in DOMAIN clientMap
    <3>1. clientMap' = WithClient(id, [Client(id) EXCEPT !.cmdList = Append(@, m)])
      BY <1>2, <1>5, <2>1 DEF QueueLine
    <3>2. PICK c : c = Append(Client(id).cmdList, m)
      OBVIOUS
    <3>3. [Client(id) EXCEPT !.cmdList = c] = Relisted(id, Client(id).inCmdList, c)
      BY ClientSet
    <3>4. Sets(id, Client(id).inCmdList, c)
      BY <3>1, <3>2, <3>3 DEF Sets
    <3> QED
      BY <1>2, <1>4, <1>5, <2>1, <3>2, <3>4 DEF QueueLine, Queues, Joins
  <2>2. CASE id \notin DOMAIN clientMap
    BY <1>2, <1>5, <2>2 DEF QueueLine, Queues, Lost
  <2> QED
    BY <2>1, <2>2
<1>6. ASSUME NEW inList \in InCmdList(id), Refuse(m, inList) PROVE Refused(m)
  BY <1>2, <1>4, <1>6 DEF Refuse, Queues, Refused
<1>7. ASSUME NEW inList \in InCmdList(id), RunLine(m, inList) PROVE Terminate \/ Runs(m)
  <2>1. Client(id) = Relisted(id, Client(id).inCmdList, Client(id).cmdList)
    BY ClientProperties
  <2>2. \A l : clientMap' = Used(l, id) => Finds(id)
    BY <2>1 DEF Used, Looked, Finds, Sets
  <2> QED
    BY <1>2, <1>4, <1>7, <2>2 DEF RunLine, Queues, Runs
<1>8. ASSUME NEW inList \in InCmdList(id), BeginList(m, inList) PROVE Opens(m)
  <2>1. [Client(id) EXCEPT !.inCmdList = TRUE] = Relisted(id, TRUE, Client(id).cmdList)
    BY ClientSet
  <2>2. ~IsEnd(m.line)
    BY <1>8 DEF BeginList, IsBegin, IsEnd
  <2> QED
    BY <1>2, <1>4, <1>8, <2>1, <2>2 DEF BeginList, Queues, Opens, Sets
<1>9. ASSUME EndList(m) PROVE ClosesList(m)
  <2>0. PICK l, c : l = FALSE /\ c = <<>>
    OBVIOUS
  <2>4. PICK r : r = [Client(id) EXCEPT !.inCmdList = l]
    OBVIOUS
  <2>7. [Client(id) EXCEPT !.inCmdList = l] = Relisted(id, l, Client(id).cmdList)
    BY ClientSet
  <2>5. r = Relisted(id, l, Client(id).cmdList)
    BY <2>4, <2>7
  <2>6. [r EXCEPT !.cmdList = c] = Relisted(id, l, c)
    BY <2>5 DEF Relisted
  <2>1. [Client(id) EXCEPT !.inCmdList = l, !.cmdList = c] = Relisted(id, l, c)
    BY <2>4, <2>6
  <2>2. clientMap' = WithClient(id, [Client(id) EXCEPT !.inCmdList = l, !.cmdList = c])
    BY <1>2, <1>9, <2>0 DEF EndList, ListLeft
  <2>3. Sets(id, FALSE, <<>>)
    BY <2>0, <2>1, <2>2 DEF Sets
  <2> QED
    BY <1>2, <1>9, <2>3 DEF EndList, ClosesList
<1> QED
  BY <1>1, <1>3, <1>5, <1>6, <1>7, <1>8, <1>9 DEF Handled

(* The next command of a list.                                             *)
Steps(m) ==
    \E l \in Read(m) : \E replies \in Written(l, TRUE) :
        /\ ListOutcome(l) # "throws"
        /\ Sets(m.client, Client(m.client).inCmdList \/ IsBegin(l), Client(m.client).cmdList)
        /\ running' = IF ListOutcome(l) = "error" THEN <<>> ELSE Tail(running)
        /\ recvQueue' = recvQueue
        /\ Continue(sending.client, sending.peer,
                    IF ListOutcome(l) = "error" THEN replies ELSE replies \o sending.replies)
        /\ Ran(m)

LEMMA HandledListed ==
    ASSUME ClientsOK(clientMap), RunListed
    PROVE  Terminate \/ Steps(Head(running))
<1>1. PICK m : m = Head(running)
  OBVIOUS
<1>2. PICK id : id = m.client
  OBVIOUS
<1>3. ASSUME NEW l \in Read(m)
      PROVE  [Client(id) EXCEPT !.inCmdList = @ \/ IsBegin(l)]
               = Relisted(id, Client(id).inCmdList \/ IsBegin(l), Client(id).cmdList)
  <2>1. PICK b : b = (Client(id).inCmdList \/ IsBegin(l))
    OBVIOUS
  <2>2. [Client(id) EXCEPT !.inCmdList = b] = Relisted(id, b, Client(id).cmdList)
    BY ClientSet
  <2> QED
    BY <2>1, <2>2
<1> QED
  BY <1>1, <1>2, <1>3 DEF RunListed, Steps, Sets
-----------------------------------------------------------------------------
(* Nobody is connected at the start.                                       *)
LEMMA MapInit == Init => MapInv
BY MpdServerAssumption DEF Init, MapInv, CounterOK, FilesOK, ClientsOK, SocketsOK, Covered

(* Steps that leave the map and the descriptors alone.                     *)
LEMMA MapStutter ==
    ASSUME MapInv, clientMap' = clientMap, file' = file, clientCounter' = clientCounter,
           tpc' # "spin" => tpc # "spin"
    PROVE  MapInv'
BY DEF MapInv, CounterOK, FilesOK, ClientsOK, IsClient, SocketsOK, Covered

(* Steps that change the entries but not their sockets.                    *)
LEMMA MapSameSockets ==
    ASSUME MapInv, ClientsOK(clientMap'), DOMAIN clientMap' = DOMAIN clientMap,
           \A id \in DOMAIN clientMap' : clientMap'[id].socket = clientMap[id].socket,
           file' = file, clientCounter' = clientCounter,
           tpc' # "spin" => tpc # "spin"
    PROVE  MapInv'
<1>1. PICK map : map = clientMap'
  OBVIOUS
<1>2. SocketsOK(map, file) /\ (Covered(clientMap, file) => Covered(map, file))
  BY <1>1, SameSockets DEF MapInv
<1>3. SocketsOK(clientMap', file') /\ (Covered(clientMap, file) => Covered(clientMap', file'))
  BY <1>1, <1>2
<1>4. ClientsOK(clientMap)' <=> ClientsOK(clientMap')
  BY DEF ClientsOK, IsClient
<1>5. SocketsOK(clientMap, file)' <=> SocketsOK(clientMap', file')
  BY DEF SocketsOK
<1>6. Covered(clientMap, file)' <=> Covered(clientMap', file')
  BY DEF Covered
<1> QED
  BY <1>3, <1>4, <1>5, <1>6 DEF MapInv, CounterOK, FilesOK

(* A step that makes an entry without a socket.                            *)
LEMMA MapAddUnconnected ==
    ASSUME MapInv, NEW id, id \notin DOMAIN clientMap, NEW c, IsClient(c), c.socket = 0,
           clientMap' = WithClient(id, c),
           file' = file, clientCounter' = clientCounter, tpc' # "spin" => tpc # "spin"
    PROVE  MapInv'
<1>1. PICK map : map = clientMap'
  OBVIOUS
<1>2. /\ ClientsOK(map) /\ SocketsOK(map, file)
      /\ Covered(clientMap, file) => Covered(map, file)
  BY <1>1, AddUnconnected DEF MapInv
<1>3. /\ ClientsOK(clientMap') /\ SocketsOK(clientMap', file')
      /\ Covered(clientMap, file) => Covered(clientMap', file')
  BY <1>1, <1>2
<1>4. ClientsOK(clientMap)' <=> ClientsOK(clientMap')
  BY DEF ClientsOK, IsClient
<1>5. SocketsOK(clientMap, file)' <=> SocketsOK(clientMap', file')
  BY DEF SocketsOK
<1>6. Covered(clientMap, file)' <=> Covered(clientMap', file')
  BY DEF Covered
<1> QED
  BY <1>3, <1>4, <1>5, <1>6 DEF MapInv, CounterOK, FilesOK

(* A closed descriptor loses its entry.                                    *)
LEMMA MapClose ==
    ASSUME MapInv, NEW e, NEW later, tpc = "poll", CloseClient(e, later)
    PROVE  MapInv'
<1>1. PICK map, files :
         /\ map = [id \in DOMAIN clientMap \ Of(e.fd) |-> clientMap[id]]
         /\ files = [file EXCEPT ![e.fd] = NoPeer]
  OBVIOUS
<1>2. clientMap' = map /\ file' = files /\ clientCounter' = clientCounter /\ tpc' = tpc
  BY <1>1 DEF CloseClient
<1>3. /\ DOMAIN map \subseteq DOMAIN clientMap
      /\ \A id \in DOMAIN map : map[id] = clientMap[id] /\ clientMap[id].socket # e.fd
      /\ \A id \in DOMAIN clientMap : clientMap[id].socket # e.fd => id \in DOMAIN map
  BY <1>1 DEF Of
<1>4. /\ files \in [Fds -> Peers \cup {NoPeer}]
      /\ \A fd \in Fds : fd # e.fd => files[fd] = file[fd]
      /\ e.fd \in Fds => files[e.fd] = NoPeer
  BY <1>1 DEF MapInv, FilesOK
<1>5. ClientsOK(map)
  BY <1>1, <1>3 DEF MapInv, ClientsOK
<1>6. SocketsOK(map, files)
  <2>1. \A i, j \in DOMAIN map : map[i].socket # 0 /\ map[i].socket = map[j].socket => i = j
    BY <1>3 DEF MapInv, SocketsOK
  <2>2. ASSUME NEW id \in DOMAIN map, map[id].socket # 0 PROVE files[map[id].socket] # NoPeer
    <3>1. map[id].socket \in Fds /\ map[id].socket # e.fd /\ file[map[id].socket] # NoPeer
      BY <1>3, <2>2 DEF MapInv, SocketsOK, ClientsOK, IsClient
    <3> QED
      BY <3>1, <1>4
  <2> QED
    BY <2>1, <2>2 DEF SocketsOK
<1>7. Covered(map, files)
  BY <1>3, <1>4 DEF MapInv, Covered
<1>8. ClientsOK(clientMap)' /\ SocketsOK(clientMap, file)' /\ Covered(clientMap, file)'
  <2>1. ClientsOK(clientMap') /\ SocketsOK(clientMap', file') /\ Covered(clientMap', file')
    BY <1>2, <1>5, <1>6, <1>7
  <2> QED
    BY <2>1 DEF ClientsOK, IsClient, SocketsOK, Covered
<1> QED
  BY <1>2, <1>4, <1>8 DEF MapInv, CounterOK, FilesOK

(* What is read goes to the Buffer of an entry.                            *)
LEMMA MapReceive ==
    ASSUME MapInv, NEW e, NEW later, Receive(e, later)
    PROVE  MapInv'
<1>1. file' = file /\ clientCounter' = clientCounter /\ tpc' = tpc
  BY DEF Receive
<1>2. CASE clientMap' = clientMap
  BY <1>1, <1>2, MapStutter
<1>3. CASE clientMap' # clientMap
  <2>1. /\ Of(e.fd) # {}
        /\ clientMap' = [clientMap EXCEPT
              ![CHOOSE i \in Of(e.fd) : TRUE].buffer = @ \o SubSeq(net[file[e.fd]], 1, Received(file[e.fd])),
              ![CHOOSE i \in Of(e.fd) : TRUE].cmdList = Unviewed(@, {CHOOSE i \in Of(e.fd) : TRUE})]
    BY <1>3 DEF Receive
  <2>2. PICK id : id = (CHOOSE i \in Of(e.fd) : TRUE) /\ id \in DOMAIN clientMap
    BY <2>1 DEF Of
  <2>3. PICK map : map = clientMap'
    OBVIOUS
  <2>6. \E b, c : map = [clientMap EXCEPT ![id].buffer = b, ![id].cmdList = c]
    BY <2>1, <2>2, <2>3
  <2>7. Changes(map, id)
    BY <2>6 DEF Changes
  <2>4. /\ ClientsOK(map) /\ DOMAIN map = DOMAIN clientMap
        /\ \A i \in DOMAIN map : map[i].socket = clientMap[i].socket
    BY <2>2, <2>7, ChangeFields DEF MapInv
  <2>5. /\ ClientsOK(clientMap') /\ DOMAIN clientMap' = DOMAIN clientMap
        /\ \A i \in DOMAIN clientMap' : clientMap'[i].socket = clientMap[i].socket
    BY <2>3, <2>4
  <2> QED
    BY <1>1, <2>5, MapSameSockets
<1> QED
  BY <1>2, <1>3

(* Accepting gives a descriptor that was free, and an ID that was, or the  *)
(* thread spins.                                                           *)
LEMMA MapAccept ==
    ASSUME MapInv, AcceptOne
    PROVE  MapInv'
<1>1. PICK p \in Peers, fd \in Fds : Accepts(p, fd) /\ (SpinForID \/ Greet(p, fd))
  BY DEF AcceptOne
<1>2. PICK files : files = [file EXCEPT ![fd] = p]
  OBVIOUS
<1>3. /\ file' = files /\ file[fd] = NoPeer
  BY <1>1, <1>2 DEF Accepts, FreeFds, Open
<1>4. p # NoPeer /\ fd # 0
  BY MpdServerAssumption
<1>5. /\ files \in [Fds -> Peers \cup {NoPeer}] /\ files[fd] = p
      /\ \A other \in Fds : other # fd => files[other] = file[other]
  BY <1>2 DEF MapInv, FilesOK
<1>6. \A id \in DOMAIN clientMap : clientMap[id].socket # fd
  BY <1>3, <1>4 DEF MapInv, SocketsOK
<1>7. SocketsOK(clientMap, files)
  BY <1>5, <1>6 DEF MapInv, SocketsOK, ClientsOK, IsClient
<1>8. tpc = "accept"
  BY DEF AcceptOne
<1>9. CASE SpinForID
  <2>1. clientMap' = clientMap /\ clientCounter' = clientCounter /\ tpc' = "spin"
    BY <1>9 DEF SpinForID
  <2>2. SocketsOK(clientMap', file') /\ ClientsOK(clientMap')
    BY <1>3, <1>7, <2>1 DEF MapInv
  <2>3. SocketsOK(clientMap, file)' /\ ClientsOK(clientMap)'
    BY <2>2 DEF SocketsOK, ClientsOK, IsClient
  <2> QED
    BY <1>3, <1>5, <2>1, <2>3 DEF MapInv, CounterOK, FilesOK
<1>10. CASE Greet(p, fd)
  <2>1. PICK id, c, map : id = NextID /\ c = Fresh(fd) /\ map = WithClient(id, c)
    OBVIOUS
  <2>2. FreeIDs # {} /\ clientMap' = map /\ clientCounter' = id /\ tpc' = tpc
    BY <1>10, <2>1 DEF Greet
  <2>3. id \in FreeIDs
    BY <2>1, <2>2, NextIDFree DEF MapInv
  <2>4. id \in Nat /\ id < ClientAll /\ id \notin DOMAIN clientMap
    BY <2>3, MpdServerAssumption DEF FreeIDs, IDs
  <2>5. IsClient(c) /\ c.socket = fd
    BY <2>1, FreshProperties
  <2>6. /\ ClientsOK(map) /\ DOMAIN map = DOMAIN clientMap \cup {id} /\ map[id] = c
        /\ \A i \in DOMAIN clientMap \ {id} : map[i] = clientMap[i]
    <3>1. /\ ClientsOK(WithClient(id, c)) /\ DOMAIN WithClient(id, c) = DOMAIN clientMap \cup {id}
          /\ WithClient(id, c)[id] = c
          /\ \A i \in DOMAIN clientMap \ {id} : WithClient(id, c)[i] = clientMap[i]
      BY <2>5, WithClientProperties, ZenonT(40) DEF MapInv
    <3> QED
      BY <2>1, <3>1
  <2>7. SocketsOK(map, files)
    <3>1. \A i, j \in DOMAIN map : map[i].socket # 0 /\ map[i].socket = map[j].socket => i = j
      BY <1>6, <2>4, <2>5, <2>6 DEF MapInv, SocketsOK
    <3>2. \A i \in DOMAIN map : map[i].socket # 0 => files[map[i].socket] # NoPeer
      BY <1>4, <1>5, <1>7, <2>4, <2>5, <2>6 DEF SocketsOK
    <3> QED
      BY <3>1, <3>2 DEF SocketsOK
  <2>8. Covered(map, files)
    <3> SUFFICES ASSUME NEW other \in Fds, files[other] # NoPeer
                 PROVE  \E i \in DOMAIN map : map[i].socket = other
      BY DEF Covered
    <3>1. CASE other = fd
      BY <2>5, <2>6, <3>1
    <3>2. CASE other # fd
      <4>1. PICK i \in DOMAIN clientMap : clientMap[i].socket = other
        BY <1>5, <1>8, <3>2 DEF MapInv, Covered
      <4> QED
        BY <2>4, <2>6, <4>1
    <3> QED
      BY <3>1, <3>2
  <2>9. ClientsOK(clientMap') /\ SocketsOK(clientMap', file') /\ Covered(clientMap', file')
    BY <1>3, <2>2, <2>6, <2>7, <2>8
  <2>10. ClientsOK(clientMap)' /\ SocketsOK(clientMap, file)' /\ Covered(clientMap, file)'
    BY <2>9 DEF ClientsOK, IsClient, SocketsOK, Covered
  <2> QED
    BY <1>3, <1>5, <2>2, <2>4, <2>10 DEF MapInv, CounterOK, FilesOK
<1> QED
  BY <1>1, <1>9, <1>10

(* Generate cuts the Buffers.                                              *)
LEMMA MapGenerate ==
    ASSUME MapInv, Generate
    PROVE  MapInv'
<1>1. /\ clientMap' = [id \in DOMAIN clientMap |-> [clientMap[id] EXCEPT !.buffer = Remainder(@)]]
      /\ file' = file /\ clientCounter' = clientCounter /\ tpc' = "poll" /\ tpc = "generate"
  BY DEF Generate, kernelVars
<1>2. ASSUME NEW id \in DOMAIN clientMap'
      PROVE  IsClient(clientMap'[id]) /\ clientMap'[id].socket = clientMap[id].socket
  <2>1. PICK r : r = clientMap[id]
    OBVIOUS
  <2>2. PICK b : b = Remainder(r.buffer)
    OBVIOUS
  <2>3. clientMap'[id] = [r EXCEPT !.buffer = b]
    BY <1>1, <2>1, <2>2
  <2>4. r = [socket |-> r.socket, buffer |-> r.buffer, inCmdList |-> r.inCmdList,
             cmdList |-> r.cmdList] /\ r.socket \in Fds \cup {0}
    BY <1>1, <2>1 DEF MapInv, ClientsOK, IsClient
  <2>5. IsClient([r EXCEPT !.buffer = b]) /\ [r EXCEPT !.buffer = b].socket = r.socket
    BY <2>4 DEF IsClient
  <2> QED
    BY <2>1, <2>3, <2>5
<1>3. ClientsOK(clientMap') /\ DOMAIN clientMap' = DOMAIN clientMap
  BY <1>1, <1>2 DEF ClientsOK
<1> QED
  BY <1>1, <1>2, <1>3, MapSameSockets

(* The main loop finds an entry or makes one, and sets its lists.          *)
LEMMA MapSets ==
    ASSUME MapInv, NEW id, NEW l, NEW c, Sets(id, l, c),
           file' = file, clientCounter' = clientCounter, tpc' = tpc
    PROVE  MapInv'
<1>1. PICK r : r = Relisted(id, l, c)
  OBVIOUS
<1>0. ClientsOK(clientMap)
  BY DEF MapInv
<1>2. /\ IsClient(r) /\ r.socket = Client(id).socket /\ clientMap' = WithClient(id, r)
  BY <1>0, <1>1, ClientProperties DEF Sets
<1>3. CASE id \notin DOMAIN clientMap
  <2>1. r.socket = 0
    BY <1>2, <1>3, FreshProperties DEF Client
  <2> QED
    BY <1>2, <1>3, <2>1, MapAddUnconnected
<1>4. CASE id \in DOMAIN clientMap
  <2>1. PICK map : map = WithClient(id, r)
    OBVIOUS
  <2>6. IsClient(r)
    BY <1>2
  <2>2. /\ ClientsOK(WithClient(id, r)) /\ DOMAIN WithClient(id, r) = DOMAIN clientMap \cup {id}
        /\ WithClient(id, r)[id] = r
        /\ \A i \in DOMAIN clientMap \ {id} : WithClient(id, r)[i] = clientMap[i]
    BY <1>0, <2>6, WithClientProperties, ZenonT(40)
  <2>3. /\ ClientsOK(clientMap') /\ DOMAIN clientMap' = DOMAIN clientMap \cup {id}
        /\ clientMap'[id] = r
        /\ \A i \in DOMAIN clientMap \ {id} : clientMap'[i] = clientMap[i]
    BY <1>2, <2>2
  <2>4. Client(id) = clientMap[id]
    BY <1>4 DEF Client
  <2>5. /\ DOMAIN clientMap' = DOMAIN clientMap
        /\ \A i \in DOMAIN clientMap' : clientMap'[i].socket = clientMap[i].socket
    BY <1>2, <1>4, <2>3, <2>4
  <2> QED
    BY <2>3, <2>5, MapSameSockets
<1> QED
  BY <1>3, <1>4

(* What a step of the main loop does to the map, all in all.               *)
LEMMA MainMoves ==
    ASSUME ClientsOK(clientMap), Handle
    PROVE  /\ clientMap' = clientMap \/ \E id, l, c : Sets(id, l, c)
           /\ file' = file /\ clientCounter' = clientCounter /\ tpc' = tpc
<1>1. CASE FindClient
  BY <1>1, FindMoves DEF FindClient, kernelVars, threadVars
<1>2. CASE RunMessage
  <2>1. PICK m : m = Head(recvQueue)
    OBVIOUS
  <2>2. Terminate \/ Handled(m)
    BY <1>2, <2>1, HandledMessage
  <2>3. clientMap' = clientMap \/ \E id, l, c : Sets(id, l, c)
    BY <2>2 DEF Terminate, Handled, Joins, Lost, Refused, Runs, Opens, ClosesList, Finds
  <2> QED
    BY <1>2, <2>3 DEF RunMessage, kernelVars, threadVars
<1>3. CASE RunListed
  <2>1. Terminate \/ Steps(Head(running))
    BY <1>3, HandledListed
  <2>2. clientMap' = clientMap \/ \E id, l, c : Sets(id, l, c)
    BY <2>1 DEF Terminate, Steps
  <2> QED
    BY <1>3, <2>2 DEF RunListed, kernelVars, threadVars
<1>4. CASE Write \/ SendReply
  BY <1>4 DEF Write, SendReply, Terminate, kernelVars, threadVars
<1> QED
  BY <1>1, <1>2, <1>3, <1>4 DEF Handle

(* The invariant of the map is inductive.                                  *)
LEMMA MapStep == MapInv /\ [Next]_vars => MapInv'
<1> SUFFICES ASSUME MapInv, [Next]_vars PROVE MapInv'
  OBVIOUS
<1>1. CASE Environment \/ EndAccept \/ BeginGenerate \/ BeginUpdate \/ UNCHANGED vars
  <2>1. /\ clientMap' = clientMap /\ file' = file /\ clientCounter' = clientCounter
        /\ tpc' # "spin" => tpc # "spin"
    BY <1>1 DEF Environment, Connect, SendRest, Leave, Reset, SendLine, CutLine, EndAccept,
                BeginGenerate, BeginUpdate, vars, kernelVars, threadVars
  <2> QED
    BY <2>1, MapStutter
<1>2. CASE HandleEvent
  <2>1. PICK e, later :
           tpc = "poll" /\ (CloseClient(e, later) \/ Receive(e, later) \/ BeginAccept(e, later))
    BY <1>2 DEF HandleEvent
  <2>2. CASE CloseClient(e, later)
    BY <2>1, <2>2, MapClose
  <2>3. CASE Receive(e, later)
    BY <2>3, MapReceive
  <2>4. CASE BeginAccept(e, later)
    BY <2>1, <2>4, MapStutter DEF BeginAccept
  <2> QED
    BY <2>1, <2>2, <2>3, <2>4
<1>3. CASE AcceptOne
  BY <1>3, MapAccept
<1>4. CASE Generate
  BY <1>4, MapGenerate
<1>5. CASE Handle
  <2>1. /\ clientMap' = clientMap \/ \E id, l, c : Sets(id, l, c)
        /\ file' = file /\ clientCounter' = clientCounter /\ tpc' = tpc
    BY <1>5, MainMoves DEF MapInv
  <2> QED
    BY <2>1, MapStutter, MapSets
<1> QED
  BY <1>1, <1>2, <1>3, <1>4, <1>5 DEF Next, Thread

(* The entries and descriptors match in every state.                       *)
THEOREM MapBasic == Spec => []MapInv
<1> QED
  BY MapInit, MapStep, PTL DEF Spec

(* m_clientMap and the descriptors match: an open connection has one entry *)
(* and a closed one has none, whatever leaves, is accepted or is run, for  *)
(* any number of connections and of IDs.                                   *)
THEOREM MapMatches == Spec => []MapMatchesDescriptors
<1>1. MapInv => MapMatchesDescriptors
  <2> SUFFICES ASSUME MapInv, tpc # "spin", NEW fd \in Fds
               PROVE  Cardinality(Of(fd)) = IF file[fd] = NoPeer THEN 0 ELSE 1
    BY DEF MapMatchesDescriptors
  <2>1. fd # 0
    BY MpdServerAssumption
  <2>2. CASE file[fd] = NoPeer
    <3>1. Of(fd) = {}
      BY <2>1, <2>2 DEF MapInv, SocketsOK, Of
    <3> QED
      BY <2>2, <3>1, FS_EmptySet
  <2>3. CASE file[fd] # NoPeer
    <3>1. PICK id \in DOMAIN clientMap : clientMap[id].socket = fd
      BY <2>3 DEF MapInv, Covered
    <3>2. Of(fd) = {id}
      BY <2>1, <3>1 DEF MapInv, SocketsOK, Of
    <3>3. Cardinality({id}) = 1
      BY FS_Singleton
    <3> QED
      BY <2>3, <3>2, <3>3
  <2> QED
    BY <2>2, <2>3
<1> QED
  BY <1>1, MapBasic, PTL
-----------------------------------------------------------------------------
(* What Kept's recursion computes up to n.                                 *)
IsKept(f, s, at, n) ==
    f = [i \in 0..n |-> IF i = 0 THEN <<>>
                        ELSE IF i \in at THEN Append(f[i - 1], s[i]) ELSE f[i - 1]]

(* t has the elements of s at the indices of at up to n, in order; g tells *)
(* where they come from.                                                   *)
Picks(g, t, s, at, n) ==
    /\ g \in [1..Len(t) -> 1..n]
    /\ \A k \in 1..Len(t) : t[k] = s[g[k]] /\ g[k] \in at
    /\ \A j, k \in 1..Len(t) : j < k => g[j] < g[k]
    /\ \A i \in 1..n : i \in at => \E k \in 1..Len(t) : g[k] = i

(* They come from somewhere.                                               *)
Selects(t, s, at, n) == \E g : Picks(g, t, s, at, n)

(* The recursive function that Kept chooses exists.                        *)
LEMMA KeptExists ==
    ASSUME NEW s, NEW at, NEW m \in Nat
    PROVE  \E f : IsKept(f, s, at, m)
<1> DEFINE T == {n \in Nat : \E f : IsKept(f, s, at, n)}
<1>1. 0 \in T
  <2>1. PICK f : f = [i \in 0..0 |-> <<>>]
    OBVIOUS
  <2>2. IsKept(f, s, at, 0)
    BY <2>1 DEF IsKept
  <2> QED
    BY <2>2
<1>2. ASSUME NEW n \in Nat, n \in T PROVE n + 1 \in T
  <2>1. PICK f : IsKept(f, s, at, n)
    BY <1>2
  <2>2. PICK e : e = IF n + 1 \in at THEN Append(f[n], s[n + 1]) ELSE f[n]
    OBVIOUS
  <2>3. PICK h : h = [i \in 0..(n + 1) |-> IF i = n + 1 THEN e ELSE f[i]]
    OBVIOUS
  <2>4. h[n + 1] = e /\ \A i \in 0..n : h[i] = f[i]
    BY <2>3
  <2>5. \A i \in 0..n : f[i] = IF i = 0 THEN <<>>
                               ELSE IF i \in at THEN Append(f[i - 1], s[i]) ELSE f[i - 1]
    BY <2>1 DEF IsKept
  <2>6. ASSUME NEW i \in 0..(n + 1)
        PROVE  h[i] = IF i = 0 THEN <<>>
                      ELSE IF i \in at THEN Append(h[i - 1], s[i]) ELSE h[i - 1]
    <3>1. CASE i = n + 1
      <4>1. h[n] = f[n] /\ i - 1 = n /\ i # 0
        BY <2>4, <3>1
      <4> QED
        BY <2>2, <2>4, <3>1, <4>1
    <3>2. CASE i = 0
      BY <2>4, <2>5, <3>2
    <3>3. CASE i \in 1..n
      <4>1. i - 1 \in 0..n /\ i \in 0..n /\ i # 0
        BY <3>3
      <4>2. h[i - 1] = f[i - 1] /\ h[i] = f[i]
        BY <2>4, <4>1
      <4> QED
        BY <2>5, <4>1, <4>2
    <3> QED
      BY <3>1, <3>2, <3>3
  <2>7. IsKept(h, s, at, n + 1)
    BY <2>3, <2>6 DEF IsKept
  <2> QED
    BY <2>7
<1> HIDE DEF T
<1>3. Nat \subseteq T
  BY <1>1, <1>2, Induction
<1> QED
  BY <1>3 DEF T

(* One step of the selection.                                              *)
LEMMA SelectsNext ==
    ASSUME NEW S, NEW s \in Seq(S), NEW at, NEW n \in Nat, n + 1 <= Len(s),
           NEW t \in Seq(S), Selects(t, s, at, n),
           NEW u, u = IF n + 1 \in at THEN Append(t, s[n + 1]) ELSE t
    PROVE  u \in Seq(S) /\ Selects(u, s, at, n + 1)
<1>1. PICK g : Picks(g, t, s, at, n)
  BY DEF Selects
<1>2. PICK m \in Nat : m = Len(t)
  OBVIOUS
<1>3. CASE n + 1 \in at
  <2>1. PICK e : e = s[n + 1] /\ e \in S /\ u = Append(t, e)
    BY <1>3
  <2>2. u \in Seq(S) /\ Len(u) = m + 1 /\ u[m + 1] = e /\ \A k \in 1..m : u[k] = t[k]
    BY <1>2, <2>1
  <2>3. PICK h : h = [k \in 1..(m + 1) |-> IF k = m + 1 THEN n + 1 ELSE g[k]]
    OBVIOUS
  <2>4. /\ g \in [1..m -> 1..n]
        /\ \A k \in 1..m : t[k] = s[g[k]] /\ g[k] \in at
        /\ \A j, k \in 1..m : j < k => g[j] < g[k]
        /\ \A i \in 1..n : i \in at => \E k \in 1..m : g[k] = i
    BY <1>1, <1>2 DEF Picks
  <2>5. h[m + 1] = n + 1 /\ \A k \in 1..m : h[k] = g[k] /\ h[k] \in 1..n
    BY <2>3, <2>4
  <2>6. h \in [1..(m + 1) -> 1..(n + 1)]
    BY <2>3, <2>4
  <2>7. ASSUME NEW k \in 1..(m + 1) PROVE u[k] = s[h[k]] /\ h[k] \in at
    <3>1. CASE k = m + 1
      BY <1>3, <2>1, <2>2, <2>5, <3>1
    <3>2. CASE k \in 1..m
      BY <2>2, <2>4, <2>5, <3>2
    <3>3. k = m + 1 \/ k \in 1..m
      OBVIOUS
    <3> QED
      BY <3>1, <3>2, <3>3
  <2>8. ASSUME NEW j \in 1..(m + 1), NEW k \in 1..(m + 1), j < k PROVE h[j] < h[k]
    <3>1. j \in 1..m
      BY <2>8
    <3>2. CASE k = m + 1
      BY <2>5, <3>1, <3>2
    <3>3. CASE k \in 1..m
      <4>1. g[j] < g[k]
        BY <2>4, <2>8, <3>1, <3>3
      <4> QED
        BY <2>5, <3>1, <3>3, <4>1
    <3> QED
      BY <3>2, <3>3
  <2>9. ASSUME NEW i \in 1..(n + 1), i \in at PROVE \E k \in 1..(m + 1) : h[k] = i
    <3>1. CASE i = n + 1
      <4>1. m + 1 \in 1..(m + 1)
        OBVIOUS
      <4> QED
        BY <2>5, <3>1, <4>1
    <3>2. CASE i \in 1..n
      <4>1. PICK k \in 1..m : g[k] = i
        BY <2>4, <2>9, <3>2
      <4>2. k \in 1..(m + 1) /\ h[k] = i
        BY <2>5, <4>1
      <4> QED
        BY <4>2
    <3> QED
      BY <3>1, <3>2
  <2>10. Picks(h, u, s, at, n + 1)
    BY <2>2, <2>6, <2>7, <2>8, <2>9 DEF Picks
  <2> QED
    BY <2>2, <2>10 DEF Selects
<1>4. CASE n + 1 \notin at
  <2>1. Picks(g, t, s, at, n + 1)
    BY <1>1, <1>4 DEF Picks
  <2> QED
    BY <1>4, <2>1 DEF Selects
<1> QED
  BY <1>3, <1>4

(* Kept selects the elements at the indices, in order.                     *)
LEMMA KeptProperties ==
    ASSUME NEW S, NEW s \in Seq(S), NEW at
    PROVE  Kept(s, at) \in Seq(S) /\ Selects(Kept(s, at), s, at, Len(s))
<1>1. PICK m \in Nat : m = Len(s)
  OBVIOUS
<1>2. \E f : IsKept(f, s, at, m)
  BY <1>1, KeptExists
<1>3. PICK f : f = (CHOOSE h : IsKept(h, s, at, m))
  OBVIOUS
<1>4. IsKept(f, s, at, m)
  BY <1>2, <1>3
<1>5. Kept(s, at) = f[m]
  BY <1>1, <1>3 DEF Kept, IsKept
<1> DEFINE T == {n \in Nat : n <= m => f[n] \in Seq(S) /\ Selects(f[n], s, at, n)}
<1>6. 0 \in T
  <2>1. f[0] = <<>>
    BY <1>4 DEF IsKept
  <2>2. PICK g : g = [k \in 1..0 |-> 0]
    OBVIOUS
  <2>3. Picks(g, <<>>, s, at, 0)
    BY <2>2 DEF Picks
  <2>4. <<>> \in Seq(S) /\ Selects(<<>>, s, at, 0)
    BY <2>3 DEF Selects
  <2> QED
    BY <2>1, <2>4
<1>7. ASSUME NEW n \in Nat, n \in T PROVE n + 1 \in T
  <2> SUFFICES ASSUME n + 1 <= m
               PROVE  f[n + 1] \in Seq(S) /\ Selects(f[n + 1], s, at, n + 1)
    OBVIOUS
  <2>1. f[n] \in Seq(S) /\ Selects(f[n], s, at, n)
    BY <1>7
  <2>2. n + 1 \in 0..m /\ n + 1 # 0 /\ (n + 1) - 1 = n
    OBVIOUS
  <2>3. f[n + 1] = IF n + 1 \in at THEN Append(f[n], s[n + 1]) ELSE f[n]
    BY <1>4, <2>2 DEF IsKept
  <2>4. PICK t, u : t = f[n] /\ u = f[n + 1] /\ t \in Seq(S) /\ Selects(t, s, at, n)
    BY <2>1
  <2>5. u \in Seq(S) /\ Selects(u, s, at, n + 1)
    BY <1>1, <2>3, <2>4, SelectsNext
  <2> QED
    BY <2>4, <2>5
<1> HIDE DEF T
<1>8. m \in T
  BY <1>6, <1>7, Induction
<1> QED
  BY <1>1, <1>5, <1>8 DEF T
-----------------------------------------------------------------------------
(* What is known of a peer.                                                *)
Statuses == Gone \cup {"off", "on"}

(* How the status of peers may change in a step.                           *)
Ages(old, new) ==
    /\ new \in [Peers -> Statuses]
    /\ \A p \in Peers : /\ old[p] \in Gone => new[p] \in Gone
                        /\ old[p] = "dead" => new[p] = "dead"
                        /\ old[p] # "off" => new[p] # "off"

(* Where a peer is: nowhere, in the backlog once, or behind one descriptor. *)
PlacesOK(stat, log, files) ==
    /\ log \in Seq(Peers) /\ Distinct(log)
    /\ \A i \in 1..Len(log) : stat[log[i]] # "off" /\ \A fd \in Fds : files[fd] # log[i]
    /\ \A fd \in Fds : files[fd] \in Peers => stat[files[fd]] # "off"
    /\ \A f, g \in Fds : files[f] \in Peers /\ files[f] = files[g] => f = g

(* Every peer is at one of those places at most.                           *)
PeersInv ==
    /\ status \in [Peers -> Statuses]
    /\ FilesOK
    /\ PlacesOK(status, backlog, file)

(* A send to a peer, and the status of a peer that is not one.             *)
LEMMA AgesSend ==
    ASSUME status \in [Peers -> Statuses], NEW q, NEW new,
           new = [p \in Peers |-> IF p = q THEN AfterSend(status[p]) ELSE status[p]]
    PROVE  Ages(status, new)
<1>1. \A s \in Statuses : /\ AfterSend(s) \in Statuses /\ (s \in Gone => AfterSend(s) \in Gone)
                          /\ s = "dead" => AfterSend(s) = "dead"
                          /\ s # "off" => AfterSend(s) # "off"
  BY DEF AfterSend, Statuses, Gone
<1>2. /\ new \in [Peers -> Statuses]
      /\ \A p \in Peers : new[p] = status[p] \/ new[p] = AfterSend(status[p])
  BY <1>1
<1> QED
  BY <1>1, <1>2 DEF Ages

(* One peer's status in a step that makes it what it was not.              *)
LEMMA AgesOne ==
    ASSUME status \in [Peers -> Statuses], NEW p \in Peers, NEW s \in Statuses, s # "off",
           s \in Gone \/ status[p] = "off", s = "dead" \/ status[p] # "dead",
           NEW new, new = [status EXCEPT ![p] = s]
    PROVE  Ages(status, new)
BY DEF Ages, Statuses, Gone

(* The status only ever goes on.                                           *)
LEMMA AgesStep ==
    ASSUME status \in [Peers -> Statuses], [Next]_vars
    PROVE  Ages(status, status')
<1>1. CASE status' = status
  BY <1>1 DEF Ages
<1>2. CASE status' # status
  <2>1. \/ \E p \in Peers : Connect(p) \/ Leave(p) \/ Reset(p)
        \/ AcceptOne \/ SendReply
    BY <1>2 DEF Next, Environment, SendLine, CutLine, SendRest, Thread, HandleEvent, CloseClient,
                Receive, BeginAccept, EndAccept, BeginGenerate, Generate, BeginUpdate, Handle,
                FindClient, RunMessage, RunListed, Write, vars, kernelVars
  <2>2. CASE AcceptOne
    <3>1. PICK p : status' = [status EXCEPT ![p] = AfterSend(@)]
      BY <1>2, <2>2 DEF AcceptOne, Greet, SpinForID
    <3>2. status' = [q \in Peers |-> IF q = p THEN AfterSend(status[q]) ELSE status[q]]
      BY <3>1
    <3> QED
      BY <3>2, AgesSend
  <2>3. CASE SendReply
    <3>1. PICK q : status' = [p \in Peers |-> IF p = q THEN AfterSend(status[p]) ELSE status[p]]
      BY <1>2, <2>3 DEF SendReply
    <3> QED
      BY <3>1, AgesSend
  <2>4. CASE \E p \in Peers : Connect(p) \/ Leave(p) \/ Reset(p)
    <3>1. PICK p \in Peers, s \in {"on", "left", "reset", "dead"} :
             /\ status' = [status EXCEPT ![p] = s]
             /\ \/ s = "on" /\ status[p] = "off"
                \/ s \in {"left", "reset"} /\ status[p] = "on"
                \/ s = "dead" /\ status[p] = "written"
      BY <2>4 DEF Connect, Leave, Reset
    <3> QED
      BY <3>1, AgesOne DEF Gone, Statuses
  <2> QED
    BY <2>1, <2>2, <2>3, <2>4
<1> QED
  BY <1>1, <1>2

(* A connection that waits takes the lowest free descriptor.               *)
LEMMA PlacesAccept ==
    ASSUME PeersInv, NEW p \in Peers, NEW fd \in Fds, Accepts(p, fd), Ages(status, status')
    PROVE  /\ FilesOK'
           /\ PlacesOK(status', backlog', file')
<1>1. PICK log, files : log = Tail(backlog) /\ files = [file EXCEPT ![fd] = p]
  OBVIOUS
<1>2. /\ backlog' = log /\ file' = files /\ backlog # <<>> /\ p = Head(backlog)
      /\ file[fd] = NoPeer
  BY <1>1 DEF Accepts, FreeFds, Open
<1>3. /\ backlog \in Seq(Peers) /\ Distinct(backlog)
      /\ \A i \in 1..Len(backlog) : status[backlog[i]] # "off" /\ \A f \in Fds : file[f] # backlog[i]
      /\ \A f \in Fds : file[f] \in Peers => status[file[f]] # "off"
      /\ \A f, g \in Fds : file[f] \in Peers /\ file[f] = file[g] => f = g
  BY DEF PeersInv, PlacesOK
<1>4. /\ log \in Seq(Peers) /\ Len(log) = Len(backlog) - 1
      /\ \A i \in 1..Len(log) : log[i] = backlog[i + 1]
      /\ Len(backlog) \in Nat \ {0} /\ p = backlog[1]
  BY <1>1, <1>2, <1>3, TailFrontProperties, HeadTailProperties
<1>5. /\ files \in [Fds -> Peers \cup {NoPeer}] /\ files[fd] = p
      /\ \A f \in Fds : f # fd => files[f] = file[f]
  BY <1>1 DEF PeersInv, FilesOK
<1>6. \A q \in Peers : status[q] # "off" => status'[q] # "off"
  BY DEF Ages
<1>7. Distinct(log)
  <2> SUFFICES ASSUME NEW i \in 1..Len(log), NEW j \in 1..Len(log), log[i] = log[j] PROVE i = j
    BY DEF Distinct
  <2>1. i + 1 \in 1..Len(backlog) /\ j + 1 \in 1..Len(backlog) /\ backlog[i + 1] = backlog[j + 1]
    BY <1>4
  <2>2. i + 1 = j + 1
    BY <1>3, <2>1 DEF Distinct
  <2> QED
    BY <2>2
<1>8. ASSUME NEW i \in 1..Len(log)
      PROVE  status'[log[i]] # "off" /\ \A f \in Fds : files[f] # log[i]
  <2>1. i + 1 \in 1..Len(backlog) /\ 1 \in 1..Len(backlog) /\ i + 1 # 1 /\ log[i] = backlog[i + 1]
        /\ log[i] \in Peers
    BY <1>4
  <2>2. log[i] # p
    BY <1>3, <1>4, <2>1 DEF Distinct
  <2> QED
    BY <1>3, <1>5, <1>6, <2>1, <2>2
<1>9. \A f \in Fds : files[f] \in Peers => status'[files[f]] # "off"
  <2>1. status[p] # "off"
    BY <1>3, <1>4
  <2> QED
    BY <1>3, <1>5, <1>6, <2>1
<1>10. \A f, g \in Fds : files[f] \in Peers /\ files[f] = files[g] => f = g
  <2>1. \A f \in Fds : file[f] # p
    BY <1>3, <1>4
  <2> QED
    BY <1>3, <1>5, <2>1
<1>11. FilesOK'
  BY <1>2, <1>5 DEF FilesOK
<1>12. PlacesOK(status', log, files)
  BY <1>4, <1>7, <1>8, <1>9, <1>10 DEF PlacesOK
<1> QED
  BY <1>2, <1>11, <1>12

(* The places of the peers are an invariant.                               *)
LEMMA PeersStep ==
    ASSUME PeersInv, [Next]_vars
    PROVE  PeersInv'
<1>1. Ages(status, status')
  BY AgesStep DEF PeersInv
<1>2. status' \in [Peers -> Statuses] /\ \A p \in Peers : status[p] # "off" => status'[p] # "off"
  BY <1>1 DEF Ages
<1>3. PlacesOK(status, backlog, file)' <=> PlacesOK(status', backlog', file')
  BY DEF PlacesOK, Distinct
<1>4. CASE backlog' = backlog /\ file' = file
  <2>1. PlacesOK(status', backlog, file)
    BY <1>2 DEF PeersInv, PlacesOK
  <2>2. PlacesOK(status', backlog', file')
    BY <1>4, <2>1
  <2> QED
    BY <1>2, <1>3, <1>4, <2>2 DEF PeersInv, FilesOK
<1>5. CASE \E p \in Peers : Connect(p)
  <2>1. PICK p \in Peers : Connect(p)
    BY <1>5
  <2>2. PICK log : log = Append(backlog, p)
    OBVIOUS
  <2>3. /\ backlog' = log /\ file' = file
        /\ status[p] = "off" /\ status'[p] # "off"
    BY <2>1, <2>2 DEF Connect, PeersInv
  <2>4. /\ backlog \in Seq(Peers) /\ Distinct(backlog)
        /\ \A i \in 1..Len(backlog) : status[backlog[i]] # "off" /\ \A f \in Fds : file[f] # backlog[i]
        /\ \A f \in Fds : file[f] \in Peers => status[file[f]] # "off"
        /\ \A f, g \in Fds : file[f] \in Peers /\ file[f] = file[g] => f = g
    BY DEF PeersInv, PlacesOK
  <2>5. /\ log \in Seq(Peers) /\ Len(log) = Len(backlog) + 1 /\ log[Len(backlog) + 1] = p
        /\ \A i \in 1..Len(backlog) : log[i] = backlog[i]
    BY <2>2, <2>4
  <2>6. ASSUME NEW i \in 1..Len(log)
        PROVE  status'[log[i]] # "off" /\ \A f \in Fds : file[f] # log[i]
    <3>1. CASE i = Len(backlog) + 1
      BY <2>3, <2>4, <2>5, <3>1
    <3>2. CASE i \in 1..Len(backlog)
      BY <1>2, <2>4, <2>5, <3>2
    <3>3. i = Len(backlog) + 1 \/ i \in 1..Len(backlog)
      BY <2>4, <2>5
    <3> QED
      BY <3>1, <3>2, <3>3
  <2>7. Distinct(log)
    <3>1. \A i \in 1..Len(backlog) : backlog[i] # p
      BY <2>3, <2>4
    <3> QED
      BY <2>4, <2>5, <3>1 DEF Distinct
  <2>8. PlacesOK(status', log, file)
    BY <1>2, <2>4, <2>5, <2>6, <2>7 DEF PlacesOK
  <2>9. PlacesOK(status', backlog', file')
    BY <2>3, <2>8
  <2> QED
    BY <1>2, <1>3, <2>3, <2>9 DEF PeersInv, FilesOK
<1>6. CASE AcceptOne
  <2>1. PICK p \in Peers, fd \in Fds : Accepts(p, fd)
    BY <1>6 DEF AcceptOne
  <2> QED
    BY <1>1, <1>2, <1>3, <2>1, PlacesAccept DEF PeersInv
<1>7. CASE \E e, later : CloseClient(e, later)
  <2>1. PICK e, later : CloseClient(e, later)
    BY <1>7
  <2>2. PICK files : files = [file EXCEPT ![e.fd] = NoPeer]
    OBVIOUS
  <2>3. backlog' = backlog /\ file' = files
    BY <2>1, <2>2 DEF CloseClient
  <2>4. /\ files \in [Fds -> Peers \cup {NoPeer}]
        /\ \A fd \in Fds : files[fd] = file[fd] \/ files[fd] = NoPeer
    BY <2>2 DEF PeersInv, FilesOK
  <2>5. PlacesOK(status', backlog, files)
    BY <1>2, <2>4, MpdServerAssumption DEF PeersInv, PlacesOK
  <2>6. PlacesOK(status', backlog', file')
    BY <2>3, <2>5
  <2> QED
    BY <1>2, <1>3, <2>3, <2>4, <2>6 DEF PeersInv, FilesOK
<1> QED
  BY <1>4, <1>5, <1>6, <1>7
     DEF Next, Environment, SendLine, CutLine, SendRest, Leave, Reset, Thread, HandleEvent,
         Receive, BeginAccept, EndAccept, BeginGenerate, Generate, BeginUpdate, Handle,
         FindClient, RunMessage, RunListed, Write, SendReply, vars, kernelVars

(* Nobody is anywhere at the start.                                        *)
LEMMA PeersInit == Init => PeersInv
BY MpdServerAssumption DEF Init, PeersInv, FilesOK, PlacesOK, Distinct, Statuses

(* In every state a peer is at one place at most.                          *)
THEOREM PeersBasic == Spec => []PeersInv
<1>1. PeersInv /\ [Next]_vars => PeersInv'
  BY PeersStep
<1> QED
  BY <1>1, PeersInit, PTL DEF Spec
-----------------------------------------------------------------------------
(* What the kernel woke is in the ready list, once.                        *)
LEMMA WokenProperties ==
    ASSUME ready \in Seq(Fds \cup {ListenFd}), Distinct(ready),
           NEW fds, fds \subseteq Fds \cup {ListenFd}
    PROVE  /\ Woken(fds) \in Seq(Fds \cup {ListenFd}) /\ Distinct(Woken(fds))
           /\ ToSet(Woken(fds)) = ToSet(ready) \cup fds
<1> DEFINE new == fds \ ToSet(ready)
           s == SetToSeq(new)
<1>1. IsFiniteSet(new)
  <2>1. IsFiniteSet(Fds \cup {ListenFd})
    BY MpdServerAssumption, FS_AddElement
  <2> QED
    BY <2>1, FS_Subset
<1>2. s \in Seq(new) /\ Distinct(s) /\ \A x \in new : \E i \in 1..Len(s) : s[i] = x
  BY <1>1, SetToSeqProperties
<1>3. Woken(fds) = ready \o s
  BY DEF Woken
<1> HIDE DEF s
<1>4. s \in Seq(Fds \cup {ListenFd})
  BY <1>2
<1>5. \A i \in 1..Len(s) : s[i] \in new
  BY <1>2
<1>6. ToSet(s) = new
  BY <1>2, <1>5, ToSetProperties
<1> QED
  BY <1>2, <1>3, <1>4, <1>5, <1>6, ConcatParts, ConcatDistinct, ConcatToSet

(* What pollEvent reports.                                                 *)
Kinds == {"accept", "closed", "data"}

(* The events: for accept there is no peer.                                *)
EventSet == [fd : Fds \cup {ListenFd}, kind : Kinds, peer : Peers \cup {NoPeer}]

(* What an event says: m_events holds no "none".                           *)
LEMMA EventProperties ==
    ASSUME FilesOK, NEW fd \in Fds \cup {ListenFd}
    PROVE  /\ Event(fd).fd = fd /\ Event(fd).kind = Kind(fd)
           /\ Event(fd) \in [fd : Fds \cup {ListenFd}, kind : Kinds \cup {"none"}, peer : Peers \cup {NoPeer}]
           /\ Kind(fd) # "none" => Event(fd) \in EventSet
           /\ Kind(fd) = "closed" => /\ fd \in Fds /\ Event(fd).peer = file[fd]
                                     /\ status[file[fd]] \in Gone
<1>1. Kind(fd) \in Kinds \cup {"none"}
  BY DEF Kind, Kinds
<1>2. PICK p : p = IF fd = ListenFd THEN NoPeer ELSE file[fd]
  OBVIOUS
<1>3. p \in Peers \cup {NoPeer}
  BY <1>2 DEF FilesOK
<1>4. PICK k : k = Kind(fd)
  OBVIOUS
<1>5. Event(fd) = [fd |-> fd, kind |-> k, peer |-> p]
  BY <1>2, <1>4 DEF Event
<1>6. Kind(fd) = "closed" => /\ fd # ListenFd
                             /\ status[file[fd]] \in Gone
  BY DEF Kind
<1>7. Kind(fd) = "closed" => fd \in Fds /\ p = file[fd]
  BY <1>2, <1>6
<1>8. Event(fd).fd = fd /\ Event(fd).kind = k /\ Event(fd).peer = p
  BY <1>5
<1>9. Event(fd) \in [fd : Fds \cup {ListenFd}, kind : Kinds \cup {"none"}, peer : Peers \cup {NoPeer}]
  BY <1>1, <1>3, <1>4, <1>5
<1>10. k # "none" => Event(fd) \in EventSet
  BY <1>1, <1>3, <1>4, <1>5 DEF EventSet
<1> QED
  BY <1>4, <1>6, <1>7, <1>8, <1>9, <1>10

(* The events e are those of m_events and one for each descriptor of the   *)
(* ready list with something to report; g tells which.                     *)
Reports(g, e) ==
    /\ \A i \in 1..Len(events) : i \in 1..Len(e) /\ e[i] = events[i]
    /\ \A i \in 1..Len(e) : i \in 1..Len(events) \/ i \in DOMAIN g
    /\ \A i \in DOMAIN g : /\ i \in 1..Len(e) /\ i \notin 1..Len(events)
                           /\ g[i] \in 1..Len(ready)
                           /\ Kind(ready[g[i]]) # "none" /\ e[i] = Event(ready[g[i]])
    /\ \A i, j \in DOMAIN g : g[i] = g[j] => i = j
    /\ \A k \in 1..Len(ready) : Kind(ready[k]) # "none" => \E i \in DOMAIN g : g[i] = k

(* What pollEvent chooses from.                                            *)
LEMMA FetchedProperties ==
    ASSUME events \in Seq(EventSet), ready \in Seq(Fds \cup {ListenFd}), FilesOK
    PROVE  Fetched \in Seq(EventSet) /\ \E g : Reports(g, Fetched)
<1> DEFINE S == [fd : Fds \cup {ListenFd}, kind : Kinds \cup {"none"}, peer : Peers \cup {NoPeer}]
<1>1. PICK all : all = [i \in DOMAIN ready |-> Event(ready[i])]
  OBVIOUS
<1>2. PICK at : at = {i \in DOMAIN ready : Kind(ready[i]) # "none"}
  OBVIOUS
<1>3. PICK n \in Nat : n = Len(ready)
  OBVIOUS
<1>4. /\ DOMAIN ready = 1..n
      /\ \A i \in 1..n : ready[i] \in Fds \cup {ListenFd}
  BY <1>3
<1>5. /\ \A i \in 1..n : Event(ready[i]) \in S
      /\ \A i \in 1..n : Kind(ready[i]) # "none" => Event(ready[i]) \in EventSet
  BY <1>4, EventProperties
<1> HIDE DEF S
<1>6. all \in Seq(S) /\ Len(all) = n /\ \A i \in 1..n : all[i] = Event(ready[i])
  BY <1>1, <1>4, <1>5
<1>7. PICK new : new = Kept(all, at)
  OBVIOUS
<1>8. new \in Seq(S) /\ Selects(new, all, at, n)
  BY <1>6, <1>7, KeptProperties
<1>9. PICK g : Picks(g, new, all, at, n)
  BY <1>8 DEF Selects
<1>10. PICK m \in Nat : m = Len(new)
  BY <1>8
<1>11. /\ g \in [1..m -> 1..n]
       /\ \A k \in 1..m : new[k] = all[g[k]] /\ g[k] \in at
       /\ \A j, k \in 1..m : j < k => g[j] < g[k]
       /\ \A i \in 1..n : i \in at => \E k \in 1..m : g[k] = i
  BY <1>9, <1>10 DEF Picks
<1>12. \A k \in 1..m : /\ g[k] \in 1..n /\ Kind(ready[g[k]]) # "none"
                       /\ new[k] = Event(ready[g[k]]) /\ new[k] \in EventSet
  BY <1>2, <1>5, <1>6, <1>11
<1>13. new \in Seq(EventSet)
  BY <1>8, <1>10, <1>12
<1>14. PICK q \in Nat : q = Len(events)
  OBVIOUS
<1>15. PICK e : e = events \o new
  OBVIOUS
<1>16. /\ e \in Seq(EventSet) /\ Len(e) = q + m
       /\ \A i \in 1..q : i \in 1..Len(e) /\ e[i] = events[i]
       /\ \A i \in 1..m : q + i \in 1..Len(e) /\ e[q + i] = new[i]
  BY <1>10, <1>13, <1>14, <1>15, ConcatParts
<1>17. PICK h : h = [i \in (q + 1)..(q + m) |-> g[i - q]]
  OBVIOUS
<1>18. \A i \in (q + 1)..(q + m) : i - q \in 1..m /\ i = q + (i - q) /\ i \notin 1..q
  OBVIOUS
<1>19. \A i \in (q + 1)..(q + m) : h[i] = g[i - q] /\ e[i] = new[i - q] /\ i \in 1..Len(e)
  BY <1>16, <1>17, <1>18
<1>20. \A i \in 1..Len(e) : i \in 1..q \/ i \in (q + 1)..(q + m)
  BY <1>16
<1>21. \A j, k \in 1..m : g[j] = g[k] => j = k
  <2> SUFFICES ASSUME NEW j \in 1..m, NEW k \in 1..m, g[j] = g[k], j # k PROVE FALSE
    OBVIOUS
  <2>1. g[j] \in 1..n /\ g[k] \in 1..n
    BY <1>12
  <2>2. j < k \/ k < j
    OBVIOUS
  <2> QED
    BY <1>11, <2>1, <2>2
<1>22. ASSUME NEW i \in (q + 1)..(q + m), NEW j \in (q + 1)..(q + m), h[i] = h[j] PROVE i = j
  <2>1. i - q = j - q
    BY <1>18, <1>19, <1>21, <1>22
  <2> QED
    BY <2>1
<1>23. ASSUME NEW k \in 1..n, Kind(ready[k]) # "none" PROVE \E i \in (q + 1)..(q + m) : h[i] = k
  <2>1. PICK l \in 1..m : g[l] = k
    BY <1>2, <1>4, <1>11, <1>23
  <2>2. q + l \in (q + 1)..(q + m) /\ (q + l) - q = l
    OBVIOUS
  <2> QED
    BY <1>19, <2>1, <2>2
<1>24. \A i \in (q + 1)..(q + m) : /\ h[i] \in 1..n /\ Kind(ready[h[i]]) # "none"
                                   /\ e[i] = Event(ready[h[i]])
  BY <1>12, <1>18, <1>19
<1>25. Reports(h, e)
  BY <1>3, <1>14, <1>16, <1>17, <1>18, <1>19, <1>20, <1>22, <1>23, <1>24, ZenonT(40) DEF Reports
<1>26. Fetched = e
  BY <1>1, <1>2, <1>7, <1>15 DEF Fetched
<1> QED
  BY <1>16, <1>25, <1>26

(* A ready descriptor is open.                                             *)
ReadyOK(r, files) ==
    /\ r \in Seq(Fds \cup {ListenFd}) /\ Distinct(r)
    /\ \A i \in 1..Len(r) : r[i] # ListenFd => files[r[i]] \in Peers

(* The "closed" events.                                                    *)
Closed(es) == {i \in 1..Len(es) : es[i].kind = "closed"}

(* The peer of a "closed" event has left.                                  *)
ClosedGone(es, stat) ==
    \A i \in Closed(es) : es[i].fd \in Fds /\ es[i].peer \in Peers /\ stat[es[i].peer] \in Gone

(* It still has the descriptor, and that is the only such event of it.     *)
ClosedOnce(es, files) ==
    /\ \A i \in Closed(es) : files[es[i].fd] = es[i].peer
    /\ \A i, j \in Closed(es) : es[i].peer = es[j].peer => i = j

(* Nor is it ready again.                                                  *)
NotReady(es, r) == \A i \in Closed(es) : es[i].fd \notin ToSet(r)

(* No peer that left was answered with a reset.                            *)
NobodyDead(stat) == \A p \in Peers : stat[p] # "dead"

(* What is ready and what was read of it.                                  *)
EventsInv ==
    /\ ReadyOK(ready, file)
    /\ events \in Seq(EventSet)
    /\ ClosedGone(events, status)
    /\ NobodyDead(status) => ClosedOnce(events, file) /\ NotReady(events, ready)

(* The same of what pollEvent chooses from.                                *)
LEMMA FetchedOK ==
    ASSUME PeersInv, EventsInv
    PROVE  /\ Fetched \in Seq(EventSet) /\ ClosedGone(Fetched, status)
           /\ NobodyDead(status) => ClosedOnce(Fetched, file)
<1>1. /\ ready \in Seq(Fds \cup {ListenFd}) /\ Distinct(ready) /\ events \in Seq(EventSet) /\ FilesOK
      /\ \A i \in 1..Len(ready) : ready[i] # ListenFd => file[ready[i]] \in Peers
      /\ \A f, h \in Fds : file[f] \in Peers /\ file[f] = file[h] => f = h
  BY DEF PeersInv, EventsInv, ReadyOK, PlacesOK
<1>2. Fetched \in Seq(EventSet) /\ \E g : Reports(g, Fetched)
  BY <1>1, FetchedProperties
<1>3. PICK e : e = Fetched
  OBVIOUS
<1>4. PICK g : Reports(g, e)
  BY <1>2, <1>3
<1>5. /\ \A i \in 1..Len(events) : e[i] = events[i]
      /\ \A i \in 1..Len(e) : i \in 1..Len(events) \/ i \in DOMAIN g
      /\ \A i \in DOMAIN g : g[i] \in 1..Len(ready) /\ e[i] = Event(ready[g[i]])
      /\ \A i, j \in DOMAIN g : g[i] = g[j] => i = j
  BY <1>4 DEF Reports
<1>6. ASSUME NEW i \in Closed(e), i \in DOMAIN g
      PROVE  /\ e[i].fd = ready[g[i]] /\ e[i].fd \in Fds /\ e[i].peer = file[e[i].fd]
             /\ e[i].peer \in Peers /\ status[e[i].peer] \in Gone
             /\ e[i].fd \in ToSet(ready)
  <2>1. PICK fd \in Fds \cup {ListenFd} : fd = ready[g[i]]
    BY <1>1, <1>5, <1>6
  <2>2. e[i] = Event(fd) /\ e[i].kind = "closed"
    BY <1>5, <1>6, <2>1 DEF Closed
  <2>3. /\ Event(fd).fd = fd /\ Event(fd).kind = Kind(fd)
        /\ Kind(fd) = "closed" => /\ fd \in Fds /\ Event(fd).peer = file[fd]
                                  /\ status[file[fd]] \in Gone
    BY <1>1, EventProperties
  <2>4. e[i].fd = fd /\ fd \in Fds /\ e[i].peer = file[fd] /\ status[file[fd]] \in Gone
    BY <2>2, <2>3
  <2>5. fd # ListenFd
    BY <2>4, MpdServerAssumption
  <2>6. file[fd] \in Peers /\ fd \in ToSet(ready)
    BY <1>1, <1>5, <1>6, <2>1, <2>5, ToSetProperties
  <2> QED
    BY <2>1, <2>4, <2>6
<1>7. ASSUME NEW i \in Closed(e), i \notin DOMAIN g
      PROVE  i \in Closed(events) /\ e[i] = events[i]
  BY <1>5, <1>7 DEF Closed
<1>8. ClosedGone(e, status)
  BY <1>6, <1>7 DEF ClosedGone, EventsInv
<1>9. ASSUME NobodyDead(status) PROVE ClosedOnce(e, file)
  <2>1. ClosedOnce(events, file) /\ NotReady(events, ready)
    BY <1>9 DEF EventsInv
  <2>2. ASSUME NEW i \in Closed(e) PROVE file[e[i].fd] = e[i].peer /\ e[i].fd \in Fds /\ e[i].peer \in Peers
    BY <1>6, <1>7, <1>8, <2>1 DEF ClosedOnce, ClosedGone
  <2>3. ASSUME NEW i \in Closed(e), NEW j \in Closed(e), e[i].peer = e[j].peer PROVE i = j
    <3>1. e[i].fd = e[j].fd
      BY <1>1, <2>2, <2>3
    <3>2. CASE i \in DOMAIN g /\ j \in DOMAIN g
      <4>1. ready[g[i]] = ready[g[j]] /\ g[i] \in 1..Len(ready) /\ g[j] \in 1..Len(ready)
        BY <1>5, <1>6, <3>1, <3>2
      <4>2. g[i] = g[j]
        BY <1>1, <4>1 DEF Distinct
      <4> QED
        BY <1>5, <3>2, <4>2
    <3>3. CASE i \notin DOMAIN g /\ j \notin DOMAIN g
      BY <1>7, <2>1, <2>3, <3>3 DEF ClosedOnce
    <3>4. CASE i \in DOMAIN g /\ j \notin DOMAIN g
      BY <1>6, <1>7, <2>1, <3>1, <3>4 DEF NotReady
    <3>5. CASE i \notin DOMAIN g /\ j \in DOMAIN g
      BY <1>6, <1>7, <2>1, <3>1, <3>5 DEF NotReady
    <3> QED
      BY <3>2, <3>3, <3>4, <3>5
  <2> QED
    BY <2>2, <2>3 DEF ClosedOnce
<1> QED
  BY <1>2, <1>3, <1>8, <1>9

(* Steps that handle no event.                                             *)
LEMMA EventsChange ==
    ASSUME EventsInv, events' = events, Ages(status, status'), ReadyOK(ready', file'),
           \A f \in Fds : file[f] \in Peers => file'[f] = file[f],
           NobodyDead(status') /\ ClosedOnce(events, file) /\ NotReady(events, ready)
               => NotReady(events, ready')
    PROVE  EventsInv'
<1>1. ReadyOK(ready, file)'
  BY DEF ReadyOK, Distinct
<1>2. NobodyDead(status') => NobodyDead(status)
  BY DEF NobodyDead, Ages
<1>3. ClosedGone(events, status')
  BY DEF EventsInv, ClosedGone, Ages
<1>4. ClosedOnce(events, file) => ClosedOnce(events, file')
  BY DEF EventsInv, ClosedOnce, ClosedGone
<1>5. NobodyDead(status') => ClosedOnce(events, file') /\ NotReady(events, ready')
  BY <1>2, <1>4 DEF EventsInv
<1>6. ClosedGone(events, status)'
  BY <1>3 DEF ClosedGone, Closed, Gone
<1>7. NobodyDead(status)' <=> NobodyDead(status')
  BY DEF NobodyDead
<1>8. ClosedOnce(events, file)' <=> ClosedOnce(events', file')
  BY DEF ClosedOnce, Closed
<1>9. NotReady(events, ready)' <=> NotReady(events', ready')
  BY DEF NotReady, Closed, ToSet
<1>10. (events \in Seq(EventSet))'
  BY DEF EventsInv, EventSet, Kinds
<1> QED
  BY <1>1, <1>5, <1>6, <1>7, <1>8, <1>9, <1>10 DEF EventsInv

(* Steps that wake open descriptors.                                       *)
LEMMA EventsWake ==
    ASSUME EventsInv, events' = events, Ages(status, status'),
           NEW fds, fds \subseteq Fds \cup {ListenFd}, ready' = Woken(fds),
           \A f \in Fds : file[f] \in Peers => file'[f] = file[f],
           \A f \in fds : f # ListenFd => file'[f] \in Peers,
           NobodyDead(status') /\ ClosedOnce(events, file)
               => \A i \in Closed(events) : events[i].fd \notin fds
    PROVE  EventsInv'
<1>1. /\ ready \in Seq(Fds \cup {ListenFd}) /\ Distinct(ready)
      /\ \A i \in 1..Len(ready) : ready[i] # ListenFd => file[ready[i]] \in Peers
  BY DEF EventsInv, ReadyOK
<1>2. PICK r : r = ready'
  OBVIOUS
<1>3. /\ r \in Seq(Fds \cup {ListenFd}) /\ Distinct(r) /\ ToSet(r) = ToSet(ready) \cup fds
  BY <1>1, <1>2, WokenProperties
<1>4. ASSUME NEW i \in 1..Len(r), r[i] # ListenFd PROVE file'[r[i]] \in Peers
  <2>1. r[i] \in ToSet(r) /\ r[i] \in Fds
    BY <1>3, <1>4, ToSetProperties
  <2>2. CASE r[i] \in fds
    BY <1>4, <2>2
  <2>3. CASE r[i] \in ToSet(ready)
    <3>1. PICK j \in 1..Len(ready) : ready[j] = r[i]
      BY <1>1, <2>3, ToSetProperties
    <3> QED
      BY <1>1, <1>4, <2>1, <3>1
  <2> QED
    BY <1>3, <2>1, <2>2, <2>3
<1>5. ReadyOK(ready', file')
  BY <1>2, <1>3, <1>4 DEF ReadyOK
<1>6. NobodyDead(status') /\ ClosedOnce(events, file) /\ NotReady(events, ready)
          => NotReady(events, ready')
  BY <1>2, <1>3 DEF NotReady
<1> QED
  BY <1>5, <1>6, EventsChange

(* No event says that a peer that is still there has left.                 *)
LEMMA OpenNotClosed ==
    ASSUME EventsInv, NEW p \in Peers, status[p] \notin Gone
    PROVE  ClosedOnce(events, file) => \A i \in Closed(events) : events[i].fd \notin Open(p)
BY DEF EventsInv, ClosedOnce, ClosedGone, Open

(* What the environment does wakes descriptors.                            *)
LEMMA EventsEnvironment ==
    ASSUME PeersInv, EventsInv, Environment
    PROVE  EventsInv'
<1>1. Ages(status, status')
  BY AgesStep DEF PeersInv, Next
<1>2. file' = file /\ events' = events
  BY DEF Environment, Connect, SendRest, Leave, Reset, SendLine, CutLine, threadVars
<1>3. PICK p \in Peers : \/ Connect(p) \/ SendRest(p) \/ Leave(p) \/ Reset(p)
                         \/ \E l \in Lines : SendLine(p, l)
                         \/ \E l \in CutLines : \E as \in Readings(l) : CutLine(p, l, as)
  BY DEF Environment
<1>4. CASE Connect(p)
  <2>1. ready' = Woken({ListenFd})
    BY <1>4 DEF Connect
  <2>2. \A i \in Closed(events) : events[i].fd \notin {ListenFd}
    BY MpdServerAssumption DEF EventsInv, ClosedGone
  <2> QED
    BY <1>1, <1>2, <2>1, <2>2, EventsWake
<1>5. ASSUME ready' = Woken(Open(p)),
             NobodyDead(status') /\ ClosedOnce(events, file)
                 => \A i \in Closed(events) : events[i].fd \notin Open(p)
      PROVE  EventsInv'
  <2>1. Open(p) \subseteq Fds \cup {ListenFd} /\ \A f \in Open(p) : file[f] \in Peers
    BY DEF Open
  <2> QED
    BY <1>1, <1>2, <1>5, <2>1, EventsWake
<1>6. CASE Reset(p)
  <2>1. ready' = Woken(Open(p)) /\ status'[p] = "dead"
    BY <1>6 DEF Reset, PeersInv
  <2>2. ~NobodyDead(status')
    BY <2>1 DEF NobodyDead
  <2> QED
    BY <1>5, <2>1, <2>2
<1>7. CASE \/ SendRest(p) \/ Leave(p)
           \/ \E l \in Lines : SendLine(p, l)
           \/ \E l \in CutLines : \E as \in Readings(l) : CutLine(p, l, as)
  <2>1. ready' = Woken(Open(p)) /\ status[p] = "on"
    BY <1>7 DEF SendRest, Leave, SendLine, CutLine, Arrives
  <2>2. status[p] \notin Gone
    BY <2>1 DEF Gone
  <2> QED
    BY <1>5, <2>1, <2>2, OpenNotClosed
<1> QED
  BY <1>3, <1>4, <1>6, <1>7

(* A new connection's descriptor was free, and no event is about it.       *)
LEMMA EventsAccept ==
    ASSUME PeersInv, EventsInv, AcceptOne
    PROVE  EventsInv'
<1>1. Ages(status, status')
  BY AgesStep DEF PeersInv, Next, Thread
<1>2. PICK p \in Peers, fd \in Fds : Accepts(p, fd)
  BY DEF AcceptOne
<1>3. PICK fds : fds = IF status[p] \in Gone \/ net[p] # <<>> THEN {fd} ELSE {}
  OBVIOUS
<1>4. /\ ready' = Woken(fds) /\ fds \subseteq {fd} /\ file' = [file EXCEPT ![fd] = p]
      /\ file[fd] = NoPeer /\ events' = events
  BY <1>2, <1>3 DEF Accepts, FreeFds, Open, AcceptOne
<1>5. /\ \A f \in Fds : file[f] \in Peers => file'[f] = file[f]
      /\ \A f \in fds : file'[f] \in Peers
  BY <1>4, MpdServerAssumption DEF PeersInv, FilesOK
<1>6. ClosedOnce(events, file) => \A i \in Closed(events) : events[i].fd \notin fds
  BY <1>4, MpdServerAssumption DEF EventsInv, ClosedGone, ClosedOnce
<1> QED
  BY <1>1, <1>4, <1>5, <1>6, EventsWake

(* What a sequence of events says of its tail.                             *)
LEMMA ClosedTail ==
    ASSUME NEW all \in Seq(EventSet), all # <<>>
    PROVE  /\ Head(all) \in EventSet /\ Head(all) = all[1] /\ Tail(all) \in Seq(EventSet)
           /\ \A i \in 1..Len(Tail(all)) : i + 1 \in 1..Len(all) /\ Tail(all)[i] = all[i + 1]
           /\ ClosedGone(all, status) => ClosedGone(Tail(all), status)
           /\ ClosedOnce(all, file) => ClosedOnce(Tail(all), file)
           /\ ClosedOnce(all, file) /\ Head(all).kind = "closed"
                => \A i \in Closed(Tail(all)) : Tail(all)[i].peer # Head(all).peer
<1>a. PICK e : e = Head(all)
  OBVIOUS
<1>b. PICK later : later = Tail(all)
  OBVIOUS
<1>1. Len(all) \in Nat \ {0} /\ e = all[1] /\ e \in EventSet
  BY <1>a, HeadTailProperties
<1>2. /\ later \in Seq(EventSet)
      /\ \A i \in 1..Len(later) : i + 1 \in 1..Len(all) /\ later[i] = all[i + 1]
  <2>1. /\ later \in Seq(EventSet) /\ Len(later) = Len(all) - 1
        /\ \A i \in 1..(Len(all) - 1) : later[i] = all[i + 1]
    BY <1>b, TailFrontProperties
  <2> QED
    BY <1>1, <2>1
<1>3. \A i \in Closed(later) : i \in Nat \ {0} /\ i + 1 \in Closed(all) /\ later[i] = all[i + 1]
  BY <1>2 DEF Closed
<1>4. ClosedGone(all, status) => ClosedGone(later, status)
  BY <1>3 DEF ClosedGone
<1>5. ASSUME ClosedOnce(all, file) PROVE ClosedOnce(later, file)
  <2>1. ASSUME NEW i \in Closed(later), NEW j \in Closed(later), later[i].peer = later[j].peer
        PROVE  i = j
    <3>1. i + 1 = j + 1
      BY <1>3, <1>5, <2>1 DEF ClosedOnce
    <3> QED
      BY <1>3, <3>1
  <2>2. ASSUME NEW i \in Closed(later) PROVE file[later[i].fd] = later[i].peer
    <3>1. i + 1 \in Closed(all) /\ later[i] = all[i + 1]
      BY <1>3
    <3>2. file[all[i + 1].fd] = all[i + 1].peer
      BY <1>5, <3>1 DEF ClosedOnce
    <3> QED
      BY <3>1, <3>2
  <2> QED
    BY <2>1, <2>2 DEF ClosedOnce
<1>6. ASSUME ClosedOnce(all, file), e.kind = "closed", NEW i \in Closed(later)
      PROVE  later[i].peer # e.peer
  <2>1. 1 \in Closed(all) /\ i + 1 \in Closed(all) /\ i + 1 # 1
    BY <1>1, <1>3, <1>6 DEF Closed
  <2>2. all[i + 1].peer # all[1].peer
    BY <1>6, <2>1 DEF ClosedOnce
  <2> QED
    BY <1>1, <1>3, <2>2
<1> QED
  BY <1>a, <1>b, <1>1, <1>2, <1>4, <1>5, <1>6

(* Handling an event: what is left is about other descriptors.             *)
LEMMA EventsHandle ==
    ASSUME PeersInv, EventsInv, HandleEvent
    PROVE  EventsInv'
<1>1. PICK all, e, later : /\ all = Fetched /\ e = Head(all) /\ later = Tail(all) /\ all # <<>>
                           /\ CloseClient(e, later) \/ Receive(e, later) \/ BeginAccept(e, later)
  BY DEF HandleEvent
<1>2. /\ all \in Seq(EventSet) /\ ClosedGone(all, status)
      /\ NobodyDead(status) => ClosedOnce(all, file)
  BY <1>1, FetchedOK
<1>3. /\ e \in EventSet /\ later \in Seq(EventSet)
      /\ ClosedGone(later, status)
      /\ NobodyDead(status) => ClosedOnce(later, file)
      /\ NobodyDead(status) /\ e.kind = "closed" => \A i \in Closed(later) : later[i].peer # e.peer
  <2>1. e = Head(all) /\ later = Tail(all) /\ all # <<>>
    BY <1>1
  <2>2. /\ Head(all) \in EventSet /\ Tail(all) \in Seq(EventSet)
        /\ ClosedGone(all, status) => ClosedGone(Tail(all), status)
        /\ ClosedOnce(all, file) => ClosedOnce(Tail(all), file)
        /\ ClosedOnce(all, file) /\ Head(all).kind = "closed"
             => \A i \in Closed(Tail(all)) : Tail(all)[i].peer # Head(all).peer
    BY <1>2, <2>1, ClosedTail
  <2> QED
    BY <1>2, <2>1, <2>2
<1>4. events' = later /\ ready' = <<>> /\ status' = status
  BY <1>1 DEF CloseClient, Receive, BeginAccept, Poll
<1>5. ASSUME NobodyDead(status) PROVE ClosedOnce(later, file')
  <2>1. CASE file' = file
    BY <1>3, <1>5, <2>1
  <2>2. CASE CloseClient(e, later)
    <3>1. /\ e.kind = "closed" /\ file' = [file EXCEPT ![e.fd] = NoPeer]
          /\ file \in [Fds -> Peers \cup {NoPeer}]
      BY <2>2 DEF CloseClient, PeersInv, FilesOK
    <3>2. 1 \in Closed(all) /\ e = all[1]
      <4>1. e = all[1] /\ Len(all) \in Nat \ {0}
        BY <1>1, <1>2, HeadTailProperties
      <4> QED
        BY <3>1, <4>1 DEF Closed
    <3>3. file[e.fd] = e.peer
      BY <1>2, <1>5, <3>2 DEF ClosedOnce
    <3>4. ASSUME NEW i \in Closed(later) PROVE file'[later[i].fd] = later[i].peer
      <4>1. file[later[i].fd] = later[i].peer /\ later[i].fd \in Fds /\ later[i].peer # e.peer
        BY <1>3, <1>5, <3>1 DEF ClosedOnce, ClosedGone
      <4>2. later[i].fd # e.fd
        BY <3>3, <4>1
      <4> QED
        BY <3>1, <4>1, <4>2
    <3> QED
      BY <1>3, <1>5, <3>4 DEF ClosedOnce
  <2> QED
    BY <1>1, <2>1, <2>2 DEF Receive, BeginAccept
<1>6. NotReady(later, ready')
  BY <1>4 DEF NotReady, ToSet
<1>7. ReadyOK(ready, file)'
  BY <1>4 DEF ReadyOK, Distinct
<1>8. ClosedGone(events, status)' <=> ClosedGone(events', status')
  BY DEF ClosedGone, Closed, Gone
<1>9. NobodyDead(status)' <=> NobodyDead(status')
  BY DEF NobodyDead
<1>10. ClosedOnce(events, file)' <=> ClosedOnce(events', file')
  BY DEF ClosedOnce, Closed
<1>11. NotReady(events, ready)' <=> NotReady(events', ready')
  BY DEF NotReady, Closed, ToSet
<1>12. (events \in Seq(EventSet))'
  BY <1>3, <1>4 DEF EventSet, Kinds
<1> QED
  BY <1>3, <1>4, <1>5, <1>6, <1>7, <1>8, <1>9, <1>10, <1>11, <1>12 DEF EventsInv

(* What the events say is an invariant.                                    *)
LEMMA EventsStep ==
    ASSUME PeersInv, EventsInv, [Next]_vars
    PROVE  EventsInv'
<1>1. Ages(status, status')
  BY AgesStep DEF PeersInv
<1>2. CASE UNCHANGED <<ready, file, events>>
  <2>1. ReadyOK(ready', file')
    BY <1>2 DEF EventsInv
  <2> QED
    BY <1>1, <1>2, <2>1, EventsChange
<1>3. CASE BeginGenerate
  <2>1. ready' = <<>> /\ file' = file /\ events' = events
    BY <1>3 DEF BeginGenerate
  <2>2. ReadyOK(ready', file') /\ NotReady(events, ready')
    BY <2>1 DEF ReadyOK, Distinct, NotReady, ToSet
  <2> QED
    BY <1>1, <2>1, <2>2, EventsChange
<1> QED
  BY <1>2, <1>3, EventsEnvironment, EventsAccept, EventsHandle
     DEF Next, Thread, EndAccept, Generate, BeginUpdate, Handle,
         FindClient, RunMessage, RunListed, Write, SendReply, vars, kernelVars, threadVars

(* At the start there are no events.                                       *)
LEMMA EventsInit == Init => EventsInv
BY DEF Init, EventsInv, ReadyOK, Distinct, ClosedGone, ClosedOnce, NotReady, Closed, ToSet

(* In every state a "closed" event is about a peer that left, and while    *)
(* nobody was reset, about the one that has its descriptor.                *)
THEOREM EventsBasic == Spec => [](PeersInv /\ EventsInv)
<1>1. PeersInv /\ EventsInv /\ [Next]_vars => PeersInv' /\ EventsInv'
  BY PeersStep, EventsStep
<1> QED
  BY <1>1, PeersInit, EventsInit, PTL DEF Spec

(* A connection whose peer stays is closed only by an event that was read  *)
(* for an earlier user of its descriptor, one that left, and only after a  *)
(* peer that left was answered with a reset.                               *)
THEOREM Closes == Spec => ClosesLeavers
<1> DEFINE A == \A fd \in Fds :
                  (file[fd] # NoPeer /\ file'[fd] = NoPeer /\ status[file[fd]] \notin Gone)
                    => LET p == Head(Fetched).peer
                       IN  /\ p # file[fd] /\ status[p] \in Gone
                           /\ \E q \in Peers : status[q] = "dead"
<1>1. PeersInv /\ EventsInv /\ [Next]_vars => [A]_vars
  <2> SUFFICES ASSUME PeersInv, EventsInv, Next, NEW fd \in Fds,
                      file[fd] # NoPeer, file'[fd] = NoPeer, status[file[fd]] \notin Gone
               PROVE  LET p == Head(Fetched).peer
                      IN  /\ p # file[fd] /\ status[p] \in Gone
                          /\ \E q \in Peers : status[q] = "dead"
    OBVIOUS
  <2>1. ~AcceptOne
    <3> SUFFICES ASSUME AcceptOne PROVE FALSE
      OBVIOUS
    <3>1. PICK p \in Peers, f \in Fds : file' = [file EXCEPT ![f] = p]
      BY DEF AcceptOne, Accepts
    <3> QED
      BY <3>1, MpdServerAssumption DEF PeersInv, FilesOK
  <2>2. file' # file
    OBVIOUS
  <2>3. HandleEvent
    BY <2>1, <2>2
       DEF Next, Environment, Connect, SendRest, Leave, Reset, SendLine, CutLine, Thread, EndAccept,
           BeginGenerate, Generate, BeginUpdate, Handle, FindClient, RunMessage, RunListed, Write, SendReply, kernelVars
  <2>4. PICK all, e, later : /\ all = Fetched /\ e = Head(all) /\ all # <<>>
                             /\ CloseClient(e, later)
    BY <2>2, <2>3 DEF HandleEvent, Receive, BeginAccept
  <2>5. e.kind = "closed" /\ file' = [file EXCEPT ![e.fd] = NoPeer]
    BY <2>4 DEF CloseClient
  <2>6. e.fd = fd
    BY <2>5 DEF PeersInv, FilesOK
  <2>7. /\ all \in Seq(EventSet) /\ ClosedGone(all, status)
        /\ NobodyDead(status) => ClosedOnce(all, file)
    BY <2>4, FetchedOK
  <2>8. 1 \in Closed(all) /\ e = all[1]
    <3>1. e = all[1] /\ Len(all) \in Nat \ {0}
      BY <2>4, <2>7, HeadTailProperties
    <3> QED
      BY <2>5, <3>1 DEF Closed
  <2>9. status[e.peer] \in Gone
    BY <2>7, <2>8 DEF ClosedGone
  <2>10. ~NobodyDead(status)
    BY <2>6, <2>7, <2>8, <2>9 DEF ClosedOnce
  <2> QED
    BY <2>4, <2>9, <2>10 DEF NobodyDead
<1> QED
  BY <1>1, EventsBasic, PTL DEF Spec, ClosesLeavers
-----------------------------------------------------------------------------
(* Something will report the connection that waits.                        *)
Announced(r, es) == ListenFd \in ToSet(r) \/ \E i \in 1..Len(es) : es[i].kind = "accept"

(* NoneStranded in those words.                                            *)
LEMMA Stranded ==
    ASSUME ready \in Seq(Fds \cup {ListenFd}), events \in Seq(EventSet)
    PROVE  NoneStranded <=> \/ backlog = <<>> \/ tpc \in {"accept", "spin"} \/ cutShort
                            \/ Announced(ready, events)
<1>1. Contains(ready, ListenFd) <=> ListenFd \in ToSet(ready)
  BY ToSetProperties DEF Contains
<1>2. DOMAIN events = 1..Len(events)
  OBVIOUS
<1> QED
  BY <1>1, <1>2 DEF NoneStranded, Announced

(* With somebody waiting, epoll_wait makes the ready list's announcement   *)
(* an event.                                                               *)
LEMMA FetchedAnnounces ==
    ASSUME PeersInv, EventsInv, backlog # <<>>, Announced(ready, events)
    PROVE  \E i \in 1..Len(Fetched) : Fetched[i].kind = "accept"
<1>1. ready \in Seq(Fds \cup {ListenFd}) /\ events \in Seq(EventSet) /\ FilesOK
  BY DEF EventsInv, ReadyOK, PeersInv
<1>2. PICK e : e = Fetched
  OBVIOUS
<1>3. PICK g : Reports(g, e)
  BY <1>1, <1>2, FetchedProperties
<1>4. CASE \E i \in 1..Len(events) : events[i].kind = "accept"
  BY <1>2, <1>3, <1>4 DEF Reports
<1>5. CASE ListenFd \in ToSet(ready)
  <2>1. PICK k \in 1..Len(ready) : ready[k] = ListenFd
    BY <1>1, <1>5, ToSetProperties
  <2>2. Kind(ListenFd) = "accept" /\ Event(ListenFd).kind = Kind(ListenFd)
    BY <1>1, EventProperties DEF Kind
  <2>3. Kind(ready[k]) # "none"
    BY <2>1, <2>2
  <2>4. PICK i \in DOMAIN g : g[i] = k
    BY <1>3, <2>3 DEF Reports
  <2>5. i \in 1..Len(e) /\ e[i] = Event(ready[g[i]])
    BY <1>3 DEF Reports
  <2>6. e[i].kind = "accept"
    BY <2>1, <2>2, <2>4, <2>5
  <2> QED
    BY <1>2, <2>5, <2>6
<1> QED
  BY <1>4, <1>5 DEF Announced

(* The step that preserves it.                                             *)
LEMMA StrandedStep ==
    ASSUME PeersInv, EventsInv, PeersInv', EventsInv', NoneStranded, [Next]_vars
    PROVE  NoneStranded'
<1>1. /\ ready \in Seq(Fds \cup {ListenFd}) /\ Distinct(ready) /\ events \in Seq(EventSet)
  BY DEF EventsInv, ReadyOK
<1>2. \/ backlog = <<>> \/ tpc \in {"accept", "spin"} \/ cutShort \/ Announced(ready, events)
  BY <1>1, Stranded
<1>3. (ready \in Seq(Fds \cup {ListenFd}) /\ events \in Seq(EventSet))'
  BY DEF EventsInv, ReadyOK
<1>4. \/ backlog' = <<>> \/ tpc' \in {"accept", "spin"} \/ cutShort' \/ Announced(ready', events')
      => NoneStranded'
  <2>1. ListenFd \in ToSet(ready') => Contains(ready', ListenFd)
    BY <1>3, ToSetProperties DEF Contains
  <2>2. DOMAIN events' = 1..Len(events')
    BY <1>3
  <2> QED
    BY <2>1, <2>2 DEF NoneStranded, Announced, Contains
<1>5. ASSUME UNCHANGED <<backlog, tpc, cutShort, events>>, ready' = ready \/ ListenFd \in ToSet(ready')
      PROVE  NoneStranded'
  BY <1>2, <1>4, <1>5 DEF Announced
<1>6. ASSUME NEW fds, fds \subseteq Fds \cup {ListenFd}, ready' = Woken(fds)
      PROVE  ToSet(ready') = ToSet(ready) \cup fds
  <2>1. ToSet(Woken(fds)) = ToSet(ready) \cup fds
    BY <1>1, <1>6, WokenProperties
  <2> QED
    BY <1>6, <2>1
<1>7. CASE \E p \in Peers : Connect(p)
  <2>1. ready' = Woken({ListenFd}) /\ events' = events
    BY <1>7 DEF Connect, threadVars
  <2>2. ListenFd \in ToSet(ready')
    BY <1>6, <2>1
  <2> QED
    BY <1>4, <2>2 DEF Announced
<1>8. ASSUME NEW p \in Peers, ready' = Woken(Open(p)), UNCHANGED <<backlog, threadVars>>
      PROVE  NoneStranded'
  <2>1. Open(p) \subseteq Fds \cup {ListenFd}
    BY DEF Open
  <2>2. ToSet(ready') = ToSet(ready) \cup Open(p)
    BY <1>6, <1>8, <2>1
  <2> QED
    BY <1>2, <1>4, <1>8, <2>2 DEF Announced, threadVars
<1>9. CASE Environment
  <2>1. PICK p \in Peers : \/ Connect(p) \/ SendRest(p) \/ Leave(p) \/ Reset(p)
                           \/ \E l \in Lines : SendLine(p, l)
                           \/ \E l \in CutLines : \E as \in Readings(l) : CutLine(p, l, as)
    BY <1>9 DEF Environment
  <2>2. CASE Connect(p)
    BY <1>7, <2>2
  <2>3. CASE ~Connect(p)
    <3>1. ready' = Woken(Open(p)) /\ UNCHANGED <<backlog, threadVars>>
      BY <2>1, <2>3 DEF SendRest, Leave, Reset, SendLine, CutLine, Arrives
    <3> QED
      BY <1>8, <3>1
  <2> QED
    BY <2>2, <2>3
<1>10. CASE HandleEvent
  <2>1. PICK all, e, later : /\ all = Fetched /\ e = Head(all) /\ later = Tail(all) /\ all # <<>>
                             /\ CloseClient(e, later) \/ Receive(e, later) \/ BeginAccept(e, later)
    BY <1>10 DEF HandleEvent
  <2>2. CASE e.kind = "accept"
    <3>1. tpc' = "accept"
      BY <2>1, <2>2 DEF CloseClient, Receive, BeginAccept
    <3> QED
      BY <1>4, <3>1
  <2>3. CASE e.kind # "accept"
    <3>1. /\ UNCHANGED <<backlog, tpc, cutShort>> /\ events' = later /\ tpc = "poll"
      BY <1>10, <2>1, <2>3 DEF HandleEvent, CloseClient, Receive, BeginAccept, Poll
    <3>2. CASE backlog # <<>> /\ Announced(ready, events)
      <4>1. PICK i \in 1..Len(all) : all[i].kind = "accept"
        BY <2>1, <3>2, FetchedAnnounces
      <4>2. all \in Seq(EventSet)
        BY <2>1, FetchedOK
      <4>3. /\ e = all[1] /\ Len(all) \in Nat /\ Len(later) = Len(all) - 1
            /\ \A j \in 1..(Len(all) - 1) : later[j] = all[j + 1]
        BY <2>1, <4>2, TailFrontProperties, HeadTailProperties
      <4>4. i # 1
        BY <2>3, <4>1, <4>3
      <4>5. i - 1 \in 1..Len(later) /\ (i - 1) + 1 = i
        BY <4>3, <4>4
      <4>6. later[i - 1].kind = "accept"
        BY <4>1, <4>3, <4>5
      <4> QED
        BY <1>4, <3>1, <4>5, <4>6 DEF Announced
    <3> QED
      BY <1>2, <1>4, <3>1, <3>2
  <2> QED
    BY <2>2, <2>3
<1>11. CASE AcceptOne
  BY <1>4, <1>11 DEF AcceptOne, SpinForID, Greet
<1>12. CASE EndAccept
  BY <1>4, <1>12 DEF EndAccept, LastOfBatch, kernelVars
<1>13. CASE BeginGenerate
  <2>1. Fetched = <<>> /\ UNCHANGED <<backlog, cutShort>> /\ tpc = "poll"
    BY <1>13 DEF BeginGenerate
  <2>2. ~(backlog # <<>> /\ Announced(ready, events))
    BY <2>1, FetchedAnnounces
  <2> QED
    BY <1>2, <1>4, <2>1, <2>2
<1>14. CASE Generate
  <2>1. tpc = "generate" /\ UNCHANGED <<backlog, cutShort, events, ready>>
    BY <1>14 DEF Generate, kernelVars
  <2> QED
    BY <1>2, <1>4, <2>1 DEF Announced
<1>15. CASE BeginUpdate \/ Handle \/ UNCHANGED vars
  <2>1. UNCHANGED <<backlog, tpc, cutShort, events, ready>>
    BY <1>15 DEF BeginUpdate, Handle, FindClient, RunMessage, RunListed, Write, SendReply, vars, kernelVars, threadVars
  <2> QED
    BY <1>5, <2>1
<1> QED
  BY <1>9, <1>10, <1>11, <1>12, <1>13, <1>14, <1>15 DEF Next, Thread

(* Nobody waits to be accepted without an event to come, unless the accept *)
(* loop ended early or the thread spins.                                   *)
THEOREM Accepted == Spec => []NoneStranded
<1>1. Init => NoneStranded
  BY DEF Init, NoneStranded
<1>2. PeersInv /\ EventsInv /\ PeersInv' /\ EventsInv' /\ NoneStranded /\ [Next]_vars => NoneStranded'
  BY StrandedStep
<1> QED
  BY <1>1, <1>2, EventsBasic, PTL DEF Spec
-----------------------------------------------------------------------------
(* What a line may read as, cut or not.                                    *)
Texts == UNION {Readings(l) \cup {l} : l \in Lines}

(* What writeData is given to write.                                       *)
Replies == {"data", "OK", "list_OK", "ACK"}

(* Where the two threads are.                                              *)
PlaceTypes ==
    /\ tpc \in {"poll", "accept", "generate", "spin"} /\ accepted \in 0..AcceptBatch
    /\ cutShort \in BOOLEAN

(* The rest of a cut line is the end of the next line, and counts when it  *)
(* comes.                                                                  *)
RestOK(r, n) == r = NoLine \/ (r.n = n + 1 /\ n < MaxLines /\ r.line \in Lines)

(* What the peers sent, and what of it is on the way.                      *)
SentTypes ==
    /\ sent \in [Peers -> 0..MaxLines]
    /\ rest = [p \in Peers |-> rest[p]]
    /\ \A p \in Peers : RestOK(rest[p], sent[p])
    /\ net \in [Peers -> Seq(Piece)]

(* What an entry holds: pieces of lines, and the messages of its list.     *)
EntryOK(c) == c.buffer \in Seq(Piece) /\ c.inCmdList \in BOOLEAN /\ c.cmdList \in Seq(Message)

(* A map with such entries only.                                           *)
EntriesOK(map) == DOMAIN map \subseteq IDs /\ \A id \in DOMAIN map : EntryOK(map[id])

(* m_clientMap is one.                                                     *)
EntryTypes == EntriesOK(clientMap)

(* The main loop has a message to handle where it looks for one.           *)
QueueTypes ==
    /\ recvQueue \in Seq(Message)
    /\ running \in Seq(Message)
    /\ mpc \in {"idle", "find", "run", "list", "write", "send", "terminated"}
    /\ mpc \in {"find", "run"} => recvQueue # <<>>

(* What is written, for whom, and what of a list is left to run: its last  *)
(* reply waits until nothing is.                                           *)
Sendings == [client : IDs \cup {0}, peer : Peers \cup {NoPeer}, replies : Seq(Replies),
             fd : Fds \cup {0}, to : Peers \cup {NoPeer}]

SendingTypes ==
    /\ sending \in Sendings
    /\ mpc \in {"idle", "find", "run"} => running = <<>>
    /\ mpc = "list" => running # <<>> /\ Len(sending.replies) = 1
    /\ mpc \in {"write", "send"} => /\ sending.replies # <<>>
                                    /\ running # <<>> => Len(sending.replies) > 1

(* History: what ran.                                                      *)
HistoryTypes == ran \in [Peers -> Seq(Entries)]

(* History: the answers still due, an integer, since a peer may get more   *)
(* than were counted.                                                      *)
DueTypes == due \in [Peers -> Int]
-----------------------------------------------------------------------------
(* A line reads as itself, or as one of its beginnings.                    *)
LEMMA TextsProperties ==
    /\ \A l \in Lines : l \in Texts
    /\ \A l \in Lines : Readings(l) \subseteq Texts
    /\ Texts # {} => Unknown \in Texts
<1>1. \A l : Unknown \in Readings(l)
  BY DEF Readings
<1> QED
  BY <1>1 DEF Texts

(* The pieces and messages of lines.                                       *)
LEMMA PieceFields ==
    /\ \A part \in {"whole", "head", "tail"}, n \in 0..MaxLines, line \in Texts :
          [part |-> part, n |-> n, line |-> line] \in Piece
    /\ \A x \in Piece : /\ x.part \in {"whole", "head", "tail"} /\ x.n \in 0..MaxLines
                        /\ x.line \in Texts
BY DEF Piece, Texts

(* The fields of messages, and of messages whose arguments are gone.       *)
LEMMA MessageFields ==
    /\ \A client \in IDs, n \in 0..MaxLines, line \in Texts, part \in {"whole", "head"},
          intact \in BOOLEAN, peer \in Peers \cup {NoPeer} :
          [client |-> client, n |-> n, line |-> line, part |-> part, intact |-> intact,
           peer |-> peer] \in Message
    /\ \A x \in Message : /\ x.client \in IDs /\ x.n \in 0..MaxLines /\ x.line \in Texts
                          /\ x.part \in {"whole", "head"}
                          /\ x.intact \in BOOLEAN /\ x.peer \in Peers \cup {NoPeer}
                          /\ [x EXCEPT !.intact = FALSE] \in Message
                          /\ [x EXCEPT !.intact = FALSE].client = x.client
                          /\ [x EXCEPT !.intact = FALSE].peer = x.peer
                          /\ [x EXCEPT !.intact = FALSE].n = x.n
                          /\ [x EXCEPT !.intact = FALSE].line = x.line
                          /\ [x EXCEPT !.intact = FALSE].part = x.part
BY DEF Message, Texts

(* Messages stay what they are when their arguments are gone.              *)
LEMMA UnviewedProperties ==
    ASSUME NEW ms \in Seq(Message), NEW ids
    PROVE  /\ Unviewed(ms, ids) \in Seq(Message) /\ Len(Unviewed(ms, ids)) = Len(ms)
           /\ \A i \in 1..Len(ms) : /\ Unviewed(ms, ids)[i].client = ms[i].client
                                    /\ Unviewed(ms, ids)[i].peer = ms[i].peer
                                    /\ Unviewed(ms, ids)[i].n = ms[i].n
                                    /\ Unviewed(ms, ids)[i].line = ms[i].line
                                    /\ Unviewed(ms, ids)[i].part = ms[i].part
<1>1. PICK m \in Nat : m = Len(ms)
  OBVIOUS
<1>2. PICK u : u = Unviewed(ms, ids)
  OBVIOUS
<1>3. DOMAIN ms = 1..m /\ \A i \in 1..m : ms[i] \in Message
  BY <1>1
<1>4. /\ u = [i \in 1..m |-> u[i]]
      /\ \A i \in 1..m : u[i] = ms[i] \/ u[i] = [ms[i] EXCEPT !.intact = FALSE]
  BY <1>2, <1>3 DEF Unviewed
<1>5. \A i \in 1..m : /\ u[i] \in Message /\ u[i].client = ms[i].client
                      /\ u[i].peer = ms[i].peer /\ u[i].n = ms[i].n /\ u[i].line = ms[i].line
                      /\ u[i].part = ms[i].part
  <2> SUFFICES ASSUME NEW i \in 1..m
               PROVE  /\ u[i] \in Message /\ u[i].client = ms[i].client
                      /\ u[i].peer = ms[i].peer /\ u[i].n = ms[i].n /\ u[i].line = ms[i].line
                      /\ u[i].part = ms[i].part
    OBVIOUS
  <2>1. PICK x \in Message : x = ms[i]
    BY <1>3
  <2>2. CASE u[i] = x
    BY <2>1, <2>2
  <2>3. CASE u[i] = [x EXCEPT !.intact = FALSE]
    BY <2>1, <2>3, MessageFields
  <2> QED
    BY <1>4, <2>1, <2>2, <2>3
<1>6. u \in Seq(Message) /\ Len(u) = m
  BY <1>4, <1>5
<1> QED
  BY <1>1, <1>2, <1>5, <1>6

-----------------------------------------------------------------------------
(* The threads go from one of their places to another.                     *)
LEMMA PlaceStep == PlaceTypes /\ [Next]_vars => PlaceTypes'
<1> SUFFICES ASSUME PlaceTypes, [Next]_vars PROVE PlaceTypes'
  OBVIOUS
<1> USE MpdServerAssumption
<1>1. CASE UNCHANGED <<tpc, accepted, cutShort>>
  BY <1>1 DEF PlaceTypes
<1>2. CASE AcceptOne
  BY <1>2 DEF AcceptOne, SpinForID, Greet, PlaceTypes
<1>3. CASE EndAccept
  BY <1>3 DEF EndAccept, PlaceTypes
<1>4. CASE BeginGenerate \/ Generate
  BY <1>4 DEF BeginGenerate, Generate, PlaceTypes
<1>5. CASE \E e, later : BeginAccept(e, later)
  BY <1>5 DEF BeginAccept, PlaceTypes
<1> QED
  BY <1>1, <1>2, <1>3, <1>4, <1>5
     DEF Next, Environment, Connect, SendLine, CutLine, SendRest, Leave, Reset, Thread, HandleEvent,
         CloseClient, Receive, BeginUpdate, Handle, FindClient, RunMessage, RunListed, Write,
         SendReply, vars, threadVars

(* A piece that arrives is put behind the others.                          *)
LEMMA SentArrives ==
    ASSUME SentTypes, NEW p \in Peers, NEW x \in Piece, Arrives(p, x)
    PROVE  net' \in [Peers -> Seq(Piece)]
<1>1. net[p] \in Seq(Piece)
  BY DEF SentTypes
<1>2. Append(net[p], x) \in Seq(Piece)
  BY <1>1
<1> QED
  BY <1>2 DEF SentTypes, Arrives

(* Peers send lines in turn, and of a cut line first the head.             *)
LEMMA SentStep == SentTypes /\ [Next]_vars => SentTypes'
<1> SUFFICES ASSUME SentTypes, [Next]_vars PROVE SentTypes'
  OBVIOUS
<1> USE MpdServerAssumption
<1>0. MaxLines \in Nat
  OBVIOUS
<1>1. CASE UNCHANGED <<sent, rest, net>>
  BY <1>1 DEF SentTypes, RestOK
<1>2. ASSUME NEW p \in Peers, NEW l \in Lines, SendLine(p, l) PROVE SentTypes'
  <2>1. PICK n \in 0..MaxLines : n = sent[p]
    BY DEF SentTypes
  <2>2. n < MaxLines /\ rest[p] = NoLine /\ sent' = [sent EXCEPT ![p] = n + 1] /\ rest' = rest
    BY <1>2, <2>1 DEF SendLine
  <2>3. n + 1 \in 0..MaxLines
    BY <1>0, <2>2
  <2>4. /\ sent' \in [Peers -> 0..MaxLines] /\ sent'[p] = n + 1
        /\ \A q \in Peers : q # p => sent'[q] = sent[q]
    BY <2>2, <2>3 DEF SentTypes
  <2>5. \E x \in Piece : Arrives(p, x)
    <3>1. Arrives(p, [part |-> "whole", n |-> sent'[p], line |-> l])
      BY <1>2 DEF SendLine
    <3>2. [part |-> "whole", n |-> sent'[p], line |-> l] \in Piece
      BY <2>3, <2>4, PieceFields, TextsProperties
    <3> QED
      BY <3>1, <3>2
  <2>6. net' \in [Peers -> Seq(Piece)]
    BY <2>5, SentArrives
  <2>7. \A q \in Peers : RestOK(rest'[q], sent'[q])
    BY <2>2, <2>4 DEF SentTypes, RestOK
  <2> QED
    BY <2>2, <2>4, <2>6, <2>7 DEF SentTypes, RestOK
<1>3. ASSUME NEW p \in Peers, NEW l \in Lines, NEW k \in Readings(l), CutLine(p, l, k) PROVE SentTypes'
  <2>1. PICK n \in 0..MaxLines : n = sent[p]
    BY DEF SentTypes
  <2>2. n < MaxLines /\ rest' = [rest EXCEPT ![p] = [n |-> n + 1, line |-> l]] /\ sent' = sent
    BY <1>3, <2>1 DEF CutLine
  <2>3. \E x \in Piece : Arrives(p, x)
    <3>1. Arrives(p, [part |-> "head", n |-> n + 1, line |-> k])
      BY <1>3, <2>1 DEF CutLine
    <3>2. n + 1 \in 0..MaxLines /\ k \in Texts
      <4>1. n + 1 \in 0..MaxLines
        BY <1>0, <2>2
      <4>2. Readings(l) \subseteq Texts
        BY TextsProperties
      <4> QED
        BY <4>1, <4>2
    <3>3. [part |-> "head", n |-> n + 1, line |-> k] \in Piece
      BY <3>2, PieceFields
    <3> QED
      BY <3>1, <3>3
  <2>4. net' \in [Peers -> Seq(Piece)]
    BY <2>3, SentArrives
  <2>5. RestOK([n |-> n + 1, line |-> l], n)
    BY <2>2 DEF RestOK
  <2>6. rest' = [q \in Peers |-> rest'[q]] /\ \A q \in Peers : RestOK(rest'[q], sent'[q])
    BY <2>1, <2>2, <2>5 DEF SentTypes
  <2> QED
    BY <2>2, <2>4, <2>6 DEF SentTypes, RestOK
<1>4. ASSUME NEW p \in Peers, SendRest(p) PROVE SentTypes'
  <2>1. PICK n \in 0..MaxLines : n = sent[p]
    BY DEF SentTypes
  <2>2. PICK r : r = rest[p]
    OBVIOUS
  <2>3. r.n = n + 1 /\ n < MaxLines /\ r.line \in Lines
    BY <1>4, <2>1, <2>2 DEF SendRest, SentTypes, RestOK
  <2>4. sent' = [sent EXCEPT ![p] = n + 1] /\ rest' = [rest EXCEPT ![p] = NoLine]
    BY <1>4, <2>1 DEF SendRest
  <2>5. n + 1 \in 0..MaxLines
    BY <1>0, <2>3
  <2>6. \E x \in Piece : Arrives(p, x)
    <3>1. Arrives(p, [part |-> "tail", n |-> r.n, line |-> r.line])
      BY <1>4, <2>2 DEF SendRest
    <3>2. [part |-> "tail", n |-> r.n, line |-> r.line] \in Piece
      BY <2>3, <2>5, PieceFields, TextsProperties
    <3> QED
      BY <3>1, <3>2
  <2>7. net' \in [Peers -> Seq(Piece)]
    BY <2>6, SentArrives
  <2>8. sent' \in [Peers -> 0..MaxLines] /\ \A q \in Peers : q # p => sent'[q] = sent[q]
    BY <2>4, <2>5 DEF SentTypes
  <2>9. rest' = [q \in Peers |-> rest'[q]] /\ \A q \in Peers : RestOK(rest'[q], sent'[q])
    BY <2>4, <2>8 DEF SentTypes, RestOK
  <2> QED
    BY <2>7, <2>8, <2>9 DEF SentTypes, RestOK
<1>5. ASSUME NEW e, NEW later, CloseClient(e, later) PROVE SentTypes'
  <2>1. sent' = sent /\ rest' = rest /\ net' = [p \in Peers |-> IF file[e.fd] = p THEN <<>> ELSE net[p]]
    BY <1>5 DEF CloseClient, peerVars
  <2>2. net' \in [Peers -> Seq(Piece)]
    BY <2>1 DEF SentTypes
  <2> QED
    BY <2>1, <2>2 DEF SentTypes, RestOK
<1>6. ASSUME NEW e, NEW later, Receive(e, later) PROVE SentTypes'
  <2>1. sent' = sent /\ rest' = rest
    BY <1>6 DEF Receive, peerVars
  <2>2. net' \in [Peers -> Seq(Piece)]
    <3>1. CASE net' = net
      BY <3>1 DEF SentTypes
    <3>2. CASE net' # net
      <4>1. PICK p : net' = [net EXCEPT ![p] = SubSeq(@, Received(p) + 1, Len(@))]
        BY <1>6, <3>2 DEF Receive
      <4>2. CASE p \in Peers
        <5>1. net[p] \in Seq(Piece)
          BY <4>2 DEF SentTypes
        <5>2. PICK n \in Nat : n = Len(net[p])
          BY <5>1
        <5>3. net' = [net EXCEPT ![p] = SubSeq(net[p], n + 1, n)]
          BY <4>1, <5>2 DEF Received
        <5>4. SubSeq(net[p], n + 1, n) \in Seq(Piece)
          BY <5>1, <5>2
        <5> QED
          BY <5>3, <5>4 DEF SentTypes
      <4>3. CASE p \notin Peers
        BY <4>1, <4>3 DEF SentTypes
      <4> QED
        BY <4>2, <4>3
    <3> QED
      BY <3>1, <3>2
  <2> QED
    BY <2>1, <2>2 DEF SentTypes, RestOK
<1>7. CutLines \subseteq Lines
  OBVIOUS
<1> QED
  BY <1>1, <1>2, <1>3, <1>4, <1>5, <1>6, <1>7
     DEF Next, Environment, Connect, Leave, Reset, Thread, HandleEvent, BeginAccept, AcceptOne,
         EndAccept, BeginGenerate, Generate, BeginUpdate, Handle, FindClient, RunMessage, RunListed,
         Write, SendReply, vars, kernelVars, peerVars
-----------------------------------------------------------------------------
(* An entry with its fields changed, and one made.                         *)
LEMMA EntryChanges ==
    ASSUME ClientsOK(clientMap), EntryTypes, NEW id \in DOMAIN clientMap,
           NEW b \in Seq(Piece), NEW c \in Seq(Message), NEW map,
           map = [clientMap EXCEPT ![id].buffer = b, ![id].cmdList = c]
    PROVE  EntriesOK(map)
<1>1. PICK r : r = clientMap[id]
  OBVIOUS
<1>2. r = [socket |-> r.socket, buffer |-> r.buffer, inCmdList |-> r.inCmdList,
           cmdList |-> r.cmdList] /\ EntryOK(r)
  BY <1>1 DEF ClientsOK, IsClient, EntryTypes, EntriesOK
<1>3. PICK n : n = map[id] /\ n = [[r EXCEPT !.buffer = b] EXCEPT !.cmdList = c]
  BY <1>1 DEF ClientsOK
<1>4. EntryOK(n)
  BY <1>2, <1>3 DEF EntryOK
<1>5. /\ DOMAIN map = DOMAIN clientMap
      /\ \A i \in DOMAIN clientMap \ {id} : map[i] = clientMap[i]
  BY DEF ClientsOK
<1> QED
  BY <1>3, <1>4, <1>5 DEF EntryTypes, EntriesOK

(* A new entry, or one that replaces another, is as the others.            *)
LEMMA EntryMade ==
    ASSUME ClientsOK(clientMap), EntryTypes, NEW id \in IDs, NEW c, IsClient(c), EntryOK(c)
    PROVE  EntriesOK(WithClient(id, c))
<1>1. PICK map : map = WithClient(id, c)
  OBVIOUS
<1>2. /\ DOMAIN map = DOMAIN clientMap \cup {id} /\ map[id] = c
      /\ \A i \in DOMAIN clientMap \ {id} : map[i] = clientMap[i]
  <2>1. /\ DOMAIN WithClient(id, c) = DOMAIN clientMap \cup {id} /\ WithClient(id, c)[id] = c
        /\ \A i \in DOMAIN clientMap \ {id} : WithClient(id, c)[i] = clientMap[i]
    BY WithClientProperties, ZenonT(40)
  <2> QED
    BY <1>1, <2>1
<1> QED
  BY <1>1, <1>2 DEF EntryTypes, EntriesOK

(* A new entry is empty.                                                   *)
LEMMA FreshEntry ==
    ASSUME NEW fd
    PROVE  EntryOK(Fresh(fd))
BY DEF EntryOK, Fresh

(* An entry that the main loop finds or makes, with its lists set.         *)
LEMMA EntrySets ==
    ASSUME ClientsOK(clientMap), EntryTypes, NEW id \in IDs, NEW l \in BOOLEAN,
           NEW c \in Seq(Message), Sets(id, l, c)
    PROVE  EntryTypes'
<1>1. PICK d : d = Relisted(id, l, c)
  OBVIOUS
<1>2. EntryOK(Client(id))
  BY FreshEntry DEF Client, EntryTypes, EntriesOK
<1>3. IsClient(d) /\ d.buffer = Client(id).buffer
  BY <1>1, ClientProperties
<1>4. d.inCmdList = l /\ d.cmdList = c
  BY <1>1 DEF Relisted
<1>5. EntryOK(d)
  BY <1>2, <1>3, <1>4 DEF EntryOK
<1>6. EntriesOK(WithClient(id, d))
  BY <1>3, <1>5, EntryMade
<1>7. EntriesOK(clientMap')
  BY <1>1, <1>6 DEF Sets
<1> QED
  BY <1>7 DEF EntryTypes, EntriesOK, EntryOK

(* There are finitely many clients.                                        *)
LEMMA FiniteBuffered ==
    ASSUME EntryTypes
    PROVE  IsFiniteSet(Buffered) /\ Cardinality(Buffered) \in Nat
<1>1. IsFiniteSet(IDs)
  BY MpdServerAssumption, FS_Interval DEF IDs
<1>2. Buffered \subseteq IDs
  BY DEF EntryTypes, EntriesOK, Buffered
<1> QED
  BY <1>1, <1>2, FS_Subset, FS_CardinalityType

(* The piece without a newline, if there is one.                           *)
LEMMA UnendedProperties ==
    ASSUME NEW b \in Seq(Piece)
    PROVE  /\ Unended(b) \in Seq(Piece)
           /\ \/ Unended(b) = <<>>
              \/ b # <<>> /\ b[Len(b)].part = "head" /\ Unended(b) = <<b[Len(b)]>>
<1>1. CASE b # <<>> /\ Last(b).part = "head"
  <2>1. Len(b) \in 1..Len(b) /\ b[Len(b)] \in Piece /\ Last(b) = b[Len(b)]
    BY <1>1 DEF Last
  <2>2. PICK x \in Piece : x = b[Len(b)]
    BY <2>1
  <2>3. Unended(b) = <<x>> /\ <<x>> \in Seq(Piece)
    BY <1>1, <2>1, <2>2 DEF Unended
  <2> QED
    BY <1>1, <2>1, <2>2, <2>3
<1>2. CASE ~(b # <<>> /\ Last(b).part = "head")
  BY <1>2 DEF Unended
<1> QED
  BY <1>1, <1>2

(* The pieces as they read after what is before them.                      *)
LEMMA JoinedProperties ==
    ASSUME NEW b \in Seq(Piece)
    PROVE  /\ Joined(b) \in Seq(Piece) /\ Len(Joined(b)) = Len(b)
           /\ \A i \in 1..Len(b) : Joined(b)[i].part = b[i].part
<1>1. PICK m \in Nat : m = Len(b)
  OBVIOUS
<1>2. PICK j : j = Joined(b)
  OBVIOUS
<1>3. DOMAIN b = 1..m /\ \A i \in 1..m : b[i] \in Piece
  BY <1>1
<1>4. /\ j = [i \in 1..m |-> j[i]]
      /\ \A i \in 1..m : j[i] = b[i] \/ j[i] = [b[i] EXCEPT !.n = 0, !.line = Unknown]
  BY <1>2, <1>3 DEF Joined
<1>5. ASSUME NEW i \in 1..m PROVE j[i] \in Piece /\ j[i].part = b[i].part
  <2>1. PICK x \in Piece : x = b[i]
    BY <1>3
  <2>2. PICK y : y = [x EXCEPT !.n = 0, !.line = Unknown]
    OBVIOUS
  <2>3. x.line \in Texts /\ x.part \in {"whole", "head", "tail"}
    BY PieceFields
  <2>4. Unknown \in Texts
    BY <2>3, TextsProperties
  <2>5. y = [part |-> x.part, n |-> 0, line |-> Unknown]
    BY <2>2 DEF Piece
  <2>6. 0 \in 0..MaxLines
    BY MpdServerAssumption
  <2>7. y \in Piece /\ y.part = x.part
    BY <2>3, <2>4, <2>5, <2>6, PieceFields
  <2> QED
    BY <1>4, <2>1, <2>2, <2>7
<1>6. j \in Seq(Piece) /\ Len(j) = m
  <2>1. \A i \in 1..m : j[i] \in Piece
    BY <1>5
  <2>2. j = [i \in 1..m |-> j[i]]
    BY <1>4
  <2> QED
    BY <2>1, <2>2
<1> QED
  BY <1>1, <1>2, <1>5, <1>6
-----------------------------------------------------------------------------
(* The message made of a piece.                                            *)
Made(id, x, intact, peer) ==
    [client |-> id, n |-> x.n, line |-> x.line,
     part |-> IF x.part = "head" THEN "head" ELSE "whole", intact |-> intact, peer |-> peer]

MadeOf(id, lines, intact, peer) == [i \in DOMAIN lines |-> Made(id, lines[i], intact, peer)]

MessagesFrom(id, b) ==
    MadeOf(id, Kept(b, {i \in DOMAIN b : b[i].part # "head"})
                 \o IF Cardinality({i \in DOMAIN (recvQueue \o clientMap[id].cmdList) :
                              /\ (recvQueue \o clientMap[id].cmdList)[i].client = id
                              /\ (recvQueue \o clientMap[id].cmdList)[i].part = "head"})
                       < MaxCopies THEN Unended(b) ELSE <<>>,
           Unended(b) = <<>>,
           IF clientMap[id].socket = 0 THEN NoPeer ELSE file[clientMap[id].socket])

(* A client's messages are its own, and of whoever is behind its socket.   *)
LEMMA MessagesTypes ==
    ASSUME MapInv, EntryTypes, NEW id \in DOMAIN clientMap
    PROVE  /\ Messages(id) \in Seq(Message)
           /\ \A i \in 1..Len(Messages(id)) :
                 /\ Messages(id)[i].client = id
                 /\ Messages(id)[i].peer = IF clientMap[id].socket = 0 THEN NoPeer
                                           ELSE file[clientMap[id].socket]
<1>1. PICK b : b = Joined(clientMap[id].buffer)
  OBVIOUS
<1>2. id \in IDs /\ clientMap[id].buffer \in Seq(Piece) /\ clientMap[id].socket \in Fds \cup {0}
  BY DEF EntryTypes, EntriesOK, EntryOK, MapInv, ClientsOK, IsClient
<1>3. b \in Seq(Piece)
  BY <1>1, <1>2, JoinedProperties
<1>4. PICK at : at = {i \in DOMAIN b : b[i].part # "head"}
  OBVIOUS
<1>5. PICK k : k = Kept(b, at) /\ k \in Seq(Piece)
  BY <1>3, KeptProperties
<1>6. PICK u : /\ u \in Seq(Piece)
               /\ u = IF Cardinality({i \in DOMAIN (recvQueue \o clientMap[id].cmdList) :
                                        /\ (recvQueue \o clientMap[id].cmdList)[i].client = id
                                        /\ (recvQueue \o clientMap[id].cmdList)[i].part = "head"})
                            < MaxCopies THEN Unended(b) ELSE <<>>
  <2>1. Unended(b) \in Seq(Piece) /\ <<>> \in Seq(Piece)
    BY <1>3, UnendedProperties
  <2> QED
    BY <2>1
<1>7. PICK lines \in Seq(Piece) : lines = k \o u
  <2>1. PICK v \in Seq(Piece) : v = u
    BY <1>6
  <2>2. PICK w \in Seq(Piece) : w = k
    BY <1>5
  <2>3. w \o v \in Seq(Piece)
    OBVIOUS
  <2> QED
    BY <2>1, <2>2, <2>3
<1>8. PICK m \in Nat : m = Len(lines)
  OBVIOUS
<1>9. DOMAIN lines = 1..m /\ \A i \in 1..m : lines[i] \in Piece
  BY <1>8
<1>10. PICK intact \in BOOLEAN : intact = (Unended(b) = <<>>)
  OBVIOUS
<1>11. PICK peer : peer = IF clientMap[id].socket = 0 THEN NoPeer ELSE file[clientMap[id].socket]
  OBVIOUS
<1>12. peer \in Peers \cup {NoPeer}
  BY <1>2, <1>11 DEF MapInv, FilesOK
<1>13. PICK ms : ms = Messages(id)
  OBVIOUS
<1>14. ms = [i \in DOMAIN lines |-> Made(id, lines[i], intact, peer)]
  <2>1. Messages(id) = MessagesFrom(id, Joined(clientMap[id].buffer))
    BY Zenon DEF Messages, MessagesFrom, MadeOf, Made
  <2>2. PICK l : l = Kept(b, {i \in DOMAIN b : b[i].part # "head"})
                      \o IF Cardinality({i \in DOMAIN (recvQueue \o clientMap[id].cmdList) :
                              /\ (recvQueue \o clientMap[id].cmdList)[i].client = id
                              /\ (recvQueue \o clientMap[id].cmdList)[i].part = "head"})
                            < MaxCopies THEN Unended(b) ELSE <<>>
    OBVIOUS
  <2>3. l = lines
    BY <1>4, <1>5, <1>6, <1>7, <2>2, Zenon
  <2>4. MessagesFrom(id, b) = MadeOf(id, l, intact, peer)
    BY <1>10, <1>11, <2>2, Zenon DEF MessagesFrom
  <2> QED
    BY <1>1, <1>13, <2>1, <2>3, <2>4, Zenon DEF MadeOf
<1>15. \A x \in Piece : Made(id, x, intact, peer) \in Message
  BY <1>2, <1>10, <1>12, PieceFields, MessageFields DEF Made
<1>16. \A x : Made(id, x, intact, peer).client = id /\ Made(id, x, intact, peer).peer = peer
  BY DEF Made
<1>17. ms = [i \in 1..m |-> ms[i]] /\ \A i \in 1..m : ms[i] = Made(id, lines[i], intact, peer)
  BY <1>9, <1>14
<1>18. \A i \in 1..m : ms[i] \in Message /\ ms[i].client = id /\ ms[i].peer = peer
  BY <1>9, <1>15, <1>16, <1>17
<1>19. ms \in Seq(Message) /\ Len(ms) = m
  BY <1>17, <1>18
<1> QED
  BY <1>11, <1>13, <1>18, <1>19
-----------------------------------------------------------------------------
(* What a command writes: an error or nothing, or data and then its answer. *)
LEMMA WrittenProperties ==
    ASSUME NEW l, NEW inList, NEW replies \in Written(l, inList)
    PROVE  /\ replies \in Seq(Replies)
           /\ ListOutcome(l) = "error" => replies = <<"ACK">>
           /\ ListOutcome(l) = "silent" => replies = <<>>
           /\ ListOutcome(l) \notin {"error", "silent"}
                 => \E data \in Seq({"data"}) : replies = Append(data, Answer(inList))
<1>1. PICK a \in Replies : a = Answer(inList)
  BY DEF Answer, Replies
<1>2. <<>> \in Seq(Replies) /\ <<"ACK">> \in Seq(Replies)
  BY DEF Replies
<1>3. PICK o : o = ListOutcome(l)
  OBVIOUS
<1>4. CASE o = "error"
  BY <1>2, <1>3, <1>4 DEF Written
<1>5. CASE o = "silent"
  BY <1>2, <1>3, <1>5 DEF Written
<1>6. CASE o \notin {"error", "silent"}
  <2>1. Written(l, inList) = {Append(data, a) : data \in Writes(l)}
    BY <1>1, <1>3, <1>6 DEF Written
  <2>2. PICK data \in Writes(l) : replies = Append(data, a)
    BY <2>1
  <2>3. data \in Seq({"data"})
    <3>1. <<>> \in Seq({"data"}) /\ <<"data">> \in Seq({"data"})
      OBVIOUS
    <3>2. PICK S : S = Seq({"data"})
      OBVIOUS
    <3>3. Writes(l) \subseteq {<<>>, <<"data">>}
      BY DEF Writes
    <3>4. data = <<>> \/ data = <<"data">>
      BY <3>3
    <3>5. data \in S
      BY <3>1, <3>2, <3>4
    <3> QED
      BY <3>2, <3>5
  <2>4. PICK d \in Seq(Replies) : d = data
    BY <2>3 DEF Replies
  <2>5. Append(d, a) \in Seq(Replies)
    OBVIOUS
  <2> QED
    BY <1>1, <1>3, <1>6, <2>2, <2>3, <2>4, <2>5
<1> QED
  BY <1>4, <1>5, <1>6

(* What remains to be handled, and what is written, when something ran.    *)
LEMMA ContinueTypes ==
    ASSUME recvQueue' \in Seq(Message), running' \in Seq(Message), NEW client \in IDs \cup {0},
           NEW peer \in Peers \cup {NoPeer}, NEW replies \in Seq(Replies),
           running' # <<>> => replies # <<>>, Continue(client, peer, replies)
    PROVE  QueueTypes' /\ SendingTypes'
<1>1. sending' \in Sendings
  <2>1. CASE replies = <<>>
    <3>1. <<>> \in Seq(Replies)
      OBVIOUS
    <3> QED
      BY <2>1, <3>1 DEF Continue, NotSending, Sendings
  <2>2. CASE replies # <<>>
    <3>1. sending' = [client |-> client, peer |-> peer, replies |-> replies, fd |-> 0, to |-> NoPeer]
      BY <2>2 DEF Continue
    <3> QED
      BY <3>1 DEF Sendings
  <2> QED
    BY <2>1, <2>2
<1>2. replies # <<>> => sending'.replies = replies /\ Len(replies) \in Nat \ {0}
  BY DEF Continue
<1>3. /\ mpc' \in {"list", "write", "idle", "find"}
      /\ mpc' = "list" <=> running' # <<>> /\ Len(replies) = 1
      /\ mpc' = "write" => replies # <<>> /\ ~(running' # <<>> /\ Len(replies) = 1)
      /\ mpc' \in {"idle", "find"} => replies = <<>>
      /\ mpc' = "find" => recvQueue' # <<>>
  BY <1>2 DEF Continue
<1>4. QueueTypes'
  BY <1>3 DEF QueueTypes
<1>5. mpc' = "list" => sending'.replies = replies
  BY <1>2, <1>3
<1>6. mpc' \in {"idle", "find", "run"} => running' = <<>>
  BY <1>3
<1>7. ASSUME mpc' \in {"write", "send"}
      PROVE  sending'.replies # <<>> /\ (running' # <<>> => Len(sending'.replies) > 1)
  <2>1. replies # <<>> /\ ~(running' # <<>> /\ Len(replies) = 1)
    BY <1>3, <1>7
  <2>2. sending'.replies = replies /\ Len(replies) \in Nat /\ Len(replies) # 0
    BY <1>2, <2>1
  <2>3. PICK n \in Nat : n = Len(replies)
    BY <2>2
  <2>4. n # 0 /\ (n # 1 => n > 1)
    BY <2>2, <2>3
  <2> QED
    BY <2>1, <2>2, <2>3, <2>4
<1>8. mpc' = "list" => running' # <<>> /\ Len(sending'.replies) = 1
  BY <1>3, <1>5
<1> QED
  BY <1>1, <1>4, <1>6, <1>7, <1>8 DEF SendingTypes

(* A message that is handled.                                              *)
LEMMA HandledTypes ==
    ASSUME EntryTypes, QueueTypes, mpc = "run", NEW m, m = Head(recvQueue), Handled(m)
    PROVE  QueueTypes' /\ SendingTypes'
<1>1. m \in Message /\ Tail(recvQueue) \in Seq(Message)
  BY DEF QueueTypes
<1>2. m.client \in IDs \cup {0} /\ m.peer \in Peers \cup {NoPeer}
  BY <1>1, MessageFields
<1>3. <<>> \in Seq(Replies) /\ <<"ACK">> \in Seq(Replies) /\ <<"OK">> \in Seq(Replies)
  BY DEF Replies
<1>4. CASE \E replies \in Seq(Replies) : Done(m, replies)
  <2>1. PICK replies \in Seq(Replies) : Done(m, replies)
    BY <1>4
  <2>2. /\ recvQueue' \in Seq(Message) /\ running' = <<>>
        /\ Continue(m.client, m.peer, replies)
    BY <1>1, <2>1 DEF Done
  <2>3. <<>> \in Seq(Message)
    OBVIOUS
  <2> QED
    BY <1>2, <2>2, <2>3, ContinueTypes
<1>5. CASE ClosesList(m)
  <2>1. /\ recvQueue' \in Seq(Message) /\ running' = Client(m.client).cmdList
        /\ Continue(m.client, m.peer, <<"OK">>)
    BY <1>1, <1>5 DEF ClosesList
  <2>2. running' \in Seq(Message)
    BY <2>1, FreshEntry DEF Client, EntryTypes, EntriesOK, EntryOK
  <2>3. PICK r \in Seq(Replies) : r = <<"OK">> /\ r # <<>>
    BY <1>3
  <2> QED
    BY <1>2, <2>1, <2>2, <2>3, ContinueTypes
<1> QED
  BY <1>3, <1>4, <1>5, WrittenProperties DEF Handled, Joins, Lost, Refused, Runs, Opens

(* A command of a list.                                                    *)
LEMMA StepsTypes ==
    ASSUME QueueTypes, SendingTypes, mpc = "list", NEW m, Steps(m)
    PROVE  QueueTypes' /\ SendingTypes'
<1>1. PICK l \in Read(m) :
         \E r \in Written(l, TRUE) :
            /\ running' = IF ListOutcome(l) = "error" THEN <<>> ELSE Tail(running)
            /\ recvQueue' = recvQueue
            /\ Continue(sending.client, sending.peer,
                        IF ListOutcome(l) = "error" THEN r ELSE r \o sending.replies)
  BY DEF Steps
<1>2. PICK r \in Written(l, TRUE) :
            /\ running' = IF ListOutcome(l) = "error" THEN <<>> ELSE Tail(running)
            /\ recvQueue' = recvQueue
            /\ Continue(sending.client, sending.peer,
                        IF ListOutcome(l) = "error" THEN r ELSE r \o sending.replies)
  BY <1>1
<1>3. r \in Seq(Replies)
  BY WrittenProperties
<1>4. PICK s \in Seq(Replies) : s = sending.replies /\ Len(s) = 1
  BY DEF SendingTypes, Sendings
<1>5. r \o s \in Seq(Replies) /\ r \o s # <<>>
  BY <1>3, <1>4
<1>6. PICK w \in Seq(Replies) :
         /\ w = IF ListOutcome(l) = "error" THEN r ELSE r \o s
         /\ ListOutcome(l) # "error" => w # <<>>
  BY <1>3, <1>5
<1>7. running' \in Seq(Message) /\ (running' # <<>> => w # <<>>)
  <2>1. running \in Seq(Message) /\ running # <<>>
    BY DEF QueueTypes, SendingTypes
  <2>2. Tail(running) \in Seq(Message) /\ <<>> \in Seq(Message)
    BY <2>1
  <2> QED
    BY <1>2, <1>6, <2>2
<1>8. recvQueue' \in Seq(Message)
  BY <1>2 DEF QueueTypes
<1>9. Continue(sending.client, sending.peer, w)
  BY <1>2, <1>4, <1>6
<1>10. PICK client \in IDs \cup {0}, peer \in Peers \cup {NoPeer} :
          client = sending.client /\ peer = sending.peer
  BY DEF SendingTypes, Sendings
<1> QED
  BY <1>7, <1>8, <1>9, <1>10, ContinueTypes

(* The messages of all clients in any order.                               *)
LEMMA GenerateTypes ==
    ASSUME MapInv, EntryTypes, NEW order \in SetToSeqs(Buffered)
    PROVE  FlattenSeq([i \in DOMAIN order |-> Messages(order[i])]) \in Seq(Message)
<1>1. PICK n \in Nat : n = Cardinality(Buffered)
  BY FiniteBuffered
<1>2. order \in [1..n -> Buffered]
  BY <1>1 DEF SetToSeqs
<1>3. PICK all : all = [i \in DOMAIN order |-> Messages(order[i])]
  OBVIOUS
<1>4. all = [i \in 1..n |-> all[i]] /\ \A i \in 1..n : all[i] = Messages(order[i])
  BY <1>2, <1>3
<1>5. \A i \in 1..n : order[i] \in DOMAIN clientMap
  BY <1>2 DEF Buffered
<1>6. \A i \in 1..n : all[i] \in Seq(Message)
  BY <1>4, <1>5, MessagesTypes
<1>7. all \in Seq(Seq(Message))
  BY <1>4, <1>6
<1> QED
  BY <1>3, <1>7, FlattenSeqProperties

(* m_recvQueue holds messages in every state, and at least one when the    *)
(* main loop handles one.                                                  *)
LEMMA QueueStep == MapInv /\ EntryTypes /\ QueueTypes /\ SendingTypes /\ [Next]_vars
                   => QueueTypes' /\ SendingTypes'
<1> SUFFICES ASSUME MapInv, EntryTypes, QueueTypes, SendingTypes, [Next]_vars
             PROVE  QueueTypes' /\ SendingTypes'
  OBVIOUS
<1>0. ClientsOK(clientMap)
  BY DEF MapInv
<1>1. CASE UNCHANGED <<recvQueue, mpc, running, sending>>
  BY <1>1 DEF QueueTypes, SendingTypes
<1>2. CASE \E ids : /\ recvQueue' = Unviewed(recvQueue, ids) /\ running' = Unviewed(running, ids)
                    /\ UNCHANGED <<mpc, sending>>
  <2>1. PICK ids : /\ recvQueue' = Unviewed(recvQueue, ids) /\ running' = Unviewed(running, ids)
                   /\ UNCHANGED <<mpc, sending>>
    BY <1>2
  <2>2. recvQueue \in Seq(Message) /\ running \in Seq(Message)
    BY DEF QueueTypes
  <2>3. /\ recvQueue' \in Seq(Message) /\ Len(recvQueue') = Len(recvQueue)
        /\ running' \in Seq(Message) /\ Len(running') = Len(running)
    BY <2>1, <2>2, UnviewedProperties
  <2>4. (recvQueue # <<>> => recvQueue' # <<>>) /\ (running # <<>> <=> running' # <<>>)
    BY <2>2, <2>3
  <2> QED
    BY <2>1, <2>3, <2>4 DEF QueueTypes, SendingTypes
<1>3. CASE Generate
  <2>1. PICK order \in SetToSeqs(Buffered) :
           recvQueue' = recvQueue \o FlattenSeq([i \in DOMAIN order |-> Messages(order[i])])
    BY <1>3 DEF Generate
  <2>2. PICK new \in Seq(Message) : recvQueue' = recvQueue \o new
    BY <2>1, GenerateTypes
  <2>3. recvQueue' \in Seq(Message)
    BY <2>2 DEF QueueTypes
  <2> QED
    BY <1>3, <2>3 DEF Generate, mainVars, QueueTypes, SendingTypes
<1>4. CASE BeginUpdate
  BY <1>4 DEF BeginUpdate, QueueTypes, SendingTypes
<1>5. CASE FindClient
  BY <1>5 DEF FindClient, QueueTypes, SendingTypes
<1>6. CASE Terminate
  BY <1>6 DEF Terminate, QueueTypes, SendingTypes
<1>7. CASE RunMessage
  <2>1. PICK m : m = Head(recvQueue)
    OBVIOUS
  <2>2. Terminate \/ Handled(m)
    BY <1>0, <1>7, <2>1, HandledMessage
  <2>3. mpc = "run"
    BY <1>7 DEF RunMessage
  <2> QED
    BY <1>6, <2>1, <2>2, <2>3, HandledTypes
<1>8. CASE RunListed
  <2>1. PICK m : m = Head(running)
    OBVIOUS
  <2>2. Terminate \/ Steps(m)
    BY <1>0, <1>8, <2>1, HandledListed
  <2>3. mpc = "list"
    BY <1>8 DEF RunListed
  <2> QED
    BY <1>6, <2>2, <2>3, StepsTypes
<1>9. CASE Write /\ ~Terminate
  <2>1. PICK fd : fd = clientMap[sending.client].socket
    OBVIOUS
  <2>2. /\ sending.client \in DOMAIN clientMap /\ mpc' = "send" /\ mpc = "write"
        /\ sending' = [sending EXCEPT !.fd = fd, !.to = IF fd = 0 THEN NoPeer ELSE file[fd]]
        /\ UNCHANGED <<recvQueue, running>>
    BY <1>9, <2>1 DEF Write
  <2>3. fd \in Fds \cup {0}
    BY <2>1, <2>2 DEF MapInv, ClientsOK, IsClient
  <2>4. PICK to \in Peers \cup {NoPeer} : to = IF fd = 0 THEN NoPeer ELSE file[fd]
    BY <2>3 DEF MapInv, FilesOK
  <2>5. PICK s \in Sendings : s = sending
    BY DEF SendingTypes
  <2>6. PICK u : u = [s EXCEPT !.fd = fd]
    OBVIOUS
  <2>7. u \in Sendings /\ u.replies = s.replies
    BY <2>3, <2>6 DEF Sendings
  <2>8. PICK v : v = [u EXCEPT !.to = to]
    OBVIOUS
  <2>9. v \in Sendings /\ v.replies = s.replies
    BY <2>4, <2>7, <2>8 DEF Sendings
  <2>10. sending' = v
    BY <2>2, <2>4, <2>5, <2>6, <2>8
  <2> QED
    BY <2>2, <2>5, <2>9, <2>10 DEF QueueTypes, SendingTypes
<1>10. CASE SendReply /\ ~Terminate
  <2>1. PICK s \in Seq(Replies) : s = sending.replies
    BY DEF SendingTypes, Sendings
  <2>2. /\ mpc = "send" /\ UNCHANGED <<recvQueue, running>>
        /\ Continue(sending.client, sending.peer, Tail(s))
    BY <1>10, <2>1 DEF SendReply
  <2>3. s # <<>> /\ (running # <<>> => Len(s) > 1)
    BY <2>1, <2>2 DEF SendingTypes
  <2>4. Tail(s) \in Seq(Replies) /\ (running' # <<>> => Tail(s) # <<>>)
    <3>1. Tail(s) \in Seq(Replies) /\ Len(Tail(s)) = Len(s) - 1
      BY <2>3, TailFrontProperties
    <3>2. Len(s) > 1 => Tail(s) # <<>>
      <4>1. PICK n \in Nat : n = Len(s) /\ (n > 1 => n - 1 # 0)
        OBVIOUS
      <4>2. Len(<<>>) = 0
        OBVIOUS
      <4> QED
        BY <3>1, <4>1, <4>2
    <3> QED
      BY <2>2, <2>3, <3>1, <3>2
  <2>5. PICK client \in IDs \cup {0}, peer \in Peers \cup {NoPeer} :
           client = sending.client /\ peer = sending.peer
    BY DEF SendingTypes, Sendings
  <2>6. recvQueue' \in Seq(Message) /\ running' \in Seq(Message)
    BY <2>2 DEF QueueTypes
  <2> QED
    BY <2>2, <2>4, <2>5, <2>6, ContinueTypes
<1> QED
  BY <1>1, <1>2, <1>3, <1>4, <1>5, <1>6, <1>7, <1>8, <1>9, <1>10
     DEF Next, Environment, Connect, SendLine, CutLine, SendRest, Leave, Reset, Thread, HandleEvent,
         CloseClient, Receive, BeginAccept, AcceptOne, EndAccept, BeginGenerate, Handle, vars, mainVars
-----------------------------------------------------------------------------
(* What is read joins a Buffer.                                            *)
LEMMA EntryReceive ==
    ASSUME MapInv, EntryTypes, SentTypes, NEW e \in EventSet, NEW later, Receive(e, later)
    PROVE  EntryTypes'
<1>1. CASE clientMap' = clientMap
  BY <1>1 DEF EntryTypes, EntriesOK, EntryOK
<1>2. CASE clientMap' # clientMap
  <2>1. PICK p, id : p = file[e.fd] /\ id = (CHOOSE i \in Of(e.fd) : TRUE)
    OBVIOUS
  <2>2. /\ Of(e.fd) # {} /\ p # NoPeer /\ net[p] # <<>>
        /\ clientMap' = [clientMap EXCEPT ![id].buffer = @ \o SubSeq(net[p], 1, Received(p)),
                                          ![id].cmdList = Unviewed(@, {id})]
    BY <1>2, <2>1 DEF Receive
  <2>3. id \in DOMAIN clientMap /\ clientMap[id].socket = e.fd
    BY <2>1, <2>2 DEF Of
  <2>4. e.fd \in Fds
    <3>1. e.fd \in Fds \cup {ListenFd}
      BY DEF EventSet
    <3>2. e.fd \in Fds \cup {0}
      BY <2>3 DEF MapInv, ClientsOK, IsClient
    <3> QED
      BY <3>1, <3>2, MpdServerAssumption
  <2>5. p \in Peers
    BY <2>1, <2>2, <2>4 DEF MapInv, FilesOK
  <2>6. PICK b \in Seq(Piece) : b = clientMap[id].buffer \o SubSeq(net[p], 1, Received(p))
    <3>1. clientMap[id].buffer \in Seq(Piece)
      BY <2>3 DEF EntryTypes, EntriesOK, EntryOK
    <3>2. PICK s \in Seq(Piece) : s = net[p]
      BY <2>5 DEF SentTypes
    <3>3. PICK n \in Nat : n = Len(s)
      OBVIOUS
    <3>4. SubSeq(s, 1, n) \in Seq(Piece)
      BY <3>3
    <3>5. PICK u \in Seq(Piece) : u = SubSeq(net[p], 1, Received(p))
      BY <3>2, <3>3, <3>4 DEF Received
    <3>6. PICK v \in Seq(Piece) : v = clientMap[id].buffer
      BY <3>1
    <3>7. v \o u \in Seq(Piece)
      OBVIOUS
    <3> QED
      BY <3>5, <3>6, <3>7
  <2>7. PICK c \in Seq(Message) : c = Unviewed(clientMap[id].cmdList, {id})
    BY <2>3, UnviewedProperties DEF EntryTypes, EntriesOK, EntryOK
  <2>8. clientMap' = [clientMap EXCEPT ![id].buffer = b, ![id].cmdList = c]
    BY <2>2, <2>6, <2>7
  <2>9. PICK map : map = clientMap'
    OBVIOUS
  <2>10. EntriesOK(map)
    BY <2>3, <2>8, <2>9, EntryChanges DEF MapInv
  <2>11. EntriesOK(clientMap')
    BY <2>9, <2>10
  <2> QED
    BY <2>11 DEF EntryTypes, EntriesOK, EntryOK
<1> QED
  BY <1>1, <1>2

(* What the main loop does leaves the entries of m_clientMap what they are. *)
LEMMA EntryMain ==
    ASSUME MapInv, EntryTypes, QueueTypes, SendingTypes, Handle
    PROVE  EntryTypes'
<1>1. CASE clientMap' = clientMap
  BY <1>1 DEF EntryTypes, EntriesOK, EntryOK
<1>2. ClientsOK(clientMap)
  BY DEF MapInv
<1>3. ASSUME NEW id \in IDs PROVE Client(id).inCmdList \in BOOLEAN /\ Client(id).cmdList \in Seq(Message)
  BY FreshEntry DEF Client, EntryTypes, EntriesOK, EntryOK
<1>4. ASSUME NEW m \in Message, NEW l \in BOOLEAN, NEW c \in Seq(Message), Sets(m.client, l, c)
      PROVE  EntryTypes'
  <2>1. PICK id \in IDs : id = m.client
    BY MessageFields
  <2> QED
    BY <1>2, <1>4, <2>1, EntrySets
<1>5. \A m \in Message : m.client \in IDs
  BY MessageFields
<1>6. CASE FindClient
  <2>1. PICK m \in Message : m = Head(recvQueue)
    BY <1>6 DEF FindClient, QueueTypes
  <2>2. Sets(m.client, Client(m.client).inCmdList, Client(m.client).cmdList)
    BY <1>2, <1>6, <2>1, FindMoves
  <2> QED
    BY <1>3, <1>4, <1>5, <2>2
<1>7. CASE RunMessage /\ clientMap' # clientMap
  <2>1. PICK m \in Message : m = Head(recvQueue)
    BY <1>7 DEF RunMessage, QueueTypes
  <2>2. Handled(m)
    BY <1>2, <1>7, <2>1, HandledMessage DEF Terminate
  <2>3. PICK b \in BOOLEAN, s \in Seq(Message) : b = Client(m.client).inCmdList /\ s = Client(m.client).cmdList
    BY <1>3, <1>5
  <2>4. Append(s, m) \in Seq(Message) /\ <<>> \in Seq(Message)
    OBVIOUS
  <2>5. \/ Sets(m.client, b, Append(s, m)) \/ Sets(m.client, b, s)
        \/ Sets(m.client, TRUE, s) \/ Sets(m.client, FALSE, <<>>)
    BY <1>7, <2>2, <2>3 DEF Handled, Joins, Lost, Refused, Runs, Opens, ClosesList, Finds
  <2> QED
    BY <1>4, <2>4, <2>5
<1>8. CASE RunListed /\ clientMap' # clientMap
  <2>1. PICK m : m = Head(running)
    OBVIOUS
  <2>2. Steps(m)
    BY <1>2, <1>8, <2>1, HandledListed DEF Terminate
  <2>3. m \in Message
    BY <1>8, <2>1 DEF RunListed, QueueTypes, SendingTypes
  <2>4. PICK b \in BOOLEAN, s \in Seq(Message) : b = Client(m.client).inCmdList /\ s = Client(m.client).cmdList
    BY <1>3, <1>5, <2>3
  <2>5. PICK l : Sets(m.client, b \/ IsBegin(l), s)
    BY <2>2, <2>4 DEF Steps
  <2>6. (b \/ IsBegin(l)) \in BOOLEAN
    OBVIOUS
  <2> QED
    BY <1>4, <2>3, <2>5, <2>6
<1> QED
  BY <1>1, <1>6, <1>7, <1>8 DEF Handle, Write, SendReply, Terminate

(* So does every step of either thread.                                    *)
LEMMA EntryStep == /\ PeersInv /\ EventsInv /\ MapInv /\ SentTypes /\ QueueTypes /\ SendingTypes
                   /\ EntryTypes /\ [Next]_vars
                   => EntryTypes'
<1> SUFFICES ASSUME PeersInv, EventsInv, MapInv, SentTypes, QueueTypes, SendingTypes, EntryTypes,
                    [Next]_vars
             PROVE  EntryTypes'
  OBVIOUS
<1>0. ClientsOK(clientMap)
  BY DEF MapInv
<1>1. CASE clientMap' = clientMap
  BY <1>1 DEF EntryTypes, EntriesOK, EntryOK
<1>2. CASE HandleEvent /\ clientMap' # clientMap
  <2>1. PICK all : all = Fetched
    OBVIOUS
  <2>2. PICK e, later : /\ all # <<>> /\ e = Head(all)
                        /\ CloseClient(e, later) \/ Receive(e, later) \/ BeginAccept(e, later)
    BY <1>2, <2>1 DEF HandleEvent
  <2>3. e \in EventSet
    <3>1. all \in Seq(EventSet)
      BY <2>1, FetchedOK
    <3> QED
      BY <2>2, <3>1
  <2>4. CASE CloseClient(e, later)
    <3>1. clientMap' = [id \in DOMAIN clientMap \ Of(e.fd) |-> clientMap[id]]
      BY <2>4 DEF CloseClient
    <3> QED
      BY <3>1 DEF EntryTypes, EntriesOK, EntryOK
  <2>5. CASE Receive(e, later)
    BY <2>3, <2>5, EntryReceive
  <2> QED
    BY <1>2, <2>2, <2>4, <2>5 DEF BeginAccept
<1>3. CASE AcceptOne /\ clientMap' # clientMap
  <2>1. PICK fd \in Fds : FreeIDs # {} /\ clientMap' = WithClient(NextID, Fresh(fd))
    BY <1>3 DEF AcceptOne, SpinForID, Greet
  <2>2. PICK id, c : id = NextID /\ c = Fresh(fd)
    OBVIOUS
  <2>3. id \in IDs
    BY <2>1, <2>2, NextIDFree DEF MapInv, FreeIDs
  <2>4. IsClient(c) /\ EntryOK(c)
    BY <2>2, FreshProperties, FreshEntry
  <2>5. EntriesOK(WithClient(id, c))
    BY <1>0, <2>3, <2>4, EntryMade
  <2>6. EntriesOK(clientMap')
    BY <2>1, <2>2, <2>5
  <2> QED
    BY <2>6 DEF EntryTypes, EntriesOK, EntryOK
<1>4. CASE Generate
  <2>1. clientMap' = [id \in DOMAIN clientMap |-> [clientMap[id] EXCEPT !.buffer = Remainder(@)]]
    BY <1>4 DEF Generate
  <2>2. ASSUME NEW id \in DOMAIN clientMap PROVE EntryOK(clientMap'[id])
    <3>1. PICK r : r = clientMap[id]
      OBVIOUS
    <3>2. EntryOK(r) /\ r = [socket |-> r.socket, buffer |-> r.buffer, inCmdList |-> r.inCmdList,
                             cmdList |-> r.cmdList]
      BY <1>0, <3>1 DEF EntryTypes, EntriesOK, ClientsOK, IsClient
    <3>3. PICK b \in Seq(Piece) : b = Remainder(r.buffer)
      BY <3>2, UnendedProperties DEF EntryOK, Remainder
    <3>4. clientMap'[id] = [r EXCEPT !.buffer = b]
      BY <2>1, <3>1, <3>3
    <3>5. EntryOK([r EXCEPT !.buffer = b])
      BY <3>2 DEF EntryOK
    <3> QED
      BY <3>4, <3>5
  <2>3. EntriesOK(clientMap')
    BY <2>1, <2>2 DEF EntryTypes, EntriesOK
  <2> QED
    BY <2>3 DEF EntryTypes, EntriesOK, EntryOK
<1>5. CASE Handle
  BY <1>5, EntryMain
<1> QED
  BY <1>1, <1>2, <1>3, <1>4, <1>5
     DEF Next, Environment, Connect, SendLine, CutLine, SendRest, Leave, Reset, Thread,
         EndAccept, BeginGenerate, BeginUpdate, vars
-----------------------------------------------------------------------------
(* What runs joins what ran.                                               *)
LEMMA RanTypes ==
    ASSUME HistoryTypes, NEW m \in Message, Ran(m)
    PROVE  HistoryTypes'
<1>1. PICK x \in Entries : x = Entry(m)
  <2>1. PICK n \in 0..MaxLines : n = m.n
    BY MessageFields
  <2>2. PICK part \in {"whole", "head"} : part = IF m.part = "head" THEN "head" ELSE "whole"
    OBVIOUS
  <2> QED
    BY <2>1, <2>2 DEF Entry, Entries
<1>2. ASSUME NEW p \in Peers PROVE ran[p] \in Seq(Entries) /\ Append(ran[p], x) \in Seq(Entries)
  <2>1. PICK s \in Seq(Entries) : s = ran[p]
    BY DEF HistoryTypes
  <2>2. Append(s, x) \in Seq(Entries)
    OBVIOUS
  <2> QED
    BY <2>1, <2>2
<1>3. ran' = [p \in Peers |-> IF p # m.peer \/ Again(p, m) THEN ran[p] ELSE Append(ran[p], x)]
  BY <1>1 DEF Ran
<1> QED
  BY <1>2, <1>3 DEF HistoryTypes

(* What ran was sent.                                                      *)
LEMMA HistoryStep == /\ MapInv /\ QueueTypes /\ SendingTypes /\ HistoryTypes /\ [Next]_vars
                     => HistoryTypes'
<1> SUFFICES ASSUME MapInv, QueueTypes, SendingTypes, HistoryTypes, [Next]_vars PROVE HistoryTypes'
  OBVIOUS
<1>0. ClientsOK(clientMap)
  BY DEF MapInv
<1>1. CASE ran' = ran
  BY <1>1 DEF HistoryTypes
<1>2. CASE RunMessage /\ ran' # ran
  <2>1. PICK m \in Message : m = Head(recvQueue)
    BY <1>2 DEF RunMessage, QueueTypes
  <2>2. Handled(m)
    BY <1>0, <1>2, <2>1, HandledMessage DEF Terminate
  <2>3. Ran(m)
    BY <1>2, <2>2 DEF Handled, Joins, Lost, Refused, Runs, Opens, ClosesList
  <2> QED
    BY <2>3, RanTypes
<1>3. CASE RunListed /\ ran' # ran
  <2>1. PICK m \in Message : m = Head(running)
    BY <1>3 DEF RunListed, QueueTypes, SendingTypes
  <2>2. Steps(m)
    BY <1>0, <1>3, <2>1, HandledListed DEF Terminate
  <2>3. Ran(m)
    BY <2>2 DEF Steps
  <2> QED
    BY <2>3, RanTypes
<1> QED
  BY <1>1, <1>2, <1>3
     DEF Next, Environment, Connect, SendLine, CutLine, SendRest, Leave, Reset, Thread, HandleEvent,
         CloseClient, Receive, BeginAccept, AcceptOne, EndAccept, BeginGenerate, Generate,
         BeginUpdate, Handle, FindClient, Write, SendReply, Terminate, vars

(* Counting answers stays with numbers.                                    *)
LEMMA DueStep == DueTypes /\ [Next]_vars => DueTypes'
<1> SUFFICES ASSUME DueTypes, [Next]_vars PROVE DueTypes'
  OBVIOUS
<1>1. CASE due' = due
  BY <1>1 DEF DueTypes
<1>2. ASSUME NEW p \in Peers, NEW l \in Lines, SendLine(p, l) PROVE DueTypes'
  <2>1. PICK n \in Int : n = due[p]
    BY DEF DueTypes
  <2>2. PICK o \in Int : o = Owed(p, l)
    BY DEF Owed
  <2>3. due' = [due EXCEPT ![p] = n + o]
    BY <1>2, <2>1, <2>2 DEF SendLine
  <2> QED
    BY <2>3 DEF DueTypes
<1>3. CASE SendReply /\ due' # due
  <2>1. \A p \in Peers : due'[p] = due[p] - 1 \/ due'[p] = due[p]
    BY <1>3 DEF SendReply
  <2>2. due' = [p \in Peers |-> due'[p]]
    BY <1>3 DEF SendReply
  <2>3. \A p \in Peers : due'[p] \in Int
    BY <2>1 DEF DueTypes
  <2> QED
    BY <2>2, <2>3 DEF DueTypes
<1> QED
  BY <1>1, <1>2, <1>3
     DEF Next, Environment, Connect, CutLine, SendRest, Leave, Reset, Thread, HandleEvent,
         CloseClient, Receive, BeginAccept, AcceptOne, EndAccept, BeginGenerate, Generate,
         BeginUpdate, Handle, FindClient, RunMessage, RunListed, Write, vars, peerVars
-----------------------------------------------------------------------------
(* The messages of a list are its client's.                                *)
OwnList(map) == \A id \in DOMAIN map : \A i \in 1..Len(map[id].cmdList) : map[id].cmdList[i].client = id

(* Those of the list that runs are of the client that gets its replies.    *)
OwnInv ==
    /\ OwnList(clientMap)
    /\ \A i \in 1..Len(running) : running[i].client = sending.client

(* An entry that is made or changed with its client's messages.            *)
LEMMA OwnSets ==
    ASSUME ClientsOK(clientMap), OwnInv, NEW id, NEW l, NEW c, Sets(id, l, c),
           \A i \in 1..Len(c) : c[i].client = id
    PROVE  OwnList(clientMap')
<1>1. PICK d : d = Relisted(id, l, c)
  OBVIOUS
<1>2. IsClient(d) /\ d.cmdList = c /\ clientMap' = WithClient(id, d)
  BY <1>1, ClientProperties DEF Sets, Relisted
<1>3. /\ DOMAIN clientMap' = DOMAIN clientMap \cup {id} /\ clientMap'[id] = d
      /\ \A i \in DOMAIN clientMap \ {id} : clientMap'[i] = clientMap[i]
  BY <1>2 DEF WithClient
<1> QED
  BY <1>2, <1>3 DEF OwnInv, OwnList

(* The lists of other steps.                                               *)
LEMMA OwnMain ==
    ASSUME MapInv, EntryTypes, QueueTypes, SendingTypes, OwnInv, Handle
    PROVE  OwnInv'
<1>0. ClientsOK(clientMap)
  BY DEF MapInv
<1>1. ASSUME NEW id PROVE /\ Client(id).cmdList \in Seq(Message)
                          /\ \A i \in 1..Len(Client(id).cmdList) : Client(id).cmdList[i].client = id
  <2>1. CASE id \in DOMAIN clientMap
    BY <2>1 DEF Client, OwnInv, OwnList, EntryTypes, EntriesOK, EntryOK
  <2>2. CASE id \notin DOMAIN clientMap
    <3>1. Client(id).cmdList = <<>>
      BY <2>2 DEF Client, Fresh
    <3> QED
      BY <3>1
  <2> QED
    BY <2>1, <2>2
<1>2. clientMap' = clientMap => OwnList(clientMap')
  BY DEF OwnInv, OwnList
<1>3. OwnList(clientMap')
  <2>1. CASE FindClient
    BY <1>0, <1>1, <2>1, FindMoves, OwnSets
  <2>2. CASE RunMessage /\ clientMap' # clientMap
    <3>1. PICK m \in Message : m = Head(recvQueue)
      BY <2>2 DEF RunMessage, QueueTypes
    <3>2. Handled(m)
      BY <1>0, <2>2, <3>1, HandledMessage DEF Terminate
    <3>3. PICK s \in Seq(Message) : s = Client(m.client).cmdList
      BY <1>1
    <3>9. Append(s, m) \in Seq(Message)
      OBVIOUS
    <3>4. PICK u \in Seq(Message) : u = Append(s, m)
      BY <3>9
    <3>5. \A i \in 1..Len(s) : s[i].client = m.client
      BY <1>1, <3>3
    <3>6. \A i \in 1..Len(u) : u[i].client = m.client
      BY <3>4, <3>5
    <3>7. \E b : \/ Sets(m.client, b, u) \/ Sets(m.client, b, s) \/ Sets(m.client, b, <<>>)
      BY <2>2, <3>2, <3>3, <3>4 DEF Handled, Joins, Lost, Refused, Runs, Opens, ClosesList, Finds
    <3>8. Len(<<>>) = 0
      OBVIOUS
    <3> QED
      BY <1>0, <3>5, <3>6, <3>7, <3>8, OwnSets
  <2>3. CASE RunListed /\ clientMap' # clientMap
    <3>1. PICK m : m = Head(running)
      OBVIOUS
    <3>2. Steps(m)
      BY <1>0, <2>3, <3>1, HandledListed DEF Terminate
    <3> QED
      BY <1>0, <1>1, <3>2, OwnSets DEF Steps
  <2> QED
    BY <1>2, <2>1, <2>2, <2>3 DEF Handle, Write, SendReply, Terminate, OwnInv
<1>4. \A i \in 1..Len(running') : running'[i].client = sending'.client
  <2>1. CASE UNCHANGED <<running, sending>>
    BY <2>1 DEF OwnInv
  <2>2. CASE running' = <<>>
    BY <2>2
  <2>3. CASE \E peer, replies : Continue(sending.client, peer, replies) /\ replies # <<>>
                              /\ running # <<>> /\ running' \in {running, Tail(running)}
    <3>1. sending'.client = sending.client
      BY <2>3 DEF Continue
    <3>2. PICK s \in Seq(Message) : s = running /\ s # <<>>
      BY <2>3 DEF QueueTypes
    <3>3. \A i \in 1..Len(s) : s[i].client = sending.client
      BY <3>2 DEF OwnInv
    <3>4. \A i \in 1..Len(Tail(s)) : Tail(s)[i] = s[i + 1] /\ i + 1 \in 1..Len(s)
      BY <3>2
    <3>5. \A i \in 1..Len(Tail(s)) : Tail(s)[i].client = sending.client
      BY <3>3, <3>4
    <3> QED
      BY <2>3, <3>1, <3>2, <3>3, <3>5
  <2>4. CASE RunMessage
    <3>1. PICK m \in Message : m = Head(recvQueue)
      BY <2>4 DEF RunMessage, QueueTypes
    <3>2. CASE Terminate
      BY <2>1, <3>2 DEF Terminate
    <3>3. CASE ClosesList(m)
      <4>1. running' = Client(m.client).cmdList /\ Continue(m.client, m.peer, <<"OK">>)
        BY <3>3 DEF ClosesList
      <4>2. sending'.client = m.client
        BY <4>1 DEF Continue
      <4> QED
        BY <1>1, <4>1, <4>2
    <3>4. CASE Handled(m) /\ ~ClosesList(m)
      <4>1. running' = <<>>
        BY <3>4 DEF Handled, Joins, Lost, Refused, Runs, Opens, Done
      <4> QED
        BY <2>2, <4>1
    <3> QED
      BY <1>0, <2>4, <3>1, <3>2, <3>3, <3>4, HandledMessage
  <2>5. CASE RunListed
    <3>1. PICK m : m = Head(running)
      OBVIOUS
    <3>2. CASE Terminate
      BY <2>1, <3>2 DEF Terminate
    <3>3. CASE Steps(m)
      <4>1. PICK l, r : /\ running' = IF ListOutcome(l) = "error" THEN <<>> ELSE Tail(running)
                        /\ Continue(sending.client, sending.peer,
                                    IF ListOutcome(l) = "error" THEN r ELSE r \o sending.replies)
                        /\ r \in Written(l, TRUE)
        BY <3>3 DEF Steps
      <4>2. CASE ListOutcome(l) # "error"
        <5>1. PICK u \in Seq(Replies), v \in Seq(Replies) : u = r /\ v = sending.replies /\ Len(v) = 1
          BY <2>5, <4>1, WrittenProperties DEF RunListed, SendingTypes, Sendings
        <5>2. PICK w : w = u \o v
          OBVIOUS
        <5>3. w # <<>>
          BY <5>1, <5>2
        <5>4. Continue(sending.client, sending.peer, w) /\ running' = Tail(running) /\ running # <<>>
          BY <2>5, <4>1, <4>2, <5>1, <5>2 DEF RunListed, SendingTypes
        <5> QED
          BY <2>3, <5>3, <5>4
      <4> QED
        BY <2>2, <4>1, <4>2
    <3> QED
      BY <1>0, <2>5, <3>1, <3>2, <3>3, HandledListed
  <2>6. CASE SendReply /\ ~Terminate
    <3>1. PICK s \in Seq(Replies) : s = sending.replies
      BY DEF SendingTypes, Sendings
    <3>2. PICK u : u = Tail(s)
      OBVIOUS
    <3>3. Continue(sending.client, sending.peer, u) /\ running' = running /\ mpc = "send"
      BY <2>6, <3>1, <3>2 DEF SendReply
    <3>4. running # <<>> => u # <<>>
      <4>1. s # <<>> /\ (running # <<>> => Len(s) > 1)
        BY <3>1, <3>3 DEF SendingTypes
      <4>2. Len(u) = Len(s) - 1
        BY <3>2, <4>1, TailFrontProperties
      <4>3. PICK n \in Nat : n = Len(s) /\ (n > 1 => n - 1 # 0)
        OBVIOUS
      <4>4. Len(<<>>) = 0
        OBVIOUS
      <4> QED
        BY <4>1, <4>2, <4>3, <4>4
    <3> QED
      BY <2>2, <2>3, <3>3, <3>4
  <2>7. CASE Write
    <3>1. running' = running /\ (sending' = sending \/ \E fd, to : sending' = [sending EXCEPT !.fd = fd, !.to = to])
      BY <2>7 DEF Write, Terminate
    <3>2. PICK s \in Sendings : s = sending
      BY DEF SendingTypes
    <3>3. ASSUME NEW fd, NEW to PROVE [s EXCEPT !.fd = fd, !.to = to].client = s.client
      <4>1. PICK u : u = [s EXCEPT !.fd = fd]
        OBVIOUS
      <4>2. u.client = s.client /\ u = [client |-> u.client, peer |-> u.peer, replies |-> u.replies,
                                       fd |-> u.fd, to |-> u.to]
        BY <4>1 DEF Sendings
      <4>3. [u EXCEPT !.to = to].client = u.client
        BY <4>2
      <4> QED
        BY <4>1, <4>2, <4>3
    <3>4. sending'.client = sending.client
      <4>1. CASE sending' = sending
        BY <4>1
      <4>2. CASE sending' # sending
        <5>1. PICK fd, to : sending' = [s EXCEPT !.fd = fd, !.to = to]
          BY <3>1, <3>2, <4>2
        <5>2. [s EXCEPT !.fd = fd, !.to = to].client = s.client
          BY <3>3
        <5> QED
          BY <3>2, <5>1, <5>2
      <4> QED
        BY <4>1, <4>2
    <3> QED
      BY <3>1, <3>4 DEF OwnInv
  <2> QED
    BY <2>1, <2>4, <2>5, <2>6, <2>7 DEF Handle, FindClient, SendReply, Terminate
<1> QED
  BY <1>3, <1>4 DEF OwnInv

(* Every step leaves the lists their clients'.                             *)
LEMMA OwnStep == /\ PeersInv /\ EventsInv /\ MapInv /\ EntryTypes /\ QueueTypes /\ SendingTypes
                 /\ OwnInv /\ [Next]_vars
                 => OwnInv'
<1> SUFFICES ASSUME PeersInv, EventsInv, MapInv, EntryTypes, QueueTypes, SendingTypes, OwnInv, [Next]_vars
             PROVE  OwnInv'
  OBVIOUS
<1>0. ClientsOK(clientMap)
  BY DEF MapInv
<1>1. CASE UNCHANGED <<clientMap, running, sending>>
  BY <1>1 DEF OwnInv, OwnList
<1>2. CASE Handle
  BY <1>2, OwnMain
<1>3. CASE AcceptOne /\ clientMap' # clientMap
  <2>1. PICK fd \in Fds : clientMap' = WithClient(NextID, Fresh(fd)) /\ UNCHANGED <<running, sending>>
    BY <1>3 DEF AcceptOne, SpinForID, Greet, mainVars
  <2>2. PICK id, d : id = NextID /\ d = Fresh(fd)
    OBVIOUS
  <2>3. d.cmdList = <<>> /\ Len(<<>>) = 0
    BY <2>2 DEF Fresh
  <2>4. /\ DOMAIN clientMap' = DOMAIN clientMap \cup {id} /\ clientMap'[id] = d
        /\ \A i \in DOMAIN clientMap \ {id} : clientMap'[i] = clientMap[i]
    BY <2>1, <2>2 DEF WithClient
  <2> QED
    BY <2>1, <2>3, <2>4 DEF OwnInv, OwnList
<1>4. CASE Generate
  <2>1. /\ clientMap' = [id \in DOMAIN clientMap |-> [clientMap[id] EXCEPT !.buffer = Remainder(@)]]
        /\ UNCHANGED <<running, sending>>
    BY <1>4 DEF Generate, mainVars
  <2>2. ASSUME NEW id \in DOMAIN clientMap PROVE clientMap'[id].cmdList = clientMap[id].cmdList
    <3>1. PICK r, b : r = clientMap[id] /\ b = Remainder(r.buffer)
      OBVIOUS
    <3>2. r = [socket |-> r.socket, buffer |-> r.buffer, inCmdList |-> r.inCmdList,
               cmdList |-> r.cmdList]
      BY <1>0, <3>1 DEF ClientsOK, IsClient
    <3>3. clientMap'[id] = [r EXCEPT !.buffer = b]
      BY <2>1, <3>1
    <3>4. [r EXCEPT !.buffer = b].cmdList = r.cmdList
      BY <3>2
    <3> QED
      BY <3>1, <3>3, <3>4
  <2>3. DOMAIN clientMap' = DOMAIN clientMap
    BY <2>1
  <2> QED
    BY <2>1, <2>2, <2>3 DEF OwnInv, OwnList
<1>5. ASSUME NEW ids, running' = Unviewed(running, ids), sending' = sending
      PROVE  \A i \in 1..Len(running') : running'[i].client = sending'.client
  <2>1. running \in Seq(Message)
    BY DEF QueueTypes
  <2>2. /\ Len(running') = Len(running)
        /\ \A i \in 1..Len(running) : running'[i].client = running[i].client
    BY <1>5, <2>1, UnviewedProperties
  <2> QED
    BY <1>5, <2>2 DEF OwnInv
<1>6. ASSUME NEW e, NEW later, CloseClient(e, later) PROVE OwnInv'
  <2>1. /\ clientMap' = [id \in DOMAIN clientMap \ Of(e.fd) |-> clientMap[id]]
        /\ running' = Unviewed(running, Of(e.fd)) /\ sending' = sending
    BY <1>6 DEF CloseClient
  <2> QED
    BY <1>5, <2>1 DEF OwnInv, OwnList
<1>7. ASSUME NEW e, NEW later, Receive(e, later), clientMap' # clientMap PROVE OwnInv'
  <2>1. PICK p, id : p = file[e.fd] /\ id = (CHOOSE i \in Of(e.fd) : TRUE)
    OBVIOUS
  <2>2. /\ Of(e.fd) # {} /\ sending' = sending /\ running' = Unviewed(running, {id})
        /\ clientMap' = [clientMap EXCEPT ![id].buffer = @ \o SubSeq(net[p], 1, Received(p)),
                                          ![id].cmdList = Unviewed(@, {id})]
    BY <1>7, <2>1 DEF Receive
  <2>3. id \in DOMAIN clientMap
    BY <2>1, <2>2 DEF Of
  <2>4. PICK b, c : b = clientMap[id].buffer \o SubSeq(net[p], 1, Received(p))
                    /\ c = Unviewed(clientMap[id].cmdList, {id})
    OBVIOUS
  <2>5. PICK r : r = clientMap[id]
    OBVIOUS
  <2>6. r = [socket |-> r.socket, buffer |-> r.buffer, inCmdList |-> r.inCmdList,
             cmdList |-> r.cmdList]
    BY <1>0, <2>3, <2>5 DEF ClientsOK, IsClient
  <2>7. clientMap' = [clientMap EXCEPT ![id].buffer = b, ![id].cmdList = c]
    BY <2>2, <2>4
  <2>8. PICK n : n = clientMap'[id] /\ n = [[r EXCEPT !.buffer = b] EXCEPT !.cmdList = c]
    BY <1>0, <2>3, <2>5, <2>7 DEF ClientsOK
  <2>9. n.cmdList = c
    BY <2>6, <2>8
  <2>10. /\ DOMAIN clientMap' = DOMAIN clientMap
         /\ \A i \in DOMAIN clientMap \ {id} : clientMap'[i] = clientMap[i]
    BY <1>0, <2>7 DEF ClientsOK
  <2>11. clientMap[id].cmdList \in Seq(Message)
    BY <2>3 DEF EntryTypes, EntriesOK, EntryOK
  <2>12. Len(c) = Len(clientMap[id].cmdList)
         /\ \A i \in 1..Len(clientMap[id].cmdList) : c[i].client = clientMap[id].cmdList[i].client
    BY <2>4, <2>11, UnviewedProperties
  <2>14. \A i \in 1..Len(c) : c[i].client = id
    BY <2>3, <2>12 DEF OwnInv, OwnList
  <2>13. OwnList(clientMap')
    <3>1. ASSUME NEW k \in DOMAIN clientMap'
          PROVE  \A i \in 1..Len(clientMap'[k].cmdList) : clientMap'[k].cmdList[i].client = k
      <4>1. CASE k = id
        BY <2>8, <2>9, <2>14, <4>1
      <4>2. CASE k # id
        BY <2>10, <4>2 DEF OwnInv, OwnList
      <4> QED
        BY <4>1, <4>2
    <3> QED
      BY <3>1 DEF OwnList
  <2> QED
    BY <1>5, <2>2, <2>13 DEF OwnInv
<1>8. ASSUME NEW e, NEW later, Receive(e, later), clientMap' = clientMap PROVE OwnInv'
  <2>1. sending' = sending /\ (running' = running \/ \E ids : running' = Unviewed(running, ids))
    BY <1>8 DEF Receive
  <2>2. OwnList(clientMap')
    BY <1>8 DEF OwnInv
  <2> QED
    BY <1>5, <2>1, <2>2 DEF OwnInv
<1> QED
  BY <1>1, <1>2, <1>3, <1>4, <1>6, <1>7, <1>8
     DEF Next, Environment, Connect, SendLine, CutLine, SendRest, Leave, Reset, Thread, HandleEvent,
         BeginAccept, AcceptOne, EndAccept, BeginGenerate, BeginUpdate, vars, mainVars
-----------------------------------------------------------------------------
(* All the types.                                                          *)
Types ==
    /\ PlaceTypes /\ SentTypes /\ EntryTypes /\ QueueTypes /\ SendingTypes /\ HistoryTypes /\ DueTypes
    /\ OwnInv

(* Nothing is sent and nothing is queued at the start.                     *)
LEMMA TypesInit == Init => Types
<1> SUFFICES ASSUME Init PROVE Types
  OBVIOUS
<1> USE MpdServerAssumption
<1>1. PlaceTypes
  <2>1. 0 \in 0..AcceptBatch
    OBVIOUS
  <2> QED
    BY <2>1 DEF Init, PlaceTypes
<1>2. SentTypes
  BY DEF Init, SentTypes, RestOK
<1>3. EntryTypes
  BY DEF Init, EntryTypes, EntriesOK
<1>4. QueueTypes
  BY DEF Init, QueueTypes
<1>5. SendingTypes
  <2>1. <<>> \in Seq(Replies)
    OBVIOUS
  <2>2. NotSending \in Sendings
    BY <2>1 DEF NotSending, Sendings
  <2> QED
    BY <2>2 DEF Init, SendingTypes
<1>6. HistoryTypes
  BY DEF Init, HistoryTypes
<1>7. DueTypes
  BY DEF Init, DueTypes
<1>8. OwnInv
  BY DEF Init, OwnInv, OwnList
<1> QED
  BY <1>1, <1>2, <1>3, <1>4, <1>5, <1>6, <1>7, <1>8 DEF Types

(* All that the types rest on.                                             *)
Basics == MapInv /\ PeersInv /\ EventsInv /\ Types

(* In every state the map matches the descriptors, a peer is at one place, *)
(* events are about who they should be, and all the types hold.            *)
THEOREM BasicsHold == Spec => []Basics
<1>1. Types /\ MapInv /\ PeersInv /\ EventsInv /\ [Next]_vars => Types'
  BY PlaceStep, SentStep, EntryStep, QueueStep, HistoryStep, DueStep, OwnStep DEF Types
<1> QED
  BY <1>1, TypesInit, MapInit, MapStep, PeersInit, PeersStep, EventsInit, EventsStep, PTL
     DEF Spec, Basics

(* What every variable of the connections may be.                          *)
THEOREM Typed == Spec => []TypeOK
<1>1. Basics => TypeOK
  <2> SUFFICES ASSUME Basics PROVE TypeOK
    OBVIOUS
  <2> USE DEF Basics, Types
  <2>1. /\ status \in [Peers -> Gone \cup {"off", "on"}]
        /\ backlog \in Seq(Peers) /\ file \in [Fds -> Peers \cup {NoPeer}]
    BY DEF PeersInv, PlacesOK, FilesOK, Statuses
  <2>2. net \in [Peers -> Seq(Piece)] /\ sent \in [Peers -> 0..MaxLines]
    BY DEF SentTypes
  <2>3. /\ ready \in Seq(Fds \cup {ListenFd})
        /\ events \in Seq([fd : Fds \cup {ListenFd}, kind : {"accept", "closed", "data"},
                            peer : Peers \cup {NoPeer}])
    BY DEF EventsInv, ReadyOK, EventSet, Kinds
  <2>4. /\ tpc \in {"poll", "accept", "generate", "spin"} /\ accepted \in 0..AcceptBatch
        /\ cutShort \in BOOLEAN
    BY DEF PlaceTypes
  <2>5. DOMAIN clientMap \subseteq IDs /\ clientCounter \in {0} \cup IDs
    BY MpdServerAssumption DEF EntryTypes, EntriesOK, MapInv, CounterOK, IDs
  <2>6. \A id \in DOMAIN clientMap :
           clientMap[id] \in [socket : Fds \cup {0}, buffer : Seq(Piece), inCmdList : BOOLEAN,
                             cmdList : Seq(Message)]
    BY DEF MapInv, ClientsOK, IsClient, EntryTypes, EntriesOK, EntryOK
  <2>7. /\ recvQueue \in Seq(Message) /\ running \in Seq(Message)
        /\ mpc \in {"idle", "find", "run", "list", "write", "send", "terminated"}
    BY DEF QueueTypes
  <2>8. sending \in [client : IDs \cup {0}, peer : Peers \cup {NoPeer},
                    replies : Seq({"data", "OK", "list_OK", "ACK"}),
                    fd : Fds \cup {0}, to : Peers \cup {NoPeer}]
    BY DEF SendingTypes, Sendings, Replies
  <2>9. ran \in [Peers -> Seq(Entries)] /\ due \in [Peers -> Int]
    BY DEF HistoryTypes, DueTypes
  <2> QED
    BY <2>1, <2>2, <2>3, <2>4, <2>5, <2>6, <2>7, <2>8, <2>9 DEF TypeOK
<1> QED
  BY <1>1, BasicsHold, PTL
-----------------------------------------------------------------------------
(* The peers that were accepted.                                           *)
Admitted == {p \in Peers : status[p] # "off" /\ ~Contains(backlog, p)}

(* A client that was, whose socket, if it has one, is that peer's, and who *)
(* has one as long as the peer is connected.                               *)
Genuine(id, p) ==
    /\ id <= clientCounter
    /\ id \in DOMAIN clientMap /\ clientMap[id].socket # 0 => file[clientMap[id].socket] = p
    /\ p \in Peers => /\ p \in Admitted
                      /\ Open(p) # {} => id \in DOMAIN clientMap /\ clientMap[id].socket # 0

(* No ID was given twice.                                                  *)
Few == Connections < ClientAll

(* The messages of a queue are their peers'.                               *)
AllGenuine(ms) == \A i \in 1..Len(ms) : Genuine(ms[i].client, ms[i].peer)

(* The socket that was looked up is its peer's until it is closed.         *)
Reaches(s) ==
    /\ s.peer \notin Peers => s.fd = 0
    /\ s.peer \in Peers => /\ s.fd # 0 => s.to = s.peer
                           /\ Open(s.peer) # {} => s.fd # 0 /\ file[s.fd] = s.peer

(* Until an ID is given twice, every queued message is genuine, and a reply *)
(* that is being written is its sender's.                                  *)
SenderInv ==
    /\ IsFiniteSet(Admitted)
    /\ Few => /\ clientCounter <= Connections
              /\ \A id \in DOMAIN clientMap : id <= clientCounter
              /\ AllGenuine(recvQueue)
              /\ mpc \in {"list", "write", "send"} => Genuine(sending.client, sending.peer)
              /\ mpc = "send" => Reaches(sending)

(* Who is admitted changes when one more is.                               *)
LEMMA AdmittedStep ==
    ASSUME PeersInv, [Next]_vars
    PROVE  \/ Admitted' = Admitted /\ ~AcceptOne
           \/ AcceptOne /\ \E p : p \notin Admitted /\ Admitted' = Admitted \cup {p}
<1>1. status \in [Peers -> Statuses] /\ backlog \in Seq(Peers) /\ Distinct(backlog)
      /\ \A i \in 1..Len(backlog) : status[backlog[i]] # "off"
  BY DEF PeersInv, PlacesOK
<1>2. Ages(status, status')
  BY <1>1, AgesStep
<1>3. \A p \in Peers : status[p] # "off" => status'[p] # "off"
  BY <1>2 DEF Ages
<1>4. \A p : Contains(backlog, p) <=> \E i \in 1..Len(backlog) : backlog[i] = p
  BY DEF Contains
<1>5. \A p : Contains(backlog, p)' <=> \E i \in 1..Len(backlog') : backlog'[i] = p
  BY DEF Contains
<1>6. AcceptOne => Len(backlog') = Len(backlog) - 1
  <2> SUFFICES ASSUME AcceptOne PROVE Len(backlog') = Len(backlog) - 1
    OBVIOUS
  <2>1. backlog # <<>> /\ backlog' = Tail(backlog)
    BY DEF AcceptOne, Accepts
  <2> QED
    BY <1>1, <2>1, TailFrontProperties
<1>7. CASE UNCHANGED <<status, backlog>> /\ ~AcceptOne
  BY <1>7 DEF Admitted, Contains
<1>8. CASE SendReply \/ \E p \in Peers : Leave(p) \/ Reset(p)
  <2>1. backlog' = backlog
    BY <1>8 DEF SendReply, Leave, Reset
  <2>2. ~AcceptOne
    BY <1>1, <1>6, <2>1
  <2>3. \A p \in Peers : status'[p] # "off" => status[p] # "off"
    <3>1. CASE SendReply
      <4>1. PICK q : \/ status' = [p \in Peers |-> IF p = q THEN AfterSend(status[p]) ELSE status[p]]
                    \/ status' = status
        BY <3>1 DEF SendReply
      <4>2. AfterSend("off") = "off"
        BY DEF AfterSend
      <4> QED
        BY <1>1, <4>1, <4>2
    <3>2. CASE \E q \in Peers : Leave(q) \/ Reset(q)
      <4>1. PICK q, s : q \in Peers /\ status[q] # "off" /\ status' = [status EXCEPT ![q] = s]
        BY <3>2 DEF Leave, Reset
      <4> QED
        BY <1>1, <4>1
    <3> QED
      BY <1>8, <3>1, <3>2
  <2> QED
    BY <1>3, <2>2, <2>1, <2>3 DEF Admitted, Contains
<1>9. ASSUME NEW q \in Peers, Connect(q) PROVE Admitted' = Admitted /\ ~AcceptOne
  <2>1. /\ status[q] = "off" /\ status' = [status EXCEPT ![q] = "on"]
        /\ backlog' = Append(backlog, q)
    BY <1>9 DEF Connect
  <2>2. ~AcceptOne
    <3>1. Len(backlog') = Len(backlog) + 1 /\ Len(backlog) \in Nat
      BY <1>1, <2>1
    <3> QED
      BY <1>6, <3>1
  <2>3. PICK n \in Nat : n = Len(backlog)
    BY <1>1
  <2>4. PICK log : log = Append(backlog, q)
    OBVIOUS
  <2>5. Len(log) = n + 1 /\ log[n + 1] = q /\ \A i \in 1..n : log[i] = backlog[i]
    BY <1>1, <2>3, <2>4
  <2>6. \A p : (\E i \in 1..Len(log) : log[i] = p) <=> p = q \/ \E i \in 1..n : backlog[i] = p
    <3>1. \A i \in 1..Len(log) : i = n + 1 \/ i \in 1..n
      BY <2>5
    <3>2. n + 1 \in 1..Len(log) /\ \A i \in 1..n : i \in 1..Len(log)
      BY <2>5
    <3> QED
      BY <2>5, <3>1, <3>2
  <2>7. \A p : Contains(backlog, p)' <=> p = q \/ Contains(backlog, p)
    BY <1>4, <1>5, <2>1, <2>3, <2>6, <2>4
  <2>8. q \notin Admitted
    BY <2>1 DEF Admitted
  <2>9. ASSUME NEW p \in Peers PROVE p \in Admitted' <=> p \in Admitted
    <3>1. p # q => status'[p] = status[p]
      BY <1>1, <2>1
    <3> QED
      BY <2>7, <2>8, <3>1 DEF Admitted
  <2> QED
    BY <2>2, <2>9 DEF Admitted
<1>10. CASE AcceptOne
  <2>1. PICK q \in Peers, fd \in Fds : Accepts(q, fd) /\ (SpinForID \/ Greet(q, fd))
    BY <1>10 DEF AcceptOne
  <2>2. backlog # <<>> /\ q = Head(backlog) /\ backlog' = Tail(backlog)
    BY <2>1 DEF Accepts
  <2>3. PICK n \in Nat : n = Len(backlog)
    BY <1>1
  <2>4. PICK log : log = Tail(backlog)
    OBVIOUS
  <2>5. /\ Len(log) = n - 1 /\ n > 0 /\ q = backlog[1]
        /\ \A i \in 1..(n - 1) : log[i] = backlog[i + 1]
    BY <1>1, <2>2, <2>3, <2>4, TailFrontProperties, HeadTailProperties
  <2>6. \A i \in 1..(n - 1) : log[i] # q
    <3>1. \A i \in 1..(n - 1) : i + 1 \in 1..n /\ i + 1 # 1 /\ 1 \in 1..n
      OBVIOUS
    <3> QED
      BY <1>1, <2>3, <2>5, <3>1 DEF Distinct
  <2>7. \A p : (\E i \in 1..(n - 1) : log[i] = p) <=> p # q /\ \E i \in 1..n : backlog[i] = p
    <3>1. ASSUME NEW p, NEW i \in 1..n, backlog[i] = p, p # q
          PROVE  \E j \in 1..(n - 1) : log[j] = p
      <4>1. i # 1
        BY <2>5, <3>1
      <4>2. i - 1 \in 1..(n - 1) /\ (i - 1) + 1 = i
        BY <4>1
      <4> QED
        BY <2>5, <3>1, <4>2
    <3>2. ASSUME NEW p, NEW i \in 1..(n - 1), log[i] = p
          PROVE  \E j \in 1..n : backlog[j] = p
      <4>1. i + 1 \in 1..n
        OBVIOUS
      <4> QED
        BY <2>5, <3>2, <4>1
    <3> QED
      BY <2>6, <3>1, <3>2
  <2>8. \A p : Contains(backlog, p)' <=> p # q /\ Contains(backlog, p)
    BY <1>4, <1>5, <2>2, <2>3, <2>5, <2>7, <2>4
  <2>9. Contains(backlog, q) /\ status[q] # "off" /\ status'[q] # "off"
    <3>1. 1 \in 1..Len(backlog)
      BY <2>3, <2>5
    <3> QED
      BY <1>1, <1>3, <1>4, <2>5, <3>1
  <2>10. \A p \in Peers : p # q => status'[p] = status[p]
    BY <1>1, <2>1 DEF SpinForID, Greet
  <2>11. ASSUME NEW p \in Peers PROVE p \in Admitted' <=> p \in Admitted \/ p = q
    BY <2>8, <2>9, <2>10 DEF Admitted
  <2>12. q \notin Admitted
    BY <2>9 DEF Admitted
  <2>13. Admitted' = Admitted \cup {q}
    BY <2>11 DEF Admitted
  <2> QED
    BY <1>10, <2>12, <2>13
<1> QED
  BY <1>7, <1>8, <1>9, <1>10
     DEF Next, Environment, SendLine, CutLine, SendRest, Thread, HandleEvent,
         CloseClient, Receive, BeginAccept, EndAccept, BeginGenerate, Generate, BeginUpdate, Handle,
         FindClient, RunMessage, RunListed, Write, vars, kernelVars
-----------------------------------------------------------------------------
(* The entries with a socket had it before, and are still the same peer's;  *)
(* an entry is lost only with its connection.                              *)
Keeps(map, files) ==
    /\ \A id \in DOMAIN map : map[id].socket # 0 =>
          /\ id \in DOMAIN clientMap /\ clientMap[id].socket = map[id].socket
          /\ files[map[id].socket] = file[map[id].socket]
    /\ \A id \in DOMAIN clientMap :
          (clientMap[id].socket # 0 /\ files[clientMap[id].socket] # NoPeer)
             => id \in DOMAIN map /\ map[id].socket = clientMap[id].socket

(* A client that is new has the ID of what is handled.                     *)
Old(map) == \A id \in DOMAIN map : \/ id \in DOMAIN clientMap
                                   \/ mpc \in {"find", "run"} /\ id = Head(recvQueue).client
                                   \/ mpc = "list" /\ id = sending.client

(* The main loop finds an entry or makes one, and sets its lists.          *)
LEMMA KeepsSets ==
    ASSUME MapInv, NEW id, NEW l, NEW c, Sets(id, l, c)
    PROVE  /\ Keeps(clientMap', file)
           /\ DOMAIN clientMap' = DOMAIN clientMap \cup {id}
<1>1. PICK d : d = Relisted(id, l, c)
  OBVIOUS
<1>0. ClientsOK(clientMap)
  BY DEF MapInv
<1>2. d.socket = Client(id).socket /\ clientMap' = WithClient(id, d)
  BY <1>0, <1>1, ClientProperties DEF Sets
<1>3. /\ DOMAIN clientMap' = DOMAIN clientMap \cup {id} /\ clientMap'[id] = d
      /\ \A i \in DOMAIN clientMap \ {id} : clientMap'[i] = clientMap[i]
  BY <1>2 DEF WithClient
<1>4. CASE id \in DOMAIN clientMap
  <2>1. d.socket = clientMap[id].socket
    BY <1>2, <1>4 DEF Client
  <2> QED
    BY <1>3, <1>4, <2>1 DEF Keeps
<1>5. CASE id \notin DOMAIN clientMap
  <2>1. d.socket = 0
    BY <1>2, <1>5 DEF Client, Fresh
  <2> QED
    BY <1>3, <1>5, <2>1 DEF Keeps
<1> QED
  BY <1>4, <1>5

(* No step of the main loop gives a client another socket, or makes an     *)
(* entry for an ID that was not given.                                     *)
LEMMA KeepsMain ==
    ASSUME MapInv, SendingTypes, OwnInv, QueueTypes, Handle
    PROVE  Keeps(clientMap', file) /\ Old(clientMap')
<1>0. ClientsOK(clientMap)
  BY DEF MapInv
<1>1. CASE clientMap' = clientMap
  BY <1>1 DEF Keeps, Old
<1>2. ASSUME NEW id, NEW l, NEW c, Sets(id, l, c),
             \/ mpc \in {"find", "run"} /\ id = Head(recvQueue).client
             \/ mpc = "list" /\ id = sending.client
      PROVE  Keeps(clientMap', file) /\ Old(clientMap')
  <2>1. /\ Keeps(clientMap', file)
        /\ DOMAIN clientMap' = DOMAIN clientMap \cup {id}
    BY <1>2, KeepsSets
  <2> QED
    BY <1>2, <2>1 DEF Old
<1>3. PICK m : m = Head(recvQueue)
  OBVIOUS
<1>4. CASE FindClient
  BY <1>0, <1>2, <1>3, <1>4, FindMoves DEF FindClient
<1>5. CASE RunMessage /\ clientMap' # clientMap
  <2>1. Handled(m)
    BY <1>0, <1>3, <1>5, HandledMessage DEF Terminate
  <2>2. PICK l, c : Sets(m.client, l, c)
    BY <1>5, <2>1 DEF Handled, Joins, Lost, Refused, Runs, Opens, ClosesList, Finds
  <2> QED
    BY <1>2, <1>3, <1>5, <2>2 DEF RunMessage
<1>6. CASE RunListed /\ clientMap' # clientMap
  <2>1. PICK k : k = Head(running)
    OBVIOUS
  <2>2. Steps(k)
    BY <1>0, <1>6, <2>1, HandledListed DEF Terminate
  <2>3. PICK l, c : Sets(k.client, l, c)
    BY <2>2 DEF Steps
  <2>4. k.client = sending.client /\ mpc = "list"
    <3>1. mpc = "list"
      BY <1>6 DEF RunListed
    <3>2. running \in Seq(Message) /\ running # <<>>
      BY <3>1 DEF QueueTypes, SendingTypes
    <3>3. 1 \in 1..Len(running) /\ k = running[1]
      BY <2>1, <3>2
    <3> QED
      BY <3>1, <3>3 DEF OwnInv
  <2> QED
    BY <1>2, <2>3, <2>4
<1> QED
  BY <1>1, <1>4, <1>5, <1>6 DEF Handle, Write, SendReply, Terminate

(* Accepting is what gives a client a socket.                              *)
LEMMA KeepsStep ==
    ASSUME MapInv, SendingTypes, OwnInv, QueueTypes, [Next]_vars, ~AcceptOne
    PROVE  Keeps(clientMap', file') /\ Old(clientMap') /\ clientCounter' = clientCounter
<1>0. clientCounter' = clientCounter
  BY DEF Next, Environment, Connect, SendLine, CutLine, SendRest, Leave, Reset, Thread, HandleEvent,
         CloseClient, Receive, BeginAccept, EndAccept, BeginGenerate, Generate, BeginUpdate, Handle,
         FindClient, RunMessage, RunListed, Write, SendReply, vars, threadVars
<1> SUFFICES Keeps(clientMap', file') /\ Old(clientMap')
  BY <1>0
<1>1. CASE UNCHANGED <<clientMap, file>>
  BY <1>1 DEF Keeps, Old
<1>2. ASSUME NEW e, NEW later, CloseClient(e, later) PROVE Keeps(clientMap', file') /\ Old(clientMap')
  <2>1. PICK map : map = [id \in DOMAIN clientMap \ Of(e.fd) |-> clientMap[id]]
    OBVIOUS
  <2>2. clientMap' = map /\ file' = [file EXCEPT ![e.fd] = NoPeer]
    BY <1>2, <2>1 DEF CloseClient
  <2>3. \A id \in DOMAIN map : /\ id \in DOMAIN clientMap /\ map[id] = clientMap[id]
                               /\ clientMap[id].socket # e.fd
                               /\ clientMap[id].socket \in Fds \cup {0}
    BY <2>1 DEF Of, MapInv, ClientsOK, IsClient
  <2>4. \A fd \in Fds : fd # e.fd => file'[fd] = file[fd]
    BY <2>2 DEF MapInv, FilesOK
  <2>6. ASSUME NEW id \in DOMAIN clientMap, clientMap[id].socket # 0,
               file'[clientMap[id].socket] # NoPeer
        PROVE  id \in DOMAIN map
    <3>1. clientMap[id].socket \in Fds
      BY <2>6 DEF MapInv, ClientsOK, IsClient
    <3>2. clientMap[id].socket # e.fd
      BY <2>2, <2>6, <3>1 DEF MapInv, FilesOK
    <3> QED
      BY <2>1, <3>2 DEF Of
  <2>5. Keeps(map, file') /\ Old(map)
    BY <2>3, <2>4, <2>6 DEF Keeps, Old
  <2> QED
    BY <2>2, <2>5
<1>3. ASSUME NEW e, NEW later, Receive(e, later), clientMap' # clientMap
      PROVE  Keeps(clientMap', file') /\ Old(clientMap')
  <2>1. PICK p, id : p = file[e.fd] /\ id = (CHOOSE i \in Of(e.fd) : TRUE)
    OBVIOUS
  <2>2. /\ Of(e.fd) # {} /\ file' = file
        /\ clientMap' = [clientMap EXCEPT ![id].buffer = @ \o SubSeq(net[p], 1, Received(p)),
                                          ![id].cmdList = Unviewed(@, {id})]
    BY <1>3, <2>1 DEF Receive
  <2>3. id \in DOMAIN clientMap
    BY <2>1, <2>2 DEF Of
  <2>4. Changes(clientMap', id)
    BY <2>2 DEF Changes
  <2>5. /\ DOMAIN clientMap' = DOMAIN clientMap
        /\ \A i \in DOMAIN clientMap' : clientMap'[i].socket = clientMap[i].socket
    BY <2>3, <2>4, ChangeFields DEF MapInv
  <2> QED
    BY <2>2, <2>5 DEF Keeps, Old
<1>4. CASE Generate
  <2>1. clientMap' = [id \in DOMAIN clientMap |-> [clientMap[id] EXCEPT !.buffer = Remainder(@)]]
        /\ file' = file
    BY <1>4 DEF Generate, kernelVars
  <2>2. ASSUME NEW id \in DOMAIN clientMap PROVE clientMap'[id].socket = clientMap[id].socket
    <3>1. PICK r, b : r = clientMap[id] /\ b = Remainder(r.buffer)
      OBVIOUS
    <3>2. r = [socket |-> r.socket, buffer |-> r.buffer, inCmdList |-> r.inCmdList,
               cmdList |-> r.cmdList]
      BY <3>1 DEF MapInv, ClientsOK, IsClient
    <3>3. clientMap'[id] = [r EXCEPT !.buffer = b]
      BY <2>1, <3>1
    <3>4. [r EXCEPT !.buffer = b].socket = r.socket
      BY <3>2
    <3> QED
      BY <3>1, <3>3, <3>4
  <2>3. DOMAIN clientMap' = DOMAIN clientMap
    BY <2>1
  <2> QED
    BY <2>1, <2>2, <2>3 DEF Keeps, Old
<1>5. CASE Handle
  <2>1. file' = file
    BY <1>5, MainMoves DEF MapInv
  <2> QED
    BY <1>5, <2>1, KeepsMain
<1> QED
  BY <1>1, <1>2, <1>3, <1>4, <1>5
     DEF Next, Environment, Connect, SendLine, CutLine, SendRest, Leave, Reset, Thread, HandleEvent,
         Receive, BeginAccept, EndAccept, BeginGenerate, BeginUpdate, vars, kernelVars

(* Who was accepted gets no other descriptor, and loses the one it has     *)
(* only for good.                                                          *)
LEMMA OpenStep ==
    ASSUME PeersInv, [Next]_vars, NEW p \in Peers, p \in Admitted
    PROVE  /\ p \in Admitted'
           /\ \A fd \in Fds : file'[fd] = p => file[fd] = p
           /\ (\E g \in Fds : file'[g] = p) => \A fd \in Fds : file[fd] = p => file'[fd] = p
<1>1. p \in Admitted'
  BY AdmittedStep
<1>2. CASE file' = file
  BY <1>1, <1>2
<1>3. ASSUME NEW q \in Peers, NEW f \in Fds, file' = [file EXCEPT ![f] = q], file[f] = NoPeer, q # p
      PROVE  /\ \A fd \in Fds : file'[fd] = p => file[fd] = p
             /\ \A fd \in Fds : file[fd] = p => file'[fd] = p
  <2>1. p # NoPeer
    BY MpdServerAssumption
  <2> QED
    BY <1>3, <2>1 DEF PeersInv, FilesOK
<1>4. CASE AcceptOne
  <2>1. PICK q \in Peers, fd \in Fds : Accepts(q, fd)
    BY <1>4 DEF AcceptOne
  <2>2. file' = [file EXCEPT ![fd] = q] /\ file[fd] = NoPeer /\ backlog # <<>> /\ q = Head(backlog)
    BY <2>1 DEF Accepts, FreeFds, Open
  <2>3. q # p
    <3>1. 1 \in 1..Len(backlog) /\ q = backlog[1]
      BY <2>2 DEF PeersInv, PlacesOK
    <3>2. Contains(backlog, q)
      BY <3>1 DEF Contains
    <3> QED
      BY <3>2 DEF Admitted
  <2> QED
    BY <1>1, <1>3, <2>2, <2>3
<1>5. ASSUME NEW e, NEW later, CloseClient(e, later)
      PROVE  /\ \A fd \in Fds : file'[fd] = p => file[fd] = p
             /\ (\E g \in Fds : file'[g] = p) => \A fd \in Fds : file[fd] = p => file'[fd] = p
  <2>1. file' = [file EXCEPT ![e.fd] = NoPeer]
    BY <1>5 DEF CloseClient
  <2>2. p # NoPeer
    BY MpdServerAssumption
  <2>3. \A fd \in Fds : file'[fd] = IF fd = e.fd THEN NoPeer ELSE file[fd]
    BY <2>1 DEF PeersInv, FilesOK
  <2>4. \A f, g \in Fds : file[f] \in Peers /\ file[f] = file[g] => f = g
    BY DEF PeersInv, PlacesOK
  <2> QED
    BY <2>2, <2>3, <2>4
<1> QED
  BY <1>1, <1>2, <1>4, <1>5
     DEF Next, Environment, Connect, SendLine, CutLine, SendRest, Leave, Reset, Thread, HandleEvent,
         Receive, BeginAccept, EndAccept, BeginGenerate, Generate, BeginUpdate, Handle, FindClient,
         RunMessage, RunListed, Write, SendReply, vars, kernelVars
-----------------------------------------------------------------------------
(* As long as there were fewer connections than IDs, the counter gives an  *)
(* ID no message has.                                                      *)
LEMMA NextIDCounts ==
    ASSUME CounterOK, clientCounter + 1 < ClientAll, \A id \in DOMAIN clientMap : id <= clientCounter
    PROVE  NextID = clientCounter + 1
<1> USE MpdServerAssumption
<1>1. PICK n \in Nat : n = clientCounter
  BY DEF CounterOK
<1>2. 1 \in IDs /\ Later(1) = n + 1
  BY <1>1 DEF IDs, Later
<1>3. n + 1 \in IDs
  BY <1>1 DEF IDs
<1>4. n + 1 \notin DOMAIN clientMap
  <2> SUFFICES ASSUME n + 1 \in DOMAIN clientMap PROVE FALSE
    OBVIOUS
  <2>1. n + 1 <= n
    BY <1>1
  <2> QED
    BY <2>1
<1>5. Later(1) \in FreeIDs
  BY <1>2, <1>3, <1>4 DEF FreeIDs
<1>6. \A j \in 1..(1 - 1) : Later(j) \notin FreeIDs
  OBVIOUS
<1>7. \E k \in IDs : Later(k) \in FreeIDs /\ \A j \in 1..(k - 1) : Later(j) \notin FreeIDs
  BY <1>2, <1>5, <1>6
<1>8. PICK k : k = (CHOOSE i \in IDs : Later(i) \in FreeIDs /\ \A j \in 1..(i - 1) : Later(j) \notin FreeIDs)
  OBVIOUS
<1>9. k \in IDs /\ \A j \in 1..(k - 1) : Later(j) \notin FreeIDs
  BY <1>7, <1>8
<1>10. k = 1
  <2>1. k \in Nat /\ k >= 1
    BY <1>9 DEF IDs
  <2>2. CASE k > 1
    <3>1. 1 \in 1..(k - 1)
      BY <2>1, <2>2
    <3> QED
      BY <1>5, <1>9, <3>1
  <2> QED
    BY <2>1, <2>2
<1> QED
  BY <1>1, <1>2, <1>8, <1>10 DEF NextID

(* Accepting a connection, with few of them so far, leaves who was there.  *)
LEMMA SenderAccept ==
    ASSUME MapInv, EntryTypes, AcceptOne, NEW c \in Nat, c = clientCounter,
           c + 1 < ClientAll, \A id \in DOMAIN clientMap : id <= c
    PROVE  /\ clientCounter' \in {c, c + 1}
           /\ \A id \in DOMAIN clientMap' : id <= clientCounter'
           /\ \A id \in Nat : id <= c =>
                 /\ id \in DOMAIN clientMap' <=> id \in DOMAIN clientMap
                 /\ id \in DOMAIN clientMap => clientMap'[id] = clientMap[id]
           /\ \A id \in DOMAIN clientMap : clientMap[id].socket # 0 =>
                 file'[clientMap[id].socket] = file[clientMap[id].socket]
<1>1. PICK p \in Peers, fd \in Fds : Accepts(p, fd) /\ (SpinForID \/ Greet(p, fd))
  BY DEF AcceptOne
<1>2. file' = [file EXCEPT ![fd] = p] /\ file[fd] = NoPeer
  BY <1>1 DEF Accepts, FreeFds, Open
<1>3. \A id \in DOMAIN clientMap : clientMap[id].socket # 0 =>
         file'[clientMap[id].socket] = file[clientMap[id].socket]
  BY <1>2, MpdServerAssumption DEF MapInv, SocketsOK, ClientsOK, IsClient, FilesOK
<1>5. CASE SpinForID
  <2>1. clientMap' = clientMap /\ clientCounter' = c
    BY <1>5 DEF SpinForID
  <2> QED
    BY <1>3, <2>1
<1>6. CASE Greet(p, fd)
  <2>1. NextID = c + 1
    BY NextIDCounts DEF MapInv
  <2>2. PICK d, map : d = Fresh(fd) /\ map = WithClient(c + 1, d)
    OBVIOUS
  <2>3. clientMap' = map /\ clientCounter' = c + 1
    BY <1>6, <2>1, <2>2 DEF Greet
  <2>4. DOMAIN map = DOMAIN clientMap \cup {c + 1} /\ \A i \in DOMAIN clientMap : i # c + 1 => map[i] = clientMap[i]
    BY <2>2 DEF WithClient
  <2>5. \A id \in DOMAIN clientMap : id \in Nat
    BY MpdServerAssumption DEF EntryTypes, EntriesOK, IDs
  <2>6. \A id \in DOMAIN map : id <= c + 1
    <3>1. \A id \in DOMAIN clientMap : id <= c + 1
      BY <2>5
    <3> QED
      BY <2>4, <3>1
  <2>7. \A id \in Nat : id <= c => id # c + 1
    OBVIOUS
  <2> QED
    BY <1>3, <2>3, <2>4, <2>6, <2>7
<1> QED
  BY <1>1, <1>5, <1>6

(* A client stays its peer's, whoever comes and goes.                      *)
LEMMA GenuineStep ==
    ASSUME Basics, [Next]_vars, NEW c \in Nat, c = clientCounter,
           AcceptOne => c + 1 < ClientAll, \A id \in DOMAIN clientMap : id <= c,
           NEW id \in Nat, NEW p, Genuine(id, p)
    PROVE  Genuine(id, p)'
<1> USE DEF Basics, Types
<1>1. ASSUME p \in Peers
      PROVE  /\ p \in Admitted'
             /\ \A fd \in Fds : file'[fd] = p => file[fd] = p
             /\ (\E g \in Fds : file'[g] = p) => \A fd \in Fds : file[fd] = p => file'[fd] = p
  BY <1>1, OpenStep DEF Genuine
<1>2. id <= c
  BY DEF Genuine
<1>3. id \in DOMAIN clientMap /\ clientMap[id].socket # 0
         => clientMap[id].socket \in Fds /\ file[clientMap[id].socket] = p
  BY DEF Genuine, MapInv, ClientsOK, IsClient
<1>4. ASSUME p \in Peers, Open(p)' # {}
      PROVE  id \in DOMAIN clientMap /\ clientMap[id].socket # 0 /\ file'[clientMap[id].socket] = p
  <2>1. \E g \in Fds : file'[g] = p
    BY <1>4 DEF Open
  <2>2. Open(p) # {}
    BY <1>1, <1>4, <2>1 DEF Open
  <2>3. id \in DOMAIN clientMap /\ clientMap[id].socket # 0
    BY <1>4, <2>2 DEF Genuine
  <2> QED
    BY <1>1, <1>3, <1>4, <2>1, <2>3
<1>5. CASE AcceptOne
  <2>1. /\ clientCounter' \in {c, c + 1}
        /\ id \in DOMAIN clientMap' <=> id \in DOMAIN clientMap
        /\ id \in DOMAIN clientMap => clientMap'[id] = clientMap[id]
        /\ id \in DOMAIN clientMap /\ clientMap[id].socket # 0
              => file'[clientMap[id].socket] = file[clientMap[id].socket]
    BY <1>2, <1>5, SenderAccept
  <2>2. id <= clientCounter'
    BY <1>2, <2>1
  <2>3. id \in DOMAIN clientMap' /\ clientMap'[id].socket # 0 => file'[clientMap'[id].socket] = p
    BY <1>3, <2>1
  <2>4. p \in Peers /\ Open(p)' # {} => id \in DOMAIN clientMap' /\ clientMap'[id].socket # 0
    BY <1>4, <2>1
  <2> QED
    BY <1>1, <2>2, <2>3, <2>4 DEF Genuine
<1>6. CASE ~AcceptOne
  <2>1. Keeps(clientMap', file') /\ clientCounter' = c
    BY <1>6, KeepsStep
  <2>2. id \in DOMAIN clientMap' /\ clientMap'[id].socket # 0 => file'[clientMap'[id].socket] = p
    BY <1>3, <2>1 DEF Keeps
  <2>3. p \in Peers /\ Open(p)' # {} => id \in DOMAIN clientMap' /\ clientMap'[id].socket # 0
    BY <1>4, <2>1, MpdServerAssumption DEF Keeps
  <2> QED
    BY <1>1, <1>2, <2>1, <2>2, <2>3 DEF Genuine
<1> QED
  BY <1>5, <1>6

(* The messages that are made are their senders'.                          *)
LEMMA GenuineGenerate ==
    ASSUME Basics, \A id \in DOMAIN clientMap : id <= clientCounter,
           NEW order \in SetToSeqs(Buffered)
    PROVE  \E new \in Seq(Message) :
              /\ new = FlattenSeq([i \in DOMAIN order |-> Messages(order[i])])
              /\ AllGenuine(new)
<1> USE DEF Basics, Types
<1>1. PICK n \in Nat : n = Cardinality(Buffered)
  BY FiniteBuffered
<1>2. order \in [1..n -> Buffered]
  BY <1>1 DEF SetToSeqs
<1>3. PICK all : all = [i \in DOMAIN order |-> Messages(order[i])]
  OBVIOUS
<1>4. all = [i \in 1..n |-> all[i]] /\ \A i \in 1..n : all[i] = Messages(order[i])
  BY <1>2, <1>3
<1>5. PICK S : S = {m \in Message : Genuine(m.client, m.peer)}
  OBVIOUS
<1>6. ASSUME NEW id \in DOMAIN clientMap, NEW p,
             p = IF clientMap[id].socket = 0 THEN NoPeer ELSE file[clientMap[id].socket]
      PROVE  Genuine(id, p)
  <2>1. clientMap[id].socket # 0 => clientMap[id].socket \in Fds /\ p \in Peers
    BY <1>6 DEF MapInv, ClientsOK, IsClient, SocketsOK, FilesOK
  <2>2. p \in Peers => clientMap[id].socket # 0
    BY <1>6, MpdServerAssumption
  <2>3. p \in Peers => p \in Admitted
    <3> SUFFICES ASSUME p \in Peers PROVE p \in Admitted
      OBVIOUS
    <3>1. clientMap[id].socket \in Fds /\ file[clientMap[id].socket] = p
      BY <1>6, <2>1, <2>2
    <3> QED
      BY <3>1 DEF PeersInv, PlacesOK, Admitted, Contains
  <2> QED
    BY <1>6, <2>1, <2>2, <2>3 DEF Genuine
<1>7. ASSUME NEW i \in 1..n PROVE all[i] \in Seq(S)
  <2>1. PICK id \in DOMAIN clientMap : id = order[i]
    BY <1>2 DEF Buffered
  <2>2. PICK p : p = IF clientMap[id].socket = 0 THEN NoPeer ELSE file[clientMap[id].socket]
    OBVIOUS
  <2>3. PICK ms : ms = Messages(id)
    OBVIOUS
  <2>4. ms \in Seq(Message) /\ \A j \in 1..Len(ms) : ms[j].client = id /\ ms[j].peer = p
    BY <2>2, <2>3, MessagesTypes
  <2>5. PICK k \in Nat : k = Len(ms)
    BY <2>4
  <2>6. Genuine(id, p)
    BY <1>6, <2>2
  <2>7. \A j \in 1..k : ms[j] \in Message
    BY <2>4, <2>5
  <2>8. \A j \in 1..k : ms[j] \in S
    BY <1>5, <2>4, <2>5, <2>6, <2>7
  <2>9. ms \in Seq(S)
    BY <2>4, <2>5, <2>8
  <2> QED
    BY <1>4, <2>1, <2>3, <2>9
<1>8. all \in Seq(Seq(S))
  <2>1. \A i \in 1..n : all[i] \in Seq(S)
    BY <1>7
  <2>2. all = [i \in 1..n |-> all[i]]
    BY <1>4
  <2> QED
    BY <2>1, <2>2
<1>9. PICK new \in Seq(S) : new = FlattenSeq(all)
  BY <1>8, FlattenSeqProperties
<1>10. \A i \in 1..Len(new) : new[i] \in S
  BY <1>9
<1>11. new \in Seq(Message) /\ AllGenuine(new)
  <2>1. new \in Seq(Message)
    BY <1>5, <1>9, <1>10
  <2> QED
    BY <1>5, <1>10, <2>1 DEF AllGenuine
<1> QED
  BY <1>3, <1>9, <1>11
-----------------------------------------------------------------------------
(* What joins m_recvQueue is its peers', and so is what stays.             *)
LEMMA SenderQueue ==
    ASSUME Basics, [Next]_vars, \A id \in DOMAIN clientMap : id <= clientCounter,
           AllGenuine(recvQueue)
    PROVE  \A i \in 1..Len(recvQueue') : Genuine(recvQueue'[i].client, recvQueue'[i].peer)
<1> USE DEF Basics, Types
<1>0. ClientsOK(clientMap) /\ recvQueue \in Seq(Message)
  BY DEF MapInv, QueueTypes
<1>1. CASE recvQueue' = recvQueue
  BY <1>1 DEF AllGenuine
<1>2. CASE \E ids : recvQueue' = Unviewed(recvQueue, ids)
  BY <1>0, <1>2, UnviewedProperties DEF AllGenuine
<1>3. CASE Generate
  <2>1. PICK order \in SetToSeqs(Buffered) :
           recvQueue' = recvQueue \o FlattenSeq([i \in DOMAIN order |-> Messages(order[i])])
    BY <1>3 DEF Generate
  <2>2. PICK new \in Seq(Message) : recvQueue' = recvQueue \o new /\ AllGenuine(new)
    BY <2>1, GenuineGenerate
  <2>3. PICK n \in Nat, k \in Nat : n = Len(recvQueue) /\ k = Len(new)
    BY <1>0
  <2>4. PICK q \in Seq(Message) : q = recvQueue
    BY <1>0
  <2>5. /\ Len(q \o new) = n + k /\ \A i \in 1..n : (q \o new)[i] = q[i]
        /\ \A i \in (n + 1)..(n + k) : (q \o new)[i] = new[i - n]
    BY <2>3, <2>4
  <2>6. \A i \in 1..(n + k) : i \in 1..n \/ (i \in (n + 1)..(n + k) /\ i - n \in 1..k)
    OBVIOUS
  <2> QED
    BY <2>2, <2>3, <2>4, <2>5, <2>6 DEF AllGenuine
<1>4. CASE RunMessage /\ recvQueue' # recvQueue
  <2>1. PICK m : m = Head(recvQueue)
    OBVIOUS
  <2>2. Handled(m)
    BY <1>0, <1>4, <2>1, HandledMessage DEF Terminate
  <2>3. recvQueue' = Tail(recvQueue) /\ recvQueue # <<>>
    BY <1>4, <2>2 DEF Handled, Joins, Lost, Refused, Runs, Opens, ClosesList, Done, QueueTypes, RunMessage
  <2>4. PICK n \in Nat : n = Len(recvQueue)
    BY <1>0
  <2>5. Len(recvQueue') = n - 1 /\ \A i \in 1..(n - 1) : recvQueue'[i] = recvQueue[i + 1]
    BY <1>0, <2>3, <2>4, TailFrontProperties
  <2>6. \A i \in 1..(n - 1) : i + 1 \in 1..n
    OBVIOUS
  <2> QED
    BY <2>4, <2>5, <2>6 DEF AllGenuine
<1> QED
  BY <1>0, <1>1, <1>2, <1>3, <1>4, HandledListed
     DEF Next, Environment, Connect, SendLine, CutLine, SendRest, Leave, Reset, Thread, HandleEvent,
         CloseClient, Receive, BeginAccept, AcceptOne, EndAccept, BeginGenerate, BeginUpdate, Handle,
         FindClient, RunListed, Steps, Terminate, Write, SendReply, vars

(* What is written is for the message that was handled or for that of its  *)
(* list; its socket is the one looked up last.                             *)
LEMMA SenderSending ==
    ASSUME Basics, [Next]_vars, mpc' \in {"list", "write", "send"}
    PROVE  \/ mpc = "run" /\ mpc' # "send" /\ recvQueue # <<>>
              /\ sending'.client = Head(recvQueue).client /\ sending'.peer = Head(recvQueue).peer
           \/ /\ mpc \in {"list", "write", "send"}
              /\ sending'.client = sending.client /\ sending'.peer = sending.peer
              /\ mpc' = "send" => \/ mpc = "send" /\ sending' = sending
                                  \/ /\ sending.client \in DOMAIN clientMap
                                     /\ file' = file
                                     /\ sending'.fd = clientMap[sending.client].socket
                                     /\ sending'.to = IF sending'.fd = 0 THEN NoPeer ELSE file[sending'.fd]
<1> USE DEF Basics, Types
<1>0. ClientsOK(clientMap)
  BY DEF MapInv
<1>1. CASE UNCHANGED <<mpc, sending>>
  BY <1>1
<1>2. ASSUME NEW c, NEW p, NEW r, Continue(c, p, r)
      PROVE  mpc' # "send" /\ sending'.client = c /\ sending'.peer = p
  <2>1. r # <<>>
    BY <1>2 DEF Continue
  <2> QED
    BY <1>2, <2>1 DEF Continue
<1>3. CASE RunMessage
  <2>1. PICK m : m = Head(recvQueue)
    OBVIOUS
  <2>2. Handled(m)
    BY <1>0, <1>3, <2>1, HandledMessage DEF Terminate
  <2>3. \E r : Continue(m.client, m.peer, r)
    BY <2>2 DEF Handled, Joins, Lost, Refused, Runs, Opens, ClosesList, Done
  <2> QED
    BY <1>2, <1>3, <2>1, <2>3 DEF RunMessage, QueueTypes
<1>4. CASE RunListed
  <2>1. Steps(Head(running))
    BY <1>0, <1>4, HandledListed DEF Terminate
  <2>2. \E r : Continue(sending.client, sending.peer, r)
    BY <2>1 DEF Steps
  <2> QED
    BY <1>2, <1>4, <2>2 DEF RunListed
<1>5. CASE SendReply
  <2>1. Continue(sending.client, sending.peer, Tail(sending.replies))
    BY <1>5 DEF SendReply, Terminate
  <2> QED
    BY <1>2, <1>5, <2>1 DEF SendReply
<1>6. CASE Write
  <2>1. PICK fd : fd = clientMap[sending.client].socket
    OBVIOUS
  <2>2. PICK to : to = IF fd = 0 THEN NoPeer ELSE file[fd]
    OBVIOUS
  <2>3. /\ sending.client \in DOMAIN clientMap /\ mpc = "write" /\ file' = file
        /\ sending' = [sending EXCEPT !.fd = fd, !.to = to]
    BY <1>6, <2>1, <2>2 DEF Write, Terminate, kernelVars
  <2>4. PICK s \in Sendings : s = sending
    BY DEF SendingTypes
  <2>5. PICK u : u = [s EXCEPT !.fd = fd]
    OBVIOUS
  <2>6. u = [client |-> s.client, peer |-> s.peer, replies |-> s.replies, fd |-> fd, to |-> s.to]
    BY <2>4, <2>5 DEF Sendings
  <2>7. sending' = [u EXCEPT !.to = to]
    BY <2>3, <2>4, <2>5
  <2>8. sending' = [client |-> s.client, peer |-> s.peer, replies |-> s.replies, fd |-> fd, to |-> to]
    BY <2>6, <2>7
  <2> QED
    BY <2>1, <2>2, <2>3, <2>4, <2>8
<1> QED
  BY <1>1, <1>3, <1>4, <1>5, <1>6
     DEF Next, Environment, Connect, SendLine, CutLine, SendRest, Leave, Reset, Thread, HandleEvent,
         CloseClient, Receive, BeginAccept, AcceptOne, EndAccept, BeginGenerate, Generate, BeginUpdate,
         Handle, FindClient, vars, mainVars

(* Whoever comes and goes, a reply reaches its sender while that one is    *)
(* connected.                                                              *)
LEMMA ReachesStep ==
    ASSUME Basics, [Next]_vars, NEW id, NEW p, mpc' = "send", sending'.client = id, sending'.peer = p,
           sending.client = id, sending.peer = p, Genuine(id, p),
           \/ mpc = "send" /\ sending' = sending /\ Reaches(sending)
           \/ /\ id \in DOMAIN clientMap /\ file' = file
              /\ sending'.fd = clientMap[id].socket
              /\ sending'.to = IF sending'.fd = 0 THEN NoPeer ELSE file[sending'.fd]
    PROVE  Reaches(sending)'
<1> USE DEF Basics, Types
<1>1. CASE mpc = "send" /\ sending' = sending /\ Reaches(sending)
  <2>1. CASE p \in Peers
    <3>1. /\ \A fd \in Fds : file'[fd] = p => file[fd] = p
          /\ (\E g \in Fds : file'[g] = p) => \A fd \in Fds : file[fd] = p => file'[fd] = p
      BY <2>1, OpenStep DEF Genuine
    <3>2. sending.fd \in Fds \cup {0}
      BY DEF SendingTypes, Sendings
    <3> QED
      BY <1>1, <2>1, <3>1, <3>2 DEF Reaches, Open
  <2>2. CASE p \notin Peers
    BY <1>1, <2>2 DEF Reaches
  <2> QED
    BY <2>1, <2>2
<1>2. CASE /\ id \in DOMAIN clientMap /\ file' = file
           /\ sending'.fd = clientMap[id].socket
           /\ sending'.to = IF sending'.fd = 0 THEN NoPeer ELSE file[sending'.fd]
  <2>1. PICK fd : fd = clientMap[id].socket
    OBVIOUS
  <2>2. fd # 0 => file[fd] = p /\ p \in Peers
    BY <1>2, <2>1 DEF Genuine, MapInv, ClientsOK, IsClient, SocketsOK, FilesOK
  <2>3. p \in Peers /\ Open(p) # {} => fd # 0
    BY <2>1 DEF Genuine
  <2>4. Open(p)' = Open(p)
    BY <1>2 DEF Open
  <2> QED
    BY <1>2, <2>1, <2>2, <2>3, <2>4 DEF Reaches
<1> QED
  BY <1>1, <1>2

(* Whoever comes, leaves or is answered, messages stay genuine.            *)
LEMMA SenderStep ==
    ASSUME Basics, SenderInv, [Next]_vars
    PROVE  SenderInv'
<1> USE DEF Basics, Types
<1>1. IsFiniteSet(Admitted) /\ Cardinality(Admitted) \in Nat
  BY FS_CardinalityType DEF SenderInv
<1>2. Connections = Cardinality(Admitted) /\ Connections' = Cardinality(Admitted')
  BY DEF Connections, Admitted
<1>3. /\ IsFiniteSet(Admitted')
      /\ AcceptOne => Connections' = Connections + 1
      /\ ~AcceptOne => Connections' = Connections
  <2>1. CASE Admitted' = Admitted /\ ~AcceptOne
    BY <1>1, <1>2, <2>1
  <2>2. CASE AcceptOne /\ \E p : p \notin Admitted /\ Admitted' = Admitted \cup {p}
    BY <1>1, <1>2, <2>2, FS_AddElement
  <2> QED
    BY <2>1, <2>2, AdmittedStep
<1>4. SUFFICES ASSUME Few'
               PROVE  /\ clientCounter' <= Connections'
                      /\ \A id \in DOMAIN clientMap' : id <= clientCounter'
                      /\ AllGenuine(recvQueue)'
                      /\ mpc' \in {"list", "write", "send"} => Genuine(sending.client, sending.peer)'
                      /\ mpc' = "send" => Reaches(sending)'
  BY <1>3 DEF SenderInv
<1>5. PICK c \in Nat, k \in Nat : c = clientCounter /\ k = Connections
  BY <1>1, <1>2 DEF MapInv, CounterOK
<1>6. Connections' < ClientAll /\ ClientAll \in Nat /\ (Connections' = k \/ Connections' = k + 1)
  BY <1>3, <1>4, <1>5, MpdServerAssumption DEF Few
<1>7. Few
  BY <1>5, <1>6 DEF Few
<1>8. /\ c <= k /\ \A id \in DOMAIN clientMap : id <= c
      /\ AllGenuine(recvQueue)
      /\ mpc \in {"list", "write", "send"} => Genuine(sending.client, sending.peer)
      /\ mpc = "send" => Reaches(sending)
  BY <1>5, <1>7 DEF SenderInv
<1>9. AcceptOne => c + 1 < ClientAll /\ Connections' = k + 1
  BY <1>3, <1>5, <1>6, <1>8
<1>10. ASSUME NEW id \in Nat, NEW p, Genuine(id, p) PROVE Genuine(id, p)'
  BY <1>5, <1>8, <1>9, <1>10, GenuineStep
<1>11. \A m \in Message : m.client \in Nat
  <2>1. \A id \in IDs : id \in Nat
    BY MpdServerAssumption DEF IDs
  <2> QED
    BY <2>1, MessageFields
<1>12. AllGenuine(recvQueue)'
  <2>1. ASSUME NEW q, q = recvQueue', NEW i \in 1..Len(q) PROVE Genuine(q[i].client, q[i].peer)'
    <3>1. Genuine(q[i].client, q[i].peer)
      BY <1>5, <1>8, <2>1, SenderQueue
    <3>2. q \in Seq(Message)
      BY <2>1, QueueStep DEF QueueTypes
    <3>4. q[i] \in Message
      BY <2>1, <3>2
    <3>3. PICK id, p : id \in Nat /\ id = q[i].client /\ p = q[i].peer
      BY <1>11, <3>4
    <3> QED
      BY <1>10, <3>1, <3>3
  <2>2. PICK q : q = recvQueue'
    OBVIOUS
  <2> QED
    BY <2>1, <2>2 DEF AllGenuine
<1>13. ASSUME mpc' \in {"list", "write", "send"}
       PROVE  /\ Genuine(sending.client, sending.peer)'
              /\ mpc' = "send" => Reaches(sending)'
  <2>1. PICK id, p : id = sending'.client /\ p = sending'.peer
    OBVIOUS
  <2>2. CASE mpc = "run" /\ mpc' # "send" /\ recvQueue # <<>>
             /\ id = Head(recvQueue).client /\ p = Head(recvQueue).peer
    <3>1. 1 \in 1..Len(recvQueue) /\ Head(recvQueue) = recvQueue[1] /\ recvQueue[1] \in Message
      BY <2>2 DEF QueueTypes
    <3>2. Genuine(id, p) /\ id \in Nat
      BY <1>8, <1>11, <2>2, <3>1 DEF AllGenuine
    <3>3. Genuine(id, p)'
      BY <1>10, <3>2
    <3> QED
      BY <2>1, <2>2, <3>3
  <2>3. CASE mpc \in {"list", "write", "send"} /\ id = sending.client /\ p = sending.peer
    <3>1. Genuine(id, p) /\ id \in Nat
      BY <1>8, <2>3, MpdServerAssumption DEF SendingTypes, Sendings, IDs
    <3>2. Genuine(id, p)'
      BY <1>10, <3>1
    <3>3. ASSUME mpc' = "send" PROVE Reaches(sending)'
      <4>1. \/ mpc = "send" /\ sending' = sending /\ Reaches(sending)
            \/ /\ id \in DOMAIN clientMap /\ file' = file
               /\ sending'.fd = clientMap[id].socket
               /\ sending'.to = IF sending'.fd = 0 THEN NoPeer ELSE file[sending'.fd]
        BY <1>8, <2>3, <3>3, SenderSending
      <4> QED
        BY <2>1, <2>3, <3>1, <3>3, <4>1, ReachesStep
    <3> QED
      BY <2>1, <3>2, <3>3
  <2> QED
    BY <1>13, <2>1, <2>2, <2>3, SenderSending
<1>14. /\ clientCounter' <= Connections'
       /\ \A id \in DOMAIN clientMap' : id <= clientCounter'
  <2>1. CASE AcceptOne
    <3>1. /\ clientCounter' \in {c, c + 1}
          /\ \A id \in DOMAIN clientMap' : id <= clientCounter'
      BY <1>5, <1>8, <1>9, <2>1, SenderAccept
    <3>2. clientCounter' <= k + 1
      BY <1>8, <3>1
    <3> QED
      BY <1>9, <2>1, <3>1, <3>2
  <2>2. CASE ~AcceptOne
    <3>1. Old(clientMap') /\ clientCounter' = c
      BY <1>5, <2>2, KeepsStep
    <3>2. mpc \in {"find", "run"} => Head(recvQueue).client <= c
      <4> SUFFICES ASSUME mpc \in {"find", "run"} PROVE Head(recvQueue).client <= c
        OBVIOUS
      <4>1. 1 \in 1..Len(recvQueue) /\ Head(recvQueue) = recvQueue[1]
        BY DEF QueueTypes
      <4> QED
        BY <1>5, <1>8, <4>1 DEF AllGenuine, Genuine
    <3>3. mpc = "list" => sending.client <= c
      BY <1>5, <1>8 DEF Genuine
    <3>4. \A id \in DOMAIN clientMap' : id <= c
      BY <1>8, <3>1, <3>2, <3>3 DEF Old
    <3> QED
      BY <1>3, <1>5, <1>8, <2>2, <3>1, <3>4
  <2> QED
    BY <2>1, <2>2
<1> QED
  BY <1>12, <1>13, <1>14

(* Nobody is accepted at the start.                                        *)
LEMMA SenderInit == Init => SenderInv
<1> SUFFICES ASSUME Init PROVE SenderInv
  OBVIOUS
<1>1. Admitted = {}
  BY DEF Init, Admitted
<1>2. Connections = 0
  BY <1>1, FS_EmptySet DEF Connections, Admitted
<1>3. IsFiniteSet(Admitted)
  BY <1>1, FS_EmptySet
<1>4. AllGenuine(recvQueue)
  BY DEF Init, AllGenuine
<1>5. mpc = "idle" /\ DOMAIN clientMap = {} /\ clientCounter = 0
  BY DEF Init
<1> QED
  BY <1>2, <1>3, <1>4, <1>5 DEF SenderInv

(* Who has a descriptor when a reply is sent is the peer whose line it     *)
(* answers, as long as that one is connected, whoever leaves and whatever  *)
(* descriptors are used again.  When the sender is gone, another peer gets *)
(* the reply only if its descriptor was used again after the lookup of the *)
(* socket, and nobody gets it if the sender was gone by then.  All of that *)
(* until there were more connections than IDs.                             *)
THEOREM Answers == Spec => []RepliesToSender
<1>1. Basics /\ SenderInv => RepliesToSender
  <2> SUFFICES ASSUME Basics, SenderInv, mpc = "send", Connections < ClientAll
               PROVE  \/ Receiver = sending.peer
                      \/ ~Connected(sending.peer) /\ (Receiver = NoPeer \/ sending.to = sending.peer)
    BY DEF RepliesToSender
  <2>1. PICK p : p = sending.peer
    OBVIOUS
  <2>2. Reaches(sending) /\ Genuine(sending.client, p)
    BY <2>1 DEF SenderInv, Few
  <2>3. CASE p \in Peers /\ Open(p) # {}
    BY <2>1, <2>2, <2>3 DEF Reaches, Receiver
  <2>4. CASE p \in Peers /\ Open(p) = {}
    <3>1. ~Connected(p)
      BY <2>2, <2>4 DEF Connected, Genuine, Admitted
    <3> QED
      BY <2>1, <2>2, <2>4, <3>1 DEF Reaches, Receiver
  <2>5. CASE p \notin Peers
    <3>1. p = NoPeer
      BY <2>1, <2>5 DEF Basics, Types, SendingTypes, Sendings
    <3> QED
      BY <2>1, <2>2, <2>5, <3>1 DEF Reaches, Receiver
  <2> QED
    BY <2>3, <2>4, <2>5
<1>2. Basics /\ SenderInv /\ [Next]_vars => SenderInv'
  BY SenderStep
<1>3. Spec => []SenderInv
  BY <1>2, SenderInit, BasicsHold, PTL DEF Spec
<1> QED
  BY <1>1, <1>3, BasicsHold, PTL
=============================================================================
