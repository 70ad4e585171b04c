----------------------------- MODULE PlayQueue -----------------------------
(***************************************************************************)
(* ActivePlaylist on top of Playlist (src/src/ActivePlaylist.cpp,          *)
(* Playlist.cpp): the songs, the play queue, the current song, the play    *)
(* flags and the GStreamer playbin they drive.                             *)
(*                                                                         *)
(* m_songs is a std::deque<Song>; m_playQueue and m_currentSong hold       *)
(* pointers into it.  A pointer names a slot and not a song: inserting or  *)
(* erasing in the middle moves songs from slot to slot and gives up or     *)
(* takes a slot at the nearer end.  So the deque is two sequences of the   *)
(* same length, the song IDs (songs) and the addresses of their slots      *)
(* (slots), and every pointer is an address.                               *)
(*                                                                         *)
(* An operation the language leaves undefined (following a pointer to a    *)
(* slot that is gone, erasing end()) sets broken, after which nothing is   *)
(* claimed and nothing happens.  The lookups that fill a remote song in    *)
(* are in SongUpdate.tla; here the uri of a song is its ID.                *)
(***************************************************************************)
EXTENDS Integers, SequencesExt

CONSTANTS
    Addrs,          \* addresses a slot of m_songs may have
    Null,           \* the null pointer
    MaxAdds,        \* bound: how many songs are ever added
    Ops             \* the operations a session uses

ASSUME PlayQueueAssumption ==
    /\ Null \notin Addrs
    /\ MaxAdds \in Nat

VARIABLES
    songs,          \* the IDs in m_songs
    slots,          \* the addresses of the slots of m_songs
    playQueue,      \* m_playQueue
    currentSong,    \* m_currentSong
    songCounter,    \* m_songCounter
    consume, random, repeat,    \* PF_Consume, PF_Random, PF_Repeat
    single,         \* PF_Single and PF_SingleOS, as hasSingle() reads them
    state,          \* the state get_state of the playbin returns
    target,         \* the state the playbin was last set to
    uri,            \* the song in the playbin's uri property, NoUri for none
    tempChange,     \* g_tempChange
    broken          \* an undefined operation was executed

listVars == <<songs, slots, playQueue, currentSong>>
flagVars == <<consume, random, repeat, single>>
binVars == <<state, target, uri, tempChange>>
vars == <<songs, slots, playQueue, currentSong, songCounter, consume, random,
          repeat, single, state, target, uri, tempChange, broken>>

NoUri == -1
States == {"null", "ready", "paused", "playing"}

Init == /\ songs = <<>>
        /\ slots = <<>>
        /\ playQueue = <<>>
        /\ currentSong = Null
        /\ songCounter = 0
        /\ consume = FALSE /\ random = FALSE /\ repeat = FALSE
        /\ single = "false"
        /\ state = "null" /\ target = "null"
        /\ uri = NoUri
        /\ tempChange = FALSE
        /\ broken = FALSE
-----------------------------------------------------------------------------
(* The four list variables as one value, for the operations that pass it   *)
(* from one call to the next.                                              *)
List == [songs |-> songs, slots |-> slots, queue |-> playQueue, current |-> currentSong]

SetList(l) == /\ songs' = l.songs
              /\ slots' = l.slots
              /\ playQueue' = l.queue
              /\ currentSong' = l.current

Live(l, a) == a \in ToSet(l.slots)
(* Where the only x of a sequence without repetitions is.                  *)
IndexOf(s, x) == CHOOSE i \in DOMAIN s : s[i] = x
SongAt(l, a) == l.songs[IndexOf(l.slots, a)]

(* std::find: the first position of x in s, or the one past the end.       *)
Find(s, x) == LET i == SelectInSeq(s, LAMBDA y : y = x) IN IF i = 0 THEN Len(s) + 1 ELSE i

(* Every order of the elements of s.                                       *)
Shuffles(s) ==
    {r \in [1..Len(s) -> ToSet(s)] :
        \A x \in ToSet(s) : Cardinality({i \in 1..Len(s) : r[i] = x})
                              = Cardinality({i \in 1..Len(s) : s[i] = x})}

(* Mutant: the songs behind it move up, but no slot is given up.           *)
Erase_KeepsSlot(l, i) == [l EXCEPT !.songs = RemoveAt(l.songs, i)]

(* m_songs.erase: the shorter side moves up and its end slot is given up.  *)
Erase(l, i) ==
    [l EXCEPT !.songs = RemoveAt(l.songs, i),
              !.slots = IF i - 1 < Len(l.slots) \div 2 THEN Tail(l.slots) ELSE Front(l.slots)]

(* _addedSong: behind the queue, or anywhere in it when random is on.      *)
Added(l, a) ==
    IF random
    THEN {[l EXCEPT !.queue = InsertAt(l.queue, i, a)] : i \in 1..(Len(l.queue) + 1)}
    ELSE {[l EXCEPT !.queue = Append(l.queue, a)]}

(* Mutant: the rebuilt queue starts at the second song when there is one.  *)
ResetQueue_SkipsFirst(l) ==
    [l EXCEPT !.queue = IF Len(l.slots) > 1 THEN Tail(l.slots) ELSE l.slots]

(* resetQueue, and resetQueue followed by shuffleQueue under random.       *)
ResetQueue(l) == [l EXCEPT !.queue = l.slots]

Requeued(l) ==
    IF random THEN {[l EXCEPT !.queue = q] : q \in Shuffles(l.slots)} ELSE {ResetQueue(l)}
-----------------------------------------------------------------------------
(* nextSong and previousSong look at the queue, after repeat rebuilt it.   *)
NothingToPlay(l) == l.songs = <<>> \/ (l.queue = <<>> /\ ~repeat)

(* Mutant: repeat does not rebuild the queue.                              *)
Rebuilt_Never(l) == {l}

Rebuilt(l) == IF repeat THEN Requeued(l) ELSE {l}

(* Mutant: without repeat the end of the queue is not looked for.          *)
After_PastEnd(q, a) ==
    LET found == Find(q, a)
        i == IF found > Len(q) THEN 1 ELSE found
    IN  IF i < Len(q) THEN q[i + 1] ELSE IF repeat THEN Head(q) ELSE "past the end"

After(q, a) ==
    LET found == Find(q, a)
        i == IF found > Len(q) THEN 1 ELSE found
    IN  IF i < Len(q) THEN q[i + 1] ELSE IF repeat THEN Head(q) ELSE Null

(* Stepping back from the first element, or from the second, does not give *)
(* the element before it, and a queue of one song is left at its front.    *)
BeforeFront == "before the front"
Before(q, a) ==
    LET found == Find(q, a)
        i == (IF found = 1 THEN Len(q) ELSE found) - 1
    IN  IF i = 0 THEN BeforeFront
        ELSE IF i > 1 THEN q[i] ELSE IF repeat THEN Last(q) ELSE Null

Choice(l, Step(_, _)) ==
    IF NothingToPlay(l) THEN {[list |-> l, song |-> Null]}
    ELSE {[list |-> m, song |-> Step(m.queue, l.current)] : m \in Rebuilt(l)}
NextSong(l) == Choice(l, After)
PreviousSong(l) == Choice(l, Before)
-----------------------------------------------------------------------------
Using(op) == op \in Ops /\ ~broken

Break == broken' = TRUE /\ UNCHANGED <<listVars, songCounter, binVars>>

(* set_state: downwards to NULL and READY at once, otherwise at once or    *)
(* later (PlaybinArrives).                                                 *)
SetState(s) == /\ target' = s
               /\ state' \in IF s \in {"null", "ready"} THEN {s} ELSE {state, s}

(* changeSong reads the URL of the current song for its log, and consume   *)
(* erases what std::find gives for it in the queue.                        *)
ResetFails(l) ==
    l.current # Null /\ (~Live(l, l.current) \/ (consume /\ l.current \notin ToSet(l.queue)))

(* Mutant: the song at the front is erased instead of the current one.     *)
Consumed_Front(l) ==
    IF consume /\ l.current # Null
    THEN Erase([l EXCEPT !.queue = RemoveAt(l.queue, Find(l.queue, l.current))], 1)
    ELSE l

(* With consume the current song leaves the queue and m_songs.             *)
Consumed(l) ==
    IF consume /\ l.current # Null
    THEN Erase([l EXCEPT !.queue = RemoveAt(l.queue, Find(l.queue, l.current))],
               IndexOf(l.slots, l.current))
    ELSE l

(* The new song's URL is read for the log, and again after consume.        *)
ChangeFails(l, a) == ResetFails(l) \/ (a # Null /\ ~Live(Consumed(l), a))

(* changeSong: the lists it may leave; a song that is not in the queue is  *)
(* put there.                                                              *)
Changed(l, a) ==
    LET m == [Consumed(l) EXCEPT !.current = a]
    IN  IF a = Null \/ a \in ToSet(m.queue) THEN {m} ELSE Added(m, a)

(* Mutant: a playing playbin is not given the new uri.                     *)
PlaybinChange_OldUri(l, a, s) ==
    IF a # Null
    THEN /\ uri' = IF state = "playing" THEN uri ELSE SongAt(l, a)
         /\ tempChange' = (tempChange \/ state = "playing")
         /\ SetState(s)
    ELSE /\ UNCHANGED <<uri, tempChange>>
         /\ target' = IF s = "playing" THEN "ready" ELSE s
         /\ state' \in IF s = "paused" THEN {"null", "paused"} ELSE {target'}

(* Mutant: no song, and the playbin is set to play all the same.           *)
PlaybinChange_PlaysNothing(l, a, s) ==
    IF a # Null
    THEN /\ uri' = SongAt(l, a)
         /\ tempChange' = (tempChange \/ state = "playing")
         /\ SetState(s)
    ELSE /\ UNCHANGED <<uri, tempChange>>
         /\ target' = s
         /\ state' \in {"null", s}

(* changeSong: what it does to the playbin.                                *)
PlaybinChange(l, a, s) ==
    IF a # Null
    THEN /\ uri' = SongAt(l, a)
         /\ tempChange' = (tempChange \/ state = "playing")
         /\ SetState(s)
    ELSE /\ UNCHANGED <<uri, tempChange>>
         /\ target' = IF s = "playing" THEN "ready" ELSE s
         /\ state' \in IF s = "paused" THEN {"null", "paused"} ELSE {target'}

ChangeSong(l, a, s) ==
    IF ChangeFails(l, a) THEN Break
    ELSE /\ \E m \in Changed(l, a) : SetList(m) /\ PlaybinChange(m, a, s)
         /\ UNCHANGED <<songCounter, broken>>
-----------------------------------------------------------------------------
(* Mutant: the new song's ID is the size of the list.                      *)
Inserted_SizeID(l, id, a, pos) ==
    LET n == Len(l.songs)
        i == IF pos < 0 THEN n ELSE IF pos = n THEN n - 1 ELSE pos
    IN  [l EXCEPT !.songs = InsertAt(l.songs, i + 1, n),
                  !.slots = IF i < n /\ (i = 0 \/ i < n \div 2)
                            THEN <<a>> \o l.slots ELSE Append(l.slots, a)]

(* addSong at position pos, -1 for the end: emplace into m_songs, the      *)
(* virtual _addedSong, and then a push_back of ActivePlaylist::addSong.    *)
Inserted(l, id, a, pos) ==
    LET n == Len(l.songs)
        i == IF pos < 0 THEN n ELSE IF pos = n THEN n - 1 ELSE pos
    IN  [l EXCEPT !.songs = InsertAt(l.songs, i + 1, id),
                  !.slots = IF i < n /\ (i = 0 \/ i < n \div 2)
                            THEN <<a>> \o l.slots ELSE Append(l.slots, a)]

AddedIndex(l, pos) == IF pos < 0 THEN Len(l.songs) + 1
                      ELSE IF pos = Len(l.songs) THEN pos ELSE pos + 1

AddSong(pos) ==
    /\ Using(IF pos < 0 THEN "add" ELSE "addid")
    /\ songCounter < MaxAdds
    /\ UNCHANGED flagVars
    /\ IF pos > Len(songs) \/ (pos = 0 /\ songs = <<>>) THEN Break
       ELSE \E a \in Addrs \ ToSet(slots) :
              LET l == Inserted(List, songCounter, a, pos)
                  added == l.slots[AddedIndex(List, pos)]
              IN  /\ \E m \in Added(l, added) :
                        SetList([m EXCEPT !.queue = Append(m.queue, added)])
                  /\ songCounter' = songCounter + 1
                  /\ UNCHANGED <<binVars, broken>>

(* What *it reads after m_playQueue.erase(it) of the element at k: the     *)
(* position now holds a neighbour, or at either end still what was erased. *)
LeftBehind(q, k) ==
    IF k = 1 \/ k = Len(q) THEN q[k]
    ELSE IF k - 1 < Len(q) \div 2 THEN q[k - 1] ELSE q[k + 1]

(* The first queue entry that shows the song, if looking does not follow a *)
(* pointer to a slot that is gone.                                         *)
Shows(l, id, k) == Live(l, l.queue[k]) /\ SongAt(l, l.queue[k]) = id
SearchFails(l, id) ==
    \E k \in DOMAIN l.queue : /\ ~Live(l, l.queue[k])
                              /\ \A j \in 1..(k - 1) : ~Shows(l, id, j)

(* removeSongID: take the song's entry out of the queue, move on when *it  *)
(* is the current song, and then erase the song from m_songs.              *)
EraseID(l, id) == IF id \in ToSet(l.songs) THEN Erase(l, IndexOf(l.songs, id)) ELSE l

MoveOnAndErase(l, id) ==
    IF l.queue = <<>>
    THEN /\ SetList(EraseID(l, id))
         /\ SetState("null")
         /\ UNCHANGED <<uri, tempChange, songCounter, broken>>
    ELSE \E c \in NextSong(l) :
            IF ChangeFails(c.list, c.song) THEN Break
            ELSE /\ \E m \in Changed(c.list, c.song) :
                       /\ SetList(EraseID(m, id))
                       /\ PlaybinChange(m, c.song, state)
                 /\ UNCHANGED <<songCounter, broken>>

RemoveSongID(id) ==
    /\ Using("delete")
    /\ id \in ToSet(songs)
    /\ UNCHANGED flagVars
    /\ LET hits == {k \in DOMAIN playQueue : Shows(List, id, k)}
           k == CHOOSE i \in hits : \A j \in hits : i <= j
           l == IF hits = {} THEN List ELSE [List EXCEPT !.queue = RemoveAt(playQueue, k)]
       IN  IF SearchFails(List, id) THEN Break
           ELSE \E seen \in IF hits = {} THEN BOOLEAN
                            ELSE {LeftBehind(playQueue, k) = currentSong} :
                  IF seen THEN MoveOnAndErase(l, id)
                  ELSE /\ SetList(EraseID(l, id))
                       /\ UNCHANGED <<songCounter, binVars, broken>>
-----------------------------------------------------------------------------
PlaySongID(id) ==
    /\ Using("play")
    /\ id \in ToSet(songs)
    /\ UNCHANGED flagVars
    /\ ChangeSong(List, slots[IndexOf(songs, id)], "playing")

(* play(): the current song again when the playbin plays, else the front   *)
(* of a rebuilt queue.                                                     *)
PlayFront ==
    IF state = "playing" THEN ChangeSong(List, currentSong, "playing")
    ELSE /\ songs # <<>>
         /\ \E l \in Requeued(List) : ChangeSong(l, Head(l.queue), "playing")

(* resume(), from "pause 0".                                               *)
Resume ==
    /\ Using("pause")
    /\ UNCHANGED flagVars
    /\ IF currentSong = Null THEN PlayFront
       ELSE /\ state = "paused"
            /\ SetState("playing")
            /\ UNCHANGED <<listVars, songCounter, uri, tempChange, broken>>

Pause ==
    /\ Using("pause")
    /\ SetState("paused")
    /\ UNCHANGED <<listVars, songCounter, flagVars, uri, tempChange, broken>>

SkipNext ==
    /\ Using("next")
    /\ UNCHANGED flagVars
    /\ \E c \in NextSong(List) : ChangeSong(c.list, c.song, state)

SkipPrevious ==
    /\ Using("previous")
    /\ UNCHANGED flagVars
    /\ \E c \in PreviousSong(List) : ChangeSong(c.list, c.song, state)

(* doStatus asks for the next song, which rebuilds the queue under repeat. *)
Status ==
    /\ Using("status")
    /\ currentSong # Null
    /\ UNCHANGED <<songCounter, flagVars, binVars>>
    /\ IF state \in {"paused", "playing"} /\ ~Live(List, currentSong)
       THEN broken' = TRUE /\ UNCHANGED listVars
       ELSE \E c \in NextSong(List) :
              /\ SetList(c.list)
              /\ broken' = (c.song # Null /\ ~Live(List, c.song))

SetConsume == /\ Using("consume")
              /\ consume' = ~consume
              /\ UNCHANGED <<listVars, songCounter, random, repeat, single, binVars, broken>>

SetRepeat == /\ Using("repeat")
             /\ repeat' = ~repeat
             /\ UNCHANGED <<listVars, songCounter, consume, random, single, binVars, broken>>

(* setRandom: turning it on shuffles the queue, turning it off rebuilds it. *)
SetRandom == /\ Using("random")
             /\ random' = ~random
             /\ playQueue' \in IF random THEN {slots} ELSE Shuffles(playQueue)
             /\ UNCHANGED <<songs, slots, currentSong, songCounter, consume, repeat,
                            single, binVars, broken>>

SetSingle(s) == /\ Using("single")
                /\ s # single
                /\ single' = s
                /\ UNCHANGED <<listVars, songCounter, consume, random, repeat, binVars, broken>>
-----------------------------------------------------------------------------
(* on_about_to_finish, from the streaming thread of a playing playbin.     *)
AboutToFinish ==
    /\ Using("finish")
    /\ state = "playing"
    /\ UNCHANGED <<consume, random, repeat>>
    /\ IF tempChange
       THEN /\ tempChange' = FALSE
            /\ UNCHANGED <<listVars, songCounter, single, state, target, uri, broken>>
       ELSE IF single # "false"
       THEN /\ single' = IF single = "oneshot" THEN "false" ELSE single
            /\ IF repeat THEN ChangeSong(List, currentSong, "playing")
               ELSE /\ SetState("null")
                    /\ UNCHANGED <<listVars, songCounter, uri, tempChange, broken>>
       ELSE /\ UNCHANGED single
            /\ \E c \in NextSong(List) : ChangeSong(c.list, c.song, "playing")

(* on_bus_message: MESSAGE_BUFFERING below and at 100 percent, and         *)
(* MESSAGE_CLOCK_LOST, set the state whatever the user asked for.          *)
BusSetsState ==
    /\ Using("bus")
    /\ target # "null"
    /\ \E s \in {"paused", "playing"} : SetState(s)
    /\ UNCHANGED <<listVars, songCounter, flagVars, uri, tempChange, broken>>

(* MESSAGE_TAG, and source-setup: they write through m_currentSong.        *)
BusReadsCurrent ==
    /\ Using("bus")
    /\ target \in {"paused", "playing"}
    /\ ~Live(List, currentSong)
    /\ UNCHANGED flagVars
    /\ Break

(* The playbin reaches the state it was set to, or gives up (an error on   *)
(* the bus, which on_bus_message only logs).                               *)
PlaybinArrives ==
    /\ ~broken
    /\ state # target
    /\ \/ state' = target /\ UNCHANGED target
       \/ target' = state /\ UNCHANGED state
    /\ UNCHANGED <<listVars, songCounter, flagVars, uri, tempChange, broken>>

Next == \/ AddSong(-1)
        \/ \E pos \in 0..MaxAdds : AddSong(pos)
        \/ \E id \in 0..MaxAdds : RemoveSongID(id) \/ PlaySongID(id)
        \/ Resume \/ Pause \/ SkipNext \/ SkipPrevious \/ Status
        \/ SetConsume \/ SetRepeat \/ SetRandom
        \/ \E s \in {"false", "true", "oneshot"} : SetSingle(s)
        \/ AboutToFinish \/ BusSetsState \/ BusReadsCurrent \/ PlaybinArrives

Spec == Init /\ [][Next]_vars
-----------------------------------------------------------------------------
(* Types; every slot of m_songs has one address and holds one song.        *)
TypeOK ==
    /\ songs \in Seq(0..(MaxAdds - 1))
    /\ slots \in Seq(Addrs)
    /\ Len(slots) = Len(songs)
    /\ \A i, j \in 1..Len(slots) : slots[i] = slots[j] => i = j
    /\ playQueue \in Seq(Addrs)
    /\ currentSong \in Addrs \cup {Null}
    /\ songCounter \in 0..MaxAdds
    /\ consume \in BOOLEAN /\ random \in BOOLEAN /\ repeat \in BOOLEAN
    /\ single \in {"false", "true", "oneshot"}
    /\ state \in States /\ target \in States
    /\ uri \in -1..(MaxAdds - 1)
    /\ tempChange \in BOOLEAN
    /\ broken \in BOOLEAN

(* An ID is given to one song and never again, so that playid, deleteid    *)
(* and indexOf, which take the first match, mean the song the client was   *)
(* told about, whatever was inserted, consumed or deleted.                 *)
IDsUnique ==
    /\ \A i, j \in 1..Len(songs) : songs[i] = songs[j] => i = j
    /\ \A i \in 1..Len(songs) : songs[i] < songCounter

(* Playing, skipping, finishing, asking for the status and changing an     *)
(* option lose no song while consume is off; consume costs the current     *)
(* song only.                                                              *)
SongsSurvive ==
    [][ \/ \E id \in ToSet(songs) : RemoveSongID(id)
        \/ \A id \in ToSet(songs) \ ToSet(songs') :
              consume /\ Live(List, currentSong) /\ id = SongAt(List, currentSong) ]_vars

(* The play queue points at every song and at nothing else: no song is     *)
(* left out of the rotation and no entry points into freed memory.  Holds  *)
(* in sessions that add at the end and neither delete nor consume.         *)
QueueCoversSongs == ToSet(playQueue) = ToSet(slots)

(* nextSong and previousSong look the current song up in the queue; that   *)
(* they do not find it "should hopefully never happen".                    *)
CurrentInQueue == (currentSong # Null /\ ~broken) => currentSong \in ToSet(playQueue)

(* The playbin's uri is the current song's, so that what status reports is *)
(* what is heard.                                                          *)
UriOfCurrent == currentSong # Null => uri = SongAt(List, currentSong)

(* With repeat and without random and single, a finished song is followed  *)
(* by its successor in the playlist, and the last one by the first.        *)
RepeatCycles ==
    [][ (AboutToFinish /\ ~tempChange /\ single = "false" /\ repeat /\ ~random /\ currentSong # Null)
        => LET i == IndexOf(slots, currentSong)
           IN  currentSong' = slots[IF i = Len(slots) THEN 1 ELSE i + 1] ]_vars

(* No call makes the playbin play when there is no current song, whatever  *)
(* was deleted or consumed: only the bus handlers for buffering and a lost *)
(* clock do, which set the state whatever m_currentSong is.                *)
Plays == "playing" \in {state, target}
OnlyMessagesPlayNothing ==
    [][ (Plays' /\ currentSong' = Null /\ ~(Plays /\ currentSong = Null)) => BusSetsState ]_vars

(* In sessions that add at the end the one undefined step is that of a bus *)
(* handler that writes through m_currentSong when there is none.           *)
UndefinedWithoutSong ==
    [][ (broken' /\ ~broken) => (BusReadsCurrent /\ currentSong = Null) ]_vars

(* A song that finishes, out of several, with repeat, random and single    *)
(* off, is followed by another song or by silence.                         *)
FinishAdvances ==
    [][ (AboutToFinish /\ ~tempChange /\ single = "false" /\ ~repeat /\ ~random
            /\ currentSong # Null /\ Len(songs) > 1)
        => currentSong' # currentSong ]_vars
=============================================================================
