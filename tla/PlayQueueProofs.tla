-------------------------- MODULE PlayQueueProofs --------------------------
(***************************************************************************)
(* Theorems about the play queue for every number of songs and addresses:  *)
(* in every session types, unique IDs, that songs are not lost and that no *)
(* call plays nothing; in sessions that add at the end, and neither delete *)
(* nor consume, that the queue has every song, the playbin the current     *)
(* one, and only a bus handler without a song does what is undefined.      *)
(***************************************************************************)
EXTENDS PlayQueue, SequenceLemmas

(* The list with the IDs below n that ActivePlaylist's calls work on.      *)
ListOK(l, n) ==
    /\ l \in [songs : Seq(0..(n - 1)), slots : Seq(Addrs), queue : Seq(Addrs),
              current : Addrs \cup {Null}]
    /\ Len(l.slots) = Len(l.songs)
    /\ Distinct(l.slots) /\ Distinct(l.songs)

(* The two lists have the same songs in the same slots.                    *)
SameSongs(m, l) == m.songs = l.songs /\ m.slots = l.slots
-----------------------------------------------------------------------------
(* A shuffle keeps the elements.                                           *)
LEMMA ShufflesProperties ==
    ASSUME NEW S, NEW s \in Seq(S), NEW r \in Shuffles(s)
    PROVE  /\ r \in Seq(S) /\ Len(r) = Len(s) /\ ToSet(r) = ToSet(s)
           /\ Distinct(s) => Distinct(r)
<1>1. /\ r \in [1..Len(s) -> ToSet(s)]
      /\ \A x \in ToSet(s) : Cardinality({i \in 1..Len(s) : r[i] = x})
                               = Cardinality({i \in 1..Len(s) : s[i] = x})
  BY DEF Shuffles
<1>2. ToSet(s) \subseteq S /\ Len(s) \in Nat
  BY ToSetProperties
<1>3. r \in Seq(S) /\ Len(r) = Len(s)
  BY <1>1, <1>2
<1>4. \A T : T \subseteq 1..Len(s) => IsFiniteSet(T)
  <2>1. IsFiniteSet(1..Len(s))
    BY <1>2, FS_Interval
  <2> QED
    BY <2>1, FS_Subset
<1>5. ASSUME NEW x \in ToSet(s) PROVE x \in ToSet(r)
  <2>1. {i \in 1..Len(s) : s[i] = x} # {}
    BY ToSetProperties
  <2>2. IsFiniteSet({i \in 1..Len(s) : s[i] = x})
    BY <1>4
  <2>3. Cardinality({i \in 1..Len(s) : s[i] = x}) # 0
    BY <2>1, <2>2, FS_EmptySet
  <2>4. {i \in 1..Len(s) : r[i] = x} # {}
    BY <1>1, <2>3, FS_EmptySet
  <2> QED
    BY <1>3, <2>4, ToSetProperties
<1>6. ToSet(r) \subseteq ToSet(s)
  BY <1>1, <1>3, ToSetProperties
<1>7. ASSUME Distinct(s), NEW j \in 1..Len(s), NEW k \in 1..Len(s), r[j] = r[k]
      PROVE  j = k
  <2>1. PICK i \in 1..Len(s) : s[i] = r[j]
    BY <1>1, ToSetProperties
  <2>2. {h \in 1..Len(s) : s[h] = r[j]} = {i}
    BY <1>7, <2>1 DEF Distinct
  <2>3. Cardinality({h \in 1..Len(s) : r[h] = r[j]}) = 1
    <3>1. r[j] \in ToSet(s)
      BY <1>1
    <3>2. Cardinality({h \in 1..Len(s) : r[h] = r[j]}) = Cardinality({h \in 1..Len(s) : s[h] = r[j]})
      BY <1>1, <3>1
    <3> QED
      BY <2>2, <3>2, FS_Singleton, Zenon
  <2>4. IsFiniteSet({h \in 1..Len(s) : r[h] = r[j]})
    BY <1>4
  <2>5. PICK y : {h \in 1..Len(s) : r[h] = r[j]} = {y}
    BY <2>3, <2>4, FS_Singleton
  <2> QED
    BY <1>7, <2>5
<1> QED
  BY <1>3, <1>5, <1>6, <1>7 DEF Distinct

(* std::find gives an index of what is in the sequence.                    *)
LEMMA FindProperties ==
    ASSUME NEW S, NEW s \in Seq(S), NEW x
    PROVE  /\ x \in ToSet(s) => Find(s, x) \in 1..Len(s) /\ s[Find(s, x)] = x
           /\ x \notin ToSet(s) => Find(s, x) = Len(s) + 1
<1> DEFINE I == {i \in 1..Len(s) : s[i] = x}
<1>1. SelectInSeq(s, LAMBDA y : y = x) = IF I # {} THEN Min(I) ELSE 0
  BY DEF SelectInSeq
<1>2. CASE x \in ToSet(s)
  <2>1. I # {} /\ Min(I) \in I /\ Min(I) # 0
    BY <1>2, FirstIndex
  <2>2. Find(s, x) = Min(I)
    BY <1>1, <2>1 DEF Find
  <2> QED
    BY <1>2, <2>1, <2>2
<1>3. CASE x \notin ToSet(s)
  <2>1. I = {}
    BY <1>3, ToSetProperties
  <2> QED
    BY <1>1, <1>3, <2>1 DEF Find
<1> QED
  BY <1>2, <1>3

(* The index of an element of a sequence.                                  *)
LEMMA IndexOfProperties ==
    ASSUME NEW S, NEW s \in Seq(S), NEW x \in ToSet(s)
    PROVE  IndexOf(s, x) \in 1..Len(s) /\ s[IndexOf(s, x)] = x
<1>1. \E i \in DOMAIN s : s[i] = x
  BY ToSetProperties
<1> QED
  BY <1>1 DEF IndexOf
-----------------------------------------------------------------------------
(* Erasing a song of m_songs gives up one slot and one ID.                 *)
LEMMA EraseOK ==
    ASSUME NEW n \in Nat, NEW l, ListOK(l, n), NEW i \in 1..Len(l.songs)
    PROVE  /\ ListOK(Erase(l, i), n)
           /\ Erase(l, i).queue = l.queue /\ Erase(l, i).current = l.current
           /\ ToSet(Erase(l, i).slots) \subseteq ToSet(l.slots)
           /\ ToSet(l.songs) \ {l.songs[i]} \subseteq ToSet(Erase(l, i).songs)
<1> DEFINE left == RemoveAt(l.songs, i)
           kept == IF i - 1 < Len(l.slots) \div 2 THEN Tail(l.slots) ELSE Front(l.slots)
<1>1. /\ l.songs \in Seq(0..(n - 1)) /\ l.slots \in Seq(Addrs) /\ Len(l.slots) = Len(l.songs)
      /\ l.queue \in Seq(Addrs) /\ l.current \in Addrs \cup {Null}
      /\ Distinct(l.slots) /\ Distinct(l.songs) /\ l.slots # <<>>
  BY DEF ListOK
<1>2. /\ left \in Seq(0..(n - 1)) /\ Len(left) = Len(l.songs) - 1 /\ Distinct(left)
      /\ ToSet(l.songs) \ {l.songs[i]} \subseteq ToSet(left)
  BY <1>1, RemoveAtProperties, RemoveAtToSet
<1>3. /\ kept \in Seq(Addrs) /\ Len(kept) = Len(l.slots) - 1 /\ Distinct(kept)
      /\ ToSet(kept) \subseteq ToSet(l.slots)
  BY <1>1, TailFrontToSet
<1>4. /\ Erase(l, i) = [l EXCEPT !.songs = left, !.slots = kept]
      /\ l = [songs |-> l.songs, slots |-> l.slots, queue |-> l.queue, current |-> l.current]
  BY DEF Erase, ListOK
<1>5. /\ Erase(l, i).songs = left /\ Erase(l, i).slots = kept
      /\ Erase(l, i).queue = l.queue /\ Erase(l, i).current = l.current
      /\ Erase(l, i) = [songs |-> left, slots |-> kept, queue |-> l.queue, current |-> l.current]
  BY <1>4
<1> HIDE DEF left, kept
<1> QED
  BY <1>1, <1>2, <1>3, <1>5 DEF ListOK

(* _addedSong puts the song's address into the queue.                      *)
LEMMA AddedOK ==
    ASSUME NEW n \in Nat, NEW l, ListOK(l, n), NEW a \in Addrs, NEW m \in Added(l, a)
    PROVE  /\ ListOK(m, n) /\ SameSongs(m, l) /\ m.current = l.current
           /\ ToSet(m.queue) = ToSet(l.queue) \cup {a}
<1>1. PICK q : /\ m = [l EXCEPT !.queue = q]
               /\ \/ q = Append(l.queue, a)
                  \/ \E i \in 1..(Len(l.queue) + 1) : q = InsertAt(l.queue, i, a)
  BY DEF Added
<1>2. l.queue \in Seq(Addrs)
  BY DEF ListOK
<1>3. q \in Seq(Addrs) /\ ToSet(q) = ToSet(l.queue) \cup {a}
  <2>1. CASE q = Append(l.queue, a)
    BY <1>2, <2>1, AppendToSet
  <2>2. ASSUME NEW i \in 1..(Len(l.queue) + 1), q = InsertAt(l.queue, i, a)
        PROVE  q \in Seq(Addrs) /\ ToSet(q) = ToSet(l.queue) \cup {a}
    <3>1. InsertAt(l.queue, i, a) \in Seq(Addrs)
      BY <1>2, InsertAtProperties
    <3>2. ToSet(InsertAt(l.queue, i, a)) = ToSet(l.queue) \cup {a}
      BY <1>2, InsertAtToSet
    <3> QED
      BY <2>2, <3>1, <3>2
  <2> QED
    BY <1>1, <2>1, <2>2
<1> QED
  BY <1>1, <1>3 DEF ListOK, SameSongs

(* resetQueue and shuffleQueue: the queue has every slot.                  *)
LEMMA RequeuedOK ==
    ASSUME NEW n \in Nat, NEW l, ListOK(l, n), NEW m \in Requeued(l)
    PROVE  /\ ListOK(m, n) /\ SameSongs(m, l) /\ m.current = l.current
           /\ ToSet(m.queue) = ToSet(l.slots) /\ Len(m.queue) = Len(l.slots)
<1>1. l.slots \in Seq(Addrs)
  BY DEF ListOK
<1>2. PICK q : m = [l EXCEPT !.queue = q] /\ (q = l.slots \/ q \in Shuffles(l.slots))
  BY DEF Requeued, ResetQueue
<1>3. q \in Seq(Addrs) /\ ToSet(q) = ToSet(l.slots) /\ Len(q) = Len(l.slots)
  BY <1>1, <1>2, ShufflesProperties
<1> QED
  BY <1>2, <1>3 DEF ListOK, SameSongs

(* What the repeat flag makes of the queue before the next song is taken.  *)
LEMMA RebuiltOK ==
    ASSUME NEW n \in Nat, NEW l, ListOK(l, n), ~NothingToPlay(l), NEW m \in Rebuilt(l)
    PROVE  /\ ListOK(m, n) /\ SameSongs(m, l) /\ m.current = l.current
           /\ m.queue # <<>>
           /\ ToSet(l.queue) = ToSet(l.slots) => ToSet(m.queue) = ToSet(m.slots)
<1>1. l.songs # <<>> /\ l.songs \in Seq(0..(n - 1)) /\ l.slots \in Seq(Addrs) /\ Len(l.slots) = Len(l.songs)
  BY DEF ListOK, NothingToPlay
<1>2. CASE repeat
  <2>1. m \in Requeued(l)
    BY <1>2 DEF Rebuilt
  <2>2. Len(m.queue) # 0 /\ m.queue \in Seq(Addrs)
    BY <1>1, <2>1, RequeuedOK, SMTT(40) DEF ListOK
  <2> QED
    BY <2>1, <2>2, RequeuedOK DEF SameSongs
<1>3. CASE ~repeat
  BY <1>3 DEF Rebuilt, NothingToPlay, SameSongs
<1> QED
  BY <1>2, <1>3

(* The song after another in a queue is one of the queue, or none.         *)
LEMMA AfterProperties ==
    ASSUME NEW q \in Seq(Addrs), q # <<>>, NEW a
    PROVE  After(q, a) \in ToSet(q) \cup {Null}
<1> DEFINE found == Find(q, a)
           i == IF found > Len(q) THEN 1 ELSE found
<1>1. found \in 1..(Len(q) + 1) /\ Len(q) \in Nat \ {0}
  BY FindProperties
<1>2. i \in 1..Len(q)
  BY <1>1
<1>3. After(q, a) = IF i < Len(q) THEN q[i + 1] ELSE IF repeat THEN Head(q) ELSE Null
  BY DEF After
<1>4. i < Len(q) => i + 1 \in 1..Len(q)
  BY <1>1, <1>2
<1>5. Head(q) = q[1] /\ 1 \in 1..Len(q)
  BY <1>1
<1> HIDE DEF i
<1> QED
  BY <1>3, <1>4, <1>5, ToSetProperties

(* nextSong keeps the songs; the one it returns is in the queue.           *)
LEMMA NextSongOK ==
    ASSUME NEW n \in Nat, NEW l, ListOK(l, n), NEW c \in NextSong(l)
    PROVE  /\ ListOK(c.list, n) /\ SameSongs(c.list, l) /\ c.list.current = l.current
           /\ c.song \in ToSet(c.list.queue) \cup {Null}
           /\ ToSet(l.queue) = ToSet(l.slots) => ToSet(c.list.queue) = ToSet(c.list.slots)
<1>1. CASE NothingToPlay(l)
  <2>1. c = [list |-> l, song |-> Null]
    BY <1>1 DEF NextSong, Choice
  <2> QED
    BY <2>1 DEF SameSongs
<1>2. CASE ~NothingToPlay(l)
  <2>1. PICK m \in Rebuilt(l) : c = [list |-> m, song |-> After(m.queue, l.current)]
    BY <1>2 DEF NextSong, Choice
  <2>2. /\ ListOK(m, n) /\ SameSongs(m, l) /\ m.current = l.current /\ m.queue # <<>>
        /\ ToSet(l.queue) = ToSet(l.slots) => ToSet(m.queue) = ToSet(m.slots)
    BY <1>2, <2>1, RebuiltOK
  <2>3. After(m.queue, l.current) \in ToSet(m.queue) \cup {Null}
    BY <2>2, AfterProperties DEF ListOK
  <2>4. c.list = m /\ c.song = After(m.queue, l.current)
    BY <2>1
  <2> QED
    BY <2>2, <2>3, <2>4
<1> QED
  BY <1>1, <1>2

(* previousSong keeps the songs.                                           *)
LEMMA PreviousSongOK ==
    ASSUME NEW n \in Nat, NEW l, ListOK(l, n), NEW c \in PreviousSong(l)
    PROVE  ListOK(c.list, n) /\ SameSongs(c.list, l) /\ c.list.current = l.current
<1>1. CASE NothingToPlay(l)
  <2>1. c = [list |-> l, song |-> Null]
    BY <1>1 DEF PreviousSong, Choice
  <2> QED
    BY <2>1 DEF SameSongs
<1>2. CASE ~NothingToPlay(l)
  <2>1. PICK m \in Rebuilt(l) : c = [list |-> m, song |-> Before(m.queue, l.current)]
    BY <1>2 DEF PreviousSong, Choice
  <2>2. c.list = m
    BY <2>1
  <2> QED
    BY <1>2, <2>1, <2>2, RebuiltOK
<1> QED
  BY <1>1, <1>2
-----------------------------------------------------------------------------
(* Consuming costs the current song and no other.                          *)
LEMMA ConsumedOK ==
    ASSUME NEW n \in Nat, NEW l, ListOK(l, n), ~ResetFails(l)
    PROVE  /\ ListOK(Consumed(l), n) /\ Consumed(l).current = l.current
           /\ ToSet(Consumed(l).slots) \subseteq ToSet(l.slots)
           /\ \A id \in ToSet(l.songs) \ ToSet(Consumed(l).songs) :
                 consume /\ Live(l, l.current) /\ id = SongAt(l, l.current)
<1>1. CASE ~(consume /\ l.current # Null)
  BY <1>1 DEF Consumed
<1>2. CASE consume /\ l.current # Null
  <2>1. /\ l.queue \in Seq(Addrs) /\ l.slots \in Seq(Addrs) /\ Len(l.slots) = Len(l.songs)
        /\ l.current \in ToSet(l.queue) /\ l.current \in ToSet(l.slots)
    BY <1>2 DEF ListOK, ResetFails, Live
  <2> DEFINE q == RemoveAt(l.queue, Find(l.queue, l.current))
             m == [l EXCEPT !.queue = q]
             i == IndexOf(l.slots, l.current)
  <2>2. q \in Seq(Addrs)
    BY <2>1, FindProperties, RemoveAtProperties
  <2>3. i \in 1..Len(l.songs)
    BY <2>1, IndexOfProperties
  <2>4. Consumed(l) = Erase(m, i) /\ SongAt(l, l.current) = l.songs[i]
    BY <1>2 DEF Consumed, SongAt
  <2> HIDE DEF q, i
  <2>5. ListOK(m, n) /\ m.songs = l.songs /\ m.slots = l.slots /\ m.current = l.current
    BY <2>2 DEF ListOK
  <2> HIDE DEF m
  <2>6. /\ ListOK(Erase(m, i), n) /\ Erase(m, i).current = m.current
        /\ ToSet(Erase(m, i).slots) \subseteq ToSet(m.slots)
        /\ ToSet(m.songs) \ {m.songs[i]} \subseteq ToSet(Erase(m, i).songs)
    BY <2>3, <2>5, EraseOK
  <2> QED
    BY <1>2, <2>1, <2>4, <2>5, <2>6 DEF Live
<1> QED
  BY <1>1, <1>2

(* changeSong, when it does nothing undefined, makes a live song current,  *)
(* or none, and has put it in the queue.                                   *)
LEMMA ChangedOK ==
    ASSUME NEW n \in Nat, NEW l, ListOK(l, n), NEW a, ~ChangeFails(l, a), NEW m \in Changed(l, a)
    PROVE  /\ ListOK(m, n) /\ m.current = a /\ SameSongs(m, Consumed(l))
           /\ a # Null => a \in ToSet(m.slots) /\ a \in ToSet(m.queue)
           /\ ToSet(m.queue) = ToSet(Consumed(l).queue) \cup ({a} \ {Null})
<1> DEFINE k == [Consumed(l) EXCEPT !.current = a]
<1>1. ListOK(Consumed(l), n) /\ (a = Null \/ a \in ToSet(Consumed(l).slots))
  BY ConsumedOK DEF ChangeFails, Live
<1>2. ToSet(Consumed(l).slots) \subseteq Addrs
  BY <1>1, ToSetProperties DEF ListOK
<1>3. /\ ListOK(k, n) /\ SameSongs(k, Consumed(l)) /\ k.current = a
      /\ k.queue = Consumed(l).queue
  BY <1>1, <1>2 DEF ListOK, SameSongs
<1>4. m \in IF a = Null \/ a \in ToSet(k.queue) THEN {k} ELSE Added(k, a)
  BY DEF Changed
<1> HIDE DEF k
<1>5. CASE a = Null \/ a \in ToSet(k.queue)
  BY <1>1, <1>3, <1>4, <1>5 DEF SameSongs
<1>6. CASE ~(a = Null \/ a \in ToSet(k.queue))
  <2>1. m \in Added(k, a) /\ a \in Addrs
    BY <1>1, <1>2, <1>4, <1>6
  <2>2. /\ ListOK(m, n) /\ SameSongs(m, k) /\ m.current = k.current
        /\ ToSet(m.queue) = ToSet(k.queue) \cup {a}
    BY <1>3, <2>1, AddedOK
  <2> QED
    BY <1>1, <1>3, <1>6, <2>2 DEF SameSongs
<1> QED
  BY <1>5, <1>6

(* The ID of a song that is in the list is one that was given.             *)
LEMMA SongAtOK ==
    ASSUME NEW n \in Nat, NEW l, ListOK(l, n), NEW a \in ToSet(l.slots)
    PROVE  SongAt(l, a) \in 0..(n - 1)
<1>1. /\ l.songs \in Seq(0..(n - 1)) /\ l.slots \in Seq(Addrs) /\ Len(l.slots) = Len(l.songs)
  BY DEF ListOK
<1>2. IndexOf(l.slots, a) \in 1..Len(l.songs)
  BY <1>1, IndexOfProperties
<1> QED
  BY <1>1, <1>2, ElementOfSeq DEF SongAt

(* removeSong erases the song that has the ID, if any.                     *)
LEMMA EraseIDOK ==
    ASSUME NEW n \in Nat, NEW l, ListOK(l, n), NEW id
    PROVE  ListOK(EraseID(l, id), n) /\ EraseID(l, id).current = l.current
<1>1. l.songs \in Seq(0..(n - 1))
  BY DEF ListOK
<1>2. CASE id \in ToSet(l.songs)
  <2>1. IndexOf(l.songs, id) \in 1..Len(l.songs)
    BY <1>1, <1>2, IndexOfProperties
  <2> QED
    BY <1>2, <2>1, EraseOK DEF EraseID
<1>3. CASE id \notin ToSet(l.songs)
  BY <1>3 DEF EraseID
<1> QED
  BY <1>2, <1>3

(* addSong gives one slot and one new ID, and takes no song away.          *)
LEMMA InsertedOK ==
    ASSUME NEW n \in Nat, NEW l, ListOK(l, n), NEW a \in Addrs \ ToSet(l.slots),
           NEW pos \in Int, pos >= -1, pos <= Len(l.songs), ~(pos = 0 /\ l.songs = <<>>)
    PROVE  /\ ListOK(Inserted(l, n, a, pos), n + 1)
           /\ Inserted(l, n, a, pos).queue = l.queue /\ Inserted(l, n, a, pos).current = l.current
           /\ Inserted(l, n, a, pos).slots[AddedIndex(l, pos)] \in Addrs
           /\ ToSet(l.songs) \subseteq ToSet(Inserted(l, n, a, pos).songs)
           /\ pos = -1 => /\ Inserted(l, n, a, pos).songs = Append(l.songs, n)
                          /\ Inserted(l, n, a, pos).slots = Append(l.slots, a)
                          /\ Inserted(l, n, a, pos).slots[AddedIndex(l, pos)] = a
<1> DEFINE len == Len(l.songs)
           i == IF pos < 0 THEN len ELSE IF pos = len THEN len - 1 ELSE pos
           new == InsertAt(l.songs, i + 1, n)
           places == IF i < len /\ (i = 0 \/ i < len \div 2) THEN <<a>> \o l.slots ELSE Append(l.slots, a)
<1>1. /\ l.songs \in Seq(0..(n - 1)) /\ l.slots \in Seq(Addrs) /\ Len(l.slots) = len
      /\ l.queue \in Seq(Addrs) /\ l.current \in Addrs \cup {Null} /\ len \in Nat
      /\ Distinct(l.slots) /\ Distinct(l.songs)
  BY DEF ListOK
<1>2. i \in 0..len
  <2>1. len = 0 => pos = -1
    BY <1>1
  <2> QED
    BY <1>1, <2>1
<1>3. l.songs \in Seq(0..n) /\ n \in 0..n /\ n \notin ToSet(l.songs)
  <2>1. ToSet(l.songs) \subseteq 0..(n - 1) /\ 0..(n - 1) \subseteq 0..n
    BY <1>1, ToSetProperties
  <2>2. l.songs \in Seq(0..n)
    BY <1>1, <2>1, SeqMonotonic
  <2> QED
    BY <2>1, <2>2
<1>4. /\ new \in Seq(0..n) /\ Len(new) = len + 1 /\ Distinct(new)
      /\ ToSet(new) = ToSet(l.songs) \cup {n}
  <2>1. PICK s, T : s = l.songs /\ T = 0..n
    OBVIOUS
  <2>2. PICK j : j = i + 1
    OBVIOUS
  <2> HIDE DEF i
  <2>3. s \in Seq(T) /\ Distinct(s) /\ n \in T /\ n \notin ToSet(s)
    BY <1>1, <1>3, <2>1
  <2>4. j \in 1..(Len(s) + 1)
    BY <1>1, <1>2, <2>1, <2>2
  <2>5. InsertAt(s, j, n) \in Seq(T) /\ Inserts(InsertAt(s, j, n), s, j, n)
    BY <2>3, <2>4, InsertAtProperties
  <2>6. ToSet(InsertAt(s, j, n)) = ToSet(s) \cup {n}
    BY <2>3, <2>4, InsertAtToSet
  <2>7. Distinct(InsertAt(s, j, n))
    BY <2>3, <2>4, InsertAtDistinct
  <2> QED
    BY <2>1, <2>2, <2>5, <2>6, <2>7 DEF Inserts
<1>5. /\ places \in Seq(Addrs) /\ Len(places) = len + 1 /\ Distinct(places)
  <2>1. /\ <<a>> \o l.slots \in Seq(Addrs) /\ Len(<<a>> \o l.slots) = Len(l.slots) + 1
        /\ Distinct(<<a>> \o l.slots)
    BY <1>1, ConsDistinct
  <2>2. /\ Append(l.slots, a) \in Seq(Addrs) /\ Len(Append(l.slots, a)) = Len(l.slots) + 1
        /\ Distinct(Append(l.slots, a))
    BY <1>1, AppendDistinct
  <2>3. places = <<a>> \o l.slots \/ places = Append(l.slots, a)
    OBVIOUS
  <2> HIDE DEF places
  <2> QED
    BY <1>1, <2>1, <2>2, <2>3
<1>6. /\ Inserted(l, n, a, pos) = [l EXCEPT !.songs = new, !.slots = places]
      /\ l = [songs |-> l.songs, slots |-> l.slots, queue |-> l.queue, current |-> l.current]
  BY DEF Inserted, ListOK
<1>7. AddedIndex(l, pos) \in 1..(len + 1)
  <2>1. len = 0 => pos = -1
    BY <1>1
  <2> QED
    BY <1>1, <2>1 DEF AddedIndex
<1>8. pos = -1 => new = Append(l.songs, n) /\ places = Append(l.slots, a) /\ AddedIndex(l, pos) = len + 1
  <2> SUFFICES ASSUME pos = -1
               PROVE  new = Append(l.songs, n) /\ places = Append(l.slots, a) /\ AddedIndex(l, pos) = len + 1
    OBVIOUS
  <2>1. i = len /\ AddedIndex(l, pos) = len + 1
    BY DEF AddedIndex
  <2>2. ~(i < len)
    BY <1>1, <2>1
  <2>3. InsertAt(l.songs, len + 1, n) = Append(l.songs, n)
    BY <1>3, InsertAtEnd
  <2>4. new = Append(l.songs, n)
    BY <2>1, <2>3, Zenon
  <2> QED
    BY <2>1, <2>2, <2>4, Zenon
<1> HIDE DEF new, places
<1>9. /\ Inserted(l, n, a, pos).songs = new /\ Inserted(l, n, a, pos).slots = places
      /\ Inserted(l, n, a, pos).queue = l.queue /\ Inserted(l, n, a, pos).current = l.current
      /\ Inserted(l, n, a, pos) = [songs |-> new, slots |-> places, queue |-> l.queue,
                                   current |-> l.current]
  BY <1>6
<1>10. ListOK(Inserted(l, n, a, pos), n + 1)
  <2>1. (n + 1) - 1 = n
    OBVIOUS
  <2> QED
    BY <1>1, <1>4, <1>5, <1>9, <2>1 DEF ListOK
<1>11. pos = -1 => places[AddedIndex(l, pos)] = a
  BY <1>1, <1>8
<1>12. places[AddedIndex(l, pos)] \in Addrs
  BY <1>5, <1>7, ElementOfSeq
<1> QED
  BY <1>4, <1>8, <1>9, <1>10, <1>11, <1>12
-----------------------------------------------------------------------------
(* The flags.                                                              *)
FlagsOK == /\ consume \in BOOLEAN /\ random \in BOOLEAN /\ repeat \in BOOLEAN
           /\ single \in {"false", "true", "oneshot"}

(* The playbin.                                                            *)
BinOK == /\ state \in States /\ target \in States
         /\ uri \in -1..(MaxAdds - 1)
         /\ tempChange \in BOOLEAN
         /\ broken \in BOOLEAN

(* The inductive invariant: the list is one the calls may work on, and its *)
(* IDs are below the counter, so that the next ID is new.                  *)
Inv == /\ songCounter \in 0..MaxAdds
       /\ ListOK(List, songCounter)
       /\ FlagsOK
       /\ BinOK

(* The songs that are in l and not in m: none but the one that was played  *)
(* and is consumed.                                                        *)
OnlyConsumes(l, m) ==
    \A id \in ToSet(l.songs) \ ToSet(m.songs) :
        consume /\ Live(l, l.current) /\ id = SongAt(l, l.current)

(* The invariant says what the checked invariants say.                     *)
LEMMA InvImplies == Inv => TypeOK /\ IDsUnique
<1> SUFFICES ASSUME Inv PROVE TypeOK /\ IDsUnique
  OBVIOUS
<1>1. songCounter \in 0..MaxAdds /\ MaxAdds \in Nat
  BY PlayQueueAssumption DEF Inv
<1>2. /\ songs \in Seq(0..(songCounter - 1)) /\ slots \in Seq(Addrs) /\ playQueue \in Seq(Addrs)
      /\ currentSong \in Addrs \cup {Null} /\ Len(slots) = Len(songs)
      /\ Distinct(slots) /\ Distinct(songs)
  BY DEF Inv, ListOK, List
<1>3. songs \in Seq(0..(MaxAdds - 1))
  <2>1. 0..(songCounter - 1) \subseteq 0..(MaxAdds - 1)
    BY <1>1
  <2> QED
    BY <1>2, <2>1, SeqMonotonic
<1>4. \A i \in 1..Len(songs) : songs[i] < songCounter
  <2> SUFFICES ASSUME NEW i \in 1..Len(songs) PROVE songs[i] < songCounter
    OBVIOUS
  <2>1. songs[i] \in 0..(songCounter - 1)
    BY <1>2, ElementOfSeq
  <2> QED
    BY <1>1, <2>1
<1>5. TypeOK
  BY <1>1, <1>2, <1>3 DEF Inv, FlagsOK, BinOK, TypeOK, Distinct
<1> QED
  BY <1>2, <1>4, <1>5 DEF IDsUnique, Distinct

(* A list that was assigned is the list.                                   *)
LEMMA SetListOK ==
    ASSUME NEW n \in Nat, NEW m, ListOK(m, n), SetList(m)
    PROVE  List' = m /\ ListOK(List', n)
<1>1. m = [songs |-> m.songs, slots |-> m.slots, queue |-> m.queue, current |-> m.current]
  BY DEF ListOK
<1>2. List' = m
  BY <1>1 DEF List, SetList
<1> QED
  BY <1>2

(* Setting the playbin's state leaves it in one.                           *)
LEMMA SetStateOK ==
    ASSUME NEW s \in States, state \in States, SetState(s)
    PROVE  state' \in States /\ target' \in States
BY DEF SetState, States

(* What changeSong does to the playbin, for a song of the list or none.    *)
LEMMA PlaybinOK ==
    ASSUME NEW n \in 0..MaxAdds, NEW m, ListOK(m, n), NEW a, a # Null => a \in ToSet(m.slots),
           NEW s \in States, BinOK, PlaybinChange(m, a, s)
    PROVE  /\ state' \in States /\ target' \in States
           /\ uri' \in -1..(MaxAdds - 1) /\ tempChange' \in BOOLEAN
<1>1. n \in Nat /\ MaxAdds \in Nat /\ n <= MaxAdds
  BY PlayQueueAssumption
<1>2. CASE a # Null
  <2>1. SongAt(m, a) \in 0..(n - 1)
    BY <1>1, <1>2, SongAtOK
  <2>2. SongAt(m, a) \in -1..(MaxAdds - 1)
    BY <1>1, <2>1
  <2>3. SetState(s) /\ uri' = SongAt(m, a) /\ tempChange' = (tempChange \/ state = "playing")
    BY <1>2 DEF PlaybinChange
  <2>4. tempChange' \in BOOLEAN
    BY <2>3
  <2> QED
    BY <2>2, <2>3, <2>4, SetStateOK DEF BinOK
<1>3. CASE a = Null
  BY <1>3 DEF PlaybinChange, BinOK, States
<1> QED
  BY <1>2, <1>3

(* changeSong keeps the invariant, and costs the consumed song at most.    *)
LEMMA ChangeSongOK ==
    ASSUME Inv, NEW l, ListOK(l, songCounter), NEW a, NEW s \in States, ChangeSong(l, a, s)
    PROVE  /\ songCounter' = songCounter /\ ListOK(List', songCounter) /\ BinOK'
           /\ \/ List' = List
              \/ OnlyConsumes(l, List')
<1>1. songCounter \in 0..MaxAdds /\ songCounter \in Nat /\ BinOK
  BY PlayQueueAssumption DEF Inv
<1>2. CASE ChangeFails(l, a)
  <2>1. broken' = TRUE /\ UNCHANGED <<listVars, songCounter, binVars>>
    BY <1>2 DEF ChangeSong, Break
  <2>2. List' = List
    BY <2>1 DEF List, listVars
  <2>3. BinOK'
    BY <1>1, <2>1 DEF BinOK, binVars
  <2> QED
    BY <2>1, <2>2, <2>3 DEF Inv
<1>3. CASE ~ChangeFails(l, a)
  <2>1. PICK m \in Changed(l, a) : SetList(m) /\ PlaybinChange(m, a, s)
    BY <1>3 DEF ChangeSong
  <2>2. songCounter' = songCounter /\ broken' = broken
    BY <1>3 DEF ChangeSong
  <2>3. /\ ListOK(m, songCounter) /\ SameSongs(m, Consumed(l))
        /\ a # Null => a \in ToSet(m.slots)
    BY <1>1, <1>3, ChangedOK
  <2>4. List' = m /\ ListOK(List', songCounter)
    BY <1>1, <2>1, <2>3, SetListOK
  <2>5. /\ state' \in States /\ target' \in States
        /\ uri' \in -1..(MaxAdds - 1) /\ tempChange' \in BOOLEAN
    BY <1>1, <2>1, <2>3, PlaybinOK
  <2>6. OnlyConsumes(l, m)
    BY <1>1, <1>3, <2>3, ConsumedOK DEF OnlyConsumes, SameSongs, ChangeFails
  <2> QED
    BY <1>1, <2>2, <2>4, <2>5, <2>6 DEF BinOK
<1> QED
  BY <1>2, <1>3

(* A step that leaves the list as it is keeps the invariant if it keeps    *)
(* the types of the flags and of the playbin.                              *)
LEMMA SameListOK ==
    ASSUME Inv, UNCHANGED <<listVars, songCounter>>, FlagsOK', BinOK'
    PROVE  Inv' /\ OnlyConsumes(List, List')
<1>1. List' = List /\ songCounter' = songCounter
  BY DEF List, listVars
<1>2. ListOK(List', songCounter')
  BY <1>1 DEF Inv
<1> QED
  BY <1>1, <1>2 DEF Inv, OnlyConsumes

(* A list with the same songs loses none.                                  *)
LEMMA SameSongsOK ==
    ASSUME Inv, NEW m, ListOK(m, songCounter), SetList(m), ToSet(songs) \subseteq ToSet(m.songs),
           songCounter' = songCounter, FlagsOK', BinOK'
    PROVE  Inv' /\ OnlyConsumes(List, List')
<1>1. songCounter \in Nat /\ List.songs = songs
  BY DEF Inv, List
<1>2. List' = m /\ ListOK(List', songCounter')
  BY <1>1, SetListOK
<1> QED
  BY <1>1, <1>2 DEF Inv, OnlyConsumes

(* The same for a step that calls changeSong on a list with the songs and  *)
(* the current song there are.                                             *)
LEMMA ChangeStep ==
    ASSUME Inv, NEW l, ListOK(l, songCounter), SameSongs(l, List), l.current = currentSong,
           NEW a, NEW s \in States, ChangeSong(l, a, s), FlagsOK'
    PROVE  Inv' /\ OnlyConsumes(List, List')
<1>1. /\ songCounter' = songCounter /\ ListOK(List', songCounter) /\ BinOK'
      /\ List' = List \/ OnlyConsumes(l, List')
  BY ChangeSongOK
<1>2. OnlyConsumes(l, List') => OnlyConsumes(List, List')
  BY DEF OnlyConsumes, SameSongs, List, Live, SongAt
<1>3. List' = List => OnlyConsumes(List, List')
  BY DEF OnlyConsumes
<1> QED
  BY <1>1, <1>2, <1>3 DEF Inv

(* addSong.                                                                *)
LEMMA AddSongStep ==
    ASSUME Inv, NEW pos \in {-1} \cup (0..MaxAdds), AddSong(pos)
    PROVE  Inv' /\ OnlyConsumes(List, List') /\ UNCHANGED <<currentSong, binVars>>
<1>1. /\ songCounter \in Nat /\ songCounter < MaxAdds /\ ListOK(List, songCounter)
      /\ FlagsOK /\ BinOK /\ UNCHANGED flagVars /\ MaxAdds \in Nat
  BY PlayQueueAssumption DEF Inv, AddSong
<1>2. FlagsOK'
  BY <1>1 DEF FlagsOK, flagVars
<1>3. CASE pos > Len(songs) \/ (pos = 0 /\ songs = <<>>)
  <2>1. broken' = TRUE /\ UNCHANGED <<listVars, songCounter, binVars>>
    BY <1>3 DEF AddSong, Break
  <2>2. BinOK'
    BY <1>1, <2>1 DEF BinOK, binVars
  <2> QED
    BY <1>2, <2>1, <2>2, SameListOK DEF listVars
<1>4. CASE ~(pos > Len(songs) \/ (pos = 0 /\ songs = <<>>))
  <2> DEFINE L(a) == Inserted(List, songCounter, a, pos)
             F(a) == L(a).slots[AddedIndex(List, pos)]
  <2>1. PICK a \in Addrs \ ToSet(slots) :
             \E m \in Added(L(a), F(a)) :
                /\ SetList([m EXCEPT !.queue = Append(m.queue, F(a))])
                /\ songCounter' = songCounter + 1
                /\ UNCHANGED <<binVars, broken>>
    BY <1>4 DEF AddSong
  <2>2. PICK l, f : l = L(a) /\ f = F(a)
    OBVIOUS
  <2>3. /\ pos \in Int /\ pos >= -1 /\ pos <= Len(List.songs) /\ ~(pos = 0 /\ List.songs = <<>>)
        /\ a \in Addrs \ ToSet(List.slots)
    <3>1. songs \in Seq(0..(songCounter - 1))
      BY <1>1 DEF ListOK, List
    <3> QED
      BY <1>1, <1>4, <2>1, <3>1 DEF List
  <2>4. ListOK(l, songCounter + 1) /\ f \in Addrs /\ ToSet(List.songs) \subseteq ToSet(l.songs)
    BY <1>1, <2>2, <2>3, InsertedOK
  <2>4a. l.current = currentSong
    BY <2>2 DEF Inserted, List
  <2> HIDE DEF L, F
  <2>5. PICK m \in Added(l, f) : /\ SetList([m EXCEPT !.queue = Append(m.queue, f)])
                                 /\ songCounter' = songCounter + 1
                                 /\ UNCHANGED <<binVars, broken>>
    BY <2>1, <2>2
  <2>6. ListOK(m, songCounter + 1) /\ SameSongs(m, l)
    BY <1>1, <2>4, <2>5, AddedOK
  <2>6a. m.current = l.current
    BY <1>1, <2>4, <2>5, AddedOK
  <2>7. m.queue \in Seq(Addrs)
    BY <2>6 DEF ListOK
  <2>8. Append(m.queue, f) \in Seq(Addrs)
    BY <2>4, <2>7
  <2>9. PICK q : q = Append(m.queue, f)
    OBVIOUS
  <2>10. /\ ListOK([m EXCEPT !.queue = q], songCounter + 1)
         /\ [m EXCEPT !.queue = q].songs = l.songs
         /\ [m EXCEPT !.queue = q].current = currentSong
    BY <2>6, <2>8, <2>9, <2>4a, <2>6a DEF ListOK, SameSongs
  <2>11. SetList([m EXCEPT !.queue = q]) /\ songCounter + 1 \in Nat
    BY <1>1, <2>5, <2>9
  <2>12. List' = [m EXCEPT !.queue = q] /\ ListOK(List', songCounter + 1)
    BY <2>10, <2>11, SetListOK
  <2>13. BinOK'
    BY <1>1, <2>5 DEF BinOK, binVars
  <2>14. currentSong' = currentSong
    BY <2>10, <2>11 DEF SetList, List
  <2> QED
    BY <1>1, <1>2, <2>4, <2>5, <2>10, <2>12, <2>13, <2>14 DEF Inv, OnlyConsumes
<1> QED
  BY <1>3, <1>4

(* removeSongID keeps the list one the calls may work on.                  *)
LEMMA MoveOnStep ==
    ASSUME Inv, NEW l, ListOK(l, songCounter), NEW id, FlagsOK', MoveOnAndErase(l, id)
    PROVE  Inv'
<1>1. songCounter \in 0..MaxAdds /\ songCounter \in Nat /\ BinOK
  BY PlayQueueAssumption DEF Inv
<1>2. CASE l.queue = <<>>
  <2>1. SetList(EraseID(l, id)) /\ SetState("null") /\ UNCHANGED <<uri, tempChange, songCounter, broken>>
    BY <1>2 DEF MoveOnAndErase
  <2>2. ListOK(EraseID(l, id), songCounter)
    BY <1>1, EraseIDOK
  <2>3. ListOK(List', songCounter)
    BY <1>1, <2>1, <2>2, SetListOK
  <2>4. state' \in States /\ target' \in States
    BY <1>1, <2>1, SetStateOK DEF BinOK, States
  <2>5. BinOK'
    BY <1>1, <2>1, <2>4 DEF BinOK
  <2> QED
    BY <1>1, <2>1, <2>3, <2>5 DEF Inv
<1>3. CASE l.queue # <<>>
  <2>1. PICK c \in NextSong(l) :
            IF ChangeFails(c.list, c.song) THEN Break
            ELSE /\ \E m \in Changed(c.list, c.song) :
                       /\ SetList(EraseID(m, id))
                       /\ PlaybinChange(m, c.song, state)
                 /\ UNCHANGED <<songCounter, broken>>
    BY <1>3 DEF MoveOnAndErase
  <2>2. ListOK(c.list, songCounter)
    BY <1>1, <2>1, NextSongOK
  <2>3. CASE ChangeFails(c.list, c.song)
    <3>1. broken' = TRUE /\ UNCHANGED <<listVars, songCounter, binVars>>
      BY <2>1, <2>3 DEF Break
    <3>2. BinOK'
      BY <1>1, <3>1 DEF BinOK, binVars
    <3> QED
      BY <3>1, <3>2, SameListOK
  <2>4. CASE ~ChangeFails(c.list, c.song)
    <3>1. PICK m \in Changed(c.list, c.song) :
              SetList(EraseID(m, id)) /\ PlaybinChange(m, c.song, state)
      BY <2>1, <2>4
    <3>2. UNCHANGED <<songCounter, broken>>
      BY <2>1, <2>4
    <3>3. ListOK(m, songCounter) /\ (c.song # Null => c.song \in ToSet(m.slots))
      BY <1>1, <2>2, <2>4, <3>1, ChangedOK
    <3>4. ListOK(List', songCounter)
      BY <1>1, <3>1, <3>3, EraseIDOK, SetListOK
    <3>5. /\ state' \in States /\ target' \in States
          /\ uri' \in -1..(MaxAdds - 1) /\ tempChange' \in BOOLEAN
      <4>1. state \in States
        BY <1>1 DEF BinOK
      <4> QED
        BY <1>1, <3>1, <3>3, <4>1, PlaybinOK
    <3> QED
      BY <1>1, <3>2, <3>4, <3>5 DEF Inv, BinOK
  <2> QED
    BY <2>3, <2>4
<1> QED
  BY <1>2, <1>3

(* A step that does not play nothing, when it did not before.              *)
Quiet == ~(Plays' /\ currentSong' = Null /\ ~(Plays /\ currentSong = Null))

(* changeSong to no song leaves the playbin silent.                        *)
LEMMA QuietChange ==
    ASSUME Inv, NEW l, ListOK(l, songCounter), NEW a, NEW s \in States, ChangeSong(l, a, s)
    PROVE  Quiet
<1>1. songCounter \in Nat
  BY PlayQueueAssumption DEF Inv
<1>2. CASE ChangeFails(l, a)
  BY <1>2 DEF ChangeSong, Break, listVars, binVars, Quiet, Plays
<1>3. CASE ~ChangeFails(l, a)
  <2>1. PICK m \in Changed(l, a) : SetList(m) /\ PlaybinChange(m, a, s)
    BY <1>3 DEF ChangeSong
  <2>2. currentSong' = a
    BY <1>1, <1>3, <2>1, ChangedOK DEF SetList
  <2>3. a = Null => ~Plays'
    BY <2>1 DEF PlaybinChange, Plays
  <2> QED
    BY <2>2, <2>3 DEF Quiet
<1> QED
  BY <1>2, <1>3

(* removeSongID plays the next song or none.                               *)
LEMMA QuietRemove ==
    ASSUME Inv, NEW l, ListOK(l, songCounter), NEW id, MoveOnAndErase(l, id)
    PROVE  Quiet
<1>1. songCounter \in Nat
  BY PlayQueueAssumption DEF Inv
<1>2. CASE l.queue = <<>>
  <2>1. SetState("null")
    BY <1>2 DEF MoveOnAndErase
  <2> QED
    BY <2>1 DEF SetState, Quiet, Plays
<1>3. CASE l.queue # <<>>
  <2>1. PICK c \in NextSong(l) :
            IF ChangeFails(c.list, c.song) THEN Break
            ELSE /\ \E m \in Changed(c.list, c.song) :
                       /\ SetList(EraseID(m, id))
                       /\ PlaybinChange(m, c.song, state)
                 /\ UNCHANGED <<songCounter, broken>>
    BY <1>3 DEF MoveOnAndErase
  <2>2. ListOK(c.list, songCounter)
    BY <1>1, <2>1, NextSongOK
  <2>3. CASE ChangeFails(c.list, c.song)
    BY <2>1, <2>3 DEF Break, listVars, binVars, Quiet, Plays
  <2>4. CASE ~ChangeFails(c.list, c.song)
    <3>1. PICK m \in Changed(c.list, c.song) :
              SetList(EraseID(m, id)) /\ PlaybinChange(m, c.song, state)
      BY <2>1, <2>4
    <3>2. ListOK(m, songCounter) /\ m.current = c.song
      BY <1>1, <2>2, <2>4, <3>1, ChangedOK
    <3>3. currentSong' = c.song
      BY <1>1, <3>1, <3>2, EraseIDOK DEF SetList
    <3>4. c.song = Null => ~Plays'
      BY <3>1 DEF PlaybinChange, Plays
    <3> QED
      BY <3>3, <3>4 DEF Quiet
  <2> QED
    BY <2>3, <2>4
<1> QED
  BY <1>2, <1>3

(* removeSongID takes a song out of the list and a pointer to its slot out *)
(* of the queue, and keeps the list well formed.                           *)
LEMMA RemoveSongIDStep ==
    ASSUME Inv, NEW id, RemoveSongID(id)
    PROVE  Inv' /\ Quiet
<1> DEFINE hits == {k \in DOMAIN playQueue : Shows(List, id, k)}
           first == CHOOSE i \in hits : \A j \in hits : i <= j
           l == IF hits = {} THEN List ELSE [List EXCEPT !.queue = RemoveAt(playQueue, first)]
<1>1. /\ songCounter \in Nat /\ ListOK(List, songCounter) /\ FlagsOK /\ BinOK /\ UNCHANGED flagVars
  BY PlayQueueAssumption DEF Inv, RemoveSongID
<1>2. FlagsOK'
  BY <1>1 DEF FlagsOK, flagVars
<1>3. ListOK(l, songCounter)
  <2>1. CASE hits = {}
    BY <1>1, <2>1
  <2>2. CASE hits # {}
    <3>1. playQueue \in Seq(Addrs)
      BY <1>1 DEF ListOK, List
    <3>2. hits \subseteq Nat /\ hits \subseteq 1..Len(playQueue)
      BY <3>1
    <3> HIDE DEF hits
    <3>3. \E x \in hits : \A y \in hits : x <= y
      BY <2>2, <3>2, Least
    <3>4. first \in 1..Len(playQueue)
      BY <3>2, <3>3
    <3> HIDE DEF first
    <3>5. RemoveAt(playQueue, first) \in Seq(Addrs)
      BY <3>1, <3>4, RemoveAtProperties
    <3>6. PICK q : q = RemoveAt(playQueue, first)
      OBVIOUS
    <3>7. ListOK([List EXCEPT !.queue = q], songCounter)
      BY <1>1, <3>5, <3>6 DEF ListOK
    <3> QED
      BY <2>2, <3>6, <3>7
  <2> QED
    BY <2>1, <2>2
<1>4. \/ Break
      \/ MoveOnAndErase(l, id)
      \/ SetList(EraseID(l, id)) /\ UNCHANGED <<songCounter, binVars, broken>>
  BY DEF RemoveSongID
<1> HIDE DEF l
<1>5. CASE Break
  <2>1. broken' = TRUE /\ UNCHANGED <<listVars, songCounter, binVars>>
    BY <1>5 DEF Break
  <2>2. BinOK'
    BY <1>1, <2>1 DEF BinOK, binVars
  <2>3. Quiet
    BY <2>1 DEF listVars, binVars, Quiet, Plays
  <2> QED
    BY <1>2, <2>1, <2>2, <2>3, SameListOK
<1>6. CASE MoveOnAndErase(l, id)
  BY <1>2, <1>3, <1>6, MoveOnStep, QuietRemove
<1>7. CASE SetList(EraseID(l, id)) /\ UNCHANGED <<songCounter, binVars, broken>>
  <2>1. ListOK(List', songCounter)
    BY <1>1, <1>3, <1>7, EraseIDOK, SetListOK
  <2>2. BinOK'
    BY <1>1, <1>7 DEF BinOK, binVars
  <2>3. currentSong' = currentSong
    <3>1. l.current = currentSong
      BY DEF l, List
    <3> QED
      BY <1>1, <1>3, <1>7, <3>1, EraseIDOK DEF SetList
  <2>4. Quiet
    BY <1>7, <2>3 DEF binVars, Quiet, Plays
  <2> QED
    BY <1>2, <1>7, <2>1, <2>2, <2>4 DEF Inv
<1> QED
  BY <1>4, <1>5, <1>6, <1>7

(* The calls that change the song.                                         *)
LEMMA PlayStep ==
    ASSUME Inv, FlagsOK', PlayFront \/ \E id \in ToSet(songs) : ChangeSong(List, slots[IndexOf(songs, id)], "playing")
    PROVE  Inv' /\ OnlyConsumes(List, List')
<1>1. songCounter \in Nat /\ ListOK(List, songCounter) /\ "playing" \in States
  BY PlayQueueAssumption DEF Inv, States
<1>2. SameSongs(List, List) /\ List.current = currentSong
  BY DEF SameSongs, List
<1>3. PICK l, a : /\ l = List \/ l \in Requeued(List)
                  /\ ChangeSong(l, a, "playing")
  BY DEF PlayFront
<1>4. ListOK(l, songCounter) /\ SameSongs(l, List) /\ l.current = currentSong
  BY <1>1, <1>2, <1>3, RequeuedOK
<1> QED
  BY <1>1, <1>3, <1>4, ChangeStep

(* next, previous and what changeSong does with their song.                *)
LEMMA SkipStep ==
    ASSUME Inv, FlagsOK', NEW c \in NextSong(List) \cup PreviousSong(List), NEW s \in States,
           ChangeSong(c.list, c.song, s)
    PROVE  Inv' /\ OnlyConsumes(List, List')
<1>1. songCounter \in Nat /\ ListOK(List, songCounter) /\ List.current = currentSong
  BY PlayQueueAssumption DEF Inv, List
<1>2. ListOK(c.list, songCounter) /\ SameSongs(c.list, List) /\ c.list.current = currentSong
  BY <1>1, NextSongOK, PreviousSongOK
<1> QED
  BY <1>2, ChangeStep

(* resume and the requests that only set the playbin's state.              *)
LEMMA SetStateStep ==
    ASSUME Inv, FlagsOK', NEW s \in States, SetState(s),
           UNCHANGED <<listVars, songCounter, uri, tempChange, broken>>
    PROVE  Inv' /\ OnlyConsumes(List, List')
<1>1. state' \in States /\ target' \in States
  BY SetStateOK DEF Inv, BinOK
<1>2. BinOK'
  BY <1>1 DEF Inv, BinOK
<1> QED
  BY <1>2, SameListOK

(* doStatus asks for the next song, which may rebuild the queue.           *)
LEMMA StatusStep ==
    ASSUME Inv, Status
    PROVE  Inv' /\ OnlyConsumes(List, List')
<1>1. /\ songCounter \in Nat /\ ListOK(List, songCounter) /\ FlagsOK /\ BinOK
      /\ UNCHANGED <<songCounter, flagVars, binVars>>
  BY PlayQueueAssumption DEF Inv, Status
<1>2. FlagsOK'
  BY <1>1 DEF FlagsOK, flagVars
<1>3. broken' \in BOOLEAN
  BY Zenon DEF Status
<1>4. BinOK'
  BY <1>1, <1>3 DEF BinOK, binVars
<1>5. CASE UNCHANGED listVars
  BY <1>1, <1>2, <1>4, <1>5, SameListOK
<1>6. CASE \E c \in NextSong(List) : SetList(c.list)
  <2>1. PICK c \in NextSong(List) : SetList(c.list)
    BY <1>6
  <2>2. ListOK(c.list, songCounter) /\ c.list.songs = songs
    BY <1>1, <2>1, NextSongOK DEF SameSongs, List
  <2> QED
    BY <1>1, <1>2, <1>4, <2>1, <2>2, SameSongsOK
<1> QED
  BY <1>5, <1>6 DEF Status

(* setRandom rebuilds the queue from the slots, or shuffles it.            *)
LEMMA SetRandomStep ==
    ASSUME Inv, SetRandom
    PROVE  Inv' /\ OnlyConsumes(List, List')
<1>1. songCounter \in Nat /\ ListOK(List, songCounter) /\ FlagsOK /\ BinOK
  BY PlayQueueAssumption DEF Inv
<1>2. /\ UNCHANGED <<songs, slots, currentSong, songCounter, consume, repeat, single, binVars, broken>>
      /\ random' = ~random
      /\ playQueue' \in IF random THEN {slots} ELSE Shuffles(playQueue)
  BY DEF SetRandom
<1>3. playQueue' \in Seq(Addrs)
  BY <1>1, <1>2, ShufflesProperties DEF ListOK, List
<1>4. /\ List' = [List EXCEPT !.queue = playQueue']
      /\ ListOK([List EXCEPT !.queue = playQueue'], songCounter)
  BY <1>1, <1>2, <1>3 DEF List, ListOK
<1>5. BinOK'
  BY <1>1, <1>2 DEF BinOK, binVars
<1>6. FlagsOK'
  BY <1>1, <1>2 DEF FlagsOK
<1>7. List'.songs = List.songs
  BY <1>2 DEF List
<1> QED
  BY <1>1, <1>2, <1>4, <1>5, <1>6, <1>7 DEF Inv, OnlyConsumes

(* The other options: a flag changes and nothing else.                     *)
LEMMA OptionStep ==
    ASSUME Inv, SetConsume \/ SetRepeat \/ \E s \in {"false", "true", "oneshot"} : SetSingle(s)
    PROVE  Inv' /\ OnlyConsumes(List, List')
<1>1. FlagsOK /\ BinOK /\ UNCHANGED <<listVars, songCounter, binVars, broken>>
  BY DEF Inv, SetConsume, SetRepeat, SetSingle
<1>2. BinOK'
  BY <1>1 DEF BinOK, binVars
<1>3. FlagsOK'
  <2>1. CASE SetConsume
    BY <1>1, <2>1 DEF FlagsOK, SetConsume
  <2>2. CASE SetRepeat
    BY <1>1, <2>2 DEF FlagsOK, SetRepeat
  <2>3. CASE \E s \in {"false", "true", "oneshot"} : SetSingle(s)
    BY <1>1, <2>3 DEF FlagsOK, SetSingle
  <2> QED
    BY <2>1, <2>2, <2>3
<1> QED
  BY <1>1, <1>2, <1>3, SameListOK

(* on_about_to_finish.                                                     *)
LEMMA AboutToFinishStep ==
    ASSUME Inv, AboutToFinish
    PROVE  Inv' /\ OnlyConsumes(List, List')
<1>1. /\ songCounter \in Nat /\ ListOK(List, songCounter) /\ FlagsOK /\ BinOK
      /\ UNCHANGED <<consume, random, repeat>>
      /\ "playing" \in States /\ "null" \in States
      /\ SameSongs(List, List) /\ List.current = currentSong
  BY PlayQueueAssumption DEF Inv, AboutToFinish, States, SameSongs, List
<1>2. FlagsOK'
  <2>1. single' = single \/ single' = "false"
    BY DEF AboutToFinish
  <2> QED
    BY <1>1, <2>1 DEF FlagsOK
<1>3. CASE tempChange
  <2>1. tempChange' = FALSE /\ UNCHANGED <<listVars, songCounter, state, target, uri, broken>>
    BY <1>3 DEF AboutToFinish
  <2>2. BinOK'
    BY <1>1, <2>1 DEF BinOK
  <2> QED
    BY <1>2, <2>1, <2>2, SameListOK
<1>4. CASE ~tempChange /\ single # "false"
  <2>1. \/ ChangeSong(List, currentSong, "playing")
        \/ SetState("null") /\ UNCHANGED <<listVars, songCounter, uri, tempChange, broken>>
    BY <1>4 DEF AboutToFinish
  <2>2. CASE ChangeSong(List, currentSong, "playing")
    BY <1>1, <1>2, <2>2, ChangeStep
  <2>3. CASE SetState("null") /\ UNCHANGED <<listVars, songCounter, uri, tempChange, broken>>
    BY <1>1, <1>2, <2>3, SetStateStep
  <2> QED
    BY <2>1, <2>2, <2>3
<1>5. CASE ~tempChange /\ ~(single # "false")
  <2>1. PICK c \in NextSong(List) : ChangeSong(c.list, c.song, "playing")
    BY <1>5 DEF AboutToFinish
  <2> QED
    BY <1>1, <1>2, <2>1, SkipStep
<1> QED
  BY <1>3, <1>4, <1>5
-----------------------------------------------------------------------------
(* The invariant holds at the start.                                       *)
LEMMA InitInv == Init => Inv
<1> SUFFICES ASSUME Init PROVE Inv
  OBVIOUS
<1>1. PICK e : e = <<>>
  OBVIOUS
<1>2. e \in Seq(Addrs) /\ e \in Seq(0..(0 - 1)) /\ Distinct(e)
  BY <1>1 DEF Distinct
<1>3. List = [songs |-> e, slots |-> e, queue |-> e, current |-> Null]
  BY <1>1 DEF Init, List
<1>4. ListOK(List, 0)
  BY <1>2, <1>3 DEF ListOK
<1>5. songCounter \in 0..MaxAdds /\ songCounter = 0
  BY PlayQueueAssumption DEF Init
<1>6. FlagsOK /\ BinOK
  <2>1. uri \in -1..(MaxAdds - 1)
    BY PlayQueueAssumption DEF Init, NoUri
  <2> QED
    BY <2>1 DEF Init, FlagsOK, BinOK, States
<1> QED
  BY <1>4, <1>5, <1>6 DEF Inv

(* Every step keeps the invariant, and the songs too unless it removes     *)
(* some or consumes the one that was played.                               *)
LEMMA NextStep ==
    ASSUME Inv, [Next]_vars
    PROVE  /\ Inv'
           /\ \/ \E id \in ToSet(songs) : RemoveSongID(id)
              \/ OnlyConsumes(List, List')
<1>1. FlagsOK /\ BinOK /\ state \in States /\ "paused" \in States /\ "playing" \in States
  BY DEF Inv, BinOK, States
<1>2. UNCHANGED flagVars => FlagsOK'
  BY <1>1 DEF FlagsOK, flagVars
<1>3. CASE \E pos \in {-1} \cup (0..MaxAdds) : AddSong(pos)
  BY <1>3, AddSongStep
<1>4. CASE \E id \in 0..MaxAdds : RemoveSongID(id)
  <2>1. PICK id \in ToSet(songs) : RemoveSongID(id)
    BY <1>4 DEF RemoveSongID
  <2> QED
    BY <2>1, RemoveSongIDStep
<1>5. CASE \E id \in 0..MaxAdds : PlaySongID(id)
  <2>1. UNCHANGED flagVars /\ \E id \in ToSet(songs) : ChangeSong(List, slots[IndexOf(songs, id)], "playing")
    BY <1>5 DEF PlaySongID
  <2> QED
    BY <1>2, <2>1, PlayStep
<1>8. CASE Resume
  <2>1. /\ UNCHANGED flagVars
        /\ \/ PlayFront
           \/ SetState("playing") /\ UNCHANGED <<listVars, songCounter, uri, tempChange, broken>>
    BY <1>8 DEF Resume
  <2>2. CASE PlayFront
    BY <1>2, <2>1, <2>2, PlayStep
  <2>3. CASE SetState("playing") /\ UNCHANGED <<listVars, songCounter, uri, tempChange, broken>>
    BY <1>1, <1>2, <2>1, <2>3, SetStateStep
  <2> QED
    BY <2>1, <2>2, <2>3
<1>9. CASE Pause
  <2>1. /\ UNCHANGED flagVars /\ SetState("paused")
        /\ UNCHANGED <<listVars, songCounter, uri, tempChange, broken>>
    BY <1>9 DEF Pause
  <2> QED
    BY <1>1, <1>2, <2>1, SetStateStep
<1>10. CASE SkipNext \/ SkipPrevious
  <2>1. UNCHANGED flagVars
    BY <1>10 DEF SkipNext, SkipPrevious
  <2>2. PICK c \in NextSong(List) \cup PreviousSong(List) : ChangeSong(c.list, c.song, state)
    BY <1>10 DEF SkipNext, SkipPrevious
  <2> QED
    BY <1>1, <1>2, <2>1, <2>2, SkipStep
<1>11. CASE Status
  BY <1>11, StatusStep
<1>12. CASE SetConsume \/ SetRepeat \/ \E s \in {"false", "true", "oneshot"} : SetSingle(s)
  BY <1>12, OptionStep
<1>13. CASE SetRandom
  BY <1>13, SetRandomStep
<1>14. CASE AboutToFinish
  BY <1>14, AboutToFinishStep
<1>15. CASE BusSetsState
  <2>1. PICK s \in {"paused", "playing"} : SetState(s)
    BY <1>15 DEF BusSetsState
  <2>2. UNCHANGED <<listVars, songCounter, flagVars, uri, tempChange, broken>>
    BY <1>15 DEF BusSetsState
  <2> QED
    BY <1>1, <1>2, <2>1, <2>2, SetStateStep
<1>16. CASE BusReadsCurrent
  <2>1. UNCHANGED <<listVars, songCounter, flagVars, binVars>> /\ broken' = TRUE
    BY <1>16 DEF BusReadsCurrent, Break
  <2>2. BinOK'
    BY <1>1, <2>1 DEF BinOK, binVars
  <2> QED
    BY <1>2, <2>1, <2>2, SameListOK
<1>17. CASE PlaybinArrives
  <2>1. /\ state' \in {state, target} /\ target' \in {state, target}
        /\ UNCHANGED <<listVars, songCounter, flagVars, uri, tempChange, broken>>
    BY <1>17 DEF PlaybinArrives
  <2>2. BinOK'
    BY <1>1, <2>1 DEF BinOK
  <2> QED
    BY <1>2, <2>1, <2>2, SameListOK
<1>18. CASE UNCHANGED vars
  <2>1. UNCHANGED <<listVars, songCounter, flagVars, binVars, broken>>
    BY <1>18 DEF vars, listVars, flagVars, binVars
  <2>2. BinOK'
    BY <1>1, <2>1 DEF BinOK, binVars
  <2> QED
    BY <1>2, <2>1, <2>2, SameListOK
<1> QED
  BY <1>3, <1>4, <1>5, <1>8, <1>9, <1>10, <1>11, <1>12, <1>13, <1>14, <1>15,
     <1>16, <1>17, <1>18 DEF Next

(* In every session the list is well formed and IDs are new.               *)
THEOREM Basic == Spec => []Inv
<1>1. Inv /\ [Next]_vars => Inv'
  BY NextStep
<1> QED
  BY <1>1, InitInv, PTL DEF Spec

(* The variables keep their types, the slots of m_songs are as many as the *)
(* songs, and no two songs share a slot.                                   *)
THEOREM Types == Spec => []TypeOK
<1>1. Inv => TypeOK
  BY InvImplies
<1> QED
  BY <1>1, Basic, PTL

(* m_songCounter never gives an ID twice, whatever was inserted, consumed  *)
(* or deleted in between.                                                  *)
THEOREM UniqueIDs == Spec => []IDsUnique
<1>1. Inv => IDsUnique
  BY InvImplies
<1> QED
  BY <1>1, Basic, PTL

(* Only deleting takes songs away, and consume only the one that was       *)
(* played.                                                                 *)
THEOREM KeepsSongs == Spec => SongsSurvive
<1>1. Inv /\ [Next]_vars =>
         [ \/ \E id \in ToSet(songs) : RemoveSongID(id)
           \/ \A id \in ToSet(songs) \ ToSet(songs') :
                 consume /\ Live(List, currentSong) /\ id = SongAt(List, currentSong) ]_vars
  <2> SUFFICES ASSUME Inv, [Next]_vars
               PROVE  \/ \E id \in ToSet(songs) : RemoveSongID(id)
                      \/ \A id \in ToSet(songs) \ ToSet(songs') :
                            consume /\ Live(List, currentSong) /\ id = SongAt(List, currentSong)
    OBVIOUS
  <2>1. /\ List.songs = songs /\ List.current = currentSong /\ List'.songs = songs'
    BY DEF List
  <2> QED
    BY <2>1, NextStep DEF OnlyConsumes
<1> QED
  BY <1>1, Basic, PTL DEF Spec, SongsSurvive
-----------------------------------------------------------------------------
(* Every step but that of a bus handler is such a step.                    *)
LEMMA QuietNext ==
    ASSUME Inv, [Next]_vars, ~BusSetsState
    PROVE  Quiet
<1>1. /\ songCounter \in Nat /\ ListOK(List, songCounter) /\ List.current = currentSong
      /\ state \in States /\ "playing" \in States
  BY PlayQueueAssumption DEF Inv, BinOK, List, States
<1>2. UNCHANGED <<currentSong, state, target>> => Quiet
  BY DEF Quiet, Plays
<1>3. ASSUME NEW l, l = List \/ l \in Requeued(List), NEW a, NEW s \in States, ChangeSong(l, a, s)
      PROVE  Quiet
  <2>1. ListOK(l, songCounter)
    BY <1>1, <1>3, RequeuedOK
  <2> QED
    BY <1>3, <2>1, QuietChange
<1>4. ASSUME NEW c \in NextSong(List) \cup PreviousSong(List), NEW s \in States,
             ChangeSong(c.list, c.song, s)
      PROVE  Quiet
  <2>1. ListOK(c.list, songCounter)
    BY <1>1, NextSongOK, PreviousSongOK
  <2> QED
    BY <1>4, <2>1, QuietChange
<1>5. CASE \E pos \in {-1} \cup (0..MaxAdds) : AddSong(pos)
  BY <1>2, <1>5, AddSongStep DEF binVars
<1>6. CASE \E id \in 0..MaxAdds : RemoveSongID(id)
  BY <1>6, RemoveSongIDStep
<1>7. CASE \E id \in 0..MaxAdds : PlaySongID(id)
  BY <1>1, <1>3, <1>7 DEF PlaySongID
<1>8. CASE Resume
  <2>1. CASE currentSong = Null
    <3>1. PICK l, a : (l = List \/ l \in Requeued(List)) /\ ChangeSong(l, a, "playing")
      BY <1>8, <2>1 DEF Resume, PlayFront
    <3> QED
      BY <1>1, <1>3, <3>1
  <2>2. CASE currentSong # Null
    BY <1>8, <2>2 DEF Resume, listVars, Quiet
  <2> QED
    BY <2>1, <2>2
<1>9. CASE Pause
  BY <1>9 DEF Pause, listVars, SetState, Quiet, Plays
<1>10. CASE SkipNext \/ SkipPrevious
  BY <1>1, <1>4, <1>10 DEF SkipNext, SkipPrevious
<1>11. CASE Status
  <2>1. UNCHANGED <<state, target>>
    BY <1>11 DEF Status, binVars
  <2>2. currentSong' = currentSong
    <3>1. UNCHANGED listVars \/ \E c \in NextSong(List) : SetList(c.list)
      BY <1>11 DEF Status
    <3>2. ASSUME NEW c \in NextSong(List), SetList(c.list) PROVE currentSong' = currentSong
      BY <1>1, <3>2, NextSongOK DEF SetList
    <3> QED
      BY <3>1, <3>2 DEF listVars
  <2> QED
    BY <1>2, <2>1, <2>2
<1>12. CASE SetConsume \/ SetRepeat \/ SetRandom \/ \E s \in {"false", "true", "oneshot"} : SetSingle(s)
  BY <1>2, <1>12 DEF SetConsume, SetRepeat, SetRandom, SetSingle, listVars, binVars
<1>13. CASE AboutToFinish
  <2>1. CASE \E a : ChangeSong(List, a, "playing")
    BY <1>1, <1>3, <2>1
  <2>2. CASE \E c \in NextSong(List) : ChangeSong(c.list, c.song, "playing")
    BY <1>1, <1>4, <2>2
  <2>3. CASE SetState("null")
    BY <2>3 DEF SetState, Quiet, Plays
  <2>4. CASE UNCHANGED <<listVars, state, target>>
    BY <1>2, <2>4 DEF listVars
  <2> QED
    BY <1>13, <2>1, <2>2, <2>3, <2>4 DEF AboutToFinish
<1>14. CASE BusReadsCurrent
  BY <1>2, <1>14 DEF BusReadsCurrent, Break, listVars, binVars
<1>15. CASE PlaybinArrives
  BY <1>15 DEF PlaybinArrives, listVars, Quiet, Plays
<1>16. CASE UNCHANGED vars
  BY <1>2, <1>16 DEF vars
<1> QED
  BY <1>5, <1>6, <1>7, <1>8, <1>9, <1>10, <1>11, <1>12, <1>13, <1>14, <1>15, <1>16 DEF Next

(* Whatever is added, deleted or consumed, no call makes the playbin play  *)
(* without a current song; only MESSAGE_BUFFERING and MESSAGE_CLOCK_LOST   *)
(* do.                                                                     *)
THEOREM PlaysSomething == Spec => OnlyMessagesPlayNothing
<1>1. Inv /\ [Next]_vars =>
        [(Plays' /\ currentSong' = Null /\ ~(Plays /\ currentSong = Null)) => BusSetsState]_vars
  BY QuietNext DEF Quiet
<1> QED
  BY <1>1, Basic, PTL DEF Spec, OnlyMessagesPlayNothing
-----------------------------------------------------------------------------
(* Sessions that add at the end, and neither delete, consume nor step      *)
(* back.  The messages of the bus are those of every session.              *)
AppendingOnly == Ops \cap {"addid", "delete", "consume", "previous"} = {}

(* What they keep besides Inv.                                             *)
AppendInv ==
    /\ ~consume
    /\ QueueCoversSongs
    /\ currentSong # Null => currentSong \in ToSet(slots)
    /\ UriOfCurrent

(* The index of the element at i, in a sequence without repetitions.       *)
LEMMA IndexOfUnique ==
    ASSUME NEW s, Distinct(s), NEW i \in 1..Len(s), DOMAIN s = 1..Len(s)
    PROVE  IndexOf(s, s[i]) = i
<1>1. \A j \in DOMAIN s : s[j] = s[i] => j = i
  BY DEF Distinct
<1> QED
  BY <1>1 DEF IndexOf

(* A step that keeps songs, slots and the current song.                    *)
LEMMA AppendSame ==
    ASSUME AppendInv, UNCHANGED <<songs, slots, currentSong, consume, uri>>,
           ToSet(playQueue') = ToSet(slots)
    PROVE  AppendInv'
<1>1. SongAt(List, currentSong)' = SongAt(List, currentSong)
  BY DEF SongAt, List
<1>2. UriOfCurrent'
  BY <1>1 DEF AppendInv, UriOfCurrent
<1> QED
  BY <1>2 DEF AppendInv, QueueCoversSongs

(* changeSong to a song of the queue, or to none.                          *)
LEMMA AppendChange ==
    ASSUME Inv, AppendInv, NEW l, ListOK(l, songCounter), SameSongs(l, List), l.current = currentSong,
           ToSet(l.queue) = ToSet(l.slots), NEW a \in ToSet(l.slots) \cup {Null}, NEW s \in States,
           ChangeSong(l, a, s), UNCHANGED consume
    PROVE  AppendInv' /\ currentSong' = a /\ broken' = broken
<1>1. songCounter \in Nat /\ ~consume /\ (l.current # Null => Live(l, l.current))
  BY PlayQueueAssumption DEF Inv, AppendInv, SameSongs, List, Live
<1>2. Consumed(l) = l /\ ~ResetFails(l)
  BY <1>1 DEF Consumed, ResetFails
<1>3. ~ChangeFails(l, a)
  BY <1>2 DEF ChangeFails, Live
<1>4. PICK m \in Changed(l, a) : SetList(m) /\ PlaybinChange(m, a, s)
  BY <1>3 DEF ChangeSong
<1>5. UNCHANGED <<songCounter, broken>>
  BY <1>3 DEF ChangeSong
<1>6. /\ ListOK(m, songCounter) /\ m.current = a /\ SameSongs(m, l)
      /\ a # Null => a \in ToSet(m.slots)
      /\ ToSet(m.queue) = ToSet(l.queue) \cup ({a} \ {Null})
  BY <1>1, <1>2, <1>3, <1>4, ChangedOK
<1>7. List' = m /\ slots' = m.slots /\ playQueue' = m.queue /\ currentSong' = a
  BY <1>1, <1>4, <1>6, SetListOK DEF SetList
<1>8. ToSet(playQueue') = ToSet(slots')
  BY <1>6, <1>7 DEF SameSongs
<1>9. UriOfCurrent'
  <2>1. a # Null => uri' = SongAt(m, a)
    BY <1>4 DEF PlaybinChange
  <2>2. SongAt(List, currentSong)' = SongAt(m, a)
    BY <1>7 DEF SongAt
  <2> QED
    BY <1>7, <2>1, <2>2 DEF UriOfCurrent
<1> QED
  BY <1>1, <1>5, <1>6, <1>7, <1>8, <1>9 DEF AppendInv, QueueCoversSongs

(* nextSong and then changeSong.                                           *)
LEMMA AppendSkip ==
    ASSUME Inv, AppendInv, NEW c \in NextSong(List), NEW s \in States,
           ChangeSong(c.list, c.song, s), UNCHANGED consume
    PROVE  AppendInv' /\ currentSong' = c.song /\ broken' = broken
<1>1. /\ songCounter \in Nat /\ ListOK(List, songCounter) /\ List.current = currentSong
      /\ ToSet(List.queue) = ToSet(List.slots)
  BY PlayQueueAssumption DEF Inv, AppendInv, QueueCoversSongs, List
<1>2. /\ ListOK(c.list, songCounter) /\ SameSongs(c.list, List) /\ c.list.current = currentSong
      /\ c.song \in ToSet(c.list.queue) \cup {Null}
      /\ ToSet(c.list.queue) = ToSet(c.list.slots)
  BY <1>1, NextSongOK
<1> QED
  BY <1>2, AppendChange

(* addSong at the end.                                                     *)
LEMMA AppendAdd ==
    ASSUME Inv, AppendInv, NEW pos, pos = -1, AddSong(pos)
    PROVE  AppendInv' /\ broken' = broken
<1>1. /\ songCounter \in Nat /\ ListOK(List, songCounter) /\ UNCHANGED consume
      /\ songs \in Seq(0..(songCounter - 1)) /\ slots \in Seq(Addrs) /\ Len(slots) = Len(songs)
      /\ Distinct(slots) /\ List.queue = playQueue /\ List.songs = songs /\ List.slots = slots
      /\ List.current = currentSong /\ Len(songs) \in Nat
  BY PlayQueueAssumption DEF Inv, ListOK, List, AddSong, flagVars
<1> DEFINE L(a) == Inserted(List, songCounter, a, pos)
           F(a) == L(a).slots[AddedIndex(List, pos)]
<1>2. PICK a \in Addrs \ ToSet(slots) :
           \E m \in Added(L(a), F(a)) :
              /\ SetList([m EXCEPT !.queue = Append(m.queue, F(a))])
              /\ UNCHANGED <<binVars, broken>>
  <2>1. ~(pos > Len(songs) \/ (pos = 0 /\ songs = <<>>))
    BY <1>1
  <2> QED
    BY <2>1 DEF AddSong
<1>3. PICK l : l = L(a)
  OBVIOUS
<1>4. /\ ListOK(l, songCounter + 1) /\ l.queue = playQueue /\ l.current = currentSong
      /\ l.songs = Append(songs, songCounter) /\ l.slots = Append(slots, a) /\ F(a) = a
  <2>1. /\ pos \in Int /\ pos >= -1 /\ pos <= Len(List.songs) /\ ~(pos = 0 /\ List.songs = <<>>)
        /\ a \in Addrs \ ToSet(List.slots)
    BY <1>1
  <2> HIDE DEF F
  <2>2. PICK k : k = List
    OBVIOUS
  <2>3. PICK n : n = songCounter
    OBVIOUS
  <2>4. /\ n \in Nat /\ ListOK(k, n) /\ a \in Addrs \ ToSet(k.slots)
        /\ pos <= Len(k.songs) /\ ~(pos = 0 /\ k.songs = <<>>)
    BY <1>1, <2>1, <2>2, <2>3
  <2>5. PICK r : r = Inserted(k, n, a, pos)
    OBVIOUS
  <2>6. /\ ListOK(r, n + 1) /\ r.queue = k.queue /\ r.current = k.current
        /\ pos = -1 => /\ r.songs = Append(k.songs, n) /\ r.slots = Append(k.slots, a)
                       /\ r.slots[AddedIndex(k, pos)] = a
    BY <2>1, <2>4, <2>5, InsertedOK
  <2> QED
    BY <1>1, <1>3, <2>2, <2>3, <2>5, <2>6 DEF F
<1> HIDE DEF L, F
<1>5. PICK m \in Added(l, a) : SetList([m EXCEPT !.queue = Append(m.queue, a)])
  BY <1>2, <1>3, <1>4
<1>6. UNCHANGED <<uri, state, target, tempChange, broken>>
  BY <1>2 DEF binVars
<1>7. /\ ListOK(m, songCounter + 1) /\ SameSongs(m, l) /\ m.current = currentSong
      /\ ToSet(m.queue) = ToSet(playQueue) \cup {a} /\ m.queue \in Seq(Addrs)
  <2>1. PICK n \in Nat : n = songCounter + 1
    BY <1>1
  <2>2. ListOK(l, n) /\ a \in Addrs
    BY <1>4, <2>1
  <2>3. /\ ListOK(m, n) /\ SameSongs(m, l) /\ m.current = l.current
        /\ ToSet(m.queue) = ToSet(l.queue) \cup {a}
    BY <2>2, AddedOK
  <2>4. m.queue \in Seq(Addrs)
    BY <2>3 DEF ListOK
  <2> QED
    BY <1>4, <2>1, <2>3, <2>4
<1>8. /\ songs' = Append(songs, songCounter) /\ slots' = Append(slots, a)
      /\ playQueue' = Append(m.queue, a) /\ currentSong' = currentSong
  <2>1. m = [songs |-> m.songs, slots |-> m.slots, queue |-> m.queue, current |-> m.current]
    BY <1>7 DEF ListOK
  <2>2. PICK q : q = Append(m.queue, a)
    OBVIOUS
  <2>3. /\ songs' = m.songs /\ slots' = m.slots /\ playQueue' = q /\ currentSong' = m.current
    BY <1>5, <2>1, <2>2 DEF SetList
  <2> QED
    BY <1>4, <1>7, <2>2, <2>3 DEF SameSongs
<1>9. ToSet(slots') = ToSet(slots) \cup {a} /\ ToSet(playQueue') = ToSet(playQueue) \cup {a}
  <2>1. ToSet(Append(slots, a)) = ToSet(slots) \cup {a}
    BY <1>1, AppendToSet
  <2>2. ToSet(Append(m.queue, a)) = ToSet(m.queue) \cup {a}
    BY <1>7, AppendToSet
  <2> QED
    BY <1>7, <1>8, <2>1, <2>2
<1>10. ASSUME currentSong # Null
       PROVE  SongAt(List, currentSong)' = SongAt(List, currentSong)
  <2>1. PICK i \in 1..Len(slots) : slots[i] = currentSong
    BY <1>1, <1>10, ToSetProperties DEF AppendInv
  <2>2. IndexOf(slots, currentSong) = i
    BY <1>1, <2>1, IndexOfUnique
  <2>3. PICK t : t = Append(slots, a)
    OBVIOUS
  <2>4. t \in Seq(Addrs) /\ Len(t) = Len(slots) + 1 /\ Distinct(t)
    BY <1>1, <2>3, AppendDistinct
  <2>5. i \in 1..Len(t) /\ DOMAIN t = 1..Len(t)
    BY <1>1, <2>1, <2>4
  <2>6. t[i] = currentSong
    BY <1>1, <2>1, <2>3
  <2>7. IndexOf(t, currentSong) = i
    BY <2>4, <2>5, <2>6, IndexOfUnique
  <2>8. Append(songs, songCounter)[i] = songs[i]
    BY <1>1, <2>1
  <2> QED
    BY <1>8, <2>2, <2>3, <2>7, <2>8 DEF SongAt, List
<1>11. UriOfCurrent'
  BY <1>6, <1>8, <1>10 DEF AppendInv, UriOfCurrent
<1> QED
  BY <1>1, <1>6, <1>8, <1>9, <1>11 DEF AppendInv, QueueCoversSongs

(* Without what such a session leaves out, the calls it makes keep         *)
(* AppendInv.                                                              *)
LEMMA AppendPlay ==
    ASSUME Inv, AppendInv, UNCHANGED consume,
           PlayFront \/ \E id \in ToSet(songs) : ChangeSong(List, slots[IndexOf(songs, id)], "playing")
    PROVE  AppendInv' /\ broken' = broken
<1>1. /\ songCounter \in Nat /\ ListOK(List, songCounter) /\ "playing" \in States
      /\ List.current = currentSong /\ SameSongs(List, List) /\ List.slots = slots /\ List.songs = songs
      /\ ToSet(List.queue) = ToSet(List.slots)
  BY PlayQueueAssumption DEF Inv, States, AppendInv, QueueCoversSongs, SameSongs, List
<1>2. songs \in Seq(0..(songCounter - 1)) /\ slots \in Seq(Addrs) /\ Len(slots) = Len(songs)
  BY <1>1 DEF ListOK
<1>3. ASSUME NEW id \in ToSet(songs), ChangeSong(List, slots[IndexOf(songs, id)], "playing")
      PROVE  AppendInv' /\ broken' = broken
  <2>1. IndexOf(songs, id) \in 1..Len(slots)
    BY <1>2, IndexOfProperties
  <2>2. slots[IndexOf(songs, id)] \in ToSet(List.slots)
    BY <1>1, <1>2, <2>1, ToSetProperties
  <2> QED
    BY <1>1, <1>3, <2>2, AppendChange
<1>4. CASE PlayFront /\ state = "playing"
  <2>1. ChangeSong(List, currentSong, "playing") /\ currentSong \in ToSet(List.slots) \cup {Null}
    BY <1>1, <1>4 DEF PlayFront, AppendInv
  <2> QED
    BY <1>1, <2>1, AppendChange
<1>5. CASE PlayFront /\ state # "playing"
  <2>1. PICK l \in Requeued(List) : ChangeSong(l, Head(l.queue), "playing")
    BY <1>5 DEF PlayFront
  <2>2. /\ ListOK(l, songCounter) /\ SameSongs(l, List) /\ l.current = currentSong
        /\ ToSet(l.queue) = ToSet(l.slots) /\ Len(l.queue) = Len(slots) /\ l.queue \in Seq(Addrs)
    BY <1>1, <2>1, RequeuedOK DEF SameSongs, ListOK
  <2>3. Len(l.queue) # 0
    BY <1>2, <1>5, <2>2 DEF PlayFront
  <2>4. Head(l.queue) \in ToSet(l.slots)
    <3>1. 1 \in 1..Len(l.queue) /\ Head(l.queue) = l.queue[1]
      BY <2>2, <2>3
    <3>2. Head(l.queue) \in ToSet(l.queue)
      BY <2>2, <3>1, ToSetProperties
    <3> QED
      BY <2>2, <3>2
  <2> QED
    BY <1>1, <2>1, <2>2, <2>4, AppendChange
<1> QED
  BY <1>3, <1>4, <1>5

(* The queue that doStatus leaves has all songs.                           *)
LEMMA AppendStatus ==
    ASSUME Inv, AppendInv, Status
    PROVE  AppendInv' /\ broken' = broken
<1>1. /\ songCounter \in Nat /\ ListOK(List, songCounter)
      /\ List.current = currentSong /\ List.slots = slots /\ List.songs = songs
      /\ ToSet(List.queue) = ToSet(List.slots)
  BY PlayQueueAssumption DEF Inv, AppendInv, QueueCoversSongs, List
<1>2. /\ currentSong # Null /\ currentSong \in ToSet(slots)
      /\ UNCHANGED <<songCounter, flagVars, binVars>>
  BY DEF Status, AppendInv
<1>3. PICK c \in NextSong(List) : SetList(c.list) /\ broken' = (c.song # Null /\ ~Live(List, c.song))
  BY <1>1, <1>2 DEF Status, Live
<1>4. /\ SameSongs(c.list, List) /\ c.list.current = currentSong
      /\ c.song \in ToSet(c.list.queue) \cup {Null}
      /\ ToSet(c.list.queue) = ToSet(c.list.slots)
  BY <1>1, <1>3, NextSongOK
<1>5. broken' = FALSE
  <2>1. c.song # Null => Live(List, c.song)
    BY <1>1, <1>4 DEF SameSongs, Live
  <2> QED
    BY <1>3, <2>1
<1>6. UNCHANGED <<songs, slots, currentSong, broken, consume, uri, state, target>>
  <2>1. broken = FALSE
    BY Zenon DEF Status, Using, Inv, BinOK
  <2> QED
    BY <1>1, <1>2, <1>3, <1>4, <1>5, <2>1 DEF SetList, SameSongs, flagVars, binVars
<1>7. ToSet(playQueue') = ToSet(slots)
  BY <1>1, <1>3, <1>4 DEF SetList, SameSongs
<1> QED
  BY <1>6, <1>7, AppendSame

(* A song that ends on its own is followed by a song of the queue.         *)
LEMMA AppendFinish ==
    ASSUME Inv, AppendInv, AboutToFinish
    PROVE  AppendInv' /\ broken' = broken
<1>1. /\ songCounter \in Nat /\ ListOK(List, songCounter) /\ "playing" \in States
      /\ List.current = currentSong /\ SameSongs(List, List)
      /\ ToSet(List.queue) = ToSet(List.slots)
      /\ currentSong \in ToSet(List.slots) \cup {Null} /\ UNCHANGED consume
  BY PlayQueueAssumption
     DEF Inv, States, AppendInv, QueueCoversSongs, SameSongs, List, AboutToFinish
<1>2. ToSet(playQueue) = ToSet(slots)
  BY DEF AppendInv, QueueCoversSongs
<1>3. CASE tempChange
  <2>1. UNCHANGED <<listVars, state, target, uri, broken>>
    BY <1>3 DEF AboutToFinish
  <2> QED
    BY <1>1, <1>2, <2>1, AppendSame DEF listVars
<1>4. CASE ~tempChange /\ single # "false" /\ repeat
  <2>1. ChangeSong(List, currentSong, "playing")
    BY <1>4 DEF AboutToFinish
  <2> QED
    BY <1>1, <2>1, AppendChange
<1>5. CASE ~tempChange /\ single # "false" /\ ~repeat
  <2>1. SetState("null") /\ UNCHANGED <<listVars, uri, broken>>
    BY <1>5 DEF AboutToFinish
  <2> QED
    BY <1>1, <1>2, <2>1, AppendSame DEF listVars
<1>6. CASE ~tempChange /\ ~(single # "false")
  <2>1. PICK c \in NextSong(List) : ChangeSong(c.list, c.song, "playing")
    BY <1>6 DEF AboutToFinish
  <2> QED
    BY <1>1, <2>1, AppendSkip
<1> QED
  BY <1>3, <1>4, <1>5, <1>6

(* Switching random reorders the queue.                                    *)
LEMMA AppendSetRandom ==
    ASSUME Inv, AppendInv, SetRandom
    PROVE  AppendInv' /\ broken' = broken
<1>1. /\ UNCHANGED <<songs, slots, currentSong, consume, binVars, broken>>
      /\ playQueue' \in IF random THEN {slots} ELSE Shuffles(playQueue)
  BY DEF SetRandom
<1>2. playQueue \in Seq(Addrs) /\ ToSet(playQueue) = ToSet(slots)
  BY DEF Inv, ListOK, List, AppendInv, QueueCoversSongs
<1>3. ToSet(playQueue') = ToSet(slots)
  BY <1>1, <1>2, ShufflesProperties
<1> QED
  BY <1>1, <1>3, AppendSame DEF binVars

(* Every operation of a session that only appends keeps the queue          *)
(* complete, and does nothing undefined but write through a null pointer   *)
(* in a bus handler.                                                       *)
LEMMA AppendNext ==
    ASSUME AppendingOnly, Inv, AppendInv, [Next]_vars
    PROVE  AppendInv' /\ (broken' = broken \/ (BusReadsCurrent /\ currentSong = Null))
<1>1. ToSet(playQueue) = ToSet(slots)
  BY DEF AppendInv, QueueCoversSongs
<1>2. CASE \E pos \in {-1} \cup (0..MaxAdds) : AddSong(pos)
  <2>1. PICK pos \in {-1} \cup (0..MaxAdds) : AddSong(pos)
    BY <1>2
  <2>2. pos = -1
    <3>1. CASE pos < 0
      BY <3>1, PlayQueueAssumption
    <3>2. CASE ~(pos < 0)
      BY <2>1, <3>2 DEF AddSong, Using, AppendingOnly
    <3> QED
      BY <3>1, <3>2
  <2> QED
    BY <2>1, <2>2, AppendAdd
<1>3. CASE \E id \in 0..MaxAdds : PlaySongID(id)
  <2>1. UNCHANGED consume /\ \E id \in ToSet(songs) : ChangeSong(List, slots[IndexOf(songs, id)], "playing")
    BY <1>3 DEF PlaySongID, flagVars
  <2> QED
    BY <2>1, AppendPlay
<1>4. CASE Resume
  <2>1. CASE currentSong = Null
    BY <1>4, <2>1, AppendPlay DEF Resume, flagVars
  <2>2. CASE currentSong # Null
    <3>1. UNCHANGED <<listVars, consume, uri, broken>>
      BY <1>4, <2>2 DEF Resume, flagVars
    <3> QED
      BY <1>1, <3>1, AppendSame DEF listVars
  <2> QED
    BY <2>1, <2>2
<1>5. CASE Pause
  <2>1. UNCHANGED <<listVars, consume, uri, broken>>
    BY <1>5 DEF Pause, flagVars
  <2> QED
    BY <1>1, <2>1, AppendSame DEF listVars
<1>6. CASE SkipNext
  <2>1. UNCHANGED consume /\ state \in States
    BY <1>6 DEF SkipNext, flagVars, Inv, BinOK
  <2>2. PICK c \in NextSong(List) : ChangeSong(c.list, c.song, state)
    BY <1>6 DEF SkipNext
  <2> QED
    BY <2>1, <2>2, AppendSkip
<1>7. CASE Status
  BY <1>7, AppendStatus
<1>8. CASE SetRepeat \/ \E s \in {"false", "true", "oneshot"} : SetSingle(s)
  <2>1. UNCHANGED <<listVars, consume, binVars, broken>>
    BY <1>8 DEF SetRepeat, SetSingle
  <2> QED
    BY <1>1, <2>1, AppendSame DEF listVars, binVars
<1>9. CASE SetRandom
  BY <1>9, AppendSetRandom
<1>10. CASE AboutToFinish
  BY <1>10, AppendFinish
<1>11. CASE PlaybinArrives
  <2>1. UNCHANGED <<listVars, consume, uri, broken>>
    BY <1>11 DEF PlaybinArrives, flagVars
  <2> QED
    BY <1>1, <2>1, AppendSame DEF listVars
<1>12. CASE UNCHANGED vars
  BY <1>1, <1>12, AppendSame DEF vars
<1>13. CASE BusSetsState
  <2>1. UNCHANGED <<listVars, consume, uri, broken>>
    BY <1>13 DEF BusSetsState, flagVars
  <2> QED
    BY <1>1, <2>1, AppendSame DEF listVars
<1>14. CASE BusReadsCurrent
  <2>1. UNCHANGED <<listVars, consume, uri>>
    BY <1>14 DEF BusReadsCurrent, Break, flagVars, binVars
  <2>2. currentSong = Null
    BY <1>14 DEF BusReadsCurrent, AppendInv, Live, List
  <2> QED
    BY <1>1, <1>14, <2>1, <2>2, AppendSame DEF listVars
<1>15. ~SkipPrevious /\ ~SetConsume /\ \A id \in 0..MaxAdds : ~RemoveSongID(id)
  BY DEF AppendingOnly, Using, SkipPrevious, SetConsume, RemoveSongID
<1> QED
  BY <1>2, <1>3, <1>4, <1>5, <1>6, <1>7, <1>8, <1>9, <1>10, <1>11, <1>12, <1>13, <1>14, <1>15
     DEF Next

(* The two invariants together, in such sessions.                          *)
THEOREM Appending == AppendingOnly => (Spec => [](Inv /\ AppendInv))
<1> SUFFICES ASSUME AppendingOnly PROVE Spec => [](Inv /\ AppendInv)
  OBVIOUS
<1>1. Init => AppendInv
  BY DEF Init, AppendInv, QueueCoversSongs, UriOfCurrent
<1>2. Inv /\ AppendInv /\ [Next]_vars => AppendInv'
  BY AppendNext
<1>3. Inv /\ [Next]_vars => Inv'
  BY NextStep
<1> QED
  BY <1>1, <1>2, <1>3, InitInv, PTL DEF Spec

(* No song is left out of the rotation, and no entry of the play queue     *)
(* points into freed memory.                                               *)
THEOREM CoversSongs == AppendingOnly => (Spec => []QueueCoversSongs)
<1>1. AppendInv => QueueCoversSongs
  BY DEF AppendInv
<1> QED
  BY <1>1, Appending, PTL

(* What "should hopefully never happen" does not: the current song is in   *)
(* the play queue when nextSong looks it up.                               *)
THEOREM CurrentQueued == AppendingOnly => (Spec => []CurrentInQueue)
<1>1. AppendInv => CurrentInQueue
  BY DEF AppendInv, QueueCoversSongs, CurrentInQueue
<1> QED
  BY <1>1, Appending, PTL

(* The playbin's uri is the current song's.                                *)
THEOREM PlaysCurrent == AppendingOnly => (Spec => []UriOfCurrent)
<1>1. AppendInv => UriOfCurrent
  BY DEF AppendInv
<1> QED
  BY <1>1, Appending, PTL

(* No call follows a pointer to a slot that is gone; the one undefined     *)
(* step of such a session is a bus handler's that writes through           *)
(* m_currentSong when there is none.                                       *)
THEOREM Defined == AppendingOnly => (Spec => UndefinedWithoutSong)
<1> SUFFICES ASSUME AppendingOnly PROVE Spec => UndefinedWithoutSong
  OBVIOUS
<1>1. Inv /\ AppendInv /\ [Next]_vars =>
        [(broken' /\ ~broken) => (BusReadsCurrent /\ currentSong = Null)]_vars
  <2> SUFFICES ASSUME Inv, AppendInv, [Next]_vars, broken', ~broken
               PROVE  BusReadsCurrent /\ currentSong = Null
    OBVIOUS
  <2>1. ~(broken' = broken)
    BY Zenon
  <2> QED
    BY <2>1, AppendNext
<1> QED
  BY <1>1, Appending, PTL DEF Spec, UndefinedWithoutSong

(* std::find in the rebuilt queue finds the current song at its place.     *)
LEMMA FindUnique ==
    ASSUME NEW S, NEW s \in Seq(S), Distinct(s), NEW x \in ToSet(s)
    PROVE  Find(s, x) = IndexOf(s, x) /\ Find(s, x) \in 1..Len(s)
<1>1. Find(s, x) \in 1..Len(s) /\ s[Find(s, x)] = x
  BY FindProperties
<1>2. IndexOf(s, x) \in 1..Len(s) /\ s[IndexOf(s, x)] = x
  BY IndexOfProperties
<1> QED
  BY <1>1, <1>2 DEF Distinct

(* Under repeat, without random and single, the songs are played in the    *)
(* order of the playlist, and the first follows the last.                  *)
THEOREM Cycles == AppendingOnly => (Spec => RepeatCycles)
<1> SUFFICES ASSUME AppendingOnly PROVE Spec => RepeatCycles
  OBVIOUS
<1> DEFINE A == (AboutToFinish /\ ~tempChange /\ single = "false" /\ repeat /\ ~random /\ currentSong # Null)
                => LET i == IndexOf(slots, currentSong)
                   IN  currentSong' = slots[IF i = Len(slots) THEN 1 ELSE i + 1]
<1>1. Inv /\ AppendInv /\ [Next]_vars => [A]_vars
  <2> SUFFICES ASSUME Inv, AppendInv, AboutToFinish, ~tempChange, single = "false", repeat, ~random,
                      currentSong # Null
               PROVE  LET i == IndexOf(slots, currentSong)
                      IN  currentSong' = slots[IF i = Len(slots) THEN 1 ELSE i + 1]
    OBVIOUS
  <2>1. /\ slots \in Seq(Addrs) /\ Distinct(slots) /\ currentSong \in ToSet(slots)
        /\ "playing" \in States /\ UNCHANGED consume
        /\ List.slots = slots /\ List.current = currentSong
    BY DEF Inv, ListOK, List, AppendInv, States, AboutToFinish
  <2>2. PICK c \in NextSong(List) : ChangeSong(c.list, c.song, "playing")
    BY DEF AboutToFinish
  <2>3. currentSong' = c.song
    BY <2>1, <2>2, AppendSkip
  <2>4. songs # <<>>
    <3>1. Len(slots) # 0 /\ Len(songs) = Len(slots)
      BY <2>1, ToSetProperties DEF Inv, ListOK, List
    <3> QED
      BY <3>1
  <2>5. c.song = After(slots, currentSong)
    <3>1. ~NothingToPlay(List)
      BY <2>4 DEF NothingToPlay, List
    <3>2. Rebuilt(List) = {ResetQueue(List)}
      BY DEF Rebuilt, Requeued
    <3>3. c = [list |-> ResetQueue(List), song |-> After(ResetQueue(List).queue, List.current)]
      BY <2>2, <3>1, <3>2 DEF NextSong, Choice
    <3>4. ResetQueue(List).queue = slots
      BY DEF ResetQueue, List
    <3> QED
      BY <2>1, <3>3, <3>4
  <2> DEFINE i == IndexOf(slots, currentSong)
  <2>6. Find(slots, currentSong) = i /\ i \in 1..Len(slots)
    BY <2>1, FindUnique
  <2>7. Head(slots) = slots[1] /\ Len(slots) \in Nat
    BY <2>1
  <2>8. After(slots, currentSong) = IF i < Len(slots) THEN slots[i + 1] ELSE Head(slots)
    BY <2>6, <2>7 DEF After
  <2> HIDE DEF i
  <2>9. c.song = slots[IF i = Len(slots) THEN 1 ELSE i + 1]
    BY <2>5, <2>6, <2>7, <2>8
  <2> QED
    BY <2>3, <2>9 DEF i
<1> QED
  BY <1>1, Appending, PTL DEF Spec, RepeatCycles
=============================================================================
