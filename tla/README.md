# A TLA+ model of youtubedld

youtubedld is a daemon that plays a queue of songs with GStreamer, looks remote songs up
with youtube-dl, and is driven by MPD clients. This directory holds TLA+ modules of its
core (the worker pool, the play queue, the lookups, the MPD connections and commands), TLC
instances that check them, and TLAPS proofs about each of them. Paths below are relative
to the repository's `src/`.

## The system

| Part | State | Operations | Threads |
|------|-------|------------|---------|
| `Util/WorkQueue` | `m_taskQueue`, `m_queueMutex`, `m_queueCV`, `m_workThreads`, `m_running` | `queueTask`, `start`, `stop`, `setWorkerCount`, `_workThread` | 4 workers by default, plus every caller of `queueTask` |
| `Playlist` | `m_songs` (a deque), `m_songCounter`, the lookup fields of each `Song` | add, remove, shuffle, find, `_queueUpdateSong`, `_updateSong`, playlist files | main loop, workers, streaming thread |
| `ActivePlaylist` | `m_playQueue`, `m_currentSong`, `m_playFlags`, `g_tempChange`, the playbin | play, pause, next, previous, options, `changeSong`, bus and streaming callbacks | main loop, GStreamer's streaming thread |
| `Server` | `m_eventQueue`, the protocols | `pushEvent`, `on_tick` (every 100 ms), `run` | main loop; `pushEvent` from all |
| `MPDProto` | `m_clientMap`, `m_sendQueue`, `m_recvQueue` and a mutex for each queue | `post`, `update`, `runThread`, the commands | main loop and the protocol's thread |
| `EpollServer` | descriptors, `m_events` | `start`, `accept`, `pollEvent` | the protocol's thread |
| `YoutubeDL` | install path | `request`, `execute` | workers |
| `Config`, `Tokeniser`, `Path`, `Logging`, `GObjectSignalWrapper` | configuration values, loggers | parsing and output | the caller's |

How they interact: a client's line is read by the protocol's thread, put into
`m_recvQueue`, and run by the main loop in `on_tick`. The command changes the
`ActivePlaylist`, which drives the playbin and pushes an event. `on_tick` hands the events
to `MPDProto::post`, and the protocol's thread writes to the clients that are idle, or
remembers the flag for their next `idle`. Adding a remote song queues a lookup in the
worker pool; `changeSong` waits for it. The playbin calls back on the main loop (bus
messages) and on its streaming thread (`about-to-finish`, `source-setup`).

What is hard in it:

- three kinds of threads share `m_songs`, `m_playQueue`, the `UpdateTask` of a song,
  `m_eventQueue` and `m_clientMap` without a lock; only the task queue and the two MPD
  message queues have one;
- `m_playQueue` and `m_currentSong` are pointers into a `std::deque`, and insertion and
  erasure move songs between the slots they point to;
- a condition variable that is notified after the unlock, with a predicate that does not
  know about `stop()`;
- the asynchronous playbin, whose messages change the state on their own, and
  `g_tempChange`, which has to swallow exactly one signal;
- an edge-triggered epoll descriptor, whose events may be about an earlier user of a
  descriptor, and client IDs that are used again while lines of an earlier client wait;
- lines that arrive in pieces, and command lists that fail in the middle.

`PROJECT.json` lists each place under "hazards", with the properties that watch it.

## The modules

| Module | Models | Uses |
|--------|--------|------|
| `TaskPool` | what the pool promises: tasks start in order, once, and become ready once | |
| `WorkQueue` | `Util::WorkQueue`, one action per step between lock operations | refines `TaskPool` |
| `PlayQueue` | `ActivePlaylist` over `Playlist`, one action per operation or callback | |
| `SongUpdate` | lookups and the wait for them, one action per access to `UpdateTask` | `TaskPool` |
| `YoutubeDL` | what `YoutubeDL::request` makes of an answer (operators) | |
| `MpdStreams` | what the connections promise: each peer's lines are handled in order, once, and before a line that comes in pieces maybe parts of it | |
| `MpdCommands` | the table of commands, argument checks, errors, command lists (operators) | |
| `MpdServer` | `EpollServer`, the receiving half of `runThread`, and `update` with `handleMessage`, `runCommandList` and `writeData` | `MpdCommands`, refines `MpdStreams` |
| `EventPath` | events from `pushEvent` to the client, one action per access to a flag word | |
| `WorkQueueProofs`, `SongUpdateProofs`, `EventPathProofs`, `PlayQueueProofs` | the theorems about the module each is named after | that module |
| `MpdServerProofs` | the theorems about `m_clientMap`, descriptors, events, messages, types and replies | `MpdServer` |
| `SequenceLemmas` | lemmas about operators on sequences, and induction over sets | |
| `MCxxx` | the instance: symmetry sets, the sessions of `PlayQueue`, the answers of youtube-dl, the lines of `MpdServer` | `xxx` |

**WorkQueue.** `mutex` is the holder of `m_queueMutex`; the threads blocked in `m_queueCV`
are those with `wpc = "asleep"`. `wpc`, `ppc` and `opc` are the places of the workers, of
the callers of `queueTask`, and of the owner, who runs `start`, `stop` and
`setWorkerCount`. A waiter may wake spuriously. `m_running` is a plain `bool` read without
the lock; the model reads its latest value, an outcome the build can produce; a stale read
only sends a worker round its loop again. `SetWorkerCount(W)` picks any set of slots, so
the pool may also have none. `start` is taken when the pool is not running, as the
`Playlist` constructor does (`Playlist.cpp:71`). In the program only the destructor stops
the pool and nothing resizes it; the model has both, since the class is made for them.

**PlayQueue.** The deque is two sequences: the IDs of the songs, and the addresses of the
slots they are in. Erasing takes the ID out and gives up the slot at the nearer end;
inserting does the reverse; so a pointer may come to show another song, or none, as it
does in libstdc++. Following a pointer to a slot that is gone (a log line that prints the
URL of the current song does), `erase(end())`, or stepping out of an empty queue is
undefined and sets `broken`; nothing happens after that. Operations that no command
reaches, `removeAllSongs` and `shuffle`, are left out. `state` is what `get_state`
returns, `target` what the playbin was last set to; `PlaybinArrives` joins them, or the
playbin gives up. `Ops` restricts the operations of a session, because the invariants that
hold in one kind of session are broken by another (see below). Events, log lines, volume,
error text, `PF_Live` and the URL of a song are left out; `uri` is the ID of the song.
`play`, `delete` and `addid` are taken with valid arguments, or, for `addid`, with any
position.

**SongUpdate.** `TaskPool` stands for the pool, which `WorkQueue` is proved to implement.
`pc` walks a control thread through `addSong` and `changeSong`; `step` walks a task
through `_updateSong`. `future` is the future a thread holds. `updateTask[s] = NoTask` is
a future that is not `valid()`. Songs stay where they are. `Request` takes one of
`Answers` and lets `YoutubeDL!Response` decide: an answer becomes a `DownloadUrl` that is
written to `DataURL`, or an exception that leaves the song as it was. A URL whose protocol
`validRequest` does not know (`Unsafe`) is answered with an empty one. Without a format
that has audio the code reads past the last format; the model lets it throw or crash.

**MpdServer.** One action per event the protocol's thread handles, per accepted
connection, and per lookup in `m_clientMap` on the main loop; the two meet in
`m_recvQueue`, which `m_recvQueueMutex` guards (`Generate` needs `mpc = "idle"`, since
`update` holds the mutex throughout), and in `m_clientMap`, which nothing guards. The
kernel is modelled from how the code uses it: a connection that arrives, data, a FIN or a
reset puts its descriptor into the ready list once; `epoll_wait` empties the list and
reports what is true by then; `accept` returns the lowest free descriptor; a write to a
connection that the peer closed is answered with a reset, and one to a reset connection
raises SIGPIPE. `m_events` may keep an event while its descriptor is closed and given to
another peer. `status` tells how far a peer's departure got. A line is a command and what
its arguments read as; `Buffer` is the sequence of pieces that arrived, where a `head` has
no newline and a `tail` is the rest of the line. The thread makes a message of a `head`
each time it passes (`Generate`), and again of the whole line when the rest is there;
`MaxCopies` bounds how many of those wait. A command list runs command by command
(`EndList`, `RunListed`), and each write of a reply is two steps, `Write` for the lookup
of the socket and `SendReply` for `send()`, since the client may go and its descriptor be
used again between any two of them; `sending` holds the writes that are left. Several
writes of one command before its OK (`commands`, for one) are one `data`. `intact = FALSE`
marks a message whose arguments are views of a Buffer that changed since: they may read as
anything. Which commands answer, fail or throw is in `MpdCommands`. `ran`, `due`, `view`
and `cutShort` are history; `ran` has the lines of a peer that ran and the copies of
unended ones, one that ran again and again once. With fewer descriptors than the 32 events
that `epoll_wait` may return at a time (`EventLimit`, an assumption), it returns all there
are. Blank lines, quoted arguments and the reply texts are left out, and so is the
insertion of two threads into one `unordered_map` at a time, which is undefined.

**EventPath.** `events`, `sendQueue`, `idle` and `active` are `m_eventQueue`,
`m_sendQueue`, `IdleFlags` and `ActiveIdleFlags`. `owed[c]` and `lost[c]` are history
variables: what changed and client `c` was not told, and what it was owed when the queue
was cleared of it or `doIdle` took it back. A read-modify-write of `ActiveIdleFlags` is a
load and a store, since two threads do it without a lock. `idle` asks for any set of
flags: its flags start uninitialized when it has arguments (`Commands.cpp:119`). Several
pending flags are answered with `changed: TODO`, which tells the client nothing. Pushing
to `m_eventQueue` is one step: the race on the deque itself is not needed for what is
shown. The protocol's thread would end on an event that triggers no flag (`MPD.cpp:99`);
every event that is pushed triggers one.

Definitions whose names have a suffix, such as `NotifyOne_WhenFirst`, are mutants: the
definition as a plausible bug would have it. Each property is violated when the mutant
listed for it in `PROJECT.json` takes the place of the original.

## The runs

| Run | Instance | Shows |
|-----|----------|-------|
| `WorkQueue` | 2 producers, 2 workers, 2 tasks, 2 stops or resizes | `TypeOK`, `EnoughAwake` (no lost wakeup), `SlotsFree` (no joinable thread is overwritten), `PoolSpec` (implements `TaskPool`), `TasksComplete`, `StopReturns` |
| `PlayQueueAppending` | 3 songs, sessions that add at the end and hear the bus | `QueueCoversSongs`, `CurrentInQueue`, `UriOfCurrent`, `RepeatCycles`, `UndefinedWithoutSong` (the one undefined step is a bus message's write through no song) |
| `PlayQueueEditing` | 3 songs, insertion, deletion, consume, bus messages | `TypeOK` (shape of the deque), `IDsUnique`, `SongsSurvive`, `OnlyMessagesPlayNothing` (a call never makes the playbin play nothing) |
| `PlayQueueFinish` | 2 songs | violation of `FinishAdvances`: `addSong` queues each song twice, so a song that finishes is followed by itself |
| `PlayQueueNotFound` | 3 songs, deletion | violation of `CurrentInQueue`: after a deletion the current song is not in the queue |
| `SongUpdateMain` | 1 control thread, 2 songs (one `Unsafe`), 3 lookups, 2 workers, 6 answers | `TypeOK`, `OneUpdateAtATime`, `WaitsForUpdate`, `AddressKept` (a lookup that fails leaves the address an earlier one found), `WaitEnds` |
| `SongUpdateTwoThreads` | 2 control threads, 1 song | violation of `WaitsForUpdate`: a song is played before its lookup wrote it |
| `SongUpdateEmptyFuture` | 1 control thread, 1 song, 1 lookup | violation of `WaitsOnATask`: `wait()` on an empty future throws |
| `EventPath` | 2 clients, 2 events of 2 kinds, from the main loop and a worker | `LossesKnown` (what is lost is lost in one of two places), `EventArrives` |
| `MpdConnections` | 3 peers, 2 descriptors, 2 client IDs, batches of 2, 1 line each | `TypeOK`, `MapMatchesDescriptors`, `RepliesToSender`, `NoneStranded`, `ClosesLeavers`, `StreamSpec` (implements `MpdStreams`) |
| `MpdSession` | 1 peer that may leave, 4 lines of 4 kinds, one in two pieces | `AnsweredOnce`, `RunsInOrder`, `UnendedListsWait`, `StreamSpec`, `LinesHandled` |
| `EventPathWorker` | 1 client, 3 events, a worker pushes as well | violation of `NothingForgotten`: an event pushed before `clear()` is lost |

Bounds. Two producers and two workers give every race of the pool for a task, for the
mutex and for a notification; two stops give a stop or resize while an earlier one's
threads are gone or being replaced. (The safety part is proved for every number.) Three
songs are the fewest with a first, a middle and a last slot, where the deque moves songs
towards either end; `MaxAdds` bounds how many are added in all. One song is enough for a
race on one `UpdateTask`; two show that lookups of different songs do not mix. `Tasks`
bounds the lookups: three give a song that is looked up again. The two clients of
`EventPath` differ in what they are idle for; two events, of one kind or two, meet at
every step of the sending thread. The three peers of `MpdConnections` share two
descriptors, so one is used again while events or replies of its last user are on the way,
and `ClientAll = 3` makes the third ID the first again; a batch of two may leave somebody
waiting. Its view leaves out the history variables that its properties do not read.
`MpdSession` has enough lines for a list of two commands with its beginning and end, or
for a list in a list; the second line may come in pieces (`CutNumbers`), so lines precede
and follow it. A line that is no command occurs there as the first piece of one. When a
peer may leave is bounded too (`LeaveNumbers`): in `MpdConnections` once it sent its line,
whose reply may find it gone or its descriptor given to another, and in `MpdSession` at
any point before its last line, between the two pieces of a line as well. The two runs
thus have a peer that leaves with nothing said, within its session and after all of it,
and the theorems hold whatever the numbers are.

`CHECK_DEADLOCK` is off in every run: the program may rest when no client asks for
anything, each module stops at its bound, and a broken or terminated program does nothing.

Where the passing runs stop. `PlayQueueAppending` leaves deletion, insertion, consume and
`previous` out, because its properties do not survive them: pointers go stale. That is the
content of `PlayQueueNotFound`, not an assumption on users; what does hold of those
sessions is checked in `PlayQueueEditing`. Bus messages are in both: MESSAGE_BUFFERING
starts a playbin that was set to READY because there is no song, which is the exception
`OnlyMessagesPlayNothing` names. `LossesKnown` says where changes are lost, not that none
is: with `EventPathWorker` one is, and `changed: TODO` tells a client of two flags
neither. `WaitsForUpdate` holds with one control thread and is refuted with two. Commands
of several clients are run one after the other by the main loop, so one stream of
operations stands for all clients.

What the MPD properties leave open, because the code does:

- `RepliesToSender` is about `send()`, not the lookup before it: what is written while its
  sender is connected goes to the sender. Once the sender is gone, it may go to another
  peer that got the descriptor between the lookup and `send()`. All of it ends when there
  were more connections than IDs: a line that waits while its client leaves is then
  answered to whoever got the ID. With 2^32 IDs that takes long, and the check that an ID
  is free only looks at `m_clientMap`, not at `m_recvQueue`.
- `NoneStranded` allows somebody to wait when the last accept loop ended with a full batch
  or without a descriptor (`cutShort`): the edge is consumed and the next connection is
  what wakes the loop again. It also allows it when the thread spins: with every ID in use
  the search for the next one never ends, and whoever waits is never accepted. The
  instance has two IDs and two descriptors; the IDs run out when entries of clients that
  are gone, made again with socket 0, hold some.
- `ClosesLeavers` names the one way to close a peer that stays: a "closed" event was read
  for an earlier user of its descriptor, one that left and was written to after it closed,
  so that its reset was a second event. It says only that *some* peer was reset, because
  stale events form chains: the peer that stays may follow one that was itself closed by a
  stale event. That takes four peers; the instance has three.
- `AnsweredOnce` and `UnendedListsWait` are about peers whose lines arrive whole, and
  `AnsweredOnce` about peers that begin no list inside a list: a `command_list_begin`
  inside a list runs when the list ends and leaves the client in a list it did not ask
  for. It ends with the first connection that is closed, since a reply that is about to be
  written goes to whoever has the descriptor by then. `BareIdle` leaves out `idle` with
  flags: when the arguments of one are overwritten while it waits, an `idle` that was to
  wait fails and is answered, or one that was to fail waits; of no other command does a
  misreading change whether there is an answer, unless it ends the process. A line that
  lacks only its newline is run at once and once more when the newline arrives; one that
  lacks more is answered with an ACK and still run when it is complete. An unknown command
  in a list is refused at once and the list goes on.
- `StreamSpec` and `RunsInOrder` count those runs: what is handled besides the lines is a
  line that was sent in pieces, in part, any number of times, and only before the line
  itself. That the code runs them at all is in the model, not excluded by a property: no
  comment or document of the repository says what a line without its end should do.
- `LinesHandled` ends when the process does. `std::stoi` of a word, `front()` of no
  arguments, `at()` on a client that was erased meanwhile and SIGPIPE all end it.

Fairness. A thread that can run does (the operating system schedules all of them): weak
fairness of each thread's steps. Taking `m_queueMutex` has strong fairness, since the
other threads release it between two steps; a mutex that starved a thread for ever would
be needed to refute it. Tasks end: youtube-dl is a child process that answers or fails,
and a pool stuck in it is outside the model. The ticker fires and every tick posts after
its commands: strong fairness of `BeginPost`, which another command may delay. In
`MpdServer` the protocol's thread and the main loop have weak fairness; `Generate` has
strong fairness because it waits for the mutex that `update` takes on every tick. No
fairness is given to producers' calls, to `stop`, to commands, or to spurious wakeups.

`StopReturns` carries its exception on purpose. A worker that finds the queue empty after
`notify_all` goes back to sleep, since the predicate (`WorkQueue.cpp:59`) does not look at
`m_running`; `stop()` then waits in `join` for ever. The property says this is the only
way to be stuck.

## The proofs

The theorems hold for every value of the constants that satisfies the module's assumption,
so for any number of threads, songs, clients, descriptors and lines. Each inductive
invariant was checked by TLC first.

### WorkQueue

For all sets of producers, workers and tasks and any `MaxStops`, from
`WorkQueueAssumption` (finite, disjoint sets of threads):

- `Types`: `Spec => []TypeOK`; `FreeSlots`: `Spec => []SlotsFree`; `WakeUps`: `Spec =>
  []EnoughAwake`; `OnlyOnce`: `Spec => []OnePlace`, a task is held by one producer, queued
  once, run by one worker or ready; `Implements`: `Spec => PoolSpec`.

None of the invariants is inductive alone. The invariant `Inv` that `Basic` proves has
four parts beside the types: the mutex is held exactly by the thread at a place inside the
lock (`MutexInv`); a running pool has an idle owner and no exited thread, and a slot that
is not in `m_workThreads` has no thread (`SlotsInv`); a producer that locks or pushes, and
a worker that runs, have a task in hand (`HandInv`); and `SlotsFree`. `WakeUps` and
`OnlyOnce` are inductive on top of it. `EnoughAwake` counts threads, so its steps rest on
lemmas about what one woken, sleeping or finishing thread changes in the cardinalities
(`Counting` and the lemmas of each action). `Implements` follows from `OnePlace`: each
action of a producer or worker is the step of `TaskPool` it should be, or a stutter.

### SongUpdate

- With any number of control threads, `Types`: `Spec => []TypeOK`, and `KeepsAddress`:
  `Spec => AddressKept`. `Inv` adds to the types that a task under way has a song and a
  control thread works on a song of the playlist (`OwnerInv`), and that the empty address
  is written only to songs that never have one (`AddressInv`). The latter needs
  `AnswersAssumption`: a format that youtube-dl lists has a url, which is what `-j`
  prints.
- With at most one control thread (`OneControl`), `LooksUpOnce`: `[]OneUpdateAtATime`, and
  `WaitsForLookup`: `WaitsForUpdate`. Only the main loop adds songs, and it is the one
  that changes them unless the streaming thread does so at the same time, which is what
  `SongUpdateTwoThreads` refutes the property with. `LookupInv` has three parts: a lookup
  that is not over is the song's `UpdateTask`, or in the hand of the thread that is about
  to assign it (`HeldInv`); a lookup is queued only when the song has no `UpdateTask`
  (`FreshInv`); and the thread that waits holds the future of every lookup of its song
  that is not over (`WaitInv`).

### EventPath

`ForgetsNothing`: `Spec => []LossesKnown`, for any clients, kinds of events and threads
that push them: what a client is owed and has not lost in one of the two places is in the
queues or in its flags. `LossesKnown` looks at places where an event can rest, so `Inv`
has to follow an owed event all the way: it is in the part of `m_eventQueue` that the tick
has not reached, in a message that the thread has not brought to this client or whose flag
it is about to store, or in the flags (`CoverInv`); the tick ends where `m_eventQueue`
ends, and the thread is at a message of its queue (`PlaceInv`); and between the thread's
load and store the flags only shrink, between those of `doIdle` they only grow
(`LoadInv`), so neither store drops a flag that the other has set.

### PlayQueue

- In every session: `Types`, `UniqueIDs` (`[]IDsUnique`), `KeepsSongs` (`SongsSurvive`)
  and `PlaysSomething` (`OnlyMessagesPlayNothing`). `Inv` says that IDs are below
  `m_songCounter` and that the list is one the calls may work on: as many slots as songs,
  no two alike. Each operation on the list has a lemma that says what list it returns; the
  deque's moves are `InsertAt` and `RemoveAt` on either sequence.
- In sessions that only append (`AppendingOnly`, the sessions of `PlayQueueAppending` and
  the hypothesis under which the properties hold, see above): `CoversSongs`,
  `CurrentQueued`, `PlaysCurrent`, `Defined` (`UndefinedWithoutSong`) and `Cycles`
  (`RepeatCycles`). Only `addid`, `delete`, `consume` and `previous` are excluded; the bus
  messages are not. `AppendInv` is the conjunction of the invariants with what they need
  of one another: nothing is consumed, and the current song is in a slot.

### MpdServer

For any peers, descriptors, IDs and lines, from `MpdServerAssumption` (the listening
descriptor, 0 and the others differ; `Client_All` is above 1) and, where lines are read,
`LinesAssumption` (a line is a command and a sequence of arguments):

- `MapMatches`: `Spec => []MapMatchesDescriptors`. `MapInv` says that the counter is below
  `Client_All`, that no two entries have one socket, that a socket is open, and that
  outside `spin` every open descriptor has an entry. That `NextID` finds a free ID, if
  there is any, is a lemma about arithmetic modulo the number of IDs.
- `Closes`: `Spec => ClosesLeavers`, and `Accepted`: `Spec => []NoneStranded`. They need
  to know where a peer is, once in the backlog or behind one descriptor (`PeersInv`), and
  what was read of the ready list (`EventsInv`): a ready descriptor is open; a "closed"
  event is about a peer that left; and as long as no peer was reset, that peer still has
  the descriptor, has one such event, and is not ready again.
- `Typed`: `Spec => []TypeOK`. The types are not inductive without a message where the
  main loop looks for one (`QueueTypes`: `update` holds the mutex from one message to the
  next) and the line whose rest is still to come (`SentTypes`). Lines that are `Kept`,
  `Joined`, reread and flattened stay lines.
- `Answers`: `Spec => []RepliesToSender`. `SenderInv`: until there are more connections
  than IDs the counter is at most the number of accepted peers, every ID in use is at most
  the counter, and every message, queued, in a list or running, is *genuine*: its client
  was given an ID, and if that client is still connected its descriptor is that of the
  message's peer. A client that `m_clientMap[]` makes again has socket 0, so no reply to
  it reaches a peer. Between the lookup and `send()` the descriptor is the sender's as
  long as the sender is connected; once it is not, it was the sender's at the lookup or
  there is none (`Reaches`).

### How

`SequenceLemmas` has what the modules share: sequences without repetitions, concatenation,
insertion, removal, and induction, stated over sets of naturals, since the provers cannot
instantiate the library's theorems that take an operator. For the same reason `Kept` and
`FlattenSeq` are reasoned about as recursive functions: a lemma shows that the function
they choose exists, and then what it is at each index.

Only model-checked: the liveness properties `TasksComplete`, `StopReturns`, `WaitEnds`,
`EventArrives` and `LinesHandled`, since the prover has no rule for fairness; and
`StreamSpec`, `RunsInOrder`, `UnendedListsWait` and `AnsweredOnce`. Every other invariant
and action property of a passing run is proved.

## Not modelled

- `Config` and `Path`: text parsing at start-up, before any other thread exists.
- The server's life cycle: start-up is one sequence of calls, and nothing ends the main
  loop once it runs. `quit()` before `run()` (`Server.cpp:100`) has no effect, which needs
  no model to see. `EpollServer::start`, `stop` and failures inside them belong here.
- Playlist files (`addFromFile`, `loadFromFile`, `saveToFile`, `addFromPlaylist`),
  `removeSong` by search or by index, `EpollServer::getEvent`, `YoutubeDL::download` and
  `update`: no caller.
- `YoutubeDL::execute`: an answer. Two lookups that draw the same number of 900 000 for
  their temporary files read each other's output.
- The text of replies, empty lines, quoted arguments.
- A Song that moves or is erased while its lookup runs, and two threads inside
  `m_playQueue`, `m_songs` or `m_clientMap` at once: undefined from there on.
- `Logging` and `GObjectSignalWrapper` have no state a property could be about. The MPRIS
  and REST files are empty; `External/json.hpp` is third-party.

## Plan

What is left to prove, besides liveness, which the prover cannot do, is that `MpdServer`
implements `MpdStreams` and what it answers. What could be modelled next: `Config`'s
parsing and the playlist files, as operators on token sequences once something depends on
what they accept; and the start and stop of the threads, when the code gets an orderly
shutdown.
