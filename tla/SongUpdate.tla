----------------------------- MODULE SongUpdate -----------------------------
(***************************************************************************)
(* The lookups of remote songs: Playlist::_queueUpdateSong and             *)
(* _updateSong, and the wait for them in ActivePlaylist::changeSong        *)
(* (src/src/Playlist.cpp, ActivePlaylist.cpp).                             *)
(*                                                                         *)
(* Control is the set of threads that add and change songs: the main loop, *)
(* which runs the MPD commands, and GStreamer's streaming thread, which    *)
(* runs on_about_to_finish.  The lookups run in the worker pool, taken     *)
(* here as its abstract specification TaskPool.  Nothing guards the fields *)
(* of a Song: UpdateTask is assigned by the control threads, reset by the  *)
(* workers, and tested, copied and waited for in separate steps.           *)
(* Songs are remote (a local song is never looked up) and stay in their    *)
(* slots; a task is a member of Tasks and is used once.                    *)
(***************************************************************************)
EXTENDS YoutubeDL, FiniteSets

CONSTANTS
    Control,        \* threads that add and change songs
    Songs,          \* remote songs
    Unsafe,         \* those whose protocol validRequest does not know
    Answers,        \* of youtube-dl
    Tasks,          \* update tasks; bounds how many lookups are queued
    NoTask,         \* an empty future
    NoSong,
    WorkerCount     \* the threads of s_songUpdateQueue

ASSUME SongUpdateAssumption ==
    /\ NoTask \notin Tasks
    /\ NoSong \notin Songs /\ Unsafe \subseteq Songs
    /\ WorkerCount \in Nat \ {0}

(* A format that youtube-dl lists has a url.                               *)
ASSUME AnswersAssumption ==
    \A a \in Answers : \A i \in DOMAIN a.formats : a.formats[i].url # ""

VARIABLES
    waiting, executing, completed,      \* the worker pool, see TaskPool
    taskSong,       \* the song each task updates
    step,           \* where each task is inside _updateSong
    response,       \* the DownloadUrl it is to write
    updateTask,     \* Song::UpdateTask; NoTask when it is not valid()
    notDue,         \* NextUpdateTime >= now
    dataURL,        \* Song::DataURL, "" when it is empty
    added,          \* the songs in the playlist
    pc,             \* where each control thread is
    song,           \* the song it works on
    future,         \* the future it holds: from queueTask, or its own copy
    terminated      \* std::future_error left changeSong, which nobody catches

poolVars == <<waiting, executing, completed>>
songVars == <<updateTask, notDue, dataURL, added>>
taskVars == <<taskSong, step, response>>
controlVars == <<pc, song, future>>
vars == <<waiting, executing, completed, taskSong, step, response, updateTask, notDue,
          dataURL, added, pc, song, future, terminated>>

Pool == INSTANCE TaskPool

(* "add" and "change" are about to queue a lookup on behalf of addSong and *)
(* of changeSong; "addAssign" and "changeAssign" hold its future.          *)
ControlPC == {"idle", "add", "addAssign", "check", "change", "changeAssign",
              "valid", "copy", "wait", "read"}
StepPC == {"unqueued", "request", "write", "reset", "return"}

Init == /\ Pool!Init
        /\ taskSong = [t \in Tasks |-> NoSong]
        /\ step = [t \in Tasks |-> "unqueued"]
        /\ response = [t \in Tasks |-> ""]
        /\ updateTask = [s \in Songs |-> NoTask]
        /\ notDue = [s \in Songs |-> FALSE]
        /\ dataURL = [s \in Songs |-> ""]
        /\ added = {}
        /\ pc = [c \in Control |-> "idle"]
        /\ song = [c \in Control |-> NoSong]
        /\ future = [c \in Control |-> NoTask]
        /\ terminated = FALSE
-----------------------------------------------------------------------------
Alive == ~terminated /\ UNCHANGED terminated
Goto(c, l) == pc' = [pc EXCEPT ![c] = l]

(* addSong: the song is in m_songs, and a lookup is about to be queued.    *)
AddSong(c, s) ==
    /\ Alive
    /\ pc[c] = "idle"
    /\ s \notin added
    /\ added' = added \cup {s}
    /\ song' = [song EXCEPT ![c] = s]
    /\ Goto(c, "add")
    /\ UNCHANGED <<poolVars, taskVars, updateTask, notDue, dataURL, future>>

(* changeSong, up to the test of UpdateTask and NextUpdateTime.            *)
ChangeSong(c, s) ==
    /\ Alive
    /\ pc[c] = "idle"
    /\ s \in added
    /\ song' = [song EXCEPT ![c] = s]
    /\ Goto(c, "check")
    /\ UNCHANGED <<poolVars, taskVars, songVars, future>>

(* Mutant: queue a lookup although one is under way.                       *)
CheckUpdate_Always(c) ==
    /\ Alive
    /\ pc[c] = "check"
    /\ Goto(c, IF notDue[song[c]] THEN "change" ELSE "valid")
    /\ UNCHANGED <<poolVars, taskVars, songVars, song, future>>

(* No update under way and none due: queue one all the same.               *)
CheckUpdate(c) ==
    /\ Alive
    /\ pc[c] = "check"
    /\ Goto(c, IF updateTask[song[c]] = NoTask /\ notDue[song[c]] THEN "change" ELSE "valid")
    /\ UNCHANGED <<poolVars, taskVars, songVars, song, future>>

(* _queueUpdateSong: queueTask returns the future of the new task ...      *)
QueueUpdate(c) ==
    /\ Alive
    /\ pc[c] \in {"add", "change"}
    /\ \E t \in Tasks :
          /\ step[t] = "unqueued"
          /\ Pool!Submit(t)
          /\ taskSong' = [taskSong EXCEPT ![t] = song[c]]
          /\ step' = [step EXCEPT ![t] = "request"]
          /\ future' = [future EXCEPT ![c] = t]
    /\ Goto(c, IF pc[c] = "add" THEN "addAssign" ELSE "changeAssign")
    /\ UNCHANGED <<response, songVars, song>>

(* Mutant: the future of queueTask is thrown away.                         *)
AssignTask_Dropped(c) ==
    /\ Alive
    /\ pc[c] \in {"addAssign", "changeAssign"}
    /\ notDue' = [notDue EXCEPT ![song[c]] = TRUE]
    /\ future' = [future EXCEPT ![c] = NoTask]
    /\ IF pc[c] = "addAssign"
       THEN /\ Goto(c, "idle")
            /\ song' = [song EXCEPT ![c] = NoSong]
       ELSE Goto(c, "valid") /\ UNCHANGED song
    /\ UNCHANGED <<poolVars, taskVars, updateTask, dataURL, added>>

(* ... which is then assigned to UpdateTask, the next update an hour off.  *)
AssignTask(c) ==
    /\ Alive
    /\ pc[c] \in {"addAssign", "changeAssign"}
    /\ updateTask' = [updateTask EXCEPT ![song[c]] = future[c]]
    /\ notDue' = [notDue EXCEPT ![song[c]] = TRUE]
    /\ future' = [future EXCEPT ![c] = NoTask]
    /\ IF pc[c] = "addAssign"
       THEN /\ Goto(c, "idle")
            /\ song' = [song EXCEPT ![c] = NoSong]
       ELSE Goto(c, "valid") /\ UNCHANGED song
    /\ UNCHANGED <<poolVars, taskVars, dataURL, added>>

(* if (UpdateTask.valid()) ...                                             *)
TestValid(c) ==
    /\ Alive
    /\ pc[c] = "valid"
    /\ Goto(c, IF updateTask[song[c]] # NoTask THEN "copy" ELSE "read")
    /\ UNCHANGED <<poolVars, taskVars, songVars, song, future>>

(* ... auto task = UpdateTask ...                                          *)
CopyTask(c) ==
    /\ Alive
    /\ pc[c] = "copy"
    /\ future' = [future EXCEPT ![c] = updateTask[song[c]]]
    /\ Goto(c, "wait")
    /\ UNCHANGED <<poolVars, taskVars, songVars, song>>

(* ... task.wait(), which throws on an empty future.                       *)
WaitTask(c) ==
    /\ Alive
    /\ pc[c] = "wait"
    /\ future[c] \in completed
    /\ future' = [future EXCEPT ![c] = NoTask]
    /\ Goto(c, "read")
    /\ UNCHANGED <<poolVars, taskVars, songVars, song>>

WaitThrows(c) ==
    /\ ~terminated
    /\ pc[c] = "wait"
    /\ future[c] = NoTask
    /\ terminated' = TRUE
    /\ UNCHANGED <<poolVars, taskVars, songVars, controlVars>>

(* The uri is read from DataURL and handed to the playbin.                 *)
ReadUri(c) ==
    /\ Alive
    /\ pc[c] = "read"
    /\ song' = [song EXCEPT ![c] = NoSong]
    /\ Goto(c, "idle")
    /\ UNCHANGED <<poolVars, taskVars, songVars, future>>

(* An hour passes.                                                         *)
BecomesDue(s) ==
    /\ Alive
    /\ notDue[s]
    /\ notDue' = [notDue EXCEPT ![s] = FALSE]
    /\ UNCHANGED <<poolVars, taskVars, updateTask, dataURL, added, controlVars>>
-----------------------------------------------------------------------------
(* A free worker takes the oldest task.                                    *)
StartTask ==
    /\ Alive
    /\ Cardinality(executing) < WorkerCount
    /\ Pool!Start
    /\ UNCHANGED <<taskVars, songVars, controlVars>>

StepTo(t, l) == step' = [step EXCEPT ![t] = l]

(* Mutant: the answer belongs to no song.                                  *)
Request_NoSong(t) ==
    /\ Alive
    /\ t \in executing
    /\ step[t] = "request"
    /\ StepTo(t, "reset")
    /\ taskSong' = [taskSong EXCEPT ![t] = NoTask]
    /\ UNCHANGED <<poolVars, response, songVars, controlVars>>

(* _updateSong asks youtube-dl: an exception goes straight to the reset.   *)
Request(t) ==
    /\ Alive
    /\ t \in executing
    /\ step[t] = "request"
    /\ \E answer \in Answers :
          LET r == Response(taskSong[t] \notin Unsafe, answer)
          IN  \/ /\ r.kind = "response"
                 /\ response' = [response EXCEPT ![t] = r.url]
                 /\ StepTo(t, "write")
              \/ /\ r.kind \in {"exception", "undefined"}
                 /\ StepTo(t, "reset")
                 /\ UNCHANGED response
    /\ UNCHANGED <<poolVars, taskSong, songVars, controlVars>>

(* What is read past the last format may as well end the process.          *)
RequestCrashes(t) ==
    /\ ~terminated
    /\ t \in executing
    /\ step[t] = "request"
    /\ \E answer \in Answers : Response(taskSong[t] \notin Unsafe, answer).kind = "undefined"
    /\ terminated' = TRUE
    /\ UNCHANGED <<poolVars, taskVars, songVars, controlVars>>

(* youtube-dl is not installed: UpdateTask is left as it is.               *)
NotAvailable(t) ==
    /\ Alive
    /\ t \in executing
    /\ step[t] = "request"
    /\ StepTo(t, "return")
    /\ UNCHANGED <<poolVars, taskSong, response, songVars, controlVars>>

WriteSong(t) ==
    /\ Alive
    /\ step[t] = "write"
    /\ dataURL' = [dataURL EXCEPT ![taskSong[t]] = response[t]]
    /\ response' = [response EXCEPT ![t] = ""]
    /\ StepTo(t, "reset")
    /\ UNCHANGED <<poolVars, taskSong, updateTask, notDue, added, controlVars>>

ResetTask(t) ==
    /\ Alive
    /\ step[t] = "reset"
    /\ updateTask' = [updateTask EXCEPT ![taskSong[t]] = NoTask]
    /\ StepTo(t, "return")
    /\ UNCHANGED <<poolVars, taskSong, response, notDue, dataURL, added, controlVars>>

(* Mutant: a failed or finished lookup hands its worker back to the pool   *)
(* without returning from the task.                                        *)
FinishTask_NeverReady(t) ==
    /\ Alive
    /\ step[t] = "return"
    /\ executing' = executing \ {t}
    /\ UNCHANGED <<waiting, completed, taskVars, songVars, controlVars>>

(* The packaged_task makes the future ready after _updateSong returned.    *)
FinishTask(t) ==
    /\ Alive
    /\ step[t] = "return"
    /\ Pool!Finish(t)
    /\ UNCHANGED <<taskVars, songVars, controlVars>>
-----------------------------------------------------------------------------
ControlStep(c) == \/ CheckUpdate(c) \/ QueueUpdate(c) \/ AssignTask(c)
                  \/ TestValid(c) \/ CopyTask(c) \/ WaitTask(c) \/ ReadUri(c)
TaskStep(t) == Request(t) \/ NotAvailable(t) \/ WriteSong(t) \/ ResetTask(t) \/ FinishTask(t)

Next == \/ \E c \in Control : \/ \E s \in Songs : AddSong(c, s) \/ ChangeSong(c, s)
                              \/ ControlStep(c)
                              \/ WaitThrows(c)
        \/ \E s \in Songs : BecomesDue(s)
        \/ \E t \in Tasks : TaskStep(t) \/ RequestCrashes(t)
        \/ StartTask

Spec == Init /\ [][Next]_vars

(* Threads run, and youtube-dl answers or fails.                           *)
FairSpec == /\ Spec
            /\ \A c \in Control : WF_vars(ControlStep(c))
            /\ \A t \in Tasks : WF_vars(TaskStep(t))
            /\ WF_vars(StartTask)
-----------------------------------------------------------------------------
TypeOK ==
    /\ waiting \in Seq(Tasks) /\ executing \subseteq Tasks /\ completed \subseteq Tasks
    /\ taskSong \in [Tasks -> Songs \cup {NoSong}]
    /\ step \in [Tasks -> StepPC]
    /\ updateTask \in [Songs -> Tasks \cup {NoTask}]
    /\ notDue \in [Songs -> BOOLEAN]
    /\ LET urls == {""} \cup {Response(TRUE, a).url : a \in Answers}
       IN  response \in [Tasks -> urls] /\ dataURL \in [Songs -> urls]
    /\ added \subseteq Songs
    /\ pc \in [Control -> ControlPC]
    /\ song \in [Control -> Songs \cup {NoSong}]
    /\ future \in [Control -> Tasks \cup {NoTask}]
    /\ terminated \in BOOLEAN

(* The lookups of a song that have not written it yet.                     *)
Unwritten(s) == {t \in Tasks : taskSong[t] = s /\ step[t] \in {"request", "write"}}

(* "Wait for the current song update to finish before playing it": when    *)
(* changeSong goes on to the uri, after a wait or because UpdateTask was   *)
(* not valid, no lookup of the song is still to write it.                  *)
WaitsForUpdate ==
    [][\A c \in Control : (pc[c] \in {"valid", "wait"} /\ pc'[c] = "read")
                             => Unwritten(song[c]) = {}]_vars

(* A song is looked up by one task at a time, so that an older answer does *)
(* not overwrite a newer one.                                              *)
OneUpdateAtATime == \A s \in Songs : Cardinality(Unwritten(s)) <= 1

(* A lookup that fails leaves the address an earlier one found: only a     *)
(* newer answer replaces it.                                               *)
AddressKept == [][\A s \in Songs : dataURL[s] # "" => dataURL'[s] # ""]_vars

(* changeSong waits only where "Task is available, waiting for it".        *)
WaitsOnATask == \A c \in Control : pc[c] = "wait" => future[c] # NoTask

(* A thread that waits for a lookup gets through, however the lookup ends: *)
(* the main loop and the streaming thread are not blocked for good.        *)
WaitEnds == \A c \in Control :
                (pc[c] = "wait" /\ future[c] # NoTask) ~> (pc[c] # "wait" \/ terminated)
=============================================================================
