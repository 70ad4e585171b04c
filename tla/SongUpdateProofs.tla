-------------------------- MODULE SongUpdateProofs --------------------------
(***************************************************************************)
(* Theorems about the lookups of remote songs, for every number of songs,  *)
(* lookups and workers: types and kept addresses with any number of        *)
(* control threads; one lookup at a time, and the wait for it, when the    *)
(* control threads are never at it together, which is stated as there      *)
(* being at most one of them.                                              *)
(***************************************************************************)
EXTENDS SongUpdate, FiniteSetTheorems, TLAPS

(* A task that was queued belongs to a song, and so does a thread at work. *)
OwnerInv ==
    /\ \A t \in Tasks : step[t] # "unqueued" => taskSong[t] \in Songs
    /\ \A c \in Control : pc[c] # "idle" => song[c] \in added

(* What a lookup is about to write: nothing for a song whose protocol      *)
(* validRequest does not know, an address for any other.                   *)
AddressInv ==
    /\ \A s \in Unsafe : dataURL[s] = ""
    /\ \A t \in Tasks : step[t] = "write" => (response[t] = "" <=> taskSong[t] \in Unsafe)

(* What holds with any number of control threads.                          *)
Inv == TypeOK /\ OwnerInv /\ AddressInv
-----------------------------------------------------------------------------
(* The format whose url is played is one of those youtube-dl listed.       *)
LEMMA ChosenIsListed ==
    ASSUME NEW formats
    PROVE  Chosen(formats) = Nothing \/ \E i \in DOMAIN formats : Chosen(formats) = formats[i].url
<1> DEFINE suiting == {i \in DOMAIN formats : Suits(formats[i])}
           best == {i \in suiting : \A j \in suiting :
                      \/ Rate(formats[i]) > Rate(formats[j])
                      \/ Rate(formats[i]) = Rate(formats[j]) /\ i <= j}
           first == {i \in DOMAIN formats :
                      formats[i].audio /\ \A j \in 1..(i - 1) : ~formats[j].audio}
<1>1. best \subseteq DOMAIN formats /\ first \subseteq DOMAIN formats
  OBVIOUS
<1>2. best # {} => (CHOOSE i \in best : TRUE) \in best
  OBVIOUS
<1>3. first # {} => (CHOOSE i \in first : TRUE) \in first
  OBVIOUS
<1>4. Chosen(formats) = IF best # {} THEN formats[CHOOSE i \in best : TRUE].url
                        ELSE IF first # {} THEN formats[CHOOSE i \in first : TRUE].url
                        ELSE Nothing
  BY DEF Chosen
<1> HIDE DEF best, first
<1> QED
  BY <1>1, <1>2, <1>3, <1>4

(* What request() answers for a valid request, when it answers, is an      *)
(* address.                                                                *)
LEMMA ResponseHasUrl ==
    ASSUME NEW answer \in Answers
    PROVE  Response(TRUE, answer).kind = "response" => Response(TRUE, answer).url # ""
<1>1. CASE answer.exit # 0 \/ ~answer.complete
  BY <1>1 DEF Response, Thrown
<1>2. CASE ~(answer.exit # 0 \/ ~answer.complete) /\ answer.url # ""
  BY <1>2 DEF Response, Success
<1>3. CASE ~(answer.exit # 0 \/ ~answer.complete) /\ answer.url = ""
  <2>1. CASE Chosen(answer.formats) = Nothing
    BY <1>3, <2>1 DEF Response, Undefined
  <2>2. CASE Chosen(answer.formats) # Nothing
    <3>1. Chosen(answer.formats) # ""
      BY <2>2, ChosenIsListed, AnswersAssumption DEF AnswersAssumption
    <3> QED
      BY <1>3, <2>2, <3>1 DEF Response, Success
  <2> QED
    BY <2>1, <2>2
<1> QED
  BY <1>1, <1>2, <1>3

(* The pool, as the lookups use it, holds tasks and nothing else.          *)
PoolOK == waiting \in Seq(Tasks) /\ executing \subseteq Tasks /\ completed \subseteq Tasks

(* Every step of the pool keeps it so.                                     *)
LEMMA PoolTypes ==
    /\ Pool!Init => PoolOK
    /\ PoolOK /\ Pool!Start => PoolOK'
    /\ \A t \in Tasks : PoolOK /\ (Pool!Submit(t) \/ Pool!Finish(t)) => PoolOK'
<1>1. Pool!Init => PoolOK
  BY DEF Pool!Init, PoolOK
<1>2. ASSUME NEW t \in Tasks, PoolOK, Pool!Submit(t) PROVE PoolOK'
  BY <1>2 DEF Pool!Submit, PoolOK
<1>3. ASSUME PoolOK, Pool!Start PROVE PoolOK'
  BY <1>3 DEF Pool!Start, PoolOK
<1>4. ASSUME NEW t \in Tasks, PoolOK, Pool!Finish(t) PROVE PoolOK'
  BY <1>4 DEF Pool!Finish, PoolOK
<1> QED
  BY <1>1, <1>2, <1>3, <1>4
-----------------------------------------------------------------------------
(* Types, owners and addresses hold in every state, whatever the control   *)
(* threads interleave.                                                     *)
THEOREM Basic == Spec => []Inv
<1> USE SongUpdateAssumption DEF SongUpdateAssumption
<1>1. Init => Inv
  <2> SUFFICES ASSUME Init PROVE Inv
    OBVIOUS
  <2> USE DEF Init, Pool!Init, ControlPC, StepPC
  <2>1. waiting \in Seq(Tasks) /\ executing \subseteq Tasks /\ completed \subseteq Tasks
    BY PoolTypes DEF PoolOK
  <2>2. TypeOK
    BY <2>1 DEF TypeOK
  <2>3. OwnerInv /\ AddressInv
    BY DEF OwnerInv, AddressInv
  <2> QED
    BY <2>2, <2>3 DEF Inv
<1>2. Inv /\ [Next]_vars => Inv'
  <2> SUFFICES ASSUME Inv, [Next]_vars PROVE Inv'
    OBVIOUS
  <2> USE DEF Inv, TypeOK, OwnerInv, AddressInv, ControlPC, StepPC, Alive, Goto, StepTo,
              poolVars, songVars, taskVars, controlVars
  <2>1. ASSUME NEW c \in Control, NEW s \in Songs, AddSong(c, s) PROVE Inv'
    BY <2>1 DEF AddSong
  <2>2. ASSUME NEW c \in Control, NEW s \in Songs, ChangeSong(c, s) PROVE Inv'
    BY <2>2 DEF ChangeSong
  <2>3. ASSUME NEW c \in Control, CheckUpdate(c) PROVE Inv'
    BY <2>3 DEF CheckUpdate
  <2>4. ASSUME NEW c \in Control, QueueUpdate(c) PROVE Inv'
    <3>1. PICK t \in Tasks :
             /\ step[t] = "unqueued"
             /\ waiting' = Append(waiting, t)
             /\ taskSong' = [taskSong EXCEPT ![t] = song[c]]
             /\ step' = [step EXCEPT ![t] = "request"]
             /\ future' = [future EXCEPT ![c] = t]
      BY <2>4 DEF QueueUpdate, Pool!Submit
    <3>2. /\ song[c] \in Songs
          /\ UNCHANGED <<executing, completed, response, songVars, song, terminated>>
          /\ pc' = [pc EXCEPT ![c] = IF pc[c] = "add" THEN "addAssign" ELSE "changeAssign"]
          /\ pc[c] # "idle"
      BY <2>4 DEF QueueUpdate, Pool!Submit
    <3>3. PoolOK'
      BY <2>4, PoolTypes DEF PoolOK, QueueUpdate
    <3> QED
      BY <3>1, <3>2, <3>3 DEF PoolOK
  <2>5. ASSUME NEW c \in Control, AssignTask(c) PROVE Inv'
    BY <2>5 DEF AssignTask
  <2>6. ASSUME NEW c \in Control, TestValid(c) PROVE Inv'
    BY <2>6 DEF TestValid
  <2>7. ASSUME NEW c \in Control, CopyTask(c) PROVE Inv'
    BY <2>7 DEF CopyTask
  <2>8. ASSUME NEW c \in Control, WaitTask(c) PROVE Inv'
    BY <2>8 DEF WaitTask
  <2>9. ASSUME NEW c \in Control, WaitThrows(c) PROVE Inv'
    BY <2>9 DEF WaitThrows
  <2>10. ASSUME NEW c \in Control, ReadUri(c) PROVE Inv'
    BY <2>10 DEF ReadUri
  <2>11. ASSUME NEW s \in Songs, BecomesDue(s) PROVE Inv'
    BY <2>11 DEF BecomesDue
  <2>12. ASSUME StartTask PROVE Inv'
    <3>1. PoolOK'
      BY <2>12, PoolTypes DEF PoolOK, StartTask
    <3> QED
      BY <2>12, <3>1 DEF PoolOK, StartTask
  <2>13. ASSUME NEW t \in Tasks, Request(t) PROVE Inv'
    <3>1. PICK answer \in Answers :
             LET r == Response(taskSong[t] \notin Unsafe, answer)
             IN  \/ /\ r.kind = "response"
                    /\ response' = [response EXCEPT ![t] = r.url]
                    /\ step' = [step EXCEPT ![t] = "write"]
                 \/ /\ step' = [step EXCEPT ![t] = "reset"]
                    /\ UNCHANGED response
      BY <2>13 DEF Request
    <3>2. step[t] = "request" /\ UNCHANGED <<poolVars, taskSong, songVars, controlVars, terminated>>
      BY <2>13 DEF Request
    <3>3. CASE taskSong[t] \in Unsafe
      <4>1. \/ /\ response' = [response EXCEPT ![t] = ""]
               /\ step' = [step EXCEPT ![t] = "write"]
            \/ /\ step' = [step EXCEPT ![t] = "reset"]
               /\ UNCHANGED response
        BY <3>1, <3>3 DEF Response, Unsuccessful
      <4> QED
        BY <3>2, <3>3, <4>1, ZenonT(40)
    <3>4. CASE taskSong[t] \notin Unsafe
      <4>1. PICK r : r = Response(TRUE, answer)
        OBVIOUS
      <4>2. \/ /\ r.kind = "response"
               /\ response' = [response EXCEPT ![t] = r.url]
               /\ step' = [step EXCEPT ![t] = "write"]
            \/ /\ step' = [step EXCEPT ![t] = "reset"]
               /\ UNCHANGED response
        BY <3>1, <3>4, <4>1 DEF Response
      <4>3. /\ r.kind = "response" => r.url # ""
            /\ r.url \in {""} \cup {Response(TRUE, a).url : a \in Answers}
        BY <4>1, ResponseHasUrl, Zenon
      <4> HIDE <4>1
      <4> QED
        BY <3>2, <3>4, <4>2, <4>3, ZenonT(40)
    <3> QED
      BY <3>3, <3>4
  <2>14. ASSUME NEW t \in Tasks, RequestCrashes(t) PROVE Inv'
    BY <2>14 DEF RequestCrashes
  <2>15. ASSUME NEW t \in Tasks, NotAvailable(t) PROVE Inv'
    BY <2>15 DEF NotAvailable
  <2>16. ASSUME NEW t \in Tasks, WriteSong(t) PROVE Inv'
    BY <2>16 DEF WriteSong
  <2>17. ASSUME NEW t \in Tasks, ResetTask(t) PROVE Inv'
    BY <2>17 DEF ResetTask
  <2>18. ASSUME NEW t \in Tasks, FinishTask(t) PROVE Inv'
    BY <2>18 DEF FinishTask, Pool!Finish
  <2>19. ASSUME UNCHANGED vars PROVE Inv'
    BY <2>19 DEF vars
  <2> QED
    BY <2>1, <2>2, <2>3, <2>4, <2>5, <2>6, <2>7, <2>8, <2>9, <2>10, <2>11, <2>12, <2>13,
       <2>14, <2>15, <2>16, <2>17, <2>18, <2>19 DEF Next, ControlStep, TaskStep
<1>3. QED
  BY <1>1, <1>2, PTL DEF Spec

(* The fields of songs, tasks and threads have their types in every state. *)
THEOREM Types == Spec => []TypeOK
BY Basic, PTL DEF Inv

(* An address once found is not lost: youtube-dl's failure goes to the     *)
(* reset, and the empty response is given only for songs that are never    *)
(* looked up with success.                                                 *)
THEOREM KeepsAddress == Spec => AddressKept
<1>1. Inv /\ [Next]_vars => [\A s \in Songs : dataURL[s] # "" => dataURL'[s] # ""]_vars
  <2> SUFFICES ASSUME Inv, Next, NEW s \in Songs, dataURL[s] # "" PROVE dataURL'[s] # ""
    OBVIOUS
  <2>1. CASE UNCHANGED dataURL
    BY <2>1
  <2>2. CASE \E t \in Tasks : WriteSong(t)
    <3>1. PICK t \in Tasks : WriteSong(t)
      BY <2>2
    <3>2. taskSong[t] = s => response[t] # ""
      BY <3>1 DEF Inv, AddressInv, WriteSong
    <3> QED
      BY <3>1, <3>2 DEF WriteSong, Inv, TypeOK
  <2>3. UNCHANGED dataURL \/ \E t \in Tasks : WriteSong(t)
    BY DEF Next, ControlStep, TaskStep, songVars, AddSong, ChangeSong, CheckUpdate, QueueUpdate,
           AssignTask, TestValid, CopyTask, WaitTask, WaitThrows, ReadUri, BecomesDue, StartTask,
           Request, RequestCrashes, NotAvailable, ResetTask, FinishTask
  <2> QED
    BY <2>1, <2>2, <2>3
<1> QED
  BY <1>1, Basic, PTL DEF Spec, AddressKept
-----------------------------------------------------------------------------
(* The control thread that queued a lookup and has yet to assign it.       *)
Holds(c, t) == pc[c] \in {"addAssign", "changeAssign"} /\ song[c] = taskSong[t] /\ future[c] = t

(* A lookup that is not over is the song's UpdateTask, or is about to be:  *)
(* so a song without an UpdateTask, which nobody is assigning, has none.   *)
UnderWay(t) == step[t] \in {"request", "write", "reset"}

(* Such a lookup has a holder.                                             *)
HeldInv == \A t \in Tasks : UnderWay(t) =>
              updateTask[taskSong[t]] = t \/ \E c \in Control : Holds(c, t)

(* A lookup is queued only for a song that has no UpdateTask, like every   *)
(* song not in the playlist.                                               *)
FreshInv ==
    /\ \A c \in Control : pc[c] \in {"add", "addAssign", "change", "changeAssign"}
                             => updateTask[song[c]] = NoTask
    /\ \A s \in Songs \ added : updateTask[s] = NoTask

(* The wait of changeSong is for every lookup of the song that is not      *)
(* over, and a future is ready after _updateSong returned.                 *)
WaitInv ==
    /\ \A c \in Control, t \in Tasks :
          pc[c] = "wait" /\ UnderWay(t) /\ taskSong[t] = song[c] => future[c] = t
    /\ \A t \in completed : step[t] = "return"

(* What holds with one control thread.                                     *)
LookupInv == HeldInv /\ FreshInv /\ WaitInv

(* What Inv says of the fields those three are about.                      *)
FieldsOK ==
    /\ completed \subseteq Tasks
    /\ taskSong \in [Tasks -> Songs \cup {NoSong}]
    /\ step \in [Tasks -> StepPC]
    /\ updateTask \in [Songs -> Tasks \cup {NoTask}]
    /\ added \subseteq Songs
    /\ pc \in [Control -> ControlPC]
    /\ song \in [Control -> Songs \cup {NoSong}]
    /\ future \in [Control -> Tasks \cup {NoTask}]
    /\ OwnerInv

(* One thread at a time adds and changes songs.                            *)
OneControl == \A c, d \in Control : c = d

(* Under one control thread every step keeps the invariant.                *)
LEMMA LookupStep ==
    ASSUME OneControl, FieldsOK, LookupInv, [Next]_vars
    PROVE  LookupInv'
<1> USE SongUpdateAssumption
    DEF SongUpdateAssumption, OneControl, FieldsOK, LookupInv, OwnerInv, HeldInv, FreshInv, WaitInv,
        Holds, UnderWay, ControlPC, StepPC, Alive, Goto, StepTo,
        poolVars, songVars, taskVars, controlVars
<1>1. ASSUME NEW c \in Control, NEW s \in Songs, AddSong(c, s) PROVE LookupInv'
  BY <1>1 DEF AddSong
<1>2. ASSUME NEW c \in Control, NEW s \in Songs, ChangeSong(c, s) PROVE LookupInv'
  BY <1>2 DEF ChangeSong
<1>3. ASSUME NEW c \in Control, CheckUpdate(c) PROVE LookupInv'
  BY <1>3 DEF CheckUpdate
<1>4. ASSUME NEW c \in Control, QueueUpdate(c) PROVE LookupInv'
  <2>1. PICK t \in Tasks :
           /\ step[t] = "unqueued"
           /\ taskSong' = [taskSong EXCEPT ![t] = song[c]]
           /\ step' = [step EXCEPT ![t] = "request"]
           /\ future' = [future EXCEPT ![c] = t]
           /\ UNCHANGED completed
    BY <1>4 DEF QueueUpdate, Pool!Submit
  <2>2. /\ pc[c] \in {"add", "change"} /\ song[c] \in added
        /\ pc' = [pc EXCEPT ![c] = IF pc[c] = "add" THEN "addAssign" ELSE "changeAssign"]
        /\ UNCHANGED <<songVars, song>>
    BY <1>4 DEF QueueUpdate
  <2>3. HeldInv'
    BY <2>1, <2>2
  <2>4. FreshInv'
    BY <2>1, <2>2
  <2>5. WaitInv'
    BY <2>1, <2>2
  <2> QED
    BY <2>3, <2>4, <2>5
<1>5. ASSUME NEW c \in Control, AssignTask(c) PROVE LookupInv'
  BY <1>5 DEF AssignTask
<1>6. ASSUME NEW c \in Control, TestValid(c) PROVE LookupInv'
  BY <1>6 DEF TestValid
<1>7. ASSUME NEW c \in Control, CopyTask(c) PROVE LookupInv'
  BY <1>7 DEF CopyTask
<1>8. ASSUME NEW c \in Control, WaitTask(c) PROVE LookupInv'
  BY <1>8 DEF WaitTask
<1>9. ASSUME NEW c \in Control, WaitThrows(c) PROVE LookupInv'
  BY <1>9 DEF WaitThrows
<1>10. ASSUME NEW c \in Control, ReadUri(c) PROVE LookupInv'
  BY <1>10 DEF ReadUri
<1>11. ASSUME NEW s \in Songs, BecomesDue(s) PROVE LookupInv'
  BY <1>11 DEF BecomesDue
<1>12. ASSUME StartTask PROVE LookupInv'
  BY <1>12 DEF StartTask, Pool!Start
<1>13. ASSUME NEW t \in Tasks, Request(t) PROVE LookupInv'
  <2>1. /\ step[t] = "request"
        /\ step' = [step EXCEPT ![t] = "write"] \/ step' = [step EXCEPT ![t] = "reset"]
        /\ UNCHANGED <<poolVars, taskSong, songVars, controlVars>>
    BY <1>13 DEF Request
  <2> QED
    BY <2>1
<1>14. ASSUME NEW t \in Tasks, RequestCrashes(t) PROVE LookupInv'
  BY <1>14 DEF RequestCrashes
<1>15. ASSUME NEW t \in Tasks, NotAvailable(t) PROVE LookupInv'
  BY <1>15 DEF NotAvailable
<1>16. ASSUME NEW t \in Tasks, WriteSong(t) PROVE LookupInv'
  <2>1. /\ step[t] = "write" /\ step' = [step EXCEPT ![t] = "reset"]
        /\ UNCHANGED <<completed, taskSong, updateTask, added, pc, song, future>>
    BY <1>16 DEF WriteSong
  <2> QED
    BY <2>1
<1>17. ASSUME NEW t \in Tasks, ResetTask(t) PROVE LookupInv'
  <2>1. /\ step[t] = "reset" /\ step' = [step EXCEPT ![t] = "return"]
        /\ updateTask' = [updateTask EXCEPT ![taskSong[t]] = NoTask]
        /\ UNCHANGED <<completed, taskSong, added, pc, song, future>>
    BY <1>17 DEF ResetTask
  <2>2. \A u \in Tasks : UnderWay(u) /\ taskSong[u] = taskSong[t] /\ u # t
                            => \E c \in Control : Holds(c, u)
    BY <2>1
  <2>3. HeldInv'
    BY <2>1, <2>2
  <2>4. FreshInv' /\ WaitInv'
    BY <2>1
  <2> QED
    BY <2>3, <2>4
<1>18. ASSUME NEW t \in Tasks, FinishTask(t) PROVE LookupInv'
  BY <1>18 DEF FinishTask, Pool!Finish
<1>19. ASSUME UNCHANGED vars PROVE LookupInv'
  BY <1>19 DEF vars
<1> QED
  BY <1>1, <1>2, <1>3, <1>4, <1>5, <1>6, <1>7, <1>8, <1>9, <1>10, <1>11, <1>12, <1>13, <1>14,
     <1>15, <1>16, <1>17, <1>18, <1>19 DEF Next, ControlStep, TaskStep

(* So the invariant holds in every state.                                  *)
LEMMA Lookups ==
    ASSUME OneControl
    PROVE  Spec => [](FieldsOK /\ LookupInv)
<1>1. Init => LookupInv
  BY DEF Init, LookupInv, HeldInv, FreshInv, WaitInv, UnderWay, Pool!Init
<1>2. Inv => FieldsOK
  BY DEF Inv, TypeOK, FieldsOK
<1>3. FieldsOK /\ LookupInv /\ [Next]_vars => LookupInv'
  BY OneControl, LookupStep
<1> QED
  BY <1>1, <1>2, <1>3, Basic, PTL DEF Spec

(* The lookups of a song that have not written it yet are at most one task:*)
(* both are its UpdateTask, or both the future about to be assigned to it. *)
LEMMA AtMostOne ==
    ASSUME OneControl, LookupInv, NEW s \in Songs
    PROVE  Unwritten(s) = {} \/ \E t \in Tasks : Unwritten(s) = {t}
<1>1. ASSUME NEW t \in Unwritten(s), NEW u \in Unwritten(s) PROVE t = u
  <2>1. /\ updateTask[s] = t \/ \E c \in Control : Holds(c, t) /\ song[c] = s
        /\ updateTask[s] = u \/ \E c \in Control : Holds(c, u) /\ song[c] = s
    BY DEF Unwritten, LookupInv, HeldInv, UnderWay, Holds
  <2>2. \A c \in Control, v \in Tasks : Holds(c, v) /\ song[c] = s => updateTask[s] = NoTask
    BY DEF LookupInv, FreshInv, Holds
  <2>3. t \in Tasks /\ u \in Tasks
    BY DEF Unwritten
  <2> QED
    BY <2>1, <2>2, <2>3, SongUpdateAssumption DEF SongUpdateAssumption, OneControl, Holds
<1>2. Unwritten(s) \subseteq Tasks
  BY DEF Unwritten
<1> QED
  BY <1>1, <1>2

(* With one control thread a song is looked up by one task at a time.      *)
THEOREM LooksUpOnce ==
    ASSUME OneControl
    PROVE  Spec => []OneUpdateAtATime
<1>1. LookupInv => OneUpdateAtATime
  <2> SUFFICES ASSUME LookupInv, NEW s \in Songs PROVE Cardinality(Unwritten(s)) <= 1
    BY DEF OneUpdateAtATime
  <2>1. CASE Unwritten(s) = {}
    BY <2>1, FS_EmptySet
  <2>2. CASE \E t \in Tasks : Unwritten(s) = {t}
    <3>1. PICK t \in Tasks : Unwritten(s) = {t}
      BY <2>2
    <3>2. Cardinality(Unwritten(s)) = 1
      BY <3>1, FS_Singleton, Zenon
    <3> QED
      BY <3>2
  <2> QED
    BY <2>1, <2>2, OneControl, AtMostOne
<1> QED
  BY <1>1, OneControl, Lookups, PTL

(* With one control thread changeSong goes on to the uri only when no      *)
(* lookup of the song is still to write it.                                *)
THEOREM WaitsForLookup ==
    ASSUME OneControl
    PROVE  Spec => WaitsForUpdate
<1>1. FieldsOK /\ LookupInv /\ [Next]_vars
        => [\A c \in Control : (pc[c] \in {"valid", "wait"} /\ pc'[c] = "read")
                                  => Unwritten(song[c]) = {}]_vars
  <2> SUFFICES ASSUME FieldsOK, LookupInv, Next, NEW c \in Control, pc[c] \in {"valid", "wait"}, pc'[c] = "read"
               PROVE  Unwritten(song[c]) = {}
    OBVIOUS
  <2>1. \A d \in Control : d = c
    BY OneControl DEF OneControl
  <2>2. TestValid(c) \/ WaitTask(c)
    BY <2>1 DEF Next, ControlStep, TaskStep, controlVars, AddSong, ChangeSong, CheckUpdate, QueueUpdate,
           AssignTask, CopyTask, WaitThrows, ReadUri, BecomesDue, StartTask, Goto,
           Request, RequestCrashes, NotAvailable, WriteSong, ResetTask, FinishTask,
           FieldsOK
  <2>3. ASSUME NEW t \in Unwritten(song[c]) PROVE FALSE
    <3>1. t \in Tasks /\ UnderWay(t) /\ taskSong[t] = song[c]
      BY <2>3 DEF Unwritten, UnderWay
    <3>2. updateTask[song[c]] = t
      BY <2>1, <3>1 DEF LookupInv, HeldInv, Holds
    <3>3. CASE TestValid(c)
      <4>1. updateTask[song[c]] = NoTask
        BY <3>3 DEF TestValid, Goto, FieldsOK
      <4> QED
        BY <3>1, <3>2, <4>1, SongUpdateAssumption DEF SongUpdateAssumption
    <3>4. CASE WaitTask(c)
      <4>1. future[c] = t /\ future[c] \in completed
        BY <3>1, <3>4 DEF LookupInv, WaitInv, WaitTask
      <4> QED
        BY <3>1, <4>1 DEF LookupInv, WaitInv, UnderWay
    <3> QED
      BY <2>2, <3>3, <3>4
  <2> QED
    BY <2>3
<1> QED
  BY <1>1, OneControl, Lookups, PTL DEF Spec, WaitsForUpdate
=============================================================================
