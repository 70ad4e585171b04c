----------------------------- MODULE YoutubeDL -----------------------------
(***************************************************************************)
(* What YoutubeDL::request makes of an answer of youtube-dl                *)
(* (src/src/Util/YoutubeDL.cpp).                                           *)
(*                                                                         *)
(* An answer is the process's exit status, whether its JSON parses and has *)
(* a title, a thumbnail and headers of the types asked for, its url (or    *)
(* "") and its formats, each with a url; abr is NoRate where it is null.   *)
(***************************************************************************)
EXTENDS Integers, Sequences

NoRate == -1

Suits(f) == f.audio /\ ~f.video
Rate(f) == IF f.abr = NoRate THEN 1 ELSE f.abr

(* The format whose url is played: the first of the best rate among those  *)
(* with audio alone, else the first with audio.  Where there is none the   *)
(* code reads past the last format.                                        *)
Nothing == "past the last format"
Chosen(formats) ==
    LET suiting == {i \in DOMAIN formats : Suits(formats[i])}
        best == {i \in suiting : \A j \in suiting :
                    \/ Rate(formats[i]) > Rate(formats[j])
                    \/ Rate(formats[i]) = Rate(formats[j]) /\ i <= j}
        first == {i \in DOMAIN formats :
                    formats[i].audio /\ \A j \in 1..(i - 1) : ~formats[j].audio}
    IN  IF best # {} THEN formats[CHOOSE i \in best : TRUE].url
        ELSE IF first # {} THEN formats[CHOOSE i \in first : TRUE].url ELSE Nothing

(* A response with this DownloadUrl, or no response.                       *)
Success(url) == [kind |-> "response", url |-> url]
Unsuccessful == [kind |-> "response", url |-> ""]
Thrown == [kind |-> "exception", url |-> ""]
Undefined == [kind |-> "undefined", url |-> ""]

(* Mutant: youtube-dl's failure is answered as in download().              *)
Response_Unsuccessful(valid, answer) ==
    IF ~valid \/ answer.exit # 0 THEN Unsuccessful
    ELSE IF ~answer.complete THEN Thrown
    ELSE IF answer.url # "" THEN Success(answer.url)
    ELSE IF Chosen(answer.formats) = Nothing THEN Undefined
    ELSE Success(Chosen(answer.formats))

(* A request that is not valid is answered { false } without asking.       *)
Response(valid, answer) ==
    IF ~valid THEN Unsuccessful
    ELSE IF answer.exit # 0 \/ ~answer.complete THEN Thrown
    ELSE IF answer.url # "" THEN Success(answer.url)
    ELSE IF Chosen(answer.formats) = Nothing THEN Undefined
    ELSE Success(Chosen(answer.formats))
=============================================================================
