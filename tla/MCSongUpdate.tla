---------------------------- MODULE MCSongUpdate ----------------------------
(* Small instances of SongUpdate for TLC.                                  *)
EXTENDS SongUpdate, TLC

Format(url, audio, video, abr) == [url |-> url, audio |-> audio, video |-> video, abr |-> abr]
Answer(formats) == [exit |-> 0, complete |-> TRUE, url |-> "", formats |-> formats]
Video == Format("video", FALSE, TRUE, NoRate)
Both == Format("both", TRUE, TRUE, NoRate)
Audio(url, abr) == Format(url, TRUE, FALSE, abr)

(* A url of its own; failures to run and to parse; formats of which none   *)
(* has audio, none has audio alone, or some have.                          *)
OneAnswer == {[Answer(<<>>) EXCEPT !.url = "direct"]}
AllAnswers ==
    OneAnswer \cup
    {[Answer(<<>>) EXCEPT !.exit = 1],
     [Answer(<<>>) EXCEPT !.complete = FALSE],
     Answer(<<Video>>),
     Answer(<<Video, Both>>),
     Answer(<<Both, Audio("low", NoRate), Audio("high", 128)>>)}

Symmetry == Permutations(Control) \cup Permutations(Songs) \cup Permutations(Tasks)
=============================================================================
