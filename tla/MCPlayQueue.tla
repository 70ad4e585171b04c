---------------------------- MODULE MCPlayQueue ----------------------------
(* Small instances of PlayQueue for TLC.                                   *)
EXTENDS PlayQueue

Symmetry == Permutations(Addrs)

(* Sessions that add songs at the end only, and hear the bus.              *)
Appending == {"add", "play", "pause", "next", "status", "repeat", "random", "single", "finish",
              "bus"}

(* Sessions that add, start a song and let songs finish.                   *)
Listening == {"add", "play", "finish"}

(* Sessions that add and delete songs and skip to the next.                *)
Deleting == {"add", "play", "next", "delete"}

(* Sessions that edit the list in every way while it plays, and hear the   *)
(* bus.                                                                    *)
Editing == {"add", "addid", "delete", "consume", "play", "next", "previous", "finish",
            "repeat", "status", "pause", "bus"}
=============================================================================
