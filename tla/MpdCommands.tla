---------------------------- MODULE MpdCommands ----------------------------
(***************************************************************************)
(* What a line of an MPD client does, as far as the reply and the command  *)
(* lists go: the table of commands (Protocols/MPD/Commands.hpp), the check *)
(* of the number of arguments in handleMessage, the dispatch of runCommand *)
(* (Protocols/MPD/Commands.cpp) and runCommandList (Protocols/MPD.cpp).    *)
(*                                                                         *)
(* A line is a command and its arguments; an argument is only what it      *)
(* reads as: the number of a song or of none, a name the command knows, or *)
(* another word.                                                           *)
(***************************************************************************)
EXTENDS Integers, Sequences, FiniteSets

(* The elements of s at the indices in at, in their order.                 *)
Kept(s, at) == LET kept[i \in 0..Len(s)] ==
                      IF i = 0 THEN <<>>
                      ELSE IF i \in at THEN Append(kept[i - 1], s[i]) ELSE kept[i - 1]
              IN  kept[Len(s)]

Arguments == {"song", "nosong", "name", "word"}
IsNumber(a) == a \in {"song", "nosong"}

(* Fewest and most arguments of the commands that runCommand dispatches,   *)
(* and of stop, which stands for those it does not; -1 is any number.      *)
Arity == [add |-> <<1, 1>>, addid |-> <<1, 2>>, clearerror |-> <<0, 0>>,
          commands |-> <<0, 0>>, notcommands |-> <<0, 0>>,
          command_list_begin |-> <<0, 0>>, command_list_ok_begin |-> <<0, 0>>,
          command_list_end |-> <<0, 0>>,
          consume |-> <<1, 1>>, random |-> <<1, 1>>, repeat |-> <<1, 1>>,
          single |-> <<1, 1>>, decoders |-> <<0, 0>>, delete |-> <<1, 1>>,
          deleteid |-> <<1, 1>>, idle |-> <<0, -1>>, noidle |-> <<0, 0>>,
          next |-> <<0, 0>>, previous |-> <<0, 0>>, pause |-> <<0, 1>>,
          ping |-> <<0, 0>>, play |-> <<0, 1>>, playid |-> <<0, 1>>,
          plchanges |-> <<1, 2>>, setvol |-> <<1, 1>>, volume |-> <<1, 1>>,
          status |-> <<0, 0>>, stop |-> <<0, 0>>]

Dispatched == DOMAIN Arity \ {"stop"}

IsKnown(l) == l.cmd \in DOMAIN Arity
IsEnd(l) == l.cmd = "command_list_end"

WrongArgs(l) == LET n == Len(l.args)
                    least == Arity[l.cmd][1]
                    most == Arity[l.cmd][2]
                IN  (least > 0 /\ n < least) \/ (most >= 0 /\ n > most)

IsBegin(l) == l.cmd \in {"command_list_begin", "command_list_ok_begin"} /\ ~WrongArgs(l)
-----------------------------------------------------------------------------
(* std::stoi of no number, or front() of no arguments: nothing catches it. *)
Throws(l) ==
    \/ l.cmd \in {"play", "playid"} /\ l.args = <<>>
    \/ /\ l.cmd \in {"consume", "random", "repeat", "delete", "deleteid", "pause", "play",
                     "playid", "setvol", "volume", "single"}
       /\ l.args # <<>>
       /\ ~IsNumber(l.args[1])
       /\ ~(l.cmd = "single" /\ l.args[1] = "name")
    \/ l.cmd = "addid" /\ Len(l.args) = 2 /\ ~IsNumber(l.args[2])

(* An MPDError: an unimplemented command, no such song, no such idle flag. *)
Fails(l) ==
    \/ l.cmd \notin Dispatched
    \/ l.cmd \in {"delete", "deleteid", "play", "playid"} /\ l.args = <<"nosong">>
    \/ l.cmd = "idle" /\ \E i \in DOMAIN l.args : l.args[i] # "name"

(* runCommand of a line with the right number of arguments.                *)
Outcome(l) == IF Throws(l) THEN "throws"
              ELSE IF Fails(l) THEN "error"
              ELSE IF l.cmd = "idle" \/ IsBegin(l) THEN "silent" ELSE "ok"

ListOutcome(l) == IF WrongArgs(l) THEN "error" ELSE Outcome(l)

(* What a command writes before its OK; one "data" stands for several      *)
(* writes.  What idle writes is in EventPath.                              *)
Writes(l) ==
    CASE l.cmd \in {"addid", "commands", "notcommands", "status"} -> {<<"data">>}
      [] l.cmd = "plchanges" -> {<<>>, <<"data">>}
      [] OTHER -> {<<>>}

(* Mutant: a command of a list is answered like a single one.              *)
Answer_Singly(inList) == "OK"

Answer(inList) == IF inList THEN "list_OK" ELSE "OK"

(* The writes of runCommand and handleMessage for a command, in a list or  *)
(* not; in a list a wrong number of arguments is an error like any other.  *)
Written(l, inList) ==
    CASE ListOutcome(l) = "error" -> {<<"ACK">>}
      [] ListOutcome(l) = "silent" -> {<<>>}
      [] OTHER -> {Append(data, Answer(inList)) : data \in Writes(l)}
-----------------------------------------------------------------------------
(* The arguments of a message are views of its client's Buffer: once the   *)
(* Buffer was written they may read as anything.                           *)
Misreadings(l) == {[l EXCEPT !.args = a] : a \in [DOMAIN l.args -> Arguments]}

(* What a line may read as while its end is missing: no command, the whole *)
(* line when only the newline is missing, fewer or shorter arguments.      *)
Unknown == [cmd |-> "?", args |-> <<>>]
Readings(l) ==
    {Unknown}
      \cup {[l EXCEPT !.args = SubSeq(@, 1, n)] : n \in 0..Len(l.args)}
      \cup {[l EXCEPT !.args[Len(l.args)] = a] : a \in IF l.args = <<>> THEN {} ELSE Arguments}
=============================================================================
