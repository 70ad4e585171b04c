---------------------------- MODULE MCMpdServer ----------------------------
(* Small instances of MpdServer for TLC.                                   *)
EXTENDS MpdServer

Line(cmd, args) == [cmd |-> cmd, args |-> args]

Pings == {Line("ping", <<>>)}

(* One of each kind: it writes data and answers, fails, opens and ends a   *)
(* list.  A line that is no command is the first piece of one.             *)
Session == {Line("status", <<>>), Line("delete", <<"nosong">>),
            Line("command_list_begin", <<>>), Line("command_list_end", <<>>)}

Cuts == {Line("status", <<>>)}

(* All but the histories of the session's properties, which nothing reads. *)
WithoutHistory == <<kernelVars, threadVars, clientMap, recvQueue, mainVars, sent, rest>>

Symmetry == Permutations(Peers)
=============================================================================
