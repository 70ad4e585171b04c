----------------------------- MODULE MpdStreams -----------------------------
(***************************************************************************)
(* What the connections of MPDProto promise: each peer's lines are handled *)
(* in the order it sent them, each once; only when its connection closes   *)
(* are any lost, and then the last ones.  What they do not promise is to   *)
(* wait for the end of a line that arrives in pieces: what is there of it  *)
(* is handled too, any number of times, before the line is.                *)
(***************************************************************************)
EXTENDS Integers, Sequences

CONSTANT Peers

VARIABLES
    open,       \* the peers that are connected
    sent,       \* how many lines each sent
    begun,      \* the numbers of the lines each sent in pieces
    waiting     \* the lines and copies of unended ones that were not handled yet

vars == <<open, sent, begun, waiting>>

Line(n) == [n |-> n, part |-> "whole"]
Copy(n) == [n |-> n, part |-> "head"]

Init == /\ open = {}
        /\ sent = [p \in Peers |-> 0]
        /\ begun = [p \in Peers |-> {}]
        /\ waiting = [p \in Peers |-> <<>>]

Connect(p) == /\ p \notin open
              /\ open' = open \cup {p}
              /\ UNCHANGED <<sent, begun, waiting>>

Send(p) == /\ p \in open
           /\ sent' = [sent EXCEPT ![p] = @ + 1]
           /\ waiting' = [waiting EXCEPT ![p] = Append(@, Line(sent'[p]))]
           /\ UNCHANGED <<open, begun>>

(* The next line is to come in pieces.                                     *)
Begin(p) == /\ p \in open
            /\ begun' = [begun EXCEPT ![p] = @ \cup {sent[p] + 1}]
            /\ UNCHANGED <<open, sent, waiting>>

Handle(p) == /\ waiting[p] # <<>>
             /\ waiting' = [waiting EXCEPT ![p] = Tail(@)]
             /\ UNCHANGED <<open, sent, begun>>

Close(p) == /\ p \in open
            /\ open' = open \ {p}
            /\ \E n \in 0..Len(waiting[p]) :
                   waiting' = [waiting EXCEPT ![p] = SubSeq(@, 1, n)]
            /\ UNCHANGED <<sent, begun>>

(* A copy of a line whose end has not arrived, or has by now, joins what   *)
(* waits: just before the line.                                            *)
Copied(p, w) ==
    \E n \in begun[p], k \in 0..Len(waiting[p]) :
        /\ IF k = Len(waiting[p]) THEN n = sent[p] + 1 ELSE waiting[p][k + 1] = Line(n)
        /\ w = SubSeq(waiting[p], 1, k) \o <<Copy(n)>> \o SubSeq(waiting[p], k + 1, Len(waiting[p]))

(* All clients' Buffers are read at once.                                  *)
Repeat == /\ waiting' = [p \in Peers |-> waiting'[p]]
          /\ \A p \in Peers : waiting'[p] = waiting[p] \/ Copied(p, waiting'[p])
          /\ UNCHANGED <<open, sent, begun>>

Next == \/ \E p \in Peers : Connect(p) \/ Send(p) \/ Begin(p) \/ Handle(p) \/ Close(p)
        \/ Repeat

Spec == Init /\ [][Next]_vars
=============================================================================
