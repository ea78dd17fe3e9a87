------------------------------- MODULE NetFifo -------------------------------
(***************************************************************************)
(* What the network ring promises the application: requests are served in  *)
(* the order of the calls, each exactly once, at most Capacity are         *)
(* outstanding, and solo5_net_read returns the answer to its own request   *)
(* while nothing else is outstanding behind it.                            *)
(***************************************************************************)
EXTENDS Integers, Sequences

CONSTANTS Capacity, Ids, NextId(_), NoReply

VARIABLES
    queue,    \* requests not served yet
    next,     \* id of the next request
    waiting,  \* is the application inside solo5_net_read?
    reply     \* id of the request whose answer is ready

vars == <<queue, next, waiting, reply>>

Init ==
    /\ queue = <<>> /\ next \in Ids
    /\ waiting = FALSE /\ reply = NoReply

Submit(op) ==
    /\ ~waiting /\ Len(queue) < Capacity
    /\ queue' = Append(queue, [op |-> op, id |-> next])
    /\ next' = NextId(next)
    /\ waiting' = (op = "read")
    /\ UNCHANGED reply

Serve ==
    /\ queue # <<>> /\ queue' = Tail(queue)
    /\ reply' = IF Head(queue).op = "read" THEN Head(queue).id ELSE reply
    /\ UNCHANGED <<next, waiting>>

Return ==
    /\ waiting /\ queue = <<>>
    /\ reply # NoReply /\ NextId(reply) = next
    /\ waiting' = FALSE /\ reply' = NoReply
    /\ UNCHANGED <<queue, next>>

Next == Submit("write") \/ Submit("read") \/ Serve \/ Return

Spec == Init /\ [][Next]_vars
=============================================================================
