------------------------------- MODULE Outbox -------------------------------
(***************************************************************************)
(* What an app that does not await its writes counts on: the writes of a   *)
(* user reach the server in the order they were made, each at least once,  *)
(* until the server has answered for it.  An interruption makes the server *)
(* carry out again the writes it has not answered for, from the oldest on. *)
(***************************************************************************)
EXTENDS Naturals, Sequences

CONSTANTS User, Write,
          Bad    \* the writes that the server refuses

VARIABLES issued,   \* the writes that each user has made
          waiting,  \* those that are not answered yet, oldest first
          done,     \* how many of them the server has carried out this time
          doc       \* the write that each user's document was left by

vars == <<issued, waiting, done, doc>>

Init ==
    /\ issued = [u \in User |-> {}]
    /\ waiting = [u \in User |-> << >>]
    /\ done = [u \in User |-> 0]
    /\ doc = [u \in User |-> 0]

Issue(u, w) ==
    /\ \A v \in User : w \notin issued[v]
    /\ issued' = [issued EXCEPT ![u] = @ \cup {w}]
    /\ waiting' = [waiting EXCEPT ![u] = Append(@, w)]
    /\ UNCHANGED <<done, doc>>

CarryOut(u) ==
    /\ done[u] < Len(waiting[u])
    /\ done' = [done EXCEPT ![u] = @ + 1]
    /\ LET w == waiting[u][done[u] + 1] IN
       doc' = IF w \in Bad THEN doc ELSE [doc EXCEPT ![u] = w]
    /\ UNCHANGED <<issued, waiting>>

(* The answer to the oldest; the connection may be lost with it.           *)
Settle(u) ==
    /\ done[u] > 0
    /\ waiting' = [waiting EXCEPT ![u] = Tail(@)]
    /\ \E n \in 0 .. done[u] - 1 : done' = [done EXCEPT ![u] = n]
    /\ UNCHANGED <<issued, doc>>

Interrupt(u) ==
    /\ \E n \in 0 .. done[u] - 1 : done' = [done EXCEPT ![u] = n]
    /\ UNCHANGED <<issued, waiting, doc>>

Next == \E u \in User : \/ \E w \in Write : Issue(u, w)
                        \/ CarryOut(u) \/ Settle(u) \/ Interrupt(u)

Spec == Init /\ [][Next]_vars
=============================================================================
