----------------------------- MODULE OrderBook -----------------------------
(***************************************************************************)
(* What the students and the kitchen count on: an order that was confirmed *)
(* to a student is in the book from then on, and is handed out once it is  *)
(* marked as served.  Firestore may write an order again until it has the  *)
(* server's answer, so that up to then a served order may come back; from  *)
(* then on it is never taken back.  The phones and lists do not appear.    *)
(***************************************************************************)
CONSTANT Order  \* the orders' ids

VARIABLES book, \* what has become of each order
          owed  \* the orders whose student's phone has had no answer

vars == <<book, owed>>

Init == book = [o \in Order |-> "none"] /\ owed = {}

Place(o) == /\ book[o] = "none" /\ book' = [book EXCEPT ![o] = "placed"]
            /\ owed' = owed \cup {o}

(* The write that is answered may have been carried out before as well.    *)
Answer(o) == /\ o \in owed /\ owed' = owed \ {o}
             /\ book' \in {book, [book EXCEPT ![o] = "placed"]}

Serve(o) == /\ book[o] = "placed" /\ book' = [book EXCEPT ![o] = "served"]
            /\ UNCHANGED owed

(* The orders of one phone that are written again come back together.      *)
Reopen(S) == /\ S \subseteq {o \in owed : book[o] = "served"} /\ S # {}
             /\ book' = [o \in Order |-> IF o \in S THEN "placed" ELSE book[o]]
             /\ UNCHANGED owed

Next == \/ \E o \in Order : Place(o) \/ Answer(o) \/ Serve(o)
        \/ \E S \in SUBSET owed : Reopen(S)

Spec == Init /\ [][Next]_vars
=============================================================================
