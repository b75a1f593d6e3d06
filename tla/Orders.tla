------------------------------- MODULE Orders -------------------------------
(***************************************************************************)
(* An order's way from the student's phone to the kitchen: written by the  *)
(* Pay handler (lib/screens/UserHomePage/menu.dart), kept by Firestore on  *)
(* the phone until it can be sent, shown by the lists of every admin's     *)
(* phone (lib/screens/AdminHomePage/pending_orders.dart and                *)
(* served_orders.dart) and marked as served by a tap on any of them.       *)
(*                                                                         *)
(* Neither write is awaited.  A phone that is killed or signed out keeps   *)
(* its unsent writes and sends them when its user is back.  A write is     *)
(* carried out again if its answer is lost (Outbox, WritePipeline): what   *)
(* is unsent is what is not answered.  A list shows the last snapshot that *)
(* was built, so several kitchens may mark the same order.  The lists are  *)
(* sets here: the order of their rows (by the student's clock) plays no    *)
(* part in what a tap does.                                                *)
(*                                                                         *)
(* A definition used nowhere that stands right before another one is a     *)
(* mutation of it (README.md, Mutations).                                  *)
(***************************************************************************)
EXTENDS Naturals, Sequences, SequencesExt

CONSTANTS Student,   \* the phones that show the order screen
          Kitchen,   \* the phones that show AdminHomePage
          Order,     \* the ids of the orders (a fresh uuid for each)
          NoDoc,     \* what a document reference to nothing reads as
          MaxLosses  \* bound: times that answers are lost

ASSUME OrdersAssumption ==
    /\ NoDoc \notin BOOLEAN
    /\ Student \cap Kitchen = {}
    /\ MaxLosses \in Nat

Phone == Student \cup Kitchen

VARIABLES
    up,         \* the app runs on the phone, with its user signed in
    unsent,     \* the orders a student's phone has not sent, oldest first
    isServed,   \* isServed of each order's document on the server
    known,      \* what each kitchen's Firestore has of that
    marked,     \* the updates to isServed a kitchen has not sent
    pending,    \* the orders on each kitchen's Pending tab
    served,     \* the orders on each kitchen's Served tab
    losses,     \* so many losses so far
    reopened    \* history: served orders that were written again

studentVars == <<unsent>>
listVars    == <<pending, served>>
vars == <<up, unsent, isServed, known, marked, listVars, losses, reopened>>

Unsent == UNION {ToSet(unsent[s]) : s \in Student}

Init ==
    /\ up = [p \in Phone |-> TRUE]
    /\ unsent = [s \in Student |-> << >>]
    /\ isServed = [o \in Order |-> NoDoc]
    /\ known = [k \in Kitchen |-> isServed]
    /\ marked = [k \in Kitchen |-> {}]
    /\ pending = [k \in Kitchen |-> {}]
    /\ served = [k \in Kitchen |-> {}]
    /\ losses = 0 /\ reopened = {}

-----------------------------------------------------------------------------
(* Students.                                                               *)

(* The Pay handler writes the order and shows its confirmation at once.    *)
Confirm(s, o) ==
    /\ up[s]
    /\ isServed[o] = NoDoc /\ o \notin Unsent
    /\ unsent' = [unsent EXCEPT ![s] = Append(@, o)]
    /\ UNCHANGED <<up, isServed, known, marked, listVars, losses, reopened>>

(* set() writes the whole document, that of a served order too.            *)
Written(S) ==
    /\ isServed' = [o \in Order |-> IF o \in S THEN FALSE ELSE isServed[o]]
    /\ reopened' = reopened \cup {o \in S : isServed[o] = TRUE}

Send(s) ==
    /\ up[s] /\ unsent[s] # << >>
    /\ Written({Head(unsent[s])})
    /\ unsent' = [unsent EXCEPT ![s] = Tail(@)]
    /\ UNCHANGED <<up, known, marked, listVars, losses>>

(* The answers to a phone's writes are lost: it will send them again.      *)
Lost == losses < MaxLosses /\ losses' = losses + 1

AnswersLost(s) ==
    /\ up[s] /\ Lost
    /\ \E n \in DOMAIN unsent[s] : Written(ToSet(SubSeq(unsent[s], 1, n)))
    /\ UNCHANGED <<up, unsent, known, marked, listVars>>

-----------------------------------------------------------------------------
(* Kitchens.                                                               *)

(* The two queries, over what the phone's Firestore has with its own       *)
(* unsent updates applied.  The Served tab shows its query page by page:   *)
(* ServedView is what scrolling to the end shows.                          *)
PendingViewServed(k) == {o \in Order : known[k][o] = TRUE}
PendingView(k) == {o \in Order : known[k][o] = FALSE /\ o \notin marked[k]}
ServedViewUnfiltered(k) == {o \in Order : known[k][o] # NoDoc}
ServedView(k)  == {o \in Order : \/ known[k][o] = TRUE
                                 \/ known[k][o] = FALSE /\ o \in marked[k]}

Fetch(k) ==
    /\ up[k] /\ known[k] # isServed
    /\ known' = [known EXCEPT ![k] = isServed]
    /\ UNCHANGED <<up, unsent, isServed, marked, listVars, losses, reopened>>

BuildPending(k) ==
    /\ up[k] /\ pending[k] # PendingView(k)
    /\ pending' = [pending EXCEPT ![k] = PendingView(k)]
    /\ UNCHANGED <<up, unsent, isServed, known, marked, served, losses,
                   reopened>>

BuildServedNever(k) ==
    /\ up[k] /\ served[k] # ServedView(k)
    /\ UNCHANGED vars
BuildServed(k) ==
    /\ up[k] /\ served[k] # ServedView(k)
    /\ served' = [served EXCEPT ![k] = ServedView(k)]
    /\ UNCHANGED <<up, unsent, isServed, known, marked, pending, losses,
                   reopened>>

(* The check mark of a row, which stays until the list is built again.     *)
TapCheck(k, o) ==
    /\ up[k] /\ o \in pending[k]
    /\ marked' = [marked EXCEPT ![k] = @ \cup {o}]
    /\ UNCHANGED <<up, unsent, isServed, known, listVars, losses, reopened>>

(* The value that the update writes.                                       *)
ServedFlagToggled(o) == ~isServed[o]
ServedFlag(o) == TRUE

SendMark(k, o) ==
    /\ up[k] /\ o \in marked[k]
    /\ isServed' = [isServed EXCEPT ![o] = ServedFlag(o)]
    /\ known' = [known EXCEPT ![k][o] = ServedFlag(o)]
    /\ marked' = [marked EXCEPT ![k] = @ \ {o}]
    /\ UNCHANGED <<up, unsent, listVars, losses, reopened>>

MarkUnanswered(k, o) ==
    /\ up[k] /\ o \in marked[k] /\ Lost
    /\ isServed' = [isServed EXCEPT ![o] = ServedFlag(o)]
    /\ UNCHANGED <<up, unsent, known, marked, listVars, reopened>>

-----------------------------------------------------------------------------
(* Any phone may be killed or signed out and come back.  What Firestore    *)
(* keeps survives; the lists are built anew.                               *)
LeaveKeepsLists(p) ==
    /\ up[p]
    /\ up' = [up EXCEPT ![p] = FALSE]
    /\ UNCHANGED <<unsent, isServed, known, marked, listVars, losses,
                   reopened>>
Leave(p) ==
    /\ up[p]
    /\ up' = [up EXCEPT ![p] = FALSE]
    /\ IF p \in Kitchen
       THEN /\ pending' = [pending EXCEPT ![p] = {}]
            /\ served' = [served EXCEPT ![p] = {}]
       ELSE UNCHANGED listVars
    /\ UNCHANGED <<unsent, isServed, known, marked, losses, reopened>>

Return(p) ==
    /\ ~up[p]
    /\ up' = [up EXCEPT ![p] = TRUE]
    /\ UNCHANGED <<unsent, isServed, known, marked, listVars, losses,
                   reopened>>

-----------------------------------------------------------------------------
Next ==
    \/ \E s \in Student : \/ Send(s) \/ AnswersLost(s)
                          \/ \E o \in Order : Confirm(s, o)
    \/ \E k \in Kitchen :
         \/ Fetch(k) \/ BuildPending(k) \/ BuildServed(k)
         \/ \E o \in Order : \/ TapCheck(k, o) \/ SendMark(k, o)
                            \/ MarkUnanswered(k, o)
    \/ \E p \in Phone : Leave(p) \/ Return(p)

Spec == Init /\ [][Next]_vars

(* Firestore sends and fetches while the app runs, and the lists are       *)
(* built; nobody has to come back, confirm or mark anything.               *)
Fairness ==
    /\ \A s \in Student : WF_vars(Send(s))
    /\ \A k \in Kitchen :
         /\ WF_vars(Fetch(k)) /\ WF_vars(BuildPending(k))
         /\ WF_vars(BuildServed(k))
         /\ \A o \in Order : WF_vars(SendMark(k, o))

FairSpec == Spec /\ Fairness

-----------------------------------------------------------------------------
(* Properties.                                                             *)

(* Every variable has its type, and a phone that does not run the app      *)
(* shows no list.                                                          *)
TypeOK ==
    /\ up \in [Phone -> BOOLEAN]
    /\ unsent \in [Student -> Seq(Order)]
    /\ isServed \in [Order -> BOOLEAN \cup {NoDoc}]
    /\ known \in [Kitchen -> [Order -> BOOLEAN \cup {NoDoc}]]
    /\ marked \in [Kitchen -> SUBSET Order]
    /\ pending \in [Kitchen -> SUBSET Order]
    /\ served \in [Kitchen -> SUBSET Order]
    /\ losses \in Nat /\ reopened \subseteq Order
    /\ \A k \in Kitchen : ~up[k] => pending[k] \cup served[k] = {}

(* The order book that the phones, Firestore and the lists make up.        *)
bookOf == [o \in Order |-> IF isServed[o] = TRUE THEN "served"
                           ELSE IF isServed[o] = FALSE \/ o \in Unsent
                           THEN "placed" ELSE "none"]

Book == INSTANCE OrderBook WITH book <- bookOf, owed <- Unsent

(* A confirmed order is never lost or served before it was placed, nor     *)
(* taken back once it is served and its student's phone has the answer to  *)
(* it, whatever phones leave in between, however many kitchens mark it     *)
(* from lists that are out of date, and whatever is sent again.            *)
ImplementsOrderBook == Book!Spec

(* A kitchen never shows or marks an order that the server does not have   *)
(* (an update of it would fail and the mark be lost), nor shows as served  *)
(* one that nobody has marked, though it may show one that was marked      *)
(* before it was written again.                                            *)
KitchenIsTruthful ==
    \A k \in Kitchen :
        /\ \A o \in pending[k] \cup marked[k] : isServed[o] # NoDoc
        /\ \A o \in served[k] \ reopened :
              isServed[o] = TRUE \/ o \in marked[k]

(* A confirmed order shows up in every kitchen that stays, or is served    *)
(* elsewhere, if the student's phone stays too.                            *)
OrderReachesKitchens ==
    \A s \in Student, k \in Kitchen, o \in Order :
        <>[](up[s] /\ up[k]) =>
            [](o \in ToSet(unsent[s]) =>
                   <>(o \in pending[k] \/ isServed[o] = TRUE))

(* A mark made on a phone that stays moves the order from Pending to       *)
(* Served on every phone that stays, if the order's write was answered.    *)
MarkReachesKitchens ==
    \A j, k \in Kitchen, o \in Order :
        <>[](up[j] /\ up[k]) =>
            [](o \in marked[j] /\ o \notin Unsent =>
                   <>[](o \in served[k] /\ o \notin pending[k]))
=============================================================================
