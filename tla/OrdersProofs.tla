---------------------------- MODULE OrdersProofs ----------------------------
(***************************************************************************)
(* Theorems about an order's way from the student's phone to the kitchens, *)
(* for any number of phones and orders and any number of losses.           *)
(***************************************************************************)
EXTENDS Orders, TLAPS, SequenceTheorems

-----------------------------------------------------------------------------
(* Queues as sets.                                                         *)

LEMMA QueueSet ==
    ASSUME NEW q \in Seq(Order)
    PROVE  /\ ToSet(q) \subseteq Order
           /\ ToSet(q) = {q[i] : i \in 1 .. Len(q)}
           /\ DOMAIN q = 1 .. Len(q)
  BY LenProperties DEF ToSet

LEMMA AppendSet ==
    ASSUME NEW q \in Seq(Order), NEW o \in Order
    PROVE  /\ ToSet(Append(q, o)) = ToSet(q) \cup {o}
           /\ IsInjective(q) /\ o \notin ToSet(q)
                  => IsInjective(Append(q, o))
  <1> DEFINE r == Append(q, o)
  <1>1. /\ r \in Seq(Order) /\ Len(r) = Len(q) + 1 /\ r[Len(q) + 1] = o
        /\ \A i \in 1 .. Len(q) : r[i] = q[i]
    BY AppendProperties
  <1>2. /\ DOMAIN q = 1 .. Len(q) /\ DOMAIN r = 1 .. Len(q) + 1
        /\ Len(q) \in Nat
    BY <1>1, QueueSet, LenProperties
  <1>3. ToSet(r) = ToSet(q) \cup {o}
    BY <1>1, <1>2 DEF ToSet
  <1>4. ASSUME IsInjective(q), o \notin ToSet(q)
        PROVE  IsInjective(r)
    BY <1>1, <1>2, <1>4 DEF IsInjective, ToSet
  <1> QED
    BY <1>3, <1>4

LEMMA TailSet ==
    ASSUME NEW q \in Seq(Order), q # << >>, IsInjective(q)
    PROVE  /\ Head(q) \in ToSet(q)
           /\ ToSet(Tail(q)) = ToSet(q) \ {Head(q)}
           /\ IsInjective(Tail(q))
  <1> DEFINE t == Tail(q)
  <1>1. /\ t \in Seq(Order) /\ Len(t) = Len(q) - 1
        /\ \A i \in 1 .. Len(t) : t[i] = q[i + 1]
    BY HeadTailProperties
  <1>2. /\ DOMAIN q = 1 .. Len(q) /\ DOMAIN t = 1 .. Len(q) - 1
        /\ Len(q) \in Nat \ {0} /\ Head(q) = q[1]
    BY <1>1, QueueSet, EmptySeq
  <1>3. Head(q) \in ToSet(q)
    BY <1>2 DEF ToSet
  <1>4. ToSet(t) \subseteq ToSet(q) \ {Head(q)}
    BY <1>1, <1>2 DEF ToSet, IsInjective
  <1>5. ASSUME NEW i \in 1 .. Len(q), q[i] # q[1]
        PROVE  q[i] \in ToSet(t)
    <2>1. i - 1 \in 1 .. Len(q) - 1 /\ (i - 1) + 1 = i
      BY <1>2, <1>5
    <2>2. t[i - 1] = q[i]
      BY <2>1, <1>1
    <2> QED
      BY <2>1, <2>2, <1>2 DEF ToSet
  <1>6. ToSet(q) \ {Head(q)} \subseteq ToSet(t)
    BY <1>2, <1>5 DEF ToSet
  <1>7. IsInjective(t)
    BY <1>1, <1>2 DEF IsInjective
  <1> QED
    BY <1>3, <1>4, <1>6, <1>7

(* The front of a queue holds orders of the queue.                         *)
LEMMA FrontSet ==
    ASSUME NEW q \in Seq(Order), NEW n \in DOMAIN q
    PROVE  ToSet(SubSeq(q, 1, n)) \subseteq ToSet(q) /\ ToSet(q) \subseteq Order
  <1>1. DOMAIN q = 1 .. Len(q) /\ Len(q) \in Nat
    BY QueueSet, LenProperties
  <1>2. \A i \in 1 .. n : q[i] \in Order
    BY <1>1, ElementOfSeq
  <1>3. /\ SubSeq(q, 1, n) \in Seq(Order) /\ Len(SubSeq(q, 1, n)) = n
        /\ \A i \in 1 .. n : SubSeq(q, 1, n)[i] = q[i]
    BY <1>1, <1>2, SubSeqProperties
  <1> QED
    BY <1>1, <1>3, QueueSet DEF ToSet

-----------------------------------------------------------------------------
(* Types.                                                                  *)

(* The documents' isServed fields after a set() of the orders in S.        *)
LEMMA WrittenType ==
    ASSUME TypeOK, NEW S \in SUBSET Order, Written(S)
    PROVE  /\ isServed' \in [Order -> BOOLEAN \cup {NoDoc}]
           /\ reopened' \subseteq Order
  BY SMTT(30) DEF TypeOK, Written

LEMMA TypeInit == Init => TypeOK
  BY EmptySeq DEF Init, TypeOK

LEMMA TypeStep == TypeOK /\ [Next]_vars => TypeOK'
  <1> SUFFICES ASSUME TypeOK, [Next]_vars
               PROVE  TypeOK'
    OBVIOUS
  <1> USE DEF listVars
  <1>1. ASSUME NEW s \in Student, NEW o \in Order, Confirm(s, o)
        PROVE  TypeOK'
    <2>1. Append(unsent[s], o) \in Seq(Order)
      BY AppendProperties DEF TypeOK
    <2> QED
      BY <1>1, <2>1 DEF Confirm, TypeOK
  <1>2. ASSUME NEW s \in Student, Send(s)
        PROVE  TypeOK'
    <2>1. Tail(unsent[s]) \in Seq(Order)
      BY <1>2, HeadTailProperties DEF TypeOK, Send
    <2>2. PICK S \in SUBSET Order : Written(S)
      BY <1>2, HeadTailProperties DEF TypeOK, Send
    <2> QED
      BY <1>2, <2>1, <2>2, WrittenType DEF Send, TypeOK
  <1>3. ASSUME NEW s \in Student, AnswersLost(s)
        PROVE  TypeOK'
    <2>1. PICK S \in SUBSET Order : Written(S)
      BY <1>3, FrontSet DEF AnswersLost, TypeOK
    <2> QED
      BY <1>3, <2>1, WrittenType DEF AnswersLost, Lost, TypeOK
  <1>4. ASSUME NEW k \in Kitchen, Fetch(k)
        PROVE  TypeOK'
    BY <1>4 DEF Fetch, TypeOK
  <1>5. ASSUME NEW k \in Kitchen, BuildPending(k)
        PROVE  TypeOK'
    BY <1>5 DEF BuildPending, PendingView, TypeOK
  <1>6. ASSUME NEW k \in Kitchen, BuildServed(k)
        PROVE  TypeOK'
    BY <1>6 DEF BuildServed, ServedView, TypeOK
  <1>7. ASSUME NEW k \in Kitchen, NEW o \in Order, TapCheck(k, o)
        PROVE  TypeOK'
    BY <1>7 DEF TapCheck, TypeOK
  <1>8. ASSUME NEW k \in Kitchen, NEW o \in Order, SendMark(k, o)
        PROVE  TypeOK'
    BY <1>8 DEF SendMark, ServedFlag, TypeOK
  <1>9. ASSUME NEW k \in Kitchen, NEW o \in Order, MarkUnanswered(k, o)
        PROVE  TypeOK'
    BY <1>9 DEF MarkUnanswered, Lost, ServedFlag, TypeOK
  <1>10. ASSUME NEW p \in Phone, Leave(p)
         PROVE  TypeOK'
    <2>1. UNCHANGED <<unsent, isServed, known, marked, losses, reopened>>
      BY <1>10 DEF Leave
    <2>2. up' \in [Phone -> BOOLEAN]
      BY <1>10 DEF Leave, TypeOK
    <2>3. /\ pending' \in [Kitchen -> SUBSET Order]
          /\ served' \in [Kitchen -> SUBSET Order]
      BY <1>10 DEF Leave, TypeOK
    <2>4. \A k \in Kitchen : ~up'[k] => pending'[k] \cup served'[k] = {}
      BY <1>10 DEF Leave, TypeOK, Phone
    <2> QED
      BY <2>1, <2>2, <2>3, <2>4 DEF TypeOK
  <1>11. ASSUME NEW p \in Phone, Return(p)
         PROVE  TypeOK'
    BY <1>11 DEF Return, TypeOK, Phone
  <1>12. CASE UNCHANGED vars
    BY <1>12 DEF vars, TypeOK
  <1> QED
    BY <1>1, <1>2, <1>3, <1>4, <1>5, <1>6, <1>7, <1>8, <1>9, <1>10, <1>11,
       <1>12 DEF Next

(* Every variable keeps its type, and a phone that does not run the app    *)
(* shows no list.                                                          *)
THEOREM TypeCorrect == Spec => []TypeOK
  BY TypeInit, TypeStep, PTL DEF Spec

-----------------------------------------------------------------------------
(* The kitchens.                                                           *)

(* What a phone knows was true once: a document is never deleted, and only *)
(* writing the order again makes a served order pending.                   *)
KnownWasTrue ==
    \A k \in Kitchen, o \in Order :
        /\ known[k][o] # NoDoc => isServed[o] # NoDoc
        /\ known[k][o] = TRUE => isServed[o] = TRUE \/ o \in reopened

KitchenInv == KnownWasTrue /\ KitchenIsTruthful

(* Whatever orders are written, and whether they were written before.      *)
LEMMA WrittenKeepsKitchenInv ==
    ASSUME TypeOK, KitchenInv, NEW S \in SUBSET Order, Written(S),
           UNCHANGED <<known, marked, pending, served>>
    PROVE  KitchenInv'
  <1>1. \A o \in Order : /\ isServed[o] # NoDoc => isServed'[o] # NoDoc
                         /\ isServed[o] = TRUE =>
                                isServed'[o] = TRUE \/ o \in reopened'
                         /\ o \in reopened => o \in reopened'
    BY OrdersAssumption DEF Written, TypeOK
  <1>2. KnownWasTrue'
    BY <1>1 DEF KitchenInv, KnownWasTrue
  <1>3. KitchenIsTruthful'
    BY <1>1 DEF KitchenInv, KitchenIsTruthful, TypeOK
  <1> QED
    BY <1>2, <1>3 DEF KitchenInv

(* An update writes TRUE into a document that is there.                    *)
LEMMA MarkKeepsDocuments ==
    ASSUME TypeOK, KitchenInv, NEW k \in Kitchen, NEW o \in marked[k],
           isServed' = [isServed EXCEPT ![o] = ServedFlag(o)]
    PROVE  /\ isServed[o] # NoDoc /\ isServed'[o] = TRUE
           /\ \A x \in Order : /\ isServed[x] # NoDoc <=> isServed'[x] # NoDoc
                               /\ isServed[x] = TRUE => isServed'[x] = TRUE
  BY OrdersAssumption DEF KitchenInv, KitchenIsTruthful, ServedFlag, TypeOK

LEMMA KitchenInit == Init => KitchenInv
  BY OrdersAssumption DEF Init, KitchenInv, KnownWasTrue, KitchenIsTruthful

LEMMA KitchenStep == TypeOK /\ KitchenInv /\ [Next]_vars => KitchenInv'
  <1> SUFFICES ASSUME TypeOK, KitchenInv, [Next]_vars
               PROVE  KitchenInv'
    OBVIOUS
  <1> USE DEF listVars
  <1>1. ASSUME NEW s \in Student, NEW o \in Order, Confirm(s, o)
        PROVE  KitchenInv'
    BY <1>1 DEF Confirm, KitchenInv, KnownWasTrue, KitchenIsTruthful
  <1>2. ASSUME NEW s \in Student, Send(s)
        PROVE  KitchenInv'
    <2>1. PICK S \in SUBSET Order : Written(S)
      BY <1>2, HeadTailProperties DEF TypeOK, Send
    <2> QED
      BY <1>2, <2>1, WrittenKeepsKitchenInv DEF Send
  <1>3. ASSUME NEW s \in Student, AnswersLost(s)
        PROVE  KitchenInv'
    <2>1. PICK S \in SUBSET Order : Written(S)
      BY <1>3, FrontSet DEF AnswersLost, TypeOK
    <2> QED
      BY <1>3, <2>1, WrittenKeepsKitchenInv DEF AnswersLost
  <1>4. ASSUME NEW k \in Kitchen, Fetch(k)
        PROVE  KitchenInv'
    BY <1>4 DEF Fetch, KitchenInv, KnownWasTrue, KitchenIsTruthful, TypeOK
  <1>5. ASSUME NEW k \in Kitchen, BuildPending(k)
        PROVE  KitchenInv'
    <2>1. KnownWasTrue'
      BY <1>5 DEF BuildPending, KitchenInv, KnownWasTrue
    <2>2. \A o \in PendingView(k) : isServed[o] # NoDoc
      BY OrdersAssumption DEF PendingView, KitchenInv, KnownWasTrue
    <2>3. KitchenIsTruthful'
      BY <1>5, <2>2 DEF BuildPending, KitchenInv, KitchenIsTruthful, TypeOK
    <2> QED
      BY <2>1, <2>3 DEF KitchenInv
  <1>6. ASSUME NEW k \in Kitchen, BuildServed(k)
        PROVE  KitchenInv'
    <2>1. KnownWasTrue'
      BY <1>6 DEF BuildServed, KitchenInv, KnownWasTrue
    <2>2. \A o \in ServedView(k) \ reopened :
              isServed[o] = TRUE \/ o \in marked[k]
      BY DEF ServedView, KitchenInv, KnownWasTrue
    <2>3. KitchenIsTruthful'
      BY <1>6, <2>2 DEF BuildServed, KitchenInv, KitchenIsTruthful, TypeOK
    <2> QED
      BY <2>1, <2>3 DEF KitchenInv
  <1>7. ASSUME NEW k \in Kitchen, NEW o \in Order, TapCheck(k, o)
        PROVE  KitchenInv'
    BY <1>7 DEF TapCheck, KitchenInv, KnownWasTrue, KitchenIsTruthful, TypeOK
  <1>8. ASSUME NEW k \in Kitchen, NEW o \in Order, SendMark(k, o)
        PROVE  KitchenInv'
    <2>1. /\ o \in marked[k] /\ isServed[o] # NoDoc /\ isServed'[o] = TRUE
          /\ \A x \in Order : /\ isServed[x] # NoDoc <=> isServed'[x] # NoDoc
                              /\ isServed[x] = TRUE => isServed'[x] = TRUE
      BY <1>8, MarkKeepsDocuments DEF SendMark
    <2>2. KnownWasTrue'
      BY <1>8, <2>1 DEF SendMark, ServedFlag, KitchenInv, KnownWasTrue, TypeOK
    <2>3. \A j \in Kitchen : /\ pending'[j] = pending[j]
                             /\ served'[j] = served[j]
                             /\ marked'[j] \subseteq marked[j]
                             /\ marked[j] \subseteq marked'[j] \cup {o}
                             /\ pending[j] \cup marked[j] \cup served[j]
                                    \subseteq Order
      BY <1>8 DEF SendMark, TypeOK
    <2>4. reopened' = reopened
      BY <1>8 DEF SendMark
    <2>5. KitchenIsTruthful'
      BY <2>1, <2>3, <2>4 DEF KitchenInv, KitchenIsTruthful
    <2> QED
      BY <2>2, <2>5 DEF KitchenInv
  <1>9. ASSUME NEW k \in Kitchen, NEW o \in Order, MarkUnanswered(k, o)
        PROVE  KitchenInv'
    <2>1. \A x \in Order : /\ isServed[x] # NoDoc <=> isServed'[x] # NoDoc
                           /\ isServed[x] = TRUE => isServed'[x] = TRUE
      BY <1>9, MarkKeepsDocuments DEF MarkUnanswered
    <2> QED
      BY <1>9, <2>1 DEF MarkUnanswered, KitchenInv, KnownWasTrue,
                        KitchenIsTruthful, TypeOK
  <1>10. ASSUME NEW p \in Phone, Leave(p)
         PROVE  KitchenInv'
    BY <1>10 DEF Leave, KitchenInv, KnownWasTrue, KitchenIsTruthful, TypeOK
  <1>11. ASSUME NEW p \in Phone, Return(p)
         PROVE  KitchenInv'
    BY <1>11 DEF Return, KitchenInv, KnownWasTrue, KitchenIsTruthful
  <1>12. CASE UNCHANGED vars
    BY <1>12 DEF vars, KitchenInv, KnownWasTrue, KitchenIsTruthful
  <1> QED
    BY <1>1, <1>2, <1>3, <1>4, <1>5, <1>6, <1>7, <1>8, <1>9, <1>10, <1>11,
       <1>12 DEF Next

(* A kitchen never shows or marks an order that the server does not have,  *)
(* nor shows as served one that nobody has marked.                         *)
THEOREM KitchensAreTruthful == Spec => []KitchenIsTruthful
  <1>1. KitchenInv => KitchenIsTruthful
    BY DEF KitchenInv
  <1> QED
    BY <1>1, TypeCorrect, KitchenInit, KitchenStep, PTL DEF Spec

-----------------------------------------------------------------------------
(* The order book.                                                         *)

(* An order is in one queue once: only who confirmed it sends it, and an   *)
(* answer takes it off what is owed.                                       *)
QueuesApart ==
    /\ \A s \in Student : IsInjective(unsent[s])
    /\ \A s, t \in Student :
          s # t => ToSet(unsent[s]) \cap ToSet(unsent[t]) = {}

LEMMA InUnsent ==
    \A o : o \in Unsent <=> \E s \in Student : o \in ToSet(unsent[s])
  BY DEF Unsent

(* What the two actions that change a queue make of what is unsent.        *)
LEMMA UnsentAfterConfirm ==
    ASSUME TypeOK, QueuesApart, NEW s \in Student, NEW o \in Order,
           Confirm(s, o)
    PROVE  Unsent' = Unsent \cup {o} /\ QueuesApart'
  <1>1. /\ ToSet(unsent'[s]) = ToSet(unsent[s]) \cup {o}
        /\ o \notin ToSet(unsent[s])
        /\ IsInjective(unsent'[s])
    <2>1. unsent[s] \in Seq(Order) /\ unsent'[s] = Append(unsent[s], o)
      BY DEF Confirm, TypeOK
    <2>2. o \notin ToSet(unsent[s]) /\ IsInjective(unsent[s])
      BY InUnsent DEF Confirm, QueuesApart
    <2> QED
      BY <2>1, <2>2, AppendSet
  <1>2. \A t \in Student \ {s} : unsent'[t] = unsent[t]
    BY DEF Confirm, TypeOK
  <1>3. \A t \in Student : o \notin ToSet(unsent[t])
    BY InUnsent DEF Confirm
  <1>4. Unsent' = Unsent \cup {o}
    BY <1>1, <1>2 DEF Unsent
  <1>5. QueuesApart'
    BY <1>1, <1>2, <1>3 DEF QueuesApart
  <1> QED
    BY <1>4, <1>5

LEMMA UnsentAfterSend ==
    ASSUME TypeOK, QueuesApart, NEW s \in Student, Send(s)
    PROVE  /\ Head(unsent[s]) \in Unsent /\ Head(unsent[s]) \in Order
           /\ Unsent' = Unsent \ {Head(unsent[s])}
           /\ QueuesApart'
  <1> DEFINE o == Head(unsent[s])
  <1>1. unsent[s] \in Seq(Order) /\ unsent[s] # << >>
    BY DEF Send, TypeOK
  <1>2. unsent'[s] = Tail(unsent[s])
    BY DEF Send, TypeOK
  <1>3. /\ o \in ToSet(unsent[s])
        /\ ToSet(unsent'[s]) = ToSet(unsent[s]) \ {o}
        /\ IsInjective(unsent'[s])
    BY <1>1, <1>2, TailSet DEF QueuesApart
  <1>4. \A t \in Student \ {s} : unsent'[t] = unsent[t]
    BY DEF Send, TypeOK
  <1>5. \A t \in Student \ {s} : o \notin ToSet(unsent[t])
    BY <1>3 DEF QueuesApart
  <1>6. o \in Unsent /\ o \in Order
    BY <1>1, <1>3, QueueSet DEF Unsent
  <1>7. Unsent' = Unsent \ {o}
    BY <1>3, <1>4, <1>5 DEF Unsent
  <1>8. QueuesApart'
    BY <1>3, <1>4 DEF QueuesApart
  <1> QED
    BY <1>6, <1>7, <1>8

LEMMA QueuesInit == Init => QueuesApart
  BY DEF Init, QueuesApart, IsInjective, ToSet

LEMMA QueuesStep == TypeOK /\ QueuesApart /\ [Next]_vars => QueuesApart'
  <1> SUFFICES ASSUME TypeOK, QueuesApart, [Next]_vars
               PROVE  QueuesApart'
    OBVIOUS
  <1>1. ASSUME NEW s \in Student, NEW o \in Order, Confirm(s, o)
        PROVE  QueuesApart'
    BY <1>1, UnsentAfterConfirm
  <1>2. ASSUME NEW s \in Student, Send(s)
        PROVE  QueuesApart'
    BY <1>2, UnsentAfterSend
  <1>3. CASE UNCHANGED unsent
    BY <1>3 DEF QueuesApart
  <1> QED
    BY <1>1, <1>2, <1>3 DEF Next, AnswersLost, Fetch, BuildPending,
       BuildServed, TapCheck, SendMark, MarkUnanswered, Leave, Return, vars

-----------------------------------------------------------------------------
(* Each step is a step of the order book or leaves it as it is.            *)

BookUnchanged == bookOf' = bookOf /\ Unsent' = Unsent

(* set() of unsent orders brings back those of them that were served.      *)
LEMMA WrittenReopens ==
    ASSUME TypeOK, NEW S \in SUBSET Unsent, S \subseteq Order, Written(S),
           UNCHANGED unsent
    PROVE  BookUnchanged \/ \E R \in SUBSET Unsent : Book!Reopen(R)
  <1> DEFINE R == {o \in S : bookOf[o] = "served"}
  <1>1. Unsent' = Unsent
    BY DEF Unsent
  <1>2. \A o \in Order : o \in S => isServed'[o] = FALSE
    BY DEF Written
  <1>3. \A o \in Order \ S : isServed'[o] = isServed[o]
    BY DEF Written
  <1>4. \A o \in Order : bookOf'[o] = IF o \in R THEN "placed" ELSE bookOf[o]
    BY <1>1, <1>2, <1>3 DEF bookOf
  <1>5. bookOf' = [o \in Order |-> IF o \in R THEN "placed" ELSE bookOf[o]]
    BY <1>4 DEF bookOf
  <1>6. CASE R = {}
    <2>1. bookOf' = bookOf
      BY <1>5, <1>6 DEF bookOf
    <2> QED
      BY <1>1, <2>1 DEF BookUnchanged
  <1>7. CASE R # {}
    BY <1>1, <1>5, <1>7 DEF Book!Reopen
  <1> QED
    BY <1>6, <1>7

(* An update of a document that is there serves its order, if it was not.  *)
LEMMA MarkServes ==
    ASSUME TypeOK, KitchenInv, NEW k \in Kitchen, NEW o \in marked[k],
           isServed' = [isServed EXCEPT ![o] = ServedFlag(o)],
           UNCHANGED unsent
    PROVE  BookUnchanged \/ Book!Serve(o)
  <1>1. o \in Order
    BY DEF TypeOK
  <1>2. Unsent' = Unsent
    BY DEF Unsent
  <1>3. isServed[o] # NoDoc /\ isServed'[o] = TRUE
    BY MarkKeepsDocuments
  <1>4. \A x \in Order \ {o} : isServed'[x] = isServed[x]
    BY DEF TypeOK
  <1>5. bookOf' = [bookOf EXCEPT ![o] = "served"]
    BY <1>1, <1>2, <1>3, <1>4 DEF bookOf
  <1>6. CASE isServed[o] = TRUE
    <2>1. bookOf[o] = "served"
      BY <1>1, <1>6 DEF bookOf
    <2>2. bookOf' = bookOf
      BY <1>5, <2>1 DEF bookOf
    <2> QED
      BY <1>2, <2>2 DEF BookUnchanged
  <1>7. CASE isServed[o] = FALSE
    <2>1. bookOf[o] = "placed"
      BY <1>1, <1>7 DEF bookOf
    <2> QED
      BY <1>2, <1>5, <2>1 DEF Book!Serve
  <1> QED
    BY <1>1, <1>3, <1>6, <1>7 DEF TypeOK

LEMMA BookInit == Init => Book!Init
  <1> SUFFICES ASSUME Init
               PROVE  Book!Init
    OBVIOUS
  <1>1. Unsent = {}
    BY DEF Init, Unsent, ToSet
  <1>2. bookOf = [o \in Order |-> "none"]
    BY <1>1, OrdersAssumption DEF Init, bookOf
  <1> QED
    BY <1>1, <1>2 DEF Book!Init

LEMMA BookStep ==
    TypeOK /\ KitchenInv /\ QueuesApart /\ [Next]_vars
        => [Book!Next]_(Book!vars)
  <1> SUFFICES ASSUME TypeOK, KitchenInv, QueuesApart, [Next]_vars
               PROVE  Book!Next \/ BookUnchanged
    BY DEF BookUnchanged, Book!vars
  <1>1. ASSUME NEW s \in Student, NEW o \in Order, Confirm(s, o)
        PROVE  Book!Next
    <2>1. Unsent' = Unsent \cup {o} /\ isServed' = isServed
      BY <1>1, UnsentAfterConfirm DEF Confirm
    <2>2. bookOf[o] = "none"
      BY <1>1, OrdersAssumption DEF Confirm, bookOf
    <2>3. \A x \in Order : bookOf'[x] = IF x = o THEN "placed" ELSE bookOf[x]
      BY <1>1, <2>1, OrdersAssumption DEF Confirm, bookOf
    <2>4. bookOf' = [bookOf EXCEPT ![o] = "placed"]
      BY <2>3 DEF bookOf
    <2> QED
      BY <2>1, <2>2, <2>4 DEF Book!Place, Book!Next
  <1>2. ASSUME NEW s \in Student, Send(s)
        PROVE  Book!Next
    <2> DEFINE o == Head(unsent[s])
    <2>1. o \in Unsent /\ o \in Order /\ Unsent' = Unsent \ {o}
      BY <1>2, UnsentAfterSend
    <2>2. /\ isServed'[o] = FALSE
          /\ \A x \in Order \ {o} : isServed'[x] = isServed[x]
      BY <1>2, <2>1 DEF Send, Written
    <2>3. \A x \in Order : bookOf'[x] = IF x = o THEN "placed" ELSE bookOf[x]
      BY <2>1, <2>2 DEF bookOf
    <2>4. bookOf' = [bookOf EXCEPT ![o] = "placed"]
      BY <2>3 DEF bookOf
    <2> HIDE DEF o
    <2> QED
      BY <2>1, <2>4 DEF Book!Answer, Book!Next
  <1>3. ASSUME NEW s \in Student, AnswersLost(s)
        PROVE  Book!Next \/ BookUnchanged
    <2>1. unsent[s] \in Seq(Order) /\ ToSet(unsent[s]) \subseteq Unsent
      BY DEF TypeOK, Unsent
    <2>2. PICK n \in DOMAIN unsent[s] :
              Written(ToSet(SubSeq(unsent[s], 1, n)))
      BY <1>3 DEF AnswersLost
    <2>3. PICK S \in SUBSET Unsent : S \subseteq Order /\ Written(S)
      BY <2>1, <2>2, FrontSet
    <2>4. BookUnchanged \/ \E R \in SUBSET Unsent : Book!Reopen(R)
      BY <1>3, <2>3, WrittenReopens DEF AnswersLost
    <2> QED
      BY <2>4 DEF Book!Next
  <1>4. ASSUME NEW k \in Kitchen, NEW o \in Order,
               SendMark(k, o) \/ MarkUnanswered(k, o)
        PROVE  Book!Next \/ BookUnchanged
    BY <1>4, MarkServes DEF SendMark, MarkUnanswered, Book!Next
  <1>5. CASE UNCHANGED <<unsent, isServed>>
    BY <1>5 DEF BookUnchanged, bookOf, Unsent
  <1> QED
    BY <1>1, <1>2, <1>3, <1>4, <1>5 DEF Next, Fetch, BuildPending,
       BuildServed, TapCheck, Leave, Return, vars

(* The phones, Firestore and the lists make up the order book: a confirmed *)
(* order is never lost, nor taken back once it is served and answered.     *)
THEOREM OrdersImplementOrderBook == Spec => ImplementsOrderBook
  BY TypeInit, TypeStep, KitchenInit, KitchenStep, QueuesInit, QueuesStep,
     BookInit, BookStep, PTL DEF Spec, Book!Spec, ImplementsOrderBook
=============================================================================
