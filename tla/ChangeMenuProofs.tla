-------------------------- MODULE ChangeMenuProofs --------------------------
(***************************************************************************)
(* Theorems about the menu page of the canteen's admins, for any number of *)
(* admins, items and prices, and any number of taps, edits and losses.     *)
(***************************************************************************)
EXTENDS ChangeMenu, TLAPS, SequenceTheorems

-----------------------------------------------------------------------------
(* The ends of a queue.                                                    *)

LEMMA LastOfAppend ==
    ASSUME NEW S, NEW q \in Seq(S), NEW m \in S
    PROVE  /\ Append(q, m) \in Seq(S) /\ Append(q, m) # << >>
           /\ Last(Append(q, m)) = m
  BY AppendProperties, LenProperties DEF Last

LEMMA LastInSet ==
    ASSUME NEW S, NEW q \in Seq(S), q # << >>
    PROVE  Last(q) \in S
  BY EmptySeq, ElementOfSeq DEF Last

(* What stays behind when the head has left.                               *)
LEMMA LastOfTail ==
    ASSUME NEW S, NEW q \in Seq(S), q # << >>
    PROVE  /\ Tail(q) = << >> => Last(q) = Head(q)
           /\ Tail(q) # << >> => Last(Tail(q)) = Last(q)
           /\ Tail(q) = << >> <=> ~(Len(q) > 1)
  <1>1. /\ Len(q) \in Nat \ {0}
        /\ Tail(q) \in Seq(S) /\ Len(Tail(q)) = Len(q) - 1
        /\ \A i \in 1 .. Len(Tail(q)) : Tail(q)[i] = q[i + 1]
    BY EmptySeq, HeadTailProperties
  <1>2. CASE Tail(q) = << >>
    <2>1. Len(q) = 1
      <3>1. Len(q) \in Nat /\ Len(q) - 1 = 0
        BY <1>1, <1>2, EmptySeq
      <3> QED
        BY <3>1
    <2> QED
      BY <1>2, <2>1 DEF Last
  <1>3. CASE Tail(q) # << >>
    <2>1. Len(Tail(q)) \in Nat \ {0}
      BY <1>1, <1>3, EmptySeq
    <2>2. Tail(q)[Len(Tail(q))] = q[Len(q)]
      BY <1>1, <2>1
    <2> QED
      BY <1>1, <1>3, <2>1, <2>2 DEF Last
  <1> QED
    BY <1>2, <1>3

-----------------------------------------------------------------------------
(* Types.                                                                  *)

LEMMA ToggledType ==
    ASSUME NEW m \in MenuMap, NEW k \in Item
    PROVE  /\ Toggled(m, k) \in MenuMap
           /\ \A x \in Item : /\ Toggled(m, k)[x].Price = m[x].Price
                              /\ x # k => Toggled(m, k)[x] = m[x]
           /\ Toggled(m, k)[k].isAvailable = ~m[k].isAvailable
  BY DEF Toggled, MenuMap

LEMMA ViewType ==
    ASSUME TypeOK, NEW a \in Admin
    PROVE  View(a) \in MenuMap
  BY LastInSet DEF View, TypeOK

LEMMA RaiseType ==
    ASSUME TypeOK, NEW a \in Admin, NEW m \in MenuMap, Raise(a, m)
    PROVE  coming' \in [Admin -> Seq(MenuMap)]
  <1>1. Append(coming[a], m) \in Seq(MenuMap)
    BY AppendProperties DEF TypeOK
  <1> QED
    BY <1>1 DEF Raise, TypeOK

LEMMA TypeInit == Init => TypeOK
  <1> SUFFICES ASSUME Init
               PROVE  TypeOK
    OBVIOUS
  <1>1. << >> \in Seq(MenuMap) /\ <<document>> \in Seq(MenuMap)
    BY EmptySeq DEF Init
  <1> QED
    BY <1>1 DEF Init, TypeOK

LEMMA TypeStep == TypeOK /\ [Next]_vars => TypeOK'
  <1> SUFFICES ASSUME TypeOK, [Next]_vars
               PROVE  TypeOK'
    OBVIOUS
  <1>1. ASSUME NEW a \in Admin, Build(a)
        PROVE  TypeOK'
    <2>1. Head(coming[a]) \in MenuMap /\ Tail(coming[a]) \in Seq(MenuMap)
      BY <1>1, HeadTailProperties DEF Build, TypeOK
    <2> QED
      BY <1>1, <2>1 DEF Build, TypeOK
  <1>2. ASSUME NEW a \in Admin, Commit(a)
        PROVE  TypeOK'
    <2>1. Head(outbox[a]) \in MenuMap /\ Tail(outbox[a]) \in Seq(MenuMap)
      BY <1>2, HeadTailProperties DEF Commit, TypeOK
    <2> QED
      BY <1>2, <2>1 DEF Commit, TypeOK
  <1>3. ASSUME NEW a \in Admin, AnswersLost(a)
        PROVE  TypeOK'
    <2>1. \A n \in DOMAIN outbox[a] : outbox[a][n] \in MenuMap
      BY LenProperties, ElementOfSeq DEF TypeOK
    <2> QED
      BY <1>3, <2>1 DEF AnswersLost, TypeOK
  <1>4. ASSUME NEW a \in Admin, Fetch(a)
        PROVE  TypeOK'
    <2>1. coming' \in [Admin -> Seq(MenuMap)]
      BY <1>4, RaiseType DEF Fetch, TypeOK
    <2> QED
      BY <1>4, <2>1 DEF Fetch, TypeOK
  <1>5. ASSUME NEW a \in Admin, NEW i \in {0, 1}, SelectTab(a, i)
        PROVE  TypeOK'
    <2>1. <<View(a)>> \in Seq(MenuMap)
      BY ViewType
    <2> QED
      BY <1>5, <2>1 DEF SelectTab, TypeOK
  <1>6. ASSUME NEW a \in Admin, NEW k \in Item, Toggle(a, k)
        PROVE  TypeOK'
    <2>1. menu[a] \in MenuMap /\ Toggled(menu[a], k) \in MenuMap
      BY ToggledType DEF TypeOK
    <2>2. Append(outbox[a], Toggled(menu[a], k)) \in Seq(MenuMap)
      BY <2>1, AppendProperties DEF TypeOK
    <2>3. coming' \in [Admin -> Seq(MenuMap)]
      BY <1>6, <2>1, RaiseType DEF Toggle, toggleAndUpdate
    <2>4. flipped' \subseteq Item /\ crossed' \in BOOLEAN
      BY <1>6 DEF Toggle, SymDiff, Unseen, TypeOK
    <2>5. /\ menu' \in [Admin -> MenuMap]
          /\ outbox' \in [Admin -> Seq(MenuMap)]
          /\ taps' \in Nat
      BY <1>6, <2>1, <2>2 DEF Toggle, toggleAndUpdate, TypeOK
    <2>6. UNCHANGED <<document, known, stream, navBarIndex, edits, lagging,
                      atFirst, losses>>
      BY <1>6 DEF Toggle
    <2> QED
      BY <2>3, <2>4, <2>5, <2>6 DEF TypeOK
  <1>7. ASSUME NEW k \in Item, NEW p \in Price, EditPrice(k, p)
        PROVE  TypeOK'
    <2>1. ASSUME NEW m \in MenuMap
          PROVE  [m EXCEPT ![k].Price = p] \in MenuMap
      BY DEF MenuMap
    <2>2. document' \in MenuMap /\ atFirst' \in MenuMap
      BY <1>7, <2>1 DEF EditPrice, TypeOK
    <2>3. crossed' \in BOOLEAN /\ edits' \in Nat
      BY <1>7 DEF EditPrice, TypeOK
    <2>4. UNCHANGED <<known, outbox, coming, stream, menu, navBarIndex, taps,
                      lagging, flipped, losses>>
      BY <1>7 DEF EditPrice
    <2> QED
      BY <2>2, <2>3, <2>4 DEF TypeOK
  <1>8. CASE UNCHANGED vars
    BY <1>8 DEF vars, TypeOK
  <1> QED
    BY <1>1, <1>2, <1>3, <1>4, <1>5, <1>6, <1>7, <1>8 DEF Next

(* Every variable keeps its type.                                          *)
THEOREM TypeCorrect == Spec => []TypeOK
  BY TypeInit, TypeStep, PTL DEF Spec

-----------------------------------------------------------------------------
(* Pages.                                                                  *)

(* The snapshots on their way end with the phone's view, and a page that   *)
(* no newer snapshot is coming to shows it.                                *)
PagesFollowViews ==
    \A a \in Admin :
        /\ coming[a] # << >> => Last(coming[a]) = View(a)
        /\ stream[a] = "active" /\ ~lagging[a] => menu[a] = View(a)

(* A phone whose Firestore raises a snapshot of its new view m.            *)
LEMMA RaiseFollowsView ==
    ASSUME TypeOK, PagesFollowViews, NEW a \in Admin, NEW m \in MenuMap,
           Raise(a, m)
    PROVE  /\ coming'[a] # << >> => Last(coming'[a]) = m
           /\ \A b \in Admin \ {a} : coming'[b] = coming[b]
  <1>1. CASE m = View(a)
    BY <1>1 DEF Raise, PagesFollowViews
  <1>2. CASE m # View(a)
    <2>1. coming' = [coming EXCEPT ![a] = Append(@, m)]
      BY <1>2 DEF Raise
    <2>2. coming[a] \in Seq(MenuMap) /\ coming'[a] = Append(coming[a], m)
      BY <2>1 DEF TypeOK
    <2> QED
      BY <2>1, <2>2, LastOfAppend DEF TypeOK
  <1> QED
    BY <1>1, <1>2

(* Sending the oldest write does not change what the phone shows.          *)
LEMMA CommitKeepsView ==
    ASSUME TypeOK, NEW a \in Admin, Commit(a)
    PROVE  \A b \in Admin : View(b)' = View(b)
  <1>1. outbox[a] \in Seq(MenuMap) /\ outbox[a] # << >>
    BY DEF Commit, TypeOK
  <1>2. /\ outbox'[a] = Tail(outbox[a]) /\ known'[a] = Head(outbox[a])
        /\ \A b \in Admin \ {a} : /\ outbox'[b] = outbox[b]
                                  /\ known'[b] = known[b]
    BY DEF Commit, TypeOK
  <1> QED
    BY <1>1, <1>2, LastOfTail DEF View

LEMMA ToggleSetsView ==
    ASSUME TypeOK, NEW a \in Admin, NEW k \in Item, Toggle(a, k)
    PROVE  /\ menu'[a] = Toggled(menu[a], k) /\ menu'[a] \in MenuMap
           /\ outbox'[a] # << >> /\ Last(outbox'[a]) = menu'[a]
           /\ View(a)' = menu'[a]
           /\ Raise(a, menu'[a])
           /\ \A b \in Admin \ {a} : /\ menu'[b] = menu[b]
                                     /\ outbox'[b] = outbox[b]
                                     /\ View(b)' = View(b)
  <1>1. menu[a] \in MenuMap /\ Toggled(menu[a], k) \in MenuMap
    BY ToggledType DEF TypeOK
  <1>2. /\ menu' = [menu EXCEPT ![a] = Toggled(menu[a], k)]
        /\ outbox' = [outbox EXCEPT ![a] =
                          Append(outbox[a], Toggled(menu[a], k))]
        /\ Raise(a, Toggled(menu[a], k)) /\ UNCHANGED known
    BY DEF Toggle, toggleAndUpdate
  <1>3. /\ menu'[a] = Toggled(menu[a], k)
        /\ outbox'[a] = Append(outbox[a], Toggled(menu[a], k))
        /\ \A b \in Admin \ {a} : /\ menu'[b] = menu[b]
                                  /\ outbox'[b] = outbox[b]
    <2>1. outbox \in [Admin -> Seq(MenuMap)] /\ menu \in [Admin -> MenuMap]
      BY DEF TypeOK
    <2>2. DOMAIN outbox = Admin /\ DOMAIN menu = Admin
      BY <2>1
    <2> QED
      BY <1>2, <2>2, SMTT(30)
  <1>4. outbox'[a] # << >> /\ Last(outbox'[a]) = menu'[a]
    BY <1>1, <1>3, LastOfAppend DEF TypeOK
  <1>5. View(a)' = menu'[a]
    BY <1>4 DEF View
  <1>6. \A b \in Admin \ {a} : View(b)' = View(b)
    BY <1>2, <1>3 DEF View
  <1>7. Raise(a, menu'[a])
    BY <1>2, <1>3
  <1> QED
    BY <1>1, <1>3, <1>4, <1>5, <1>6, <1>7

LEMMA PagesInit == Init => PagesFollowViews
  BY DEF Init, PagesFollowViews, View, Last

LEMMA PagesStep ==
    TypeOK /\ PagesFollowViews /\ [Next]_vars => PagesFollowViews'
  <1> SUFFICES ASSUME TypeOK, PagesFollowViews, [Next]_vars
               PROVE  PagesFollowViews'
    OBVIOUS
  <1>1. ASSUME NEW a \in Admin, Build(a)
        PROVE  PagesFollowViews'
    <2>1. coming[a] \in Seq(MenuMap) /\ coming[a] # << >>
      BY <1>1 DEF Build, TypeOK
    <2>2. /\ coming'[a] = Tail(coming[a]) /\ menu'[a] = Head(coming[a])
          /\ lagging'[a] <=> Len(coming[a]) > 1
          /\ \A b \in Admin \ {a} :
                /\ coming'[b] = coming[b] /\ menu'[b] = menu[b]
                /\ stream'[b] = stream[b] /\ lagging'[b] = lagging[b]
      BY <1>1 DEF Build, TypeOK
    <2>3. \A b \in Admin : View(b)' = View(b)
      BY <1>1 DEF Build, View
    <2>4. Last(coming[a]) = View(a)
      BY <2>1 DEF PagesFollowViews
    <2>5. coming'[a] # << >> => Last(coming'[a]) = View(a)
      BY <2>1, <2>2, <2>4, LastOfTail
    <2>6. ~lagging'[a] => menu'[a] = View(a)
      BY <2>1, <2>2, <2>4, LastOfTail
    <2> QED
      BY <2>2, <2>3, <2>5, <2>6 DEF PagesFollowViews
  <1>2. ASSUME NEW a \in Admin, Commit(a)
        PROVE  PagesFollowViews'
    BY <1>2, CommitKeepsView DEF Commit, PagesFollowViews
  <1>3. ASSUME NEW a \in Admin, Fetch(a)
        PROVE  PagesFollowViews'
    <2>1. UNCHANGED <<outbox, stream, menu>> /\ document \in MenuMap
      BY <1>3 DEF Fetch, TypeOK
    <2>2. /\ known'[a] = document
          /\ \A b \in Admin \ {a} : View(b)' = View(b)
      BY <1>3 DEF Fetch, View, TypeOK
    <2>3. CASE outbox[a] = << >>
      <3>1. /\ Raise(a, document) /\ View(a)' = document /\ lagging'[a]
            /\ \A b \in Admin \ {a} : lagging'[b] = lagging[b]
        BY <1>3, <2>1, <2>2, <2>3 DEF Fetch, View, TypeOK
      <3> QED
        BY <2>1, <2>2, <3>1, RaiseFollowsView DEF PagesFollowViews
    <2>4. CASE outbox[a] # << >>
      BY <1>3, <2>1, <2>2, <2>4 DEF Fetch, View, PagesFollowViews
    <2> QED
      BY <2>3, <2>4
  <1>4. ASSUME NEW a \in Admin, NEW i \in {0, 1}, SelectTab(a, i)
        PROVE  PagesFollowViews'
    <2>1. /\ coming'[a] = <<View(a)>> /\ stream'[a] = "waiting"
          /\ \A b \in Admin \ {a} :
                /\ coming'[b] = coming[b] /\ stream'[b] = stream[b]
                /\ lagging'[b] = lagging[b]
      BY <1>4 DEF SelectTab, TypeOK
    <2>2. UNCHANGED menu /\ \A b \in Admin : View(b)' = View(b)
      BY <1>4 DEF SelectTab, View
    <2>3. Last(coming'[a]) = View(a)
      BY <2>1 DEF Last
    <2> QED
      BY <2>1, <2>2, <2>3 DEF PagesFollowViews
  <1>5. ASSUME NEW a \in Admin, NEW k \in Item, Toggle(a, k)
        PROVE  PagesFollowViews'
    <2>1. UNCHANGED <<stream, lagging>>
      BY <1>5 DEF Toggle
    <2> QED
      BY <1>5, <2>1, ToggleSetsView, RaiseFollowsView DEF PagesFollowViews
  <1>6. CASE UNCHANGED <<known, outbox, coming, stream, menu, lagging>>
    BY <1>6 DEF PagesFollowViews, View
  <1> QED
    BY <1>1, <1>2, <1>3, <1>4, <1>5, <1>6 DEF Next, AnswersLost, EditPrice,
       vars

-----------------------------------------------------------------------------
(* Taps.                                                                   *)

(* As long as nothing crossed, one phone at most has unsent writes.        *)
OnePhoneWrites == ~crossed => \A a, b \in Unsent : a = b

MenuInv == PagesFollowViews /\ OnePhoneWrites /\ NoTapLost

LEMMA DifferenceFlips ==
    ASSUME NEW x \in BOOLEAN, NEW u \in BOOLEAN, NEW v \in BOOLEAN, v <=> ~u
    PROVE  (x # v) = ~(x # u)
  <1>1. CASE u = TRUE
    <2>1. v = FALSE
      BY <1>1
    <2> QED
      BY <1>1, <2>1
  <1>2. CASE u = FALSE
    <2>1. v = TRUE
      BY <1>2
    <2> QED
      BY <1>2, <2>1
  <1> QED
    BY <1>1, <1>2

LEMMA RowFlips ==
    ASSUME NEW p, NEW b \in BOOLEAN
    PROVE  [[Price |-> p, isAvailable |-> b] EXCEPT !.isAvailable = ~@]
               = [Price |-> p, isAvailable |-> ~b]
  OBVIOUS

(* A tap on k, or a new price of k, changes what is expected of k.         *)
LEMMA ExpectedAfterTap ==
    ASSUME TypeOK, NEW k \in Item, flipped' = SymDiff(flipped, {k}),
           UNCHANGED atFirst
    PROVE  Expected' = Toggled(Expected, k)
  <1>1. \A x \in Item : x \in flipped' <=> (x \in flipped) # (x = k)
    BY DEF SymDiff
  <1>2. \A x \in Item : atFirst[x].isAvailable \in BOOLEAN
    BY DEF TypeOK, MenuMap
  <1> DEFINE Row(x, f) == [Price |-> atFirst[x].Price,
                           isAvailable |-> atFirst[x].isAvailable # (x \in f)]
  <1>3. ASSUME NEW x \in Item, x # k
        PROVE  Row(x, flipped') = Row(x, flipped)
    BY <1>1, <1>3
  <1>4. Row(k, flipped') = [Row(k, flipped) EXCEPT !.isAvailable = ~@]
    <2> DEFINE b == atFirst[k].isAvailable # (k \in flipped)
    <2>1. k \in flipped' <=> k \notin flipped
      BY <1>1
    <2>2. atFirst[k].isAvailable \in BOOLEAN
      BY <1>2
    <2>3. (atFirst[k].isAvailable # (k \in flipped')) = ~b
      BY <2>1, <2>2, DifferenceFlips
    <2> QED
      BY <2>3, RowFlips
  <1>5. Expected' = [x \in Item |-> Row(x, flipped')]
    BY DEF Expected
  <1>6. Expected = [x \in Item |-> Row(x, flipped)]
    BY DEF Expected
  <1> HIDE DEF Row
  <1> QED
    BY <1>3, <1>4, <1>5, <1>6 DEF Toggled

LEMMA ExpectedAfterEdit ==
    ASSUME TypeOK, NEW k \in Item, NEW p \in Price,
           atFirst' = [atFirst EXCEPT ![k].Price = p], UNCHANGED flipped
    PROVE  Expected' = [Expected EXCEPT ![k].Price = p]
  <1>1. \A x \in Item :
            /\ atFirst'[x].isAvailable = atFirst[x].isAvailable
            /\ atFirst'[x].Price = IF x = k THEN p ELSE atFirst[x].Price
    BY DEF TypeOK, MenuMap
  <1> DEFINE Row(x) == [Price |-> atFirst[x].Price,
                        isAvailable |-> atFirst[x].isAvailable
                                            # (x \in flipped)]
  <1>2. Expected = [x \in Item |-> Row(x)]
    BY DEF Expected
  <1>3. Expected' = [x \in Item |-> [Row(x) EXCEPT !.Price =
                                        IF x = k THEN p ELSE @]]
    BY <1>1 DEF Expected
  <1> HIDE DEF Row
  <1>4. \A x \in Item : [Row(x) EXCEPT !.Price = @] = Row(x)
    BY DEF Row
  <1> QED
    BY <1>2, <1>3, <1>4

LEMMA TapsInit == Init => OnePhoneWrites /\ NoTapLost
  <1> SUFFICES ASSUME Init
               PROVE  OnePhoneWrites /\ NoTapLost
    OBVIOUS
  <1>1. Unsent = {}
    BY DEF Init, Unsent
  <1>2. \A x \in Item : /\ document[x].isAvailable \in BOOLEAN
                        /\ document[x] = [Price |-> document[x].Price,
                                  isAvailable |-> document[x].isAvailable]
    BY DEF Init, MenuMap
  <1>3. \A x \in Item : (document[x].isAvailable # FALSE)
                            = document[x].isAvailable
    BY <1>2
  <1>4. document = [x \in Item |-> document[x]]
    BY DEF Init, MenuMap
  <1>5. ASSUME NEW x \in Item
        PROVE  [Price |-> atFirst[x].Price,
                isAvailable |-> atFirst[x].isAvailable # (x \in flipped)]
                   = document[x]
    <2>1. atFirst = document /\ (x \in flipped) = FALSE
      BY DEF Init
    <2> QED
      BY <2>1, <1>2, <1>3
  <1>6. Expected = document
    BY <1>4, <1>5 DEF Expected
  <1>7. \A a \in Admin : Settled(a) = document
    BY DEF Init, Settled
  <1> QED
    BY <1>1, <1>6, <1>7 DEF OnePhoneWrites, NoTapLost

(* While nothing crossed, the newest unsent write is what is expected, or  *)
(* the document is if there is none.                                       *)
LEMMA WhatIsExpected ==
    ASSUME OnePhoneWrites, NoTapLost, ~crossed, NEW a \in Admin
    PROVE  /\ Unsent = {} => document = Expected
           /\ a \in Unsent => Unsent = {a} /\ Last(outbox[a]) = Expected
  BY DEF OnePhoneWrites, NoTapLost, Settled, Unsent

LEMMA TapsStep ==
    TypeOK /\ MenuInv /\ [Next]_vars => OnePhoneWrites' /\ NoTapLost'
  <1> SUFFICES ASSUME TypeOK, MenuInv, [Next]_vars, ~crossed'
               PROVE  /\ \A a, b \in Unsent' : a = b
                      /\ \A b \in Admin : Unsent' \subseteq {b} =>
                            Settled(b)' = Expected'
    BY DEF OnePhoneWrites, NoTapLost
  <1> USE DEF MenuInv
  <1>1. ASSUME NEW a \in Admin, Commit(a)
        PROVE  /\ \A x, y \in Unsent' : x = y
               /\ \A b \in Admin : Unsent' \subseteq {b} =>
                     Settled(b)' = Expected'
    <2>1. /\ outbox[a] \in Seq(MenuMap) /\ outbox[a] # << >>
          /\ outbox'[a] = Tail(outbox[a]) /\ document' = Head(outbox[a])
          /\ \A b \in Admin \ {a} : outbox'[b] = outbox[b]
      BY <1>1 DEF Commit, TypeOK
    <2>2. ~crossed /\ Expected' = Expected
      BY <1>1 DEF Commit, Expected
    <2>3. Unsent = {a} /\ Last(outbox[a]) = Expected
      BY <2>1, <2>2, WhatIsExpected DEF Unsent
    <2>4. \A b \in Admin \ {a} : outbox'[b] = << >>
      BY <2>1, <2>3 DEF Unsent
    <2>5. Unsent' \subseteq {a}
      BY <2>4 DEF Unsent
    <2>6. CASE Tail(outbox[a]) = << >>
      <3>1. document' = Expected
        BY <2>1, <2>3, <2>6, LastOfTail
      <3>2. \A b \in Admin : outbox'[b] = << >>
        BY <2>1, <2>4, <2>6
      <3> QED
        BY <2>2, <2>5, <3>1, <3>2 DEF Settled
    <2>7. CASE Tail(outbox[a]) # << >>
      <3>1. a \in Unsent' /\ Last(outbox'[a]) = Expected
        BY <2>1, <2>3, <2>7, LastOfTail DEF Unsent
      <3> QED
        BY <2>1, <2>2, <2>5, <2>7, <3>1 DEF Settled
    <2> QED
      BY <2>6, <2>7
  <1>2. ASSUME NEW a \in Admin, AnswersLost(a)
        PROVE  /\ \A x, y \in Unsent' : x = y
               /\ \A b \in Admin : Unsent' \subseteq {b} =>
                     Settled(b)' = Expected'
    <2>1. UNCHANGED outbox /\ ~crossed /\ Expected' = Expected
      BY <1>2 DEF AnswersLost, Expected
    <2>2. outbox[a] # << >>
      BY <1>2, EmptySeq DEF AnswersLost, TypeOK
    <2>3. Unsent = {a} /\ Last(outbox[a]) = Expected
      BY <2>1, <2>2, WhatIsExpected DEF Unsent
    <2> QED
      BY <2>1, <2>2, <2>3 DEF Unsent, Settled
  <1>3. ASSUME NEW a \in Admin, NEW k \in Item, Toggle(a, k)
        PROVE  /\ \A x, y \in Unsent' : x = y
               /\ \A b \in Admin : Unsent' \subseteq {b} =>
                     Settled(b)' = Expected'
    <2>1. /\ stream[a] = "active" /\ ~crossed /\ ~Unseen(a)
          /\ flipped' = SymDiff(flipped, {k}) /\ UNCHANGED atFirst
      BY <1>3 DEF Toggle, Unseen, TypeOK
    <2>2. Unsent \subseteq {a} /\ known[a] = document /\ ~lagging[a]
      BY <2>1 DEF Unseen
    <2>3. menu[a] = View(a)
      BY <2>1, <2>2 DEF PagesFollowViews
    <2>4. menu[a] = Expected
      BY <2>1, <2>2, <2>3 DEF View, Settled, NoTapLost
    <2>5. menu'[a] = Toggled(menu[a], k) /\ Last(outbox'[a]) = menu'[a]
          /\ outbox'[a] # << >>
          /\ \A b \in Admin \ {a} : outbox'[b] = outbox[b]
      BY <1>3, ToggleSetsView
    <2>6. Expected' = menu'[a]
      BY <2>1, <2>4, <2>5, ExpectedAfterTap
    <2>7. Unsent' = {a}
      BY <2>2, <2>5 DEF Unsent
    <2> QED
      BY <2>5, <2>6, <2>7 DEF Settled
  <1>4. ASSUME NEW k \in Item, NEW p \in Price, EditPrice(k, p)
        PROVE  /\ \A x, y \in Unsent' : x = y
               /\ \A b \in Admin : Unsent' \subseteq {b} =>
                     Settled(b)' = Expected'
    <2>1. /\ ~crossed /\ Unsent = {} /\ UNCHANGED <<outbox, flipped>>
          /\ document' = [document EXCEPT ![k].Price = p]
          /\ atFirst' = [atFirst EXCEPT ![k].Price = p]
      BY <1>4 DEF EditPrice, TypeOK
    <2>2. Unsent' = {}
      BY <2>1 DEF Unsent
    <2>3. ASSUME NEW b \in Admin
          PROVE  Settled(b)' = Expected'
      <3>1. document = Expected
        BY <2>1, WhatIsExpected
      <3>2. document' = Expected'
        BY <2>1, <3>1, ExpectedAfterEdit
      <3> QED
        BY <2>1, <3>2 DEF Settled, Unsent
    <2> QED
      BY <2>2, <2>3
  <1>5. CASE UNCHANGED <<document, outbox, flipped, atFirst, crossed>>
    BY <1>5 DEF Unsent, Settled, Expected, OnePhoneWrites, NoTapLost
  <1> QED
    BY <1>1, <1>2, <1>3, <1>4, <1>5 DEF Next, Build, Fetch, SelectTab, vars

(* No tap is lost and no price of the console written over unless a tap or *)
(* an edit was made over something that the page did not show, whatever    *)
(* the delays of writes and snapshots and whatever is sent again           *)
(* (change_menu.dart: every button writes the whole menu that its page     *)
(* holds).                                                                 *)
THEOREM TapsAreKept == Spec => []NoTapLost
  <1>1. Init => TypeOK /\ MenuInv
    BY TypeInit, PagesInit, TapsInit DEF MenuInv
  <1>2. TypeOK /\ MenuInv /\ [Next]_vars => (TypeOK /\ MenuInv)'
    BY TypeStep, PagesStep, TapsStep DEF MenuInv
  <1>3. TypeOK /\ MenuInv => NoTapLost
    BY DEF MenuInv
  <1> QED
    BY <1>1, <1>2, <1>3, PTL DEF Spec
=============================================================================
