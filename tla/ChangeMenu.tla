----------------------------- MODULE ChangeMenu -----------------------------
(***************************************************************************)
(* The menu page of the canteen's admins (lib/screens/AdminHomePage/       *)
(* change_menu.dart) inside their home page (lib/screens/                  *)
(* admin_homepage.dart), and the canteen's document they share.            *)
(*                                                                         *)
(* A page holds the Dart map of the last snapshot it built.  A tap changes *)
(* that map in place and writes the whole of it; the write is not awaited. *)
(* Firestore answers at once with a snapshot of the phone's own view (the  *)
(* server's document under the unsent writes) and sends the write when it  *)
(* can.  Snapshots reach the page in order but on their own time, so a     *)
(* page may be tapped while newer ones are under way.                      *)
(*                                                                         *)
(* A definition used nowhere that stands right before another one is a     *)
(* mutation of it (README.md, Mutations).                                  *)
(***************************************************************************)
EXTENDS Integers, Sequences, SequencesExt

CONSTANTS Admin,     \* the phones that show AdminHomePage
          Item,      \* the keys of the canteen's Menu map
          Price,     \* the prices an item may have
          MaxTaps,   \* bound: taps on the buttons of the page
          MaxEdits,  \* bound: edits in the Firestore console
          MaxLosses  \* bound: times that answers are lost

MenuMap == [Item -> [Price : Price, isAvailable : BOOLEAN]]

ASSUME ChangeMenuAssumption ==
    /\ MaxTaps \in Nat /\ MaxEdits \in Nat /\ MaxLosses \in Nat

VARIABLES
    document,    \* the Menu map in the canteen's document, on the server
    known,       \* the version of it that each phone's Firestore has
    outbox,      \* the phone's unanswered writes, oldest first
    coming,      \* the snapshots on their way to the page, oldest first
    stream,      \* state of the page's StreamBuilder
    menu,        \* menu: the map that the page's buttons work on
    navBarIndex, \* the tab in front: 0 is Orders, 1 is Menu
    taps, edits, losses,
    \* History, read by no action:
    lagging,     \* a snapshot is coming that knows more than the page
    flipped,     \* items tapped an odd number of times
    atFirst,     \* the document at first, with the console's prices
    crossed      \* a tap or an edit was made over changes not yet seen

vars == <<document, known, outbox, coming, stream, menu, navBarIndex, taps,
          edits, losses, lagging, flipped, atFirst, crossed>>

View(a) == IF outbox[a] = << >> THEN known[a] ELSE Last(outbox[a])
Unsent  == {a \in Admin : outbox[a] # << >>}

Init ==
    /\ document \in MenuMap
    /\ known = [a \in Admin |-> document]
    /\ outbox = [a \in Admin |-> << >>]
    /\ coming = [a \in Admin |-> <<document>>]
    /\ stream = [a \in Admin |-> "waiting"]
    /\ menu = [a \in Admin |-> document]
    /\ navBarIndex = [a \in Admin |-> 0]
    /\ taps = 0
    /\ edits = 0
    /\ losses = 0
    /\ lagging = [a \in Admin |-> FALSE]
    /\ flipped = {}
    /\ atFirst = document
    /\ crossed = FALSE

-----------------------------------------------------------------------------
(* Snapshots.                                                              *)

(* Firestore raises a snapshot for the page when its view becomes m.       *)
Raise(a, m) ==
    coming' = IF m = View(a) THEN coming
              ELSE [coming EXCEPT ![a] = Append(@, m)]

Build(a) ==
    /\ coming[a] # << >>
    /\ menu' = [menu EXCEPT ![a] = Head(coming[a])]
    /\ stream' = [stream EXCEPT ![a] = "active"]
    /\ coming' = [coming EXCEPT ![a] = Tail(@)]
    /\ lagging' = [lagging EXCEPT ![a] = Len(coming[a]) > 1]
    /\ UNCHANGED <<document, known, outbox, navBarIndex, taps, edits, flipped,
                   atFirst, crossed, losses>>

(* A tab of the home page rebuilds it, and each build of the menu page     *)
(* listens to a new stream: the spinner is back until its first snapshot.  *)
SelectTab(a, i) ==
    /\ navBarIndex' = [navBarIndex EXCEPT ![a] = i]
    /\ stream' = [stream EXCEPT ![a] = "waiting"]
    /\ coming' = [coming EXCEPT ![a] = <<View(a)>>]
    /\ lagging' = [lagging EXCEPT ![a] = FALSE]
    /\ UNCHANGED <<document, known, outbox, menu, taps, edits, flipped,
                   atFirst, crossed, losses>>

-----------------------------------------------------------------------------
(* The two buttons of a row, which do the same.                            *)

ToggledAlone(m, k) == [m EXCEPT ![k] = [isAvailable |-> ~@.isAvailable]]
Toggled(m, k) == [m EXCEPT ![k].isAvailable = ~@]

toggleACopy(a, k) ==
    /\ outbox' = [outbox EXCEPT ![a] = Append(@, Toggled(menu[a], k))]
    /\ Raise(a, Toggled(menu[a], k))
    /\ UNCHANGED menu
toggleOnly(a, k) ==
    /\ menu' = [menu EXCEPT ![a] = Toggled(@, k)]
    /\ UNCHANGED <<outbox, coming>>
toggleAndUpdate(a, k) ==
    /\ menu' = [menu EXCEPT ![a] = Toggled(@, k)]
    /\ outbox' = [outbox EXCEPT ![a] = Append(@, Toggled(menu[a], k))]
    /\ Raise(a, Toggled(menu[a], k))

(* What a's page does not show: another's write that may still be sent, a  *)
(* document its Firestore has not fetched, or a snapshot that knows more.  *)
Unseen(a) == Unsent \ {a} # {} \/ known[a] # document \/ lagging[a]

Toggle(a, k) ==
    /\ stream[a] = "active" /\ navBarIndex[a] = 1
    /\ taps < MaxTaps
    /\ toggleAndUpdate(a, k)
    /\ taps' = taps + 1
    /\ flipped' = SymDiff(flipped, {k})
    /\ crossed' = (crossed \/ Unseen(a))
    /\ UNCHANGED <<document, known, stream, navBarIndex, edits, lagging,
                   atFirst, losses>>

-----------------------------------------------------------------------------
(* Firestore and the console.                                              *)

(* The oldest unsent write replaces the whole Menu map.  The phone that    *)
(* sent it knows it from then on, so its view does not fall back.          *)
Commit(a) ==
    /\ outbox[a] # << >>
    /\ document' = Head(outbox[a])
    /\ known' = [known EXCEPT ![a] = Head(outbox[a])]
    /\ outbox' = [outbox EXCEPT ![a] = Tail(@)]
    /\ UNCHANGED <<coming, stream, menu, navBarIndex, taps, edits, lagging,
                   flipped, atFirst, crossed, losses>>

(* The first n unsent writes are carried out and the answers are lost, so  *)
(* that all of them are sent again (Outbox, WritePipeline).                *)
AnswersLost(a) ==
    /\ losses < MaxLosses /\ losses' = losses + 1
    /\ \E n \in DOMAIN outbox[a] : document' = outbox[a][n]
    /\ UNCHANGED <<known, outbox, coming, stream, menu, navBarIndex, taps,
                   edits, lagging, flipped, atFirst, crossed>>

(* A newer document is fetched; it shows when no write is unsent.          *)
Fetch(a) ==
    /\ known[a] # document
    /\ known' = [known EXCEPT ![a] = document]
    /\ IF outbox[a] = << >>
       THEN Raise(a, document) /\ lagging' = [lagging EXCEPT ![a] = TRUE]
       ELSE UNCHANGED <<coming, lagging>>
    /\ UNCHANGED <<document, outbox, stream, menu, navBarIndex, taps, edits,
                   flipped, atFirst, crossed, losses>>

(* Prices are changed in the Firestore console only.                       *)
EditPrice(k, p) ==
    /\ edits < MaxEdits /\ document[k].Price # p
    /\ document' = [document EXCEPT ![k].Price = p]
    /\ edits' = edits + 1
    /\ atFirst' = [atFirst EXCEPT ![k].Price = p]
    /\ crossed' = (crossed \/ Unsent # {})
    /\ UNCHANGED <<known, outbox, coming, stream, menu, navBarIndex, taps,
                   lagging, flipped, losses>>

-----------------------------------------------------------------------------
Next ==
    \/ \E a \in Admin :
         \/ Build(a) \/ Commit(a) \/ AnswersLost(a) \/ Fetch(a)
         \/ \E i \in {0, 1} : SelectTab(a, i)
         \/ \E k \in Item : Toggle(a, k)
    \/ \E k \in Item, p \in Price : EditPrice(k, p)

Spec == Init /\ [][Next]_vars

(* Phones get online again and Firestore passes on what it has; admins     *)
(* need do nothing.                                                        *)
Fairness == \A a \in Admin :
                WF_vars(Build(a)) /\ WF_vars(Commit(a)) /\ WF_vars(Fetch(a))

FairSpec == Spec /\ Fairness

-----------------------------------------------------------------------------
(* Properties.                                                             *)

(* Every variable has its type.                                            *)
TypeOK ==
    /\ document \in MenuMap
    /\ known \in [Admin -> MenuMap]
    /\ outbox \in [Admin -> Seq(MenuMap)]
    /\ coming \in [Admin -> Seq(MenuMap)]
    /\ stream \in [Admin -> {"waiting", "active"}]
    /\ menu \in [Admin -> MenuMap]
    /\ navBarIndex \in [Admin -> {0, 1}]
    /\ taps \in Nat /\ edits \in Nat /\ losses \in Nat
    /\ lagging \in [Admin -> BOOLEAN]
    /\ flipped \subseteq Item
    /\ atFirst \in MenuMap
    /\ crossed \in BOOLEAN

(* The menu once every unsent write has been sent.                         *)
Settled(a) == IF outbox[a] = << >> THEN document ELSE Last(outbox[a])
Expected == [k \in Item |-> [Price |-> atFirst[k].Price,
                             isAvailable |-> atFirst[k].isAvailable
                                                # (k \in flipped)]]

(* No tap is lost or undone and no price of the console is written over,   *)
(* however late writes are sent and snapshots are built, and however fast  *)
(* one admin taps, and whatever is sent again, unless a tap or an edit was *)
(* made over a change that the page did not show or another's write that   *)
(* was not answered: every button writes the whole menu it knows.  A page  *)
(* may even lag behind its own taps, between the snapshots of two of them. *)
NoTapLost ==
    ~crossed => \A a \in Admin : Unsent \subseteq {a} => Settled(a) = Expected

(* When taps and edits have come to an end, every menu page ends up with   *)
(* what is on the server, although a tap changes the page's map before     *)
(* anything has been written and snapshots of older views come in later.   *)
PagesAgree ==
    <>[](\A a \in Admin : stream[a] = "active" => menu[a] = document)
=============================================================================
