-------------------------------- MODULE Menu --------------------------------
(***************************************************************************)
(* The home page of one student's phone: the order screen                  *)
(* (lib/screens/UserHomePage/menu.dart) inside the page that holds it,     *)
(* with its tab bar and its Sign Out button (lib/screens/                  *)
(* user_homepage.dart).                                                    *)
(*                                                                         *)
(* Dart runs one handler at a time, but a handler gives the phone back to  *)
(* its user at every await.  The Pay handler waits for the account's       *)
(* document and, after an order, for the confirmation dialog; the Sign Out *)
(* handler waits for Firebase.  Each handler is split there and nowhere    *)
(* else.  What Firestore delivers (menu snapshots, the balance) is left    *)
(* open: any value of the right type may arrive at any time, which is what *)
(* a client that shares the documents with others has to expect.           *)
(*                                                                         *)
(* A definition used nowhere that stands right before another one, such as *)
(* EntrySwapped before Entry, is a mutation of it: a plausible bug that    *)
(* one of the properties is there to catch (README.md, Mutations).         *)
(***************************************************************************)
EXTENDS Integers, Sequences, FiniteSets

CONSTANTS Item,         \* the keys of the canteen's Menu map
          Null,         \* what a Dart map answers for a missing key
          Price,        \* the prices an item may have
          Amount,       \* the balances an account may have
          MaxQuantity,  \* bound: units of one item in the cart
          MaxSubtotal,  \* bound: the subtotal, which drifts from 0 both ways
                        \*        when prices change between taps
          MaxOrders,    \* bound: Pay taps (each places at most one order)
          MaxSignOuts   \* bound: Sign Out taps that are outstanding

CartEntry == [quantity : Nat \ {0}, price : Price, total_price : Nat]

ASSUME ConstantsAssumption ==
    /\ Null \notin CartEntry
    /\ Price \subseteq Nat
    /\ Amount \subseteq Nat
    /\ {MaxQuantity, MaxSubtotal, MaxOrders, MaxSignOuts} \subseteq Nat

VARIABLES
    stream,     \* state of the StreamBuilder over the canteen's document
    shown,      \* the Menu map of the last snapshot that was built
    cart,       \* cart: item |-> Null or quantity, price, total_price
    subtotal,   \* subtotal
    currIndex,  \* the tab in front: 0 is Order, 1 is Wallet
    paying,     \* Pay handlers that wait for Users/<username>
    routes,     \* the Navigator's stack, bottom first
    signOuts,   \* Sign Out handlers that wait for FirebaseAuth
    signedIn,   \* FirebaseAuth has a current user
    orders,     \* the orders this phone has written, in order
    \* History, read by no action:
    put,        \* units put into the cart by taps on +, less those on -
    ordered,    \* units of each item in orders
    repriced,   \* a tap met an item of this cart at another price
    overlapped, \* Pay was tapped while an earlier Pay was waiting
    crossed     \* a Pay and a Sign Out were waiting at the same time

screenVars == <<stream, shown, currIndex>>
cartVars   == <<cart, subtotal, put, repriced>>
orderVars  == <<orders, ordered>>
authVars   == <<signOuts, signedIn>>
vars == <<screenVars, cartVars, paying, routes, authVars, orderVars,
          overlapped, crossed>>

MenuMap   == [Item -> [Price : Price, isAvailable : BOOLEAN]]
Cart      == [Item -> CartEntry \cup {Null}]
Order     == [items : Cart, price : Int, repriced : BOOLEAN,
              signedIn : BOOLEAN]
Dialog    == {"empty", "alert", "confirmed"}
Route     == {"init", "auth"} \cup Dialog

Top         == routes[Len(routes)]
BelowTop    == SubSeq(routes, 1, Len(routes) - 1)
HomeMounted == routes[1] = "init"
EmptyCart   == [k \in Item |-> Null]
InCart(c)   == {k \in Item : c[k] # Null}
Quantity(c, k) == IF c[k] = Null THEN 0 ELSE c[k].quantity

Init ==
    /\ stream = "waiting"
    /\ shown \in MenuMap
    /\ cart = EmptyCart
    /\ subtotal = 0
    /\ currIndex = 0
    /\ paying = 0
    /\ routes = <<"init">>
    /\ signOuts = 0
    /\ signedIn = TRUE
    /\ orders = << >>
    /\ put = [k \in Item |-> 0]
    /\ ordered = [k \in Item |-> 0]
    /\ repriced = FALSE
    /\ overlapped = FALSE
    /\ crossed = FALSE

-----------------------------------------------------------------------------
(* The menu's stream and the tab bar.                                      *)

(* A snapshot of the canteen's document is built; nothing in the cart is   *)
(* revised.  Firestore ends a stream that has failed, and the page stops   *)
(* listening when it is disposed.                                          *)
MenuSnapshot(m) ==
    /\ HomeMounted /\ stream # "error"
    /\ stream' = "active"
    /\ shown' = m
    /\ UNCHANGED <<currIndex, cartVars, paying, routes, authVars, orderVars,
                   overlapped, crossed>>

MenuError ==
    /\ HomeMounted /\ stream # "error"
    /\ stream' = "error"
    /\ UNCHANGED <<shown, currIndex, cartVars, paying, routes, authVars,
                   orderVars, overlapped, crossed>>

(* Both tabs stay in the tree (Offstage), so the cart survives the switch. *)
SelectTab(i) ==
    /\ Top = "init"
    /\ currIndex' = i
    /\ UNCHANGED <<stream, shown, cartVars, paying, routes, authVars,
                   orderVars, overlapped, crossed>>

-----------------------------------------------------------------------------
(* The + and - buttons.  A row exists for the items of the last snapshot   *)
(* that are available, and can be tapped when no other route covers it.    *)

OrderTabInFront == Top = "init" /\ currIndex = 0 /\ stream = "active"
submenu == {k \in Item : shown[k].isAvailable}

EntrySwapped(q, p, n) == [quantity |-> q, price |-> n * p, total_price |-> p]
Entry(q, p, n) == [quantity |-> q, price |-> p, total_price |-> n * p]

NotePrice(k) == repriced' = (repriced \/ (k \in InCart(cart)
                                /\ cart[k].price # shown[k].Price))

Add(k) ==
    /\ OrderTabInFront /\ k \in submenu
    /\ Quantity(cart, k) < MaxQuantity
    /\ subtotal + shown[k].Price <= MaxSubtotal
    /\ LET q == Quantity(cart, k) + 1
       IN  cart' = [cart EXCEPT ![k] = Entry(q, shown[k].Price, q)]
    /\ subtotal' = subtotal + shown[k].Price
    /\ put' = [put EXCEPT ![k] = @ + 1]
    /\ NotePrice(k)
    /\ UNCHANGED <<screenVars, paying, routes, authVars, orderVars,
                   overlapped, crossed>>

(* What is left of an item of quantity q when one unit is taken out: no    *)
(* entry for the last unit.  Otherwise total_price is computed from the    *)
(* old quantity plus one, as coded.                                        *)
TakeOutKeepsLast(q, p) == Entry(q - 1, p, q + 1)
TakeOut(q, p) == IF q = 1 THEN Null ELSE Entry(q - 1, p, q + 1)

Remove(k) ==
    /\ OrderTabInFront /\ k \in submenu
    /\ k \in InCart(cart)
    /\ subtotal - shown[k].Price >= -MaxSubtotal
    /\ cart' = [cart EXCEPT ![k] = TakeOut(cart[k].quantity, shown[k].Price)]
    /\ subtotal' = subtotal - shown[k].Price
    /\ put' = [put EXCEPT ![k] = @ - 1]
    /\ NotePrice(k)
    /\ UNCHANGED <<screenVars, paying, routes, authVars, orderVars,
                   overlapped, crossed>>

-----------------------------------------------------------------------------
(* The Pay button.                                                         *)

(* Up to the first await: the handler asks for Users/<username>.  Nothing  *)
(* disables the button meanwhile.                                          *)
TapPay ==
    /\ OrderTabInFront
    /\ Len(orders) + paying < MaxOrders
    /\ paying' = paying + 1
    /\ overlapped' = (overlapped \/ paying > 0)
    /\ crossed' = (crossed \/ signOuts > 0)
    /\ UNCHANGED <<screenVars, cartVars, routes, authVars, orderVars>>

(* showDialog throws once the home page has been disposed.                 *)
showDialog(d) == routes' = IF HomeMounted THEN Append(routes, d) ELSE routes

(* The order is written from the cart as it is now, not as it was when Pay *)
(* was tapped; the write is not awaited, and the cart is kept until the    *)
(* dialog closes.                                                          *)
PlaceOrder ==
    /\ orders' = Append(orders, [items |-> cart, price |-> subtotal,
                                 repriced |-> repriced,
                                 signedIn |-> signedIn])
    /\ ordered' = [k \in Item |-> ordered[k] + Quantity(cart, k)]
    /\ showDialog("confirmed")

CartIsEmptyUntested == FALSE
CartIsEmpty == subtotal = 0

(* The document has arrived, with balance b: the rest of the handler runs. *)
PayResume(b) ==
    /\ paying > 0
    /\ paying' = paying - 1
    /\ \/ /\ CartIsEmpty
          /\ showDialog("empty")
          /\ UNCHANGED orderVars
       \/ /\ ~CartIsEmpty /\ b < subtotal
          /\ showDialog("alert")
          /\ UNCHANGED orderVars
       \/ /\ ~CartIsEmpty /\ b >= subtotal
          /\ PlaceOrder
    /\ UNCHANGED <<screenVars, cartVars, authVars, overlapped, crossed>>

(* The document could not be read: the exception ends the handler.         *)
PayFails ==
    /\ paying > 0
    /\ paying' = paying - 1
    /\ UNCHANGED <<screenVars, cartVars, routes, authVars, orderVars,
                   overlapped, crossed>>

(* The end of the Pay handler, when its dialog has been popped.            *)
ClearCartOnly    == cart' = EmptyCart /\ UNCHANGED <<subtotal, repriced, put>>
ClearSubtotalOnly == subtotal' = 0 /\ UNCHANGED <<cart, repriced, put>>
ClearCart ==
    /\ subtotal' = 0
    /\ cart' = EmptyCart
    /\ repriced' = FALSE
    /\ UNCHANGED put

(* What the route that is popped was awaited by: only the confirmation is. *)
ResumeAnyPopped == ClearCart
ResumePopped ==
    IF Top = "confirmed" THEN ClearCart ELSE UNCHANGED cartVars

(* OK, a tap beside a dialog, or the system's back button.  Popping the    *)
(* last route leaves the app and is not modelled.                          *)
PopRoute ==
    /\ Len(routes) > 1
    /\ routes' = BelowTop
    /\ ResumePopped
    /\ UNCHANGED <<screenVars, paying, authVars, orderVars, overlapped,
                   crossed>>

-----------------------------------------------------------------------------
(* The Sign Out button of the page.                                        *)

TapSignOut ==
    /\ Top = "init"
    /\ signOuts < MaxSignOuts
    /\ signOuts' = signOuts + 1
    /\ crossed' = (crossed \/ paying > 0)
    /\ UNCHANGED <<screenVars, cartVars, paying, routes, signedIn,
                   orderVars, overlapped>>

(* Pops whatever route is on top, be it the page or a dialog.              *)
pushNamed(r)       == routes' = Append(routes, r) /\ UNCHANGED cartVars
popAndPushNamed(r) == routes' = Append(BelowTop, r) /\ ResumePopped

(* FirebaseAuth has signed out.  The rest of the handler throws if the     *)
(* page is gone.                                                           *)
SignOutDone ==
    /\ signOuts > 0
    /\ signOuts' = signOuts - 1
    /\ signedIn' = FALSE
    /\ IF HomeMounted
       THEN popAndPushNamed("auth")
       ELSE UNCHANGED <<routes, cartVars>>
    /\ UNCHANGED <<screenVars, paying, orderVars, overlapped, crossed>>

-----------------------------------------------------------------------------
Next ==
    \/ \E m \in MenuMap : MenuSnapshot(m)
    \/ MenuError
    \/ \E i \in {0, 1} : SelectTab(i)
    \/ \E k \in Item : Add(k)
    \/ \E k \in Item : Remove(k)
    \/ TapPay
    \/ \E b \in Amount : PayResume(b)
    \/ PayFails
    \/ PopRoute
    \/ TapSignOut
    \/ SignOutDone

Spec == Init /\ [][Next]_vars

-----------------------------------------------------------------------------
(* Properties.                                                             *)

(* Every variable has its type; a cart never holds an item zero times, so  *)
(* the code's test for quantity 0 (menu.dart:117) is never met.            *)
TypeOK ==
    /\ stream \in {"waiting", "active", "error"}
    /\ shown \in MenuMap
    /\ cart \in Cart
    /\ subtotal \in Int
    /\ currIndex \in {0, 1}
    /\ paying \in Nat
    /\ routes \in Seq(Route) /\ routes # << >>
    /\ signOuts \in Nat
    /\ signedIn \in BOOLEAN
    /\ orders \in Seq(Order)
    /\ put \in [Item -> Int]
    /\ ordered \in [Item -> Nat]
    /\ repriced \in BOOLEAN /\ overlapped \in BOOLEAN /\ crossed \in BOOLEAN

(* What a cart costs: the number of its rupees, one for each item, unit of *)
(* the item and rupee of the unit's price.                                 *)
Rupees(c) ==
    UNION {{k} \X ((1..c[k].quantity) \X (1..c[k].price)) : k \in InCart(c)}
Worth(c) == Cardinality(Rupees(c))

(* The running subtotal, kept by additions and subtractions over any       *)
(* sequence of taps, is what the cart costs, unless a price had changed    *)
(* when an item already in the cart was tapped.                            *)
SubtotalIsWorth == ~repriced => subtotal = Worth(cart)

(* An order whose items were never repriced asks for exactly what its      *)
(* items cost, and is not empty: the test for an empty cart looks only at  *)
(* the subtotal (menu.dart:178).                                           *)
OrdersPriceTheirItems ==
    \A i \in 1..Len(orders) :
        ~orders[i].repriced => /\ orders[i].price = Worth(orders[i].items)
                               /\ orders[i].price > 0
                               /\ InCart(orders[i].items) # {}

Confirming == \E i \in 1..Len(routes) : routes[i] = "confirmed"

(* No unit that was put into the cart is lost: while the page is mounted   *)
(* it is in the cart or in an order, although the cart is emptied only     *)
(* when a dialog closes and other handlers may run before that.            *)
NothingLost ==
    HomeMounted =>
        \A k \in Item : put[k] <= ordered[k] +
                            (IF Confirming THEN 0 ELSE Quantity(cart, k))

(* No unit is ordered twice, unless Pay was tapped again while an earlier  *)
(* Pay was still waiting for the balance (which the code allows, and which *)
(* does order the cart twice).                                             *)
NothingTwice == ~overlapped => \A k \in Item : ordered[k] <= put[k]

(* Signing out removes the page, and no order is written for a user who    *)
(* has left, unless a Pay and a Sign Out were waiting at the same time: a  *)
(* dialog opened in between is what popAndPushNamed pops.                  *)
SignOutIsClean ==
    ~crossed => /\ HomeMounted => signedIn
                /\ \A i \in 1..Len(orders) : orders[i].signedIn
=============================================================================
