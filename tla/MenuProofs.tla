----------------------------- MODULE MenuProofs -----------------------------
(***************************************************************************)
(* Theorems about the order screen, for every menu, every set of prices    *)
(* and balances and every bound.                                           *)
(***************************************************************************)
EXTENDS Menu, TLAPS, FiniteSetTheorems, SequenceTheorems

-----------------------------------------------------------------------------
(* What the helpers return.                                                *)

(* A product of naturals is one: total_price is computed by multiplication.*)
LEMMA ProductNat == \A m, n \in Nat : m * n \in Nat
  OBVIOUS

LEMMA EntryType ==
    ASSUME NEW q \in Nat \ {0}, NEW p \in Price, NEW n \in Nat
    PROVE  Entry(q, p, n) \in CartEntry
  <1>1. n * p \in Nat
    BY ProductNat, ConstantsAssumption
  <1> QED
    BY <1>1 DEF Entry, CartEntry

LEMMA TakeOutType ==
    ASSUME NEW q \in Nat \ {0}, NEW p \in Price
    PROVE  TakeOut(q, p) \in CartEntry \cup {Null}
  <1>1. CASE q = 1
    BY <1>1 DEF TakeOut
  <1>2. CASE q # 1
    <2>1. q - 1 \in Nat \ {0} /\ q + 1 \in Nat
      BY <1>2
    <2> QED
      BY <2>1, <1>2, EntryType DEF TakeOut
  <1> QED
    BY <1>1, <1>2

(* How many units of an item a cart holds.                                 *)
LEMMA QuantityType ==
    ASSUME NEW c \in Cart, NEW k \in Item
    PROVE  Quantity(c, k) \in Nat
  BY DEF Cart, Quantity, CartEntry

LEMMA ShownPrice ==
    ASSUME TypeOK, NEW k \in Item
    PROVE  shown[k].Price \in Price /\ shown[k].Price \in Int
  <1>1. shown[k] \in [Price : Price, isAvailable : BOOLEAN]
    BY DEF TypeOK, MenuMap
  <1>2. shown[k].Price \in Price
    BY <1>1
  <1>3. \A p \in Price : p \in Int
    BY ConstantsAssumption
  <1> QED
    BY <1>2, <1>3

LEMMA BelowTopType ==
    ASSUME routes \in Seq(Route), routes # << >>
    PROVE  /\ BelowTop \in Seq(Route)
           /\ Len(routes) > 1 => BelowTop # << >>
           /\ Len(BelowTop) = Len(routes) - 1
           /\ \A i \in 1..Len(BelowTop) : BelowTop[i] = routes[i]
  <1> DEFINE n == Len(routes) - 1
  <1>1. n \in Nat
    BY EmptySeq, LenProperties
  <1>2. \A i \in 1..n : routes[i] \in Route
    BY <1>1, ElementOfSeq
  <1>3. /\ SubSeq(routes, 1, n) \in Seq(Route)
        /\ Len(SubSeq(routes, 1, n)) = IF 1 <= n THEN n - 1 + 1 ELSE 0
        /\ \A i \in 1..(n - 1 + 1) :
                SubSeq(routes, 1, n)[i] = routes[1 + i - 1]
    <2> HIDE DEF n
    <2> QED
      BY <1>1, <1>2, SubSeqProperties
  <1>4. BelowTop \in Seq(Route) /\ Len(BelowTop) = n
    <2>1. BelowTop = SubSeq(routes, 1, n)
      BY DEF BelowTop
    <2> HIDE DEF n
    <2> QED
      BY <1>1, <1>3, <2>1
  <1>5. \A i \in 1..n : BelowTop[i] = routes[i]
    BY <1>1, <1>3 DEF BelowTop
  <1>6. n > 0 => BelowTop # << >>
    BY <1>4
  <1> QED
    BY <1>1, <1>4, <1>5, <1>6

-----------------------------------------------------------------------------
(* Every state has its type (TypeOK), whatever snapshots and balances      *)
(* arrive and in whatever order handlers resume; in particular no entry    *)
(* of the cart ever has quantity 0, so the test at menu.dart:117 is dead.  *)
LEMMA TypeInit == Init => TypeOK
  <1> SUFFICES ASSUME Init PROVE TypeOK
    OBVIOUS
  <1>1. /\ signedIn \in BOOLEAN /\ repriced \in BOOLEAN
        /\ overlapped \in BOOLEAN /\ crossed \in BOOLEAN
    BY Zenon DEF Init
  <1>2. cart \in Cart
    BY DEF Init, EmptyCart, Cart
  <1>3. routes \in Seq(Route) /\ routes # << >>
    BY DEF Init, Route
  <1>4. put \in [Item -> Int] /\ ordered \in [Item -> Nat]
    BY DEF Init
  <1> QED
    BY <1>1, <1>2, <1>3, <1>4 DEF Init, TypeOK

LEMMA ClearCartType ==
    ASSUME TypeOK, ResumePopped
    PROVE  cart' \in Cart /\ subtotal' \in Int /\ put' \in [Item -> Int]
           /\ repriced' \in BOOLEAN
  <1>1. CASE Top = "confirmed"
    <2>1. repriced' \in BOOLEAN
      BY <1>1, Zenon DEF ResumePopped, ClearCart
    <2>2. cart' = EmptyCart /\ subtotal' = 0 /\ put' = put
      BY <1>1 DEF ResumePopped, ClearCart
    <2>3. EmptyCart \in Cart
      BY DEF EmptyCart, Cart
    <2> QED
      BY <2>1, <2>2, <2>3 DEF TypeOK
  <1>2. CASE Top # "confirmed"
    BY <1>2 DEF TypeOK, ResumePopped, cartVars
  <1> QED
    BY <1>1, <1>2

LEMMA ShowDialogType ==
    ASSUME TypeOK, NEW d \in Dialog, showDialog(d)
    PROVE  routes' \in Seq(Route) /\ routes' # << >>
  BY DEF TypeOK, showDialog, Route

LEMMA TypeStep == TypeOK /\ [Next]_vars => TypeOK'
  <1> SUFFICES ASSUME TypeOK, [Next]_vars PROVE TypeOK'
    OBVIOUS
  <1> USE DEF screenVars, cartVars, orderVars, authVars
  <1>1. ASSUME NEW m \in MenuMap, MenuSnapshot(m) PROVE TypeOK'
    BY <1>1 DEF TypeOK, MenuSnapshot
  <1>2. CASE MenuError
    BY <1>2 DEF TypeOK, MenuError
  <1>3. ASSUME NEW i \in {0, 1}, SelectTab(i) PROVE TypeOK'
    BY <1>3 DEF TypeOK, SelectTab
  <1>4. ASSUME NEW k \in Item, Add(k) PROVE TypeOK'
    <2>1. shown[k].Price \in Price /\ shown[k].Price \in Int
      BY ShownPrice
    <2>2. Quantity(cart, k) + 1 \in Nat \ {0}
      BY QuantityType DEF TypeOK
    <2>3. cart' \in Cart
      BY <1>4, <2>1, <2>2, EntryType DEF TypeOK, Add, Cart
    <2>4. subtotal' \in Int /\ put' \in [Item -> Int]
      BY <1>4, <2>1 DEF TypeOK, Add
    <2>5. repriced' \in BOOLEAN
      BY <1>4 DEF TypeOK, Add, NotePrice
    <2> QED
      BY <1>4, <2>3, <2>4, <2>5 DEF TypeOK, Add
  <1>5. ASSUME NEW k \in Item, Remove(k) PROVE TypeOK'
    <2>1. shown[k].Price \in Price /\ shown[k].Price \in Int
      BY ShownPrice
    <2>2. cart[k].quantity \in Nat \ {0}
      BY <1>5 DEF TypeOK, Remove, InCart, Cart, CartEntry
    <2>3. cart' \in Cart
      BY <1>5, <2>1, <2>2, TakeOutType DEF TypeOK, Remove, Cart
    <2>4. subtotal' \in Int /\ put' \in [Item -> Int]
      BY <1>5, <2>1 DEF TypeOK, Remove
    <2>5. repriced' \in BOOLEAN
      BY <1>5 DEF TypeOK, Remove, NotePrice
    <2> QED
      BY <1>5, <2>3, <2>4, <2>5 DEF TypeOK, Remove
  <1>6. CASE TapPay
    BY <1>6 DEF TypeOK, TapPay
  <1>7. ASSUME NEW b \in Amount, PayResume(b) PROVE TypeOK'
    <2>1. paying' \in Nat
      BY <1>7 DEF TypeOK, PayResume
    <2>2. routes' \in Seq(Route) /\ routes' # << >>
      BY <1>7, ShowDialogType DEF PayResume, PlaceOrder, Dialog
    <2>3. orders' \in Seq(Order) /\ ordered' \in [Item -> Nat]
      <3>1. CASE PlaceOrder
        <4>1. [items |-> cart, price |-> subtotal, repriced |-> repriced,
               signedIn |-> signedIn] \in Order
          BY DEF TypeOK, Order
        <4>2. orders' \in Seq(Order)
          BY <3>1, <4>1 DEF TypeOK, PlaceOrder
        <4>3. \A k \in Item : ordered[k] + Quantity(cart, k) \in Nat
          BY QuantityType DEF TypeOK
        <4> QED
          BY <3>1, <4>2, <4>3 DEF PlaceOrder
      <3>2. CASE UNCHANGED orderVars
        BY <3>2 DEF TypeOK
      <3> QED
        BY <1>7, <3>1, <3>2 DEF PayResume
    <2> QED
      BY <1>7, <2>1, <2>2, <2>3 DEF TypeOK, PayResume
  <1>8. CASE PayFails
    BY <1>8 DEF TypeOK, PayFails
  <1>9. CASE PopRoute
    <2>1. routes' \in Seq(Route) /\ routes' # << >>
      BY <1>9, BelowTopType DEF TypeOK, PopRoute
    <2>2. ResumePopped
      BY <1>9 DEF PopRoute
    <2> QED
      BY <1>9, <2>1, <2>2, ClearCartType DEF TypeOK, PopRoute
  <1>10. CASE TapSignOut
    BY <1>10 DEF TypeOK, TapSignOut
  <1>11. CASE SignOutDone
    <2>1. Append(BelowTop, "auth") \in Seq(Route)
          /\ Append(BelowTop, "auth") # << >>
      <3>1. BelowTop \in Seq(Route) /\ "auth" \in Route
        BY BelowTopType DEF TypeOK, Route
      <3> QED
        BY <3>1, AppendProperties
    <2>2. signedIn' \in BOOLEAN
      BY <1>11 DEF SignOutDone
    <2>3. signOuts' \in Nat
      BY <1>11 DEF SignOutDone, TypeOK
    <2>4. CASE HomeMounted
      BY <1>11, <2>1, <2>2, <2>3, <2>4, ClearCartType
         DEF TypeOK, SignOutDone, popAndPushNamed
    <2>5. CASE ~HomeMounted
      BY <1>11, <2>2, <2>3, <2>5 DEF TypeOK, SignOutDone
    <2> QED
      BY <2>4, <2>5
  <1>12. CASE UNCHANGED vars
    BY <1>12 DEF TypeOK, vars
  <1> QED
    BY <1>1, <1>2, <1>3, <1>4, <1>5, <1>6, <1>7, <1>8, <1>9, <1>10, <1>11,
       <1>12 DEF Next

(* Every state of every behaviour of the page has its type, so no cart     *)
(* ever holds an entry of quantity 0.                                      *)
THEOREM TypeCorrect == Spec => []TypeOK
  BY TypeInit, TypeStep, PTL DEF Spec

-----------------------------------------------------------------------------
(* What a cart is worth.                                                   *)

Unit(k, u, p) == {k} \X ({u} \X (1..p))

LEMMA RupeesOf ==
    ASSUME NEW c, NEW x
    PROVE  x \in Rupees(c) <=>
               \E j \in InCart(c) : \E u \in 1..c[j].quantity :
                   \E r \in 1..c[j].price : x = <<j, <<u, r>>>>
  BY DEF Rupees

LEMMA UnitProperties ==
    ASSUME NEW k, NEW u \in Nat, NEW p \in Nat
    PROVE  /\ IsFiniteSet(Unit(k, u, p))
           /\ Cardinality(Unit(k, u, p)) = p
           /\ \A x : x \in Unit(k, u, p) <=>
                     \E r \in 1..p : x = <<k, <<u, r>>>>
  <1>1. IsFiniteSet(1..p) /\ Cardinality(1..p) = p
    BY FS_Interval
  <1>2. IsFiniteSet({u}) /\ Cardinality({u}) = 1
    BY FS_Singleton
  <1>3. IsFiniteSet({k}) /\ Cardinality({k}) = 1
    BY FS_Singleton
  <1>4. /\ IsFiniteSet({u} \X (1..p))
        /\ Cardinality({u} \X (1..p)) = p
    <2> DEFINE S == {u}
               T == 1..p
    <2> HIDE DEF S, T
    <2>1. /\ IsFiniteSet(S) /\ Cardinality(S) = 1
          /\ IsFiniteSet(T) /\ Cardinality(T) = p
      BY <1>1, <1>2 DEF S, T
    <2>2. IsFiniteSet(S \X T) /\ Cardinality(S \X T) = 1 * p
      BY <2>1, FS_Product
    <2> QED
      BY <2>2 DEF S, T
  <1>5. IsFiniteSet(Unit(k, u, p)) /\ Cardinality(Unit(k, u, p)) = p
    <2> DEFINE T == {u} \X (1..p)
    <2> HIDE DEF T
    <2>1. IsFiniteSet(T) /\ Cardinality(T) = p
      BY <1>4 DEF T
    <2>2. IsFiniteSet({k} \X T) /\ Cardinality({k} \X T) = 1 * p
      BY <1>3, <2>1, FS_Product
    <2> QED
      BY <2>2 DEF Unit, T
  <1>6. \A x : x \in Unit(k, u, p) <=> \E r \in 1..p : x = <<k, <<u, r>>>>
    BY DEF Unit
  <1> QED
    BY <1>5, <1>6

(* An empty cart is worth nothing.                                         *)
LEMMA EmptyWorth ==
    /\ IsFiniteSet(Rupees(EmptyCart)) /\ Worth(EmptyCart) = 0
    /\ \A c : InCart(c) = {} => Worth(c) = 0
  <1>1. \A c : InCart(c) = {} => Rupees(c) = {}
    BY DEF Rupees
  <1>2. InCart(EmptyCart) = {}
    BY DEF InCart, EmptyCart
  <1> QED
    BY <1>1, <1>2, FS_EmptySet DEF Worth

(* d holds one unit of k more than c, at the price c has for k.  This is   *)
(* the step of Add from c to d, and of Remove from d to c.                 *)
OneMore(c, d, k, p) ==
    /\ d[k] # Null
    /\ d[k].quantity = Quantity(c, k) + 1
    /\ d[k].price = p
    /\ c[k] # Null => c[k].price = p
    /\ \A j \in Item \ {k} : d[j] = c[j]

LEMMA OneMoreWorth ==
    ASSUME NEW c \in Cart, NEW d \in Cart, NEW k \in Item, NEW p \in Nat,
           OneMore(c, d, k, p),
           IsFiniteSet(Rupees(c)) \/ IsFiniteSet(Rupees(d))
    PROVE  /\ IsFiniteSet(Rupees(c)) /\ IsFiniteSet(Rupees(d))
           /\ Worth(d) = Worth(c) + p
  <1> DEFINE q == Quantity(c, k)
             U == Unit(k, q + 1, p)
  <1>1. q \in Nat
    BY QuantityType
  <1>2. /\ IsFiniteSet(U) /\ Cardinality(U) = p
        /\ \A x : x \in U <=> \E r \in 1..p : x = <<k, <<q + 1, r>>>>
    BY <1>1, UnitProperties
  <1>3. \A j \in Item \ {k} : (j \in InCart(d) <=> j \in InCart(c))
                                /\ d[j] = c[j]
    BY DEF OneMore, InCart
  <1>4. k \in InCart(d) /\ d[k].quantity = q + 1 /\ d[k].price = p
    BY DEF OneMore, InCart
  <1>5. k \in InCart(c) => c[k].quantity = q /\ c[k].price = p
    BY DEF OneMore, InCart, Quantity
  <1>6. k \notin InCart(c) => q = 0
    BY DEF InCart, Quantity
  <1>7. InCart(c) \subseteq Item /\ InCart(d) \subseteq Item
    BY DEF InCart
  <1> HIDE DEF q, U
  <1>8. Rupees(d) = Rupees(c) \cup U
    <2>1. ASSUME NEW x \in Rupees(d) PROVE x \in Rupees(c) \cup U
      <3>1. PICK j, u, r : /\ j \in InCart(d) /\ u \in 1..d[j].quantity
                        /\ r \in 1..d[j].price /\ x = <<j, <<u, r>>>>
        BY <2>1, RupeesOf
      <3>2. CASE j # k
        BY <1>3, <1>7, <3>1, <3>2, RupeesOf
      <3>3. CASE j = k /\ u = q + 1
        BY <1>2, <1>4, <3>1, <3>3
      <3>4. CASE j = k /\ u # q + 1
        <4>1. u \in 1..q /\ r \in 1..p
          BY <1>1, <1>4, <3>1, <3>4
        <4>2. k \in InCart(c)
          BY <4>1, <1>6
        <4> QED
          BY <1>5, <3>1, <3>4, <4>1, <4>2, RupeesOf
      <3> QED
        BY <3>2, <3>3, <3>4
    <2>2. ASSUME NEW x \in Rupees(c) PROVE x \in Rupees(d)
      <3>1. PICK j, u, r : /\ j \in InCart(c) /\ u \in 1..c[j].quantity
                        /\ r \in 1..c[j].price /\ x = <<j, <<u, r>>>>
        BY <2>2, RupeesOf
      <3>2. CASE j # k
        BY <1>3, <1>7, <3>1, <3>2, RupeesOf
      <3>3. CASE j = k
        <4>1. u \in 1..(q + 1) /\ r \in 1..p
          BY <1>1, <1>5, <3>1, <3>3
        <4> QED
          BY <1>4, <3>1, <3>3, <4>1, RupeesOf
      <3> QED
        BY <3>2, <3>3
    <2>3. ASSUME NEW x \in U PROVE x \in Rupees(d)
      <3>1. PICK r \in 1..p : x = <<k, <<q + 1, r>>>>
        BY <1>2, <2>3
      <3>2. q + 1 \in 1..(q + 1)
        BY <1>1
      <3> QED
        BY <1>4, <3>1, <3>2, RupeesOf
    <2> QED
      BY <2>1, <2>2, <2>3
  <1>9. Rupees(c) \cap U = {}
    <2> SUFFICES ASSUME NEW x \in Rupees(c), x \in U PROVE FALSE
      OBVIOUS
    <2>1. PICK j, u, r : /\ j \in InCart(c) /\ u \in 1..c[j].quantity
                      /\ r \in 1..c[j].price /\ x = <<j, <<u, r>>>>
      BY RupeesOf
    <2>2. j = k /\ u = q + 1
      BY <1>2, <2>1
    <2> QED
      BY <1>1, <1>5, <2>1, <2>2
  <1>10. IsFiniteSet(Rupees(c)) /\ IsFiniteSet(Rupees(d))
    <2>1. CASE IsFiniteSet(Rupees(c))
      BY <1>2, <1>8, <2>1, FS_Union
    <2>2. CASE IsFiniteSet(Rupees(d))
      BY <1>8, <2>2, FS_Subset
    <2> QED
      BY <2>1, <2>2, <1>2, <1>8, FS_Union
  <1>11. Cardinality(Rupees(c) \cup U)
           = Cardinality(Rupees(c)) + Cardinality(U)
    <2>1. Cardinality(Rupees(c)) \in Nat /\ Cardinality(U) \in Nat
          /\ Cardinality({}) = 0
      BY <1>2, <1>10, FS_CardinalityType, FS_EmptySet
    <2>2. Cardinality(Rupees(c) \cup U) = Cardinality(Rupees(c))
            + Cardinality(U) - Cardinality(Rupees(c) \cap U)
      BY <1>2, <1>10, FS_Union
    <2>3. Cardinality(Rupees(c) \cap U) = 0
      BY <1>9, <2>1
    <2> QED
      BY <2>1, <2>2, <2>3
  <1> QED
    BY <1>2, <1>8, <1>10, <1>11 DEF Worth

(* Changing the entry of one item leaves finitely many rupees.             *)
LEMMA ChangeOneFinite ==
    ASSUME NEW c \in Cart, NEW d \in Cart, NEW k \in Item,
           \A j \in Item \ {k} : d[j] = c[j], IsFiniteSet(Rupees(c))
    PROVE  IsFiniteSet(Rupees(d))
  <1> DEFINE B == {k} \X ((1..d[k].quantity) \X (1..d[k].price))
  <1>1. CASE d[k] = Null
    <2>1. InCart(d) \subseteq Item \ {k}
      BY <1>1 DEF InCart
    <2>2. \A j \in InCart(d) : j \in InCart(c) /\ d[j] = c[j]
      BY <2>1 DEF InCart
    <2>3. Rupees(d) \subseteq Rupees(c)
      BY <2>2, RupeesOf
    <2> QED
      BY <2>3, FS_Subset
  <1>2. CASE d[k] # Null
    <2>1. d[k].quantity \in Nat /\ d[k].price \in Nat
      BY <1>2, ConstantsAssumption DEF Cart, CartEntry
    <2>2. IsFiniteSet(1..d[k].quantity) /\ IsFiniteSet(1..d[k].price)
          /\ IsFiniteSet({k})
      <3>1. \A n \in Nat : IsFiniteSet(1..n)
        BY FS_Interval
      <3> QED
        BY <2>1, <3>1, FS_Singleton
    <2>3. IsFiniteSet((1..d[k].quantity) \X (1..d[k].price))
      BY <2>2, FS_Product
    <2>4. IsFiniteSet(B)
      BY <2>2, <2>3, FS_Product
    <2>5. Rupees(d) \subseteq Rupees(c) \cup B
      <3> SUFFICES ASSUME NEW x \in Rupees(d) PROVE x \in Rupees(c) \cup B
        OBVIOUS
      <3>1. PICK j, u, r : /\ j \in InCart(d) /\ u \in 1..d[j].quantity
                           /\ r \in 1..d[j].price /\ x = <<j, <<u, r>>>>
        BY RupeesOf
      <3>2. CASE j = k
        BY <3>1, <3>2
      <3>3. CASE j # k
        <4>1. j \in InCart(c) /\ d[j] = c[j]
          BY <3>1, <3>3 DEF InCart
        <4> QED
          BY <3>1, <4>1, RupeesOf
      <3> QED
        BY <3>2, <3>3
    <2>6. IsFiniteSet(Rupees(c) \cup B)
      BY <2>4, FS_Union
    <2> QED
      BY <2>5, <2>6, FS_Subset
  <1> QED
    BY <1>1, <1>2

-----------------------------------------------------------------------------
(* The subtotal and the orders.  Besides the two properties themselves     *)
(* only the finiteness of the cart is needed, for Cardinality to count it. *)

MoneyInv ==
    /\ IsFiniteSet(Rupees(cart))
    /\ SubtotalIsWorth
    /\ OrdersPriceTheirItems

LEMMA AddMoney ==
    ASSUME TypeOK, TypeOK', MoneyInv, NEW k \in Item, Add(k)
    PROVE  IsFiniteSet(Rupees(cart'))
           /\ (~repriced' => subtotal' = Worth(cart'))
  <1>1. /\ cart'[k] = Entry(Quantity(cart, k) + 1, shown[k].Price,
                            Quantity(cart, k) + 1)
        /\ \A j \in Item \ {k} : cart'[j] = cart[j]
    BY DEF TypeOK, Add, Cart
  <1>2. cart \in Cart /\ cart' \in Cart
    BY DEF TypeOK
  <1>3. IsFiniteSet(Rupees(cart'))
    BY <1>1, <1>2, ChangeOneFinite DEF MoneyInv
  <1>4. ASSUME ~repriced' PROVE subtotal' = Worth(cart')
    <2>1. cart[k] # Null => cart[k].price = shown[k].Price
      BY <1>4 DEF Add, NotePrice, InCart
    <2>2. ~repriced
      BY <1>4 DEF Add, NotePrice
    <2>3. cart'[k] # Null
      <3>1. Quantity(cart, k) + 1 \in Nat \ {0}
        BY <1>2, QuantityType
      <3>2. cart'[k] \in CartEntry
        BY <1>1, <3>1, EntryType, ShownPrice
      <3> QED
        BY <3>2, ConstantsAssumption
    <2>4. OneMore(cart, cart', k, shown[k].Price)
      BY <1>1, <2>1, <2>3 DEF OneMore, Entry
    <2>5. Worth(cart') = Worth(cart) + shown[k].Price
      BY <1>2, <2>4, OneMoreWorth, ShownPrice, ConstantsAssumption
         DEF MoneyInv
    <2>6. subtotal' = subtotal + shown[k].Price
      BY DEF Add
    <2> QED
      BY <2>2, <2>5, <2>6 DEF MoneyInv, SubtotalIsWorth
  <1> QED
    BY <1>3, <1>4

LEMMA RemoveMoney ==
    ASSUME TypeOK, TypeOK', MoneyInv, NEW k \in Item, Remove(k)
    PROVE  IsFiniteSet(Rupees(cart'))
           /\ (~repriced' => subtotal' = Worth(cart'))
  <1>1. /\ cart'[k] = TakeOut(cart[k].quantity, shown[k].Price)
        /\ \A j \in Item \ {k} : cart'[j] = cart[j]
    BY DEF TypeOK, Remove, Cart
  <1>2. cart \in Cart /\ cart' \in Cart
    BY DEF TypeOK
  <1>3. IsFiniteSet(Rupees(cart'))
    BY <1>1, <1>2, ChangeOneFinite DEF MoneyInv
  <1>4. ASSUME ~repriced' PROVE subtotal' = Worth(cart')
    <2>1. cart[k] # Null
      BY DEF Remove, InCart
    <2>2. cart[k].price = shown[k].Price
      BY <1>4 DEF Remove, NotePrice, InCart
    <2>3. ~repriced
      BY <1>4 DEF Remove, NotePrice
    <2>4. cart[k].quantity \in Nat \ {0}
      BY <1>2, <2>1 DEF Cart, CartEntry
    <2>5. OneMore(cart', cart, k, shown[k].Price)
      <3>1. CASE cart[k].quantity = 1
        BY <1>1, <2>1, <2>2, <3>1 DEF OneMore, TakeOut, Quantity
      <3>2. CASE cart[k].quantity # 1
        <4>1. cart'[k] = Entry(cart[k].quantity - 1, shown[k].Price,
                               cart[k].quantity + 1)
          BY <1>1, <3>2 DEF TakeOut
        <4>2. cart[k].quantity - 1 \in Nat \ {0}
              /\ cart[k].quantity + 1 \in Nat
          BY <2>4, <3>2
        <4>3. cart'[k] # Null
          BY <4>1, <4>2, EntryType, ShownPrice, ConstantsAssumption
        <4>4. Quantity(cart', k) = cart[k].quantity - 1
          BY <4>1, <4>3 DEF Quantity, Entry
        <4>5. cart'[k].price = shown[k].Price
          BY <4>1 DEF Entry
        <4> QED
          BY <1>1, <2>1, <2>2, <2>4, <4>4, <4>5 DEF OneMore
      <3> QED
        BY <3>1, <3>2
    <2>6. Worth(cart) = Worth(cart') + shown[k].Price
      BY <1>2, <2>5, OneMoreWorth, ShownPrice, ConstantsAssumption
         DEF MoneyInv
    <2>7. subtotal' = subtotal - shown[k].Price
      BY DEF Remove
    <2>8. Worth(cart') \in Nat
      BY <1>3, FS_CardinalityType DEF Worth
    <2> QED
      BY <2>3, <2>6, <2>7, <2>8, ShownPrice DEF MoneyInv, SubtotalIsWorth
  <1> QED
    BY <1>3, <1>4

LEMMA ClearCartMoney ==
    ASSUME MoneyInv, ResumePopped
    PROVE  IsFiniteSet(Rupees(cart'))
           /\ (~repriced' => subtotal' = Worth(cart'))
  <1>1. CASE Top = "confirmed"
    <2>1. cart' = EmptyCart /\ subtotal' = 0
      BY <1>1 DEF ResumePopped, ClearCart
    <2> QED
      BY <2>1, EmptyWorth
  <1>2. CASE Top # "confirmed"
    <2>1. UNCHANGED <<cart, subtotal, repriced>>
      BY <1>2 DEF ResumePopped, cartVars
    <2> QED
      BY <2>1 DEF MoneyInv, SubtotalIsWorth
  <1> QED
    BY <1>1, <1>2

(* An order that PlaceOrder appends keeps OrdersPriceTheirItems: its price *)
(* is the subtotal, which is not 0, and a cart that is worth more than 0   *)
(* is not empty.                                                           *)
LEMMA PlaceOrderMoney ==
    ASSUME TypeOK, MoneyInv, PlaceOrder, subtotal # 0
    PROVE  OrdersPriceTheirItems'
  <1> DEFINE o == [items |-> cart, price |-> subtotal, repriced |-> repriced,
                   signedIn |-> signedIn]
  <1>1. ~o.repriced => /\ o.price = Worth(o.items) /\ o.price > 0
                       /\ InCart(o.items) # {}
    <2> SUFFICES ASSUME ~repriced
                 PROVE  subtotal = Worth(cart) /\ subtotal > 0
                        /\ InCart(cart) # {}
      OBVIOUS
    <2>1. subtotal = Worth(cart)
      BY DEF MoneyInv, SubtotalIsWorth
    <2>2. Worth(cart) \in Nat
      BY FS_CardinalityType DEF MoneyInv, Worth
    <2>3. InCart(cart) # {}
      BY <2>1, EmptyWorth
    <2> QED
      BY <2>1, <2>2, <2>3
  <1> HIDE DEF o
  <1>2. orders' = Append(orders, o) /\ orders \in Seq(Order)
    BY DEF PlaceOrder, TypeOK, o
  <1>3. \A i \in 1..Len(orders') :
            (i \in 1..Len(orders) /\ orders'[i] = orders[i])
            \/ orders'[i] = o
    BY <1>2
  <1> QED
    BY <1>1, <1>3 DEF MoneyInv, OrdersPriceTheirItems

LEMMA MoneyInit == Init => MoneyInv
  <1> SUFFICES ASSUME Init PROVE MoneyInv
    OBVIOUS
  <1>1. cart = EmptyCart /\ subtotal = 0 /\ orders = << >>
    BY DEF Init
  <1> QED
    BY <1>1, EmptyWorth
       DEF MoneyInv, SubtotalIsWorth, OrdersPriceTheirItems

LEMMA MoneyStep == TypeOK /\ TypeOK' /\ MoneyInv /\ [Next]_vars => MoneyInv'
  <1> SUFFICES ASSUME TypeOK, TypeOK', MoneyInv, [Next]_vars PROVE MoneyInv'
    OBVIOUS
  <1>1. /\ IsFiniteSet(Rupees(cart'))
        /\ ~repriced' => subtotal' = Worth(cart')
    <2>1. ASSUME NEW k \in Item, Add(k)
          PROVE  /\ IsFiniteSet(Rupees(cart'))
                 /\ ~repriced' => subtotal' = Worth(cart')
      BY <2>1, AddMoney
    <2>2. ASSUME NEW k \in Item, Remove(k)
          PROVE  /\ IsFiniteSet(Rupees(cart'))
                 /\ ~repriced' => subtotal' = Worth(cart')
      BY <2>2, RemoveMoney
    <2>3. CASE ResumePopped
      BY <2>3, ClearCartMoney
    <2>4. CASE UNCHANGED cartVars
      BY <2>4 DEF MoneyInv, SubtotalIsWorth, cartVars
    <2>5. (\E k \in Item : Add(k) \/ Remove(k))
          \/ ResumePopped \/ UNCHANGED cartVars
      BY DEF Next, vars, MenuSnapshot, MenuError, SelectTab, TapPay,
             PayResume, PayFails, PopRoute, TapSignOut, SignOutDone,
             popAndPushNamed
    <2> QED
      BY <2>1, <2>2, <2>3, <2>4, <2>5
  <1>2. OrdersPriceTheirItems'
    <2>1. CASE PlaceOrder /\ subtotal # 0
      BY <2>1, PlaceOrderMoney
    <2>2. CASE UNCHANGED orderVars
      BY <2>2 DEF MoneyInv, OrdersPriceTheirItems, orderVars
    <2>3. (PlaceOrder /\ subtotal # 0) \/ UNCHANGED orderVars
      BY DEF Next, vars, MenuSnapshot, MenuError, SelectTab, Add, Remove,
             TapPay, PayResume, CartIsEmpty, PayFails, PopRoute, TapSignOut,
             SignOutDone
    <2> QED
      BY <2>1, <2>2, <2>3
  <1> QED
    BY <1>1, <1>2 DEF MoneyInv, SubtotalIsWorth

(* However taps, snapshots, dialogs and resumed handlers interleave, the   *)
(* running subtotal is the worth of the cart unless an item in it was      *)
(* tapped at a price that had changed.                                     *)
THEOREM SubtotalCorrect == Spec => []SubtotalIsWorth
  <1>1. MoneyInv => SubtotalIsWorth
    BY DEF MoneyInv
  <1> QED
    BY <1>1, TypeInit, TypeStep, MoneyInit, MoneyStep, PTL DEF Spec

(* Every order ever written, by any of the Pay handlers that may be        *)
(* waiting, asks for exactly the worth of its own items and is not empty,  *)
(* unless its cart was repriced.                                           *)
THEOREM OrdersCorrect == Spec => []OrdersPriceTheirItems
  <1>1. MoneyInv => OrdersPriceTheirItems
    BY DEF MoneyInv
  <1> QED
    BY <1>1, TypeInit, TypeStep, MoneyInit, MoneyStep, PTL DEF Spec

-----------------------------------------------------------------------------
(* What the Navigator's stack looks like: the page can only be at the      *)
(* bottom, and when it is gone the sign-in page is alone, because dialogs  *)
(* are opened from the page only.                                          *)
StackInv ==
    /\ \A i \in 2..Len(routes) : routes[i] # "init"
    /\ ~HomeMounted => routes = <<"auth">>

(* A Pay handler that nobody overlapped has a single confirmation dialog,  *)
(* and no other handler waits while it is open; what is in the cart is     *)
(* still to be ordered, unless the dialog is open or the page is gone.     *)
TwiceInv ==
    ~overlapped =>
        /\ paying <= 1
        /\ paying > 0 => ~Confirming
        /\ \A i, j \in 1..Len(routes) :
               routes[i] = "confirmed" /\ routes[j] = "confirmed" => i = j
        /\ \A k \in Item :
               IF Confirming \/ (~HomeMounted /\ paying = 0)
               THEN ordered[k] <= put[k]
               ELSE ordered[k] + Quantity(cart, k) <= put[k]

(* While a Sign Out that crossed no Pay is waiting, nothing covers the     *)
(* page and nothing can be about to.                                       *)
CleanInv ==
    ~crossed =>
        /\ signOuts > 0 /\ HomeMounted => routes = <<"init">> /\ paying = 0
        /\ paying > 0 => HomeMounted
        /\ HomeMounted => signedIn
        /\ \A i \in 1..Len(orders) : orders[i].signedIn

-----------------------------------------------------------------------------
(* How the stack may move in a step.                                       *)

Opened(d) == HomeMounted /\ routes' = Append(routes, d)
Popped    == Len(routes) > 1 /\ routes' = BelowTop
Replaced  == HomeMounted /\ routes' = Append(BelowTop, "auth")

LEMMA StackMoves ==
    ASSUME TypeOK, [Next]_vars
    PROVE  (\E d \in Dialog : Opened(d)) \/ Popped \/ Replaced
           \/ UNCHANGED routes
  BY DEF Next, vars, MenuSnapshot, MenuError, SelectTab, Add, Remove, TapPay,
         PayResume, PayFails, PopRoute, TapSignOut, SignOutDone, PlaceOrder,
         showDialog, popAndPushNamed, Opened, Popped, Replaced, Dialog

LEMMA RoutesLen == TypeOK => Len(routes) \in Nat /\ Len(routes) >= 1
  BY EmptySeq, LenProperties DEF TypeOK

(* The page in front is the page alone.                                    *)
LEMMA HomeInFront ==
    ASSUME TypeOK, StackInv, Top = "init"
    PROVE  HomeMounted /\ Len(routes) = 1 /\ ~Confirming
  <1>1. Len(routes) \in Nat /\ Len(routes) >= 1
    BY RoutesLen
  <1>2. ~(Len(routes) \in 2..Len(routes))
    BY DEF StackInv, Top
  <1>3. Len(routes) = 1
    <2>1. \A n \in Nat : n >= 1 /\ n \notin 2..n => n = 1
      OBVIOUS
    <2> QED
      BY <1>1, <1>2, <2>1
  <1> QED
    BY <1>3 DEF Top, HomeMounted, Confirming

LEMMA UnmountedNotConfirming ==
    ASSUME StackInv, ~HomeMounted
    PROVE  ~Confirming /\ Len(routes) = 1 /\ Top = "auth"
  <1>1. routes = <<"auth">>
    BY DEF StackInv
  <1>2. Len(routes) = 1 /\ routes[1] = "auth"
    BY <1>1
  <1> QED
    BY <1>2 DEF Confirming, Top

LEMMA OpenedStack ==
    ASSUME TypeOK, StackInv, NEW d \in Dialog, Opened(d)
    PROVE  /\ HomeMounted /\ HomeMounted' /\ StackInv'
           /\ Len(routes') = Len(routes) + 1
           /\ routes'[Len(routes) + 1] = d
           /\ \A i \in 1..Len(routes) : routes'[i] = routes[i]
  <1>1. Len(routes) \in Nat /\ Len(routes) >= 1
    BY RoutesLen
  <1>2. /\ Len(routes') = Len(routes) + 1
        /\ routes'[Len(routes) + 1] = d
        /\ \A i \in 1..Len(routes) : routes'[i] = routes[i]
    BY <1>1, AppendProperties DEF Opened, TypeOK, Dialog, Route
  <1>3. HomeMounted /\ HomeMounted'
    BY <1>1, <1>2 DEF Opened, HomeMounted
  <1>4. d # "init"
    BY DEF Dialog
  <1>5. StackInv'
    BY <1>1, <1>2, <1>3, <1>4 DEF StackInv
  <1> QED
    BY <1>2, <1>3, <1>5

LEMMA PoppedStack ==
    ASSUME TypeOK, StackInv, Popped
    PROVE  /\ HomeMounted /\ HomeMounted' /\ StackInv'
           /\ Len(routes') = Len(routes) - 1
           /\ \A i \in 1..(Len(routes) - 1) : routes'[i] = routes[i]
  <1>1. Len(routes) \in Nat /\ Len(routes) > 1
    BY RoutesLen DEF Popped
  <1>2. /\ Len(routes') = Len(routes) - 1
        /\ \A i \in 1..(Len(routes) - 1) : routes'[i] = routes[i]
    BY <1>1, BelowTopType DEF Popped, TypeOK
  <1>3. HomeMounted
    <2> SUFFICES ASSUME ~HomeMounted PROVE FALSE
      OBVIOUS
    <2>1. Len(routes) = 1
      BY UnmountedNotConfirming
    <2> QED
      BY <1>1, <2>1
  <1>4. HomeMounted'
    BY <1>1, <1>2, <1>3 DEF HomeMounted
  <1>5. StackInv'
    BY <1>1, <1>2, <1>4 DEF StackInv
  <1> QED
    BY <1>2, <1>3, <1>4, <1>5

LEMMA ReplacedStack ==
    ASSUME TypeOK, StackInv, Replaced
    PROVE  /\ HomeMounted /\ StackInv'
           /\ Len(routes') = Len(routes)
           /\ routes'[Len(routes)] = "auth"
           /\ \A i \in 1..(Len(routes) - 1) : routes'[i] = routes[i]
           /\ HomeMounted' <=> Top # "init"
  <1>1. Len(routes) \in Nat /\ Len(routes) >= 1
    BY RoutesLen
  <1>2. /\ BelowTop \in Seq(Route) /\ Len(BelowTop) = Len(routes) - 1
        /\ \A i \in 1..(Len(routes) - 1) : BelowTop[i] = routes[i]
    BY <1>1, BelowTopType DEF TypeOK
  <1>3. "auth" \in Route
    BY DEF Route
  <1>4. /\ Len(Append(BelowTop, "auth")) = Len(BelowTop) + 1
        /\ Append(BelowTop, "auth")[Len(BelowTop) + 1] = "auth"
        /\ \A i \in 1..Len(BelowTop) :
               Append(BelowTop, "auth")[i] = BelowTop[i]
    BY <1>2, <1>3, AppendProperties
  <1>5. /\ Len(routes') = Len(routes)
        /\ routes'[Len(routes)] = "auth"
        /\ \A i \in 1..(Len(routes) - 1) : routes'[i] = routes[i]
    BY <1>1, <1>2, <1>4 DEF Replaced
  <1>6. HomeMounted
    BY DEF Replaced
  <1>7. CASE Len(routes) = 1
    <2>1. Top = "init" /\ ~HomeMounted'
      BY <1>5, <1>6, <1>7 DEF Top, HomeMounted
    <2>2. BelowTop = << >>
      BY <1>2, <1>7, EmptySeq
    <2>3. routes' = <<"auth">>
      BY <2>2 DEF Replaced
    <2>4. StackInv'
      BY <2>1, <2>3, <1>5, <1>7 DEF StackInv
    <2> QED
      BY <1>5, <1>6, <2>1, <2>4
  <1>8. CASE Len(routes) # 1
    <2>1. Top # "init" /\ HomeMounted'
      BY <1>1, <1>5, <1>6, <1>8 DEF Top, HomeMounted, StackInv
    <2>2. StackInv'
      BY <1>1, <1>5, <2>1, <1>8 DEF StackInv
    <2> QED
      BY <1>5, <1>6, <2>1, <2>2
  <1> QED
    BY <1>7, <1>8

LEMMA StackStep ==
    ASSUME TypeOK, StackInv, [Next]_vars
    PROVE  StackInv'
  <1>1. CASE UNCHANGED routes
    BY <1>1 DEF StackInv, HomeMounted
  <1> QED
    BY <1>1, StackMoves, OpenedStack, PoppedStack, ReplacedStack

(* What a step does to Confirming.                                         *)
LEMMA OpenedConfirming ==
    ASSUME TypeOK, StackInv, NEW d \in Dialog, Opened(d)
    PROVE  Confirming' <=> Confirming \/ d = "confirmed"
  BY OpenedStack, RoutesLen DEF Confirming

LEMMA ConfirmingMoves ==
    ASSUME TypeOK, StackInv, Popped \/ Replaced
    PROVE  /\ Confirming' => Confirming
           /\ Top # "confirmed" => (Confirming' <=> Confirming)
  <1>1. Len(routes) \in Nat /\ Len(routes) >= 1
    BY RoutesLen
  <1>2. \A i \in 1..Len(routes') :
            \/ i \in 1..(Len(routes) - 1) /\ routes'[i] = routes[i]
            \/ routes'[i] = "auth"
    BY <1>1, PoppedStack, ReplacedStack
  <1>3. \A i \in 1..(Len(routes) - 1) :
            i \in 1..Len(routes') /\ routes'[i] = routes[i]
    BY <1>1, PoppedStack, ReplacedStack
  <1>4. Confirming' => Confirming
    BY <1>1, <1>2 DEF Confirming
  <1>5. ASSUME Top # "confirmed", Confirming PROVE Confirming'
    <2>1. PICK i \in 1..Len(routes) : routes[i] = "confirmed"
      BY <1>5 DEF Confirming
    <2>2. i \in 1..(Len(routes) - 1)
      BY <1>1, <1>5, <2>1 DEF Top
    <2> QED
      BY <1>3, <2>1, <2>2 DEF Confirming
  <1> QED
    BY <1>4, <1>5

LEMMA TopConfirming ==
    TypeOK /\ Top = "confirmed" => Confirming
  BY RoutesLen DEF Top, Confirming

(* Emptying the cart leaves no unit in it.                                 *)
LEMMA EmptyQuantity ==
    ClearCart => \A k \in Item : Quantity(cart', k) = 0
  BY DEF ClearCart, EmptyCart, Quantity

-----------------------------------------------------------------------------
(* What a tap on + or - does to the units of each item.                    *)

LEMMA AddUnits ==
    ASSUME TypeOK, NEW k \in Item, Add(k)
    PROVE  \A j \in Item :
              put'[j] - Quantity(cart', j) = put[j] - Quantity(cart, j)
  <1>1. cart \in Cart /\ put \in [Item -> Int]
    BY DEF TypeOK
  <1>2. Quantity(cart, k) + 1 \in Nat \ {0}
    BY <1>1, QuantityType
  <1>3. cart'[k] = Entry(Quantity(cart, k) + 1, shown[k].Price,
                         Quantity(cart, k) + 1)
        /\ \A j \in Item \ {k} : cart'[j] = cart[j]
    BY <1>1 DEF Add, Cart
  <1>4. cart'[k] # Null
    BY <1>2, <1>3, EntryType, ShownPrice, ConstantsAssumption
  <1>5. Quantity(cart', k) = Quantity(cart, k) + 1
    BY <1>3, <1>4 DEF Quantity, Entry
  <1>6. \A j \in Item \ {k} : Quantity(cart', j) = Quantity(cart, j)
    BY <1>3 DEF Quantity
  <1>7. put'[k] = put[k] + 1 /\ \A j \in Item \ {k} : put'[j] = put[j]
    BY <1>1 DEF Add
  <1>8. \A j \in Item : put[j] \in Int /\ Quantity(cart, j) \in Int
    BY <1>1, QuantityType
  <1> QED
    BY <1>5, <1>6, <1>7, <1>8

LEMMA RemoveUnits ==
    ASSUME TypeOK, NEW k \in Item, Remove(k)
    PROVE  \A j \in Item :
              put'[j] - Quantity(cart', j) = put[j] - Quantity(cart, j)
  <1>1. cart \in Cart /\ put \in [Item -> Int]
    BY DEF TypeOK
  <1>2. cart'[k] = TakeOut(cart[k].quantity, shown[k].Price)
        /\ \A j \in Item \ {k} : cart'[j] = cart[j]
    BY <1>1 DEF Remove, Cart
  <1>3. cart[k] # Null /\ cart[k].quantity \in Nat \ {0}
    BY <1>1 DEF Remove, InCart, Cart, CartEntry
  <1>4. Quantity(cart, k) = cart[k].quantity
    BY <1>3 DEF Quantity
  <1>5. Quantity(cart', k) = Quantity(cart, k) - 1
    <2>1. CASE cart[k].quantity = 1
      BY <1>2, <1>4, <2>1 DEF TakeOut, Quantity
    <2>2. CASE cart[k].quantity # 1
      <3>1. cart'[k] = Entry(cart[k].quantity - 1, shown[k].Price,
                             cart[k].quantity + 1)
        BY <1>2, <2>2 DEF TakeOut
      <3>2. cart[k].quantity - 1 \in Nat \ {0}
            /\ cart[k].quantity + 1 \in Nat
        BY <1>3, <2>2
      <3>3. cart'[k] # Null
        BY <3>1, <3>2, EntryType, ShownPrice, ConstantsAssumption
      <3> QED
        BY <1>4, <3>1, <3>3 DEF Quantity, Entry
    <2> QED
      BY <2>1, <2>2
  <1>6. \A j \in Item \ {k} : Quantity(cart', j) = Quantity(cart, j)
    BY <1>2 DEF Quantity
  <1>7. put'[k] = put[k] - 1 /\ \A j \in Item \ {k} : put'[j] = put[j]
    BY <1>1 DEF Remove
  <1>8. \A j \in Item : put[j] \in Int /\ Quantity(cart, j) \in Int
    BY <1>1, QuantityType
  <1> QED
    BY <1>5, <1>6, <1>7, <1>8

-----------------------------------------------------------------------------
(* The units put into the cart and the units ordered.                      *)

LEMMA UnitTypes ==
    TypeOK => \A k \in Item : /\ put[k] \in Int
                             /\ ordered[k] \in Nat
                             /\ Quantity(cart, k) \in Nat
  BY QuantityType DEF TypeOK

LEMMA TapUnits ==
    ASSUME TypeOK, StackInv, NEW k \in Item, Add(k) \/ Remove(k)
    PROVE  /\ HomeMounted /\ HomeMounted' /\ ~Confirming /\ ~Confirming'
           /\ UNCHANGED <<paying, routes, signOuts, signedIn, orders, ordered,
                          overlapped, crossed>>
           /\ \A j \in Item :
                 put'[j] - Quantity(cart', j) = put[j] - Quantity(cart, j)
  <1>1. UNCHANGED <<paying, routes, signOuts, signedIn, orders, ordered,
                    overlapped, crossed>>
    BY DEF Add, Remove, authVars, orderVars
  <1>2. HomeMounted /\ ~Confirming
    BY HomeInFront DEF Add, Remove, OrderTabInFront
  <1>3. HomeMounted' /\ ~Confirming'
    BY <1>1, <1>2 DEF HomeMounted, Confirming
  <1> QED
    BY <1>1, <1>2, <1>3, AddUnits, RemoveUnits

(* The two steps that pop a route resume what awaited it.                  *)
RouteLeaves ==
    /\ Popped \/ Replaced
    /\ ResumePopped
    /\ UNCHANGED <<paying, orders, ordered, overlapped, crossed>>

LEMMA PopLeaves ==
    ASSUME PopRoute \/ (SignOutDone /\ HomeMounted)
    PROVE  RouteLeaves
  BY DEF RouteLeaves, PopRoute, SignOutDone, Popped, Replaced,
         popAndPushNamed, orderVars

LEMMA Leaves ==
    ASSUME TypeOK, StackInv, RouteLeaves
    PROVE  /\ HomeMounted
           /\ \/ /\ Top = "confirmed" /\ Confirming /\ ClearCart
                 /\ \A k \in Item : Quantity(cart', k) = 0
              \/ /\ Confirming' <=> Confirming
                 /\ UNCHANGED cartVars
           /\ put' = put
           /\ UNCHANGED <<paying, orders, ordered, overlapped, crossed>>
  <1>1. HomeMounted
    BY PoppedStack DEF RouteLeaves, Replaced
  <1>2. CASE Top = "confirmed"
    BY <1>1, <1>2, TopConfirming, EmptyQuantity
       DEF RouteLeaves, ResumePopped, ClearCart
  <1>3. CASE Top # "confirmed"
    BY <1>1, <1>3, ConfirmingMoves DEF RouteLeaves, ResumePopped, cartVars
  <1> QED
    BY <1>2, <1>3

(* PayResume with its order, or with one of the other two dialogs.         *)
LEMMA PayMoves ==
    ASSUME TypeOK, StackInv, NEW b \in Amount, PayResume(b)
    PROVE  /\ UNCHANGED <<cart, put, overlapped, crossed, signOuts, signedIn>>
           /\ paying > 0 /\ paying' = paying - 1
           /\ PlaceOrder =>
                 /\ HomeMounted => Opened("confirmed") /\ Confirming'
                 /\ ~HomeMounted => UNCHANGED routes
           /\ ~PlaceOrder =>
                 /\ UNCHANGED <<orders, ordered>>
                 /\ Confirming' <=> Confirming
                 /\ \/ UNCHANGED routes
                    \/ \E d \in {"empty", "alert"} : Opened(d)
  <1>1. UNCHANGED <<cart, put, overlapped, crossed, signOuts, signedIn>>
        /\ paying > 0 /\ paying' = paying - 1
    BY DEF PayResume, cartVars, authVars
  <1>2. CASE PlaceOrder
    <2>1. HomeMounted => Opened("confirmed")
      BY <1>2 DEF PlaceOrder, showDialog, Opened
    <2>2. ~HomeMounted => UNCHANGED routes
      BY <1>2 DEF PlaceOrder, showDialog
    <2>3. HomeMounted => Confirming'
      BY <2>1, OpenedConfirming DEF Dialog
    <2> QED
      BY <1>1, <1>2, <2>1, <2>2, <2>3
  <1>3. CASE ~PlaceOrder
    <2>0. UNCHANGED <<orders, ordered>>
      BY <1>3 DEF PayResume, orderVars
    <2>1. PICK d \in {"empty", "alert"} : showDialog(d)
      BY <1>3 DEF PayResume
    <2>2. CASE HomeMounted
      <3>1. Opened(d)
        BY <2>1, <2>2 DEF showDialog, Opened
      <3>2. Confirming' <=> Confirming
        BY <3>1, OpenedConfirming DEF Dialog
      <3> QED
        BY <1>1, <1>3, <2>0, <3>1, <3>2
    <2>3. CASE ~HomeMounted
      <3>1. UNCHANGED routes
        BY <2>1, <2>3 DEF showDialog
      <3>2. Confirming' <=> Confirming
        BY <3>1 DEF Confirming
      <3> QED
        BY <1>1, <1>3, <2>0, <3>1, <3>2
    <2> QED
      BY <2>2, <2>3
  <1> QED
    BY <1>2, <1>3

(* The other steps leave the cart, the stack and the orders alone.         *)
QuietStep ==
    \/ \E m \in MenuMap : MenuSnapshot(m)
    \/ MenuError
    \/ \E i \in {0, 1} : SelectTab(i)
    \/ TapPay
    \/ PayFails
    \/ TapSignOut
    \/ SignOutDone /\ ~HomeMounted
    \/ UNCHANGED vars

LEMMA QuietMoves ==
    ASSUME QuietStep
    PROVE  /\ UNCHANGED <<cart, put, routes, orders, ordered>>
           /\ HomeMounted' <=> HomeMounted
           /\ Confirming' <=> Confirming
  <1>1. UNCHANGED <<cart, put, routes, orders, ordered>>
    BY DEF QuietStep, vars, MenuSnapshot, MenuError, SelectTab, TapPay,
           PayFails, TapSignOut, SignOutDone, cartVars, orderVars
  <1> QED
    BY <1>1 DEF HomeMounted, Confirming

LEMMA StepCases ==
    ASSUME [Next]_vars
    PROVE  \/ \E k \in Item : Add(k) \/ Remove(k)
           \/ \E b \in Amount : PayResume(b)
           \/ PopRoute \/ (SignOutDone /\ HomeMounted)
           \/ QuietStep
  BY DEF Next, QuietStep

LEMMA LostStep ==
    ASSUME TypeOK, TypeOK', StackInv, StackInv', NothingLost, [Next]_vars
    PROVE  NothingLost'
  <1> USE DEF NothingLost
  <1>0. \A k \in Item :
           /\ put[k] \in Int /\ put'[k] \in Int
           /\ ordered[k] \in Nat /\ ordered'[k] \in Nat
           /\ Quantity(cart, k) \in Nat /\ Quantity(cart', k) \in Nat
    BY QuantityType DEF TypeOK
  <1>1. ASSUME NEW k \in Item, Add(k) \/ Remove(k) PROVE NothingLost'
    BY <1>0, <1>1, TapUnits
  <1>2. ASSUME NEW b \in Amount, PayResume(b) PROVE NothingLost'
    <2>1. UNCHANGED <<cart, put>>
      BY <1>2, PayMoves
    <2>2. CASE PlaceOrder /\ HomeMounted
      <3>1. Confirming'
        BY <1>2, <2>2, PayMoves
      <3>2. \A k \in Item : ordered'[k] = ordered[k] + Quantity(cart, k)
        BY <2>2 DEF PlaceOrder
      <3> QED
        BY <1>0, <2>1, <2>2, <3>1, <3>2
    <2>3. CASE ~HomeMounted
      <3>1. UNCHANGED routes
        BY <1>2, <2>3, PayMoves DEF Opened
      <3> QED
        BY <2>3, <3>1 DEF HomeMounted
    <2>4. CASE ~PlaceOrder /\ HomeMounted
      BY <1>2, <2>1, <2>4, PayMoves
    <2> QED
      BY <2>2, <2>3, <2>4
  <1>3. CASE PopRoute \/ (SignOutDone /\ HomeMounted)
    <2>1. RouteLeaves
      BY <1>3, PopLeaves
    <2>2. CASE /\ Confirming
               /\ \A k \in Item : Quantity(cart', k) = 0
      BY <1>0, <2>1, <2>2, Leaves
    <2>3. CASE (Confirming' <=> Confirming) /\ UNCHANGED cartVars
      BY <2>1, <2>3, Leaves DEF cartVars
    <2> QED
      BY <2>1, <2>2, <2>3, Leaves
  <1>4. CASE QuietStep
    BY <1>4, QuietMoves
  <1> QED
    BY <1>1, <1>2, <1>3, <1>4, StepCases

(* No unit is lost: while the page is mounted, whatever was put into the   *)
(* cart is still there or has been ordered, although the cart is emptied   *)
(* by whichever step pops a confirmation.                                  *)
THEOREM LostNever == Spec => []NothingLost
  <1>1. Init => StackInv /\ NothingLost
    BY DEF Init, StackInv, HomeMounted, NothingLost, Confirming, EmptyCart,
           Quantity
  <1> QED
    BY <1>1, TypeInit, TypeStep, StackStep, LostStep, PTL DEF Spec

LEMMA TwiceStep ==
    ASSUME TypeOK, TypeOK', StackInv, StackInv', TwiceInv, [Next]_vars
    PROVE  TwiceInv'
  <1> SUFFICES ASSUME ~overlapped'
               PROVE  TwiceInv'
    BY DEF TwiceInv
  <1>0. /\ \A k \in Item :
              /\ put[k] \in Int /\ put'[k] \in Int
              /\ ordered[k] \in Nat /\ ordered'[k] \in Nat
              /\ Quantity(cart, k) \in Nat /\ Quantity(cart', k) \in Nat
        /\ paying \in Nat /\ paying' \in Nat
    BY QuantityType DEF TypeOK
  <1>1. ASSUME NEW k \in Item, Add(k) \/ Remove(k) PROVE TwiceInv'
    <2>1. /\ ~Confirming /\ ~Confirming' /\ HomeMounted /\ HomeMounted'
          /\ UNCHANGED <<paying, routes, ordered, overlapped>>
          /\ \A j \in Item :
                put'[j] - Quantity(cart', j) = put[j] - Quantity(cart, j)
      BY <1>1, TapUnits
    <2>2. \A j \in Item : ordered[j] + Quantity(cart, j) <= put[j]
      BY <2>1 DEF TwiceInv
    <2>3. \A j \in Item : ordered'[j] + Quantity(cart', j) <= put'[j]
      BY <1>0, <2>1, <2>2
    <2> QED
      BY <2>1, <2>3 DEF TwiceInv
  <1>2. ASSUME NEW b \in Amount, PayResume(b) PROVE TwiceInv'
    <2>1. /\ UNCHANGED <<cart, put, overlapped>>
          /\ paying = 1 /\ paying' = 0 /\ ~Confirming
      <3>1. UNCHANGED <<cart, put, overlapped>> /\ ~overlapped
        BY <1>2, PayMoves
      <3>2. paying > 0 /\ paying' = paying - 1
        BY <1>0, <1>2, PayMoves
      <3>3. paying <= 1 /\ (paying > 0 => ~Confirming)
        BY <3>1 DEF TwiceInv
      <3> QED
        BY <1>0, <3>1, <3>2, <3>3
    <2>2. \A k \in Item : ordered[k] + Quantity(cart, k) <= put[k]
      BY <2>1 DEF TwiceInv
    <2>3. \A k \in Item :
             ordered'[k] <= ordered[k] + Quantity(cart, k)
      <3>1. CASE PlaceOrder
        BY <1>0, <3>1 DEF PlaceOrder
      <3>2. CASE ~PlaceOrder
        BY <1>0, <1>2, <3>2, PayMoves
      <3> QED
        BY <3>1, <3>2
    <2>4. \A k \in Item : ordered'[k] <= put'[k]
      BY <1>0, <2>1, <2>2, <2>3
    <2>5. ~PlaceOrder => \A k \in Item :
                ordered'[k] + Quantity(cart', k) <= put'[k]
      BY <1>2, <2>1, <2>2, PayMoves
    <2>6. PlaceOrder => Confirming' \/ ~HomeMounted'
      <3>1. PlaceOrder /\ ~HomeMounted => ~HomeMounted'
        BY <1>2, PayMoves DEF HomeMounted
      <3> QED
        BY <1>2, <3>1, PayMoves
    <2>7. \A i, j \in 1..Len(routes') :
             routes'[i] = "confirmed" /\ routes'[j] = "confirmed" => i = j
      <3>1. CASE UNCHANGED routes
        BY <2>1, <3>1 DEF Confirming
      <3>2. ASSUME NEW d \in Dialog, Opened(d)
            PROVE  \A i, j \in 1..Len(routes') :
                      routes'[i] = "confirmed" /\ routes'[j] = "confirmed"
                        => i = j
        BY <2>1, <3>2, OpenedStack, RoutesLen DEF Confirming
      <3> QED
        BY <1>2, <3>1, <3>2, PayMoves DEF Dialog
    <2> QED
      BY <2>1, <2>4, <2>5, <2>6, <2>7 DEF TwiceInv
  <1>3. CASE PopRoute \/ (SignOutDone /\ HomeMounted)
    <2>1. RouteLeaves
      BY <1>3, PopLeaves
    <2>2. /\ HomeMounted /\ put' = put
          /\ UNCHANGED <<paying, ordered, overlapped>>
      BY <2>1, Leaves
    <2>3. \A i, j \in 1..Len(routes') :
             routes'[i] = "confirmed" /\ routes'[j] = "confirmed" => i = j
      <3>1. \A i \in 1..Len(routes') : routes'[i] = "confirmed" =>
                i \in 1..Len(routes) /\ routes[i] = "confirmed"
        BY <2>1, RoutesLen, PoppedStack, ReplacedStack DEF RouteLeaves
      <3> QED
        BY <2>2, <3>1 DEF TwiceInv
    <2>4. Confirming' => Confirming
      BY <2>1, ConfirmingMoves DEF RouteLeaves
    <2>5. CASE Confirming /\ \A k \in Item : Quantity(cart', k) = 0
      BY <1>0, <2>2, <2>3, <2>5 DEF TwiceInv
    <2>6. CASE (Confirming' <=> Confirming) /\ UNCHANGED cartVars
      <3>1. UNCHANGED cart
        BY <2>6 DEF cartVars
      <3> QED
        BY <1>0, <2>2, <2>3, <2>6, <3>1 DEF TwiceInv
    <2> QED
      BY <2>1, <2>5, <2>6, Leaves
  <1>4. CASE TapPay
    <2>1. HomeMounted /\ ~Confirming
      BY <1>4, HomeInFront DEF TapPay, OrderTabInFront
    <2>2. UNCHANGED <<cart, put, routes, orders, ordered>>
          /\ (HomeMounted' <=> HomeMounted) /\ (Confirming' <=> Confirming)
      BY <1>4, QuietMoves DEF QuietStep
    <2>3. paying = 0 /\ paying' = 1 /\ ~overlapped
      <3>1. ~overlapped /\ ~(paying > 0)
        BY <1>4, Zenon DEF TapPay
      <3> QED
        BY <1>0, <1>4, <3>1 DEF TapPay
    <2> QED
      BY <2>1, <2>2, <2>3 DEF TwiceInv
  <1>5. CASE QuietStep /\ ~TapPay
    <2>1. UNCHANGED <<cart, put, routes, orders, ordered>>
          /\ (HomeMounted' <=> HomeMounted) /\ (Confirming' <=> Confirming)
      BY <1>5, QuietMoves
    <2>2. overlapped' = overlapped /\ (paying' = paying \/ PayFails)
      BY <1>5 DEF QuietStep, MenuSnapshot, MenuError, SelectTab, PayFails,
                  TapSignOut, SignOutDone, vars
    <2>3. paying' <= paying
      BY <1>0, <2>2 DEF PayFails
    <2> QED
      BY <1>0, <2>1, <2>2, <2>3 DEF TwiceInv
  <1> QED
    BY <1>1, <1>2, <1>3, <1>4, <1>5, StepCases

(* A unit that was put into the cart once is ordered at most once, for any *)
(* number of Pay taps, unless two Pay handlers waited at the same time.    *)
THEOREM TwiceNever == Spec => []NothingTwice
  <1>1. Init => StackInv /\ TwiceInv
    BY DEF Init, StackInv, HomeMounted, TwiceInv, Confirming, EmptyCart,
           Quantity
  <1>2. TypeOK /\ TwiceInv => NothingTwice
    <2> SUFFICES ASSUME TypeOK, TwiceInv, ~overlapped, NEW k \in Item
                 PROVE  ordered[k] <= put[k]
      BY DEF NothingTwice
    <2> QED
      BY UnitTypes DEF TwiceInv
  <1> QED
    BY <1>1, <1>2, TypeInit, TypeStep, StackStep, TwiceStep, PTL DEF Spec

LEMMA CleanStep ==
    ASSUME TypeOK, TypeOK', StackInv, StackInv', CleanInv, [Next]_vars
    PROVE  CleanInv'
  <1> SUFFICES ASSUME ~crossed'
               PROVE  CleanInv'
    BY DEF CleanInv
  <1>0. /\ paying \in Nat /\ paying' \in Nat
        /\ signOuts \in Nat /\ signOuts' \in Nat
    BY DEF TypeOK
  <1>1. ASSUME NEW k \in Item, Add(k) \/ Remove(k) PROVE CleanInv'
    BY <1>1, TapUnits DEF CleanInv
  <1>2. ASSUME NEW b \in Amount, PayResume(b) PROVE CleanInv'
    <2>1. /\ UNCHANGED <<crossed, signOuts, signedIn>>
          /\ paying > 0 /\ paying' = paying - 1
      BY <1>2, PayMoves
    <2>2. HomeMounted /\ signedIn /\ signOuts = 0
      BY <1>0, <2>1 DEF CleanInv
    <2>3. HomeMounted'
      <3>1. CASE UNCHANGED routes
        BY <2>2, <3>1 DEF HomeMounted
      <3>2. ASSUME NEW d \in Dialog, Opened(d) PROVE HomeMounted'
        BY <3>2, OpenedStack
      <3> QED
        BY <1>2, <2>2, <3>1, <3>2, PayMoves DEF Dialog
    <2>4. \A i \in 1..Len(orders') : orders'[i].signedIn
      <3>1. CASE PlaceOrder
        <4> DEFINE o == [items |-> cart, price |-> subtotal,
                         repriced |-> repriced, signedIn |-> signedIn]
        <4>1. o.signedIn
          BY <2>2
        <4> HIDE DEF o
        <4>2. orders' = Append(orders, o) /\ orders \in Seq(Order)
          BY <3>1 DEF PlaceOrder, TypeOK, o
        <4>3. \A i \in 1..Len(orders') :
                (i \in 1..Len(orders) /\ orders'[i] = orders[i])
                \/ orders'[i] = o
          BY <4>2
        <4>4. \A i \in 1..Len(orders) : orders[i].signedIn
          BY <2>1 DEF CleanInv
        <4> QED
          BY <4>1, <4>3, <4>4
      <3>2. CASE ~PlaceOrder
        BY <1>2, <2>1, <3>2, PayMoves DEF CleanInv
      <3> QED
        BY <3>1, <3>2
    <2> QED
      BY <2>1, <2>2, <2>3, <2>4 DEF CleanInv
  <1>3. CASE PopRoute
    <2>1. RouteLeaves
      BY <1>3, PopLeaves
    <2>2. Popped
      BY <1>3 DEF PopRoute, Popped
    <2>3. HomeMounted /\ HomeMounted' /\ Len(routes) > 1
      BY <2>2, PoppedStack DEF Popped
    <2>4. UNCHANGED <<paying, orders, crossed, signOuts, signedIn>>
      BY <1>3, <2>1 DEF RouteLeaves, PopRoute, authVars
    <2>5. signOuts = 0
      <3>1. routes # <<"init">>
        <4>1. Len(<<"init">>) = 1
          OBVIOUS
        <4> SUFFICES ASSUME routes = <<"init">> PROVE FALSE
          OBVIOUS
        <4> QED
          BY <2>3, <4>1
      <3> QED
        BY <1>0, <2>3, <2>4, <3>1 DEF CleanInv
    <2> QED
      BY <2>3, <2>4, <2>5 DEF CleanInv
  <1>4. CASE SignOutDone /\ HomeMounted
    <2>1. RouteLeaves
      BY <1>4, PopLeaves
    <2>2. UNCHANGED <<paying, orders, crossed>> /\ signOuts > 0
      BY <1>4, <2>1 DEF RouteLeaves, SignOutDone
    <2>3. routes = <<"init">> /\ paying = 0
      BY <1>4, <2>2 DEF CleanInv
    <2>4. ~HomeMounted'
      <3>1. Replaced
        BY <1>4 DEF SignOutDone, Replaced, popAndPushNamed
      <3>2. Top = "init"
        BY <2>3 DEF Top
      <3> QED
        BY <3>1, <3>2, ReplacedStack
    <2> QED
      BY <2>2, <2>3, <2>4 DEF CleanInv
  <1>5. CASE QuietStep
    <2>1. UNCHANGED <<routes, orders>> /\ (HomeMounted' <=> HomeMounted)
      BY <1>5, QuietMoves
    <2>2. CASE TapPay
      <3>1. ~crossed /\ ~(signOuts > 0)
        BY <2>2, Zenon DEF TapPay
      <3>2. HomeMounted
        BY <2>2, HomeInFront DEF TapPay, OrderTabInFront
      <3>3. UNCHANGED <<signOuts, signedIn>>
        BY <2>2 DEF TapPay, authVars
      <3> QED
        BY <2>1, <3>1, <3>2, <3>3 DEF CleanInv
    <2>3. CASE TapSignOut
      <3>1. ~crossed /\ ~(paying > 0)
        BY <2>3, Zenon DEF TapSignOut
      <3>2. HomeMounted /\ Len(routes) = 1
        BY <2>3, HomeInFront DEF TapSignOut
      <3>3. routes = <<"init">>
        BY <3>2 DEF HomeMounted, TypeOK
      <3>4. UNCHANGED <<paying, signedIn>>
        BY <2>3 DEF TapSignOut
      <3> QED
        BY <1>0, <2>1, <3>1, <3>2, <3>3, <3>4 DEF CleanInv
    <2>4. CASE SignOutDone /\ ~HomeMounted
      <3>1. UNCHANGED <<paying, crossed>> /\ signOuts' = signOuts - 1
        BY <2>4 DEF SignOutDone
      <3> QED
        BY <2>1, <2>4, <3>1 DEF CleanInv
    <2>5. CASE PayFails
      <3>1. UNCHANGED <<signOuts, signedIn, crossed>>
            /\ paying > 0 /\ paying' = paying - 1
        BY <2>5 DEF PayFails, authVars
      <3> QED
        BY <1>0, <2>1, <3>1 DEF CleanInv
    <2>6. CASE UNCHANGED <<paying, signOuts, signedIn, crossed>>
      BY <2>1, <2>6 DEF CleanInv
    <2> QED
      BY <1>5, <2>2, <2>3, <2>4, <2>5, <2>6
         DEF QuietStep, MenuSnapshot, MenuError, SelectTab, vars, authVars
  <1> QED
    BY <1>1, <1>2, <1>3, <1>4, <1>5, StepCases

(* A Sign Out that no Pay crosses ends with the page gone, and no order is *)
(* ever written for a user who has left.                                   *)
THEOREM SignOutCorrect == Spec => []SignOutIsClean
  <1>1. Init => StackInv /\ CleanInv
    BY DEF Init, StackInv, HomeMounted, CleanInv
  <1>2. CleanInv => SignOutIsClean
    BY DEF CleanInv, SignOutIsClean
  <1> QED
    BY <1>1, <1>2, TypeInit, TypeStep, StackStep, CleanStep, PTL DEF Spec
=============================================================================
