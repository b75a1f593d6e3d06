------------------------------ MODULE Session ------------------------------
(***************************************************************************)
(* One account (a phone number) and the phones that use it: launching the  *)
(* app and finding the home page (lib/main.dart), signing in and creating  *)
(* the account's document (lib/screens/authenticate.dart), signing out     *)
(* (lib/screens/user_homepage.dart and admin_homepage.dart).               *)
(*                                                                         *)
(* A handler gives way at every await and is split there.  The sign-in     *)
(* handler is started by the Confirm button and by Firebase when it reads  *)
(* the SMS itself, so two runs of it may be under way on one phone, and a  *)
(* run outlives the page that started it.  Phones may be killed at any     *)
(* time: FirebaseAuth keeps its user and Firestore its unsent writes, the  *)
(* handlers are gone.  Opening /auth without a user happens in the frame   *)
(* that opened /init and takes no step of its own.  Sign Out is one step:  *)
(* what may come between its two halves is the subject of Menu.            *)
(*                                                                         *)
(* A definition used nowhere that stands right before another one is a     *)
(* mutation of it (README.md, Mutations).                                  *)
(***************************************************************************)
EXTENDS Integers, FiniteSets

CONSTANTS Phone,       \* the phones of the account's owner
          Run,         \* bound: runs of the sign-in handler, per phone
          NoDoc,       \* what a document reference to nothing reads as
          MaxBalance   \* bound: recharges between two resets

Account == [isAdmin : BOOLEAN, Balance : 0..MaxBalance]

ASSUME SessionAssumption ==
    /\ NoDoc \notin Account
    /\ MaxBalance \in Nat
    /\ IsFiniteSet(Run)

VARIABLES
    doc,          \* Users/<phoneNumber> on the server
    page,         \* what the phone shows: no app, /auth, or a state of /init
    admin,        \* the home page shown is AdminHomePage
    user,         \* FirebaseAuth has a current user
    curr_state,   \* curr_state of the sign-in page
    showLoading,  \* showLoading of the sign-in page
    verify,       \* the verification of the number that is under way
    run,          \* the runs of signInWithPhoneAuthCredential
    leftover,     \* unsent set() calls of runs that a kill has ended
    \* History, read by no action:
    broken,       \* the causes for a phone to be left without what it needs
    raced         \* two runs held the answer that there is no document, or
                  \* one set() is carried out twice

uiVars      == <<page, admin, curr_state, showLoading, verify>>
vars == <<doc, uiVars, user, run, leftover, broken, raced>>

FreshWithoutBalance == [isAdmin |-> FALSE]
Fresh == [isAdmin |-> FALSE, Balance |-> 0]

(* A run waits for FirebaseAuth, for the document, for its turn after the  *)
(* document has arrived, or for its set(); ours says that the page it was  *)
(* started from is still there to be replaced.                             *)
Cause == {"killed",    \* between signing in and set()
          "unread",    \* a document could not be read
          "refused"}   \* Firestore refused a set()
Idle == [at |-> "idle", exists |-> FALSE, ours |-> FALSE]
RunState == [at : {"idle", "credential", "get", "answered", "set"},
             exists : BOOLEAN, ours : BOOLEAN]

At(p, r, s)  == run[p][r].at = s
Pending(p)   == leftover[p] > 0 \/ \E r \in Run : At(p, r, "set")
\* What the phone reads: the server's document under its own unsent writes.
LocalDoc(p)  == IF Pending(p) THEN Fresh ELSE doc
Held(p)      == {r \in Run : At(p, r, "answered") /\ ~run[p][r].exists}

Init ==
    /\ doc = NoDoc
    /\ page = [p \in Phone |-> "off"]
    /\ admin = [p \in Phone |-> FALSE]
    /\ user = [p \in Phone |-> FALSE]
    /\ curr_state = [p \in Phone |-> "MOBILE_NO_STATE"]
    /\ showLoading = [p \in Phone |-> FALSE]
    /\ verify = [p \in Phone |-> "none"]
    /\ run = [p \in Phone |-> [r \in Run |-> Idle]]
    /\ leftover = [p \in Phone |-> 0]
    /\ broken = [p \in Phone |-> {}]
    /\ raced = FALSE

-----------------------------------------------------------------------------
(* Pages.                                                                  *)

(* The runs of a phone whose sign-in page goes away.                       *)
Disowned(rs) == [r \in Run |-> [rs[r] EXCEPT !.ours = FALSE]]

(* A new sign-in page; what the old one was waiting for no longer counts.  *)
OpenAuth(p) ==
    /\ page' = [page EXCEPT ![p] = "auth"]
    /\ curr_state' = [curr_state EXCEPT ![p] = "MOBILE_NO_STATE"]
    /\ showLoading' = [showLoading EXCEPT ![p] = FALSE]
    /\ verify' = [verify EXCEPT ![p] = "none"]
    /\ UNCHANGED admin

(* /init with a user asks for the account's document.                      *)
OpenInit(p) ==
    /\ page' = [page EXCEPT ![p] = "asking"]
    /\ verify' = [verify EXCEPT ![p] = "none"]
    /\ UNCHANGED <<admin, curr_state, showLoading>>

Launch(p) ==
    /\ page[p] = "off"
    /\ IF user[p] THEN OpenInit(p) ELSE OpenAuth(p)
    /\ UNCHANGED <<doc, user, run, leftover, broken, raced>>

(* The document has arrived at /init.  Without one the cast of data() to a *)
(* Map throws in setState, isLoading stays true and the page shows its     *)
(* spinner for good; it has no button.                                     *)
InitAnsweredAnyway(p) ==
    /\ page[p] = "asking"
    /\ page' = [page EXCEPT ![p] = "home"]
    /\ admin' = [admin EXCEPT ![p] = FALSE]
    /\ UNCHANGED <<doc, curr_state, showLoading, verify, user, run, leftover,
                   broken, raced>>
InitAnswered(p) ==
    /\ page[p] = "asking"
    /\ IF user[p] /\ LocalDoc(p) # NoDoc
       THEN /\ page' = [page EXCEPT ![p] = "home"]
            /\ admin' = [admin EXCEPT ![p] = LocalDoc(p).isAdmin]
       ELSE /\ page' = [page EXCEPT ![p] = "stuck"]
            /\ UNCHANGED admin
    /\ UNCHANGED <<doc, curr_state, showLoading, verify, user, run, leftover,
                   broken, raced>>

(* Sign Out on either home page.                                           *)
SignOut(p) ==
    /\ page[p] = "home"
    /\ user' = [user EXCEPT ![p] = FALSE]
    /\ OpenAuth(p)
    /\ UNCHANGED <<doc, run, leftover, broken, raced>>

-----------------------------------------------------------------------------
(* The sign-in page.  Its buttons are there when it is not loading.        *)

TapVerify(p) ==
    /\ page[p] = "auth" /\ ~showLoading[p]
    /\ curr_state[p] = "MOBILE_NO_STATE"
    /\ verify[p] = "none"
    /\ showLoading' = [showLoading EXCEPT ![p] = TRUE]
    /\ verify' = [verify EXCEPT ![p] = "requested"]
    /\ UNCHANGED <<doc, page, admin, curr_state, user, run, leftover,
                   broken, raced>>

CodeSent(p) ==
    /\ verify[p] = "requested"
    /\ verify' = [verify EXCEPT ![p] = "sent"]
    /\ showLoading' = [showLoading EXCEPT ![p] = FALSE]
    /\ curr_state' = [curr_state EXCEPT ![p] = "OTP_STATE"]
    /\ UNCHANGED <<doc, page, admin, user, run, leftover, broken, raced>>

VerificationFailedSilently(p) ==
    /\ verify[p] = "requested"
    /\ verify' = [verify EXCEPT ![p] = "none"]
    /\ UNCHANGED <<doc, page, admin, curr_state, showLoading, user, run,
                   leftover, broken, raced>>
VerificationFailed(p) ==
    /\ verify[p] = "requested"
    /\ verify' = [verify EXCEPT ![p] = "none"]
    /\ showLoading' = [showLoading EXCEPT ![p] = FALSE]
    /\ UNCHANGED <<doc, page, admin, curr_state, user, run, leftover,
                   broken, raced>>

(* The first half of signInWithPhoneAuthCredential.                        *)
StartRun(p, r) ==
    /\ At(p, r, "idle")
    /\ run' = [run EXCEPT ![p][r] =
                  [at |-> "credential", exists |-> FALSE, ours |-> TRUE]]
    /\ showLoading' = [showLoading EXCEPT ![p] = TRUE]

(* Firebase has verified the number itself, before or after the code was   *)
(* sent: a run starts while another may be waiting.                        *)
VerificationCompleted(p, r) ==
    /\ verify[p] \in {"requested", "sent"}
    /\ verify' = [verify EXCEPT ![p] = "none"]
    /\ StartRun(p, r)
    /\ UNCHANGED <<doc, page, admin, curr_state, user, leftover, broken,
                   raced>>

TapConfirm(p, r) ==
    /\ page[p] = "auth" /\ ~showLoading[p] /\ curr_state[p] = "OTP_STATE"
    /\ StartRun(p, r)
    /\ UNCHANGED <<doc, page, admin, curr_state, verify, user, leftover,
                   broken, raced>>

-----------------------------------------------------------------------------
(* A run of signInWithPhoneAuthCredential.                                 *)

(* A sign-in that succeeds has a user: the test for none never fails.      *)
SignInDone(p, r) ==
    /\ At(p, r, "credential")
    /\ user' = [user EXCEPT ![p] = TRUE]
    /\ run' = [run EXCEPT ![p][r].at = "get"]
    /\ UNCHANGED <<doc, uiVars, leftover, broken, raced>>

(* A FirebaseAuthException: the only kind that is caught.                  *)
ShowForm(p, r) ==
    showLoading' = IF run[p][r].ours THEN [showLoading EXCEPT ![p] = FALSE]
                                     ELSE showLoading
SignInRefusedSilently(p, r) ==
    /\ At(p, r, "credential")
    /\ run' = [run EXCEPT ![p][r] = Idle]
    /\ UNCHANGED <<doc, uiVars, user, leftover, broken, raced>>
SignInRefused(p, r) ==
    /\ At(p, r, "credential")
    /\ run' = [run EXCEPT ![p][r] = Idle]
    /\ ShowForm(p, r)
    /\ UNCHANGED <<doc, page, admin, curr_state, verify, user, leftover,
                   broken, raced>>

DocAnswered(p, r) ==
    /\ At(p, r, "get")
    /\ run' = [run EXCEPT ![p][r].at = "answered",
                          ![p][r].exists = LocalDoc(p) # NoDoc]
    /\ raced' = (raced \/ (/\ LocalDoc(p) = NoDoc
                           /\ \E q \in Phone : Held(q) # {} \/ Pending(q)))
    /\ UNCHANGED <<doc, uiVars, user, leftover, broken>>

(* The end of a run: /auth is replaced by /init, which throws when the     *)
(* page of the run is gone.                                                *)
Finish(p, r) ==
    IF run[p][r].ours
    THEN /\ run' = [run EXCEPT ![p] = [Disowned(@) EXCEPT ![r] = Idle]]
         /\ OpenInit(p)
    ELSE /\ run' = [run EXCEPT ![p][r] = Idle]
         /\ UNCHANGED uiVars

(* The document has been awaited: it is created if there was none.         *)
SignInResumesUntested(p, r) ==
    /\ At(p, r, "answered")
    /\ run' = [run EXCEPT ![p][r].at = "set"]
    /\ UNCHANGED <<doc, uiVars, user, leftover, broken, raced>>
SignInResumesInverted(p, r) ==
    /\ At(p, r, "answered")
    /\ IF ~run[p][r].exists
       THEN Finish(p, r)
       ELSE run' = [run EXCEPT ![p][r].at = "set"] /\ UNCHANGED uiVars
    /\ UNCHANGED <<doc, user, leftover, broken, raced>>
SignInResumes(p, r) ==
    /\ At(p, r, "answered")
    /\ IF run[p][r].exists
       THEN Finish(p, r)
       ELSE run' = [run EXCEPT ![p][r].at = "set"] /\ UNCHANGED uiVars
    /\ UNCHANGED <<doc, user, leftover, broken, raced>>

(* Firestore sends the writes of the user who is signed in; set() replaces *)
(* whatever is there.                                                      *)
SetCommitted(p, r) ==
    /\ At(p, r, "set") /\ user[p]
    /\ doc' = Fresh
    /\ Finish(p, r)
    /\ UNCHANGED <<user, leftover, broken, raced>>

LeftoverCommitted(p) ==
    /\ leftover[p] > 0 /\ page[p] # "off" /\ user[p]
    /\ doc' = Fresh
    /\ leftover' = [leftover EXCEPT ![p] = @ - 1]
    /\ UNCHANGED <<uiVars, user, run, broken, raced>>

(* The server carries the set() out and its answer is lost: it is sent     *)
(* again when the connection is back (Outbox, WritePipeline).              *)
AnswerLost(p) ==
    /\ Pending(p) /\ page[p] # "off" /\ user[p]
    /\ doc' = Fresh
    /\ raced' = TRUE
    /\ UNCHANGED <<uiVars, user, run, leftover, broken>>

-----------------------------------------------------------------------------
(* Faults and the outside.                                                 *)

(* A Firestore exception ends a run or /init's handler: nothing catches    *)
(* it, and the spinner stays.                                              *)
Breaks(p, c) == broken' = [broken EXCEPT ![p] = @ \cup {c}]

RunFails(p, r) ==
    /\ At(p, r, "get") \/ At(p, r, "set")
    /\ Breaks(p, IF At(p, r, "get") THEN "unread" ELSE "refused")
    /\ run' = [run EXCEPT ![p][r] = Idle]
    /\ UNCHANGED <<doc, uiVars, user, leftover, raced>>

LeftoverFails(p) ==
    /\ leftover[p] > 0 /\ page[p] # "off" /\ user[p]
    /\ Breaks(p, "refused")
    /\ leftover' = [leftover EXCEPT ![p] = @ - 1]
    /\ UNCHANGED <<doc, uiVars, user, run, raced>>

InitFails(p) ==
    /\ page[p] = "asking"
    /\ Breaks(p, "unread")
    /\ page' = [page EXCEPT ![p] = "stuck"]
    /\ UNCHANGED <<doc, admin, curr_state, showLoading, verify, user, run,
                   leftover, raced>>

(* The owner or the system ends the app.                                   *)
Kill(p) ==
    /\ page[p] # "off"
    /\ page' = [page EXCEPT ![p] = "off"]
    /\ showLoading' = [showLoading EXCEPT ![p] = FALSE]
    /\ verify' = [verify EXCEPT ![p] = "none"]
    /\ leftover' = [leftover EXCEPT ![p] =
                       @ + Cardinality({r \in Run : At(p, r, "set")})]
    /\ run' = [run EXCEPT ![p] = [r \in Run |-> Idle]]
    /\ IF \E r \in Run : At(p, r, "get") \/ At(p, r, "answered")
       THEN Breaks(p, "killed") ELSE UNCHANGED broken
    /\ UNCHANGED <<doc, admin, curr_state, user, raced>>

(* The canteen's office edits the document in the console.                 *)
Recharge ==
    /\ doc # NoDoc /\ doc.Balance < MaxBalance
    /\ doc' = [doc EXCEPT !.Balance = @ + 1]
    /\ UNCHANGED <<uiVars, user, run, leftover, broken, raced>>

Promote ==
    /\ doc # NoDoc /\ ~doc.isAdmin
    /\ doc' = [doc EXCEPT !.isAdmin = TRUE]
    /\ UNCHANGED <<uiVars, user, run, leftover, broken, raced>>

-----------------------------------------------------------------------------
VerificationAnswers(p) ==
    \/ CodeSent(p)
    \/ VerificationFailed(p)
    \/ \E r \in Run : VerificationCompleted(p, r)

RunGoesOn(p, r) ==
    \/ SignInDone(p, r)
    \/ SignInRefused(p, r)
    \/ DocAnswered(p, r)
    \/ SignInResumes(p, r)
    \/ SetCommitted(p, r)

Next ==
    \/ \E p \in Phone :
         \/ Launch(p) \/ InitAnswered(p) \/ SignOut(p) \/ TapVerify(p)
         \/ VerificationAnswers(p) \/ LeftoverCommitted(p)
         \/ AnswerLost(p) \/ LeftoverFails(p) \/ InitFails(p) \/ Kill(p)
         \/ \E r \in Run : \/ TapConfirm(p, r) \/ RunGoesOn(p, r)
                           \/ RunFails(p, r)
    \/ Recharge
    \/ Promote

Spec == Init /\ [][Next]_vars

(* Firebase answers what it was asked; owners, faults and the office need  *)
(* do nothing.                                                             *)
Fairness ==
    \A p \in Phone :
        /\ WF_vars(VerificationAnswers(p))
        /\ WF_vars(InitAnswered(p))
        /\ \A r \in Run : WF_vars(RunGoesOn(p, r))

FairSpec == Spec /\ Fairness

-----------------------------------------------------------------------------
(* Properties.                                                             *)

(* Every variable has its type; a sign-in page is never in a state that    *)
(* its build method does not know.                                         *)
TypeOK ==
    /\ doc \in Account \cup {NoDoc}
    /\ page \in [Phone -> {"off", "auth", "asking", "home", "stuck"}]
    /\ admin \in [Phone -> BOOLEAN]
    /\ user \in [Phone -> BOOLEAN]
    /\ curr_state \in [Phone -> {"MOBILE_NO_STATE", "OTP_STATE"}]
    /\ showLoading \in [Phone -> BOOLEAN]
    /\ verify \in [Phone -> {"none", "requested", "sent"}]
    /\ run \in [Phone -> [Run -> RunState]]
    /\ leftover \in [Phone -> Nat]
    /\ broken \in [Phone -> SUBSET Cause]
    /\ raced \in BOOLEAN

(* A home page is shown to a user whose account has a document, which Pay  *)
(* and the wallet take for granted (menu.dart:174-176, wallet.dart),       *)
(* whatever was killed, could not be read, or is left of other runs.  A    *)
(* write of the document that Firestore refuses is the exception: /init    *)
(* may have seen it before it was refused.                                 *)
HomeHasAccount ==
    \A p \in Phone : page[p] = "home" /\ "refused" \notin broken[p] =>
                        user[p] /\ LocalDoc(p) # NoDoc

(* /init hangs only on a phone that had a Firestore failure or was killed  *)
(* between signing in and creating the document; any other kill is         *)
(* harmless, and so is anything another phone does.                        *)
StuckHasCause == \A p \in Phone : page[p] = "stuck" => broken[p] # {}

(* A spinner on the sign-in page stands for something under way that will  *)
(* take it away, unless a Firestore exception went uncaught.               *)
SpinnerHasWork ==
    \A p \in Phone : page[p] = "auth" /\ showLoading[p] /\ broken[p] = {} =>
        \/ verify[p] = "requested"
        \/ \E r \in Run : ~At(p, r, "idle") /\ run[p][r].ours

(* An account that exists keeps its balance and its role, whatever phones  *)
(* sign in, unless two runs both held the answer that it did not exist     *)
(* (which the get-then-set of authenticate.dart:42-50 allows) or the       *)
(* answer to the set() was lost, so that it is carried out twice.          *)
AccountKept ==
    [][doc # NoDoc /\ ~raced =>
          doc' # NoDoc /\ doc'.Balance >= doc.Balance
                       /\ (doc.isAdmin => doc'.isAdmin)]_vars

(* Signing in and launching come to an end: the home page, a form to fill  *)
(* in, or a fault.                                                         *)
Busy(p)    == page[p] = "asking" \/ (page[p] = "auth" /\ showLoading[p])
Settled(p) == page[p] \in {"home", "off"} \/ broken[p] # {}
                 \/ (page[p] = "auth" /\ ~showLoading[p])
EntryResolves == \A p \in Phone : Busy(p) ~> Settled(p)

(* authenticate.dart:43-45 wants no client to have access to the Balance   *)
(* field, and authenticate.dart:46 writes the document only when there is  *)
(* none: no phone may reset a balance.                                     *)
BalanceIsNotTheClients ==
    [][doc # NoDoc => doc' # NoDoc /\ doc'.Balance >= doc.Balance]_vars
=============================================================================
