---------------------------- MODULE SessionProofs ----------------------------
(***************************************************************************)
(* Theorems about launching the app and signing in, for any number of      *)
(* phones and of runs of the sign-in handler on each of them.              *)
(***************************************************************************)
EXTENDS Session, TLAPS, FiniteSetTheorems

-----------------------------------------------------------------------------
(* Types.                                                                  *)

LEMMA IdleType == Idle \in RunState /\ Fresh \in Account
  BY SessionAssumption DEF Idle, RunState, Fresh, Account

LEMMA RunType ==
    ASSUME TypeOK, NEW p \in Phone, NEW r \in Run
    PROVE  run[p][r] \in RunState
  BY DEF TypeOK

(* One run of a phone has changed.                                         *)
LEMMA RunsType ==
    ASSUME TypeOK, NEW p \in Phone, NEW r \in Run, NEW x \in RunState
    PROVE  [run EXCEPT ![p][r] = x] \in [Phone -> [Run -> RunState]]
  BY DEF TypeOK

LEMMA AdvancedType ==
    ASSUME TypeOK, NEW p \in Phone, NEW r \in Run,
           NEW s \in {"credential", "get", "answered", "set"}
    PROVE  [run EXCEPT ![p][r].at = s] \in [Phone -> [Run -> RunState]]
  <1>1. [run[p][r] EXCEPT !.at = s] \in RunState
    <2>1. run[p][r] \in RunState
      BY RunType
    <2> QED
      BY <2>1 DEF RunState
  <1>2. [run EXCEPT ![p][r].at = s] =
            [run EXCEPT ![p][r] = [run[p][r] EXCEPT !.at = s]]
    BY DEF TypeOK
  <1> QED
    BY <1>1, <1>2, RunsType, Zenon

LEMMA DisownedType ==
    ASSUME NEW rs \in [Run -> RunState]
    PROVE  Disowned(rs) \in [Run -> RunState]
  BY DEF Disowned, RunState

LEMMA FinishType ==
    ASSUME TypeOK, NEW p \in Phone, NEW r \in Run, Finish(p, r)
    PROVE  /\ run' \in [Phone -> [Run -> RunState]]
           /\ page' \in [Phone -> {"off", "auth", "asking", "home", "stuck"}]
           /\ verify' \in [Phone -> {"none", "requested", "sent"}]
           /\ UNCHANGED <<admin, curr_state, showLoading>>
  <1>1. CASE run[p][r].ours
    <2>1. Disowned(run[p]) \in [Run -> RunState]
      BY DisownedType DEF TypeOK
    <2>2. [Disowned(run[p]) EXCEPT ![r] = Idle] \in [Run -> RunState]
      BY <2>1, IdleType
    <2>3. /\ run' = [run EXCEPT ![p] = [Disowned(run[p]) EXCEPT ![r] = Idle]]
          /\ OpenInit(p)
      BY <1>1 DEF Finish
    <2>4. run' \in [Phone -> [Run -> RunState]]
      BY <2>2, <2>3 DEF TypeOK
    <2> QED
      BY <2>3, <2>4 DEF OpenInit, TypeOK
  <1>2. CASE ~run[p][r].ours
    <2>1. run' = [run EXCEPT ![p][r] = Idle] /\ UNCHANGED uiVars
      BY <1>2 DEF Finish
    <2>2. run' \in [Phone -> [Run -> RunState]]
      BY <2>1, RunsType, IdleType, Zenon
    <2> QED
      BY <2>1, <2>2 DEF uiVars, TypeOK
  <1> QED
    BY <1>1, <1>2

LEMMA TypeInit == Init => TypeOK
  <1> SUFFICES ASSUME Init
               PROVE  TypeOK
    OBVIOUS
  <1>1. run \in [Phone -> [Run -> RunState]]
    BY IdleType DEF Init
  <1>2. doc \in Account \cup {NoDoc} /\ raced \in BOOLEAN
    BY DEF Init
  <1> QED
    BY <1>1, <1>2 DEF Init, TypeOK

LEMMA TypeStep == TypeOK /\ [Next]_vars => TypeOK'
  <1> SUFFICES ASSUME TypeOK, [Next]_vars
               PROVE  TypeOK'
    OBVIOUS
  <1> USE DEF uiVars
  <1>1. ASSUME NEW p \in Phone, Launch(p)
        PROVE  TypeOK'
    BY <1>1 DEF Launch, OpenInit, OpenAuth, TypeOK
  <1>2. ASSUME NEW p \in Phone, InitAnswered(p)
        PROVE  TypeOK'
    <2>1. LocalDoc(p) # NoDoc => LocalDoc(p).isAdmin \in BOOLEAN
      BY IdleType DEF LocalDoc, TypeOK, Account
    <2> QED
      BY <1>2, <2>1 DEF InitAnswered, TypeOK
  <1>3. ASSUME NEW p \in Phone, SignOut(p)
        PROVE  TypeOK'
    BY <1>3 DEF SignOut, OpenAuth, TypeOK
  <1>4. ASSUME NEW p \in Phone, TapVerify(p)
        PROVE  TypeOK'
    BY <1>4 DEF TapVerify, TypeOK
  <1>5. ASSUME NEW p \in Phone, CodeSent(p)
        PROVE  TypeOK'
    BY <1>5 DEF CodeSent, TypeOK
  <1>6. ASSUME NEW p \in Phone, VerificationFailed(p)
        PROVE  TypeOK'
    BY <1>6 DEF VerificationFailed, TypeOK
  <1>7. ASSUME NEW p \in Phone, NEW r \in Run,
               VerificationCompleted(p, r) \/ TapConfirm(p, r)
        PROVE  TypeOK'
    <2>1. [at |-> "credential", exists |-> FALSE, ours |-> TRUE] \in RunState
      BY DEF RunState
    <2>2. run' = [run EXCEPT ![p][r] = [at |-> "credential",
                                        exists |-> FALSE, ours |-> TRUE]]
      BY <1>7, Zenon DEF VerificationCompleted, TapConfirm, StartRun
    <2>3. run' \in [Phone -> [Run -> RunState]]
      BY <2>1, <2>2, RunsType, Zenon
    <2> QED
      BY <1>7, <2>3 DEF VerificationCompleted, TapConfirm, StartRun, TypeOK
  <1>8. ASSUME NEW p \in Phone, NEW r \in Run, SignInDone(p, r)
        PROVE  TypeOK'
    <2>1. run' \in [Phone -> [Run -> RunState]]
      BY <1>8, AdvancedType DEF SignInDone
    <2> QED
      BY <1>8, <2>1 DEF SignInDone, TypeOK
  <1>9. ASSUME NEW p \in Phone, NEW r \in Run, SignInRefused(p, r)
        PROVE  TypeOK'
    BY <1>9, IdleType DEF SignInRefused, ShowForm, TypeOK
  <1>10. ASSUME NEW p \in Phone, NEW r \in Run, DocAnswered(p, r)
         PROVE  TypeOK'
    <2> DEFINE x == [[run[p][r] EXCEPT !.at = "answered"]
                         EXCEPT !.exists = LocalDoc(p) # NoDoc]
    <2>1. x \in RunState
      <3>1. run[p][r] \in RunState
        BY RunType
      <3> QED
        BY <3>1 DEF RunState
    <2>2. run' = [run EXCEPT ![p][r] = x]
      BY <1>10 DEF DocAnswered, TypeOK
    <2>3. run' \in [Phone -> [Run -> RunState]]
      BY <2>1, <2>2, RunsType, Zenon
    <2> QED
      BY <1>10, <2>3 DEF DocAnswered, TypeOK
  <1>11. ASSUME NEW p \in Phone, NEW r \in Run, SignInResumes(p, r)
         PROVE  TypeOK'
    <2>1. CASE run[p][r].exists
      BY <1>11, <2>1, FinishType DEF SignInResumes, TypeOK
    <2>2. CASE ~run[p][r].exists
      <3>1. run' = [run EXCEPT ![p][r].at = "set"]
        BY <1>11, <2>2 DEF SignInResumes
      <3>2. run' \in [Phone -> [Run -> RunState]]
        BY <3>1, AdvancedType, Zenon
      <3> QED
        BY <1>11, <2>2, <3>2 DEF SignInResumes, TypeOK
    <2> QED
      BY <2>1, <2>2
  <1>12. ASSUME NEW p \in Phone, NEW r \in Run, SetCommitted(p, r)
         PROVE  TypeOK'
    BY <1>12, FinishType, IdleType DEF SetCommitted, TypeOK
  <1>13. ASSUME NEW p \in Phone, LeftoverCommitted(p)
         PROVE  TypeOK'
    BY <1>13, IdleType DEF LeftoverCommitted, TypeOK
  <1>14. ASSUME NEW p \in Phone, AnswerLost(p)
         PROVE  TypeOK'
    BY <1>14, IdleType DEF AnswerLost, TypeOK
  <1>15. ASSUME NEW p \in Phone, NEW r \in Run, RunFails(p, r)
         PROVE  TypeOK'
    BY <1>15, IdleType DEF RunFails, Breaks, Cause, TypeOK
  <1>16. ASSUME NEW p \in Phone, LeftoverFails(p)
         PROVE  TypeOK'
    BY <1>16 DEF LeftoverFails, Breaks, Cause, TypeOK
  <1>17. ASSUME NEW p \in Phone, InitFails(p)
         PROVE  TypeOK'
    BY <1>17 DEF InitFails, Breaks, Cause, TypeOK
  <1>18. ASSUME NEW p \in Phone, Kill(p)
         PROVE  TypeOK'
    <2>1. Cardinality({r \in Run : At(p, r, "set")}) \in Nat
      BY SessionAssumption, FS_Subset, FS_CardinalityType
    <2>2. leftover' \in [Phone -> Nat]
      BY <1>18, <2>1 DEF Kill, TypeOK
    <2>3. run' \in [Phone -> [Run -> RunState]]
      BY <1>18, IdleType DEF Kill, TypeOK
    <2>4. broken' \in [Phone -> SUBSET Cause]
      BY <1>18 DEF Kill, Breaks, Cause, TypeOK
    <2> QED
      BY <1>18, <2>2, <2>3, <2>4 DEF Kill, TypeOK
  <1>19. ASSUME Recharge
         PROVE  TypeOK'
    <2>1. doc \in Account /\ doc.Balance + 1 \in 0 .. MaxBalance
      BY <1>19, SessionAssumption DEF Recharge, TypeOK, Account
    <2> QED
      BY <1>19, <2>1 DEF Recharge, TypeOK, Account
  <1>20. ASSUME Promote
         PROVE  TypeOK'
    BY <1>20 DEF Promote, TypeOK, Account
  <1>21. CASE UNCHANGED vars
    BY <1>21 DEF vars, TypeOK
  <1> QED
    BY <1>1, <1>2, <1>3, <1>4, <1>5, <1>6, <1>7, <1>8, <1>9, <1>10, <1>11,
       <1>12, <1>13, <1>14, <1>15, <1>16, <1>17, <1>18, <1>19, <1>20, <1>21
       DEF Next, VerificationAnswers, RunGoesOn

(* Every variable keeps its type; a sign-in page is never in a state that  *)
(* its build method does not know.                                         *)
THEOREM TypeCorrect == Spec => []TypeOK
  BY TypeInit, TypeStep, PTL DEF Spec

-----------------------------------------------------------------------------
(* What the end of a run does.                                             *)

LEMMA FinishEffect ==
    ASSUME TypeOK, NEW p \in Phone, NEW r \in Run, Finish(p, r)
    PROVE  /\ run'[p][r] = Idle
           /\ \A x \in Run \ {r} : /\ run'[p][x].at = run[p][x].at
                                   /\ run'[p][x].exists = run[p][x].exists
           /\ \A q \in Phone \ {p} : /\ run'[q] = run[q]
                                     /\ page'[q] = page[q]
                                     /\ verify'[q] = verify[q]
           /\ IF run[p][r].ours
              THEN /\ page'[p] = "asking" /\ verify'[p] = "none"
                   /\ \A x \in Run : ~run'[p][x].ours
              ELSE /\ UNCHANGED uiVars
                   /\ \A x \in Run \ {r} : run'[p][x] = run[p][x]
  <1>1. CASE run[p][r].ours
    <2> DEFINE rs == Disowned(run[p])
    <2>1. /\ rs \in [Run -> RunState]
          /\ \A x \in Run : /\ rs[x].at = run[p][x].at
                            /\ rs[x].exists = run[p][x].exists
                            /\ ~rs[x].ours
      <3>1. \A x \in Run : run[p][x] \in RunState
        BY RunType
      <3> QED
        BY <3>1 DEF Disowned, RunState
    <2>2. /\ run' = [run EXCEPT ![p] = [rs EXCEPT ![r] = Idle]]
          /\ page' = [page EXCEPT ![p] = "asking"]
          /\ verify' = [verify EXCEPT ![p] = "none"]
      BY <1>1 DEF Finish, OpenInit
    <2>3. run'[p] = [rs EXCEPT ![r] = Idle]
      BY <2>2 DEF TypeOK
    <2>4. run'[p][r] = Idle /\ \A x \in Run \ {r} : run'[p][x] = rs[x]
      BY <2>1, <2>3
    <2>5. ~Idle.ours
      BY DEF Idle
    <2> HIDE DEF rs
    <2> QED
      BY <1>1, <2>1, <2>2, <2>4, <2>5 DEF TypeOK
  <1>2. CASE ~run[p][r].ours
    <2>1. run' = [run EXCEPT ![p][r] = Idle] /\ UNCHANGED uiVars
      BY <1>2 DEF Finish
    <2> QED
      BY <1>2, <2>1 DEF uiVars, TypeOK
  <1> QED
    BY <1>1, <1>2

-----------------------------------------------------------------------------
(* What is waited for.                                                     *)

(* What a sign-in page waits for goes away with the page.                  *)
RunsBelong ==
    \A p \in Phone :
        /\ verify[p] # "none" => page[p] = "auth"
        /\ \A r \in Run : run[p][r].ours => page[p] = "auth"
        /\ page[p] = "off" => \A r \in Run : At(p, r, "idle")

(* /init is asked for a user who is signed in, and stays so until the home *)
(* page is left; a run that has signed in keeps its user while its page is *)
(* there.                                                                  *)
UserIsThere ==
    \A p \in Phone :
        /\ page[p] \in {"asking", "home"} => user[p]
        /\ \A r \in Run : run[p][r].ours /\ ~At(p, r, "idle")
                             /\ ~At(p, r, "credential") => user[p]

LEMMA RunsBelongInit == Init => RunsBelong /\ UserIsThere /\ SpinnerHasWork
  BY DEF Init, RunsBelong, UserIsThere, SpinnerHasWork, At, Idle

(* A step that leaves the pages and starts no run.                         *)
LEMMA RunsGoOn ==
    ASSUME RunsBelong, UNCHANGED <<page, verify>>,
           \A q \in Phone, x \in Run :
               /\ run'[q][x].ours => run[q][x].ours
               /\ At(q, x, "idle") => run'[q][x].at = "idle"
    PROVE  RunsBelong'
  BY DEF RunsBelong, At

LEMMA RunsBelongStep == TypeOK /\ RunsBelong /\ [Next]_vars => RunsBelong'
  <1> SUFFICES ASSUME TypeOK, RunsBelong, [Next]_vars
               PROVE  RunsBelong'
    OBVIOUS
  <1> USE DEF uiVars
  <1>1. ASSUME NEW p \in Phone, Launch(p)
        PROVE  RunsBelong'
    BY <1>1 DEF Launch, OpenInit, OpenAuth, RunsBelong, At, TypeOK
  <1>2. ASSUME NEW p \in Phone, InitAnswered(p)
        PROVE  RunsBelong'
    BY <1>2 DEF InitAnswered, RunsBelong, At, TypeOK
  <1>3. ASSUME NEW p \in Phone, SignOut(p)
        PROVE  RunsBelong'
    BY <1>3 DEF SignOut, OpenAuth, RunsBelong, At, TypeOK
  <1>4. ASSUME NEW p \in Phone, TapVerify(p)
        PROVE  RunsBelong'
    BY <1>4 DEF TapVerify, RunsBelong, At, TypeOK
  <1>5. ASSUME NEW p \in Phone, CodeSent(p) \/ VerificationFailed(p)
        PROVE  RunsBelong'
    BY <1>5 DEF CodeSent, VerificationFailed, RunsBelong, At, TypeOK
  <1>6. ASSUME NEW p \in Phone, NEW r \in Run,
               VerificationCompleted(p, r) \/ TapConfirm(p, r)
        PROVE  RunsBelong'
    <2>1. page[p] = "auth" /\ UNCHANGED page
      BY <1>6 DEF VerificationCompleted, TapConfirm, RunsBelong
    <2>2. \A q \in Phone : verify'[q] # "none" => verify[q] # "none"
      BY <1>6 DEF VerificationCompleted, TapConfirm, TypeOK
    <2>3. \A q \in Phone, x \in Run :
              q # p \/ x # r => run'[q][x] = run[q][x]
      BY <1>6 DEF VerificationCompleted, TapConfirm, StartRun, TypeOK
    <2> QED
      BY <2>1, <2>2, <2>3 DEF RunsBelong, At
  <1>7. ASSUME NEW p \in Phone, NEW r \in Run,
               \/ SignInDone(p, r) \/ SignInRefused(p, r)
               \/ DocAnswered(p, r) \/ RunFails(p, r)
        PROVE  RunsBelong'
    <2>1. UNCHANGED <<page, verify>>
      BY <1>7 DEF SignInDone, SignInRefused, DocAnswered, RunFails
    <2>2. \A q \in Phone, x \in Run :
              q # p \/ x # r => run'[q][x] = run[q][x]
      BY <1>7 DEF SignInDone, SignInRefused, DocAnswered, RunFails, TypeOK
    <2>3. ~At(p, r, "idle")
      BY <1>7 DEF SignInDone, SignInRefused, DocAnswered, RunFails, At
    <2>4. run'[p][r].ours => run[p][r].ours
      <3>1. run[p][r] \in RunState
        BY RunType
      <3>2. CASE SignInDone(p, r)
        BY <3>1, <3>2 DEF SignInDone, RunState, TypeOK
      <3>3. CASE DocAnswered(p, r)
        BY <3>1, <3>3 DEF DocAnswered, RunState, TypeOK
      <3>4. CASE SignInRefused(p, r) \/ RunFails(p, r)
        <4>1. run'[p][r] = Idle
          BY <3>4 DEF SignInRefused, RunFails, TypeOK
        <4> QED
          BY <4>1 DEF Idle
      <3> QED
        BY <1>7, <3>2, <3>3, <3>4
    <2>5. \A q \in Phone, x \in Run :
              /\ run'[q][x].ours => run[q][x].ours
              /\ At(q, x, "idle") => run'[q][x].at = "idle"
      BY <2>2, <2>3, <2>4 DEF At
    <2> QED
      BY <2>1, <2>5, RunsGoOn
  <1>8. ASSUME NEW p \in Phone, NEW r \in Run, ~At(p, r, "idle"), Finish(p, r)
        PROVE  RunsBelong'
    <2>1. CASE run[p][r].ours
      BY <1>8, <2>1, FinishEffect DEF RunsBelong, At, Idle
    <2>2. CASE ~run[p][r].ours
      BY <1>8, <2>2, FinishEffect DEF RunsBelong, At, Idle
    <2> QED
      BY <2>1, <2>2
  <1>9. ASSUME NEW p \in Phone, NEW r \in Run, SignInResumes(p, r)
        PROVE  RunsBelong'
    <2>1. CASE run[p][r].exists
      BY <1>8, <1>9, <2>1 DEF SignInResumes, At
    <2>2. CASE ~run[p][r].exists
      <3>1. run[p][r] \in RunState
        BY RunType
      <3>2. run' = [run EXCEPT ![p][r].at = "set"] /\ UNCHANGED uiVars
        BY <1>9, <2>2 DEF SignInResumes
      <3>3. \A q \in Phone, x \in Run :
                /\ run'[q][x].ours = run[q][x].ours
                /\ q # p \/ x # r => run'[q][x] = run[q][x]
        BY <3>1, <3>2 DEF TypeOK, RunState
      <3>4. ~At(p, r, "idle")
        BY <1>9 DEF SignInResumes, At
      <3> QED
        BY <3>2, <3>3, <3>4, RunsGoOn DEF At
    <2> QED
      BY <2>1, <2>2
  <1>10. ASSUME NEW p \in Phone, NEW r \in Run, SetCommitted(p, r)
         PROVE  RunsBelong'
    BY <1>8, <1>10 DEF SetCommitted, At
  <1>11. ASSUME NEW p \in Phone, InitFails(p)
         PROVE  RunsBelong'
    BY <1>11 DEF InitFails, RunsBelong, At, TypeOK
  <1>12. ASSUME NEW p \in Phone, Kill(p)
         PROVE  RunsBelong'
    BY <1>12 DEF Kill, RunsBelong, At, Idle, TypeOK
  <1>13. CASE UNCHANGED <<page, verify, run>>
    BY <1>13 DEF RunsBelong, At
  <1> QED
    BY <1>1, <1>2, <1>3, <1>4, <1>5, <1>6, <1>7, <1>9, <1>10, <1>11, <1>12,
       <1>13 DEF Next, VerificationAnswers, RunGoesOn, LeftoverCommitted,
       AnswerLost, LeftoverFails, Recharge, Promote, vars

LEMMA UserIsThereStep ==
    TypeOK /\ RunsBelong /\ UserIsThere /\ [Next]_vars => UserIsThere'
  <1> SUFFICES ASSUME TypeOK, RunsBelong, UserIsThere, [Next]_vars
               PROVE  UserIsThere'
    OBVIOUS
  <1> USE DEF uiVars
  <1>1. ASSUME NEW p \in Phone, Launch(p)
        PROVE  UserIsThere'
    BY <1>1 DEF Launch, OpenInit, OpenAuth, UserIsThere, At, TypeOK
  <1>2. ASSUME NEW p \in Phone, InitAnswered(p)
        PROVE  UserIsThere'
    BY <1>2 DEF InitAnswered, UserIsThere, At, TypeOK
  <1>3. ASSUME NEW p \in Phone, SignOut(p)
        PROVE  UserIsThere'
    BY <1>3 DEF SignOut, OpenAuth, RunsBelong, UserIsThere, At, TypeOK
  <1>4. ASSUME NEW p \in Phone, NEW r \in Run,
               VerificationCompleted(p, r) \/ TapConfirm(p, r)
        PROVE  UserIsThere'
    <2>1. UNCHANGED <<page, user>> /\ StartRun(p, r)
      BY <1>4 DEF VerificationCompleted, TapConfirm
    <2>2. At(p, r, "credential")' /\ \A q \in Phone, x \in Run :
              q # p \/ x # r => run'[q][x] = run[q][x]
      BY <2>1 DEF StartRun, At, TypeOK
    <2> QED
      BY <2>1, <2>2 DEF UserIsThere, At
  <1>5. ASSUME NEW p \in Phone, NEW r \in Run, SignInDone(p, r)
        PROVE  UserIsThere'
    <2>1. \A q \in Phone, x \in Run :
              q # p \/ x # r => run'[q][x] = run[q][x]
      BY <1>5 DEF SignInDone, TypeOK
    <2>2. user'[p] /\ \A q \in Phone \ {p} : user'[q] = user[q]
      BY <1>5 DEF SignInDone, TypeOK
    <2>3. UNCHANGED page
      BY <1>5 DEF SignInDone
    <2> QED
      BY <2>1, <2>2, <2>3 DEF UserIsThere, At
  <1>6. ASSUME NEW p \in Phone, NEW r \in Run,
               \/ SignInRefused(p, r) \/ DocAnswered(p, r) \/ RunFails(p, r)
        PROVE  UserIsThere'
    <2>1. UNCHANGED <<page, user>>
      BY <1>6 DEF SignInRefused, DocAnswered, RunFails
    <2>2. \A q \in Phone, x \in Run :
              q # p \/ x # r => run'[q][x] = run[q][x]
      BY <1>6 DEF SignInRefused, DocAnswered, RunFails, TypeOK
    <2>3. run'[p][r].ours => run[p][r].ours /\ At(p, r, "get")
      <3>1. run[p][r] \in RunState
        BY RunType
      <3> QED
        BY <1>6, <3>1 DEF SignInRefused, DocAnswered, RunFails, Idle,
                          RunState, TypeOK
    <2> QED
      BY <2>1, <2>2, <2>3 DEF UserIsThere, At
  <1>7. ASSUME NEW p \in Phone, NEW r \in Run, Finish(p, r), UNCHANGED user,
               run[p][r].ours => user[p]
        PROVE  UserIsThere'
    <2>1. ~Idle.ours
      BY DEF Idle
    <2>2. CASE run[p][r].ours
      BY <1>7, <2>1, <2>2, FinishEffect DEF UserIsThere, At
    <2>3. CASE ~run[p][r].ours
      BY <1>7, <2>1, <2>3, FinishEffect DEF UserIsThere, At
    <2> QED
      BY <2>2, <2>3
  <1>8. ASSUME NEW p \in Phone, NEW r \in Run, SignInResumes(p, r)
        PROVE  UserIsThere'
    <2>1. At(p, r, "answered") /\ UNCHANGED user
      BY <1>8 DEF SignInResumes
    <2>2. run[p][r].ours => user[p]
      BY <2>1 DEF UserIsThere, At
    <2>3. CASE run[p][r].exists
      BY <1>7, <1>8, <2>1, <2>2, <2>3 DEF SignInResumes
    <2>4. CASE ~run[p][r].exists
      <3>1. run[p][r] \in RunState
        BY RunType
      <3>2. run' = [run EXCEPT ![p][r].at = "set"] /\ UNCHANGED page
        BY <1>8, <2>4 DEF SignInResumes
      <3>3. \A q \in Phone, x \in Run :
                /\ run'[q][x].ours = run[q][x].ours
                /\ q # p \/ x # r => run'[q][x] = run[q][x]
        BY <3>1, <3>2 DEF TypeOK, RunState
      <3> QED
        BY <2>1, <2>2, <3>2, <3>3 DEF UserIsThere, At
    <2> QED
      BY <2>3, <2>4
  <1>9. ASSUME NEW p \in Phone, NEW r \in Run, SetCommitted(p, r)
        PROVE  UserIsThere'
    BY <1>7, <1>9 DEF SetCommitted
  <1>10. ASSUME NEW p \in Phone, InitFails(p)
         PROVE  UserIsThere'
    BY <1>10 DEF InitFails, UserIsThere, At, TypeOK
  <1>11. ASSUME NEW p \in Phone, Kill(p)
         PROVE  UserIsThere'
    BY <1>11 DEF Kill, UserIsThere, At, Idle, TypeOK
  <1>12. CASE UNCHANGED <<page, user, run>>
    BY <1>12 DEF UserIsThere, At
  <1> QED
    BY <1>1, <1>2, <1>3, <1>4, <1>5, <1>6, <1>8, <1>9, <1>10, <1>11, <1>12
       DEF Next, VerificationAnswers, RunGoesOn, TapVerify, CodeSent,
           VerificationFailed, LeftoverCommitted, AnswerLost, LeftoverFails,
           Recharge, Promote, vars

-----------------------------------------------------------------------------
(* The spinner.                                                            *)

(* A run that ends takes the spinner of its page away.                     *)
LEMMA SpinnerAfterFinish ==
    ASSUME TypeOK, SpinnerHasWork, NEW p \in Phone, NEW r \in Run,
           Finish(p, r), \A q \in Phone : broken[q] \subseteq broken'[q]
    PROVE  SpinnerHasWork'
  <1>1. UNCHANGED showLoading
    BY FinishType
  <1>2. CASE run[p][r].ours
    BY <1>1, <1>2, FinishEffect DEF SpinnerHasWork, At
  <1>3. CASE ~run[p][r].ours
    <2>1. UNCHANGED <<page, verify>> /\ \A q \in Phone, x \in Run :
              q # p \/ x # r => run'[q][x] = run[q][x]
      BY <1>3, FinishEffect DEF uiVars
    <2> QED
      BY <1>1, <1>3, <2>1 DEF SpinnerHasWork, At
  <1> QED
    BY <1>2, <1>3

(* A step that only takes a run further.                                   *)
LEMMA SpinnerAfterAdvance ==
    ASSUME TypeOK, SpinnerHasWork, NEW p \in Phone, NEW r \in Run,
           UNCHANGED <<page, showLoading, verify, broken>>,
           run'[p][r].at # "idle", run'[p][r].ours = run[p][r].ours,
           \A q \in Phone, x \in Run :
               q # p \/ x # r => run'[q][x] = run[q][x]
    PROVE  SpinnerHasWork'
  BY DEF SpinnerHasWork, At

LEMMA SpinnerStep == TypeOK /\ SpinnerHasWork /\ [Next]_vars => SpinnerHasWork'
  <1> SUFFICES ASSUME TypeOK, SpinnerHasWork, [Next]_vars
               PROVE  SpinnerHasWork'
    OBVIOUS
  <1> USE DEF uiVars
  <1>1. ASSUME NEW p \in Phone, Launch(p) \/ SignOut(p)
        PROVE  SpinnerHasWork'
    <2>1. /\ page'[p] = "auth" => ~showLoading'[p]
          /\ UNCHANGED broken
          /\ \A q \in Phone \ {p} : /\ showLoading'[q] = showLoading[q]
                                    /\ page'[q] = page[q]
                                    /\ verify'[q] = verify[q]
                                    /\ run'[q] = run[q]
      <3>1. CASE Launch(p)
        BY <3>1 DEF Launch, OpenInit, OpenAuth, TypeOK
      <3>2. CASE SignOut(p)
        BY <3>2 DEF SignOut, OpenInit, OpenAuth, TypeOK
      <3> QED
        BY <1>1, <3>1, <3>2
    <2> QED
      BY <2>1 DEF SpinnerHasWork, At
  <1>2. ASSUME NEW p \in Phone, InitAnswered(p)
        PROVE  SpinnerHasWork'
    BY <1>2 DEF InitAnswered, SpinnerHasWork, At, TypeOK
  <1>3. ASSUME NEW p \in Phone, TapVerify(p)
        PROVE  SpinnerHasWork'
    BY <1>3 DEF TapVerify, SpinnerHasWork, At, TypeOK
  <1>4. ASSUME NEW p \in Phone, CodeSent(p) \/ VerificationFailed(p)
        PROVE  SpinnerHasWork'
    <2>1. CASE CodeSent(p)
      BY <2>1 DEF CodeSent, SpinnerHasWork, At, TypeOK
    <2>2. CASE VerificationFailed(p)
      BY <2>2 DEF VerificationFailed, SpinnerHasWork, At, TypeOK
    <2> QED
      BY <1>4, <2>1, <2>2
  <1>5. ASSUME NEW p \in Phone, NEW r \in Run,
               VerificationCompleted(p, r) \/ TapConfirm(p, r)
        PROVE  SpinnerHasWork'
    <2>1. StartRun(p, r) /\ UNCHANGED <<page, broken>>
      BY <1>5 DEF VerificationCompleted, TapConfirm
    <2>2. /\ run'[p][r].at = "credential" /\ run'[p][r].ours
          /\ \A q \in Phone \ {p} : /\ run'[q] = run[q]
                                    /\ showLoading'[q] = showLoading[q]
      BY <2>1 DEF StartRun, TypeOK
    <2>3. \A q \in Phone \ {p} : verify'[q] = verify[q]
      BY <1>5 DEF VerificationCompleted, TapConfirm, TypeOK
    <2> QED
      BY <2>1, <2>2, <2>3 DEF SpinnerHasWork, At
  <1>6. ASSUME NEW p \in Phone, NEW r \in Run,
               SignInDone(p, r) \/ DocAnswered(p, r)
        PROVE  SpinnerHasWork'
    <2>1. run[p][r] \in RunState
      BY RunType
    <2>2. UNCHANGED <<page, showLoading, verify, broken>>
      BY <1>6 DEF SignInDone, DocAnswered
    <2>3. run'[p][r].at # "idle" /\ run'[p][r].ours = run[p][r].ours
      <3>1. CASE SignInDone(p, r)
        BY <2>1, <3>1 DEF SignInDone, TypeOK, RunState
      <3>2. CASE DocAnswered(p, r)
        BY <2>1, <3>2 DEF DocAnswered, TypeOK, RunState
      <3> QED
        BY <1>6, <3>1, <3>2
    <2>4. \A q \in Phone, x \in Run :
              q # p \/ x # r => run'[q][x] = run[q][x]
      BY <1>6 DEF SignInDone, DocAnswered, TypeOK
    <2> QED
      BY <2>2, <2>3, <2>4, SpinnerAfterAdvance
  <1>7. ASSUME NEW p \in Phone, NEW r \in Run, SignInRefused(p, r)
        PROVE  SpinnerHasWork'
    <2>1. UNCHANGED <<page, verify, broken>> /\ ShowForm(p, r)
      BY <1>7 DEF SignInRefused
    <2>2. \A q \in Phone, x \in Run :
              q # p \/ x # r => run'[q][x] = run[q][x]
      BY <1>7 DEF SignInRefused, TypeOK
    <2>3. /\ \A q \in Phone : showLoading'[q] => showLoading[q]
          /\ run[p][r].ours => ~showLoading'[p]
      BY <2>1 DEF ShowForm, TypeOK
    <2> QED
      BY <2>1, <2>2, <2>3 DEF SpinnerHasWork, At
  <1>8. ASSUME NEW p \in Phone, NEW r \in Run, SignInResumes(p, r)
        PROVE  SpinnerHasWork'
    <2>1. UNCHANGED broken
      BY <1>8 DEF SignInResumes
    <2>2. CASE run[p][r].exists
      BY <1>8, <2>1, <2>2, SpinnerAfterFinish DEF SignInResumes
    <2>3. CASE ~run[p][r].exists
      <3>1. run[p][r] \in RunState
        BY RunType
      <3>2. run' = [run EXCEPT ![p][r].at = "set"] /\ UNCHANGED uiVars
        BY <1>8, <2>3 DEF SignInResumes
      <3>3. /\ run'[p][r].at # "idle" /\ run'[p][r].ours = run[p][r].ours
            /\ \A q \in Phone, x \in Run :
                  q # p \/ x # r => run'[q][x] = run[q][x]
        BY <3>1, <3>2 DEF TypeOK, RunState
      <3> QED
        BY <2>1, <3>2, <3>3, SpinnerAfterAdvance
    <2> QED
      BY <2>2, <2>3
  <1>9. ASSUME NEW p \in Phone, NEW r \in Run, SetCommitted(p, r)
        PROVE  SpinnerHasWork'
    BY <1>9, SpinnerAfterFinish DEF SetCommitted
  <1>10. ASSUME NEW p \in Phone, NEW r \in Run, RunFails(p, r)
         PROVE  SpinnerHasWork'
    <2>1. broken'[p] # {} /\ \A q \in Phone \ {p} : /\ broken'[q] = broken[q]
                                                   /\ run'[q] = run[q]
      BY <1>10 DEF RunFails, Breaks, TypeOK
    <2> QED
      BY <1>10, <2>1 DEF RunFails, SpinnerHasWork, At
  <1>11. ASSUME NEW p \in Phone, InitFails(p)
         PROVE  SpinnerHasWork'
    BY <1>11 DEF InitFails, Breaks, SpinnerHasWork, At, TypeOK
  <1>12. ASSUME NEW p \in Phone, Kill(p)
         PROVE  SpinnerHasWork'
    <2>1. page'[p] = "off" /\ \A q \in Phone \ {p} :
              /\ page'[q] = page[q] /\ showLoading'[q] = showLoading[q]
              /\ verify'[q] = verify[q] /\ run'[q] = run[q]
              /\ broken'[q] = broken[q]
      BY <1>12 DEF Kill, Breaks, TypeOK
    <2> QED
      BY <2>1 DEF SpinnerHasWork, At
  <1>13. ASSUME NEW p \in Phone, LeftoverFails(p)
         PROVE  SpinnerHasWork'
    BY <1>13 DEF LeftoverFails, Breaks, SpinnerHasWork, At, TypeOK
  <1>14. CASE UNCHANGED <<page, showLoading, verify, run, broken>>
    BY <1>14 DEF SpinnerHasWork, At
  <1> QED
    BY <1>1, <1>2, <1>3, <1>4, <1>5, <1>6, <1>7, <1>8, <1>9, <1>10, <1>11,
       <1>12, <1>13, <1>14 DEF Next, VerificationAnswers, RunGoesOn,
       LeftoverCommitted, AnswerLost, Recharge, Promote, vars

(* A spinner on the sign-in page stands for something under way that will  *)
(* take it away, unless a Firestore exception went uncaught.               *)
THEOREM SpinnersHaveWork == Spec => []SpinnerHasWork
  BY TypeInit, TypeStep, RunsBelongInit, SpinnerStep, PTL DEF Spec

-----------------------------------------------------------------------------
(* The account's document.                                                 *)

HasAccount(p) == Pending(p) \/ doc # NoDoc

LEMMA LocalDocIsThere == \A p \in Phone : LocalDoc(p) # NoDoc <=> HasAccount(p)
  BY IdleType, SessionAssumption DEF LocalDoc, HasAccount

LEMMA BrokenGrows ==
    ASSUME TypeOK, [Next]_vars
    PROVE  \A q \in Phone : broken[q] \subseteq broken'[q]
  <1>1. ASSUME NEW p \in Phone, NEW c, Breaks(p, c)
        PROVE  \A q \in Phone : broken[q] \subseteq broken'[q]
    BY <1>1 DEF Breaks, TypeOK
  <1>2. CASE UNCHANGED broken
    BY <1>2
  <1>3. ASSUME NEW p \in Phone, \/ LeftoverFails(p) \/ InitFails(p) \/ Kill(p)
                                \/ \E r \in Run : RunFails(p, r)
        PROVE  UNCHANGED broken \/ \E c : Breaks(p, c)
    BY <1>3 DEF LeftoverFails, InitFails, Kill, RunFails
  <1>4. ASSUME NEW p \in Phone, NEW r \in Run,
               TapConfirm(p, r) \/ RunGoesOn(p, r) \/ VerificationCompleted(p, r)
        PROVE  UNCHANGED broken
    BY <1>4 DEF TapConfirm, RunGoesOn, VerificationCompleted, SignInDone,
                SignInRefused, DocAnswered, SignInResumes, SetCommitted
  <1> QED
    BY <1>1, <1>2, <1>3, <1>4 DEF Next, VerificationAnswers, Launch,
       InitAnswered, SignOut, TapVerify, CodeSent, VerificationFailed,
       LeftoverCommitted, AnswerLost, Recharge, Promote, vars

(* A phone's unsent set() calls are kept when the app is killed.           *)
LEMMA KillKeepsPending ==
    ASSUME TypeOK, NEW p \in Phone, Kill(p), NEW q \in Phone, Pending(q)
    PROVE  Pending(q)'
  <1> DEFINE S == {r \in Run : At(p, r, "set")}
  <1>1. IsFiniteSet(S) /\ Cardinality(S) \in Nat
    BY SessionAssumption, FS_Subset, FS_CardinalityType
  <1>2. leftover[p] \in Nat /\ leftover'[p] = leftover[p] + Cardinality(S)
    BY DEF Kill, TypeOK
  <1>3. CASE q = p
    <2>1. CASE leftover[p] > 0
      BY <1>1, <1>2, <1>3, <2>1 DEF Pending
    <2>2. CASE \E r \in Run : At(p, r, "set")
      <3>1. Cardinality(S) # 0
        BY <1>1, <2>2, FS_EmptySet
      <3> QED
        BY <1>1, <1>2, <1>3, <3>1 DEF Pending
    <2> QED
      BY <1>3, <2>1, <2>2 DEF Pending
  <1>4. CASE q # p
    BY <1>4 DEF Kill, Pending, At, TypeOK
  <1> QED
    BY <1>3, <1>4

(* A step that leaves the documents and ends no set().                     *)
LEMMA PendingStays ==
    ASSUME UNCHANGED <<doc, leftover>>,
           \A q \in Phone, x \in Run : At(q, x, "set") => At(q, x, "set")'
    PROVE  \A q \in Phone : HasAccount(q) => HasAccount(q)'
  BY DEF HasAccount, Pending

(* Nobody deletes the document, and only a refused set() makes a phone     *)
(* forget one that it has seen.                                            *)
LEMMA AccountStays ==
    ASSUME TypeOK, [Next]_vars
    PROVE  \A q \in Phone :
               HasAccount(q) => HasAccount(q)' \/ "refused" \in broken'[q]
  <1> DEFINE Stays == \A q \in Phone :
                 HasAccount(q) => HasAccount(q)' \/ "refused" \in broken'[q]
  <1>1. CASE doc' # NoDoc
    BY <1>1 DEF HasAccount
  <1>2. ASSUME NEW p \in Phone, NEW r \in Run,
               \/ SignInDone(p, r) \/ SignInRefused(p, r)
               \/ DocAnswered(p, r)
               \/ VerificationCompleted(p, r) \/ TapConfirm(p, r)
        PROVE  Stays
    <2>1. UNCHANGED <<doc, leftover>>
      BY <1>2 DEF SignInDone, SignInRefused, DocAnswered,
                  VerificationCompleted, TapConfirm
    <2>2. ~At(p, r, "set")
      BY <1>2 DEF SignInDone, SignInRefused, DocAnswered,
                  VerificationCompleted, TapConfirm, StartRun, At
    <2>3. \A q \in Phone, x \in Run :
              q # p \/ x # r => run'[q][x] = run[q][x]
      BY <1>2 DEF SignInDone, SignInRefused, DocAnswered,
                  VerificationCompleted, TapConfirm, StartRun, TypeOK
    <2>4. \A q \in Phone, x \in Run : At(q, x, "set") => At(q, x, "set")'
      BY <2>2, <2>3 DEF At
    <2> QED
      BY <2>1, <2>4, PendingStays
  <1>3. ASSUME NEW p \in Phone, NEW r \in Run, SignInResumes(p, r)
        PROVE  Stays
    <2>1. UNCHANGED <<doc, leftover>> /\ ~At(p, r, "set")
      BY <1>3 DEF SignInResumes, At
    <2>2. \A q \in Phone, x \in Run :
              q # p \/ x # r => run'[q][x].at = run[q][x].at
      <3>1. CASE run[p][r].exists
        BY <1>3, <3>1, FinishEffect DEF SignInResumes
      <3>2. CASE ~run[p][r].exists
        BY <1>3, <3>2 DEF SignInResumes, TypeOK
      <3> QED
        BY <3>1, <3>2
    <2>3. \A q \in Phone, x \in Run : At(q, x, "set") => At(q, x, "set")'
      BY <2>1, <2>2 DEF At
    <2> QED
      BY <2>1, <2>3, PendingStays
  <1>4. ASSUME NEW p \in Phone, NEW r \in Run, RunFails(p, r)
        PROVE  Stays
    <2>1. \A q \in Phone, x \in Run :
              q # p \/ x # r => run'[q][x] = run[q][x]
      BY <1>4 DEF RunFails, TypeOK
    <2>2. UNCHANGED <<doc, leftover>>
      BY <1>4 DEF RunFails
    <2>3. At(p, r, "set") => "refused" \in broken'[p]
      BY <1>4 DEF RunFails, Breaks, At, TypeOK
    <2> QED
      BY <2>1, <2>2, <2>3 DEF HasAccount, Pending, At
  <1>5. ASSUME NEW p \in Phone, LeftoverFails(p)
        PROVE  Stays
    BY <1>5 DEF LeftoverFails, Breaks, HasAccount, Pending, At, TypeOK
  <1>6. ASSUME NEW p \in Phone, Kill(p)
        PROVE  Stays
    BY <1>6, KillKeepsPending DEF HasAccount, Kill
  <1>7. CASE UNCHANGED <<doc, leftover, run>>
    BY <1>7 DEF HasAccount, Pending, At
  <1>8. \/ \E p \in Phone, r \in Run : SetCommitted(p, r)
        \/ \E p \in Phone : LeftoverCommitted(p) \/ AnswerLost(p)
        \/ Recharge \/ Promote
        => doc' # NoDoc
    <2>1. Recharge => doc' # NoDoc
      BY TypeStep, SessionAssumption DEF Recharge, TypeOK, Account
    <2>2. Promote => doc' # NoDoc
      BY SessionAssumption DEF Promote, TypeOK, Account
    <2> QED
      BY <2>1, <2>2, IdleType, SessionAssumption
         DEF SetCommitted, LeftoverCommitted, AnswerLost
  <1> QED
    BY <1>1, <1>2, <1>3, <1>4, <1>5, <1>6, <1>7, <1>8 DEF Next,
       VerificationAnswers, RunGoesOn, Launch, InitAnswered, SignOut,
       TapVerify, CodeSent, VerificationFailed, InitFails, vars

(* A user who is signed in has an account, or is getting one, unless a     *)
(* fault is in the way: what the runs of the handler know is still true    *)
(* when they act on it.                                                    *)
AccountIsThere ==
    \A p \in Phone :
        /\ \A r \in Run : At(p, r, "answered") /\ run[p][r].exists =>
                              HasAccount(p) \/ "refused" \in broken[p]
        /\ user[p] => \/ HasAccount(p) \/ broken[p] # {}
                      \/ \E r \in Run : At(p, r, "get") \/ At(p, r, "answered")
        /\ page[p] = "asking" => HasAccount(p) \/ broken[p] # {}
        /\ page[p] = "home" => HasAccount(p) \/ "refused" \in broken[p]

SessionInv == /\ RunsBelong /\ UserIsThere /\ AccountIsThere
              /\ StuckHasCause

LEMMA AccountInit == Init => AccountIsThere
  BY DEF Init, AccountIsThere, At, Idle

(* What is left to show of a step: what it adds.                           *)
LEMMA AccountAfterStep ==
    ASSUME TypeOK, AccountIsThere, [Next]_vars,
           \A q \in Phone :
               /\ \A r \in Run : At(q, r, "answered")' /\ run'[q][r].exists =>
                      \/ At(q, r, "answered") /\ run[q][r].exists
                      \/ HasAccount(q)' \/ "refused" \in broken'[q]
               /\ user'[q] =>
                      \/ user[q] /\ \A r \in Run :
                             At(q, r, "get") \/ At(q, r, "answered") =>
                                 \E x \in Run : At(q, x, "get")'
                                                    \/ At(q, x, "answered")'
                      \/ HasAccount(q)' \/ broken'[q] # {}
                      \/ \E x \in Run : At(q, x, "get")' \/ At(q, x, "answered")'
               /\ page'[q] = "asking" =>
                      \/ page[q] = "asking"
                      \/ HasAccount(q)' \/ broken'[q] # {}
               /\ page'[q] = "home" =>
                      \/ page[q] = "home"
                      \/ HasAccount(q)' \/ "refused" \in broken'[q]
    PROVE  AccountIsThere'
  <1>1. ASSUME NEW q \in Phone
        PROVE  /\ HasAccount(q) => HasAccount(q)' \/ "refused" \in broken'[q]
               /\ broken[q] \subseteq broken'[q]
    BY AccountStays, BrokenGrows
  <1> QED
    BY <1>1 DEF AccountIsThere

LEMMA AccountStep ==
    TypeOK /\ RunsBelong /\ UserIsThere /\ AccountIsThere /\ [Next]_vars
        => AccountIsThere'
  <1> SUFFICES ASSUME TypeOK, RunsBelong, UserIsThere, AccountIsThere,
                      [Next]_vars
               PROVE  AccountIsThere'
    OBVIOUS
  <1> USE DEF uiVars
  <1>1. ASSUME NEW p \in Phone, Launch(p)
        PROVE  AccountIsThere'
    <2>1. /\ page'[p] = "asking" => user[p]
          /\ \A q \in Phone \ {p} : page'[q] = page[q]
          /\ page'[p] # "home"
          /\ UNCHANGED <<user, run, doc, leftover, broken>>
      BY <1>1 DEF Launch, OpenInit, OpenAuth, TypeOK
    <2>2. \A r \in Run : At(p, r, "idle")
      BY <1>1 DEF Launch, RunsBelong
    <2>3. user[p] => HasAccount(p) \/ broken[p] # {}
      BY <2>2 DEF AccountIsThere, At
    <2>4. \A q \in Phone : HasAccount(q)' <=> HasAccount(q)
      BY <2>1 DEF HasAccount, Pending, At
    <2> QED
      BY <2>1, <2>3, <2>4 DEF AccountIsThere, At
  <1>2. ASSUME NEW p \in Phone, InitAnswered(p)
        PROVE  AccountIsThere'
    <2>1. /\ page'[p] # "asking"
          /\ page'[p] = "home" => LocalDoc(p) # NoDoc
          /\ \A q \in Phone \ {p} : page'[q] = page[q]
          /\ UNCHANGED <<user, run, doc, leftover, broken>>
      BY <1>2 DEF InitAnswered, TypeOK
    <2>2. \A q \in Phone : HasAccount(q)' <=> HasAccount(q)
      BY <2>1 DEF HasAccount, Pending, At
    <2>3. page'[p] = "home" => HasAccount(p)
      BY <2>1, LocalDocIsThere
    <2> QED
      BY <2>1, <2>2, <2>3 DEF AccountIsThere, At
  <1>3. ASSUME NEW p \in Phone, SignOut(p)
        PROVE  AccountIsThere'
    <2>1. /\ page'[p] = "auth" /\ ~user'[p]
          /\ \A q \in Phone \ {p} : page'[q] = page[q] /\ user'[q] = user[q]
          /\ UNCHANGED <<run, doc, leftover, broken>>
      BY <1>3 DEF SignOut, OpenAuth, TypeOK
    <2> QED
      BY <2>1, AccountAfterStep DEF At
  <1>4. ASSUME NEW p \in Phone, NEW r \in Run,
               \/ VerificationCompleted(p, r) \/ TapConfirm(p, r)
               \/ SignInRefused(p, r)
        PROVE  AccountIsThere'
    <2>1. /\ UNCHANGED <<page, user>>
          /\ ~At(p, r, "get") /\ ~At(p, r, "answered")
          /\ ~At(p, r, "get")' /\ ~At(p, r, "answered")'
          /\ \A q \in Phone, x \in Run :
                q # p \/ x # r => run'[q][x] = run[q][x]
      BY <1>4 DEF VerificationCompleted, TapConfirm, StartRun, SignInRefused,
                  Idle, At, TypeOK
    <2> QED
      BY <2>1, AccountAfterStep DEF At
  <1>5. ASSUME NEW p \in Phone, NEW r \in Run, SignInDone(p, r)
        PROVE  AccountIsThere'
    <2>1. /\ UNCHANGED page /\ At(p, r, "get")' /\ ~At(p, r, "answered")'
          /\ \A q \in Phone, x \in Run :
                q # p \/ x # r => run'[q][x] = run[q][x]
          /\ \A q \in Phone \ {p} : user'[q] = user[q]
      BY <1>5 DEF SignInDone, At, TypeOK
    <2> QED
      BY <2>1, AccountAfterStep DEF At
  <1>6. ASSUME NEW p \in Phone, NEW r \in Run, DocAnswered(p, r)
        PROVE  AccountIsThere'
    <2>1. /\ UNCHANGED <<page, user, doc, leftover>> /\ At(p, r, "answered")'
          /\ run'[p][r].exists = (LocalDoc(p) # NoDoc)
          /\ ~At(p, r, "set")
          /\ \A q \in Phone, x \in Run :
                q # p \/ x # r => run'[q][x] = run[q][x]
      BY <1>6 DEF DocAnswered, At, TypeOK
    <2>2. HasAccount(p) => HasAccount(p)'
      BY <2>1 DEF HasAccount, Pending, At
    <2>3. run'[p][r].exists => HasAccount(p)'
      BY <2>1, <2>2, LocalDocIsThere
    <2> QED
      BY <2>1, <2>3, AccountAfterStep DEF At
  <1>7. ASSUME NEW p \in Phone, NEW r \in Run, Finish(p, r), UNCHANGED user,
               HasAccount(p)' \/ "refused" \in broken'[p]
        PROVE  AccountIsThere'
    <2>1. /\ run'[p][r] = Idle
          /\ \A q \in Phone, x \in Run : q # p \/ x # r =>
                /\ run'[q][x].at = run[q][x].at
                /\ run'[q][x].exists = run[q][x].exists
          /\ \A q \in Phone \ {p} : page'[q] = page[q]
      BY <1>7, FinishEffect DEF uiVars
    <2> QED
      BY <1>7, <2>1, AccountAfterStep DEF At, Idle
  <1>8. ASSUME NEW p \in Phone, NEW r \in Run, SignInResumes(p, r)
        PROVE  AccountIsThere'
    <2>1. At(p, r, "answered") /\ UNCHANGED <<user, doc, leftover, broken>>
      BY <1>8 DEF SignInResumes
    <2>2. CASE run[p][r].exists
      <3>1. HasAccount(p) \/ "refused" \in broken[p]
        BY <2>1, <2>2 DEF AccountIsThere
      <3>2. HasAccount(p)' \/ "refused" \in broken'[p]
        BY <2>1, <3>1, AccountStays
      <3> QED
        BY <1>7, <1>8, <2>1, <2>2, <3>2 DEF SignInResumes
    <2>3. CASE ~run[p][r].exists
      <3>1. run' = [run EXCEPT ![p][r].at = "set"] /\ UNCHANGED page
        BY <1>8, <2>3 DEF SignInResumes
      <3>2. /\ At(p, r, "set")' /\ \A q \in Phone, x \in Run :
                   q # p \/ x # r => run'[q][x] = run[q][x]
        BY <3>1 DEF At, TypeOK
      <3>3. HasAccount(p)'
        BY <3>2 DEF HasAccount, Pending
      <3> QED
        BY <2>1, <3>1, <3>2, <3>3, AccountAfterStep DEF At
    <2> QED
      BY <2>2, <2>3
  <1>9. ASSUME NEW p \in Phone, NEW r \in Run, SetCommitted(p, r)
        PROVE  AccountIsThere'
    <2>1. HasAccount(p)'
      BY <1>9, IdleType, SessionAssumption DEF SetCommitted, HasAccount
    <2> QED
      BY <1>7, <1>9, <2>1 DEF SetCommitted
  <1>10. ASSUME NEW p \in Phone, NEW r \in Run, RunFails(p, r)
         PROVE  AccountIsThere'
    <2>1. /\ UNCHANGED <<page, user>> /\ broken'[p] # {}
          /\ ~At(p, r, "answered")'
          /\ \A q \in Phone, x \in Run :
                q # p \/ x # r => run'[q][x] = run[q][x]
      BY <1>10 DEF RunFails, Breaks, Idle, At, TypeOK
    <2> QED
      BY <2>1, AccountAfterStep DEF At
  <1>11. ASSUME NEW p \in Phone, InitFails(p)
         PROVE  AccountIsThere'
    <2>1. UNCHANGED <<user, run>> /\ page'[p] = "stuck"
          /\ \A q \in Phone \ {p} : page'[q] = page[q]
      BY <1>11 DEF InitFails, TypeOK
    <2> QED
      BY <2>1, AccountAfterStep DEF At
  <1>12. ASSUME NEW p \in Phone, Kill(p)
         PROVE  AccountIsThere'
    <2>1. /\ page'[p] = "off" /\ UNCHANGED user
          /\ \A x \in Run : run'[p][x] = Idle
          /\ \A q \in Phone \ {p} : run'[q] = run[q] /\ page'[q] = page[q]
      BY <1>12 DEF Kill, TypeOK
    <2>2. (\E x \in Run : At(p, x, "get") \/ At(p, x, "answered"))
              => broken'[p] # {}
      <3>1. (\E x \in Run : At(p, x, "get") \/ At(p, x, "answered"))
                => broken' = [broken EXCEPT ![p] = @ \cup {"killed"}]
        BY <1>12 DEF Kill, Breaks
      <3>2. DOMAIN broken = Phone
        BY DEF TypeOK
      <3> QED
        BY <3>1, <3>2
    <2> QED
      BY <2>1, <2>2, AccountAfterStep DEF At, Idle
  <1>13. CASE UNCHANGED <<page, user, run>>
    BY <1>13, AccountAfterStep DEF At
  <1> QED
    BY <1>1, <1>2, <1>3, <1>4, <1>5, <1>6, <1>8, <1>9, <1>10, <1>11, <1>12,
       <1>13 DEF Next, VerificationAnswers, RunGoesOn, TapVerify, CodeSent,
       VerificationFailed, LeftoverCommitted, AnswerLost, LeftoverFails,
       Recharge, Promote, vars

(* /init is stuck for one of two reasons: it was, or it could not have its *)
(* document.                                                               *)
LEMMA StuckStep ==
    TypeOK /\ UserIsThere /\ AccountIsThere /\ StuckHasCause /\ [Next]_vars
        => StuckHasCause'
  <1> SUFFICES ASSUME TypeOK, UserIsThere, AccountIsThere, StuckHasCause,
                      [Next]_vars
               PROVE  StuckHasCause'
    OBVIOUS
  <1> USE DEF uiVars
  <1>1. \A q \in Phone : broken[q] \subseteq broken'[q]
    BY BrokenGrows
  <1>2. ASSUME NEW p \in Phone, InitAnswered(p)
        PROVE  StuckHasCause'
    <2>1. /\ page[p] = "asking" /\ UNCHANGED broken
          /\ page'[p] = "stuck" => ~user[p] \/ LocalDoc(p) = NoDoc
          /\ \A q \in Phone \ {p} : page'[q] = page[q]
      BY <1>2 DEF InitAnswered, TypeOK
    <2>2. page'[p] = "stuck" => broken[p] # {}
      BY <2>1, LocalDocIsThere DEF UserIsThere, AccountIsThere
    <2> QED
      BY <2>1, <2>2 DEF StuckHasCause
  <1>3. ASSUME NEW p \in Phone, InitFails(p)
        PROVE  StuckHasCause'
    BY <1>1, <1>3 DEF InitFails, Breaks, StuckHasCause, TypeOK
  <1>4. ASSUME \A q \in Phone : page'[q] = "stuck" => page[q] = "stuck"
        PROVE  StuckHasCause'
    BY <1>1, <1>4 DEF StuckHasCause
  <1>5. ASSUME NEW p \in Phone, NEW r \in Run,
               SignInResumes(p, r) \/ SetCommitted(p, r)
        PROVE  \A q \in Phone : page'[q] = "stuck" => page[q] = "stuck"
    <2>1. CASE Finish(p, r)
      BY <2>1, FinishEffect
    <2>2. CASE UNCHANGED page
      BY <2>2
    <2> QED
      BY <1>5, <2>1, <2>2 DEF SignInResumes, SetCommitted
  <1>6. ASSUME NEW p \in Phone, Launch(p) \/ SignOut(p) \/ Kill(p)
        PROVE  \A q \in Phone : page'[q] = "stuck" => page[q] = "stuck"
    <2>1. CASE Launch(p)
      BY <2>1 DEF Launch, OpenAuth, OpenInit, TypeOK
    <2>2. CASE SignOut(p)
      BY <2>2 DEF SignOut, OpenAuth, OpenInit, TypeOK
    <2>3. CASE Kill(p)
      BY <2>3 DEF Kill, TypeOK
    <2> QED
      BY <1>6, <2>1, <2>2, <2>3
  <1>7. CASE UNCHANGED page
    BY <1>4, <1>7
  <1> QED
    BY <1>2, <1>3, <1>4, <1>5, <1>6, <1>7, ZenonT(60) DEF Next,
       VerificationAnswers, RunGoesOn, TapVerify, CodeSent, VerificationFailed,
       VerificationCompleted, TapConfirm, SignInDone, SignInRefused,
       DocAnswered, LeftoverCommitted, AnswerLost, RunFails, LeftoverFails,
       Recharge, Promote, vars

(* The inductive invariant of the phones' sessions.                        *)
LEMMA SessionInvariant == Spec => []SessionInv
  <1>1. Init => SessionInv
    BY RunsBelongInit, AccountInit DEF SessionInv, Init, StuckHasCause
  <1>2. TypeOK /\ SessionInv /\ [Next]_vars => SessionInv'
    BY RunsBelongStep, UserIsThereStep, AccountStep, StuckStep DEF SessionInv
  <1> QED
    BY <1>1, <1>2, TypeCorrect, PTL DEF Spec

(* /init hangs only on a phone that had a Firestore failure or was killed  *)
(* between signing in and creating the document.                           *)
THEOREM StuckPagesHaveCause == Spec => []StuckHasCause
  <1>1. SessionInv => StuckHasCause
    BY DEF SessionInv
  <1> QED
    BY <1>1, SessionInvariant, PTL

(* A home page is shown to a user whose account has a document, unless     *)
(* Firestore refused to write it.                                          *)
THEOREM HomePagesHaveAccount == Spec => []HomeHasAccount
  <1>1. SessionInv => HomeHasAccount
    BY LocalDocIsThere
       DEF SessionInv, UserIsThere, AccountIsThere, HomeHasAccount
  <1> QED
    BY <1>1, SessionInvariant, PTL

-----------------------------------------------------------------------------
(* The account is kept.                                                    *)

(* A run that is going to write the document, or does.                     *)
Claims(p, r) == At(p, r, "set") \/ (At(p, r, "answered") /\ ~run[p][r].exists)

(* Unless two runs raced, one set() at most is to come, from all phones    *)
(* together, and none once there is a document.                            *)
OneWriter ==
    ~raced =>
        /\ \A p, q \in Phone, r, x \in Run :
              Claims(p, r) /\ Claims(q, x) => p = q /\ r = x
        /\ \A p, q \in Phone : leftover[p] > 0 /\ leftover[q] > 0 => p = q
        /\ \A p \in Phone : leftover[p] \in {0, 1}
        /\ \A p, q \in Phone, r \in Run : Claims(p, r) => leftover[q] = 0
        /\ \A p \in Phone, r \in Run : Claims(p, r) => doc = NoDoc
        /\ \A p \in Phone : leftover[p] > 0 => doc = NoDoc

LEMMA OneWriterInit == Init => OneWriter
  BY DEF Init, OneWriter, Claims, At, Idle

(* A step that adds no claim and takes no document away.                   *)
LEMMA NoNewClaim ==
    ASSUME OneWriter, raced => raced', UNCHANGED <<doc, leftover>>,
           \A q \in Phone, x \in Run : Claims(q, x)' => Claims(q, x)
    PROVE  OneWriter'
  BY DEF OneWriter

(* The only step that adds one sees every other phone's.                   *)
LEMMA ClaimsAfterDocAnswered ==
    ASSUME TypeOK, OneWriter, NEW p \in Phone, NEW r \in Run, DocAnswered(p, r)
    PROVE  OneWriter'
  <1>1. /\ UNCHANGED <<doc, leftover>> /\ At(p, r, "answered")'
        /\ run'[p][r].exists = (LocalDoc(p) # NoDoc)
        /\ \A q \in Phone, x \in Run :
              q # p \/ x # r => run'[q][x] = run[q][x]
    BY DEF DocAnswered, At, TypeOK
  <1>2. raced' = (raced \/ (/\ LocalDoc(p) = NoDoc
                            /\ \E q \in Phone : Held(q) # {} \/ Pending(q)))
    BY DEF DocAnswered
  <1>3. CASE raced'
    BY <1>3 DEF OneWriter
  <1>4. CASE ~raced' /\ LocalDoc(p) # NoDoc
    <2>1. \A q \in Phone, x \in Run : Claims(q, x)' => Claims(q, x)
      BY <1>1, <1>4 DEF Claims, At
    <2>2. raced => raced'
      BY <1>2
    <2> QED
      BY <1>1, <2>1, <2>2, NoNewClaim
  <1>5. CASE ~raced' /\ LocalDoc(p) = NoDoc
    <2>1. \A q \in Phone : Held(q) = {} /\ ~Pending(q)
      BY <1>2, <1>5
    <2>2. \A q \in Phone, x \in Run : ~Claims(q, x)
      BY <2>1 DEF Held, Pending, Claims, At
    <2>3. \A q \in Phone : leftover[q] = 0
      BY <2>1 DEF Pending, TypeOK
    <2>4. doc = NoDoc
      BY <1>5, <2>1 DEF LocalDoc
    <2>5. \A q \in Phone, x \in Run : Claims(q, x)' => q = p /\ x = r
      BY <1>1, <2>2 DEF Claims, At
    <2> QED
      BY <1>1, <2>3, <2>4, <2>5 DEF OneWriter
  <1> QED
    BY <1>3, <1>4, <1>5

(* The set() calls of a phone that is killed: one at most.                 *)
LEMMA ClaimsAfterKill ==
    ASSUME TypeOK, OneWriter, NEW p \in Phone, Kill(p)
    PROVE  OneWriter'
  <1> DEFINE S == {r \in Run : At(p, r, "set")}
  <1>1. /\ UNCHANGED <<doc, raced>>
        /\ leftover'[p] = leftover[p] + Cardinality(S)
        /\ \A q \in Phone \ {p} : /\ leftover'[q] = leftover[q]
                                  /\ run'[q] = run[q]
        /\ \A x \in Run : run'[p][x] = Idle
    BY DEF Kill, TypeOK
  <1>2. /\ \A x \in Run : ~Claims(p, x)'
        /\ \A q \in Phone \ {p}, x \in Run : Claims(q, x)' <=> Claims(q, x)
    BY <1>1 DEF Claims, At, Idle
  <1>3. CASE raced
    BY <1>1, <1>3 DEF OneWriter
  <1>4. CASE ~raced /\ S = {}
    <2>1. Cardinality(S) = 0
      BY <1>4, FS_EmptySet
    <2>2. leftover' = leftover
      BY <1>1, <2>1 DEF Kill, TypeOK
    <2> QED
      BY <1>1, <1>2, <2>2, NoNewClaim
  <1>5. CASE ~raced /\ S # {}
    <2>1. PICK r \in Run : At(p, r, "set")
      BY <1>5
    <2>2. Claims(p, r)
      BY <2>1 DEF Claims
    <2>3. S = {r}
      BY <1>5, <2>1, <2>2 DEF OneWriter, Claims
    <2>4. Cardinality(S) = 1
      BY <2>3, FS_Singleton
    <2>5. doc = NoDoc /\ \A q \in Phone : leftover[q] = 0
      BY <1>5, <2>2 DEF OneWriter
    <2>6. leftover'[p] = 1 /\ \A q \in Phone \ {p} : leftover'[q] = 0
      BY <1>1, <2>4, <2>5
    <2>7. \A q \in Phone, x \in Run : ~Claims(q, x)'
      BY <1>2, <1>5, <2>2 DEF OneWriter
    <2> QED
      BY <1>1, <2>5, <2>6, <2>7 DEF OneWriter
  <1> QED
    BY <1>3, <1>4, <1>5

LEMMA OneWriterStep == TypeOK /\ OneWriter /\ [Next]_vars => OneWriter'
  <1> SUFFICES ASSUME TypeOK, OneWriter, [Next]_vars
               PROVE  OneWriter'
    OBVIOUS
  <1> USE DEF uiVars
  <1>1. ASSUME NEW p \in Phone, NEW r \in Run,
               \/ VerificationCompleted(p, r) \/ TapConfirm(p, r)
               \/ SignInDone(p, r) \/ SignInRefused(p, r) \/ RunFails(p, r)
        PROVE  OneWriter'
    <2>1. UNCHANGED <<doc, leftover, raced>>
      BY <1>1 DEF VerificationCompleted, TapConfirm, SignInDone,
                  SignInRefused, RunFails
    <2>2. \A q \in Phone, x \in Run :
              q # p \/ x # r => run'[q][x] = run[q][x]
      BY <1>1 DEF VerificationCompleted, TapConfirm, StartRun, SignInDone,
                  SignInRefused, RunFails, TypeOK
    <2>3. run'[p][r].at \in {"credential", "get", "idle"}
      <3>1. CASE VerificationCompleted(p, r) \/ TapConfirm(p, r)
        BY <3>1 DEF VerificationCompleted, TapConfirm, StartRun, TypeOK
      <3>2. CASE SignInDone(p, r)
        BY <3>2 DEF SignInDone, TypeOK, RunState
      <3>3. CASE SignInRefused(p, r) \/ RunFails(p, r)
        BY <3>3 DEF SignInRefused, RunFails, Idle, TypeOK
      <3> QED
        BY <1>1, <3>1, <3>2, <3>3
    <2>4. \A q \in Phone, x \in Run : Claims(q, x)' => Claims(q, x)
      BY <2>2, <2>3 DEF Claims, At
    <2> QED
      BY <2>1, <2>4, NoNewClaim
  <1>2. ASSUME NEW p \in Phone, NEW r \in Run, DocAnswered(p, r)
        PROVE  OneWriter'
    BY <1>2, ClaimsAfterDocAnswered
  <1>3. ASSUME NEW p \in Phone, NEW r \in Run, Finish(p, r)
        PROVE  \A q \in Phone, x \in Run :
                   Claims(q, x)' => Claims(q, x) /\ (q # p \/ x # r)
    BY <1>3, FinishEffect DEF Claims, At, Idle
  <1>4. ASSUME NEW p \in Phone, NEW r \in Run, SignInResumes(p, r)
        PROVE  OneWriter'
    <2>1. UNCHANGED <<doc, leftover, raced>> /\ At(p, r, "answered")
      BY <1>4 DEF SignInResumes
    <2>2. \A q \in Phone, x \in Run : Claims(q, x)' => Claims(q, x)
      <3>1. CASE run[p][r].exists
        BY <1>3, <1>4, <3>1 DEF SignInResumes
      <3>2. CASE ~run[p][r].exists
        <4>1. \A q \in Phone, x \in Run :
                  q # p \/ x # r => run'[q][x] = run[q][x]
          BY <1>4, <3>2 DEF SignInResumes, TypeOK
        <4> QED
          BY <2>1, <3>2, <4>1 DEF Claims, At
      <3> QED
        BY <3>1, <3>2
    <2> QED
      BY <2>1, <2>2, NoNewClaim
  <1>5. ASSUME NEW p \in Phone, NEW r \in Run, SetCommitted(p, r)
        PROVE  OneWriter'
    <2>1. /\ UNCHANGED <<leftover, raced>> /\ Claims(p, r) /\ Finish(p, r)
      BY <1>5 DEF SetCommitted, Claims
    <2>2. ~raced => /\ \A q \in Phone, x \in Run : ~Claims(q, x)'
                    /\ \A q \in Phone : leftover[q] = 0
      BY <1>3, <2>1 DEF OneWriter
    <2> QED
      BY <2>1, <2>2 DEF OneWriter
  <1>6. ASSUME NEW p \in Phone, LeftoverCommitted(p) \/ LeftoverFails(p)
        PROVE  OneWriter'
    <2>1. /\ UNCHANGED <<run, raced>> /\ leftover[p] > 0
          /\ leftover'[p] = leftover[p] - 1
          /\ \A q \in Phone \ {p} : leftover'[q] = leftover[q]
      BY <1>6 DEF LeftoverCommitted, LeftoverFails, TypeOK
    <2>2. ~raced => \A q \in Phone, x \in Run : ~Claims(q, x)
      BY <2>1 DEF OneWriter
    <2>3. ~raced => \A q \in Phone : leftover'[q] = 0
      <3>1. \A q \in Phone : leftover[q] \in Nat
        BY DEF TypeOK
      <3> QED
        BY <2>1, <3>1 DEF OneWriter
    <2>4. \A q \in Phone, x \in Run : Claims(q, x)' <=> Claims(q, x)
      BY <2>1 DEF Claims, At
    <2> QED
      BY <2>1, <2>2, <2>3, <2>4 DEF OneWriter
  <1>7. ASSUME NEW p \in Phone, AnswerLost(p)
        PROVE  OneWriter'
    BY <1>7 DEF AnswerLost, OneWriter
  <1>8. ASSUME NEW p \in Phone, Kill(p)
        PROVE  OneWriter'
    BY <1>8, ClaimsAfterKill
  <1>9. ASSUME Recharge \/ Promote
        PROVE  OneWriter'
    <2>1. doc # NoDoc /\ UNCHANGED <<run, leftover, raced>>
      BY <1>9 DEF Recharge, Promote
    <2>2. \A q \in Phone, x \in Run : Claims(q, x)' <=> Claims(q, x)
      BY <2>1 DEF Claims, At
    <2> QED
      BY <2>1, <2>2 DEF OneWriter
  <1>10. CASE UNCHANGED <<doc, run, leftover, raced>>
    BY <1>10, NoNewClaim DEF Claims, At
  <1> QED
    BY <1>1, <1>2, <1>4, <1>5, <1>6, <1>7, <1>8, <1>9, <1>10 DEF Next,
       VerificationAnswers, RunGoesOn, Launch, InitAnswered, SignOut,
       TapVerify, CodeSent, VerificationFailed, InitFails, vars

(* An account that exists keeps its balance and its role, whatever phones  *)
(* sign in, unless two runs both held the answer that it did not exist or  *)
(* a set() is carried out twice.                                           *)
THEOREM AccountIsKept == Spec => AccountKept
  <1> DEFINE Kept == doc' # NoDoc /\ doc'.Balance >= doc.Balance
                         /\ (doc.isAdmin => doc'.isAdmin)
  <1>1. TypeOK /\ TypeOK' /\ OneWriter /\ [Next]_vars
            => [doc # NoDoc /\ ~raced => Kept]_vars
    <2> SUFFICES ASSUME TypeOK, TypeOK', OneWriter, Next, doc # NoDoc, ~raced
                 PROVE  Kept
      OBVIOUS
    <2>1. /\ doc \in Account /\ doc.Balance \in Nat
          /\ doc' \in Account \cup {NoDoc}
      BY SessionAssumption DEF TypeOK, Account
    <2>2. \A q \in Phone : ~Pending(q)
      BY DEF OneWriter, Pending, Claims
    <2>3. CASE UNCHANGED doc
      BY <2>1, <2>3
    <2>4. CASE Recharge
      <3>1. doc' = [doc EXCEPT !.Balance = doc.Balance + 1]
        BY <2>4 DEF Recharge
      <3>2. doc'.Balance = doc.Balance + 1 /\ doc'.isAdmin = doc.isAdmin
        BY <2>1, <3>1 DEF Account
      <3>3. doc.Balance + 1 \in 0 .. MaxBalance
        BY <2>1, <2>4, SessionAssumption DEF Recharge
      <3>4. doc' \in Account
        BY <2>1, <3>1, <3>3 DEF Account
      <3> QED
        BY <2>1, <3>2, <3>4, SessionAssumption
    <2>5. CASE Promote
      <3>1. doc' = [doc EXCEPT !.isAdmin = TRUE]
        BY <2>5 DEF Promote
      <3>2. /\ doc'.Balance = doc.Balance /\ doc'.isAdmin
            /\ doc' \in Account
        BY <2>1, <3>1 DEF Account
      <3> QED
        BY <2>1, <3>2, SessionAssumption
    <2>6. ASSUME NEW p \in Phone
          PROVE  /\ ~LeftoverCommitted(p) /\ ~AnswerLost(p)
                 /\ \A r \in Run : ~SetCommitted(p, r)
      BY <2>2 DEF Pending, SetCommitted, LeftoverCommitted, AnswerLost
    <2>7. ASSUME NEW p \in Phone, NEW r \in Run,
                 \/ TapConfirm(p, r) \/ VerificationCompleted(p, r)
                 \/ RunGoesOn(p, r) \/ RunFails(p, r)
          PROVE  UNCHANGED doc
      BY <2>6, <2>7 DEF TapConfirm, VerificationCompleted, RunGoesOn,
         SignInDone, SignInRefused, DocAnswered, SignInResumes, RunFails
    <2> QED
      BY <2>3, <2>4, <2>5, <2>6, <2>7 DEF Next, VerificationAnswers, Launch,
         InitAnswered, SignOut, TapVerify, CodeSent, VerificationFailed,
         LeftoverFails, InitFails, Kill
  <1> QED
    BY <1>1, TypeInit, TypeStep, OneWriterInit, OneWriterStep, PTL
       DEF Spec, AccountKept
=============================================================================
