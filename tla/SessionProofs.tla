--------------------------- MODULE SessionProofs ---------------------------
(***************************************************************************)
(* Theorems about Session for any number of tabs and tokens.               *)
(***************************************************************************)
EXTENDS Session, TLAPS

\* A token that is not issued has no age: it cannot be an expired one.
Unissued == \A t \in Tokens : t > issued => age[t] = "none"

\* A request is refused for what it carried: no token, or one that expired.
RefusedHadNone ==
    \A b \in Tabs : request[b].pc = "refused" => request[b].token = None \/ Expired(request[b].token)

\* TabsAgree is inductive with the type and Unissued; RefusedHadNone is what
\* NoticeEarned needs besides.
IInv == TypeOK /\ Unissued /\ RefusedHadNone /\ TabsAgree

LEMMA NoneIsNoToken == None \notin Tokens
BY DEF None, Tokens

LEMMA InitIInv == Init => IInv
BY SessionBounds DEF Init, IInv, TypeOK, Unissued, RefusedHadNone, TabsAgree, SignedOut, Tokens, None

-----------------------------------------------------------------------------
(* The helpers.                                                             *)

TabState == [session : Tokens \cup {None}, warned : BOOLEAN, notice : BOOLEAN,
             warn : BOOLEAN, expire : BOOLEAN, clamped : BOOLEAN]

LEMMA CurrentType ==
  ASSUME TypeOK
  PROVE  Current \in Tokens \cup {None}
BY DEF TypeOK, Current

\* A session is what SignedIn and SignedOut make of it.
LEMMA SignedInType ==
  ASSUME NEW t \in Tokens, NEW d \in BOOLEAN, NEW w \in BOOLEAN, NEW n \in BOOLEAN
  PROVE  /\ SignedIn(t, d, w, n) \in TabState
         /\ SignedIn(t, d, w, n).session = t /\ t # None /\ SignedIn(t, d, w, n).notice = n
BY NoneIsNoToken DEF SignedIn, TabState

LEMMA SignedOutType ==
  ASSUME NEW n \in BOOLEAN
  PROVE  /\ SignedOut(n) \in TabState
         /\ SignedOut(n).session = None /\ SignedOut(n).notice = n
         /\ ~ SignedOut(n).warn /\ ~ SignedOut(n).expire
BY DEF SignedOut, TabState

\* What a tab adopts has the session of the storage, and its own notice.
LEMMA AdoptType ==
  ASSUME TypeOK, NEW b \in Tabs
  PROVE  /\ Adopt(b) \in TabState
         /\ Adopt(b).session = Current /\ Adopt(b).notice = tab[b].notice
         /\ Adopt(b).warn \/ Adopt(b).expire => Adopt(b).session # None
<1>1. tab[b] \in TabState
  BY DEF TypeOK, TabState
<1>2. CASE Current = None
  <2>1. Adopt(b) = Without(b)
    BY <1>2 DEF Adopt
  <2>2. Without(b) \in TabState
    BY <1>1 DEF Without, TabState
  <2>3. /\ Without(b).session = None /\ Without(b).notice = tab[b].notice
        /\ ~ Without(b).warn /\ ~ Without(b).expire
    BY <1>1 DEF Without, TabState
  <2>4. QED
    BY <1>2, <2>1, <2>2, <2>3
<1>3. CASE Current # None
  <2>1. Adopt(b) = SignedIn(Current, Distant(Current), tab[b].warned, tab[b].notice)
    BY <1>3 DEF Adopt
  <2>2. Current \in Tokens /\ Distant(Current) \in BOOLEAN
    BY <1>3, CurrentType DEF Distant
  <2>3. tab[b].warned \in BOOLEAN /\ tab[b].notice \in BOOLEAN
    BY <1>1 DEF TabState
  <2>4. QED
    BY <1>3, <2>1, <2>2, <2>3, SignedInType
<1>4. QED
  BY <1>2, <1>3

\* A write of the storage: the tabs without an event to handle, the author
\* apart, have seen no change.
LEMMA StoreEffect ==
  ASSUME TypeOK, NEW b \in Tabs, NEW t \in Tokens \cup {None}, Store(b, t)
  PROVE  /\ storage' = t /\ storage' \in Tokens \cup {None} /\ event' \in [Tabs -> Nat]
         /\ event'[b] = event[b]
         /\ \A c \in Tabs : c # b /\ event'[c] = 0 => event[c] = 0 /\ storage' = storage
BY DEF TypeOK, Store

\* Nothing brings an expired token back.
LEMMA ExpiredStays ==
  ASSUME TypeOK, Unissued, Next, NEW t \in Tokens, age[t] = "expired"
  PROVE  age'[t] = "expired"
<1>2. CASE \E u \in Tokens : Age(u)
  BY <1>2 DEF TypeOK, Age
<1>3. CASE \E b \in Tabs : LoginDone(b)
  <2>1. t # issued + 1
    BY SessionBounds DEF Unissued, TypeOK, Tokens
  <2>2. QED
    BY <1>3, <2>1 DEF TypeOK, LoginDone
<1>4. CASE age' = age
  BY <1>4
<1>5. QED
  BY <1>2, <1>3, <1>4 DEF Next, TabStep, WarnTimer, ExpiryTimer, Refused, Sync, Send, Accept, Refuse,
     Submit, LoginFails, Logout, Reload

-----------------------------------------------------------------------------
(* Every step preserves the type.                                           *)

\* The type in parts: a step writes some of them.
Armed(r) == r.warn \/ r.expire => r.session # None
TabsOK == tab \in [Tabs -> TabState] /\ \A b \in Tabs : Armed(tab[b])
StorageOK == storage \in Tokens \cup {None} /\ event \in [Tabs -> Nat]
TokensOK == age \in [Tokens -> {"none", "distant", "fresh", "ending", "expired"}] /\ issued \in 0..MaxTokens
CallsOK ==
    /\ request \in [Tabs -> [pc : {"idle", "sent", "refused"}, token : Tokens \cup {None}]]
    /\ login \in [Tabs -> {"idle", "sent"}]

LEMMA TypeParts == TypeOK <=> TabsOK /\ StorageOK /\ TokensOK /\ CallsOK
BY DEF TypeOK, TabsOK, StorageOK, TokensOK, CallsOK, TabState, Armed

\* One tab is written.
LEMMA TabWritten ==
  ASSUME TabsOK, NEW b \in Tabs, NEW r \in TabState, Armed(r), tab' = [tab EXCEPT ![b] = r]
  PROVE  TabsOK'
<1>1. tab' \in [Tabs -> TabState]
  BY DEF TabsOK
<1>2. ASSUME NEW c \in Tabs PROVE Armed(tab'[c])
  <2>1. tab'[c] = IF c = b THEN r ELSE tab[c]
    BY DEF TabsOK
  <2>2. QED
    BY <2>1 DEF TabsOK
<1>3. QED
  BY <1>1, <1>2 DEF TabsOK, Armed

\* The sessions that the actions give a tab.
LEMMA GivenSessions ==
  ASSUME TypeOK, NEW b \in Tabs
  PROVE  /\ \A n \in BOOLEAN : SignedOut(n) \in TabState /\ Armed(SignedOut(n))
         /\ \A t \in Tokens, d \in BOOLEAN :
               SignedIn(t, d, FALSE, FALSE) \in TabState /\ Armed(SignedIn(t, d, FALSE, FALSE))
         /\ Adopt(b) \in TabState /\ Armed(Adopt(b))
<1>1. \A n \in BOOLEAN : SignedOut(n) \in TabState /\ Armed(SignedOut(n))
  BY SignedOutType DEF Armed
<1>2. \A t \in Tokens, d \in BOOLEAN :
        SignedIn(t, d, FALSE, FALSE) \in TabState /\ Armed(SignedIn(t, d, FALSE, FALSE))
  BY SignedInType DEF Armed
<1>3. Adopt(b) \in TabState /\ Armed(Adopt(b))
  BY AdoptType DEF Armed
<1>4. QED
  BY <1>1, <1>2, <1>3

LEMMA TabsStep ==
  ASSUME TypeOK, Next
  PROVE  TabsOK'
<1>1. TabsOK
  BY TypeParts
<1>2. CASE tab' = tab
  BY <1>1, <1>2 DEF TabsOK, Armed
<1>3. ASSUME NEW b \in Tabs, WarnTimer(b) \/ Submit(b) PROVE TabsOK'
  <2>1. PICK r \in TabState : Armed(r) /\ tab' = [tab EXCEPT ![b] = r]
    <3>1. tab[b] \in TabState /\ Armed(tab[b])
      BY <1>1 DEF TabsOK
    <3>2. CASE WarnTimer(b)
      <4>1. [tab[b] EXCEPT !.warned = TRUE, !.warn = FALSE] \in TabState
        BY <3>1 DEF TabState
      <4>2. Armed([tab[b] EXCEPT !.warned = TRUE, !.warn = FALSE])
        BY <3>1 DEF TabState, Armed
      <4>3. tab' = [tab EXCEPT ![b] = [tab[b] EXCEPT !.warned = TRUE, !.warn = FALSE]]
        BY <1>1, <3>2 DEF WarnTimer, TabsOK
      <4>4. QED
        BY <4>1, <4>2, <4>3
    <3>3. CASE Submit(b)
      <4>1. [tab[b] EXCEPT !.notice = FALSE] \in TabState
        BY <3>1 DEF TabState
      <4>2. Armed([tab[b] EXCEPT !.notice = FALSE])
        BY <3>1 DEF TabState, Armed
      <4>3. tab' = [tab EXCEPT ![b] = [tab[b] EXCEPT !.notice = FALSE]]
        BY <1>1, <3>3 DEF Submit, TabsOK
      <4>4. QED
        BY <4>1, <4>2, <4>3
    <3>4. QED
      BY <1>3, <3>2, <3>3
  <2>2. QED
    BY <1>1, <2>1, TabWritten
<1>4. ASSUME NEW b \in Tabs, ExpiryTimer(b) \/ Refused(b) PROVE TabsOK'
  BY <1>1, <1>4, TabWritten, GivenSessions DEF ExpiryTimer, Refused, Expire
<1>5. ASSUME NEW b \in Tabs, Logout(b) PROVE TabsOK'
  BY <1>1, <1>5, TabWritten, GivenSessions DEF Logout
<1>6. ASSUME NEW b \in Tabs, Sync(b) PROVE TabsOK'
  BY <1>1, <1>6, TabWritten, GivenSessions DEF Sync
<1>7. ASSUME NEW b \in Tabs, LoginDone(b) PROVE TabsOK'
  <2>1. issued + 1 \in Tokens
    BY <1>7, SessionBounds DEF TypeOK, LoginDone, Tokens
  <2>2. QED
    BY <1>1, <1>7, <2>1, TabWritten, GivenSessions DEF LoginDone
<1>8. ASSUME NEW b \in Tabs, Reload(b) PROVE TabsOK'
  <2>1. CASE Current = None
    BY <1>1, <1>8, <2>1, TabWritten, GivenSessions DEF Reload
  <2>2. CASE Current # None
    BY <1>1, <1>8, <2>2, CurrentType, TabWritten, GivenSessions DEF Reload, Distant
  <2>3. QED
    BY <2>1, <2>2
<1>9. QED
  BY <1>2, <1>3, <1>4, <1>5, <1>6, <1>7, <1>8 DEF Next, TabStep, Age, Send, Accept, Refuse, LoginFails

LEMMA StorageStep ==
  ASSUME TypeOK, Next
  PROVE  StorageOK'
<1>1. ASSUME NEW b \in Tabs, NEW t \in Tokens \cup {None}, Store(b, t) PROVE StorageOK'
  BY <1>1, StoreEffect DEF StorageOK
<1>2. CASE UNCHANGED <<storage, event>>
  BY <1>2 DEF TypeOK, StorageOK
<1>3. ASSUME NEW b \in Tabs, Sync(b) \/ Reload(b) PROVE StorageOK'
  <2>1. storage' \in Tokens \cup {None}
    BY <1>3, CurrentType DEF Sync, Reload
  <2>2. CASE Sync(b)
    <3>1. event[b] - 1 \in Nat
      BY <2>2 DEF TypeOK, Sync
    <3>2. event' \in [Tabs -> Nat]
      BY <2>2, <3>1 DEF TypeOK, Sync
    <3>3. QED
      BY <2>1, <3>2 DEF StorageOK
  <2>3. CASE Reload(b)
    <3>1. event' \in [Tabs -> Nat]
      BY <2>3 DEF TypeOK, Reload
    <3>2. QED
      BY <2>1, <3>1 DEF StorageOK
  <2>4. QED
    BY <1>3, <2>2, <2>3
<1>4. ASSUME NEW b \in Tabs, ExpiryTimer(b) \/ Refused(b) \/ Logout(b) PROVE StorageOK'
  BY <1>1, <1>4 DEF ExpiryTimer, Refused, Logout, Expire
<1>5. ASSUME NEW b \in Tabs, Send(b) \/ Submit(b) PROVE StorageOK'
  BY <1>1, <1>5, CurrentType DEF Send, Submit
<1>6. ASSUME NEW b \in Tabs, LoginDone(b) PROVE StorageOK'
  <2>1. issued + 1 \in Tokens
    BY <1>6, SessionBounds DEF TypeOK, LoginDone, Tokens
  <2>2. QED
    BY <1>1, <1>6, <2>1 DEF LoginDone
<1>7. QED
  BY <1>2, <1>3, <1>4, <1>5, <1>6 DEF Next, TabStep, Age, WarnTimer, Accept, Refuse, LoginFails

LEMMA TokensStep ==
  ASSUME TypeOK, Next
  PROVE  TokensOK'
<1>1. CASE \E t \in Tokens : Age(t)
  BY <1>1 DEF TypeOK, TokensOK, Age
<1>2. CASE \E b \in Tabs : LoginDone(b)
  BY <1>2, SessionBounds, SessionLifetimes DEF TypeOK, TokensOK, LoginDone, Tokens
<1>3. CASE UNCHANGED <<age, issued>>
  BY <1>3 DEF TypeOK, TokensOK
<1>4. QED
  BY <1>1, <1>2, <1>3 DEF Next, TabStep, WarnTimer, ExpiryTimer, Refused, Sync, Send, Accept, Refuse,
     Submit, LoginFails, Logout, Reload

LEMMA CallsStep ==
  ASSUME TypeOK, Next
  PROVE  CallsOK'
<1>1. CASE UNCHANGED <<request, login>>
  BY <1>1 DEF TypeOK, CallsOK
<1>2. ASSUME NEW b \in Tabs, Refused(b) \/ Accept(b) \/ Refuse(b) PROVE CallsOK'
  <2>1. CallsOK /\ login' = login
    BY <1>2, TypeParts DEF Refused, Accept, Refuse
  <2>2. CASE Refuse(b)
    BY <2>1, <2>2 DEF CallsOK, Refuse
  <2>3. CASE request' = [request EXCEPT ![b] = [pc |-> "idle", token |-> None]]
    BY <2>1, <2>3 DEF CallsOK
  <2>4. QED
    BY <1>2, <2>2, <2>3 DEF Refused, Accept
<1>3. ASSUME NEW b \in Tabs, Send(b) PROVE CallsOK'
  BY <1>3, CurrentType DEF TypeOK, CallsOK, Send
<1>4. ASSUME NEW b \in Tabs, Submit(b) \/ LoginFails(b) \/ LoginDone(b) PROVE CallsOK'
  BY <1>4 DEF TypeOK, CallsOK, Submit, LoginFails, LoginDone
<1>5. ASSUME NEW b \in Tabs, Reload(b) PROVE CallsOK'
  BY <1>5 DEF TypeOK, CallsOK, Reload
<1>6. QED
  BY <1>1, <1>2, <1>3, <1>4, <1>5 DEF Next, TabStep, Age, WarnTimer, ExpiryTimer, Sync, Logout

LEMMA TypeStep ==
  ASSUME TypeOK, Next
  PROVE  TypeOK'
BY TypeParts, TabsStep, StorageStep, TokensStep, CallsStep
   DEF TypeOK, TabsOK, StorageOK, TokensOK, CallsOK, TabState, Armed

-----------------------------------------------------------------------------
(* Every step preserves the rest of the invariant.                          *)

LEMMA UnissuedStep ==
  ASSUME TypeOK, Unissued, Next
  PROVE  Unissued'
<1>1. CASE \E t \in Tokens : Age(t)
  BY <1>1 DEF TypeOK, Unissued, Age
<1>2. CASE \E b \in Tabs : LoginDone(b)
  BY <1>2, SessionBounds DEF TypeOK, Unissued, LoginDone, Tokens
<1>3. CASE UNCHANGED <<age, issued>>
  BY <1>3 DEF Unissued
<1>4. QED
  BY <1>1, <1>2, <1>3 DEF Next, TabStep, WarnTimer, ExpiryTimer, Refused, Sync, Send, Accept, Refuse,
     Submit, LoginFails, Logout, Reload

LEMMA RefusedStep ==
  ASSUME TypeOK, Unissued, RefusedHadNone, Next
  PROVE  RefusedHadNone'
<1> SUFFICES ASSUME NEW b \in Tabs, request'[b].pc = "refused"
             PROVE  request'[b].token = None \/ age'[request'[b].token] = "expired"
  BY DEF RefusedHadNone, Expired
<1>1. CASE request'[b] = request[b]
  BY <1>1, ExpiredStays DEF TypeOK, RefusedHadNone, Expired
<1>2. CASE Refuse(b)
  <2>1. request'[b].token = request[b].token /\ age' = age
    BY <1>2 DEF TypeOK, Refuse
  <2>2. QED
    BY <1>2, <2>1 DEF Refuse, Expired
<1>3. CASE request'[b] # request[b] /\ ~ Refuse(b)
  <2>1. PICK c \in Tabs : Refused(c) \/ Send(c) \/ Accept(c) \/ Refuse(c) \/ Reload(c)
    BY <1>3 DEF Next, TabStep, Age, WarnTimer, ExpiryTimer, Sync, Submit, LoginFails, LoginDone, Logout
  <2>2. c = b
    BY <1>3, <2>1 DEF TypeOK, Refused, Send, Accept, Refuse, Reload
  <2>3. CASE Refused(b) \/ Accept(b)
    BY <2>3 DEF TypeOK, Refused, Accept
  <2>4. CASE Send(b)
    BY <2>4 DEF TypeOK, Send
  <2>5. CASE Reload(b)
    BY <2>5 DEF TypeOK, Reload
  <2>6. QED
    BY <1>3, <2>1, <2>2, <2>3, <2>4, <2>5
<1>4. QED
  BY <1>1, <1>2, <1>3

Agrees(c) == tab[c].session = storage \/ Expired(tab[c].session)

\* One case per step that writes the storage or a tab's session.
LEMMA AgreeStep ==
  ASSUME IInv, Next
  PROVE  TabsAgree'
<1> USE DEF IInv
<1> SUFFICES ASSUME NEW c \in Tabs, event'[c] = 0
             PROVE  Agrees(c)'
  BY DEF TabsAgree, Agrees
\* The tab's session is as it was, and the storage too.
<1>1. ASSUME tab'[c].session = tab[c].session, event[c] = 0, storage' = storage
      PROVE  Agrees(c)'
  BY <1>1, ExpiredStays DEF TypeOK, TabsAgree, Agrees, Expired
\* The storage loses an expired session, which its tab may still have.
<1>2. ASSUME tab'[c].session = tab[c].session, event[c] = 0, storage' = Current
      PROVE  Agrees(c)'
  BY <1>2, <1>1, ExpiredStays DEF TypeOK, TabsAgree, Agrees, Current, Expired
<1>3. ASSUME NEW t \in Tokens, Age(t) PROVE Agrees(c)'
  BY <1>1, <1>3 DEF Age
<1>4. ASSUME NEW b \in Tabs, WarnTimer(b) PROVE Agrees(c)'
  BY <1>1, <1>4 DEF TypeOK, WarnTimer
<1>5. ASSUME NEW b \in Tabs, NEW t \in Tokens \cup {None}, Store(b, t),
             tab'[b].session = t \/ (t = Current /\ tab'[b].session = tab[b].session),
             \A d \in Tabs : d # b => tab'[d] = tab[d]
      PROVE  Agrees(c)'
  <2>1. CASE c # b
    BY <1>1, <1>5, <2>1, StoreEffect
  <2>2. CASE c = b
    <3>1. CASE tab'[b].session = t
      BY <1>5, <2>2, <3>1, StoreEffect DEF Agrees
    <3>2. CASE t = Current /\ tab'[b].session = tab[b].session
      BY <1>2, <1>5, <2>2, <3>2, StoreEffect
    <3>3. QED
      BY <1>5, <3>1, <3>2
  <2>3. QED
    BY <2>1, <2>2
<1>6. ASSUME NEW b \in Tabs, ExpiryTimer(b) \/ Refused(b) \/ Logout(b)
      PROVE  Agrees(c)'
  BY <1>5, <1>6, SignedOutType DEF TypeOK, ExpiryTimer, Refused, Logout, Expire
<1>7. ASSUME NEW b \in Tabs, Send(b) \/ Submit(b)
      PROVE  Agrees(c)'
  BY <1>5, <1>7, CurrentType DEF TypeOK, Send, Submit
<1>8. ASSUME NEW b \in Tabs, LoginDone(b)
      PROVE  Agrees(c)'
  <2>1. issued + 1 \in Tokens
    BY <1>8, SessionBounds DEF TypeOK, LoginDone, Tokens
  <2>2. QED
    <3>1. PICK d \in BOOLEAN : tab' = [tab EXCEPT ![b] = SignedIn(issued + 1, d, FALSE, FALSE)]
      BY <1>8 DEF LoginDone
    <3>2. tab'[b].session = issued + 1
      BY <2>1, <3>1, SignedInType DEF TypeOK
    <3>3. QED
      BY <1>5, <1>8, <2>1, <3>1, <3>2 DEF TypeOK, LoginDone
<1>9. ASSUME NEW b \in Tabs, Accept(b) \/ Refuse(b) \/ LoginFails(b)
      PROVE  Agrees(c)'
  BY <1>1, <1>9 DEF Accept, Refuse, LoginFails
\* The other tabs hear of a session that is removed for having expired.
<1>10. ASSUME NEW b \in Tabs, storage' = Current, tab'[b].session = Current,
              \A d \in Tabs : d # b => tab'[d] = tab[d],
              \A d \in Tabs : d # b => event'[d] = IF Expired(storage) THEN event[d] + 1 ELSE event[d]
       PROVE  Agrees(c)'
  <2>1. CASE c # b
    <3>1. event[c] = 0 /\ ~ Expired(storage)
      BY <1>10, <2>1 DEF TypeOK
    <3>2. QED
      BY <1>2, <1>10, <2>1, <3>1
  <2>2. CASE c = b
    BY <1>10, <2>2 DEF Agrees
  <2>3. QED
    BY <2>1, <2>2
<1>11. ASSUME NEW b \in Tabs, Sync(b) PROVE Agrees(c)'
  BY <1>10, <1>11, AdoptType DEF TypeOK, Sync
<1>12. ASSUME NEW b \in Tabs, Reload(b) PROVE Agrees(c)'
  <2>1. tab'[b].session = Current
    <3>1. CASE Current = None
      BY <1>12, <3>1, SignedOutType DEF TypeOK, Reload
    <3>2. CASE Current # None
      BY <1>12, <3>2, CurrentType, SignedInType DEF TypeOK, Reload, Distant
    <3>3. QED
      BY <3>1, <3>2
  <2>2. QED
    BY <1>10, <1>12, <2>1 DEF TypeOK, Reload
<1>13. QED
  BY <1>3, <1>4, <1>6, <1>7, <1>8, <1>9, <1>11, <1>12 DEF Next, TabStep

LEMMA StepIInv == IInv /\ [Next]_vars => IInv'
<1>1. ASSUME IInv, Next PROVE IInv'
  BY <1>1, TypeStep, UnissuedStep, RefusedStep, AgreeStep DEF IInv
<1>2. ASSUME IInv, UNCHANGED vars PROVE IInv'
  BY <1>2 DEF IInv, TypeOK, Unissued, RefusedHadNone, TabsAgree, Expired, vars
<1>3. QED
  BY <1>1, <1>2

-----------------------------------------------------------------------------
(* The theorems.                                                            *)

\* The states of the session are well formed whatever the tabs and the tokens.
THEOREM SessionTypeCorrect == Spec => []TypeOK
<1>1. IInv => TypeOK
  BY DEF IInv
<1>2. QED
  BY InitIInv, StepIInv, <1>1, PTL DEF Spec

\* A tab that has handled its storage events has the session of the storage, or
\* one that expired, however many tabs write it.
THEOREM TabsAgreeHolds == Spec => []TabsAgree
<1>1. IInv => TabsAgree
  BY DEF IInv
<1>2. QED
  BY InitIInv, StepIInv, <1>1, PTL DEF Spec

\* A valid session is taken for an expired one by the late refusal of a request
\* that carried something else, or by a timer that was cut short.
LEMMA NoticeStep ==
  ASSUME IInv, Next, NEW b \in Tabs, tab[b].session # None, ~ Expired(tab[b].session),
         ~ tab[b].notice, tab'[b].notice
  PROVE  \/ Refused(b) /\ request[b].token # tab[b].session
         \/ ExpiryTimer(b) /\ tab[b].clamped
<1> USE DEF IInv
<1>1. PICK c \in Tabs : TabStep(c) \/ Submit(c) \/ LoginDone(c) \/ Logout(c) \/ Reload(c)
  BY DEF Next, Age, Send, Accept, Refuse, LoginFails
<1>2. c = b
  BY <1>1 DEF TypeOK, TabStep, WarnTimer, ExpiryTimer, Refused, Expire, Sync, Submit, LoginDone, Logout, Reload
<1>3. ~ Submit(b) /\ ~ WarnTimer(b)
  BY DEF TypeOK, Submit, WarnTimer
<1>4. ExpiryTimer(b) => tab[b].clamped
  BY DEF ExpiryTimer
<1>5. ~ Sync(b)
  BY AdoptType DEF TypeOK, Sync
<1>6. ~ LoginDone(b)
  <2>1. SUFFICES ASSUME LoginDone(b) PROVE FALSE
    OBVIOUS
  <2>2. issued + 1 \in Tokens
    BY <2>1, SessionBounds DEF TypeOK, LoginDone, Tokens
  <2>3. QED
    <3>1. PICK d \in BOOLEAN : tab' = [tab EXCEPT ![b] = SignedIn(issued + 1, d, FALSE, FALSE)]
      BY <2>1 DEF LoginDone
    <3>2. QED
      BY <2>2, <3>1, SignedInType DEF TypeOK
<1>7. ~ Logout(b)
  BY SignedOutType DEF TypeOK, Logout
<1>8. ~ Reload(b)
  <2>1. CASE Current = None
    BY <2>1, SignedOutType DEF TypeOK, Reload
  <2>2. CASE Current # None
    <3>1. Current \in Tokens
      BY <2>2, CurrentType
    <3>2. SignedIn(Current, Distant(Current), FALSE, FALSE).notice = FALSE
      BY <3>1, SignedInType DEF Distant
    <3>3. QED
      BY <2>2, <3>2 DEF TypeOK, Reload
  <2>3. QED
    BY <2>1, <2>2
<1>9. Refused(b) \/ ExpiryTimer(b)
  BY <1>1, <1>2, <1>3, <1>4, <1>5, <1>6, <1>7, <1>8 DEF TabStep
<1>10. QED
  BY <1>4, <1>9 DEF Refused, RefusedHadNone

\* Nothing else does: for any number of tabs and tokens, and tokens of any
\* lifetime.
THEOREM NoticeEarnedHolds == Spec => NoticeEarned
<1> DEFINE Earned ==
      \A b \in Tabs :
          /\ tab[b].session # None /\ ~ Expired(tab[b].session)
          /\ ~ tab[b].notice /\ tab'[b].notice
          => \/ Refused(b) /\ request[b].token # tab[b].session
             \/ ExpiryTimer(b) /\ tab[b].clamped
<1>1. ASSUME IInv, Next PROVE Earned
  BY <1>1, NoticeStep
<1>2. IInv /\ [Next]_vars => [Earned]_vars
  BY <1>1
<1>3. QED
  BY InitIInv, StepIInv, <1>2, PTL DEF Spec, NoticeEarned
=============================================================================
