------------------------------- MODULE Session -------------------------------
(***************************************************************************)
(* The session of the front end, kept twice: in localStorage, which every  *)
(* tab of the browser shares, and in the state of each tab's AuthProvider.  *)
(* A login writes both; a logout, an expiry timer or a request refused with *)
(* 401 clears both; a change made by one tab reaches the others later, as a *)
(* storage event whose handler reads the storage again.                     *)
(***************************************************************************)
EXTENDS Naturals

CONSTANTS
    Tabs,       \* browser tabs open on the application
    MaxTokens,  \* bound: tokens the backend issues
    Lifetimes   \* how far from its end a token may be when issued (JWT_TTL)

ASSUME SessionBounds == MaxTokens \in Nat
ASSUME SessionLifetimes == Lifetimes \subseteq {"distant", "fresh"}

VARIABLES
    age,      \* each token: not issued, more than MAX_TIMEOUT_MS from its end, fresh, about to
              \* expire or expired
    issued,   \* tokens issued so far
    storage,  \* the token in localStorage, or None
    tab,      \* each tab's state: session, warning, notice and timers
    event,    \* storage events a tab has not handled
    request,  \* a request of the tab that unmounting does not abort
    login     \* the tab's login in flight

vars == <<age, issued, storage, tab, event, request, login>>

None == 0
Tokens == 1..MaxTokens
Expired(t) == t # None /\ age[t] = "expired"
Distant(t) == age[t] = "distant"
SignedOut(notice) ==
    [session |-> None, warned |-> FALSE, notice |-> notice, warn |-> FALSE, expire |-> FALSE, clamped |-> FALSE]

\* A session with its two timers armed; clampDelay cuts their delays to
\* MAX_TIMEOUT_MS, the longest a browser takes, when its end is further away.
SignedIn(t, distant, warned, notice) ==
    [session |-> t, warned |-> warned, notice |-> notice, warn |-> TRUE, expire |-> TRUE, clamped |-> distant]

Init ==
    /\ age = [t \in Tokens |-> "none"]
    /\ issued = 0
    /\ storage = None
    /\ tab = [b \in Tabs |-> SignedOut(FALSE)]
    /\ event = [b \in Tabs |-> 0]
    /\ request = [b \in Tabs |-> [pc |-> "idle", token |-> None]]
    /\ login = [b \in Tabs |-> "idle"]

\* A change of the storage is an event for every tab but its author.
Store(b, t) ==
    /\ storage' = t
    /\ event' = [c \in Tabs |-> IF c # b /\ t # storage THEN event[c] + 1 ELSE event[c]]

\* What the guards of the routes show a tab: the application, or the login form.
OnApplication(b) == tab[b].session # None
OnLoginForm(b) == tab[b].session = None

-----------------------------------------------------------------------------
(* Time.                                                                    *)

\* A token comes within MAX_TIMEOUT_MS of its end, within EXPIRY_WARNING_MS of
\* it, or reaches it.  A restart of the backend may change JWT_TTL, so tokens
\* need not expire in the order of issue.
Age(t) ==
    /\ \/ age[t] = "distant" /\ age' = [age EXCEPT ![t] = "fresh"]
       \/ age[t] = "fresh" /\ age' = [age EXCEPT ![t] = "ending"]
       \/ age[t] = "ending" /\ age' = [age EXCEPT ![t] = "expired"]
    /\ UNCHANGED <<issued, storage, tab, event, request, login>>

\* The timers of the effect on session, armed for its own token: they fire when
\* it is about to expire, and when it expires; cut short, after MAX_TIMEOUT_MS,
\* however far its end is by then.
WarnTimer(b) ==
    /\ tab[b].warn /\ (tab[b].clamped \/ age[tab[b].session] \in {"ending", "expired"})
    /\ tab' = [tab EXCEPT ![b].warned = TRUE, ![b].warn = FALSE]
    /\ UNCHANGED <<age, issued, storage, event, request, login>>

\* Mutant: only the tab's state forgets the session.
ExpireStateOnly(b) ==
    /\ tab' = [tab EXCEPT ![b] = SignedOut(TRUE)]
    /\ UNCHANGED <<storage, event>>

\* notifySessionExpired: whatever session the storage holds is removed.
Expire(b) ==
    /\ Store(b, None)
    /\ tab' = [tab EXCEPT ![b] = SignedOut(TRUE)]

ExpiryTimer(b) ==
    /\ tab[b].expire /\ (tab[b].clamped \/ Expired(tab[b].session))
    /\ Expire(b)
    /\ UNCHANGED <<age, issued, request, login>>

-----------------------------------------------------------------------------
(* Requests.                                                                *)

\* readSession: an expired session counts as none and is removed from the
\* storage.
Current == IF Expired(storage) THEN None ELSE storage

\* Every request carries the token of the storage, when there is one.
Send(b) ==
    /\ OnApplication(b)
    /\ request[b].pc = "idle"
    /\ Store(b, Current)
    /\ request' = [request EXCEPT ![b] = [pc |-> "sent", token |-> Current]]
    /\ UNCHANGED <<age, issued, tab, login>>

\* The backend refuses a missing or expired token; it accepts one a little
\* after its expiry.
Accept(b) ==
    /\ request[b].pc = "sent" /\ request[b].token # None
    /\ request' = [request EXCEPT ![b] = [pc |-> "idle", token |-> None]]
    /\ UNCHANGED <<age, issued, storage, tab, event, login>>

Refuse(b) ==
    /\ request[b].pc = "sent" /\ (request[b].token = None \/ Expired(request[b].token))
    /\ request' = [request EXCEPT ![b].pc = "refused"]
    /\ UNCHANGED <<age, issued, storage, tab, event, login>>

\* A 401 with a session code reaches the tab, signed in or not.
Refused(b) ==
    /\ request[b].pc = "refused"
    /\ Expire(b)
    /\ request' = [request EXCEPT ![b] = [pc |-> "idle", token |-> None]]
    /\ UNCHANGED <<age, issued, login>>

-----------------------------------------------------------------------------
(* Login, logout and the other tabs.                                        *)

\* The form is shown to a tab without a session; submitting hides the notice.
Submit(b) ==
    /\ OnLoginForm(b) /\ login[b] = "idle"
    /\ issued < MaxTokens
    /\ login' = [login EXCEPT ![b] = "sent"]
    /\ tab' = [tab EXCEPT ![b].notice = FALSE]
    /\ Store(b, Current)
    /\ UNCHANGED <<age, issued, request>>

LoginFails(b) ==
    /\ login[b] = "sent"
    /\ login' = [login EXCEPT ![b] = "idle"]
    /\ UNCHANGED <<age, issued, storage, tab, event, request>>

LoginDone(b) ==
    /\ login[b] = "sent" /\ issued < MaxTokens
    /\ login' = [login EXCEPT ![b] = "idle"]
    /\ issued' = issued + 1
    /\ \E life \in Lifetimes :
          /\ age' = [age EXCEPT ![issued + 1] = life]
          /\ tab' = [tab EXCEPT ![b] = SignedIn(issued + 1, life = "distant", FALSE, FALSE)]
    /\ Store(b, issued + 1)
    /\ UNCHANGED request

\* Logout, from the menu or from the banner.
Logout(b) ==
    /\ OnApplication(b)
    /\ Store(b, None)
    /\ tab' = [tab EXCEPT ![b] = SignedOut(FALSE)]
    /\ UNCHANGED <<age, issued, request, login>>

\* A tab that finds no session: its timers are cleared by the effect.
Without(b) == [tab[b] EXCEPT !.session = None, !.warned = FALSE, !.warn = FALSE, !.expire = FALSE,
                                !.clamped = FALSE]

\* Mutant: the timer of the expiry is not armed for the new session.
AdoptUntimed(b) ==
    IF Current = None THEN Without(b)
    ELSE [SignedIn(Current, Distant(Current), tab[b].warned, tab[b].notice) EXCEPT !.expire = FALSE]

\* Mutant: a session that another tab removed is taken for an expired one.
AdoptAsExpired(b) ==
    IF Current = None THEN [Without(b) EXCEPT !.notice = TRUE]
    ELSE SignedIn(Current, Distant(Current), tab[b].warned, tab[b].notice)

\* syncAcrossTabs: the session is the one of the storage; the warning is
\* cleared only when there is none, and the notice is left as it was.
Adopt(b) ==
    IF Current = None THEN Without(b) ELSE SignedIn(Current, Distant(Current), tab[b].warned, tab[b].notice)

Sync(b) ==
    /\ event[b] > 0
    /\ tab' = [tab EXCEPT ![b] = Adopt(b)]
    /\ storage' = Current
    /\ event' = [c \in Tabs |->
                    IF c = b THEN event[b] - 1
                    ELSE IF Expired(storage) THEN event[c] + 1 ELSE event[c]]
    /\ UNCHANGED <<age, issued, request, login>>

\* A page loaded again starts from the storage; its calls and the events it
\* had not handled are gone.
Reload(b) ==
    /\ storage' = Current
    /\ tab' = [tab EXCEPT ![b] = IF Current = None THEN SignedOut(FALSE) ELSE SignedIn(Current, Distant(Current), FALSE, FALSE)]
    /\ event' = [c \in Tabs |->
                    IF c = b THEN 0 ELSE IF Expired(storage) THEN event[c] + 1 ELSE event[c]]
    /\ request' = [request EXCEPT ![b] = [pc |-> "idle", token |-> None]]
    /\ login' = [login EXCEPT ![b] = "idle"]
    /\ UNCHANGED <<age, issued>>

-----------------------------------------------------------------------------
TabStep(b) == WarnTimer(b) \/ ExpiryTimer(b) \/ Refused(b) \/ Sync(b)

Next ==
    \/ \E t \in Tokens : Age(t)
    \/ \E b \in Tabs : \/ TabStep(b) \/ Send(b) \/ Accept(b) \/ Refuse(b)
                       \/ Submit(b) \/ LoginFails(b) \/ LoginDone(b) \/ Logout(b) \/ Reload(b)

\* The browser runs a timer that is due.
Fairness == \A b \in Tabs : WF_vars(ExpiryTimer(b))

Spec == Init /\ [][Next]_vars /\ Fairness

-----------------------------------------------------------------------------
(* Properties.                                                              *)

\* The type of every variable; a tab's timers are armed for its session only.
TypeOK ==
    /\ age \in [Tokens -> {"none", "distant", "fresh", "ending", "expired"}]
    /\ issued \in 0..MaxTokens
    /\ storage \in Tokens \cup {None}
    /\ tab \in [Tabs -> [session : Tokens \cup {None}, warned : BOOLEAN, notice : BOOLEAN,
                         warn : BOOLEAN, expire : BOOLEAN, clamped : BOOLEAN]]
    /\ \A b \in Tabs : tab[b].warn \/ tab[b].expire => tab[b].session # None
    /\ event \in [Tabs -> Nat]
    /\ request \in [Tabs -> [pc : {"idle", "sent", "refused"}, token : Tokens \cup {None}]]
    /\ login \in [Tabs -> {"idle", "sent"}]

\* A tab without events to handle has the session of the storage, unless its
\* own has expired: what one tab does reaches all of them.
TabsAgree ==
    \A b \in Tabs :
        event[b] = 0 => tab[b].session = storage \/ Expired(tab[b].session)

\* A tab takes its own valid session for an expired one in two cases only: the
\* late 401 of a request that carried another token, or none, and the timer of
\* a session that was more than MAX_TIMEOUT_MS from its end when the timer was
\* armed.  Never by another timer, by a change of another tab or by the answer
\* to a request of that session.
NoticeEarned ==
    [][\A b \in Tabs :
          /\ tab[b].session # None /\ ~ Expired(tab[b].session)
          /\ ~ tab[b].notice /\ tab'[b].notice
          => \/ Refused(b) /\ request[b].token # tab[b].session
             \/ ExpiryTimer(b) /\ tab[b].clamped]_vars

\* No tab stays signed in with an expired token.
ExpiredEnds == \A b \in Tabs : Expired(tab[b].session) ~> ~ Expired(tab[b].session)

=============================================================================
