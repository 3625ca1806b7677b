----------------------------- MODULE WebSession -----------------------------
(***************************************************************************)
(* Who is signed in: the tabs of one browser (web/src/api.ts, state.ts,    *)
(* main.ts, router.ts, App.vue, views/LoginView.vue, views/PasswordView.vue)*)
(* and the accounts and sessions of the server (internal/app/auth.go,      *)
(* admin.go).                                                              *)
(*                                                                         *)
(* The tabs share the cookie jar and nothing else: each has the user it    *)
(* shows, its CSRF token and its page in memory.  A request takes the      *)
(* cookie when it is sent; the server works on it in one or two steps; its *)
(* answer, with what it does to the cookie, arrives later or is lost.      *)
(* Code between two awaits is one step.                                    *)
(*                                                                         *)
(* Operators named Faulty... are wrong versions of the operator that       *)
(* follows them, substituted for it to see that a property notices.        *)
(***************************************************************************)
EXTENDS Naturals

CONSTANTS
    Tabs,
    Users,
    Admins,
    NoUser,
    Addresses,    \* the pages users go to by a link, back, forward or the address
    MaxRequests,  \* bound: loads of the page and requests by users
    MaxSessions,  \* bound: logins that succeed
    MaxEvents     \* bound: things the administrator does, sessions that expire,
                  \* connections that break

ASSUME WebSessionAssumption ==
    /\ NoUser \notin Users
    /\ Admins \subseteq Users
    /\ {MaxRequests, MaxSessions, MaxEvents} \subseteq Nat

\* Sessions are numbered as they are created.  The number also stands for the
\* cookie and for the CSRF token of the session, which are random and its own.
Sessions == 1 .. MaxSessions
Nothing == 0
Tokens == Sessions \union {Nothing}

Routes == {"home", "about", "login", "subscriptions", "password", "admin"}
Public == {"home", "about", "login"}

ASSUME AddressesAssumption == Addresses \subseteq Routes

VARIABLES
    \* the server
    account,     \* users.enabled, or gone
    mustChange,  \* users.force_password_change
    lineage,     \* how many resets the password in force descends from
    created,     \* sessions created so far
    sessions,    \* those in the table that have not expired
    owner,       \* owner[s]: sessions.user_id
    granted,     \* granted[s]: lineage of the password that opened s
    order,       \* the administrator's request under way
    \* the browser
    cookie,
    tab,         \* tab[t]: what the page loaded in t has in memory
    call,        \* call[t]: the request of t under way
    requests,
    events,
    \* history, read by no action of the code
    resets,      \* resets[u]: resets of the password of u
    missed       \* users whose reset leaves sessions: a login or a change had checked
                 \* the old password, or the DELETE has failed

accounts == <<account, mustChange, lineage>>
table    == <<created, sessions, owner, granted>>
browser  == <<cookie, tab, call>>
bounds   == <<requests, events>>
history  == <<resets, missed>>
sessionVars == <<accounts, table, order, browser, bounds, history>>

\* leaving: the timer that PasswordView starts is running
Tab == [ready : BOOLEAN, user : Users \union {NoUser}, forced : BOOLEAN,
        csrf : Tokens, route : Routes, leaving : BOOLEAN]

Kinds == {"me", "login", "logout", "password", "read", "write"}
Steps == {"none", "sent", "checked", "answered"}
Statuses == {"none", "ok", "unauthorized", "refused", "lost"}

\* by: the name typed in, or the user the tab showed; token, forced: the body
Call == [kind : Kinds, by : Users \union {NoUser}, cookie : Tokens, csrf : Tokens,
         step : Steps, seen : Nat, status : Statuses, token : Tokens, forced : BOOLEAN]

NoCall == [kind |-> "me", by |-> NoUser, cookie |-> Nothing, csrf |-> Nothing,
           step |-> "none", seen |-> 0, status |-> "none", token |-> Nothing,
           forced |-> FALSE]

NoOrder == [step |-> "none", user |-> NoUser]

SessionTypeOK ==
    /\ account \in [Users -> {"enabled", "disabled", "gone"}]
    /\ mustChange \in [Users -> BOOLEAN]
    /\ lineage \in [Users -> Nat]
    /\ created \in 0 .. MaxSessions
    /\ sessions \subseteq 1 .. created
    /\ owner \in [Sessions -> Users \union {NoUser}]
    /\ \A s \in Sessions : s <= created => owner[s] # NoUser
    /\ granted \in [Sessions -> Nat]
    /\ order \in [step : {"none", "reset", "disabled"}, user : Users \union {NoUser}]
    /\ order.step # "none" => order.user # NoUser
    /\ cookie \in 0 .. created
    /\ tab \in [Tabs -> Tab]
    /\ call \in [Tabs -> Call]
    /\ requests \in Nat
    /\ events \in Nat
    /\ resets \in [Users -> Nat]
    /\ missed \subseteq Users

-----------------------------------------------------------------------------
(* The page: a load, the router and its guard                              *)

\* router.beforeEach: the page a navigation is sent on to
FaultyRedirect(to, u, forced) ==
    CASE to \in {"home", "login"} /\ u # NoUser -> "subscriptions"
      [] to \in Public /\ (u = NoUser \/ to = "about") -> to
      [] to \notin Public /\ u = NoUser -> "login"
      [] to = "admin" /\ u \in Users \ Admins -> "subscriptions"
      [] OTHER -> to

Redirect(to, u, forced) ==
    CASE to \in {"home", "login"} /\ u # NoUser -> "subscriptions"
      [] to \in Public /\ (u = NoUser \/ to = "about") -> to
      [] to \notin Public /\ u = NoUser -> "login"
      [] to \notin Public /\ u # NoUser /\ forced -> "password"
      [] to = "admin" /\ u \in Users \ Admins /\ ~forced -> "subscriptions"
      [] OTHER -> to

\* A redirection is a navigation again; two are the most there can be.
Guarded(to, u, forced) ==
    Redirect(Redirect(Redirect(to, u, forced), u, forced), u, forced)

At(p, to) == [p EXCEPT !.route = Guarded(to, p.user, p.forced)]

\* A load of the page, by the user or by window.location.assign: nothing is in
\* memory but the address, and restoreSession asks who is signed in.
Loading(to) == [ready |-> FALSE, user |-> NoUser, forced |-> FALSE,
                csrf |-> Nothing, route |-> to, leaving |-> FALSE]

Asking(c) == [NoCall EXCEPT !.kind = "me", !.step = "sent", !.cookie = c]

\* The user loads the page.  What the page waited for is dropped; the server has
\* worked on it or never will.
Open(t, to) ==
    /\ requests < MaxRequests
    /\ requests' = requests + 1
    /\ tab' = [tab EXCEPT ![t] = Loading(to)]
    /\ call' = [call EXCEPT ![t] = Asking(cookie)]
    /\ UNCHANGED <<accounts, table, order, cookie, events, history>>

\* A link, or back and forward.
Navigate(t, to) ==
    /\ tab[t].ready
    /\ tab' = [tab EXCEPT ![t] = At(@, to)]
    /\ UNCHANGED <<accounts, table, order, cookie, call, bounds, history>>

\* The timer of PasswordView, half a second later, wherever the user is by then.
Leave(t) ==
    /\ tab[t].leaving
    /\ tab' = [tab EXCEPT ![t] = At([@ EXCEPT !.leaving = FALSE], "subscriptions")]
    /\ UNCHANGED <<accounts, table, order, cookie, call, bounds, history>>

-----------------------------------------------------------------------------
(* Requests                                                                *)

\* Which pages send which: the form of LoginView, the button of App.vue beside
\* every page that is not public, the form of PasswordView, the other views.
Offers(route, kind) ==
    \/ kind = "login" /\ route = "login"
    \/ kind = "logout" /\ route \notin Public
    \/ kind = "password" /\ route = "password"
    \/ kind \in {"read", "write"} /\ route \in {"subscriptions", "admin"}

\* request: the header only on what is not a GET, the cookie always
Send(t, kind, by) ==
    /\ requests < MaxRequests
    /\ requests' = requests + 1
    /\ tab[t].ready
    /\ call[t].step = "none"
    /\ Offers(tab[t].route, kind)
    /\ IF kind = "login" THEN by # NoUser ELSE by = tab[t].user
    /\ call' = [call EXCEPT ![t] =
                  [NoCall EXCEPT !.kind = kind, !.by = by, !.step = "sent",
                                 !.cookie = cookie,
                                 !.csrf = IF kind = "read" THEN Nothing ELSE tab[t].csrf]]
    /\ UNCHANGED <<accounts, table, order, cookie, tab, events, history>>

-----------------------------------------------------------------------------
(* The server                                                              *)

\* authenticate
Valid(s) == s \in sessions /\ account[owner[s]] = "enabled"

\* requireCSRF
FaultyMatches(c) == c.csrf # Nothing

Matches(c) == c.csrf # Nothing /\ c.csrf = c.cookie

Answer(t, status) ==
    call' = [call EXCEPT ![t].step = "answered", ![t].status = status]

\* passwordChanged and requireCSRF, where Routes puts them
Accepted(c) ==
    /\ Valid(c.cookie)
    /\ c.kind \in {"read", "write"} => ~mustChange[owner[c.cookie]]
    /\ c.kind \in {"write", "logout", "password"} => Matches(c)

\* meHandler, refusals, and the handlers that work on what is not modelled here
ServeOther(t) ==
    LET c == call[t] IN
    /\ c.step = "sent"
    /\ c.kind # "login"
    /\ \/ ~Valid(c.cookie) /\ Answer(t, "unauthorized")
       \/ Valid(c.cookie) /\ ~Accepted(c) /\ Answer(t, "refused")
       \/ Accepted(c) /\ c.kind \in {"read", "write"} /\ Answer(t, "ok")
       \/ /\ Accepted(c)
          /\ c.kind = "me"
          /\ call' = [call EXCEPT ![t].step = "answered", ![t].status = "ok",
                                  ![t].token = c.cookie,
                                  ![t].forced = mustChange[owner[c.cookie]]]
    /\ UNCHANGED <<accounts, table, order, cookie, tab, bounds, history>>

\* logoutHandler
ServeLogout(t) ==
    /\ call[t].step = "sent"
    /\ call[t].kind = "logout"
    /\ Accepted(call[t])
    /\ sessions' = sessions \ {call[t].cookie}
    /\ Answer(t, "ok")
    /\ UNCHANGED <<accounts, created, owner, granted, order, cookie, tab, bounds, history>>

\* loginHandler, the SELECT and verifyPassword; the password may be wrong.
LoginCheck(t) ==
    LET c == call[t] IN
    /\ c.step = "sent"
    /\ c.kind = "login"
    /\ \/ Answer(t, "unauthorized")
       \/ /\ account[c.by] = "enabled"
          /\ call' = [call EXCEPT ![t].step = "checked", ![t].seen = lineage[c.by],
                                  ![t].forced = mustChange[c.by]]
    /\ UNCHANGED <<accounts, table, order, cookie, tab, bounds, history>>

\* loginHandler, the INSERT; the user may be gone by now.
LoginInsert(t) ==
    LET c == call[t]
        s == created + 1
    IN
    /\ c.step = "checked"
    /\ c.kind = "login"
    /\ created < MaxSessions
    /\ IF account[c.by] = "gone"
         THEN Answer(t, "refused") /\ UNCHANGED table
         ELSE /\ created' = s
              /\ sessions' = sessions \union {s}
              /\ owner' = [owner EXCEPT ![s] = c.by]
              /\ granted' = [granted EXCEPT ![s] = c.seen]
              /\ call' = [call EXCEPT ![t].step = "answered", ![t].status = "ok",
                                      ![t].token = s]
    /\ UNCHANGED <<accounts, order, cookie, tab, bounds, history>>

\* changePasswordHandler, the SELECT and verifyPassword
PasswordCheck(t) ==
    LET c == call[t] IN
    /\ c.step = "sent"
    /\ c.kind = "password"
    /\ Accepted(c)
    /\ \/ Answer(t, "refused")
       \/ call' = [call EXCEPT ![t].step = "checked", ![t].seen = lineage[owner[c.cookie]]]
    /\ UNCHANGED <<accounts, table, order, cookie, tab, bounds, history>>

\* changePasswordHandler, the UPDATE; sessions stay as they are.
PasswordUpdate(t) ==
    LET c == call[t]
        u == owner[c.cookie]
    IN
    /\ c.step = "checked"
    /\ c.kind = "password"
    /\ lineage' = [lineage EXCEPT ![u] = c.seen]
    /\ mustChange' = [mustChange EXCEPT ![u] = FALSE]
    /\ Answer(t, "ok")
    /\ UNCHANGED <<account, table, order, cookie, tab, bounds, history>>

\* The connection breaks: before the server has seen the request, or after.
Lose(t) ==
    /\ call[t].step \in {"sent", "answered"}
    /\ call[t].status # "lost"
    /\ events < MaxEvents
    /\ events' = events + 1
    /\ Answer(t, "lost")
    /\ UNCHANGED <<accounts, table, order, cookie, tab, requests, history>>

\* sessions.expires_at passes.
Expire(s) ==
    /\ s \in sessions
    /\ events < MaxEvents
    /\ events' = events + 1
    /\ sessions' = sessions \ {s}
    /\ UNCHANGED <<accounts, created, owner, granted, order, browser, requests, history>>

-----------------------------------------------------------------------------
(* The administrator, from another browser                                 *)

Order(u, step) ==
    /\ order.step = "none"
    /\ events < MaxEvents
    /\ account[u] # "gone"
    /\ events' = events + 1
    /\ order' = [step |-> step, user |-> u]

\* A login or a change of the password of u that has checked it
Checked(u) ==
    \E t \in Tabs :
        /\ call[t].step = "checked"
        /\ \/ call[t].kind = "login" /\ call[t].by = u
           \/ call[t].kind = "password" /\ owner[call[t].cookie] = u

\* resetPasswordHandler, the UPDATE
ResetPassword(u) ==
    /\ Order(u, "reset")
    /\ lineage' = [lineage EXCEPT ![u] = resets[u] + 1]
    /\ mustChange' = [mustChange EXCEPT ![u] = TRUE]
    /\ resets' = [resets EXCEPT ![u] = @ + 1]
    /\ missed' = IF Checked(u) THEN missed \union {u} ELSE missed
    /\ UNCHANGED <<account, table, browser, requests>>

\* updateUserHandler, the UPDATE
Disable(u) ==
    /\ Order(u, "disabled")
    /\ account[u] = "enabled"
    /\ account' = [account EXCEPT ![u] = "disabled"]
    /\ UNCHANGED <<mustChange, lineage, table, browser, requests, history>>

Enable(u) ==
    /\ order.step = "none"
    /\ account[u] = "disabled"
    /\ account' = [account EXCEPT ![u] = "enabled"]
    /\ UNCHANGED <<mustChange, lineage, table, order, browser, bounds, history>>

\* resetPasswordHandler and updateUserHandler, the DELETE, whose error is ignored
FaultyEndedBy(u) == {}

EndedBy(u) == {s \in sessions : owner[s] = u}

EndSessions ==
    /\ order.step # "none"
    /\ order' = NoOrder
    /\ \/ sessions' = sessions \ EndedBy(order.user) /\ UNCHANGED missed
       \/ /\ missed' = IF order.step = "reset" THEN missed \union {order.user} ELSE missed
          /\ UNCHANGED sessions
    /\ UNCHANGED <<accounts, created, owner, granted, browser, bounds, resets>>

\* deleteUserHandler, in one transaction; the sessions go by cascade.
DeleteUser(u) ==
    /\ order.step = "none"
    /\ events < MaxEvents
    /\ u \notin Admins
    /\ account[u] # "gone"
    /\ events' = events + 1
    /\ account' = [account EXCEPT ![u] = "gone"]
    /\ sessions' = {s \in sessions : owner[s] # u}
    /\ UNCHANGED <<mustChange, lineage, created, owner, granted, order, browser, requests, history>>

-----------------------------------------------------------------------------
(* Answers                                                                 *)

\* What the answer does to the cookie.  authenticate clears one that is not good
\* and says nothing of one that is not there.
CookieAfter(c) ==
    CASE c.status = "ok" /\ c.kind = "login" -> c.token
      [] c.status = "ok" /\ c.kind = "logout" -> Nothing
      [] c.status = "unauthorized" /\ c.kind # "login" /\ c.cookie # Nothing -> Nothing
      [] OTHER -> cookie

\* request: any 401 but that of restoreSession sends the page to /login.
SentAway(t) ==
    /\ call[t].status = "unauthorized"
    /\ call[t].kind # "me"
    /\ tab[t].route # "login"

SignedIn(p, c) ==
    [p EXCEPT !.user = owner[c.token], !.forced = c.forced, !.csrf = c.token]

\* restoreSession, and the first navigation
Restored(p, c) ==
    IF c.status = "ok" THEN At([SignedIn(p, c) EXCEPT !.ready = TRUE], p.route)
    ELSE At([p EXCEPT !.ready = TRUE], p.route)

\* submit of LoginView
LoggedIn(p, c) ==
    IF c.status = "ok"
      THEN At(SignedIn(p, c), IF c.forced THEN "password" ELSE "subscriptions")
      ELSE p

\* logout of App.vue, whatever became of the request
LoggedOut(p) == At([p EXCEPT !.user = NoUser], "login")

\* submit of PasswordView
PasswordSaved(p, c) ==
    IF c.status = "ok" THEN [p EXCEPT !.forced = FALSE, !.leaving = TRUE] ELSE p

Page(p, c) ==
    CASE c.kind = "me" -> Restored(p, c)
      [] c.kind = "login" -> LoggedIn(p, c)
      [] c.kind = "logout" -> LoggedOut(p)
      [] c.kind = "password" -> PasswordSaved(p, c)
      [] OTHER -> p

Arrive(t) ==
    LET c == call[t] IN
    /\ c.step = "answered"
    /\ cookie' = CookieAfter(c)
    /\ IF SentAway(t)
         THEN /\ tab' = [tab EXCEPT ![t] = Loading("login")]
              /\ call' = [call EXCEPT ![t] = Asking(cookie')]
         ELSE /\ tab' = [tab EXCEPT ![t] = Page(@, c)]
              /\ call' = [call EXCEPT ![t] = NoCall]
    /\ UNCHANGED <<accounts, table, order, bounds, history>>

-----------------------------------------------------------------------------
(* The specification                                                       *)

SessionInit ==
    /\ account = [u \in Users |-> "enabled"]
    /\ mustChange \in [Users -> BOOLEAN]
    /\ \A u \in Admins : ~mustChange[u]
    /\ lineage = [u \in Users |-> 0]
    /\ created = 0
    /\ sessions = {}
    /\ owner = [s \in Sessions |-> NoUser]
    /\ granted = [s \in Sessions |-> 0]
    /\ order = NoOrder
    /\ cookie = Nothing
    /\ tab = [t \in Tabs |-> Loading("login")]
    /\ call = [t \in Tabs |-> Asking(Nothing)]
    /\ requests = 0
    /\ events = 0
    /\ resets = [u \in Users |-> 0]
    /\ missed = {}

UserStep(t) ==
    \/ \E to \in Addresses : Open(t, to) \/ Navigate(t, to)
    \/ \E kind \in Kinds, by \in Users \union {NoUser} : Send(t, kind, by)

ServerStep(t) ==
    \/ ServeOther(t) \/ ServeLogout(t)
    \/ LoginCheck(t) \/ LoginInsert(t)
    \/ PasswordCheck(t) \/ PasswordUpdate(t)

AdminStep ==
    \/ \E u \in Users : ResetPassword(u) \/ Disable(u) \/ Enable(u) \/ DeleteUser(u)
    \/ EndSessions

SessionNext ==
    \/ \E t \in Tabs : UserStep(t) \/ ServerStep(t) \/ Leave(t) \/ Lose(t) \/ Arrive(t)
    \/ AdminStep
    \/ \E s \in Sessions : Expire(s)

SessionSpec == SessionInit /\ [][SessionNext]_sessionVars
-----------------------------------------------------------------------------
(* Properties                                                              *)

(***************************************************************************)
(* What the server writes for a request was asked for by a tab that shows  *)
(* the user the server writes it for, whoever signed in and out in the     *)
(* other tabs meanwhile and whichever answer touched the cookie last       *)
(* (requireCSRF, setCSRF; internal/app/auth.go:70, web/src/api.ts:10).     *)
(***************************************************************************)
WritesAreOnesOwn ==
    \A t \in Tabs :
        call[t].step = "sent" /\ call[t].kind \in {"write", "password"} /\ Accepted(call[t])
            => owner[call[t].cookie] = call[t].by

(***************************************************************************)
(* A loaded tab shows a page other than the public ones to somebody who is *)
(* signed in, only the password page to one who has to change it, and the  *)
(* administration to administrators: after every answer, navigation and    *)
(* late timer (web/src/router.ts:22-29).                                   *)
(***************************************************************************)
PagesAreAllowed ==
    \A t \in Tabs :
        tab[t].ready /\ tab[t].route \notin Public =>
            /\ tab[t].user # NoUser
            /\ tab[t].forced => tab[t].route = "password"
            /\ tab[t].route = "admin" => tab[t].user \in Admins

(***************************************************************************)
(* Once an administrator has reset the password of a user, no session that *)
(* a password from before the reset opened is left                         *)
(* ("该用户现有会话会失效", docs/USAGE.md:148), not even one of a login or a *)
(* change of the password under way.  One can be left when the login or    *)
(* the change had checked the old password before the reset and wrote      *)
(* after it, or when the DELETE fails: those users are left out            *)
(* (resetPasswordHandler, internal/app/admin.go:237-247; loginHandler,     *)
(* auth.go:170-184).                                                       *)
(***************************************************************************)
ResetEndsOldAccess ==
    \A s \in sessions :
        LET u == owner[s] IN
        granted[s] < resets[u] => order = [step |-> "reset", user |-> u] \/ u \in missed
=============================================================================
