------------------------- MODULE SubscriptionsPage -------------------------
(***************************************************************************)
(* The list of subscriptions (web/src/views/SubscriptionsView.vue): loads, *)
(* by the user and by the timer that waits for new subscriptions to be     *)
(* initialized; switches that are turned before the server has agreed; the *)
(* removal and the adding of subscriptions.                                *)
(*                                                                         *)
(* Code between two awaits is one step.  A request is sent, served and     *)
(* answered, or it fails before or after it is served.                     *)
(*                                                                         *)
(* Operators named Faulty... are wrong versions of the operator that       *)
(* follows them, substituted for it to see that a property notices.        *)
(***************************************************************************)
EXTENDS Naturals

CONSTANTS
    Items,        \* subscriptions there can be, by id
    MaxAttempts,  \* 12 in the code
    MaxListCalls,  \* bound: requests of the page at one time
    MaxMoves,     \* bound: things the user does
    MaxFailures   \* bound: requests that fail

ASSUME SubscriptionsAssumption ==
    /\ MaxAttempts \in Nat \ {0}
    /\ {MaxListCalls, MaxMoves, MaxFailures} \subseteq Nat

ListCalls == 1 .. MaxListCalls

VARIABLES
    \* the page
    listPage,    \* "away", "shown" or "left": mounted once at most
    items,       \* items[i]: how subscription i is shown
    loading,
    saving,
    attempts,    \* initializationAttempts
    refreshTimer,
    listCall,    \* listCall[n]: the requests under way
    \* the server
    subscribed,  \* subscribed[i]
    ready,       \* those initialized: polled once, or refused
    \* bounds
    moves,
    failures,
    \* history, read by no action of the code
    doubt        \* those whose switch need not show what the server has

page    == <<listPage, items, loading, saving, attempts, refreshTimer>>
server  == <<subscribed, ready>>
listVars == <<page, listCall, server, moves, failures, doubt>>

Switch == {"absent", "on", "off"}

\* What the server has: not added yet, added, or deleted; an id is not used again.
Stored == Switch \union {"deleted"}

\* waiting: shown as 正在获取最新投稿
Item == [switch : Switch, waiting : BOOLEAN]
Absent == [switch |-> "absent", waiting |-> FALSE]

\* held: the object the function captured is still in the list; before: previous;
\* clean: what the server has not changed since it served the load
ListCall ==
    [kind : {"none", "load", "toggle", "remove", "add"},
     step : {"sent", "served", "failed"},
     background : BOOLEAN, of : SUBSET Items, before : Switch, held : BOOLEAN,
     answer : [Items -> Item], clean : SUBSET Items]

NoListCall ==
    [kind |-> "none", step |-> "sent", background |-> FALSE, of |-> {},
     before |-> "absent", held |-> FALSE, answer |-> [i \in Items |-> Absent], clean |-> {}]

ListTypeOK ==
    /\ listPage \in {"away", "shown", "left"}
    /\ items \in [Items -> Item]
    /\ loading \in BOOLEAN /\ saving \in BOOLEAN
    /\ attempts \in 0 .. MaxAttempts
    /\ refreshTimer \in BOOLEAN
    /\ listCall \in [ListCalls -> ListCall]
    /\ subscribed \in [Items -> Stored]
    /\ ready \subseteq Items
    /\ moves \in Nat /\ failures \in Nat
    /\ doubt \subseteq Items

-----------------------------------------------------------------------------
(* ListCalls under way                                                      *)

Under(call, kinds) == {n \in ListCalls : call[n].kind \in kinds}

\* What is being asked of subscription i
Asked(call, i) == \E n \in Under(call, {"toggle", "remove", "add"}) : i \in call[n].of

Free(call, n) ==
    \A k \in ListCalls : k <= n => (call[k].kind = "none" <=> k = n)

\* load: two requests at once, and both answers are waited for
BeginLoad(call, n, background) ==
    /\ Free(call, n)
    /\ loading' = (loading \/ ~background)
    /\ listCall' = [call EXCEPT ![n] =
           [NoListCall EXCEPT !.kind = "load", !.background = background]]

\* A request about i
BeginChange(n, kind, i) ==
    /\ Free(listCall, n)
    /\ listCall' = [listCall EXCEPT ![n] =
           [NoListCall EXCEPT !.kind = kind, !.of = {i}, !.held = TRUE,
                              !.before = items[i].switch]]
    /\ doubt' = IF Asked(listCall, i) THEN doubt \union {i} ELSE doubt

Finished(n) == [listCall EXCEPT ![n] = NoListCall]

-----------------------------------------------------------------------------
(* What the user does                                                      *)

Move == listPage = "shown" /\ moves < MaxMoves /\ moves' = moves + 1

\* onMounted
ListMount(n) ==
    /\ listPage = "away"
    /\ listPage' = "shown"
    /\ BeginLoad(listCall, n, FALSE)
    /\ UNCHANGED <<items, saving, attempts, refreshTimer, server, moves, failures, doubt>>

\* refresh
PressRefresh(n) ==
    /\ Move
    /\ attempts' = 0
    /\ BeginLoad(listCall, n, FALSE)
    /\ UNCHANGED <<listPage, items, saving, refreshTimer, server, failures, doubt>>

\* The list is not there during a load in the foreground.
Listed(i) == ~loading /\ items[i].switch # "absent"

Other(switch) == IF switch = "on" THEN "off" ELSE "on"

\* toggle, up to its request
Toggle(n, i) ==
    /\ Move
    /\ Listed(i)
    /\ items' = [items EXCEPT ![i].switch = Other(@)]
    /\ BeginChange(n, "toggle", i)
    /\ UNCHANGED <<listPage, loading, saving, attempts, refreshTimer, server, failures>>

\* remove, up to its request
Remove(n, i) ==
    /\ Move
    /\ Listed(i)
    /\ BeginChange(n, "remove", i)
    /\ UNCHANGED <<page, server, failures>>

\* add and importSelected, up to their request: saving disables both buttons.
Add(n, i) ==
    /\ Move
    /\ ~saving
    /\ saving' = TRUE
    /\ BeginChange(n, "add", i)
    /\ UNCHANGED <<listPage, items, loading, attempts, refreshTimer, server, failures>>

\* onBeforeUnmount
ListLeave ==
    /\ Move
    /\ listPage' = "left"
    /\ refreshTimer' = FALSE
    /\ UNCHANGED <<items, loading, saving, attempts, listCall, server, failures, doubt>>

-----------------------------------------------------------------------------
(* The timer and the answers                                               *)

\* scheduleInitializationRefresh, whether load has succeeded or not
FaultySchedulesOnSuccess(c, shown) ==
    c.step = "served" /\ attempts < MaxAttempts /\ \E i \in Items : shown[i].waiting

Schedules(c, shown) == attempts < MaxAttempts /\ \E i \in Items : shown[i].waiting

FaultyAttempted == attempts

Attempted == attempts + 1

RefreshFires(n) ==
    /\ refreshTimer
    /\ refreshTimer' = FALSE
    /\ attempts' = Attempted
    /\ BeginLoad(listCall, n, TRUE)
    /\ UNCHANGED <<listPage, items, saving, server, moves, failures, doubt>>

\* load, the rest: new objects take the place of those the page had.  A load at
\* the end of add leaves saving to add.
LoadAnswered(n) ==
    LET c == listCall[n] IN
    /\ c.kind = "load"
    /\ c.step # "sent"
    /\ loading' = (loading /\ c.background)
    /\ IF c.step = "served"
         THEN /\ items' = c.answer
              /\ doubt' = Items \ c.clean
              /\ listCall' = [k \in ListCalls |-> [Finished(n)[k] EXCEPT !.held = FALSE]]
         ELSE /\ UNCHANGED <<items, doubt>>
              /\ listCall' = Finished(n)
    /\ refreshTimer' = Schedules(c, items')
    /\ saving' = (saving /\ c.of = {})
    /\ UNCHANGED <<listPage, attempts, server, moves, failures>>

\* toggle, the rest; the object may have left the list.
FaultyAfterToggle(c, switch) == switch

FaultyAfterToggleById(c, switch) == IF c.step = "failed" THEN c.before ELSE switch

AfterToggle(c, switch) == IF c.step = "failed" /\ c.held THEN c.before ELSE switch

ToggleAnswered(n, i) ==
    LET c == listCall[n] IN
    /\ c.kind = "toggle"
    /\ c.of = {i}
    /\ c.step # "sent"
    /\ items' = [items EXCEPT ![i].switch = IF @ = "absent" THEN @ ELSE AfterToggle(c, @)]
    /\ listCall' = Finished(n)
    /\ UNCHANGED <<listPage, loading, saving, attempts, refreshTimer, server, moves,
                   failures, doubt>>

\* remove, the rest: by id, whatever list there is now
RemoveAnswered(n, i) ==
    LET c == listCall[n] IN
    /\ c.kind = "remove"
    /\ c.of = {i}
    /\ c.step # "sent"
    /\ items' = IF c.step = "served" THEN [items EXCEPT ![i] = Absent] ELSE items
    /\ listCall' = Finished(n)
    /\ UNCHANGED <<listPage, loading, saving, attempts, refreshTimer, server, moves,
                   failures, doubt>>

\* add, the rest: a load, and saving ends with it; importSelected also starts the
\* attempts again.
AddAnswered(n) ==
    /\ listCall[n].kind = "add"
    /\ listCall[n].step # "sent"
    /\ IF listCall[n].step = "served"
         THEN /\ attempts' \in {attempts, 0}
              /\ loading' = TRUE
              /\ listCall' = [listCall EXCEPT ![n] =
                     [NoListCall EXCEPT !.kind = "load", !.of = listCall[n].of]]
              /\ UNCHANGED saving
         ELSE /\ saving' = FALSE
              /\ listCall' = Finished(n)
              /\ UNCHANGED <<attempts, loading>>
    /\ UNCHANGED <<listPage, items, refreshTimer, server, moves, failures, doubt>>

ListAnswered(n) ==
    \/ LoadAnswered(n) \/ AddAnswered(n)
    \/ \E i \in Items : ToggleAnswered(n, i) \/ RemoveAnswered(n, i)

-----------------------------------------------------------------------------
(* The server and the network                                              *)

Serving(n, kind) == listCall[n].kind = kind /\ listCall[n].step = "sent"

Present(i) == subscribed[i] \in {"on", "off"}

Shown == [i \in Items |->
    IF Present(i) THEN [switch |-> subscribed[i], waiting |-> i \notin ready] ELSE Absent]

\* listSubscriptionsHandler
ServeList(n) ==
    /\ Serving(n, "load")
    /\ listCall' = [listCall EXCEPT ![n].step = "served", ![n].answer = Shown,
                                    ![n].clean = Items]
    /\ UNCHANGED <<page, server, moves, failures, doubt>>

\* updateSubscriptionHandler; createSubscriptionHandler, importFollowingsHandler;
\* deleteSubscriptionHandler.
Applies(c, i) ==
    IF c.kind = "add" THEN subscribed[i] = "absent" ELSE Present(i)

\* What has been added is not in the list yet; a list that was loaded since the
\* switch was turned may show what the server had before.
Unseen(c) == c.kind = "add" \/ (c.kind = "toggle" /\ ~c.held)

ServeChange(n, i) ==
    LET c == listCall[n] IN
    /\ c.step = "sent"
    /\ c.of = {i}
    /\ c.kind \in {"toggle", "remove", "add"}
    /\ IF Applies(c, i)
         THEN /\ listCall' = [k \in ListCalls |->
                     [listCall[k] EXCEPT !.step = IF k = n THEN "served" ELSE @,
                                         !.clean = @ \ {i}]]
              /\ subscribed' = [subscribed EXCEPT ![i] =
                     CASE c.kind = "toggle" -> Other(c.before)
                       [] c.kind = "remove" -> "deleted"
                       [] c.kind = "add" -> "on"]
              /\ doubt' = IF Unseen(c) THEN doubt \union {i} ELSE doubt
         ELSE /\ listCall' = [listCall EXCEPT ![n].step = "failed"]
              /\ UNCHANGED <<subscribed, doubt>>
    /\ UNCHANGED <<page, ready, moves, failures>>

\* The poll goroutine, or the import itself
Initialize(i) ==
    /\ Present(i)
    /\ i \notin ready
    /\ ready' = ready \union {i}
    /\ UNCHANGED <<page, listCall, subscribed, moves, failures, doubt>>

\* What was deleted stays in the list, and a switch the page still holds is put
\* back, when the page does not hear that the server has done it.
Misses(c) == c.step = "served" /\ (c.kind = "remove" \/ (c.kind = "toggle" /\ c.held))

\* Before the request is served, or after
RequestFails(n) ==
    LET c == listCall[n] IN
    /\ c.kind # "none"
    /\ c.step # "failed"
    /\ failures < MaxFailures
    /\ failures' = failures + 1
    /\ listCall' = [listCall EXCEPT ![n].step = "failed"]
    /\ doubt' = IF Misses(c) THEN doubt \union c.of ELSE doubt
    /\ UNCHANGED <<page, server, moves>>

-----------------------------------------------------------------------------
(* The specification                                                       *)

\* The first subscriptions were there before the page; the others are new.
ListInit ==
    /\ listPage = "away"
    /\ items = [i \in Items |-> Absent]
    /\ loading = TRUE
    /\ saving = FALSE
    /\ attempts = 0
    /\ refreshTimer = FALSE
    /\ listCall = [n \in ListCalls |-> NoListCall]
    /\ subscribed \in [Items -> {"absent", "on"}]
    /\ ready \in SUBSET {i \in Items : subscribed[i] = "on"}
    /\ moves = 0
    /\ failures = 0
    /\ doubt = Items

ListNext ==
    \/ ListLeave
    \/ \E i \in Items : Initialize(i)
    \/ \E n \in ListCalls :
          \/ ListMount(n) \/ PressRefresh(n) \/ RefreshFires(n)
          \/ ServeList(n) \/ RequestFails(n) \/ ListAnswered(n)
          \/ \E i \in Items :
                Toggle(n, i) \/ Remove(n, i) \/ Add(n, i) \/ ServeChange(n, i)

RefreshIsDue == \E n \in ListCalls : RefreshFires(n)

ListSettles(n) == ServeList(n) \/ ListAnswered(n) \/ \E i \in Items : ServeChange(n, i)

\* The timer runs out, and fetch settles.  Nothing is asked of the user, nor of
\* Bilibili, which initialization waits for.
ListFairness ==
    /\ WF_listVars(RefreshIsDue)
    /\ \A n \in ListCalls : WF_listVars(ListSettles(n))

ListSpec == ListInit /\ [][ListNext]_listVars /\ ListFairness

-----------------------------------------------------------------------------
(* Properties                                                              *)

(***************************************************************************)
(* A switch shows what the server has, once nothing is being asked of its  *)
(* subscription: after refusals, lost answers, and loads that replaced the *)
(* list while the switch was under way (toggle, remove, load;              *)
(* SubscriptionsView.vue:17-21).  Left out, until a load the server served *)
(* after its last change of them: those asked twice at a time, just added, *)
(* changed between a load and its arrival, changed by a request older than *)
(* the list shown, and changed without the page hearing of it.             *)
(***************************************************************************)
SwitchShowsServer ==
    \A i \in Items \ doubt : ~Asked(listCall, i) => items[i].switch = Shown[i].switch

(***************************************************************************)
(* When the user does nothing more, the page comes to rest, initialized or *)
(* not, left or not: "订阅页面不会持续自动刷新" (docs/USAGE.md:158;           *)
(* scheduleInitializationRefresh, SubscriptionsView.vue:16).               *)
(***************************************************************************)
RefreshingStops ==
    <>[](~refreshTimer /\ Under(listCall, {"load"}) = {})

(***************************************************************************)
(* A subscription that has been initialized is not shown as waiting for    *)
(* ever, unless the attempts are used up or the user has left: no load     *)
(* and no answer loses the timer (SubscriptionsView.vue:16-18).            *)
(***************************************************************************)
InitializationIsShown ==
    \A i \in Items :
        items[i].waiting /\ i \in ready
            ~> ~items[i].waiting \/ attempts = MaxAttempts \/ listPage = "left"
=============================================================================
