---------------------------- MODULE HistoryPage ----------------------------
(***************************************************************************)
(* The list of notifications, page by page (web/src/views/HistoryView.vue).*)
(* The page asked for is in the address too: the pager changes the page    *)
(* and then the address, back and forward change the address and then the  *)
(* page.  Requests go on when the page is left, and what becomes of them   *)
(* reaches the address of whatever page is there by then.                  *)
(*                                                                         *)
(* Code between two awaits is one step.                                    *)
(*                                                                         *)
(* Operators named Faulty... are wrong versions of the operator that       *)
(* follows them, substituted for it to see that a property notices.        *)
(***************************************************************************)
EXTENDS Naturals

CONSTANTS
    MaxPages,   \* bound: pages there are
    MaxLoads,   \* bound: requests of the page at one time
    MaxClicks   \* bound: things the user does, changes of the server, failures

\* There is a first page, if only an empty one.
ASSUME HistoryAssumption ==
    /\ MaxPages \in Nat \ {0}
    /\ {MaxLoads, MaxClicks} \subseteq Nat

Pages == 1 .. MaxPages
Loads == 1 .. MaxLoads

VARIABLES
    address,      \* routePage(route.query.page), on whatever page
    result,       \* the answer shown; page = 0: none yet
    historyPage,  \* "away" or "shown"
    fetching,     \* loading
    histCall,     \* histCall[n]: the requests under way; old: of a page that was left
    totalPages,   \* the server's
    clicks,
    astray        \* history: a load that went after an address has lost it

histVars ==
    <<address, result, historyPage, fetching, histCall, totalPages, clicks, astray>>

NoHistCall == [kind |-> "none", page |-> 1, sync |-> FALSE, total |-> 0,
               answer |-> "none", old |-> FALSE]

HistCall == [kind : {"none", "load", "remove"}, page : Pages, sync : BOOLEAN,
             total : 0 .. MaxPages, answer : {"none", "ok", "failed"}, old : BOOLEAN]

NoResult == [page |-> 0, total |-> 0]

HistoryTypeOK ==
    /\ address \in Pages
    /\ result \in [page : 0 .. MaxPages, total : 0 .. MaxPages]
    /\ historyPage \in {"away", "shown"}
    /\ fetching \in BOOLEAN
    /\ histCall \in [Loads -> HistCall]
    /\ totalPages \in 0 .. MaxPages
    /\ clicks \in Nat
    /\ astray \in BOOLEAN

FirstFree(n) == \A k \in Loads : k <= n => (histCall[k].kind = "none" <=> k = n)

\* Loads of the page shown that went after the address: the watcher's
Following(call) ==
    {n \in Loads : call[n].kind = "load" /\ ~call[n].old /\ ~call[n].sync}

\* One of them is for another page than the one in the address a.
Overtaken(call, a) == \E n \in Following(call) : call[n].page # a

Upset == clicks < MaxClicks /\ clicks' = clicks + 1

Click == historyPage = "shown" /\ Upset

Load(page, sync, old) ==
    [NoHistCall EXCEPT !.kind = "load", !.page = page, !.sync = sync, !.old = old]

\* load, up to its request, in the place of request n
BeginHistoryLoad(n, page, sync) ==
    /\ fetching' = TRUE
    /\ histCall' = [histCall EXCEPT ![n] = Load(page, sync, FALSE)]

\* onMounted
HistoryMount(n) ==
    /\ historyPage = "away"
    /\ historyPage' = "shown"
    /\ address' \in Pages
    /\ FirstFree(n)
    /\ BeginHistoryLoad(n, address', TRUE)
    /\ UNCHANGED <<result, totalPages, clicks, astray>>

\* Another page, whose address has no such number.
HistoryLeave ==
    /\ Click
    /\ historyPage' = "away"
    /\ address' = 1
    /\ result' = NoResult
    /\ fetching' = TRUE
    /\ histCall' = [n \in Loads |-> [histCall[n] EXCEPT !.old = @ \/ histCall[n].kind # "none"]]
    /\ astray' = FALSE
    /\ UNCHANGED totalPages

Current == IF result.page = 0 THEN address ELSE result.page

\* The button that loads the page again
Reload(n) ==
    /\ Click
    /\ FirstFree(n)
    /\ BeginHistoryLoad(n, Current, TRUE)
    /\ UNCHANGED <<address, result, historyPage, totalPages, astray>>

\* The pager is there when the list is.
Turn(n, page) ==
    /\ Click
    /\ ~fetching
    /\ result.total > 1
    /\ page <= result.total
    /\ FirstFree(n)
    /\ BeginHistoryLoad(n, page, TRUE)
    /\ UNCHANGED <<address, result, historyPage, totalPages, astray>>

\* The address changes, and its watcher looks at the page shown and not at the one
\* on its way.
Watched(n, page) ==
    /\ address' = page
    /\ page # address
    /\ IF page # result.page
         THEN BeginHistoryLoad(n, page, FALSE)
         ELSE UNCHANGED fetching /\ histCall' = [histCall EXCEPT ![n] = NoHistCall]
    /\ astray' = (astray \/ Overtaken(histCall', page))

\* Back, forward, or the link of the menu
Back(n, page) ==
    /\ Click
    /\ FirstFree(n)
    /\ Watched(n, page)
    /\ UNCHANGED <<result, historyPage, totalPages>>

\* remove, up to its request
Cancel(n) ==
    /\ Click
    /\ ~fetching
    /\ 0 < result.page /\ result.page <= result.total
    /\ FirstFree(n)
    /\ histCall' = [histCall EXCEPT ![n] = [NoHistCall EXCEPT !.kind = "remove"]]
    /\ UNCHANGED <<address, result, historyPage, fetching, totalPages, astray>>

\* remove, the rest: the page before when it was the last item of this one
CancelAnswered(n) ==
    /\ histCall[n].kind = "remove"
    /\ ~histCall[n].old
    /\ histCall[n].answer # "none"
    /\ \/ BeginHistoryLoad(n, Current, TRUE)
       \/ /\ histCall[n].answer = "ok"
          /\ result.page > 1
          /\ BeginHistoryLoad(n, result.page - 1, TRUE)
    /\ UNCHANGED <<address, result, historyPage, totalPages, clicks, astray>>

Vanished(c) == c.total > 0 /\ c.page > c.total

FaultyAddressAfter(c) == address

AddressAfter(c) == IF c.sync THEN c.page ELSE address

\* load, the rest.  The last page is loaded where the one asked for is gone; the
\* address follows when the load is to see to it.
LoadArrives(n) ==
    LET c == histCall[n] IN
    /\ c.kind = "load"
    /\ ~c.old
    /\ \/ /\ c.answer = "ok" /\ Vanished(c)
          /\ BeginHistoryLoad(n, c.total, c.sync)
          /\ astray' = (astray \/ ~c.sync)
          /\ UNCHANGED <<address, result>>
       \/ /\ c.answer = "ok" /\ ~Vanished(c)
          /\ result' = [page |-> c.page, total |-> c.total]
          /\ address' = AddressAfter(c)
          /\ fetching' = FALSE
          /\ histCall' = [histCall EXCEPT ![n] = NoHistCall]
          /\ astray' = IF c.sync THEN Overtaken(histCall', c.page) ELSE astray
       \/ /\ c.answer = "failed"
          /\ fetching' = FALSE
          /\ histCall' = [histCall EXCEPT ![n] = NoHistCall]
          /\ astray' = (astray \/ ~c.sync)
          /\ UNCHANGED <<address, result>>
    /\ UNCHANGED <<historyPage, totalPages, clicks>>

\* remove of a page that was left: it loads the page that one shows by then.
LateRemove(n) ==
    /\ histCall[n].kind = "remove"
    /\ histCall[n].old
    /\ histCall[n].answer # "none"
    /\ \E page \in Pages : histCall' = [histCall EXCEPT ![n] = Load(page, TRUE, TRUE)]
    /\ UNCHANGED <<address, result, historyPage, fetching, totalPages, clicks, astray>>

Replaces(c) == c.answer = "ok" /\ ~Vanished(c) /\ AddressAfter(c) # address

\* load of a page that was left: router.replace goes to the page that is there by
\* then, and to the watcher when that is the list again.
LateLoad(n) ==
    LET c == histCall[n]
        over == histCall' = [histCall EXCEPT ![n] = NoHistCall]
    IN
    /\ c.kind = "load"
    /\ c.old
    /\ c.answer # "none"
    /\ \/ /\ c.answer = "ok"
          /\ Vanished(c)
          /\ histCall' = [histCall EXCEPT ![n] = Load(c.total, c.sync, TRUE)]
          /\ UNCHANGED <<address, fetching, astray>>
       \/ /\ Replaces(c)
          /\ historyPage = "shown"
          /\ Watched(n, c.page)
       \/ /\ Replaces(c)
          /\ historyPage = "away"
          /\ address' = c.page
          /\ over
          /\ UNCHANGED <<fetching, astray>>
       \/ /\ ~Replaces(c)
          /\ c.answer = "ok" => ~Vanished(c)
          /\ over
          /\ UNCHANGED <<address, fetching, astray>>
    /\ UNCHANGED <<result, historyPage, totalPages, clicks>>

\* listDeliveriesHandler, deletePendingDeliveryHandler
ServeHistory(n) ==
    /\ histCall[n].kind # "none"
    /\ histCall[n].answer = "none"
    /\ histCall' = [histCall EXCEPT ![n].answer = "ok", ![n].total = totalPages]
    /\ totalPages' \in IF histCall[n].kind = "remove" /\ totalPages > 0
                         THEN {totalPages, totalPages - 1} ELSE {totalPages}
    /\ UNCHANGED <<address, result, historyPage, fetching, clicks, astray>>

\* A refusal, or the connection breaks.
HistoryFails(n) ==
    /\ Upset
    /\ histCall[n].kind # "none"
    /\ histCall[n].answer = "none"
    /\ histCall' = [histCall EXCEPT ![n].answer = "failed"]
    /\ UNCHANGED <<address, result, historyPage, fetching, totalPages, astray>>

\* Notifications come, and go with their user's creators.
HistoryChanges ==
    /\ Upset
    /\ totalPages' \in 0 .. MaxPages
    /\ UNCHANGED <<address, result, historyPage, fetching, histCall, astray>>

HistoryInit ==
    /\ address = 1
    /\ result = NoResult
    /\ historyPage = "away"
    /\ fetching = TRUE
    /\ histCall = [n \in Loads |-> NoHistCall]
    /\ totalPages = MaxPages
    /\ clicks = 0
    /\ astray = FALSE

HistoryNext ==
    \/ HistoryLeave \/ HistoryChanges
    \/ \E n \in Loads :
          \/ HistoryMount(n) \/ Reload(n) \/ Cancel(n) \/ CancelAnswered(n)
          \/ LoadArrives(n) \/ LateRemove(n) \/ LateLoad(n)
          \/ ServeHistory(n) \/ HistoryFails(n)
          \/ \E page \in Pages : Turn(n, page) \/ Back(n, page)

HistorySpec == HistoryInit /\ [][HistoryNext]_histVars

(***************************************************************************)
(* The address names the page that is shown, so that loading it again or   *)
(* going back to it shows the same: with overlapping pagers, removals and  *)
(* loads, back and forward during them, an answer for a page that was left *)
(* and last items removed.  While a load goes after the address they may   *)
(* differ; left out is only what follows when such a load has lost it: the *)
(* address has changed again, or its page was gone or could not be loaded, *)
(* until a load sets the address (load, watch; HistoryView.vue:11-16).     *)
(***************************************************************************)
AddressShowsPage ==
    Following(histCall) = {} /\ result.page # 0 /\ ~astray => address = result.page
=============================================================================
