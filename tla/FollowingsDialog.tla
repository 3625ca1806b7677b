-------------------------- MODULE FollowingsDialog --------------------------
(***************************************************************************)
(* Choosing followed accounts to import, page by page                      *)
(* (web/src/views/SubscriptionsView.vue:22-25, 60).  What is chosen is     *)
(* sent with the number of the page, and the server refuses an account     *)
(* that is not on it (importFollowingsHandler).                            *)
(*                                                                         *)
(* Code between two awaits is one step.                                    *)
(*                                                                         *)
(* Operators named Faulty... are wrong versions of the operator that       *)
(* follows them, substituted for it to see that a property notices.        *)
(***************************************************************************)
EXTENDS Naturals, FiniteSets

CONSTANTS
    Accounts,     \* followed accounts
    MaxFollowed,  \* pages there are
    MaxSelected,  \* 20 in the code
    MaxFetches,   \* bound: requests of the dialog at one time
    MaxOpenings   \* bound: times the dialog is opened, requests that fail

\* There is a first page, if only an empty one.
ASSUME FollowingsAssumption ==
    /\ MaxFollowed \in Nat \ {0}
    /\ {MaxSelected, MaxFetches, MaxOpenings} \subseteq Nat

FollowedPages == 1 .. MaxFollowed
Fetches == 1 .. MaxFetches

\* An account is the same on every page it could be on; each is on one.
Followed == FollowedPages \X Accounts
OnPage(p) == {a \in Followed : a[1] = p}

VARIABLES
    showImport,
    followings,        \* the page shown; 0: none yet
    followingLoading,
    selected,
    fetch,             \* fetch[n]: the requests under way
    openings,
    crossed            \* history: the page was asked for while another was under way

followVars ==
    <<showImport, followings, followingLoading, selected, fetch, openings, crossed>>

FetchState ==
    [kind : {"none", "page", "import", "load"}, page : 0 .. MaxFollowed, mids : SUBSET Followed]

NoFetch == [kind |-> "none", page |-> 0, mids |-> {}]

FollowTypeOK ==
    /\ showImport \in BOOLEAN
    /\ followings \in 0 .. MaxFollowed
    /\ followingLoading \in BOOLEAN
    /\ selected \subseteq Followed
    /\ fetch \in [Fetches -> FetchState]
    /\ openings \in Nat
    /\ crossed \in BOOLEAN

OpenFetch(n) == \A k \in Fetches : k <= n => (fetch[k].kind = "none" <=> k = n)

Fetching == {n \in Fetches : fetch[n].kind = "page"}

FaultyCleared == selected

Cleared == {}

\* loadFollowings, up to its request
LoadFollowings(n, page) ==
    /\ OpenFetch(n)
    /\ followingLoading' = TRUE
    /\ selected' = Cleared
    /\ fetch' = [fetch EXCEPT ![n] = [kind |-> "page", page |-> page, mids |-> {}]]
    /\ crossed' = (Fetching # {})

\* openImport
OpenImport(n) ==
    /\ ~showImport
    /\ openings < MaxOpenings
    /\ openings' = openings + 1
    /\ showImport' = TRUE
    /\ LoadFollowings(n, 1)
    /\ UNCHANGED followings

CloseImport ==
    /\ showImport
    /\ showImport' = FALSE
    /\ UNCHANGED <<followings, followingLoading, selected, fetch, openings, crossed>>

\* The two buttons of the pager
TurnFollowings(n, page) ==
    /\ showImport
    /\ ~followingLoading
    /\ followings # 0
    /\ page \in {followings - 1, followings + 1} \intersect FollowedPages
    /\ LoadFollowings(n, page)
    /\ UNCHANGED <<showImport, followings, openings>>

\* selectFollowing
SelectFollowing(a) ==
    /\ showImport
    /\ ~followingLoading
    /\ a \in OnPage(followings)
    /\ IF a \in selected
         THEN selected' = selected \ {a}
         ELSE Cardinality(selected) < MaxSelected /\ selected' = selected \union {a}
    /\ UNCHANGED <<showImport, followings, followingLoading, fetch, openings, crossed>>

\* importSelected, up to its request; saving disables the button.
ImportSelected(n) ==
    /\ showImport
    /\ followings # 0
    /\ selected # {}
    /\ \A k \in Fetches : fetch[k].kind \notin {"import", "load"}
    /\ OpenFetch(n)
    /\ fetch' = [fetch EXCEPT ![n] =
                   [kind |-> "import", page |-> followings, mids |-> selected]]
    /\ UNCHANGED <<showImport, followings, followingLoading, selected, openings, crossed>>

\* loadFollowings, the rest
FollowingsArrive(n) ==
    /\ fetch[n].kind = "page"
    /\ followings' = fetch[n].page
    /\ followingLoading' = FALSE
    /\ fetch' = [fetch EXCEPT ![n] = NoFetch]
    /\ UNCHANGED <<showImport, selected, openings, crossed>>

FollowingsFail(n) ==
    /\ fetch[n].kind = "page"
    /\ openings < MaxOpenings
    /\ openings' = openings + 1
    /\ followingLoading' = FALSE
    /\ fetch' = [fetch EXCEPT ![n] = NoFetch]
    /\ UNCHANGED <<showImport, followings, selected, crossed>>

\* importSelected, the rest: what is wrong is shown; or the dialog closes, whichever
\* it is by now, and the list is loaded, at whose end saving ends.
ImportAnswered(n) ==
    /\ fetch[n].kind = "import"
    /\ \/ fetch' = [fetch EXCEPT ![n] = NoFetch] /\ UNCHANGED showImport
       \/ fetch' = [fetch EXCEPT ![n] = [NoFetch EXCEPT !.kind = "load"]] /\ showImport' = FALSE
    /\ UNCHANGED <<followings, followingLoading, selected, openings, crossed>>

SavedAndLoaded(n) ==
    /\ fetch[n].kind = "load"
    /\ fetch' = [fetch EXCEPT ![n] = NoFetch]
    /\ UNCHANGED <<showImport, followings, followingLoading, selected, openings, crossed>>

FollowInit ==
    /\ showImport = FALSE
    /\ followings = 0
    /\ followingLoading = FALSE
    /\ selected = {}
    /\ fetch = [n \in Fetches |-> NoFetch]
    /\ openings = 0
    /\ crossed = FALSE

FollowNext ==
    \/ CloseImport
    \/ \E a \in Followed : SelectFollowing(a)
    \/ \E n \in Fetches :
          \/ OpenImport(n) \/ ImportSelected(n) \/ ImportAnswered(n) \/ SavedAndLoaded(n)
          \/ FollowingsArrive(n) \/ FollowingsFail(n)
          \/ \E page \in FollowedPages : TurnFollowings(n, page)

FollowSpec == FollowInit /\ [][FollowNext]_followVars

(***************************************************************************)
(* What is chosen is on the page that is shown, whose number an import     *)
(* sends along: turning pages, loads that fail, and closing and opening    *)
(* the dialog leave nothing chosen from another page, which the server     *)
(* would refuse with 409.  Left out is a page asked for while another was  *)
(* still on its way (SubscriptionsView.vue:22-25).                         *)
(***************************************************************************)
SelectionIsOnPage ==
    followings # 0 /\ ~crossed => selected \subseteq OnPage(followings)
=============================================================================
