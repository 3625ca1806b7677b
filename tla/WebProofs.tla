------------------------------ MODULE WebProofs ------------------------------
(***************************************************************************)
(* Theorems about the web interface, page by page, for every set of tabs,  *)
(* users, subscriptions and followed accounts and every bound.             *)
(***************************************************************************)
EXTENDS WebSession, SubscriptionsPage, FollowingsDialog, HistoryPage, AdminPage, TLAPS

-----------------------------------------------------------------------------
(* Followed accounts                                                       *)

\* Unless a page was asked for while another was on its way, one is, at most, and
\* while it is nothing can be chosen.
FetchInv ==
    ~crossed =>
        /\ \A m, n \in Fetching : m = n
        /\ Fetching # {} => followingLoading /\ selected = {}

FollowInv == FollowTypeOK /\ FetchInv /\ SelectionIsOnPage

LEMMA NoFetchType ==
    /\ NoFetch \in FetchState
    /\ \A kind \in {"none", "page", "import", "load"} : [NoFetch EXCEPT !.kind = kind] \in FetchState
    BY FollowingsAssumption DEF NoFetch, FetchState

LEMMA LoadFollowingsStep ==
    ASSUME FollowInv, NEW n \in Fetches, NEW number \in FollowedPages, LoadFollowings(n, number),
           UNCHANGED followings
    PROVE  /\ followingLoading' \in BOOLEAN
           /\ selected' \subseteq Followed
           /\ fetch' \in [Fetches -> FetchState]
           /\ crossed' \in BOOLEAN
           /\ FetchInv' /\ SelectionIsOnPage'
<1>1. number \in 0 .. MaxFollowed
      BY FollowingsAssumption DEF FollowedPages
<1>2. fetch' \in [Fetches -> FetchState]
      BY <1>1 DEF LoadFollowings, FollowInv, FollowTypeOK, FetchState
<1>3. Fetching' = Fetching \union {n}
      BY DEF LoadFollowings, Fetching, FollowInv, FollowTypeOK
<1>4. FetchInv' /\ SelectionIsOnPage'
      BY <1>3 DEF LoadFollowings, Cleared, FetchInv, SelectionIsOnPage
<1> QED
    BY <1>2, <1>4 DEF LoadFollowings, Cleared

LEMMA FollowStep == FollowInv /\ [FollowNext]_followVars => FollowInv'
<1> SUFFICES ASSUME FollowInv, [FollowNext]_followVars PROVE FollowInv'
    OBVIOUS
<1> USE DEF FollowInv, FollowTypeOK
<1>1. CASE CloseImport
      BY <1>1 DEF CloseImport, FetchInv, Fetching, SelectionIsOnPage
<1>2. ASSUME NEW a \in Followed, SelectFollowing(a) PROVE FollowInv'
  <2>1. followings # 0 /\ ~followingLoading
        BY <1>2, FollowingsAssumption DEF SelectFollowing, OnPage, Followed, FollowedPages
  <2>2. FetchInv'
        BY <1>2, <2>1 DEF SelectFollowing, FetchInv, Fetching
  <2>3. SelectionIsOnPage'
        BY <1>2, <2>1 DEF SelectFollowing, SelectionIsOnPage
  <2> QED
      BY <1>2, <2>2, <2>3 DEF SelectFollowing
<1>3. ASSUME NEW n \in Fetches, OpenImport(n) PROVE FollowInv'
  <2>1. 1 \in FollowedPages
        BY FollowingsAssumption DEF FollowedPages
  <2> QED
      BY <1>3, <2>1, LoadFollowingsStep DEF OpenImport
<1>4. ASSUME NEW n \in Fetches, NEW number \in FollowedPages, TurnFollowings(n, number)
      PROVE  FollowInv'
      BY <1>4, LoadFollowingsStep DEF TurnFollowings
<1>5. ASSUME NEW n \in Fetches, ImportSelected(n) PROVE FollowInv'
  <2>1. Fetching' = Fetching
        BY <1>5 DEF ImportSelected, OpenFetch, Fetching, Fetches
  <2>2. fetch' \in [Fetches -> FetchState]
        BY <1>5 DEF ImportSelected, FetchState
  <2> QED
      BY <1>5, <2>1, <2>2 DEF ImportSelected, FetchInv, SelectionIsOnPage
<1>6. ASSUME NEW n \in Fetches, FollowingsArrive(n) \/ FollowingsFail(n) PROVE FollowInv'
  <2>1. Fetching' = Fetching \ {n} /\ n \in Fetching
        BY <1>6 DEF FollowingsArrive, FollowingsFail, Fetching, NoFetch
  <2>2. FetchInv'
        BY <1>6, <2>1 DEF FollowingsArrive, FollowingsFail, FetchInv
  <2>3. SelectionIsOnPage'
        BY <1>6, <2>1 DEF FollowingsArrive, FollowingsFail, FetchInv, SelectionIsOnPage
  <2>4. FollowTypeOK'
    <3>1. fetch[n].page \in 0 .. MaxFollowed
          BY DEF FetchState
    <3>2. fetch' \in [Fetches -> FetchState]
          BY <1>6, NoFetchType DEF FollowingsArrive, FollowingsFail
    <3>3. followings' \in 0 .. MaxFollowed /\ openings' \in Nat /\ selected' \subseteq Followed
          BY <1>6, <3>1 DEF FollowingsArrive, FollowingsFail
    <3>4. {showImport', followingLoading', crossed'} \subseteq BOOLEAN
          BY <1>6 DEF FollowingsArrive, FollowingsFail
    <3> QED
        BY <3>2, <3>3, <3>4
  <2> QED
      BY <2>2, <2>3, <2>4
<1>7. ASSUME NEW n \in Fetches, ImportAnswered(n) \/ SavedAndLoaded(n) PROVE FollowInv'
  <2>1. Fetching' = Fetching
        BY <1>7 DEF ImportAnswered, SavedAndLoaded, Fetching, NoFetch
  <2>2. FollowTypeOK'
    <3>1. fetch' \in [Fetches -> FetchState]
          BY <1>7, NoFetchType DEF ImportAnswered, SavedAndLoaded
    <3> QED
        BY <1>7, <3>1 DEF ImportAnswered, SavedAndLoaded
  <2> QED
      BY <1>7, <2>1, <2>2 DEF ImportAnswered, SavedAndLoaded, FetchInv, SelectionIsOnPage
<1>8. CASE UNCHANGED followVars
      BY <1>8 DEF followVars, FetchInv, Fetching, SelectionIsOnPage
<1> QED
    BY <1>1, <1>2, <1>3, <1>4, <1>5, <1>6, <1>7, <1>8 DEF FollowNext

(* What is chosen is on the page shown, whose number an import sends       *)
(* along: a page is asked for with nothing chosen, and nothing can be      *)
(* chosen before it has arrived.                                           *)
THEOREM ChosenIsOnPage == FollowSpec => []SelectionIsOnPage
<1>1. FollowInit => FollowInv
  <2> SUFFICES ASSUME FollowInit PROVE FollowInv
      OBVIOUS
  <2>1. followings \in 0 .. MaxFollowed /\ openings \in Nat /\ selected \subseteq Followed
        BY FollowingsAssumption DEF FollowInit
  <2>2. {showImport, followingLoading, crossed} \subseteq BOOLEAN
        BY DEF FollowInit
  <2>3. fetch \in [Fetches -> FetchState]
        BY NoFetchType DEF FollowInit
  <2>4. Fetching = {}
        BY DEF FollowInit, Fetching, NoFetch
  <2> QED
      BY <2>1, <2>2, <2>3, <2>4
      DEF FollowInit, FollowInv, FollowTypeOK, FetchInv, SelectionIsOnPage
<1> QED
    BY <1>1, FollowStep, PTL DEF FollowSpec, FollowInv

-----------------------------------------------------------------------------
(* Administration                                                          *)

\* A password in the field of a reset was typed for its user.
FieldInv ==
    /\ shownDialog.kind = "none" => shownDialog = NoDialog
    /\ shownDialog.kind = "reset" => password \in {Nobody, shownDialog.user}

AdminInv == AdminTypeOK /\ FieldInv /\ TypedForItsUser

LEMMA AdminTypes ==
    /\ NoDialog \in Dialog /\ NoAdminCall \in AdminCall
    /\ \A kind \in {"schedule", "load"} : [NoAdminCall EXCEPT !.kind = kind] \in AdminCall
    BY DEF NoDialog, Dialog, NoAdminCall, AdminCall

LEMMA AdminStepInv == AdminInv /\ [AdminNext]_adminVars => AdminInv'
<1> SUFFICES ASSUME AdminInv, [AdminNext]_adminVars PROVE AdminInv'
    OBVIOUS
<1> USE DEF AdminInv, AdminTypeOK, FieldInv, TypedForItsUser
<1>a. {changes', reloads', acts'} \subseteq Nat
      BY DEF AdminNext, adminVars, CloseDialog, TypePassword, EditSchedule, SubmitDialog, SaveSystem,
         ToggleUser, SwitchAnswered, SubmitAnswered, SavingEnds, ReloadAnswered, TypeConfirmation,
         OpenDialog, Act
<1>1. CASE CloseDialog
      BY <1>a, <1>1, AdminTypes DEF CloseDialog, NoDialog
<1>2. CASE TypePassword
      BY <1>a, <1>2 DEF TypePassword, Dialog
<1>3. CASE EditSchedule
      BY <1>a, <1>3 DEF EditSchedule
<1>4. CASE SubmitDialog
  <2>1. adminCall' \in AdminCall
        BY <1>a, <1>4 DEF SubmitDialog, NoDialog, Dialog, AdminCall
  <2>2. adminCall'.kind # "none"
    <3>1. shownDialog.kind # "none"
          BY <1>a, <1>4 DEF SubmitDialog
    <3> QED
        BY <1>a, <1>4, <3>1 DEF SubmitDialog
  <2> QED
      BY <1>a, <1>4, <2>1, <2>2 DEF SubmitDialog
<1>5. CASE SaveSystem
      BY <1>a, <1>5, AdminTypes DEF SaveSystem, Act, NoAdminCall
<1>6. CASE ToggleUser \/ SwitchAnswered
      BY <1>a, <1>6 DEF ToggleUser, Act, SwitchAnswered
<1>7. CASE SubmitAnswered
  <2>1. shownDialog' \in {shownDialog, NoDialog} /\ password' \in {password, Nobody}
        BY <1>7 DEF SubmitAnswered
  <2>2. confirmation' \in Others \union {Nobody} /\ draft' = draft
        BY <1>7 DEF SubmitAnswered
  <2>3. shownDialog' \in Dialog /\ password' \in Others \union {NewUser, Nobody} /\ FieldInv'
        BY <2>1, AdminTypes DEF NoDialog
  <2>4. \/ submitting' = FALSE /\ adminCall' = NoAdminCall
        \/ submitting' = submitting /\ submitting /\ adminCall' = [NoAdminCall EXCEPT !.kind = "load"]
        BY <1>7 DEF SubmitAnswered
  <2>5. CASE submitting' = FALSE /\ adminCall' = NoAdminCall
        BY <1>a, <2>2, <2>3, <2>5, AdminTypes DEF NoAdminCall
  <2>6. CASE /\ submitting' = submitting /\ submitting
             /\ adminCall' = [NoAdminCall EXCEPT !.kind = "load"]
    <3>1. /\ adminCall' \in AdminCall
          /\ adminCall'.kind = "load"
          BY <2>6, AdminTypes DEF NoAdminCall
    <3> QED
        BY <1>a, <2>2, <2>3, <2>6, <3>1
  <2> QED
      BY <2>4, <2>5, <2>6
<1>8. CASE SavingEnds \/ ReloadAnswered
  <2>1. draft' \in {"server", "edited"} /\ UNCHANGED <<shownDialog, password, confirmation>>
        BY <1>8 DEF SavingEnds, ReloadAnswered
  <2>2. \/ submitting' = FALSE /\ adminCall' = NoAdminCall
        \/ submitting' = submitting /\ adminCall' = adminCall
        BY <1>8 DEF SavingEnds, ReloadAnswered
  <2>3. CASE submitting' = FALSE /\ adminCall' = NoAdminCall
        BY <1>a, <2>1, <2>3, AdminTypes DEF NoAdminCall
  <2>4. CASE submitting' = submitting /\ adminCall' = adminCall
        BY <1>a, <2>1, <2>4
  <2> QED
      BY <2>2, <2>3, <2>4
<1>9. ASSUME NEW u \in Others, TypeConfirmation(u) PROVE AdminInv'
      BY <1>a, <1>9 DEF TypeConfirmation
<1>10. ASSUME NEW kind \in {"add", "reset", "remove"}, NEW u \in Others \union {Nobody},
              OpenDialog(kind, u)
       PROVE  AdminInv'
       BY <1>a, <1>10 DEF OpenDialog, Act, Emptied, Dialog
<1>11. CASE UNCHANGED adminVars
       BY <1>a, <1>11 DEF adminVars
<1> QED
    BY <1>1, <1>2, <1>3, <1>4, <1>5, <1>6, <1>7, <1>8, <1>9, <1>10, <1>11 DEF AdminNext

(* A reset gives a user a password that was typed into a dialog of that    *)
(* user, and a removal names the user it removes: whatever answer closes   *)
(* whichever dialog, the shared field is emptied when a reset is opened.   *)
THEOREM TypedForUser == AdminSpec => []TypedForItsUser
<1>1. AdminInit => AdminInv
  <2> SUFFICES ASSUME AdminInit PROVE AdminInv
      OBVIOUS
  <2>1. {changes, reloads, acts} \subseteq Nat
        BY DEF AdminInit
  <2>2. shownDialog \in Dialog /\ FieldInv
        BY AdminTypes DEF AdminInit, FieldInv, NoDialog
  <2>3. /\ adminCall \in AdminCall /\ submitting \in BOOLEAN /\ (submitting <=> adminCall.kind # "none")
        /\ TypedForItsUser
        BY AdminTypes DEF AdminInit, NoAdminCall, TypedForItsUser
  <2>4. /\ password \in Others \union {NewUser, Nobody} /\ confirmation \in Others \union {Nobody}
        /\ draft \in {"server", "edited"}
        BY DEF AdminInit
  <2> QED
      BY <2>1, <2>2, <2>3, <2>4 DEF AdminInv, AdminTypeOK
<1> QED
    BY <1>1, AdminStepInv, PTL DEF AdminSpec, AdminInv

-----------------------------------------------------------------------------
(* Notifications                                                           *)

AwayInv ==
    historyPage = "away" =>
        result.page = 0 /\ \A n \in Loads : histCall[n].kind = "none" \/ histCall[n].old

\* Unless one has lost it, the loads that follow the address are for its page, ...
FollowingInv == ~astray => ~Overtaken(histCall, address)

\* ... and where there are none, the address names the page shown.
AddressInv ==
    ~astray /\ result.page # 0 => address = result.page \/ Following(histCall) # {}

HistInv == HistoryTypeOK /\ AwayInv /\ FollowingInv /\ AddressInv

LEMMA HistCallTypes ==
    /\ NoHistCall \in HistCall /\ NoHistCall.kind = "none"
    /\ \A number \in Pages, sync, old \in BOOLEAN :
           /\ Load(number, sync, old) \in HistCall
           /\ Load(number, sync, old).kind = "load" /\ Load(number, sync, old).page = number
           /\ Load(number, sync, old).sync = sync /\ Load(number, sync, old).old = old
    /\ LET c == [NoHistCall EXCEPT !.kind = "remove"]
       IN  c \in HistCall /\ c.kind = "remove" /\ ~c.old
<1>1. 1 \in Pages /\ 0 \in 0 .. MaxPages
      BY HistoryAssumption DEF Pages
<1>2. NoHistCall \in HistCall /\ NoHistCall.kind = "none" /\ ~NoHistCall.old
      BY <1>1 DEF NoHistCall, HistCall
<1>3. ASSUME NEW number \in Pages, NEW sync \in BOOLEAN, NEW old \in BOOLEAN
      PROVE  /\ Load(number, sync, old) \in HistCall
             /\ Load(number, sync, old).kind = "load" /\ Load(number, sync, old).page = number
             /\ Load(number, sync, old).sync = sync /\ Load(number, sync, old).old = old
      BY <1>2 DEF HistCall, Load
<1>4. LET c == [NoHistCall EXCEPT !.kind = "remove"]
      IN  c \in HistCall /\ c.kind = "remove" /\ ~c.old
      BY <1>2 DEF HistCall
<1> QED
    BY <1>2, <1>3, <1>4

LEMMA FirstFreeIsIdle ==
    ASSUME NEW n \in Loads, FirstFree(n) PROVE histCall[n].kind = "none"
    BY HistoryAssumption DEF FirstFree, Loads

LEMMA CurrentType == HistoryTypeOK => Current \in Pages
    BY HistoryAssumption DEF HistoryTypeOK, Current, Pages

WatcherLoad(c) == c.kind = "load" /\ ~c.old /\ ~c.sync

\* Request n becomes c.
LEMMA CallBecomes ==
    ASSUME HistoryTypeOK, NEW n \in Loads, NEW c \in HistCall,
           histCall' = [histCall EXCEPT ![n] = c]
    PROVE  /\ histCall' \in [Loads -> HistCall] /\ histCall'[n] = c
           /\ \A k \in Loads \ {n} : histCall'[k] = histCall[k]
           /\ n \in Following(histCall') <=> WatcherLoad(c)
           /\ \A k \in Loads \ {n} : k \in Following(histCall') <=> k \in Following(histCall)
    BY DEF HistoryTypeOK, Following, WatcherLoad

\* What leaves the address, the page shown and the loads that follow as they are
LEMMA HistQuiet ==
    ASSUME HistInv, UNCHANGED <<address, result, astray>>,
           Following(histCall') = Following(histCall),
           \A n \in Following(histCall) : histCall'[n].page = histCall[n].page
    PROVE  FollowingInv' /\ AddressInv'
    BY DEF HistInv, FollowingInv, AddressInv, Overtaken

\* A request that followed nothing becomes one that follows nothing.
LEMMA QuietCall ==
    ASSUME HistInv, NEW n \in Loads, NEW c \in HistCall, ~WatcherLoad(c), ~WatcherLoad(histCall[n]),
           histCall' = [histCall EXCEPT ![n] = c], UNCHANGED <<address, result, astray>>
    PROVE  histCall' \in [Loads -> HistCall] /\ FollowingInv' /\ AddressInv'
<1>1. /\ histCall' \in [Loads -> HistCall]
      /\ \A k \in Loads \ {n} : histCall'[k] = histCall[k]
      /\ n \notin Following(histCall')
      /\ \A k \in Loads \ {n} : k \in Following(histCall') <=> k \in Following(histCall)
      BY CallBecomes DEF HistInv
<1>2. n \notin Following(histCall)
      BY DEF Following, WatcherLoad
<1>3. Following(histCall') = Following(histCall)
      BY <1>1, <1>2 DEF Following
<1>4. \A k \in Following(histCall) : histCall'[k].page = histCall[k].page
      BY <1>1, <1>2 DEF Following
<1> QED
    BY <1>1, <1>3, <1>4, HistQuiet

\* A load of the page shown that sees to the address itself begins.
LEMMA BeginStep ==
    ASSUME HistInv, NEW n \in Loads, NEW number \in Pages,
           BeginHistoryLoad(n, number, TRUE), ~WatcherLoad(histCall[n]),
           historyPage = "shown", UNCHANGED <<address, result, historyPage, totalPages, astray>>,
           clicks' \in Nat
    PROVE  HistInv'
<1> DEFINE c == Load(number, TRUE, FALSE)
<1>1. c \in HistCall /\ ~WatcherLoad(c)
      BY HistCallTypes DEF WatcherLoad
<1>2. histCall' = [histCall EXCEPT ![n] = c] /\ fetching' = TRUE
      BY DEF BeginHistoryLoad
<1> HIDE DEF c
<1>3. histCall' \in [Loads -> HistCall] /\ FollowingInv' /\ AddressInv'
      BY <1>1, <1>2, QuietCall
<1>4. AwayInv'
      BY DEF AwayInv
<1>5. HistoryTypeOK'
      BY <1>2, <1>3 DEF HistInv, HistoryTypeOK
<1> QED
    BY <1>3, <1>4, <1>5 DEF HistInv

\* The watcher of the address, in the place of a request that followed nothing
LEMMA WatchedStep ==
    ASSUME HistInv, NEW n \in Loads, NEW number \in Pages, Watched(n, number),
           ~WatcherLoad(histCall[n]), historyPage = "shown",
           UNCHANGED <<result, historyPage, totalPages>>, clicks' \in Nat
    PROVE  HistInv'
<1> DEFINE c == IF number # result.page THEN Load(number, FALSE, FALSE) ELSE NoHistCall
<1>1. c \in HistCall /\ (WatcherLoad(c) <=> number # result.page)
      BY HistCallTypes DEF WatcherLoad
<1>2. /\ histCall' = [histCall EXCEPT ![n] = c] /\ fetching' \in BOOLEAN
      /\ address' = number /\ astray' = (astray \/ Overtaken(histCall', number))
      BY DEF Watched, BeginHistoryLoad, HistInv, HistoryTypeOK
<1> HIDE DEF c
<1>3. histCall' \in [Loads -> HistCall] /\ (n \in Following(histCall') <=> number # result.page)
      BY <1>1, <1>2, CallBecomes DEF HistInv
<1>4. FollowingInv'
      BY <1>2 DEF FollowingInv
<1>5. AddressInv'
      BY <1>2, <1>3 DEF AddressInv
<1>6. AwayInv'
      BY DEF AwayInv
<1>7. astray' \in BOOLEAN
      BY <1>2 DEF Overtaken, HistInv, HistoryTypeOK
<1>8. HistoryTypeOK'
      BY <1>2, <1>3, <1>7 DEF HistInv, HistoryTypeOK
<1> QED
    BY <1>4, <1>5, <1>6, <1>8 DEF HistInv

\* The page comes and goes: nothing is shown, and no load follows the address.
LEMMA ComingAndGoing ==
    ASSUME HistInv, HistoryLeave \/ \E n \in Loads : HistoryMount(n)
    PROVE  HistInv'
<1> USE DEF HistInv, HistoryTypeOK
<1>1. ASSUME NEW n \in Loads, HistoryMount(n) PROVE HistInv'
  <2> DEFINE c == Load(address', TRUE, FALSE)
  <2>1. /\ historyPage = "away" /\ historyPage' = "shown" /\ address' \in Pages
        /\ histCall' = [histCall EXCEPT ![n] = c] /\ fetching' = TRUE
        /\ UNCHANGED <<result, totalPages, clicks, astray>>
        BY <1>1 DEF HistoryMount, BeginHistoryLoad
  <2>2. c \in HistCall /\ ~WatcherLoad(c)
        BY <2>1, HistCallTypes DEF WatcherLoad
  <2> HIDE DEF c
  <2>3. /\ histCall' \in [Loads -> HistCall] /\ n \notin Following(histCall')
        /\ \A k \in Loads \ {n} : k \in Following(histCall') <=> k \in Following(histCall)
        BY <2>1, <2>2, CallBecomes
  <2>4. result.page = 0 /\ Following(histCall) = {}
        BY <2>1 DEF AwayInv, Following
  <2>5. Following(histCall') = {}
        BY <2>3, <2>4 DEF Following
  <2> QED
      BY <2>1, <2>3, <2>4, <2>5 DEF AwayInv, FollowingInv, AddressInv, Overtaken
<1>2. CASE HistoryLeave
  <2>1. /\ historyPage' = "away" /\ address' = 1 /\ result' = NoResult /\ fetching' = TRUE
        /\ histCall' = [n \in Loads |-> [histCall[n] EXCEPT !.old = @ \/ histCall[n].kind # "none"]]
        /\ astray' = FALSE /\ UNCHANGED totalPages /\ clicks' \in Nat
        BY <1>2 DEF HistoryLeave, Click, Upset
  <2>2. ASSUME NEW n \in Loads
        PROVE  histCall'[n] \in HistCall /\ (histCall'[n].kind = "none" \/ histCall'[n].old)
    <3>1. histCall[n] \in HistCall
          OBVIOUS
    <3>2. histCall'[n] = [histCall[n] EXCEPT !.old = histCall[n].old \/ histCall[n].kind # "none"]
          BY <2>1, <3>1 DEF HistCall
    <3>3. (histCall[n].old \/ histCall[n].kind # "none") \in BOOLEAN
          BY <3>1 DEF HistCall
    <3> QED
        BY <3>1, <3>2, <3>3 DEF HistCall
  <2>3. histCall' \in [Loads -> HistCall]
        BY <2>1, <2>2
  <2>4. Following(histCall') = {}
        BY <2>2 DEF Following
  <2>5. 1 \in Pages /\ result' \in [page : 0 .. MaxPages, total : 0 .. MaxPages] /\ result'.page = 0
        BY <2>1, HistoryAssumption DEF NoResult, Pages
  <2>6. HistoryTypeOK'
        BY <2>1, <2>3, <2>5
  <2> QED
      BY <2>1, <2>2, <2>4, <2>5, <2>6 DEF AwayInv, FollowingInv, AddressInv, Overtaken
<1> QED
    BY <1>1, <1>2

\* The answer of a load of the page shown
LEMMA ArriveStep ==
    ASSUME HistInv, NEW n \in Loads, LoadArrives(n)
    PROVE  HistInv'
<1> DEFINE c == histCall[n]
<1> USE DEF HistInv, HistoryTypeOK
<1>1. /\ c \in HistCall /\ c.kind = "load" /\ ~c.old /\ c.answer \in {"ok", "failed"}
      /\ WatcherLoad(c) <=> ~c.sync
      BY DEF LoadArrives, WatcherLoad
<1>2. UNCHANGED <<historyPage, totalPages, clicks>> /\ historyPage = "shown"
      BY <1>1 DEF LoadArrives, AwayInv
<1>3. AwayInv'
      BY <1>2 DEF AwayInv
<1>4. c.page \in Pages /\ c.sync \in BOOLEAN /\ c.total \in 0 .. MaxPages
      BY <1>1 DEF HistCall
<1>5. CASE c.answer = "ok" /\ Vanished(c)
  <2> DEFINE d == Load(c.total, c.sync, FALSE)
  <2>1. /\ fetching' = TRUE /\ histCall' = [histCall EXCEPT ![n] = d]
        /\ astray' = (astray \/ ~c.sync) /\ UNCHANGED <<address, result>>
        BY <1>5 DEF LoadArrives, BeginHistoryLoad
  <2>2. c.total \in Pages
        BY <1>4, <1>5, HistoryAssumption DEF Vanished, Pages
  <2>3. d \in HistCall /\ d.kind = "load" /\ d.sync = c.sync /\ d.old = FALSE
    <3>1. NoHistCall \in HistCall
          BY HistCallTypes
    <3> QED
        BY <1>4, <2>2, <3>1 DEF Load, HistCall
  <2> HIDE DEF d
  <2>4. histCall' \in [Loads -> HistCall]
        BY <2>1, <2>3, CallBecomes
  <2>5. FollowingInv' /\ AddressInv'
    <3>1. CASE c.sync
          BY <1>1, <2>1, <2>3, <3>1, QuietCall DEF WatcherLoad
    <3>2. CASE ~c.sync
          BY <2>1, <3>2 DEF FollowingInv, AddressInv
    <3> QED
        BY <3>1, <3>2
  <2>6. HistoryTypeOK'
        BY <1>2, <1>4, <2>1, <2>4
  <2> QED
      BY <1>3, <2>5, <2>6
<1>6. CASE c.answer = "ok" /\ ~Vanished(c)
  <2>1. /\ result' = [page |-> c.page, total |-> c.total]
        /\ address' = AddressAfter(c)
        /\ fetching' = FALSE
        /\ histCall' = [histCall EXCEPT ![n] = NoHistCall]
        /\ astray' = IF c.sync THEN Overtaken(histCall', c.page) ELSE astray
        BY <1>6 DEF LoadArrives
  <2>2. /\ histCall' \in [Loads -> HistCall] /\ n \notin Following(histCall')
        /\ \A k \in Loads \ {n} : histCall'[k] = histCall[k]
        /\ \A k \in Loads \ {n} : k \in Following(histCall') <=> k \in Following(histCall)
        BY <2>1, HistCallTypes, CallBecomes DEF WatcherLoad
  <2>3. address' \in Pages /\ (c.sync => address' = c.page) /\ (~c.sync => address' = address)
        BY <1>4, <2>1 DEF AddressAfter
  <2>4. result'.page = c.page /\ result' \in [page : 0 .. MaxPages, total : 0 .. MaxPages]
        BY <1>4, <2>1, HistoryAssumption DEF Pages
  <2>5. FollowingInv' /\ AddressInv'
    <3>1. CASE c.sync
          BY <2>1, <2>3, <2>4, <3>1 DEF FollowingInv, AddressInv
    <3>2. CASE ~c.sync
      <4>1. n \in Following(histCall)
            BY <1>1, <3>2 DEF Following
      <4>2. ~astray => address = c.page
            BY <4>1 DEF FollowingInv, Overtaken
      <4>3. ~astray => ~Overtaken(histCall', address)
            BY <2>2 DEF FollowingInv, Overtaken, Following
      <4> QED
          BY <2>1, <2>3, <2>4, <3>2, <4>2, <4>3 DEF FollowingInv, AddressInv
    <3> QED
        BY <3>1, <3>2
  <2>6. astray' \in BOOLEAN
        BY <2>1 DEF Overtaken
  <2>7. HistoryTypeOK'
        BY <1>2, <2>1, <2>2, <2>3, <2>4, <2>6
  <2> QED
      BY <1>3, <2>5, <2>7
<1>7. CASE c.answer = "failed"
  <2>1. /\ fetching' = FALSE /\ histCall' = [histCall EXCEPT ![n] = NoHistCall]
        /\ astray' = (astray \/ ~c.sync) /\ UNCHANGED <<address, result>>
        BY <1>7 DEF LoadArrives
  <2>2. NoHistCall \in HistCall /\ ~WatcherLoad(NoHistCall)
        BY HistCallTypes DEF WatcherLoad
  <2>3. histCall' \in [Loads -> HistCall]
        BY <2>1, <2>2, CallBecomes
  <2>4. FollowingInv' /\ AddressInv'
    <3>1. CASE c.sync
          BY <1>1, <2>1, <2>2, <3>1, QuietCall
    <3>2. CASE ~c.sync
          BY <2>1, <3>2 DEF FollowingInv, AddressInv
    <3> QED
        BY <3>1, <3>2
  <2>5. HistoryTypeOK'
        BY <1>2, <1>4, <2>1, <2>3
  <2> QED
      BY <1>3, <2>4, <2>5
<1> QED
    BY <1>1, <1>5, <1>6, <1>7

\* Requests of a page that was left follow nothing, and touch the address at most.
LEMMA LateStep ==
    ASSUME HistInv, NEW n \in Loads, LateRemove(n) \/ LateLoad(n)
    PROVE  HistInv'
<1> DEFINE c == histCall[n]
<1> USE DEF HistInv, HistoryTypeOK
<1>1. c \in HistCall /\ c.old /\ ~WatcherLoad(c)
      BY DEF LateRemove, LateLoad, WatcherLoad
<1>2. UNCHANGED <<result, historyPage, totalPages, clicks>>
      BY DEF LateRemove, LateLoad
<1>3. ASSUME NEW d \in HistCall, d.kind = "none" \/ d.old,
             histCall' = [histCall EXCEPT ![n] = d], UNCHANGED <<address, fetching, astray>>
      PROVE  HistInv'
  <2>1. ~WatcherLoad(d)
        BY <1>3 DEF WatcherLoad
  <2>2. histCall' \in [Loads -> HistCall] /\ FollowingInv' /\ AddressInv'
        BY <1>1, <1>2, <1>3, <2>1, QuietCall
  <2>3. histCall'[n] = d /\ \A k \in Loads \ {n} : histCall'[k] = histCall[k]
        BY <1>3, CallBecomes
  <2>4. AwayInv'
        BY <1>2, <1>3, <2>3 DEF AwayInv
  <2> QED
      BY <1>2, <1>3, <2>2, <2>4
<1>4. NoHistCall \in HistCall /\ NoHistCall.kind = "none"
      BY HistCallTypes
<1>5. CASE LateRemove(n)
  <2>1. PICK number \in Pages : histCall' = [histCall EXCEPT ![n] = Load(number, TRUE, TRUE)]
        BY <1>5 DEF LateRemove
  <2>2. Load(number, TRUE, TRUE) \in HistCall /\ Load(number, TRUE, TRUE).old
        BY HistCallTypes
  <2>3. UNCHANGED <<address, fetching, astray>>
        BY <1>5 DEF LateRemove
  <2> QED
      BY <1>3, <2>1, <2>2, <2>3
<1>6. CASE LateLoad(n)
  <2>1. c.page \in Pages /\ c.sync \in BOOLEAN /\ c.total \in 0 .. MaxPages
        BY <1>1 DEF HistCall
  <2>2. ASSUME Vanished(c), histCall' = [histCall EXCEPT ![n] = Load(c.total, c.sync, TRUE)],
               UNCHANGED <<address, fetching, astray>>
        PROVE  HistInv'
    <3>1. c.total \in Pages
          BY <2>1, <2>2, HistoryAssumption DEF Vanished, Pages
    <3>2. Load(c.total, c.sync, TRUE) \in HistCall /\ Load(c.total, c.sync, TRUE).old
          BY <2>1, <3>1, HistCallTypes
    <3> QED
        BY <1>3, <2>2, <3>2
  <2>3. ASSUME historyPage = "shown", Watched(n, c.page) PROVE HistInv'
        BY <1>1, <1>2, <2>1, <2>3, WatchedStep
  <2>4. ASSUME historyPage = "away", address' = c.page,
               histCall' = [histCall EXCEPT ![n] = NoHistCall],
               UNCHANGED <<fetching, astray>>
        PROVE  HistInv'
    <3>1. /\ histCall' \in [Loads -> HistCall] /\ histCall'[n].kind = "none"
          /\ \A k \in Loads \ {n} : histCall'[k] = histCall[k]
          BY <1>4, <2>4, CallBecomes
    <3>2. AwayInv' /\ result'.page = 0
          BY <1>2, <2>4, <3>1 DEF AwayInv
    <3>3. Following(histCall') = {}
          BY <1>2, <2>4, <3>2 DEF AwayInv, Following
    <3> QED
        BY <1>2, <2>1, <2>4, <3>1, <3>2, <3>3 DEF FollowingInv, AddressInv, Overtaken
  <2>5. ASSUME histCall' = [histCall EXCEPT ![n] = NoHistCall],
               UNCHANGED <<address, fetching, astray>>
        PROVE  HistInv'
        BY <1>3, <1>4, <2>5
  <2> QED
      BY <1>6, <2>2, <2>3, <2>4, <2>5 DEF LateLoad
<1> QED
    BY <1>5, <1>6

\* What the server does, and what breaks
LEMMA ServedStep ==
    ASSUME HistInv, NEW n \in Loads, ServeHistory(n) \/ HistoryFails(n)
    PROVE  HistInv'
<1> USE DEF HistInv, HistoryTypeOK
<1>1. PICK answer \in {"ok", "failed"}, total \in 0 .. MaxPages :
          histCall' = [histCall EXCEPT ![n].answer = answer, ![n].total = total]
  <2>1. CASE ServeHistory(n)
        BY <2>1 DEF ServeHistory
  <2>2. CASE HistoryFails(n)
    <3>1. histCall[n].total \in 0 .. MaxPages
          BY DEF HistCall
    <3>2. histCall' = [histCall EXCEPT ![n].answer = "failed", ![n].total = histCall[n].total]
          BY <2>2 DEF HistoryFails, HistCall
    <3> QED
        BY <3>1, <3>2
  <2> QED
      BY <2>1, <2>2
<1>2. histCall' \in [Loads -> HistCall]
  <2>1. histCall[n] \in HistCall
        OBVIOUS
  <2>2. [histCall[n] EXCEPT !.answer = answer, !.total = total] \in HistCall
        BY <2>1 DEF HistCall
  <2>3. histCall' = [histCall EXCEPT ![n] = [histCall[n] EXCEPT !.answer = answer, !.total = total]]
        BY <1>1, <2>1 DEF HistCall
  <2> QED
      BY <2>2, <2>3
<1>3. \A k \in Loads : /\ histCall'[k].kind = histCall[k].kind
                       /\ histCall'[k].page = histCall[k].page
                       /\ histCall'[k].sync = histCall[k].sync
                       /\ histCall'[k].old = histCall[k].old
      BY <1>1 DEF HistCall
<1>4. UNCHANGED <<address, result, historyPage, fetching, astray>>
      BY DEF ServeHistory, HistoryFails
<1>5. Following(histCall') = Following(histCall)
      BY <1>3 DEF Following
<1>6. FollowingInv' /\ AddressInv'
      BY <1>3, <1>4, <1>5, HistQuiet DEF Following
<1>7. AwayInv'
      BY <1>3, <1>4 DEF AwayInv
<1>8. totalPages' \in 0 .. MaxPages /\ clicks' \in Nat
      BY HistoryAssumption DEF ServeHistory, HistoryFails, Upset
<1> QED
    BY <1>2, <1>4, <1>6, <1>7, <1>8

LEMMA HistStep == HistInv /\ [HistoryNext]_histVars => HistInv'
<1> SUFFICES ASSUME HistInv, [HistoryNext]_histVars PROVE HistInv'
    OBVIOUS
<1> USE DEF HistInv, HistoryTypeOK
<1>1. CASE HistoryChanges
  <2>1. UNCHANGED <<address, result, historyPage, fetching, histCall, astray>>
        BY <1>1 DEF HistoryChanges
  <2>2. AwayInv' /\ FollowingInv' /\ AddressInv'
        BY <2>1 DEF AwayInv, FollowingInv, AddressInv, Overtaken, Following
  <2>3. totalPages' \in 0 .. MaxPages /\ clicks' \in Nat
        BY <1>1 DEF HistoryChanges, Upset
  <2> QED
      BY <2>1, <2>2, <2>3
<1>2. CASE HistoryLeave \/ \E n \in Loads : HistoryMount(n)
      BY <1>2, ComingAndGoing
<1>3. ASSUME NEW n \in Loads, NEW number \in Pages, Reload(n) \/ Turn(n, number) PROVE HistInv'
  <2>1. /\ FirstFree(n) /\ historyPage = "shown" /\ clicks' \in Nat
        /\ UNCHANGED <<address, result, historyPage, totalPages, astray>>
    <3>1. CASE Reload(n)
          BY <3>1 DEF Reload, Click, Upset
    <3>2. CASE Turn(n, number)
          BY <3>2 DEF Turn, Click, Upset
    <3> QED
        BY <1>3, <3>1, <3>2
  <2>2. ~WatcherLoad(histCall[n])
        BY <2>1, FirstFreeIsIdle DEF WatcherLoad
  <2>3. PICK m \in Pages : BeginHistoryLoad(n, m, TRUE)
        BY <1>3, CurrentType DEF Reload, Turn
  <2> QED
      BY <2>1, <2>2, <2>3, BeginStep
<1>4. ASSUME NEW n \in Loads, NEW number \in Pages, Back(n, number) PROVE HistInv'
  <2>1. /\ FirstFree(n) /\ Watched(n, number) /\ historyPage = "shown" /\ clicks' \in Nat
        /\ UNCHANGED <<result, historyPage, totalPages>>
        BY <1>4 DEF Back, Click, Upset
  <2>2. ~WatcherLoad(histCall[n])
        BY <2>1, FirstFreeIsIdle DEF WatcherLoad
  <2> QED
      BY <2>1, <2>2, WatchedStep
<1>5. ASSUME NEW n \in Loads, Cancel(n) PROVE HistInv'
  <2> DEFINE c == [NoHistCall EXCEPT !.kind = "remove"]
  <2>1. /\ histCall' = [histCall EXCEPT ![n] = c] /\ historyPage = "shown" /\ clicks' \in Nat
        /\ UNCHANGED <<address, result, historyPage, fetching, totalPages, astray>>
        BY <1>5 DEF Cancel, Click, Upset
  <2>2. c \in HistCall /\ ~WatcherLoad(c)
        BY HistCallTypes DEF WatcherLoad
  <2>3. ~WatcherLoad(histCall[n])
        BY <1>5, FirstFreeIsIdle DEF Cancel, WatcherLoad
  <2> HIDE DEF c
  <2>4. histCall' \in [Loads -> HistCall] /\ FollowingInv' /\ AddressInv'
        BY <2>1, <2>2, <2>3, QuietCall
  <2> QED
      BY <2>1, <2>4 DEF AwayInv
<1>6. ASSUME NEW n \in Loads, CancelAnswered(n) PROVE HistInv'
  <2>1. /\ histCall[n].kind = "remove" /\ ~histCall[n].old
        /\ UNCHANGED <<address, result, historyPage, totalPages, clicks, astray>>
        BY <1>6 DEF CancelAnswered
  <2>2. historyPage = "shown" /\ ~WatcherLoad(histCall[n])
        BY <2>1 DEF AwayInv, WatcherLoad
  <2>3. PICK number \in Pages : BeginHistoryLoad(n, number, TRUE)
    <3>1. Current \in Pages /\ (result.page > 1 => result.page - 1 \in Pages)
          BY CurrentType, HistoryAssumption DEF Pages
    <3> QED
        BY <1>6, <3>1 DEF CancelAnswered
  <2> QED
      BY <2>1, <2>2, <2>3, BeginStep
<1>7. ASSUME NEW n \in Loads, LoadArrives(n) PROVE HistInv'
      BY <1>7, ArriveStep
<1>8. ASSUME NEW n \in Loads, LateRemove(n) \/ LateLoad(n) PROVE HistInv'
      BY <1>8, LateStep
<1>9. ASSUME NEW n \in Loads, ServeHistory(n) \/ HistoryFails(n) PROVE HistInv'
      BY <1>9, ServedStep
<1>10. CASE UNCHANGED histVars
       BY <1>10 DEF histVars, AwayInv, FollowingInv, AddressInv, Overtaken, Following
<1>11. ASSUME NEW n \in Loads, Reload(n) PROVE HistInv'
  <2>1. 1 \in Pages
        BY HistoryAssumption DEF Pages
  <2> QED
      BY <1>3, <1>11, <2>1
<1> QED
    BY <1>1, <1>2, <1>3, <1>4, <1>5, <1>6, <1>7, <1>8, <1>9, <1>10, <1>11 DEF HistoryNext

(* The address of the list of notifications names the page shown, however  *)
(* pagers, back and forward, removals, loads and answers for a page that   *)
(* was left come in between, unless a load is on its way to its page or    *)
(* has lost it (load, watch; HistoryView.vue:11-16).                       *)
THEOREM AddressNamesPage == HistorySpec => []AddressShowsPage
<1>1. HistoryInit => HistInv
  <2> SUFFICES ASSUME HistoryInit PROVE HistInv
      OBVIOUS
  <2>1. address \in Pages /\ totalPages \in 0 .. MaxPages
        BY HistoryAssumption DEF HistoryInit, Pages
  <2>2. histCall \in [Loads -> HistCall] /\ \A n \in Loads : histCall[n].kind = "none"
        BY HistCallTypes DEF HistoryInit
  <2>3. result \in [page : 0 .. MaxPages, total : 0 .. MaxPages] /\ result.page = 0
        BY HistoryAssumption DEF HistoryInit, NoResult
  <2>4. /\ historyPage \in {"away", "shown"} /\ fetching \in BOOLEAN /\ astray \in BOOLEAN
        /\ clicks \in Nat
        BY DEF HistoryInit
  <2> QED
      BY <2>1, <2>2, <2>3, <2>4 DEF HistInv, HistoryTypeOK, AwayInv, FollowingInv, AddressInv,
                                    Overtaken, Following
<1>2. HistInv => AddressShowsPage
      BY DEF HistInv, AddressInv, AddressShowsPage
<1> QED
    BY <1>1, <1>2, HistStep, PTL DEF HistorySpec

-----------------------------------------------------------------------------
(* Sessions                                                                *)

\* The sessions there have been
Given == 1 .. created

Allowed(p) ==
    p.ready /\ p.route \notin Public =>
        /\ p.user # NoUser
        /\ p.forced => p.route = "password"
        /\ p.route = "admin" => p.user \in Admins

\* The token a tab sends along is of a session of the user it shows.
TabOK(p, own, given) ==
    /\ p \in Tab
    /\ p.csrf \in given \union {Nothing}
    /\ p.user # NoUser => p.csrf \in given /\ own[p.csrf] = p.user
    /\ Allowed(p)

\* So is the token of a request.  What is sent from a page that is not public has a
\* user, and what signs a tab in has a session.
CallOK(c, own, given) ==
    /\ c \in Call
    /\ c.cookie \in given \union {Nothing}
    /\ c.csrf # Nothing /\ c.by # NoUser /\ c.kind # "login" =>
           c.csrf \in given /\ own[c.csrf] = c.by
    /\ c.kind \in {"login", "password", "write"} => c.by # NoUser
    /\ c.status = "ok" /\ c.kind \in {"me", "login"} => c.token \in given
    /\ c.step = "checked" /\ c.kind = "password" => c.cookie \in given

\* A password of u from before a reset, unless the reset has missed it
Fresh(u, n, number, left) == n >= number[u] \/ u \in left

\* What a login or a change of the password has checked is fresh.
SeenOK(c, own, number, left) ==
    c.step = "checked" =>
        /\ c.kind = "login" => Fresh(c.by, c.seen, number, left)
        /\ c.kind = "password" => Fresh(own[c.cookie], c.seen, number, left)

AccountsInv ==
    /\ account \in [Users -> {"enabled", "disabled", "gone"}]
    /\ mustChange \in [Users -> BOOLEAN]
    /\ lineage \in [Users -> Nat]

TableInv ==
    /\ created \in 0 .. MaxSessions
    /\ sessions \subseteq Given
    /\ owner \in [Sessions -> Users \union {NoUser}]
    /\ \A s \in Given : owner[s] # NoUser
    /\ granted \in [Sessions -> Nat]

OrderInv ==
    /\ order \in [step : {"none", "reset", "disabled"}, user : Users \union {NoUser}]
    /\ order.step # "none" => order.user # NoUser

BrowserInv ==
    /\ cookie \in Given \union {Nothing}
    /\ tab \in [Tabs -> Tab] /\ \A t \in Tabs : TabOK(tab[t], owner, Given)
    /\ call \in [Tabs -> Call] /\ \A t \in Tabs : CallOK(call[t], owner, Given)

BoundsInv == requests \in Nat /\ events \in Nat

HistoryTypes == resets \in [Users -> Nat] /\ missed \subseteq Users

FreshInv ==
    /\ \A u \in Users : Fresh(u, lineage[u], resets, missed)
    /\ \A t \in Tabs : SeenOK(call[t], owner, resets, missed)

SessionInv ==
    /\ AccountsInv /\ TableInv /\ OrderInv /\ BrowserInv /\ BoundsInv /\ HistoryTypes
    /\ FreshInv /\ ResetEndsOldAccess

LEMMA GivenTypes ==
    TableInv => /\ Given \subseteq Sessions
                /\ \A s \in Given : owner[s] \in Users
                /\ Nothing \notin Given
                /\ Given \union {Nothing} \subseteq Tokens
<1> SUFFICES ASSUME TableInv
             PROVE  /\ Given \subseteq Sessions
                    /\ \A s \in Given : owner[s] \in Users
                    /\ Nothing \notin Given
                    /\ Given \union {Nothing} \subseteq Tokens
    OBVIOUS
<1>1. Given \subseteq Sessions /\ Nothing \notin Given
      BY WebSessionAssumption DEF TableInv, Given, Sessions, Nothing
<1> QED
    BY <1>1 DEF TableInv, Tokens

\* What router.beforeEach lets through
LEMMA RedirectAllows ==
    ASSUME NEW to \in Routes, NEW u \in Users \union {NoUser}, NEW forced \in BOOLEAN
    PROVE  /\ Redirect(to, u, forced) \in Routes
           /\ u # NoUser => Redirect(to, u, forced) \notin {"home", "login"}
           /\ u = NoUser => Redirect(to, u, forced) \in Public
           /\ u # NoUser /\ to \notin {"home", "login"} =>
                  \/ Redirect(to, u, forced) \in Public
                  \/ /\ forced => Redirect(to, u, forced) = "password"
                     /\ Redirect(to, u, forced) = "admin" => u \in Admins
<1>1. to \in {"home", "about", "login", "subscriptions", "password", "admin"}
      BY DEF Routes
<1>2. CASE to \in {"home", "login"}
      BY <1>2 DEF Redirect, Routes, Public
<1>3. CASE to = "about"
      BY <1>3 DEF Redirect, Routes, Public
<1>4. CASE to \in {"subscriptions", "password"}
      BY <1>4 DEF Redirect, Routes, Public
<1>5. CASE to = "admin"
  <2>1. CASE u = NoUser
        BY <1>5, <2>1, WebSessionAssumption DEF Redirect, Routes, Public
  <2>2. CASE u # NoUser /\ forced
        BY <1>5, <2>2 DEF Redirect, Routes, Public
  <2>3. CASE u # NoUser /\ ~forced /\ u \in Admins
    <3>1. Redirect(to, u, forced) = "admin"
          BY <1>5, <2>3 DEF Redirect, Public
    <3> QED
        BY <1>5, <2>3, <3>1 DEF Routes
  <2>4. CASE u # NoUser /\ ~forced /\ u \notin Admins
    <3>1. Redirect(to, u, forced) = "subscriptions"
          BY <1>5, <2>4 DEF Redirect, Public
    <3> QED
        BY <1>5, <2>4, <3>1 DEF Routes
  <2> QED
      BY <2>1, <2>2, <2>3, <2>4
<1> QED
    BY <1>1, <1>2, <1>3, <1>4, <1>5

LEMMA GuardAllows ==
    ASSUME NEW to \in Routes, NEW u \in Users \union {NoUser}, NEW forced \in BOOLEAN
    PROVE  LET r == Guarded(to, u, forced) IN
           /\ r \in Routes
           /\ r \notin Public => /\ u # NoUser
                                 /\ forced => r = "password"
                                 /\ r = "admin" => u \in Admins
<1> DEFINE r1 == Redirect(to, u, forced)
           r2 == Redirect(r1, u, forced)
           r3 == Redirect(r2, u, forced)
<1>1. Guarded(to, u, forced) = r3
      BY DEF Guarded
<1>2. r1 \in Routes
      BY RedirectAllows
<1> HIDE DEF r1
<1>3. r2 \in Routes /\ (u # NoUser => r2 \notin {"home", "login"})
      BY <1>2, RedirectAllows
<1> HIDE DEF r2
<1>4. /\ r3 \in Routes /\ (u = NoUser => r3 \in Public)
      /\ u # NoUser => \/ r3 \in Public
                       \/ (forced => r3 = "password") /\ (r3 = "admin" => u \in Admins)
      BY <1>3, RedirectAllows
<1> HIDE DEF r3
<1> QED
    BY <1>1, <1>4

\* A navigation of a tab
LEMMA AtOK ==
    ASSUME NEW p \in Tab, NEW to \in Routes, NEW own, NEW given,
           p.csrf \in given \union {Nothing},
           p.user # NoUser => p.csrf \in given /\ own[p.csrf] = p.user
    PROVE  TabOK(At(p, to), own, given)
<1> DEFINE r == Guarded(to, p.user, p.forced)
<1>1. p.user \in Users \union {NoUser} /\ p.forced \in BOOLEAN
      BY DEF Tab
<1>2. /\ r \in Routes
      /\ r \notin Public => /\ p.user # NoUser
                            /\ p.forced => r = "password"
                            /\ r = "admin" => p.user \in Admins
      BY <1>1, GuardAllows
<1> HIDE DEF r
<1>3. At(p, to) = [p EXCEPT !.route = r]
      BY DEF At, r
<1>4. At(p, to) \in Tab
      BY <1>2, <1>3 DEF Tab
<1>5. /\ At(p, to).user = p.user /\ At(p, to).csrf = p.csrf /\ At(p, to).forced = p.forced
      /\ At(p, to).route = r
      BY <1>3 DEF Tab
<1>6. Allowed(At(p, to))
      BY <1>2, <1>5 DEF Allowed
<1> QED
    BY <1>4, <1>5, <1>6 DEF TabOK

LEMMA LoadingOK ==
    ASSUME NEW to \in Routes, NEW own, NEW given
    PROVE  TabOK(Loading(to), own, given)
<1>1. Loading(to) \in Tab
      BY DEF Loading, Tab, Tokens
<1> QED
    BY <1>1 DEF Loading, TabOK, Allowed

LEMMA NoCallType == NoCall \in Call
    BY DEF NoCall, Call, Kinds, Steps, Statuses, Tokens

LEMMA AskingOK ==
    ASSUME NEW given, given \union {Nothing} \subseteq Tokens, NEW c \in given \union {Nothing},
           NEW own, NEW number, NEW left
    PROVE  /\ CallOK(Asking(c), own, given) /\ SeenOK(Asking(c), own, number, left)
           /\ CallOK(NoCall, own, given) /\ SeenOK(NoCall, own, number, left)
<1>1. NoCall \in Call
      BY NoCallType
<1>2. Asking(c) \in Call
      BY <1>1 DEF Asking, NoCall, Call, Kinds, Steps, Statuses
<1> QED
    BY <1>1, <1>2 DEF Asking, NoCall, CallOK, SeenOK

\* A refusal, an answer that brings no session, or none
LEMMA AnswerOK ==
    ASSUME NEW own, NEW given, NEW c, CallOK(c, own, given), NEW status \in Statuses,
           status = "ok" => c.kind \notin {"me", "login"}, NEW number, NEW left
    PROVE  LET d == [c EXCEPT !.step = "answered", !.status = status] IN
           CallOK(d, own, given) /\ SeenOK(d, own, number, left)
<1>1. c \in Call
      BY DEF CallOK
<1> DEFINE d == [c EXCEPT !.step = "answered", !.status = status]
<1>2. /\ d \in Call
      /\ d.kind = c.kind /\ d.by = c.by /\ d.cookie = c.cookie /\ d.csrf = c.csrf
      /\ d.step = "answered" /\ d.status = status
      BY <1>1 DEF Call, Steps
<1> HIDE DEF d
<1>3. CallOK(d, own, given)
      BY <1>2 DEF CallOK
<1>4. SeenOK(d, own, number, left)
      BY <1>2 DEF SeenOK
<1> QED
    BY <1>3, <1>4 DEF d

\* Sessions are added, and those there have been keep their users.
LEMMA TabGrows ==
    ASSUME NEW own, NEW given, NEW p, TabOK(p, own, given),
           NEW own2, NEW given2, given \subseteq given2, \A s \in given : own2[s] = own[s]
    PROVE  TabOK(p, own2, given2)
    BY DEF TabOK

LEMMA CallGrows ==
    ASSUME NEW own, NEW given, NEW c, CallOK(c, own, given),
           NEW own2, NEW given2, given \subseteq given2, \A s \in given : own2[s] = own[s]
    PROVE  /\ CallOK(c, own2, given2)
           /\ \A number, left : SeenOK(c, own, number, left) => SeenOK(c, own2, number, left)
<1>1. CallOK(c, own2, given2)
      BY DEF CallOK
<1>2. c.step = "checked" /\ c.kind = "password" => own2[c.cookie] = own[c.cookie]
      BY DEF CallOK
<1> QED
    BY <1>1, <1>2 DEF SeenOK

\* A step of a tab and of its request that leaves the server as it is
LEMMA BrowserStep ==
    ASSUME SessionInv, UNCHANGED <<accounts, table, order, history>>, BoundsInv',
           cookie' \in Given \union {Nothing}, NEW t \in Tabs,
           NEW p, TabOK(p, owner, Given), tab' = [tab EXCEPT ![t] = p],
           NEW d, CallOK(d, owner, Given), SeenOK(d, owner, resets, missed),
           call' = [call EXCEPT ![t] = d]
    PROVE  SessionInv'
<1>1. AccountsInv' /\ OrderInv' /\ HistoryTypes'
      BY DEF SessionInv, AccountsInv, OrderInv, HistoryTypes, accounts, history
<1>2. UNCHANGED <<created, sessions, owner, granted, resets, missed, lineage, order>>
      BY DEF accounts, table, history
<1>3. Given' = Given /\ TableInv'
      BY <1>2 DEF SessionInv, TableInv, Given
<1>4. p \in Tab /\ d \in Call
      BY DEF TabOK, CallOK
<1>5. /\ tab' \in [Tabs -> Tab] /\ call' \in [Tabs -> Call]
      /\ \A k \in Tabs : tab'[k] = tab[k] \/ tab'[k] = p
      /\ \A k \in Tabs : call'[k] = call[k] \/ call'[k] = d
      BY <1>4 DEF SessionInv, BrowserInv
<1>6. BrowserInv'
      BY <1>2, <1>3, <1>5 DEF SessionInv, BrowserInv
<1>7. FreshInv'
      BY <1>2, <1>5 DEF SessionInv, FreshInv
<1>8. ResetEndsOldAccess'
      BY <1>2 DEF SessionInv, ResetEndsOldAccess
<1> QED
    BY <1>1, <1>3, <1>6, <1>7, <1>8 DEF SessionInv

LEMMA SessionFacts ==
    ASSUME SessionInv, NEW t \in Tabs
    PROVE  /\ TabOK(tab[t], owner, Given) /\ tab[t] \in Tab
           /\ CallOK(call[t], owner, Given) /\ call[t] \in Call
           /\ SeenOK(call[t], owner, resets, missed)
           /\ tab = [tab EXCEPT ![t] = tab[t]] /\ call = [call EXCEPT ![t] = call[t]]
           /\ cookie \in Given \union {Nothing}
           /\ Given \union {Nothing} \subseteq Tokens
           /\ Given \subseteq Sessions /\ \A s \in Given : owner[s] \in Users
    BY GivenTypes DEF SessionInv, BrowserInv, FreshInv

\* What a refusal, or the answer to a request that signs nobody in, does
LEMMA AnswerStep ==
    ASSUME SessionInv, UNCHANGED <<accounts, table, order, cookie, tab, history>>, BoundsInv',
           NEW t \in Tabs, NEW status \in Statuses, Answer(t, status),
           status = "ok" => call[t].kind \notin {"me", "login"}
    PROVE  SessionInv'
<1> DEFINE d == [call[t] EXCEPT !.step = "answered", !.status = status]
<1>1. call' = [call EXCEPT ![t] = d]
      BY DEF Answer
<1>2. CallOK(d, owner, Given) /\ SeenOK(d, owner, resets, missed)
      BY SessionFacts, AnswerOK
<1> HIDE DEF d
<1>3. tab' = [tab EXCEPT ![t] = tab[t]] /\ TabOK(tab[t], owner, Given)
      BY SessionFacts
<1>4. cookie' \in Given \union {Nothing}
      BY SessionFacts
<1> QED
    BY <1>1, <1>2, <1>3, <1>4, BrowserStep

LEMMA OpenStep ==
    ASSUME SessionInv, NEW t \in Tabs, NEW to \in Addresses, Open(t, to) PROVE SessionInv'
<1>1. TabOK(Loading(to), owner, Given)
      BY LoadingOK, AddressesAssumption
<1>2. CallOK(Asking(cookie), owner, Given) /\ SeenOK(Asking(cookie), owner, resets, missed)
      BY SessionFacts, AskingOK
<1>3. BoundsInv'
      BY DEF Open, SessionInv, BoundsInv
<1>4. cookie' \in Given \union {Nothing}
      BY SessionFacts DEF Open
<1> QED
    BY <1>1, <1>2, <1>3, <1>4, BrowserStep DEF Open

LEMMA NavigateStep ==
    ASSUME SessionInv, NEW t \in Tabs, NEW to \in Addresses, Navigate(t, to) PROVE SessionInv'
<1>1. TabOK(At(tab[t], to), owner, Given)
  <2>1. /\ tab[t].csrf \in Given \union {Nothing}
        /\ tab[t].user # NoUser => tab[t].csrf \in Given /\ owner[tab[t].csrf] = tab[t].user
        BY SessionFacts DEF TabOK
  <2> QED
      BY <2>1, SessionFacts, AtOK, AddressesAssumption
<1>2. BoundsInv'
      BY DEF Navigate, bounds, SessionInv, BoundsInv
<1>3. cookie' \in Given \union {Nothing} /\ call' = [call EXCEPT ![t] = call[t]]
      BY SessionFacts DEF Navigate
<1> QED
    BY <1>1, <1>2, <1>3, SessionFacts, BrowserStep DEF Navigate

LEMMA LeaveStep ==
    ASSUME SessionInv, NEW t \in Tabs, Leave(t) PROVE SessionInv'
<1> DEFINE p == [tab[t] EXCEPT !.leaving = FALSE]
<1>1. p \in Tab /\ p.csrf = tab[t].csrf /\ p.user = tab[t].user
      BY SessionFacts DEF Tab
<1>2. tab' = [tab EXCEPT ![t] = At(p, "subscriptions")]
      BY DEF Leave
<1> HIDE DEF p
<1>3. TabOK(At(p, "subscriptions"), owner, Given)
  <2>1. /\ p.csrf \in Given \union {Nothing}
        /\ p.user # NoUser => p.csrf \in Given /\ owner[p.csrf] = p.user
        BY <1>1, SessionFacts DEF TabOK
  <2>2. "subscriptions" \in Routes
        BY DEF Routes
  <2> QED
      BY <1>1, <2>1, <2>2, AtOK
<1>4. BoundsInv'
      BY DEF Leave, bounds, SessionInv, BoundsInv
<1>5. cookie' \in Given \union {Nothing} /\ call' = [call EXCEPT ![t] = call[t]]
      BY SessionFacts DEF Leave
<1> QED
    BY <1>2, <1>3, <1>4, <1>5, SessionFacts, BrowserStep DEF Leave

LEMMA SendStep ==
    ASSUME SessionInv, NEW t \in Tabs, NEW kind \in Kinds, NEW by \in Users \union {NoUser},
           Send(t, kind, by)
    PROVE  SessionInv'
<1> DEFINE d == [NoCall EXCEPT !.kind = kind, !.by = by, !.step = "sent", !.cookie = cookie,
                               !.csrf = IF kind = "read" THEN Nothing ELSE tab[t].csrf]
<1>1. call' = [call EXCEPT ![t] = d]
      BY DEF Send
<1>2. /\ tab[t].csrf \in Given \union {Nothing}
      /\ tab[t].user # NoUser => tab[t].csrf \in Given /\ owner[tab[t].csrf] = tab[t].user
      /\ Allowed(tab[t])
      BY SessionFacts DEF TabOK
<1>3. kind \in {"login", "password", "write"} => by # NoUser
      BY <1>2 DEF Send, Offers, Public, Allowed
<1>4. d \in Call
  <2>1. NoCall \in Call
        BY NoCallType
  <2>2. cookie \in Tokens /\ tab[t].csrf \in Tokens /\ Nothing \in Tokens
        BY <1>2, SessionFacts
  <2> QED
      BY <2>1, <2>2 DEF Call, Steps
<1>5. /\ d.kind = kind /\ d.by = by /\ d.cookie = cookie /\ d.step = "sent" /\ d.status = "none"
      /\ d.csrf = IF kind = "read" THEN Nothing ELSE tab[t].csrf
      BY DEF NoCall
<1> HIDE DEF d
<1>6. CallOK(d, owner, Given)
  <2>1. d.csrf # Nothing /\ d.by # NoUser /\ d.kind # "login" =>
            d.csrf \in Given /\ owner[d.csrf] = d.by
        BY <1>2, <1>5 DEF Send
  <2> QED
      BY <1>3, <1>4, <1>5, <2>1, SessionFacts DEF CallOK
<1>7. SeenOK(d, owner, resets, missed)
      BY <1>5 DEF SeenOK
<1>8. BoundsInv'
      BY DEF Send, SessionInv, BoundsInv
<1>9. /\ cookie' \in Given \union {Nothing} /\ tab' = [tab EXCEPT ![t] = tab[t]]
      /\ UNCHANGED <<accounts, table, order, history>>
      BY SessionFacts DEF Send
<1> QED
    BY <1>1, <1>6, <1>7, <1>8, <1>9, SessionFacts, BrowserStep


\* The answer to "who is signed in", and what is refused
LEMMA ServeOtherStep ==
    ASSUME SessionInv, NEW t \in Tabs, ServeOther(t) PROVE SessionInv'
<1> DEFINE c == call[t]
<1>0. /\ c \in Call /\ CallOK(c, owner, Given) /\ TabOK(tab[t], owner, Given)
      /\ tab = [tab EXCEPT ![t] = tab[t]] /\ cookie \in Given \union {Nothing}
      /\ Given \subseteq Tokens /\ \A s \in Given : owner[s] \in Users
      BY SessionFacts
<1>1. UNCHANGED <<accounts, table, order, cookie, tab, bounds, history>>
      BY DEF ServeOther
<1>2. BoundsInv'
      BY <1>1 DEF bounds, SessionInv, BoundsInv
<1>3. CASE Answer(t, "unauthorized") \/ Answer(t, "refused")
      BY <1>1, <1>2, <1>3, AnswerStep DEF Statuses
<1>4. CASE c.kind \in {"read", "write"} /\ Answer(t, "ok")
      BY <1>1, <1>2, <1>4, AnswerStep DEF Statuses
<1>5. CASE /\ Accepted(c) /\ c.kind = "me"
           /\ call' = [call EXCEPT ![t].step = "answered", ![t].status = "ok",
                                   ![t].token = c.cookie,
                                   ![t].forced = mustChange[owner[c.cookie]]]
  <2> DEFINE d == [c EXCEPT !.step = "answered", !.status = "ok", !.token = c.cookie,
                            !.forced = mustChange[owner[c.cookie]]]
  <2>1. call' = [call EXCEPT ![t] = d]
        BY <1>5
  <2>2. c.cookie \in Given /\ mustChange[owner[c.cookie]] \in BOOLEAN
    <3>1. c.cookie \in Given
          BY <1>5 DEF Accepted, Valid, SessionInv, TableInv
    <3>2. owner[c.cookie] \in Users
          BY <3>1, <1>0
    <3> QED
        BY <3>1, <3>2 DEF SessionInv, AccountsInv
  <2>3. c.cookie \in Tokens
        BY <2>2, <1>0
  <2>4. d \in Call
        BY <1>0, <2>2, <2>3 DEF Call, Steps, Statuses
  <2>5. /\ d.kind = c.kind /\ d.by = c.by /\ d.cookie = c.cookie /\ d.csrf = c.csrf
        /\ d.step = "answered" /\ d.token = c.cookie
        BY <1>0 DEF Call
  <2> HIDE DEF d
  <2>6. CallOK(d, owner, Given)
        BY <1>0, <2>2, <2>4, <2>5 DEF CallOK
  <2>7. SeenOK(d, owner, resets, missed)
        BY <2>5 DEF SeenOK
  <2>8. cookie' \in Given \union {Nothing} /\ tab' = [tab EXCEPT ![t] = tab[t]]
        BY <1>0, <1>1
  <2> QED
      BY <1>0, <1>1, <1>2, <2>1, <2>6, <2>7, <2>8, BrowserStep
<1> QED
    BY <1>3, <1>4, <1>5 DEF ServeOther

LEMMA LoginCheckStep ==
    ASSUME SessionInv, NEW t \in Tabs, LoginCheck(t) PROVE SessionInv'
<1> DEFINE c == call[t]
<1>1. UNCHANGED <<accounts, table, order, cookie, tab, bounds, history>> /\ c.kind = "login"
      BY DEF LoginCheck
<1>2. BoundsInv'
      BY <1>1 DEF bounds, SessionInv, BoundsInv
<1>3. CASE Answer(t, "unauthorized")
      BY <1>1, <1>2, <1>3, AnswerStep DEF Statuses
<1>4. CASE call' = [call EXCEPT ![t].step = "checked", ![t].seen = lineage[c.by],
                                ![t].forced = mustChange[c.by]]
  <2> DEFINE d == [c EXCEPT !.step = "checked", !.seen = lineage[c.by],
                            !.forced = mustChange[c.by]]
  <2>1. call' = [call EXCEPT ![t] = d]
        BY <1>4, SessionFacts DEF Call
  <2>2. c.by \in Users
        BY <1>1, SessionFacts DEF CallOK, Call
  <2>3. lineage[c.by] \in Nat /\ mustChange[c.by] \in BOOLEAN
        BY <2>2 DEF SessionInv, AccountsInv
  <2>4. d \in Call
        BY <2>3, SessionFacts DEF Call, Steps
  <2>5. /\ d.kind = "login" /\ d.by = c.by /\ d.cookie = c.cookie /\ d.csrf = c.csrf
        /\ d.step = "checked" /\ d.seen = lineage[c.by] /\ d.status = c.status
        /\ d.token = c.token
        BY <1>1, SessionFacts DEF Call
  <2> HIDE DEF d
  <2>6. CallOK(d, owner, Given)
        BY <1>1, <2>4, <2>5, SessionFacts DEF CallOK
  <2>7. SeenOK(d, owner, resets, missed)
        BY <2>2, <2>5 DEF SeenOK, SessionInv, FreshInv
  <2>8. cookie' \in Given \union {Nothing} /\ tab' = [tab EXCEPT ![t] = tab[t]]
        BY <1>1, SessionFacts
  <2> QED
      BY <1>1, <1>2, <2>1, <2>6, <2>7, <2>8, SessionFacts, BrowserStep
<1> QED
    BY <1>3, <1>4 DEF LoginCheck

LEMMA PasswordCheckStep ==
    ASSUME SessionInv, NEW t \in Tabs, PasswordCheck(t) PROVE SessionInv'
<1> DEFINE c == call[t]
           u == owner[c.cookie]
<1>1. /\ UNCHANGED <<accounts, table, order, cookie, tab, bounds, history>>
      /\ c.kind = "password" /\ c.cookie \in Given
      BY DEF PasswordCheck, Accepted, Valid, SessionInv, TableInv
<1>2. BoundsInv'
      BY <1>1 DEF bounds, SessionInv, BoundsInv
<1>3. CASE Answer(t, "refused")
      BY <1>1, <1>2, <1>3, AnswerStep DEF Statuses
<1>4. CASE call' = [call EXCEPT ![t].step = "checked", ![t].seen = lineage[u]]
  <2> DEFINE d == [c EXCEPT !.step = "checked", !.seen = lineage[u]]
  <2>1. call' = [call EXCEPT ![t] = d]
        BY <1>4, SessionFacts DEF Call
  <2>2. u \in Users
        BY <1>1, SessionFacts
  <2> HIDE DEF u
  <2>3. lineage[u] \in Nat
        BY <2>2 DEF SessionInv, AccountsInv
  <2>4. d \in Call
        BY <2>3, SessionFacts DEF Call, Steps
  <2>5. /\ d.kind = "password" /\ d.by = c.by /\ d.cookie = c.cookie /\ d.csrf = c.csrf
        /\ d.step = "checked" /\ d.seen = lineage[u]
        BY <1>1, SessionFacts DEF Call
  <2> HIDE DEF d
  <2>6. CallOK(d, owner, Given)
        BY <1>1, <2>4, <2>5, SessionFacts DEF CallOK
  <2>7. SeenOK(d, owner, resets, missed)
        BY <2>2, <2>5 DEF u, SeenOK, SessionInv, FreshInv
  <2>8. cookie' \in Given \union {Nothing} /\ tab' = [tab EXCEPT ![t] = tab[t]]
        BY <1>1, SessionFacts
  <2> QED
      BY <1>1, <1>2, <2>1, <2>6, <2>7, <2>8, SessionFacts, BrowserStep
<1> QED
    BY <1>3, <1>4 DEF PasswordCheck

LEMMA LoseStep ==
    ASSUME SessionInv, NEW t \in Tabs, Lose(t) PROVE SessionInv'
<1>1. /\ UNCHANGED <<accounts, table, order, cookie, tab, history>> /\ Answer(t, "lost")
      BY DEF Lose
<1>2. BoundsInv'
      BY DEF Lose, SessionInv, BoundsInv
<1> QED
    BY <1>1, <1>2, AnswerStep DEF Statuses


\* The answer arrives: what it does to the cookie, to the page and to the request
LEMMA ArriveCookie ==
    ASSUME SessionInv, NEW t \in Tabs, Arrive(t) PROVE cookie' \in Given \union {Nothing}
<1> DEFINE c == call[t]
<1>1. cookie' = CookieAfter(c)
      BY DEF Arrive
<1>2. CookieAfter(c) \in {c.token, Nothing, cookie}
      /\ (CookieAfter(c) = c.token => \/ c.token \in {Nothing, cookie}
                                      \/ c.status = "ok" /\ c.kind = "login")
      BY DEF CookieAfter
<1> QED
    BY <1>1, <1>2, SessionFacts DEF CallOK

LEMMA PageOK ==
    ASSUME SessionInv, NEW t \in Tabs PROVE TabOK(Page(tab[t], call[t]), owner, Given)
<1> DEFINE p == tab[t]
           c == call[t]
<1>1. /\ p \in Tab /\ p.csrf \in Given \union {Nothing} /\ TabOK(p, owner, Given)
      /\ p.user # NoUser => p.csrf \in Given /\ owner[p.csrf] = p.user
      BY SessionFacts DEF TabOK
<1>2. /\ c \in Call /\ (c.status = "ok" /\ c.kind \in {"me", "login"} => c.token \in Given)
      BY SessionFacts DEF CallOK
<1>3. {"home", "login", "password", "subscriptions"} \subseteq Routes /\ p.route \in Routes
      BY <1>1 DEF Routes, Tab
<1> HIDE DEF p, c
<1> DEFINE q == SignedIn(p, c)
           r == [q EXCEPT !.ready = TRUE]
           x == [p EXCEPT !.ready = TRUE]
           y == [p EXCEPT !.user = NoUser]
           z == [p EXCEPT !.forced = FALSE, !.leaving = TRUE]
<1>4. ASSUME c.status = "ok", c.kind \in {"me", "login"}
      PROVE  /\ q \in Tab /\ q.csrf \in Given /\ owner[q.csrf] = q.user
             /\ r \in Tab /\ r.csrf \in Given /\ owner[r.csrf] = r.user
  <2>1. c.token \in Given /\ c.token \in Tokens /\ owner[c.token] \in Users /\ c.forced \in BOOLEAN
        BY <1>2, <1>4, SessionFacts DEF Call
  <2>2. q \in Tab /\ q.csrf = c.token /\ q.user = owner[c.token]
        BY <1>1, <2>1 DEF SignedIn, Tab
  <2> HIDE DEF q
  <2>3. r \in Tab /\ r.csrf = q.csrf /\ r.user = q.user
        BY <2>2 DEF Tab
  <2> QED
      BY <2>1, <2>2, <2>3
<1>5. x \in Tab /\ x.csrf = p.csrf /\ x.user = p.user
      BY <1>1 DEF Tab
<1>6. y \in Tab /\ y.csrf = p.csrf /\ y.user = NoUser
      BY <1>1 DEF Tab
<1>7. /\ z \in Tab /\ z.csrf = p.csrf /\ z.user = p.user /\ z.ready = p.ready /\ z.route = p.route
      /\ z.forced = FALSE
      BY <1>1 DEF Tab
<1>8. CASE c.kind = "me"
  <2>1. CASE c.status = "ok"
    <3>1. Page(p, c) = At(r, p.route)
          BY <1>8, <2>1 DEF Page, Restored
    <3> HIDE DEF r
    <3> QED
        BY <1>3, <1>4, <1>8, <2>1, <3>1, AtOK DEF p, c
  <2>2. CASE c.status # "ok"
    <3>1. Page(p, c) = At(x, p.route)
          BY <1>8, <2>2 DEF Page, Restored
    <3> HIDE DEF x
    <3> QED
        BY <1>1, <1>3, <1>5, <3>1, AtOK DEF p, c
  <2> QED
      BY <2>1, <2>2
<1>9. CASE c.kind = "login"
  <2>1. CASE c.status = "ok"
    <3>1. Page(p, c) = At(q, IF c.forced THEN "password" ELSE "subscriptions")
          BY <1>9, <2>1 DEF Page, LoggedIn
    <3> HIDE DEF q
    <3> QED
        BY <1>3, <1>4, <1>9, <2>1, <3>1, AtOK DEF p, c
  <2>2. CASE c.status # "ok"
    <3>1. Page(p, c) = p
          BY <1>9, <2>2 DEF Page, LoggedIn
    <3> QED
        BY <1>1, <3>1 DEF p, c
  <2> QED
      BY <2>1, <2>2
<1>10. CASE c.kind = "logout"
  <2>1. Page(p, c) = At(y, "login")
        BY <1>10 DEF Page, LoggedOut
  <2> HIDE DEF y
  <2> QED
      BY <1>1, <1>3, <1>6, <2>1, AtOK DEF p, c
<1>11. CASE c.kind = "password"
  <2>1. Page(p, c) \in {p, z}
        BY <1>11 DEF Page, PasswordSaved
  <2> HIDE DEF z
  <2>2. TabOK(z, owner, Given)
        BY <1>1, <1>7 DEF TabOK, Allowed
  <2> QED
      BY <1>1, <2>1, <2>2 DEF p, c
<1>12. CASE c.kind \in {"read", "write"}
  <2>1. Page(p, c) = p
        BY <1>12 DEF Page
  <2> QED
      BY <1>1, <2>1 DEF p, c
<1> QED
    BY <1>2, <1>8, <1>9, <1>10, <1>11, <1>12 DEF Call, Kinds

LEMMA ArriveStepOfSession ==
    ASSUME SessionInv, NEW t \in Tabs, Arrive(t) PROVE SessionInv'
<1>1. UNCHANGED <<accounts, table, order, bounds, history>>
      BY DEF Arrive
<1>2. BoundsInv'
      BY <1>1 DEF bounds, SessionInv, BoundsInv
<1>3. cookie' \in Given \union {Nothing}
      BY ArriveCookie
<1>4. CASE SentAway(t)
  <2>1. tab' = [tab EXCEPT ![t] = Loading("login")] /\ call' = [call EXCEPT ![t] = Asking(cookie')]
        BY <1>4 DEF Arrive
  <2>2. TabOK(Loading("login"), owner, Given)
        BY LoadingOK DEF Routes
  <2>3. PICK c : c = cookie'
        OBVIOUS
  <2>4. CallOK(Asking(c), owner, Given) /\ SeenOK(Asking(c), owner, resets, missed)
        BY <1>3, <2>3, SessionFacts, AskingOK
  <2>5. call' = [call EXCEPT ![t] = Asking(c)]
        BY <2>1, <2>3
  <2> QED
      BY <1>1, <1>2, <1>3, <2>1, <2>2, <2>4, <2>5, BrowserStep
<1>5. CASE ~SentAway(t)
  <2>1. tab' = [tab EXCEPT ![t] = Page(tab[t], call[t])] /\ call' = [call EXCEPT ![t] = NoCall]
        BY <1>5, SessionFacts DEF Arrive
  <2>2. CallOK(NoCall, owner, Given) /\ SeenOK(NoCall, owner, resets, missed)
        BY SessionFacts, AskingOK
  <2> QED
      BY <1>1, <1>2, <1>3, <2>1, <2>2, PageOK, BrowserStep
<1> QED
    BY <1>4, <1>5

\* The server and the tabs stay as they are, but for sessions that end.
LEMMA SessionsEnd ==
    ASSUME SessionInv, sessions' \subseteq sessions,
           UNCHANGED <<created, owner, granted, lineage, resets, missed, order, cookie, tab, call>>,
           AccountsInv', BoundsInv'
    PROVE  SessionInv'
<1>1. Given' = Given /\ TableInv'
      BY DEF SessionInv, TableInv, Given
<1>2. OrderInv' /\ HistoryTypes'
      BY DEF SessionInv, OrderInv, HistoryTypes
<1>3. BrowserInv'
      BY <1>1 DEF SessionInv, BrowserInv
<1>4. FreshInv'
      BY DEF SessionInv, FreshInv
<1>5. ResetEndsOldAccess'
      BY DEF SessionInv, ResetEndsOldAccess
<1> QED
    BY <1>1, <1>2, <1>3, <1>4, <1>5 DEF SessionInv

LEMMA ServeLogoutStep ==
    ASSUME SessionInv, NEW t \in Tabs, ServeLogout(t) PROVE SessionInv'
<1> DEFINE d == [call[t] EXCEPT !.step = "answered", !.status = "ok"]
<1>1. /\ call' = [call EXCEPT ![t] = d]
      /\ UNCHANGED <<accounts, created, owner, granted, order, cookie, tab, bounds, history>>
      /\ sessions' \subseteq sessions /\ call[t].kind = "logout"
      BY DEF ServeLogout, Answer
<1>2. CallOK(d, owner, Given) /\ SeenOK(d, owner, resets, missed)
      BY <1>1, SessionFacts, AnswerOK DEF Statuses
<1> HIDE DEF d
<1>3. UNCHANGED <<account, mustChange, lineage, resets, missed, requests, events>>
      BY <1>1 DEF accounts, bounds, history
<1>4. Given' = Given /\ TableInv'
      BY <1>1 DEF SessionInv, TableInv, Given
<1>5. AccountsInv' /\ OrderInv' /\ HistoryTypes' /\ BoundsInv'
      BY <1>1, <1>3 DEF SessionInv, AccountsInv, OrderInv, HistoryTypes, BoundsInv
<1>6. d \in Call /\ call' \in [Tabs -> Call] /\ \A k \in Tabs : call'[k] = call[k] \/ call'[k] = d
      BY <1>1, <1>2 DEF SessionInv, BrowserInv, CallOK
<1>7. BrowserInv'
      BY <1>1, <1>2, <1>4, <1>6 DEF SessionInv, BrowserInv
<1>8. FreshInv'
      BY <1>1, <1>2, <1>3, <1>6 DEF SessionInv, FreshInv
<1>9. ResetEndsOldAccess'
      BY <1>1, <1>3 DEF SessionInv, ResetEndsOldAccess
<1> QED
    BY <1>4, <1>5, <1>7, <1>8, <1>9 DEF SessionInv

LEMMA LoginInsertStep ==
    ASSUME SessionInv, NEW t \in Tabs, LoginInsert(t) PROVE SessionInv'
<1> DEFINE c == call[t]
           s == created + 1
<1>1. /\ UNCHANGED <<accounts, order, cookie, tab, bounds, history>>
      /\ c.step = "checked" /\ c.kind = "login" /\ created < MaxSessions
      BY DEF LoginInsert
<1>2. UNCHANGED <<account, mustChange, lineage, resets, missed, requests, events>>
      BY <1>1 DEF accounts, bounds, history
<1>3. AccountsInv' /\ OrderInv' /\ HistoryTypes' /\ BoundsInv'
      BY <1>1, <1>2 DEF SessionInv, AccountsInv, OrderInv, HistoryTypes, BoundsInv
<1>4. CASE account[c.by] = "gone"
  <2>1. Answer(t, "refused") /\ UNCHANGED table
        BY <1>4 DEF LoginInsert
  <2> QED
      BY <1>1, <1>3, <2>1, AnswerStep DEF Statuses
<1>5. CASE account[c.by] # "gone"
  <2> DEFINE d == [c EXCEPT !.step = "answered", !.status = "ok", !.token = s]
  <2>1. /\ created' = s /\ sessions' = sessions \union {s}
        /\ owner' = [owner EXCEPT ![s] = c.by] /\ granted' = [granted EXCEPT ![s] = c.seen]
        /\ call' = [call EXCEPT ![t] = d]
        BY <1>5, SessionFacts DEF LoginInsert, Call
  <2>2. /\ s \in Sessions /\ s \notin Given /\ s \in 0 .. MaxSessions /\ s \in Tokens
        /\ 1 .. s = Given \union {s}
        BY <1>1, WebSessionAssumption DEF SessionInv, TableInv, Given, Sessions, Tokens
  <2> HIDE DEF s
  <2>3. Given' = Given \union {s}
        BY <2>1, <2>2 DEF Given
  <2>4. c.by \in Users /\ c.seen \in Nat /\ Fresh(c.by, c.seen, resets, missed)
        BY <1>1, SessionFacts DEF CallOK, Call, SeenOK
  <2>5. /\ owner' \in [Sessions -> Users \union {NoUser}] /\ granted' \in [Sessions -> Nat]
        /\ owner'[s] = c.by /\ granted'[s] = c.seen
        /\ \A k \in Given : owner'[k] = owner[k] /\ granted'[k] = granted[k]
        BY <2>1, <2>2, <2>4, SessionFacts DEF SessionInv, TableInv
  <2>6. TableInv'
    <3>1. owner'[s] # NoUser
          BY <2>4, <2>5, WebSessionAssumption
    <3>2. \A k \in Given' : owner'[k] # NoUser
          BY <2>3, <2>5, <3>1 DEF SessionInv, TableInv
    <3>3. sessions' \subseteq Given' /\ created' \in 0 .. MaxSessions
          BY <2>1, <2>2, <2>3 DEF SessionInv, TableInv
    <3> QED
        BY <2>5, <3>2, <3>3 DEF TableInv
  <2>7. /\ d \in Call
        /\ d.kind = "login" /\ d.by = c.by /\ d.cookie = c.cookie /\ d.csrf = c.csrf
        /\ d.step = "answered" /\ d.token = s
        BY <1>1, <2>2, SessionFacts DEF Call, Steps, Statuses
  <2> HIDE DEF d
  <2>8. CallOK(d, owner', Given')
    <3>1. CallOK(c, owner, Given)
          BY SessionFacts
    <3>2. CallOK(c, owner', Given')
          BY <2>3, <2>5, <3>1, CallGrows
    <3>3. d.token \in Given'
          BY <2>3, <2>7
    <3> HIDE DEF c
    <3> QED
        BY <1>1, <2>7, <3>2, <3>3 DEF CallOK, c
  <2>9. SeenOK(d, owner', resets', missed')
        BY <2>7 DEF SeenOK
  <2>10. call' \in [Tabs -> Call] /\ \A k \in Tabs : call'[k] = call[k] \/ call'[k] = d
         BY <2>1, <2>7 DEF SessionInv, BrowserInv
  <2>11. \A k \in Tabs : CallOK(call'[k], owner', Given') /\ SeenOK(call'[k], owner', resets', missed')
    <3> SUFFICES ASSUME NEW k \in Tabs
                 PROVE  CallOK(call'[k], owner', Given') /\ SeenOK(call'[k], owner', resets', missed')
        OBVIOUS
    <3>1. CASE call'[k] = d
          BY <2>8, <2>9, <3>1
    <3>2. CASE call'[k] = call[k]
      <4>1. CallOK(call[k], owner, Given) /\ SeenOK(call[k], owner, resets, missed)
            BY SessionFacts
      <4>2. CallOK(call[k], owner', Given')
            BY <2>3, <2>5, <4>1, CallGrows
      <4>3. SeenOK(call[k], owner', resets', missed')
            BY <1>2, <2>3, <2>5, <4>1, CallGrows
      <4> QED
          BY <3>2, <4>2, <4>3
    <3> QED
        BY <2>10, <3>1, <3>2
  <2>12. \A k \in Tabs : TabOK(tab'[k], owner', Given')
         BY <1>1, <2>3, <2>5, SessionFacts, TabGrows
  <2>13. BrowserInv'
         BY <1>1, <2>3, <2>10, <2>11, <2>12 DEF SessionInv, BrowserInv
  <2>14. FreshInv'
         BY <1>2, <2>11 DEF SessionInv, FreshInv
  <2>15. ResetEndsOldAccess'
    <3> SUFFICES ASSUME NEW k \in sessions', granted'[k] < resets'[owner'[k]]
                 PROVE  order' = [step |-> "reset", user |-> owner'[k]] \/ owner'[k] \in missed'
        BY DEF ResetEndsOldAccess
    <3>1. CASE k = s
      <4>1. resets[c.by] \in Nat
            BY <2>4 DEF SessionInv, HistoryTypes
      <4> QED
          BY <1>2, <2>4, <2>5, <3>1, <4>1 DEF Fresh
    <3>2. CASE k \in sessions
      <4>1. k \in Given
            BY <3>2 DEF SessionInv, TableInv
      <4> QED
          BY <1>1, <1>2, <2>5, <3>2, <4>1 DEF SessionInv, ResetEndsOldAccess
    <3> QED
        BY <2>1, <3>1, <3>2
  <2> QED
      BY <1>3, <2>6, <2>13, <2>14, <2>15 DEF SessionInv
<1> QED
    BY <1>4, <1>5

LEMMA PasswordUpdateStep ==
    ASSUME SessionInv, NEW t \in Tabs, PasswordUpdate(t) PROVE SessionInv'
<1> DEFINE c == call[t]
           u == owner[c.cookie]
           d == [c EXCEPT !.step = "answered", !.status = "ok"]
<1>1. /\ UNCHANGED <<account, table, order, cookie, tab, bounds, history>>
      /\ c.step = "checked" /\ c.kind = "password"
      /\ lineage' = [lineage EXCEPT ![u] = c.seen] /\ mustChange' = [mustChange EXCEPT ![u] = FALSE]
      /\ call' = [call EXCEPT ![t] = d]
      BY DEF PasswordUpdate, Answer
<1>2. UNCHANGED <<created, sessions, owner, granted, resets, missed, requests, events>>
      BY <1>1 DEF table, bounds, history
<1>3. CallOK(d, owner, Given) /\ SeenOK(d, owner, resets, missed)
      BY <1>1, SessionFacts, AnswerOK DEF Statuses
<1>4. u \in Users /\ c.seen \in Nat /\ Fresh(u, c.seen, resets, missed)
      BY <1>1, SessionFacts DEF CallOK, Call, SeenOK
<1> HIDE DEF d, u
<1>5. d \in Call /\ call' \in [Tabs -> Call] /\ \A k \in Tabs : call'[k] = call[k] \/ call'[k] = d
      BY <1>1, <1>3 DEF SessionInv, BrowserInv, CallOK
<1>6. AccountsInv'
  <2>1. mustChange' \in [Users -> BOOLEAN]
        BY <1>1 DEF SessionInv, AccountsInv
  <2> QED
      BY <1>1, <1>4, <2>1 DEF SessionInv, AccountsInv
<1>7. Given' = Given /\ TableInv'
      BY <1>2 DEF SessionInv, TableInv, Given
<1>8. OrderInv' /\ HistoryTypes' /\ BoundsInv'
      BY <1>1, <1>2 DEF SessionInv, OrderInv, HistoryTypes, BoundsInv
<1>9. BrowserInv'
      BY <1>1, <1>2, <1>3, <1>5, <1>7 DEF SessionInv, BrowserInv
<1>10. FreshInv'
  <2>1. \A v \in Users : lineage'[v] = IF v = u THEN c.seen ELSE lineage[v]
        BY <1>1, <1>4 DEF SessionInv, AccountsInv
  <2>2. \A v \in Users : Fresh(v, lineage'[v], resets', missed')
        BY <1>2, <1>4, <2>1 DEF SessionInv, FreshInv
  <2>3. \A k \in Tabs : SeenOK(call'[k], owner', resets', missed')
        BY <1>2, <1>3, <1>5 DEF SessionInv, FreshInv
  <2> QED
      BY <2>2, <2>3 DEF FreshInv
<1>11. ResetEndsOldAccess'
       BY <1>1, <1>2 DEF SessionInv, ResetEndsOldAccess
<1> QED
    BY <1>6, <1>7, <1>8, <1>9, <1>10, <1>11 DEF SessionInv


\* The administrator begins to reset or to disable, with no such work under way.
LEMMA OrderBegins ==
    ASSUME SessionInv, NEW u \in Users, NEW step \in {"reset", "disabled"}, Order(u, step)
    PROVE  OrderInv' /\ events' \in Nat /\ order.step = "none"
<1>1. u # NoUser
      BY WebSessionAssumption
<1> QED
    BY <1>1 DEF Order, SessionInv, OrderInv, BoundsInv

LEMMA ResetPasswordStep ==
    ASSUME SessionInv, NEW u \in Users, ResetPassword(u) PROVE SessionInv'
<1>1. /\ Order(u, "reset") /\ order' = [step |-> "reset", user |-> u]
      /\ lineage' = [lineage EXCEPT ![u] = resets[u] + 1]
      /\ mustChange' = [mustChange EXCEPT ![u] = TRUE]
      /\ resets' = [resets EXCEPT ![u] = resets[u] + 1]
      /\ missed' = IF Checked(u) THEN missed \union {u} ELSE missed
      /\ UNCHANGED <<account, table, browser, requests>>
      BY DEF ResetPassword, Order, SessionInv, HistoryTypes
<1>2. UNCHANGED <<created, sessions, owner, granted, cookie, tab, call>>
      BY <1>1 DEF table, browser
<1>3. OrderInv' /\ BoundsInv' /\ order.step = "none"
      BY <1>1, OrderBegins DEF SessionInv, BoundsInv
<1>4. Given' = Given /\ TableInv'
      BY <1>2 DEF SessionInv, TableInv, Given
<1>5. BrowserInv'
      BY <1>2, <1>4 DEF SessionInv, BrowserInv
<1>6. resets[u] \in Nat
      BY DEF SessionInv, HistoryTypes
<1>7. HistoryTypes'
      BY <1>1, <1>6 DEF SessionInv, HistoryTypes
<1>8. AccountsInv'
  <2>1. mustChange' \in [Users -> BOOLEAN]
        BY <1>1 DEF SessionInv, AccountsInv
  <2>2. resets[u] + 1 \in Nat
        BY <1>6
  <2> QED
      BY <1>1, <2>1, <2>2 DEF SessionInv, AccountsInv
<1>9. \A v \in Users : v # u => resets'[v] = resets[v] /\ lineage'[v] = lineage[v]
      BY <1>1 DEF SessionInv, HistoryTypes, AccountsInv
<1>10. resets'[u] = resets[u] + 1 /\ lineage'[u] = resets[u] + 1 /\ missed \subseteq missed'
       BY <1>1 DEF SessionInv, HistoryTypes, AccountsInv
<1>11. FreshInv'
  <2>1. \A v \in Users : Fresh(v, lineage'[v], resets', missed')
    <3> SUFFICES ASSUME NEW v \in Users PROVE Fresh(v, lineage'[v], resets', missed')
        OBVIOUS
    <3>1. CASE v = u
          BY <1>6, <1>10, <3>1 DEF Fresh
    <3>2. CASE v # u
          BY <1>9, <1>10, <3>2 DEF SessionInv, FreshInv, Fresh
    <3> QED
        BY <3>1, <3>2
  <2>2. \A t \in Tabs : SeenOK(call[t], owner, resets', missed')
    <3> SUFFICES ASSUME NEW t \in Tabs, call[t].step = "checked"
                 PROVE  /\ call[t].kind = "login" => Fresh(call[t].by, call[t].seen, resets', missed')
                        /\ call[t].kind = "password" =>
                               Fresh(owner[call[t].cookie], call[t].seen, resets', missed')
        BY DEF SeenOK
    <3> DEFINE c == call[t]
    <3>1. /\ c.kind = "login" => c.by \in Users /\ Fresh(c.by, c.seen, resets, missed)
          /\ c.kind = "password" => /\ owner[c.cookie] \in Users
                                    /\ Fresh(owner[c.cookie], c.seen, resets, missed)
          BY SessionFacts DEF CallOK, SeenOK, Call
    <3>2. /\ c.kind = "login" /\ c.by = u => Checked(u)
          /\ c.kind = "password" /\ owner[c.cookie] = u => Checked(u)
          BY DEF Checked
    <3>3. Checked(u) => u \in missed'
          BY <1>1
    <3> HIDE DEF c
    <3>4. ASSUME NEW v \in Users, NEW n, Fresh(v, n, resets, missed), v = u => Checked(u)
          PROVE  Fresh(v, n, resets', missed')
          BY <1>9, <1>10, <3>3, <3>4 DEF Fresh
    <3>5. c.kind = "login" => Fresh(c.by, c.seen, resets', missed')
          BY <3>1, <3>2, <3>4
    <3>6. c.kind = "password" => Fresh(owner[c.cookie], c.seen, resets', missed')
          BY <3>1, <3>2, <3>4
    <3> QED
        BY <3>5, <3>6 DEF c
  <2> QED
      BY <1>2, <2>1, <2>2 DEF FreshInv
<1>12. ResetEndsOldAccess'
  <2> SUFFICES ASSUME NEW s \in sessions, granted[s] < resets'[owner[s]], owner[s] # u
               PROVE  owner[s] \in missed
      BY <1>1, <1>2, <1>10 DEF ResetEndsOldAccess
  <2>1. owner[s] \in Users
        BY SessionFacts, GivenTypes DEF SessionInv, TableInv
  <2>2. granted[s] < resets[owner[s]]
        BY <1>9, <2>1
  <2> QED
      BY <1>3, <2>2 DEF SessionInv, ResetEndsOldAccess
<1> QED
    BY <1>3, <1>4, <1>5, <1>7, <1>8, <1>11, <1>12 DEF SessionInv

LEMMA DisableStep ==
    ASSUME SessionInv, NEW u \in Users, Disable(u) PROVE SessionInv'
<1>1. /\ Order(u, "disabled") /\ account' = [account EXCEPT ![u] = "disabled"]
      /\ UNCHANGED <<mustChange, lineage, table, browser, requests, history>>
      BY DEF Disable
<1>2. UNCHANGED <<created, sessions, owner, granted, cookie, tab, call, resets, missed>>
      BY <1>1 DEF table, browser, history
<1>3. OrderInv' /\ BoundsInv' /\ order.step = "none"
      BY <1>1, OrderBegins DEF SessionInv, BoundsInv
<1>4. Given' = Given /\ TableInv'
      BY <1>2 DEF SessionInv, TableInv, Given
<1>5. BrowserInv'
      BY <1>2, <1>4 DEF SessionInv, BrowserInv
<1>6. AccountsInv' /\ HistoryTypes' /\ FreshInv'
      BY <1>1, <1>2 DEF SessionInv, AccountsInv, HistoryTypes, FreshInv
<1>7. ResetEndsOldAccess'
      BY <1>2, <1>3 DEF SessionInv, ResetEndsOldAccess
<1> QED
    BY <1>3, <1>4, <1>5, <1>6, <1>7 DEF SessionInv

LEMMA EndSessionsStep ==
    ASSUME SessionInv, EndSessions PROVE SessionInv'
<1>1. /\ UNCHANGED <<accounts, created, owner, granted, browser, bounds, resets>>
      /\ order.step # "none" /\ order' = NoOrder
      /\ \/ sessions' = {s \in sessions : owner[s] # order.user} /\ UNCHANGED missed
         \/ /\ missed' = IF order.step = "reset" THEN missed \union {order.user} ELSE missed
            /\ UNCHANGED sessions
      BY DEF EndSessions, EndedBy
<1>2. UNCHANGED <<account, mustChange, lineage, cookie, tab, call, requests, events>>
      BY <1>1 DEF accounts, browser, bounds
<1>3. order.user \in Users /\ sessions' \subseteq sessions
      /\ missed \subseteq missed' /\ missed' \subseteq Users
      BY <1>1 DEF SessionInv, OrderInv, HistoryTypes
<1>4. Given' = Given /\ TableInv'
      BY <1>1, <1>3 DEF SessionInv, TableInv, Given
<1>5. AccountsInv' /\ OrderInv' /\ HistoryTypes' /\ BoundsInv'
      BY <1>1, <1>2, <1>3
      DEF SessionInv, AccountsInv, OrderInv, HistoryTypes, BoundsInv, NoOrder
<1>6. BrowserInv'
      BY <1>1, <1>2, <1>4 DEF SessionInv, BrowserInv
<1>7. FreshInv'
      BY <1>1, <1>2, <1>3 DEF SessionInv, FreshInv, Fresh, SeenOK
<1>8. ResetEndsOldAccess'
  <2> SUFFICES ASSUME NEW s \in sessions', granted[s] < resets[owner[s]]
               PROVE  owner[s] \in missed'
      BY <1>1 DEF ResetEndsOldAccess
  <2>1. order = [step |-> "reset", user |-> owner[s]] \/ owner[s] \in missed
        BY <1>3 DEF SessionInv, ResetEndsOldAccess
  <2> QED
      BY <1>1, <1>3, <2>1
<1> QED
    BY <1>4, <1>5, <1>6, <1>7, <1>8 DEF SessionInv

LEMMA SessionStep == SessionInv /\ [SessionNext]_sessionVars => SessionInv'
<1> SUFFICES ASSUME SessionInv, [SessionNext]_sessionVars PROVE SessionInv'
    OBVIOUS
<1>1. ASSUME NEW t \in Tabs, UserStep(t) PROVE SessionInv'
      BY <1>1, OpenStep, NavigateStep, SendStep DEF UserStep
<1>2. ASSUME NEW t \in Tabs, ServerStep(t) PROVE SessionInv'
      BY <1>2, ServeOtherStep, ServeLogoutStep, LoginCheckStep, LoginInsertStep,
         PasswordCheckStep, PasswordUpdateStep DEF ServerStep
<1>3. ASSUME NEW t \in Tabs, Leave(t) \/ Lose(t) \/ Arrive(t) PROVE SessionInv'
      BY <1>3, LeaveStep, LoseStep, ArriveStepOfSession
<1>4. CASE AdminStep
  <2>1. ASSUME NEW u \in Users, Enable(u) PROVE SessionInv'
    <3>1. /\ account' = [account EXCEPT ![u] = "enabled"]
          /\ UNCHANGED <<mustChange, lineage, table, order, browser, bounds, history>>
          BY <2>1 DEF Enable
    <3>2. AccountsInv' /\ BoundsInv'
          BY <3>1 DEF SessionInv, AccountsInv, BoundsInv, bounds
    <3> QED
        BY <3>1, <3>2, SessionsEnd DEF table, browser, history
  <2>2. ASSUME NEW u \in Users, DeleteUser(u) PROVE SessionInv'
    <3>1. /\ account' = [account EXCEPT ![u] = "gone"] /\ events' = events + 1
          /\ sessions' \subseteq sessions
          /\ UNCHANGED <<mustChange, lineage, created, owner, granted, order, browser, requests,
                         history>>
          BY <2>2 DEF DeleteUser
    <3>2. AccountsInv' /\ BoundsInv'
          BY <3>1 DEF SessionInv, AccountsInv, BoundsInv
    <3> QED
        BY <3>1, <3>2, SessionsEnd DEF browser, history
  <2> QED
      BY <1>4, <2>1, <2>2, ResetPasswordStep, DisableStep, EndSessionsStep DEF AdminStep
<1>5. ASSUME NEW s \in Sessions, Expire(s) PROVE SessionInv'
  <2>1. /\ events' = events + 1 /\ sessions' \subseteq sessions
        /\ UNCHANGED <<accounts, created, owner, granted, order, browser, requests, history>>
        BY <1>5 DEF Expire
  <2>2. AccountsInv' /\ BoundsInv'
        BY <2>1 DEF SessionInv, AccountsInv, BoundsInv, accounts
  <2> QED
      BY <2>1, <2>2, SessionsEnd DEF accounts, browser, history
<1>6. CASE UNCHANGED sessionVars
  <2>1. UNCHANGED <<account, mustChange, lineage, created, sessions, owner, granted, order, cookie,
                    tab, call, requests, events, resets, missed>>
        BY <1>6 DEF sessionVars, accounts, table, browser, bounds, history
  <2>2. AccountsInv' /\ BoundsInv'
        BY <2>1 DEF SessionInv, AccountsInv, BoundsInv
  <2> QED
      BY <2>1, <2>2, SessionsEnd
<1> QED
    BY <1>1, <1>2, <1>3, <1>4, <1>5, <1>6 DEF SessionNext

LEMMA SessionStart == SessionInit => SessionInv
<1> SUFFICES ASSUME SessionInit PROVE SessionInv
    OBVIOUS
<1>1. AccountsInv
  <2>1. mustChange \in [Users -> BOOLEAN]
        BY DEF SessionInit
  <2>2. lineage \in [Users -> Nat]
        BY DEF SessionInit
  <2> QED
      BY <2>1, <2>2 DEF SessionInit, AccountsInv
<1>2. Given = {}
      BY DEF SessionInit, Given
<1>3. TableInv
      BY <1>2, WebSessionAssumption DEF SessionInit, TableInv
<1>4. OrderInv /\ BoundsInv /\ HistoryTypes
      BY DEF SessionInit, OrderInv, BoundsInv, HistoryTypes, NoOrder
<1>5. BrowserInv
  <2>1. "login" \in Routes /\ Given \union {Nothing} \subseteq Tokens
        BY <1>3, GivenTypes DEF Routes
  <2>2. TabOK(Loading("login"), owner, Given) /\ Loading("login") \in Tab
        BY <2>1, LoadingOK DEF TabOK
  <2>3. CallOK(Asking(Nothing), owner, Given) /\ Asking(Nothing) \in Call
        BY <2>1, AskingOK DEF CallOK
  <2> QED
      BY <2>2, <2>3 DEF SessionInit, BrowserInv
<1>6. FreshInv
  <2>1. \A u \in Users : Fresh(u, lineage[u], resets, missed)
        BY DEF SessionInit, Fresh
  <2>2. \A t \in Tabs : call[t].step = "sent"
        BY DEF SessionInit, Asking, NoCall
  <2> QED
      BY <2>1, <2>2 DEF FreshInv, SeenOK
<1>7. ResetEndsOldAccess
      BY DEF SessionInit, ResetEndsOldAccess
<1> QED
    BY <1>1, <1>3, <1>4, <1>5, <1>6, <1>7 DEF SessionInv

(* Accounts, sessions, cookie, tabs and requests have the types declared.  *)
THEOREM SessionTypes == SessionSpec => []SessionTypeOK
<1>1. SessionInv => SessionTypeOK
  <2> SUFFICES ASSUME SessionInv PROVE SessionTypeOK
      OBVIOUS
  <2>1. \A s \in Sessions : s <= created => s \in Given
        BY WebSessionAssumption DEF SessionInv, TableInv, Given, Sessions
  <2>2. cookie \in 0 .. created
        BY DEF SessionInv, BrowserInv, TableInv, Given, Nothing
  <2>3. AccountsInv /\ TableInv /\ OrderInv /\ BrowserInv /\ BoundsInv /\ HistoryTypes
        BY DEF SessionInv
  <2> QED
      BY <2>1, <2>2, <2>3
      DEF AccountsInv, TableInv, OrderInv, BrowserInv, BoundsInv, HistoryTypes, SessionTypeOK, Given
<1> QED
    BY <1>1, SessionStart, SessionStep, PTL DEF SessionSpec

(* A loaded tab shows the pages its user may see and no other: router,     *)
(* answers and the late timer of PasswordView alike (router.ts:22-29).     *)
THEOREM PagesAllowed == SessionSpec => []PagesAreAllowed
<1>1. SessionInv => PagesAreAllowed
      BY DEF SessionInv, BrowserInv, TabOK, Allowed, PagesAreAllowed
<1> QED
    BY <1>1, SessionStart, SessionStep, PTL DEF SessionSpec

(* What is written was asked for by a tab that shows the user it is        *)
(* written for: the token a tab holds is of a session of its user, and one *)
(* that is accepted is of the session of the cookie (auth.go:70).          *)
THEOREM WritesOwn == SessionSpec => []WritesAreOnesOwn
<1>1. SessionInv => WritesAreOnesOwn
  <2> SUFFICES ASSUME SessionInv, NEW t \in Tabs, call[t].kind \in {"write", "password"},
                      Accepted(call[t])
               PROVE  owner[call[t].cookie] = call[t].by
      BY DEF WritesAreOnesOwn
  <2>1. call[t].csrf # Nothing /\ call[t].csrf = call[t].cookie
        BY DEF Accepted, Matches
  <2> QED
      BY <2>1, SessionFacts DEF CallOK
<1> QED
    BY <1>1, SessionStart, SessionStep, PTL DEF SessionSpec

(* No session that a password from before a reset opened is left once the  *)
(* reset is done, but of the users it has missed: every login and change   *)
(* under way has checked a password that is at least as new as the reset   *)
(* (resetPasswordHandler, admin.go:237-247).                               *)
THEOREM ResetEndsAccess == SessionSpec => []ResetEndsOldAccess
<1>1. SessionInv => ResetEndsOldAccess
      BY DEF SessionInv
<1> QED
    BY <1>1, SessionStart, SessionStep, PTL DEF SessionSpec

-----------------------------------------------------------------------------
(* Subscriptions                                                           *)

\* The requests that change subscription i
Changing(i) == {n \in Under(listCall, {"toggle", "remove", "add"}) : i \in listCall[n].of}

OneEach == \A n \in Under(listCall, {"toggle", "remove", "add"}) : \E i \in Items : listCall[n].of = {i}

\* How the list shows what is stored
AsShown(stored) == IF stored = "deleted" THEN "absent" ELSE stored

\* A load brings what the server has of all it has not changed since.
CleanInv ==
    \A n \in Under(listCall, {"load"}) : \A i \in listCall[n].clean :
        listCall[n].step = "served" => listCall[n].answer[i].switch = AsShown(subscribed[i])

\* A switch that shows what has been asked, not what the page was told; a
\* subscription the server has deleted and the page still shows
Turned(c)  == c.kind = "toggle" /\ c.held
Deleted(c) == c.kind = "remove" /\ c.step = "served"

\* How far a turned switch has got, when nothing else is asked
Follows(c, switch, stored) ==
    /\ c.before \in {"on", "off"}
    /\ switch = Other(c.before)
    /\ stored = IF c.step = "served" THEN Other(c.before) ELSE c.before

Fits(i) ==
    /\ \A n \in Changing(i) : Deleted(listCall[n]) => subscribed[i] = "deleted"
    /\ i \notin doubt =>
          /\ \A n \in Changing(i) : Turned(listCall[n]) =>
                /\ \A m \in Changing(i) : m = n
                /\ Follows(listCall[n], items[i].switch, subscribed[i])
          /\ \/ items[i].switch = AsShown(subscribed[i])
             \/ \E n \in Changing(i) : Turned(listCall[n]) \/ Deleted(listCall[n])

ChangeInv == \A i \in Items : Fits(i)

\* The timer runs only while there are attempts left.
TimerInv == refreshTimer => attempts < MaxAttempts

ListSafe == OneEach /\ CleanInv /\ ChangeInv

ListInv == ListTypeOK /\ TimerInv /\ ListSafe

LEMMA ListTypes ==
    /\ Absent \in Item /\ NoListCall \in ListCall
    /\ NoListCall.kind = "none" /\ NoListCall.of = {}
<1>1. Absent \in Item
      BY DEF Absent, Item, Switch
<1>2. [i \in Items |-> Absent] \in [Items -> Item]
      BY <1>1
<1> QED
    BY <1>1, <1>2 DEF NoListCall, ListCall, Switch

\* A load that begins
LEMMA BeginLoadType ==
    ASSUME ListTypeOK, NEW n \in ListCalls, NEW background \in BOOLEAN,
           BeginLoad(listCall, n, background)
    PROVE  loading' \in BOOLEAN /\ listCall' \in [ListCalls -> ListCall]
<1> DEFINE c == [NoListCall EXCEPT !.kind = "load", !.background = background]
<1>1. c \in ListCall
      BY ListTypes DEF ListCall
<1>2. listCall' = [listCall EXCEPT ![n] = c] /\ loading' = (loading \/ ~background)
      BY DEF BeginLoad
<1> HIDE DEF c
<1>3. listCall' \in [ListCalls -> ListCall]
      BY <1>1, <1>2 DEF ListTypeOK
<1>4. loading' \in BOOLEAN
      BY <1>2
<1> QED
    BY <1>3, <1>4

\* One request goes on.
LEMMA CallGoesOn ==
    ASSUME ListTypeOK, NEW n \in ListCalls, NEW c \in ListCall,
           listCall' = [listCall EXCEPT ![n] = c]
    PROVE  /\ listCall' \in [ListCalls -> ListCall] /\ listCall'[n] = c
           /\ \A k \in ListCalls \ {n} : listCall'[k] = listCall[k]
    BY DEF ListTypeOK

LEMMA BeginChangeType ==
    ASSUME ListTypeOK, NEW n \in ListCalls, NEW i \in Items,
           NEW kind \in {"toggle", "remove", "add"}, BeginChange(n, kind, i)
    PROVE  /\ listCall' \in [ListCalls -> ListCall] /\ doubt' \subseteq Items
           /\ listCall[n].kind = "none"
           /\ listCall'[n].kind = kind /\ listCall'[n].of = {i} /\ listCall'[n].held
           /\ listCall'[n].before = items[i].switch /\ listCall'[n].step = "sent"
           /\ \A k \in ListCalls \ {n} : listCall'[k] = listCall[k]
<1> DEFINE c == [NoListCall EXCEPT !.kind = kind, !.of = {i}, !.held = TRUE,
                                   !.before = items[i].switch]
<1>1. items[i].switch \in Switch
      BY DEF ListTypeOK, Item
<1>2. /\ c \in ListCall
      /\ c.kind = kind /\ c.of = {i} /\ c.held /\ c.before = items[i].switch /\ c.step = "sent"
      BY <1>1, ListTypes DEF ListCall, NoListCall
<1>3. listCall' = [listCall EXCEPT ![n] = c]
      BY DEF BeginChange
<1>4. listCall[n].kind = "none"
  <2>1. n <= n
        BY DEF ListCalls
  <2> QED
      BY <2>1 DEF BeginChange, Free
<1>5. doubt' \subseteq Items
      BY DEF BeginChange, ListTypeOK
<1> HIDE DEF c
<1> QED
    BY <1>2, <1>3, <1>4, <1>5, CallGoesOn

LEMMA ListTimerStep == ListTypeOK /\ TimerInv /\ [ListNext]_listVars => TimerInv'
<1> SUFFICES ASSUME ListTypeOK, TimerInv, [ListNext]_listVars PROVE TimerInv'
    OBVIOUS
<1>1. attempts \in Nat /\ MaxAttempts \in Nat /\ 0 < MaxAttempts
      BY SubscriptionsAssumption DEF ListTypeOK
<1>2. ASSUME refreshTimer' = FALSE PROVE TimerInv'
      BY <1>2 DEF TimerInv
<1>3. ASSUME refreshTimer' = refreshTimer, attempts' \in {attempts, 0} PROVE TimerInv'
      BY <1>1, <1>3 DEF TimerInv
<1>4. ASSUME NEW n \in ListCalls, LoadAnswered(n) PROVE TimerInv'
      BY <1>4 DEF LoadAnswered, Schedules, TimerInv
<1>5. ASSUME NEW n \in ListCalls, AddAnswered(n) PROVE TimerInv'
  <2>1. refreshTimer' = refreshTimer /\ attempts' \in {attempts, 0}
        BY <1>5 DEF AddAnswered
  <2> QED
      BY <1>3, <2>1
<1>6. ASSUME NEW n \in ListCalls, RefreshFires(n) PROVE TimerInv'
      BY <1>2, <1>6 DEF RefreshFires
<1>7. CASE ListLeave
      BY <1>2, <1>7 DEF ListLeave
<1>8. ASSUME NEW n \in ListCalls, ListMount(n) \/ PressRefresh(n) \/ ServeList(n) \/ RequestFails(n)
      PROVE  TimerInv'
      BY <1>3, <1>8 DEF ListMount, PressRefresh, ServeList, RequestFails, page
<1>9. ASSUME NEW n \in ListCalls, NEW i \in Items,
             \/ Toggle(n, i) \/ Remove(n, i) \/ Add(n, i) \/ ServeChange(n, i)
             \/ ToggleAnswered(n, i) \/ RemoveAnswered(n, i)
      PROVE  TimerInv'
      BY <1>3, <1>9 DEF Toggle, Remove, Add, ServeChange, ToggleAnswered, RemoveAnswered, page
<1>10. CASE UNCHANGED listVars \/ \E i \in Items : Initialize(i)
      BY <1>3, <1>10 DEF Initialize, listVars, page
<1> QED
    BY <1>4, <1>5, <1>6, <1>7, <1>8, <1>9, <1>10 DEF ListNext, ListAnswered

LEMMA ShownType ==
    ASSUME ListTypeOK
    PROVE  Shown \in [Items -> Item] /\ \A i \in Items : Shown[i].switch = AsShown(subscribed[i])
<1>1. \A i \in Items : subscribed[i] \in Stored /\ (i \notin ready) \in BOOLEAN
      BY DEF ListTypeOK
<1> QED
    BY <1>1, ListTypes DEF Shown, Present, Item, Stored, Switch, AsShown, Absent

\* The request that is served goes on; no other load has seen what it changes.
LEMMA ServeChangeCalls ==
    ASSUME ListTypeOK, NEW n \in ListCalls, NEW i \in Items, ServeChange(n, i)
    PROVE  /\ listCall' \in [ListCalls -> ListCall]
           /\ listCall'[n].step = IF Applies(listCall[n], i) THEN "served" ELSE "failed"
           /\ \A k \in ListCalls :
                  /\ listCall'[k].kind = listCall[k].kind /\ listCall'[k].of = listCall[k].of
                  /\ listCall'[k].held = listCall[k].held
                  /\ listCall'[k].before = listCall[k].before
                  /\ k # n => listCall'[k].step = listCall[k].step
                  /\ listCall'[k].answer = listCall[k].answer
                  /\ listCall'[k].clean \subseteq listCall[k].clean
                  /\ Applies(listCall[n], i) => i \notin listCall'[k].clean
<1>1. listCall \in [ListCalls -> ListCall] /\ \A k \in ListCalls : listCall[k] \in ListCall
      BY DEF ListTypeOK
<1>2. CASE Applies(listCall[n], i)
  <2> DEFINE d(k) == [listCall[k] EXCEPT !.step = IF k = n THEN "served" ELSE @,
                                         !.clean = @ \ {i}]
  <2>1. listCall' = [k \in ListCalls |-> d(k)]
        BY <1>2 DEF ServeChange
  <2>2. ASSUME NEW k \in ListCalls
        PROVE  /\ d(k) \in ListCall
               /\ d(k).kind = listCall[k].kind /\ d(k).of = listCall[k].of
               /\ d(k).held = listCall[k].held /\ d(k).before = listCall[k].before
               /\ d(k).step = IF k = n THEN "served" ELSE listCall[k].step
               /\ d(k).answer = listCall[k].answer /\ d(k).clean = listCall[k].clean \ {i}
        BY <1>1 DEF ListCall
  <2> HIDE DEF d
  <2> QED
      BY <1>2, <2>1, <2>2
<1>3. CASE ~Applies(listCall[n], i)
  <2> DEFINE d == [listCall[n] EXCEPT !.step = "failed"]
  <2>1. /\ d \in ListCall /\ d.kind = listCall[n].kind /\ d.of = listCall[n].of
        /\ d.held = listCall[n].held /\ d.before = listCall[n].before /\ d.step = "failed"
        /\ d.answer = listCall[n].answer /\ d.clean = listCall[n].clean
        BY <1>1 DEF ListCall
  <2>2. listCall' = [listCall EXCEPT ![n] = d]
        BY <1>1, <1>3 DEF ServeChange
  <2> HIDE DEF d
  <2>3. /\ listCall' \in [ListCalls -> ListCall] /\ listCall'[n] = d
        /\ \A k \in ListCalls \ {n} : listCall'[k] = listCall[k]
        BY <2>1, <2>2, CallGoesOn
  <2> QED
      BY <1>3, <2>1, <2>3
<1> QED
    BY <1>2, <1>3

LEMMA ListTypeStep == ListTypeOK /\ TimerInv /\ [ListNext]_listVars => ListTypeOK'
<1> SUFFICES ASSUME ListTypeOK, TimerInv, [ListNext]_listVars PROVE ListTypeOK'
    OBVIOUS
<1>1. ASSUME Move PROVE moves' \in Nat
      BY <1>1 DEF Move, ListTypeOK
<1>2. \A k \in ListCalls : listCall[k] \in ListCall
      BY DEF ListTypeOK
<1>3. ASSUME NEW n \in ListCalls, ListMount(n) \/ PressRefresh(n) PROVE ListTypeOK'
  <2>1. attempts' \in {attempts, 0}
        BY <1>3 DEF ListMount, PressRefresh
  <2>2. BeginLoad(listCall, n, FALSE)
        BY <1>3 DEF ListMount, PressRefresh
  <2>3. attempts' \in 0 .. MaxAttempts
        BY <2>1, SubscriptionsAssumption DEF ListTypeOK
  <2>4. moves' \in Nat
        BY <1>1, <1>3 DEF ListMount, PressRefresh, ListTypeOK
  <2> QED
      BY <1>3, <2>2, <2>3, <2>4, BeginLoadType DEF ListMount, PressRefresh, ListTypeOK, server
<1>4. ASSUME NEW n \in ListCalls, RefreshFires(n) PROVE ListTypeOK'
  <2>1. attempts' = attempts + 1 /\ attempts < MaxAttempts
        BY <1>4 DEF RefreshFires, Attempted, TimerInv
  <2>2. attempts' \in 0 .. MaxAttempts
        BY <2>1, SubscriptionsAssumption DEF ListTypeOK
  <2> QED
      BY <1>4, <2>2, BeginLoadType DEF RefreshFires, ListTypeOK, server
<1>5. ASSUME NEW n \in ListCalls, NEW i \in Items, Toggle(n, i) \/ Remove(n, i) \/ Add(n, i)
      PROVE  ListTypeOK'
  <2>1. moves' \in Nat /\ \E kind \in {"toggle", "remove", "add"} : BeginChange(n, kind, i)
        BY <1>1, <1>5 DEF Toggle, Remove, Add
  <2>2. listCall' \in [ListCalls -> ListCall] /\ doubt' \subseteq Items
        BY <2>1, BeginChangeType
  <2>3. items' \in [Items -> Item]
        BY <1>5 DEF Toggle, Remove, Add, page, ListTypeOK, Item, Switch, Other
  <2> QED
      BY <1>5, <2>1, <2>2, <2>3 DEF Toggle, Remove, Add, ListTypeOK, page, server
<1>6. CASE ListLeave
      BY <1>1, <1>6 DEF ListLeave, ListTypeOK, server
<1>7. ASSUME NEW n \in ListCalls, LoadAnswered(n) PROVE ListTypeOK'
  <2>1. Finished(n) \in [ListCalls -> ListCall]
        BY <1>2, ListTypes DEF Finished, ListTypeOK
  <2>2. \A k \in ListCalls : [Finished(n)[k] EXCEPT !.held = FALSE] \in ListCall
        BY <2>1 DEF ListCall
  <2>3. listCall' \in [ListCalls -> ListCall]
        BY <1>7, <2>1, <2>2 DEF LoadAnswered
  <2>4. listCall[n].answer \in [Items -> Item] /\ listCall[n].clean \subseteq Items
        BY <1>2 DEF ListCall
  <2>5. items' \in [Items -> Item] /\ doubt' \subseteq Items
        BY <1>7, <2>4 DEF LoadAnswered, ListTypeOK
  <2>6. loading' \in BOOLEAN /\ saving' \in BOOLEAN /\ refreshTimer' \in BOOLEAN
        BY <1>7 DEF LoadAnswered, Schedules
  <2> QED
      BY <1>7, <2>3, <2>5, <2>6 DEF LoadAnswered, ListTypeOK, server
<1>8. ASSUME NEW n \in ListCalls, NEW i \in Items, ToggleAnswered(n, i) \/ RemoveAnswered(n, i)
      PROVE  ListTypeOK'
  <2>1. listCall' \in [ListCalls -> ListCall]
        BY <1>2, <1>8, ListTypes DEF ToggleAnswered, RemoveAnswered, Finished, ListTypeOK
  <2>2. listCall[n].before \in Switch
        BY <1>2 DEF ListCall
  <2>3. items' \in [Items -> Item]
        BY <1>8, <2>2, ListTypes
           DEF ToggleAnswered, RemoveAnswered, AfterToggle, ListTypeOK, Item, Switch
  <2> QED
      BY <1>8, <2>1, <2>3 DEF ToggleAnswered, RemoveAnswered, ListTypeOK, server
<1>9. ASSUME NEW n \in ListCalls, AddAnswered(n) PROVE ListTypeOK'
  <2> DEFINE c == [NoListCall EXCEPT !.kind = "load", !.of = listCall[n].of]
  <2>1. c \in ListCall
        BY <1>2, ListTypes DEF ListCall
  <2>2. listCall' = [listCall EXCEPT ![n] = c] \/ listCall' = [listCall EXCEPT ![n] = NoListCall]
        BY <1>9 DEF AddAnswered, Finished
  <2> HIDE DEF c
  <2>3. listCall' \in [ListCalls -> ListCall]
        BY <2>1, <2>2, CallGoesOn, ListTypes
  <2>4. attempts' \in 0 .. MaxAttempts
        BY <1>9, SubscriptionsAssumption DEF AddAnswered, ListTypeOK
  <2>5. loading' \in BOOLEAN /\ saving' \in BOOLEAN
        BY <1>9 DEF AddAnswered, ListTypeOK
  <2> QED
      BY <1>9, <2>3, <2>4, <2>5 DEF AddAnswered, ListTypeOK, server
<1>10. ASSUME NEW n \in ListCalls, ServeList(n) PROVE ListTypeOK'
  <2> DEFINE c == [listCall[n] EXCEPT !.step = "served", !.answer = Shown, !.clean = Items]
  <2>1. Shown \in [Items -> Item]
        BY ShownType
  <2>2. c \in ListCall /\ listCall' = [listCall EXCEPT ![n] = c]
        BY <1>2, <1>10, <2>1 DEF ListCall, ServeList, ListTypeOK
  <2> HIDE DEF c
  <2> QED
      BY <1>10, <2>2, CallGoesOn DEF ServeList, ListTypeOK, page, server
<1>11. ASSUME NEW n \in ListCalls, NEW i \in Items, ServeChange(n, i) PROVE ListTypeOK'
  <2>1. listCall' \in [ListCalls -> ListCall]
        BY <1>11, ServeChangeCalls
  <2>2. subscribed' \in [Items -> Stored]
        BY <1>11 DEF ServeChange, ListTypeOK, Stored, Switch, Other
  <2>3. doubt' \subseteq Items
        BY <1>11 DEF ServeChange, ListTypeOK
  <2> QED
      BY <1>11, <2>1, <2>2, <2>3 DEF ServeChange, ListTypeOK, page
<1>12. ASSUME NEW i \in Items, Initialize(i) PROVE ListTypeOK'
      BY <1>12 DEF Initialize, ListTypeOK, page
<1>13. ASSUME NEW n \in ListCalls, RequestFails(n) PROVE ListTypeOK'
  <2> DEFINE c == [listCall[n] EXCEPT !.step = "failed"]
  <2>1. c \in ListCall /\ listCall[n].of \subseteq Items
        BY <1>2 DEF ListCall
  <2>2. listCall' = [listCall EXCEPT ![n] = c]
        BY <1>2, <1>13 DEF RequestFails, ListTypeOK
  <2>3. doubt' \subseteq Items
        BY <1>13, <2>1 DEF RequestFails, ListTypeOK
  <2>4. failures' \in Nat
        BY <1>13 DEF RequestFails, ListTypeOK
  <2> HIDE DEF c
  <2> QED
      BY <1>13, <2>1, <2>2, <2>3, <2>4, CallGoesOn DEF RequestFails, ListTypeOK, page, server
<1>14. CASE UNCHANGED listVars
      BY <1>14 DEF listVars, page, server, ListTypeOK
<1> QED
    BY <1>3, <1>4, <1>5, <1>6, <1>7, <1>8, <1>9, <1>10, <1>11, <1>12, <1>13, <1>14
    DEF ListNext, ListAnswered

LEMMA AskedChanging ==
    ASSUME NEW i PROVE (Asked(listCall, i) <=> Changing(i) # {}) /\ Changing(i) \subseteq ListCalls
    BY DEF Asked, Changing, Under

LEMMA SwitchShown == ListTypeOK /\ ChangeInv => SwitchShowsServer
    BY AskedChanging, ShownType DEF ChangeInv, Fits, SwitchShowsServer

\* The requests that matter to j stay as they are.
LEMMA FitsStays ==
    ASSUME ListInv, NEW j \in Items,
           items'[j] = items[j], subscribed'[j] = subscribed[j], j \in doubt => j \in doubt',
           Changing(j)' \subseteq Changing(j),
           \A m \in Changing(j)' :
               Turned(listCall'[m]) \/ Deleted(listCall'[m]) =>
                   Turned(listCall[m]) \/ Deleted(listCall[m]),
           \A m \in Changing(j) : Turned(listCall[m]) \/ Deleted(listCall[m]) =>
               /\ m \in Changing(j)'
               /\ listCall'[m].kind = listCall[m].kind /\ listCall'[m].held = listCall[m].held
               /\ listCall'[m].step = listCall[m].step /\ listCall'[m].before = listCall[m].before
    PROVE  Fits(j)'
<1>1. Fits(j)
      BY DEF ListInv, ListSafe, ChangeInv
<1>2. ASSUME NEW m \in Changing(j)', Deleted(listCall'[m]) PROVE subscribed'[j] = "deleted"
      BY <1>1, <1>2 DEF Fits, Deleted, Turned
<1>3. ASSUME NEW m \in Changing(j)', Turned(listCall'[m]), j \notin doubt'
      PROVE  (\A k \in Changing(j)' : k = m) /\ Follows(listCall'[m], items'[j].switch, subscribed'[j])
  <2>1. m \in Changing(j) /\ Turned(listCall[m])
        BY <1>3 DEF Turned, Deleted
  <2>2. (\A k \in Changing(j) : k = m) /\ Follows(listCall[m], items[j].switch, subscribed[j])
        BY <1>1, <1>3, <2>1 DEF Fits
  <2> QED
      BY <2>1, <2>2 DEF Follows
<1>4. ASSUME j \notin doubt'
      PROVE  \/ items'[j].switch = AsShown(subscribed'[j])
             \/ \E m \in Changing(j)' : Turned(listCall'[m]) \/ Deleted(listCall'[m])
  <2>1. CASE items[j].switch = AsShown(subscribed[j])
        BY <2>1
  <2>2. CASE \E m \in Changing(j) : Turned(listCall[m]) \/ Deleted(listCall[m])
        BY <2>2 DEF Turned, Deleted
  <2> QED
      BY <1>1, <1>4, <2>1, <2>2 DEF Fits
<1> QED
    BY <1>2, <1>3, <1>4 DEF Fits

\* Loads that have been served keep their answers, and what they were right about.
LEMMA CleanStays ==
    ASSUME CleanInv,
           \A k \in Under(listCall', {"load"}) : listCall'[k].step = "served" =>
               /\ k \in Under(listCall, {"load"}) /\ listCall[k].step = "served"
               /\ listCall'[k].answer = listCall[k].answer
               /\ \A i \in listCall'[k].clean :
                      i \in listCall[k].clean /\ subscribed'[i] = subscribed[i]
    PROVE  CleanInv'
    BY DEF CleanInv, Under, AsShown

LEMMA LoadBegins ==
    ASSUME ListInv, NEW n \in ListCalls, NEW background \in BOOLEAN,
           BeginLoad(listCall, n, background), UNCHANGED <<items, subscribed, doubt>>
    PROVE  ListSafe'
<1> USE DEF ListInv, ListSafe
<1> DEFINE c == [NoListCall EXCEPT !.kind = "load", !.background = background]
<1>1. /\ c.kind = "load" /\ c.step = "sent"
      /\ listCall' = [listCall EXCEPT ![n] = c] /\ c \in ListCall
      BY ListTypes DEF BeginLoad, NoListCall, ListCall
<1>2. listCall[n].kind = "none"
  <2>1. n <= n
        BY DEF ListCalls
  <2> QED
      BY <2>1 DEF BeginLoad, Free
<1> HIDE DEF c
<1>3. listCall'[n] = c /\ \A k \in ListCalls \ {n} : listCall'[k] = listCall[k]
      BY <1>1, CallGoesOn
<1>4. ASSUME NEW j \in Items PROVE Fits(j)'
  <2>1. Changing(j)' = Changing(j) /\ \A m \in Changing(j) : listCall'[m] = listCall[m]
        BY <1>1, <1>2, <1>3 DEF Changing, Under
  <2> QED
      BY <2>1, FitsStays
<1>5. OneEach'
      BY <1>1, <1>3 DEF OneEach, Under
<1>6. CleanInv'
      BY <1>1, <1>3, CleanStays DEF Under
<1> QED
    BY <1>4, <1>5, <1>6 DEF ChangeInv

\* A switch that is turned while nothing else is asked follows its request from
\* here on.
LEMMA ChangeBegins ==
    ASSUME ListInv, NEW n \in ListCalls, NEW i \in Items, UNCHANGED subscribed,
           \/ Toggle(n, i) \/ Remove(n, i) \/ Add(n, i)
    PROVE  ListSafe'
<1> USE DEF ListInv, ListSafe
<1>1. PICK kind \in {"toggle", "remove", "add"} :
          /\ BeginChange(n, kind, i)
          /\ kind = "toggle" => items' = [items EXCEPT ![i].switch = Other(@)] /\ Listed(i)
          /\ kind # "toggle" => items' = items
      BY DEF Toggle, Remove, Add, page
<1>2. /\ listCall[n].kind = "none" /\ listCall'[n].kind = kind /\ listCall'[n].of = {i}
      /\ listCall'[n].held /\ listCall'[n].before = items[i].switch /\ listCall'[n].step = "sent"
      /\ \A k \in ListCalls \ {n} : listCall'[k] = listCall[k]
      BY <1>1, BeginChangeType
<1>3. doubt' = IF Asked(listCall, i) THEN doubt \union {i} ELSE doubt
      BY <1>1 DEF BeginChange
<1>4. Changing(i)' = Changing(i) \union {n} /\ n \notin Changing(i)
      BY <1>2 DEF Changing, Under
<1>5. OneEach'
      BY <1>2 DEF OneEach, Under
<1>6. CleanInv'
      BY <1>1, <1>2, CleanStays DEF Under
<1>7. ASSUME NEW j \in Items, j # i PROVE Fits(j)'
  <2>1. /\ Changing(j)' = Changing(j) /\ items'[j] = items[j]
        /\ \A m \in Changing(j) : listCall'[m] = listCall[m]
        BY <1>1, <1>2, <1>7 DEF Changing, Under, ListTypeOK
  <2> QED
      BY <1>3, <2>1, FitsStays
<1>8. Fits(i)'
  <2>1. ASSUME NEW m \in Changing(i)', Deleted(listCall'[m]) PROVE subscribed'[i] = "deleted"
    <3>1. m \in Changing(i) /\ Deleted(listCall[m])
          BY <1>2, <1>4, <2>1, AskedChanging DEF Deleted
    <3> QED
        BY <3>1 DEF ChangeInv, Fits
  <2>2. ASSUME i \notin doubt'
        PROVE  /\ Changing(i)' = {n} /\ items[i].switch = AsShown(subscribed[i])
               /\ kind # "toggle" => items'[i].switch = AsShown(subscribed'[i])
               /\ kind = "toggle" => Turned(listCall'[n])
                                     /\ Follows(listCall'[n], items'[i].switch, subscribed'[i])
    <3>1. Changing(i) = {} /\ i \notin doubt
          BY <1>3, <2>2, AskedChanging
    <3>2. items[i].switch = AsShown(subscribed[i])
          BY <3>1 DEF ChangeInv, Fits
    <3>3. items \in [Items -> Item] /\ subscribed[i] \in Stored
          BY DEF ListTypeOK
    <3>4. ASSUME kind = "toggle"
          PROVE  /\ items[i].switch \in {"on", "off"} /\ items'[i].switch = Other(items[i].switch)
                 /\ subscribed[i] = items[i].switch
          BY <1>1, <3>2, <3>3, <3>4 DEF Listed, Item, Switch, Stored, AsShown
    <3> QED
        BY <1>1, <1>2, <1>4, <3>1, <3>2, <3>4 DEF Turned, Follows
  <2> QED
      BY <1>2, <2>1, <2>2 DEF Fits, Turned
<1> QED
    BY <1>5, <1>6, <1>7, <1>8 DEF ChangeInv

\* Requests that end
LEMMA CallsEnd ==
    ASSUME ListInv, UNCHANGED subscribed,
           \A k \in ListCalls :
               \/ listCall'[k].kind = "none"
               \/ /\ listCall'[k].kind = listCall[k].kind /\ listCall'[k].of = listCall[k].of
                  /\ listCall'[k].step = listCall[k].step
                  /\ listCall'[k].answer = listCall[k].answer
                  /\ listCall'[k].clean = listCall[k].clean
    PROVE  OneEach' /\ CleanInv' /\ \A j \in Items : Changing(j)' \subseteq Changing(j)
<1> USE DEF ListInv, ListSafe
<1>1. \A j \in Items : Changing(j)' \subseteq Changing(j)
      BY DEF Changing, Under
<1>2. OneEach'
      BY DEF OneEach, Under
<1>3. CleanInv'
      BY CleanStays DEF Under
<1> QED
    BY <1>1, <1>2, <1>3

\* What a load has found stands until the server changes it again.
LEMMA ListLoadArrives ==
    ASSUME ListInv, NEW n \in ListCalls, LoadAnswered(n)
    PROVE  ListSafe'
<1> USE DEF ListInv, ListSafe
<1> DEFINE c == listCall[n]
<1>1. /\ c.kind = "load" /\ subscribed' = subscribed /\ c \in ListCall
      /\ listCall \in [ListCalls -> ListCall]
      BY DEF LoadAnswered, ListTypeOK, server
<1>2. \A j \in Items : n \notin Changing(j)
      BY <1>1 DEF Changing, Under
<1>3. Finished(n)[n] = NoListCall /\ \A k \in ListCalls \ {n} : Finished(n)[k] = listCall[k]
      BY <1>1 DEF Finished
<1>4. CASE c.step = "served"
  <2>1. /\ items' = c.answer /\ doubt' = Items \ c.clean
        /\ listCall' = [k \in ListCalls |-> [Finished(n)[k] EXCEPT !.held = FALSE]]
        BY <1>4 DEF LoadAnswered
  <2>2. listCall'[n].kind = "none"
        BY <1>3, <2>1, ListTypes DEF ListCall
  <2>3. \A k \in ListCalls \ {n} :
            /\ listCall'[k].kind = listCall[k].kind /\ listCall'[k].of = listCall[k].of
            /\ listCall'[k].step = listCall[k].step /\ ~listCall'[k].held
            /\ listCall'[k].answer = listCall[k].answer
            /\ listCall'[k].clean = listCall[k].clean
        BY <1>1, <1>3, <2>1 DEF ListCall
  <2>4. OneEach' /\ CleanInv' /\ \A j \in Items : Changing(j)' \subseteq Changing(j)
        BY <1>1, <2>2, <2>3, CallsEnd
  <2>5. ASSUME NEW j \in Items PROVE Fits(j)'
    <3>1. \A m \in Changing(j)' : m \in Changing(j) /\ m \in ListCalls \ {n}
          BY <1>2, <2>4, AskedChanging
    <3>2. \A m \in Changing(j)' : ~Turned(listCall'[m])
          BY <2>3, <3>1 DEF Turned
    <3>3. ASSUME NEW m \in Changing(j)', Deleted(listCall'[m]) PROVE subscribed'[j] = "deleted"
          BY <1>1, <2>3, <3>1, <3>3 DEF ChangeInv, Fits, Deleted
    <3>4. ASSUME j \notin doubt' PROVE items'[j].switch = AsShown(subscribed'[j])
      <4>1. j \in c.clean /\ n \in Under(listCall, {"load"})
            BY <1>1, <2>1, <3>4 DEF Under
      <4> QED
          BY <1>1, <1>4, <2>1, <4>1 DEF CleanInv
    <3> QED
        BY <3>2, <3>3, <3>4 DEF Fits
  <2> QED
      BY <2>4, <2>5 DEF ChangeInv
<1>5. CASE c.step # "served"
  <2>1. listCall' = Finished(n) /\ UNCHANGED <<items, doubt>>
        BY <1>5 DEF LoadAnswered
  <2>2. \A k \in ListCalls : listCall'[k].kind = "none" \/ listCall'[k] = listCall[k]
        BY <1>3, <2>1, ListTypes
  <2>3. OneEach' /\ CleanInv'
        BY <1>1, <2>2, CallsEnd
  <2>4. ASSUME NEW j \in Items PROVE Fits(j)'
    <3>1. Changing(j)' = Changing(j) /\ \A m \in Changing(j) : listCall'[m] = listCall[m]
          BY <1>2, <1>3, <2>1, ListTypes DEF Changing, Under
    <3> QED
        BY <1>1, <2>1, <3>1, FitsStays
  <2> QED
      BY <2>3, <2>4 DEF ChangeInv
<1> QED
    BY <1>4, <1>5

\* The answer of a request that was alone leaves the switch as the server has it;
\* one whose object has left the list leaves the switch alone.
LEMMA ChangeArrives ==
    ASSUME ListInv, NEW n \in ListCalls, NEW i \in Items,
           ToggleAnswered(n, i) \/ RemoveAnswered(n, i)
    PROVE  ListSafe'
<1> USE DEF ListInv, ListSafe
<1> DEFINE c == listCall[n]
<1>1. /\ c.kind \in {"toggle", "remove"} /\ c.of = {i} /\ c.step # "sent" /\ c \in ListCall
      /\ UNCHANGED <<subscribed, doubt>> /\ listCall' = Finished(n)
      /\ listCall \in [ListCalls -> ListCall]
      BY DEF ToggleAnswered, RemoveAnswered, ListTypeOK, server
<1>2. listCall'[n] = NoListCall /\ \A k \in ListCalls \ {n} : listCall'[k] = listCall[k]
      BY <1>1 DEF Finished
<1>3. OneEach' /\ CleanInv'
  <2>1. \A k \in ListCalls : listCall'[k].kind = "none" \/ listCall'[k] = listCall[k]
        BY <1>2, ListTypes
  <2> QED
      BY <1>1, <2>1, CallsEnd
<1>4. n \in Changing(i) /\ Changing(i)' = Changing(i) \ {n}
      BY <1>1, <1>2, ListTypes DEF Changing, Under
<1>5. \A m \in Changing(i)' : m \in Changing(i) /\ m # n /\ listCall'[m] = listCall[m]
      BY <1>2, <1>4, AskedChanging
<1>6. ASSUME NEW j \in Items, j # i PROVE Fits(j)'
  <2>1. n \notin Changing(j)
        BY <1>1, <1>6 DEF Changing
  <2>2. Changing(j)' = Changing(j)
        BY <1>2, <2>1, ListTypes DEF Changing, Under
  <2>3. items'[j] = items[j]
        BY <1>6 DEF ToggleAnswered, RemoveAnswered, ListTypeOK
  <2>4. \A m \in Changing(j) : listCall'[m] = listCall[m]
        BY <1>2, <2>1, AskedChanging
  <2> QED
      BY <1>1, <2>2, <2>3, <2>4, FitsStays
<1>7. items[i] \in Item /\ items \in [Items -> Item] /\ c.step \in {"served", "failed"}
      BY <1>1 DEF ListTypeOK, ListCall
<1>8. Fits(i)
      BY DEF ChangeInv
<1>9. ASSUME c.kind = "toggle" PROVE Fits(i)'
  <2>1. items'[i].switch = IF items[i].switch = "absent" THEN items[i].switch
                           ELSE AfterToggle(c, items[i].switch)
        BY <1>7, <1>9 DEF ToggleAnswered, RemoveAnswered, Item
  <2>2. CASE c.held /\ i \notin doubt
    <3>1. (\A m \in Changing(i) : m = n) /\ Follows(c, items[i].switch, subscribed[i])
          BY <1>4, <1>8, <1>9, <2>2 DEF Fits, Turned
    <3>2. Changing(i)' = {} /\ items'[i].switch = subscribed[i] /\ subscribed[i] \in {"on", "off"}
          BY <1>4, <1>7, <2>1, <2>2, <3>1 DEF Follows, AfterToggle, Other
    <3> QED
        BY <1>1, <3>2 DEF Fits, AsShown
  <2>3. CASE ~c.held \/ i \in doubt
    <3>1. ~c.held => items'[i].switch = items[i].switch
          BY <2>1 DEF AfterToggle
    <3>2. ~Deleted(c) /\ (~c.held => ~Turned(c))
          BY <1>9 DEF Deleted, Turned
    <3>3. \A m \in Changing(i)' : Deleted(listCall'[m]) => subscribed'[i] = "deleted"
          BY <1>1, <1>5, <1>8 DEF Fits
    <3>4. CASE i \in doubt
          BY <1>1, <3>3, <3>4 DEF Fits
    <3>5. CASE i \notin doubt
      <4>1. ASSUME NEW m \in Changing(i)', Turned(listCall'[m]) PROVE FALSE
            BY <1>4, <1>5, <1>8, <3>5, <4>1 DEF Fits
      <4>2. \/ items[i].switch = AsShown(subscribed[i])
            \/ \E m \in Changing(i) : m # n /\ (Turned(listCall[m]) \/ Deleted(listCall[m]))
            BY <1>8, <2>3, <3>2, <3>5 DEF Fits
      <4>3. \/ items'[i].switch = AsShown(subscribed'[i])
            \/ \E m \in Changing(i)' : Turned(listCall'[m]) \/ Deleted(listCall'[m])
            BY <1>1, <1>4, <1>5, <2>3, <3>1, <3>5, <4>2
      <4> QED
          BY <3>3, <4>1, <4>3 DEF Fits
    <3> QED
        BY <3>4, <3>5
  <2> QED
      BY <2>2, <2>3
<1>10. ASSUME c.kind = "remove" PROVE Fits(i)'
  <2>1. items' = IF c.step = "served" THEN [items EXCEPT ![i] = Absent] ELSE items
        BY <1>10 DEF ToggleAnswered, RemoveAnswered
  <2>2. \A m \in Changing(i)' : Deleted(listCall'[m]) => subscribed'[i] = "deleted"
        BY <1>1, <1>5, <1>8 DEF Fits
  <2>3. ASSUME i \notin doubt', NEW m \in Changing(i)', Turned(listCall'[m]) PROVE FALSE
        BY <1>1, <1>4, <1>5, <1>8, <2>3 DEF Fits
  <2>4. CASE c.step = "served"
    <3>1. items'[i].switch = "absent"
          BY <1>7, <2>1, <2>4 DEF Absent
    <3>2. subscribed[i] = "deleted"
          BY <1>4, <1>8, <1>10, <2>4 DEF Fits, Deleted
    <3> QED
        BY <1>1, <2>2, <2>3, <3>1, <3>2 DEF Fits, AsShown
  <2>5. CASE c.step # "served"
    <3>1. ~Deleted(c) /\ ~Turned(c) /\ items' = items
          BY <1>10, <2>1, <2>5 DEF Deleted, Turned
    <3>2. i \notin doubt => \/ items[i].switch = AsShown(subscribed[i])
                            \/ \E m \in Changing(i)' : Turned(listCall'[m]) \/ Deleted(listCall'[m])
          BY <1>4, <1>5, <1>8, <3>1 DEF Fits
    <3> QED
        BY <1>1, <2>2, <2>3, <3>1, <3>2 DEF Fits
  <2> QED
      BY <2>4, <2>5
<1>11. Fits(i)'
       BY <1>1, <1>9, <1>10
<1> QED
    BY <1>3, <1>6, <1>11 DEF ChangeInv

\* What has just been added is in doubt until a load shows it.
LEMMA AddArrives ==
    ASSUME ListInv, NEW n \in ListCalls, AddAnswered(n)
    PROVE  ListSafe'
<1> USE DEF ListInv, ListSafe
<1> DEFINE c == listCall[n]
           d == [NoListCall EXCEPT !.kind = "load", !.of = c.of]
<1>1. /\ c.kind = "add" /\ c \in ListCall /\ listCall \in [ListCalls -> ListCall]
      /\ UNCHANGED <<items, subscribed, doubt>>
      BY DEF AddAnswered, ListTypeOK, server
<1>2. d \in ListCall /\ d.kind = "load" /\ d.step = "sent"
      BY <1>1, ListTypes DEF ListCall, NoListCall
<1> HIDE DEF d
<1>3. PICK e \in {d, NoListCall} : listCall' = [listCall EXCEPT ![n] = e]
      BY DEF AddAnswered, Finished, d
<1>4. listCall'[n] = e /\ \A k \in ListCalls \ {n} : listCall'[k] = listCall[k]
      BY <1>2, <1>3, CallGoesOn, ListTypes
<1>5. e.kind \in {"load", "none"} /\ e.step = "sent"
      BY <1>2, <1>3 DEF NoListCall
<1>6. OneEach'
      BY <1>4, <1>5 DEF OneEach, Under
<1>7. CleanInv'
      BY <1>1, <1>4, <1>5, CleanStays DEF Under
<1>8. ASSUME NEW j \in Items PROVE Fits(j)'
  <2>1. Changing(j)' = Changing(j) \ {n}
        BY <1>4, <1>5 DEF Changing, Under
  <2>2. ~Turned(listCall[n]) /\ ~Deleted(listCall[n])
        BY <1>1 DEF Turned, Deleted
  <2>3. \A m \in Changing(j)' : m \in ListCalls \ {n} /\ listCall'[m] = listCall[m]
        BY <1>4, <2>1, AskedChanging
  <2> QED
      BY <1>1, <2>1, <2>2, <2>3, FitsStays
<1> QED
    BY <1>6, <1>7, <1>8 DEF ChangeInv

LEMMA ListServed ==
    ASSUME ListInv, NEW n \in ListCalls, ServeList(n)
    PROVE  ListSafe'
<1> USE DEF ListInv, ListSafe
<1> DEFINE c == [listCall[n] EXCEPT !.step = "served", !.answer = Shown, !.clean = Items]
<1>1. /\ listCall[n].kind = "load" /\ listCall[n].step = "sent" /\ listCall[n] \in ListCall
      /\ UNCHANGED <<items, subscribed, doubt>>
      BY DEF ServeList, Serving, ListTypeOK, page, server
<1>2. /\ c \in ListCall /\ c.kind = "load" /\ c.step = "served" /\ c.answer = Shown
      /\ c.clean = Items /\ listCall' = [listCall EXCEPT ![n] = c]
      BY <1>1, ShownType DEF ListCall, ServeList, ListTypeOK
<1> HIDE DEF c
<1>3. listCall'[n] = c /\ \A k \in ListCalls \ {n} : listCall'[k] = listCall[k]
      BY <1>2, CallGoesOn
<1>4. ASSUME NEW j \in Items PROVE Fits(j)'
  <2>1. Changing(j)' = Changing(j) /\ \A m \in Changing(j) : listCall'[m] = listCall[m]
        BY <1>1, <1>2, <1>3 DEF Changing, Under
  <2> QED
      BY <1>1, <2>1, FitsStays
<1>5. OneEach'
      BY <1>2, <1>3 DEF OneEach, Under
<1>6. CleanInv'
  <2> SUFFICES ASSUME NEW k \in Under(listCall', {"load"}), NEW j \in listCall'[k].clean,
                      listCall'[k].step = "served"
               PROVE  listCall'[k].answer[j].switch = AsShown(subscribed[j])
      BY <1>1 DEF CleanInv
  <2>1. CASE k = n
        BY <1>2, <1>3, <2>1, ShownType
  <2>2. CASE k # n
        BY <1>3, <2>2 DEF CleanInv, Under
  <2> QED
      BY <2>1, <2>2
<1> QED
    BY <1>4, <1>5, <1>6 DEF ChangeInv

\* The server does what it is asked, once.
LEMMA ChangeServed ==
    ASSUME ListInv, NEW n \in ListCalls, NEW i \in Items, ServeChange(n, i)
    PROVE  ListSafe'
<1> USE DEF ListInv, ListSafe
<1> DEFINE c == listCall[n]
<1>1. /\ c.kind \in {"toggle", "remove", "add"} /\ c.of = {i} /\ c.step = "sent" /\ items' = items
      BY DEF ServeChange, page
<1>2. /\ listCall'[n].step = IF Applies(c, i) THEN "served" ELSE "failed"
      /\ \A k \in ListCalls :
             /\ listCall'[k].kind = listCall[k].kind /\ listCall'[k].of = listCall[k].of
             /\ listCall'[k].held = listCall[k].held /\ listCall'[k].before = listCall[k].before
             /\ k # n => listCall'[k].step = listCall[k].step
             /\ listCall'[k].answer = listCall[k].answer
             /\ listCall'[k].clean \subseteq listCall[k].clean
             /\ Applies(c, i) => i \notin listCall'[k].clean
      BY ServeChangeCalls
<1>3. /\ Applies(c, i) =>
             /\ subscribed' = [subscribed EXCEPT ![i] =
                    CASE c.kind = "toggle" -> Other(c.before)
                      [] c.kind = "remove" -> "deleted"
                      [] c.kind = "add" -> "on"]
             /\ doubt' = IF Unseen(c) THEN doubt \union {i} ELSE doubt
      /\ ~Applies(c, i) => UNCHANGED <<subscribed, doubt>>
      BY DEF ServeChange
<1>4. /\ \A j \in Items \ {i} : subscribed'[j] = subscribed[j]
      /\ \A j \in doubt : j \in doubt'
      BY <1>3 DEF ListTypeOK
<1>5. \A j \in Items : Changing(j)' = Changing(j)
      BY <1>2 DEF Changing, Under
<1>6. n \in Changing(i)
      BY <1>1 DEF Changing, Under
<1>7. OneEach'
      BY <1>2 DEF OneEach, Under
<1>8. CleanInv'
  <2>1. ASSUME NEW k \in Under(listCall', {"load"}), NEW j \in listCall'[k].clean
        PROVE  j \in Items /\ subscribed'[j] = subscribed[j]
    <3>1. j \in listCall[k].clean /\ j \in Items
          BY <1>2, <2>1 DEF Under, ListTypeOK, ListCall
    <3>2. j = i => ~Applies(c, i)
          BY <1>2, <2>1 DEF Under
    <3> QED
        BY <1>3, <1>4, <3>1, <3>2
  <2>2. \A k \in Under(listCall', {"load"}) : k # n
        BY <1>1, <1>2 DEF Under
  <2> QED
      BY <1>2, <2>1, <2>2, CleanStays DEF Under
<1>9. ASSUME NEW j \in Items, j # i PROVE Fits(j)'
  <2>1. n \notin Changing(j)
        BY <1>1, <1>9 DEF Changing
  <2>2. \A m \in Changing(j) : m \in ListCalls /\ m # n
        BY <2>1, AskedChanging
  <2> QED
      BY <1>1, <1>2, <1>4, <1>5, <1>9, <2>2, FitsStays DEF Turned, Deleted
<1>10. Fits(i) /\ subscribed[i] \in Stored
       BY DEF ChangeInv, ListTypeOK
<1>11. ASSUME ~Applies(c, i) PROVE Fits(i)'
  <2>1. ~Deleted(c) /\ ~Deleted(listCall'[n])
        BY <1>1, <1>2, <1>11 DEF Deleted
  <2>2. CASE i \in doubt
    <3>1. \A m \in Changing(i) : Deleted(listCall'[m]) => Deleted(listCall[m])
          BY <1>2, <2>1, AskedChanging DEF Deleted
    <3> QED
        BY <1>3, <1>4, <1>5, <1>10, <1>11, <2>2, <3>1 DEF Fits
  <2>3. CASE i \notin doubt
    <3>1. ~Turned(c)
      <4> SUFFICES ASSUME Turned(c) PROVE FALSE
          OBVIOUS
      <4>1. subscribed[i] \in {"on", "off"}
            BY <1>1, <1>6, <1>10, <2>3 DEF Fits, Follows
      <4> QED
          BY <1>11, <4>1 DEF Applies, Present, Turned
    <3>2. ~Turned(listCall'[n])
          BY <1>2, <3>1 DEF Turned
    <3>3. \A m \in Changing(i) : m # n => m \in ListCalls \ {n}
          BY AskedChanging
    <3> QED
        BY <1>1, <1>2, <1>3, <1>5, <1>11, <2>1, <3>1, <3>2, <3>3, FitsStays DEF Turned, Deleted
  <2> QED
      BY <2>2, <2>3
<1>12. ASSUME Applies(c, i) PROVE Fits(i)'
  <2>1. /\ c.kind = "toggle" => subscribed'[i] = Other(c.before)
        /\ c.kind = "remove" => subscribed'[i] = "deleted"
        /\ subscribed[i] # "deleted"
        BY <1>3, <1>12 DEF ListTypeOK, Applies, Present
  <2>2. \A m \in Changing(i) : ~Deleted(listCall[m])
        BY <1>10, <2>1 DEF Fits
  <2>3. ASSUME NEW m \in Changing(i)', Deleted(listCall'[m]) PROVE subscribed'[i] = "deleted"
    <3>1. m = n
          BY <1>2, <1>5, <2>2, <2>3, AskedChanging DEF Deleted
    <3> QED
        BY <1>2, <2>1, <2>3, <3>1 DEF Deleted
  <2>4. ASSUME i \notin doubt'
        PROVE  /\ \A m \in Changing(i)' : Turned(listCall'[m]) =>
                     /\ \A k \in Changing(i)' : k = m
                     /\ Follows(listCall'[m], items'[i].switch, subscribed'[i])
               /\ \/ items'[i].switch = AsShown(subscribed'[i])
                  \/ \E m \in Changing(i)' : Turned(listCall'[m]) \/ Deleted(listCall'[m])
    <3>1. i \notin doubt /\ ~Unseen(c)
          BY <1>3, <1>4, <1>12, <2>4
    <3>2. c.kind = "remove" \/ Turned(c)
          BY <1>1, <3>1 DEF Unseen, Turned
    <3>3. ASSUME NEW m \in Changing(i), Turned(listCall'[m])
          PROVE  /\ \A k \in Changing(i) : k = m
                 /\ Follows(listCall'[m], items[i].switch, subscribed'[i])
      <4>1. Turned(listCall[m])
            BY <1>2, <3>3, AskedChanging DEF Turned
      <4>2. (\A k \in Changing(i) : k = m) /\ Follows(listCall[m], items[i].switch, subscribed[i])
            BY <1>10, <3>1, <4>1 DEF Fits
      <4>3. m = n /\ c.kind = "toggle"
            BY <1>6, <4>1, <4>2 DEF Turned
      <4> QED
          BY <1>1, <1>2, <1>12, <2>1, <4>2, <4>3 DEF Follows
    <3>4. Turned(listCall'[n]) \/ Deleted(listCall'[n])
          BY <1>2, <1>12, <3>2 DEF Turned, Deleted
    <3> QED
        BY <1>1, <1>5, <1>6, <3>3, <3>4
  <2> QED
      BY <2>3, <2>4 DEF Fits
<1>13. Fits(i)'
       BY <1>11, <1>12
<1> QED
    BY <1>7, <1>8, <1>9, <1>13 DEF ChangeInv

\* A page that does not hear that it was done may be wrong.
LEMMA RequestLost ==
    ASSUME ListInv, NEW n \in ListCalls, RequestFails(n)
    PROVE  ListSafe'
<1> USE DEF ListInv, ListSafe
<1> DEFINE c == listCall[n]
           d == [c EXCEPT !.step = "failed"]
<1>1. /\ c.step \in {"sent", "served"} /\ c \in ListCall
      /\ UNCHANGED <<items, subscribed>>
      /\ doubt' = IF Misses(c) THEN doubt \union c.of ELSE doubt
      BY DEF RequestFails, ListTypeOK, ListCall, page, server
<1>2. /\ d \in ListCall /\ d.kind = c.kind /\ d.step = "failed" /\ d.clean = c.clean
      /\ d.held = c.held /\ d.before = c.before /\ d.of = c.of
      /\ listCall' = [listCall EXCEPT ![n] = d]
      BY <1>1 DEF ListCall, ListTypeOK, RequestFails
<1> HIDE DEF d
<1>3. listCall'[n] = d /\ \A k \in ListCalls \ {n} : listCall'[k] = listCall[k]
      BY <1>2, CallGoesOn
<1>4. \A j \in Items : Changing(j)' = Changing(j)
      BY <1>2, <1>3 DEF Changing, Under
<1>5. OneEach'
      BY <1>2, <1>3 DEF OneEach, Under
<1>6. CleanInv'
      BY <1>1, <1>2, <1>3, CleanStays DEF Under
<1>7. ASSUME NEW j \in Items PROVE Fits(j)'
  <2>1. \A m \in Changing(j) : m # n => listCall'[m] = listCall[m]
        BY <1>3, AskedChanging
  <2>2. Fits(j)
        BY DEF ChangeInv
  <2>3. CASE n \notin Changing(j)
    <3>1. \A m \in Changing(j) : listCall'[m] = listCall[m]
          BY <2>1, <2>3
    <3> QED
        BY <1>1, <1>4, <3>1, FitsStays
  <2>4. CASE n \in Changing(j) /\ Misses(c)
    <3>1. j \in doubt'
          BY <1>1, <2>4 DEF Changing
    <3>2. \A m \in Changing(j) : Deleted(listCall'[m]) => Deleted(listCall[m])
          BY <1>2, <1>3, <2>1 DEF Deleted
    <3> QED
        BY <1>1, <1>4, <2>2, <3>1, <3>2 DEF Fits
  <2>5. CASE n \in Changing(j) /\ ~Misses(c) /\ Turned(c)
    <3>1. c.step = "sent" /\ c.kind = "toggle" /\ d.kind = "toggle" /\ d.held
          BY <1>1, <1>2, <2>5 DEF Misses, Turned
    <3>2. \A m \in Changing(j) : Deleted(listCall'[m]) => Deleted(listCall[m])
          BY <1>2, <1>3, <2>1 DEF Deleted
    <3>3. ASSUME j \notin doubt'
          PROVE  (\A m \in Changing(j) : m = n) /\ Follows(d, items[j].switch, subscribed[j])
          BY <1>1, <1>2, <2>2, <2>5, <3>1, <3>3 DEF Fits, Follows
    <3> QED
        BY <1>1, <1>3, <1>4, <2>2, <2>5, <3>1, <3>2, <3>3 DEF Fits, Turned
  <2>6. CASE n \in Changing(j) /\ ~Misses(c) /\ ~Turned(c)
    <3>1. ~Deleted(c) /\ ~Turned(d) /\ ~Deleted(d)
          BY <1>2, <2>6 DEF Misses, Turned, Deleted
    <3>2. \A m \in Changing(j) : Turned(listCall[m]) \/ Deleted(listCall[m]) => listCall'[m] = listCall[m]
          BY <2>1, <2>6, <3>1
    <3>3. \A m \in Changing(j)' :
              Turned(listCall'[m]) \/ Deleted(listCall'[m]) => Turned(listCall[m]) \/ Deleted(listCall[m])
          BY <1>3, <1>4, <2>1, <3>1
    <3> QED
        BY <1>1, <1>4, <3>2, <3>3, FitsStays
  <2> QED
      BY <2>3, <2>4, <2>5, <2>6
<1> QED
    BY <1>5, <1>6, <1>7 DEF ChangeInv

LEMMA ListStep == ListInv /\ [ListNext]_listVars => ListInv'
<1> SUFFICES ASSUME ListInv, [ListNext]_listVars PROVE ListInv'
    OBVIOUS
<1>1. ListTypeOK' /\ TimerInv'
      BY ListTypeStep, ListTimerStep DEF ListInv
<1>2. ASSUME NEW n \in ListCalls, ListMount(n) \/ PressRefresh(n) \/ RefreshFires(n) PROVE ListSafe'
  <2>1. /\ \E background \in BOOLEAN : BeginLoad(listCall, n, background)
        /\ UNCHANGED <<items, subscribed, doubt>>
        BY <1>2 DEF ListMount, PressRefresh, RefreshFires, server
  <2> QED
      BY <2>1, LoadBegins
<1>3. ASSUME NEW n \in ListCalls, NEW i \in Items, Toggle(n, i) \/ Remove(n, i) \/ Add(n, i)
      PROVE  ListSafe'
  <2>1. UNCHANGED subscribed
        BY <1>3 DEF Toggle, Remove, Add, server
  <2> QED
      BY <1>3, <2>1, ChangeBegins
<1>4. ASSUME ListLeave \/ (\E i \in Items : Initialize(i)) \/ UNCHANGED listVars PROVE ListSafe'
  <2>1. UNCHANGED <<items, listCall, subscribed, doubt>>
        BY <1>4 DEF ListLeave, Initialize, listVars, page, server
  <2>2. OneEach' /\ CleanInv' /\ \A j \in Items : Changing(j)' = Changing(j)
        BY <2>1 DEF ListInv, ListSafe, OneEach, CleanInv, AsShown, Changing, Under
  <2>3. ASSUME NEW j \in Items PROVE Fits(j)'
        BY <2>1, <2>2, FitsStays
  <2> QED
      BY <2>2, <2>3 DEF ListSafe, ChangeInv
<1>5. ASSUME NEW n \in ListCalls, ListAnswered(n) \/ ServeList(n) \/ RequestFails(n) PROVE ListSafe'
      BY <1>5, ListLoadArrives, ChangeArrives, AddArrives, ListServed, RequestLost DEF ListAnswered
<1>6. ASSUME NEW n \in ListCalls, NEW i \in Items, ServeChange(n, i) PROVE ListSafe'
      BY <1>6, ChangeServed
<1>7. ListSafe'
      BY <1>2, <1>3, <1>4, <1>5, <1>6 DEF ListNext
<1> QED
    BY <1>1, <1>7 DEF ListInv

(* Once nothing is being asked of a subscription, its switch shows what    *)
(* the server has, whatever was refused or lost and whatever loads and     *)
(* changes were under way, for every number of them; what was left out of  *)
(* the property comes back to it with the next load that the server serves *)
(* after its last change.                                                  *)
THEOREM SwitchesFollow == ListSpec => []SwitchShowsServer
<1>1. ListInit => ListInv
  <2> SUFFICES ASSUME ListInit PROVE ListInv
      OBVIOUS
  <2>1. ListTypeOK
    <3>1. attempts \in 0 .. MaxAttempts
          BY SubscriptionsAssumption DEF ListInit
    <3> QED
        BY <3>1, ListTypes DEF ListInit, ListTypeOK, Stored, Switch
  <2>2. /\ TimerInv /\ doubt = Items
        /\ \A kinds \in {{"load"}, {"toggle", "remove", "add"}} : Under(listCall, kinds) = {}
        BY ListTypes DEF ListInit, TimerInv, Under
  <2> QED
      BY <2>1, <2>2 DEF ListInv, ListSafe, OneEach, CleanInv, ChangeInv, Fits, Changing
<1>2. ListInv => SwitchShowsServer
      BY SwitchShown DEF ListInv, ListSafe
<1> QED
    BY <1>1, <1>2, ListStep, PTL DEF ListSpec

=============================================================================
