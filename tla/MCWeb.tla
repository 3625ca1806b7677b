------------------------------- MODULE MCWeb -------------------------------
(***************************************************************************)
(* The web interface for TLC.  RouterView shows one page at a time, and    *)
(* the pages share nothing but the session: a behaviour is of the sessions *)
(* or of one page, which `focus` names from the start, and the others      *)
(* rest.                                                                   *)
(***************************************************************************)
EXTENDS WebSession, SettingsPage, SubscriptionsPage, FollowingsDialog, HistoryPage,
        AdminPage

CONSTANTS t1, t2, alice, root, i1, i2, a1, a2

VARIABLE focus

pageVars == <<settingsVars, listVars, followVars, histVars, adminVars>>
webVars == <<focus, sessionVars, pageVars>>

WebInit ==
    /\ focus \in {"session", "settings", "subscriptions", "followings", "history", "admin"}
    /\ SessionInit /\ SettingsInit /\ ListInit /\ FollowInit /\ HistoryInit /\ AdminInit
    \* One subscription has been there for long, another is new or not there yet.
    /\ subscribed[i1] = "on" /\ i1 \in ready
    \* What rests starts in one way only.
    /\ focus # "session" => \A u \in Users : ~mustChange[u]
    /\ focus # "subscriptions" => ready = Items

WebNext ==
    /\ UNCHANGED focus
    /\ \/ /\ focus = "session" /\ SessionNext
          /\ UNCHANGED pageVars
       \/ /\ focus = "settings" /\ SettingsNext
          /\ UNCHANGED <<sessionVars, listVars, followVars, histVars, adminVars>>
       \/ /\ focus = "subscriptions" /\ ListNext
          /\ UNCHANGED <<sessionVars, settingsVars, followVars, histVars, adminVars>>
       \/ /\ focus = "followings" /\ FollowNext
          /\ UNCHANGED <<sessionVars, settingsVars, listVars, histVars, adminVars>>
       \/ /\ focus = "history" /\ HistoryNext
          /\ UNCHANGED <<sessionVars, settingsVars, listVars, followVars, adminVars>>
       \/ /\ focus = "admin" /\ AdminNext
          /\ UNCHANGED <<sessionVars, settingsVars, listVars, followVars, histVars>>

\* SettingsFairness and ListFairness: where another page is in focus they ask for
\* nothing, and naming it spares TLC the trouble of finding out.
WebFairness ==
    /\ WF_settingsVars(focus = "settings" /\ PollIsDue)
    /\ \A n \in Slots : WF_settingsVars(focus = "settings" /\ Settles(n))
    /\ WF_listVars(focus = "subscriptions" /\ RefreshIsDue)
    /\ \A n \in ListCalls : WF_listVars(focus = "subscriptions" /\ ListSettles(n))

WebSpec == WebInit /\ [][WebNext]_webVars /\ WebFairness
=============================================================================
