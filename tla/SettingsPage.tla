---------------------------- MODULE SettingsPage ----------------------------
(***************************************************************************)
(* The settings page (web/src/views/SettingsView.vue): the dialog that     *)
(* shows a QR code and polls for what became of it, beside the forms whose *)
(* requests share its `busy`; with what the server and the phone do to the *)
(* codes (internal/app/bilibili_qr.go; QRLogin has the server in full).    *)
(*                                                                         *)
(* Code between two awaits is one step.  A request is sent, served and     *)
(* answered, or it fails at any point; its answer runs the rest of the     *)
(* function that sent it, whether or not the page is still there.          *)
(*                                                                         *)
(* Operators named Faulty... are wrong versions of the operator that       *)
(* follows them, substituted for it to see that a property notices.        *)
(***************************************************************************)
EXTENDS Naturals

CONSTANTS
    MaxCodes,     \* bound: codes the server opens
    MaxCalls,     \* bound: requests of the page at one time
    MaxUpsets     \* bound: forms submitted, requests that fail, restarts of the server

ASSUME SettingsAssumption == {MaxCodes, MaxCalls, MaxUpsets} \subseteq Nat

Codes == 1 .. MaxCodes
NoCode == 0
Slots == 1 .. MaxCalls

\* saveCookie, logoutBilibili, saveBark, testBark, by the name `busy` has for them
Forms == {"cookie", "bili-logout", "bark", "test"}

VARIABLES
    \* the page
    settingsPage,   \* "away", "shown" or "left": mounted once at most
    qrOpen,
    qrSession,
    qrStatus,       \* the message the dialog shows: "fine" or what is wrong
    pollTimer,
    busy,
    qrCall,         \* qrCall[n]: the requests under way
    \* the server and the phone
    phoneState,     \* phoneState[c]: what Bilibili says of code c
    qrListed,       \* App.qrSessions of the user
    upsets,
    \* history, read by no action of the code
    leftBusy        \* the page was left with a request of the dialog under way

dialog == <<qrOpen, qrSession, qrStatus, pollTimer, busy>>
codes  == <<phoneState, qrListed, upsets>>
settingsVars == <<settingsPage, dialog, qrCall, codes, leftBusy>>

\* again: closeQR().then(startQR); code: of the request, or of the answer to start
NoQRCall == [kind |-> "none", again |-> FALSE, code |-> NoCode, answer |-> "none"]

Trouble == {"expired", "gone", "failed"}
Answers == Trouble \union {"ok", "waiting", "scanned", "success"}

QRCall == [kind : {"none", "start", "poll", "close"} \union Forms, again : BOOLEAN,
           code : Codes \union {NoCode}, answer : Answers \union {"none"}]

SettingsTypeOK ==
    /\ settingsPage \in {"away", "shown", "left"}
    /\ qrOpen \in BOOLEAN
    /\ qrSession \in Codes \union {NoCode}
    /\ qrStatus \in Trouble \union {"fine"}
    /\ pollTimer \in BOOLEAN
    /\ busy \in {"", "qr"} \union Forms
    /\ qrCall \in [Slots -> QRCall]
    /\ phoneState \in [Codes -> {"none", "waiting", "scanned", "confirmed", "expired"}]
    /\ qrListed \subseteq {c \in Codes : phoneState[c] # "none"}
    /\ upsets \in Nat
    /\ leftBusy \in BOOLEAN

\* request, in the first free slot
Begin(call, n, kind, again, code) ==
    /\ \A k \in Slots : k <= n => (call[k].kind = "none" <=> k = n)
    /\ qrCall' = [call EXCEPT ![n] = [NoQRCall EXCEPT !.kind = kind, !.again = again, !.code = code]]

Done(n) == [qrCall EXCEPT ![n] = NoQRCall]

-----------------------------------------------------------------------------
(* What the user does                                                      *)

\* onMounted
SettingsMount ==
    /\ settingsPage = "away"
    /\ settingsPage' = "shown"
    /\ UNCHANGED <<dialog, qrCall, codes, leftBusy>>

\* What is behind an open dialog cannot be pressed.
Behind == settingsPage = "shown" /\ ~qrOpen

\* startQR, up to its request
StartQR(call, n) ==
    /\ busy' = "qr"
    /\ qrStatus' = "fine"
    /\ Begin(call, n, "start", FALSE, NoCode)

PressStart(n) ==
    /\ Behind
    /\ busy # "qr"
    /\ StartQR(qrCall, n)
    /\ UNCHANGED <<settingsPage, qrOpen, qrSession, pollTimer, codes, leftBusy>>

\* Each button heeds only its own name, and the last one pressed is busy.
PressForm(n, form) ==
    /\ Behind
    /\ busy # form
    /\ upsets < MaxUpsets
    /\ upsets' = upsets + 1
    /\ busy' = form
    /\ Begin(qrCall, n, form, FALSE, NoCode)
    /\ UNCHANGED <<settingsPage, qrOpen, qrSession, qrStatus, pollTimer, phoneState,
                   qrListed, leftBusy>>

\* closeQR: the backdrop or the cross (again = FALSE); "重新生成" (again = TRUE),
\* which is there when the message has 过期 or 失败 in it.
CloseQR(n, again) ==
    /\ settingsPage = "shown"
    /\ qrOpen
    /\ again => qrStatus \in {"expired", "failed"}
    /\ pollTimer' = FALSE
    /\ qrOpen' = FALSE
    /\ qrSession' = NoCode
    /\ IF qrSession # NoCode
         THEN Begin(qrCall, n, "close", again, qrSession) /\ UNCHANGED <<qrStatus, busy>>
         ELSE IF again
                THEN StartQR(qrCall, n)
                ELSE UNCHANGED <<qrStatus, busy, qrCall>>
    /\ UNCHANGED <<settingsPage, codes, leftBusy>>

OfTheDialog(c) == c.kind \in {"start", "poll"} \/ (c.kind = "close" /\ c.again)

\* onBeforeUnmount: qrOpen and qrSession stay.
SettingsLeave(n) ==
    /\ settingsPage = "shown"
    /\ settingsPage' = "left"
    /\ pollTimer' = FALSE
    /\ leftBusy' = (\E k \in Slots : OfTheDialog(qrCall[k]))
    /\ IF qrSession # NoCode
         THEN Begin(qrCall, n, "close", FALSE, qrSession)
         ELSE UNCHANGED qrCall
    /\ UNCHANGED <<qrOpen, qrSession, qrStatus, busy, codes>>

-----------------------------------------------------------------------------
(* The timer and the answers                                               *)

\* pollQR asks nothing when the dialog is closed.
FaultyWantsPoll == qrSession # NoCode

WantsPoll == qrOpen /\ qrSession # NoCode

TimerFires(n) ==
    /\ pollTimer
    /\ pollTimer' = FALSE
    /\ IF WantsPoll
         THEN Begin(qrCall, n, "poll", FALSE, qrSession)
         ELSE UNCHANGED qrCall
    /\ UNCHANGED <<settingsPage, qrOpen, qrSession, qrStatus, busy, codes, leftBusy>>

\* startQR, the rest; drawing the code is taken to work.
StartAnswered(n) ==
    /\ qrCall[n].kind = "start"
    /\ qrCall[n].answer # "none"
    /\ busy' = ""
    /\ qrCall' = Done(n)
    /\ IF qrCall[n].answer = "ok"
         THEN /\ qrSession' = qrCall[n].code
              /\ qrStatus' = "fine"
              /\ qrOpen' = TRUE
              /\ pollTimer' = TRUE
         ELSE /\ qrOpen' = FALSE
              /\ UNCHANGED <<qrSession, qrStatus, pollTimer>>
    /\ UNCHANGED <<settingsPage, codes, leftBusy>>

\* pollQR, the rest: after which answers it goes on
FaultyGoesOn == {"waiting", "gone", "failed"}

GoesOn == {"waiting", "scanned", "gone", "failed"}

PollAnswered(n) ==
    LET answer == qrCall[n].answer IN
    /\ qrCall[n].kind = "poll"
    /\ answer # "none"
    /\ qrStatus' = IF answer \in Trouble THEN answer ELSE "fine"
    /\ pollTimer' = (answer \in GoesOn)
    /\ qrOpen' = (qrOpen /\ answer # "success")
    /\ qrSession' = IF answer = "success" THEN NoCode ELSE qrSession
    /\ qrCall' = Done(n)
    /\ UNCHANGED <<settingsPage, busy, codes, leftBusy>>

\* closeQR, the rest, and startQR after it: the page may have been left.
CloseAnswered(n) ==
    /\ qrCall[n].kind = "close"
    /\ qrCall[n].answer # "none"
    /\ IF qrCall[n].again
         THEN StartQR(Done(n), n)
         ELSE qrCall' = Done(n) /\ UNCHANGED <<qrStatus, busy>>
    /\ UNCHANGED <<settingsPage, qrOpen, qrSession, pollTimer, codes, leftBusy>>

FormAnswered(n) ==
    /\ qrCall[n].kind \in Forms
    /\ qrCall[n].answer # "none"
    /\ busy' = ""
    /\ qrCall' = Done(n)
    /\ UNCHANGED <<settingsPage, qrOpen, qrSession, qrStatus, pollTimer, codes, leftBusy>>

Answered(n) ==
    StartAnswered(n) \/ PollAnswered(n) \/ CloseAnswered(n) \/ FormAnswered(n)

-----------------------------------------------------------------------------
(* The server, the network and the phone                                   *)

Reply(n, answer) == qrCall' = [qrCall EXCEPT ![n].answer = answer]

Waits(n, kind) == qrCall[n].kind = kind /\ qrCall[n].answer = "none"

\* startBilibiliQRHandler: the session there is, or a new one
ServeStart(n) ==
    /\ Waits(n, "start")
    /\ LET active == {c \in qrListed : phoneState[c] # "expired"}
           unused == {c \in Codes : phoneState[c] = "none"}
       IN
       IF active # {}
         THEN /\ \E c \in active :
                     qrCall' = [qrCall EXCEPT ![n].answer = "ok", ![n].code = c]
              /\ UNCHANGED codes
         ELSE IF unused = {}
                THEN Reply(n, "failed") /\ UNCHANGED codes
                ELSE LET c == CHOOSE c \in unused : \A d \in unused : c <= d IN
                     /\ qrCall' = [qrCall EXCEPT ![n].answer = "ok", ![n].code = c]
                     /\ phoneState' = [phoneState EXCEPT ![c] = "waiting"]
                     /\ qrListed' = {c}
                     /\ UNCHANGED upsets
    /\ UNCHANGED <<settingsPage, dialog, leftBusy>>

\* pollBilibiliQRHandler; a confirmed login is saved, and its session removed.
ServePoll(n) ==
    /\ Waits(n, "poll")
    /\ LET c == qrCall[n].code IN
       IF c \notin qrListed
         THEN Reply(n, "gone") /\ UNCHANGED codes
         ELSE \/ phoneState[c] \in {"waiting", "scanned"} /\ Reply(n, phoneState[c]) /\ UNCHANGED codes
              \/ /\ phoneState[c] \in {"confirmed", "expired"}
                 /\ Reply(n, IF phoneState[c] = "confirmed" THEN "success" ELSE "expired")
                 /\ qrListed' = qrListed \ {c}
                 /\ UNCHANGED <<phoneState, upsets>>
    /\ UNCHANGED <<settingsPage, dialog, leftBusy>>

\* cancelBilibiliQRHandler; among the forms, that of deleteBilibiliHandler ends them
\* all.  The page does not ask whether they worked: they may fail.
ServeOthers(n) ==
    /\ \/ Waits(n, "close") /\ qrListed' \in {qrListed, qrListed \ {qrCall[n].code}}
       \/ Waits(n, "bili-logout") /\ qrListed' \in {qrListed, {}}
       \/ (\E form \in Forms \ {"bili-logout"} : Waits(n, form)) /\ UNCHANGED qrListed
    /\ Reply(n, "ok")
    /\ UNCHANGED <<settingsPage, dialog, phoneState, upsets, leftBusy>>

\* An error of the server or of Bilibili, or a connection that breaks, before
\* the request is served or after.
Fails(n) ==
    /\ qrCall[n].kind \in {"start", "poll"}
    /\ qrCall[n].answer # "failed"
    /\ upsets < MaxUpsets
    /\ upsets' = upsets + 1
    /\ Reply(n, "failed")
    /\ UNCHANGED <<settingsPage, dialog, phoneState, qrListed, leftBusy>>

\* The phone reads the code that is shown; what it does about it takes time.
Scan(c) ==
    /\ c \in qrListed \union {qrSession}
    /\ settingsPage = "shown"
    /\ \/ phoneState[c] = "waiting" /\ phoneState' = [phoneState EXCEPT ![c] = "scanned"]
       \/ phoneState[c] = "scanned" /\ phoneState' = [phoneState EXCEPT ![c] = "confirmed"]
       \/ /\ phoneState[c] \in {"waiting", "scanned"}
          /\ phoneState' = [phoneState EXCEPT ![c] = "expired"]
    /\ UNCHANGED <<settingsPage, dialog, qrCall, qrListed, upsets, leftBusy>>

\* Sessions are kept in memory.
Restart ==
    /\ upsets < MaxUpsets
    /\ upsets' = upsets + 1
    /\ qrListed' = {}
    /\ UNCHANGED <<settingsPage, dialog, qrCall, phoneState, leftBusy>>

-----------------------------------------------------------------------------
(* The specification                                                       *)

SettingsInit ==
    /\ settingsPage = "away"
    /\ qrOpen = FALSE
    /\ qrSession = NoCode
    /\ qrStatus = "fine"
    /\ pollTimer = FALSE
    /\ busy = ""
    /\ qrCall = [n \in Slots |-> NoQRCall]
    /\ phoneState = [c \in Codes |-> "none"]
    /\ qrListed = {}
    /\ upsets = 0
    /\ leftBusy = FALSE

SettingsNext ==
    \/ SettingsMount \/ Restart
    \/ \E c \in Codes : Scan(c)
    \/ \E n \in Slots :
          \/ PressStart(n) \/ SettingsLeave(n)
          \/ \E form \in Forms : PressForm(n, form)
          \/ \E again \in BOOLEAN : CloseQR(n, again)
          \/ TimerFires(n) \/ Answered(n)
          \/ ServeStart(n) \/ ServePoll(n) \/ ServeOthers(n) \/ Fails(n)

PollIsDue == \E n \in Slots : TimerFires(n)

Settles(n) == ServeStart(n) \/ ServePoll(n) \/ ServeOthers(n) \/ Answered(n)

\* Timers run out, and fetch settles: routes answer within 35 seconds (app.go)
\* or the connection fails.  Nobody has to press or scan anything.
SettingsFairness ==
    /\ WF_settingsVars(PollIsDue)
    /\ \A n \in Slots : WF_settingsVars(Settles(n))

SettingsSpec == SettingsInit /\ [][SettingsNext]_settingsVars /\ SettingsFairness

-----------------------------------------------------------------------------
(* Properties                                                              *)

(***************************************************************************)
(* A login confirmed on the phone while the dialog shows its code is       *)
(* noticed: the dialog closes or says that the code has expired, is gone,  *)
(* or that asking failed; whatever older polls, closings and starts answer *)
(* meanwhile.  It never waits without asking (pollQR, schedulePoll,        *)
(* stopPolling; SettingsView.vue:27-50).                                   *)
(***************************************************************************)
ConfirmedLoginIsNoticed ==
    LET Confirmed == qrOpen /\ qrSession # NoCode /\ phoneState[qrSession] = "confirmed" IN
    Confirmed ~> ~Confirmed \/ qrStatus \in Trouble \/ settingsPage = "left"

Silent == ~pollTimer /\ \A n \in Slots : qrCall[n].kind # "poll"

(***************************************************************************)
(* Once the dialog stays closed, and once the page is left, polling comes  *)
(* to an end: by the guard of pollQR, or by onBeforeUnmount.  It does not  *)
(* when the page is left while a poll or a start is under way, whose       *)
(* answer sets the timer of a dialog that qrOpen says is still there       *)
(* (SettingsView.vue:40, 56).                                              *)
(***************************************************************************)
ClosedDialogFallsSilent ==
    <>[](~qrOpen \/ (settingsPage = "left" /\ ~leftBusy)) => <>[]Silent
=============================================================================
