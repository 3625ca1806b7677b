----------------------------- MODULE AdminPage -----------------------------
(***************************************************************************)
(* The administration page (web/src/views/AdminView.vue): three dialogs,   *)
(* two of which share one password field, a form for the schedule that     *)
(* every load writes over, and `saving`, which the submit buttons share.   *)
(*                                                                         *)
(* Code between two awaits is one step.                                    *)
(*                                                                         *)
(* Operators named Faulty... are wrong versions of the operator that       *)
(* follows them, substituted for it to see that a property notices.        *)
(***************************************************************************)
EXTENDS Naturals

CONSTANTS
    Others,       \* users who are not administrators
    Nobody,
    NewUser,      \* the one that the form of add describes
    MaxActs       \* bound: things the administrator does

ASSUME AdminAssumption ==
    /\ Nobody \notin Others
    /\ NewUser \notin Others \union {Nobody}
    /\ MaxActs \in Nat

VARIABLES
    shownDialog,    \* showAdd, resetUser, removingUser: one at a time, by the backdrop
    password,       \* whom the password in the field was typed for
    confirmation,   \* whose name is typed into deleteConfirmation
    draft,          \* the schedule in the form: "server" or "edited"
    submitting,     \* saving
    adminCall,      \* the request of a submit button under way
    changes,        \* requests of the buttons that switch a user on and off
    reloads,        \* loads under way, but the one of adminCall
    acts

adminVars == <<shownDialog, password, confirmation, draft, submitting, adminCall,
               changes, reloads, acts>>

Dialog == [kind : {"none", "add", "reset", "remove"}, user : Others \union {Nobody}]

AdminCall ==
    [kind : {"none", "add", "reset", "remove", "schedule", "load"},
     user : Others \union {Nobody}, typed : Others \union {NewUser, Nobody}]

NoDialog == [kind |-> "none", user |-> Nobody]
NoAdminCall == [kind |-> "none", user |-> Nobody, typed |-> Nobody]

AdminTypeOK ==
    /\ shownDialog \in Dialog
    /\ password \in Others \union {NewUser, Nobody}
    /\ confirmation \in Others \union {Nobody}
    /\ draft \in {"server", "edited"}
    /\ submitting \in BOOLEAN
    /\ adminCall \in AdminCall
    /\ submitting <=> adminCall.kind # "none"
    /\ {changes, reloads, acts} \subseteq Nat

Act == acts < MaxActs /\ acts' = acts + 1

\* The three buttons that open a dialog: the password is emptied for a reset, the
\* confirmation for a removal, nothing for a new user.
FaultyEmptied(kind) == kind = "add"

Emptied(kind) == kind = "reset"

OpenDialog(kind, u) ==
    /\ Act
    /\ shownDialog = NoDialog
    /\ (kind = "add") <=> (u = Nobody)
    /\ shownDialog' = [kind |-> kind, user |-> u]
    /\ password' = IF Emptied(kind) THEN Nobody ELSE password
    /\ confirmation' = IF kind = "remove" THEN Nobody ELSE confirmation
    /\ UNCHANGED <<draft, submitting, adminCall, changes, reloads>>

\* The cross, the backdrop, "取消": what was typed stays.
CloseDialog ==
    /\ shownDialog # NoDialog
    /\ shownDialog' = NoDialog
    /\ UNCHANGED <<password, confirmation, draft, submitting, adminCall, changes,
                   reloads, acts>>

TypePassword ==
    /\ shownDialog.kind \in {"add", "reset"}
    /\ password' = IF shownDialog.kind = "add" THEN NewUser ELSE shownDialog.user
    /\ UNCHANGED <<shownDialog, confirmation, draft, submitting, adminCall, changes,
                   reloads, acts>>

TypeConfirmation(u) ==
    /\ shownDialog.kind = "remove"
    /\ confirmation' = u
    /\ UNCHANGED <<shownDialog, password, draft, submitting, adminCall, changes,
                   reloads, acts>>

\* The fields of the schedule, addWorkWindow, removeWorkWindow
EditSchedule ==
    /\ shownDialog = NoDialog
    /\ draft' = "edited"
    /\ UNCHANGED <<shownDialog, password, confirmation, submitting, adminCall, changes,
                   reloads, acts>>

\* add, reset, removeUser, up to their request: the fields are required, and
\* removeUser wants the name of the user.
SubmitDialog ==
    /\ shownDialog # NoDialog
    /\ ~submitting
    /\ shownDialog.kind \in {"add", "reset"} => password # Nobody
    /\ shownDialog.kind = "remove" => confirmation = shownDialog.user
    /\ submitting' = TRUE
    /\ adminCall' = [kind |-> shownDialog.kind, user |-> shownDialog.user,
                     typed |-> IF shownDialog.kind = "remove" THEN confirmation ELSE password]
    /\ UNCHANGED <<shownDialog, password, confirmation, draft, changes, reloads, acts>>

\* saveSystem, up to its request
SaveSystem ==
    /\ Act
    /\ shownDialog = NoDialog
    /\ ~submitting
    /\ submitting' = TRUE
    /\ adminCall' = [NoAdminCall EXCEPT !.kind = "schedule"]
    /\ UNCHANGED <<shownDialog, password, confirmation, draft, changes, reloads>>

\* toggle, up to its request: nothing disables its button.
ToggleUser ==
    /\ Act
    /\ shownDialog = NoDialog
    /\ changes' = changes + 1
    /\ UNCHANGED <<shownDialog, password, confirmation, draft, submitting, adminCall, reloads>>

\* The rest of toggle; a refusal loads nothing.
SwitchAnswered ==
    /\ changes > 0
    /\ changes' = changes - 1
    /\ reloads' \in {reloads, reloads + 1}
    /\ UNCHANGED <<shownDialog, password, confirmation, draft, submitting, adminCall, acts>>

\* The rest of add, reset, removeUser and saveSystem: the dialog they came from is
\* closed if it still is the one shown, or another in its place: add closes the
\* dialog of add, reset any dialog of a reset.  Then a load, at whose end saving ends.
SubmitAnswered ==
    /\ adminCall.kind \notin {"none", "load"}
    /\ \/ /\ submitting' = FALSE
          /\ adminCall' = NoAdminCall
          /\ UNCHANGED <<shownDialog, password, confirmation>>
       \/ /\ shownDialog' = IF shownDialog.kind = adminCall.kind THEN NoDialog ELSE shownDialog
          /\ password' = IF adminCall.kind \in {"add", "reset"} THEN Nobody ELSE password
          /\ confirmation' = IF adminCall.kind = "remove" THEN Nobody ELSE confirmation
          /\ adminCall' = [NoAdminCall EXCEPT !.kind = "load"]
          /\ UNCHANGED submitting
    /\ UNCHANGED <<draft, changes, reloads, acts>>

\* The end of that load, which may fail.
SavingEnds ==
    /\ adminCall.kind = "load"
    /\ draft' \in {"server", draft}
    /\ submitting' = FALSE
    /\ adminCall' = NoAdminCall
    /\ UNCHANGED <<shownDialog, password, confirmation, changes, reloads, acts>>

\* load, the rest, on its own or after toggle; it may fail.
ReloadAnswered ==
    /\ reloads > 0
    /\ reloads' = reloads - 1
    /\ draft' \in {"server", draft}
    /\ UNCHANGED <<shownDialog, password, confirmation, submitting, adminCall, changes, acts>>

\* onMounted
AdminInit ==
    /\ shownDialog = NoDialog
    /\ password = Nobody
    /\ confirmation = Nobody
    /\ draft = "server"
    /\ submitting = FALSE
    /\ adminCall = NoAdminCall
    /\ changes = 0
    /\ reloads = 1
    /\ acts = 0

AdminNext ==
    \/ CloseDialog \/ TypePassword \/ EditSchedule \/ SubmitDialog \/ SaveSystem
    \/ ToggleUser \/ SwitchAnswered \/ SubmitAnswered \/ SavingEnds
    \/ ReloadAnswered
    \/ \E u \in Others : TypeConfirmation(u)
    \/ \E kind \in {"add", "reset", "remove"}, u \in Others \union {Nobody} :
          OpenDialog(kind, u)

AdminSpec == AdminInit /\ [][AdminNext]_adminVars

(***************************************************************************)
(* A reset gives a user a password that was typed into a dialog of that    *)
(* user, and a removal names the user it removes: not what was left in the *)
(* shared field by a dialog that was cancelled, nor by an answer that      *)
(* closed the next dialog (AdminView.vue:22-25, 36).  The form of add does *)
(* not empty the field when it opens, and so is left out.                  *)
(***************************************************************************)
TypedForItsUser ==
    adminCall.kind \in {"reset", "remove"} => adminCall.typed = adminCall.user
=============================================================================
