----------------------------- MODULE Credential -----------------------------
(***************************************************************************)
(* The stored Bilibili credentials: the columns bili_* of the table        *)
(* integrations and the table bili_refresh_tokens, the maintenance         *)
(* goroutine that checks the credential it has not checked for longest and *)
(* renews it (validateOldestCookie and refreshStoredBiliCredential of      *)
(* workers.go), the handlers that save and delete a credential             *)
(* (settings.go, saveBiliCredential of bilibili_qr.go), and what a request *)
(* or a poll does when Bilibili refuses the cookie it took                 *)
(* (recordBiliAuthError of subscriptions.go).  How a QR login comes to     *)
(* save a credential is the matter of QRLogin.                             *)
(*                                                                         *)
(* A credential is a cookie and the refresh token issued with it; its      *)
(* number stands for both, and for the ciphertext of either.  Encrypting   *)
(* draws a nonce, so no two saves store the same ciphertext.  A number     *)
(* nothing refers to any more may be given to another credential.          *)
(*                                                                         *)
(* The outcome of a call to Bilibili and the UPDATE that records it are    *)
(* one step: once refused, a cookie is refused for ever, and an error of   *)
(* another kind, possible at any time, is recorded as 'valid' like a       *)
(* success.  So the outcome may as well be drawn when it is recorded.      *)
(*                                                                         *)
(* Operators named Faulty... are wrong versions of the operator that       *)
(* follows them, substituted for it to see that a property notices.        *)
(***************************************************************************)
EXTENDS Naturals, FiniteSets

CONSTANTS
    Users,
    Cap,         \* bound: how many credentials are told apart
    Old,         \* age above which a check is due: six hours
    MaxFaults    \* bound: crashes and failed transactions

None == 0
Credentials == 1 .. Cap

\* A user refers to the stored credential and to the one in use, a renewal to two.
ASSUME CredentialAssumption ==
    /\ IsFiniteSet(Users)
    /\ Cap \in Nat /\ Cap > 2 * Cardinality(Users) + 2
    /\ Old \in Nat /\ MaxFaults \in Nat

VARIABLES
    cookie,    \* cookie[u]: bili_cookie_enc, None when ''
    token,     \* token[u]: refresh_token_enc, None without a row
    status,    \* status[u]: bili_status
    age,       \* age[u]: time since bili_last_validated, Never when NULL
    m,         \* the maintenance goroutine: where it is, and its locals
    using,     \* using[u]: cookie a request or a poll has taken, or None
    alive,     \* cookies Bilibili accepts
    faults,
    \* history, read by no action of the code
    chosen,    \* chosen[u]: the login u last chose, with what it was renewed to
    ended      \* cookies that up-update has told Bilibili to end

stored  == <<cookie, token, status, age>>
history == <<chosen, ended>>
vars    == <<stored, m, using, alive, faults, history>>

Never == Old + 2

Maintenance ==
    [step : {"idle", "info", "refresh", "save", "confirm", "validate"}, user : Users,
     cookie : Credentials, token : Credentials \union {None}, new : Credentials \union {None}]

Idle == [step |-> "idle"]

TypeOK ==
    /\ cookie \in [Users -> Credentials \union {None}]
    /\ token \in [Users -> Credentials \union {None}]
    /\ status \in [Users -> {"missing", "valid", "invalid"}]
    /\ age \in [Users -> 0 .. Never]
    /\ m \in Maintenance \union {Idle}
    /\ using \in [Users -> Credentials \union {None}]
    /\ alive \subseteq Credentials
    /\ faults \in Nat
    /\ chosen \in [Users -> SUBSET Credentials]
    /\ ended \subseteq Credentials
    /\ \A u \in Users : status[u] = "missing" => cookie[u] = None

-----------------------------------------------------------------------------
Held ==
    {cookie[u] : u \in Users} \union {token[u] : u \in Users} \union {using[u] : u \in Users}
        \union (IF m = Idle THEN {} ELSE {m.cookie, m.token, m.new})

\* A new credential; Bilibili accepts its cookie.
Issued == CHOOSE c \in Credentials : c \notin Held

\* What is known of the credentials that something still refers to
Known(accepted, choices, over) ==
    /\ alive' = accepted \intersect Held'
    /\ chosen' = [u \in Users |-> choices[u] \intersect Held']
    /\ ended' = over \intersect Held'

-----------------------------------------------------------------------------
(* The maintenance goroutine                                               *)

\* validateOldestCookie selects the credential whose check is longest due,
\* valid or not, with its token.
FaultyOverdue(u) == cookie[u] # None /\ age[u] > Old /\ status[u] = "valid"

Overdue(u) == cookie[u] # None /\ age[u] > Old

Oldest(u) == Overdue(u) /\ \A v \in Users : Overdue(v) => age[v] <= age[u]

SelectOldest(u) ==
    /\ m = Idle
    /\ Oldest(u)
    /\ m' = [step |-> IF token[u] # None THEN "info" ELSE "validate", user |-> u,
             cookie |-> cookie[u], token |-> token[u], new |-> None]
    /\ UNCHANGED <<stored, using, alive, faults, history>>

\* CookieRefreshInfo says whether Bilibili wants the credential renewed.
RefreshInfo ==
    /\ m.step = "info"
    /\ m.cookie \in alive
    /\ \E step \in {"refresh", "validate"} : m' = [m EXCEPT !.step = step]
    /\ UNCHANGED <<stored, using, alive, faults, history>>

\* recordCredentialCheck, and the end of validateOldestCookie: the outcome is
\* written to the row of the user, whatever credential is in it by now.
Verdicts(c) == IF c \in alive THEN {"valid"} ELSE {"valid", "invalid"}

RecordCheck ==
    /\ m.step \in {"info", "refresh", "validate"}
    /\ \E verdict \in Verdicts(m.cookie) : status' = [status EXCEPT ![m.user] = verdict]
    /\ age' = [age EXCEPT ![m.user] = 0]
    /\ m' = Idle
    /\ UNCHANGED <<cookie, token, using, faults>>
    /\ Known(alive, chosen, ended)

\* RefreshCookie obtains a new cookie and token.  Bilibili accepts the old
\* cookie until the renewal is confirmed; an answer that is lost changes nothing
\* and is the error that RecordCheck writes.
FaultyAfterRefresh == "confirm"

AfterRefresh == "save"

Refresh ==
    /\ m.step = "refresh"
    /\ m.cookie \in alive
    /\ m' = [m EXCEPT !.step = AfterRefresh, !.new = Issued]
    /\ UNCHANGED <<stored, using, faults>>
    /\ Known(alive \union {Issued},
             [u \in Users |-> IF m.cookie \in chosen[u] THEN chosen[u] \union {Issued} ELSE chosen[u]],
             ended)

\* The transaction of refreshStoredBiliCredential writes only if the cookie and
\* the token are still the ones that were renewed ...
FaultyStillStored == TRUE

StillStored == cookie[m.user] = m.cookie /\ token[m.user] = m.token

CommitRefresh ==
    /\ m.step = "save"
    /\ StillStored
    /\ cookie' = [cookie EXCEPT ![m.user] = m.new]
    /\ token' = [token EXCEPT ![m.user] = m.new]
    /\ status' = [status EXCEPT ![m.user] = "valid"]
    /\ age' = [age EXCEPT ![m.user] = 0]
    /\ m' = [m EXCEPT !.step = "confirm"]
    /\ UNCHANGED <<using, faults>>
    /\ Known(alive, chosen, ended)

DropRefresh ==
    /\ m.step = "save"
    /\ ~StillStored
    /\ m' = Idle
    /\ UNCHANGED <<stored, using, faults>>
    /\ Known(alive, chosen, ended)

CommitFails ==
    /\ m.step = "save"
    /\ faults < MaxFaults
    /\ faults' = faults + 1
    /\ m' = Idle
    /\ UNCHANGED <<stored, using>>
    /\ Known(alive, chosen, ended)

\* ... and only then ConfirmCookieRefresh ends the old cookie, or fails.
Confirm ==
    /\ m.step = "confirm"
    /\ m' = Idle
    /\ UNCHANGED <<stored, using, faults>>
    /\ \/ Known(alive \ {m.cookie}, chosen, ended \union {m.cookie})
       \/ Known(alive, chosen, ended)

-----------------------------------------------------------------------------
(* Requests and polls                                                      *)

Save(u, c, t) ==
    /\ cookie' = [cookie EXCEPT ![u] = c]
    /\ token' = [token EXCEPT ![u] = t]
    /\ status' = [status EXCEPT ![u] = "valid"]
    /\ age' = [age EXCEPT ![u] = 0]
    /\ UNCHANGED <<m, using, faults>>
    /\ Known(alive \union {c}, [chosen EXCEPT ![u] = {c}], ended)

\* saveBilibiliHandler, once Bilibili has accepted the cookie: there is no
\* refresh token for it.
FaultyTokenOfManual(u) == token[u]

TokenOfManual(u) == None

SaveBilibili(u) == Save(u, Issued, TokenOfManual(u))

\* saveBiliCredential, at the end of a QR login
SaveBiliCredential(u) == Save(u, Issued, Issued)

\* deleteBilibiliHandler
CookieRemoved(u) == None

DeleteBilibili(u) ==
    /\ cookie' = [cookie EXCEPT ![u] = CookieRemoved(u)]
    /\ token' = [token EXCEPT ![u] = None]
    /\ status' = [status EXCEPT ![u] = "missing"]
    /\ age' = [age EXCEPT ![u] = Never]
    /\ UNCHANGED <<m, using, faults>>
    /\ Known(alive, [chosen EXCEPT ![u] = {}], ended)

\* loadBiliCookie, or the query of getLatestVideosForPoll
LoadBiliCookie(u) ==
    /\ using[u] = None
    /\ cookie[u] # None /\ status[u] = "valid"
    /\ using' = [using EXCEPT ![u] = cookie[u]]
    /\ UNCHANGED <<stored, m, alive, faults, history>>

\* Bilibili answers, or an error that has nothing to do with the cookie occurs ...
Answered(u) ==
    /\ using[u] # None
    /\ using' = [using EXCEPT ![u] = None]
    /\ UNCHANGED <<stored, m, faults>>
    /\ Known(alive, chosen, ended)

\* ... or it refuses the cookie: recordBiliAuthError marks the row of the user,
\* whatever credential is in it by now.
RecordBiliAuthError(u) ==
    /\ using[u] # None /\ using[u] \notin alive
    /\ status' = [status EXCEPT ![u] = "invalid"]
    /\ age' = [age EXCEPT ![u] = 0]
    /\ using' = [using EXCEPT ![u] = None]
    /\ UNCHANGED <<cookie, token, m, faults>>
    /\ Known(alive, chosen, ended)

-----------------------------------------------------------------------------
(* The environment                                                         *)

\* A login ends at Bilibili: the user changed the password, or it expired.
Revoke(u) ==
    /\ cookie[u] \in alive
    /\ alive' = alive \ {cookie[u]}
    /\ UNCHANGED <<stored, m, using, faults, history>>

Crash ==
    /\ faults < MaxFaults
    /\ faults' = faults + 1
    /\ m' = Idle
    /\ using' = [u \in Users |-> None]
    /\ UNCHANGED stored
    /\ Known(alive, chosen, ended)

Tick ==
    /\ age' = [u \in Users |-> IF age[u] < Never THEN age[u] + 1 ELSE Never]
    /\ UNCHANGED <<cookie, token, status, m, using, alive, faults, history>>

Init ==
    /\ cookie = [u \in Users |-> None]
    /\ token = [u \in Users |-> None]
    /\ status = [u \in Users |-> "missing"]
    /\ age = [u \in Users |-> Never]
    /\ m = Idle
    /\ using = [u \in Users |-> None]
    /\ alive = {}
    /\ faults = 0
    /\ chosen = [u \in Users |-> {}]
    /\ ended = {}

Maintain ==
    \/ \E u \in Users : SelectOldest(u)
    \/ m # Idle /\ (\/ RefreshInfo \/ RecordCheck \/ Refresh
                    \/ CommitRefresh \/ DropRefresh \/ Confirm)

Ask(u) ==
    \/ SaveBilibili(u) \/ SaveBiliCredential(u) \/ DeleteBilibili(u)
    \/ LoadBiliCookie(u)

End(u) == Answered(u) \/ RecordBiliAuthError(u)

Next ==
    \/ Maintain
    \/ m # Idle /\ CommitFails
    \/ \E u \in Users : Ask(u) \/ End(u) \/ Revoke(u)
    \/ Crash
    \/ Tick

Spec == Init /\ [][Next]_vars

\* The ticker of the goroutine keeps firing and its calls end, time goes on, and
\* so does every request.
Fairness ==
    /\ WF_vars(Maintain) /\ WF_vars(Tick)
    /\ \A u \in Users : WF_vars(End(u))

LiveSpec == Spec /\ Fairness

-----------------------------------------------------------------------------
(* Correctness                                                             *)

(* A stored refresh token was issued with the stored cookie: neither a     *)
(* manual cookie (docs/CONFIGURATION.md:105), nor a deletion, nor a        *)
(* renewal that crosses one of them pairs a token with another login.      *)
TokenBelongsToCookie == \A u \in Users : token[u] \in {None, cookie[u]}

(* What is stored is the login the user last chose, or what it was renewed *)
(* to; nothing is stored after a deletion.  A renewal that was under way   *)
(* when the user chose another login or deleted it never comes back.       *)
StoredIsLastChoice ==
    \A u \in Users : IF chosen[u] = {} THEN cookie[u] = None ELSE cookie[u] \in chosen[u]

(* The program never tells Bilibili to end the cookie it has stored,       *)
(* wherever a crash or a failed transaction interrupts a renewal.          *)
StoredCookieIsNotEnded == \A u \in Users : cookie[u] \notin ended

(* A user whose credential keeps working is not shut out for good: however *)
(* often a late answer about an older credential has marked the row as     *)
(* invalid, a check finds it valid again.                                  *)
StatusRecovers ==
    \A u \in Users :
        <>[](cookie[u] # None /\ cookie[u] \in alive) => []<>(status[u] = "valid")

=============================================================================
