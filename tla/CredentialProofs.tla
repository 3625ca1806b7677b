-------------------------- MODULE CredentialProofs --------------------------
(***************************************************************************)
(* Theorems about Credential, for every finite set of users and bound.     *)
(***************************************************************************)
EXTENDS Credential, FiniteSetTheorems, TLAPS

\* No two users store the same credential: none is issued twice.
DistinctInv == \A u, v \in Users : cookie[u] # None /\ cookie[u] = cookie[v] => u = v

\* History is about credentials that something still refers to, so a credential
\* that is issued has none.
ReferredInv ==
    /\ \A u \in Users : chosen[u] \subseteq Held
    /\ ended \subseteq Held

\* What a renewal has in hand: the token of its cookie; until it is stored, a new
\* credential that nobody stores and that is the choice of whoever chose the old
\* one; once it is stored, an old cookie that nobody stores.
RenewalInv ==
    m # Idle =>
        /\ m.token \in {None, m.cookie}
        /\ m.step = "save" =>
               /\ m.new \in Credentials \ ended
               /\ m.new # m.cookie
               /\ \A u \in Users : /\ cookie[u] # m.new
                                   /\ m.cookie \in chosen[u] => m.new \in chosen[u]
        /\ m.step = "confirm" => \A u \in Users : cookie[u] # m.cookie

IInv ==
    /\ TypeOK /\ DistinctInv /\ ReferredInv /\ RenewalInv
    /\ TokenBelongsToCookie /\ StoredIsLastChoice /\ StoredCookieIsNotEnded

-----------------------------------------------------------------------------
(* What is referred to, and what is issued                                 *)

LEMMA SizeOfImage ==
    ASSUME NEW S, IsFiniteSet(S), NEW f, f = [x \in S |-> f[x]]
    PROVE  /\ IsFiniteSet(Range(f))
           /\ Cardinality(Range(f)) <= Cardinality(S)
<1>1. f \in Surjection(S, Range(f))
      BY DEF Surjection, Range
<1> QED
    BY <1>1, FS_Surjection

LEMMA SizeOfUnion ==
    ASSUME NEW S, IsFiniteSet(S), NEW T, IsFiniteSet(T)
    PROVE  /\ IsFiniteSet(S \union T)
           /\ Cardinality(S \union T) <= Cardinality(S) + Cardinality(T)
<1>1. /\ IsFiniteSet(S \union T) /\ IsFiniteSet(S \intersect T)
      /\ Cardinality(S \union T) = Cardinality(S) + Cardinality(T) - Cardinality(S \intersect T)
      BY FS_Union, FS_Intersection
<1>2. Cardinality(S) \in Nat /\ Cardinality(T) \in Nat /\ Cardinality(S \intersect T) \in Nat
      BY <1>1, FS_CardinalityType
<1> QED
    BY <1>1, <1>2

LEMMA SizeOfPair ==
    ASSUME NEW x, NEW y
    PROVE  IsFiniteSet({x, y}) /\ Cardinality({x, y}) <= 2
<1>1. IsFiniteSet({x}) /\ Cardinality({x}) = 1
      BY FS_Singleton
<1>2. IsFiniteSet({y}) /\ Cardinality({y}) = 1
      BY FS_Singleton
<1>3. {x, y} = {x} \union {y}
      OBVIOUS
<1> QED
    BY <1>1, <1>2, <1>3, SizeOfUnion

(* There is always a credential nothing refers to: a stored token and the  *)
(* token of a renewal are the ones of their cookie, so that a user refers  *)
(* to two credentials and a renewal to two.                                *)
LEMMA IssuedIsNew ==
    ASSUME TypeOK, TokenBelongsToCookie, RenewalInv
    PROVE  Issued \in Credentials /\ Issued \notin Held
<1> DEFINE R == {m.cookie, m.new}
           A == Range(cookie) \union Range(using)
           n == Cardinality(Users)
<1>1. Held \subseteq A \union R \union {None}
      BY DEF Held, Range, TypeOK, TokenBelongsToCookie, RenewalInv
<1>2. /\ IsFiniteSet(Range(cookie)) /\ Cardinality(Range(cookie)) <= n
      /\ IsFiniteSet(Range(using)) /\ Cardinality(Range(using)) <= n
      /\ n \in Nat
      BY SizeOfImage, CredentialAssumption, FS_CardinalityType DEF TypeOK
<1>3. IsFiniteSet(A) /\ Cardinality(A) <= 2 * n
  <2>1. Cardinality(Range(cookie)) \in Nat /\ Cardinality(Range(using)) \in Nat
        BY <1>2, FS_CardinalityType
  <2>2. IsFiniteSet(A) /\ Cardinality(A) <= Cardinality(Range(cookie)) + Cardinality(Range(using))
        BY <1>2, SizeOfUnion
  <2>3. Cardinality(A) \in Nat
        BY <2>2, FS_CardinalityType
  <2> QED
      BY <1>2, <2>1, <2>2, <2>3
<1>4. IsFiniteSet(A \union R) /\ Cardinality(A \union R) <= 2 * n + 2
  <2>1. IsFiniteSet(R) /\ Cardinality(R) <= 2
        BY SizeOfPair
  <2>2. IsFiniteSet(A \union R) /\ Cardinality(A \union R) <= Cardinality(A) + Cardinality(R)
        BY <1>3, <2>1, SizeOfUnion
  <2>3. /\ Cardinality(A) \in Nat /\ Cardinality(R) \in Nat
        /\ Cardinality(A \union R) \in Nat
        BY <1>3, <2>1, <2>2, FS_CardinalityType
  <2> HIDE DEF A, R
  <2> QED
      BY <1>2, <1>3, <2>1, <2>2, <2>3
<1>5. Cardinality(Credentials) = Cap
      BY CredentialAssumption, FS_Interval DEF Credentials
<1>6. \E c \in Credentials : c \notin Held
  <2> SUFFICES ASSUME Credentials \subseteq Held PROVE FALSE
      OBVIOUS
  <2>1. Credentials \subseteq A \union R
        BY <1>1 DEF Credentials, None
  <2>2. Cardinality(Credentials) <= Cardinality(A \union R)
        BY <1>4, <2>1, FS_Subset
  <2>3. Cardinality(A \union R) \in Nat
        BY <1>4, FS_CardinalityType
  <2> HIDE DEF A, R
  <2> QED
      BY <1>2, <1>4, <1>5, <2>2, <2>3, CredentialAssumption
<1> QED
    BY <1>6 DEF Issued

-----------------------------------------------------------------------------
(* Types                                                                   *)

LEMMA KnownTypes ==
    ASSUME NEW accepted \in SUBSET Credentials, NEW choices \in [Users -> SUBSET Credentials],
           NEW over \in SUBSET Credentials, Known(accepted, choices, over)
    PROVE  /\ alive' \subseteq Credentials
           /\ chosen' \in [Users -> SUBSET Credentials]
           /\ ended' \subseteq Credentials
    BY DEF Known

LEMMA SaveTypes ==
    ASSUME TypeOK, NEW u \in Users, NEW c \in Credentials, NEW t \in {None, c}, Save(u, c, t)
    PROVE  TypeOK'
<1>1. /\ alive \union {c} \in SUBSET Credentials /\ ended \in SUBSET Credentials
      /\ [chosen EXCEPT ![u] = {c}] \in [Users -> SUBSET Credentials]
      BY DEF TypeOK
<1>2. /\ alive' \subseteq Credentials /\ ended' \subseteq Credentials
      /\ chosen' \in [Users -> SUBSET Credentials]
      BY <1>1, KnownTypes DEF Save
<1>3. age' \in [Users -> 0 .. Never]
      BY CredentialAssumption DEF Save, TypeOK, Never
<1> QED
    BY <1>2, <1>3 DEF Save, TypeOK

LEMMA TypeStep ==
    TypeOK /\ TokenBelongsToCookie /\ RenewalInv /\ [Next]_vars => TypeOK'
<1> SUFFICES ASSUME TypeOK, TokenBelongsToCookie, RenewalInv, [Next]_vars PROVE TypeOK'
    OBVIOUS
<1>a. Issued \in Credentials
      BY IssuedIsNew
<1>b. 0 \in 0 .. Never /\ Never \in 0 .. Never
      BY CredentialAssumption DEF Never
<1>c. Known(alive, chosen, ended) =>
          /\ alive' \subseteq Credentials /\ chosen' \in [Users -> SUBSET Credentials]
          /\ ended' \subseteq Credentials
      BY KnownTypes DEF TypeOK
<1> USE DEF stored, history
<1>1. ASSUME NEW u \in Users, SelectOldest(u) PROVE TypeOK'
      BY <1>1 DEF SelectOldest, Oldest, Overdue, TypeOK, Maintenance
<1>2. CASE m # Idle /\ RefreshInfo
      BY <1>2 DEF RefreshInfo, TypeOK, Maintenance
<1>3. CASE m # Idle /\ RecordCheck
      BY <1>3, <1>b, <1>c DEF RecordCheck, Verdicts, TypeOK, Maintenance
<1>4. CASE m # Idle /\ Refresh
  <2> DEFINE choices == [u \in Users |-> IF m.cookie \in chosen[u] THEN chosen[u] \union {Issued}
                                                                  ELSE chosen[u]]
  <2>1. choices \in [Users -> SUBSET Credentials] /\ alive \union {Issued} \in SUBSET Credentials
        BY <1>a DEF TypeOK
  <2>2. Known(alive \union {Issued}, choices, ended)
        BY <1>4 DEF Refresh
  <2>3. /\ alive' \subseteq Credentials /\ chosen' \in [Users -> SUBSET Credentials]
        /\ ended' \subseteq Credentials
    <3> HIDE DEF choices
    <3> QED
        BY <2>1, <2>2, KnownTypes DEF TypeOK
  <2>4. m' \in Maintenance
        BY <1>4, <1>a DEF Refresh, AfterRefresh, TypeOK, Maintenance
  <2> QED
      BY <1>4, <2>3, <2>4 DEF Refresh, TypeOK
<1>5. CASE m # Idle /\ CommitRefresh
  <2>1. m \in Maintenance /\ m.new \in Credentials
        BY <1>5 DEF CommitRefresh, TypeOK, RenewalInv
  <2> QED
      BY <1>5, <1>b, <1>c, <2>1 DEF CommitRefresh, TypeOK, Maintenance
<1>6. CASE m # Idle /\ DropRefresh
      BY <1>6, <1>c DEF DropRefresh, TypeOK
<1>7. CASE m # Idle /\ Confirm
  <2>1. m.cookie \in Credentials
        BY <1>7 DEF TypeOK, Maintenance
  <2>2. Known(alive \ {m.cookie}, chosen, ended \union {m.cookie}) =>
            /\ alive' \subseteq Credentials /\ chosen' \in [Users -> SUBSET Credentials]
            /\ ended' \subseteq Credentials
        BY <2>1 DEF Known, TypeOK
  <2> QED
      BY <1>7, <1>c, <2>2 DEF Confirm, TypeOK
<1>8. CASE m # Idle /\ CommitFails
      BY <1>8, <1>c DEF CommitFails, TypeOK
<1>9. ASSUME NEW u \in Users, SaveBilibili(u) \/ SaveBiliCredential(u) PROVE TypeOK'
      BY <1>9, <1>a, SaveTypes DEF SaveBilibili, SaveBiliCredential, TokenOfManual
<1>10. ASSUME NEW u \in Users, DeleteBilibili(u) PROVE TypeOK'
  <2>1. [chosen EXCEPT ![u] = {}] \in [Users -> SUBSET Credentials]
        BY DEF TypeOK
  <2>2. /\ alive' \subseteq Credentials /\ chosen' \in [Users -> SUBSET Credentials]
        /\ ended' \subseteq Credentials
        BY <1>10, <2>1, KnownTypes DEF DeleteBilibili, TypeOK
  <2> QED
      BY <1>10, <1>b, <2>2 DEF DeleteBilibili, CookieRemoved, TypeOK
<1>11. ASSUME NEW u \in Users, LoadBiliCookie(u) PROVE TypeOK'
      BY <1>11 DEF LoadBiliCookie, TypeOK
<1>12. ASSUME NEW u \in Users, Answered(u) PROVE TypeOK'
      BY <1>12, <1>c DEF Answered, TypeOK
<1>13. ASSUME NEW u \in Users, RecordBiliAuthError(u) PROVE TypeOK'
      BY <1>13, <1>b, <1>c DEF RecordBiliAuthError, TypeOK
<1>14. ASSUME NEW u \in Users, Revoke(u) PROVE TypeOK'
      BY <1>14 DEF Revoke, TypeOK
<1>15. CASE Crash
      BY <1>15, <1>c DEF Crash, TypeOK
<1>16. CASE Tick
      BY <1>16, CredentialAssumption DEF Tick, Never, TypeOK
<1>17. CASE UNCHANGED vars
      BY <1>17 DEF vars, TypeOK
<1> QED
    BY <1>1, <1>2, <1>3, <1>4, <1>5, <1>6, <1>7, <1>8, <1>9, <1>10, <1>11, <1>12, <1>13, <1>14,
       <1>15, <1>16, <1>17
    DEF Next, Maintain, Ask, End

-----------------------------------------------------------------------------
(* Steps that store nothing                                                *)

\* History is kept but for what nothing refers to any more, or is not touched.
Kept ==
    /\ \A u \in Users : /\ chosen'[u] \subseteq chosen[u]
                         /\ chosen[u] \intersect Held' \subseteq chosen'[u]
    /\ ended' \subseteq ended

LEMMA KnownKeeps ==
    ASSUME TypeOK, NEW accepted, NEW over, over \subseteq ended, Known(accepted, chosen, over)
    PROVE  Kept
    BY DEF Known, Kept, TypeOK

\* What the theorems say of what is stored
StoredInv == DistinctInv /\ TokenBelongsToCookie /\ StoredIsLastChoice /\ StoredCookieIsNotEnded

LEMMA QuietStored ==
    ASSUME TypeOK, StoredInv, Kept, UNCHANGED <<cookie, token>>
    PROVE  StoredInv'
<1>1. \A u \in Users : cookie[u] \in Held'
      BY DEF Held
<1>2. StoredIsLastChoice'
      BY <1>1 DEF StoredInv, StoredIsLastChoice, Kept
<1> QED
    BY <1>2 DEF StoredInv, DistinctInv, TokenBelongsToCookie, StoredCookieIsNotEnded, Kept

LEMMA QuietRenewal ==
    ASSUME TypeOK, TypeOK', RenewalInv, Kept, UNCHANGED cookie,
           \/ m' = Idle
           \/ m' = m
           \/ m'.token \in {None, m'.cookie} /\ m'.step \notin {"save", "confirm"}
    PROVE  RenewalInv'
<1>1. CASE m' = m /\ m # Idle
  <2>1. m'.new \in Held'
        BY <1>1 DEF Held
  <2> QED
      BY <1>1, <2>1 DEF RenewalInv, Kept
<1>2. CASE m' = Idle
      BY <1>2 DEF RenewalInv
<1> QED
    BY <1>1, <1>2 DEF RenewalInv

LEMMA KnownReferred ==
    ASSUME NEW accepted, NEW choices, NEW over, Known(accepted, choices, over)
    PROVE  ReferredInv'
    BY DEF Known, ReferredInv

\* Nothing that was referred to is forgotten.
LEMMA HeldReferred ==
    ASSUME TypeOK, ReferredInv, UNCHANGED history, Held \ {None} \subseteq Held'
    PROVE  ReferredInv'
    BY DEF ReferredInv, history, TypeOK, Credentials, None

-----------------------------------------------------------------------------
(* A login that is chosen                                                  *)

LEMMA SaveStep ==
    ASSUME TypeOK, ReferredInv, RenewalInv, StoredInv,
           NEW u \in Users, NEW c \in Credentials, c \notin Held, NEW t \in {None, c}, Save(u, c, t)
    PROVE  ReferredInv' /\ RenewalInv' /\ StoredInv'
<1>1. /\ \A v \in Users : cookie[v] # c /\ c \notin chosen[v]
      /\ c \notin ended
      /\ m # Idle => m.cookie # c /\ m.new # c
      BY DEF Held, ReferredInv
<1>2. /\ cookie' = [cookie EXCEPT ![u] = c]
      /\ token' = [token EXCEPT ![u] = t]
      /\ m' = m
      BY DEF Save
<1>3. Known(alive \union {c}, [chosen EXCEPT ![u] = {c}], ended)
      BY DEF Save
<1>4. \A v \in Users : cookie'[v] \in Held'
      BY DEF Held
<1>5. cookie'[u] = c /\ \A v \in Users \ {u} : cookie'[v] = cookie[v]
      BY <1>2 DEF TypeOK
<1>6. chosen'[u] = {c}
      BY <1>3, <1>4, <1>5 DEF Known, TypeOK
<1>7. \A v \in Users \ {u} : chosen'[v] = chosen[v] \intersect Held'
      BY <1>3 DEF Known, TypeOK
<1>8. ended' \subseteq ended
      BY <1>3 DEF Known
<1>9. ReferredInv'
      BY <1>3, KnownReferred
<1>10. DistinctInv' /\ TokenBelongsToCookie' /\ StoredCookieIsNotEnded'
  <2>1. DistinctInv'
        BY <1>1, <1>5 DEF StoredInv, DistinctInv
  <2>2. TokenBelongsToCookie'
        BY <1>2, <1>5 DEF StoredInv, TokenBelongsToCookie, TypeOK
  <2>3. StoredCookieIsNotEnded'
        BY <1>1, <1>5, <1>8 DEF StoredInv, StoredCookieIsNotEnded
  <2> QED
      BY <2>1, <2>2, <2>3
<1>11. StoredIsLastChoice'
  <2>1. ASSUME NEW v \in Users
        PROVE  IF chosen'[v] = {} THEN cookie'[v] = None ELSE cookie'[v] \in chosen'[v]
    <3>1. CASE v = u
          BY <1>5, <1>6, <3>1
    <3>2. CASE v # u
          BY <1>4, <1>5, <1>7, <3>2 DEF StoredInv, StoredIsLastChoice
    <3> QED
        BY <3>1, <3>2
  <2> QED
      BY <2>1 DEF StoredIsLastChoice
<1>12. RenewalInv'
  <2>1. m # Idle => m.new \in Held'
        BY <1>2 DEF Held
  <2> QED
      BY <1>1, <1>2, <1>5, <1>6, <1>7, <1>8, <2>1 DEF RenewalInv
<1> QED
    BY <1>9, <1>10, <1>11, <1>12 DEF StoredInv

LEMMA DeleteStep ==
    ASSUME TypeOK, ReferredInv, RenewalInv, StoredInv, NEW u \in Users, DeleteBilibili(u)
    PROVE  ReferredInv' /\ RenewalInv' /\ StoredInv'
<1>1. /\ cookie' = [cookie EXCEPT ![u] = None]
      /\ token' = [token EXCEPT ![u] = None]
      /\ m' = m
      /\ Known(alive, [chosen EXCEPT ![u] = {}], ended)
      BY DEF DeleteBilibili, CookieRemoved
<1>2. ReferredInv'
      BY <1>1, KnownReferred
<1>3. \A v \in Users : cookie'[v] \in Held' /\ (v # u => cookie'[v] = cookie[v])
      BY <1>1 DEF Held, TypeOK
<1>4. cookie'[u] = None /\ token'[u] = None /\ chosen'[u] = {}
      BY <1>1 DEF Known, TypeOK
<1>5. \A v \in Users \ {u} : chosen'[v] = chosen[v] \intersect Held' /\ token'[v] = token[v]
      BY <1>1 DEF Known, TypeOK
<1>6. ended' \subseteq ended /\ None \notin ended'
      BY <1>1 DEF Known, TypeOK, Credentials, None
<1>7. StoredInv'
  <2>1. DistinctInv' /\ TokenBelongsToCookie' /\ StoredCookieIsNotEnded'
        BY <1>3, <1>4, <1>5, <1>6
        DEF StoredInv, DistinctInv, TokenBelongsToCookie, StoredCookieIsNotEnded
  <2>2. StoredIsLastChoice'
        BY <1>3, <1>4, <1>5 DEF StoredInv, StoredIsLastChoice
  <2> QED
      BY <2>1, <2>2 DEF StoredInv
<1>8. RenewalInv'
  <2>1. m # Idle => /\ m.new \in Held'
                    /\ m.cookie \in Credentials
        BY <1>1 DEF Held, TypeOK, Maintenance
  <2>2. None \notin Credentials
        BY DEF None, Credentials
  <2> QED
      BY <1>1, <1>3, <1>4, <1>5, <1>6, <2>1, <2>2 DEF RenewalInv
<1> QED
    BY <1>2, <1>7, <1>8

-----------------------------------------------------------------------------
(* A renewal                                                               *)

\* A credential that is issued to a renewal becomes the choice of whoever chose
\* the one that is renewed.
LEMMA RefreshStep ==
    ASSUME TypeOK, ReferredInv, RenewalInv, StoredInv, m # Idle, Refresh
    PROVE  ReferredInv' /\ RenewalInv' /\ StoredInv'
<1> DEFINE c == Issued
           choices == [u \in Users |-> IF m.cookie \in chosen[u] THEN chosen[u] \union {c}
                                                                ELSE chosen[u]]
<1>1. c \in Credentials /\ c \notin Held
      BY IssuedIsNew DEF StoredInv
<1>2. Known(alive \union {c}, choices, ended) /\ UNCHANGED <<cookie, token>>
      BY DEF Refresh, stored
<1>3. m \in Maintenance /\ m' = [m EXCEPT !.step = "save", !.new = c]
      BY DEF Refresh, AfterRefresh, TypeOK
<1> HIDE DEF c
<1>4. m'.new = c /\ m'.step = "save" /\ m'.cookie = m.cookie /\ m'.token = m.token /\ m' # Idle
      BY <1>3 DEF Maintenance, Idle
<1>5. c \in Held' /\ \A u \in Users : cookie'[u] \in Held'
      BY <1>4 DEF Held
<1>6. /\ \A u \in Users : cookie[u] # c /\ c \notin chosen[u]
      /\ c \notin ended
      /\ m.cookie # c
      BY <1>1 DEF Held, ReferredInv
<1>7. \A u \in Users : chosen'[u] = choices[u] \intersect Held'
      BY <1>2 DEF Known
<1>8. ended' \subseteq ended
      BY <1>2 DEF Known
<1>9. ReferredInv'
  <2> HIDE DEF choices
  <2> QED
      BY <1>2, KnownReferred
<1>10. StoredInv'
  <2>1. DistinctInv' /\ TokenBelongsToCookie' /\ StoredCookieIsNotEnded'
        BY <1>2, <1>8 DEF StoredInv, DistinctInv, TokenBelongsToCookie, StoredCookieIsNotEnded
  <2>2. StoredIsLastChoice'
    <3>1. ASSUME NEW u \in Users, chosen[u] = {}
          PROVE  chosen'[u] = {}
          BY <1>7, <3>1
    <3>2. ASSUME NEW u \in Users, chosen[u] # {}
          PROVE  cookie'[u] \in chosen'[u]
          BY <1>2, <1>5, <1>7, <3>2 DEF StoredInv, StoredIsLastChoice
    <3> QED
        BY <1>2, <3>1, <3>2 DEF StoredInv, StoredIsLastChoice
  <2> QED
      BY <2>1, <2>2 DEF StoredInv
<1>11. RenewalInv'
  <2>1. \A u \in Users : m.cookie \in chosen'[u] => c \in chosen'[u]
        BY <1>5, <1>6, <1>7
  <2> QED
      BY <1>1, <1>2, <1>4, <1>6, <1>8, <2>1 DEF RenewalInv
<1> QED
    BY <1>9, <1>10, <1>11

\* The transaction replaces a stored cookie, which no other user stores, by the one
\* it was renewed to.
LEMMA CommitStep ==
    ASSUME TypeOK, ReferredInv, RenewalInv, StoredInv, m # Idle, CommitRefresh
    PROVE  ReferredInv' /\ RenewalInv' /\ StoredInv'
<1> DEFINE u == m.user
<1>1. m \in Maintenance /\ u \in Users /\ m.step = "save"
      BY DEF CommitRefresh, TypeOK, Maintenance
<1>2. /\ cookie[u] = m.cookie
      /\ cookie' = [cookie EXCEPT ![u] = m.new]
      /\ token' = [token EXCEPT ![u] = m.new]
      /\ m' = [m EXCEPT !.step = "confirm"]
      /\ Known(alive, chosen, ended)
      BY DEF CommitRefresh, StillStored
<1>3. /\ m.new \in Credentials \ ended /\ m.new # m.cookie
      /\ \A v \in Users : /\ cookie[v] # m.new
                          /\ m.cookie \in chosen[v] => m.new \in chosen[v]
      BY <1>1 DEF RenewalInv
<1>4. m'.step = "confirm" /\ m'.cookie = m.cookie /\ m'.token = m.token
      BY <1>1, <1>2 DEF Maintenance
<1>5. /\ cookie'[u] = m.new /\ token'[u] = m.new
      /\ \A v \in Users \ {u} : cookie'[v] = cookie[v] /\ token'[v] = token[v]
      BY <1>1, <1>2 DEF TypeOK
<1>6. \A v \in Users : cookie'[v] \in Held'
      BY DEF Held
<1>7. Kept
      BY <1>2, KnownKeeps
<1>8. ReferredInv'
      BY <1>2, KnownReferred
<1>9. m.cookie # None /\ m.cookie \in Credentials
      BY <1>1 DEF Maintenance, Credentials, None
<1>10. \A v \in Users : cookie'[v] # m.cookie
      BY <1>1, <1>2, <1>3, <1>5, <1>9 DEF StoredInv, DistinctInv
<1>11. StoredInv'
  <2>1. DistinctInv'
        BY <1>3, <1>5 DEF StoredInv, DistinctInv
  <2>2. TokenBelongsToCookie'
        BY <1>5 DEF StoredInv, TokenBelongsToCookie
  <2>3. StoredCookieIsNotEnded'
        BY <1>3, <1>5, <1>7 DEF StoredInv, StoredCookieIsNotEnded, Kept
  <2>4. ASSUME NEW v \in Users
        PROVE  IF chosen'[v] = {} THEN cookie'[v] = None ELSE cookie'[v] \in chosen'[v]
    <3>1. CASE v # u
          BY <1>5, <1>6, <1>7, <3>1 DEF StoredInv, StoredIsLastChoice, Kept
    <3>2. CASE v = u
      <4>1. m.cookie \in chosen[u]
            BY <1>1, <1>2, <1>9 DEF StoredInv, StoredIsLastChoice
      <4>2. m.new \in chosen'[u]
            BY <1>1, <1>3, <1>5, <1>6, <1>7, <4>1 DEF Kept
      <4> QED
          BY <1>5, <3>2, <4>2
    <3> QED
        BY <3>1, <3>2
  <2> QED
      BY <2>1, <2>2, <2>3, <2>4 DEF StoredInv, StoredIsLastChoice
<1>12. RenewalInv'
      BY <1>4, <1>10 DEF RenewalInv
<1> QED
    BY <1>8, <1>11, <1>12

\* What Bilibili is told to end is the old cookie, which nobody stores any more.
LEMMA ConfirmStep ==
    ASSUME TypeOK, ReferredInv, RenewalInv, StoredInv, m # Idle, Confirm
    PROVE  ReferredInv' /\ RenewalInv' /\ StoredInv'
<1>1. m' = Idle /\ UNCHANGED <<cookie, token>> /\ m.step = "confirm"
      BY DEF Confirm, stored
<1>2. \A u \in Users : cookie[u] # m.cookie /\ cookie'[u] \in Held'
      BY <1>1 DEF RenewalInv, Held
<1>3. /\ chosen' = [u \in Users |-> chosen[u] \intersect Held']
      /\ ended' \subseteq ended \union {m.cookie}
      BY DEF Confirm, Known
<1>4. ReferredInv'
      BY KnownReferred DEF Confirm
<1>5. StoredInv'
  <2>1. DistinctInv' /\ TokenBelongsToCookie' /\ StoredCookieIsNotEnded'
        BY <1>1, <1>2, <1>3
        DEF StoredInv, DistinctInv, TokenBelongsToCookie, StoredCookieIsNotEnded
  <2>2. StoredIsLastChoice'
        BY <1>1, <1>2, <1>3 DEF StoredInv, StoredIsLastChoice
  <2> QED
      BY <2>1, <2>2 DEF StoredInv
<1> QED
    BY <1>1, <1>4, <1>5 DEF RenewalInv

-----------------------------------------------------------------------------
LEMMA InvStep == IInv /\ [Next]_vars => IInv'
<1> SUFFICES ASSUME IInv, [Next]_vars PROVE IInv'
    OBVIOUS
<1>a. TypeOK /\ ReferredInv /\ RenewalInv /\ StoredInv
      BY DEF IInv, StoredInv
<1>b. TypeOK'
      BY <1>a, TypeStep DEF StoredInv
<1>c. SUFFICES ReferredInv' /\ RenewalInv' /\ StoredInv'
      BY <1>b DEF IInv, StoredInv
<1>d. ASSUME Known(alive, chosen, ended), UNCHANGED <<cookie, token>>, m' = Idle \/ m' = m
      PROVE  ReferredInv' /\ RenewalInv' /\ StoredInv'
      BY <1>a, <1>b, <1>d, KnownKeeps, KnownReferred, QuietStored, QuietRenewal
<1>e. ASSUME UNCHANGED <<cookie, token, history>>, Held \ {None} \subseteq Held',
             \/ m' = m
             \/ m'.token \in {None, m'.cookie} /\ m'.step \notin {"save", "confirm"}
      PROVE  ReferredInv' /\ RenewalInv' /\ StoredInv'
  <2>1. Kept
        BY <1>e DEF history, Kept
  <2> QED
      BY <1>a, <1>b, <1>e, <2>1, HeldReferred, QuietStored, QuietRenewal
<1>1. ASSUME NEW u \in Users, SelectOldest(u) PROVE ReferredInv' /\ RenewalInv' /\ StoredInv'
  <2>1. Held \subseteq Held'
        BY <1>1 DEF SelectOldest, Held, stored
  <2>2. m'.token \in {None, m'.cookie} /\ m'.step \notin {"save", "confirm"}
        BY <1>1, <1>a DEF SelectOldest, StoredInv, TokenBelongsToCookie
  <2> QED
      BY <1>1, <1>e, <2>1, <2>2 DEF SelectOldest, stored
<1>2. CASE m # Idle /\ RefreshInfo
  <2>1. /\ m'.cookie = m.cookie /\ m'.token = m.token /\ m'.new = m.new /\ m' # Idle
        /\ m'.step \in {"refresh", "validate"}
        BY <1>2, <1>a DEF RefreshInfo, TypeOK, Maintenance, Idle
  <2>2. Held \subseteq Held'
        BY <1>2, <2>1 DEF RefreshInfo, Held, stored
  <2> QED
      BY <1>2, <1>a, <1>e, <2>1, <2>2 DEF RefreshInfo, RenewalInv, stored
<1>3. CASE m # Idle /\ RecordCheck
      BY <1>3, <1>d DEF RecordCheck
<1>4. CASE m # Idle /\ Refresh
      BY <1>4, <1>a, RefreshStep
<1>5. CASE m # Idle /\ CommitRefresh
      BY <1>5, <1>a, CommitStep
<1>6. CASE m # Idle /\ (DropRefresh \/ CommitFails)
      BY <1>6, <1>d DEF DropRefresh, CommitFails, stored
<1>7. CASE m # Idle /\ Confirm
      BY <1>7, <1>a, ConfirmStep
<1>8. ASSUME NEW u \in Users, SaveBilibili(u) \/ SaveBiliCredential(u)
      PROVE  ReferredInv' /\ RenewalInv' /\ StoredInv'
  <2>1. Issued \in Credentials /\ Issued \notin Held
        BY <1>a, IssuedIsNew DEF StoredInv
  <2> QED
      BY <1>8, <1>a, <2>1, SaveStep DEF SaveBilibili, SaveBiliCredential, TokenOfManual
<1>9. ASSUME NEW u \in Users, DeleteBilibili(u) PROVE ReferredInv' /\ RenewalInv' /\ StoredInv'
      BY <1>9, <1>a, DeleteStep
<1>10. ASSUME NEW u \in Users, LoadBiliCookie(u) PROVE ReferredInv' /\ RenewalInv' /\ StoredInv'
  <2>1. Held \ {None} \subseteq Held'
        BY <1>10, <1>a DEF LoadBiliCookie, Held, TypeOK, stored
  <2> QED
      BY <1>10, <1>e, <2>1 DEF LoadBiliCookie, stored
<1>11. ASSUME NEW u \in Users, Answered(u) \/ RecordBiliAuthError(u)
       PROVE  ReferredInv' /\ RenewalInv' /\ StoredInv'
       BY <1>11, <1>d DEF Answered, RecordBiliAuthError, stored
<1>12. CASE Crash
       BY <1>12, <1>d DEF Crash, stored
<1>13. CASE UNCHANGED <<cookie, token, m, using, history>>
  <2>1. Held' = Held
        BY <1>13 DEF Held
  <2> QED
      BY <1>13, <1>e, <2>1
<1> QED
    BY <1>1, <1>2, <1>3, <1>4, <1>5, <1>6, <1>7, <1>8, <1>9, <1>10, <1>11, <1>12, <1>13
    DEF Next, Maintain, Ask, End, Revoke, Tick, vars, stored

LEMMA InvInit == Init => IInv
<1> SUFFICES ASSUME Init PROVE IInv
    OBVIOUS
<1>1. Never \in 0 .. Never
      BY CredentialAssumption DEF Never
<1> QED
    BY <1>1 DEF Init, IInv, TypeOK, DistinctInv, ReferredInv, RenewalInv, TokenBelongsToCookie,
       StoredIsLastChoice, StoredCookieIsNotEnded

LEMMA Invariance == Spec => []IInv
    BY InvInit, InvStep, PTL DEF Spec

(* Every variable keeps its type.  The invariants below are part of the    *)
(* argument: without them there might be no credential left to issue.      *)
THEOREM TypeCorrect == Spec => []TypeOK
    BY Invariance, PTL DEF IInv

(* A stored refresh token was issued with the stored cookie, whatever      *)
(* saves, deletions, renewals and crashes interleave.                      *)
THEOREM TokensPaired == Spec => []TokenBelongsToCookie
    BY Invariance, PTL DEF IInv

(* What is stored is the login the user last chose, or what it was renewed *)
(* to: the transaction of refreshStoredBiliCredential, which writes only   *)
(* over the credential that was renewed, brings nothing back.              *)
THEOREM LastChoiceIsStored == Spec => []StoredIsLastChoice
    BY Invariance, PTL DEF IInv

(* No cookie that is stored was ended by the program, although the old one *)
(* of a renewal is ended outside the transaction that replaces it.         *)
THEOREM StoredIsNeverEnded == Spec => []StoredCookieIsNotEnded
    BY Invariance, PTL DEF IInv

=============================================================================
