----------------------------- MODULE FeedProofs -----------------------------
(***************************************************************************)
(* Theorems about Feed, for every set of users and of creators, any number *)
(* of videos and of seconds, and answers of any size.                      *)
(***************************************************************************)
EXTENDS Feed, TLAPS

-----------------------------------------------------------------------------
(* The inductive invariant                                                 *)

PostsInv ==
    /\ posts \in Seq(Post)
    /\ Len(posts) <= MaxPosts
    /\ clock \in Nat
    /\ \A v \in Published : posts[v].at <= clock

PollInv ==
    /\ poll \in Poll
    /\ poll.pc # "idle" => poll.mid \in Creators
    /\ poll.mid \in Creators => poll.page \subseteq PostsOf(poll.mid)

\* The answers a request holds are about their creators.  What was published when
\* the user asked, and what the answers hold, is not newer than the stamp.
RequestOK(r) ==
    /\ r \in Request
    /\ \A c \in Creators : r.page[c] \subseteq PostsOf(c)
    /\ r.step # "none" => r.before <= Len(posts) /\ r.kind \in Methods
    /\ r.step = "commit" =>
           /\ r.kind = "add"
           /\ r.now <= clock
           /\ \A v \in 1 .. r.before : posts[v].at <= r.now
           /\ \A c \in Creators : \A v \in r.page[c] : posts[v].at <= r.now

RequestsInv == req \in [Handlers -> Request] /\ \A h \in Handlers : RequestOK(req[h])

BoundsInv == changes \in Nat /\ crashes \in Nat

TablesInv ==
    /\ account \in [Users -> {"enabled", "disabled", "deleted"}]
    /\ known \subseteq Creators
    /\ latest \in [Creators -> Videos \union {NoVideo}]
    /\ sub \in [Pairs -> {"none", "on", "off"}]
    /\ since \in [Pairs -> Nat]
    /\ before \in [Pairs -> Nat]
    /\ recorded \subseteq Published
    /\ deliveries \subseteq Users \X Published
    /\ owed \subseteq Users \X Published
    /\ given \subseteq Users \X Published

\* A subscription is not older than what was published when it was asked for.
SinceInv ==
    \A p \in Pairs :
        sub[p] # "none" =>
            /\ before[p] <= Len(posts)
            /\ \A v \in 1 .. before[p] : posts[v].at <= since[p]

\* Who waits for a video is entitled to its notification.
OwedInv == \A p \in owed : Entitled(p[1], p[2])

\* Subscribing by UID records videos without deliveries, which concerns other
\* subscribers: either nobody does, or there are none.
Lone == "add" \notin Methods \/ \A u, w \in Users : u = w

\* What was given of a video that is no longer recorded is not newer than a
\* subscription there is now.
GivenInv ==
    /\ \A p \in given :
           p[2] \notin recorded /\ sub[<<p[1], posts[p[2]].mid>>] # "none"
               => posts[p[2]].at <= since[<<p[1], posts[p[2]].mid>>]
    /\ "add" \in Methods =>
           \A p \in given : p[2] \in recorded \/ account[p[1]] = "deleted"

DataInv ==
    /\ TablesInv /\ SinceInv /\ OwedInv /\ ReferencesHold
    /\ Lone => NoNotificationLost /\ GivenInv

IInv == PostsInv /\ PollInv /\ RequestsInv /\ BoundsInv /\ DataInv

-----------------------------------------------------------------------------
(* Types                                                                   *)

LEMMA PostFacts ==
    ASSUME PostsInv
    PROVE  /\ Len(posts) \in Nat /\ Published \subseteq Videos
           /\ \A v \in Published : /\ posts[v] \in Post
                                   /\ posts[v].mid \in Creators /\ posts[v].at \in Nat
<1>1. Len(posts) \in Nat /\ \A v \in Published : posts[v] \in Post
      BY DEF PostsInv, Published
<1>2. Published \subseteq Videos
      BY <1>1, FeedAssumption DEF PostsInv, Published, Videos
<1> QED
    BY <1>1, <1>2 DEF Post

LEMMA PageFacts ==
    ASSUME PostsInv, NEW c \in Creators
    PROVE  /\ Page(c) \subseteq PostsOf(c) /\ PostsOf(c) \subseteq Published
           /\ PostsOf(c) \subseteq Videos
           /\ \A v \in PostsOf(c) : posts[v].mid = c
    BY PostFacts DEF Page, PostsOf

LEMMA NewestType ==
    ASSUME NEW page \in SUBSET Videos, NEW v \in Newest(page)
    PROVE  v \in Videos \union {NoVideo}
    BY DEF Newest

LEMMA HandlerFacts == \A h \in Handlers : h[1] \in Users
    BY DEF Handlers

LEMMA EmptyTypes == NoPoll \in Poll /\ RequestOK(NoRequest)
<1>1. [c \in Creators |-> {}] \in [Creators -> SUBSET Videos]
      OBVIOUS
<1>2. NoRequest \in Request
      BY <1>1 DEF NoRequest, Request
<1> QED
    BY <1>2 DEF NoPoll, Poll, NoRequest, RequestOK

LEMMA Typed == IInv => TypeOK
<1> SUFFICES ASSUME IInv PROVE TypeOK
    OBVIOUS
<1>1. Published \subseteq Videos
      BY PostFacts DEF IInv
<1> QED
    BY <1>1 DEF IInv, PostsInv, PollInv, RequestsInv, BoundsInv, DataInv, TablesInv, TypeOK

-----------------------------------------------------------------------------
(* Requests and polls                                                      *)

LEMMA RequestsStay ==
    ASSUME RequestsInv, UNCHANGED <<posts, clock, req>> PROVE RequestsInv'
    BY DEF RequestsInv, RequestOK, PostsOf, Published

LEMMA PollStays ==
    ASSUME PollInv, UNCHANGED <<posts, poll>> PROVE PollInv'
    BY DEF PollInv, PostsOf, Published

LEMMA PostsStay ==
    ASSUME PostsInv, UNCHANGED <<posts, clock>> PROVE PostsInv'
    BY DEF PostsInv, Published

LEMMA DataStays ==
    ASSUME DataInv, UNCHANGED <<posts, tables, history>> PROVE DataInv'
<1>1. TablesInv'
      BY DEF DataInv, TablesInv, tables, history, Published
<1>2. SinceInv' /\ ReferencesHold'
      BY DEF DataInv, SinceInv, ReferencesHold, tables, history
<1>3. OwedInv'
      BY DEF DataInv, OwedInv, Entitled, Active, tables, history
<1>4. Lone => NoNotificationLost' /\ GivenInv'
      BY DEF DataInv, NoNotificationLost, GivenInv, tables, history
<1> QED
    BY <1>1, <1>2, <1>3, <1>4 DEF DataInv

\* The request of u goes on, or ends.
LEMMA RequestGoesOn ==
    ASSUME RequestsInv, NEW h \in Handlers, NEW r, RequestOK(r), req' = [req EXCEPT ![h] = r],
           UNCHANGED <<posts, clock>>
    PROVE  RequestsInv'
<1>1. r \in Request /\ \A w \in Handlers : req'[w] = req[w] \/ req'[w] = r
      BY DEF RequestsInv, RequestOK
<1>2. \A w \in Handlers : RequestOK(req'[w])
      BY <1>1 DEF RequestsInv
<1>3. \A w \in Handlers : RequestOK(req[w])'
      BY <1>2 DEF RequestOK, PostsOf, Published
<1> QED
    BY <1>1, <1>3 DEF RequestsInv

\* Steps of a request alone, and of the poll goroutine alone
LEMMA OnlyRequest ==
    ASSUME IInv, NEW h \in Handlers, NEW r, RequestOK(r), req' = [req EXCEPT ![h] = r],
           UNCHANGED <<posts, clock, tables, poll, bounds, history>>
    PROVE  IInv'
<1>1. RequestsInv'
      BY RequestGoesOn DEF IInv
<1>2. PostsInv' /\ PollInv' /\ DataInv'
      BY PostsStay, PollStays, DataStays DEF IInv
<1> QED
    BY <1>1, <1>2 DEF IInv, BoundsInv, bounds

LEMMA OnlyPoll ==
    ASSUME IInv, PollInv', UNCHANGED <<posts, clock, tables, req, bounds, history>>
    PROVE  IInv'
<1>1. PostsInv' /\ RequestsInv' /\ DataInv'
      BY PostsStay, RequestsStay, DataStays DEF IInv
<1> QED
    BY <1>1 DEF IInv, BoundsInv, bounds

LEMMA PollSteps ==
    ASSUME IInv, (\E c \in Creators : PollSelect(c)) \/ PollFetch \/ PollFails
    PROVE  IInv'
<1> USE DEF IInv
<1>1. ASSUME NEW c \in Creators, PollSelect(c) PROVE IInv'
      BY <1>1, OnlyPoll DEF PollSelect, PollInv, Poll
<1>2. CASE PollFetch
  <2>1. poll.mid \in Creators /\ poll' = [pc |-> "record", mid |-> poll.mid, page |-> Page(poll.mid)]
        BY <1>2 DEF PollFetch, PollInv
  <2>2. Page(poll.mid) \subseteq PostsOf(poll.mid) /\ Page(poll.mid) \subseteq Videos
        BY <2>1, PageFacts
  <2>3. poll' \in Poll /\ poll'.mid = poll.mid /\ poll'.page = Page(poll.mid)
        BY <2>1, <2>2 DEF Poll
  <2>4. PostsOf(poll.mid)' = PostsOf(poll.mid)
        BY <1>2, <2>3 DEF PollFetch, PostsOf, Published
  <2> QED
      BY <1>2, <2>1, <2>2, <2>3, <2>4, OnlyPoll DEF PollFetch, PollInv
<1>3. CASE PollFails
  <2>1. PollInv'
        BY <1>3, EmptyTypes DEF PollFails, PollInv, NoPoll, PostsOf
  <2> QED
      BY <1>3, <2>1, OnlyPoll DEF PollFails
<1> QED
    BY <1>1, <1>2, <1>3

LEMMA StartSteps ==
    ASSUME IInv, NEW h \in Handlers,
           \/ \E c \in Creators : StartAdd(h, c)
           \/ \E chosen \in SUBSET Creators : StartImport(h, chosen)
    PROVE  IInv'
<1>1. ASSUME NEW k \in Methods, NEW cs \in SUBSET Creators
      PROVE  /\ Started(k, cs) \in Request /\ RequestOK(Started(k, cs))
             /\ Started(k, cs).step = "fetch"
  <2>1. k \in {"add", "import"} /\ Len(posts) \in Nat
        BY FeedAssumption, PostFacts DEF IInv
  <2>2. NoRequest \in Request /\ \A c \in Creators : NoRequest.page[c] = {}
        BY EmptyTypes DEF RequestOK, NoRequest
  <2>3. Started(k, cs) \in Request
        BY <2>1, <2>2 DEF Request, Started
  <2>4. /\ Started(k, cs).step = "fetch" /\ Started(k, cs).kind = k
        /\ Started(k, cs).before = Len(posts)
        /\ Started(k, cs).page = NoRequest.page
        BY <2>2 DEF Request, Started
  <2> QED
      BY <2>1, <2>2, <2>3, <2>4 DEF RequestOK
<1>2. ASSUME NEW c \in Creators, StartAdd(h, c) PROVE IInv'
  <2> DEFINE q == Started("add", {c})
             r == [q EXCEPT !.now = clock]
  <2>1. /\ "add" \in Methods /\ req' = [req EXCEPT ![h] = r]
        /\ UNCHANGED <<posts, clock, tables, poll, bounds, history>>
        BY <1>2 DEF StartAdd
  <2>2. q \in Request /\ RequestOK(q) /\ q.step = "fetch"
        BY <1>1, <2>1
  <2> HIDE DEF q
  <2>3. /\ r \in Request /\ r.step = q.step /\ r.kind = q.kind
        /\ r.before = q.before /\ r.page = q.page
        BY <2>2 DEF IInv, PostsInv, Request
  <2> HIDE DEF r
  <2>4. RequestOK(r)
        BY <2>2, <2>3 DEF RequestOK
  <2> QED
      BY <2>1, <2>4, OnlyRequest
<1>3. ASSUME NEW chosen \in SUBSET Creators, StartImport(h, chosen) PROVE IInv'
  <2> DEFINE want == {c \in chosen : sub[<<h[1], c>>] = "none"}
  <2>1. /\ "import" \in Methods /\ req' = [req EXCEPT ![h] = Started("import", want)]
        /\ UNCHANGED <<posts, clock, tables, poll, bounds, history>>
        BY <1>3 DEF StartImport
  <2>2. RequestOK(Started("import", want))
        BY <1>1, <2>1
  <2> HIDE DEF want
  <2> QED
      BY <2>1, <2>2, OnlyRequest
<1> QED
    BY <1>2, <1>3

LEMMA FetchSteps ==
    ASSUME IInv, NEW h \in Handlers, NEW c \in Creators,
           Fetch(h, c) \/ FetchFails(h, c) \/ ImportRecordFails(h, c)
    PROVE  IInv'
<1> DEFINE q == req[h]
<1>1. RequestOK(q) /\ q \in Request /\ req \in [Handlers -> Request]
      BY DEF IInv, RequestsInv
<1>2. CASE Fetch(h, c)
  <2> DEFINE r == [q EXCEPT !.left = @ \ {c}, !.page[c] = Page(c)]
  <2>1. Page(c) \subseteq PostsOf(c) /\ Page(c) \subseteq Videos
        BY PageFacts DEF IInv
  <2>2. r \in Request
        BY <1>1, <2>1 DEF Request
  <2>3. req' = [req EXCEPT ![h] = r] /\ q.step = "fetch"
        BY <1>1, <1>2 DEF Fetch, Request
  <2>4. /\ r.step = q.step /\ r.kind = q.kind /\ r.before = q.before
        /\ r.page = [q.page EXCEPT ![c] = Page(c)]
        BY <1>1 DEF Request
  <2>5. q.page \in [Creators -> SUBSET Videos]
        BY <1>1 DEF Request
  <2> HIDE DEF r
  <2>6. RequestOK(r)
        BY <1>1, <2>1, <2>2, <2>3, <2>4, <2>5 DEF RequestOK
  <2> QED
      BY <1>2, <2>3, <2>6, OnlyRequest DEF Fetch
<1>3. CASE FetchFails(h, c)
  <2> DEFINE r == [q EXCEPT !.left = @ \ {c}, !.failed = @ \union {c}]
  <2>1. r \in Request
        BY <1>1 DEF Request
  <2>2. req' = [req EXCEPT ![h] = r] /\ q.step = "fetch"
        BY <1>1, <1>3 DEF FetchFails, Request
  <2>3. /\ r.step = q.step /\ r.kind = q.kind /\ r.before = q.before
        /\ r.page = q.page
        BY <1>1 DEF Request
  <2> HIDE DEF r
  <2>4. RequestOK(r)
        BY <1>1, <2>1, <2>2, <2>3 DEF RequestOK
  <2> QED
      BY <1>3, <2>2, <2>4, OnlyRequest DEF FetchFails
<1>4. CASE ImportRecordFails(h, c)
  <2> DEFINE r == [q EXCEPT !.left = @ \ {c}]
  <2>1. r \in Request
        BY <1>1 DEF Request
  <2>2. req' = [req EXCEPT ![h] = r] /\ q.step = "record"
        BY <1>1, <1>4 DEF ImportRecordFails, Request
  <2>3. /\ r.step = q.step /\ r.kind = q.kind /\ r.before = q.before
        /\ r.page = q.page
        BY <1>1 DEF Request
  <2> HIDE DEF r
  <2>4. RequestOK(r)
        BY <1>1, <2>1, <2>2, <2>3 DEF RequestOK
  <2> QED
      BY <1>4, <2>2, <2>4, OnlyRequest DEF ImportRecordFails
<1> QED
    BY <1>2, <1>3, <1>4

\* What was published when the user asked is not newer than the clock.
LEMMA StampSteps ==
    ASSUME IInv, NEW h \in Handlers, AddStamp(h) \/ EndRequest(h)
    PROVE  IInv'
<1>1. CASE AddStamp(h)
  <2> DEFINE q == req[h]
             r == [q EXCEPT !.step = "commit", !.now = clock]
  <2>1. RequestOK(q) /\ q \in Request /\ req \in [Handlers -> Request]
        BY DEF IInv, RequestsInv
  <2>2. clock \in Nat /\ Len(posts) \in Nat /\ \A v \in Published : posts[v].at <= clock
        BY PostFacts DEF IInv, PostsInv
  <2>3. r \in Request
        BY <2>1, <2>2 DEF Request
  <2>4. req' = [req EXCEPT ![h] = r] /\ q.step = "fetch" /\ q.kind = "add"
        BY <1>1, <2>1 DEF AddStamp, Stamp, Request
  <2>5. /\ r.step = "commit" /\ r.kind = q.kind /\ r.before = q.before
        /\ r.page = q.page /\ r.now = clock /\ q.before \in Nat
        BY <2>1 DEF Request
  <2> HIDE DEF r, q
  <2>6. q.before <= Len(posts)
        BY <2>1, <2>4 DEF RequestOK
  <2>7. \A v \in 1 .. r.before : posts[v].at <= r.now
        BY <2>2, <2>5, <2>6 DEF Published
  <2>8. \A c \in Creators : \A v \in r.page[c] : posts[v].at <= r.now
        BY <2>1, <2>2, <2>5, PageFacts DEF IInv, RequestOK
  <2>9. RequestOK(r)
        BY <2>1, <2>2, <2>3, <2>4, <2>5, <2>6, <2>7, <2>8 DEF RequestOK
  <2> QED
      BY <1>1, <2>4, <2>9, OnlyRequest DEF AddStamp
<1>2. CASE EndRequest(h)
      BY <1>2, EmptyTypes, OnlyRequest DEF EndRequest
<1> QED
    BY <1>1, <1>2

\* A restart ends every request and the poll; the clock leaves the tables alone.
LEMMA CrashSteps ==
    ASSUME IInv, Crash \/ Tick PROVE IInv'
<1>1. CASE Crash
  <2>1. PostsInv' /\ DataInv'
        BY <1>1, PostsStay, DataStays DEF Crash, IInv
  <2>2. PollInv'
        BY <1>1, EmptyTypes DEF Crash, PollInv, NoPoll, PostsOf
  <2>3. req' = [w \in Handlers |-> NoRequest] /\ RequestOK(NoRequest)'
        BY <1>1, EmptyTypes DEF Crash, RequestOK, NoRequest, PostsOf
  <2>4. RequestsInv'
        BY <2>3 DEF RequestsInv, RequestOK
  <2>5. BoundsInv'
        BY <1>1 DEF Crash, IInv, BoundsInv
  <2> QED
      BY <2>1, <2>2, <2>4, <2>5 DEF IInv
<1>2. CASE Tick
  <2>1. clock \in Nat /\ clock' \in Nat /\ clock <= clock'
        BY <1>2, FeedAssumption DEF Tick, IInv, PostsInv
  <2>2. PollInv' /\ DataInv'
        BY <1>2, PollStays, DataStays DEF Tick, IInv
  <2>3. PostsInv'
        BY <1>2, <2>1, PostFacts DEF Tick, IInv, PostsInv, Published
  <2>4. ASSUME NEW h \in Handlers PROVE RequestOK(req[h])'
    <3>1. RequestOK(req[h]) /\ req[h] \in Request /\ req'[h] = req[h] /\ posts' = posts
          BY <1>2 DEF Tick, IInv, RequestsInv
    <3>2. req[h].now \in Nat
          BY <3>1 DEF Request
    <3> QED
        BY <2>1, <3>1, <3>2 DEF RequestOK, PostsOf, Published
  <2>5. RequestsInv'
        BY <1>2, <2>4 DEF Tick, IInv, RequestsInv
  <2> QED
      BY <1>2, <2>2, <2>3, <2>5 DEF Tick, IInv, BoundsInv, bounds
<1> QED
    BY <1>1, <1>2

-----------------------------------------------------------------------------
(* The tables                                                              *)

LEMMA PairFacts ==
    ASSUME PostsInv, NEW p \in Users \X Published
    PROVE  /\ p[1] \in Users /\ p[2] \in Published
           /\ posts[p[2]].mid \in Creators /\ posts[p[2]].at \in Nat
           /\ <<p[1], posts[p[2]].mid>> \in Pairs
    BY PostFacts DEF Pairs

\* recordVideos gives every video that was not recorded to all who wait for it.
LEMMA RecordingKeeps ==
    ASSUME IInv, NEW c \in Creators, NEW page, page \subseteq PostsOf(c),
           RecordVideos(c, page),
           UNCHANGED <<posts, account, known, sub, since, before, owed>>
    PROVE  DataInv'
<1> DEFINE new == {p \in Users \X Fresh(page) : Entitled(p[1], p[2])}
<1>1. /\ recorded' = recorded \union page
      /\ deliveries' = deliveries \union new
      /\ given' = given \union new
      BY DEF RecordVideos
<1>2. /\ page \subseteq Published /\ page \subseteq Videos
      /\ \A v \in page : posts[v].mid = c
      BY PageFacts DEF IInv
<1>3. new \subseteq Users \X Published /\ \A p \in new : p[2] \in page /\ p[2] \notin recorded
      BY <1>2 DEF Fresh
<1>4. TablesInv'
  <2>1. latest' \in [Creators -> Videos \union {NoVideo}]
    <3>1. CASE page = {}
          BY <3>1 DEF RecordVideos, IInv, DataInv, TablesInv
    <3>2. CASE page # {}
          BY <1>2, <3>2, NewestType DEF RecordVideos, IInv, DataInv, TablesInv
    <3> QED
        BY <3>1, <3>2
  <2> HIDE DEF new
  <2> QED
      BY <1>1, <1>2, <1>3, <2>1 DEF IInv, DataInv, TablesInv, Published
<1>5. SinceInv' /\ OwedInv'
      BY DEF IInv, DataInv, SinceInv, OwedInv, Entitled, Active
<1>6. ReferencesHold'
  <2>1. \A v \in page : posts[v].mid \in known
        BY <1>2 DEF RecordVideos, Recordable
  <2>2. \A p \in new : account[p[1]] # "deleted"
        BY DEF Entitled, Active
  <2> HIDE DEF new
  <2> QED
      BY <1>1, <1>3, <2>1, <2>2 DEF IInv, DataInv, ReferencesHold
<1>7. ASSUME Lone PROVE NoNotificationLost'
  <2> SUFFICES ASSUME NEW p \in owed, p[2] \in recorded \union page PROVE p \in given \union new
      BY <1>1 DEF NoNotificationLost
  <2>1. CASE p[2] \in recorded
        BY <1>7, <2>1 DEF IInv, DataInv, NoNotificationLost
  <2>2. CASE p[2] \notin recorded
    <3>1. p \in Users \X Published /\ Entitled(p[1], p[2])
          BY DEF IInv, DataInv, TablesInv, OwedInv
    <3> QED
        BY <2>2, <3>1 DEF Fresh
  <2> QED
      BY <2>1, <2>2
<1>8. ASSUME Lone PROVE GivenInv'
  <2> HIDE DEF new
  <2> QED
      BY <1>1, <1>3, <1>8 DEF IInv, DataInv, GivenInv
<1> QED
    BY <1>4, <1>5, <1>6, <1>7, <1>8 DEF DataInv

LEMMA RecordSteps ==
    ASSUME IInv, PollRecord \/ \E h \in Handlers, c \in Creators : ImportRecord(h, c)
    PROVE  IInv'
<1>1. CASE PollRecord
  <2>1. poll.mid \in Creators /\ poll.page \subseteq PostsOf(poll.mid)
        BY <1>1 DEF PollRecord, IInv, PollInv
  <2>2. DataInv'
        BY <1>1, <2>1, RecordingKeeps DEF PollRecord
  <2>3. PollInv'
        BY <1>1, EmptyTypes DEF PollRecord, PollInv, NoPoll, PostsOf
  <2>4. PostsInv' /\ RequestsInv'
        BY <1>1, PostsStay, RequestsStay DEF PollRecord, IInv
  <2> QED
      BY <1>1, <2>2, <2>3, <2>4 DEF PollRecord, IInv, BoundsInv, bounds
<1>2. ASSUME NEW h \in Handlers, NEW c \in Creators, ImportRecord(h, c) PROVE IInv'
  <2> DEFINE q == req[h]
             r == [q EXCEPT !.left = @ \ {c}]
  <2>1. RequestOK(q) /\ q \in Request /\ req \in [Handlers -> Request]
        BY DEF IInv, RequestsInv
  <2>2. DataInv'
    <3>1. q.page[c] \subseteq PostsOf(c)
          BY <2>1 DEF RequestOK
    <3> QED
        BY <1>2, <3>1, RecordingKeeps DEF ImportRecord
  <2>3. r \in Request
        BY <2>1 DEF Request
  <2>4. req' = [req EXCEPT ![h] = r] /\ q.step = "record"
        BY <1>2, <2>1 DEF ImportRecord, Request
  <2>5. /\ r.step = q.step /\ r.kind = q.kind /\ r.before = q.before
        /\ r.page = q.page
        BY <2>1 DEF Request
  <2> HIDE DEF r
  <2>6. RequestOK(r)
        BY <2>1, <2>3, <2>4, <2>5 DEF RequestOK
  <2>7. RequestsInv'
        BY <1>2, <2>4, <2>6, RequestGoesOn DEF ImportRecord, IInv
  <2>8. PostsInv' /\ PollInv'
        BY <1>2, PostsStay, PollStays DEF ImportRecord, IInv
  <2> QED
      BY <1>2, <2>2, <2>7, <2>8 DEF ImportRecord, IInv, BoundsInv, bounds
<1> QED
    BY <1>1, <1>2

\* New subscriptions of a user, who may wait for what came after their stamp:
\* nobody waits on account of a subscription there was.
LEMMA SubscribingKeeps ==
    ASSUME IInv, NEW h \in Handlers, NEW cs \in SUBSET Creators, NEW now \in Nat,
           account[h[1]] # "deleted", \A c \in cs : sub[<<h[1], c>>] = "none",
           Subscribe(h, cs, now),
           req[h].before \in Nat, req[h].before <= Len(posts),
           \A v \in 1 .. req[h].before : posts[v].at <= now,
           latest' \in [Creators -> Videos \union {NoVideo}],
           known \union cs \subseteq known', known' \subseteq Creators,
           recorded \subseteq recorded', recorded' \subseteq Published,
           \A v \in recorded' : posts[v].mid \in known',
           owed' \subseteq owed \union UNION {Missing(h[1], c, now) : c \in cs},
           UNCHANGED <<posts, account, deliveries, given>>
    PROVE  TablesInv' /\ SinceInv' /\ OwedInv' /\ ReferencesHold'
<1> DEFINE u == h[1]
<1>0. u \in Users
      BY HandlerFacts
<1>1. ASSUME NEW p \in Pairs
      PROVE  \/ p[1] = u /\ p[2] \in cs /\ p = <<u, p[2]>> /\ sub[p] = "none"
                /\ sub'[p] = "on" /\ since'[p] = now /\ before'[p] = req[h].before
             \/ sub'[p] = sub[p] /\ since'[p] = since[p] /\ before'[p] = before[p]
      BY DEF Subscribe, Pairs
<1>2. TablesInv'
  <2>1. sub' \in [Pairs -> {"none", "on", "off"}]
        BY DEF Subscribe, IInv, DataInv, TablesInv
  <2>2. since' \in [Pairs -> Nat] /\ before' \in [Pairs -> Nat]
        BY DEF Subscribe, IInv, DataInv, TablesInv
  <2>3. owed' \subseteq Users \X Published
    <3>1. \A c \in cs : Missing(u, c, now) \subseteq Users \X Published
          BY <1>0, PageFacts DEF Missing, IInv
    <3> QED
        BY <3>1 DEF IInv, DataInv, TablesInv
  <2> HIDE DEF u
  <2> QED
      BY <2>1, <2>2, <2>3 DEF IInv, DataInv, TablesInv, Published
<1>3. SinceInv'
      BY <1>1 DEF IInv, DataInv, SinceInv
<1>4. OwedInv'
  <2> SUFFICES ASSUME NEW p \in owed' PROVE Entitled(p[1], p[2])'
      BY DEF OwedInv
  <2>1. CASE p \in owed
    <3>1. Entitled(p[1], p[2]) /\ <<p[1], posts[p[2]].mid>> \in Pairs
          BY <2>1, PairFacts DEF IInv, DataInv, TablesInv, OwedInv
    <3> DEFINE q == <<p[1], posts[p[2]].mid>>
    <3>2. sub'[q] = sub[q] /\ since'[q] = since[q]
          BY <1>1, <3>1 DEF Entitled, Active
    <3> QED
        BY <3>1, <3>2 DEF Entitled, Active
  <2>2. CASE p \notin owed
    <3>1. PICK c \in cs : p \in Missing(u, c, now)
          BY <2>2
    <3>2. /\ p[1] = u /\ p[2] \in PostsOf(c) /\ posts[p[2]].mid = c
          /\ account[u] = "enabled" /\ now < posts[p[2]].at
          BY <3>1 DEF Missing, PostsOf
    <3>3. <<u, c>> \in Pairs
          BY <1>0 DEF Pairs
    <3>4. sub'[<<u, c>>] = "on" /\ since'[<<u, c>>] = now
          BY <3>3 DEF Subscribe
    <3> HIDE DEF u
    <3> QED
        BY <3>2, <3>4 DEF Entitled, Active
  <2> QED
      BY <2>1, <2>2
<1>5. ReferencesHold'
  <2>1. ASSUME NEW p \in Pairs, sub'[p] # "none"
        PROVE  p[2] \in known' /\ account[p[1]] # "deleted"
        BY <1>1, <2>1 DEF IInv, DataInv, ReferencesHold
  <2> QED
      BY <2>1 DEF IInv, DataInv, ReferencesHold
<1> QED
    BY <1>2, <1>3, <1>4, <1>5

\* Subscribing by UID records what nobody waits for: the only user does not
\* subscribe yet, and the answer is older than the stamp.  Whatever was given and is recorded no more was of a user who
\* is deleted.
LEMMA AddCommitStep ==
    ASSUME IInv, NEW h \in Handlers, AddCommit(h)
    PROVE  IInv'
<1> DEFINE q == req[h]
           u == h[1]
<1>0. u \in Users
      BY HandlerFacts
<1>1. /\ RequestOK(q) /\ q \in Request /\ q.step = "commit" /\ account[u] # "deleted"
      /\ req' = [req EXCEPT ![h] = NoRequest]
      /\ UNCHANGED <<posts, clock, account, deliveries, poll, bounds, given>>
      BY DEF AddCommit, IInv, RequestsInv
<1>2. PICK c \in q.want :
          /\ sub[<<u, c>>] = "none"
          /\ known' = known \union {c}
          /\ \E v \in Newest(q.page[c]) : latest' = [latest EXCEPT ![c] = v]
          /\ recorded' = recorded \union q.page[c]
          /\ Subscribe(h, {c}, q.now)
          /\ owed' = owed \union Missing(u, c, q.now)
      BY DEF AddCommit
<1>3. /\ c \in Creators /\ q.now \in Nat /\ q.before \in Nat
      /\ q.page[c] \in SUBSET Videos /\ q.page[c] \subseteq PostsOf(c)
      BY <1>1 DEF Request, RequestOK
<1>4. /\ q.kind = "add" /\ q.kind \in Methods /\ q.before <= Len(posts)
      /\ \A v \in 1 .. q.before : posts[v].at <= q.now
      /\ \A v \in q.page[c] : posts[v].at <= q.now
      BY <1>1, <1>3 DEF RequestOK
<1>5. q.page[c] \subseteq Published /\ \A v \in q.page[c] : posts[v].mid = c
      BY <1>3, PageFacts DEF IInv
<1>6. TablesInv' /\ SinceInv' /\ OwedInv' /\ ReferencesHold'
  <2>1. latest' \in [Creators -> Videos \union {NoVideo}]
        BY <1>2, <1>3, NewestType DEF IInv, DataInv, TablesInv
  <2>2. /\ recorded' \subseteq Published /\ known' \subseteq Creators
        /\ \A v \in recorded' : posts[v].mid \in known'
        BY <1>2, <1>3, <1>5 DEF IInv, DataInv, TablesInv, ReferencesHold
  <2>3. /\ known \union {c} \subseteq known' /\ recorded \subseteq recorded'
        /\ \A d \in {c} : sub[<<u, d>>] = "none"
        /\ owed' \subseteq owed \union UNION {Missing(u, d, q.now) : d \in {c}}
        BY <1>2
  <2> QED
      BY <1>1, <1>2, <1>3, <1>4, <2>1, <2>2, <2>3, SubscribingKeeps
<1>7. ASSUME Lone PROVE NoNotificationLost' /\ GivenInv'
  <2>1. \A w \in Users : w = u
        BY <1>0, <1>4, <1>7 DEF Lone
  <2>2. ASSUME NEW p \in owed PROVE p[2] \notin q.page[c]
    <3>1. p[1] = u /\ Entitled(p[1], p[2])
          BY <2>1, PairFacts DEF IInv, DataInv, TablesInv, OwedInv
    <3> QED
        BY <1>2, <1>5, <3>1 DEF Entitled, Active
  <2>3. NoNotificationLost'
    <3>1. ASSUME NEW p \in Missing(u, c, q.now) PROVE p[2] \notin recorded'
      <4>1. /\ p[2] \in PostsOf(c) /\ p[2] \notin recorded
            /\ q.now < posts[p[2]].at
            BY DEF Missing
      <4>2. posts[p[2]].at \in Nat
            BY <1>3, <4>1, PageFacts, PostFacts DEF IInv
      <4> QED
          BY <1>2, <1>3, <1>4, <4>1, <4>2
    <3> QED
        BY <1>1, <1>2, <1>7, <2>2, <3>1 DEF IInv, DataInv, NoNotificationLost
  <2>4. ASSUME NEW p \in given PROVE p[2] \in recorded
    <3>1. p[1] = u
          BY <2>1, PairFacts DEF IInv, DataInv, TablesInv
    <3> QED
        BY <1>1, <1>4, <1>7, <3>1 DEF IInv, DataInv, GivenInv
  <2>5. GivenInv'
        BY <1>1, <1>2, <2>4 DEF GivenInv
  <2> QED
      BY <2>3, <2>5
<1>8. RequestsInv'
      BY <1>1, EmptyTypes, RequestGoesOn DEF IInv
<1>9. PostsInv' /\ PollInv'
      BY <1>1, PostsStay, PollStays DEF IInv
<1> QED
    BY <1>1, <1>6, <1>7, <1>8, <1>9 DEF IInv, DataInv, BoundsInv, bounds

\* Subscriptions that are imported are not older than any video there is, so
\* what was given before stays so.
LEMMA ImportCommitStep ==
    ASSUME IInv, NEW h \in Handlers, ImportCommit(h)
    PROVE  IInv'
<1> DEFINE q == req[h]
           u == h[1]
           answered == q.want \ q.failed
           new == Imported(u, q.want)
           r == [q EXCEPT !.step = "record", !.left = new \intersect answered]
<1>1. /\ RequestOK(q) /\ q \in Request /\ q.step = "fetch" /\ account[u] # "deleted"
      /\ req \in [Handlers -> Request]
      BY DEF ImportCommit, IInv, RequestsInv
<1>2. /\ known' = known \union q.want
      /\ Subscribe(h, new, clock)
      /\ req' = [req EXCEPT ![h].step = "record", ![h].left = new \intersect answered]
      /\ UNCHANGED <<posts, clock, account, recorded, deliveries, poll, bounds, owed, given>>
      BY DEF ImportCommit
<1>3. /\ q.want \subseteq Creators /\ q.before \in Nat /\ q.before <= Len(posts)
      /\ new \subseteq q.want /\ clock \in Nat /\ Len(posts) \in Nat
      /\ \A v \in Published : posts[v].at <= clock
      BY <1>1, PostFacts DEF Imported, Request, RequestOK, IInv, PostsInv
<1>4. latest' \in [Creators -> Videos \union {NoVideo}]
  <2>1. PICK top \in [answered -> Videos \union {NoVideo}] :
            latest' = [c \in Creators |-> IF c \in answered THEN top[c] ELSE latest[c]]
        BY DEF ImportCommit
  <2> QED
      BY <2>1 DEF IInv, DataInv, TablesInv
<1>5. TablesInv' /\ SinceInv' /\ OwedInv' /\ ReferencesHold'
  <2>1. /\ recorded' \subseteq Published /\ known' \subseteq Creators
        /\ \A v \in recorded' : posts[v].mid \in known'
        BY <1>2, <1>3 DEF IInv, DataInv, TablesInv, ReferencesHold
  <2>2. \A v \in 1 .. q.before : posts[v].at <= clock
        BY <1>3 DEF Published
  <2>3. known \union new \subseteq known' /\ \A c \in new : sub[<<u, c>>] = "none"
        BY <1>2, <1>3 DEF Imported
  <2> HIDE DEF new
  <2> QED
      BY <1>1, <1>2, <1>3, <1>4, <2>1, <2>2, <2>3, SubscribingKeeps
<1>6. ASSUME Lone PROVE NoNotificationLost' /\ GivenInv'
  <2>1. NoNotificationLost'
        BY <1>2, <1>6 DEF IInv, DataInv, NoNotificationLost
  <2>2. ASSUME NEW p \in given, p[2] \notin recorded,
               sub'[<<p[1], posts[p[2]].mid>>] # "none"
        PROVE  posts[p[2]].at <= since'[<<p[1], posts[p[2]].mid>>]
    <3> DEFINE x == <<p[1], posts[p[2]].mid>>
    <3>1. x \in Pairs /\ posts[p[2]].at <= clock
          BY <1>3, PairFacts DEF IInv, DataInv, TablesInv
    <3>2. \/ since'[x] = clock
          \/ since'[x] = since[x] /\ sub'[x] = sub[x]
          BY <1>2, <3>1 DEF Subscribe
    <3> QED
        BY <1>6, <2>2, <3>1, <3>2 DEF IInv, DataInv, GivenInv
  <2>3. GivenInv'
        BY <1>2, <1>6, <2>2 DEF IInv, DataInv, GivenInv
  <2> QED
      BY <2>1, <2>3
<1>7. RequestsInv'
  <2>1. r \in Request /\ req' = [req EXCEPT ![h] = r]
        BY <1>1, <1>2, <1>3 DEF Request
  <2>2. /\ r.step = "record" /\ r.kind = q.kind /\ r.before = q.before
        /\ r.page = q.page
        BY <1>1 DEF Request
  <2> HIDE DEF r
  <2>3. RequestOK(r)
        BY <1>1, <2>1, <2>2 DEF RequestOK
  <2> QED
      BY <1>2, <2>1, <2>3, RequestGoesOn DEF IInv
<1>8. PostsInv' /\ PollInv'
      BY <1>2, PostsStay, PollStays DEF IInv
<1> QED
    BY <1>2, <1>5, <1>6, <1>7, <1>8 DEF IInv, DataInv, BoundsInv, bounds

-----------------------------------------------------------------------------
(* Changes of subscriptions and accounts, and new videos                   *)

LEMMA ChangeFrame ==
    ASSUME IInv, Change, UNCHANGED <<posts, clock, poll, req, crashes>>
    PROVE  PostsInv' /\ PollInv' /\ RequestsInv' /\ BoundsInv'
<1>1. PostsInv' /\ PollInv' /\ RequestsInv'
      BY PostsStay, PollStays, RequestsStay DEF IInv
<1> QED
    BY <1>1 DEF Change, IInv, BoundsInv

\* Whoever still waits after u has waived cs: another user, or another creator.
LEMMA WaiveFacts ==
    ASSUME IInv, NEW u \in Users, NEW cs \in SUBSET Creators, Waive(u, cs)
    PROVE  \A p \in owed' : /\ p \in owed /\ p \in Users \X Published
                            /\ Entitled(p[1], p[2])
                            /\ <<p[1], posts[p[2]].mid>> \in Pairs
                            /\ p[1] # u \/ posts[p[2]].mid \notin cs
    BY PairFacts DEF Waive, IInv, DataInv, TablesInv, OwedInv

LEMMA UpdateSubscriptionStep ==
    ASSUME IInv, NEW u \in Users, NEW c \in Creators, UpdateSubscription(u, c)
    PROVE  IInv'
<1>1. /\ Change /\ Waive(u, {c}) /\ sub[<<u, c>>] # "none"
      /\ sub' = [sub EXCEPT ![<<u, c>>] = IF @ = "on" THEN "off" ELSE "on"]
      /\ UNCHANGED <<posts, clock, account, known, latest, since, recorded, deliveries, poll,
                     req, crashes, before, given>>
      BY DEF UpdateSubscription
<1>2. ASSUME NEW p \in Pairs
      PROVE  (sub'[p] # "none" <=> sub[p] # "none") /\ (p # <<u, c>> => sub'[p] = sub[p])
      BY <1>1 DEF IInv, DataInv, TablesInv
<1>3. TablesInv'
  <2>1. sub' \in [Pairs -> {"none", "on", "off"}]
        BY <1>1 DEF IInv, DataInv, TablesInv
  <2> QED
      BY <1>1, <2>1 DEF Waive, IInv, DataInv, TablesInv, Published
<1>4. SinceInv' /\ ReferencesHold'
      BY <1>1, <1>2 DEF IInv, DataInv, SinceInv, ReferencesHold
<1>5. OwedInv'
      BY <1>1, <1>2, WaiveFacts DEF OwedInv, Entitled, Active
<1>6. ASSUME Lone PROVE NoNotificationLost' /\ GivenInv'
  <2>1. NoNotificationLost'
        BY <1>1, <1>6 DEF Waive, IInv, DataInv, NoNotificationLost
  <2>2. \A p \in given : <<p[1], posts[p[2]].mid>> \in Pairs
        BY PairFacts DEF IInv, DataInv, TablesInv
  <2> QED
      BY <1>1, <1>2, <1>6, <2>1, <2>2 DEF IInv, DataInv, GivenInv
<1> QED
    BY <1>1, <1>3, <1>4, <1>5, <1>6, ChangeFrame DEF IInv, DataInv

LEMMA DeleteSubscriptionStep ==
    ASSUME IInv, NEW u \in Users, NEW c \in Creators, DeleteSubscription(u, c)
    PROVE  IInv'
<1>1. /\ Change /\ Waive(u, {c}) /\ sub[<<u, c>>] # "none"
      /\ sub' = [sub EXCEPT ![<<u, c>>] = "none"]
      /\ since' = [since EXCEPT ![<<u, c>>] = 0]
      /\ before' = [before EXCEPT ![<<u, c>>] = 0]
      /\ UNCHANGED <<posts, clock, account, known, latest, recorded, deliveries, poll, req,
                     crashes, given>>
      BY DEF DeleteSubscription
<1>2. ASSUME NEW p \in Pairs
      PROVE  \/ p = <<u, c>> /\ sub'[p] = "none"
             \/ /\ p # <<u, c>>
                /\ sub'[p] = sub[p] /\ since'[p] = since[p] /\ before'[p] = before[p]
      BY <1>1 DEF IInv, DataInv, TablesInv
<1>3. TablesInv'
  <2>1. sub' \in [Pairs -> {"none", "on", "off"}]
        BY <1>1 DEF IInv, DataInv, TablesInv
  <2>2. since' \in [Pairs -> Nat] /\ before' \in [Pairs -> Nat]
        BY <1>1 DEF IInv, DataInv, TablesInv
  <2> QED
      BY <1>1, <2>1, <2>2 DEF Waive, IInv, DataInv, TablesInv, Published
<1>4. SinceInv' /\ ReferencesHold'
      BY <1>1, <1>2 DEF IInv, DataInv, SinceInv, ReferencesHold
<1>5. OwedInv'
  <2> SUFFICES ASSUME NEW p \in owed' PROVE Entitled(p[1], p[2])'
      BY DEF OwedInv
  <2> DEFINE x == <<p[1], posts[p[2]].mid>>
  <2>1. Entitled(p[1], p[2]) /\ x \in Pairs /\ x # <<u, c>>
        BY <1>1, WaiveFacts
  <2>2. sub'[x] = sub[x] /\ since'[x] = since[x]
        BY <1>2, <2>1
  <2> QED
      BY <1>1, <2>1, <2>2 DEF Entitled, Active
<1>6. ASSUME Lone PROVE NoNotificationLost' /\ GivenInv'
  <2>1. NoNotificationLost'
        BY <1>1, <1>6 DEF Waive, IInv, DataInv, NoNotificationLost
  <2>2. \A p \in given : <<p[1], posts[p[2]].mid>> \in Pairs
        BY PairFacts DEF IInv, DataInv, TablesInv
  <2> QED
      BY <1>1, <1>2, <1>6, <2>1, <2>2 DEF IInv, DataInv, GivenInv
<1> QED
    BY <1>1, <1>3, <1>4, <1>5, <1>6, ChangeFrame DEF IInv, DataInv

LEMMA CancelDeliveryStep ==
    ASSUME IInv, NEW u \in Users, NEW v \in Published, CancelDelivery(u, v)
    PROVE  IInv'
<1>1. /\ Change /\ deliveries' = deliveries \ {<<u, v>>}
      /\ UNCHANGED <<posts, clock, account, known, latest, sub, since, recorded, poll, req,
                     crashes, before, owed, given>>
      BY DEF CancelDelivery, history
<1>2. TablesInv' /\ SinceInv' /\ OwedInv' /\ ReferencesHold'
      BY <1>1 DEF IInv, DataInv, TablesInv, Published, SinceInv, OwedInv, Entitled, Active,
                  ReferencesHold
<1>3. ASSUME Lone PROVE NoNotificationLost' /\ GivenInv'
      BY <1>1, <1>3 DEF IInv, DataInv, NoNotificationLost, GivenInv
<1> QED
    BY <1>1, <1>2, <1>3, ChangeFrame DEF IInv, DataInv

LEMMA SetEnabledStep ==
    ASSUME IInv, NEW u \in Users, SetEnabled(u)
    PROVE  IInv'
<1>1. /\ Change /\ Waive(u, Creators) /\ account[u] # "deleted"
      /\ account' = [account EXCEPT ![u] = IF @ = "enabled" THEN "disabled" ELSE "enabled"]
      /\ UNCHANGED <<posts, clock, known, latest, sub, since, recorded, deliveries, poll, req,
                     crashes, before, given>>
      BY DEF SetEnabled
<1>2. ASSUME NEW w \in Users
      PROVE  (account'[w] = "deleted" <=> account[w] = "deleted")
             /\ (w # u => account'[w] = account[w])
      BY <1>1 DEF IInv, DataInv, TablesInv
<1>3. TablesInv'
  <2>1. account' \in [Users -> {"enabled", "disabled", "deleted"}]
        BY <1>1 DEF IInv, DataInv, TablesInv
  <2> QED
      BY <1>1, <2>1 DEF Waive, IInv, DataInv, TablesInv, Published
<1>4. SinceInv'
      BY <1>1 DEF IInv, DataInv, SinceInv
<1>5. ReferencesHold'
  <2>1. \A p \in Pairs : p[1] \in Users
        BY DEF Pairs
  <2>2. \A p \in deliveries : p[1] \in Users
        BY PairFacts DEF IInv, DataInv, TablesInv
  <2> QED
      BY <1>1, <1>2, <2>1, <2>2 DEF IInv, DataInv, ReferencesHold
<1>6. OwedInv'
  <2> SUFFICES ASSUME NEW p \in owed' PROVE Entitled(p[1], p[2])'
      BY DEF OwedInv
  <2>1. Entitled(p[1], p[2]) /\ p[1] \in Users /\ p[1] # u
        BY <1>1, WaiveFacts DEF Pairs
  <2> QED
      BY <1>1, <1>2, <2>1 DEF Entitled, Active
<1>7. ASSUME Lone PROVE NoNotificationLost' /\ GivenInv'
  <2>1. NoNotificationLost'
        BY <1>1, <1>7 DEF Waive, IInv, DataInv, NoNotificationLost
  <2>2. \A p \in given : p[1] \in Users
        BY PairFacts DEF IInv, DataInv, TablesInv
  <2> QED
      BY <1>1, <1>2, <1>7, <2>1, <2>2 DEF IInv, DataInv, GivenInv
<1> QED
    BY <1>1, <1>3, <1>4, <1>5, <1>6, <1>7, ChangeFrame DEF IInv, DataInv

\* A creator that goes with the user is no other user's.
LEMMA DeleteUserFacts ==
    ASSUME IInv, NEW u \in Users, DeleteUser(u), NEW p \in Pairs
    PROVE  \/ (p[1] = u \/ Orphan(u, p[2])) /\ sub'[p] = "none"
           \/ /\ p[1] # u /\ ~Orphan(u, p[2])
              /\ sub'[p] = sub[p] /\ since'[p] = since[p] /\ before'[p] = before[p]
    BY DEF DeleteUser, Pairs

LEMMA DeleteUserStep ==
    ASSUME IInv, NEW u \in Users, DeleteUser(u)
    PROVE  IInv'
<1> DEFINE gone == {c \in Creators : Orphan(u, c)}
<1>1. /\ Change /\ Waive(u, Creators) /\ account[u] # "deleted"
      /\ account' = [account EXCEPT ![u] = "deleted"]
      /\ known' = known \ gone
      /\ latest' = [c \in Creators |-> IF c \in gone THEN NoVideo ELSE latest[c]]
      /\ recorded' = {v \in recorded : posts[v].mid \notin gone}
      /\ deliveries' = {p \in deliveries : p[1] # u /\ posts[p[2]].mid \notin gone}
      /\ UNCHANGED <<posts, clock, poll, req, crashes, given>>
      BY DEF DeleteUser
<1>2. \A w \in Users : account'[w] = (IF w = u THEN "deleted" ELSE account[w])
      BY <1>1 DEF IInv, DataInv, TablesInv
<1>3. TablesInv'
  <2>1. sub' \in [Pairs -> {"none", "on", "off"}]
        BY DEF DeleteUser, IInv, DataInv, TablesInv
  <2>2. since' \in [Pairs -> Nat] /\ before' \in [Pairs -> Nat]
        BY DEF DeleteUser, IInv, DataInv, TablesInv
  <2>3. latest' \in [Creators -> Videos \union {NoVideo}]
        BY <1>1 DEF IInv, DataInv, TablesInv
  <2>4. account' \in [Users -> {"enabled", "disabled", "deleted"}]
        BY <1>1 DEF IInv, DataInv, TablesInv
  <2> HIDE DEF gone
  <2> QED
      BY <1>1, <2>1, <2>2, <2>3, <2>4 DEF Waive, IInv, DataInv, TablesInv, Published
<1>4. SinceInv'
      BY <1>1, DeleteUserFacts DEF IInv, DataInv, SinceInv
<1>5. ReferencesHold'
  <2>1. ASSUME NEW p \in Pairs, sub'[p] # "none"
        PROVE  p[2] \in known' /\ account'[p[1]] # "deleted"
    <3>1. p[1] \in Users /\ p[1] # u /\ ~Orphan(u, p[2]) /\ sub[p] # "none"
          BY <2>1, DeleteUserFacts DEF Pairs
    <3> QED
        BY <1>1, <1>2, <3>1 DEF IInv, DataInv, ReferencesHold
  <2>2. \A v \in recorded' : posts[v].mid \in known'
        BY <1>1 DEF IInv, DataInv, ReferencesHold
  <2>3. ASSUME NEW p \in deliveries'
        PROVE  p[2] \in recorded' /\ account'[p[1]] # "deleted"
    <3>1. p \in deliveries /\ p[1] \in Users /\ p[1] # u /\ posts[p[2]].mid \notin gone
          BY <1>1, PairFacts DEF IInv, DataInv, TablesInv
    <3> HIDE DEF gone
    <3> QED
        BY <1>1, <1>2, <3>1 DEF IInv, DataInv, ReferencesHold
  <2> QED
      BY <1>1, <2>1, <2>2, <2>3 DEF ReferencesHold
<1>6. OwedInv'
  <2> SUFFICES ASSUME NEW p \in owed' PROVE Entitled(p[1], p[2])'
      BY DEF OwedInv
  <2> DEFINE x == <<p[1], posts[p[2]].mid>>
  <2>1. Entitled(p[1], p[2]) /\ x \in Pairs /\ p[1] \in Users /\ p[1] # u
        BY <1>1, WaiveFacts DEF Pairs
  <2>2. ~Orphan(u, posts[p[2]].mid)
        BY <2>1 DEF Orphan, Entitled, Active
  <2>3. sub'[x] = sub[x] /\ since'[x] = since[x] /\ account'[p[1]] = account[p[1]]
        BY <1>2, <2>1, <2>2, DeleteUserFacts
  <2> QED
      BY <1>1, <2>1, <2>3 DEF Entitled, Active
<1>7. ASSUME Lone PROVE NoNotificationLost' /\ GivenInv'
  <2>1. NoNotificationLost'
        BY <1>1, <1>7 DEF Waive, IInv, DataInv, NoNotificationLost
  <2>2. ASSUME NEW p \in given, p[2] \notin recorded',
               sub'[<<p[1], posts[p[2]].mid>>] # "none"
        PROVE  posts[p[2]].at <= since'[<<p[1], posts[p[2]].mid>>]
    <3> DEFINE x == <<p[1], posts[p[2]].mid>>
    <3>1. x \in Pairs
          BY PairFacts DEF IInv, DataInv, TablesInv
    <3>2. ~Orphan(u, posts[p[2]].mid) /\ sub'[x] = sub[x] /\ since'[x] = since[x]
          BY <2>2, <3>1, DeleteUserFacts
    <3>3. p[2] \notin recorded
          BY <1>1, <2>2, <3>2
    <3> QED
        BY <1>7, <2>2, <3>2, <3>3 DEF IInv, DataInv, GivenInv
  <2>3. ASSUME "add" \in Methods, NEW p \in given PROVE account'[p[1]] = "deleted"
    <3>1. p[1] \in Users /\ p[1] = u
          BY <1>7, <2>3, PairFacts DEF Lone, IInv, DataInv, TablesInv
    <3> QED
        BY <1>2, <3>1
  <2>4. GivenInv'
        BY <1>1, <2>2, <2>3 DEF GivenInv
  <2> QED
      BY <2>1, <2>4
<1> QED
    BY <1>1, <1>3, <1>4, <1>5, <1>6, <1>7, ChangeFrame DEF IInv, DataInv

\* A new video is in no table and no answer yet, and is as old as the clock.
LEMMA PublishStep ==
    ASSUME IInv, NEW c \in Creators, Publish(c)
    PROVE  IInv'
<1> DEFINE n == Len(posts) + 1
           new == {<<u, n>> : u \in {w \in Users : Active(w, c) /\ since[<<w, c>>] < clock}}
<1>1. /\ Len(posts) < MaxPosts
      /\ posts' = Append(posts, [mid |-> c, at |-> clock])
      /\ owed' = owed \union new
      /\ UNCHANGED <<clock, tables, poll, req, bounds, before, given>>
      BY DEF Publish
<1>2. /\ Len(posts) \in Nat /\ clock \in Nat /\ posts \in Seq(Post)
      /\ [mid |-> c, at |-> clock] \in Post /\ MaxPosts \in Nat
      BY PostFacts, FeedAssumption DEF IInv, PostsInv, Post
<1>3. /\ posts' \in Seq(Post) /\ Len(posts') = n
      /\ posts'[n].mid = c /\ posts'[n].at = clock
      /\ \A v \in 1 .. Len(posts) : posts'[v] = posts[v]
      BY <1>1, <1>2
<1>4. Published' = Published \union {n} /\ n \notin Published /\ \A v \in Published : posts'[v] = posts[v]
      BY <1>2, <1>3 DEF Published
<1>5. PostsInv'
  <2>1. n <= MaxPosts
        BY <1>1, <1>2
  <2>2. \A v \in Published : posts[v].at <= clock
        BY DEF IInv, PostsInv
  <2>3. \A v \in Published' : posts'[v].at <= clock
    <3> HIDE DEF n
    <3> QED
        BY <1>2, <1>3, <1>4, <2>2
  <2> HIDE DEF n
  <2> QED
      BY <1>1, <1>2, <1>3, <2>1, <2>3 DEF PostsInv
<1>6. \A d \in Creators : PostsOf(d) \subseteq PostsOf(d)'
      BY <1>4 DEF PostsOf
<1>7. PollInv'
      BY <1>1, <1>6 DEF IInv, PollInv
<1>8. RequestsInv'
  <2>1. ASSUME NEW h \in Handlers PROVE RequestOK(req[h])'
    <3>1. RequestOK(req[h]) /\ req' = req /\ clock' = clock /\ req[h].before \in Nat
          BY <1>1 DEF IInv, RequestsInv, RequestOK, Request
    <3>2. \A v \in 1 .. req[h].before : v <= Len(posts) => posts'[v] = posts[v]
          BY <1>2, <1>3, <3>1
    <3>3. \A d \in Creators : \A v \in req[h].page[d] : posts'[v] = posts[v]
          BY <1>4, <3>1, PageFacts DEF IInv, RequestOK
    <3> QED
        BY <1>2, <1>3, <1>6, <3>1, <3>2, <3>3 DEF RequestOK
  <2> QED
      BY <1>1, <2>1 DEF IInv, RequestsInv
<1>9. TablesInv' /\ SinceInv' /\ ReferencesHold'
  <2>1. new \subseteq Users \X Published'
    <3> SUFFICES ASSUME NEW p \in new PROVE p \in Users \X Published'
        OBVIOUS
    <3>1. PICK u \in Users : p = <<u, n>>
          OBVIOUS
    <3> HIDE DEF n
    <3> QED
        BY <1>4, <3>1
  <2> HIDE DEF new
  <2>2. TablesInv'
        BY <1>1, <1>4, <2>1 DEF tables, IInv, DataInv, TablesInv
  <2>3. SinceInv'
    <3> SUFFICES ASSUME NEW p \in Pairs, sub[p] # "none"
                 PROVE  /\ before[p] <= Len(posts')
                        /\ \A v \in 1 .. before[p] : posts'[v].at <= since[p]
        BY <1>1 DEF SinceInv, tables
    <3>1. /\ before[p] \in Nat /\ before[p] <= Len(posts)
          /\ \A v \in 1 .. before[p] : posts[v].at <= since[p]
          BY DEF IInv, DataInv, TablesInv, SinceInv
    <3>2. \A v \in 1 .. before[p] : posts'[v] = posts[v]
          BY <1>2, <1>3, <3>1
    <3> QED
        BY <1>2, <1>3, <3>1, <3>2
  <2>4. ReferencesHold'
        BY <1>1, <1>4 DEF tables, IInv, DataInv, TablesInv, ReferencesHold
  <2> QED
      BY <2>2, <2>3, <2>4
<1>10. OwedInv'
  <2> SUFFICES ASSUME NEW p \in owed' PROVE Entitled(p[1], p[2])'
      BY DEF OwedInv
  <2>1. CASE p \in owed
    <3>1. Entitled(p[1], p[2]) /\ posts'[p[2]] = posts[p[2]]
          BY <1>4, <2>1, PairFacts DEF IInv, DataInv, TablesInv, OwedInv
    <3> QED
        BY <1>1, <3>1 DEF tables, Entitled, Active
  <2>2. CASE p \in new
    <3>1. PICK u \in Users : p = <<u, n>> /\ Active(u, c) /\ since[<<u, c>>] < clock
          BY <2>2
    <3>2. p[1] = u /\ p[2] = n
          BY <3>1
    <3> HIDE DEF n
    <3> QED
        BY <1>1, <1>3, <3>1, <3>2 DEF tables, Entitled, Active
  <2> QED
      BY <1>1, <2>1, <2>2
<1>11. ASSUME Lone PROVE NoNotificationLost' /\ GivenInv'
  <2>1. recorded \subseteq Published
        BY DEF IInv, DataInv, TablesInv
  <2>2. ASSUME NEW p \in new PROVE p[2] = n
    <3>1. PICK u \in Users : p = <<u, n>>
          OBVIOUS
    <3> QED
        BY <3>1
  <2> HIDE DEF n
  <2> HIDE DEF new
  <2>3. NoNotificationLost'
        BY <1>1, <1>4, <1>11, <2>1, <2>2 DEF tables, IInv, DataInv, NoNotificationLost
  <2>4. \A p \in given : posts'[p[2]] = posts[p[2]]
        BY <1>4, PairFacts DEF IInv, DataInv, TablesInv
  <2>5. GivenInv'
        BY <1>1, <1>11, <2>4 DEF tables, IInv, DataInv, GivenInv
  <2> QED
      BY <2>3, <2>5
<1> QED
    BY <1>1, <1>5, <1>7, <1>8, <1>9, <1>10, <1>11 DEF IInv, DataInv, BoundsInv, bounds

-----------------------------------------------------------------------------
(* The invariant holds in every state                                      *)

LEMMA InitHolds == Init => IInv
<1> SUFFICES ASSUME Init PROVE IInv
    OBVIOUS
<1>1. posts = <<>> /\ Len(posts) = 0 /\ Published = {} /\ posts \in Seq(Post)
      BY DEF Init, Published
<1>2. PostsInv
      BY <1>1, FeedAssumption DEF Init, PostsInv
<1>3. PollInv /\ RequestsInv
  <2>1. poll = NoPoll /\ req = [h \in Handlers |-> NoRequest]
        BY DEF Init
  <2>2. PollInv
        BY <2>1, EmptyTypes, FeedAssumption DEF PollInv, NoPoll
  <2> QED
      BY <2>1, <2>2, EmptyTypes DEF RequestsInv, RequestOK
<1>4. TablesInv
      BY DEF Init, TablesInv
<1>5. SinceInv /\ OwedInv /\ ReferencesHold /\ NoNotificationLost /\ GivenInv
      BY DEF Init, SinceInv, OwedInv, ReferencesHold, NoNotificationLost, GivenInv
<1> QED
    BY <1>2, <1>3, <1>4, <1>5 DEF IInv, DataInv, BoundsInv, Init

LEMMA NextKeeps == IInv /\ [Next]_vars => IInv'
<1> SUFFICES ASSUME IInv, [Next]_vars PROVE IInv'
    OBVIOUS
<1>1. CASE Polling
      BY <1>1, PollSteps, RecordSteps DEF Polling
<1>2. CASE Adding
  <2>1. PICK h \in Handlers :
            \/ \E c \in Creators : StartAdd(h, c) \/ Fetch(h, c) \/ FetchFails(h, c)
            \/ \E chosen \in SUBSET Creators : StartImport(h, chosen)
            \/ AddStamp(h) \/ AddCommit(h) \/ ImportCommit(h)
            \/ \E c \in Creators : ImportRecord(h, c) \/ ImportRecordFails(h, c)
            \/ EndRequest(h)
        BY <1>2 DEF Adding
  <2> QED
      BY <2>1, StartSteps, FetchSteps, StampSteps, AddCommitStep, ImportCommitStep, RecordSteps
<1>3. CASE Changing
      BY <1>3, UpdateSubscriptionStep, DeleteSubscriptionStep, CancelDeliveryStep,
         SetEnabledStep, DeleteUserStep DEF Changing
<1>4. CASE Crash \/ Tick
      BY <1>4, CrashSteps
<1>5. CASE \E c \in Creators : Publish(c)
      BY <1>5, PublishStep
<1>6. CASE UNCHANGED vars
  <2>1. UNCHANGED <<posts, clock, tables, poll, req, bounds, history>>
        BY <1>6 DEF vars
  <2> QED
      BY <2>1, PollStays, OnlyPoll DEF IInv
<1> QED
    BY <1>1, <1>2, <1>3, <1>4, <1>5, <1>6 DEF Next

LEMMA Invariance == Spec => []IInv
    BY InitHolds, NextKeeps, PTL DEF Spec

-----------------------------------------------------------------------------
(* The theorems                                                            *)

(* The tables, the poll goroutine and the requests only hold values of the *)
(* kinds the code gives them.                                              *)
THEOREM TypeCorrect == Spec => []TypeOK
    BY Invariance, Typed, PTL

(* Whatever order the transactions of the poll goroutine and of the        *)
(* requests come in, and wherever the process stops between them, rows     *)
(* refer to rows: subscriptions and videos to their creator, deliveries to *)
(* their video and to an account that still exists.                        *)
THEOREM RowsReferToRows == Spec => []ReferencesHold
<1>1. IInv => ReferencesHold
      BY DEF IInv, DataInv
<1> QED
    BY <1>1, Invariance, PTL

(* When all subscriptions are imported, or there is one user, nobody who   *)
(* waits for a video misses its notification: no transaction records it    *)
(* without enqueuing it.  With subscriptions added by UID and a second     *)
(* user the property fails (createSubscriptionHandler records the videos   *)
(* of its answer and enqueues them for nobody), so the hypothesis cannot   *)
(* be dropped.                                                             *)
THEOREM NothingLost ==
    ASSUME Lone
    PROVE  Spec => []NoNotificationLost
<1>1. IInv => NoNotificationLost
      BY DEF IInv, DataInv
<1> QED
    BY <1>1, Invariance, PTL

\* Only recordVideos enqueues notifications.
LEMMA OnlyRecordingGives ==
    ASSUME IInv, [Next]_vars
    PROVE  \/ deliveries' \subseteq deliveries
           \/ /\ \E c \in Creators, page \in SUBSET Videos :
                     /\ page \subseteq PostsOf(c)
                     /\ RecordVideos(c, page)
              /\ UNCHANGED <<posts, sub, since, before>>
<1>1. CASE PollRecord
  <2>1. poll.mid \in Creators /\ poll.page \subseteq PostsOf(poll.mid) /\ poll.page \in SUBSET Videos
        BY <1>1 DEF PollRecord, IInv, PollInv, Poll
  <2> QED
      BY <1>1, <2>1 DEF PollRecord
<1>2. ASSUME NEW h \in Handlers, NEW c \in Creators, ImportRecord(h, c)
      PROVE  /\ req[h].page[c] \subseteq PostsOf(c) /\ req[h].page[c] \in SUBSET Videos
             /\ RecordVideos(c, req[h].page[c]) /\ UNCHANGED <<posts, sub, since, before>>
      BY <1>2 DEF ImportRecord, IInv, RequestsInv, RequestOK, Request
<1>3. CASE (\E c \in Creators : PollSelect(c)) \/ PollFetch \/ PollFails
      BY <1>3 DEF PollSelect, PollFetch, PollFails, tables
<1>4. CASE Adding
  <2>1. PICK h \in Handlers :
            \/ \E c \in Creators : StartAdd(h, c) \/ Fetch(h, c) \/ FetchFails(h, c)
            \/ \E chosen \in SUBSET Creators : StartImport(h, chosen)
            \/ AddStamp(h) \/ AddCommit(h) \/ ImportCommit(h)
            \/ \E c \in Creators : ImportRecord(h, c) \/ ImportRecordFails(h, c)
            \/ EndRequest(h)
        BY <1>4 DEF Adding
  <2>2. CASE \E c \in Creators : ImportRecord(h, c)
        BY <1>2, <2>2
  <2>3. CASE ~ \E c \in Creators : ImportRecord(h, c)
        BY <2>1, <2>3 DEF StartAdd, Fetch, FetchFails, StartImport, AddStamp, AddCommit,
                          ImportCommit, ImportRecordFails, EndRequest, tables
  <2> QED
      BY <2>2, <2>3
<1>5. CASE Changing
      BY <1>5 DEF Changing, UpdateSubscription, DeleteSubscription, CancelDelivery, SetEnabled,
                  DeleteUser
<1>6. CASE Crash \/ Tick \/ UNCHANGED vars \/ \E c \in Creators : Publish(c)
      BY <1>6 DEF Crash, Tick, Publish, vars, tables
<1> QED
    BY <1>1, <1>3, <1>4, <1>5, <1>6 DEF Next, Polling

\* What a transaction of recordVideos enqueues
LEMMA Enqueued ==
    ASSUME IInv, NEW c \in Creators, NEW page, page \subseteq PostsOf(c),
           RecordVideos(c, page), NEW p \in deliveries' \ deliveries
    PROVE  /\ p \in Users \X Published /\ p[2] \notin recorded
           /\ Entitled(p[1], p[2]) /\ <<p[1], posts[p[2]].mid>> \in Pairs
<1>1. p \in Users \X Fresh(page) /\ Entitled(p[1], p[2])
      BY DEF RecordVideos
<1>2. p \in Users \X Published /\ p[2] \notin recorded
      BY <1>1, PageFacts DEF Fresh, IInv
<1> QED
    BY <1>1, <1>2, PairFacts DEF IInv

(* A new subscription never sends old videos, whoever records them first:  *)
(* every subscription is stamped after its answer, so with a second that   *)
(* is not before those of the videos there were when the user asked.       *)
THEOREM HistoryStaysUnnotified == Spec => HistoryIsNotNotified
<1>1. ASSUME IInv, [Next]_vars, NEW p \in deliveries' \ deliveries
      PROVE  p[2] > before'[<<p[1], posts[p[2]].mid>>]
  <2>1. PICK c \in Creators, page \in SUBSET Videos :
            page \subseteq PostsOf(c) /\ RecordVideos(c, page) /\ UNCHANGED <<sub, since, before>>
        BY <1>1, OnlyRecordingGives
  <2> DEFINE x == <<p[1], posts[p[2]].mid>>
  <2>2. /\ p \in Users \X Published /\ x \in Pairs /\ Entitled(p[1], p[2])
        BY <1>1, <2>1, Enqueued
  <2>3. /\ p[2] \in Nat /\ p[2] >= 1 /\ posts[p[2]].at \in Nat
        BY <1>1, <2>2, PairFacts, PostFacts DEF IInv, Published
  <2>4. /\ before[x] \in Nat /\ since[x] \in Nat /\ since[x] < posts[p[2]].at
        /\ \A v \in 1 .. before[x] : posts[v].at <= since[x]
        BY <1>1, <2>2 DEF IInv, DataInv, TablesInv, SinceInv, Entitled, Active
  <2>5. p[2] \notin 1 .. before[x]
    <3> HIDE DEF x
    <3> QED
        BY <2>3, <2>4
  <2> HIDE DEF x
  <2> QED
      BY <2>1, <2>3, <2>4, <2>5 DEF x
<1>2. IInv /\ [Next]_vars => [\A p \in deliveries' \ deliveries :
                                p[2] > before'[<<p[1], posts[p[2]].mid>>]]_vars
      BY <1>1
<1> QED
    BY <1>2, Invariance, PTL DEF Spec, HistoryIsNotNotified

(* When all subscriptions are imported, or there is one user, nobody is    *)
(* given a notification a second time, not even of a video whose creator   *)
(* was deleted and has been added again: a subscription is never older     *)
(* than what its user was given before it.                                 *)
THEOREM GivenOnce ==
    ASSUME Lone
    PROVE  Spec => NotGivenTwice
<1>1. ASSUME IInv, [Next]_vars, NEW p \in deliveries' \ deliveries PROVE p \notin given
  <2>1. PICK c \in Creators, page \in SUBSET Videos :
            page \subseteq PostsOf(c) /\ RecordVideos(c, page)
        BY <1>1, OnlyRecordingGives
  <2> DEFINE x == <<p[1], posts[p[2]].mid>>
  <2>2. /\ p \in Users \X Published /\ x \in Pairs
        /\ p[2] \notin recorded /\ Entitled(p[1], p[2])
        BY <1>1, <2>1, Enqueued
  <2>3. /\ posts[p[2]].at \in Nat /\ since[x] \in Nat /\ since[x] < posts[p[2]].at
        /\ sub[x] # "none"
        BY <1>1, <2>2, PairFacts DEF IInv, DataInv, TablesInv, Entitled, Active
  <2> QED
      BY <1>1, <2>2, <2>3 DEF IInv, DataInv, GivenInv
<1>2. IInv /\ [Next]_vars => [(deliveries' \ deliveries) \intersect given = {}]_vars
      BY <1>1
<1> QED
    BY <1>2, Invariance, PTL DEF Spec, NotGivenTwice

(* Deleting a user takes nothing from the others, neither a subscription   *)
(* nor a notification of a creator they have unsubscribed from: the two    *)
(* NOT EXISTS of deleteUserHandler keep what ON DELETE CASCADE would take. *)
THEOREM DeletionSpares == Spec => DeletionSparesOthers
<1> DEFINE Spared ==
        \A u \in Users : account'[u] = account[u] /\ account' # account =>
            /\ \A c \in Creators : sub'[<<u, c>>] = sub[<<u, c>>]
            /\ \A v \in Published : <<u, v>> \in deliveries => <<u, v>> \in deliveries'
<1>1. ASSUME IInv, [Next]_vars PROVE Spared
  <2>1. ASSUME NEW w \in Users, SetEnabled(w) PROVE Spared
        BY <2>1 DEF SetEnabled
  <2>2. ASSUME NEW w \in Users, DeleteUser(w) PROVE Spared
    <3> SUFFICES ASSUME NEW u \in Users, account'[u] = account[u]
                 PROVE  /\ \A c \in Creators : sub'[<<u, c>>] = sub[<<u, c>>]
                        /\ \A v \in Published : <<u, v>> \in deliveries => <<u, v>> \in deliveries'
        OBVIOUS
    <3>1. u # w
          BY <2>2, <1>1 DEF DeleteUser, IInv, DataInv, TablesInv
    <3>2. ASSUME NEW c \in Creators PROVE sub'[<<u, c>>] = sub[<<u, c>>]
      <4>1. <<u, c>> \in Pairs
            BY DEF Pairs
      <4>2. Orphan(w, c) => sub[<<u, c>>] = "none"
            BY <3>1 DEF Orphan
      <4> QED
          BY <1>1, <2>2, <3>1, <4>1, <4>2, DeleteUserFacts
    <3>3. ASSUME NEW v \in Published, <<u, v>> \in deliveries PROVE <<u, v>> \in deliveries'
      <4>1. ~Orphan(w, posts[v].mid)
            BY <3>1, <3>3 DEF Orphan
      <4> QED
          BY <2>2, <3>1, <3>3, <4>1 DEF DeleteUser
    <3> QED
        BY <3>2, <3>3
  <2>3. CASE account' = account
        BY <2>3
  <2>4. CASE account' # account
    <3>1. \E w \in Users : SetEnabled(w) \/ DeleteUser(w)
          BY <1>1, <2>4 DEF Next, vars, tables, Polling, PollSelect, PollFetch, PollRecord,
             PollFails, Adding, StartAdd, Fetch, FetchFails, StartImport, AddStamp, AddCommit,
             ImportCommit, ImportRecord, ImportRecordFails, EndRequest, Changing,
             UpdateSubscription, DeleteSubscription, CancelDelivery, Crash, Tick, Publish
    <3> QED
        BY <2>1, <2>2, <3>1
  <2> QED
      BY <2>3, <2>4
<1>2. IInv /\ [Next]_vars => [Spared]_vars
      BY <1>1
<1> QED
    BY <1>2, Invariance, PTL DEF Spec, DeletionSparesOthers

=============================================================================
