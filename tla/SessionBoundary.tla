---------------------------- MODULE SessionBoundary ----------------------------
(***************************************************************************)
(* The tabs of one browser that share a session cookie: how a page finds   *)
(* its session, notices that the cookie was lost or belongs to somebody    *)
(* else, and changes over (frontend/src/features/auth), and what the       *)
(* server answers (httpapi/middleware.go, session_handlers.go).            *)
(*                                                                         *)
(* A session is a number, its user is owner[session]; 0 is no session. An  *)
(* anonymous user has the number of the bootstrap ID it is made with. The  *)
(* changes of a page between two awaits are one step; a page is a record,  *)
(* and the operators that change it take it and return it. The reconciled  *)
(* marker of an advisory is kept, the guide preferences it is for are not. *)
(***************************************************************************)
EXTENDS Naturals, Sequences, FiniteSets, SequencesExt

CONSTANTS Tabs, Google, None,
          MaxUsers,  \* bound: anonymous users, enough for every bootstrap ID
          Limits     \* bounds: the combinations of sessions that expire or are
                     \* revoked, of Google upgrades and logins, and of lost or
                     \* damaged answers, timeouts and reloads

ASSUME SessionAssumption ==
    /\ {Google, None} \cap Tabs = {} /\ Google # None
    /\ MaxUsers \in Nat \ {0} /\ Limits \subseteq [losses : Nat, logins : Nat, faults : Nat]

VARIABLES
    owner,   \* sessions: the user of each session the server made
    dead,    \* the sessions that are expired or revoked
    jar,     \* the session of the cookie
    boot,    \* the bootstrap ID in IndexedDB, 0 when there is none
    writer,  \* the tab that holds the Web Lock of the cookie writers
    mail,    \* advisories on their way to each tab
    tab,     \* the page of each tab
    held,    \* history: the sessions that were in the cookie
    used     \* how much of each bound is used

server == <<owner, dead>>
browser == <<jar, boot, writer, mail, held>>
vars == <<server, browser, tab, used>>

Alive(s) == s # 0 /\ s \notin dead
Anonymous == 1..MaxUsers
Created == {u \in Anonymous : \E s \in DOMAIN owner : owner[s] = u}

(***************************************************************************)
(* Pages                                                                   *)
(***************************************************************************)
Event(why, target, safe) == [why |-> why, target |-> target, safe |-> safe]
NoEvent == Event("none", None, FALSE)

\* rec: the recovery that is queued or runs, while its event is current.
NoRec == [ev |-> NoEvent, pre |-> FALSE]
\* fail: RuntimeRecoveryState; cur: whether the event is still current. pre:
\* quiescedRecoveryRef, which only a retry of the event of a failure reads.
NoFail == [ev |-> NoEvent, failed |-> FALSE, suspend |-> FALSE, pre |-> FALSE, cur |-> FALSE]
\* job: the head of the queue of transitions, up to its next await. cur: its
\* event, or the publisher its request captured, is of the current
\* generation; steady: no lease was made invalid since it looked; done: it
\* has closed the editors' scopes; id: its bootstrap ID.
NoJob == [kind |-> "none", pc |-> "idle", ev |-> NoEvent, cur |-> TRUE, steady |-> TRUE,
          done |-> FALSE, cookie |-> 0, ans |-> "none", next |-> 0, id |-> 0]
\* req: an authenticated request of the page and its answer. fresh: the
\* generation its publisher captured is current.
NoReq == [ans |-> "none", cookie |-> 0, fresh |-> FALSE]

Unloaded == [cached |-> 0, lease |-> None, unver |-> FALSE, rec |-> NoRec, fail |-> NoFail,
             hold |-> FALSE, open |-> FALSE, queue |-> <<>>, asks |-> None,
             job |-> NoJob, req |-> NoReq]
Shown(s) == [Unloaded EXCEPT !.cached = s, !.lease = owner[s], !.open = TRUE]

\* loadInitialSession asks for the session before anything else.
Loading(j) == [Unloaded EXCEPT !.job = [NoJob EXCEPT !.kind = "load", !.pc = "get", !.cookie = j]]

User(t) == owner[t.cached]
\* The children are neither hidden nor inert.
Interactive(t) == t.cached # 0 /\ ~t.hold /\ ~t.fail.suspend

Init ==
    /\ \E u \in {Google, 1} : owner \in {<<u>>, <<>>}
    /\ dead = {} /\ boot = 0 /\ writer = None /\ mail = [x \in Tabs |-> <<>>]
    /\ jar = Len(owner) /\ held = DOMAIN owner
    /\ tab = [x \in Tabs |-> IF jar = 0 THEN Loading(jar) ELSE Shown(jar)]
    /\ used = [losses |-> 0, logins |-> 0, faults |-> 0]

\* The answer to a request is taken although its lease is no longer current.
MutInvalidate(t) == [t EXCEPT !.lease = None, !.job.steady = FALSE]

\* AuthenticatedRequestLeaseOwner.invalidate: a request of that lease is
\* aborted, and assertLeaseCurrent refuses an answer that is already there.
Invalidate(t) == [t EXCEPT !.lease = None, !.job.steady = FALSE, !.req = NoReq]

\* advanceGeneration: what was captured before is no longer current; an
\* attempt whose event is not current ends before it begins.
Advance(t) ==
    [t EXCEPT !.rec = NoRec, !.job.cur = FALSE, !.req.fresh = FALSE, !.fail.cur = FALSE,
              !.queue = Remove(@, "recovery")]

\* suspendChildrenAndInvalidateLeaseForRecovery.
Suspend(t, ev) ==
    [Invalidate(t) EXCEPT !.fail = [NoFail EXCEPT !.ev = ev, !.suspend = TRUE]]

(***************************************************************************)
(* The queue of transitions, and the events that put a recovery in it      *)
(***************************************************************************)
Priority(why) ==
    CASE why = "UNVERIFIED" -> 4 [] why = "DRIFT" -> 3 [] why = "EXPIRED" -> 2 [] OTHER -> 1

\* shouldPreemptRecovery.
Preempts(ev, active) ==
    \/ Priority(ev.why) > Priority(active.why)
    \/ /\ Priority(ev.why) = Priority(active.why) /\ ev.safe
       /\ ~(active.safe /\ active.target = ev.target)

\* requestCurrentSession: a GET with the cookie of the moment.
AskSession(t, pc, j) == [t EXCEPT !.job.pc = pc, !.job.cookie = j, !.job.ans = "none", !.job.next = 0]

\* AutoSaveScopeRegistry.quiesce, which keeps the drafts.
Quiesce(t) == [t EXCEPT !.job.pc = "quiesce", !.open = FALSE]

\* runSessionRecoveryAttempt up to its first await.
Attempt(t, j) ==
    LET ev == t.rec.ev
        a == [t EXCEPT !.job = [NoJob EXCEPT !.kind = "recovery", !.ev = ev, !.done = t.rec.pre]] IN
    IF ev.why = "CSRF" THEN AskSession(a, "get", j)
    ELSE IF ev.why # "UNVERIFIED" /\ t.rec.pre THEN AskSession(Suspend(a, ev), "get", j)
    ELSE Quiesce(Suspend(a, ev))

\* enqueueTransition: the next one starts when the one before it has ended.
RunNext(t, j) ==
    IF t.queue = <<>> THEN [t EXCEPT !.job = NoJob]
    ELSE LET h == [t EXCEPT !.queue = Tail(@)] IN
         IF Head(t.queue) = "recovery" THEN Attempt(h, j)
         ELSE [h EXCEPT !.job = [NoJob EXCEPT !.kind = "login", !.pc = "lock"]]

\* A recovery that has ended is still taken for the active one.
MutEndJob(t, j) == RunNext([t EXCEPT !.asks = IF t.job.kind = "login" THEN None ELSE @], j)

EndJob(t, j) ==
    RunNext([t EXCEPT !.asks = IF t.job.kind = "login" THEN None ELSE @,
                      !.rec = IF t.job.kind = "recovery" /\ t.job.cur THEN NoRec ELSE @], j)

\* recoverSession once no recovery is active.
BeginRecovery(t, ev, pre, j) ==
    LET a == [t EXCEPT !.unver = @ \/ ev.why = "UNVERIFIED"]
        b == IF ev.why # "CSRF" THEN Suspend(a, ev)
             ELSE IF a.fail = NoFail THEN a
             ELSE [a EXCEPT !.fail = [NoFail EXCEPT !.ev = ev, !.suspend = a.fail.suspend]]
        c == [b EXCEPT !.rec = [ev |-> ev, pre |-> pre], !.queue = Append(@, "recovery")] IN
    IF c.job.kind = "none" THEN RunNext(c, j) ELSE c

\* recoverSession of a current event: UNVERIFIED is for good, an active
\* recovery is preempted by a higher priority, or goes on.
Recover(t, ev, pre, j) ==
    IF t.unver THEN t
    ELSE IF t.rec = NoRec THEN BeginRecovery(t, ev, pre, j)
    ELSE IF Preempts(ev, t.rec.ev)
         THEN BeginRecovery(Advance(IF ev.why = "CSRF" THEN t ELSE Suspend(t, ev)), ev, FALSE, j)
    ELSE t

Notice(t, why, j) == Recover(t, Event(why, None, FALSE), FALSE, j)

\* handoffStaleRecovery, and the end of the job.
HandOff(t, j) == EndJob(Notice(t, "EXPIRED", j), j)

(***************************************************************************)
(* Publication of a session                                                *)
(***************************************************************************)
\* commitPublishedSession: the lease of the same user goes on, the children
\* of another user, or with remountSameIdentity, are mounted anew.
Commit(t, s, remount) ==
    LET same == User(t) = owner[s]
        a == IF t.lease = owner[s] THEN t ELSE [Invalidate(t) EXCEPT !.lease = owner[s]] IN
    [Advance(a) EXCEPT !.cached = s, !.fail = NoFail, !.hold = FALSE,
                       !.open = IF same /\ ~remount THEN @ ELSE TRUE]

\* Whether the owner of the job still wants it: its event, for a recovery.
Wanted(t) == ~t.unver /\ (t.job.kind = "recovery" => t.job.cur)

\* publishSession up to its first await: the drafts are kept and the queries
\* of the old user cancelled before a page shows another user.
PublishSession(t, s, j) ==
    IF ~Wanted(t) THEN HandOff(t, j)
    ELSE IF User(t) = owner[s] THEN EndJob(Commit(t, s, t.job.done), j)
    ELSE [Invalidate(t) EXCEPT !.hold = TRUE, !.open = FALSE, !.job.pc = "publish",
                               !.job.next = s, !.job.steady = TRUE]

\* The rest of publishSession, unless a lease was made invalid meanwhile.
FinishPublish(t, j) ==
    IF Wanted(t) /\ t.job.steady THEN EndJob(Commit(t, t.job.next, FALSE), j) ELSE HandOff(t, j)

\* leaseOwner.activate and the data of the query, at the first load.
Load(t, s, j) == [EndJob(t, j) EXCEPT !.cached = s, !.lease = owner[s], !.open = TRUE]

\* handleRecoveryFailure; the query of a first load ends in error.
Failed(t, j) ==
    IF t.job.kind = "load" THEN EndJob(t, j)
    ELSE IF ~t.job.cur THEN HandOff(t, j)
    ELSE EndJob([t EXCEPT !.fail = [ev |-> t.job.ev, failed |-> TRUE, pre |-> t.job.done,
            cur |-> TRUE, suspend |-> t.job.done \/ t.job.ev.why # "CSRF"]], j)

\* The advisory publishRecoveredSession sends: none for the user of the page.
Tell(x, t, s, safe) ==
    mail' = [y \in Tabs |-> IF y = x \/ User(t) = owner[s] THEN mail[y]
                            ELSE Append(mail[y], [target |-> owner[s], safe |-> safe])]

(***************************************************************************)
(* Requests of a page                                                      *)
(***************************************************************************)
Turn(x, t) == tab' = [tab EXCEPT ![x] = t]
Spend(what) ==
    /\ used' = [used EXCEPT ![what] = @ + 1]
    /\ \E l \in Limits : \A w \in DOMAIN used : used'[w] <= l[w]
Fault == Spend("faults")

\* authenticateMiddleware and csrfMiddleware: the session of the cookie, then
\* the expected user, then the CSRF token, which is that of one session.
Verdict(cookie, user, csrf) ==
    IF ~Alive(cookie) THEN "expired"
    ELSE IF owner[cookie] # user THEN "other"
    ELSE IF cookie # csrf THEN "csrf" ELSE "ok"

\* requestJSON of a command of the page, under the lease it has, and the
\* server, which answers with the session of that moment.
SendRequest(x) ==
    LET t == tab[x] IN
    /\ Interactive(t) /\ t.lease # None /\ t.req = NoReq
    /\ Turn(x, [t EXCEPT !.req = [ans |-> Verdict(jar, t.lease, t.cached), cookie |-> jar,
                                  fresh |-> TRUE]])
    /\ UNCHANGED <<server, browser, used>>

\* The identity in the header counts before the status.
HearRequest(x) ==
    LET t == tab[x]  r == t.req  a == [t EXCEPT !.req = NoReq] IN
    /\ r # NoReq
    /\ Turn(x, CASE r.ans = "ok" -> a
                 [] r.ans = "other" -> Notice(a, "DRIFT", jar)
                 [] r.ans = "expired" -> IF r.fresh THEN Notice(a, "EXPIRED", jar) ELSE a
                 [] r.ans = "csrf" -> IF r.fresh THEN Notice(a, "CSRF", jar) ELSE a)
    /\ UNCHANGED <<server, browser, used>>

\* An answer without the user of its session, as a proxy may make it.
HearDamaged(x) ==
    LET t == tab[x] IN
    /\ t.req.ans \in {"ok", "other", "csrf"} /\ Fault
    /\ Turn(x, Notice([t EXCEPT !.req = NoReq], "UNVERIFIED", jar))
    /\ UNCHANGED <<server, browser>>

\* useSessionIdentityAdvisory; a page without a user starts again.
HearAdvisory(x) ==
    LET t == tab[x]  m == Head(mail[x]) IN
    /\ mail[x] # <<>> /\ mail' = [mail EXCEPT ![x] = Tail(@)]
    /\ t.cached # 0
    /\ Turn(x, Recover(t, Event(IF User(t) = m.target THEN "CSRF" ELSE "DRIFT", m.target, m.safe),
                       FALSE, jar))
    /\ UNCHANGED <<server, jar, boot, writer, held, used>>

(***************************************************************************)
(* Discovery, recovery and login, from one await to the next               *)
(***************************************************************************)
\* POST /auth/google/upgrade or /login, as its handler judges it.
Accepts(t) == Verdict(t.job.cookie, t.asks, t.cached) = "ok"

\* UpgradeGoogle, which keeps the user, or LoginGoogle: another session. An
\* account is upgraded when its bootstrap ID is no longer in the browser.
LogIn(t) ==
    /\ \E u \in {Google, t.asks} :
          /\ u # Google => boot # u /\ \A y \in Tabs : tab[y].job.id # u
          /\ owner' = Append(owner, u)
    /\ dead' = dead \cup {t.job.cookie}

Release(x) == writer' = IF writer = x THEN None ELSE writer
Stale(t) == t.job.kind = "recovery" /\ ~t.job.cur

\* The job gives its request up: the server may still serve it, and the
\* browser may have taken the cookie of its answer.
Cancel(x) ==
    LET b == tab[x].job
        late == \/ b.pc = "post" /\ b.ans = "none" /\ ~Alive(b.cookie)
                \/ b.pc = "login" /\ b.ans = "none" /\ Accepts(tab[x]) IN
    /\ Release(x)
    /\ \/ UNCHANGED server
       \/ late /\ b.pc = "post" /\ owner' = Append(owner, b.id) /\ UNCHANGED dead
       \/ late /\ b.pc = "login" /\ LogIn(tab[x])
    /\ jar' \in IF b.pc \in {"post", "login"} /\ b.ans = "ok" /\ b.next # b.cookie
                THEN {jar, b.next} ELSE {jar}
    /\ held' = held \cup ({jar'} \ {0})

\* GET /session, outside of the Web Lock or in it.
ServeGet(x) ==
    LET b == tab[x].job IN
    /\ b.pc \in {"get", "lockget"} /\ b.ans = "none"
    /\ Turn(x, [tab[x] EXCEPT !.job.ans = IF Alive(b.cookie) THEN "ok" ELSE "expired",
                              !.job.next = IF Alive(b.cookie) THEN b.cookie ELSE 0])
    /\ UNCHANGED <<server, browser, used>>

\* getOrCreateBootstrapID: the one of the browser, or one that nobody has.
NewIds == {k \in Anonymous : k \notin Created /\ \A y \in Tabs : tab[y].job.id # k}
BootId == IF boot # 0 THEN boot ELSE CHOOSE k \in NewIds : TRUE

\* createAnonymousSession, until it waits for the Web Lock.
WaitForLock(x, t) ==
    /\ boot # 0 \/ NewIds # {}  \* bound
    /\ boot' = BootId
    /\ Turn(x, [AskSession(t, "lock", 0) EXCEPT !.job.id = BootId])
    /\ UNCHANGED <<server, jar, writer, mail, held, used>>

\* publishRecoveredSession: a session that its advisory announced as
\* reconciled is announced as such again.
PublishRecovered(x, t) ==
    LET s == t.job.next  ev == t.job.ev IN
    /\ Tell(x, t, s, ev.safe /\ ev.target = owner[s])
    /\ Turn(x, PublishSession(t, s, jar))
    /\ UNCHANGED <<server, jar, boot, writer, held, used>>

\* After CSRF_INVALID the drafts are only kept when another user comes.
HearGet(x) ==
    LET t == tab[x]  b == t.job  weak == b.ev.why = "CSRF" /\ ~b.done IN
    /\ b.pc = "get" /\ b.ans # "none" /\ ~Stale(t)
    /\ CASE b.kind = "load" /\ b.next # 0 ->
             Turn(x, Load(t, b.next, jar)) /\ UNCHANGED <<server, browser, used>>
         [] b.kind = "recovery" /\ weak /\ (b.next = 0 \/ User(t) # owner[b.next]) ->
             Turn(x, Quiesce(Suspend(t, b.ev))) /\ UNCHANGED <<server, browser, used>>
         [] b.next = 0 /\ (b.kind = "recovery" => ~weak) -> WaitForLock(x, t)
         [] OTHER -> PublishRecovered(x, t)

\* The editors of the page are closed and their drafts are in the browser.
Quiesced(x) ==
    LET t == [tab[x] EXCEPT !.job.done = TRUE]  ev == t.job.ev IN
    /\ t.job.pc = "quiesce"
    /\ CASE Stale(t) -> Turn(x, HandOff(t, jar)) /\ UNCHANGED <<server, browser, used>>
         [] ~Stale(t) /\ ev.why = "UNVERIFIED" ->
             Turn(x, EndJob([t EXCEPT !.fail.failed = TRUE], jar)) /\ UNCHANGED <<server, browser, used>>
         [] ~Stale(t) /\ t.job.next # 0 -> PublishRecovered(x, t)
         [] ~Stale(t) /\ ev.why = "CSRF" /\ t.job.next = 0 -> WaitForLock(x, t)
         [] OTHER -> Turn(x, AskSession(t, "get", jar)) /\ UNCHANGED <<server, browser, used>>

\* The lock is free for everybody.
MutLockFree(x) == TRUE

\* runSessionCookieWriter: an exclusive Web Lock of the origin.
LockFree(x) == writer = None

\* A login goes on only for the user it was asked by, under a lease.
Acquire(x) ==
    LET t == tab[x]  b == t.job IN
    /\ b.pc = "lock" /\ LockFree(x) /\ ~Stale(t)
    /\ IF b.kind = "login" /\ ~(User(t) = t.asks /\ t.lease = t.asks)
       THEN Turn(x, EndJob(t, jar)) /\ UNCHANGED writer
       ELSE /\ writer' = x
            /\ Turn(x, [AskSession(t, IF b.kind = "login" THEN "login" ELSE "lockget", jar)
                           EXCEPT !.job.steady = TRUE, !.job.cur = TRUE])
    /\ UNCHANGED <<server, jar, boot, mail, held, used>>

HearLockGet(x) ==
    LET t == tab[x] IN
    /\ t.job.pc = "lockget" /\ t.job.ans # "none" /\ ~Stale(t)
    /\ IF t.job.next # 0 THEN Turn(x, [t EXCEPT !.job.pc = "clear"]) /\ Release(x)
       ELSE Turn(x, AskSession(t, "post", jar)) /\ UNCHANGED writer
    /\ UNCHANGED <<server, jar, boot, mail, held, used>>

\* createAnonymous: the session of the cookie, else one of the user the
\* bootstrap ID was used for, or of a new user.
ServePost(x) ==
    LET b == tab[x].job IN
    /\ b.pc = "post" /\ b.ans = "none"
    /\ owner' = IF Alive(b.cookie) THEN owner ELSE Append(owner, b.id)
    /\ Turn(x, [tab[x] EXCEPT !.job.ans = "ok",
                !.job.next = IF Alive(b.cookie) THEN b.cookie ELSE Len(owner) + 1])
    /\ UNCHANGED <<dead, browser, used>>

\* The new cookie, and the advisory, which goes out before the lock is free.
HearPost(x) ==
    LET t == tab[x]  s == t.job.next IN
    /\ t.job.pc = "post" /\ t.job.ans = "ok" /\ ~Stale(t)
    /\ jar' = IF s = t.job.cookie THEN jar ELSE s
    /\ held' = held \cup {jar'} /\ Release(x)
    /\ mail' = [y \in Tabs |-> IF y = x THEN mail[y]
                               ELSE Append(mail[y], [target |-> owner[s], safe |-> TRUE])]
    /\ Turn(x, [t EXCEPT !.job.pc = "clear"])
    /\ UNCHANGED <<server, boot, used>>

\* clearBootstrapID, of that ID alone.
ClearBootId(x) ==
    LET t == tab[x]  b == t.job IN
    /\ b.pc = "clear" /\ boot' = IF boot = b.id THEN 0 ELSE boot
    /\ Turn(x, IF b.kind = "load" THEN Load(t, b.next, jar)
               ELSE PublishSession(t, b.next, jar))
    /\ UNCHANGED <<server, jar, writer, mail, held, used>>

\* The attempt is aborted; its event is no longer current.
Interrupted(x) ==
    /\ Stale(tab[x]) /\ tab[x].job.pc \in {"get", "lock", "lockget", "post"}
    /\ Cancel(x) /\ Turn(x, HandOff(tab[x], jar'))
    /\ UNCHANGED <<boot, mail, used>>

\* A GET or POST that times out or is lost, a wait for the lock that is.
AskFails(x) ==
    LET t == tab[x] IN
    /\ t.job.kind \in {"load", "recovery"} /\ t.job.pc \in {"get", "lock", "lockget", "post"}
    /\ ~Stale(t) /\ Fault
    /\ Cancel(x) /\ Turn(x, Failed(t, jar'))
    /\ UNCHANGED <<boot, mail>>

\* publishHigherPriorityIdentityFailure, for an answer whose body and header
\* do not name one user.
AnswerDamaged(x) ==
    LET t == tab[x] IN
    /\ t.job.pc \in {"get", "lockget"} /\ t.job.ans = "ok" /\ ~Stale(t) /\ Fault
    /\ Release(x)
    /\ Turn(x, EndJob(IF t.job.kind = "load" THEN t ELSE Notice(t, "UNVERIFIED", jar), jar))
    /\ UNCHANGED <<server, jar, boot, mail, held>>

\* The user of the page links the Google account, or logs in with it.
AskLogin(x) ==
    LET t == tab[x]
        a == [t EXCEPT !.asks = User(t), !.queue = Append(@, "login")] IN
    /\ Interactive(t) /\ t.asks = None /\ Spend("logins")
    /\ Turn(x, IF t.job.kind = "none" THEN RunNext(a, jar) ELSE a)
    /\ UNCHANGED <<server, browser>>

ServeLogin(x) ==
    LET t == tab[x]  v == Verdict(t.job.cookie, t.asks, t.cached) IN
    /\ t.job.pc = "login" /\ t.job.ans = "none"
    /\ IF v = "ok" THEN LogIn(t) ELSE UNCHANGED server
    /\ Turn(x, [t EXCEPT !.job.ans = v, !.job.next = IF v = "ok" THEN Len(owner') ELSE 0])
    /\ UNCHANGED <<browser, used>>

\* runSessionTransition: the cookie is written, and the session published,
\* in the Web Lock.
HearLogin(x) ==
    LET t == tab[x]  b == t.job  a == PublishSession(t, b.next, b.next)
        why == [other |-> "DRIFT", expired |-> "EXPIRED", csrf |-> "CSRF"] IN
    /\ b.pc = "login" /\ b.ans # "none" /\ b.steady
    /\ IF b.ans = "ok"
       THEN /\ jar' = b.next /\ held' = held \cup {b.next} /\ Tell(x, t, b.next, FALSE)
            /\ Turn(x, a)
            /\ IF a.job.pc = "publish" THEN UNCHANGED writer ELSE Release(x)
       ELSE /\ Turn(x, EndJob(IF b.ans = "other" \/ b.cur THEN Notice(t, why[b.ans], jar) ELSE t, jar))
            /\ Release(x) /\ UNCHANGED <<jar, held, mail>>
    /\ UNCHANGED <<server, boot, used>>

\* Its lease is no longer current: SESSION_IDENTITY_STALE.
LoginStale(x) ==
    /\ tab[x].job.pc = "login" /\ ~tab[x].job.steady
    /\ Cancel(x) /\ Turn(x, EndJob(tab[x], jar'))
    /\ UNCHANGED <<boot, mail, used>>

\* No answer that can be used: the cookie may have changed.
LoginLost(x) ==
    LET t == tab[x] IN
    /\ t.job.pc = "login" /\ t.job.steady /\ Fault
    /\ Cancel(x)
    /\ Turn(x, EndJob(Notice([Invalidate(t) EXCEPT !.hold = TRUE], "CSRF", jar'), jar'))
    /\ UNCHANGED <<boot, mail>>

\* quiesce and cancelQueries of publishSession are done.
Published(x) ==
    /\ tab[x].job.pc = "publish"
    /\ Turn(x, FinishPublish(tab[x], jar)) /\ Release(x)
    /\ UNCHANGED <<server, jar, boot, mail, held, used>>

(***************************************************************************)
(* The user, the document and time                                         *)
(***************************************************************************)
\* The button of RuntimeRecoveryMessage.
Retry(x) ==
    LET t == tab[x] IN
    /\ t.fail.failed /\ t.fail.cur /\ ~t.unver /\ t.rec = NoRec
    /\ Turn(x, Recover(t, t.fail.ev, t.fail.pre, jar))
    /\ UNCHANGED <<server, browser, used>>

\* The query of a first load is tried again, by itself or by its button.
RetryLoad(x) ==
    /\ tab[x].cached = 0 /\ tab[x].job.kind = "none" /\ Turn(x, Loading(jar))
    /\ UNCHANGED <<server, browser, used>>

NewDocument(x) ==
    /\ Cancel(x) /\ Turn(x, Loading(jar')) /\ mail' = [mail EXCEPT ![x] = <<>>]
    /\ UNCHANGED boot

\* The button of a page that is not verified; handleUnboundIdentityAdvisory.
Restart(x) ==
    /\ \/ tab[x].unver /\ tab[x].fail.failed
       \/ tab[x].cached = 0 /\ mail[x] # <<>>
    /\ NewDocument(x) /\ UNCHANGED used

Reload(x) == Fault /\ NewDocument(x)

\* A session runs out or is revoked elsewhere.
Expire ==
    /\ Alive(jar) /\ Spend("losses")
    /\ dead' = dead \cup {jar}
    /\ UNCHANGED <<owner, browser, tab>>

JobStep(x) ==
    \/ ServeGet(x) \/ HearGet(x) \/ Quiesced(x) \/ Acquire(x) \/ HearLockGet(x)
    \/ ServePost(x) \/ HearPost(x) \/ ClearBootId(x) \/ Interrupted(x)
    \/ ServeLogin(x) \/ HearLogin(x) \/ LoginStale(x) \/ Published(x)

Next ==
    \/ \E x \in Tabs :
          \/ SendRequest(x) \/ HearRequest(x) \/ HearDamaged(x)
          \/ HearAdvisory(x) \/ JobStep(x) \/ AskFails(x)
          \/ AnswerDamaged(x) \/ AskLogin(x) \/ LoginLost(x) \/ Retry(x)
          \/ RetryLoad(x) \/ Restart(x) \/ Reload(x)
    \/ Expire

Spec == Init /\ [][Next]_vars

\* Promises settle, the server answers, and the user presses the buttons.
FairSpec ==
    /\ Spec
    /\ \A x \in Tabs : /\ WF_vars(JobStep(x)) /\ WF_vars(HearRequest(x))
                       /\ WF_vars(Retry(x)) /\ WF_vars(RetryLoad(x)) /\ WF_vars(Restart(x))

-----------------------------------------------------------------------------
\* A page that may send requests may send them for the user it shows, and
\* an answer that its caller gets is that user's, and comes while the page
\* is shown and can be used: never one of a session that was superseded.
AnswersFitThePage ==
    \A x \in Tabs :
      LET t == tab[x] IN
      /\ t.lease # None => t.cached # 0 /\ t.lease = User(t) /\ Interactive(t) /\ ~t.unver
      /\ t.req.ans = "ok" => owner[t.req.cookie] = User(t) /\ Interactive(t)

\* Work of a user without an account is reachable by the cookie alone: no
\* cookie of one tab replaces another whose session lives.
LiveSessionsKept == \A s \in held : Alive(s) => s = jar

\* However recoveries, logins and other tabs interrupt each other, a page
\* that was loaded or hidden is shown and can be used in the end.
HiddenPagesComeBack == \A x \in Tabs : []<>Interactive(tab[x])

\* The editors of a page the user can work in save their drafts
\* (SessionProvider.test.tsx:1600, design.md:2480).
EditorsWork == \A x \in Tabs : Interactive(tab[x]) => tab[x].open
=============================================================================
