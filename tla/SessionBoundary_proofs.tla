------------------------ MODULE SessionBoundary_proofs ------------------------
(***************************************************************************)
(* That a page of the browser never uses an answer that is not of the user *)
(* it shows, and that no tab replaces a cookie whose session lives: for    *)
(* any number of tabs and users, and however often sessions are lost,      *)
(* accounts are linked, answers are damaged and pages are loaded again.    *)
(***************************************************************************)
EXTENDS SessionBoundary, SequenceTheorems, TLAPS

Whys == {"none", "UNVERIFIED", "DRIFT", "EXPIRED", "CSRF"}
Answers == {"none", "ok", "expired", "other", "csrf"}
Owners == 0..MaxUsers \cup {Google, None}
Events == [why : Whys, target : Owners, safe : BOOLEAN]
Recs == [ev : Events, pre : BOOLEAN]
Fails == [ev : Events, failed : BOOLEAN, suspend : BOOLEAN, pre : BOOLEAN, cur : BOOLEAN]
Jobs == [kind : {"none", "load", "recovery", "login"},
         pc : {"idle", "get", "quiesce", "lock", "lockget", "post", "clear", "publish", "login"},
         ev : Events, cur : BOOLEAN, steady : BOOLEAN, done : BOOLEAN, cookie : Nat,
         ans : Answers, next : Nat, id : 0..MaxUsers]
Reqs == [ans : Answers, cookie : Nat, fresh : BOOLEAN]
Pages(q) == [cached : Nat, lease : Owners, unver : BOOLEAN, rec : Recs, fail : Fails,
             hold : BOOLEAN, open : BOOLEAN, queue : {q}, asks : Owners, job : Jobs, req : Reqs]

\* The sessions the server made, of the users o.
Made(o) == 1..Len(o)
Cookies(o) == {0} \cup Made(o)

\* A page, of which nothing else is said than which session it shows.
Page(o, t) == t \in Pages(t.queue) /\ t.cached \in Cookies(o)

\* What a page shows and what it may send and hear.
Shows(o, t) ==
    /\ Page(o, t)
    /\ t.lease # None => /\ t.cached # 0 /\ t.lease = o[t.cached]
                         /\ ~t.hold /\ ~t.fail.suspend /\ ~t.unver
    /\ t.req # NoReq => t.lease # None /\ t.req.ans # "none"
    /\ t.req.ans = "ok" => t.req.cookie \in Made(o) /\ o[t.req.cookie] = t.lease
    /\ t.rec.pre \/ t.fail.pre => t.lease = None

\* A page without a session of its own is still at its first load.
Blank(t) ==
    /\ t.queue = <<>> /\ t.rec = NoRec /\ t.fail = NoFail /\ t.req = NoReq
    /\ t.lease = None /\ ~t.hold /\ ~t.unver

Places(kind) ==
    CASE kind = "none" -> {"idle"}
      [] kind = "load" -> {"get", "lock", "lockget", "post", "clear"}
      [] kind = "recovery" -> {"get", "quiesce", "lock", "lockget", "post", "clear", "publish"}
      [] kind = "login" -> {"lock", "login", "publish"}

\* What the page does fits what it shows: a recovery that has closed the
\* editors, or will before it looks, has no lease.
Does(o, t) ==
    /\ t.job.pc \in Places(t.job.kind)
    /\ t.job.kind = "recovery" /\ t.job.cur
         /\ (t.job.done \/ t.job.ev.why # "CSRF" \/ t.job.pc = "quiesce") => t.lease = None
    /\ t.job.cookie \in Cookies(o)
    /\ t.job.next # 0 => t.job.next \in Made(o)
    /\ t.job.pc \in {"clear", "publish"} => t.job.next # 0
    /\ t.job.pc \in {"post", "login"} /\ t.job.ans = "ok" => t.job.next # 0

PageFits(o, t) ==
    /\ Shows(o, t) /\ Does(o, t)
    /\ t.cached = 0 => Blank(t) /\ t.job.kind \in {"none", "load"}
    /\ t.job.kind = "load" => t.cached = 0

\* Only the tab that holds the Web Lock writes the cookie, it asked with the
\* cookie there is, and gets another one only when the session of it is dead.
MayWrite(x, t, w, j, gone) ==
    LET b == t.job IN
    /\ b.pc \in {"lockget", "post", "login"} => w = x /\ b.cookie = j
    /\ b.pc \in {"post", "login"} /\ b.ans = "ok" /\ b.next # b.cookie => b.cookie \in {0} \cup gone
WriterFits(x) == MayWrite(x, tab[x], writer, jar, dead)

Mails == [Tabs -> Seq([target : Owners, safe : BOOLEAN])]

IInv ==
    /\ owner \in Seq(Owners) /\ jar \in Cookies(owner) /\ boot \in 0..MaxUsers
    /\ mail \in Mails
    /\ DOMAIN tab = Tabs
    /\ \A x \in Tabs : PageFits(owner, tab[x]) /\ WriterFits(x)
    /\ LiveSessionsKept

-----------------------------------------------------------------------------
(***************************************************************************)
(* Changes of a page                                                       *)
(***************************************************************************)

LEMMA NothingTyped ==
  /\ NoEvent \in Events /\ NoRec \in Recs /\ NoFail \in Fails /\ NoJob \in Jobs /\ NoReq \in Reqs
  /\ Unloaded \in Pages(<<>>) /\ None \in Owners
  /\ ~NoRec.pre /\ ~NoFail.pre /\ ~NoFail.suspend /\ ~NoFail.failed
  /\ NoJob.kind = "none" /\ NoJob.pc = "idle" /\ NoJob.next = 0 /\ NoJob.cookie = 0 /\ NoReq.ans = "none" /\ ~NoReq.fresh
<1>1. 0 \in 0..MaxUsers /\ None \in Owners
  BY SessionAssumption DEF Owners
<1>2. NoEvent \in Events
  BY <1>1 DEF NoEvent, Event, Events, Whys
<1>3. NoRec \in Recs /\ NoFail \in Fails /\ NoReq \in Reqs
  BY <1>2 DEF NoRec, NoFail, NoReq, Recs, Fails, Reqs, Answers
<1>4. NoJob \in Jobs
  BY <1>1, <1>2 DEF NoJob, Jobs, Answers
<1>5. Unloaded \in Pages(<<>>)
  BY <1>1, <1>3, <1>4 DEF Unloaded, Pages
<1>6. QED
  BY <1>1, <1>2, <1>3, <1>4, <1>5 DEF NoRec, NoFail, NoJob, NoReq

LEMMA CookiesTyped ==
  ASSUME NEW o PROVE Cookies(o) \subseteq Nat
BY DEF Cookies, Made

\* An invalidation takes the lease and the request that was under it.
LEMMA InvalidateFits ==
  ASSUME NEW o, NEW t, Page(o, t)
  PROVE  LET u == Invalidate(t) IN
         /\ Page(o, u) /\ u.lease = None /\ u.req = NoReq
         /\ u.cached = t.cached /\ u.unver = t.unver /\ u.rec = t.rec /\ u.fail = t.fail
         /\ u.hold = t.hold /\ u.queue = t.queue /\ u.asks = t.asks
         /\ u.job.kind = t.job.kind /\ u.job.pc = t.job.pc /\ u.job.ev = t.job.ev
         /\ u.job.cur = t.job.cur /\ u.job.done = t.job.done /\ u.job.cookie = t.job.cookie
         /\ u.job.ans = t.job.ans /\ u.job.next = t.job.next
<1> DEFINE jb == [t.job EXCEPT !.steady = FALSE]
           u == [t EXCEPT !.lease = None, !.job = jb, !.req = NoReq]
<1>1. t \in Pages(t.queue) /\ t.job \in Jobs
  BY DEF Page, Pages
<1>2. /\ jb \in Jobs /\ jb.kind = t.job.kind /\ jb.pc = t.job.pc /\ jb.ev = t.job.ev
      /\ jb.cur = t.job.cur /\ jb.done = t.job.done /\ jb.cookie = t.job.cookie
      /\ jb.ans = t.job.ans /\ jb.next = t.job.next
  BY <1>1 DEF Jobs
<1> HIDE DEF jb
<1>3. /\ u \in Pages(t.queue) /\ u.lease = None /\ u.req = NoReq /\ u.job = jb
      /\ u.cached = t.cached /\ u.unver = t.unver /\ u.rec = t.rec /\ u.fail = t.fail
      /\ u.hold = t.hold /\ u.queue = t.queue /\ u.asks = t.asks
  BY <1>1, <1>2, NothingTyped DEF Pages
<1>4. Invalidate(t) = u
  BY <1>1 DEF Invalidate, jb, Pages
<1> HIDE DEF u
<1>5. QED
  BY <1>2, <1>3, <1>4 DEF Page

LEMMA SuspendFits ==
  ASSUME NEW o, NEW t, Page(o, t), NEW ev \in Events
  PROVE  LET u == Suspend(t, ev) IN
         /\ Shows(o, u) /\ u.lease = None /\ u.req = NoReq /\ u.fail.suspend /\ ~u.fail.pre
         /\ u.fail # NoFail
         /\ u.cached = t.cached /\ u.unver = t.unver /\ u.rec = t.rec
         /\ u.hold = t.hold /\ u.queue = t.queue /\ u.asks = t.asks
         /\ u.job.kind = t.job.kind /\ u.job.pc = t.job.pc /\ u.job.ev = t.job.ev
         /\ u.job.cur = t.job.cur /\ u.job.done = t.job.done /\ u.job.cookie = t.job.cookie
         /\ u.job.ans = t.job.ans /\ u.job.next = t.job.next
<1> DEFINE i == Invalidate(t)
           f == [NoFail EXCEPT !.ev = ev, !.suspend = TRUE]
           u == [i EXCEPT !.fail = f]
<1>1. /\ Page(o, i) /\ i.lease = None /\ i.req = NoReq
      /\ i.cached = t.cached /\ i.unver = t.unver /\ i.rec = t.rec
      /\ i.hold = t.hold /\ i.queue = t.queue /\ i.asks = t.asks
      /\ i.job.kind = t.job.kind /\ i.job.pc = t.job.pc /\ i.job.ev = t.job.ev
      /\ i.job.cur = t.job.cur /\ i.job.done = t.job.done /\ i.job.cookie = t.job.cookie
      /\ i.job.ans = t.job.ans /\ i.job.next = t.job.next
  BY InvalidateFits
<1>2. f \in Fails /\ f.suspend /\ ~f.pre /\ f # NoFail
  BY NothingTyped DEF Fails
<1>3. Suspend(t, ev) = u
  BY DEF Suspend
<1> HIDE DEF i, f
<1>4. /\ u \in Pages(i.queue) /\ u.fail = f /\ u.lease = None /\ u.req = NoReq /\ u.job = i.job
      /\ u.cached = i.cached /\ u.unver = i.unver /\ u.rec = i.rec
      /\ u.hold = i.hold /\ u.queue = i.queue /\ u.asks = i.asks
  BY <1>1, <1>2 DEF Page, Pages
<1> HIDE DEF u
<1>5. Shows(o, u)
  BY <1>1, <1>2, <1>4, NothingTyped DEF Shows, Page
<1>6. QED
  BY <1>1, <1>2, <1>3, <1>4, <1>5

LEMMA AdvanceFits ==
  ASSUME NEW o, NEW t, Page(o, t)
  PROVE  LET u == Advance(t) IN
         /\ Page(o, u) /\ (Shows(o, t) => Shows(o, u)) /\ u.rec = NoRec /\ ~u.job.cur
         /\ u.lease = t.lease /\ (t.req = NoReq => u.req = NoReq)
         /\ u.req.ans = t.req.ans /\ u.req.cookie = t.req.cookie
         /\ u.cached = t.cached /\ u.unver = t.unver
         /\ u.hold = t.hold /\ u.asks = t.asks
         /\ u.fail.suspend = t.fail.suspend /\ u.fail.pre = t.fail.pre
         /\ u.job.kind = t.job.kind /\ u.job.pc = t.job.pc /\ u.job.ev = t.job.ev
         /\ u.job.done = t.job.done /\ u.job.cookie = t.job.cookie
         /\ u.job.ans = t.job.ans /\ u.job.next = t.job.next
<1> DEFINE jb == [t.job EXCEPT !.cur = FALSE]
           rq == [t.req EXCEPT !.fresh = FALSE]
           f == [t.fail EXCEPT !.cur = FALSE]
           q == Remove(t.queue, "recovery")
           u == [t EXCEPT !.rec = NoRec, !.job = jb, !.req = rq, !.fail = f, !.queue = q]
<1>1. t \in Pages(t.queue) /\ t.job \in Jobs /\ t.req \in Reqs /\ t.fail \in Fails
  BY DEF Page, Pages
<1>2. /\ jb \in Jobs /\ jb.kind = t.job.kind /\ jb.pc = t.job.pc /\ jb.ev = t.job.ev
      /\ ~jb.cur /\ jb.done = t.job.done /\ jb.cookie = t.job.cookie
      /\ jb.ans = t.job.ans /\ jb.next = t.job.next
  BY <1>1 DEF Jobs
<1>3. rq \in Reqs /\ rq.ans = t.req.ans /\ rq.cookie = t.req.cookie /\ (t.req = NoReq => rq = NoReq)
  <2>1. rq \in Reqs /\ rq.ans = t.req.ans /\ rq.cookie = t.req.cookie /\ ~rq.fresh
    BY <1>1 DEF Reqs
  <2> HIDE DEF rq
  <2>2. ASSUME t.req = NoReq PROVE rq = NoReq
    <3>1. NoReq.ans = rq.ans /\ NoReq.cookie = rq.cookie /\ NoReq.fresh = rq.fresh
      BY <2>1, <2>2 DEF NoReq, Reqs
    <3>2. QED
      BY <2>1, <3>1, NothingTyped DEF Reqs
  <2>3. QED
    BY <1>1, <2>1, <2>2 DEF Reqs
<1>4. f \in Fails /\ f.suspend = t.fail.suspend /\ f.pre = t.fail.pre
  BY <1>1 DEF Fails
<1>5. Advance(t) = u
  BY <1>1 DEF Advance, Pages
<1> HIDE DEF jb, rq, f, q
<1>6. /\ u \in Pages(q) /\ u.queue = q /\ u.rec = NoRec /\ u.job = jb /\ u.req = rq /\ u.fail = f
      /\ u.cached = t.cached /\ u.unver = t.unver /\ u.lease = t.lease /\ u.hold = t.hold
      /\ u.asks = t.asks
  BY <1>1, <1>2, <1>3, <1>4, NothingTyped DEF Pages
<1> HIDE DEF u
<1>7. Page(o, u) /\ (Shows(o, t) => Shows(o, u))
  BY <1>3, <1>4, <1>6, NothingTyped DEF Shows, Page
<1>8. QED
  BY <1>2, <1>3, <1>4, <1>5, <1>6, <1>7

-----------------------------------------------------------------------------
(***************************************************************************)
(* The next job of a page                                                  *)
(***************************************************************************)

\* u shows what t shows, and begins a job of its own, or none.
Begins(o, t, u) ==
    /\ Shows(o, u) /\ Does(o, u) /\ u.job.kind # "load" /\ u.job.next = 0
    /\ u.job.pc \in {"idle", "get", "quiesce", "lock"}
    /\ u.cached = t.cached /\ u.unver = t.unver /\ u.hold = t.hold

LEMMA AttemptBegins ==
  ASSUME NEW o, NEW t, Shows(o, t), NEW j \in Cookies(o)
  PROVE  Begins(o, t, Attempt(t, j))
<1> DEFINE ev == t.rec.ev
           b == [NoJob EXCEPT !.kind = "recovery", !.ev = ev, !.done = t.rec.pre]
           a == [t EXCEPT !.job = b]
           s == Suspend(a, ev)
           ask(p) == AskSession(p, "get", j)
           quit == Quiesce(s)
<1>1. t \in Pages(t.queue) /\ ev \in Events /\ t.rec.pre \in BOOLEAN
  BY DEF Shows, Page, Pages, Recs
<1>2. b \in Jobs /\ b.kind = "recovery" /\ b.ev = ev /\ b.done = t.rec.pre /\ b.next = 0 /\ b.cookie = 0
  BY <1>1, NothingTyped DEF Jobs
<1> HIDE DEF b
<1>3. /\ a \in Pages(t.queue) /\ a.job = b /\ a.queue = t.queue /\ a.lease = t.lease /\ a.req = t.req
      /\ a.cached = t.cached /\ a.unver = t.unver /\ a.hold = t.hold /\ a.asks = t.asks
      /\ a.rec = t.rec /\ a.fail = t.fail
  BY <1>1, <1>2 DEF Pages
<1> HIDE DEF a, ev
<1>4. Shows(o, a) /\ Page(o, a)
  BY <1>3 DEF Shows, Page
<1>5. /\ Shows(o, s) /\ s.lease = None /\ s.cached = t.cached /\ s.unver = t.unver /\ s.hold = t.hold
      /\ s.asks = t.asks /\ s.job.kind = "recovery" /\ s.job.ev = ev /\ s.job.done = t.rec.pre
      /\ s.job.next = 0 /\ s.job.cookie = 0
  BY <1>1, <1>2, <1>3, <1>4, SuspendFits
<1> HIDE DEF s
<1>6. ASSUME NEW p, Shows(o, p), p.job.kind = "recovery", p.job.done \/ p.job.ev.why # "CSRF" => p.lease = None
      PROVE  /\ Shows(o, ask(p)) /\ Does(o, ask(p)) /\ ask(p).job.kind = "recovery" /\ ask(p).job.next = 0
             /\ ask(p).job.pc = "get" /\ ask(p).cached = p.cached /\ ask(p).unver = p.unver
             /\ ask(p).hold = p.hold /\ ask(p).asks = p.asks
    <2> DEFINE c == [p.job EXCEPT !.pc = "get", !.cookie = j, !.ans = "none", !.next = 0]
               u == [p EXCEPT !.job = c]
    <2>1. p \in Pages(p.queue) /\ p.job \in Jobs
      BY <1>6 DEF Shows, Page, Pages
    <2>2. /\ c \in Jobs /\ c.pc = "get" /\ c.next = 0 /\ c.cookie = j /\ c.kind = "recovery" /\ c.done = p.job.done
          /\ c.ev = p.job.ev
      BY <1>6, <2>1, CookiesTyped DEF Jobs, Answers
    <2> HIDE DEF c
    <2>3. /\ u \in Pages(p.queue) /\ u.job = c /\ u.queue = p.queue /\ u.lease = p.lease /\ u.req = p.req
          /\ u.cached = p.cached /\ u.unver = p.unver /\ u.hold = p.hold /\ u.asks = p.asks
          /\ u.rec = p.rec /\ u.fail = p.fail
      BY <2>1, <2>2 DEF Pages
    <2>4. ask(p) = u
      BY <2>1 DEF AskSession, c, Pages
    <2> HIDE DEF u
    <2>5. Shows(o, u)
      BY <1>6, <2>3 DEF Shows, Page
    <2>6. Does(o, u)
      BY <1>6, <2>2, <2>3 DEF Does, Places, Cookies
    <2>7. QED
      BY <2>2, <2>3, <2>4, <2>5, <2>6
<1>7. Begins(o, t, quit)
  <2> DEFINE c == [s.job EXCEPT !.pc = "quiesce"]
             u == [s EXCEPT !.job = c, !.open = FALSE]
  <2>1. s \in Pages(s.queue) /\ s.job \in Jobs
    BY <1>5 DEF Shows, Page, Pages
  <2>2. c \in Jobs /\ c.pc = "quiesce" /\ c.next = 0 /\ c.cookie = 0 /\ c.kind = "recovery"
    BY <1>5, <2>1 DEF Jobs
  <2> HIDE DEF c
  <2>3. /\ u \in Pages(s.queue) /\ u.job = c /\ u.queue = s.queue /\ u.lease = s.lease /\ u.req = s.req
        /\ u.cached = s.cached /\ u.unver = s.unver /\ u.hold = s.hold /\ u.asks = s.asks
        /\ u.rec = s.rec /\ u.fail = s.fail
    BY <2>1, <2>2 DEF Pages
  <2>4. quit = u
    BY <2>1 DEF Quiesce, c, Pages
  <2> HIDE DEF u
  <2>5. Shows(o, u)
    BY <1>5, <2>3 DEF Shows, Page
  <2>6. Does(o, u)
    BY <1>5, <2>2, <2>3 DEF Does, Places, Cookies
  <2>7. QED
    BY <1>5, <2>2, <2>3, <2>4, <2>5, <2>6 DEF Begins
<1>8. ev.why = "CSRF" => Begins(o, t, ask(a))
  <2>1. ev.why = "CSRF" => ((a.job.done \/ a.job.ev.why # "CSRF") => a.lease = None)
    BY <1>2, <1>3, <1>4 DEF Shows
  <2> HIDE DEF ask
  <2>2. QED
    BY <1>2, <1>3, <1>4, <1>6, <2>1 DEF Begins
<1>9. Begins(o, t, ask(s))
  <2> HIDE DEF ask
  <2>1. QED
    BY <1>5, <1>6 DEF Begins
<1>10. Attempt(t, j) = IF ev.why = "CSRF" THEN ask(a)
                       ELSE IF ev.why # "UNVERIFIED" /\ t.rec.pre THEN ask(s) ELSE quit
  BY DEF Attempt, a, b, s, ev
<1>11. QED
  BY <1>7, <1>8, <1>9, <1>10

LEMMA WithJob ==
  ASSUME NEW o, NEW t, Shows(o, t), NEW b \in Jobs
  PROVE  LET u == [t EXCEPT !.job = b] IN
         /\ Shows(o, u) /\ u.job = b /\ u.queue = t.queue /\ u.lease = t.lease /\ u.req = t.req
         /\ u.cached = t.cached /\ u.unver = t.unver /\ u.hold = t.hold /\ u.asks = t.asks
         /\ u.rec = t.rec /\ u.fail = t.fail
<1> DEFINE u == [t EXCEPT !.job = b]
<1>1. t \in Pages(t.queue)
  BY DEF Shows, Page
<1>2. /\ u \in Pages(t.queue) /\ u.job = b /\ u.queue = t.queue /\ u.lease = t.lease /\ u.req = t.req
      /\ u.cached = t.cached /\ u.unver = t.unver /\ u.hold = t.hold /\ u.asks = t.asks
      /\ u.rec = t.rec /\ u.fail = t.fail
  BY <1>1 DEF Pages
<1> HIDE DEF u
<1>3. Shows(o, u)
  BY <1>2 DEF Shows, Page
<1>4. QED
  BY <1>2, <1>3 DEF u

LEMMA RunNextBegins ==
  ASSUME NEW o, NEW t, Shows(o, t), NEW j \in Cookies(o)
  PROVE  Begins(o, t, RunNext(t, j))
<1> DEFINE h == [t EXCEPT !.queue = Tail(@)]
           b == [NoJob EXCEPT !.kind = "login", !.pc = "lock"]
           none == [t EXCEPT !.job = NoJob]
           login == [h EXCEPT !.job = b]
<1>1. t \in Pages(t.queue)
  BY DEF Shows, Page
<1>2. /\ h \in Pages(Tail(t.queue)) /\ h.queue = Tail(t.queue) /\ h.lease = t.lease /\ h.req = t.req
      /\ h.cached = t.cached /\ h.unver = t.unver /\ h.hold = t.hold
      /\ h.rec = t.rec /\ h.fail = t.fail
  BY <1>1 DEF Pages
<1> HIDE DEF h
<1>3. Shows(o, h)
  BY <1>2 DEF Shows, Page
<1>4. b \in Jobs /\ b.kind = "login" /\ b.pc = "lock" /\ b.next = 0 /\ b.cookie = 0
  BY NothingTyped DEF Jobs
<1> HIDE DEF b
<1>5. Begins(o, t, none)
  <2>1. /\ Shows(o, none) /\ none.job = NoJob
        /\ none.cached = t.cached /\ none.unver = t.unver /\ none.hold = t.hold
    BY NothingTyped, WithJob
  <2> HIDE DEF none
  <2>2. Does(o, none)
    BY <2>1, NothingTyped DEF Does, Places, Cookies
  <2>3. QED
    BY <2>1, <2>2, NothingTyped DEF Begins
<1>6. Begins(o, t, login)
  <2>1. /\ Shows(o, login) /\ login.job = b
        /\ login.cached = h.cached /\ login.unver = h.unver /\ login.hold = h.hold
    BY <1>3, <1>4, WithJob
  <2> HIDE DEF login
  <2>2. Does(o, login)
    BY <1>4, <2>1 DEF Does, Places, Cookies
  <2>3. QED
    BY <1>2, <1>4, <2>1, <2>2 DEF Begins
<1>7. Begins(o, t, Attempt(h, j))
  <2>1. Begins(o, h, Attempt(h, j))
    BY <1>3, AttemptBegins
  <2>2. QED
    BY <1>2, <2>1 DEF Begins
<1>8. RunNext(t, j) = IF t.queue = <<>> THEN none
                      ELSE IF Head(t.queue) = "recovery" THEN Attempt(h, j) ELSE login
  BY DEF RunNext, h, b
<1>9. QED
  BY <1>5, <1>6, <1>7, <1>8

LEMMA EndJobBegins ==
  ASSUME NEW o, NEW t, Shows(o, t), NEW j \in Cookies(o)
  PROVE  Begins(o, t, EndJob(t, j))
<1> DEFINE as == IF t.job.kind = "login" THEN None ELSE t.asks
           r == IF t.job.kind = "recovery" /\ t.job.cur THEN NoRec ELSE t.rec
           e == [t EXCEPT !.asks = as, !.rec = r]
<1>1. t \in Pages(t.queue)
  BY DEF Shows, Page
<1>2. as \in Owners /\ r \in Recs /\ (r.pre => t.rec.pre)
  BY <1>1, NothingTyped DEF Pages
<1>3. EndJob(t, j) = RunNext(e, j)
  BY <1>1 DEF EndJob, Pages
<1> HIDE DEF as, r
<1>4. /\ e \in Pages(t.queue) /\ e.queue = t.queue /\ e.lease = t.lease /\ e.req = t.req
      /\ e.cached = t.cached /\ e.unver = t.unver /\ e.hold = t.hold
      /\ e.rec = r /\ e.fail = t.fail
  BY <1>1, <1>2 DEF Pages
<1> HIDE DEF e
<1>5. Shows(o, e)
  BY <1>2, <1>4, NothingTyped DEF Shows, Page, Recs
<1>6. Begins(o, e, RunNext(e, j))
  BY <1>5, RunNextBegins
<1>7. QED
  BY <1>3, <1>4, <1>6 DEF Begins

-----------------------------------------------------------------------------
(***************************************************************************)
(* Recoveries                                                              *)
(***************************************************************************)

\* u goes on with the job of t, or begins one of its own.
SameJob(t, u) ==
    /\ u.job.pc = t.job.pc /\ u.job.cookie = t.job.cookie
    /\ u.job.ans = t.job.ans /\ u.job.next = t.job.next
NewJob(u) == u.job.pc \in {"idle", "get", "quiesce", "lock"} /\ u.job.next = 0

Goes(o, t, u) ==
    /\ Shows(o, u) /\ Does(o, u) /\ u.job.kind # "load" /\ u.cached = t.cached
    /\ SameJob(t, u) \/ NewJob(u)

LEMMA BeginRecoveryGoes ==
  ASSUME NEW o, NEW t, Shows(o, t), Does(o, t), t.job.kind # "load", NEW ev \in Events,
         NEW pre \in BOOLEAN, pre => t.lease = None, NEW j \in Cookies(o)
  PROVE  Goes(o, t, BeginRecovery(t, ev, pre, j))
<1> DEFINE a == [t EXCEPT !.unver = @ \/ ev.why = "UNVERIFIED"]
           f == [NoFail EXCEPT !.ev = ev, !.suspend = a.fail.suspend]
           bs == Suspend(a, ev)
           bf == [a EXCEPT !.fail = f]
           b == IF ev.why # "CSRF" THEN bs ELSE IF a.fail = NoFail THEN a ELSE bf
           rc == [ev |-> ev, pre |-> pre]
           q == Append(b.queue, "recovery")
           c == [b EXCEPT !.rec = rc, !.queue = q]
<1>1. t \in Pages(t.queue)
  BY DEF Shows, Page
<1>2. (t.unver \/ ev.why = "UNVERIFIED") \in BOOLEAN
  BY Zenon
<1>3. /\ a \in Pages(t.queue) /\ a.job = t.job /\ a.queue = t.queue /\ a.lease = t.lease
      /\ a.req = t.req /\ a.cached = t.cached /\ a.rec = t.rec /\ a.fail = t.fail /\ a.hold = t.hold
      /\ (a.unver <=> t.unver \/ ev.why = "UNVERIFIED")
  BY <1>1, <1>2 DEF Pages
<1> HIDE DEF a
<1>4. Page(o, a)
  BY <1>3 DEF Shows, Page
<1>5. a.fail.suspend \in BOOLEAN
  BY <1>3 DEF Pages, Fails
<1>6. f \in Fails /\ (f.suspend <=> a.fail.suspend) /\ ~f.pre
  BY <1>5, NothingTyped DEF Fails, NoFail
<1> HIDE DEF f
<1>7. /\ Shows(o, bs) /\ bs.lease = None /\ bs.cached = t.cached
      /\ bs.job.kind = t.job.kind /\ bs.job.pc = t.job.pc /\ bs.job.ev = t.job.ev
      /\ bs.job.cur = t.job.cur /\ bs.job.done = t.job.done /\ bs.job.cookie = t.job.cookie
      /\ bs.job.ans = t.job.ans /\ bs.job.next = t.job.next
  BY <1>3, <1>4, SuspendFits
<1>8. ev.why = "CSRF" => Shows(o, a)
  BY <1>3, <1>4 DEF Shows
<1>9. /\ bf \in Pages(a.queue) /\ bf.job = t.job /\ bf.queue = t.queue /\ bf.lease = t.lease
      /\ bf.req = t.req /\ bf.cached = t.cached /\ bf.rec = t.rec /\ bf.fail = f /\ bf.hold = t.hold
      /\ bf.unver = a.unver
  BY <1>3, <1>6 DEF Pages
<1> HIDE DEF bs, bf
<1>10. ev.why = "CSRF" => Shows(o, bf)
  BY <1>3, <1>4, <1>6, <1>9 DEF Shows, Page
<1>11. /\ Shows(o, b) /\ b.cached = t.cached /\ b.lease \in {None, t.lease}
       /\ b.job.kind = t.job.kind /\ b.job.pc = t.job.pc /\ b.job.ev = t.job.ev
       /\ b.job.cur = t.job.cur /\ b.job.done = t.job.done /\ b.job.cookie = t.job.cookie
       /\ b.job.ans = t.job.ans /\ b.job.next = t.job.next
  BY <1>3, <1>7, <1>8, <1>9, <1>10
<1> HIDE DEF b
<1>12. rc \in Recs /\ rc.pre = pre /\ b \in Pages(b.queue)
  BY <1>11 DEF Recs, Shows, Page
<1> HIDE DEF rc
<1>13. /\ c \in Pages(q) /\ c.job = b.job /\ c.queue = q /\ c.lease = b.lease
       /\ c.req = b.req /\ c.cached = b.cached /\ c.rec = rc /\ c.fail = b.fail /\ c.hold = b.hold
       /\ c.unver = b.unver
  BY <1>12 DEF Pages
<1>14. BeginRecovery(t, ev, pre, j) = IF c.job.kind = "none" THEN RunNext(c, j) ELSE c
  BY <1>12 DEF BeginRecovery, a, f, bs, bf, b, rc, Pages
<1> HIDE DEF c, q
<1>15. Shows(o, c)
  BY <1>11, <1>12, <1>13 DEF Shows, Page
<1>16. Does(o, c)
  BY <1>11, <1>13 DEF Does
<1>17. CASE c.job.kind = "none"
  <2>1. Begins(o, c, RunNext(c, j))
    BY <1>15, RunNextBegins
  <2>2. QED
    BY <1>11, <1>13, <1>14, <1>17, <2>1 DEF Begins, Goes, NewJob
<1>18. CASE c.job.kind # "none"
  BY <1>11, <1>13, <1>14, <1>15, <1>16, <1>18 DEF Goes, SameJob
<1>19. QED
  BY <1>17, <1>18

LEMMA RecoverGoes ==
  ASSUME NEW o, NEW t, Shows(o, t), Does(o, t), t.job.kind # "load", NEW ev \in Events,
         NEW pre \in BOOLEAN, pre => t.lease = None, NEW j \in Cookies(o)
  PROVE  Goes(o, t, Recover(t, ev, pre, j))
<1> DEFINE s == IF ev.why = "CSRF" THEN t ELSE Suspend(t, ev)
           a == Advance(s)
<1>1. Goes(o, t, t)
  BY DEF Goes, SameJob
<1>2. /\ Shows(o, s) /\ s.cached = t.cached /\ s.job.kind = t.job.kind /\ SameJob(t, s)
  BY SuspendFits DEF SameJob, Shows
<1> HIDE DEF s
<1>3. /\ Shows(o, a) /\ a.cached = t.cached /\ a.job.kind = t.job.kind /\ ~a.job.cur /\ SameJob(t, a)
  BY <1>2, AdvanceFits DEF Shows, SameJob
<1> HIDE DEF a
<1>4. Does(o, a)
  BY <1>3 DEF Does, SameJob
<1>5. Goes(o, a, BeginRecovery(a, ev, FALSE, j))
  BY <1>3, <1>4, BeginRecoveryGoes
<1>6. Goes(o, t, BeginRecovery(a, ev, FALSE, j))
  BY <1>3, <1>5 DEF Goes, SameJob
<1>7. Goes(o, t, BeginRecovery(t, ev, pre, j))
  BY BeginRecoveryGoes
<1>8. QED
  BY <1>1, <1>6, <1>7 DEF Recover, a, s

LEMMA NoticeGoes ==
  ASSUME NEW o, NEW t, Shows(o, t), Does(o, t), t.job.kind # "load", NEW why \in Whys, NEW j \in Cookies(o)
  PROVE  Goes(o, t, Notice(t, why, j))
<1> DEFINE ev == Event(why, None, FALSE)
<1>1. ev \in Events
  BY NothingTyped DEF Event, Events
<1> HIDE DEF ev
<1>2. Goes(o, t, Recover(t, ev, FALSE, j))
  BY <1>1, RecoverGoes
<1>3. QED
  BY <1>2 DEF Notice, ev

LEMMA HandOffGoes ==
  ASSUME NEW o, NEW t, Shows(o, t), Does(o, t), t.job.kind # "load", NEW j \in Cookies(o)
  PROVE  Goes(o, t, HandOff(t, j)) /\ NewJob(HandOff(t, j))
<1> DEFINE n == Notice(t, "EXPIRED", j)
<1>1. Goes(o, t, n)
  BY NoticeGoes DEF Whys
<1> HIDE DEF n
<1>2. Begins(o, n, EndJob(n, j))
  BY <1>1, EndJobBegins DEF Goes
<1>3. QED
  BY <1>1, <1>2 DEF HandOff, n, Begins, Goes, NewJob

-----------------------------------------------------------------------------
(***************************************************************************)
(* Publication                                                             *)
(***************************************************************************)

\* The page shows the session, under the lease of its user, and an answer to
\* an earlier request is kept only if it is of that user.
LEMMA CommitFits ==
  ASSUME owner \in Seq(Owners), NEW t, Shows(owner, t), ~t.unver, NEW s \in Made(owner), NEW remount
  PROVE  LET u == Commit(t, s, remount) IN Shows(owner, u) /\ u.cached = s /\ ~u.unver
<1> DEFINE i == Invalidate(t)
           ai == [i EXCEPT !.lease = owner[s]]
           a == IF t.lease = owner[s] THEN t ELSE ai
           v == Advance(a)
           op == IF User(t) = owner[s] /\ ~remount THEN v.open ELSE TRUE
           u == [v EXCEPT !.cached = s, !.fail = NoFail, !.hold = FALSE, !.open = op]
<1>1. owner[s] \in Owners /\ s \in Nat /\ s # 0
  BY DEF Made
<1>2. Page(owner, t)
  BY DEF Shows
<1>3. /\ Page(owner, i) /\ i.req = NoReq /\ i.cached = t.cached /\ i.unver = t.unver /\ i.queue = t.queue
  BY <1>2, InvalidateFits
<1> HIDE DEF i
<1>4. /\ ai \in Pages(i.queue) /\ ai.queue = i.queue /\ ai.lease = owner[s] /\ ai.req = NoReq
      /\ ai.cached = i.cached /\ ai.unver = i.unver
  BY <1>1, <1>3 DEF Page, Pages
<1> HIDE DEF ai
<1>5. /\ Page(owner, a) /\ a.lease = owner[s] /\ a.unver = t.unver
      /\ a.req # NoReq => a.lease # None /\ a.req.ans # "none"
      /\ a.req.ans = "ok" => a.req.cookie \in Made(owner) /\ owner[a.req.cookie] = owner[s]
  BY <1>2, <1>3, <1>4, NothingTyped DEF Page, Shows
<1> HIDE DEF a
<1>6. /\ Page(owner, v) /\ v.rec = NoRec /\ v.lease = a.lease /\ (a.req = NoReq => v.req = NoReq)
      /\ v.req.ans = a.req.ans /\ v.req.cookie = a.req.cookie /\ v.unver = a.unver
  BY <1>5, AdvanceFits
<1> HIDE DEF v
<1>7. v \in Pages(v.queue) /\ v.open \in BOOLEAN
  BY <1>6 DEF Page, Pages
<1>8. op \in BOOLEAN
  BY <1>7
<1> HIDE DEF op
<1>9. /\ u \in Pages(v.queue) /\ u.queue = v.queue /\ u.lease = v.lease /\ u.req = v.req
      /\ u.cached = s /\ u.rec = v.rec /\ u.fail = NoFail /\ ~u.hold /\ u.unver = v.unver
  BY <1>1, <1>7, <1>8, NothingTyped DEF Pages
<1>10. Commit(t, s, remount) = u
  <2>1. Commit(t, s, remount) =
          [v EXCEPT !.cached = s, !.fail = NoFail, !.hold = FALSE,
                    !.open = IF User(t) = owner[s] /\ ~remount THEN @ ELSE TRUE]
    BY DEF Commit, v, a, ai, i
  <2>2. QED
    BY <1>7, <2>1 DEF op, Pages
<1> HIDE DEF u
<1>11. Shows(owner, u)
  BY <1>1, <1>5, <1>6, <1>9, NothingTyped DEF Shows, Page, Cookies
<1>12. QED
  BY <1>5, <1>6, <1>9, <1>10, <1>11

\* u writes no cookie.
Settles(u) == u.job.pc \notin {"lockget", "post", "login"}

LEMMA PublishSessionFits ==
  ASSUME owner \in Seq(Owners), NEW t, Shows(owner, t), Does(owner, t), t.cached # 0,
         t.job.kind \in {"recovery", "login"}, NEW s \in Made(owner), NEW j \in Cookies(owner)
  PROVE  PageFits(owner, PublishSession(t, s, j)) /\ Settles(PublishSession(t, s, j))
<1>1. CASE ~Wanted(t)
  <2>1. Goes(owner, t, HandOff(t, j)) /\ NewJob(HandOff(t, j))
    BY HandOffGoes
  <2>2. QED
    BY <1>1, <2>1 DEF PublishSession, Goes, NewJob, PageFits, Settles
<1>2. CASE Wanted(t) /\ User(t) = owner[s]
  <2> DEFINE c == Commit(t, s, t.job.done)
  <2>1. Shows(owner, c) /\ c.cached = s
    BY <1>2, CommitFits DEF Wanted
  <2> HIDE DEF c
  <2>2. Begins(owner, c, EndJob(c, j))
    BY <2>1, EndJobBegins
  <2>3. PublishSession(t, s, j) = EndJob(c, j)
    BY <1>2 DEF PublishSession, c
  <2>4. QED
    BY <2>1, <2>2, <2>3 DEF Begins, PageFits, Settles, Made
<1>3. CASE Wanted(t) /\ User(t) # owner[s]
  <2> DEFINE i == Invalidate(t)
             b == [i.job EXCEPT !.pc = "publish", !.next = s, !.steady = TRUE]
             u == [i EXCEPT !.hold = TRUE, !.open = FALSE, !.job = b]
  <2>1. /\ Page(owner, i) /\ i.req = NoReq /\ i.lease = None /\ i.cached = t.cached
        /\ i.job.kind = t.job.kind /\ i.job.cookie = t.job.cookie /\ i \in Pages(i.queue) /\ i.job \in Jobs
    BY InvalidateFits DEF Shows, Page, Pages
  <2>2. PublishSession(t, s, j) = u
    BY <1>3, <2>1 DEF PublishSession, i, b, Pages
  <2> HIDE DEF i
  <2>3. b \in Jobs /\ b.kind = t.job.kind /\ b.pc = "publish" /\ b.next = s /\ b.cookie = t.job.cookie
    <3>1. s \in Nat
      BY DEF Made
    <3>2. QED
      BY <2>1, <3>1 DEF Jobs
  <2> HIDE DEF b
  <2>4. /\ u \in Pages(i.queue) /\ u.queue = i.queue /\ u.lease = None /\ u.req = NoReq /\ u.job = b
        /\ u.cached = t.cached
    BY <2>1, <2>3 DEF Pages
  <2> HIDE DEF u
  <2>5. Shows(owner, u)
    BY <2>1, <2>4, NothingTyped DEF Shows, Page
  <2>6. Does(owner, u)
    BY <2>3, <2>4 DEF Does, Places, Made
  <2>7. QED
    BY <2>2, <2>3, <2>4, <2>5, <2>6 DEF PageFits, Settles
<1>4. QED
  BY <1>1, <1>2, <1>3

LEMMA FinishPublishFits ==
  ASSUME owner \in Seq(Owners), NEW t, PageFits(owner, t), t.job.pc = "publish", NEW j \in Cookies(owner)
  PROVE  PageFits(owner, FinishPublish(t, j)) /\ Settles(FinishPublish(t, j))
<1>1. /\ Shows(owner, t) /\ Does(owner, t) /\ t.job.kind \in {"recovery", "login"} /\ t.cached # 0
      /\ t.job.next \in Made(owner)
  <2>1. t \in Pages(t.queue) /\ t.job \in Jobs
    BY DEF PageFits, Shows, Page, Pages
  <2>2. t.job.kind \in {"none", "load", "recovery", "login"}
    BY <2>1 DEF Jobs
  <2>3. QED
    BY <2>2 DEF PageFits, Does, Places
<1>2. CASE Wanted(t) /\ t.job.steady
  <2> DEFINE c == Commit(t, t.job.next, FALSE)
  <2>1. Shows(owner, c) /\ c.cached = t.job.next
    <3>1. owner \in Seq(Owners) /\ Shows(owner, t) /\ ~t.unver /\ t.job.next \in Made(owner)
      BY <1>1, <1>2 DEF Wanted
    <3>2. QED
      BY <3>1, CommitFits, ZenonT(40)
  <2> HIDE DEF c
  <2>2. Begins(owner, c, EndJob(c, j))
    BY <2>1, EndJobBegins
  <2>3. FinishPublish(t, j) = EndJob(c, j)
    BY <1>2 DEF FinishPublish, c
  <2>4. QED
    BY <1>1, <2>1, <2>2, <2>3 DEF Begins, PageFits, Settles, Made
<1>3. CASE ~(Wanted(t) /\ t.job.steady)
  <2>1. Goes(owner, t, HandOff(t, j)) /\ NewJob(HandOff(t, j))
    BY <1>1, HandOffGoes
  <2>2. QED
    BY <1>1, <1>3, <2>1 DEF FinishPublish, Goes, NewJob, PageFits, Settles
<1>4. QED
  BY <1>2, <1>3

LEMMA LoadEnds ==
  ASSUME NEW o, NEW t, PageFits(o, t), t.job.kind = "load", NEW j \in Cookies(o)
  PROVE  LET u == EndJob(t, j) IN
         /\ Shows(o, u) /\ Blank(u) /\ u.job = NoJob /\ u.cached = 0 /\ PageFits(o, u) /\ Settles(u)
<1> DEFINE e == [t EXCEPT !.asks = t.asks, !.rec = t.rec]
           u == [e EXCEPT !.job = NoJob]
<1>1. /\ Shows(o, t) /\ Blank(t) /\ t.cached = 0 /\ t \in Pages(t.queue) /\ t.queue = <<>>
  BY DEF PageFits, Shows, Page, Blank
<1>2. /\ e \in Pages(<<>>) /\ e.queue = <<>> /\ e.cached = 0 /\ Shows(o, e) /\ Blank(e)
  <2>1. /\ e \in Pages(<<>>) /\ e.queue = <<>> /\ e.cached = t.cached /\ e.rec = t.rec /\ e.fail = t.fail
        /\ e.req = t.req /\ e.lease = t.lease /\ e.hold = t.hold /\ e.unver = t.unver
    BY <1>1 DEF Pages
  <2> HIDE DEF e
  <2>2. QED
    BY <1>1, <2>1 DEF Shows, Page, Blank
<1>3. EndJob(t, j) = u
  <2>1. EndJob(t, j) = RunNext(e, j)
    BY <1>1 DEF EndJob, Pages
  <2> HIDE DEF e
  <2>2. QED
    BY <1>2, <2>1 DEF RunNext
<1> HIDE DEF e
<1>4. /\ Shows(o, u) /\ u.job = NoJob /\ u.queue = e.queue /\ u.lease = e.lease /\ u.req = e.req
      /\ u.cached = e.cached /\ u.unver = e.unver /\ u.hold = e.hold /\ u.rec = e.rec /\ u.fail = e.fail
  BY <1>2, NothingTyped, WithJob
<1> HIDE DEF u
<1>5. Blank(u)
  BY <1>2, <1>4 DEF Blank
<1>6. Does(o, u)
  BY <1>4, NothingTyped DEF Does, Places, Cookies
<1>7. QED
  BY <1>2, <1>3, <1>4, <1>5, <1>6, NothingTyped DEF PageFits, Settles

LEMMA LoadFits ==
  ASSUME owner \in Seq(Owners), NEW t, PageFits(owner, t), t.job.kind = "load",
         NEW s \in Made(owner), NEW j \in Cookies(owner)
  PROVE  PageFits(owner, Load(t, s, j)) /\ Settles(Load(t, s, j))
<1> DEFINE e == EndJob(t, j)
           u == [e EXCEPT !.cached = s, !.lease = owner[s], !.open = TRUE]
<1>1. Shows(owner, e) /\ Blank(e) /\ e.job = NoJob /\ e.cached = 0
  BY LoadEnds
<1>2. Load(t, s, j) = u
  BY DEF Load
<1> HIDE DEF e
<1>3. owner[s] \in Owners /\ s \in Nat /\ s # 0
  BY DEF Made
<1>4. e \in Pages(e.queue)
  BY <1>1 DEF Shows, Page
<1>5. /\ u \in Pages(e.queue) /\ u.queue = e.queue /\ u.cached = s /\ u.lease = owner[s]
      /\ u.req = e.req /\ u.job = e.job /\ u.unver = e.unver /\ u.hold = e.hold /\ u.rec = e.rec /\ u.fail = e.fail
  BY <1>3, <1>4 DEF Pages
<1> HIDE DEF u
<1>6. Shows(owner, u)
  BY <1>1, <1>3, <1>5, NothingTyped DEF Shows, Page, Blank, Cookies
<1>7. Does(owner, u)
  BY <1>1, <1>5, NothingTyped DEF Does, Places, Cookies
<1>8. QED
  BY <1>1, <1>2, <1>3, <1>5, <1>6, <1>7, NothingTyped DEF PageFits, Settles

LEMMA FailedFits ==
  ASSUME NEW o, NEW t, PageFits(o, t), t.job.kind \in {"load", "recovery"}, NEW j \in Cookies(o)
  PROVE  PageFits(o, Failed(t, j)) /\ Settles(Failed(t, j))
<1>1. CASE t.job.kind = "load"
  BY <1>1, LoadEnds DEF Failed
<1>2. CASE t.job.kind = "recovery" /\ ~t.job.cur
  <2>1. Goes(o, t, HandOff(t, j)) /\ NewJob(HandOff(t, j))
    BY <1>2, HandOffGoes DEF PageFits
  <2>2. QED
    BY <1>2, <2>1 DEF Failed, Goes, NewJob, PageFits, Settles
<1>3. CASE t.job.kind = "recovery" /\ t.job.cur
  <2> DEFINE f == [ev |-> t.job.ev, failed |-> TRUE, pre |-> t.job.done, cur |-> TRUE,
                   suspend |-> t.job.done \/ t.job.ev.why # "CSRF"]
             u == [t EXCEPT !.fail = f]
  <2>1. t \in Pages(t.queue) /\ t.job \in Jobs /\ Shows(o, t) /\ Does(o, t) /\ t.cached # 0
    BY <1>3 DEF PageFits, Shows, Page, Pages
  <2>2. (t.job.done \/ t.job.ev.why # "CSRF") \in BOOLEAN
    BY Zenon
  <2>3. /\ f \in Fails /\ (f.pre => t.job.done) /\ (f.suspend => t.job.done \/ t.job.ev.why # "CSRF")
    BY <2>1, <2>2 DEF Fails, Jobs
  <2>4. Failed(t, j) = EndJob(u, j)
    BY <1>3 DEF Failed
  <2> HIDE DEF f
  <2>5. /\ u \in Pages(t.queue) /\ u.queue = t.queue /\ u.cached = t.cached /\ u.lease = t.lease
        /\ u.req = t.req /\ u.job = t.job /\ u.unver = t.unver /\ u.hold = t.hold /\ u.rec = t.rec /\ u.fail = f
    BY <2>1, <2>3 DEF Pages
  <2> HIDE DEF u
  <2>6. t.job.done \/ t.job.ev.why # "CSRF" => t.lease = None
    BY <1>3, <2>1 DEF Does
  <2>7. Shows(o, u)
    BY <2>1, <2>3, <2>5, <2>6 DEF Shows, Page
  <2>8. Begins(o, u, EndJob(u, j))
    BY <2>7, EndJobBegins
  <2>9. QED
    BY <2>1, <2>4, <2>5, <2>8 DEF Begins, PageFits, Settles
<1>4. QED
  BY <1>1, <1>2, <1>3

-----------------------------------------------------------------------------
(***************************************************************************)
(* Steps                                                                   *)
(***************************************************************************)

\* Sessions are made, and none is made another user's.
Grows(o, p) ==
    /\ o \in Seq(Owners) /\ p \in Seq(Owners) /\ Len(o) <= Len(p)
    /\ \A s \in Made(o) : p[s] = o[s]

LEMMA GrowsFits ==
  ASSUME NEW o, NEW p, Grows(o, p), NEW t, PageFits(o, t)
  PROVE  PageFits(p, t)
<1>1. Made(o) \subseteq Made(p) /\ (\A s \in Made(o) : p[s] = o[s]) /\ 0 \notin Made(o) /\ 0 \notin Made(p)
  BY DEF Grows, Made
<1>2. Shows(p, t)
  BY <1>1 DEF PageFits, Shows, Page, Cookies
<1>3. Does(p, t)
  BY <1>1 DEF PageFits, Does, Cookies
<1>4. QED
  BY <1>2, <1>3 DEF PageFits

LEMMA AppendGrows ==
  ASSUME NEW o \in Seq(Owners), NEW u \in Owners
  PROVE  /\ Grows(o, o) /\ Grows(o, Append(o, u)) /\ Len(o) + 1 \in Made(Append(o, u))
         /\ Len(Append(o, u)) = Len(o) + 1 /\ Len(o) + 1 \notin Made(o)
BY DEF Grows, Made

\* The page of one tab changes to one that fits, the others are left alone.
LEMMA TurnKeeps ==
  ASSUME IInv, NEW x \in Tabs, NEW t, tab' = [tab EXCEPT ![x] = t],
         Grows(owner, owner'), PageFits(owner', t), MayWrite(x, t, writer', jar', dead'),
         dead \subseteq dead', jar' \in Cookies(owner'), boot' \in 0..MaxUsers, mail' \in Mails,
         jar' = jar \/ writer = x, writer # x => writer' \in {writer, x}, writer \in Tabs => writer' = writer \/ writer = x,
         LiveSessionsKept'
  PROVE  IInv'
<1>1. tab'[x] = t /\ DOMAIN tab' = Tabs /\ \A y \in Tabs \ {x} : tab'[y] = tab[y]
  BY DEF IInv
<1>2. \A y \in Tabs : PageFits(owner', tab'[y])
  BY <1>1, GrowsFits DEF IInv
<1>3. ASSUME NEW y \in Tabs, y # x PROVE MayWrite(y, tab'[y], writer', jar', dead')
  <2>1. MayWrite(y, tab[y], writer, jar, dead) /\ tab'[y] = tab[y]
    BY <1>1, <1>3 DEF IInv, WriterFits
  <2>2. QED
    BY <1>3, <2>1 DEF MayWrite
<1>4. \A y \in Tabs : WriterFits(y)'
  BY <1>1, <1>3 DEF WriterFits
<1>5. QED
  BY <1>1, <1>2, <1>4 DEF IInv, Grows

LEMMA SameStaysLive ==
  ASSUME LiveSessionsKept, jar' = jar, held' = held \/ held' = held \cup ({jar} \ {0}), dead \subseteq dead'
  PROVE  LiveSessionsKept'
BY DEF LiveSessionsKept, Alive

\* A step of a page that leaves the sessions and the cookie alone.
LEMMA QuietTurn ==
  ASSUME IInv, NEW x \in Tabs, NEW t, tab' = [tab EXCEPT ![x] = t], PageFits(owner, t),
         UNCHANGED <<owner, dead, jar, held>>, boot' \in 0..MaxUsers, mail' \in Mails,
         MayWrite(x, t, writer', jar, dead),
         writer # x => writer' \in {writer, x}, writer \in Tabs => writer' = writer \/ writer = x
  PROVE  IInv'
<1>1. LiveSessionsKept
  BY DEF IInv
<1>2. MayWrite(x, t, writer', jar', dead')
  BY DEF MayWrite
<1>3. Grows(owner, owner')
  BY DEF IInv, Grows
<1>4. LiveSessionsKept'
  BY <1>1, SameStaysLive
<1>5. jar' \in Cookies(owner') /\ jar' = jar /\ dead \subseteq dead' /\ PageFits(owner', t)
  BY DEF IInv
<1>6. QED
  BY <1>2, <1>3, <1>4, <1>5, TurnKeeps

\* A step after which the page writes no cookie, or goes on with its job.
LEMMA QuietKeeps ==
  ASSUME IInv, NEW x \in Tabs, NEW t, tab' = [tab EXCEPT ![x] = t], PageFits(owner, t),
         UNCHANGED <<owner, dead, jar, held>>, boot' \in 0..MaxUsers, mail' \in Mails,
         \/ Settles(t) /\ writer' \in {writer, IF writer = x THEN None ELSE writer}
         \/ SameJob(tab[x], t) /\ writer' = writer
  PROVE  IInv'
<1>1. MayWrite(x, tab[x], writer, jar, dead)
  BY DEF IInv, WriterFits
<1>2. MayWrite(x, t, writer', jar, dead)
  BY <1>1 DEF MayWrite, Settles, SameJob
<1>3. /\ writer # x => writer' \in {writer, x}
      /\ writer \in Tabs => writer' = writer \/ writer = x
  OBVIOUS
<1>4. QED
  BY <1>2, <1>3, QuietTurn

\* A step that tells the page of its session.
LEMMA GoesKeeps ==
  ASSUME IInv, NEW x \in Tabs, NEW t, tab' = [tab EXCEPT ![x] = t], Goes(owner, tab[x], t),
         tab[x].cached # 0, UNCHANGED <<owner, dead, jar, held, boot, writer>>, mail' \in Mails
  PROVE  IInv'
<1>1. PageFits(owner, t)
  BY DEF Goes, PageFits
<1>2. Settles(t) \/ SameJob(tab[x], t)
  BY DEF Goes, NewJob, Settles
<1>3. boot' \in 0..MaxUsers
  BY DEF IInv
<1>4. QED
  BY <1>1, <1>2, <1>3, QuietKeeps

\* What a page of the invariant is made of.
LEMMA PageOf ==
  ASSUME IInv, NEW x \in Tabs
  PROVE  LET t == tab[x] IN
         /\ PageFits(owner, t) /\ Shows(owner, t) /\ Does(owner, t) /\ Page(owner, t)
         /\ t \in Pages(t.queue) /\ t.job \in Jobs /\ t.fail \in Fails /\ t.req \in Reqs /\ t.rec \in Recs
         /\ t.job.kind = "load" <=> t.cached = 0 /\ t.job.kind # "none"
         /\ t.cached # 0 => t.cached \in Made(owner) /\ User(t) \in Owners
         /\ MayWrite(x, t, writer, jar, dead) /\ jar \in Cookies(owner) /\ boot \in 0..MaxUsers
<1>1. PageFits(owner, tab[x]) /\ MayWrite(x, tab[x], writer, jar, dead)
  BY DEF IInv, WriterFits
<1>2. /\ Shows(owner, tab[x]) /\ Does(owner, tab[x]) /\ Page(owner, tab[x])
      /\ tab[x] \in Pages(tab[x].queue) /\ (tab[x].cached # 0 => tab[x].cached \in Made(owner))
  BY <1>1 DEF PageFits, Shows, Page, Cookies
<1>3. jar \in Cookies(owner) /\ boot \in 0..MaxUsers /\ owner \in Seq(Owners)
  BY DEF IInv, Made, Cookies
<1>4. /\ tab[x].job \in Jobs /\ tab[x].fail \in Fails /\ tab[x].req \in Reqs /\ tab[x].rec \in Recs
  BY <1>2 DEF Pages
<1>5. tab[x].job.kind = "load" <=> tab[x].cached = 0 /\ tab[x].job.kind # "none"
  BY <1>1 DEF PageFits
<1>6. tab[x].cached # 0 => User(tab[x]) \in Owners
  BY <1>2, <1>3 DEF User, Made
<1>7. QED
  BY <1>1, <1>2, <1>3, <1>4, <1>5, <1>6

\* Another job at the same page.
LEMMA JobFits ==
  ASSUME NEW o, NEW t, PageFits(o, t), NEW b \in Jobs, b.kind = t.job.kind, b.pc \in Places(b.kind),
         b.kind = "recovery" /\ b.cur /\ (b.done \/ b.ev.why # "CSRF" \/ b.pc = "quiesce") => t.lease = None,
         b.cookie \in Cookies(o), b.next # 0 => b.next \in Made(o),
         b.pc \in {"clear", "publish"} => b.next # 0,
         b.pc \in {"post", "login"} /\ b.ans = "ok" => b.next # 0
  PROVE  LET u == [t EXCEPT !.job = b] IN
         /\ PageFits(o, u) /\ u.job = b /\ u.cached = t.cached /\ u.lease = t.lease /\ u.unver = t.unver
         /\ u.fail = t.fail /\ u.rec = t.rec /\ u.queue = t.queue
<1> DEFINE u == [t EXCEPT !.job = b]
<1>1. /\ Shows(o, u) /\ u.job = b /\ u.queue = t.queue /\ u.lease = t.lease /\ u.req = t.req
      /\ u.cached = t.cached /\ u.unver = t.unver /\ u.hold = t.hold
      /\ u.rec = t.rec /\ u.fail = t.fail
  BY WithJob DEF PageFits
<1> HIDE DEF u
<1>2. Does(o, u)
  BY <1>1 DEF Does
<1>3. u.cached = 0 => Blank(u)
  BY <1>1 DEF PageFits, Blank
<1>4. PageFits(o, u)
  BY <1>1, <1>2, <1>3 DEF PageFits
<1>5. QED
  BY <1>1, <1>4 DEF u

\* Where a page waits for an answer, its job has one.
LEMMA AskFits ==
  ASSUME NEW o, NEW t, PageFits(o, t), NEW pc \in Places(t.job.kind) \ {"idle", "quiesce", "clear", "publish"},
         t.job.kind = "recovery" /\ t.job.cur /\ (t.job.done \/ t.job.ev.why # "CSRF") => t.lease = None,
         NEW j \in Cookies(o)
  PROVE  LET u == AskSession(t, pc, j) IN
         /\ PageFits(o, u) /\ u \in Pages(u.queue) /\ u.job \in Jobs
         /\ u.job.kind = t.job.kind /\ u.job.pc = pc /\ u.job.cookie = j /\ u.job.ans = "none" /\ u.job.next = 0
         /\ u.job.cur = t.job.cur /\ u.job.done = t.job.done /\ u.job.ev = t.job.ev
         /\ u.lease = t.lease /\ u.cached = t.cached
<1> DEFINE b == [t.job EXCEPT !.pc = pc, !.cookie = j, !.ans = "none", !.next = 0]
           u == [t EXCEPT !.job = b]
<1>1. t \in Pages(t.queue) /\ t.job \in Jobs
  BY DEF PageFits, Shows, Page, Pages
<1>2. pc \in {"get", "lock", "lockget", "post", "login"}
  BY <1>1 DEF Places, Jobs
<1>3. /\ b \in Jobs /\ b.kind = t.job.kind /\ b.pc = pc /\ b.cookie = j /\ b.ans = "none" /\ b.next = 0
      /\ b.cur = t.job.cur /\ b.done = t.job.done /\ b.ev = t.job.ev
  BY <1>1, <1>2, CookiesTyped DEF Jobs, Answers
<1>4. AskSession(t, pc, j) = u
  BY <1>1 DEF AskSession, Pages
<1> HIDE DEF b
<1>5. PageFits(o, u) /\ u.job = b /\ u.cached = t.cached /\ u.lease = t.lease
  BY <1>2, <1>3, JobFits
<1> HIDE DEF u
<1>6. u \in Pages(u.queue)
  BY <1>5 DEF PageFits, Shows, Page
<1>7. QED
  BY <1>3, <1>4, <1>5, <1>6

LEMMA LoadingFits ==
  ASSUME NEW o, NEW j \in Cookies(o)
  PROVE  PageFits(o, Loading(j)) /\ Settles(Loading(j))
<1> DEFINE b == [NoJob EXCEPT !.kind = "load", !.pc = "get", !.cookie = j]
           u == [Unloaded EXCEPT !.job = b]
<1>1. b \in Jobs /\ b.kind = "load" /\ b.pc = "get" /\ b.next = 0 /\ b.cookie = j
  BY NothingTyped, CookiesTyped DEF Jobs
<1>2. Loading(j) = u
  BY DEF Loading
<1> HIDE DEF b
<1>3. /\ Unloaded.cached = 0 /\ Unloaded.lease = None /\ Unloaded.req = NoReq /\ Unloaded.queue = <<>>
      /\ Unloaded.rec = NoRec /\ Unloaded.fail = NoFail /\ ~Unloaded.hold /\ ~Unloaded.unver
  BY DEF Unloaded
<1>4. Shows(o, Unloaded)
  BY <1>3, NothingTyped DEF Shows, Page, Cookies
<1>5. /\ Shows(o, u) /\ u.job = b /\ u.queue = <<>> /\ u.lease = None /\ u.req = NoReq
      /\ u.cached = 0 /\ ~u.unver /\ ~u.hold /\ u.rec = NoRec /\ u.fail = NoFail
  BY <1>1, <1>3, <1>4, WithJob
<1> HIDE DEF u
<1>6. Does(o, u) /\ Blank(u)
  BY <1>1, <1>5 DEF Does, Places, Blank, Cookies
<1>7. QED
  BY <1>1, <1>2, <1>5, <1>6 DEF PageFits, Settles

LEMMA EndJobFits ==
  ASSUME NEW o, NEW t, Shows(o, t), t.cached # 0, NEW j \in Cookies(o)
  PROVE  PageFits(o, EndJob(t, j)) /\ Settles(EndJob(t, j))
<1>1. Begins(o, t, EndJob(t, j))
  BY EndJobBegins
<1>2. QED
  BY <1>1 DEF Begins, PageFits, Settles

-----------------------------------------------------------------------------
(***************************************************************************)
(* Requests                                                                *)
(***************************************************************************)

LEMMA WithoutRequest ==
  ASSUME NEW o, NEW t, Shows(o, t), Does(o, t)
  PROVE  LET u == [t EXCEPT !.req = NoReq] IN
         /\ Shows(o, u) /\ Does(o, u) /\ u.job = t.job /\ u.cached = t.cached /\ u.fail = t.fail
<1> DEFINE u == [t EXCEPT !.req = NoReq]
<1>1. t \in Pages(t.queue)
  BY DEF Shows, Page
<1>2. /\ u \in Pages(t.queue) /\ u.req = NoReq /\ u.queue = t.queue /\ u.lease = t.lease /\ u.job = t.job
      /\ u.cached = t.cached /\ u.unver = t.unver /\ u.hold = t.hold /\ u.rec = t.rec /\ u.fail = t.fail
  BY <1>1, NothingTyped DEF Pages
<1> HIDE DEF u
<1>3. Shows(o, u) /\ Does(o, u)
  BY <1>2, NothingTyped DEF Shows, Page, Does
<1>4. QED
  BY <1>2, <1>3 DEF u

LEMMA SendRequestKeeps ==
  ASSUME IInv, NEW x \in Tabs, SendRequest(x)
  PROVE  IInv'
<1> DEFINE t == tab[x]
           v == Verdict(jar, t.lease, t.cached)
           r == [ans |-> v, cookie |-> jar, fresh |-> TRUE]
           u == [t EXCEPT !.req = r]
<1>1. /\ PageFits(owner, t) /\ Shows(owner, t) /\ Does(owner, t) /\ t \in Pages(t.queue) /\ jar \in Cookies(owner)
      /\ jar \in Cookies(owner) /\ t.lease # None /\ t.cached # 0
  BY PageOf DEF IInv, SendRequest, Interactive
<1>2. v \in Answers /\ v # "none" /\ (v = "ok" => jar # 0 /\ owner[jar] = t.lease)
  BY DEF Verdict, Answers, Alive
<1>3. r \in Reqs
  BY <1>1, <1>2, CookiesTyped DEF Reqs
<1>4. tab' = [tab EXCEPT ![x] = u] /\ UNCHANGED <<owner, dead, jar, boot, writer, mail, held>>
  BY DEF SendRequest, Turn, server, browser
<1> HIDE DEF v, t
<1>5. /\ u \in Pages(t.queue) /\ u.req = r /\ u.queue = t.queue /\ u.lease = t.lease /\ u.job = t.job
      /\ u.cached = t.cached /\ u.unver = t.unver /\ u.hold = t.hold /\ u.rec = t.rec /\ u.fail = t.fail
  BY <1>1, <1>3 DEF Pages
<1> HIDE DEF u
<1>6. Shows(owner, u) /\ Does(owner, u)
  BY <1>1, <1>2, <1>5 DEF Shows, Page, Does, Cookies
<1>7. PageFits(owner, u) /\ SameJob(t, u)
  BY <1>1, <1>5, <1>6 DEF PageFits, SameJob
<1>8. QED
  BY <1>4, <1>7, QuietKeeps DEF IInv, t

LEMMA HearRequestKeeps ==
  ASSUME IInv, NEW x \in Tabs, HearRequest(x)
  PROVE  IInv'
<1> DEFINE t == tab[x]
           a == [t EXCEPT !.req = NoReq]
<1>1. /\ Shows(owner, t) /\ Does(owner, t) /\ t.req \in Reqs /\ jar \in Cookies(owner)
      /\ t.cached # 0 /\ t.job.kind # "load" /\ t.req.ans \in Answers /\ t.req.ans # "none"
  BY PageOf DEF HearRequest, Shows, Reqs
<1>2. /\ Shows(owner, a) /\ Does(owner, a) /\ a.job = t.job /\ a.cached = t.cached
  BY <1>1, WithoutRequest
<1>3. UNCHANGED <<owner, dead, jar, boot, writer, mail, held>> /\ mail' \in Mails
  BY DEF HearRequest, server, browser, IInv
<1>4. PICK u \in {a, Notice(a, "DRIFT", jar), Notice(a, "EXPIRED", jar), Notice(a, "CSRF", jar)} :
        tab' = [tab EXCEPT ![x] = u]
  BY <1>1 DEF HearRequest, Turn, Answers
<1> HIDE DEF a
<1>5. Goes(owner, a, a) /\ \A why \in Whys : Goes(owner, a, Notice(a, why, jar))
  BY <1>1, <1>2, NoticeGoes DEF Goes, SameJob
<1>6. Goes(owner, a, u)
  BY <1>4, <1>5 DEF Whys
<1>7. Goes(owner, t, u)
  BY <1>2, <1>6 DEF Goes, SameJob
<1>8. QED
  BY <1>1, <1>3, <1>4, <1>7, GoesKeeps

LEMMA HearDamagedKeeps ==
  ASSUME IInv, NEW x \in Tabs, HearDamaged(x)
  PROVE  IInv'
<1> DEFINE t == tab[x]
           a == [t EXCEPT !.req = NoReq]
           u == Notice(a, "UNVERIFIED", jar)
<1>1. /\ Shows(owner, t) /\ Does(owner, t) /\ jar \in Cookies(owner) /\ t.cached # 0 /\ t.job.kind # "load"
  BY PageOf, NothingTyped DEF HearDamaged, Shows
<1>2. /\ Shows(owner, a) /\ Does(owner, a) /\ a.job = t.job /\ a.cached = t.cached
  BY <1>1, WithoutRequest
<1>3. UNCHANGED <<owner, dead, jar, boot, writer, mail, held>> /\ mail' \in Mails
  BY DEF HearDamaged, server, browser, IInv
<1>4. tab' = [tab EXCEPT ![x] = u]
  BY DEF HearDamaged, Turn
<1> HIDE DEF a
<1>5. Goes(owner, a, u)
  BY <1>1, <1>2, NoticeGoes DEF Whys
<1> HIDE DEF u
<1>6. Goes(owner, t, u)
  BY <1>2, <1>5 DEF Goes, SameJob
<1>7. QED
  BY <1>1, <1>3, <1>4, <1>6, GoesKeeps

LEMMA HearAdvisoryKeeps ==
  ASSUME IInv, NEW x \in Tabs, HearAdvisory(x)
  PROVE  IInv'
<1> DEFINE t == tab[x]
           m == Head(mail[x])
           ev == Event(IF User(t) = m.target THEN "CSRF" ELSE "DRIFT", m.target, m.safe)
           u == Recover(t, ev, FALSE, jar)
<1>1. /\ Shows(owner, t) /\ Does(owner, t) /\ jar \in Cookies(owner) /\ t.cached # 0 /\ t.job.kind # "load"
  BY PageOf DEF HearAdvisory
<1>2. mail \in Mails /\ mail[x] # <<>> /\ mail' = [mail EXCEPT ![x] = Tail(@)]
  BY DEF HearAdvisory, IInv
<1>3. mail[x] \in Seq([target : Owners, safe : BOOLEAN])
  BY <1>2 DEF Mails
<1>4. m \in [target : Owners, safe : BOOLEAN] /\ Tail(mail[x]) \in Seq([target : Owners, safe : BOOLEAN])
  BY <1>2, <1>3, HeadTailProperties
<1>5. mail' \in Mails
  BY <1>2, <1>4 DEF Mails
<1>6. ev \in Events
  BY <1>4 DEF Event, Events, Whys
<1>7. tab' = [tab EXCEPT ![x] = u] /\ UNCHANGED <<owner, dead, jar, boot, writer, held>>
  BY DEF HearAdvisory, Turn, server
<1> HIDE DEF ev, m
<1>8. Goes(owner, t, u)
  BY <1>1, <1>6, RecoverGoes
<1> HIDE DEF u
<1>9. QED
  BY <1>1, <1>5, <1>7, <1>8, GoesKeeps

-----------------------------------------------------------------------------
(***************************************************************************)
(* Discovery and recovery                                                  *)
(***************************************************************************)

LEMMA ServeGetKeeps ==
  ASSUME IInv, NEW x \in Tabs, ServeGet(x)
  PROVE  IInv'
<1> DEFINE t == tab[x]
           b == t.job
           an == IF Alive(b.cookie) THEN "ok" ELSE "expired"
           nx == IF Alive(b.cookie) THEN b.cookie ELSE 0
           c == [b EXCEPT !.ans = an, !.next = nx]
           u == [t EXCEPT !.job = c]
<1>1. /\ PageFits(owner, t) /\ Does(owner, t) /\ t \in Pages(t.queue) /\ b \in Jobs
      /\ MayWrite(x, t, writer, jar, dead) /\ b.pc \in {"get", "lockget"}
  BY PageOf DEF ServeGet
<1>2. tab' = [tab EXCEPT ![x] = u] /\ UNCHANGED <<owner, dead, jar, boot, writer, mail, held>>
  BY <1>1 DEF ServeGet, Turn, Pages, Jobs, server, browser
<1>3. an \in Answers /\ nx \in Nat
  BY <1>1 DEF Answers, Jobs
<1> HIDE DEF an, nx
<1>4. /\ c \in Jobs /\ c.kind = b.kind /\ c.pc = b.pc /\ c.cur = b.cur /\ c.done = b.done /\ c.ev = b.ev
      /\ c.cookie = b.cookie /\ c.next = nx
  BY <1>1, <1>3 DEF Jobs
<1> HIDE DEF c
<1>5. nx # 0 => nx \in Made(owner)
  BY <1>1 DEF nx, Does, Cookies
<1>6. PageFits(owner, u) /\ u.job = c
  BY <1>1, <1>4, <1>5, JobFits DEF Does
<1> HIDE DEF u
<1>7. MayWrite(x, u, writer', jar, dead)
  BY <1>1, <1>2, <1>4, <1>6 DEF MayWrite
<1>8. QED
  BY <1>2, <1>6, <1>7, QuietTurn DEF IInv

\* A page that asks for a new session, and keeps its bootstrap ID.
LEMMA WaitForLockKeeps ==
  ASSUME IInv, NEW x \in Tabs, NEW t, PageFits(owner, t), WaitForLock(x, t), UNCHANGED <<owner, dead>>,
         t.job.kind \in {"load", "recovery"},
         t.job.kind = "recovery" /\ t.job.cur /\ (t.job.done \/ t.job.ev.why # "CSRF") => t.lease = None
  PROVE  IInv'
<1> DEFINE a == AskSession(t, "lock", 0)
           c == [a.job EXCEPT !.id = BootId]
           u == [a EXCEPT !.job = c]
<1>1. /\ PageFits(owner, a) /\ a \in Pages(a.queue) /\ a.job \in Jobs
      /\ a.job.kind = t.job.kind /\ a.job.pc = "lock" /\ a.job.cookie = 0 /\ a.job.next = 0
      /\ a.job.cur = t.job.cur /\ a.job.done = t.job.done /\ a.job.ev = t.job.ev /\ a.lease = t.lease
  <2>1. 0 \in Cookies(owner) /\ "lock" \in Places(t.job.kind)
    BY DEF Cookies, Places
  <2>2. QED
    BY <2>1, AskFits
<1>2. BootId \in 0..MaxUsers
  <2>1. CASE boot # 0
    BY <2>1 DEF BootId, IInv
  <2>2. CASE boot = 0
    <3>1. NewIds # {} /\ NewIds \subseteq 0..MaxUsers
      BY <2>2 DEF WaitForLock, NewIds, Anonymous
    <3>2. QED
      BY <2>2, <3>1 DEF BootId
  <2>3. QED
    BY <2>1, <2>2
<1>3. boot' = BootId /\ tab' = [tab EXCEPT ![x] = u] /\ UNCHANGED <<jar, writer, mail, held>>
  BY <1>1 DEF WaitForLock, Turn, Pages
<1> HIDE DEF a
<1>4. /\ c \in Jobs /\ c.kind = a.job.kind /\ c.pc = "lock" /\ c.cookie = 0 /\ c.next = 0
      /\ c.cur = a.job.cur /\ c.done = a.job.done /\ c.ev = a.job.ev
  BY <1>1, <1>2 DEF Jobs
<1> HIDE DEF c
<1>5. c.cookie \in Cookies(owner) /\ c.pc \in Places(c.kind)
  BY <1>1, <1>4 DEF Cookies, Places
<1>6. PageFits(owner, u) /\ u.job = c
  BY <1>1, <1>4, <1>5, JobFits
<1> HIDE DEF u
<1>7. Settles(u)
  BY <1>4, <1>6 DEF Settles
<1>8. boot' \in 0..MaxUsers /\ mail' \in Mails
  BY <1>2, <1>3 DEF IInv
<1>9. QED
  BY <1>3, <1>6, <1>7, <1>8, QuietKeeps

LEMMA AnnounceTyped ==
  ASSUME owner \in Seq(Owners), mail \in Mails, NEW s \in Made(owner), NEW safe \in BOOLEAN, NEW Z,
         mail' = [y \in Tabs |-> IF Z[y] THEN mail[y] ELSE Append(mail[y], [target |-> owner[s], safe |-> safe])]
  PROVE  mail' \in Mails
<1>1. [target |-> owner[s], safe |-> safe] \in [target : Owners, safe : BOOLEAN]
  BY DEF Made
<1>2. ASSUME NEW y \in Tabs
      PROVE  /\ mail[y] \in Seq([target : Owners, safe : BOOLEAN])
             /\ Append(mail[y], [target |-> owner[s], safe |-> safe]) \in Seq([target : Owners, safe : BOOLEAN])
  BY <1>1, AppendProperties DEF Mails
<1>3. QED
  BY <1>2 DEF Mails

LEMMA TellTyped ==
  ASSUME IInv, NEW x, NEW t, NEW s \in Made(owner), NEW safe \in BOOLEAN, Tell(x, t, s, safe)
  PROVE  mail' \in Mails
<1> DEFINE Z == [y \in Tabs |-> y = x \/ User(t) = owner[s]]
<1>1. mail' = [y \in Tabs |-> IF Z[y] THEN mail[y] ELSE Append(mail[y], [target |-> owner[s], safe |-> safe])]
  BY DEF Tell
<1> HIDE DEF Z
<1>2. QED
  BY <1>1, AnnounceTyped DEF IInv

LEMMA PublishRecoveredKeeps ==
  ASSUME IInv, NEW x \in Tabs, NEW t, PageFits(owner, t), PublishRecovered(x, t),
         t.job.kind = "recovery", t.job.next # 0
  PROVE  IInv'
<1> DEFINE s == t.job.next
           safe == t.job.ev.safe /\ t.job.ev.target = owner[s]
           u == PublishSession(t, s, jar)
<1>1. Shows(owner, t) /\ Does(owner, t) /\ t.cached # 0 /\ s \in Made(owner)
  BY DEF PageFits, Does
<1>2. safe \in BOOLEAN
  BY Zenon
<1>3. Tell(x, t, s, safe) /\ tab' = [tab EXCEPT ![x] = u] /\ UNCHANGED <<owner, dead, jar, boot, writer, held>>
  BY DEF PublishRecovered, Turn, server
<1> HIDE DEF safe, s
<1>4. mail' \in Mails
  BY <1>1, <1>2, <1>3, TellTyped
<1>5. PageFits(owner, u) /\ Settles(u)
  BY <1>1, PublishSessionFits DEF IInv
<1> HIDE DEF u
<1>6. QED
  BY <1>3, <1>4, <1>5, QuietKeeps DEF IInv

\* The editors are closed for a page that has lost its lease.
LEMMA QuiesceFits ==
  ASSUME NEW o, NEW t, PageFits(o, t), t.job.kind = "recovery"
  PROVE  LET u == Quiesce(Suspend(t, t.job.ev)) IN PageFits(o, u) /\ Settles(u)
<1> DEFINE s == Suspend(t, t.job.ev)
           c == [s.job EXCEPT !.pc = "quiesce"]
           u == [s EXCEPT !.job = c, !.open = FALSE]
<1>1. Page(o, t) /\ Does(o, t) /\ t.job.ev \in Events /\ t.cached # 0
  BY DEF PageFits, Shows, Page, Pages, Jobs
<1>2. /\ Shows(o, s) /\ s.lease = None /\ s.cached = t.cached /\ s.job.kind = "recovery"
      /\ s.job.cookie = t.job.cookie /\ s.job.next = t.job.next
  BY <1>1, SuspendFits
<1> HIDE DEF s
<1>3. s \in Pages(s.queue) /\ s.job \in Jobs
  BY <1>2 DEF Shows, Page, Pages
<1>4. c \in Jobs /\ c.kind = "recovery" /\ c.pc = "quiesce" /\ c.next = t.job.next /\ c.cookie = t.job.cookie
  BY <1>2, <1>3 DEF Jobs
<1>5. Quiesce(s) = u
  BY <1>3 DEF Quiesce, Pages
<1> HIDE DEF c
<1>6. /\ u \in Pages(s.queue) /\ u.job = c /\ u.queue = s.queue /\ u.lease = s.lease /\ u.req = s.req
      /\ u.cached = s.cached /\ u.unver = s.unver /\ u.hold = s.hold /\ u.rec = s.rec /\ u.fail = s.fail
  BY <1>3, <1>4 DEF Pages
<1> HIDE DEF u
<1>7. Shows(o, u)
  BY <1>2, <1>6 DEF Shows, Page
<1>8. Does(o, u)
  BY <1>1, <1>2, <1>4, <1>6 DEF Does, Places
<1>9. QED
  BY <1>1, <1>2, <1>4, <1>5, <1>6, <1>7, <1>8 DEF PageFits, Settles, s

LEMMA HearGetKeeps ==
  ASSUME IInv, NEW x \in Tabs, HearGet(x)
  PROVE  IInv'
<1> DEFINE t == tab[x]
           b == t.job
           weak == b.ev.why = "CSRF" /\ ~b.done
<1>1. /\ PageFits(owner, t) /\ Does(owner, t) /\ b \in Jobs /\ jar \in Cookies(owner) /\ b.pc = "get"
      /\ b.next # 0 => b.next \in Made(owner)
  BY PageOf DEF HearGet, Does
<1>2. b.kind \in {"load", "recovery"}
  BY <1>1 DEF Does, Places, Jobs
<1>3. CASE b.kind = "load" /\ b.next # 0 /\ Turn(x, Load(t, b.next, jar)) /\ UNCHANGED <<server, browser, used>>
  <2>1. PageFits(owner, Load(t, b.next, jar)) /\ Settles(Load(t, b.next, jar))
    BY <1>1, <1>3, LoadFits DEF IInv
  <2>2. QED
    BY <1>3, <2>1, QuietKeeps DEF Turn, server, browser, IInv
<1>4. CASE b.kind = "recovery" /\ Turn(x, Quiesce(Suspend(t, b.ev))) /\ UNCHANGED <<server, browser, used>>
  <2>1. PageFits(owner, Quiesce(Suspend(t, b.ev))) /\ Settles(Quiesce(Suspend(t, b.ev)))
    BY <1>1, <1>4, QuiesceFits
  <2>2. QED
    BY <1>4, <2>1, QuietKeeps DEF Turn, server, browser, IInv
<1>5. CASE b.next = 0 /\ (b.kind = "recovery" => ~weak) /\ WaitForLock(x, t)
  <2>1. b.kind = "recovery" /\ b.cur /\ (b.done \/ b.ev.why # "CSRF") => t.lease = None
    BY <1>1 DEF Does
  <2>2. UNCHANGED <<owner, dead>>
    BY <1>5 DEF WaitForLock, server
  <2>3. QED
    BY <1>1, <1>2, <1>5, <2>1, <2>2, WaitForLockKeeps
<1>6. CASE b.kind = "recovery" /\ b.next # 0 /\ PublishRecovered(x, t)
  BY <1>1, <1>6, PublishRecoveredKeeps
<1>7. QED
  BY <1>2, <1>3, <1>4, <1>5, <1>6 DEF HearGet

LEMMA QuiescedKeeps ==
  ASSUME IInv, NEW x \in Tabs, Quiesced(x)
  PROVE  IInv'
<1> DEFINE p == tab[x]
           c == [p.job EXCEPT !.done = TRUE]
           t == [p EXCEPT !.job = c]
           ev == t.job.ev
           f == [t.fail EXCEPT !.failed = TRUE]
           tf == [t EXCEPT !.fail = f]
<1>1. /\ PageFits(owner, p) /\ Does(owner, p) /\ p \in Pages(p.queue) /\ p.job \in Jobs
      /\ jar \in Cookies(owner) /\ p.job.pc = "quiesce"
  <2>1. PageFits(owner, p) /\ Does(owner, p) /\ p \in Pages(p.queue) /\ p.job \in Jobs /\ jar \in Cookies(owner)
    BY PageOf
  <2>2. [p EXCEPT !.job.done = TRUE].job.pc = p.job.pc
    BY <2>1 DEF Pages, Jobs
  <2>3. QED
    BY <2>1, <2>2 DEF Quiesced
<1>2. p.job.kind = "recovery" /\ p.cached # 0
  BY <1>1 DEF Does, Places, Jobs, PageFits
<1>3. /\ c \in Jobs /\ c.kind = "recovery" /\ c.pc = "quiesce" /\ c.cur = p.job.cur /\ c.done /\ c.ev = p.job.ev
      /\ c.cookie = p.job.cookie /\ c.next = p.job.next
  BY <1>1, <1>2 DEF Jobs
<1>4. Quiesced(x) <=>
        CASE Stale(t) -> Turn(x, HandOff(t, jar)) /\ UNCHANGED <<server, browser, used>>
          [] ~Stale(t) /\ ev.why = "UNVERIFIED" ->
               Turn(x, EndJob(tf, jar)) /\ UNCHANGED <<server, browser, used>>
          [] ~Stale(t) /\ t.job.next # 0 -> PublishRecovered(x, t)
          [] ~Stale(t) /\ ev.why = "CSRF" /\ t.job.next = 0 -> WaitForLock(x, t)
          [] OTHER -> Turn(x, AskSession(t, "get", jar)) /\ UNCHANGED <<server, browser, used>>
  <2>1. [p EXCEPT !.job.done = TRUE] = t
    BY <1>1 DEF Pages
  <2> HIDE DEF t
  <2>2. t.job.pc = "quiesce"
    BY <1>1, <1>3 DEF t, Pages
  <2>3. [t EXCEPT !.fail.failed = TRUE] = tf
    BY <1>1, <1>3 DEF t, Pages
  <2>4. QED
    BY <2>1, <2>2, <2>3 DEF Quiesced
<1> HIDE DEF c
<1>5. /\ PageFits(owner, t) /\ t.job = c /\ t.cached = p.cached /\ t.lease = p.lease
  <2>1. c.pc \in Places(c.kind) /\ (c.cur => p.lease = None)
    BY <1>1, <1>2, <1>3 DEF Does, Places
  <2>2. QED
    BY <1>1, <1>2, <1>3, <2>1, JobFits DEF Does
<1> HIDE DEF t
<1>6. /\ Shows(owner, t) /\ Does(owner, t) /\ t \in Pages(t.queue) /\ t.cached # 0 /\ (t.job.cur => t.lease = None)
  BY <1>1, <1>2, <1>3, <1>5 DEF PageFits, Shows, Page, Does
<1>7. CASE Turn(x, HandOff(t, jar)) /\ UNCHANGED <<server, browser, used>>
  <2>1. Goes(owner, t, HandOff(t, jar)) /\ NewJob(HandOff(t, jar))
    BY <1>1, <1>3, <1>5, <1>6, HandOffGoes
  <2>2. PageFits(owner, HandOff(t, jar)) /\ Settles(HandOff(t, jar))
    BY <1>6, <2>1 DEF Goes, NewJob, PageFits, Settles
  <2>3. QED
    BY <1>7, <2>2, QuietKeeps DEF Turn, server, browser, IInv
<1>8. CASE Turn(x, EndJob(tf, jar)) /\ UNCHANGED <<server, browser, used>>
  <2>1. f \in Fails /\ f.suspend = t.fail.suspend /\ f.pre = t.fail.pre
    BY <1>6 DEF Pages, Fails
  <2> HIDE DEF f
  <2>2. /\ tf \in Pages(t.queue) /\ tf.queue = t.queue /\ tf.cached = t.cached /\ tf.lease = t.lease
        /\ tf.req = t.req /\ tf.unver = t.unver /\ tf.hold = t.hold /\ tf.rec = t.rec /\ tf.fail = f
    BY <1>6, <2>1 DEF Pages
  <2> HIDE DEF tf
  <2>3. Shows(owner, tf)
    BY <1>6, <2>1, <2>2 DEF Shows, Page
  <2>4. PageFits(owner, EndJob(tf, jar)) /\ Settles(EndJob(tf, jar))
    BY <1>1, <1>6, <2>2, <2>3, EndJobFits
  <2>5. QED
    BY <1>8, <2>4, QuietKeeps DEF Turn, server, browser, IInv
<1>9. CASE t.job.next # 0 /\ PublishRecovered(x, t)
  BY <1>3, <1>5, <1>9, PublishRecoveredKeeps
<1>10. CASE WaitForLock(x, t)
  <2>1. UNCHANGED <<owner, dead>>
    BY <1>10 DEF WaitForLock, server
  <2>2. QED
    BY <1>3, <1>5, <1>6, <1>10, <2>1, WaitForLockKeeps
<1>11. CASE Turn(x, AskSession(t, "get", jar)) /\ UNCHANGED <<server, browser, used>>
  <2>1. PageFits(owner, AskSession(t, "get", jar)) /\ AskSession(t, "get", jar).job.pc = "get"
    BY <1>1, <1>3, <1>5, <1>6, AskFits DEF Places
  <2>2. QED
    BY <1>11, <2>1, QuietKeeps DEF Turn, server, browser, IInv, Settles
<1>12. QED
  BY <1>4, <1>7, <1>8, <1>9, <1>10, <1>11

LEMMA AcquireKeeps ==
  ASSUME IInv, NEW x \in Tabs, Acquire(x)
  PROVE  IInv'
<1> DEFINE t == tab[x]
           b == t.job
           pc == IF b.kind = "login" THEN "login" ELSE "lockget"
           a == AskSession(t, pc, jar)
           c == [a.job EXCEPT !.steady = TRUE, !.cur = TRUE]
           u == [a EXCEPT !.job = c]
<1>1. /\ PageFits(owner, t) /\ Shows(owner, t) /\ Does(owner, t) /\ b \in Jobs /\ jar \in Cookies(owner)
      /\ b.pc = "lock" /\ writer = None
  BY PageOf DEF Acquire, LockFree
<1>2. b.kind \in {"load", "recovery", "login"} /\ (b.kind = "recovery" => b.cur) /\ (b.kind = "login" => t.cached # 0)
  BY <1>1 DEF Does, Places, Jobs, Acquire, Stale, PageFits
<1>3. UNCHANGED <<owner, dead, jar, boot, mail, held>> /\ mail' \in Mails /\ boot' \in 0..MaxUsers
  BY DEF Acquire, server, IInv
<1>4. CASE b.kind = "login" /\ Turn(x, EndJob(t, jar)) /\ UNCHANGED writer
  <2>1. PageFits(owner, EndJob(t, jar)) /\ Settles(EndJob(t, jar))
    BY <1>1, <1>2, <1>4, EndJobFits
  <2>2. QED
    BY <1>3, <1>4, <2>1, QuietKeeps DEF Turn
<1>5. CASE writer' = x /\ Turn(x, [a EXCEPT !.job.steady = TRUE, !.job.cur = TRUE])
  <2>1. pc \in Places(b.kind) \ {"idle", "quiesce", "clear", "publish"} /\ pc \in {"login", "lockget"}
    BY <1>2 DEF Places
  <2> HIDE DEF pc
  <2>2. /\ PageFits(owner, a) /\ a \in Pages(a.queue) /\ a.job \in Jobs /\ a.lease = t.lease
        /\ a.job.kind = b.kind /\ a.job.pc = pc /\ a.job.cookie = jar /\ a.job.ans = "none" /\ a.job.next = 0
        /\ a.job.cur = b.cur /\ a.job.done = b.done /\ a.job.ev = b.ev
    BY <1>1, <2>1, AskFits DEF Does
  <2>3. tab' = [tab EXCEPT ![x] = u]
    BY <1>5, <2>2 DEF Turn, Pages, Jobs
  <2> HIDE DEF a
  <2>4. /\ c \in Jobs /\ c.kind = b.kind /\ c.pc = pc /\ c.cookie = jar /\ c.ans = "none" /\ c.next = 0
        /\ c.done = b.done /\ c.ev = b.ev
    BY <2>2 DEF Jobs
  <2> HIDE DEF c
  <2>5. PageFits(owner, u) /\ u.job = c
    <3>1. b.kind = "recovery" /\ (c.done \/ c.ev.why # "CSRF" \/ c.pc = "quiesce") => a.lease = None
      BY <1>1, <1>2, <2>1, <2>2, <2>4 DEF Does
    <3>2. QED
      BY <1>1, <2>1, <2>2, <2>4, <3>1, JobFits
  <2> HIDE DEF u
  <2>6. MayWrite(x, u, writer', jar, dead)
    BY <1>5, <2>4, <2>5 DEF MayWrite
  <2>7. writer \notin Tabs
    BY <1>1, SessionAssumption
  <2>8. QED
    BY <1>1, <1>3, <1>5, <2>3, <2>5, <2>6, <2>7, QuietTurn
<1>6. QED
  BY <1>4, <1>5 DEF Acquire

LEMMA HearLockGetKeeps ==
  ASSUME IInv, NEW x \in Tabs, HearLockGet(x)
  PROVE  IInv'
<1> DEFINE t == tab[x]
           c == [t.job EXCEPT !.pc = "clear"]
           u == [t EXCEPT !.job = c]
           a == AskSession(t, "post", jar)
<1>1. /\ PageFits(owner, t) /\ Does(owner, t) /\ t \in Pages(t.queue) /\ t.job \in Jobs /\ jar \in Cookies(owner)
      /\ MayWrite(x, t, writer, jar, dead) /\ t.job.pc = "lockget"
  BY PageOf DEF HearLockGet
<1>2. t.job.kind \in {"load", "recovery"}
  BY <1>1 DEF Does, Places, Jobs
<1>3. UNCHANGED <<owner, dead, jar, boot, mail, held>> /\ mail' \in Mails /\ boot' \in 0..MaxUsers
  BY DEF HearLockGet, server, IInv
<1>4. CASE t.job.next # 0 /\ Turn(x, [t EXCEPT !.job.pc = "clear"]) /\ Release(x)
  <2>1. /\ c \in Jobs /\ c.kind = t.job.kind /\ c.pc = "clear" /\ c.cur = t.job.cur /\ c.done = t.job.done
        /\ c.ev = t.job.ev /\ c.cookie = t.job.cookie /\ c.next = t.job.next
    BY <1>1 DEF Jobs
  <2>2. tab' = [tab EXCEPT ![x] = u]
    BY <1>1, <1>4 DEF Turn, Pages
  <2> HIDE DEF c
  <2>3. c.pc \in Places(c.kind)
    BY <1>2, <2>1 DEF Places
  <2>4. PageFits(owner, u) /\ u.job = c
    BY <1>1, <1>4, <2>1, <2>3, JobFits DEF Does
  <2> HIDE DEF u
  <2>5. QED
    BY <1>3, <1>4, <2>1, <2>2, <2>4, QuietKeeps DEF Settles, Release
<1>5. CASE Turn(x, a) /\ UNCHANGED writer
  <2>1. PageFits(owner, a) /\ a.job.pc = "post" /\ a.job.cookie = jar /\ a.job.ans = "none"
    BY <1>1, <1>2, AskFits DEF Does, Places
  <2> HIDE DEF a
  <2>2. MayWrite(x, a, writer', jar, dead)
    BY <1>1, <1>5, <2>1 DEF MayWrite
  <2>3. QED
    BY <1>3, <1>5, <2>1, <2>2, QuietTurn DEF Turn
<1>6. QED
  BY <1>4, <1>5 DEF HearLockGet

LEMMA ClearBootIdKeeps ==
  ASSUME IInv, NEW x \in Tabs, ClearBootId(x)
  PROVE  IInv'
<1> DEFINE t == tab[x]
           b == t.job
<1>1. /\ PageFits(owner, t) /\ Shows(owner, t) /\ Does(owner, t) /\ b \in Jobs /\ jar \in Cookies(owner)
      /\ b.pc = "clear" /\ b.next \in Made(owner) /\ boot \in 0..MaxUsers
  BY PageOf DEF ClearBootId, Does
<1>2. b.kind \in {"load", "recovery"} /\ (b.kind = "recovery" => t.cached # 0)
  BY <1>1 DEF Does, Places, Jobs, PageFits
<1>3. /\ UNCHANGED <<owner, dead, jar, writer, mail, held>> /\ mail' \in Mails
      /\ boot' = IF boot = b.id THEN 0 ELSE boot
  BY DEF ClearBootId, server, IInv
<1>4. boot' \in 0..MaxUsers
  BY <1>1, <1>3, SessionAssumption
<1>5. PICK u \in {Load(t, b.next, jar), PublishSession(t, b.next, jar)} :
        tab' = [tab EXCEPT ![x] = u] /\ PageFits(owner, u) /\ Settles(u)
  <2>1. b.kind = "load" => PageFits(owner, Load(t, b.next, jar)) /\ Settles(Load(t, b.next, jar))
    BY <1>1, LoadFits DEF IInv
  <2>2. b.kind = "recovery" => PageFits(owner, PublishSession(t, b.next, jar)) /\ Settles(PublishSession(t, b.next, jar))
    BY <1>1, <1>2, PublishSessionFits DEF IInv
  <2>3. QED
    BY <1>2, <2>1, <2>2 DEF ClearBootId, Turn
<1>6. QED
  BY <1>3, <1>4, <1>5, QuietKeeps

LEMMA AnswerDamagedKeeps ==
  ASSUME IInv, NEW x \in Tabs, AnswerDamaged(x)
  PROVE  IInv'
<1> DEFINE t == tab[x]
           n == Notice(t, "UNVERIFIED", jar)
           u == EndJob(IF t.job.kind = "load" THEN t ELSE n, jar)
<1>1. /\ PageFits(owner, t) /\ Shows(owner, t) /\ Does(owner, t) /\ t.job \in Jobs /\ jar \in Cookies(owner)
      /\ t.job.pc \in {"get", "lockget"}
  BY PageOf DEF AnswerDamaged
<1>2. /\ UNCHANGED <<owner, dead, jar, boot, mail, held>> /\ mail' \in Mails /\ boot' \in 0..MaxUsers
      /\ writer' \in {writer, IF writer = x THEN None ELSE writer} /\ tab' = [tab EXCEPT ![x] = u]
  BY DEF AnswerDamaged, server, IInv, Release, Turn
<1>3. CASE t.job.kind = "load"
  <2>1. PageFits(owner, u) /\ Settles(u)
    BY <1>1, <1>3, LoadEnds
  <2>2. QED
    BY <1>2, <2>1, QuietKeeps
<1>4. CASE t.job.kind # "load"
  <2>1. t.cached # 0
    BY <1>1, <1>4 DEF PageFits, Does, Places
  <2>2. Goes(owner, t, n)
    BY <1>1, <1>4, NoticeGoes DEF Whys
  <2> HIDE DEF n
  <2>3. PageFits(owner, EndJob(n, jar)) /\ Settles(EndJob(n, jar))
    BY <1>1, <2>1, <2>2, EndJobFits DEF Goes
  <2>4. u = EndJob(n, jar)
    BY <1>4
  <2>5. QED
    BY <1>2, <2>3, <2>4, QuietKeeps
<1>5. QED
  BY <1>3, <1>4

LEMMA AskLoginKeeps ==
  ASSUME IInv, NEW x \in Tabs, AskLogin(x)
  PROVE  IInv'
<1> DEFINE t == tab[x]
           q == Append(t.queue, "login")
           as == User(t)
           a == [t EXCEPT !.asks = as, !.queue = q]
<1>1. /\ PageFits(owner, t) /\ Shows(owner, t) /\ Does(owner, t) /\ t \in Pages(t.queue) /\ jar \in Cookies(owner)
      /\ t.cached # 0 /\ as \in Owners
  BY PageOf DEF AskLogin, Interactive
<1>2. UNCHANGED <<owner, dead, jar, boot, writer, mail, held>> /\ mail' \in Mails /\ boot' \in 0..MaxUsers
  BY DEF AskLogin, server, browser, IInv
<1>3. tab' = [tab EXCEPT ![x] = IF t.job.kind = "none" THEN RunNext(a, jar) ELSE a]
  BY <1>1 DEF AskLogin, Turn, Pages
<1> HIDE DEF as, q
<1>4. /\ a \in Pages(q) /\ a.queue = q /\ a.cached = t.cached /\ a.lease = t.lease /\ a.job = t.job
      /\ a.req = t.req /\ a.unver = t.unver /\ a.hold = t.hold /\ a.rec = t.rec /\ a.fail = t.fail
  BY <1>1 DEF Pages
<1> HIDE DEF a
<1>5. Shows(owner, a) /\ Does(owner, a)
  BY <1>1, <1>4 DEF Shows, Page, Does
<1>6. CASE t.job.kind = "none"
  <2>1. Begins(owner, a, RunNext(a, jar))
    BY <1>1, <1>5, RunNextBegins
  <2>2. PageFits(owner, RunNext(a, jar)) /\ Settles(RunNext(a, jar))
    BY <1>1, <1>4, <2>1 DEF Begins, PageFits, Settles
  <2>3. tab' = [tab EXCEPT ![x] = RunNext(a, jar)]
    BY <1>3, <1>6
  <2>4. QED
    BY <1>2, <2>2, <2>3, QuietKeeps
<1>7. CASE t.job.kind # "none"
  <2>1. PageFits(owner, a) /\ SameJob(t, a)
    BY <1>1, <1>4, <1>5 DEF PageFits, SameJob
  <2>2. tab' = [tab EXCEPT ![x] = a]
    BY <1>3, <1>7
  <2>3. QED
    BY <1>2, <2>1, <2>2, QuietKeeps
<1>8. QED
  BY <1>6, <1>7

LEMMA PublishedKeeps ==
  ASSUME IInv, NEW x \in Tabs, Published(x)
  PROVE  IInv'
<1> DEFINE u == FinishPublish(tab[x], jar)
<1>1. PageFits(owner, u) /\ Settles(u)
  BY PageOf, FinishPublishFits DEF Published, IInv
<1>2. /\ UNCHANGED <<owner, dead, jar, boot, mail, held>> /\ mail' \in Mails /\ boot' \in 0..MaxUsers
      /\ writer' \in {writer, IF writer = x THEN None ELSE writer} /\ tab' = [tab EXCEPT ![x] = u]
  BY DEF Published, server, IInv, Release, Turn
<1> HIDE DEF u
<1>3. QED
  BY <1>1, <1>2, QuietKeeps

LEMMA RetryKeeps ==
  ASSUME IInv, NEW x \in Tabs, Retry(x)
  PROVE  IInv'
<1> DEFINE t == tab[x]
           u == Recover(t, t.fail.ev, t.fail.pre, jar)
<1>1. /\ PageFits(owner, t) /\ Shows(owner, t) /\ Does(owner, t) /\ t.fail \in Fails /\ jar \in Cookies(owner)
      /\ t.fail.failed
  BY PageOf DEF Retry
<1>2. t.cached # 0 /\ t.job.kind # "load"
  BY <1>1, NothingTyped DEF PageFits, Blank
<1>3. t.fail.ev \in Events /\ t.fail.pre \in BOOLEAN /\ (t.fail.pre => t.lease = None)
  BY <1>1 DEF Shows, Fails
<1>4. Goes(owner, t, u)
  BY <1>1, <1>2, <1>3, RecoverGoes
<1>5. tab' = [tab EXCEPT ![x] = u] /\ UNCHANGED <<owner, dead, jar, boot, writer, mail, held>> /\ mail' \in Mails
  BY DEF Retry, Turn, server, browser, IInv
<1> HIDE DEF u
<1>6. QED
  BY <1>2, <1>4, <1>5, GoesKeeps

LEMMA RetryLoadKeeps ==
  ASSUME IInv, NEW x \in Tabs, RetryLoad(x)
  PROVE  IInv'
<1>1. PageFits(owner, Loading(jar)) /\ Settles(Loading(jar))
  BY LoadingFits DEF IInv
<1>2. /\ tab' = [tab EXCEPT ![x] = Loading(jar)] /\ UNCHANGED <<owner, dead, jar, boot, writer, mail, held>>
      /\ mail' \in Mails /\ boot' \in 0..MaxUsers
  BY DEF RetryLoad, Turn, server, browser, IInv
<1>3. QED
  BY <1>1, <1>2, QuietKeeps

-----------------------------------------------------------------------------
(***************************************************************************)
(* The writers of the cookie                                               *)
(***************************************************************************)

LEMMA ServePostKeeps ==
  ASSUME IInv, NEW x \in Tabs, ServePost(x)
  PROVE  IInv'
<1> DEFINE t == tab[x]
           b == t.job
           nx == IF Alive(b.cookie) THEN b.cookie ELSE Len(owner) + 1
           c == [b EXCEPT !.ans = "ok", !.next = nx]
           u == [t EXCEPT !.job = c]
<1>1. /\ PageFits(owner, t) /\ Does(owner, t) /\ t \in Pages(t.queue) /\ b \in Jobs
      /\ MayWrite(x, t, writer, jar, dead) /\ b.pc = "post" /\ owner \in Seq(Owners) /\ jar \in Cookies(owner)
  BY PageOf DEF ServePost, IInv
<1>2. /\ tab' = [tab EXCEPT ![x] = u] /\ UNCHANGED <<dead, jar, boot, writer, mail, held>>
      /\ owner' = IF Alive(b.cookie) THEN owner ELSE Append(owner, b.id)
  BY <1>1 DEF ServePost, Turn, Pages, Jobs, browser
<1>3. Grows(owner, owner')
  <2>1. b.id \in Owners
    BY <1>1 DEF Jobs, Owners
  <2>2. QED
    BY <1>1, <1>2, <2>1, AppendGrows
<1>4. nx \in Made(owner') /\ nx \in Nat /\ nx # 0
  <2>1. CASE Alive(b.cookie)
    BY <1>1, <1>2, <2>1 DEF Does, Cookies, Alive, Made
  <2>2. CASE ~Alive(b.cookie)
    <3>1. b.id \in Owners
      BY <1>1 DEF Jobs, Owners
    <3>2. QED
      BY <1>1, <1>2, <2>2, <3>1, AppendGrows
  <2>3. QED
    BY <2>1, <2>2
<1>5. nx # b.cookie => b.cookie \in {0} \cup dead
  BY DEF Alive
<1> HIDE DEF nx
<1>6. /\ c \in Jobs /\ c.kind = b.kind /\ c.pc = "post" /\ c.cur = b.cur /\ c.done = b.done /\ c.ev = b.ev
      /\ c.cookie = b.cookie /\ c.next = nx
  BY <1>1, <1>4 DEF Jobs, Answers
<1> HIDE DEF c
<1>7. PageFits(owner', t) /\ Does(owner', t)
  BY <1>1, <1>3, GrowsFits DEF PageFits
<1>8. PageFits(owner', u) /\ u.job = c
  BY <1>1, <1>4, <1>6, <1>7, JobFits DEF Does
<1> HIDE DEF u
<1>9. MayWrite(x, u, writer', jar', dead')
  BY <1>1, <1>2, <1>5, <1>6, <1>8 DEF MayWrite
<1>10. LiveSessionsKept'
  BY <1>2, SameStaysLive DEF IInv
<1>11. jar' \in Cookies(owner') /\ boot' \in 0..MaxUsers /\ mail' \in Mails
  BY <1>1, <1>2, <1>3 DEF IInv, Cookies, Made, Grows
<1>12. QED
  BY <1>2, <1>3, <1>8, <1>9, <1>10, <1>11, TurnKeeps

\* The cookie changes only when its session is dead.
LEMMA NewCookieKeepsLive ==
  ASSUME IInv, NEW s, jar' = s \/ jar' = jar, jar' # jar => jar \in {0} \cup dead, dead \subseteq dead',
         held' \subseteq held \cup {0, jar'}
  PROVE  LiveSessionsKept'
<1>1. \A k \in held : Alive(k) => k = jar
  BY DEF IInv, LiveSessionsKept
<1>2. ASSUME NEW k \in held', k # 0, k \notin dead' PROVE k = jar'
  BY <1>1, <1>2 DEF Alive
<1>3. QED
  BY <1>2 DEF LiveSessionsKept, Alive

LEMMA HearPostKeeps ==
  ASSUME IInv, NEW x \in Tabs, HearPost(x)
  PROVE  IInv'
<1> DEFINE t == tab[x]
           b == t.job
           s == b.next
           c == [b EXCEPT !.pc = "clear"]
           u == [t EXCEPT !.job = c]
           Z == [y \in Tabs |-> y = x]
<1>1. /\ PageFits(owner, t) /\ Does(owner, t) /\ t \in Pages(t.queue) /\ b \in Jobs
      /\ MayWrite(x, t, writer, jar, dead) /\ b.pc = "post" /\ b.ans = "ok" /\ owner \in Seq(Owners)
  BY PageOf DEF HearPost, IInv
<1>2. s \in Made(owner) /\ s # 0 /\ b.cookie = jar /\ writer = x /\ (s # jar => jar \in {0} \cup dead)
  BY <1>1 DEF Does, MayWrite
<1>3. /\ tab' = [tab EXCEPT ![x] = u] /\ UNCHANGED <<owner, dead, boot>> /\ held' = held \cup {jar'}
      /\ jar' = s /\ writer' = None
      /\ mail' = [y \in Tabs |-> IF Z[y] THEN mail[y] ELSE Append(mail[y], [target |-> owner[s], safe |-> TRUE])]
  BY <1>1, <1>2 DEF HearPost, Turn, Release, Pages, server
<1> HIDE DEF Z
<1>4. mail' \in Mails
  BY <1>1, <1>2, <1>3, AnnounceTyped DEF IInv
<1> HIDE DEF s
<1>5. b.kind \in {"load", "recovery"}
  BY <1>1 DEF Does, Places, Jobs
<1>6. /\ c \in Jobs /\ c.kind = b.kind /\ c.pc = "clear" /\ c.cur = b.cur /\ c.done = b.done /\ c.ev = b.ev
      /\ c.cookie = b.cookie /\ c.next = b.next
  BY <1>1 DEF Jobs
<1> HIDE DEF c
<1>7. c.pc \in Places(c.kind)
  BY <1>5, <1>6 DEF Places
<1>8. PageFits(owner, u) /\ u.job = c
  BY <1>1, <1>2, <1>6, <1>7, JobFits DEF Does, s
<1> HIDE DEF u
<1>9. MayWrite(x, u, writer', jar', dead') /\ PageFits(owner', u) /\ Grows(owner, owner')
  BY <1>1, <1>3, <1>6, <1>8 DEF MayWrite, Grows
<1>10. LiveSessionsKept'
  BY <1>2, <1>3, NewCookieKeepsLive
<1>11. jar' \in Cookies(owner') /\ boot' \in 0..MaxUsers
  BY <1>2, <1>3 DEF IInv, Cookies
<1>12. QED
  BY <1>2, <1>3, <1>4, <1>9, <1>10, <1>11, TurnKeeps

LEMMA LogInTyped ==
  ASSUME IInv, NEW x \in Tabs, LogIn(tab[x])
  PROVE  /\ Grows(owner, owner') /\ Len(owner') = Len(owner) + 1 /\ Len(owner') \in Made(owner')
         /\ dead' = dead \cup {tab[x].job.cookie}
<1>1. tab[x] \in Pages(tab[x].queue) /\ owner \in Seq(Owners)
  BY PageOf DEF IInv
<1>2. tab[x].asks \in Owners /\ Google \in Owners
  BY <1>1 DEF Pages, Owners
<1>3. PICK u \in {Google, tab[x].asks} : owner' = Append(owner, u)
  BY DEF LogIn
<1>4. QED
  BY <1>1, <1>2, <1>3, AppendGrows DEF LogIn

LEMMA ServeLoginKeeps ==
  ASSUME IInv, NEW x \in Tabs, ServeLogin(x)
  PROVE  IInv'
<1> DEFINE t == tab[x]
           b == t.job
           v == Verdict(b.cookie, t.asks, t.cached)
           nx == IF v = "ok" THEN Len(owner') ELSE 0
           c == [b EXCEPT !.ans = v, !.next = nx]
           u == [t EXCEPT !.job = c]
<1>1. /\ PageFits(owner, t) /\ Does(owner, t) /\ t \in Pages(t.queue) /\ b \in Jobs
      /\ MayWrite(x, t, writer, jar, dead) /\ b.pc = "login" /\ owner \in Seq(Owners) /\ jar \in Cookies(owner)
  BY PageOf DEF ServeLogin, IInv
<1>2. /\ tab' = [tab EXCEPT ![x] = u] /\ UNCHANGED <<jar, boot, writer, mail, held>>
      /\ IF v = "ok" THEN LogIn(t) ELSE UNCHANGED <<owner, dead>>
  BY <1>1 DEF ServeLogin, Turn, Pages, Jobs, browser, server
<1>3. /\ Grows(owner, owner') /\ dead \subseteq dead' /\ nx \in Nat
      /\ nx # 0 => nx \in Made(owner') /\ b.cookie \in dead'
      /\ v = "ok" => nx # 0
  <2>1. CASE v = "ok"
    <3>1. /\ Grows(owner, owner') /\ Len(owner') = Len(owner) + 1 /\ Len(owner') \in Made(owner')
          /\ dead' = dead \cup {b.cookie}
      BY <1>2, <2>1, LogInTyped
    <3>2. QED
      BY <1>1, <2>1, <3>1
  <2>2. CASE v # "ok"
    BY <1>1, <1>2, <2>2 DEF Grows
  <2>3. QED
    BY <2>1, <2>2
<1>4. v \in Answers
  BY DEF Verdict, Answers
<1> HIDE DEF nx, v
<1>5. /\ c \in Jobs /\ c.kind = b.kind /\ c.pc = "login" /\ c.cur = b.cur /\ c.done = b.done /\ c.ev = b.ev
      /\ c.cookie = b.cookie /\ c.next = nx /\ c.ans = v
  BY <1>1, <1>3, <1>4 DEF Jobs
<1> HIDE DEF c
<1>6. PageFits(owner', t) /\ Does(owner', t)
  BY <1>1, <1>3, GrowsFits DEF PageFits
<1>7. PageFits(owner', u) /\ u.job = c
  BY <1>1, <1>3, <1>5, <1>6, JobFits DEF Does
<1> HIDE DEF u
<1>8. MayWrite(x, u, writer', jar', dead')
  BY <1>1, <1>2, <1>3, <1>5, <1>7 DEF MayWrite
<1>9. LiveSessionsKept'
  BY <1>2, <1>3, SameStaysLive DEF IInv
<1>10. jar' \in Cookies(owner') /\ boot' \in 0..MaxUsers /\ mail' \in Mails
  BY <1>1, <1>2, <1>3 DEF IInv, Cookies, Made, Grows
<1>11. QED
  BY <1>2, <1>3, <1>7, <1>8, <1>9, <1>10, TurnKeeps

LEMMA HearLoginKeeps ==
  ASSUME IInv, NEW x \in Tabs, HearLogin(x)
  PROVE  IInv'
<1> DEFINE t == tab[x]
           b == t.job
           s == b.next
           a == PublishSession(t, s, s)
           why == [other |-> "DRIFT", expired |-> "EXPIRED", csrf |-> "CSRF"]
           m == IF b.ans = "other" \/ b.cur THEN Notice(t, why[b.ans], jar) ELSE t
<1>1. /\ PageFits(owner, t) /\ Shows(owner, t) /\ Does(owner, t) /\ b \in Jobs /\ jar \in Cookies(owner)
      /\ MayWrite(x, t, writer, jar, dead) /\ b.pc = "login" /\ b.ans # "none" /\ owner \in Seq(Owners)
  BY PageOf DEF HearLogin, IInv
<1>2. b.kind = "login" /\ t.cached # 0 /\ b.cookie = jar /\ writer = x
  BY <1>1 DEF Does, Places, Jobs, PageFits, MayWrite
<1>3. UNCHANGED <<owner, dead, boot>>
  BY DEF HearLogin, server
<1>4. CASE b.ans = "ok"
  <2>1. s \in Made(owner) /\ s # 0 /\ (s # jar => jar \in {0} \cup dead)
    BY <1>1, <1>2, <1>4 DEF Does, MayWrite
  <2>2. /\ jar' = s /\ held' = held \cup {s} /\ Tell(x, t, s, FALSE) /\ tab' = [tab EXCEPT ![x] = a]
        /\ writer' \in {writer, None}
    BY <1>4 DEF HearLogin, Turn, Release
  <2>3. s \in Cookies(owner)
    BY <2>1 DEF Cookies
  <2> HIDE DEF s
  <2>4. PageFits(owner, a) /\ Settles(a)
    BY <1>1, <1>2, <2>1, <2>3, PublishSessionFits
  <2> HIDE DEF a
  <2>5. mail' \in Mails
    BY <2>1, <2>2, TellTyped
  <2>6. LiveSessionsKept'
    BY <2>1, <2>2, <1>3, NewCookieKeepsLive
  <2>7. /\ MayWrite(x, a, writer', jar', dead') /\ PageFits(owner', a) /\ Grows(owner, owner')
        /\ jar' \in Cookies(owner') /\ boot' \in 0..MaxUsers
    BY <1>1, <1>3, <2>2, <2>3, <2>4 DEF MayWrite, Settles, Grows, IInv
  <2>8. QED
    BY <1>2, <1>3, <2>2, <2>5, <2>6, <2>7, TurnKeeps
<1>5. CASE b.ans # "ok"
  <2>1. /\ UNCHANGED <<jar, held, mail>> /\ tab' = [tab EXCEPT ![x] = EndJob(m, jar)]
        /\ writer' \in {writer, IF writer = x THEN None ELSE writer}
    BY <1>5 DEF HearLogin, Turn, Release
  <2>2. b.ans \in {"other", "expired", "csrf"}
    BY <1>1, <1>5 DEF Jobs, Answers
  <2>3. why[b.ans] \in Whys
    BY <2>2 DEF Whys
  <2> HIDE DEF why
  <2>4. Goes(owner, t, Notice(t, why[b.ans], jar))
    BY <1>1, <1>2, <2>3, NoticeGoes
  <2>5. Shows(owner, m) /\ m.cached # 0
    BY <1>1, <1>2, <2>4 DEF Goes
  <2> HIDE DEF m
  <2>6. PageFits(owner, EndJob(m, jar)) /\ Settles(EndJob(m, jar))
    BY <1>1, <2>5, EndJobFits
  <2>7. boot' \in 0..MaxUsers /\ mail' \in Mails
    BY <1>3, <2>1 DEF IInv
  <2>8. QED
    BY <1>3, <2>1, <2>6, <2>7, QuietKeeps
<1>6. QED
  BY <1>4, <1>5

-----------------------------------------------------------------------------
(***************************************************************************)
(* Requests that are given up                                              *)
(***************************************************************************)

LEMMA CancelTyped ==
  ASSUME IInv, NEW x \in Tabs, Cancel(x)
  PROVE  /\ Grows(owner, owner') /\ dead \subseteq dead' /\ jar' \in Cookies(owner') /\ owner' \in Seq(Owners)
         /\ jar' # jar => writer = x /\ jar \in {0} \cup dead
         /\ held' \subseteq held \cup {0, jar'} /\ writer' = IF writer = x THEN None ELSE writer
<1> DEFINE b == tab[x].job
<1>1. /\ Does(owner, tab[x]) /\ b \in Jobs /\ MayWrite(x, tab[x], writer, jar, dead)
      /\ owner \in Seq(Owners) /\ jar \in Cookies(owner)
  BY PageOf DEF IInv
<1>2. Grows(owner, owner') /\ dead \subseteq dead'
  <2>1. CASE UNCHANGED server
    BY <1>1, <2>1 DEF server, Grows
  <2>2. CASE owner' = Append(owner, b.id) /\ UNCHANGED dead
    <3>1. b.id \in Owners
      BY <1>1 DEF Jobs, Owners
    <3>2. QED
      BY <1>1, <2>2, <3>1, AppendGrows
  <2>3. CASE LogIn(tab[x])
    BY <2>3, LogInTyped
  <2>4. QED
    BY <2>1, <2>2, <2>3 DEF Cancel
<1>3. \/ jar' = jar
      \/ jar' = b.next /\ b.pc \in {"post", "login"} /\ b.ans = "ok" /\ b.next # b.cookie
  BY DEF Cancel
<1>4. /\ jar' \in Cookies(owner)
      /\ jar' # jar => writer = x /\ jar \in {0} \cup dead
  <2>1. CASE jar' = jar
    BY <1>1, <2>1
  <2>2. CASE jar' = b.next /\ b.pc \in {"post", "login"} /\ b.ans = "ok" /\ b.next # b.cookie
    <3>1. b.next \in Made(owner)
      BY <1>1, <2>2 DEF Does
    <3>2. writer = x /\ b.cookie = jar /\ jar \in {0} \cup dead
      BY <1>1, <2>2 DEF MayWrite
    <3>3. QED
      BY <2>2, <3>1, <3>2 DEF Cookies
  <2>3. QED
    BY <1>3, <2>1, <2>2
<1>5. jar' \in Cookies(owner') /\ owner' \in Seq(Owners)
  BY <1>2, <1>4 DEF Cookies, Made, Grows
<1>6. held' \subseteq held \cup {0, jar'} /\ writer' = IF writer = x THEN None ELSE writer
  BY DEF Cancel, Release
<1>7. QED
  BY <1>2, <1>4, <1>5, <1>6

\* A page that gives its request up and writes no cookie.
LEMMA CancelKeeps ==
  ASSUME IInv, NEW x \in Tabs, Cancel(x), NEW t, tab' = [tab EXCEPT ![x] = t],
         PageFits(owner', t), Settles(t), UNCHANGED boot, mail' \in Mails
  PROVE  IInv'
<1>1. /\ Grows(owner, owner') /\ dead \subseteq dead' /\ jar' \in Cookies(owner')
      /\ jar' # jar => writer = x /\ jar \in {0} \cup dead
      /\ held' \subseteq held \cup {0, jar'} /\ writer' = IF writer = x THEN None ELSE writer
  BY CancelTyped
<1>2. LiveSessionsKept'
  BY <1>1, NewCookieKeepsLive
<1>3. MayWrite(x, t, writer', jar', dead')
  BY DEF MayWrite, Settles
<1>4. boot' \in 0..MaxUsers
  BY DEF IInv
<1>5. QED
  BY <1>1, <1>2, <1>3, <1>4, TurnKeeps

LEMMA GivenUpFits ==
  ASSUME IInv, NEW x \in Tabs, Cancel(x)
  PROVE  LET t == tab[x] IN
         /\ PageFits(owner', t) /\ Shows(owner', t) /\ Does(owner', t) /\ t.job \in Jobs
         /\ jar' \in Cookies(owner') /\ mail \in Mails
<1>1. PageFits(owner, tab[x]) /\ tab[x].job \in Jobs /\ Grows(owner, owner') /\ jar' \in Cookies(owner')
  BY PageOf, CancelTyped
<1>2. PageFits(owner', tab[x])
  BY <1>1, GrowsFits
<1>3. QED
  BY <1>1, <1>2 DEF PageFits, IInv

LEMMA InterruptedKeeps ==
  ASSUME IInv, NEW x \in Tabs, Interrupted(x)
  PROVE  IInv'
<1> DEFINE t == tab[x]
           p == owner'
           j == jar'
           u == HandOff(t, j)
<1>1. /\ Cancel(x) /\ tab' = [tab EXCEPT ![x] = u] /\ UNCHANGED <<boot, mail>>
      /\ t.job.kind = "recovery"
  BY DEF Interrupted, Turn, Stale
<1>2. PageFits(p, t) /\ Shows(p, t) /\ Does(p, t) /\ j \in Cookies(p) /\ mail \in Mails
  BY <1>1, GivenUpFits
<1>3. t.cached # 0
  BY <1>1, <1>2 DEF PageFits
<1>4. PageFits(p, u) /\ Settles(u)
  <2> HIDE DEF p, j, t
  <2>1. Goes(p, t, u) /\ NewJob(u)
    BY <1>1, <1>2, HandOffGoes
  <2> HIDE DEF u
  <2>2. QED
    BY <1>3, <2>1 DEF Goes, NewJob, PageFits, Settles
<1> HIDE DEF u, t
<1>5. QED
  BY <1>1, <1>2, <1>4, CancelKeeps

LEMMA AskFailsKeeps ==
  ASSUME IInv, NEW x \in Tabs, AskFails(x)
  PROVE  IInv'
<1> DEFINE t == tab[x]
           p == owner'
           j == jar'
           u == Failed(t, j)
<1>1. /\ Cancel(x) /\ tab' = [tab EXCEPT ![x] = u] /\ UNCHANGED <<boot, mail>>
      /\ t.job.kind \in {"load", "recovery"}
  BY DEF AskFails, Turn
<1>2. PageFits(p, t) /\ j \in Cookies(p) /\ mail \in Mails
  BY <1>1, GivenUpFits
<1>3. PageFits(p, u) /\ Settles(u)
  <2> HIDE DEF p, j, t
  <2>1. QED
    BY <1>1, <1>2, FailedFits
<1> HIDE DEF u, t
<1>4. QED
  BY <1>1, <1>2, <1>3, CancelKeeps

LEMMA LoginStaleKeeps ==
  ASSUME IInv, NEW x \in Tabs, LoginStale(x)
  PROVE  IInv'
<1> DEFINE t == tab[x]
           p == owner'
           j == jar'
           u == EndJob(t, j)
<1>1. /\ Cancel(x) /\ tab' = [tab EXCEPT ![x] = u] /\ UNCHANGED <<boot, mail>> /\ t.job.pc = "login"
  BY DEF LoginStale, Turn
<1>2. PageFits(p, t) /\ Shows(p, t) /\ Does(p, t) /\ j \in Cookies(p) /\ mail \in Mails
  BY <1>1, GivenUpFits
<1>3. t.cached # 0
  BY <1>1, <1>2 DEF PageFits, Does, Places
<1>4. PageFits(p, u) /\ Settles(u)
  <2> HIDE DEF p, j, t
  <2>1. QED
    BY <1>2, <1>3, EndJobFits
<1> HIDE DEF u, t
<1>5. QED
  BY <1>1, <1>2, <1>4, CancelKeeps

LEMMA LoginLostKeeps ==
  ASSUME IInv, NEW x \in Tabs, LoginLost(x)
  PROVE  IInv'
<1> DEFINE t == tab[x]
           p == owner'
           j == jar'
           i == Invalidate(t)
           h == [i EXCEPT !.hold = TRUE]
           n == Notice(h, "CSRF", j)
           u == EndJob(n, j)
<1>1. /\ Cancel(x) /\ tab' = [tab EXCEPT ![x] = u] /\ UNCHANGED <<boot, mail>> /\ t.job.pc = "login"
  BY DEF LoginLost, Turn
<1>2. PageFits(p, t) /\ Shows(p, t) /\ Does(p, t) /\ t.job \in Jobs /\ j \in Cookies(p) /\ mail \in Mails
  BY <1>1, GivenUpFits
<1>3. t.cached # 0 /\ t.job.kind = "login"
  BY <1>1, <1>2 DEF PageFits, Does, Places, Jobs
<1>4. PageFits(p, u) /\ Settles(u)
  <2> HIDE DEF p, j, t
  <2>1. /\ Page(p, i) /\ i.lease = None /\ i.req = NoReq /\ i.cached = t.cached /\ i.job.kind = "login"
        /\ i.job.pc = "login" /\ i.job.cookie = t.job.cookie /\ i.job.ans = t.job.ans /\ i.job.next = t.job.next
    BY <1>1, <1>2, <1>3, InvalidateFits DEF Shows
  <2> HIDE DEF i
  <2>2. /\ h \in Pages(i.queue) /\ h.queue = i.queue /\ h.lease = None /\ h.req = NoReq
        /\ h.cached = t.cached /\ h.job = i.job
    BY <2>1 DEF Page, Pages
  <2> HIDE DEF h
  <2>3. Shows(p, h)
    BY <2>1, <2>2, NothingTyped DEF Shows, Page
  <2>4. Does(p, h)
    BY <1>1, <1>2, <2>1, <2>2 DEF Does, Places
  <2>5. Goes(p, h, n)
    BY <1>2, <2>1, <2>2, <2>3, <2>4, NoticeGoes DEF Whys
  <2> HIDE DEF n
  <2>6. QED
    BY <1>2, <1>3, <2>2, <2>5, EndJobFits DEF Goes
<1> HIDE DEF u, t
<1>5. QED
  BY <1>1, <1>2, <1>4, CancelKeeps

LEMMA NewDocumentKeeps ==
  ASSUME IInv, NEW x \in Tabs, NewDocument(x)
  PROVE  IInv'
<1>1. Cancel(x) /\ tab' = [tab EXCEPT ![x] = Loading(jar')] /\ UNCHANGED boot /\ mail' = [mail EXCEPT ![x] = <<>>]
  BY DEF NewDocument, Turn
<1>2. jar' \in Cookies(owner') /\ mail \in Mails
  BY <1>1, GivenUpFits
<1>3. mail' \in Mails
  <2>1. <<>> \in Seq([target : Owners, safe : BOOLEAN])
    BY EmptySeq
  <2>2. QED
    BY <1>1, <1>2, <2>1 DEF Mails
<1>4. PageFits(owner', Loading(jar')) /\ Settles(Loading(jar'))
  BY <1>2, LoadingFits
<1>5. QED
  BY <1>1, <1>3, <1>4, CancelKeeps

LEMMA ExpireKeeps ==
  ASSUME IInv, Expire
  PROVE  IInv'
<1>1. UNCHANGED <<owner, jar, boot, writer, mail, held, tab>> /\ dead' = dead \cup {jar}
  BY DEF Expire, browser
<1>2. LiveSessionsKept'
  BY <1>1, SameStaysLive DEF IInv
<1>3. ASSUME NEW x \in Tabs PROVE WriterFits(x)'
  <2>1. MayWrite(x, tab[x], writer, jar, dead)
    BY DEF IInv, WriterFits
  <2>2. MayWrite(x, tab'[x], writer', jar', dead')
    BY <1>1, <2>1 DEF MayWrite
  <2>3. QED
    BY <2>2 DEF WriterFits
<1>4. \A x \in Tabs : PageFits(owner, tab[x])'
  BY <1>1 DEF IInv
<1>5. QED
  BY <1>1, <1>2, <1>3, <1>4 DEF IInv

-----------------------------------------------------------------------------
(***************************************************************************)
(* The invariant                                                           *)
(***************************************************************************)

LEMMA ShownFits ==
  ASSUME owner \in Seq(Owners), NEW s \in Made(owner)
  PROVE  PageFits(owner, Shown(s)) /\ Settles(Shown(s))
<1> DEFINE u == [Unloaded EXCEPT !.cached = s, !.lease = owner[s], !.open = TRUE]
<1>1. s \in Nat /\ s # 0 /\ owner[s] \in Owners /\ s \in Cookies(owner)
  BY DEF Made, Cookies
<1>2. /\ Unloaded.req = NoReq /\ Unloaded.queue = <<>> /\ Unloaded.job = NoJob
      /\ Unloaded.rec = NoRec /\ Unloaded.fail = NoFail /\ ~Unloaded.hold /\ ~Unloaded.unver
  BY DEF Unloaded
<1>3. /\ u \in Pages(<<>>) /\ u.queue = <<>> /\ u.cached = s /\ u.lease = owner[s]
      /\ u.req = NoReq /\ u.job = NoJob /\ ~u.unver /\ ~u.hold /\ u.rec = NoRec /\ u.fail = NoFail
  BY <1>1, <1>2, NothingTyped DEF Pages
<1>4. Shown(s) = u
  BY DEF Shown
<1> HIDE DEF u
<1>5. Shows(owner, u)
  BY <1>1, <1>3, NothingTyped DEF Shows, Page
<1>6. Does(owner, u)
  BY <1>3, NothingTyped DEF Does, Places, Cookies
<1>7. QED
  BY <1>1, <1>3, <1>4, <1>5, <1>6, NothingTyped DEF PageFits, Settles

LEMMA InitIsIInv == Init => IInv
<1> SUFFICES ASSUME Init PROVE IInv
  OBVIOUS
<1>1. owner \in Seq(Owners) /\ jar = Len(owner) /\ held = DOMAIN owner /\ Len(owner) \in {0, 1}
  <2>1. PICK u \in {Google, 1} : owner \in {<<u>>, <<>>}
    BY DEF Init
  <2>2. u \in Owners
    BY SessionAssumption DEF Owners
  <2>3. <<u>> \in Seq(Owners) /\ Len(<<u>>) = 1
    BY <2>2
  <2>4. <<>> \in Seq(Owners) /\ Len(<<>>) = 0
    OBVIOUS
  <2>5. owner \in Seq(Owners) /\ Len(owner) \in {0, 1}
    BY <2>1, <2>3, <2>4
  <2>6. QED
    BY <2>5 DEF Init
<1>2. jar \in Cookies(owner) /\ (jar # 0 => jar \in Made(owner))
  BY <1>1 DEF Cookies, Made
<1>3. boot \in 0..MaxUsers /\ mail \in Mails
  <2>1. <<>> \in Seq([target : Owners, safe : BOOLEAN])
    BY EmptySeq
  <2>2. QED
    BY <2>1, SessionAssumption DEF Init, Mails
<1>4. tab = [x \in Tabs |-> IF jar = 0 THEN Loading(jar) ELSE Shown(jar)]
  BY DEF Init
<1>5. ASSUME NEW x \in Tabs PROVE PageFits(owner, tab[x]) /\ Settles(tab[x])
  <2>1. CASE jar = 0
    BY <1>2, <1>4, <2>1, LoadingFits
  <2>2. CASE jar # 0
    BY <1>1, <1>2, <1>4, <2>2, ShownFits
  <2>3. QED
    BY <2>1, <2>2
<1>6. \A x \in Tabs : PageFits(owner, tab[x]) /\ WriterFits(x)
  BY <1>5 DEF WriterFits, MayWrite, Settles
<1>7. LiveSessionsKept
  BY <1>1 DEF LiveSessionsKept
<1>8. QED
  BY <1>1, <1>2, <1>3, <1>4, <1>6, <1>7 DEF IInv

LEMMA NextKeepsIInv == IInv /\ [Next]_vars => IInv'
<1> SUFFICES ASSUME IInv, [Next]_vars PROVE IInv'
  OBVIOUS
<1>1. CASE UNCHANGED vars
  <2>1. UNCHANGED <<owner, dead, jar, boot, writer, mail, held, tab>>
    BY <1>1 DEF vars, server, browser
  <2>2. \A x \in Tabs : WriterFits(x)' <=> WriterFits(x)
    BY <2>1 DEF WriterFits, MayWrite
  <2>3. LiveSessionsKept' <=> LiveSessionsKept
    BY <2>1 DEF LiveSessionsKept, Alive
  <2>4. QED
    BY <2>1, <2>2, <2>3 DEF IInv
<1>2. CASE Expire
  BY <1>2, ExpireKeeps
<1>3. ASSUME NEW x \in Tabs, JobStep(x) PROVE IInv'
  BY <1>3, ServeGetKeeps, HearGetKeeps, QuiescedKeeps, AcquireKeeps, HearLockGetKeeps, ServePostKeeps,
     HearPostKeeps, ClearBootIdKeeps, InterruptedKeeps, ServeLoginKeeps, HearLoginKeeps, LoginStaleKeeps,
     PublishedKeeps DEF JobStep
<1>4. ASSUME NEW x \in Tabs,
             SendRequest(x) \/ HearRequest(x) \/ HearDamaged(x) \/ HearAdvisory(x)
      PROVE  IInv'
  BY <1>4, SendRequestKeeps, HearRequestKeeps, HearDamagedKeeps, HearAdvisoryKeeps
<1>5. ASSUME NEW x \in Tabs,
             AskFails(x) \/ AnswerDamaged(x) \/ AskLogin(x) \/ LoginLost(x) \/ Retry(x) \/ RetryLoad(x)
      PROVE  IInv'
  BY <1>5, AskFailsKeeps, AnswerDamagedKeeps, AskLoginKeeps, LoginLostKeeps, RetryKeeps, RetryLoadKeeps
<1>6. ASSUME NEW x \in Tabs, Restart(x) \/ Reload(x) PROVE IInv'
  BY <1>6, NewDocumentKeeps DEF Restart, Reload
<1>7. QED
  BY <1>1, <1>2, <1>3, <1>4, <1>5, <1>6 DEF Next

LEMMA IInvFits == IInv => AnswersFitThePage /\ LiveSessionsKept
<1> SUFFICES ASSUME IInv PROVE AnswersFitThePage /\ LiveSessionsKept
  OBVIOUS
<1>1. LiveSessionsKept
  BY DEF IInv
<1>2. ASSUME NEW x \in Tabs
      PROVE  LET t == tab[x] IN
             /\ t.lease # None => t.cached # 0 /\ t.lease = User(t) /\ Interactive(t) /\ ~t.unver
             /\ t.req.ans = "ok" => owner[t.req.cookie] = User(t) /\ Interactive(t)
  <2> DEFINE t == tab[x]
  <2>1. Shows(owner, t)
    BY PageOf
  <2>2. t.lease # None => t.cached # 0 /\ t.lease = User(t) /\ Interactive(t) /\ ~t.unver
    BY <2>1 DEF Shows, User, Interactive
  <2>3. t.req.ans = "ok" => t.req # NoReq /\ owner[t.req.cookie] = t.lease
    BY <2>1, NothingTyped DEF Shows
  <2>4. t.req # NoReq => t.lease # None
    BY <2>1 DEF Shows
  <2>5. QED
    BY <2>2, <2>3, <2>4
<1>3. QED
  BY <1>1, <1>2 DEF AnswersFitThePage

LEMMA AlwaysIInv == Spec => []IInv
<1>1. QED
  BY InitIsIInv, NextKeepsIInv, PTL DEF Spec

\* A page sends requests only for the user it shows, and its caller gets an
\* answer only when it is of that user and the page is shown and usable
\* (authenticatedRequestLeaseOwner.ts, SessionProvider.tsx), whatever tabs,
\* logins, lost sessions, damaged answers and reloads come between.
THEOREM AnswersAlwaysFit == Spec => []AnswersFitThePage
<1>1. QED
  BY AlwaysIInv, IInvFits, PTL

\* No tab replaces the cookie of another while its session lives: only the
\* holder of the Web Lock writes it (sessionCookieWriter.ts), with an answer
\* to the cookie there was, and the server makes another session for a dead
\* one only (createAnonymous) or ends the one it replaces (Google).
THEOREM LiveSessionsAlwaysKept == Spec => []LiveSessionsKept
<1>1. QED
  BY AlwaysIInv, IInvFits, PTL
==============================================================================
