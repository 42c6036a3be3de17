--------------------------- MODULE ApplicationProofs ---------------------------
(***************************************************************************)
(* The main thread's two models, proved: what the application may open by  *)
(* itself (ScopeApp), and the session that opens it (ScopeSession).  They  *)
(* share no variable; each has its invariant and its theorems.             *)
(*                                                                         *)
(* The session, for any number of requests, drivers, closes, device        *)
(* operations and posts: no thread uses a driver that is gone, a flag is   *)
(* up exactly while what it stands for is under way, and what is adopted   *)
(* is open.  The bounds of the model play no part.  What carries the proof *)
(* is that close() moves the epoch before it waits for the worker:         *)
(* whatever the worker still posts is stale by then, and when the wait is  *)
(* over nothing that is fresh is on its way.                               *)
(*                                                                         *)
(* The application, for every set of devices, whatever the bus shows,      *)
(* however often the program is started, and whatever the user picks       *)
(* meanwhile: one instrument, and no other than the one it remembers.  The *)
(* question about the USB rule may come between the first frame and the    *)
(* selection, and only there: a device that the selection opens is one the *)
(* question was not put for, and no failure puts it later.                 *)
(***************************************************************************)
EXTENDS ScopeApp, ScopeSession, SequenceTheorems, TLAPS

-----------------------------------------------------------------------------
\* The session.

\* Jobs and posts, without the bounds of an instance.
AnyJob  == [kind : {"open", "op"}, driver : Nat, epoch : Nat, request : Nat]
AnyPost == [kind : {"opened", "opDone", "wake", "state"}, driver : Nat, epoch : Nat,
            request : Nat, ok : BOOLEAN]

Typed == /\ jobs \in Seq(AnyJob) /\ posts \in Seq(AnyPost)
         /\ working \in AnyJob \cup {NoJob}
         /\ driver \in Nat /\ created \in Nat /\ epoch \in Nat /\ requests \in Nat
         /\ opened \in BOOLEAN /\ connecting \in BOOLEAN /\ deviceBusy \in BOOLEAN

\* A job is run for the driver there is, in the epoch that began it, and its flag is up;
\* once close() waits for it, that epoch is over.
JobOk(j) == /\ j.driver = driver /\ driver # 0
            /\ IF main = "idle" THEN j.epoch = epoch ELSE j.epoch < epoch
            /\ j.kind = "open" => connecting
            /\ j.kind = "op" => deviceBusy

\* There is one at a time.
JobsInv == /\ \A i \in DOMAIN jobs : JobOk(jobs[i]) /\ i = 1
           /\ working # NoJob => JobOk(working) /\ jobs = <<>>

\* A continuation of this epoch.
Fresh(p) == p.kind \in {"opened", "opDone"} /\ p.epoch = epoch

\* No continuation is of a later epoch; one of this epoch is of the driver there is, with
\* its flag up; none is while close() waits.
PostOk(p) == /\ p.kind \in {"opened", "opDone"} => p.epoch <= epoch
             /\ Fresh(p) => /\ main = "idle" /\ jobs = <<>> /\ working = NoJob
                            /\ p.kind = "opened" => /\ connecting /\ p.driver = driver
                                                    /\ driver # 0 /\ (p.ok => opened)
                            /\ p.kind = "opDone" => deviceBusy

\* There is one of these at a time as well.
PostsInv == /\ \A i \in DOMAIN posts : PostOk(posts[i])
            /\ \A i, k \in DOMAIN posts : Fresh(posts[i]) /\ Fresh(posts[k]) => i = k

Flags == ~(connecting /\ deviceBusy)

SessionInv == Typed /\ JobsInv /\ PostsInv /\ Flags /\ BusyIsTrue /\ AdoptedIsOpen

-----------------------------------------------------------------------------
\* What a queue holds after a push, ...
LEMMA Pushed ==
  ASSUME NEW S, NEW s \in Seq(S), NEW e \in S
  PROVE  /\ Append(s, e) \in Seq(S)
         /\ DOMAIN Append(s, e) = DOMAIN s \cup {Len(s) + 1}
         /\ Len(s) + 1 \notin DOMAIN s /\ Append(s, e)[Len(s) + 1] = e
         /\ \A i \in DOMAIN s : Append(s, e)[i] = s[i]
<1>1. /\ Append(s, e) \in Seq(S) /\ Len(Append(s, e)) = Len(s) + 1
      /\ \A i \in 1 .. Len(s) : Append(s, e)[i] = s[i]
      /\ Append(s, e)[Len(s) + 1] = e
  BY AppendProperties
<1>2. Len(s) \in Nat /\ DOMAIN s = 1 .. Len(s) /\ DOMAIN Append(s, e) = 1 .. Len(Append(s, e))
  BY <1>1, LenProperties
<1>3. 1 .. Len(s) + 1 = (1 .. Len(s)) \cup {Len(s) + 1} /\ Len(s) + 1 \notin 1 .. Len(s)
  BY <1>2
<1>4. QED
  BY <1>1, <1>2, <1>3

\* ... and after its head is taken.
LEMMA Taken ==
  ASSUME NEW S, NEW s \in Seq(S), s # <<>>
  PROVE  /\ Tail(s) \in Seq(S) /\ Head(s) \in S
         /\ 1 \in DOMAIN s /\ Head(s) = s[1]
         /\ \A i \in DOMAIN Tail(s) : i + 1 \in DOMAIN s /\ i + 1 # 1 /\ Tail(s)[i] = s[i + 1]
         /\ \A k \in DOMAIN s : k # 1 => /\ k - 1 \in DOMAIN Tail(s)
                                         /\ Tail(s)[k - 1] = s[k]
<1>1. /\ Head(s) \in S /\ Tail(s) \in Seq(S) /\ Len(Tail(s)) = Len(s) - 1 /\ Head(s) = s[1]
      /\ \A i \in 1 .. Len(Tail(s)) : Tail(s)[i] = s[i + 1]
  BY HeadTailProperties
<1>2. Len(s) \in Nat /\ Len(s) # 0 /\ DOMAIN s = 1 .. Len(s) /\ DOMAIN Tail(s) = 1 .. Len(Tail(s))
  BY <1>1, LenProperties, EmptySeq
<1>3. 1 \in DOMAIN s
  BY <1>2
<1>4. ASSUME NEW i \in DOMAIN Tail(s)
      PROVE  i + 1 \in DOMAIN s /\ i + 1 # 1 /\ Tail(s)[i] = s[i + 1]
  BY <1>1, <1>2
<1>5. ASSUME NEW k \in DOMAIN s, k # 1
      PROVE  k - 1 \in DOMAIN Tail(s) /\ Tail(s)[k - 1] = s[k]
  <2>1. k - 1 \in 1 .. Len(Tail(s)) /\ (k - 1) + 1 = k
    BY <1>1, <1>2, <1>5
  <2>2. Tail(s)[k - 1] = s[(k - 1) + 1]
    BY <1>1, <2>1
  <2>3. QED
    BY <1>2, <2>1, <2>2
<1>6. QED
  BY <1>1, <1>3, <1>4, <1>5

\* A queue of one, and what is no job.
LEMMA OneJob ==
  ASSUME NEW j \in AnyJob
  PROVE  /\ Append(<<>>, j) = <<j>> /\ <<j>> \in Seq(AnyJob) /\ <<j>> # <<>>
         /\ DOMAIN <<j>> = {1} /\ <<j>>[1] = j /\ Head(<<j>>) = j /\ Tail(<<j>>) = <<>>
         /\ j # NoJob /\ NoJob.kind = "none"
  BY DEF AnyJob, NoJob


\* At first no job runs and the session is idle.
LEMMA SessionInvInit == Init => SessionInv
<1> SUFFICES ASSUME Init PROVE SessionInv
  OBVIOUS
<1>1. /\ jobs = <<>> /\ posts = <<>> /\ DOMAIN <<>> = {} /\ NoJob.kind = "none"
      /\ <<>> \in Seq(AnyJob) /\ <<>> \in Seq(AnyPost)
  BY EmptySeq DEF Init, NoJob
<1>2. Typed /\ JobsInv /\ PostsInv
  BY <1>1 DEF Init, Typed, JobsInv, PostsInv
<1>3. Flags /\ BusyIsTrue /\ AdoptedIsOpen
  BY <1>1 DEF Init, Flags, BusyIsTrue, Underway, AdoptedIsOpen
<1>4. QED
  BY <1>2, <1>3 DEF SessionInv

-----------------------------------------------------------------------------
\* When no flag is up, nothing is under way.
LEMMA NotBusy ==
  ASSUME SessionInv, main = "idle", ~connecting, ~deviceBusy
  PROVE  /\ jobs = <<>> /\ working = NoJob
         /\ \A i \in DOMAIN posts : ~Fresh(posts[i])
<1>1. ASSUME NEW j \in AnyJob PROVE ~JobOk(j)
  BY <1>1 DEF JobOk, AnyJob
<1>2. working = NoJob
  BY <1>1 DEF SessionInv, Typed, JobsInv
<1>3. jobs = <<>>
  <2>1. jobs # <<>> => 1 \in DOMAIN jobs /\ jobs[1] \in AnyJob
    BY Taken DEF SessionInv, Typed
  <2>2. QED
    BY <1>1, <2>1 DEF SessionInv, JobsInv
<1>4. \A i \in DOMAIN posts : ~Fresh(posts[i])
  BY DEF SessionInv, PostsInv, PostOk, Fresh
<1>5. QED
  BY <1>2, <1>3, <1>4

\* When close() has waited, nothing of this epoch is on its way either.
LEMMA WaitOver ==
  ASSUME SessionInv, main # "idle"
  PROVE  \A i \in DOMAIN posts : /\ ~Fresh(posts[i])
                                 /\ posts[i].kind \in {"opened", "opDone"} => posts[i].epoch <= epoch
  BY DEF SessionInv, PostsInv, PostOk

\* A step after which nothing is under way: what is left to show of it.
LEMMA Quiet ==
  ASSUME Typed', jobs' = <<>>, working' = NoJob, ~connecting', ~deviceBusy', AdoptedIsOpen',
         (\A i \in DOMAIN posts :
            /\ ~Fresh(posts[i])
            /\ posts[i].kind \in {"opened", "opDone"} => posts[i].epoch <= epoch)'
  PROVE  SessionInv'
<1>1. DOMAIN <<>> = {} /\ NoJob.kind = "none"
  BY DEF NoJob
<1>2. JobsInv' /\ PostsInv' /\ Flags'
  BY <1>1 DEF JobsInv, PostsInv, PostOk, Flags
<1>3. BusyIsTrue'
  BY <1>1 DEF BusyIsTrue, Underway, Fresh
<1>4. QED
  BY <1>2, <1>3 DEF SessionInv

rest == <<driver, created, opened, adopted, connecting, deviceBusy, epoch, requests, jobs, working,
          main>>

\* A step that leaves the session alone keeps its invariant.
LEMMA SessionInvSame == SessionInv /\ UNCHANGED <<rest, posts>> => SessionInv'
  BY DEF SessionInv, Typed, JobsInv, JobOk, PostsInv, PostOk, Fresh, Flags, BusyIsTrue, Underway,
     AdoptedIsOpen, rest

\* A post of the driver's own is queued: no continuation.
LEMMA DriverPosts ==
  ASSUME SessionInv, NEW p \in AnyPost, p.kind \in {"wake", "state"},
         posts' = Append(posts, p), UNCHANGED rest
  PROVE  SessionInv'
<1>1. /\ posts' \in Seq(AnyPost) /\ DOMAIN posts' = DOMAIN posts \cup {Len(posts) + 1}
      /\ posts'[Len(posts) + 1] = p /\ \A i \in DOMAIN posts : posts'[i] = posts[i]
  BY Pushed DEF SessionInv, Typed
<1>2. Typed' /\ JobsInv' /\ Flags' /\ AdoptedIsOpen'
  BY <1>1 DEF SessionInv, Typed, JobsInv, JobOk, Flags, AdoptedIsOpen, rest
<1>3. PostsInv'
  BY <1>1 DEF SessionInv, PostsInv, PostOk, Fresh, rest
<1>4. BusyIsTrue'
  BY <1>1 DEF SessionInv, BusyIsTrue, Underway, rest
<1>5. QED
  BY <1>2, <1>3, <1>4 DEF SessionInv

\* A post is delivered that is no continuation of this epoch, and changes nothing here.
LEMMA StaleTaken ==
  ASSUME SessionInv, posts # <<>>, ~Fresh(Head(posts)), posts' = Tail(posts), UNCHANGED rest
  PROVE  SessionInv'
<1>1. /\ posts' \in Seq(AnyPost) /\ 1 \in DOMAIN posts /\ Head(posts) = posts[1]
      /\ \A i \in DOMAIN posts' : i + 1 \in DOMAIN posts /\ posts'[i] = posts[i + 1]
      /\ \A k \in DOMAIN posts : k # 1 => k - 1 \in DOMAIN posts' /\ posts'[k - 1] = posts[k]
  BY Taken DEF SessionInv, Typed
<1>2. Typed' /\ JobsInv' /\ Flags' /\ AdoptedIsOpen'
  BY <1>1 DEF SessionInv, Typed, JobsInv, JobOk, Flags, AdoptedIsOpen, rest
<1>3. PostsInv'
  <2>1. \A i \in DOMAIN posts' : PostOk(posts[i])'
    BY <1>1 DEF SessionInv, PostsInv, PostOk, Fresh, rest
  <2>2. ASSUME NEW i \in DOMAIN posts', NEW k \in DOMAIN posts',
               Fresh(posts[i])', Fresh(posts[k])'
        PROVE  i = k
    <3>1. i + 1 = k + 1
      BY <1>1, <2>2 DEF SessionInv, PostsInv, Fresh, rest
    <3>2. i \in Nat /\ k \in Nat
      BY <1>1, LenProperties
    <3>3. QED
      BY <3>1, <3>2
  <2>3. QED
    BY <2>1, <2>2 DEF PostsInv
<1>4. ASSUME main = "idle",
             NEW kind, NEW reply \in {"opened", "opDone"}
      PROVE  Underway(kind, reply)' <=> Underway(kind, reply)
  <2>1. ASSUME NEW i \in DOMAIN posts, posts[i].kind = reply, posts[i].epoch = epoch
        PROVE  \E k \in DOMAIN posts' : posts'[k].kind = reply /\ posts'[k].epoch = epoch
    <3>1. i # 1
      BY <1>1, <1>4, <2>1 DEF Fresh
    <3>2. QED
      BY <1>1, <2>1, <3>1
  <2>2. ASSUME NEW i \in DOMAIN posts', posts'[i].kind = reply, posts'[i].epoch = epoch
        PROVE  \E k \in DOMAIN posts : posts[k].kind = reply /\ posts[k].epoch = epoch
    BY <1>1, <2>2
  <2>3. QED
    BY <2>1, <2>2 DEF Underway, rest
<1>5. BusyIsTrue'
  BY <1>4 DEF SessionInv, BusyIsTrue, rest
<1>6. QED
  BY <1>2, <1>3, <1>5 DEF SessionInv

\* A continuation of this epoch is delivered: with it, nothing is under way.
LEMMA FreshTaken ==
  ASSUME SessionInv, posts # <<>>, Fresh(Head(posts)), posts' = Tail(posts),
         UNCHANGED <<epoch, jobs, working, main>>
  PROVE  /\ posts' \in Seq(AnyPost) /\ jobs = <<>> /\ working = NoJob
         /\ PostOk(Head(posts)) /\ Head(posts) \in AnyPost
         /\ \A i \in DOMAIN posts' :
              /\ ~Fresh(posts[i])'
              /\ posts'[i].kind \in {"opened", "opDone"} => posts'[i].epoch <= epoch'
<1>1. /\ posts' \in Seq(AnyPost) /\ 1 \in DOMAIN posts /\ Head(posts) = posts[1]
      /\ Head(posts) \in AnyPost
      /\ \A i \in DOMAIN posts' :
           i + 1 \in DOMAIN posts /\ i + 1 # 1 /\ posts'[i] = posts[i + 1]
  BY Taken DEF SessionInv, Typed
<1>2. PostOk(Head(posts)) /\ jobs = <<>> /\ working = NoJob
  BY <1>1 DEF SessionInv, PostsInv, PostOk
<1>3. ASSUME NEW i \in DOMAIN posts'
      PROVE  /\ ~Fresh(posts[i])'
             /\ posts'[i].kind \in {"opened", "opDone"} => posts'[i].epoch <= epoch'
  BY <1>1, <1>3 DEF SessionInv, PostsInv, PostOk, Fresh
<1>4. QED
  BY <1>1, <1>2, <1>3

-----------------------------------------------------------------------------
\* close() is called: the epoch moves on before the wait.
LEMMA BeginCloseKeeps ==
  ASSUME SessionInv, main = "idle", NEW purpose, purpose # "idle", BeginClose(purpose),
         requests' \in Nat
  PROVE  SessionInv'
<1>1. /\ epoch' = epoch + 1 /\ main' # "idle" /\ UNCHANGED <<driverVars, connecting, deviceBusy>>
      /\ UNCHANGED <<jobs, working, posts>>
  BY DEF BeginClose
<1>2. Typed' /\ Flags' /\ AdoptedIsOpen'
  BY <1>1 DEF SessionInv, Typed, Flags, AdoptedIsOpen, driverVars
<1>3. BusyIsTrue'
  BY <1>1 DEF BusyIsTrue
<1>4. ASSUME NEW j, JobOk(j) PROVE JobOk(j)'
  BY <1>1, <1>4 DEF JobOk, SessionInv, Typed, driverVars
<1>5. JobsInv'
  BY <1>1, <1>4 DEF SessionInv, JobsInv
<1>6. PostsInv'
  <2>1. ASSUME NEW p \in AnyPost, PostOk(p) PROVE PostOk(p)' /\ ~Fresh(p)'
    BY <1>1, <2>1 DEF PostOk, Fresh, SessionInv, Typed, AnyPost
  <2>2. \A i \in DOMAIN posts : posts[i] \in AnyPost
    BY LenProperties DEF SessionInv, Typed
  <2>3. \A i \in DOMAIN posts : PostOk(posts[i])' /\ ~Fresh(posts[i])'
    <3> SUFFICES ASSUME NEW i \in DOMAIN posts PROVE PostOk(posts[i])' /\ ~Fresh(posts[i])'
      OBVIOUS
    <3>1. PICK p \in AnyPost : p = posts[i] /\ PostOk(p) /\ p = posts'[i]
      BY <1>1, <2>2 DEF SessionInv, PostsInv
    <3>2. PostOk(p)' /\ ~Fresh(p)'
      BY <2>1, <3>1
    <3>3. QED
      BY <3>1, <3>2 DEF PostOk, Fresh
  <2>4. QED
    BY <1>1, <2>3 DEF PostsInv
<1>7. QED
  BY <1>2, <1>3, <1>5, <1>6 DEF SessionInv

\* The session is asked for something.
LEMMA CallKeeps == SessionInv /\ Call => SessionInv'
<1> SUFFICES ASSUME SessionInv, Call PROVE SessionInv'
  OBVIOUS
<1>1. requests \in Nat /\ requests + 1 \in Nat
  BY DEF SessionInv, Typed
<1>2. CASE Close
  BY <1>1, <1>2, BeginCloseKeeps DEF Close, requestVars
<1>3. CASE Open
  BY <1>1, <1>3, BeginCloseKeeps DEF Open, requestVars
<1>4. CASE OpenAsync
  BY <1>1, <1>4, BeginCloseKeeps DEF OpenAsync
<1>5. CASE OpenAsyncRefused
  BY <1>1, <1>5 DEF OpenAsyncRefused, SessionInv, Typed, JobsInv, JobOk, PostsInv, PostOk, Fresh,
     Flags, BusyIsTrue, Underway, AdoptedIsOpen, driverVars, flagVars
<1>6. CASE RunOnDevice
  <2>1. main = "idle" /\ ~connecting /\ ~deviceBusy /\ driver # 0
    BY <1>6 DEF RunOnDevice, IsBusy
  <2>2. jobs = <<>> /\ working = NoJob /\ \A i \in DOMAIN posts : ~Fresh(posts[i])
    BY <2>1, NotBusy
  <2> DEFINE job == [kind |-> "op", driver |-> driver, epoch |-> epoch, request |-> 0]
  <2>3. job \in AnyJob /\ job.kind = "op" /\ job.driver = driver /\ job.epoch = epoch
    BY DEF AnyJob, SessionInv, Typed
  <2>4. /\ jobs' = Append(jobs, job) /\ deviceBusy' = TRUE
        /\ UNCHANGED <<driverVars, connecting, epoch, requests, working, posts, main>>
    BY <1>6 DEF RunOnDevice
  <2> HIDE DEF job
  <2>5. /\ jobs' = <<job>> /\ jobs' \in Seq(AnyJob) /\ DOMAIN jobs' = {1} /\ jobs'[1] = job
        /\ NoJob.kind = "none"
    BY <2>2, <2>3, <2>4, OneJob
  <2>6. Typed' /\ Flags' /\ AdoptedIsOpen'
    BY <2>1, <2>4, <2>5 DEF SessionInv, Typed, Flags, AdoptedIsOpen, driverVars
  <2>7. JobsInv'
    BY <2>1, <2>2, <2>3, <2>4, <2>5 DEF JobsInv, JobOk, driverVars
  <2>8. PostsInv'
    BY <2>2, <2>4 DEF SessionInv, PostsInv, PostOk, Fresh
  <2>9. BusyIsTrue'
    BY <2>1, <2>2, <2>3, <2>4, <2>5 DEF BusyIsTrue, Underway, Fresh
  <2>10. QED
    BY <2>6, <2>7, <2>8, <2>9 DEF SessionInv
<1>7. CASE Start \/ Stop
  <2>1. PICK now : Becomes(now)
    BY <1>7 DEF Start, Stop
  <2>2. UNCHANGED rest
    BY <2>1 DEF Becomes, rest, flagVars, requestVars
  <2>3. CASE posts' = posts
    BY <2>2, <2>3, SessionInvSame
  <2>4. CASE posts' # posts
    <3> DEFINE p == [kind |-> "state", driver |-> driver, epoch |-> 0, request |-> 0, ok |-> TRUE]
    <3>1. p \in AnyPost /\ p.kind = "state"
      BY DEF AnyPost, SessionInv, Typed
    <3>2. posts' = Append(posts, p)
      BY <2>1, <2>4 DEF Becomes
    <3>3. QED
      BY <2>2, <3>1, <3>2, DriverPosts
  <2>5. QED
    BY <2>3, <2>4
<1>8. QED
  BY <1>2, <1>3, <1>4, <1>5, <1>6, <1>7 DEF Call

\* The worker is idle, and close() goes on to what it was called for.
LEMMA ClosingKeeps == SessionInv /\ Closing => SessionInv'
<1> SUFFICES ASSUME SessionInv, Closing PROVE SessionInv'
  OBVIOUS
<1>1. /\ main # "idle" /\ main' = "idle" /\ WorkerIdle /\ deviceBusy' = FALSE
      /\ UNCHANGED <<epoch, requests, working, posts>>
  BY DEF Closing, Closed, Opened, ConnectStarted, NoSuchDriver, FinishClose, requestVars
<1>2. jobs = <<>> /\ working = NoJob
  BY <1>1 DEF WorkerIdle
<1>3. \A i \in DOMAIN posts :
        /\ ~Fresh(posts[i])
        /\ posts[i].kind \in {"opened", "opDone"} => posts[i].epoch <= epoch
  BY <1>1, WaitOver
<1>4. (\A i \in DOMAIN posts :
         /\ ~Fresh(posts[i])
         /\ posts[i].kind \in {"opened", "opDone"} => posts[i].epoch <= epoch)'
  BY <1>1, <1>3 DEF Fresh
<1>5. CASE Closed \/ NoSuchDriver
  <2>1. /\ driver' = 0 /\ opened' = FALSE /\ connecting' = FALSE /\ adopted' = FALSE
        /\ UNCHANGED <<created, jobs>>
    BY <1>5 DEF Closed, NoSuchDriver, FinishClose
  <2>2. Typed' /\ AdoptedIsOpen'
    BY <1>1, <2>1 DEF SessionInv, Typed, AdoptedIsOpen
  <2>3. QED
    BY <1>1, <1>2, <1>4, <2>1, <2>2, Quiet
<1>6. CASE Opened
  <2>1. PICK ok \in BOOLEAN : /\ driver' = (IF ok THEN created' ELSE 0)
                              /\ opened' = ok /\ adopted' = ok
    BY <1>6 DEF Opened
  <2>2. created' = created + 1 /\ connecting' = FALSE /\ jobs' = jobs
    BY <1>6 DEF Opened
  <2>3. created' \in Nat /\ created' # 0
    BY <2>2 DEF SessionInv, Typed
  <2>4. Typed' /\ AdoptedIsOpen'
    <3>1. CASE ok
      BY <1>1, <2>1, <2>2, <2>3, <3>1 DEF SessionInv, Typed, AdoptedIsOpen
    <3>2. CASE ~ok
      BY <1>1, <2>1, <2>2, <2>3, <3>2 DEF SessionInv, Typed, AdoptedIsOpen
    <3>3. QED
      BY <3>1, <3>2
  <2>5. QED
    BY <1>1, <1>2, <1>4, <2>2, <2>4, Quiet
<1>7. CASE ConnectStarted
  <2> DEFINE job == [kind |-> "open", driver |-> driver', epoch |-> epoch, request |-> requests]
  <2>1. /\ created' = created + 1 /\ driver' = created' /\ opened' = FALSE /\ adopted' = FALSE
        /\ connecting' = TRUE /\ jobs' = Append(jobs, job)
    BY <1>7 DEF ConnectStarted, FinishClose
  <2>2. /\ job \in AnyJob /\ job.kind = "open" /\ job.driver = driver' /\ job.epoch = epoch
        /\ driver' \in Nat /\ driver' # 0
    BY <2>1 DEF AnyJob, SessionInv, Typed
  <2> HIDE DEF job
  <2>3. /\ jobs' = <<job>> /\ jobs' \in Seq(AnyJob) /\ DOMAIN jobs' = {1} /\ jobs'[1] = job
        /\ NoJob.kind = "none"
    BY <1>2, <2>1, <2>2, OneJob
  <2>4. Typed' /\ Flags' /\ AdoptedIsOpen'
    BY <1>1, <2>1, <2>2, <2>3 DEF SessionInv, Typed, Flags, AdoptedIsOpen
  <2>5. JobsInv'
    BY <1>1, <1>2, <2>1, <2>2, <2>3 DEF JobsInv, JobOk
  <2>6. PostsInv'
    BY <1>4 DEF PostsInv, PostOk
  <2>7. BusyIsTrue'
    BY <1>1, <1>2, <1>4, <2>1, <2>2, <2>3 DEF BusyIsTrue, Underway, Fresh
  <2>8. QED
    BY <2>4, <2>5, <2>6, <2>7 DEF SessionInv
<1>8. QED
  BY <1>5, <1>6, <1>7 DEF Closing

\* The worker: it takes the one job there is, the instrument comes up, and the
\* continuation is posted, of the epoch the job began in.
LEMMA WorkerKeeps == SessionInv /\ Worker => SessionInv'
<1> SUFFICES ASSUME SessionInv, Worker PROVE SessionInv'
  OBVIOUS
<1>1. NoJob.kind = "none" /\ \A j \in AnyJob : j # NoJob
  BY OneJob DEF NoJob
<1>2. CASE TakeJob
  <2>1. /\ working = NoJob /\ jobs # <<>> /\ working' = Head(jobs) /\ jobs' = Tail(jobs)
        /\ UNCHANGED <<driverVars, flagVars, requestVars, posts, main>>
    BY <1>2 DEF TakeJob
  <2>2. /\ Tail(jobs) \in Seq(AnyJob) /\ Head(jobs) \in AnyJob
        /\ 1 \in DOMAIN jobs /\ Head(jobs) = jobs[1]
        /\ \A i \in DOMAIN Tail(jobs) : i + 1 \in DOMAIN jobs /\ i + 1 # 1
    BY <2>1, Taken DEF SessionInv, Typed
  <2>3. JobOk(Head(jobs)) /\ \A i \in DOMAIN jobs : i = 1
    BY <2>2 DEF SessionInv, JobsInv
  <2>4. jobs' = <<>>
    <3>1. Tail(jobs) # <<>> => 1 \in DOMAIN Tail(jobs)
      BY <2>2, Taken
    <3>2. QED
      BY <2>1, <2>2, <2>3, <3>1
  <2>5. Typed' /\ Flags' /\ AdoptedIsOpen'
    BY <2>1, <2>2 DEF SessionInv, Typed, Flags, AdoptedIsOpen, driverVars, flagVars, requestVars
  <2>6. JobsInv'
    <3>1. DOMAIN jobs' = {}
      BY <2>4
    <3>2. JobOk(working)'
      BY <2>1, <2>3 DEF JobOk, driverVars, flagVars
    <3>3. QED
      BY <2>4, <3>1, <3>2 DEF JobsInv
  <2>7. \A i \in DOMAIN posts : ~Fresh(posts[i])
    BY <2>1 DEF SessionInv, PostsInv, PostOk
  <2>8. PostsInv'
    BY <2>1, <2>7 DEF SessionInv, PostsInv, PostOk, Fresh, flagVars
  <2>9. BusyIsTrue'
    <3>1. ASSUME NEW kind, NEW reply, kind # "none"
          PROVE  Underway(kind, reply)' <=> Underway(kind, reply)
      <4>1. DOMAIN jobs' = {}
        BY <2>4
      <4>2. (\E i \in DOMAIN jobs : jobs[i].kind = kind) <=> working'.kind = kind
        BY <2>1, <2>2, <2>3
      <4>3. QED
        BY <1>1, <2>1, <3>1, <4>1, <4>2 DEF Underway, flagVars
    <3>2. QED
      BY <2>1, <3>1 DEF SessionInv, BusyIsTrue, flagVars
  <2>10. QED
    BY <2>5, <2>6, <2>8, <2>9 DEF SessionInv
<1>3. CASE ComesUp
  <2>1. /\ opened' = TRUE /\ working.kind = "open"
        /\ UNCHANGED <<driver, created, adopted, flagVars, requestVars, jobs, working, posts, main>>
    BY <1>3 DEF ComesUp
  <2>2. Typed' /\ JobsInv' /\ Flags' /\ AdoptedIsOpen'
    BY <2>1 DEF SessionInv, Typed, JobsInv, JobOk, Flags, AdoptedIsOpen, flagVars, requestVars
  <2>3. PostsInv'
    BY <2>1 DEF SessionInv, PostsInv, PostOk, Fresh, flagVars
  <2>4. BusyIsTrue'
    BY <2>1 DEF SessionInv, BusyIsTrue, Underway, flagVars
  <2>5. QED
    BY <2>2, <2>3, <2>4 DEF SessionInv
<1>4. CASE FinishJob
  <2>1. /\ working # NoJob /\ working' = NoJob
        /\ UNCHANGED <<driver, created, opened, adopted, flagVars, requestVars, jobs, main>>
    BY <1>4 DEF FinishJob
  <2>2. PICK ok \in (IF working.kind = "open" THEN {opened} ELSE BOOLEAN) :
          posts' = Append(posts,
            [kind    |-> IF working.kind = "open" THEN "opened" ELSE "opDone",
             driver  |-> working.driver, epoch |-> working.epoch,
             request |-> working.request, ok |-> ok])
    BY <1>4 DEF FinishJob
  <2>3. working \in AnyJob /\ JobOk(working) /\ jobs = <<>> /\ DOMAIN jobs = {}
    BY <2>1 DEF SessionInv, Typed, JobsInv
  <2> DEFINE post == [kind    |-> IF working.kind = "open" THEN "opened" ELSE "opDone",
                      driver  |-> working.driver, epoch |-> working.epoch,
                      request |-> working.request, ok |-> ok]
  <2>4. PICK p : p = post
    OBVIOUS
  <2>5. /\ p \in AnyPost /\ p.driver = working.driver /\ p.epoch = working.epoch
        /\ p.kind = IF working.kind = "open" THEN "opened" ELSE "opDone"
        /\ working.kind = "open" => p.ok = opened
    <3>1. ok \in BOOLEAN
      BY <2>2 DEF SessionInv, Typed
    <3>2. QED
      BY <2>2, <2>3, <2>4, <3>1 DEF AnyPost, AnyJob
  <2>6. posts' = Append(posts, p)
    BY <2>2, <2>4
  <2> HIDE DEF post
  <2>7. /\ posts' \in Seq(AnyPost) /\ DOMAIN posts' = DOMAIN posts \cup {Len(posts) + 1}
        /\ posts'[Len(posts) + 1] = p /\ \A i \in DOMAIN posts : posts'[i] = posts[i]
    BY <2>5, <2>6, Pushed DEF SessionInv, Typed
  <2>8. Typed' /\ JobsInv' /\ Flags' /\ AdoptedIsOpen'
    BY <1>1, <2>1, <2>3, <2>7 DEF SessionInv, Typed, JobsInv, Flags, AdoptedIsOpen, flagVars,
       requestVars
  <2>9. \A i \in DOMAIN posts : ~Fresh(posts[i])
    BY <2>1 DEF SessionInv, PostsInv, PostOk
  <2>10. PostOk(p)'
    BY <2>1, <2>3, <2>5 DEF PostOk, JobOk, Fresh, AnyJob, flagVars, SessionInv, Typed
  <2>11. PostsInv'
    <3>1. \A i \in DOMAIN posts : PostOk(posts[i])' /\ ~Fresh(posts[i])'
      BY <2>1, <2>7, <2>9 DEF SessionInv, PostsInv, PostOk, Fresh, flagVars
    <3>2. \A i \in DOMAIN posts' : i \in DOMAIN posts \/ i = Len(posts) + 1
      BY <2>7
    <3>3. \A i \in DOMAIN posts' : PostOk(posts[i])'
      BY <2>7, <2>10, <3>1, <3>2 DEF PostOk, Fresh
    <3>4. \A i, k \in DOMAIN posts' : Fresh(posts[i])' /\ Fresh(posts[k])' => i = k
      BY <3>1, <3>2
    <3>5. QED
      BY <3>3, <3>4 DEF PostsInv
  <2>12. BusyIsTrue'
    <3> SUFFICES ASSUME main' = "idle"
                 PROVE  /\ (connecting <=> Underway("open", "opened"))'
                        /\ (deviceBusy <=> Underway("op", "opDone"))'
      BY DEF BusyIsTrue
    <3>1. p.epoch = epoch' /\ UNCHANGED <<connecting, deviceBusy>>
      BY <2>1, <2>3, <2>5 DEF JobOk, flagVars
    <3>2. \A reply \in {"opened", "opDone"} :
            (\E i \in DOMAIN posts' : posts'[i].kind = reply /\ posts'[i].epoch = epoch')
              <=> p.kind = reply
      BY <2>1, <2>7, <2>9, <3>1 DEF Fresh, flagVars
    <3>3. /\ Underway("open", "opened")' <=> p.kind = "opened"
          /\ Underway("op", "opDone")' <=> p.kind = "opDone"
      BY <1>1, <2>1, <2>3, <3>2 DEF Underway
    <3>4. /\ p.kind = "opened" => connecting /\ ~deviceBusy
          /\ p.kind = "opDone" => deviceBusy /\ ~connecting
      BY <2>3, <2>5 DEF JobOk, AnyJob, SessionInv, Flags
    <3>5. p.kind = "opened" \/ p.kind = "opDone"
      BY <2>5
    <3>6. QED
      BY <3>1, <3>3, <3>4, <3>5 DEF SessionInv, Typed
  <2>13. QED
    BY <2>8, <2>11, <2>12 DEF SessionInv
<1>5. QED
  BY <1>2, <1>3, <1>4 DEF Worker

\* The main thread delivers a post.
LEMMA DispatchKeeps == SessionInv /\ Dispatch => SessionInv'
<1> SUFFICES ASSUME SessionInv, Dispatch PROVE SessionInv'
  OBVIOUS
<1>1. /\ main = "idle" /\ posts # <<>> /\ posts' = Tail(posts)
      /\ UNCHANGED <<created, epoch, requests, jobs, working, main>>
  BY DEF Dispatch, DeliverStaleOpen, DeliverOpened, DeliverRefused, DeliverOpDone, DeliverWake,
     DeliverState, DeliverExpired, Deliver
<1>2. CASE ~Fresh(Head(posts))
  <2>1. UNCHANGED <<driver, opened, adopted, connecting, deviceBusy>>
    <3>1. CASE DeliverStaleOpen
      BY <3>1 DEF DeliverStaleOpen
    <3>2. ~DeliverOpened /\ ~DeliverRefused
      BY <1>2 DEF DeliverOpened, DeliverRefused, Deliver, NextPost, Stale, Fresh
    <3>3. CASE DeliverOpDone
      BY <1>2, <3>3 DEF DeliverOpDone, Deliver, NextPost, Stale, Fresh
    <3>4. CASE DeliverWake \/ DeliverState \/ DeliverExpired
      BY <3>4 DEF DeliverWake, DeliverState, DeliverExpired
    <3>5. QED
      BY <3>1, <3>2, <3>3, <3>4 DEF Dispatch
  <2>2. QED
    BY <1>1, <1>2, <2>1, StaleTaken DEF rest
<1>3. CASE Fresh(Head(posts))
  <2>1. /\ posts' \in Seq(AnyPost) /\ jobs' = <<>> /\ working' = NoJob
        /\ PostOk(Head(posts)) /\ Head(posts) \in AnyPost
        /\ (\A i \in DOMAIN posts :
              /\ ~Fresh(posts[i])
              /\ posts[i].kind \in {"opened", "opDone"} => posts[i].epoch <= epoch)'
    BY <1>1, <1>3, FreshTaken
  <2>2. CASE DeliverOpened
    <3>1. /\ adopted' = TRUE /\ connecting' = FALSE /\ UNCHANGED <<driver, opened, deviceBusy>>
          /\ Head(posts).kind = "opened" /\ Head(posts).ok
      BY <2>2 DEF DeliverOpened, Deliver, NextPost
    <3>2. connecting /\ ~deviceBusy /\ driver # 0 /\ opened
      BY <1>3, <2>1, <3>1 DEF PostOk, SessionInv, Flags
    <3>3. Typed' /\ AdoptedIsOpen'
      BY <1>1, <2>1, <3>1, <3>2 DEF SessionInv, Typed, AdoptedIsOpen
    <3>4. QED
      BY <2>1, <3>1, <3>2, <3>3, Quiet
  <2>3. CASE DeliverRefused
    <3>1. /\ connecting' = FALSE /\ driver' = 0 /\ opened' = FALSE
          /\ UNCHANGED <<adopted, deviceBusy>> /\ Head(posts).kind = "opened"
      BY <2>3 DEF DeliverRefused, Deliver, NextPost
    <3>2. connecting /\ ~deviceBusy /\ ~adopted
      BY <1>3, <2>1, <3>1 DEF PostOk, SessionInv, Flags, AdoptedIsOpen
    <3>3. Typed' /\ AdoptedIsOpen'
      BY <1>1, <2>1, <3>1, <3>2 DEF SessionInv, Typed, AdoptedIsOpen
    <3>4. QED
      BY <2>1, <3>1, <3>2, <3>3, Quiet
  <2>4. CASE DeliverOpDone
    <3>1. /\ deviceBusy' = FALSE /\ UNCHANGED <<driver, opened, adopted, connecting>>
          /\ Head(posts).kind = "opDone"
      BY <1>3, <2>4 DEF DeliverOpDone, Deliver, NextPost, Stale, Fresh
    <3>2. ~connecting
      BY <1>3, <2>1, <3>1 DEF PostOk, SessionInv, Flags
    <3>3. Typed' /\ AdoptedIsOpen'
      BY <1>1, <2>1, <3>1, <3>2 DEF SessionInv, Typed, AdoptedIsOpen
    <3>4. QED
      BY <2>1, <3>1, <3>2, <3>3, Quiet
  <2>5. ~DeliverStaleOpen /\ ~DeliverWake /\ ~DeliverState /\ ~DeliverExpired
    BY <1>3 DEF DeliverStaleOpen, DeliverWake, DeliverState, DeliverExpired, Deliver, NextPost,
       Stale, Fresh
  <2>6. QED
    BY <2>2, <2>3, <2>4, <2>5 DEF Dispatch
<1>4. QED
  BY <1>2, <1>3

\* The acquisition thread publishes or retires, and the tick drains.
LEMMA AcquisitionKeeps == SessionInv /\ (Tick \/ Publish \/ Retire) => SessionInv'
<1> SUFFICES ASSUME SessionInv, Tick \/ Publish \/ Retire PROVE SessionInv'
  OBVIOUS
<1>1. CASE Tick
  BY <1>1, SessionInvSame DEF Tick, rest, flagVars, requestVars
<1>2. CASE Publish
  <2>1. UNCHANGED rest
    BY <1>2 DEF Publish, rest, flagVars, requestVars
  <2>2. CASE wakePending
    BY <1>2, <2>1, <2>2, SessionInvSame DEF Publish
  <2>3. CASE ~wakePending
    <3> DEFINE p == [kind |-> "wake", driver |-> driver, epoch |-> 0, request |-> 0, ok |-> TRUE]
    <3>1. p \in AnyPost /\ p.kind = "wake"
      BY DEF AnyPost, SessionInv, Typed
    <3>2. posts' = Append(posts, p)
      BY <1>2, <2>3 DEF Publish
    <3>3. QED
      BY <2>1, <3>1, <3>2, DriverPosts
  <2>4. QED
    BY <2>2, <2>3
<1>3. CASE Retire
  <2>1. UNCHANGED rest
    BY <1>3 DEF Retire, Becomes, rest, flagVars, requestVars
  <2>2. CASE posts' = posts
    BY <2>1, <2>2, SessionInvSame
  <2>3. CASE posts' # posts
    <3> DEFINE p == [kind |-> "state", driver |-> driver, epoch |-> 0, request |-> 0, ok |-> TRUE]
    <3>1. p \in AnyPost /\ p.kind = "state"
      BY DEF AnyPost, SessionInv, Typed
    <3>2. posts' = Append(posts, p)
      BY <1>3, <2>3 DEF Retire, Becomes
    <3>3. QED
      BY <2>1, <3>1, <3>2, DriverPosts
  <2>4. QED
    BY <2>2, <2>3
<1>4. QED
  BY <1>1, <1>2, <1>3

\* Every step of the main thread and of every job keeps the session's invariant.
LEMMA SessionInvNext == SessionInv /\ [Next]_vars => SessionInv'
<1>1. SessionInv /\ UNCHANGED vars => SessionInv'
  BY SessionInvSame DEF vars, rest, driverVars, flagVars, requestVars
<1>2. QED
  BY <1>1, CallKeeps, ClosingKeeps, DispatchKeeps, WorkerKeeps, AcquisitionKeeps DEF Next

\* The session's invariant holds in every state.
LEMMA SessionInvariant == Spec => []SessionInv
  BY SessionInvInit, SessionInvNext, PTL DEF Spec

-----------------------------------------------------------------------------
\* isBusy(), runOnDevice(), openAsync(): a flag is up exactly while its job, or the
\* job's continuation of this epoch, is on its way.  A flag left up would refuse every
\* later connect and autoset.
THEOREM SessionBusyIsTrue == Spec => []BusyIsTrue
<1>1. SessionInv => BusyIsTrue
  BY DEF SessionInv
<1>2. QED
  BY <1>1, SessionInvariant, PTL

\* _finishOpen(): the driver that is adopted is there, answered its own open(), and is
\* not being connected.
THEOREM SessionAdoptedIsOpen == Spec => []AdoptedIsOpen
<1>1. SessionInv => AdoptedIsOpen
  BY DEF SessionInv
<1>2. QED
  BY <1>1, SessionInvariant, PTL

\* "CLOSING WHILE THE DEVICE WORKER IS STILL IN THE DRIVER MUST NOT FREE IT UNDER HIM"
\* (test_session_connect.cpp): the bare pointers in the worker's queue are of the driver
\* there is.
THEOREM SessionWorkerPointerValid == Spec => []WorkerPointerValid
<1>1. SessionInv => WorkerPointerValid
  BY DEF SessionInv, JobsInv, JobOk, WorkerPointerValid
<1>2. QED
  BY <1>1, SessionInvariant, PTL

\* close(), the epoch and the life token: no handler, no late callback and no job
\* dereferences a driver that is gone.
THEOREM SessionOnlyLiveDrivers == Spec => OnlyLiveDrivers
<1>1. ASSUME SessionInv, Next PROVE touched' \subseteq {driver, driver'}
  <2>1. CASE Call
    BY <1>1, <2>1 DEF Call, Close, Open, OpenAsync, OpenAsyncRefused, RunOnDevice, Start, Stop,
       BeginClose, Becomes
  <2>2. CASE Closing
    BY <2>2 DEF Closing, Closed, Opened, ConnectStarted, NoSuchDriver, FinishClose
  <2>3. CASE Worker
    <3>1. CASE TakeJob
      <4>1. jobs # <<>> => 1 \in DOMAIN jobs /\ Head(jobs) = jobs[1]
        BY <1>1, Taken DEF SessionInv, Typed
      <4>2. QED
        BY <1>1, <3>1, <4>1 DEF TakeJob, SessionInv, JobsInv, JobOk
    <3>2. CASE ComesUp \/ FinishJob
      <4>1. working # NoJob
        BY <3>2 DEF ComesUp, FinishJob, NoJob
      <4>2. QED
        BY <1>1, <3>2, <4>1 DEF ComesUp, FinishJob, SessionInv, JobsInv, JobOk
    <3>3. QED
      BY <2>3, <3>1, <3>2 DEF Worker
  <2>4. CASE Dispatch
    <3>1. CASE DeliverOpened \/ DeliverRefused
      <4>1. posts # <<>> /\ Fresh(Head(posts)) /\ Head(posts).kind = "opened"
            /\ touched' = {Head(posts).driver}
        BY <3>1 DEF DeliverOpened, DeliverRefused, Deliver, NextPost, Stale, Fresh
      <4>2. 1 \in DOMAIN posts /\ Head(posts) = posts[1]
        BY <1>1, <4>1, Taken DEF SessionInv, Typed
      <4>3. Head(posts).driver = driver
        BY <1>1, <4>1, <4>2 DEF SessionInv, PostsInv, PostOk
      <4>4. QED
        BY <4>1, <4>3
    <3>2. CASE DeliverWake \/ DeliverState
      BY <3>2 DEF DeliverWake, DeliverState, Expired
    <3>3. CASE DeliverStaleOpen \/ DeliverOpDone \/ DeliverExpired
      BY <3>3 DEF DeliverStaleOpen, DeliverOpDone, DeliverExpired
    <3>4. QED
      BY <2>4, <3>1, <3>2, <3>3 DEF Dispatch
  <2>5. CASE Tick \/ Publish \/ Retire
    BY <2>5 DEF Tick, Publish, Retire, Becomes
  <2>6. QED
    BY <1>1, <2>1, <2>2, <2>3, <2>4, <2>5 DEF Next
<1>2. SessionInv /\ [Next]_vars => [touched' \subseteq {driver, driver'}]_vars
  BY <1>1
<1>3. QED
  BY <1>2, SessionInvariant, PTL DEF Spec, OnlyLiveDrivers

\* The frame on display is of the driver there is; while one is being connected there
\* is none, so a driver that is refused leaves nothing behind.
ShownInv == FrameOfThisDriver /\ (connecting => latestOf = 0)

\* A continuation of this epoch answers the connect under way.
LEMMA OpenedFresh ==
  ASSUME SessionInv, DeliverOpened \/ DeliverRefused PROVE connecting
<1>1. posts # <<>> /\ Fresh(Head(posts)) /\ Head(posts).kind = "opened"
  BY DEF DeliverOpened, DeliverRefused, Deliver, NextPost, Stale, Fresh
<1>2. 1 \in DOMAIN posts /\ Head(posts) = posts[1]
  BY <1>1, Taken DEF SessionInv, Typed
<1>3. QED
  BY <1>1, <1>2 DEF SessionInv, PostsInv, PostOk

\* drain(), _finishOpen(), close(): the display never keeps a frame of an instrument
\* that is gone, whether it was closed, replaced, or would not open.
THEOREM SessionFrameOfThisDriver == Spec => []FrameOfThisDriver
<1>1. Init => ShownInv
  BY DEF Init, ShownInv, FrameOfThisDriver
<1>2. ASSUME SessionInv, ShownInv, [Next]_vars PROVE ShownInv'
  <2> USE DEF ShownInv, FrameOfThisDriver, driverVars, flagVars, requestVars
  <2>1. CASE Call
    BY <1>2, <2>1 DEF Call, Close, Open, OpenAsync, OpenAsyncRefused, RunOnDevice, Start, Stop,
       BeginClose, Becomes
  <2>2. CASE Closing
    BY <2>2 DEF Closing, Closed, Opened, ConnectStarted, NoSuchDriver, FinishClose
  <2>3. CASE Worker
    BY <1>2, <2>3 DEF Worker, TakeJob, ComesUp, FinishJob
  <2>4. CASE Dispatch
    <3>1. CASE DeliverOpened \/ DeliverRefused
      BY <1>2, <3>1, OpenedFresh DEF DeliverOpened, DeliverRefused
    <3>2. CASE DeliverWake
      BY <1>2, <3>2 DEF DeliverWake, Drain, SessionInv, AdoptedIsOpen
    <3>3. CASE DeliverStaleOpen \/ DeliverOpDone \/ DeliverState \/ DeliverExpired
      BY <1>2, <3>3 DEF DeliverStaleOpen, DeliverOpDone, DeliverState, DeliverExpired
    <3>4. QED
      BY <2>4, <3>1, <3>2, <3>3 DEF Dispatch
  <2>5. CASE Tick
    BY <1>2, <2>5 DEF Tick, Drain, SessionInv, AdoptedIsOpen
  <2>6. CASE Publish \/ Retire \/ UNCHANGED vars
    BY <1>2, <2>6 DEF Publish, Retire, Becomes, vars
  <2>7. QED
    BY <1>2, <2>1, <2>2, <2>3, <2>4, <2>5, <2>6 DEF Next
<1>3. ShownInv => FrameOfThisDriver
  BY DEF ShownInv
<1>4. QED
  BY <1>1, <1>2, <1>3, SessionInvariant, PTL DEF Spec

-----------------------------------------------------------------------------
\* What the application opens.

\* What is on the screen, and what is being connected, is something.
Known == /\ last = None \/ last \in Everything
         /\ session # "closed" => device \in Everything /\ session \in {"connecting", "open"}
         /\ dialog # None => dialog.do \in {"select", "user"}
         /\ dialog # None /\ dialog.do = "user" => dialog.device \in Everything
         /\ asked \in {"start", "user"}

\* The question is put once in a run.
AskedOnce == dialog # None => offered

\* The selection is still to be made, and nothing has been tried: before the first
\* frame, and while the question stands that holds it up.
Selecting == pending \/ (dialog # None /\ dialog.do = "select")
NotYet == /\ Selecting => tried = {}
          /\ ~(pending /\ dialog # None /\ dialog.do = "select")

\* What the selection connects is what it tried, and no question is put for it.
SameDevice == session = "connecting" /\ asked = "start" => device \in tried /\ ~MustAsk(device)

\* A process that is gone has left nothing of this.
Down == ~up => tried = {} /\ dialog = None

SelectInv == Down /\ Known /\ AskedOnce /\ NotYet /\ SameDevice /\ OneIsTried

linked == <<up, preferred, pending, dialog, offered, installed, session, device, asked, tried,
last>>

\* At first no instrument is selected and no scan has been made.
LEMMA SelectInvInit == AppInit => SelectInv
  BY DEF AppInit, SelectInv, Down, Known, AskedOnce, Selecting, NotYet, SameDevice, OneIsTried

\* A step that leaves the application's choice alone keeps its invariant.
LEMMA SelectInvSame == SelectInv /\ UNCHANGED linked => SelectInv'
  BY DEF SelectInv, Down, Known, AskedOnce, Selecting, NotYet, SameDevice, OneIsTried,
     MustAsk, linked

\* What the selection may open.
Right(d) == IF preferred # None THEN d.driver = preferred
            ELSE /\ last # None /\ d.driver = last.driver
                 /\ d.serial # "" /\ last.serial # "" => d.unit = last.unit

\* What is taken from a scan is a device the user may have meant.
LEMMA WantedIsRight ==
  ASSUME Known, NEW found \in Buses, NEW d \in Wanted(found)
  PROVE  d \in Everything /\ Right(d)
<1>1. d \in found /\ Named(d)
  BY DEF Wanted
<1>2. d \in Devices
  BY <1>1, AppAssumption
<1>3. d \in Everything
  BY <1>2 DEF Everything
<1>4. CASE preferred # None
  BY <1>1, <1>3, <1>4 DEF Named, Right
<1>5. CASE preferred = None
  <2>1. last # None /\ d.driver = last.driver
    BY <1>1, <1>5 DEF Named, IsLast
  <2>2. ASSUME d.serial # "", last.serial # "" PROVE d.unit = last.unit
    <3>1. d.serial = last.serial
      BY <1>1, <1>5, <2>2 DEF Named, IsLast
    <3>2. last \in Everything
      BY <2>1 DEF Known
    <3>3. QED
      BY <1>3, <2>1, <2>2, <3>1, <3>2, SerialAssumption
  <2>3. QED
    BY <1>3, <1>5, <2>1, <2>2 DEF Right
<1>6. QED
  BY <1>4, <1>5

\* What the selection does to the session, the question and the history, wherever
\* it is made from: it asks, or leaves them alone, or connects a device it may open.
LEMMA SelectDoes ==
  ASSUME Known, Select
  PROVE  \/ /\ ~offered /\ offered' = TRUE
            /\ dialog' = [do |-> "select", device |-> None] /\ UNCHANGED linkVars
         \/ UNCHANGED <<offered, linkVars>>
         \/ /\ session' = "connecting" /\ device' \in Everything /\ asked' = "start"
            /\ tried' = tried \cup {device'} /\ offered' = offered
            /\ Right(device') /\ ~MustAsk(device')
<1>1. PICK found \in Buses :
        IF \E d \in found : MustAsk(d)
        THEN Ask([do |-> "select", device |-> None]) /\ UNCHANGED <<linkVars, notice>>
        ELSE IF Wanted(found) # {} THEN \E d \in Wanted(found) : ConnectTo(d)
        ELSE notice' = NothingToOpen /\ UNCHANGED <<linkVars, offered>>
  BY DEF Select
<1>2. CASE \E d \in found : MustAsk(d)
  BY <1>1, <1>2 DEF MustAsk, Ask
<1>3. CASE ~(\E d \in found : MustAsk(d)) /\ Wanted(found) # {}
  <2>1. PICK d \in Wanted(found) : ConnectTo(d)
    BY <1>1, <1>3
  <2>2. d \in Everything /\ Right(d) /\ ~MustAsk(d)
    BY <1>3, WantedIsRight DEF Wanted
  <2>3. QED
    BY <2>1, <2>2 DEF ConnectTo, Connect, Failed
<1>4. CASE ~(\E d \in found : MustAsk(d)) /\ Wanted(found) = {}
  BY <1>1, <1>4
<1>5. QED
  BY <1>2, <1>3, <1>4

\* openDevice(): a connect begins in the user's name, or nothing happens, or the
\* question is put.
LEMMA OpenDoes ==
  ASSUME NEW d \in Everything, OpenDevice(d)
  PROVE  \/ /\ session' = "connecting" /\ device' = d /\ asked' = "user"
            /\ tried' = tried /\ offered' = offered
         \/ /\ ~offered /\ offered' = TRUE
            /\ dialog' = [do |-> "user", device |-> d] /\ UNCHANGED linkVars
         \/ UNCHANGED <<offered, linkVars>>
  BY DEF OpenDevice, Connect, MustAsk, Ask

\* The first frame makes the selection.
LEMMA FirstFrameKeeps == SelectInv /\ FirstFrame => SelectInv'
<1> SUFFICES ASSUME SelectInv, FirstFrame PROVE SelectInv'
  OBVIOUS
<1>1. Known /\ AskedOnce /\ tried = {} /\ ~(dialog # None /\ dialog.do = "select")
  BY DEF SelectInv, NotYet, Selecting, FirstFrame
<1>2. pending' = FALSE /\ Select /\ KeepQuestion /\ UNCHANGED <<preferred, installed,
last>> /\ up /\ up'
  BY DEF FirstFrame, fileVars
<1>3. CASE /\ ~offered /\ offered' = TRUE
           /\ dialog' = [do |-> "select", device |-> None] /\ UNCHANGED linkVars
  BY <1>1, <1>2, <1>3 DEF SelectInv, Down, Known, AskedOnce, Selecting, NotYet, SameDevice,
     OneIsTried,
     MustAsk, linkVars
<1>4. CASE UNCHANGED <<offered, linkVars>>
  BY <1>1, <1>2, <1>4 DEF SelectInv, Down, Known, AskedOnce, Selecting, NotYet, SameDevice,
     OneIsTried,
     MustAsk, linkVars, KeepQuestion
<1>5. CASE /\ session' = "connecting" /\ device' \in Everything /\ asked' = "start"
           /\ tried' = tried \cup {device'} /\ offered' = offered
           /\ Right(device') /\ ~MustAsk(device')
  BY <1>1, <1>2, <1>5 DEF SelectInv, Down, Known, AskedOnce, Selecting, NotYet, SameDevice,
     OneIsTried,
     MustAsk, KeepQuestion
<1>6. QED
  BY <1>1, <1>2, <1>3, <1>4, <1>5, SelectDoes

\* The question that held the selection up is settled, or one put for the user.
LEMMA AnsweredKeeps == SelectInv /\ Answered => SelectInv'
<1> SUFFICES ASSUME SelectInv, Answered PROVE SelectInv'
  OBVIOUS
<1>1. /\ Known /\ AskedOnce /\ NotYet /\ SameDevice /\ OneIsTried
      /\ dialog # None /\ dialog' = None /\ offered
      /\ UNCHANGED <<preferred, pending, installed, last>> /\ up /\ up'
  BY DEF SelectInv, Answered, fileVars, AskedOnce
<1>2. CASE dialog.do = "select"
  <2>1. Select /\ tried = {} /\ ~pending
    BY <1>1, <1>2 DEF Answered, NotYet, Selecting
  <2>2. CASE UNCHANGED <<offered, linkVars>>
    BY <1>1, <2>1, <2>2 DEF SelectInv, Down, Known, AskedOnce, Selecting, NotYet, SameDevice,
       OneIsTried,
       MustAsk, linkVars
  <2>3. CASE /\ session' = "connecting" /\ device' \in Everything /\ asked' = "start"
             /\ tried' = tried \cup {device'} /\ offered' = offered
             /\ Right(device') /\ ~MustAsk(device')
    BY <1>1, <2>1, <2>3 DEF SelectInv, Down, Known, AskedOnce, Selecting, NotYet, SameDevice,
       OneIsTried,
       MustAsk
  <2>4. QED
    BY <1>1, <2>1, <2>2, <2>3, SelectDoes
<1>3. CASE dialog.do = "user"
  <2>1. OpenDevice(dialog.device) /\ dialog.device \in Everything
    BY <1>1, <1>3 DEF Answered, Known
  <2>2. CASE UNCHANGED <<offered, linkVars>>
    BY <1>1, <2>2 DEF SelectInv, Down, Known, AskedOnce, Selecting, NotYet, SameDevice,
       OneIsTried,
       MustAsk, linkVars
  <2>3. CASE /\ session' = "connecting" /\ device' = dialog.device /\ asked' = "user"
             /\ tried' = tried /\ offered' = offered
    BY <1>1, <2>1, <2>3 DEF SelectInv, Down, Known, AskedOnce, Selecting, NotYet, SameDevice,
       OneIsTried
  <2>4. QED
    BY <1>1, <2>1, <2>2, <2>3, OpenDoes
<1>4. QED
  BY <1>1, <1>2, <1>3 DEF Known

\* A device is picked, before the first frame or after it.
LEMMA PickKeeps == SelectInv /\ Pick => SelectInv'
<1> SUFFICES ASSUME SelectInv, Pick PROVE SelectInv'
  OBVIOUS
<1>1. /\ Known /\ AskedOnce /\ NotYet /\ SameDevice /\ OneIsTried
      /\ KeepQuestion /\ UNCHANGED <<preferred, pending, installed, last>> /\ up /\ up'
  BY DEF SelectInv, Pick, fileVars
<1>2. PICK d \in Everything : OpenDevice(d)
  BY DEF Pick, Everything
<1>3. CASE UNCHANGED <<offered, linkVars>>
  BY <1>1, <1>3 DEF SelectInv, Down, Known, AskedOnce, Selecting, NotYet, SameDevice,
     OneIsTried,
     MustAsk, linkVars, KeepQuestion
<1>4. CASE /\ session' = "connecting" /\ device' = d /\ asked' = "user"
           /\ tried' = tried /\ offered' = offered
  BY <1>1, <1>4 DEF SelectInv, Down, Known, AskedOnce, Selecting, NotYet, SameDevice,
     OneIsTried,
     KeepQuestion
<1>5. CASE /\ ~offered /\ offered' = TRUE
           /\ dialog' = [do |-> "user", device |-> d] /\ UNCHANGED linkVars
  BY <1>1, <1>5 DEF SelectInv, Down, Known, AskedOnce, Selecting, NotYet, SameDevice,
     OneIsTried,
     MustAsk, linkVars
<1>6. QED
  BY <1>2, <1>3, <1>4, <1>5, OpenDoes

\* A connect fails: the question is put for the user's device only.
LEMMA ConnectFailsKeeps == SelectInv /\ ConnectFails => SelectInv'
<1> SUFFICES ASSUME SelectInv, ConnectFails PROVE SelectInv'
  OBVIOUS
<1>1. /\ Known /\ AskedOnce /\ NotYet /\ SameDevice /\ OneIsTried
      /\ session = "connecting" /\ session' = "closed" /\ Failed(device, asked) /\ KeepQuestion
      /\ UNCHANGED <<preferred, pending, installed, device, asked, tried, last>> /\ up /\ up'
  BY DEF SelectInv, ConnectFails, fileVars
<1>2. CASE MustAsk(device)
  <2>1. asked = "user" /\ device \in Everything /\ ~offered
    BY <1>1, <1>2 DEF SameDevice, Known, MustAsk
  <2>2. offered' = TRUE /\ dialog' = [do |-> "user", device |-> device]
    BY <1>1, <1>2, <2>1 DEF Failed, Ask
  <2>3. QED
    BY <1>1, <2>1, <2>2 DEF SelectInv, Down, Known, AskedOnce, Selecting, NotYet, SameDevice,
       OneIsTried
<1>3. CASE ~MustAsk(device)
  <2>1. UNCHANGED <<offered, dialog>>
    BY <1>1, <1>3 DEF Failed, KeepQuestion
  <2>2. QED
    BY <1>1, <2>1 DEF SelectInv, Down, Known, AskedOnce, Selecting, NotYet, SameDevice,
       OneIsTried
<1>4. QED
  BY <1>2, <1>3

\* Every step keeps the application's choice in accord with the session.
LEMMA SelectInvNext == SelectInv /\ [AppNext]_appVars => SelectInv'
<1> SUFFICES ASSUME SelectInv, [AppNext]_appVars PROVE SelectInv'
  OBVIOUS
<1>1. CASE FirstFrame
  BY <1>1, FirstFrameKeeps
<1>2. CASE Pick
  BY <1>2, PickKeeps
<1>3. CASE RuleInstalled
  BY <1>3 DEF RuleInstalled, linkVars, fileVars, SelectInv, Down, Known, AskedOnce, Selecting,
     NotYet,
     SameDevice, OneIsTried, MustAsk
<1>4. CASE Answered
  BY <1>4, AnsweredKeeps
<1>5. CASE ConnectFails
  BY <1>5, ConnectFailsKeeps
<1>6. CASE Adopt
  BY <1>6 DEF Adopt, ruleVars, SelectInv, Down, Known, AskedOnce, Selecting, NotYet, SameDevice,
     OneIsTried
<1>7. CASE Edit \/ StartRecording \/ StopRecording \/ UNCHANGED appVars
  BY <1>7, SelectInvSame DEF Edit, StartRecording, StopRecording, appVars, linkVars, ruleVars,
     fileVars, linked
<1>8. CASE Quit \/ Killed
  BY <1>8 DEF Quit, Killed, Gone, SelectInv, Down, Known, AskedOnce, Selecting, NotYet,
     SameDevice,
     OneIsTried
<1>9. CASE Restart
  BY <1>9 DEF Restart, linkVars, ruleVars, fileVars, SelectInv, Down, Known, AskedOnce,
     Selecting,
     NotYet, SameDevice, OneIsTried, MustAsk
<1>10. QED
  BY <1>1, <1>2, <1>3, <1>4, <1>5, <1>6, <1>7, <1>8, <1>9 DEF AppNext

\* The application's invariant holds in every state.
LEMMA SelectInvariant == AppSpec => []SelectInv
<1>1. QED
  BY SelectInvInit, SelectInvNext, PTL DEF AppSpec

\* _selectDevice(), _connectTo(): a run of the program opens one device of its own
\* accord, whatever fails, however the question is answered and whatever is picked.
THEOREM AppOneIsTried == AppSpec => []OneIsTried
<1>1. SelectInv => OneIsTried
  BY DEF SelectInv
<1>2. QED
  BY <1>1, SelectInvariant, PTL

\* _selectDevice(): without --device it is the unit remembered, as far as serial
\* numbers tell; with --device it is one of that driver.
THEOREM AppOnlyRemembered == AppSpec => OnlyRemembered
<1> DEFINE Remembers ==
      \A d \in tried' \ tried :
        IF preferred # None THEN d.driver = preferred
        ELSE /\ last # None /\ d.driver = last.driver
             /\ d.serial # "" /\ last.serial # "" => d.unit = last.unit
<1>1. ASSUME SelectInv, [AppNext]_appVars PROVE Remembers \/ UNCHANGED appVars
  <2>1. CASE Select
    BY <1>1, <2>1, SelectDoes DEF SelectInv, Right, linkVars
  <2>2. CASE UNCHANGED tried
    BY <2>2
  <2>3. CASE tried' = {}
    BY <2>3
  <2>4. FirstFrame => Select
    BY DEF FirstFrame
  <2>5. Pick => UNCHANGED tried
    BY OpenDoes DEF Pick, Everything, linkVars
  <2>6. Answered => Select \/ UNCHANGED tried
    <3> SUFFICES ASSUME Answered PROVE Select \/ UNCHANGED tried
      OBVIOUS
    <3>1. dialog # None /\ dialog.do \in {"select", "user"}
      BY <1>1 DEF Answered, SelectInv, Down, Known
    <3>2. CASE dialog.do = "select"
      BY <3>2 DEF Answered
    <3>3. CASE dialog.do = "user"
      BY <1>1, <3>1, <3>3, OpenDoes DEF Answered, SelectInv, Down, Known, linkVars
    <3>4. QED
      BY <3>1, <3>2, <3>3
  <2>7. ConnectFails \/ Adopt \/ Edit => UNCHANGED tried
    BY DEF ConnectFails, Adopt, Edit
  <2>8. RuleInstalled \/ StartRecording \/ StopRecording \/ Restart => UNCHANGED tried
    BY DEF RuleInstalled, StartRecording, StopRecording, Restart, linkVars
  <2>9. Quit \/ Killed => tried' = {}
    BY DEF Quit, Killed, Gone
  <2>10. QED
    BY <1>1, <2>1, <2>2, <2>3, <2>4, <2>5, <2>6, <2>7, <2>8, <2>9 DEF AppNext
<1>2. SelectInv /\ [AppNext]_appVars => [Remembers]_appVars
  BY <1>1
<1>3. QED
  BY <1>2, SelectInvariant, PTL DEF AppSpec, OnlyRemembered

\* An open instrument holds what was put back into it, or what the user has set since;
\* the file keeps a section for each driver.
KeptInv == /\ DOMAIN stored = DriverNames /\ DOMAIN left = DriverNames
           /\ session = "open" /\ ~device.owns
                => cfg = left[device.driver] \/ cfg = Restored(device)

\* A step that leaves the open instrument and the file alone keeps that.
LEMMA KeptInvSame ==
  ASSUME KeptInv, UNCHANGED <<session, device, cfg, stored, left>> PROVE KeptInv'
  BY DEF KeptInv, Restored

\* A connect takes the open instrument away, or nothing happens to it.
LEMMA LinkOrNone ==
  ASSUME SelectInv, FirstFrame \/ Pick \/ Answered
  PROVE  /\ UNCHANGED <<stored, left>>
         /\ UNCHANGED <<session, device, cfg>> \/ session' = "connecting"
<1>1. ASSUME NEW d, ConnectTo(d) \/ OpenDevice(d)
      PROVE  UNCHANGED <<session, device, cfg>> \/ session' = "connecting"
  BY <1>1 DEF ConnectTo, OpenDevice, Connect, linkVars
<1>2. Select => UNCHANGED <<session, device, cfg>> \/ session' = "connecting"
  BY <1>1 DEF Select, linkVars
<1>3. Answered => Select \/ ConnectTo(dialog.device) \/ OpenDevice(dialog.device)
  BY DEF Answered, SelectInv, Known
<1>4. Pick => \E d : OpenDevice(d)
  BY DEF Pick
<1>5. FirstFrame => Select
  BY DEF FirstFrame
<1>6. FirstFrame \/ Pick \/ Answered => UNCHANGED <<stored, left>>
  BY DEF FirstFrame, Pick, Answered, fileVars
<1>7. QED
  BY <1>1, <1>2, <1>3, <1>4, <1>5, <1>6

\* Every step keeps the open instrument's setup the stored one or the user's.
LEMMA KeptInvNext == SelectInv /\ KeptInv /\ [AppNext]_appVars => KeptInv'
<1> SUFFICES ASSUME SelectInv, KeptInv, [AppNext]_appVars PROVE KeptInv'
  OBVIOUS
<1>1. ASSUME session' # "open", DOMAIN stored' = DriverNames, DOMAIN left' = DriverNames
      PROVE  KeptInv'
  BY <1>1 DEF KeptInv
<1>2. CASE FirstFrame \/ Pick \/ Answered
  BY <1>1, <1>2, LinkOrNone, KeptInvSame DEF KeptInv
<1>3. CASE ConnectFails
  BY <1>1, <1>3 DEF ConnectFails, fileVars, KeptInv
<1>4. CASE Adopt
  <2>1. /\ DOMAIN stored' = DriverNames /\ DOMAIN left' = DriverNames
        /\ UNCHANGED <<device, stored>> /\ cfg' \in ComesUpWith(device)
    BY <1>4 DEF Adopt, KeptInv
  <2>2. QED
    BY <2>1 DEF KeptInv, ComesUpWith, Restored
<1>5. CASE Edit
  <2>1. device \in Everything
    BY <1>5 DEF Edit, SelectInv, Known
  <2>2. device.driver \in DriverNames
    BY <2>1 DEF DriverNames
  <2>3. PICK c \in Setups : cfg' = c /\ left' = [left EXCEPT ![device.driver] = c]
    BY <1>5 DEF Edit
  <2>4. QED
    BY <1>5, <2>2, <2>3 DEF Edit, KeptInv
<1>6. CASE Quit \/ Killed
  BY <1>1, <1>6 DEF Quit, Killed, Gone, KeptInv
<1>7. CASE RuleInstalled \/ StartRecording \/ StopRecording \/ Restart \/ UNCHANGED appVars
  BY <1>7, KeptInvSame DEF RuleInstalled, StartRecording, StopRecording, Restart, linkVars,
     fileVars, appVars
<1>8. QED
  BY <1>2, <1>3, <1>4, <1>5, <1>6, <1>7 DEF AppNext

\* JScopeSettings::save() and restore(): a stored setup is replaced only by what the user
\* left that driver with, for any devices, any setups and any length of run.
THEOREM AppSetupsKept == AppSpec => SetupsKept
<1> DEFINE Kept ==
      \A r \in DriverNames :
        stored[r] \in Setups /\ stored'[r] # stored[r]
          => stored'[r] = left[r] \/ session = "connecting" \/ device.owns
<1>1. AppInit => KeptInv
  BY DEF AppInit, KeptInv
<1>2. ASSUME SelectInv, KeptInv, [AppNext]_appVars PROVE Kept \/ UNCHANGED appVars
  <2>1. CASE Quit
    <3> SUFFICES ASSUME NEW r \in DriverNames, stored[r] \in Setups, stored'[r] # stored[r],
                        session # "connecting", ~device.owns
                 PROVE  stored'[r] = left[r]
      OBVIOUS
    <3>1. HasDriver /\ r = device.driver /\ stored'[r] = cfg
      BY <1>2, <2>1 DEF Quit, KeptInv
    <3>2. stored[r] # None
      BY AppAssumption
    <3>3. CASE session = "open"
      BY <1>2, <3>1, <3>2, <3>3 DEF KeptInv, Restored
    <3>4. QED
      BY <1>2, <3>1, <3>3 DEF HasDriver, Known, SelectInv
  <2>2. CASE UNCHANGED stored
    BY <2>2
  <2>3. AppNext => Quit \/ UNCHANGED stored
    BY DEF AppNext, FirstFrame, Pick, RuleInstalled, Answered, ConnectFails, Adopt, Edit,
       StartRecording, StopRecording, Killed, Restart, fileVars
  <2>4. QED
    BY <1>2, <2>1, <2>2, <2>3
<1>3. SelectInv /\ KeptInv /\ [AppNext]_appVars => [Kept]_appVars
  BY <1>2
<1>4. QED
  BY <1>1, <1>3, KeptInvNext, SelectInvariant, PTL DEF AppSpec, SetupsKept

\* openAsync(), _adoptOpenSession(): a connect takes the open instrument away before
\* anything else, so the one that is open is the one remembered and the one the panels
\* are built for, through failed connects and refused requests.
THEOREM AppRememberedIsOpen == AppSpec => []RememberedIsOpen
<1>1. AppInit => RememberedIsOpen
  BY DEF AppInit, RememberedIsOpen
<1>2. ASSUME SelectInv, RememberedIsOpen, [AppNext]_appVars PROVE RememberedIsOpen'
  <2> USE DEF RememberedIsOpen
  <2>1. ASSUME UNCHANGED <<session, device, last, current>> PROVE RememberedIsOpen'
    BY <1>2, <2>1
  <2>2. ASSUME session' # "open" PROVE RememberedIsOpen'
    BY <2>2
  <2>3. ASSUME NEW d, ConnectTo(d) \/ OpenDevice(d), UNCHANGED <<last, current>>
        PROVE  RememberedIsOpen'
    BY <2>1, <2>2, <2>3 DEF ConnectTo, OpenDevice, Connect, linkVars
  <2>4. Select /\ UNCHANGED <<last, current>> => RememberedIsOpen'
    BY <2>1, <2>3 DEF Select, linkVars
  <2>5. FirstFrame \/ Pick \/ Answered => RememberedIsOpen'
    <3>1. FirstFrame => RememberedIsOpen'
      BY <2>4 DEF FirstFrame, fileVars
    <3>2. Pick => RememberedIsOpen'
      BY <2>3 DEF Pick, fileVars
    <3>3. Answered => Select \/ ConnectTo(dialog.device) \/ OpenDevice(dialog.device)
      BY <1>2 DEF Answered, SelectInv, Known
    <3>4. Answered => UNCHANGED <<last, current>>
      BY DEF Answered, fileVars
    <3>5. QED
      BY <2>3, <2>4, <3>1, <3>2, <3>3, <3>4
  <2>6. Adopt => RememberedIsOpen'
    BY DEF Adopt
  <2>7. ConnectFails \/ Quit \/ Killed => RememberedIsOpen'
    BY <2>2 DEF ConnectFails, Quit, Killed, Gone
  <2>8. RuleInstalled \/ Edit \/ StartRecording \/ StopRecording \/ Restart \/ UNCHANGED appVars
          => RememberedIsOpen'
    BY <2>1 DEF RuleInstalled, Edit, StartRecording, StopRecording, Restart, linkVars, fileVars,
       appVars
  <2>9. QED
    BY <1>2, <2>5, <2>6, <2>7, <2>8 DEF AppNext
<1>3. QED
  BY <1>1, <1>2, SelectInvariant, PTL DEF AppSpec
==============================================================================
