----------------------------- MODULE ScopeSession -----------------------------
(***************************************************************************)
(* JScopeSession (src/src/scope/JScopeSession.cpp) and the part of         *)
(* JScopeDriver its safety rests on: who may use a driver, and when it is  *)
(* destroyed.  Three threads:                                              *)
(*   main    runs one handler at a time: the session's calls, the drain    *)
(*           tick and what was posted to JMainThreadDispatcher;            *)
(*   worker  m_deviceWorker, which runs driver->open() and autoset;        *)
(*   the driver's acquisition thread, which only posts.                    *)
(* close() blocks main until the worker is idle, so it is two steps.       *)
(*                                                                         *)
(* Drivers are numbered as they are created; number 0 is no driver.        *)
(***************************************************************************)
EXTENDS Naturals, Sequences, FiniteSets

CONSTANTS MaxRequests,  \* bound on openAsync() calls
          MaxDrivers,   \* bound on drivers created
          MaxEpoch,     \* bound on close() calls
          MaxOps,       \* bound on long operations run on the device
          MaxPosts      \* bound on the dispatcher's queue while states change

ASSUME SessionAssumption == /\ MaxRequests \in Nat /\ MaxDrivers \in Nat
                            /\ MaxEpoch \in Nat /\ MaxOps \in Nat /\ MaxPosts \in Nat

VARIABLES
  driver,       \* m_driver, 0 when null
  created,      \* how many drivers have been created
  opened,       \* driver->isOpen()
  adopted,      \* signals wired and the drain tick running (_finishOpen)
  running,      \* the acquisition thread is running
  frames,       \* are frames waiting in the ready ring?
  wakePending,  \* m_wakePending of the driver
  latestOf,     \* the driver m_latest came from while m_hasFrame, else 0
  connecting, deviceBusy, epoch,
  requests,     \* openAsync() calls so far
  calls,        \* request -> how often its `done` has been called
  ops,          \* runOnDevice() calls accepted so far
  busyShown,    \* the last onBusyChanged said that an operation is under way
  jobs,         \* the worker's queue
  working,      \* the job the worker is in, or NoJob
  posts,        \* the dispatcher's queue
  main,         \* "idle", or what close() was called for
  touched       \* history: the drivers the last step dereferenced

driverVars  == <<driver, created, opened, adopted, running, frames, wakePending, latestOf>>
flagVars    == <<connecting, deviceBusy, epoch>>
requestVars == <<requests, calls, ops, busyShown>>
vars == <<driverVars, flagVars, requestVars, jobs, working, posts, main, touched>>

Requests == 1 .. MaxRequests
Drivers  == 1 .. MaxDrivers
Epochs   == 0 .. MaxEpoch
NoJob    == [kind |-> "none"]

\* What openAsync() and runOnDevice() hand the worker: the bare driver pointer,
\* the epoch they captured and, for a connect, the request to answer.
Job  == [kind : {"open", "op"}, driver : Drivers, epoch : Epochs, request : 0 .. MaxRequests]
\* What the worker and the driver post back to the main thread.
Post == [kind : {"opened", "opDone", "wake", "state"}, driver : Drivers, epoch : Epochs,
         request : 0 .. MaxRequests, ok : BOOLEAN]

Init == /\ driver = 0 /\ created = 0 /\ opened = FALSE /\ adopted = FALSE
        /\ running = FALSE /\ frames = FALSE /\ wakePending = FALSE /\ latestOf = 0
        /\ connecting = FALSE /\ deviceBusy = FALSE /\ epoch = 0
        /\ requests = 0 /\ calls = [r \in Requests |-> 0] /\ ops = 0 /\ busyShown = FALSE
        /\ jobs = <<>> /\ working = NoJob /\ posts = <<>>
        /\ main = "idle" /\ touched = {}

IsBusy == connecting \/ deviceBusy
Answer(r) == calls' = [calls EXCEPT ![r] = @ + 1]

-----------------------------------------------------------------------------
\* Mutant of BeginClose: the epoch moves on by two.
BeginCloseTwice(purpose) ==
  /\ epoch < MaxEpoch
  /\ epoch' = epoch + 2
  /\ main' = purpose
  /\ touched' = {}
  /\ UNCHANGED <<driverVars, connecting, deviceBusy, jobs, working, posts>>

\* close(), up to m_deviceWorker.waitForIdle(), on behalf of `purpose`.
BeginClose(purpose) ==
  /\ epoch < MaxEpoch
  /\ epoch' = epoch + 1
  /\ main' = purpose
  /\ touched' = {}
  /\ UNCHANGED <<driverVars, connecting, deviceBusy, jobs, working, posts>>

Close == /\ main = "idle"
         /\ BeginClose("close") /\ UNCHANGED requestVars

\* Mutant of WorkerIdle: close() does not wait.  Another: it waits for the
\* dispatcher's queue as well.
WorkerIgnored == TRUE
QueueIdle     == jobs = <<>> /\ working = NoJob /\ posts = <<>>

\* open(): the blocking form, which the start-up probe uses.
Open == /\ main = "idle" /\ created < MaxDrivers
        /\ BeginClose("open") /\ UNCHANGED requestVars

\* openAsync() refuses while a connect is in flight ...
OpenAsyncRefused ==
  /\ main = "idle" /\ requests < MaxRequests
  /\ connecting
  /\ requests' = requests + 1 /\ Answer(requests')
  /\ touched' = {}
  /\ UNCHANGED <<driverVars, flagVars, ops, busyShown, jobs, working, posts, main>>

\* ... and otherwise closes what is open first (_createDriver).
OpenAsync ==
  /\ main = "idle" /\ requests < MaxRequests /\ created < MaxDrivers
  /\ ~connecting
  /\ requests' = requests + 1
  /\ BeginClose("openAsync") /\ UNCHANGED <<calls, ops, busyShown>>

\* m_deviceWorker.waitForIdle()
WorkerIdle == jobs = <<>> /\ working = NoJob

\* Mutants of FinishClose: deviceBusy stays up; m_hasFrame stays set.
FinishCloseBusy ==
  /\ WorkerIdle
  /\ UNCHANGED deviceBusy
  /\ touched' = {driver} \ {0}
  /\ adopted' = FALSE /\ running' = FALSE /\ frames' = FALSE
  /\ wakePending' = FALSE /\ latestOf' = 0
  /\ UNCHANGED <<epoch, requests, ops, busyShown, working, posts>>

FinishCloseFrame ==
  /\ WorkerIdle
  /\ deviceBusy' = FALSE
  /\ touched' = {driver} \ {0}
  /\ adopted' = FALSE /\ running' = FALSE /\ frames' = FALSE
  /\ wakePending' = FALSE
  /\ UNCHANGED <<latestOf, epoch, requests, ops, busyShown, working, posts>>

\* The rest of close(): the flags, then the driver is stopped and destroyed.
FinishClose ==
  /\ WorkerIdle
  /\ deviceBusy' = FALSE
  /\ touched' = {driver} \ {0}
  /\ adopted' = FALSE /\ running' = FALSE /\ frames' = FALSE
  /\ wakePending' = FALSE /\ latestOf' = 0
  /\ UNCHANGED <<epoch, requests, ops, busyShown, working, posts>>

Closed ==
  /\ main = "close" /\ FinishClose
  /\ driver' = 0 /\ opened' = FALSE /\ connecting' = FALSE
  /\ main' = "idle"
  /\ UNCHANGED <<created, calls, jobs>>

\* open(): the driver answers at once, or is dropped again.
Opened ==
  /\ main = "open" /\ deviceBusy' = FALSE
  /\ WorkerIdle
  /\ created' = created + 1
  /\ \E ok \in BOOLEAN : /\ driver' = (IF ok THEN created' ELSE 0)
                         /\ opened' = ok /\ adopted' = ok
  /\ touched' = {driver, driver'} \ {0}
  /\ running' = FALSE /\ frames' = FALSE /\ wakePending' = FALSE /\ latestOf' = 0
  /\ connecting' = FALSE
  /\ main' = "idle"
  /\ UNCHANGED <<epoch, requestVars, jobs, working, posts>>

\* Mutant of ConnectStarted: `done` is called at once as well.
ConnectAnswered ==
  /\ main = "openAsync" /\ FinishClose
  /\ created' = created + 1 /\ driver' = created' /\ opened' = FALSE
  /\ connecting' = TRUE
  /\ jobs' = Append(jobs, [kind |-> "open", driver |-> driver', epoch |-> epoch,
                           request |-> requests])
  /\ main' = "idle"
  /\ Answer(requests)

\* openAsync(): the driver is created here and opened on the worker.  When no
\* driver is registered under the name, done(false).
ConnectStarted ==
  /\ main = "openAsync" /\ FinishClose
  /\ created' = created + 1 /\ driver' = created' /\ opened' = FALSE
  /\ connecting' = TRUE
  /\ jobs' = Append(jobs, [kind |-> "open", driver |-> driver', epoch |-> epoch,
                           request |-> requests])
  /\ main' = "idle"
  /\ UNCHANGED calls

NoSuchDriver ==
  /\ main = "openAsync" /\ FinishClose
  /\ driver' = 0 /\ opened' = FALSE /\ connecting' = FALSE
  /\ Answer(requests)
  /\ main' = "idle"
  /\ UNCHANGED <<created, jobs>>

\* runOnDevice(), as JScopeActions::autoset calls it.
RunOnDevice ==
  /\ main = "idle" /\ ops < MaxOps
  /\ driver # 0 /\ ~IsBusy
  /\ deviceBusy' = TRUE
  /\ jobs' = Append(jobs, [kind |-> "op", driver |-> driver, epoch |-> epoch, request |-> 0])
  /\ ops' = ops + 1 /\ busyShown' = TRUE
  /\ touched' = {driver}
  /\ UNCHANGED <<driverVars, connecting, epoch, requests, calls, working, posts, main>>

-----------------------------------------------------------------------------
\* _setState: the acquisition starts or ends, and the change is posted.
Becomes(now) ==
  /\ Len(posts) < MaxPosts
  /\ running' = now
  /\ posts' = IF now = running THEN posts
              ELSE Append(posts, [kind |-> "state", driver |-> driver, epoch |-> 0,
                                  request |-> 0, ok |-> TRUE])
  /\ touched' = {driver}
  /\ UNCHANGED <<driver, created, opened, adopted, frames, wakePending, latestOf,
                 flagVars, requestVars, jobs, working, main>>

\* JScopeActions::run() and stop(): all they ask for is a driver.
Start == main = "idle" /\ driver # 0 /\ Becomes(opened)
Stop  == main = "idle" /\ driver # 0 /\ Becomes(FALSE)

-----------------------------------------------------------------------------
\* The worker takes the next job and is inside the driver until it finishes.
TakeJob ==
  /\ working = NoJob /\ jobs # <<>>
  /\ working' = Head(jobs)
  /\ jobs' = Tail(jobs)
  /\ touched' = {Head(jobs).driver}
  /\ UNCHANGED <<driverVars, flagVars, requestVars, posts, main>>

\* driver->open() has the instrument up; it sets m_open and returns later.
ComesUp ==
  /\ working.kind = "open" /\ ~opened
  /\ opened' = TRUE
  /\ touched' = {working.driver}
  /\ UNCHANGED <<driver, created, adopted, running, frames, wakePending, latestOf,
                 flagVars, requestVars, jobs, working, posts, main>>

\* The job is done, well or not, and its continuation is posted.
FinishJob ==
  /\ working # NoJob
  /\ touched' = {working.driver}
  /\ \E ok \in (IF working.kind = "open" THEN {opened} ELSE BOOLEAN) :
       posts' = Append(posts,
         [kind    |-> IF working.kind = "open" THEN "opened" ELSE "opDone",
          driver  |-> working.driver, epoch |-> working.epoch,
          request |-> working.request, ok |-> ok])
  /\ working' = NoJob
  /\ UNCHANGED <<driver, created, opened, adopted, running, frames, wakePending, latestOf,
                 flagVars, requestVars, jobs, main>>

\* The acquisition thread publishes; _postFrameWake posts unless a wake is
\* already pending (_postGuarded carries the driver's life token).
Publish ==
  /\ running /\ ~frames
  /\ frames' = TRUE
  /\ wakePending' = TRUE
  /\ posts' = IF wakePending THEN posts
              ELSE Append(posts, [kind |-> "wake", driver |-> driver, epoch |-> 0,
                                  request |-> 0, ok |-> TRUE])
  /\ touched' = {driver}
  /\ UNCHANGED <<driver, created, opened, adopted, running, latestOf,
                 flagVars, requestVars, jobs, working, main>>

\* The acquisition thread retires, on an error or after a single sweep.
Retire == running /\ Becomes(FALSE)

-----------------------------------------------------------------------------
\* drain(): copy what waits to m_latest.
Drain == IF frames THEN frames' = FALSE /\ latestOf' = driver
                   ELSE UNCHANGED <<frames, latestOf>>

\* Mutant of Tick: frames are drained on wakes alone.
NoTick == FALSE

Tick ==
  /\ main = "idle" /\ adopted /\ frames
  /\ Drain
  /\ touched' = {driver}
  /\ UNCHANGED <<driver, created, opened, adopted, running, wakePending,
                 flagVars, requestVars, jobs, working, posts, main>>

\* Mutants of Expired and Stale: neither is checked.
NeverExpired(post) == FALSE
NeverStale(post)   == FALSE

\* The life token a driver's callback carries has expired.
Expired(post) == post.driver # driver

\* The epoch a continuation carries has moved on.
Stale(post) == post.epoch # epoch

NextPost == Head(posts)
Deliver(kind) == /\ main = "idle" /\ posts # <<>> /\ NextPost.kind = kind
                 /\ posts' = Tail(posts)
                 /\ UNCHANGED <<created, epoch, requests, ops, jobs, working, main>>

\* Mutant of DeliverStaleOpen: the request that was overtaken is forgotten.
DeliverForgotten ==
  /\ Deliver("opened") /\ Stale(NextPost)
  /\ touched' = {}
  /\ UNCHANGED <<calls, driver, opened, adopted, running, frames, wakePending, latestOf,
                 connecting, deviceBusy, busyShown>>

\* openAsync()'s continuation: ignored when close() ran meanwhile, ...
DeliverStaleOpen ==
  /\ Deliver("opened") /\ Stale(NextPost)
  /\ Answer(NextPost.request)
  /\ touched' = {}
  /\ UNCHANGED <<driver, opened, adopted, running, frames, wakePending, latestOf,
                 connecting, deviceBusy, busyShown>>

\* ... adopts the driver, ...
DeliverOpened ==
  /\ Deliver("opened") /\ ~Stale(NextPost) /\ NextPost.ok
  /\ connecting' = FALSE /\ adopted' = TRUE /\ latestOf' = 0
  /\ Answer(NextPost.request)
  /\ touched' = {NextPost.driver}
  /\ UNCHANGED <<driver, opened, running, frames, wakePending, deviceBusy, busyShown>>

\* ... or destroys the one that would not open.
DeliverRefused ==
  /\ Deliver("opened") /\ ~Stale(NextPost) /\ ~NextPost.ok
  /\ connecting' = FALSE
  /\ driver' = 0 /\ opened' = FALSE /\ running' = FALSE
  /\ frames' = FALSE /\ wakePending' = FALSE
  /\ Answer(NextPost.request)
  /\ touched' = {NextPost.driver}
  /\ UNCHANGED <<adopted, latestOf, deviceBusy, busyShown>>

\* runOnDevice()'s continuation.
DeliverOpDone ==
  /\ Deliver("opDone")
  /\ touched' = {}
  /\ IF Stale(NextPost) THEN UNCHANGED <<deviceBusy, busyShown>>
                        ELSE deviceBusy' = FALSE /\ busyShown' = FALSE
  /\ UNCHANGED <<driver, opened, adopted, running, frames, wakePending, latestOf,
                 connecting, calls>>

\* A driver's callback, when the driver is still there.
DeliverWake ==
  /\ Deliver("wake") /\ ~Expired(NextPost)
  /\ wakePending' = FALSE
  /\ IF adopted THEN Drain ELSE UNCHANGED <<frames, latestOf>>
  /\ touched' = {NextPost.driver}
  /\ UNCHANGED <<driver, opened, adopted, running, connecting, deviceBusy, calls, busyShown>>

DeliverState ==
  /\ Deliver("state") /\ ~Expired(NextPost)
  /\ touched' = {NextPost.driver}
  /\ UNCHANGED <<driver, opened, adopted, running, frames, wakePending, latestOf,
                 connecting, deviceBusy, calls, busyShown>>

\* A callback whose driver is gone returns at once.
DeliverExpired ==
  /\ \/ Deliver("wake")
     \/ Deliver("state")
  /\ Expired(NextPost)
  /\ touched' = {}
  /\ UNCHANGED <<driver, opened, adopted, running, frames, wakePending, latestOf,
                 connecting, deviceBusy, calls, busyShown>>

Call     == Close \/ Open \/ OpenAsync \/ OpenAsyncRefused \/ RunOnDevice \/ Start \/ Stop
Closing  == Closed \/ Opened \/ ConnectStarted \/ NoSuchDriver
Dispatch == DeliverStaleOpen \/ DeliverOpened \/ DeliverRefused \/ DeliverOpDone
            \/ DeliverWake \/ DeliverState \/ DeliverExpired
Worker   == TakeJob \/ ComesUp \/ FinishJob

Next == Call \/ Closing \/ Dispatch \/ Tick \/ Worker \/ Publish \/ Retire

\* The main thread leaves waitForIdle() once the worker is idle and keeps
\* running its queue; the worker takes its jobs, and the driver's open() and
\* autoset() return (every wait in them has a timeout).  Nobody has to press
\* anything, and no driver has to publish.
Fairness == /\ WF_vars(Closing) /\ WF_vars(Dispatch) /\ WF_vars(Worker) /\ WF_vars(Tick)

Spec == Init /\ [][Next]_vars /\ Fairness

-----------------------------------------------------------------------------
\* The type invariant.
TypeOK == /\ driver \in 0 .. MaxDrivers /\ created \in 0 .. MaxDrivers
          /\ {opened, adopted, running, frames, wakePending} \subseteq BOOLEAN
          /\ latestOf \in 0 .. MaxDrivers
          /\ {connecting, deviceBusy, busyShown} \subseteq BOOLEAN
          /\ epoch \in Epochs /\ requests \in 0 .. MaxRequests /\ ops \in 0 .. MaxOps
          /\ calls \in [Requests -> Nat]
          /\ jobs \in Seq(Job) /\ working \in Job \cup {NoJob}
          /\ posts \in Seq(Post)
          /\ main \in {"idle", "close", "open", "openAsync"}
          /\ touched \subseteq Drivers

\* The worker never holds a pointer to a driver that has been destroyed:
\* "CLOSING WHILE THE DEVICE WORKER IS STILL IN THE DRIVER MUST NOT FREE IT
\* UNDER HIM" (test_session_connect.cpp).
WorkerPointerValid ==
  /\ working # NoJob => working.driver = driver
  /\ \A i \in DOMAIN jobs : jobs[i].driver = driver

\* Nothing that runs - a handler, a late callback, the worker - dereferences a
\* driver that is gone.
OnlyLiveDrivers == [][touched' \subseteq {driver, driver'}]_vars

\* isBusy() is the truth: a flag is up exactly while its job, or the job's
\* continuation of this epoch, is on its way.  A flag left up would refuse
\* every later connect and autoset.
Underway(kind, reply) ==
  \/ \E i \in DOMAIN jobs : jobs[i].kind = kind
  \/ working.kind = kind
  \/ \E i \in DOMAIN posts : posts[i].kind = reply /\ posts[i].epoch = epoch
BusyIsTrue == main = "idle" => /\ connecting <=> Underway("open", "opened")
                               /\ deviceBusy <=> Underway("op", "opDone")

\* An adopted driver answered its own open(): a continuation never adopts the
\* next device's driver while that one is still being brought up.
AdoptedIsOpen == adopted => driver # 0 /\ opened /\ ~connecting

\* The display never keeps a frame of an instrument that is gone.
FrameOfThisDriver == latestOf \in {0, driver}

\* openAsync() answers every request, and only once, whatever close() does
\* meanwhile.
AnsweredOnce == \A r \in Requests : requests >= r ~> [](calls[r] = 1)

\* close() returns: waitForIdle() on the main thread never waits for something
\* the main thread would have to do.
CloseReturns == (main # "idle") ~> (main = "idle")

\* A published frame of the adopted driver does not wait for ever, even when
\* its wake was spent before the driver was adopted.
FramesDrain == (adopted /\ frames) ~> ~(adopted /\ frames)

-----------------------------------------------------------------------------
\* What the comments promise and the code does not keep: MCSessionWorkerAlone.cfg
\* shows the first, README says how to see the second.

\* "Nothing else may touch it until the worker is finished" (openAsync).
WorkerAlone ==
  [][working.kind = "open" /\ working' = working => working.driver \notin touched']_vars

\* "A long instrument operation started or finished" (onBusyChanged): what was
\* announced as started is announced as finished.
BusyEnds == busyShown ~> ~busyShown
==============================================================================
