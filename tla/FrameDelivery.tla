---------------------------- MODULE FrameDelivery ----------------------------
(***************************************************************************)
(* How a published frame reaches the display: the coalesced wake of        *)
(* JScopeDriver::_publish, the drain it causes, and the 8 ms tick that     *)
(* drains as well (JScopeDriver.h, JScopeSession.cpp).                     *)
(*                                                                         *)
(* The callback clears m_wakePending with a release store and then reads   *)
(* the ring with acquire loads of OTHER variables.  Nothing orders such a  *)
(* store before such a load, and x86 and ARM both let the load go first:   *)
(* the store waits in `clearing` until Flush makes it visible.             *)
(***************************************************************************)
EXTENDS Naturals, Sequences

CONSTANTS MaxFrames,    \* bound: frames are the sequence numbers 1 .. MaxFrames
          Depth         \* published frames the pool can hold before it drops

DeliveryAssumption == MaxFrames \in Nat /\ Depth \in Nat \ {0}

VARIABLES published,    \* the newest frame in the ready ring or past it
          ready,        \* the ready ring
          publisher,    \* where the acquisition thread is in _publish()
          wakePending,  \* m_wakePending as the acquisition thread sees it
          clearing,     \* the callback's store of false, not yet visible
          wakes,        \* frame wakes waiting in the main thread's dispatcher
          draining,     \* is the main thread inside drain()?
          latest,       \* the newest frame drain() has copied to m_latest
          shown,        \* the frame last given to onFrame
          target        \* history: the newest frame when this drain began

vars == <<published, ready, publisher, wakePending, clearing, wakes, draining,
          latest, shown, target>>

Init == /\ published = 0 /\ ready = <<>> /\ publisher = "capture"
        /\ wakePending = FALSE /\ clearing = FALSE /\ wakes = 0
        /\ draining = FALSE /\ latest = 0 /\ shown = 0 /\ target = 0

\* Mutant of PublishFrame: the pool grows instead of reclaiming its oldest frame.
PublishMore ==
  /\ publisher = "capture" /\ published < MaxFrames
  /\ published' = published + 1
  /\ ready' = Append(ready, published')
  /\ publisher' = "wake"
  /\ UNCHANGED <<wakePending, clearing, wakes, draining, latest, shown, target>>

\* m_pool.publish(f), with the oldest frame reclaimed when the pool was dry.
PublishFrame ==
  /\ publisher = "capture" /\ published < MaxFrames
  /\ published' = published + 1
  /\ ready' = Append(IF Len(ready) = Depth THEN Tail(ready) ELSE ready, published')
  /\ publisher' = "wake"
  /\ UNCHANGED <<wakePending, clearing, wakes, draining, latest, shown, target>>

\* Mutant of PostWake: one callback per frame.
PostAlways ==
  /\ publisher = "wake"
  /\ publisher' = "post"
  /\ wakePending' = TRUE
  /\ UNCHANGED <<published, ready, clearing, wakes, draining, latest, shown, target>>

\* if (m_wakePending.exchange(true)) return; otherwise post the callback.
PostWake ==
  /\ publisher = "wake"
  /\ publisher' = IF wakePending THEN "capture" ELSE "post"
  /\ wakePending' = TRUE
  /\ UNCHANGED <<published, ready, clearing, wakes, draining, latest, shown, target>>

PostCallback ==
  /\ publisher = "post"
  /\ wakes' = wakes + 1
  /\ publisher' = "capture"
  /\ UNCHANGED <<published, ready, wakePending, clearing, draining, latest, shown, target>>

\* The dispatcher runs the callback: m_wakePending.store(false), then drain().
RunWake ==
  /\ ~draining /\ wakes > 0
  /\ wakes' = wakes - 1
  /\ clearing' = TRUE
  /\ draining' = TRUE
  /\ target' = published
  /\ UNCHANGED <<published, ready, publisher, wakePending, latest, shown>>

Flush ==
  /\ clearing
  /\ clearing' = FALSE
  /\ wakePending' = FALSE
  /\ UNCHANGED <<published, ready, publisher, wakes, draining, latest, shown, target>>

\* Mutant of Tick: only wakes drain.
NoTick == FALSE

\* The tick drains too.
Tick ==
  /\ ~draining
  /\ draining' = TRUE
  /\ target' = published
  /\ UNCHANGED <<published, ready, publisher, wakePending, clearing, wakes, latest, shown>>

\* One turn of drain()'s loop: copy the oldest ready frame over m_latest.
TakeFrame ==
  /\ draining /\ ready # <<>>
  /\ latest' = Head(ready)
  /\ ready' = Tail(ready)
  /\ UNCHANGED <<published, publisher, wakePending, clearing, wakes, draining, shown, target>>

\* Mutant of EndDrain: whatever is left waits for the next wake.
EndEarly ==
  /\ draining
  /\ shown' = latest
  /\ draining' = FALSE
  /\ UNCHANGED <<published, ready, publisher, wakePending, clearing, wakes, latest, target>>

\* The ring is empty: one onFrame for everything taken.
EndDrain ==
  /\ draining /\ ready = <<>>
  /\ shown' = latest
  /\ draining' = FALSE
  /\ UNCHANGED <<published, ready, publisher, wakePending, clearing, wakes, latest, target>>

Acquisition == PublishFrame \/ PostWake \/ PostCallback
Main        == RunWake \/ TakeFrame \/ EndDrain

Next == Acquisition \/ Main \/ Tick \/ Flush

\* The dispatcher keeps running what is posted to it, the render loop keeps
\* ticking its timers, a store becomes visible in finite time, and a thread
\* inside _publish() finishes it.  Nothing obliges the driver to publish.
Fairness == /\ WF_vars(Main) /\ WF_vars(Tick) /\ WF_vars(Flush)
            /\ WF_vars(PostWake) /\ WF_vars(PostCallback)

Spec == Init /\ [][Next]_vars /\ Fairness

-----------------------------------------------------------------------------
\* The type invariant.
TypeOK == /\ published \in 0 .. MaxFrames
          /\ ready \in Seq(1 .. MaxFrames) /\ Len(ready) <= Depth
          /\ publisher \in {"capture", "wake", "post"}
          /\ wakePending \in BOOLEAN /\ clearing \in BOOLEAN
          /\ wakes \in Nat /\ draining \in BOOLEAN
          /\ latest \in 0 .. MaxFrames /\ shown \in 0 .. MaxFrames

\* "At most ONE wake is ever outstanding, so dispatcher traffic is bounded by
\* the display rate rather than the acquisition rate."
OneWakeOutstanding == wakes + (IF publisher = "post" THEN 1 ELSE 0) <= 1

\* A drain shows everything published before it began: it never stops at an
\* acquisition that was already history.
DrainCatchesUp == [][draining /\ ~draining' => shown' >= target]_vars

\* Publishing a frame wakes the consumer: every published frame, or a newer
\* one, is eventually shown.
FrameReachesDisplay == \A n \in 1 .. MaxFrames : (published >= n) ~> (shown >= n)
==============================================================================
