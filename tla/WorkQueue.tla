----------------------------- MODULE WorkQueue -----------------------------
(***************************************************************************)
(* What internal/controller/controller.go relies on of its client-go work  *)
(* queue (the queue field, a workqueue.RateLimitingInterface), stated      *)
(* without the queue's FIFO order, its Cond or its workers:                *)
(*   - Add of an item already waiting is coalesced with it;                *)
(*   - Get hands out only an item that is waiting and not being processed, *)
(*     so no item is processed twice at once;                              *)
(*   - an item added while it is processed waits, and is handed out again  *)
(*     after Done;                                                         *)
(*   - after ShutDown, Add is dropped but waiting items are still handed   *)
(*     out (ShutDownWithDrain);                                            *)
(*   - while the queue is up, every waiting item is eventually handed out, *)
(*     and every item handed out is eventually Done by its caller.         *)
(* ControllerRuntime, which models the queue's Type, implements this      *)
(* specification under the mapping in ControllerRuntime (QueueAbs).        *)
(***************************************************************************)
CONSTANT Items

VARIABLES
    pending,   \* items added and not yet handed out since
    active,    \* items handed out and not yet Done
    down       \* ShutDown has been called

qvars == <<pending, active, down>>

Init == pending = {} /\ active = {} /\ down = FALSE

\* controller.go:87-103 and 254: queue.Add(item)
Add(i) ==
    /\ ~down
    /\ pending' = pending \cup {i}
    /\ UNCHANGED <<active, down>>

\* controller.go:156: queue.Get()
Get(i) ==
    /\ i \in pending \ active
    /\ pending' = pending \ {i}
    /\ active' = active \cup {i}
    /\ UNCHANGED down

\* controller.go:221: the deferred queue.Done(item)
Done(i) ==
    /\ i \in active
    /\ active' = active \ {i}
    /\ UNCHANGED <<pending, down>>

\* controller.go:120 and 163: queue.ShutDown / ShutDownWithDrain
ShutDown ==
    /\ down' = TRUE
    /\ UNCHANGED <<pending, active>>

Next ==
    \/ \E i \in Items : Add(i) \/ Get(i) \/ Done(i)
    \/ ShutDown

Spec == Init /\ [][Next]_qvars

\* Workers keep asking for items while the queue is up, and the caller of
\* Get always calls Done.
FairSpec ==
    /\ Spec
    /\ \A i \in Items : WF_qvars(~down /\ Get(i)) /\ WF_qvars(Done(i))

====
