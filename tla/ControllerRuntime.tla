------------------------- MODULE ControllerRuntime -------------------------
(***************************************************************************)
(* One controller of internal/controller/controller.go with the client-go  *)
(* rate-limited work queue it drives, and the status protocol of           *)
(* event_status.go.                                                        *)
(*                                                                         *)
(* Items are *InformerCacheObj pointers: the informer allocates one per    *)
(* event and the status goroutine allocates one per child event, so the    *)
(* queue never merges two events.  An item's statusChan is replaced on     *)
(* every retry; the channel of item i created when its retryCount was n is *)
(* <<i, n>>.  The work queue is client-go's Type: queue, dirty and         *)
(* processing sets, shuttingDown and drain flags, and one sync.Cond whose  *)
(* waiters are woken in FIFO order by Signal, all at once by Broadcast.    *)
(* The delegator's handler is the environment: for each invocation it      *)
(* picks an outcome from Outcomes and sends it with SendClose/SkipClose,   *)
(* or creates a child event (CreateChildEvent) whose work it does inline   *)
(* with an outcome from ChildOutcomes, as TriggerTrafficConfigHandler-     *)
(* ForIdentity does.                                                       *)
(***************************************************************************)
EXTENDS Naturals, Sequences, FiniteSets

CONSTANTS
    Keys,           \* object keys namespace/name
    Workers,        \* the controller's workers (workerConcurrency of them)
    MaxEvents,      \* informer events delivered
    MaxChildren,    \* child events created by handlers
    MaxRetry,       \* EventProcessStatus.MaxRetryCount
    Outcomes,       \* what a handler invocation sends on the item's channel
    ChildOutcomes,  \* what the inline child work sends on the child channel
    StopEnabled,    \* StopAllControllers may be called
    None

ASSUME /\ MaxEvents \in Nat \ {0} /\ MaxChildren \in Nat /\ MaxRetry \in Nat
       /\ Outcomes \subseteq {"Skip", "Completed", "Retry", "Child"}
       /\ ChildOutcomes \subseteq {"Skip", "Completed", "Retry"}
       /\ StopEnabled \in BOOLEAN

ItemIds == 1..(MaxEvents + MaxChildren)
ChanIds == ItemIds \X (0..(MaxRetry + 1))
Status == [tag : {"Skip", "Completed", "Retry", "CreateChild"}, child : ItemIds \cup {None}]
WPCs == {"unborn", "sync", "get", "getWait", "process", "drain", "drainWait", "exit"}

VARIABLES
    events,       \* keys of the informer events, in arrival order
    items,        \* InformerCacheObj records [ev, rc, child] by allocation
    buf,          \* buffered statuses of each status channel
    closed,       \* whether each status channel has been closed
    reader,       \* the status goroutine ranging over a channel
    queue, dirty, processing, shuttingDown, drain, waiters,  \* workqueue.Type
    wpc,          \* program counter of each worker goroutine
    witem,        \* the item a worker is processing
    runPc,        \* Run(): "start", "register", "informer", "stopped"
    registered,   \* the controller is in ControllerCache
    stopCh,       \* StopCh has been closed
    stopPc,       \* StopAllControllers: "idle", "wait", "done"
    concluded,    \* the terminal OnStatus seen for each item
    invoked,      \* history: items handed to the delegator, in order
    panicked      \* a goroutine sent on or closed a closed channel

queueVars == <<queue, dirty, processing, shuttingDown, drain, waiters>>
chanVars == <<buf, closed, reader>>
vars == <<events, items, chanVars, queueVars, wpc, witem, runPc, registered,
          stopCh, stopPc, concluded, invoked, panicked>>

\* item.statusChan
ChanOf(i) == <<i, items[i].rc>>
Created == 1..Len(items)
NumChildren == Cardinality({i \in Created : items[i].child})
St(tag) == [tag |-> tag, child |-> None]

\* Send: put a status in the channel's buffer (the buffer of
\* DefaultEventStatusBufferedChannelSize is never full here).
Send(b, c, s) == [b EXCEPT ![c] = Append(@, s)]
\* SendClose and SkipClose: send the final status and close the channel.
SendClose(b, cl, c, s) == /\ buf' = Send(b, c, s) /\ closed' = [cl EXCEPT ![c] = TRUE]
\* CreateChildEvent: make the child's buffered channel and send CreateChild,
\* carrying it, on the parent's channel.
CreateChildEvent(b, c, j, cc) ==
    [Send(b, c, [tag |-> "CreateChild", child |-> j]) EXCEPT ![cc] = <<>>]

----
\* sync.Cond: Signal wakes the longest waiting goroutine, Broadcast all.
Wake(pc) == IF pc = "getWait" THEN "get" ELSE "drain"

Signal ==
    IF waiters = <<>>
    THEN UNCHANGED <<waiters, wpc>>
    ELSE /\ waiters' = Tail(waiters)
         /\ wpc' = [wpc EXCEPT ![Head(waiters)] = Wake(@)]

BroadcastWpc ==
    [w \in Workers |-> IF w \in {waiters[x] : x \in DOMAIN waiters} THEN Wake(wpc[w]) ELSE wpc[w]]

\* Type.Add: dropped after ShutDown or when already dirty; an item being
\* processed is only marked dirty and is re-queued by Done.
QueueAdd(i) ==
    IF shuttingDown \/ i \in dirty
    THEN UNCHANGED <<queue, dirty, waiters, wpc>>
    ELSE /\ dirty' = dirty \cup {i}
         /\ IF i \in processing
            THEN UNCHANGED <<queue, waiters, wpc>>
            ELSE /\ queue' = Append(queue, i)
                 /\ Signal

\* Done that forgets to re-queue an item added while it was processing.
MutQueueDoneNoRequeue(i) ==
    /\ processing' = processing \ {i}
    /\ UNCHANGED queue
    /\ IF processing' = {} THEN Signal ELSE UNCHANGED <<waiters, wpc>>

\* Done that re-queues the item whether or not it was added again.
MutQueueDoneAlwaysRequeue(i) ==
    /\ processing' = processing \ {i}
    /\ queue' = Append(queue, i)
    /\ Signal

\* Type.Done
QueueDone(i) ==
    /\ processing' = processing \ {i}
    /\ IF i \in dirty
       THEN /\ queue' = Append(queue, i)
            /\ Signal
       ELSE /\ UNCHANGED queue
            /\ IF processing' = {} THEN Signal ELSE UNCHANGED <<waiters, wpc>>

----
Init ==
    /\ events = <<>>
    /\ items = <<>>
    /\ buf = [c \in ChanIds |-> <<>>]
    /\ closed = [c \in ChanIds |-> FALSE]
    /\ reader = [c \in ChanIds |-> "none"]
    /\ queue = <<>> /\ dirty = {} /\ processing = {}
    /\ shuttingDown = FALSE /\ drain = FALSE /\ waiters = <<>>
    /\ wpc = [w \in Workers |-> "unborn"]
    /\ witem = [w \in Workers |-> None]
    /\ runPc = "start"
    /\ registered = FALSE
    /\ stopCh = FALSE
    /\ stopPc = "idle"
    /\ concluded = [i \in ItemIds |-> "none"]
    /\ invoked = <<>>
    /\ panicked = FALSE

\* Run(): start the workers, then register the controller.
StartWorkers ==
    /\ runPc = "start"
    /\ wpc' = [w \in Workers |-> "sync"]
    /\ runPc' = "register"
    /\ UNCHANGED <<events, items, chanVars, queueVars, witem, registered, stopCh,
                   stopPc, concluded, invoked, panicked>>

Register ==
    /\ runPc = "register"
    /\ registered' = TRUE
    /\ runPc' = "informer"
    /\ UNCHANGED <<events, items, chanVars, queueVars, wpc, witem, stopCh, stopPc,
                   concluded, invoked, panicked>>

\* The informer's AddFunc/UpdateFunc/DeleteFunc: a new item with a fresh
\* status channel is added to the queue.
InformerEvent(k) ==
    /\ runPc = "informer" /\ ~stopCh
    /\ Len(events) < MaxEvents
    /\ events' = Append(events, k)
    /\ items' = Append(items, [ev |-> Len(events) + 1, rc |-> 0, child |-> FALSE])
    /\ QueueAdd(Len(items) + 1)
    /\ UNCHANGED <<chanVars, processing, shuttingDown, drain, witem, runPc,
                   registered, stopCh, stopPc, concluded, invoked, panicked>>

\* A deferred ShutDown that forgets to set shuttingDown.
MutInformerStoppedNoShutDown ==
    /\ runPc = "informer" /\ stopCh
    /\ runPc' = "stopped"
    /\ drain' = FALSE
    /\ waiters' = <<>> /\ wpc' = BroadcastWpc
    /\ UNCHANGED <<events, items, chanVars, queue, dirty, processing, witem,
                   registered, stopCh, stopPc, concluded, invoked, panicked,
                   shuttingDown>>

\* informer.Run returns once StopCh is closed; Run's deferred queue.ShutDown.
InformerStopped ==
    /\ runPc = "informer" /\ stopCh
    /\ runPc' = "stopped"
    /\ shuttingDown' = TRUE /\ drain' = FALSE
    /\ waiters' = <<>> /\ wpc' = BroadcastWpc
    /\ UNCHANGED <<events, items, chanVars, queue, dirty, processing, witem,
                   registered, stopCh, stopPc, concluded, invoked, panicked>>

----
\* runWorker: WaitForCacheSync returns true once the informer has synced,
\* false if StopCh is closed first (the worker returns, cancelling its
\* context, without draining).
CacheSynced(w) ==
    /\ wpc[w] = "sync" /\ runPc \in {"informer", "stopped"}
    /\ wpc' = [wpc EXCEPT ![w] = "get"]
    /\ UNCHANGED <<events, items, chanVars, queueVars, witem, runPc, registered,
                   stopCh, stopPc, concluded, invoked, panicked>>

SyncAborted(w) ==
    /\ wpc[w] = "sync" /\ stopCh
    /\ wpc' = [wpc EXCEPT ![w] = "exit"]
    /\ UNCHANGED <<events, items, chanVars, queueVars, witem, runPc, registered,
                   stopCh, stopPc, concluded, invoked, panicked>>

\* processNextItem: queue.Get.  It waits on the Cond while the queue is empty
\* and not shut down; after ShutDown it still hands out queued items.
Get(w) ==
    /\ wpc[w] = "get"
    /\ \/ /\ queue # <<>>
          /\ queue' = Tail(queue)
          /\ processing' = processing \cup {Head(queue)}
          /\ dirty' = dirty \ {Head(queue)}
          /\ witem' = [witem EXCEPT ![w] = Head(queue)]
          /\ wpc' = [wpc EXCEPT ![w] = "process"]
          /\ UNCHANGED <<shuttingDown, drain, waiters>>
       \/ /\ queue = <<>> /\ ~shuttingDown
          /\ waiters' = Append(waiters, w)
          /\ wpc' = [wpc EXCEPT ![w] = "getWait"]
          /\ UNCHANGED <<queue, dirty, processing, shuttingDown, drain, witem>>
       \* quit: ShutDownWithDrain sets drain, shuts down and broadcasts.
       \/ /\ queue = <<>> /\ shuttingDown
          /\ drain' = TRUE
          /\ waiters' = <<>>
          /\ wpc' = [BroadcastWpc EXCEPT ![w] = "drain"]
          /\ UNCHANGED <<queue, dirty, processing, shuttingDown, witem>>
    /\ UNCHANGED <<events, items, chanVars, runPc, registered, stopCh, stopPc,
                   concluded, invoked, panicked>>

\* ShutDownWithDrain: wait on the Cond while items are processing and drain
\* is set; then processNextItem returns false and the worker cancels its
\* context.
Drain(w) ==
    /\ wpc[w] = "drain"
    /\ IF processing # {} /\ drain
       THEN /\ waiters' = Append(waiters, w)
            /\ wpc' = [wpc EXCEPT ![w] = "drainWait"]
       ELSE /\ wpc' = [wpc EXCEPT ![w] = "exit"]
            /\ UNCHANGED waiters
    /\ UNCHANGED <<events, items, chanVars, queue, dirty, processing,
                   shuttingDown, drain, witem, runPc, registered, stopCh, stopPc,
                   concluded, invoked, panicked>>

\* processItem: start the status goroutine on item.statusChan (handleStatus),
\* then call the delegator, which sends its statuses and closes the channel.
\* A send on a channel that is already closed panics the process.
ProcessItem(w) ==
    /\ wpc[w] = "process"
    /\ LET i == witem[w]
           c == ChanOf(i)
       IN  /\ invoked' = Append(invoked, i)
           /\ IF closed[c]
              THEN /\ panicked' = TRUE
                   /\ UNCHANGED <<items, buf, closed, reader>>
              ELSE /\ \/ \E o \in Outcomes \ {"Child"} :
                            /\ SendClose(buf, closed, c, St(o))
                            /\ UNCHANGED items
                         \/ /\ "Child" \in Outcomes
                            /\ NumChildren < MaxChildren
                            /\ \E co \in ChildOutcomes :
                                 LET j  == Len(items) + 1
                                     cc == <<j, items[i].rc>>
                                 IN  /\ items' = Append(items, [items[i] EXCEPT !.child = TRUE])
                                     \* CreateChildEvent, the child's inline SendClose,
                                     \* then the parent's SkipClose.
                                     /\ SendClose(Send(CreateChildEvent(buf, c, j, cc), cc, St(co)),
                                                   [closed EXCEPT ![cc] = TRUE], c, St("Skip"))
                   /\ reader' = [reader EXCEPT ![c] = "active"]
                   /\ UNCHANGED panicked
    /\ wpc' = [wpc EXCEPT ![w] = "get"]
    /\ witem' = [witem EXCEPT ![w] = None]
    /\ UNCHANGED <<events, queueVars, runPc, registered, stopCh, stopPc, concluded>>

----
\* An off-by-one retry budget.
MutRetryAllowedOffByOne(i) == items[i].rc <= MaxRetry

\* A budget that gives up one retry early.
MutRetryAllowedGiveUpEarly(i) == items[i].rc + 1 < MaxRetry

\* item.retryCount < eventStatus.MaxRetryCount
RetryAllowed(i) == items[i].rc < MaxRetry

\* handleStatus goroutine: one status received from the channel.
\* CreateChild starts handleStatus on the child item; Retry below the
\* budget bumps retryCount, swaps in a new channel and re-adds the item.
StatusRecv(c) ==
    /\ reader[c] = "active" /\ buf[c] # <<>>
    /\ LET i == c[1]
           s == Head(buf[c])
       IN  \/ /\ s.tag = "CreateChild"
              /\ buf' = [buf EXCEPT ![c] = Tail(@)]
              /\ reader' = [reader EXCEPT ![ChanOf(s.child)] = "active"]
              /\ UNCHANGED <<items, queue, dirty, waiters, wpc, concluded>>
           \/ /\ s.tag \in {"Skip", "Completed"}
              /\ buf' = [buf EXCEPT ![c] = Tail(@)]
              /\ concluded' = [concluded EXCEPT ![i] = s.tag]
              /\ UNCHANGED <<items, reader, queue, dirty, waiters, wpc>>
           \/ /\ s.tag = "Retry" /\ RetryAllowed(i)
              /\ buf' = [buf EXCEPT ![c] = Tail(@)]
              /\ items' = [items EXCEPT ![i].rc = @ + 1]
              /\ QueueAdd(i)
              /\ UNCHANGED <<reader, concluded>>
           \/ /\ s.tag = "Retry" /\ ~RetryAllowed(i)
              /\ buf' = [buf EXCEPT ![c] = Tail(@)]
              /\ concluded' = [concluded EXCEPT ![i] = "MaxRetryReached"]
              /\ UNCHANGED <<items, reader, queue, dirty, waiters, wpc>>
    /\ UNCHANGED <<events, closed, processing, shuttingDown, drain, witem, runPc,
                   registered, stopCh, stopPc, invoked, panicked>>

\* The channel is closed and drained: the deferred queue.Done(item).
StatusEnd(c) ==
    /\ reader[c] = "active" /\ buf[c] = <<>> /\ closed[c]
    /\ reader' = [reader EXCEPT ![c] = "ended"]
    /\ QueueDone(c[1])
    /\ UNCHANGED <<events, items, buf, closed, dirty, shuttingDown, drain, witem,
                   runPc, registered, stopCh, stopPc, concluded, invoked, panicked>>

----
\* StopAllControllers: for each registered controller close StopCh and wait
\* for every worker's context to be cancelled.
StopAll ==
    /\ StopEnabled /\ stopPc = "idle"
    /\ IF registered
       THEN /\ stopCh' = TRUE
            /\ stopPc' = "wait"
       ELSE /\ stopPc' = "done"
            /\ UNCHANGED stopCh
    /\ UNCHANGED <<events, items, chanVars, queueVars, wpc, witem, runPc,
                   registered, concluded, invoked, panicked>>

StopWait ==
    /\ stopPc = "wait"
    /\ \A w \in Workers : wpc[w] = "exit"
    /\ stopPc' = "done"
    /\ UNCHANGED <<events, items, chanVars, queueVars, wpc, witem, runPc,
                   registered, stopCh, concluded, invoked, panicked>>

\* Every event delivered (or the informer stopped), no goroutine has
\* anything left to do: the controller waits for events that do not come.
Idle ==
    /\ Len(events) = MaxEvents \/ stopCh
    /\ StopEnabled => stopPc = "done"
    /\ \A c \in ChanIds : reader[c] # "active"
    /\ \A w \in Workers : wpc[w] \in {"getWait", "exit"}
    /\ queue = <<>> \/ \A w \in Workers : wpc[w] = "exit"
    /\ UNCHANGED vars

WorkerStep(w) == CacheSynced(w) \/ SyncAborted(w) \/ Get(w) \/ Drain(w) \/ ProcessItem(w)
StatusStep(c) == StatusRecv(c) \/ StatusEnd(c)

Next ==
    \/ StartWorkers \/ Register \/ InformerStopped
    \/ \E k \in Keys : InformerEvent(k)
    \/ \E w \in Workers : WorkerStep(w)
    \/ \E c \in ChanIds : StatusStep(c)
    \/ StopAll \/ StopWait
    \/ Idle

\* Goroutines are scheduled fairly; informer events and the signal that
\* triggers StopAllControllers come from outside and need not happen.
Fairness ==
    /\ WF_vars(StartWorkers \/ Register \/ InformerStopped \/ StopWait)
    /\ \A w \in Workers : WF_vars(WorkerStep(w))
    /\ \A c \in ChanIds : WF_vars(StatusStep(c))

Spec == Init /\ [][Next]_vars
FairSpec == Spec /\ Fairness

\* The queue's Type, seen through its dirty set (added and not handed out
\* since), its processing set and its shuttingDown flag, is the queue of
\* WorkQueue.
QueueAbs == INSTANCE WorkQueue
    WITH Items <- ItemIds, pending <- dirty, active <- processing, down <- shuttingDown

----
\* Properties

TypeOK ==
    /\ events \in Seq(Keys) /\ Len(events) <= MaxEvents
    /\ items \in Seq([ev : 1..MaxEvents, rc : 0..MaxRetry, child : BOOLEAN])
    /\ buf \in [ChanIds -> Seq(Status)]
    /\ closed \in [ChanIds -> BOOLEAN]
    /\ reader \in [ChanIds -> {"none", "active", "ended"}]
    /\ queue \in Seq(Created) /\ dirty \subseteq Created /\ processing \subseteq Created
    /\ waiters \in Seq(Workers)
    /\ wpc \in [Workers -> WPCs] /\ witem \in [Workers -> ItemIds \cup {None}]
    /\ stopPc \in {"idle", "wait", "done"}
    /\ concluded \in [ItemIds -> {"none", "Skip", "Completed", "MaxRetryReached"}]

\* No handler sends on a status channel that is already closed: the queue
\* must never hand an item to a worker while an earlier processing of the
\* same item may still use its channel, whatever the retries and child
\* events of the status goroutines do.
NoChannelPanic == ~panicked

Invocations(i) == Len(SelectSeq(invoked, LAMBDA x : x = i))

\* Spec 8.8: an event is handed to its handler at most MaxRetryCount + 1
\* times, and exactly that often when the status goroutine reports
\* MaxRetryReached.
RetryBudget ==
    \A i \in Created :
        ~items[i].child =>
            /\ Invocations(i) <= MaxRetry + 1
            /\ concluded[i] = "MaxRetryReached" => Invocations(i) = MaxRetry + 1

\* Every informer event eventually reaches a terminal status (skip,
\* completion or MaxRetryReached): retries re-added while the item is still
\* processing are re-queued by queue.Done and processed again.
EveryEventConcluded ==
    \A i \in ItemIds : (i \in Created /\ ~items[i].child) ~> (concluded[i] # "none")

\* StopAllControllers returns: every worker of a stopped controller drains
\* and cancels its context.
StopCompletes == (stopPc = "wait") ~> (stopPc = "done")

\* The queue keeps its promise to the controller (WorkQueue): Get never
\* hands out an item nobody added or one not yet Done, an item retried while
\* it is still processing is handed out again after its Done, and while the
\* queue is up every waiting item reaches a worker, whose status goroutine
\* calls Done.
QueueRefinement == QueueAbs!FairSpec

InvokedEv(x) == items[invoked[x]].ev

\* Spec section 5: per key, handler invocations occur in arrival order.
ArrivalOrder ==
    \A x, y \in DOMAIN invoked :
        x < y /\ events[InvokedEv(x)] = events[InvokedEv(y)] => InvokedEv(x) <= InvokedEv(y)

====
