-------------------------- MODULE AsyncKeyExecutor --------------------------
(***************************************************************************)
(* The async key-serializing executor of internal/executor                 *)
(* (async_key_executor.go).  The caller (a controller worker) calls        *)
(* execute() once per event, in arrival order; execute() waits until fewer *)
(* than MaxGoRoutines runs are in progress, counts the new run and spawns  *)
(* a goroutine.  The goroutine serialises the events of one sync key with  *)
(* the key's runnerData mutex and parks at most one waiting event in the   *)
(* key's queue slot, comparing object generations to drop stale events.   *)
(*                                                                         *)
(* An event is identified by its arrival index.  Goroutine e starts with   *)
(* its own event e, but after waiting it may run the event it found in the *)
(* queue slot instead: current[e] is the event goroutine e is running.     *)
(* Every access to toBeProcessed happens under the queueSlot mutex, so     *)
(* each queueSlot critical section is one atomic step; the runnerData      *)
(* mutex is modelled explicitly because goroutines block on it.  Go's      *)
(* sync.Mutex is not FIFO: a TryLock of a new goroutine may take the mutex *)
(* before a blocked Lock() is served, so both are enabled when it is free. *)
(***************************************************************************)
EXTENDS Naturals, Sequences, FiniteSets

CONSTANTS
    Keys,           \* sync keys returned by GetKey (namespace/name)
    NoKey,          \* the empty sync key
    Gens,           \* object generations (metadata.generation)
    NoMeta,         \* an object without metadata: meta.Accessor fails
    MaxEvents,      \* bound on the number of events the caller submits
    MaxGoRoutines,  \* options.GetAsyncExecutorMaxGoRoutines()
    InputKeys,      \* the keys GetKey may return for a submitted object
    InputGens,      \* the generations a submitted object may carry
    MonotoneGens,   \* TRUE: one object per key, its generations never decrease
    None            \* nil

ASSUME /\ NoKey \notin Keys
       /\ NoMeta \notin Gens /\ Gens \subseteq Nat
       /\ MaxEvents \in Nat \ {0}
       /\ MaxGoRoutines \in Nat \ {0}
       /\ InputKeys \subseteq Keys \cup {NoKey}
       /\ InputGens \subseteq Gens \cup {NoMeta}
       /\ MonotoneGens \in BOOLEAN

Ev == 1..MaxEvents

VARIABLES
    events,     \* events submitted so far: <<[key, gen]>> in arrival order
    inFlight,   \* totalAsyncRunsInProgress
    pc,         \* program counter of the goroutine spawned for event e
    current,    \* the event goroutine e is running (its own or the slot's)
    mutex,      \* runnerData.Mutex of each key: holding goroutine or None
    slot,       \* runnerData.toBeProcessed of each key: an event or None
    last,       \* runnerData.lastProcessed of each key: an event or None
    closes,     \* number of times the status channel of event e was closed
    runLog      \* history: the events handed to runFunc, in order

vars == <<events, inFlight, pc, current, mutex, slot, last, closes, runLog>>

PCs == {"unborn", "getKey", "queueSlot", "waitLock", "pickSlot", "run", "done"}

KeyOf(e) == events[e].key
GenOf(e) == events[e].gen
Arrived == 1..Len(events)

\* meta.Accessor(obj) succeeds
HasMeta(e) == GenOf(e) # NoMeta

\* SkipClose: send a Skip status on the event's channel and close it.
SkipClose(e) == closes' = [closes EXCEPT ![e] = @ + 1]

\* The largest generation submitted for key k so far (informer order).
LastArrivedGen(k) ==
    LET gs == {GenOf(e) : e \in {x \in Arrived : KeyOf(x) = k /\ HasMeta(x)}}
    IN  IF gs = {} THEN 0 ELSE CHOOSE g \in gs : \A h \in gs : g >= h

----

Init ==
    /\ events = <<>>
    /\ inFlight = 0
    /\ pc = [e \in Ev |-> "unborn"]
    /\ current = [e \in Ev |-> None]
    /\ mutex = [k \in Keys |-> None]
    /\ slot = [k \in Keys |-> None]
    /\ last = [k \in Keys |-> None]
    /\ closes = [e \in Ev |-> 0]
    /\ runLog = <<>>

\* Mutant: admission compares with <= and lets one run too many in.
MutAdmissionOffByOne == inFlight <= MaxGoRoutines

\* waitForMaxAsyncRunsInProgress: the caller polls until fewer than
\* MaxGoRoutines runs are in progress.
AdmissionOpen == inFlight < MaxGoRoutines

\* execute(): admission, count the run, spawn the goroutine.  The caller
\* submits events one at a time.  With MonotoneGens the generations of a
\* key arrive in the order the informer saw them; without it a key's object
\* may be deleted and re-created (generation starts again at 1) between
\* two events.
Submit ==
    /\ Len(events) < MaxEvents
    /\ AdmissionOpen
    /\ \E k \in InputKeys, g \in InputGens :
          /\ MonotoneGens /\ k \in Keys /\ g \in Gens => g >= LastArrivedGen(k)
          /\ events' = Append(events, [key |-> k, gen |-> g])
    /\ inFlight' = inFlight + 1
    /\ pc' = [pc EXCEPT ![Len(events) + 1] = "getKey"]
    /\ UNCHANGED <<current, mutex, slot, last, closes, runLog>>

\* The goroutine computes the sync key.  An empty key is skip-closed and the
\* goroutine returns before its deferred decrement of the counter is set up.
EmptyKey(e) ==
    /\ pc[e] = "getKey"
    /\ KeyOf(e) = NoKey
    /\ SkipClose(e)
    /\ pc' = [pc EXCEPT ![e] = "done"]
    /\ UNCHANGED <<events, inFlight, current, mutex, slot, last, runLog>>

\* isEventAlreadyInProcessingForKey: TryLock on runnerData.
TryLock(e) ==
    /\ pc[e] = "getKey"
    /\ KeyOf(e) # NoKey
    /\ LET k == KeyOf(e) IN
       IF mutex[k] = None
       THEN /\ mutex' = [mutex EXCEPT ![k] = e]
            /\ current' = [current EXCEPT ![e] = e]
            /\ runLog' = Append(runLog, e)
            /\ pc' = [pc EXCEPT ![e] = "run"]
       ELSE /\ pc' = [pc EXCEPT ![e] = "queueSlot"]
            /\ UNCHANGED <<mutex, current, runLog>>
    /\ UNCHANGED <<events, inFlight, slot, last, closes>>

\* addItemToQueueSlot
AddItemToQueueSlot(k, e) == slot' = [slot EXCEPT ![k] = e]

\* Mutant: park without checking that the slot is empty.
MutParkInSlotNoGuard(e) ==
    /\ pc[e] = "queueSlot"
    /\ slot' = [slot EXCEPT ![KeyOf(e)] = e]
    /\ pc' = [pc EXCEPT ![e] = "waitLock"]
    /\ UNCHANGED <<events, inFlight, current, mutex, last, closes, runLog>>

\* Under queueSlot: the slot is empty, park this event and go wait for the
\* runnerData mutex.
ParkInSlot(e) ==
    /\ pc[e] = "queueSlot"
    /\ slot[KeyOf(e)] = None
    /\ AddItemToQueueSlot(KeyOf(e), e)
    /\ pc' = [pc EXCEPT ![e] = "waitLock"]
    /\ UNCHANGED <<events, inFlight, current, mutex, last, closes, runLog>>

\* Mutant: the generation comparison is inverted, the older event stays.
MutCompareInverted(e) ==
    /\ pc[e] = "queueSlot"
    /\ slot[KeyOf(e)] # None
    /\ LET k == KeyOf(e)
           p == slot[k]
       IN  \/ /\ ~HasMeta(p) \/ ~HasMeta(e)
              /\ SkipClose(e)
              /\ UNCHANGED slot
           \/ /\ HasMeta(p) /\ HasMeta(e)
              /\ GenOf(p) >= GenOf(e)
              /\ SkipClose(p)
              /\ slot' = [slot EXCEPT ![k] = e]
           \/ /\ HasMeta(p) /\ HasMeta(e)
              /\ GenOf(p) < GenOf(e)
              /\ SkipClose(e)
              /\ UNCHANGED slot
    /\ inFlight' = inFlight - 1
    /\ pc' = [pc EXCEPT ![e] = "done"]
    /\ UNCHANGED <<events, current, mutex, last, runLog>>

\* Under queueSlot: another event is parked.  The newer (or equal)
\* generation stays in the slot, the other one is skip-closed; the
\* goroutine returns (its deferred decrement runs).
CompareWithParked(e) ==
    /\ pc[e] = "queueSlot"
    /\ slot[KeyOf(e)] # None
    /\ LET k == KeyOf(e)
           p == slot[k]
       IN  \/ /\ ~HasMeta(p) \/ ~HasMeta(e)
              /\ SkipClose(e)
              /\ UNCHANGED slot
           \/ /\ HasMeta(p) /\ HasMeta(e)
              /\ GenOf(p) <= GenOf(e)
              /\ SkipClose(p)
              /\ AddItemToQueueSlot(k, e)
           \/ /\ HasMeta(p) /\ HasMeta(e)
              /\ GenOf(p) > GenOf(e)
              /\ SkipClose(e)
              /\ UNCHANGED slot
    /\ inFlight' = inFlight - 1
    /\ pc' = [pc EXCEPT ![e] = "done"]
    /\ UNCHANGED <<events, current, mutex, last, runLog>>

\* runnerData.Lock(): blocks until the mutex is free.
WaitLock(e) ==
    /\ pc[e] = "waitLock"
    /\ mutex[KeyOf(e)] = None
    /\ mutex' = [mutex EXCEPT ![KeyOf(e)] = e]
    /\ pc' = [pc EXCEPT ![e] = "pickSlot"]
    /\ UNCHANGED <<events, inFlight, current, slot, last, closes, runLog>>

\* Mutant: the picked event is left in the queue slot.
MutPickSlotNoReset(e) ==
    /\ pc[e] = "pickSlot"
    /\ LET k == KeyOf(e)
           p == slot[k]
           l == last[k]
       IN  IF l # None /\ p # None /\ (~HasMeta(l) \/ ~HasMeta(p) \/ GenOf(l) > GenOf(p))
           THEN /\ SkipClose(p)
                /\ slot' = [slot EXCEPT ![k] = None]
                /\ mutex' = [mutex EXCEPT ![k] = None]
                /\ inFlight' = inFlight - 1
                /\ pc' = [pc EXCEPT ![e] = "done"]
                /\ UNCHANGED <<current, runLog>>
           ELSE LET r == IF p # None THEN p ELSE e IN
                /\ current' = [current EXCEPT ![e] = r]
                /\ runLog' = Append(runLog, r)
                /\ pc' = [pc EXCEPT ![e] = "run"]
                /\ UNCHANGED <<slot, mutex, inFlight, closes>>
    /\ UNCHANGED <<events, last>>

\* Mutant: a stale parked event is dropped without closing its channel.
MutPickSlotNoClose(e) ==
    /\ pc[e] = "pickSlot"
    /\ LET k == KeyOf(e)
           p == slot[k]
           l == last[k]
       IN  IF l # None /\ p # None /\ (~HasMeta(l) \/ ~HasMeta(p) \/ GenOf(l) > GenOf(p))
           THEN /\ slot' = [slot EXCEPT ![k] = None]
                /\ mutex' = [mutex EXCEPT ![k] = None]
                /\ inFlight' = inFlight - 1
                /\ pc' = [pc EXCEPT ![e] = "done"]
                /\ UNCHANGED <<current, runLog, closes>>
           ELSE LET r == IF p # None THEN p ELSE e IN
                /\ current' = [current EXCEPT ![e] = r]
                /\ slot' = [slot EXCEPT ![k] = None]
                /\ runLog' = Append(runLog, r)
                /\ pc' = [pc EXCEPT ![e] = "run"]
                /\ UNCHANGED <<mutex, inFlight, closes>>
    /\ UNCHANGED <<events, last>>

\* Under runnerData and queueSlot: drop the parked event if the last
\* processed one is newer (or either lacks metadata), else take it from
\* the slot and run it.  Returning unlocks runnerData and decrements.
PickSlot(e) ==
    /\ pc[e] = "pickSlot"
    /\ LET k == KeyOf(e)
           p == slot[k]
           l == last[k]
       IN  IF l # None /\ p # None /\ (~HasMeta(l) \/ ~HasMeta(p) \/ GenOf(l) > GenOf(p))
           THEN /\ SkipClose(p)
                /\ slot' = [slot EXCEPT ![k] = None]
                /\ mutex' = [mutex EXCEPT ![k] = None]
                /\ inFlight' = inFlight - 1
                /\ pc' = [pc EXCEPT ![e] = "done"]
                /\ UNCHANGED <<current, runLog>>
           ELSE LET r == IF p # None THEN p ELSE e IN
                /\ current' = [current EXCEPT ![e] = r]
                /\ slot' = [slot EXCEPT ![k] = None]
                /\ runLog' = Append(runLog, r)
                /\ pc' = [pc EXCEPT ![e] = "run"]
                /\ UNCHANGED <<mutex, inFlight, closes>>
    /\ UNCHANGED <<events, last>>

\* Mutant: the deferred decrement of the run counter is missing.
MutFinishNoDecrement(e) ==
    /\ pc[e] = "run"
    /\ LET k == KeyOf(e)
           r == current[e]
       IN  /\ closes' = [closes EXCEPT ![r] = @ + 1]
           /\ last' = [last EXCEPT ![k] = r]
           /\ mutex' = [mutex EXCEPT ![k] = None]
    /\ pc' = [pc EXCEPT ![e] = "done"]
    /\ UNCHANGED <<events, inFlight, current, slot, runLog>>

\* runFunc returns (the handler has closed the event's channel), the event
\* becomes lastProcessed, the deferred Unlock and decrement run.
Finish(e) ==
    /\ pc[e] = "run"
    /\ LET k == KeyOf(e)
           r == current[e]
       IN  /\ closes' = [closes EXCEPT ![r] = @ + 1]
           /\ last' = [last EXCEPT ![k] = r]
           /\ mutex' = [mutex EXCEPT ![k] = None]
    /\ inFlight' = inFlight - 1
    /\ pc' = [pc EXCEPT ![e] = "done"]
    /\ UNCHANGED <<events, current, slot, runLog>>

Step(e) ==
    \/ EmptyKey(e) \/ TryLock(e) \/ ParkInSlot(e) \/ CompareWithParked(e)
    \/ WaitLock(e) \/ PickSlot(e) \/ Finish(e)

\* All submitted events have been handled and no more will come.
Terminated ==
    /\ Len(events) = MaxEvents
    /\ \A e \in Ev : pc[e] = "done"
    /\ UNCHANGED vars

Next == Submit \/ (\E e \in Ev : Step(e)) \/ Terminated

\* Goroutines are scheduled fairly; a goroutine blocked in Lock() gets the
\* mutex eventually (Go's mutex switches to starvation mode, handing it to
\* the waiter), so WaitLock is strongly fair.
Fairness ==
    /\ \A e \in Ev : WF_vars(EmptyKey(e) \/ TryLock(e) \/ ParkInSlot(e)
                             \/ CompareWithParked(e) \/ PickSlot(e) \/ Finish(e))
    /\ \A e \in Ev : SF_vars(WaitLock(e))

Spec == Init /\ [][Next]_vars
FairSpec == Spec /\ Fairness

----
\* Properties
----

TypeOK ==
    /\ events \in Seq([key : Keys \cup {NoKey}, gen : Gens \cup {NoMeta}])
    /\ Len(events) <= MaxEvents
    /\ inFlight \in 0..MaxGoRoutines
    /\ pc \in [Ev -> PCs]
    /\ current \in [Ev -> Ev \cup {None}]
    /\ mutex \in [Keys -> Ev \cup {None}]
    /\ slot \in [Keys -> Ev \cup {None}]
    /\ last \in [Keys -> Ev \cup {None}]
    /\ closes \in [Ev -> Nat]
    /\ runLog \in Seq(Ev)

\* No status channel is closed twice: SkipClose or the handler's SendClose
\* on an already closed channel panics the process.  The displacement of
\* parked events by later arrivals and the picking of the slot by the
\* waiter must never hand the same event to two closers.
StatusClosedAtMostOnce == \A e \in Ev : closes[e] <= 1

Parked(k) == {e \in Arrived : KeyOf(e) = k /\ pc[e] \in {"waitLock", "pickSlot"}}

\* At most one goroutine of a key waits behind the running one, and while
\* it waits the queue slot holds the event it will run (the executor's
\* "at most one waiter parks per key").
SingleWaiter ==
    \A k \in Keys :
        /\ Cardinality(Parked(k)) <= 1
        /\ \A e \in Parked(k) : pc[e] = "waitLock" => slot[k] # None

\* The goroutines that returned on an empty key before deferring their
\* decrement: each leaves one increment of totalAsyncRunsInProgress behind.
Leaked == {e \in Arrived : KeyOf(e) = NoKey /\ pc[e] = "done"}

\* totalAsyncRunsInProgress counts exactly the goroutines that have not
\* returned, apart from the increment each empty-key goroutine leaks:
\* every other path decrements once, so execute() never admits too many
\* runs and the bound is lost only to the leak.
InFlightCounted ==
    inFlight = Cardinality({e \in Arrived : pc[e] # "done"}) + Cardinality(Leaked)

Quiescent == \A e \in Arrived : pc[e] = "done"

LastArrival(k) == CHOOSE e \in Arrived : KeyOf(e) = k /\ \A x \in Arrived : KeyOf(x) = k => x <= e
RunEvents == {runLog[i] : i \in DOMAIN runLog}

\* Coalescing keeps the latest object: once every goroutine has returned,
\* an event carrying the generation of the last event submitted for each
\* key has been handed to runFunc.  Events of equal generation are
\* interchangeable (resyncs of one object version), so only superseded
\* generations may be skipped.
LatestGenerationRuns ==
    Quiescent =>
        \A k \in Keys :
            (\E e \in Arrived : KeyOf(e) = k) =>
                \E r \in RunEvents : KeyOf(r) = k /\ GenOf(r) = GenOf(LastArrival(k))

\* Every submitted event's status channel is eventually closed, so the
\* controller's status goroutine ends and queue.Done is called.
EveryEventClosed == \A e \in Ev : (pc[e] # "unborn") ~> (closes[e] >= 1)

\* Spec section 5: per key, handler invocations occur in arrival order
\* (after stale generations are coalesced away).
RunsInArrivalOrder ==
    \A i, j \in DOMAIN runLog :
        i < j /\ KeyOf(runLog[i]) = KeyOf(runLog[j]) => runLog[i] < runLog[j]

=============================================================================
