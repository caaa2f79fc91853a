----------------------------- MODULE TradingLock -----------------------------
(***************************************************************************)
(* concurrency/tradingLock.ts: the per-(userId, venue, symbol) lock that   *)
(* executeAction holds around a venue write.  A member of Calls is one     *)
(* invocation of acquireTradingLock together with the release closure it   *)
(* returns; KeyOf gives its lock key.                                      *)
(*                                                                         *)
(* Time is abstracted to the one distinction the code makes: a call in     *)
(* SlowCalls keeps the lock for longer than STALE_LOCK_TTL_MS, so its      *)
(* stale timer can fire; the timer of any other call is always cleared     *)
(* first.  A timer is named after the call it was started for: every call  *)
(* gets exactly one, when the lock becomes its own.                        *)
(***************************************************************************)
EXTENDS Naturals, Sequences, FiniteSets

CONSTANTS
    Calls,      \* invocations of acquireTradingLock
    Keys,       \* lock keys `${userId}:${venue}:${symbol}`
    KeyOf,      \* the key each invocation asks for
    SlowCalls   \* the invocations that hold for more than STALE_LOCK_TTL_MS

ASSUME KeyAssumption  == KeyOf \in [Calls -> Keys]
ASSUME SlowAssumption == SlowCalls \subseteq Calls

VARIABLES
    locks,      \* the module's Map: key -> LockEntry; absent when free
    timers,     \* the stale timers that are still pending
    pc,         \* how far each call has come
    expired,    \* history: the calls whose stale timer has fired
    breached    \* history: the keys whose entry such a call has released

history == <<expired, breached>>
vars == <<locks, timers, pc, history>>

\* `held` of a LockEntry is TRUE in every entry the code builds, so it is
\* the entry's presence; staleTimer names the call the timer was made for.
LockEntry == [queue : Seq(Calls), staleTimer : Calls]

\* "granted": the promise is resolved, its continuation has not run yet;
\* "holding": the caller has its release function.
Stages == {"start", "waiting", "granted", "holding", "released"}

HasLock(c) == pc[c] \in {"granted", "holding"}
Queued(k)  == {locks[k].queue[i] : i \in DOMAIN locks[k].queue}

WithEntry(k, e) ==
    [x \in DOMAIN locks \union {k} |-> IF x = k THEN e ELSE locks[x]]
\* Mutant: the entry stays, empty and without a timer.
BlankEntry(k) == [locks EXCEPT ![k] = [queue |-> << >>, staleTimer |-> "none"]]
WithoutEntry(k) == [x \in DOMAIN locks \ {k} |-> locks[x]]

Init ==
    /\ locks = [k \in {} |-> {}]
    /\ timers = {}
    /\ pc = [c \in Calls |-> "start"]
    /\ expired = {} /\ breached = {}

------------------------------------------------------------------------------
\* Mutant: queue.pop() for queue.shift().
WakeNewest(k, pending, stages) ==
    LET queue == locks[k].queue  n == Len(locks[k].queue) IN
    IF n > 0
    THEN /\ locks' = [locks EXCEPT ![k] = [queue |-> SubSeq(queue, 1, n - 1),
                                           staleTimer |-> queue[n]]]
         /\ timers' = pending \union {queue[n]}
         /\ pc' = [stages EXCEPT ![queue[n]] = "granted"]
    ELSE locks' = WithoutEntry(k) /\ timers' = pending /\ pc' = stages

\* Mutant: the hand-over forgets to start the new holder's timer.
WakeWithoutTimer(k, pending, stages) ==
    LET queue == locks[k].queue IN
    IF queue # << >>
    THEN /\ locks' = [locks EXCEPT ![k] = [queue |-> Tail(queue),
                                           staleTimer |-> Head(queue)]]
         /\ timers' = pending
         /\ pc' = [stages EXCEPT ![Head(queue)] = "granted"]
    ELSE locks' = WithoutEntry(k) /\ timers' = pending /\ pc' = stages

\* Hand the lock to the next waiter with a fresh stale timer, without a
\* moment at which it is free, or drop the entry.  `pending` are the timers
\* left after the clearTimeout of the caller, `stages` the stages after it.
WakeNextOrDelete(k, pending, stages) ==
    LET queue == locks[k].queue IN
    IF queue # << >>
    THEN /\ locks' = [locks EXCEPT ![k] = [queue |-> Tail(queue),
                                           staleTimer |-> Head(queue)]]
         /\ timers' = pending \union {Head(queue)}
         /\ pc' = [stages EXCEPT ![Head(queue)] = "granted"]
    ELSE /\ locks' = WithoutEntry(k)
         /\ timers' = pending
         /\ pc' = stages

\* Mutant: the slow path replaces the queue instead of pushing onto it.
AcquireOverwriting(c) ==
    LET k == KeyOf[c] IN
    /\ pc[c] = "start"
    /\ \/ /\ k \notin DOMAIN locks
          /\ locks' = WithEntry(k, [queue |-> << >>, staleTimer |-> c])
          /\ timers' = timers \union {c}
          /\ pc' = [pc EXCEPT ![c] = "granted"]
       \/ /\ k \in DOMAIN locks
          /\ locks' = [locks EXCEPT ![k].queue = <<c>>]
          /\ pc' = [pc EXCEPT ![c] = "waiting"]
          /\ UNCHANGED timers
    /\ UNCHANGED history

\* acquireTradingLock up to its return (fast path) or its await (slow path).
Acquire(c) ==
    LET k == KeyOf[c] IN
    /\ pc[c] = "start"
    /\ \/ /\ k \notin DOMAIN locks
          /\ locks' = WithEntry(k, [queue |-> << >>, staleTimer |-> c])
          /\ timers' = timers \union {c}
          /\ pc' = [pc EXCEPT ![c] = "granted"]
       \/ /\ k \in DOMAIN locks
          /\ locks' = [locks EXCEPT ![k].queue = Append(@, c)]
          /\ pc' = [pc EXCEPT ![c] = "waiting"]
          /\ UNCHANGED timers
    /\ UNCHANGED history

\* The continuation of the resolved promise: the caller gets makeReleaseFn.
Resume(c) ==
    /\ pc[c] = "granted"
    /\ pc' = [pc EXCEPT ![c] = "holding"]
    /\ UNCHANGED <<locks, timers, history>>

\* Mutants of the closure: no `released` flag; no clearTimeout.
ReleaseTwice(c) ==
    LET k == KeyOf[c] IN
    /\ pc[c] \in {"holding", "released"}
    /\ k \in DOMAIN locks
    /\ WakeNextOrDelete(k, timers \ {locks[k].staleTimer},
                        [pc EXCEPT ![c] = "released"])
    /\ UNCHANGED history
ReleaseKeepingTimer(c) ==
    /\ pc[c] = "holding"
    /\ KeyOf[c] \in DOMAIN locks
    /\ WakeNextOrDelete(KeyOf[c], timers, [pc EXCEPT ![c] = "released"])
    /\ UNCHANGED history

\* The release closure: idempotent for its own call, silent when the entry
\* is gone, and otherwise acting on whatever entry the key has by now.
ReleaseLock(c) ==
    LET k == KeyOf[c] IN
    \/ pc[c] = "released" /\ UNCHANGED vars
    \/ /\ pc[c] = "holding"
       /\ UNCHANGED expired
       /\ \/ /\ k \notin DOMAIN locks
             /\ pc' = [pc EXCEPT ![c] = "released"]
             /\ UNCHANGED <<locks, timers, breached>>
          \/ /\ k \in DOMAIN locks
             /\ WakeNextOrDelete(k, timers \ {locks[k].staleTimer},
                                 [pc EXCEPT ![c] = "released"])
             /\ breached' = IF c \in expired THEN breached \union {k} ELSE breached

\* A stale timer fires and force-releases the key's entry.
StaleTimer(t) ==
    LET k == KeyOf[t] IN
    /\ t \in timers \intersect SlowCalls
    /\ expired' = expired \union {t} /\ UNCHANGED breached
    /\ IF k \in DOMAIN locks
       THEN WakeNextOrDelete(k, timers \ {t, locks[k].staleTimer}, pc)
       ELSE timers' = timers \ {t} /\ UNCHANGED <<locks, pc>>

Next == \E c \in Calls :
    Acquire(c) \/ Resume(c) \/ ReleaseLock(c) \/ StaleTimer(c)

\* Node runs every resolved continuation and every due timer, and callers
\* release in a finally block; a slow call may never come back to release.
Fairness ==
    /\ \A c \in Calls : WF_vars(Resume(c)) /\ WF_vars(StaleTimer(c))
    /\ \A c \in Calls \ SlowCalls : WF_vars(ReleaseLock(c))

Spec     == Init /\ [][Next]_vars
FairSpec == Spec /\ Fairness

------------------------------------------------------------------------------
\* The types of the four variables.
TypeOK ==
    /\ DOMAIN locks \subseteq Keys
    /\ locks \in [DOMAIN locks -> LockEntry]
    /\ timers \subseteq Calls
    /\ pc \in [Calls -> Stages]
    /\ expired \subseteq Calls /\ breached \subseteq Keys

\* At most one call has the lock of a key (tradingLock.ts:4 and :107), of those
\* that have not been force-released, whatever the slow ones do - until one of
\* these releases after all, since its closure frees the entry of whoever holds
\* the key by then.
MutualExclusion ==
    \A c, d \in Calls \ expired :
        HasLock(c) /\ HasLock(d) /\ KeyOf[c] = KeyOf[d] /\ KeyOf[c] \notin breached => c = d

\* Every entry is owned by a call of its key that has the lock, and the timers
\* that are pending are exactly the owners' timers: no release and no hand-over
\* leaks a timer that would later break into somebody else's turn.
TimersMatchEntries ==
    /\ timers = {locks[k].staleTimer : k \in DOMAIN locks}
    /\ \A k \in DOMAIN locks :
          KeyOf[locks[k].staleTimer] = k /\ HasLock(locks[k].staleTimer)

\* No waiter is lost: a call waits exactly when it stands, once, in the queue
\* of an existing entry of its own key, whatever releases and forced releases
\* came before.
WaitersQueued ==
    /\ \A c \in Calls : pc[c] = "waiting" =>
          KeyOf[c] \in DOMAIN locks /\ c \in Queued(KeyOf[c])
    /\ \A k \in DOMAIN locks : \A i, j \in DOMAIN locks[k].queue :
          LET q == locks[k].queue IN
          /\ pc[q[i]] = "waiting" /\ KeyOf[q[i]] = k
          /\ q[i] = q[j] => i = j

\* A waiter gets the lock even behind holders that never release it: the stale
\* timers are enough (tradingLock.ts:13).
EveryWaiterServed ==
    \A c \in Calls : pc[c] = "waiting" ~> pc[c] # "waiting"

\* On a key whose holders all come back before their stale timers fire, the
\* lock is a first-come first-served line: arrival order is service order, and
\* the other keys do not interfere.
lineOf(k) == IF k \in DOMAIN locks
             THEN <<locks[k].staleTimer>> \o locks[k].queue
             ELSE << >>
Prompt(k) == \A c \in SlowCalls : KeyOf[c] # k
PromptKeys == {k \in Keys : Prompt(k)}
PromptCalls == {c \in Calls : Prompt(KeyOf[c])}
Line == INSTANCE FifoLock WITH
            Keys <- PromptKeys, Calls <- PromptCalls,
            line <- [k \in PromptKeys |-> lineOf(k)]
FirstComeFirstServed == Line!Spec
=============================================================================
