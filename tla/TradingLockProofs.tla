-------------------------- MODULE TradingLockProofs --------------------------
(***************************************************************************)
(* Proofs about the trading lock, for every set of calls and of keys.      *)
(*                                                                         *)
(* LockInv is the inductive invariant.  It says who owns an entry (the     *)
(* call its stale timer was started for), that every waiter stands once in *)
(* the queue of its own key, and that the pending timers are the owners'.  *)
(* Mutual exclusion needs OwnerInv as well: whoever has the lock and was   *)
(* not force-released is the owner, on every key that no force-released    *)
(* call has released.                                                      *)
(***************************************************************************)
EXTENDS TradingLock, SequenceTheorems, TLAPS

LockInv == TypeOK /\ TimersMatchEntries /\ WaitersQueued

OwnerInv ==
    \A c \in Calls \ expired : KeyOf[c] \notin breached /\ HasLock(c) =>
        KeyOf[c] \in DOMAIN locks /\ locks[KeyOf[c]].staleTimer = c

(***************************************************************************)
(* Facts about sequences that the hand-over and the push rely on.          *)
(***************************************************************************)

\* What queue.shift() leaves: the elements after the first, in place.
LEMMA TailElements ==
    ASSUME NEW S, NEW q \in Seq(S), q # << >>
    PROVE  /\ Head(q) \in S /\ Head(q) = q[1] /\ 1 \in DOMAIN q
           /\ Tail(q) \in Seq(S)
           /\ \A i \in DOMAIN Tail(q) :
                 i \in Nat /\ i + 1 \in DOMAIN q /\ i + 1 # 1
                 /\ Tail(q)[i] = q[i + 1]
           /\ \A i \in DOMAIN q : i # 1 =>
                 i - 1 \in DOMAIN Tail(q) /\ Tail(q)[i - 1] = q[i]
<1>1. Len(q) \in Nat \ {0} /\ DOMAIN q = 1 .. Len(q)
  BY SMT
<1>2. Tail(q) \in Seq(S) /\ Len(Tail(q)) = Len(q) - 1
  BY SMT
<1>3. DOMAIN Tail(q) = 1 .. (Len(q) - 1)
  BY <1>1, <1>2, SMT
<1>4. Head(q) = q[1] /\ q[1] \in S
  BY <1>1, SMT
<1>5. \A i \in 1 .. (Len(q) - 1) : Tail(q)[i] = q[i + 1]
  BY <1>1, SMT
<1>6. \A i \in DOMAIN Tail(q) :
          i \in Nat /\ i + 1 \in DOMAIN q /\ i + 1 # 1 /\ Tail(q)[i] = q[i + 1]
  BY <1>1, <1>3, <1>5, SMT
<1>7. \A i \in DOMAIN q : i # 1 =>
          i - 1 \in DOMAIN Tail(q) /\ Tail(q)[i - 1] = q[i]
  <2> SUFFICES ASSUME NEW i \in DOMAIN q, i # 1
               PROVE  i - 1 \in DOMAIN Tail(q) /\ Tail(q)[i - 1] = q[i]
    OBVIOUS
  <2>1. i - 1 \in 1 .. (Len(q) - 1) /\ (i - 1) + 1 = i
    BY <1>1, SMT
  <2> QED
    BY <1>3, <1>5, <2>1, SMT
<1> QED
  BY <1>1, <1>2, <1>4, <1>6, <1>7, SMT

\* What queue.push(c) leaves: the elements before, in place, and c last.
LEMMA AppendElements ==
    ASSUME NEW S, NEW q \in Seq(S), NEW e \in S
    PROVE  /\ Append(q, e) \in Seq(S)
           /\ DOMAIN Append(q, e) = DOMAIN q \union {Len(q) + 1}
           /\ Len(q) + 1 \notin DOMAIN q
           /\ Append(q, e)[Len(q) + 1] = e
           /\ \A i \in DOMAIN q : Append(q, e)[i] = q[i]
<1>1. Len(q) \in Nat /\ DOMAIN q = 1 .. Len(q)
  BY SMT
<1>2. Append(q, e) \in Seq(S) /\ Len(Append(q, e)) = Len(q) + 1
  BY SMT
<1>3. DOMAIN Append(q, e) = 1 .. (Len(q) + 1)
  BY <1>1, <1>2, SMT
<1>4. Append(q, e)[Len(q) + 1] = e
  BY <1>1, SMT
<1>5. \A i \in 1 .. Len(q) : Append(q, e)[i] = q[i]
  BY <1>1, SMT
<1> QED
  BY <1>1, <1>2, <1>3, <1>4, <1>5, SMT

(***************************************************************************)
(* The hand-over, shared by the release closure and the stale timer.  The  *)
(* caller may already have moved calls of key k, never into or out of the  *)
(* queue.                                                                  *)
(***************************************************************************)

\* What an entry holds when the invariant is true.
LEMMA EntryFacts ==
    ASSUME LockInv, NEW k \in DOMAIN locks
    PROVE  /\ k \in Keys
           /\ locks[k].queue \in Seq(Calls) /\ locks[k].staleTimer \in Calls
           /\ KeyOf[locks[k].staleTimer] = k
           /\ pc[locks[k].staleTimer] \in {"granted", "holding"}
           /\ locks[k].staleTimer \in timers
           /\ \A i \in DOMAIN locks[k].queue :
                 /\ locks[k].queue[i] \in Calls
                 /\ pc[locks[k].queue[i]] = "waiting"
                 /\ KeyOf[locks[k].queue[i]] = k
<1>1. k \in Keys /\ locks[k] \in LockEntry
  BY DEF LockInv, TypeOK
<1>2. locks[k].queue \in Seq(Calls) /\ locks[k].staleTimer \in Calls
  BY <1>1 DEF LockEntry
<1>3. \A i \in DOMAIN locks[k].queue : locks[k].queue[i] \in Calls
  BY <1>2, SMT
<1> QED
  BY <1>1, <1>2, <1>3 DEF LockInv, TimersMatchEntries, WaitersQueued, HasLock

LEMMA HandOver ==
    ASSUME LockInv, NEW k \in DOMAIN locks,
           NEW stages \in [Calls -> Stages],
           \A c \in Calls : KeyOf[c] # k => stages[c] = pc[c],
           \A c \in Calls : stages[c] = "waiting" <=> pc[c] = "waiting",
           WakeNextOrDelete(k, timers \ {locks[k].staleTimer}, stages),
           expired' \in SUBSET Calls, breached' \in SUBSET Keys
    PROVE  LockInv'
<1> DEFINE q == locks[k].queue
           o == locks[k].staleTimer
<1> USE KeyAssumption
<1>1. TypeOK /\ TimersMatchEntries /\ WaitersQueued
  BY DEF LockInv
<1>2. /\ k \in Keys /\ q \in Seq(Calls) /\ o \in Calls /\ KeyOf[o] = k
      /\ \A i \in DOMAIN q :
            q[i] \in Calls /\ pc[q[i]] = "waiting" /\ KeyOf[q[i]] = k
  BY EntryFacts
<1>3. \A x \in DOMAIN locks \ {k} :
          /\ locks[x].staleTimer # o /\ locks[x].staleTimer \in Calls
          /\ KeyOf[locks[x].staleTimer] = x
          /\ stages[locks[x].staleTimer] \in {"granted", "holding"}
          /\ locks[x].queue \in Seq(Calls)
          /\ \A i \in DOMAIN locks[x].queue :
                /\ locks[x].queue[i] \in Calls
                /\ stages[locks[x].queue[i]] = "waiting"
                /\ KeyOf[locks[x].queue[i]] = x
  BY <1>2, EntryFacts
<1>4. CASE q # << >>
  <2> DEFINE n == Head(q)
             e == [queue |-> Tail(q), staleTimer |-> Head(q)]
  <2>1. /\ locks' = [locks EXCEPT ![k] = e]
        /\ timers' = (timers \ {o}) \union {n}
        /\ pc' = [stages EXCEPT ![n] = "granted"]
    BY <1>4 DEF WakeNextOrDelete
  <2>2. /\ n \in Calls /\ n = q[1] /\ 1 \in DOMAIN q
        /\ Tail(q) \in Seq(Calls)
        /\ \A i \in DOMAIN Tail(q) :
              i \in Nat /\ i + 1 \in DOMAIN q /\ i + 1 # 1
              /\ Tail(q)[i] = q[i + 1]
        /\ \A i \in DOMAIN q : i # 1 =>
              i - 1 \in DOMAIN Tail(q) /\ Tail(q)[i - 1] = q[i]
    BY <1>2, <1>4, TailElements
  <2>3. /\ DOMAIN locks' = DOMAIN locks
        /\ locks'[k].queue = Tail(q) /\ locks'[k].staleTimer = n
        /\ \A x \in DOMAIN locks \ {k} : locks'[x] = locks[x]
    BY <2>1
  <2>4. pc[n] = "waiting" /\ KeyOf[n] = k
    BY <1>2, <2>2
  <2>5. \A c \in Calls : pc'[c] = IF c = n THEN "granted" ELSE stages[c]
    BY <2>1
  <2>6. TypeOK'
    <3>1. e \in LockEntry
      BY <2>2 DEF LockEntry
    <3>2. DOMAIN locks' \subseteq Keys /\ locks' \in [DOMAIN locks' -> LockEntry]
      BY <1>1, <2>1, <3>1 DEF TypeOK
    <3>3. timers' \subseteq Calls /\ pc' \in [Calls -> Stages]
      BY <1>1, <2>1, <2>2 DEF TypeOK, Stages
    <3> QED
      BY <3>2, <3>3 DEF TypeOK
  <2>7. TimersMatchEntries'
    <3>1. timers = {locks[x].staleTimer : x \in DOMAIN locks}
      BY <1>1 DEF TimersMatchEntries
    <3>2. timers' = {locks'[x].staleTimer : x \in DOMAIN locks'}
      BY <1>3, <2>1, <2>3, <3>1
    <3>3. \A x \in DOMAIN locks' :
              /\ KeyOf[locks'[x].staleTimer] = x
              /\ pc'[locks'[x].staleTimer] \in {"granted", "holding"}
      BY <1>3, <2>2, <2>3, <2>4, <2>5
    <3> QED
      BY <3>2, <3>3 DEF TimersMatchEntries, HasLock
  <2>8. \A c \in Calls : pc'[c] = "waiting" =>
            KeyOf[c] \in DOMAIN locks' /\ \E i \in DOMAIN locks'[KeyOf[c]].queue :
                locks'[KeyOf[c]].queue[i] = c
    <3> SUFFICES ASSUME NEW c \in Calls, pc'[c] = "waiting"
                 PROVE  KeyOf[c] \in DOMAIN locks'
                        /\ \E i \in DOMAIN locks'[KeyOf[c]].queue :
                              locks'[KeyOf[c]].queue[i] = c
      OBVIOUS
    <3>1. c # n /\ pc[c] = "waiting"
      BY <2>5
    <3>2. KeyOf[c] \in DOMAIN locks /\ \E i \in DOMAIN locks[KeyOf[c]].queue :
              locks[KeyOf[c]].queue[i] = c
      BY <1>1, <3>1 DEF WaitersQueued, Queued
    <3>3. PICK i \in DOMAIN locks[KeyOf[c]].queue :
              locks[KeyOf[c]].queue[i] = c
      BY <3>2
    <3>4. CASE KeyOf[c] = k
      <4>1. i \in DOMAIN q /\ q[i] = c /\ i # 1
        BY <2>2, <3>1, <3>3, <3>4
      <4>2. i - 1 \in DOMAIN Tail(q) /\ Tail(q)[i - 1] = c
        BY <2>2, <4>1
      <4> QED
        BY <2>3, <3>4, <4>2
    <3>5. CASE KeyOf[c] # k
      BY <2>3, <3>2, <3>5
    <3> QED
      BY <3>4, <3>5
  <2>9. ASSUME NEW x \in DOMAIN locks', NEW i \in DOMAIN locks'[x].queue,
               NEW j \in DOMAIN locks'[x].queue
        PROVE  /\ pc'[locks'[x].queue[i]] = "waiting"
               /\ KeyOf[locks'[x].queue[i]] = x
               /\ locks'[x].queue[i] = locks'[x].queue[j] => i = j
    <3>1. CASE x = k
      <4>1. /\ i \in Nat /\ j \in Nat
            /\ i + 1 \in DOMAIN q /\ j + 1 \in DOMAIN q /\ i + 1 # 1
            /\ locks'[x].queue[i] = q[i + 1] /\ locks'[x].queue[j] = q[j + 1]
        BY <2>2, <2>3, <3>1
      <4>2. \A a, b \in DOMAIN q : q[a] = q[b] => a = b
        BY <1>1 DEF WaitersQueued
      <4>3. q[i + 1] # n
        BY <2>2, <4>1, <4>2
      <4>4. q[i + 1] = q[j + 1] => i = j
        BY <4>1, <4>2
      <4> QED
        BY <1>2, <2>5, <3>1, <4>1, <4>3, <4>4
    <3>2. CASE x # k
      <4>1. x \in DOMAIN locks \ {k} /\ locks'[x] = locks[x]
        BY <2>3, <3>2
      <4>2. locks[x].queue[i] = locks[x].queue[j] => i = j
        BY <1>1, <4>1 DEF WaitersQueued
      <4> QED
        BY <1>3, <2>4, <2>5, <3>2, <4>1, <4>2
    <3> QED
      BY <3>1, <3>2
  <2> QED
    BY <2>6, <2>7, <2>8, <2>9 DEF LockInv, WaitersQueued, Queued
<1>5. CASE q = << >>
  <2>1. /\ locks' = [x \in DOMAIN locks \ {k} |-> locks[x]]
        /\ timers' = timers \ {o}
        /\ pc' = stages
    BY <1>5 DEF WakeNextOrDelete, WithoutEntry
  <2>2. /\ DOMAIN locks' = DOMAIN locks \ {k}
        /\ \A x \in DOMAIN locks' : locks'[x] = locks[x]
    BY <2>1
  <2>3. TypeOK'
    BY <1>1, <2>1, <2>2 DEF TypeOK
  <2>4. TimersMatchEntries'
    <3>1. timers = {locks[x].staleTimer : x \in DOMAIN locks}
      BY <1>1 DEF TimersMatchEntries
    <3>2. timers' = {locks'[x].staleTimer : x \in DOMAIN locks'}
      BY <1>3, <2>1, <2>2, <3>1
    <3> QED
      BY <1>3, <2>1, <2>2, <3>2 DEF TimersMatchEntries, HasLock
  <2>5. \A c \in Calls : pc'[c] = "waiting" =>
            KeyOf[c] \in DOMAIN locks' /\ \E i \in DOMAIN locks'[KeyOf[c]].queue :
                locks'[KeyOf[c]].queue[i] = c
    <3> SUFFICES ASSUME NEW c \in Calls, pc'[c] = "waiting"
                 PROVE  KeyOf[c] \in DOMAIN locks'
                        /\ \E i \in DOMAIN locks'[KeyOf[c]].queue :
                              locks'[KeyOf[c]].queue[i] = c
      OBVIOUS
    <3>1. KeyOf[c] \in DOMAIN locks /\ \E i \in DOMAIN locks[KeyOf[c]].queue :
              locks[KeyOf[c]].queue[i] = c
      BY <1>1, <2>1 DEF WaitersQueued, Queued
    <3>2. KeyOf[c] # k
      BY <1>5, <3>1, SMT
    <3> QED
      BY <2>2, <3>1, <3>2
  <2>6. \A x \in DOMAIN locks' : \A i, j \in DOMAIN locks'[x].queue :
            /\ pc'[locks'[x].queue[i]] = "waiting"
            /\ KeyOf[locks'[x].queue[i]] = x
            /\ locks'[x].queue[i] = locks'[x].queue[j] => i = j
    BY <1>1, <1>3, <2>1, <2>2 DEF WaitersQueued
  <2> QED
    BY <2>3, <2>4, <2>5, <2>6 DEF LockInv, WaitersQueued, Queued
<1> QED
  BY <1>4, <1>5

(***************************************************************************)
(* The invariant, action by action.                                        *)
(***************************************************************************)

LEMMA InitLockInv == Init => LockInv
<1> SUFFICES ASSUME Init PROVE LockInv
  OBVIOUS
<1>1. DOMAIN locks = {} /\ timers = {} /\ expired = {} /\ breached = {}
      /\ pc = [c \in Calls |-> "start"]
  BY DEF Init
<1> QED
  BY <1>1 DEF Init, LockInv, TypeOK, TimersMatchEntries, WaitersQueued, Stages

\* Taking a free lock, or joining the queue of a held one.
LEMMA AcquireLockInv ==
    ASSUME LockInv, NEW c \in Calls, Acquire(c)
    PROVE  LockInv'
<1> DEFINE k == KeyOf[c]
<1>1. TypeOK /\ TimersMatchEntries /\ WaitersQueued
  BY DEF LockInv
<1>2. k \in Keys /\ pc[c] = "start" /\ expired' = expired /\ breached' = breached
  BY KeyAssumption DEF Acquire, history
<1>3. CASE k \notin DOMAIN locks
  <2> DEFINE e == [queue |-> << >>, staleTimer |-> c]
  <2>1. /\ locks' = WithEntry(k, e)
        /\ timers' = timers \union {c}
        /\ pc' = [pc EXCEPT ![c] = "granted"]
    BY <1>3 DEF Acquire
  <2>2. /\ DOMAIN locks' = DOMAIN locks \union {k}
        /\ locks'[k] = e
        /\ \A x \in DOMAIN locks : locks'[x] = locks[x]
    BY <1>3, <2>1 DEF WithEntry
  <2>3. DOMAIN locks'[k].queue = {}
    BY <2>2, SMT
  <2>4. TypeOK'
    <3>1. e \in LockEntry
      BY DEF LockEntry
    <3>2. locks' \in [DOMAIN locks' -> LockEntry]
      BY <1>1, <2>1, <2>2, <3>1 DEF TypeOK, WithEntry
    <3> QED
      BY <1>1, <1>2, <2>1, <2>2, <3>2 DEF TypeOK, Stages
  <2>5. TimersMatchEntries'
    <3>1. timers' = {locks'[x].staleTimer : x \in DOMAIN locks'}
      BY <1>1, <2>1, <2>2 DEF TimersMatchEntries
    <3>2. \A x \in DOMAIN locks' :
              /\ KeyOf[locks'[x].staleTimer] = x
              /\ pc'[locks'[x].staleTimer] \in {"granted", "holding"}
      BY <1>1, <2>1, <2>2, EntryFacts DEF TypeOK, LockInv
    <3> QED
      BY <3>1, <3>2 DEF TimersMatchEntries, HasLock
  <2>6. \A d \in Calls : pc'[d] = "waiting" => pc[d] = "waiting"
    BY <1>1, <2>1 DEF TypeOK
  <2>7. \A d \in Calls : pc'[d] = "waiting" =>
            KeyOf[d] \in DOMAIN locks' /\ \E i \in DOMAIN locks'[KeyOf[d]].queue :
                locks'[KeyOf[d]].queue[i] = d
    BY <1>1, <2>2, <2>6 DEF WaitersQueued, Queued
  <2>8. \A x \in DOMAIN locks' : \A i, j \in DOMAIN locks'[x].queue :
            /\ pc'[locks'[x].queue[i]] = "waiting"
            /\ KeyOf[locks'[x].queue[i]] = x
            /\ locks'[x].queue[i] = locks'[x].queue[j] => i = j
    <3> SUFFICES ASSUME NEW x \in DOMAIN locks,
                        NEW i \in DOMAIN locks[x].queue,
                        NEW j \in DOMAIN locks[x].queue
                 PROVE  /\ pc'[locks[x].queue[i]] = "waiting"
                        /\ KeyOf[locks[x].queue[i]] = x
                        /\ locks[x].queue[i] = locks[x].queue[j] => i = j
      BY <2>2, <2>3
    <3>1. pc[locks[x].queue[i]] = "waiting" /\ locks[x].queue[i] \in Calls
      BY EntryFacts
    <3> QED
      BY <1>1, <1>2, <2>1, <3>1 DEF WaitersQueued, TypeOK
  <2> QED
    BY <2>4, <2>5, <2>7, <2>8 DEF LockInv, WaitersQueued, Queued
<1>4. CASE k \in DOMAIN locks
  <2> DEFINE q == locks[k].queue
  <2>1. /\ locks' = [locks EXCEPT ![k].queue = Append(q, c)]
        /\ timers' = timers
        /\ pc' = [pc EXCEPT ![c] = "waiting"]
    BY <1>4 DEF Acquire
  <2>2. /\ q \in Seq(Calls)
        /\ \A i \in DOMAIN q :
              q[i] \in Calls /\ pc[q[i]] = "waiting" /\ KeyOf[q[i]] = k
    BY <1>4, EntryFacts
  <2>3. /\ Append(q, c) \in Seq(Calls)
        /\ DOMAIN Append(q, c) = DOMAIN q \union {Len(q) + 1}
        /\ Len(q) + 1 \notin DOMAIN q
        /\ Append(q, c)[Len(q) + 1] = c
        /\ \A i \in DOMAIN q : Append(q, c)[i] = q[i]
    BY <2>2, AppendElements
  <2>4. locks[k] \in LockEntry
    BY <1>1, <1>4 DEF TypeOK
  <2>5. /\ DOMAIN locks' = DOMAIN locks
        /\ locks'[k] \in LockEntry
        /\ locks'[k].queue = Append(q, c)
        /\ \A x \in DOMAIN locks : locks'[x].staleTimer = locks[x].staleTimer
        /\ \A x \in DOMAIN locks \ {k} : locks'[x] = locks[x]
    BY <1>4, <2>1, <2>3, <2>4 DEF LockEntry
  <2>6. TypeOK'
    <3>1. locks' \in [DOMAIN locks' -> LockEntry]
      BY <1>1, <2>1, <2>5 DEF TypeOK
    <3> QED
      BY <1>1, <1>2, <2>1, <2>5, <3>1 DEF TypeOK, Stages
  <2>7. \A d \in Calls : pc'[d] = IF d = c THEN "waiting" ELSE pc[d]
    BY <1>1, <2>1 DEF TypeOK
  <2>8. TimersMatchEntries'
    <3>1. timers' = {locks'[x].staleTimer : x \in DOMAIN locks'}
      BY <1>1, <2>1, <2>5 DEF TimersMatchEntries
    <3>2. \A x \in DOMAIN locks' :
              /\ KeyOf[locks'[x].staleTimer] = x
              /\ pc'[locks'[x].staleTimer] \in {"granted", "holding"}
      BY <1>2, <2>5, <2>7, EntryFacts
    <3> QED
      BY <3>1, <3>2 DEF TimersMatchEntries, HasLock
  <2>9. \A d \in Calls : pc'[d] = "waiting" =>
            KeyOf[d] \in DOMAIN locks' /\ \E i \in DOMAIN locks'[KeyOf[d]].queue :
                locks'[KeyOf[d]].queue[i] = d
    <3> SUFFICES ASSUME NEW d \in Calls, pc'[d] = "waiting"
                 PROVE  KeyOf[d] \in DOMAIN locks'
                        /\ \E i \in DOMAIN locks'[KeyOf[d]].queue :
                              locks'[KeyOf[d]].queue[i] = d
      OBVIOUS
    <3>1. CASE d = c
      BY <1>4, <2>3, <2>5, <3>1
    <3>2. CASE d # c
      <4>1. KeyOf[d] \in DOMAIN locks /\ \E i \in DOMAIN locks[KeyOf[d]].queue :
                locks[KeyOf[d]].queue[i] = d
        BY <1>1, <2>7, <3>2 DEF WaitersQueued, Queued
      <4> QED
        BY <2>3, <2>5, <4>1
    <3> QED
      BY <3>1, <3>2
  <2>10. ASSUME NEW x \in DOMAIN locks', NEW i \in DOMAIN locks'[x].queue,
                NEW j \in DOMAIN locks'[x].queue
         PROVE  /\ pc'[locks'[x].queue[i]] = "waiting"
                /\ KeyOf[locks'[x].queue[i]] = x
                /\ locks'[x].queue[i] = locks'[x].queue[j] => i = j
    <3>1. CASE x = k
      <4>1. \A a, b \in DOMAIN q : q[a] = q[b] => a = b
        BY <1>1, <1>4 DEF WaitersQueued
      <4>2. \A a \in DOMAIN q : q[a] # c
        BY <1>2, <2>2
      <4>3. /\ i \in DOMAIN q \union {Len(q) + 1}
            /\ j \in DOMAIN q \union {Len(q) + 1}
            /\ locks'[x].queue = Append(q, c)
        BY <2>3, <2>5, <3>1
      <4>4. CASE i \in DOMAIN q /\ j \in DOMAIN q
        BY <2>2, <2>3, <2>7, <3>1, <4>1, <4>2, <4>3, <4>4
      <4>5. CASE i \in DOMAIN q /\ j = Len(q) + 1
        BY <2>2, <2>3, <2>7, <3>1, <4>2, <4>3, <4>5
      <4>6. CASE i = Len(q) + 1 /\ j \in DOMAIN q
        BY <2>2, <2>3, <2>7, <3>1, <4>2, <4>3, <4>6
      <4>7. CASE i = Len(q) + 1 /\ j = Len(q) + 1
        BY <2>3, <2>7, <3>1, <4>3, <4>7
      <4> QED
        BY <4>3, <4>4, <4>5, <4>6, <4>7
    <3>2. CASE x # k
      <4>1. x \in DOMAIN locks /\ locks'[x] = locks[x]
        BY <2>5, <3>2
      <4>2. /\ locks[x].queue[i] \in Calls
            /\ pc[locks[x].queue[i]] = "waiting"
            /\ KeyOf[locks[x].queue[i]] = x
        BY <4>1, EntryFacts
      <4>3. locks[x].queue[i] = locks[x].queue[j] => i = j
        BY <1>1, <4>1 DEF WaitersQueued
      <4> QED
        BY <2>7, <4>1, <4>2, <4>3
    <3> QED
      BY <3>1, <3>2
  <2> QED
    BY <2>6, <2>8, <2>9, <2>10 DEF LockInv, WaitersQueued, Queued
<1> QED
  BY <1>3, <1>4

\* Moves of one call that touch neither the map nor the timers and neither
\* enter nor leave the queue.
LEMMA StageLockInv ==
    ASSUME LockInv, NEW c \in Calls, NEW stage \in Stages \ {"waiting"},
           pc' = [pc EXCEPT ![c] = stage], pc[c] # "waiting",
           stage = "holding" \/ KeyOf[c] \notin DOMAIN locks,
           UNCHANGED <<locks, timers, history>>
    PROVE  LockInv'
<1>1. TypeOK /\ TimersMatchEntries /\ WaitersQueued
  BY DEF LockInv
<1>2. \A d \in Calls : pc'[d] = IF d = c THEN stage ELSE pc[d]
  BY <1>1 DEF TypeOK
<1>3. TypeOK'
  BY <1>1 DEF TypeOK, history
<1>4. \A k \in DOMAIN locks : pc'[locks[k].staleTimer] \in {"granted", "holding"}
  <2> SUFFICES ASSUME NEW k \in DOMAIN locks
               PROVE  pc'[locks[k].staleTimer] \in {"granted", "holding"}
    OBVIOUS
  <2>1. /\ locks[k].staleTimer \in Calls /\ KeyOf[locks[k].staleTimer] = k
        /\ pc[locks[k].staleTimer] \in {"granted", "holding"}
    BY EntryFacts
  <2> QED
    BY <1>2, <2>1
<1>5. TimersMatchEntries'
  BY <1>1, <1>4 DEF TimersMatchEntries, HasLock
<1>6. \A d \in Calls : pc'[d] = "waiting" <=> pc[d] = "waiting"
  BY <1>2
<1>7. \A k \in DOMAIN locks : \A i \in DOMAIN locks[k].queue :
          locks[k].queue[i] \in Calls
  BY EntryFacts
<1>8. WaitersQueued'
  BY <1>1, <1>6, <1>7 DEF WaitersQueued, Queued
<1> QED
  BY <1>3, <1>5, <1>8 DEF LockInv

LEMMA NextLockInv == LockInv /\ [Next]_vars => LockInv'
<1> SUFFICES ASSUME LockInv, [Next]_vars PROVE LockInv'
  OBVIOUS
<1>1. TypeOK
  BY DEF LockInv
<1>2. ASSUME NEW c \in Calls, Acquire(c) PROVE LockInv'
  BY <1>2, AcquireLockInv
<1>3. ASSUME NEW c \in Calls, Resume(c) PROVE LockInv'
  BY <1>3, StageLockInv DEF Resume, Stages
<1>4. ASSUME NEW c \in Calls, pc[c] = "holding", ReleaseLock(c) PROVE LockInv'
  <2>1. CASE KeyOf[c] \notin DOMAIN locks
    BY <1>4, <2>1, StageLockInv DEF ReleaseLock, Stages, history
  <2>2. CASE KeyOf[c] \in DOMAIN locks
    <3> DEFINE stages == [pc EXCEPT ![c] = "released"]
    <3>1. /\ stages \in [Calls -> Stages]
          /\ \A d \in Calls : stages[d] = IF d = c THEN "released" ELSE pc[d]
      BY <1>1 DEF TypeOK, Stages
    <3>2. /\ WakeNextOrDelete(KeyOf[c],
                 timers \ {locks[KeyOf[c]].staleTimer}, stages)
      BY <1>4, <2>2 DEF ReleaseLock
    <3>3. expired' \in SUBSET Calls /\ breached' \in SUBSET Keys
      BY <1>1, <1>4, <2>2, KeyAssumption DEF TypeOK, ReleaseLock
    <3> HIDE DEF stages
    <3> QED
      BY <1>4, <2>2, <3>1, <3>2, <3>3, HandOver
  <2> QED
    BY <2>1, <2>2
<1>5. ASSUME NEW c \in Calls, StaleTimer(c) PROVE LockInv'
  <2>1. PICK k \in DOMAIN locks : locks[k].staleTimer = c
    BY <1>5 DEF StaleTimer, LockInv, TimersMatchEntries
  <2>2. KeyOf[c] = k
    BY <2>1, EntryFacts
  <2>3. WakeNextOrDelete(k, timers \ {locks[k].staleTimer}, pc)
    <3>1. {c, locks[k].staleTimer} = {locks[k].staleTimer}
      BY <2>1
    <3> QED
      BY <1>5, <2>2, <3>1 DEF StaleTimer
  <2>4. expired' \in SUBSET Calls /\ breached' \in SUBSET Keys
    BY <1>1, <1>5 DEF TypeOK, StaleTimer
  <2> QED
    BY <1>1, <2>3, <2>4, HandOver DEF TypeOK
<1>6. ASSUME UNCHANGED vars PROVE LockInv'
  BY <1>6 DEF vars, history, LockInv, TypeOK, TimersMatchEntries, WaitersQueued,
              Queued, HasLock
<1> QED
  BY <1>2, <1>3, <1>4, <1>5, <1>6 DEF Next, ReleaseLock

LEMMA LockInvariant == Spec => []LockInv
<1> QED
  BY InitLockInv, NextLockInv, PTL DEF Spec

\* The four variables keep their types, whatever the calls, their keys and
\* their slowness: the Map never holds a malformed entry.
THEOREM LockTypes == Spec => []TypeOK
<1>1. LockInv => TypeOK
  BY DEF LockInv
<1> QED
  BY <1>1, LockInvariant, PTL

\* No release, late release or forced release leaks a stale timer or leaves an
\* entry whose owner is gone.
THEOREM LockTimers == Spec => []TimersMatchEntries
<1>1. LockInv => TimersMatchEntries
  BY DEF LockInv
<1> QED
  BY <1>1, LockInvariant, PTL

\* No waiter is ever lost from, or doubled in, the queue of its key.
THEOREM LockWaiters == Spec => []WaitersQueued
<1>1. LockInv => WaitersQueued
  BY DEF LockInv
<1> QED
  BY <1>1, LockInvariant, PTL

(***************************************************************************)
(* Mutual exclusion among the holders that were not force-released.        *)
(***************************************************************************)

\* A hand-over on key k, ordinary, forced or late, that leaves k to nobody but
\* the next waiter - or leaves it breached.
LEMMA HandOverOwnerInv ==
    ASSUME LockInv, OwnerInv, NEW k \in DOMAIN locks, NEW pending,
           NEW stages \in [Calls -> Stages],
           \A d \in Calls : KeyOf[d] # k => stages[d] = pc[d],
           expired \subseteq expired', breached \subseteq breached',
           \A d \in Calls \ expired' : KeyOf[d] = k /\ k \notin breached' =>
               stages[d] \notin {"granted", "holding"},
           WakeNextOrDelete(k, pending, stages)
    PROVE  OwnerInv'
<1>1. TypeOK
  BY DEF LockInv
<1>2. \A d \in Calls \ expired' :
          KeyOf[d] \notin breached' /\ stages[d] \in {"granted", "holding"} =>
              KeyOf[d] \in DOMAIN locks \ {k} /\ locks[KeyOf[d]].staleTimer = d
  BY DEF OwnerInv, HasLock
<1>3. CASE locks[k].queue # << >>
  <2> DEFINE n == Head(locks[k].queue)
  <2>1. /\ locks' = [locks EXCEPT ![k] = [queue |-> Tail(locks[k].queue),
                                          staleTimer |-> n]]
        /\ pc' = [stages EXCEPT ![n] = "granted"]
    BY <1>3 DEF WakeNextOrDelete
  <2>2. n \in Calls /\ KeyOf[n] = k
    BY <1>3, EntryFacts, TailElements
  <2>3. /\ DOMAIN locks' = DOMAIN locks /\ locks'[k].staleTimer = n
        /\ \A x \in DOMAIN locks \ {k} : locks'[x] = locks[x]
    BY <2>1
  <2>4. \A d \in Calls : pc'[d] = IF d = n THEN "granted" ELSE stages[d]
    BY <2>1
  <2> QED
    BY <1>2, <2>2, <2>3, <2>4 DEF OwnerInv, HasLock
<1>4. CASE locks[k].queue = << >>
  <2>1. locks' = [x \in DOMAIN locks \ {k} |-> locks[x]] /\ pc' = stages
    BY <1>4 DEF WakeNextOrDelete, WithoutEntry
  <2> QED
    BY <1>2, <2>1 DEF OwnerInv, HasLock
<1> QED
  BY <1>3, <1>4

\* The closure of a call that holds: the owner's own release, a late one, or
\* one that finds no entry.
LEMMA ReleaseOwnerInv ==
    ASSUME LockInv, OwnerInv, NEW c \in Calls, pc[c] = "holding", ReleaseLock(c)
    PROVE  OwnerInv'
<1> DEFINE k == KeyOf[c]
           stages == [pc EXCEPT ![c] = "released"]
<1>1. TypeOK /\ expired' = expired /\ breached \subseteq breached'
  BY DEF LockInv, ReleaseLock, vars, history
<1>2. stages \in [Calls -> Stages]
      /\ \A d \in Calls : stages[d] = IF d = c THEN "released" ELSE pc[d]
  BY <1>1 DEF TypeOK, Stages
<1> HIDE DEF stages
<1>3. CASE k \in DOMAIN locks
  <2>1. /\ WakeNextOrDelete(k, timers \ {locks[k].staleTimer}, stages)
        /\ breached' = IF c \in expired THEN breached \union {k} ELSE breached
    BY <1>3 DEF ReleaseLock, stages
  <2>2. k \notin breached' => locks[k].staleTimer = c
    BY <2>1 DEF OwnerInv, HasLock
  <2>3. \A d \in Calls \ expired' : KeyOf[d] = k /\ k \notin breached' =>
            stages[d] \notin {"granted", "holding"}
    BY <1>1, <1>2, <2>2 DEF OwnerInv, HasLock
  <2> QED
    BY <1>1, <1>2, <1>3, <2>1, <2>3, HandOverOwnerInv
<1>4. CASE k \notin DOMAIN locks
  <2>1. pc' = stages /\ locks' = locks /\ breached' = breached
    BY <1>4 DEF ReleaseLock, stages
  <2> QED
    BY <1>1, <1>2, <2>1 DEF OwnerInv, HasLock
<1> QED
  BY <1>3, <1>4

\* Taking a free lock makes the caller its owner; joining a queue does not make
\* it a holder.
LEMMA AcquireOwnerInv ==
    ASSUME LockInv, OwnerInv, NEW c \in Calls, Acquire(c)
    PROVE  OwnerInv'
<1>1. TypeOK /\ expired' = expired /\ breached' = breached
  BY DEF LockInv, Acquire, history
<1>2. CASE KeyOf[c] \notin DOMAIN locks
  <2>1. /\ locks' = WithEntry(KeyOf[c], [queue |-> << >>, staleTimer |-> c])
        /\ pc' = [pc EXCEPT ![c] = "granted"]
    BY <1>2 DEF Acquire
  <2>2. /\ KeyOf[c] \in DOMAIN locks' /\ locks'[KeyOf[c]].staleTimer = c
        /\ \A x \in DOMAIN locks : x \in DOMAIN locks' /\ locks'[x] = locks[x]
    BY <1>2, <2>1 DEF WithEntry
  <2>3. \A d \in Calls : pc'[d] = IF d = c THEN "granted" ELSE pc[d]
    BY <1>1, <2>1 DEF TypeOK
  <2> QED
    BY <1>1, <2>2, <2>3 DEF OwnerInv, HasLock
<1>3. CASE KeyOf[c] \in DOMAIN locks
  <2>1. /\ locks' = [locks EXCEPT ![KeyOf[c]].queue = Append(@, c)]
        /\ pc' = [pc EXCEPT ![c] = "waiting"]
    BY <1>3 DEF Acquire
  <2>2. locks[KeyOf[c]] \in LockEntry
    BY <1>1, <1>3 DEF TypeOK
  <2>3. /\ DOMAIN locks' = DOMAIN locks
        /\ \A x \in DOMAIN locks : locks'[x].staleTimer = locks[x].staleTimer
    BY <1>3, <2>1, <2>2 DEF LockEntry
  <2>4. \A d \in Calls : pc'[d] = IF d = c THEN "waiting" ELSE pc[d]
    BY <1>1, <2>1 DEF TypeOK
  <2> QED
    BY <1>1, <2>3, <2>4 DEF OwnerInv, HasLock
<1> QED
  BY <1>2, <1>3

LEMMA NextOwnerInv ==
    ASSUME LockInv, OwnerInv, [Next]_vars
    PROVE  OwnerInv'
<1>1. TypeOK
  BY DEF LockInv
<1>2. ASSUME NEW c \in Calls, Acquire(c) PROVE OwnerInv'
  BY <1>2, AcquireOwnerInv
<1>3. ASSUME NEW c \in Calls, Resume(c) PROVE OwnerInv'
  BY <1>1, <1>3 DEF Resume, OwnerInv, HasLock, TypeOK, history
<1>4. ASSUME NEW c \in Calls, pc[c] = "holding", ReleaseLock(c) PROVE OwnerInv'
  BY <1>4, ReleaseOwnerInv
<1>5. ASSUME NEW c \in Calls, StaleTimer(c) PROVE OwnerInv'
  <2>1. PICK k \in DOMAIN locks : locks[k].staleTimer = c
    BY <1>5 DEF StaleTimer, LockInv, TimersMatchEntries
  <2>2. KeyOf[c] = k
    BY <2>1, EntryFacts
  <2>3. /\ WakeNextOrDelete(k, timers \ {c, locks[k].staleTimer}, pc)
        /\ expired' = expired \union {c} /\ breached' = breached
    BY <1>5, <2>2 DEF StaleTimer
  <2>4. \A d \in Calls \ expired' : KeyOf[d] = k /\ k \notin breached' =>
            pc[d] \notin {"granted", "holding"}
    BY <2>1, <2>3 DEF OwnerInv, HasLock
  <2>5. pc \in [Calls -> Stages]
    BY <1>1 DEF TypeOK
  <2> QED
    BY <2>3, <2>4, <2>5, HandOverOwnerInv
<1>6. ASSUME UNCHANGED vars PROVE OwnerInv'
  BY <1>6 DEF vars, history, OwnerInv, HasLock
<1> QED
  BY <1>2, <1>3, <1>4, <1>5, <1>6 DEF Next, ReleaseLock

LEMMA OwnerInvariant == Spec => []OwnerInv
<1>1. Init => OwnerInv
  BY DEF Init, OwnerInv, HasLock
<1>2. LockInv /\ OwnerInv /\ [Next]_vars => OwnerInv'
  BY NextOwnerInv
<1> QED
  BY <1>1, <1>2, LockInvariant, PTL DEF Spec

\* "Serializes concurrent submits for the same (userId, venue, symbol) triple"
\* (tradingLock.ts:107) is true of every number of calls and keys, among the
\* holders that were not force-released, until one that was releases late.
THEOREM FreshExclusion == Spec => []MutualExclusion
<1>1. OwnerInv => MutualExclusion
  BY DEF OwnerInv, MutualExclusion
<1> QED
  BY <1>1, OwnerInvariant, PTL

(***************************************************************************)
(* First come, first served, on the keys whose calls are all prompt: the   *)
(* lock implements FifoLock there.  A call enters the line of its key with *)
(* acquireTradingLock and leaves it with its release; the line of a key is *)
(* its entry's owner and the queue behind it.                              *)
(***************************************************************************)

\* Only slow calls are force-released and only their keys are breached.
PromptInv == expired \subseteq SlowCalls /\ breached \intersect PromptKeys = {}

LEMMA PromptInvariant == Spec => []PromptInv
<1>1. Init => PromptInv
  BY DEF Init, PromptInv
<1>2. ASSUME PromptInv, [Next]_vars PROVE PromptInv'
  <2>1. ASSUME NEW c \in Calls, ReleaseLock(c) PROVE PromptInv'
    BY <1>2, <2>1 DEF ReleaseLock, PromptInv, PromptKeys, Prompt, vars, history
  <2>2. ASSUME NEW c \in Calls, Acquire(c) \/ Resume(c) \/ StaleTimer(c) PROVE PromptInv'
    BY <1>2, <2>2 DEF Acquire, Resume, StaleTimer, PromptInv, history
  <2>3. CASE UNCHANGED vars
    BY <1>2, <2>3 DEF PromptInv, vars, history
  <2> QED
    BY <1>2, <2>1, <2>2, <2>3 DEF Next
<1> QED
  BY <1>1, <1>2, PTL DEF Spec

\* An owner in front of a queue.
LEMMA ConsElements ==
    ASSUME NEW S, NEW o \in S, NEW q \in Seq(S)
    PROVE  /\ <<o>> \o q \in Seq(S) /\ <<o>> \o q # << >>
           /\ Head(<<o>> \o q) = o /\ Tail(<<o>> \o q) = q
           /\ \A i \in DOMAIN (<<o>> \o q) :
                 (<<o>> \o q)[i] = o \/ \E j \in DOMAIN q : (<<o>> \o q)[i] = q[j]
<1> DEFINE l == <<o>> \o q
<1>1. <<o>> \in Seq(S) /\ Len(<<o>>) = 1 /\ <<o>>[1] = o /\ Len(q) \in Nat /\ DOMAIN q = 1 .. Len(q)
  BY SMT
<1>2. /\ l \in Seq(S) /\ Len(l) = 1 + Len(q)
      /\ \A i \in 1 .. 1 + Len(q) : l[i] = IF i <= 1 THEN <<o>>[i] ELSE q[i - 1]
  BY <1>1, ConcatProperties
<1> HIDE DEF l
<1>3. l # << >> /\ DOMAIN l = 1 .. 1 + Len(q) /\ Head(l) = l[1] /\ l[1] = o
  BY <1>1, <1>2, SMT
<1>4. \A i \in 1 .. Len(q) : l[i + 1] = q[i]
  BY <1>1, <1>2, SMT
<1>5. Tail(l) = q
  <2>1. Tail(l) \in Seq(S) /\ Len(Tail(l)) = Len(q)
        /\ \A i \in 1 .. Len(Tail(l)) : Tail(l)[i] = l[i + 1]
    BY <1>1, <1>2, <1>3, HeadTailProperties
  <2>2. \A i \in 1 .. Len(Tail(l)) : Tail(l)[i] = q[i]
    BY <1>4, <2>1
  <2> QED
    BY <2>1, <2>2, SeqEqual
<1>6. \A i \in DOMAIN l : l[i] = o \/ \E j \in DOMAIN q : l[i] = q[j]
  <2> SUFFICES ASSUME NEW i \in 1 .. 1 + Len(q), i # 1 PROVE \E j \in DOMAIN q : l[i] = q[j]
    BY <1>3
  <2>1. i - 1 \in DOMAIN q /\ l[i] = q[i - 1]
    BY <1>1, <1>2, SMT
  <2> QED
    BY <2>1
<1> QED
  BY <1>2, <1>3, <1>5, <1>6 DEF l

\* Pushing onto the queue is pushing onto the line.
LEMMA ConsAppend ==
    ASSUME NEW S, NEW o \in S, NEW q \in Seq(S), NEW c \in S
    PROVE  Append(<<o>> \o q, c) = <<o>> \o Append(q, c)
<1> DEFINE l == <<o>> \o q
<1>1. <<o>> \in Seq(S) /\ <<c>> \in Seq(S)
  BY SMT
<1>2. l \in Seq(S)
  BY ConsElements
<1> HIDE DEF l
<1>3. Append(l, c) = l \o <<c>> /\ Append(q, c) = q \o <<c>>
  BY <1>2, AppendIsConcat
<1> QED
  BY <1>1, <1>3, ConcatAssociative DEF l

LEMMA HeadThenTail ==
    ASSUME NEW S, NEW q \in Seq(S), q # << >>
    PROVE  <<Head(q)>> \o Tail(q) = q
<1>1. Len(q) \in Nat \ {0} /\ Head(q) = q[1]
  BY SMT
<1>2. SubSeq(q, 1, Len(q)) = <<q[1]>> \o SubSeq(q, 2, Len(q))
  <2>1. 1 \in 1 .. Len(q) /\ Len(q) \in 1 .. Len(q) /\ 1 + 1 = 2
    BY <1>1
  <2> QED
    BY <2>1, SubSeqRecursiveFirst
<1> QED
  BY <1>1, <1>2, SubSeqFull, TailIsSubSeq

\* A step that leaves the entry of a key alone leaves its line alone.
LEMMA SameEntry ==
    ASSUME NEW x, x \in DOMAIN locks' <=> x \in DOMAIN locks,
           x \in DOMAIN locks => locks'[x] = locks[x]
    PROVE  (lineOf(x))' = lineOf(x)
  BY DEF lineOf

LEMMA HandOverElsewhere ==
    ASSUME NEW k, NEW pending, NEW stages, WakeNextOrDelete(k, pending, stages), NEW x, x # k
    PROVE  (lineOf(x))' = lineOf(x)
  BY SameEntry DEF WakeNextOrDelete, WithoutEntry

\* The hand-over advances the line of its key by its head.
LEMMA HandOverLine ==
    ASSUME LockInv, NEW k \in DOMAIN locks, NEW pending, NEW stages,
           WakeNextOrDelete(k, pending, stages)
    PROVE  /\ lineOf(k) # << >> /\ Head(lineOf(k)) = locks[k].staleTimer
           /\ (lineOf(k))' = Tail(lineOf(k))
<1> DEFINE q == locks[k].queue
           o == locks[k].staleTimer
<1>1. q \in Seq(Calls) /\ o \in Calls
  BY EntryFacts
<1>2. lineOf(k) = <<o>> \o q
  BY DEF lineOf
<1>3. lineOf(k) # << >> /\ Head(lineOf(k)) = o /\ Tail(lineOf(k)) = q
  <2> HIDE DEF q, o
  <2> QED
    BY <1>1, <1>2, ConsElements
<1>4. (lineOf(k))' = q
  <2>1. CASE q # << >>
    <3>1. k \in DOMAIN locks' /\ locks'[k] = [queue |-> Tail(q), staleTimer |-> Head(q)]
      BY <2>1 DEF WakeNextOrDelete
    <3>2. (lineOf(k))' = <<Head(q)>> \o Tail(q)
      BY <3>1 DEF lineOf
    <3> QED
      BY <1>1, <2>1, <3>2, HeadThenTail
  <2>2. CASE q = << >>
    <3>1. k \notin DOMAIN locks'
      BY <2>2 DEF WakeNextOrDelete, WithoutEntry
    <3> QED
      BY <2>2, <3>1 DEF lineOf
  <2> QED
    BY <2>1, <2>2
<1> QED
  BY <1>3, <1>4

\* A call that has not begun joins the line of its key at the back.
LEMMA AcquireLine ==
    ASSUME LockInv, NEW c \in Calls, Acquire(c)
    PROVE  /\ \A i \in DOMAIN lineOf(KeyOf[c]) : lineOf(KeyOf[c])[i] # c
           /\ (lineOf(KeyOf[c]))' = Append(lineOf(KeyOf[c]), c)
           /\ \A x : x # KeyOf[c] => (lineOf(x))' = lineOf(x)
<1> DEFINE k == KeyOf[c]
<1>1. pc[c] = "start"
  BY DEF Acquire
<1>2. CASE k \notin DOMAIN locks
  <2>1. locks' = WithEntry(k, [queue |-> << >>, staleTimer |-> c])
    BY <1>2 DEF Acquire
  <2>2. k \in DOMAIN locks' /\ locks'[k] = [queue |-> << >>, staleTimer |-> c]
    BY <2>1 DEF WithEntry
  <2>3. lineOf(k) = << >> /\ (lineOf(k))' = <<c>> \o << >>
    BY <1>2, <2>2 DEF lineOf
  <2>4. <<c>> \o << >> = <<c>> /\ Append(<< >>, c) = <<c>>
    <3>1. <<c>> \in Seq(Calls)
      BY SMT
    <3> QED
      BY <3>1, ConcatEmptySeq, SMT
  <2>5. \A x : x # k => (lineOf(x))' = lineOf(x)
    BY <2>1, SameEntry DEF WithEntry
  <2> QED
    BY <2>3, <2>4, <2>5
<1>3. CASE k \in DOMAIN locks
  <2> DEFINE q == locks[k].queue
             o == locks[k].staleTimer
  <2>1. /\ q \in Seq(Calls) /\ o \in Calls /\ pc[o] # "start"
        /\ \A i \in DOMAIN q : pc[q[i]] # "start"
    BY <1>3, EntryFacts
  <2>2. locks' = [locks EXCEPT ![k].queue = Append(@, c)]
    BY <1>3 DEF Acquire
  <2>3. locks[k] \in [queue : Seq(Calls), staleTimer : Calls]
    BY <1>3 DEF LockInv, TypeOK, LockEntry
  <2>4. k \in DOMAIN locks' /\ locks'[k].queue = Append(q, c) /\ locks'[k].staleTimer = o
    BY <1>3, <2>2, <2>3
  <2>5. lineOf(k) = <<o>> \o q /\ (lineOf(k))' = <<o>> \o Append(q, c)
    BY <1>3, <2>4 DEF lineOf
  <2>6. \A x : x # k => (lineOf(x))' = lineOf(x)
    BY <2>2, SameEntry
  <2>7. \A i \in DOMAIN lineOf(k) : lineOf(k)[i] # c
    <3> HIDE DEF q, o
    <3>1. \A i \in DOMAIN (<<o>> \o q) :
             (<<o>> \o q)[i] = o \/ \E j \in DOMAIN q : (<<o>> \o q)[i] = q[j]
      BY <2>1, ConsElements
    <3> QED
      BY <1>1, <2>1, <2>5, <3>1
  <2>8. (lineOf(k))' = Append(lineOf(k), c)
    <3> HIDE DEF q, o
    <3>1. Append(<<o>> \o q, c) = <<o>> \o Append(q, c)
      BY <2>1, ConsAppend
    <3> QED
      BY <2>5, <3>1
  <2> QED
    BY <2>6, <2>7, <2>8
<1> QED
  BY <1>2, <1>3

(***************************************************************************)
(* The steps of the line.                                                  *)
(***************************************************************************)

LEMMA LineEnter ==
    ASSUME NEW c \in PromptCalls, KeyOf[c] \in PromptKeys,
           \A i \in DOMAIN lineOf(KeyOf[c]) : lineOf(KeyOf[c])[i] # c,
           (lineOf(KeyOf[c]))' = Append(lineOf(KeyOf[c]), c),
           \A x : x # KeyOf[c] => (lineOf(x))' = lineOf(x)
    PROVE  Line!Enter(c)
  BY DEF Line!Enter

LEMMA LineLeave ==
    ASSUME NEW c \in PromptCalls, KeyOf[c] \in PromptKeys,
           lineOf(KeyOf[c]) # << >>, Head(lineOf(KeyOf[c])) = c,
           (lineOf(KeyOf[c]))' = Tail(lineOf(KeyOf[c])),
           \A x : x # KeyOf[c] => (lineOf(x))' = lineOf(x)
    PROVE  Line!Leave(c)
  BY DEF Line!Leave

\* The line's state, as the mapping gives it.
lines == [k \in PromptKeys |-> lineOf(k)]

LEMMA LineStep ==
    ASSUME LockInv, OwnerInv, PromptInv, [Next]_vars
    PROVE  [Line!Next]_lines
<1>1. ASSUME \A x \in PromptKeys : (lineOf(x))' = lineOf(x) PROVE lines' = lines
  BY <1>1 DEF lines
<1>2. ASSUME NEW c \in Calls, KeyOf[c] \in PromptKeys
      PROVE  c \in PromptCalls /\ c \notin SlowCalls /\ KeyOf[c] \notin breached /\ c \notin expired
  BY <1>2 DEF PromptInv, PromptKeys, PromptCalls, Prompt
<1>3. ASSUME NEW c \in Calls, Acquire(c) PROVE [Line!Next]_lines
  <2>1. CASE KeyOf[c] \in PromptKeys
    BY <1>2, <1>3, <2>1, AcquireLine, LineEnter DEF Line!Next
  <2>2. CASE KeyOf[c] \notin PromptKeys
    BY <1>1, <1>3, <2>2, AcquireLine
  <2> QED
    BY <2>1, <2>2
<1>4. ASSUME NEW c \in Calls, ReleaseLock(c) PROVE [Line!Next]_lines
  <2>1. CASE locks' = locks
    BY <1>1, <2>1, SameEntry
  <2>2. CASE locks' # locks
    <3> DEFINE k == KeyOf[c]
               stages == [pc EXCEPT ![c] = "released"]
               pending == timers \ {locks[k].staleTimer}
    <3>1. k \in DOMAIN locks /\ pc[c] = "holding" /\ WakeNextOrDelete(k, pending, stages)
      BY <1>4, <2>2 DEF ReleaseLock, vars
    <3> HIDE DEF stages, pending
    <3>2. \A x : x # k => (lineOf(x))' = lineOf(x)
      BY <3>1, HandOverElsewhere
    <3>3. CASE k \in PromptKeys
      <4>1. locks[k].staleTimer = c
        BY <1>2, <3>1, <3>3 DEF OwnerInv, HasLock
      <4> QED
        BY <1>2, <3>1, <3>2, <3>3, <4>1, HandOverLine, LineLeave DEF Line!Next
    <3>4. CASE k \notin PromptKeys
      BY <1>1, <3>2, <3>4
    <3> QED
      BY <3>3, <3>4
  <2> QED
    BY <2>1, <2>2
<1>5. ASSUME NEW c \in Calls, StaleTimer(c) PROVE [Line!Next]_lines
  <2>1. KeyOf[c] \notin PromptKeys
    BY <1>2, <1>5 DEF StaleTimer
  <2>2. \A x : x # KeyOf[c] => (lineOf(x))' = lineOf(x)
    BY <1>5, HandOverElsewhere, SameEntry DEF StaleTimer
  <2> QED
    BY <1>1, <2>1, <2>2
<1>6. ASSUME NEW c \in Calls, Resume(c) PROVE [Line!Next]_lines
  BY <1>1, <1>6, SameEntry DEF Resume
<1>7. CASE UNCHANGED vars
  BY <1>1, <1>7, SameEntry DEF vars
<1> QED
  BY <1>3, <1>4, <1>5, <1>6, <1>7 DEF Next

\* Prompt callers get the lock of their key in the order in which they asked for
\* it, whatever the slow callers of the other keys do.
THEOREM LockIsFifo == Spec => FirstComeFirstServed
<1>1. Init => Line!Init
  BY DEF Init, Line!Init, lineOf
<1>2. LockInv /\ OwnerInv /\ PromptInv /\ [Next]_vars => [Line!Next]_lines
  BY LineStep
<1> QED
  BY <1>1, <1>2, LockInvariant, OwnerInvariant, PromptInvariant, PTL
  DEF Spec, FirstComeFirstServed, Line!Spec, lines
=============================================================================
