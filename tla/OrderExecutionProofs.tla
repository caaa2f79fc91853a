------------------------- MODULE OrderExecutionProofs -------------------------
(***************************************************************************)
(* Proofs about the execution of orders, for any requests, ids, keys,      *)
(* probes and venue moves.                                                 *)
(*                                                                         *)
(* First the part that needs nothing: requests for one key are serialized  *)
(* as far as the lock goes, whatever is lost, fails, crashes or times out. *)
(* It rests on the lock's own proofs: a request is where its call of the   *)
(* lock is (StagesMatch), and of the calls of a key that were not          *)
(* force-released at most one has the lock, until one that was releases.   *)
(***************************************************************************)
EXTENDS OrderExecution, TLAPS

LP == INSTANCE TradingLockProofs WITH Calls <- Reqs, SlowCalls <- Slow, pc <- lockPc

\* Where a request is, its call of the lock is.
StagesMatch == \A r \in Reqs :
    /\ stage[r] \in {"probing", "asking", "submitting"} => lockPc[r] = "start"
    /\ stage[r] = "queued" => lockPc[r] \in {"waiting", "granted"}
    /\ stage[r] \in Submitting => lockPc[r] = "holding"
    /\ stage[r] = "done" => lockPc[r] \in {"start", "released"}
    /\ stage[r] = "dead" => lockPc[r] = "released"

OwnTypesOK ==
    /\ stage \in [Reqs -> Stages]
    /\ cid \in [Reqs -> Cids]
    /\ call \in [Reqs -> {"none", "sent", "accepted", "refused"}]
    /\ verdict \in [Reqs -> {"none", "submitted", "rejected", "unknown"}]
    /\ landed \subseteq Reqs
    /\ crashes \in 0 .. MaxCrashes

\* What is about to be written to the ledger is known.
VerdictGiven == \A r \in Reqs : stage[r] = "tracking" => verdict[r] # "none"

LockOK == LP!LockInv /\ LP!OwnerInv

ExecInv == TypeOK /\ OwnTypesOK /\ VerdictGiven /\ LockOK /\ StagesMatch

(***************************************************************************)
(* The lock.                                                               *)
(***************************************************************************)

LEMMA LockConstants == LP!KeyAssumption /\ LP!SlowAssumption
  BY RequestAssumption DEF LP!KeyAssumption, LP!SlowAssumption

\* The two instances of TradingLock are one.
LEMMA SameLock ==
    /\ Lock!TypeOK <=> LP!TypeOK
    /\ Lock!Init <=> LP!Init
    /\ \A r \in Reqs : /\ Lock!Acquire(r) => LP!Acquire(r)
                       /\ Lock!Resume(r) => LP!Resume(r)
                       /\ Lock!ReleaseLock(r) => LP!ReleaseLock(r)
                       /\ Lock!StaleTimer(r) => LP!StaleTimer(r)
<1>1. Lock!TypeOK <=> LP!TypeOK
  BY DEF Lock!TypeOK, LP!TypeOK, Lock!LockEntry, LP!LockEntry, Lock!Stages, LP!Stages
<1>2. Lock!Init <=> LP!Init
  BY DEF Lock!Init, LP!Init
<1>3. ASSUME NEW r \in Reqs, Lock!Acquire(r) PROVE LP!Acquire(r)
  BY <1>3 DEF Lock!Acquire, LP!Acquire, Lock!WithEntry, LP!WithEntry, Lock!history, LP!history
<1>4. ASSUME NEW r \in Reqs, Lock!Resume(r) PROVE LP!Resume(r)
  BY <1>4 DEF Lock!Resume, LP!Resume, Lock!history, LP!history
<1>5. ASSUME NEW r \in Reqs, Lock!ReleaseLock(r) PROVE LP!ReleaseLock(r)
  BY <1>5 DEF Lock!ReleaseLock, LP!ReleaseLock, Lock!vars, LP!vars, Lock!history, LP!history,
     Lock!WakeNextOrDelete, LP!WakeNextOrDelete, Lock!WithoutEntry, LP!WithoutEntry
<1>6. ASSUME NEW r \in Reqs, Lock!StaleTimer(r) PROVE LP!StaleTimer(r)
  BY <1>6 DEF Lock!StaleTimer, LP!StaleTimer, Lock!WakeNextOrDelete, LP!WakeNextOrDelete,
     Lock!WithoutEntry, LP!WithoutEntry
<1> QED
  BY <1>1, <1>2, <1>3, <1>4, <1>5, <1>6

\* What a request and its timer do with the lock keeps it in order.
LEMMA LockStep ==
    ASSUME LockOK, NEW r \in Reqs,
           Lock!Acquire(r) \/ Lock!Resume(r) \/ Lock!ReleaseLock(r) \/ Lock!StaleTimer(r)
    PROVE  LockOK'
<1>1. LP!Acquire(r) \/ LP!Resume(r) \/ LP!ReleaseLock(r) \/ LP!StaleTimer(r)
  BY SameLock
<1>2. [LP!Next]_LP!vars
  BY <1>1 DEF LP!Next
<1>3. LP!LockInv'
  BY <1>2, LockConstants, LP!NextLockInv DEF LockOK
<1>4. LP!OwnerInv'
  BY <1>2, LockConstants, LP!NextOwnerInv DEF LockOK
<1> QED
  BY <1>3, <1>4 DEF LockOK

\* And when nothing is done with it, it stays so.
LEMMA LockStutter ==
    ASSUME LockOK, UNCHANGED lockVars
    PROVE  LockOK'
<1>1. [LP!Next]_LP!vars
  BY DEF lockVars, LP!vars, LP!history
<1>2. LP!LockInv' /\ LP!OwnerInv'
  BY <1>1, LockConstants, LP!NextLockInv, LP!NextOwnerInv DEF LockOK
<1> QED
  BY <1>2 DEF LockOK

\* A hand-over moves, of the calls, at most one, and one that waits.
LEMMA WakeEffect ==
    ASSUME LockOK, NEW k \in DOMAIN locks, NEW pending, NEW stages \in [Reqs -> LP!Stages],
           LP!WakeNextOrDelete(k, pending, stages)
    PROVE  \A q \in Reqs : \/ lockPc'[q] = stages[q]
                           \/ lockPc[q] = "waiting" /\ lockPc'[q] = "granted"
<1> DEFINE queue == locks[k].queue
<1>1. CASE queue = << >>
  BY <1>1 DEF LP!WakeNextOrDelete
<1>2. CASE queue # << >>
  <2>1. queue \in Seq(Reqs) /\ \A i \in DOMAIN queue : lockPc[queue[i]] = "waiting"
    BY LP!EntryFacts, LockConstants DEF LockOK
  <2>2. lockPc' = [stages EXCEPT ![Head(queue)] = "granted"]
    BY <1>2 DEF LP!WakeNextOrDelete
  <2> HIDE DEF queue
  <2>3. Head(queue) \in Reqs /\ lockPc[Head(queue)] = "waiting"
    BY <1>2, <2>1, LP!TailElements
  <2> QED
    BY <2>2, <2>3
<1> QED
  BY <1>1, <1>2

\* So the release closure moves its own call besides,
LEMMA ReleaseEffect ==
    ASSUME LockOK, NEW r \in Reqs, lockPc[r] = "holding", Lock!ReleaseLock(r)
    PROVE  \A q \in Reqs :
              IF q = r THEN lockPc'[q] = "released"
              ELSE lockPc'[q] = lockPc[q] \/ (lockPc[q] = "waiting" /\ lockPc'[q] = "granted")
<1> DEFINE stages == [lockPc EXCEPT ![r] = "released"]
<1>1. stages \in [Reqs -> LP!Stages] /\ \A q \in Reqs :
        stages[q] = IF q = r THEN "released" ELSE lockPc[q]
  BY DEF LockOK, LP!LockInv, LP!TypeOK, LP!Stages
<1>2. LP!ReleaseLock(r)
  BY SameLock
<1>3. \/ lockPc' = stages
      \/ /\ KeyOf[r] \in DOMAIN locks
         /\ LP!WakeNextOrDelete(KeyOf[r], timers \ {locks[KeyOf[r]].staleTimer}, stages)
  BY <1>2 DEF LP!ReleaseLock
<1> HIDE DEF stages
<1>4. \A q \in Reqs : lockPc'[q] = stages[q] \/ (lockPc[q] = "waiting" /\ lockPc'[q] = "granted")
  BY <1>1, <1>3, WakeEffect
<1> QED
  BY <1>1, <1>4

\* and the stale timer none: the caller it was started for does not notice.
LEMMA TimerEffect ==
    ASSUME LockOK, NEW r \in Reqs, Lock!StaleTimer(r)
    PROVE  \A q \in Reqs :
              lockPc'[q] = lockPc[q] \/ (lockPc[q] = "waiting" /\ lockPc'[q] = "granted")
<1>1. lockPc \in [Reqs -> LP!Stages]
  BY DEF LockOK, LP!LockInv, LP!TypeOK
<1>2. \/ lockPc' = lockPc
      \/ /\ KeyOf[r] \in DOMAIN locks
         /\ LP!WakeNextOrDelete(KeyOf[r], timers \ {r, locks[KeyOf[r]].staleTimer}, lockPc)
  BY SameLock DEF LP!StaleTimer
<1> QED
  BY <1>1, <1>2, WakeEffect

(***************************************************************************)
(* The requests and the lock, action by action.                            *)
(***************************************************************************)

\* A request moves without the lock.
LEMMA MoveMatch ==
    ASSUME LockOK, OwnTypesOK, StagesMatch, NEW r \in Reqs, NEW s \in Stages, To(r, s),
           UNCHANGED lockVars,
           \/ {stage[r], s} \subseteq {"probing", "asking", "submitting", "done"} /\ stage[r] # "done"
           \/ {stage[r], s} \subseteq Submitting
    PROVE  LockOK' /\ StagesMatch'
<1>1. LockOK'
  BY LockStutter
<1>2. \A q \in Reqs : stage'[q] = IF q = r THEN s ELSE stage[q]
  BY DEF To, OwnTypesOK
<1>3. lockPc' = lockPc
  BY DEF lockVars
<1> QED
  BY <1>1, <1>2, <1>3 DEF StagesMatch, Submitting

\* The three steps that use the lock.
LEMMA LockingMatch ==
    ASSUME LockOK, OwnTypesOK, StagesMatch, NEW r \in Reqs,
           JoinLock(r) \/ EnterLock(r) \/ Release(r)
    PROVE  LockOK' /\ StagesMatch'
<1>1. LockOK'
  BY LockStep DEF JoinLock, EnterLock, Release
<1>2. lockPc \in [Reqs -> LP!Stages]
  BY DEF LockOK, LP!LockInv, LP!TypeOK
<1>3. ASSUME NEW s, To(r, s)
      PROVE  \A q \in Reqs : stage'[q] = IF q = r THEN s ELSE stage[q]
  BY <1>3 DEF To, OwnTypesOK
<1>4. CASE JoinLock(r)
  <2>1. \A q \in Reqs : stage'[q] = IF q = r THEN "queued" ELSE stage[q]
    BY <1>3, <1>4 DEF JoinLock
  <2>2. \A q \in Reqs : IF q = r THEN lockPc'[q] \in {"waiting", "granted"}
                        ELSE lockPc'[q] = lockPc[q]
    BY <1>2, <1>4, SameLock DEF JoinLock, LP!Acquire
  <2> QED
    BY <1>1, <2>1, <2>2 DEF StagesMatch, Submitting
<1>5. CASE EnterLock(r)
  <2>1. \A q \in Reqs : stage'[q] = IF q = r THEN "holding" ELSE stage[q]
    BY <1>3, <1>5 DEF EnterLock
  <2>2. \A q \in Reqs : lockPc'[q] = IF q = r THEN "holding" ELSE lockPc[q]
    BY <1>2, <1>5, SameLock DEF EnterLock, LP!Resume
  <2> QED
    BY <1>1, <2>1, <2>2 DEF StagesMatch, Submitting
<1>6. CASE Release(r)
  <2>1. stage[r] = "releasing" /\ \A q \in Reqs : stage'[q] = IF q = r THEN "done" ELSE stage[q]
    BY <1>3, <1>6 DEF Release
  <2>2. \A q \in Reqs :
           IF q = r THEN lockPc'[q] = "released"
           ELSE lockPc'[q] = lockPc[q] \/ (lockPc[q] = "waiting" /\ lockPc'[q] = "granted")
    BY <1>6, <2>1, ReleaseEffect DEF Release, StagesMatch, Submitting
  <2>3. \A q \in Reqs : lockPc[q] = "waiting" => stage[q] = "queued"
    BY DEF OwnTypesOK, Stages, StagesMatch, Submitting
  <2> QED
    BY <1>1, <2>1, <2>2, <2>3 DEF StagesMatch, Submitting
<1> QED
  BY <1>4, <1>5, <1>6

\* A step of a request keeps the types of its variables.
LEMMA StepOwnTypes ==
    ASSUME OwnTypesOK, NEW r \in Reqs, Step(r)
    PROVE  OwnTypesOK'
<1>1. ASSUME NEW s \in Stages, To(r, s) PROVE stage' \in [Reqs -> Stages]
  BY <1>1 DEF To, OwnTypesOK
<1>2. {"probing", "asking", "submitting", "queued", "holding", "waiting", "tracking",
       "releasing", "done"} \subseteq Stages
  BY DEF Stages
<1>3. CASE Probe(r)
  BY <1>1, <1>2, <1>3 DEF Probe, OwnTypesOK
<1>4. CASE Decide(r)
  <2>1. cid' \in [Reqs -> Cids]
    BY <1>4, RequestAssumption DEF Decide, OwnTypesOK
  <2> QED
    BY <1>1, <1>2, <1>4, <2>1 DEF Decide, OwnTypesOK
<1>5. CASE JoinLock(r) \/ EnterLock(r) \/ Release(r)
  BY <1>1, <1>2, <1>5 DEF JoinLock, EnterLock, Release, OwnTypesOK
<1>6. CASE Send(r)
  BY <1>1, <1>2, <1>6 DEF Send, OwnTypesOK
<1>7. CASE FailBeforeSend(r) \/ Return(r) \/ LoseAnswer(r) \/ TimeOut(r)
  BY <1>1, <1>2, <1>7 DEF FailBeforeSend, Return, LoseAnswer, TimeOut, OwnTypesOK
<1>8. CASE Track(r)
  BY <1>1, <1>2, <1>8 DEF Track, OwnTypesOK
<1> QED
  BY <1>3, <1>4, <1>5, <1>6, <1>7, <1>8 DEF Step

LEMMA StepMatch ==
    ASSUME LockOK, OwnTypesOK, StagesMatch, NEW r \in Reqs, Step(r)
    PROVE  LockOK' /\ StagesMatch'
<1>1. CASE JoinLock(r) \/ EnterLock(r) \/ Release(r)
  BY <1>1, LockingMatch
<1>2. CASE Probe(r) \/ Decide(r)
  <2>1. PICK s \in {"probing", "asking", "submitting", "done"} : To(r, s)
    BY <1>2 DEF Probe, Decide
  <2>2. stage[r] \in {"probing", "asking"} /\ UNCHANGED lockVars
    BY <1>2 DEF Probe, Decide
  <2> QED
    BY <2>1, <2>2, MoveMatch DEF Stages
<1>3. CASE FailBeforeSend(r) \/ Send(r) \/ Return(r) \/ LoseAnswer(r) \/ TimeOut(r) \/ Track(r)
  <2>1. PICK s \in Submitting : To(r, s)
    BY <1>3 DEF FailBeforeSend, Send, Return, LoseAnswer, TimeOut, Track, Submitting
  <2>2. stage[r] \in Submitting /\ UNCHANGED lockVars
    BY <1>3 DEF FailBeforeSend, Send, Return, LoseAnswer, TimeOut, Track, Submitting
  <2> QED
    BY <2>1, <2>2, MoveMatch DEF Stages, Submitting
<1> QED
  BY <1>1, <1>2, <1>3 DEF Step

\* A request whose turn comes with somebody's timer was queued.
LEMMA TimerMatch ==
    ASSUME LockOK, OwnTypesOK, StagesMatch, NEW r \in Reqs, StaleTimer(r)
    PROVE  LockOK' /\ StagesMatch'
<1>1. LockOK' /\ stage' = stage
  BY LockStep DEF StaleTimer, execVars
<1>2. \A q \in Reqs :
         lockPc'[q] = lockPc[q] \/ (lockPc[q] = "waiting" /\ lockPc'[q] = "granted")
  BY TimerEffect DEF StaleTimer
<1>3. \A q \in Reqs : lockPc[q] = "waiting" => stage[q] = "queued"
  BY DEF OwnTypesOK, Stages, StagesMatch, Submitting
<1> QED
  BY <1>1, <1>2, <1>3 DEF StagesMatch, Submitting

\* After a crash nothing waits for or has a lock.
LEMMA CrashMatch ==
    ASSUME LockOK, OwnTypesOK, StagesMatch, Crash
    PROVE  LockOK' /\ StagesMatch' /\ OwnTypesOK'
<1> DEFINE lives(r) == stage[r] = "done" \/ (stage[r] = "probing" /\ cid[r] = CidOf[r])
<1>1. /\ stage' = [r \in Reqs |-> IF lives(r) THEN stage[r] ELSE "dead"]
      /\ lockPc' = [r \in Reqs |-> IF lives(r) THEN lockPc[r] ELSE "released"]
      /\ locks' = [k \in {} |-> {}] /\ timers' = {}
      /\ UNCHANGED <<cid, call, verdict, landed, expired>> /\ breached' = {}
      /\ crashes < MaxCrashes /\ crashes' = crashes + 1
  BY DEF Crash
<1>2. \A r \in Reqs : lockPc'[r] \in {"start", "released"}
  BY <1>1 DEF StagesMatch
<1>3. StagesMatch'
  BY <1>1 DEF StagesMatch, Submitting
<1>4. OwnTypesOK'
  <2>1. stage' \in [Reqs -> Stages]
    BY <1>1 DEF OwnTypesOK, Stages
  <2>2. crashes' \in 0 .. MaxCrashes
    BY <1>1, EnvironmentAssumption DEF OwnTypesOK
  <2> QED
    BY <1>1, <2>1, <2>2 DEF OwnTypesOK
<1>5. DOMAIN locks' = {} /\ expired' \subseteq Reqs /\ breached' = {}
  BY <1>1 DEF LockOK, LP!LockInv, LP!TypeOK
<1>6. LP!TypeOK'
  <2>1. lockPc' \in [Reqs -> LP!Stages]
    BY <1>1, <1>2 DEF LP!Stages
  <2>2. locks' \in [DOMAIN locks' -> LP!LockEntry]
    BY <1>1, <1>5
  <2> QED
    BY <1>1, <1>5, <2>1, <2>2 DEF LP!TypeOK
<1>7. LP!TimersMatchEntries' /\ LP!WaitersQueued'
  BY <1>1, <1>2, <1>5 DEF LP!TimersMatchEntries, LP!WaitersQueued
<1>8. LP!OwnerInv'
  BY <1>2 DEF LP!OwnerInv, LP!HasLock
<1> QED
  BY <1>3, <1>4, <1>5, <1>6, <1>7, <1>8 DEF LockOK, LP!LockInv

(***************************************************************************)
(* The ledger's and the venue's types.                                     *)
(***************************************************************************)

\* What the streams and the poller do keeps them.
LEMMA ReconTypes ==
    ASSUME TypeOK, ReconNext
    PROVE  TypeOK'
<1>1. \A s \in VenueStatuses : BINANCE_STATUS_MAP[s] \in PendingOrderState
  BY DEF BINANCE_STATUS_MAP, VenueStatuses, ClosedStatuses, PendingOrderState
<1>2. idle \in ProbeType
  BY DEF ProbeType
<1>3. ASSUME NEW c \in Cids, NEW s \in PendingOrderState, UpdateOrderState(c, s)
      PROVE  ledger' \in [Cids -> PendingOrderState \union {"absent"}]
  BY <1>3 DEF UpdateOrderState, TypeOK
<1>4. ASSUME NEW c \in Cids, NEW s \in Moves, VenueMoves(c, s) PROVE TypeOK'
  <2>1. s \in VenueStatuses /\ venue' \in [Cids -> VenueStatuses \union {"none"}]
    BY <1>4, MovesAssumption DEF VenueMoves, TypeOK
  <2>2. wire' \subseteq Transitions
    BY <1>1, <1>4, <2>1 DEF VenueMoves, Report, TypeOK, Transitions
  <2> QED
    BY <1>4, <2>1, <2>2 DEF VenueMoves, TypeOK
<1>5. ASSUME NEW t \in wire, Deliver(t) \/ Lose(t) PROVE TypeOK'
  <2>1. t[1] \in Cids /\ t[2] \in PendingOrderState /\ <<t[1], t[2]>> \in Transitions
    BY DEF TypeOK, Transitions
  <2>2. ledger' \in [Cids -> PendingOrderState \union {"absent"}] /\ announced' \subseteq Transitions
    BY <1>3, <1>5, <2>1 DEF Deliver, Lose, HandleTransition, TypeOK
  <2> QED
    BY <1>5, <2>2 DEF Deliver, Lose, TypeOK
<1>6. ASSUME NEW p \in Probes, Query(p) \/ NotFound(p) PROVE TypeOK'
  <2>1. CASE Query(p)
    <3>1. probe[p].cid \in Cids /\ venue[probe[p].cid] \in VenueStatuses
      BY <2>1 DEF Query, TypeOK, ProbeType, idle
    <3>2. [stage |-> "write", cid |-> probe[p].cid,
           state |-> BINANCE_STATUS_MAP[venue[probe[p].cid]]] \in ProbeType
      BY <1>1, <3>1 DEF ProbeType
    <3> QED
      BY <2>1, <3>2 DEF Query, TypeOK
  <2>2. CASE NotFound(p)
    BY <1>2, <2>2 DEF NotFound, TypeOK
  <2> QED
    BY <1>6, <2>1, <2>2
<1>7. ASSUME NEW p \in Probes, WriteBack(p) \/ Announce(p) PROVE TypeOK'
  <2>1. probe[p] \in [stage : {"write", "announce"}, cid : Cids, state : PendingOrderState]
    BY <1>7 DEF WriteBack, Announce, TypeOK, ProbeType, idle
  <2>2. /\ ledger' \in [Cids -> PendingOrderState \union {"absent"}]
        /\ announced' \subseteq Transitions
    BY <1>3, <1>7, <2>1 DEF WriteBack, Announce, HandleTransition, TypeOK, Transitions
  <2>3. [probe[p] EXCEPT !.stage = "announce"] \in ProbeType
    BY <2>1 DEF ProbeType
  <2> QED
    BY <1>2, <1>7, <2>2, <2>3 DEF WriteBack, Announce, TypeOK
<1>8. ASSUME NEW S \in SUBSET Probes, GiveUp(S) PROVE TypeOK'
  BY <1>2, <1>8 DEF GiveUp, TypeOK
<1>9. ASSUME NEW S \in SUBSET Probes, NEW row \in [S -> StaleSubmittedOrders], Select(S, row)
      PROVE  TypeOK'
  <2>1. \A p \in S : [stage |-> "query", cid |-> row[p]] \in ProbeType
    BY DEF ProbeType, StaleSubmittedOrders
  <2>2. probe' \in [Probes -> ProbeType]
    BY <1>9, <2>1 DEF Select, TypeOK
  <2> QED
    BY <1>9, <2>2 DEF Select, TypeOK
<1> QED
  BY <1>4, <1>5, <1>6, <1>7, <1>8, <1>9 DEF ReconNext

\* And so does what the requests and the venue do.
LEMMA StepReconTypes ==
    ASSUME TypeOK, OwnTypesOK, VerdictGiven, NEW r \in Reqs, Step(r)
    PROVE  TypeOK'
<1>1. CASE UNCHANGED reconVars
  BY <1>1 DEF reconVars, TypeOK
<1>2. CASE Track(r)
  <2>1. cid[r] \in Cids /\ verdict[r] \in PendingOrderState
    BY <1>2 DEF Track, OwnTypesOK, VerdictGiven, PendingOrderState
  <2>2. ledger' \in [Cids -> PendingOrderState \union {"absent"}]
    BY <1>2, <2>1 DEF Track, UpsertPendingOrder, TypeOK
  <2> QED
    BY <1>2, <2>2 DEF Track, TypeOK
<1> QED
  BY <1>1, <1>2 DEF Step, Probe, Decide, JoinLock, EnterLock, FailBeforeSend, Send, Return,
     LoseAnswer, TimeOut, Release

LEMMA AnswerTypes ==
    ASSUME TypeOK, OwnTypesOK, NEW r \in Reqs, VenueAnswers(r)
    PROVE  TypeOK' /\ OwnTypesOK'
<1>1. OwnTypesOK'
  BY DEF VenueAnswers, OwnTypesOK
<1>2. CASE VenueAccepts(cid[r]) /\ UNCHANGED <<ledger, probe, announced>>
  <2>1. cid[r] \in Cids /\ "NEW" \in VenueStatuses
    BY DEF OwnTypesOK, VenueStatuses
  <2>2. <<cid[r], BINANCE_STATUS_MAP["NEW"]>> \in Transitions
    BY <2>1 DEF BINANCE_STATUS_MAP, Transitions, PendingOrderState
  <2>3. wire' \subseteq Transitions
    BY <1>2, <2>2 DEF VenueAccepts, Report, TypeOK
  <2>4. venue' \in [Cids -> VenueStatuses \union {"none"}]
    BY <1>2, <2>1 DEF VenueAccepts, TypeOK
  <2> QED
    BY <1>1, <1>2, <2>3, <2>4 DEF TypeOK
<1>3. CASE UNCHANGED reconVars
  BY <1>1, <1>3 DEF reconVars, TypeOK
<1> QED
  BY <1>2, <1>3 DEF VenueAnswers

LEMMA StepVerdict ==
    ASSUME OwnTypesOK, VerdictGiven, NEW r \in Reqs, Step(r)
    PROVE  VerdictGiven'
<1>1. ASSUME NEW s, To(r, s), s # "tracking", verdict' = verdict PROVE VerdictGiven'
  BY <1>1 DEF To, OwnTypesOK, VerdictGiven
<1>2. ASSUME To(r, "tracking"), NEW v, verdict' = [verdict EXCEPT ![r] = v], v # "none"
      PROVE  VerdictGiven'
  BY <1>2 DEF To, OwnTypesOK, VerdictGiven
<1>3. CASE Probe(r) \/ Decide(r) \/ JoinLock(r) \/ EnterLock(r) \/ Send(r) \/ Track(r) \/ Release(r)
  BY <1>1, <1>3 DEF Probe, Decide, JoinLock, EnterLock, Send, Track, Release
<1>4. CASE FailBeforeSend(r) \/ Return(r) \/ LoseAnswer(r) \/ TimeOut(r)
  BY <1>2, <1>4 DEF FailBeforeSend, Return, LoseAnswer, TimeOut
<1> QED
  BY <1>3, <1>4 DEF Step

(***************************************************************************)
(* The invariant.                                                          *)
(***************************************************************************)

LEMMA InitExecInv == InitExec => ExecInv
<1> SUFFICES ASSUME InitExec PROVE ExecInv
  OBVIOUS
<1>1. TypeOK
  BY DEF InitExec, ReconInit, LedgerInit, TypeOK, ProbeType
<1>2. OwnTypesOK /\ VerdictGiven
  BY RequestAssumption, EnvironmentAssumption DEF InitExec, OwnTypesOK, VerdictGiven, Stages
<1>3. LP!Init
  BY SameLock DEF InitExec
<1>4. LP!LockInv /\ LP!OwnerInv
  BY <1>3, LockConstants, LP!InitLockInv DEF LP!OwnerInv, LP!Init, LP!HasLock
<1>5. StagesMatch
  BY <1>3 DEF InitExec, LP!Init, StagesMatch, Submitting
<1> QED
  BY <1>1, <1>2, <1>4, <1>5 DEF ExecInv, LockOK

LEMMA NextExecInv == ExecInv /\ [NextExec]_vars => ExecInv'
<1> SUFFICES ASSUME ExecInv, [NextExec]_vars PROVE ExecInv'
  OBVIOUS
<1>1. TypeOK /\ OwnTypesOK /\ VerdictGiven /\ LockOK /\ StagesMatch
  BY DEF ExecInv
<1>2. ASSUME NEW r \in Reqs, Step(r) PROVE ExecInv'
  BY <1>1, <1>2, StepReconTypes, StepOwnTypes, StepVerdict, StepMatch DEF ExecInv
<1>3. ASSUME NEW r \in Reqs, VenueAnswers(r) PROVE ExecInv'
  <2>1. LockOK'
    BY <1>1, <1>3, LockStutter DEF VenueAnswers
  <2>2. StagesMatch' /\ VerdictGiven'
    BY <1>1, <1>3 DEF VenueAnswers, StagesMatch, VerdictGiven, lockVars
  <2> QED
    BY <1>1, <1>3, <2>1, <2>2, AnswerTypes DEF ExecInv
<1>4. ASSUME UNCHANGED <<execVars, lockVars>>
      PROVE  OwnTypesOK' /\ VerdictGiven' /\ LockOK' /\ StagesMatch'
  <2>1. LockOK'
    BY <1>1, <1>4, LockStutter
  <2> QED
    BY <1>1, <1>4, <2>1 DEF execVars, lockVars, OwnTypesOK, VerdictGiven, StagesMatch
<1>5. CASE ReconNext /\ UNCHANGED <<execVars, lockVars>>
  BY <1>1, <1>4, <1>5, ReconTypes DEF ExecInv
<1>6. CASE Crash
  <2>1. TypeOK'
    BY <1>1, <1>6 DEF Crash, TypeOK, ProbeType
  <2>2. VerdictGiven'
    BY <1>1, <1>6 DEF Crash, VerdictGiven
  <2> QED
    BY <1>1, <1>6, <2>1, <2>2, CrashMatch DEF ExecInv
<1>7. CASE UNCHANGED vars
  BY <1>1, <1>4, <1>7 DEF vars, reconVars, TypeOK, ExecInv
<1>8. ASSUME NEW r \in Reqs, StaleTimer(r) PROVE ExecInv'
  <2>1. TypeOK' /\ OwnTypesOK' /\ VerdictGiven'
    BY <1>1, <1>8 DEF StaleTimer, execVars, reconVars, TypeOK, OwnTypesOK, VerdictGiven
  <2> QED
    BY <1>1, <1>8, <2>1, TimerMatch DEF ExecInv
<1> QED
  BY <1>2, <1>3, <1>5, <1>6, <1>7, <1>8 DEF NextExec

LEMMA ExecInvariant == SpecExec => []ExecInv
  BY InitExecInv, NextExecInv, PTL DEF SpecExec

\* The ledger, the lock and the requests keep their types, whatever requests
\* overlap, get lost, time out or die in a crash.
THEOREM ExecTypes == SpecExec => []ExecTypeOK
<1>1. ExecInv => ExecTypeOK
  BY SameLock DEF ExecInv, LockOK, LP!LockInv, OwnTypesOK, ExecTypeOK
<1> QED
  BY <1>1, ExecInvariant, PTL

\* Venue call and ledger write of the requests for one key do not overlap, of any
\* number of them and with any of them timing out, but for those that lost the lock
\* to their stale timer and until one of these releases: with lost answers, failing
\* ledger calls and crashes.
THEOREM Serialized == SpecExec => []SubmitsSerialized
<1>1. ExecInv => SubmitsSerialized
  <2> SUFFICES ASSUME ExecInv, NEW q \in Reqs \ expired, NEW r \in Reqs \ expired,
                      stage[q] \in Submitting, stage[r] \in Submitting,
                      KeyOf[q] = KeyOf[r], KeyOf[q] \notin breached
               PROVE  q = r
    BY DEF SubmitsSerialized
  <2>1. lockPc[q] = "holding" /\ lockPc[r] = "holding"
    BY DEF ExecInv, StagesMatch
  <2> QED
    BY <2>1 DEF ExecInv, LockOK, LP!OwnerInv, LP!HasLock
<1> QED
  BY <1>1, ExecInvariant, PTL

\* To the lock the requests are nothing but its calls: whatever they meet, they
\* acquire, resume and release, the slow ones are force-released, and the process's
\* death alone does otherwise.
LEMMA NextUsesLock == ExecInv /\ [NextExec]_vars => [LP!Next]_LP!vars \/ Crash
<1> SUFFICES ASSUME ExecInv, [NextExec]_vars, ~Crash PROVE [LP!Next]_LP!vars
  OBVIOUS
<1>1. ASSUME UNCHANGED lockVars PROVE UNCHANGED LP!vars
  BY <1>1 DEF lockVars, LP!vars, LP!history
<1>2. ASSUME NEW r \in Reqs, Step(r) PROVE [LP!Next]_LP!vars
  <2>1. CASE JoinLock(r) \/ EnterLock(r) \/ Release(r)
    BY <2>1, SameLock DEF JoinLock, EnterLock, Release, LP!Next
  <2>2. CASE \/ Probe(r) \/ Decide(r) \/ FailBeforeSend(r) \/ Send(r) \/ Return(r)
             \/ LoseAnswer(r) \/ TimeOut(r) \/ Track(r)
    BY <1>1, <2>2 DEF Probe, Decide, FailBeforeSend, Send, Return, LoseAnswer, TimeOut, Track
  <2> QED
    BY <1>2, <2>1, <2>2 DEF Step
<1>3. ASSUME NEW r \in Reqs, VenueAnswers(r) PROVE UNCHANGED lockVars
  BY <1>3 DEF VenueAnswers
<1>4. ASSUME NEW r \in Reqs, StaleTimer(r) PROVE [LP!Next]_LP!vars
  BY <1>4, SameLock DEF StaleTimer, LP!Next
<1> QED
  BY <1>1, <1>2, <1>3, <1>4 DEF NextExec, vars

\* While the process lives, the execution implements the lock's specification, the
\* requests that may outlast the lock's TTL (all of them, if need be) being its slow
\* calls.
THEOREM RequestsCallTheLock ==
    ASSUME MaxCrashes = 0
    PROVE  SpecExec => LP!Spec
<1>1. InitExec => LP!Init
  BY SameLock DEF InitExec
<1>2. ASSUME ExecInv, [NextExec]_vars PROVE [LP!Next]_LP!vars
  <2>1. ~Crash
    BY <1>2 DEF ExecInv, OwnTypesOK, Crash
  <2> QED
    BY <1>2, <2>1, NextUsesLock
<1> QED
  BY <1>1, <1>2, ExecInvariant, PTL DEF SpecExec, LP!Spec

\* And so, on a key none of whose requests outlasts the lock's TTL, they get the lock
\* in the order in which they asked for it, whatever answers and ledger writes fail
\* in between and whatever times out on the other keys.
THEOREM ServedInTurn ==
    ASSUME MaxCrashes = 0
    PROVE  SpecExec => LP!FirstComeFirstServed
  BY RequestsCallTheLock, LP!LockIsFifo, LockConstants, PTL

(***************************************************************************)
(* What the order's row and the venue's order are worth, each under no     *)
(* more than it needs.  A request is under way from the gate to its ledger *)
(* write.  While repeated intents take turns, the row of a request under   *)
(* way is absent and its id is its own (FirstOfId); while the ledger works *)
(* and the process lives, whatever was sent has a row (SentHasRow).  The   *)
(* two together make a sent id unique.                                     *)
(***************************************************************************)

\* Requests with one client_order_id do not overlap, and the ledger works.
Gated == ~Overlap /\ ~LedgerFaults
\* The ledger works and the process does not crash.
Kept == ~LedgerFaults /\ MaxCrashes = 0
\* The venue's answer arrives, or the action times out; and the venue rejects
\* nothing it has accepted.
Answered == ~LostAnswers /\ "REJECTED" \notin Moves

Underway == {"submitting", "queued", "holding", "waiting", "tracking"}

FirstOfId == \A r \in Reqs : stage[r] \in Underway =>
    /\ ledger[cid[r]] = "absent"
    /\ \A q \in Reqs \ {r} : stage[q] \in Underway => cid[q] # cid[r]

CallsBegun == \A r \in Reqs :
    /\ call[r] # "none" => stage[r] \notin {"probing", "asking", "submitting", "queued", "holding"}
    /\ r \in landed => call[r] = "accepted"

SentHasRow == \A r \in Reqs :
    call[r] # "none" /\ stage[r] \notin {"waiting", "tracking"} => ledger[cid[r]] # "absent"

SentOnce == \A q, r \in Reqs :
    call[q] # "none" /\ call[r] # "none" /\ cid[q] = cid[r] => q = r

VerdictsTrue == \A r \in Reqs :
    stage[r] = "tracking" /\ verdict[r] = "rejected" => call[r] \in {"none", "refused"}
RejectionsTrue == \A r \in Reqs :
    call[r] \in {"sent", "accepted"} => ledger[cid[r]] # "rejected"
NobodyRejects ==
    /\ \A c \in Cids : venue[c] # "REJECTED"
    /\ \A t \in wire : t[2] # "rejected"
    /\ \A p \in Probes : probe[p].stage \in {"write", "announce"} => probe[p].state # "rejected"

(***************************************************************************)
(* What each step leaves alone.                                            *)
(***************************************************************************)

\* A request moves for itself.
LEMMA OthersRest ==
    ASSUME OwnTypesOK, NEW r \in Reqs, Step(r) \/ VenueAnswers(r), NEW q \in Reqs \ {r}
    PROVE  /\ stage'[q] = stage[q] /\ cid'[q] = cid[q]
           /\ call'[q] = call[q] /\ verdict'[q] = verdict[q]
           /\ q \in landed' <=> q \in landed
  BY DEF Step, Probe, Decide, JoinLock, EnterLock, FailBeforeSend, Send, Return, LoseAnswer,
     TimeOut, Track, Release, To, OwnTypesOK, VenueAnswers

\* Where it goes: it gets under way by the probe alone, it is sent by Send
\* alone, and it keeps its id once it is under way.
LEMMA OwnMove ==
    ASSUME OwnTypesOK, NEW r \in Reqs, Step(r)
    PROVE  /\ stage'[r] \in Underway => stage[r] \in Underway \/ Probe(r)
           /\ ~Send(r) => call'[r] = call[r]
           /\ landed' = landed
           /\ ~Track(r) => ledger' = ledger
           /\ ~Decide(r) => cid'[r] = cid[r]
           /\ Decide(r) => stage[r] = "asking" /\ stage'[r] \in {"probing", "done"}
<1>1. ASSUME NEW s, To(r, s) PROVE stage'[r] = s
  BY <1>1 DEF To, OwnTypesOK
<1>2. CASE Probe(r)
  BY <1>1, <1>2 DEF Probe, Decide, reconVars
<1>3. CASE Decide(r)
  BY <1>1, <1>3 DEF Decide, reconVars, Underway
<1>4. CASE JoinLock(r) \/ EnterLock(r) \/ FailBeforeSend(r) \/ Send(r) \/ Return(r)
           \/ LoseAnswer(r) \/ TimeOut(r)
  BY <1>1, <1>4 DEF JoinLock, EnterLock, FailBeforeSend, Send, Return, LoseAnswer, TimeOut,
     Decide, reconVars, Underway
<1>5. CASE Track(r) \/ Release(r)
  BY <1>1, <1>5 DEF Track, Release, Decide, reconVars, Underway
<1> QED
  BY <1>2, <1>3, <1>4, <1>5 DEF Step

\* Updates neither open nor drop rows, nor change settled ones.
RowsRest == \A c \in Cids :
    /\ ledger'[c] = "absent" <=> ledger[c] = "absent"
    /\ ledger[c] \in TERMINAL_STATES => ledger'[c] = ledger[c]

LEMMA UpdateRests ==
    ASSUME TypeOK, NEW c \in Cids, NEW s \in PendingOrderState, UpdateOrderState(c, s)
    PROVE  RowsRest /\ \A d \in Cids : ledger'[d] \in {ledger[d], s}
<1>1. \A d \in Cids : ledger'[d] = IF d = c /\ Updatable(c) THEN s ELSE ledger[d]
  BY DEF UpdateOrderState, TypeOK
<1>2. s # "absent"
  BY DEF PendingOrderState
<1> QED
  BY <1>1, <1>2 DEF Updatable, RowsRest

LEMMA ReconRests ==
    ASSUME TypeOK, ReconNext
    PROVE  RowsRest
<1>1. ASSUME NEW t \in wire, Deliver(t) PROVE RowsRest
  <2>1. t[1] \in Cids /\ t[2] \in PendingOrderState
    BY DEF TypeOK, Transitions
  <2> QED
    BY <1>1, <2>1, UpdateRests DEF Deliver, HandleTransition
<1>2. ASSUME NEW p \in Probes, WriteBack(p) \/ Announce(p) PROVE RowsRest
  <2>1. probe[p] \in [stage : {"write", "announce"}, cid : Cids, state : PendingOrderState]
    BY <1>2 DEF WriteBack, Announce, TypeOK, ProbeType, idle
  <2> QED
    BY <1>2, <2>1, UpdateRests DEF WriteBack, Announce, HandleTransition
<1>3. ledger' = ledger \/ (\E t \in wire : Deliver(t))
      \/ (\E p \in Probes : WriteBack(p) \/ Announce(p))
  BY DEF ReconNext, VenueMoves, Lose, Query, NotFound, GiveUp, Select
<1> QED
  BY <1>1, <1>2, <1>3 DEF RowsRest

\* Of all steps, only a ledger write opens a row, and then its request's own.
LEMMA LedgerStep ==
    ASSUME ExecInv, [NextExec]_vars, \A r \in Reqs : ~Track(r)
    PROVE  RowsRest
<1>1. ASSUME NEW r \in Reqs, Step(r) PROVE ledger' = ledger
  BY <1>1, OwnMove DEF ExecInv
<1>2. CASE ReconNext
  BY <1>2, ReconRests DEF ExecInv
<1>3. CASE UNCHANGED vars \/ Crash \/ \E r \in Reqs : VenueAnswers(r) \/ StaleTimer(r)
  BY <1>3 DEF vars, reconVars, Crash, VenueAnswers, StaleTimer, RowsRest
<1> QED
  BY <1>1, <1>2, <1>3 DEF NextExec, RowsRest

LEMMA TrackWrites ==
    ASSUME ExecInv, ~LedgerFaults, NEW r \in Reqs, Track(r)
    PROVE  /\ stage[r] = "tracking" /\ stage' = [stage EXCEPT ![r] = "releasing"]
           /\ cid[r] \in Cids /\ verdict[r] \notin {"none", "absent"}
           /\ \A c \in Cids : ledger'[c] = IF c = cid[r] THEN verdict[r] ELSE ledger[c]
           /\ UNCHANGED <<cid, call, verdict, landed, venue, wire, probe>>
<1>1. cid[r] \in Cids /\ verdict[r] \notin {"none", "absent"}
  BY DEF Track, ExecInv, OwnTypesOK, VerdictGiven
<1> QED
  BY <1>1 DEF Track, To, UpsertPendingOrder, ExecInv, TypeOK

\* A step that leaves every request and call where it is.
LEMMA RequestsRest ==
    ASSUME [NextExec]_vars, \A r \in Reqs : ~Step(r) /\ ~VenueAnswers(r), ~Crash
    PROVE  UNCHANGED <<stage, cid, call, verdict, landed>>
  BY DEF NextExec, vars, execVars, StaleTimer

(***************************************************************************)
(* The gate: the request that passes it is the first with its id, through  *)
(* lost answers and crashes.                                               *)
(***************************************************************************)

LEMMA FirstOfIdStep ==
    ASSUME Gated, ExecInv, FirstOfId, [NextExec]_vars
    PROVE  FirstOfId'
<1>1. OwnTypesOK /\ TypeOK
  BY DEF ExecInv
<1>2. ASSUME NEW r \in Reqs, Probe(r) PROVE FirstOfId'
  <2>1. /\ stage[r] = "probing" /\ UNCHANGED <<cid, ledger>>
        /\ \A q \in Reqs \ {r} : stage'[q] = stage[q]
    BY <1>1, <1>2 DEF Probe, To, OwnTypesOK, reconVars
  <2>2. ASSUME stage'[r] \in Underway
        PROVE  /\ ledger[cid[r]] = "absent"
               /\ \A q \in Reqs \ {r} : stage[q] \in Underway => cid[q] # cid[r]
    <3>1. CheckExistingOrder(cid[r]) = "new"
      BY <1>1, <1>2, <2>2 DEF Gated, Probe, To, OwnTypesOK, Underway
    <3>2. ledger[cid[r]] = "absent"
      BY <1>1, <3>1
      DEF OwnTypesOK, TypeOK, CheckExistingOrder, PendingOrderState, NON_TERMINAL_STATES, TERMINAL_STATES
    <3>3. \A q \in Reqs \ {r} : stage[q] \in Underway => cid[q] # cid[r]
      BY <1>2 DEF Gated, Probe, Turn, Underway
    <3> QED
      BY <3>2, <3>3
  <2> QED
    BY <2>1, <2>2 DEF FirstOfId
<1>3. ASSUME NEW r \in Reqs, Track(r) PROVE FirstOfId'
  <2>1. /\ stage[r] \in Underway /\ stage'[r] \notin Underway /\ cid' = cid
        /\ \A q \in Reqs \ {r} : stage'[q] = stage[q]
        /\ \A c \in Cids : ledger'[c] = IF c = cid[r] THEN verdict[r] ELSE ledger[c]
    BY <1>1, <1>3, TrackWrites DEF Gated, Underway, OwnTypesOK
  <2> QED
    BY <1>1, <2>1 DEF FirstOfId, OwnTypesOK
<1>4. ASSUME NEW r \in Reqs, Step(r), ~Probe(r), ~Track(r) PROVE FirstOfId'
  <2>1. /\ ledger' = ledger
        /\ stage'[r] \in Underway => stage[r] \in Underway /\ cid'[r] = cid[r]
        /\ \A q \in Reqs \ {r} : stage'[q] = stage[q] /\ cid'[q] = cid[q]
    BY <1>1, <1>4, OwnMove, OthersRest DEF Underway
  <2> QED
    BY <2>1 DEF FirstOfId
<1>5. ASSUME \A r \in Reqs : ~Step(r) PROVE FirstOfId'
  <2>1. RowsRest
    BY <1>5, LedgerStep DEF Step
  <2>2. \A r \in Reqs : stage'[r] \in Underway => stage[r] \in Underway
    BY <1>1, <1>5, RequestsRest DEF VenueAnswers, Crash, Underway
  <2>3. cid' = cid
    BY <1>5, RequestsRest DEF VenueAnswers, Crash
  <2> QED
    BY <1>1, <2>1, <2>2, <2>3 DEF FirstOfId, RowsRest, OwnTypesOK
<1> QED
  BY <1>2, <1>3, <1>4, <1>5

LEMMA FirstOfIdInvariant ==
    ASSUME Gated
    PROVE  SpecExec => []FirstOfId
<1>1. InitExec => FirstOfId
  BY DEF InitExec, FirstOfId, Underway
<1>2. ExecInv /\ FirstOfId /\ [NextExec]_vars => FirstOfId'
  BY FirstOfIdStep
<1> QED
  BY <1>1, <1>2, ExecInvariant, PTL DEF SpecExec

\* No request is sent while a row with its id is open, though answers get lost
\* and the process crashes: what a crash leaves behind is never written again.
THEOREM NoLiveRow ==
    ASSUME Gated
    PROVE  SpecExec => NoSubmitOverLiveRow
<1>1. FirstOfId => \A r \in Reqs : Send(r) => ledger[cid[r]] \in TERMINAL_STATES \union {"absent"}
  BY DEF FirstOfId, Send, Underway
<1> QED
  BY <1>1, FirstOfIdInvariant, PTL DEF NoSubmitOverLiveRow

\* A row that is settled stays as it is, under the same conditions: the upsert of
\* trackOrder, which looks at nothing, only ever meets an absent row.
THEOREM SettledRowsStay ==
    ASSUME Gated
    PROVE  SpecExec => RowsNeverReopen
<1> DEFINE Keeps == \A c \in Cids : ledger[c] \in TERMINAL_STATES => ledger'[c] = ledger[c]
<1>1. ASSUME ExecInv, FirstOfId, [NextExec]_vars PROVE Keeps
  <2>1. ASSUME NEW r \in Reqs, Track(r) PROVE Keeps
    <3>1. /\ stage[r] \in Underway
          /\ \A c \in Cids : ledger'[c] = IF c = cid[r] THEN verdict[r] ELSE ledger[c]
      BY <1>1, <2>1, TrackWrites DEF Gated, Underway
    <3>2. ledger[cid[r]] \notin TERMINAL_STATES
      BY <1>1, <3>1 DEF FirstOfId, TERMINAL_STATES
    <3> QED
      BY <3>1, <3>2
  <2>2. CASE \A r \in Reqs : ~Track(r)
    BY <1>1, <2>2, LedgerStep DEF RowsRest
  <2> QED
    BY <2>1, <2>2
<1>2. ExecInv /\ FirstOfId /\ [NextExec]_vars => [Keeps]_vars
  BY <1>1
<1> QED
  BY <1>2, ExecInvariant, FirstOfIdInvariant, PTL DEF RowsNeverReopen, SpecExec

(***************************************************************************)
(* The calls.                                                              *)
(***************************************************************************)

LEMMA CallsBegunStep ==
    ASSUME ExecInv, CallsBegun, [NextExec]_vars
    PROVE  CallsBegun'
<1>1. OwnTypesOK
  BY DEF ExecInv
<1> DEFINE Before == {"probing", "asking", "submitting", "queued", "holding"}
<1>2. ASSUME NEW r \in Reqs, Step(r) PROVE CallsBegun'
  <2>1. /\ landed' = landed
        /\ call'[r] # "none" => stage'[r] \notin Before
        /\ r \in landed => call'[r] = "accepted"
    <3>1. CASE Send(r)
      BY <1>1, <1>2, <3>1, OwnMove DEF Send, To, OwnTypesOK, CallsBegun
    <3>2. CASE ~Send(r)
      <4>1. stage'[r] \in Before => stage[r] \in Before
        BY <1>1, <1>2, <3>2 DEF Step, Probe, Decide, JoinLock, EnterLock, FailBeforeSend, Return,
           LoseAnswer, TimeOut, Track, Release, To, OwnTypesOK
      <4> QED
        BY <1>1, <1>2, <3>2, <4>1, OwnMove DEF CallsBegun
    <3> QED
      BY <3>1, <3>2
  <2> QED
    BY <1>1, <1>2, <2>1, OthersRest DEF CallsBegun
<1>3. ASSUME NEW r \in Reqs, VenueAnswers(r) PROVE CallsBegun'
  <2>1. stage' = stage /\ call[r] # "none" /\ (r \in landed' => call'[r] = "accepted")
    BY <1>1, <1>3 DEF VenueAnswers, OwnTypesOK, CallsBegun
  <2> QED
    BY <1>1, <1>3, <2>1, OthersRest DEF CallsBegun
<1>4. CASE Crash
  BY <1>4 DEF Crash, CallsBegun
<1>5. CASE UNCHANGED <<stage, call, landed>>
  BY <1>5 DEF CallsBegun
<1> QED
  BY <1>2, <1>3, <1>4, <1>5, RequestsRest

LEMMA CallsBegunInvariant == SpecExec => []CallsBegun
<1>1. InitExec => CallsBegun
  BY DEF InitExec, CallsBegun
<1> QED
  BY <1>1, CallsBegunStep, ExecInvariant, PTL DEF SpecExec

\* Whatever was sent gets its row, requests that overlap included.
LEMMA SentHasRowStep ==
    ASSUME Kept, ExecInv, CallsBegun, SentHasRow, [NextExec]_vars
    PROVE  SentHasRow'
<1>1. OwnTypesOK /\ ~Crash
  BY DEF ExecInv, Kept, Crash, OwnTypesOK
<1>2. ASSUME NEW r \in Reqs, Track(r) PROVE SentHasRow'
  <2>1. /\ \A c \in Cids : ledger'[c] = IF c = cid[r] THEN verdict[r] ELSE ledger[c]
        /\ \A q \in Reqs \ {r} : stage'[q] = stage[q]
        /\ verdict[r] # "absent" /\ cid' = cid /\ call' = call
    BY <1>1, <1>2, TrackWrites DEF Kept, OwnTypesOK
  <2> QED
    BY <1>1, <2>1 DEF SentHasRow, OwnTypesOK
<1>3. ASSUME \A r \in Reqs : ~Track(r) PROVE SentHasRow'
  <2>1. RowsRest
    BY <1>3, LedgerStep
  <2>2. ASSUME NEW r \in Reqs, call'[r] # "none", stage'[r] \notin {"waiting", "tracking"}
        PROVE  call[r] # "none" /\ stage[r] \notin {"waiting", "tracking"} /\ cid'[r] = cid[r]
    <3>1. CASE Step(r)
      <4>1. ~Send(r) /\ call'[r] = call[r]
        BY <1>1, <2>2, <3>1, OwnMove DEF Send, To, OwnTypesOK
      <4>2. ~Decide(r)
        BY <2>2, <4>1 DEF Decide, CallsBegun
      <4>3. stage[r] \notin {"waiting", "tracking"}
        BY <1>1, <1>3, <2>2, <3>1, <4>1 DEF Step, Probe, Decide, JoinLock, EnterLock,
           FailBeforeSend, Return, LoseAnswer, TimeOut, Release, To, OwnTypesOK
      <4> QED
        BY <1>1, <2>2, <3>1, <4>1, <4>2, <4>3, OwnMove
    <3>2. CASE VenueAnswers(r)
      BY <2>2, <3>2 DEF VenueAnswers
    <3>3. CASE \E q \in Reqs \ {r} : Step(q) \/ VenueAnswers(q)
      BY <1>1, <2>2, <3>3, OthersRest
    <3>4. CASE \A q \in Reqs : ~Step(q) /\ ~VenueAnswers(q)
      BY <1>1, <2>2, <3>4, RequestsRest
    <3> QED
      BY <3>1, <3>2, <3>3, <3>4
  <2> QED
    BY <1>1, <2>1, <2>2 DEF SentHasRow, RowsRest, OwnTypesOK
<1> QED
  BY <1>2, <1>3

LEMMA SentHasRowInvariant ==
    ASSUME Kept
    PROVE  SpecExec => []SentHasRow
<1>1. InitExec => SentHasRow
  BY DEF InitExec, SentHasRow
<1>2. ExecInv /\ CallsBegun /\ SentHasRow /\ [NextExec]_vars => SentHasRow'
  BY SentHasRowStep
<1> QED
  BY <1>1, <1>2, ExecInvariant, CallsBegunInvariant, PTL DEF SpecExec

\* Every order the venue took on has its row once the ledger write is over,
\* though repeated intents overlap and answers get lost.
THEOREM LandedTracked ==
    ASSUME Kept
    PROVE  SpecExec => []OrdersTracked
<1>1. ExecInv /\ CallsBegun /\ SentHasRow => OrdersTracked
  BY DEF ExecInv, OwnTypesOK, CallsBegun, SentHasRow, OrdersTracked
<1> QED
  BY <1>1, ExecInvariant, CallsBegunInvariant, SentHasRowInvariant, PTL

\* An id that was sent is not sent again.
LEMMA SentOnceStep ==
    ASSUME ExecInv, FirstOfId, CallsBegun, SentHasRow, SentOnce, [NextExec]_vars
    PROVE  SentOnce'
<1>1. OwnTypesOK
  BY DEF ExecInv
<1>2. ASSUME NEW r \in Reqs, Send(r) PROVE SentOnce'
  <2>1. /\ cid' = cid /\ \A q \in Reqs \ {r} : call'[q] = call[q]
    BY <1>1, <1>2, OthersRest DEF Step, Send
  <2>2. ASSUME NEW q \in Reqs \ {r}, call[q] # "none" PROVE cid[q] # cid[r]
    <3>1. stage[r] = "holding" /\ ledger[cid[r]] = "absent"
      BY <1>2 DEF Send, FirstOfId, Underway
    <3>2. CASE stage[q] \in {"waiting", "tracking"}
      BY <3>1, <3>2 DEF FirstOfId, Underway
    <3>3. CASE stage[q] \notin {"waiting", "tracking"}
      BY <2>2, <3>1, <3>3 DEF SentHasRow
    <3> QED
      BY <3>2, <3>3
  <2> QED
    BY <2>1, <2>2 DEF SentOnce
<1>3. ASSUME NEW r \in Reqs, Step(r), ~Send(r) PROVE SentOnce'
  <2>1. call'[r] = call[r] /\ (call[r] # "none" => cid'[r] = cid[r])
    BY <1>1, <1>3, OwnMove DEF CallsBegun
  <2>2. \A q \in Reqs \ {r} : call'[q] = call[q] /\ cid'[q] = cid[q]
    BY <1>1, <1>3, OthersRest
  <2> QED
    BY <2>1, <2>2 DEF SentOnce
<1>4. ASSUME NEW r \in Reqs, VenueAnswers(r) PROVE SentOnce'
  <2>1. call[r] # "none" /\ cid' = cid /\ \A q \in Reqs \ {r} : call'[q] = call[q]
    BY <1>1, <1>4, OthersRest DEF VenueAnswers
  <2> QED
    BY <2>1 DEF SentOnce
<1>5. CASE UNCHANGED <<cid, call>>
  BY <1>5 DEF SentOnce
<1> QED
  BY <1>2, <1>3, <1>4, <1>5, RequestsRest DEF Crash

LEMMA SentOnceInvariant ==
    ASSUME Gated, Kept
    PROVE  SpecExec => []SentOnce
<1>1. InitExec => SentOnce
  BY DEF InitExec, SentOnce
<1> QED
  BY <1>1, SentOnceStep, ExecInvariant, FirstOfIdInvariant, CallsBegunInvariant,
     SentHasRowInvariant, PTL DEF SpecExec

\* One order per client_order_id on the venue, for any number of requests and
\* repetitions of an intent, overridden or not, and though answers get lost.
THEOREM OneOrderPerId ==
    ASSUME Gated, Kept
    PROVE  SpecExec => []AcceptedOnce
<1>1. ExecInv /\ CallsBegun /\ SentOnce => AcceptedOnce
  BY DEF ExecInv, OwnTypesOK, CallsBegun, SentOnce, AcceptedOnce
<1> QED
  BY <1>1, ExecInvariant, CallsBegunInvariant, SentOnceInvariant, PTL

(***************************************************************************)
(* Rejections.                                                             *)
(***************************************************************************)

\* What the stream and the poller write is no rejection, when the venue makes none.
LEMMA ReconNobodyRejects ==
    ASSUME "REJECTED" \notin Moves, TypeOK, NobodyRejects, ReconNext
    PROVE  /\ NobodyRejects'
           /\ \A c \in Cids : ledger'[c] = "rejected" => ledger[c] = "rejected"
<1> DEFINE Rows == \A c \in Cids : ledger'[c] = "rejected" => ledger[c] = "rejected"
<1>1. \A s \in VenueStatuses \ {"REJECTED"} : BINANCE_STATUS_MAP[s] # "rejected"
  BY DEF BINANCE_STATUS_MAP, VenueStatuses, ClosedStatuses
<1>2. ASSUME NEW c \in Cids, NEW s \in Moves, VenueMoves(c, s) PROVE Rows /\ NobodyRejects'
  <2>1. s \in VenueStatuses \ {"REJECTED"}
    BY MovesAssumption
  <2> QED
    BY <1>1, <1>2, <2>1 DEF VenueMoves, Report, NobodyRejects, TypeOK
<1>3. ASSUME NEW t \in wire, Deliver(t) \/ Lose(t) PROVE Rows /\ NobodyRejects'
  <2>1. t[1] \in Cids /\ t[2] \in PendingOrderState /\ t[2] # "rejected"
    BY DEF TypeOK, Transitions, NobodyRejects
  <2>2. Rows
    BY <1>3, <2>1, UpdateRests DEF Deliver, Lose, HandleTransition
  <2> QED
    BY <1>3, <2>2 DEF Deliver, Lose, NobodyRejects
<1>4. ASSUME NEW p \in Probes, WriteBack(p) \/ Announce(p) PROVE Rows /\ NobodyRejects'
  <2>1. probe[p] \in [stage : {"write", "announce"}, cid : Cids, state : PendingOrderState]
        /\ probe[p].state # "rejected"
    BY <1>4 DEF WriteBack, Announce, TypeOK, ProbeType, idle, NobodyRejects
  <2>2. Rows
    BY <1>4, <2>1, UpdateRests DEF WriteBack, Announce, HandleTransition
  <2>3. \A q \in Probes : probe'[q] \in {probe[q], idle} \/
            (q = p /\ probe'[q] = [probe[p] EXCEPT !.stage = "announce"])
    BY <1>4 DEF WriteBack, Announce, TypeOK
  <2>4. [probe[p] EXCEPT !.stage = "announce"].state # "rejected"
    BY <2>1
  <2>5. ASSUME NEW q \in Probes, probe'[q].stage \in {"write", "announce"}
        PROVE  probe'[q].state # "rejected"
    <3>1. CASE probe'[q] = probe[q]
      BY <2>5, <3>1 DEF NobodyRejects
    <3>2. CASE probe'[q] = idle
      BY <2>5, <3>2 DEF idle
    <3> QED
      BY <2>3, <2>4, <3>1, <3>2
  <2>6. UNCHANGED <<venue, wire>>
    BY <1>4 DEF WriteBack, Announce
  <2> QED
    BY <2>2, <2>5, <2>6 DEF NobodyRejects
<1>5. ASSUME NEW p \in Probes, Query(p) PROVE Rows /\ NobodyRejects'
  <2>1. probe[p].cid \in Cids /\ venue[probe[p].cid] \in VenueStatuses \ {"REJECTED"}
    BY <1>5 DEF Query, TypeOK, ProbeType, idle, NobodyRejects
  <2> QED
    BY <1>1, <1>5, <2>1 DEF Query, NobodyRejects, TypeOK
<1>6. ASSUME NEW p \in Probes, NotFound(p) PROVE Rows /\ NobodyRejects'
  BY <1>6 DEF NotFound, NobodyRejects, TypeOK, idle
<1>7. ASSUME NEW S \in SUBSET Probes, GiveUp(S) PROVE Rows /\ NobodyRejects'
  BY <1>7 DEF GiveUp, NobodyRejects, idle
<1>8. ASSUME NEW S \in SUBSET Probes, NEW row \in [S -> StaleSubmittedOrders], Select(S, row)
      PROVE  Rows /\ NobodyRejects'
  BY <1>8 DEF Select, NobodyRejects
<1> QED
  BY <1>2, <1>3, <1>4, <1>5, <1>6, <1>7, <1>8 DEF ReconNext

RejectInv == NobodyRejects /\ VerdictsTrue /\ RejectionsTrue

\* A verdict of rejection is of a call that was never sent, or that the venue refused.
LEMMA VerdictsStep ==
    ASSUME Answered, ExecInv, CallsBegun, VerdictsTrue, NEW r \in Reqs, Step(r)
    PROVE  VerdictsTrue'
<1>1. OwnTypesOK
  BY DEF ExecInv
<1>2. ASSUME stage'[r] = "tracking", verdict'[r] = "rejected" PROVE call'[r] \in {"none", "refused"}
  <2>1. CASE FailBeforeSend(r)
    BY <1>1, <2>1 DEF FailBeforeSend, CallsBegun
  <2>2. CASE Return(r)
    BY <1>1, <1>2, <2>2 DEF Return, OwnTypesOK
  <2>3. ~FailBeforeSend(r) /\ ~Return(r) => FALSE
    BY <1>1, <1>2 DEF Answered, Step, Probe, Decide, JoinLock, EnterLock, Send, LoseAnswer, TimeOut,
       Track, Release, To, OwnTypesOK
  <2> QED
    BY <2>1, <2>2, <2>3
<1> QED
  BY <1>1, <1>2, OthersRest DEF VerdictsTrue

\* And the only request whose row a ledger write touches is its own.
LEMMA RejectionsStep ==
    ASSUME Gated, ExecInv, FirstOfId, CallsBegun, SentHasRow, VerdictsTrue, RejectionsTrue,
           NEW r \in Reqs, Step(r)
    PROVE  RejectionsTrue'
<1>1. OwnTypesOK
  BY DEF ExecInv
<1>2. CASE Track(r)
  <2>1. /\ stage[r] = "tracking" /\ cid' = cid /\ call' = call
        /\ \A c \in Cids : ledger'[c] = IF c = cid[r] THEN verdict[r] ELSE ledger[c]
    BY <1>2, TrackWrites DEF Gated
  <2>2. ASSUME NEW q \in Reqs, call[q] \in {"sent", "accepted"}, ledger'[cid[q]] = "rejected"
        PROVE  FALSE
    <3>1. cid[q] = cid[r] /\ verdict[r] = "rejected"
      BY <1>1, <2>1, <2>2 DEF RejectionsTrue, OwnTypesOK
    <3>2. q # r
      BY <2>1, <2>2, <3>1 DEF VerdictsTrue
    <3>3. CASE stage[q] \in {"waiting", "tracking"}
      BY <2>1, <3>1, <3>2, <3>3 DEF FirstOfId, Underway
    <3>4. CASE stage[q] \notin {"waiting", "tracking"}
      BY <2>1, <2>2, <3>1, <3>4 DEF FirstOfId, SentHasRow, Underway
    <3> QED
      BY <3>3, <3>4
  <2> QED
    BY <2>1, <2>2 DEF RejectionsTrue
<1>3. CASE Send(r)
  <2>1. ledger[cid[r]] = "absent" /\ cid' = cid /\ ledger' = ledger
    BY <1>3 DEF Send, FirstOfId, Underway, reconVars
  <2> QED
    BY <1>1, <2>1, OthersRest DEF RejectionsTrue
<1>4. CASE ~Track(r) /\ ~Send(r)
  <2>1. ledger' = ledger /\ call'[r] = call[r] /\ (call[r] # "none" => cid'[r] = cid[r])
    BY <1>1, <1>4, OwnMove DEF CallsBegun
  <2> QED
    BY <1>1, <2>1, OthersRest DEF RejectionsTrue
<1> QED
  BY <1>2, <1>3, <1>4

LEMMA RejectStep ==
    ASSUME Gated, Kept, Answered, ExecInv, FirstOfId, CallsBegun, SentHasRow, RejectInv,
           [NextExec]_vars
    PROVE  RejectInv'
<1>1. OwnTypesOK /\ TypeOK /\ ~Crash /\ "REJECTED" \notin Moves
  BY DEF ExecInv, Kept, Crash, OwnTypesOK, Answered
<1>2. ASSUME NEW r \in Reqs, Step(r) PROVE RejectInv'
  <2>1. VerdictsTrue' /\ RejectionsTrue'
    BY <1>2, VerdictsStep, RejectionsStep DEF RejectInv
  <2>2. UNCHANGED <<venue, wire, probe>>
    BY <1>2 DEF Step, Probe, Decide, JoinLock, EnterLock, FailBeforeSend, Send, Return, LoseAnswer,
       TimeOut, Track, Release, reconVars
  <2> QED
    BY <2>1, <2>2 DEF RejectInv, NobodyRejects
<1>3. ASSUME NEW r \in Reqs, VenueAnswers(r) PROVE RejectInv'
  <2>1. /\ UNCHANGED <<stage, cid, verdict, ledger, probe>> /\ call[r] = "sent"
        /\ \A q \in Reqs \ {r} : call'[q] = call[q]
    BY <1>1, <1>3, OthersRest DEF VenueAnswers, reconVars
  <2>2. VerdictsTrue' /\ RejectionsTrue'
    BY <2>1 DEF RejectInv, VerdictsTrue, RejectionsTrue
  <2>3. BINANCE_STATUS_MAP["NEW"] = "acked"
    BY DEF BINANCE_STATUS_MAP, VenueStatuses
  <2>4. NobodyRejects'
    BY <1>1, <1>3, <2>1, <2>3
    DEF VenueAnswers, VenueAccepts, Report, reconVars, RejectInv, NobodyRejects, TypeOK
  <2> QED
    BY <2>2, <2>4 DEF RejectInv
<1>4. ASSUME UNCHANGED <<stage, cid, call, verdict>>, NobodyRejects',
             \A c \in Cids : ledger'[c] = "rejected" => ledger[c] = "rejected"
      PROVE  RejectInv'
  BY <1>1, <1>4 DEF RejectInv, VerdictsTrue, RejectionsTrue, OwnTypesOK
<1>5. CASE ReconNext /\ UNCHANGED <<execVars, lockVars>>
  BY <1>1, <1>4, <1>5, ReconNobodyRejects DEF execVars, RejectInv
<1>6. CASE UNCHANGED vars
  BY <1>4, <1>6 DEF vars, execVars, reconVars, RejectInv, NobodyRejects
<1>7. CASE \E r \in Reqs : StaleTimer(r)
  BY <1>4, <1>7 DEF StaleTimer, execVars, reconVars, RejectInv, NobodyRejects
<1> QED
  BY <1>1, <1>2, <1>3, <1>5, <1>6, <1>7 DEF NextExec

\* A row says `rejected` only of an order that did not land. This one needs all
\* three: a lost answer, a second request with the same id or a crash before the
\* ledger write each put a false rejection in the row of an order that landed.
THEOREM RejectedTrue ==
    ASSUME Gated, Kept, Answered
    PROVE  SpecExec => []RejectedMeansNotLanded
<1>1. InitExec => RejectInv
  BY DEF InitExec, ReconInit, RejectInv, NobodyRejects, VerdictsTrue, RejectionsTrue, idle
<1>2. ExecInv /\ CallsBegun /\ RejectInv => RejectedMeansNotLanded
  BY DEF ExecInv, OwnTypesOK, CallsBegun, RejectInv, RejectionsTrue, RejectedMeansNotLanded
<1> QED
  BY <1>1, <1>2, RejectStep, ExecInvariant, FirstOfIdInvariant, CallsBegunInvariant,
     SentHasRowInvariant, PTL DEF SpecExec
===============================================================================
