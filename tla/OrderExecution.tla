---------------------------- MODULE OrderExecution ----------------------------
(***************************************************************************)
(* executeAction of cexWorkflowMessageHandler.ts for create_order: probe   *)
(* the ledger, take the trading lock, call the venue, write the ledger     *)
(* row, release the lock.  Composes the lock (TradingLock) with the ledger *)
(* and its reconciliation (Reconciliation).                                *)
(*                                                                         *)
(* A request is one approved create_order.  Requests for the same intent   *)
(* carry the same client_order_id, because it is derived from the intent's *)
(* hash; an override of the dedup gate derives another one from a random   *)
(* nonce.  The venue call outlives everything that happens to the process: *)
(* once sent it may be accepted after a timeout and after a crash.         *)
(*                                                                         *)
(* The lock's stale timer and the action's timeout are both five minutes,  *)
(* and the timer is armed first, when the lock is granted: a request in    *)
(* Slow holds the lock for longer, and when its action times out the lock  *)
(* has been taken from it already.  Its row is written after that.         *)
(*                                                                         *)
(* MAX_DEDUP_OVERRIDE_ATTEMPTS cannot be reached, since the id an override *)
(* derives is new and so its row absent.                                   *)
(***************************************************************************)
EXTENDS Reconciliation, Naturals, Sequences

CONSTANTS
    Reqs,           \* approved create_order requests
    CidOf,          \* the client_order_id each comes with
    FreshCid,       \* the one an approved override derives for it
    Keys, KeyOf,    \* lock keys `${userId}:${venue}:${symbol}`
    Slow,           \* requests that may hold the lock beyond STALE_LOCK_TTL_MS
    Overlap,        \* whether requests with one client_order_id can overlap
    LostAnswers,    \* whether the venue's answer can get lost
    LedgerFaults,   \* whether the handler's ledger reads and writes can fail
    MaxCrashes      \* bound on the crashes of the process

ASSUME RequestAssumption ==
    /\ CidOf \in [Reqs -> Cids] /\ FreshCid \in [Reqs -> Cids]
    /\ KeyOf \in [Reqs -> Keys]
    /\ Slow \subseteq Reqs
    /\ \A q, r \in Reqs :
          FreshCid[r] # CidOf[q] /\ (FreshCid[r] = FreshCid[q] => q = r)
ASSUME EnvironmentAssumption ==
    /\ {Overlap, LostAnswers, LedgerFaults} \subseteq BOOLEAN
    /\ MaxCrashes \in Nat

VARIABLES
    stage,      \* how far executeAction has come for each request
    cid,        \* its active client_order_id
    call,       \* its createOrder call, as the venue sees it
    verdict,    \* the state it is about to write to the ledger
    landed,     \* history: the requests whose order the venue accepted
    crashes,
    locks, timers, lockPc, expired, breached    \* TradingLock's

Lock == INSTANCE TradingLock WITH
            Calls <- Reqs, SlowCalls <- Slow, pc <- lockPc

lockVars == <<locks, timers, lockPc, expired, breached>>
execVars == <<stage, cid, call, verdict, landed, crashes>>
vars     == <<reconVars, execVars, lockVars>>

\* "tracking" and "releasing": the venue call is over, the row is not written
\* yet, and the row is written but the finally block has not run.
Stages == {"probing", "asking", "submitting", "queued", "holding", "waiting",
           "tracking", "releasing", "done", "dead"}
Submitting == {"holding", "waiting", "tracking", "releasing"}

InitExec ==
    /\ ReconInit /\ Lock!Init
    /\ stage = [r \in Reqs |-> "probing"]
    /\ cid = CidOf
    /\ call = [r \in Reqs |-> "none"]
    /\ verdict = [r \in Reqs |-> "none"]
    /\ landed = {} /\ crashes = 0

To(r, s) == stage' = [stage EXCEPT ![r] = s]

------------------------------------------------------------------------------
(* The pre-submit dedup gate, before the lock. *)

Turn(r) ==
    Overlap \/ \A q \in Reqs \ {r} : cid[q] = cid[r] =>
                    stage[q] \in {"probing", "done", "dead"}

\* provider.checkExistingOrder; a probe that throws is logged and the submit
\* goes on.
Probe(r) ==
    /\ stage[r] = "probing" /\ Turn(r)
    /\ \/ CheckExistingOrder(cid[r]) = "new" /\ To(r, "submitting")
       \/ CheckExistingOrder(cid[r]) # "new" /\ To(r, "asking")
       \/ LedgerFaults /\ To(r, "submitting")
    /\ UNCHANGED <<cid, call, verdict, landed, crashes, reconVars, lockVars>>

\* The user answers the override prompt: a new id, and probe again; or the
\* request ends (declined, expired, revoked).
Decide(r) ==
    /\ stage[r] = "asking"
    /\ \/ cid' = [cid EXCEPT ![r] = FreshCid[r]] /\ To(r, "probing")
       \/ To(r, "done") /\ UNCHANGED cid
    /\ UNCHANGED <<call, verdict, landed, crashes, reconVars, lockVars>>

------------------------------------------------------------------------------
(* The locked part. *)

JoinLock(r) ==
    /\ stage[r] = "submitting"
    /\ Lock!Acquire(r)
    /\ To(r, "queued")
    /\ UNCHANGED <<cid, call, verdict, landed, crashes, reconVars>>

EnterLock(r) ==
    /\ stage[r] = "queued"
    /\ Lock!Resume(r)
    /\ To(r, "holding")
    /\ UNCHANGED <<cid, call, verdict, landed, crashes, reconVars>>

\* Mutant: the failure path returns without the finally block.
FailBeforeSendLeaking(r) ==
    /\ stage[r] = "holding"
    /\ verdict' = [verdict EXCEPT ![r] = "rejected"]
    /\ To(r, "leaked")
    /\ UNCHANGED <<cid, call, landed, crashes, reconVars, lockVars>>
\* Nothing is sent: the action or its configuration is missing, validation
\* fails, or the connection is refused.
FailBeforeSend(r) ==
    /\ stage[r] = "holding"
    /\ verdict' = [verdict EXCEPT ![r] = "rejected"]
    /\ To(r, "tracking")
    /\ UNCHANGED <<cid, call, landed, crashes, reconVars, lockVars>>

Send(r) ==
    /\ stage[r] = "holding"
    /\ call' = [call EXCEPT ![r] = "sent"]
    /\ To(r, "waiting")
    /\ UNCHANGED <<cid, verdict, landed, crashes, reconVars, lockVars>>

\* The venue gets the request, whatever the process is doing by then.
VenueAnswers(r) ==
    /\ call[r] = "sent"
    /\ \/ /\ VenueAccepts(cid[r])
          /\ call' = [call EXCEPT ![r] = "accepted"]
          /\ landed' = landed \union {r}
          /\ UNCHANGED <<ledger, probe, announced>>
       \/ /\ call' = [call EXCEPT ![r] = "refused"]
          /\ UNCHANGED <<landed, reconVars>>
    /\ UNCHANGED <<stage, cid, verdict, crashes, lockVars>>

\* Mutant: the lock is released as soon as the venue has answered.
ReturnReleasing(r) ==
    /\ stage[r] = "waiting" /\ call[r] # "sent"
    /\ verdict' = [verdict EXCEPT ![r] =
            IF call[r] = "accepted" THEN "submitted" ELSE "rejected"]
    /\ To(r, "tracking")
    /\ Lock!ReleaseLock(r)
    /\ UNCHANGED <<cid, call, landed, crashes, reconVars>>
\* The action's callback: success, or the venue's refusal.
Return(r) ==
    /\ stage[r] = "waiting" /\ call[r] # "sent"
    /\ verdict' = [verdict EXCEPT ![r] =
            IF call[r] = "accepted" THEN "submitted" ELSE "rejected"]
    /\ To(r, "tracking")
    /\ UNCHANGED <<cid, call, landed, crashes, reconVars, lockVars>>

\* A 5xx, a client timeout or a reset connection: createTradeAction catches
\* the error and calls back with success: false, like any refusal.
LoseAnswer(r) ==
    /\ LostAnswers
    /\ stage[r] = "waiting"
    /\ verdict' = [verdict EXCEPT ![r] = "rejected"]
    /\ To(r, "tracking")
    /\ UNCHANGED <<cid, call, landed, crashes, reconVars, lockVars>>

\* Mutant: a timed out action is written like any other failure.
TimeOutAsFailure(r) ==
    /\ stage[r] = "waiting" /\ r \in Slow \ timers
    /\ verdict' = [verdict EXCEPT ![r] = "rejected"]
    /\ To(r, "tracking")
    /\ UNCHANGED <<cid, call, landed, crashes, reconVars, lockVars>>
\* "Action create_order timed out": classified venue_timeout, hence unknown.  By
\* then the lock's timer has fired, or another request's release has cleared it.
TimeOut(r) ==
    /\ stage[r] = "waiting" /\ r \in Slow \ timers
    /\ verdict' = [verdict EXCEPT ![r] = "unknown"]
    /\ To(r, "tracking")
    /\ UNCHANGED <<cid, call, landed, crashes, reconVars, lockVars>>

\* Mutant: the row is not awaited, and lost.
TrackNothing(r) ==
    /\ stage[r] = "tracking"
    /\ To(r, "releasing")
    /\ UNCHANGED <<cid, call, verdict, landed, crashes, reconVars, lockVars>>
\* trackOrder; a failure is logged and swallowed.
Track(r) ==
    /\ stage[r] = "tracking"
    /\ \/ UpsertPendingOrder(cid[r], verdict[r])
       \/ LedgerFaults /\ UNCHANGED ledger
    /\ To(r, "releasing")
    /\ UNCHANGED <<venue, wire, probe, announced>>
    /\ UNCHANGED <<cid, call, verdict, landed, crashes, lockVars>>

\* The finally block.
Release(r) ==
    /\ stage[r] = "releasing"
    /\ Lock!ReleaseLock(r)
    /\ To(r, "done")
    /\ UNCHANGED <<cid, call, verdict, landed, crashes, reconVars>>

\* Five minutes after the lock was granted to r it goes to the next in line,
\* whatever r is doing.
StaleTimer(r) == Lock!StaleTimer(r) /\ UNCHANGED <<execVars, reconVars>>

------------------------------------------------------------------------------
\* The process dies and comes back: the requests under way, the locks, the
\* probes and the stream's unhandled messages are gone.
Crash ==
    LET lives(r) == stage[r] = "done" \/ (stage[r] = "probing" /\ cid[r] = CidOf[r]) IN
    /\ crashes < MaxCrashes
    /\ crashes' = crashes + 1
    /\ stage' = [r \in Reqs |-> IF lives(r) THEN stage[r] ELSE "dead"]
    /\ lockPc' = [r \in Reqs |-> IF lives(r) THEN lockPc[r] ELSE "released"]
    /\ locks' = [k \in {} |-> {}] /\ timers' = {}
    /\ wire' = {} /\ probe' = [p \in Probes |-> idle]
    /\ breached' = {}
    /\ UNCHANGED <<cid, call, verdict, landed, expired, ledger, venue, announced>>

Step(r) ==
    \/ Probe(r) \/ Decide(r) \/ JoinLock(r) \/ EnterLock(r)
    \/ FailBeforeSend(r) \/ Send(r) \/ Return(r) \/ LoseAnswer(r) \/ TimeOut(r)
    \/ Track(r) \/ Release(r)

NextExec ==
    \/ \E r \in Reqs : Step(r) \/ VenueAnswers(r) \/ StaleTimer(r)
    \/ ReconNext /\ UNCHANGED <<execVars, lockVars>>
    \/ Crash

\* The event loop runs what is ready and what is due; the user may never answer a
\* prompt.  A slow request's wait for the venue is ended by the action timeout; the
\* others are those that the venue does answer.
Fairness ==
    /\ \A r \in Reqs :
          /\ WF_vars(JoinLock(r)) /\ WF_vars(EnterLock(r))
          /\ WF_vars(FailBeforeSend(r) \/ Send(r))
          /\ WF_vars(Track(r)) /\ WF_vars(Release(r))
    /\ \A r \in Slow : WF_vars(StaleTimer(r)) /\ WF_vars(TimeOut(r))
    /\ \A r \in Reqs \ Slow : WF_vars(VenueAnswers(r)) /\ WF_vars(Return(r))

SpecExec     == InitExec /\ [][NextExec]_vars
FairSpecExec == SpecExec /\ Fairness

------------------------------------------------------------------------------
\* The types of the execution's own variables and of the parts' ones.
ExecTypeOK ==
    /\ TypeOK /\ Lock!TypeOK
    /\ stage \in [Reqs -> Stages]
    /\ cid \in [Reqs -> Cids]
    /\ call \in [Reqs -> {"none", "sent", "accepted", "refused"}]
    /\ verdict \in [Reqs -> {"none", "submitted", "rejected", "unknown"}]
    /\ landed \subseteq Reqs
    /\ crashes \in 0 .. MaxCrashes

\* "Serializes concurrent `create_order` submits" (tradingLock.ts:4): of the
\* requests for one key that hold the lock in their own right, at most one is
\* between its venue call and the end of its ledger write, through lost answers,
\* failed writes and crashes, and while others time out.  A request that times out
\* was deprived of the lock before its row is written, so its submit and its write
\* do overlap the next one's; and once it releases the lock it no longer has, its
\* key is `breached`, for good or until a restart.
SubmitsSerialized ==
    \A q, r \in Reqs \ expired :
        stage[q] \in Submitting /\ stage[r] \in Submitting
            /\ KeyOf[q] = KeyOf[r] /\ KeyOf[q] \notin breached => q = r

\* "Refuse new venue submits when a row exists for this client_order_id in any
\* non-terminal state" (cexWorkflowMessageHandler.ts:4634-4635).
NoSubmitOverLiveRow ==
    [][\A r \in Reqs : Send(r) =>
          ledger[cid[r]] \in TERMINAL_STATES \union {"absent"}]_vars

\* The venue never takes on two orders under one client_order_id: a repeated
\* intent is caught by the probe, or gets an id of its own.
AcceptedOnce ==
    \A q, r \in landed : cid[q] = cid[r] => q = r

\* A row tracks the order "from submission until final settlement"
\* (reconciliation/types.ts:29): once the request is past its ledger write, or
\* gone, an order the venue accepted has a row.
OrdersTracked ==
    \A r \in landed : stage[r] \notin {"waiting", "tracking"} =>
        ledger[cid[r]] # "absent"

\* A row says `rejected` only of an order that did not land: `unknown` is the
\* state of a call that failed after the request was sent (types.ts:19-26).
\* (Moves without REJECTED: the venue rejects before it accepts.)
RejectedMeansNotLanded ==
    \A r \in landed : ledger[cid[r]] # "rejected"

\* "Orders in these states should not be updated" (pendingOrdersLedger.ts:16).
RowsNeverReopen ==
    [][\A c \in Cids : ledger[c] \in TERMINAL_STATES => ledger'[c] = ledger[c]]_vars

\* Whoever passes the gate gets the lock and finishes, whatever the request
\* that holds it meets: no path leaves the key locked.
RequestsFinish ==
    \A r \in Reqs : stage[r] = "submitting" ~> stage[r] \in {"done", "dead"}
=============================================================================
