---------------------------- MODULE FallbackPoller ----------------------------
(***************************************************************************)
(* The REST fallback poller in full (reconciliationFallback.ts): cycles    *)
(* that setInterval starts whether or not the last one is done, the        *)
(* adaptive ladder that decides which rows are due, and the streak of      *)
(* unresolved credentials that downgrades an account.                      *)
(*                                                                         *)
(* It implements Reconciliation: a row of a cycle is one of its probes.    *)
(***************************************************************************)
EXTENDS PendingOrdersLedger, Naturals

CONSTANTS
    Cycles,         \* the poll cycles that can be under way at once
    AccountOf,      \* the (userId, venue) of each order
    Streams, Moves, \* as in Reconciliation
    Rungs,          \* the length of ADAPTIVE_AGE_LADDER_MS
    DowngradeAfter  \* unresolvedStreakDowngradeAfter

ASSUME PollerAssumption ==
    /\ Rungs \in Nat \ {0}
    /\ DowngradeAfter \in Nat \ {0}

VARIABLES
    venue, wire, announced, \* as in Reconciliation
    at,         \* where each cycle is with each row
    age,        \* the rungs of the ladder that each row's age has passed
    attempts,   \* the attempts map, 0 for no entry
    streak,     \* the unresolvedStreaks map, 0 for no entry
    keys,       \* whether the account's credentials can be resolved
    downgraded  \* history: accounts downgraded since they last resolved

cycleVars == <<at, age, attempts, streak, keys, downgraded>>
pollerVars == <<ledger, venue, wire, announced, cycleVars>>

Accounts == {AccountOf[c] : c \in Cids}
idle == [stage |-> "idle"]
InHand(k, c) == at[k][c].stage \in {"query", "write", "announce", "hook"}

\* A row in a cycle, as the probe that it is to the ledger.
probeOf(row, c) ==
    CASE row.stage \in {"idle", "hook"} -> [stage |-> "idle"]
      [] row.stage \in {"listed", "due", "query"} -> [stage |-> "query", cid |-> c]
      [] OTHER -> [stage |-> row.stage, cid |-> c, state |-> row.state]
probes == [p \in Cycles \X Cids |-> probeOf(at[p[1]][p[2]], p[2])]
Recon == INSTANCE Reconciliation WITH Probes <- Cycles \X Cids, probe <- probes

ASSUME VenueAssumption == Moves \subseteq Recon!VenueStatuses /\ Streams \in BOOLEAN

PollerInit ==
    /\ LedgerInit
    /\ venue = [c \in Cids |-> "none"]
    /\ wire = {} /\ announced = {}
    /\ at = [k \in Cycles |-> [c \in Cids |-> idle]]
    /\ age = [c \in Cids |-> 0]
    /\ attempts = [c \in Cids |-> 0]
    /\ streak = [a \in Accounts |-> 0]
    /\ keys \in [Accounts -> BOOLEAN]
    /\ downgraded = {}

Put(k, c, row) == at' = [at EXCEPT ![k][c] = row]

------------------------------------------------------------------------------
(* A cycle. *)

\* getAllStaleSubmittedOrders: the rows past the first rung.  A failed query
\* and an empty result end the cycle.
StartCycle(k) ==
    LET listed == {c \in StaleSubmittedOrders : age[c] >= 1} IN
    /\ at[k] = [c \in Cids |-> idle]
    /\ listed # {}
    /\ at' = [at EXCEPT ![k] = [c \in Cids |-> IF c \in listed THEN [stage |-> "listed"] ELSE idle]]
    /\ UNCHANGED <<ledger, venue, wire, announced, age, attempts, streak, keys, downgraded>>

\* Mutant: there is no rung beyond the last one.
thresholdEnding(attempt) == attempt + 1
\* The rung that a row must have passed: the last one again and again.
thresholdForAttempt(attempt) == IF attempt < Rungs THEN attempt + 1 ELSE Rungs

\* Once the rows are there, the counters are brought up to date in one go.
PlanCycle(k) ==
    LET listed == {c \in Cids : at[k][c].stage = "listed"}
        due    == {c \in listed : age[c] >= thresholdForAttempt(attempts[c])}
    IN
    /\ listed # {}
    /\ at' = [at EXCEPT ![k] = [c \in Cids |-> IF c \in due THEN [stage |-> "due"] ELSE idle]]
    /\ attempts' = [c \in Cids |->
           IF c \notin listed THEN 0
           ELSE IF c \in due /\ attempts[c] < Rungs THEN attempts[c] + 1 ELSE attempts[c]]
    /\ UNCHANGED <<ledger, venue, wire, announced, age, streak, keys, downgraded>>

\* processStaleOrder is awaited row by row.
Turn(k, c) == at[k][c].stage = "due" /\ \A d \in Cids : ~InHand(k, d)

Resolves(k, c) ==
    /\ Turn(k, c) /\ keys[AccountOf[c]]
    /\ streak' = [streak EXCEPT ![AccountOf[c]] = 0]
    /\ downgraded' = downgraded \ {AccountOf[c]}
    /\ Put(k, c, [stage |-> "query"])
    /\ UNCHANGED <<ledger, venue, wire, announced, age, attempts, keys>>

\* No credentials, or the resolver threw.  The hook that the streak calls when
\* it gets to DowngradeAfter is awaited; beyond that the streak only goes on.
Unresolved(k, c) ==
    LET a == AccountOf[c] IN
    /\ Turn(k, c)
    /\ streak' = [streak EXCEPT ![a] = IF @ <= DowngradeAfter THEN @ + 1 ELSE @]
    /\ IF streak'[a] = DowngradeAfter
       THEN downgraded' = downgraded \union {a} /\ Put(k, c, [stage |-> "hook"])
       ELSE UNCHANGED downgraded /\ Put(k, c, idle)
    /\ UNCHANGED <<ledger, venue, wire, announced, age, attempts, keys>>

\* onUnresolvedDowngrade has returned or thrown.
HookReturns(k, c) ==
    /\ at[k][c].stage = "hook"
    /\ Put(k, c, idle)
    /\ UNCHANGED <<ledger, venue, wire, announced, age, attempts, streak, keys, downgraded>>

\* The venue's answer: the order, no such order, or none that helps.
Query(k, c) ==
    /\ at[k][c].stage = "query" /\ venue[c] # "none"
    /\ Put(k, c, [stage |-> "write", state |-> Recon!BINANCE_STATUS_MAP[venue[c]]])
    /\ UNCHANGED <<ledger, venue, wire, announced, age, attempts, streak, keys, downgraded>>

GiveUp(k, c) ==
    /\ at[k][c].stage \in {"query", "write", "announce"}
    /\ Put(k, c, idle)
    /\ UNCHANGED <<ledger, venue, wire, announced, age, attempts, streak, keys, downgraded>>

\* Mutant: the null of a row that is settled is not looked at.
WriteBackHeedless(k, c) ==
    /\ at[k][c].stage = "write"
    /\ UpdateOrderState(c, at[k][c].state)
    /\ Put(k, c, [at[k][c] EXCEPT !.stage = "announce"])
    /\ UNCHANGED <<venue, wire, announced, age, attempts, streak, keys, downgraded>>
WriteBack(k, c) ==
    /\ at[k][c].stage = "write"
    /\ UpdateOrderState(c, at[k][c].state)
    /\ Put(k, c, IF Updatable(c) THEN [at[k][c] EXCEPT !.stage = "announce"] ELSE idle)
    /\ UNCHANGED <<venue, wire, announced, age, attempts, streak, keys, downgraded>>

Announce(k, c) ==
    /\ at[k][c].stage = "announce"
    /\ Recon!HandleTransition(c, at[k][c].state)
    /\ Put(k, c, idle)
    /\ UNCHANGED <<venue, wire, age, attempts, streak, keys, downgraded>>

------------------------------------------------------------------------------
(* Around it. *)

\* A row gets older.
Grow(c) ==
    /\ ledger[c] # "absent" /\ age[c] < Rungs
    /\ age' = [age EXCEPT ![c] = @ + 1]
    /\ UNCHANGED <<ledger, venue, wire, announced, at, attempts, streak, keys, downgraded>>

\* The user saves or removes the venue's keys.
ChangeKeys(a) ==
    /\ keys' = [keys EXCEPT ![a] = ~@]
    /\ UNCHANGED <<ledger, venue, wire, announced, at, age, attempts, streak, downgraded>>

\* The order handler, the venue and the stream, as in Reconciliation.
Others ==
    /\ UNCHANGED cycleVars
    /\ \/ \E c \in Cids : Recon!SubmitLands(c) \/ Recon!TrackOrder(c)
       \/ \E c \in Cids, s \in Moves : Recon!VenueMoves(c, s)
       \/ \E t \in wire : Recon!Deliver(t) \/ Recon!Lose(t)

Process(k, c) ==
    \/ Resolves(k, c) \/ Unresolved(k, c) \/ HookReturns(k, c)
    \/ Query(k, c) \/ GiveUp(k, c) \/ WriteBack(k, c) \/ Announce(k, c)

PollerNext ==
    \/ \E k \in Cycles : StartCycle(k) \/ PlanCycle(k) \/ (\E c \in Cids : Process(k, c))
    \/ \E c \in Cids : Grow(c)
    \/ \E a \in Accounts : ChangeKeys(a)
    \/ Others

PollerSpec == PollerInit /\ [][PollerNext]_pollerVars

\* The interval keeps ticking, every await comes back, time passes; a call that
\* is tried again and again eventually works.
PollerFairness ==
    /\ SF_pollerVars(\E k \in Cycles : StartCycle(k))
    /\ \A k \in Cycles :
          WF_pollerVars(PlanCycle(k) \/ \E c \in Cids : Process(k, c))
    /\ \A c \in Cids :
          /\ WF_pollerVars(Grow(c))
          /\ SF_pollerVars(\E k \in Cycles : Resolves(k, c))
          /\ SF_pollerVars(\E k \in Cycles : Query(k, c))
          /\ SF_pollerVars(\E k \in Cycles : WriteBack(k, c))
PollerFairSpec == PollerSpec /\ PollerFairness

------------------------------------------------------------------------------
RowStages ==
    [stage : {"idle", "listed", "due", "query", "hook"}]
        \union [stage : {"write", "announce"}, state : PendingOrderState]

\* The types of the variables; a cycle has at most one row in hand.
PollerTypeOK ==
    /\ Recon!TypeOK
    /\ at \in [Cycles -> [Cids -> RowStages]]
    /\ \A k \in Cycles : \A c, d \in Cids : InHand(k, c) /\ InHand(k, d) => c = d
    /\ age \in [Cids -> 0 .. Rungs]
    /\ attempts \in [Cids -> 0 .. Rungs]
    /\ streak \in [Accounts -> 0 .. DowngradeAfter + 1]
    /\ keys \in [Accounts -> BOOLEAN]
    /\ downgraded \subseteq Accounts

\* The poller is one of those Reconciliation allows, so that what is proved of
\* Reconciliation holds of it, whatever its cycles, ladder and streaks do.
ImplementsReconciliation == Recon!Spec

\* An event that announces a final state is true of its row.
AnnouncedOutcomesHold == Recon!AnnouncedOutcomesHold

\* A row settles once, and only as its order did.
MirrorsVenue == Recon!MirrorsVenue

\* The poller gets every row whose order is known to the venue out of the
\* states it polls while its credentials can be resolved, however often it has
\* tried: the ladder has no end ("then steady at 60 s").
PolledRowsMoveOn ==
    \A c \in Cids :
        ledger[c] \in PolledStates /\ venue[c] # "none"
            ~> ledger[c] \notin PolledStates \/ ~keys[AccountOf[c]]

\* An account with a polled row whose credentials stay away is downgraded
\* (docs/AUTOTRADING_SAFETY.md:146-149), however cycles overlap, whatever other
\* accounts' rows do and however long the rows have been tried.
OutagesDowngrade ==
    \A c \in Cids :
        ledger[c] \in PolledStates
            ~> \/ ledger[c] \notin PolledStates
               \/ keys[AccountOf[c]]
               \/ AccountOf[c] \in downgraded
===============================================================================
