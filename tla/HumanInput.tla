------------------------------ MODULE HumanInput ------------------------------
(***************************************************************************)
(* The store of pending human approvals (humanInputState.ts): a map of     *)
(* entries, each with the promise a workflow awaits and a TTL timer.       *)
(*                                                                         *)
(* Every function runs to its end between two awaits, so each is one step. *)
(* A wait is <<request, gate>>: a request opens at most one at each gate.  *)
(* All waits are of confirmation level 1; level 2 (requestParameterFinal-  *)
(* Confirm) is not reachable in the workflow's graph.                      *)
(***************************************************************************)
EXTENDS FiniteSets

CONSTANTS
    Reqs,       \* the workflow runs
    ThreadOf,   \* the room of each
    UserOf      \* its user

VARIABLES
    pending,    \* the waits in __pendingHumanInputApprovals
    timers,     \* the waits whose expirationTimer is armed
    outcome     \* the state of each wait's promise

storeVars == <<pending, timers, outcome>>

Gates == {"review", "override"}
Waits == Reqs \X Gates
Outcomes == {"none", "open", "approved", "rejected", "failed"}
userOf(w) == UserOf[w[1]]

StoreInit ==
    /\ pending = {} /\ timers = {}
    /\ outcome = [w \in Waits |-> "none"]

\* Mutant: the entry's wrappers leave its timer alone.
SettleKeepingTimer(w, how) ==
    /\ pending' = pending \ {w}
    /\ UNCHANGED timers
    /\ outcome' = [outcome EXCEPT ![w] = how]
\* entry.resolve and entry.reject.
Settle(w, how) ==
    /\ pending' = pending \ {w}
    /\ timers' = timers \ {w}
    /\ outcome' = [outcome EXCEPT ![w] = how]

\* The entry that a new wait replaces: `.find` by thread, user and level.
SameModal(w) == {e \in pending : ThreadOf[e[1]] = ThreadOf[w[1]] /\ userOf(e) = userOf(w)}
\* Mutant: the modal is looked up by the request that asks.
existingOfRequest(w) == {e \in pending : e[1] = w[1]}
existing(w) == IF SameModal(w) = {} THEN {} ELSE {CHOOSE e \in SameModal(w) : TRUE}

\* Mutant: the replaced entry is dropped, its promise never settled.
WaitForDroppingOld(w) ==
    /\ pending' = (pending \ existing(w)) \union {w}
    /\ timers' = (timers \ existing(w)) \union {w}
    /\ outcome' = [outcome EXCEPT ![w] = "open"]
\* waitForHumanInputApproval.
WaitFor(w) ==
    /\ pending' = (pending \ existing(w)) \union {w}
    /\ timers' = (timers \ existing(w)) \union {w}
    /\ outcome' = [x \in Waits |-> IF x = w THEN "open"
                                   ELSE IF x \in existing(w) THEN "failed" ELSE outcome[x]]

\* POST .../approval: an entry is looked up by thread and approvalId and, if it
\* is the caller's own, resolved.  The client always sends the approvalId; a
\* caller that leaves it out gets the thread's newest entry, which is one too.
Decide(u, w, decision) ==
    /\ w \in pending /\ userOf(w) = u
    /\ Settle(w, decision)

\* The TTL timer fires; it does nothing about an entry that is gone.
Expire(w) ==
    /\ w \in timers
    /\ IF w \in pending THEN Settle(w, "failed")
                        ELSE timers' = timers \ {w} /\ UNCHANGED <<pending, outcome>>

\* Mutant: the modals lose their timers, not their entries.
RevokeTimersOnly(u) ==
    /\ timers' = timers \ {w \in pending : userOf(w) = u}
    /\ UNCHANGED <<pending, outcome>>
\* Mutant: the promise is resolved with a decision that is none.
RevokeAsRevoked(u) ==
    LET targets == {w \in pending : userOf(w) = u} IN
    /\ pending' = pending \ targets
    /\ timers' = timers \ targets
    /\ outcome' = [w \in Waits |-> IF w \in targets THEN "revoked" ELSE outcome[w]]
\* revokePendingApprovalsForUser.
Revoke(u) ==
    LET targets == {w \in pending : userOf(w) = u} IN
    /\ pending' = pending \ targets
    /\ timers' = timers \ targets
    /\ outcome' = [w \in Waits |-> IF w \in targets THEN "rejected" ELSE outcome[w]]

\* A wait is open exactly as long as somebody can still answer it and it can
\* still expire: none is left behind unanswerable, and no timer or entry
\* outlives it.
OpenWaitsAnswerable ==
    /\ pending = {w \in Waits : outcome[w] = "open"}
    /\ timers = pending

\* A user is asked about one thing at a time in a room
\* ("Pending human input approval replaced by a new request").
OneModalPerRoom ==
    \A v, w \in pending : ThreadOf[v[1]] = ThreadOf[w[1]] /\ userOf(v) = userOf(w) => v = w
=============================================================================
