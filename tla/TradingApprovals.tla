--------------------------- MODULE TradingApprovals ---------------------------
(***************************************************************************)
(* A write request on its way to the venue (requestParameterReview and     *)
(* executeAction of cexWorkflowMessageHandler.ts), the people who approve  *)
(* it, and the kill switch (PUT /user/trading/kill-switch in api.ts).      *)
(*                                                                         *)
(* A request reads the preferences, gets the risk engine's verdict, is     *)
(* shown to its user, and is sent.  Between any two awaits the other       *)
(* requests, the decisions, the timers and the kill switch may run.        *)
(* OrderExecution models what follows the sending.                         *)
(***************************************************************************)
EXTENDS HumanInput, RiskVerdicts

CONSTANTS
    AskedMode,  \* the mode each request names itself, "none" if it leaves it open
    Defaults,   \* the default_mode of each user when the requests arrive
    Halted,     \* the users whose kill switch may be on by then
    Composed,   \* the requests that come from the compose dialog, preapproved
    Toggles     \* bounds the calls that write preferences

ASSUME RequestAssumption ==
    /\ AskedMode \in [Reqs -> {"none", "live", "paper", "shadow"}]
    /\ Defaults \in [{UserOf[r] : r \in Reqs} -> {"live", "paper", "shadow"}]
    /\ Composed \subseteq Reqs

VARIABLES
    kill,       \* kill_switch_active in each user's stored preferences
    default_mode,   \* and the mode stored there
    toggle,     \* the calls of the two endpoints
    stage,      \* how far each request has come
    saw,        \* the kill_switch_active its precheck has read, while it runs
    seenOn,     \* history: requests that read the switch while it was on
    gate,       \* the mode its precheck has resolved, while it runs, or "none"
    sentAs,     \* the mode each request was sent in, or "none"
    drifted,    \* history: requests that left their mode open, and whose user's
                \* default became live, or could not be read, after the gate
    revoked,    \* history: requests whose wait was open when the switch revoked
    allowed     \* history: requests that the gate let through as live orders,
                \* the risk engine's word for them on record

modeVars == <<gate, sentAs>>
flowVars == <<stage, saw, seenOn, allowed, modeVars>>
killVars == <<kill, default_mode, toggle, revoked, drifted>>
vars     == <<storeVars, flowVars, killVars>>

Users == {UserOf[r] : r \in Reqs}
Modes == {"live", "paper", "shadow"}
review(r) == <<r, "review">>
override(r) == <<r, "override">>
unused == [stage |-> "unused"]
done == [stage |-> "done"]

Stages == {"review", "checking", "allowed", "deciding", "recording", "approved",
           "overriding", "sending", "sent", "ended"}

Init ==
    /\ StoreInit
    /\ kill \in {k \in [Users -> BOOLEAN] : \A u \in Users : k[u] => u \in Halted}
    /\ default_mode = Defaults
    /\ toggle = [k \in Toggles |-> unused]
    /\ stage = [r \in Reqs |-> "review"]
    /\ saw = [r \in Reqs |-> FALSE]
    /\ gate = [r \in Reqs |-> "none"] /\ sentAs = [r \in Reqs |-> "none"]
    /\ seenOn = {} /\ revoked = {} /\ allowed = {} /\ drifted = {}

To(r, s) == stage' = [stage EXCEPT ![r] = s]

------------------------------------------------------------------------------
(* The precheck. *)

\* The mode of a request that finds m stored; without one it is live.
Resolve(r, m) == IF AskedMode[r] = "none" THEN m ELSE AskedMode[r]

\* runRiskPrecheck fetches the preferences and resolves the mode; if the fetch
\* throws, the defaults hold, with the kill switch off and the mode live.
ReadPreferences(r) ==
    /\ stage[r] = "review"
    /\ \/ /\ saw' = [saw EXCEPT ![r] = kill[UserOf[r]]]
          /\ seenOn' = IF kill[UserOf[r]] THEN seenOn \union {r} ELSE seenOn
          /\ gate' = [gate EXCEPT ![r] = Resolve(r, default_mode[UserOf[r]])]
       \/ /\ saw' = [saw EXCEPT ![r] = FALSE] /\ UNCHANGED seenOn
          /\ gate' = [gate EXCEPT ![r] = Resolve(r, "live")]
    /\ To(r, "checking")
    /\ UNCHANGED <<allowed, sentAs, storeVars, killVars>>

\* The provider evaluates the rules and writes the verdict to the audit sink;
\* anything but `allow` ends the request.  So does an unhealthy dependency.
Precheck(r) ==
    /\ stage[r] = "checking"
    /\ \E unknownOrders \in {0, 1}, limits \in {"allow", "block"},
          wrote \in {"true", "false", "null"}, reconciled \in {"true", "false"} :
       LET verdict == merge(rule_results(saw[r], unknownOrders, limits))
           passes  == verdict = "allow" /\ checkTradingHealth(gate[r], wrote, reconciled)
       IN
       /\ To(r, IF passes THEN "allowed" ELSE "ended")
       /\ allowed' = IF passes /\ gate[r] = "live" /\ wrote = "true"
                     THEN allowed \union {r} ELSE allowed
    /\ saw' = [saw EXCEPT ![r] = FALSE] /\ gate' = [gate EXCEPT ![r] = "none"]
    /\ UNCHANGED <<seenOn, sentAs, storeVars, killVars>>

\* The provider throws: null counts as allow, the mode as "live", the audit as
\* not written.
PrecheckUnavailable(r) ==
    /\ stage[r] = "checking"
    /\ \E reconciled \in {"true", "false"} :
          To(r, IF checkTradingHealth("live", "null", reconciled) THEN "allowed" ELSE "ended")
    /\ saw' = [saw EXCEPT ![r] = FALSE] /\ gate' = [gate EXCEPT ![r] = "none"]
    /\ UNCHANGED <<seenOn, allowed, sentAs, storeVars, killVars>>

------------------------------------------------------------------------------
(* The review. *)

\* After the account and market snapshots: a composed create_order is approved
\* already, any other request waits for its user.
AskForReview(r) ==
    /\ stage[r] = "allowed"
    /\ IF r \in Composed
       THEN To(r, "recording") /\ UNCHANGED storeVars
       ELSE To(r, "deciding") /\ WaitFor(review(r))
    /\ UNCHANGED <<saw, seenOn, allowed, modeVars, killVars>>

\* The awaited promise: expired, replaced and rejected waits end the request.
\* (A rejection is recorded before it does.)
Reviewed(r) ==
    /\ stage[r] = "deciding" /\ outcome[review(r)] \in {"approved", "rejected", "failed"}
    /\ To(r, IF outcome[review(r)] = "approved" THEN "recording" ELSE "ended")
    /\ UNCHANGED <<saw, seenOn, allowed, modeVars, storeVars, killVars>>

\* writeApprovalDecision, best effort; then the approved parameters are
\* validated.
Record(r) ==
    /\ stage[r] = "recording"
    /\ \/ To(r, "approved") \/ To(r, "ended")
    /\ UNCHANGED <<saw, seenOn, allowed, modeVars, storeVars, killVars>>

------------------------------------------------------------------------------
(* executeAction, up to the lock. *)

\* The quote recheck may refuse; a row with the same client_order_id makes the
\* user decide once more.  (The id an override derives is new.)
Execute(r) ==
    /\ stage[r] = "approved"
    /\ \/ To(r, "ended") /\ UNCHANGED storeVars
       \/ To(r, "sending") /\ UNCHANGED storeVars
       \/ To(r, "overriding") /\ WaitFor(override(r))
    /\ UNCHANGED <<saw, seenOn, allowed, modeVars, killVars>>

\* Mutant: an override that nobody answered is one.
OverriddenAnyhow(r) ==
    /\ stage[r] = "overriding" /\ outcome[override(r)] \in {"approved", "rejected", "failed"}
    /\ To(r, IF outcome[override(r)] = "rejected" THEN "ended" ELSE "sending")
    /\ UNCHANGED <<saw, seenOn, allowed, modeVars, storeVars, killVars>>
Overridden(r) ==
    /\ stage[r] = "overriding" /\ outcome[override(r)] \in {"approved", "rejected", "failed"}
    /\ To(r, IF outcome[override(r)] = "approved" THEN "sending" ELSE "ended")
    /\ UNCHANGED <<saw, seenOn, allowed, modeVars, storeVars, killVars>>

\* Behind the lock the action runs.  It does not get the gate's mode: it reads
\* the default again, and if it cannot, takes what is cached of an earlier one or
\* live.  Only a paper order goes to the paper venue, a shadow order to the
\* exchange like a live one.
Send(r) ==
    /\ stage[r] = "sending"
    /\ To(r, "sent")
    /\ \/ /\ sentAs' = [sentAs EXCEPT ![r] = Resolve(r, default_mode[UserOf[r]])]
          /\ UNCHANGED drifted
       \/ /\ AskedMode[r] = "none"
          /\ \E cached \in Modes : sentAs' = [sentAs EXCEPT ![r] = cached]
          /\ drifted' = drifted \union {r}
    /\ UNCHANGED <<saw, seenOn, allowed, gate, storeVars, kill, default_mode, toggle, revoked>>

------------------------------------------------------------------------------
(* The kill switch. *)

\* setUserTradingPreferences of the endpoint.
StoreKillSwitch(k, u, active) ==
    /\ toggle[k] = unused
    /\ kill' = [kill EXCEPT ![u] = active]
    /\ toggle' = [toggle EXCEPT ![k] = [stage |-> "stored", user |-> u, active |-> active]]
    /\ UNCHANGED <<default_mode, drifted, revoked, storeVars, flowVars>>

\* Its writeKillSwitchEvent has returned: if the switch was turned on, every
\* approval the user has pending is revoked.
RevokeApprovals(k) ==
    /\ toggle[k].stage = "stored"
    /\ toggle' = [toggle EXCEPT ![k] = done]
    /\ IF toggle[k].active
       THEN /\ Revoke(toggle[k].user)
            /\ revoked' = revoked \union {w[1] : w \in {x \in pending : userOf(x) = toggle[k].user}}
       ELSE UNCHANGED <<storeVars, revoked>>
    /\ UNCHANGED <<kill, default_mode, drifted, flowVars>>

\* writeKillSwitchEvent throws: the switch is stored, and nothing else happens.
EventFails(k) ==
    /\ toggle[k].stage = "stored"
    /\ toggle' = [toggle EXCEPT ![k] = done]
    /\ UNCHANGED <<kill, default_mode, drifted, revoked, storeVars, flowVars>>

\* PUT /user/trading/preferences takes kill_switch_active and default_mode too,
\* and only stores them (live with the user's consent, and where it is allowed).
PutPreferences(k, u, active, m) ==
    /\ toggle[k] = unused
    /\ kill' = [kill EXCEPT ![u] = active]
    /\ default_mode' = [default_mode EXCEPT ![u] = m]
    /\ drifted' = drifted \union
           {r \in Reqs : /\ UserOf[r] = u /\ AskedMode[r] = "none"
                         /\ m = "live" /\ default_mode[u] # "live"
                         /\ stage[r] \notin {"review", "sent", "ended"}}
    /\ toggle' = [toggle EXCEPT ![k] = done]
    /\ UNCHANGED <<revoked, storeVars, flowVars>>

------------------------------------------------------------------------------
Step(r) ==
    \/ ReadPreferences(r) \/ Precheck(r) \/ PrecheckUnavailable(r)
    \/ AskForReview(r) \/ Reviewed(r) \/ Record(r)
    \/ Execute(r) \/ Overridden(r) \/ Send(r)

Answer(u, w, decision) == Decide(u, w, decision) /\ UNCHANGED <<flowVars, killVars>>
TimeOut(w) == Expire(w) /\ UNCHANGED <<flowVars, killVars>>

Next ==
    \/ \E r \in Reqs : Step(r)
    \/ \E w \in Waits :
          \/ TimeOut(w)
          \/ \E u \in Users, decision \in {"approved", "rejected"} : Answer(u, w, decision)
    \/ \E k \in Toggles :
          \/ RevokeApprovals(k) \/ EventFails(k)
          \/ \E u \in Users, active \in BOOLEAN :
                \/ StoreKillSwitch(k, u, active)
                \/ \E m \in Modes : PutPreferences(k, u, active, m)

Spec == Init /\ [][Next]_vars

\* Every await comes back and an armed timer fires; a user need not answer.
Fairness ==
    /\ \A r \in Reqs : WF_vars(Reviewed(r) \/ Record(r) \/ Execute(r) \/ Overridden(r) \/ Send(r))
    /\ \A w \in Waits : WF_vars(TimeOut(w))
FairSpec == Spec /\ Fairness

------------------------------------------------------------------------------
\* The types of the store, the requests and the endpoint's calls.
TypeOK ==
    /\ pending \subseteq Waits /\ timers \subseteq Waits
    /\ outcome \in [Waits -> Outcomes]
    /\ stage \in [Reqs -> Stages]
    /\ saw \in [Reqs -> BOOLEAN]
    /\ kill \in [Users -> BOOLEAN] /\ default_mode \in [Users -> Modes]
    /\ gate \in [Reqs -> Modes \union {"none"}] /\ sentAs \in [Reqs -> Modes \union {"none"}]
    /\ toggle \in [Toggles -> {unused, done} \union
                     [stage : {"stored"}, user : Users, active : BOOLEAN]]
    /\ seenOn \subseteq Reqs /\ revoked \subseteq Reqs
    /\ allowed \subseteq Reqs /\ drifted \subseteq Reqs

\* "Every action that submits a live order requires explicit approval"
\* (client/src/content/consent/liveTrading.v1.md:11): what is sent was approved
\* at every gate it was stopped at - not rejected, expired, replaced or revoked.
SentWasApproved ==
    \A r \in Reqs : stage[r] = "sent" =>
        /\ r \notin Composed => outcome[review(r)] = "approved"
        /\ outcome[override(r)] \in {"none", "approved"}

\* "activating the kill switch resolves every dangling approval modal
\* immediately" (humanInputState.ts:113-115): a request that was waiting for its
\* user when the switch revoked its approval is never sent.
RevokedIsOver == \A r \in revoked : stage[r] # "sent"

\* "a kill switch can never be unlocked by a lower-priority allow"
\* (killSwitch.ts:14): a request that found the switch on is never sent, however
\* often the switch is turned, whatever the other rules say, and if the risk
\* engine fails afterwards.
SwitchSeenStops == \A r \in seenOn : stage[r] # "sent"

\* "`live` mode: any reason -> block" (dependencyHealth.ts:60): an order is sent
\* live only if the gate let it through as live, on the risk engine's recorded
\* word; neither a precheck that throws nor an audit that is not written does.
\* Except for a request that left its mode open: if its user's default becomes
\* live, or cannot be read, while it waits, the gate is not asked again.
LiveOrdersAudited ==
    \A r \in Reqs : sentAs[r] = "live" => r \in allowed \union drifted

\* Every request comes to an end, though its user never answers, and whatever
\* replaces or revokes its approval.
RequestsEnd == \A r \in Reqs \ Composed : stage[r] = "deciding" ~> stage[r] \in {"sent", "ended"}
=============================================================================
