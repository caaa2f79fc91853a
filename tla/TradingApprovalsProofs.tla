------------------------ MODULE TradingApprovalsProofs ------------------------
(***************************************************************************)
(* Proofs about the approvals, for any requests, users, rooms, modes and   *)
(* any number of calls of the kill-switch endpoint.                        *)
(*                                                                         *)
(* The argument: a wait is open exactly while it is pending (StoreInv), so *)
(* an outcome that a request has met is final: neither the endpoint nor a  *)
(* timer, a replacement or a revocation can touch it again.  What a        *)
(* request has passed can then be told from its stage (FlowInv).           *)
(***************************************************************************)
EXTENDS TradingApprovals, TLAPS

\* The stages in which a request has not asked for its review yet, and those
\* that only a passed review leads to.
Before == {"review", "checking", "allowed"}
After  == {"recording", "approved", "overriding", "sending", "sent"}

StoreInv == TypeOK /\ OpenWaitsAnswerable /\ OneModalPerRoom

\* The waits of a request are as far as it is.
WaitsFit ==
    \A r \in Reqs :
        /\ stage[r] \in Before => outcome[review(r)] = "none"
        /\ stage[r] \in Before \union {"deciding", "recording", "approved"}
              => outcome[override(r)] = "none"
        /\ outcome[review(r)] = "open" => stage[r] = "deciding"
        /\ outcome[override(r)] = "open" => stage[r] = "overriding"

ReviewPassed ==
    \A r \in Reqs \ Composed : stage[r] \in After => outcome[review(r)] = "approved"
OverridePassed ==
    \A r \in Reqs : stage[r] \in {"sending", "sent"} => outcome[override(r)] \in {"none", "approved"}
\* A request whose wait was revoked has ended, or is about to find out.
RevokedStops ==
    \A r \in revoked :
        \/ stage[r] = "ended"
        \/ stage[r] = "deciding" /\ outcome[review(r)] = "rejected"
        \/ stage[r] = "overriding" /\ outcome[override(r)] = "rejected"
\* One that found the switch on has ended, or is still in its precheck.
SeenStops ==
    \A r \in seenOn : stage[r] = "ended" \/ (stage[r] = "checking" /\ saw[r])
\* A request that would be live now was live at its gate, or has drifted since.
Live(r) == Resolve(r, default_mode[UserOf[r]]) = "live"
GateRead ==
    \A r \in Reqs : stage[r] = "checking" /\ Live(r) => gate[r] = "live" \/ r \in drifted
LivePassed ==
    \A r \in Reqs : stage[r] \in {"allowed", "deciding"} \union (After \ {"sent"}) /\ Live(r)
                       => r \in allowed \union drifted
LiveSent == \A r \in Reqs : sentAs[r] = "live" => r \in allowed \union drifted
LiveInv == GateRead /\ LivePassed /\ LiveSent

FlowInv ==
    WaitsFit /\ ReviewPassed /\ OverridePassed /\ RevokedStops /\ SeenStops /\ LiveInv
Inv == StoreInv /\ FlowInv

(***************************************************************************)
(* The verdicts.                                                           *)
(***************************************************************************)

\* No rule outranks a block.
LEMMA BlockWins ==
    ASSUME NEW u \in {0, 1}, NEW l \in {"allow", "block"}
    PROVE  merge(rule_results(TRUE, u, l)) = "block"
<1> DEFINE results == rule_results(TRUE, u, l)
           verdicts == {results[i] : i \in DOMAIN results}
           top(v) == \A i \in DOMAIN results : VERDICT_RANK[results[i]] <= VERDICT_RANK[v]
<1>1. DOMAIN results = 1 .. 3 /\ results[1] = "block"
      /\ \A i \in 1 .. 3 : results[i] \in {"allow", "block"}
  BY DEF rule_results, killSwitch, unknownStateBlocker
<1>2. VERDICT_RANK["block"] = 2 /\ VERDICT_RANK["allow"] = 0
  BY DEF VERDICT_RANK
<1>3. merge(rule_results(TRUE, u, l)) = CHOOSE v \in verdicts : top(v)
  BY DEF merge
<1> HIDE DEF results
<1>4. verdicts \subseteq {"allow", "block"} /\ "block" \in verdicts
  BY <1>1
<1>5. top("block")
  <2> SUFFICES ASSUME NEW i \in 1 .. 3
               PROVE  VERDICT_RANK[results[i]] <= VERDICT_RANK["block"]
    BY <1>1
  <2>1. results[i] \in {"allow", "block"}
    BY <1>1
  <2> QED
    BY <1>2, <2>1
<1>6. ~top("allow")
  BY <1>1, <1>2
<1> HIDE DEF verdicts, top
<1>7. (CHOOSE v \in verdicts : top(v)) \in verdicts /\ top(CHOOSE v \in verdicts : top(v))
  BY <1>4, <1>5
<1> QED
  BY <1>3, <1>4, <1>6, <1>7

\* Without the audit's word a live request is not healthy.
LEMMA LiveNeedsAudit ==
    \A wrote, reconciled : checkTradingHealth("live", wrote, reconciled) => wrote = "true"
  BY DEF checkTradingHealth

(***************************************************************************)
(* The store.                                                              *)
(***************************************************************************)

\* The gates of a request are waits of their own.
LEMMA GatesOfRequests ==
    /\ \A r \in Reqs : review(r) \in Waits /\ override(r) \in Waits
    /\ \A w \in Waits : w[1] \in Reqs /\ (w = review(w[1]) \/ w = override(w[1]))
    /\ \A r, q \in Reqs : review(r) # override(q)
    /\ \A r, q \in Reqs : review(r) = review(q) => r = q
    /\ \A r, q \in Reqs : override(r) = override(q) => r = q
  BY DEF Waits, Gates, review, override

\* An open wait is settled: its entry and its timer go with it.
LEMMA SettleStore ==
    ASSUME StoreInv, NEW w \in pending, NEW how \in {"approved", "rejected", "failed"},
           Settle(w, how)
    PROVE  /\ outcome' \in [Waits -> Outcomes] /\ pending' \subseteq Waits /\ timers' \subseteq Waits
           /\ OpenWaitsAnswerable' /\ OneModalPerRoom'
           /\ \A x \in Waits : outcome'[x] = IF x = w THEN how ELSE outcome[x]
           /\ w \in Waits /\ outcome[w] = "open"
<1>1. w \in Waits /\ outcome[w] = "open"
  BY DEF StoreInv, OpenWaitsAnswerable
<1>2. \A x \in Waits : outcome'[x] = IF x = w THEN how ELSE outcome[x]
  BY <1>1 DEF Settle, StoreInv, TypeOK
<1>3. outcome' \in [Waits -> Outcomes]
  BY <1>1 DEF Settle, StoreInv, TypeOK, Outcomes
<1>4. pending' \subseteq Waits /\ timers' \subseteq Waits
  BY DEF Settle, StoreInv, TypeOK
<1>5. OpenWaitsAnswerable'
  BY <1>1, <1>2 DEF Settle, StoreInv, OpenWaitsAnswerable
<1>6. OneModalPerRoom'
  BY DEF Settle, StoreInv, OneModalPerRoom, userOf
<1> QED
  BY <1>1, <1>2, <1>3, <1>4, <1>5, <1>6

\* So is every wait of the user whose approvals are revoked.
LEMMA RevokeStore ==
    ASSUME StoreInv, NEW u, Revoke(u)
    PROVE  /\ outcome' \in [Waits -> Outcomes] /\ pending' \subseteq Waits /\ timers' \subseteq Waits
           /\ OpenWaitsAnswerable' /\ OneModalPerRoom'
           /\ \A x \in Waits : outcome'[x] =
                 IF outcome[x] = "open" /\ userOf(x) = u THEN "rejected" ELSE outcome[x]
<1>1. pending = {x \in Waits : outcome[x] = "open"} /\ timers = pending
  BY DEF StoreInv, OpenWaitsAnswerable
<1>2. \A x \in Waits : outcome'[x] =
         IF outcome[x] = "open" /\ userOf(x) = u THEN "rejected" ELSE outcome[x]
  BY <1>1 DEF Revoke
<1>3. outcome' \in [Waits -> Outcomes]
  <2>1. outcome' = [x \in Waits |-> outcome'[x]]
    BY DEF Revoke
  <2> QED
    BY <1>2, <2>1 DEF StoreInv, TypeOK, Outcomes
<1>4. pending' \subseteq Waits /\ timers' \subseteq Waits
  BY DEF Revoke, StoreInv, TypeOK
<1>5. OpenWaitsAnswerable'
  BY <1>1, <1>2 DEF Revoke, OpenWaitsAnswerable
<1>6. OneModalPerRoom'
  BY DEF Revoke, StoreInv, OneModalPerRoom, userOf
<1> QED
  BY <1>2, <1>3, <1>4, <1>5, <1>6

\* A new wait takes the place of the one that is open for its user and room.
LEMMA WaitForStore ==
    ASSUME StoreInv, NEW w \in Waits, outcome[w] = "none", WaitFor(w)
    PROVE  /\ outcome' \in [Waits -> Outcomes] /\ pending' \subseteq Waits /\ timers' \subseteq Waits
           /\ OpenWaitsAnswerable' /\ OneModalPerRoom'
           /\ outcome'[w] = "open"
           /\ \A x \in Waits : x # w =>
                 outcome'[x] = outcome[x] \/ (outcome[x] = "open" /\ outcome'[x] = "failed")
<1>1. pending = {x \in Waits : outcome[x] = "open"} /\ timers = pending
  BY DEF StoreInv, OpenWaitsAnswerable
<1>2. existing(w) = SameModal(w)
  <2>1. \A v, x \in SameModal(w) : v = x
    BY DEF SameModal, StoreInv, OneModalPerRoom
  <2> QED
    BY <2>1 DEF existing
<1>3. existing(w) \subseteq pending /\ w \notin pending
  BY <1>1, <1>2 DEF SameModal
<1>4. \A x \in Waits : outcome'[x] = IF x = w THEN "open"
                                     ELSE IF x \in existing(w) THEN "failed" ELSE outcome[x]
  BY DEF WaitFor
<1>5. outcome' \in [Waits -> Outcomes]
  <2>1. outcome' = [x \in Waits |-> outcome'[x]]
    BY DEF WaitFor
  <2> QED
    BY <1>4, <2>1 DEF StoreInv, TypeOK, Outcomes
<1>6. pending' = (pending \ existing(w)) \union {w} /\ timers' = pending'
  BY <1>1 DEF WaitFor
<1>7. pending' \subseteq Waits /\ timers' \subseteq Waits
  BY <1>1, <1>6
<1>8. OpenWaitsAnswerable'
  BY <1>1, <1>3, <1>4, <1>6 DEF OpenWaitsAnswerable
<1>9. OneModalPerRoom'
  BY <1>2, <1>6 DEF StoreInv, OneModalPerRoom, SameModal, userOf
<1> QED
  BY <1>1, <1>3, <1>4, <1>5, <1>7, <1>8, <1>9

(***************************************************************************)
(* The steps.                                                              *)
(***************************************************************************)

\* A request moves on and the store stays as it is.
LEMMA StoreRests ==
    ASSUME StoreInv, UNCHANGED storeVars
    PROVE  /\ outcome' \in [Waits -> Outcomes] /\ pending' \subseteq Waits /\ timers' \subseteq Waits
           /\ OpenWaitsAnswerable' /\ OneModalPerRoom' /\ outcome' = outcome
  BY DEF StoreInv, TypeOK, storeVars, OpenWaitsAnswerable, OneModalPerRoom

LEMMA InitInv == Init => Inv
<1> SUFFICES ASSUME Init PROVE Inv
  OBVIOUS
<1>1. TypeOK
  BY RequestAssumption DEF Init, StoreInit, TypeOK, Outcomes, Stages, Modes, Users, unused
<1>2. OpenWaitsAnswerable /\ OneModalPerRoom
  BY DEF Init, StoreInit, OpenWaitsAnswerable, OneModalPerRoom
<1>3. \A r \in Reqs : outcome[review(r)] = "none" /\ outcome[override(r)] = "none"
  BY GatesOfRequests DEF Init, StoreInit
<1>4. FlowInv
  BY <1>3 DEF Init, FlowInv, WaitsFit, ReviewPassed, OverridePassed, RevokedStops, SeenStops,
              LiveInv, GateRead, LivePassed, LiveSent, After, Before
<1> QED
  BY <1>1, <1>2, <1>4 DEF Inv, StoreInv

\* The precheck.
LEMMA PrecheckSteps ==
    ASSUME Inv, NEW r \in Reqs, ReadPreferences(r) \/ Precheck(r) \/ PrecheckUnavailable(r)
    PROVE  Inv'
<1> USE DEF Inv, FlowInv
<1>1. /\ outcome' \in [Waits -> Outcomes] /\ pending' \subseteq Waits /\ timers' \subseteq Waits
      /\ OpenWaitsAnswerable' /\ OneModalPerRoom' /\ outcome' = outcome
  BY StoreRests DEF ReadPreferences, Precheck, PrecheckUnavailable
<1>2. TypeOK /\ stage[r] \in {"review", "checking"} /\ UserOf[r] \in Users
  BY DEF StoreInv, ReadPreferences, Precheck, PrecheckUnavailable, Users
<1>3. PICK s \in {"checking", "allowed", "ended"} : To(r, s)
  BY DEF ReadPreferences, Precheck, PrecheckUnavailable
<1>4. \A q \in Reqs : stage'[q] = IF q = r THEN s ELSE stage[q]
  BY <1>2, <1>3 DEF To, TypeOK
<1>5. /\ UNCHANGED killVars /\ allowed \subseteq allowed' /\ allowed' \subseteq allowed \union {r}
      /\ seenOn' \subseteq seenOn \union {r}
  BY DEF ReadPreferences, Precheck, PrecheckUnavailable
<1>6. saw' \in [Reqs -> BOOLEAN] /\ \A q \in Reqs : q # r => saw'[q] = saw[q]
  BY <1>2 DEF ReadPreferences, Precheck, PrecheckUnavailable, TypeOK
<1>7. TypeOK'
  <2>1. /\ gate' \in [Reqs -> Modes \union {"none"}] /\ sentAs' \in [Reqs -> Modes \union {"none"}]
    <3>1. "live" \in Modes /\ \A m \in Modes : Resolve(r, m) \in Modes
      BY RequestAssumption DEF Resolve, Modes
    <3>2. default_mode[UserOf[r]] \in Modes
      BY <1>2 DEF TypeOK
    <3> QED
      BY <1>2, <3>1, <3>2 DEF ReadPreferences, Precheck, PrecheckUnavailable, TypeOK
  <2> QED
    BY <1>1, <1>2, <1>3, <1>5, <1>6, <2>1 DEF TypeOK, killVars, To, Stages
<1>8. WaitsFit'
  BY <1>1, <1>2, <1>4 DEF WaitsFit, Before, review, override
<1>9. ReviewPassed' /\ OverridePassed'
  BY <1>1, <1>4 DEF ReviewPassed, OverridePassed, After, review, override
<1>10. RevokedStops'
  BY <1>1, <1>2, <1>4, <1>5 DEF RevokedStops, TypeOK, killVars, review, override
<1>11. SeenStops'
  <2>1. CASE ReadPreferences(r)
    <3>1. s = "checking" /\ (r \in seenOn' => saw'[r])
      BY <1>2, <1>3, <1>4, <2>1 DEF ReadPreferences, SeenStops, To, TypeOK
    <3> QED
      BY <1>4, <1>5, <1>6, <3>1, <1>2 DEF SeenStops, TypeOK
  <2>2. CASE Precheck(r)
    <3>1. saw[r] => s = "ended"
      BY <1>2, <1>3, <1>4, <2>2, BlockWins DEF Precheck, To, TypeOK
    <3>2. r \in seenOn => saw[r]
      BY <2>2 DEF SeenStops, Precheck
    <3> QED
      BY <1>2, <1>4, <1>6, <2>2, <3>1, <3>2 DEF SeenStops, Precheck, TypeOK
  <2>3. CASE PrecheckUnavailable(r)
    <3>1. s = "ended"
      BY <1>2, <1>3, <1>4, <2>3, LiveNeedsAudit DEF PrecheckUnavailable, To, TypeOK
    <3> QED
      BY <1>2, <1>4, <1>6, <2>3, <3>1 DEF SeenStops, PrecheckUnavailable, TypeOK
  <2> QED
    BY <2>1, <2>2, <2>3
<1>12. LiveInv'
  <2>1. /\ \A q \in Reqs : Live(q)' <=> Live(q)
        /\ UNCHANGED <<default_mode, drifted, sentAs>>
        /\ \A q \in Reqs : q # r => gate'[q] = gate[q]
    BY <1>2, <1>5 DEF Live, Resolve, killVars, ReadPreferences, Precheck, PrecheckUnavailable, TypeOK
  <2>2. ASSUME s = "checking" PROVE Live(r) => gate'[r] = "live"
    <3>1. ReadPreferences(r)
      BY <1>2, <1>3, <1>4, <2>2 DEF Precheck, PrecheckUnavailable, To, TypeOK
    <3> QED
      BY <1>2, <3>1 DEF ReadPreferences, TypeOK, Live, Resolve
  <2>3. ASSUME s = "allowed", Live(r) PROVE r \in allowed' \union drifted
    <3>1. CASE ReadPreferences(r)
      BY <1>2, <1>3, <1>4, <2>3, <3>1 DEF ReadPreferences, To, TypeOK
    <3>2. CASE Precheck(r)
      BY <1>2, <1>3, <1>4, <2>3, <3>2, LiveNeedsAudit DEF Precheck, To, TypeOK, GateRead, LiveInv
    <3>3. CASE PrecheckUnavailable(r)
      BY <1>2, <1>3, <1>4, <2>3, <3>3, LiveNeedsAudit DEF PrecheckUnavailable, To, TypeOK
    <3> QED
      BY <3>1, <3>2, <3>3
  <2>4. GateRead'
    BY <1>4, <2>1, <2>2 DEF LiveInv, GateRead
  <2>5. LivePassed'
    BY <1>3, <1>4, <1>5, <2>1, <2>3 DEF LiveInv, LivePassed, After
  <2>6. LiveSent'
    BY <1>5, <2>1 DEF LiveInv, LiveSent
  <2> QED
    BY <2>4, <2>5, <2>6 DEF LiveInv
<1> QED
  BY <1>1, <1>7, <1>8, <1>9, <1>10, <1>11, <1>12 DEF StoreInv

\* The steps after it: what a request passes on the way to the venue.
LEMMA ReviewSteps ==
    ASSUME Inv, NEW r \in Reqs, Reviewed(r) \/ Record(r) \/ Overridden(r) \/ Send(r)
    PROVE  Inv'
<1> USE DEF Inv, FlowInv
<1>1. /\ outcome' \in [Waits -> Outcomes] /\ pending' \subseteq Waits /\ timers' \subseteq Waits
      /\ OpenWaitsAnswerable' /\ OneModalPerRoom' /\ outcome' = outcome
  BY StoreRests DEF Reviewed, Record, Overridden, Send
<1>2. TypeOK /\ stage[r] \in {"deciding", "recording", "overriding", "sending"}
  BY DEF StoreInv, Reviewed, Record, Overridden, Send
<1>3. PICK s \in {"recording", "approved", "sending", "sent", "ended"} :
         /\ To(r, s)
         /\ s = "recording" => stage[r] = "deciding" /\ outcome[review(r)] = "approved"
         /\ s = "approved" => stage[r] = "recording"
         /\ s = "sending" => stage[r] = "overriding" /\ outcome[override(r)] = "approved"
         /\ s = "sent" => stage[r] = "sending"
         /\ stage[r] = "deciding" => outcome[review(r)] # "open"
         /\ stage[r] = "overriding" => outcome[override(r)] # "open"
  BY DEF Reviewed, Record, Overridden, Send
<1>4. \A q \in Reqs : stage'[q] = IF q = r THEN s ELSE stage[q]
  BY <1>2, <1>3 DEF To, TypeOK
<1>5. /\ UNCHANGED <<saw, seenOn, allowed, gate, kill, default_mode, toggle, revoked>>
      /\ drifted \subseteq drifted' /\ drifted' \subseteq drifted \union {r}
  BY DEF Reviewed, Record, Overridden, Send, killVars, modeVars
<1>5a. /\ sentAs' \in [Reqs -> Modes \union {"none"}]
       /\ \A q \in Reqs : sentAs'[q] = "live" =>
              sentAs[q] = "live" \/ (q = r /\ s = "sent" /\ (Live(r) \/ r \in drifted'))
  <2>1. CASE Send(r)
    <3>1. s = "sent"
      BY <1>2, <1>3, <1>4, <2>1 DEF Send, To, TypeOK
    <3>2. default_mode[UserOf[r]] \in Modes /\ \A m \in Modes : Resolve(r, m) \in Modes
      BY <1>2, RequestAssumption DEF TypeOK, Users, Resolve, Modes
    <3> QED
      BY <1>2, <2>1, <3>1, <3>2 DEF Send, TypeOK, Live
  <2>2. CASE Reviewed(r) \/ Record(r) \/ Overridden(r)
    BY <1>2, <2>2 DEF Reviewed, Record, Overridden, modeVars, TypeOK
  <2> QED
    BY <2>1, <2>2
<1>6. TypeOK'
  BY <1>1, <1>2, <1>3, <1>5, <1>5a DEF TypeOK, To, Stages
<1>7. WaitsFit'
  BY <1>1, <1>2, <1>3, <1>4 DEF WaitsFit, Before, review, override
<1>8. ReviewPassed'
  BY <1>1, <1>2, <1>3, <1>4 DEF ReviewPassed, After, review
<1>9. OverridePassed'
  BY <1>1, <1>2, <1>3, <1>4 DEF OverridePassed, override
<1>10. RevokedStops'
  <2> SUFFICES ASSUME NEW q \in revoked
               PROVE  \/ stage'[q] = "ended"
                      \/ stage'[q] = "deciding" /\ outcome[review(q)] = "rejected"
                      \/ stage'[q] = "overriding" /\ outcome[override(q)] = "rejected"
    BY <1>1, <1>5 DEF RevokedStops, review, override
  <2>1. q \in Reqs
    BY <1>2 DEF TypeOK
  <2> QED
    BY <1>2, <1>3, <1>4, <2>1 DEF RevokedStops
<1>11. SeenStops'
  BY <1>2, <1>4, <1>5 DEF SeenStops, TypeOK
<1>12. LiveInv'
  <2>1. \A q \in Reqs : Live(q)' <=> Live(q)
    BY <1>5 DEF Live
  <2>2. GateRead' /\ LivePassed'
    BY <1>2, <1>3, <1>4, <1>5, <2>1 DEF LiveInv, GateRead, LivePassed, After
  <2>3. LiveSent'
    BY <1>2, <1>3, <1>5, <1>5a DEF LiveInv, LivePassed, LiveSent, After
  <2> QED
    BY <2>2, <2>3 DEF LiveInv
<1> QED
  BY <1>1, <1>6, <1>7, <1>8, <1>9, <1>10, <1>11, <1>12 DEF StoreInv

\* A request opens a modal, or needs none.
LEMMA AskSteps ==
    ASSUME Inv, NEW r \in Reqs, AskForReview(r) \/ Execute(r)
    PROVE  Inv'
<1> USE DEF Inv, FlowInv
<1>1. TypeOK /\ stage[r] \in {"allowed", "approved"} /\ review(r) \in Waits /\ override(r) \in Waits
  BY GatesOfRequests DEF StoreInv, AskForReview, Execute
<1>2. UNCHANGED <<saw, seenOn, allowed, modeVars, killVars>>
  BY DEF AskForReview, Execute
<1>3. outcome[override(r)] = "none" /\ (stage[r] = "allowed" => outcome[review(r)] = "none")
  BY <1>1 DEF WaitsFit, Before
<1>4. PICK s \in {"recording", "deciding", "ended", "sending", "overriding"} :
         /\ To(r, s)
         /\ \/ s = "recording" /\ stage[r] = "allowed" /\ r \in Composed /\ UNCHANGED storeVars
            \/ s = "deciding" /\ stage[r] = "allowed" /\ WaitFor(review(r))
            \/ s \in {"ended", "sending"} /\ stage[r] = "approved" /\ UNCHANGED storeVars
            \/ s = "overriding" /\ stage[r] = "approved" /\ WaitFor(override(r))
  BY DEF AskForReview, Execute
<1>5. \A q \in Reqs : stage'[q] = IF q = r THEN s ELSE stage[q]
  BY <1>1, <1>4 DEF To, TypeOK
<1>6. /\ outcome' \in [Waits -> Outcomes] /\ pending' \subseteq Waits /\ timers' \subseteq Waits
      /\ OpenWaitsAnswerable' /\ OneModalPerRoom'
      /\ \A x \in Waits :
            \/ outcome'[x] = outcome[x]
            \/ outcome[x] = "open" /\ outcome'[x] = "failed"
            \/ x = review(r) /\ s = "deciding" /\ outcome'[x] = "open"
            \/ x = override(r) /\ s = "overriding" /\ outcome'[x] = "open"
      /\ s = "deciding" => outcome'[override(r)] = "none"
      /\ s \in {"recording", "ended", "sending"} => outcome' = outcome
  <2>1. CASE UNCHANGED storeVars /\ s \in {"recording", "ended", "sending"}
    BY <2>1, StoreRests
  <2>2. CASE s = "deciding" /\ stage[r] = "allowed" /\ WaitFor(review(r))
    BY <1>1, <1>3, <2>2, WaitForStore, GatesOfRequests
  <2>3. CASE s = "overriding" /\ WaitFor(override(r))
    BY <1>1, <1>3, <2>3, WaitForStore
  <2> QED
    BY <1>4, <2>1, <2>2, <2>3
<1>7. TypeOK'
  BY <1>1, <1>2, <1>4, <1>6 DEF TypeOK, To, Stages, killVars, modeVars
<1>8. \A q \in Reqs : /\ q # r => outcome'[review(q)] = outcome[review(q)]
                              \/ (outcome[review(q)] = "open" /\ outcome'[review(q)] = "failed")
                      /\ q # r => outcome'[override(q)] = outcome[override(q)]
                              \/ (outcome[override(q)] = "open" /\ outcome'[override(q)] = "failed")
                      /\ outcome[review(q)] = "approved" /\ stage[q] # "allowed"
                              => outcome'[review(q)] = "approved"
  BY <1>4, <1>6, GatesOfRequests
<1>9. WaitsFit'
  <2> SUFFICES ASSUME NEW q \in Reqs
               PROVE  /\ stage'[q] \in Before => outcome'[review(q)] = "none"
                      /\ stage'[q] \in Before \union {"deciding", "recording", "approved"}
                            => outcome'[override(q)] = "none"
                      /\ outcome'[review(q)] = "open" => stage'[q] = "deciding"
                      /\ outcome'[override(q)] = "open" => stage'[q] = "overriding"
    BY DEF WaitsFit, review, override
  <2>1. CASE q # r
    BY <1>5, <1>8, <2>1 DEF WaitsFit
  <2>2. CASE q = r
    BY <1>1, <1>3, <1>4, <1>5, <1>6, <2>2, GatesOfRequests DEF WaitsFit, Before
  <2> QED
    BY <2>1, <2>2
<1>10. ReviewPassed'
  <2> SUFFICES ASSUME NEW q \in Reqs \ Composed, stage'[q] \in After
               PROVE  outcome'[review(q)] = "approved"
    BY DEF ReviewPassed, review
  <2>1. stage[q] \in After
    BY <1>4, <1>5 DEF After
  <2> QED
    BY <1>8, <2>1 DEF ReviewPassed, After
<1>11. OverridePassed'
  <2> SUFFICES ASSUME NEW q \in Reqs, stage'[q] \in {"sending", "sent"}
               PROVE  outcome'[override(q)] \in {"none", "approved"}
    BY DEF OverridePassed, override
  <2>1. CASE q # r
    BY <1>5, <1>8, <2>1 DEF OverridePassed
  <2>2. CASE q = r
    BY <1>3, <1>5, <1>6, <2>2
  <2> QED
    BY <2>1, <2>2
<1>12. RevokedStops'
  <2> SUFFICES ASSUME NEW q \in revoked
               PROVE  \/ stage'[q] = "ended"
                      \/ stage'[q] = "deciding" /\ outcome'[review(q)] = "rejected"
                      \/ stage'[q] = "overriding" /\ outcome'[override(q)] = "rejected"
    BY <1>2 DEF RevokedStops, killVars, review, override
  <2>1. q \in Reqs /\ q # r
    BY <1>1 DEF RevokedStops, TypeOK
  <2> QED
    BY <1>5, <1>8, <2>1 DEF RevokedStops
<1>13. SeenStops'
  BY <1>1, <1>2, <1>5 DEF SeenStops, TypeOK
<1>14. LiveInv'
  <2>1. \A q \in Reqs : Live(q)' <=> Live(q)
    BY <1>2 DEF Live, killVars
  <2> QED
    BY <1>1, <1>2, <1>4, <1>5, <2>1
    DEF LiveInv, GateRead, LivePassed, LiveSent, After, modeVars, killVars
<1> QED
  BY <1>6, <1>7, <1>9, <1>10, <1>11, <1>12, <1>13, <1>14 DEF StoreInv

\* As long as no request moves and no default changes, nothing becomes live.
LEMMA LiveRests ==
    ASSUME LiveInv, UNCHANGED <<flowVars, default_mode, drifted>>
    PROVE  LiveInv'
<1>1. \A q \in Reqs : Live(q)' <=> Live(q)
  BY DEF Live
<1> QED
  BY <1>1 DEF LiveInv, GateRead, LivePassed, LiveSent, flowVars, modeVars

\* Open waits are settled, each of a request that waits for it, and nothing
\* else happens to the requests.
LEMMA SettledInv ==
    ASSUME Inv, TypeOK', OpenWaitsAnswerable', OneModalPerRoom',
           UNCHANGED flowVars, LiveInv',
           \A w \in Waits : outcome'[w] = outcome[w]
                \/ (outcome[w] = "open" /\ outcome'[w] \in {"approved", "rejected", "failed"}),
           \A r \in revoked' : \/ r \in revoked
                               \/ \E w \in {review(r), override(r)} :
                                     /\ w \in Waits
                                     /\ outcome[w] = "open" /\ outcome'[w] = "rejected"
    PROVE  Inv'
<1> USE DEF Inv, FlowInv
<1>1. UNCHANGED <<stage, saw, seenOn, allowed>>
  BY DEF flowVars
<1>2. TypeOK /\ revoked' \subseteq Reqs
  BY DEF StoreInv, TypeOK
<1>3. \A r \in Reqs :
         /\ \/ outcome'[review(r)] = outcome[review(r)]
            \/ outcome[review(r)] = "open"
               /\ outcome'[review(r)] \in {"approved", "rejected", "failed"}
         /\ \/ outcome'[override(r)] = outcome[override(r)]
            \/ outcome[override(r)] = "open"
               /\ outcome'[override(r)] \in {"approved", "rejected", "failed"}
  BY GatesOfRequests
<1>4. WaitsFit'
  <2> SUFFICES ASSUME NEW q \in Reqs
               PROVE  /\ stage[q] \in Before => outcome'[review(q)] = "none"
                      /\ stage[q] \in Before \union {"deciding", "recording", "approved"}
                            => outcome'[override(q)] = "none"
                      /\ outcome'[review(q)] = "open" => stage[q] = "deciding"
                      /\ outcome'[override(q)] = "open" => stage[q] = "overriding"
    BY <1>1 DEF WaitsFit, review, override
  <2> QED
    BY <1>3 DEF WaitsFit
<1>5. ReviewPassed'
  BY <1>1, <1>3 DEF ReviewPassed, WaitsFit, review
<1>6. OverridePassed'
  <2> SUFFICES ASSUME NEW q \in Reqs, stage[q] \in {"sending", "sent"}
               PROVE  outcome'[override(q)] \in {"none", "approved"}
    BY <1>1 DEF OverridePassed, override
  <2> QED
    BY <1>3 DEF OverridePassed
<1>7. RevokedStops'
  <2> SUFFICES ASSUME NEW q \in revoked'
               PROVE  \/ stage[q] = "ended"
                      \/ stage[q] = "deciding" /\ outcome'[review(q)] = "rejected"
                      \/ stage[q] = "overriding" /\ outcome'[override(q)] = "rejected"
    BY <1>1 DEF RevokedStops, review, override
  <2>1. CASE q \in revoked
    BY <1>2, <1>3, <2>1 DEF RevokedStops
  <2>2. CASE \E w \in {review(q), override(q)} :
                w \in Waits /\ outcome[w] = "open" /\ outcome'[w] = "rejected"
    BY <1>2, <2>2 DEF WaitsFit
  <2> QED
    BY <2>1, <2>2
<1>8. SeenStops'
  BY <1>1 DEF SeenStops
<1> QED
  BY <1>4, <1>5, <1>6, <1>7, <1>8 DEF StoreInv

\* A user's decision and the end of the TTL.
LEMMA AnswerSteps ==
    ASSUME Inv, NEW w \in Waits,
           TimeOut(w) \/ \E u \in Users, decision \in {"approved", "rejected"} : Answer(u, w, decision)
    PROVE  Inv'
<1>1. timers = pending
  BY DEF Inv, StoreInv, OpenWaitsAnswerable
<1>2. PICK how \in {"approved", "rejected", "failed"} : w \in pending /\ Settle(w, how)
  BY <1>1 DEF TimeOut, Expire, Answer, Decide
<1>3. UNCHANGED <<flowVars, kill, default_mode, toggle, revoked, drifted>> /\ LiveInv'
  BY LiveRests DEF Inv, FlowInv, TimeOut, Answer, killVars
<1>4. /\ outcome' \in [Waits -> Outcomes] /\ pending' \subseteq Waits /\ timers' \subseteq Waits
      /\ OpenWaitsAnswerable' /\ OneModalPerRoom'
      /\ \A x \in Waits : outcome'[x] = IF x = w THEN how ELSE outcome[x]
      /\ outcome[w] = "open"
  BY <1>2, SettleStore DEF Inv
<1>5. TypeOK'
  BY <1>3, <1>4 DEF Inv, StoreInv, TypeOK, flowVars, modeVars
<1> QED
  BY <1>3, <1>4, <1>5, SettledInv

\* The kill switch.
LEMMA KillSwitchSteps ==
    ASSUME Inv, NEW k \in Toggles,
           \/ RevokeApprovals(k) \/ EventFails(k)
           \/ \E u \in Users, active \in BOOLEAN :
                 \/ StoreKillSwitch(k, u, active)
                 \/ \E m \in Modes : PutPreferences(k, u, active, m)
    PROVE  Inv'
<1>1. TypeOK
  BY DEF Inv, StoreInv
<1>2. ASSUME UNCHANGED <<storeVars, flowVars, revoked>>, LiveInv',
             kill' \in [Users -> BOOLEAN], default_mode' \in [Users -> Modes],
             drifted' \subseteq Reqs,
             toggle' \in [Toggles -> {unused, done} \union
                              [stage : {"stored"}, user : Users, active : BOOLEAN]]
      PROVE  Inv'
  <2>1. /\ outcome' \in [Waits -> Outcomes] /\ pending' \subseteq Waits /\ timers' \subseteq Waits
        /\ OpenWaitsAnswerable' /\ OneModalPerRoom' /\ outcome' = outcome
    BY <1>2, StoreRests DEF Inv
  <2>2. TypeOK'
    BY <1>1, <1>2, <2>1 DEF TypeOK, flowVars, modeVars
  <2> QED
    BY <1>2, <2>1, <2>2, SettledInv
<1>3. CASE EventFails(k)
  BY <1>1, <1>2, <1>3, LiveRests DEF EventFails, TypeOK, Inv, FlowInv
<1>4. ASSUME NEW u \in Users, NEW active \in BOOLEAN, StoreKillSwitch(k, u, active) PROVE Inv'
  BY <1>1, <1>2, <1>4, LiveRests DEF StoreKillSwitch, TypeOK, Inv, FlowInv
<1>5. ASSUME NEW u \in Users, NEW active \in BOOLEAN, NEW m \in Modes,
             PutPreferences(k, u, active, m)
      PROVE  Inv'
  <2>1. /\ kill' \in [Users -> BOOLEAN] /\ default_mode' \in [Users -> Modes]
        /\ drifted \subseteq drifted' /\ drifted' \subseteq Reqs
        /\ UNCHANGED <<storeVars, flowVars, revoked>>
    BY <1>1, <1>5 DEF PutPreferences, TypeOK
  <2>2. \A q \in Reqs : stage[q] \notin {"review", "sent", "ended"} /\ Live(q)'
                            => Live(q) \/ q \in drifted'
    BY <1>1, <1>5 DEF PutPreferences, TypeOK, Live, Resolve, Users
  <2>3. LiveInv'
    BY <2>1, <2>2 DEF Inv, FlowInv, LiveInv, GateRead, LivePassed, LiveSent, After, flowVars, modeVars
  <2> QED
    BY <1>1, <1>2, <1>5, <2>1, <2>3 DEF PutPreferences, TypeOK
<1>6. CASE RevokeApprovals(k)
  <2>1. toggle' \in [Toggles -> {unused, done} \union
                        [stage : {"stored"}, user : Users, active : BOOLEAN]]
        /\ UNCHANGED <<flowVars, kill, default_mode, drifted>> /\ LiveInv'
    BY <1>1, <1>6, LiveRests DEF RevokeApprovals, TypeOK, Inv, FlowInv
  <2>2. CASE UNCHANGED <<storeVars, revoked>>
    BY <1>1, <1>2, <2>1, <2>2 DEF TypeOK
  <2>3. CASE /\ Revoke(toggle[k].user)
             /\ revoked' = revoked \union
                     {w[1] : w \in {x \in pending : userOf(x) = toggle[k].user}}
    <3> DEFINE u == toggle[k].user
    <3>1. /\ outcome' \in [Waits -> Outcomes] /\ pending' \subseteq Waits /\ timers' \subseteq Waits
          /\ OpenWaitsAnswerable' /\ OneModalPerRoom'
          /\ \A x \in Waits : outcome'[x] =
                IF outcome[x] = "open" /\ userOf(x) = u THEN "rejected" ELSE outcome[x]
      BY <2>3, RevokeStore DEF Inv
    <3>2. pending = {x \in Waits : outcome[x] = "open"}
      BY DEF Inv, StoreInv, OpenWaitsAnswerable
    <3>3. \A r \in revoked' : \/ r \in revoked
                              \/ \E w \in {review(r), override(r)} :
                                    /\ w \in Waits
                                    /\ outcome[w] = "open" /\ outcome'[w] = "rejected"
      BY <2>3, <3>1, <3>2, GatesOfRequests
    <3>4. revoked' \subseteq Reqs
      BY <1>1, <2>3, <3>2, GatesOfRequests DEF TypeOK
    <3>5. TypeOK'
      BY <1>1, <2>1, <3>1, <3>4 DEF TypeOK, flowVars, modeVars
    <3> QED
      BY <2>1, <3>1, <3>3, <3>5, SettledInv
  <2> QED
    BY <1>6, <2>2, <2>3 DEF RevokeApprovals
<1> QED
  BY <1>3, <1>4, <1>5, <1>6

LEMMA NextInv == Inv /\ [Next]_vars => Inv'
<1> SUFFICES ASSUME Inv, [Next]_vars PROVE Inv'
  OBVIOUS
<1>1. CASE UNCHANGED vars
  BY <1>1 DEF vars, storeVars, flowVars, killVars, Inv, StoreInv, TypeOK, OpenWaitsAnswerable,
              OneModalPerRoom, FlowInv, WaitsFit, ReviewPassed, OverridePassed, RevokedStops,
              SeenStops, LiveInv, GateRead, LivePassed, LiveSent, Live, modeVars, review, override
<1>2. ASSUME NEW r \in Reqs, Step(r) PROVE Inv'
  BY <1>2, PrecheckSteps, ReviewSteps, AskSteps DEF Step
<1> QED
  BY <1>1, <1>2, AnswerSteps, KillSwitchSteps DEF Next

LEMMA ApprovalsInvariant == Spec => []Inv
  BY InitInv, NextInv, PTL DEF Spec

(***************************************************************************)
(* The theorems.                                                           *)
(***************************************************************************)

\* The store, the requests and the endpoint's calls keep their types.
THEOREM ApprovalTypes == Spec => []TypeOK
<1>1. Inv => TypeOK
  BY DEF Inv, StoreInv
<1> QED
  BY <1>1, ApprovalsInvariant, PTL

\* No promise is left that neither an entry nor a timer can settle, whatever
\* decisions, expiries, replacements and revocations cross.
THEOREM OpenWaits == Spec => []OpenWaitsAnswerable
<1>1. Inv => OpenWaitsAnswerable
  BY DEF Inv, StoreInv
<1> QED
  BY <1>1, ApprovalsInvariant, PTL

\* Nobody has two modals in one room.
THEOREM OneModal == Spec => []OneModalPerRoom
<1>1. Inv => OneModalPerRoom
  BY DEF Inv, StoreInv
<1> QED
  BY <1>1, ApprovalsInvariant, PTL

\* Nothing is sent that its user has not approved at every gate it met.
THEOREM SendsApproved == Spec => []SentWasApproved
<1>1. Inv => SentWasApproved
  BY DEF Inv, FlowInv, ReviewPassed, OverridePassed, After, SentWasApproved
<1> QED
  BY <1>1, ApprovalsInvariant, PTL

\* What the kill switch has revoked is never sent.
THEOREM RevocationsHold == Spec => []RevokedIsOver
<1>1. Inv => RevokedIsOver
  BY DEF Inv, FlowInv, RevokedStops, RevokedIsOver
<1> QED
  BY <1>1, ApprovalsInvariant, PTL

\* A request that found the kill switch on is never sent, whatever the other
\* rules say.
THEOREM SwitchStops == Spec => []SwitchSeenStops
<1>1. Inv => SwitchSeenStops
  BY DEF Inv, FlowInv, SeenStops, SwitchSeenStops
<1> QED
  BY <1>1, ApprovalsInvariant, PTL

\* No order is sent live that the gate did not let through as live, on the risk
\* engine's recorded word, unless the mode was left open and the user's default
\* became live, or was not readable, after the gate.
THEOREM LiveAudited == Spec => []LiveOrdersAudited
<1>1. Inv => LiveOrdersAudited
  BY DEF Inv, FlowInv, LiveInv, LiveSent, LiveOrdersAudited
<1> QED
  BY <1>1, ApprovalsInvariant, PTL
=============================================================================
