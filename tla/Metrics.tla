------------------------------ MODULE Metrics -------------------------------
(***************************************************************************)
(* _metrics_pass (daemon.py), _collect_monitored_counters (main.py) and    *)
(* PrometheusExporter (metrics.py) for one monitored chain.  The HTTP      *)
(* thread may be asked for /metrics between any two steps of a push, so    *)
(* what it shows is every state of gauge, activity and exported.  The      *)
(* gauges of one label (packets, bytes, last activity) are set one after   *)
(* the other in the code, and removed so, and in one step here: what a     *)
(* scrape between those shows is left out.  Packets come in, and passes of *)
(* the daemon and other programs change the rules.                         *)
(* --prometheus-metrics-last-activity is on.                               *)
(***************************************************************************)
EXTENDS Naturals, FiniteSets, Functions

CONSTANTS
  Owned,      \* comments of rules that a drop-in of the directory owns
  Others,     \* the chain's other rules
  MaxHits,    \* bound: counters
  MaxMinute,  \* bound: minutes
  MaxCycles   \* bound: metrics passes

ASSUME LinesAssumption == Owned \cap Others = {} /\ "chain" \notin Owned
ASSUME BoundsAssumption == MaxHits \in Nat /\ MaxMinute \in Nat \ {0} /\ MaxCycles \in Nat

Labels == {"chain"} \cup Owned

VARIABLES
  hits,      \* the counters of the chain's rules (one number for packets and bytes)
  minute,    \* time.time(), in minutes
  total,     \* sync_cycles_total and sync_errors_total of MetricsState
  last,      \* _last_cycles_total and _last_errors_total
  exported,  \* the same two counters in /metrics
  sample,    \* chain_counters and rule_counters of the pass
  seen,      \* _seen_chain_labels and _seen_rule_labels
  gauge,     \* the labels in /metrics with their counters
  activity,  \* _last_chain_activity, _last_rule_activity and their gauges
  prev,      \* _prev_chain_counters and _prev_rule_counters
  unset,     \* labels that the push has still to set
  now,       \* now_minute of the push
  phase      \* "idle", "updated", "collected", "remove", "set"

surface == <<gauge, activity, prev>>
totals == <<total, last, exported>>
metricsVars == <<hits, minute, totals, sample, seen, surface, unset, now, phase>>

NoLabels == [l \in {} |-> 0]
Putting(f, l, v) == [k \in DOMAIN f \cup {l} |-> IF k = l THEN v ELSE f[k]]
Dropping(f, l) == Restrict(f, DOMAIN f \ {l})
Zero == [cycles |-> 0, errors |-> 0]

MetricsInit ==
  /\ hits = NoLabels
  /\ minute = 1 /\ now = 1
  /\ total = Zero /\ last = Zero /\ exported = Zero
  /\ sample = NoLabels /\ seen = {}
  /\ gauge = NoLabels /\ activity = NoLabels /\ prev = NoLabels
  /\ unset = {} /\ phase = "idle"

-----------------------------------------------------------------------------
\* The pass.

\* update_cycle.  Only a full sync has errors to hand on.
UpdateCycle ==
  /\ phase = "idle" /\ total.cycles < MaxCycles
  /\ \E errors \in 0 .. 1 :
       total' = [cycles |-> total.cycles + 1, errors |-> total.errors + errors]
  /\ phase' = "updated"
  /\ UNCHANGED <<hits, minute, last, exported, sample, seen, surface, unset, now>>

\* A chain's counters are the sums of its rules', here the number of all that the
\* rules have counted; an empty chain has none.
Counted == {h \in (DOMAIN hits) \X (1 .. MaxHits) : h[2] <= hits[h[1]]}

Collected ==
  IF DOMAIN hits = {} THEN NoLabels
  ELSE Putting(Restrict(hits, DOMAIN hits \cap Owned), "chain", Cardinality(Counted))

\* iptables-save; if it fails its table is passed over.
Collect ==
  /\ phase = "updated"
  /\ sample' \in {Collected, NoLabels}
  /\ phase' = "collected"
  /\ UNCHANGED <<hits, minute, totals, seen, surface, unset, now>>

\* push: the two counters are incremented by what has come since the last push.
Increased(shown, was, is) == IF is > was THEN shown + (is - was) ELSE shown

PushTotals_LastKept ==
  /\ phase = "collected"
  /\ exported' = [k \in DOMAIN total |-> Increased(exported[k], last[k], total[k])]
  /\ last' = [last EXCEPT !.cycles = total.cycles]
  /\ phase' = "remove"
  /\ UNCHANGED <<hits, minute, total, sample, seen, surface, unset, now>>
PushTotals ==
  /\ phase = "collected"
  /\ exported' = [k \in DOMAIN total |-> Increased(exported[k], last[k], total[k])]
  /\ last' = total
  /\ phase' = "remove"
  /\ UNCHANGED <<hits, minute, total, sample, seen, surface, unset, now>>

Outdated_All == seen \cap DOMAIN gauge
Outdated == (seen \ DOMAIN sample) \cap DOMAIN gauge

RemoveLabel_KeepsActivity ==
  /\ phase = "remove"
  /\ \E l \in Outdated :
       /\ gauge' = Dropping(gauge, l)
       /\ prev' = Dropping(prev, l)
  /\ UNCHANGED <<hits, minute, totals, sample, seen, activity, unset, now, phase>>
RemoveLabel ==
  /\ phase = "remove"
  /\ \E l \in Outdated :
       /\ gauge' = Dropping(gauge, l)
       /\ activity' = Dropping(activity, l)
       /\ prev' = Dropping(prev, l)
  /\ UNCHANGED <<hits, minute, totals, sample, seen, unset, now, phase>>

EndRemove ==
  /\ phase = "remove" /\ Outdated = {}
  /\ seen' = DOMAIN sample /\ unset' = DOMAIN sample
  /\ now' = minute
  /\ phase' = "set"
  /\ UNCHANGED <<hits, minute, totals, sample, surface>>

\* Has the counter moved since the last push?
Moved_Grown(l) == l \notin DOMAIN prev \/ prev[l] < sample[l]
Moved(l) == l \notin DOMAIN prev \/ prev[l] # sample[l]

SetLabel ==
  /\ phase = "set"
  /\ \E l \in unset :
       /\ gauge' = Putting(gauge, l, sample[l])
       /\ activity' = IF Moved(l) \/ l \notin DOMAIN activity THEN Putting(activity, l, now) ELSE activity
       /\ prev' = Putting(prev, l, sample[l])
       /\ unset' = unset \ {l}
  /\ UNCHANGED <<hits, minute, totals, sample, seen, now, phase>>

EndPush ==
  /\ phase = "set" /\ unset = {}
  /\ phase' = "idle"
  /\ UNCHANGED <<hits, minute, totals, sample, seen, surface, unset, now>>

-----------------------------------------------------------------------------
\* The surroundings.

Packet(r) ==
  /\ r \in DOMAIN hits /\ hits[r] < MaxHits
  /\ hits' = [hits EXCEPT ![r] = @ + 1]
  /\ UNCHANGED <<minute, totals, sample, seen, surface, unset, now, phase>>

\* -A and -R both start from zero.
PutRule(r) ==
  /\ hits' = Putting(hits, r, 0)
  /\ UNCHANGED <<minute, totals, sample, seen, surface, unset, now, phase>>

DeleteRule(r) ==
  /\ r \in DOMAIN hits
  /\ hits' = Dropping(hits, r)
  /\ UNCHANGED <<minute, totals, sample, seen, surface, unset, now, phase>>

MinutePasses ==
  /\ minute < MaxMinute /\ minute' = minute + 1
  /\ UNCHANGED <<hits, totals, sample, seen, surface, unset, now, phase>>

-----------------------------------------------------------------------------
MetricsNext ==
  \/ UpdateCycle \/ Collect \/ PushTotals \/ RemoveLabel \/ EndRemove \/ SetLabel \/ EndPush
  \/ \E r \in Owned \cup Others : Packet(r) \/ PutRule(r) \/ DeleteRule(r)
  \/ MinutePasses

MetricsSpec == MetricsInit /\ [][MetricsNext]_metricsVars

-----------------------------------------------------------------------------
\* Properties.

\* Type invariant.
MetricsTypeOK ==
  /\ DOMAIN hits \subseteq Owned \cup Others
  /\ \A r \in DOMAIN hits : hits[r] \in 0 .. MaxHits
  /\ DOMAIN sample \subseteq Labels /\ seen \subseteq Labels /\ unset \subseteq seen
  /\ DOMAIN gauge \subseteq Labels
  /\ DOMAIN activity = DOMAIN gauge /\ DOMAIN prev = DOMAIN gauge
  /\ \A l \in DOMAIN gauge : gauge[l] \in Nat /\ activity[l] \in 1 .. minute
  /\ \A f \in {total, last, exported} : f.cycles \in 0 .. MaxCycles /\ f.errors \in 0 .. MaxCycles
  /\ phase \in {"idle", "updated", "collected", "remove", "set"}
  /\ minute \in 1 .. MaxMinute /\ now \in 1 .. minute

\* After a push /metrics shows the last sample and nothing else: no label of a rule
\* that has gone survives (metrics.py:178,186), and the two counters, fed with
\* differences, are those of MetricsState (metrics.py:158).
PushComplete ==
  phase = "idle" => gauge = sample /\ exported = total

\* No scrape in the middle of a push finds a gap: a label is taken away only if its
\* rule is missing from the new sample (metrics.py:178).
NoGap == [][\A l \in DOMAIN gauge \ DOMAIN gauge' : l \notin DOMAIN sample]_metricsVars

\* The activity time of a label that stays in /metrics moves to the minute of the
\* push exactly when its counter changes there, a reset to zero by -R included
\* (metrics.py:203,215); so the daemon's own replacements look like traffic.
ActivityMeansChange ==
  [][\A l \in DOMAIN gauge \cap DOMAIN gauge' :
       activity'[l] = IF gauge'[l] # gauge[l] THEN now ELSE activity[l]]_metricsVars

=============================================================================
