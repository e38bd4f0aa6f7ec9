--------------------------- MODULE AlertManager ---------------------------
(***************************************************************************)
(* The in-memory alert store of src/response/alert_manager.py:             *)
(* deduplication by address, acknowledgement, ageing, and eviction of the  *)
(* least urgent alert when the store is over its limit.                    *)
(*                                                                         *)
(* Every caller runs on one event loop and no method awaits, so a method   *)
(* is one action.  An assessment is abstracted to its tier and its raw     *)
(* priority (score * log1p(value + 1)); time passes in hours.              *)
(***************************************************************************)
EXTENDS Integers, FiniteSets, FiniteSetsExt

CONSTANTS
  Addresses,    \* wallet addresses
  MaxAlerts,    \* max_alerts
  Tiers,        \* ActionTier, of which "EMERGENCY" is never evicted
  Raws,         \* raw priorities
  MaxReports,   \* bound: calls of add_or_update
  MaxHours,     \* bound: hours the clock runs
  NoAlert       \* what an address without an alert maps to

ASSUME AddressesAssumption == IsFiniteSet(Addresses)
ASSUME MaxAlertsAssumption == MaxAlerts \in Nat
ASSUME TiersAssumption == "EMERGENCY" \in Tiers
ASSUME RawsAssumption == Raws \subseteq Nat
ASSUME BoundsAssumption == MaxReports \in Nat /\ MaxHours \in Nat
ASSUME NoAlertAssumption ==
  NoAlert \notin [tier : Tiers, raw : Raws, updated : 0..MaxHours,
                  updates : 0..MaxReports, acknowledged : BOOLEAN]

VARIABLES
  alerts,     \* _alerts
  created,    \* _total_created, and the length of _queue, which is never popped
  deduped,    \* _total_deduplicated
  hour,       \* time.time()
  evictions,  \* history: alerts evicted
  forgotten,  \* history: updates the evicted alerts had absorbed
  peak        \* history: most EMERGENCY alerts held at once

vars == <<alerts, created, deduped, hour, evictions, forgotten, peak>>

Alert == [tier : Tiers, raw : Raws, updated : 0..MaxHours,
          updates : 0..MaxReports, acknowledged : BOOLEAN]

Live(store) == {a \in Addresses : store[a] # NoAlert}
Emergencies(store) == {a \in Live(store) : store[a].tier = "EMERGENCY"}

\* Mutant: an old alert gains priority.
PriorityGrows(alert) == alert.raw + (hour - alert.updated)

\* base to the n-th, as a function a proof can unfold.
Power(base) == LET p[n \in Nat] == IF n = 0 THEN 1 ELSE base * p[n - 1] IN p

\* What remains of 10^MaxHours after 10% less for every late hour.
Decay(late) == Power(9)[late] * Power(10)[MaxHours - late]

\* raw_priority, decayed for every hour after the first without an update.
CurrentPriority(alert) ==
  alert.raw * Decay(IF hour - alert.updated <= 1 THEN 0 ELSE hour - alert.updated - 1)

----------------------------------------------------------------------------
Init ==
  /\ alerts = [a \in Addresses |-> NoAlert]
  /\ created = 0 /\ deduped = 0 /\ hour = 0
  /\ evictions = 0 /\ forgotten = 0 /\ peak = 0

\* _evict_lowest_priority: the candidates, and those min() may choose.
Evictable(store) == Live(store) \ Emergencies(store)
Lowest(store) ==
  {a \in Evictable(store) :
     \A b \in Evictable(store) :
       CurrentPriority(store[a]) <= CurrentPriority(store[b])}

NewAlert(tier, raw) ==
  [tier |-> tier, raw |-> raw, updated |-> hour, updates |-> 0, acknowledged |-> FALSE]

Merged(alert, tier, raw) ==
  [tier |-> tier, raw |-> raw, updated |-> hour, updates |-> alert.updates + 1,
   acknowledged |-> alert.acknowledged]

Record(store) ==
  /\ alerts' = store
  /\ peak' = LET n == Cardinality(Emergencies(store)) IN IF n > peak THEN n ELSE peak

\* Evict one alert if the store is over its limit and has a candidate.
MakeRoom(store) ==
  IF Cardinality(Live(store)) > MaxAlerts /\ Evictable(store) # {}
  THEN \E v \in Lowest(store) :
         /\ Record([store EXCEPT ![v] = NoAlert])
         /\ evictions' = evictions + 1
         /\ forgotten' = forgotten + store[v].updates
  ELSE Record(store) /\ UNCHANGED <<evictions, forgotten>>

\* add_or_update of an address without an alert.
Create(a, tier, raw) ==
  /\ created + deduped < MaxReports
  /\ alerts[a] = NoAlert
  /\ created' = created + 1
  /\ MakeRoom([alerts EXCEPT ![a] = NewAlert(tier, raw)])
  /\ UNCHANGED <<deduped, hour>>

\* Mutant: an update makes a new Alert object.
UpdateAfresh(a, tier, raw) ==
  /\ created + deduped < MaxReports
  /\ alerts[a] # NoAlert
  /\ deduped' = deduped + 1
  /\ Record([alerts EXCEPT ![a] = NewAlert(tier, raw)])
  /\ UNCHANGED <<created, hour, evictions, forgotten>>

\* add_or_update of an address with an alert: no eviction, and the
\* acknowledgement stays whatever the new tier is.
Update(a, tier, raw) ==
  /\ created + deduped < MaxReports
  /\ alerts[a] # NoAlert
  /\ deduped' = deduped + 1
  /\ Record([alerts EXCEPT ![a] = Merged(alerts[a], tier, raw)])
  /\ UNCHANGED <<created, hour, evictions, forgotten>>

AddOrUpdate(a, tier, raw) == Create(a, tier, raw) \/ Update(a, tier, raw)

Acknowledge(a) ==
  /\ alerts[a] # NoAlert
  /\ alerts' = [alerts EXCEPT ![a].acknowledged = TRUE]
  /\ UNCHANGED <<created, deduped, hour, evictions, forgotten, peak>>

HourPasses ==
  /\ hour < MaxHours
  /\ hour' = hour + 1
  /\ UNCHANGED <<alerts, created, deduped, evictions, forgotten, peak>>

Next ==
  \/ \E a \in Addresses, tier \in Tiers, raw \in Raws : AddOrUpdate(a, tier, raw)
  \/ \E a \in Addresses : Acknowledge(a)
  \/ HourPasses

Spec == Init /\ [][Next]_vars

----------------------------------------------------------------------------
\* Every variable keeps its type.
TypeOK ==
  /\ alerts \in [Addresses -> Alert \cup {NoAlert}]
  /\ created \in 0..MaxReports /\ deduped \in 0..MaxReports
  /\ hour \in 0..MaxHours
  /\ evictions \in Nat /\ forgotten \in Nat /\ peak \in Nat

\* The store outgrows max_alerts only as far as EMERGENCY alerts alone once
\* did: whatever it holds above the limit, that many were EMERGENCY together.
\* (An excess does not shrink when its alerts are downgraded: only the next
\* new alert evicts, and only one.)
SizeBound ==
  Cardinality(Live(alerts)) <= IF peak > MaxAlerts THEN peak ELSE MaxAlerts

\* The statistics add up: an alert counted as created is still held or was
\* evicted.  _queue has one entry per created alert, so it outgrows the store
\* by exactly the evictions.
CreatedAccounted == created = Cardinality(Live(alerts)) + evictions

\* An assessment counted as deduplicated is in the update count of the alert
\* it was merged into, held or evicted.
DedupAccounted ==
  deduped = forgotten + SumFunction([a \in Live(alerts) |-> alerts[a].updates])

\* An alert that leaves the store was not EMERGENCY, and no alert that stays
\* is a worse one: lower raw priority, no fresher, and not EMERGENCY either.
EvictsNothingBetter ==
  \A v \in Live(alerts) \ Live(alerts') :
    /\ alerts[v].tier # "EMERGENCY"
    /\ \A w \in Live(alerts') :
         ~ /\ alerts'[w].tier # "EMERGENCY"
           /\ alerts'[w].raw < alerts[v].raw
           /\ alerts'[w].updated <= alerts[v].updated

EvictionOrder == [][EvictsNothingBetter]_vars
============================================================================
