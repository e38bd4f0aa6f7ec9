------------------------ MODULE AlertManagerProofs ------------------------
(***************************************************************************)
(* Safety of AlertManager for every set of addresses, limit, tier and      *)
(* priority.                                                               *)
(***************************************************************************)
EXTENDS AlertManager, DataLemmas

\* What an alert absorbed is part of what all of them absorbed: the bound of
\* an update count.
UpdatesBounded ==
  \A a \in Addresses : alerts[a] # NoAlert => alerts[a].updates <= deduped

CallsBounded == created + deduped <= MaxReports

TypeInv == TypeOK /\ UpdatesBounded /\ CallsBounded

LEMMA NoAlertIsNone == NoAlert \notin Alert
BY NoAlertAssumption DEF Alert

LEMMA LiveFinite ==
  ASSUME NEW store
  PROVE  /\ IsFiniteSet(Live(store)) /\ Cardinality(Live(store)) \in Nat
         /\ IsFiniteSet(Emergencies(store)) /\ Cardinality(Emergencies(store)) \in Nat
         /\ Cardinality(Emergencies(store)) <= Cardinality(Live(store))
<1>1. IsFiniteSet(Live(store)) /\ IsFiniteSet(Emergencies(store))
  BY AddressesAssumption, FS_Subset DEF Live, Emergencies
<1>2. Emergencies(store) \subseteq Live(store)
  BY DEF Emergencies
<1> QED BY <1>1, <1>2, FS_Subset, FS_CardinalityType

\* A report gives its address an alert and leaves the others alone.
LEMMA LivePut ==
  ASSUME NEW store \in [Addresses -> Alert \cup {NoAlert}], NEW a \in Addresses,
         NEW r \in Alert
  PROVE  /\ [store EXCEPT ![a] = r] \in [Addresses -> Alert \cup {NoAlert}]
         /\ Live([store EXCEPT ![a] = r]) = Live(store) \cup {a}
BY NoAlertIsNone DEF Live

\* An eviction takes one alert out.
LEMMA LiveEvict ==
  ASSUME NEW store \in [Addresses -> Alert \cup {NoAlert}], NEW v \in Addresses
  PROVE  /\ [store EXCEPT ![v] = NoAlert] \in [Addresses -> Alert \cup {NoAlert}]
         /\ Live([store EXCEPT ![v] = NoAlert]) = Live(store) \ {v}
BY DEF Live

LEMMA RecordPeak ==
  ASSUME NEW store, Record(store), peak \in Nat
  PROVE  peak' \in Nat /\ peak' >= peak /\ peak' >= Cardinality(Emergencies(store))
BY LiveFinite DEF Record

Store == [Addresses -> Alert \cup {NoAlert}]

Fits(store) == Cardinality(Live(store)) <= MaxAlerts \/ Live(store) = Emergencies(store)

\* Making room evicts exactly one alert, or finds the store within its limit
\* or full of EMERGENCY alerts.
LEMMA MakeRoomOutcome ==
  ASSUME NEW store \in Store, MakeRoom(store), peak \in Nat, evictions \in Nat,
         forgotten \in Nat, \A x \in Live(store) : store[x].updates \in Nat
  PROVE  /\ alerts' \in Store /\ evictions' \in Nat /\ forgotten' \in Nat
         /\ \A x \in Addresses : alerts'[x] # NoAlert => alerts'[x] = store[x]
         /\ peak' \in Nat /\ peak' >= peak /\ peak' >= Cardinality(Emergencies(alerts'))
         /\ \/ /\ Live(alerts') = Live(store) /\ evictions' = evictions
               /\ Fits(store) /\ peak' >= Cardinality(Emergencies(store))
            \/ /\ Cardinality(Live(alerts')) = Cardinality(Live(store)) - 1
               /\ evictions' = evictions + 1
<1>1. CASE Cardinality(Live(store)) > MaxAlerts /\ Evictable(store) # {}
  <2>1. PICK v \in Lowest(store) :
          /\ Record([store EXCEPT ![v] = NoAlert])
          /\ evictions' = evictions + 1
          /\ forgotten' = forgotten + store[v].updates
    BY <1>1 DEF MakeRoom
  <2>2. v \in Live(store) /\ v \in Addresses
    BY <2>1 DEF Lowest, Evictable, Live
  <2>3. /\ alerts' \in Store /\ Live(alerts') = Live(store) \ {v}
        /\ alerts' = [store EXCEPT ![v] = NoAlert]
    BY <2>1, <2>2, LiveEvict DEF Record, Store
  <2>4. Cardinality(Live(alerts')) = Cardinality(Live(store)) - 1
    BY <2>2, <2>3, LiveFinite, FS_RemoveElement
  <2>5. peak' \in Nat /\ peak' >= peak /\ peak' >= Cardinality(Emergencies(alerts'))
    BY <2>1, <2>3, RecordPeak
  <2>6. evictions' \in Nat /\ forgotten' \in Nat
    BY <2>1, <2>2
  <2>7. \A x \in Addresses : alerts'[x] # NoAlert => alerts'[x] = store[x]
    BY <2>3 DEF Store
  <2> QED BY <2>1, <2>3, <2>4, <2>5, <2>6, <2>7
<1>2. CASE ~(Cardinality(Live(store)) > MaxAlerts /\ Evictable(store) # {})
  <2>1. alerts' = store /\ Record(store) /\ UNCHANGED <<evictions, forgotten>>
    BY <1>2 DEF MakeRoom, Record
  <2>2. Fits(store)
    <3>1. CASE Evictable(store) = {}
      <4>1. Emergencies(store) \subseteq Live(store)
        BY DEF Emergencies
      <4> QED BY <3>1, <4>1 DEF Fits, Evictable
    <3>2. CASE ~(Cardinality(Live(store)) > MaxAlerts)
      BY <3>2, LiveFinite, MaxAlertsAssumption DEF Fits
    <3> QED BY <1>2, <3>1, <3>2
  <2>3. peak' \in Nat /\ peak' >= peak /\ peak' >= Cardinality(Emergencies(store))
    BY <2>1, RecordPeak
  <2> QED BY <2>1, <2>2, <2>3
<1> QED BY <1>1, <1>2

----------------------------------------------------------------------------
(* Type correctness *)

LEMMA TypeInit == Init => TypeInv
BY NoAlertIsNone, BoundsAssumption DEF Init, TypeInv, TypeOK, UpdatesBounded, CallsBounded

LEMMA NewAlertType ==
  ASSUME TypeOK, NEW tier \in Tiers, NEW raw \in Raws
  PROVE  NewAlert(tier, raw) \in Alert /\ NewAlert(tier, raw).updates = 0
BY BoundsAssumption DEF TypeOK, NewAlert, Alert

LEMMA UpdatesType ==
  ASSUME NEW store \in Store
  PROVE  \A x \in Live(store) : store[x] \in Alert /\ store[x].updates \in Nat
BY DEF Live, Store, Alert

\* add_or_update of a new address: the store it makes room in.
LEMMA CreateStore ==
  ASSUME TypeInv, NEW a \in Addresses, NEW tier \in Tiers, NEW raw \in Raws,
         Create(a, tier, raw)
  PROVE  /\ [alerts EXCEPT ![a] = NewAlert(tier, raw)] \in Store
         /\ Live([alerts EXCEPT ![a] = NewAlert(tier, raw)]) = Live(alerts) \cup {a}
         /\ a \notin Live(alerts)
  BY NewAlertType, LivePut DEF TypeInv, TypeOK, Create, Live, Store

LEMMA CreateType ==
  ASSUME TypeInv, NEW a \in Addresses, NEW tier \in Tiers, NEW raw \in Raws,
         Create(a, tier, raw)
  PROVE  TypeInv'
<1> DEFINE store == [alerts EXCEPT ![a] = NewAlert(tier, raw)]
<1>1. store \in Store /\ \A x \in Live(store) : store[x].updates \in Nat
  BY CreateStore, UpdatesType
<1>2. MakeRoom(store) /\ created' = created + 1 /\ UNCHANGED <<deduped, hour>>
      /\ created + deduped < MaxReports
  BY DEF Create
<1>3. \A x \in Addresses : store[x] # NoAlert => store[x].updates <= deduped
  BY NewAlertType DEF TypeInv, TypeOK, UpdatesBounded
<1> HIDE DEF store
<1>4. /\ alerts' \in Store /\ evictions' \in Nat /\ forgotten' \in Nat /\ peak' \in Nat
      /\ \A x \in Addresses : alerts'[x] # NoAlert => alerts'[x] = store[x]
  BY <1>1, <1>2, MakeRoomOutcome DEF TypeInv, TypeOK
<1>5. UpdatesBounded'
  BY <1>2, <1>3, <1>4 DEF UpdatesBounded
<1> QED BY <1>2, <1>4, <1>5, BoundsAssumption DEF TypeInv, TypeOK, CallsBounded, Store

\* add_or_update of a known address, and acknowledge: the alert keeps its place.
LEMMA KeepsPlace ==
  ASSUME TypeInv, NEW a \in Addresses, alerts[a] # NoAlert, NEW r \in Alert,
         alerts' = [alerts EXCEPT ![a] = r]
  PROVE  /\ alerts' \in Store /\ Live(alerts') = Live(alerts)
         /\ \A x \in Addresses : alerts'[x] = IF x = a THEN r ELSE alerts[x]
<1>1. alerts \in Store /\ a \in Live(alerts)
  BY DEF TypeInv, TypeOK, Store, Live
<1>2. alerts' \in Store /\ Live(alerts') = Live(alerts) \cup {a}
  BY <1>1, LivePut DEF Store
<1>3. \A x \in Addresses : alerts'[x] = IF x = a THEN r ELSE alerts[x]
  BY <1>1 DEF Store
<1> QED BY <1>1, <1>2, <1>3

LEMMA MergedType ==
  ASSUME TypeInv, NEW a \in Addresses, NEW tier \in Tiers, NEW raw \in Raws,
         Update(a, tier, raw)
  PROVE  /\ Merged(alerts[a], tier, raw) \in Alert
         /\ Merged(alerts[a], tier, raw).updates <= deduped + 1
         /\ alerts' = [alerts EXCEPT ![a] = Merged(alerts[a], tier, raw)]
         /\ Record(alerts')
<1>1. alerts[a] \in Alert /\ alerts[a].updates <= deduped /\ deduped < MaxReports
      /\ deduped \in Nat /\ hour \in 0..MaxHours
  BY BoundsAssumption DEF TypeInv, TypeOK, UpdatesBounded, Update
<1>2. Merged(alerts[a], tier, raw) \in Alert /\ Merged(alerts[a], tier, raw).updates <= deduped + 1
  <2>1. alerts[a].updates + 1 \in 0..MaxReports /\ alerts[a].acknowledged \in BOOLEAN
    BY <1>1, BoundsAssumption DEF Alert
  <2> QED BY <1>1, <2>1 DEF Merged, Alert
<1>3. alerts' = [alerts EXCEPT ![a] = Merged(alerts[a], tier, raw)] /\ Record(alerts')
  BY DEF Update, Record
<1> QED BY <1>2, <1>3

LEMMA UpdateType ==
  ASSUME TypeInv, NEW a \in Addresses, NEW tier \in Tiers, NEW raw \in Raws,
         Update(a, tier, raw)
  PROVE  TypeInv' /\ Live(alerts') = Live(alerts)
<1>1. /\ alerts' \in Store /\ Live(alerts') = Live(alerts)
      /\ \A x \in Addresses :
            alerts'[x] = IF x = a THEN Merged(alerts[a], tier, raw) ELSE alerts[x]
  BY MergedType, KeepsPlace DEF Update
<1>2. peak' \in Nat
  BY MergedType, RecordPeak DEF TypeInv, TypeOK
<1>3. deduped' = deduped + 1 /\ UNCHANGED <<created, hour, evictions, forgotten>>
      /\ created + deduped < MaxReports
  BY DEF Update
<1>4. UpdatesBounded'
  <2> SUFFICES ASSUME NEW x \in Addresses, alerts'[x] # NoAlert
               PROVE  alerts'[x].updates <= deduped'
    BY DEF UpdatesBounded
  <2>1. CASE x = a
    BY <1>1, <1>3, <2>1, MergedType
  <2>2. CASE x # a
    <3>1. alerts[x].updates <= deduped /\ deduped \in Nat /\ alerts[x] \in Alert
      BY <1>1, <2>2 DEF TypeInv, TypeOK, UpdatesBounded
    <3> QED BY <1>1, <1>3, <2>2, <3>1 DEF Alert
  <2> QED BY <2>1, <2>2
<1> QED BY <1>1, <1>2, <1>3, <1>4, BoundsAssumption DEF TypeInv, TypeOK, CallsBounded, Store

LEMMA AcknowledgeType ==
  ASSUME TypeInv, NEW a \in Addresses, Acknowledge(a)
  PROVE  TypeInv' /\ Live(alerts') = Live(alerts) /\ Emergencies(alerts') = Emergencies(alerts)
<1> DEFINE r == [alerts[a] EXCEPT !.acknowledged = TRUE]
<1>1. alerts[a] \in Alert /\ alerts[a] # NoAlert
  BY DEF TypeInv, TypeOK, Acknowledge
<1>2. r \in Alert /\ r.updates = alerts[a].updates /\ r.tier = alerts[a].tier
  BY <1>1 DEF Alert
<1>3. alerts' = [alerts EXCEPT ![a] = r]
  BY DEF Acknowledge
<1> HIDE DEF r
<1>4. /\ alerts' \in Store /\ Live(alerts') = Live(alerts)
      /\ \A x \in Addresses : alerts'[x] = IF x = a THEN r ELSE alerts[x]
  BY <1>1, <1>2, <1>3, KeepsPlace
<1>5. Emergencies(alerts') = Emergencies(alerts)
  BY <1>2, <1>4 DEF Emergencies, Live
<1>6. UpdatesBounded'
  BY <1>1, <1>2, <1>4 DEF TypeInv, UpdatesBounded, Acknowledge
<1>7. UNCHANGED <<created, deduped, hour, evictions, forgotten, peak>>
  BY DEF Acknowledge
<1> QED BY <1>4, <1>5, <1>6, <1>7 DEF TypeInv, TypeOK, CallsBounded, Store

LEMMA TypeStep == TypeInv /\ [Next]_vars => TypeInv'
<1> SUFFICES ASSUME TypeInv, [Next]_vars PROVE TypeInv'
  OBVIOUS
<1>1. CASE \E a \in Addresses, tier \in Tiers, raw \in Raws : AddOrUpdate(a, tier, raw)
  BY <1>1, CreateType, UpdateType DEF AddOrUpdate
<1>2. CASE \E a \in Addresses : Acknowledge(a)
  BY <1>2, AcknowledgeType
<1>3. CASE HourPasses
  BY <1>3, BoundsAssumption DEF HourPasses, TypeInv, TypeOK, UpdatesBounded, CallsBounded
<1>4. CASE UNCHANGED vars
  BY <1>4 DEF vars, TypeInv, TypeOK, UpdatesBounded, CallsBounded
<1> QED BY <1>1, <1>2, <1>3, <1>4 DEF Next

\* Every variable keeps its type.
THEOREM TypeCorrect == Spec => []TypeOK
<1>1. TypeInv => TypeOK
  BY DEF TypeInv
<1> QED BY <1>1, TypeInit, TypeStep, PTL DEF Spec

----------------------------------------------------------------------------
(* How large the store gets.  peak remembers the EMERGENCY alerts that were  *)
(* once held together, because an update may downgrade them all and the      *)
(* excess they caused stays.                                                 *)

StoreInv ==
  /\ TypeInv
  /\ CreatedAccounted
  /\ SizeBound
  /\ Cardinality(Emergencies(alerts)) <= peak

LEMMA StoreInit == Init => StoreInv
<1> SUFFICES ASSUME Init PROVE StoreInv
  OBVIOUS
<1>1. TypeInv
  BY TypeInit
<1>2. Live(alerts) = {} /\ Emergencies(alerts) = {}
  BY DEF Init, Live, Emergencies
<1>3. Cardinality(Live(alerts)) = 0 /\ Cardinality(Emergencies(alerts)) = 0
  BY <1>2, FS_EmptySet
<1> QED BY <1>1, <1>3, MaxAlertsAssumption DEF Init, StoreInv, CreatedAccounted, SizeBound

LEMMA StoreStep == StoreInv /\ [Next]_vars => StoreInv'
<1> SUFFICES ASSUME StoreInv, [Next]_vars PROVE StoreInv'
  OBVIOUS
<1>0. /\ TypeInv /\ TypeInv' /\ CreatedAccounted /\ SizeBound
      /\ Cardinality(Emergencies(alerts)) <= peak
      /\ peak \in Nat /\ evictions \in Nat /\ forgotten \in Nat /\ created \in Nat
  BY TypeStep DEF StoreInv, TypeInv, TypeOK
<1> DEFINE held == Cardinality(Live(alerts))
<1>1. CASE \E a \in Addresses, tier \in Tiers, raw \in Raws : Create(a, tier, raw)
  <2>1. PICK a \in Addresses, tier \in Tiers, raw \in Raws : Create(a, tier, raw)
    BY <1>1
  <2> DEFINE store == [alerts EXCEPT ![a] = NewAlert(tier, raw)]
  <2>2. /\ store \in Store /\ \A x \in Live(store) : store[x].updates \in Nat
        /\ Live(store) = Live(alerts) \cup {a} /\ a \notin Live(alerts)
    BY <1>0, <2>1, CreateStore, UpdatesType
  <2>3. MakeRoom(store) /\ created' = created + 1
    BY <2>1 DEF Create
  <2> HIDE DEF store
  <2>4. Cardinality(Live(store)) = held + 1 /\ held \in Nat
    BY <2>2, LiveFinite, FS_AddElement
  <2>5. /\ peak' \in Nat /\ peak' >= peak /\ peak' >= Cardinality(Emergencies(alerts'))
        /\ \/ /\ Live(alerts') = Live(store) /\ evictions' = evictions
              /\ Fits(store) /\ peak' >= Cardinality(Emergencies(store))
           \/ /\ Cardinality(Live(alerts')) = Cardinality(Live(store)) - 1
              /\ evictions' = evictions + 1
    BY <1>0, <2>2, <2>3, MakeRoomOutcome
  <2>6. CreatedAccounted'
    BY <1>0, <2>3, <2>4, <2>5 DEF CreatedAccounted
  <2>7. SizeBound'
    <3>1. CASE Live(alerts') = Live(store) /\ Fits(store) /\ peak' >= Cardinality(Emergencies(store))
      <4>1. Cardinality(Live(alerts')) <= MaxAlerts \/ Cardinality(Live(alerts')) <= peak'
        BY <3>1 DEF Fits
      <4>2. Cardinality(Live(alerts')) \in Nat
        BY LiveFinite
      <4> QED BY <2>5, <4>1, <4>2, MaxAlertsAssumption DEF SizeBound
    <3>2. CASE Cardinality(Live(alerts')) = Cardinality(Live(store)) - 1
      BY <1>0, <2>4, <2>5, <3>2, MaxAlertsAssumption DEF SizeBound
    <3> QED BY <2>5, <3>1, <3>2
  <2> QED BY <1>0, <2>5, <2>6, <2>7 DEF StoreInv
<1>2. CASE \E a \in Addresses, tier \in Tiers, raw \in Raws : Update(a, tier, raw)
  <2>1. PICK a \in Addresses, tier \in Tiers, raw \in Raws : Update(a, tier, raw)
    BY <1>2
  <2>2. Live(alerts') = Live(alerts) /\ UNCHANGED <<created, evictions>>
    BY <1>0, <2>1, UpdateType DEF Update
  <2>3. peak' \in Nat /\ peak' >= peak /\ peak' >= Cardinality(Emergencies(alerts'))
    BY <1>0, <2>1, MergedType, RecordPeak
  <2>4. held \in Nat
    BY LiveFinite
  <2> QED BY <1>0, <2>2, <2>3, <2>4, MaxAlertsAssumption DEF StoreInv, CreatedAccounted, SizeBound
<1>3. CASE \E a \in Addresses : Acknowledge(a)
  <2>1. /\ Live(alerts') = Live(alerts) /\ Emergencies(alerts') = Emergencies(alerts)
        /\ UNCHANGED <<created, evictions, peak>>
    BY <1>0, <1>3, AcknowledgeType DEF Acknowledge
  <2> QED BY <1>0, <2>1 DEF StoreInv, CreatedAccounted, SizeBound
<1>4. CASE HourPasses \/ UNCHANGED vars
  <2>1. UNCHANGED <<alerts, created, evictions, peak>>
    BY <1>4 DEF HourPasses, vars
  <2> QED BY <1>0, <2>1 DEF StoreInv, CreatedAccounted, SizeBound, Live, Emergencies
<1> QED BY <1>1, <1>2, <1>3, <1>4 DEF Next, AddOrUpdate

LEMMA StoreInvariant == Spec => []StoreInv
BY StoreInit, StoreStep, PTL DEF Spec

\* The store exceeds max_alerts only as far as EMERGENCY alerts alone once did.
THEOREM SizeBoundAlways == Spec => []SizeBound
<1>1. StoreInv => SizeBound
  BY DEF StoreInv
<1> QED BY <1>1, StoreInvariant, PTL

\* Created alerts are held or were evicted.
THEOREM CreatedAccountedAlways == Spec => []CreatedAccounted
<1>1. StoreInv => CreatedAccounted
  BY DEF StoreInv
<1> QED BY <1>1, StoreInvariant, PTL

----------------------------------------------------------------------------
(* What decays.  The later an alert is, the less remains of its priority,   *)
(* and something always does.                                               *)

LEMMA PowerUnfolds ==
  ASSUME NEW b \in Nat
  PROVE  /\ Power(b) \in [Nat -> Nat] /\ Power(b)[0] = 1
         /\ \A n \in Nat : Power(b)[n + 1] = b * Power(b)[n]
<1> DEFINE body(p) == [n \in Nat |-> IF n = 0 THEN 1 ELSE b * p[n - 1]]
           d == [n \in Nat |-> [v \in Nat |-> b * v]]
           q == Power(b)
<1>1. Stepwise(d, Nat)
  BY DEF Stepwise
<1>2. PICK f : Recurs(f, Nat, 1, d)
  <2> HIDE DEF d
  <2> QED BY <1>1, RecursionOnNat
<1>3. ASSUME NEW n \in Nat \ {0} PROVE n - 1 \in Nat /\ f[n] = b * f[n - 1]
  <2>1. n - 1 \in Nat /\ f[n - 1] \in Nat /\ f[n] = d[n][f[n - 1]]
    BY <1>2 DEF Recurs
  <2> QED BY <2>1
<1>4. f = body(f)
  BY <1>2, <1>3 DEF Recurs
<1>5. q = body(q)
  BY <1>4 DEF Power
<1> HIDE DEF q
<1>6. q[0] = 1 /\ \A n \in Nat : q[n + 1] = b * q[n]
  BY <1>5
<1>7. q = [n \in Nat |-> q[n]]
  BY <1>5
<1>8. \A n \in Nat : q[n] \in Nat
  <2> DEFINE S == {n \in Nat : q[n] \in Nat}
  <2>1. 0 \in S /\ (\A n \in S : n + 1 \in S) /\ S \subseteq Nat
    BY <1>6
  <2> HIDE DEF S
  <2>2. S = Nat
    BY <2>1, NatSetInduction
  <2> QED BY <2>2 DEF S
<1> QED BY <1>6, <1>7, <1>8 DEF q

LEMMA DecayFalls ==
  ASSUME NEW late \in Nat, late <= MaxHours
  PROVE  Decay(late) \in Nat /\ Decay(late) > 0 /\ (late < MaxHours => Decay(late + 1) <= Decay(late))
<1> DEFINE p == Power(9)
           q == Power(10)
<1>1. /\ p \in [Nat -> Nat] /\ p[0] = 1 /\ \A n \in Nat : p[n + 1] = 9 * p[n]
      /\ q \in [Nat -> Nat] /\ q[0] = 1 /\ \A n \in Nat : q[n + 1] = 10 * q[n]
  BY PowerUnfolds
<1> HIDE DEF p, q
<1>2. \A n \in Nat : p[n] > 0 /\ q[n] > 0
  <2> DEFINE S == {n \in Nat : p[n] > 0 /\ q[n] > 0}
  <2>1. 0 \in S /\ (\A n \in S : n + 1 \in S) /\ S \subseteq Nat
    BY <1>1
  <2> HIDE DEF S
  <2>2. S = Nat
    BY <2>1, NatSetInduction
  <2> QED BY <2>2 DEF S
<1>3. Decay(late) = p[late] * q[MaxHours - late]
  BY DEF Decay, p, q
<1>4. MaxHours - late \in Nat /\ MaxHours \in Nat
  BY BoundsAssumption
<1>5. /\ p[late] \in Nat /\ p[late] > 0 /\ q[MaxHours - late] \in Nat /\ q[MaxHours - late] > 0
  BY <1>1, <1>2, <1>4
<1>6. Decay(late) \in Nat /\ Decay(late) > 0
  BY <1>3, <1>5
<1>7. ASSUME late < MaxHours PROVE Decay(late + 1) <= Decay(late)
  <2> DEFINE left == MaxHours - (late + 1)
             x == p[late]
             y == q[left]
  <2>1. left \in Nat /\ left + 1 = MaxHours - late
    BY <1>4, <1>7
  <2>2. Decay(late + 1) = p[late + 1] * y
    BY DEF Decay, p, q
  <2>3. p[late + 1] = 9 * x /\ q[MaxHours - late] = 10 * y /\ x \in Nat /\ y \in Nat
    BY <1>1, <2>1
  <2> HIDE DEF x, y
  <2>4. Decay(late + 1) = 9 * (x * y) /\ Decay(late) = 10 * (x * y) /\ x * y \in Nat
    BY <1>3, <2>2, <2>3 DEF x
  <2> QED BY <2>4
<1> QED BY <1>6, <1>7

LEMMA DecayOrder ==
  ASSUME NEW i \in Nat, NEW j \in Nat, i <= j, j <= MaxHours
  PROVE  Decay(j) <= Decay(i)
<1> DEFINE S == {n \in Nat : i + n <= MaxHours => Decay(i + n) <= Decay(i)}
<1>1. 0 \in S
  BY DecayFalls, BoundsAssumption
<1>2. ASSUME NEW n \in S PROVE n + 1 \in S
  <2> SUFFICES ASSUME i + (n + 1) <= MaxHours PROVE Decay(i + (n + 1)) <= Decay(i)
    OBVIOUS
  <2>1. i + n \in Nat /\ i + n < MaxHours /\ (i + n) + 1 = i + (n + 1)
    BY BoundsAssumption
  <2>2. Decay(i + n) <= Decay(i)
    BY <2>1, BoundsAssumption
  <2>3. Decay(i + n) \in Nat /\ Decay((i + n) + 1) <= Decay(i + n) /\ Decay(i) \in Nat
    BY <2>1, DecayFalls, BoundsAssumption
  <2>4. Decay(i + (n + 1)) \in Nat
    BY DecayFalls
  <2> QED BY <2>1, <2>2, <2>3, <2>4
<1>3. S \subseteq Nat
  OBVIOUS
<1> HIDE DEF S
<1>4. S = Nat
  BY <1>1, <1>2, <1>3, NatSetInduction
<1>5. j - i \in Nat /\ i + (j - i) = j
  OBVIOUS
<1>6. j - i \in S
  BY <1>4, <1>5
<1> QED BY <1>5, <1>6 DEF S

LEMMA PriorityType ==
  ASSUME TypeOK, NEW v \in Alert
  PROVE  CurrentPriority(v) \in Nat
<1> DEFINE late == IF hour - v.updated <= 1 THEN 0 ELSE hour - v.updated - 1
<1>1. /\ v.raw \in Nat /\ late \in Nat /\ late <= MaxHours
  <2>1. v.raw \in Nat /\ v.updated \in 0..MaxHours /\ hour \in 0..MaxHours /\ MaxHours \in Nat
    BY RawsAssumption, BoundsAssumption DEF TypeOK, Alert
  <2> QED BY <2>1
<1>2. CurrentPriority(v) = v.raw * Decay(late)
  BY DEF CurrentPriority
<1> HIDE DEF late
<1>3. Decay(late) \in Nat
  BY <1>1, DecayFalls
<1> QED BY <1>1, <1>2, <1>3

\* A lower priority that is no fresher decays to a lower one.
LEMMA PriorityOrder ==
  ASSUME TypeOK, NEW v \in Alert, NEW w \in Alert, w.raw < v.raw, w.updated <= v.updated
  PROVE  CurrentPriority(w) < CurrentPriority(v)
<1> DEFINE late(x) == IF hour - x.updated <= 1 THEN 0 ELSE hour - x.updated - 1
<1>1. /\ v.raw \in Nat /\ w.raw \in Nat /\ v.updated \in 0..MaxHours /\ w.updated \in 0..MaxHours
      /\ hour \in 0..MaxHours /\ MaxHours \in Nat
  BY RawsAssumption, BoundsAssumption DEF TypeOK, Alert
<1>2. late(v) \in Nat /\ late(w) \in Nat /\ late(v) <= late(w) /\ late(w) <= MaxHours
  BY <1>1
<1> DEFINE a == Decay(late(v))
           b == Decay(late(w))
<1>3. CurrentPriority(v) = v.raw * a /\ CurrentPriority(w) = w.raw * b
  BY DEF CurrentPriority
<1> HIDE DEF late
<1>4. a \in Nat /\ a > 0 /\ b \in Nat /\ b <= a
  <2>1. late(v) <= MaxHours
    BY <1>1, <1>2
  <2> QED BY <1>2, <2>1, DecayFalls, DecayOrder
<1> HIDE DEF a, b
<1>5. w.raw * b <= w.raw * a
  BY <1>1, <1>4
<1>6. w.raw * a < v.raw * a
  <2>1. PICK d \in Nat : d > 0 /\ v.raw = w.raw + d
    <3>1. v.raw - w.raw \in Nat /\ v.raw - w.raw > 0
      BY <1>1
    <3> QED BY <1>1, <3>1
  <2>2. v.raw * a = w.raw * a + d * a /\ d * a > 0
    BY <1>1, <1>4, <2>1
  <2> QED BY <1>1, <1>4, <2>2
<1>7. w.raw * a \in Nat /\ w.raw * b \in Nat /\ v.raw * a \in Nat
  BY <1>1, <1>4
<1> QED BY <1>3, <1>5, <1>6, <1>7

LEMMA MakeRoomKeepsBetter ==
  ASSUME TypeOK, NEW store \in Store, MakeRoom(store), NEW v \in Live(store), v \notin Live(alerts')
  PROVE  /\ store[v].tier # "EMERGENCY"
         /\ \A w \in Live(alerts') :
              ~ /\ alerts'[w].tier # "EMERGENCY"
                /\ alerts'[w].raw < store[v].raw
                /\ alerts'[w].updated <= store[v].updated
<1>1. Cardinality(Live(store)) > MaxAlerts /\ Evictable(store) # {}
  BY DEF MakeRoom, Record
<1>2. PICK x \in Lowest(store) : alerts' = [store EXCEPT ![x] = NoAlert]
  BY <1>1 DEF MakeRoom, Record
<1>3. x \in Live(store) /\ x \in Addresses /\ store[x].tier # "EMERGENCY"
  BY <1>2 DEF Lowest, Evictable, Emergencies, Live
<1>4. Live(alerts') = Live(store) \ {x} /\ v = x
  BY <1>2, <1>3, LiveEvict DEF Store
<1> SUFFICES ASSUME NEW w \in Live(alerts'), alerts'[w].tier # "EMERGENCY",
                    alerts'[w].raw < store[v].raw, alerts'[w].updated <= store[v].updated
             PROVE  FALSE
  BY <1>3, <1>4
<1>5. w \in Live(store) /\ w # x /\ w \in Addresses /\ alerts'[w] = store[w]
  BY <1>2, <1>4 DEF Live, Store
<1>6. w \in Evictable(store)
  BY <1>5 DEF Evictable, Emergencies
<1>7. CurrentPriority(store[x]) <= CurrentPriority(store[w])
  BY <1>2, <1>6 DEF Lowest
<1>8. store[x] \in Alert /\ store[w] \in Alert
  BY <1>3, <1>5, UpdatesType
<1>9. CurrentPriority(store[w]) < CurrentPriority(store[x])
  BY <1>4, <1>5, <1>8, PriorityOrder
<1>10. CurrentPriority(store[w]) \in Int /\ CurrentPriority(store[x]) \in Int
  BY <1>8, PriorityType
<1> QED BY <1>7, <1>9, <1>10

LEMMA EvictionStep == TypeInv /\ [Next]_vars => [EvictsNothingBetter]_vars
<1> SUFFICES ASSUME TypeInv, [Next]_vars PROVE [EvictsNothingBetter]_vars
  OBVIOUS
<1>1. CASE \E a \in Addresses, tier \in Tiers, raw \in Raws : Create(a, tier, raw)
  <2>1. PICK a \in Addresses, tier \in Tiers, raw \in Raws : Create(a, tier, raw)
    BY <1>1
  <2> DEFINE store == [alerts EXCEPT ![a] = NewAlert(tier, raw)]
  <2>2. store \in Store /\ Live(store) = Live(alerts) \cup {a} /\ a \notin Live(alerts)
    BY <2>1, CreateStore
  <2>3. MakeRoom(store)
    BY <2>1 DEF Create
  <2>4. \A v \in Live(alerts) : v \in Live(store) /\ store[v] = alerts[v]
    BY <2>2 DEF TypeInv, TypeOK, Live
  <2> HIDE DEF store
  <2>5. EvictsNothingBetter
    BY <2>2, <2>3, <2>4, MakeRoomKeepsBetter DEF EvictsNothingBetter, TypeInv
  <2> QED BY <2>5
<1>2. CASE \E a \in Addresses, tier \in Tiers, raw \in Raws : Update(a, tier, raw)
  BY <1>2, UpdateType DEF EvictsNothingBetter
<1>3. CASE \E a \in Addresses : Acknowledge(a)
  BY <1>3, AcknowledgeType DEF EvictsNothingBetter
<1>4. CASE HourPasses
  BY <1>4 DEF HourPasses, EvictsNothingBetter, Live
<1>5. CASE UNCHANGED vars
  BY <1>5
<1> QED BY <1>1, <1>2, <1>3, <1>4, <1>5 DEF Next, AddOrUpdate

\* An alert that leaves the store was not EMERGENCY, and no alert that stays is
\* a worse one, however long the two have aged.
THEOREM EvictionOrderAlways == Spec => EvictionOrder
<1>1. TypeInv /\ [Next]_vars => [EvictsNothingBetter]_vars
  BY EvictionStep
<1> QED BY <1>1, TypeInit, TypeStep, PTL DEF Spec, EvictionOrder

----------------------------------------------------------------------------
(* The count of what was merged.  It is a sum over the alerts that are held, *)
(* so each step is followed through the one alert it changes.               *)

Updates(store) == [a \in Live(store) |-> store[a].updates]
Total(store) == SumFunction(Updates(store))

LEMMA UpdatesTyped ==
  ASSUME NEW store \in Store
  PROVE  Updates(store) \in [Live(store) -> Nat] /\ Total(store) \in Nat
<1>1. Updates(store) \in [Live(store) -> Nat]
  BY UpdatesType DEF Updates
<1> QED BY <1>1, SumType, LiveFinite DEF Total

\* A new alert has absorbed nothing.
LEMMA CreateTotal ==
  ASSUME NEW old \in Store, NEW store \in Store, NEW a, a \notin Live(old),
         Live(store) = Live(old) \cup {a}, store[a].updates = 0,
         \A x \in Live(old) : store[x] = old[x]
  PROVE  Total(store) = Total(old)
<1> DEFINE g == Updates(store)
           h == Updates(old)
           S == Live(store)
<1>1. /\ g \in [S -> Nat] /\ a \in S /\ S \ {a} = Live(old) /\ h \in [S \ {a} -> Nat]
      /\ IsFiniteSet(S) /\ Total(old) \in Nat
  <2>1. g \in [S -> Nat] /\ h \in [Live(old) -> Nat] /\ Total(old) \in Nat
    BY UpdatesTyped
  <2>2. IsFiniteSet(S)
    BY LiveFinite
  <2>3. a \in S /\ S \ {a} = Live(old)
    OBVIOUS
  <2> HIDE DEF g, h, S
  <2> QED BY <2>1, <2>2, <2>3
<1>2. g[a] = 0 /\ \A y \in S \ {a} : h[y] = g[y]
  BY DEF Updates
<1> HIDE DEF g, h, S
<1>3. SumFunction(g) = g[a] + SumFunction(h)
  BY <1>1, <1>2, SumTakeOut
<1> QED BY <1>1, <1>2, <1>3 DEF Total, g, h

\* What an eviction forgets is what the evicted alert had absorbed.
LEMMA MakeRoomTotal ==
  ASSUME NEW store \in Store, MakeRoom(store), forgotten \in Nat
  PROVE  forgotten' + Total(alerts') = forgotten + Total(store)
<1>1. CASE Cardinality(Live(store)) > MaxAlerts /\ Evictable(store) # {}
  <2>1. PICK v \in Lowest(store) :
          alerts' = [store EXCEPT ![v] = NoAlert] /\ forgotten' = forgotten + store[v].updates
    BY <1>1 DEF MakeRoom, Record
  <2>2. v \in Live(store) /\ v \in Addresses
    BY <2>1 DEF Lowest, Evictable, Live
  <2>3. alerts' \in Store /\ Live(alerts') = Live(store) \ {v}
    BY <2>1, <2>2, LiveEvict DEF Store
  <2> DEFINE g == Updates(store)
             h == Updates(alerts')
             S == Live(store)
  <2>4. /\ g \in [S -> Nat] /\ v \in S /\ h \in [S \ {v} -> Nat] /\ IsFiniteSet(S)
        /\ Total(alerts') \in Nat
    BY <2>2, <2>3, UpdatesTyped, LiveFinite
  <2>5. g[v] = store[v].updates /\ \A y \in S \ {v} : h[y] = g[y]
    BY <2>1, <2>2, <2>3 DEF Updates, Store, Live
  <2> HIDE DEF g, h, S
  <2>6. SumFunction(g) = g[v] + SumFunction(h)
    BY <2>4, <2>5, SumTakeOut
  <2>7. Total(store) = store[v].updates + Total(alerts') /\ store[v].updates \in Nat
    BY <2>4, <2>5, <2>6 DEF Total, g, h
  <2> QED BY <2>1, <2>4, <2>7
<1>2. CASE ~(Cardinality(Live(store)) > MaxAlerts /\ Evictable(store) # {})
  BY <1>2 DEF MakeRoom, Record
<1> QED BY <1>1, <1>2

LEMMA DedupStep == TypeInv /\ DedupAccounted /\ [Next]_vars => DedupAccounted'
<1> SUFFICES ASSUME TypeInv, deduped = forgotten + Total(alerts), [Next]_vars
             PROVE  deduped' = forgotten' + Total(alerts')
  BY DEF DedupAccounted, Total, Updates
<1>0. TypeInv' /\ alerts \in Store /\ deduped \in Nat /\ forgotten \in Nat
  BY TypeStep DEF TypeInv, TypeOK, Store
<1>1. CASE \E a \in Addresses, tier \in Tiers, raw \in Raws : Create(a, tier, raw)
  <2>1. PICK a \in Addresses, tier \in Tiers, raw \in Raws : Create(a, tier, raw)
    BY <1>1
  <2> DEFINE store == [alerts EXCEPT ![a] = NewAlert(tier, raw)]
  <2>2. store \in Store /\ Live(store) = Live(alerts) \cup {a} /\ a \notin Live(alerts)
    BY <2>1, CreateStore
  <2>3. store[a].updates = 0 /\ \A x \in Live(alerts) : store[x] = alerts[x]
    BY <1>0, <2>2, NewAlertType DEF Store, Live, TypeInv
  <2>4. MakeRoom(store) /\ deduped' = deduped
    BY <2>1 DEF Create
  <2> HIDE DEF store
  <2>5. Total(store) = Total(alerts)
    BY <1>0, <2>2, <2>3, CreateTotal
  <2>6. forgotten' + Total(alerts') = forgotten + Total(store)
    BY <1>0, <2>2, <2>4, MakeRoomTotal
  <2> QED BY <2>4, <2>5, <2>6
<1>2. CASE \E a \in Addresses, tier \in Tiers, raw \in Raws : Update(a, tier, raw)
  <2>1. PICK a \in Addresses, tier \in Tiers, raw \in Raws : Update(a, tier, raw)
    BY <1>2
  <2>2. /\ deduped' = deduped + 1 /\ forgotten' = forgotten /\ alerts[a] # NoAlert
        /\ alerts' = [alerts EXCEPT ![a] = Merged(alerts[a], tier, raw)]
        /\ Live(alerts') = Live(alerts)
    BY <2>1, UpdateType DEF Update, Record
  <2>3. alerts' \in Store
    BY <1>0 DEF TypeInv, TypeOK, Store
  <2> DEFINE g == Updates(alerts)
             h == Updates(alerts')
             S == Live(alerts)
  <2>4. /\ g \in [S -> Nat] /\ h \in [S -> Nat] /\ IsFiniteSet(S) /\ a \in S
        /\ Total(alerts) \in Nat
    BY <1>0, <2>2, <2>3, UpdatesTyped, LiveFinite DEF Live
  <2>5. h[a] = g[a] + 1 /\ \A y \in S \ {a} : h[y] = g[y]
    BY <1>0, <2>2, <2>4 DEF Updates, Merged, Store, Live
  <2>6. g[a] \in Nat
    BY <2>4
  <2> HIDE DEF g, h, S
  <2>7. SumFunction(h) = SumFunction(g) - g[a] + h[a]
    BY <2>4, <2>5, SumChange
  <2>8. Total(alerts') = Total(alerts) + 1
    BY <2>4, <2>5, <2>6, <2>7 DEF Total, g, h
  <2> QED BY <1>0, <2>2, <2>4, <2>8
<1>3. CASE \E a \in Addresses : Acknowledge(a)
  <2>1. PICK a \in Addresses : Acknowledge(a)
    BY <1>3
  <2>2. Live(alerts') = Live(alerts) /\ UNCHANGED <<deduped, forgotten>>
    BY <2>1, AcknowledgeType DEF Acknowledge
  <2>3. ASSUME NEW x \in Live(alerts) PROVE alerts'[x].updates = alerts[x].updates
    <3>1. alerts[x] \in Alert /\ x \in Addresses
      BY <1>0, UpdatesType DEF Live
    <3> QED BY <1>0, <2>1, <3>1 DEF Acknowledge, Store, Alert
  <2>4. Updates(alerts') = Updates(alerts)
    BY <2>2, <2>3 DEF Updates
  <2> QED BY <2>2, <2>4 DEF Total
<1>4. CASE HourPasses \/ UNCHANGED vars
  BY <1>4 DEF HourPasses, vars
<1> QED BY <1>1, <1>2, <1>3, <1>4 DEF Next, AddOrUpdate

LEMMA DedupInit == Init => DedupAccounted
<1> SUFFICES ASSUME Init PROVE DedupAccounted
  OBVIOUS
<1>1. Live(alerts) = {} /\ alerts \in Store
  BY DEF Init, Live, Store
<1>2. Total(alerts) = 0
  BY <1>1, UpdatesTyped, SumType, LiveFinite DEF Total
<1> QED BY <1>2 DEF Init, DedupAccounted, Total, Updates

\* An assessment counted as deduplicated is in the update count of the alert it
\* was merged into, held or evicted.
THEOREM DedupAccountedAlways == Spec => []DedupAccounted
BY TypeInit, TypeStep, DedupInit, DedupStep, PTL DEF Spec
============================================================================
