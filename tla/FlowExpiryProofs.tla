-------------------------- MODULE FlowExpiryProofs --------------------------
(***************************************************************************)
(* What TLAPS proves about FlowExpiry, for any number of rules, flow ids   *)
(* and any timeouts.  The argument is about ages: how far last_matched,    *)
(* which the sweep reads, may be from the time since the last packet, in   *)
(* both directions.                                                        *)
(***************************************************************************)
EXTENDS FlowExpiry, FiniteSetTheorems, TLAPS

(* What the sweep of this unit has still to do.                            *)
Slack(w) == IF w THEN 0 ELSE 1

(* The times of a rule when the timer fires in d units and w tells whether *)
(* the sweep of this unit has been made.  Between two packets last_matched *)
(* is at most as old as the packet before (nothing is counted) or lags     *)
(* behind by the time since the timer fired (something is).                *)
HasIdTimes(o, d, w) ==
    /\ o.last_matched <= o.idle_timeout + Slack(w)
    /\ o.silent <= o.last_matched + Tick
    /\ o.silent <= o.gap
    /\ o.counted => o.silent <= Tick - d /\ o.last_matched <= o.gap + (Tick - d)
    /\ ~o.counted => o.last_matched <= o.silent

Timely(o, d, w) ==
    /\ o.hard_timeout # 0 => o.modified <= o.hard_timeout + Slack(w)
    /\ (o.idle_timeout # 0 /\ o.has_id) => HasIdTimes(o, d, w)
    /\ (o.idle_timeout # 0 /\ ~o.has_id) => o.last_matched = MaxAge /\ o.silent <= Slack(w)

(* The ids that are taken: no more than there are, and no more than the    *)
(* rules and the flows added since the timer fired can have taken.         *)
Taken == Cardinality(WithId) + marked

IInv ==
    /\ TypeOK
    /\ \A r \in Rules : Live(r) => Timely(rule[r], due, swept)
    /\ Taken <= NFlowIds
    /\ adds < NFlowIds => Taken <= adds + Cardinality(Rules)

----------------------------------------------------------------------------
(* An age grows by at most one and never falls.                            *)
LEMMA OlderProps ==
    ASSUME NEW n \in Ages
    PROVE  /\ Older(n) \in Ages /\ n <= Older(n) /\ Older(n) <= n + 1
           /\ Older(n) = MaxAge \/ Older(n) = n + 1
  BY TimeAssumption DEF Ages, Older

(* The fields of a rule.                                                   *)
LEMMA FieldTypes ==
    ASSUME NEW o \in RuleRecords
    PROVE  /\ o.silent \in Ages /\ o.gap \in Ages
           /\ o.last_matched \in Ages /\ o.modified \in Ages
           /\ o.counted \in BOOLEAN /\ o.has_id \in BOOLEAN
           /\ o.idle_timeout \in Nat /\ o.hard_timeout \in Nat
           /\ o.idle_timeout + Tick + 1 < MaxAge /\ o.hard_timeout + 1 < MaxAge
<1>1. o.idle_timeout \in IdleTimeouts /\ o.hard_timeout \in HardTimeouts
  BY DEF RuleRecords
<1>2. /\ o.silent \in Ages /\ o.gap \in Ages
      /\ o.last_matched \in Ages /\ o.modified \in Ages
      /\ o.counted \in BOOLEAN /\ o.has_id \in BOOLEAN
  BY DEF RuleRecords
<1> QED BY <1>1, <1>2, TimeAssumption

(* Ages are natural numbers.                                               *)
LEMMA AgesNat == Ages \subseteq Nat /\ 0 \in Ages /\ MaxAge \in Ages /\ \A n \in Ages : n <= MaxAge
  BY TimeAssumption DEF Ages

(* A new flow is timely: it counts as just matched, or it got no id.       *)
LEMMA NewTimely ==
    ASSUME NEW i \in IdleTimeouts, NEW h \in HardTimeouts, NEW b \in BOOLEAN,
           NEW d \in 0 .. Tick, NEW w \in BOOLEAN
    PROVE  NewRule(i, h, b) \in RuleRecords /\ Timely(NewRule(i, h, b), d, w)
<1> DEFINE o == NewRule(i, h, b)
<1>1. /\ o.idle_timeout = i /\ o.hard_timeout = h /\ o.modified = 0 /\ o.counted = FALSE
      /\ o.has_id = b /\ o.silent = 0 /\ o.gap = 0
      /\ o.last_matched = IF b THEN 0 ELSE MaxAge
  BY DEF NewRule
<1>2. o \in RuleRecords
  BY TimeAssumption DEF NewRule, RuleRecords, Ages
<1> HIDE DEF o
<1>3. Timely(o, d, w)
  BY <1>1, TimeAssumption DEF Timely, HasIdTimes, Slack
<1> QED BY <1>2, <1>3 DEF o

(* A modification resets the hard time and nothing else.                   *)
LEMMA ModifiedTimely ==
    ASSUME NEW o \in RuleRecords, NEW d \in 0 .. Tick, NEW w \in BOOLEAN, Timely(o, d, w)
    PROVE  [o EXCEPT !.modified = 0] \in RuleRecords
           /\ Timely([o EXCEPT !.modified = 0], d, w)
<1> DEFINE q == [o EXCEPT !.modified = 0]
<1>1. /\ q.idle_timeout = o.idle_timeout /\ q.hard_timeout = o.hard_timeout
      /\ q.modified = 0 /\ q.last_matched = o.last_matched /\ q.counted = o.counted
      /\ q.has_id = o.has_id /\ q.silent = o.silent /\ q.gap = o.gap
  BY DEF RuleRecords
<1>2. q \in RuleRecords
  BY AgesNat DEF RuleRecords
<1> HIDE DEF q
<1>3. Timely(q, d, w)
  BY <1>1, FieldTypes, AgesNat, TimeAssumption DEF Timely, HasIdTimes, Slack
<1> QED BY <1>2, <1>3 DEF q

(* A packet ends the silence and is counted; last_matched stays behind.    *)
LEMMA MatchedTimely ==
    ASSUME NEW o \in RuleRecords, NEW d \in 0 .. Tick, NEW w \in BOOLEAN, Timely(o, d, w)
    PROVE  [o EXCEPT !.counted = TRUE, !.silent = 0] \in RuleRecords
           /\ Timely([o EXCEPT !.counted = TRUE, !.silent = 0], d, w)
<1> DEFINE q == [o EXCEPT !.counted = TRUE, !.silent = 0]
<1>1. /\ q.idle_timeout = o.idle_timeout /\ q.hard_timeout = o.hard_timeout
      /\ q.modified = o.modified /\ q.last_matched = o.last_matched /\ q.counted = TRUE
      /\ q.has_id = o.has_id /\ q.silent = 0 /\ q.gap = o.gap
  BY DEF RuleRecords
<1>2. q \in RuleRecords
  BY AgesNat DEF RuleRecords
<1>3. o.silent \in Nat /\ o.gap \in Nat /\ o.last_matched \in Nat /\ o.modified \in Nat
      /\ o.counted \in BOOLEAN /\ o.has_id \in BOOLEAN
      /\ o.idle_timeout \in Nat /\ o.hard_timeout \in Nat
  BY FieldTypes, AgesNat
<1> HIDE DEF q
<1>4. Timely(q, d, w)
  BY <1>1, <1>3, TimeAssumption DEF Timely, HasIdTimes, Slack
<1> QED BY <1>2, <1>4 DEF q

(* The timer that is due (d = 0) looks at a rule and starts again: what it *)
(* has seen to count is matched now, although the packet may be Tick old.  *)
LEMMA SeenTimely ==
    ASSUME NEW o \in RuleRecords, NEW w \in BOOLEAN, Timely(o, 0, w)
    PROVE  /\ Seen(o) \in RuleRecords /\ Timely(Seen(o), Tick, w)
           /\ Seen(o).has_id = o.has_id
<1> DEFINE q == Seen(o)
<1>1. o.silent \in Nat /\ o.gap \in Nat /\ o.last_matched \in Nat /\ o.modified \in Nat
      /\ o.counted \in BOOLEAN /\ o.has_id \in BOOLEAN
      /\ o.idle_timeout \in Nat /\ o.hard_timeout \in Nat
  BY FieldTypes, AgesNat
<1>2. CASE o.idle_timeout # 0 /\ o.has_id /\ o.counted
  <2>1. q = [o EXCEPT !.last_matched = 0, !.counted = FALSE]
    BY <1>2 DEF Seen
  <2>2. /\ q.idle_timeout = o.idle_timeout /\ q.hard_timeout = o.hard_timeout
        /\ q.modified = o.modified /\ q.last_matched = 0 /\ q.counted = FALSE
        /\ q.has_id = o.has_id /\ q.silent = o.silent /\ q.gap = o.gap
    BY <2>1 DEF RuleRecords
  <2>3. q \in RuleRecords
    BY <2>1, AgesNat DEF RuleRecords
  <2> HIDE DEF q
  <2>4. Timely(q, Tick, w)
    BY <1>1, <1>2, <2>2, TimeAssumption DEF Timely, HasIdTimes, Slack
  <2> QED BY <2>2, <2>3, <2>4 DEF q
<1>3. CASE ~(o.idle_timeout # 0 /\ o.has_id /\ o.counted)
  <2>1. q = o
    BY <1>3 DEF Seen
  <2> HIDE DEF q
  <2>2. Timely(o, Tick, w)
    BY <1>1, <1>3, TimeAssumption DEF Timely, HasIdTimes
  <2> QED BY <2>1, <2>2 DEF q
<1> QED BY <1>2, <1>3

(* What a unit of time does to a rule.                                     *)
Aged(o) == [o EXCEPT !.modified = Older(@), !.last_matched = Older(@),
                     !.silent = Older(@), !.gap = Longer(@, Older(o.silent))]

(* A unit of time may pass for a rule the sweep has spared.                *)
LEMMA AgedTimely ==
    ASSUME NEW o \in RuleRecords, NEW d \in 1 .. Tick, Timely(o, d, TRUE)
    PROVE  /\ Aged(o) \in RuleRecords /\ Timely(Aged(o), d - 1, FALSE)
           /\ Aged(o).has_id = o.has_id
<1> DEFINE q == Aged(o)
<1>1. /\ o.silent \in Ages /\ o.gap \in Ages /\ o.last_matched \in Ages /\ o.modified \in Ages
      /\ o.counted \in BOOLEAN /\ o.has_id \in BOOLEAN
      /\ o.idle_timeout \in Nat /\ o.hard_timeout \in Nat
  BY FieldTypes
<1>2. /\ q.idle_timeout = o.idle_timeout /\ q.hard_timeout = o.hard_timeout
      /\ q.modified = Older(o.modified) /\ q.last_matched = Older(o.last_matched)
      /\ q.counted = o.counted /\ q.has_id = o.has_id
      /\ q.silent = Older(o.silent) /\ q.gap = Longer(o.gap, Older(o.silent))
  BY DEF Aged, RuleRecords
<1>3. Longer(o.gap, Older(o.silent)) \in Ages
      /\ o.gap <= Longer(o.gap, Older(o.silent)) /\ Older(o.silent) <= Longer(o.gap, Older(o.silent))
  BY <1>1, OlderProps, TimeAssumption DEF Longer, Ages
<1>4. q \in RuleRecords
  <2>1. Older(o.modified) \in Ages /\ Older(o.last_matched) \in Ages /\ Older(o.silent) \in Ages
    BY <1>1, OlderProps
  <2> QED BY <1>3, <2>1 DEF Aged, RuleRecords
<1> HIDE DEF q
<1>5. q.hard_timeout # 0 => q.modified <= q.hard_timeout + 1
  <2>1. Older(o.modified) \in Nat /\ Older(o.modified) <= o.modified + 1
    BY <1>1, OlderProps, AgesNat
  <2>2. o.hard_timeout # 0 => o.modified <= o.hard_timeout
    BY <1>1, AgesNat DEF Timely, Slack
  <2>3. o.modified \in Nat /\ o.hard_timeout \in Nat
    BY <1>1, AgesNat
  <2> QED BY <1>2, <2>1, <2>2, <2>3
<1>6. (q.idle_timeout # 0 /\ ~q.has_id) => q.last_matched = MaxAge /\ q.silent <= 1
  BY <1>1, <1>2, OlderProps, TimeAssumption DEF Timely, Slack, Ages, Older
<1>7. ASSUME q.idle_timeout # 0, q.has_id PROVE HasIdTimes(q, d - 1, FALSE)
  <2>1. HasIdTimes(o, d, TRUE)
    BY <1>2, <1>7 DEF Timely
  <2>2. /\ Older(o.last_matched) <= o.last_matched + 1 /\ Older(o.silent) <= o.silent + 1
        /\ Older(o.silent) \in Ages /\ Older(o.last_matched) \in Ages
        /\ Older(o.last_matched) = MaxAge \/ Older(o.last_matched) = o.last_matched + 1
        /\ Older(o.silent) = MaxAge \/ Older(o.silent) = o.silent + 1
    BY <1>1, OlderProps
  <2>3. /\ o.last_matched <= o.idle_timeout + 0 /\ o.silent <= o.last_matched + Tick
        /\ o.silent <= o.gap
        /\ o.counted => o.silent <= Tick - d /\ o.last_matched <= o.gap + (Tick - d)
        /\ ~o.counted => o.last_matched <= o.silent
    BY <2>1 DEF HasIdTimes, Slack
  <2>9. /\ o.silent \in Nat /\ o.gap \in Nat /\ o.last_matched \in Nat /\ o.idle_timeout \in Nat
        /\ Older(o.silent) \in Nat /\ Older(o.last_matched) \in Nat /\ q.gap \in Nat
        /\ Older(o.silent) <= MaxAge /\ Older(o.last_matched) <= MaxAge
        /\ MaxAge \in Nat /\ Tick \in Nat /\ d \in Nat /\ d <= Tick
        /\ o.counted \in BOOLEAN /\ o.gap <= q.gap
    <3>1. MaxAge \in Nat /\ Tick \in Nat /\ d \in Nat /\ d <= Tick
      BY TimeAssumption
    <3>2. /\ o.silent \in Nat /\ o.gap \in Nat /\ o.last_matched \in Nat
          /\ Older(o.silent) \in Nat /\ Older(o.last_matched) \in Nat /\ q.gap \in Nat
          /\ Older(o.silent) <= MaxAge /\ Older(o.last_matched) <= MaxAge
      BY <1>1, <1>2, <1>3, <2>2, AgesNat
    <3> QED BY <1>1, <1>2, <1>3, <3>1, <3>2
  <2>4. q.last_matched <= q.idle_timeout + 1
    BY <1>2, <2>9, <2>2, <2>3
  <2>5. q.silent <= q.last_matched + Tick
    BY <1>2, <2>9, <2>2, <2>3
  <2>6. q.silent <= q.gap
    BY <1>2, <1>3
  <2>7. q.counted => q.silent <= Tick - (d - 1) /\ q.last_matched <= q.gap + (Tick - (d - 1))
    BY <1>2, <2>9, <2>2, <2>3
  <2>8. ~q.counted => q.last_matched <= q.silent
    BY <1>2, <2>9, <2>2, <2>3
  <2> QED BY <2>4, <2>5, <2>6, <2>7, <2>8 DEF HasIdTimes, Slack
<1> QED BY <1>2, <1>4, <1>5, <1>6, <1>7 DEF Timely, Slack, q

(* The sweep makes the unit complete for every rule it does not expire.    *)
LEMMA SparedTimely ==
    ASSUME NEW o \in RuleRecords, NEW d \in 0 .. Tick, NEW w \in BOOLEAN, Timely(o, d, w),
           ~HardExpired(o), ~IdleExpired(o)
    PROVE  Timely(o, d, TRUE)
<1>1. o.silent \in Nat /\ o.gap \in Nat /\ o.last_matched \in Nat /\ o.modified \in Nat
      /\ o.has_id \in BOOLEAN
      /\ o.idle_timeout \in Nat /\ o.hard_timeout \in Nat
      /\ o.idle_timeout < MaxAge
  <2>1. o.idle_timeout + Tick + 1 < MaxAge /\ o.idle_timeout \in Nat /\ Tick \in Nat /\ MaxAge \in Nat
    BY FieldTypes, TimeAssumption
  <2>2. o.idle_timeout < MaxAge
    BY <2>1
  <2> QED BY <2>2, FieldTypes, AgesNat
<1> QED BY <1>1, TimeAssumption DEF Timely, HasIdTimes, Slack, HardExpired, IdleExpired

(* The ids of the installed rules can be counted.                          *)
LEMMA IdsFinite ==
    /\ IsFiniteSet(WithId) /\ Cardinality(WithId) \in Nat
    /\ Cardinality(Rules) \in Nat /\ Cardinality(WithId) <= Cardinality(Rules)
  BY TimeAssumption, FS_Subset, FS_CardinalityType DEF WithId

(* A step that leaves every rule installed or not, and with its id or      *)
(* without, keeps the ids.                                                 *)
LEMMA IdsKept ==
    ASSUME \A r \in Rules : /\ rule'[r] = Null <=> rule[r] = Null
                            /\ Live(r) => rule'[r].has_id = rule[r].has_id
    PROVE  WithId' = WithId
  BY DEF WithId, Live

(* Rules that go give their ids to the marked ones: none gets lost.        *)
LEMMA DeletedTaken ==
    ASSUME TypeOK, NEW S \in SUBSET Rules, Deleted(S)
    PROVE  /\ WithId' = WithId \ S /\ marked' \in Nat /\ Taken' = Taken /\ marked' <= Taken
           /\ \A r \in Rules : rule'[r] = IF r \in S THEN Null ELSE rule[r]
<1>1. \A r \in Rules : rule'[r] = IF r \in S THEN Null ELSE rule[r]
  BY DEF Deleted
<1>2. WithId' = WithId \ S
  BY <1>1 DEF WithId, Live
<1>3. IsFiniteSet(WithId) /\ Cardinality(WithId) \in Nat
  BY IdsFinite
<1>4. IsFiniteSet(WithId \ S) /\ Cardinality(WithId \ S) = Cardinality(WithId) - Cardinality(WithId \cap S)
      /\ Cardinality(WithId \ S) \in Nat
  BY <1>3, FS_Difference, FS_CardinalityType
<1>5. Cardinality(WithId \cap S) \in Nat /\ S \cap WithId = WithId \cap S
  BY <1>3, FS_Subset, FS_CardinalityType
<1>6. marked \in Nat /\ marked' = marked + Cardinality(S \cap WithId)
  BY DEF TypeOK, Deleted
<1>7. Cardinality(WithId)' = Cardinality(WithId \ S)
  BY <1>2
<1> QED BY <1>1, <1>2, <1>3, <1>4, <1>5, <1>6, <1>7 DEF Taken

(* A flow that is added has an id of its own while there is one.           *)
LEMMA AddFlowTaken ==
    ASSUME TypeOK, NEW r \in Rules, NEW i \in IdleTimeouts, NEW h \in HardTimeouts,
           AddFlowTimer(r, i, h)
    PROVE  /\ rule'[r] = NewRule(i, h, IdLeft)
           /\ \A q \in Rules : q # r => rule'[q] = rule[q]
           /\ Taken' = IF IdLeft THEN Taken + 1 ELSE Taken
<1>1. rule' = [rule EXCEPT ![r] = NewRule(i, h, IdLeft)] /\ ~Live(r) /\ marked' = marked
  BY DEF AddFlowTimer
<1>2. rule'[r] = NewRule(i, h, IdLeft) /\ \A q \in Rules : q # r => rule'[q] = rule[q]
  BY <1>1 DEF TypeOK
<1>3. rule'[r] # Null /\ rule'[r].has_id = IdLeft
  <2>1. NewRule(i, h, IdLeft) \in RuleRecords
    <3>1. IdLeft \in BOOLEAN /\ FALSE \in BOOLEAN /\ 0 \in 0 .. Tick
      BY TimeAssumption DEF IdLeft
    <3> QED BY <3>1, NewTimely
  <2>2. NewRule(i, h, IdLeft).has_id = IdLeft
    BY DEF NewRule
  <2> QED BY <1>2, <2>1, <2>2, NullAssumption
<1>4. r \notin WithId /\ WithId' = IF IdLeft THEN WithId \cup {r} ELSE WithId
  BY <1>1, <1>2, <1>3 DEF WithId, Live
<1>5. Cardinality(WithId \cup {r}) = Cardinality(WithId) + 1
  BY <1>4, IdsFinite, FS_AddElement
<1>6. Cardinality(WithId)' = IF IdLeft THEN Cardinality(WithId) + 1 ELSE Cardinality(WithId)
  BY <1>4, <1>5
<1>7. marked \in Nat /\ Cardinality(WithId) \in Nat
  BY IdsFinite DEF TypeOK
<1> QED BY <1>1, <1>2, <1>6, <1>7 DEF Taken

(* The inductive invariant holds at the start.                             *)
LEMMA InitInv == Init => IInv
<1> SUFFICES ASSUME Init PROVE IInv
  OBVIOUS
<1>1. TypeOK /\ \A r \in Rules : ~Live(r)
  <2>1. Tick \in 0 .. Tick /\ 0 \in 0 .. NFlowIds /\ FALSE \in BOOLEAN
    BY TimeAssumption
  <2>2. rule \in [Rules -> RuleRecords \cup {Null}] /\ \A r \in Rules : rule[r] = Null
    BY DEF Init
  <2> QED BY <2>1, <2>2 DEF Init, TypeOK, Live
<1>2. WithId = {}
  BY <1>1 DEF WithId
<1>3. Taken = 0
  BY <1>2, FS_EmptySet DEF Taken, Init
<1> QED BY <1>1, <1>3, TimeAssumption, IdsFinite DEF IInv, Init

(* Every step keeps the inductive invariant.                               *)
LEMMA NextInv == IInv /\ [Next]_vars => IInv'
<1> SUFFICES ASSUME IInv, [Next]_vars PROVE IInv'
  OBVIOUS
<1>1. TypeOK /\ Taken \in Nat /\ Cardinality(Rules) \in Nat /\ Taken <= NFlowIds
      /\ (adds < NFlowIds => Taken <= adds + Cardinality(Rules))
  BY IdsFinite DEF IInv, TypeOK, Taken
<1>2. /\ due \in 0 .. Tick /\ swept \in BOOLEAN /\ Tick \in Nat /\ Tick > 0 /\ NFlowIds \in Nat
      /\ marked \in 0 .. NFlowIds /\ adds \in 0 .. NFlowIds
  BY <1>1, TimeAssumption DEF TypeOK
<1>3. \A r \in Rules : Live(r) => rule[r] \in RuleRecords /\ Timely(rule[r], due, swept)
  BY DEF IInv, TypeOK, Live
<1>4. ASSUME NEW r \in Rules, NEW i \in IdleTimeouts, NEW h \in HardTimeouts,
             AddFlowTimer(r, i, h)
      PROVE  IInv'
  <2>1. rule'[r] \in RuleRecords /\ Timely(rule'[r], due', swept')
    <3>1. IdLeft \in BOOLEAN /\ due' = due /\ swept' = swept
      BY <1>4 DEF IdLeft, AddFlowTimer
    <3> QED BY <1>1, <1>2, <1>4, <3>1, NewTimely, AddFlowTaken
  <2>2. rule' \in [Rules -> RuleRecords \cup {Null}]
    <3>1. rule' = [rule EXCEPT ![r] = rule'[r]]
      BY <1>1, <1>4 DEF AddFlowTimer, TypeOK
    <3> QED BY <1>1, <2>1, <3>1 DEF TypeOK
  <2>3. \A q \in Rules : Live(q)' => Timely(rule'[q], due', swept')
    <3>1. due' = due /\ swept' = swept
      BY <1>4 DEF AddFlowTimer
    <3> QED BY <1>1, <1>3, <1>4, <2>1, <3>1, AddFlowTaken DEF Live
  <2>4. Taken' <= NFlowIds /\ (adds' < NFlowIds => Taken' <= adds' + Cardinality(Rules))
        /\ adds' \in 0 .. NFlowIds
    <3>1. adds' = IF adds < NFlowIds THEN adds + 1 ELSE adds
      BY <1>4 DEF AddFlowTimer, Counted
    <3>2. Taken' = IF IdLeft THEN Taken + 1 ELSE Taken
      BY <1>1, <1>4, AddFlowTaken
    <3>3. IdLeft <=> Taken < NFlowIds
      BY DEF IdLeft, Taken
    <3> QED BY <1>1, <1>2, <3>1, <3>2, <3>3
  <2>5. UNCHANGED <<due, swept, marked>>
    BY <1>4 DEF AddFlowTimer
  <2> QED BY <1>2, <2>2, <2>3, <2>4, <2>5 DEF IInv, TypeOK
<1>5. ASSUME AddFlowFails PROVE IInv'
  <2>1. /\ rule' = rule /\ due' = due /\ swept' = swept
        /\ adds' = IF adds < NFlowIds THEN adds + 1 ELSE adds
        /\ marked' = IF IdLeft THEN marked + 1 ELSE marked
    BY <1>5 DEF AddFlowFails, Counted
  <2>2. WithId' = WithId
    BY <2>1 DEF WithId, Live
  <2>3. Cardinality(WithId) \in Nat /\ (IdLeft <=> Taken < NFlowIds)
        /\ Taken = Cardinality(WithId) + marked /\ Taken' = Cardinality(WithId) + marked'
    BY <2>2, IdsFinite DEF IdLeft, Taken
  <2>4. Taken' <= NFlowIds /\ (adds' < NFlowIds => Taken' <= adds' + Cardinality(Rules))
        /\ adds' \in 0 .. NFlowIds /\ marked' \in 0 .. NFlowIds
    BY <1>1, <1>2, <2>1, <2>3
  <2> QED BY <1>1, <1>2, <1>3, <2>1, <2>4 DEF IInv, TypeOK, Live
<1>6. ASSUME NEW S \in SUBSET Rules, Deleted(S), swept' \in BOOLEAN,
             \A r \in Rules \ S : Live(r) => Timely(rule[r], due, swept')
      PROVE  IInv'
  <2>1. rule' \in [Rules -> RuleRecords \cup {Null}]
    BY <1>1, <1>6 DEF Deleted, TypeOK
  <2>2. due' = due /\ adds' = adds
    BY <1>6 DEF Deleted
  <2>3. marked' \in Nat /\ Taken' = Taken /\ marked' <= Taken
        /\ \A r \in Rules : rule'[r] = IF r \in S THEN Null ELSE rule[r]
    BY <1>1, <1>6, DeletedTaken
  <2>4. marked' \in 0 .. NFlowIds
    BY <1>1, <1>2, <2>3
  <2>5. \A r \in Rules : Live(r)' => Timely(rule'[r], due', swept')
    BY <1>6, <2>2, <2>3 DEF Live
  <2> QED BY <1>1, <1>2, <1>6, <2>1, <2>2, <2>3, <2>4, <2>5 DEF IInv, TypeOK
<1>7. ASSUME NEW r \in Rules, Remove(r) PROVE IInv'
  <2>1. Deleted({r}) /\ swept' = swept /\ {r} \in SUBSET Rules
    BY <1>7 DEF Remove
  <2> QED BY <1>2, <1>3, <1>6, <2>1
<1>8. ASSUME Expire PROVE IInv'
  <2> DEFINE S == {r \in Rules : Expired(r)}
  <2>1. Deleted(S) /\ swept' = TRUE /\ S \in SUBSET Rules
    BY <1>8 DEF Expire
  <2>2. \A r \in Rules \ S : Live(r) => Timely(rule[r], due, TRUE)
    BY <1>2, <1>3, SparedTimely DEF Expired
  <2> HIDE DEF S
  <2> QED BY <1>6, <2>1, <2>2
<1>9. ASSUME NEW d \in 0 .. Tick, due' = d, swept' \in BOOLEAN,
             rule' \in [Rules -> RuleRecords \cup {Null}],
             \A r \in Rules : IF Live(r) THEN /\ rule'[r] \in RuleRecords
                                              /\ Timely(rule'[r], d, swept')
                                              /\ rule'[r].has_id = rule[r].has_id
                              ELSE rule'[r] = Null,
             \/ marked' = marked /\ adds' = adds
             \/ marked' = 0 /\ adds' = 0
      PROVE  IInv'
  <2>1. \A r \in Rules : rule'[r] = Null <=> rule[r] = Null
    BY <1>9, NullAssumption DEF Live
  <2>2. WithId' = WithId
    BY <1>9, <2>1, IdsKept
  <2>3. Cardinality(WithId) \in Nat /\ Cardinality(WithId) <= Cardinality(Rules)
        /\ Taken = Cardinality(WithId) + marked /\ Taken' = Cardinality(WithId) + marked'
    BY <2>2, IdsFinite DEF Taken
  <2>4. /\ Taken' <= NFlowIds /\ (adds' < NFlowIds => Taken' <= adds' + Cardinality(Rules))
        /\ marked' \in 0 .. NFlowIds /\ adds' \in 0 .. NFlowIds
    BY <1>1, <1>2, <1>9, <2>3
  <2>5. \A r \in Rules : Live(r)' => Timely(rule'[r], due', swept')
    BY <1>9, <2>1 DEF Live
  <2> QED BY <1>9, <2>4, <2>5 DEF IInv, TypeOK
<1>10. ASSUME NEW r \in Rules, Modify(r) PROVE IInv'
  <2> DEFINE o == [rule[r] EXCEPT !.modified = 0]
  <2>1. Live(r) /\ rule' = [rule EXCEPT ![r] = o] /\ UNCHANGED <<due, swept, marked, adds>>
    BY <1>10 DEF Modify
  <2>2. o \in RuleRecords /\ Timely(o, due, swept) /\ o.has_id = rule[r].has_id
    BY <1>2, <1>3, <2>1, ModifiedTimely DEF RuleRecords
  <2> HIDE DEF o
  <2> QED BY <1>1, <1>2, <1>3, <1>9, <2>1, <2>2 DEF TypeOK, Live
<1>11. ASSUME NEW r \in Rules, Match(r) PROVE IInv'
  <2> DEFINE o == [rule[r] EXCEPT !.counted = TRUE, !.silent = 0]
  <2>1. Live(r) /\ rule' = [rule EXCEPT ![r] = o] /\ UNCHANGED <<due, swept, marked, adds>>
    BY <1>1, <1>11 DEF Match, TypeOK
  <2>2. o \in RuleRecords /\ Timely(o, due, swept) /\ o.has_id = rule[r].has_id
    BY ZenonT(40), <1>2, <1>3, <2>1, MatchedTimely DEF RuleRecords
  <2> HIDE DEF o
  <2> QED BY <1>1, <1>2, <1>3, <1>9, <2>1, <2>2 DEF TypeOK, Live
<1>12. ASSUME IdleTimeoutTimer PROVE IInv'
  <2>1. /\ due = 0 /\ due' = Tick /\ swept' = swept /\ marked' = 0 /\ adds' = 0
        /\ rule' = [r \in Rules |-> IF Live(r) THEN Seen(rule[r]) ELSE Null]
    BY <1>12 DEF IdleTimeoutTimer
  <2>2. \A r \in Rules : Live(r) => /\ Seen(rule[r]) \in RuleRecords
                                    /\ Timely(Seen(rule[r]), Tick, swept)
                                    /\ Seen(rule[r]).has_id = rule[r].has_id
    BY <1>2, <1>3, <2>1, SeenTimely
  <2>3. rule' \in [Rules -> RuleRecords \cup {Null}]
    BY <2>1, <2>2
  <2> QED BY <1>2, <1>9, <2>1, <2>2, <2>3
<1>13. ASSUME Pass PROVE IInv'
  <2>1. /\ due > 0 /\ swept = TRUE /\ due' = due - 1 /\ swept' = FALSE
        /\ marked' = marked /\ adds' = adds
        /\ rule' = [r \in Rules |-> IF Live(r) THEN Aged(rule[r]) ELSE Null]
    BY <1>2, <1>13 DEF Pass, Aged
  <2>2. due \in 1 .. Tick /\ due - 1 \in 0 .. Tick
    BY <1>2, <2>1
  <2>3. \A r \in Rules : Live(r) => /\ Aged(rule[r]) \in RuleRecords
                                    /\ Timely(Aged(rule[r]), due - 1, FALSE)
                                    /\ Aged(rule[r]).has_id = rule[r].has_id
    BY <1>3, <2>1, <2>2, AgedTimely
  <2>4. rule' \in [Rules -> RuleRecords \cup {Null}]
    BY <2>1, <2>3
  <2> QED BY <1>9, <2>1, <2>2, <2>3, <2>4
<1>14. CASE UNCHANGED vars
  BY <1>14 DEF vars, IInv, TypeOK, Live, Taken, WithId
<1> QED
  BY <1>4, <1>5, <1>7, <1>8, <1>10, <1>11, <1>12, <1>13, <1>14 DEF Next

----------------------------------------------------------------------------
(* The state keeps its type: ages stay within their bound and no more flow *)
(* ids are marked than there are.                                          *)
THEOREM TypeCorrect == Spec => []TypeOK
<1>1. IInv => TypeOK
  BY DEF IInv
<1> QED BY <1>1, InitInv, NextInv, PTL DEF Spec

(* Whatever the timeouts, a flow without packets is gone a timer period    *)
(* and a sweep after its idle time, and one sweep after its hard time.     *)
THEOREM FlowsGoInTime == Spec => []GoneInTime
<1>1. IInv => GoneInTime
  <2> SUFFICES ASSUME IInv, NEW r \in Rules, Live(r)
               PROVE  /\ rule[r].idle_timeout # 0 =>
                            rule[r].silent <= rule[r].idle_timeout + Tick + 1
                      /\ rule[r].hard_timeout # 0 => rule[r].modified <= rule[r].hard_timeout + 1
    BY DEF GoneInTime
  <2>1. rule[r] \in RuleRecords /\ Timely(rule[r], due, swept) /\ swept \in BOOLEAN /\ Tick \in Nat
    BY TimeAssumption DEF IInv, TypeOK, Live
  <2>2. /\ rule[r].silent \in Nat /\ rule[r].modified \in Nat /\ rule[r].last_matched \in Nat
        /\ rule[r].idle_timeout \in Nat /\ rule[r].hard_timeout \in Nat
        /\ rule[r].has_id \in BOOLEAN
    BY <2>1, FieldTypes, AgesNat
  <2> QED BY <2>1, <2>2 DEF Timely, HasIdTimes, Slack
<1> QED BY <1>1, InitInv, NextInv, PTL DEF Spec

(* Whatever the order of timer, sweep and packets, a flow with a flow id   *)
(* that gets a packet every idle_timeout - Tick units is not expired as    *)
(* idle.                                                                   *)
THEOREM FlowsStayWhileUsed == Spec => NeverEarly
<1>1. IInv /\ [Next]_vars => [Expire => \A r \in Rules :
          (Live(r) /\ rule'[r] = Null) =>
              \/ HardExpired(rule[r]) \/ ~rule[r].has_id
              \/ rule[r].gap > rule[r].idle_timeout - Tick]_vars
  <2> SUFFICES ASSUME IInv, Expire, NEW r \in Rules, Live(r), rule'[r] = Null,
                      ~HardExpired(rule[r]), rule[r].has_id
               PROVE  rule[r].gap > rule[r].idle_timeout - Tick
    OBVIOUS
  <2>1. /\ rule[r] \in RuleRecords /\ Timely(rule[r], due, swept) /\ due \in Nat /\ Tick \in Nat
        /\ due <= Tick
    BY TimeAssumption DEF IInv, TypeOK, Live
  <2>2. rule[r].idle_timeout # 0 /\ rule[r].last_matched > rule[r].idle_timeout
    BY DEF Expire, Deleted, Expired, Live, IdleExpired
  <2>3. /\ rule[r].silent \in Nat /\ rule[r].gap \in Nat /\ rule[r].last_matched \in Nat
        /\ rule[r].idle_timeout \in Nat /\ rule[r].counted \in BOOLEAN
    BY <2>1, FieldTypes, AgesNat
  <2>4. rule[r].last_matched <= rule[r].gap + Tick
    BY <2>1, <2>2, <2>3 DEF Timely, HasIdTimes
  <2> QED BY <2>1, <2>2, <2>3, <2>4
<1> QED BY <1>1, InitInv, NextInv, PTL DEF Spec, NeverEarly

(* A flow goes without a flow id only when the rules and the flows added   *)
(* since the timer fired may need more ids than there are: the ids of all  *)
(* flows that came and went before are back.                               *)
THEOREM FlowIdsComeBack == Spec => IdsComeBack
<1>1. IInv /\ [Next]_vars =>
        [\A r \in Rules : (~Live(r) /\ rule'[r] # Null /\ ~rule'[r].has_id) =>
            adds + 1 + Cardinality(Rules) > NFlowIds]_vars
  <2> SUFFICES ASSUME IInv, Next, NEW r \in Rules, ~Live(r), rule'[r] # Null,
                      ~rule'[r].has_id
               PROVE  adds + 1 + Cardinality(Rules) > NFlowIds
    OBVIOUS
  <2>1. /\ TypeOK /\ Taken <= NFlowIds /\ (adds < NFlowIds => Taken <= adds + Cardinality(Rules))
        /\ NFlowIds \in Nat /\ adds \in 0 .. NFlowIds /\ marked \in Nat
    BY TimeAssumption DEF IInv, TypeOK
  <2>2. Cardinality(Rules) \in Nat /\ Cardinality(WithId) \in Nat
    BY IdsFinite
  <2>3. \E i \in IdleTimeouts, h \in HardTimeouts : AddFlowTimer(r, i, h)
    <3>1. \A S : Deleted(S) => rule'[r] = Null
      BY DEF Deleted, Live
    <3>2. \A q \in Rules : Modify(q) \/ Match(q) => rule'[r] = rule[r]
      BY <2>1 DEF Modify, Match, Live, TypeOK
    <3>3. IdleTimeoutTimer \/ Pass => rule'[r] = Null
      BY DEF IdleTimeoutTimer, Pass, Live
    <3>4. AddFlowFails => rule' = rule
      BY DEF AddFlowFails
    <3>5. \A q \in Rules, i \in IdleTimeouts, h \in HardTimeouts :
             AddFlowTimer(q, i, h) /\ q # r => rule'[r] = rule[r]
      BY <2>1, AddFlowTaken
    <3> QED BY <3>1, <3>2, <3>3, <3>4, <3>5 DEF Next, Remove, Expire, Live
  <2>4. ~IdLeft
    <3>1. rule'[r].has_id = IdLeft
      <4>1. PICK i \in IdleTimeouts, h \in HardTimeouts : AddFlowTimer(r, i, h)
        BY <2>3
      <4>2. rule'[r] = NewRule(i, h, IdLeft)
        BY <2>1, <4>1, AddFlowTaken
      <4>3. NewRule(i, h, IdLeft).has_id = IdLeft
        BY DEF NewRule
      <4> QED BY <4>2, <4>3
    <3> QED BY <3>1
  <2>5. Taken = Cardinality(WithId) + marked /\ ~(Taken < NFlowIds)
    BY <2>4 DEF IdLeft, Taken
  <2> QED BY <2>1, <2>2, <2>5
<1> QED BY <1>1, InitInv, NextInv, PTL DEF Spec, IdsComeBack
=============================================================================
