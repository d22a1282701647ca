----------------------------- MODULE FlowExpiry -----------------------------
(***************************************************************************)
(* How flows time out.  The chip counts the packets of a flow; a timer of  *)
(* the event loop looks at the counters every Tick and notes when a flow   *)
(* was last seen to count (adpt_flow.c); the OpenFlow thread sweeps over   *)
(* the rules every 10 to 100 ms and expires those whose time is up         *)
(* (ofproto-ctc.c).  Timer and sweep both run under pg_mutex, so each is   *)
(* one step; packets come at any time.                                     *)
(*                                                                         *)
(* Time passes in units (seconds) and is kept as ages.  Both threads keep  *)
(* up with time: a due timer fires and a sweep is made before the next     *)
(* unit begins, in either order.                                           *)
(*                                                                         *)
(* A flow is known to the timer by its flow id.  The id of a deleted flow  *)
(* is only marked, and the timer frees it: flows that come and go fast may *)
(* use them up, and then a flow is installed without one.                  *)
(***************************************************************************)
EXTENDS Integers, FiniteSets

CONSTANTS
    Rules,          \* struct rule_ctc
    IdleTimeouts,   \* idle_timeout of a flow, 0 for none
    HardTimeouts,   \* hard_timeout of a flow, 0 for none
    Tick,           \* OFP_IDLE_TIMEOUT_TIMER (5 s)
    NFlowIds,       \* size of the pool OPF_OFP_FLOW_ID
    MaxAge,         \* bound of the model: ages are not told apart beyond it
    Null

ASSUME TimeAssumption ==
    /\ IsFiniteSet(Rules)
    /\ Tick \in Nat \ {0} /\ NFlowIds \in Nat
    /\ IdleTimeouts \subseteq Nat /\ HardTimeouts \subseteq Nat
    /\ MaxAge \in Nat
    /\ \A i \in IdleTimeouts : i + Tick + 1 < MaxAge
    /\ \A h \in HardTimeouts : h + 1 < MaxAge

VARIABLES
    rule,    \* the installed rules, Null for one that is not
    due,     \* units until the timer fires again
    swept,   \* the sweep of this unit has been made
    marked,  \* number of flow ids marked need_delete
    adds     \* history: flows added since the timer fired, up to NFlowIds

vars == <<rule, due, swept, marked, adds>>

Ages == 0 .. MaxAge

(* modified and last_matched as ages; counted: the chip has counted a      *)
(* packet that the timer has not seen.  silent and gap are history: the    *)
(* time since the last packet and the longest time between two packets.    *)
RuleRecords ==
    [idle_timeout : IdleTimeouts, hard_timeout : HardTimeouts,
     modified : Ages, last_matched : Ages, counted : BOOLEAN, has_id : BOOLEAN,
     silent : Ages, gap : Ages]

ASSUME NullAssumption == Null \notin RuleRecords

TypeOK ==
    /\ rule \in [Rules -> RuleRecords \cup {Null}]
    /\ due \in 0 .. Tick
    /\ swept \in BOOLEAN
    /\ marked \in 0 .. NFlowIds /\ adds \in 0 .. NFlowIds

Init ==
    /\ rule = [r \in Rules |-> Null]
    /\ due = Tick
    /\ swept = FALSE
    /\ marked = 0 /\ adds = 0

Live(r) == rule[r] # Null
Older(n) == IF n = MaxAge THEN MaxAge ELSE n + 1
Longer(m, n) == IF m < n THEN n ELSE m

----------------------------------------------------------------------------
NewRule(i, h, id) ==
    [idle_timeout |-> i, hard_timeout |-> h, modified |-> 0,
     last_matched |-> IF id THEN 0 ELSE MaxAge, counted |-> FALSE, has_id |-> id,
     silent |-> 0, gap |-> 0]

WithId == {r \in Rules : Live(r) /\ rule[r].has_id}
IdLeft == Cardinality(WithId) + marked < NFlowIds
Counted == adds' = IF adds < NFlowIds THEN adds + 1 ELSE adds

AddFlowTimerUnset(r, i, h) ==   \* mutant: last_matched is not set
    /\ ~Live(r)
    /\ rule' = [rule EXCEPT ![r] = [NewRule(i, h, IdLeft) EXCEPT !.last_matched = MaxAge]]
    /\ Counted /\ UNCHANGED <<due, swept, marked>>

(* adpt_flow_add_flow_timer: a new flow counts as just matched.  Its       *)
(* result is ignored, and a flow that got no id has been matched last at   *)
(* time 0 for ofp_get_flow_last_matched_time.                              *)
AddFlowTimer(r, i, h) ==
    /\ ~Live(r)
    /\ rule' = [rule EXCEPT ![r] = NewRule(i, h, IdLeft)]
    /\ Counted /\ UNCHANGED <<due, swept, marked>>

(* An add that fails behind that point marks the id it took.               *)
AddFlowFails ==
    /\ marked' = IF IdLeft THEN marked + 1 ELSE marked
    /\ Counted /\ UNCHANGED <<rule, due, swept>>

(* rule_destruct: adpt_flow_del_flow_timer marks the ids of the rules.     *)
Deleted(S) ==
    /\ rule' = [r \in Rules |-> IF r \in S THEN Null ELSE rule[r]]
    /\ marked' = marked + Cardinality(S \cap WithId)
    /\ UNCHANGED <<due, adds>>

Remove(r) == Live(r) /\ Deleted({r}) /\ UNCHANGED swept

(* rule_modify_actions: the adaptation layer leaves the times alone; the   *)
(* OpenFlow layer notes the time of the modification.                      *)

Modify(r) ==
    /\ Live(r)
    /\ rule' = [rule EXCEPT ![r].modified = 0]
    /\ UNCHANGED <<due, swept, marked, adds>>

(* The chip forwards a packet of the flow.                                 *)
Match(r) ==
    /\ Live(r)
    /\ rule' = [rule EXCEPT ![r].counted = TRUE, ![r].silent = 0]
    /\ UNCHANGED <<due, swept, marked, adds>>

SeenAlways(o) ==   \* mutant: the counter is not compared with the one before
    IF o.idle_timeout # 0 /\ o.has_id THEN [o EXCEPT !.last_matched = 0, !.counted = FALSE] ELSE o

(* afx_event_loop_run restarts the timer from its old end and calls        *)
(* adpt_flow_idle_timeout_timer, which frees the marked ids and reads the  *)
(* counters of the flows with an idle timeout.                             *)
Seen(o) ==
    IF o.idle_timeout # 0 /\ o.has_id /\ o.counted
    THEN [o EXCEPT !.last_matched = 0, !.counted = FALSE] ELSE o

TimerRestartsLate ==   \* mutant: the timer restarts from the time it is handled
    /\ due = 0
    /\ due' = Tick + 1
    /\ rule' = [r \in Rules |-> IF Live(r) THEN Seen(rule[r]) ELSE Null]
    /\ marked' = 0 /\ adds' = 0
    /\ UNCHANGED swept

TimerFreesOne ==   \* mutant: the loop of the timer ends at the first marked id
    /\ due = 0
    /\ due' = Tick
    /\ rule' = [r \in Rules |-> IF Live(r) THEN Seen(rule[r]) ELSE Null]
    /\ marked' = (IF marked = 0 THEN 0 ELSE marked - 1) /\ adds' = 0
    /\ UNCHANGED swept

IdleTimeoutTimer ==
    /\ due = 0
    /\ due' = Tick
    /\ rule' = [r \in Rules |-> IF Live(r) THEN Seen(rule[r]) ELSE Null]
    /\ marked' = 0 /\ adds' = 0
    /\ UNCHANGED swept

(* rule_expire, and expire, which calls it for every rule.                 *)
HardExpired(o) == o.hard_timeout # 0 /\ o.modified > o.hard_timeout
IdleExpired(o) == o.idle_timeout # 0 /\ o.last_matched > o.idle_timeout

Expired(r) == Live(r) /\ (HardExpired(rule[r]) \/ IdleExpired(rule[r]))

Expire == Deleted({r \in Rules : Expired(r)}) /\ swept' = TRUE

(* A unit of time passes.                                                  *)
Pass ==
    /\ due > 0 /\ swept
    /\ due' = due - 1
    /\ swept' = FALSE
    /\ rule' = [r \in Rules |->
          IF ~Live(r) THEN Null
          ELSE [rule[r] EXCEPT !.modified = Older(@), !.last_matched = Older(@),
                               !.silent = Older(@),
                               !.gap = Longer(@, Older(rule[r].silent))]]
    /\ UNCHANGED <<marked, adds>>

Next ==
    \/ \E r \in Rules :
          \/ \E i \in IdleTimeouts, h \in HardTimeouts : AddFlowTimer(r, i, h)
          \/ Remove(r) \/ Modify(r) \/ Match(r)
    \/ AddFlowFails
    \/ IdleTimeoutTimer \/ Expire \/ Pass

(* Both threads loop forever and time does not stop.                       *)
Spec ==
    /\ Init /\ [][Next]_vars
    /\ WF_vars(IdleTimeoutTimer) /\ WF_vars(Expire) /\ WF_vars(Pass)

----------------------------------------------------------------------------
(* A flow is gone at the latest one timer period after its idle time is    *)
(* up, and one sweep after its hard time: nothing the timer writes keeps   *)
(* a flow alive that gets no packets.                                      *)
GoneInTime ==
    \A r \in Rules : Live(r) =>
        /\ rule[r].idle_timeout # 0 =>
              rule[r].silent <= rule[r].idle_timeout + Tick + 1
        /\ rule[r].hard_timeout # 0 => rule[r].modified <= rule[r].hard_timeout + 1

(* A flow that gets a packet at least every idle_timeout - Tick units is   *)
(* never expired as idle, whatever the order of timer, sweep and packets,  *)
(* unless it was installed without a flow id.                              *)
NeverEarly ==
    [][Expire => \A r \in Rules :
          (Live(r) /\ rule'[r] = Null) =>
              \/ HardExpired(rule[r]) \/ ~rule[r].has_id
              \/ rule[r].gap > rule[r].idle_timeout - Tick]_vars

(* A flow with an idle timeout that stays gets packets again and again.    *)
StaysOnlyMatched ==
    \A r \in Rules :
        <>[](Live(r) /\ rule[r].idle_timeout # 0) => []<><<Match(r)>>_vars

(* A flow goes without a flow id only when the flows added since the timer *)
(* fired, itself included, and the ones installed then may need more ids   *)
(* than there are: however many flows came and went earlier, in adds that  *)
(* failed too, their ids are back.                                         *)
IdsComeBack ==
    [][\A r \in Rules : (~Live(r) /\ rule'[r] # Null /\ ~rule'[r].has_id) =>
          adds + 1 + Cardinality(Rules) > NFlowIds]_vars
=============================================================================
