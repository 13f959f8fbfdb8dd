------------------------------- MODULE Pipeline -------------------------------
(***************************************************************************)
(* How the AI service turns the signals of one meter into findings: each   *)
(* signal is correlated with the events near it, the rules are tried in    *)
(* order and consume the evidence they use, every match is scored, and the *)
(* findings are listed by priority.  What the detectors can emit together  *)
(* is a parameter; percentages and weights are scaled to integers.         *)
(***************************************************************************)
EXTENDS Integers, Sequences, FiniteSets, FiniteSetsExt

CONSTANTS
    Surges, Drops, Voltages, PowerFactors, Overcurrents,  \* what each detector may emit
    EventLists                                            \* the events a meter may have

ConsumptionKinds == {"surge", "drop"}
VoltageKinds == {"voltage_out_of_range", "voltage_instability"}
EquipmentKinds == {"low_power_factor", "overcurrent"}

NotEnded == 0
Signals(kinds) == [kind : kinds, start : Nat, end : Nat, magnitude : Int]

\* The shift of level is one at most and never ends; only the last drop may
\* not have ended.  Both are at least as large as their threshold.
ASSUME ConsumptionAssumption ==
    /\ \A s \in Surges : s \in Seq(Signals({"surge"})) /\ Len(s) <= 1
    /\ \A s \in Surges : \A i \in DOMAIN s : s[i].end = NotEnded /\ s[i].magnitude >= 25
    /\ \A s \in Drops : s \in Seq(Signals({"drop"}))
    /\ \A s \in Drops : \A i \in DOMAIN s : s[i].magnitude >= 50 /\ (s[i].end = NotEnded => i = Len(s))
ASSUME ElectricalAssumption ==
    /\ \A s \in Voltages : s \in Seq(Signals(VoltageKinds)) /\ Len(s) <= 2
    /\ \A s \in PowerFactors : s \in Seq(Signals({"low_power_factor"})) /\ Len(s) <= 1
    /\ \A s \in Overcurrents : s \in Seq(Signals({"overcurrent"})) /\ Len(s) <= 1

VARIABLES
    evidence,   \* the signals in the order of the detectors, each with its correlation
    rule,       \* position of the rule being tried
    remaining,  \* positions of the evidence that no rule has used
    findings    \* classifications, then the findings in the order they are listed

classifyVars == <<evidence, rule, remaining, findings>>

-----------------------------------------------------------------------------
(* Correlation with events.                                                 *)

CorrelationWindow == 6  \* hours
DurationTolerance == 1

Distance(signal, event) == IF event.at < signal.start THEN signal.start - event.at ELSE event.at - signal.start

Explains(signal, event) ==
    \/ signal.kind = "surge" /\ event.type = "operational_change"
    \/ signal.kind = "drop" /\ event.type \in {"scheduled_outage", "maintenance"}

\* announced = 0 when the description of the event names no duration.
DurationMatches(signal, event) ==
    LET gap == (signal.end - signal.start) - event.announced
    IN  IF event.announced = 0 \/ signal.end = NotEnded THEN "unknown"
        ELSE IF gap \in -DurationTolerance..DurationTolerance THEN "matches" ELSE "differs"

NoCorrelation == [type |-> "none", explains |-> FALSE, duration |-> "unknown"]

\* Of the events near the start of the signal, the nearest that explains it or
\* else the nearest; the first of the list among equals.
Correlate(signal, events) ==
    LET nearby == {i \in DOMAIN events : Distance(signal, events[i]) <= CorrelationWindow}
        better(i, j) ==
            LET same == Explains(signal, events[i]) = Explains(signal, events[j])
                di == Distance(signal, events[i])
                dj == Distance(signal, events[j])
            IN  \/ Explains(signal, events[i]) /\ ~ Explains(signal, events[j])
                \/ same /\ di < dj
                \/ same /\ di = dj /\ i <= j
        event == events[CHOOSE i \in nearby : \A j \in nearby : better(i, j)]
    IN  IF nearby = {} THEN NoCorrelation
        ELSE [type |-> event.type, explains |-> Explains(signal, event),
              duration |-> DurationMatches(signal, event)]

ClassifyInit ==
    /\ \E s \in Surges, d \in Drops, v \in Voltages, p \in PowerFactors, o \in Overcurrents, e \in EventLists :
          LET signals == s \o d \o v \o p \o o
          IN  evidence = [i \in DOMAIN signals |->
                             [signal |-> signals[i], correlation |-> Correlate(signals[i], e)]]
    /\ rule = 1
    /\ remaining = DOMAIN evidence
    /\ findings = <<>>

-----------------------------------------------------------------------------
(* The rules.  A matcher takes evidence of the items, a set of positions: a  *)
(* primary, the first of its kind, and what goes with it, which comes after  *)
(* it in the list.  No evidence when it does not match.                      *)

OfKinds(items, kinds) == {k \in items : evidence[k].signal.kind \in kinds}
NoMatch == [primary |-> 0, evidence |-> {}, severity |-> "none"]

Matched(candidates, others, severity) ==
    [primary |-> Min(candidates), evidence |-> {Min(candidates)} \cup others, severity |-> severity]

MeasurementFault(items) ==
    LET voltage == OfKinds(items, VoltageKinds)
    IN  IF voltage = {} \/ OfKinds(items, ConsumptionKinds) # {} THEN NoMatch
        ELSE Matched(voltage, voltage \cup OfKinds(items, EquipmentKinds), "high")

IsOutage(item) ==
    /\ item.correlation.explains
    /\ item.signal.end # NotEnded
    /\ item.correlation.duration # "differs"

ScheduledOutage(items) ==
    LET outages == {k \in OfKinds(items, {"drop"}) : IsOutage(evidence[k])}
    IN  IF outages = {} THEN NoMatch ELSE Matched(outages, {}, "low")

ExplainedSurge(items) ==
    LET explained == {k \in OfKinds(items, {"surge"}) : evidence[k].correlation.explains}
    IN  IF OfKinds(items, {"low_power_factor"}) # {} \/ explained = {} THEN NoMatch
        ELSE Matched(explained, OfKinds(items, {"overcurrent"}), "medium")

UnexplainedSurge(items) ==
    LET surges == OfKinds(items, {"surge"})
        equipment == OfKinds(items, EquipmentKinds)
        severe == equipment # {} \/ evidence[Min(surges)].signal.magnitude >= 50
    IN  IF surges = {} THEN NoMatch
        ELSE Matched(surges, equipment, IF severe THEN "high" ELSE "medium")

UnexplainedDrop(items) ==
    LET drops == OfKinds(items, {"drop"})
    IN  IF drops = {} THEN NoMatch
        ELSE Matched(drops, {}, IF evidence[Min(drops)].signal.end = NotEnded THEN "high" ELSE "medium")

EquipmentFault(items) ==
    LET equipment == OfKinds(items, EquipmentKinds)
    IN  IF equipment = {} THEN NoMatch ELSE Matched(equipment, equipment, "medium")

\* Mutant: the rule of the unexplained surge is tried before the explained one.
RulesSwapped == <<"R1", "R2", "R4", "R3", "R5", "R6">>

Rules == <<"R1", "R2", "R3", "R4", "R5", "R6">>

TypeOfRule(r) ==
    CASE r = "R1" -> "data_quality"
      [] r = "R2" -> "false_positive"
      [] r = "R3" -> "explainable"
      [] OTHER -> "real"

Matcher(r, items) ==
    CASE r = "R1" -> MeasurementFault(items)
      [] r = "R2" -> ScheduledOutage(items)
      [] r = "R3" -> ExplainedSurge(items)
      [] r = "R4" -> UnexplainedSurge(items)
      [] r = "R5" -> UnexplainedDrop(items)
      [] r = "R6" -> EquipmentFault(items)

-----------------------------------------------------------------------------
(* Scores.                                                                  *)

Least(a, b) == IF a < b THEN a ELSE b

\* Mutant: the weights of the last two types are exchanged.
TypeWeightSwapped(type) ==
    CASE type = "real" -> 20 [] type = "data_quality" -> 14 [] type = "explainable" -> 1 [] type = "false_positive" -> 8

\* Twentieths and tenths.
TypeWeight(type) ==
    CASE type = "real" -> 20 [] type = "data_quality" -> 14 [] type = "explainable" -> 8 [] type = "false_positive" -> 1
SeverityWeight(severity) == CASE severity = "high" -> 10 [] severity = "medium" -> 6 [] severity = "low" -> 3

Supports(event, type) ==
    \/ type = "real" /\ event = "unknown"
    \/ type = "data_quality" /\ event = "data_quality"

\* The event of the first evidence that has one, "none" without any.
RelatedEvent(items) ==
    LET correlated == {k \in items : evidence[k].correlation # NoCorrelation}
    IN  IF correlated = {} THEN "none" ELSE evidence[Min(correlated)].correlation.type

EventContext(match, type) ==
    LET primary == evidence[match.primary].correlation
    IN  IF primary.explains THEN 15 + (IF primary.duration = "matches" THEN 10 ELSE 0)
        ELSE IF Supports(RelatedEvent(match.evidence), type) THEN 15 ELSE 0

\* Hundredths.
Confidence(match, type) ==
    Least(99, 55 + Least(20, 10 * (Cardinality(match.evidence) - 1)) + EventContext(match, type))

\* Two hundredths: half for the consumption that changed, half for any finding.
Impact(primary) ==
    100 + (IF primary.kind \in ConsumptionKinds THEN Least(100, primary.magnitude) ELSE 0)

Activity(primary) == IF primary.end = NotEnded THEN 10 ELSE 6

\* In tenths of a point out of 100, rounded.
Priority(match, type) ==
    LET primary == evidence[match.primary].signal
        product == TypeWeight(type) * SeverityWeight(match.severity) * Impact(primary)
                       * Confidence(match, type) * Activity(primary)
    IN  (product + 20000) \div 40000

-----------------------------------------------------------------------------
(* classify, and the list of findings.                                      *)

\* Mutant: the evidence beside the primary stays available.
WithoutPrimary(items, match) == items \ {match.primary}

\* Evidence is compared by value.
Without(items, match) == {k \in items : \A j \in match.evidence : evidence[j] # evidence[k]}

Finding(r, match) ==
    [rule |-> r, type |-> TypeOfRule(r), evidence |-> match.evidence,
     priority |-> Priority(match, TypeOfRule(r))]

\* The rule is tried again on what it left.
Match ==
    /\ rule <= Len(Rules)
    /\ LET match == Matcher(Rules[rule], remaining)
       IN  /\ match # NoMatch
           /\ findings' = Append(findings, Finding(Rules[rule], match))
           /\ remaining' = Without(remaining, match)
    /\ UNCHANGED <<evidence, rule>>

NextRule ==
    /\ rule <= Len(Rules)
    /\ Matcher(Rules[rule], remaining) = NoMatch
    /\ rule' = rule + 1
    /\ UNCHANGED <<evidence, remaining, findings>>

\* A stable sort, highest priority first: order[k] is the place in the list of
\* what comes to the k-th.
IsByPriority(list, order) ==
    \A i, j \in DOMAIN list :
        i < j => \/ list[order[i]].priority > list[order[j]].priority
                 \/ list[order[i]].priority = list[order[j]].priority /\ order[i] < order[j]

Answer ==
    /\ rule = Len(Rules) + 1
    /\ rule' = rule + 1
    /\ \E order \in Bijection(DOMAIN findings, DOMAIN findings) :
          /\ IsByPriority(findings, order)
          /\ findings' = [k \in DOMAIN findings |-> findings[order[k]]]
    /\ UNCHANGED <<evidence, remaining>>

ClassifyNext == Match \/ NextRule \/ Answer

ClassifySpec == ClassifyInit /\ [][ClassifyNext]_classifyVars /\ WF_classifyVars(ClassifyNext)

-----------------------------------------------------------------------------
(* Properties.                                                              *)

Uses(finding, k) == \E j \in finding.evidence : evidence[j] = evidence[k]

\* Every signal is counted once: at any moment it is still available or belongs
\* to one finding, never to two and never to both, however the rules share the
\* evidence beside their primary signal.
CountedOnce ==
    \A k \in DOMAIN evidence :
        LET users == {i \in DOMAIN findings : Uses(findings[i], k)}
        IN  Cardinality(users) = (IF k \in remaining THEN 0 ELSE 1)

Present(kinds) == OfKinds(DOMAIN evidence, kinds) # {}
ExplainedSurgePresent == \E k \in OfKinds(DOMAIN evidence, {"surge"}) : evidence[k].correlation.explains

\* The rule that the table of METHODOLOGY.md (section 5) gives to each signal,
\* read without an order and as it is written there: "sin cambio de consumo" in
\* R1 and R6 is a condition on the signals of the meter, and the equipment
\* signals beside a surge or a measurement fault are part of its finding.  No row
\* is about a voltage signal beside a change of consumption, nor about an
\* equipment signal beside a drop.
TableRule(item) ==
    LET kind == item.signal.kind
        change == Present(ConsumptionKinds)
        surgeRule == IF ExplainedSurgePresent /\ ~ Present({"low_power_factor"}) THEN "R3" ELSE "R4"
        consistent == item.signal.end # NotEnded /\ item.correlation.duration # "differs"
    IN  CASE kind = "surge" -> surgeRule
          [] kind = "drop" -> IF item.correlation.explains /\ consistent THEN "R2" ELSE "R5"
          [] kind \in VoltageKinds /\ ~ change -> "R1"
          [] kind \in EquipmentKinds /\ Present({"surge"}) -> surgeRule
          [] kind \in EquipmentKinds /\ ~ change -> IF Present(VoltageKinds) THEN "R1" ELSE "R6"
          [] OTHER -> "none"

ReportedUnder(k, r) == \E i \in DOMAIN findings : findings[i].rule = r /\ Uses(findings[i], k)

\* The answer reports every signal that a row of the table is about under the
\* rule of that row: the order in which rules take evidence from each other, and
\* the evidence they take, change no verdict.
VerdictByTable ==
    rule = Len(Rules) + 2 =>
        \A k \in DOMAIN evidence :
            TableRule(evidence[k]) # "none" => ReportedUnder(k, TableRule(evidence[k]))

\* "ninguna señal queda sin clasificar (la última regla recoge cualquier señal
\* eléctrica suelta)": METHODOLOGY.md says that the rules leave no signal without
\* a finding.  (measurement_fault does not match beside a change of consumption,
\* and equipment_fault takes power factor and current only.)
EverySignalClassified ==
    rule = Len(Rules) + 2 => \A k \in DOMAIN evidence : \E i \in DOMAIN findings : Uses(findings[i], k)

\* A false positive scores less than 1 point of 100 and every other finding
\* more, whatever its magnitude, its events and the signals that support it: in
\* the list of a fleet no false positive precedes another finding.
FalsePositivesLast ==
    \A i \in DOMAIN findings :
        IF findings[i].type = "false_positive" THEN findings[i].priority < 10 ELSE findings[i].priority > 10

=============================================================================
