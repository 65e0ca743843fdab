----------------------------- MODULE Conditions -----------------------------
(***************************************************************************)
(* The conditions of an object's status, as the library under third_party  *)
(* sets and summarises them.  The list of conditions is sorted and holds a *)
(* type at most once, so it is a function of the types.  A condition's     *)
(* message goes with its reason, and its transition time changes only with *)
(* the rest, so neither is kept.                                           *)
(***************************************************************************)
EXTENDS Naturals, Sequences

CONSTANT NoCondition   \* a condition that the list does not hold

ReadyCondition == "Ready"

Severities == {"Error", "Warning", "Info", ""}

Condition(Reasons) ==
    [status : {"True", "False", "Unknown"}, severity : Severities, reason : Reasons]

TrueCondition == [status |-> "True", severity |-> "", reason |-> ""]
FalseCondition(reason, severity) == [status |-> "False", severity |-> severity, reason |-> reason]

\* Set, hasSameState: a condition with the same state leaves the list as it is.
Set(conditions, type, condition) == [conditions EXCEPT ![type] = condition]

MarkTrue(conditions, type) == Set(conditions, type, TrueCondition)
MarkFalse(conditions, type, reason, severity) ==
    Set(conditions, type, FalseCondition(reason, severity))

IsTrue(conditions, type) ==
    conditions[type] # NoCondition /\ conditions[type].status = "True"

-----------------------------------------------------------------------------
(* The summary.  order is the sequence of the types but Ready, sorted.     *)


mergePriority(c) ==
    CASE c.status = "False" /\ c.severity = "Error" -> 0
      [] c.status = "False" /\ c.severity = "Warning" -> 1
      [] c.status = "False" /\ c.severity = "Info" -> 2
      [] c.status = "True" -> 3
      [] c.status = "Unknown" -> 4
      [] OTHER -> 99

\* summary: the types of the conditions that the list holds, but Ready, in order.
InScope(conditions, order) == SelectSeq(order, LAMBDA type : conditions[type] # NoCondition)

\* getConditionGroups, TopGroup: those of the highest priority, in order.
TopGroup(conditions, types) ==
    SelectSeq(types, LAMBDA type : \A i \in DOMAIN types :
        mergePriority(conditions[type]) <= mergePriority(conditions[types[i]]))

\* getFirstReason, getFirstCondition: no caller gives an order of precedence.
getFirstCondition(conditions, top) == conditions[Head(top)]

\* merge: status and severity are those of the top group, the reason that of its first.
merge(conditions, types) == getFirstCondition(conditions, TopGroup(conditions, types))

\* SetSummary: without any condition there is no summary either.
SetSummary(conditions, order) ==
    IF InScope(conditions, order) = <<>> THEN conditions
    ELSE Set(conditions, ReadyCondition, merge(conditions, InScope(conditions, order)))
=============================================================================
