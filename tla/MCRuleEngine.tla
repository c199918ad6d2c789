---------------------------- MODULE MCRuleEngine ----------------------------
(***************************************************************************)
(* Instance of RuleEngine for TLC: one loitering rule with a cooldown and  *)
(* a timetable.                                                            *)
(***************************************************************************)
EXTENDS RuleEngine

Loitering == [r \in Rule |-> 3]
SixUnits == [r \in Rule |-> 6]

LastHour == Days * DayLength - 1
Always == [r \in Rule |-> <<0, LastHour>>]

\* The first hour of the first day.
FirstHour == [r \in Rule |-> [d \in 0..(Days - 1) |-> IF d = 0 THEN {<<0, 1>>} ELSE {}]]
=============================================================================
