--------------------------- MODULE MandateAccount ---------------------------
(***************************************************************************)
(* What a mandate store promises about money, whatever its transactions    *)
(* look like: for each mandate, an amount is reserved only while the whole *)
(* budget covers it, and a reserved amount is later either released or     *)
(* turned into spend.  Nothing else changes the two columns.               *)
(***************************************************************************)
EXTENDS Naturals

CONSTANTS Mandates, Budget, Amounts

VARIABLES reserved, spent

vars == <<reserved, spent>>

Init ==
  /\ reserved = [m \in Mandates |-> 0]
  /\ spent = [m \in Mandates |-> 0]

Reserve(m, a) ==
  /\ reserved[m] + spent[m] + a <= Budget[m]
  /\ reserved' = [reserved EXCEPT ![m] = @ + a]
  /\ UNCHANGED spent

Release(m, a) ==
  /\ a <= reserved[m]
  /\ reserved' = [reserved EXCEPT ![m] = @ - a]
  /\ UNCHANGED spent

Settle(m, a) ==
  /\ a <= reserved[m]
  /\ reserved' = [reserved EXCEPT ![m] = @ - a]
  /\ spent' = [spent EXCEPT ![m] = @ + a]

Next == \E m \in Mandates, a \in Amounts : Reserve(m, a) \/ Release(m, a) \/ Settle(m, a)

Spec == Init /\ [][Next]_vars
=============================================================================
