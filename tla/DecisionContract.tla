-------------------------- MODULE DecisionContract --------------------------
(***************************************************************************)
(* What the decision flow promises, without saying how: decisions are      *)
(* issued one id after the other, a verdict may approve an issued          *)
(* decision, and the plan behind a decision is carried out at most once    *)
(* and never before some verdict approved it.                              *)
(***************************************************************************)
EXTENDS Naturals

CONSTANT MaxDecisions       \* bound: ids dec-0001 .. dec-<MaxDecisions>

Decisions == 1 .. MaxDecisions

VARIABLES counter,          \* ids issued so far
          approved,         \* decisions some verdict approved
          executed          \* how often each decision's plan was carried out

vars == <<counter, approved, executed>>

Init == /\ counter = 0
        /\ approved = {}
        /\ executed = [d \in Decisions |-> 0]

Issue == /\ counter < MaxDecisions
         /\ counter' = counter + 1
         /\ UNCHANGED <<approved, executed>>

Approve(d) == /\ d <= counter
              /\ approved' = approved \cup {d}
              /\ UNCHANGED <<counter, executed>>

Execute(d) == /\ d \in approved
              /\ executed[d] = 0
              /\ executed' = [executed EXCEPT ![d] = 1]
              /\ UNCHANGED <<counter, approved>>

Next == Issue \/ \E d \in Decisions : Approve(d) \/ Execute(d)

Spec == Init /\ [][Next]_vars
=============================================================================
