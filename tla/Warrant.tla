------------------------------- MODULE Warrant -------------------------------
(***************************************************************************)
(* What the supervision promises, without its mechanism: a warrant to open *)
(* positions that the operator grants at will, that a supervisor may grant *)
(* only on recent evidence of a working cycle, and that lapses by itself.  *)
(***************************************************************************)
EXTENDS Integers

CONSTANTS
    Lifetime,   \* how long a grant is good for
    Evidence    \* how old a report may be when the supervisor grants on it

VARIABLES
    clock,
    reported,   \* time of the newest report of the cycle, -1 before the first
    grant       \* who granted, and when; Nobody when there is no warrant

Nobody == [by |-> "nobody", at |-> -1]
Grant == [by : {"operator", "supervisor"}, at : Nat] \cup {Nobody}

(* The warrant is good: granted, and not yet lapsed.                       *)
Good == grant # Nobody /\ clock - grant.at <= Lifetime

TypeInvariant == clock \in Nat /\ reported \in Nat \cup {-1} /\ grant \in Grant

Init ==
    /\ clock = 0
    /\ reported = -1
    /\ grant \in Grant /\ grant.by # "supervisor"

Pass == clock' = clock + 1 /\ UNCHANGED <<reported, grant>>

Report ==
    /\ reported' \in reported..clock
    /\ UNCHANGED <<clock, grant>>

GrantByOperator ==
    /\ grant' = [by |-> "operator", at |-> clock]
    /\ UNCHANGED <<clock, reported>>

GrantBySupervisor ==
    /\ reported # -1
    /\ clock - reported < Evidence
    /\ grant' = [by |-> "supervisor", at |-> clock]
    /\ UNCHANGED <<clock, reported>>

Revoke ==
    /\ grant' = Nobody
    /\ UNCHANGED <<clock, reported>>

Next == Pass \/ Report \/ GrantByOperator \/ GrantBySupervisor \/ Revoke

Spec == Init /\ [][Next]_<<clock, reported, grant>>

(* A warrant the operator did not give rests on a report no older than     *)
(* Evidence + Lifetime: a dead cycle closes the door by itself.            *)
DeadMan ==
    Good /\ grant.by = "supervisor"
    => reported # -1 /\ clock - reported < Evidence + Lifetime
=============================================================================
