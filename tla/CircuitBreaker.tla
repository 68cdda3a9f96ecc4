---------------------------- MODULE CircuitBreaker ----------------------------
(***************************************************************************)
(* CircuitBreaker of talent_tools, for one tool name: each method as a     *)
(* function of the entry.  A lock makes each method one step.  opened is   *)
(* "name in _opened_at"; elapsed is the time since, in units of which      *)
(* recovery_seconds make up the recovery, and stops counting there.        *)
(***************************************************************************)
EXTENDS Integers

CONSTANTS
    failure_threshold,
    recovery_seconds

ASSUME BreakerAssumption ==
    failure_threshold \in Nat \ {0} /\ recovery_seconds \in Nat

VARIABLE breaker    \* the entry of the name in the breaker

Breaker == [failures : Nat, opened : BOOLEAN, elapsed : 0..recovery_seconds]

Reset == [failures |-> 0, opened |-> FALSE, elapsed |-> 0]

Recovered(b) == b.opened /\ b.elapsed = recovery_seconds

\* The answer of allow(), and what it leaves behind.
Allows(b) == ~b.opened \/ Recovered(b)
Allow(b) == IF Recovered(b) THEN Reset ELSE b

Succeed(b) == Reset

\* An open entry that fails again is stamped again.
Fail(b) ==
    LET failures == b.failures + 1
    IN  IF failures >= failure_threshold
        THEN [failures |-> failures, opened |-> TRUE, elapsed |-> 0]
        ELSE [b EXCEPT !.failures = failures]

\* time.monotonic() advances.
Passes(b) == [b EXCEPT !.elapsed = @ + 1]
CanPass(b) == b.opened /\ b.elapsed < recovery_seconds
===============================================================================
