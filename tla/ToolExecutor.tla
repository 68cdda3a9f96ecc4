----------------------------- MODULE ToolExecutor -----------------------------
(***************************************************************************)
(* Calls of one tool through a shared ToolExecutor (talent_tools), as the  *)
(* MCP server makes them: a call per request, each in a thread of its own. *)
(* A call asks the breaker, runs its operation at most max_attempts times, *)
(* each attempt in a pool of one thread, tells the breaker how it went,    *)
(* writes the audit record and returns the envelope.  An attempt that      *)
(* timed out is not stopped: its thread goes on while the next one starts. *)
(*                                                                         *)
(* What an operation is (a search, a lookup) is not modelled: it answers,  *)
(* fails for a passing reason, refuses its arguments or crashes, or hangs. *)
(***************************************************************************)
EXTENDS CircuitBreaker, FiniteSets

CONSTANTS
    Calls,              \* the calls, one name, in any order and overlap
    max_attempts,       \* ToolPolicy
    timed               \* timeout_seconds is set

ASSUME PolicyAssumption == max_attempts \in Nat \ {0} /\ timed \in BOOLEAN

VARIABLES
    call,       \* the state of each call of execute
    threads,    \* attempts whose operation is running: <<call, attempt>>
    audit,      \* the records of the sink
    streak      \* read by properties only: the calls that used up their
                \* attempts since one succeeded or the breaker recovered

executorVars == <<breaker, call, threads, audit, streak>>

\* What an operation does: it returns, raises TransientToolError, raises
\* ValueError or PermissionError, or raises something else.
OperationOutcomes == {"data", "transient", "refused", "crash"}

Statuses == {"succeeded", "failed", "blocked"}

\* pc: before execute, before an attempt, waiting for the future, holding what
\* the future gave, before _finish, and at the end: envelope or exception.
Call == [pc : {"new", "trying", "waiting", "told", "finishing", "returned",
               "raised"},
         attempt : 0..max_attempts,
         got : OperationOutcomes \cup {"none", "timeout"},
         status : Statuses \cup {"none"},
         degraded : BOOLEAN]

NewCall == [pc |-> "new", attempt |-> 0, got |-> "none", status |-> "none",
            degraded |-> FALSE]

ExecutorInit ==
    /\ breaker = Reset
    /\ call = [c \in Calls |-> NewCall]
    /\ threads = {}
    /\ audit = {}
    /\ streak = 0

-------------------------------------------------------------------------------
\* context_provider of the MCP server finds no tenant or no scope: the request
\* fails before execute, so nothing is counted and nothing is audited.
NoContext(c) ==
    /\ call[c].pc = "new"
    /\ call' = [call EXCEPT ![c].pc = "raised"]
    /\ UNCHANGED <<breaker, threads, audit, streak>>

\* allow().
Ask(c) ==
    /\ call[c].pc = "new"
    /\ call' = [call EXCEPT ![c] =
           IF Allows(breaker)
           THEN [@ EXCEPT !.pc = "trying"]
           ELSE [@ EXCEPT !.pc = "finishing", !.status = "blocked", !.degraded = TRUE]]
    /\ breaker' = Allow(breaker)
    /\ streak' = IF Recovered(breaker) THEN 0 ELSE streak
    /\ UNCHANGED <<threads, audit>>

\* Mutant: the pool is shut down with wait=True, so that an attempt only
\* starts after the operation before it has ended.
AttemptWaits(c) ==
    LET attempt == call[c].attempt + 1
    IN  /\ call[c].pc = "trying"
        /\ <<c, call[c].attempt>> \notin threads
        /\ call' = [call EXCEPT ![c] = [@ EXCEPT !.pc = "waiting", !.attempt = attempt]]
        /\ threads' = threads \cup {<<c, attempt>>}
        /\ UNCHANGED <<breaker, audit, streak>>

\* The next attempt, after the backoff: a new pool, its thread, the wait.
Attempt(c) ==
    LET attempt == call[c].attempt + 1
    IN  /\ call[c].pc = "trying"
        /\ call' = [call EXCEPT ![c] = [@ EXCEPT !.pc = "waiting", !.attempt = attempt]]
        /\ threads' = threads \cup {<<c, attempt>>}
        /\ UNCHANGED <<breaker, audit, streak>>

\* Mutant: the end of an abandoned operation is reported to the breaker.
EndsReported(t, outcome) ==
    LET c == t[1]
        attended == call[c].pc = "waiting" /\ call[c].attempt = t[2]
    IN  /\ t \in threads
        /\ threads' = threads \ {t}
        /\ call' = IF attended
                   THEN [call EXCEPT ![c] = [@ EXCEPT !.pc = "told", !.got = outcome]]
                   ELSE call
        /\ breaker' = IF ~attended /\ outcome = "data" THEN Succeed(breaker) ELSE breaker
        /\ UNCHANGED <<audit, streak>>

\* An operation ends.  Its future is only waited for when it belongs to the
\* last attempt of a call that still waits; otherwise nobody looks at it.
Ends(t, outcome) ==
    LET c == t[1]
    IN  /\ t \in threads
        /\ threads' = threads \ {t}
        /\ call' = IF call[c].pc = "waiting" /\ call[c].attempt = t[2]
                   THEN [call EXCEPT ![c] = [@ EXCEPT !.pc = "told", !.got = outcome]]
                   ELSE call
        /\ UNCHANGED <<breaker, audit, streak>>

\* future.result gives up; the thread goes on.
TimesOut(c) ==
    /\ timed
    /\ call[c].pc = "waiting"
    /\ call' = [call EXCEPT ![c] = [@ EXCEPT !.pc = "told", !.got = "timeout"]]
    /\ UNCHANGED <<breaker, threads, audit, streak>>

-------------------------------------------------------------------------------
(* What execute does with the answer of an attempt.                        *)

Delivered(c) ==
    /\ call[c].pc = "told" /\ call[c].got = "data"
    /\ breaker' = Succeed(breaker)
    /\ streak' = 0
    /\ call' = [call EXCEPT ![c] = [@ EXCEPT !.pc = "finishing", !.status = "succeeded"]]
    /\ UNCHANGED <<threads, audit>>

\* While attempts are left: the backoff, then the next one.
Retries(c) ==
    /\ call[c].pc = "told" /\ call[c].got \in {"transient", "timeout"}
    /\ call[c].attempt < max_attempts
    /\ call' = [call EXCEPT ![c] = [@ EXCEPT !.pc = "trying", !.got = "none"]]
    /\ UNCHANGED <<breaker, threads, audit, streak>>

\* After the loop.
GivesUp(c) ==
    /\ call[c].pc = "told" /\ call[c].got \in {"transient", "timeout"}
    /\ call[c].attempt = max_attempts
    /\ breaker' = Fail(breaker)
    /\ streak' = streak + 1
    /\ call' = [call EXCEPT ![c] =
           [@ EXCEPT !.pc = "finishing", !.got = "none", !.status = "failed",
                     !.degraded = TRUE]]
    /\ UNCHANGED <<threads, audit>>

\* An argument or a permission that is wrong says nothing of the dependency.
Refuses(c) ==
    /\ call[c].pc = "told" /\ call[c].got = "refused"
    /\ call' = [call EXCEPT ![c] = [@ EXCEPT !.pc = "finishing", !.status = "failed"]]
    /\ UNCHANGED <<breaker, threads, audit, streak>>

\* Re-raised to the caller: no audit record, no word to the breaker.
Crashes(c) ==
    /\ call[c].pc = "told" /\ call[c].got = "crash"
    /\ call' = [call EXCEPT ![c].pc = "raised"]
    /\ UNCHANGED <<breaker, threads, audit, streak>>

Record(c) ==
    [call |-> c, status |-> call[c].status, attempts |-> call[c].attempt,
     error |-> IF call[c].status = "succeeded" THEN "none"
               ELSE IF call[c].status = "blocked" THEN "circuit_open"
               ELSE IF call[c].degraded THEN "dependency_unavailable" ELSE "rejected"]

\* Mutant: the envelope is returned although the sink could not write.
FinishBestEffort(c) ==
    /\ call[c].pc = "finishing"
    /\ call' = [call EXCEPT ![c].pc = "returned"]
    /\ audit' \in {audit, audit \cup {Record(c)}}
    /\ UNCHANGED <<breaker, threads, streak>>

\* _finish: the audit record, then the envelope.  A sink that cannot write
\* raises, and the call with it, whatever the operation had delivered.  The
\* record of a success is written inside the try of the attempt; what the sinks
\* of talent_tools raise is of SQLAlchemy, and none of the handlers takes it for
\* a failed operation: except Exception logs and raises it.
Finish(c) ==
    /\ call[c].pc = "finishing"
    /\ \/ /\ audit' = audit \cup {Record(c)}
          /\ call' = [call EXCEPT ![c].pc = "returned"]
       \/ /\ call' = [call EXCEPT ![c].pc = "raised"]
          /\ UNCHANGED audit
    /\ UNCHANGED <<breaker, threads, streak>>

Clock ==
    /\ CanPass(breaker)
    /\ breaker' = Passes(breaker)
    /\ UNCHANGED <<call, threads, audit, streak>>

\* The steps of the thread of a call.
Proceeds(c) ==
    \/ Ask(c) \/ Attempt(c) \/ Delivered(c) \/ Retries(c) \/ Refuses(c)
    \/ Crashes(c) \/ GivesUp(c) \/ Finish(c)

ExecutorNext ==
    \/ \E c \in Calls : NoContext(c) \/ Proceeds(c) \/ TimesOut(c)
    \/ \E t \in threads, outcome \in OperationOutcomes : Ends(t, outcome)
    \/ Clock

\* The threads of the calls run and timeouts expire.  Nothing makes an
\* operation end, so one may hang for ever.
ExecutorFairness ==
    \A c \in Calls : WF_executorVars(Proceeds(c)) /\ WF_executorVars(TimesOut(c))

ExecutorSpec == ExecutorInit /\ [][ExecutorNext]_executorVars /\ ExecutorFairness

-------------------------------------------------------------------------------
(***************************************************************************)
(* The audit tells what happened: a call that returned an envelope has     *)
(* exactly one record, whose status, attempts and error are those of the   *)
(* envelope, a call that raised has none, and attempts is the number of    *)
(* operations that were really started, none for a call the breaker        *)
(* refused.  Only the last of them can have delivered the data.            *)
(***************************************************************************)
RecordsOf(c) == {r \in audit : r.call = c}

AuditIsTrue ==
    \A c \in Calls :
        /\ call[c].pc = "returned" => RecordsOf(c) = {Record(c)}
        /\ call[c].pc # "returned" => RecordsOf(c) = {}
        /\ call[c].status = "blocked" => call[c].attempt = 0
        /\ call[c].status = "succeeded" => call[c].attempt > 0 /\ call[c].got = "data"

(***************************************************************************)
(* The breaker counts calls, not attempts, and only what their threads     *)
(* told it: its failures are the calls that used up all attempts since one *)
(* succeeded or the recovery began, and it is open exactly when these      *)
(* reached the threshold.  The late end of an abandoned operation, a       *)
(* refused argument and a crash do not count.                              *)
(***************************************************************************)
BreakerCountsCalls ==
    /\ breaker.failures = streak
    /\ breaker.opened <=> streak >= failure_threshold

(***************************************************************************)
(* With a timeout every call that was made returns or raises, although     *)
(* operations may hang: no attempt waits for the one before it.            *)
(***************************************************************************)
CallsReturn == \A c \in Calls : <>(call[c].pc \in {"returned", "raised"})
===============================================================================
