------------------------------- MODULE Readiness -------------------------------
(***************************************************************************)
(* GET /ready: the readiness manager (readiness.py) and the database       *)
(* connection it probes with (db.py).  A check picks the dependencies      *)
(* whose cached result is older than the time to live, probes each in a    *)
(* thread of its own, records the results that arrived in time and answers *)
(* from the cache.  Those are three critical sections, so overlapping      *)
(* checks may record results in another order than they were taken.  The   *)
(* clock is left out: Age is the passing of the time to live, and a wait   *)
(* times out only on a connection that hangs, since the pauses between     *)
(* retries add up to less than the second a check waits.                   *)
(***************************************************************************)
EXTENDS Integers

CONSTANTS Checkers,     \* threads that serve GET /ready
          MaxAttempts,  \* DB_CONNECT_MAX_ATTEMPTS
          MaxTurns      \* bound: how often a dependency changes

VARIABLES world,   \* dependency -> what a probe would meet now
          turns,
          cached,  \* cache: dependency -> its last result and whether it is within its time
          checks,  \* checker -> where its check stands, and its probes
          told     \* checker -> its last answer

readyVars == <<world, turns, cached, checks, told>>

Deps == {"database", "video_tools"}   \* both registered as critical
Conditions == [database |-> {"up", "refused", "denied", "hung"},
               video_tools |-> {"up", "missing"}]
NoCheck == [at |-> "rest", probes |-> [d \in Deps |-> 0]]

\* A probe: 0 not wanted, 1..MaxAttempts the attempt under way, Good or Bad its result.
Good == MaxAttempts + 1
Bad == MaxAttempts + 2
Running(c) == {d \in Deps : checks[c].probes[d] \in 1..MaxAttempts}

\* ReadinessManager.__init__ and add_dependency: nothing is known, so nothing is ready.
ReadyInit ==
    /\ world \in [Deps -> {"up"}] /\ turns = 0
    /\ cached = [d \in Deps |-> [ok |-> FALSE, fresh |-> FALSE]]
    /\ checks = [c \in Checkers |-> NoCheck]
    /\ told = [c \in Checkers |-> "nothing"]

\* check, its first critical section: the stale dependencies are submitted.
begin_check(c) ==
    /\ checks[c].at = "rest"
    /\ checks' = [checks EXCEPT ![c] =
           [at |-> "probing", probes |-> [d \in Deps |-> IF cached[d].fresh THEN 0 ELSE 1]]]
    /\ UNCHANGED <<world, turns, cached, told>>

\* is_transient_neon_connect_error: a refused connection is tried again, a rejected
\* password is not.
is_transient(condition) == condition = "refused"

\* One attempt of _connect_with_retry ends (check_db, video_tooling_ready, _run_probe).
\* A hung connection ends no attempt within the time a check waits.
attempt(c, d) ==
    LET tries == checks[c].probes[d]
    IN  /\ checks[c].at = "probing" /\ tries \in 1..MaxAttempts
        /\ world[d] # "hung"
        /\ checks' = [checks EXCEPT ![c].probes[d] =
               IF world[d] = "up" THEN Good
               ELSE IF is_transient(world[d]) /\ tries < MaxAttempts THEN tries + 1 ELSE Bad]
        /\ UNCHANGED <<world, turns, cached, told>>

collect_only_good(c) ==
    /\ checks[c].at = "probing"
    /\ \A d \in Running(c) : world[d] = "hung"
    /\ cached' = [d \in Deps |->
           IF checks[c].probes[d] = Good THEN [ok |-> TRUE, fresh |-> TRUE] ELSE cached[d]]
    /\ checks' = [checks EXCEPT ![c].at = "answering"]
    /\ UNCHANGED <<world, turns, told>>
\* check, its second critical section: the results that arrived are cached, a probe that
\* is still waiting is abandoned and leaves the last known value.
collect(c) ==
    /\ checks[c].at = "probing"
    /\ \A d \in Running(c) : world[d] = "hung"
    /\ cached' = [d \in Deps |->
           IF checks[c].probes[d] \in {Good, Bad}
           THEN [ok |-> checks[c].probes[d] = Good, fresh |-> TRUE] ELSE cached[d]]
    /\ checks' = [checks EXCEPT ![c].at = "answering"]
    /\ UNCHANGED <<world, turns, told>>

\* check, its last critical section, and the 200 or 503 of the endpoint.
ready(c) ==
    /\ checks[c].at = "answering"
    /\ told' = [told EXCEPT ![c] = IF \A d \in Deps : cached[d].ok THEN "ready" ELSE "unready"]
    /\ checks' = [checks EXCEPT ![c] = NoCheck]
    /\ UNCHANGED <<world, turns, cached>>

\* A cached result grows older than cache_ttl_seconds.
Age(d) ==
    /\ cached[d].fresh
    /\ cached' = [cached EXCEPT ![d].fresh = FALSE]
    /\ UNCHANGED <<world, turns, checks, told>>

\* A dependency comes up, fails or hangs.
Turn(d) ==
    /\ turns < MaxTurns /\ turns' = turns + 1
    /\ \E condition \in Conditions[d] : world' = [world EXCEPT ![d] = condition]
    /\ UNCHANGED <<cached, checks, told>>

CheckStep(c) ==
    \/ begin_check(c)
    \/ \E d \in Deps : attempt(c, d)
    \/ collect(c)
    \/ ready(c)

ReadyNext ==
    \/ \E c \in Checkers : CheckStep(c)
    \/ \E d \in Deps : Age(d) \/ Turn(d)

-----------------------------------------------------------------------------
ReadyTypeOK ==
    /\ \A d \in Deps : world[d] \in Conditions[d]
    /\ turns \in 0..MaxTurns
    /\ cached \in [Deps -> [ok : BOOLEAN, fresh : BOOLEAN]]
    /\ checks \in [Checkers -> [at : {"rest", "probing", "answering"},
                                probes : [Deps -> 0..Bad]]]
    /\ told \in [Checkers -> {"nothing", "ready", "unready"}]

\* /ready converges in both directions, whatever overlapping checks left in the cache: when
\* a dependency keeps failing, from some time on no check answers 200; when both stay up,
\* from some time on every check does.  A dependency that hangs is the exception: the
\* timed-out probe leaves the last answer standing (readiness.py, check).
ReadinessConverges ==
    /\ <>[](\E d \in Deps : world[d] \in {"refused", "denied", "missing"} /\ world["database"] # "hung")
          => <>[](\A c \in Checkers : told[c] # "ready")
    /\ <>[](\A d \in Deps : world[d] = "up") => <>[](\A c \in Checkers : told[c] = "ready")
=============================================================================
