----------------------------- MODULE Deployment -----------------------------
(* devx/deploy.py: `deploy` puts a registry contract on chain, initialises    *)
(* it, points frontend/.env.local at it and runs the end-to-end smoke test;   *)
(* `rollback` brings the containers of an earlier release back.  Every        *)
(* command the script runs may fail, with or without having taken effect;     *)
(* the script may be killed between any two; several deploys may run at once  *)
(* and share .env.local, which is read, edited and written back key by key.   *)
EXTENDS Naturals, Sequences

CONSTANTS Deploys,         \* runs of `deploy`; each creates one contract
          ReleaseTags,     \* releases whose images exist
          NoRegistry,      \* no contract named / no release restored
          Stopped          \* the containers are down

VARIABLES registry,        \* deploy -> what has been done to its contract
          env,             \* frontend/.env.local: source and registry id
          stored,          \* deploys whose registration event the backend stored
          dep,             \* deploy -> progress, options, copy of the env file
          containers,      \* release the containers run, or Stopped
          rollback         \* the rollback under way or last ended

deployVars == <<registry, env, stored, dep, containers, rollback>>

NoContract == [exists |-> FALSE, init |-> FALSE, verifier |-> FALSE, issuer |-> FALSE,
               root |-> FALSE, record |-> FALSE]
NoEnv == [source |-> NoRegistry, id |-> NoRegistry]
NotStarted == [at |-> "none", skip_issuer |-> FALSE, skip_e2e |-> FALSE, lines |-> NoEnv]

Reached(d, from) == dep[d].at = from
Goto(d, to) == dep' = [dep EXCEPT ![d].at = to]

\* A command of the stellar CLI: exit 0 means done, anything else means maybe.
\* (the script then raises DeployError and stops there)
run_command(d, effect, to) ==
  \/ /\ registry' = [registry EXCEPT ![d][effect] = TRUE]
     /\ Goto(d, to)
  \/ /\ registry' \in {registry, [registry EXCEPT ![d][effect] = TRUE]}
     /\ Goto(d, "failed")

-----------------------------------------------------------------------------
(* run_deploy *)

start_deploy(d, skip_issuer, skip_e2e) ==
  /\ Reached(d, "none")
  /\ dep' = [dep EXCEPT ![d] = [NotStarted EXCEPT !.at = "contract", !.skip_issuer = skip_issuer,
                                                  !.skip_e2e = skip_e2e]]
  /\ UNCHANGED <<registry, env, stored, containers, rollback>>

\* Addresses, tests and build come first and change nothing outside.
deploy_contract(d) ==
  /\ Reached(d, "contract")
  /\ run_command(d, "exists", "init")
  /\ UNCHANGED <<env, stored, containers, rollback>>

init_admin(d) ==
  /\ Reached(d, "init")
  /\ run_command(d, "init", "verifier")
  /\ UNCHANGED <<env, stored, containers, rollback>>

\* The env file updated as soon as the contract exists.
set_verifier_env_first(d) ==
  /\ Reached(d, "verifier")
  /\ env' = [env EXCEPT !.id = d]
  /\ run_command(d, "verifier", IF dep[d].skip_issuer THEN "env_source" ELSE "issuer")
  /\ UNCHANGED <<stored, containers, rollback>>

set_verifier(d) ==
  /\ Reached(d, "verifier")
  /\ run_command(d, "verifier", IF dep[d].skip_issuer THEN "env_source" ELSE "issuer")
  /\ UNCHANGED <<env, stored, containers, rollback>>

add_issuer(d) ==
  /\ Reached(d, "issuer")
  /\ run_command(d, "issuer", "env_source")
  /\ UNCHANGED <<env, stored, containers, rollback>>

\* set_env_value reads the file ...
set_env_read(d) ==
  \E key \in {"source", "id"} :
    /\ Reached(d, "env_" \o key)
    /\ dep' = [dep EXCEPT ![d].at = "write_" \o key, ![d].lines = env]
    /\ UNCHANGED <<registry, env, stored, containers, rollback>>

\* ... and writes all of it back with one line changed.  The four keys are set
\* one after the other, the registry id last; the two with fixed values are
\* left out.
set_env_write(d) ==
  \E key \in {"source", "id"} :
    /\ Reached(d, "write_" \o key)
    /\ env' = [dep[d].lines EXCEPT ![key] = d]
    /\ Goto(d, CASE key = "source" -> "env_id"
                 [] dep[d].skip_e2e -> "ok"
                 [] OTHER -> "smoke")
    /\ UNCHANGED <<registry, stored, containers, rollback>>

\* Killed while the file is open for writing: it is left empty.
set_env_torn(d) ==
  /\ dep[d].at \in {"write_source", "write_id"}
  /\ env' = NoEnv
  /\ Goto(d, "failed")
  /\ UNCHANGED <<registry, stored, containers, rollback>>

-----------------------------------------------------------------------------
(* run_e2e, as the deploy runs it: with the root ensured and on chain *)

\* Health, embed, extract and the local proof: each a check, all read-only.
e2e_checks(d) ==
  /\ Reached(d, "smoke")
  /\ \E next \in {"root", "failed"} : Goto(d, next)
  /\ UNCHANGED <<registry, env, stored, containers, rollback>>

e2e_ensure_root(d) ==
  /\ Reached(d, "root")
  /\ run_command(d, "root", "register")
  /\ UNCHANGED <<env, stored, containers, rollback>>

\* The contract refuses without a verifier and a root; the output must look
\* like a record of this video before the timeout.
e2e_register(d) ==
  /\ Reached(d, "register")
  /\ IF registry[d].verifier /\ registry[d].root
       THEN run_command(d, "record", "persist")
       ELSE Goto(d, "failed") /\ UNCHANGED registry
  /\ UNCHANGED <<env, stored, containers, rollback>>

\* The backend may have stored the event although no answer came back.
e2e_persist(d) ==
  /\ Reached(d, "persist")
  /\ \/ stored' = stored \union {d} /\ Goto(d, "lookup")
     \/ stored' \in {stored, stored \union {d}} /\ Goto(d, "failed")
  /\ UNCHANGED <<registry, env, containers, rollback>>

e2e_lookup(d) ==
  /\ Reached(d, "lookup")
  /\ \E next \in {"ok", "failed"} : Goto(d, next) /\ (next = "ok" => d \in stored)
  /\ UNCHANGED <<registry, env, stored, containers, rollback>>

-----------------------------------------------------------------------------
(* run_rollback *)

\* validate_manifest and the previous_release check: a refusal changes nothing.
start_rollback(release, docker) ==
  /\ rollback.at \in {"none", "ok", "failed"}
  /\ rollback' = [at |-> IF docker THEN "down" ELSE "ok", release |-> release, docker |-> docker]
  /\ UNCHANGED <<registry, env, stored, dep, containers>>

\* A failed `compose down` is only a warning.
compose_down ==
  /\ rollback.at = "down"
  /\ containers' \in {containers, Stopped}
  /\ rollback' = [rollback EXCEPT !.at = "up"]
  /\ UNCHANGED <<registry, env, stored, dep>>

compose_up ==
  /\ rollback.at = "up"
  /\ \/ /\ containers' = rollback.release
        /\ rollback' = [rollback EXCEPT !.at = "ok"]
     \/ /\ containers' \in {containers, rollback.release}
        /\ rollback' = [rollback EXCEPT !.at = "failed"]
  /\ UNCHANGED <<registry, env, stored, dep>>

-----------------------------------------------------------------------------

DeployInit(tags) ==
  /\ registry = [d \in Deploys |-> NoContract]
  /\ env = NoEnv
  /\ stored = {}
  /\ dep = [d \in Deploys |-> NotStarted]
  /\ containers \in tags
  /\ rollback = [at |-> "none", release |-> NoRegistry, docker |-> FALSE]

DeployNext ==
  \/ \E d \in Deploys :
       \/ \E skip_issuer, skip_e2e \in BOOLEAN : start_deploy(d, skip_issuer, skip_e2e)
       \/ deploy_contract(d)
       \/ init_admin(d)
       \/ set_verifier(d)
       \/ add_issuer(d)
       \/ set_env_read(d)
       \/ set_env_write(d)
       \/ set_env_torn(d)
       \/ e2e_checks(d)
       \/ e2e_ensure_root(d)
       \/ e2e_register(d)
       \/ e2e_persist(d)
       \/ e2e_lookup(d)
  \/ \E release \in ReleaseTags, docker \in BOOLEAN : start_rollback(release, docker)
  \/ compose_down
  \/ compose_up

-----------------------------------------------------------------------------
\* Whatever failed, was killed or ran at the same time: the registry id in
\* frontend/.env.local names a contract that has its admin, its verifier and,
\* unless its deploy skipped it, its issuer; a deploy that reports success
\* after the smoke test has its record both on chain and in the backend; and a
\* rollback with containers that reports success left them on its release.
ReportsMatchDeployment ==
  /\ env.id # NoRegistry =>
       /\ registry[env.id].init
       /\ registry[env.id].verifier
       /\ registry[env.id].issuer \/ dep[env.id].skip_issuer
  /\ \A d \in Deploys : dep[d].at = "ok" /\ ~dep[d].skip_e2e => registry[d].record /\ d \in stored
  /\ rollback.at = "ok" /\ rollback.docker => containers = rollback.release

=============================================================================
