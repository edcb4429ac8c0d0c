----------------------------- MODULE CircuitTools -----------------------------
(***************************************************************************)
(* What zk/tools and zk/bench do with the circuits: the pinned build of    *)
(* their artifacts, the runs that generate proofs with them, and the runs  *)
(* of the benchmark.                                                       *)
(***************************************************************************)
EXTENDS Naturals, SequencesExt, FiniteSets
-----------------------------------------------------------------------------
(* The pinned circuit build: zk/tools/build_circuits.py drives nargo and bb   *)
(* over the circuit packages, and zk/tools/artifact_manifest.py digests what  *)
(* they leave in target/, and the copies published to the browser, into       *)
(* manifests that later runs verify.  Sources, the toolchain lock, the        *)
(* installed tools and the published copies may change between any two steps. *)
(*                                                                            *)
(* A source text is a version number (0: no such package); an edit makes a    *)
(* version never seen before.  An artifact is what decided its bytes: the     *)
(* source, the tools, and the host metadata that normalization strips.        *)

CONSTANTS Circuits,        \* packages that may exist under zk/noir
          BuildOrder,      \* DEFAULT_CIRCUITS of the driver
          VkCircuits,      \* circuits whose verification key is written
          Required,        \* circuits whose artifacts the lock requires
          Published,       \* circuits with a published_acir entry
          Hosts,           \* machines a build may run on
          NoArtifact,      \* no such file
          Unreadable,      \* a file that is oversize, unreadable or malformed
          NoArtifactManifest, \* the manifest has not been written
          MaxSourceEdits,  \* bound on edits of sources and lock
          MaxBuilds        \* bound on driver runs

VARIABLES sources,         \* circuit -> version of its source, 0 if absent
          lock,            \* toolchain.lock.json: pinned tools, declared circuits
          tools,           \* the installed nargo and bb
          host,            \* the machine
          target,          \* slot -> build artifact
          published,       \* circuit -> frontend/public/noir artifact
          artifact_manifest, \* zk/artifacts.manifest.json
          browser,         \* the committed browser manifest
          origin,          \* history: the driver run that wrote the manifest
          build,           \* the driver run under way
          made             \* edits and builds so far

buildVars == <<sources, lock, tools, host, target, published, artifact_manifest, browser,
               origin, build, made>>

Slots == (Circuits \X {"acir"}) \union (VkCircuits \X {"vk"})
NoBuild == [mode |-> "idle", pass |-> 1, todo |-> <<>>, first |-> NoArtifactManifest, repinned |-> FALSE]

-----------------------------------------------------------------------------
(* artifact_manifest.py                                                       *)

\* normalize strips the host metadata of a JSON artifact; a key has none.
normalize(file) == <<file.source, file.tools>>

digest_artifact(file, required) ==
  CASE file = NoArtifact -> IF required THEN "missing" ELSE "skipped"
    [] file = Unreadable -> "unreadable"
    [] OTHER -> "digested"

\* The lock is itself one of the files whose digest the provenance holds.
collect_provenance == [sources |-> sources, lock |-> lock]

declared_slots == {s \in Slots : s[1] \in lock.declared}

\* The toolchain comes from the lock, never from the tools that ran.
build_manifest ==
  [toolchain  |-> lock.tools,
   provenance |-> collect_provenance,
   artifacts  |-> [s \in {s \in declared_slots :
                          digest_artifact(target[s], s[1] \in Required) = "digested"} |-> target[s]]]

_fail_on_fatal ==
  \E s \in declared_slots :
     digest_artifact(target[s], s[1] \in Required) \in {"missing", "unreadable"}

\* Without the provenance, a build whose sources moved between compile and
\* write would pass.
compare_manifests_without_provenance(expected, actual) ==
  /\ expected.toolchain = actual.toolchain
  /\ expected.artifacts = actual.artifacts

\* No finding: raw bytes are compared too when the normalized digests agree.
compare_manifests(expected, actual) ==
  /\ expected.toolchain = actual.toolchain
  /\ expected.provenance = actual.provenance
  /\ expected.artifacts = actual.artifacts

command_verify ==
  /\ artifact_manifest # NoArtifactManifest
  /\ ~_fail_on_fatal
  /\ compare_manifests(artifact_manifest, build_manifest)

\* Nothing on disk is undeclared and nothing declared is absent.
check_coverage == {c \in Circuits : sources[c] # 0} = lock.declared

build_browser_manifest ==
  [toolchain |-> lock.tools,
   artifacts |-> [c \in {c \in Published : published[c] # NoArtifact} |-> published[c]]]

\* Only pairs with both files on disk are compared, by normalized digest.
compare_published_to_targets ==
  \A c \in Published :
    published[c] # NoArtifact /\ target[<<c, "acir">>] # NoArtifact
      => /\ target[<<c, "acir">>] # Unreadable
         /\ normalize(published[c]) = normalize(target[<<c, "acir">>])

command_verify_browser ==
  /\ browser # NoArtifactManifest
  /\ \A c \in Published : published[c] # Unreadable
  /\ browser = build_browser_manifest
  /\ compare_published_to_targets

command_write_browser ==
  /\ \A c \in Published : published[c] # Unreadable
  /\ \E c \in Published : published[c] # NoArtifact
  /\ browser' = build_browser_manifest
  /\ UNCHANGED <<sources, lock, tools, host, target, published, artifact_manifest, origin, build, made>>

-----------------------------------------------------------------------------
(* build_circuits.py *)

check_toolchain == tools = lock.tools

Compiled(c, kind) ==
  [source |-> sources[c], tools |-> tools, host |-> IF kind = "acir" THEN host ELSE 0]

\* target/ after compile_circuit has cleaned it and got as far as `kinds`.
Cleaned(c, kinds) ==
  [s \in Slots |-> IF s[1] # c THEN target[s]
                   ELSE IF s[2] \in kinds THEN Compiled(c, s[2]) ELSE NoArtifact]

\* A missing package is skipped.  A failure or a kill leaves a partial target.
compile_circuit(c) ==
  \/ /\ sources[c] = 0
     /\ build' = [build EXCEPT !.todo = Tail(@)]
     /\ UNCHANGED target
  \/ /\ sources[c] # 0
     /\ target' = Cleaned(c, {"acir", "vk"})
     /\ build' = [build EXCEPT !.todo = Tail(@)]
  \/ /\ sources[c] # 0
     /\ \E kinds \in {{}, {"acir"}} : target' = Cleaned(c, kinds)
     /\ build' = NoBuild

build_all_circuits ==
  /\ build.mode # "idle"
  /\ build.todo # <<>>
  /\ compile_circuit(Head(build.todo))
  /\ UNCHANGED <<sources, lock, tools, host, published, artifact_manifest, browser, origin, made>>

\* The coverage gate and the tool versions are checked once, before the build.
cmd_build(mode) ==
  /\ build.mode = "idle"
  /\ made.builds < MaxBuilds
  /\ check_coverage
  /\ check_toolchain
  /\ build' = [NoBuild EXCEPT !.mode = mode, !.todo = BuildOrder]
  /\ made' = [made EXCEPT !.builds = @ + 1]
  /\ UNCHANGED <<sources, lock, tools, host, target, published, artifact_manifest, browser, origin>>

Commit(document) ==
  /\ artifact_manifest' = document
  /\ origin' = [mode |-> build.mode, repinned |-> build.repinned]

\* The end of a pass: the manifest tool runs and its exit status ends the run,
\* except that a double build goes round once more and compares the two.
finish_pass ==
  /\ build.mode # "idle"
  /\ build.todo = <<>>
  /\ \/ /\ _fail_on_fatal \/ build.mode = "verify"
        /\ build' = NoBuild
        /\ UNCHANGED <<artifact_manifest, origin>>
     \/ /\ ~_fail_on_fatal
        /\ build.mode = "single"
        /\ Commit(build_manifest)
        /\ build' = NoBuild
     \/ /\ ~_fail_on_fatal
        /\ build.mode = "double"
        /\ build.pass = 1
        /\ build' = [build EXCEPT !.pass = 2, !.todo = BuildOrder, !.first = build_manifest]
        /\ UNCHANGED <<artifact_manifest, origin>>
     \/ /\ ~_fail_on_fatal
        /\ build.mode = "double"
        /\ build.pass = 2
        /\ IF compare_manifests(build.first, build_manifest)
             THEN Commit(build_manifest)
             ELSE UNCHANGED <<artifact_manifest, origin>>
        /\ build' = NoBuild
  /\ UNCHANGED <<sources, lock, tools, host, target, published, browser, made>>

-----------------------------------------------------------------------------
(* What people do to the tree between and during the runs. *)

EditSource(c) ==
  /\ made.edits < MaxSourceEdits
  /\ made' = [made EXCEPT !.edits = @ + 1]
  /\ sources' = [sources EXCEPT ![c] = made.edits + 2]
  /\ UNCHANGED <<lock, tools, host, target, published, artifact_manifest, browser, origin, build>>

\* The pin moves, and the tools are installed to match or are not.
EditLock ==
  /\ made.edits < MaxSourceEdits
  /\ made' = [made EXCEPT !.edits = @ + 1]
  /\ lock' = [lock EXCEPT !.tools = made.edits + 2]
  /\ tools' \in {tools, made.edits + 2}
  /\ build' = IF build.mode = "idle" THEN build ELSE [build EXCEPT !.repinned = TRUE]
  /\ UNCHANGED <<sources, host, target, published, artifact_manifest, browser, origin>>

\* Another checkout of the tree, target/ being ignored by git.
MoveHost ==
  /\ build.mode = "idle"
  /\ host' \in Hosts \ {host}
  /\ target' = [s \in Slots |-> NoArtifact]
  /\ UNCHANGED <<sources, lock, tools, published, artifact_manifest, browser, origin, build, made>>

Publish(c) ==
  /\ target[<<c, "acir">>] \notin {NoArtifact, Unreadable}
  /\ published' = [published EXCEPT ![c] = target[<<c, "acir">>]]
  /\ UNCHANGED <<sources, lock, tools, host, target, artifact_manifest, browser, origin, build, made>>

Corrupt(s) ==
  /\ target[s] \notin {NoArtifact, Unreadable}
  /\ made.edits < MaxSourceEdits
  /\ made' = [made EXCEPT !.edits = @ + 1]
  /\ target' = [target EXCEPT ![s] = Unreadable]
  /\ UNCHANGED <<sources, lock, tools, host, published, artifact_manifest, browser, origin, build>>

BuildInit(hosts) ==
  /\ sources = [c \in Circuits |-> 1]
  /\ lock = [tools |-> 1, declared |-> Circuits]
  /\ tools = 1
  /\ host \in hosts
  /\ target = [s \in Slots |-> NoArtifact]
  /\ published = [c \in Published |-> NoArtifact]
  /\ artifact_manifest = NoArtifactManifest
  /\ browser = NoArtifactManifest
  /\ origin = [mode |-> "idle", repinned |-> FALSE]
  /\ build = NoBuild
  /\ made = [edits |-> 0, builds |-> 0]

BuildNext ==
  \/ \E mode \in {"single", "verify", "double"} : cmd_build(mode)
  \/ build_all_circuits
  \/ finish_pass
  \/ command_write_browser
  \/ \E c \in Circuits : EditSource(c)
  \/ EditLock
  \/ MoveHost
  \/ \E c \in Published : Publish(c)
  \/ \E s \in Slots : Corrupt(s)

-----------------------------------------------------------------------------
\* When the committed manifest came from a double build and both gates,
\* `verify` and `verify-browser`, would pass on the tree as it stands, every
\* circuit in the browser bundle that was rebuilt is the one the present
\* sources compile to, under the pinned tools: whatever was edited, and when,
\* during the builds.  The one exception for the tools is a lock edited while
\* the build ran, since the versions are compared with the lock only once.
GreenGatesMeanCurrentCircuit ==
  origin.mode = "double" /\ command_verify /\ command_verify_browser =>
    \A c \in Published :
      c \in ToSet(BuildOrder) /\ published[c] # NoArtifact /\ target[<<c, "acir">>] # NoArtifact =>
        /\ published[c].source = sources[c]
        /\ origin.repinned \/ published[c].tools = lock.tools

-----------------------------------------------------------------------------
(* `build_circuits.py generate`, which the backend starts in a process of its *)
(* own for every proof request (noir.py).  The runs hand their inputs to      *)
(* nargo and bb through files in the circuit packages: Prover.toml of the     *)
(* helper and of the circuit, and witness, proof and public inputs in         *)
(* target/.  Nothing locks those files.  Each action is one read or write of  *)
(* them; runs interleave in every way, fail, or are killed at a timeout.      *)
(*                                                                            *)
(* An input is what a run was asked to prove (hashes and secrets); what the   *)
(* helper derives from it and what is proved about it are named by it.        *)

CONSTANTS Runs,           \* driver processes
          Packages,       \* circuits with a helper: silent_witness, its aggregator
          ProofInputs,    \* what may be asked for
          Sample,         \* the input committed in Prover.toml
          NoInput         \* no file

VARIABLES helper_toml,    \* package -> inputs in the helper's Prover.toml
          circuit_toml,   \* package -> [asked, derived] in the circuit's Prover.toml
          witness,        \* package -> what target/witness.gz holds
          proved,         \* package -> what target/proof proves
          publics,        \* package -> what target/public_inputs states
          gen             \* run -> its progress, backups and copies

genVars == <<helper_toml, circuit_toml, witness, proved, publics, gen>>

NoToml == [asked |-> NoInput, derived |-> NoInput]
NoRun == [at |-> "none", package |-> NoInput, asked |-> NoInput, derived |-> NoInput,
          helper_backup |-> NoInput, circuit_backup |-> NoToml,
          proof |-> NoInput, public |-> NoInput, shared |-> FALSE]

Live(r) == gen[r].at \notin {"none", "ok", "failed", "killed"}

Step(r, from, to) ==
  /\ gen[r].at = from
  /\ gen' = [gen EXCEPT ![r].at = to]

-----------------------------------------------------------------------------

\* cmd_generate has checked the tools and the arguments; the backups are read
\* and the helper's inputs written over them.
start_generate(r, p, v) ==
  /\ gen[r].at = "none"
  /\ LET rivals == {o \in Runs : Live(o) /\ gen[o].package = p}
     IN gen' = [o \in Runs |->
          IF o = r THEN [NoRun EXCEPT !.at = "helper", !.package = p, !.asked = v,
                                      !.helper_backup = helper_toml[p],
                                      !.circuit_backup = circuit_toml[p],
                                      !.shared = rivals # {}]
          ELSE IF o \in rivals THEN [gen[o] EXCEPT !.shared = TRUE]
          ELSE gen[o]]
  /\ helper_toml' = [helper_toml EXCEPT ![p] = v]
  /\ UNCHANGED <<circuit_toml, witness, proved, publics>>

\* The helper derives roots and nullifiers from whatever its file holds now;
\* the circuit's file then pairs them with the run's own inputs.
execute_helper(r) ==
  LET p == gen[r].package IN
  /\ gen[r].at = "helper"
  /\ gen' = [gen EXCEPT ![r].at = "inputs", ![r].derived = helper_toml[p]]
  /\ UNCHANGED <<helper_toml, circuit_toml, witness, proved, publics>>

write_circuit_toml(r) ==
  /\ Step(r, "inputs", "witness")
  /\ circuit_toml' = [circuit_toml EXCEPT ![gen[r].package] =
                        [asked |-> gen[r].asked, derived |-> gen[r].derived]]
  /\ UNCHANGED <<helper_toml, witness, proved, publics>>

\* The circuit constrains the roots to its inputs: a mixed file has no witness.
execute_witness(r) ==
  LET p == gen[r].package IN
  /\ Step(r, "witness", "prove")
  /\ circuit_toml[p].asked = circuit_toml[p].derived
  /\ witness' = [witness EXCEPT ![p] = circuit_toml[p].asked]
  /\ UNCHANGED <<helper_toml, circuit_toml, proved, publics>>

prove(r) ==
  LET p == gen[r].package IN
  /\ Step(r, "prove", "verify")
  /\ proved' = [proved EXCEPT ![p] = witness[p]]
  /\ publics' = [publics EXCEPT ![p] = witness[p]]
  /\ UNCHANGED <<helper_toml, circuit_toml, witness>>

\* bb verify: the proof fits the public inputs beside it, whoever made them.
verify(r) ==
  LET p == gen[r].package IN
  /\ Step(r, "verify", "copy")
  /\ proved[p] = publics[p]
  /\ UNCHANGED <<helper_toml, circuit_toml, witness, proved, publics>>

copy_proof(r) ==
  /\ gen[r].at = "copy"
  /\ gen' = [gen EXCEPT ![r].at = "report", ![r].proof = proved[gen[r].package]]
  /\ UNCHANGED <<helper_toml, circuit_toml, witness, proved, publics>>

\* `finally`: a backup is put back only when there was a file to back up.
restore(r) ==
  LET p == gen[r].package IN
  /\ helper_toml' = IF gen[r].helper_backup = NoInput THEN helper_toml
                    ELSE [helper_toml EXCEPT ![p] = gen[r].helper_backup]
  /\ circuit_toml' = IF gen[r].circuit_backup = NoToml THEN circuit_toml
                     ELSE [circuit_toml EXCEPT ![p] = gen[r].circuit_backup]
  /\ UNCHANGED <<witness, proved, publics>>

report(r) ==
  /\ gen[r].at = "report"
  /\ gen' = [gen EXCEPT ![r].at = "ok", ![r].public = publics[gen[r].package]]
  /\ restore(r)

\* The restore that forgets the circuit's own file.
fail_helper_only(r) ==
  /\ Live(r)
  /\ gen' = [gen EXCEPT ![r].at = "failed"]
  /\ helper_toml' = [helper_toml EXCEPT ![gen[r].package] = gen[r].helper_backup]
  /\ UNCHANGED <<circuit_toml, witness, proved, publics>>

\* A command that fails, or a wrong number of fields from the helper, raises.
fail(r) ==
  /\ Live(r)
  /\ gen' = [gen EXCEPT ![r].at = "failed"]
  /\ restore(r)

\* The backend's timeout kills the process: `finally` never runs.  (A driver
\* that outlives the shell the backend killed is a run that just goes on.)
kill(r) ==
  /\ Live(r)
  /\ gen' = [gen EXCEPT ![r].at = "killed"]
  /\ UNCHANGED <<helper_toml, circuit_toml, witness, proved, publics>>

CommittedTomls == [Packages -> {Sample, NoInput}]

GenInit(tomls) ==
  /\ helper_toml \in tomls
  /\ circuit_toml = [p \in Packages |-> IF helper_toml[p] = NoInput THEN NoToml
                                        ELSE [asked |-> Sample, derived |-> Sample]]
  /\ witness = [p \in Packages |-> NoInput]
  /\ proved = [p \in Packages |-> NoInput]
  /\ publics = [p \in Packages |-> NoInput]
  /\ gen = [r \in Runs |-> NoRun]

GenNext ==
  \E r \in Runs :
    \/ \E p \in Packages, v \in ProofInputs : start_generate(r, p, v)
    \/ execute_helper(r)
    \/ write_circuit_toml(r)
    \/ execute_witness(r)
    \/ prove(r)
    \/ verify(r)
    \/ copy_proof(r)
    \/ report(r)
    \/ fail(r)
    \/ kill(r)

-----------------------------------------------------------------------------
\* A run that no run of the same circuit overlapped reports a proof and public
\* inputs of what it was asked, whatever failed or killed runs left in the
\* files before it; and when it has ended by itself and no later run has
\* started on that circuit, Prover.toml is what it found, if it found one.
LoneRunIsExact ==
  \A r \in Runs : ~gen[r].shared =>
    /\ gen[r].at = "ok" => gen[r].proof = gen[r].asked /\ gen[r].public = gen[r].asked
    /\ gen[r].at \in {"ok", "failed"} /\ (\A o \in Runs \ {r} : gen[o].package # gen[r].package) =>
         /\ gen[r].helper_backup # NoInput =>
              helper_toml[gen[r].package] = gen[r].helper_backup
         /\ gen[r].circuit_backup # NoToml =>
              circuit_toml[gen[r].package] = gen[r].circuit_backup

-----------------------------------------------------------------------------
(* zk/bench/zk_bench.py: `run` collects cold and warm samples phase by phase, *)
(* sums them up, and writes a report only when the outcome is ok; `compare`   *)
(* holds a report against the committed limits.  A signal may ask for         *)
(* cancellation, and the wall clock may run out, between any two steps.       *)

CONSTANTS PhaseLists,       \* --phases as given
          BenchTargets,     \* "ci" stands for the targets that take every phase
          ColdSamples, WarmDiscard, WarmSamples,
          Timings,          \* elapsed times a sample may report
          MaxMs,            \* baselines: phase -> limit on p95
          NoReport          \* no file

VARIABLES bench,            \* the run: target, phases left, samples, outcome
          cancelled,        \* RunContext.cancelled
          overtime,         \* max_wall_clock_ms has passed
          tmp, bench_report \* the report file and its .tmp

benchVars == <<bench, cancelled, overtime, tmp, bench_report>>

NoBench == [at |-> "none", target |-> "ci", asked |-> <<>>, todo |-> <<>>,
            results |-> <<>>, discarded |-> 0, phases |-> <<>>, outcome |-> "ok"]

\* The process is gone, and what it knew with it.
Exit(how) ==
  /\ bench' = [NoBench EXCEPT !.at = how]
  /\ cancelled' = FALSE
  /\ overtime' = FALSE

Terminal == {"rejected", "timed_out", "cancelled", "fatal"}
Phase == Head(bench.todo)

-----------------------------------------------------------------------------
(* Statistics *)

\* Python's round: to the nearest integer, halves to the even one.
round(numerator, denominator) ==
  LET q == numerator \div denominator
      twice == 2 * (numerator % denominator)
  IN IF twice > denominator \/ (twice = denominator /\ q % 2 = 1) THEN q + 1 ELSE q

percentile(ordered, pct) ==
  LET rank == round(pct * Len(ordered), 100)
  IN ordered[IF rank < 1 THEN 1 ELSE rank]

\* Times of the samples that finished, sorted.
summarize_timings(results) ==
  LET ordered == SortSeq(results, <)
  IN [p50 |-> percentile(ordered, 50), p95 |-> percentile(ordered, 95),
      p99 |-> percentile(ordered, 99), min |-> Head(ordered), max |-> Last(ordered),
      count |-> Len(ordered)]

-----------------------------------------------------------------------------
(* run_target *)

start_run(t, phases) ==
  /\ bench.at \in {"none", "written", "aborted"}
  /\ bench' = [NoBench EXCEPT !.at = "sample", !.target = t, !.asked = phases, !.todo = phases]
  /\ UNCHANGED <<cancelled, overtime, tmp, bench_report>>

\* soroban_adjacent measures the verify phase only.
skip_phase ==
  /\ bench.at = "sample"
  /\ bench.todo # <<>>
  /\ bench.target = "soroban_adjacent" /\ Phase # "verify"
  /\ bench' = [bench EXCEPT !.todo = Tail(@)]
  /\ UNCHANGED <<cancelled, overtime, tmp, bench_report>>

Sampling ==
  /\ bench.at = "sample"
  /\ bench.todo # <<>>
  /\ bench.target # "soroban_adjacent" \/ Phase = "verify"
  /\ Len(bench.results) < ColdSamples + WarmSamples

Discarding == Len(bench.results) = ColdSamples /\ bench.discarded < WarmDiscard

\* check_cancelled stands outside the sample's own `try`: it ends the run.
abort_sample ==
  /\ Sampling
  /\ cancelled \/ overtime
  /\ Exit("aborted")
  /\ UNCHANGED <<tmp, bench_report>>

\* A warm-up result is thrown away whatever it is.
discard_sample ==
  /\ Sampling
  /\ ~cancelled /\ ~overtime
  /\ Discarding
  /\ bench' = [bench EXCEPT !.discarded = @ + 1]
  /\ UNCHANGED <<cancelled, overtime, tmp, bench_report>>

run_one_sample ==
  /\ Sampling
  /\ ~cancelled /\ ~overtime
  /\ ~Discarding
  /\ \E sample \in [state : {"ok"}, ms : Timings] \union [state : Terminal \ {"cancelled"}, ms : {0}] :
       bench' = [bench EXCEPT !.results = Append(@, sample)]
  /\ UNCHANGED <<cancelled, overtime, tmp, bench_report>>

\* The operation saw the cancellation while it was measuring.
cancel_during_sample ==
  /\ Sampling
  /\ ~cancelled /\ ~overtime
  /\ ~Discarding
  /\ bench' = [bench EXCEPT !.results = Append(@, [state |-> "cancelled", ms |-> 0])]
  /\ cancelled' = TRUE
  /\ UNCHANGED <<overtime, tmp, bench_report>>

States(results) == {results[i].state : i \in DOMAIN results}
Finished(results) == SelectSeq(results, LAMBDA r : r.state = "ok")

\* The outcome from the cold samples alone.
Outcome_cold(results, stop) ==
  CASE stop \/ "cancelled" \in States(SubSeq(results, 1, ColdSamples)) -> "cancelled"
    [] "timed_out" \in States(SubSeq(results, 1, ColdSamples)) -> "timeout"
    [] "rejected" \in States(SubSeq(results, 1, ColdSamples)) -> "rejected"
    [] "fatal" \in States(SubSeq(results, 1, ColdSamples)) -> "fatal"
    [] OTHER -> "ok"

Outcome(results, stop) ==
  CASE stop \/ "cancelled" \in States(results) -> "cancelled"
    [] "timed_out" \in States(results) -> "timeout"
    [] "rejected" \in States(results) -> "rejected"
    [] "fatal" \in States(results) -> "fatal"
    [] OTHER -> "ok"

\* A phase is summed up; a run that is no longer ok goes no further.
finish_phase ==
  LET times == [i \in DOMAIN Finished(bench.results) |-> Finished(bench.results)[i].ms]
      outcome == Outcome(bench.results, cancelled)
      entry == [phase |-> Phase, samples |-> times,
                percentiles |-> IF times = <<>> THEN NoReport ELSE summarize_timings(times)]
  IN /\ bench.at = "sample"
     /\ bench.todo # <<>>
     /\ Len(bench.results) = ColdSamples + WarmSamples
     /\ bench' = [bench EXCEPT !.todo = IF outcome = "ok" THEN Tail(@) ELSE <<>>,
                               !.outcome = outcome, !.results = <<>>, !.discarded = 0,
                               !.phases = Append(@, entry)]
     /\ UNCHANGED <<cancelled, overtime, tmp, bench_report>>

\* main: a report is written only for outcome ok, beside the file first.
end_run ==
  /\ bench.at = "sample"
  /\ bench.todo = <<>>
  /\ IF bench.outcome = "ok"
       THEN /\ bench' = [bench EXCEPT !.at = "write"]
            /\ tmp' = [target |-> bench.target, asked |-> bench.asked, phases |-> bench.phases]
            /\ UNCHANGED <<cancelled, overtime>>
       ELSE Exit("aborted") /\ UNCHANGED tmp
  /\ UNCHANGED bench_report

write_report ==
  /\ bench.at = "write"
  /\ bench_report' = tmp
  /\ tmp' = NoReport
  /\ Exit("written")

\* SIGINT or SIGTERM while run_target has its handlers in place.
_handle_sig ==
  /\ bench.at = "sample"
  /\ ~cancelled
  /\ cancelled' = TRUE
  /\ UNCHANGED <<bench, overtime, tmp, bench_report>>

ClockRunsOut ==
  /\ bench.at = "sample"
  /\ ~overtime
  /\ overtime' = TRUE
  /\ UNCHANGED <<bench, cancelled, tmp, bench_report>>

\* The process dies; a later run starts over.
KillBench ==
  /\ bench.at \in {"sample", "write"}
  /\ Exit("aborted")
  /\ UNCHANGED <<tmp, bench_report>>

\* `compare`: no finding.
compare_report ==
  \A i \in DOMAIN bench_report.phases :
    bench_report.phases[i].percentiles # NoReport =>
      bench_report.phases[i].percentiles.p95 <= MaxMs[bench_report.phases[i].phase]

BenchInit ==
  /\ bench = NoBench
  /\ cancelled = FALSE
  /\ overtime = FALSE
  /\ tmp = NoReport
  /\ bench_report = NoReport

BenchNext ==
  \/ \E t \in BenchTargets, phases \in PhaseLists : start_run(t, phases)
  \/ skip_phase
  \/ abort_sample
  \/ discard_sample
  \/ run_one_sample
  \/ cancel_during_sample
  \/ finish_phase
  \/ end_run
  \/ write_report
  \/ _handle_sig
  \/ ClockRunsOut
  \/ KillBench

-----------------------------------------------------------------------------
\* "A half-finished run never promotes a report": whatever was cancelled, timed
\* out or killed, the report on disk holds every phase that its run was asked
\* for and measures, each with all its cold and warm samples; and a report that
\* `compare` lets through has nine in ten of the samples of each of those
\* phases within the limit.
PromotedReportIsWhole ==
  bench_report # NoReport =>
    LET Measured == SelectSeq(bench_report.asked,
                      LAMBDA p : bench_report.target # "soroban_adjacent" \/ p = "verify")
    IN /\ [i \in DOMAIN bench_report.phases |-> bench_report.phases[i].phase] = Measured
       /\ \A i \in DOMAIN bench_report.phases :
            LET times == bench_report.phases[i].samples
            IN /\ Len(times) = ColdSamples + WarmSamples
               /\ compare_report =>
                    10 * Len(SelectSeq(times, LAMBDA t : t <= MaxMs[bench_report.phases[i].phase]))
                      >= 9 * Len(times)
=============================================================================
