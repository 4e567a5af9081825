----------------------------- MODULE Toolchain -----------------------------
(***************************************************************************)
(* The native kernels' build (kernels/build.py), their loader and registry *)
(* (native.py, registry.py), and scripts/verify.py, which detects the      *)
(* compiler in three of its stages.  A process is one run of verify.py, of *)
(* the build, or of `infer-lab kernels`; the caches live as long as it.    *)
(*                                                                         *)
(* A query of the toolchain (vswhere, vcvarsall.bat) may be lost: it times *)
(* out, or fails once on a loaded machine.                                 *)
(***************************************************************************)
EXTENDS Integers, Sequences, FiniteSets, SequencesExt

CONSTANTS
  Machines,   \* the machines considered, see MachineType
  MaxLost,    \* bound on the queries that are lost
  MaxProcs    \* bound on the processes run one after another

Bindings == <<"ctypes", "pybind11", "nanobind">>
Targets == {"ctypes", "pybind11", "nanobind"}
Tools == {"javac", "node", "dotnet"}

\* vs: the Visual Studio install; onPath, inInstall: cl.exe is on the PATH of
\* vcvars, or where find_cl_in_install() looks; prompt: it is on the caller's
\* PATH; unix: a Unix compiler is; missing: required packages (NumPy is there,
\* without it nothing runs); httpx, pip: optional ones.
MachineType ==
  [windows : BOOLEAN, vs : {"none", "no_vcvars", "broken", "ok"}, onPath : BOOLEAN,
   inInstall : BOOLEAN, prompt : BOOLEAN, unix : BOOLEAN,
   missing : SUBSET {"fastapi", "pytest"}, httpx : BOOLEAN,
   pip : SUBSET {"pybind11", "nanobind"}, tools : SUBSET Tools]

ASSUME ToolchainAssumption ==
  Machines \subseteq MachineType /\ MaxLost \in Nat /\ MaxProcs \in Nat

VARIABLES
  machine, proc,    \* the machine; the process and where it is
  procs,            \* processes started
  env,              \* _MSVC_ENV and _MSVC_ENV_ERROR: "unset", "set" or "error"
  lost,             \* queries lost so far
  detected,         \* what detect_compiler() has answered in this process
  targets,          \* what build_all() has still to build
  disk,             \* the artifacts: "none", "good", "wrong" (architecture) or "unknown"
  interrupted,      \* targets whose compiler was killed by the timeout of _run()
  built,            \* results of build_all(): "none", "ok", "skipped" or "failed"
  failed,           \* the stages of verify.py with a FAIL
  backends          \* the registry: the backends it has found available

toolVars == <<machine, proc, procs, env, lost, detected, targets, disk, interrupted, built,
              failed, backends>>

At(program, stage) == proc = [program |-> program, stage |-> stage]
Stage(stage) == proc' = [proc EXCEPT !.stage = stage]

ToolInit ==
  /\ machine \in Machines
  /\ proc = [program |-> "none", stage |-> "over"]
  /\ procs = 0 /\ env = "unset" /\ lost = 0 /\ detected = <<>> /\ targets = <<>>
  /\ disk = [t \in Targets |-> "none"] /\ interrupted = {}
  /\ built = [t \in Targets |-> "none"] /\ failed = {} /\ backends = {}

\* A new process, whose module globals are fresh; build --only builds one
\* target, and build --clean first removes the artifacts.
StartProcess ==
  /\ proc.stage \in {"over", "traceback"} /\ procs < MaxProcs
  /\ procs' = procs + 1
  /\ \/ \E p \in {"verify", "verify --fast", "kernels"} :
          /\ proc' = [program |-> p, stage |-> IF p = "kernels" THEN "discover" ELSE "environment"]
          /\ targets' = Bindings
          /\ UNCHANGED <<disk, interrupted>>
     \/ \E clean \in BOOLEAN :
          /\ proc' = [program |-> "build", stage |-> "detect"]
          /\ disk' = IF clean THEN [t \in Targets |-> "none"] ELSE disk
          /\ interrupted' = IF clean THEN {} ELSE interrupted
          /\ targets' \in {Bindings} \cup {<<t>> : t \in Targets}
  /\ env' = "unset" /\ detected' = <<>>
  /\ built' = [t \in Targets |-> "none"] /\ failed' = {} /\ backends' = {}
  /\ UNCHANGED <<machine, lost>>

-----------------------------------------------------------------------------
(* detect_compiler(): the possible answers, and what they leave cached.    *)

Answer(cc, e, l) == [cc |-> cc, env |-> e, lost |-> l]
MoreLost == IF lost < MaxLost THEN {lost + 1} ELSE {}

\* Without a vcvars environment: a VS prompt, another compiler, or BuildError.
Elsewhere ==
  IF machine.windows /\ machine.prompt THEN "prompt" ELSE IF machine.unix THEN "unix" ELSE "none"

\* With one: cl on its PATH, else where a second vswhere query says.
WithEnv ==
  IF machine.onPath THEN {Answer("vcvars", "set", lost)}
  ELSE {Answer(IF machine.inInstall THEN "vcvars" ELSE Elsewhere, "set", lost)}
         \cup {Answer(Elsewhere, "set", l) : l \in MoreLost}

\* msvc_env() the first time.  A lost vswhere query looks like a missing
\* install; a vcvarsall.bat that times out is not a BuildError and is raised.
FirstTime_Forgetful ==   \* mutant: the error is not cached
  (IF machine.vs = "ok" THEN WithEnv ELSE {Answer(Elsewhere, "error", lost)})
    \cup {Answer(Elsewhere, "unset", l) : l \in MoreLost}
FirstTime ==
  (IF machine.vs = "ok" THEN WithEnv ELSE {Answer(Elsewhere, "error", lost)})
    \cup {Answer(Elsewhere, "error", l) : l \in MoreLost}
    \cup {Answer("raised", "unset", l) :
             l \in IF machine.vs \in {"ok", "broken"} THEN MoreLost ELSE {}}

Detections ==
  CASE ~machine.windows -> {Answer(Elsewhere, env, lost)}
    [] machine.windows /\ env = "unset" -> FirstTime
    [] machine.windows /\ env = "set" -> WithEnv
    [] machine.windows /\ env = "error" -> {Answer(Elsewhere, "error", lost)}

Detect(a) == env' = a.env /\ lost' = a.lost /\ detected' = Append(detected, a.cc)

-----------------------------------------------------------------------------
(* The build.                                                              *)

\* The compiler's exit status and the artifact it leaves; "killed" is the
\* TimeoutExpired of _run().
CompilerRuns(t) ==
  ({"success"} \X {"good", "wrong", disk[t]})
    \cup ({"error"} \X {disk[t]}) \cup ({"killed"} \X {disk[t], "wrong", "unknown"})

\* verify_artifact(): a wrong architecture is deleted and reported.
Verified_Lenient(artifact) ==   \* mutant: the architecture is not looked at
  IF artifact = "none" THEN <<"skipped", "none">> ELSE <<"ok", artifact>>
Verified(artifact) ==
  IF artifact \in {"none", "wrong"} THEN <<"skipped", "none">> ELSE <<"ok", artifact>>

Outcome(t, result, artifact) ==
  /\ built' = [built EXCEPT ![t] = result]
  /\ disk' = [disk EXCEPT ![t] = artifact]

\* One iteration of build_all(): the binding's package, then the compiler.
BuildTarget ==
  /\ proc.stage = "build" /\ targets # <<>>
  /\ targets' = Tail(targets)
  /\ LET t == Head(targets) IN
     IF t \in {"pybind11", "nanobind"} \ machine.pip
     THEN /\ Outcome(t, "skipped", disk[t])
          /\ UNCHANGED <<env, lost, detected, interrupted>>
     ELSE \E a \in Detections :
            /\ Detect(a)
            /\ IF a.cc \in {"none", "raised"}
               THEN /\ Outcome(t, IF a.cc = "none" THEN "skipped" ELSE "failed", disk[t])
                    /\ UNCHANGED interrupted
               ELSE \E run \in CompilerRuns(t) :
                      LET v == Verified(run[2]) IN
                      /\ CASE run[1] = "success" -> Outcome(t, v[1], v[2])
                           [] run[1] = "error" -> Outcome(t, "skipped", run[2])
                           [] run[1] = "killed" -> Outcome(t, "failed", run[2])
                      /\ interrupted' = IF run[1] = "killed" THEN interrupted \cup {t}
                                        ELSE IF run[1] = "success" THEN interrupted \ {t}
                                        ELSE interrupted
  /\ UNCHANGED <<machine, proc, procs, failed, backends>>

\* main() of the build: a BuildError is printed, anything else is not caught.
BuildMain ==
  /\ At("build", "detect")
  /\ \E a \in Detections : Detect(a) /\ Stage(IF a.cc = "raised" THEN "traceback" ELSE "build")
  /\ UNCHANGED <<machine, procs, targets, disk, interrupted, built, failed, backends>>

BuildDone ==
  /\ proc.stage = "build" /\ targets = <<>>
  /\ Stage(IF proc.program = "build" THEN "over" ELSE "imports")
  /\ UNCHANGED <<machine, procs, env, lost, detected, targets, disk, interrupted, built,
                 failed, backends>>

\* KernelRegistry.discover(): a binding counts if native.load() loads its
\* artifact; one whose header says nothing may do so.
Discover ==
  /\ At("kernels", "discover")
  /\ \E unknown \in SUBSET {t \in Targets : disk[t] = "unknown"} :
       backends' = {"numpy"} \cup {t \in Targets : disk[t] = "good"} \cup unknown
  /\ Stage("over")
  /\ UNCHANGED <<machine, procs, env, lost, detected, targets, disk, interrupted, built, failed>>

-----------------------------------------------------------------------------
(* The stages of verify.py.                                                *)

Fails(stages) == failed' = failed \cup stages

\* 1. The packages, and the compiler through the build's own detection.
Environment ==
  /\ proc.stage = "environment"
  /\ Fails(IF machine.missing = {} THEN {} ELSE {"environment"})
  /\ \E a \in Detections :
       /\ Detect(a)
       /\ Stage(IF a.cc = "raised" THEN "traceback"
                ELSE IF proc.program = "verify" THEN "build" ELSE "imports")
  /\ UNCHANGED <<machine, procs, targets, disk, interrupted, built, backends>>

\* 3. to 6.: imports, ruff and pytest unless --no-tests is given, the engine, the
\* HTTP API.  pytest may exceed its timeout, which is not caught; TestClient
\* needs httpx.
ImportsToHttp ==
  /\ proc.stage = "imports"
  /\ \E tests \in BOOLEAN, found \in SUBSET {"ruff", "pytest", "engine"} :
       /\ ~tests => found \subseteq {"engine"}
       /\ Fails(found \cup (IF tests /\ machine.missing # {} THEN {"pytest"} ELSE {})
                   \cup (IF "fastapi" \in machine.missing THEN {"imports", "http"} ELSE {})
                   \cup (IF machine.httpx THEN {} ELSE {"http"}))
  /\ \/ Stage(IF proc.program = "verify" THEN "clients" ELSE "over")
     \/ Stage("traceback")
  /\ UNCHANGED <<machine, procs, env, lost, detected, targets, disk, interrupted, built, backends>>

\* 7. The C probe with the compiler detected, the others if their tool is there;
\* no timeout is caught.
Clients ==
  /\ proc.stage = "clients"
  /\ \E a \in Detections :
       /\ Detect(a)
       /\ \/ /\ a.cc # "raised" /\ Stage("over")
             /\ \E bad \in SUBSET (machine.tools \cup IF a.cc = "none" THEN {} ELSE {"probe"}) :
                  Fails(bad)
          \/ Stage("traceback") /\ UNCHANGED failed
  /\ UNCHANGED <<machine, procs, targets, disk, interrupted, built, backends>>

ToolNext ==
  \/ StartProcess
  \/ BuildMain \/ BuildTarget \/ BuildDone \/ Discover
  \/ Environment \/ ImportsToHttp \/ Clients
ToolSpec == ToolInit /\ [][ToolNext]_toolVars

-----------------------------------------------------------------------------
\* The first stage "cannot claim a compiler is missing while stage 2 goes on
\* to use it": all detections of a process answer the same, even if queries
\* are lost, when cl.exe is on the PATH that vcvars sets; elsewhere, as long
\* as no query is lost.
StagesAgree ==
  machine.onPath \/ lost = 0 =>
    \A i, j \in DOMAIN detected : detected[i] = detected[j]

\* A build that says "ok" leaves an artifact that is not known to be
\* unloadable, also over one that an earlier process left; an artifact of
\* another architecture survives only if its compiler was killed.
OkIsLoadable ==
  \A t \in Targets :
    /\ built[t] = "ok" => disk[t] \in {"good", "unknown"}
    /\ disk[t] = "wrong" => t \in interrupted
=============================================================================
