------------------------------ MODULE ProbeLaunch ------------------------------
(***************************************************************************)
(* The code and the tools a probe of ProbeRun is given before its first    *)
(* step: which sources, archives and modules it may run, and which         *)
(* toolchain is pinned and staged for it.                                  *)
(***************************************************************************)
EXTENDS ProbeRun

CONSTANTS Refused, Nothing

Code == INSTANCE ReviewedCode
Rust == INSTANCE Toolchain

\* A run that has failed returned nothing that a function returns, and where
\* there is nothing there is no file.
ASSUME CodeAssumption ==
    /\ \A S \in SUBSET {"a", "b"} : Refused # S
    /\ \A x, y \in Code!Copies : Refused # {x, y}
    /\ Refused \notin Code!Homes
    /\ Nothing \notin Code!Archives /\ \A x \in Code!Archives : Nothing # Code!File(x)
    /\ Nothing # "tools"

ASSUME RustAssumption ==
    /\ Refused \notin Rust!Files /\ Nothing \notin Rust!Files
    /\ Refused \notin Rust!Pins /\ Nothing \notin Rust!Snapshots
    /\ \A S \in SUBSET Rust!StagedFiles : Refused # S

\* Whatever the exported source, the lock file, the registry cache and the
\* modules of the host are, a probe is only started on code that was reviewed:
\* no build script, override or path dependency of the repository is accepted,
\* no registry archive that runs code when it is built reaches a Cargo home
\* unless it is one of the reviewed ones, and no tracked file takes the place of
\* a module of the standard library (validate_rust_target_topology,
\* create_verified_cargo_template, PYTHON_PROBE_BOOTSTRAP); and a cache without
\* any of that is not refused.
StartsReviewedCode == Init => Code!ReviewedOnly

\* Whatever cargo, rustc and rustup the host has and whatever rustup answers, the
\* runner pins two tools of one toolchain and never rustup in their place, whose
\* choice could change between two probes; and what it stages has these two and
\* not what their names lead to later (_direct_toolchain_root: "only a genuinely
\* self-contained direct Rust toolchain").
PinsOneToolchain == Init => Rust!OneToolchain
=============================================================================
