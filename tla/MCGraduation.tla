----------------------------- MODULE MCGraduation -----------------------------
\* The graduation for TLC: a short history with a side branch, two probes and
\* two attacks, and fixtures of every kind, the ones that must be refused too.
EXTENDS Graduation

CONSTANTS old, fix, target, side, phase, rust

MCCommit == {old, fix, target, side}
MCAncestry ==
    {<<c, c>> : c \in MCCommit} \cup
    {<<old, fix>>, <<old, target>>, <<fix, target>>, <<old, side>>}
MCSameTools == {fix, target}

Result(ok, kind, exit, output) == [ok |-> ok, kind |-> kind, code |-> exit, output |-> output]
Fine == Result(TRUE, "none", 0, "fine")
Red == Result(FALSE, "exit_nonzero", 1, "red")
MCBroken == Result(FALSE, "tool_error", NoCode, "broken")
MCOutcome == {Fine, Red, MCBroken}

Attack(id, family, probes) == [id |-> id, family |-> family, scope |-> id, probes |-> probes]
Complete == {Attack("A1", "f1", {phase, rust}), Attack("A2", "f2", {rust})}
Incomplete == {Attack("A1", "f1", {rust}), Attack("A2", "f2", {rust})}
Twice == {Attack("A1", "f1", {phase, rust}), Attack("A2", "f1", {rust})}

Entry(found, attack, probe, resolution) ==
    LET family == IF attack = "A1" THEN "f1" ELSE "f2"
    IN [id |-> <<found, attack, family, attack, probe, Red>>, found |-> found, attack |-> attack,
        family |-> family, scope |-> attack, probe |-> probe, failure |-> Red,
        status |-> IF resolution = NoCommit THEN "unresolved" ELSE "resolved",
        resolution |-> resolution]

Good == Entry(old, "A1", phase, fix)
Late == Entry(old, "A2", rust, target)

Registries == {
    {}, {Good, Late}, {Entry(old, "A1", phase, NoCommit)},
    {Entry(fix, "A1", phase, old)}, {Entry(side, "A1", phase, target)},
    {Entry(fix, "A1", phase, fix)}, {Entry(old, "A1", rust, side)}, {Entry(old, "A2", phase, fix)},
    {Good, [Good EXCEPT !.resolution = target]}, {[Good EXCEPT !.failure = MCBroken]}}

Fixtures(corpus, registry) == [corpus |-> corpus, registry |-> registry]
MCVersion ==
    {Fixtures(Complete, r) : r \in Registries} \cup
    {Fixtures(Incomplete, {}), Fixtures(Twice, {})}

MCAround == {Fixtures(Complete, {}), Fixtures(Complete, {Good})}

\* What another run of the gate writes: its probes printed something else.
Other == Result(TRUE, "none", 0, "other")
MCElsewhere == {
    [corpus |-> Complete, results |-> {[probe |-> p, outcome |-> Other] : p \in Probe},
     replays |-> {}, counterexamples |-> {}, unresolved |-> 0, graduated |-> TRUE]}
=============================================================================
