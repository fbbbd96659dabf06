----------------------------- MODULE ProbeSandbox -----------------------------
(***************************************************************************)
(* What a probe may ask of the kernel (tools/moriarty_isolation.py): the   *)
(* two stacked seccomp filters, as the BPF programs the module assembles   *)
(* and an interpreter of them, the Landlock ruleset, the environment, the  *)
(* limits, and how a child puts them on before it executes.                *)
(***************************************************************************)
EXTENDS Integers, FiniteSets, SequencesExt

Harness == "harness"    \* the name of the harness's directory in /proc

-----------------------------------------------------------------------------
\* Syscall numbers of the two machines.

Machines == {"x86_64", "aarch64"}

\* One past the largest native number: x32 sets this bit of a number.
X32Bit == 1073741824

AF_UNIX == 1

SocketSyscalls(machine) ==
    IF machine = "x86_64" THEN [socket |-> 41, socketpair |-> 53, connect |-> 42]
                          ELSE [socket |-> 198, socketpair |-> 199, connect |-> 203]

\* kill, tkill, tgkill, pidfd_send_signal, rt_sigqueueinfo, rt_tgsigqueueinfo.
SignalSyscalls(machine) ==
    IF machine = "x86_64" THEN <<62, 200, 234, 424, 129, 297>>
                          ELSE <<129, 130, 131, 424, 138, 240>>

ProcessMemorySyscalls(machine) ==
    IF machine = "x86_64" THEN <<101, 310, 311>> ELSE <<117, 270, 271>>

IoUringSyscalls == <<425, 426, 427>>

PrlimitSyscall(machine) == IF machine = "x86_64" THEN 302 ELSE 261

PidfdDescriptorSyscalls == <<434, 438>>

KeyringSyscalls(machine) ==
    IF machine = "x86_64" THEN <<248, 249, 250>> ELSE <<217, 218, 219>>

-----------------------------------------------------------------------------
\* The filters. An instruction is a load of a word of seccomp_data, a
\* conditional jump relative to the next instruction, or a return.

Ld(field) == [op |-> "ld", jt |-> 0, jf |-> 0, k |-> field]
Jeq(value, jt, jf) == [op |-> "jeq", jt |-> jt, jf |-> jf, k |-> value]
Jset(bit, jt, jf) == [op |-> "jset", jt |-> jt, jf |-> jf, k |-> bit]
Ret(verdict) == [op |-> "ret", jt |-> 0, jf |-> 0, k |-> verdict]

\* Another architecture's numbers and x32's are refused before any number is
\* compared.
Prologue(machine) ==
    <<Ld("arch"), Jeq(machine, 1, 0), Ret("deny"), Ld("nr")>> \o
    (IF machine = "x86_64" THEN <<Jset(X32Bit, 0, 1), Ret("deny")>> ELSE <<>>)

\* A comparison and a refusal for each number.
DenyEach(numbers) ==
    [i \in 1..2 * Len(numbers) |->
        IF i % 2 = 1 THEN Jeq(numbers[(i + 1) \div 2], 0, 1) ELSE Ret("deny")]

\* A slip to detect: the jump offset counts the jump itself.
PrlimitBlockLong(machine) ==
    LET block == <<Ld("arg0"), Jeq(0, 1, 0), Ret("deny"), Ld("nr")>>
    IN  <<Jeq(PrlimitSyscall(machine), 0, Len(block) + 1)>> \o block

\* prlimit64 of the caller itself only (pid 0).
PrlimitBlock(machine) ==
    LET block == <<Ld("arg0"), Jeq(0, 1, 0), Ret("deny"), Ld("nr")>>
    IN  <<Jeq(PrlimitSyscall(machine), 0, Len(block))>> \o block

SocketBlock(machine) ==
    LET nr == SocketSyscalls(machine)
    IN  << Jeq(nr.socket, 0, 1), Ret("deny"),
           Jeq(nr.connect, 0, 1), Ret("deny"),
           Jeq(nr.socketpair, 0, 4), Ld("arg0"), Jeq(AF_UNIX, 0, 1),
           Ret("allow"), Ret("deny"), Ret("allow") >>

NetworkPolicy(machine) ==
    Prologue(machine)
    \o DenyEach(IoUringSyscalls \o SignalSyscalls(machine) \o ProcessMemorySyscalls(machine))
    \o PrlimitBlock(machine)
    \o SocketBlock(machine)

SensitiveHostHandlePolicy(machine) ==
    Prologue(machine)
    \o DenyEach(PidfdDescriptorSyscalls \o KeyringSyscalls(machine))
    \o <<Ret("allow")>>

-----------------------------------------------------------------------------
\* The kernel's interpreter. A call is [arch, nr, arg0]; the row of an instruction
\* is what the program answers from there on, for each word of the call that may
\* be in the accumulator, given the rows of the instructions it may lead to.

Fields == {"arch", "nr", "arg0"}

Holds(i, call, field) ==
    IF i.op = "jeq" THEN call[field] = i.k ELSE (call[field] \div i.k) % 2 = 1

Row(rows, program, call, pc) ==
    LET i == program[pc]
    IN  [field \in Fields |->
            IF i.op = "ret" THEN i.k
            ELSE IF i.op = "ld" THEN rows[pc + 1][i.k]
            ELSE rows[pc + 1 + (IF Holds(i, call, field) THEN i.jt ELSE i.jf)][field]]

Rows(program, call) ==
    LET rows[pc \in 1..Len(program)] == Row(rows, program, call, pc) IN rows

Execute(program, call) == Rows(program, call)[1]["arch"]

\* Of stacked filters the kernel takes the strictest answer.
Admitted(machine, call) ==
    /\ Execute(NetworkPolicy(machine), call) = "allow"
    /\ Execute(SensitiveHostHandlePolicy(machine), call) = "allow"

-----------------------------------------------------------------------------
\* Landlock. A path is a sequence of names; a rule grants rights beneath a
\* path, and to a path that is a file only the rights a file can have.

WriteRights == {"write_file", "remove", "make", "refer", "truncate"}
ReadRights == {"read_file", "read_dir"}
ReadExecRights == ReadRights \cup {"execute"}
FileRights == {"execute", "write_file", "read_file", "truncate"}

RightsFor(isFile, rights) == IF isFile THEN rights \cap FileRights ELSE rights

\* The rules of apply_landlock_policy for a process `self': declared roots that
\* do not exist are skipped, the process's own /proc directory is added.
Rules(readExec, read, writable, exists, files, self) ==
    LET granted(roots, rights) ==
            {[path |-> p, rights |-> RightsFor(p \in files, rights)] : p \in roots \cap exists}
    IN  granted(readExec, ReadExecRights)
        \cup granted(read, ReadRights)
        \cup granted(writable, ReadExecRights \cup WriteRights)
        \cup {[path |-> <<"proc", self>>, rights |-> ReadRights]}

Granted(rules, path, right) ==
    \E r \in rules : IsPrefix(r.path, path) /\ right \in r.rights

\* The roots run_probe declares: the exported source, the staged runtimes and
\* the system's own to read and execute, metadata of the system to read, four
\* private directories and the null device to write. Python's is_file() is false
\* of the random devices, so they are never declared.
SourceRoot == <<"work", "src">>
RustRuntime == <<"work", "rust-runtime">>
PythonRuntime == <<"work", "python-runtime">>
RustBin == RustRuntime \o <<"bin">>
Executable(probe) == (IF probe = "rust_all" THEN RustBin ELSE PythonRuntime) \o <<"exe">>

Private(name) == <<"quota", name>>
PrivateWritable == {Private(name) : name \in {"home", "cargo-home", "target", "tmp"}}
SystemReadExec == {<<"usr", "bin">>, <<"usr", "lib">>, <<"bin">>, <<"lib">>}
SystemRead == {<<"etc", "passwd">>, <<"etc", "hosts">>}
NullDevice == <<"dev", "null">>

ProbeRules(probe, exists, self) ==
    Rules({SourceRoot, Front(Executable(probe)), RustRuntime} \cup SystemReadExec, SystemRead,
          PrivateWritable \cup {NullDevice}, exists, SystemRead \cup {NullDevice}, self)

\* The environment of a probe: what names a place (constants left out).
ProbeEnvironment(probe) ==
    LET place == [ PATH |-> <<RustBin, PythonRuntime, <<"usr", "bin">>, <<"bin">>>>,
                   HOME |-> Private("home"), CARGO_HOME |-> Private("cargo-home"),
                   CARGO_TARGET_DIR |-> Private("target"), TMPDIR |-> Private("tmp"),
                   LD_LIBRARY_PATH |-> RustRuntime \o <<"lib">>,
                   RUSTC |-> RustBin \o <<"rustc">>, RUSTDOC |-> RustBin \o <<"rustdoc">> ]
        rust == {"RUSTC", "RUSTDOC"}
    IN  [name \in DOMAIN place \ (IF probe = "rust_all" THEN {} ELSE rust) |-> place[name]]

-----------------------------------------------------------------------------
(***************************************************************************)
(* How the child of a probe puts all this on itself before it executes.    *)
(***************************************************************************)

\* The status of the launcher: four user ids, four group ids, four sets of
\* capabilities (0 is none).
Unprivileged(status) ==
    /\ Cardinality(Range(status.uids)) = 1 /\ status.uids[1] # 0
    /\ Cardinality(Range(status.gids)) = 1 /\ status.gids[1] # 0
    /\ Range(status.capabilities) = {0}

RLIM_INFINITY == -1
CgroupProcs == <<"sys", "fs", "cgroup", "cgroup.procs">>

\* The lower of the ceiling and the hard limit there is.
LimitTarget(ceiling, hard) ==
    IF hard = RLIM_INFINITY \/ ceiling < hard THEN ceiling ELSE hard

PreexecOrder == <<"cgroup", "limits", "landlock", "seccomp">>

\* A step of the child, under the restrictions that are already in force; one
\* that fails ends the child.
Restricted(child, step, ceiling, hard) ==
    LET reaches(path, right) ==
            "landlock" \in child => Granted(ProbeRules("rust_all", PrivateWritable, "probe"), path, right)
        restrictSelf == [arch |-> "x86_64", nr |-> 444, arg0 |-> 0]
        works == /\ step = "cgroup" => reaches(CgroupProcs, "write_file")
                 /\ step = "limits" => LimitTarget(ceiling, hard) > 0
                 /\ step = "landlock" /\ "seccomp" \in child => Admitted("x86_64", restrictSelf)
    IN  IF "failed" \in child \/ ~works THEN {"failed"} ELSE child \cup {step}

\* The four steps, each under what the ones before it put on.
Preexec(status, ceiling, hard) ==
    LET after(child, i) == Restricted(child, PreexecOrder[i], ceiling, hard)
    IN  IF Unprivileged(status) THEN after(after(after(after({}, 1), 2), 3), 4) ELSE {"failed"}

-----------------------------------------------------------------------------
(***************************************************************************)
(* The file system the private directories are in (_tmpfs_root). A line of *)
(* mountinfo is a mount at a point; later lines are mounted over earlier.  *)
(***************************************************************************)

MaxCapacity == 2

\* The first line with the point names the type; the size, the owner and the
\* contents are those of what is on top.
TmpfsRoot(mounts, requireEmpty) ==
    LET top == mounts[Len(mounts)]
    IN  /\ mounts # <<>>
        /\ mounts[1].type = "tmpfs"
        /\ top.private
        /\ top.capacity \in 1..MaxCapacity
        /\ requireEmpty => top.empty

-----------------------------------------------------------------------------
(***************************************************************************)
(* What the two docstrings promise, against which the programs and the     *)
(* rules are compared.                                                     *)
(***************************************************************************)

SignalNumbers ==
    [x86_64 |-> {62, 129, 200, 234, 297, 424}, aarch64 |-> {129, 130, 131, 138, 240, 424}]

\* Names of the calls that are refused whatever their arguments are.
Named(machine, number) ==
    number \in SignalNumbers[machine] \cup Range(IoUringSyscalls)
              \cup Range(ProcessMemorySyscalls(machine))
              \cup Range(PidfdDescriptorSyscalls) \cup Range(KeyringSyscalls(machine))
              \cup {SocketSyscalls(machine).socket, SocketSyscalls(machine).connect}

Permitted(machine, call) ==
    /\ call.arch = machine
    /\ machine = "x86_64" => call.nr < X32Bit
    /\ ~Named(machine, call.nr)
    /\ call.nr = PrlimitSyscall(machine) => call.arg0 = 0
    /\ call.nr = SocketSyscalls(machine).socketpair => call.arg0 = AF_UNIX

\* Every number either machine's filter mentions, two it does not, and the x32
\* form of three.
Numbers ==
    (UNION {SignalNumbers[m] \cup Range(ProcessMemorySyscalls(m))
            \cup Range(KeyringSyscalls(m)) \cup {PrlimitSyscall(m)}
            \cup Range(SocketSyscalls(m)) : m \in Machines})
    \cup Range(IoUringSyscalls) \cup Range(PidfdDescriptorSyscalls) \cup {0, 56}
    \cup {X32Bit + 0, X32Bit + 41, X32Bit + 302}

Calls == [arch : Machines \cup {"i386"}, nr : Numbers, arg0 : {0, AF_UNIX, 2}]

Probes == {"rust_all", "phase8"}

Paths ==
    SystemReadExec \cup SystemRead \cup PrivateWritable
    \cup {root \o <<"x">> : root \in PrivateWritable \cup SystemReadExec \cup {SourceRoot}}
    \cup {<<"quota">>, <<"work">>, <<"etc", "shadow">>, NullDevice, <<"tmp">>, RustBin}
    \cup {<<"proc", p, "environ">> : p \in {Harness, "probe"}}

\* The calls the filters of a machine decide otherwise than the policy.
Misjudged == {q \in Machines \X Calls : Admitted(q[1], q[2]) # Permitted(q[1], q[2])}

\* The rights a probe has beyond its roots, or lacks beneath them, whether its
\* private directories exist or not; and those at the harness's /proc directory.
Misplaced ==
    LET exists(private) == IF private THEN Paths ELSE Paths \ PrivateWritable
        roots(q) == IF q[1] = NullDevice /\ q[2] \notin FileRights
                      THEN {}
                      ELSE (PrivateWritable \cup {NullDevice}) \cap exists(q[3])
    IN  {q \in Paths \X WriteRights \X BOOLEAN \X Probes :
            Granted(ProbeRules(q[4], exists(q[3]), "probe"), q[1], q[2])
              # (\E root \in roots(q) : IsPrefix(root, q[1]))}
        \cup {q \in {<<"proc", Harness, "environ">>} \X ReadExecRights \X {TRUE} \X Probes :
                Granted(ProbeRules(q[4], Paths, "probe"), q[1], q[2])}

\* The places of its environment a probe cannot use: where it works it must be
\* able to write, what it runs it must be able to execute, and not to write.
Unusable ==
    LET everything(probe) == {SourceRoot, RustRuntime, PythonRuntime, RustBin} \cup Paths
        may(probe, path, right) == Granted(ProbeRules(probe, everything(probe), "probe"), path, right)
        work == {"HOME", "CARGO_HOME", "CARGO_TARGET_DIR", "TMPDIR"}
        tools(probe) ==
            {Executable(probe), ProbeEnvironment(probe).LD_LIBRARY_PATH}
            \cup (IF probe = "rust_all"
                     THEN {ProbeEnvironment(probe).RUSTC, ProbeEnvironment(probe).RUSTDOC} ELSE {})
    IN  {q \in Probes \X work : ~may(q[1], ProbeEnvironment(q[1])[q[2]], "write_file")}
        \cup {q \in UNION {{p} \X tools(p) : p \in Probes} :
                ~may(q[1], q[2], "execute") \/ may(q[1], q[2], "write_file")}

Statuses ==
    [uids : [1..4 -> {0, 1}], gids : {<<0, 0, 0, 0>>, <<1, 1, 1, 1>>, <<1, 0, 1, 1>>},
     capabilities : {<<0, 0, 0, 0>>, <<0, 0, 0, 1>>}]

\* The launches that leave out a restriction, keep a limit above its ceiling, run
\* for somebody with a privilege, or fail for no reason.
Unrestrained ==
    {q \in Statuses \X {1, 2} \X {RLIM_INFINITY, 0, 1, 3} :
        LET child == Preexec(q[1], q[2], q[3])
            limit == LimitTarget(q[2], q[3])
            nobody == Range(q[1].uids) = {1} /\ Range(q[1].gids) = {1} /\ Range(q[1].capabilities) = {0}
        IN  IF nobody /\ q[3] # 0
              THEN child # Range(PreexecOrder) \/ limit \notin 1..q[2] \/ q[3] \in 1..(limit - 1)
              ELSE child # {"failed"}}

\* The roots that are accepted and may be filled beyond the bound, or, where
\* nothing is mounted over them, are on a disk.
Unbounded ==
    LET mount == [type : {"tmpfs", "ext4"}, capacity : 0..MaxCapacity + 1, private : BOOLEAN, empty : BOOLEAN]
    IN  {q \in (UNION {[1..n -> mount] : n \in 1..2}) \X BOOLEAN :
            LET top == q[1][Len(q[1])]
            IN  /\ TmpfsRoot(q[1], q[2])
                /\ \/ top.capacity > MaxCapacity \/ ~top.private
                   \/ Len(q[1]) = 1 /\ top.type # "tmpfs"
                   \/ q[2] /\ ~top.empty}

\* What the docstrings and the constants promise of every probe.
AsPromised ==
    /\ Misjudged = {} /\ Misplaced = {} /\ Unusable = {}
    /\ Unrestrained = {} /\ Unbounded = {}
=============================================================================
