------------------------------- MODULE Toolchain -------------------------------
(***************************************************************************)
(* Which Rust toolchain the runner pins (the module level of               *)
(* tools/run_moriarty.py and _direct_toolchain_root) and what it stages    *)
(* for the probes (stage_rust_toolchain_runtime).                          *)
(*                                                                         *)
(* A host has files in places: directories that are searched, toolchains   *)
(* rustup manages, others. A name is a file or a link to one; a file has an*)
(* inode, and is a tool of a toolchain or rustup, which stands in for any  *)
(* tool and runs the one its own settings choose.                          *)
(***************************************************************************)
EXTENDS Integers, FiniteSets, SequencesExt

CONSTANTS
    Refused,    \* the run has failed
    Nothing     \* there is nothing at a path, nothing is set or expected

SearchedPlaces == <<"system", "home">>
RustupToolchains == {"t1", "t2"}
Components == {"cargo", "rustc"}

\* The places that are the bin directory of a toolchain of their own.
ToolchainRoots == RustupToolchains \cup {"opt"}

-----------------------------------------------------------------------------
\* A file that may be run: regular, executable, outside the repository, below
\* directories only their owner writes to.
Trusted(file) == file # Nothing /\ file.safe

SameInode(left, right) == left.inode = right.inode

\* The first place of the search whose file may be run; the others are passed
\* over, one that is not safe too.
TrustedExecutable(host, name) ==
    LET found == {i \in DOMAIN SearchedPlaces : Trusted(host.at[<<SearchedPlaces[i], name>>])}
    IN  IF found = {} THEN Refused ELSE host.at[<<SearchedPlaces[Min(found)], name>>]

\* A path that is given: it is safe or the run fails.
TrustedExactPath(file) == IF Trusted(file) THEN file ELSE Refused

\* "rustup which --toolchain t component", resolved: a path in a managed
\* toolchain. (rustup itself is outside: it may answer any path.)
RustupWhich(host, component) ==
    LET file == host.which[component]
    IN  IF file = Nothing \/ file.place \notin RustupToolchains
          THEN Refused ELSE TrustedExactPath(file)

\* A slip to detect: the place of the tools is not compared with the sysroot.
AnySysroot(host, cargo, rustc) == host.sysroot \in ToolchainRoots

\* _direct_toolchain_root: what rustc says its sysroot is. A distribution's
\* (/usr) is refused; both tools lie in its bin directory, with rustdoc.
SelfContained(host, cargo, rustc) ==
    /\ host.sysroot \in ToolchainRoots
    /\ cargo.place = host.sysroot
    /\ rustc.place = host.sysroot
    /\ host.rustdoc

\* The tools and the root they are staged from. rustup is recognized by its
\* inode, so a copy of it is not; its tools must be pinned in one toolchain.
ByRustup(host, cargo, rustc, rustup) ==
    LET pinnedCargo == RustupWhich(host, "cargo")
        pinnedRustc == RustupWhich(host, "rustc")
    IN  IF \/ ~(SameInode(cargo, rustup) /\ SameInode(rustc, rustup))    \* mixed entry points
           \/ ~host.active
           \/ pinnedCargo = Refused \/ pinnedRustc = Refused
          THEN Refused
          ELSE IF \/ SameInode(pinnedCargo, rustup) \/ SameInode(pinnedRustc, rustup)
                  \/ pinnedCargo.place # pinnedRustc.place
                 THEN Refused
                 ELSE [cargo |-> pinnedCargo, rustc |-> pinnedRustc, root |-> pinnedCargo.place]

\* MORIARTY_RUST_TOOLCHAIN_ROOT names a toolchain: it is taken as it is.
BySnapshot(snapshot) ==
    LET tools == [c \in Components |-> TrustedExactPath(snapshot.bin[c])]
    IN  IF snapshot.inRepository \/ \E c \in Components : tools[c] = Refused
          THEN Refused
          ELSE [cargo |-> tools["cargo"], rustc |-> tools["rustc"], root |-> snapshot.root]

\* Otherwise rustup's, or one that is found by itself.
BySearch(host) ==
    LET cargo == TrustedExecutable(host, "cargo")
        rustc == TrustedExecutable(host, "rustc")
        rustup == TrustedExecutable(host, "rustup")
    IN  IF cargo = Refused \/ rustc = Refused THEN Refused
        ELSE IF rustup # Refused /\ (SameInode(cargo, rustup) \/ SameInode(rustc, rustup))
          THEN ByRustup(host, cargo, rustc, rustup)
        ELSE IF ~SelfContained(host, cargo, rustc) THEN Refused
        ELSE [cargo |-> cargo, rustc |-> rustc, root |-> host.sysroot]

\* A version the environment expects is compared with what the tool answers (its
\* place stands for it).
Discovered(host) ==
    LET t == IF host.snapshot # Nothing THEN BySnapshot(host.snapshot) ELSE BySearch(host)
    IN  IF t # Refused /\ \E c \in Components : host.expected[c] \notin {Nothing, t[c].place}
          THEN Refused ELSE t

-----------------------------------------------------------------------------
(***************************************************************************)
(* The staged runtime: the tree of the root, and in place of cargo and     *)
(* rustc what was pinned, whatever the root has under their names now.     *)
(***************************************************************************)

MaxStageEntries == 4

\* A slip to detect: only cargo is left to the pinned file.
WalkedButCargo(tree) == {e \in tree : e.name # "cargo"}

\* Of the walked files those of bin/ that were pinned are passed over, which the
\* bounds count all the same.
Walked(tree) == {e \in tree : ~(e.dir = "bin" /\ e.name \in Components)}

\* A file that is staged is created: a name that is taken ends the run. So does
\* a directory that is a link, a subtree that is missing, one entry too many.
StagedRuntime(tree, pinned) ==
    LET tools == {[dir |-> "bin", name |-> c, data |-> pinned[c]] : c \in Components}
        names == {<<e.dir, e.name>> : e \in Walked(tree)}
    IN  IF \/ \E e \in tree : e.data = "link"
           \/ \E d \in {"bin", "lib"} : \A e \in tree : e.dir # d
           \/ Cardinality(tree) + Cardinality(tools) > MaxStageEntries + Cardinality(Components)
           \/ \E c \in Components : <<"bin", c>> \in names
           \/ <<"bin", "rustdoc">> \notin names
          THEN Refused
          ELSE Walked(tree) \cup tools

-----------------------------------------------------------------------------
(***************************************************************************)
(* Hosts, and what the runner promises of the toolchain it reports on.     *)
(***************************************************************************)

Places == {"system", "home", "t1", "t2", "opt", "usr", "ci"}
Files == [place : Places, inode : Places \cup {"rustup", "copy"}, kind : {"tool", "rustup"},
          safe : BOOLEAN]

\* What is pinned, what is handed over, what is staged.
Pins == [cargo : Files, rustc : Files, root : Places]
Snapshots == [root : {"ci"}, inRepository : BOOLEAN, bin : [Components -> Files]]
StagedFiles ==
    [dir : {"bin", "lib"}, name : {"cargo", "rustc", "rustdoc", "std"}, data : {"now", "pinned"}]

Tool(place) == [place |-> place, inode |-> place, kind |-> "tool", safe |-> TRUE]
Unsafe(place) == [place |-> place, inode |-> place, kind |-> "tool", safe |-> FALSE]

\* rustup in a place: the same file, or a copy with an inode of its own.
Rustup(place) == [place |-> place, inode |-> "rustup", kind |-> "rustup", safe |-> TRUE]
RustupCopy(place) == [place |-> place, inode |-> "copy", kind |-> "rustup", safe |-> TRUE]

\* Something of each sort at the searched places, on what rustup and rustc
\* answer: a tool knows its own root, rustup that of the toolchain it chooses.
Entries ==
    {Nothing, Rustup("home"), RustupCopy("home"), Tool("opt"), Tool("usr"), Unsafe("home")}

SysrootOf(file) ==
    IF file = Refused \/ file.kind = "rustup" THEN RustupToolchains ELSE {file.place}

SearchHosts ==
    UNION {
      LET at == [q \in Range(SearchedPlaces) \X (Components \cup {"rustup"}) |->
                   IF q[2] = "cargo" THEN (IF q[1] = "system" THEN e[1] ELSE e[2])
                   ELSE IF q[2] = "rustc" THEN (IF q[1] = "system" THEN e[3] ELSE e[1])
                   ELSE (IF q[1] = "home" THEN e[4] ELSE Nothing)]
      IN  [at : {at},
           which : [Components -> {Nothing, Tool("t1"), Tool("t2"), Tool("opt"), Rustup("t1")}],
           snapshot : {Nothing}, expected : {[c \in Components |-> Nothing]},
           sysroot : SysrootOf(TrustedExecutable([at |-> at], "rustc")),
           active : BOOLEAN, rustdoc : BOOLEAN] :
      e \in Entries \X {Nothing, Rustup("home"), Tool("opt")} \X Entries
              \X {Nothing, Rustup("home")}}

\* And hosts that hand over a snapshot, which holds tools and not rustup.
Hosts ==
    SearchHosts
    \cup [at : {CHOOSE at \in {h.at : h \in SearchHosts} : TRUE},
          which : {[c \in Components |-> Tool("t1")]}, sysroot : {"opt"},
          active : {TRUE}, rustdoc : {TRUE},
          snapshot : [root : {"ci"}, inRepository : BOOLEAN,
                      bin : [Components -> {Tool("ci"), Unsafe("ci")}]],
          expected : [Components -> {Nothing, "ci", "t1"}]]

\* Two tools that may be run, of the root that is staged and of what is expected.
OfOneRoot(t, expected) ==
    \A c \in Components :
        /\ t[c].safe /\ t[c].place = t.root
        /\ expected[c] \in {Nothing, t.root}

\* The hosts on which something else than two tools of one toolchain is pinned.
Mispinned ==
    {h \in Hosts :
        LET t == Discovered(h)
        IN  t # Refused /\ ~(OfOneRoot(t, h.expected) /\ \A c \in Components : t[c].kind = "tool")}

\* A host with one toolchain and rustup before it, or none, is accepted.
Plainly ==
    {h \in Hosts :
        /\ h.snapshot = Nothing /\ h.active /\ h.rustdoc
        /\ h.which \in {[c \in Components |-> Tool(t)] : t \in RustupToolchains}
        /\ \E f \in {Rustup("home"), Tool("opt")} :
              \A c \in Components : TrustedExecutable(h, c) = f
        /\ TrustedExecutable(h, "rustup") # Refused
        /\ Discovered(h) = Refused}

Trees ==
    SUBSET ([dir : {"bin"}, name : {"cargo", "rustc", "rustdoc"}, data : {"now"}]
            \cup [dir : {"lib"}, name : {"std", "cargo"}, data : {"now", "link"}])

\* A runtime whose tools are the pinned ones, and whose other files the tree's.
IsStagedOf(runtime, tree, pinned) ==
    /\ {e \in runtime : e.dir = "bin" /\ e.name \in Components}
         = {[dir |-> "bin", name |-> c, data |-> pinned[c]] : c \in Components}
    /\ {e \in runtime : e.dir = "lib"} = {e \in tree : e.dir = "lib"}
    /\ "link" \notin {e.data : e \in tree}

\* The trees from which something else is staged, or from which a small and
\* complete one is not.
Misstaged ==
    {tree \in Trees :
        LET pinned == [c \in Components |-> "pinned"]
            runtime == StagedRuntime(tree, pinned)
            small == /\ Cardinality(tree) <= MaxStageEntries
                     /\ "link" \notin {e.data : e \in tree}
                     /\ {"rustdoc", "std"} \subseteq {e.name : e \in tree}
        IN  IF runtime = Refused THEN small ELSE ~IsStagedOf(runtime, tree, pinned)}

OneToolchain == Mispinned = {} /\ Plainly = {} /\ Misstaged = {}
=============================================================================
