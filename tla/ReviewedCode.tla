----------------------------- MODULE ReviewedCode -----------------------------
(***************************************************************************)
(* What code a probe runs: the Cargo manifest of the exported source       *)
(* (validate_rust_target_topology, tools/run_moriarty.py), the registry    *)
(* archives that reach the probe's Cargo home (tools/moriarty_isolation.py)*)
(* and the modules a Python validator imports (PYTHON_PROBE_BOOTSTRAP).    *)
(*                                                                         *)
(* An archive stands for its own SHA-256 digest. What Cargo and Python do  *)
(* with what they are given is at the end.                                 *)
(***************************************************************************)
EXTENDS Integers, FiniteSets, SequencesExt

CONSTANTS
    Refused,    \* what a function that fails returns
    Nothing     \* no file, no checksum, no module

-----------------------------------------------------------------------------
(***************************************************************************)
(* The manifest of the repository. Of a dependency table only the kinds of *)
(* its entries matter: from the registry, or by a path.                    *)
(***************************************************************************)

Tables == {"dependencies", "dev-dependencies", "build-dependencies"}
Selectors == {"always", "target"}   \* [target.'cfg(..)'] tables are walked too
ReviewedBins == {"qsol-fed", "qsol-fed-bundle", "qsol-fed-oracle", "qsol-fed-sdk-conformance"}

HasPathDependency(m) == "path" \in UNION {m.tables[t] : t \in Selectors \X Tables}

\* build.rs is refused even where the manifest says build = false.
HasExecutionHook(m) ==
    \/ m.build = "script" \/ m.buildFile
    \/ m.links
    \/ m.overrides                          \* [patch], [replace]
    \/ HasPathDependency(m)
    \/ \E s \in Selectors : m.tables[<<s, "build-dependencies">>] # {}

AcceptsTopology(m) ==
    /\ m.configs = {}                       \* .cargo/config and config.toml
    /\ m.name = "qsol-fed"
    /\ ~HasExecutionHook(m)
    /\ m.auto                               \* autolib, autobins, ... are not off
    /\ ~m.explicit                          \* [lib], [[bin]], ..., [workspace]
    /\ m.lib = "file"
    /\ {b \in DOMAIN m.bins : m.bins[b] = "file"} = ReviewedBins

-----------------------------------------------------------------------------
(***************************************************************************)
(* The registry archives. A cache has two namespaces (directories of       *)
(* registries) and in each at most one file a package.                     *)
(***************************************************************************)

Namespaces == <<"index-a", "index-b">>
File(archive) == [kind |-> "file", archive |-> archive]
Link(archive) == [kind |-> "link", archive |-> archive]

MaxIndexEntries == 3
MaxIndexDepth == 1

\* A walk that meets a link or a special file ends the copy, and so does one
\* that passes a bound, where there are bounds.
CopyTree(tree, bounded) ==
    IF \/ \E e \in tree : e.kind = "link"
       \/ bounded /\ \/ Cardinality(tree) > MaxIndexEntries
                     \/ \E e \in tree : e.depth > MaxIndexDepth
      THEN Refused ELSE tree

\* Entries of the lock file that are not of a registry are passed over; one of a
\* registry has a checksum; there is at least one.
LockedPackages(lock) ==
    LET registry == {p \in DOMAIN lock : lock[p].source = "registry"}
    IN  IF registry = {} \/ \E p \in registry : lock[p].checksum = Nothing
          THEN Refused ELSE registry

\* The places in Namespaces that have a file of a package, and those that have
\* the one of the lock file.
Candidates(cache, p) == {i \in DOMAIN Namespaces : cache[<<Namespaces[i], p>>] # Nothing}
Matching(cache, lock, p) ==
    {i \in DOMAIN Namespaces : cache[<<Namespaces[i], p>>] = File(lock[p].checksum)}

\* A slip to detect: only a script named in the manifest is a hook.
NamedHookOnly(archive) ==
    /\ archive.shape = "sound"
    /\ archive.build = "script" \/ archive.links

\* A build script is named in the manifest, or is there by its name and not
\* disowned; `links' announces one. What is no archive declares nothing.
DeclaresBuildHook(archive) ==
    /\ archive.shape = "sound"
    /\ \/ archive.build = "unset" /\ archive.buildFile
       \/ archive.build = "script"
       \/ archive.links

\* Of the archives the lock file names and the cache has, those that run code
\* when they are built and that nobody reviewed. An archive that does not keep
\* to its own directory, or has no manifest, ends the scan.
Unapproved(cache, lock, trusted) ==
    LET selected == {p \in LockedPackages(lock) : Matching(cache, lock, p) # {}}
    IN  IF \E p \in selected : lock[p].checksum.shape = "unsound"
          THEN Refused
          ELSE {p \in selected : /\ DeclaresBuildHook(lock[p].checksum)
                                 /\ <<p, lock[p].checksum>> \notin trusted}

\* The immutable cache template: of each package the first archive that has the
\* checksum of the lock file. One the cache does not have is left out; one it
\* has under its name with another checksum ends the run.
Copied(cache, lock) ==
    LET packages == LockedPackages(lock)
    IN  IF \E p \in packages : Candidates(cache, p) # {} /\ Matching(cache, lock, p) = {}
          THEN Refused
          ELSE {[package |-> p, namespace |-> Namespaces[Min(Matching(cache, lock, p))],
                 archive |-> lock[p].checksum] :
                   p \in {q \in packages : Matching(cache, lock, q) # {}}}

\* The scan reads the cache, then the copy reads it again.
VerifiedTemplate(scanned, copied, index, lock, trusted) ==
    IF \/ LockedPackages(lock) = Refused
       \/ Unapproved(scanned, lock, trusted) # {}
       \/ CopyTree(index, TRUE) = Refused
       \/ Copied(copied, lock) = Refused
      THEN Refused
      ELSE [archives |-> Copied(copied, lock), index |-> index, configs |-> {}]

\* Settings of the harness, and nothing the user configured.
OwnedConfig == {"net.offline", "build.rustflags"}

IsolatedCargoHome(template) ==
    IF template = Refused \/ template.configs # {} \/ CopyTree(template.index, FALSE) = Refused
      THEN Refused
      ELSE [template EXCEPT !.configs = OwnedConfig]

\* _fresh_cargo_home: every probe gets a home of its own, and only rust_all one
\* with archives.
FreshCargoHome(probe, template) ==
    IF probe = "rust_all" THEN IsolatedCargoHome(template)
                          ELSE [archives |-> {}, index |-> {}, configs |-> {}]

-----------------------------------------------------------------------------
(***************************************************************************)
(* The modules of a Python validator. Module names: one of the standard    *)
(* library, a submodule of it, one of the repository's tools, one that is  *)
(* installed on the host.                                                  *)
(***************************************************************************)

StandardLibrary == {"json"}
Dotted == {"json.decoder"}
ModuleNames == StandardLibrary \cup Dotted \cup {"qsol_canonical", "installed"}

\* What of sys.path is left when the bootstrap has removed the source from it.
OnModulePath(entry) == entry \notin {"", "root", "tools"}

\* A slip to detect: the finder answers for every name it has a file of.
ServesAnyName(name, tools) == name \in tools

\* ExactToolsFinder.find_spec.
FinderServes(name, tools) ==
    /\ name \notin Dotted \cup StandardLibrary
    /\ name \in tools

\* The finder is asked first, then every entry of the path in order; has[e] are
\* the names entry e can answer for.
Origin(name, tools, path, has) ==
    LET entries == {i \in DOMAIN path : OnModulePath(path[i]) /\ name \in has[path[i]]}
    IN  IF FinderServes(name, tools) THEN "tools"
        ELSE IF entries = {} THEN Nothing
        ELSE path[Min(entries)]

-----------------------------------------------------------------------------
(***************************************************************************)
(* The other side: what Cargo builds and runs before the tests, and what   *)
(* the checks are for.                                                     *)
(***************************************************************************)

\* Cargo's own rule, the same for every package: `build' names the script, or
\* build.rs is one unless the manifest says build = false.
RunsBuildScript(p) == p.build = "script" \/ (p.build = "unset" /\ p.buildFile)

\* Code that runs, or is built in place of a locked package, without being a
\* target of the reviewed package or a locked archive.
UnreviewedCode(m) ==
    (IF RunsBuildScript(m) THEN {"build script"} ELSE {})
    \cup (IF m.overrides THEN {"override"} ELSE {})
    \cup ((UNION {m.tables[t] : t \in Selectors \X Tables}) \ {"registry"})
    \cup m.configs

\* Cargo unpacks an archive of its home that has the locked checksum.
Built(home, lock) ==
    {a.package : a \in {b \in home.archives : b.archive = lock[b.package].checksum}}

Archives ==
    [shape : {"sound"}, build : {"unset", "disowned", "script"},
     buildFile : BOOLEAN, links : BOOLEAN]
    \cup [shape : {"unsound", "broken"}, build : {"unset"}, buildFile : {TRUE}, links : {FALSE}]

\* What is copied to a template, and templates and homes without an index.
Copies == [package : {"a", "b"}, namespace : Range(Namespaces), archive : Archives]
Homes == [archives : SUBSET Copies, index : {{}}, configs : {{}, OwnedConfig}]

Plain == [shape |-> "sound", build |-> "unset", buildFile |-> FALSE, links |-> FALSE]
Newer == [Plain EXCEPT !.build = "disowned"]

\* The dependency tables: the reviewed ones, with other entries in one of them.
DependencyTables ==
    {[t \in Selectors \X Tables |->
        IF t = e[1] THEN e[2]
        ELSE IF t[2] = "build-dependencies" THEN {} ELSE {"registry"}] :
       e \in (Selectors \X Tables) \X {{}, {"registry"}, {"registry", "path"}}}

Manifests ==
    [name : {"qsol-fed"}, build : {"unset", "disowned", "script"}, buildFile : BOOLEAN,
     links : BOOLEAN, overrides : BOOLEAN, configs : SUBSET {"config"},
     auto : {TRUE}, explicit : BOOLEAN, lib : {"file"},
     bins : {[b \in ReviewedBins |-> "file"]}, tables : DependencyTables]

Locks ==
    {[a |-> [source |-> "registry", checksum |-> x],
      b |-> [source |-> s, checksum |-> Plain]] : x \in Archives, s \in {"registry", "workspace"}}

\* Package b has its archive in the first namespace; a is in either, both or
\* none, with the locked contents or others, as a file or a link.
Caches(lock) ==
    {[f \in Range(Namespaces) \X {"a", "b"} |->
        IF f[2] = "a" THEN at[f[1]]
        ELSE IF f[1] = "index-a" THEN File(Plain) ELSE Nothing] :
       at \in [Range(Namespaces) ->
                 {Nothing, File(lock.a.checksum), Link(lock.a.checksum), File(Newer)}]}

\* The files of package a that are there when the cache is read again: some may
\* be gone. (That one appears is another matter: see the hazards.)
Later(cache) ==
    {[f \in DOMAIN cache |-> IF f \in gone THEN Nothing ELSE cache[f]] :
        gone \in SUBSET (Range(Namespaces) \X {"a"})}

Trust(lock) == {{}, {<<"a", lock.a.checksum>>}, {<<"b", lock.a.checksum>>}, {<<"a", Newer>>}}

Worlds ==
    UNION {UNION {[lock : {l}, trusted : Trust(l), scanned : {c}, copied : Later(c),
                   index : {{}, {[kind |-> "link", depth |-> 1]}}] : c \in Caches(l)} :
             l \in Locks}

Home(w) == FreshCargoHome("rust_all", VerifiedTemplate(w.scanned, w.copied, w.index, w.lock, w.trusted))

\* The manifests that are accepted and run code nobody reviewed.
Smuggled == {m \in Manifests : AcceptsTopology(m) /\ UnreviewedCode(m) # {}}

\* A probe's Cargo home that has a script nobody reviewed, leads elsewhere or is
\* configured by anybody else.
IsUnreviewed(home, lock, trusted) ==
    \/ home.configs # OwnedConfig
    \/ "link" \in {e.kind : e \in home.index}
    \/ \E p \in Built(home, lock) :
          /\ lock[p].checksum.shape # "broken"
          /\ RunsBuildScript(lock[p].checksum)
          /\ <<p, lock[p].checksum>> \notin trusted

Unreviewed == {w \in Worlds : Home(w) # Refused /\ IsUnreviewed(Home(w), w.lock, w.trusted)}

\* The worlds that are refused though no file of the cache is foreign to the
\* lock file and nothing of it runs when it is built.
Excluded ==
    {w \in Worlds :
        /\ Home(w) = Refused
        /\ w.index = {}
        /\ w.lock.a.checksum.shape # "unsound"
        /\ ~RunsBuildScript(w.lock.a.checksum) /\ ~w.lock.a.checksum.links
        /\ \A f \in DOMAIN w.copied : w.copied[f] \in {Nothing, File(w.lock[f[2]].checksum)}}

\* What sys.path may hold at first, and the names its entries can answer for when
\* the source has files of some names.
SearchPaths == {<<"", "lib", "site">>, <<"root", "tools", "lib", "site">>, <<"lib", "tools", "site">>}

Answers(source) ==
    [e \in {"", "root", "tools", "lib", "site"} |->
        IF e = "lib" THEN StandardLibrary \cup Dotted
        ELSE IF e = "site" THEN {"installed", "qsol_canonical"} ELSE source]

\* The modules that come from elsewhere than they were reviewed: one of the
\* standard library from the source tree, or a tool from the host.
Shadowed ==
    {q \in ModuleNames \X (SUBSET ModuleNames) \X SearchPaths :
        LET origin == Origin(q[1], q[2], q[3], Answers(q[2]))
        IN  IF q[1] \in StandardLibrary \cup Dotted
              THEN origin # "lib"
              ELSE (origin = "tools") # (q[1] \in q[2])}

\* No manifest, archive or module gets past the checks that they are for.
ReviewedOnly == Smuggled = {} /\ Unreviewed = {} /\ Excluded = {} /\ Shadowed = {}
=============================================================================
