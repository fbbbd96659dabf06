------------------------------- MODULE MCStaging -------------------------------
(***************************************************************************)
(* An instance of Staging for TLC: two files and a few writes.             *)
(***************************************************************************)
EXTENDS Staging, TLC

CONSTANT MaxWrites

MCContents == {<<1, 1>>, <<0, 1>>}
MCReviewed == <<1, 1>>

\* One file is read, with at most MaxWrites changes meanwhile: what happens
\* before it is one of the initial states, and what happens to a file that is
\* neither open nor at the name is in Replace. A file that takes the name has
\* the first stamp or the last.
Bound ==
    /\ clock' - Epoch <= MaxWrites
    /\ pc = "idle" => UNCHANGED disk
    /\ pc \notin {"refused", "accepted"}
    /\ \A o \in Object :
          file'[o] # file[o] =>
             IF path' = path THEN o \in {path, fd} ELSE file'[o].mtime \in {0, clock}

\* The file that is not at the name holds the reviewed bytes: Replace gives it others.
MCInit == Init /\ \A o \in Object \ {path} : file[o].data = Reviewed

MCNext == Next /\ Bound
Symmetric == Permutations(Object)
MCSpec == MCInit /\ [][MCNext]_vars
=============================================================================
