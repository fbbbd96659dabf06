--------------------------- MODULE AssemblyReports ---------------------------
(***************************************************************************)
(* The Assembly and what it hears of the councils of QSOL-NEXUS: the       *)
(* reports the live adapter projects from a verified export.               *)
(***************************************************************************)
EXTENDS Assembly

CONSTANTS Refused, Nothing

Nexus == INSTANCE NexusAdapter

\* A projection that has failed returned nothing that a function returns, and
\* where there is nothing there is no text and no reference.
ASSUME NexusAssumption ==
    /\ Refused \notin Nexus!Texts /\ Refused # Nexus!Pinned
    /\ \A n \in 0..1 : Refused \notin [1..n -> Nexus!Dissents]
    /\ Refused \notin Nexus!Reports /\ Refused \notin [{1} -> Nexus!Reports]
    /\ Refused \notin Nexus!Sources /\ Refused \notin Nexus!Projections
    /\ Nothing \notin {"a", "a~", "b", Nexus!Ref(3)}

\* The Assembly hears of councils of NEXUS by the reports of the live adapter.
\* Whatever the checkout and the export, a report is only made by the pinned
\* verifier of the commit that is checked out, of a session the verifier saw; its
\* members are those of the session, one for one and under one spelling, those
\* who dissent are among them, and no text has a secret once it is normalized
\* (verified_projection: "verifies the complete export first"); a plain council
\* is not withheld.
ProjectsFaithfully == Init => Nexus!FaithfulProjection
=============================================================================
