----------------------------- MODULE NexusAdapter -----------------------------
(***************************************************************************)
(* The live adapter to QSOL-NEXUS (tools/nexus_live_adapter.py): the       *)
(* attestation of the checkout whose verifier it loads, the verification of*)
(* an export by it, and the projection of the export to a source manifest  *)
(* and council reports.                                                    *)
(*                                                                         *)
(* A text stands for what it is after Unicode NFC and for whether the      *)
(* scrubber of NEXUS finds a secret in it; the spellings of a text that    *)
(* are not normalized are texts too.                                       *)
(***************************************************************************)
EXTENDS Integers, FiniteSets, SequencesExt

CONSTANTS
    Refused,    \* fail(..): SystemExit
    Nothing     \* no such file, line, key or value

MaxReports == 2
MaxCouncilMembers == 2
MaxMinorities == 1

-----------------------------------------------------------------------------
\* The checkout.

Pinned == "pinned"      \* NEXUS_PINNED_COMMIT, and of a file the pinned blob
AttestedFiles == {"persistent_world", "scrub"}

\* A slip to detect: the packed refs, which may be stale, are looked at first.
PackedFirst(checkout) ==
    LET lines == SelectSeq(checkout.packed, LAMBDA l : l.name = checkout.ref)
    IN  IF checkout.ref = Nothing THEN checkout.head
        ELSE IF lines # <<>> THEN lines[1].commit
        ELSE IF checkout.loose = Nothing THEN Refused ELSE checkout.loose

\* HEAD names a commit or a reference; a reference is a file of its own, or the
\* first line of packed-refs that has its name and a commit. A file that holds no
\* commit is not passed over for a line.
GitHead(checkout) ==
    LET lines == {i \in DOMAIN checkout.packed : /\ checkout.packed[i].name = checkout.ref
                                                 /\ checkout.packed[i].commit # "garbage"}
        first == CHOOSE i \in lines : \A j \in lines : i <= j
    IN  IF checkout.ref = Nothing THEN checkout.head
        ELSE IF checkout.loose = "garbage" THEN Refused
        ELSE IF checkout.loose # Nothing THEN checkout.loose
        ELSE IF lines = {} THEN Refused
        ELSE checkout.packed[first].commit

Attested(checkout) ==
    /\ GitHead(checkout) = Pinned
    /\ \A f \in AttestedFiles : checkout.blob[f] = Pinned

\* The verifier is imported once in a process, whatever became of the first try;
\* it is what the files hold then, and comes from where it was attested.
LoadsRuntime(checkout, loaded) ==
    /\ Attested(checkout)
    /\ ~loaded
    /\ checkout.importPath = "package"

-----------------------------------------------------------------------------
\* The verification. The verifier is given a copy of the bundle, which it may
\* change; its answer is compared with that copy.

Refs(bundle) == [i \in DOMAIN bundle.objects |-> bundle.objects[i].id]

Verified(copy, answer) ==
    /\ answer.status = "verified"
    /\ answer.bundleRef = copy.bundleRef
    /\ answer.count = copy.count
    /\ answer.refs = Refs(copy)

-----------------------------------------------------------------------------
\* The projection, of the bundle as it was read.

\* Decomposed spellings; "s~" is a secret only once it is composed.
Nfc(text) == CASE text = "a~" -> "a" [] text = "s~" -> "s" [] OTHER -> text
ScrubberChanges(text) == text = "s"
TooLong(text) == text = "long"

\* A slip to detect: the scrubber sees the text as it was given.
ScrubbedAsGiven(text) ==
    IF text = Nothing \/ TooLong(Nfc(text)) \/ ScrubberChanges(text) THEN Refused ELSE Nfc(text)

\* A text is there, and within its bound and free of secrets once normalized.
NfcText(text) ==
    IF text = Nothing \/ TooLong(Nfc(text)) \/ ScrubberChanges(Nfc(text)) THEN Refused ELSE Nfc(text)

\* No member weighs more than another in NEXUS; nothing of it is inherited.
MemberOf(raw) ==
    IF raw.weight # 1 \/ raw.privileged THEN Refused ELSE NfcText(raw.id)

\* The refs of an export are objects, its head is a world manifest or null.
SourceManifest(bundle, answer) ==
    IF \/ bundle.schema # "export/1"
       \/ answer.refs = <<>>
       \/ \E r \in Range(answer.refs) : r.kind # "object"
       \/ bundle.head \notin {Nothing, "world-manifest"}
      THEN Refused
      ELSE [bundleRef |-> answer.bundleRef, head |-> bundle.head, refs |-> answer.refs]

\* The minority reports of a session: each by a member of this session.
MinorityReports(raw, members) ==
    LET report(r) == [member |-> NfcText(r.member), choice |-> NfcText(r.choice),
                      rationale |-> NfcText(r.rationale)]
    IN  IF \/ Len(raw) > MaxMinorities
           \/ \E r \in Range(raw) :
                 Refused \in {report(r).choice, report(r).rationale} \/ report(r).member \notin members
          THEN Refused
          ELSE [i \in DOMAIN raw |-> report(raw[i])]

\* A session whose result has no evidence state has one that is unspecified.
CouncilReport(session, answer) ==
    LET members == [i \in DOMAIN session.roster |-> MemberOf(session.roster[i])]
        evidence == IF session.evidence = Nothing THEN "UNSPECIFIED" ELSE NfcText(session.evidence)
        minority == MinorityReports(session.minority, Range(members))
    IN  IF \/ session.id \notin Range(answer.refs)
           \/ members = <<>> \/ Len(members) > MaxCouncilMembers
           \/ Refused \in Range(members)
           \/ ~IsInjective(members)    \* one member, two spellings
           \/ Refused \in {evidence, NfcText(session.session)}
           \/ session.question = Nothing
           \/ minority = Refused
          THEN Refused
          ELSE [session |-> session.id, name |-> NfcText(session.session), members |-> members,
                evidence |-> evidence, minority |-> minority]

\* Where in an export there are sessions; a report of each stands in its place.
CouncilSessions(bundle) == {i \in DOMAIN bundle.objects : bundle.objects[i].type = "council_session"}

CouncilReports(bundle, answer) ==
    LET sessions == CouncilSessions(bundle)
        reports == [i \in sessions |-> CouncilReport(bundle.objects[i], answer)]
    IN  IF Refused \in Range(reports) \/ Cardinality(sessions) > MaxReports THEN Refused ELSE reports

\* verified_projection.
Projection(checkout, loaded, bundle, copy, answer) ==
    LET source == SourceManifest(bundle, answer)
        reports == CouncilReports(bundle, answer)
    IN  IF \/ ~LoadsRuntime(checkout, loaded)
           \/ ~Verified(copy, answer)
           \/ source = Refused \/ reports = Refused
          THEN Refused
          ELSE [source |-> source, reports |-> reports]

-----------------------------------------------------------------------------
(***************************************************************************)
(* What is promised: "verifies the complete export first", and the reports *)
(* say of a council what its session says.                                 *)
(***************************************************************************)

\* The commit git itself would answer: a reference's own file is newer.
CommitOfGit(checkout) ==
    IF checkout.ref = Nothing THEN checkout.head
    ELSE IF checkout.loose # Nothing THEN checkout.loose
    ELSE LET of == {l \in Range(checkout.packed) : l.name = checkout.ref}
         IN  IF of = {} THEN Nothing ELSE (CHOOSE l \in of : TRUE).commit

PackedLines == {[name |-> "main", commit |-> Pinned], [name |-> "main", commit |-> "other"],
                [name |-> "topic", commit |-> Pinned]}

Checkouts ==
    [ref : {"main", Nothing}, head : {Pinned, "other"}, loose : {Nothing, Pinned, "other", "garbage"},
     packed : {<<>>} \cup {<<l>> : l \in PackedLines},
     blob : [AttestedFiles -> {Pinned, "other"}], importPath : {"package", "elsewhere"}]

Sound == [ref |-> Nothing, head |-> Pinned, loose |-> Nothing, packed |-> <<>>,
          blob |-> [f \in AttestedFiles |-> Pinned], importPath |-> "package"]

Ref(n) == [kind |-> "object", n |-> n]
RawMembers == [id : {"a", "a~", "b", "s~"}, weight : {1}, privileged : {FALSE}]
              \cup {[id |-> Nothing, weight |-> 1, privileged |-> FALSE],
                    [id |-> "b", weight |-> 2, privileged |-> FALSE],
                    [id |-> "b", weight |-> 1, privileged |-> TRUE]}
Rosters == (UNION {[1..n -> RawMembers] : n \in 0..2})
           \cup {[i \in 1..3 |-> [id |-> <<"a", "b", "c">>[i], weight |-> 1, privileged |-> FALSE]]}
RawMinorities == {<<>>} \cup
    {<<[member |-> m, choice |-> said[1], rationale |-> said[2]]>> :
       m \in {"a", "a~", "b"},
       said \in {<<"b", "a~">>, <<"s~", "a~">>, <<"b", "long">>}}

Sessions ==
    [type : {"council_session"}, id : {Ref(1)}, session : {"a"}, question : {Ref(3)},
     roster : Rosters, evidence : {Nothing, "s~", "b"}, minority : RawMinorities]
Minutes ==
    [type |-> "council_session", id |-> Ref(2), session |-> "a~", question |-> Ref(3),
     roster |-> <<[id |-> "a~", weight |-> 1, privileged |-> FALSE]>>,
     evidence |-> Nothing, minority |-> <<>>]
World == [type |-> "world", id |-> Ref(2)]

Bundle(objects) ==
    [schema |-> "export/1", head |-> Nothing, bundleRef |-> "b1", count |-> Len(objects),
     objects |-> objects]
Answer(bundle) ==
    [status |-> "verified", bundleRef |-> bundle.bundleRef, count |-> bundle.count,
     refs |-> Refs(bundle)]

\* The verifier answers of all objects, or has dropped the first from its copy.
Exports ==
    {[bundle |-> Bundle(objects[1]), copy |-> Bundle(objects[2])] :
       objects \in UNION {{<<<<s>>, <<s>>>>, <<<<s, World>>, <<World>>>>, <<<<Minutes, s>>, <<Minutes, s>>>>,
                            <<<<s, Minutes, Minutes>>, <<s, Minutes, Minutes>>>>} : s \in Sessions}}

\* What a plain council is projected to.
Texts == {"a", "b"}
Dissents == [member : Texts, choice : Texts, rationale : Texts]
Reports ==
    [session : {Ref(1)}, name : Texts, members : [1..2 -> Texts], evidence : Texts,
     minority : UNION {[1..n -> Dissents] : n \in 0..1}]
Sources == [bundleRef : {"b1"}, head : {Nothing}, refs : [{1} -> {Ref(1)}]]
Projections == [source : Sources, reports : [{1} -> Reports]]

\* A text in normal form, with no secret in it and within its bound.
SoundText(text) == Nfc(text) = text /\ ~ScrubberChanges(text) /\ ~TooLong(text)

\* The report of a session says who its members are, one for one, in normal form
\* and with no secret, and lets nobody else dissent.
Faithful(report, session, copy) ==
    /\ report.session = session.id /\ session.id \in Range(Refs(copy))
    /\ Len(report.members) = Len(session.roster)
    /\ \A i \in DOMAIN session.roster :
          /\ report.members[i] = Nfc(session.roster[i].id)
          /\ session.roster[i].weight = 1
          /\ \A j \in DOMAIN session.roster : i # j => report.members[i] # report.members[j]
    /\ \A r \in Range(report.minority) :
          /\ r.member \in Range(report.members)
          /\ SoundText(r.choice) /\ SoundText(r.rationale)
    /\ SoundText(report.evidence) /\ SoundText(report.name)
    /\ \A m \in Range(report.members) : SoundText(m)

\* A projection that says anything else of an export than what the verifier saw.
Distorts(p, bundle, copy) ==
    LET sessions == CouncilSessions(bundle)
    IN  \/ DOMAIN p.reports # sessions
        \/ \E i \in sessions : ~Faithful(p.reports[i], bundle.objects[i], copy)
        \/ p.source.refs # Refs(copy)

Distorted ==
    {e \in Exports :
        LET p == Projection(Sound, FALSE, e.bundle, e.copy, Answer(e.copy))
        IN  p # Refused /\ Distorts(p, e.bundle, e.copy)}

\* A plain council of two, with one that dissents, is reported.
Withheld ==
    {e \in Exports :
        /\ e.copy = e.bundle /\ Len(e.bundle.objects) = 1
        /\ LET s == e.bundle.objects[1]
           IN  /\ s.roster = <<[id |-> "a~", weight |-> 1, privileged |-> FALSE],
                               [id |-> "b", weight |-> 1, privileged |-> FALSE]>>
               /\ s.evidence = "b"
               /\ s.minority \in {<<>>, <<[member |-> "a", choice |-> "b", rationale |-> "a~"]>>}
        /\ Projection(Sound, FALSE, e.bundle, e.copy, Answer(e.copy)) = Refused}

\* A verifier that is not the pinned one, of a commit that is not checked out, or
\* that was there before, answers for nothing.
IsPinned(checkout, loaded) ==
    /\ CommitOfGit(checkout) = Pinned /\ ~loaded
    /\ \A f \in AttestedFiles : checkout.blob[f] = Pinned

Unattested == {q \in Checkouts \X BOOLEAN : LoadsRuntime(q[1], q[2]) /\ ~IsPinned(q[1], q[2])}

FaithfulProjection == Distorted = {} /\ Withheld = {} /\ Unattested = {}
=============================================================================
