---------------------------- MODULE EvidencePolicy ----------------------------
(***************************************************************************)
(* What an RCA's answer may claim (internal/report): Parse takes the       *)
(* answer's last usable structured block, and the evidence policy bounds   *)
(* its confidence by what the analysis got back, from three signals: the   *)
(* retrieval the model declares, its missingContext lines, and the results *)
(* its tools returned.                                                     *)
(*                                                                         *)
(* A text is what the policy's patterns find in it; a confidence is a      *)
(* percentage.  Wording and the banner are left out.                       *)
(***************************************************************************)
EXTENDS Integers, SequencesExt

CONSTANTS
    Tools,          \* the names of the agent's tools
    ToolClass,      \* the evidence class of each
    Scopes,         \* what a model may write for the scope of a read
    MaxEntries,     \* the entries read of any list (64)
    MaxRefs,        \* the evidenceRefs read of a step (32)
    MaxLedger,      \* the entries of a retrieval ledger (32)
    MaxContext      \* the lines of missingContext (64)

Classes == {"k8s", "logs", "metrics", "repo", "other"}
Outcomes == {"success", "empty", "errored", "denied"}

ASSUME PolicyAssumption ==
    /\ ToolClass \in [Tools -> Classes]
    /\ MaxEntries \in Nat \ {0} /\ MaxLedger \in Nat \ {0} /\ MaxRefs \in Nat
    /\ MaxContext \in Nat /\ MaxContext >= 3 /\ MaxEntries <= MaxContext

NaN == -1           \* a declared "nan": it compares with no ceiling
Unstated == -2
Confidences == 0 .. 100 \cup {NaN, Unstated}
NoCap == 101

\* What the patterns find: a refusal, whom it names, the first person, an error, emptiness.
Text == [denial : BOOLEAN, names : {"nobody", "analyzer", "another"}, selfRef : BOOLEAN,
         error : BOOLEAN, empty : BOOLEAN]
ToolResult == [name : Tools, payload : Text, failed : BOOLEAN]
Entry == [source : Classes, scope : Tools \cup Scopes \cup {"missingContext"}, outcome : Outcomes]

\* The structured block: of each source whether it has a ref or an excerpt, of each step whether it
\* has a statement, of each line of missingContext whether it is word for word the sentence the
\* policy makes, the usable scripts, and how many of rollback and applyAction were left out.
IsBlock(b) ==
    /\ b.sources \in Seq(BOOLEAN) /\ b.trace \in Seq([statement : BOOLEAN, refs : Seq(Int)])
    /\ b.resources \in BOOLEAN /\ b.assumptions \in BOOLEAN
    /\ b.root \in BOOLEAN /\ b.confidence \in Confidences
    /\ b.retrieval \in Seq([source : Classes, scope : Scopes, words : Text,
                            outcome : Outcomes \cup {"unrecognized"}])
    /\ b.missingContext \in Seq([class : Classes, line : Text, gap : BOOLEAN])
    /\ b.scripts \subseteq {"precondition", "apply", "verify"} /\ b.notes \in 0 .. 2

Cut(s, n) == SubSeq(s, 1, IF Len(s) < n THEN Len(s) ELSE n)
MapSeq(s, F(_)) == [k \in DOMAIN s |-> F(s[k])]

-----------------------------------------------------------------------------
(* The retrieval ledger. *)

\* A refusal is the analyzer's own when it names the analyzer, or nobody in the first person.
selfDenial(t) == t.denial /\ (t.names = "analyzer" \/ (t.names = "nobody" /\ t.selfRef))

classifyOutcome(t) ==
    IF selfDenial(t) THEN "denied" ELSE IF t.error THEN "errored" ELSE IF t.empty THEN "empty" ELSE "success"

\* A call that did not fail returned data: only a refusal of the analyzer by name counts.
toolSuccessOutcome(t) ==
    IF t.denial /\ t.names = "analyzer" THEN "denied" ELSE IF t.empty THEN "empty" ELSE "success"

toolOutcome(t) ==
    IF ~t.failed THEN toolSuccessOutcome(t.payload) ELSE IF t.payload.denial THEN "denied" ELSE "errored"

\* An outcome the model made up is read off its words, never taken for a success.
declaredRetrieval(b) ==
    MapSeq(Cut(b.retrieval, MaxEntries),
           LAMBDA d : [source |-> d.source, scope |-> d.scope,
                       outcome |-> IF d.outcome \in Outcomes THEN d.outcome ELSE classifyOutcome(d.words)])

\* A line of missingContext that tells of no gap is no retrieval.
NoEntry == [source |-> "none"]
fromMissingContext(b) ==
    MapSeq(Cut(b.missingContext, MaxEntries),
           LAMBDA m : IF classifyOutcome(m.line) = "success"
                      THEN NoEntry
                      ELSE [source |-> m.class, scope |-> "missingContext", outcome |-> classifyOutcome(m.line)])
fromToolLedger(ledger) ==
    MapSeq(Cut(ledger, MaxEntries),
           LAMBDA t : [source |-> ToolClass[t.name], scope |-> t.name, outcome |-> toolOutcome(t)])

\* An entry is new when it has a key and no entry before has that key.
Joined(before, e, key) ==
    IF e \in DOMAIN key /\ \A i \in DOMAIN before : key[before[i]] # key[e] THEN Append(before, e) ELSE before

\* found, and after it the entries of s that are new.
Distinct(found, s, key) ==
    LET upTo[k \in 0 .. Len(s)] == IF k = 0 THEN found ELSE Joined(upTo[k - 1], s[k], key)
    IN  upTo[Len(s)]

AllRetrievals(b, ledger) == declaredRetrieval(b) \o fromMissingContext(b) \o fromToolLedger(ledger)
\* One entry of each class, scope and outcome.
Retrievals(b, ledger) == Distinct(<<>>, AllRetrievals(b, ledger), [e \in Entry |-> e])
buildRetrievalLedger(b, ledger) == Cut(Retrievals(b, ledger), MaxLedger)

-----------------------------------------------------------------------------
(* The bound. *)

Rank == [success |-> 0, empty |-> 1, errored |-> 2, denied |-> 3]

\* Fault: a success beside a refusal lifts it.
Governing_Lifted(outcomes) ==
    IF outcomes \cap {"success", "empty"} # {} THEN outcomes \ {"errored", "denied"} ELSE outcomes

\* An error governs only a class no call of which succeeded.
Governing(outcomes) ==
    IF outcomes \cap {"success", "empty"} # {} THEN outcomes \ {"errored"} ELSE outcomes

worstByClass(retrieval) ==
    [c \in {e.source : e \in ToSet(retrieval)} |->
        LET outcomes == Governing({e.outcome : e \in {f \in ToSet(retrieval) : f.source = c}})
        IN  CHOOSE o \in outcomes : \A u \in outcomes : Rank[u] <= Rank[o]]

confidenceCeiling == [denied |-> 40, errored |-> 60]
noEvidenceCeiling == 20

noEvidence(v2, retrieval) ==
    v2.sources = <<>> /\ ~v2.resources /\ \A e \in ToSet(retrieval) : e.outcome # "success"

Ceilings(v2, retrieval) ==
    LET worst == worstByClass(retrieval)
    IN  {confidenceCeiling[worst[c]] : c \in {d \in DOMAIN worst : worst[d] \in DOMAIN confidenceCeiling}}
        \cup {noEvidenceCeiling : x \in {y \in {0} : noEvidence(v2, retrieval)}}

\* Fault: the ceiling replaces what the model declared.
Bounded_Replaced(confidence, ceiling) == IF confidence = Unstated THEN confidence ELSE ceiling

\* NaN and an unstated confidence are above no ceiling.
Bounded(confidence, ceiling) == IF confidence > ceiling THEN ceiling ELSE confidence

\* The gap goes first, unless the agent wrote it itself.
GapFirst(lines) == IF Contains(lines, "gap") THEN lines ELSE <<"gap">> \o Cut(lines, MaxContext - 1)

applyEvidencePolicy(v2, retrieval) ==
    LET ceilings == Ceilings(v2, retrieval)
        ceiling == CHOOSE c \in ceilings : \A d \in ceilings : c <= d
    IN  IF ~v2.root \/ ceilings = {}
        THEN v2
        ELSE [v2 EXCEPT !.confidence = Bounded(@, ceiling), !.cap = ceiling,
                        !.missingContext = GapFirst(@)]

-----------------------------------------------------------------------------
(* Parse. *)

\* The sources kept, by their place in the agent's list.
sources(b) ==
    SelectSeq([k \in 1 .. Len(Cut(b.sources, MaxEntries)) |-> k - 1], LAMBDA k : b.sources[k + 1])

\* The steps kept are those with a statement, and of their references those within the sources kept.
steps(b) == SelectSeq(Cut(b.trace, MaxEntries), LAMBDA step : step.statement)
trace(b) ==
    MapSeq(steps(b), LAMBDA step :
        SelectSeq(Cut(step.refs, MaxRefs), LAMBDA r : 0 <= r /\ r < Len(sources(b))))

howToFix(b) == b.scripts = {"precondition", "apply", "verify"}

Fields(b) ==
    [block |-> b, sources |-> sources(b), trace |-> trace(b), resources |-> b.resources, root |-> b.root,
     confidence |-> IF b.root THEN b.confidence ELSE Unstated, cap |-> NoCap, fix |-> howToFix(b),
     missingContext |-> MapSeq(Cut(b.missingContext, MaxEntries), LAMBDA m : IF m.gap THEN "gap" ELSE "missing")]

\* A block with nothing usable in it is passed over.
Usable(b) ==
    \/ sources(b) # <<>> \/ steps(b) # <<>> \/ b.missingContext # <<>>
    \/ b.resources \/ b.assumptions \/ b.root \/ howToFix(b)

\* Fault: the line is added without room for it.
WithNotes_Over(v2, b) ==
    IF v2.root /\ ~v2.fix THEN [v2 EXCEPT !.missingContext = Append(@, "noFix")] ELSE v2

\* missingContext says what the incident has no scripts for, within its length.
WithNotes(v2, b) ==
    CASE ~v2.fix /\ v2.root -> [v2 EXCEPT !.missingContext = Append(Cut(@, MaxContext - 1), "noFix")]
      [] v2.fix /\ b.notes > 0 -> [v2 EXCEPT !.missingContext =
                                     Cut(@, MaxContext - b.notes) \o [k \in 1 .. b.notes |-> "note"]]
      [] OTHER -> v2

NoFields == [block |-> <<>>]

\* blocks holds the answer's blocks by their places in it.
Parse(blocks, ledger) ==
    LET usable == {k \in DOMAIN blocks : Usable(blocks[k])}
    IN  IF usable = {}
        THEN NoFields
        ELSE LET b == blocks[Max(usable)]
             IN  WithNotes(applyEvidencePolicy(Fields(b), buildRetrievalLedger(b, ledger)), b)

=============================================================================
