--------------------------- MODULE MCAnalysisStream ---------------------------
(* Instances of AnalysisStream for TLC. *)
EXTENDS AnalysisStream

MCTools == {"k8s_get", "query"}
MCScopes == {"pods", "nodes", "events"}
MCToolClass == [t \in MCTools |-> IF t = "k8s_get" THEN "k8s" ELSE "logs"]

Plain == [denial |-> FALSE, names |-> "nobody", selfRef |-> FALSE, error |-> FALSE, empty |-> FALSE]
Refused(who) == [Plain EXCEPT !.denial = TRUE, !.names = who]

\* Data, a failed call, a refusal of the analyzer from a failed call and from one that did not fail,
\* data that reads like the first refusal, and data about somebody else's.
MCResults ==
    { [name |-> "k8s_get", payload |-> Plain, failed |-> FALSE],
      [name |-> "k8s_get", payload |-> [Plain EXCEPT !.error = TRUE], failed |-> TRUE],
      [name |-> "k8s_get", payload |-> Refused("nobody"), failed |-> TRUE],
      [name |-> "k8s_get", payload |-> Refused("nobody"), failed |-> FALSE],
      [name |-> "query", payload |-> Refused("analyzer"), failed |-> FALSE],
      [name |-> "query", payload |-> Refused("another"), failed |-> FALSE] }

Scripts == {"precondition", "apply", "verify"}
NoBlock == [sources |-> <<>>, trace |-> <<>>, resources |-> FALSE, assumptions |-> FALSE, root |-> FALSE,
            confidence |-> Unstated, retrieval |-> <<>>, missingContext |-> <<>>, scripts |-> {}, notes |-> 0]
Missing(line) == [class |-> "other", line |-> line, gap |-> FALSE]
Gap == [Missing(Refused("nobody")) EXCEPT !.gap = TRUE]
Read(source, scope) == [source |-> source, scope |-> scope, outcome |-> "success", words |-> Plain]
Step(refs) == [statement |-> TRUE, refs |-> refs]

\* A complete analysis that writes the gap itself and declares three reads of one class, which fill
\* the ledger with one result of a tool and overflow it with two; one whose first source is unusable,
\* with a partial fix, a refusal among what it misses and the gap in the place the note on the scripts
\* takes; a block with nothing in it; a NaN that cites nothing, with all its lines of missingContext
\* taken and both notes; a draft without a root cause.
MCBlocks ==
    << [NoBlock EXCEPT !.sources = <<TRUE, TRUE>>, !.trace = <<Step(<<0, 1>>), Step(<<1, 7>>)>>,
           !.resources = TRUE, !.root = TRUE, !.confidence = 90, !.scripts = Scripts,
           !.retrieval = <<Read("k8s", "pods"), Read("k8s", "nodes"), Read("k8s", "events")>>,
           !.missingContext = <<Gap>>],
       [NoBlock EXCEPT !.sources = <<FALSE, TRUE, TRUE>>,
           !.trace = <<[statement |-> FALSE, refs |-> <<0>>], Step(<<1>>), Step(<<2>>)>>,
           !.root = TRUE, !.confidence = 50, !.scripts = {"apply"},
           !.retrieval = <<Read("k8s", "pods"),
                           [source |-> "logs", scope |-> "pods", outcome |-> "unrecognized",
                            words |-> [Plain EXCEPT !.error = TRUE]]>>,
           !.missingContext = <<Missing(Plain), Missing([Refused("nobody") EXCEPT !.selfRef = TRUE]), Gap>>],
       NoBlock,
       [NoBlock EXCEPT !.root = TRUE, !.confidence = NaN, !.scripts = Scripts, !.notes = 2,
           !.missingContext = <<Missing(Plain), Missing(Plain), Missing(Plain)>>],
       [NoBlock EXCEPT !.sources = <<TRUE>>, !.assumptions = TRUE, !.trace = <<Step(<<0>>)>>] >>

=============================================================================
