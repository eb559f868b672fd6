------------------------------ MODULE Comparison ------------------------------
(***************************************************************************)
(* One comparison of a firing with the alert's open incidents: pick's call *)
(* (internal/incident/writer.go), the prompt and its verdict               *)
(* (internal/compare/compare.go) and the completion                        *)
(* (internal/incident/llm.go), which takes its key from the service JWT    *)
(* or from a Secret.  An incident is its rank by age, the oldest is 1.     *)
(***************************************************************************)
EXTENDS ServiceJWT, FiniteSets, Sequences

CONSTANTS
    Comparer,       \* the caller of Get that is the comparison
    MaxIncidents,   \* bound of the incidents an alert has open
    MaxFenced       \* bound of the fenced blocks of an answer

ASSUME ComparisonAssumption == Comparer \in Callers /\ MaxIncidents \in Nat /\ MaxFenced \in Nat

\* A body of an answer: not a JSON object with a usable "match", null, or a number.
Unusable == -1
Null == -2
Bodies == {Unusable, Null} \cup 0 .. MaxIncidents + 1

\* An answer: its fenced blocks, and what the whole of it is as a body; a text with a fence is none.
Texts == {a \in [fenced : UNION {[1 .. n -> Bodies] : n \in 0 .. MaxFenced}, whole : Bodies] :
            a.fenced # <<>> => a.whole = Unusable}
NoText == [fenced |-> <<>>, whole |-> Unusable]

VARIABLE comparison     \* the firing's comparison: the incidents it shows, its answer, its verdict

comparisonVars == <<comparison, jwtVars>>

NoVerdict == [kind |-> "noVerdict", of |-> 0]
NoneOfThem == [kind |-> "none", of |-> 0]
Match(i) == [kind |-> "match", of |-> i]

NotComparing == [pc |-> "idle", candidates |-> <<>>, passthrough |-> FALSE, text |-> NoText,
                 verdict |-> NoVerdict]

ComparisonInit == comparison = NotComparing

-----------------------------------------------------------------------------
(* The prompt and the verdict. *)

\* The candidates, newest first.
Ranked(S) ==
    CHOOSE s \in [1 .. Cardinality(S) -> S] : \A m, n \in DOMAIN s : m < n => s[m] > s[n]

\* The incident under each number of the prompt.
Prompt(candidates) == [n \in 1 .. Len(candidates) |-> candidates[n]]

\* Fault: the first fenced block is read.
InOrder_First(text) == text.fenced \o <<text.whole>>

\* The bodies in the order they are tried: the last fenced block first, the whole text last.
InOrder(text) ==
    LET n == Len(text.fenced)
    IN  [k \in 1 .. n + 1 |-> IF k <= n THEN text.fenced[n + 1 - k] ELSE text.whole]

\* The first body that is null or the number of one of names; without one, never a guess.
ParseVerdict(text, names) ==
    LET bodies == InOrder(text)
        usable == {k \in DOMAIN bodies : bodies[k] = Null \/ bodies[k] \in 1 .. Len(names)}
        first == CHOOSE k \in usable : \A m \in usable : k <= m
    IN  CASE usable = {} -> NoVerdict
          [] usable # {} /\ bodies[first] = Null -> NoneOfThem
          [] OTHER -> Match(names[bodies[first]])

-----------------------------------------------------------------------------
(* The calls. *)

Step(pc) == comparison' = [comparison EXCEPT !.pc = pc]
Judged(text, verdict) ==
    comparison' = [comparison EXCEPT !.pc = "judged", !.text = text, !.verdict = verdict]

\* The firing listed open incidents with an analysis: it compares them.
StartComparison ==
    /\ comparison.pc = "idle"
    /\ Spend("firings")
    /\ \E S \in SUBSET (1 .. MaxIncidents) \ {{}} :
         comparison' = [NotComparing EXCEPT !.pc = "reading", !.candidates = Ranked(S)]
    /\ UNCHANGED jwtVars

\* The alert's records are read from HyperDX; unreadable, or none, there is no verdict.
ReadRows ==
    /\ comparison.pc = "reading"
    /\ \/ Step("resolving") /\ UNCHANGED left
       \/ Judged(NoText, NoVerdict) /\ (CallFails \/ UNCHANGED left)
    /\ UNCHANGED jwtVars

\* endpoint reads the ModelConfig: the key is the service JWT, or that of a Secret.
Endpoint ==
    /\ comparison.pc = "resolving"
    /\ \/ /\ comparison' = [comparison EXCEPT !.pc = "asking", !.passthrough = TRUE]
          /\ CallGet(Comparer)
          /\ UNCHANGED left
       \/ Step("calling") /\ UNCHANGED <<jwtVars, left>>
       \/ CallFails /\ Judged(NoText, NoVerdict) /\ UNCHANGED jwtVars

\* Get returned: the completion is called, with the JWT or without.
KeyKnown ==
    /\ comparison.pc = "asking"
    /\ get[Comparer].pc = "answered"
    /\ Step("calling")
    /\ UNCHANGED <<jwtVars, left>>

\* The completion: an answer, a refusal of a call that carried no JWT, or a failure, of which a
\* 429 is one.
Completion ==
    /\ comparison.pc = "calling"
    /\ \/ /\ \E text \in Texts : Judged(text, ParseVerdict(text, comparison.candidates))
          /\ UNCHANGED left
       \/ /\ comparison.passthrough /\ get[Comparer].jwt = NoJWT
          /\ Judged(NoText, NoVerdict)
          /\ UNCHANGED left
       \/ CallFails /\ Judged(NoText, NoVerdict)
    /\ IF comparison.passthrough THEN CallOver(Comparer) ELSE UNCHANGED jwtVars

\* pick has its verdict and goes on.
PickGoesOn ==
    /\ comparison.pc = "judged"
    /\ comparison' = NotComparing
    /\ UNCHANGED <<jwtVars, left>>

Compares == ReadRows \/ Endpoint \/ KeyKnown \/ Completion \/ PickGoesOn

ComparisonStops == comparison' = NotComparing

\* Every call returns or fails: the reader's, and the completion within COMPARE_TIMEOUT.
ComparisonFairness == WF_<<comparisonVars, left>>(Compares)

-----------------------------------------------------------------------------
(* Properties. *)

ComparisonTypeOK ==
    /\ comparison.pc \in {"idle", "reading", "resolving", "asking", "calling", "judged"}
    /\ \A n \in DOMAIN comparison.candidates : comparison.candidates[n] \in 1 .. MaxIncidents
    /\ comparison.text \in Texts
    /\ comparison.verdict \in {NoVerdict, NoneOfThem} \cup {Match(i) : i \in 1 .. MaxIncidents}

\* The incidents that a number names in the prompt that was sent.
Shown(n) == {Prompt(comparison.candidates)[k] : k \in {n} \cap DOMAIN Prompt(comparison.candidates)}

\* What the model says last is the verdict: the incident it names is the one that number stood
\* under in the prompt, "none" is its null, and without a usable answer there is no verdict.
VerdictIsTheModels ==
    comparison.pc = "judged" =>
        LET said == IF comparison.text.fenced = <<>> THEN <<comparison.text.whole>>
                    ELSE comparison.text.fenced
            usable == {k \in DOMAIN said : said[k] = Null \/ Shown(said[k]) # {}}
            last == CHOOSE k \in usable : \A m \in usable : m <= k
        IN  CASE usable = {} -> comparison.verdict = NoVerdict
              [] usable # {} /\ said[last] = Null -> comparison.verdict = NoneOfThem
              [] OTHER -> /\ comparison.verdict.kind = "match"
                          /\ Shown(said[last]) = {comparison.verdict.of}

=============================================================================
