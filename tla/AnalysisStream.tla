---------------------------- MODULE AnalysisStream ----------------------------
(***************************************************************************)
(* One RCA (A2A.Analyze in internal/incident/a2a.go, then report.Parse).   *)
(* The agent streams its answer and the results its tools returned; the    *)
(* client puts the answer together from messages that may be snapshots of  *)
(* what was said so far, deltas, or repeats, and lifts the tool results    *)
(* off them into a ledger.  At the end of the stream the answer is parsed; *)
(* a stream that breaks or falls silent publishes nothing.                 *)
(*                                                                         *)
(* The answer is a sequence of pieces: 0 is a passage of prose, k the      *)
(* structured block Blocks[k].  Two pieces differ, and neither begins or   *)
(* ends with another.                                                      *)
(***************************************************************************)
EXTENDS EvidencePolicy

CONSTANTS
    Blocks,         \* the structured blocks an answer may hold
    Results,        \* what the agent's tools may return
    MaxPieces,      \* bound: pieces of an answer
    MaxResults      \* bound: tool results of an RCA

ASSUME StreamAssumption ==
    /\ Blocks \in Seq(ToSet(Blocks)) /\ \A k \in DOMAIN Blocks : IsBlock(Blocks[k])
    /\ Results \subseteq ToolResult
    /\ MaxPieces \in Nat /\ MaxResults \in Nat

Pieces == 0 .. Len(Blocks)

VARIABLES
    mode,       \* whether the agent's messages are snapshots or deltas
    earlier,    \* what the agent said in its earlier messages
    current,    \* and in the one it is sending
    returned,   \* what its tools returned, in order
    out,        \* the answer as put together
    ledger,     \* the tool results lifted off the stream
    pc,         \* where Analyze is
    fields      \* what Parse made of the answer
vars == <<mode, earlier, current, returned, out, ledger, pc, fields>>

said == earlier \o current

Init ==
    /\ mode \in {"snapshot", "delta"}
    /\ earlier = <<>> /\ current = <<>> /\ returned = <<>>
    /\ out = <<>> /\ ledger = <<>>
    /\ pc = "streaming" /\ fields = NoFields

-----------------------------------------------------------------------------
(* What a message does to the answer and to the ledger. *)

\* Fault: every text that is no snapshot is a delta.
Received_Repeats(text) == IF IsPrefix(out, text) THEN text ELSE out \o text

\* Fault: every text is a snapshot.
Received_Replaces(text) == IF IsSuffix(text, out) THEN out ELSE text

\* A text that extends the answer is a snapshot of it, its tail again is a repeat, the rest a delta.
Received(text) ==
    IF IsPrefix(out, text) THEN text ELSE IF IsSuffix(text, out) THEN out ELSE out \o text

\* Fault: one result is kept of each tool.
Lifted_ByName(results) == Distinct(ledger, results, [r \in ToolResult |-> r.name])

\* Fault: results are lifted as often as they are sent.
Lifted_All(results) == ledger \o results

\* A result is lifted once, told apart by tool and text.
NameAndText == [r \in ToolResult |-> <<r.name, r.payload>>]
Lifted(results) == Distinct(ledger, results, NameAndText)

-----------------------------------------------------------------------------
(* The agent's side of the stream. *)

\* The agent says a piece more.
Say(p) ==
    /\ pc = "streaming" /\ Len(said) < MaxPieces
    /\ current' = Append(current, p)
    /\ out' = Received(IF mode = "snapshot" THEN current' ELSE <<p>>)
    /\ UNCHANGED <<mode, earlier, returned, ledger, pc, fields>>

\* The last text is sent again.
SayAgain ==
    /\ pc = "streaming" /\ current # <<>>
    /\ out' = Received(IF mode = "snapshot" THEN current ELSE <<Last(current)>>)
    /\ UNCHANGED <<mode, earlier, current, returned, ledger, pc, fields>>

\* After a tool call the agent begins another message, whose snapshots are its own.
NextMessage ==
    /\ pc = "streaming" /\ current # <<>>
    /\ earlier' = said /\ current' = <<>>
    /\ UNCHANGED <<mode, returned, out, ledger, pc, fields>>

\* A tool returns; the event carries the new result, or every one so far.
ToolReturns(r) ==
    /\ pc = "streaming" /\ Len(returned) < MaxResults
    /\ returned' = Append(returned, r)
    /\ \E results \in {<<r>>, returned'} : ledger' = Lifted(results)
    /\ UNCHANGED <<mode, earlier, current, out, pc, fields>>

(* The ways Analyze returns. *)

\* The stream ends, and the answer is parsed.
End ==
    /\ pc = "streaming"
    /\ pc' = "parsed"
    /\ fields' = Parse([k \in {j \in DOMAIN out : out[j] # 0} |-> Blocks[out[k]]], ledger)
    /\ UNCHANGED <<mode, earlier, current, returned, out, ledger>>

\* The request is refused, the stream breaks, or it is silent for the read timeout.
Fail ==
    /\ pc = "streaming"
    /\ pc' = "failed"
    /\ UNCHANGED <<mode, earlier, current, returned, out, ledger, fields>>

Next ==
    \/ \E p \in Pieces : Say(p)
    \/ SayAgain
    \/ NextMessage
    \/ \E r \in Results : ToolReturns(r)
    \/ End
    \/ Fail

Spec == Init /\ [][Next]_vars

-----------------------------------------------------------------------------
(* Properties. *)

\* The answer and the ledger hold only what was sent, every ledger entry once, and fields are there
\* only of an answer that was parsed: A2A.Analyze returns nothing beside an error.
TypeOK ==
    /\ mode \in {"snapshot", "delta"} /\ pc \in {"streaming", "parsed", "failed"}
    /\ earlier \in Seq(Pieces) /\ current \in Seq(Pieces) /\ Len(said) <= MaxPieces
    /\ returned \in Seq(Results) /\ Len(returned) <= MaxResults
    /\ ToSet(out) \subseteq ToSet(said)
    /\ ToSet(ledger) \subseteq ToSet(returned) /\ IsInjective(ledger)
    /\ fields # NoFields => /\ pc = "parsed" /\ fields.block \in ToSet(Blocks)
                            /\ fields.confidence \in Confidences

\* A message sent as snapshots, and an answer sent as deltas none of which repeats, is put together
\* exactly as it was said, however often its last text is sent again (a2a.go:126-133).
AnswerOnce ==
    (mode = "snapshot" /\ earlier = <<>>) \/ (mode = "delta" /\ IsInjective(said)) => out = said

LastBlock(text) ==
    LET blocks == {k \in DOMAIN text : text[k] # 0} IN IF blocks = {} THEN 0 ELSE text[Max(blocks)]

\* Over any number of messages, sent as snapshots or deltas, the last block of the answer is the
\* last block the agent said: Parse reads the conclusion and not a draft (a2a.go:126-133).
ConclusionKept == LastBlock(out) = LastBlock(said)

Concluded == fields # NoFields /\ fields.root

\* The ledger keeps the first result of those with one tool and one text.
First(k) ==
    \A j \in 1 .. k - 1 : NameAndText[returned[j]] # NameAndText[returned[k]]

\* Once a tool reports that the analyzer was refused, no analysis claims more than the ceiling of a
\* denial, whatever its other calls returned and its block declares (policy.go:241-267 and 399-462),
\* as long as its results are at most MaxEntries, and its retrievals, one of each class, scope and
\* outcome declared, missed or returned, at most MaxLedger: past that the tools' are cut off.  The
\* report must be the first with its text: after a call of the tool that did not fail and returned
\* the same text, a failed one is taken for a repeat (a2a.go:107).  A NaN is above no ceiling.
DenialBounds ==
    Concluded /\ Len(ledger) <= MaxEntries /\ Len(Retrievals(fields.block, ledger)) <= MaxLedger =>
        ((\E k \in DOMAIN returned : First(k) /\ toolOutcome(returned[k]) = "denied")
            => fields.confidence <= confidenceCeiling.denied)

\* The policy only lowers a declared confidence, to the ceiling it reports, and makes none up
\* (policy.go:408).
NeverRaised ==
    Concluded => \/ fields.confidence = fields.block.confidence
                 \/ fields.block.confidence > fields.confidence /\ fields.confidence = fields.cap

\* The lines of missingContext that say in the agent's own words what the policy would, and the
\* lines that Parse adds at its end.
OwnGaps(b) == {k \in DOMAIN Cut(b.missingContext, MaxEntries) : b.missingContext[k].gap}
Added(v2) == IF v2.fix THEN v2.block.notes ELSE 1

\* missingContext stays within its length, says that the incident has no scripts to check, and tells
\* of the gap for which a ceiling was reported: first, when the agent did not write that line, and
\* where the agent wrote it, unless it is there among the last lines of a full list, which make room
\* for the notes (policy.go:476-480, report.go:544-551).
GapsTold ==
    fields # NoFields =>
        /\ Len(fields.missingContext) <= MaxContext
        /\ fields.root /\ ~fields.fix => Last(fields.missingContext) = "noFix"
        /\ fields.root /\ fields.cap # NoCap =>
             /\ OwnGaps(fields.block) = {} => Head(fields.missingContext) = "gap"
             /\ \A k \in OwnGaps(fields.block) :
                  k <= MaxContext - Added(fields) => fields.missingContext[k] = "gap"

\* Every reference a published step has points at the source the agent cited in that step
\* (report.go:9-13; instructions.txt:22, "evidenceRefs are 0-based indices into sources").
RefsNameTheirSource ==
    fields # NoFields =>
        \A step \in DOMAIN fields.trace : \A k \in DOMAIN fields.trace[step] :
            Contains(steps(fields.block)[step].refs, fields.sources[fields.trace[step][k] + 1])

=============================================================================
