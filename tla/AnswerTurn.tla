------------------------------ MODULE AnswerTurn ------------------------------
(***************************************************************************)
(* internal/assistantturn and internal/httpapi/openai/shared: what is kept *)
(* of an answer while it streams, and how the finished turn is judged:     *)
(* its calls, the reason it stopped, and whether it fails.                 *)
(*                                                                         *)
(* `o' are the options of a request: is it streamed, is thinking shown, is *)
(* the search on, are there tools, must one be called.                     *)
(***************************************************************************)
EXTENDS ToolSieve

Trimmed(t) == SelectSeq(t, LAMBDA x : x \notin Spaces)
Blank(t) == Trimmed(t) = <<>>

\* A snapshot of at least this many tokens is taken for a repetition of the text
\* before it (minContinuationSnapshotLen).
MinSnapshot == 3

\* What a piece adds to the text before it: upstream snapshots repeat it.
TrimContinuationOverlap(old, new) ==
  CASE Len(new) < MinSnapshot \/ old = <<>> -> new
    [] Len(new) > Len(old) /\ IsPrefix(old, new) -> SubSeq(new, Len(old) + 1, Len(new))
    [] Len(new) < Len(old) /\ IsPrefix(new, old) -> <<>>
    [] OTHER -> new

Without(t, S) == SelectSeq(t, LAMBDA x : x \notin S)

\* The markers of a search's sources; of "[cite]" the upstream has told the address, of
\* "[ref]" it has not.  Streams hide all of them, as the addresses are not known before the
\* end; a whole answer has links for those that it knows.
Markers == {"[cite]", "[ref]"}
\* Mutant: streams show the markers too.
ShowReferenceMarkers(t, o) == t
StripReferenceMarkers(t, o) == IF o.stream THEN Without(t, Markers) ELSE t
ReplaceCitationMarkersWithLinks(t, o) ==
  IF o.search /\ ~o.stream THEN [i \in DOMAIN t |-> IF t[i] = "[cite]" THEN "[link]" ELSE t[i]] ELSE t
CleanVisibleOutput(t, o) == StripLeakedBlocks(Without(StripReferenceMarkers(t, o), {"[leak]"}))
IsCitation(t) == Trimmed(t) # <<>> /\ Head(Trimmed(t)) = "[cite]"
-----------------------------------------------------------------------------
(* shared.StreamAccumulator *)

NoText == [rawText |-> <<>>, text |-> <<>>, rawThinking |-> <<>>, thinking |-> <<>>, detect |-> <<>>]

ApplyDetection(a, r) ==
  FoldAlong(LAMBDA b, p : [b EXCEPT !.detect = @ \o TrimContinuationOverlap(@, p.text)], a, r.detect)

\* Each Apply gives the accumulator and what the part adds to it.
ApplyThinkingPart(a, t, o) ==
  Using(TrimContinuationOverlap(a.rawThinking, t), LAMBDA raw :
    Using(IF o.thinking /\ raw # <<>> THEN TrimContinuationOverlap(a.thinking, CleanVisibleOutput(raw, o)) ELSE <<>>, LAMBDA vis :
      [acc |-> [a EXCEPT !.rawThinking = @ \o raw, !.thinking = @ \o vis], raw |-> raw, vis |-> vis, cite |-> FALSE]))

ApplyTextPart(a, t, o) ==
  LET cites(raw) == o.search /\ IsCitation(raw)
  IN  Using(TrimContinuationOverlap(a.rawText, t), LAMBDA raw :
        Using(IF raw = <<>> \/ cites(raw) THEN <<>> ELSE TrimContinuationOverlap(a.text, CleanVisibleOutput(raw, o)), LAMBDA vis :
          [acc |-> [a EXCEPT !.rawText = @ \o raw, !.text = @ \o vis], raw |-> raw, vis |-> vis, cite |-> cites(raw)]))

ApplyPart(a, p, o) ==
  IF p.type = "thinking" THEN ApplyThinkingPart(a, p.text, o) ELSE ApplyTextPart(a, p.text, o)
-----------------------------------------------------------------------------
(* assistantturn *)

\* DetectAssistantToolCalls: reasoning is searched only when there is no answer.
DetectCalls(rawText, text, thinking, detect) ==
  LET reasoning == IF Blank(detect) THEN thinking ELSE detect
  IN  FoldAlong(LAMBDA calls, t : IF calls # <<>> THEN calls ELSE ParseToolCalls(t), <<>>,
                IF Blank(text) THEN <<rawText, reasoning>> ELSE <<rawText>>)

OutputError(status, code) == [status |-> status, code |-> code]
NoError == OutputError(0, "")

UpstreamEmptyOutput(filter, thinking) ==
  CASE filter -> OutputError(400, "content_filter")
    [] ~filter /\ ~Blank(thinking) -> OutputError(429, "upstream_empty_output")
    [] OTHER -> OutputError(503, "upstream_unavailable")

\* Mutant: an answer without a call fails, whatever its text.
ValidateTurnStrict(calls, text, thinking, filter, upstream, o) ==
  CASE o.required /\ calls = <<>> -> OutputError(422, "tool_choice_violation")
    [] calls # <<>> -> NoError
    [] OTHER -> UpstreamEmptyOutput(filter, thinking)
ValidateTurn(calls, text, thinking, filter, upstream, o) ==
  CASE o.required /\ calls = <<>> -> OutputError(422, "tool_choice_violation")
    [] calls # <<>> \/ ~Blank(text) -> NoError
    [] upstream -> OutputError(400, "upstream_error")
    [] OTHER -> UpstreamEmptyOutput(filter, thinking)

\* BuildTurnFromStreamSnapshot.  `emitted': calls have already been streamed;
\* `extra': the calls of another path, used if the text has none.
StopReason(calls, error, filter, emitted) ==
  CASE error # NoError /\ calls = <<>> -> "error"
    [] calls # <<>> \/ emitted -> "tool_calls"
    [] OTHER -> IF filter THEN "content_filter" ELSE "stop"
Judged(t, emitted, o) ==
  Using(IF emitted THEN NoError ELSE ValidateTurn(t.calls, t.text, t.thinking, t.filter, t.upstream, o), LAMBDA error :
    [t EXCEPT !.error = error, !.stop = StopReason(t.calls, error, t.filter, emitted)])
BuildTurn(a, filter, upstream, emitted, extra, o) ==
  LET found(text) == DetectCalls(a.rawText, text, a.rawThinking, a.detect)
      turn(text)  == [text |-> text, thinking |-> CleanVisibleOutput(a.thinking, o), filter |-> filter,
                      upstream |-> upstream, error |-> NoError, stop |-> "",
                      calls |-> Using(found(text), LAMBDA calls : IF calls = <<>> THEN extra ELSE calls)]
  IN  Judged(Using(ReplaceCitationMarkersWithLinks(CleanVisibleOutput(a.text, o), o), turn), emitted, o)

\* Mutant: the calls are looked for in the cleaned text.
CollectedTurnCleaned(a, filter, upstream, o) ==
  LET b == [a EXCEPT !.rawText = CleanVisibleOutput(@, o), !.text = a.rawText, !.thinking = a.rawThinking]
  IN  BuildTurn(b, filter, upstream, FALSE, <<>>, o)
\* BuildTurnFromCollected: a whole answer at once, nothing emitted before.
CollectedTurn(a, filter, upstream, o) ==
  Using(BuildTurn([a EXCEPT !.text = a.rawText, !.thinking = a.rawThinking], filter, upstream, FALSE, <<>>, o), LAMBDA t :
    IF t.error = NoError THEN t ELSE [t EXCEPT !.stop = "error"])

ShouldRetryEmptyOutput(t) == ~t.filter /\ t.calls = <<>> /\ ~t.upstream /\ Blank(t.text)

FinishReason(t) == IF t.stop = "error" THEN "stop" ELSE t.stop

\* Mutant: calls count only if they have been streamed.
FinalizeTurnEmitted(t, emitted) ==
  [hasCalls |-> emitted, error |-> IF emitted THEN NoError ELSE t.error,
   finish |-> IF emitted THEN "tool_calls" ELSE FinishReason(t)]
FinalizeTurn(t, emitted) ==
  LET has == t.calls # <<>> \/ emitted
  IN  [hasCalls |-> has, error |-> IF has THEN NoError ELSE t.error,
       finish |-> IF has THEN "tool_calls" ELSE FinishReason(t)]
=============================================================================
