------------------------------ MODULE ToolSieve ------------------------------
(***************************************************************************)
(* internal/toolstream: the sieve that an answer with tools is streamed    *)
(* through.  Prose is passed on at once; what may become a tool call is    *)
(* held back until it is one or cannot become one; markup quoted as code   *)
(* is prose.                                                               *)
(***************************************************************************)
EXTENDS ToolMarkup

\* `span' is the run that opened inline code (markdownCodeSpanTicks); `fences' the
\* open code fences, `ticks' the backticks at the end of the text so far.
NewSieve == [pending |-> <<>>, capture |-> <<>>, capturing |-> FALSE,
             fences |-> <<>>, ticks |-> 0, lineStart |-> TRUE, span |-> 0]
-----------------------------------------------------------------------------
(* Code fences and inline code. *)

ApplyFenceMarker(fences, n) ==
  IF fences # <<>> /\ n >= Last(fences) THEN Front(fences) ELSE Append(fences, n)

FenceToken(s, x) ==
  LET f == IF s.ticks = 0 THEN s
           ELSE [s EXCEPT !.fences = IF s.lineStart /\ s.ticks >= 3 THEN ApplyFenceMarker(@, s.ticks) ELSE @,
                          !.lineStart = FALSE, !.ticks = 0]
  IN  CASE Ticks(x) > 0 -> [s EXCEPT !.ticks = @ + Ticks(x)]
        [] x = "nl" -> [f EXCEPT !.lineStart = TRUE]
        [] x = " " -> f
        [] OTHER -> [f EXCEPT !.lineStart = FALSE]

\* simulateCodeFenceState
Fences(s, t) == FoldAlong(FenceToken, s, t)
InsideFence(s, t) == Fences(s, t).fences # <<>>

AtLineStart(t, i) ==
  LET before == {j \in 1..i - 1 : t[j] # " "} IN before = {} \/ t[Max(before)] = "nl"

\* markdownCodeSpanStateAt: the run open at the end of t, and whether it was open
\* before t.
CodeSpan(s, t) ==
  FoldAlong(LAMBDA c, i :
             LET run == RunLength(t, i)
             IN  CASE i \notin Runs(t, 1) \/ (c.ticks > 0 /\ run # c.ticks) -> c
                   [] i \in Runs(t, 1) /\ c.ticks = 0 ->
                        IF (run >= 3 /\ AtLineStart(t, i)) \/ InsideFence(s, SubSeq(t, 1, i - 1)) THEN c
                        ELSE [ticks |-> run, prior |-> FALSE]
                   [] OTHER -> [ticks |-> 0, prior |-> FALSE],
           [ticks |-> s.span, prior |-> s.span > 0], SelectSeq([i \in DOMAIN t |-> i], LAMBDA i : Ticks(t[i]) > 0))

ClosesSpan(t, n) == \E i \in Runs(t, 1) : RunLength(t, i) = n

NoteText(s, t) ==
  IF AllSpace(t) THEN s
  ELSE LET f == Fences(s, t)
       IN  [s EXCEPT !.span = CodeSpan(s, t).ticks, !.fences = f.fences, !.ticks = f.ticks, !.lineStart = f.lineStart]
-----------------------------------------------------------------------------
(* Captured markup. *)

\* trimWrappingJSONFence: a fence opened just before the call and closed just after
\* it goes with it.
TrimWrappingFence(prefix, suffix) ==
  LET marks == {i \in DOMAIN prefix : prefix[i] = "tick3"}
      wraps == /\ marks # {} /\ Cardinality(marks) % 2 = 1
               /\ AllSpace(SubSeq(prefix, Max(marks) + 1, Len(prefix)))
               /\ ~AllSpace(suffix) /\ Head(TrimLeft(suffix)) = "tick3"
  IN  IF wraps THEN <<SubSeq(prefix, 1, Max(marks) - 1), Tail(TrimLeft(suffix))>> ELSE <<prefix, suffix>>

Consumed(prefix, calls, suffix) == [ready |-> TRUE, prefix |-> prefix, calls |-> calls, suffix |-> suffix]
NotReady == [ready |-> FALSE, prefix |-> <<>>, calls |-> <<>>, suffix |-> <<>>]

\* The block from token i to token j of t, read as the calls given.
TakeBlock(t, i, j, calls) ==
  IF calls = <<>> THEN Consumed(SubSeq(t, 1, j), <<>>, SubSeq(t, j + 1, Len(t)))
  ELSE Using(TrimWrappingFence(SubSeq(t, 1, i - 1), SubSeq(t, j + 1, Len(t))), LAMBDA w : Consumed(w[1], calls, w[2]))

\* shouldKeepBareInvokeCapture
KeepsBareInvoke(t, tags) ==
  LET i    == FirstOpen(tags, "invoke")
      w    == FirstOpen(tags, "tool_calls")
      body == SubSeq(t, tags[i].end + 1, Len(t))
      c    == FirstCloseAfter(tags, i, "invoke")
  IN  /\ i > 0 /\ ~(w > 0 /\ w < i)
      /\ CASE FirstCloseAfter(tags, i, "tool_calls") > 0 \/ AllSpace(body) -> TRUE
           [] c > 0 -> AllSpace(SubSeq(t, tags[c].end + 1, Len(t)))
           [] OTHER -> Head(TrimLeft(body)) = "{}"

\* The closed wrappers of t, first to last, with the calls each holds.
Wrappers(t, tags) ==
  LET add(ws, from, to) == Append(ws, [from |-> from, to |-> to, calls |-> ParseToolCalls(SubSeq(t, from, to))])
      close(ws, k, m) == IF m = 0 THEN ws ELSE add(ws, tags[k].start, tags[m].end)
  IN  FoldAlong(LAMBDA ws, k : IF IsOpen(tags[k], "tool_calls") THEN close(ws, k, MatchingClose(tags, k)) ELSE ws,
                <<>>, [k \in DOMAIN tags |-> k])

\* The end of the wrapper that a bare invoke is closed by, 0 if there is none.
BareClose(tags) ==
  LET invoke == FirstOpen(tags, "invoke")
  IN  IF invoke = 0 THEN 0 ELSE FirstCloseAfter(tags, invoke, "tool_calls")
TakeBare(t, open, close) ==
  TakeBlock(t, open.start, close.end, InvokeCalls(SubSeq(t, open.start, close.start - 1)))
TakeWrapper(t, w) == TakeBlock(t, w.from, w.to, w.calls)

\* consumeToolCapture for a text whose tags are those given: the first wrapper that holds
\* a call; else wait for one that is open; else give up the first as prose; else a bare
\* invoke with the end of a wrapper.
ConsumeTags(t, tags, wrappers, first) ==
  LET opens == {k \in DOMAIN tags : IsOpen(tags[k], "tool_calls")}
  IN  CASE t = <<>> -> NotReady
        [] first > 0 -> TakeWrapper(t, wrappers[first])
        [] first = 0 /\ Len(wrappers) < Cardinality(opens) -> NotReady
        [] first = 0 /\ opens = {} /\ BareClose(tags) > 0 -> TakeBare(t, tags[FirstOpen(tags, "invoke")], tags[BareClose(tags)])
        [] first = 0 /\ opens = {} /\ BareClose(tags) = 0 ->
             IF KeepsBareInvoke(t, tags) THEN NotReady ELSE Consumed(t, <<>>, <<>>)
        [] OTHER -> TakeWrapper(t, wrappers[1])
ConsumeIn(t, tags) ==
  Using(Wrappers(t, tags), LAMBDA ws : ConsumeTags(t, tags, ws, SelectInSeq(ws, LAMBDA w : w.calls # <<>>)))
Consume(t) == ConsumeIn(t, Tags(t))
-----------------------------------------------------------------------------
(* The sieve. *)

TextEvent(t) == IF t = <<>> THEN <<>> ELSE <<[text |-> t, calls |-> <<>>]>>
CallEvent(cs) == IF cs = <<>> THEN <<>> ELSE <<[text |-> <<>>, calls |-> cs]>>

\* How the code around a tag looks: quoted for certain, or open so far.
CodeAt(s, t, i) ==
  LET before == SubSeq(t, 1, i - 1)
  IN  Using(CodeSpan(s, before), LAMBDA c :
        [inside |-> InsideFence(s, before) \/ (c.ticks > 0 /\ ClosesSpan(SubSeq(t, i, Len(t)), c.ticks)),
         prior  |-> c.ticks > 0 /\ c.prior])

\* findToolSegmentStart: 0 if there is none, -1 to wait for the end of inline code.
SegmentStartIn(s, t, tags) ==
  Using(SelectInSeq(tags, LAMBDA g : ~CodeAt(s, t, g.start).inside), LAMBDA k :
    IF k = 0 THEN 0 ELSE IF CodeAt(s, t, tags[k].start).prior THEN -1 ELSE tags[k].start)
SegmentStart(s, t) == SegmentStartIn(s, t, Tags(t))

\* findPartialXMLToolTagStart
PartialTag(t) ==
  LET starts == {i \in DOMAIN t : t[i] \in TagStarts}
  IN  IF starts = {} \/ \E j \in Max(starts)..Len(t) : t[j] = ">" THEN 0 ELSE Max(starts)

\* splitSafeContentForToolDetection: how much of t is certainly prose if a tag begins at
\* its token i and does not end.
SafeUpTo(s, t, i) ==
  IF i = 0 THEN Len(t)
  ELSE Using(CodeAt(s, t, i), LAMBDA c : IF c.inside THEN Len(t) ELSE IF c.prior THEN 0 ELSE i - 1)
SafeLength(s, t) == SafeUpTo(s, t, PartialTag(t))

\* Prose that ends in an unclosed run before real markup does not open inline code.
NotePrefix(s, prefix, rest) ==
  LET drops(c) == c.ticks > 0 /\ ~c.prior /\ ~ClosesSpan(rest, c.ticks)
  IN  IF prefix = <<>> THEN s
      ELSE [NoteText(s, prefix) EXCEPT !.span = IF drops(CodeSpan(s, prefix)) THEN 0 ELSE @]

\* One turn of the loop: a capture is consumed or waits, a segment starts, prose passes.
Turned(s, events, again) == [state |-> s, events |-> events, again |-> again]
SieveTurn(s, got, start, safe) ==
  LET t   == s.pending
      pre == SubSeq(t, 1, start - 1)
      seg == SubSeq(t, start, Len(t))
  IN  CASE s.capturing /\ ~got.ready -> Turned([s EXCEPT !.capture = @ \o t, !.pending = <<>>], <<>>, FALSE)
        [] s.capturing /\ got.ready ->
             Turned(NoteText([s EXCEPT !.capture = <<>>, !.capturing = FALSE, !.pending = got.suffix], got.prefix),
                    TextEvent(got.prefix) \o CallEvent(got.calls), TRUE)
        [] ~s.capturing /\ (t = <<>> \/ start = -1) -> Turned(s, <<>>, FALSE)
        [] ~s.capturing /\ start > 0 ->
             Turned([NotePrefix(s, pre, seg) EXCEPT !.pending = <<>>, !.capture = seg, !.capturing = TRUE],
                    TextEvent(pre), TRUE)
        [] ~s.capturing /\ start = 0 /\ safe = 0 -> Turned(s, <<>>, FALSE)
        [] OTHER -> Turned([NoteText(s, SubSeq(t, 1, safe)) EXCEPT !.pending = SubSeq(t, safe + 1, Len(t))],
                           TextEvent(SubSeq(t, 1, safe)), TRUE)

\* The loop, turn after turn, until one is the last.  A turn that is not takes up some token,
\* or begins to hold one back: two turns for a token, and the last, are enough.
SieveLoop(turn(_), s, events) ==
  FoldAlong(LAMBDA u, n : IF u.again THEN Using(turn(u.state), LAMBDA v : [v EXCEPT !.events = u.events \o @]) ELSE u,
            Turned(s, events, TRUE), [n \in 1..2 * (Len(s.capture) + Len(s.pending)) + 1 |-> n])

Sieve(s, events) ==
  SieveLoop(LAMBDA q : SieveTurn(q, Consume(q.capture \o q.pending), SegmentStart(q, q.pending), SafeLength(q, q.pending)),
            s, events)

ProcessChunk(s, chunk) == Sieve([s EXCEPT !.pending = @ \o chunk], <<>>)

\* Mutant: what is still held back at the end is dropped.
FlushSieveHolding(s) == LET p == ProcessChunk(s, <<>>) IN [state |-> NewSieve, events |-> p.events]

\* What the end of the stream makes of a capture, `got' of Consume: a call that never came
\* to its end is prose.
Captured(q, got) ==
  CASE ~q.capturing -> <<>>
    [] q.capturing /\ got.ready -> TextEvent(got.prefix) \o CallEvent(got.calls) \o TextEvent(got.suffix)
    [] OTHER -> TextEvent(q.capture)

\* Mutant: the code span that never closed is not forgotten.
WaitsNever(p) == FALSE
\* Does text wait for the end of a code span?
WaitsForSpan(p) == p.state.pending # <<>> /\ p.state.span > 0

\* What the loop makes of the end of the stream; and, once more, of text that waits for
\* the end of a code span: an unmatched backtick is a character.
FlushLoops(s, loop(_, _)) ==
  FoldAlong(LAMBDA p, last :
              IF last /\ ~WaitsForSpan(p) THEN p
              ELSE loop([p.state EXCEPT !.span = IF last THEN 0 ELSE @], p.events),
            [state |-> s, events |-> <<>>], <<FALSE, TRUE>>)

\* What is left after the loops, `got' of Consume on what is captured.
Flushed(p, got) ==
  LET q == p.state
      noted(rest) == FoldAlong(LAMBDA t, ev : NoteText(t, ev.text), q, rest)
  IN  Using(Captured(q, got) \o TextEvent(q.pending), LAMBDA rest :
        [state |-> [noted(rest) EXCEPT !.capture = <<>>, !.capturing = FALSE, !.pending = <<>>],
         events |-> p.events \o rest])

FlushSieve(s) ==
  Using(FlushLoops(s, LAMBDA q, e : Sieve(q, e)), LAMBDA p : Flushed(p, Consume(p.state.capture)))
=============================================================================
