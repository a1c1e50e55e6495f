------------------------------- MODULE NodeSieve -------------------------------
(***************************************************************************)
(* internal/js/helpers/stream-tool-sieve: the sieve of the Node runtime    *)
(* that streams on Vercel.  It repeats internal/toolstream statement by    *)
(* statement but for one thing: its scanner trims the text it searches     *)
(* (toStringSafe) and returns indexes into the trimmed text, which its     *)
(* callers use on the text they passed.  A leading space is one token, and *)
(* so is the ">" of a tag, so that an index is off by as many tokens as    *)
(* the text has leading spaces; the model is faithful up to one of them.   *)
(***************************************************************************)
EXTENDS ToolSieve

NewNodeSieve == NewSieve

\* findToolMarkupTagOutsideIgnored, in the text without its leading spaces.
NodeTags(t) == Tags(TrimLeft(t))

\* parseToolCallsDetailed: a text whose wrappers are all in fenced code holds no call.
HasWrapperTag(t) == \E g \in ToSet(Tags(t)) : g.name = "tool_calls"
NodeParse(text) ==
  IF HasWrapperTag(TrimLeft(text)) /\ ~HasWrapperTag(StripFences(TrimLeft(text))) THEN <<>> ELSE ParseToolCalls(text)

\* consumeXMLToolCapture
NodeConsume(t) == ConsumeIn(t, NodeTags(t))

\* findToolSegmentStart
NodeSegmentStart(s, t) == SegmentStartIn(s, t, NodeTags(t))

\* splitSafeContentForToolDetection
NodeSafeLength(s, t) == SafeUpTo(s, t, PartialTag(TrimLeft(t)))

NodeLoop(s, events) ==
  SieveLoop(LAMBDA q : SieveTurn(q, NodeConsume(q.capture \o q.pending), NodeSegmentStart(q, q.pending), NodeSafeLength(q, q.pending)),
            s, events)

\* processToolSieveChunk
NodeChunk(s, chunk) == NodeLoop([s EXCEPT !.pending = @ \o chunk], <<>>)

\* flushToolSieve
NodeFlush(s) ==
  Using(FlushLoops(s, LAMBDA q, e : NodeLoop(q, e)), LAMBDA p : Flushed(p, NodeConsume(p.state.capture)))
=============================================================================
