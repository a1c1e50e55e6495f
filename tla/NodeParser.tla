------------------------------ MODULE NodeParser ------------------------------
(***************************************************************************)
(* internal/js/chat-stream/sse_parse_impl.js: the parser of the Node       *)
(* function, written a second time after internal/sse/parser.go.  Where    *)
(* the two say the same SseParser's operators are used; what is here is    *)
(* where this one goes about it in another way.                            *)
(***************************************************************************)
EXTENDS SseParser

\* A fragment without a content says nothing here, not even its type, unlike in Go.
WithContent(fs) == SelectSeq(fs, LAMBDA f : f.content # <<>>)
NodeDirect(c) == WithContent(Direct(c))

\* The types of fragments first, then that of the path.
NodeNewType(c, enabled, cur) ==
  UpdateTypeFromExplicitPath(c.p, enabled, TypeAfter(Nested(c), TypeAfter(NodeDirect(c), cur)))

NodePartType(p, enabled, type) ==
  CASE p = "response/thinking_content" -> IF enabled /\ type = "text" THEN "text" ELSE "thinking"
    [] p \in {"response/fragments/-1/content", ""} -> type
    [] OTHER -> "text"

\* extractContentRecursive, asContentString: an object gives its text and its fragments,
\* on any path.
NodeValueParts(v, type) ==
  CASE v.k = "str"  -> Part(v.t, type)
    [] v.k = "list" -> FlattenSeq([i \in DOMAIN v.items |-> ItemParts(v.items[i], type)])
    [] v.k = "obj"  -> Part(v.t, type) \o FragParts(v.frags, type)

\* filterLeakedContentFilterParts, as in Go; but here it comes before the reasoning is split.
NodeFilterLeaked(parts) == FilterLeaked(parts)

\* Mutant: the type does not change with the closing tag.
NodeFinalizeKeepingType(parts, enabled, type) ==
  [parts |-> DropThinkingParts(SplitThinkingParts(parts).out, enabled), type |-> type]
\* finalizeThinkingParts
NodeFinalize(parts, enabled, type) ==
  LET split == SplitThinkingParts(parts)
  IN  [parts |-> DropThinkingParts(split.out, enabled), type |-> IF split.over THEN "text" ELSE type]

\* parseChunkForContent; `stop' says that the stream is over, `bad' how.
NodeResult(stop, bad, parts, next) == [stop |-> stop, bad |-> bad, parts |-> parts, next |-> next]

\* The chunks that are about no content.
NodeNoContent(c) == c.p \in SkipPaths \union StatusPaths \/ c.v.k = "none"
NodeEarly(c, cur) == NodeResult(c.p \in StatusPaths /\ c.v = Str(Finished), "", <<>>, cur)

NodeParseChunk(c, enabled, cur) ==
  LET type  == NodeNewType(c, enabled, cur)
      parts == FragParts(NodeDirect(c), "text") \o NodeValueParts(c.v, NodePartType(c.p, enabled, type))
      final == NodeFinalize(NodeFilterLeaked(parts), enabled, IF c.v.k = "obj" THEN TypeAfter(WithContent(c.v.frags), type) ELSE type)
  IN  CASE NodeNoContent(c) -> NodeEarly(c, cur)
        [] ~NodeNoContent(c) /\ ((c.p = "" /\ c.v = Str(Finished)) \/ (c.v.k = "list" /\ ListFinished(c.v.items))) ->
             NodeResult(TRUE, "", <<>>, type)
        [] OTHER -> NodeResult(FALSE, "", final.parts, final.type)

\* The lines of processStream; a hint of the upstream says nothing to it.
NodeParseLine(l, enabled, cur) ==
  CASE l.kind \in {"blank", "hint"} -> NodeResult(FALSE, "", <<>>, cur)
    [] l.kind = "done" -> NodeResult(TRUE, "", <<>>, cur)
    [] l.kind \in {"error", "filter"} -> NodeResult(TRUE, l.kind, <<>>, cur)
    [] OTHER -> NodeParseChunk(l, enabled, cur)
=============================================================================
