------------------------------ MODULE SseParser ------------------------------
(***************************************************************************)
(* internal/sse/parser.go, line.go and content_filter_leak.go: what one    *)
(* line of the upstream's event stream contributes to an answer.           *)
(*                                                                         *)
(* A text is a sequence of tokens; the tokens with a meaning of their own  *)
(* are the tags of a reasoning block, the leaked filter marker and the     *)
(* word FINISHED.  A line is a record: `kind' says what the JSON is, `p',  *)
(* `append' and `v' are its path, its operation and its value.             *)
(***************************************************************************)
EXTENDS Naturals, Sequences, FiniteSets, SequencesExt, Loops

Tags == {"<think>", "</think>"}
Finished == <<"FINISHED">>
StatusPaths == {"response/status", "status"}
SkipPaths == {"response/fragments/0/status", "accumulated_token_usage", "quasi_status"}
ContentPaths == {"", "response/content", "response/thinking_content"}

\* A value: nothing, a string, a list of items, or an object.
NoValue == [k |-> "none"]
Str(t) == [k |-> "str", t |-> t]
List(s) == [k |-> "list", items |-> s]
Obj(t, fs) == [k |-> "obj", t |-> t, frags |-> fs]
Frag(type, t) == [p |-> "", append |-> FALSE, type |-> type, content |-> t, v |-> NoValue]
Item(p, append, v) == [p |-> p, append |-> append, type |-> "", content |-> <<>>, v |-> v]

\* What the values are: an item of a list may hold a list of fragments, and these hold no more.
Texts == Seq(STRING)
Pieces(values) == [p : STRING, append : BOOLEAN, type : STRING, content : Texts, v : values]
Fragments == Pieces({NoValue})
SimpleValues == {NoValue} \union [k : {"str"}, t : Texts]
ItemValues == SimpleValues \union [k : {"list"}, items : Seq(Fragments)]
Values == SimpleValues \union [k : {"list"}, items : Seq(Pieces(ItemValues))]
                 \union [k : {"obj"}, t : Texts, frags : Seq(Fragments)]
LineType == [kind : STRING, p : STRING, append : BOOLEAN, v : Values, id : Nat]

Line(kind, p, append, v, id) == [kind |-> kind, p |-> p, append |-> append, v |-> v, id |-> id]
Chunk(p, v) == Line("chunk", p, FALSE, v, 0)
-----------------------------------------------------------------------------
Part(t, type) == IF t = <<>> THEN <<>> ELSE <<[text |-> t, type |-> type]>>

FragType(type, default) ==
  CASE type = "THINK" -> "thinking" [] type = "RESPONSE" -> "text" [] OTHER -> default

FragParts(fs, default) ==
  Joined([i \in DOMAIN fs |-> Part(fs[i].content, FragType(fs[i].type, default))])

\* The last typed fragment decides what follows.
TypeAfter(fs, cur) ==
  LET typed == {i \in DOMAIN fs : fs[i].type \in {"THINK", "RESPONSE"}}
  IN  IF typed = {} THEN cur ELSE FragType(fs[CHOOSE i \in typed : \A j \in typed : j <= i].type, cur)

UpdateTypeFromExplicitPath(p, enabled, cur) ==
  CASE p = "response/content" -> "text"
    [] p = "response/thinking_content" /\ (~enabled \/ cur # "text") -> "thinking"
    [] OTHER -> cur

\* An APPEND to response/fragments.
Direct(c) == IF c.p = "response/fragments" /\ c.append /\ c.v.k = "list" THEN c.v.items ELSE <<>>

\* The fragments appended inside a patch of the whole response.
Nested(c) ==
  IF c.p # "response" \/ c.v.k # "list" THEN <<>>
  ELSE Joined([i \in DOMAIN c.v.items |->
         LET it == c.v.items[i]
         IN  IF it.p = "fragments" /\ it.append /\ it.v.k = "list" THEN it.v.items ELSE <<>>])

ResolvePartType(p, enabled, cur) ==
  CASE p = "response/thinking_content" -> IF enabled /\ cur = "text" THEN "text" ELSE "thinking"
    [] p \in {"response/fragments/-1/content", ""} -> cur
    [] OTHER -> "text"

ItemType(p, default) ==
  CASE p \in {"response/thinking_content", "thinking"} -> "thinking"
    [] p \in {"response/content", "content", "response", "fragments"} -> "text"
    [] OTHER -> default

\* One item of a list value: its parts.  Status items and skipped paths have none.
ItemParts(it, default) ==
  IF it.v.k = "none" \/ it.p \in StatusPaths \union SkipPaths THEN <<>>
  ELSE IF it.content # <<>> THEN Part(it.content, FragType(it.type, default))
  ELSE IF it.v.k = "list" THEN FragParts(it.v.items, ItemType(it.p, default))
  ELSE IF it.v.k = "str" /\ it.v.t # Finished THEN Part(it.v.t, ItemType(it.p, default))
  ELSE <<>>

ListFinished(items) ==
  \E i \in DOMAIN items : items[i].p \in StatusPaths /\ items[i].v = Str(Finished)

StripTags(t) == Among(t, STRING \ Tags)

\* The first place of a token, 0 if it has none.
FirstAt(t, x) == SelectInSeq(t, LAMBDA y : y = x)

\* A closing tag inside reasoning turns everything after it, in this line and
\* later ones, into text.
SplitPart(s, part) ==
  LET closes == FirstAt(part.text, "</think>")
  IN  IF part.type # "thinking" \/ s.over
      THEN [s EXCEPT !.out = @ \o Part(StripTags(part.text), "text")]
      ELSE IF closes = 0 THEN [s EXCEPT !.out = Append(@, part)]
      ELSE [over |-> TRUE,
            out  |-> s.out \o Part(SubSeq(part.text, 1, closes - 1), "thinking")
                           \o Part(StripTags(SubSeq(part.text, closes + 1, Len(part.text))), "text")]

SplitThinkingParts(parts) ==
  LET split[i \in 0..Len(parts)] ==
        IF i = 0 THEN [over |-> FALSE, out |-> <<>>] ELSE SplitPart(split[i - 1], parts[i])
  IN  split[Len(parts)]

\* A leaked marker is cut off with everything behind it; nothing left, no part.
WithoutLeak(part) ==
  LET at == FirstAt(part.text, "CONTENT_FILTER")
  IN  IF at = 0 THEN <<part>> ELSE Part(SubSeq(part.text, 1, at - 1), part.type)
FilterLeaked(parts) == Joined([i \in DOMAIN parts |-> WithoutLeak(parts[i])])

IsThinking(part) == part.type = "thinking"
Thinking(parts) == {x \in ToSet(parts) : IsThinking(x)}

\* Mutant: reasoning is shown although it was not asked for.
KeepThinkingParts(parts, enabled) == parts
DropThinkingParts(parts, enabled) ==
  IF enabled THEN parts ELSE Among(parts, ToSet(parts) \ Thinking(parts))

Nothing(cur) == [parts |-> <<>>, detect |-> <<>>, finished |-> FALSE, next |-> cur]

ParseChunk(c, enabled, cur) ==
  LET typed    == TypeAfter(Nested(c), TypeAfter(Direct(c), UpdateTypeFromExplicitPath(c.p, enabled, cur)))
      default  == ResolvePartType(c.p, enabled, typed)
      wrapped  == IF c.v.k = "obj" /\ ~(c.v.t # <<>> /\ c.p \in ContentPaths) THEN c.v.frags ELSE <<>>
      value    == CASE c.v.k = "str"  -> Part(c.v.t, default)
                    [] c.v.k = "list" -> Joined([i \in DOMAIN c.v.items |-> ItemParts(c.v.items[i], default)])
                    [] c.v.k = "obj" /\ wrapped = <<>> /\ c.p \in ContentPaths -> Part(c.v.t, default)
                    [] OTHER -> FragParts(wrapped, default)
      finished == \/ c.v = Str(Finished) /\ c.p \in StatusPaths \union {""}
                  \/ c.v.k = "list" /\ ListFinished(c.v.items)
      split    == SplitThinkingParts(FragParts(Direct(c), "text") \o value)
      parts    == FilterLeaked(split.out)
  IN  IF c.v.k = "none" \/ c.p \in SkipPaths THEN Nothing(cur)
      ELSE IF c.p \in StatusPaths /\ c.v.k = "str" THEN [Nothing(cur) EXCEPT !.finished = finished]
      ELSE IF finished THEN [Nothing(TypeAfter(wrapped, typed)) EXCEPT !.finished = TRUE]
      ELSE [parts    |-> DropThinkingParts(parts, enabled),
            detect   |-> Among(parts, Thinking(parts)),
            finished |-> FALSE,
            next     |-> IF split.over THEN "text" ELSE TypeAfter(wrapped, typed)]

\* ParseDeepSeekContentLine: LineResult.
Result(parsed, stop, bad, ch, id) ==
  [parsed |-> parsed, stop |-> stop, bad |-> bad, parts |-> ch.parts, detect |-> ch.detect,
   next |-> ch.next, id |-> id]

ParseLine(c, enabled, cur) ==
  CASE c.kind = "blank" -> Result(FALSE, FALSE, "", Nothing(cur), 0)
    [] c.kind = "done" -> Result(TRUE, TRUE, "", Nothing(cur), 0)
    [] c.kind \in {"error", "filter", "hint"} -> Result(TRUE, TRUE, c.kind, Nothing(cur), 0)
    [] OTHER -> LET ch == ParseChunk(c, enabled, cur) IN Result(TRUE, ch.finished, "", ch, c.id)
=============================================================================
