------------------------------ MODULE ToolMarkup ------------------------------
(***************************************************************************)
(* internal/toolcall: how a text is searched for tool calls.  The model    *)
(* asks for a call with                                                    *)
(*    <tool_calls> <invoke name=...> arguments </invoke> </tool_calls>     *)
(* and the text around it may quote such markup in Markdown code.          *)
(*                                                                         *)
(* A text is a sequence of tokens.  The start of a tag and the ">" that    *)
(* ends it are tokens of their own, because a stream may be cut between    *)
(* them; "{}" are the arguments of a call; "tick" and "tick3" are one and   *)
(* three backticks; everything else is prose.  The many spellings of a     *)
(* tag that the scanner accepts are one token here; CDATA, comments and    *)
(* ~~~ fences, which are skipped like fenced code, are left out.           *)
(***************************************************************************)
EXTENDS Naturals, Integers, Sequences, FiniteSets, SequencesExt, FiniteSetsExt

\* FoldLeft, evaluated along the sequence (texts are folded in every step).
FoldAlong(op(_, _), base, s) ==
  LET upTo[n \in 0..Len(s)] == IF n = 0 THEN base ELSE op(upTo[n - 1], s[n]) IN upTo[Len(s)]

\* `body' of x, which is computed once however often the body uses it.
Using(x, body(_)) == body(x)

Spaces == {"nl", " "}
TagStarts == {"<tool_calls", "</tool_calls", "<invoke", "</invoke"}
TagName(x) == IF x \in {"<tool_calls", "</tool_calls"} THEN "tool_calls" ELSE "invoke"
Closes(x) == x \in {"</tool_calls", "</invoke"}

TrimLeft(t) ==
  LET words == {i \in DOMAIN t : t[i] \notin Spaces}
  IN  IF words = {} THEN <<>> ELSE SubSeq(t, Min(words), Len(t))
AllSpace(t) == TrimLeft(t) = <<>>
-----------------------------------------------------------------------------
\* Backticks.

Ticks(x) == CASE x = "tick" -> 1 [] x = "tick3" -> 3 [] OTHER -> 0

\* The run of backticks that starts at i: its last token and its length.
RunEnd(t, i) == Max({j \in i..Len(t) : \A k \in i..j : Ticks(t[k]) > 0})
RunLength(t, i) == FoldAlong(LAMBDA n, x : n + Ticks(x), 0, SubSeq(t, i, RunEnd(t, i)))
Runs(t, from) == {i \in from..Len(t) : Ticks(t[i]) > 0 /\ (i = from \/ Ticks(t[i - 1]) = 0)}

\* markdownCodeSpanEnd: where the code that a run at i opens ends, 0 if it does not.
\* A run without a partner is tried again without its first backtick.
CodeSpanEnd(t, i) ==
  LET later   == Runs(t, RunEnd(t, i) + 1)
      lengths == {RunLength(t, j) : j \in later} \intersect 1..RunLength(t, i)
  IN  IF lengths = {} THEN 0
      ELSE RunEnd(t, Min({j \in later : RunLength(t, j) = Max(lengths)}))
-----------------------------------------------------------------------------
(* Tags. *)

\* scanToolMarkupTagAt: the name must end there, and some ">" must follow.
IsTagAt(t, i) ==
  /\ t[i] \in TagStarts /\ i < Len(t) /\ t[i + 1] \in Spaces \union {">"}
  /\ \E j \in i + 1..Len(t) : t[j] = ">"
TagAt(t, i) ==
  [start |-> i, end |-> Min({j \in i + 1..Len(t) : t[j] = ">"}), name |-> TagName(t[i]), closing |-> Closes(t[i])]

\* Every tag outside inline code, in order (FindToolMarkupTagOutsideIgnored).
Tags(t) ==
  IF TagStarts \intersect ToSet(t) = {} THEN <<>> ELSE
  FoldAlong(LAMBDA s, i :
             CASE i < s.at -> s
               [] i >= s.at /\ Ticks(t[i]) > 0 /\ CodeSpanEnd(t, i) > 0 -> [s EXCEPT !.at = CodeSpanEnd(t, i) + 1]
               [] i >= s.at /\ IsTagAt(t, i) -> [at |-> TagAt(t, i).end + 1, tags |-> Append(s.tags, TagAt(t, i))]
               [] OTHER -> s,
           [at |-> 1, tags |-> <<>>], [i \in DOMAIN t |-> i]).tags

IsOpen(tag, name) == tag.name = name /\ ~tag.closing
IsClose(tag, name) == tag.name = name /\ tag.closing

\* FindMatchingToolMarkupClose: the index of the tag that closes tags[k], or 0.
MatchingClose(tags, k) ==
  LET name == tags[k].name
      depth(m) == 1 + Cardinality({j \in k + 1..m : IsOpen(tags[j], name)})
                    - Cardinality({j \in k + 1..m : IsClose(tags[j], name)})
      ends == {m \in k + 1..Len(tags) : depth(m) = 0}
  IN  IF ends = {} THEN 0 ELSE Min(ends)

\* The first tag of a kind, 0 if there is none.
FirstOpen(tags, name) == SelectInSeq(tags, LAMBDA g : IsOpen(g, name))
FirstCloseAfter(tags, k, name) ==
  LET ms == {m \in k + 1..Len(tags) : IsClose(tags[m], name)} IN IF ms = {} THEN 0 ELSE Min(ms)

\* The blocks of an element that are not inside another one, as pairs of tag indexes.
Blocks(tags, name) ==
  FoldAlong(LAMBDA s, k :
             IF k < s.at \/ ~IsOpen(tags[k], name) \/ MatchingClose(tags, k) = 0 THEN s
             ELSE [at |-> MatchingClose(tags, k) + 1, out |-> Append(s.out, <<k, MatchingClose(tags, k)>>)],
           [at |-> 1, out |-> <<>>], [k \in DOMAIN tags |-> k]).out
-----------------------------------------------------------------------------
(* Calls. *)

Lines(t) ==
  FoldAlong(LAMBDA ls, x : IF ls # <<>> /\ Last(Last(ls)) # "nl" THEN [ls EXCEPT ![Len(ls)] = Append(@, x)]
                          ELSE Append(ls, <<x>>), <<>>, t)

LeadingTicks(line) == LET l == TrimLeft(line) IN IF l = <<>> \/ Ticks(l[1]) = 0 THEN 0 ELSE RunLength(l, 1)
ClosesFence(line, n) ==
  LeadingTicks(line) >= n /\ LET l == TrimLeft(line) IN AllSpace(SubSeq(l, RunEnd(l, 1) + 1, Len(l)))

\* stripFencedCodeBlocks: what is left of a text without its fenced code.
StripFences(t) ==
  FoldAlong(LAMBDA s, l :
             CASE s.fence = 0 /\ LeadingTicks(l) >= 3 -> [s EXCEPT !.fence = LeadingTicks(l)]
               [] s.fence = 0 /\ LeadingTicks(l) < 3 -> [s EXCEPT !.out = @ \o l]
               [] s.fence > 0 /\ ClosesFence(l, s.fence) -> [s EXCEPT !.fence = 0]
               [] OTHER -> s,
           [fence |-> 0, out |-> <<>>], Lines(t)).out

\* parseSingleXMLToolCall: arguments, or nothing at all, make a call; prose does not.
InvokeCall(body) ==
  CASE AllSpace(body) -> <<"call()">>
    [] ~AllSpace(body) /\ Head(TrimLeft(body)) = "{}" -> <<"call{}">>
    [] OTHER -> <<>>

Between(t, open, close) == SubSeq(t, open.end + 1, close.start - 1)

\* What the elements of a kind in t hold, each read with `read'.
InBlocks(t, tags, name, read(_)) ==
  Using(Blocks(tags, name), LAMBDA bs :
    FlattenSeq([b \in DOMAIN bs |-> read(Between(t, tags[bs[b][1]], tags[bs[b][2]]))]))

InvokeCalls(body) == InBlocks(body, Tags(body), "invoke", InvokeCall)

\* repairMissingXMLToolCallsOpeningWrapper: the calls of a text that lacks the
\* first tag of its wrapper only.
RepairedCalls(t, tags) ==
  LET invoke == FirstOpen(tags, "invoke")
      close  == SelectLastInSeq(tags, LAMBDA g : IsClose(g, "tool_calls"))
  IN  IF FirstOpen(tags, "tool_calls") > 0 \/ invoke = 0 \/ close <= invoke THEN <<>>
      ELSE InvokeCalls(SubSeq(t, tags[invoke].start, tags[close].start - 1))

\* ParseStandaloneToolCallsDetailed
CallsOf(t, tags) ==
  IF Blocks(tags, "tool_calls") = <<>> THEN RepairedCalls(t, tags)
  ELSE InBlocks(t, tags, "tool_calls", InvokeCalls)
ParseToolCalls(text) ==
  IF TagStarts \intersect ToSet(text) = {} THEN <<>>
  ELSE Using(StripFences(TrimLeft(text)), LAMBDA t : CallsOf(t, Tags(t)))

\* stripLeakedToolCallWrapperBlocks: a text without its complete wrapper blocks.
Remaining(t, hidden) ==
  IF hidden = {} THEN t
  ELSE FoldAlong(LAMBDA s, i : IF i \in hidden THEN s ELSE Append(s, t[i]), <<>>, [i \in DOMAIN t |-> i])
InWrappers(tags) == UNION {tags[b[1]].start..tags[b[2]].end : b \in ToSet(Blocks(tags, "tool_calls"))}
StripLeakedBlocks(t) == Remaining(t, InWrappers(Tags(t)))
=============================================================================
