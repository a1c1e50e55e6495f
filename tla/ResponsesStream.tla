---------------------------- MODULE ResponsesStream ----------------------------
(***************************************************************************)
(* internal/httpapi/openai/responses/responses_stream_*.go: an answer as   *)
(* the events of the Responses API.  The reasoning, the message and each   *)
(* call is an output item with an index: added, given a content part,      *)
(* filled, and done; the completed response lists the items again.         *)
(*                                                                         *)
(* `fn' is the output index of the k-th call of the present batch, `added' *)
(* and `done' which of them have been announced and finished.              *)
(***************************************************************************)
EXTENDS AnswerTurn

NoFunctions == [fn |-> <<>>, done |-> {}]
ResponsesNew ==
  [acc |-> NoText, sieve |-> NewSieve, calls |-> FALSE, callsDone |-> FALSE, next |-> 0,
   messageAt |-> -1, messagePart |-> FALSE, text |-> <<>>,
   reasoningAt |-> -1, reasoningPart |-> FALSE, reasoningClosed |-> FALSE, reasoning |-> <<>>,
   functions |-> NoFunctions, upstream |-> FALSE, error |-> NoError, sent |-> <<[e |-> "created"]>>]

SendEvent(s, ev) == [s EXCEPT !.sent = Append(@, ev)]
SendAll(s, evs) == [s EXCEPT !.sent = @ \o evs]
Item(e, i, kind, x) == [e |-> e, i |-> i, kind |-> kind, x |-> x]

\* closeReasoningItem
CloseReasoning(s) ==
  LET i == s.reasoningAt
      part == IF s.reasoningPart THEN <<Item("part_done", i, "reasoning", s.reasoning)>> ELSE <<>>
  IN  IF i < 0 \/ s.reasoningClosed THEN s
      ELSE [SendAll(s, part \o <<Item("item_done", i, "reasoning", s.reasoning)>>)
              EXCEPT !.reasoningClosed = TRUE, !.reasoningPart = FALSE]

\* closeMessageItem: the item is announced as done each time.
CloseMessage(s) ==
  LET i == s.messageAt
      part == IF s.messagePart THEN <<Item("part_done", i, "message", s.text)>> ELSE <<>>
  IN  IF i < 0 THEN s
      ELSE [SendAll(s, part \o <<Item("item_done", i, "message", s.text)>>) EXCEPT !.messagePart = FALSE]

\* The item of a kind, added if it is new; its part likewise.
AddReasoning(s) ==
  LET t == IF s.reasoningAt >= 0 THEN s
           ELSE SendEvent([s EXCEPT !.reasoningAt = s.next, !.next = @ + 1], Item("item_added", s.next, "reasoning", <<>>))
  IN  IF t.reasoningPart THEN t
      ELSE [SendEvent(t, Item("part_added", t.reasoningAt, "reasoning", <<>>)) EXCEPT !.reasoningPart = TRUE]
AddMessage(s) ==
  LET t == IF s.messageAt >= 0 THEN s
           ELSE SendEvent([s EXCEPT !.messageAt = s.next, !.next = @ + 1], Item("item_added", s.next, "message", <<>>))
  IN  IF t.messagePart THEN t
      ELSE [SendEvent(t, Item("part_added", t.messageAt, "message", <<>>)) EXCEPT !.messagePart = TRUE]

EmitReasoning(s, x) ==
  LET t == AddReasoning(s)
  IN  IF x = <<>> THEN s ELSE SendEvent([t EXCEPT !.reasoning = @ \o x], Item("delta", t.reasoningAt, "reasoning", x))
EmitText(s, x) ==
  LET t == AddMessage(CloseReasoning(s))
  IN  IF x = <<>> THEN s ELSE SendEvent([t EXCEPT !.text = @ \o x], Item("delta", t.messageAt, "message", x))

\* emitFunctionCallDoneEvents: the k-th call of the batch, announced and finished.
EmitCall(s, k, call) ==
  LET isNew == k > Len(s.functions.fn)
      t == IF ~isNew THEN s
           ELSE LET c == CloseReasoning(s)
                IN  SendEvent([c EXCEPT !.functions.fn = Append(@, c.next), !.next = @ + 1, !.calls = TRUE],
                              Item("item_added", c.next, "call", <<call>>))
  IN  IF k \in s.functions.done THEN s
      ELSE SendEvent([t EXCEPT !.functions.done = @ \union {k}, !.callsDone = TRUE],
                     Item("item_done", t.functions.fn[k], "call", <<call>>))
EmitCalls(s, cs) == FoldAlong(LAMBDA t, k : EmitCall(t, k, cs[k]), s, [k \in DOMAIN cs |-> k])

\* processToolStreamEvents, for one event.
ResponsesEvent(s, ev, o) ==
  LET x == CleanVisibleOutput(ev.text, o)
  IN  CASE ev.calls # <<>> -> [EmitCalls(s, ev.calls) EXCEPT !.functions = NoFunctions]
        [] ev.calls = <<>> /\ (s.calls \/ x = <<>> \/ (o.search /\ IsCitation(x))) -> s
        [] OTHER -> EmitText(s, x)

ResponsesEvents(s, sv, o) == FoldAlong(LAMBDA u, ev : ResponsesEvent(u, ev, o), [s EXCEPT !.sieve = sv.state], sv.events)

\* A part whose text, `d', has been added to what there is.
ResponsesAdded(t, p, d, o) ==
  CASE p.type = "thinking" -> EmitReasoning(t, d.vis)
    [] p.type # "thinking" /\ (d.raw = <<>> \/ d.cite) -> t
    [] OTHER -> ResponsesEvents(t, ProcessChunk(t.sieve, d.raw), o)
ResponsesPart(s, p, o) == Using(ApplyPart(s.acc, p, o), LAMBDA d : ResponsesAdded([s EXCEPT !.acc = d.acc], p, d, o))

ResponsesParsed(s, r, o) ==
  FoldAlong(LAMBDA t, p : ResponsesPart(t, p, o), [s EXCEPT !.acc = ApplyDetection(@, r)], r.parts)

ResponsesStop(s, bad) == [s EXCEPT !.upstream = @ \/ bad = "error"]

ResponsesFailed(s, err) == SendEvent([s EXCEPT !.error = err], [e |-> "error", status |-> err.status, code |-> err.code])

\* buildCompletedResponseObject: the items again; calls without an index get one.
CompletedOutput(s, calls) ==
  LET at(k) == IF k <= Len(s.functions.fn) THEN s.functions.fn[k] ELSE s.next + k - Len(s.functions.fn) - 1
  IN  (IF s.reasoningAt >= 0 THEN {Item("item", s.reasoningAt, "reasoning", s.reasoning)} ELSE {})
        \union (IF s.messageAt >= 0 THEN {Item("item", s.messageAt, "message", s.text)} ELSE {})
        \union {Item("item", at(k), "call", <<calls[k]>>) : k \in DOMAIN calls}

ResponsesLast(d, turn, result, defer) ==
  CASE result.error # NoError /\ defer -> [d EXCEPT !.error = result.error]
    [] result.error # NoError /\ ~defer -> ResponsesFailed(d, result.error)
    [] OTHER -> SendEvent(d, [e |-> "finish", reason |-> result.finish, output |-> CompletedOutput(d, turn.calls)])

\* Calls that only the whole text tells, then the items that are open.
ResponsesClosed(f, calls) ==
  CloseMessage(CloseReasoning(
    CASE calls = <<>> -> f
      [] calls # <<>> /\ f.callsDone -> [f EXCEPT !.calls = TRUE]
      [] OTHER -> EmitCalls(f, calls)))
ResponsesFinalize(s, filter, defer, o) ==
  Using(ResponsesEvents([s EXCEPT !.error = NoError], FlushSieve(s.sieve), o), LAMBDA f :
    Using(BuildTurn(f.acc, filter, f.upstream, f.calls, <<>>, o), LAMBDA turn :
      Using(ResponsesClosed(f, turn.calls), LAMBDA d : ResponsesLast(d, turn, FinalizeTurn(turn, d.calls), defer))))
=============================================================================
