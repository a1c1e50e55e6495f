------------------------------ MODULE StreamPump ------------------------------
(***************************************************************************)
(* internal/sse/stream.go and internal/stream/engine.go: the three         *)
(* goroutines that bring one upstream stream to a handler.  The scanner    *)
(* reads lines, the pump parses them and gathers small pieces until there  *)
(* are enough of them or a timer fires, and the engine gives the results   *)
(* to the handler, unless the client leaves or the upstream falls silent.  *)
(*                                                                         *)
(* A send on a full channel blocks: `send' holds the results the pump has  *)
(* not got rid of yet, and the pump does nothing else meanwhile.           *)
(***************************************************************************)
EXTENDS NodeParser

CONSTANTS Lines,         \* the lines the upstream may send
          MaxLines,      \* bound on the lines of a stream
          BufferSize,    \* parsedLineBufferSize
          MinChars,      \* AccumulateConfig.MinChars, in tokens
          MaxKeepAlive,  \* ConsumeConfig.MaxKeepAliveNoInput
          IdleTicks      \* ConsumeConfig.IdleTimeout, in keep-alive intervals

ASSUME PumpAssumption ==
  /\ {MaxLines, MinChars, MaxKeepAlive, IdleTicks} \subseteq Nat
  /\ BufferSize \in Nat \ {0}
  /\ Lines \subseteq LineType

VARIABLES enabled, \* is thinking enabled for this request?
          read,    \* every line the scanner has read
          taken,   \* how many of them the pump has taken
          scan,    \* "reading", "eof" or "broken"; the channel is closed unless "reading"
          pumping, \* has the pump not come to its end?
          pump,    \* the pump's buffers
          out,     \* the channel of results
          engine,  \* the engine's state
          gone,    \* the request's context is done
          got      \* the results the handler has been given

pumpVars == <<enabled, read, taken, scan, pumping, pump, out, engine, gone, got>>

InitialType(think) == IF think THEN "thinking" ELSE "text"

PumpInit ==
  /\ enabled \in BOOLEAN
  /\ pumping = TRUE /\ read = <<>> /\ taken = 0 /\ scan = "reading" /\ out = <<>> /\ gone = FALSE /\ got = <<>>
  /\ pump = [cur |-> InitialType(enabled), text |-> <<>>, think |-> <<>>, detect |-> <<>>,
             flushed |-> FALSE, timer |-> FALSE, id |-> 0, send |-> <<>>]
  /\ engine = [pc |-> "running", reason |-> "", content |-> FALSE, quiet |-> 0]

-----------------------------------------------------------------------------
(* The scanner. *)

ScanLine ==
  /\ scan = "reading" /\ Len(read) < MaxLines /\ Len(read) - taken < BufferSize
  /\ \E l \in Lines : read' = Append(read, l)
  /\ UNCHANGED <<enabled, taken, scan, pumping, pump, out, engine, gone, got>>

\* The body ends, or cannot be read further; the latter also when it is closed
\* because the handler is done.
ScanEnd ==
  /\ scan = "reading"
  /\ scan' \in {"eof", "broken"}
  /\ UNCHANGED <<enabled, read, taken, pumping, pump, out, engine, gone, got>>

-----------------------------------------------------------------------------
(* The pump. *)

Buffered(s) == s.text # <<>> \/ s.think # <<>> \/ s.detect # <<>>

\* flushBuffer: thinking goes before text, both in one result.
Flush(s, force) ==
  LET parts == Part(s.think, "thinking") \o Part(s.text, "text")
      some  == parts # <<>> \/ s.detect # <<>>
      res   == Result(TRUE, FALSE, "", [parts |-> parts, detect |-> Part(s.detect, "thinking"), next |-> s.cur], s.id)
  IN  IF ~(force \/ ~s.flushed \/ Len(s.text) >= MinChars) THEN s
      ELSE [s EXCEPT !.text = <<>>, !.think = <<>>, !.detect = <<>>, !.flushed = TRUE, !.timer = FALSE,
                     !.send = IF some THEN Append(@, res) ELSE @,
                     !.id = IF some THEN 0 ELSE @]

\* Mutant: reasoning is buffered without sending the text before it.
GatherApart(s, part) ==
  IF IsThinking(part) THEN [s EXCEPT !.think = @ \o part.text] ELSE [s EXCEPT !.text = @ \o part.text]
\* One part of a line; text waiting is sent before thinking is buffered.
Gather(s, part) ==
  IF IsThinking(part)
  THEN LET t == IF s.text # <<>> THEN Flush(s, TRUE) ELSE s
       IN  [t EXCEPT !.think = @ \o part.text]
  ELSE LET t == [s EXCEPT !.text = @ \o part.text]
       IN  IF Contains(part.text, "\n") THEN Flush(t, TRUE) ELSE t

\* What each line means after each type of content.
Meaning ==
  [think \in BOOLEAN |-> [cur \in {"text", "thinking"} |-> [l \in Lines |-> ParseLine(l, think, cur)]]]

DetectText(r) == Joined([i \in DOMAIN r.detect |-> r.detect[i].text])

\* Mutant: the last flush looks at the text only.
FlushAtStopTextOnly(s) == IF s.text # <<>> THEN Flush(s, TRUE) ELSE s
FlushAtStop(s) == IF s.text # <<>> \/ s.detect # <<>> THEN Flush(s, TRUE) ELSE s

Gathered(s, parts) ==
  LET g[i \in 0..Len(parts)] == IF i = 0 THEN s ELSE Gather(g[i - 1], parts[i])
  IN  g[Len(parts)]

\* processLine.  The results of lines that stop have no parts of their own.
Process(s, r) ==
  LET t == [s EXCEPT !.cur = r.next, !.id = IF r.id > 0 THEN r.id ELSE @]
      g == Gathered([t EXCEPT !.detect = @ \o DetectText(r)], r.parts)
      h == IF Len(g.text) >= MinChars THEN Flush(g, FALSE) ELSE g
      f == FlushAtStop(t)
  IN  IF r.stop
      THEN IF r.bad # "" THEN [f EXCEPT !.send = Append(@, r)]
           ELSE [f EXCEPT !.send = Append(@, [r EXCEPT !.id = f.id]), !.id = 0]
      ELSE IF r.parsed /\ Buffered(h) THEN [h EXCEPT !.timer = TRUE]
      ELSE IF r.parsed THEN h ELSE t

PumpFree == pumping /\ pump.send = <<>>

PumpLine ==
  /\ PumpFree /\ taken < Len(read)
  /\ taken' = taken + 1
  /\ pump' = Process(pump, Meaning[enabled][pump.cur][read[taken + 1]])
  /\ UNCHANGED <<enabled, read, scan, pumping, out, engine, gone, got>>

\* Mutant: what is buffered when the stream ends is dropped.
EndQuietly(s) == [s EXCEPT !.timer = FALSE]
\* The label done: the rest is flushed, then the channel is closed.
End(s) == Flush(s, TRUE)

PumpEnd ==
  /\ PumpFree /\ taken = Len(read) /\ scan # "reading"
  /\ pumping' = FALSE /\ pump' = End(pump)
  /\ UNCHANGED <<enabled, read, taken, scan, out, engine, gone, got>>

\* Mutant: the timer goes off for text alone.
FireForText(s) == IF s.text # <<>> THEN Flush(s, TRUE) ELSE [s EXCEPT !.timer = FALSE]
Fire(s) == IF Buffered(s) THEN Flush(s, TRUE) ELSE [s EXCEPT !.timer = FALSE]

PumpTimer ==
  /\ PumpFree /\ pump.timer
  /\ pump' = Fire(pump)
  /\ UNCHANGED <<enabled, read, taken, scan, pumping, out, engine, gone, got>>

Send ==
  /\ pump.send # <<>> /\ Len(out) < BufferSize
  /\ out' = Append(out, Head(pump.send))
  /\ pump' = [pump EXCEPT !.send = Tail(@)]
  /\ UNCHANGED <<enabled, read, taken, scan, pumping, engine, gone, got>>

\* The context is done.  Every wait of the pump ends: between two lines it goes to
\* its end, in a send it gives up what it cannot send.
PumpCancel ==
  /\ PumpFree /\ gone
  /\ pumping' = FALSE /\ pump' = End(pump)
  /\ UNCHANGED <<enabled, read, taken, scan, out, engine, gone, got>>

\* Mutant: a send that blocks does not look at the context.
CanGiveUpNever == FALSE
CanGiveUp == gone /\ pump.send # <<>>
GiveUp ==
  /\ CanGiveUp
  /\ pump' = [pump EXCEPT !.send = <<>>]
  /\ UNCHANGED <<enabled, read, taken, scan, pumping, out, engine, gone, got>>

Closed == ~pumping /\ pump.send = <<>>

-----------------------------------------------------------------------------
(* The engine.  The context is looked at before every wait and after it. *)

EngineOn == engine.pc = "running"

Finalize(reason) == engine' = [engine EXCEPT !.pc = "finalized", !.reason = reason]

EngineCancel ==
  /\ EngineOn /\ gone
  /\ engine' = [engine EXCEPT !.pc = "context_done"]
  /\ UNCHANGED <<enabled, read, taken, scan, pumping, pump, out, gone, got>>

\* Mutant: silence is only counted before the first content.
SilentFirst == ~engine.content /\ engine.quiet + 1 >= MaxKeepAlive
Silent == IF engine.content THEN engine.quiet + 1 > IdleTicks ELSE engine.quiet + 1 >= MaxKeepAlive

\* A bound on `quiet' that no timeout reaches.
MaxQuiet == MaxKeepAlive + IdleTicks

\* `quiet' counts the ticks since the last content, or since the start.
Tick ==
  /\ EngineOn /\ ~gone
  /\ IF Silent THEN Finalize(IF engine.content THEN "idle_timeout" ELSE "no_content_timeout")
     ELSE engine' = [engine EXCEPT !.quiet = IF @ < MaxQuiet THEN @ + 1 ELSE @]
  /\ UNCHANGED <<enabled, read, taken, scan, pumping, pump, out, gone, got>>

\* The handlers stop at a stop and call visible parts content.
Seen(r) == r.parts # <<>>

Parsed ==
  /\ EngineOn /\ ~gone /\ out # <<>>
  /\ LET r == Head(out)
         e == IF Seen(r) THEN [engine EXCEPT !.content = TRUE, !.quiet = 0] ELSE engine
     IN  /\ got' = Append(got, r)
         /\ engine' = IF r.stop THEN [e EXCEPT !.pc = "finalized", !.reason = "stop"] ELSE e
  /\ out' = Tail(out)
  /\ UNCHANGED <<enabled, read, taken, scan, pumping, pump, gone>>

UpstreamDone ==
  /\ EngineOn /\ ~gone /\ out = <<>> /\ Closed
  /\ Finalize("upstream_completed")
  /\ UNCHANGED <<enabled, read, taken, scan, pumping, pump, out, gone, got>>

\* The client leaves, or the handler returns.
Leave ==
  /\ ~gone /\ gone' = TRUE
  /\ UNCHANGED <<enabled, read, taken, scan, pumping, pump, out, engine, got>>

PumpStep == PumpLine \/ PumpEnd \/ PumpTimer \/ Send \/ PumpCancel \/ GiveUp
EngineStep == EngineCancel \/ Parsed \/ UpstreamDone
PumpNext == ScanLine \/ ScanEnd \/ PumpStep \/ EngineStep \/ Tick \/ Leave

\* Goroutines run, the ticker ticks, a handler that is done returns, and a body
\* whose request is over is closed.  The pump's fairness is stated on the variable
\* that each of its steps moves, so that TLC need not evaluate the whole step to
\* know that it can happen.
PumpFairness ==
  /\ WF_taken(PumpFree /\ taken < Len(read) /\ taken' = taken + 1)
  /\ WF_pumping(PumpFree /\ (gone \/ (taken = Len(read) /\ scan # "reading")) /\ pumping' = FALSE)
  /\ WF_out(pump.send # <<>> /\ Len(out) < BufferSize /\ out' = Append(out, Head(pump.send)))
  /\ WF_pumpVars(GiveUp) /\ WF_pumpVars(EngineStep) /\ WF_pumpVars(Tick)
  /\ WF_pumpVars(~EngineOn /\ Leave) /\ WF_pumpVars(gone /\ ScanEnd)

PumpSpec == PumpInit /\ [][PumpNext]_pumpVars /\ PumpFairness
-----------------------------------------------------------------------------
(* Properties. *)

\* The state's types; the pump is idle once it has ended and has nothing to send.
PumpTypeOK ==
  /\ taken \in 0..Len(read) /\ Len(read) <= MaxLines /\ Len(out) <= BufferSize
  /\ scan \in {"reading", "eof", "broken"} /\ gone \in BOOLEAN
  /\ pumping \in BOOLEAN /\ pump.cur \in {"text", "thinking"}
  /\ ~pumping => ~Buffered(pump) /\ ~pump.timer
  /\ engine.pc \in {"running", "finalized", "context_done"}

Tagged(part) == [j \in DOMAIN part.text |-> <<part.type, part.text[j]>>]
Flat(parts) == Joined([i \in DOMAIN parts |-> Tagged(parts[i])])
FlatResults(rs) == Joined([i \in DOMAIN rs |-> Flat(rs[i].parts)])
Answer(flat) == Among(flat, {"text"} \X STRING)
DetectResults(rs) == Joined([i \in DOMAIN rs |-> DetectText(rs[i])])

\* CollectStream, the consumer of requests that do not stream: the lines one after
\* the other up to the first stop, nothing gathered.  It is the reference here.
CollectParsed(s, r) ==
  IF s.stopped THEN s
  ELSE [cur |-> r.next, stopped |-> r.stop,
        flat |-> s.flat \o Flat(r.parts), detect |-> s.detect \o DetectText(r)]
CollectLine(think, s, l) == CollectParsed(s, Meaning[think][s.cur][l])
CollectFirst(think) == [cur |-> InitialType(think), stopped |-> FALSE, flat |-> <<>>, detect |-> <<>>]
Collect(think, lines) ==
  LET u[i \in 0..Len(lines)] == IF i = 0 THEN CollectFirst(think) ELSE CollectLine(think, u[i - 1], lines[i])
  IN  u[Len(lines)]

\* Gathering pieces of an answer loses none, doubles none and keeps their order,
\* whatever the timer and the two channels do: what the handler was given, what is
\* under way and what is buffered is what the lines taken so far say.
NothingLost ==
  LET u == Collect(enabled, SubSeq(read, 1, taken))
  IN  ~gone /\ ~u.stopped =>
        /\ u.flat = FlatResults(got \o out \o pump.send) \o Flat(Part(pump.think, "thinking") \o Part(pump.text, "text"))
        /\ u.detect = DetectResults(got \o out \o pump.send) \o pump.detect

\* The loop over the lines in the Node function, which has no pump.
NodeMeaning ==
  [think \in BOOLEAN |-> [cur \in {"text", "thinking"} |-> [l \in Lines |-> NodeParseLine(l, think, cur)]]]
NodeCollectParsed(s, r) ==
  IF s.stopped THEN s
  ELSE [cur |-> r.next, stopped |-> r.stop, flat |-> s.flat \o (IF r.stop THEN <<>> ELSE Flat(r.parts))]
NodeCollectLine(s, l) == NodeCollectParsed(s, NodeMeaning[enabled][s.cur][l])
NodeCollect(lines) ==
  FoldLeft(NodeCollectLine, [cur |-> InitialType(enabled), stopped |-> FALSE, flat |-> <<>>], lines)

\* What the two parsers are known to read apart.  A type without a content is heard by Go
\* only; of an object's own text and its fragments Node says both, Go one; and a marker leaked
\* in front of a closing tag of the reasoning cuts off in Node what Go shows as text.
EmptyTyped(fs) == \E f \in ToSet(fs) : f.content = <<>> /\ f.type # ""
Retypes(l) == EmptyTyped(Direct(l)) \/ (l.v.k = "obj" /\ EmptyTyped(l.v.frags))
SaysTwice(l) == l.v.k = "obj" /\ l.v.t # <<>> /\ (l.v.frags # <<>> \/ l.p \notin ContentPaths)
CutsEarly(l) == l.v.k = "str" /\ FirstAt(l.v.t, "CONTENT_FILTER") \in 1..FirstAt(l.v.t, "</think>")
Apart(ls) == [retyped |-> \E l \in ToSet(ls) : Retypes(l),
              doubled |-> \E l \in ToSet(ls) : SaysTwice(l),
              cut     |-> \E l \in ToSet(ls) : CutsEarly(l)]

\* Node does not know hints, with which Go's answer ends.
BeforeHint(ls) ==
  LET hint == SelectInSeq(ls, LAMBDA l : l.kind = "hint") IN IF hint = 0 THEN ls ELSE SubSeq(ls, 1, hint - 1)

\* A reader's tokens, whatever their types.
Tokens(flat) == [i \in DOMAIN flat |-> flat[i][2]]

\* The parser is written twice.  Both deployments read the same answer out of a stream: text,
\* reasoning and the type of what follows, unless a line is one they are known to read apart.
\* With such lines they still end the answer at the same line; as long as both may show all,
\* types alone make no token appear or vanish, Node leaves none out but for the marker, and
\* Go none but for the doubled.
SameInNode ==
  LET lines == BeforeHint(read)
      go    == Collect(enabled, lines)
      node  == NodeCollect(lines)
      apart == Apart(lines)
  IN  Closed /\ out = <<>> /\ ~gone =>
        /\ node.stopped = go.stopped
        /\ ~(apart.retyped \/ apart.doubled \/ apart.cut) => node.flat = go.flat /\ node.cur = go.cur
        /\ enabled /\ ~apart.cut => Within(Tokens(go.flat), Tokens(node.flat))
        /\ enabled /\ ~apart.doubled => Within(Tokens(node.flat), Tokens(go.flat))

\* When the upstream ends the answer, whichever goroutine notices first, the handler has
\* been given all of the text, and all of that in which tool calls are looked for.
EndSeesAnswer ==
  engine.reason \in {"stop", "upstream_completed"} =>
    /\ Answer(FlatResults(got)) = Answer(Collect(enabled, read).flat)
    /\ DetectResults(got) = Collect(enabled, read).detect

\* Something buffered always has a timer running for it: the reader of a slow
\* answer never waits for the next line to see the last one.
BufferedHasTimer == pumping /\ pump.send = <<>> /\ Buffered(pump) => pump.timer

\* A model that was told not to show its reasoning does not, whatever fragments,
\* paths and tags the upstream uses.
ThinkingHidden == ~enabled => \A i \in DOMAIN got : \A j \in DOMAIN got[i].parts : ~IsThinking(got[i].parts[j])

\* Gathering is invisible to whoever reads the answer to its end: between the upstream's
\* lines and the handler no text is lost, doubled, out of order or left waiting, nor reasoning
\* before the end, where the pump drops what it has gathered of it.
AnswerArrives == PumpTypeOK /\ NothingLost /\ EndSeesAnswer /\ BufferedHasTimer

\* A stream of finite length ends for the handler even if the upstream never closes it, and
\* then both goroutines end, also when nobody receives what they send.
StreamEnds == <>~EngineOn /\ <>(Closed /\ scan # "reading")
=============================================================================
