---- MODULE MCStreamPump ----
EXTENDS StreamPump
\* Text of the current type, a closing tag in the reasoning, fragments of both types, a leaked
\* marker after a line break in a nested patch, and two kinds of end; and what the two parsers
\* read apart: an answer's first object with a type that has no content, an object with a text of
\* its own and fragments, and a leaked marker in front of a closing tag.
MCLines == {
  Chunk("", Str(<<"h">>)),
  Chunk("response/thinking_content", Str(<<"b", "</think>", "c">>)),
  Line("chunk", "response/fragments", TRUE, List(<<Frag("RESPONSE", <<"d">>), Frag("THINK", <<"e">>)>>), 7),
  Chunk("response", List(<<Item("fragments", TRUE, List(<<Frag("RESPONSE", <<"f", "\n", "CONTENT_FILTER">>)>>))>>)),
  Chunk("", List(<<Item("content", FALSE, Str(<<"g">>)), Item("status", FALSE, Str(Finished))>>)),
  Line("error", "", FALSE, NoValue, 0),
  Chunk("", Obj(<<>>, <<Frag("RESPONSE", <<"i">>), Frag("THINK", <<>>)>>)),
  Chunk("response/content", Obj(<<"k">>, <<Frag("RESPONSE", <<"l">>)>>)),
  Chunk("response/thinking_content", Str(<<"m", "CONTENT_FILTER", "</think>", "n">>)) }
====
