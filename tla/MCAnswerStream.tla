---------------------------- MODULE MCAnswerStream ----------------------------
EXTENDS AnswerStream

Opts(stream, tools, required) == [stream |-> stream, thinking |-> TRUE, search |-> TRUE, tools |-> tools, required |-> required]
MCOptions == {Opts(TRUE, TRUE, FALSE), Opts(TRUE, FALSE, FALSE), Opts(TRUE, TRUE, TRUE), Opts(FALSE, TRUE, FALSE), Opts(FALSE, TRUE, TRUE)}
\* Every surface, with and without an account.  For some the history is off, or the entry is
\* deleted, or the history switched off, while they run.
Plain == {Opts(TRUE, TRUE, FALSE), Opts(FALSE, TRUE, FALSE)}
MCAsked ==
  {r \in [surface : {"chat", "responses", "claude", "gemini", "vercel"}, opts : MCOptions,
          managed : BOOLEAN, on : BOOLEAN, meddled : BOOLEAN] :
     /\ r.on \/ (r.managed /\ r.opts = Opts(TRUE, TRUE, FALSE))
     /\ r.meddled => r.on /\ r.managed /\ r.opts \in Plain}
Text(t) == [parts |-> <<[type |-> "text", text |-> t]>>, detect |-> <<>>]
Thought(t) == [parts |-> <<[type |-> "thinking", text |-> t]>>, detect |-> <<>>]
Hidden(t) == [parts |-> <<>>, detect |-> <<[type |-> "thinking", text |-> t]>>]
Call == <<"<tool_calls", ">", "<invoke", ">", "{}", "</invoke", ">", "</tool_calls", ">">>
\* Reasoning, a whole call with prose around it that leaves a code span open, the two
\* halves of a call (each alone is prose), a call in hidden reasoning, and prose with the
\* markers of two sources, one of them in front.
MCResults == {Thought(<<"t">>), Text(<<"b">> \o Call \o <<"c", "tick">>),
              Text(<<"<tool_calls", ">", "<invoke">>), Text(<<">", "{}", "</invoke", ">", "</tool_calls", ">">>),
              Hidden(Call), Text(<<"[cite]", "d", "[ref]">>)}
=============================================================================
