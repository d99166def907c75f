------------------------- MODULE MCDispatchPipeline -------------------------
EXTENDS DispatchPipeline

\* Dispatch mode with no gate and no intent judgment.
Plain == [loop |-> FALSE, brief |-> FALSE, diff |-> FALSE, intent |-> FALSE,
          long |-> FALSE]
PlainConfs == {Plain}

\* Loop mode, and dispatch mode with both gates: each with the intent judgment
\* and a timeout above the default, which leaves a pend that is older than the
\* default without expiring it; dispatch mode with the intent judgment alone.
AllConfs ==
  {Plain,
   [Plain EXCEPT !.loop = TRUE, !.intent = TRUE, !.long = TRUE],
   [Plain EXCEPT !.brief = TRUE, !.diff = TRUE, !.intent = TRUE, !.long = TRUE],
   [Plain EXCEPT !.intent = TRUE]}
=============================================================================
