----------------------------- MODULE MCMapBuffer -----------------------------
EXTENDS MapBuffer

CONSTANTS m1, i1, cancel, free

\* a map request and an invocation, against a thread that cancels and one that frees
MCMapRequests == {m1}
MCRundowns == {m1, i1}
MCClosers == {cancel, free}
MCFreers == {free}
=============================================================================
