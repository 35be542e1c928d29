---------------------------- MODULE MCScheduleDeps ----------------------------
EXTENDS ScheduleDeps

CONSTANTS a, b, e

\* An input, a temporary and a temporary of no bytes.
MCAllocs == {a, b, e}
MCInputAllocs == {a}
MCEmptyAllocs == {e}
=============================================================================
