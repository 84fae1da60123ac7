-------------------------- MODULE MCServerLifecycle --------------------------
EXTENDS ServerLifecycle

CONSTANTS s1, s2

\* Two services with a shutdown hook.
MCServices == {s1, s2}

\* No hook hangs, or the hook of s1 never returns.
MCNoHung == {}
MCHungS1 == {s1}

=============================================================================
