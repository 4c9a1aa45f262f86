-------------------------------- MODULE MCMux --------------------------------
EXTENDS Mux

AllModes == {"anyOf", "mostOf", "allOf"}

Pairs(K) == {<<a, b>> : a, b \in K}
Triples(K) == {<<a, b, c>> : a, b, c \in K}

\* Awaitables that are never dropped unasked, and some that can be dropped before they
\* start; Abortable or not; that end while they are started or not.
PlainKinds ==
  {k \in ChildKinds : /\ k.abort \in {"always", "no"} /\ ~k.must /\ k.early # "always"
                      /\ ~k.fails}

\* Skippable awaitables that do not fail while starting.
SkippableKinds ==
  {k \in ChildKinds : /\ k.early = "always" /\ k.start # "throws" /\ k.abort # "always"
                      /\ k.start = "ready" => ~k.fails}

PairsAndTriples == Pairs(ChildKinds) \cup Triples(PlainKinds \cup SkippableKinds)
=============================================================================
