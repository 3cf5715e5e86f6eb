------------------------ MODULE MC_AsyncKeyExecutor ------------------------
(* Model-checking instance of AsyncKeyExecutor.                            *)
EXTENDS AsyncKeyExecutor, FiniteSets

\* One key carries every interaction of the protocol; the goroutines of
\* different keys share only the in-flight counter.
MCKeys == {"k1"}
MCGens == 0..2
\* Passing run: well-formed objects with non-empty keys.
MCInputKeys == MCKeys
MCInputGens == MCGens
\* Empty sync keys (an object GetKey cannot name).
MCInputKeysEmpty == MCKeys \cup {NoKey}
\* Objects without metadata (a Delete tombstone) next to normal ones.
MCInputGensTombstone == MCGens \cup {NoMeta}
\* State constraint: at most one submitted object has an empty key, so its
\* leaked increment narrows admission to MaxGoRoutines - 1 runs but, with
\* MaxGoRoutines = 3, never closes it (three leaks would block the caller).
MCOneEmptyKey == Cardinality({e \in 1..Len(events) : events[e].key = NoKey}) <= 1
=============================================================================
