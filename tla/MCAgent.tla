------------------------------ MODULE MCAgent ------------------------------
(* Instances of Agent for TLC.                                             *)
EXTENDS Agent, TLC

CONSTANTS k1, k2, a, b

Dep(k, g, dg, n) == [key |-> k, gen |-> g, digest |-> dg, size |-> n, strict |-> FALSE]

\* One key: two generations, two contents competing for the second one.
Rivals == {Dep(k1, 1, a, 1), Dep(k1, 2, a, 1), Dep(k1, 2, b, 1)}

\* One artifact of several chunks that any target takes, one that asks for
\* atomic activation and one over the limit.
Artifacts == {Dep(k1, 1, a, 3), [Dep(k1, 2, b, 2) EXCEPT !.strict = TRUE],
              Dep(k1, 3, b, 4)}

\* One key, three generations.
Series == {Dep(k1, 1, a, 1), Dep(k1, 2, b, 1), Dep(k1, 3, a, 1)}

\* Two keys with a deployment each, the second of a newer generation.
OnePerKey == {Dep(k1, 1, a, 1), Dep(k2, 2, b, 1)}

\* The same content at the same generation for two keys.
Twins == {Dep(k1, 1, a, 1), Dep(k2, 1, a, 1)}
=============================================================================
