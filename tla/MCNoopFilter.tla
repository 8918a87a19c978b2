--------------------------- MODULE MCNoopFilter ---------------------------
(* Two noop filters, each connected to its own source.                    *)
EXTENDS NoopFilter, TLC

CONSTANTS f1, f2, s1, s2

TwoFilters == {f1, f2}
TwoUpstreams == (f1 :> s1) @@ (f2 :> s2)
====
