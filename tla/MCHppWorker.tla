---------------------------- MODULE MCHppWorker -----------------------------
(***************************************************************************)
(* Values for the constants of HppWorker.                                  *)
(***************************************************************************)
EXTENDS HppWorker, TLC

CONSTANTS t1, t2, o1, o2, r1, r2, k1, k2

\* Each origin is a site of its own.
RpApart == (o1 :> "rp1") @@ (o2 :> "rp2")

WithCallback(o) == [origin |-> o, cb |-> o]
NoCallback(o)   == [origin |-> o, cb |-> None]

\* Both origins enrolled, with and without callbacks.
BothSites  == {{WithCallback(o1), WithCallback(o2)}}
MixedSites == {{WithCallback(o2)}}

\* Tab t1 shows o1; every other tab shows o2.
Pages == [t \in Tab |-> IF t = t1 THEN o1 ELSE o2]

AllReplies   == Reply

Symmetry == Permutations(Req) \cup Permutations(Task)
=============================================================================
