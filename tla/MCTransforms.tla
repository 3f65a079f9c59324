---------------------------- MODULE MCTransforms ----------------------------
(* Transforms over the affine maps x -> a * x + b of the integers modulo 3, *)
(* which do not commute.                                                    *)
EXTENDS Transforms

MCMatrix == (1 .. 2) \X (0 .. 2)
MCIdentity == <<1, 0>>
MCMul(m, n) == <<(m[1] * n[1]) % 3, (m[1] * n[2] + m[2]) % 3>>
MCInv(m) == <<m[1], ((3 - m[1]) * m[2]) % 3>>
MCTranslations == {1} \X {1}
MCLinear == {2} \X {0}

Start == Init /\ item \in [Items -> {<<2, 1>>}]
MCSpec == Start /\ [][Next]_vars

\* A behaviour ends where a worker has overtaken another or the watcher was
\* misled: the two invariants promise nothing from then on.
Ordered == Start /\ [][Next /\ ~overtaken /\ ~misled]_vars
=============================================================================
