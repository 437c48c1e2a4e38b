----------------------------- MODULE MCWarmupGate -----------------------------
(* Small instances of WarmupGate: two processes at most, three slots, two buckets. *)
EXTENDS WarmupGate, TLC

CONSTANTS c1, c2, c3, w1, w2, gmail, other

\* Without MTA_WARMUP_STARTED_AT the ramp starts with the first call.
MCUnset == Unset
\* The last slot runs in the second process, if there is one.
MCWorkerOf == [c \in Calls |-> IF c = c3 /\ w2 \in Workers THEN w2 ELSE w1]
\* One send a bucket on the first warm-up day, and the big bucket doubles on the second.
MCBucketCap(d, i) == IF i = gmail THEN d ELSE 1
MCCap == [d \in Days |-> [k \in Keys |->
            IF k = Total THEN MapThenSumSet(LAMBDA i : MCBucketCap(d, i), Isps)
            ELSE MCBucketCap(d, k)]]
MCSymmetry == Permutations(Calls)
=============================================================================
