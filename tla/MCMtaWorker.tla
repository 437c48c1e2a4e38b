----------------------------- MODULE MCMtaWorker -----------------------------
(* Small instances of MtaWorker: two recipients and two job slots at most. *)
EXTENDS MtaWorker, TLC

CONSTANTS r1, r2, u1, u2

\* The list is changed only while somebody has been on it from the start: with nobody
\* on it both recipients are mailed, and others have changed it before already.
MCInit == Init /\ (suppressed = {} <=> listings = MaxListings)
MCSpec == MCInit /\ [][MailNext]_mailVars

MCSymmetry == Permutations(Recipients) \cup Permutations(Runs)
=============================================================================
