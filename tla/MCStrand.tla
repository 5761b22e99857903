------------------------------ MODULE MCStrand ------------------------------
(* Two strands with handlers that may call each other's, on three threads.  *)
EXTENDS Strand, TLC

CONSTANTS t1, t2, t3, s1, s2, h1, h2, h3, h4

MCThreads == {t1, t2, t3}
MCStrands == {s1, s2}
MCHandlers == {h1, h2, h3, h4}
MCStrandOf == (h1 :> s1) @@ (h2 :> s1) @@ (h3 :> s1) @@ (h4 :> s2)

=============================================================================
