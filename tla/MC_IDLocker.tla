---------------------------- MODULE MC_IDLocker ----------------------------
(* IDLocker with two ids and three threads.                                *)
EXTENDS IDLocker

CONSTANTS i1, i2, t1, t2, t3

MCIds == {i1, i2}
MCThreads == {t1, t2, t3}
=============================================================================
