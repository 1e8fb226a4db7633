-------------------------- MODULE MCMemoryExtraction --------------------------
(* Instance of MemoryExtraction for TLC: one worker runs in a thread of    *)
(* its own, the other inside one of the threads.                           *)
EXTENDS MemoryExtraction

CONSTANTS t1, t2, a, b

MCThreads == {t1, t2}
MCCurrentThread == [w \in {a, b} |-> IF w = a THEN NoThread ELSE t2]
===============================================================================
