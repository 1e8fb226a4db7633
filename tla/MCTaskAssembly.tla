--------------------------- MODULE MCTaskAssembly ---------------------------
(***************************************************************************)
(* Small answers for TaskAssembly.                                         *)
(***************************************************************************)
EXTENDS TaskAssembly, SequencesExt

CONSTANTS Numbers, MaxTasks, MaxMembers

\* Every list of lists, repetitions and all.
MCAnswers == SeqOf(SeqOf(Numbers, MaxMembers), MaxTasks)

\* Audits that repeat, forget and invent segments.
MCAudits == SeqOf(SeqOf(1 .. N + 1, MaxMembers), 2)
=============================================================================
