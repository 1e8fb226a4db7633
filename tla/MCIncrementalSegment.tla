------------------------ MODULE MCIncrementalSegment ------------------------
(***************************************************************************)
(* Small groups for IncrementalSegment: up to three messages a, b, c.      *)
(***************************************************************************)
EXTENDS IncrementalSegment

CONSTANTS a, b, c

\* c replies to a.
MCParentReply == [m \in Msg |-> IF m = c THEN a ELSE NoMsg]

\* Nobody replies to anything.
MCParentNone == [m \in Msg |-> NoMsg]
=============================================================================
