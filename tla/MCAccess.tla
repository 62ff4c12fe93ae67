------------------------------- MODULE MCAccess -------------------------------
(* Client texts for TLC: every sequence of up to three of these tokens. *)
EXTENDS Access

MCTokens == {CL!OwnerFlag, CL!OwnerIs("o2"), CL!Word("o2"), CL!Word("create"), CL!Word("ls"), CL!DashC}
MCTexts == UNION {[1 .. n -> MCTokens] : n \in 0 .. 3}

=============================================================================
