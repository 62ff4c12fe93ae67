------------------------------- MODULE Bridge -------------------------------
(***************************************************************************)
(* What trait Kento (core/src/kento.rs) promises to the sweeper and to the *)
(* helper: each call takes its effect on the live guests at most once.  A  *)
(* call answered "ok" has taken it, at one moment between the call and its *)
(* answer; a call answered with an error may have taken it, or not, or may *)
(* still take it.  Module Kento implements this.                           *)
(***************************************************************************)
EXTENDS Naturals

CONSTANTS Callers, Guests

Ops == {"list", "provision", "teardown"}
Answers == {"ok", "err", "quorum"}
None == "none"

VARIABLES
    live,   \* the guests that exist
    pend,   \* the call each caller has open
    late    \* effects that outlive the call that asked for them

vars == <<live, pend, late>>

Quiet == [at |-> "idle", op |-> None, arg |-> None, seen |-> {}, ans |-> None]

\* The live guests after a provision or a teardown of g.
After(op, g) == IF op = "provision" THEN live \cup {g} ELSE live \ {g}

Init ==
    /\ live \in SUBSET Guests
    /\ pend = [c \in Callers |-> Quiet]
    /\ late = {}

Invoke(c, op, g) ==
    /\ pend[c].at = "idle"
    /\ IF op = "list" THEN g = None ELSE g \in Guests
    /\ pend' = [pend EXCEPT ![c] = [Quiet EXCEPT !.at = "open", !.op = op, !.arg = g]]
    /\ UNCHANGED <<live, late>>

\* kento cannot be started.
Refuse(c) ==
    /\ pend[c].at = "idle"
    /\ pend' = [pend EXCEPT ![c] = [Quiet EXCEPT !.at = "answered", !.ans = "err"]]
    /\ UNCHANGED <<live, late>>

TakeEffect(c) ==
    /\ pend[c].at = "open"
    /\ IF pend[c].op = "list"
       THEN /\ pend' = [pend EXCEPT ![c].at = "done", ![c].seen = live]
            /\ UNCHANGED live
       ELSE /\ pend' = [pend EXCEPT ![c].at = "done"]
            /\ live' = After(pend[c].op, pend[c].arg)
    /\ UNCHANGED late

\* What a call that is given up may still do.
Loose(c) ==
    IF pend[c].at = "open" /\ pend[c].op # "list"
    THEN {[op |-> pend[c].op, arg |-> pend[c].arg]} ELSE {}

AnswerOk(c) ==
    /\ pend[c].at = "done"
    /\ pend' = [pend EXCEPT ![c] = [@ EXCEPT !.at = "answered", !.ans = "ok"]]
    /\ UNCHANGED <<live, late>>

AnswerError(c) ==
    /\ pend[c].at \in {"open", "done"}
    /\ \E ans \in Answers \ {"ok"} :
          pend' = [pend EXCEPT ![c] = [Quiet EXCEPT !.at = "answered", !.ans = ans]]
    /\ late' \in {late, late \cup Loose(c)}
    /\ UNCHANGED live

Return(c) ==
    /\ pend[c].at = "answered"
    /\ pend' = [pend EXCEPT ![c] = Quiet]
    /\ UNCHANGED <<live, late>>

Crash(c) ==
    /\ pend[c].at # "idle"
    /\ pend' = [pend EXCEPT ![c] = Quiet]
    /\ late' \in {late, late \cup Loose(c)}
    /\ UNCHANGED live

LateEffect ==
    \E l \in late :
       /\ late' = late \ {l}
       /\ live' \in {live, After(l.op, l.arg)}
       /\ UNCHANGED pend

Next ==
    \/ \E c \in Callers :
          \/ \E op \in Ops, g \in Guests \cup {None} : Invoke(c, op, g)
          \/ Refuse(c) \/ TakeEffect(c) \/ AnswerOk(c) \/ AnswerError(c) \/ Return(c) \/ Crash(c)
    \/ LateEffect

Spec == Init /\ [][Next]_vars

=============================================================================
