---------------------------- MODULE OwnRegisters ----------------------------
(***************************************************************************)
(* What a process may think: that it has a processor of its own, whose     *)
(* registers nothing but its own steps change, and that its calls return.  *)
(***************************************************************************)
CONSTANT Pid

VARIABLES alive, view  \* the processes and the registers each sees

vars == <<alive, view>>

Init == \A p \in alive : view[p].at = "user"

Own(p) == \A q \in Pid \ {p} : view'[q] = view[q]

Load(p) ==
    /\ p \in alive /\ view[p].at = "user"
    /\ view'[p].at = "stub" /\ view'[p].rax = view[p].rax
    /\ Own(p) /\ UNCHANGED alive

\* sleep returns with the result register as it was.
Return(p) ==
    /\ p \in alive /\ view[p].at = "stub"
    /\ view'[p].at = "user" /\ view'[p].rax \in {"result", "-1", view[p].rax}
    /\ Own(p) /\ UNCHANGED alive

\* The child goes on where its parent does, with the result 0.
Fork(p, c) ==
    /\ p \in alive /\ view[p].at = "stub" /\ c \notin alive
    /\ alive' = alive \cup {c}
    /\ view'[p].at = "user" /\ view'[p].rax = "result"
    /\ view'[c].at = "user" /\ view'[c].rax = "zero"
    /\ \A q \in Pid \ {p, c} : view'[q] = view[q]

Exit(p) ==
    /\ p \in alive /\ view[p].at = "stub"
    /\ alive' = alive \ {p} /\ Own(p)

Next ==
    \/ \E p \in Pid : Load(p) \/ Return(p) \/ Exit(p)
    \/ \E p, c \in Pid : Fork(p, c)

Spec == Init /\ [][Next]_vars
=============================================================================
