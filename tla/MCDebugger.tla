----------------------------- MODULE MCDebugger -----------------------------
(* Small instances of the debugger: two or three functions after main.     *)
EXTENDS DebuggerProperties

\* A code segment with every byte different but the pushes, so that a byte
\* restored to the wrong place shows.
Segment(funcs, last) ==
    [a \in 0 .. last |-> IF a \in funcs THEN PUSHRBP_OPCODE ELSE 100 + a]

MCText == Segment({1, 5, 9}, 12)
=============================================================================
