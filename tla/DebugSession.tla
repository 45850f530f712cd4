---------------------------- MODULE DebugSession ----------------------------
(***************************************************************************)
(* What a debugging session promises, with no patched bytes, no process    *)
(* table and no timer: the child runs the program it was compiled from,    *)
(* and every call it makes of a function whose breakpoint is armed hands   *)
(* control to the debugger once, before the function's body is entered.    *)
(***************************************************************************)
EXTENDS Integers, Sequences, SequencesExt

CONSTANTS Funcs, Main

Points == Funcs \cup {Main}

VARIABLES
  turn,     \* whose turn it is: "debugger", "debuggee", or "over"
  alive,    \* whether there is a child
  armed,    \* the functions whose calls stop the child
  fn,       \* the function the child is in
  at,       \* "entry", "told" (entry, stop already reported) or "body"
  callers,  \* the functions that wait for fn to return, innermost last
  answer    \* what the debugger's last call returned

child == <<alive, fn, at, callers>>
vars  == <<turn, child, armed, answer>>

Init ==
    /\ turn = "debugger"
    /\ alive = FALSE
    /\ armed = {}
    /\ fn = Main /\ at = "body" /\ callers = <<>>
    /\ answer \in Int

\* A call the debugger makes for itself, with some answer.
Answered == turn = "debugger" /\ answer' \in Int /\ UNCHANGED turn

Arm(f)    == Answered /\ armed' = armed \cup {f} /\ UNCHANGED child
Disarm(f) == Answered /\ armed' = armed \ {f} /\ UNCHANGED child
Inquire   == Answered /\ UNCHANGED <<child, armed>>

Start ==
    /\ ~alive
    /\ Answered
    /\ alive' = TRUE
    /\ fn' = Main /\ at' = "body" /\ callers' = <<>>
    /\ UNCHANGED armed

Continue ==
    /\ turn = "debugger" /\ alive
    /\ turn' = "debuggee"
    /\ UNCHANGED <<child, armed, answer>>

Quit ==
    /\ turn = "debugger" /\ ~alive
    /\ turn' = "over"
    /\ UNCHANGED <<child, armed, answer>>

InBody == turn = "debuggee" /\ at = "body"

Call(g) ==
    /\ InBody
    /\ fn' = g /\ at' = "entry" /\ callers' = Append(callers, fn)
    /\ UNCHANGED <<turn, alive, armed, answer>>

\* The breakpoint of fn is reported, once for this call.
Stop ==
    /\ turn = "debuggee" /\ at = "entry" /\ fn \in armed
    /\ turn' = "debugger" /\ at' = "told" /\ answer' = fn
    /\ UNCHANGED <<alive, fn, callers, armed>>

Enter ==
    /\ turn = "debuggee"
    /\ at = "told" \/ (at = "entry" /\ fn \notin armed)
    /\ at' = "body"
    /\ UNCHANGED <<turn, alive, fn, callers, armed, answer>>

Return ==
    /\ InBody /\ callers # <<>>
    /\ fn' = Last(callers) /\ callers' = Front(callers)
    /\ UNCHANGED <<turn, alive, at, armed, answer>>

Exit ==
    /\ InBody
    /\ turn' = "debugger" /\ alive' = FALSE /\ answer' = 0
    /\ UNCHANGED <<fn, at, callers, armed>>

Next ==
    \/ \E f \in Funcs : Arm(f) \/ Disarm(f) \/ Call(f)
    \/ Inquire \/ Start \/ Continue \/ Quit
    \/ Stop \/ Enter \/ Return \/ Exit

\* A call that was made is reported or entered.
Spec == Init /\ [][Next]_vars /\ WF_vars(Stop) /\ WF_vars(Enter)
=============================================================================
