------------------------------ MODULE Contexts ------------------------------
(***************************************************************************)
(* The table of execution contexts of gemOS (Assignment_3/src) and the     *)
(* pure part of its scheduler: which context pick_next_context returns,    *)
(* and what a timer tick does to the sleeping contexts.  The debugger and  *)
(* the scheduler specifications are both built on these operators.         *)
(***************************************************************************)
EXTENDS Integers, FiniteSetsExt

CONSTANT MAX_PROCESSES      \* slots of the context table, swapper included

ASSUME ContextsAssumption == MAX_PROCESSES \in Nat /\ MAX_PROCESSES >= 3

Pid     == 0 .. MAX_PROCESSES - 1
Swapper == 0
UserPid == Pid \ {Swapper}

(***************************************************************************)
(* enum process_state.  NEW exists only inside do_fork, which runs with    *)
(* interrupts off, and nothing ever stores EXITING.                        *)
(***************************************************************************)
ProcessState == {"UNUSED", "READY", "RUNNING", "WAITING"}

(***************************************************************************)
(* pick_next_context: the slots above pid are scanned first, then the      *)
(* scan wraps to slot 1 and goes up to pid itself; the swapper is the      *)
(* answer only when no user context is READY.                              *)
(***************************************************************************)
ReadyIn(st, S) == {p \in S : st[p] = "READY"}

\* Variant: every scan starts at slot 1.
PickFirst(st, pid) ==
    LET ready == ReadyIn(st, 1 .. MAX_PROCESSES - 1)
    IN  IF ready # {} THEN Min(ready) ELSE Swapper

PickNext(st, pid) ==
    LET above == ReadyIn(st, pid + 1 .. MAX_PROCESSES - 1)
        below == ReadyIn(st, 1 .. pid)
    IN  IF above # {} THEN Min(above)
        ELSE IF below # {} THEN Min(below)
        ELSE Swapper

(***************************************************************************)
(* do_sleep_and_alarm_account: every sleeper loses one tick, and the one   *)
(* that loses its last tick is READY again.                                *)
(***************************************************************************)
Sleeping(st, tk) == {p \in DOMAIN st : st[p] = "WAITING" /\ tk[p] > 0}

\* Variant: ticks_to_sleep > 0 is not asked.
TicksUnguarded(st, tk) ==
    [p \in DOMAIN tk |-> IF st[p] = "WAITING" THEN tk[p] - 1 ELSE tk[p]]

\* Variant: every context loses a tick.
TicksOfAll(st, tk) == [p \in DOMAIN tk |-> tk[p] - 1]

TicksAfterTick(st, tk) ==
    [p \in DOMAIN tk |-> IF p \in Sleeping(st, tk) THEN tk[p] - 1 ELSE tk[p]]

\* Variant: the count is tested before it is decremented.
WakeLate(st, tk) ==
    [p \in DOMAIN st |->
        IF p \in Sleeping(st, tk) /\ tk[p] = 0 THEN "READY" ELSE st[p]]

WakeSleepers(st, tk) ==
    [p \in DOMAIN st |->
        IF p \in Sleeping(st, tk) /\ tk[p] = 1 THEN "READY" ELSE st[p]]
=============================================================================
