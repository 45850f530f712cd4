------------------------ MODULE DebuggerProperties ------------------------
(***************************************************************************)
(* What the debugger must guarantee.                                       *)
(***************************************************************************)
EXTENDS Debugger

\* Every variable of the debugger model (debug_info, exec_context and the
\* shared code segment) keeps its type.
TypeOK ==
    /\ cur \in {Swapper, DBG, CHILD}
    /\ state \in [Pid -> ProcessState]
    /\ ticks \in [Pid -> Nat]
    /\ dbg \in BOOLEAN
    /\ head \in Seq(Breakpoint)
    /\ num \in Nat
    /\ next \in Byte
    /\ backtrace \in Seq(Nat)
    /\ code \in [Addr -> Byte]
    /\ rip \in Nat
    /\ stack \in Seq(Nat)
    /\ rax \in Int
    /\ fault \in {"none", "null", "overrun", "derailed"}

-----------------------------------------------------------------------------
\* A context the scheduler may still choose, now or when its sleep is over.
Awake(p) == \/ state[p] \in {"READY", "RUNNING"}
            \/ state[p] = "WAITING" /\ ticks[p] > 0

\* Debugger and child alternate: the states stored by debugger_on_fork,
\* do_wait_and_continue, int3_handler and debugger_on_exit, with whatever
\* the timer does between them, never let both run (the debugger would edit
\* code under a running child) and never leave both waiting (nobody would
\* wake them).
ControlAlternates ==
    state[DBG] # "UNUSED" =>
        /\ Awake(DBG) <=> ~Awake(CHILD)
        /\ cur # Swapper => Awake(cur)

\* The child has trapped at f and not yet re-armed it.
StepPending(f) == code[f] = PUSHRBP_OPCODE /\ code[f + 1] = INT3_OPCODE

\* Every byte of the code segment that differs from the program is the entry
\* of a listed breakpoint, or the one byte int3_handler moved the trap to,
\* whose original is in dbg->next and over which the child is about to step
\* (as long as there is a debugger: its exit frees the list).
PatchesAccounted ==
    \A a \in Addr : state[DBG] # "UNUSED" /\ code[a] # Text[a] =>
        /\ code[a] = INT3_OPCODE
        /\ \/ a \in Funcs /\ Listed(a)
           \/ \E f \in Funcs : /\ a = f + 1
                               /\ StepPending(f) /\ Listed(f)
                               /\ next = Text[a]
                               /\ rip \in {f, f + 1}

\* The child executes no byte that is not its program's: int3_handler brings
\* every byte back before the child can reach it.
NeverDerails == fault # "derailed"

\* The list do_info_breakpoints copies out is in order of increasing numbers,
\* names no function twice and fits the array the user passes, after any
\* sequence of sets and removes.
ListOrdered ==
    /\ Len(head) <= MAX_BREAKPOINTS
    /\ \A i \in DOMAIN head : head[i].num \in 1 .. num
    /\ \A i, j \in DOMAIN head :
          i < j => head[i].num < head[j].num /\ head[i].addr # head[j].addr

\* A breakpoint number names one breakpoint for ever: do_set_breakpoint never
\* hands out the number of a listed or a removed one again.
NumbersNeverReused ==
    [][\A i \in DOMAIN head' :
          \/ head'[i].num > num
          \/ \E j \in DOMAIN head : /\ head[j].num = head'[i].num
                                    /\ head[j].addr = head'[i].addr]_vars

\* While the child is stopped at a function, backtrace() reports that call:
\* the function, then where each caller will resume, innermost first.
\* do_backtrace reads what the last trap of int3_handler left.
BacktraceCurrent ==
    \A f \in Funcs : StoppedAt(f) =>
        /\ Len(backtrace) = Len(stack) + 1
        /\ Head(backtrace) = f
        /\ \A i \in DOMAIN stack : backtrace[Len(stack) + 2 - i] = stack[i]

\* When wait_and_continue returns, its value tells the truth about the child:
\* the function it is stopped at, or CHILD_EXIT when it is gone.
WaitReports ==
    [][cur = CHILD /\ cur' = DBG =>
          \/ rax' = CHILD_EXIT /\ state'[CHILD] = "UNUSED"
          \/ Listed(rax') /\ state'[CHILD] = "WAITING" /\ rip' = rax']_vars

\* A process that called sleep() runs again, whoever waits in the meantime
\* (do_sleep_and_alarm_account).
SleepersWake ==
    \A p \in {DBG, CHILD} : ticks[p] > 0 ~> cur = p

-----------------------------------------------------------------------------
(***************************************************************************)
(* Promises of the assignment text that the code breaks in some use.       *)
(***************************************************************************)
\* The child stops only at functions that have a breakpoint in the list: not
\* at one that was removed, nor at one whose set_breakpoint failed.
StopsOnlyAtListed ==
    [][cur = CHILD /\ cur' = DBG => rax' = CHILD_EXIT \/ Listed(rax')]_vars

\* A child that exited does not run again: only fork makes one.
DeadStaysDead ==
    [][state[CHILD] = "UNUSED" /\ state'[CHILD] # "UNUSED" => Fork]_vars

-----------------------------------------------------------------------------
(***************************************************************************)
(* The refinement of a debugging session: patched bytes stand for armed    *)
(* functions, and the two traps of a breakpoint for one stop.              *)
(***************************************************************************)
FunctionAt(a) ==
    IF a = 0 THEN Main
    ELSE CHOOSE f \in Funcs \cup {Main} : a \in f .. f + 2

Session == INSTANCE DebugSession WITH
    turn    <- IF state[DBG] = "UNUSED" THEN "over"
               ELSE IF Awake(CHILD) THEN "debuggee" ELSE "debugger",
    alive   <- state[CHILD] # "UNUSED",
    armed   <- {f \in Funcs : INT3_OPCODE \in {code[f], code[f + 1]}},
    fn      <- FunctionAt(rip),
    at      <- IF rip \notin Funcs THEN "body"
               ELSE IF StepPending(rip) THEN "told" ELSE "entry",
    callers <- [i \in DOMAIN stack |-> FunctionAt(stack[i])],
    answer  <- rax

\* The debugger implements a debugging session: a breakpoint stops every call
\* of its function, recursive ones included, exactly once, the child executes
\* its own program in between, and a continued child gets past its breakpoint.
ImplementsSession == Session!Spec
=============================================================================
