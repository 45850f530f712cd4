------------------------------ MODULE Debugger ------------------------------
(***************************************************************************)
(* The gemOS debugger, Assignment_3/src/debug.c, with the parts of         *)
(* entry.c and schedule.c it drives: one debugger process, the child it    *)
(* forks and traces, the code segment both share, and the timer.           *)
(*                                                                         *)
(* A breakpoint on a function overwrites the first byte of the function,   *)
(* push %rbp, with INT3.  When the child traps there, int3_handler puts    *)
(* push %rbp back, saves the byte after it in dbg->next, patches that      *)
(* byte with INT3 instead and hands the processor to the debugger.  When   *)
(* the child is continued it executes the push and traps on the second     *)
(* patch; the handler then restores the saved byte and re-arms the entry.  *)
(*                                                                         *)
(* Kernel code runs with interrupts off, so a system call, a trap with its *)
(* handler, and a timer tick are one step each.  A step of the child is    *)
(* one instruction of a function's prologue, or one move of its body.      *)
(***************************************************************************)
EXTENDS Contexts, Integers, Sequences, SequencesExt

CONSTANTS
  Funcs,            \* entry addresses of the functions the child calls
  Main,             \* entry address of main, where fork() was called
  Text,             \* the code segment as loaded: address -> byte
  MAX_BREAKPOINTS,  \* capacity of the breakpoint list
  MAX_BACKTRACE,    \* capacity of dbg->backtrace
  MaxDepth,         \* bound: nested calls in the child
  MaxNum,           \* bound: breakpoints ever numbered
  SleepTicks,       \* arguments the processes give to sleep()
  Usage             \* what the debugger program does beyond the careful core

PUSHRBP_OPCODE == 85      \* 0x55
INT3_OPCODE    == 204     \* 0xCC
CHILD_EXIT     == 0

Addr == DOMAIN Text
Byte == 0 .. 255

(***************************************************************************)
(* Uses of the system calls that a debugger program may or may not make.   *)
(* "edit_at_stop" is one of the four edits applied to the very function    *)
(* the child is stopped at; the others name the state the call is made in. *)
(***************************************************************************)
Usages == {"set_at_stop", "remove_at_stop", "enable_at_stop",
           "disable_at_stop", "set_when_full", "no_memory",
           "remove_when_empty", "exit_when_empty", "continue_after_exit",
           "search_before_fork"}

ASSUME TextAssumption ==
    /\ Text \in [Addr -> Byte]
    /\ Addr \subseteq Nat
    /\ \A a \in Addr : Text[a] # INT3_OPCODE
    /\ Funcs \subseteq Nat /\ Main \in Nat \ {0}
    /\ \A f \in Funcs \cup {Main} : f .. f + 3 \subseteq Addr
    /\ \A f \in Funcs : /\ f - 1 \in Addr
                        /\ Text[f] = PUSHRBP_OPCODE
                        /\ Text[f - 1] # PUSHRBP_OPCODE
                        /\ Text[f + 1] # PUSHRBP_OPCODE

\* Functions are long enough for their patched bytes not to meet.
ASSUME LayoutAssumption ==
    \A f, g \in Funcs \cup {Main} : f < g => g - f > 3

ASSUME BoundsAssumption ==
    /\ MAX_BREAKPOINTS \in Nat \ {0}
    /\ MAX_BACKTRACE \in Nat \ {0}
    /\ MaxDepth \in Nat /\ MaxNum \in Nat
    /\ SleepTicks \subseteq Nat \ {0}
    /\ Usage \subseteq Usages

DBG   == 1      \* init becomes the debugger
CHILD == 2      \* the lowest free slot, which get_new_ctx hands to its fork

Body(f) == f + 2                                \* past the prologue
Bodies  == {Body(f) : f \in Funcs \cup {Main}}

VARIABLES
  cur,        \* the current context
  state,      \* exec_context.state
  ticks,      \* exec_context.ticks_to_sleep
  dbg,        \* whether the debugger's ctx->dbg is allocated
  head,       \* the list at dbg->head
  num,        \* dbg->num
  next,       \* dbg->next
  backtrace,  \* the entries of dbg->backtrace before the zeroes
  code,       \* the shared code segment
  rip,        \* the child's entry_rip; 0 until the first fork
  stack,      \* the return addresses on the child's stack, innermost last
  rax,        \* the debugger's rax: what its last system call returned
  fault       \* undefined behaviour met: "none", "null", "overrun", "derailed"

schedVars == <<cur, state, ticks>>
bpVars    == <<head, num>>
stopVars  == <<next, backtrace>>
childVars == <<rip, stack>>
vars == <<schedVars, dbg, bpVars, stopVars, code, childVars, rax, fault>>

Breakpoint == [addr : Funcs, num : Nat, status : {0, 1}]

Init ==
    /\ cur = DBG
    /\ state = [p \in Pid |-> CASE p = DBG     -> "RUNNING"
                                [] p = Swapper -> "READY"
                                [] OTHER       -> "UNUSED"]
    /\ ticks = [p \in Pid |-> 0]
    /\ dbg = FALSE
    /\ head = <<>>
    /\ num = 0
    /\ next = 0
    /\ backtrace = <<>>
    /\ code = Text
    /\ rip = 0
    /\ stack = <<>>
    /\ rax = 0
    /\ fault = "none"

(***************************************************************************)
(* Scheduling.                                                             *)
(***************************************************************************)
\* schedule(): q becomes the current, RUNNING context.
Schedule(q, st) ==
    /\ cur' = q
    /\ state' = [st EXCEPT ![q] = "RUNNING"]

\* p executes in user mode.
InUser(p) == fault = "none" /\ cur = p /\ state[p] \in {"READY", "RUNNING"}

\* The child is past a prologue, about to execute its own code.
InBody == InUser(CHILD) /\ rip \in Bodies /\ code[rip] = Text[rip]

\* A context that gives up the processor in the state s.
YieldAs(p, s) ==
    LET st == [state EXCEPT ![p] = s] IN Schedule(PickNext(st, p), st)

\* handle_timer_tick: an unchanged choice leaves the current context READY.
Tick ==
    /\ InUser(cur)
    /\ ticks' = TicksAfterTick(state, ticks)
    /\ LET st == [WakeSleepers(state, ticks) EXCEPT ![cur] = "READY"]
           q  == PickNext(st, cur)
       IN  IF q = cur THEN state' = st /\ UNCHANGED cur
                      ELSE Schedule(q, st)
    /\ UNCHANGED <<dbg, bpVars, stopVars, code, childVars, rax, fault>>

\* do_sleep.  Like every call that ends in schedule(), it returns nothing.
Sleep(p, n) ==
    /\ InUser(p)
    /\ p = CHILD => InBody
    /\ ticks' = [ticks EXCEPT ![p] = n]
    /\ YieldAs(p, "WAITING")
    /\ UNCHANGED <<dbg, bpVars, stopVars, code, childVars, rax, fault>>

(***************************************************************************)
(* System calls of the debugger that manage its breakpoints.               *)
(***************************************************************************)
\* A debugger call that keeps the processor and returns r.
Returns(r) ==
    /\ InUser(DBG)
    /\ rax' = r
    /\ UNCHANGED <<schedVars, stopVars, childVars>>

BecomeDebugger ==
    /\ ~dbg
    /\ \/ dbg' = TRUE /\ Returns(0)
       \/ "no_memory" \in Usage /\ dbg' = FALSE /\ Returns(-1)
    /\ UNCHANGED <<bpVars, code, fault>>

Index(f)  == {i \in DOMAIN head : head[i].addr = f}
Listed(f) == Index(f) # {}

StoppedAt(f) == state[CHILD] = "WAITING" /\ rip = f

\* The debugger edits the function its child is stopped at only if Usage says so.
MayEdit(f, use) == dbg /\ (StoppedAt(f) => use \in Usage)

\* Variants: numbering by the list's length, or afresh once it is empty.
NextNumByLength == Len(head) + 1
NextNumRestart  == IF head = <<>> THEN 1 ELSE num + 1

NextNum == num + 1

\* The byte is patched before the list is looked at.
SetBreakpoint(f) ==
    /\ MayEdit(f, "set_at_stop")
    /\ code' = [code EXCEPT ![f] = INT3_OPCODE]
    /\ \/ /\ Listed(f)
          /\ \E i \in Index(f) : head' = [head EXCEPT ![i].status = 1]
          /\ Returns(0)
          /\ UNCHANGED num
       \/ /\ ~Listed(f)
          /\ Len(head) < MAX_BREAKPOINTS
          /\ num < MaxNum
          /\ num' = NextNum
          /\ head' = Append(head, [addr |-> f, num |-> NextNum, status |-> 1])
          /\ Returns(0)
       \/ /\ ~Listed(f)
          /\ \/ Len(head) = MAX_BREAKPOINTS /\ "set_when_full" \in Usage
             \/ Len(head) < MAX_BREAKPOINTS /\ "no_memory" \in Usage
          /\ Returns(-1)
          /\ UNCHANGED bpVars
    /\ UNCHANGED <<dbg, fault>>

\* Variant: the entry goes and the patched byte stays.
RemoveKeepsPatch(f) ==
    /\ MayEdit(f, "remove_at_stop")
    /\ \E i \in Index(f) : head' = RemoveAt(head, i)
    /\ Returns(0)
    /\ UNCHANGED <<dbg, num, code, fault>>

RemoveBreakpoint(f) ==
    /\ MayEdit(f, "remove_at_stop")
    /\ head # <<>>
    /\ IF Listed(f)
       THEN /\ \E i \in Index(f) : head' = RemoveAt(head, i)
            /\ code' = [code EXCEPT ![f] = PUSHRBP_OPCODE]
            /\ Returns(0)
       ELSE /\ Returns(-1)
            /\ UNCHANGED <<head, code>>
    /\ UNCHANGED <<dbg, num, fault>>

\* With no list at all head->addr is read through NULL.
RemoveFromEmpty(f) ==
    /\ "remove_when_empty" \in Usage
    /\ dbg /\ head = <<>>
    /\ Returns(-1)
    /\ fault' \in {"none", "null"}
    /\ UNCHANGED <<dbg, bpVars, code>>

\* enable and disable: find the entry, store the status, patch the byte.
Switch(f, byte) ==
    /\ IF Listed(f)
       THEN /\ \E i \in Index(f) : head' = [head EXCEPT ![i].status = 0]
            /\ code' = [code EXCEPT ![f] = byte]
            /\ Returns(0)
       ELSE /\ Returns(-1)
            /\ UNCHANGED <<head, code>>
    /\ UNCHANGED <<dbg, num, fault>>

EnableBreakpoint(f) ==
    /\ MayEdit(f, "enable_at_stop")
    /\ Switch(f, INT3_OPCODE)

DisableBreakpoint(f) ==
    /\ MayEdit(f, "disable_at_stop")
    /\ Switch(f, PUSHRBP_OPCODE)

InfoBreakpoints ==
    /\ dbg
    /\ Returns(Len(head))
    /\ UNCHANGED <<dbg, bpVars, code, fault>>

\* The registers of the slot found by its ppid go to the user's buffer.
InfoRegisters ==
    /\ rip # 0
    /\ Returns(0)
    /\ UNCHANGED <<dbg, bpVars, code, fault>>

\* The count goes on past a full array, into whatever follows it.
Backtrace ==
    /\ dbg
    /\ \E r \in IF Len(backtrace) < MAX_BACKTRACE
                THEN {Len(backtrace)}
                ELSE {MAX_BACKTRACE, MAX_BACKTRACE + 1} : Returns(r)
    /\ UNCHANGED <<dbg, bpVars, code, fault>>

\* info_registers and wait_and_continue look for a context with this parent.
\* Before the fork there is none: the search has no end, and past the last
\* context get_ctx_by_pid gives it NULL.
SearchAstray ==
    /\ "search_before_fork" \in Usage
    /\ InUser(DBG)
    /\ rip = 0
    /\ fault' = "null"
    /\ UNCHANGED <<schedVars, dbg, bpVars, stopVars, code, childVars, rax>>

(***************************************************************************)
(* Process control.                                                        *)
(***************************************************************************)
\* Variant: debugger_on_fork leaves the state setup_child_context stored.
ForkReady == "READY"

\* debugger_on_fork
ForkState == "WAITING"

\* do_fork with debugger_on_fork: the child waits where fork() returns.
Fork ==
    /\ InUser(DBG)
    /\ state[CHILD] = "UNUSED"
    /\ state' = [state EXCEPT ![CHILD] = ForkState]
    /\ ticks' = [ticks EXCEPT ![CHILD] = ticks[DBG]]
    /\ rip' = Body(Main)
    /\ stack' = <<>>
    /\ rax' = CHILD
    /\ UNCHANGED <<cur, dbg, bpVars, stopVars, code, fault>>

\* do_wait_and_continue: the slot found by its ppid, whatever its state.
WaitAndContinue ==
    /\ InUser(DBG)
    /\ rip # 0
    /\ state[CHILD] = "UNUSED" => "continue_after_exit" \in Usage
    /\ Schedule(CHILD, [state EXCEPT ![DBG] = "WAITING"])
    /\ UNCHANGED <<ticks, dbg, bpVars, stopVars, code, childVars, rax, fault>>

\* do_exit of the child: debugger_on_exit wakes the parent.
ChildExit ==
    /\ InBody
    /\ LET st == [state EXCEPT ![DBG] = "READY", ![CHILD] = "UNUSED"]
       IN  Schedule(PickNext(st, CHILD), st)
    /\ rax' = CHILD_EXIT
    /\ UNCHANGED <<ticks, dbg, bpVars, stopVars, code, childVars, fault>>

\* do_exit of the debugger, after the child's: the list is freed, and with
\* no process left do_cleanup turns the machine off.  Freeing reads
\* head->next, through NULL when the list is empty.  One that never became a
\* debugger wakes its own parent, the swapper.
DebuggerExit ==
    /\ InUser(DBG)
    /\ state[CHILD] = "UNUSED"
    /\ dbg /\ head = <<>> => "exit_when_empty" \in Usage
    /\ state' = [state EXCEPT ![DBG] = "UNUSED",
                               ![Swapper] = IF dbg THEN @ ELSE "READY"]
    /\ head' = <<>>
    /\ fault' \in IF dbg /\ head = <<>> THEN {"none", "null"} ELSE {"none"}
    /\ UNCHANGED <<cur, ticks, dbg, num, stopVars, code, childVars, rax>>

(***************************************************************************)
(* The child in user mode.  A body calls a function, returns, sleeps or    *)
(* exits; a call pushes the return address and jumps to the entry.         *)
(***************************************************************************)
Call(g) ==
    /\ InBody
    /\ Len(stack) < MaxDepth
    /\ stack' = Append(stack, rip)
    /\ rip' = g
    /\ UNCHANGED <<schedVars, dbg, bpVars, stopVars, code, rax, fault>>

Return ==
    /\ InBody
    /\ stack # <<>>
    /\ rip' = Last(stack)
    /\ stack' = Front(stack)
    /\ UNCHANGED <<schedVars, dbg, bpVars, stopVars, code, rax, fault>>

\* An instruction of a prologue, as the program was compiled.
Execute ==
    /\ InUser(CHILD)
    /\ rip \notin Bodies
    /\ code[rip] = Text[rip]
    /\ rip' = rip + 1
    /\ UNCHANGED <<schedVars, dbg, bpVars, stopVars, code, stack, rax, fault>>

\* A byte that is neither the program's nor a trap.
Derail ==
    /\ InUser(CHILD)
    /\ code[rip] \notin {Text[rip], INT3_OPCODE}
    /\ fault' = "derailed"
    /\ UNCHANGED <<schedVars, dbg, bpVars, stopVars, code, childVars, rax>>

(***************************************************************************)
(* int3_handler.  The trap leaves entry_rip one past the INT3 at rip; the  *)
(* byte before the INT3 tells the two cases apart.                         *)
(***************************************************************************)
Trapped == InUser(CHILD) /\ code[rip] = INT3_OPCODE

\* Variant: every trap is taken for a first one.
SteppedNever == FALSE

SteppedOver == code[rip - 1] = PUSHRBP_OPCODE

\* Variant: the saved byte comes back and the entry is not armed again.
FinishUnarmed ==
    /\ Trapped
    /\ SteppedOver
    /\ code' = [code EXCEPT ![rip] = next]
    /\ Schedule(CHILD, state)
    /\ UNCHANGED <<ticks, dbg, bpVars, stopVars, childVars, rax, fault>>

\* Second trap of a breakpoint: restore, re-arm, resume the child.
FinishStep ==
    /\ Trapped
    /\ SteppedOver
    /\ code' = [code EXCEPT ![rip - 1] = INT3_OPCODE, ![rip] = next]
    /\ Schedule(CHILD, state)
    /\ UNCHANGED <<ticks, dbg, bpVars, stopVars, childVars, rax, fault>>

\* Variant: the frames from main inwards.
ChainOutermostFirst == <<rip>> \o stack

\* The function stopped at, then the return addresses up to main's frame.
CallChain == <<rip>> \o Reverse(stack)

\* First trap of a breakpoint: record the stack, move the trap one byte on,
\* stop the child and answer the debugger's wait.
StopChild ==
    /\ Trapped
    /\ ~SteppedOver
    /\ IF Len(CallChain) <= MAX_BACKTRACE
       THEN backtrace' = CallChain /\ UNCHANGED fault
       ELSE backtrace' = SubSeq(CallChain, 1, MAX_BACKTRACE) /\ fault' = "overrun"
    /\ next' = code[rip + 1]
    /\ code' = [code EXCEPT ![rip + 1] = INT3_OPCODE, ![rip] = PUSHRBP_OPCODE]
    /\ rax' = rip
    /\ Schedule(DBG, [state EXCEPT ![CHILD] = "WAITING"])
    /\ UNCHANGED <<ticks, dbg, bpVars, childVars>>

-----------------------------------------------------------------------------
EditStep == \E f \in Funcs : \/ SetBreakpoint(f)
                             \/ RemoveBreakpoint(f)
                             \/ RemoveFromEmpty(f)
                             \/ EnableBreakpoint(f)
                             \/ DisableBreakpoint(f)

ChildStep == \/ \E g \in Funcs : Call(g)
             \/ Return
             \/ Execute
             \/ Derail
             \/ FinishStep
             \/ StopChild
             \/ ChildExit

DebuggerStep == \/ BecomeDebugger
                \/ EditStep
                \/ InfoBreakpoints
                \/ InfoRegisters
                \/ SearchAstray
                \/ Backtrace
                \/ Fork
                \/ WaitAndContinue
                \/ DebuggerExit

SleepStep == \E p \in {DBG, CHILD}, n \in SleepTicks : Sleep(p, n)

Next == DebuggerStep \/ ChildStep \/ SleepStep \/ Tick

(***************************************************************************)
(* The processor executes the instruction stream of the child it runs, and *)
(* the APIC timer keeps ticking.  Neither program owes any system call.    *)
(***************************************************************************)
Fairness == /\ WF_vars(Execute)
            /\ WF_vars(FinishStep)
            /\ WF_vars(StopChild)
            /\ WF_vars(Tick)

Spec == Init /\ [][Next]_vars /\ Fairness
=============================================================================
