# Verification of the gemOS kernel assignments

This directory holds TLA+ models of the code in this repository (the CS330
assignments: user-space programs on Linux and three extensions of the teaching
kernel gemOS), the TLC configurations that check them, and TLAPS proofs about them.

Paths are relative to the repository root. `A1` is `Assignment1`, `A2` is
`Assignment_2/gemOs/src`, `A3` is `Assignment_3/src` and `A4` is
`Assignment_4/Assignment_4_release_gemOs/src`.

## The system

| Component | State | Operations | Status |
|---|---|---|---|
| Debugger, `A3/debug.c` | `debug_info` of the debugger (list of breakpoints, counter, saved byte, recorded call chain), the code segment it shares with its child, the saved registers of both | `become_debugger`, `set/remove/enable/disable_breakpoint`, `info_breakpoints`, `info_registers`, `backtrace`, `wait_and_continue`; `int3_handler`, fork and exit handlers | modelled |
| Scheduler and contexts, `schedule.c`, `entry.c` | table of `exec_context`s: state, ticks to sleep, saved registers; the current context | `pick_next_context`, `schedule`, `handle_timer_tick`, `do_syscall`, `do_fork`, `do_exit` | modelled |
| Message queues, `A2/msg_queue.c` | per queue: message buffer, read flags, members, matrix of blocked senders; per process: descriptors | create, send (one or all), receive, count, member info, block, close; fork and exit handlers | modelled |
| Open files and flat file system, `A2/file.c`, `A2/fs.c` (the same files in `A3`) | descriptor tables, file objects with reference count, offset and mode; the inode table and its data | open, read, write, lseek, close, dup2, sendfile; inode create, lookup, read, write; what fork and exit do with descriptors | modelled |
| Memory mapping, `A4/mmap.c`, `A4/entry.c` | sorted list of `vm_area`s with protection and page kind; page-table entries | mmap, munmap, page fault, make_hugepage, break_hugepage, an access of the process | modelled |
| Rock-paper-scissors umpires, `A1/Part2` | the pipe ends each process holds, what is in the pipes, who is still in, the matches of a level and their points | forking the players, levels, rounds, losers; the players | modelled |
| Command execution, `A1/Part1` | pipes and children of one invocation, what was printed | execute one command, execute a list in parallel | modelled |
| Prebuilt kernel objects | context slots, kernel stacks, page allocators, signals | `get_new_ctx`, `get_ctx_by_pid`, `do_sleep`, `os_page_alloc`, `invoke_sync_signal` ... | no source; what the code relies on is modelled and marked external |
| User library, test programs | none | system call stubs; sample programs | the stubs in `Syscalls`; the programs are the nondeterministic users of the models |
| Hardware drivers | none in the repository | headers only | interrupt delivery is the action `Tick` |

**How they interact.** User programs enter the kernel through the stubs of `user/lib.c`;
the timer, the breakpoint trap and the page fault enter it from hardware. The kernel
runs with interrupts off, on one processor, and a call that blocks ends in
`schedule()`, which does not come back: the caller resumes in user mode with
whatever was stored in its saved `rax`. Kernel entries are therefore atomic, and
what interleaves is user code, system calls, traps and ticks. Components share
the contexts: `debugger_on_fork`, `do_wait_and_continue`, `int3_handler` and
`debugger_on_exit` write the `state` that the scheduler reads, and
`do_sleep_and_alarm_account` changes it behind their backs. Parent and child share
the *code segment*, which is how a breakpoint reaches the child, and the file objects
of the descriptors that fork copies. The page fault handler reads the list of areas
that the mapping calls rebuild. The umpires and the command runner are ordinary
processes that share only pipes.

**What is hard.**
- The debugger: one breakpoint takes two traps, with any number of ticks between
  them; the second relies on a byte saved by the first and on bytes of code that
  debugger calls may have changed; the two processes hand the processor to each
  other through states that the timer also writes.
- The way into the kernel: two headers number the calls, each stub sets as many
  registers as it likes, and a tick may come between any two instructions of it.
- Message queues: membership, blocking and delivery are indexed by positions that
  move when members leave; fork and exit change them implicitly.
- Files: references that are shared and not counted, signed and unsigned positions,
  neighbours in one stretch of memory; sendfile can fail between its two halves.
- Mapping: one list operation has up to a dozen shapes (split, trim, merge, at the
  head or inside), error returns in the middle of some, and a page table that is to
  agree with the list although no call touches both completely.
- Umpires and commands: pipes with several holders, inherited ends, short reads,
  players that die.

**What makes each correct.** Debugger: the child runs its own program except that
every call of a function with an armed breakpoint stops it once; exactly one of the
two can run; list, numbers, statuses, backtrace and return values tell the truth.
Scheduler: one context runs, no READY process starves, no sleeper is lost, each
process sees registers of its own. Message queues: a message is received once, by the
members its sender could reach, in order. Files: what is read is what was written, at
the position all sharers share, and no file reaches into another.
Mapping: areas are sorted and disjoint, and every access gets what the mapping calls
promised. Umpires: every game ends, with the player that won it. Commands: the outputs
come whole and in the order of the input.

## Modules

| Module | Contents |
|---|---|
| `Contexts` | the context table and the pure part of the scheduler: `PickNext`, `TicksAfterTick`, `WakeSleepers` |
| `Debugger` | state machine of debugger, child, code segment and timer |
| `DebugSession` | abstract specification: what a debugging session promises, with no patched bytes, process table or timer |
| `Syscalls` | state machine of stubs, dispatch, scheduler and timer, for the three kernels and any number of processes |
| `OwnRegisters` | abstract specification: each process has a processor of its own |
| `MsgQueue` | state machine of the queues, their members and the descriptor tables |
| `Mailboxes` | abstract specifications: a queue as a mailbox for each member, with no slots, descriptors or shared buffer; `Spec` is the whole promise, `DeliverySpec` that of delivery alone |
| `Files` | state machine of descriptors, file objects, inodes and the bytes of the files |
| `FlatFiles` | abstract specification: names with bytes, descriptions with a position; no counts, inodes or memory |
| `VmArea` | state machine of the list of areas, the page table, the mapping calls, accesses and page faults |
| `PageMap` | abstract specification: each page is free or has a protection and a page size |
| `Umpire` | state machine of `umpire` and `umpire2` with their players and pipes |
| `Knockout` | abstract specification: the rules of the tournament, with no processes or pipes |
| `Ranks` | the n-th element of a set: the players still in, in order |
| `Commands` | state machine of `executeCommand` and `executeInParallel` with their children |
| `<X>Properties` | invariants, action and liveness properties of `X`, and the refinement mapping to its abstract specification |
| `MC<X>` | the values the instances need; the `.cfg` files of that name are the instances |
| `Orders` | least elements, ranks and cardinalities; sequences built step by step, flattened, in order, or the beginning of another: lemmas for the proofs |
| `DebuggerProofs`, `SyscallsProofs`, `MsgQueueProofs`, `FilesProofs`, `VmAreaProofs`, `UmpireProofs`, `CommandsProofs` | the proofs |

A definition named by a comment "Variant" is a plausible mistake in the one below it.
No behaviour uses it; each property was seen to fail when such a variant takes the place
of the definition.

### How `Debugger` corresponds to the code

*State.* `cur`, `state`, `ticks` are the current context and the fields `state` and
`ticks_to_sleep` of the table. `dbg`, `head`, `num`, `next`, `backtrace` are the
debugger's `ctx->dbg` and its fields; the linked list is a sequence and the array of
return addresses the sequence of its entries before the zeroes. `code` is the shared
code segment, one byte per address. `rip` is the child's saved instruction pointer
and `stack` the return addresses on its stack. `rax` is the debugger's saved `rax`,
what its last system call returned or will return. `fault` says which undefined
behaviour has happened: a read through NULL, a write past `dbg->backtrace`, or the
child executing a byte that is not its program's. After a fault nobody runs: the
model makes no claim about what follows.

*Actions.* Each system call, each kind of trap and the tick is one action and stands
for the whole handler with the scheduling it ends in.

| Action | Code |
|---|---|
| `BecomeDebugger`, `SetBreakpoint`, `RemoveBreakpoint`, `RemoveFromEmpty`, `EnableBreakpoint`, `DisableBreakpoint`, `InfoBreakpoints`, `InfoRegisters`, `Backtrace` | the `do_*` functions of `debug.c` of these names; `RemoveFromEmpty` is `do_remove_breakpoint` with `head == NULL` |
| `Fork` | `do_fork` with `debugger_on_fork` |
| `WaitAndContinue` | `do_wait_and_continue` with `schedule` |
| `SearchAstray` | the search at the head of `do_info_registers` and `do_wait_and_continue` before the fork |
| `StopChild`, `FinishStep` | the two branches of `int3_handler` |
| `ChildExit`, `DebuggerExit` | `do_exit` with the two branches of `debugger_on_exit` |
| `Sleep`, `Tick` | `do_sleep` (no source: as the tick's accounting expects it), `handle_timer_tick` with `do_sleep_and_alarm_account` |
| `Call`, `Return`, `Execute`, `Derail` | user-mode steps of the child: the calls and returns of its functions, the instructions of a prologue, a corrupted byte |

*The child* is an arbitrary program: in the body of a function it may call any
function, return, sleep or exit. A prologue is executed instruction by instruction,
because that is where the traps are. `Text[f]` is `push %rbp` for every function; the
rest of the segment is arbitrary up to `TextAssumption`.

*Reading two lines of `int3_handler`.* `*((u8 *)ctx->regs.entry_rip - 2)` casts before
it subtracts, so it addresses the byte two below the saved instruction pointer, as
intended; with the trap at `rip` these are `code[rip - 1]` and `code[rip]`.

*Use of the calls.* A careful debugger program edits (sets, removes, enables,
disables) any function but the one its child is stopped at, and its `set` calls find
room. `Usage` lists what a program does beyond that; its values are
`set_at_stop`, `remove_at_stop`, `enable_at_stop`, `disable_at_stop`, `set_when_full`,
`no_memory`, `remove_when_empty`, `exit_when_empty`, `continue_after_exit` and
`search_before_fork` (`info_registers` or `wait_and_continue` with no child yet: the search for one
never finds a context and ends in a read through NULL, `SearchAstray`). The
assignment text allows all of them but the last two; what they
break is under *Disagreements* below. Assumptions of the text that the model keeps: one child, no
grandchildren, the child makes no debugger calls, and the debugger exits last.
`become_debugger` is called once and first, as in the test programs; `fork` once.

### How `MsgQueue` corresponds to the code

*State.* `alive` are the contexts in use and `files` their descriptor tables: each
descriptor is free, a regular file, or one of the queues. Of a queue, `pids`, `read`
and `blocked` are the arrays of `msg_queue_info` (`blocked` with its rows as sets),
`buffer` is `msg_buffer` up to the first dummy, with sender and receiver of each
message, and `refs` the `ref_count` of its file object. `mangled` says that the pointer
`msg_buffer` was overwritten, which `close` does through `pids[-1]`. `reply` is what the
last call returned: its value, with the sender for a receive, and the count of
members for member info.

*Actions.* Each system call is one action: kernel entries are atomic, so the order of
calls is all that interleaves.

| Action | Code |
|---|---|
| `CreateMsgQueue`, `Receive`, `GetMsgCount`, `GetMemberInfo`, `Block` | the functions of `msg_queue.c` of these names |
| `Broadcast`, `Send`, `Overflow` | the two halves of `do_msg_queue_send`, and its run off the page |
| `MsgQueueClose`, `CloseStranger`, `CloseUnopened` | `do_msg_queue_close` by a member, by a process that is none, and of a free descriptor |
| `NotAQueue` | the refusals, in the wrappers of `entry.c` and at the head of each function |
| `Fork` | `do_fork` with `do_add_child_to_msg_queue` |
| `Exit` | `do_exit` with `do_msg_queue_cleanup` and `do_file_exit` |
| `OpenFile`, `CloseFile`, `TableFull` | the descriptor side of `do_regular_file_open` and `do_close`; the search that passes the end of the table |
| `Dangling`, `Astray` | a call that reads a freed file object, or the overwritten pointer |

`fault` names the undefined behaviour met; as in `Debugger` the model stops there.

*What the code says, and not what it means to say.* `read[i] == 1` compares and stores
nothing, so `MarkRead` leaves `read` alone. `indice = 1` makes `close` take slot 1
whoever calls, so the branch that frees the queue is never reached. Process 0 is found
in an empty slot. A sender that is no member leaves `sender_pid` uninitialised: `Deaf`
is then any set of slots. Closing leaves the descriptor open, which is how a process
comes to hold a queue it is no member of.

*Use of the calls.* The core is what the test programs do: create, fork, send, receive,
count, block, with every process alive. `Usage` adds `close`, `exit`, `stranger` (calls
through an inherited descriptor by a process that is not a member), `close_unopened`,
`close_file`, `pid_zero`, `self` (addressing or blocking oneself), `fill_buffer` and
`fill_table`.

*Left out.* `dup2` of a queue's descriptor, after which fork makes the child a member
twice. Of a regular file only that its descriptor is taken: that the first close or
exit frees a file object its other holders still have has the same cause as in `refs` and
is what `Files` models. Senders put their own pid into `from_pid`, as
every test program does.

### How `Syscalls` corresponds to the code

*State.* `state`, `ticks`, `current` as in `Debugger`; `regs` are the registers saved in
each context and `cpu` those of the processor. Of the registers it keeps what can go
wrong: whether the process is in user code or in a stub, the call's number, how many
arguments the stub has set, and the result. `UserNumbers` is the numbering of
`user/ulib.h`, `KernelNumbers` that of `include/entry.h`, `Stubs` says how many
arguments each stub sets, `Cases` how many `do_syscall` hands on.

| Action | Code |
|---|---|
| `Load` | a stub of `user/lib.c`, up to the trap |
| `Return` | `do_syscall` with a handler that comes back, or its default case |
| `Fork`, `Sleep`, `Exit` | `do_syscall` with `do_fork`, `do_sleep` and `schedule`, `do_exit` and `schedule` |
| `Tick` | `handle_timer_tick` with the sleep account and the switch |

*What the code says.* A context that is alone stays READY after a tick, though it runs.
`dup` of Assignment 2, `sendfile` of 3 and `mprotect` of 4 have stubs and no case: they
return -1. No stub calls ALARM, so the alarm branch of the account cannot be reached.
`sleep` leaves the result register as it was. In Assignment 3 a forked child waits until
its debugger continues it, which is left to `Debugger`; here it only waits. `clone`,
`cfork`, `vfork` and the signals are prebuilt and modelled as calls that return.

### How `Files` corresponds to the code

*State.* `files` is `ctx->files` of each process, `obj` the pages that hold `struct file`,
`inode` the inode table, `mem` the bytes of the regular files, which lie side by side.
Positions and counts are words: arithmetic is modulo `WIDTH`, and a position is read as
an `int` where `fs.c` does so. A freed object keeps its fields until its page is taken
again. `reply` is the result of the last call and the bytes it read.

| Action | Code |
|---|---|
| `Open`, `OpenStd` | `do_regular_file_open`, `open_standard_IO`, with `flat_create_inode` and the search for a descriptor |
| `Read`, `Write`, `Lseek`, `Dup2`, `Sendfile`, `Close` | the functions of `file.c` of these names, with the `fops` they reach and `flat_read`, `flat_write` |
| `Fork`, `Exit` | what `do_fork` and `do_exit` do with descriptors |

*What the code says.* Fork copies descriptors and dup2 stores one without counting:
the object is freed at the first close, and further closes drop the count of a freed
object (`MaxOver` bounds how often). `open` allocates its object before it compares the
modes. `SEEK_END` stores `max_pos + offset`, an address, where an offset belongs. A
negative target passes the bound check. A write of no bytes beyond the data extends the
file. `sendfile` on a standard stream follows an inode pointer that was never set
(`fault` "wild"), and one whose read fails has moved the input's position. A search for
a descriptor in a full table runs past it (`fault` "past").

*Use of the calls.* `Usage` may add `reopen` (a page is taken while a freed object still
has a descriptor), `seek_negative`, `seek_end`, `sendfile_std`, `sendfile_fails`,
`too_many`. Pipes are prebuilt and left out, as are the tools of `fs.c` that no call
reaches.

### How `VmArea` corresponds to the code

*State.* `areas` is the list from `current->vm_area` along `vm_next`, its dummy first;
`pmd` and `pte` are the two lower levels of the page table. The model is of the first
gigabyte of the mapping region, whose upper-level entries are those of the data segment
(`DATA_START` 0x180000000, `MMAP_START` 0x180200000): present and writable from the start.
`reply` is the last call or access with its address and result.

| Action | Code |
|---|---|
| `Map`, `Unmap`, `MakeHuge`, `BreakHuge` | `vm_area_map`, `vm_area_unmap`, `vm_area_make_hugepage`, `vm_area_break_hugepage` |
| `Touch`: `Hit`, `Served`, `Refused` | an access that the page table allows; one that `vm_area_pagefault` and `map_physical_area` serve; one that ends in SIGSEGV |

*What the code says.* `addr & page != 0` is `addr & 1`. `munmap` clears entries only where
`get_pte` finds none, so a page that was touched stays present. `mmap` returns the end of an
area it grows. A table of pages has the rights of the area that first touched its
region. `make_hugepage` changes protections and frees areas before some of its error
returns. A split area's `mapping_type` is not set: any of the three values. `fault` tells
a use of a freed area, of NULL, and a split that never ends apart; the model stops there.

*Use of the calls.* The twelve values of `Usages` name what a careful process keeps out of;
each is a predicate on the call and the list (`MapUses`, `UnmapUses`, `MakeUses`,
`BreakUses`, `TouchUses`). Left out: `pmap`, which prints; faults of the other segments;
fork, which copies the pointer to the list (`A4/entry.c:17`).

### How `Umpire` corresponds to the code

One module covers both programs: `umpire` is a match of players 0 and 1, `umpire2` adds
levels, walk-overs and more players. (`A1/Part2/2.2/umpire2.c` and
`A1/180609/umpire2.c` are the same program.) `held` says which process holds which pipe
end: a read ends, and a write raises SIGPIPE, when nobody holds the other end.

| Action | Code |
|---|---|
| `Fork`, `SetupFails`, `PathOverrun` | the loop that reads a path, makes the pipes and forks; its failures; a last line without newline |
| `StartLevel`, `StartMatch` | drawing a walk-over, pairing neighbours, clearing points |
| `SendGo`, `ReadMove` | the writes and reads of a round, with `getResult` |
| `Decide`, `Finish` | the losers of a level; the end |
| `Exec`, `ExecFails`, `ReadGo`, `MakeMove`, `EndOfGame`, `Quit` | a player |

*What the code says.* `atoi(&p)` sees one digit of the number of players. `points[j][1]`
is not initialised: `StackValues` is what the stack holds, and the runs take zeros. At the end of a
stream the move buffer keeps its old characters. A move is one byte and a read takes two.
The second player of a tie is out. Losers are not told before the end. `playRound` and
`playMatch` of `gameUtils.c` are called by no program and left out.

### How `Commands` corresponds to the code

`executeCommand` is a child that searches `CS330_PATH` and a parent that waits;
`executeInParallel` reads its lines, forks a child with a pipe for each and copies one read
of every pipe, in order. A program is what it writes and its exit code.

| Action | Code |
|---|---|
| `OpenFails`, `ReadLines`, `Fork`, `ForkFails`, `AllForked`, `Collect`, `Finish`, `Wait` | the parent |
| `Search`, `Write`, `Exit` | a child, before and after its exec |

*What the code says.* The parent holds the write end of every pipe, so the read of a command
that prints nothing never returns, and a child whose pipe is full waits for ever even
when the parent is gone. One read takes at most 1024 bytes, after which the zero is
stored past the buffer: nothing or a crash. The last byte of a line is dropped whether
it is a newline or not, and a line of 63 bytes becomes two. More than 50 lines overrun
the array. The output file is not truncated. `executeInParallel` has no `return`, and the
status `executeCommand` returns loses its exit code in the second byte.

*When pipe fails.* Nobody looks at what `pipe` returns; the two numbers in `pfds[j]` are tested,
and a failed `pipe` leaves them as the memory was. If one is negative the program stops
(`ForkFails`). Otherwise (`PipeFailed`) they are any of `Garbage`: no open descriptor, the input, the
output, or an end of an earlier pipe. The child's `dup2` then takes that for its
standard output or leaves it the output file of its parent; the parent's read of the other number
takes bytes from another command's pipe, or from the output file, or fails, stores its zero at
`buff[-1]` and prints what the buffer still holds (`ReadFails`; `Junk` before the first read).
`made` remembers whose pipe there is. Descriptor 2 is left out of `Garbage`: the error
stream is not modelled. What the parent prints lies in the buffer of stdio until exit and goes
to the output file then, at the position it shares with children that write there.

## Checks

| Run (`MC<X>_<run>.cfg`) | Question | Properties | States |
|---|---|---|---|
| `careful` | does a careful debugger control its child, and is it a debugging session? | `TypeOK`, `PatchesAccounted`, `ListOrdered`, `BacktraceCurrent`, `NeverDerails`, `NumbersNeverReused`, `WaitReports`, `ImplementsSession`, `SleepersWake` | 181,578 |
| `anyuse` | what survives any use of the debugger, all ten values of `Usage`? | `ControlAlternates` | 36,440 |
| `queue_mail` | is one queue with three members a mailbox for each, as far as delivery goes? | `MembersHoldDescriptors`, `DeliversMail` | 77,489 |
| `queue_anyuse` | what survives every use of a queue but `self`? | `TypeOK`, `MembersLive`, `MembersDistinct`, `MembersPacked`, `MailToLiving` | 1,564,413 |
| `files` | do two processes that share descriptors see the files they should? | `TypeOK`, `InodesInBounds`, `ImplementsFlatFiles` | 44,713 |
| `mapping` | does a careful process get the memory the calls promise? | `TypeOK`, `ListSound`, `TablesAgree`, `NeverBreaks`, `ImplementsPageMap` | 45,433 |
| `syscalls` | does every call arrive, and every process keep its registers and its turn? | `TypeOK`, `OneRuns`, `CallsArrive`, `ImplementsOwnRegisters`, `EveryoneRuns` | 180,821 |
| `tournament` | do the umpires referee by the rules and end, whoever dies? | `TypeOK`, `FreshMoves`, `ImplementsKnockout`, `Finishes`, `PlayersEnd` | 451,352 |
| `commands` | do outputs come whole and in order, also beside a command whose pipe failed, and does everything end? | `TypeOK`, `OutputsInOrder`, `OwnOutput`, `Ends` | 1,200,576 |
| `queue_receive` | is a message received once? | it is received again and again: `ImplementsMailboxes` fails | |
| `queue_close` | does close take the caller off a queue? | it takes whoever is in slot 1: `CloseLeaves` fails | |
| `exec_fails` | does a tournament stop when a player cannot start? | it is played on, waits or is killed: `NoGameWithoutPlayers` fails | |

### Bounds and why they are enough

*Debugger.* Two functions after `main` give a breakpoint that is stepped over
while another is set, removed or hit, and adjacent ones (their code is four bytes
apart, the least `LayoutAssumption` allows; all bytes differ, so that a byte put in the
wrong place shows). The context table has three slots: swapper, debugger, child. Depth 2
gives recursion: a function that stops a second time while the first call of it is still
on the stack. `MaxNum` 3 is set, remove and set again with a second entry in the list,
which is where order and numbering could break. Sleeps of 1 and 2 ticks let a sleep end at
the tick that would otherwise switch, or one later, with the swapper running. `anyuse`
has room for one breakpoint so that the list can be full, and a call chain longer than
the recorded array. The uses `remove_when_empty`, `exit_when_empty` and
`continue_after_exit` are outside `careful`; the proofs cover them. `search_before_fork`, which
only ends in its fault, is left to `anyuse`.

*Message queues.* Three members are the fewest with a sender, a receiver that accepts
and one that has blocked, in either order of slots; two messages hold a broadcast to
both, or two messages of different senders to one receiver, whose order shows in the mailbox.
The two descriptors hold a queue and a file opened before or after it, inherited either way.
`VIEW` drops what the last call returned but keeps whose it was: no action reads `reply`, and TLC
checks the steps of `DeliversMail` at every transition, those to known states included.
`queue_anyuse` has three processes and two
slots, so that a queue can be full when a process forks and a pid is used again after an
exit, and two messages, so that mail for two receivers waits while they leave. Two queues side
by side, and members that address or block themselves, are covered by the proof of
`MailIsDelivered` alone.

*Files.* Two processes, a standard stream and one descriptor besides: a file and its
neighbour of two bytes each (a write, a full file, one byte too many), descriptors shared
by fork and dup2, and both closing in any order. Two pages for objects: once the
stream is closed its page can become a second object of the file, with a position of
its own, in another process. Seeks by one in either direction. `SYMMETRY` permutes the pages and `VIEW` drops
the last reply and the fields of pages nobody has.

*Mapping.* Two pages make a huge page and three huge pages the region; the first page
is the dummy's, so one huge page is partly and two wholly free. Lengths of less than a page and of
a huge page; no hint, aligned and odd addresses. The list grows to the dummy and five areas, so that
what a call touches has neighbours of the same and of other protections on both sides.

*Syscalls.* Three processes beside the swapper: one runs, one sleeps, one is READY; the first
makes every call, the others fork, sleep and exit. Each of the three kernels.

*Umpires.* Up to four players: two levels, an odd level, a walk-over of either of the first
two; two rounds and two pairs, so that a round can be overtaken by the next and one pair
by another. Twelve players show the one-digit count.

*Commands.* Two lines, of which a long one becomes two; a write that fills the buffer and
the pipe, two writes of which one read may take both or one, none, a byte 0; a path of two
directories that differ, and an empty one; an old file that is longer than the new one. With two
commands either pipe can fail beside the other, and the second's garbage can name the
first's ends; `Garbage` has a value of each kind.

### Deadlock and fairness

`CHECK_DEADLOCK` is off because every system here stops by design: when its last process
exits, `do_cleanup` turns the machine off, the user programs end, and after a fault the
models stop. Where ending is a property it is stated (`Finishes`, `PlayersEnd`, `Ends`).

In `Debugger`, weak fairness of `Execute`, `FinishStep`, `StopChild` (the processor
executes the instructions of the child it runs and takes its traps) and of `Tick` (the
APIC timer keeps firing; interrupts are off only for the length of a kernel entry).
Nothing is assumed of the two programs: the debugger need never continue, the child
need never return, call or exit. `SleepersWake` and the liveness half of
`ImplementsSession` (a stop is reported, a stepped-over function is entered) rest on
this alone. In `Syscalls`, only `Tick`: `EveryoneRuns` asks nothing of the processes.
In `Umpire` and `Commands`, weak fairness of the parent and of each child: Linux runs
every process that can go on. Players need not fail and need not quit. `MsgQueue`, `Files` and `VmArea`
have no liveness property: none of their calls waits.

### The refinements

*`DebugSession`* has a turn, a set of armed functions, and the child's
place in its program. A function is armed if its entry is patched or a step over it
is pending; the stop is the first trap; the second trap, ticks, sleeps and the bytes
moved about are stuttering; the child's answer, its place and its callers are read off
`rax`, `rip` and `stack`. So a breakpoint stops each call once, whatever happens
between the two traps, and the debugger's edits take effect at the next call.

*`Mailboxes`.* Slots stand for the processes in them, and a mailbox is what of the buffer is
for its owner and not marked as read. A message
goes to the processes addressed that have not blocked its sender and to no others;
a child starts with an empty mailbox, refused by nobody; receive answers with the oldest message,
and the count is what is in the mailbox. In `Spec` receive also takes that message away
(`Take`), as the assignment text, the tests (`bcast.c` waits for one ACK after the other) and the
read flags of the code itself have it. The code does not implement `Spec`: the violation run
`queue_receive` shows a message that is received twice. It does implement `DeliverySpec`, where a
message may be heard and left (`Look`) as well as taken: that is everything about
who gets what in which order, and it would hold unchanged of a receive that marks what it has read.
`reply` says which call was answered, and
whose, so that a step that does for one process what another asked for is refused.

*`OwnRegisters`.* The view of a process is the processor's registers while it is
current and its saved ones otherwise; a switch must therefore be a stutter.

*`FlatFiles`.* Descriptions are the objects that have a descriptor, freed or not; the content
of a name is the data of its inode, not beyond its size. It holds as long as no page is
taken while a freed object is in use: there the missing counts begin to show.

*`PageMap`.* Each page has the protection and the kind of the area that holds it; the page table does
not appear, so an access must be answered by the table as the list would answer it.

*`Knockout`.* The games of a level with their rounds and lead; the processes, pipes
and GO messages are stuttering. A level is drawn, each round adds what the two moves
shown are worth, and the losers leave together.

### Disagreements

The three violation runs are listed under "findings" in `PROJECT.json` with the sentences of the
assignment texts they contradict. The models show further disagreements that have no run
of their own; where a definition of a `Properties` module states the promise it is named, and
TLC refutes it once `Usage` has the value given:

- the breakpoint the child is stopped at is removed, and stops it again
  (`StopsOnlyAtListed`, `remove_at_stop`); or enabled, and the saved byte is lost and a wrong
  address reported (`WaitReports`, `enable_at_stop`); a child that has exited is continued and
  runs again (`DeadStaysDead`, `continue_after_exit`).
- `set_breakpoint` on a full list fails and leaves its patch (`A3/debug.c:179`, `set_when_full`);
  `enable_breakpoint` stores status 0 (`A3/debug.c:265`); `remove_breakpoint` on an empty list,
  and a debugger that exits with one, read through NULL (`remove_when_empty`,
  `exit_when_empty`); `backtrace` of a full array counts past its end (`A3/debug.c:349`).
- a block ends when a member in front of the
  two leaves (`BlocksLast`, `close`); `close` leaves the descriptor open and reads
  a free one through NULL; process 0 can be addressed while a queue has an empty
  slot (`pid_zero`); a child joins only the queues in front of the first free descriptor
  (`close_file`); the first exit frees a file its other holders still have (`FileLives`, `exit`).
- a file object is freed while descriptors of it exist (`DescriptorsLive`, no use needed), and
  everything listed under `Files` above.
- a page that was touched stays accessible after munmap (`UnmappedFaults`,
  `unmap_resident`); mmap returns the end of an area it grows (`MapReturnsArea`, none
  needed); a writable page cannot be written below a read-only table (`WritableIsWritable`,
  `touch_mixed`).
- `make_hugepage` goes on to join the huge areas of the same protection behind the new one,
  at whatever distance: the gap becomes mapped, and the area freed is the one after
  (`A4/mmap.c:619`; `make_any`). The proof of `ListStaysSound` failed here first.
- the exit code of a command is lost (`ReturnsStatus`, none needed); an output file keeps its old tail;
  a silent command hangs the parent.
- `points[j][1]` is uninitialised (`A1/Part2/2.2/umpire2.c:153`): with another value than 0 on the
  stack the wrong player wins.
- `dup`, `sendfile` and `mprotect` each have a kernel with a stub and no case.

## Proofs

| Theorem | Establishes | Under |
|---|---|---|
| `TypeCorrect` | `TypeOK` of the debugger | any use |
| `Alternation` | `ControlAlternates` | any use |
| `OrderKept` | `ListOrdered` | any use |
| `NumbersUnique` | `NumbersNeverReused` | any use |
| `BacktraceTrue` | `BacktraceCurrent` while `int3_handler` has not overrun the array | any use |
| `BacktraceKept` | `BacktraceCurrent` | calls nest less deep than the array is long |
| `PatchesTracked` | `PatchesAccounted` | `CarefulUse` |
| `WaitTruthful` | `WaitReports` | `CarefulUse` |
| `StaysOnRails` | `NeverDerails` | `CarefulUse` |
| `ListsPacked`, `ListsDistinct`, `ListsLive` | `MembersPacked`, `MembersDistinct`, `MembersLive` | any use |
| `ListsComplete` | `MembersHoldDescriptors` | `CarefulMembers` |
| `QueueTypeCorrect` | `TypeOK` of the queues | any use |
| `MailForLiving` | `MailToLiving` | any use |
| `MailIsDelivered` | `DeliversMail` | `CarefulMail` |
| `OneContextRuns` | `OneRuns` | |
| `SyscallTypes` | `TypeOK` of `Syscalls` | |
| `CallsReachHandlers` | `CallsArrive` | |
| `RegistersOwned` | `ImplementsOwnRegisters` | |
| `FilesTyped` | `TypeOK` of the files | any use |
| `FilesKeptApart` | `InodesInBounds` | `CarefulSeeks` |
| `MappingTyped` | `TypeOK` of the mapping | `KeepsList` |
| `ListStaysSound` | `ListSound` | `KeepsList` |
| `CarefulNeverBreaks` | `NeverBreaks` | `KeepsList` |
| `TablesFollowList` | `TablesAgree` | `KeepsTables` |
| `UmpireTyped` | `TypeOK` of the umpires | any faults |
| `MovesFresh` | `FreshMoves` | any faults |
| `PlaysByTheRules` | `ImplementsKnockout` | `StackValues = {0}`, any faults |
| `CommandsTyped` | `TypeOK` of the commands | any faults; of more lines than the array holds nothing is claimed |
| `OutputsOwned` | `OwnOutput`, which speaks of commands with a pipe of their own | any faults |
| `OutputsKeepOrder` | `OutputsInOrder`, which speaks of these and of plain inputs | any faults |

They hold for every value of the constants that satisfies the named assumptions of the
modules. Of these `TextAssumption` (functions begin with `push %rbp`, the byte before a
function and the byte after its push are not 0x55, the program contains no INT3 of its
own) and `LayoutAssumption` (functions are longer than their patched bytes) are matters
of compiled code: gcc's prologue is `push %rbp; mov %rsp,%rbp`, and without them
`int3_handler` itself could not tell its two traps apart. `FilesAssumption` says that all addresses
of file data are less than half a word. The rest are sizes of arrays and tables.
`CarefulUse`: `Usage` adds at most `remove_when_empty`, `exit_when_empty` and
`continue_after_exit`. `CarefulMembers`: nobody closes, exits or sends as a stranger, and
a queue has a slot for each process; `CarefulMail` that nobody addresses the process 0
either. `CarefulSeeks`: no seek before the start or
from the end, no sendfile whose read fails, no buffer of half the address space.
`KeepsList` and `KeepsTables` keep out eight and ten of the uses of the mapping calls, each
for a reason given below.

*The debugger.* `ControlAlternates` is not inductive: it does not know where a tick
leaves the current context, nor that a waiting process has no ticks left.
`TurnInv` (`DebuggerProofs`) names the three situations there are, *debugger's turn*,
*child's turn* and *session over*, with the ticks of both and the swapper in between, and adds the
types with `rip` confined to the instructions the model executes, without which a
trap could index outside the segment. One lemma per action and half of the invariant
shows it preserved; the scheduler's part rests on `PickOnly` and `PickNone`: with one
user context READY `pick_next_context` returns it, with none the swapper.
`PatchInv` (`DebuggerProofs`) says that each function is *clear*, *armed* or *pending*:
untouched; entry patched and listed; or stepped over, with the next byte patched, its
original in `dbg->next`, and the child standing at one of the two bytes. As the child
stands in one place, at most one function is pending, which is why a single saved byte
is enough: `dbg->next` is overwritten only when nothing is pending (`NothingPending`).
From `PatchInv`, a trap that `SteppedOver` recognises is the second trap of the pending
function and any other is the first of an armed one (`TrapFacts`).
`BacktraceInv` holds in any use: only `StopChild` brings the child to the entry of a
function, it records the stack as it then is, and until the child is continued nothing
touches either (`StaysStopped`). The walk may pass the end of the array
(`A3/debug.c:112`), which a program does that nests its calls deeper than `MAX_BACKTRACE`;
`BacktraceKept` is the theorem for the others.

*The scheduler.* `OneRuns` needs to know who may be READY. `OneInv` (`SyscallsProofs`) adds
that the swapper never waits and is in user mode, that who does not sleep has no ticks
left, and that in Assignment 3 the children wait until they are continued. For
`RegistersOwned` a switch is shown to be a stutter of `OwnRegisters`: `schedule` loads what
was saved, and a context that is chosen without a switch is the one that was current.
`CallsInv` says of the registers of every context, in the processor or saved, that they are
those of the stub it is in (`RegsMatch`); no handler is reached with another number, whatever
ran between the load of a register and the trap.

*The queues.* `MembersDistinct` needs to know that a forked child is in
no list it joins, which is `MembersLive`, and `MembersLive` that a queue not yet
created is in nobody's table. `QueueInv` (`MsgQueueProofs`) joins the three properties
with that fact (`Fresh`) and the types of the variables they speak of. Two lemmas about
member lists carry it: `ShiftKeeps`, that the shift of `close` keeps a list packed and
without duplicates from whatever slot it starts, which is why a `close` that takes the
wrong slot still leaves a list; and `JoinKeeps`, that the first empty slot of a packed
list is the end of it. At exit the file object is freed, and the queue drops out of
`MembersLive`, rather than the process out of the list. `HoldInv` adds for `ListsComplete`
that descriptor tables have no holes, so that the fork handler's scan sees every queue,
and that no slot belongs to the dead. `MailForLiving` follows from `LivingMail`: of a queue whose
file is allocated, whoever a message is for is alive and has a descriptor, so that no exit can leave mail
behind without freeing the file. `MailIsDelivered` is the refinement to `DeliverySpec`. A
mailbox is the subsequence of the buffer that is for one process, and `BoxPosted` says what storing
messages does to it when they bring one message to each of a set of processes (`Goes`),
which `CopiesGo` shows of the copies of a broadcast: the walk over the slots meets each once.
`BoxInv` adds that messages and matrix name members only, so that a fork, which fills a slot
that was empty, gives the child neither mail nor blocks, and `SlotsStayNext` that nobody loses a slot.

*The files.* `Types` gives objects and inodes to every descriptor and position.
`BoundInv` (`FilesProofs`) adds `Positions`, that what is open for writing has an inode
in use, and `Sizes`, that an inode not yet taken is empty. `Layout` and `SmallWord`
say that within these bounds no sum wraps, so that the unsigned check of `do_write_regular`
is the check of the integers, and that a write within it touches no byte of a neighbour. `sendfile`
is a read followed by a write from the state in between (`Sends`), for which
the same lemma serves.

*The mapping.* `ListInv` (`VmAreaProofs`) says that the list is `Sorted` (the dummy first, then
areas inside the range, apart and in order, of whole pages or whole huge pages) and that no
table is empty (`Tabled`), without which `make_hugepage` would not find a region untouched.
For each call a lemma says what becomes of the list: `Grown` (nothing mapped is lost), `Held`
(nothing outside the range is touched). The loops are recursive functions or
flattened sequences; that their results stay sorted is shown for the least counterexample
of a step (`StepsUnique`, `FlattenSteps`, `OrderedFlatten` in `Orders`), which takes the place
of induction. `TablesInv` adds that a translation belongs to an area and has its rights
(`Agrees`), and that a region without a table has no entries (`NoStale`).
`KeepsList` leaves out what TLC shows to break the list: `map_nothing`,
`map_beyond`, `unmap_middle` and `unmap_huge` break its order or the huge pages, `unmap_start`
frees the dummy, and `make_any` and `break_any` use freed areas or return half-way;
`unmap_unaligned`, which cuts an area inside a page, breaks the types.
`KeepsTables` also leaves out `unmap_resident` and `touch_mixed`. The proof allows two
uses the run does not, `map_at_huge` and `touch_dummy`.

*The umpires.* `MatchInv` (`UmpireProofs`) says that `rem` counts the active players, that
matches are disjoint pairs of them and that each level halves them: `Losers` are as
many as there are matches, and one stays. `Orders` proves that the n-th of a finite set of numbers
exists and is another for another n. `MoveInv` says of each player, by the place the umpire is at,
how many GO messages and moves are under way (`Answers`), and that a player which works
holds the end of its output pipe (`Outputs`), so that the umpire's read cannot end early
while the player goes on. For `PlaysByTheRules`, `Rounds` adds that the rounds are counted from 1 to
`ROUNDS` and that the matches are in increasing order of their players, so that those before
the umpire's place are the ones a round ahead (`PlayedOnce`). `NeighboursMeet` shows that what the loop
over the flags pairs, the elements 2k-1 and 2k of a set, are its neighbours. Each action is then one step of
`Knockout` or none. The hypothesis is the uninitialised `points[j][1]`: with another value than 0
the wrong player wins.

*The commands.* `CommandsInv` (`CommandsProofs`) says of each pipe that the parent has not read
(`Unread`) that what is in it, followed by the writes its child has still to do, is what the
program found writes (`Begun`), so that a read, however early, returns a beginning of that; that
a child which searches has found nothing in the directories before (`Looked`), so that
the program `execv` runs is the one of the first directory that has it (`ChosenFound`); and
that the parent has printed once for each command it has passed (`Progress`). All this is said
of commands whose pipe is `Private`: it was made, and no stray number of another command
names its ends. `EndsGiven` shows that a fork makes no other command's pipe private, and
`Printed` keeps for each such command that what was printed is its own. A plain input is
read line by line as it stands (`PlainLines`). How a flattened sequence splits
at its first element (`FlattenHead` in `Orders`) is again shown for the least counterexample.
`CommandsAssumption` gives the sizes, and says that a program is a sequence of writes with
an exit code. It assumes nothing of how many lines an input has; where they overrun the array the
program stops in "crashed", and the theorems say nothing of what follows.

*Only model-checked.* Liveness and what contains it (`SleepersWake`, `ImplementsSession`,
`EveryoneRuns`, `Finishes`, `PlayersEnd`, `Ends`): fairness is beyond the
prover. Every invariant of the passing runs is stated by a theorem. Within reach and open: the refinements
`ImplementsFlatFiles`, `ImplementsPageMap` and the safety half of `ImplementsSession`.

## What is not modelled

- Signals and alarms: `invoke_sync_signal` has no source and no stub sets an alarm.
- More than one child of the debugger, `vfork`, `clone`, `cfork`, pipes of the kernel.
- The contents of the registers that `info_registers` copies, and where `entry_rip`
  points in them; the return value of `do_close`, which has no `return`.
- `sleep(0)`: whether `do_sleep` refuses it cannot be read.
- Failures of the page allocator inside the kernel: its result is used before it is tested.
- `pmap`, faults of the segments other than the mapping region, the copy of the
  list pointer at fork; `dup2` of a queue's descriptor.
- Printing, string helpers, the tools of `fs.c` without a caller, boot code, headers of the drivers.

## Plan

1. The step refinements of `FlatFiles` (from `BoundInv`) and `PageMap` (from `TablesInv`), and the safety half of `DebugSession`, from
   `TurnInv` and `PatchInv`.
