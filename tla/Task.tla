-------------------------------- MODULE Task --------------------------------
(***************************************************************************)
(* Tasking of x86osdev/user_mode/src/task.c on one CPU: initialise_tasking, *)
(* fork, the timer's switch_task and switch_to_user_mode.                  *)
(*                                                                         *)
(* The ready queue (a list linked through task->next, headed by            *)
(* ready_queue) is a sequence of pids.  A task's saved eip is abstracted   *)
(* to where it resumes: "none" (eip == 0), "switch" (after read_eip in     *)
(* switch_task) or "fork" (after read_eip in fork).  Kernel stacks are     *)
(* numbered in the order kmalloc_a returns them; 0 is no stack.  `intr' is *)
(* EFLAGS.IF: the timer interrupt, whose handler calls switch_task, is     *)
(* taken only while it is set.                                            *)
(*                                                                         *)
(* move_stack is modelled on a memory of 32-bit words, an address being   *)
(* the index of a word.  The boot stack is the words from the esp it has  *)
(* when move_stack reads it up to initial_esp; each word records whether  *)
(* the program uses it as a pointer into that stack (a saved ebp, the     *)
(* address of a local) or as anything else.  That tag is not the code's:  *)
(* the code cannot tell them apart, and the tag only lets the properties  *)
(* say what the word must become.                                          *)
(***************************************************************************)
EXTENDS Naturals, Sequences, SequencesExt, FiniteSetsExt

CONSTANTS
  MaxPid,       \* fork is called while next_pid <= MaxPid
  InitialEsp,   \* initial_esp: the top of the boot stack, which main saved
  StackStart,   \* new_stack_start, 0xE0000000, in words
  StackSize,    \* size, 0x2000 bytes, in words
  BootStacks    \* the boot stacks move_stack may find: [sp, ebp, words]

ASSUME MaxPid \in Nat \ {0, 1}

VARIABLES
  current,     \* current_task (0 before initialise_tasking)
  queue,       \* ready_queue and the next links, head first
  next_pid,
  nstacks,     \* kernel stacks kmalloc_a has handed out
  ks,          \* task->kernel_stack
  eip,         \* where task->eip resumes the task
  pc,          \* what the task is doing: "kernel", "forking", "child", "user"
  child,       \* fork's new_task, per parent
  intr,        \* EFLAGS.IF
  tss,         \* the kernel stack set_kernel_stack last loaded into the TSS
  dir,         \* task->page_directory: the pid whose clone it is, 0 the kernel's
  cr3,         \* current_directory
  boot,        \* the boot stack and registers when move_stack runs
  stk,         \* the words of the moved stack, by address
  regs         \* the esp and ebp move_stack leaves

vars == <<current, queue, next_pid, nstacks, ks, eip, pc, child, intr, tss, dir, cr3,
          boot, stk, regs>>

Pids == 1 .. MaxPid
Stacks == 1 .. MaxPid + 1
Tasks == ToSet(queue)

Init ==
  /\ current = 0
  /\ queue = <<>>
  /\ next_pid = 1
  /\ nstacks = 0
  /\ ks = [t \in Pids |-> 0]
  /\ eip = [t \in Pids |-> "none"]
  /\ pc = [t \in Pids |-> "kernel"]
  /\ child = [t \in Pids |-> 0]
  /\ intr = TRUE
  /\ tss = 0
  /\ dir = [t \in Pids |-> 0]
  /\ cr3 = 0
  /\ boot \in BootStacks
  /\ stk = <<>>
  /\ regs = [esp |-> boot.sp, ebp |-> boot.ebp]

(* The word of the boot stack at address a. *)
BootWord(B, a) == B.words[a - B.sp + 1]

Offset == StackStart - InitialEsp

(* move_stack's backtrace test: a value strictly between the old esp and  *)
(* initial_esp is taken for a base pointer and moved by the offset.       *)
Remap(B, v) == IF B.sp < v /\ v < InitialEsp THEN v + Offset ELSE v

(* Mutant: memcpy of one word less than initial_esp - old_stack_pointer. *)
move_stack_short(B) ==
  LET new_sp == B.sp + Offset
      copied == new_sp .. StackStart - 2
  IN [stk |-> [a \in copied |->
                 IF a > StackStart - StackSize THEN Remap(B, BootWord(B, a - Offset).v)
                 ELSE BootWord(B, a - Offset).v],
      regs |-> [esp |-> new_sp, ebp |-> B.ebp + Offset]]

(* move_stack: memcpy of the words from the old esp up to initial_esp to  *)
(* the same place below new_stack_start, then the backtrace over the     *)
(* words (new_stack_start - size, new_stack_start] rewriting every value *)
(* that Remap takes for a base pointer, and esp and ebp moved by the      *)
(* offset.  The words the loop visits outside the copy are not live and  *)
(* are not tracked; the frames the first loop allocates for the new stack *)
(* belong to the paging model.                                            *)
move_stack(B) ==
  LET new_sp == B.sp + Offset
      copied == new_sp .. StackStart - 1
  IN [stk |-> [a \in copied |->
                 IF a > StackStart - StackSize THEN Remap(B, BootWord(B, a - Offset).v)
                 ELSE BootWord(B, a - Offset).v],
      regs |-> [esp |-> new_sp, ebp |-> B.ebp + Offset]]

(* The kernel task is created with interrupts off, on the stack          *)
(* move_stack relocated.                                                   *)
initialise_tasking ==
  /\ current = 0
  /\ LET m == move_stack(boot) IN stk' = m.stk /\ regs' = m.regs
  /\ current' = next_pid
  /\ queue' = <<next_pid>>
  /\ next_pid' = next_pid + 1
  /\ nstacks' = nstacks + 1
  /\ ks' = [ks EXCEPT ![next_pid] = nstacks + 1]
  /\ eip' = [eip EXCEPT ![next_pid] = "none"]
  /\ dir' = [dir EXCEPT ![next_pid] = cr3]
  /\ UNCHANGED <<pc, child, intr, tss, cr3, boot>>

(* current_task->next, or ready_queue when current_task is the last. *)
(* Mutants: the wrap to ready_queue forgotten; the wrap to its second  *)
(* entry.                                                              *)
NextTask_nowrap(q, c) ==
  LET i == CHOOSE i \in 1 .. Len(q) : q[i] = c
  IN IF i < Len(q) THEN q[i + 1] ELSE 0

NextTask_second(q, c) ==
  LET i == CHOOSE i \in 1 .. Len(q) : q[i] = c
  IN IF i < Len(q) THEN q[i + 1] ELSE q[Min({2, Len(q)})]

NextTask(q, c) ==
  LET i == CHOOSE i \in 1 .. Len(q) : q[i] = c
  IN IF i < Len(q) THEN q[i + 1] ELSE q[1]

(* The timer's switch_task: save the running task's context, pick the next *)
(* one, load its page directory and kernel stack and jump to its eip with  *)
(* interrupts re-enabled by the sti before the jump.  Before tasking       *)
(* exists it returns at once.                                              *)
switch_task ==
  /\ intr
  /\ IF current = 0
     THEN UNCHANGED vars
     ELSE LET n == NextTask(queue, current)
          IN /\ eip' = [eip EXCEPT ![current] = "switch"]
             /\ current' = n
             /\ cr3' = IF n = 0 THEN cr3 ELSE dir[n]
             /\ tss' = IF n = 0 THEN tss ELSE ks[n]
             /\ UNCHANGED <<queue, next_pid, nstacks, ks, pc, child, intr, dir, boot, stk, regs>>

(* Mutant: fork without its cli. *)
ForkLink_nocli(t, garbage) ==
  LET c == next_pid IN
  /\ current = t /\ pc[t] = "kernel" /\ next_pid <= MaxPid
  /\ next_pid' = next_pid + 1
  /\ dir' = [dir EXCEPT ![c] = c]
  /\ nstacks' = nstacks + 1
  /\ ks' = [ks EXCEPT ![t] = nstacks + 1, ![c] = garbage]
  /\ eip' = [eip EXCEPT ![c] = "none"]
  /\ queue' = Append(queue, c)
  /\ pc' = [pc EXCEPT ![t] = "forking", ![c] = "child"]
  /\ child' = [child EXCEPT ![t] = c]
  /\ UNCHANGED <<current, intr, tss, cr3, boot, stk, regs>>

(* fork up to the read of eip (lines 168-191), under cli: clone the        *)
(* directory, create the child with eip 0, give a new kernel stack to      *)
(* current_task (not to the child, whose kernel_stack is never written:    *)
(* it holds whatever the heap memory held, 0 or a stale stack pointer) and *)
(* append the child to the ready queue.                                    *)
ForkLink(t, garbage) ==
  LET c == next_pid IN
  /\ current = t /\ pc[t] = "kernel" /\ next_pid <= MaxPid
  /\ intr' = FALSE
  /\ next_pid' = next_pid + 1
  /\ dir' = [dir EXCEPT ![c] = c]
  /\ nstacks' = nstacks + 1
  /\ ks' = [ks EXCEPT ![t] = nstacks + 1, ![c] = garbage]
  /\ eip' = [eip EXCEPT ![c] = "none"]
  /\ queue' = Append(queue, c)
  /\ pc' = [pc EXCEPT ![t] = "forking", ![c] = "child"]
  /\ child' = [child EXCEPT ![t] = c]
  /\ UNCHANGED <<current, tss, cr3, boot, stk, regs>>

(* The rest of fork in the parent (current_task == parent_task): the       *)
(* child's esp, ebp and eip are set to resume at read_eip, sti, and the    *)
(* child's pid is returned.                                                *)
ForkReturn(t) ==
  /\ current = t /\ pc[t] = "forking"
  /\ eip' = [eip EXCEPT ![child[t]] = "fork"]
  /\ intr' = TRUE
  /\ pc' = [pc EXCEPT ![t] = "kernel"]
  /\ UNCHANGED <<current, queue, next_pid, nstacks, ks, child, tss, dir, cr3, boot, stk, regs>>

(* The child first runs from read_eip in fork: current_task is not the     *)
(* parent, so fork returns 0.                                              *)
ChildReturn(t) ==
  /\ current = t /\ pc[t] = "child"
  /\ pc' = [pc EXCEPT ![t] = "kernel"]
  /\ UNCHANGED <<current, queue, next_pid, nstacks, ks, eip, child, intr, tss, dir, cr3, boot, stk, regs>>

(* set_kernel_stack, then cli and an iret to ring 3 whose EFLAGS were      *)
(* pushed by pushf after that cli.                                         *)
switch_to_user_mode(t) ==
  /\ current = t /\ pc[t] = "kernel"
  /\ tss' = ks[t]
  /\ intr' = FALSE
  /\ pc' = [pc EXCEPT ![t] = "user"]
  /\ UNCHANGED <<current, queue, next_pid, nstacks, ks, eip, child, dir, cr3, boot, stk, regs>>

Next ==
  \/ initialise_tasking
  \/ switch_task
  \/ \E t \in Pids :
       \/ \E g \in 0 .. nstacks : ForkLink(t, g)
       \/ ForkReturn(t)
       \/ ChildReturn(t)
       \/ switch_to_user_mode(t)

(* The PIT interrupts whenever IF is set, and the CPU goes on executing   *)
(* the running task's code.                                                *)
Fairness ==
  /\ WF_vars(switch_task)
  /\ \A t \in Pids : WF_vars(ForkReturn(t)) /\ WF_vars(ChildReturn(t))

Spec == Init /\ [][Next]_vars /\ Fairness

-----------------------------------------------------------------------------
(* Properties.                                                             *)

(* current_task is 0 until initialise_tasking and a task of the ready      *)
(* queue from then on, which switch_task relies on when it dereferences it.*)
TaskTypeOK ==
  /\ current \in (IF queue = <<>> THEN {0} ELSE Tasks)
  /\ queue \in Seq(Pids) /\ next_pid \in 1 .. MaxPid + 1 /\ nstacks \in 0 .. MaxPid + 1
  /\ ks \in [Pids -> 0 .. MaxPid + 1] /\ tss \in 0 .. MaxPid + 1
  /\ eip \in [Pids -> {"none", "switch", "fork"}]
  /\ pc \in [Pids -> {"kernel", "forking", "child", "user"}]
  /\ intr \in BOOLEAN

(* switch_task never jumps to a task whose eip is still 0: the child fork  *)
(* links into the ready queue gets its eip before interrupts are back on.  *)
SwitchResumesSaved ==
  [][current # 0 /\ current' \in Pids /\ current' # current => eip[current'] # "none"]_vars

(* Round robin: as long as every task runs in the kernel, each task of the *)
(* ready queue is eventually current again.                                *)
KernelRoundRobin ==
  \A t \in Pids :
     (t \in Tasks /\ \A u \in Pids : pc[u] # "user")
        ~> (current = t \/ \E u \in Pids : pc[u] = "user")

(* After initialise_tasking the kernel runs on the stack move_stack made  *)
(* as if it had never moved: every word of the boot stack is at the same  *)
(* distance below new_stack_start, a pointer into the boot stack (a saved *)
(* ebp, the address of a local) moved by the offset and every other word  *)
(* unchanged, and esp and ebp moved with them.                             *)
StackRelocated ==
  current # 0 =>
    /\ regs = [esp |-> boot.sp + Offset, ebp |-> boot.ebp + Offset]
    /\ \A a \in boot.sp .. InitialEsp - 1 :
         LET w == BootWord(boot, a) IN
         /\ a + Offset \in DOMAIN stk
         /\ stk[a + Offset] = IF w.ptr THEN w.v + Offset ELSE w.v

(* Every task of the ready queue eventually runs, user-mode tasks included. *)
RoundRobin == \A t \in Pids : t \in Tasks ~> current = t

(* A task running in user mode traps onto its own kernel stack: the TSS    *)
(* holds a stack kmalloc_a gave it and no other task.                      *)
UserTrapStackOwned ==
  \A t \in Pids :
     pc[t] = "user" /\ current = t =>
        /\ tss = ks[t] /\ ks[t] # 0
        /\ \A u \in Tasks \ {t} : ks[u] # ks[t]

=============================================================================
