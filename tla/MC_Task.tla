------------------------------ MODULE MC_Task ------------------------------
(***************************************************************************)
(* Boot stacks for Task: the frames of move_stack, initialise_tasking and  *)
(* main above the esp move_stack reads, in words, with initial_esp 20.    *)
(* The one word that differs is a local of move_stack: an integer, or    *)
(* the address of main's first argument.                                  *)
(***************************************************************************)
EXTENDS Task

W(v, p) == [v |-> v, ptr |-> p]

BootStack(local) ==
  [sp |-> 10, ebp |-> 12,
   words |-> << W(31, FALSE),    \* 10: move_stack's i
                local,           \* 11: another local of move_stack
                W(14, TRUE),     \* 12: saved ebp: initialise_tasking's frame
                W(101, FALSE),   \* 13: return into initialise_tasking
                W(16, TRUE),     \* 14: saved ebp: main's frame
                W(102, FALSE),   \* 15: return into main
                W(0, FALSE),     \* 16: the ebp main was entered with
                W(103, FALSE),   \* 17: return into boot.s
                W(5, FALSE),     \* 18: mboot_ptr
                W(20, FALSE) >>] \* 19: initial_stack, the value of initial_esp

MCBootStacks == {BootStack(W(7, FALSE)), BootStack(W(18, TRUE))}

(* An integer local whose value happens to be an address of the boot stack. *)
MCBootStacksAliased == MCBootStacks \cup {BootStack(W(15, FALSE))}

=============================================================================
