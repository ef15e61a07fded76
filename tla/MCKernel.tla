------------------------------ MODULE MCKernel ------------------------------
(***************************************************************************)
(* What the user programs of the Kernel runs may do.                       *)
(***************************************************************************)
EXTENDS Kernel

LifecycleCalls == {"fork", "exit", "wait", "waitpid", "kill", "other"}
PipeCalls      == {"fork", "exit", "pipe", "read", "write", "close", "other"}
KillPipeCalls  == PipeCalls \cup {"kill"}
EofCalls       == {"fork", "pipe", "read", "close", "other"}
SignalCalls    == {"fork", "exit", "kill", "waitpid", "other"}

NoFaults == {}
VmExits  == {VM_EXIT_PAGE_FAULT}

(***************************************************************************)
(* An exit code wider than the byte the kernel keeps, and one with the bit *)
(* that marks the kernel's own codes.                                      *)
(***************************************************************************)
TwoCodes == {258, VM_BIT + 3}
=============================================================================
