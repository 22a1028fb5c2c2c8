------------------------------ MODULE MCSandbox ------------------------------
(***************************************************************************)
(* Instance of Sandbox: a process with two threads and one with one, a     *)
(* sandbox with a tool and one to run programs in.                         *)
(***************************************************************************)
EXTENDS Sandbox

MCThreads == {"t1", "t2", "t3"}
MCProcessOf == [t \in MCThreads |-> IF t = "t3" THEN "q" ELSE "p"]

\* A SandboxExecutor, and __enter__ of a CompoundSandboxExecutor.
EnterOrders == {<<"tool">>, <<"tool", "chroot">>}

\* __enter__ and __init__ of a CompoundSandboxExecutor.
CompoundOrders == {<<"tool", "chroot">>, <<"chroot", "tool">>}
=============================================================================
