------------------------------ MODULE Threads ------------------------------
(* What the thread-level modules share: the absence of a thread or a task. *)
CONSTANT None
=============================================================================
