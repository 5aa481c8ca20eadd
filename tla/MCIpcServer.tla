----------------------------- MODULE MCIpcServer -----------------------------
(* Small instances of IpcServer for TLC *)
EXTENDS IpcServer, TLC

Symmetry == Permutations(Conns) \cup Permutations(Threads)

=============================================================================
