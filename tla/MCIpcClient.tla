----------------------------- MODULE MCIpcClient -----------------------------
(* Small instances of IpcClient for TLC *)
EXTENDS IpcClient, TLC

Symmetry == Permutations(Sessions)

=============================================================================
