---------------------------- MODULE MCReqControl ----------------------------
(* Small instances of ReqControl for TLC *)
EXTENDS ReqControlInv, TLC

\* Requests without a time-out are sent in another way and do not take part
Symmetry == Permutations(Threads) \cup Permutations(Slots) \cup Permutations(Requests \ NoTimeout)

=============================================================================
