----------------------------- MODULE MCFileSema -----------------------------
(* Instances of FileSema for TLC.                                          *)
EXTENDS FileSema, TLC

AppendModes == {"s_append"}
WaitModes == {"s_read", "s_append"}

Interchangeable ==
    Permutations(Tasks) \cup Permutations(Files) \cup Permutations(Handles)
        \cup Permutations(LockNames)
=============================================================================
