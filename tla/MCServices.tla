----------------------------- MODULE MCServices -----------------------------
(***************************************************************************)
(* Components that share no state with each other, in one run: in each     *)
(* behaviour one of them, the part, moves and the others stay as they are. *)
(***************************************************************************)
EXTENDS Didadit, Huffman, UserFile, WpRouting, MailServ, TaskMemory

CONSTANT Parts
VARIABLE part

\* WpRouting: three boxes that all know each other; two forward to the fourth.
Triangle == {"x", "y", "z"}
Near == {"x", "y"}
Mesh == [n \in Triangle |-> Triangle \ {n}]
Qualities == {1, 3}

\* MailServ: no list, or a group of another name before the one of the commands
Lists == {<<>>, <<Group("h", {"a"}), [Group("g", {"a"}) EXCEPT !.users = {"s"}]>>}

Init ==
    /\ part \in Parts
    /\ DidaditInit /\ HuffmanInit /\ UserInit /\ WpInit
    /\ part # "huffman" => text = <<0>>
    /\ MemInit
    /\ ListInit /\ (part # "lists" => filed /\ groups = <<>>)

Next ==
    /\ UNCHANGED part
    /\ \/ part = "didadit" /\ DidaditNext /\ UNCHANGED <<hvars, uvars, wvars, listVars, memVars>>
       \/ part = "huffman" /\ HuffmanNext /\ UNCHANGED <<dvars, uvars, wvars, listVars, memVars>>
       \/ part = "users" /\ UserNext /\ UNCHANGED <<dvars, hvars, wvars, listVars, memVars>>
       \/ part = "routing" /\ WpNext /\ UNCHANGED <<dvars, hvars, uvars, listVars, memVars>>
       \/ part = "lists" /\ ListNext /\ UNCHANGED <<dvars, hvars, uvars, wvars, memVars>>
       \/ part = "memory" /\ MemNext /\ UNCHANGED <<dvars, hvars, uvars, wvars, listVars>>
Spec == Init /\ [][Next]_<<part, dvars, hvars, uvars, wvars, listVars, memVars>>
=============================================================================
