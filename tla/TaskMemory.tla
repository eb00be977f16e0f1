----------------------------- MODULE TaskMemory -----------------------------
(***************************************************************************)
(* Memory that belongs to tasks (memalloc.cpp), and the two things one     *)
(* task puts into another: the lines of talk that wait for it (b->conv;    *)
(* mbtalk and convin in task.cpp, conversout in convers.cpp) and the       *)
(* buffer in which another task watches it (t->monitor; monitor in         *)
(* task.cpp).  A block belongs to a task and is released with it.          *)
(*                                                                         *)
(* All tasks are sessions (P_MAIL).  A step is what a task does between    *)
(* two waits.  The control blocks themselves, blocks for good ("*...") and *)
(* what is in a line or a buffer are left out.                             *)
(*                                                                         *)
(* Definitions marked "faulty" are never used here: each is a plausible    *)
(* mistake, put in place of the definition after it to show what the       *)
(* properties detect.                                                      *)
(***************************************************************************)
EXTENDS Naturals, Sequences, FiniteSets, SequencesExt

CONSTANTS
    Numbers,   \* places of tfeld[]
    MaxBlks,   \* MAXBLKS, places of alloctab[]
    MaxPending \* 20 in convin: so many lines are too many

ASSUME MemoryAssumption == MaxBlks \in Nat /\ MaxPending \in Nat \ {0}

VARIABLES
    alive,   \* the tasks there are
    block,   \* alloctab[], alloctask[]: place -> owner and use
    conv,    \* b->conv: task -> places of the lines that wait for it
    watched, \* t->monitor: task -> place of the buffer it fills, or 0
    doing,   \* task -> what it does
    copied,  \* history: a task was copied with lines or a buffer
    missed   \* history: tasks that go on filling a buffer that was released

memVars == <<alive, block, conv, watched, doing, copied, missed>>

Blks == 1 .. MaxBlks
Unused == [owner |-> "none", use |-> "none"]
Nothing == [at |-> "idle", place |-> 0, task |-> "none", conv |-> <<>>]

MemInit ==
    /\ alive = {} /\ block = [p \in Blks |-> Unused]
    /\ conv = [t \in Numbers |-> <<>>] /\ watched = [t \in Numbers |-> 0]
    /\ doing = [t \in Numbers |-> Nothing] /\ copied = FALSE /\ missed = {}

-----------------------------------------------------------------------------
(* t_malloc, t_settaskid, t_free                                           *)

\* Without a free place the program ends.
FreePlaces == {p \in Blks : block[p] = Unused}
NextPlace == CHOOSE p \in FreePlaces : \A q \in FreePlaces : p <= q

Allocated(t, use) == [block EXCEPT ![NextPlace] = [owner |-> t, use |-> use]]
Released(places) == [p \in Blks |-> IF p \in places THEN Unused ELSE block[p]]
Owned(t) == {p \in Blks : block[p].owner = t}

Does(t, d) == doing' = [doing EXCEPT ![t] = d]

-----------------------------------------------------------------------------
(* inittcb: a new task, or with P_CLON a copy of the task that forks       *)

NewTask(t) ==
    /\ t \notin alive /\ alive' = alive \cup {t}
    /\ UNCHANGED <<block, conv, watched, doing, copied, missed>>

\* The copy has the pointers of its parent; what two tasks then do with the
\* same lines is not followed (see LinesAndBuffers).
CopiedTask(t, parent) ==
    /\ t \notin alive /\ parent \in alive /\ alive' = alive \cup {t}
    /\ conv' = [conv EXCEPT ![t] = conv[parent]]
    /\ watched' = [watched EXCEPT ![t] = watched[parent]]
    /\ copied' = (conv[parent] # <<>> \/ watched[parent] # 0)
    /\ UNCHANGED <<block, doing, missed>>

-----------------------------------------------------------------------------
(* Talk                                                                    *)

\* faulty: the line belongs to who sends it.
ConvinNotHanded(s, t) ==
    /\ {s, t} \subseteq alive /\ s # t /\ doing[s].at \in {"idle", "replying"}
    /\ FreePlaces # {}
    /\ IF conv[t] # <<>> /\ Len(conv[t]) + 1 >= MaxPending
       THEN UNCHANGED <<block, conv>>
       ELSE block' = Allocated(s, "line") /\ conv' = [conv EXCEPT ![t] = Append(@, NextPlace)]
    /\ UNCHANGED <<alive, watched, doing, copied, missed>>

\* convin, for a task that mbtalk finds: all but the running one.  (To ALL,
\* it is called for each of them.)
Convin(s, t) ==
    /\ {s, t} \subseteq alive /\ s # t /\ doing[s].at \in {"idle", "replying"}
    /\ FreePlaces # {}
    /\ IF conv[t] # <<>> /\ Len(conv[t]) + 1 >= MaxPending
       THEN UNCHANGED <<block, conv>>
       ELSE block' = Allocated(t, "line") /\ conv' = [conv EXCEPT ![t] = Append(@, NextPlace)]
    /\ UNCHANGED <<alive, watched, doing, copied, missed>>

\* conversout: a line is taken, put out with waits, and released.
TakeTalk(t) ==
    /\ t \in alive /\ doing[t].at = "idle" /\ conv[t] # <<>>
    /\ Does(t, [Nothing EXCEPT !.at = "printing", !.place = Head(conv[t])])
    /\ conv' = [conv EXCEPT ![t] = Tail(@)]
    /\ UNCHANGED <<alive, block, watched, copied, missed>>

TalkPrinted(t) ==
    /\ t \in alive /\ doing[t].at = "printing" /\ Does(t, Nothing)
    /\ block' = Released({doing[t].place})
    /\ UNCHANGED <<alive, conv, watched, copied, missed>>

-----------------------------------------------------------------------------
(* mbreply and mbtransfer keep a copy of the whole session over mbsend     *)

Mbreply(t) ==
    /\ t \in alive /\ doing[t].at = "idle" /\ FreePlaces # {}
    /\ block' = Allocated(t, "session")
    /\ Does(t, [Nothing EXCEPT !.at = "replying", !.place = NextPlace, !.conv = conv[t]])
    /\ UNCHANGED <<alive, conv, watched, copied, missed>>

\* faulty: the lines are those of the copy, too.
MbreplyEndsAll(t) ==
    /\ t \in alive /\ doing[t].at = "replying" /\ Does(t, Nothing)
    /\ block' = Released({doing[t].place}) /\ conv' = [conv EXCEPT ![t] = doing[t].conv]
    /\ UNCHANGED <<alive, watched, copied, missed>>

\* All is as it was before, but not the lines.
MbreplyEnds(t) ==
    /\ t \in alive /\ doing[t].at = "replying" /\ Does(t, Nothing)
    /\ block' = Released({doing[t].place})
    /\ UNCHANGED <<alive, conv, watched, copied, missed>>

-----------------------------------------------------------------------------
(* monitor                                                                 *)

Monitor(w, x) ==
    /\ {w, x} \subseteq alive /\ w # x /\ doing[w].at = "idle" /\ watched[x] = 0
    /\ FreePlaces # {}
    /\ block' = Allocated(w, "buffer") /\ watched' = [watched EXCEPT ![x] = NextPlace]
    /\ Does(w, [Nothing EXCEPT !.at = "watching", !.place = NextPlace, !.task = x])
    /\ UNCHANGED <<alive, conv, copied, missed>>

\* A key is pressed, the buffer is full, or the task is gone; whoever has its
\* number by then stops to fill a buffer.
MonitorEnds(w) ==
    LET x == doing[w].task IN
    /\ w \in alive /\ doing[w].at = "watching" /\ Does(w, Nothing)
    /\ block' = Released({doing[w].place})
    /\ IF x \in alive THEN watched' = [watched EXCEPT ![x] = 0] /\ missed' = missed \ {x}
       ELSE UNCHANGED <<watched, missed>>
    /\ UNCHANGED <<alive, conv, copied>>

-----------------------------------------------------------------------------
\* dealloctask: t_allfree releases all blocks of the task.  Then the tasks it
\* watched are looked for by the number in their buffers, which have just
\* been released with it: the number may be there still, or not.
TaskEnds(t) ==
    LET fills == {x \in alive \ {t} : watched[x] \in Owned(t)} \cup (missed \ {t}) IN
    /\ t \in alive /\ alive' = alive \ {t}
    /\ block' = Released(Owned(t)) /\ Does(t, Nothing)
    /\ \E kept \in SUBSET fills :
        /\ missed' = kept
        /\ watched' = [x \in Numbers |-> IF x \in {t} \cup (fills \ kept) THEN 0 ELSE watched[x]]
    /\ conv' = [conv EXCEPT ![t] = <<>>] /\ UNCHANGED copied

MemNext ==
    /\ ~copied
    /\ \E t \in Numbers :
        \/ NewTask(t) \/ TakeTalk(t) \/ TalkPrinted(t) \/ Mbreply(t) \/ MbreplyEnds(t)
        \/ MonitorEnds(t) \/ TaskEnds(t)
        \/ \E x \in Numbers : CopiedTask(t, x) \/ Convin(t, x) \/ Monitor(t, x)

MemSpec == MemInit /\ [][MemNext]_memVars

-----------------------------------------------------------------------------
(* Whatever one task puts into another is there as long as it is used, and *)
(* no longer.  A line that was accepted waits for its task once or is      *)
(* being put out by it, until it has been put out or the task has ended,   *)
(* whoever sent it and whatever became of him; and a buffer that a task    *)
(* fills belongs to a task that is there and watches it.  Two cases are    *)
(* left out, in which the program does worse: a task copied with lines or  *)
(* a buffer, and buffers that dealloctask does not find.                   *)
LinesAndBuffers ==
    ~copied =>
    /\ \A p \in Blks :
        LET o == block[p].owner IN
        /\ block[p] # Unused => o \in alive
        /\ block[p].use = "line" =>
            Cardinality({i \in DOMAIN conv[o] : conv[o][i] = p})
                + (IF doing[o].at = "printing" /\ doing[o].place = p THEN 1 ELSE 0) = 1
    /\ \A t \in alive :
        /\ \A i \in DOMAIN conv[t] : block[conv[t][i]] = [owner |-> t, use |-> "line"]
        /\ watched[t] # 0 /\ t \notin missed =>
            LET w == block[watched[t]].owner IN
            w \in alive /\ doing[w].at = "watching" /\ doing[w].place = watched[t]
                /\ doing[w].task = t
=============================================================================
