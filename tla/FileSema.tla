------------------------------ MODULE FileSema ------------------------------
(***************************************************************************)
(* The file semaphores of sema.cpp.  Every file the mailbox opens is       *)
(* entered in a slot of the table sema[], which counts the running         *)
(* accesses per mode; a table indexed by the operating system's file       *)
(* handle remembers slot, mode and owner.  A conflicting short access is   *)
(* polled in wdelay() until it is over, a conflicting long access is       *)
(* refused at once.  Named locks (sema_lock) live beside the files.        *)
(*                                                                         *)
(* Tasks are scheduled cooperatively, so the whole of s_fopen or s_fclose  *)
(* is one step, except that sema_set gives up the processor while it       *)
(* polls: the slot it has found is then older than the table.              *)
(*                                                                         *)
(* Definitions marked "faulty" are never used here: each is a plausible    *)
(* mistake, put in place of the definition after it to show what the       *)
(* properties detect.                                                      *)
(***************************************************************************)
EXTENDS Integers, FiniteSets, FiniteSetsExt

CONSTANTS
    Tasks,      \* task ids of task.cpp
    NOTASK,     \* code running outside every task (kill, scheduler)
    Files, NoFile,
    Handles,    \* file handles of the operating system (_NFILE_)
    SEMA_MAX,   \* slots of sema[]
    LockNames, NoLock,
    LOCK_MAX,   \* entries of lock_sema[]
    OpenModes,  \* the modes the callers use
    Options     \* the options the callers set: 1 disconnect, 2 close

Slots == 0 .. SEMA_MAX - 1
LockSlots == 0 .. LOCK_MAX - 1
NoSema == -1
Actors == Tasks \cup {NOTASK}

Modes == {"s_read", "s_longread", "s_append", "s_longappend",
          "s_write", "s_longwrite"}
ShortModifiers == {"s_append", "s_write"}
Modifiers == ShortModifiers \cup {"s_longappend", "s_longwrite"}

ASSUME SemaAssumption ==
    /\ SEMA_MAX \in Nat \ {0} /\ LOCK_MAX \in Nat
    /\ IsFiniteSet(Handles) /\ IsFiniteSet(Tasks)
    /\ NOTASK \notin Tasks /\ NoFile \notin Files /\ NoLock \notin LockNames
    /\ OpenModes \subseteq Modes /\ Options \subseteq {1, 2}

VARIABLES
    sema,       \* slot -> file name, accesses per mode, delete option
    handle,     \* file handle -> slot, mode, owner and the file it is open on
    lock_sema,  \* lock entry -> name and owner
    disk,       \* the files that exist
    pc,         \* task -> "none", "run", or "wait" inside sema_set
    req,        \* task -> what it waits for in sema_set
    semalock    \* b->semalock: the task's last open met a locked file

vars == <<sema, handle, lock_sema, disk, pc, req, semalock>>

EmptySlot == [file |-> NoFile, mode |-> [m \in Modes |-> 0], option |-> 0]
Closed == [slot |-> NoSema, mode |-> "none", tid |-> NOTASK, file |-> NoFile]
NoReq == [slot |-> NoSema, mode |-> "none", file |-> NoFile]
FreeLock == [name |-> NoLock, tid |-> NOTASK]

Init ==
    /\ sema = [s \in Slots |-> EmptySlot]
    /\ handle = [h \in Handles |-> Closed]
    /\ lock_sema = [i \in LockSlots |-> FreeLock]
    /\ disk \in SUBSET Files
    /\ pc = [t \in Tasks |-> "none"]
    /\ req = [t \in Tasks |-> NoReq]
    /\ semalock = [t \in Tasks |-> FALSE]

-----------------------------------------------------------------------------
(* The table of slots.                                                     *)

Named(f) == {s \in Slots : sema[s].file = f}

\* sema_find, and sema_new when the file has no slot yet: the first that fits
SlotFor(f) ==
    IF Named(f) # {} THEN Min(Named(f))
    ELSE IF Named(NoFile) # {} THEN Min(Named(NoFile)) ELSE NoSema

\* the entry checks of sema_set, made once
Refused(s, m) ==
    \/ sema[s].mode["s_longwrite"] > 0
    \/ m \in Modifiers /\ sema[s].mode["s_longappend"] > 0

\* faulty: a long read is waited for
BusyWithReader(s) ==
    \E m \in ShortModifiers \cup {"s_read"} : sema[s].mode[m] > 0

\* the condition sema_set polls
Busy(s) == \E m \in ShortModifiers : sema[s].mode[m] > 0

\* sema_set grants access: count it, and name a slot that has no name
SemaSet(s, f, m) ==
    [sema EXCEPT ![s].file = IF @ = NoFile THEN f ELSE @,
                 ![s].mode[m] = @ + 1]

\* accesses left in slot s when the handles H are closed
Left(s, m, H) ==
    sema[s].mode[m] - Cardinality({h \in H : handle[h].slot = s /\ handle[h].mode = m})

\* faulty: the slot is wiped as soon as one mode is no longer counted
SemaClrHasty(H) ==
    [s \in Slots |->
        IF \E m \in Modes : Left(s, m, H) = 0 /\ sema[s].mode[m] > 0 THEN EmptySlot
        ELSE [sema[s] EXCEPT !.mode = [m \in Modes |-> Left(s, m, H)]]]

\* faulty: the slot keeps its name
SemaClrKeepsName(H) ==
    [s \in Slots |-> [sema[s] EXCEPT !.mode = [m \in Modes |-> Left(s, m, H)]]]

\* sema_clr for the handles H: an unused slot is wiped
SemaClr(H) ==
    [s \in Slots |->
        IF \A m \in Modes : Left(s, m, H) = 0 THEN EmptySlot
        ELSE [sema[s] EXCEPT !.mode = [m \in Modes |-> Left(s, m, H)]]]

OpenOf(a) == {h \in Handles : handle[h].slot # NoSema /\ handle[h].tid = a}

\* Code outside the tasks cannot be suspended: it closes what it opened
\* before a task runs again.
Runs(a) == a # NOTASK => pc[a] = "run" /\ OpenOf(NOTASK) = {}

NoteSemalock(a, v) ==
    semalock' = IF a = NOTASK THEN semalock ELSE [semalock EXCEPT ![a] = v]

-----------------------------------------------------------------------------
(* Opening: s_fopen, s_open and s_set, which differ in the call that opens *)
(* the file.                                                               *)

\* The access is granted.  The file is then opened, or the open fails and
\* sema_clr takes the access back.
Grant(a, s, f, m) ==
    /\ \/ \E h \in {k \in Handles : handle[k].slot = NoSema} :
            /\ m \in {"s_read", "s_longread"} => f \in disk
            /\ sema' = SemaSet(s, f, m)
            /\ handle' = [handle EXCEPT ![h] =
                            [slot |-> s, mode |-> m, tid |-> a, file |-> f]]
            /\ disk' = disk \cup {f}
       \/ UNCHANGED <<sema, handle, disk>>
    /\ NoteSemalock(a, FALSE)

\* faulty: a reader does not wait for an append
OpenGrantedToReader(a, f, m) ==
    LET s == SlotFor(f) IN
    /\ Runs(a) /\ m \in OpenModes
    /\ s # NoSema /\ ~Refused(s, m) /\ (m = "s_read" \/ ~Busy(s))
    /\ Grant(a, s, f, m)
    /\ UNCHANGED <<lock_sema, pc, req>>

OpenGranted(a, f, m) ==
    LET s == SlotFor(f) IN
    /\ Runs(a) /\ m \in OpenModes
    /\ s # NoSema /\ ~Refused(s, m) /\ ~Busy(s)
    /\ Grant(a, s, f, m)
    /\ UNCHANGED <<lock_sema, pc, req>>

\* No slot, a conflicting long access, or a conflict nobody can wait for.
OpenRefused(a, f, m) ==
    LET s == SlotFor(f) IN
    /\ Runs(a) /\ m \in OpenModes
    /\ s # NoSema => Refused(s, m) \/ (a = NOTASK /\ Busy(s))
    /\ NoteSemalock(a, TRUE)
    /\ UNCHANGED <<sema, handle, lock_sema, disk, pc, req>>

\* sema_set enters wdelay with the slot it has found.
OpenWaits(t, f, m) ==
    LET s == SlotFor(f) IN
    /\ Runs(t) /\ m \in OpenModes
    /\ s # NoSema /\ ~Refused(s, m) /\ Busy(s)
    /\ pc' = [pc EXCEPT ![t] = "wait"]
    /\ req' = [req EXCEPT ![t] = [slot |-> s, mode |-> m, file |-> f]]
    /\ UNCHANGED <<sema, handle, lock_sema, disk, semalock>>

\* faulty: the wait is an "if" instead of a "while"
WaitEndsUnchecked(t) ==
    /\ pc[t] = "wait" /\ OpenOf(NOTASK) = {}
    /\ Grant(t, req[t].slot, req[t].file, req[t].mode)
    /\ pc' = [pc EXCEPT ![t] = "run"]
    /\ req' = [req EXCEPT ![t] = NoReq]
    /\ UNCHANGED lock_sema

\* wdelay returns, the slot is no longer busy and sema_set goes on.
WaitEnds(t) ==
    /\ pc[t] = "wait" /\ OpenOf(NOTASK) = {}
    /\ ~Busy(req[t].slot)
    /\ Grant(t, req[t].slot, req[t].file, req[t].mode)
    /\ pc' = [pc EXCEPT ![t] = "run"]
    /\ req' = [req EXCEPT ![t] = NoReq]
    /\ UNCHANGED lock_sema

-----------------------------------------------------------------------------
(* Closing.                                                                *)

\* The names s_fclose, s_close and close_task unlink: those of the slots.
Unlinked(H, opts) ==
    {sema[handle[h].slot].file : h \in {k \in H : sema[handle[k].slot].option \in opts}}

\* faulty: the handle's entry is only half reset
CloseHalfReset(h) ==
    /\ handle[h].slot # NoSema /\ Runs(handle[h].tid)
    /\ disk' = disk \ Unlinked({h}, {2})
    /\ sema' = SemaClr({h})
    /\ handle' = [handle EXCEPT ![h].slot = NoSema]
    /\ UNCHANGED <<lock_sema, pc, req, semalock>>

\* faulty: the option is looked up after sema_clr has wiped it
CloseForgetsOption(h) ==
    /\ handle[h].slot # NoSema /\ Runs(handle[h].tid)
    /\ sema' = SemaClr({h})
    /\ disk' = IF sema'[handle[h].slot].option = 2
               THEN disk \ {sema[handle[h].slot].file} ELSE disk
    /\ handle' = [handle EXCEPT ![h] = Closed]
    /\ UNCHANGED <<lock_sema, pc, req, semalock>>

\* s_fclose, s_close
Close(h) ==
    /\ handle[h].slot # NoSema /\ Runs(handle[h].tid)
    /\ disk' = disk \ Unlinked({h}, {2})
    /\ sema' = SemaClr({h})
    /\ handle' = [handle EXCEPT ![h] = Closed]
    /\ UNCHANGED <<lock_sema, pc, req, semalock>>

\* s_setopt, s_fsetopt: the option belongs to the slot and only grows
SetOpt(h, opt) ==
    LET s == handle[h].slot IN
    /\ s # NoSema /\ Runs(handle[h].tid)
    /\ sema' = [sema EXCEPT ![s].option = IF opt > @ THEN opt ELSE @]
    /\ UNCHANGED <<handle, lock_sema, disk, pc, req, semalock>>

\* faulty: only the own locks are searched
SemaLockOwn(t, n) ==
    /\ Runs(t)
    /\ \A i \in LockSlots : lock_sema[i] # [name |-> n, tid |-> t]
    /\ \E i \in LockSlots :
        /\ lock_sema[i].name = NoLock
        /\ \A j \in LockSlots : j < i => lock_sema[j].name # NoLock
        /\ lock_sema' = [lock_sema EXCEPT ![i] = [name |-> n, tid |-> t]]
    /\ UNCHANGED <<sema, handle, disk, pc, req, semalock>>

\* sema_lock: never waits, and refuses a name that is taken
SemaLock(t, n) ==
    /\ Runs(t)
    /\ \A i \in LockSlots : lock_sema[i].name # n
    /\ \E i \in LockSlots :
        /\ lock_sema[i].name = NoLock
        /\ \A j \in LockSlots : j < i => lock_sema[j].name # NoLock
        /\ lock_sema' = [lock_sema EXCEPT ![i] = [name |-> n, tid |-> t]]
    /\ UNCHANGED <<sema, handle, disk, pc, req, semalock>>

\* sema_unlock: only the owner's call has an effect
SemaUnlock(t, n) ==
    /\ Runs(t)
    /\ \E i \in LockSlots : lock_sema[i] = [name |-> n, tid |-> t]
    /\ lock_sema' = [i \in LockSlots |->
            IF lock_sema[i] = [name |-> n, tid |-> t] THEN FreeLock ELSE lock_sema[i]]
    /\ UNCHANGED <<sema, handle, disk, pc, req, semalock>>

\* faulty: close_task closes the files and forgets the locks
CloseTaskKeepsLocks(t) ==
    /\ pc[t] # "none" /\ OpenOf(NOTASK) = {}
    /\ disk' = disk \ Unlinked(OpenOf(t), {1, 2})
    /\ sema' = SemaClr(OpenOf(t))
    /\ handle' = [h \in Handles |-> IF h \in OpenOf(t) THEN Closed ELSE handle[h]]
    /\ pc' = [pc EXCEPT ![t] = "none"]
    /\ req' = [req EXCEPT ![t] = NoReq]
    /\ semalock' = [semalock EXCEPT ![t] = FALSE]
    /\ UNCHANGED lock_sema

\* close_task, called when task t is deallocated, wherever it was stopped
CloseTask(t) ==
    /\ pc[t] # "none" /\ OpenOf(NOTASK) = {}
    /\ disk' = disk \ Unlinked(OpenOf(t), {1, 2})
    /\ sema' = SemaClr(OpenOf(t))
    /\ handle' = [h \in Handles |-> IF h \in OpenOf(t) THEN Closed ELSE handle[h]]
    /\ lock_sema' = [i \in LockSlots |->
            IF lock_sema[i].tid = t THEN FreeLock ELSE lock_sema[i]]
    /\ pc' = [pc EXCEPT ![t] = "none"]
    /\ req' = [req EXCEPT ![t] = NoReq]
    /\ semalock' = [semalock EXCEPT ![t] = FALSE]

\* A new task gets the id of a finished one.
Start(t) ==
    /\ pc[t] = "none" /\ OpenOf(NOTASK) = {}
    /\ pc' = [pc EXCEPT ![t] = "run"]
    /\ UNCHANGED <<sema, handle, lock_sema, disk, req, semalock>>

-----------------------------------------------------------------------------

Open(a, f, m) == OpenGranted(a, f, m) \/ OpenRefused(a, f, m)

Next ==
    \/ \E a \in Actors, f \in Files, m \in Modes : Open(a, f, m)
    \/ \E t \in Tasks, f \in Files, m \in Modes : OpenWaits(t, f, m)
    \/ \E t \in Tasks : WaitEnds(t)
    \/ \E h \in Handles : Close(h)
    \/ \E h \in Handles, opt \in Options : SetOpt(h, opt)
    \/ \E t \in Tasks, n \in LockNames : SemaLock(t, n)
    \/ \E t \in Tasks, n \in LockNames : SemaUnlock(t, n)
    \/ \E t \in Tasks : CloseTask(t)
    \/ \E t \in Tasks : Start(t)

Spec == Init /\ [][Next]_vars

\* The scheduler resumes a polling task again and again; a short modifying
\* access ends "in foreseeable time" (sema.cpp, head), and code outside the
\* tasks runs to its end.  A long access, or a read, may last for ever.
Fairness ==
    /\ \A t \in Tasks : WF_vars(WaitEnds(t))
    /\ \A h \in Handles :
        WF_vars((handle[h].mode \in ShortModifiers \/ handle[h].tid = NOTASK) /\ Close(h))

FairSpec == Spec /\ Fairness

-----------------------------------------------------------------------------
(* Properties.                                                             *)

TypeOK ==
    /\ sema \in [Slots -> [file : Files \cup {NoFile}, mode : [Modes -> Nat],
                           option : 0 .. 2]]
    /\ handle \in [Handles ->
            {Closed} \cup [slot : Slots, mode : Modes, tid : Actors, file : Files]]
    /\ lock_sema \in [LockSlots -> {FreeLock} \cup [name : LockNames, tid : Tasks]]
    /\ disk \subseteq Files
    /\ pc \in [Tasks -> {"none", "run", "wait"}]
    /\ req \in [Tasks -> {NoReq} \cup [slot : Slots, mode : Modes, file : Files]]
    /\ semalock \in [Tasks -> BOOLEAN]

Holders(s, m) == {h \in Handles : handle[h].slot = s /\ handle[h].mode = m}

(* Every slot counts exactly the open handles that refer to it, whatever   *)
(* mixture of closes, kills, failed opens and stale slots came before:     *)
(* a count that is too high locks a file until the next start, one that is *)
(* too low admits a second writer.                                         *)
CountsMatch ==
    \A s \in Slots, m \in Modes : sema[s].mode[m] = Cardinality(Holders(s, m))

(* A slot has a name exactly while something is counted in it (sema_clr    *)
(* wipes it, sema_set names it), and an unused slot carries no delete      *)
(* option over to the next file.                                           *)
NamedIffUsed ==
    \A s \in Slots :
        (\A m \in Modes : sema[s].mode[m] = 0) <=> sema[s] = EmptySlot

(* A task is inside sema_set exactly while there is something it asked for. *)
WaitMatches == \A t \in Tasks : pc[t] = "wait" <=> req[t] # NoReq

(* In one slot at most one short modifying access (append or write) runs   *)
(* at a time, even though several tasks may have polled for it.            *)
ShortModifierExclusive ==
    \A h, k \in Handles :
        /\ handle[h].slot # NoSema /\ handle[k].slot = handle[h].slot
        /\ handle[h].mode \in ShortModifiers /\ handle[k].mode \in ShortModifiers
        => h = k

(* Nothing is admitted to a slot while a short append or write runs there. *)
AdmittedWhenQuiet ==
    [][\A h \in Handles :
          handle[h] = Closed /\ handle'[h] # Closed => ~Busy(handle'[h].slot)]_vars

(* When a task is gone, so are its file handles, its place in sema_set and *)
(* its locks: a new task with the same id starts with none of them.        *)
GoneHoldsNothing ==
    \A t \in Tasks : pc[t] = "none" =>
        /\ OpenOf(t) = {} /\ req[t] = NoReq
        /\ \A i \in LockSlots : lock_sema[i].tid # t

(* A named lock is in the table at most once and always has an owner that  *)
(* can give it back: sema_lock never grants it twice.                      *)
LockHasOneOwner ==
    \A i, j \in LockSlots :
        lock_sema[i].name # NoLock =>
            /\ lock_sema[i].name = lock_sema[j].name => i = j
            /\ lock_sema[i].tid \in Tasks /\ pc[lock_sema[i].tid] # "none"

(* A temporary file (option 2) does not outlive its last close, and a file *)
(* whose slot carries no option survives every close and every kill.       *)
DeletesMatchOptions ==
    [][/\ \A s \in Slots :
            sema[s].option = 2 /\ sema'[s] = EmptySlot => sema[s].file \notin disk'
       /\ \A f \in disk \ disk' : \E s \in Named(f) : sema[s].option > 0]_vars

(* A task polling in sema_set gets its turn, unless the others keep opening *)
(* files for ever or a polling task itself holds a short modifying access.  *)
HoldAndWait ==
    \E h \in Handles : /\ handle[h].tid \in Tasks /\ handle[h].mode \in ShortModifiers
                       /\ pc[handle[h].tid] = "wait"
Opens == \E h \in Handles : handle[h] = Closed /\ handle'[h] # Closed
WaiterServed ==
    [](~HoldAndWait) =>
        \/ []<><<Opens>>_vars
        \/ \A t \in Tasks : pc[t] = "wait" ~> pc[t] # "wait"

(* What the head of sema.cpp says of the files, and the code does not keep. *)

OpenOn(f, M) == {h \in Handles : handle[h].file = f /\ handle[h].mode \in M}

(* "Append-Zugriffe -> nur erlaubt, wenn sonst nur read-Zugriffe erfolgen": *)
(* a file never has two modifying accesses at a time.                       *)
OneModifierPerFile ==
    \A f \in Files : Cardinality(OpenOn(f, Modifiers)) <= 1
=============================================================================
