----------------------------- MODULE Scheduler -----------------------------
(***************************************************************************)
(* The cooperative scheduler of task.cpp.  maintask() runs one task after  *)
(* the other; a task runs until it calls wdelay(), waitfor(), fork() or    *)
(* suicide(), which enter it in waitstack[] (place 1 is the newest entry)  *)
(* and jump back to maintask().  Requests for a new task and for a kill    *)
(* are left in the static variables newtask and nextkill.                  *)
(*                                                                         *)
(* The mailbox is up: task 0 and the cron task, which enforces the         *)
(* sessions' time limits (test_killtime), exist.  Time is the set of       *)
(* delays that have run out and of limits that are exceeded.               *)
(*                                                                         *)
(* Definitions marked "faulty" are never used here: each is a plausible    *)
(* mistake, put in place of the definition after it to show what the       *)
(* properties detect.                                                      *)
(***************************************************************************)
EXTENDS Integers, Sequences, SequencesExt

CONSTANTS
    TASKS,      \* size of tfeld[]
    NOTASK,
    Crond       \* the task of crontab.cpp

TaskIds == 0 .. TASKS - 1

\* Task 0 (desktop) stands for the service tasks that start the sessions.  It
\* ends at shutdown only and KILL does not accept the number 0, so 0 can mean
\* "nobody" in nextkill.
Sessions == TaskIds \ {0, Crond}

ASSUME SchedulerAssumption ==
    /\ TASKS \in Nat \ {0, 1}
    /\ Crond \in TaskIds \ {0}
    /\ NOTASK \notin TaskIds

VARIABLES
    tfeld,      \* the ids with a task control block
    waitstack,  \* the waiting tasks; the first entered last
    event,      \* id -> what the task waits for: t->event
    ready,      \* ids whose delay has run out
    taskrunning,
    newtask,    \* the task whose fork() is pending, or NOTASK
    nextkill,   \* the task to be killed, 0 for none
    phase,      \* maintask: "pick" a task, "run" it, "kill" what is requested
    expired,    \* sessions whose time limit (kill_time) is exceeded
    scan,       \* the loop variable of test_killtime
    warned      \* test_killtime has announced the end of session scan

vars == <<tfeld, waitstack, event, ready, taskrunning, newtask, nextkill, phase, expired, scan, warned>>

Init ==
    /\ tfeld = {0, Crond}
    /\ waitstack = <<Crond, 0>>
    /\ event = [x \in TaskIds |-> IF x \in {0, Crond} THEN "delay" ELSE "nothing"]
    /\ ready = {}
    /\ taskrunning = NOTASK
    /\ newtask = NOTASK
    /\ nextkill = 0
    /\ phase = "pick"
    /\ expired = {}
    /\ scan = 0 /\ warned = FALSE

Waiting == Range(waitstack)
Running(x) == phase = "run" /\ taskrunning = x

-----------------------------------------------------------------------------
(* What the running task does.                                             *)

\* wdelay, and waitfor when it does not return at once: x goes to the front
\* of waitstack and global_process() jumps to maintask.
Suspend(x, ev) ==
    /\ waitstack' = <<x>> \o waitstack
    /\ event' = [event EXCEPT ![x] = ev]
    /\ ready' = ready \ {x}
    /\ taskrunning' = NOTASK
    /\ phase' = "kill"

\* input of its user sets a session's time limit anew: timeout()
Wait(x, ev) ==
    /\ Running(x) /\ x # Crond
    /\ Suspend(x, ev)
    /\ expired' \in {expired, expired \ {x}}
    /\ UNCHANGED <<tfeld, newtask, nextkill, scan, warned>>

\* fork: leave the request, and wait with e_reschedule
Fork(x) ==
    /\ Running(x) /\ x # Crond
    /\ newtask' = x
    /\ Suspend(x, "ticsfull")
    /\ UNCHANGED <<tfeld, nextkill, expired, scan, warned>>

\* suicide: with nextkill free, the running task asks for its own kill
Suicide(x) ==
    /\ Running(x) /\ x \in Sessions
    /\ nextkill = 0
    /\ nextkill' = x
    /\ Suspend(x, "delay")
    /\ UNCHANGED <<tfeld, newtask, expired, scan, warned>>

\* faulty: the block is freed and the queue keeps the task
DeallocOnly(y) ==
    /\ UNCHANGED waitstack
    /\ tfeld' = tfeld \ {y}
    /\ event' = [event EXCEPT ![y] = "nothing"]
    /\ ready' = ready \ {y}
    /\ expired' = expired \ {y}

\* killtask finds y in waitstack, searching from the oldest entry, takes that
\* entry out, and dealloctask frees the block
Dealloc(y) ==
    /\ \E i \in DOMAIN waitstack :
        /\ waitstack[i] = y /\ \A j \in DOMAIN waitstack : j > i => waitstack[j] # y
        /\ waitstack' = RemoveAt(waitstack, i)
    /\ tfeld' = tfeld \ {y}
    /\ event' = [event EXCEPT ![y] = "nothing"]
    /\ ready' = ready \ {y}
    /\ expired' = expired \ {y}

\* faulty: a task that is not in waitstack, as the caller, is freed all the same
KillTaskAny(x, y) ==
    /\ Running(x) /\ x # Crond /\ event[x] # "nothing"
    /\ y \in tfeld \cap Sessions
    /\ IF y \in Waiting THEN Dealloc(y) ELSE DeallocOnly(y)
    /\ UNCHANGED <<taskrunning, newtask, nextkill, phase, scan, warned>>

\* The sysop's KILL, or a disconnect found by the login task (killport).
\* The command was read at a prompt, so the caller has waited before.
KillTask(x, y) ==
    /\ Running(x) /\ x # Crond /\ event[x] # "nothing"
    /\ y \in Waiting \cap Sessions
    /\ Dealloc(y)
    /\ UNCHANGED <<taskrunning, newtask, nextkill, phase, scan, warned>>

-----------------------------------------------------------------------------
(* The cron task: test_killtime.                                           *)

\* Waiting for time slices is no idling: those sessions are left out.
\* Of the rest, sessions from place i on whose limit is exceeded.
Overdue(i) == {y \in expired : y >= i /\ event[y] # "ticsfull"}

\* The next session is told that its time is over, and wdelay(2409) gives
\* it the time to see it; without one the cron task sleeps (wdelay(2514)).
Announce(i) ==
    IF Overdue(i) = {} THEN scan' = 0 /\ warned' = FALSE
    ELSE /\ scan' \in Overdue(i) /\ \A y \in Overdue(i) : scan' <= y
         /\ warned' = TRUE

TestKilltime ==
    /\ Running(Crond) /\ ~warned
    /\ Announce(scan)
    /\ Suspend(Crond, "delay")
    /\ UNCHANGED <<tfeld, newtask, nextkill, expired>>

\* faulty: the loop of test_killtime starts again behind nobody
KillOverdueStays ==
    /\ Running(Crond) /\ warned
    /\ UNCHANGED <<waitstack, tfeld, event, ready, expired>>
    /\ warned' = FALSE /\ scan' = scan + 1
    /\ UNCHANGED <<taskrunning, newtask, nextkill, phase>>

\* wdelay(2409) is over: killtask(i) for whatever task now has the id
KillOverdue ==
    /\ Running(Crond) /\ warned
    /\ IF scan \in Waiting
       THEN /\ Dealloc(scan)
       ELSE UNCHANGED <<waitstack, tfeld, event, ready, expired>>
    /\ warned' = FALSE /\ scan' = scan + 1
    /\ UNCHANGED <<taskrunning, newtask, nextkill, phase>>

-----------------------------------------------------------------------------
(* maintask.                                                               *)

\* faulty: the search for a free block looks one block too far
StartNewTooFar ==
    /\ phase = "pick" /\ newtask # NOTASK
    /\ \E i \in 0 .. TASKS :
        /\ i \notin tfeld /\ \A j \in TaskIds : j < i => j \in tfeld
        /\ tfeld' = tfeld \cup {i}
        /\ taskrunning' = i
    /\ newtask' = NOTASK
    /\ phase' = "run"
    /\ UNCHANGED <<waitstack, event, ready, nextkill, expired, scan, warned>>

\* a free block is found: the new task starts running
StartNew ==
    /\ phase = "pick" /\ newtask # NOTASK
    /\ \E i \in TaskIds :
        /\ i \notin tfeld /\ \A j \in TaskIds : j < i => j \in tfeld
        /\ tfeld' = tfeld \cup {i}
        /\ taskrunning' = i
    /\ newtask' = NOTASK
    /\ phase' = "run"
    /\ UNCHANGED <<waitstack, event, ready, nextkill, expired, scan, warned>>

Full == newtask # NOTASK /\ tfeld = TaskIds

\* "tasks full": the request stays
TasksFull ==
    /\ phase = "pick" /\ Full
    /\ phase' = "kill"
    /\ UNCHANGED <<tfeld, waitstack, event, ready, taskrunning, newtask, nextkill,
                   expired, scan, warned>>

Ready(x) == event[x] = "ticsfull" \/ x \in ready

\* faulty: the search starts at the newest entry
ResumeNewest ==
    /\ phase = "pick" /\ newtask = NOTASK
    /\ \E i \in DOMAIN waitstack :
        /\ Ready(waitstack[i])
        /\ \A j \in DOMAIN waitstack : j < i => ~Ready(waitstack[j])
        /\ taskrunning' = waitstack[i]
        /\ waitstack' = RemoveAt(waitstack, i)
        /\ ready' = ready \ {waitstack[i]}
    /\ phase' = "run"
    /\ UNCHANGED <<tfeld, event, newtask, nextkill, expired, scan, warned>>

\* no request: the ready task that has waited longest goes on
Resume ==
    /\ phase = "pick" /\ newtask = NOTASK
    /\ \E i \in DOMAIN waitstack :
        /\ Ready(waitstack[i])
        /\ \A j \in DOMAIN waitstack : j > i => ~Ready(waitstack[j])
        /\ taskrunning' = waitstack[i]
        /\ waitstack' = RemoveAt(waitstack, i)
        /\ ready' = ready \ {waitstack[i]}
    /\ phase' = "run"
    /\ UNCHANGED <<tfeld, event, newtask, nextkill, expired, scan, warned>>

\* faulty: nextkill is not reset
MaintaskKillAgain ==
    /\ phase = "kill"
    /\ IF nextkill # 0 /\ nextkill \in Waiting
       THEN Dealloc(nextkill)
       ELSE UNCHANGED <<waitstack, tfeld, event, ready, expired>>
    /\ phase' = "pick"
    /\ UNCHANGED <<taskrunning, newtask, nextkill, scan, warned>>

\* the task that ended is deallocated, then task_idle
MaintaskKill ==
    /\ phase = "kill"
    /\ IF nextkill # 0 /\ nextkill \in Waiting
       THEN Dealloc(nextkill)
       ELSE UNCHANGED <<waitstack, tfeld, event, ready, expired>>
    /\ nextkill' = 0
    /\ phase' = "pick"
    /\ UNCHANGED <<taskrunning, newtask, scan, warned>>

\* time passes: a delay runs out, a session's limit is exceeded
DelayEnds(x) ==
    /\ x \in Waiting \ ready /\ event[x] = "delay"
    /\ ready' = ready \cup {x}
    /\ UNCHANGED <<tfeld, waitstack, event, taskrunning, newtask, nextkill, phase, expired, scan, warned>>

LimitExceeded(x) ==
    /\ x \in (Waiting \cap Sessions) \ expired
    /\ expired' = expired \cup {x}
    /\ UNCHANGED <<tfeld, waitstack, event, ready, taskrunning, newtask, nextkill, phase,
                   scan, warned>>

-----------------------------------------------------------------------------

\* every way a running task leaves the processor
Yield ==
    \/ \E x \in TaskIds, ev \in {"delay", "ticsfull"} : Wait(x, ev)
    \/ \E x \in TaskIds : Fork(x)
    \/ \E x \in TaskIds : Suicide(x)
    \/ TestKilltime

Next ==
    \/ Yield
    \/ \E x, y \in TaskIds : KillTask(x, y)
    \/ KillOverdue
    \/ StartNew
    \/ TasksFull
    \/ Resume
    \/ MaintaskKill
    \/ \E x \in TaskIds : DelayEnds(x)
    \/ \E x \in TaskIds : LimitExceeded(x)

Spec == Init /\ [][Next]_vars

\* maintask loops for ever, every task gives up the processor, every delay
\* runs out.
Fairness ==
    /\ WF_vars(Resume) /\ WF_vars(StartNew) /\ WF_vars(MaintaskKill)
    /\ WF_vars(Yield) /\ WF_vars(KillOverdue)
    /\ \A x \in TaskIds : WF_vars(DelayEnds(x))

FairSpec == Spec /\ Fairness

-----------------------------------------------------------------------------
(* Properties.                                                             *)

TypeOK ==
    /\ tfeld \subseteq TaskIds
    /\ waitstack \in Seq(TaskIds)
    /\ event \in [TaskIds -> {"nothing", "delay", "ticsfull"}]
    /\ ready \subseteq TaskIds
    /\ taskrunning \in TaskIds \cup {NOTASK}
    /\ newtask \in TaskIds \cup {NOTASK}
    /\ nextkill \in TaskIds
    /\ phase \in {"pick", "run", "kill"}
    /\ expired \subseteq TaskIds
    /\ scan \in 0 .. TASKS /\ warned \in BOOLEAN

(* Every task that exists is in exactly one place: once in waitstack, or   *)
(* running.  So waitstack[] holds no freed block and never overflows, and  *)
(* nobody is lost.                                                         *)
EveryTaskPlaced ==
    /\ IsInjective(waitstack) /\ Waiting \subseteq tfeld
    /\ \A x \in TaskIds : Running(x) => x \in tfeld \ Waiting
    /\ \A x \in tfeld : x \in Waiting \/ Running(x)

(* The static request variables never collide: while a task runs there is  *)
(* no older request it could overwrite (fork) or would have to wait for    *)
(* (suicide), and the task a new id is reported to (newtasknum points into *)
(* its stack) still exists.                                                *)
RequestsDoNotCollide ==
    /\ phase = "run" => newtask = NOTASK /\ nextkill = 0
    /\ newtask # NOTASK => newtask \in Waiting
    /\ nextkill # 0 => phase = "kill" /\ nextkill \in Waiting

(* No kill, of whomever, frees the task that is running.                   *)
RunningIsNotFreed == [][\A x \in TaskIds : Running(x) => x \in tfeld']_vars

(* While there are free task blocks, a task whose event has come goes on:  *)
(* it is passed over at most once by each other task.                      *)
WaiterGoesOn ==
    [](~Full) => \A x \in TaskIds : (x \in Waiting /\ Ready(x)) ~> x \notin Waiting

(* While there are free task blocks, a session over its time limit that    *)
(* idles is ended, or it does something again.                             *)
OverdueIsServed ==
    [](~Full) => \A x \in TaskIds :
        (x \in expired /\ event[x] = "delay") ~> (x \notin expired \/ event[x] = "ticsfull")

=============================================================================
