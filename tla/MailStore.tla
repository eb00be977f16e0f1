----------------------------- MODULE MailStore -----------------------------
(***************************************************************************)
(* The mail store: a file per mail, a list file per board (a bulletin      *)
(* board or the mails of a user), the check list of all bulletins and the  *)
(* BID list.  Senders append to the lists (send.cpp, reorg.cpp), erased    *)
(* mails are marked (read.cpp) and deleted later by the purge (purge.cpp), *)
(* and the reorganisation builds the lists again from the files (reorg.cpp,*)
(* check.cpp, bids.cpp).  Purge and reorganisation keep the senders away   *)
(* with locks: one for each board, one ("sendlock") for the check list and *)
(* the BID list, and one ("purgereorg") against each other.                *)
(*                                                                         *)
(* A step is what a task does between two waits.  Whatever is read entry   *)
(* by entry is read at once here, at some moment of that time.  The reorg  *)
(* is the nightly one, for everything and without removing doubles.        *)
(*                                                                         *)
(* Definitions marked "faulty" are never used here: each is a plausible    *)
(* mistake, put in place of the definition after it to show what the       *)
(* properties detect.                                                      *)
(***************************************************************************)
EXTENDS Integers, Sequences, FiniteSets, SequencesExt

CONSTANTS
    Letters,    \* the mails that are sent, numbered as their files are made
    Bulletins,  \* those of them that are bulletins
    BoardOf,    \* mail -> its board
    Expired,    \* mails whose lifetime is over
    MaxEntries, \* bound: entries in a list
    MaxFault    \* bound: killed tasks, full disks and crashes

ASSUME MailStoreAssumption ==
    /\ Letters \subseteq Nat /\ Bulletins \subseteq Letters /\ Expired \subseteq Letters
    /\ MaxEntries \in Nat /\ MaxFault \in Nat

VARIABLES
    file,    \* mail -> "none", "writing", "cut", "whole", "gone"
    star,    \* mails with '*' in the forward line of their file
    list,    \* board -> the mails in its list file
    mark,    \* mails marked as erased in the list of their board
    check,   \* bulletins in the check list
    bidlist, \* mails whose BID is in the BID list
    send,    \* mail -> where savemail is
    locks,   \* names in lock_sema[], all of them taken by the maintenance
    maint,   \* the maintenance task: mbpurge or mbreorg
    faults   \* faults so far

storeVars == <<file, star, list, mark, check, bidlist, send, locks, maint, faults>>

Boards == {BoardOf[m] : m \in Letters}
OnBoard(b) == {m \in Letters : BoardOf[m] = b}
BullBoards == {BoardOf[m] : m \in Bulletins}
UserBoards == Boards \ BullBoards
Listed(m) == \E i \in DOMAIN list[BoardOf[m]] : list[BoardOf[m]][i] = m

\* The list of a board is open for a short append: all others wait.
Appending(b) == \E m \in OnBoard(b) : send[m] = "open"

Resting == [job |-> "none", todo |-> <<>>, at |-> "next", tmp |-> {}, left |-> {}]

StoreInit ==
    /\ file = [m \in Letters |-> "none"] /\ star = {}
    /\ list = [b \in Boards |-> <<>>] /\ mark = {}
    /\ check = {} /\ bidlist = {}
    /\ send = [m \in Letters |-> "idle"]
    /\ locks = {} /\ maint = Resting /\ faults = 0

Lists == <<star, list, mark, check, bidlist>>
Sends(m, s) == send' = [send EXCEPT ![m] = s]
Fault == faults < MaxFault /\ faults' = faults + 1

-----------------------------------------------------------------------------
(* savemail                                                                *)

WriteMail(m) ==
    /\ send[m] = "idle" /\ (\A n \in Letters : n < m => send[n] # "idle")
    /\ Sends(m, "text") /\ file' = [file EXCEPT ![m] = "writing"]
    /\ UNCHANGED <<Lists, locks, maint, faults>>

\* writetext is through and the file closed.  A mail that was broken off or
\* turns out to be invalid is dropped, a few waits later.
EndText(m) ==
    /\ send[m] = "text" /\ (Sends(m, "append") \/ Sends(m, "drop"))
    /\ file' = [file EXCEPT ![m] = "whole"]
    /\ UNCHANGED <<Lists, locks, maint, faults>>
DropMail(m) ==
    /\ send[m] = "drop" /\ Sends(m, "dropped")
    /\ file' = [file EXCEPT ![m] = "none"]
    /\ UNCHANGED <<Lists, locks, maint, faults>>

\* appenddirlist: nobody has locked the board, nor, for a bulletin, sending.
\* When the list is open elsewhere the wait is in s_open, behind the tests.
MayAppend(m) == BoardOf[m] \notin locks /\ (m \in Bulletins => "sendlock" \notin locks)
AppendDirlist(m) ==
    /\ \/ send[m] = "append" /\ MayAppend(m)
       \/ send[m] = "opening" /\ ~Appending(BoardOf[m])
    /\ Sends(m, IF Appending(BoardOf[m]) THEN "opening" ELSE "open")
    /\ UNCHANGED <<file, Lists, locks, maint, faults>>

\* add_dirlist: the BID, the list entry and the entry of the check list.
AddDirlist(m) ==
    /\ send[m] = "open" /\ Sends(m, "done")
    /\ Len(list[BoardOf[m]]) < MaxEntries
    /\ bidlist' = bidlist \cup {m}
    /\ list' = [list EXCEPT ![BoardOf[m]] = Append(@, m)]
    /\ check' = check \cup ({m} \cap Bulletins)
    /\ UNCHANGED <<file, star, mark, locks, maint, faults>>

\* The session ends: an open mail file is deleted, a closed one stays.
SenderKilled(m) ==
    /\ send[m] \in {"text", "drop", "append", "opening", "open"}
    /\ Fault /\ Sends(m, "dead")
    /\ file' = [file EXCEPT ![m] = IF @ = "writing" THEN "none" ELSE @]
    /\ UNCHANGED <<Lists, locks, maint>>

-----------------------------------------------------------------------------
(* markerased, first the file, then the list                               *)

EraseInFile(m) ==
    /\ file[m] = "whole" /\ Listed(m) /\ star' = star \cup {m}
    /\ UNCHANGED <<file, list, mark, check, bidlist, send, locks, maint, faults>>
EraseInList(m) ==
    /\ m \in star /\ Listed(m) /\ ~Appending(BoardOf[m])
    /\ mark' = mark \cup {m}
    /\ UNCHANGED <<file, star, list, check, bidlist, send, locks, maint, faults>>

-----------------------------------------------------------------------------
(* mbpurge and mbreorg: a task with a list of things to do.  The next one  *)
(* is a board, or the work on the check list or on the BID list.           *)

Doing(job, at) == maint.job = job /\ maint.at = at /\ maint.todo # <<>>
Item == Head(maint.todo)
NextItem == maint' = [maint EXCEPT !.todo = Tail(@), !.at = "next", !.tmp = {}, !.left = {}]
UnlockAndNext(name) == NextItem /\ locks' = locks \ {name}

StartMaint(job, todo) ==
    /\ maint.job = "none" /\ "purgereorg" \notin locks
    /\ maint' = [Resting EXCEPT !.job = job, !.todo = todo]
    /\ locks' = locks \cup {"purgereorg"}
    /\ UNCHANGED <<file, Lists, send, faults>>
Mbpurge == StartMaint("purge",
    SetToSeq(BullBoards) \o SetToSeq(UserBoards) \o <<"purgecheck">>)
Mbreorg == StartMaint("reorg",
    SetToSeq(BullBoards) \o <<"check">> \o SetToSeq(UserBoards) \o <<"bids">>)

\* purgeboard, createdirlist: the board is locked.
LockBoard ==
    /\ maint.job # "none" /\ maint.at = "next" /\ maint.todo # <<>> /\ Item \in Boards
    /\ locks' = locks \cup {Item}
    /\ maint' = [maint EXCEPT !.at = "read"]
    /\ UNCHANGED <<file, Lists, send, faults>>

\* purgeboard: files of marked and expired mails are deleted, their entries
\* not copied, and blank in the check list.
Obsolete(b) == {m \in OnBoard(b) : Listed(m) /\ (m \in mark \/ m \in Expired)}
PurgeRead ==
    /\ Doing("purge", "read") /\ ~Appending(Item)
    /\ LET dead == Obsolete(Item)
       IN IF dead = {} THEN UnlockAndNext(Item) /\ UNCHANGED <<file, check>>
          ELSE /\ maint' = [maint EXCEPT !.at = "replace",
                     !.tmp = SelectSeq(list[Item], LAMBDA m : m \notin dead)]
               /\ file' = [m \in Letters |-> IF m \in dead THEN "gone" ELSE file[m]]
               /\ check' = check \ dead
               /\ UNCHANGED locks
    /\ UNCHANGED <<star, list, mark, bidlist, send, faults>>

\* dirsort: the mails of a directory, oldest first.
Dirsort(b) == SetToSortSeq({m \in OnBoard(b) : file[m] \in {"writing", "cut", "whole"}}, <)
\* faulty: a file that is being written is read as well
BadFilesAny(b) == {m \in OnBoard(b) : file[m] \in {"cut", "writing"}}
\* add_dirlist deletes files without a complete header; one that is being
\* written (sema_access) is left alone.
BadFiles(b) == {m \in OnBoard(b) : file[m] = "cut"}
\* faulty: the list is also right when the directory goes on behind its end
RightCheckdirlistShort(b) ==
    LET dir == Dirsort(b) l == list[b]
    IN \/ dir = <<>>
       \/ Len(l) <= Len(dir) /\ l = SubSeq(dir, 1, Len(l))
\* checkdirlist: an empty directory needs no list.  Otherwise the list has an
\* entry for each file, or up to one that is being written.
RightCheckdirlist(b) ==
    LET dir == Dirsort(b) l == list[b]
    IN \/ dir = <<>> \/ l = dir
       \/ /\ Len(l) < Len(dir) /\ l = SubSeq(dir, 1, Len(l))
          /\ file[dir[Len(l) + 1]] = "writing"
\* createdirlist builds the list again unless it is right.
ReorgRead ==
    /\ Doing("reorg", "read")
    /\ IF RightCheckdirlist(Item)
       THEN UnlockAndNext(Item) /\ UNCHANGED file
       ELSE /\ maint' = [maint EXCEPT !.at = "replace",
                  !.tmp = SelectSeq(Dirsort(Item), LAMBDA m : file[m] = "whole"),
                  !.left = OnBoard(Item) \cap star]
            /\ file' = [m \in Letters |-> IF m \in BadFiles(Item) THEN "gone" ELSE file[m]]
            /\ UNCHANGED locks
    /\ UNCHANGED <<Lists, send, faults>>

\* The new list takes the place of the old one, whatever was written to that
\* one meanwhile.  xunlink waits until nobody has it open.  The marks of a
\* purged list are those that were copied, none; after a reorganisation they
\* come from the files.
ReplaceList ==
    /\ maint.at = "replace" /\ ~Appending(Item)
    /\ list' = [list EXCEPT ![Item] = maint.tmp]
    /\ mark' = (mark \ OnBoard(Item)) \cup maint.left
    /\ UnlockAndNext(Item)
    /\ UNCHANGED <<file, star, check, bidlist, send, faults>>

\* makecheck, purgecheck and reorgbid: sending is locked, and purgecheck and
\* reorgbid read what is there.  With a full disk makecheck and reorgbid return
\* with the lock, which is the task's until it ends.
LockSending ==
    /\ maint.job # "none" /\ maint.at = "next"
    /\ maint.todo # <<>> /\ Item \in {"check", "bids", "purgecheck"}
    /\ IF "sendlock" \in locks THEN NextItem /\ UNCHANGED <<locks, faults>>
       ELSE /\ locks' = locks \cup {"sendlock"}
            /\ \/ /\ maint' = [maint EXCEPT !.at = Item,
                        !.tmp = CASE Item = "bids" -> bidlist
                                  [] Item = "purgecheck" -> check
                                  [] Item = "check" -> {},
                        !.left = IF Item = "check" THEN BullBoards ELSE {}]
                  /\ UNCHANGED faults
               \/ Item # "purgecheck" /\ Fault /\ NextItem
    /\ UNCHANGED <<file, Lists, send>>

\* makecheck reads the lists of the boards one by one, and puts the new check
\* list in place.
MakecheckRead(b) ==
    /\ maint.at = "check" /\ b \in maint.left /\ ~Appending(b)
    /\ maint' = [maint EXCEPT !.left = @ \ {b}, !.tmp = @ \cup ToSet(list[b])]
    /\ UNCHANGED <<file, Lists, send, locks, faults>>
Makecheck ==
    /\ maint.at = "check" /\ maint.left = {}
    /\ check' = maint.tmp /\ UnlockAndNext("sendlock")
    /\ UNCHANGED <<file, star, list, mark, bidlist, send, faults>>
\* purgecheck leaves out the entries that were made blank.
Purgecheck ==
    /\ maint.at = "purgecheck"
    /\ check' = maint.tmp /\ UnlockAndNext("sendlock")
    /\ UNCHANGED <<file, star, list, mark, bidlist, send, faults>>
\* reorgbid copies as many entries as there were when it opened the file.
Reorgbid ==
    /\ maint.at = "bids"
    /\ bidlist' = maint.tmp /\ UnlockAndNext("sendlock")
    /\ UNCHANGED <<file, star, list, mark, check, send, faults>>

\* faulty: the locks of the task stay behind
EndMaintLocked ==
    /\ maint.job # "none"
    /\ \/ maint.todo = <<>> /\ UNCHANGED faults
       \/ maint.todo # <<>> /\ Fault
    /\ maint' = Resting /\ locks' = locks \ {"purgereorg"}
    /\ UNCHANGED <<file, Lists, send>>
\* The task ends, or is killed; close_task gives back what it has locked.
EndMaint ==
    /\ maint.job # "none"
    /\ \/ maint.todo = <<>> /\ UNCHANGED faults
       \/ maint.todo # <<>> /\ Fault
    /\ maint' = Resting /\ locks' = {}
    /\ UNCHANGED <<file, Lists, send>>

\* The program crashes and is started again.  Mail files that were being
\* written stay as they are, without an end to their header.
Crash ==
    /\ Fault
    /\ send' = [m \in Letters |->
          IF send[m] \in {"idle", "done", "dropped"} THEN send[m] ELSE "dead"]
    /\ file' = [m \in Letters |-> IF file[m] = "writing" THEN "cut" ELSE file[m]]
    /\ maint' = Resting /\ locks' = {}
    /\ UNCHANGED Lists

-----------------------------------------------------------------------------
SendStep(m) == EndText(m) \/ DropMail(m) \/ AppendDirlist(m) \/ AddDirlist(m)
MaintStep ==
    \/ LockBoard \/ PurgeRead \/ ReorgRead \/ ReplaceList \/ LockSending
    \/ (\E b \in BullBoards : MakecheckRead(b)) \/ Makecheck \/ Purgecheck \/ Reorgbid
    \/ EndMaint
StoreNext ==
    \/ \E m \in Letters : WriteMail(m) \/ SendStep(m) \/ SenderKilled(m)
                            \/ EraseInFile(m) \/ EraseInList(m)
    \/ Mbpurge \/ Mbreorg \/ MaintStep \/ Crash

StoreSpec == StoreInit /\ [][StoreNext]_storeVars

\* The maintenance runs every night and the scheduler serves its task.  A
\* sender polls many times between two nights, so it meets a moment without
\* the locks.
StoreFair ==
    /\ SF_storeVars(Mbreorg) /\ WF_storeVars(MaintStep)
    /\ \A m \in Letters : WF_storeVars(SendStep(m)) /\ SF_storeVars(AppendDirlist(m))
StoreFairSpec == StoreSpec /\ StoreFair

-----------------------------------------------------------------------------
(* Properties                                                              *)

\* No mail is lost to the maintenance: a file is deleted only when its mail was
\* erased or is over its lifetime, not while it is being written, and not
\* because a list, read earlier or without its newest entries, says so.
OnlyErasedDeleted ==
    [][\A m \in Letters :
         file[m] \in {"writing", "whole"} /\ file'[m] = "gone" => m \in star \cup Expired]_storeVars

Finished(m) == send[m] \in {"done", "dropped", "dead"}
Entries(m) == Cardinality({i \in DOMAIN list[BoardOf[m]] : list[BoardOf[m]][i] = m})
\* A mail has one entry, a mail that is gone has none.
Entered(m) ==
    /\ Dirsort(BoardOf[m]) # <<>> => Entries(m) = IF file[m] = "whole" THEN 1 ELSE 0
    /\ file[m] = "whole" /\ m \in Bulletins => m \in check
\* Senders, kills and crashes may leave a list without an entry, with an entry
\* twice, or the check list without it: the nightly reorganisation finds it.
StoreHeals == \A m \in Letters : <>[](Finished(m) => Entered(m))

\* A sender that waits for the locks of the maintenance gets on, also when that
\* was killed or gave up.
SendersFinish ==
    \A m \in Letters : send[m] \in {"append", "opening"} ~> Finished(m)
=============================================================================
