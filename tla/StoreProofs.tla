---------------------------- MODULE StoreProofs ----------------------------
(***************************************************************************)
(* What the nightly maintenance and the senders beside it never do, for    *)
(* any set of mails, any number of faults and any disturbance: the runs    *)
(* are small.  The two rest on one inductive invariant: a mark in a list   *)
(* comes from the mail's file, and the maintenance has the lock of what it *)
(* works on.                                                               *)
(***************************************************************************)
EXTENDS MailStore, TLAPS

MaintFields == {"job", "todo", "at", "tmp", "left"}
SendStates == {"idle", "text", "append", "opening", "open", "drop", "done", "dropped", "dead"}
SendingJobs == {"check", "bids", "purgecheck"}

StoreTypeOK ==
    /\ file \in [Letters -> {"none", "writing", "cut", "whole", "gone"}]
    /\ send \in [Letters -> SendStates]
    /\ DOMAIN maint = MaintFields
    /\ maint.at \in {"next", "read", "replace"} \cup SendingJobs

(* What is marked in a list, or will be when the new list is in place, is   *)
(* marked in its file.                                                     *)
MarksErased ==
    /\ mark \subseteq star
    /\ maint.at \in {"next", "read", "replace"} => maint.left \subseteq star

(* The maintenance works with the lock of what it works on.                *)
Locked ==
    /\ maint.job = "none" => maint = Resting
    /\ maint.at \in {"read", "replace"} => Item \in locks
    /\ maint.at \in SendingJobs => "sendlock" \in locks

StoreInv == StoreTypeOK /\ MarksErased /\ Locked

LEMMA RestingFields ==
    /\ DOMAIN Resting = MaintFields /\ Resting.job = "none" /\ Resting.at = "next"
    /\ Resting.left = {}
  BY DEF Resting, MaintFields

(* Steps of senders and of those who erase do not touch the maintenance.   *)
LEMMA SendersKeepStore ==
    ASSUME StoreInv, NEW m \in Letters,
           \/ WriteMail(m) \/ SendStep(m) \/ SenderKilled(m)
           \/ EraseInFile(m) \/ EraseInList(m)
    PROVE  StoreInv' /\ maint' = maint /\ locks' = locks
  <1>1. maint' = maint /\ locks' = locks
    BY DEF WriteMail, SendStep, EndText, DropMail, AppendDirlist, AddDirlist, SenderKilled,
           EraseInFile, EraseInList, Lists
  <1>2. StoreTypeOK'
    <2>1. send' \in [Letters -> SendStates]
      <3>1. \A s \in SendStates : Sends(m, s) => send' \in [Letters -> SendStates]
        BY DEF StoreInv, StoreTypeOK, Sends
      <3>2. {"text", "append", "drop", "dropped", "opening", "open", "done", "dead"} \subseteq SendStates
        BY DEF SendStates
      <3>3. (\E s \in SendStates : Sends(m, s)) \/ send' = send
        BY <3>2 DEF WriteMail, SendStep, EndText, DropMail, AppendDirlist, AddDirlist,
               SenderKilled, EraseInFile, EraseInList, Sends
      <3> QED
        BY <3>1, <3>3 DEF StoreInv, StoreTypeOK
    <2>2. file' \in [Letters -> {"none", "writing", "cut", "whole", "gone"}]
      BY DEF StoreInv, StoreTypeOK, WriteMail, SendStep, EndText, DropMail, AppendDirlist,
             AddDirlist, SenderKilled, EraseInFile, EraseInList, Lists
    <2> QED
      BY <1>1, <2>1, <2>2 DEF StoreInv, StoreTypeOK
  <1>3. star \subseteq star' /\ mark' \subseteq star'
    <2>1. mark \subseteq star
      BY DEF StoreInv, MarksErased
    <2> QED
      BY <2>1 DEF WriteMail, SendStep, EndText, DropMail, AppendDirlist, AddDirlist, SenderKilled,
           EraseInFile, EraseInList, Lists
  <1>4. MarksErased'
    BY <1>1, <1>3 DEF StoreInv, MarksErased
  <1>5. Locked'
    BY <1>1 DEF StoreInv, Locked, Item
  <1> QED
    BY <1>1, <1>2, <1>4, <1>5 DEF StoreInv

(* What the steps of the maintenance leave behind.                         *)
LEMMA MaintKeepsStore ==
    ASSUME StoreInv, Mbpurge \/ Mbreorg \/ MaintStep \/ Crash
    PROVE  StoreInv'
  <1>1. /\ file \in [Letters -> {"none", "writing", "cut", "whole", "gone"}]
        /\ send \in [Letters -> SendStates]
        /\ DOMAIN maint = {"job", "todo", "at", "tmp", "left"}
        /\ mark \subseteq star
    BY DEF StoreInv, StoreTypeOK, MarksErased, MaintFields
  <1>2. ASSUME maint' = Resting, star' = star, mark' = mark, send' \in [Letters -> SendStates],
               file' \in [Letters -> {"none", "writing", "cut", "whole", "gone"}]
        PROVE  StoreInv'
    BY <1>1, <1>2, RestingFields DEF StoreInv, StoreTypeOK, MarksErased, Locked, Item, SendingJobs
  <1>3. ASSUME NEW job, NEW todo, job # "none", StartMaint(job, todo)
        PROVE  StoreInv'
    <2>1. /\ maint' = [Resting EXCEPT !.job = job, !.todo = todo] /\ file' = file /\ send' = send
          /\ star' = star /\ mark' = mark
      BY <1>3 DEF StartMaint, Lists
    <2>2. /\ DOMAIN maint' = MaintFields /\ maint'.job = job /\ maint'.at = "next"
          /\ maint'.left = {}
      BY <2>1 DEF Resting, MaintFields
    <2> QED
      BY <1>1, <1>3, <2>1, <2>2 DEF StoreInv, StoreTypeOK, MarksErased, Locked, SendingJobs
  <1>4. ASSUME NextItem, star' = star, mark' \subseteq star, send' = send, maint.job # "none",
               file' \in [Letters -> {"none", "writing", "cut", "whole", "gone"}]
        PROVE  StoreInv'
    <2>1. /\ DOMAIN maint' = MaintFields /\ maint'.job = maint.job /\ maint'.at = "next"
          /\ maint'.left = {}
      BY <1>1, <1>4 DEF NextItem, MaintFields
    <2> QED
      BY <1>1, <1>4, <2>1 DEF StoreInv, StoreTypeOK, MarksErased, Locked, SendingJobs
  <1>5. maint.at # "next" => maint.job # "none"
    BY RestingFields DEF StoreInv, Locked
  <1>6. CASE Mbpurge \/ Mbreorg
    <2>1. \E todo : StartMaint("purge", todo) \/ StartMaint("reorg", todo)
      BY <1>6 DEF Mbpurge, Mbreorg
    <2> QED
      BY <1>3, <2>1
  <1>7. CASE LockBoard
    <2>1. /\ maint.at = "next" /\ locks' = locks \cup {Item} /\ maint.job # "none"
          /\ maint' = [maint EXCEPT !.at = "read"]
          /\ file' = file /\ send' = send /\ star' = star /\ mark' = mark
      BY <1>7 DEF LockBoard, Lists
    <2>2. /\ DOMAIN maint' = MaintFields /\ maint'.job = maint.job /\ maint'.at = "read"
          /\ maint'.left = maint.left /\ maint'.todo = maint.todo
      BY <1>1, <2>1 DEF MaintFields
    <2>3. Item' = Item
      BY <2>2 DEF Item
    <2> QED
      BY <1>1, <2>1, <2>2, <2>3 DEF StoreInv, StoreTypeOK, MarksErased, Locked, SendingJobs
  <1>8. CASE PurgeRead
    <2> DEFINE dead == Obsolete(Item)
    <2>1. /\ maint.at = "read" /\ star' = star /\ mark' = mark /\ send' = send
          /\ maint.job # "none"
      BY <1>8 DEF PurgeRead, Doing
    <2>2. CASE dead = {}
      <3>1. NextItem /\ file' = file
        BY <1>8, <2>2 DEF PurgeRead, UnlockAndNext
      <3> QED
        BY <1>1, <1>4, <2>1, <3>1
    <2>3. CASE dead # {}
      <3>1. \E t : maint' = [maint EXCEPT !.at = "replace", !.tmp = t]
        BY <1>8, <2>3 DEF PurgeRead
      <3>2. file' = [m \in Letters |-> IF m \in dead THEN "gone" ELSE file[m]] /\ locks' = locks
        BY <1>8, <2>3 DEF PurgeRead
      <3>3. /\ DOMAIN maint' = MaintFields /\ maint'.job = maint.job /\ maint'.at = "replace"
            /\ maint'.left = maint.left /\ maint'.todo = maint.todo
        BY <1>1, <3>1 DEF MaintFields
      <3>4. Item' = Item
        BY <3>3 DEF Item
      <3>5. file' \in [Letters -> {"none", "writing", "cut", "whole", "gone"}]
        <4> HIDE DEF dead
        <4> QED
          BY <1>1, <3>2
      <3> QED
        BY <1>1, <2>1, <3>2, <3>3, <3>4, <3>5
        DEF StoreInv, StoreTypeOK, MarksErased, Locked, SendingJobs
    <2> QED
      BY <2>2, <2>3
  <1>9. CASE ReorgRead
    <2>1. /\ maint.at = "read" /\ star' = star /\ mark' = mark /\ send' = send
          /\ maint.job # "none"
      BY <1>9 DEF ReorgRead, Doing, Lists
    <2>2. CASE RightCheckdirlist(Item)
      <3>1. NextItem /\ file' = file
        BY <1>9, <2>2 DEF ReorgRead, UnlockAndNext
      <3> QED
        BY <1>1, <1>4, <2>1, <3>1
    <2>3. CASE ~ RightCheckdirlist(Item)
      <3>1. \E t : maint' = [maint EXCEPT !.at = "replace", !.tmp = t,
                                          !.left = OnBoard(Item) \cap star]
        BY <1>9, <2>3 DEF ReorgRead
      <3>2. /\ file' = [m \in Letters |-> IF m \in BadFiles(Item) THEN "gone" ELSE file[m]]
            /\ locks' = locks
        BY <1>9, <2>3 DEF ReorgRead
      <3>3. /\ DOMAIN maint' = MaintFields /\ maint'.job = maint.job /\ maint'.at = "replace"
            /\ maint'.left \subseteq star /\ maint'.todo = maint.todo
        <4> DEFINE l == OnBoard(Item) \cap star
        <4>1. l \subseteq star
          OBVIOUS
        <4>2. \E t : maint' = [maint EXCEPT !.at = "replace", !.tmp = t, !.left = l]
          BY <3>1
        <4> HIDE DEF l
        <4> QED
          BY <1>1, <4>1, <4>2 DEF MaintFields
      <3>4. Item' = Item
        BY <3>3 DEF Item
      <3>5. file' \in [Letters -> {"none", "writing", "cut", "whole", "gone"}]
        BY <1>1, <3>2
      <3> QED
        BY <1>1, <2>1, <3>2, <3>3, <3>4, <3>5
        DEF StoreInv, StoreTypeOK, MarksErased, Locked, SendingJobs
    <2> QED
      BY <2>2, <2>3
  <1>10. CASE ReplaceList
    <2>1. /\ maint.at = "replace" /\ NextItem /\ star' = star /\ send' = send /\ file' = file
          /\ mark' = (mark \ OnBoard(Item)) \cup maint.left
      BY <1>10 DEF ReplaceList, UnlockAndNext
    <2>2. maint.left \subseteq star
      BY <2>1 DEF StoreInv, MarksErased
    <2> QED
      BY <1>1, <1>4, <1>5, <2>1, <2>2
  <1>11. CASE LockSending
    <2>1. /\ maint.at = "next" /\ maint.job # "none" /\ file' = file /\ send' = send
          /\ star' = star /\ mark' = mark /\ Item \in SendingJobs
      BY <1>11 DEF LockSending, Lists, SendingJobs
    <2>2. CASE NextItem
      BY <1>1, <1>4, <2>1, <2>2
    <2>3. CASE ~ NextItem
      <3>1. /\ locks' = locks \cup {"sendlock"}
            /\ \E t, l : maint' = [maint EXCEPT !.at = Item, !.tmp = t, !.left = l]
        BY <1>11, <2>3 DEF LockSending
      <3>2. DOMAIN maint' = MaintFields /\ maint'.job = maint.job /\ maint'.at = Item
        BY <1>1, <3>1 DEF MaintFields
      <3> QED
        BY <1>1, <2>1, <3>1, <3>2 DEF StoreInv, StoreTypeOK, MarksErased, Locked, SendingJobs
    <2> QED
      BY <2>2, <2>3
  <1>12. ASSUME NEW b \in BullBoards, MakecheckRead(b) PROVE StoreInv'
    <2>1. /\ maint.at = "check" /\ file' = file /\ send' = send /\ locks' = locks
          /\ star' = star /\ mark' = mark
          /\ \E t, l : maint' = [maint EXCEPT !.left = l, !.tmp = t]
      BY <1>12 DEF MakecheckRead, Lists
    <2>2. DOMAIN maint' = MaintFields /\ maint'.job = maint.job /\ maint'.at = "check"
      BY <1>1, <2>1 DEF MaintFields
    <2> QED
      BY <1>1, <1>5, <2>1, <2>2 DEF StoreInv, StoreTypeOK, MarksErased, Locked, SendingJobs
  <1>13. CASE Makecheck \/ Purgecheck \/ Reorgbid
    <2>1. /\ maint.at # "next" /\ NextItem /\ star' = star /\ mark' = mark /\ send' = send
          /\ file' = file
      BY <1>13 DEF Makecheck, Purgecheck, Reorgbid, UnlockAndNext
    <2> QED
      BY <1>1, <1>4, <1>5, <2>1
  <1>14. CASE EndMaint
    BY <1>1, <1>2, <1>14 DEF EndMaint, Lists
  <1>15. CASE Crash
    <2>1. send' \in [Letters -> SendStates]
      BY <1>1, <1>15 DEF Crash, SendStates
    <2>2. file' \in [Letters -> {"none", "writing", "cut", "whole", "gone"}]
      BY <1>1, <1>15 DEF Crash
    <2> QED
      BY <1>2, <1>15, <2>1, <2>2 DEF Crash, Lists
  <1> QED
    BY <1>6, <1>7, <1>8, <1>9, <1>10, <1>11, <1>12, <1>13, <1>14, <1>15 DEF MaintStep

LEMMA StoreInvInductive == StoreSpec => []StoreInv
  <1>1. StoreInit => StoreInv
    BY RestingFields DEF StoreInit, StoreInv, StoreTypeOK, MarksErased, Locked, SendStates,
       SendingJobs
  <1>2. StoreInv /\ [StoreNext]_storeVars => StoreInv'
    <2> SUFFICES ASSUME StoreInv, [StoreNext]_storeVars PROVE StoreInv'
      OBVIOUS
    <2>1. ASSUME NEW m \in Letters,
                 \/ WriteMail(m) \/ SendStep(m) \/ SenderKilled(m)
                 \/ EraseInFile(m) \/ EraseInList(m)
          PROVE  StoreInv'
      BY <2>1, SendersKeepStore
    <2>2. CASE Mbpurge \/ Mbreorg \/ MaintStep \/ Crash
      BY <2>2, MaintKeepsStore
    <2>3. CASE UNCHANGED storeVars
      BY <2>3 DEF storeVars, StoreInv, StoreTypeOK, MarksErased, Locked, Item
    <2> QED
      BY <2>1, <2>2, <2>3 DEF StoreNext
  <1> QED
    BY <1>1, <1>2, PTL DEF StoreSpec

(* No mail is lost to the maintenance, whoever sends, erases, is killed or  *)
(* crashes meanwhile: a complete file, or one being written, is deleted    *)
(* only when its mail was erased or is over its lifetime.                  *)
(* (purgeboard, createdirlist)                                             *)
THEOREM ErasedOrExpired == StoreSpec => OnlyErasedDeleted
  <1> DEFINE Kept == \A m \in Letters :
                file[m] \in {"writing", "whole"} /\ file'[m] = "gone" => m \in star \cup Expired
  <1>1. StoreInv /\ [StoreNext]_storeVars => Kept
    <2> SUFFICES ASSUME StoreInv, [StoreNext]_storeVars, NEW m \in Letters,
                        file[m] \in {"writing", "whole"}, file'[m] = "gone"
                 PROVE  m \in star \cup Expired
      OBVIOUS
    <2>1. file \in [Letters -> {"none", "writing", "cut", "whole", "gone"}] /\ mark \subseteq star
      BY DEF StoreInv, StoreTypeOK, MarksErased
    <2>2. file'[m] # file[m] /\ file' # file
      OBVIOUS
    <2>3. CASE PurgeRead
      <3> DEFINE dead == Obsolete(Item)
      <3>1. dead # {} /\ file' = [n \in Letters |-> IF n \in dead THEN "gone" ELSE file[n]]
        BY <2>2, <2>3 DEF PurgeRead
      <3>2. m \in dead
        <4> HIDE DEF dead
        <4> QED
          BY <2>2, <3>1
      <3> QED
        BY <2>1, <3>2 DEF Obsolete
    <2>4. CASE ReorgRead
      <3>1. file' = [n \in Letters |-> IF n \in BadFiles(Item) THEN "gone" ELSE file[n]]
        BY <2>2, <2>4 DEF ReorgRead
      <3>2. m \in BadFiles(Item)
        BY <2>2, <3>1
      <3> QED
        BY <3>2 DEF BadFiles
    <2>5. CASE \/ Mbpurge \/ Mbreorg \/ LockBoard \/ ReplaceList \/ LockSending
               \/ (\E b \in BullBoards : MakecheckRead(b)) \/ Makecheck \/ Purgecheck \/ Reorgbid
               \/ EndMaint
      BY <2>2, <2>5 DEF Mbpurge, Mbreorg, StartMaint, LockBoard, ReplaceList, LockSending,
         MakecheckRead, Makecheck, Purgecheck, Reorgbid, EndMaint
    <2>6. CASE Crash
      <3>1. file'[m] = IF file[m] = "writing" THEN "cut" ELSE file[m]
        BY <2>6 DEF Crash
      <3> QED
        BY <2>2, <3>1
    <2>7. CASE \E n \in Letters : WriteMail(n) \/ SendStep(n) \/ SenderKilled(n)
                                    \/ EraseInFile(n) \/ EraseInList(n)
      <3>1. PICK n \in Letters : WriteMail(n) \/ SendStep(n) \/ SenderKilled(n)
                                    \/ EraseInFile(n) \/ EraseInList(n)
        BY <2>7
      <3>2. \/ file' = file
            \/ \E x \in {"writing", "whole", "none", file[n]} : file' = [file EXCEPT ![n] = x]
        BY <3>1 DEF WriteMail, SendStep, EndText, DropMail, AppendDirlist, AddDirlist,
           SenderKilled, EraseInFile, EraseInList
      <3> QED
        BY <2>1, <2>2, <3>2
    <2>8. CASE UNCHANGED storeVars
      BY <2>2, <2>8 DEF storeVars
    <2> QED
      BY <2>3, <2>4, <2>5, <2>6, <2>7, <2>8 DEF StoreNext, MaintStep
  <1> QED
    BY <1>1, StoreInvInductive, PTL DEF StoreSpec, OnlyErasedDeleted

(* A sender that has still to pass the tests of appenddirlist, while the    *)
(* maintenance works on what it would write to.                            *)
KeptAway(m) ==
    /\ send[m] = "append"
    /\ \/ maint.at \in {"read", "replace"} /\ BoardOf[m] = Item
       \/ maint.at \in SendingJobs /\ m \in Bulletins

(* While the maintenance works on a list, no sender opens it: neither the   *)
(* list of a board that is read or replaced, nor the check list for a      *)
(* bulletin.  It waits, or is killed.  (appenddirlist, purgeboard,         *)
(* createdirlist, makecheck)                                               *)
THEOREM SendersKeptAway ==
    StoreSpec => [][\A m \in Letters : KeptAway(m) => send'[m] \in {"append", "dead"}]_storeVars
  <1> DEFINE Kept == \A m \in Letters : KeptAway(m) => send'[m] \in {"append", "dead"}
  <1>1. StoreInv /\ [StoreNext]_storeVars => Kept
    <2> SUFFICES ASSUME StoreInv, [StoreNext]_storeVars, NEW m \in Letters, KeptAway(m)
                 PROVE  send'[m] \in {"append", "dead"}
      OBVIOUS
    <2>1. send \in [Letters -> SendStates] /\ send[m] = "append" /\ ~ MayAppend(m)
      BY DEF StoreInv, StoreTypeOK, Locked, KeptAway, MayAppend
    <2>2. CASE \E n \in Letters : WriteMail(n) \/ SendStep(n) \/ SenderKilled(n)
                                    \/ EraseInFile(n) \/ EraseInList(n)
      <3>1. PICK n \in Letters : WriteMail(n) \/ SendStep(n) \/ SenderKilled(n)
                                    \/ EraseInFile(n) \/ EraseInList(n)
        BY <2>2
      <3>2. CASE SenderKilled(n)
        BY <2>1, <3>2 DEF SenderKilled, Sends
      <3>3. CASE EraseInFile(n) \/ EraseInList(n)
        BY <2>1, <3>3 DEF EraseInFile, EraseInList
      <3>4. CASE WriteMail(n) \/ SendStep(n)
        <4>1. n # m
          BY <2>1, <3>4 DEF WriteMail, SendStep, EndText, DropMail, AppendDirlist, AddDirlist
        <4>2. \E s : Sends(n, s)
          BY <3>4 DEF WriteMail, SendStep, EndText, DropMail, AppendDirlist, AddDirlist, Sends
        <4> QED
          BY <2>1, <4>1, <4>2 DEF Sends
      <3> QED
        BY <3>1, <3>2, <3>3, <3>4
    <2>3. CASE Mbpurge \/ Mbreorg \/ MaintStep
      BY <2>1, <2>3 DEF Mbpurge, Mbreorg, StartMaint, MaintStep, LockBoard, PurgeRead, ReorgRead,
         ReplaceList, LockSending, MakecheckRead, Makecheck, Purgecheck, Reorgbid, EndMaint
    <2>4. CASE Crash
      BY <2>1, <2>4 DEF Crash
    <2>5. CASE UNCHANGED storeVars
      BY <2>1, <2>5 DEF storeVars
    <2> QED
      BY <2>2, <2>3, <2>4, <2>5 DEF StoreNext
  <1> QED
    BY <1>1, StoreInvInductive, PTL DEF StoreSpec
=============================================================================
