--------------------------- MODULE FileSemaProofs ---------------------------
(***************************************************************************)
(* Proofs about FileSema for any number of tasks, files, handles and slots *)
(* and any set of modes in use.                                            *)
(*                                                                         *)
(* The invariant of the table is IInv: a count is only meaningful together *)
(* with the handles it counts, so types (a count never gets negative),     *)
(* CountsMatch, NamedIffUsed and ShortModifierExclusive are proved in one  *)
(* induction.                                                              *)
(***************************************************************************)
EXTENDS FileSema, FiniteSetTheorems, WellFoundedInduction, TLAPS

IInv ==
    TypeOK /\ CountsMatch /\ NamedIffUsed /\ ShortModifierExclusive /\ WaitMatches

-----------------------------------------------------------------------------
(* The first slot that fits is one of the slots that fit.                  *)
LEMMA MinInSet ==
    ASSUME NEW S, S \subseteq Nat, S # {}
    PROVE  Min(S) \in S
<1>1. PICK x \in S : \A y \in S : ~(<<y, x>> \in OpToRel(<, Nat))
    BY NatLessThanWellFounded, WFMin, Zenon
<1>2. ASSUME NEW y \in S, y < x PROVE FALSE
    <2>1. <<y, x>> \in Nat \X Nat /\ <<y, x>>[1] < <<y, x>>[2]
        BY <1>2
    <2>2. <<y, x>> \in OpToRel(<, Nat)
        BY <2>1, Zenon DEF OpToRel
    <2>3. QED
        BY <1>1, <2>2
<1>3. \A y \in S : x <= y
    BY <1>2
<1>4. QED
    BY <1>3 DEF Min

(* sema_find and sema_new yield a slot of the table, or none.              *)
LEMMA SlotForType ==
    ASSUME NEW f
    PROVE  SlotFor(f) \in Slots \cup {NoSema}
<1>1. \A g : Named(g) \subseteq Nat /\ Named(g) \subseteq Slots
    BY SemaAssumption DEF Named, Slots
<1>2. QED
    BY <1>1, MinInSet, Zenon DEF SlotFor

LEMMA NoSemaNoSlot == NoSema \notin Slots
BY SemaAssumption DEF NoSema, Slots

(* An open handle has a slot, a mode, an owner and a file.                 *)
LEMMA OpenHandle ==
    ASSUME TypeOK, NEW h \in Handles
    PROVE  /\ handle[h].slot # NoSema => /\ handle[h].slot \in Slots
                                         /\ handle[h].mode \in Modes
                                         /\ handle[h].tid \in Actors
                                         /\ handle[h].file \in Files
           /\ handle[h].slot = NoSema => handle[h] = Closed
<1>1. NoSema \notin Slots
    BY NoSemaNoSlot
<1>2. handle[h] \in {Closed} \cup [slot : Slots, mode : Modes, tid : Actors, file : Files]
    BY DEF TypeOK
<1>3. QED
    BY <1>1, <1>2 DEF Closed

LEMMA HoldersFinite ==
    ASSUME NEW s, NEW m
    PROVE  IsFiniteSet(Holders(s, m)) /\ Cardinality(Holders(s, m)) \in Nat
<1>1. Holders(s, m) \in SUBSET Handles
    BY DEF Holders
<1>2. QED
    BY <1>1, SemaAssumption, FS_Subset, FS_CardinalityType

(* A slot that is not busy has no short modifying access.                  *)
LEMMA QuietSlot ==
    ASSUME IInv, NEW s \in Slots, ~Busy(s), NEW h \in Handles,
           handle[h].slot = s
    PROVE  handle[h].mode \notin ShortModifiers
<1>1. SUFFICES ASSUME handle[h].mode \in ShortModifiers PROVE FALSE
    OBVIOUS
<1> DEFINE m == handle[h].mode
<1>2. m \in Modes
    BY <1>1 DEF ShortModifiers, Modes
<1>3. sema[s].mode[m] = Cardinality(Holders(s, m)) /\ sema[s].mode[m] \in Nat
    BY <1>2 DEF IInv, CountsMatch, TypeOK
<1>4. sema[s].mode[m] = 0
    BY <1>1, <1>3 DEF Busy
<1>5. Holders(s, m) = {}
    BY <1>3, <1>4, HoldersFinite, FS_EmptySet
<1>6. QED
    BY <1>5 DEF Holders

-----------------------------------------------------------------------------
(* The two ways the table changes.                                         *)

(* Granting access in slot s, with nothing short and modifying running     *)
(* there, keeps the table consistent.                                      *)
LEMMA GrantKeepsTable ==
    ASSUME IInv, NEW a \in Actors, NEW s \in Slots, NEW f \in Files, NEW m \in Modes,
           ~Busy(s), NEW h \in Handles, handle[h].slot = NoSema,
           sema' = SemaSet(s, f, m),
           handle' = [handle EXCEPT ![h] =
                        [slot |-> s, mode |-> m, tid |-> a, file |-> f]]
    PROVE  /\ sema' \in [Slots -> [file : Files \cup {NoFile}, mode : [Modes -> Nat],
                                   option : 0 .. 2]]
           /\ handle' \in [Handles -> {Closed} \cup
                            [slot : Slots, mode : Modes, tid : Actors, file : Files]]
           /\ CountsMatch' /\ NamedIffUsed' /\ ShortModifierExclusive'
<1> DEFINE new == [slot |-> s, mode |-> m, tid |-> a, file |-> f]
<1>1. sema \in [Slots -> [file : Files \cup {NoFile}, mode : [Modes -> Nat], option : 0 .. 2]]
      /\ handle \in [Handles -> {Closed} \cup
                        [slot : Slots, mode : Modes, tid : Actors, file : Files]]
    BY DEF IInv, TypeOK
<1>2. sema' \in [Slots -> [file : Files \cup {NoFile}, mode : [Modes -> Nat], option : 0 .. 2]]
    BY <1>1 DEF SemaSet
<1>3. handle' \in [Handles -> {Closed} \cup
                        [slot : Slots, mode : Modes, tid : Actors, file : Files]]
    BY <1>1
<1>4. handle'[h] = new /\ \A k \in Handles \ {h} : handle'[k] = handle[k]
    BY <1>1
<1>5. \A r \in Slots, n \in Modes :
        sema'[r].mode[n] = IF r = s /\ n = m THEN sema[r].mode[n] + 1 ELSE sema[r].mode[n]
    BY <1>1 DEF SemaSet
<1>6. CountsMatch'
    <2>1. SUFFICES ASSUME NEW r \in Slots, NEW n \in Modes
                   PROVE  sema'[r].mode[n] = Cardinality(Holders(r, n)')
        BY DEF CountsMatch
    <2>2. r # NoSema
        BY NoSemaNoSlot
    <2>3. sema[r].mode[n] = Cardinality(Holders(r, n)) /\ h \notin Holders(r, n)
        BY <2>2 DEF IInv, CountsMatch, Holders
    <2>4. CASE r = s /\ n = m
        <3>1. Holders(r, n)' = Holders(r, n) \cup {h}
            BY <1>4, <2>4 DEF Holders
        <3>2. IsFiniteSet(Holders(r, n))
            BY HoldersFinite
        <3>3. Cardinality(Holders(r, n)') = Cardinality(Holders(r, n)) + 1
            BY <2>3, <3>1, <3>2, FS_AddElement
        <3>4. QED
            BY <1>5, <2>3, <2>4, <3>3
    <2>5. CASE ~(r = s /\ n = m)
        <3>1. Holders(r, n)' = Holders(r, n)
            BY <1>4, <2>2, <2>5 DEF Holders
        <3>2. QED
            BY <1>5, <2>3, <2>5, <3>1
    <2>6. QED
        BY <2>4, <2>5
<1>7. NamedIffUsed'
    <2>1. SUFFICES ASSUME NEW r \in Slots
                   PROVE  (\A n \in Modes : sema'[r].mode[n] = 0) <=> sema'[r] = EmptySlot
        BY DEF NamedIffUsed, EmptySlot
    <2>2. CASE r = s
        <3>1. sema'[r].mode[m] # 0
            BY <1>1, <1>5, <2>2
        <3>2. sema'[r] # EmptySlot
            BY <3>1 DEF EmptySlot
        <3>3. QED
            BY <3>1, <3>2
    <2>3. CASE r # s
        <3>1. sema'[r] = sema[r]
            BY <1>1, <2>3 DEF SemaSet
        <3>2. QED
            BY <3>1 DEF IInv, NamedIffUsed
    <2>4. QED
        BY <2>2, <2>3
<1>8. ShortModifierExclusive'
    <2>1. SUFFICES ASSUME NEW i \in Handles, NEW k \in Handles,
                          handle'[i].slot # NoSema, handle'[k].slot = handle'[i].slot,
                          handle'[i].mode \in ShortModifiers,
                          handle'[k].mode \in ShortModifiers
                   PROVE  i = k
        BY DEF ShortModifierExclusive
    <2>2. \A j \in Handles : handle[j].slot = s => handle[j].mode \notin ShortModifiers
        BY QuietSlot
    <2>3. CASE i = h \/ k = h
        BY <1>4, <2>1, <2>2, <2>3
    <2>4. CASE i # h /\ k # h
        BY <1>4, <2>1, <2>4 DEF IInv, ShortModifierExclusive
    <2>5. QED
        BY <2>3, <2>4
<1>9. QED
    BY <1>2, <1>3, <1>6, <1>7, <1>8

(* Closing any set of open handles at once keeps the table consistent.     *)
LEMMA ClearKeepsTable ==
    ASSUME IInv, NEW H \in SUBSET Handles, \A h \in H : handle[h].slot # NoSema,
           sema' = SemaClr(H),
           handle' = [h \in Handles |-> IF h \in H THEN Closed ELSE handle[h]]
    PROVE  /\ sema' \in [Slots -> [file : Files \cup {NoFile}, mode : [Modes -> Nat],
                                   option : 0 .. 2]]
           /\ handle' \in [Handles -> {Closed} \cup
                            [slot : Slots, mode : Modes, tid : Actors, file : Files]]
           /\ CountsMatch' /\ NamedIffUsed' /\ ShortModifierExclusive'
<1>1. sema \in [Slots -> [file : Files \cup {NoFile}, mode : [Modes -> Nat], option : 0 .. 2]]
      /\ handle \in [Handles -> {Closed} \cup
                        [slot : Slots, mode : Modes, tid : Actors, file : Files]]
    BY DEF IInv, TypeOK
<1>2. \A s \in Slots, m \in Modes :
        /\ Left(s, m, H) = Cardinality(Holders(s, m)')
        /\ Left(s, m, H) \in Nat
    <2>1. SUFFICES ASSUME NEW s \in Slots, NEW m \in Modes
                   PROVE  Left(s, m, H) = Cardinality(Holders(s, m)') /\ Left(s, m, H) \in Nat
        OBVIOUS
    <2> DEFINE HH == {h \in H : handle[h].slot = s /\ handle[h].mode = m}
    <2>2. s # NoSema
        BY NoSemaNoSlot
    <2>3. Holders(s, m)' = Holders(s, m) \ HH
        BY <2>2 DEF Holders, Closed
    <2>4. Holders(s, m) \cap HH = HH
        BY DEF Holders
    <2>5. /\ IsFiniteSet(Holders(s, m) \ HH)
          /\ Cardinality(Holders(s, m) \ HH) = Cardinality(Holders(s, m)) - Cardinality(HH)
        BY <2>4, HoldersFinite, FS_Difference
    <2>6. Cardinality(Holders(s, m) \ HH) \in Nat
        BY <2>5, FS_CardinalityType
    <2>7. Left(s, m, H) = Cardinality(Holders(s, m)) - Cardinality(HH)
        BY DEF Left, IInv, CountsMatch
    <2>8. QED
        BY <2>3, <2>5, <2>6, <2>7
<1>3. \A s \in Slots, m \in Modes : sema'[s].mode[m] = Left(s, m, H)
    BY <1>1 DEF SemaClr, EmptySlot
<1>4. sema' \in [Slots -> [file : Files \cup {NoFile}, mode : [Modes -> Nat], option : 0 .. 2]]
    <2>1. EmptySlot \in [file : Files \cup {NoFile}, mode : [Modes -> Nat], option : 0 .. 2]
        BY DEF EmptySlot
    <2>2. \A s \in Slots :
            [sema[s] EXCEPT !.mode = [m \in Modes |-> Left(s, m, H)]]
                \in [file : Files \cup {NoFile}, mode : [Modes -> Nat], option : 0 .. 2]
        BY <1>1, <1>2
    <2>3. QED
        BY <2>1, <2>2 DEF SemaClr
<1>5. handle' \in [Handles -> {Closed} \cup
                        [slot : Slots, mode : Modes, tid : Actors, file : Files]]
    BY <1>1
<1>6. CountsMatch'
    BY <1>2, <1>3 DEF CountsMatch
<1>7. NamedIffUsed'
    <2>1. SUFFICES ASSUME NEW s \in Slots
                   PROVE  (\A m \in Modes : sema'[s].mode[m] = 0) <=> sema'[s] = EmptySlot
        BY DEF NamedIffUsed, EmptySlot
    <2>2. (\A m \in Modes : Left(s, m, H) = 0) => sema'[s] = EmptySlot
        BY DEF SemaClr
    <2>3. sema'[s] = EmptySlot => \A m \in Modes : sema'[s].mode[m] = 0
        BY DEF EmptySlot
    <2>4. QED
        BY <1>3, <2>2, <2>3
<1>8. ShortModifierExclusive'
    <2>1. \A h \in Handles : handle'[h].slot # NoSema => handle'[h] = handle[h]
        BY DEF Closed
    <2>2. QED
        BY <2>1 DEF IInv, ShortModifierExclusive
<1>9. QED
    BY <1>4, <1>5, <1>6, <1>7, <1>8

(* What TypeOK says of the state beside the table.                         *)
RestTypeOK ==
    /\ lock_sema \in [LockSlots -> {FreeLock} \cup [name : LockNames, tid : Tasks]]
    /\ disk \subseteq Files
    /\ pc \in [Tasks -> {"none", "run", "wait"}]
    /\ req \in [Tasks -> {NoReq} \cup [slot : Slots, mode : Modes, file : Files]]
    /\ semalock \in [Tasks -> BOOLEAN]
    /\ WaitMatches

TableOK ==
    /\ sema \in [Slots -> [file : Files \cup {NoFile}, mode : [Modes -> Nat],
                           option : 0 .. 2]]
    /\ handle \in [Handles ->
            {Closed} \cup [slot : Slots, mode : Modes, tid : Actors, file : Files]]
    /\ CountsMatch /\ NamedIffUsed /\ ShortModifierExclusive

LEMMA IInvParts == IInv <=> TableOK /\ RestTypeOK
BY DEF IInv, TypeOK, TableOK, RestTypeOK

LEMMA InitIInv == Init => IInv
<1> SUFFICES ASSUME Init PROVE IInv
    OBVIOUS
<1>1. EmptySlot \in [file : Files \cup {NoFile}, mode : [Modes -> Nat], option : 0 .. 2]
    BY DEF EmptySlot
<1>2. TypeOK /\ WaitMatches
    BY <1>1 DEF Init, TypeOK, WaitMatches
<1>3. CountsMatch
    <2>1. SUFFICES ASSUME NEW s \in Slots, NEW m \in Modes
                   PROVE  sema[s].mode[m] = Cardinality(Holders(s, m))
        BY DEF CountsMatch
    <2>2. Holders(s, m) = {}
        BY NoSemaNoSlot DEF Init, Holders, Closed
    <2>3. sema[s].mode[m] = 0
        BY DEF Init, EmptySlot
    <2>4. QED
        BY <2>2, <2>3, FS_EmptySet
<1>4. NamedIffUsed
    BY DEF Init, NamedIffUsed, EmptySlot
<1>5. ShortModifierExclusive
    BY DEF Init, ShortModifierExclusive, Closed
<1>6. QED
    BY <1>2, <1>3, <1>4, <1>5 DEF IInv

(* A granted access, found at once or after a wait.                        *)
LEMMA GrantKeepsInv ==
    ASSUME IInv, NEW a \in Actors, NEW s \in Slots, NEW f \in Files, NEW m \in Modes,
           ~Busy(s), Grant(a, s, f, m)
    PROVE  TableOK' /\ disk' \subseteq Files /\ semalock' \in [Tasks -> BOOLEAN]
<1>1. TableOK /\ RestTypeOK
    BY IInvParts
<1>2. semalock' \in [Tasks -> BOOLEAN]
    BY <1>1 DEF Grant, NoteSemalock, RestTypeOK
<1>3. CASE UNCHANGED <<sema, handle, disk>>
    BY <1>1, <1>2, <1>3 DEF TableOK, RestTypeOK, CountsMatch, Holders, NamedIffUsed,
                            ShortModifierExclusive
<1>4. ASSUME NEW h \in Handles, handle[h].slot = NoSema,
             sema' = SemaSet(s, f, m),
             handle' = [handle EXCEPT ![h] =
                          [slot |-> s, mode |-> m, tid |-> a, file |-> f]],
             disk' = disk \cup {f}
      PROVE  TableOK' /\ disk' \subseteq Files
    <2>1. TableOK'
        BY <1>4, GrantKeepsTable DEF TableOK
    <2>2. QED
        BY <1>1, <1>4, <2>1 DEF RestTypeOK
<1>5. QED
    BY <1>2, <1>3, <1>4 DEF Grant

LEMMA NextIInv == IInv /\ [Next]_vars => IInv'
<1> SUFFICES ASSUME IInv, [Next]_vars PROVE IInv'
    OBVIOUS
<1>0. TableOK /\ RestTypeOK
    BY IInvParts
<1>i. TableOK' /\ RestTypeOK' => IInv'
    BY DEF IInv, TypeOK, TableOK, RestTypeOK
<1>1. UNCHANGED <<sema, handle>> => TableOK'
    BY <1>0 DEF TableOK, CountsMatch, Holders, NamedIffUsed, ShortModifierExclusive
<1>2. ASSUME NEW a \in Actors, NEW f \in Files, NEW m \in Modes, OpenGranted(a, f, m)
      PROVE  IInv'
    <2>1. SlotFor(f) \in Slots /\ ~Busy(SlotFor(f)) /\ Grant(a, SlotFor(f), f, m)
        BY <1>2, SlotForType DEF OpenGranted
    <2>2. TableOK' /\ disk' \subseteq Files /\ semalock' \in [Tasks -> BOOLEAN]
        BY <2>1, GrantKeepsInv
    <2>3. RestTypeOK'
        BY <1>0, <1>2, <2>2 DEF OpenGranted, RestTypeOK, WaitMatches
    <2>4. QED
        BY <2>2, <2>3, <1>i
<1>3. ASSUME NEW a \in Actors, NEW f \in Files, NEW m \in Modes, OpenRefused(a, f, m)
      PROVE  IInv'
    <2>1. RestTypeOK'
        BY <1>0, <1>3 DEF OpenRefused, NoteSemalock, RestTypeOK, WaitMatches
    <2>2. QED
        BY <1>1, <1>3, <2>1, <1>i DEF OpenRefused
<1>4. ASSUME NEW t \in Tasks, NEW f \in Files, NEW m \in Modes, OpenWaits(t, f, m)
      PROVE  IInv'
    <2>1. SlotFor(f) \in Slots
        BY <1>4, SlotForType DEF OpenWaits
    <2> DEFINE new == [slot |-> SlotFor(f), mode |-> m, file |-> f]
    <2>a. new \in [slot : Slots, mode : Modes, file : Files] /\ new # NoReq
        BY <2>1, NoSemaNoSlot DEF NoReq
    <2>b. /\ pc' = [pc EXCEPT ![t] = "wait"] /\ req' = [req EXCEPT ![t] = new]
          /\ UNCHANGED <<sema, handle, lock_sema, disk, semalock>>
        BY <1>4 DEF OpenWaits
    <2>2. RestTypeOK'
        BY <1>0, <2>a, <2>b DEF RestTypeOK, WaitMatches
    <2>3. QED
        BY <1>1, <1>4, <2>2, <1>i DEF OpenWaits
<1>5. ASSUME NEW t \in Tasks, WaitEnds(t)
      PROVE  IInv'
    <2>1. req[t] \in [slot : Slots, mode : Modes, file : Files]
        BY <1>0, <1>5 DEF RestTypeOK, WaitMatches, WaitEnds
    <2>2. /\ req[t].slot \in Slots /\ req[t].mode \in Modes /\ req[t].file \in Files
          /\ t \in Actors
        BY <2>1 DEF Actors
    <2>3. ~Busy(req[t].slot) /\ Grant(t, req[t].slot, req[t].file, req[t].mode)
        BY <1>5 DEF WaitEnds
    <2>4. TableOK' /\ disk' \subseteq Files /\ semalock' \in [Tasks -> BOOLEAN]
        BY <2>2, <2>3, GrantKeepsInv
    <2>5. RestTypeOK'
        BY <1>0, <1>5, <2>4 DEF WaitEnds, RestTypeOK, WaitMatches
    <2>6. QED
        BY <2>4, <2>5, <1>i
<1>6. ASSUME NEW h \in Handles, Close(h)
      PROVE  IInv'
    <2>1. handle' = [k \in Handles |-> IF k \in {h} THEN Closed ELSE handle[k]]
        BY <1>0, <1>6 DEF Close, TableOK
    <2>2. TableOK'
        BY <1>6, <2>1, ClearKeepsTable DEF Close, TableOK
    <2>3. RestTypeOK'
        BY <1>0, <1>6 DEF Close, RestTypeOK, WaitMatches
    <2>4. QED
        BY <2>2, <2>3, <1>i
<1>7. ASSUME NEW h \in Handles, NEW opt \in Options, SetOpt(h, opt)
      PROVE  IInv'
    <2> DEFINE s == handle[h].slot
    <2>1. /\ s \in Slots /\ handle[h].mode \in Modes
          /\ sema' = [sema EXCEPT ![s].option = IF opt > @ THEN opt ELSE @]
          /\ UNCHANGED <<handle, lock_sema, disk, pc, req, semalock>>
        BY <1>7, OpenHandle DEF SetOpt, IInv
    <2>2. opt \in 0 .. 2
        BY SemaAssumption
    <2>3. sema \in [Slots -> [file : Files \cup {NoFile}, mode : [Modes -> Nat],
                              option : 0 .. 2]]
        BY <1>0 DEF TableOK
    <2>4. /\ sema' \in [Slots -> [file : Files \cup {NoFile}, mode : [Modes -> Nat],
                                  option : 0 .. 2]]
          /\ \A r \in Slots : sema'[r].mode = sema[r].mode
          /\ \A r \in Slots \ {s} : sema'[r] = sema[r]
        BY <2>1, <2>2, <2>3
    <2>5. CountsMatch' /\ ShortModifierExclusive'
        BY <1>0, <2>1, <2>4 DEF TableOK, CountsMatch, Holders, ShortModifierExclusive
    <2>6. sema[s].mode[handle[h].mode] # 0
        <3>1. h \in Holders(s, handle[h].mode)
            BY DEF Holders
        <3>2. Cardinality(Holders(s, handle[h].mode)) # 0
            BY <3>1, HoldersFinite, FS_EmptySet
        <3>3. QED
            BY <1>0, <2>1, <3>2 DEF TableOK, CountsMatch
    <2>7. NamedIffUsed'
        <3>1. sema'[s] # EmptySlot
            BY <2>1, <2>4, <2>6 DEF EmptySlot
        <3>2. QED
            BY <1>0, <2>1, <2>4, <2>6, <3>1 DEF TableOK, NamedIffUsed, EmptySlot
    <2>8. TableOK'
        BY <1>0, <2>1, <2>4, <2>5, <2>7 DEF TableOK
    <2>9. RestTypeOK'
        BY <1>0, <2>1 DEF RestTypeOK, WaitMatches
    <2>10. QED
        BY <2>8, <2>9, <1>i
<1>8. ASSUME NEW t \in Tasks, NEW n \in LockNames, SemaLock(t, n)
      PROVE  IInv'
    <2>1. RestTypeOK'
        BY <1>0, <1>8 DEF SemaLock, RestTypeOK, WaitMatches
    <2>2. QED
        BY <1>1, <1>8, <2>1, <1>i DEF SemaLock
<1>9. ASSUME NEW t \in Tasks, NEW n \in LockNames, SemaUnlock(t, n)
      PROVE  IInv'
    <2>1. RestTypeOK'
        BY <1>0, <1>9 DEF SemaUnlock, RestTypeOK, WaitMatches
    <2>2. QED
        BY <1>1, <1>9, <2>1, <1>i DEF SemaUnlock
<1>10. ASSUME NEW t \in Tasks, CloseTask(t)
       PROVE  IInv'
    <2>1. TableOK'
        BY <1>10, ClearKeepsTable DEF CloseTask, TableOK, OpenOf
    <2>2. RestTypeOK'
        BY <1>0, <1>10 DEF CloseTask, RestTypeOK, WaitMatches
    <2>3. QED
        BY <2>1, <2>2, <1>i
<1>11. ASSUME NEW t \in Tasks, Start(t)
       PROVE  IInv'
    <2>1. RestTypeOK'
        BY <1>0, <1>11 DEF Start, RestTypeOK, WaitMatches
    <2>2. QED
        BY <1>1, <1>11, <2>1, <1>i DEF Start
<1>12. CASE UNCHANGED vars
    <2>1. RestTypeOK'
        BY <1>0, <1>12 DEF vars, RestTypeOK, WaitMatches
    <2>2. QED
        BY <1>1, <1>12, <2>1, <1>i DEF vars
<1>13. QED
    BY <1>2, <1>3, <1>4, <1>5, <1>6, <1>7, <1>8, <1>9, <1>10, <1>11, <1>12 DEF Next, Open

-----------------------------------------------------------------------------
(* What belongs to a task.                                                 *)

OwnInv == GoneHoldsNothing /\ LockHasOneOwner

(* An access is granted to a task that is there, or to code outside of the *)
(* tasks; those that are gone still have no handle.                        *)
LEMMA GrantKeepsGone ==
    ASSUME IInv, GoneHoldsNothing, NEW a \in Actors, a # NOTASK => pc[a] # "none",
           NEW s \in Slots, NEW f \in Files, NEW m \in Modes, Grant(a, s, f, m),
           NEW t \in Tasks, pc[t] = "none"
    PROVE  OpenOf(t)' = {}
<1>1. OpenOf(t) = {} /\ t # a
    BY SemaAssumption DEF GoneHoldsNothing
<1>2. CASE UNCHANGED handle
    BY <1>1, <1>2 DEF OpenOf
<1>3. ASSUME NEW h \in Handles,
             handle' = [handle EXCEPT ![h] =
                          [slot |-> s, mode |-> m, tid |-> a, file |-> f]]
      PROVE  OpenOf(t)' = {}
    <2>1. handle'[h].tid = a /\ \A k \in Handles \ {h} : handle'[k] = handle[k]
        BY <1>3 DEF IInv, TypeOK
    <2>2. QED
        BY <1>1, <2>1 DEF OpenOf
<1>4. QED
    BY <1>2, <1>3 DEF Grant

LEMMA NextOwnInv == IInv /\ OwnInv /\ [Next]_vars => OwnInv'
<1> SUFFICES ASSUME IInv, OwnInv, [Next]_vars PROVE OwnInv'
    OBVIOUS
<1>0. /\ lock_sema \in [LockSlots -> {FreeLock} \cup [name : LockNames, tid : Tasks]]
      /\ pc \in [Tasks -> {"none", "run", "wait"}]
      /\ req \in [Tasks -> {NoReq} \cup [slot : Slots, mode : Modes, file : Files]]
      /\ \A t \in Tasks : pc[t] = "none" => req[t] = NoReq
    BY DEF IInv, TypeOK, WaitMatches
<1>1. UNCHANGED <<pc, lock_sema>> => LockHasOneOwner'
    BY DEF OwnInv, LockHasOneOwner
<1>2. ASSUME NEW a \in Actors, NEW f \in Files, NEW m \in Modes, OpenGranted(a, f, m)
      PROVE  OwnInv'
    <2>1. SlotFor(f) \in Slots /\ Grant(a, SlotFor(f), f, m) /\ (a # NOTASK => pc[a] # "none")
        BY <1>2, SlotForType DEF OpenGranted, Runs
    <2>2. \A t \in Tasks : pc[t] = "none" => OpenOf(t)' = {}
        BY <2>1, GrantKeepsGone DEF OwnInv
    <2>3. UNCHANGED <<lock_sema, pc, req>>
        BY <1>2 DEF OpenGranted
    <2>4. QED
        BY <1>1, <2>2, <2>3 DEF OwnInv, GoneHoldsNothing
<1>3. ASSUME NEW a \in Actors, NEW f \in Files, NEW m \in Modes, OpenRefused(a, f, m)
      PROVE  OwnInv'
    BY <1>1, <1>3 DEF OpenRefused, OwnInv, GoneHoldsNothing, OpenOf
<1>4. ASSUME NEW t \in Tasks, NEW f \in Files, NEW m \in Modes, OpenWaits(t, f, m)
      PROVE  OwnInv'
    <2>1. pc[t] = "run" /\ pc' = [pc EXCEPT ![t] = "wait"] /\ UNCHANGED <<handle, lock_sema>>
        BY <1>4, SemaAssumption DEF OpenWaits, Runs
    <2>2. \A u \in Tasks \ {t} : req'[u] = req[u]
        BY <1>0, <1>4 DEF OpenWaits
    <2>3. \A u \in Tasks : pc'[u] = "none" <=> pc[u] = "none"
        BY <1>0, <2>1
    <2>4. GoneHoldsNothing'
        BY <1>0, <2>1, <2>2, <2>3 DEF OwnInv, GoneHoldsNothing, OpenOf
    <2>5. LockHasOneOwner'
        BY <1>0, <2>1, <2>3 DEF OwnInv, LockHasOneOwner
    <2>6. QED
        BY <2>4, <2>5 DEF OwnInv
<1>5. ASSUME NEW t \in Tasks, WaitEnds(t)
      PROVE  OwnInv'
    <2>0. pc[t] = "wait" /\ req[t] \in [slot : Slots, mode : Modes, file : Files]
        BY <1>0, <1>5 DEF WaitEnds, IInv, WaitMatches
    <2>1. /\ req[t].slot \in Slots /\ req[t].mode \in Modes /\ req[t].file \in Files
          /\ t \in Actors /\ pc[t] # "none"
        BY <2>0 DEF Actors
    <2>2. Grant(t, req[t].slot, req[t].file, req[t].mode) /\ UNCHANGED lock_sema
        BY <1>5 DEF WaitEnds
    <2>3. \A u \in Tasks : pc[u] = "none" => OpenOf(u)' = {}
        BY <2>1, <2>2, GrantKeepsGone DEF OwnInv
    <2>4. \A u \in Tasks : /\ pc'[u] = "none" <=> pc[u] = "none"
                           /\ pc[u] = "none" => req'[u] = req[u]
        BY <1>0, <1>5, <2>0 DEF WaitEnds
    <2>5. GoneHoldsNothing'
        BY <2>2, <2>3, <2>4 DEF OwnInv, GoneHoldsNothing
    <2>6. LockHasOneOwner'
        BY <2>2, <2>4 DEF OwnInv, LockHasOneOwner
    <2>7. QED
        BY <2>5, <2>6 DEF OwnInv
<1>6. ASSUME NEW h \in Handles, Close(h)
      PROVE  OwnInv'
    <2>1. /\ handle' = [handle EXCEPT ![h] = Closed] /\ UNCHANGED <<lock_sema, pc, req>>
        BY <1>6 DEF Close
    <2>2. \A k \in Handles : handle'[k].slot # NoSema => handle'[k] = handle[k]
        BY <2>1 DEF IInv, TypeOK, Closed
    <2>3. \A t : OpenOf(t)' \subseteq OpenOf(t)
        BY <2>2 DEF OpenOf
    <2>4. QED
        BY <1>1, <2>1, <2>3 DEF OwnInv, GoneHoldsNothing
<1>7. ASSUME NEW h \in Handles, NEW opt \in Options, SetOpt(h, opt)
      PROVE  OwnInv'
    BY <1>1, <1>7 DEF SetOpt, OwnInv, GoneHoldsNothing, OpenOf
<1>8. ASSUME NEW t \in Tasks, NEW n \in LockNames, SemaLock(t, n)
      PROVE  OwnInv'
    <2>1. pc[t] = "run" /\ UNCHANGED <<handle, pc, req>>
        BY <1>8, SemaAssumption DEF SemaLock, Runs
    <2>2. \A i \in LockSlots : lock_sema[i].name # n
        BY <1>8 DEF SemaLock
    <2>3. PICK i \in LockSlots : lock_sema' = [lock_sema EXCEPT ![i] = [name |-> n, tid |-> t]]
        BY <1>8 DEF SemaLock
    <2>4. /\ lock_sema'[i].name = n /\ lock_sema'[i].tid = t
          /\ \A j \in LockSlots \ {i} : lock_sema'[j] = lock_sema[j]
        BY <1>0, <2>3
    <2>5. GoneHoldsNothing'
        BY <2>1, <2>4 DEF OwnInv, GoneHoldsNothing, OpenOf
    <2>6. LockHasOneOwner'
        BY <2>1, <2>2, <2>4 DEF OwnInv, LockHasOneOwner
    <2>7. QED
        BY <2>5, <2>6 DEF OwnInv
<1>9. ASSUME NEW t \in Tasks, NEW n \in LockNames, SemaUnlock(t, n)
      PROVE  OwnInv'
    <2>1. /\ UNCHANGED <<handle, pc, req>>
          /\ \A i \in LockSlots : lock_sema'[i] \in {FreeLock, lock_sema[i]}
        BY <1>9 DEF SemaUnlock
    <2>2. FreeLock.name = NoLock /\ FreeLock.tid \notin Tasks
        BY SemaAssumption DEF FreeLock
    <2>3. GoneHoldsNothing'
        BY <2>1, <2>2 DEF OwnInv, GoneHoldsNothing, OpenOf
    <2>4. LockHasOneOwner'
        BY <2>1, <2>2 DEF OwnInv, LockHasOneOwner
    <2>5. QED
        BY <2>3, <2>4 DEF OwnInv
<1>10. ASSUME NEW t \in Tasks, CloseTask(t)
       PROVE  OwnInv'
    <2>1. /\ pc' = [pc EXCEPT ![t] = "none"] /\ req' = [req EXCEPT ![t] = NoReq]
          /\ handle' = [h \in Handles |-> IF h \in OpenOf(t) THEN Closed ELSE handle[h]]
          /\ lock_sema' = [i \in LockSlots |->
                IF lock_sema[i].tid = t THEN FreeLock ELSE lock_sema[i]]
        BY <1>10 DEF CloseTask
    <2>2. FreeLock.name = NoLock /\ FreeLock.tid \notin Tasks
        BY SemaAssumption DEF FreeLock
    <2>3. /\ pc'[t] = "none" /\ req'[t] = NoReq
          /\ \A u \in Tasks \ {t} : pc'[u] = pc[u] /\ req'[u] = req[u]
        BY <1>0, <2>1
    <2>4. OpenOf(t)' = {} /\ \A u : OpenOf(u)' \subseteq OpenOf(u)
        BY <2>1 DEF OpenOf, Closed
    <2>5. \A i \in LockSlots : /\ lock_sema'[i] \in {FreeLock, lock_sema[i]}
                              /\ lock_sema'[i].tid # t
        BY <2>1, <2>2
    <2>6. GoneHoldsNothing'
        BY <2>2, <2>3, <2>4, <2>5 DEF OwnInv, GoneHoldsNothing
    <2>7. LockHasOneOwner'
        BY <2>2, <2>3, <2>5 DEF OwnInv, LockHasOneOwner
    <2>8. QED
        BY <2>6, <2>7 DEF OwnInv
<1>11. ASSUME NEW t \in Tasks, Start(t)
       PROVE  OwnInv'
    <2>1. pc[t] = "none" /\ pc' = [pc EXCEPT ![t] = "run"]
          /\ UNCHANGED <<handle, lock_sema, req>>
        BY <1>11 DEF Start
    <2>2. \A u \in Tasks : pc'[u] = "none" => pc[u] = "none"
        BY <1>0, <2>1
    <2>3. \A u \in Tasks : pc[u] # "none" => pc'[u] # "none"
        BY <1>0, <2>1
    <2>4. GoneHoldsNothing'
        BY <2>1, <2>2 DEF OwnInv, GoneHoldsNothing, OpenOf
    <2>5. LockHasOneOwner'
        BY <2>1, <2>3 DEF OwnInv, LockHasOneOwner
    <2>6. QED
        BY <2>4, <2>5 DEF OwnInv
<1>12. CASE UNCHANGED vars
    BY <1>1, <1>12 DEF vars, OwnInv, GoneHoldsNothing, OpenOf
<1>13. QED
    BY <1>2, <1>3, <1>4, <1>5, <1>6, <1>7, <1>8, <1>9, <1>10, <1>11, <1>12 DEF Next, Open
-----------------------------------------------------------------------------
(* The table of sema.cpp is consistent in every reachable state.           *)
THEOREM TableInvariant == Spec => []IInv
BY InitIInv, NextIInv, PTL DEF Spec

(* Types: no count of a slot is ever negative.                             *)
THEOREM TypeCorrect == Spec => []TypeOK
BY TableInvariant, PTL DEF IInv

(* Every slot counts exactly its open handles.                             *)
THEOREM CountsCorrect == Spec => []CountsMatch
BY TableInvariant, PTL DEF IInv

(* A slot has a name and a delete option only while it is in use.          *)
THEOREM NamesCorrect == Spec => []NamedIffUsed
BY TableInvariant, PTL DEF IInv

(* However many tasks polled for a file, one short modifier at a time gets *)
(* into its slot.                                                          *)
THEOREM ShortModifiersExclude == Spec => []ShortModifierExclusive
BY TableInvariant, PTL DEF IInv

LEMMA InitOwnInv == Init => OwnInv
BY SemaAssumption DEF Init, OwnInv, GoneHoldsNothing, LockHasOneOwner, OpenOf, Closed, FreeLock

(* A task that is gone has left no handle, no place in sema_set and no     *)
(* lock, wherever it was stopped.                                          *)
THEOREM GoneTasksHoldNothing == Spec => []GoneHoldsNothing
<1>1. Init => IInv /\ OwnInv
    BY InitIInv, InitOwnInv
<1>2. IInv /\ OwnInv /\ [Next]_vars => (IInv /\ OwnInv)'
    BY NextIInv, NextOwnInv
<1>3. OwnInv => GoneHoldsNothing
    BY DEF OwnInv
<1>4. QED
    BY <1>1, <1>2, <1>3, PTL DEF Spec

(* A named lock is held once, and by a task that is there to give it back. *)
THEOREM LocksHaveOneOwner == Spec => []LockHasOneOwner
<1>1. Init => IInv /\ OwnInv
    BY InitIInv, InitOwnInv
<1>2. IInv /\ OwnInv /\ [Next]_vars => (IInv /\ OwnInv)'
    BY NextIInv, NextOwnInv
<1>3. OwnInv => LockHasOneOwner
    BY DEF OwnInv
<1>4. QED
    BY <1>1, <1>2, <1>3, PTL DEF Spec

-----------------------------------------------------------------------------
(* What a step may never do.                                               *)

(* A new handle refers to the slot the access was granted in.              *)
LEMMA GrantOpensInSlot ==
    ASSUME IInv, NEW a \in Actors, NEW s \in Slots, NEW f \in Files, NEW m \in Modes,
           Grant(a, s, f, m), NEW h \in Handles, handle[h] = Closed, handle'[h] # Closed
    PROVE  handle'[h].slot = s
<1>1. ~UNCHANGED handle
    OBVIOUS
<1>2. PICK k \in Handles : handle' = [handle EXCEPT ![k] =
                              [slot |-> s, mode |-> m, tid |-> a, file |-> f]]
    BY <1>1 DEF Grant
<1>3. h = k
    BY <1>2 DEF IInv, TypeOK
<1>4. QED
    BY <1>2, <1>3 DEF IInv, TypeOK

Admission ==
    \A h \in Handles :
        handle[h] = Closed /\ handle'[h] # Closed => ~Busy(handle'[h].slot)

LEMMA NextAdmission == IInv /\ [Next]_vars => [Admission]_vars
<1> SUFFICES ASSUME IInv, Next PROVE Admission
    OBVIOUS
<1>1. UNCHANGED handle => Admission
    BY DEF Admission
<1>2. ASSUME NEW a \in Actors, NEW f \in Files, NEW m \in Modes, OpenGranted(a, f, m)
      PROVE  Admission
    <2>1. SlotFor(f) \in Slots /\ ~Busy(SlotFor(f)) /\ Grant(a, SlotFor(f), f, m)
        BY <1>2, SlotForType DEF OpenGranted
    <2>2. QED
        BY <2>1, GrantOpensInSlot DEF Admission
<1>3. ASSUME NEW t \in Tasks, WaitEnds(t)
      PROVE  Admission
    <2>1. req[t] \in [slot : Slots, mode : Modes, file : Files]
        BY <1>3 DEF WaitEnds, IInv, TypeOK, WaitMatches
    <2>2. /\ req[t].slot \in Slots /\ req[t].mode \in Modes /\ req[t].file \in Files
          /\ t \in Actors
        BY <2>1 DEF Actors
    <2>3. ~Busy(req[t].slot) /\ Grant(t, req[t].slot, req[t].file, req[t].mode)
        BY <1>3 DEF WaitEnds
    <2>4. QED
        BY <2>2, <2>3, GrantOpensInSlot DEF Admission
<1>4. ASSUME NEW h \in Handles, Close(h)
      PROVE  Admission
    <2>1. \A k \in Handles : handle'[k] = handle[k] \/ handle'[k] = Closed
        BY <1>4 DEF Close, IInv, TypeOK
    <2>2. QED
        BY <2>1 DEF Admission
<1>5. ASSUME NEW t \in Tasks, CloseTask(t)
      PROVE  Admission
    BY <1>5 DEF CloseTask, Admission
<1>6. QED
    BY <1>1, <1>2, <1>3, <1>4, <1>5
    DEF Next, Open, OpenRefused, OpenWaits, SetOpt, SemaLock, SemaUnlock, Start

(* Nothing gets into a slot in which a short modifying access is running.  *)
THEOREM AdmissionIsQuiet == Spec => AdmittedWhenQuiet
<1>1. [][Admission]_vars => AdmittedWhenQuiet
    BY PTL DEF AdmittedWhenQuiet, Admission
<1>2. QED
    BY <1>1, TableInvariant, NextAdmission, PTL DEF Spec

(* Who closes the last access to a slot has had it open.                   *)
LEMMA LastCloserHeld ==
    ASSUME IInv, NEW H \in SUBSET Handles, \A h \in H : handle[h].slot # NoSema,
           sema' = SemaClr(H),
           handle' = [h \in Handles |-> IF h \in H THEN Closed ELSE handle[h]],
           NEW s \in Slots, sema[s] # EmptySlot, sema'[s] = EmptySlot
    PROVE  \E h \in H : handle[h].slot = s
<1>1. PICK m \in Modes : sema[s].mode[m] # 0
    BY DEF IInv, NamedIffUsed
<1>2. Holders(s, m) # {}
    BY <1>1, FS_EmptySet DEF IInv, CountsMatch
<1>3. sema'[s].mode[m] = 0 /\ CountsMatch'
    BY ClearKeepsTable DEF EmptySlot
<1>4. Holders(s, m)' = {}
    <2>1. Holders(s, m)' \in SUBSET Handles
        BY DEF Holders
    <2>2. IsFiniteSet(Holders(s, m)')
        BY <2>1, SemaAssumption, FS_Subset
    <2>3. QED
        BY <1>3, <2>2, FS_EmptySet DEF CountsMatch
<1>5. PICK h \in Handles : handle[h].slot = s /\ handle[h].mode = m
    BY <1>2 DEF Holders
<1>6. h \in H
    BY <1>4, <1>5 DEF Holders
<1>7. QED
    BY <1>5, <1>6

Deletion ==
    /\ \A s \in Slots :
          sema[s].option = 2 /\ sema'[s] = EmptySlot => sema[s].file \notin disk'
    /\ \A f \in disk \ disk' : \E s \in Named(f) : sema[s].option > 0

(* Closing the handles H and deleting what has one of the options O, of    *)
(* which 2 is one, deletes what the options ask for and nothing else.      *)
LEMMA CloseDeletes ==
    ASSUME IInv, NEW H \in SUBSET Handles, \A h \in H : handle[h].slot # NoSema,
           sema' = SemaClr(H),
           handle' = [h \in Handles |-> IF h \in H THEN Closed ELSE handle[h]],
           NEW O \in SUBSET {1, 2}, 2 \in O, disk' = disk \ Unlinked(H, O)
    PROVE  Deletion
<1>1. ASSUME NEW s \in Slots, sema[s].option = 2, sema'[s] = EmptySlot
      PROVE  sema[s].file \notin disk'
    <2>1. sema[s] # EmptySlot
        BY <1>1 DEF EmptySlot
    <2>2. PICK h \in H : handle[h].slot = s
        BY <1>1, <2>1, LastCloserHeld
    <2>3. sema[s].file \in Unlinked(H, O)
        BY <1>1, <2>2 DEF Unlinked
    <2>4. QED
        BY <2>3
<1>2. ASSUME NEW f \in disk \ disk'
      PROVE  \E s \in Named(f) : sema[s].option > 0
    <2>1. PICK h \in H : sema[handle[h].slot].option \in O /\ sema[handle[h].slot].file = f
        BY <1>2 DEF Unlinked
    <2>2. handle[h].slot \in Slots
        BY OpenHandle DEF IInv
    <2>3. handle[h].slot \in Named(f)
        BY <2>1, <2>2 DEF Named
    <2>4. sema[handle[h].slot].option \in {1, 2}
        BY <2>1
    <2>5. sema[handle[h].slot].option > 0
        BY <2>4
    <2>6. QED
        BY <2>3, <2>5
<1>3. QED
    BY <1>1, <1>2 DEF Deletion

LEMMA NextDeletion == IInv /\ [Next]_vars => [Deletion]_vars
<1> SUFFICES ASSUME IInv, Next PROVE Deletion
    OBVIOUS
<1>0. /\ sema \in [Slots -> [file : Files \cup {NoFile}, mode : [Modes -> Nat],
                             option : 0 .. 2]]
      /\ handle \in [Handles -> {Closed} \cup
                        [slot : Slots, mode : Modes, tid : Actors, file : Files]]
    BY DEF IInv, TypeOK
<1>1. disk \subseteq disk' /\ (\A s \in Slots : sema'[s].option >= sema[s].option)
        => Deletion
    BY <1>0 DEF Deletion, EmptySlot
<1>2. UNCHANGED <<sema, disk>> => Deletion
    BY <1>0, <1>1
<1>3. ASSUME NEW a, NEW s, NEW f, NEW m, Grant(a, s, f, m)
      PROVE  Deletion
    <2>1. ASSUME sema' = SemaSet(s, f, m), disk' = disk \cup {f}
          PROVE  Deletion
        <3>1. \A r \in Slots : sema'[r].option = sema[r].option
            BY <1>0, <2>1 DEF SemaSet
        <3>2. QED
            BY <1>0, <1>1, <2>1, <3>1
    <2>2. QED
        BY <1>2, <1>3, <2>1 DEF Grant
<1>4. ASSUME NEW h \in Handles, NEW opt \in Options, SetOpt(h, opt)
      PROVE  Deletion
    <2>1. /\ sema' = [sema EXCEPT ![handle[h].slot].option = IF opt > @ THEN opt ELSE @]
          /\ disk' = disk /\ opt \in Int
        BY <1>4, SemaAssumption DEF SetOpt
    <2>2. \A s \in Slots : sema'[s].option >= sema[s].option
        BY <1>0, <2>1
    <2>3. QED
        BY <1>1, <2>1, <2>2
<1>5. ASSUME NEW h \in Handles, Close(h)
      PROVE  Deletion
    <2>1. handle' = [k \in Handles |-> IF k \in {h} THEN Closed ELSE handle[k]]
        BY <1>0, <1>5 DEF Close
    <2>2. /\ handle[h].slot # NoSema /\ sema' = SemaClr({h})
          /\ disk' = disk \ Unlinked({h}, {2})
        BY <1>5 DEF Close
    <2>3. QED
        BY <2>1, <2>2, CloseDeletes
<1>6. ASSUME NEW t \in Tasks, CloseTask(t)
      PROVE  Deletion
    <2>1. /\ OpenOf(t) \in SUBSET Handles
          /\ \A h \in OpenOf(t) : handle[h].slot # NoSema
        BY DEF OpenOf
    <2>2. /\ handle' = [h \in Handles |-> IF h \in OpenOf(t) THEN Closed ELSE handle[h]]
          /\ sema' = SemaClr(OpenOf(t))
          /\ disk' = disk \ Unlinked(OpenOf(t), {1, 2})
        BY <1>6 DEF CloseTask
    <2>3. QED
        BY <2>1, <2>2, CloseDeletes
<1>7. QED
    BY <1>2, <1>3, <1>4, <1>5, <1>6
    DEF Next, Open, OpenGranted, WaitEnds, OpenRefused, OpenWaits, SemaLock, SemaUnlock, Start

(* A file with delete option 2 is gone after its last close, and no close  *)
(* or kill deletes a file whose slot carries no option.                    *)
THEOREM DeletionMatchesOptions == Spec => DeletesMatchOptions
<1>1. [][Deletion]_vars => DeletesMatchOptions
    BY PTL DEF DeletesMatchOptions, Deletion
<1>2. QED
    BY <1>1, TableInvariant, NextDeletion, PTL DEF Spec
=============================================================================
